------------------------------ MODULE MCEvents ------------------------------
(* A small instance of EventStream for TLC. *)
EXTENDS EventProperties
=============================================================================
