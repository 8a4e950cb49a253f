----------------------------- MODULE MCRunsdApi -----------------------------
(* Small instances of RunsdApi for TLC. *)
EXTENDS RunsdApi

OneRun == [c \in Calcs |-> CHOOSE r \in Runs : TRUE]

Limit(some) == [k \in Kinds |-> IF k \in DOMAIN some THEN some[k] ELSE 0]

OneOfEach == Limit([crash |-> 1, stall |-> 1])
=============================================================================
