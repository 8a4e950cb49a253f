------------------------------ MODULE MCRunsd ------------------------------
(* Small instances of Runsd for TLC. *)
EXTENDS RunsdProperties

OneRun == [c \in Calcs |-> CHOOSE r \in Runs : TRUE]

Limit(crash, stall, dbError, cancel, retry, shutdown) ==
    [k \in Kinds |-> CASE k = "crash"    -> crash
                       [] k = "stall"    -> stall
                       [] k = "dbError"  -> dbError
                       [] k = "cancel"   -> cancel
                       [] k = "retry"    -> retry
                       [] k = "shutdown" -> shutdown]

NoFaults  == Limit(0, 0, 0, 0, 0, 0)
OneError  == Limit(0, 0, 1, 0, 0, 0)
Users     == Limit(0, 0, 0, 1, 1, 0)
Crashes   == Limit(1, 1, 0, 0, 0, 1)
OneCancel == Limit(0, 0, 0, 1, 0, 0)
Retries   == Limit(0, 0, 0, 0, 2, 0)
=============================================================================
