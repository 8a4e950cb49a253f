--------------------------- MODULE CalcLifecycle ---------------------------
(***************************************************************************)
(* What the daemon promises a client that looks at runs and calculations,  *)
(* as long as nothing fails and nobody cancels or retries: a calculation   *)
(* is pending, then running, then ended; a run is shown as settled once,   *)
(* when all its calculations have ended, and with the status they give.    *)
(* No actors, leases, notifications or refreshes: Runsd implements this.   *)
(***************************************************************************)
EXTENDS Calculation

CONSTANTS Runs, Calcs, RunOf

VARIABLES
    status,   \* of each calculation, "absent" before it is stored
    shown     \* of each run, "absent" before it is stored

StatusesIn(r) == {status[c] : c \in {d \in Calcs : RunOf[d] = r}}

Submitted(r) ==
    /\ shown[r] = "absent"
    /\ shown' = [shown EXCEPT ![r] = "pending"]
    /\ UNCHANGED status

Moves(c, from, to) ==
    /\ status[c] \in from
    /\ status' = [status EXCEPT ![c] = to]
    /\ UNCHANGED shown

Progresses(c) ==
    \/ shown[RunOf[c]] = "pending" /\ Moves(c, {"absent"}, "pending")
    \/ Moves(c, {"pending"}, "running")
    \/ \E end \in {"succeeded", "failed"} : Moves(c, {"running"}, end)

\* While calculations end, the run may be shown as running, never as settled.
Shows(r) ==
    /\ shown[r] \in {"pending", "running"}
    /\ \E c \in Calcs : RunOf[c] = r /\ status[c] \in TerminalCalc
    /\ shown' = [shown EXCEPT ![r] = "running"]
    /\ UNCHANGED status

Settles(r) ==
    /\ shown[r] \in {"pending", "running"}
    /\ StatusesIn(r) \subseteq TerminalCalc
    /\ shown' = [shown EXCEPT ![r] = DeriveRunStatus(StatusesIn(r))]
    /\ UNCHANGED status

Init ==
    /\ status = [c \in Calcs |-> "absent"]
    /\ shown = [r \in Runs |-> "absent"]

Next ==
    \/ \E r \in Runs : Submitted(r) \/ Shows(r) \/ Settles(r)
    \/ \E c \in Calcs : Progresses(c)

Spec == Init /\ [][Next]_<<status, shown>>
=============================================================================
