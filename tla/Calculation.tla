---------------------------- MODULE Calculation ----------------------------
(***************************************************************************)
(* The statuses of calculations and runs, and the status a run takes from  *)
(* its calculations (common/src/model.rs).  A pure module: no state.       *)
(***************************************************************************)

\* CalcStatus, split the way CalcStatus::is_terminal splits it.
ActiveCalc   == {"pending", "running", "retrying"}
TerminalCalc == {"succeeded", "failed", "cancelled"}
CalcStatus   == ActiveCalc \cup TerminalCalc

RunStatus == {"pending", "running", "succeeded", "partially_succeeded",
              "failed", "cancelled"}

\* Mutant of DeriveRunStatus: when all statuses are alike the run takes theirs.
DeriveAlike(statuses) ==
    IF \E s \in CalcStatus : statuses = {s} THEN CHOOSE s \in CalcStatus : statuses = {s}
    ELSE IF statuses \cap ActiveCalc # {} THEN "running" ELSE "partially_succeeded"

\* Mutant of DeriveRunStatus: a pending calculation does not keep the run active.
DeriveIgnoringPending(statuses) ==
    CASE statuses \cap {"running", "retrying"} # {} -> "running"
      [] statuses \subseteq {"succeeded", "pending"} -> "succeeded"
      [] statuses \subseteq {"failed", "pending"}    -> "failed"
      [] OTHER                                       -> "partially_succeeded"

\* derive_run_status.  The code counts the statuses in a list; only whether a
\* status occurs and whether it is the only one decides, so a set is enough.
DeriveRunStatus(statuses) ==
    CASE statuses = {}                        -> "pending"
      [] statuses \cap ActiveCalc # {}        -> "running"
      [] statuses = {"succeeded"}             -> "succeeded"
      [] statuses = {"cancelled"}             -> "cancelled"
      [] statuses = {"failed"}                -> "failed"
      [] OTHER                                -> "partially_succeeded"

\* The run statuses derive_run_status gives a run that has nothing left to do.
SettledRun == RunStatus \ {"pending", "running"}
=============================================================================
