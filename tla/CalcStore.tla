----------------------------- MODULE CalcStore -----------------------------
(***************************************************************************)
(* The rows of the table `calculations' and the UPDATEs of db/queries.rs,  *)
(* one operator each.  Every UPDATE is keyed by the id alone: none looks   *)
(* at the status, the owner or the attempt the row has when it is applied. *)
(* The db actor applies them one at a time, in the order it receives them. *)
(*                                                                         *)
(* Timestamps are kept relative to the clock: next_attempt_at is "later"   *)
(* or "due", lease_expires_at "live" or "expired", and "none" is NULL.     *)
(***************************************************************************)
EXTENDS Calculation, Naturals

CONSTANT MaxAttempts   \* calculations.max_attempts (retry.max_attempts)

ASSUME MaxAttemptsAssumption == MaxAttempts \in Nat

Row == [status  : CalcStatus \cup {"absent"},
        attempt : Nat,
        nextAt  : {"none", "later", "due"},
        lease   : {"none", "live", "expired"}]

NoRow == [status |-> "absent", attempt |-> 0, nextAt |-> "none", lease |-> "none"]

\* insert_calculation, of the Calculation that Supervisor::submit_run builds.
NewRow == [NoRow EXCEPT !.status = "pending"]

\* Mutant of Started: calc_started forgets the lease.
StartedUnleased(r) == [r EXCEPT !.status = "running"]

Started(r) == [r EXCEPT !.status = "running", !.lease = "live"]

\* update_calc_heartbeat renews the lease whatever status the row has.
Heartbeat(r) == [r EXCEPT !.lease = "live"]

\* update_calc_succeeded, update_calc_failed and update_calc_cancelled.
Closed(r, status) == [r EXCEPT !.status = status, !.lease = "none"]

Retrying(r, n, at) ==
    [r EXCEPT !.status = "retrying", !.attempt = n, !.nextAt = at, !.lease = "none"]

\* Mutant of ResetPending: the attempts made so far are kept.
ResetKeepingAttempt(r) ==
    [r EXCEPT !.status = "pending", !.nextAt = "none", !.lease = "none"]

\* update_calc_pending overwrites every column kept here; it forgets the attempts
\* made so far.
ResetPending(r) == [status |-> "pending", attempt |-> 0, nextAt |-> "none", lease |-> "none"]

\* The WHERE clauses of list_expired_leases and list_ready_retries.
LeaseExpired(r) == r.status = "running" /\ r.lease = "expired"
RetryReady(r)   == r.status = "retrying" /\ r.nextAt = "due"

\* The WHERE clause of crash_recovery_sweep: also every retrying row whose
\* lease is NULL, that is, calculations nobody was running.
SweepTakes(r) == r.status \in {"running", "retrying"} /\ r.lease # "live"

\* Mutant of Charged: the bound is compared with the attempt before it is raised.
ChargedOnceMore(r, attempt) ==
    IF attempt > MaxAttempts THEN Closed(r, "failed") ELSE Retrying(r, attempt + 1, "later")

\* What the sweep at startup and the watchdog do with a calculation they read
\* at the given attempt: charge it one more, or fail it for good.
Charged(r, attempt) ==
    IF attempt + 1 > MaxAttempts THEN Closed(r, "failed")
                                 ELSE Retrying(r, attempt + 1, "later")

\* Mutant of IsActive: pending calculations are not restored.
IsStarted(r) == r.status \in {"running", "retrying"}

\* The filter of list_active_run_ids and Supervisor::restore_active_runs.
IsActive(r) == r.status \in ActiveCalc
=============================================================================
