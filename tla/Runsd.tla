------------------------------- MODULE Runsd -------------------------------
(***************************************************************************)
(* The daemon `runsd': the supervisor and its mailbox, the run actors, the *)
(* calculation actors with their heartbeat tasks, the worker pool, the     *)
(* watchdog, startup with its crash recovery sweep, and the database they  *)
(* share (module CalcStore).  Every task runs concurrently with the others *)
(* and every database command is one atomic step.                          *)
(*                                                                         *)
(* A handler is one action unless other tasks can tell its steps apart:    *)
(* receiving a message, taking a permit and sending a notification change  *)
(* only the task's own view, so they happen with the database command next *)
(* to them.  Where two database commands follow each other, two actions.   *)
(***************************************************************************)
EXTENDS CalcStore, Integers, Sequences, FiniteSets

CONSTANTS
    Runs, Calcs,
    RunOf,           \* the run of each calculation
    MaxActors,       \* bound: live actors of one calculation
    MaxConcurrent,   \* server.max_concurrent_calculations
    MailboxCap,      \* SUBMIT_MAILBOX_CAPACITY
    Outcomes,        \* what the external API may answer
    LateBeats,       \* whether a heartbeat may outlive the abort of its task
    Limits           \* bounds on faults and requests, by kind

Kinds == {"crash", "stall", "dbError", "cancel", "retry", "shutdown"}

ASSUME RunsdAssumption ==
    /\ RunOf \in [Calcs -> Runs]
    /\ IsFiniteSet(Calcs) /\ IsFiniteSet(Runs)
    /\ MaxActors \in Nat /\ MaxConcurrent \in Nat \ {0} /\ MailboxCap \in Nat \ {0}
    /\ Outcomes \subseteq {"succeeded", "transient", "permanent"}
    /\ LateBeats \in BOOLEAN
    /\ Limits \in [Kinds -> Nat]

VARIABLES
    row,        \* the table calculations
    runStatus,  \* runs.status; "absent" before insert_run
    actor,      \* the calculation actors
    beat,       \* the heartbeat task of each
    runActor,   \* the run actor of each run
    sup,        \* the supervisor: where it is and what it works on
    mailbox,    \* commands sent to the supervisor
    retryOk,    \* retry requests whose status check has passed
    wd,         \* the watchdog: where it is and the rows it has read
    daemon,     \* "down", "sweep" (with the rows still to sweep) or "up"
    spent       \* faults and requests so far, bounded by Limits

vars == <<row, runStatus, actor, beat, runActor, sup, mailbox, retryOk, wd, daemon, spent>>

----------------------------------------------------------------------------
(* Tasks                                                                   *)

\* The actors of a calculation are numbered: the watchdog and a retry can
\* start one while an earlier one still runs.
Actors == Calcs \X (1..MaxActors)
CalcOf(a) == a[1]
ActorsOf(r) == {a \in Actors : RunOf[CalcOf(a)] = r}
CalcsOf(r) == {c \in Calcs : RunOf[c] = r}

\* A CalcActor: `start' and `cancel' are the messages in its mailbox (Start is
\* sent first, and only once); `sender' says who holds the sending half, the
\* run actor ("run"), the supervisor's calc_actors ("sup"), or nobody.
ActorRec == [pc      : {"idle", "recv", "lease", "submit", "backoff"},
             attempt : Nat,
             start   : BOOLEAN,
             cancel  : BOOLEAN,
             sender  : {"run", "sup", "dropped"}]

IdleActor == [pc |-> "idle", attempt |-> 0, start |-> FALSE, cancel |-> FALSE,
              sender |-> "dropped"]

Spawned(attempt, sender) ==
    [pc |-> "recv", attempt |-> attempt, start |-> TRUE, cancel |-> FALSE, sender |-> sender]

\* A RunActor: calculations not yet reported, CalcFinished notifications it has
\* not received, whether its command channel holds Cancel or is closed, and the
\* status it is about to write.
RunActorRec == [pc : {"off", "loop", "write"}, left : Int, notes : Nat,
                stop : BOOLEAN, status : RunStatus]

NoRunActor == [pc |-> "off", left |-> 0, notes |-> 0, stop |-> FALSE, status |-> "pending"]

Command == [op : {"submit", "cancelRun"}, run : Runs]
             \cup [op : {"cancelCalc", "reschedule", "retry"}, calc : Calcs]
             \cup [op : {"shutdown"}]

\* Mutant of Permits: the permit outlives the Start arm.
PermitsOfAllStarted ==
    {a \in Actors : actor[a].pc \notin {"idle", "recv"} \/ (actor[a].pc = "recv" /\ ~actor[a].start)}

\* The permit of WorkerPool::acquire is held from just before the lease is taken
\* to the end of the Start arm, the backoff included.
Permits == {a \in Actors : actor[a].pc \in {"lease", "submit", "backoff"}}

IsFree(a) == actor[a].pc = "idle" /\ beat[a] = "off"
Fresh(c) == CHOOSE a \in Actors :
                /\ CalcOf(a) = c /\ IsFree(a)
                /\ \A b \in Actors : CalcOf(b) = c /\ IsFree(b) => a[2] <= b[2]
CanSpawn(c) == \E a \in Actors : CalcOf(a) = c /\ IsFree(a)

\* One new actor for each calculation in S, started at the attempt in its row.
\* The supervisor's calc_actors keeps one sender per calculation: inserting the
\* new one drops the old.
SpawnActors(S, sender) ==
    actor' = [a \in Actors |->
                IF CalcOf(a) \in S /\ a = Fresh(CalcOf(a))
                THEN Spawned(row[CalcOf(a)].attempt, sender)
                ELSE IF CalcOf(a) \in S /\ sender = "sup" /\ actor[a].sender = "sup"
                THEN [actor[a] EXCEPT !.sender = "dropped"]
                ELSE actor[a]]

----------------------------------------------------------------------------
(* Bounds, the database and the clock                                      *)

Spend(kind) ==
    /\ spent[kind] < Limits[kind]
    /\ spent' = [spent EXCEPT ![kind] = @ + 1]

\* A write whose error, if it fails, is thrown away (`let _ = ...').
Write(c, r) ==
    \/ row' = [row EXCEPT ![c] = r] /\ UNCHANGED spent
    \/ Spend("dbError") /\ UNCHANGED row

\* The watchdog fixes `now' at the start of a tick, and the sweep at startup:
\* what falls due while they work is due for the next one.
TimeMayPass == daemon.pc = "down" \/ (daemon.pc = "up" /\ wd.pc = "sleep")

RetryFallsDue(c) ==
    /\ TimeMayPass
    /\ row[c].nextAt = "later"
    /\ row' = [row EXCEPT ![c].nextAt = "due"]
    /\ UNCHANGED <<runStatus, actor, beat, runActor, sup, mailbox, retryOk, wd, daemon, spent>>

HasHeartbeat(c) == \E a \in Actors : CalcOf(a) = c /\ beat[a] = "on"

\* lease.expiry_s exceeds lease.heartbeat_interval_s, so a lease whose heartbeat
\* task runs expires only when that task or the database stalls.
LeaseRunsOut(c) ==
    /\ TimeMayPass
    /\ row[c].lease = "live"
    /\ IF HasHeartbeat(c) THEN Spend("stall") ELSE UNCHANGED spent
    /\ row' = [row EXCEPT ![c].lease = "expired"]
    /\ UNCHANGED <<runStatus, actor, beat, runActor, sup, mailbox, retryOk, wd, daemon>>

----------------------------------------------------------------------------
(* CalcActor                                                               *)

\* hb.abort() does not wait for the task: one more heartbeat may get through.
StopBeat(a) ==
    \E b \in IF beat[a] = "on" /\ LateBeats THEN {"off", "late"} ELSE {"off"} :
        beat' = [beat EXCEPT ![a] = b]

\* Mutant of Notify: actors the supervisor started report to the run actor as well.
NotifyAlways(a) ==
    runActor' = [runActor EXCEPT ![RunOf[CalcOf(a)]].notes = @ + 1]

\* Sending CalcFinished to the run actor; the channel of an actor that the
\* supervisor started has no receiver.
Notify(a) ==
    runActor' = IF actor[a].sender = "run"
                THEN [runActor EXCEPT ![RunOf[CalcOf(a)]].notes = @ + 1]
                ELSE runActor

\* The end of the task: the row is closed, the run told, the permit returned.
Finish(a, status) ==
    /\ Write(CalcOf(a), Closed(row[CalcOf(a)], status))
    /\ StopBeat(a)
    /\ Notify(a)
    /\ actor' = [actor EXCEPT ![a] = IdleActor]
    /\ UNCHANGED <<runStatus, sup, mailbox, retryOk, wd, daemon>>

\* Start is received and a permit taken; the heartbeat task starts.
ActorAcquire(a) ==
    /\ actor[a].pc = "recv" /\ actor[a].start
    /\ Cardinality(Permits) < MaxConcurrent
    /\ actor' = [actor EXCEPT ![a].pc = "lease", ![a].start = FALSE]
    /\ beat' = [beat EXCEPT ![a] = "on"]
    /\ UNCHANGED <<row, runStatus, runActor, sup, mailbox, retryOk, wd, daemon, spent>>

\* calc_started; if it fails the task ends and tells nobody.
ActorLease(a) ==
    /\ actor[a].pc = "lease"
    /\ \/ /\ row' = [row EXCEPT ![CalcOf(a)] = Started(@)]
          /\ actor' = [actor EXCEPT ![a].pc = "submit"]
          /\ UNCHANGED <<beat, spent>>
       \/ /\ Spend("dbError")
          /\ StopBeat(a)
          /\ actor' = [actor EXCEPT ![a] = IdleActor]
          /\ UNCHANGED row
    /\ UNCHANGED <<runStatus, runActor, sup, mailbox, retryOk, wd, daemon>>

\* One tick of the heartbeat task, which ends at the first error.
HeartbeatTick(a) ==
    /\ beat[a] # "off"
    /\ \/ /\ row' = [row EXCEPT ![CalcOf(a)] = Heartbeat(@)]
          /\ beat' = [beat EXCEPT ![a] = IF @ = "late" THEN "off" ELSE @]
          /\ UNCHANGED spent
       \/ Spend("dbError") /\ beat' = [beat EXCEPT ![a] = "off"] /\ UNCHANGED row
    /\ UNCHANGED <<runStatus, actor, runActor, sup, mailbox, retryOk, wd, daemon>>

ActorSucceeds(a) ==
    /\ actor[a].pc = "submit" /\ "succeeded" \in Outcomes
    /\ Finish(a, "succeeded")

ActorFails(a) ==
    /\ actor[a].pc = "submit" /\ "permanent" \in Outcomes
    /\ Finish(a, "failed")

ActorExhausts(a) ==
    /\ actor[a].pc = "submit" /\ "transient" \in Outcomes
    /\ actor[a].attempt + 1 > MaxAttempts
    /\ Finish(a, "failed")

\* The permit is kept for the backoff; its length is random and may be zero.
ActorBacksOff(a) ==
    LET n == actor[a].attempt + 1 IN
    /\ actor[a].pc = "submit" /\ "transient" \in Outcomes
    /\ n <= MaxAttempts
    /\ \E at \in {"later", "due"} : Write(CalcOf(a), Retrying(row[CalcOf(a)], n, at))
    /\ StopBeat(a)
    /\ actor' = [actor EXCEPT ![a].pc = "backoff", ![a].attempt = n]
    /\ UNCHANGED <<runStatus, runActor, sup, mailbox, retryOk, wd, daemon>>

\* The loop goes back to recv: no Start is waiting there, and none is sent.
ActorResets(a) ==
    /\ actor[a].pc = "backoff"
    /\ Write(CalcOf(a), ResetPending(row[CalcOf(a)]))
    /\ actor' = [actor EXCEPT ![a].pc = "recv"]
    /\ UNCHANGED <<runStatus, beat, runActor, sup, mailbox, retryOk, wd, daemon>>

\* Cancel is looked at between two Starts and during a backoff, nowhere else;
\* in a backoff a closed mailbox counts as Cancel.
ActorCancelled(a) ==
    /\ \/ actor[a].pc = "recv" /\ ~actor[a].start /\ actor[a].cancel
       \/ actor[a].pc = "backoff" /\ (actor[a].cancel \/ actor[a].sender = "dropped")
    /\ Finish(a, "cancelled")

\* Mutant of ActorGone: a closed mailbox is not drained first.
ActorGoneEarly(a) ==
    /\ actor[a].pc = "recv" /\ actor[a].sender = "dropped"
    /\ actor' = [actor EXCEPT ![a] = IdleActor]
    /\ UNCHANGED <<row, runStatus, beat, runActor, sup, mailbox, retryOk, wd, daemon, spent>>

ActorGone(a) ==
    /\ actor[a].pc = "recv" /\ ~actor[a].start /\ ~actor[a].cancel
    /\ actor[a].sender = "dropped"
    /\ actor' = [actor EXCEPT ![a] = IdleActor]
    /\ UNCHANGED <<row, runStatus, beat, runActor, sup, mailbox, retryOk, wd, daemon, spent>>

ActorStep(a) ==
    \/ ActorLease(a) \/ ActorSucceeds(a) \/ ActorFails(a) \/ ActorExhausts(a)
    \/ ActorBacksOff(a) \/ ActorResets(a) \/ ActorCancelled(a) \/ ActorGone(a)

----------------------------------------------------------------------------
(* RunActor                                                                *)

StatusesOf(r) == {row[c].status : c \in {d \in CalcsOf(r) : row[d].status # "absent"}}

\* When the run actor returns, its senders are dropped; if it was told to stop
\* it has sent Cancel on each first.
LeaveRun(r, cancel) ==
    /\ actor' = [a \in Actors |->
                   IF RunOf[CalcOf(a)] = r /\ actor[a].sender = "run"
                   THEN [actor[a] EXCEPT !.sender = "dropped", !.cancel = cancel]
                   ELSE actor[a]]
    /\ runActor' = [runActor EXCEPT ![r] = NoRunActor]

RunActorStops(r) ==
    /\ runActor[r].pc = "loop" /\ runActor[r].stop
    /\ LeaveRun(r, TRUE)
    /\ UNCHANGED <<row, runStatus, beat, sup, mailbox, retryOk, wd, daemon, spent>>

\* CalcFinished: refresh_run_status reads the statuses here and writes the
\* status it derives from them in the next step.
RunActorReads(r) ==
    /\ runActor[r].pc = "loop" /\ runActor[r].notes > 0
    /\ \/ /\ runActor' = [runActor EXCEPT ![r].pc = "write", ![r].notes = @ - 1,
                            ![r].left = @ - 1, ![r].status = DeriveRunStatus(StatusesOf(r))]
          /\ UNCHANGED <<actor, spent>>
       \/ /\ Spend("dbError")
          /\ IF runActor[r].left <= 1
             THEN LeaveRun(r, FALSE)
             ELSE /\ runActor' = [runActor EXCEPT ![r].notes = @ - 1, ![r].left = @ - 1]
                  /\ UNCHANGED actor
    /\ UNCHANGED <<row, runStatus, beat, sup, mailbox, retryOk, wd, daemon>>

\* Mutant of RunActorWrites: the run actor returns one notification early.
RunActorWritesEarly(r) ==
    /\ runActor[r].pc = "write"
    /\ runStatus' = [runStatus EXCEPT ![r] = runActor[r].status]
    /\ IF runActor[r].left <= 1
       THEN LeaveRun(r, FALSE)
       ELSE runActor' = [runActor EXCEPT ![r].pc = "loop"] /\ UNCHANGED actor
    /\ UNCHANGED <<row, beat, sup, mailbox, retryOk, wd, daemon, spent>>

RunActorWrites(r) ==
    /\ runActor[r].pc = "write"
    /\ \/ runStatus' = [runStatus EXCEPT ![r] = runActor[r].status] /\ UNCHANGED spent
       \/ Spend("dbError") /\ UNCHANGED runStatus
    /\ IF runActor[r].left <= 0
       THEN LeaveRun(r, FALSE)
       ELSE runActor' = [runActor EXCEPT ![r].pc = "loop"] /\ UNCHANGED actor
    /\ UNCHANGED <<row, beat, sup, mailbox, retryOk, wd, daemon>>

RunActorStep(r) == RunActorStops(r) \/ RunActorReads(r) \/ RunActorWrites(r)

----------------------------------------------------------------------------
(* Supervisor                                                              *)

HasRoom == Len(mailbox) < MailboxCap /\ sup.pc # "stopped"
Receives(op) == daemon.pc = "up" /\ sup.pc = "recv" /\ mailbox # <<>> /\ Head(mailbox).op = op

RunWith(n) == [NoRunActor EXCEPT !.pc = "loop", !.left = n]

\* submit_run: insert_run, then each calculation, then the run actor.  An error
\* on the way returns at once and leaves what was inserted.
SupSubmit ==
    /\ Receives("submit")
    /\ mailbox' = Tail(mailbox)
    /\ \/ /\ runStatus' = [runStatus EXCEPT ![Head(mailbox).run] = "pending"]
          /\ sup' = [pc |-> "insert", run |-> Head(mailbox).run]
          /\ UNCHANGED spent
       \/ Spend("dbError") /\ UNCHANGED <<runStatus, sup>>
    /\ UNCHANGED <<row, actor, beat, runActor, retryOk, wd, daemon>>

SupInsert(c) ==
    /\ sup.pc = "insert" /\ RunOf[c] = sup.run /\ row[c].status = "absent"
    /\ \/ row' = [row EXCEPT ![c] = NewRow] /\ UNCHANGED <<sup, spent>>
       \/ Spend("dbError") /\ sup' = [pc |-> "recv"] /\ UNCHANGED row
    /\ UNCHANGED <<runStatus, actor, beat, runActor, mailbox, retryOk, wd, daemon>>

SupSpawnRun ==
    /\ sup.pc = "insert"
    /\ \A c \in CalcsOf(sup.run) : row[c].status # "absent"
    /\ SpawnActors(CalcsOf(sup.run), "run")
    /\ runActor' = [runActor EXCEPT ![sup.run] = RunWith(Cardinality(CalcsOf(sup.run)))]
    /\ sup' = [pc |-> "recv"]
    /\ UNCHANGED <<row, runStatus, beat, mailbox, retryOk, wd, daemon, spent>>

\* cancel_run: the sender is taken out of run_actors, so a second is a no-op.
SupCancelRun ==
    /\ Receives("cancelRun")
    /\ mailbox' = Tail(mailbox)
    /\ runActor' = [r \in Runs |->
                      IF r = Head(mailbox).run /\ runActor[r].pc # "off"
                      THEN [runActor[r] EXCEPT !.stop = TRUE] ELSE runActor[r]]
    /\ UNCHANGED <<row, runStatus, actor, beat, sup, retryOk, wd, daemon, spent>>

\* Mutant of SupCancelCalc: the supervisor writes the row itself.
SupCancelCalcWrites ==
    /\ Receives("cancelCalc")
    /\ mailbox' = Tail(mailbox)
    /\ row' = [row EXCEPT ![Head(mailbox).calc] = Closed(@, "cancelled")]
    /\ UNCHANGED <<runStatus, actor, beat, runActor, sup, retryOk, wd, daemon, spent>>

\* cancel_calc looks in calc_actors only, never at the actors of a run actor.
SupCancelCalc ==
    /\ Receives("cancelCalc")
    /\ mailbox' = Tail(mailbox)
    /\ actor' = [a \in Actors |->
                   IF CalcOf(a) = Head(mailbox).calc /\ actor[a].sender = "sup"
                   THEN [actor[a] EXCEPT !.cancel = TRUE, !.sender = "dropped"]
                   ELSE actor[a]]
    /\ UNCHANGED <<row, runStatus, beat, runActor, sup, retryOk, wd, daemon, spent>>

\* reschedule_calc: a new actor at the attempt read from the row.
SupReschedule ==
    /\ Receives("reschedule")
    /\ mailbox' = Tail(mailbox)
    /\ \/ /\ CanSpawn(Head(mailbox).calc)
          /\ SpawnActors({Head(mailbox).calc}, "sup")
          /\ UNCHANGED spent
       \/ Spend("dbError") /\ UNCHANGED actor
    /\ UNCHANGED <<row, runStatus, beat, runActor, sup, retryOk, wd, daemon>>

\* retry_calc: calc_reset_pending, then the same.
SupRetry ==
    /\ Receives("retry")
    /\ mailbox' = Tail(mailbox)
    /\ \/ /\ row' = [row EXCEPT ![Head(mailbox).calc] = ResetPending(@)]
          /\ sup' = [pc |-> "respawn", calc |-> Head(mailbox).calc]
          /\ UNCHANGED spent
       \/ Spend("dbError") /\ UNCHANGED <<row, sup>>
    /\ UNCHANGED <<runStatus, actor, beat, runActor, retryOk, wd, daemon>>

SupRespawn ==
    /\ sup.pc = "respawn"
    /\ sup' = [pc |-> "recv"]
    /\ \/ CanSpawn(sup.calc) /\ SpawnActors({sup.calc}, "sup") /\ UNCHANGED spent
       \/ Spend("dbError") /\ UNCHANGED actor
    /\ UNCHANGED <<row, runStatus, beat, runActor, mailbox, retryOk, wd, daemon>>

\* Shutdown drops the supervisor, and with it every sender it holds.
SupShutdown ==
    /\ Receives("shutdown")
    /\ mailbox' = <<>>
    /\ sup' = [pc |-> "stopped"]
    /\ runActor' = [r \in Runs |-> IF runActor[r].pc = "off" THEN runActor[r]
                                   ELSE [runActor[r] EXCEPT !.stop = TRUE]]
    /\ actor' = [a \in Actors |-> IF actor[a].sender = "sup"
                                  THEN [actor[a] EXCEPT !.sender = "dropped"] ELSE actor[a]]
    /\ UNCHANGED <<row, runStatus, beat, retryOk, wd, daemon, spent>>

SupStep ==
    \/ SupSubmit \/ (\E c \in Calcs : SupInsert(c)) \/ SupSpawnRun \/ SupCancelRun
    \/ SupCancelCalc \/ SupReschedule \/ SupRetry \/ SupRespawn \/ SupShutdown

----------------------------------------------------------------------------
(* Requests                                                                *)

Send(cmd) == HasRoom /\ mailbox' = Append(mailbox, cmd)

\* A new id for every submission: none is on its way or done with this one.
RequestSubmit(r) ==
    /\ daemon.pc = "up" /\ runStatus[r] = "absent"
    /\ \A i \in 1..Len(mailbox) : mailbox[i] # [op |-> "submit", run |-> r]
    /\ Send([op |-> "submit", run |-> r])
    /\ UNCHANGED <<row, runStatus, actor, beat, runActor, sup, retryOk, wd, daemon, spent>>

RequestCancelRun(r) ==
    /\ daemon.pc = "up" /\ runStatus[r] # "absent" /\ Spend("cancel")
    /\ Send([op |-> "cancelRun", run |-> r])
    /\ UNCHANGED <<row, runStatus, actor, beat, runActor, sup, retryOk, wd, daemon>>

RequestCancelCalc(c) ==
    /\ daemon.pc = "up" /\ row[c].status # "absent" /\ Spend("cancel")
    /\ Send([op |-> "cancelCalc", calc |-> c])
    /\ UNCHANGED <<row, runStatus, actor, beat, runActor, sup, retryOk, wd, daemon>>

\* Mutant of RetryCheck: the status is not looked at.
RetryUnchecked(c) ==
    /\ daemon.pc = "up" /\ row[c].status # "absent" /\ Spend("retry")
    /\ retryOk' = [retryOk EXCEPT ![c] = @ + 1]
    /\ UNCHANGED <<row, runStatus, actor, beat, runActor, sup, mailbox, wd, daemon>>

\* retry_calculation reads the row and checks its status; the command it then
\* sends reaches the supervisor later.
RetryCheck(c) ==
    /\ daemon.pc = "up" /\ row[c].status = "failed" /\ Spend("retry")
    /\ retryOk' = [retryOk EXCEPT ![c] = @ + 1]
    /\ UNCHANGED <<row, runStatus, actor, beat, runActor, sup, mailbox, wd, daemon>>

RetrySend(c) ==
    /\ daemon.pc = "up" /\ retryOk[c] > 0
    /\ retryOk' = [retryOk EXCEPT ![c] = @ - 1]
    /\ IF sup.pc = "stopped" THEN UNCHANGED mailbox ELSE Send([op |-> "retry", calc |-> c])
    /\ UNCHANGED <<row, runStatus, actor, beat, runActor, sup, wd, daemon, spent>>

RequestShutdown ==
    /\ daemon.pc = "up" /\ Spend("shutdown")
    /\ Send([op |-> "shutdown"])
    /\ UNCHANGED <<row, runStatus, actor, beat, runActor, sup, retryOk, wd, daemon>>

Request ==
    \/ \E r \in Runs : RequestSubmit(r) \/ RequestCancelRun(r)
    \/ \E c \in Calcs : RequestCancelCalc(c) \/ RetryCheck(c) \/ RetrySend(c)
    \/ RequestShutdown

----------------------------------------------------------------------------
(* Watchdog                                                                *)

Asleep == [pc |-> "sleep", todo |-> {}]
ReadRows(S) == {[calc |-> c, attempt |-> row[c].attempt] : c \in S}
ExpiredLeases == {c \in Calcs : LeaseExpired(row[c])}
ReadyRetries  == {c \in Calcs : RetryReady(row[c])}

\* SupervisorHandle::reschedule_calc drops the command if the mailbox is full.
TryReschedule(c) ==
    mailbox' = IF HasRoom THEN Append(mailbox, [op |-> "reschedule", calc |-> c]) ELSE mailbox

\* list_expired_leases.
WatchdogTick ==
    /\ daemon.pc = "up" /\ wd.pc = "sleep"
    /\ \/ wd' = [pc |-> "expired", todo |-> ReadRows(ExpiredLeases)] /\ UNCHANGED spent
       \/ Spend("dbError") /\ wd' = [pc |-> "expired", todo |-> {}]
    /\ UNCHANGED <<row, runStatus, actor, beat, runActor, sup, mailbox, retryOk, daemon>>

\* The row is written as it was read, whatever has become of it since.
WatchdogCharges(e) ==
    /\ wd.pc = "expired" /\ e \in wd.todo
    /\ wd' = [wd EXCEPT !.todo = @ \ {e}]
    /\ \/ /\ row' = [row EXCEPT ![e.calc] = Charged(@, e.attempt)]
          /\ IF e.attempt + 1 > MaxAttempts THEN UNCHANGED mailbox ELSE TryReschedule(e.calc)
          /\ UNCHANGED spent
       \/ Spend("dbError") /\ UNCHANGED <<row, mailbox>>
    /\ UNCHANGED <<runStatus, actor, beat, runActor, sup, retryOk, daemon>>

\* list_ready_retries, with the `now' of the tick.
WatchdogLists ==
    /\ wd.pc = "expired" /\ wd.todo = {}
    /\ \/ /\ wd' = IF ReadyRetries = {} THEN Asleep
                   ELSE [pc |-> "ready", todo |-> ReadRows(ReadyRetries)]
          /\ UNCHANGED spent
       \/ Spend("dbError") /\ wd' = Asleep
    /\ UNCHANGED <<row, runStatus, actor, beat, runActor, sup, mailbox, retryOk, daemon>>

WatchdogReschedules(e) ==
    /\ wd.pc = "ready" /\ e \in wd.todo
    /\ TryReschedule(e.calc)
    /\ wd' = IF wd.todo = {e} THEN Asleep ELSE [wd EXCEPT !.todo = @ \ {e}]
    /\ UNCHANGED <<row, runStatus, actor, beat, runActor, sup, retryOk, daemon, spent>>

WatchdogStep ==
    \/ WatchdogTick \/ WatchdogLists
    \/ \E e \in wd.todo : WatchdogCharges(e) \/ WatchdogReschedules(e)

----------------------------------------------------------------------------
(* The process: it dies, and starts with the crash recovery sweep          *)

\* Everything but the database is lost.
LoseMemory ==
    /\ daemon' = [pc |-> "down", todo |-> {}]
    /\ actor' = [a \in Actors |-> IdleActor]
    /\ beat' = [a \in Actors |-> "off"]
    /\ runActor' = [r \in Runs |-> NoRunActor]
    /\ sup' = [pc |-> "recv"] /\ mailbox' = <<>>
    /\ retryOk' = [c \in Calcs |-> 0]
    /\ wd' = Asleep
    /\ UNCHANGED <<row, runStatus>>

Crash == daemon.pc # "down" /\ Spend("crash") /\ LoseMemory

\* main returns some time after the shutdown signal.
Exit == daemon.pc = "up" /\ sup.pc = "stopped" /\ UNCHANGED spent /\ LoseMemory

BeginSweep ==
    /\ daemon.pc = "down"
    /\ daemon' = [pc |-> "sweep", todo |-> {c \in Calcs : SweepTakes(row[c])}]
    /\ UNCHANGED <<row, runStatus, actor, beat, runActor, sup, mailbox, retryOk, wd, spent>>

SweepRow(c) ==
    /\ daemon.pc = "sweep" /\ c \in daemon.todo
    /\ row' = [row EXCEPT ![c] = Charged(@, @.attempt)]
    /\ daemon' = [daemon EXCEPT !.todo = @ \ {c}]
    /\ UNCHANGED <<runStatus, actor, beat, runActor, sup, mailbox, retryOk, wd, spent>>

\* restore_active_runs: the supervisor and the watchdog are not running yet, and
\* the actors of one run do not touch the rows of another, so one step will do.
\* Runs whose calculations cannot be listed are passed over.
Restore ==
    \E unread \in SUBSET Runs :
        LET active == {c \in Calcs : IsActive(row[c]) /\ RunOf[c] \notin unread} IN
        /\ daemon.pc = "sweep" /\ daemon.todo = {}
        /\ daemon' = [pc |-> "up", todo |-> {}]
        /\ SpawnActors(active, "run")
        /\ runActor' = [r \in Runs |->
                          IF active \cap CalcsOf(r) = {} THEN NoRunActor
                          ELSE RunWith(Cardinality(active \cap CalcsOf(r)))]
        /\ IF unread = {} THEN UNCHANGED spent ELSE Spend("dbError")
        /\ UNCHANGED <<row, runStatus, beat, sup, mailbox, retryOk, wd>>

Startup == BeginSweep \/ (\E c \in Calcs : SweepRow(c)) \/ Restore

----------------------------------------------------------------------------

Init ==
    /\ row = [c \in Calcs |-> NoRow]
    /\ runStatus = [r \in Runs |-> "absent"]
    /\ actor = [a \in Actors |-> IdleActor]
    /\ beat = [a \in Actors |-> "off"]
    /\ runActor = [r \in Runs |-> NoRunActor]
    /\ sup = [pc |-> "recv"]
    /\ mailbox = <<>>
    /\ retryOk = [c \in Calcs |-> 0]
    /\ wd = Asleep
    /\ daemon = [pc |-> "up", todo |-> {}]
    /\ spent = [k \in Kinds |-> 0]

Next ==
    \/ \E c \in Calcs : RetryFallsDue(c) \/ LeaseRunsOut(c)
    \/ \E a \in Actors : ActorAcquire(a) \/ ActorStep(a) \/ HeartbeatTick(a)
    \/ \E r \in Runs : RunActorStep(r)
    \/ SupStep \/ Request \/ WatchdogStep \/ Startup \/ Crash \/ Exit

Spec == Init /\ [][Next]_vars
=============================================================================
