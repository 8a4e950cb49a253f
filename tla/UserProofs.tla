----------------------------- MODULE UserProofs -----------------------------
(***************************************************************************)
(* What cancellations and retries cannot break: however many there are of  *)
(* them and however they race with the actors, a calculation has one actor *)
(* and a final status changes by a retry alone, as long as two retries of  *)
(* one calculation are never on their way at once and nothing fails.       *)
(***************************************************************************)
EXTENDS SpawnProofs

\* No faults and no shutdown; users may cancel and retry as often as they like.
NoFaults ==
    /\ \A k \in {"crash", "stall", "dbError", "shutdown"} : Limits[k] = 0
    /\ ApiIsDefinite /\ RoomToSpawn

AsksRetry(i, c) == mailbox[i].op = "retry" /\ mailbox[i].calc = c

RetryWaits(c) == \E i \in 1..Len(mailbox) : AsksRetry(i, c)

\* Of one calculation at most one retry is between its check and its reset.
RetriesApart ==
    \A c \in Calcs :
        /\ retryOk[c] <= 1
        /\ \A i, j \in 1..Len(mailbox) : AsksRetry(i, c) /\ AsksRetry(j, c) => i = j
        /\ ~(retryOk[c] > 0 /\ RetryWaits(c))

\* The watchdog finds nothing, and nobody stops the supervisor.
Undisturbed ==
    /\ daemon.pc = "up" /\ sup.pc # "stopped" /\ wd.todo = {}
    /\ \A i \in 1..Len(mailbox) : mailbox[i].op \notin {"reschedule", "shutdown"}

\* A retry that is on its way finds its calculation failed, and without an actor
\* from its reset to its new one.
RetriesAreDue ==
    \A c \in Calcs :
        /\ retryOk[c] > 0 \/ RetryWaits(c) => row[c].status = "failed"
        /\ sup.pc = "respawn" /\ sup.calc = c =>
              /\ row[c].status = "pending"
              /\ \A a \in Actors : CalcOf(a) = c => actor[a].pc = "idle"

\* A calculation has one actor, and its row says where that actor is.
OneActor ==
    \A a, b \in Actors :
        CalcOf(a) = CalcOf(b) /\ actor[a].pc # "idle" /\ actor[b].pc # "idle" => a = b

RowFollows ==
    \A a \in Actors :
        /\ actor[a].pc \in {"recv", "lease"} => row[CalcOf(a)].status = "pending"
        /\ actor[a].pc = "submit" => row[CalcOf(a)].status = "running"
        /\ actor[a].pc \in {"lease", "submit"} => beat[a] = "on"

\* A row that runs has an actor, whose heartbeats keep the lease alive.
RunningIsAlive ==
    \A c \in Calcs :
        row[c].status = "running" => /\ row[c].lease = "live"
                                     /\ \E a \in Actors : CalcOf(a) = c /\ actor[a].pc = "submit"

NoDetours == \A c \in Calcs : row[c].status \notin {"retrying", "cancelled"}

UInv == /\ IInv /\ BInv /\ StartOnce
        /\ Undisturbed /\ RetriesAreDue /\ OneActor /\ RowFollows /\ RunningIsAlive /\ NoDetours

Ends(a) ==
    actor[a].pc = "submit" /\ \E status \in {"succeeded", "failed"} : Finish(a, status)

----------------------------------------------------------------------------
(* The steps that are left                                                 *)

LEMMA NoFaultSpent ==
    ASSUME NoFaults, IInv
    PROVE  DatabaseWorks /\ \A k \in {"crash", "stall", "dbError", "shutdown"} : ~Spend(k)
<1>1. \A k \in {"crash", "stall", "dbError", "shutdown"} : spent[k] \in Nat
  BY DEF IInv, TasksOK, Kinds
<1> QED BY <1>1 DEF NoFaults, Spend, DatabaseWorks

\* Whatever a user may ask for.
Asks ==
    \/ \E r \in Runs : RequestSubmit(r) \/ RequestCancelRun(r)
    \/ \E c \in Calcs : RequestCancelCalc(c) \/ RetryCheck(c) \/ RetrySend(c)

\* What happens when nothing fails.
Serves ==
    \/ UNCHANGED vars
    \/ \E c \in Calcs : RetryFallsDue(c) \/ (LeaseRunsOut(c) /\ row[c].status # "running")
    \/ \E a \in Actors : ActorAcquire(a) \/ ActorLease(a) \/ Ends(a) \/ HeartbeatTick(a)
    \/ \E r \in Runs : RunActorStep(r)
    \/ SupSubmit \/ (\E c \in Calcs : SupInsert(c)) \/ SupSpawnRun
    \/ SupCancelRun \/ SupCancelCalc \/ SupRetry \/ SupRespawn
    \/ Asks \/ WatchdogTick \/ WatchdogLists

(* What the supervisor receives is at the head of its mailbox. *)
LEMMA HeadOfMail ==
    ASSUME IInv, NEW op, Receives(op)
    PROVE  /\ Head(mailbox) = mailbox[1] /\ 1 \in 1..Len(mailbox) /\ mailbox[1].op = op
           /\ mailbox \in Seq(Command) /\ mailbox # <<>>
<1>1. mailbox # <<>> /\ Head(mailbox).op = op /\ mailbox \in Seq(Command)
  BY DEF Receives, IInv, TasksOK
<1> QED BY <1>1, HeadTailProperties

LEMMA OnlyServes == ASSUME NoFaults, UInv, [Next]_vars PROVE Serves
<1>a. /\ ApiIsDefinite /\ IInv /\ StartOnce /\ Undisturbed /\ RowFollows /\ RunningIsAlive
      /\ \A k \in {"crash", "stall", "dbError", "shutdown"} : ~Spend(k)
  BY NoFaultSpent DEF NoFaults, UInv
<1>1. ASSUME NEW c \in Calcs, LeaseRunsOut(c) PROVE row[c].status # "running"
  <2>1. ~HasHeartbeat(c)
    BY <1>1, <1>a DEF LeaseRunsOut
  <2> QED BY <1>a, <2>1 DEF HasHeartbeat, RunningIsAlive, RowFollows
<1>2. ASSUME NEW a \in Actors, ActorStep(a) PROVE ActorLease(a) \/ Ends(a)
  BY <1>2, <1>a DEF ActorStep, ActorSucceeds, ActorFails, ActorExhausts, ActorBacksOff,
     ActorResets, ActorCancelled, ActorGone, Ends, StartOnce, ApiIsDefinite
<1>3. ~SupReschedule /\ ~SupShutdown
  BY <1>a, HeadOfMail DEF SupReschedule, SupShutdown, Undisturbed
<1>4. CASE Request
  <2>1. ~RequestShutdown
    BY <1>a DEF RequestShutdown
  <2> QED BY <1>4, <2>1 DEF Request, Asks, Serves
<1>5. ~Startup /\ ~Crash /\ ~Exit
  BY <1>a DEF Startup, BeginSweep, SweepRow, Restore, Crash, Exit, Undisturbed
<1>6. CASE WatchdogStep
  BY <1>6, <1>a DEF WatchdogStep, Undisturbed, Serves
<1> QED BY <1>1, <1>2, <1>3, <1>4, <1>5, <1>6 DEF Next, SupStep, Serves

(* What the end of an actor does when nothing fails. *)
LEMMA EndsMeans ==
    ASSUME NoFaults, UInv, NEW a \in Actors, Ends(a)
    PROVE  /\ row[CalcOf(a)].status = "running"
           /\ row'[CalcOf(a)].status \in {"succeeded", "failed"}
           /\ \A c \in Calcs : c # CalcOf(a) => row'[c] = row[c]
           /\ actor'[a].pc = "idle"
           /\ \A b \in Actors : b # a => actor'[b] = actor[b] /\ beat'[b] = beat[b]
           /\ Notify(a)
           /\ UNCHANGED <<runStatus, sup, mailbox, retryOk, wd, daemon>>
<1>a. /\ CalcOf(a) \in Calcs /\ row \in [Calcs -> Row] /\ row[CalcOf(a)] \in Row
      /\ actor \in [Actors -> ActorRec] /\ beat \in [Actors -> {"off", "on", "late"}]
  BY ActorOwner DEF UInv, IInv, RowsOK, ActorsOK, TasksOK
<1>b. ~Spend("dbError")
  BY NoFaultSpent DEF UInv
<1>1. PICK status \in {"succeeded", "failed"} : Finish(a, status)
  BY DEF Ends
<1>2. Closed(row[CalcOf(a)], status).status = status
  BY <1>a DEF Closed, Row
<1>3. row' = [row EXCEPT ![CalcOf(a)] = Closed(row[CalcOf(a)], status)]
  BY <1>1, <1>b DEF Finish, Write
<1>4. row[CalcOf(a)].status = "running"
  BY DEF Ends, UInv, RowFollows
<1>5. \A b \in Actors : b # a => beat'[b] = beat[b]
  BY <1>1, <1>a DEF Finish, StopBeat
<1>6. actor' = [actor EXCEPT ![a] = IdleActor]
  BY <1>1 DEF Finish
<1>7. Notify(a) /\ UNCHANGED <<runStatus, sup, mailbox, retryOk, wd, daemon>>
  BY <1>1 DEF Finish
<1> QED BY <1>a, <1>2, <1>3, <1>4, <1>5, <1>6, <1>7 DEF IdleActor

(* And the start of one. *)
LEMMA LeaseMeans ==
    ASSUME NoFaults, UInv, NEW a \in Actors, ActorLease(a)
    PROVE  /\ actor[a].pc = "lease" /\ actor'[a].pc = "submit"
           /\ row[CalcOf(a)].status = "pending"
           /\ row'[CalcOf(a)].status = "running" /\ row'[CalcOf(a)].lease = "live"
           /\ \A c \in Calcs : c # CalcOf(a) => row'[c] = row[c]
           /\ \A b \in Actors : b # a => actor'[b] = actor[b]
           /\ UNCHANGED <<runStatus, beat, runActor, sup, mailbox, retryOk, wd, daemon>>
<1>a. /\ CalcOf(a) \in Calcs /\ row \in [Calcs -> Row] /\ row[CalcOf(a)] \in Row
      /\ actor \in [Actors -> ActorRec] /\ actor[a] \in ActorRec
  BY ActorOwner DEF UInv, IInv, RowsOK, ActorsOK
<1>b. ~Spend("dbError")
  BY NoFaultSpent DEF UInv
<1>1. /\ row' = [row EXCEPT ![CalcOf(a)] = Started(@)]
      /\ actor' = [actor EXCEPT ![a].pc = "submit"]
      /\ actor[a].pc = "lease"
      /\ UNCHANGED <<runStatus, beat, runActor, sup, mailbox, retryOk, wd, daemon>>
  BY <1>b DEF ActorLease
<1>2. Started(row[CalcOf(a)]).status = "running" /\ Started(row[CalcOf(a)]).lease = "live"
  BY <1>a DEF Started, Row
<1>3. row[CalcOf(a)].status = "pending"
  BY <1>1 DEF UInv, RowFollows
<1>4. actor'[a].pc = "submit" /\ \A b \in Actors : b # a => actor'[b] = actor[b]
  BY <1>1, <1>a DEF ActorRec
<1> QED BY <1>a, <1>1, <1>2, <1>3, <1>4

(* And a retry, when the supervisor gets to it. *)
LEMMA RetryMeans ==
    ASSUME NoFaults, UInv, SupRetry
    PROVE  \E c \in Calcs :
              /\ AsksRetry(1, c) /\ 1 \in 1..Len(mailbox) /\ mailbox # <<>>
              /\ row[c].status = "failed" /\ row'[c].status = "pending"
              /\ \A d \in Calcs : d # c => row'[d] = row[d]
              /\ sup.pc = "recv" /\ sup' = [pc |-> "respawn", calc |-> c]
              /\ mailbox' = Tail(mailbox)
              /\ UNCHANGED <<runStatus, actor, beat, runActor, retryOk, wd, daemon>>
<1> DEFINE c == Head(mailbox).calc
<1>1. /\ c \in Calcs /\ AsksRetry(1, c) /\ 1 \in 1..Len(mailbox) /\ mailbox # <<>>
  BY HeadOfMail, ReceiveOK DEF SupRetry, UInv, AsksRetry
<1>2. row[c].status = "failed" /\ row \in [Calcs -> Row] /\ ~Spend("dbError")
  BY <1>1, NoFaultSpent DEF UInv, RetriesAreDue, RetryWaits, IInv, RowsOK
<1> QED BY <1>1, <1>2 DEF SupRetry, Receives, ResetPending

(* Requests leave to the supervisor whatever they ask for. *)
LEMMA AskingMeans ==
    ASSUME Asks
    PROVE  UNCHANGED <<row, runStatus, actor, beat, runActor, sup, wd, daemon>>
BY DEF Asks, RequestSubmit, RequestCancelRun, RequestCancelCalc, RetryCheck, RetrySend

(* How a row moves: forward, one status at a time, and back by a retry alone. *)
LEMMA RowMoves ==
    ASSUME NoFaults, UInv, Serves, NEW c \in Calcs
    PROVE  \/ row'[c].status = row[c].status
           \/ /\ row[c].status = "absent" /\ row'[c].status = "pending" /\ SupInsert(c)
           \/ /\ row[c].status = "pending" /\ row'[c].status = "running"
              /\ \E a \in Actors : CalcOf(a) = c /\ ActorLease(a)
           \/ /\ row[c].status = "running" /\ row'[c].status \in {"succeeded", "failed"}
              /\ \E a \in Actors : CalcOf(a) = c /\ Ends(a)
           \/ /\ row[c].status = "failed" /\ row'[c].status = "pending"
              /\ SupRetry /\ AsksRetry(1, c) /\ sup' = [pc |-> "respawn", calc |-> c]
<1>a. row \in [Calcs -> Row] /\ \A d \in Calcs : row[d] \in Row
  BY DEF UInv, IInv, RowsOK
<1>1. ASSUME NEW d \in Calcs, RetryFallsDue(d) \/ LeaseRunsOut(d)
      PROVE  row'[c].status = row[c].status
  BY <1>1, <1>a DEF RetryFallsDue, LeaseRunsOut, Row
<1>2. ASSUME NEW a \in Actors, HeartbeatTick(a) PROVE row'[c].status = row[c].status
  BY <1>2, <1>a DEF HeartbeatTick, Heartbeat, Row
<1>3. ASSUME NEW d \in Calcs, SupInsert(d)
      PROVE  \/ row'[c].status = row[c].status
             \/ row[c].status = "absent" /\ row'[c].status = "pending" /\ SupInsert(c)
  BY <1>3, <1>a DEF SupInsert, NewRow, NoRow
<1>4. CASE UNCHANGED row
  BY <1>4
<1>5. CASE \/ UNCHANGED vars \/ SupSubmit \/ SupSpawnRun \/ WatchdogTick \/ WatchdogLists
           \/ \E r \in Runs : RunActorStep(r)
           \/ \E a \in Actors : ActorAcquire(a)
  BY <1>4, <1>5 DEF vars, SupSubmit, SupSpawnRun, WatchdogTick, WatchdogLists, RunActorStep,
     RunActorStops, RunActorReads, RunActorWrites, ActorAcquire
<1>6. CASE SupCancelRun \/ SupCancelCalc \/ SupRespawn \/ Asks
  BY <1>4, <1>6, AskingMeans DEF SupCancelRun, SupCancelCalc, SupRespawn
<1>7. CASE SupRetry
  BY <1>7, RetryMeans
<1> QED BY <1>1, <1>2, <1>3, <1>5, <1>6, <1>7, LeaseMeans, EndsMeans DEF Serves

(* Actors: at work where they were, or spawned for a row that waits. *)
LEMMA ActorsWork ==
    ASSUME NoFaults, UInv, Serves, NEW a \in Actors
    PROVE  \/ actor'[a].pc = actor[a].pc /\ (actor[a].pc \in {"lease", "submit"} => beat'[a] = beat[a])
           \/ ActorAcquire(a) /\ actor[a].pc = "recv" /\ actor'[a].pc = "lease" /\ beat'[a] = "on"
           \/ ActorLease(a)
           \/ Ends(a)
           \/ /\ SupSpawnRun /\ RunOf[CalcOf(a)] = sup.run /\ a = Fresh(CalcOf(a))
              /\ actor'[a].pc = "recv"
           \/ /\ SupRespawn /\ CalcOf(a) = sup.calc /\ a = Fresh(CalcOf(a))
              /\ actor'[a].pc = "recv"
<1>a. /\ actor \in [Actors -> ActorRec] /\ beat \in [Actors -> {"off", "on", "late"}]
      /\ RowFollows /\ IInv /\ ~Spend("dbError")
  BY NoFaultSpent DEF UInv, IInv, ActorsOK, TasksOK
<1>1. ASSUME UNCHANGED <<actor, beat>>
      PROVE  actor'[a].pc = actor[a].pc /\ (actor[a].pc \in {"lease", "submit"} => beat'[a] = beat[a])
  BY <1>1
<1>2. ASSUME NEW b \in Actors, ActorAcquire(b)
      PROVE  \/ actor'[a].pc = actor[a].pc /\ beat'[a] = beat[a]
             \/ ActorAcquire(a) /\ actor[a].pc = "recv" /\ actor'[a].pc = "lease" /\ beat'[a] = "on"
  <2>1. CASE a = b
    BY <1>2, <1>a, <2>1 DEF ActorAcquire, ActorRec
  <2>2. CASE a # b
    BY <1>2, <1>a, <2>2 DEF ActorAcquire
  <2> QED BY <2>1, <2>2
<1>3. ASSUME NEW b \in Actors, ActorLease(b) \/ Ends(b)
      PROVE  ActorLease(a) \/ Ends(a) \/ (actor'[a] = actor[a] /\ beat'[a] = beat[a])
  BY <1>3, LeaseMeans, EndsMeans
<1>4. ASSUME NEW b \in Actors, HeartbeatTick(b)
      PROVE  actor'[a].pc = actor[a].pc /\ (actor[a].pc \in {"lease", "submit"} => beat'[a] = beat[a])
  BY <1>4, <1>a DEF HeartbeatTick, RowFollows
<1>5. ASSUME NEW r \in Runs, RunActorStep(r) PROVE actor'[a].pc = actor[a].pc /\ UNCHANGED beat
  BY <1>5, <1>a, LeaveRunEffect DEF RunActorStep, RunActorStops, RunActorReads, RunActorWrites
<1>6. CASE SupSpawnRun
  BY <1>6, <1>a, SpawnEffect DEF SupSpawnRun, CalcsOf
<1>7. CASE SupRespawn
  <2>1. SpawnActors({sup.calc}, "sup") /\ UNCHANGED beat
    BY <1>7, <1>a DEF SupRespawn
  <2> QED BY <1>7, <1>a, <2>1, SpawnEffect
<1>8. CASE SupCancelCalc
  <2>1. actor[a] \in ActorRec
    BY <1>a
  <2>2. actor'[a].pc = actor[a].pc /\ UNCHANGED beat
    BY <1>8, <2>1 DEF SupCancelCalc, ActorRec
  <2> QED BY <2>2
<1>9. CASE \/ UNCHANGED vars \/ SupSubmit \/ WatchdogTick \/ WatchdogLists
           \/ \E c \in Calcs : RetryFallsDue(c) \/ LeaseRunsOut(c) \/ SupInsert(c)
  BY <1>1, <1>9 DEF vars, SupSubmit, WatchdogTick, WatchdogLists, RetryFallsDue, LeaseRunsOut,
     SupInsert
<1>10. CASE Asks \/ SupCancelRun \/ SupRetry
  BY <1>1, <1>10, AskingMeans DEF SupCancelRun, SupRetry
<1> QED BY <1>2, <1>3, <1>4, <1>5, <1>6, <1>7, <1>8, <1>9, <1>10 DEF Serves

(* A calculation that gets an actor waits for one and has none. *)
LEMMA SpawnedRows ==
    ASSUME UInv, NEW a \in Actors,
           \/ SupSpawnRun /\ RunOf[CalcOf(a)] = sup.run
           \/ SupRespawn /\ CalcOf(a) = sup.calc
    PROVE  actor[a].pc = "idle" /\ row[CalcOf(a)].status = "pending" /\ UNCHANGED row
<1>1. CalcOf(a) \in Calcs
  BY ActorOwner
<1>2. CASE SupSpawnRun /\ RunOf[CalcOf(a)] = sup.run
  <2>1. Unknown(CalcOf(a))
    BY <1>1, <1>2 DEF SupSpawnRun, UInv, BInv, UnbornIsUnknown, Unborn
  <2>2. row[CalcOf(a)].status # "absent"
    BY <1>1, <1>2 DEF SupSpawnRun, CalcsOf
  <2> QED BY <1>2, <2>1, <2>2 DEF Unknown, IsFree, SupSpawnRun
<1>3. CASE SupRespawn /\ CalcOf(a) = sup.calc
  BY <1>1, <1>3 DEF SupRespawn, UInv, RetriesAreDue
<1> QED BY <1>2, <1>3

----------------------------------------------------------------------------
(* The invariant                                                           *)

LEMMA InitServes == NoFaults => (Init => UInv)
<1> SUFFICES ASSUME Init PROVE UInv
  OBVIOUS
<1>1. StartOnce /\ Undisturbed /\ OneActor /\ RowFollows
  BY DEF Init, StartOnce, Undisturbed, OneActor, RowFollows, IdleActor, Asleep
<1>2. RetriesAreDue /\ RunningIsAlive /\ NoDetours
  BY DEF Init, RetriesAreDue, RetryWaits, RunningIsAlive, NoDetours, NoRow
<1> QED BY <1>1, <1>2, InitOK, InitBorn DEF UInv

LEMMA StillUndisturbed == ASSUME NoFaults, UInv, Serves, [Next]_vars PROVE Undisturbed'
<1>a. /\ IInv /\ Undisturbed /\ RunningIsAlive /\ NoDetours
      /\ \A k \in {"crash", "stall", "dbError", "shutdown"} : ~Spend(k)
  BY NoFaultSpent DEF UInv
<1>1. \A i \in 1..Len(mailbox') : mailbox'[i].op \notin {"reschedule", "shutdown"}
  <2>1. ASSUME NEW i \in 1..Len(mailbox'), mailbox'[i].op \in {"reschedule", "shutdown"} PROVE FALSE
    BY <1>a, <2>1, WhoSends, SendsOp DEF Undisturbed
  <2> QED BY <2>1
<1>2. ~Startup /\ ~Crash /\ ~Exit
  BY <1>a DEF Startup, BeginSweep, SweepRow, Restore, Crash, Exit, Undisturbed
<1>3. UNCHANGED daemon
  BY <1>2, OnlyProcessMovesDaemon
<1>4. sup'.pc # "stopped"
  <2>1. CASE UNCHANGED sup \/ LoseMemory
    BY <1>a, <2>1 DEF Undisturbed, LoseMemory
  <2>2. CASE SupSubmit
    BY <2>1, <2>2 DEF SupSubmit
  <2>3. ASSUME NEW c \in Calcs, SupInsert(c) PROVE sup'.pc # "stopped"
    BY <2>1, <2>3 DEF SupInsert
  <2>4. CASE SupSpawnRun \/ SupRespawn
    BY <2>4 DEF SupSpawnRun, SupRespawn
  <2>5. CASE SupRetry
    BY <2>1, <2>5 DEF SupRetry
  <2>6. ~SupShutdown
    BY <1>a, HeadOfMail DEF SupShutdown, Undisturbed
  <2> QED BY <2>1, <2>2, <2>3, <2>4, <2>5, <2>6, OnlySupChangesSup
          DEF SupStep, SupCancelRun, SupCancelCalc, SupReschedule
<1>5. wd'.todo = {}
  <2>1. CASE WatchdogTick \/ WatchdogLists
    <3>1. ExpiredLeases = {} /\ ReadyRetries = {}
      BY <1>a DEF ExpiredLeases, ReadyRetries, LeaseExpired, RetryReady, RunningIsAlive, NoDetours
    <3> QED BY <2>1, <3>1 DEF WatchdogTick, WatchdogLists, ReadRows, Asleep
  <2>2. ASSUME NEW a \in Actors, ActorAcquire(a) \/ ActorLease(a) \/ Ends(a) \/ HeartbeatTick(a)
        PROVE  UNCHANGED wd
    BY <2>2, LeaseMeans, EndsMeans DEF ActorAcquire, HeartbeatTick
  <2>3. CASE \/ UNCHANGED vars \/ \E c \in Calcs : RetryFallsDue(c) \/ LeaseRunsOut(c)
             \/ \E r \in Runs : RunActorStep(r)
    BY <1>a, <2>3 DEF vars, RetryFallsDue, LeaseRunsOut, RunActorStep, RunActorStops,
       RunActorReads, RunActorWrites, Undisturbed
  <2>4. CASE \/ SupSubmit \/ (\E c \in Calcs : SupInsert(c)) \/ SupSpawnRun \/ SupCancelRun
             \/ SupCancelCalc \/ SupRetry \/ SupRespawn \/ Asks
    BY <1>a, <2>4, AskingMeans DEF SupSubmit, SupInsert, SupSpawnRun, SupCancelRun, SupCancelCalc,
       SupRetry, SupRespawn, Undisturbed
  <2> QED BY <1>a, <2>1, <2>2, <2>3, <2>4 DEF Serves, Undisturbed
<1> QED BY <1>a, <1>1, <1>3, <1>4, <1>5 DEF Undisturbed

LEMMA StillOneActor == ASSUME NoFaults, UInv, Serves PROVE OneActor'
<1> SUFFICES ASSUME NEW a \in Actors, NEW b \in Actors, CalcOf(a) = CalcOf(b),
                    actor'[a].pc # "idle", actor'[b].pc # "idle"
             PROVE  a = b
  BY DEF OneActor
<1> DEFINE spawned(x) == \/ SupSpawnRun /\ RunOf[CalcOf(x)] = sup.run
                         \/ SupRespawn /\ CalcOf(x) = sup.calc
<1>1. ASSUME NEW x \in Actors, actor'[x].pc # "idle"
      PROVE  actor[x].pc # "idle" \/ (spawned(x) /\ x = Fresh(CalcOf(x)))
  BY <1>1, ActorsWork, LeaseMeans, EndsMeans
<1>2. CASE spawned(a)
  <2>1. actor[a].pc = "idle" /\ actor[b].pc = "idle"
    BY <1>2, SpawnedRows
  <2> QED BY <1>1, <2>1
<1>3. CASE ~spawned(a)
  <2>1. ~spawned(b)
    BY <1>3
  <2> HIDE DEF spawned
  <2> QED BY <1>1, <1>3, <2>1 DEF UInv, OneActor
<1> QED BY <1>2, <1>3

LEMMA RowStillFollows == ASSUME NoFaults, UInv, Serves PROVE RowFollows'
<1> SUFFICES ASSUME NEW a \in Actors
             PROVE  /\ actor'[a].pc \in {"recv", "lease"} => row'[CalcOf(a)].status = "pending"
                    /\ actor'[a].pc = "submit" => row'[CalcOf(a)].status = "running"
                    /\ actor'[a].pc \in {"lease", "submit"} => beat'[a] = "on"
  BY DEF RowFollows
<1>a. CalcOf(a) \in Calcs /\ RowFollows /\ OneActor
  BY ActorOwner DEF UInv
<1>1. CASE ActorLease(a) \/ Ends(a)
  BY <1>1, <1>a, LeaseMeans, EndsMeans DEF RowFollows
<1>2. CASE /\ \/ SupSpawnRun /\ RunOf[CalcOf(a)] = sup.run
              \/ SupRespawn /\ CalcOf(a) = sup.calc
           /\ actor'[a].pc = "recv"
  BY <1>2, SpawnedRows
<1>3. CASE ActorAcquire(a) /\ actor[a].pc = "recv" /\ actor'[a].pc = "lease" /\ beat'[a] = "on"
  BY <1>3, <1>a DEF ActorAcquire, RowFollows
<1>4. ASSUME ~ActorLease(a), ~Ends(a), actor'[a].pc = actor[a].pc,
             actor[a].pc \in {"lease", "submit"} => beat'[a] = beat[a]
      PROVE  /\ actor'[a].pc \in {"recv", "lease"} => row'[CalcOf(a)].status = "pending"
             /\ actor'[a].pc = "submit" => row'[CalcOf(a)].status = "running"
             /\ actor'[a].pc \in {"lease", "submit"} => beat'[a] = "on"
  <2>1. ASSUME NEW b \in Actors, CalcOf(b) = CalcOf(a), ActorLease(b) \/ Ends(b)
        PROVE  actor[a].pc = "idle"
    <3>1. actor[b].pc # "idle" /\ a # b
      BY <2>1, <1>4 DEF ActorLease, Ends
    <3> QED BY <1>a, <2>1, <3>1 DEF OneActor
  <2>2. CASE actor[a].pc \in {"recv", "lease", "submit"}
    <3>1. row'[CalcOf(a)].status = row[CalcOf(a)].status
      BY <1>a, <2>1, <2>2, RowMoves DEF RowFollows
    <3> QED BY <1>4, <1>a, <2>2, <3>1 DEF RowFollows
  <2> QED BY <1>4, <2>2
<1> QED BY <1>1, <1>2, <1>3, <1>4, ActorsWork

(* A failed calculation has no actor, so its retry cannot meet one. *)
LEMMA FailedIsIdle ==
    ASSUME UInv, NEW a \in Actors, row[CalcOf(a)].status = "failed"
    PROVE  actor[a].pc = "idle"
<1>1. actor[a] \in ActorRec
  BY DEF UInv, IInv, ActorsOK
<1> QED BY <1>1 DEF UInv, RowFollows, StartOnce, ActorRec

(* Who has a retry under way had one before, or has just passed its check. *)
LEMMA RetryBefore ==
    ASSUME IInv, [Next]_vars, NEW c \in Calcs, retryOk'[c] > 0 \/ RetryWaits(c)'
    PROVE  retryOk[c] > 0 \/ RetryWaits(c) \/ RetryCheck(c)
<1>a. retryOk \in [Calcs -> Nat]
  BY DEF IInv, TasksOK
<1>1. CASE RetryWaits(c)'
  <2>1. PICK i \in 1..Len(mailbox') : mailbox'[i].op = "retry" /\ mailbox'[i].calc = c
    BY <1>1 DEF RetryWaits, AsksRetry
  <2>2. ASSUME NEW j \in 1..Len(mailbox), mailbox'[i] = mailbox[j] PROVE RetryWaits(c)
    BY <2>1, <2>2 DEF RetryWaits, AsksRetry
  <2>3. CASE Sends(mailbox'[i])
    <3>1. RetrySend(c)
      BY <2>1, <2>3, SendsOp
    <3> QED BY <3>1 DEF RetrySend
  <2> QED BY <2>2, <2>3, WhoSends
<1>2. CASE retryOk'[c] > 0
  <2>1. CASE UNCHANGED retryOk
    BY <1>2, <2>1
  <2>2. ASSUME NEW d \in Calcs, RetryCheck(d) \/ RetrySend(d)
        PROVE  retryOk[c] > 0 \/ RetryCheck(c)
    BY <1>a, <1>2, <2>2 DEF RetryCheck, RetrySend
  <2>3. CASE LoseMemory
    BY <1>2, <2>3 DEF LoseMemory
  <2> QED BY <2>1, <2>2, <2>3, WhoUsesRetryOk
<1> QED BY <1>1, <1>2

(* If retries do not meet, each still finds its calculation failed. *)
LEMMA StillDue == ASSUME NoFaults, UInv, RetriesApart, Serves, [Next]_vars PROVE RetriesAreDue'
<1> SUFFICES ASSUME NEW c \in Calcs
             PROVE  /\ retryOk'[c] > 0 \/ RetryWaits(c)' => row'[c].status = "failed"
                    /\ sup'.pc = "respawn" /\ sup'.calc = c =>
                          /\ row'[c].status = "pending"
                          /\ \A a \in Actors : CalcOf(a) = c => actor'[a].pc = "idle"
  BY DEF RetriesAreDue
<1>a. IInv /\ RetriesAreDue /\ Undisturbed
  BY DEF UInv
<1>1. ASSUME retryOk'[c] > 0 \/ RetryWaits(c)' PROVE row'[c].status = "failed"
  <2>1. row[c].status = "failed"
    BY <1>1, <1>a, RetryBefore DEF RetriesAreDue, RetryCheck
  <2>2. ASSUME SupRetry, AsksRetry(1, c) PROVE FALSE
    <3>1. mailbox # <<>> /\ mailbox' = Tail(mailbox) /\ UNCHANGED retryOk /\ 1 \in 1..Len(mailbox)
      BY <2>2, RetryMeans
    <3>2. retryOk[c] = 0
      BY <2>2, <3>1 DEF RetriesApart, RetryWaits, UInv, IInv, TasksOK
    <3>3. PICK i \in 1..Len(mailbox') : AsksRetry(i, c)'
      BY <1>1, <3>1, <3>2 DEF RetryWaits
    <3>4. i + 1 \in 1..Len(mailbox) /\ AsksRetry(i + 1, c) /\ i + 1 # 1
      BY <1>a, <3>1, <3>3, MailTaken DEF AsksRetry
    <3> QED BY <2>2, <3>1, <3>4 DEF RetriesApart
  <2> QED BY <2>1, <2>2, RowMoves
<1>2. ASSUME sup'.pc = "respawn", sup'.calc = c, ~SupRetry
      PROVE  /\ row'[c].status = "pending"
             /\ \A a \in Actors : CalcOf(a) = c => actor'[a].pc = "idle"
  <2>1. UNCHANGED sup
    <3>1. CASE LoseMemory
      BY <1>2, <3>1 DEF LoseMemory
    <3>2. ASSUME NEW d \in Calcs, SupInsert(d) PROVE UNCHANGED sup
      BY <1>2, <3>2 DEF SupInsert
    <3>3. CASE SupSubmit
      BY <1>2, <3>3 DEF SupSubmit
    <3>4. CASE SupSpawnRun \/ SupRespawn \/ SupShutdown
      BY <1>2, <3>4 DEF SupSpawnRun, SupRespawn, SupShutdown
    <3> QED BY <1>2, <3>1, <3>2, <3>3, <3>4, OnlySupChangesSup
            DEF SupStep, SupCancelRun, SupCancelCalc, SupReschedule
  <2>2. /\ row[c].status = "pending"
        /\ \A a \in Actors : CalcOf(a) = c => actor[a].pc = "idle"
    BY <1>2, <1>a, <2>1 DEF RetriesAreDue
  <2>3. ~SupSpawnRun /\ ~SupRespawn
    BY <1>2, <2>1 DEF SupSpawnRun, SupRespawn
  <2>4. \A a \in Actors : CalcOf(a) = c => ~ActorLease(a) /\ ~Ends(a)
    BY <2>2 DEF ActorLease, Ends
  <2> QED BY <2>2, <2>3, <2>4, RowMoves, ActorsWork
<1>3. ASSUME sup'.pc = "respawn", sup'.calc = c, SupRetry
      PROVE  /\ row'[c].status = "pending"
             /\ \A a \in Actors : CalcOf(a) = c => actor'[a].pc = "idle"
  BY <1>3, RetryMeans, FailedIsIdle
<1> QED BY <1>1, <1>2, <1>3

(* Nothing takes the lease of a calculation that runs, and goes on running. *)
LEMMA LeaseKept ==
    ASSUME NoFaults, UInv, Serves, NEW c \in Calcs,
           row[c].status = "running", row'[c].status = "running"
    PROVE  row'[c].lease = "live"
<1>a. /\ row \in [Calcs -> Row] /\ \A d \in Calcs : row[d] \in Row
      /\ row[c].lease = "live"
  BY DEF UInv, IInv, RowsOK, RunningIsAlive
<1>1. ASSUME NEW d \in Calcs, RetryFallsDue(d) \/ (LeaseRunsOut(d) /\ row[d].status # "running")
      PROVE  row'[c].lease = "live"
  BY <1>1, <1>a DEF RetryFallsDue, LeaseRunsOut, Row
<1>2. ASSUME NEW a \in Actors, HeartbeatTick(a) PROVE row'[c].lease = "live"
  BY <1>2, <1>a DEF HeartbeatTick, Heartbeat, Row
<1>3. ASSUME NEW d \in Calcs, SupInsert(d) PROVE row'[c].lease = "live"
  BY <1>3, <1>a DEF SupInsert
<1>4. ASSUME NEW a \in Actors, ActorLease(a) \/ Ends(a) PROVE row'[c].lease = "live"
  BY <1>4, <1>a, LeaseMeans, EndsMeans
<1>5. CASE \/ UNCHANGED vars \/ SupSubmit \/ SupSpawnRun \/ WatchdogTick \/ WatchdogLists
           \/ \E r \in Runs : RunActorStep(r)
           \/ \E a \in Actors : ActorAcquire(a)
  BY <1>5, <1>a DEF vars, SupSubmit, SupSpawnRun, WatchdogTick, WatchdogLists, RunActorStep,
     RunActorStops, RunActorReads, RunActorWrites, ActorAcquire
<1>6. CASE SupCancelRun \/ SupCancelCalc \/ SupRespawn \/ Asks
  BY <1>6, <1>a, AskingMeans DEF SupCancelRun, SupCancelCalc, SupRespawn
<1>7. CASE SupRetry
  BY <1>7, <1>a, RetryMeans
<1> QED BY <1>1, <1>2, <1>3, <1>4, <1>5, <1>6, <1>7 DEF Serves

LEMMA StillAlive == ASSUME NoFaults, UInv, Serves PROVE RunningIsAlive'
<1> SUFFICES ASSUME NEW c \in Calcs, row'[c].status = "running"
             PROVE  /\ row'[c].lease = "live"
                    /\ \E a \in Actors : CalcOf(a) = c /\ actor'[a].pc = "submit"
  BY DEF RunningIsAlive
<1>1. CASE row[c].status = "running"
  <2>1. PICK a \in Actors : CalcOf(a) = c /\ actor[a].pc = "submit"
    BY <1>1 DEF UInv, RunningIsAlive
  <2>2. ~Ends(a) /\ ~ActorLease(a)
    BY <2>1, EndsMeans DEF ActorLease
  <2>3. actor'[a].pc = "submit"
    BY <2>1, <2>2, ActorsWork, SpawnedRows
  <2> QED BY <1>1, <2>1, <2>3, LeaseKept
<1>2. CASE row[c].status # "running"
  BY <1>2, RowMoves, LeaseMeans
<1> QED BY <1>1, <1>2

LEMMA StillNoDetours == ASSUME NoFaults, UInv, Serves PROVE NoDetours'
BY RowMoves DEF UInv, NoDetours

(* The invariant is inductive as long as retries do not meet. *)
LEMMA NextServes == ASSUME NoFaults, UInv, RetriesApart, [Next]_vars PROVE UInv' /\ Serves
<1>1. Serves
  BY OnlyServes
<1>2. IInv' /\ BInv' /\ StartOnce'
  BY NoFaultSpent, NextOK, NextBorn, NextStartOnce DEF UInv, NoFaults
<1> QED BY <1>1, <1>2, StillUndisturbed, StillDue, StillOneActor, RowStillFollows, StillAlive,
           StillNoDetours DEF UInv

----------------------------------------------------------------------------
(* Retries, one after the other                                            *)

(* What is spent stays spent. *)
LEMMA WhoSpends == ASSUME [Next]_vars PROVE UNCHANGED spent \/ \E k \in Kinds : Spend(k)
<1>a. {"crash", "stall", "dbError", "cancel", "retry", "shutdown"} = Kinds
  BY DEF Kinds
<1>1. ASSUME NEW a \in Actors, NEW status, Finish(a, status)
      PROVE  UNCHANGED spent \/ Spend("dbError")
  BY <1>1 DEF Finish, Write
<1>2. ASSUME NEW a \in Actors, ActorAcquire(a) \/ ActorStep(a) \/ HeartbeatTick(a)
      PROVE  UNCHANGED spent \/ Spend("dbError")
  BY <1>1, <1>2 DEF ActorAcquire, ActorStep, ActorLease, ActorSucceeds, ActorFails, ActorExhausts,
     ActorBacksOff, ActorResets, ActorCancelled, ActorGone, HeartbeatTick, Write
<1>3. ASSUME NEW r \in Runs, RunActorStep(r) PROVE UNCHANGED spent \/ Spend("dbError")
  BY <1>3 DEF RunActorStep, RunActorStops, RunActorReads, RunActorWrites
<1>4. CASE SupStep
  BY <1>4, <1>a DEF SupStep, SupSubmit, SupInsert, SupSpawnRun, SupCancelRun, SupCancelCalc,
     SupReschedule, SupRetry, SupRespawn, SupShutdown
<1>5. CASE Request
  BY <1>5, <1>a DEF Request, RequestSubmit, RequestCancelRun, RequestCancelCalc, RetryCheck,
     RetrySend, RequestShutdown
<1>6. CASE WatchdogStep
  BY <1>6, <1>a DEF WatchdogStep, WatchdogTick, WatchdogCharges, WatchdogLists, WatchdogReschedules
<1>7. CASE \/ Startup \/ Crash \/ Exit \/ UNCHANGED vars
           \/ \E c \in Calcs : RetryFallsDue(c) \/ LeaseRunsOut(c)
  BY <1>7, <1>a DEF Startup, BeginSweep, SweepRow, Restore, Crash, Exit, vars, RetryFallsDue,
     LeaseRunsOut
<1> QED BY <1>a, <1>2, <1>3, <1>4, <1>5, <1>6, <1>7 DEF Next

LEMMA NeverUnspent == ASSUME IInv, [Next]_vars, NEW k \in Kinds PROVE spent'[k] >= spent[k]
<1>1. spent \in [Kinds -> Nat]
  BY DEF IInv, TasksOK
<1>2. ASSUME NEW l \in Kinds, Spend(l) PROVE spent'[k] >= spent[k]
  BY <1>1, <1>2 DEF Spend
<1> QED BY <1>1, <1>2, WhoSpends

(* Two retries of one calculation come near each other by a check alone. *)
LEMMA StillApart ==
    ASSUME IInv, RetriesApart, [Next]_vars, NEW c \in Calcs, ~RetryCheck(c)
    PROVE  /\ retryOk'[c] <= 1
           /\ \A i, j \in 1..Len(mailbox') : AsksRetry(i, c)' /\ AsksRetry(j, c)' => i = j
           /\ ~(retryOk'[c] > 0 /\ RetryWaits(c)')
<1>a. /\ retryOk \in [Calcs -> Nat] /\ retryOk[c] <= 1 /\ mailbox \in Seq(Command)
      /\ \A i, j \in 1..Len(mailbox) : AsksRetry(i, c) /\ AsksRetry(j, c) => i = j
      /\ ~(retryOk[c] > 0 /\ RetryWaits(c))
  BY DEF IInv, TasksOK, RetriesApart
<1>1. /\ retryOk'[c] <= retryOk[c]
      /\ \/ retryOk'[c] = retryOk[c]
         \/ retryOk[c] = 1 /\ retryOk'[c] = 0
         \/ LoseMemory
  <2>1. ASSUME NEW d \in Calcs, RetryCheck(d) PROVE retryOk'[c] = retryOk[c]
    BY <1>a, <2>1 DEF RetryCheck
  <2>2. ASSUME NEW d \in Calcs, RetrySend(d)
        PROVE  retryOk'[c] = retryOk[c] \/ (retryOk[c] = 1 /\ retryOk'[c] = 0)
    BY <1>a, <2>2 DEF RetrySend
  <2>3. CASE LoseMemory
    BY <1>a, <2>3 DEF LoseMemory
  <2> QED BY <1>a, <2>1, <2>2, <2>3, WhoUsesRetryOk
<1>b. retryOk'[c] <= 1 /\ (retryOk'[c] > 0 => retryOk[c] > 0)
  <2>1. CASE LoseMemory
    BY <1>a, <2>1 DEF LoseMemory
  <2> QED BY <1>a, <1>1, <2>1
<1>2. CASE UNCHANGED mailbox
  <2>1. \A i : AsksRetry(i, c)' <=> AsksRetry(i, c)
    BY <1>2 DEF AsksRetry
  <2> QED BY <1>a, <1>b, <1>2, <2>1 DEF RetryWaits
<1>3. CASE mailbox' = <<>>
  <2>1. 1..Len(mailbox') = {}
    BY <1>3
  <2> QED BY <1>b, <2>1 DEF RetryWaits
<1>4. CASE mailbox # <<>> /\ mailbox' = Tail(mailbox)
  <2>1. ASSUME NEW i \in 1..Len(mailbox'), AsksRetry(i, c)'
        PROVE  i + 1 \in 1..Len(mailbox) /\ AsksRetry(i + 1, c)
    BY <1>4, <2>1, MailTaken DEF AsksRetry
  <2>2. ASSUME NEW i \in 1..Len(mailbox'), NEW j \in 1..Len(mailbox'),
               AsksRetry(i, c)', AsksRetry(j, c)'
        PROVE  i = j
    <3>1. i + 1 = j + 1
      BY <1>a, <2>1, <2>2
    <3> QED BY <3>1
  <2> QED BY <1>a, <1>b, <2>1, <2>2 DEF RetryWaits
<1>5. ASSUME NEW cmd, mailbox' = Append(mailbox, cmd), Sends(cmd)
      PROVE  /\ retryOk'[c] <= 1
             /\ \A i, j \in 1..Len(mailbox') : AsksRetry(i, c)' /\ AsksRetry(j, c)' => i = j
             /\ ~(retryOk'[c] > 0 /\ RetryWaits(c)')
  <2>1. ASSUME NEW i \in 1..Len(mailbox'), AsksRetry(i, c)'
        PROVE  \/ i \in 1..Len(mailbox) /\ AsksRetry(i, c)
               \/ i = Len(mailbox) + 1 /\ retryOk[c] = 1 /\ retryOk'[c] = 0
    <3>1. CASE i \in 1..Len(mailbox) /\ mailbox'[i] = mailbox[i]
      BY <2>1, <3>1 DEF AsksRetry
    <3>2. CASE i = Len(mailbox) + 1 /\ mailbox'[i] = cmd
      <4>1. RetrySend(c)
        BY <1>5, <2>1, <3>2, SendsOp DEF AsksRetry
      <4>2. retryOk[c] = 1 /\ retryOk'[c] = 0
        BY <1>a, <4>1 DEF RetrySend
      <4> QED BY <3>2, <4>2
    <3> QED BY <1>5, <3>1, <3>2, MailSent
  <2>2. ASSUME NEW i \in 1..Len(mailbox'), NEW j \in 1..Len(mailbox'),
               AsksRetry(i, c)', AsksRetry(j, c)'
        PROVE  i = j
    <3>1. CASE retryOk[c] = 1
      <4>1. \A k \in 1..Len(mailbox) : ~AsksRetry(k, c)
        BY <1>a, <3>1 DEF RetryWaits
      <4> QED BY <2>1, <2>2, <4>1
    <3>2. CASE retryOk[c] # 1
      BY <1>a, <2>1, <2>2, <3>2
    <3> QED BY <3>1, <3>2
  <2>3. ~(retryOk'[c] > 0 /\ RetryWaits(c)')
    <3>1. ASSUME NEW i \in 1..Len(mailbox'), AsksRetry(i, c)', retryOk'[c] > 0 PROVE FALSE
      <4>1. retryOk[c] > 0 /\ AsksRetry(i, c) /\ i \in 1..Len(mailbox)
        BY <1>b, <2>1, <3>1
      <4> QED BY <1>a, <4>1 DEF RetryWaits
    <3> QED BY <3>1 DEF RetryWaits
  <2> QED BY <1>b, <2>2, <2>3
<1> QED BY <1>2, <1>3, <1>4, <1>5, WhoAppends

\* Before the first retry there is none.
RetriedOnce ==
    /\ RetriesApart
    /\ spent["retry"] = 0 => \A c \in Calcs : retryOk[c] = 0 /\ ~RetryWaits(c)

LEMMA NextRetriedOnce ==
    ASSUME Limits["retry"] <= 1, IInv, RetriedOnce, [Next]_vars
    PROVE  RetriedOnce'
<1>a. /\ retryOk \in [Calcs -> Nat] /\ mailbox \in Seq(Command) /\ spent \in [Kinds -> Nat]
      /\ Limits["retry"] \in Nat
  BY RunsdAssumption DEF IInv, TasksOK, RunsdAssumption, Kinds
<1>1. ASSUME NEW c \in Calcs, RetryCheck(c) PROVE RetriedOnce'
  <2>1. spent["retry"] = 0 /\ spent'["retry"] = 1
    BY <1>a, <1>1 DEF RetryCheck, Spend, Kinds
  <2>2. UNCHANGED mailbox /\ retryOk'[c] = 1 /\ \A d \in Calcs : d # c => retryOk'[d] = 0
    BY <1>a, <1>1, <2>1 DEF RetryCheck, RetriedOnce
  <2>3. \A d \in Calcs : ~RetryWaits(d)'
    BY <2>1, <2>2 DEF RetriedOnce, RetryWaits, AsksRetry
  <2>4. \A d \in Calcs : \A i \in 1..Len(mailbox') : ~AsksRetry(i, d)'
    BY <2>3 DEF RetryWaits
  <2>5. \A d \in Calcs : retryOk'[d] <= 1
    BY <2>2
  <2>6. RetriesApart'
    BY <2>3, <2>4, <2>5 DEF RetriesApart
  <2> QED BY <2>1, <2>6 DEF RetriedOnce
<1>2. CASE ~\E c \in Calcs : RetryCheck(c)
  <2>1. RetriesApart'
    BY <1>2, StillApart DEF RetriedOnce, RetriesApart
  <2>2. ASSUME spent'["retry"] = 0, NEW c \in Calcs PROVE retryOk'[c] = 0 /\ ~RetryWaits(c)'
    <3>1. spent["retry"] = 0
      <4>1. "retry" \in Kinds /\ spent["retry"] \in Nat
        BY <1>a DEF Kinds
      <4> QED BY <2>2, <4>1, NeverUnspent
    <3>2. ~(retryOk'[c] > 0) /\ ~RetryWaits(c)'
      BY <1>2, <1>a, <3>1, RetryBefore DEF RetriedOnce
    <3>3. retryOk'[c] \in Nat
      BY NextOK DEF IInv, TasksOK
    <3> QED BY <3>2, <3>3
  <2> QED BY <2>1, <2>2 DEF RetriedOnce
<1> QED BY <1>1, <1>2

(* With one retry request in all there are never two at once. *)
THEOREM OneRetryIsApart == ASSUME Limits["retry"] <= 1 PROVE Spec => []RetriesApart
<1>1. Init => RetriedOnce
  BY DEF Init, RetriedOnce, RetriesApart, RetryWaits
<1>2. ASSUME IInv, RetriedOnce, [Next]_vars PROVE RetriedOnce'
  BY <1>2, NextRetriedOnce
<1>3. RetriedOnce => RetriesApart
  BY DEF RetriedOnce
<1> QED BY <1>1, <1>2, <1>3, Invariance, PTL DEF Spec

----------------------------------------------------------------------------
(* What users can rely on                                                  *)

(* The inductive invariant, as long as retries of a calculation do not meet. *)
THEOREM UsersInvariance == ASSUME NoFaults PROVE Spec /\ []RetriesApart => []UInv
<1>1. Init => UInv
  BY InitServes
<1>2. ASSUME UInv, RetriesApart, [Next]_vars PROVE UInv'
  BY <1>2, NextServes
<1> QED BY <1>1, <1>2, PTL DEF Spec

(* Two actors never hold the lease of one calculation or submit it at once,
   whatever users cancel and retry and however their commands race with the
   actors, as long as no two retries of a calculation are between the check of
   api/handlers.rs and the reset of Supervisor::retry_calc at once. *)
THEOREM NeverTwoRunners == ASSUME NoFaults PROVE Spec /\ []RetriesApart => []SingleRunner
<1>1. ASSUME UInv PROVE SingleRunner
  <2>1. SUFFICES ASSUME NEW a \in Actors, NEW b \in Actors, CalcOf(a) = CalcOf(b),
                        {actor[a].pc, actor[b].pc} \subseteq {"lease", "submit"}
                 PROVE  a = b
    BY DEF SingleRunner
  <2>2. actor[a].pc # "idle" /\ actor[b].pc # "idle"
    BY <2>1
  <2> QED BY <1>1, <2>1, <2>2 DEF UInv, OneActor
<1> QED BY <1>1, UsersInvariance, PTL

(* Under the same conditions a finished calculation changes again only when the
   supervisor takes a retry of it out of its mailbox. *)
THEOREM FinishedStaysFinished ==
    ASSUME NoFaults
    PROVE  Spec /\ []RetriesApart => TerminalIsFinal
<1>1. ASSUME UInv, RetriesApart, [Next]_vars, NEW c \in Calcs,
             row[c].status \in TerminalCalc, row'[c].status # row[c].status
      PROVE  Receives("retry") /\ sup'.pc = "respawn"
  <2>1. Serves
    BY <1>1, NextServes
  <2>2. row[c].status \in {"succeeded", "failed", "cancelled"}
    BY <1>1 DEF TerminalCalc
  <2>3. SupRetry /\ sup' = [pc |-> "respawn", calc |-> c]
    BY <1>1, <2>1, <2>2, RowMoves
  <2> QED BY <2>3 DEF SupRetry
<1>2. UInv /\ RetriesApart /\ [Next]_vars
      => [\A c \in Calcs :
            row[c].status \in TerminalCalc /\ row'[c].status # row[c].status
            => Receives("retry") /\ sup'.pc = "respawn"]_vars
  BY <1>1
<1> QED BY <1>2, UsersInvariance, PTL DEF Spec, TerminalIsFinal

(* And each retry finds its calculation failed, as api/handlers.rs promises: it
   takes two that meet to break that (run double_retry). *)
THEOREM RetriesFindFailed ==
    ASSUME NoFaults
    PROVE  Spec /\ []RetriesApart => RetryOnlyFailed
<1>1. ASSUME UInv, RetriesApart, [Next]_vars, sup.pc = "recv", sup'.pc = "respawn"
      PROVE  row[sup'.calc].status = "failed"
  <2>1. ~LoseMemory /\ sup' # sup
    BY <1>1 DEF LoseMemory
  <2>2. SupRetry
    <3>1. ~SupSubmit /\ \A c \in Calcs : ~SupInsert(c)
      <4>1. CASE SupSubmit
        BY <1>1, <2>1, <4>1 DEF SupSubmit
      <4>2. ASSUME NEW c \in Calcs, SupInsert(c) PROVE FALSE
        BY <1>1, <4>2 DEF SupInsert
      <4> QED BY <4>1, <4>2
    <3>2. ~SupSpawnRun /\ ~SupRespawn /\ ~SupShutdown
      BY <1>1 DEF SupSpawnRun, SupRespawn, SupShutdown
    <3> QED BY <1>1, <2>1, <3>1, <3>2, OnlySupChangesSup
            DEF SupStep, SupCancelRun, SupCancelCalc, SupReschedule
  <2> QED BY <1>1, <2>2, RetryMeans
<1>2. UInv /\ RetriesApart /\ [Next]_vars
      => [sup.pc = "recv" /\ sup'.pc = "respawn" => row[sup'.calc].status = "failed"]_vars
  BY <1>1
<1> QED BY <1>2, UsersInvariance, PTL DEF Spec, RetryOnlyFailed

(* One retry request in all meets no other, so that these hold of every
   behaviour: the instance that the run users checks. *)
THEOREM OneRetryIsSafe ==
    ASSUME NoFaults, Limits["retry"] <= 1
    PROVE  Spec => []SingleRunner /\ TerminalIsFinal /\ RetryOnlyFailed
BY OneRetryIsApart, NeverTwoRunners, FinishedStaysFinished, RetriesFindFailed, PTL
=============================================================================
