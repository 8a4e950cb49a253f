---------------------------- MODULE SpawnProofs ----------------------------
(***************************************************************************)
(* Who starts a calculation, and who counts it: no pending calculation is  *)
(* forgotten and no run actor waits for a report that cannot come, proved  *)
(* for a database that does not fail.  Both need to know that nobody has   *)
(* heard of a calculation before its run actor is spawned.                 *)
(***************************************************************************)
EXTENDS RunsdProofs, WellFoundedInduction

\* The database applies every command it is given.
DatabaseWorks == Limits["dbError"] = 0

\* The external API never asks for a retry (ErrorClass::Transient).
ApiIsDefinite == "transient" \notin Outcomes

\* A calculation can have an actor at all.
RoomToSpawn == MaxActors # 0

\* Before submit_run, or inside it.
Unborn(r) == runStatus[r] = "absent" \/ (sup.pc = "insert" /\ sup.run = r)

\* No task works on c or is about to.
Unknown(c) ==
    /\ row[c].status \in {"absent", "pending"}
    /\ \A a \in Actors : CalcOf(a) = c => IsFree(a)
    /\ retryOk[c] = 0
    /\ \A e \in wd.todo : e.calc # c
    /\ \A i \in 1..Len(mailbox) :
          mailbox[i].op \in {"reschedule", "retry"} => mailbox[i].calc # c
    /\ sup.pc = "respawn" => sup.calc # c
    /\ c \notin daemon.todo

UnbornIsUnknown == \A c \in Calcs : Unborn(RunOf[c]) => Unknown(c)

UnbornIsOff == \A r \in Runs : Unborn(r) => runActor[r].pc = "off"

AbsentRuns == \A c \in Calcs : runStatus[RunOf[c]] = "absent" => row[c].status = "absent"

\* A run is submitted once: inserted only after that, and never asked for twice.
InsertedIsThere == sup.pc = "insert" => runStatus[sup.run] # "absent"

SubmittedIsAbsent ==
    \A i \in 1..Len(mailbox) :
        mailbox[i].op = "submit" => runStatus[mailbox[i].run] = "absent"

SubmittedOnce ==
    \A i, j \in 1..Len(mailbox) :
        /\ mailbox[i].op = "submit" /\ mailbox[j].op = "submit"
        /\ mailbox[i].run = mailbox[j].run
        => i = j

Submissions == InsertedIsThere /\ SubmittedIsAbsent /\ SubmittedOnce

\* Until the daemon is restored nothing runs but the sweep.
DownIsQuiet ==
    daemon.pc # "up" =>
        /\ sup = [pc |-> "recv"] /\ mailbox = <<>> /\ wd = Asleep
        /\ \A c \in Calcs : retryOk[c] = 0
        /\ \A a \in Actors : IsFree(a)

IdleDropped == \A a \in Actors : actor[a].pc = "idle" => actor[a].sender = "dropped"

BInv == UnbornIsUnknown /\ UnbornIsOff /\ AbsentRuns /\ Submissions /\ DownIsQuiet /\ IdleDropped

----------------------------------------------------------------------------
(* Spawning                                                                *)

(* A set of naturals that is not empty has a least element. *)
LEMMA LeastNatural ==
    ASSUME NEW T \in SUBSET Nat, T # {}
    PROVE  \E x \in T : \A y \in T : x <= y
<1>1. PICK x \in T : \A y \in T : <<y, x>> \notin OpToRel(<, Nat)
  BY NatLessThanWellFounded, WFMin
<1>2. ASSUME NEW y \in T PROVE x <= y
  <2>1. x \in Nat /\ y \in Nat
    OBVIOUS
  <2>2. ~(y < x)
    BY <1>1, <2>1 DEF OpToRel
  <2> QED BY <2>1, <2>2
<1> QED BY <1>2

(* If an actor of a calculation is free, Fresh names a free one. *)
LEMMA FreshIsFree ==
    ASSUME NEW c \in Calcs, CanSpawn(c)
    PROVE  Fresh(c) \in Actors /\ CalcOf(Fresh(c)) = c /\ IsFree(Fresh(c))
<1> DEFINE free == {n \in 1..MaxActors : IsFree(<<c, n>>)}
<1>1. \A a \in Actors : a = <<CalcOf(a), a[2]>> /\ CalcOf(a) \in Calcs /\ a[2] \in 1..MaxActors
  BY DEF Actors, CalcOf
<1>2. free \in SUBSET Nat /\ free # {}
  BY <1>1 DEF CanSpawn
<1> HIDE DEF free
<1>3. PICK n \in free : \A m \in free : n <= m
  BY <1>2, LeastNatural
<1>4. /\ <<c, n>> \in Actors /\ CalcOf(<<c, n>>) = c /\ IsFree(<<c, n>>)
      /\ <<c, n>>[2] = n
  BY <1>3 DEF free, Actors, CalcOf
<1>5. ASSUME NEW b \in Actors, CalcOf(b) = c, IsFree(b) PROVE n <= b[2]
  <2>1. b[2] \in free
    BY <1>1, <1>5 DEF free
  <2> QED BY <1>3, <2>1
<1> QED BY <1>4, <1>5 DEF Fresh

(* A calculation without a working actor can be given one. *)
LEMMA FreeCanSpawn ==
    ASSUME NEW c \in Calcs, RoomToSpawn, \A a \in Actors : CalcOf(a) = c => IsFree(a)
    PROVE  CanSpawn(c)
<1>1. <<c, 1>> \in Actors /\ CalcOf(<<c, 1>>) = c
  BY RunsdAssumption DEF RunsdAssumption, RoomToSpawn, Actors, CalcOf
<1> QED BY <1>1 DEF CanSpawn

(* What spawning does to an actor: a new one where there was none, at most a
   dropped sender elsewhere. *)
LEMMA SpawnEffect ==
    ASSUME IInv, NEW S, NEW sender, SpawnActors(S, sender), NEW a \in Actors
    PROVE  \/ /\ CalcOf(a) \in S /\ a = Fresh(CalcOf(a))
              /\ actor'[a].pc = "recv" /\ actor'[a].start /\ actor'[a].sender = sender
           \/ /\ a # Fresh(CalcOf(a)) /\ sender = "sup" /\ actor[a].sender = "sup"
              /\ actor'[a].pc = actor[a].pc /\ actor'[a].start = actor[a].start
              /\ actor'[a].sender = "dropped"
           \/ actor'[a] = actor[a] /\ ~(CalcOf(a) \in S /\ a = Fresh(CalcOf(a)))
<1>1. actor[a] \in ActorRec
  BY DEF IInv, ActorsOK
<1> QED BY <1>1 DEF SpawnActors, Spawned, ActorRec

(* What a run actor does to a calculation actor when it returns. *)
LEMMA LeaveRunEffect ==
    ASSUME IInv, NEW r \in Runs, NEW cancel, LeaveRun(r, cancel), NEW a \in Actors
    PROVE  /\ actor'[a].pc = actor[a].pc /\ actor'[a].start = actor[a].start
           /\ IF RunOf[CalcOf(a)] = r /\ actor[a].sender = "run"
              THEN actor'[a].sender = "dropped" ELSE actor'[a] = actor[a]
<1>1. actor[a] \in ActorRec
  BY DEF IInv, ActorsOK
<1> QED BY <1>1 DEF LeaveRun, ActorRec

(* The mailbox after a command is taken out, and after one is sent. *)
LEMMA MailTaken ==
    ASSUME IInv, mailbox # <<>>, mailbox' = Tail(mailbox)
    PROVE  /\ Head(mailbox) = mailbox[1] /\ 1 \in 1..Len(mailbox)
           /\ \A i \in 1..Len(mailbox') : /\ i + 1 \in 1..Len(mailbox)
                                          /\ mailbox'[i] = mailbox[i + 1]
<1>1. mailbox \in Seq(Command)
  BY DEF IInv, TasksOK
<1> HIDE DEF IInv
<1> QED BY <1>1, HeadTailProperties

LEMMA MailSent ==
    ASSUME IInv, NEW cmd, mailbox' = Append(mailbox, cmd)
    PROVE  \A i \in 1..Len(mailbox') :
              \/ i \in 1..Len(mailbox) /\ mailbox'[i] = mailbox[i]
              \/ i = Len(mailbox) + 1 /\ mailbox'[i] = cmd
<1>1. mailbox \in Seq(Command)
  BY DEF IInv, TasksOK
<1> HIDE DEF IInv
<1> QED BY <1>1

----------------------------------------------------------------------------
(* The initial state                                                       *)

LEMMA InitBorn == Init => BInv
<1> SUFFICES ASSUME Init PROVE BInv
  OBVIOUS
<1>1. UnbornIsUnknown /\ UnbornIsOff
  BY DEF Init, UnbornIsUnknown, UnbornIsOff, Unknown, NoRow, NoRunActor, IsFree, IdleActor, Asleep
<1>2. AbsentRuns
  BY DEF Init, AbsentRuns, NoRow
<1>3. Submissions /\ DownIsQuiet /\ IdleDropped
  BY DEF Init, Submissions, InsertedIsThere, SubmittedIsAbsent, SubmittedOnce, DownIsQuiet, IdleDropped, IdleActor
<1> QED BY <1>1, <1>2, <1>3 DEF BInv

----------------------------------------------------------------------------
(* Until the daemon is restored nothing runs but the sweep                 *)

LEMMA StaysQuiet == ASSUME IInv, BInv, [Next]_vars PROVE DownIsQuiet'
<1> SUFFICES ASSUME daemon'.pc # "up" PROVE DownIsQuiet'
  BY DEF DownIsQuiet
<1>1. CASE daemon.pc = "up"
  <2>1. LoseMemory
    BY <1>1 DEF Next, vars, RetryFallsDue, LeaseRunsOut, ActorAcquire, ActorStep, ActorLease,
       ActorSucceeds, ActorFails, ActorExhausts, ActorBacksOff, ActorResets, ActorCancelled,
       ActorGone, Finish, HeartbeatTick, RunActorStep, RunActorStops, RunActorReads,
       RunActorWrites, SupStep, SupSubmit, SupInsert, SupSpawnRun, SupCancelRun,
       SupCancelCalc, SupReschedule, SupRetry, SupRespawn, SupShutdown, Request,
       RequestSubmit, RequestCancelRun, RequestCancelCalc, RetryCheck, RetrySend,
       RequestShutdown, WatchdogStep, WatchdogTick, WatchdogCharges, WatchdogLists,
       WatchdogReschedules, Startup, BeginSweep, SweepRow, Restore, Crash, Exit
  <2> QED BY <2>1 DEF LoseMemory, DownIsQuiet, IsFree, IdleActor
<1>2. CASE daemon.pc # "up"
  <2>1. /\ sup = [pc |-> "recv"] /\ mailbox = <<>> /\ wd = Asleep
        /\ \A c \in Calcs : retryOk[c] = 0
        /\ \A a \in Actors : IsFree(a)
    BY <1>2 DEF BInv, DownIsQuiet
  <2>2. CASE Crash \/ Exit
    BY <2>2 DEF Crash, Exit, LoseMemory, DownIsQuiet, IsFree, IdleActor
  <2>3. ASSUME UNCHANGED <<sup, mailbox, wd, retryOk, beat>>,
               \A a \in Actors : actor'[a].pc = actor[a].pc
        PROVE  DownIsQuiet'
    BY <2>1, <2>3 DEF DownIsQuiet, IsFree
  <2>4. CASE \/ \E c \in Calcs : RetryFallsDue(c) \/ LeaseRunsOut(c) \/ SweepRow(c)
             \/ BeginSweep \/ UNCHANGED vars
    BY <2>3, <2>4 DEF RetryFallsDue, LeaseRunsOut, SweepRow, BeginSweep, vars
  <2>5. ASSUME NEW a \in Actors PROVE ~(ActorAcquire(a) \/ ActorStep(a) \/ HeartbeatTick(a))
    BY <2>1, <2>5 DEF IsFree, ActorAcquire, ActorStep, ActorLease, ActorSucceeds, ActorFails,
       ActorExhausts, ActorBacksOff, ActorResets, ActorCancelled, ActorGone, HeartbeatTick
  <2>6. ASSUME NEW r \in Runs, RunActorStep(r) PROVE DownIsQuiet'
    <3>1. \A a \in Actors : actor'[a].pc = actor[a].pc
      BY <2>6, LeaveRunEffect DEF RunActorStep, RunActorStops, RunActorReads, RunActorWrites
    <3> QED BY <2>3, <2>6, <3>1 DEF RunActorStep, RunActorStops, RunActorReads, RunActorWrites
  <2>7. ~SupStep
    BY <1>2, <2>1 DEF SupStep, SupSubmit, SupInsert, SupSpawnRun, SupCancelRun,
       SupCancelCalc, SupReschedule, SupRetry, SupRespawn, SupShutdown, Receives
  <2>8. ~Request
    BY <1>2 DEF Request, RequestSubmit, RequestCancelRun, RequestCancelCalc, RetryCheck,
       RetrySend, RequestShutdown
  <2>10. ~Restore
    <3>1. ASSUME Restore PROVE daemon' = [pc |-> "up", todo |-> {}]
      BY <3>1 DEF Restore
    <3> QED BY <3>1
  <2>9. ~WatchdogStep
    BY <1>2, <2>1 DEF WatchdogStep, WatchdogTick, WatchdogCharges, WatchdogLists,
       WatchdogReschedules, Asleep
  <2> QED BY <2>2, <2>4, <2>5, <2>6, <2>7, <2>8, <2>9, <2>10 DEF Next, Startup
<1> QED BY <1>1, <1>2

----------------------------------------------------------------------------
(* An actor that is idle has no sender                                     *)

LEMMA SpawnKeepsDropped ==
    ASSUME IInv, BInv, NEW S, NEW sender, SpawnActors(S, sender)
    PROVE  IdleDropped'
BY SpawnEffect DEF BInv, IdleDropped

LEMMA StaysDropped == ASSUME IInv, BInv, [Next]_vars PROVE IdleDropped'
<1> USE DEF IdleDropped
<1>a. IdleDropped /\ actor \in [Actors -> ActorRec]
  BY DEF BInv, IInv, ActorsOK
<1>1. CASE UNCHANGED actor
  BY <1>1, <1>a
<1>2. ASSUME NEW a \in Actors, ActorAcquire(a) \/ ActorStep(a) \/ HeartbeatTick(a)
      PROVE  IdleDropped'
  BY <1>2, <1>a DEF ActorAcquire, ActorStep, ActorLease, ActorSucceeds, ActorFails,
     ActorExhausts, ActorBacksOff, ActorResets, ActorCancelled, ActorGone, Finish,
     HeartbeatTick, IdleActor, ActorRec
<1>3. ASSUME NEW r \in Runs, RunActorStep(r) PROVE IdleDropped'
  BY <1>3, <1>a, LeaveRunEffect DEF RunActorStep, RunActorStops, RunActorReads, RunActorWrites
<1>4. CASE SupSpawnRun \/ SupReschedule \/ SupRespawn \/ Restore
  BY <1>1, <1>4, SpawnKeepsDropped DEF SupSpawnRun, SupReschedule, SupRespawn, Restore
<1>5. CASE SupCancelCalc \/ SupShutdown
  <2>1. ASSUME NEW a \in Actors
        PROVE  actor'[a].pc = actor[a].pc /\ actor'[a].sender \in {actor[a].sender, "dropped"}
    <3>1. actor[a] \in ActorRec
      BY <1>a
    <3>2. CASE SupCancelCalc
      BY <3>1, <3>2 DEF SupCancelCalc, ActorRec
    <3>3. CASE SupShutdown
      BY <3>1, <3>3 DEF SupShutdown, ActorRec
    <3> QED BY <1>5, <3>2, <3>3
  <2> QED BY <2>1, <1>a
<1>6. CASE Crash \/ Exit
  BY <1>6 DEF Crash, Exit, LoseMemory, IdleActor
<1>7. CASE SupStep
  BY <1>1, <1>4, <1>5, <1>7 DEF SupStep, SupSubmit, SupInsert, SupCancelRun, SupRetry
<1>8. CASE Request \/ WatchdogStep
  BY <1>1, <1>8 DEF Request, RequestSubmit, RequestCancelRun, RequestCancelCalc, RetryCheck,
     RetrySend, RequestShutdown, WatchdogStep, WatchdogTick, WatchdogCharges, WatchdogLists,
     WatchdogReschedules
<1>9. CASE Startup \/ UNCHANGED vars \/ \E c \in Calcs : RetryFallsDue(c) \/ LeaseRunsOut(c)
  BY <1>1, <1>4, <1>9 DEF Startup, BeginSweep, SweepRow, RetryFallsDue, LeaseRunsOut, vars
<1> QED BY <1>2, <1>3, <1>6, <1>7, <1>8, <1>9 DEF Next

----------------------------------------------------------------------------
(* Nobody hears of a calculation before its run actor is spawned           *)

(* The supervisor's place is its own: only the death of the process moves it. *)
LEMMA OnlySupChangesSup ==
    ASSUME [Next]_vars, ~SupStep
    PROVE  UNCHANGED sup \/ LoseMemory
<1>1. ASSUME NEW a \in Actors, ActorAcquire(a) \/ ActorStep(a) \/ HeartbeatTick(a)
      PROVE  UNCHANGED sup
  BY <1>1 DEF ActorAcquire, ActorStep, ActorLease, ActorSucceeds, ActorFails, ActorExhausts,
     ActorBacksOff, ActorResets, ActorCancelled, ActorGone, Finish, HeartbeatTick
<1>2. ASSUME NEW r \in Runs, RunActorStep(r) PROVE UNCHANGED sup
  BY <1>2 DEF RunActorStep, RunActorStops, RunActorReads, RunActorWrites
<1>3. CASE Request \/ WatchdogStep
  BY <1>3 DEF Request, RequestSubmit, RequestCancelRun, RequestCancelCalc, RetryCheck, RetrySend,
     RequestShutdown, WatchdogStep, WatchdogTick, WatchdogCharges, WatchdogLists,
     WatchdogReschedules
<1>4. CASE Startup \/ UNCHANGED vars \/ \E c \in Calcs : RetryFallsDue(c) \/ LeaseRunsOut(c)
  BY <1>4 DEF Startup, BeginSweep, SweepRow, Restore, vars, RetryFallsDue, LeaseRunsOut
<1>5. CASE Crash \/ Exit
  BY <1>5 DEF Crash, Exit
<1> QED BY <1>1, <1>2, <1>3, <1>4, <1>5 DEF Next

(* The daemon goes up and down by its own steps alone. *)
LEMMA OnlyProcessMovesDaemon ==
    ASSUME [Next]_vars, ~Startup, ~Crash, ~Exit
    PROVE  UNCHANGED daemon
<1>1. ASSUME NEW a \in Actors, ActorAcquire(a) \/ ActorStep(a) \/ HeartbeatTick(a)
      PROVE  UNCHANGED daemon
  BY <1>1 DEF ActorAcquire, ActorStep, ActorLease, ActorSucceeds, ActorFails, ActorExhausts,
     ActorBacksOff, ActorResets, ActorCancelled, ActorGone, Finish, HeartbeatTick
<1>2. CASE SupStep \/ WatchdogStep
  BY <1>2 DEF SupStep, SupSubmit, SupInsert, SupSpawnRun, SupCancelRun, SupCancelCalc,
     SupReschedule, SupRetry, SupRespawn, SupShutdown, WatchdogStep, WatchdogTick,
     WatchdogCharges, WatchdogLists, WatchdogReschedules
<1>3. CASE Request
  BY <1>3 DEF Request, RequestSubmit, RequestCancelRun, RequestCancelCalc, RetryCheck,
     RetrySend, RequestShutdown
<1>4. CASE \/ UNCHANGED vars \/ \E c \in Calcs : RetryFallsDue(c) \/ LeaseRunsOut(c)
           \/ \E r \in Runs : RunActorStep(r)
  BY <1>4 DEF vars, RetryFallsDue, LeaseRunsOut, RunActorStep, RunActorStops, RunActorReads,
     RunActorWrites
<1> QED BY <1>1, <1>2, <1>3, <1>4 DEF Next

(* The status of a run is written by the supervisor and by its run actor. *)
LEMMA WhoWritesRunStatus ==
    ASSUME [Next]_vars
    PROVE  UNCHANGED runStatus \/ SupSubmit \/ \E r \in Runs : RunActorWrites(r)
<1>1. ASSUME NEW a \in Actors, ActorAcquire(a) \/ ActorStep(a) \/ HeartbeatTick(a)
      PROVE  UNCHANGED runStatus
  BY <1>1 DEF ActorAcquire, ActorStep, ActorLease, ActorSucceeds, ActorFails, ActorExhausts,
     ActorBacksOff, ActorResets, ActorCancelled, ActorGone, Finish, HeartbeatTick
<1>2. ASSUME NEW r \in Runs, RunActorStep(r) PROVE UNCHANGED runStatus \/ RunActorWrites(r)
  BY <1>2 DEF RunActorStep, RunActorStops, RunActorReads
<1>3. CASE Request \/ WatchdogStep
  BY <1>3 DEF Request, RequestSubmit, RequestCancelRun, RequestCancelCalc, RetryCheck, RetrySend,
     RequestShutdown, WatchdogStep, WatchdogTick, WatchdogCharges, WatchdogLists,
     WatchdogReschedules
<1>4. CASE SupStep
  BY <1>4 DEF SupStep, SupInsert, SupSpawnRun, SupCancelRun, SupCancelCalc, SupReschedule,
     SupRetry, SupRespawn, SupShutdown
<1>5. CASE Startup \/ UNCHANGED vars \/ \E c \in Calcs : RetryFallsDue(c) \/ LeaseRunsOut(c)
  BY <1>5 DEF Startup, BeginSweep, SweepRow, Restore, vars, RetryFallsDue, LeaseRunsOut
<1>6. CASE Crash \/ Exit
  BY <1>6 DEF Crash, Exit, LoseMemory
<1> QED BY <1>1, <1>2, <1>3, <1>4, <1>5, <1>6 DEF Next

(* No run disappears. *)
LEMMA AbsentBefore ==
    ASSUME IInv, [Next]_vars, NEW r \in Runs, runStatus'[r] = "absent"
    PROVE  runStatus[r] = "absent"
<1>1. ASSUME NEW s \in Runs, RunActorWrites(s) PROVE runStatus[r] = "absent"
  <2>1. runActor[s].status # "absent"
    BY DEF IInv, TasksOK, RunActorRec, RunStatus
  <2> QED BY <1>1, <2>1 DEF RunActorWrites, IInv, TasksOK
<1>2. CASE SupSubmit
  BY <1>2 DEF SupSubmit, IInv, TasksOK
<1> QED BY <1>1, <1>2, WhoWritesRunStatus

(* A run that is not spawned was not spawned before. *)
LEMMA UnbornBefore ==
    ASSUME IInv, BInv, [Next]_vars, NEW r \in Runs, Unborn(r)'
    PROVE  Unborn(r)
<1>1. CASE runStatus'[r] = "absent"
  BY <1>1, AbsentBefore DEF Unborn
<1>2. CASE sup'.pc = "insert" /\ sup'.run = r
  <2>1. CASE UNCHANGED sup
    BY <1>2, <2>1 DEF Unborn
  <2>2. CASE SupSubmit
    <3>1. /\ Head(mailbox) = mailbox[1] /\ 1 \in 1..Len(mailbox)
          /\ Head(mailbox).op = "submit"
      BY <2>2, MailTaken DEF SupSubmit, Receives
    <3>2. runStatus[Head(mailbox).run] = "absent"
      BY <3>1 DEF BInv, Submissions, SubmittedIsAbsent
    <3> QED BY <1>2, <2>1, <2>2, <3>2 DEF SupSubmit, Unborn
  <2>3. CASE SupStep
    <3>1. CASE SupRetry
      BY <1>2, <2>1, <3>1 DEF SupRetry
    <3>2. ASSUME NEW c \in Calcs, SupInsert(c) PROVE Unborn(r)
      BY <1>2, <2>1, <3>2 DEF SupInsert
    <3>3. CASE SupSpawnRun \/ SupRespawn \/ SupShutdown
      BY <1>2, <3>3 DEF SupSpawnRun, SupRespawn, SupShutdown
    <3>4. CASE SupCancelRun \/ SupCancelCalc \/ SupReschedule
      BY <2>1, <3>4 DEF SupCancelRun, SupCancelCalc, SupReschedule
    <3> QED BY <2>2, <2>3, <3>1, <3>2, <3>3, <3>4 DEF SupStep
  <2>4. CASE ~SupStep
    BY <1>2, <2>1, <2>4, OnlySupChangesSup DEF LoseMemory
  <2> QED BY <2>3, <2>4
<1> QED BY <1>1, <1>2 DEF Unborn

(* What of c the tasks' own state may have to do with. *)
LEMMA UnknownFrame ==
    ASSUME NEW c \in Calcs, Unknown(c),
           row'[c].status \in {"absent", "pending"},
           \A a \in Actors : CalcOf(a) = c => /\ actor'[a].pc = actor[a].pc
                                              /\ beat'[a] = beat[a],
           UNCHANGED <<retryOk, wd, mailbox, sup, daemon>>
    PROVE  Unknown(c)'
BY DEF Unknown, IsFree

(* The clock, the heartbeat tasks and the actors of other calculations. *)
LEMMA UnknownByActors ==
    ASSUME IInv, NEW c \in Calcs, Unknown(c), NEW a \in Actors,
           ActorAcquire(a) \/ ActorStep(a) \/ HeartbeatTick(a)
    PROVE  Unknown(c)' /\ row'[c] = row[c]
<1>1. CalcOf(a) # c
  BY DEF Unknown, IsFree, ActorAcquire, ActorStep, ActorLease, ActorSucceeds, ActorFails,
     ActorExhausts, ActorBacksOff, ActorResets, ActorCancelled, ActorGone, HeartbeatTick
<1>2. row'[c] = row[c]
  BY <1>1 DEF ActorAcquire, ActorStep, ActorLease, ActorSucceeds, ActorFails,
     ActorExhausts, ActorBacksOff, ActorResets, ActorCancelled, ActorGone, HeartbeatTick,
     Finish, Write, IInv, RowsOK
<1>3. ASSUME NEW b \in Actors, CalcOf(b) = c
      PROVE  actor'[b].pc = actor[b].pc /\ beat'[b] = beat[b]
  <2>1. b # a
    BY <1>1, <1>3
  <2> QED BY <2>1 DEF ActorAcquire, ActorStep, ActorLease, ActorSucceeds, ActorFails,
          ActorExhausts, ActorBacksOff, ActorResets, ActorCancelled, ActorGone, HeartbeatTick,
          Finish, StopBeat, IInv, ActorsOK, TasksOK
<1>4. UNCHANGED <<retryOk, wd, mailbox, sup, daemon>>
  BY DEF ActorAcquire, ActorStep, ActorLease, ActorSucceeds, ActorFails,
     ActorExhausts, ActorBacksOff, ActorResets, ActorCancelled, ActorGone, HeartbeatTick, Finish
<1>5. row'[c].status \in {"absent", "pending"}
  BY <1>2 DEF Unknown
<1> QED BY <1>2, <1>3, <1>4, <1>5, UnknownFrame

(* Time, and the run actors. *)
LEMMA UnknownByClock ==
    ASSUME IInv, NEW c \in Calcs, Unknown(c), NEW d \in Calcs,
           RetryFallsDue(d) \/ LeaseRunsOut(d)
    PROVE  Unknown(c)' /\ row'[c].status = row[c].status
<1>1. row'[c].status = row[c].status
  BY DEF RetryFallsDue, LeaseRunsOut, IInv, RowsOK, Row
<1> QED BY <1>1, UnknownFrame DEF RetryFallsDue, LeaseRunsOut, Unknown

LEMMA UnknownByRunActor ==
    ASSUME IInv, NEW c \in Calcs, Unknown(c), NEW r \in Runs, RunActorStep(r)
    PROVE  Unknown(c)' /\ row'[c] = row[c]
<1>1. \A a \in Actors : actor'[a].pc = actor[a].pc
  BY LeaveRunEffect DEF RunActorStep, RunActorStops, RunActorReads, RunActorWrites
<1> QED BY <1>1, UnknownFrame
        DEF RunActorStep, RunActorStops, RunActorReads, RunActorWrites, Unknown

(* Each command the supervisor takes out of its mailbox leaves the others there. *)
LEMMA UnknownMail ==
    ASSUME IInv, NEW c \in Calcs, Unknown(c), mailbox # <<>>, mailbox' = Tail(mailbox)
    PROVE  /\ Head(mailbox).op \in {"reschedule", "retry"} => Head(mailbox).calc # c
           /\ \A i \in 1..Len(mailbox') :
                 mailbox'[i].op \in {"reschedule", "retry"} => mailbox'[i].calc # c
BY MailTaken DEF Unknown

(* The supervisor: it spawns actors for calculations of other runs only. *)
LEMMA UnknownBySup ==
    ASSUME IInv, BInv, SupStep, NEW c \in Calcs, Unborn(RunOf[c]), Unborn(RunOf[c])'
    PROVE  Unknown(c)'
<1>a. Unknown(c) /\ row \in [Calcs -> Row] /\ \A a \in Actors : actor[a] \in ActorRec
  BY DEF BInv, UnbornIsUnknown, IInv, RowsOK, ActorsOK
<1>b. ASSUME UNCHANGED <<row, beat, retryOk, wd, daemon>>,
             \A a \in Actors : CalcOf(a) = c => actor'[a].pc = actor[a].pc,
             UNCHANGED mailbox \/ (mailbox # <<>> /\ mailbox' = Tail(mailbox)) \/ mailbox' = <<>>,
             sup'.pc = "respawn" => sup'.calc # c
      PROVE  Unknown(c)'
  BY <1>a, <1>b, UnknownMail DEF Unknown, IsFree
<1>1. CASE SupSubmit
  BY <1>a, <1>1, <1>b DEF SupSubmit, Receives, Unknown
<1>2. ASSUME NEW d \in Calcs, SupInsert(d) PROVE Unknown(c)'
  <2>1. row'[c].status \in {"absent", "pending"}
    BY <1>a, <1>2 DEF SupInsert, NewRow, NoRow, Unknown
  <2> QED BY <1>a, <1>2, <2>1 DEF SupInsert, Unknown, IsFree
<1>3. CASE SupSpawnRun
  <2>1. RunOf[c] # sup.run
    BY <1>3 DEF SupSpawnRun, Unborn, BInv, Submissions, InsertedIsThere
  <2>2. \A a \in Actors : CalcOf(a) = c => actor'[a].pc = actor[a].pc
    BY <1>3, <2>1, SpawnEffect DEF SupSpawnRun, CalcsOf
  <2> QED BY <1>3, <2>2, <1>b DEF SupSpawnRun
<1>4. CASE SupCancelRun
  BY <1>a, <1>4, <1>b DEF SupCancelRun, Receives, Unknown
<1>5. CASE SupCancelCalc
  <2>1. \A a \in Actors : actor'[a].pc = actor[a].pc
    BY <1>a, <1>5 DEF SupCancelCalc, ActorRec
  <2> QED BY <1>a, <1>5, <2>1, <1>b DEF SupCancelCalc, Receives, Unknown
<1>6. CASE SupReschedule
  <2>1. mailbox # <<>> /\ mailbox' = Tail(mailbox) /\ Head(mailbox).op = "reschedule"
    BY <1>6 DEF SupReschedule, Receives
  <2>2. Head(mailbox).calc # c
    BY <1>a, <2>1, UnknownMail
  <2>3. \A a \in Actors : CalcOf(a) = c => actor'[a].pc = actor[a].pc
    BY <1>6, <2>2, SpawnEffect DEF SupReschedule
  <2> QED BY <1>a, <1>6, <2>1, <2>3, <1>b DEF SupReschedule, Unknown
<1>7. CASE SupRetry
  <2>1. mailbox # <<>> /\ mailbox' = Tail(mailbox) /\ Head(mailbox).op = "retry"
    BY <1>7 DEF SupRetry, Receives
  <2>2. Head(mailbox).calc # c
    BY <1>a, <2>1, UnknownMail
  <2>3. row'[c] = row[c] /\ sup'.pc = "respawn" => sup'.calc # c
    BY <1>a, <1>7, <2>2 DEF SupRetry, Unknown
  <2> QED BY <1>a, <1>7, <2>1, <2>3, UnknownMail DEF SupRetry, Unknown, IsFree
<1>8. CASE SupRespawn
  <2>1. \A a \in Actors : CalcOf(a) = c => actor'[a].pc = actor[a].pc
    BY <1>a, <1>8, SpawnEffect DEF SupRespawn, Unknown
  <2> QED BY <1>8, <2>1, <1>b DEF SupRespawn
<1>9. CASE SupShutdown
  <2>1. \A a \in Actors : actor'[a].pc = actor[a].pc
    BY <1>a, <1>9 DEF SupShutdown, ActorRec
  <2> QED BY <1>9, <2>1, <1>b DEF SupShutdown
<1> QED BY <1>1, <1>2, <1>3, <1>4, <1>5, <1>6, <1>7, <1>8, <1>9 DEF SupStep

(* Requests about c need its row to be there and failed; the watchdog reads
   rows that are running or retrying. *)
LEMMA UnknownByRequest ==
    ASSUME IInv, Request, NEW c \in Calcs, Unknown(c)
    PROVE  Unknown(c)'
<1>a. retryOk \in [Calcs -> Nat]
  BY DEF IInv, TasksOK
<1>b. ASSUME UNCHANGED <<row, actor, beat, sup, wd, daemon>>, retryOk'[c] = 0,
             \/ UNCHANGED mailbox
             \/ \E cmd : /\ mailbox' = Append(mailbox, cmd)
                         /\ cmd.op \in {"reschedule", "retry"} => cmd.calc # c
      PROVE  Unknown(c)'
  BY <1>b, MailSent DEF Unknown, IsFree
<1>1. ASSUME NEW r \in Runs, RequestSubmit(r) \/ RequestCancelRun(r) PROVE Unknown(c)'
  BY <1>1, <1>b DEF RequestSubmit, RequestCancelRun, Send, Unknown
<1>2. ASSUME NEW d \in Calcs, RequestCancelCalc(d) PROVE Unknown(c)'
  BY <1>2, <1>b DEF RequestCancelCalc, Send, Unknown
<1>3. ASSUME NEW d \in Calcs, RetryCheck(d) PROVE Unknown(c)'
  BY <1>3, <1>a, <1>b DEF RetryCheck, Unknown
<1>4. ASSUME NEW d \in Calcs, RetrySend(d) PROVE Unknown(c)'
  <2>1. d # c
    BY <1>4 DEF RetrySend, Unknown
  <2> QED BY <1>4, <2>1, <1>a, <1>b DEF RetrySend, Send, Unknown
<1>5. CASE RequestShutdown
  BY <1>5, <1>b DEF RequestShutdown, Send, Unknown
<1> QED BY <1>1, <1>2, <1>3, <1>4, <1>5 DEF Request

LEMMA UnknownByWatchdog ==
    ASSUME IInv, WatchdogStep, NEW c \in Calcs, Unknown(c)
    PROVE  Unknown(c)' /\ row'[c] = row[c]
<1>a. row \in [Calcs -> Row]
  BY DEF IInv, RowsOK
<1>b. ASSUME UNCHANGED <<actor, beat, sup, retryOk, daemon>>, row'[c] = row[c],
             \A e \in wd'.todo : e.calc # c,
             UNCHANGED mailbox \/ \E cmd : mailbox' = Append(mailbox, cmd) /\ cmd.calc # c
      PROVE  Unknown(c)'
  BY <1>b, MailSent DEF Unknown, IsFree
<1>1. CASE WatchdogTick
  <2>1. \A e \in wd'.todo : e.calc # c
    BY <1>1 DEF WatchdogTick, ReadRows, ExpiredLeases, LeaseExpired, Unknown
  <2> QED BY <1>1, <2>1, <1>b DEF WatchdogTick
<1>2. CASE WatchdogLists
  <2>1. \A e \in wd'.todo : e.calc # c
    BY <1>2 DEF WatchdogLists, ReadRows, ReadyRetries, RetryReady, Asleep, Unknown
  <2> QED BY <1>2, <2>1, <1>b DEF WatchdogLists
<1>3. ASSUME NEW e \in wd.todo, WatchdogCharges(e) PROVE Unknown(c)' /\ row'[c] = row[c]
  <2>1. e.calc # c /\ row'[c] = row[c] /\ \A f \in wd'.todo : f.calc # c
    BY <1>3, <1>a DEF WatchdogCharges, Unknown
  <2> QED BY <1>3, <2>1, <1>b DEF WatchdogCharges, TryReschedule
<1>4. ASSUME NEW e \in wd.todo, WatchdogReschedules(e) PROVE Unknown(c)' /\ row'[c] = row[c]
  <2>1. e.calc # c /\ row'[c] = row[c] /\ \A f \in wd'.todo : f.calc # c
    BY <1>4, <1>a DEF WatchdogReschedules, Asleep, Unknown
  <2> QED BY <1>4, <2>1, <1>b DEF WatchdogReschedules, TryReschedule
<1> QED BY <1>1, <1>2, <1>3, <1>4 DEF WatchdogStep

(* Startup has nothing to sweep or restore in a run that was never inserted. *)
LEMMA UnknownByProcess ==
    ASSUME IInv, BInv, Startup \/ LoseMemory, NEW c \in Calcs, Unborn(RunOf[c])
    PROVE  Unknown(c)' /\ row'[c] = row[c]
<1>a. Unknown(c) /\ row \in [Calcs -> Row]
  BY DEF BInv, UnbornIsUnknown, IInv, RowsOK
<1>1. CASE LoseMemory
  BY <1>a, <1>1 DEF LoseMemory, Unknown, IsFree, IdleActor, Asleep
<1>2. CASE BeginSweep
  BY <1>a, <1>2 DEF BeginSweep, SweepTakes, Unknown, IsFree
<1>3. ASSUME NEW d \in Calcs, SweepRow(d) PROVE Unknown(c)' /\ row'[c] = row[c]
  <2>1. d # c
    BY <1>a, <1>3 DEF SweepRow, Unknown
  <2> QED BY <1>a, <1>3, <2>1 DEF SweepRow, Unknown, IsFree
<1>4. CASE Restore
  <2>1. row[c].status = "absent"
    BY <1>4 DEF Restore, BInv, DownIsQuiet, AbsentRuns, Unborn
  <2>2. \A a \in Actors : CalcOf(a) = c => actor'[a].pc = actor[a].pc
    BY <1>4, <2>1, SpawnEffect DEF Restore, IsActive, ActiveCalc
  <2> QED BY <1>a, <1>4, <2>2 DEF Restore, Unknown, IsFree
<1> QED BY <1>1, <1>2, <1>3, <1>4 DEF Startup

(* As long as a run is not spawned nobody hears of its calculations. *)
LEMMA StaysUnknown == ASSUME IInv, BInv, [Next]_vars PROVE UnbornIsUnknown'
<1> SUFFICES ASSUME NEW c \in Calcs, Unborn(RunOf[c])'
             PROVE  Unknown(c)'
  BY DEF UnbornIsUnknown
<1>1. Unborn(RunOf[c]) /\ Unknown(c)
  BY RunsdAssumption, UnbornBefore DEF RunsdAssumption, BInv, UnbornIsUnknown
<1>2. CASE Crash \/ Exit
  BY <1>1, <1>2, UnknownByProcess DEF Crash, Exit
<1>3. CASE UNCHANGED vars
  BY <1>1, <1>3 DEF vars, Unknown, IsFree
<1> QED BY <1>1, <1>2, <1>3, UnknownByActors, UnknownByClock, UnknownByRunActor, UnknownBySup,
           UnknownByRequest, UnknownByWatchdog, UnknownByProcess DEF Next

(* The row of a calculation appears when it is inserted, and not before. *)
LEMMA StaysAbsent == ASSUME IInv, BInv, [Next]_vars PROVE AbsentRuns'
<1> SUFFICES ASSUME NEW c \in Calcs, runStatus'[RunOf[c]] = "absent"
             PROVE  row'[c].status = "absent"
  BY DEF AbsentRuns
<1>a. RunOf[c] \in Runs /\ row \in [Calcs -> Row]
  BY RunsdAssumption DEF RunsdAssumption, IInv, RowsOK
<1>b. runStatus[RunOf[c]] = "absent" /\ Unborn(RunOf[c])
  BY <1>a, AbsentBefore DEF Unborn
<1>c. Unknown(c) /\ row[c].status = "absent"
  BY <1>b DEF BInv, UnbornIsUnknown, AbsentRuns
<1>1. ASSUME NEW d \in Calcs, SupInsert(d) PROVE row'[c] = row[c]
  <2>1. sup.run # RunOf[c]
    BY <1>b, <1>1 DEF SupInsert, BInv, Submissions, InsertedIsThere
  <2> QED BY <1>1, <1>a, <2>1 DEF SupInsert
<1>2. CASE SupRetry
  <2>1. Head(mailbox).calc # c
    BY <1>2, <1>c, UnknownMail DEF SupRetry, Receives
  <2> QED BY <1>2, <1>a, <1>c, <2>1 DEF SupRetry
<1>3. CASE SupStep
  BY <1>1, <1>2, <1>3, <1>c DEF SupStep, SupSubmit, SupSpawnRun, SupCancelRun, SupCancelCalc,
     SupReschedule, SupRespawn, SupShutdown
<1>4. CASE Request
  BY <1>4, <1>c DEF Request, RequestSubmit, RequestCancelRun, RequestCancelCalc, RetryCheck,
     RetrySend, RequestShutdown
<1>5. CASE UNCHANGED vars \/ Crash \/ Exit
  BY <1>5, <1>c DEF vars, Crash, Exit, LoseMemory
<1> QED BY <1>b, <1>c, <1>3, <1>4, <1>5, UnknownByActors, UnknownByClock, UnknownByRunActor,
           UnknownByWatchdog, UnknownByProcess DEF Next

(* A run actor starts when its run is spawned or restored. *)
LEMMA StaysOff == ASSUME IInv, BInv, [Next]_vars PROVE UnbornIsOff'
<1> SUFFICES ASSUME NEW r \in Runs, Unborn(r)'
             PROVE  runActor'[r].pc = "off"
  BY DEF UnbornIsOff
<1>a. Unborn(r) /\ runActor[r].pc = "off" /\ runActor \in [Runs -> RunActorRec]
  BY UnbornBefore DEF BInv, UnbornIsOff, IInv, TasksOK
<1>1. ASSUME NEW a \in Actors, ActorAcquire(a) \/ ActorStep(a) \/ HeartbeatTick(a)
      PROVE  runActor'[r].pc = "off"
  <2>1. UNCHANGED runActor \/ Notify(a)
    BY <1>1 DEF ActorAcquire, ActorStep, ActorLease, ActorSucceeds, ActorFails, ActorExhausts,
       ActorBacksOff, ActorResets, ActorCancelled, ActorGone, Finish, HeartbeatTick
  <2> QED BY <1>a, <2>1 DEF Notify, RunActorRec
<1>2. ASSUME NEW s \in Runs, RunActorStep(s) PROVE runActor'[r].pc = "off"
  <2>1. s # r
    BY <1>a, <1>2 DEF RunActorStep, RunActorStops, RunActorReads, RunActorWrites
  <2> QED BY <1>a, <1>2, <2>1
          DEF RunActorStep, RunActorStops, RunActorReads, RunActorWrites, LeaveRun
<1>3. CASE SupSpawnRun
  <2>1. r # sup.run
    BY <1>3 DEF SupSpawnRun, Unborn, BInv, Submissions, InsertedIsThere
  <2> QED BY <1>3, <1>a, <2>1 DEF SupSpawnRun
<1>4. CASE SupCancelRun \/ SupShutdown
  BY <1>4, <1>a DEF SupCancelRun, SupShutdown
<1>5. CASE SupStep
  BY <1>3, <1>4, <1>5, <1>a DEF SupStep, SupSubmit, SupInsert, SupCancelCalc, SupReschedule,
     SupRetry, SupRespawn
<1>6. CASE Restore
  <2>1. runStatus[r] = "absent"
    BY <1>a, <1>6 DEF Restore, BInv, DownIsQuiet, Unborn
  <2>2. \A unread : {c \in Calcs : IsActive(row[c]) /\ RunOf[c] \notin unread} \cap CalcsOf(r) = {}
    BY <2>1 DEF BInv, AbsentRuns, CalcsOf, IsActive, ActiveCalc
  <2> QED BY <1>6, <2>2 DEF Restore, NoRunActor
<1>7. CASE Crash \/ Exit
  BY <1>7 DEF Crash, Exit, LoseMemory, NoRunActor
<1>8. CASE Request \/ WatchdogStep
  BY <1>8, <1>a DEF Request, RequestSubmit, RequestCancelRun, RequestCancelCalc, RetryCheck,
     RetrySend, RequestShutdown, WatchdogStep, WatchdogTick, WatchdogCharges, WatchdogLists,
     WatchdogReschedules
<1>9. CASE Startup \/ UNCHANGED vars \/ \E c \in Calcs : RetryFallsDue(c) \/ LeaseRunsOut(c)
  BY <1>6, <1>9, <1>a DEF Startup, BeginSweep, SweepRow, vars, RetryFallsDue, LeaseRunsOut
<1> QED BY <1>1, <1>2, <1>5, <1>7, <1>8, <1>9 DEF Next

\* Who sends a command.
Sends(cmd) ==
    \/ \E r \in Runs : RequestSubmit(r) /\ cmd = [op |-> "submit", run |-> r]
    \/ cmd.op \in {"cancelRun", "cancelCalc"} /\ Spend("cancel")
    \/ cmd.op = "shutdown" /\ Spend("shutdown")
    \/ \E c \in Calcs : RetrySend(c) /\ cmd = [op |-> "retry", calc |-> c]
    \/ cmd.op = "reschedule" /\ wd.todo # {}

(* The mailbox is read at its head, emptied, or gets a command at its end. *)
LEMMA WhoAppends ==
    ASSUME [Next]_vars
    PROVE  \/ UNCHANGED mailbox
           \/ mailbox' = <<>>
           \/ mailbox # <<>> /\ mailbox' = Tail(mailbox)
           \/ \E cmd : mailbox' = Append(mailbox, cmd) /\ Sends(cmd)
<1>1. ASSUME NEW a \in Actors, ActorAcquire(a) \/ ActorStep(a) \/ HeartbeatTick(a)
      PROVE  UNCHANGED mailbox
  BY <1>1 DEF ActorAcquire, ActorStep, ActorLease, ActorSucceeds, ActorFails, ActorExhausts,
     ActorBacksOff, ActorResets, ActorCancelled, ActorGone, Finish, HeartbeatTick
<1>2. ASSUME NEW r \in Runs, RunActorStep(r) PROVE UNCHANGED mailbox
  BY <1>2 DEF RunActorStep, RunActorStops, RunActorReads, RunActorWrites
<1>3. CASE SupStep
  BY <1>3 DEF SupStep, SupSubmit, SupInsert, SupSpawnRun, SupCancelRun, SupCancelCalc,
     SupReschedule, SupRetry, SupRespawn, SupShutdown, Receives
<1>4. CASE Request
  <2>1. ASSUME NEW r \in Runs, RequestSubmit(r)
        PROVE  \E cmd : mailbox' = Append(mailbox, cmd) /\ Sends(cmd)
    BY <2>1 DEF RequestSubmit, Send, Sends
  <2>2. ASSUME NEW r \in Runs, RequestCancelRun(r)
        PROVE  \E cmd : mailbox' = Append(mailbox, cmd) /\ Sends(cmd)
    BY <2>2 DEF RequestCancelRun, Send, Sends
  <2>3. ASSUME NEW c \in Calcs, RequestCancelCalc(c)
        PROVE  \E cmd : mailbox' = Append(mailbox, cmd) /\ Sends(cmd)
    BY <2>3 DEF RequestCancelCalc, Send, Sends
  <2>4. ASSUME NEW c \in Calcs, RetrySend(c)
        PROVE  UNCHANGED mailbox \/ \E cmd : mailbox' = Append(mailbox, cmd) /\ Sends(cmd)
    <3>1. UNCHANGED mailbox \/ mailbox' = Append(mailbox, [op |-> "retry", calc |-> c])
      BY <2>4 DEF RetrySend, Send
    <3> QED BY <2>4, <3>1 DEF Sends
  <2>5. ASSUME RequestShutdown
        PROVE  \E cmd : mailbox' = Append(mailbox, cmd) /\ Sends(cmd)
    BY <2>5 DEF RequestShutdown, Send, Sends
  <2>6. ASSUME NEW c \in Calcs, RetryCheck(c) PROVE UNCHANGED mailbox
    BY <2>6 DEF RetryCheck
  <2> QED BY <1>4, <2>1, <2>2, <2>3, <2>4, <2>5, <2>6 DEF Request
<1>5. CASE WatchdogStep
  <2>1. ASSUME NEW c, TryReschedule(c), wd.todo # {}
        PROVE  UNCHANGED mailbox \/ \E cmd : mailbox' = Append(mailbox, cmd) /\ Sends(cmd)
    BY <2>1 DEF TryReschedule, Sends
  <2>2. UNCHANGED mailbox \/ (wd.todo # {} /\ \E c : TryReschedule(c))
    BY <1>5 DEF WatchdogStep, WatchdogTick, WatchdogCharges, WatchdogLists, WatchdogReschedules
  <2> QED BY <2>1, <2>2
<1>6. CASE Startup \/ UNCHANGED vars \/ \E c \in Calcs : RetryFallsDue(c) \/ LeaseRunsOut(c)
  BY <1>6 DEF Startup, BeginSweep, SweepRow, Restore, vars, RetryFallsDue, LeaseRunsOut
<1>7. CASE Crash \/ Exit
  BY <1>7 DEF Crash, Exit, LoseMemory
<1> QED BY <1>1, <1>2, <1>3, <1>4, <1>5, <1>6, <1>7 DEF Next

(* What a command says tells where it is from. *)
LEMMA SendsOp ==
    ASSUME NEW cmd, Sends(cmd)
    PROVE  /\ cmd.op = "submit" => \E r \in Runs : RequestSubmit(r) /\ cmd.run = r
           /\ cmd.op = "retry" => \E c \in Calcs : RetrySend(c) /\ cmd.calc = c
           /\ cmd.op = "shutdown" => Spend("shutdown")
           /\ cmd.op = "reschedule" => wd.todo # {}
<1>1. ASSUME NEW r \in Runs, RequestSubmit(r), cmd = [op |-> "submit", run |-> r]
      PROVE  cmd.op = "submit" /\ cmd.run = r
  BY <1>1
<1>2. ASSUME NEW c \in Calcs, RetrySend(c), cmd = [op |-> "retry", calc |-> c]
      PROVE  cmd.op = "retry" /\ cmd.calc = c
  BY <1>2
<1> QED BY <1>1, <1>2 DEF Sends

(* Of what is sent to the supervisor only a request to submit a run submits one. *)
LEMMA WhoUsesMail ==
    ASSUME [Next]_vars
    PROVE  \/ UNCHANGED mailbox
           \/ mailbox' = <<>>
           \/ mailbox # <<>> /\ mailbox' = Tail(mailbox)
           \/ \E r \in Runs : RequestSubmit(r)
           \/ \E cmd : mailbox' = Append(mailbox, cmd) /\ cmd.op # "submit"
BY WhoAppends, SendsOp

(* A command in the mailbox was there before, or is sent now. *)
LEMMA WhoSends ==
    ASSUME IInv, [Next]_vars, NEW i \in 1..Len(mailbox')
    PROVE  (\E j \in 1..Len(mailbox) : mailbox'[i] = mailbox[j]) \/ Sends(mailbox'[i])
<1>1. CASE UNCHANGED mailbox \/ mailbox' = <<>>
  BY <1>1
<1>2. CASE mailbox # <<>> /\ mailbox' = Tail(mailbox)
  BY <1>2, MailTaken
<1>3. ASSUME NEW cmd, mailbox' = Append(mailbox, cmd), Sends(cmd)
      PROVE  Sends(mailbox'[i]) \/ \E j \in 1..Len(mailbox) : mailbox'[i] = mailbox[j]
  BY <1>3, MailSent
<1> QED BY <1>1, <1>2, <1>3, WhoAppends

(* The retries that have passed their check: of the requests alone, or lost. *)
LEMMA WhoUsesRetryOk ==
    ASSUME [Next]_vars
    PROVE  \/ UNCHANGED retryOk
           \/ \E c \in Calcs : RetryCheck(c) \/ RetrySend(c)
           \/ LoseMemory
<1>1. ASSUME NEW a \in Actors, ActorAcquire(a) \/ ActorStep(a) \/ HeartbeatTick(a)
      PROVE  UNCHANGED retryOk
  BY <1>1 DEF ActorAcquire, ActorStep, ActorLease, ActorSucceeds, ActorFails, ActorExhausts,
     ActorBacksOff, ActorResets, ActorCancelled, ActorGone, Finish, HeartbeatTick
<1>2. CASE SupStep \/ WatchdogStep
  BY <1>2 DEF SupStep, SupSubmit, SupInsert, SupSpawnRun, SupCancelRun, SupCancelCalc,
     SupReschedule, SupRetry, SupRespawn, SupShutdown, WatchdogStep, WatchdogTick,
     WatchdogCharges, WatchdogLists, WatchdogReschedules
<1>3. CASE Request
  BY <1>3 DEF Request, RequestSubmit, RequestCancelRun, RequestCancelCalc, RequestShutdown
<1>4. CASE \/ UNCHANGED vars \/ \E c \in Calcs : RetryFallsDue(c) \/ LeaseRunsOut(c)
           \/ \E r \in Runs : RunActorStep(r)
  BY <1>4 DEF vars, RetryFallsDue, LeaseRunsOut, RunActorStep, RunActorStops, RunActorReads,
     RunActorWrites
<1>5. CASE Startup \/ Crash \/ Exit
  BY <1>5 DEF Startup, BeginSweep, SweepRow, Restore, Crash, Exit
<1> QED BY <1>1, <1>2, <1>3, <1>4, <1>5 DEF Next

(* The run being inserted is there. *)
LEMMA StaysThere == ASSUME IInv, BInv, [Next]_vars PROVE InsertedIsThere'
<1>1. CASE UNCHANGED sup
  <2>1. ASSUME sup.pc = "insert" PROVE runStatus'[sup.run] # "absent"
    <3>1. sup.run \in Runs
      BY <2>1 DEF IInv, TasksOK
    <3> QED BY <2>1, <3>1, AbsentBefore DEF BInv, Submissions, InsertedIsThere
  <2> QED BY <1>1, <2>1 DEF InsertedIsThere
<1>2. CASE SupSubmit
  <2>1. Head(mailbox).run \in Runs
    BY <1>2, ReceiveOK DEF SupSubmit
  <2>2. runStatus \in [Runs -> RunStatus \cup {"absent"}]
    BY DEF IInv, TasksOK
  <2>3. CASE sup' = [pc |-> "insert", run |-> Head(mailbox).run]
    BY <1>1, <1>2, <2>1, <2>2, <2>3 DEF SupSubmit, InsertedIsThere
  <2> QED BY <1>1, <1>2, <2>3 DEF SupSubmit
<1>3. ASSUME NEW c \in Calcs, SupInsert(c) PROVE InsertedIsThere'
  BY <1>1, <1>3 DEF SupInsert, InsertedIsThere
<1>4. CASE SupSpawnRun \/ SupRespawn \/ SupShutdown
  BY <1>4 DEF SupSpawnRun, SupRespawn, SupShutdown, InsertedIsThere
<1>5. CASE SupRetry
  BY <1>1, <1>5 DEF SupRetry, InsertedIsThere
<1>6. CASE SupStep
  BY <1>1, <1>2, <1>3, <1>4, <1>5, <1>6 DEF SupStep, SupCancelRun, SupCancelCalc, SupReschedule
<1> QED BY <1>1, <1>6, OnlySupChangesSup DEF LoseMemory, InsertedIsThere

(* What a request to submit a run finds and sends. *)
LEMMA SubmitSent ==
    ASSUME IInv, NEW r \in Runs, RequestSubmit(r)
    PROVE  /\ mailbox' = Append(mailbox, [op |-> "submit", run |-> r])
           /\ runStatus[r] = "absent" /\ UNCHANGED runStatus
           /\ \A i \in 1..Len(mailbox) : mailbox[i].op = "submit" => mailbox[i].run # r
<1>1. mailbox \in Seq(Command)
  BY DEF IInv, TasksOK
<1>2. ASSUME NEW i \in 1..Len(mailbox), mailbox[i].op = "submit", mailbox[i].run = r
      PROVE  mailbox[i] = [op |-> "submit", run |-> r]
  <2>1. mailbox[i] \in Command
    BY <1>1
  <2> QED BY <1>2, <2>1 DEF Command
<1> QED BY <1>2 DEF RequestSubmit, Send

(* A run whose submission is on its way is not there, and another is not sent. *)
LEMMA StaysSubmitted == ASSUME IInv, BInv, [Next]_vars PROVE SubmittedIsAbsent'
<1>a. /\ mailbox \in Seq(Command) /\ runStatus \in [Runs -> RunStatus \cup {"absent"}]
      /\ SubmittedIsAbsent /\ SubmittedOnce
  BY DEF IInv, TasksOK, BInv, Submissions
<1>b. ASSUME NEW i \in 1..Len(mailbox), mailbox[i].op = "submit"
      PROVE  mailbox[i].run \in Runs
  <2>1. mailbox[i] \in Command
    BY <1>a
  <2> QED BY <1>b, <2>1 DEF Command
<1>1. CASE SupSubmit
  <2>1. /\ Head(mailbox) = mailbox[1] /\ 1 \in 1..Len(mailbox)
        /\ Head(mailbox).op = "submit" /\ mailbox' = Tail(mailbox) /\ mailbox # <<>>
    BY <1>1, MailTaken DEF SupSubmit, Receives
  <2>2. ASSUME NEW i \in 1..Len(mailbox'), mailbox'[i].op = "submit"
        PROVE  runStatus'[mailbox'[i].run] = "absent"
    <3>1. i + 1 \in 1..Len(mailbox) /\ mailbox'[i] = mailbox[i + 1] /\ i + 1 # 1
      BY <2>1, MailTaken
    <3>2. /\ mailbox[i + 1].run # mailbox[1].run /\ mailbox[i + 1].run \in Runs
          /\ runStatus[mailbox[i + 1].run] = "absent"
      BY <1>a, <1>b, <2>1, <2>2, <3>1 DEF SubmittedIsAbsent, SubmittedOnce
    <3> QED BY <1>a, <1>1, <2>1, <3>1, <3>2 DEF SupSubmit
  <2> QED BY <2>2 DEF SubmittedIsAbsent
<1>2. ASSUME NEW r \in Runs, RunActorWrites(r) PROVE SubmittedIsAbsent'
  <2>1. runStatus[r] # "absent" /\ UNCHANGED mailbox
    BY <1>2 DEF RunActorWrites, BInv, UnbornIsOff, Unborn
  <2>2. \A s \in Runs : runStatus[s] = "absent" => runStatus'[s] = "absent"
    BY <1>a, <1>2, <2>1 DEF RunActorWrites
  <2> QED BY <1>a, <1>b, <2>1, <2>2 DEF SubmittedIsAbsent
<1>3. CASE UNCHANGED runStatus
  <2> USE <1>a, <1>3 DEF SubmittedIsAbsent
  <2>1. CASE UNCHANGED mailbox \/ mailbox' = <<>>
    BY <2>1
  <2>2. CASE mailbox # <<>> /\ mailbox' = Tail(mailbox)
    BY <2>2, MailTaken
  <2>3. ASSUME NEW r \in Runs, RequestSubmit(r) PROVE SubmittedIsAbsent'
    <3> DEFINE cmd == [op |-> "submit", run |-> r]
    <3>1. cmd.run = r /\ mailbox' = Append(mailbox, cmd) /\ runStatus[r] = "absent"
      BY <2>3, SubmitSent
    <3> HIDE DEF cmd
    <3> QED BY <3>1, MailSent
  <2>4. ASSUME NEW cmd, mailbox' = Append(mailbox, cmd), cmd.op # "submit"
        PROVE  SubmittedIsAbsent'
    BY <2>4, MailSent
  <2> QED BY <2>1, <2>2, <2>3, <2>4, WhoUsesMail
<1> QED BY <1>1, <1>2, <1>3, WhoWritesRunStatus

LEMMA StaysOnce == ASSUME IInv, BInv, [Next]_vars PROVE SubmittedOnce'
<1> USE DEF SubmittedOnce
<1>a. SubmittedOnce
  BY DEF BInv, Submissions
<1>1. CASE UNCHANGED mailbox \/ mailbox' = <<>>
  BY <1>a, <1>1
<1>2. CASE mailbox # <<>> /\ mailbox' = Tail(mailbox)
  <2>1. ASSUME NEW i \in 1..Len(mailbox'), NEW j \in 1..Len(mailbox'),
               mailbox'[i].op = "submit", mailbox'[j].op = "submit",
               mailbox'[i].run = mailbox'[j].run
        PROVE  i = j
    <3>1. i + 1 = j + 1
      BY <1>a, <1>2, <2>1, MailTaken
    <3> QED BY <3>1
  <2> QED BY <2>1
<1>3. ASSUME NEW r \in Runs, RequestSubmit(r) PROVE SubmittedOnce'
  <2> DEFINE cmd == [op |-> "submit", run |-> r]
  <2>1. cmd.run = r /\ mailbox' = Append(mailbox, cmd)
    BY <1>3, SubmitSent
  <2> HIDE DEF cmd
  <2>2. \A i \in 1..Len(mailbox) : mailbox[i].op = "submit" => mailbox[i].run # r
    BY <1>3, SubmitSent
  <2> QED BY <1>a, <2>1, <2>2, MailSent
<1>4. ASSUME NEW cmd, mailbox' = Append(mailbox, cmd), cmd.op # "submit" PROVE SubmittedOnce'
  BY <1>a, <1>4, MailSent
<1> QED BY <1>1, <1>2, <1>3, <1>4, WhoUsesMail

(* The invariant about the beginnings of runs is inductive. *)
LEMMA NextBorn == IInv /\ BInv /\ [Next]_vars => BInv'
BY StaysUnknown, StaysOff, StaysAbsent, StaysThere, StaysSubmitted, StaysOnce, StaysQuiet,
   StaysDropped DEF BInv, Submissions

----------------------------------------------------------------------------
(* No pending calculation is forgotten                                     *)

\* Nobody backs off, so whoever waits for a message has not read Start yet.
StartOnce ==
    \A a \in Actors : actor[a].pc # "backoff" /\ (actor[a].pc = "recv" => actor[a].start)

LEMMA NoDbError == ASSUME IInv, DatabaseWorks PROVE ~Spend("dbError")
<1>1. spent["dbError"] \in Nat
  BY DEF IInv, TasksOK, Kinds
<1> QED BY <1>1 DEF DatabaseWorks, Spend

(* What a calculation actor does when the database works: it reads Start, takes
   the lease, or is done with its row. *)
LEMMA ActorMoves ==
    ASSUME IInv, DatabaseWorks, NEW a \in Actors, ActorAcquire(a) \/ ActorStep(a)
    PROVE  /\ UNCHANGED <<sup, daemon>>
           /\ \A b \in Actors : b # a => actor'[b] = actor[b]
           /\ \A c \in Calcs : c # CalcOf(a) => row'[c] = row[c]
           /\ \/ actor'[a].pc = "lease" /\ actor[a].start /\ UNCHANGED row
              \/ /\ actor[a].pc = "lease" /\ actor'[a].pc = "submit"
                 /\ row'[CalcOf(a)].status = "running"
              \/ /\ actor'[a].pc = "idle"
                 /\ row'[CalcOf(a)].status \in TerminalCalc
              \/ /\ actor'[a].pc = "idle" /\ UNCHANGED row
                 /\ actor[a].pc = "recv" /\ ~actor[a].start
              \/ actor'[a].pc = "backoff" /\ "transient" \in Outcomes
              \/ actor[a].pc = "backoff"
<1>a. /\ CalcOf(a) \in Calcs /\ row \in [Calcs -> Row] /\ row[CalcOf(a)] \in Row
      /\ actor \in [Actors -> ActorRec] /\ actor[a] \in ActorRec /\ ~Spend("dbError")
  BY ActorOwner, NoDbError DEF IInv, RowsOK, ActorsOK
<1>1. CASE ActorAcquire(a)
  BY <1>1, <1>a DEF ActorAcquire, ActorRec
<1>2. CASE ActorLease(a)
  <2>1. Started(row[CalcOf(a)]).status = "running"
    BY <1>a DEF Started, Row
  <2>2. /\ row' = [row EXCEPT ![CalcOf(a)] = Started(@)]
        /\ actor' = [actor EXCEPT ![a].pc = "submit"]
        /\ actor[a].pc = "lease" /\ UNCHANGED <<sup, daemon>>
    BY <1>2, <1>a DEF ActorLease
  <2>3. actor'[a].pc = "submit" /\ \A b \in Actors : b # a => actor'[b] = actor[b]
    BY <1>a, <2>2 DEF ActorRec
  <2> QED BY <1>a, <2>1, <2>2, <2>3
<1>3. ASSUME NEW status \in TerminalCalc, Finish(a, status)
      PROVE  /\ UNCHANGED <<sup, daemon>>
             /\ \A b \in Actors : b # a => actor'[b] = actor[b]
             /\ \A c \in Calcs : c # CalcOf(a) => row'[c] = row[c]
             /\ actor'[a].pc = "idle" /\ row'[CalcOf(a)].status \in TerminalCalc
  <2>1. Closed(row[CalcOf(a)], status).status = status
    BY <1>a DEF Closed, Row
  <2> QED BY <1>3, <1>a, <2>1 DEF Finish, Write, IdleActor
<1>4. CASE ActorSucceeds(a) \/ ActorFails(a) \/ ActorExhausts(a) \/ ActorCancelled(a)
  BY <1>3, <1>4 DEF ActorSucceeds, ActorFails, ActorExhausts, ActorCancelled, TerminalCalc
<1>5. CASE ActorBacksOff(a)
  BY <1>5, <1>a DEF ActorBacksOff, Write, ActorRec
<1>6. CASE ActorResets(a)
  BY <1>6, <1>a DEF ActorResets, Write
<1>7. CASE ActorGone(a)
  BY <1>7, <1>a DEF ActorGone, IdleActor
<1> QED BY <1>1, <1>2, <1>4, <1>5, <1>6, <1>7 DEF ActorStep

(* Nobody but the actor itself moves it, except the death of the process and
   its replacement by a new one. *)
LEMMA ActorsMoveAlone ==
    ASSUME IInv, [Next]_vars,
           ~\E b \in Actors : ActorAcquire(b) \/ ActorStep(b),
           NEW a \in Actors
    PROVE  \/ actor'[a].pc = actor[a].pc /\ actor'[a].start = actor[a].start
           \/ actor'[a].pc = "recv" /\ actor'[a].start
           \/ LoseMemory /\ actor'[a].pc = "idle"
<1>a. actor[a] \in ActorRec
  BY DEF IInv, ActorsOK
<1>1. CASE UNCHANGED actor
  BY <1>1
<1>2. ASSUME NEW r \in Runs, RunActorStep(r)
      PROVE  actor'[a].pc = actor[a].pc /\ actor'[a].start = actor[a].start
  BY <1>2, LeaveRunEffect DEF RunActorStep, RunActorStops, RunActorReads, RunActorWrites
<1>3. ASSUME NEW S, NEW sender, SpawnActors(S, sender)
      PROVE  \/ actor'[a].pc = actor[a].pc /\ actor'[a].start = actor[a].start
             \/ actor'[a].pc = "recv" /\ actor'[a].start
  BY <1>3, SpawnEffect
<1>4. CASE SupSpawnRun \/ SupReschedule \/ SupRespawn \/ Restore
  BY <1>1, <1>3, <1>4 DEF SupSpawnRun, SupReschedule, SupRespawn, Restore
<1>5. CASE SupCancelCalc
  BY <1>5, <1>a DEF SupCancelCalc, ActorRec
<1>6. CASE SupShutdown
  BY <1>6, <1>a DEF SupShutdown, ActorRec
<1>7. CASE SupStep
  BY <1>1, <1>4, <1>5, <1>6, <1>7 DEF SupStep, SupSubmit, SupInsert, SupCancelRun, SupRetry
<1>8. CASE Crash \/ Exit
  BY <1>8 DEF Crash, Exit, LoseMemory, IdleActor
<1>9. CASE Request \/ WatchdogStep
  BY <1>1, <1>9 DEF Request, RequestSubmit, RequestCancelRun, RequestCancelCalc, RetryCheck,
     RetrySend, RequestShutdown, WatchdogStep, WatchdogTick, WatchdogCharges, WatchdogLists,
     WatchdogReschedules
<1>10. CASE \/ Startup \/ UNCHANGED vars
            \/ \E c \in Calcs : RetryFallsDue(c) \/ LeaseRunsOut(c)
            \/ \E b \in Actors : HeartbeatTick(b)
  BY <1>1, <1>4, <1>10 DEF Startup, BeginSweep, SweepRow, RetryFallsDue, LeaseRunsOut, vars,
     HeartbeatTick
<1> QED BY <1>2, <1>7, <1>8, <1>9, <1>10 DEF Next

LEMMA NextStartOnce ==
    ASSUME DatabaseWorks, ApiIsDefinite, IInv, StartOnce, [Next]_vars
    PROVE  StartOnce'
<1>1. ASSUME NEW a \in Actors, ActorAcquire(a) \/ ActorStep(a) PROVE StartOnce'
  BY <1>1, ActorMoves DEF StartOnce, ApiIsDefinite
<1>2. CASE ~\E a \in Actors : ActorAcquire(a) \/ ActorStep(a)
  BY <1>2, ActorsMoveAlone DEF StartOnce
<1> QED BY <1>1, <1>2

(* A calculation that somebody will start still has that somebody as long as
   its actors have not moved and the supervisor works on. *)
LEMMA StillStarts ==
    ASSUME NEW c \in Calcs, WillStart(c),
           \/ UNCHANGED sup
           \/ sup.pc = "recv"
           \/ sup.pc = "respawn" /\ sup.calc # c
           \/ sup.pc = "insert" /\ sup.run # RunOf[c],
           \A a \in Actors : CalcOf(a) = c =>
              \/ actor'[a].pc = actor[a].pc /\ actor'[a].start = actor[a].start
              \/ actor'[a].pc = "recv" /\ actor'[a].start
              \/ actor'[a].pc = "lease"
    PROVE  WillStart(c)'
BY DEF WillStart

(* A calculation for which an actor is spawned will start. *)
LEMMA SpawnedStarts ==
    ASSUME IInv, NEW S, NEW sender, SpawnActors(S, sender), NEW c \in Calcs, c \in S, CanSpawn(c)
    PROVE  WillStart(c)'
<1>1. Fresh(c) \in Actors /\ CalcOf(Fresh(c)) = c
  BY FreshIsFree
<1>2. actor'[Fresh(c)].pc = "recv" /\ actor'[Fresh(c)].start
  <2>1. PICK a \in Actors : a = Fresh(c) /\ CalcOf(a) = c
    BY <1>1
  <2>2. a = Fresh(CalcOf(a)) /\ CalcOf(a) \in S
    BY <2>1
  <2>3. actor'[a].pc = "recv" /\ actor'[a].start
    BY <2>2, SpawnEffect
  <2> QED BY <2>1, <2>3
<1> QED BY <1>1, <1>2 DEF WillStart

(* The supervisor turns a calculation into a pending one with its actor next. *)
LEMMA SupStarts ==
    ASSUME DatabaseWorks, RoomToSpawn, IInv, BInv, SupStep, NEW c \in Calcs,
           row[c].status = "pending" => WillStart(c), row'[c].status = "pending"
    PROVE  WillStart(c)'
<1>a. /\ row \in [Calcs -> Row] /\ ~Spend("dbError")
      /\ \A a \in Actors : actor[a] \in ActorRec
  BY NoDbError DEF IInv, RowsOK, ActorsOK
<1>b. \A a \in Actors : \/ actor'[a].pc = actor[a].pc /\ actor'[a].start = actor[a].start
                        \/ actor'[a].pc = "recv" /\ actor'[a].start
  <2>1. CASE UNCHANGED actor
    BY <2>1
  <2>2. CASE SupSpawnRun \/ SupReschedule \/ SupRespawn
    BY <2>1, <2>2, SpawnEffect DEF SupSpawnRun, SupReschedule, SupRespawn
  <2>3. CASE SupCancelCalc
    BY <2>3, <1>a DEF SupCancelCalc, ActorRec
  <2>4. CASE SupShutdown
    BY <2>4, <1>a DEF SupShutdown, ActorRec
  <2> QED BY <2>1, <2>2, <2>3, <2>4 DEF SupStep, SupSubmit, SupInsert, SupCancelRun, SupRetry
<1>1. CASE SupSubmit \/ SupCancelRun \/ SupCancelCalc \/ SupReschedule \/ SupShutdown
  BY <1>1, <1>b, StillStarts
     DEF SupSubmit, SupCancelRun, SupCancelCalc, SupReschedule, SupShutdown, Receives
<1>2. ASSUME NEW d \in Calcs, SupInsert(d) PROVE WillStart(c)'
  <2>1. CASE d = c
    BY <1>2, <1>a, <2>1 DEF SupInsert, WillStart
  <2>2. CASE d # c
    BY <1>2, <1>a, <1>b, <2>2, StillStarts DEF SupInsert
  <2> QED BY <2>1, <2>2
<1>3. CASE SupSpawnRun
  <2>1. CASE RunOf[c] = sup.run
    <3>1. c \in CalcsOf(sup.run) /\ Unknown(c)
      BY <1>3, <2>1 DEF SupSpawnRun, CalcsOf, BInv, UnbornIsUnknown, Unborn
    <3>2. CanSpawn(c)
      BY <3>1, FreeCanSpawn DEF Unknown
    <3> QED BY <1>3, <3>1, <3>2, SpawnedStarts DEF SupSpawnRun
  <2>2. CASE RunOf[c] # sup.run
    BY <1>3, <1>b, <2>2, StillStarts DEF SupSpawnRun
  <2> QED BY <2>1, <2>2
<1>4. CASE SupRetry
  <2>1. CASE c = Head(mailbox).calc
    BY <1>4, <1>a, <2>1 DEF SupRetry, WillStart
  <2>2. CASE c # Head(mailbox).calc
    BY <1>4, <1>a, <1>b, <2>2, StillStarts DEF SupRetry, Receives
  <2> QED BY <2>1, <2>2
<1>5. CASE SupRespawn
  <2>1. sup.pc = "respawn" /\ CanSpawn(sup.calc) /\ SpawnActors({sup.calc}, "sup") /\ UNCHANGED row
    BY <1>5, <1>a DEF SupRespawn
  <2>2. CASE c = sup.calc
    BY <2>1, <2>2, SpawnedStarts
  <2>3. CASE c # sup.calc
    BY <1>b, <2>1, <2>3, StillStarts
  <2> QED BY <2>2, <2>3
<1> QED BY <1>1, <1>2, <1>3, <1>4, <1>5 DEF SupStep

(* Startup gives every calculation it finds pending an actor. *)
LEMMA RestoreStarts ==
    ASSUME DatabaseWorks, RoomToSpawn, IInv, BInv, Restore,
           NEW c \in Calcs, row'[c].status = "pending"
    PROVE  WillStart(c)'
<1>1. SpawnActors({d \in Calcs : IsActive(row[d]) /\ RunOf[d] \notin {}}, "run")
  BY NoDbError DEF Restore
<1>2. c \in {d \in Calcs : IsActive(row[d]) /\ RunOf[d] \notin {}}
  BY DEF Restore, IsActive, ActiveCalc
<1>3. CanSpawn(c)
  BY FreeCanSpawn DEF Restore, BInv, DownIsQuiet
<1> QED BY <1>1, <1>2, <1>3, SpawnedStarts

(* Apart from the actors and the supervisor nobody makes a row pending. *)
LEMMA PendingBefore ==
    ASSUME IInv, [Next]_vars, ~SupStep, ~\E a \in Actors : ActorAcquire(a) \/ ActorStep(a),
           NEW c \in Calcs, row'[c].status = "pending"
    PROVE  row[c].status = "pending"
<1>a. row \in [Calcs -> Row] /\ \A d \in Calcs : row[d] \in Row
  BY DEF IInv, RowsOK
<1>1. ASSUME NEW d \in Calcs, RetryFallsDue(d) \/ LeaseRunsOut(d)
      PROVE  row[c].status = "pending"
  BY <1>1, <1>a DEF RetryFallsDue, LeaseRunsOut, Row
<1>2. ASSUME NEW a \in Actors, HeartbeatTick(a) PROVE row[c].status = "pending"
  BY <1>2, <1>a DEF HeartbeatTick, Heartbeat, Row
<1>3. ASSUME NEW d \in Calcs, NEW attempt,
             UNCHANGED row \/ row' = [row EXCEPT ![d] = Charged(@, attempt)]
      PROVE  row[c].status = "pending"
  <2>1. Charged(row[d], attempt).status # "pending"
    BY <1>a DEF Charged, Closed, Retrying, Row
  <2> QED BY <1>3, <1>a, <2>1
<1>4. CASE WatchdogStep
  <2>1. \A e \in wd.todo : e.calc \in Calcs
    BY DEF IInv, TasksOK
  <2> QED BY <1>3, <1>4, <2>1
          DEF WatchdogStep, WatchdogTick, WatchdogCharges, WatchdogLists, WatchdogReschedules
<1>5. CASE Startup
  BY <1>3, <1>5 DEF Startup, BeginSweep, SweepRow, Restore
<1>6. CASE UNCHANGED row
  BY <1>6
<1>7. CASE Request \/ Crash \/ Exit \/ UNCHANGED vars \/ \E r \in Runs : RunActorStep(r)
  BY <1>6, <1>7 DEF Request, RequestSubmit, RequestCancelRun, RequestCancelCalc, RetryCheck,
     RetrySend, RequestShutdown, Crash, Exit, LoseMemory, vars, RunActorStep, RunActorStops,
     RunActorReads, RunActorWrites
<1> QED BY <1>1, <1>2, <1>4, <1>5, <1>7 DEF Next

(* The daemon is up when its runs are restored, and not before. *)
LEMMA OnlyRestoreComesUp ==
    ASSUME IInv, BInv, [Next]_vars, daemon.pc # "up", daemon'.pc = "up"
    PROVE  Restore
<1>1. ASSUME NEW c \in Calcs PROVE ~SweepRow(c)
  BY <1>1 DEF SweepRow, IInv, TasksOK
<1>2. ~BeginSweep /\ ~Crash /\ ~Exit
  BY DEF BeginSweep, Crash, Exit, LoseMemory
<1> QED BY <1>1, <1>2, OnlyProcessMovesDaemon DEF Startup

(* Of the others only a calculation actor makes or leaves a row pending, and it
   does neither without Start. *)
LEMMA NextStarts ==
    ASSUME DatabaseWorks, ApiIsDefinite, RoomToSpawn,
           IInv, BInv, StartOnce, NoOrphanPending, [Next]_vars
    PROVE  NoOrphanPending'
<1> SUFFICES ASSUME daemon'.pc = "up", NEW c \in Calcs, row'[c].status = "pending"
             PROVE  WillStart(c)'
  BY DEF NoOrphanPending
<1>1. CASE daemon.pc # "up"
  BY <1>1, OnlyRestoreComesUp, RestoreStarts
<1>2. CASE daemon.pc = "up"
  <2>a. row[c].status = "pending" => WillStart(c)
    BY <1>2 DEF NoOrphanPending
  <2>1. ASSUME NEW a \in Actors, ActorAcquire(a) \/ ActorStep(a) PROVE WillStart(c)'
    <3>1. CASE CalcOf(a) = c
      <4>1. actor'[a].pc = "lease" \/ (row'[c] = row[c] /\ actor[a].pc = "recv" /\ ~actor[a].start)
        BY <2>1, <3>1, ActorMoves DEF StartOnce, ApiIsDefinite, TerminalCalc
      <4> QED BY <3>1, <4>1 DEF WillStart, StartOnce
    <3>2. CASE CalcOf(a) # c
      <4>1. /\ row'[c] = row[c] /\ UNCHANGED sup
            /\ \A b \in Actors : CalcOf(b) = c => actor'[b] = actor[b]
        BY <2>1, <3>2, ActorMoves
      <4> QED BY <2>a, <4>1, StillStarts
    <3> QED BY <3>1, <3>2
  <2>2. CASE SupStep
    BY <2>a, <2>2, SupStarts
  <2>3. CASE ~SupStep /\ ~\E a \in Actors : ActorAcquire(a) \/ ActorStep(a)
    <3>1. ~LoseMemory
      BY DEF LoseMemory
    <3>2. UNCHANGED sup /\ WillStart(c)
      BY <2>a, <2>3, <3>1, OnlySupChangesSup, PendingBefore
    <3> QED BY <2>3, <3>1, <3>2, ActorsMoveAlone, StillStarts
  <2> QED BY <2>1, <2>2, <2>3
<1> QED BY <1>1, <1>2

(* While the daemon is up every pending calculation is one that an actor will
   start: after submissions, cancellations, crashes and retries in any number
   and order, as long as the database works and the API is definite. *)
THEOREM PendingIsNeverForgotten ==
    ASSUME DatabaseWorks, ApiIsDefinite, RoomToSpawn
    PROVE  Spec => []NoOrphanPending
<1> DEFINE J == IInv /\ BInv /\ StartOnce /\ NoOrphanPending
<1>1. Init => J
  <2>1. Init => StartOnce /\ NoOrphanPending
    BY DEF Init, StartOnce, NoOrphanPending, IdleActor, NoRow
  <2> QED BY <2>1, InitOK, InitBorn
<1>2. J /\ [Next]_vars => J'
  BY NextOK, NextBorn, NextStartOnce, NextStarts
<1>3. J => NoOrphanPending
  OBVIOUS
<1> QED BY <1>1, <1>2, <1>3, PTL DEF Spec

----------------------------------------------------------------------------
(* No run actor waits for a report that cannot come                        *)

\* The calculation actors that will report to the run actor of r.
Reporters(r) == {a \in ActorsOf(r) : actor[a].sender = "run"}

CountOf(r) ==
    runActor[r].pc # "off" => runActor[r].left = runActor[r].notes + Cardinality(Reporters(r))

LEMMA ReportersFinite == \A r : IsFiniteSet(Reporters(r)) /\ IsFiniteSet(Reporters(r))'
<1>1. IsFiniteSet(Actors)
  <2>1. IsFiniteSet(1..MaxActors)
    BY RunsdAssumption, FS_Interval DEF RunsdAssumption
  <2> QED BY <2>1, RunsdAssumption, FS_Product DEF RunsdAssumption, Actors
<1>2. \A r : Reporters(r) \in SUBSET Actors /\ Reporters(r)' \in SUBSET Actors
  BY DEF Reporters, ActorsOf
<1> QED BY <1>1, <1>2, FS_Subset

(* The count holds on when the sum is the same and so are the reporters. *)
LEMMA CountFrame ==
    ASSUME IInv, IInv', NEW r \in Runs, CountOf(r),
           runActor'[r].pc # "off" =>
              /\ runActor[r].pc # "off"
              /\ runActor'[r].left - runActor'[r].notes = runActor[r].left - runActor[r].notes,
           \A a \in ActorsOf(r) : actor'[a].sender = "run" <=> actor[a].sender = "run"
    PROVE  CountOf(r)'
<1>1. Reporters(r)' = Reporters(r)
  BY DEF Reporters, ActorsOf
<1>2. Cardinality(Reporters(r)) \in Nat
  BY ReportersFinite, FS_CardinalityType
<1>3. /\ runActor[r].left \in Int /\ runActor[r].notes \in Int
      /\ runActor'[r].left \in Int /\ runActor'[r].notes \in Int
  BY DEF IInv, TasksOK, RunActorRec
<1> QED BY <1>1, <1>2, <1>3 DEF CountOf

(* One notification for one reporter less. *)
LEMMA FinishCounts ==
    ASSUME IInv, IInv', NEW a \in Actors, NEW status, Finish(a, status), NEW r \in Runs, CountOf(r)
    PROVE  CountOf(r)'
<1>a. /\ actor \in [Actors -> ActorRec] /\ runActor \in [Runs -> RunActorRec]
      /\ actor' = [actor EXCEPT ![a] = IdleActor] /\ Notify(a) /\ RunOf[CalcOf(a)] \in Runs
  BY ActorOwner DEF IInv, ActorsOK, TasksOK, Finish
<1>1. CASE RunOf[CalcOf(a)] = r /\ actor[a].sender = "run"
  <2>1. a \in Reporters(r) /\ Reporters(r)' = Reporters(r) \ {a}
    BY <1>a, <1>1 DEF Reporters, ActorsOf, IdleActor
  <2>2. /\ Cardinality(Reporters(r)') = Cardinality(Reporters(r)) - 1
        /\ Cardinality(Reporters(r)) \in Nat
    BY <2>1, ReportersFinite, FS_RemoveElement, FS_CardinalityType
  <2>3. /\ runActor'[r].pc = runActor[r].pc /\ runActor'[r].left = runActor[r].left
        /\ runActor'[r].notes = runActor[r].notes + 1 /\ runActor[r].notes \in Nat
    BY <1>a, <1>1 DEF Notify, RunActorRec
  <2> QED BY <2>2, <2>3 DEF CountOf
<1>2. CASE ~(RunOf[CalcOf(a)] = r /\ actor[a].sender = "run")
  <2>1. runActor'[r] = runActor[r]
    BY <1>a, <1>2 DEF Notify
  <2>2. \A b \in ActorsOf(r) : actor'[b].sender = "run" <=> actor[b].sender = "run"
    BY <1>a, <1>2 DEF ActorsOf, IdleActor
  <2> QED BY <2>1, <2>2, CountFrame
<1> QED BY <1>1, <1>2

LEMMA ActorCounts ==
    ASSUME DatabaseWorks, IInv, IInv', NEW a \in Actors, ActorAcquire(a) \/ ActorStep(a),
           NEW r \in Runs, CountOf(r)
    PROVE  CountOf(r)'
<1>a. actor \in [Actors -> ActorRec] /\ actor[a] \in ActorRec /\ ~Spend("dbError")
  BY NoDbError DEF IInv, ActorsOK
<1>b. ASSUME UNCHANGED runActor, \A b \in Actors : actor'[b].sender = actor[b].sender
      PROVE  CountOf(r)'
  BY <1>b, CountFrame DEF ActorsOf
<1>1. CASE ActorAcquire(a)
  BY <1>1, <1>a, <1>b DEF ActorAcquire, ActorRec
<1>2. CASE ActorLease(a)
  BY <1>2, <1>a, <1>b DEF ActorLease, ActorRec
<1>3. CASE ActorSucceeds(a) \/ ActorFails(a) \/ ActorExhausts(a) \/ ActorCancelled(a)
  BY <1>3, FinishCounts DEF ActorSucceeds, ActorFails, ActorExhausts, ActorCancelled
<1>4. CASE ActorBacksOff(a)
  BY <1>4, <1>a, <1>b DEF ActorBacksOff, ActorRec
<1>5. CASE ActorResets(a)
  BY <1>5, <1>a, <1>b DEF ActorResets, ActorRec
<1>6. CASE ActorGone(a)
  BY <1>6, <1>a, <1>b DEF ActorGone, ActorRec, IdleActor
<1> QED BY <1>1, <1>2, <1>3, <1>4, <1>5, <1>6 DEF ActorStep

(* The run actor takes one notification and counts one calculation down. *)
LEMMA RunActorKeepsCount ==
    ASSUME DatabaseWorks, IInv, IInv', NEW s \in Runs, RunActorStep(s), NEW r \in Runs, CountOf(r)
    PROVE  CountOf(r)'
<1>b. runActor \in [Runs -> RunActorRec] /\ runActor[r] \in RunActorRec
  BY DEF IInv, TasksOK
<1>a. /\ runActor \in [Runs -> RunActorRec] /\ runActor[r] \in RunActorRec
      /\ runActor[r].left \in Int /\ runActor[r].notes \in Int /\ ~Spend("dbError")
  BY <1>b, NoDbError DEF RunActorRec
<1>1. ASSUME NEW cancel, LeaveRun(s, cancel) PROVE CountOf(r)'
  <2>1. CASE s = r
    BY <1>1, <1>a, <2>1 DEF LeaveRun, NoRunActor, CountOf
  <2>2. CASE s # r
    <3>1. runActor'[r] = runActor[r]
      BY <1>1, <1>a, <2>2 DEF LeaveRun
    <3>2. \A a \in ActorsOf(r) : actor'[a] = actor[a]
      BY <1>1, <2>2, LeaveRunEffect DEF ActorsOf
    <3> QED BY <3>1, <3>2, CountFrame
  <2> QED BY <2>1, <2>2
<1>2. CASE RunActorStops(s)
  BY <1>1, <1>2 DEF RunActorStops
<1>3. CASE RunActorReads(s)
  <2>1. /\ runActor[s].pc = "loop" /\ UNCHANGED actor
        /\ runActor' = [runActor EXCEPT ![s].pc = "write", ![s].notes = @ - 1,
                          ![s].left = @ - 1, ![s].status = DeriveRunStatus(StatusesOf(s))]
    BY <1>3, <1>a DEF RunActorReads
  <2>2. CASE s = r
    <3>1. runActor'[r].left = runActor[r].left - 1 /\ runActor'[r].notes = runActor[r].notes - 1
      BY <1>a, <2>1, <2>2 DEF RunActorRec
    <3>2. runActor[r].pc # "off"
      BY <2>1, <2>2
    <3> QED BY <1>a, <2>1, <3>1, <3>2, CountFrame
  <2>3. CASE s # r
    BY <1>a, <2>1, <2>3, CountFrame
  <2> QED BY <2>2, <2>3
<1>4. CASE RunActorWrites(s)
  <2>1. CASE \E cancel : LeaveRun(s, cancel)
    BY <1>1, <2>1
  <2>2. CASE runActor' = [runActor EXCEPT ![s].pc = "loop"] /\ UNCHANGED actor
    <3>1. /\ runActor'[r].left = runActor[r].left /\ runActor'[r].notes = runActor[r].notes
          /\ runActor'[r].pc # "off" => runActor[r].pc # "off"
      BY <1>4, <1>a, <2>2 DEF RunActorWrites, RunActorRec
    <3> QED BY <1>a, <2>2, <3>1, CountFrame
  <2> QED BY <1>4, <2>1, <2>2 DEF RunActorWrites
<1> QED BY <1>2, <1>3, <1>4 DEF RunActorStep

(* A new run actor has one reporter for each calculation it was given. *)
LEMMA SpawnCounts ==
    ASSUME RoomToSpawn, IInv, BInv, NEW S \in SUBSET Calcs, SpawnActors(S, "run"), NEW r \in Runs,
           \A a \in ActorsOf(r) : IsFree(a)
    PROVE  Cardinality(Reporters(r)') = Cardinality(S \cap CalcsOf(r))
<1> DEFINE T == S \cap CalcsOf(r)
           f == [c \in T |-> Fresh(c)]
<1>1. ASSUME NEW c \in T
      PROVE  Fresh(c) \in Actors /\ CalcOf(Fresh(c)) = c /\ Fresh(c) \in Reporters(r)'
  <2>1. \A a \in Actors : CalcOf(a) = c => IsFree(a)
    BY DEF ActorsOf, CalcsOf
  <2>2. Fresh(c) \in Actors /\ CalcOf(Fresh(c)) = c
    BY <2>1, FreeCanSpawn, FreshIsFree
  <2>3. PICK a \in Actors : a = Fresh(c) /\ CalcOf(a) = c
    BY <2>2
  <2>4. a = Fresh(CalcOf(a)) /\ CalcOf(a) \in S /\ RunOf[CalcOf(a)] = r
    BY <2>3 DEF CalcsOf
  <2>5. actor'[a].sender = "run"
    BY <2>4, SpawnEffect
  <2> QED BY <2>2, <2>3, <2>4, <2>5 DEF Reporters, ActorsOf
<1>2. ASSUME NEW a \in Reporters(r)'
      PROVE  CalcOf(a) \in T /\ a = Fresh(CalcOf(a))
  <2>1. a \in Actors /\ RunOf[CalcOf(a)] = r /\ actor'[a].sender = "run" /\ CalcOf(a) \in Calcs
    BY <1>2, ActorOwner DEF Reporters, ActorsOf
  <2>2. actor[a].sender = "dropped"
    BY <2>1 DEF ActorsOf, IsFree, BInv, IdleDropped
  <2> QED BY <2>1, <2>2, SpawnEffect DEF CalcsOf
<1>3. f \in Bijection(T, Reporters(r)')
  <2>1. f \in Injection(T, Reporters(r)')
    BY <1>1 DEF Injection, IsInjective
  <2>2. f \in Surjection(T, Reporters(r)')
    BY <1>1, <1>2 DEF Surjection
  <2> QED BY <2>1, <2>2 DEF Bijection
<1>4. IsFiniteSet(T)
  BY RunsdAssumption, FS_Subset DEF RunsdAssumption
<1> QED BY <1>3, <1>4, FS_Bijection DEF ExistsBijection

(* Every step of the supervisor: what it spawns alone reports to nobody, and it
   takes no sender from a run actor. *)
LEMMA SupCounts ==
    ASSUME DatabaseWorks, RoomToSpawn, IInv, IInv', BInv, SupStep, NEW r \in Runs, CountOf(r)
    PROVE  CountOf(r)'
<1>a. /\ runActor \in [Runs -> RunActorRec] /\ runActor[r] \in RunActorRec
      /\ \A a \in Actors : actor[a] \in ActorRec
  BY DEF IInv, ActorsOK, TasksOK
<1>b. ~Spend("dbError")
  BY NoDbError
<1>1. CASE SupSubmit \/ SupRetry \/ \E c \in Calcs : SupInsert(c)
  <2>1. UNCHANGED <<actor, runActor>>
    BY <1>1 DEF SupSubmit, SupRetry, SupInsert
  <2> QED BY <2>1, CountFrame
<1>2. CASE SupSpawnRun
  <2>1. sup.run \in Runs /\ CalcsOf(sup.run) \in SUBSET Calcs
    BY <1>2 DEF SupSpawnRun, CalcsOf, IInv, TasksOK
  <2>2. CASE sup.run = r
    <3>1. \A a \in ActorsOf(r) : IsFree(a)
      <4>1. Unborn(r) /\ \A c \in CalcsOf(r) : Unknown(c)
        BY <1>2, <2>2 DEF SupSpawnRun, BInv, UnbornIsUnknown, Unborn, CalcsOf
      <4> QED BY <4>1, ActorOwner DEF ActorsOf, CalcsOf, Unknown
    <3>2. Cardinality(Reporters(r)') = Cardinality(CalcsOf(r) \cap CalcsOf(r))
      BY <1>2, <2>1, <2>2, <3>1, SpawnCounts DEF SupSpawnRun
    <3>3. runActor'[r].left = Cardinality(CalcsOf(r)) /\ runActor'[r].notes = 0
      BY <1>2, <1>a, <2>2 DEF SupSpawnRun, RunWith, NoRunActor
    <3>4. Cardinality(CalcsOf(r)) \in Nat
      BY <2>1, <2>2, RunsdAssumption, FS_Subset, FS_CardinalityType DEF RunsdAssumption
    <3>5. Cardinality(Reporters(r)') = Cardinality(CalcsOf(r))
      <4>1. CalcsOf(r) \cap CalcsOf(r) = CalcsOf(r)
        OBVIOUS
      <4> QED BY <3>2, <4>1
    <3> QED BY <3>3, <3>4, <3>5 DEF CountOf
  <2>3. CASE sup.run # r
    <3>1. runActor'[r] = runActor[r]
      BY <1>2, <1>a, <2>3 DEF SupSpawnRun
    <3>2. \A a \in ActorsOf(r) : actor'[a] = actor[a]
      BY <1>2, <2>3, SpawnEffect DEF SupSpawnRun, ActorsOf, CalcsOf
    <3> QED BY <3>1, <3>2, CountFrame
  <2> QED BY <2>2, <2>3
<1>3. CASE SupCancelRun
  <2>1. /\ runActor'[r].left = runActor[r].left /\ runActor'[r].notes = runActor[r].notes
        /\ runActor'[r].pc = runActor[r].pc /\ UNCHANGED actor
    BY <1>3, <1>a DEF SupCancelRun, RunActorRec
  <2> QED BY <2>1, CountFrame
<1>4. CASE SupCancelCalc
  <2>1. \A a \in Actors : actor'[a].sender = "run" <=> actor[a].sender = "run"
    BY <1>4, <1>a DEF SupCancelCalc, ActorRec
  <2> QED BY <1>4, <2>1, CountFrame DEF SupCancelCalc, ActorsOf
<1>5. ASSUME NEW c \in Calcs, CanSpawn(c), SpawnActors({c}, "sup"), UNCHANGED runActor
      PROVE  CountOf(r)'
  <2>1. actor[Fresh(c)].sender = "dropped"
    BY <1>5, FreshIsFree DEF IsFree, BInv, IdleDropped
  <2>2. \A a \in Actors : actor'[a].sender = "run" <=> actor[a].sender = "run"
    BY <1>5, <2>1, SpawnEffect
  <2> QED BY <1>5, <2>2, CountFrame DEF ActorsOf
<1>6. CASE SupReschedule
  <2>1. Head(mailbox).calc \in Calcs
    BY <1>6, ReceiveOK DEF SupReschedule
  <2> QED BY <1>5, <1>6, <1>b, <2>1 DEF SupReschedule
<1>7. CASE SupRespawn
  <2>1. sup.calc \in Calcs
    BY <1>7 DEF SupRespawn, IInv, TasksOK
  <2> QED BY <1>5, <1>7, <1>b, <2>1 DEF SupRespawn
<1>8. CASE SupShutdown
  <2>1. /\ runActor'[r].left = runActor[r].left /\ runActor'[r].notes = runActor[r].notes
        /\ runActor'[r].pc = runActor[r].pc
    BY <1>8, <1>a DEF SupShutdown, RunActorRec
  <2>2. \A a \in Actors : actor'[a].sender = "run" <=> actor[a].sender = "run"
    BY <1>8, <1>a DEF SupShutdown, ActorRec
  <2> QED BY <2>1, <2>2, CountFrame DEF ActorsOf
<1> QED BY <1>1, <1>2, <1>3, <1>4, <1>6, <1>7, <1>8 DEF SupStep

(* Startup counts what it restores. *)
LEMMA RestoreCounts ==
    ASSUME RoomToSpawn, IInv, BInv, Restore, NEW r \in Runs
    PROVE  CountOf(r)'
<1>0. PICK unread \in SUBSET Runs :
         LET active == {c \in Calcs : IsActive(row[c]) /\ RunOf[c] \notin unread}
         IN /\ SpawnActors(active, "run")
            /\ runActor' = [q \in Runs |->
                               IF active \cap CalcsOf(q) = {} THEN NoRunActor
                               ELSE RunWith(Cardinality(active \cap CalcsOf(q)))]
  BY DEF Restore
<1> DEFINE active == {c \in Calcs : IsActive(row[c]) /\ RunOf[c] \notin unread}
<1>1. \A a \in ActorsOf(r) : IsFree(a)
  BY DEF Restore, BInv, DownIsQuiet, ActorsOf
<1>2. SpawnActors(active, "run") /\ active \in SUBSET Calcs
  BY <1>0
<1>3. Cardinality(Reporters(r)') = Cardinality(active \cap CalcsOf(r))
  BY <1>1, <1>2, SpawnCounts
<1>4. \/ runActor'[r].pc = "off"
      \/ runActor'[r].left = Cardinality(active \cap CalcsOf(r)) /\ runActor'[r].notes = 0
  BY <1>0 DEF RunWith, NoRunActor
<1>5. Cardinality(active \cap CalcsOf(r)) \in Nat
  BY RunsdAssumption, FS_Subset, FS_CardinalityType DEF RunsdAssumption
<1> QED BY <1>3, <1>4, <1>5 DEF CountOf

LEMMA NextCounts ==
    ASSUME DatabaseWorks, RoomToSpawn, IInv, BInv, RunActorCounts, [Next]_vars
    PROVE  RunActorCounts'
<1> SUFFICES ASSUME NEW r \in Runs PROVE CountOf(r)'
  BY DEF RunActorCounts, CountOf, Reporters
<1>a. CountOf(r) /\ IInv'
  BY NextOK DEF RunActorCounts, CountOf, Reporters
<1>1. CASE UNCHANGED <<actor, runActor>>
  BY <1>1, <1>a, CountFrame
<1>2. CASE Crash \/ Exit
  BY <1>2 DEF Crash, Exit, LoseMemory, NoRunActor, CountOf
<1>3. CASE Request \/ WatchdogStep
  BY <1>1, <1>3 DEF Request, RequestSubmit, RequestCancelRun, RequestCancelCalc, RetryCheck,
     RetrySend, RequestShutdown, WatchdogStep, WatchdogTick, WatchdogCharges, WatchdogLists,
     WatchdogReschedules
<1>4. CASE Startup
  BY <1>1, <1>4, RestoreCounts DEF Startup, BeginSweep, SweepRow
<1>5. CASE \/ UNCHANGED vars \/ \E c \in Calcs : RetryFallsDue(c) \/ LeaseRunsOut(c)
           \/ \E a \in Actors : HeartbeatTick(a)
  BY <1>1, <1>5 DEF vars, RetryFallsDue, LeaseRunsOut, HeartbeatTick
<1> QED BY <1>a, <1>2, <1>3, <1>4, <1>5, ActorCounts, RunActorKeepsCount, SupCounts DEF Next

(* Whatever is submitted, cancelled, retried, rescheduled or restored, a run
   actor has as many reports to come as calculations left: it returns when its
   calculations are done, and not before, as long as the database works. *)
THEOREM CountsAddUp ==
    ASSUME DatabaseWorks, RoomToSpawn
    PROVE  Spec => []RunActorCounts
<1> DEFINE J == IInv /\ BInv /\ RunActorCounts
<1>1. Init => J
  <2>1. Init => RunActorCounts
    BY DEF Init, RunActorCounts, NoRunActor
  <2> QED BY <2>1, InitOK, InitBorn
<1>2. J /\ [Next]_vars => J'
  BY NextOK, NextBorn, NextCounts
<1>3. J => RunActorCounts
  OBVIOUS
<1> QED BY <1>1, <1>2, <1>3, PTL DEF Spec
=============================================================================
