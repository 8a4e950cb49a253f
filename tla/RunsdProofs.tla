---------------------------- MODULE RunsdProofs ----------------------------
(***************************************************************************)
(* Proofs of the safety of Runsd, for every value of its constants.        *)
(***************************************************************************)
EXTENDS RunsdProperties, FiniteSetTheorems, SequenceTheorems, TLAPS

----------------------------------------------------------------------------
(* Rows                                                                    *)

\* What each row satisfies, whoever wrote it last.
RowOK(r) ==
    /\ r \in Row
    /\ r.attempt <= MaxAttempts
    /\ r.status = "running"  => r.lease # "none"
    /\ r.status = "retrying" => r.nextAt # "none"
    /\ r.status = "pending"  => r.attempt = 0

(* Every UPDATE of db/queries.rs keeps a row in order, whatever status the row
   has when it is applied. *)
LEMMA UpdatesKeepRowOK ==
    ASSUME NEW r, RowOK(r)
    PROVE  /\ RowOK(Started(r))
           /\ RowOK(Heartbeat(r))
           /\ \A status \in TerminalCalc : RowOK(Closed(r, status))
           /\ \A n \in Nat, at \in {"later", "due"} :
                 n <= MaxAttempts => RowOK(Retrying(r, n, at))
           /\ RowOK(ResetPending(r))
           /\ r.lease = "live" => RowOK([r EXCEPT !.lease = "expired"])
           /\ r.nextAt = "later" => RowOK([r EXCEPT !.nextAt = "due"])
<1> USE MaxAttemptsAssumption DEF MaxAttemptsAssumption, RowOK, Row, CalcStatus, ActiveCalc, TerminalCalc
<1>1. RowOK(Started(r)) /\ RowOK(Heartbeat(r))
  BY DEF Started, Heartbeat
<1>2. \A status \in TerminalCalc : RowOK(Closed(r, status))
  BY DEF Closed
<1>3. \A n \in Nat, at \in {"later", "due"} : n <= MaxAttempts => RowOK(Retrying(r, n, at))
  BY DEF Retrying
<1>4. RowOK(ResetPending(r))
  BY DEF ResetPending
<1>5. r.lease = "live" => RowOK([r EXCEPT !.lease = "expired"])
  OBVIOUS
<1>6. r.nextAt = "later" => RowOK([r EXCEPT !.nextAt = "due"])
  OBVIOUS
<1> QED BY <1>1, <1>2, <1>3, <1>4, <1>5, <1>6

(* A row that has just been inserted is in order, and so is a missing one. *)
LEMMA NewRowsOK == RowOK(NoRow) /\ RowOK(NewRow)
BY MaxAttemptsAssumption DEF MaxAttemptsAssumption, RowOK, Row, CalcStatus, ActiveCalc, NoRow, NewRow

(* A charge never goes beyond max_attempts, even when the attempt it starts
   from was read from an earlier state of the row. *)
LEMMA ChargedRowOK ==
    ASSUME NEW r, RowOK(r), NEW attempt \in Nat
    PROVE  RowOK(Charged(r, attempt))
<1>1. CASE attempt + 1 > MaxAttempts
  BY <1>1, UpdatesKeepRowOK DEF Charged, TerminalCalc
<1>2. CASE ~(attempt + 1 > MaxAttempts)
  <2>1. attempt + 1 \in Nat /\ attempt + 1 <= MaxAttempts
    BY <1>2, MaxAttemptsAssumption DEF MaxAttemptsAssumption
  <2> QED BY <1>2, <2>1, UpdatesKeepRowOK DEF Charged
<1> QED BY <1>1, <1>2

----------------------------------------------------------------------------
(* The inductive invariant                                                 *)

RowsOK == row \in [Calcs -> Row] /\ \A c \in Calcs : RowOK(row[c])

\* Each actor's own counter is bounded as well: it is what it writes to its row.
ActorsOK == actor \in [Actors -> ActorRec] /\ \A a \in Actors : actor[a].attempt <= MaxAttempts

TasksOK ==
    /\ runStatus \in [Runs -> RunStatus \cup {"absent"}]
    /\ beat \in [Actors -> {"off", "on", "late"}]
    /\ runActor \in [Runs -> RunActorRec]
    /\ sup \in [pc : {"recv", "stopped"}] \cup [pc : {"insert"}, run : Runs]
                 \cup [pc : {"respawn"}, calc : Calcs]
    /\ mailbox \in Seq(Command)
    /\ retryOk \in [Calcs -> Nat]
    /\ wd \in [pc : {"sleep", "expired", "ready"}, todo : SUBSET [calc : Calcs, attempt : Nat]]
    /\ daemon \in [pc : {"down", "sweep", "up"}, todo : SUBSET Calcs]
    /\ spent \in [Kinds -> Nat]

IInv == RowsOK /\ ActorsOK /\ TasksOK

(* The calculation of an actor, and its run, exist. *)
LEMMA ActorOwner ==
    ASSUME NEW a \in Actors
    PROVE  CalcOf(a) \in Calcs /\ RunOf[CalcOf(a)] \in Runs
BY RunsdAssumption DEF RunsdAssumption, Actors, CalcOf

(* Spending from a budget, and a write that may be lost, keep things in order. *)
LEMMA SpendOK == ASSUME IInv, NEW k \in Kinds, Spend(k) PROVE spent' \in [Kinds -> Nat]
BY DEF IInv, TasksOK, Spend

LEMMA WriteOK ==
    ASSUME IInv, NEW c \in Calcs, NEW r, RowOK(r), Write(c, r)
    PROVE  RowsOK' /\ spent' \in [Kinds -> Nat]
<1>1. CASE row' = [row EXCEPT ![c] = r] /\ UNCHANGED spent
  BY <1>1 DEF IInv, RowsOK, RowOK, TasksOK
<1>2. CASE Spend("dbError") /\ UNCHANGED row
  <2>1. spent' \in [Kinds -> Nat]
    BY <1>2, SpendOK DEF Kinds
  <2> QED BY <1>2, <2>1 DEF IInv, RowsOK
<1> QED BY <1>1, <1>2 DEF Write

LEMMA StopBeatOK ==
    ASSUME IInv, NEW a \in Actors, StopBeat(a)
    PROVE  beat' \in [Actors -> {"off", "on", "late"}]
BY DEF IInv, TasksOK, StopBeat

LEMMA NotifyOK ==
    ASSUME IInv, NEW a \in Actors, Notify(a)
    PROVE  runActor' \in [Runs -> RunActorRec]
<1> DEFINE r == RunOf[CalcOf(a)]
<1>1. r \in Runs /\ runActor \in [Runs -> RunActorRec]
  BY ActorOwner DEF IInv, TasksOK
<1>2. [runActor[r] EXCEPT !.notes = @ + 1] \in RunActorRec
  BY <1>1 DEF RunActorRec
<1> QED BY <1>1, <1>2 DEF Notify

(* The end of a calculation actor. *)
LEMMA FinishOK ==
    ASSUME IInv, NEW a \in Actors, NEW status \in TerminalCalc, Finish(a, status)
    PROVE  IInv'
<1>1. RowOK(Closed(row[CalcOf(a)], status))
  BY ActorOwner, UpdatesKeepRowOK DEF IInv, RowsOK
<1>2. RowsOK' /\ spent' \in [Kinds -> Nat]
  BY <1>1, ActorOwner, WriteOK DEF Finish
<1>3. ActorsOK'
  BY MaxAttemptsAssumption DEF Finish, IInv, ActorsOK, ActorRec, IdleActor, MaxAttemptsAssumption
<1>4. TasksOK'
  BY <1>2, StopBeatOK, NotifyOK DEF Finish, IInv, TasksOK
<1> QED BY <1>2, <1>3, <1>4 DEF IInv

(* New actors start at an attempt that a row holds. *)
LEMMA SpawnOK ==
    ASSUME IInv, NEW S, NEW sender \in {"run", "sup"}, SpawnActors(S, sender)
    PROVE  ActorsOK'
<1>1. ASSUME NEW a \in Actors
      PROVE  /\ Spawned(row[CalcOf(a)].attempt, sender) \in ActorRec
             /\ row[CalcOf(a)].attempt <= MaxAttempts
  BY <1>1, ActorOwner DEF IInv, RowsOK, RowOK, Row, Spawned, ActorRec
<1>2. ASSUME NEW a \in Actors
      PROVE  /\ [actor[a] EXCEPT !.sender = "dropped"] \in ActorRec
             /\ [actor[a] EXCEPT !.sender = "dropped"].attempt <= MaxAttempts
  BY <1>2 DEF IInv, ActorsOK, ActorRec
<1> QED BY <1>1, <1>2 DEF SpawnActors, Spawned, IInv, ActorsOK

(* A run actor that returns leaves its actors behind. *)
LEMMA LeaveRunOK ==
    ASSUME IInv, NEW r \in Runs, NEW cancel \in BOOLEAN, LeaveRun(r, cancel)
    PROVE  ActorsOK' /\ runActor' \in [Runs -> RunActorRec]
<1>1. ActorsOK'
  BY DEF LeaveRun, IInv, ActorsOK, ActorRec
<1>2. NoRunActor \in RunActorRec
  BY DEF NoRunActor, RunActorRec, RunStatus
<1>3. runActor' \in [Runs -> RunActorRec]
  BY <1>2 DEF LeaveRun, IInv, TasksOK
<1> QED BY <1>1, <1>3

(* The supervisor's mailbox: what is taken out has the fields its op promises. *)
LEMMA ReceiveOK ==
    ASSUME IInv, NEW op, Receives(op), mailbox' = Tail(mailbox)
    PROVE  /\ mailbox' \in Seq(Command)
           /\ op \in {"submit", "cancelRun"} => Head(mailbox).run \in Runs
           /\ op \in {"cancelCalc", "reschedule", "retry"} => Head(mailbox).calc \in Calcs
<1>1. mailbox \in Seq(Command) /\ mailbox # <<>> /\ Head(mailbox).op = op
  BY DEF IInv, TasksOK, Receives
<1>2. Head(mailbox) \in Command /\ Tail(mailbox) \in Seq(Command)
  BY <1>1, HeadTailProperties
<1> QED BY <1>1, <1>2 DEF Command

LEMMA SendOK ==
    ASSUME IInv, NEW cmd \in Command, Send(cmd)
    PROVE  mailbox' \in Seq(Command)
BY AppendProperties DEF IInv, TasksOK, Send

LEMMA TryRescheduleOK ==
    ASSUME IInv, NEW c \in Calcs, TryReschedule(c)
    PROVE  mailbox' \in Seq(Command)
<1>1. [op |-> "reschedule", calc |-> c] \in Command
  BY DEF Command
<1> QED BY <1>1, AppendProperties DEF IInv, TasksOK, TryReschedule

----------------------------------------------------------------------------
(* The initial state, and one lemma for each kind of task                  *)

LEMMA InitOK == Init => IInv
<1> SUFFICES ASSUME Init PROVE IInv
  OBVIOUS
<1>1. RowsOK
  BY NewRowsOK DEF Init, RowsOK, RowOK
<1>2. ActorsOK
  BY MaxAttemptsAssumption DEF MaxAttemptsAssumption, Init, ActorsOK, ActorRec, IdleActor
<1>3. TasksOK
  <2>1. mailbox \in Seq(Command)
    BY EmptySeq DEF Init
  <2> QED BY <2>1 DEF Init, TasksOK, NoRunActor, RunActorRec, RunStatus, Asleep
<1> QED BY <1>1, <1>2, <1>3 DEF IInv

(* Time, and the heartbeat tasks. *)
LEMMA ClockOK ==
    ASSUME IInv, NEW c \in Calcs, RetryFallsDue(c) \/ LeaseRunsOut(c)
    PROVE  IInv'
<1>1. CASE RetryFallsDue(c)
  <2>1. RowOK([row[c] EXCEPT !.nextAt = "due"])
    BY <1>1, UpdatesKeepRowOK DEF RetryFallsDue, IInv, RowsOK
  <2>2. RowsOK'
    BY <1>1, <2>1 DEF RetryFallsDue, IInv, RowsOK, RowOK
  <2> QED BY <1>1, <2>2 DEF RetryFallsDue, IInv, ActorsOK, TasksOK
<1>2. CASE LeaseRunsOut(c)
  <2>1. RowOK([row[c] EXCEPT !.lease = "expired"])
    BY <1>2, UpdatesKeepRowOK DEF LeaseRunsOut, IInv, RowsOK
  <2>2. RowsOK'
    BY <1>2, <2>1 DEF LeaseRunsOut, IInv, RowsOK, RowOK
  <2>3. spent' \in [Kinds -> Nat]
    BY <1>2, SpendOK DEF LeaseRunsOut, IInv, TasksOK, Kinds
  <2> QED BY <1>2, <2>2, <2>3 DEF LeaseRunsOut, IInv, ActorsOK, TasksOK
<1> QED BY <1>1, <1>2

LEMMA HeartbeatOK ==
    ASSUME IInv, NEW a \in Actors, HeartbeatTick(a)
    PROVE  IInv'
<1>1. RowsOK'
  <2>1. RowOK(Heartbeat(row[CalcOf(a)]))
    BY ActorOwner, UpdatesKeepRowOK DEF IInv, RowsOK
  <2> QED BY <2>1, ActorOwner DEF HeartbeatTick, IInv, RowsOK, RowOK
<1>2. spent' \in [Kinds -> Nat]
  BY SpendOK DEF HeartbeatTick, IInv, TasksOK, Kinds
<1>3. beat' \in [Actors -> {"off", "on", "late"}]
  BY DEF HeartbeatTick, IInv, TasksOK
<1> QED BY <1>1, <1>2, <1>3 DEF HeartbeatTick, IInv, ActorsOK, TasksOK

(* Every step of a calculation actor. *)
LEMMA ActorOK ==
    ASSUME IInv, NEW a \in Actors, ActorAcquire(a) \/ ActorStep(a)
    PROVE  IInv'
<1> DEFINE c == CalcOf(a)
<1>a. c \in Calcs /\ RowOK(row[c]) /\ actor[a] \in ActorRec /\ actor[a].attempt <= MaxAttempts
  BY ActorOwner DEF IInv, RowsOK, ActorsOK
<1>b. IdleActor \in ActorRec /\ IdleActor.attempt <= MaxAttempts
  BY MaxAttemptsAssumption DEF MaxAttemptsAssumption, IdleActor, ActorRec
<1>1. CASE ActorAcquire(a)
  <2>1. ActorsOK'
    BY <1>1, <1>a DEF ActorAcquire, IInv, ActorsOK, ActorRec
  <2> QED BY <1>1, <2>1 DEF ActorAcquire, IInv, RowsOK, TasksOK
<1>2. CASE ActorLease(a)
  <2>1. RowsOK'
    <3>1. RowOK(Started(row[c]))
      BY <1>a, UpdatesKeepRowOK
    <3> QED BY <1>2, <1>a, <3>1 DEF ActorLease, IInv, RowsOK, RowOK
  <2>2. ActorsOK'
    BY <1>2, <1>a, <1>b DEF ActorLease, IInv, ActorsOK, ActorRec
  <2>3. spent' \in [Kinds -> Nat] /\ beat' \in [Actors -> {"off", "on", "late"}]
    BY <1>2, SpendOK, StopBeatOK DEF ActorLease, IInv, TasksOK, Kinds
  <2> QED BY <1>2, <2>1, <2>2, <2>3 DEF ActorLease, IInv, TasksOK
<1>3. CASE ActorSucceeds(a) \/ ActorFails(a) \/ ActorExhausts(a) \/ ActorCancelled(a)
  BY <1>3, FinishOK
     DEF ActorSucceeds, ActorFails, ActorExhausts, ActorCancelled, TerminalCalc
<1>4. CASE ActorBacksOff(a)
  <2> DEFINE n == actor[a].attempt + 1
  <2>1. n \in Nat /\ n <= MaxAttempts
    BY <1>4, <1>a DEF ActorBacksOff, ActorRec
  <2>2. PICK at \in {"later", "due"} : Write(c, Retrying(row[c], n, at))
    BY <1>4 DEF ActorBacksOff
  <2>3. RowOK(Retrying(row[c], n, at))
    BY <1>a, <2>1, UpdatesKeepRowOK
  <2>4. RowsOK' /\ spent' \in [Kinds -> Nat]
    BY <1>a, <2>2, <2>3, WriteOK
  <2>5. ActorsOK'
    BY <1>4, <1>a, <2>1 DEF ActorBacksOff, IInv, ActorsOK, ActorRec
  <2>6. beat' \in [Actors -> {"off", "on", "late"}]
    BY <1>4, StopBeatOK DEF ActorBacksOff
  <2> QED BY <1>4, <2>4, <2>5, <2>6 DEF ActorBacksOff, IInv, TasksOK
<1>5. CASE ActorResets(a)
  <2>1. RowsOK' /\ spent' \in [Kinds -> Nat]
    BY <1>5, <1>a, UpdatesKeepRowOK, WriteOK DEF ActorResets
  <2>2. ActorsOK'
    BY <1>5, <1>a DEF ActorResets, IInv, ActorsOK, ActorRec
  <2> QED BY <1>5, <2>1, <2>2 DEF ActorResets, IInv, TasksOK
<1>6. CASE ActorGone(a)
  <2>1. ActorsOK'
    BY <1>6, <1>b DEF ActorGone, IInv, ActorsOK
  <2> QED BY <1>6, <2>1 DEF ActorGone, IInv, RowsOK, TasksOK
<1> QED BY <1>1, <1>2, <1>3, <1>4, <1>5, <1>6 DEF ActorStep

(* Every step of a run actor. *)
LEMMA DerivedStatus == \A S : DeriveRunStatus(S) \in RunStatus
BY DEF DeriveRunStatus, RunStatus

(* Setting one field of a run actor's record, or two, keeps it a record. *)
LEMMA RunActorFields ==
    ASSUME NEW x \in RunActorRec
    PROVE  /\ \A pc \in {"off", "loop", "write"} : [x EXCEPT !.pc = pc] \in RunActorRec
           /\ \A n \in Nat : [x EXCEPT !.notes = n] \in RunActorRec
           /\ \A n \in Int : [x EXCEPT !.left = n] \in RunActorRec
           /\ \A s \in RunStatus : [x EXCEPT !.status = s] \in RunActorRec
           /\ [x EXCEPT !.stop = TRUE] \in RunActorRec
BY DEF RunActorRec

LEMMA RunActorOK ==
    ASSUME IInv, NEW r \in Runs, RunActorStep(r)
    PROVE  IInv'
<1>a. runActor[r] \in RunActorRec /\ runActor \in [Runs -> RunActorRec]
  BY DEF IInv, TasksOK
<1>1. CASE RunActorStops(r)
  BY <1>1, LeaveRunOK DEF RunActorStops, IInv, RowsOK, TasksOK
<1>2. CASE RunActorReads(r)
  <2>1. spent' \in [Kinds -> Nat]
    BY <1>2, SpendOK DEF RunActorReads, IInv, TasksOK, Kinds
  <2>2. ActorsOK' /\ runActor' \in [Runs -> RunActorRec]
    <3> DEFINE w == [runActor[r] EXCEPT !.pc = "write"]
               Seen(x) == [x EXCEPT !.notes = @ - 1, !.left = @ - 1]
               after == [runActor[r] EXCEPT !.notes = @ - 1, !.left = @ - 1]
               reading == [runActor[r] EXCEPT !.pc = "write", !.notes = @ - 1, !.left = @ - 1,
                                              !.status = DeriveRunStatus(StatusesOf(r))]
    <3>a. ASSUME NEW x \in RunActorRec, x.notes > 0 PROVE Seen(x) \in RunActorRec
      <4> DEFINE y == [x EXCEPT !.notes = @ - 1]
      <4>1. x.notes - 1 \in Nat
        BY <3>a DEF RunActorRec
      <4>2. y \in RunActorRec
        BY <3>a, <4>1, RunActorFields
      <4>3. y.left - 1 \in Int
        BY <4>2 DEF RunActorRec
      <4> QED BY <4>2, <4>3, RunActorFields
    <3>1. after \in RunActorRec
      BY <1>2, <1>a, <3>a DEF RunActorReads
    <3>2. reading \in RunActorRec
      <4>1. w \in RunActorRec /\ w.notes > 0
        BY <1>2, <1>a, RunActorFields DEF RunActorReads, RunActorRec
      <4>2. Seen(w) \in RunActorRec
        BY <4>1, <3>a
      <4> QED BY <4>2, DerivedStatus, RunActorFields
    <3>3. CASE actor' = actor /\ runActor' = [runActor EXCEPT ![r] = after]
      BY <3>1, <3>3, <1>a DEF IInv, ActorsOK
    <3>4. CASE actor' = actor /\ runActor' = [runActor EXCEPT ![r] = reading]
      BY <3>2, <3>4, <1>a DEF IInv, ActorsOK
    <3>5. CASE LeaveRun(r, FALSE)
      BY <3>5, LeaveRunOK
    <3> QED BY <1>2, <3>3, <3>4, <3>5 DEF RunActorReads
  <2> QED BY <1>2, <2>1, <2>2 DEF RunActorReads, IInv, RowsOK, TasksOK
<1>3. CASE RunActorWrites(r)
  <2>1. spent' \in [Kinds -> Nat]
    BY <1>3, SpendOK DEF RunActorWrites, IInv, TasksOK, Kinds
  <2>2. runStatus' \in [Runs -> RunStatus \cup {"absent"}]
    BY <1>3, <1>a DEF RunActorWrites, IInv, TasksOK, RunActorRec
  <2>3. ActorsOK' /\ runActor' \in [Runs -> RunActorRec]
    <3>1. [runActor[r] EXCEPT !.pc = "loop"] \in RunActorRec
      BY <1>a DEF RunActorRec
    <3>2. CASE actor' = actor /\ runActor' = [runActor EXCEPT ![r].pc = "loop"]
      BY <3>1, <3>2, <1>a DEF IInv, ActorsOK
    <3>3. CASE LeaveRun(r, FALSE)
      BY <3>3, LeaveRunOK
    <3> QED BY <1>3, <3>2, <3>3 DEF RunActorWrites
  <2> QED BY <1>3, <2>1, <2>2, <2>3 DEF RunActorWrites, IInv, RowsOK, TasksOK
<1> QED BY <1>1, <1>2, <1>3 DEF RunActorStep

(* A new run actor expects as many reports as it has calculations. *)
LEMMA RunWithOK ==
    ASSUME NEW S \in SUBSET Calcs
    PROVE  RunWith(Cardinality(S)) \in RunActorRec
<1>1. Cardinality(S) \in Nat
  BY RunsdAssumption, FS_Subset, FS_CardinalityType DEF RunsdAssumption
<1>2. NoRunActor \in RunActorRec
  BY DEF NoRunActor, RunActorRec, RunStatus
<1>3. [NoRunActor EXCEPT !.pc = "loop"] \in RunActorRec
  BY <1>2, RunActorFields
<1>4. \A n \in Int : RunWith(n) \in RunActorRec
  BY <1>3, RunActorFields DEF RunWith
<1> QED BY <1>1, <1>4

(* Every step of the supervisor. *)
LEMMA SupOK == ASSUME IInv, SupStep PROVE IInv'
<1>1. CASE SupSubmit
  <2>1. mailbox' \in Seq(Command) /\ Head(mailbox).run \in Runs
    BY <1>1, ReceiveOK DEF SupSubmit
  <2>2. spent' \in [Kinds -> Nat]
    BY <1>1, SpendOK DEF SupSubmit, IInv, TasksOK, Kinds
  <2>3. runStatus' \in [Runs -> RunStatus \cup {"absent"}]
    BY <1>1, <2>1 DEF SupSubmit, IInv, TasksOK, RunStatus
  <2> QED BY <1>1, <2>1, <2>2, <2>3 DEF SupSubmit, IInv, RowsOK, ActorsOK, TasksOK
<1>2. ASSUME NEW c \in Calcs, SupInsert(c) PROVE IInv'
  <2>1. RowsOK'
    BY <1>2, NewRowsOK DEF SupInsert, IInv, RowsOK, RowOK
  <2>2. spent' \in [Kinds -> Nat]
    BY <1>2, SpendOK DEF SupInsert, IInv, TasksOK, Kinds
  <2> QED BY <1>2, <2>1, <2>2 DEF SupInsert, IInv, ActorsOK, TasksOK
<1>3. CASE SupSpawnRun
  <2>1. ActorsOK'
    BY <1>3, SpawnOK DEF SupSpawnRun
  <2>2. RunWith(Cardinality(CalcsOf(sup.run))) \in RunActorRec
    BY RunWithOK DEF CalcsOf
  <2> QED BY <1>3, <2>1, <2>2 DEF SupSpawnRun, IInv, RowsOK, TasksOK
<1>4. CASE SupCancelRun
  <2>1. mailbox' \in Seq(Command)
    BY <1>4, ReceiveOK DEF SupCancelRun
  <2>2. runActor' \in [Runs -> RunActorRec]
    BY <1>4, RunActorFields DEF SupCancelRun, IInv, TasksOK
  <2> QED BY <1>4, <2>1, <2>2 DEF SupCancelRun, IInv, RowsOK, ActorsOK, TasksOK
<1>5. CASE SupCancelCalc
  <2>1. mailbox' \in Seq(Command)
    BY <1>5, ReceiveOK DEF SupCancelCalc
  <2>2. ActorsOK'
    BY <1>5 DEF SupCancelCalc, IInv, ActorsOK, ActorRec
  <2> QED BY <1>5, <2>1, <2>2 DEF SupCancelCalc, IInv, RowsOK, TasksOK
<1>6. CASE SupReschedule
  <2>1. mailbox' \in Seq(Command)
    BY <1>6, ReceiveOK DEF SupReschedule
  <2>2. spent' \in [Kinds -> Nat]
    BY <1>6, SpendOK DEF SupReschedule, IInv, TasksOK, Kinds
  <2>3. ActorsOK'
    BY <1>6, SpawnOK DEF SupReschedule, IInv, ActorsOK
  <2> QED BY <1>6, <2>1, <2>2, <2>3 DEF SupReschedule, IInv, RowsOK, TasksOK
<1>7. CASE SupRetry
  <2>1. mailbox' \in Seq(Command) /\ Head(mailbox).calc \in Calcs
    BY <1>7, ReceiveOK DEF SupRetry
  <2>2. RowsOK'
    <3>1. RowOK(ResetPending(row[Head(mailbox).calc]))
      BY <2>1, UpdatesKeepRowOK DEF IInv, RowsOK
    <3> QED BY <1>7, <2>1, <3>1 DEF SupRetry, IInv, RowsOK, RowOK
  <2>3. spent' \in [Kinds -> Nat]
    BY <1>7, SpendOK DEF SupRetry, IInv, TasksOK, Kinds
  <2> QED BY <1>7, <2>1, <2>2, <2>3 DEF SupRetry, IInv, ActorsOK, TasksOK
<1>8. CASE SupRespawn
  <2>1. spent' \in [Kinds -> Nat]
    BY <1>8, SpendOK DEF SupRespawn, IInv, TasksOK, Kinds
  <2>2. ActorsOK'
    BY <1>8, SpawnOK DEF SupRespawn, IInv, ActorsOK
  <2> QED BY <1>8, <2>1, <2>2 DEF SupRespawn, IInv, RowsOK, TasksOK
<1>9. CASE SupShutdown
  <2>1. mailbox' \in Seq(Command)
    BY <1>9, EmptySeq DEF SupShutdown
  <2>2. runActor' \in [Runs -> RunActorRec]
    BY <1>9, RunActorFields DEF SupShutdown, IInv, TasksOK
  <2>3. ActorsOK'
    BY <1>9 DEF SupShutdown, IInv, ActorsOK, ActorRec
  <2> QED BY <1>9, <2>1, <2>2, <2>3 DEF SupShutdown, IInv, RowsOK, TasksOK
<1> QED BY <1>1, <1>2, <1>3, <1>4, <1>5, <1>6, <1>7, <1>8, <1>9 DEF SupStep

(* Every request. *)
LEMMA RequestOK == ASSUME IInv, Request PROVE IInv'
<1>1. ASSUME NEW r \in Runs, RequestSubmit(r) PROVE IInv'
  <2>1. [op |-> "submit", run |-> r] \in Command
    BY DEF Command
  <2>2. mailbox' \in Seq(Command)
    BY <1>1, <2>1, SendOK DEF RequestSubmit
  <2> QED BY <1>1, <2>2 DEF RequestSubmit, IInv, RowsOK, ActorsOK, TasksOK
<1>2. ASSUME NEW r \in Runs, RequestCancelRun(r) PROVE IInv'
  <2>1. [op |-> "cancelRun", run |-> r] \in Command
    BY DEF Command
  <2>2. mailbox' \in Seq(Command) /\ spent' \in [Kinds -> Nat]
    BY <1>2, <2>1, SendOK, SpendOK DEF RequestCancelRun, Kinds
  <2> QED BY <1>2, <2>2 DEF RequestCancelRun, IInv, RowsOK, ActorsOK, TasksOK
<1>3. ASSUME NEW c \in Calcs, RequestCancelCalc(c) PROVE IInv'
  <2>1. [op |-> "cancelCalc", calc |-> c] \in Command
    BY DEF Command
  <2>2. mailbox' \in Seq(Command) /\ spent' \in [Kinds -> Nat]
    BY <1>3, <2>1, SendOK, SpendOK DEF RequestCancelCalc, Kinds
  <2> QED BY <1>3, <2>2 DEF RequestCancelCalc, IInv, RowsOK, ActorsOK, TasksOK
<1>4. ASSUME NEW c \in Calcs, RetryCheck(c) PROVE IInv'
  <2>1. spent' \in [Kinds -> Nat]
    BY <1>4, SpendOK DEF RetryCheck, Kinds
  <2>2. retryOk' \in [Calcs -> Nat]
    BY <1>4 DEF RetryCheck, IInv, TasksOK
  <2> QED BY <1>4, <2>1, <2>2 DEF RetryCheck, IInv, RowsOK, ActorsOK, TasksOK
<1>5. ASSUME NEW c \in Calcs, RetrySend(c) PROVE IInv'
  <2>1. [op |-> "retry", calc |-> c] \in Command
    BY DEF Command
  <2>2. mailbox' \in Seq(Command)
    BY <1>5, <2>1, SendOK DEF RetrySend, IInv, TasksOK
  <2>3. retryOk' \in [Calcs -> Nat]
    BY <1>5 DEF RetrySend, IInv, TasksOK
  <2> QED BY <1>5, <2>2, <2>3 DEF RetrySend, IInv, RowsOK, ActorsOK, TasksOK
<1>6. ASSUME RequestShutdown PROVE IInv'
  <2>1. [op |-> "shutdown"] \in Command
    BY DEF Command
  <2>2. mailbox' \in Seq(Command) /\ spent' \in [Kinds -> Nat]
    BY <1>6, <2>1, SendOK, SpendOK DEF RequestShutdown, Kinds
  <2> QED BY <1>6, <2>2 DEF RequestShutdown, IInv, RowsOK, ActorsOK, TasksOK
<1> QED BY <1>1, <1>2, <1>3, <1>4, <1>5, <1>6 DEF Request

(* Every step of the watchdog. *)
LEMMA ReadRowsOK ==
    ASSUME IInv, NEW S \in SUBSET Calcs
    PROVE  ReadRows(S) \in SUBSET [calc : Calcs, attempt : Nat]
BY DEF ReadRows, IInv, RowsOK, Row

LEMMA WatchdogOK == ASSUME IInv, WatchdogStep PROVE IInv'
<1> DEFINE Read == SUBSET [calc : Calcs, attempt : Nat]
           WdType == [pc : {"sleep", "expired", "ready"}, todo : Read]
<1>a. wd \in WdType /\ wd.todo \in Read
  BY DEF IInv, TasksOK
<1>b. Asleep \in WdType
  BY DEF Asleep
<1>1. CASE WatchdogTick
  <2>1. ReadRows(ExpiredLeases) \in Read
    BY ReadRowsOK DEF ExpiredLeases
  <2>2. wd' \in WdType
    BY <1>1, <2>1 DEF WatchdogTick
  <2>3. spent' \in [Kinds -> Nat]
    BY <1>1, SpendOK DEF WatchdogTick, IInv, TasksOK, Kinds
  <2> QED BY <1>1, <2>2, <2>3 DEF WatchdogTick, IInv, RowsOK, ActorsOK, TasksOK
<1>2. CASE WatchdogLists
  <2>1. ReadRows(ReadyRetries) \in Read
    BY ReadRowsOK DEF ReadyRetries
  <2>2. wd' \in WdType
    BY <1>2, <1>b, <2>1 DEF WatchdogLists
  <2>3. spent' \in [Kinds -> Nat]
    BY <1>2, SpendOK DEF WatchdogLists, IInv, TasksOK, Kinds
  <2> QED BY <1>2, <2>2, <2>3 DEF WatchdogLists, IInv, RowsOK, ActorsOK, TasksOK
<1>3. ASSUME NEW e \in wd.todo, WatchdogCharges(e) PROVE IInv'
  <2>1. e.calc \in Calcs /\ e.attempt \in Nat
    BY <1>a
  <2>2. wd' \in WdType
    BY <1>3, <1>a DEF WatchdogCharges
  <2>3. RowsOK'
    <3>1. RowOK(Charged(row[e.calc], e.attempt))
      BY <2>1, ChargedRowOK DEF IInv, RowsOK
    <3> QED BY <1>3, <2>1, <3>1 DEF WatchdogCharges, IInv, RowsOK, RowOK
  <2>4. mailbox' \in Seq(Command)
    BY <1>3, <2>1, TryRescheduleOK DEF WatchdogCharges, IInv, TasksOK
  <2>5. spent' \in [Kinds -> Nat]
    BY <1>3, SpendOK DEF WatchdogCharges, IInv, TasksOK, Kinds
  <2> QED BY <1>3, <2>2, <2>3, <2>4, <2>5 DEF WatchdogCharges, IInv, ActorsOK, TasksOK
<1>4. ASSUME NEW e \in wd.todo, WatchdogReschedules(e) PROVE IInv'
  <2>1. e.calc \in Calcs
    BY <1>a
  <2>2. wd' \in WdType
    BY <1>4, <1>a, <1>b DEF WatchdogReschedules
  <2>3. mailbox' \in Seq(Command)
    BY <1>4, <2>1, TryRescheduleOK DEF WatchdogReschedules
  <2> QED BY <1>4, <2>2, <2>3 DEF WatchdogReschedules, IInv, RowsOK, ActorsOK, TasksOK
<1> QED BY <1>1, <1>2, <1>3, <1>4 DEF WatchdogStep

(* Death and startup of the process. *)
LEMMA LoseMemoryOK ==
    ASSUME IInv, LoseMemory, spent' \in [Kinds -> Nat]
    PROVE  IInv'
<1>1. RowsOK'
  BY DEF LoseMemory, IInv, RowsOK
<1>2. ActorsOK'
  BY MaxAttemptsAssumption
     DEF MaxAttemptsAssumption, LoseMemory, ActorsOK, ActorRec, IdleActor
<1>3. TasksOK'
  <2>1. mailbox' \in Seq(Command)
    BY EmptySeq DEF LoseMemory
  <2>2. runActor' \in [Runs -> RunActorRec]
    BY DEF LoseMemory, NoRunActor, RunActorRec, RunStatus
  <2> QED BY <2>1, <2>2 DEF LoseMemory, IInv, TasksOK, Asleep
<1> QED BY <1>1, <1>2, <1>3 DEF IInv

LEMMA ProcessOK == ASSUME IInv, Startup \/ Crash \/ Exit PROVE IInv'
<1>1. CASE Crash \/ Exit
  <2>1. spent' \in [Kinds -> Nat]
    BY <1>1, SpendOK DEF Crash, Exit, IInv, TasksOK, Kinds
  <2> QED BY <1>1, <2>1, LoseMemoryOK DEF Crash, Exit
<1>2. CASE BeginSweep
  BY <1>2 DEF BeginSweep, IInv, RowsOK, ActorsOK, TasksOK
<1>3. ASSUME NEW c \in Calcs, SweepRow(c) PROVE IInv'
  <2>1. RowsOK'
    <3>1. RowOK(Charged(row[c], row[c].attempt))
      BY ChargedRowOK DEF IInv, RowsOK, Row
    <3> QED BY <1>3, <3>1 DEF SweepRow, IInv, RowsOK, RowOK
  <2>2. daemon' \in [pc : {"down", "sweep", "up"}, todo : SUBSET Calcs]
    BY <1>3 DEF SweepRow, IInv, TasksOK
  <2> QED BY <1>3, <2>1, <2>2 DEF SweepRow, IInv, ActorsOK, TasksOK
<1>4. CASE Restore
  <2>0. PICK unread \in SUBSET Runs :
              /\ runActor' = [r \in Runs |->
                    LET active == {c \in Calcs : IsActive(row[c]) /\ RunOf[c] \notin unread}
                    IN IF active \cap CalcsOf(r) = {} THEN NoRunActor
                       ELSE RunWith(Cardinality(active \cap CalcsOf(r)))]
              /\ IF unread = {} THEN UNCHANGED spent ELSE Spend("dbError")
    BY <1>4 DEF Restore
  <2> DEFINE active == {c \in Calcs : IsActive(row[c]) /\ RunOf[c] \notin unread}
  <2>1. ActorsOK'
    BY <1>4, SpawnOK DEF Restore
  <2>3. spent' \in [Kinds -> Nat]
    BY <2>0, SpendOK DEF IInv, TasksOK, Kinds
  <2>2. runActor' \in [Runs -> RunActorRec]
    <3>1. \A r \in Runs : RunWith(Cardinality(active \cap CalcsOf(r))) \in RunActorRec
      BY RunWithOK
    <3>2. NoRunActor \in RunActorRec
      BY DEF NoRunActor, RunActorRec, RunStatus
    <3> QED BY <2>0, <3>1, <3>2
  <2>4. /\ daemon' = [pc |-> "up", todo |-> {}]
        /\ UNCHANGED <<row, runStatus, beat, sup, mailbox, retryOk, wd>>
    BY <1>4 DEF Restore
  <2> HIDE DEF active
  <2> QED BY <2>1, <2>2, <2>3, <2>4 DEF IInv, RowsOK, TasksOK
<1> QED BY <1>1, <1>2, <1>3, <1>4 DEF Startup

----------------------------------------------------------------------------
(* The invariant and what follows from it                                  *)

LEMMA NextOK == IInv /\ [Next]_vars => IInv'
<1> SUFFICES ASSUME IInv, [Next]_vars PROVE IInv'
  OBVIOUS
<1>1. CASE UNCHANGED vars
  BY <1>1 DEF vars, IInv, RowsOK, ActorsOK, TasksOK
<1>2. CASE Next
  BY <1>2, ClockOK, HeartbeatOK, ActorOK, RunActorOK, SupOK, RequestOK, WatchdogOK, ProcessOK
     DEF Next
<1> QED BY <1>1, <1>2

(* Every reachable state satisfies the inductive invariant: whatever the tasks,
   the clock, the users and crashes do, in any order and any number. *)
THEOREM Invariance == Spec => []IInv
BY InitOK, NextOK, PTL DEF Spec

(* The variables keep their types. *)
THEOREM TypeCorrectness == Spec => []TypeOK
<1>1. IInv => TypeOK
  BY DEF IInv, RowsOK, ActorsOK, TasksOK, TypeOK
<1> QED BY <1>1, Invariance, PTL

(* Running rows always have a lease and retrying rows a time to retry at. *)
THEOREM WatchdogSees == Spec => []WatchdogCanSee
<1>1. IInv => WatchdogCanSee
  BY DEF IInv, RowsOK, RowOK, WatchdogCanSee
<1> QED BY <1>1, Invariance, PTL

(* No calculation is ever charged more than max_attempts attempts. *)
THEOREM AttemptsStayBounded == Spec => []AttemptsBounded
<1>1. IInv => AttemptsBounded
  BY DEF IInv, RowsOK, RowOK, ActorsOK, AttemptsBounded
<1> QED BY <1>1, Invariance, PTL

(* A pending calculation has attempt 0, whoever made it pending. *)
THEOREM PendingStaysFresh == Spec => []PendingIsFresh
<1>1. IInv => PendingIsFresh
  BY DEF IInv, RowsOK, RowOK, PendingIsFresh
<1> QED BY <1>1, Invariance, PTL
=============================================================================
