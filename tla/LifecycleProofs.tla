-------------------------- MODULE LifecycleProofs --------------------------
(***************************************************************************)
(* The daemon implements CalcLifecycle when nothing fails and nobody       *)
(* retries, whatever users cancel, proved for any number of runs,          *)
(* calculations and permits.                                               *)
(***************************************************************************)
EXTENDS UserProofs

\* No faults, and requests to submit and to cancel only.
AllIsWell == NoFaults /\ Limits["retry"] = 0

NobodyRetries ==
    /\ \A c \in Calcs : retryOk[c] = 0 /\ ~RetryWaits(c)
    /\ sup.pc # "respawn"

InsertedIsPending == sup.pc = "insert" => runStatus[sup.run] = "pending"

\* A run actor is there when all its rows are, and is told only of those that ended.
RowsAreThere ==
    \A r \in Runs : runActor[r].pc # "off" => \A c \in CalcsOf(r) : row[c].status # "absent"

Reported ==
    \A r \in Runs : runActor[r].notes > 0 \/ runActor[r].pc = "write"
                    => \E c \in CalcsOf(r) : row[c].status \in TerminalCalc

\* s is what the calculations of r have come to.
Verdict(r, s) ==
    /\ s \in SettledRun /\ s = DeriveRunStatus(StatusesOf(r))
    /\ \A c \in CalcsOf(r) : row[c].status \in TerminalCalc

\* What the run actor has derived, and what it has stored, is a verdict as soon
\* as it is not "running".
VerdictsAreRight ==
    \A r \in Runs :
        /\ runStatus[r] \in SettledRun => Verdict(r, runStatus[r])
        /\ runActor[r].pc = "write" =>
              /\ runActor[r].status = "running" \/ Verdict(r, runActor[r].status)
              /\ runStatus[r] \in SettledRun => runActor[r].status = runStatus[r]

LInv == /\ NobodyRetries
        /\ InsertedIsPending /\ RowsAreThere /\ Reported /\ VerdictsAreRight

\* All invariants together.
AllInv == UInv /\ LInv

----------------------------------------------------------------------------
(* The steps that are left                                                 *)

LEMMA NoErrors == ASSUME AllIsWell, AllInv PROVE NoFaults /\ UInv /\ IInv /\ ~Spend("dbError")
BY NoFaultSpent DEF AllIsWell, AllInv, UInv

LEMMA NoSupRetry == ASSUME AllInv PROVE ~SupRetry /\ ~SupRespawn
<1>1. ASSUME SupRetry PROVE FALSE
  <2>1. Head(mailbox).calc \in Calcs /\ AsksRetry(1, Head(mailbox).calc) /\ 1 \in 1..Len(mailbox)
    BY <1>1, HeadOfMail, ReceiveOK DEF SupRetry, AllInv, UInv, AsksRetry
  <2> QED BY <2>1 DEF AllInv, LInv, NobodyRetries, RetryWaits
<1> QED BY <1>1 DEF SupRespawn, AllInv, LInv, NobodyRetries

(* How a row moves: forward, one status at a time. *)
LEMMA RowsMoveOn ==
    ASSUME AllIsWell, AllInv, Serves, NEW c \in Calcs
    PROVE  \/ row'[c].status = row[c].status
           \/ /\ row[c].status = "absent" /\ row'[c].status = "pending" /\ SupInsert(c)
           \/ /\ row[c].status = "pending" /\ row'[c].status = "running"
              /\ \E a \in Actors : CalcOf(a) = c /\ ActorLease(a)
           \/ /\ row[c].status = "running" /\ row'[c].status \in {"succeeded", "failed"}
              /\ \E a \in Actors : CalcOf(a) = c /\ Ends(a)
BY NoErrors, NoSupRetry, RowMoves

----------------------------------------------------------------------------
(* The invariant                                                           *)

LEMMA InitLives == AllIsWell => (Init => LInv)
<1> SUFFICES ASSUME Init PROVE LInv
  OBVIOUS
<1>1. NobodyRetries /\ InsertedIsPending
  BY DEF Init, NobodyRetries, RetryWaits, InsertedIsPending
<1>2. RowsAreThere /\ Reported /\ VerdictsAreRight
  BY DEF Init, RowsAreThere, Reported, VerdictsAreRight, NoRunActor, SettledRun, RunStatus
<1> QED BY <1>1, <1>2 DEF LInv

LEMMA StillNobody == ASSUME AllIsWell, AllInv, [Next]_vars PROVE NobodyRetries'
<1>a. IInv /\ IInv' /\ NobodyRetries
  BY NextOK DEF AllInv, UInv, LInv
<1>1. ASSUME NEW c \in Calcs PROVE retryOk'[c] = 0 /\ ~RetryWaits(c)'
  <2>1. ~RetryCheck(c)
    <3>1. spent["retry"] \in Nat
      BY <1>a DEF IInv, TasksOK, Kinds
    <3> QED BY <3>1 DEF RetryCheck, Spend, AllIsWell
  <2>2. ~(retryOk'[c] > 0) /\ ~RetryWaits(c)'
    BY <1>a, <2>1, RetryBefore DEF NobodyRetries
  <2>3. retryOk'[c] \in Nat
    BY <1>a DEF IInv, TasksOK
  <2> QED BY <2>2, <2>3
<1>2. sup'.pc # "respawn"
  <2>1. CASE UNCHANGED sup \/ LoseMemory
    BY <1>a, <2>1 DEF NobodyRetries, LoseMemory
  <2>2. CASE SupSubmit
    BY <2>1, <2>2 DEF SupSubmit
  <2>3. ASSUME NEW c \in Calcs, SupInsert(c) PROVE sup'.pc # "respawn"
    BY <2>1, <2>3 DEF SupInsert
  <2>4. CASE SupSpawnRun \/ SupShutdown
    BY <2>4 DEF SupSpawnRun, SupShutdown
  <2> QED BY <2>1, <2>2, <2>3, <2>4, NoSupRetry, OnlySupChangesSup
          DEF SupStep, SupCancelRun, SupCancelCalc, SupReschedule
<1> QED BY <1>1, <1>2 DEF NobodyRetries

(* A run that is being inserted has no run actor to write its status. *)
LEMMA StillPending == ASSUME AllIsWell, AllInv, [Next]_vars PROVE InsertedIsPending'
<1> SUFFICES ASSUME sup'.pc = "insert" PROVE runStatus'[sup'.run] = "pending"
  BY DEF InsertedIsPending
<1>a. runStatus \in [Runs -> RunStatus \cup {"absent"}] /\ IInv /\ BInv /\ ~Spend("dbError")
  BY NoErrors DEF AllInv, UInv, IInv, TasksOK
<1>1. CASE SupSubmit
  <2>1. Head(mailbox).run \in Runs
    BY <1>1, <1>a, ReceiveOK DEF SupSubmit
  <2> QED BY <1>1, <1>a, <2>1 DEF SupSubmit
<1>2. CASE ~SupSubmit
  <2>1. UNCHANGED sup
    <3>1. ASSUME NEW c \in Calcs, SupInsert(c) PROVE UNCHANGED sup
      BY <1>a, <3>1 DEF SupInsert
    <3>2. ~LoseMemory
      BY DEF LoseMemory
    <3>3. ~SupSpawnRun /\ ~SupShutdown
      BY DEF SupSpawnRun, SupShutdown
    <3> QED BY <1>2, <3>1, <3>2, <3>3, NoSupRetry, OnlySupChangesSup
            DEF SupStep, SupCancelRun, SupCancelCalc, SupReschedule
  <2>2. sup.run \in Runs /\ Unborn(sup.run) /\ runStatus[sup.run] = "pending"
    BY <1>a, <2>1 DEF AllInv, IInv, TasksOK, Unborn, LInv, InsertedIsPending
  <2>3. runActor[sup.run].pc = "off"
    BY <1>a, <2>2 DEF BInv, UnbornIsOff
  <2>4. ASSUME NEW r \in Runs, RunActorWrites(r) PROVE runStatus'[sup.run] = runStatus[sup.run]
    BY <2>2, <2>3, <2>4, <1>a DEF RunActorWrites
  <2> QED BY <1>2, <2>1, <2>2, <2>4, WhoWritesRunStatus
<1> QED BY <1>1, <1>2

(* Run actors: spawned when all rows are there, told only by actors that end. *)
LEMMA RunActorsWork ==
    ASSUME AllIsWell, AllInv, Serves, NEW r \in Runs
    PROVE  \/ /\ runActor'[r].pc = runActor[r].pc
              /\ runActor'[r].notes = runActor[r].notes
              /\ runActor'[r].status = runActor[r].status
           \/ runActor'[r].pc = "off" /\ runActor'[r].notes = 0
           \/ \E a \in Actors : /\ Ends(a) /\ RunOf[CalcOf(a)] = r
                                /\ runActor'[r].pc = runActor[r].pc
                                /\ runActor'[r].status = runActor[r].status
           \/ RunActorReads(r) /\ runActor'[r].pc = "write" /\ runActor[r].pc = "loop"
                /\ runActor[r].notes > 0
                /\ runActor'[r].status = DeriveRunStatus(StatusesOf(r))
           \/ RunActorWrites(r) /\ runActor[r].pc = "write" /\ runActor'[r].pc = "loop"
                /\ runActor'[r].notes = runActor[r].notes
           \/ SupSpawnRun /\ sup.run = r /\ runActor'[r].pc = "loop" /\ runActor'[r].notes = 0
<1>a. /\ runActor \in [Runs -> RunActorRec] /\ \A s \in Runs : runActor[s] \in RunActorRec
      /\ ~Spend("dbError")
      /\ sup.pc = "insert" => sup.run \in Runs
  BY NoErrors DEF AllInv, UInv, IInv, TasksOK
<1>1. ASSUME NEW a \in Actors, Ends(a)
      PROVE  \/ runActor'[r] = runActor[r]
             \/ /\ RunOf[CalcOf(a)] = r
                /\ runActor'[r].pc = runActor[r].pc
                /\ runActor'[r].status = runActor[r].status
  <2>1. Notify(a)
    BY <1>1, NoErrors, EndsMeans
  <2> QED BY <2>1, <1>a DEF Notify, RunActorRec
<1>2. ASSUME NEW s \in Runs, NEW cancel, LeaveRun(s, cancel)
      PROVE  runActor'[r] = runActor[r] \/ (runActor'[r].pc = "off" /\ runActor'[r].notes = 0)
  BY <1>2, <1>a DEF LeaveRun, NoRunActor
<1>3. ASSUME NEW s \in Runs, RunActorStops(s)
      PROVE  runActor'[r] = runActor[r] \/ (runActor'[r].pc = "off" /\ runActor'[r].notes = 0)
  BY <1>2, <1>3 DEF RunActorStops
<1>4. ASSUME NEW s \in Runs, RunActorReads(s)
      PROVE  \/ runActor'[r] = runActor[r]
             \/ RunActorReads(r) /\ runActor'[r].pc = "write" /\ runActor[r].pc = "loop"
                  /\ runActor[r].notes > 0
                  /\ runActor'[r].status = DeriveRunStatus(StatusesOf(r))
  <2>a. runActor[s].pc = "loop" /\ runActor[s].notes > 0
    BY <1>4 DEF RunActorReads
  <2>b. runActor' = [runActor EXCEPT ![s].pc = "write", ![s].notes = @ - 1,
                       ![s].left = @ - 1, ![s].status = DeriveRunStatus(StatusesOf(s))]
    BY <1>4, <1>a DEF RunActorReads
  <2>1. CASE r = s
    <3> DEFINE d == DeriveRunStatus(StatusesOf(s))
               n == runActor[s].notes - 1
               left == runActor[s].left - 1
    <3>a. runActor'[s] = [runActor[s] EXCEPT !.pc = "write", !.notes = n, !.left = left,
                                             !.status = d]
      BY <1>a, <2>b
    <3> HIDE DEF d, n, left
    <3>b. runActor'[s].pc = "write" /\ runActor'[s].status = d
      BY <1>a, <3>a DEF RunActorRec
    <3>1. /\ runActor'[s].pc = "write"
          /\ runActor'[s].status = DeriveRunStatus(StatusesOf(s))
      BY <3>b DEF d
    <3> QED BY <1>4, <2>a, <2>1, <3>1
  <2>2. CASE r # s
    BY <1>a, <2>b, <2>2
  <2> QED BY <2>1, <2>2
<1>5. ASSUME NEW s \in Runs, RunActorWrites(s)
      PROVE  \/ runActor'[r] = runActor[r]
             \/ runActor'[r].pc = "off" /\ runActor'[r].notes = 0
             \/ RunActorWrites(r) /\ runActor[r].pc = "write" /\ runActor'[r].pc = "loop"
                  /\ runActor'[r].notes = runActor[r].notes
  <2>1. CASE LeaveRun(s, FALSE)
    BY <1>2, <2>1
  <2>2. CASE runActor' = [runActor EXCEPT ![s].pc = "loop"]
    <3>0. runActor[s].pc = "write"
      BY <1>5 DEF RunActorWrites
    <3>1. CASE r = s
      BY <1>5, <1>a, <2>2, <3>0, <3>1 DEF RunActorRec
    <3>2. CASE r # s
      BY <1>a, <2>2, <3>2
    <3> QED BY <3>1, <3>2
  <2>3. LeaveRun(s, FALSE) \/ runActor' = [runActor EXCEPT ![s].pc = "loop"]
    BY <1>5 DEF RunActorWrites
  <2> QED BY <2>1, <2>2, <2>3
<1>6. CASE SupSpawnRun
  <2>1. runActor' = [runActor EXCEPT ![sup.run] = RunWith(Cardinality(CalcsOf(sup.run)))]
    BY <1>6 DEF SupSpawnRun
  <2>2. \A n : RunWith(n).pc = "loop" /\ RunWith(n).notes = 0
    BY DEF RunWith, NoRunActor
  <2> QED BY <1>6, <1>a, <2>1, <2>2
<1>7. CASE SupCancelRun
  <2>1. /\ runActor'[r].pc = runActor[r].pc
        /\ runActor'[r].notes = runActor[r].notes
        /\ runActor'[r].status = runActor[r].status
    <3>1. runActor'[r] = runActor[r] \/ runActor'[r] = [runActor[r] EXCEPT !.stop = TRUE]
      BY <1>7 DEF SupCancelRun
    <3>2. runActor[r] \in RunActorRec
      BY <1>a
    <3> QED BY <3>1, <3>2 DEF RunActorRec
  <2> QED BY <2>1
<1>8. CASE \/ UNCHANGED vars \/ SupSubmit \/ SupCancelCalc \/ WatchdogTick \/ WatchdogLists \/ Asks
           \/ \E c \in Calcs : RetryFallsDue(c) \/ LeaseRunsOut(c) \/ SupInsert(c)
           \/ \E a \in Actors : ActorAcquire(a) \/ ActorLease(a) \/ HeartbeatTick(a)
  BY <1>8, AskingMeans DEF vars, SupSubmit, SupCancelCalc, WatchdogTick, WatchdogLists,
     RetryFallsDue, LeaseRunsOut, SupInsert, ActorAcquire, ActorLease, HeartbeatTick
<1> QED BY <1>1, <1>3, <1>4, <1>5, <1>6, <1>7, <1>8, NoSupRetry DEF Serves, RunActorStep

LEMMA RowsStillThere == ASSUME AllIsWell, AllInv, Serves PROVE RowsAreThere'
<1> SUFFICES ASSUME NEW r \in Runs, runActor'[r].pc # "off", NEW c \in CalcsOf(r)
             PROVE  row'[c].status # "absent"
  BY DEF RowsAreThere, CalcsOf
<1>1. c \in Calcs
  BY DEF CalcsOf
<1>2. row[c].status # "absent"
  <2>1. CASE runActor[r].pc # "off"
    BY <2>1 DEF AllInv, LInv, RowsAreThere
  <2>2. CASE runActor[r].pc = "off"
    BY <2>2, RunActorsWork DEF SupSpawnRun
  <2> QED BY <2>1, <2>2
<1> QED BY <1>1, <1>2, RowsMoveOn

LEMMA StillReported == ASSUME AllIsWell, AllInv, Serves PROVE Reported'
<1> SUFFICES ASSUME NEW r \in Runs, runActor'[r].notes > 0 \/ runActor'[r].pc = "write"
             PROVE  \E c \in CalcsOf(r) : row'[c].status \in TerminalCalc
  BY DEF Reported, CalcsOf
<1>1. CASE \E c \in CalcsOf(r) : row[c].status \in TerminalCalc
  BY <1>1, RowsMoveOn DEF CalcsOf, TerminalCalc
<1>2. CASE \E a \in Actors : Ends(a) /\ RunOf[CalcOf(a)] = r
  BY <1>2, ActorOwner, NoErrors, EndsMeans DEF CalcsOf, TerminalCalc
<1>3. CASE runActor[r].notes > 0 \/ runActor[r].pc = "write"
  BY <1>1, <1>3 DEF AllInv, LInv, Reported
<1> QED BY <1>2, <1>3, RunActorsWork

(* The statuses a run actor reads when it is told that a calculation ended. *)
LEMMA WhatIsRead ==
    ASSUME AllInv, NEW r \in Runs, runActor[r].pc = "loop", runActor[r].notes > 0
    PROVE  \/ DeriveRunStatus(StatusesOf(r)) = "running"
           \/ Verdict(r, DeriveRunStatus(StatusesOf(r)))
<1> DEFINE S == StatusesOf(r)
<1>a. \A c \in Calcs : row[c].status \in CalcStatus \cup {"absent"}
  BY DEF AllInv, UInv, IInv, RowsOK, Row
<1>1. \A c \in CalcsOf(r) : row[c].status # "absent"
  BY DEF AllInv, LInv, RowsAreThere
<1>2. PICK c \in CalcsOf(r) : row[c].status \in TerminalCalc
  BY DEF AllInv, LInv, Reported
<1>3. \A s : s \in S <=> \E d \in CalcsOf(r) : s = row[d].status
  BY <1>1 DEF StatusesOf
<1>4. S \subseteq CalcStatus /\ S # {}
  BY <1>a, <1>1, <1>2, <1>3 DEF CalcsOf
<1>5. \A d \in CalcsOf(r) : row[d].status \in S
  BY <1>3
<1>6. S = StatusesOf(r)
  OBVIOUS
<1> HIDE DEF S
<1>7. CASE S \cap ActiveCalc # {}
  <2>1. S # {"succeeded"} /\ S # {"cancelled"} /\ S # {"failed"}
    BY <1>7 DEF ActiveCalc
  <2>2. DeriveRunStatus(S) = "running"
    BY <1>4, <1>7, <2>1 DEF DeriveRunStatus
  <2> QED BY <1>6, <2>2
<1>8. CASE S \cap ActiveCalc = {}
  <2>1. S \subseteq TerminalCalc
    BY <1>4, <1>8 DEF CalcStatus
  <2>2. DeriveRunStatus(S) \in SettledRun
    BY <1>4, <1>8 DEF DeriveRunStatus, SettledRun, RunStatus
  <2> QED BY <1>5, <1>6, <2>1, <2>2 DEF Verdict
<1> QED BY <1>7, <1>8

(* What is settled stays settled, and alike. *)
LEMMA VerdictStays ==
    ASSUME AllIsWell, AllInv, Serves, NEW r \in Runs, NEW s, Verdict(r, s)
    PROVE  Verdict(r, s)'
<1>1. \A c \in CalcsOf(r) : c \in Calcs /\ row[c].status \in TerminalCalc
  BY DEF Verdict, CalcsOf
<1>2. \A c \in CalcsOf(r) : row'[c].status = row[c].status
  BY <1>1, RowsMoveOn DEF TerminalCalc
<1>3. StatusesOf(r)' = StatusesOf(r)
  BY <1>2 DEF StatusesOf, CalcsOf
<1> QED BY <1>1, <1>2, <1>3 DEF Verdict, CalcsOf

(* How the status of a run moves: submitted, or written by its run actor. *)
LEMMA RunStatusMoves ==
    ASSUME AllIsWell, AllInv, [Next]_vars, NEW r \in Runs
    PROVE  \/ runStatus'[r] = runStatus[r]
           \/ SupSubmit /\ runStatus[r] = "absent" /\ runStatus'[r] = "pending"
           \/ RunActorWrites(r) /\ runActor[r].pc = "write" /\ runStatus'[r] = runActor[r].status
<1>a. runStatus \in [Runs -> RunStatus \cup {"absent"}] /\ ~Spend("dbError")
  BY NoErrors DEF AllInv, UInv, IInv, TasksOK
<1>1. ASSUME NEW s \in Runs, RunActorWrites(s)
      PROVE  \/ runStatus'[r] = runStatus[r]
             \/ RunActorWrites(r) /\ runActor[r].pc = "write" /\ runStatus'[r] = runActor[r].status
  <2>1. runActor[s].pc = "write" /\ runStatus' = [runStatus EXCEPT ![s] = runActor[s].status]
    BY <1>1, <1>a DEF RunActorWrites
  <2> QED BY <1>1, <1>a, <2>1
<1>2. CASE SupSubmit
  <2>1. Head(mailbox).run \in Runs /\ mailbox # <<>> /\ mailbox' = Tail(mailbox)
        /\ Head(mailbox).op = "submit"
    BY <1>2, ReceiveOK DEF SupSubmit, AllInv, UInv, Receives
  <2>2. runStatus[Head(mailbox).run] = "absent"
    BY <2>1, MailTaken DEF AllInv, UInv, BInv, Submissions, SubmittedIsAbsent
  <2>3. runStatus' = [runStatus EXCEPT ![Head(mailbox).run] = "pending"]
    BY <1>2, <1>a DEF SupSubmit
  <2> QED BY <1>2, <1>a, <2>1, <2>2, <2>3
<1> QED BY <1>1, <1>2, WhoWritesRunStatus

LEMMA VerdictsStillRight == ASSUME AllIsWell, AllInv, Serves, [Next]_vars PROVE VerdictsAreRight'
<1> SUFFICES ASSUME NEW r \in Runs
             PROVE  /\ runStatus'[r] \in SettledRun => Verdict(r, runStatus[r])'
                    /\ runActor'[r].pc = "write" =>
                          /\ runActor'[r].status = "running" \/ Verdict(r, runActor[r].status)'
                          /\ runStatus'[r] \in SettledRun => runActor'[r].status = runStatus'[r]
  BY DEF VerdictsAreRight
<1>a. /\ runStatus[r] \in SettledRun => Verdict(r, runStatus[r])
      /\ runActor[r].pc = "write" =>
            /\ runActor[r].status = "running" \/ Verdict(r, runActor[r].status)
            /\ runStatus[r] \in SettledRun => runActor[r].status = runStatus[r]
  BY DEF AllInv, LInv, VerdictsAreRight
<1>b. "running" \notin SettledRun /\ "pending" \notin SettledRun
  BY DEF SettledRun
<1>1. ASSUME runStatus'[r] \in SettledRun PROVE Verdict(r, runStatus[r])'
  <2>1. Verdict(r, runStatus'[r])
    BY <1>1, <1>a, <1>b, RunStatusMoves
  <2> DEFINE s == runStatus'[r]
  <2>2. s = runStatus'[r]
    OBVIOUS
  <2> HIDE DEF s
  <2> QED BY <2>1, <2>2, VerdictStays DEF Verdict
<1>2. ASSUME runActor'[r].pc = "write"
      PROVE  /\ runActor'[r].status = "running" \/ Verdict(r, runActor'[r].status)
             /\ runStatus'[r] \in SettledRun => runActor'[r].status = runStatus'[r]
  <2>1. CASE RunActorReads(r)
    <3>1. /\ runActor[r].pc = "loop" /\ runActor[r].notes > 0 /\ UNCHANGED runStatus
      BY <2>1 DEF RunActorReads
    <3>2. runActor'[r].status = DeriveRunStatus(StatusesOf(r))
      BY <1>2, <3>1, RunActorsWork
    <3>3. runStatus[r] \in SettledRun => runStatus[r] = DeriveRunStatus(StatusesOf(r))
      BY <1>a DEF Verdict
    <3> QED BY <3>1, <3>2, <3>3, WhatIsRead
  <2>2. CASE ~RunActorReads(r)
    <3>1. /\ runActor[r].pc = "write" /\ runActor'[r].status = runActor[r].status
      BY <1>2, <2>2, RunActorsWork
    <3>2. runStatus'[r] \in SettledRun =>
            runStatus'[r] = runStatus[r] \/ runStatus'[r] = runActor[r].status
      BY <1>b, RunStatusMoves
    <3> QED BY <1>a, <3>1, <3>2
  <2> QED BY <2>1, <2>2
<1>3. ASSUME runActor'[r].pc = "write", runActor'[r].status # "running"
      PROVE  Verdict(r, runActor[r].status)'
  <2>1. Verdict(r, runActor'[r].status)
    BY <1>2, <1>3
  <2> DEFINE s == runActor'[r].status
  <2>2. s = runActor'[r].status
    OBVIOUS
  <2> HIDE DEF s
  <2> QED BY <2>1, <2>2, VerdictStays DEF Verdict
<1> QED BY <1>1, <1>2, <1>3

(* Every step keeps LInv. *)
LEMMA NextLives == ASSUME AllIsWell, AllInv, [Next]_vars PROVE LInv'
<1>1. Serves
  BY NoErrors, OnlyServes
<1> QED BY <1>1, StillNobody, StillPending, RowsStillThere, StillReported, VerdictsStillRight
        DEF LInv

LEMMA InitAll == AllIsWell => (Init => AllInv)
BY InitServes, InitLives DEF AllIsWell, AllInv

LEMMA NextAll == ASSUME AllIsWell, AllInv, [Next]_vars PROVE AllInv'
<1>1. RetriesApart
  BY DEF AllInv, LInv, NobodyRetries, RetriesApart, RetryWaits
<1> QED BY <1>1, NoErrors, NextServes, NextLives DEF AllInv

(* When all is well it stays well: all parts of the invariant are inductive
   together. *)
THEOREM AllIsInvariant == ASSUME AllIsWell PROVE Spec => []AllInv
<1>1. Init => AllInv
  BY InitAll
<1>2. AllInv /\ [Next]_vars => AllInv'
  BY NextAll
<1> QED BY <1>1, <1>2, PTL DEF Spec

(* A settled run has the status its calculations give, and they have all ended,
   although RunActor::refresh_run_status reads and writes in two commands and
   users cancel runs and calculations meanwhile. *)
THEOREM SettledIsRight == ASSUME AllIsWell PROVE Spec => []SettledRunIsRight
<1>1. AllInv => SettledRunIsRight
  BY DEF AllInv, LInv, VerdictsAreRight, Verdict, SettledRunIsRight
<1> QED BY <1>1, AllIsInvariant, PTL

----------------------------------------------------------------------------
(* The refinement                                                          *)

statusBar == [c \in Calcs |-> row[c].status]

(* The two modules derive a run's status alike, once its rows are there. *)
LEMMA SameVerdict ==
    ASSUME NEW r \in Runs, \A c \in CalcsOf(r) : row[c].status \in TerminalCalc
    PROVE  /\ Lifecycle!StatusesIn(r) = StatusesOf(r)
           /\ Lifecycle!StatusesIn(r) \subseteq Lifecycle!TerminalCalc
           /\ Lifecycle!DeriveRunStatus(Lifecycle!StatusesIn(r)) = DeriveRunStatus(StatusesOf(r))
<1>1. CalcsOf(r) \subseteq Calcs /\ \A c \in CalcsOf(r) : row[c].status # "absent"
  BY DEF CalcsOf, TerminalCalc
<1>2. Lifecycle!StatusesIn(r) = {row[c].status : c \in CalcsOf(r)}
  BY DEF Lifecycle!StatusesIn, CalcsOf
<1>3. StatusesOf(r) = {row[c].status : c \in CalcsOf(r)}
  BY <1>1 DEF StatusesOf
<1>4. \A S : Lifecycle!DeriveRunStatus(S) = DeriveRunStatus(S)
  BY DEF Lifecycle!DeriveRunStatus, DeriveRunStatus, Lifecycle!ActiveCalc, ActiveCalc
<1> QED BY <1>2, <1>3, <1>4 DEF Lifecycle!TerminalCalc, TerminalCalc

(* A calculation that moves is a calculation that progresses. *)
LEMMA RowsProgress ==
    ASSUME AllIsWell, AllInv, NEW c \in Calcs,
           \/ SupInsert(c)
           \/ \E a \in Actors : CalcOf(a) = c /\ (ActorLease(a) \/ Ends(a))
    PROVE  Lifecycle!Progresses(c)
<1>a. row \in [Calcs -> Row] /\ ~Spend("dbError")
  BY NoErrors DEF AllInv, UInv, IInv, RowsOK
<1>1. ASSUME NEW to, row'[c].status = to, \A d \in Calcs : d # c => row'[d] = row[d]
      PROVE  statusBar' = [statusBar EXCEPT ![c] = to]
  BY <1>1 DEF statusBar
<1>2. CASE SupInsert(c)
  <2>1. /\ row[c].status = "absent" /\ runStatus[RunOf[c]] = "pending"
        /\ row' = [row EXCEPT ![c] = NewRow] /\ UNCHANGED runStatus
    BY <1>2, <1>a DEF SupInsert, AllInv, LInv, InsertedIsPending
  <2>2. NewRow.status = "pending"
    BY DEF NewRow, NoRow
  <2>3. statusBar' = [statusBar EXCEPT ![c] = "pending"]
    BY <1>1, <1>a, <2>1, <2>2
  <2> QED BY <2>1, <2>3 DEF Lifecycle!Progresses, Lifecycle!Moves, statusBar
<1>3. ASSUME NEW a \in Actors, CalcOf(a) = c, ActorLease(a) PROVE Lifecycle!Progresses(c)
  <2>1. statusBar' = [statusBar EXCEPT ![c] = "running"]
    BY <1>1, <1>3, NoErrors, LeaseMeans
  <2> QED BY <1>3, <2>1, NoErrors, LeaseMeans DEF Lifecycle!Progresses, Lifecycle!Moves, statusBar
<1>4. ASSUME NEW a \in Actors, CalcOf(a) = c, Ends(a) PROVE Lifecycle!Progresses(c)
  <2>1. statusBar' = [statusBar EXCEPT ![c] = row'[c].status]
    BY <1>1, <1>4, NoErrors, EndsMeans
  <2> QED BY <1>4, <2>1, NoErrors, EndsMeans DEF Lifecycle!Progresses, Lifecycle!Moves, statusBar
<1> QED BY <1>2, <1>3, <1>4

(* What a run actor writes is shown: as running, settled, or what was there. *)
LEMMA RunsShow ==
    ASSUME AllIsWell, AllInv, NEW r \in Runs, RunActorWrites(r)
    PROVE  Lifecycle!Shows(r) \/ Lifecycle!Settles(r) \/ UNCHANGED <<statusBar, runStatus>>
<1> DEFINE s == runActor[r].status
<1>a. runStatus \in [Runs -> RunStatus \cup {"absent"}] /\ ~Spend("dbError")
  BY NoErrors DEF AllInv, UInv, IInv, TasksOK
<1>1. /\ runActor[r].pc = "write" /\ UNCHANGED statusBar
      /\ runStatus' = [runStatus EXCEPT ![r] = s]
  BY <1>a DEF RunActorWrites, statusBar
<1>2. /\ s = "running" \/ Verdict(r, s)
      /\ runStatus[r] \in SettledRun => s = runStatus[r]
  BY <1>1 DEF AllInv, LInv, VerdictsAreRight
<1>3. PICK c \in Calcs : RunOf[c] = r /\ row[c].status \in TerminalCalc
  BY <1>1 DEF AllInv, LInv, Reported, CalcsOf
<1>4. runStatus[r] # "absent"
  BY <1>3 DEF AllInv, UInv, BInv, AbsentRuns, TerminalCalc
<1>5. CASE runStatus[r] \in SettledRun
  <2>1. runStatus' = runStatus
    BY <1>a, <1>1, <1>2, <1>5
  <2> QED BY <1>1, <2>1
<1>6. CASE runStatus[r] \notin SettledRun
  <2>1. runStatus[r] \in {"pending", "running"}
    BY <1>a, <1>4, <1>6 DEF SettledRun
  <2>2. CASE s = "running"
    BY <1>1, <1>3, <2>1, <2>2
       DEF Lifecycle!Shows, statusBar, TerminalCalc, Lifecycle!TerminalCalc
  <2>3. CASE Verdict(r, s)
    <3>1. /\ s = DeriveRunStatus(StatusesOf(r))
          /\ \A d \in CalcsOf(r) : row[d].status \in TerminalCalc
      BY <2>3 DEF Verdict
    <3> QED BY <1>1, <2>1, <3>1, SameVerdict DEF Lifecycle!Settles, statusBar
  <2> QED BY <1>2, <2>2, <2>3
<1> QED BY <1>5, <1>6

(* Every step is a step of CalcLifecycle, or one no client sees. *)
LEMMA NextImplements ==
    ASSUME AllIsWell, AllInv, [Next]_vars
    PROVE  Lifecycle!Next \/ UNCHANGED <<statusBar, runStatus>>
<1>a. Serves /\ ~Spend("dbError")
  BY NoErrors, OnlyServes
<1>1. CASE \/ \E c \in Calcs : SupInsert(c)
           \/ \E a \in Actors : ActorLease(a) \/ Ends(a)
  <2>1. PICK c \in Calcs : \/ SupInsert(c)
                           \/ \E a \in Actors : CalcOf(a) = c /\ (ActorLease(a) \/ Ends(a))
    BY <1>1, ActorOwner
  <2> QED BY <2>1, RowsProgress DEF Lifecycle!Next
<1>2. CASE /\ ~\E c \in Calcs : SupInsert(c)
           /\ ~\E a \in Actors : ActorLease(a) \/ Ends(a)
  <2>1. UNCHANGED statusBar
    BY <1>2, <1>a, RowsMoveOn DEF statusBar
  <2>2. CASE SupSubmit
    <3>1. Head(mailbox).run \in Runs
      BY <2>2, ReceiveOK DEF SupSubmit, AllInv, UInv
    <3>2. /\ runStatus' = [runStatus EXCEPT ![Head(mailbox).run] = "pending"]
          /\ Head(mailbox).op = "submit" /\ mailbox # <<>> /\ mailbox' = Tail(mailbox)
      BY <2>2, <1>a DEF SupSubmit, Receives
    <3>3. runStatus[Head(mailbox).run] = "absent"
      BY <3>2, MailTaken DEF AllInv, UInv, BInv, Submissions, SubmittedIsAbsent
    <3>4. Lifecycle!Submitted(Head(mailbox).run)
      BY <2>1, <3>2, <3>3 DEF Lifecycle!Submitted, statusBar
    <3> QED BY <3>1, <3>4 DEF Lifecycle!Next
  <2>3. ASSUME NEW r \in Runs, RunActorWrites(r)
        PROVE  Lifecycle!Next \/ UNCHANGED <<statusBar, runStatus>>
    BY <2>3, RunsShow DEF Lifecycle!Next
  <2> QED BY <2>1, <2>2, <2>3, WhoWritesRunStatus
<1> QED BY <1>1, <1>2

(* However the actors, the run actors, the supervisor and cancellations
   interleave, a client sees calculations move forward one status at a time, and
   runs settle once, after their calculations and with the status these give. *)
THEOREM DaemonImplementsLifecycle == ASSUME AllIsWell PROVE Spec => ImplementsLifecycle
<1>1. Init => Lifecycle!Init
  BY DEF Init, Lifecycle!Init, NoRow
<1>2. AllInv /\ [Next]_vars
        => [Lifecycle!Next]_<<[c \in Calcs |-> row[c].status], runStatus>>
  BY NextImplements DEF statusBar
<1> QED BY <1>1, <1>2, AllIsInvariant, PTL DEF Spec, ImplementsLifecycle, Lifecycle!Spec
=============================================================================
