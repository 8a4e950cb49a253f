----------------------------- MODULE ApiProofs -----------------------------
(***************************************************************************)
(* The daemon with the client of the external API in place: it is still a  *)
(* daemon, so that whatever is proved of Runsd holds of it too, and the    *)
(* result of a calculation that succeeded is there unless the process ends *)
(* or two actors of the calculation write it at once.                      *)
(***************************************************************************)
EXTENDS RunsdApi, UserProofs

\* A submission is under way only in an actor that submits.
CallsOK ==
    /\ call \in [Actors -> {"none", "launch", "poll", "store", "stored"}]
    /\ result \in [Calcs -> Contents]
    /\ \A a \in Actors : call[a] # "none" => actor[a].pc = "submit"
    /\ met \subseteq Actors /\ \A a \in met : call[a] \in {"store", "stored"}

\* An actor that has met no other is alone with the file.
AloneWithFile ==
    \A a \in Actors \ met :
        call[a] \in {"store", "stored"} =>
            /\ result[CalcOf(a)] = IF call[a] = "store" THEN "empty" ELSE "whole"
            /\ Storing(CalcOf(a)) = {a}

ApiInv == IInv /\ BInv /\ CallsOK /\ AloneWithFile

----------------------------------------------------------------------------
(* The steps                                                               *)

(* Whatever a submission comes to, the actor ends or backs off. *)
LEMMA ReturnsIsAStep ==
    ASSUME NEW a \in Actors, NEW outcome \in {"transient", "permanent", "succeeded"},
           Returns(a, outcome)
    PROVE  /\ ActorStep(a)
           /\ call' = [call EXCEPT ![a] = "none"] /\ met' = met \ {a}
           /\ outcome = "succeeded" => ActorSucceeds(a)
           /\ outcome # "succeeded" => ActorExhausts(a) \/ ActorBacksOff(a) \/ ActorFails(a)
BY DEF Returns, ActorStep

\* A submission that does not end well, and what its actor does then.
Gives(a) ==
    /\ actor[a].pc = "submit" /\ ActorStep(a)
    /\ ActorExhausts(a) \/ ActorBacksOff(a) \/ ActorFails(a)
    /\ call' = [call EXCEPT ![a] = "none"] /\ met' = met \ {a}
    /\ \/ UNCHANGED result
       \/ /\ call[a] = "store"
          /\ \E contents \in {result[CalcOf(a)], "broken"} :
                result' = [result EXCEPT ![CalcOf(a)] = contents]

\* One that does.
Delivers(a) ==
    /\ actor[a].pc = "submit" /\ call[a] = "stored" /\ ActorSucceeds(a)
    /\ call' = [call EXCEPT ![a] = "none"] /\ met' = met \ {a}
    /\ UNCHANGED result

LEMMA RequestFailsIsAStep ==
    ASSUME NEW a \in Actors, actor[a].pc = "submit", RequestFails(a)
    PROVE  Gives(a)
<1>1. PICK outcome \in {"transient", "permanent"} : Returns(a, outcome)
  BY DEF RequestFails
<1> QED BY <1>1, ReturnsIsAStep DEF RequestFails, Gives

Polls(a) == Calls(a, "launch", "poll") /\ UNCHANGED <<result, met>>

Completes(a) ==
    /\ Calls(a, "store", "stored") /\ UNCHANGED met
    /\ \E contents \in Contents :
          /\ result' = [result EXCEPT ![CalcOf(a)] = contents]
          /\ result[CalcOf(a)] = "empty" => contents = "whole"

(* A step of a submission is one of its own, or its end. *)
LEMMA SubmissionSteps ==
    ASSUME NEW a \in Actors, Submission(a)
    PROVE  Polls(a) \/ Opens(a) \/ Completes(a) \/ Gives(a) \/ Delivers(a)
<1>1. CASE Launch(a)
  BY <1>1, RequestFailsIsAStep DEF Launch, Polls
<1>2. CASE Writes(a)
  <2>1. ASSUME NEW contents \in {result[CalcOf(a)], "broken"}, actor[a].pc = "submit", call[a] = "store",
               result' = [result EXCEPT ![CalcOf(a)] = contents], Returns(a, "transient")
        PROVE  Gives(a)
    BY <2>1, ReturnsIsAStep DEF Gives
  <2> QED BY <1>2, <2>1 DEF Writes, Completes, Contents
<1>3. CASE Reports(a)
  BY <1>3, ReturnsIsAStep DEF Reports, Delivers
<1>4. CASE TaskFails(a)
  BY <1>4, ReturnsIsAStep DEF TaskFails, Gives
<1>5. CASE PollFails(a)
  BY <1>5, RequestFailsIsAStep DEF PollFails
<1> QED BY <1>1, <1>2, <1>3, <1>4, <1>5 DEF Submission

(* The steps of the whole that are not those of a submission leave its calls to
   their actors, or are the end of the process. *)
LEMMA OtherSteps ==
    ASSUME [ApiNext]_apiVars, ~\E a \in Actors : Submission(a)
    PROVE  \/ UNCHANGED apiVars
           \/ CallsFollow /\ (OtherTasks \/ \E a \in Actors : Acquires(a) \/ Otherwise(a))
           \/ CallsEnd /\ (Crash \/ Exit)
BY DEF ApiNext, TaskRuns, Acquires, Otherwise

(* Every step of the whole is a step of the daemon, or one of the client alone. *)
LEMMA ApiStepsAreSteps == ASSUME [ApiNext]_apiVars PROVE [Next]_vars
<1>1. ASSUME NEW a \in Actors, Submission(a) PROVE [Next]_vars
  BY <1>1, SubmissionSteps DEF Polls, Opens, Completes, Calls, Gives, Delivers, ActorStep, Next
<1>2. ASSUME NEW a \in Actors, Acquires(a) \/ Otherwise(a) PROVE [Next]_vars
  BY <1>2 DEF Acquires, Otherwise, ActorStep, Next
<1>3. CASE OtherTasks \/ Crash \/ Exit
  BY <1>3 DEF OtherTasks, Next
<1>4. CASE UNCHANGED apiVars
  BY <1>4 DEF apiVars
<1> QED BY <1>1, <1>2, <1>3, <1>4, OtherSteps

(* The daemon with the client of the external API is a daemon: launching,
   polling and storing (ReqwestCalcClient::submit) only choose the outcome that
   the calculation actor handles.  Every theorem about Spec holds of ApiSpec. *)
THEOREM ApiImplementsRunsd == ApiSpec => Spec
<1>1. ApiInit => Init
  BY DEF ApiInit
<1>2. [ApiNext]_apiVars => [Next]_vars
  BY ApiStepsAreSteps
<1> QED BY <1>1, <1>2, PTL DEF ApiSpec, Spec

----------------------------------------------------------------------------
(* The invariant                                                           *)

(* An actor that submits goes on while others work. *)
LEMMA SubmitsOn ==
    ASSUME IInv, BInv, OtherTasks \/ (\E b \in Actors : Acquires(b) \/ Otherwise(b)),
           NEW a \in Actors, actor[a].pc = "submit"
    PROVE  actor'[a].pc = "submit"
<1>a. actor \in [Actors -> ActorRec] /\ actor[a] \in ActorRec /\ CalcOf(a) \in Calcs
  BY ActorOwner DEF IInv, ActorsOK
<1>1. ASSUME NEW b \in Actors, Acquires(b) \/ Otherwise(b) PROVE actor'[a].pc = "submit"
  <2>1. actor[b].pc # "submit"
    BY <1>1 DEF Acquires, Otherwise, ActorAcquire, ActorLease, ActorResets, ActorCancelled, ActorGone
  <2>2. actor'[a] = actor[a]
    BY <1>a, <1>1, <2>1 DEF Acquires, Otherwise, ActorAcquire, ActorLease, ActorResets,
       ActorCancelled, ActorGone, Finish
  <2> QED BY <2>2
<1>2. ASSUME NEW S \in SUBSET Calcs, NEW sender, SpawnActors(S, sender),
             CalcOf(a) \in S => CanSpawn(CalcOf(a)) \/ IsFree(a)
      PROVE  actor'[a].pc = "submit"
  <2>1. CalcOf(a) \in S => a # Fresh(CalcOf(a))
    BY <1>a, <1>2, FreshIsFree DEF IsFree
  <2> QED BY <1>a, <1>2, <2>1, SpawnEffect
<1>3. CASE SupSpawnRun
  <2>1. CalcOf(a) \in CalcsOf(sup.run) => IsFree(a)
    BY <1>a, <1>3 DEF SupSpawnRun, CalcsOf, BInv, UnbornIsUnknown, Unborn, Unknown
  <2> QED BY <1>2, <1>3, <2>1 DEF SupSpawnRun, CalcsOf
<1>4. CASE SupReschedule \/ SupRespawn
  <2>1. CASE UNCHANGED actor
    BY <2>1
  <2>2. ASSUME NEW c, SpawnActors({c}, "sup"), CanSpawn(c) PROVE actor'[a].pc = "submit"
    <3>1. c \in Calcs
      BY <2>2, ActorOwner DEF CanSpawn
    <3> QED BY <1>2, <2>2, <3>1
  <2> QED BY <1>4, <2>1, <2>2 DEF SupReschedule, SupRespawn
<1>5. CASE SupCancelCalc \/ SupShutdown
  <2>1. CASE SupCancelCalc
    BY <1>a, <2>1 DEF SupCancelCalc, ActorRec
  <2>2. CASE SupShutdown
    BY <1>a, <2>2 DEF SupShutdown, ActorRec
  <2> QED BY <1>5, <2>1, <2>2
<1>6. CASE UNCHANGED actor
  BY <1>6
<1>7. CASE SupStep
  BY <1>3, <1>4, <1>5, <1>6, <1>7 DEF SupStep, SupSubmit, SupInsert, SupCancelRun, SupRetry
<1>8. CASE Startup
  <2>1. ~Restore
    BY <1>a DEF Restore, BInv, DownIsQuiet, IsFree
  <2> QED BY <1>6, <1>8, <2>1 DEF Startup, BeginSweep, SweepRow
<1>9. ASSUME NEW r \in Runs, RunActorStep(r) PROVE actor'[a].pc = "submit"
  BY <1>a, <1>9, LeaveRunEffect DEF RunActorStep, RunActorStops, RunActorReads, RunActorWrites
<1>10. CASE Request \/ WatchdogStep
  BY <1>6, <1>10 DEF Request, RequestSubmit, RequestCancelRun, RequestCancelCalc, RetryCheck,
     RetrySend, RequestShutdown, WatchdogStep, WatchdogTick, WatchdogCharges, WatchdogLists,
     WatchdogReschedules
<1>11. CASE \/ \E c \in Calcs : RetryFallsDue(c) \/ LeaseRunsOut(c)
            \/ \E b \in Actors : HeartbeatTick(b)
  BY <1>6, <1>11 DEF RetryFallsDue, LeaseRunsOut, HeartbeatTick
<1> QED BY <1>1, <1>7, <1>8, <1>9, <1>10, <1>11 DEF OtherTasks

(* The calls and the results keep their types, and no call outlives its actor's
   submission. *)
LEMMA CallsStayOK == ASSUME ApiInv, [ApiNext]_apiVars PROVE CallsOK'
<1>a. /\ IInv /\ BInv /\ CallsOK
      /\ \A a \in Actors : CalcOf(a) \in Calcs
      /\ actor \in [Actors -> ActorRec]
  BY ActorOwner DEF ApiInv, IInv, ActorsOK
<1>1. ASSUME NEW a \in Actors, Submission(a) PROVE CallsOK'
  <2>1. CASE Polls(a)
    BY <1>a, <2>1 DEF Polls, Calls, vars, CallsOK
  <2>2. CASE Opens(a)
    BY <1>a, <2>2 DEF Opens, Calls, Storing, vars, CallsOK, Contents
  <2>3. CASE Completes(a)
    BY <1>a, <2>3 DEF Completes, Calls, vars, CallsOK
  <2>4. CASE Gives(a) \/ Delivers(a)
    <3>1. \A b \in Actors : b # a => actor'[b] = actor[b]
      BY <1>a, <2>4 DEF Gives, Delivers, ActorExhausts, ActorBacksOff, ActorFails, ActorSucceeds, Finish
    <3>2. result' \in [Calcs -> Contents]
      BY <1>a, <2>4 DEF Gives, Delivers, CallsOK, Contents
    <3>3. call' = [call EXCEPT ![a] = "none"] /\ met' = met \ {a}
      BY <2>4 DEF Gives, Delivers
    <3> QED BY <1>a, <3>1, <3>2, <3>3 DEF CallsOK
  <2> QED BY <1>1, <2>1, <2>2, <2>3, <2>4, SubmissionSteps
<1>2. CASE CallsFollow /\ (OtherTasks \/ \E a \in Actors : Acquires(a) \/ Otherwise(a))
  <2>1. \A a \in Actors : actor[a].pc = "submit" => actor'[a].pc = "submit"
    BY <1>a, <1>2, SubmitsOn
  <2>2. \A a \in Actors : call[a] \in {"store", "stored"} => call'[a] = call[a]
    BY <1>a, <1>2, <2>1 DEF CallsFollow, CallsOK
  <2>3. call' \in [Actors -> {"none", "launch", "poll", "store", "stored"}]
    BY <1>a, <1>2 DEF CallsFollow, CallsOK
  <2>4. \A a \in Actors : call'[a] # "none" => actor'[a].pc = "submit"
    BY <1>2 DEF CallsFollow
  <2>5. UNCHANGED <<result, met>> /\ met \subseteq Actors
    BY <1>a, <1>2 DEF CallsFollow, CallsOK
  <2> QED BY <1>a, <2>2, <2>3, <2>4, <2>5 DEF CallsOK
<1>3. CASE CallsEnd
  BY <1>a, <1>3 DEF CallsEnd, CallsOK
<1>4. CASE UNCHANGED apiVars
  BY <1>a, <1>4 DEF apiVars, vars, CallsOK
<1> QED BY <1>1, <1>2, <1>3, <1>4, OtherSteps

(* Who opens the file while another is at work on it meets it, and who does not is
   alone: what it has written is what it has got. *)
LEMMA StaysAlone == ASSUME ApiInv, [ApiNext]_apiVars PROVE AloneWithFile'
<1>a. /\ IInv /\ BInv /\ CallsOK /\ AloneWithFile
      /\ \A a \in Actors : CalcOf(a) \in Calcs
      /\ call \in [Actors -> {"none", "launch", "poll", "store", "stored"}]
      /\ result \in [Calcs -> Contents]
  BY ActorOwner DEF ApiInv, CallsOK
<1>1. ASSUME NEW a \in Actors, Submission(a) PROVE AloneWithFile'
  <2>1. CASE Polls(a)
    BY <1>a, <2>1 DEF Polls, Calls, AloneWithFile, Storing
  <2>2. CASE Opens(a)
    BY <1>a, <2>2 DEF Opens, Calls, AloneWithFile, Storing
  <2>3. CASE Completes(a)
    BY <1>a, <2>3 DEF Completes, Calls, AloneWithFile, Storing
  <2>4. CASE Gives(a) \/ Delivers(a)
    BY <1>a, <2>4 DEF Gives, Delivers, AloneWithFile, Storing
  <2> QED BY <1>1, <2>1, <2>2, <2>3, <2>4, SubmissionSteps
<1>2. CASE CallsFollow /\ (OtherTasks \/ \E a \in Actors : Acquires(a) \/ Otherwise(a))
  <2>1. \A a \in Actors : call'[a] \in {"store", "stored"} \/ call[a] \in {"store", "stored"}
                             => call'[a] = call[a]
    BY <1>a, <1>2, SubmitsOn DEF CallsFollow, CallsOK
  <2> QED BY <1>a, <1>2, <2>1 DEF CallsFollow, AloneWithFile, Storing
<1>3. CASE CallsEnd
  BY <1>3 DEF CallsEnd, AloneWithFile
<1>4. CASE UNCHANGED apiVars
  BY <1>a, <1>4 DEF apiVars, AloneWithFile, Storing
<1> QED BY <1>1, <1>2, <1>3, <1>4, OtherSteps

(* The inductive invariant of the daemon with its client. *)
THEOREM ApiInvariance == ApiSpec => []ApiInv
<1>1. ApiInit => ApiInv
  BY InitOK, InitBorn DEF ApiInit, ApiInv, CallsOK, AloneWithFile, Contents
<1>2. ApiInv /\ [ApiNext]_apiVars => ApiInv'
  BY CallsStayOK, StaysAlone, ApiStepsAreSteps, NextOK, NextBorn DEF ApiInv
<1> QED BY <1>1, <1>2, PTL DEF ApiSpec

----------------------------------------------------------------------------
(* Results                                                                 *)

(* The actor that ends without success leaves a row that is not succeeded, if the
   database takes what it writes. *)
LEMMA GivesMeans ==
    ASSUME ApiInv, NEW a \in Actors, Gives(a)
    PROVE  /\ row'[CalcOf(a)].status # "succeeded" \/ (UNCHANGED row /\ Spend("dbError"))
           /\ \A c \in Calcs : c # CalcOf(a) => row'[c] = row[c]
<1>a. CalcOf(a) \in Calcs /\ row \in [Calcs -> Row] /\ row[CalcOf(a)] \in Row
  BY ActorOwner DEF ApiInv, IInv, RowsOK
<1>1. CASE Finish(a, "failed")
  BY <1>1, <1>a DEF Finish, Write, Closed, Row
<1>2. CASE ActorBacksOff(a)
  BY <1>2, <1>a DEF ActorBacksOff, Write, Retrying, Row
<1> QED BY <1>1, <1>2 DEF Gives, ActorExhausts, ActorFails

(* Nobody but the actor that delivers a result calls its calculation succeeded. *)
LEMMA OnlyDeliverySucceeds ==
    ASSUME ApiInv, [ApiNext]_apiVars, NEW c \in Calcs,
           ~\E a \in Actors : Submission(a), row'[c].status = "succeeded"
    PROVE  row[c].status = "succeeded"
<1>a. row \in [Calcs -> Row] /\ (\A d \in Calcs : row[d] \in Row) /\ IInv
  BY DEF ApiInv, IInv, RowsOK
<1>1. CASE UNCHANGED row
  BY <1>1
<1>2. ASSUME NEW a \in Actors, Acquires(a) \/ Otherwise(a) PROVE row[c].status = "succeeded"
  <2>1. CalcOf(a) \in Calcs
    BY ActorOwner
  <2>2. CASE ActorLease(a)
    BY <1>a, <2>1, <2>2 DEF ActorLease, Started, Row
  <2>3. CASE ActorResets(a)
    BY <1>a, <2>1, <2>3 DEF ActorResets, Write, ResetPending
  <2>4. CASE ActorCancelled(a)
    BY <1>a, <2>1, <2>4 DEF ActorCancelled, Finish, Write, Closed, Row
  <2> QED BY <1>1, <1>2, <2>2, <2>3, <2>4 DEF Acquires, Otherwise, ActorAcquire, ActorGone
<1>3. ASSUME NEW d \in Calcs, RetryFallsDue(d) \/ LeaseRunsOut(d) PROVE row[c].status = "succeeded"
  BY <1>a, <1>3 DEF RetryFallsDue, LeaseRunsOut, Row
<1>4. ASSUME NEW a \in Actors, HeartbeatTick(a) PROVE row[c].status = "succeeded"
  BY <1>a, <1>4 DEF HeartbeatTick, Heartbeat, Row
<1>5. ASSUME NEW r, NEW n, Charged(r, n).status = "succeeded", r \in Row PROVE FALSE
  BY <1>5 DEF Charged, Closed, Retrying, Row
<1>6. CASE SupStep
  <2>1. CASE SupRetry
    BY <1>a, <2>1 DEF SupRetry, ResetPending
  <2>2. ASSUME NEW d \in Calcs, SupInsert(d) PROVE row[c].status = "succeeded"
    BY <1>a, <2>2 DEF SupInsert, NewRow, NoRow
  <2> QED BY <1>1, <1>6, <2>1, <2>2 DEF SupStep, SupSubmit, SupSpawnRun, SupCancelRun, SupCancelCalc,
             SupReschedule, SupRespawn, SupShutdown
<1>7. CASE WatchdogStep
  <2>1. ASSUME NEW e \in wd.todo, WatchdogCharges(e) PROVE row[c].status = "succeeded"
    BY <1>a, <1>5, <2>1 DEF WatchdogCharges
  <2> QED BY <1>1, <1>7, <2>1 DEF WatchdogStep, WatchdogTick, WatchdogLists, WatchdogReschedules
<1>8. CASE Startup
  <2>1. CASE Restore
    <3>1. UNCHANGED row
      BY <2>1 DEF Restore
    <3> QED BY <1>1, <3>1
  <2> QED BY <1>a, <1>1, <1>5, <1>8, <2>1 DEF Startup, BeginSweep, SweepRow
<1>9. CASE \/ Request \/ Crash \/ Exit \/ \E r \in Runs : RunActorStep(r)
  BY <1>1, <1>9 DEF Request, RequestSubmit, RequestCancelRun, RequestCancelCalc, RetryCheck,
     RetrySend, RequestShutdown, Crash, Exit, LoseMemory, RunActorStep, RunActorStops,
     RunActorReads, RunActorWrites
<1>10. CASE UNCHANGED apiVars
  BY <1>1, <1>10 DEF apiVars, vars
<1> QED BY <1>2, <1>3, <1>4, <1>6, <1>7, <1>8, <1>9, <1>10, OtherSteps DEF OtherTasks

(* Of a calculation whose result no two actors write at once, a step that is not the
   end of the process keeps what HasResult promises. *)
LEMMA ResultStays ==
    ASSUME ApiInv, DatabaseWorks, [ApiNext]_apiVars, ~LoseMemory, NEW c \in Calcs, HasResult(c),
           ~\E a \in met : CalcOf(a) = c
    PROVE  HasResult(c)'
<1> SUFFICES ASSUME row'[c].status = "succeeded"
             PROVE  result'[c] = "whole" \/ \E a \in Actors : CalcOf(a) = c /\ call'[a] = "store"
  BY DEF HasResult
<1>a. /\ IInv /\ BInv /\ AloneWithFile /\ ~Spend("dbError")
      /\ call \in [Actors -> {"none", "launch", "poll", "store", "stored"}]
      /\ result \in [Calcs -> Contents]
      /\ \A a \in Actors : CalcOf(a) \in Calcs /\ (call[a] # "none" => actor[a].pc = "submit")
  BY ActorOwner, NoDbError DEF ApiInv, CallsOK
<1>b. ASSUME row[c].status = "succeeded"
      PROVE  result[c] = "whole" \/ \E a \in Actors : CalcOf(a) = c /\ call[a] = "store"
  BY <1>b DEF HasResult
<1>1. ASSUME NEW a \in Actors, Submission(a)
      PROVE  result'[c] = "whole" \/ \E b \in Actors : CalcOf(b) = c /\ call'[b] = "store"
  <2>0. CalcOf(a) = c => a \notin met
    OBVIOUS
  <2>1. CASE Polls(a)
    BY <1>a, <1>b, <2>1 DEF Polls, Calls, vars
  <2>2. CASE Opens(a)
    <3>1. CASE CalcOf(a) = c
      BY <1>a, <2>2, <3>1 DEF Opens, Calls
    <3>2. CASE CalcOf(a) # c
      BY <1>a, <1>b, <2>2, <3>2 DEF Opens, Calls, vars
    <3> QED BY <3>1, <3>2
  <2>3. CASE Completes(a)
    <3>1. CASE CalcOf(a) = c
      BY <1>a, <2>0, <2>3, <3>1 DEF Completes, Calls, AloneWithFile
    <3>2. CASE CalcOf(a) # c
      BY <1>a, <1>b, <2>3, <3>2 DEF Completes, Calls, vars
    <3> QED BY <3>1, <3>2
  <2>4. CASE Gives(a)
    <3>1. CalcOf(a) # c /\ row'[c] = row[c]
      BY <1>a, <2>4, GivesMeans
    <3> QED BY <1>a, <1>b, <2>4, <3>1 DEF Gives
  <2>5. CASE Delivers(a)
    <3>1. CASE CalcOf(a) = c
      BY <1>a, <2>0, <2>5, <3>1 DEF Delivers, AloneWithFile
    <3>2. CASE CalcOf(a) # c
      <4>1. row'[c] = row[c]
        BY <1>a, <2>5, <3>2 DEF Delivers, ActorSucceeds, Finish, Write, IInv, RowsOK
      <4> QED BY <1>a, <1>b, <2>5, <3>2, <4>1 DEF Delivers
    <3> QED BY <3>1, <3>2
  <2> QED BY <1>1, <2>1, <2>2, <2>3, <2>4, <2>5, SubmissionSteps
<1>2. CASE ~\E a \in Actors : Submission(a)
  <2>1. row[c].status = "succeeded"
    BY <1>2, OnlyDeliverySucceeds
  <2>2. CASE CallsFollow /\ (OtherTasks \/ \E a \in Actors : Acquires(a) \/ Otherwise(a))
    <3>1. \A a \in Actors : call[a] = "store" => call'[a] = "store"
      BY <1>a, <2>2, SubmitsOn DEF CallsFollow
    <3> QED BY <1>b, <2>1, <2>2, <3>1 DEF CallsFollow
  <2>3. CASE UNCHANGED apiVars
    BY <1>b, <2>1, <2>3 DEF apiVars
  <2>4. ~Crash /\ ~Exit
    BY DEF Crash, Exit
  <2> QED BY <1>2, <2>2, <2>3, <2>4, OtherSteps
<1> QED BY <1>1, <1>2

(* Of all the things that can happen to a submission, two alone can cost a succeeded
   calculation its result: the end of the process, and a second actor between the
   opening of the file and the report of its success while the first is there too
   (ReqwestCalcClient::submit).  A second actor that comes later empties the file,
   but until it writes its own result, or fails and takes the success back, it is
   about to.  If the database works, that is: when it throws away what the second
   actor comes to, the first one's success stays behind. *)
THEOREM ResultsDieWithTheProcess ==
    ASSUME DatabaseWorks
    PROVE  ApiSpec => ResultsKept
<1>1. ASSUME ApiInv, [ApiNext]_apiVars
      PROVE  [\A c \in Calcs : HasResult(c) /\ ~HasResult(c)'
                                 => LoseMemory \/ \E a \in met : CalcOf(a) = c]_apiVars
  BY <1>1, ResultStays
<1> QED BY <1>1, ApiInvariance, PTL DEF ApiSpec, ResultsKept

ResultsInOrder == met = {} /\ SucceededHasResult

LEMMA InOrderStays ==
    ASSUME ApiInv, SubmittedAlone, ResultsInOrder, [ApiNext]_apiVars
    PROVE  ResultsInOrder'
<1>a. /\ AloneWithFile /\ met = {} /\ SubmittedAlone
      /\ call \in [Actors -> {"none", "launch", "poll", "store", "stored"}]
      /\ result \in [Calcs -> Contents]
      /\ \A a \in Actors : CalcOf(a) \in Calcs /\ (call[a] # "none" => actor[a].pc = "submit")
      /\ \A c \in Calcs : row[c].status = "succeeded" => result[c] = "whole"
  BY ActorOwner DEF ApiInv, CallsOK, ResultsInOrder, SucceededHasResult
<1>1. met' = {}
  <2>1. ASSUME NEW a \in Actors, Opens(a) PROVE Storing(CalcOf(a)) = {}
    BY <1>a, <2>1 DEF Opens, Calls, Storing, SubmittedAlone
  <2>2. ASSUME NEW a \in Actors, Submission(a) PROVE met' = {}
    BY <1>a, <2>1, <2>2, SubmissionSteps DEF Polls, Opens, Completes, Gives, Delivers
  <2> QED BY <1>a, <2>2, OtherSteps DEF apiVars, CallsFollow, CallsEnd
<1>2. ASSUME NEW c \in Calcs, row'[c].status = "succeeded" PROVE result'[c] = "whole"
  <2>1. ASSUME NEW a \in Actors, Submission(a), CalcOf(a) = c PROVE result'[c] = "whole"
    <3>1. actor[a].pc = "submit" /\ row[c].status # "succeeded"
      BY <1>a, <2>1 DEF Submission, Launch, RequestFails, Opens, Writes, Reports, TaskFails,
         PollFails, Calls, SubmittedAlone
    <3>2. ~Polls(a) /\ ~Opens(a) /\ ~Completes(a)
      BY <1>2, <3>1 DEF Polls, Opens, Completes, Calls, vars
    <3>3. ~Gives(a)
      BY <1>2, <2>1, <3>1, GivesMeans
    <3>4. Delivers(a)
      BY <2>1, <3>2, <3>3, SubmissionSteps
    <3> QED BY <1>a, <2>1, <3>4 DEF Delivers, AloneWithFile
  <2>2. ASSUME NEW a \in Actors, Submission(a), CalcOf(a) # c PROVE result'[c] = "whole"
    <3>1. UNCHANGED vars \/ Gives(a) \/ Delivers(a)
      BY <2>2, SubmissionSteps DEF Polls, Opens, Completes, Calls
    <3>2. row'[c] = row[c]
      <4>1. CASE Delivers(a)
        BY <1>a, <2>2, <4>1 DEF Delivers, ActorSucceeds, Finish, Write, ApiInv, IInv, RowsOK
      <4> QED BY <2>2, <3>1, <4>1, GivesMeans DEF vars
    <3>3. result'[c] = result[c]
      BY <1>a, <2>2, SubmissionSteps DEF Polls, Opens, Completes, Gives, Delivers
    <3> QED BY <1>2, <1>a, <3>2, <3>3
  <2>3. CASE ~\E a \in Actors : Submission(a)
    <3>1. row[c].status = "succeeded"
      BY <1>2, <2>3, OnlyDeliverySucceeds
    <3>2. \A a \in Actors : CalcOf(a) = c => call[a] # "store"
      BY <1>a, <3>1 DEF SubmittedAlone
    <3>3. result'[c] = result[c]
      BY <1>a, <2>3, <3>2, OtherSteps DEF apiVars, CallsFollow, CallsEnd
    <3> QED BY <1>a, <3>1, <3>3
  <2> QED BY <2>1, <2>2, <2>3
<1> QED BY <1>1, <1>2 DEF ResultsInOrder, SucceededHasResult

(* A calculation that succeeded has its result as long as its submissions are alone:
   no two of one calculation at once, and none of a calculation that has succeeded.
   Faults, cancellations and crashes do no harm by themselves
   (ReqwestCalcClient::submit reports success after its file is complete). *)
THEOREM SucceededHaveResults == ApiSpec => AloneHasResult
<1>1. ApiInit => ResultsInOrder
  BY DEF ApiInit, Init, ResultsInOrder, SucceededHasResult, NoRow
<1>2. ApiInv /\ SubmittedAlone /\ ResultsInOrder /\ [ApiNext]_apiVars => ResultsInOrder'
  BY InOrderStays
<1>3. ResultsInOrder => SucceededHasResult
  BY DEF ResultsInOrder
<1> QED BY <1>1, <1>2, <1>3, ApiInvariance, PTL DEF ApiSpec, AloneHasResult

(* Without faults the submissions of a calculation are alone while its retries are
   apart, however users cancel, and then no success is without its result. *)
THEOREM RetriesKeepResults ==
    ASSUME NoFaults
    PROVE  ApiSpec /\ []RetriesApart => []SucceededHasResult
<1>1. UInv => SubmittedAlone
  BY DEF UInv, OneActor, RowFollows, SubmittedAlone
<1> QED BY <1>1, ApiImplementsRunsd, UsersInvariance, SucceededHaveResults, PTL DEF AloneHasResult

(* In particular when there is one retry in all. *)
THEOREM OneRetryKeepsResults ==
    ASSUME NoFaults, Limits["retry"] <= 1
    PROVE  ApiSpec => []SucceededHasResult
BY ApiImplementsRunsd, OneRetryIsApart, RetriesKeepResults, PTL
=============================================================================
