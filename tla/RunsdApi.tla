------------------------------ MODULE RunsdApi ------------------------------
(***************************************************************************)
(* Runsd with the client of the external API in place of the outcome it    *)
(* chooses: ReqwestCalcClient::submit (actor/calc.rs) launches a task,     *)
(* polls its status until it is a final one, and stores the result before  *)
(* it reports success.  A calculation actor waits inside this call.        *)
(***************************************************************************)
EXTENDS RunsdProperties

VARIABLES
    call,     \* per actor: "none", "launch", "poll", "store" or "stored"
    result,   \* per calculation: what is in results/<id>/result.json
    met       \* the actors that store a result while another of theirs does

apiVars == <<vars, call, result, met>>

\* "empty" stands for no file as well; "broken" is what
\* several actors that write at once may leave, or one that does not finish.
Contents == {"empty", "whole", "broken"}

\* How a request can go wrong: it is not answered in request_timeout_s or not at
\* all, answered with some status, or with a body that is not JSON.
Failure == {"no_answer", "408", "429", "5xx", "other_status", "bad_body"}

IsTransient(failure) == failure # "other_status"

\* submit returns: the actor handles the outcome at once.
Returns(a, outcome) ==
    /\ call' = [call EXCEPT ![a] = "none"] /\ met' = met \ {a}
    /\ CASE outcome = "transient" -> ActorExhausts(a) \/ ActorBacksOff(a)
         [] outcome = "permanent" -> ActorFails(a)
         [] outcome = "succeeded" -> ActorSucceeds(a)

RequestFails(a) ==
    /\ \E failure \in Failure : Returns(a, IF IsTransient(failure) THEN "transient" ELSE "permanent")
    /\ UNCHANGED result

Calls(a, from, to) ==
    /\ actor[a].pc = "submit" /\ call[a] = from
    /\ call' = [call EXCEPT ![a] = to]
    /\ UNCHANGED vars

\* Phase 1.  A 2xx answer without a task id counts: the empty id is polled.
Launch(a) ==
    \/ actor[a].pc = "submit" /\ call[a] = "launch" /\ RequestFails(a)
    \/ Calls(a, "launch", "poll") /\ UNCHANGED <<result, met>>

\* Between the opening of the file and the report of its success.
Storing(c) == {a \in Actors : CalcOf(a) = c /\ call[a] \in {"store", "stored"}}

\* The task is complete: tokio::fs::write opens the file, which empties it, also if
\* another actor is half way through writing to it.  If that fails the outcome is
\* transient, as in PollFails.
Opens(a) ==
    LET c == CalcOf(a) IN
    /\ Calls(a, "poll", "store")
    /\ result' = [result EXCEPT ![c] =
          IF \E b \in Storing(c) : call[b] = "store" THEN "broken" ELSE "empty"]
    /\ met' = IF Storing(c) = {} THEN met ELSE met \cup Storing(c) \cup {a}

\* Mutant of Writes: an error of the write is ignored, like one of create_dir_all.
WritesAnyway(a) ==
    /\ Calls(a, "store", "stored")
    /\ \E contents \in {"whole", "broken"} : result' = [result EXCEPT ![CalcOf(a)] = contents]
    /\ UNCHANGED met

\* The answer is written from the beginning of the file.  If another actor writes to
\* it as well, the end of a longer answer may stay, or a hole.  If the write fails,
\* perhaps half way, the outcome is transient.
Writes(a) ==
    LET c == CalcOf(a) IN
    \/ /\ Calls(a, "store", "stored")
       /\ \E contents \in IF result[c] = "empty" THEN {"whole"} ELSE {"whole", "broken"} :
             result' = [result EXCEPT ![c] = contents]
       /\ UNCHANGED met
    \/ /\ actor[a].pc = "submit" /\ call[a] = "store"
       /\ \E contents \in {result[c], "broken"} : result' = [result EXCEPT ![c] = contents]
       /\ Returns(a, "transient")

\* Other actors have run since the write.
Reports(a) ==
    /\ actor[a].pc = "submit" /\ call[a] = "stored"
    /\ Returns(a, "succeeded") /\ UNCHANGED result

TaskFails(a) ==
    /\ actor[a].pc = "submit" /\ call[a] = "poll"
    /\ Returns(a, "permanent") /\ UNCHANGED result

PollFails(a) ==
    /\ actor[a].pc = "submit" /\ call[a] = "poll"
    /\ RequestFails(a)

\* Any other status, or none, is polled again: nothing changes, however often.
TaskRuns(a) ==
    /\ actor[a].pc = "submit" /\ call[a] = "poll"
    /\ UNCHANGED apiVars

Submission(a) ==
    Launch(a) \/ Opens(a) \/ Writes(a) \/ Reports(a) \/ TaskFails(a) \/ PollFails(a)

\* A call begins when an actor holds its lease, and ends with its actor.
CallsFollow ==
    /\ call' = [a \in Actors |-> IF actor'[a].pc # "submit" THEN "none"
                                 ELSE IF actor[a].pc # "submit" THEN "launch" ELSE call[a]]
    /\ UNCHANGED <<result, met>>

\* With the process all calls end; a write under way is finished, cut off or not
\* begun.
CallsEnd ==
    /\ call' = [a \in Actors |-> "none"] /\ met' = {}
    /\ \E left \in [Calcs -> Contents] :
          result' = [c \in Calcs |-> IF \E a \in Actors : CalcOf(a) = c /\ call[a] = "store"
                                    THEN left[c] ELSE result[c]]

\* The steps of an actor that are not the end of a submission.
Otherwise(a) ==
    (ActorLease(a) \/ ActorResets(a) \/ ActorCancelled(a) \/ ActorGone(a)) /\ CallsFollow

Acquires(a) == ActorAcquire(a) /\ CallsFollow

OtherTasks ==
    \/ \E c \in Calcs : RetryFallsDue(c) \/ LeaseRunsOut(c)
    \/ \E a \in Actors : HeartbeatTick(a)
    \/ \E r \in Runs : RunActorStep(r)
    \/ SupStep \/ Request \/ WatchdogStep \/ Startup

ApiInit ==
    /\ Init
    /\ call = [a \in Actors |-> "none"]
    /\ result = [c \in Calcs |-> "empty"]
    /\ met = {}

ApiNext ==
    \/ \E a \in Actors : Submission(a) \/ TaskRuns(a) \/ Acquires(a) \/ Otherwise(a)
    \/ OtherTasks /\ CallsFollow
    \/ (Crash \/ Exit) /\ CallsEnd

ApiSpec == ApiInit /\ [][ApiNext]_apiVars

----------------------------------------------------------------------------

\* No two actors submit one calculation at once, nor one that has succeeded.
SubmittedAlone ==
    /\ \A a, b \in Actors :
          CalcOf(a) = CalcOf(b) /\ actor[a].pc = "submit" /\ actor[b].pc = "submit" => a = b
    /\ \A a \in Actors : actor[a].pc = "submit" => row[CalcOf(a)].status # "succeeded"

\* What GET /calculations/{id}/result then returns is the whole answer.
SucceededHasResult ==
    \A c \in Calcs : row[c].status = "succeeded" => result[c] = "whole"

(* A calculation that succeeded has its whole result in the file ("On success the
   raw response body is stored", docs/external-api.md) whatever fails, is cut off or
   crashes, as long as its submissions are alone: it is two actors side by side
   that a file without a lock cannot bear. *)
AloneHasResult == []SubmittedAlone => []SucceededHasResult

\* The result of a calculation that succeeded is on disk, or about to be.
HasResult(c) ==
    row[c].status = "succeeded" =>
        result[c] = "whole" \/ \E a \in Actors : CalcOf(a) = c /\ call[a] = "store"

(* A calculation that the database calls succeeded has its result on disk, or
   another actor of it is about to store one.  This survives a second actor that
   empties the file after the success of the first, its errors, its failure to
   write, cancellations, retries and lost leases.  It ends only with the process, or
   when two actors stored at once: each between its opening of the file and its
   report. *)
ResultsKept ==
    [][\A c \in Calcs :
         HasResult(c) /\ ~HasResult(c)' => LoseMemory \/ \E a \in met : CalcOf(a) = c]_apiVars
=============================================================================
