-------------------------- MODULE RunsdProperties --------------------------
(***************************************************************************)
(* What the daemon promises: the type invariant, safety invariants, action *)
(* properties and, under the fairness of its scheduler, liveness.          *)
(***************************************************************************)
EXTENDS Runsd

(* Every variable has its type. *)
TypeOK ==
    /\ row \in [Calcs -> Row]
    /\ runStatus \in [Runs -> RunStatus \cup {"absent"}]
    /\ actor \in [Actors -> ActorRec]
    /\ beat \in [Actors -> {"off", "on", "late"}]
    /\ runActor \in [Runs -> RunActorRec]
    /\ sup \in [pc : {"recv", "stopped"}] \cup [pc : {"insert"}, run : Runs]
                 \cup [pc : {"respawn"}, calc : Calcs]
    /\ mailbox \in Seq(Command)
    /\ retryOk \in [Calcs -> Nat]
    /\ wd \in [pc : {"sleep", "expired", "ready"}, todo : SUBSET [calc : Calcs, attempt : Nat]]
    /\ daemon \in [pc : {"down", "sweep", "up"}, todo : SUBSET Calcs]
    /\ spent \in [Kinds -> Nat]

----------------------------------------------------------------------------
(* Safety                                                                  *)

(* A running row has a lease and a retrying row a time to retry at, whatever
   the order in which the actors, late heartbeats, the watchdog, the supervisor
   and the sweep write it: these are the rows the watchdog's queries can find,
   so no calculation is left in these two statuses unseen. *)
WatchdogCanSee ==
    \A c \in Calcs :
        /\ row[c].status = "running"  => row[c].lease # "none"
        /\ row[c].status = "retrying" => row[c].nextAt # "none"

(* No writer charges a calculation beyond max_attempts, although each adds one
   to an attempt it read earlier, and the actor to a counter of its own. *)
AttemptsBounded ==
    /\ \A c \in Calcs : row[c].attempt <= MaxAttempts
    /\ \A a \in Actors : actor[a].attempt <= MaxAttempts

(* A pending calculation has all its attempts before it. *)
PendingIsFresh == \A c \in Calcs : row[c].status = "pending" => row[c].attempt = 0

\* Somebody will still take the calculation from pending to running.
WillStart(c) ==
    \/ \E a \in Actors : /\ CalcOf(a) = c
                         /\ actor[a].pc = "lease" \/ (actor[a].pc = "recv" /\ actor[a].start)
    \/ sup.pc = "respawn" /\ sup.calc = c
    \/ sup.pc = "insert" /\ sup.run = RunOf[c]

(* While the daemon is up every pending calculation is one that an actor will
   start, also after a crash, a cancellation, a retry or the loss of a
   reschedule: the watchdog never looks at pending rows. *)
NoOrphanPending ==
    daemon.pc = "up" => \A c \in Calcs : row[c].status = "pending" => WillStart(c)

(* Two actors never hold the lease of one calculation or submit it at once. *)
SingleRunner ==
    \A a, b \in Actors :
        /\ CalcOf(a) = CalcOf(b)
        /\ {actor[a].pc, actor[b].pc} \subseteq {"lease", "submit"}
        => a = b

(* A run shown as settled is settled, with the status its calculations give. *)
SettledRunIsRight ==
    \A r \in Runs : runStatus[r] \in SettledRun => runStatus[r] = DeriveRunStatus(StatusesOf(r))

(* The run actor counts a calculation once: the notifications it has received
   or has yet to receive, and its live calculation actors, add up. *)
RunActorCounts ==
    \A r \in Runs :
        runActor[r].pc # "off" =>
            runActor[r].left = runActor[r].notes
                                 + Cardinality({a \in ActorsOf(r) : actor[a].sender = "run"})

----------------------------------------------------------------------------
(* Action properties                                                       *)

(* A finished calculation changes again only when a user retries it. *)
TerminalIsFinal ==
    [][\A c \in Calcs :
         row[c].status \in TerminalCalc /\ row'[c].status # row[c].status
         => Receives("retry") /\ sup'.pc = "respawn"]_vars

(* Only a calculation that is failed when the retry takes effect is reset
   ("only calculations in 'failed' status can be retried", api/handlers.rs). *)
RetryOnlyFailed ==
    [][sup.pc = "recv" /\ sup'.pc = "respawn" => row[sup'.calc].status = "failed"]_vars

(* A calculation whose actor is told to cancel while it still waits for a permit
   does not start ("Cancel all pending/running calculations in a run.",
   api/graphql.rs). *)
CancelledDoesNotStart ==
    [][\A a \in Actors :
         actor[a].pc = "recv" /\ actor[a].cancel => actor'[a].pc # "lease"]_vars

----------------------------------------------------------------------------
(* Liveness                                                                *)

\* Every task is scheduled, and a submission to the external API is answered.
\* Permits are handed out in the order they are asked for, so whoever can take
\* one again and again will: strong fairness.  Time passes whenever the watchdog
\* sleeps.  Users owe nothing; a retry whose check has passed is sent.
Fairness ==
    /\ \A a \in Actors : /\ WF_vars(ActorStep(a)) /\ SF_vars(ActorAcquire(a))
                         /\ WF_vars(beat[a] = "late" /\ HeartbeatTick(a))
    /\ \A r \in Runs : WF_vars(RunActorStep(r))
    /\ WF_vars(SupStep) /\ WF_vars(WatchdogStep) /\ WF_vars(Startup) /\ WF_vars(Exit)
    /\ \A c \in Calcs : /\ SF_vars(RetryFallsDue(c))
                        /\ SF_vars(~HasHeartbeat(c) /\ LeaseRunsOut(c))
                        /\ WF_vars(RetrySend(c))

FairSpec == Spec /\ Fairness

(* Every calculation that was inserted ends, crashes and restarts of the daemon
   included: it succeeds, fails or is cancelled. *)
CalcsFinish ==
    \A c \in Calcs : row[c].status \in ActiveCalc ~> row[c].status \in TerminalCalc

(* "runsd will retry ... up to retry.max_attempts times" (docs/external-api.md):
   a calculation that is to be retried is, until it ends. *)
RetriesFinish ==
    \A c \in Calcs : row[c].status = "retrying" ~> row[c].status \in TerminalCalc

(* Whoever waits for a permit gets one or is gone: a permit comes back from
   every outcome, every error and every backoff. *)
NoStarvation ==
    \A a \in Actors : (actor[a].pc = "recv" /\ actor[a].start) ~> ~actor[a].start

(* The status of a run ends up as the one its calculations give, however the
   refresh's two database commands interleave with the other actors'. *)
RunStatusCatchesUp ==
    \A r \in Runs : <>[](runStatus[r] \in {"absent", DeriveRunStatus(StatusesOf(r))})

----------------------------------------------------------------------------
(* Refinement                                                              *)

Lifecycle == INSTANCE CalcLifecycle
             WITH status <- [c \in Calcs |-> row[c].status], shown <- runStatus

(* Without faults, cancellations and retries the daemon implements
   CalcLifecycle: no client ever sees a calculation skip a status or leave a
   final one, nor a run settled before its calculations or with another status
   than theirs, or settled twice, although actors, run actor and supervisor
   write these columns one command at a time. *)
ImplementsLifecycle == Lifecycle!Spec
=============================================================================
