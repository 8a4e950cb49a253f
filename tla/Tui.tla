--------------------------------- MODULE Tui ---------------------------------
(***************************************************************************)
(* The TUI at run time: the main loop, which takes messages and keys from  *)
(* one channel, updates the state and then sends the effects one by one;   *)
(* the input task; the network task, which takes the commands, talks to    *)
(* the daemon and sends answers; the event task; directory imports; and    *)
(* the runs of the daemon.  Both channels are bounded and every send waits *)
(* for room.                                                               *)
(***************************************************************************)
EXTENDS TuiState

CONSTANTS
    Created,       \* created_at of each run
    CalcCount,     \* how many calculations each run has
    InitialRuns,   \* what may have been submitted before the TUI starts: sets of runs
    PageSize,      \* page_size of the first page
    MoreSize,      \* limit of the next pages: 100
    AppCap,        \* capacity of app_tx: 256
    NetCap,        \* capacity of net_tx: 32
    Decodes,       \* whether the event task can decode the frames it reads
    Counts,        \* count prefixes
    Commands,      \* commands that may be typed
    ImportFiles,   \* bound: files of an import
    MaxKeys,       \* bound: keys pressed
    MaxSurprises   \* bound: changes of the daemon's runs and failed requests together

\* What execute_command tells apart; "unknown" is anything else.
TypedCommand ==
    [op : {"unknown", "quit", "refresh", "import", "submit"}]
    \cup [op : {"search"}, matches : SUBSET Runs] \cup [op : {"filter"}, status : STRING]

ASSUME TuiAssumption ==
    /\ Created \in [Runs -> Nat] /\ CalcCount \in [Runs -> Nat]
    /\ InitialRuns \subseteq SUBSET Runs /\ IsFiniteSet(Runs)
    /\ {PageSize, MoreSize, AppCap, NetCap} \subseteq Nat \ {0}
    /\ Decodes \in BOOLEAN /\ Counts \subseteq Nat \ {0} /\ Commands \subseteq TypedCommand
    /\ {ImportFiles, MaxKeys, MaxSurprises} \subseteq Nat

VARIABLES
    app,      \* struct App
    todo,     \* effects the main loop has still to send
    appq,     \* app_tx: messages to the main loop
    netq,     \* net_tx: commands to the network task
    net,      \* the network task: "start", "idle" or "answer" with a message
    import,   \* messages that the running import has still to send
    stream,   \* events on their way to the event task
    link,     \* the event task: "off", "lost", "connecting", "found" or "live"
    server,   \* the statuses of the calculations of each run; <<>> if not submitted
    base,     \* the runs there were when the list was last loaded
    mixed,    \* a page asked for before that load was still to come
    lost,     \* a page could not be loaded since
    spent     \* keys, changes and failures so far

tuiVars == <<app, todo, appq, netq, net, import, stream, link, server, base, mixed, lost, spent>>

ghosts == <<base, mixed, lost>>

PressKey ==
    /\ spent.keys < MaxKeys
    /\ spent' = [spent EXCEPT !.keys = @ + 1]

Surprise(kind) ==
    /\ spent.changes + spent.failures < MaxSurprises
    /\ spent' = [spent EXCEPT ![kind] = @ + 1]

----------------------------------------------------------------------------
(* The daemon                                                              *)

Submitted == {r \in Runs : server[r] # <<>>}

Snapshot(r) ==
    [id |-> r, status |-> DeriveRunStatus({server[r][k] : k \in DOMAIN server[r]}),
     calcs |-> [k \in DOMAIN server[r] |->
                   [status |-> server[r][k], result |-> server[r][k] = "succeeded"]]]

\* Mutant of Older: runs created in the same millisecond are left out.
OlderByTime(r, cursor) == Created[r] < Created[cursor]

\* list_runs is ordered by created_at and id, the newest first.
Older(r, cursor) ==
    Created[r] < Created[cursor] \/ (Created[r] = Created[cursor] /\ r < cursor)

\* The runs after the cursor, limit of them at most.
PageIds(cursor, limit) ==
    LET after == {r \in Submitted : cursor = None \/ Older(r, cursor)}
        newest == Ordered(after, LAMBDA r, q : Older(q, r))
    IN [k \in 1..Lesser(limit, Cardinality(after)) |-> newest[k]]

ListRuns(type, cursor, limit) ==
    LET ids == PageIds(cursor, limit)
    IN [type |-> type, runs |-> [k \in DOMAIN ids |-> Snapshot(ids[k])],
        next |-> IF Len(ids) = limit THEN ids[limit] ELSE None,
        known |-> Submitted]

\* A run may be submitted at any time, by anybody; created_at grows.
ServerSubmits ==
    /\ Surprise("changes")
    /\ \E r \in Runs \ Submitted :
          /\ \A q \in Submitted : Created[q] <= Created[r]
          /\ server' = [server EXCEPT ![r] = [k \in 1..CalcCount[r] |-> "running"]]
    /\ UNCHANGED <<app, todo, appq, netq, net, import, stream, link, ghosts>>

\* A calculation ends, or is retried; the event of it is sent.
ServerChanges ==
    /\ Surprise("changes")
    /\ \E r \in Submitted, to \in {"running", "failed", "succeeded"} : \E k \in DOMAIN server[r] :
          /\ <<server[r][k], to>> \in {<<"running", "failed">>, <<"running", "succeeded">>,
                                       <<"failed", "running">>}
          /\ server' = [server EXCEPT ![r][k] = to]
          /\ stream' = Append(stream, [type |-> "calcChanged", calc |-> <<r, k>>, to |-> to])
    /\ UNCHANGED <<app, todo, appq, netq, net, import, link, ghosts>>

----------------------------------------------------------------------------
(* The channel to the main loop, and the tasks that only send into it      *)

\* Mutant of Delivers: the channel has no bound.
DeliversUnbounded(message) == appq' = Append(appq, message)

Delivers(message) ==
    /\ Len(appq) < AppCap
    /\ appq' = Append(appq, message)

\* For the status bar only, or nothing at all: CmdOk, CmdErr, ImportProgress,
\* SseDisconnected, SseReconnected, Resize.
Text == [type |-> "text"]

\* The input task.  Which key it was is told when it is handled.
InputSends ==
    /\ \/ PressKey /\ Delivers([type |-> "key"])
       \/ Delivers(Text) /\ UNCHANGED spent
    /\ UNCHANGED <<app, todo, netq, net, import, stream, link, server, ghosts>>

\* Before it connects the event task reports that it is not connected, then that
\* it is.
LinkReports ==
    /\ \/ link = "lost" /\ link' = "connecting"
       \/ link = "found" /\ link' = "live"
    /\ Delivers(Text)
    /\ UNCHANGED <<app, todo, netq, net, import, stream, server, ghosts, spent>>

\* It connects, or fails to, or the connection ends; what comes meanwhile is
\* replayed later.
LinkChanges ==
    /\ \/ link = "connecting" /\ link' \in {"found", "lost"}
       \/ link = "live" /\ link' = "lost"
    /\ UNCHANGED <<app, todo, appq, netq, net, import, stream, server, ghosts, spent>>

\* A frame that cannot be decoded is passed over.
EventArrives ==
    /\ link = "live" /\ stream # <<>>
    /\ stream' = Tail(stream)
    /\ IF Decodes THEN Delivers(Head(stream)) ELSE UNCHANGED appq
    /\ UNCHANGED <<app, todo, netq, net, import, link, server, ghosts, spent>>

\* The runs that a directory import submits are submissions like any other.
ImportReports ==
    /\ import > 0
    /\ Delivers(Text)
    /\ import' = import - 1
    /\ UNCHANGED <<app, todo, netq, net, stream, link, server, ghosts, spent>>

----------------------------------------------------------------------------
(* The network task                                                        *)

Answers(message) == net' = [pc |-> "answer", message |-> message]

\* get_json: whatever goes wrong, an error status or a body that does not parse
\* included, is only reported.
Gets(answer) ==
    \/ Answers(answer) /\ UNCHANGED spent
    \/ Answers(Text) /\ Surprise("failures")

\* The initial fetch.
NetStarts ==
    /\ net.pc = "start"
    /\ Gets(ListRuns("runsLoaded", None, PageSize))
    /\ UNCHANGED <<app, todo, appq, netq, import, stream, link, server, ghosts>>

NetTakes(op) ==
    /\ net.pc = "idle" /\ netq # <<>> /\ Head(netq).op = op
    /\ netq' = Tail(netq)
    /\ UNCHANGED <<app, todo, appq, stream, link, server, base, mixed>>

NetRefreshes ==
    /\ NetTakes("refresh")
    /\ Gets(ListRuns("runsLoaded", None, PageSize))
    /\ UNCHANGED <<import, lost>>

\* If it fails the cursor is gone: update has taken it out of the state.
NetLoadsMore ==
    /\ NetTakes("loadMore")
    /\ Gets(ListRuns("moreLoaded", Head(netq).cursor, MoreSize))
    /\ lost' = (lost \/ net'.message = Text)
    /\ UNCHANGED import

\* An import reports its start, every file and its end, or that there are no files.
NetImports ==
    /\ NetTakes("import")
    /\ \E files \in 0..ImportFiles : import' = import + (IF files = 0 THEN 1 ELSE files + 2)
    /\ UNCHANGED <<net, lost, spent>>

\* handle_cmd: what the daemon makes of the request is up to it; done or not,
\* it is only reported in the status bar.
NetPosts ==
    /\ \E op \in {"submit", "cancelRun", "cancelCalc", "retryCalc"} : NetTakes(op)
    /\ Answers(Text)
    /\ UNCHANGED <<import, lost, spent>>

\* After the initial fetch the event task is started.
NetSends ==
    /\ net.pc = "answer"
    /\ Delivers(net.message)
    /\ net' = [pc |-> "idle"]
    /\ link' = IF link = "off" THEN "lost" ELSE link
    /\ UNCHANGED <<app, todo, netq, import, stream, server, ghosts, spent>>

NetStep ==
    \/ NetStarts \/ NetRefreshes \/ NetLoadsMore \/ NetImports \/ NetPosts \/ NetSends

----------------------------------------------------------------------------
(* The main loop                                                           *)

\* Effects are sent before the next message is looked at.
Updates(next, effects) ==
    /\ app' = next
    /\ todo' = effects
    /\ UNCHANGED <<net, netq, import, stream, link, server>>

Receives(type) ==
    /\ todo = <<>> /\ appq # <<>> /\ Head(appq).type = type
    /\ appq' = Tail(appq)
    /\ UNCHANGED spent

PagesToCome ==
    \/ \E k \in DOMAIN netq : netq[k].op = "loadMore"
    \/ net.pc = "answer" /\ net.message.type = "moreLoaded"
    \/ \E k \in DOMAIN appq : appq[k].type = "moreLoaded"

MainLoadsRuns ==
    /\ Receives("runsLoaded")
    /\ Updates(RunsLoaded(app, Head(appq).runs, Head(appq).next), <<>>)
    /\ base' = Head(appq).known /\ mixed' = PagesToCome /\ lost' = FALSE

MainAppendsRuns ==
    /\ Receives("moreLoaded")
    /\ Updates(MoreRunsLoaded(app, Head(appq).runs, Head(appq).next), <<>>)
    /\ UNCHANGED ghosts

MainSeesChange ==
    /\ Receives("calcChanged")
    /\ Updates(UpdateCalcStatus(app, Head(appq).calc, Head(appq).to), <<>>)
    /\ UNCHANGED ghosts

MainShowsText ==
    /\ Receives("text")
    /\ Updates(app, <<>>)
    /\ UNCHANGED ghosts

\* Result saved: the effect only puts a message into the channel.
MainSends ==
    /\ todo # <<>>
    /\ todo' = Tail(todo)
    /\ IF Head(todo).op = "save"
       THEN Delivers(Text) /\ UNCHANGED netq
       ELSE Len(netq) < NetCap /\ netq' = Append(netq, Head(todo)) /\ UNCHANGED appq
    /\ UNCHANGED <<app, net, import, stream, link, server, ghosts, spent>>

MainHandles == MainLoadsRuns \/ MainAppendsRuns \/ MainSeesChange \/ MainShowsText

\* Nothing has come for 16 ms: a frame is drawn.
Tick == todo = <<>> /\ appq = <<>> /\ UNCHANGED tuiVars

----------------------------------------------------------------------------
(* Keys                                                                    *)

Presses(next, effects) ==
    /\ Receives("key")
    /\ Updates(next, effects)
    /\ UNCHANGED ghosts

InList == app.overlay = Closed

\* A key that nothing is bound to, or that changes nothing where it is pressed.
KeyIgnored == Presses(app, <<>>)

\* Keys that only move about.
KeyMoves ==
    /\ InList
    /\ \E next \in {Focus(app, "prev"), Focus(app, "next"), Back(app), Dashboard(app),
                    GotoTop(app), GotoBottom(app), Enter(app), VisualToggle(app)}
                   \cup UNION {{MoveUp(app, n), HalfPageDown(app, n), HalfPageUp(app, n)} : n \in Counts} :
          next # app /\ Presses(next, <<>>)

KeyDown ==
    /\ InList
    /\ \E count \in Counts :
          LET next == MoveDown(app, count)
              bottom == app.pane = "RunList" /\ next.runCursor + 1 >= Len(VisibleRuns(app))
          IN IF bottom /\ app.next # None
             THEN Presses([next EXCEPT !.next = None], <<[op |-> "loadMore", cursor |-> app.next]>>)
             ELSE next # app /\ Presses(next, <<>>)

KeyRefresh ==
    InList /\ Presses([app EXCEPT !.loading = TRUE, !.anchor = NoAnchor], <<[op |-> "refresh"]>>)

Ids(runs) == {runs[k].id : k \in DOMAIN runs}
Confirm(command) == [kind |-> "confirm", command |-> command]

\* Visual mode cancels at once, whatever the pane; otherwise a dialog asks first.
KeyCancel ==
    /\ InList
    /\ IF app.anchor # NoAnchor
       THEN LET runs == VisualRuns(app) IN
            Presses([app EXCEPT !.anchor = NoAnchor],
                    [k \in DOMAIN runs |-> [op |-> "cancelRun", run |-> runs[k].id]])
       ELSE IF app.pane = "RunList"
       THEN /\ HasSelectedRun(app)
            /\ Presses([app EXCEPT !.overlay =
                  Confirm([op |-> "cancelRun", run |-> SelectedRun(app).id])], <<>>)
       ELSE /\ HasSelectedCalc(app)
            /\ Presses([app EXCEPT !.overlay =
                  Confirm([op |-> "cancelCalc", calc |-> SelectedCalcId(app)])], <<>>)

\* The failed calculations of the runs, in the order of the list.
FailedOf(runs) ==
    LET failed == {at \in UNION {{k} \X DOMAIN runs[k].calcs : k \in DOMAIN runs} :
                      runs[at[1]].calcs[at[2]].status = "failed"}
        earlier(at, to) == at[1] < to[1] \/ (at[1] = to[1] /\ at[2] < to[2])
        order == Ordered(failed, earlier)
    IN [k \in DOMAIN order |->
           [op |-> "retryCalc", calc |-> <<runs[order[k][1]].id, order[k][2]>>]]

KeyRetry ==
    /\ InList
    /\ IF app.anchor # NoAnchor
       THEN Presses([app EXCEPT !.anchor = NoAnchor], FailedOf(VisualRuns(app)))
       ELSE /\ HasSelectedCalc(app) /\ SelectedCalc(app).status = "failed"
            /\ Presses(app, <<[op |-> "retryCalc", calc |-> SelectedCalcId(app)]>>)

KeySave ==
    /\ InList /\ HasSelectedCalc(app) /\ SelectedCalc(app).result
    /\ Presses(app, <<[op |-> "save"]>>)

\* Help, the filters, and the command line with ":" or "/" typed.
KeyOpens ==
    /\ InList
    /\ \E next \in {FilterOverlay(app), [app EXCEPT !.overlay = [kind |-> "help"]]}
                   \cup {[app EXCEPT !.overlay = [kind |-> "command", typed |-> c]] :
                            c \in {[op |-> "unknown"], [op |-> "search", matches |-> Runs]}} :
          Presses(next, <<>>)

KeyFilters ==
    /\ app.overlay.kind = "filter"
    /\ \E next \in {FilterMove(app, 1), FilterMove(app, -1), FilterChoose(app)} :
          next # app /\ Presses(next, <<>>)

\* Esc in any overlay; in a dialog every key but y.
KeyCloses == ~InList /\ Presses(Close(app), <<>>)

\* Mutant of KeyConfirms: the dialog acts on what is selected by then.
KeyConfirmsSelected ==
    /\ app.overlay.kind = "confirm" /\ HasSelectedCalc(app)
    /\ Presses(Close(app),
               IF app.overlay.command.op = "cancelRun"
               THEN <<[op |-> "cancelRun", run |-> SelectedRun(app).id]>>
               ELSE <<[op |-> "cancelCalc", calc |-> SelectedCalcId(app)]>>)

\* A calculation is looked up first: if its run has left the list the dialog
\* closes and nothing is sent.
KeyConfirms ==
    /\ app.overlay.kind = "confirm"
    /\ LET command == app.overlay.command IN
       Presses(Close(app),
               IF command.op = "cancelCalc" /\ command.calc[1] \notin Ids(app.runs)
               THEN <<>> ELSE <<command>>)

\* The client ends, and is started again.
Quits ==
    /\ todo = <<>> /\ appq # <<>> /\ Head(appq).type = "key"
    /\ app' = NewApp
    /\ todo' = <<>> /\ appq' = <<>> /\ netq' = <<>> /\ stream' = <<>>
    /\ net' = [pc |-> "start"]
    /\ import' = 0 /\ link' = "off"
    /\ base' = {} /\ mixed' = FALSE /\ lost' = FALSE
    /\ UNCHANGED <<server, spent>>

KeyQuits ==
    InList /\ IF app.screen = "RunList" THEN Quits ELSE Presses(Leave(app), <<>>)

\* The line is typed, character by character.
KeyTypes ==
    /\ app.overlay.kind = "command"
    /\ \E c \in Commands : c # app.overlay.typed /\ Presses([app EXCEPT !.overlay.typed = c], <<>>)

\* execute_command; an empty status is no filter.
KeyRuns ==
    /\ app.overlay.kind = "command"
    /\ LET command == app.overlay.typed
           closed == Close(app)
       IN CASE command.op = "search"  -> Presses([closed EXCEPT !.search = command.matches], <<>>)
            [] command.op = "filter"  -> Presses([closed EXCEPT !.status = 
                                                IF command.status = "" THEN "all"
                                                ELSE command.status], <<>>)
            [] command.op = "quit"    -> Quits
            [] command.op = "refresh" -> Presses([closed EXCEPT !.loading = TRUE], <<command>>)
            [] command.op \in {"import", "submit"} -> Presses(closed, <<command>>)
            [] OTHER                  -> Presses(closed, <<>>)

Key ==
    /\ appq # <<>> /\ Head(appq).type = "key"
    /\ \/ KeyIgnored \/ KeyMoves \/ KeyDown \/ KeyRefresh \/ KeyCancel \/ KeyRetry \/ KeySave
       \/ KeyOpens \/ KeyFilters \/ KeyCloses \/ KeyConfirms \/ KeyQuits \/ KeyTypes \/ KeyRuns

MainStep == MainHandles \/ MainSends \/ Key

----------------------------------------------------------------------------

Init ==
    /\ app = NewApp
    /\ todo = <<>> /\ appq = <<>> /\ netq = <<>> /\ stream = <<>>
    /\ net = [pc |-> "start"]
    /\ import = 0 /\ link = "off"
    /\ \E runs \in InitialRuns :
          server = [r \in Runs |-> [k \in 1..(IF r \in runs THEN CalcCount[r] ELSE 0) |-> "running"]]
    /\ base = {} /\ mixed = FALSE /\ lost = FALSE
    /\ spent = [k \in {"keys", "changes", "failures"} |-> 0]

Next ==
    \/ ServerSubmits \/ ServerChanges
    \/ InputSends \/ LinkReports \/ LinkChanges \/ EventArrives \/ ImportReports \/ NetStep
    \/ MainStep \/ Tick

\* The main loop and the network task are scheduled and the daemon answers.  Room
\* in a channel is given to those who wait for it in turn: strong fairness.  The
\* user owes nothing.
Fairness == WF_tuiVars(MainStep) /\ WF_tuiVars(NetStep) /\ SF_tuiVars(NetSends)

Spec == Init /\ [][Next]_tuiVars
FairSpec == Spec /\ Fairness
=============================================================================
