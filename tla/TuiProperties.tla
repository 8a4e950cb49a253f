---------------------------- MODULE TuiProperties ----------------------------
(* What the user of the TUI can rely on. *)
EXTENDS Tui

Ops == {"loadMore", "refresh", "import", "submit", "cancelRun", "cancelCalc", "retryCalc", "save"}

(* Every variable has its type, and no channel holds more than its capacity. *)
TuiTypeOK ==
    /\ app.pane \in {"RunList", "CalcList", "Detail"}
    /\ app.screen \in {"RunList", "RunDetail", "CalcDetail", "Dashboard"}
    /\ app.overlay.kind \in {"none", "help", "filter", "command", "confirm"}
    /\ app.runCursor \in Nat /\ app.calcCursor \in Nat /\ app.anchor \in Nat \cup {NoAnchor}
    /\ app.next \in Runs \cup {None} /\ app.loading \in BOOLEAN
    /\ \A k \in DOMAIN todo : todo[k].op \in Ops
    /\ Len(appq) <= AppCap /\ Len(netq) <= NetCap
    /\ net.pc \in {"start", "idle", "answer"}
    /\ link \in {"off", "lost", "connecting", "found", "live"}
    /\ import \in Nat /\ base \subseteq Runs /\ {mixed, lost} \subseteq BOOLEAN

(* The index leads to the row of each run and to no other, and no run has two
   rows, however loads, pages and their answers follow each other: upsert_run
   writes, and update_calc_status indexes, through it. *)
ListIndexed ==
    /\ DOMAIN app.index = Ids(app.runs)
    /\ \A k \in DOMAIN app.runs : app.index[app.runs[k].id] = k

\* Runs that the next page will have, or that are in one on its way.
OnItsWay(r) ==
    \/ app.next # None /\ Older(r, app.next)
    \/ \E q \in {todo, netq} : \E k \in DOMAIN q : q[k].op = "loadMore" /\ Older(r, q[k].cursor)
    \/ \E m \in {appq[k] : k \in DOMAIN appq} \cup (IF net.pc = "answer" THEN {net.message} ELSE {}) :
          m.type = "moreLoaded" /\ (r \in Ids(m.runs) \/ (m.next # None /\ Older(r, m.next)))

(* Paging skips no run: one that existed when the list was loaded is in the list
   or the user can still get to it by going down, whatever was submitted or
   changed meanwhile and even if runs were created in the same millisecond,
   unless a page was lost or belongs to an earlier load. *)
NothingSkipped ==
    ~mixed /\ ~lost => \A r \in base \ Ids(app.runs) : OnItsWay(r)

(* A dialog that is confirmed does what it showed when it was opened, or nothing,
   though the list below it has been reloaded, extended or changed. *)
ConfirmedIsShown ==
    [][app.overlay.kind = "confirm" /\ app'.overlay = Closed
         => todo' \in {<<>>, <<app.overlay.command>>}]_tuiVars

\* The main loop waits for room in the channel that it alone empties.
WaitsForItself == todo # <<>> /\ Head(todo).op = "save" /\ Len(appq) = AppCap

\* The main loop and the network task each wait for room in the other's channel.
WaitForEachOther ==
    /\ todo # <<>> /\ Head(todo).op # "save" /\ Len(netq) = NetCap
    /\ net.pc = "answer" /\ Len(appq) = AppCap

(* The list that is loading is loaded in the end, whatever order keys, resizes,
   answers, events, reconnections and imports come in and however full they make
   both channels, unless a request fails or the client is stuck in one of these two
   ways ("True while an initial fetch or manual refresh is in flight.", app/state.rs). *)
LoadingEnds ==
    []<>(~app.loading \/ spent.failures > 0 \/ WaitsForItself \/ WaitForEachOther)

(* "Bulk cancel: in visual mode cancel all selected runs" (app/update.rs): what
   the user has asked for is sent. *)
EffectsAreSent == (todo # <<>> /\ Head(todo).op = "cancelRun") ~> todo = <<>>
=============================================================================
