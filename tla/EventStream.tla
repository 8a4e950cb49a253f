----------------------------- MODULE EventStream -----------------------------
(***************************************************************************)
(* Status events on their way from the calculation actors to a client: the *)
(* table events, the event bus (a tokio broadcast channel), GET /events,   *)
(* which replays stored events and then pushes live ones, and the reader   *)
(* at the other end: the event task of the TUI, or another program.        *)
(* Readers do not influence each other, so one connection will do.         *)
(***************************************************************************)
EXTENDS Integers, Sequences, FiniteSets

CONSTANTS
    Emitters,      \* calculation actors
    BusCap,        \* EVENT_BUS_CAPACITY: 1024
    ReplayLimit,   \* rows replayed to a connection: 1000
    WireCap,       \* bound: frames a connection buffers
    MaxEvents, MaxConnects, MaxRestarts, MaxErrors   \* bounds

ASSUME EventStreamAssumption ==
    /\ IsFiniteSet(Emitters)
    /\ BusCap \in Nat \ {0} /\ ReplayLimit \in Nat \ {0} /\ WireCap \in Nat \ {0}
    /\ {MaxEvents, MaxConnects, MaxRestarts, MaxErrors} \subseteq Nat

VARIABLES
    table,     \* the rows of events
    lastRow,   \* the largest seq ever used, kept by AUTOINCREMENT
    made,      \* how many events were made; an event is its number
    emitter,   \* per actor: the event it has inserted and not yet published
    bus,       \* what was published since the daemon started; the last BusCap
               \* of it are retained
    stream,    \* the handler of the connection
    wire,      \* frames sent and not yet read
    reader,    \* the reader, and the seq it asks to continue from
    heard,     \* events that reached the TUI as AppMsg::ServerEvent
    spent      \* connections, restarts and errors so far

eventVars == <<table, lastRow, made, emitter, bus, stream, wire, reader, heard, spent>>

Nothing == [seq |-> 0, event |-> 0]

\* rest: rows still to replay; pos: how far on the bus the handler has got.  For
\* the properties: stored, the table when it was read; from, where on the bus the
\* handler subscribed; sent and lagged, what it sent and announced as missed.
NoStream == [pc |-> "none", since |-> 0, rest |-> {}, pos |-> 0,
             stored |-> {}, from |-> 0, sent |-> {}, lagged |-> 0]

Spend(kind, max) == spent[kind] < max /\ spent' = [spent EXCEPT ![kind] = @ + 1]

----------------------------------------------------------------------------
(* emit_status, the bus and pruning                                        *)

\* Mutant of NextSeq: rowids are reused, as without AUTOINCREMENT.
NextFreeSeq == IF table = {} THEN 1 ELSE 1 + (CHOOSE r \in table : \A q \in table : q.seq <= r.seq).seq

NextSeq == lastRow + 1

\* insert_event; if it fails the event is published with seq 0 all the same.
Insert(e) ==
    /\ emitter[e] = Nothing /\ made < MaxEvents
    /\ made' = made + 1
    /\ \/ /\ table' = table \cup {[seq |-> NextSeq, event |-> made']}
          /\ lastRow' = NextSeq
          /\ emitter' = [emitter EXCEPT ![e] = [seq |-> NextSeq, event |-> made']]
          /\ UNCHANGED spent
       \/ /\ Spend("errors", MaxErrors)
          /\ emitter' = [emitter EXCEPT ![e] = [seq |-> 0, event |-> made']]
          /\ UNCHANGED <<table, lastRow>>
    /\ UNCHANGED <<bus, stream, wire, reader, heard>>

Publish(e) ==
    /\ emitter[e] # Nothing
    /\ bus' = Append(bus, emitter[e])
    /\ emitter' = [emitter EXCEPT ![e] = Nothing]
    /\ UNCHANGED <<table, lastRow, made, stream, wire, reader, heard, spent>>

\* prune_events: created_at grows with seq.
Prune ==
    \E r \in table :
        /\ table' = {q \in table : q.seq > r.seq}
        /\ UNCHANGED <<lastRow, made, emitter, bus, stream, wire, reader, heard, spent>>

----------------------------------------------------------------------------
(* GET /events                                                             *)

\* Mutant of ListEventsSince: one event too few.
ListEventsAfterNext(since) ==
    {r \in table : /\ r.seq > since + 1
                   /\ Cardinality({q \in table : since < q.seq /\ q.seq < r.seq}) < ReplayLimit}

\* The first ReplayLimit rows after since.
ListEventsSince(since) ==
    {r \in table : /\ r.seq > since
                   /\ Cardinality({q \in table : since < q.seq /\ q.seq < r.seq}) < ReplayLimit}

\* A failed read replays nothing.
StreamReads ==
    /\ stream.pc = "read"
    /\ \/ /\ stream' = [stream EXCEPT !.pc = "replay", !.stored = table,
                                      !.rest = ListEventsSince(stream.since)]
          /\ UNCHANGED spent
       \/ Spend("errors", MaxErrors) /\ stream' = [stream EXCEPT !.pc = "replay"]
    /\ UNCHANGED <<table, lastRow, made, emitter, bus, wire, reader, heard>>

\* A frame's data is the JSON of the ServerEvent; its seq is only the frame's id.
EventJson(n) == [kind |-> "calc_status_changed", at |-> n]
Frame(s) == [id |-> s.seq, data |-> EventJson(s.event)]
Comment == [comment |-> "lagged"]

\* Mutant of Sends: a connection without backpressure.
SendsUnbounded(frame) == wire' = Append(wire, frame)

Sends(frame) ==
    /\ Len(wire) < WireCap
    /\ wire' = Append(wire, frame)

\* Rows go out in the order of their seq.
StreamReplays ==
    /\ stream.pc = "replay"
    /\ \E r \in stream.rest :
          /\ \A q \in stream.rest : r.seq <= q.seq
          /\ Sends(Frame(r))
          /\ stream' = [stream EXCEPT !.rest = @ \ {r}, !.sent = @ \cup {r}]
    /\ UNCHANGED <<table, lastRow, made, emitter, bus, reader, heard, spent>>

StreamSubscribes ==
    /\ stream.pc = "replay" /\ stream.rest = {}
    /\ stream' = [stream EXCEPT !.pc = "live", !.from = Len(bus), !.pos = Len(bus)]
    /\ UNCHANGED <<table, lastRow, made, emitter, bus, wire, reader, heard, spent>>

StreamPushes ==
    /\ stream.pc = "live" /\ stream.pos < Len(bus) /\ Len(bus) - stream.pos <= BusCap
    /\ Sends(Frame(bus[stream.pos + 1]))
    /\ stream' = [stream EXCEPT !.pos = @ + 1, !.sent = @ \cup {bus[stream.pos + 1]}]
    /\ UNCHANGED <<table, lastRow, made, emitter, bus, reader, heard, spent>>

\* Mutant of StreamLags: the receiver starts over at the newest event.
StreamLagsToEnd ==
    /\ stream.pc = "live" /\ Len(bus) - stream.pos > BusCap
    /\ Sends(Comment)
    /\ stream' = [stream EXCEPT !.pos = Len(bus), !.lagged = @ + Len(bus) - BusCap - stream.pos]
    /\ UNCHANGED <<table, lastRow, made, emitter, bus, reader, heard, spent>>

\* RecvError::Lagged: go on with the oldest event retained.
StreamLags ==
    /\ stream.pc = "live" /\ Len(bus) - stream.pos > BusCap
    /\ Sends(Comment)
    /\ stream' = [stream EXCEPT !.pos = Len(bus) - BusCap,
                                !.lagged = @ + Len(bus) - BusCap - stream.pos]
    /\ UNCHANGED <<table, lastRow, made, emitter, bus, reader, heard, spent>>

\* The reader, the daemon or a write error ends the connection.
ConnectionEnds ==
    /\ stream.pc # "none"
    /\ stream' = NoStream
    /\ UNCHANGED <<table, lastRow, made, emitter, bus, wire, reader, heard, spent>>

\* The daemon stops and starts again: the table is what is left.
Restart ==
    /\ Spend("restarts", MaxRestarts)
    /\ bus' = <<>>
    /\ emitter' = [e \in Emitters |-> Nothing]
    /\ stream' = NoStream
    /\ UNCHANGED <<table, lastRow, made, wire, reader, heard>>

----------------------------------------------------------------------------
(* The reader                                                              *)

\* The reader asks for what follows the last seq it has seen: the event task of
\* the TUI the last one it has decoded, another program that of the last frame.
ReaderConnects ==
    /\ reader.pc = "away" /\ stream.pc = "none"
    /\ Spend("connects", MaxConnects)
    /\ stream' = [NoStream EXCEPT !.pc = "read", !.since = reader.lastSeq]
    /\ reader' = [reader EXCEPT !.pc = "reading"]
    /\ UNCHANGED <<table, lastRow, made, emitter, bus, wire, heard>>

\* serde_json::from_str::<SequencedEvent> on a frame's data.
Decodes(frame) == "data" \in DOMAIN frame /\ {"seq", "event"} \subseteq DOMAIN frame.data

SeqAfter(frame) ==
    IF reader.tui THEN IF Decodes(frame) THEN frame.data.seq ELSE reader.lastSeq
    ELSE IF "id" \in DOMAIN frame THEN frame.id ELSE reader.lastSeq

\* Mutant of ReaderReads: the task ends at a frame that it cannot decode, and
\* leaves the connection open.
ReaderGivesUp ==
    /\ reader.pc = "reading" /\ wire # <<>>
    /\ wire' = Tail(wire)
    /\ reader' = [reader EXCEPT !.pc = IF Decodes(Head(wire)) THEN @ ELSE "gone"]
    /\ UNCHANGED <<table, lastRow, made, emitter, bus, stream, heard, spent>>

\* What the TUI can decode reaches update; anything else is passed over.
ReaderReads ==
    /\ reader.pc = "reading" /\ wire # <<>>
    /\ wire' = Tail(wire)
    /\ reader' = [reader EXCEPT !.lastSeq = SeqAfter(Head(wire))]
    /\ heard' = heard \cup {f.data.event.at : f \in {g \in {Head(wire)} : Decodes(g)}}
    /\ UNCHANGED <<table, lastRow, made, emitter, bus, stream, spent>>

\* The end of the stream, or an error that loses what was still on the wire.
ReaderSeesEnd ==
    /\ reader.pc = "reading" /\ stream.pc = "none"
    /\ wire' = <<>>
    /\ reader' = [reader EXCEPT !.pc = "away"]
    /\ UNCHANGED <<table, lastRow, made, emitter, bus, stream, heard, spent>>

----------------------------------------------------------------------------

Init ==
    /\ table = {} /\ lastRow = 0 /\ made = 0
    /\ emitter = [e \in Emitters |-> Nothing]
    /\ bus = <<>>
    /\ stream = NoStream
    /\ wire = <<>>
    /\ \E tui \in BOOLEAN : reader = [pc |-> "away", tui |-> tui, lastSeq |-> 0]
    /\ heard = {}
    /\ spent = [k \in {"connects", "restarts", "errors"} |-> 0]

StreamStep == StreamReads \/ StreamReplays \/ StreamSubscribes \/ StreamPushes \/ StreamLags
ReaderStep == ReaderReads \/ ReaderSeesEnd

Next ==
    \/ \E e \in Emitters : Insert(e) \/ Publish(e)
    \/ Prune
    \/ StreamStep \/ ConnectionEnds \/ Restart
    \/ ReaderConnects \/ ReaderStep

\* Every task is scheduled; nobody has to emit, prune, connect or break anything.
Fairness ==
    /\ \A e \in Emitters : WF_eventVars(Publish(e))
    /\ WF_eventVars(StreamStep) /\ WF_eventVars(ReaderStep)

Spec == Init /\ [][Next]_eventVars
FairSpec == Spec /\ Fairness
=============================================================================
