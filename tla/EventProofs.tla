----------------------------- MODULE EventProofs -----------------------------
(***************************************************************************)
(* What a reader of GET /events can rely on, proved for any number of      *)
(* actors and events and any capacity of the bus, the replay and the wire. *)
(* EInv is inductive; each of its parts says what one stage of an event's  *)
(* way has to know of the stages before it.                                *)
(***************************************************************************)
EXTENDS EventProperties, FiniteSetTheorems, TLAPS

Frames == [id : Nat, data : [kind : {"calc_status_changed"}, at : Nat]]
Comments == [comment : {"lagged"}]

StreamRec ==
    [pc : {"none", "read", "replay", "live"}, since : Nat, rest : SUBSET Sequenced, pos : Nat,
     stored : SUBSET Sequenced, from : Nat, sent : SUBSET Sequenced, lagged : Nat]

Types ==
    /\ table \subseteq Sequenced
    /\ lastRow \in Nat /\ made \in Nat
    /\ emitter \in [Emitters -> Sequenced]
    /\ bus \in Seq(Sequenced)
    /\ stream \in StreamRec
    /\ wire \in Seq(Frames \cup Comments) /\ Len(wire) <= WireCap
    /\ reader \in [pc : {"away", "reading"}, tui : BOOLEAN, lastSeq : Nat]

\* No seq has been given out above the counter of the table.
SeqsGivenOut ==
    /\ \A r \in table : r.seq <= lastRow
    /\ \A e \in Emitters : emitter[e].seq <= lastRow
    /\ \A k \in 1..Len(bus) : bus[k].seq <= lastRow
    /\ \A r \in stream.rest : r.seq <= lastRow
    /\ \A k \in 1..Len(wire) : wire[k] \in Frames => wire[k].id <= lastRow
    /\ reader.lastSeq <= lastRow

\* Where the handler is on the bus, and what it has passed over there.
Missed == {k \in stream.from + 1 .. stream.pos : bus[k] \notin stream.sent}

OnTheBus ==
    /\ stream.pc = "live" =>
          /\ stream.from <= stream.pos /\ stream.pos <= Len(bus)
          /\ Cardinality(Missed) <= stream.lagged
    /\ stream.pc # "live" => stream.pos = 0

\* What was stored is sent, is still to be sent, was not asked for, or is beyond
\* the limit of the replay.
BeyondLimit(r) ==
    ReplayLimit <= Cardinality({q \in stream.stored : stream.since < q.seq /\ q.seq < r.seq})

Replayed ==
    /\ stream.pc \in {"none", "read"} => stream.stored = {}
    /\ stream.pc = "live" => stream.rest = {}
    /\ \A r \in stream.stored :
          r \in stream.sent \/ r \in stream.rest \/ r.seq <= stream.since \/ BeyondLimit(r)

EInv == Types /\ IsFiniteSet(table) /\ SeqsGivenOut /\ OnTheBus /\ Replayed

----------------------------------------------------------------------------
(* Frames                                                                  *)

(* What the daemon sends is a frame or a comment, and frames keep their seq
   as their id (api/sse.rs). *)
LEMMA FrameType ==
    ASSUME NEW s \in Sequenced
    PROVE  Frame(s) \in Frames /\ Frame(s).id = s.seq
  BY DEF Frame, Frames, EventJson, Sequenced

(* A comment is not a frame. *)
LEMMA CommentType == Comment \in Comments /\ Comment \notin Frames
<1>1. Comment \in Comments
  BY DEF Comment, Comments
<1>2. DOMAIN Comment = {"comment"}
  BY DEF Comment
<1>3. ASSUME NEW f \in Frames PROVE DOMAIN f = {"id", "data"}
  BY <1>3 DEF Frames
<1> QED
  BY <1>1, <1>2, <1>3

(* Whatever the daemon sends, the event task of the TUI cannot decode it: the
   data of a frame has no field seq (common/event.rs, runs/network.rs). *)
LEMMA NothingDecodes ==
    ASSUME NEW f \in Frames \cup Comments
    PROVE  ~Decodes(f)
<1>1. CASE f \in Frames
  <2>1. f.data \in [kind : {"calc_status_changed"}, at : Nat]
    BY <1>1 DEF Frames
  <2>2. DOMAIN f.data = {"kind", "at"}
    BY <2>1
  <2> QED
    BY <2>2 DEF Decodes
<1>2. CASE f \in Comments
  <2>1. DOMAIN f = {"comment"}
    BY <1>2 DEF Comments
  <2> QED
    BY <2>1 DEF Decodes
<1> QED
  BY <1>1, <1>2

(* A reader continues from where it was or from a frame's id. *)
LEMMA ReaderContinues ==
    ASSUME NEW f \in Frames \cup Comments
    PROVE  SeqAfter(f) = reader.lastSeq \/ (f \in Frames /\ SeqAfter(f) = f.id)
<1>1. ~Decodes(f)
  BY NothingDecodes
<1>2. ASSUME "id" \in DOMAIN f PROVE f \in Frames
  <2>1. ASSUME f \in Comments PROVE FALSE
    <3>1. DOMAIN f = {"comment"}
      BY <2>1 DEF Comments
    <3> QED
      BY <1>2, <3>1
  <2> QED
    BY <2>1
<1> QED
  BY <1>1, <1>2 DEF SeqAfter

----------------------------------------------------------------------------
(* The initial states                                                      *)

(* The invariant holds when the daemon starts for the first time. *)
LEMMA InitEInv == Init => EInv
<1> SUFFICES ASSUME Init PROVE EInv
  OBVIOUS
<1> USE DEF Init, NoStream, Nothing
<1>1. Types
  BY EventStreamAssumption DEF Types, StreamRec, Sequenced
<1>2. SeqsGivenOut
  BY DEF SeqsGivenOut
<1>3. OnTheBus
  BY DEF OnTheBus
<1>4. Replayed
  BY DEF Replayed
<1>5. IsFiniteSet(table)
  BY FS_EmptySet
<1> QED
  BY <1>1, <1>2, <1>3, <1>4, <1>5 DEF EInv

----------------------------------------------------------------------------
(* Every step keeps the types                                              *)

LEMMA ActorsKeepTypes ==
    ASSUME EInv, NEW e \in Emitters, Insert(e) \/ Publish(e)
    PROVE  Types'
<1> USE DEF EInv, Types
<1>1. CASE Insert(e)
  <2>1. made' \in Nat /\ NextSeq \in Nat
    BY <1>1 DEF Insert, NextSeq
  <2>2. [seq |-> NextSeq, event |-> made'] \in Sequenced /\ [seq |-> 0, event |-> made'] \in Sequenced
    BY <2>1 DEF Sequenced
  <2>3. table' \subseteq Sequenced /\ lastRow' \in Nat /\ emitter' \in [Emitters -> Sequenced]
    BY <1>1, <2>1, <2>2 DEF Insert
  <2> QED
    BY <1>1, <2>1, <2>3 DEF Insert
<1>2. CASE Publish(e)
  <2>1. emitter[e] \in Sequenced /\ Nothing \in Sequenced
    BY DEF Nothing, Sequenced
  <2>2. bus' \in Seq(Sequenced) /\ emitter' \in [Emitters -> Sequenced]
    BY <1>2, <2>1 DEF Publish
  <2> QED
    BY <1>2, <2>2 DEF Publish
<1> QED
  BY <1>1, <1>2

LEMMA StreamKeepsTypes ==
    ASSUME EInv, StreamStep
    PROVE  Types'
<1> USE DEF EInv, Types
<1>1. CASE StreamReads
  <2>1. ListEventsSince(stream.since) \subseteq Sequenced
    BY DEF ListEventsSince
  <2> QED
    BY <1>1, <2>1 DEF StreamReads, StreamRec
<1>2. CASE StreamReplays
  <2>1. PICK r \in stream.rest : Sends(Frame(r))
                /\ stream' = [stream EXCEPT !.rest = @ \ {r}, !.sent = @ \cup {r}]
    BY <1>2 DEF StreamReplays
  <2>2. r \in Sequenced
    BY DEF StreamRec
  <2>3. stream' \in StreamRec
    BY <2>1, <2>2 DEF StreamRec
  <2>4. wire' \in Seq(Frames \cup Comments) /\ Len(wire') <= WireCap
    BY <2>1, <2>2, FrameType, EventStreamAssumption DEF Sends
  <2> QED
    BY <1>2, <2>3, <2>4 DEF StreamReplays
<1>3. CASE StreamSubscribes
  <2>1. Len(bus) \in Nat
    OBVIOUS
  <2>2. stream' \in StreamRec
    BY <1>3, <2>1 DEF StreamSubscribes, StreamRec
  <2> QED
    BY <1>3, <2>2 DEF StreamSubscribes
<1>4. CASE StreamPushes
  <2>1. stream.pos + 1 \in 1..Len(bus)
    BY <1>4 DEF StreamPushes, StreamRec
  <2>2. bus[stream.pos + 1] \in Sequenced
    BY <2>1
  <2>3. stream' \in StreamRec
    <3>1. stream' = [stream EXCEPT !.pos = @ + 1, !.sent = @ \cup {bus[stream.pos + 1]}]
      BY <1>4 DEF StreamPushes
    <3>2. stream.pos + 1 \in Nat /\ stream.sent \cup {bus[stream.pos + 1]} \subseteq Sequenced
      BY <2>1, <2>2 DEF StreamRec
    <3> QED
      BY <3>1, <3>2 DEF StreamRec
  <2>4. wire' \in Seq(Frames \cup Comments) /\ Len(wire') <= WireCap
    BY <1>4, <2>2, FrameType, EventStreamAssumption DEF StreamPushes, Sends
  <2> QED
    BY <1>4, <2>3, <2>4 DEF StreamPushes
<1>5. CASE StreamLags
  <2>1. stream.pos \in Nat /\ Len(bus) \in Nat /\ BusCap \in Nat /\ stream.lagged \in Nat
    BY EventStreamAssumption DEF StreamRec
  <2>2. Len(bus) - BusCap \in Nat /\ stream.lagged + Len(bus) - BusCap - stream.pos \in Nat
    <3>1. Len(bus) - stream.pos > BusCap
      BY <1>5 DEF StreamLags
    <3> HIDE DEF EInv, Types
    <3> QED
      BY <2>1, <3>1
  <2>3. stream' \in StreamRec
    BY <1>5, <2>2 DEF StreamLags, StreamRec
  <2>4. wire' \in Seq(Frames \cup Comments) /\ Len(wire') <= WireCap
    BY <1>5, CommentType, EventStreamAssumption DEF StreamLags, Sends
  <2> QED
    BY <1>5, <2>3, <2>4 DEF StreamLags
<1> QED
  BY <1>1, <1>2, <1>3, <1>4, <1>5 DEF StreamStep

LEMMA OthersKeepTypes ==
    ASSUME EInv, Prune \/ ConnectionEnds \/ Restart \/ ReaderConnects \/ ReaderStep
    PROVE  Types'
<1> USE DEF EInv, Types
<1>0. NoStream \in StreamRec
  BY DEF NoStream, StreamRec
<1>1. CASE Prune
  BY <1>1 DEF Prune
<1>2. CASE ConnectionEnds
  BY <1>0, <1>2 DEF ConnectionEnds
<1>3. CASE Restart
  BY <1>0, <1>3 DEF Restart, Nothing, Sequenced
<1>4. CASE ReaderConnects
  <2>1. stream' \in StreamRec
    BY <1>0, <1>4 DEF ReaderConnects, StreamRec
  <2> QED
    BY <1>4, <2>1 DEF ReaderConnects
<1>5. CASE ReaderReads
  <2>1. Head(wire) \in Frames \cup Comments /\ wire' \in Seq(Frames \cup Comments)
        /\ Len(wire') <= WireCap
    BY <1>5, EventStreamAssumption DEF ReaderReads
  <2>2. SeqAfter(Head(wire)) \in Nat
    BY <2>1, ReaderContinues DEF Frames
  <2> QED
    BY <1>5, <2>1, <2>2 DEF ReaderReads
<1>6. CASE ReaderSeesEnd
  BY <1>6, EventStreamAssumption DEF ReaderSeesEnd
<1> QED
  BY <1>1, <1>2, <1>3, <1>4, <1>5, <1>6 DEF ReaderStep

(* Every step keeps the types. *)
LEMMA NextKeepsTypes ==
    ASSUME EInv, [Next]_eventVars
    PROVE  Types'
<1>1. CASE UNCHANGED eventVars
  BY <1>1 DEF EInv, Types, eventVars
<1> QED
  BY <1>1, ActorsKeepTypes, StreamKeepsTypes, OthersKeepTypes DEF Next

----------------------------------------------------------------------------
(* Every step keeps the seqs below the counter                             *)

(* A seq only travels: from the counter to the table and the actor, then to the
   bus, the replay, the frames and the reader. *)
LEMMA NextKeepsSeqs ==
    ASSUME EInv, [Next]_eventVars
    PROVE  SeqsGivenOut'
<1> USE DEF EInv, SeqsGivenOut
<1>0. lastRow \in Nat /\ (\A r \in Sequenced : r.seq \in Nat)
  BY DEF Types, Sequenced
<1>1. ASSUME NEW e \in Emitters, Insert(e) PROVE SeqsGivenOut'
  <2>1. lastRow' \in {lastRow, lastRow + 1}
    BY <1>1 DEF Insert, NextSeq
  <2>2. \A r \in table' : r \in table \/ (r.seq = lastRow + 1 /\ lastRow' = lastRow + 1)
    BY <1>1 DEF Insert, NextSeq
  <2>3. \A r \in table' : r.seq <= lastRow'
    BY <1>0, <2>1, <2>2 DEF Types
  <2>4. emitter'[e].seq = 0 \/ (emitter'[e].seq = lastRow + 1 /\ lastRow' = lastRow + 1)
    BY <1>1 DEF Insert, NextSeq, Types
  <2>5. \A f \in Emitters : f # e => emitter'[f] = emitter[f]
    BY <1>1 DEF Insert, Types
  <2>6. \A f \in Emitters : emitter'[f].seq <= lastRow'
    <3> TAKE f \in Emitters
    <3>1. CASE f = e
      BY <1>0, <2>1, <2>4, <3>1
    <3>2. CASE f # e
      <4>1. emitter[f].seq \in Nat
        BY <1>0 DEF Types
      <4> QED
        BY <1>0, <2>1, <2>5, <3>2, <4>1
    <3> QED
      BY <3>1, <3>2
  <2>7. \A k \in 1..Len(bus) : bus[k].seq \in Nat
    BY <1>0 DEF Types
  <2>8. \A r \in stream.rest : r.seq \in Nat
    BY <1>0 DEF Types, StreamRec
  <2>9. \A k \in 1..Len(wire) : wire[k] \in Frames => wire[k].id \in Nat
    BY DEF Frames
  <2>10. reader.lastSeq \in Nat
    BY DEF Types
  <2>11. UNCHANGED <<bus, stream, wire, reader>>
    BY <1>1 DEF Insert
  <2> HIDE DEF EInv
  <2>12. \A k \in 1..Len(bus') : bus'[k].seq <= lastRow'
    BY <1>0, <2>1, <2>7, <2>11, EInv DEF EInv
  <2>13. \A r \in stream'.rest : r.seq <= lastRow'
    BY <1>0, <2>1, <2>8, <2>11, EInv DEF EInv
  <2>14. \A k \in 1..Len(wire') : wire'[k] \in Frames => wire'[k].id <= lastRow'
    BY <1>0, <2>1, <2>9, <2>11, EInv DEF EInv
  <2>15. reader'.lastSeq <= lastRow'
    BY <1>0, <2>1, <2>10, <2>11, EInv DEF EInv
  <2> QED
    BY <2>3, <2>6, <2>12, <2>13, <2>14, <2>15
<1>2. ASSUME NEW e \in Emitters, Publish(e) PROVE SeqsGivenOut'
  <2>1. \A f \in Emitters : emitter'[f].seq <= lastRow
    BY <1>0, <1>2 DEF Publish, Types, Nothing
  <2>2. \A k \in 1..Len(bus') : bus'[k].seq <= lastRow
    BY <1>2 DEF Publish, Types
  <2> QED
    BY <1>2, <2>1, <2>2 DEF Publish
<1>3. CASE Prune
  BY <1>3 DEF Prune
<1>4. CASE StreamReads
  <2>1. ListEventsSince(stream.since) \subseteq table
    BY DEF ListEventsSince
  <2>2. stream'.rest = ListEventsSince(stream.since) \/ stream'.rest = stream.rest
    BY <1>4 DEF StreamReads, Types, StreamRec
  <2> QED
    BY <1>4, <2>1, <2>2 DEF StreamReads
<1>5. ASSUME NEW f \in Frames \cup Comments, wire' = Append(wire, f),
             f \in Frames => f.id <= lastRow,
             \A r \in stream'.rest : r \in stream.rest,
             UNCHANGED <<table, lastRow, emitter, bus, reader>>
      PROVE  SeqsGivenOut'
  <2>1. \A k \in 1..Len(wire') : wire'[k] \in Frames => wire'[k].id <= lastRow
    BY <1>5 DEF Types
  <2> QED
    BY <1>5, <2>1
<1>6. CASE StreamReplays
  <2>1. PICK r \in stream.rest : Sends(Frame(r))
                /\ stream' = [stream EXCEPT !.rest = @ \ {r}, !.sent = @ \cup {r}]
    BY <1>6 DEF StreamReplays
  <2>2. r \in Sequenced
    BY DEF Types, StreamRec
  <2>3. \A q \in stream'.rest : q \in stream.rest
    BY <2>1 DEF Types, StreamRec
  <2> QED
    BY <1>5, <1>6, <2>1, <2>2, <2>3, FrameType DEF StreamReplays, Sends
<1>7. CASE StreamSubscribes
  <2>1. stream'.rest = stream.rest
    BY <1>7 DEF StreamSubscribes, Types, StreamRec
  <2> QED
    BY <1>7, <2>1 DEF StreamSubscribes
<1>8. CASE StreamPushes
  <2>1. stream.pos + 1 \in 1..Len(bus)
    BY <1>8 DEF StreamPushes, Types, StreamRec
  <2>2. bus[stream.pos + 1] \in Sequenced /\ bus[stream.pos + 1].seq <= lastRow
    BY <2>1 DEF Types
  <2>3. stream'.rest = stream.rest
    BY <1>8 DEF StreamPushes, Types, StreamRec
  <2> QED
    BY <1>5, <1>8, <2>2, <2>3, FrameType DEF StreamPushes, Sends
<1>9. CASE StreamLags
  <2>1. stream'.rest = stream.rest
    BY <1>9 DEF StreamLags, Types, StreamRec
  <2> QED
    BY <1>5, <1>9, <2>1, CommentType DEF StreamLags, Sends
<1>10. CASE ConnectionEnds
  BY <1>10 DEF ConnectionEnds, NoStream
<1>11. CASE Restart
  BY <1>0, <1>11 DEF Restart, NoStream, Nothing
<1>12. CASE ReaderConnects
  <2>1. stream'.rest = {} /\ reader'.lastSeq = reader.lastSeq
    BY <1>12 DEF ReaderConnects, NoStream, Types
  <2> QED
    BY <1>12, <2>1 DEF ReaderConnects
<1>13. CASE ReaderReads
  <2>1. /\ Head(wire) = wire[1] /\ 1 \in 1..Len(wire) /\ wire[1] \in Frames \cup Comments
        /\ \A k \in 1..Len(wire') : wire'[k] = wire[k + 1] /\ k + 1 \in 1..Len(wire)
    BY <1>13 DEF ReaderReads, Types
  <2>2. SeqAfter(wire[1]) <= lastRow
    BY <2>1, ReaderContinues
  <2>3. reader'.lastSeq = SeqAfter(wire[1])
    BY <1>13, <2>1 DEF ReaderReads, Types
  <2> QED
    BY <1>13, <2>1, <2>2, <2>3 DEF ReaderReads
<1>14. CASE ReaderSeesEnd
  BY <1>14 DEF ReaderSeesEnd, Types
<1>15. CASE UNCHANGED eventVars
  BY <1>15 DEF eventVars
<1> QED
  BY <1>1, <1>2, <1>3, <1>4, <1>6, <1>7, <1>8, <1>9, <1>10, <1>11, <1>12, <1>13, <1>14, <1>15
     DEF Next, StreamStep, ReaderStep

----------------------------------------------------------------------------
(* Every step keeps the table finite                                       *)

LEMMA NextKeepsFinite ==
    ASSUME EInv, [Next]_eventVars
    PROVE  IsFiniteSet(table)'
<1>0. IsFiniteSet(table)
  BY DEF EInv
<1>1. ASSUME table' \subseteq table PROVE IsFiniteSet(table')
  BY <1>0, <1>1, FS_Subset
<1>2. ASSUME NEW e \in Emitters, Insert(e) PROVE IsFiniteSet(table')
  <2>1. table' = table \/ table' = table \cup {[seq |-> NextSeq, event |-> made']}
    BY <1>2 DEF Insert
  <2> QED
    BY <1>0, <2>1, FS_AddElement
<1>3. CASE \/ \E e \in Emitters : Publish(e)
           \/ Prune \/ StreamStep \/ ConnectionEnds \/ Restart
           \/ ReaderConnects \/ ReaderStep \/ UNCHANGED eventVars
  <2>1. table' \subseteq table
    BY <1>3 DEF Publish, Prune, StreamStep, StreamReads, StreamReplays, StreamSubscribes,
                StreamPushes, StreamLags, ConnectionEnds, Restart, ReaderConnects,
                ReaderStep, ReaderReads, ReaderSeesEnd, eventVars
  <2> QED
    BY <1>1, <2>1
<1> QED
  BY <1>2, <1>3 DEF Next

----------------------------------------------------------------------------
(* Every step keeps the account of what was passed over on the bus         *)

LEMMA NextKeepsAccount ==
    ASSUME EInv, [Next]_eventVars
    PROVE  OnTheBus'
<1> USE DEF EInv, OnTheBus
<1>0. /\ stream.pos \in Nat /\ stream.from \in Nat /\ stream.lagged \in Nat /\ Len(bus) \in Nat
      /\ IsFiniteSet(Missed) /\ Cardinality(Missed) \in Nat
  <2>1. stream.pos \in Nat /\ stream.from \in Nat /\ stream.lagged \in Nat /\ Len(bus) \in Nat
    BY DEF Types, StreamRec
  <2>2. IsFiniteSet(stream.from + 1 .. stream.pos)
    <3> HIDE DEF EInv, OnTheBus
    <3>1. stream.from + 1 \in Int /\ stream.pos \in Int
      BY <2>1
    <3> QED
      BY <3>1, FS_Interval
  <2>3. IsFiniteSet(Missed)
    BY <2>2, FS_Subset DEF Missed
  <2> QED
    BY <2>1, <2>3, FS_CardinalityType
<1>1. ASSUME UNCHANGED <<bus, stream>> PROVE OnTheBus'
  BY <1>1 DEF Missed
<1>2. ASSUME NEW e \in Emitters, Publish(e) PROVE OnTheBus'
  <2>1. bus' = Append(bus, emitter[e]) /\ UNCHANGED stream
    BY <1>2 DEF Publish
  <2>2. ASSUME stream.pc = "live" PROVE Missed' = Missed
    <3>1. \A k \in stream.from + 1 .. stream.pos : bus'[k] = bus[k]
      BY <1>0, <2>1, <2>2 DEF Types
    <3> QED
      BY <2>1, <3>1 DEF Missed
  <2>3. Len(bus') = Len(bus) + 1
    BY <2>1 DEF Types
  <2> QED
    BY <1>0, <2>1, <2>2, <2>3
<1>3. ASSUME stream'.pc # "live", stream'.pos = 0 PROVE OnTheBus'
  BY <1>3
<1>4. CASE StreamReads
  <2>1. stream'.pc # "live" /\ stream'.pos = 0
    BY <1>4 DEF StreamReads, Types, StreamRec
  <2> QED
    BY <1>3, <2>1
<1>5. CASE StreamReplays
  <2>1. stream'.pc # "live" /\ stream'.pos = 0
    BY <1>5 DEF StreamReplays, Types, StreamRec
  <2> QED
    BY <1>3, <2>1
<1>6. CASE StreamSubscribes
  <2>1. /\ stream'.pc = "live" /\ stream'.from = Len(bus) /\ stream'.pos = Len(bus)
        /\ stream'.lagged = stream.lagged /\ bus' = bus
    BY <1>6 DEF StreamSubscribes, Types, StreamRec
  <2>2. Missed' = {}
    <3>1. stream'.from + 1 .. stream'.pos = {}
      BY <1>0, <2>1
    <3> QED
      BY <3>1 DEF Missed
  <2>3. Cardinality(Missed') = 0
    BY <2>2, FS_EmptySet
  <2> QED
    BY <1>0, <2>1, <2>3
<1>7. CASE StreamPushes
  <2>1. /\ stream.pc = "live" /\ stream'.pc = "live" /\ stream.pos < Len(bus)
        /\ stream'.from = stream.from /\ stream'.pos = stream.pos + 1
        /\ stream'.lagged = stream.lagged /\ bus' = bus
        /\ stream'.sent = stream.sent \cup {bus[stream.pos + 1]}
    BY <1>7 DEF StreamPushes, Types, StreamRec
  <2>2. Missed' \subseteq Missed
    BY <1>0, <2>1 DEF Missed
  <2>3. Cardinality(Missed') <= Cardinality(Missed)
    BY <1>0, <2>2, FS_Subset
  <2>4. Cardinality(Missed') \in Nat
    BY <1>0, <2>2, FS_Subset, FS_CardinalityType
  <2> QED
    BY <1>0, <2>1, <2>3, <2>4
<1>8. CASE StreamLags
  <2> DEFINE skipped == stream.pos + 1 .. Len(bus) - BusCap
  <2>1. /\ stream.pc = "live" /\ stream'.pc = "live" /\ Len(bus) - stream.pos > BusCap
        /\ stream'.from = stream.from /\ stream'.pos = Len(bus) - BusCap
        /\ stream'.lagged = stream.lagged + Len(bus) - BusCap - stream.pos
        /\ stream'.sent = stream.sent /\ bus' = bus
    BY <1>8 DEF StreamLags, Types, StreamRec
  <2>2. BusCap \in Nat \ {0}
    BY EventStreamAssumption
  <2>3. Missed' \subseteq Missed \cup skipped
    BY <1>0, <2>1, <2>2 DEF Missed
  <2>4. IsFiniteSet(skipped) /\ Cardinality(skipped) = Len(bus) - BusCap - stream.pos
    <3>1. stream.pos + 1 \in Int /\ Len(bus) - BusCap \in Int
          /\ ~(stream.pos + 1 > Len(bus) - BusCap)
      BY <1>0, <2>1, <2>2
    <3> HIDE DEF EInv, OnTheBus
    <3>2. IsFiniteSet(skipped)
      BY <3>1, FS_Interval
    <3>3. Cardinality(skipped) = (Len(bus) - BusCap) - (stream.pos + 1) + 1
      BY <3>1, FS_Interval
    <3>4. (Len(bus) - BusCap) - (stream.pos + 1) + 1 = Len(bus) - BusCap - stream.pos
      BY <1>0, <2>2
    <3> QED
      BY <3>2, <3>3, <3>4
  <2>5. /\ IsFiniteSet(Missed \cup skipped)
        /\ Cardinality(Missed \cup skipped)
             = Cardinality(Missed) + Cardinality(skipped) - Cardinality(Missed \cap skipped)
        /\ Cardinality(Missed \cap skipped) \in Nat
    <3>1. IsFiniteSet(Missed \cap skipped)
      BY <1>0, FS_Subset, Missed \cap skipped \subseteq Missed
    <3> QED
      BY <1>0, <2>4, <3>1, FS_Union, FS_CardinalityType
  <2>6. /\ Cardinality(Missed') <= Cardinality(Missed \cup skipped)
        /\ Cardinality(Missed') \in Nat
    BY <2>3, <2>5, FS_Subset, FS_CardinalityType
  <2>7. Cardinality(Missed') <= stream'.lagged
    <3> HIDE DEF skipped
    <3> QED
      BY <1>0, <2>1, <2>2, <2>4, <2>5, <2>6
  <2> QED
    BY <1>0, <2>1, <2>2, <2>7
<1>9. CASE ConnectionEnds
  BY <1>3, <1>9 DEF ConnectionEnds, NoStream
<1>10. CASE Restart
  BY <1>3, <1>10 DEF Restart, NoStream
<1>11. CASE ReaderConnects
  <2>1. stream'.pc # "live" /\ stream'.pos = 0
    BY <1>11 DEF ReaderConnects, NoStream
  <2> QED
    BY <1>3, <2>1
<1>12. ASSUME NEW e \in Emitters, Insert(e) PROVE OnTheBus'
  BY <1>1, <1>12 DEF Insert
<1>13. CASE Prune
  BY <1>1, <1>13 DEF Prune
<1>14. CASE ReaderStep
  BY <1>1, <1>14 DEF ReaderStep, ReaderReads, ReaderSeesEnd
<1>15. CASE UNCHANGED eventVars
  BY <1>1, <1>15 DEF eventVars
<1> QED
  BY <1>2, <1>4, <1>5, <1>6, <1>7, <1>8, <1>9, <1>10, <1>11, <1>12, <1>13, <1>14, <1>15
     DEF Next, StreamStep

----------------------------------------------------------------------------
(* Every step keeps the account of what was stored                         *)

LEMMA NextKeepsReplay ==
    ASSUME EInv, [Next]_eventVars
    PROVE  Replayed'
<1> USE DEF EInv, Replayed
<1>1. ASSUME UNCHANGED stream PROVE Replayed'
  BY <1>1 DEF BeyondLimit
<1>2. ASSUME stream'.stored = {}, stream'.rest = {} PROVE Replayed'
  BY <1>2
<1>3. CASE StreamReads
  <2>1. CASE stream' = [stream EXCEPT !.pc = "replay", !.stored = table,
                                      !.rest = ListEventsSince(stream.since)]
    <3>1. /\ stream'.pc = "replay" /\ stream'.stored = table /\ stream'.since = stream.since
          /\ stream'.rest = ListEventsSince(stream.since)
      BY <2>1 DEF Types, StreamRec
    <3>2. ASSUME NEW r \in table
          PROVE  r \in stream'.rest \/ r.seq <= stream'.since \/ BeyondLimit(r)'
      <4> DEFINE before == {q \in table : stream.since < q.seq /\ q.seq < r.seq}
      <4>1. r.seq \in Nat /\ stream.since \in Nat /\ ReplayLimit \in Nat
        BY EventStreamAssumption DEF Types, StreamRec, Sequenced
      <4>2. CASE Cardinality(before) < ReplayLimit
        BY <3>1, <4>1, <4>2 DEF ListEventsSince
      <4>3. CASE ReplayLimit <= Cardinality(before)
        BY <3>1, <4>3 DEF BeyondLimit
      <4>4. CASE ~(Cardinality(before) < ReplayLimit) /\ ~(ReplayLimit <= Cardinality(before))
        <5>1. before \subseteq table
          OBVIOUS
        <5>2. IsFiniteSet(before)
          BY <5>1, FS_Subset
        <5>3. Cardinality(before) \in Nat
          BY <5>2, FS_CardinalityType
        <5> QED
          BY <4>1, <4>4, <5>3
      <4> QED
        BY <4>2, <4>3, <4>4
    <3> QED
      BY <3>1, <3>2
  <2>2. CASE stream' = [stream EXCEPT !.pc = "replay"]
    <3>1. stream'.stored = {} /\ stream'.pc = "replay"
      BY <1>3, <2>2 DEF StreamReads, Types, StreamRec
    <3> QED
      BY <3>1
  <2> QED
    BY <1>3, <2>1, <2>2 DEF StreamReads
<1>4. CASE StreamReplays
  <2>1. PICK r \in stream.rest :
             stream' = [stream EXCEPT !.rest = @ \ {r}, !.sent = @ \cup {r}]
    BY <1>4 DEF StreamReplays
  <2>2. /\ stream'.pc = "replay" /\ stream'.stored = stream.stored
        /\ stream'.since = stream.since
        /\ stream'.sent = stream.sent \cup {r} /\ stream'.rest = stream.rest \ {r}
    BY <1>4, <2>1 DEF StreamReplays, Types, StreamRec
  <2> QED
    BY <2>2 DEF BeyondLimit
<1>5. CASE StreamSubscribes
  <2>1. /\ stream'.pc = "live" /\ stream'.stored = stream.stored /\ stream'.since = stream.since
        /\ stream'.sent = stream.sent /\ stream'.rest = stream.rest /\ stream.rest = {}
    BY <1>5 DEF StreamSubscribes, Types, StreamRec
  <2> QED
    BY <2>1 DEF BeyondLimit
<1>6. CASE StreamPushes \/ StreamLags
  <2>1. /\ stream'.pc = "live" /\ stream.pc = "live"
        /\ stream'.stored = stream.stored /\ stream'.since = stream.since
        /\ stream.sent \subseteq stream'.sent /\ stream'.rest = stream.rest
    BY <1>6 DEF StreamPushes, StreamLags, Types, StreamRec
  <2> QED
    BY <2>1 DEF BeyondLimit
<1>7. CASE ConnectionEnds \/ Restart
  BY <1>2, <1>7 DEF ConnectionEnds, Restart, NoStream
<1>8. CASE ReaderConnects
  <2>1. stream'.stored = {} /\ stream'.rest = {}
    BY <1>8 DEF ReaderConnects, NoStream
  <2> QED
    BY <1>2, <2>1
<1>9. ASSUME NEW e \in Emitters, Insert(e) \/ Publish(e) PROVE Replayed'
  BY <1>1, <1>9 DEF Insert, Publish
<1>10. CASE Prune \/ ReaderStep \/ UNCHANGED eventVars
  BY <1>1, <1>10 DEF Prune, ReaderStep, ReaderReads, ReaderSeesEnd, eventVars
<1> QED
  BY <1>3, <1>4, <1>5, <1>6, <1>7, <1>8, <1>9, <1>10 DEF Next, StreamStep

----------------------------------------------------------------------------
(* Theorems                                                                *)

(* The inductive invariant holds in every reachable state. *)
THEOREM EventInvariance == Spec => []EInv
<1>1. EInv /\ [Next]_eventVars => EInv'
  BY NextKeepsTypes, NextKeepsFinite, NextKeepsSeqs, NextKeepsAccount, NextKeepsReplay DEF EInv
<1> QED
  BY InitEInv, <1>1, PTL DEF Spec

(* Type correctness: connections hold no more frames than they can, and a handler
   is never ahead of the bus. *)
THEOREM EventTypes == Spec => []EventTypeOK
<1>1. EInv => EventTypeOK
  <2> SUFFICES ASSUME EInv PROVE EventTypeOK
    OBVIOUS
  <2>1. Types /\ OnTheBus
    BY DEF EInv
  <2>2. stream.pos \in 0..Len(bus)
    BY <2>1 DEF Types, OnTheBus, StreamRec
  <2> QED
    BY <2>1, <2>2 DEF EventTypeOK, Types, StreamRec
<1> QED
  BY EventInvariance, <1>1, PTL

(* A live connection passes over no event on the bus without a comment that it
   did, however slow its reader is and however small the bus. *)
THEOREM LossesAreAnnounced == Spec => []LossesAnnounced
<1>1. EInv => LossesAnnounced
  BY DEF EInv, OnTheBus, Missed, LossesAnnounced
<1> QED
  BY EventInvariance, <1>1, PTL

(* A connection that has caught up and was told of no loss misses only events of
   the gap between its replay and its subscription, and those beyond the limit of
   the replay. *)
THEOREM NothingElseIsLost == Spec => []OnlyTheGapLoses
<1>1. EInv => OnlyTheGapLoses
  <2> SUFFICES ASSUME EInv, stream.pc = "live", stream.pos = Len(bus), stream.lagged = 0,
                      NEW r \in table \ stream.sent
               PROVE  \/ r.seq <= stream.since
                      \/ r \notin stream.stored /\ \A k \in stream.from + 1 .. Len(bus) : bus[k] # r
                      \/ BeyondLimit(r)
    BY DEF OnlyTheGapLoses, BeyondLimit
  <2>1. CASE r \in stream.stored
    BY <2>1 DEF EInv, Replayed
  <2>2. CASE r \notin stream.stored
    <3>1. IsFiniteSet(stream.from + 1 .. stream.pos)
      BY FS_Interval DEF EInv, Types, StreamRec
    <3>2. IsFiniteSet(Missed)
      BY <3>1, FS_Subset DEF Missed
    <3>3. Cardinality(Missed) \in Nat /\ Cardinality(Missed) <= 0
      BY <3>2, FS_CardinalityType DEF EInv, OnTheBus
    <3>4. Missed = {}
      BY <3>2, <3>3, FS_EmptySet
    <3>5. \A k \in stream.from + 1 .. Len(bus) : bus[k] \in stream.sent
      BY <3>4 DEF Missed
    <3> QED
      BY <2>2, <3>5
  <2> QED
    BY <2>1, <2>2
<1> QED
  BY EventInvariance, <1>1, PTL

(* No row is ever stored under a seq that the reader has already passed, through
   any number of prunings and restarts. *)
THEOREM SeqsKeepGrowing == Spec => SeqsGrow
<1>1. EInv /\ [Next]_eventVars => [\A r \in table' \ table : r.seq > reader.lastSeq]_eventVars
  <2> SUFFICES ASSUME EInv, Next, NEW r \in table' \ table
               PROVE  r.seq > reader.lastSeq
    OBVIOUS
  <2>1. lastRow \in Nat /\ reader.lastSeq \in Nat /\ reader.lastSeq <= lastRow
    BY DEF EInv, Types, SeqsGivenOut
  <2>2. ASSUME NEW e \in Emitters, Insert(e) PROVE r.seq = lastRow + 1
    BY <2>2 DEF Insert, NextSeq
  <2>3. ASSUME ~\E e \in Emitters : Insert(e) PROVE FALSE
    BY <2>3 DEF Next, Publish, Prune, StreamStep, StreamReads, StreamReplays, StreamSubscribes,
       StreamPushes, StreamLags, ConnectionEnds, Restart, ReaderConnects, ReaderStep, ReaderReads,
       ReaderSeesEnd
  <2> QED
    BY <2>1, <2>2, <2>3
<1> QED
  BY EventInvariance, <1>1, PTL DEF Spec, SeqsGrow
=============================================================================
