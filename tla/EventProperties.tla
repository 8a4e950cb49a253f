--------------------------- MODULE EventProperties ---------------------------
(* What a reader of GET /events can rely on. *)
EXTENDS EventStream

Sequenced == [seq : Nat, event : Nat]

(* Every variable has its type. *)
EventTypeOK ==
    /\ table \subseteq Sequenced
    /\ lastRow \in Nat /\ made \in Nat
    /\ emitter \in [Emitters -> Sequenced]
    /\ bus \in Seq(Sequenced)
    /\ stream.pc \in {"none", "read", "replay", "live"}
    /\ stream.rest \subseteq Sequenced /\ stream.pos \in 0..Len(bus)
    /\ stream.stored \subseteq Sequenced /\ stream.sent \subseteq Sequenced
    /\ Len(wire) <= WireCap
    /\ reader \in [pc : {"away", "reading", "gone"}, tui : BOOLEAN, lastSeq : Nat]

(* What a live connection has passed over on the bus is announced: a receiver
   that falls behind the bus loses events, never without the comment
   ("so the client knows it missed events", api/sse.rs). *)
LossesAnnounced ==
    stream.pc = "live" =>
        Cardinality({k \in stream.from + 1 .. stream.pos : bus[k] \notin stream.sent})
            <= stream.lagged

(* A connection that has caught up, and was told of no loss, has every stored
   event that it asked for, but those published before it subscribed and not in
   the table when it read that (or could not), and those beyond the limit of the
   replay: a restart of the daemon, pruning, events published in another order
   than stored, and seq 0 hide nothing more. *)
OnlyTheGapLoses ==
    stream.pc = "live" /\ stream.pos = Len(bus) /\ stream.lagged = 0 =>
        \A r \in table \ stream.sent :
            \/ r.seq <= stream.since
            \/ r \notin stream.stored /\ \A k \in stream.from + 1 .. Len(bus) : bus[k] # r
            \/ ReplayLimit <= Cardinality({q \in stream.stored :
                                             stream.since < q.seq /\ q.seq < r.seq})

(* A row is never stored under a seq that a reader is already past, as `since'
   would hide it for ever, even if pruning has emptied the table and the daemon
   was restarted in between. *)
SeqsGrow == [][\A r \in table' \ table : r.seq > reader.lastSeq]_eventVars

(* What was published while a connection is live is sent to it or announced as
   lost, or the connection ends: a slow reader delays events and loses some, but
   never stops the stream. *)
EventsGetThrough ==
    \A k \in 1..MaxEvents :
        stream.pc = "live" /\ Len(bus) >= k ~> (stream.pc # "live" \/ stream.pos >= k)

(* "The SSE stream delivered a new server event." (app/msg.rs): an event that the
   TUI reads from the stream reaches update as AppMsg::ServerEvent. *)
EventsReachUpdate ==
    [][reader.tui /\ wire # <<>> /\ wire' = Tail(wire) /\ "data" \in DOMAIN Head(wire)
         => Head(wire).data.at \in heard']_eventVars
=============================================================================
