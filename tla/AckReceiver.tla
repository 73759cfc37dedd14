----------------------------- MODULE AckReceiver -----------------------------
(***************************************************************************)
(* The receiver side of one application-level send context as a whole:   *)
(* the range table of njt_quic_ack_packet (AckRanges) and the timing of   *)
(* njt_quic_generate_ack (AckDelay), which share ctx->send_ack.            *)
(*                                                                         *)
(* A packet is all of njt_quic_ack_packet: the need_ack prefix posts       *)
(* qc->push and stamps ack_delay_start on the first owed packet, then the *)
(* table is updated and send_ack may be forced to NJT_QUIC_MAX_ACK_GAP.   *)
(* The push handler runs generate_ack: when it decides to queue, the ACK  *)
(* frame is built from the table (AckRanges' GenerateAck); when it waits, *)
(* only the push timer may be armed.                                      *)
(***************************************************************************)
EXTENDS Integers

CONSTANTS MaxPn, MAX_RANGES, SendAckBound, MaxAckDelay

VARIABLES
    largest_range, first_range, ranges, pending_ack, send_ack,
    acksSent, live, unreported,             \* AckRanges
    delay, frames, posted, timer, closing   \* AckDelay (send_ack shared)

tableVars == <<largest_range, first_range, ranges, pending_ack, acksSent,
               live, unreported>>
timingVars == <<delay, frames, posted, timer, closing>>
vars == <<tableVars, send_ack, timingVars>>

R == INSTANCE AckRanges
D == INSTANCE AckDelay

\* njt_quic_ack_packet: the need_ack prefix (post push, stamp the delay
\* start when the first owed packet arrives), then the table.
Receive(pn, need) ==
    /\ R!Receive(pn, need)
    /\ posted' = (posted \/ need)
    /\ delay' = IF need /\ send_ack = 0 THEN 0 ELSE delay
    /\ UNCHANGED <<frames, timer, closing>>

\* The push handler: generate_ack either queues the ACK frame of the table
\* (send_ack becomes 0) or leaves the table alone.
Push ==
    /\ D!Push
    /\ IF send_ack # 0 /\ send_ack' = 0
       THEN R!GenerateAck
       ELSE UNCHANGED tableVars

\* The peer acknowledged one of our ACK frames.
Drop == \E pn \in acksSent : R!DropAckRanges(pn) /\ UNCHANGED timingVars

Init == R!Init /\ D!Init

Next ==
    \/ \E pn \in R!PN, need \in BOOLEAN : Receive(pn, need)
    \/ Drop
    \/ Push
    \/ D!QueueFrame /\ UNCHANGED tableVars
    \/ D!Close /\ UNCHANGED tableVars
    \/ D!Tick /\ UNCHANGED tableVars

\* The event loop runs posted events and expired timers, and time passes;
\* the peer, the application and closing are not fair.
Spec == Init /\ [][Next]_vars /\ WF_vars(Push) /\ WF_vars(D!Tick /\ UNCHANGED tableVars)

----------------------------------------------------------------------------
\* An owed ACK waits no longer than max_ack_delay from its first packet
\* while the connection is open, now also for packets that arrive out of
\* order and force send_ack to MAX_ACK_GAP.
AckDelayBounded == D!AckDelayBounded

\* An owed ACK is eventually queued, unless the connection closes:
\* generate_ack's wait always ends, because the push timer it arms (or one
\* already set, whatever its expiry) fires and re-arms for the rest of
\* max_ack_delay.  This is about the frame being queued; which packets the
\* frame still reports is the table's business (a packet evicted
\* unreported at a full table, as in run ack_unreported_eviction, is not
\* in it).
AckEventuallyQueued == (send_ack > 0) ~> (send_ack = 0 \/ closing)

====
