----------------------------- MODULE AckRanges -----------------------------
(***************************************************************************)
(* Receiver side of one QUIC send context: the ACK range database that    *)
(* njt_quic_ack_packet updates on every received packet, that             *)
(* njt_quic_drop_ack_ranges truncates when the peer acknowledges one of   *)
(* our ACK frames, and that njt_quic_generate_ack turns into an ACK       *)
(* frame (src/src/event/quic/njt_event_quic_ack.c).                       *)
(*                                                                         *)
(* The database is kept as in the code: largest_range, first_range and    *)
(* ranges, a sequence of [gap, range] records whose length is nranges     *)
(* (ranges[k] here is ctx->ranges[k-1] in C).  Packet numbers are          *)
(* integers, so a subtraction that would wrap in uint64_t shows up as a    *)
(* negative number.                                                        *)
(***************************************************************************)
EXTENDS Integers, Sequences, SequencesExt, FiniteSets

CONSTANTS
    MaxPn,          \* packet numbers received are 0..MaxPn
    MAX_RANGES,     \* NJT_QUIC_MAX_RANGES
    SendAckBound    \* bound on the send_ack counter, to keep the model finite

ASSUME MaxPn \in Nat /\ MAX_RANGES \in Nat \ {0} /\ SendAckBound \in Nat

MAX_ACK_GAP == 2        \* NJT_QUIC_MAX_ACK_GAP
UNSET_PN == -1          \* NJT_QUIC_UNSET_PN, (uint64_t) -1 in C

PN == 0..MaxPn

VARIABLES
    largest_range,  \* ctx->largest_range
    first_range,    \* ctx->first_range
    ranges,         \* ctx->ranges[0 .. nranges-1]
    pending_ack,    \* ctx->pending_ack
    send_ack,       \* ctx->send_ack
    acksSent,       \* largest of every ACK frame queued so far
    live,           \* received and not dropped by a peer acknowledgement (history)
    unreported      \* ack-eliciting, live, and in no ACK frame queued yet (history)

vars == <<largest_range, first_range, ranges, pending_ack, send_ack,
          acksSent, live, unreported>>

(***************************************************************************)
(* Decoding the database into the blocks it acknowledges, largest first.  *)
(* Blocks[1] is the first range; Blocks[k+1] is the block of ranges[k].   *)
(***************************************************************************)
RECURSIVE BlocksBelow(_, _)
BlocksBelow(smallest, rs) ==
    IF rs = <<>> THEN <<>>
    ELSE LET hi == smallest - Head(rs).gap - 2
             lo == hi - Head(rs).range
         IN  <<[lo |-> lo, hi |-> hi]>> \o BlocksBelow(lo, Tail(rs))

Blocks ==
    IF largest_range = UNSET_PN THEN <<>>
    ELSE <<[lo |-> largest_range - first_range, hi |-> largest_range]>>
         \o BlocksBelow(largest_range - first_range, ranges)

Decoded == UNION {Blocks[k].lo .. Blocks[k].hi : k \in DOMAIN Blocks}

\* The missing packet numbers between Blocks[k] and Blocks[k+1]: gs..ge.
GapEnd(k) == Blocks[k].lo - 1
GapStart(k) == GapEnd(k) - ranges[k].gap

Init ==
    /\ largest_range = UNSET_PN
    /\ first_range = 0
    /\ ranges = <<>>
    /\ pending_ack = UNSET_PN
    /\ send_ack = 0
    /\ acksSent = {}
    /\ live = {}
    /\ unreported = {}

(***************************************************************************)
(* Queueing an ACK frame (njt_quic_send_ack, outside this file): its      *)
(* largest is ctx->largest_range.  Only the largest matters here, since   *)
(* it is what njt_quic_drop_ack_ranges receives when the frame is acked.  *)
(***************************************************************************)
AckQueued(largest) == acksSent \cup {largest}

\* Seeded fault: nranges is incremented even when the table is full.
InsertRangeUnbounded(rs, i, g, r) == InsertAt(rs, i, [gap |-> g, range |-> r])

\* Insertion at index i of a full table drops the last (oldest) range.
InsertRange(rs, i, g, r) ==
    LET ins == InsertAt(rs, i, [gap |-> g, range |-> r])
    IN  IF Len(rs) < MAX_RANGES THEN ins ELSE SubSeq(ins, 1, MAX_RANGES)

(***************************************************************************)
(* "no place for new range, send current range as is": with a full table, *)
(* an ACK is queued if one was pending before this packet, and            *)
(* pending_ack is cleared unless this packet itself raised it.            *)
(***************************************************************************)
\* The flush happens: the table is full and an ACK was pending.
Flushes(prev) == Len(ranges) = MAX_RANGES /\ prev # UNSET_PN

FlushIfFull(prev, pend, need) ==
    IF Len(ranges) = MAX_RANGES
    THEN /\ acksSent' = IF Flushes(prev) THEN AckQueued(largest_range)
                                        ELSE acksSent
         /\ pending_ack' = IF prev = pend \/ ~need THEN UNSET_PN ELSE pend
    ELSE /\ acksSent' = acksSent
         /\ pending_ack' = pend

(***************************************************************************)
(* The four ways njt_quic_ack_packet fills a packet number of gap k (the  *)
(* gap between Blocks[k] and the block of ranges[k]).  Each yields the    *)
(* new first_range (fr) and ranges (rs).                                  *)
(***************************************************************************)
\* Seeded fault: the merged range is one packet short ("+ 1" for "+ 2").
FillGapShort(k) ==
    IF k = 1
    THEN [fr |-> first_range + ranges[1].range + 1, rs |-> RemoveAt(ranges, 1)]
    ELSE [fr |-> first_range,
          rs |-> RemoveAt([ranges EXCEPT ![k-1].range = @ + ranges[k].range + 1], k)]

\* The gap held exactly this packet: ranges[k] is merged into the block above.
FillGap(k) ==
    IF k = 1
    THEN [fr |-> first_range + ranges[1].range + 2, rs |-> RemoveAt(ranges, 1)]
    ELSE [fr |-> first_range,
          rs |-> RemoveAt([ranges EXCEPT ![k-1].range = @ + ranges[k].range + 2], k)]

\* Seeded fault: the range grows but its gap is not shortened.
GrowRangeUpNoGap(k) ==
    [fr |-> first_range, rs |-> [ranges EXCEPT ![k].range = @ + 1]]

\* The packet is the gap's smallest: ranges[k] grows up by one.
GrowRangeUp(k) ==
    [fr |-> first_range,
     rs |-> [ranges EXCEPT ![k].gap = @ - 1, ![k].range = @ + 1]]

\* The packet is the gap's largest: the block above grows down by one.
GrowPreviousDown(k) ==
    IF k = 1
    THEN [fr |-> first_range + 1, rs |-> [ranges EXCEPT ![1].gap = @ - 1]]
    ELSE [fr |-> first_range,
          rs |-> [ranges EXCEPT ![k].gap = @ - 1, ![k-1].range = @ + 1]]

\* Seeded fault: the new range's gap counts one packet too few.
SplitGapShort(k, pn) ==
    InsertRange([ranges EXCEPT ![k].gap = pn - GapStart(k) - 1],
                k, GapEnd(k) - pn - 2, 0)

\* The packet is strictly inside the gap: a one-packet range is inserted at
\* index k, and ranges[k], shifted to k+1, keeps the rest of the gap.
SplitGap(k, pn) ==
    InsertRange([ranges EXCEPT ![k].gap = pn - GapStart(k) - 1],
                k, GapEnd(k) - pn - 1, 0)

SetTable(t) == first_range' = t.fr /\ ranges' = t.rs

(***************************************************************************)
(* njt_quic_ack_packet(pn, need_ack), after the keys check.  The prefix   *)
(* common to all branches (send_ack, ack_delay_start, pending_ack) is     *)
(* computed first; each branch then updates the range table.  An          *)
(* out-of-order ack-eliciting packet forces send_ack to MAX_ACK_GAP.      *)
(***************************************************************************)
Receive(pn, need) ==
    LET prev   == pending_ack
        pend   == IF need /\ (prev = UNSET_PN \/ prev < pn) THEN pn ELSE prev
        sa     == IF need THEN send_ack + 1 ELSE send_ack
        forced == IF need THEN MAX_ACK_GAP ELSE sa
        base   == largest_range
        small  == base - first_range
        n      == Len(ranges)
        owed   == IF need THEN {pn} ELSE {}
        \* the table as the flushed ACK frame reports it
        flushed == IF Flushes(prev) THEN Decoded ELSE {}
        Same(sendAck) ==
            /\ pending_ack' = pend /\ send_ack' = sendAck
            /\ UNCHANGED <<acksSent, largest_range, first_range, ranges>>
    IN
    /\ need => send_ack < SendAckBound
    /\ live' = live \cup {pn}
    /\ unreported' =
          IF base # UNSET_PN /\ (pn > base + 1 \/
                                 \E k \in 1..n : pn > GapStart(k) /\ pn < GapEnd(k))
          THEN (unreported \ flushed) \cup owed        \* the two flushing branches
          ELSE IF base # UNSET_PN /\ pn < Blocks[n+1].lo - 1 /\ n = MAX_RANGES
          THEN unreported                               \* acked on its own
          ELSE unreported \cup owed
    /\ \/ /\ base = UNSET_PN                       \* empty database
          /\ largest_range' = pn
          /\ pending_ack' = pend /\ send_ack' = sa
          /\ UNCHANGED <<acksSent, first_range, ranges>>
       \/ /\ base # UNSET_PN /\ pn = base          \* duplicate of largest
          /\ Same(sa)
       \/ /\ base # UNSET_PN /\ pn = base + 1      \* extends first range
          /\ largest_range' = pn
          /\ first_range' = first_range + 1
          /\ pending_ack' = pend /\ send_ack' = sa
          /\ UNCHANGED <<acksSent, ranges>>
       \/ /\ base # UNSET_PN /\ pn > base + 1      \* new gap in front
          /\ FlushIfFull(prev, pend, need)
          /\ largest_range' = pn
          /\ first_range' = 0
          /\ ranges' = InsertRange(ranges, 1, pn - base - 2, first_range)
          /\ send_ack' = forced
       \/ /\ base # UNSET_PN /\ pn < base
          /\ \/ /\ pn >= small                     \* inside first range
                /\ Same(forced)
             \/ \E k \in 1..n :                    \* inside gap k
                   /\ pn \in GapStart(k)..GapEnd(k)
                   /\ send_ack' = forced
                   /\ \/ /\ GapStart(k) = GapEnd(k)  \* one-packet gap filled
                         /\ SetTable(FillGap(k))
                         /\ pending_ack' = pend
                         /\ UNCHANGED <<acksSent, largest_range>>
                      \/ /\ GapStart(k) # GapEnd(k) /\ pn = GapStart(k)
                         /\ SetTable(GrowRangeUp(k))
                         /\ pending_ack' = pend
                         /\ UNCHANGED <<acksSent, largest_range>>
                      \/ /\ GapStart(k) # GapEnd(k) /\ pn = GapEnd(k)
                         /\ SetTable(GrowPreviousDown(k))
                         /\ pending_ack' = pend
                         /\ UNCHANGED <<acksSent, largest_range>>
                      \/ /\ pn > GapStart(k) /\ pn < GapEnd(k)  \* gap split
                         /\ FlushIfFull(prev, pend, need)
                         /\ ranges' = SplitGap(k, pn)
                         /\ UNCHANGED <<largest_range, first_range>>
             \/ /\ \E k \in 1..n : pn \in Blocks[k+1].lo .. Blocks[k+1].hi
                /\ Same(forced)                    \* already known
             \/ /\ pn = Blocks[n+1].lo - 1         \* extends the oldest range
                /\ IF n = 0
                   THEN /\ first_range' = first_range + 1
                        /\ UNCHANGED ranges
                   ELSE /\ ranges' = [ranges EXCEPT ![n].range = @ + 1]
                        /\ UNCHANGED first_range
                /\ pending_ack' = pend /\ send_ack' = forced
                /\ UNCHANGED <<acksSent, largest_range>>
             \/ /\ pn < Blocks[n+1].lo - 1         \* older than every range
                /\ IF n = MAX_RANGES
                   THEN \* too old to keep: njt_quic_send_ack_range(pn, pn)
                        /\ acksSent' = IF need THEN AckQueued(pn) ELSE acksSent
                        /\ UNCHANGED ranges
                   ELSE /\ ranges' = InsertRange(ranges, n + 1,
                                                 Blocks[n+1].lo - 2 - pn, 0)
                        /\ UNCHANGED acksSent
                /\ pending_ack' = pend /\ send_ack' = forced
                /\ UNCHANGED <<largest_range, first_range>>

(***************************************************************************)
(* njt_quic_drop_ack_ranges(pn): the peer acknowledged an ACK frame of    *)
(* ours whose largest was pn, so numbers up to pn need not be acked again.*)
(***************************************************************************)
DropAckRanges(pn) ==
    LET below == {k \in 1..Len(ranges) : pn >= Blocks[k+1].lo}
        k     == CHOOSE j \in below : \A i \in below : j <= i
    IN
    /\ largest_range # UNSET_PN
    /\ pending_ack' = IF pending_ack # UNSET_PN /\ pn >= pending_ack
                      THEN UNSET_PN ELSE pending_ack
    /\ live' = {p \in live : p > pn}
    /\ unreported' = {p \in unreported : p > pn}
    /\ \/ /\ pn >= largest_range
          /\ largest_range' = UNSET_PN
          /\ first_range' = 0
          /\ ranges' = <<>>
       \/ /\ pn < largest_range /\ pn >= Blocks[1].lo
          /\ first_range' = largest_range - pn - 1
          /\ ranges' = <<>>
          /\ UNCHANGED largest_range
       \/ /\ pn < Blocks[1].lo
          /\ ranges' = IF below = {} THEN ranges
                       ELSE IF pn >= Blocks[k+1].hi THEN SubSeq(ranges, 1, k - 1)
                       ELSE [SubSeq(ranges, 1, k) EXCEPT
                                ![k].range = Blocks[k+1].hi - pn - 1]
          /\ UNCHANGED <<largest_range, first_range>>
    /\ UNCHANGED <<send_ack, acksSent>>

(***************************************************************************)
(* njt_quic_generate_ack: with acks owed, either wait (application level, *)
(* no other frames, fewer than MAX_ACK_GAP owed and max_ack_delay not     *)
(* yet elapsed: only the push timer is armed, no state here changes) or   *)
(* queue an ACK frame and clear send_ack.  Whether the delay has elapsed  *)
(* or other frames are queued is chosen by the environment.               *)
(***************************************************************************)
GenerateAck ==
    /\ send_ack # 0
    /\ acksSent' = IF largest_range # UNSET_PN THEN AckQueued(largest_range)
                                               ELSE acksSent
    /\ send_ack' = 0
    /\ unreported' = unreported \ Decoded
    /\ UNCHANGED <<largest_range, first_range, ranges, pending_ack, live>>

Next ==
    \/ \E pn \in PN, need \in BOOLEAN : Receive(pn, need)
    \/ \E pn \in acksSent : DropAckRanges(pn)
    \/ GenerateAck

Spec == Init /\ [][Next]_vars

-----------------------------------------------------------------------------
(***************************************************************************)
(* Properties.                                                             *)
(***************************************************************************)

TypeOK ==
    /\ largest_range \in PN \cup {UNSET_PN}
    /\ first_range \in Nat
    /\ ranges \in Seq([gap : Nat, range : Nat])
    /\ pending_ack \in PN \cup {UNSET_PN}
    /\ send_ack \in 0..SendAckBound
    /\ acksSent \subseteq PN
    /\ live \subseteq PN
    /\ unreported \subseteq PN

\* The table never holds more than MAX_RANGES ranges, an empty database has
\* no ranges, and no packet number computed while decoding it goes below
\* zero (in C such a value would wrap around to a huge uint64_t).  Breaking
\* it takes a merge, split or truncation with wrong gap arithmetic.
WellFormed ==
    /\ Len(ranges) <= MAX_RANGES
    /\ largest_range = UNSET_PN => first_range = 0 /\ ranges = <<>>
    /\ \A k \in DOMAIN Blocks : Blocks[k].lo >= 0

\* The database implements the abstract AckSet: every reception and every
\* truncation of njt_quic_ack_packet / njt_quic_drop_ack_ranges changes the
\* acknowledged set exactly as AckSet allows (add the packet, forget the
\* oldest run on overflow, forget everything up to the acked largest).
Abs == INSTANCE AckSet WITH tracked <- Decoded, MaxRuns <- MAX_RANGES + 1
AckSetRefinement == Abs!Spec

\* An ack-eliciting packet leaves the table only after an ACK frame that
\* reports it has been queued (RFC 9000 13.2.1: every ack-eliciting packet
\* is acknowledged): the flush before a full table evicts its oldest range
\* must cover every such packet, which pending_ack is meant to track.
NoUnreportedEviction == unreported \subseteq Decoded

=============================================================================
