---------------------------- MODULE LossRecovery ----------------------------
(***************************************************************************)
(* Sender side of QUIC loss recovery and congestion control              *)
(* (src/src/event/quic/njt_event_quic_ack.c): the per-level send contexts, *)
(* handling of the peer's ACK frames, RTT sampling, loss detection by     *)
(* packet and time threshold, resending of lost frames, NewReno            *)
(* congestion control, and the single timer that serves as loss timer or  *)
(* PTO timer.                                                              *)
(*                                                                         *)
(* The connection is one record, qc, laid out like njt_quic_connection_t. *)
(* Every C function of the file is an operator from a connection record   *)
(* to a new one, so a handler is the composition of the functions it      *)
(* calls, in the order it calls them, and is one atomic step: the event   *)
(* loop is single-threaded and none of these functions suspends.          *)
(*                                                                         *)
(* The sender (njt_quic_output, frame_sendto), the peer and the network   *)
(* are outside this file; they are modelled from the spec as the          *)
(* environment: the network loses and reorders packets at will, so the   *)
(* peer may acknowledge any set of the packets sent, in any order and any *)
(* number of times.                                                        *)
(***************************************************************************)
EXTENDS Integers, Sequences, SequencesExt, FiniteSets

CONSTANTS
    Levels,           \* encryption levels (send contexts)
    LevelOrder,       \* the order of qc->send_ctx[]
    App,              \* ssl_encryption_application
    MSS,              \* qc->tp.max_udp_payload_size
    PktLen,           \* plen of a packet (bytes counted in flight)
    InitWindow,       \* congestion window set at connection creation
    InitialRtt,       \* NJT_QUIC_INITIAL_RTT
    MaxAckDelay,      \* qc->ctp.max_ack_delay (ms)
    AckDelayExponent, \* qc->ctp.ack_delay_exponent
    AckDelays,        \* raw ack.delay values the peer may send
    MaxIdleTimeout,   \* qc->tp.max_idle_timeout (ms)
    Handshaked,       \* c->ssl->handshaked
    Hostile,          \* whether the peer may send malformed ACK frames
    BadAcks,          \* malformed ACK frames a hostile peer may send
    MaxPn,            \* bound: packet numbers of a level are 0..MaxPn
    MaxTime,          \* bound: the clock runs from 0 to MaxTime
    MaxPto,           \* bound on pto_count
    MaxData           \* bound: number of data frames the application writes

ASSUME /\ App \in Levels /\ Len(LevelOrder) = Cardinality(Levels)
       /\ {LevelOrder[i] : i \in DOMAIN LevelOrder} = Levels
       /\ InitWindow >= 2 * MSS

PKT_THR == 3                      \* NJT_QUIC_PKT_THR
TIME_GRANULARITY == 1             \* NJT_QUIC_TIME_GRANULARITY
PERSISTENT_CONGESTION_THR == 3    \* NJT_QUIC_PERSISTENT_CONGESTION_THR
MAX_ACK_GAP == 2                  \* NJT_QUIC_MAX_ACK_GAP
UNSET_PN == -1                    \* NJT_QUIC_UNSET_PN
INFINITE == 1000000               \* NJT_TIMER_INFINITE: above every clock value
RstPnum == 0                      \* qc->rst_pnum (no path reset is modelled)

Mx(a, b) == IF a >= b THEN a ELSE b
Mn(a, b) == IF a <= b THEN a ELSE b
Abs(a) == IF a >= 0 THEN a ELSE -a
SetMin(S) == CHOOSE x \in S : \A y \in S : x <= y
SetMax(S) == CHOOSE x \in S : \A y \in S : x >= y

VARIABLES
    now,        \* njt_current_msec
    qc,         \* the connection
    error,      \* "none" until ACK handling or a PTO probe fails and the connection closes
    reset       \* ids of data frames whose stream has been reset

vars == <<now, qc, error, reset>>

Frame == [pnum : Int, send_time : Int, plen : Nat,
          type : {"data", "ack", "ping"}, id : Int]

NoTimer == [handler |-> "none", at |-> 0]

(***************************************************************************)
(* njt_quic_lost_threshold                                                 *)
(***************************************************************************)
LostThreshold(c) ==
    LET thr0 == Mx(c.latest_rtt, c.avg_rtt)
        thr  == thr0 + thr0 \div 8
    IN  Mx(thr, TIME_GRANULARITY)

(***************************************************************************)
(* njt_quic_pto: the probe timeout of a level, before the pto_count shift *)
(***************************************************************************)
Pto(c, l) ==
    c.avg_rtt + Mx(4 * c.rttvar, TIME_GRANULARITY)
    + (IF l = App /\ Handshaked THEN MaxAckDelay ELSE 0)

(***************************************************************************)
(* njt_quic_congestion_ack(f)                                              *)
(***************************************************************************)
\* (a seeded fault: the recovery early exit taken before in_flight is
\* decremented)
CongestionAckRecoveryFirst(c, f) ==
    IF f.send_time - c.cg.recovery_start <= 0 THEN c
    ELSE [c EXCEPT !.cg.in_flight = @ - f.plen]

CongestionAck(c, f) ==
    LET cg      == c.cg
        blocked == cg.in_flight >= cg.window
        inf     == cg.in_flight - f.plen
        grow    == f.send_time - cg.recovery_start > 0
        win     == IF ~grow THEN cg.window
                   ELSE IF cg.window < cg.ssthresh THEN cg.window + f.plen
                   ELSE cg.window + (MSS * f.plen) \div cg.window
        rs      == IF grow /\ cg.recovery_start - now + MaxIdleTimeout * 2 < 0
                   THEN now - MaxIdleTimeout * 2 ELSE cg.recovery_start
    IN  IF f.plen = 0 \/ f.pnum < RstPnum THEN c
        ELSE [c EXCEPT !.cg = [@ EXCEPT !.in_flight = inf, !.window = win,
                                        !.recovery_start = rs],
                       !.push = @ \/ (blocked /\ inf < win)]

(***************************************************************************)
(* njt_quic_congestion_lost(f), on the first frame of a lost packet        *)
(***************************************************************************)
\* (a seeded fault: the halved window is not raised to 2 * MSS)
CongestionLostNoFloor(c, f) ==
    LET cg      == c.cg
        blocked == cg.in_flight >= cg.window
        inf     == cg.in_flight - f.plen
        reduce  == f.send_time - cg.recovery_start > 0
        win     == IF reduce THEN cg.window \div 2 ELSE cg.window
    IN  IF f.plen = 0 \/ f.pnum < RstPnum THEN c
        ELSE [c EXCEPT !.cg = [@ EXCEPT
                          !.in_flight = inf,
                          !.window = win,
                          !.ssthresh = IF reduce THEN win ELSE @,
                          !.recovery_start = IF reduce THEN now ELSE @],
                       !.push = @ \/ (blocked /\ inf < win)]

CongestionLost(c, f) ==
    LET cg      == c.cg
        blocked == cg.in_flight >= cg.window
        inf     == cg.in_flight - f.plen
        reduce  == f.send_time - cg.recovery_start > 0
        win     == IF reduce THEN Mx(cg.window \div 2, MSS * 2) ELSE cg.window
    IN  IF f.plen = 0 \/ f.pnum < RstPnum THEN c
        ELSE [c EXCEPT !.cg = [@ EXCEPT
                          !.in_flight = inf,
                          !.window = win,
                          !.ssthresh = IF reduce THEN win ELSE @,
                          !.recovery_start = IF reduce THEN now ELSE @],
                       !.push = @ \/ (blocked /\ inf < win)]

(***************************************************************************)
(* njt_quic_persistent_congestion and njt_quic_pcg_duration               *)
(***************************************************************************)
PersistentCongestion(c) ==
    [c EXCEPT !.cg = [@ EXCEPT !.recovery_start = now, !.window = MSS * 2]]

PcgDuration(c) ==
    (c.avg_rtt + Mx(4 * c.rttvar, TIME_GRANULARITY) + MaxAckDelay)
    * PERSISTENT_CONGESTION_THR

(***************************************************************************)
(* njt_quic_rtt_sample(ack, send_time)                                     *)
(***************************************************************************)
RttSample(c, delay, send_time) ==
    LET latest == now - send_time
        minr   == Mn(c.min_rtt, latest)
        ad0    == (delay * 2^AckDelayExponent) \div 1000
        ad     == IF Handshaked THEN Mn(ad0, MaxAckDelay) ELSE ad0
        adj    == IF minr + ad < latest THEN latest - ad ELSE latest
    IN  IF c.min_rtt = INFINITE
        THEN [c EXCEPT !.latest_rtt = latest, !.min_rtt = latest,
                       !.avg_rtt = latest, !.rttvar = latest \div 2,
                       !.first_rtt = now]
        ELSE [c EXCEPT !.latest_rtt = latest, !.min_rtt = minr,
                       !.rttvar = @ + Abs(c.avg_rtt - adj) \div 4 - @ \div 4,
                       !.avg_rtt = @ + adj \div 8 - @ \div 8]

\* congestion_ack on each frame of fs in turn, as the walk in
\* handle_ack_frame_range does.
RECURSIVE CongestionAckAll(_, _)
CongestionAckAll(c, fs) ==
    IF fs = <<>> THEN c ELSE CongestionAckAll(CongestionAck(c, Head(fs)), Tail(fs))

(***************************************************************************)
(* njt_quic_handle_ack_frame_range(min, max, st).  Walks sent from the    *)
(* head until a packet number above max, acknowledging every frame in     *)
(* min..max: congestion_ack, the stream-ack hook (its effect here is      *)
(* recording the frame id in acked), the send times in st.  Returns the   *)
(* new connection, the new st and whether the range was acceptable.       *)
(***************************************************************************)
AckRange(c, l, min, max, st) ==
    LET s     == c.ctx[l].sent
        over  == {i \in DOMAIN s : s[i].pnum > max}
        walk  == IF over = {} THEN Len(s) ELSE SetMin(over) - 1
        pre   == SubSeq(s, 1, walk)
        hit   == SelectSeq(pre, LAMBDA f : f.pnum >= min)
        times == {hit[i].send_time : i \in DOMAIN hit}
        atMax == {i \in DOMAIN hit : hit[i].pnum = max}
        st1   == [max_pn |-> IF atMax = {} THEN INFINITE
                             ELSE hit[SetMax(atMax)].send_time,
                  oldest |-> IF times = {} THEN st.oldest
                             ELSE IF st.oldest = INFINITE THEN SetMin(times)
                             ELSE Mn(st.oldest, SetMin(times)),
                  newest |-> IF times = {} THEN st.newest
                             ELSE IF st.newest = INFINITE THEN SetMax(times)
                             ELSE Mx(st.newest, SetMax(times))]
        c1    == CongestionAckAll(c, hit)
        ids   == {hit[i].id : i \in {j \in DOMAIN hit : hit[j].type = "data"}}
    IN  IF hit = <<>>
        THEN [c |-> c, st |-> st1, ok |-> max < c.ctx[l].pnum]
        ELSE [c |-> [c1 EXCEPT
                        !.ctx[l].sent = SelectSeq(pre, LAMBDA f : f.pnum < min)
                                        \o SubSeq(s, walk + 1, Len(s)),
                        !.acked = @ \cup ids,
                        !.push = @ \/ ~c.push_timer,
                        !.pto_count = 0],
              st |-> st1, ok |-> TRUE]

(***************************************************************************)
(* njt_quic_resend_frames(ctx): the packet at the head of sent is lost.   *)
(* congestion_lost is called on its first frame; every frame of the       *)
(* packet leaves sent.  Lost ACK frames force a new acknowledgement at    *)
(* the application level; PINGs are dropped; a data frame is requeued at  *)
(* the tail of ctx->frames unless its stream has been reset.              *)
(***************************************************************************)
PacketLen(s) ==
    LET other == {i \in DOMAIN s : s[i].pnum # s[1].pnum}
    IN  IF other = {} THEN Len(s) ELSE SetMin(other) - 1

\* (a seeded fault: the reset-stream test inverted)
RequeuedInverted(f) == f.type = "data" /\ f.id \in reset

Requeued(f) == f.type = "data" /\ f.id \notin reset

\* (a seeded fault: the push event is not posted after a resend)
ResendFramesNoPush(c, l) ==
    LET s    == c.ctx[l].sent
        n    == PacketLen(s)
        pkt  == SubSeq(s, 1, n)
        c1   == CongestionLost(c, Head(s))
        lostAck == \E i \in DOMAIN pkt : pkt[i].type = "ack"
    IN  [c1 EXCEPT
            !.ctx[l].sent = SubSeq(s, n + 1, Len(s)),
            !.ctx[l].frames = @ \o SelectSeq(pkt, Requeued),
            !.ctx[l].send_ack = IF lostAck /\ l = App THEN MAX_ACK_GAP ELSE @]

ResendFrames(c, l) ==
    LET s    == c.ctx[l].sent
        n    == PacketLen(s)
        pkt  == SubSeq(s, 1, n)
        c1   == CongestionLost(c, Head(s))
        lostAck == \E i \in DOMAIN pkt : pkt[i].type = "ack"
    IN  [c1 EXCEPT
            !.ctx[l].sent = SubSeq(s, n + 1, Len(s)),
            !.ctx[l].frames = @ \o SelectSeq(pkt, Requeued),
            !.ctx[l].send_ack = IF lostAck /\ l = App THEN MAX_ACK_GAP ELSE @,
            !.push = TRUE]

(***************************************************************************)
(* njt_quic_set_lost_timer: the loss timer if some level has a packet at  *)
(* or below its largest acked, else the PTO timer if some level has a     *)
(* packet in flight, else no timer.                                       *)
(***************************************************************************)
\* (a seeded fault: a context is skipped while its largest_ack is unset)
SetLostTimerAckedOnly(c) ==
    LET busy    == {l \in Levels : c.ctx[l].sent # <<>> /\ c.ctx[l].largest_ack # UNSET_PN}
        lossLv  == {l \in busy : c.ctx[l].largest_ack # UNSET_PN
                                 /\ Head(c.ctx[l].sent).pnum <= c.ctx[l].largest_ack}
        LostW(l) == LET f == Head(c.ctx[l].sent)
                        w == f.send_time + LostThreshold(c) - now
                    IN  IF w < 0 \/ c.ctx[l].largest_ack - f.pnum >= PKT_THR
                        THEN 0 ELSE w
        PtoW(l)  == Mx(Last(c.ctx[l].sent).send_time
                       + Pto(c, l) * 2^c.pto_count - now, 0)
    IN  [c EXCEPT !.timer =
            IF lossLv # {} THEN [handler |-> "lost",
                                 at |-> now + SetMin({LostW(l) : l \in lossLv})]
            ELSE IF busy # {} THEN [handler |-> "pto",
                                    at |-> now + SetMin({PtoW(l) : l \in busy})]
            ELSE NoTimer]

SetLostTimer(c) ==
    LET busy    == {l \in Levels : c.ctx[l].sent # <<>>}
        lossLv  == {l \in busy : c.ctx[l].largest_ack # UNSET_PN
                                 /\ Head(c.ctx[l].sent).pnum <= c.ctx[l].largest_ack}
        LostW(l) == LET f == Head(c.ctx[l].sent)
                        w == f.send_time + LostThreshold(c) - now
                    IN  IF w < 0 \/ c.ctx[l].largest_ack - f.pnum >= PKT_THR
                        THEN 0 ELSE w
        PtoW(l)  == Mx(Last(c.ctx[l].sent).send_time
                       + Pto(c, l) * 2^c.pto_count - now, 0)
    IN  [c EXCEPT !.timer =
            IF lossLv # {} THEN [handler |-> "lost",
                                 at |-> now + SetMin({LostW(l) : l \in lossLv})]
            ELSE IF busy # {} THEN [handler |-> "pto",
                                    at |-> now + SetMin({PtoW(l) : l \in busy})]
            ELSE NoTimer]

(***************************************************************************)
(* njt_quic_detect_lost(st).  hasSt is FALSE when called from the loss    *)
(* timer (st == NULL).  Each level is scanned from the head of sent; a    *)
(* packet is lost once it is PKT_THR below the largest acked or its time  *)
(* threshold has passed.                                                   *)
(***************************************************************************)
\* The test of the loop body: is the head packet start of context x lost?
\* (a seeded fault: the time test made inclusive, wait >= 0)
LostAtZero(x, start, thr) ==
    ~(start.send_time + thr - now >= 0 /\ x.largest_ack - start.pnum < PKT_THR)

\* (a seeded fault: either test alone keeps the packet)
LostEither(x, start, thr) ==
    ~(start.send_time + thr - now > 0 \/ x.largest_ack - start.pnum < PKT_THR)

Lost(x, start, thr) ==
    ~(start.send_time + thr - now > 0 /\ x.largest_ack - start.pnum < PKT_THR)

RECURSIVE LostLoop(_, _, _, _)
LostLoop(c, l, thr, acc) ==
    LET x     == c.ctx[l]
        start == Head(x.sent)
        count == start.send_time > c.first_rtt
        acc1  == [oldest |-> IF acc.oldest = INFINITE \/ start.send_time < acc.oldest
                             THEN start.send_time ELSE acc.oldest,
                  newest |-> IF acc.newest = INFINITE \/ start.send_time > acc.newest
                             THEN start.send_time ELSE acc.newest,
                  nlost  |-> acc.nlost + 1]
    IN  IF x.sent = <<>> \/ start.pnum > x.largest_ack \/ ~Lost(x, start, thr)
        THEN [c |-> c, acc |-> acc]
        ELSE LostLoop(ResendFrames(c, l), l, thr, IF count THEN acc1 ELSE acc)

RECURSIVE LevelsLoop(_, _, _, _)
LevelsLoop(c, thr, acc, i) ==
    IF i > Len(LevelOrder) THEN [c |-> c, acc |-> acc]
    ELSE LET l == LevelOrder[i]
             r == IF c.ctx[l].largest_ack = UNSET_PN THEN [c |-> c, acc |-> acc]
                  ELSE LostLoop(c, l, thr, acc)
         IN  LevelsLoop(r.c, thr, r.acc, i + 1)

DetectLost(c, st, hasSt) ==
    LET r   == LevelsLoop(c, LostThreshold(c),
                          [oldest |-> INFINITE, newest |-> INFINITE, nlost |-> 0], 1)
        a   == r.acc
        pcg == /\ hasSt /\ a.nlost >= 2
               /\ (st.newest < a.oldest \/ st.oldest > a.newest)
               /\ a.newest - a.oldest > PcgDuration(r.c)
    IN  SetLostTimer(IF pcg THEN PersistentCongestion(r.c) ELSE r.c)

(***************************************************************************)
(* njt_quic_handle_ack_frame.  Returns the connection after the frame and *)
(* the error it raised ("none" when it was accepted).                     *)
(***************************************************************************)
RECURSIVE MoreRanges(_, _, _, _, _)
MoreRanges(c, l, st, min, rs) ==
    IF rs = <<>> THEN [c |-> c, st |-> st, err |-> "none"]
    ELSE LET gap   == Head(rs).gap
             range == Head(rs).range
             max   == min - gap - 2
             r     == AckRange(c, l, max - range, max, st)
         IN  IF gap + 2 > min \/ range > max
             THEN [c |-> c, st |-> st, err |-> "FRAME_ENCODING_ERROR"]
             ELSE IF ~r.ok THEN [c |-> r.c, st |-> r.st, err |-> "PROTOCOL_VIOLATION"]
             ELSE MoreRanges(r.c, l, r.st, max - range, Tail(rs))

HandleAckFrame(c, l, ack, delay) ==
    LET min == ack.largest - ack.first_range
        max == ack.largest
        r1  == AckRange(c, l, min, max, [max_pn |-> INFINITE,
                                         oldest |-> INFINITE, newest |-> INFINITE])
        x   == r1.c.ctx[l]
        upd == x.largest_ack < max \/ x.largest_ack = UNSET_PN
        c2  == IF ~upd THEN r1.c
               ELSE LET c1 == [r1.c EXCEPT !.ctx[l].largest_ack = max]
                    IN  IF r1.st.max_pn # INFINITE
                        THEN RttSample(c1, delay, r1.st.max_pn) ELSE c1
        r3  == MoreRanges(c2, l, r1.st, min, ack.ranges)
    IN  IF ack.first_range > ack.largest
        THEN [c |-> c, err |-> "FRAME_ENCODING_ERROR"]
        ELSE IF ~r1.ok THEN [c |-> r1.c, err |-> "PROTOCOL_VIOLATION"]
        ELSE IF r3.err # "none" THEN [c |-> r3.c, err |-> r3.err]
        ELSE [c |-> DetectLost(r3.c, r3.st, TRUE), err |-> "none"]

(***************************************************************************)
(* The encoding of an ACK frame for a set S of packet numbers (RFC 9000   *)
(* 19.3): largest, first_range, then (gap, range) pairs, largest first.   *)
(***************************************************************************)
RECURSIVE Descending(_)
Descending(S) == IF S = {} THEN <<>> ELSE <<SetMax(S)>> \o Descending(S \ {SetMax(S)})

Runs(S) ==
    LET his == Descending({p \in S : p + 1 \notin S})
        Lo(h) == SetMin({p \in S : p <= h /\ \A q \in p..h : q \in S})
    IN  [k \in DOMAIN his |-> [lo |-> Lo(his[k]), hi |-> his[k]]]

EncodeAck(S) ==
    LET R == Runs(S)
    IN  [largest |-> R[1].hi, first_range |-> R[1].hi - R[1].lo,
         ranges |-> [k \in 1..Len(R) - 1 |->
                        [gap |-> R[k].lo - R[k+1].hi - 2,
                         range |-> R[k+1].hi - R[k+1].lo]]]

-----------------------------------------------------------------------------
(***************************************************************************)
(* Environment, modelled from the spec: the sender (njt_quic_output and   *)
(* njt_quic_frame_sendto), the application, the peer and the network.     *)
(***************************************************************************)

\* One packet carrying the head of ctx->frames, and an ACK frame when one is
\* owed; plen is counted on the first frame of the packet only.
SendPacket(c, l, withAck) ==
    LET x   == c.ctx[l]
        f   == [Head(x.frames) EXCEPT !.pnum = x.pnum, !.send_time = now,
                                      !.plen = PktLen]
        ack == [pnum |-> x.pnum, send_time |-> now, plen |-> 0,
                type |-> "ack", id |-> 0]
    IN  [c EXCEPT !.ctx[l].sent = @ \o <<f>> \o (IF withAck THEN <<ack>> ELSE <<>>),
                  !.ctx[l].frames = Tail(@),
                  !.ctx[l].pnum = @ + 1,
                  !.ctx[l].send_ack = IF withAck THEN 0 ELSE @,
                  !.cg.in_flight = @ + PktLen]

\* A packet holding only an ACK frame is not ack-eliciting: it takes a
\* packet number but never enters sent.
SendAckOnly(c, l) ==
    [c EXCEPT !.ctx[l].pnum = @ + 1, !.ctx[l].send_ack = 0]

\* njt_quic_generate_ack decides whether an ACK goes out now; at the
\* application level a single owed ACK may wait for max_ack_delay unless
\* other frames are queued (expired: the delay has run out).
AckDue(c, l, expired) ==
    LET x == c.ctx[l]
    IN  x.send_ack > 0
        /\ (l # App \/ x.frames # <<>> \/ x.send_ack >= MAX_ACK_GAP \/ expired)

RECURSIVE SendLevel(_, _, _)
SendLevel(c, l, expired) ==
    LET x == c.ctx[l]
    IN  IF x.pnum > MaxPn THEN c
        ELSE IF x.frames # <<>> /\ c.cg.in_flight < c.cg.window
        THEN SendLevel(SendPacket(c, l, AckDue(c, l, expired)), l, expired)
        ELSE IF AckDue(c, l, expired) THEN SendAckOnly(c, l)
        ELSE IF x.send_ack > 0 THEN [c EXCEPT !.push_timer = TRUE]
        ELSE c

RECURSIVE SendLevels(_, _, _)
SendLevels(c, ls, expired) ==
    IF ls = <<>> THEN c ELSE SendLevels(SendLevel(c, Head(ls), expired), Tail(ls), expired)

\* The push handler: send what the window allows at every level (an ACK
\* that may still wait arms the push timer, generate_ack 1173-1175), then
\* re-arm the loss/PTO timer.
PushHandler(c, expired) == SetLostTimer(SendLevels(c, LevelOrder, expired))

\* The posted push event runs; a push timer already set stays set.
Output(expired) ==
    /\ error = "none"
    /\ qc.push
    /\ qc' = PushHandler([qc EXCEPT !.push = FALSE], expired)
    /\ UNCHANGED <<now, error, reset>>

\* The push timer expires: the event loop deletes it and runs the handler;
\* a push event posted meanwhile stays posted.
PushTimer(expired) ==
    /\ error = "none"
    /\ qc.push_timer
    /\ qc' = PushHandler([qc EXCEPT !.push_timer = FALSE], expired)
    /\ UNCHANGED <<now, error, reset>>

\* The application (or the handshake, below the application level) queues
\* a new data frame.
Write(l) ==
    LET id == qc.nextId
    IN  /\ error = "none"
        /\ id < MaxData
        /\ qc' = [qc EXCEPT !.ctx[l].frames = Append(@, [pnum |-> UNSET_PN,
                                send_time |-> 0, plen |-> 0, type |-> "data", id |-> id]),
                            !.nextId = @ + 1,
                            !.push = TRUE]
        /\ UNCHANGED <<now, error, reset>>

\* A stream is reset: frames of it that are later declared lost are dropped.
ResetStream(id) ==
    /\ error = "none"
    /\ id < qc.nextId /\ id \notin reset
    /\ reset' = reset \cup {id}
    /\ UNCHANGED <<now, qc, error>>

\* An ack-eliciting packet of the peer arrives (njt_quic_ack_packet): one
\* more ACK is owed and the push event is posted.
PeerPacket(l) ==
    /\ error = "none"
    /\ qc.ctx[l].send_ack < MAX_ACK_GAP
    /\ qc' = [qc EXCEPT !.ctx[l].send_ack = @ + 1, !.push = TRUE]
    /\ UNCHANGED <<now, error, reset>>

\* The peer's ACK frame for level l reaches us: njt_quic_handle_ack_frame.
ReceiveAck(l, ack, delay) ==
    LET r == HandleAckFrame(qc, l, ack, delay)
    IN  /\ error = "none"
        /\ qc' = r.c
        /\ error' = r.err
        /\ UNCHANGED <<now, reset>>

\* An honest peer acknowledges a set S of packet numbers sent.  Frames
\* whose sets agree on max(S) and on the packets still in sent have the
\* same effect (a range holding no packet of sent only passes the
\* "max < ctx->pnum" check), so S is one largest m and packets in flight.
SentPnums(l) == {qc.ctx[l].sent[i].pnum : i \in DOMAIN qc.ctx[l].sent}

PeerAck(l) ==
    \E m \in 0..qc.ctx[l].pnum - 1, d \in AckDelays :
        \E T \in SUBSET {p \in SentPnums(l) : p < m} :
            ReceiveAck(l, EncodeAck({m} \cup T), d)

BadAck(l) ==
    /\ Hostile
    /\ \E a \in BadAcks : ReceiveAck(l, a, 0)

\* njt_quic_lost_handler: the timer fires as loss timer.
LostTimer ==
    /\ error = "none"
    /\ qc.timer.handler = "lost" /\ now >= qc.timer.at
    /\ qc' = DetectLost([qc EXCEPT !.timer = NoTimer], [max_pn |-> INFINITE,
                         oldest |-> INFINITE, newest |-> INFINITE], FALSE)
    /\ UNCHANGED <<now, error, reset>>

\* njt_quic_pto_handler: every level whose last packet is unacked and whose
\* probe timeout has passed sends two PING packets (njt_quic_frame_sendto);
\* then pto_count grows and the timer is re-armed.
SendPings(c, l, n) ==
    LET x == c.ctx[l]
        Ping(i) == [pnum |-> x.pnum + i, send_time |-> now, plen |-> PktLen,
                    type |-> "ping", id |-> 0]
    IN  [c EXCEPT !.ctx[l].sent = @ \o [i \in 1..n |-> Ping(i - 1)],
                  !.ctx[l].pnum = @ + n,
                  !.cg.in_flight = @ + n * PktLen]

SendProbes(c, l) == SendPings(c, l, 2)

RECURSIVE SendProbesAll(_, _)
SendProbesAll(c, ls) ==
    IF ls = <<>> THEN c ELSE SendProbesAll(SendProbes(c, Head(ls)), Tail(ls))

\* (a seeded fault: a context is due only once w < 0, not at w = 0)
ProbeDueStrict(c, l) ==
    LET x == c.ctx[l]
        f == Last(x.sent)
    IN  /\ x.sent # <<>>
        /\ ~(f.pnum <= x.largest_ack /\ x.largest_ack # UNSET_PN)
        /\ f.send_time + Pto(c, l) * 2^c.pto_count - now < 0

ProbeDue(c, l) ==
    LET x == c.ctx[l]
        f == Last(x.sent)
    IN  /\ x.sent # <<>>
        /\ ~(f.pnum <= x.largest_ack /\ x.largest_ack # UNSET_PN)
        /\ f.send_time + Pto(c, l) * 2^c.pto_count - now <= 0

PtoTimer ==
    LET c0  == [qc EXCEPT !.timer = NoTimer]
        due == SelectSeq(LevelOrder, LAMBDA l : ProbeDue(c0, l))
        c1  == SendProbesAll(c0, due)
    IN  /\ error = "none"
        /\ qc.timer.handler = "pto" /\ now >= qc.timer.at
        /\ qc.pto_count < MaxPto
        /\ \A i \in DOMAIN due : qc.ctx[due[i]].pnum + 1 <= MaxPn
        /\ qc' = SetLostTimer([c1 EXCEPT !.pto_count = @ + 1])
        /\ UNCHANGED <<now, error, reset>>

\* njt_quic_pto_handler when njt_quic_alloc_frame or njt_quic_frame_sendto
\* fails: the contexts before due[k] got their two PINGs, due[k] got n of
\* them, and "goto failed" closes the connection (njt_quic_close_connection
\* with NJT_ERROR) without pto_count++ or set_lost_timer.
PtoTimerFails ==
    LET c0  == [qc EXCEPT !.timer = NoTimer]
        due == SelectSeq(LevelOrder, LAMBDA l : ProbeDue(c0, l))
    IN  /\ error = "none"
        /\ qc.timer.handler = "pto" /\ now >= qc.timer.at
        /\ \E k \in DOMAIN due, n \in 0..1 :
              /\ \A i \in 1..k : qc.ctx[due[i]].pnum + 1 <= MaxPn
              /\ qc' = SendPings(SendProbesAll(c0, SubSeq(due, 1, k - 1)), due[k], n)
        /\ error' = "INTERNAL_ERROR"
        /\ UNCHANGED <<now, reset>>

Tick ==
    /\ error = "none"
    /\ now < MaxTime
    /\ now' = now + 1
    /\ UNCHANGED <<qc, error, reset>>

Init ==
    /\ now = 0
    /\ qc = [ctx |-> [l \in Levels |-> [sent |-> <<>>, frames |-> <<>>, pnum |-> 0,
                                        largest_ack |-> UNSET_PN, send_ack |-> 0]],
              cg |-> [window |-> InitWindow, ssthresh |-> INFINITE,
                      in_flight |-> 0, recovery_start |-> -1],
              latest_rtt |-> 0, min_rtt |-> INFINITE, avg_rtt |-> InitialRtt,
              rttvar |-> InitialRtt \div 2, first_rtt |-> INFINITE,
              pto_count |-> 0, timer |-> NoTimer, push |-> FALSE,
              push_timer |-> FALSE,
              acked |-> {}, nextId |-> 0]
    /\ error = "none"
    /\ reset = {}

Next ==
    \/ \E expired \in BOOLEAN : Output(expired)
    \/ \E expired \in BOOLEAN : PushTimer(expired)
    \/ \E l \in Levels : Write(l) \/ PeerPacket(l) \/ PeerAck(l) \/ BadAck(l)
    \/ \E id \in 0..MaxData - 1 : ResetStream(id)
    \/ LostTimer
    \/ PtoTimer
    \/ PtoTimerFails
    \/ Tick

Spec == Init /\ [][Next]_vars

-----------------------------------------------------------------------------
(***************************************************************************)
(* Properties.                                                             *)
(***************************************************************************)

TypeOK ==
    /\ now \in 0..MaxTime
    /\ error \in {"none", "FRAME_ENCODING_ERROR", "PROTOCOL_VIOLATION", "INTERNAL_ERROR"}
    /\ \A l \in Levels :
         /\ qc.ctx[l].sent \in Seq(Frame) /\ qc.ctx[l].frames \in Seq(Frame)
         /\ qc.ctx[l].pnum \in 0..MaxPn + 2
         /\ qc.ctx[l].largest_ack \in {UNSET_PN} \cup 0..MaxPn + 1
    /\ qc.cg.window \in 2 * MSS .. INFINITE  \* I3
    /\ qc.cg.in_flight \in Nat
    /\ qc.timer.handler \in {"none", "lost", "pto"}
    /\ qc.push \in BOOLEAN /\ qc.push_timer \in BOOLEAN

\* Bytes in flight.
SentBytes(s) == FoldLeft(LAMBDA a, f : a + (IF f.pnum >= RstPnum THEN f.plen ELSE 0), 0, s)

\* I2: in_flight is exactly the plen of the frames still in sent.  Every
\* path that removes a frame (ack, loss, resend) must subtract it once.
InFlightAccounting ==
    qc.cg.in_flight = FoldLeft(LAMBDA a, l : a + SentBytes(qc.ctx[l].sent), 0, LevelOrder)

Copies(id) ==
    LET Count(q) == Len(SelectSeq(q, LAMBDA f : f.type = "data" /\ f.id = id))
    IN  FoldLeft(LAMBDA a, l : a + Count(qc.ctx[l].sent) + Count(qc.ctx[l].frames),
                 0, LevelOrder)

\* P7: once an ACK frame has been handled, no packet PKT_THR or more below
\* largest_ack is still in sent: njt_quic_detect_lost declares it lost
\* whatever its send time, and no later step lowers largest_ack.
PacketThresholdLoss ==
    error = "none" =>
        \A l \in Levels : \A i \in DOMAIN qc.ctx[l].sent :
            qc.ctx[l].largest_ack = UNSET_PN
            \/ qc.ctx[l].largest_ack - qc.ctx[l].sent[i].pnum < PKT_THR

\* The single qc->pto timer is armed exactly while some context has a
\* packet in flight: every handler that changes sent ends in
\* njt_quic_set_lost_timer, so a connection never waits for an ACK with no
\* loss or probe timer running, nor keeps a timer for nothing.
TimerArmed ==
    error = "none" =>
        ((\E l \in Levels : qc.ctx[l].sent # <<>>) <=> qc.timer.handler # "none")

\* No stall: a context with frames queued and packet numbers left always
\* has the push handler coming, a posted push event or a push timer that
\* will expire, unless the congestion window is full.  The window opens
\* only in congestion_ack/congestion_lost, after which
\* handle_ack_frame_range (when no push timer is set) and resend_frames
\* post the push event.
NoStall ==
    error = "none" =>
        \A l \in Levels :
            qc.ctx[l].frames # <<>> /\ qc.ctx[l].pnum <= MaxPn
            => qc.push \/ qc.push_timer \/ qc.cg.in_flight >= qc.cg.window

\* No data is lost or duplicated: every STREAM frame written is acked, or
\* exactly once in a sent or frames queue, or gone because its stream was
\* reset (njt_quic_resend_frames frees only frames of reset streams).
DataConservation ==
    \A id \in 0..qc.nextId - 1 :
        IF id \in qc.acked THEN Copies(id) = 0
        ELSE Copies(id) = 1 \/ (Copies(id) = 0 /\ id \in reset)

\* A due loss timer has a packet to declare lost: set_lost_timer arms it
\* for the instant detect_lost's own test (njt_quic_detect_lost, time or
\* packet threshold) first passes for the head of some level, so
\* njt_quic_lost_handler never fires without effect (re-arming itself at
\* zero delay, a busy loop that leaves the state as it was).
LostTimerDue ==
    error = "none" /\ qc.timer.handler = "lost" /\ now >= qc.timer.at
    => \E l \in Levels :
           LET x == qc.ctx[l]
           IN  /\ x.largest_ack # UNSET_PN
               /\ x.sent # <<>>
               /\ Lost(x, Head(x.sent), LostThreshold(qc))

\* A PTO expiry always probes: set_lost_timer arms the PTO timer for the
\* earliest instant at which njt_quic_pto_handler's own test (last packet
\* unacked, send_time + pto << pto_count reached) holds for some context,
\* so the handler never fires with no context due, which would double the
\* backoff (pto_count++) and re-arm without sending a probe.
PtoTimerProbes ==
    [][PtoTimer => \E l \in Levels : qc'.ctx[l].pnum > qc.ctx[l].pnum]_vars

\* Spec 4.E: the PTO handler sends its two PINGs in the first due context
\* only.
PtoProbesFirstDueOnly ==
    [][qc'.pto_count = qc.pto_count + 1
       => Cardinality({l \in Levels : qc'.ctx[l].pnum > qc.ctx[l].pnum}) <= 1]_vars

=============================================================================
