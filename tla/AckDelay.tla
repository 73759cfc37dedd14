------------------------------ MODULE AckDelay ------------------------------
(***************************************************************************)
(* When the ACK of the application send context goes out                  *)
(* (src/src/event/quic/njt_event_quic_ack.c).  njt_quic_ack_packet counts *)
(* ack-eliciting packets in ctx->send_ack, stamps ctx->ack_delay_start on *)
(* the first one and posts the qc->push event.  The push handler (the      *)
(* output path, outside this file) calls njt_quic_generate_ack, which      *)
(* queues an ACK frame unless it may still wait: no other frames queued,   *)
(* fewer than NJT_QUIC_MAX_ACK_GAP packets owed and less than              *)
(* max_ack_delay elapsed.  To wait, it arms the qc->push timer for the     *)
(* rest of the delay, unless that timer is already set or the connection  *)
(* is closing.                                                             *)
(*                                                                         *)
(* The packet itself, with the range table, is AckReceiver's Receive;    *)
(* this module holds the timing: generate_ack, the push handler, the     *)
(* application, closing and the clock.                                   *)
(*                                                                         *)
(* Time is kept relative to now, so the model is finite without a clock   *)
(* bound: delay is njt_current_msec - ctx->ack_delay_start (the C local of *)
(* the same name), capped at MaxAckDelay + 1, and timer the milliseconds   *)
(* left on qc->push's timer (NoTimer when it is not set).  Timers and      *)
(* posted events are urgent: time does not pass while one is due, since   *)
(* the event loop handles them before it waits again.                      *)
(***************************************************************************)
EXTENDS Integers

CONSTANT
    MaxAckDelay     \* qc->tp.max_ack_delay (ms)

ASSUME MaxAckDelay \in Nat \ {0}

MAX_ACK_GAP == 2    \* NJT_QUIC_MAX_ACK_GAP
NoTimer == -1

VARIABLES
    send_ack,   \* ctx->send_ack
    delay,      \* njt_current_msec - ctx->ack_delay_start
    frames,     \* ctx->frames is not empty
    posted,     \* qc->push is in njt_posted_events
    timer,      \* ms until qc->push's timer expires, or NoTimer
    closing     \* qc->closing

vars == <<send_ack, delay, frames, posted, timer, closing>>

\* Seeded fault: the push timer is never armed.
GenerateAckNoTimer(t) ==
    IF send_ack = 0 THEN [send_ack |-> send_ack, timer |-> t]
    ELSE IF ~frames /\ send_ack < MAX_ACK_GAP /\ delay < MaxAckDelay
    THEN [send_ack |-> send_ack, timer |-> t]
    ELSE [send_ack |-> 0, timer |-> t]

\* Seeded fault: the timer is armed for the whole max_ack_delay, not for
\* what is left of it.
GenerateAckFullDelay(t) ==
    IF send_ack = 0 THEN [send_ack |-> send_ack, timer |-> t]
    ELSE IF ~frames /\ send_ack < MAX_ACK_GAP /\ delay < MaxAckDelay
    THEN [send_ack |-> send_ack,
          timer |-> IF t = NoTimer /\ ~closing THEN MaxAckDelay ELSE t]
    ELSE [send_ack |-> 0, timer |-> t]

(***************************************************************************)
(* njt_quic_generate_ack for the application level, with t the push      *)
(* timer as the handler finds it: the new send_ack and the new push timer. *)
(* send_ack 0 means an ACK frame was queued (njt_quic_send_ack) or none    *)
(* was owed.                                                               *)
(***************************************************************************)
GenerateAck(t) ==
    IF send_ack = 0 THEN [send_ack |-> send_ack, timer |-> t]
    ELSE IF ~frames /\ send_ack < MAX_ACK_GAP /\ delay < MaxAckDelay
    THEN [send_ack |-> send_ack,
          timer |-> IF t = NoTimer /\ ~closing THEN MaxAckDelay - delay ELSE t]
    ELSE [send_ack |-> 0, timer |-> t]

\* The push handler, run for the posted event or the expired timer (which
\* the event loop unsets before calling it): generate_ack, then the frames
\* are sent, or some stay queued when the congestion window is full.
Push ==
    /\ posted \/ timer = 0
    /\ LET g == GenerateAck(IF timer = 0 THEN NoTimer ELSE timer)
       IN  /\ posted' = FALSE
           /\ send_ack' = g.send_ack
           /\ timer' = g.timer
           /\ frames' \in IF frames \/ g.send_ack # send_ack THEN BOOLEAN ELSE {FALSE}
    /\ UNCHANGED <<delay, closing>>

\* The application queues a frame (njt_quic_queue_frame posts the push).
QueueFrame ==
    /\ ~frames
    /\ frames' = TRUE /\ posted' = TRUE
    /\ UNCHANGED <<send_ack, delay, timer, closing>>

\* The connection starts closing (njt_quic_close_connection).
Close ==
    /\ ~closing
    /\ closing' = TRUE
    /\ UNCHANGED <<send_ack, delay, frames, posted, timer>>

\* One millisecond passes, when no event is due.
Tick ==
    /\ ~posted /\ timer # 0
    /\ delay' = IF send_ack = 0 THEN 0 ELSE IF delay > MaxAckDelay THEN delay ELSE delay + 1
    /\ timer' = IF timer = NoTimer THEN NoTimer ELSE timer - 1
    /\ UNCHANGED <<send_ack, frames, posted, closing>>

Init ==
    /\ send_ack = 0 /\ delay = 0 /\ frames = FALSE /\ posted = FALSE
    /\ timer = NoTimer /\ closing = FALSE

----------------------------------------------------------------------------
\* An owed ACK is queued no later than max_ack_delay after the first
\* ack-eliciting packet it covers (RFC 9000 13.2.1), while the connection
\* is open: generate_ack's wait is always covered by a push timer.
AckDelayBounded == ~closing /\ send_ack > 0 => delay <= MaxAckDelay

====
