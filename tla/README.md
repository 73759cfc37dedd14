# TLA+ models of OpenNJet: QUIC acknowledgement, the Lua ClientHello hook, MQTT UNSUBSCRIBE

This project models three parts of the repository.

* **QUIC acknowledgement and loss recovery**, in
  `src/src/event/quic/njt_event_quic_ack.c`. This one file holds both sides of
  QUIC acknowledgement.
* **The `ssl_client_hello_by_lua` hook** in `src/unnamed/part_000`. This
  covers the OpenSSL callback, its pool cleanups, and the FFI helpers that Lua
  calls: the SNI parser and `set_protocols`.
* **The MQTT bridge's UNSUBSCRIBE writer**, in
  `src/auto/lib/njetmq/njetmq/njet_iot_send_unsubscribe.c`.

The QUIC file has two sides:

* **Receiver side.** `njt_quic_ack_packet` records every received packet number
  in a per-level range table: `largest_range`, `first_range`, and
  `ranges[NJT_QUIC_MAX_RANGES]` of `{gap, range}`. `njt_quic_generate_ack`
  decides when an ACK frame is sent from the table. `njt_quic_drop_ack_ranges`
  truncates the table once the peer has acknowledged one of our ACK frames.
* **Sender side.** `njt_quic_handle_ack_frame` and `..._range` process the
  peer's ACK frames. `njt_quic_rtt_sample` updates the RTT estimate.
  `njt_quic_detect_lost` applies the packet and time thresholds, and
  `njt_quic_resend_frames` requeues the lost frames. NewReno congestion control
  lives in `njt_quic_congestion_ack`, `njt_quic_congestion_lost` and
  `njt_quic_persistent_congestion`. One timer, `qc->pto`, serves as both loss
  timer and PTO timer: `njt_quic_set_lost_timer` arms it, and
  `njt_quic_lost_handler` and `njt_quic_pto_handler` handle its expiry.

The two sides interact through ACK frames. An ACK frame we send is a packet on
the sender side. When the peer acknowledges that packet, `handle_ack_frame_range`
calls `drop_ack_ranges` on the receiver's table. Receiving an ACK-eliciting
packet sets `send_ack`, which forces the sender to send.

Everything runs on the single-threaded event loop, and no function here
suspends. A handler is therefore one atomic step. The concurrency the models
explore is the interleaving of independent events: packets sent, packets
received, ACK frames from the peer, timer expiries, the clock advancing, and the
application writing or resetting streams. The network may also lose, reorder or
duplicate packets.

The Lua hook is driven by OpenSSL. On every ClientHello, and again on every
`SSL_do_handshake` while it answered "retry", OpenSSL calls
`njt_http_lua_ssl_client_hello_handler`. The first call runs the Lua chunk on a
fake request. If the chunk yields, the handler answers -1 (retry). The chunk's
end then runs `client_hello_done` on the fake pool, which posts the client
connection's write event so that OpenSSL calls the handler again. Closing the
client connection runs `client_hello_aborted` instead. Several client
connections interleave on the one event loop. The FFI helpers are pure
functions of their inputs.

The MQTT writer is one sequential function: it sums the lengths, allocates the
packet, writes it and queues it.

## Inventory

| Component | Source | Module(s) | Status |
|---|---|---|---|
| Receiver ACK range database | `ack_packet`, `drop_ack_ranges`, `generate_ack` | `AckRanges`, `AckSet`, `MCAckRanges`, `AckDelay`, `AckReceiver`, `MCAckReceiver` | partly |
| ACK frame handling, RTT | `handle_ack_frame`, `handle_ack_frame_range`, `rtt_sample` | `LossRecovery` | partly |
| Loss detection and resend | `detect_lost`, `resend_frames`, `lost_threshold` | `LossRecovery` | partly |
| NewReno congestion control | `congestion_ack`, `congestion_lost`, `persistent_congestion`, `pcg_duration` | `LossRecovery` | modelled |
| Loss / PTO timer | `set_lost_timer`, `pto`, `lost_handler`, `pto_handler` | `LossRecovery` | modelled |
| Lua ClientHello handler and FFI | `src/unnamed/part_000` | `SslClientHello`, `ClientHelloFfi` | modelled |
| MQTT UNSUBSCRIBE writer | `njet_iot_send_unsubscribe.c` | `MqttUnsubscribe` | modelled |

`PROJECT.json` has three things for each part: the component's note, a
line-level map from every definition to the C it translates, and the hazards
of that code.

## Modules

### `AckSet`: the abstract receiver database

This module states what the receiver's table promises. `tracked` is the set of
packet numbers the next ACK frame will report. `live` is the set received and
not yet dropped. `Receive(pn)` adds `pn`. If `tracked` then has more than
`MaxRuns` maximal runs of consecutive numbers, the oldest run is forgotten.
`Drop(pn)` forgets everything at or below `pn`.

### `AckRanges`: `njt_quic_ack_packet` and friends

The variables are the C fields of one send context: `largest_range`,
`first_range`, `ranges` (the `nranges` used entries of `ctx->ranges`),
`pending_ack` and `send_ack`. Three history variables support the checks:

* `acksSent` holds the largest packet number of every ACK frame queued;
* `live` holds the packets received and not yet dropped;
* `unreported` holds the ack-eliciting packets that no queued ACK frame has
  reported yet.

A queued frame reports the whole table: `GenerateAck`, and the flush before a
full table (`Flushes`). A too-old packet's one-off ACK reports only that
packet.

`Receive(pn)` is all of `ack_packet` as one action:

* every early return (duplicate or empty table);
* extending the front range, and opening a new front range (flush when the
  table is full);
* the gap walk: fill a one-packet gap and merge, grow a range up, grow the
  previous range down, split a gap;
* appending an older range, or dropping a too-old packet at a full table.

Each branch has its own operator, named in the map. `DropAckRanges(pn)` is
`drop_ack_ranges`, and `GenerateAck` is `generate_ack`: an ACK frame is sent and
`send_ack` is reset.

The refinement: `Decoded` turns the table back into the set of packet numbers
it represents, the same way `njt_quic_send_ack` walks it. `AckSetRefinement`
is `AckSet!Spec` with `tracked <- Decoded` and `MaxRuns <- MAX_RANGES + 1`.

### `LossRecovery`: the sender

The connection is one record `qc` laid out like `njt_quic_connection_t`:

* per-level `ctx`: `sent` queue, `frames` queue, `pnum`, `largest_ack`;
* `cg`: window, ssthresh, in_flight, recovery_start;
* the RTT fields, `pto_count`, and the timer `{handler, expire}`;
* `push`: the posted push event, and `push_timer`: whether the push timer
  that `generate_ack` arms (`ack.c:1173-1175`) is set.

Each C function is an operator from a connection record to a new one. A handler
is the composition of the functions it calls, in the code's order. The actions
are:

| Action | Code |
|---|---|
| `ReceiveAck(l, ack, d)` | `handle_ack_frame`, then `set_lost_timer` (its caller) |
| `BadAck(l, ack)` | `handle_ack_frame` with a malformed frame; the error ends the connection |
| `LostTimer` | `lost_handler`: `detect_lost`, then `set_lost_timer` |
| `PtoTimer` | `pto_handler`: two PINGs in every due context, `pto_count++`, `set_lost_timer` |
| `PtoTimerFails` | `pto_handler` when a PING cannot be allocated or sent: the probes so far, then `goto failed` closes the connection |
| `Output` | the posted push event runs the push handler: send every level's queued frames within the window, arm the push timer for an ACK that may still wait, then `set_lost_timer` (spec-modelled) |
| `PushTimer` | the push timer expires: it is deleted and the same handler runs; a posted push event stays posted |
| `Write`, `ResetStream` | the application queues a data frame or resets its stream (spec-modelled) |
| `PeerPacket(l)` | `ack_packet`'s `need_ack` prefix: an ACK-eliciting packet sets `send_ack` |
| `Tick` | the clock advances |

The peer's ACK frames are generated from what was sent (`PeerAck`). The
largest acknowledged packet `m` is any packet sent. Every smaller sent packet
may or may not be included. `EncodeAck` turns that set into the frame's
`largest`, `first_range` and `{gap, range}` list. An honest peer over a lossy,
reordering network can send exactly these frames. With `Hostile = TRUE`, the
peer may also send the malformed frames in `MCBadAcks`.

### `AckDelay`: when the application-level ACK goes out

`AckDelay` holds the timing side: `generate_ack`, the push handler, the
application queueing frames, closing, and the clock.

* `Push` is the push handler's call of `generate_ack`. That call either queues
  the ACK, or waits while all of these hold:
  * no other frames are queued;
  * fewer than `NJT_QUIC_MAX_ACK_GAP` packets are owed;
  * `max_ack_delay` has not passed.
* To wait, it arms the push timer for the rest of the delay, unless the timer is
  already set or the connection is closing.

Time is relative, following Lamport's "real time is really simple", which keeps
the model finite without a clock bound:

* `delay` is `now - ack_delay_start`;
* `timer` is the milliseconds left on the push timer.

`Tick` cannot fire while an event is posted or a timer is due. The event loop
handles both before it waits again.

### `AckReceiver`: the table and the timing together

`AckReceiver` instantiates `AckRanges` and `AckDelay` over the same variables,
so both share `ctx->send_ack`.

* `Receive(pn, need)` is all of `ack_packet`: the `need_ack` prefix (post push,
  stamp `ack_delay_start`), then the table, which may force `send_ack` to
  `MAX_ACK_GAP` for an out-of-order packet.
* `Push` is `AckDelay`'s push handler. When `generate_ack` decides to queue, the
  frame is built from the table (`AckRanges`' `GenerateAck`).
* `Drop` is the peer acknowledging one of our ACK frames.

### `SslClientHello`: the callback and its cleanups

`conns[c]` is one client connection. It has these fields:

* the callback's last return `ret`;
* whether `c->pool` still exists;
* the `cctx` flags `entered`, `done`, `aborted` and `exit_code`;
* the `c->pool` cleanup `cctx->cleanup` points at;
* the fake request's life;
* whether `client_hello_done` is registered on the fake pool;
* whether `c->write` is posted;
* the ClientHello count.

`Handler(c)` is one call of the callback as a whole. It covers the re-entry
test, each allocation that may fail (`FailPoints`), the Lua chunk failing to load (the loader's `NJT_ERROR`, with nothing
finalized), the Lua chunk finishing
synchronously, and the yield that arms both cleanups. `LuaFinish(c, code)` is
the chunk ending, through `client_hello_done` on the fake pool. `ConnClose(c)`
is `njt_close_connection`, which runs `client_hello_aborted`. `Resume(c)` is
OpenSSL calling the callback again for the posted write event. `NextHello(c)`
is a second ClientHello after a HelloRetryRequest. The chunk's outcome is kept
as history in `luaExit`.

### `ClientHelloFfi`: SNI parser and `set_protocols`

These are two pure functions. Each state of the model is one call.

**`njt_http_lua_ffi_ssl_get_client_hello_server_name`.** `GetServerName`
follows the C's pointer walk over an extension body.

* Every extension of up to 10 bytes is enumerated. It is built from a 5-byte
  header whose length bytes are 0-7 (high byte 0 or 1), and a tail of up to 5
  bytes.
* The memory past the extension is modelled as filler bytes (`Beyond`). An
  over-read is therefore an ordinary value that an invariant can compare.

**`njt_http_lua_ffi_ssl_set_protocols`.** `SetProtocols` applies the
`SSL_OP_NO_*` clear-then-set steps to every inherited option set and every
protocol mask.

### `MqttUnsubscribe`: `iot_send__unsubscribe`

The topics are a bag of `strlen` values, because only the lengths matter.
Lengths can pass 2^32, which is beyond TLC's integers. They are therefore kept
as numbers in base 2^28, and a `uint32_t` keeps the low 32 bits.

`Unsubscribe` returns one of four outcomes, in the code's order:

* `MOSQ_ERR_INVAL` for a topic longer than `UINT16_MAX`;
* `NOMEM` when `calloc` of the packet fails;
* `PAYLOAD_SIZE` when the remaining length needs more than 4 varint bytes;
* `NOMEM` when `packet__alloc` cannot allocate the buffer;
* otherwise the queued packet, with its `remaining_length` and the bytes that
  the writes put into it.

## Runs

| Run | cfg | Expect | Checks |
|---|---|---|---|
| `ack_ranges` | `MCAckRanges.cfg` | pass | `TypeOK`, `WellFormed`, `AckSetRefinement` with a two-range table |
| `ack_ranges_overflow` | `MCAckRanges_overflow.cfg` | pass | the same with a one-range table that overflows |
| `ack_unreported_eviction` | `MCAckRanges_evict.cfg` | violation | `NoUnreportedEviction` |
| `ack_receiver` | `MCAckReceiver.cfg` | pass | `AckDelayBounded`, `AckEventuallyQueued` |
| `loss_recovery` | `MCLossRecovery.cfg` | pass | `TypeOK`, `InFlightAccounting`, `PacketThresholdLoss`, `TimerArmed`, `NoStall`, `DataConservation`, `PtoTimerProbes`, `LostTimerDue`, with a hostile peer and failing PINGs |
| `pto_levels` | `MCLossRecovery_pto.cfg` | violation | `PtoProbesFirstDueOnly` (spec 4.E) |
| `ssl_client_hello` | `MCSslClientHello.cfg` | pass | `TypeOK`, `NoPostAfterClose`, `AbortTargetsLiveRequest`, `HandshakeResumes` |
| `ssl_load_error` | `MCSslClientHello_load.cfg` | violation | `FakeRequestReleased` |
| `client_hello_ffi` | `MCClientHelloFfi.cfg` | pass | `NoOverRead`, `ReturnsFirstHostName`, `ExactlyRequested` |
| `sni_empty_name` | `MCClientHelloFfi_empty.cfg` | violation | `NonEmptyHostName` |
| `mqtt_unsubscribe` | `MCMqttUnsubscribe.cfg` | pass | `BodyFillsPacket` |
| `mqtt_unsubscribe_wrap` | `MCMqttUnsubscribe_wrap.cfg` | violation | `BodyFillsPacket` |

Each property of a passing run has a seeded mutant in `PROJECT.json`. Each
mutant is a plausible bug in the definition the property is about, and TLC
finds it.

### What the passing runs show

**The receiver table.** These hold for every sequence of receptions, in any
order, and of truncations.

* The table stays well formed (`WellFormed`):
  * there are at most `MAX_RANGES` ranges;
  * an empty table has no ranges;
  * no decoded block goes below zero (in C it would wrap).
* The table reports exactly the packets received and not dropped, except that
  the oldest run is forgotten when the table is full. This is the refinement of
  `AckSet`.

**The receiver as a whole** (`ack_receiver`).

* `AckDelayBounded`: while the connection is open, an owed ACK never waits
  longer than `max_ack_delay` from its first packet. The wait is always covered
  by a push timer, even when an earlier timer is still set and is not re-armed.
* `AckEventuallyQueued`: an owed ACK (`send_ack > 0`) is eventually queued,
  unless the connection closes. `generate_ack`'s wait always ends, because
  the push timer it armed (or one already set) fires. This assumes fairness
  of the event loop. It says nothing about which packets the frame reports.
  A packet evicted unreported, as in `ack_unreported_eviction`, is simply not
  in it. That trace needs packet numbers up to 6, beyond this run's bound.

**The sender.** The peer is hostile: besides every honest ACK frame, it may
send malformed ones (`Hostile = TRUE`).

* `InFlightAccounting`: `in_flight` always equals the bytes of the
  congestion-controlled packets still in `sent`. No path subtracts twice or
  forgets to subtract, including a frame rejected after earlier ranges took
  effect. The counter is unsigned in the code.
* `PacketThresholdLoss`: after detection, no packet that the packet threshold
  declares lost is left in `sent`.
* `TimerArmed`: the timer is armed exactly when some level has packets in
  flight.
* `LostTimerDue`: whenever the loss timer is due, the head of some level's
  `sent` queue passes `detect_lost`'s own test, so the expiry removes a
  packet. A timer that fires with nothing to declare would re-arm itself at
  zero delay. That busy loop leaves the state unchanged, so it is stated as
  an invariant: a property about the firing step would miss it as stuttering.
* `PtoTimerProbes`: every PTO expiry sends a probe. `set_lost_timer` arms the
  timer exactly when `pto_handler`'s own due test first passes, including at
  `w = 0`. A mismatch would double the backoff without probing.
* `NoStall`: when frames are queued and the window is open, the push handler
  is coming: the push event is posted, or the push timer is set and will
  expire. `handle_ack_frame_range` posts the event only when no push timer is
  set (`ack.c:303-305`), which the module follows.
* `DataConservation`: every data frame written is in exactly one place: in
  flight, queued, or acknowledged. The one exception is a frame freed because
  its stream was reset.

A PING that cannot be allocated or sent closes the connection after any
prefix of the probes. In-flight accounting and data conservation still hold at
the close.

**The Lua callback.** This is two connections, each with up to two
ClientHellos, every allocation failure and every chunk outcome.

* `NoPostAfterClose`: no event is posted for a closed connection.
* `AbortTargetsLiveRequest`: `client_hello_aborted` never finalizes a freed
  fake request.
* `HandshakeResumes`: a handshake that answered "retry" leaves that state once
  the chunk has ended.

**The FFI helpers.**

* The SNI parser never reads past the extension (`NoOverRead`).
* The SNI parser returns exactly the first host name of a well-framed list
  (`ReturnsFirstHostName`).
* `set_protocols` leaves exactly the requested versions enabled, whatever
  options the server inherited (`ExactlyRequested`).

**The MQTT writer.**

* `BodyFillsPacket`: for every length that fits a `uint32_t`, a queued packet
  has exactly as many bytes written as its header announces. This covers zero
  and `UINT16_MAX` topics, 4097 topics of 65535 bytes (past the 4-byte
  varint), and both protocols.

### Findings (violation runs)

* **`ack_unreported_eviction`.** An ack-eliciting packet can be dropped from the
  table without ever being acknowledged. The trace, with one range, is to
  receive 4, 0 and 2, then 6:
  * Packet 2 splits the gap of a full table. The flush reports {0, 4}
    without packet 2.
  * `pending_ack` is cleared, because packet 2 did not raise it
    (`prev_pending == ctx->pending_ack`, `ack.c:1087`).
  * Packet 6 opens a new range in front. The table is still full, and with
    `pending_ack` unset there is no flush, so the range holding 2 is evicted
    unreported. RFC 9000 13.2.1 requires every ack-eliciting packet to be
    acknowledged, and the peer will retransmit it as lost.
* **`pto_levels`.** Two levels are due at one PTO expiry, and both get PINGs
  (`ack.c:853-895`, no `break`). Spec 4.E says only the first due level does.
* **`ssl_load_error`.** A Lua chunk that cannot be loaded (a missing file or a
  syntax error) leaks the fake request and connection, and the handshake
  proceeds.
  * `handler_file` and `handler_inline` return the loader's `NJT_ERROR`
    (`part_000:43-45`, `66-68`) before `by_chunk`. Only `by_chunk` finalizes
    the fake request.
  * The handler treats `NJT_ERROR` like a finished chunk (`304-314`). It sets
    `done` and returns `exit_code`, which is still the 1 set at line 272.
  * Unlike the `goto failed` path (`346-356`), nothing frees the fake request
    or closes the fake connection. This happens on every handshake.
* **`sni_empty_name`.** The SNI parser returns success with an empty host name
  when the name's length is 0 and further bytes follow (`part_000:599`). RFC
  6066 host names are never empty.
* **`mqtt_unsubscribe_wrap`.** `packetlen` is a `uint32_t`
  (`unsubscribe.c:60`). With 65537 topic filters of 65535 bytes, about 4 GiB,
  it wraps, and the writes overrun the allocated packet. Only a bridge
  configured with that many topics reaches it.

## Bounds and why they are enough

**Time and lengths.** Time is in milliseconds and lengths in units of half a
datagram. `MSS = PktLen = 2` and `InitWindow = 4`. The window therefore holds
two packets: the sender blocks, the halving hits the `2*MSS` floor, and
avoidance growth happens.

**Clock and RTT.** `InitialRtt = 1`, `MaxAckDelay = 1` and `MaxTime = 4`. The
time threshold and the PTO both expire inside the clock bound, and a loss can
happen inside and outside a recovery period.

**Packets and data.** `MaxPn = 3` gives four packets per level. That is more
than `PKT_THR`, so packet-threshold loss is reachable. `MaxData = 1` gives one
data frame; the PINGs and the peer's freedom carry the rest.

**Idle timeout.** `MaxIdleTimeout = 1` makes the `recovery_start` wrap guard
(`ack.c:364`) fire.

**Receiver.** `MaxPn = 5` gives six packet numbers.

* With `MAX_RANGES = 1`, the table overflows and every branch of `ack_packet`
  happens, including a split at a full table and a too-old packet.
* With `MAX_RANGES = 2`, the multi-range merge and split arithmetic is
  exercised.
* The eviction finding needs a gap of three packets and a new range in front
  after it, hence `MaxPn = 7` in its run. With `MaxPn = 5`, no unreported
  packet is evicted.

**Composed receiver.** Packet numbers 0..3 with a one-range table, so the
table fills and out-of-order packets force an immediate ACK. `max_ack_delay`
is 2 ms, so the push timer is armed part-way through a delay and expires while
packets keep arriving. `send_ack` goes up to 2, which is `MAX_ACK_GAP`.
Packet numbers 0..4 give 344k states and take about 5 minutes without
coverage, which is over budget. The flush and eviction paths that need them
are covered by the `AckRanges` runs.

**PTO backoff.** With `InitialRtt = 1` and `MaxAckDelay = 1`, the PTO is 3 ms,
so within `MaxTime = 4` it fires at most once, at `pto_count = 0`.
`PtoTimerProbes` therefore checks the arming against the handler at the first
expiry. Both functions use the same `<< pto_count` formula for later ones.

**Lua callback.** Two connections show that the per-connection state does not
leak between interleaved handshakes. Two ClientHellos cover the
HelloRetryRequest re-entry.

**SNI parser.** Every extension of up to 10 bytes is enumerated. Lengths 0-7
and a high byte of 0 or 1 cover the following cases:

* names shorter than, equal to and longer than what remains;
* list lengths that lie;
* a second entry;
* a length above 255.

**MQTT writer.** Topic lengths 0, 1, 65535 and 65536 sit on both sides of the
`UINT16_MAX` check. Counts of 1, 2 and 4097 reach the varint limit with the
largest topics.

The passing runs between them fire every action and every branch.

## Fairness

* **`AckReceiver`**: weak fairness of `Push` and of `AckDelay`'s `Tick`. The
  event loop runs posted events and expired timers, and time passes.
* **`SslClientHello`**: weak fairness of `Resume(c)`. A posted write event is
  processed, and OpenSSL calls the callback again.

Nothing is assumed of the peer, the client, the Lua chunk, the allocator or
the application. `LossRecovery` checks no liveness. Its clock is absolute and
bounded by `MaxTime`, so every behaviour ends.

## Not modelled

* The path-MTU and stream-ack hooks (other files).
* `rst_pnum`, which is set by path migration in another file; here it is the
  constant 0.
* The MAX_DATA, MAX_STREAMS, MAX_STREAM_DATA and PATH_* frame resends. They need
  the stream and flow-control state.
* In `AckRanges` alone, the delay test of `generate_ack` is a free choice.
  `AckReceiver` composes the table with `AckDelay`'s timing.
* Persistent congestion beyond the clock bound. `pcg_duration` is at least
  9 ms, and two counted losses must be sent further apart than that. So
  `ack.c:512` (a duplicate ACK leaves `st` at INFINITE, which passes the
  disjointness test) is not checked. `LossRecovery` already takes about two
  minutes at a clock of 4 ms.
* The `pto << pto_count` overflow (`ack.c:864`). It needs `pto_count` near 64,
  and the idle timeout in another file closes the connection long before.
* Liveness of loss recovery (`ack.c:897`). `LossRecovery` keeps absolute send
  times under a bounded clock, so every behaviour stops.
* The spec's P5 (`ssthresh = window` after every `congestion_lost`). The code
  skips the reduction for packets sent inside the recovery period
  (`ack.c:690-697`), as RFC 9002 7.3.2 and spec 4.D describe, so P5 does not
  hold in that case by design. No run checks it.
* From `part_000`: the log formatter, the Lua loaders and code cache, and
  `get_client_hello_ext`. The first two are I/O and Lua VM code. The third is a
  thin wrapper over OpenSSL's `SSL_client_hello_get0_ext`.

## Further work

1. **Liveness of loss recovery.** Rewrite the sender's times relative to now,
   as `AckDelay` does. Then check that a packet in flight is eventually acked,
   declared lost or probed, under fairness of the timers.
2. **Two levels in a passing loss-recovery run**, with smaller bounds.
3. **Persistent congestion** (`ack.c:512`), with a clock long enough for
   `pcg_duration`.
4. `rst_pnum` and path reset, then the MAX_* frame resends.
