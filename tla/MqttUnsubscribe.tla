--------------------------- MODULE MqttUnsubscribe ---------------------------
(***************************************************************************)
(* iot_send__unsubscribe (src/auto/lib/njetmq/njetmq/                      *)
(* njet_iot_send_unsubscribe.c): the broker (as a bridge) builds one MQTT  *)
(* UNSUBSCRIBE packet from topic_count topic filters and queues it.        *)
(*                                                                         *)
(* The length of the packet body is summed first, in the uint32_t          *)
(* packetlen, with a per-topic check against UINT16_MAX; packet__alloc     *)
(* then allocates 1 + (length of the remaining-length varint) +            *)
(* remaining_length bytes, and the writes fill the body: the packet id,    *)
(* the MQTT 5 properties, and each topic as a 2-byte length and its bytes. *)
(*                                                                         *)
(* Only lengths matter, and the order of the topics does not (the first    *)
(* too-long topic and any too-long topic give the same result), so the    *)
(* topic list is a bag of strlen values: topics[l] topics of length l.     *)
(* A call is one input state; Result is what the call does.                *)
(***************************************************************************)
EXTENDS Integers, Bags, Functions

CONSTANTS
    TopicLens,      \* strlen values of topic filters
    TopicCounts,    \* how many topics of one length a call may carry (> 0)
    PropLens        \* property__get_remaining_length values (MQTT 5)

VARIABLES
    topics,     \* bag of topic lengths
    protocol,   \* mosq->protocol: "mqtt311" or "mqtt5"
    propLen,    \* property__get_remaining_length(properties)
    allocFail   \* the allocation that fails: "none", "calloc" (the packet)
                \* or "packet" (packet__alloc's buffer)

vars == <<topics, protocol, propLen, allocFail>>

ASSUME \A c \in TopicCounts : c > 0 /\ c < 2^17

UINT16_MAX == 2^16 - 1
U16(n) == n % 2^16              \* the (uint16_t) cast

\* MQTT remaining length: a varint of at most 4 bytes.
MaxRemainingLength == 2^28 - 1

(***************************************************************************)
(* Lengths reach 2^32 and beyond, past TLC's integers, so a length is a    *)
(* number in base 2^28 = MaxRemainingLength + 1: [hi, lo] stands for     *)
(* hi * 2^28 + lo.  A uint32_t keeps the low 32 bits: hi modulo 16.        *)
(***************************************************************************)
Base == 2^28

Num(n) == [hi |-> n \div Base, lo |-> n % Base]

NumAdd(a, b) ==
    [hi |-> a.hi + b.hi + (a.lo + b.lo) \div Base, lo |-> (a.lo + b.lo) % Base]

\* c * v for c, v < 2^17, with c split at 2^12 so no product passes 2^31.
NumMul(c, v) ==
    LET ch == c \div 2^12
        cl == c % 2^12
    IN  NumAdd(Num(cl * v),
               [hi |-> (ch * v) \div 2^16, lo |-> ((ch * v) % 2^16) * 2^12])

U32(a) == [hi |-> a.hi % 16, lo |-> a.lo]    \* uint32_t arithmetic

\* The early return of the first loop: some topic is longer than UINT16_MAX.
\* Seeded fault: the bound is taken as 2^16.
TopicTooLongOffByOne(t) == \E l \in BagToSet(t) : l > 2^16
TopicTooLong(t) == \E l \in BagToSet(t) : l > UINT16_MAX

\* Seeded fault: the 2U of the length prefix is left out of the sum.
TopicBytesNo2(t) ==
    FoldFunction(NumAdd, Num(0), [l \in DOMAIN t |-> NumMul(t[l], U16(l))])

\* The first loop's sum: 2U + (uint16_t)tlen for each topic.
TopicBytes(t) ==
    FoldFunction(NumAdd, Num(0), [l \in DOMAIN t |-> NumMul(t[l], 2 + U16(l))])

\* packetlen: 2 for the packet id, the topics, and the properties of MQTT 5,
\* all in uint32_t.
PacketLen(t, proto, plen) ==
    U32(NumAdd(Num(2 + (IF proto = "mqtt5" THEN plen ELSE 0)), TopicBytes(t)))

\* Bytes the writes put into the body: packet__write_uint16 for the id,
\* property__write_all (as many bytes as property__get_remaining_length
\* counts), and packet__write_string for each topic, in exact arithmetic.
Written(t, proto, plen) ==
    NumAdd(Num(2 + (IF proto = "mqtt5" THEN plen ELSE 0)),
           FoldFunction(NumAdd, Num(0),
                        [l \in DOMAIN t |-> NumMul(t[l], 2 + U16(l))]))

\* The call, in the code's order: MOSQ_ERR_INVAL before any allocation,
\* MOSQ_ERR_NOMEM when calloc of the packet fails, then packet__alloc:
\* MOSQ_ERR_PAYLOAD_SIZE when the remaining length is more than its varint
\* holds, MOSQ_ERR_NOMEM when its buffer cannot be allocated; otherwise
\* the packet, with remaining_length = packetlen and `written` bytes of
\* body, is queued.
Unsubscribe(t, proto, plen, fail) ==
    LET len == PacketLen(t, proto, plen) IN
    CASE TopicTooLong(t) -> [rc |-> "inval", queued |-> FALSE]
      [] fail = "calloc" -> [rc |-> "nomem", queued |-> FALSE]
      [] len.hi > 0 -> [rc |-> "payload_size", queued |-> FALSE]
      [] fail = "packet" -> [rc |-> "nomem", queued |-> FALSE]
      [] OTHER -> [rc |-> "success", queued |-> TRUE,
                   remaining_length |-> len, written |-> Written(t, proto, plen)]

Result == Unsubscribe(topics, protocol, propLen, allocFail)

Init ==
    /\ topics \in UNION {[S -> TopicCounts] : S \in SUBSET TopicLens}
    /\ protocol \in {"mqtt311", "mqtt5"}
    /\ propLen \in IF protocol = "mqtt5" THEN PropLens ELSE {0}
    /\ allocFail \in {"none", "calloc", "packet"}

\* The inputs do not change; every state is one call.
Next == UNCHANGED vars

Spec == Init /\ [][Next]_vars

----------------------------------------------------------------------------
\* A queued UNSUBSCRIBE is exactly as long as its header says: the writes
\* fill the remaining_length bytes packet__alloc reserved, no more (which
\* would write past the buffer) and no fewer (which would send
\* uninitialised bytes).
BodyFillsPacket ==
    Result.queued => Result.written = Result.remaining_length

====
