------------------------------ MODULE AckSet ------------------------------
(***************************************************************************)
(* Abstract specification of the receiver-side ACK range database of a    *)
(* QUIC send context (njt_event_quic_ack.c, njt_quic_ack_packet and       *)
(* njt_quic_drop_ack_ranges).  The database is seen as the set of packet  *)
(* numbers it would acknowledge.  It holds at most MaxRuns maximal runs   *)
(* of consecutive numbers: a reception that would create one run too many *)
(* forgets the oldest run.  An acknowledgement by the peer of one of our  *)
(* ACK frames forgets every number up to that frame's largest.           *)
(***************************************************************************)
EXTENDS Naturals, FiniteSets, FiniteSetsExt

CONSTANTS
    MaxPn,      \* packet numbers are 0..MaxPn
    MaxRuns     \* first range plus the MAX_RANGES further ranges

ASSUME MaxPn \in Nat /\ MaxRuns \in Nat \ {0}

VARIABLES
    tracked,    \* packet numbers the next ACK frame would acknowledge
    live        \* packet numbers received and not yet acked-over by the peer

PN == 0..MaxPn

\* Number of maximal runs of consecutive numbers in S.
NumRuns(S) == Cardinality({p \in S : p + 1 \notin S})

\* The run of S that holds its smallest member.
OldestRun(S) == {p \in S : \A q \in Min(S)..p : q \in S}

Init ==
    /\ tracked = {}
    /\ live = {}

Receive(pn) ==
    LET kept == tracked \cup {pn}
    IN  /\ live' = live \cup {pn}
        /\ tracked' = IF NumRuns(kept) <= MaxRuns
                      THEN kept
                      ELSE kept \ OldestRun(kept)

Drop(pn) ==
    /\ tracked' = {p \in tracked : p > pn}
    /\ live' = {p \in live : p > pn}

Next ==
    \E pn \in PN : Receive(pn) \/ Drop(pn)

Spec == Init /\ [][Next]_<<tracked, live>>

=============================================================================
