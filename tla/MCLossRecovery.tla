--------------------------- MODULE MCLossRecovery ---------------------------
(***************************************************************************)
(* Model-checking instance of LossRecovery.  Times are milliseconds and   *)
(* lengths are in units of half a datagram, scaled down so that the       *)
(* interesting cases happen within a few packets: the initial window      *)
(* holds two packets, so the sender blocks; an RTT of 1 ms makes the time *)
(* threshold and the PTO expire within the clock bound; a one-millisecond *)
(* idle timeout makes the recovery_start wrap guard reachable.            *)
(***************************************************************************)
EXTENDS LossRecovery

MCLevelsApp == {"app"}
MCOrderApp == <<"app">>
MCLevels2 == {"initial", "app"}
MCOrder2 == <<"initial", "app">>

\* Malformed ACK frames: first range below zero, a gap below zero, a range
\* below zero, and an ACK for a packet number never sent.
MCBadAcks ==
    { [largest |-> 1, first_range |-> 2, ranges |-> <<>>],
      [largest |-> 2, first_range |-> 0, ranges |-> <<[gap |-> 1, range |-> 0]>>],
      [largest |-> 3, first_range |-> 0, ranges |-> <<[gap |-> 0, range |-> 2]>>],
      [largest |-> 3, first_range |-> 0, ranges |-> <<>>] }

=============================================================================
