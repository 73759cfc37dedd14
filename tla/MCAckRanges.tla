---------------------------- MODULE MCAckRanges ----------------------------
(***************************************************************************)
(* Model-checking instances of AckRanges over packet numbers 0..5.        *)
(*  - MCMaxRanges1: a table of one range, so two runs fit and the third   *)
(*    overflows it: the flush and eviction paths of njt_quic_ack_packet   *)
(*    (new range in front, split, too old at the tail) with a full table. *)
(*  - MCMaxRanges2: a table of two ranges, which 0..5 never overflows:    *)
(*    merging, shrinking and splitting a gap below ranges[0] (index k > 1 *)
(*    of the model), which a one-range table never has.                   *)
(*  - MCMaxPn7: numbers 0..7, room for a split of a three-packet gap       *)
(*    followed by a new range in front, with a one-range table.           *)
(***************************************************************************)
EXTENDS AckRanges

MCMaxPn == 5
MCMaxPn7 == 7
MCMaxRanges1 == 1
MCMaxRanges2 == 2
MCSendAckBound == 2

=============================================================================
