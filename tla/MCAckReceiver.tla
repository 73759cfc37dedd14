---------------------------- MODULE MCAckReceiver ----------------------------
(***************************************************************************)
(* Model-checking instance of AckReceiver: packet numbers 0..3 and a      *)
(* one-range table, so the table fills and packets arrive out of order   *)
(* (forcing send_ack), with max_ack_delay 2 ms so the push timer is armed *)
(* part-way through the delay and expires while packets keep arriving.    *)
(***************************************************************************)
EXTENDS AckReceiver

MCMaxPn == 3

=============================================================================
