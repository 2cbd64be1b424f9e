------------------------------ MODULE MCHidBus ------------------------------
(* Two hosts and channel 0.  Payloads are scaled: 2 bytes in an            *)
(* initialisation packet, 3 in a continuation packet, sequence numbers     *)
(* 0..2, so that kMaxMessage keeps its relation to the others              *)
(* (57 + 128 * 59 = 7609 becomes 2 + 3 * 3 = 11).                          *)
EXTENDS HidBus

CONSTANTS z, a, b
MCCids == {z, a, b}
MCLengths == {0, 2, 3, 5, 8, 11, 12}
=============================================================================
