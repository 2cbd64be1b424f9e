---------------------------- MODULE MCClientPin ----------------------------
(* Two PINs, two relying parties, and the eight retries of the code.       *)
EXTENDS ClientPin
=============================================================================
