------------------------------- MODULE MCLoop -------------------------------
(* Two hosts for one channel, so that every allocation reaps the other     *)
(* host's channel, busy or not; messages of one and of two packets.        *)
EXTENDS Loop

CONSTANTS z, bc, a, b
=============================================================================
