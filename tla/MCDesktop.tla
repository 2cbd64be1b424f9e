----------------------------- MODULE MCDesktop -----------------------------
(* Small instances of Desktop.                                             *)
EXTENDS Desktop
=============================================================================
