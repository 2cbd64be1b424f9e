----------------------------- MODULE MCFileStore -----------------------------
(* Two credentials of which one fits, two values for a row, and CSPRNG     *)
(* output for two fresh starts and one more reset.                         *)
EXTENDS FileStore
=============================================================================
