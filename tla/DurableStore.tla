---------------------------- MODULE DurableStore ----------------------------
(***************************************************************************)
(* What the rest of the daemon may expect of its credential store, however *)
(* it is kept on disk: one durable document, replaced as a whole.  A       *)
(* mutation that succeeds has made the document in memory durable; one     *)
(* that fails has left the durable document alone (memory may be ahead of  *)
(* it); a crash loses memory and at most leaves the mutation under way     *)
(* done; a restart sees exactly the durable document.  Only a factory      *)
(* reset makes the durable document disappear.                             *)
(***************************************************************************)
CONSTANTS Docs, EmptyDoc, NoDoc

VARIABLES phase,   \* "down", "up" or "reset"
          mem,     \* the document in memory (EmptyDoc when down)
          disk     \* the document a restart would find, or NoDoc

vars == <<phase, mem, disk>>

Init == phase = "down" /\ mem = EmptyDoc /\ disk = NoDoc

Boot ==
  /\ phase = "down"
  /\ phase' = "up"
  /\ mem' = IF disk = NoDoc THEN EmptyDoc ELSE disk
  /\ disk' = mem'

Commit == phase = "up" /\ phase' = "up" /\ mem' \in Docs /\ disk' = mem'
Fail   == phase = "up" /\ phase' = "up" /\ mem' \in Docs /\ disk' = disk

(* A crash, possibly just after the rename of the file that was written.   *)
Crash ==
  /\ phase \in {"up", "reset"}
  /\ phase' = "down"
  /\ mem' = EmptyDoc
  /\ disk' = disk \/ (phase = "up" /\ disk' \in Docs)

BeginReset ==
  /\ phase = "up"
  /\ phase' = "reset"
  /\ mem' = EmptyDoc
  /\ disk' = NoDoc

EndReset ==
  /\ phase = "reset"
  /\ phase' = "up"
  /\ UNCHANGED mem
  /\ disk' \in {disk, EmptyDoc}

Next == Boot \/ Commit \/ Fail \/ Crash \/ BeginReset \/ EndReset

Spec == Init /\ [][Next]_vars
=============================================================================
