--------------------------- MODULE AlertPresence ---------------------------
(***************************************************************************)
(* The prompt on macOS (src/ui/presence_macos.mm): a modal panel, run by a *)
(* block on the main queue and aborted by another one.  The modal session  *)
(* services the main queue, so blocks run inside it and sessions can nest; *)
(* the innermost one has the user's input.  The main thread also runs the  *)
(* menu bar, whose deletion waits for op_mu_, and it runs the loop that    *)
(* main() leaves when the HID loop is done.  The panel's short delay       *)
(* before it can be approved is left out: it only removes behaviours.      *)
(***************************************************************************)
EXTENDS Presence

VARIABLES
  blocks,           \* the main queue
  modals,           \* the alert blocks that run, the innermost last
  modal_running,    \* modal_running_
  abort_requested,  \* abort_requested_
  main              \* the main thread: "loop", "menu" (waiting for op_mu_),
                    \* "over" (run_main_loop returned)

alert == <<blocks, modals, modal_running, abort_requested, main>>

Blocks == [kind : {"alert", "abort"}, gen : Nat]
Modals == [gen : Nat, run : BOOLEAN, resp : {"none", "ok", "other"}]

AlertInit ==
  /\ blocks = <<>> /\ modals = <<>>
  /\ modal_running = FALSE /\ abort_requested = FALSE /\ main = "loop"

Top == modals[Len(modals)]
Outer == SubSeq(modals, 1, Len(modals) - 1)
InModal == modals # <<>> /\ Top.resp = "none"

(* The main thread is in an event loop: the application's or a panel's.    *)
Serving == main = "loop" /\ (modals = <<>> \/ InModal)

EndModal(resp) == modals' = Append(Outer, [Top EXCEPT !.resp = resp])

AlertSeen == modals # <<>>
AlertAsk(c) ==
  /\ prompt = "alert"
  /\ Ask(c, AlertSeen \/ \E i \in 1 .. Len(blocks) : blocks[i].kind = "alert", AlertSeen)
  /\ modal_running' = FALSE /\ abort_requested' = FALSE
  /\ blocks' = Append(blocks, [kind |-> "alert", gen |-> req + 1])
  /\ UNCHANGED <<modals, main>>

(* The wait ends; if the alert block is not through, it is to be aborted.  *)
AlertLeave ==
  /\ prompt = "alert"
  /\ \E out \in Decisions : Leave(out)
  /\ abort_requested' = TRUE
  /\ IF withdrawn THEN wpc' = "idle" /\ UNCHANGED blocks
     ELSE wpc' = "teardown" /\ blocks' = Append(blocks, [kind |-> "abort", gen |-> req])
  /\ UNCHANGED <<prompt, holder, req, cancelled, by, withdrawn, tty, ending, late,
                 excused, modals, modal_running, main>>

(* The alert block.  A stale one does nothing; else it runs the panel      *)
(* unless the question was decided meanwhile, ...                          *)
Begin(b) ==
  /\ modal_running' = (~decided /\ ~abort_requested)
  /\ modals' = Append(modals, [gen |-> b.gen, run |-> modal_running',
                               resp |-> IF modal_running' THEN "none" ELSE "other"])
AlertBlock ==
  /\ Serving /\ blocks # <<>> /\ Head(blocks).kind = "alert"
  /\ blocks' = Tail(blocks)
  /\ IF Head(blocks).gen # req THEN UNCHANGED <<modals, modal_running>>
     ELSE Begin(Head(blocks))
  /\ UNCHANGED <<gate, abort_requested, main>>

(* ... a button or Esc ends it, ...                                        *)
Press(resp) ==
  /\ Serving /\ InModal
  /\ EndModal(resp)
  /\ UNCHANGED <<gate, blocks, modal_running, abort_requested, main>>

(* ... and then the block decides the question that is open now, if its    *)
(* panel ran, and reports that it is through.                              *)
Finish ==
  /\ modals # <<>> /\ ~InModal
  /\ modals' = Outer
  /\ modal_running' = FALSE
  /\ IF Top.run THEN Decide(IF Top.resp = "ok" THEN "allow" ELSE "deny", Top.gen)
     ELSE UNCHANGED answer
  /\ withdrawn' = TRUE
  /\ UNCHANGED <<prompt, worker, tty, ending, late, excused, blocks, abort_requested,
                 main>>

(* The abort block.                                                        *)
AbortBlock ==
  /\ Serving /\ blocks # <<>> /\ Head(blocks).kind = "abort"
  /\ blocks' = Tail(blocks)
  /\ IF InModal /\ modal_running /\ Head(blocks).gen = req THEN EndModal("other")
     ELSE UNCHANGED modals
  /\ UNCHANGED <<gate, modal_running, abort_requested, main>>

(* stop_timer_fired: with the HID loop done, panels are ended first (by    *)
(* abortModal, or by NSApp stop, which ends the innermost session), then   *)
(* the main loop.  (A defective variant: it waits for the panel.)          *)
StopTimerWaits ==
  /\ Serving /\ ending = "done" /\ ~InModal
  /\ main' = "over"
  /\ UNCHANGED <<gate, blocks, modals, modal_running, abort_requested>>
StopTimer ==
  /\ Serving /\ ending = "done"
  /\ IF InModal THEN EndModal("other") /\ UNCHANGED main
     ELSE main' = "over" /\ UNCHANGED modals
  /\ UNCHANGED <<gate, blocks, modal_running, abort_requested>>

(* The menu's deletion: ctl_delete on the main thread, which waits while a *)
(* question is open under op_mu_.                                          *)
MenuDelete ==
  /\ main = "loop" /\ modals = <<>> /\ holder # "none"
  /\ main' = "menu"
  /\ UNCHANGED <<gate, blocks, modals, modal_running, abort_requested>>

MenuDeleted ==
  /\ main = "menu" /\ holder = "none"
  /\ main' = "loop"
  /\ UNCHANGED <<gate, blocks, modals, modal_running, abort_requested>>

MainThread ==
  \/ AlertBlock \/ AbortBlock \/ Finish \/ StopTimer \/ MenuDelete \/ MenuDeleted
  \/ \E resp \in {"ok", "other"} : Press(resp)

AlertTypeOK ==
  /\ blocks \in Seq(Blocks) /\ modals \in Seq(Modals)
  /\ modal_running \in BOOLEAN /\ abort_requested \in BOOLEAN
  /\ main \in {"loop", "menu", "over"}
=============================================================================
