------------------------------ MODULE Desktop ------------------------------
(***************************************************************************)
(* User presence as the daemon has it: make_presence chooses one of the    *)
(* prompts of Presence, NotifyPresence and AlertPresence, and main() winds *)
(* the daemon down around it.                                              *)
(***************************************************************************)
EXTENDS NotifyPresence, AlertPresence, CtlServer

vars == <<gate, notify, alert, ctl>>

Init == GateInit /\ NotifyInit /\ AlertInit /\ CtlInit

Asks(c) ==
  \/ StdinAsk(c) /\ UNCHANGED <<notify, alert>>
  \/ NotifyAsk(c) /\ UNCHANGED alert
  \/ AlertAsk(c) /\ UNCHANGED notify

(* The asking thread answers, times out and stops waiting by itself.       *)
Asking ==
  /\ \/ (StdinRead \/ StdinLeave \/ Withdrawn \/ GiveUp) /\ UNCHANGED <<notify, alert>>
     \/ NotifyLeave /\ UNCHANGED alert
     \/ AlertLeave /\ UNCHANGED notify
  /\ UNCHANGED ctl

(* The control thread.                                                     *)
Control ==
  \/ CtlThread /\ UNCHANGED <<notify, alert>>
  \/ Confirm /\ Asks("ctl")

(* The HID threads, and main() once the HID loop is done; with the alert,  *)
(* it has to leave the main loop first.                                    *)
Ending ==
  \/ (WorkerDone \/ StopCancels \/ LoopDone) /\ UNCHANGED <<notify, alert, ctl>>
  \/ CtlStop /\ (prompt = "alert" => main = "over") /\ UNCHANGED <<notify, alert, ctl>>
  \/ Joined /\ UNCHANGED <<notify, alert>>

(* The main thread's share in that: its timer, the end of a panel, and the *)
(* end of a deletion.                                                      *)
MainEnding ==
  prompt = "alert" /\ (StopTimer \/ Finish \/ MenuDeleted) /\ UNCHANGED <<notify, ctl>>

(* The user, the HID host, and the clients of the control socket.          *)
Environment ==
  \/ /\ Cancel \/ RequestStop \/ \E allow \in BOOLEAN : Type(allow)
     /\ UNCHANGED <<notify, alert, ctl>>
  \/ Asks("worker") /\ UNCHANGED ctl
  \/ \E k \in Clients : Client(k) /\ UNCHANGED <<notify, alert>>

Next ==
  \/ Environment \/ Asking \/ Control \/ Ending
  \/ prompt = "notify" /\ NotifyThread /\ UNCHANGED <<alert, ctl>>
  \/ prompt = "alert" /\ MainThread /\ UNCHANGED <<notify, ctl>>

(* Fair: the asking thread, whose waits all end by the clock; the control  *)
(* thread; the HID threads and main() when the daemon ends.  Not fair: the *)
(* user, the clients, the notification server and the main queue.          *)
Spec ==
  /\ Init /\ [][Next]_vars
  /\ WF_vars(Asking) /\ WF_vars(Control) /\ WF_vars(Ending) /\ WF_vars(MainEnding)

-----------------------------------------------------------------------------
(* The variables have their types.                                         *)
TypeOK == GateTypeOK /\ NotifyTypeOK /\ AlertTypeOK /\ CtlTypeOK

(* confirm() returns Allow only when the user approved a prompt while it   *)
(* waited, and the prompt that was made for this very question, unless an  *)
(* earlier prompt was still to be seen when the question began (it was not *)
(* withdrawn within kTeardownTimeout) or a line was waiting on the         *)
(* terminal.  That callbacks of an earlier prompt are left, or that one    *)
(* was late before, is no excuse.                                          *)
AllowAnswersOwnPrompt ==
  wpc # "wait" /\ result = "allow" => by # 0 /\ (by = req \/ excused)

(* presence_macos.mm:254-256: a block of an earlier request "that runs     *)
(* late ... can never show old text or decide a newer request", and        *)
(* presence_linux.cpp:275: "a late action/closed callback must not mutate  *)
(* the next request".  But a panel that is still open, or a notification   *)
(* still shown, when the next question begins decides that one.            *)
OwnPromptDecides == prompt # "stdin" => by \in {0, req}

(* At most one notification exists at any time, whatever the server does:  *)
(* a callback that shows one never overtakes the one that closes the one   *)
(* before.  Panels nest only in a question that began with one left over.  *)
OnePromptAtATime ==
  /\ Cardinality(screen) <= 1
  /\ Len(modals) <= 1 \/ late

(* When confirm() has returned, and its prompt was withdrawn in time and   *)
(* nothing was left of an earlier one, none is on the screen, and no       *)
(* callback is left that could show one.                                   *)
NothingLeftBehind ==
  wpc = "idle" /\ ~late => screen = {} /\ modals = <<>> /\ idles = <<>>

(* Every question is answered, even if the notification server, the main   *)
(* thread and the user never react.                                        *)
ConfirmReturns == wpc # "idle" ~> wpc = "idle"

(* No client, silent or gone, and no question keeps the control thread     *)
(* from the next connection for ever.                                      *)
ControlThreadFree == cpc \in {"read", "delete", "ask"} ~> cpc = "poll"

(* The steps of the loop thread, its calls to the server's end included,   *)
(* and the daemon's end: ~NotifyPresence, if there is one, has joined it.  *)
NotifyServed ==
  /\ prompt = "notify" /\ (Show \/ Shown \/ ShowFails \/ Close \/ Closed \/ StopLoop)
  /\ UNCHANGED <<alert, ctl>>
Ended == ending = "joined" /\ (prompt = "notify" => lpc = "over")

(* Once the daemon is told to end, main() gets past the HID loop, its own  *)
(* main loop and the control thread, whatever the notification server      *)
(* does: though the worker or the control thread may be asking, the main   *)
(* thread may be in a panel or in a deletion, and clients are connected.   *)
(* And it ends, ~NotifyPresence having joined the loop thread, when calls  *)
(* to the notification server end.                                         *)
ShutdownCompletes ==
  /\ ending # "no" ~> ending = "joined"
  /\ WF_vars(NotifyServed) => (ending # "no" ~> Ended)

(* A deletion from the menu bar blocks the main thread on op_mu_ while the *)
(* thread that holds it waits for the main thread to show its panel: the   *)
(* deadline gets both out.                                                 *)
MenuNotStuck == main = "menu" ~> main # "menu"
=============================================================================
