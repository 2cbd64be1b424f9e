------------------------------ MODULE Presence ------------------------------
(***************************************************************************)
(* The user-presence gate as the thread that asks sees it: Presence::      *)
(* confirm up to the points where the prompts differ, the prompt on the    *)
(* terminal (src/ui/presence.cpp), and the end of the daemon               *)
(* (src/daemon/main.cpp), which may come while a question is open.         *)
(*                                                                         *)
(* The HID worker and the control server's thread ask, each under op_mu_,  *)
(* so busy_ is never found set and is left out.  The text of a prompt is   *)
(* the number of the request it was made for.  A deadline may pass         *)
(* whenever the code looks at the clock.                                   *)
(***************************************************************************)
EXTENDS Naturals, Sequences, FiniteSets

CONSTANTS
  MaxRequests,   \* bound on the questions, after which the worker asks none
  Desktops       \* desktop prompts a build may have: "notify", "alert"

ASSUME PresenceAssumption ==
  /\ MaxRequests \in Nat
  /\ Desktops \subseteq {"notify", "alert"}

Decisions == {"allow", "deny", "timeout", "cancelled"}
Callers == {"worker", "ctl"}
Endings == {"no", "stopping", "cancelled", "done", "ctl", "joined"}

VARIABLES
  prompt,      \* the prompt chosen at startup
  wpc,         \* the asking thread: "idle", "wait", "teardown"
  holder,      \* the thread that holds op_mu_, or "none"
  req,         \* the last question asked; generation_ of AlertPresence
  cancelled,   \* its CancelToken
  decided,     \* decided_
  decision,    \* decision_
  withdrawn,   \* torn_down_ of NotifyPresence, finished_ of AlertPresence
  result,      \* what the last confirm() returned, or will; "none" at first
  tty,         \* StdinPresence: a line typed and not read, or none
  ending,      \* "no"; "stopping": stop_ of the HID loop is set; "cancelled":
               \* stop() ran to its end; "done": run() returned; "ctl": stop_
               \* of the control server is set; "joined": it has ended
  by,          \* ghost: the text the deciding answer was given to, 0 if none
  late,        \* ghost: the prompt of this question was not withdrawn in
               \* time, or it began with something left of an earlier one
  excused      \* ghost: it began with an earlier prompt still to be seen, or
               \* with a line in the terminal's buffer

worker == <<wpc, holder, req, cancelled, result>>
answer == <<decided, decision, by>>
gate == <<prompt, worker, answer, withdrawn, tty, ending, late, excused>>

Lines == [allow : BOOLEAN, text : Nat]
NoLine == [allow |-> FALSE, text |-> 0]

(* make_desktop_presence: there may be no session, no server that has      *)
(* buttons, or no loop thread.                                             *)
MakeDesktopPresence == Desktops \cup {"none"}

(* make_presence, for what SWPASSKEY_PRESENCE and the configuration ask.   *)
(* (A defective variant has no fallback.)                                  *)
MakePresenceOnly(prefer, notifications, desktop) ==
  IF prefer # "stdin" /\ (prefer # "auto" \/ notifications) THEN desktop ELSE "stdin"
MakePresence(prefer, notifications, desktop) ==
  IF prefer # "stdin" /\ (prefer # "auto" \/ notifications) /\ desktop # "none"
  THEN desktop ELSE "stdin"

GateInit ==
  /\ \E prefer \in {"auto", "stdin", "notify", "alert"}, notifications \in BOOLEAN,
        desktop \in MakeDesktopPresence :
       prompt = MakePresence(prefer, notifications, desktop)
  /\ wpc = "idle" /\ holder = "none" /\ req = 0 /\ cancelled = FALSE
  /\ decided = FALSE /\ decision = "deny" /\ withdrawn = TRUE
  /\ result = "none" /\ tty = NoLine /\ ending = "no"
  /\ by = 0 /\ late = FALSE /\ excused = FALSE

-----------------------------------------------------------------------------
(* The asking thread.                                                      *)

(* A command takes op_mu_ and, unless it is cancelled by then, confirm()   *)
(* begins: the state of the last question is reset.  left says that a      *)
(* callback of an earlier prompt is left, and seen that the prompt itself  *)
(* is.  (A defective variant: the last answer is not reset.)               *)
NewQuestion(c, left, seen) ==
  /\ holder = "none"
  /\ c = "worker" => ending \in {"no", "stopping"} /\ req < MaxRequests
  /\ wpc' = "wait" /\ holder' = c /\ req' = req + 1 /\ cancelled' = FALSE
  /\ withdrawn' = FALSE
  /\ late' = left /\ excused' = (seen \/ tty # NoLine)
  /\ UNCHANGED <<prompt, result, tty, ending>>
AskKeepsAnswer(c, left, seen) == NewQuestion(c, left, seen) /\ UNCHANGED answer
Ask(c, left, seen) ==
  /\ NewQuestion(c, left, seen)
  /\ decided' = FALSE /\ decision' = "deny" /\ by' = 0

(* The first answer wins.                                                  *)
Decide(d, text) ==
  IF decided THEN UNCHANGED answer
  ELSE decided' = TRUE /\ decision' = d /\ by' = text

(* A CTAPHID CANCEL; the control thread's token is never cancelled.        *)
Cancel ==
  /\ wpc = "wait" /\ holder = "worker" /\ ~cancelled
  /\ cancelled' = TRUE
  /\ UNCHANGED <<prompt, wpc, holder, req, result, answer, withdrawn, tty, ending,
                 late, excused>>

(* Why the wait ends, in the order the loop looks.  (A defective variant:  *)
(* there is no deadline.)                                                  *)
OutcomeNoDeadline ==
  CASE decided -> {decision}
    [] ~decided /\ cancelled -> {"cancelled"}
    [] OTHER -> {}
Outcome ==
  CASE decided -> {decision}
    [] ~decided /\ cancelled -> {"cancelled"}
    [] OTHER -> {"timeout"}

(* It ends with out; later answers find the question decided.              *)
Leave(out) ==
  /\ wpc = "wait" /\ out \in Outcome
  /\ decided' = TRUE /\ decision' = out
  /\ result' = out

(* The prompt is withdrawn, or the thread stops waiting for that.  (A      *)
(* defective variant: it does not wait.)                                   *)
WithdrawnUnchecked ==
  /\ wpc = "teardown"
  /\ wpc' = "idle"
  /\ UNCHANGED <<prompt, holder, req, cancelled, result, answer, withdrawn, tty,
                 ending, late, excused>>
Withdrawn ==
  /\ wpc = "teardown" /\ withdrawn
  /\ wpc' = "idle"
  /\ UNCHANGED <<prompt, holder, req, cancelled, result, answer, withdrawn, tty,
                 ending, late, excused>>

GiveUp ==
  /\ wpc = "teardown" /\ ~withdrawn
  /\ wpc' = "idle" /\ late' = TRUE
  /\ UNCHANGED <<prompt, holder, req, cancelled, result, answer, withdrawn, tty,
                 ending, excused>>

-----------------------------------------------------------------------------
(* StdinPresence: a line read is the answer, also one that was typed       *)
(* before the question.  (One typed before the first question is not       *)
(* modelled: it is like one typed between two.)                            *)

Type(allow) ==
  /\ prompt = "stdin" /\ tty = NoLine /\ req > 0
  /\ tty' = [allow |-> allow, text |-> req]
  /\ UNCHANGED <<prompt, worker, answer, withdrawn, ending, late, excused>>

StdinAsk(c) == prompt = "stdin" /\ Ask(c, FALSE, FALSE)

StdinRead ==
  /\ prompt = "stdin" /\ wpc = "wait" /\ tty # NoLine
  /\ decided' = TRUE /\ decision' = (IF tty.allow THEN "allow" ELSE "deny")
  /\ by' = tty.text
  /\ result' = decision'
  /\ tty' = NoLine /\ wpc' = "idle"
  /\ UNCHANGED <<prompt, holder, req, cancelled, withdrawn, ending, late, excused>>

(* Cancelled, out of time, or the end of the input; the last two also      *)
(* when the token was cancelled since the loop looked at it.               *)
StdinLeave ==
  /\ prompt = "stdin" /\ wpc = "wait"
  /\ result' \in {"timeout", "cancelled"} /\ (result' = "cancelled" => cancelled)
  /\ decided' = TRUE /\ decision' = result'
  /\ wpc' = "idle"
  /\ UNCHANGED <<prompt, holder, req, cancelled, by, withdrawn, tty, ending, late,
                 excused>>

-----------------------------------------------------------------------------
(* The end of the daemon.                                                  *)

(* The worker's command ends, and with it its hold of op_mu_.              *)
WorkerDone ==
  /\ holder = "worker" /\ wpc = "idle"
  /\ holder' = "none"
  /\ UNCHANGED <<prompt, wpc, req, cancelled, result, answer, withdrawn, tty, ending,
                 late, excused>>

(* stop_ is set, by a signal, the menu, the control socket or a dead       *)
(* transport; ...                                                          *)
LoopStop == ending' = IF ending = "no" THEN "stopping" ELSE ending
RequestStop ==
  /\ ending = "no" /\ LoopStop
  /\ UNCHANGED <<prompt, worker, answer, withdrawn, tty, late, excused>>

(* ... run() sees it, and stop() cancels the worker's token; ...           *)
StopCancels ==
  /\ ending = "stopping" /\ ending' = "cancelled"
  /\ cancelled' = (cancelled \/ holder = "worker")
  /\ UNCHANGED <<prompt, wpc, holder, req, result, answer, withdrawn, tty, late, excused>>

(* ... it joins the worker and returns, ...                                *)
LoopDone ==
  /\ ending = "cancelled" /\ holder # "worker"
  /\ ending' = "done"
  /\ UNCHANGED <<prompt, worker, answer, withdrawn, tty, late, excused>>

(* ... and main() tells the control server to stop and joins its thread.   *)
CtlStop ==
  /\ ending = "done"
  /\ ending' = "ctl"
  /\ UNCHANGED <<prompt, worker, answer, withdrawn, tty, late, excused>>

GateTypeOK ==
  /\ prompt \in Desktops \cup {"stdin"}
  /\ wpc \in {"idle", "wait", "teardown"} /\ holder \in Callers \cup {"none"}
  /\ req \in Nat /\ cancelled \in BOOLEAN
  /\ decided \in BOOLEAN /\ decision \in Decisions /\ withdrawn \in BOOLEAN
  /\ result \in Decisions \cup {"none"}
  /\ tty \in Lines /\ ending \in Endings
  /\ by \in Nat /\ late \in BOOLEAN /\ excused \in BOOLEAN
=============================================================================
