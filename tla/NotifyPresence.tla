--------------------------- MODULE NotifyPresence ---------------------------
(***************************************************************************)
(* The prompt on Linux (src/ui/presence_linux.cpp): a notification with    *)
(* buttons, shown and withdrawn by callbacks on a GLib loop thread.  Idle  *)
(* callbacks of one priority run in the order they were added; the answers *)
(* are D-Bus signals, dispatched when the loop thread is free.  A call to  *)
(* the notification server blocks that thread for as long as the server    *)
(* takes; D-Bus ends it after a time of its own, which is longer than the  *)
(* asking thread waits.                                                    *)
(***************************************************************************)
EXTENDS Presence

VARIABLES
  idles,     \* idle callbacks added and not run: "show", "close"
  lpc,       \* the loop thread: "free", "show", "close", "over"
  body,      \* the text show_cb took with it
  notif,     \* notif_: the number of a notification, 0 for none
  screen,    \* the notifications that exist, and so can call back
  shows      \* the notifications shown so far

notify == <<idles, lpc, body, notif, screen, shows>>

Notifications == [id : Nat, text : Nat, answered : BOOLEAN]

NotifyInit ==
  /\ idles = <<>> /\ lpc = "free" /\ body = 0
  /\ notif = 0 /\ screen = {} /\ shows = 0

NotifySeen == lpc = "show" \/ screen # {}
NotifyAsk(c) ==
  /\ prompt = "notify"
  /\ Ask(c, NotifySeen \/ lpc = "close" \/ idles # <<>>, NotifySeen)
  /\ idles' = Append(idles, "show")
  /\ UNCHANGED <<lpc, body, notif, screen, shows>>

NotifyLeave ==
  /\ prompt = "notify"
  /\ \E out \in Decisions : Leave(out)
  /\ wpc' = "teardown"
  /\ idles' = Append(idles, "close")
  /\ UNCHANGED <<prompt, holder, req, cancelled, by, withdrawn, tty, ending, late,
                 excused, lpc, body, notif, screen, shows>>

(* show_cb: nothing when the question was decided before; else it takes    *)
(* the text and asks the server, ...                                       *)
Show ==
  /\ lpc = "free" /\ idles # <<>> /\ Head(idles) = "show"
  /\ idles' = Tail(idles)
  /\ IF decided THEN UNCHANGED <<lpc, body>> ELSE lpc' = "show" /\ body' = req
  /\ UNCHANGED <<gate, notif, screen, shows>>

(* ... which shows the notification, ...  (A defective variant: the        *)
(* callback asks to be run again.)                                         *)
ShownContinue ==
  /\ lpc = "show"
  /\ shows' = shows + 1 /\ notif' = shows + 1
  /\ screen' = screen \cup {[id |-> shows + 1, text |-> body, answered |-> FALSE]}
  /\ lpc' = "free" /\ idles' = Append(idles, "show")
  /\ UNCHANGED <<gate, body>>
Shown ==
  /\ lpc = "show"
  /\ shows' = shows + 1 /\ notif' = shows + 1
  /\ screen' = screen \cup {[id |-> shows + 1, text |-> body, answered |-> FALSE]}
  /\ lpc' = "free"
  /\ UNCHANGED <<gate, idles, body>>

(* ... or fails to: deny.                                                  *)
ShowFails ==
  /\ lpc = "show"
  /\ Decide("deny", 0)
  /\ lpc' = "free"
  /\ UNCHANGED <<prompt, worker, withdrawn, tty, ending, late, excused, idles, body,
                 notif, screen, shows>>

(* close_cb takes notif_, closes that notification and frees it, ...  What *)
(* the server says to the close is ignored: the user may go on seeing the  *)
(* notification, but with its object freed it cannot call back.            *)
Close ==
  /\ lpc = "free" /\ idles # <<>> /\ Head(idles) = "close"
  /\ idles' = Tail(idles)
  /\ screen' = {n \in screen : n.id # notif}
  /\ notif' = 0
  /\ lpc' = "close"
  /\ UNCHANGED <<gate, body, shows>>

(* ... and reports it.                                                     *)
Closed ==
  /\ lpc = "close"
  /\ withdrawn' = TRUE
  /\ lpc' = "free"
  /\ UNCHANGED <<prompt, worker, answer, tty, ending, late, excused, idles, body,
                 notif, screen, shows>>

(* action_cb: a button was pressed.                                        *)
Button(n, allow) ==
  /\ lpc = "free" /\ ~n.answered
  /\ Decide(IF allow THEN "allow" ELSE "deny", n.text)
  /\ screen' = (screen \ {n}) \cup {[n EXCEPT !.answered = TRUE]}
  /\ UNCHANGED <<prompt, worker, withdrawn, tty, ending, late, excused, idles, lpc,
                 body, notif, shows>>

(* closed_cb: dismissed, expired, or closed by the server after a button.  *)
Dismissed(n) ==
  /\ lpc = "free"
  /\ Decide("deny", n.text)
  /\ screen' = (screen \ {n}) \cup {[n EXCEPT !.answered = TRUE]}
  /\ UNCHANGED <<prompt, worker, withdrawn, tty, ending, late, excused, idles, lpc,
                 body, notif, shows>>

(* ~NotifyPresence: the loop is told to quit and its thread is joined; the *)
(* idle callbacks left are never run.                                      *)
StopLoop ==
  /\ lpc = "free" /\ ending = "joined"
  /\ lpc' = "over"
  /\ screen' = {n \in screen : n.id # notif} /\ notif' = 0
  /\ UNCHANGED <<gate, idles, body, shows>>

NotifyThread ==
  \/ Show \/ Shown \/ ShowFails \/ Close \/ Closed \/ StopLoop
  \/ \E n \in screen : Dismissed(n) \/ \E allow \in BOOLEAN : Button(n, allow)

NotifyTypeOK ==
  /\ idles \in Seq({"show", "close"}) /\ lpc \in {"free", "show", "close", "over"}
  /\ body \in Nat /\ notif \in Nat /\ shows \in Nat
  /\ screen \subseteq Notifications
=============================================================================
