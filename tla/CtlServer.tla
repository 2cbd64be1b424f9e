------------------------------ MODULE CtlServer ------------------------------
(***************************************************************************)
(* The control socket (src/ctl/server.cpp): one thread that serves one     *)
(* connection after the other, and the clients' request().  A client       *)
(* writes one line and waits a minute for one; the server waits five       *)
(* seconds for the line.  Some commands need the user, others op_mu_, and  *)
(* "quit" ends the daemon.  The clients run under the daemon's user id and *)
(* their lines and the replies fit in the socket's buffer.  What a reply   *)
(* says is left out.                                                       *)
(***************************************************************************)
EXTENDS Presence

CONSTANTS Clients   \* calls of request()

VARIABLES
  cpc,       \* the thread: "poll", "read", "delete", "ask" (reset, set-pin),
             \* "over"
  backlog,   \* the connections; the first one is served
  cli        \* where each client is

ctl == <<cpc, backlog, cli>>

CtlInit == cpc = "poll" /\ backlog = <<>> /\ cli = [k \in Clients |-> "new"]

-----------------------------------------------------------------------------
(* request(): connect and write the line.  Whether the client then still   *)
(* waits for the reply makes no difference to the server.                  *)

Goto(k, pc) == cli' = [cli EXCEPT ![k] = pc]

Connect(k) ==
  /\ cli[k] = "new"
  /\ ending # "joined"
  /\ Goto(k, "connected") /\ backlog' = Append(backlog, k)
  /\ UNCHANGED <<gate, cpc>>

(* A line for a connection that the server has closed goes nowhere.        *)
SendLine(k) ==
  /\ cli[k] = "connected"
  /\ Goto(k, "sent")
  /\ UNCHANGED <<gate, cpc, backlog>>

Client(k) == Connect(k) \/ SendLine(k)

-----------------------------------------------------------------------------
(* The thread.                                                             *)

(* poll() and accept(); the stop flag is looked at before each poll().     *)
Accept ==
  /\ cpc = "poll" /\ backlog # <<>>
  /\ cpc' = "read"
  /\ UNCHANGED <<gate, backlog, cli>>

CheckStop ==
  /\ cpc = "poll" /\ ending = "ctl"
  /\ cpc' = "over"
  /\ UNCHANGED <<gate, backlog, cli>>

(* The reply is written, as far as the client still listens, and the       *)
(* connection closed.                                                      *)
Reply == cpc' = "poll" /\ backlog' = Tail(backlog) /\ UNCHANGED cli

(* What is not a whole line after five seconds is handled as it is: it     *)
(* does not parse.  (A defective variant: the server waits for the line.)  *)
LineRead == cli[Head(backlog)] = "sent"
ReadLineForEver ==
  /\ cpc = "read" /\ LineRead
  /\ Reply \/ (cpc' \in {"delete", "ask"} /\ UNCHANGED <<backlog, cli>>)
  /\ UNCHANGED gate
ReadLine ==
  /\ cpc = "read"
  /\ Reply \/ (LineRead /\ cpc' \in {"delete", "ask"} /\ UNCHANGED <<backlog, cli>>)
  /\ UNCHANGED gate

Quit ==
  /\ cpc = "read" /\ LineRead
  /\ LoopStop /\ Reply
  /\ UNCHANGED <<prompt, worker, answer, withdrawn, tty, late, excused>>

CtlDelete == cpc = "delete" /\ holder = "none" /\ Reply /\ UNCHANGED gate

(* ctl_reset and ctl_set_pin hold op_mu_ for the question and for what     *)
(* follows it.                                                             *)
Confirm == cpc = "ask" /\ UNCHANGED ctl

Confirmed ==
  /\ holder = "ctl" /\ wpc = "idle"
  /\ holder' = "none"
  /\ Reply
  /\ UNCHANGED <<prompt, wpc, req, cancelled, result, answer, withdrawn, tty, ending,
                 late, excused>>

(* stop(): main() joins the thread, closes the socket and unlinks it.      *)
Joined ==
  /\ ending = "ctl" /\ cpc = "over"
  /\ ending' = "joined" /\ backlog' = <<>>
  /\ UNCHANGED <<prompt, worker, answer, withdrawn, tty, late, excused, cpc, cli>>

CtlThread == CheckStop \/ Accept \/ ReadLine \/ Quit \/ CtlDelete \/ Confirmed

CtlTypeOK ==
  /\ cpc \in {"poll", "read", "delete", "ask", "over"}
  /\ backlog \in Seq(Clients)
  /\ cli \in [Clients -> {"new", "connected", "sent"}]
=============================================================================
