------------------------------- MODULE Loop -------------------------------
(***************************************************************************)
(* daemon::Loop (src/daemon/loop.cpp): the HID I/O thread run(), the       *)
(* worker thread worker_main(), and what they share under mu_: the         *)
(* in-flight slot with its CancelToken, and the outbox.  stop_ is an       *)
(* atomic that a signal handler (request_stop) and the control socket or   *)
(* the menu bar (stop) also set.                                           *)
(*                                                                         *)
(* A step is a critical section of mu_, a write_all, a read, or a step of  *)
(* the request handler that another thread can observe (it polls the token *)
(* and publishes the keepalive status while it waits for user presence).   *)
(* Clock readings are abstracted: 100 ms or 500 ms may or may not have     *)
(* passed whenever the code asks.                                          *)
(*                                                                         *)
(* Every request that enters the slot gets the next number as a ghost, so  *)
(* that reports can be traced to the transaction they belong to.           *)
(***************************************************************************)
EXTENDS HidDevice

CONSTANT MaxTxn    \* bound: hosts send no request once this many were accepted

ASSUME LoopAssumption ==
  /\ MaxTxn \in Nat
  /\ None \notin Cids
  /\ None \notin [cid : HostCids, cmd : {"cbor", "msg"}, txn : 1..MaxTxn]

VARIABLES
  dev,        \* device_
  slot,       \* inflight_.cmd: the message with its number, or None
  token,      \* inflight_.token
  outbox,     \* outbox_
  stopFlag,   \* stop_
  hid,        \* program counter of run()
  toWrite,    \* run()'s local to_write or replies
  worker,     \* program counter of worker_main()
  job,        \* worker_main()'s local msg
  status,     \* what the handler returned for it
  quitter,    \* program counter of a thread that calls stop()
  healthy,    \* run()'s return value so far
  accepted,   \* ghost: how many requests entered the slot
  answered,   \* ghost: transactions whose response was written
  lost,       \* ghost: transactions whose response was dropped at shutdown
  asked       \* ghost: transactions whose host asked to cancel them

hidVars    == <<hid, toWrite, healthy>>
workerVars == <<worker, job, status>>
ghosts     == <<accepted, answered, lost, asked>>
vars == <<dev, slot, token, outbox, stopFlag, hidVars, workerVars, quitter, ghosts>>

Txn == 1..MaxTxn
Job == [cid : HostCids, cmd : {"cbor", "msg"}, txn : Txn]
TokenReset == [cancelled |-> FALSE, up |-> FALSE]
TokenCancel(t) == [t EXCEPT !.cancelled = TRUE]

Keepalive(j, t) == [kind |-> "keepalive", cid |-> j.cid, txn |-> j.txn, up |-> t.up]
Response(j, s)  == [kind |-> "response", cid |-> j.cid, txn |-> j.txn, status |-> s]
TxnsOf(reports) ==
  {t \in Txn : \E i \in DOMAIN reports : reports[i].kind = "response" /\ reports[i].txn = t}

Init ==
  /\ dev = NewDevice
  /\ slot = None
  /\ token = TokenReset
  /\ outbox = <<>>
  /\ stopFlag = FALSE
  /\ hid = "top" /\ toWrite = <<>> /\ healthy = TRUE
  /\ worker = "ready" /\ job = None /\ status = None
  /\ quitter = "idle"
  /\ accepted = 0 /\ answered = {} /\ lost = {} /\ asked = {}

(* Variants of the definitions below, with a defect, named for it.         *)
WokenByNothing(w) == w

HidDrainCopiesOutbox ==
  /\ hid = "top" /\ ~stopFlag
  /\ \E due \in BOOLEAN :
       /\ due => slot # None
       /\ toWrite' = outbox \o (IF due THEN <<Keepalive(slot, token)>> ELSE <<>>)
  /\ hid' = "write"
  /\ UNCHANGED <<dev, slot, token, outbox, stopFlag, healthy, workerVars, quitter, ghosts>>

HidCancelWithoutNotify ==
  /\ hid = "cancel"
  /\ token' = TokenCancel(token)
  /\ hid' = "join"
  /\ UNCHANGED <<dev, slot, outbox, stopFlag, toWrite, healthy, workerVars, quitter,
                 ghosts>>

WorkerHandledWithoutStatus ==
  /\ worker \in {"handle", "allowed"}
  /\ worker' = "publish"
  /\ UNCHANGED <<dev, slot, token, outbox, stopFlag, hidVars, job, status, quitter, ghosts>>

WorkerPublishKeepsSlot ==
  /\ worker = "publish"
  /\ outbox' = Append(outbox, Response(job, status))
  /\ token' = TokenReset
  /\ worker' = "ready"
  /\ job' = None /\ status' = None
  /\ UNCHANGED <<dev, slot, stopFlag, hidVars, quitter, ghosts>>

WorkerPublishInFront ==
  /\ worker = "publish"
  /\ outbox' = <<Response(job, status)>> \o outbox
  /\ slot' = None
  /\ token' = TokenReset
  /\ worker' = "ready"
  /\ job' = None /\ status' = None
  /\ UNCHANGED <<dev, stopFlag, hidVars, quitter, ghosts>>

(* As if a cancelled command had no response to send.                      *)
WorkerPublishDropsCancelled ==
  /\ worker = "publish"
  /\ outbox' = IF status = "cancelled" THEN outbox ELSE Append(outbox, Response(job, status))
  /\ slot' = None
  /\ token' = TokenReset
  /\ worker' = "ready"
  /\ job' = None /\ status' = None
  /\ UNCHANGED <<dev, stopFlag, hidVars, quitter, ghosts>>

-----------------------------------------------------------------------------
(* worker_cv_.notify_one / notify_all                                      *)
Woken(w) == IF w = "blocked" THEN "ready" ELSE w

-----------------------------------------------------------------------------
(* The HID I/O thread: one iteration of run().                             *)

(* while (!stop_) ..., 1. swap the outbox and add a keepalive if one is due *)
HidDrain ==
  /\ hid = "top" /\ ~stopFlag
  /\ \E due \in BOOLEAN :
       /\ due => slot # None
       /\ toWrite' = outbox \o (IF due THEN <<Keepalive(slot, token)>> ELSE <<>>)
  /\ outbox' = <<>>
  /\ hid' = "write"
  /\ UNCHANGED <<dev, slot, token, stopFlag, healthy, workerVars, quitter, ghosts>>

(* write_all(to_write) or write_all(replies), every report written.        *)
HidWrite ==
  /\ hid \in {"write", "reply"}
  /\ answered' = answered \cup TxnsOf(toWrite)
  /\ toWrite' = <<>>
  /\ hid' = IF hid = "write" THEN "read" ELSE "top"
  /\ UNCHANGED <<dev, slot, token, outbox, stopFlag, healthy, workerVars, quitter,
                 accepted, lost, asked>>

(* A transport write fails after the first n reports: run() gives up.      *)
HidWriteFails ==
  /\ hid \in {"write", "reply"}
  /\ \E n \in 0..(Len(toWrite) - 1) :
       LET written == TxnsOf(SubSeq(toWrite, 1, n))
       IN  /\ answered' = answered \cup written
           /\ lost' = lost \cup (TxnsOf(toWrite) \ written)
  /\ toWrite' = <<>>
  /\ healthy' = FALSE
  /\ hid' = "stop"
  /\ UNCHANGED <<dev, slot, token, outbox, stopFlag, workerVars, quitter,
                 accepted, asked>>

(* 2. poll_timeout finds the partial message idle for 500 ms: it is        *)
(* dropped and MSG_TIMEOUT written, or that write fails.  (When nothing is *)
(* due the poll changes nothing; afterwards nothing is due.)               *)
HidPollTimeout ==
  /\ hid = "read" /\ TimeoutDue(dev)
  /\ dev' = PollTimeout(dev).dev
  /\ \/ UNCHANGED <<hid, healthy>>
     \/ hid' = "stop" /\ healthy' = FALSE
  /\ UNCHANGED <<slot, token, outbox, stopFlag, toWrite, workerVars, quitter, ghosts>>

(* 3. read with a bounded wait: nothing arrives, or the transport fails. *)
HidReadNothing ==
  /\ hid = "read"
  /\ hid' = "top"
  /\ UNCHANGED <<dev, slot, token, outbox, stopFlag, toWrite, healthy, workerVars,
                 quitter, ghosts>>

HidReadFails ==
  /\ hid = "read"
  /\ hid' = "stop"
  /\ healthy' = FALSE
  /\ UNCHANGED <<dev, slot, token, outbox, stopFlag, toWrite, workerVars, quitter,
                 ghosts>>

(* Ghost: with packet p the host of channel cid completes a CANCEL or a    *)
(* resynchronising INIT.                                                   *)
AsksToCancel(p, cid) ==
  LET r == Ingested(dev.assembly, p)
  IN  r.kind = "message" /\ r.msg.cid = cid /\ r.msg.cmd \in {"cancel", "init"}
InSlot == IF slot = None THEN {} ELSE {slot.txn}

(* 3./4. A report arrives and is ingested under the lock (the report is a  *)
(* local of run(), so reading and ingesting it are one step): cancel the   *)
(* transaction in flight or hand the message to the worker.                *)
HidIngest(p, fresh) ==
  LET busy == IF slot = None THEN None ELSE slot.cid
      ing  == DeviceIngest(dev, p, busy, fresh)
  IN  /\ hid = "read"
      /\ (p.type = "init" /\ p.cmd \in {"cbor", "msg"}) => accepted < MaxTxn
      /\ dev' = ing.dev
      /\ toWrite' = ing.reply
      /\ hid' = "reply"
      /\ IF ing.toWorker # None
           THEN /\ slot' = [cid |-> ing.toWorker.cid, cmd |-> ing.toWorker.cmd,
                            txn |-> accepted + 1]
                /\ accepted' = accepted + 1
                /\ token' = TokenReset
                /\ worker' = Woken(worker)
                /\ UNCHANGED asked
           ELSE /\ UNCHANGED <<slot, accepted, worker>>
                /\ token' = IF ing.cancel /\ slot # None THEN TokenCancel(token) ELSE token
                /\ asked' = asked \cup {t \in InSlot : AsksToCancel(p, slot.cid)}
      /\ UNCHANGED <<outbox, stopFlag, healthy, job, status, quitter, answered, lost>>

(* The loop ends: stop() (the flag, then cancel and notify under mu_) and  *)
(* the join of the worker.                                                 *)
HidLeave ==
  /\ hid = "top" /\ stopFlag
  /\ hid' = "stop"
  /\ UNCHANGED <<dev, slot, token, outbox, stopFlag, toWrite, healthy, workerVars,
                 quitter, ghosts>>

HidStop ==
  /\ hid = "stop"
  /\ stopFlag' = TRUE
  /\ hid' = "cancel"
  /\ UNCHANGED <<dev, slot, token, outbox, toWrite, healthy, workerVars, quitter,
                 ghosts>>

HidCancel ==
  /\ hid = "cancel"
  /\ token' = TokenCancel(token)
  /\ worker' = Woken(worker)
  /\ hid' = "join"
  /\ UNCHANGED <<dev, slot, outbox, stopFlag, toWrite, healthy, job, status, quitter,
                 ghosts>>

HidJoin ==
  /\ hid = "join" /\ worker = "exited"
  /\ hid' = "done"
  /\ UNCHANGED <<dev, slot, token, outbox, stopFlag, toWrite, healthy, workerVars,
                 quitter, ghosts>>

-----------------------------------------------------------------------------
(* The worker thread.                                                      *)

(* worker_cv_.wait: evaluate the predicate under mu_ and block, take the   *)
(* request (the slot stays occupied), or leave.                            *)
WorkerWait ==
  /\ worker = "ready"
  /\ worker' = IF stopFlag THEN "exited" ELSE IF slot # None THEN "handle" ELSE "blocked"
  /\ job' = IF ~stopFlag /\ slot # None THEN slot ELSE job
  /\ UNCHANGED <<dev, slot, token, outbox, stopFlag, hidVars, status, quitter, ghosts>>

(* std::condition_variable may wake up for no reason.                      *)
WorkerSpurious ==
  /\ worker = "blocked"
  /\ worker' = "ready"
  /\ UNCHANGED <<dev, slot, token, outbox, stopFlag, hidVars, job, status, quitter, ghosts>>

(* handle_cbor / handle_u2f return, before or after the one user-presence  *)
(* wait that a command makes.                                              *)
WorkerHandled ==
  /\ worker \in {"handle", "allowed"}
  /\ status' \in {"ok", "err"}
  /\ worker' = "publish"
  /\ UNCHANGED <<dev, slot, token, outbox, stopFlag, hidVars, job, quitter, ghosts>>

(* confirm_up: an already cancelled request is not shown to the user.      *)
WorkerConfirm ==
  /\ worker = "handle"
  /\ IF token.cancelled
       THEN worker' = "publish" /\ status' = "cancelled" /\ UNCHANGED token
       ELSE worker' = "confirm" /\ token' = [token EXCEPT !.up = TRUE] /\ UNCHANGED status
  /\ UNCHANGED <<dev, slot, outbox, stopFlag, hidVars, job, quitter, ghosts>>

(* Presence::confirm returns and confirm_up restores PROCESSING.           *)
ConfirmReturns(to, s) ==
  /\ worker = "confirm"
  /\ token' = [token EXCEPT !.up = FALSE]
  /\ worker' = to
  /\ status' = s
  /\ UNCHANGED <<dev, slot, outbox, stopFlag, hidVars, job, quitter, ghosts>>

WorkerAllow  == ConfirmReturns("allowed", status)
WorkerDeny   == ConfirmReturns("publish", "err")
WorkerExpire == ConfirmReturns("publish", "err")
WorkerCancelled == token.cancelled /\ ConfirmReturns("publish", "cancelled")

(* Publish the response and release the slot in one critical section.      *)
WorkerPublish ==
  /\ worker = "publish"
  /\ outbox' = Append(outbox, Response(job, status))
  /\ slot' = None
  /\ token' = TokenReset
  /\ worker' = "ready"
  /\ job' = None /\ status' = None
  /\ UNCHANGED <<dev, stopFlag, hidVars, quitter, ghosts>>

-----------------------------------------------------------------------------
(* Other threads.                                                          *)

(* SIGINT or SIGTERM: request_stop() in the signal handler.                *)
RequestStop ==
  /\ ~stopFlag
  /\ stopFlag' = TRUE
  /\ UNCHANGED <<dev, slot, token, outbox, hidVars, workerVars, quitter, ghosts>>

(* stop() from the control socket or the menu bar, in its two steps.       *)
QuitStore ==
  /\ quitter = "idle" /\ hid # "done"
  /\ stopFlag' = TRUE
  /\ quitter' = "stored"
  /\ UNCHANGED <<dev, slot, token, outbox, hidVars, workerVars, ghosts>>

QuitCancel ==
  /\ quitter = "stored"
  /\ token' = TokenCancel(token)
  /\ worker' = Woken(worker)
  /\ quitter' = "done"
  /\ UNCHANGED <<dev, slot, outbox, stopFlag, hidVars, job, status, ghosts>>

Hid ==
  \/ HidDrain \/ HidWrite \/ HidPollTimeout
  \/ HidReadNothing
  \/ \E p \in Packet : \E fresh \in FreshCids(dev, p) : HidIngest(p, fresh)
  \/ HidLeave \/ HidStop \/ HidCancel \/ HidJoin

HidFails == HidWriteFails \/ HidReadFails

Worker ==
  \/ WorkerWait \/ WorkerHandled \/ WorkerConfirm
  \/ WorkerExpire \/ WorkerCancelled \/ WorkerPublish

User == WorkerAllow \/ WorkerDeny

(* run() has returned and the process is about to leave main().            *)
Terminated == hid = "done" /\ UNCHANGED vars

Next ==
  \/ Hid \/ HidFails \/ Worker \/ WorkerSpurious \/ User
  \/ RequestStop \/ QuitStore \/ QuitCancel \/ Terminated

(* Both threads are scheduled; a wait for the user ends by itself after    *)
(* kUserActionTimeout (WorkerExpire).  Nobody has to press a button, a     *)
(* transport need not fail, and no stop need be requested.                 *)
Fairness == WF_vars(Hid) /\ WF_vars(Worker)

Spec == Init /\ [][Next]_vars /\ Fairness

-----------------------------------------------------------------------------
WireReport ==
  [kind : {"keepalive"}, cid : HostCids, txn : Txn, up : BOOLEAN]
    \cup [kind : {"response"}, cid : HostCids, txn : Txn, status : {"ok", "err", "cancelled"}]
    \cup [kind : {"error", "init", "ping", "wink"}, cid : Cids, what : HidErr \cup Cids \cup {None}]

(* Type invariant of the state the two threads share and of their locals.  *)
TypeOK ==
  /\ dev \in Device
  /\ slot \in Job \cup {None}
  /\ token \in [cancelled : BOOLEAN, up : BOOLEAN]
  /\ outbox \in Seq(WireReport)
  /\ stopFlag \in BOOLEAN
  /\ hid \in {"top", "write", "read", "reply", "stop", "cancel", "join", "done"}
  /\ toWrite \in Seq(WireReport)
  /\ worker \in {"ready", "blocked", "handle", "confirm", "allowed", "publish", "exited"}
  /\ job \in Job \cup {None}
  /\ status \in {"ok", "err", "cancelled", None}
  /\ quitter \in {"idle", "stored", "done"}
  /\ healthy \in BOOLEAN
  /\ accepted \in 0..MaxTxn
  /\ answered \subseteq Txn /\ lost \subseteq Txn /\ asked \subseteq Txn

(* loop.cpp:102: "Publish the response and release the slot atomically so  *)
(* the HID thread never writes a keepalive after the response INIT         *)
(* packet": a keepalive about to be written belongs to a transaction whose *)
(* response neither was written nor stands before it in the same batch.    *)
KeepaliveNeverAfterResponse ==
  \A i \in DOMAIN toWrite :
    toWrite[i].kind = "keepalive" =>
      toWrite[i].txn \notin answered \cup TxnsOf(toWrite)

(* Every accepted request is in exactly one place: the slot, a response in *)
(* the outbox, a response being written, written, or dropped because the   *)
(* transport failed.  So a response is neither lost nor sent twice, however *)
(* worker completions and HID iterations interleave.                       *)
EachRequestInOnePlace ==
  /\ 1..accepted = InSlot \cup TxnsOf(outbox) \cup TxnsOf(toWrite) \cup answered \cup lost
  /\ InSlot \cap (TxnsOf(outbox) \cup TxnsOf(toWrite) \cup answered \cup lost) = {}
  /\ TxnsOf(outbox) \cap (TxnsOf(toWrite) \cup answered \cup lost) = {}
  /\ TxnsOf(toWrite) \cap (answered \cup lost) = {}
  /\ answered \cap lost = {}
  /\ \A i, j \in DOMAIN outbox : outbox[i].txn = outbox[j].txn => i = j
  /\ lost # {} => ~healthy

(* A request fails as cancelled only if its own host cancelled it (or the  *)
(* daemon is stopping): a CANCEL that arrives while the worker is already  *)
(* publishing never reaches the next transaction through the shared token. *)
CancelHitsOnlyItsOwn ==
  \A i \in DOMAIN outbox :
    outbox[i].status = "cancelled" => outbox[i].txn \in asked \/ stopFlag

(* For its hosts the loop is the one broker of Broker: requests are taken  *)
(* one at a time, and their responses leave in that order, also when the   *)
(* next request is accepted and handled before the response of the last    *)
(* one has left the outbox, and when a failing transport cuts a batch      *)
(* short.                                                                  *)
Hosts == INSTANCE Broker WITH
  busy <- slot # None,
  open <- hid \in {"top", "write", "read", "reply"}
ImplementsBroker == Hosts!Spec

(* The worker never sleeps on a condition that already holds: not while a  *)
(* request is in the slot, and not once run() waits to join it.            *)
NoLostWakeup ==
  worker = "blocked" => slot = None /\ hid \notin {"join", "done"}

(* Every accepted request is answered, unless the daemon stops first.      *)
(* (answered only grows and at most MaxTxn requests are accepted, so       *)
(* catching up with every accepted request again and again is the same as  *)
(* answering each of them.)                                                *)
RequestAnswered == (accepted > 0) ~> (answered = 1..accepted \/ stopFlag)

(* Once a stop is requested by a signal, the control socket, the menu bar  *)
(* or a transport failure, run() returns with the worker joined.           *)
StopCompletes == (stopFlag \/ ~healthy) ~> (hid = "done" /\ worker = "exited")

(* DESIGN.md:224: "CANCEL on the busy CID sets CancelToken".               *)
CancelSetsToken ==
  [][\A p \in InitPacket : \A fresh \in FreshCids(dev, p) :
       (/\ HidIngest(p, fresh)
        /\ slot # None /\ p.cid = slot.cid
        /\ p.cmd = "cancel" /\ p.bcnt <= InitPayload)
       => token'.cancelled]_vars
=============================================================================
