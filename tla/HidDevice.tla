----------------------------- MODULE HidDevice -----------------------------
(***************************************************************************)
(* ctap::HidDevice (src/ctap/hid_device.cpp): channel allocation with LRU  *)
(* reaping, the commands the device answers itself, and the decision of    *)
(* what goes to the authenticator worker.  The device does no I/O and has  *)
(* no thread, so its methods are operators on its state                    *)
(*                                                                         *)
(*   [channels |-> channel ids, least recently used first,                 *)
(*    assembly |-> the framer's partial message or None,                   *)
(*    armed    |-> assembling_since_ holds a time]                         *)
(*                                                                         *)
(* The code keeps a last_used time per channel and reaps the minimum; the  *)
(* times only matter through their order, which the sequence keeps.        *)
(* Counters and log lines are left out.                                    *)
(***************************************************************************)
EXTENDS HidFramer

CONSTANTS
  MaxChannels,    \* kMaxChannels, 4
  Bcast,          \* kBroadcastCid
  NonceLen,       \* 8: payload length of CTAPHID_INIT
  MsgSupported    \* the handler implements CTAP1/U2F

ASSUME DeviceAssumption ==
  /\ MaxChannels \in Nat \ {0}
  /\ Bcast \in Cids
  /\ Bcast # ZeroCid
  /\ NonceLen \in Nat
  /\ MsgSupported \in BOOLEAN

HostCids == Cids \ {Bcast, ZeroCid}
Device == [channels : Seq(HostCids), assembly : Assembly \cup {None}, armed : BOOLEAN]
NewDevice == [channels |-> <<>>, assembly |-> None, armed |-> FALSE]

IsAllocated(d, cid) == \E i \in DOMAIN d.channels : d.channels[i] = cid
(* touch: the channel moves behind all others in the order of use.         *)
Touch(d, cid) ==
  LET s == d.channels
      k == CHOOSE i \in DOMAIN s : s[i] = cid
  IN  [d EXCEPT !.channels = Append(SubSeq(s, 1, k - 1) \o SubSeq(s, k + 1, Len(s)), cid)]

(* allocate_cid: the table after reaping, and the ids the CSPRNG loop may  *)
(* settle on.                                                              *)
Reaped(d) ==
  IF Len(d.channels) >= MaxChannels THEN [d EXCEPT !.channels = Tail(@)] ELSE d
IsBroadcastInit(p) == p.cid = Bcast /\ p.type = "init" /\ p.cmd = "init"
FreshCids(d, p) ==
  IF IsBroadcastInit(p) THEN {c \in HostCids : ~IsAllocated(Reaped(d), c)} ELSE {None}
Allocate(d, fresh) == [Reaped(d) EXCEPT !.channels = Append(@, fresh)]

(* The struct ingest() returns, with the device state it leaves.           *)
Report(kind, cid, what) == [kind |-> kind, cid |-> cid, what |-> what]
Answer(d, reply) == [dev |-> d, reply |-> reply, toWorker |-> None, cancel |-> FALSE]
Fail(d, cid, e)  == Answer(d, <<Report("error", cid, e)>>)

(* A defective variant: CANCEL from any allocated channel cancels.         *)
DispatchCancelFromAnyone(d, m, inflight) ==
  LET t == Touch(d, m.cid)
  IN  CASE m.cmd = "cancel" -> [Answer(t, <<>>) EXCEPT !.cancel = (inflight # None)]
        [] m.cmd = "cbor" ->
             IF inflight # None THEN Fail(t, m.cid, "ChannelBusy")
             ELSE [Answer(t, <<>>) EXCEPT !.toWorker = m]
        [] OTHER -> Fail(t, m.cid, "InvalidCmd")

(* Dispatch of a complete message on an allocated channel.                 *)
Dispatch(d, m, inflight) ==
  LET t == Touch(d, m.cid)
  IN  CASE m.cmd \in {"ping", "wink"} -> Answer(t, <<Report(m.cmd, m.cid, None)>>)
        [] m.cmd = "cancel" ->
             [Answer(t, <<>>) EXCEPT !.cancel = (inflight = m.cid)]
        [] m.cmd = "cbor" \/ (m.cmd = "msg" /\ MsgSupported) ->
             IF inflight # None THEN Fail(t, m.cid, "ChannelBusy")
             ELSE [Answer(t, <<>>) EXCEPT !.toWorker = m]
        [] OTHER -> Fail(t, m.cid, "InvalidCmd")

(* CTAPHID_INIT on a channel: resynchronisation aborts what it has running *)
Resync(d, m, inflight) ==
  IF m.bcnt # NonceLen THEN Fail(d, m.cid, "InvalidLen")
  ELSE IF ~IsAllocated(d, m.cid) THEN Fail(d, m.cid, "InvalidChannel")
  ELSE [Answer(Touch(d, m.cid), <<Report("init", m.cid, m.cid)>>)
          EXCEPT !.cancel = (inflight = m.cid)]

BroadcastInit(d, p, fresh) ==
  IF p.bcnt # NonceLen THEN Fail(d, p.cid, "InvalidLen")
  ELSE Answer(Allocate(d, fresh), <<Report("init", Bcast, fresh)>>)

(* HidDevice::ingest.  inflight is the channel the worker is busy with or  *)
(* None; fresh is the id allocate_cid would pick.                          *)
DeviceIngest(d, p, inflight, fresh) ==
  LET r == Ingested(d.assembly, p)
      kept == [d EXCEPT !.assembly = r.assembly]
      done == [kept EXCEPT !.armed = FALSE]
  IN  IF IsBroadcastInit(p) THEN BroadcastInit(d, p, fresh)
      ELSE IF r.kind = "error" THEN Fail(kept, p.cid, r.err)
      ELSE IF r.kind = "partial" THEN Answer([kept EXCEPT !.armed = TRUE], <<>>)
      ELSE IF r.msg.cmd = "init" THEN Resync(done, r.msg, inflight)
      ELSE IF p.cid = Bcast \/ ~IsAllocated(done, p.cid) THEN Fail(done, p.cid, "InvalidChannel")
      ELSE Dispatch(done, r.msg, inflight)

(* HidDevice::poll_timeout once 500 ms have passed on a partial message.   *)
TimeoutDue(d) == d.assembly # None /\ d.armed
PollTimeout(d) ==
  Answer([d EXCEPT !.assembly = TimedOut(@), !.armed = FALSE],
         <<Report("error", d.assembly.cid, "MsgTimeout")>>)
=============================================================================
