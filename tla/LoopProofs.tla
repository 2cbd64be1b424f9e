----------------------------- MODULE LoopProofs -----------------------------
(***************************************************************************)
(* Proofs about the two threads of daemon::Loop, for every set of hosts,   *)
(* every payload size, every number of channels and every number of        *)
(* transactions.                                                           *)
(***************************************************************************)
EXTENDS Loop, HidFramerProofs

-----------------------------------------------------------------------------
(* Transactions of a batch of reports.                                     *)

LEMMA TxnsOfEmpty == TxnsOf(<<>>) = {}
  BY DEF TxnsOf

LEMMA TxnsOfConcat ==
  ASSUME NEW S, NEW s \in Seq(S), NEW t \in Seq(S)
  PROVE  TxnsOf(s \o t) = TxnsOf(s) \cup TxnsOf(t)
<1>1. /\ DOMAIN (s \o t) = 1..(Len(s) + Len(t))
      /\ DOMAIN s = 1..Len(s) /\ DOMAIN t = 1..Len(t)
      /\ Len(s) \in Nat /\ Len(t) \in Nat
  BY ConcatProperties, LenProperties
<1>2. \A i \in 1..Len(s) : i \in 1..(Len(s) + Len(t)) /\ (s \o t)[i] = s[i]
  BY ConcatProperties, <1>1
<1>3. \A i \in 1..Len(t) : i + Len(s) \in 1..(Len(s) + Len(t)) /\ (s \o t)[i + Len(s)] = t[i]
  BY ConcatProperties, <1>1
<1>4. \A i \in 1..(Len(s) + Len(t)) :
         i \in 1..Len(s) \/ \E j \in 1..Len(t) : (s \o t)[i] = t[j]
  <2> SUFFICES ASSUME NEW i \in 1..(Len(s) + Len(t)), i \notin 1..Len(s)
               PROVE  \E j \in 1..Len(t) : (s \o t)[i] = t[j]
    OBVIOUS
  <2>1. i - Len(s) \in 1..Len(t) /\ (i - Len(s)) + Len(s) = i
    BY <1>1
  <2> QED
    BY <2>1, <1>3
<1> QED
  BY <1>1, <1>2, <1>3, <1>4 DEF TxnsOf

LEMMA TxnsOfAppend ==
  ASSUME NEW S, NEW s \in Seq(S), NEW e \in S, e.kind = "response" => e.txn \in Txn
  PROVE  TxnsOf(Append(s, e)) = TxnsOf(s) \cup (IF e.kind = "response" THEN {e.txn} ELSE {})
<1>1. /\ DOMAIN Append(s, e) = 1..(Len(s) + 1) /\ DOMAIN s = 1..Len(s) /\ Len(s) \in Nat
      /\ Append(s, e)[Len(s) + 1] = e
      /\ \A i \in 1..Len(s) : Append(s, e)[i] = s[i]
  BY AppendProperties, LenProperties
<1>2. \A i \in 1..(Len(s) + 1) : i \in 1..Len(s) \/ i = Len(s) + 1
  BY <1>1
<1>3. /\ \A i \in 1..Len(s) : i \in 1..(Len(s) + 1)
      /\ Len(s) + 1 \in 1..(Len(s) + 1)
  BY <1>1
<1> QED
  BY <1>1, <1>2, <1>3 DEF TxnsOf

LEMMA TxnsOfPrefix ==
  ASSUME NEW S, NEW s \in Seq(S), NEW n \in 0..Len(s)
  PROVE  TxnsOf(SubSeq(s, 1, n)) \subseteq TxnsOf(s)
<1>1. /\ DOMAIN SubSeq(s, 1, n) = 1..n /\ DOMAIN s = 1..Len(s) /\ Len(s) \in Nat
      /\ \A i \in 1..n : SubSeq(s, 1, n)[i] = s[i]
  BY SubSeqProperties, LenProperties
<1>2. \A i \in 1..n : i \in 1..Len(s)
  BY <1>1
<1> QED
  BY <1>1, <1>2 DEF TxnsOf

-----------------------------------------------------------------------------
(* What the device returns.                                                *)

LEMMA TouchOK ==
  ASSUME NEW d \in Device, NEW cid \in HostCids, IsAllocated(d, cid)
  PROVE  Touch(d, cid) \in Device /\ Touch(d, cid).assembly = d.assembly
<1> DEFINE s == d.channels
           k == CHOOSE i \in DOMAIN s : s[i] = cid
<1>1. s \in Seq(HostCids)
  BY DEF Device
<1>2. k \in 1..Len(s)
  BY <1>1, LenProperties DEF IsAllocated
<1> HIDE DEF k
<1>3. SubSeq(s, 1, k - 1) \in Seq(HostCids) /\ SubSeq(s, k + 1, Len(s)) \in Seq(HostCids)
  BY <1>1, <1>2, SubSeqProperties, LenProperties
<1>4. Append(SubSeq(s, 1, k - 1) \o SubSeq(s, k + 1, Len(s)), cid) \in Seq(HostCids)
  BY <1>3, ConcatProperties, AppendProperties
<1> QED
  BY <1>4 DEF Touch, Device, k

LEMMA AllocateOK ==
  ASSUME NEW d \in Device, NEW fresh \in HostCids
  PROVE  Allocate(d, fresh) \in Device /\ Allocate(d, fresh).assembly = d.assembly
<1>1. d.channels \in Seq(HostCids) /\ Len(d.channels) \in Nat
  BY LenProperties DEF Device
<1>2. Len(d.channels) >= MaxChannels => Tail(d.channels) \in Seq(HostCids)
  BY <1>1, HeadTailProperties, DeviceAssumption, EmptySeq
<1>3. Reaped(d) \in Device /\ Reaped(d).assembly = d.assembly
  BY <1>2 DEF Reaped, Device
<1>4. Append(Reaped(d).channels, fresh) \in Seq(HostCids)
  BY <1>3, AppendProperties DEF Device
<1> QED
  BY <1>3, <1>4 DEF Allocate, Device

HidReport == [kind : {"error", "init", "ping", "wink"}, cid : Cids,
              what : HidErr \cup Cids \cup {None}]

(* A batch of replies from the device holds no response of the worker.     *)
LEMMA RepliesOK ==
  ASSUME NEW s \in Seq(HidReport)
  PROVE  /\ s \in Seq(WireReport) /\ TxnsOf(s) = {}
         /\ \A i \in DOMAIN s : s[i].kind # "keepalive"
<1>1. HidReport \subseteq WireReport
  BY DEF HidReport, WireReport
<1>2. s \in Seq(WireReport)
  BY <1>1, SeqMonotonic
<1>3. \A i \in DOMAIN s : s[i] \in HidReport
  BY ElementOfSeq, LenProperties
<1> QED
  BY <1>2, <1>3 DEF TxnsOf, HidReport

LEMMA FailOK ==
  ASSUME NEW d \in Device, NEW cid \in Cids, NEW e \in HidErr
  PROVE  LET r == Fail(d, cid, e) IN
         r.dev = d /\ r.reply \in Seq(HidReport) /\ r.toWorker = None
<1>1. Report("error", cid, e) \in HidReport
  BY DEF Report, HidReport
<1>2. <<Report("error", cid, e)>> \in Seq(HidReport)
  BY <1>1
<1> QED
  BY <1>2 DEF Fail, Answer

LEMMA ReplyOK ==
  ASSUME NEW kind \in {"init", "ping", "wink"}, NEW cid \in Cids, NEW what \in Cids \cup {None}
  PROVE  <<Report(kind, cid, what)>> \in Seq(HidReport)
<1>1. Report(kind, cid, what) \in HidReport
  BY DEF Report, HidReport
<1> QED
  BY <1>1

(* HidDevice::ingest asks to cancel only for a complete CANCEL or INIT of  *)
(* the channel in flight.                                                  *)
LEMMA DeviceCancelOK ==
  ASSUME NEW d \in Device, NEW p \in Packet, NEW inflight, NEW fresh,
         DeviceIngest(d, p, inflight, fresh).cancel
  PROVE  LET r == Ingested(d.assembly, p) IN
         r.kind = "message" /\ r.msg.cid = inflight /\ r.msg.cmd \in {"cancel", "init"}
<1> DEFINE ing == DeviceIngest(d, p, inflight, fresh)
           r == Ingested(d.assembly, p)
           m == r.msg
           kept == [d EXCEPT !.assembly = r.assembly]
           done == [kept EXCEPT !.armed = FALSE]
<1>1. \A x, reply : Answer(x, reply).cancel = FALSE
  BY DEF Answer
<1>2. \A x, cid, e : Fail(x, cid, e).cancel = FALSE
  BY <1>1 DEF Fail
<1>3. ~IsBroadcastInit(p)
  BY <1>1, <1>2 DEF DeviceIngest, BroadcastInit
<1>4. r.kind \notin {"error", "partial"}
  BY <1>1, <1>2, <1>3 DEF DeviceIngest
<1>5. r.kind = "message"
  BY <1>4, IngestedOK DEF Device
<1>6. ing = IF m.cmd = "init" THEN Resync(done, m, inflight)
            ELSE IF p.cid = Bcast \/ ~IsAllocated(done, p.cid)
                   THEN Fail(done, p.cid, "InvalidChannel")
            ELSE Dispatch(done, m, inflight)
  BY <1>3, <1>5 DEF DeviceIngest
<1> HIDE DEF ing, r, m, done
<1>7. ing.cancel
  BY DEF ing
<1>8. CASE m.cmd = "init"
  <2>1. ing = Resync(done, m, inflight)
    BY <1>6, <1>8
  <2> QED
    BY <2>1, <1>2, <1>5, <1>7, <1>8 DEF Resync, Answer, r, m
<1>9. CASE m.cmd # "init"
  <2>1. ing = Dispatch(done, m, inflight)
    BY <1>2, <1>6, <1>7, <1>9
  <2> DEFINE t == Touch(done, m.cid)
  <2> HIDE DEF t
  <2>2. \/ \E reply : ing = Answer(t, reply)
        \/ ing = [Answer(t, <<>>) EXCEPT !.toWorker = m]
        \/ \E e : ing = Fail(t, m.cid, e)
        \/ m.cmd = "cancel" /\ ing = [Answer(t, <<>>) EXCEPT !.cancel = (inflight = m.cid)]
    BY <2>1 DEF Dispatch, t
  <2> QED
    BY <2>2, <1>1, <1>2, <1>5, <1>7 DEF Answer, r, m
<1> QED
  BY <1>8, <1>9

(* HidDevice::ingest: what it returns is well formed; a message goes to    *)
(* the worker only when the slot is free, it is a CBOR or MSG request of a *)
(* host, nothing stays in assembly, and its command came with the report   *)
(* or with the partial message.                                            *)
LEMMA DeviceIngestOK ==
  ASSUME NEW d \in Device, NEW p \in Packet, NEW inflight, NEW fresh \in FreshCids(d, p)
  PROVE  LET ing == DeviceIngest(d, p, inflight, fresh) IN
         /\ ing.dev \in Device
         /\ ing.reply \in Seq(HidReport)
         /\ ing.dev.assembly # None =>
              \/ ing.dev.assembly = d.assembly
              \/ /\ ing.toWorker = None
                 /\ ing.dev.assembly.cmd = IF p.type = "init" THEN p.cmd ELSE d.assembly.cmd
                 /\ p.type = "init" \/ d.assembly \in Assembly
         /\ ing.toWorker # None =>
              /\ inflight = None
              /\ ing.dev.assembly = None
              /\ ing.toWorker.cid \in HostCids
              /\ ing.toWorker.cmd \in {"cbor", "msg"}
              /\ ing.toWorker.cmd = IF p.type = "init" THEN p.cmd ELSE d.assembly.cmd
              /\ p.type = "init" \/ d.assembly \in Assembly
<1> DEFINE ing == DeviceIngest(d, p, inflight, fresh)
           r == Ingested(d.assembly, p)
           kept == [d EXCEPT !.assembly = r.assembly]
           done == [kept EXCEPT !.armed = FALSE]
<1>0. d.assembly \in Assembly \cup {None} /\ p.cid \in Cids
  BY DEF Device, Packet, InitPacket, ContPacket
<1>1. CASE IsBroadcastInit(p)
  <2>1. fresh \in HostCids /\ fresh \in Cids /\ Bcast \in Cids
    BY <1>1, DeviceAssumption DEF FreshCids, HostCids
  <2>2. "InvalidLen" \in HidErr
    BY DEF HidErr
  <2>3. ing = BroadcastInit(d, p, fresh)
    BY <1>1 DEF DeviceIngest
  <2> HIDE DEF ing
  <2>4. CASE p.bcnt # NonceLen
    <3>1. ing = Fail(d, p.cid, "InvalidLen")
      BY <2>3, <2>4 DEF BroadcastInit
    <3> QED
      BY <3>1, <2>2, <1>0, FailOK DEF ing
  <2>5. CASE p.bcnt = NonceLen
    <3>1. ing = Answer(Allocate(d, fresh), <<Report("init", Bcast, fresh)>>)
      BY <2>3, <2>5 DEF BroadcastInit
    <3>2. <<Report("init", Bcast, fresh)>> \in Seq(HidReport)
      BY <2>1, ReplyOK
    <3> QED
      BY <3>1, <3>2, <2>1, AllocateOK DEF Answer, ing
  <2> QED
    BY <2>4, <2>5
<1>2. CASE ~IsBroadcastInit(p) /\ r.kind = "error"
  <2>1. r.err \in HidErr /\ r.assembly \in {d.assembly, None}
    BY <1>0, <1>2, IngestedOK
  <2>2. kept \in Device /\ kept.assembly = r.assembly
    BY <2>1, <1>0 DEF Device
  <2>3. ing = Fail(kept, p.cid, r.err)
    BY <1>2 DEF DeviceIngest
  <2> HIDE DEF ing, kept, r
  <2> QED
    BY <2>1, <2>2, <2>3, <1>0, FailOK DEF ing
<1>3. CASE ~IsBroadcastInit(p) /\ r.kind = "partial"
  <2>1. /\ r.assembly \in Assembly
        /\ r.assembly.cmd = IF p.type = "init" THEN p.cmd ELSE d.assembly.cmd
        /\ p.type = "init" \/ d.assembly \in Assembly
    BY <1>0, <1>3, IngestedOK
  <2>2. [kept EXCEPT !.armed = TRUE] \in Device /\ [kept EXCEPT !.armed = TRUE].assembly = r.assembly
    BY <2>1 DEF Device
  <2>3. ing = Answer([kept EXCEPT !.armed = TRUE], <<>>)
    BY <1>3 DEF DeviceIngest
  <2>4. <<>> \in Seq(HidReport)
    BY EmptySeq
  <2> DEFINE k == [kept EXCEPT !.armed = TRUE]
  <2> HIDE DEF ing, k, kept, r
  <2>5. k \in Device /\ k.assembly = r.assembly /\ ing = Answer(k, <<>>)
    BY <2>2, <2>3 DEF k
  <2>6. ing.dev = k /\ ing.reply = <<>> /\ ing.toWorker = None
    BY <2>5 DEF Answer
  <2> QED
    BY <2>1, <2>4, <2>5, <2>6 DEF ing
<1>4. CASE ~IsBroadcastInit(p) /\ r.kind = "message"
  <2>1. /\ r.assembly = None /\ r.msg \in Message
        /\ r.msg.cid = p.cid /\ p.cid # ZeroCid
        /\ r.msg.cmd = IF p.type = "init" THEN p.cmd ELSE d.assembly.cmd
        /\ p.type = "init" \/ d.assembly \in Assembly
    BY <1>0, <1>4, IngestedOK
  <2>2. done \in Device /\ done.assembly = None
    BY <2>1 DEF Device
  <2>3. ing = IF r.msg.cmd = "init" THEN Resync(done, r.msg, inflight)
              ELSE IF p.cid = Bcast \/ ~IsAllocated(done, p.cid)
                     THEN Fail(done, p.cid, "InvalidChannel")
              ELSE Dispatch(done, r.msg, inflight)
    BY <1>4 DEF DeviceIngest
  <2>4. \A c \in Cids : IsAllocated(done, c) => c \in HostCids
    <3> HIDE DEF done
    <3>1. done.channels \in Seq(HostCids)
      BY <2>2 DEF Device
    <3> QED
      BY <3>1, ElementOfSeq, LenProperties DEF IsAllocated
  <2>5. {"InvalidLen", "InvalidChannel", "ChannelBusy", "InvalidCmd"} \subseteq HidErr
    BY DEF HidErr
  <2>6. <<>> \in Seq(HidReport)
    BY EmptySeq
  <2> DEFINE m == r.msg
  <2> HIDE DEF ing, kept, r, done, m
  <2>7. CASE m.cmd = "init"
    <3>1. ing = Resync(done, m, inflight)
      BY <2>3, <2>7 DEF m
    <3>2. CASE ~IsAllocated(done, m.cid) \/ m.bcnt # NonceLen
      <4>1. ing \in {Fail(done, p.cid, "InvalidLen"), Fail(done, p.cid, "InvalidChannel")}
        BY <3>1, <3>2, <2>1 DEF Resync, m
      <4> QED
        BY <4>1, <2>2, <2>5, <1>0, FailOK DEF ing
    <3>3. CASE IsAllocated(done, m.cid) /\ m.bcnt = NonceLen
      <4>1. m.cid \in HostCids /\ m.cid \in Cids
        BY <3>3, <2>4, <2>1, <1>0 DEF m
      <4>2. ing = [Answer(Touch(done, m.cid), <<Report("init", m.cid, m.cid)>>)
                     EXCEPT !.cancel = (inflight = m.cid)]
        BY <3>1, <3>3 DEF Resync
      <4>3. Touch(done, m.cid) \in Device /\ Touch(done, m.cid).assembly = None
        BY <4>1, <3>3, <2>2, TouchOK
      <4>4. <<Report("init", m.cid, m.cid)>> \in Seq(HidReport)
        BY <4>1, ReplyOK
      <4> QED
        BY <4>2, <4>3, <4>4 DEF Answer, ing
    <3> QED
      BY <3>2, <3>3
  <2>8. CASE m.cmd # "init" /\ (p.cid = Bcast \/ ~IsAllocated(done, p.cid))
    <3>1. ing = Fail(done, p.cid, "InvalidChannel")
      BY <2>3, <2>8 DEF m
    <3> QED
      BY <3>1, <2>2, <2>5, <1>0, FailOK DEF ing
  <2>9. CASE m.cmd # "init" /\ ~(p.cid = Bcast \/ ~IsAllocated(done, p.cid))
    <3>1. ing = Dispatch(done, m, inflight)
      BY <2>3, <2>9 DEF m
    <3>2. m.cid = p.cid /\ m.cid \in HostCids /\ m.cid \in Cids
      BY <2>9, <2>4, <2>1, <1>0 DEF m
    <3> DEFINE t == Touch(done, m.cid)
    <3>3. t \in Device /\ t.assembly = None
      BY <3>2, <2>9, <2>2, TouchOK
    <3> HIDE DEF t
    <3>4. \/ m.cmd \in {"ping", "wink"} /\ ing = Answer(t, <<Report(m.cmd, m.cid, None)>>)
          \/ ing = [Answer(t, <<>>) EXCEPT !.cancel = (inflight = m.cid)]
          \/ ing = Fail(t, m.cid, "ChannelBusy")
          \/ ing = Fail(t, m.cid, "InvalidCmd")
          \/ /\ ing = [Answer(t, <<>>) EXCEPT !.toWorker = m]
             /\ inflight = None /\ m.cmd \in {"cbor", "msg"}
      BY <3>1 DEF Dispatch, t
    <3>5. m.cmd \in {"ping", "wink"} => <<Report(m.cmd, m.cid, None)>> \in Seq(HidReport)
      BY <3>2, ReplyOK
    <3>6. m.cmd = IF p.type = "init" THEN p.cmd ELSE d.assembly.cmd
      BY <2>1 DEF m
    <3>7. CASE ing = Fail(t, m.cid, "ChannelBusy") \/ ing = Fail(t, m.cid, "InvalidCmd")
      BY <3>7, <3>2, <3>3, <2>5, FailOK DEF ing
    <3>8. CASE m.cmd \in {"ping", "wink"} /\ ing = Answer(t, <<Report(m.cmd, m.cid, None)>>)
      BY <3>8, <3>3, <3>5 DEF Answer, ing
    <3>9. CASE ing = [Answer(t, <<>>) EXCEPT !.cancel = (inflight = m.cid)]
      BY <3>9, <3>3, <2>6 DEF Answer, ing
    <3>10. CASE /\ ing = [Answer(t, <<>>) EXCEPT !.toWorker = m]
                /\ inflight = None /\ m.cmd \in {"cbor", "msg"}
      BY <3>10, <3>2, <3>3, <3>6, <2>6, <2>1 DEF Answer, ing
    <3> QED
      BY <3>4, <3>7, <3>8, <3>9, <3>10
  <2> QED
    BY <2>7, <2>8, <2>9
<1> QED
  <2>1. r.kind \in {"error", "partial", "message"}
    BY <1>0, IngestedOK
  <2> QED
    BY <2>1, <1>1, <1>2, <1>3, <1>4

-----------------------------------------------------------------------------
(* The inductive invariant.  A request is in the slot exactly while the    *)
(* worker has it or is about to take it; the token is cancelled only for   *)
(* the request in the slot or by a stop; who is past setting stop_ finds   *)
(* it set; and a request still in assembly is below the bound.             *)
Working == {"handle", "confirm", "allowed", "publish"}
WorkerInv ==
  /\ worker \in Working => slot # None /\ job = slot
  /\ worker = "publish" => status \in {"ok", "err", "cancelled"}
  /\ worker = "blocked" => slot = None /\ hid \notin {"join", "done"}
StopInv ==
  /\ hid \in {"cancel", "join", "done"} => stopFlag
  /\ quitter # "idle" => stopFlag
  /\ ~healthy => stopFlag \/ hid = "stop"
TokenInv ==
  /\ token.cancelled => stopFlag \/ (slot # None /\ slot.txn \in asked)
  /\ (worker = "publish" /\ status = "cancelled") => stopFlag \/ job.txn \in asked
  /\ asked \subseteq 1..accepted
WriteInv == hid \notin {"write", "reply"} => toWrite = <<>>
OutboxInv == \A i \in DOMAIN outbox : outbox[i].kind = "response"
KeepaliveInv ==
  \A i \in DOMAIN toWrite :
    toWrite[i].kind = "keepalive" =>
      toWrite[i].txn \in (InSlot \cup TxnsOf(outbox))
AssemblyInv ==
  (dev.assembly # None /\ dev.assembly.cmd \in {"cbor", "msg"}) => accepted < MaxTxn

IInv ==
  /\ TypeOK /\ WorkerInv /\ StopInv /\ TokenInv /\ WriteInv /\ OutboxInv
  /\ KeepaliveInv /\ AssemblyInv /\ EachRequestInOnePlace /\ CancelHitsOnlyItsOwn

LEMMA InitIInv == Init => IInv
<1> SUFFICES ASSUME Init PROVE IInv
  OBVIOUS
<1>1. <<>> \in Seq(WireReport) /\ <<>> \in Seq(HostCids)
  BY EmptySeq
<1>2. TypeOK
  <2>1. dev \in Device
    BY <1>1 DEF Init, NewDevice, Device
  <2>2. token \in [cancelled : BOOLEAN, up : BOOLEAN]
    BY DEF Init, TokenReset
  <2>3. /\ slot \in Job \cup {None} /\ job \in Job \cup {None}
        /\ status \in {"ok", "err", "cancelled", None}
    BY DEF Init
  <2>4. accepted \in 0..MaxTxn
    BY LoopAssumption DEF Init
  <2>5. outbox \in Seq(WireReport) /\ toWrite \in Seq(WireReport)
    BY <1>1 DEF Init
  <2>6. answered \subseteq Txn /\ lost \subseteq Txn /\ asked \subseteq Txn
    BY DEF Init
  <2>7. /\ hid = "top" /\ worker = "ready" /\ quitter = "idle" /\ healthy = TRUE
        /\ stopFlag = FALSE
    BY DEF Init
  <2> QED
    BY <2>1, <2>2, <2>3, <2>4, <2>5, <2>6, <2>7 DEF TypeOK
<1>3. EachRequestInOnePlace
  BY TxnsOfEmpty DEF Init, EachRequestInOnePlace, InSlot
<1> QED
  BY <1>2, <1>3 DEF Init, IInv, WorkerInv, StopInv, TokenInv, WriteInv, OutboxInv, KeepaliveInv,
     AssemblyInv, CancelHitsOnlyItsOwn, Working, TokenReset, NewDevice

(* Steps that touch neither the reports nor the slot: the parts of the     *)
(* invariant that are about them carry over.                               *)
LEMMA Carries0 ==
  ASSUME IInv, UNCHANGED <<slot, outbox, toWrite, accepted, answered, lost>>,
         ~healthy => ~healthy'
  PROVE  EachRequestInOnePlace' /\ KeepaliveInv' /\ OutboxInv'
  BY DEF IInv, EachRequestInOnePlace, KeepaliveInv, OutboxInv, InSlot, TxnsOf

LEMMA HidDrainStep == IInv /\ HidDrain => IInv'
<1> SUFFICES ASSUME IInv, HidDrain PROVE IInv'
  OBVIOUS
<1> USE DEF HidDrain
<1>1. PICK due \in BOOLEAN :
        /\ due => slot # None
        /\ toWrite' = outbox \o (IF due THEN <<Keepalive(slot, token)>> ELSE <<>>)
  OBVIOUS
<1> DEFINE ka == IF due THEN <<Keepalive(slot, token)>> ELSE <<>>
<1>2. due => Keepalive(slot, token) \in WireReport
  BY <1>1 DEF Keepalive, WireReport, IInv, TypeOK, Job
<1>3. ka \in Seq(WireReport)
  BY <1>2, EmptySeq
<1>4. outbox \in Seq(WireReport)
  BY DEF IInv, TypeOK
<1>5. toWrite' \in Seq(WireReport) /\ TxnsOf(toWrite') = TxnsOf(outbox) \cup TxnsOf(ka)
  <2>1. toWrite' = outbox \o ka
    BY <1>1
  <2> HIDE DEF ka
  <2>2. outbox \o ka \in Seq(WireReport)
    BY <1>3, <1>4, ConcatProperties
  <2>3. TxnsOf(outbox \o ka) = TxnsOf(outbox) \cup TxnsOf(ka)
    BY <1>3, <1>4, TxnsOfConcat
  <2> QED
    BY <2>1, <2>2, <2>3
<1>6. TxnsOf(ka) = {}
  BY DEF TxnsOf, Keepalive
<1>7. TypeOK'
  BY <1>5, EmptySeq DEF IInv, TypeOK, workerVars, ghosts
<1>8. TxnsOf(outbox') = {}
  BY TxnsOfEmpty
<1>9. \A i \in DOMAIN toWrite' :
        toWrite'[i].kind = "keepalive" => toWrite'[i].txn \in InSlot
  <2> SUFFICES ASSUME NEW i \in DOMAIN toWrite', toWrite'[i].kind = "keepalive"
               PROVE  toWrite'[i].txn \in InSlot
    OBVIOUS
  <2>1. toWrite' = outbox \o ka
    BY <1>1
  <2>2. \A j \in 1..Len(outbox) : outbox[j].kind # "keepalive"
    BY <1>4, LenProperties DEF IInv, OutboxInv
  <2>3. Len(ka) \in {0, 1} /\ (Len(ka) = 1 => due /\ ka[1] = Keepalive(slot, token))
    OBVIOUS
  <2>4. Len(outbox) \in Nat /\ i \in 1..(Len(outbox) + Len(ka))
    BY <2>1, <1>3, <1>4, ConcatProperties, LenProperties
  <2>5. i \in 1..Len(outbox) => toWrite'[i] = outbox[i]
    BY <2>1, <1>3, <1>4, ConcatProperties
  <2>6. i \notin 1..Len(outbox)
    BY <2>2, <2>5
  <2>7. Len(ka) = 1 /\ i = Len(outbox) + 1
    BY <2>3, <2>4, <2>6
  <2> HIDE DEF ka
  <2>8. toWrite'[i] = ka[1]
    BY <2>1, <2>7, <2>4, <1>3, <1>4, ConcatProperties
  <2> QED
    BY <2>8, <2>7, <2>3, <1>1 DEF Keepalive, InSlot
<1>10. EachRequestInOnePlace'
  <2>1. TxnsOf(toWrite) = {} /\ TxnsOf(toWrite') = TxnsOf(outbox)
    BY <1>5, <1>6, TxnsOfEmpty DEF IInv, WriteInv
  <2> QED
    BY <2>1, <1>8 DEF IInv, EachRequestInOnePlace, InSlot, TxnsOf, ghosts
<1>11. KeepaliveInv'
  BY <1>9 DEF KeepaliveInv, InSlot
<1> QED
  BY <1>7, <1>10, <1>11 DEF IInv, WorkerInv, StopInv, TokenInv, WriteInv, OutboxInv, AssemblyInv,
     CancelHitsOnlyItsOwn, workerVars, ghosts

(* write_all, complete or cut short by a failing transport.                *)
LEMMA HidWriteStep == IInv /\ HidWrite => IInv'
<1> SUFFICES ASSUME IInv, HidWrite PROVE IInv'
  OBVIOUS
<1> USE DEF HidWrite
<1>1. TxnsOf(toWrite) \subseteq Txn
  BY DEF TxnsOf
<1>2. TypeOK'
  BY <1>1, EmptySeq DEF IInv, TypeOK, workerVars
<1>3. TxnsOf(toWrite') = {} /\ TxnsOf(outbox') = TxnsOf(outbox) /\ InSlot' = InSlot
  BY TxnsOfEmpty DEF InSlot, TxnsOf
<1>4. EachRequestInOnePlace'
  BY <1>3 DEF IInv, EachRequestInOnePlace
<1> QED
  BY <1>2, <1>4 DEF IInv, WorkerInv, StopInv, TokenInv, WriteInv, OutboxInv, KeepaliveInv,
     AssemblyInv, CancelHitsOnlyItsOwn, workerVars

LEMMA HidWriteFailsStep == IInv /\ HidWriteFails => IInv'
<1> SUFFICES ASSUME IInv, HidWriteFails PROVE IInv'
  OBVIOUS
<1> USE DEF HidWriteFails
<1>1. PICK n \in 0..(Len(toWrite) - 1) :
        /\ answered' = answered \cup TxnsOf(SubSeq(toWrite, 1, n))
        /\ lost' = lost \cup (TxnsOf(toWrite) \ TxnsOf(SubSeq(toWrite, 1, n)))
  OBVIOUS
<1> DEFINE written == TxnsOf(SubSeq(toWrite, 1, n))
<1>2. toWrite \in Seq(WireReport) /\ n \in 0..Len(toWrite)
  BY LenProperties DEF IInv, TypeOK
<1>3. written \subseteq TxnsOf(toWrite)
  BY <1>2, TxnsOfPrefix
<1>4. TxnsOf(toWrite) \subseteq Txn
  BY DEF TxnsOf
<1> HIDE DEF written
<1>5. answered' = answered \cup written /\ lost' = lost \cup (TxnsOf(toWrite) \ written)
  BY <1>1 DEF written
<1>6. TypeOK'
  BY <1>3, <1>4, <1>5, EmptySeq DEF IInv, TypeOK, workerVars
<1>7. TxnsOf(toWrite') = {} /\ TxnsOf(outbox') = TxnsOf(outbox) /\ InSlot' = InSlot
  BY TxnsOfEmpty DEF InSlot, TxnsOf
<1>8. EachRequestInOnePlace'
  BY <1>3, <1>5, <1>7 DEF IInv, EachRequestInOnePlace
<1> QED
  BY <1>6, <1>8 DEF IInv, WorkerInv, StopInv, TokenInv, WriteInv, OutboxInv, KeepaliveInv,
     AssemblyInv, CancelHitsOnlyItsOwn, workerVars

LEMMA HidPollTimeoutStep == IInv /\ HidPollTimeout => IInv'
<1> SUFFICES ASSUME IInv, HidPollTimeout PROVE IInv'
  OBVIOUS
<1> USE DEF HidPollTimeout
<1>1. dev' \in Device /\ dev'.assembly = None
  BY DEF PollTimeout, Answer, TimedOut, IInv, TypeOK, Device
<1>2. TypeOK'
  <2>1. hid' \in {"read", "stop"} /\ healthy' \in BOOLEAN
    BY DEF IInv, TypeOK
  <2> QED
    BY <1>1, <2>1 DEF IInv, TypeOK, workerVars, ghosts
<1>3. EachRequestInOnePlace' /\ KeepaliveInv' /\ OutboxInv'
  BY Carries0 DEF ghosts
<1> QED
  BY <1>1, <1>2, <1>3 DEF IInv, WorkerInv, StopInv, TokenInv, WriteInv, AssemblyInv,
     CancelHitsOnlyItsOwn, workerVars, ghosts

(* The control steps of run() that move no report.                         *)
LEMMA HidControlStep ==
  IInv /\ (HidReadNothing \/ HidReadFails \/ HidLeave \/ HidStop \/ HidJoin) => IInv'
<1> SUFFICES ASSUME IInv, HidReadNothing \/ HidReadFails \/ HidLeave \/ HidStop \/ HidJoin
             PROVE IInv'
  OBVIOUS
<1> USE DEF HidReadNothing, HidReadFails, HidLeave, HidStop, HidJoin
<1>1. /\ UNCHANGED <<dev, slot, token, outbox, toWrite, workerVars, quitter, ghosts>>
      /\ hid' \in {"top", "stop", "cancel", "done"}
      /\ stopFlag => stopFlag'
      /\ stopFlag' \in BOOLEAN /\ healthy' \in BOOLEAN
      /\ ~healthy => ~healthy'
  <2>1. stopFlag \in BOOLEAN /\ healthy \in BOOLEAN
    BY DEF IInv, TypeOK
  <2>2. CASE HidReadNothing \/ HidLeave \/ HidJoin
    BY <2>1, <2>2
  <2>3. CASE HidReadFails
    BY <2>1, <2>3
  <2>4. CASE HidStop
    BY <2>1, <2>4
  <2> QED
    BY <2>2, <2>3, <2>4
<1>2. TypeOK'
  BY <1>1 DEF IInv, TypeOK, workerVars, ghosts
<1>3. EachRequestInOnePlace' /\ KeepaliveInv' /\ OutboxInv'
  BY <1>1, Carries0 DEF ghosts
<1>4. WorkerInv'
  BY DEF IInv, WorkerInv, Working, workerVars
<1>5. StopInv'
  BY DEF IInv, StopInv
<1>6. TokenInv' /\ CancelHitsOnlyItsOwn' /\ AssemblyInv' /\ WriteInv'
  BY <1>1 DEF IInv, TokenInv, CancelHitsOnlyItsOwn, AssemblyInv, WriteInv, workerVars, ghosts
<1> QED
  BY <1>2, <1>3, <1>4, <1>5, <1>6 DEF IInv

LEMMA CancelStep == IInv /\ (HidCancel \/ QuitCancel) => IInv'
<1> SUFFICES ASSUME IInv, HidCancel \/ QuitCancel PROVE IInv'
  OBVIOUS
<1> USE DEF HidCancel, QuitCancel, hidVars
<1>1. token' \in [cancelled : BOOLEAN, up : BOOLEAN]
  BY DEF TokenCancel, IInv, TypeOK
<1>2. TypeOK'
  BY <1>1 DEF IInv, TypeOK, Woken, ghosts
<1>3. EachRequestInOnePlace' /\ KeepaliveInv' /\ OutboxInv'
  BY Carries0 DEF ghosts
<1>4. stopFlag /\ stopFlag'
  BY DEF IInv, StopInv
<1>5. worker' # "blocked" /\ (worker' \in Working => worker' = worker)
  BY DEF Woken, Working
<1>6. WorkerInv'
  BY <1>5 DEF IInv, WorkerInv, Working
<1>7. StopInv' /\ TokenInv' /\ CancelHitsOnlyItsOwn'
  BY <1>4 DEF IInv, StopInv, TokenInv, CancelHitsOnlyItsOwn, ghosts
<1>8. WriteInv' /\ AssemblyInv'
  BY DEF IInv, WriteInv, AssemblyInv, ghosts
<1> QED
  BY <1>2, <1>3, <1>6, <1>7, <1>8 DEF IInv

(* A report is ingested.  A request that enters the slot takes the next    *)
(* number, which no report carries yet.                                    *)
LEMMA HidIngestStep ==
  ASSUME IInv, NEW p \in Packet, NEW fresh \in FreshCids(dev, p), HidIngest(p, fresh)
  PROVE  IInv'
<1> DEFINE busy == IF slot = None THEN None ELSE slot.cid
           ing == DeviceIngest(dev, p, busy, fresh)
           new == [cid |-> ing.toWorker.cid, cmd |-> ing.toWorker.cmd, txn |-> accepted + 1]
<1>0. /\ dev \in Device /\ slot \in Job \cup {None} /\ accepted \in 0..MaxTxn
      /\ token \in [cancelled : BOOLEAN, up : BOOLEAN]
      /\ dev.assembly \in Assembly \cup {None}
  BY DEF IInv, TypeOK, Device
<1>1. /\ ing.dev \in Device
      /\ ing.reply \in Seq(HidReport)
      /\ ing.dev.assembly # None =>
           \/ ing.dev.assembly = dev.assembly
           \/ /\ ing.toWorker = None
              /\ ing.dev.assembly.cmd = IF p.type = "init" THEN p.cmd ELSE dev.assembly.cmd
              /\ p.type = "init" \/ dev.assembly \in Assembly
      /\ ing.toWorker # None =>
           /\ busy = None
           /\ ing.dev.assembly = None
           /\ ing.toWorker.cid \in HostCids
           /\ ing.toWorker.cmd \in {"cbor", "msg"}
           /\ ing.toWorker.cmd = IF p.type = "init" THEN p.cmd ELSE dev.assembly.cmd
           /\ p.type = "init" \/ dev.assembly \in Assembly
  BY <1>0, DeviceIngestOK
<1>a. ing.cancel /\ slot # None => AsksToCancel(p, slot.cid)
  <2> SUFFICES ASSUME ing.cancel, slot # None PROVE AsksToCancel(p, slot.cid)
    OBVIOUS
  <2> QED
    BY <1>0, DeviceCancelOK DEF AsksToCancel, Job
<1> HIDE DEF ing
<1>2. /\ hid = "read" /\ hid' = "reply" /\ dev' = ing.dev /\ toWrite' = ing.reply
      /\ (p.type = "init" /\ p.cmd \in {"cbor", "msg"}) => accepted < MaxTxn
      /\ IF ing.toWorker # None
           THEN /\ slot' = new /\ accepted' = accepted + 1 /\ token' = TokenReset
                /\ worker' = Woken(worker) /\ asked' = asked
           ELSE /\ UNCHANGED <<slot, accepted, worker>>
                /\ token' = IF ing.cancel /\ slot # None THEN TokenCancel(token) ELSE token
                /\ asked' = asked \cup {t \in InSlot : AsksToCancel(p, slot.cid)}
      /\ UNCHANGED <<outbox, stopFlag, healthy, job, status, quitter, answered, lost>>
  BY DEF HidIngest, ing
<1>3. toWrite = <<>> /\ TxnsOf(toWrite) = {}
  BY <1>2, TxnsOfEmpty DEF IInv, WriteInv
<1>4. /\ toWrite' \in Seq(WireReport) /\ TxnsOf(toWrite') = {}
      /\ \A i \in DOMAIN toWrite' : toWrite'[i].kind # "keepalive"
  BY <1>1, <1>2, RepliesOK
<1>5. WriteInv' /\ StopInv' /\ OutboxInv' /\ KeepaliveInv'
  BY <1>2, <1>4 DEF IInv, WriteInv, StopInv, OutboxInv, KeepaliveInv
<1>6. TxnsOf(outbox') = TxnsOf(outbox)
  BY <1>2 DEF TxnsOf
<1>7. CASE ing.toWorker = None
  <2>1. UNCHANGED <<slot, accepted, worker>>
    BY <1>2, <1>7
  <2>2. /\ token' \in [cancelled : BOOLEAN, up : BOOLEAN] /\ asked \subseteq asked'
        /\ asked' \subseteq asked \cup InSlot
        /\ token'.cancelled => token.cancelled \/ (slot # None /\ slot.txn \in asked')
    BY <1>0, <1>2, <1>7, <1>a DEF TokenCancel, InSlot
  <2>3. InSlot \subseteq 1..accepted
    BY DEF IInv, EachRequestInOnePlace
  <2>4. asked' \subseteq Txn
    BY <2>2, <1>0 DEF IInv, TypeOK, InSlot, Job
  <2>5. TypeOK'
    BY <1>1, <1>2, <1>4, <2>1, <2>2, <2>4 DEF IInv, TypeOK
  <2>6. WorkerInv'
    BY <1>2, <2>1 DEF IInv, WorkerInv, Working
  <2>7. TokenInv'
    <3>1. asked' \subseteq 1..accepted
      BY <2>2, <2>3 DEF IInv, TokenInv
    <3> QED
      BY <1>2, <2>1, <2>2, <3>1 DEF IInv, TokenInv
  <2>8. AssemblyInv'
    <3>1. dev.assembly \in Assembly => dev.assembly # None
      BY FramerAssumption DEF Assembly
    <3> QED
      BY <3>1, <1>1, <1>2, <2>1 DEF IInv, AssemblyInv
  <2>9. EachRequestInOnePlace'
    BY <1>2, <1>3, <1>4, <1>6, <2>1 DEF IInv, EachRequestInOnePlace, InSlot
  <2>10. CancelHitsOnlyItsOwn'
    BY <1>2, <2>2 DEF IInv, CancelHitsOnlyItsOwn
  <2> QED
    BY <1>5, <2>5, <2>6, <2>7, <2>8, <2>9, <2>10 DEF IInv
<1>8. CASE ing.toWorker # None
  <2>1. /\ slot' = new /\ accepted' = accepted + 1 /\ token' = TokenReset
        /\ worker' = Woken(worker) /\ asked' = asked
    BY <1>2, <1>8
  <2>2. slot = None
    BY <1>0, <1>1, <1>8, LoopAssumption DEF Job, HostCids
  <2>3. accepted < MaxTxn
    <3>1. p.type = "init" \/ (dev.assembly \in Assembly /\ dev.assembly # None)
      BY <1>1, <1>8, FramerAssumption DEF Assembly
    <3> QED
      BY <3>1, <1>1, <1>2, <1>8 DEF IInv, AssemblyInv
  <2>4. new \in Job /\ new # None /\ new.txn = accepted + 1 /\ accepted + 1 \in 0..MaxTxn
    <3>1. accepted + 1 \in 1..MaxTxn /\ accepted + 1 \in 0..MaxTxn
      BY <1>0, <2>3, LoopAssumption
    <3>2. new \in Job
      BY <3>1, <1>1, <1>8 DEF Job, Txn
    <3> QED
      BY <3>1, <3>2, LoopAssumption DEF Job, Txn
  <2> HIDE DEF new
  <2>5. TypeOK'
    BY <1>1, <1>2, <1>4, <2>1, <2>4 DEF IInv, TypeOK, TokenReset, Woken
  <2>6. WorkerInv'
    BY <1>2, <2>1, <2>2 DEF IInv, WorkerInv, Working, Woken
  <2>7. worker \notin Working /\ worker' \notin Working
    BY <2>1, <2>2 DEF IInv, WorkerInv, Woken, Working
  <2>8. TokenInv'
    <3>1. asked' \subseteq 1..accepted'
      BY <1>0, <2>1 DEF IInv, TokenInv
    <3>2. ~token'.cancelled /\ worker' # "publish"
      BY <2>1, <2>7 DEF TokenReset, Working
    <3> QED
      BY <3>1, <3>2 DEF TokenInv
  <2>9. AssemblyInv'
    BY <1>1, <1>2, <1>8 DEF AssemblyInv
  <2>10. EachRequestInOnePlace'
    <3>1. InSlot = {} /\ InSlot' = {accepted + 1}
      BY <2>1, <2>2, <2>4 DEF InSlot
    <3>2. 1..accepted' = 1..accepted \cup {accepted + 1} /\ accepted + 1 \notin 1..accepted
      BY <1>0, <2>1
    <3> QED
      BY <1>2, <1>3, <1>4, <1>6, <3>1, <3>2 DEF IInv, EachRequestInOnePlace
  <2>11. CancelHitsOnlyItsOwn'
    BY <1>2, <2>1 DEF IInv, CancelHitsOnlyItsOwn
  <2> QED
    BY <1>5, <2>5, <2>6, <2>8, <2>9, <2>10, <2>11 DEF IInv
<1> QED
  BY <1>7, <1>8

(* The worker's steps that move no report.                                 *)
LEMMA WorkerControlStep ==
  ASSUME IInv,
         UNCHANGED <<dev, slot, outbox, stopFlag, hidVars, quitter, ghosts>>,
         worker' \in {"ready", "blocked", "handle", "confirm", "allowed", "publish", "exited"},
         job' \in Job \cup {None}, status' \in {"ok", "err", "cancelled", None},
         token' \in [cancelled : BOOLEAN, up : BOOLEAN],
         token'.cancelled => token.cancelled,
         WorkerInv',
         (worker' = "publish" /\ status' = "cancelled") => stopFlag \/ job'.txn \in asked
  PROVE  IInv'
<1> USE DEF hidVars, ghosts
<1>1. TypeOK'
  BY DEF IInv, TypeOK
<1>2. EachRequestInOnePlace' /\ KeepaliveInv' /\ OutboxInv'
  BY Carries0
<1>3. TokenInv'
  BY DEF IInv, TokenInv
<1>4. StopInv' /\ WriteInv' /\ AssemblyInv' /\ CancelHitsOnlyItsOwn'
  BY DEF IInv, StopInv, WriteInv, AssemblyInv, CancelHitsOnlyItsOwn
<1> QED
  BY <1>1, <1>2, <1>3, <1>4 DEF IInv

LEMMA WorkerWaitStep == IInv /\ (WorkerWait \/ WorkerSpurious) => IInv'
<1> SUFFICES ASSUME IInv, WorkerWait \/ WorkerSpurious PROVE IInv'
  OBVIOUS
<1>0. TypeOK /\ WorkerInv /\ StopInv
  BY DEF IInv
<1>1. CASE WorkerWait
  <2> USE <1>1 DEF WorkerWait, hidVars
  <2>1. WorkerInv'
    BY <1>0 DEF WorkerInv, StopInv, Working
  <2>2. job' \in Job \cup {None}
    BY <1>0 DEF TypeOK
  <2>3. worker' \in {"exited", "handle", "blocked"}
    OBVIOUS
  <2>4. UNCHANGED <<dev, slot, token, outbox, stopFlag, hidVars, quitter, ghosts, status>>
    OBVIOUS
  <2> QED
    BY <1>0, <2>1, <2>2, <2>3, <2>4, WorkerControlStep DEF TypeOK
<1>2. CASE WorkerSpurious
  <2> USE <1>2 DEF WorkerSpurious, hidVars
  <2>1. WorkerInv'
    BY <1>0 DEF WorkerInv, Working
  <2> QED
    BY <1>0, <2>1, WorkerControlStep DEF TypeOK
<1> QED
  BY <1>1, <1>2

LEMMA WorkerHandleStep ==
  IInv /\ (WorkerHandled \/ WorkerConfirm \/ WorkerAllow \/ WorkerDeny \/ WorkerExpire
             \/ WorkerCancelled) => IInv'
<1> SUFFICES ASSUME IInv, WorkerHandled \/ WorkerConfirm \/ WorkerAllow \/ WorkerDeny
                            \/ WorkerExpire \/ WorkerCancelled
             PROVE  IInv'
  OBVIOUS
<1>0. TypeOK /\ WorkerInv /\ TokenInv
  BY DEF IInv
<1>1. CASE WorkerHandled
  <2> USE <1>1 DEF WorkerHandled, hidVars
  <2>1. WorkerInv'
    BY <1>0 DEF WorkerInv, Working
  <2>2. worker' = "publish" /\ status' \in {"ok", "err"}
    OBVIOUS
  <2> QED
    BY <1>0, <2>1, <2>2, WorkerControlStep DEF TypeOK
<1>2. CASE WorkerConfirm
  <2> USE <1>2 DEF WorkerConfirm, hidVars
  <2>1. WorkerInv'
    BY <1>0 DEF WorkerInv, Working
  <2>2. /\ token' \in [cancelled : BOOLEAN, up : BOOLEAN]
        /\ token'.cancelled => token.cancelled
    BY <1>0 DEF TypeOK
  <2>3. (worker' = "publish" /\ status' = "cancelled") => stopFlag \/ job'.txn \in asked
    BY <1>0 DEF TokenInv, WorkerInv, Working
  <2>4. worker' \in {"publish", "confirm"} /\ status' \in {"cancelled", status}
    OBVIOUS
  <2>5. UNCHANGED <<dev, slot, outbox, stopFlag, hidVars, quitter, ghosts, job>>
    OBVIOUS
  <2> QED
    BY <1>0, <2>1, <2>2, <2>3, <2>4, <2>5, WorkerControlStep DEF TypeOK
<1>3. CASE WorkerAllow \/ WorkerDeny \/ WorkerExpire \/ WorkerCancelled
  <2> USE <1>3 DEF WorkerAllow, WorkerDeny, WorkerExpire, WorkerCancelled, ConfirmReturns, hidVars
  <2>1. WorkerInv'
    BY <1>0 DEF WorkerInv, Working
  <2>2. /\ token' \in [cancelled : BOOLEAN, up : BOOLEAN]
        /\ token'.cancelled => token.cancelled
    BY <1>0 DEF TypeOK
  <2>3. (worker' = "publish" /\ status' = "cancelled") => stopFlag \/ job'.txn \in asked
    BY <1>0 DEF TokenInv, WorkerInv, Working
  <2>4. worker' \in {"publish", "allowed"} /\ status' \in {"cancelled", "err", status}
    OBVIOUS
  <2>5. UNCHANGED <<dev, slot, outbox, stopFlag, hidVars, quitter, ghosts, job>>
    OBVIOUS
  <2> QED
    BY <1>0, <2>1, <2>2, <2>3, <2>4, <2>5, WorkerControlStep DEF TypeOK
<1> QED
  BY <1>1, <1>2, <1>3

(* The response leaves the slot for the end of the outbox.                 *)
LEMMA WorkerPublishStep == IInv /\ WorkerPublish => IInv'
<1> SUFFICES ASSUME IInv, WorkerPublish PROVE IInv'
  OBVIOUS
<1> USE DEF WorkerPublish, hidVars, ghosts
<1> DEFINE r == Response(job, status)
<1>0. TypeOK /\ WorkerInv /\ TokenInv /\ OutboxInv /\ EachRequestInOnePlace
      /\ KeepaliveInv /\ CancelHitsOnlyItsOwn
  BY DEF IInv
<1>1. slot # None /\ job = slot /\ slot \in Job /\ status \in {"ok", "err", "cancelled"}
  BY <1>0 DEF WorkerInv, Working, TypeOK
<1>2. /\ r \in WireReport /\ r.kind = "response" /\ r.txn = slot.txn /\ r.status = status
      /\ slot.txn \in Txn /\ InSlot = {slot.txn}
  BY <1>1 DEF Response, WireReport, Job, InSlot
<1> HIDE DEF r
<1>3. outbox \in Seq(WireReport) /\ outbox' = Append(outbox, r)
  BY <1>0 DEF TypeOK, r
<1>4. outbox' \in Seq(WireReport) /\ TxnsOf(outbox') = TxnsOf(outbox) \cup {slot.txn}
  BY <1>2, <1>3, TxnsOfAppend, AppendProperties
<1>5. /\ DOMAIN outbox' = 1..(Len(outbox) + 1) /\ DOMAIN outbox = 1..Len(outbox)
      /\ Len(outbox) \in Nat
      /\ outbox'[Len(outbox) + 1] = r
      /\ \A i \in 1..Len(outbox) : outbox'[i] = outbox[i]
      /\ \A i \in DOMAIN outbox' : i \in 1..Len(outbox) \/ i = Len(outbox) + 1
  BY <1>3, AppendProperties, LenProperties
<1>6. TypeOK'
  BY <1>0, <1>4 DEF TypeOK, TokenReset
<1>7. WorkerInv' /\ StopInv' /\ TokenInv' /\ WriteInv' /\ AssemblyInv'
  BY <1>0 DEF IInv, WorkerInv, StopInv, TokenInv, WriteInv, AssemblyInv, Working, TokenReset
<1>8. OutboxInv'
  BY <1>0, <1>2, <1>5 DEF OutboxInv
<1>9. InSlot' = {} /\ TxnsOf(toWrite') = TxnsOf(toWrite)
  BY DEF InSlot, TxnsOf
<1>10. KeepaliveInv'
  BY <1>0, <1>2, <1>4, <1>9 DEF KeepaliveInv
<1>11. CancelHitsOnlyItsOwn'
  <2>1. status = "cancelled" => slot.txn \in asked \/ stopFlag
    BY <1>0, <1>1 DEF TokenInv
  <2> QED
    BY <1>0, <1>2, <1>5, <2>1 DEF CancelHitsOnlyItsOwn
<1>12. EachRequestInOnePlace'
  <2>1. \A i \in DOMAIN outbox : outbox[i].txn \in TxnsOf(outbox)
    <3> SUFFICES ASSUME NEW i \in DOMAIN outbox PROVE outbox[i].txn \in TxnsOf(outbox)
      OBVIOUS
    <3>1. outbox[i] \in WireReport /\ outbox[i].kind = "response"
      BY <1>0, <1>3, <1>5, ElementOfSeq DEF OutboxInv
    <3>2. outbox[i].txn \in Txn
      BY <3>1 DEF WireReport
    <3> QED
      BY <3>1, <3>2 DEF TxnsOf
  <2>2. slot.txn \notin TxnsOf(outbox) \cup TxnsOf(toWrite) \cup answered \cup lost
    BY <1>0, <1>2 DEF EachRequestInOnePlace
  <2>3. \A i, j \in DOMAIN outbox' : outbox'[i].txn = outbox'[j].txn => i = j
    BY <1>0, <1>2, <1>5, <2>1, <2>2 DEF EachRequestInOnePlace
  <2> QED
    BY <1>0, <1>2, <1>4, <1>9, <2>2, <2>3 DEF EachRequestInOnePlace
<1> QED
  BY <1>6, <1>7, <1>8, <1>10, <1>11, <1>12 DEF IInv

(* A stop is requested from a signal handler or by another thread.         *)
LEMMA StopRequestStep == IInv /\ (RequestStop \/ QuitStore) => IInv'
<1> SUFFICES ASSUME IInv, RequestStop \/ QuitStore PROVE IInv'
  OBVIOUS
<1> USE DEF RequestStop, QuitStore, hidVars, workerVars, ghosts
<1>1. TypeOK'
  <2>1. stopFlag' = TRUE /\ quitter' \in {quitter, "stored"}
    OBVIOUS
  <2> QED
    BY <2>1 DEF IInv, TypeOK
<1>2. EachRequestInOnePlace' /\ KeepaliveInv' /\ OutboxInv'
  BY Carries0
<1>3. WorkerInv' /\ StopInv' /\ TokenInv' /\ WriteInv' /\ AssemblyInv' /\ CancelHitsOnlyItsOwn'
  BY DEF IInv, WorkerInv, StopInv, TokenInv, WriteInv, AssemblyInv, CancelHitsOnlyItsOwn, Working
<1> QED
  BY <1>1, <1>2, <1>3 DEF IInv

LEMMA StutterStep == IInv /\ UNCHANGED vars => IInv'
<1> SUFFICES ASSUME IInv, UNCHANGED vars PROVE IInv'
  OBVIOUS
<1> USE DEF vars, hidVars, workerVars, ghosts
<1>1. TypeOK'
  BY DEF IInv, TypeOK
<1>2. EachRequestInOnePlace' /\ KeepaliveInv' /\ OutboxInv'
  BY Carries0
<1>3. WorkerInv' /\ StopInv' /\ TokenInv' /\ WriteInv' /\ AssemblyInv' /\ CancelHitsOnlyItsOwn'
  BY DEF IInv, WorkerInv, StopInv, TokenInv, WriteInv, AssemblyInv, CancelHitsOnlyItsOwn, Working
<1> QED
  BY <1>1, <1>2, <1>3 DEF IInv

-----------------------------------------------------------------------------
(* The inductive invariant holds in every reachable state of the two       *)
(* threads of loop.cpp, for every number of hosts and transactions.        *)
THEOREM LoopInvariant == Spec => []IInv
<1>1. IInv /\ [Next]_vars => IInv'
  <2> SUFFICES ASSUME IInv, [Next]_vars PROVE IInv'
    OBVIOUS
  <2>1. CASE Hid
    <3>1. CASE \E p \in Packet : \E fresh \in FreshCids(dev, p) : HidIngest(p, fresh)
      BY <3>1, HidIngestStep
    <3> QED
      BY <2>1, <3>1, HidDrainStep, HidWriteStep, HidPollTimeoutStep, HidControlStep, CancelStep
         DEF Hid
  <2>2. CASE HidFails
    BY <2>2, HidWriteFailsStep, HidControlStep DEF HidFails
  <2>3. CASE Worker \/ WorkerSpurious \/ User
    BY <2>3, WorkerWaitStep, WorkerHandleStep, WorkerPublishStep DEF Worker, User
  <2>4. CASE RequestStop \/ QuitStore \/ QuitCancel
    BY <2>4, StopRequestStep, CancelStep
  <2>5. CASE Terminated \/ UNCHANGED vars
    BY <2>5, StutterStep DEF Terminated
  <2> QED
    BY <2>1, <2>2, <2>3, <2>4, <2>5 DEF Next
<1> QED
  BY <1>1, InitIInv, PTL DEF Spec

(* The state run() and worker_main() share always has its type.            *)
THEOREM LoopTypeOK == Spec => []TypeOK
<1>1. IInv => TypeOK
  BY DEF IInv
<1> QED
  BY <1>1, LoopInvariant, PTL

(* No response is lost, duplicated or sent for a request still in the slot *)
(* (loop.cpp:102-111 and 127-149).                                         *)
THEOREM LoopOnePlace == Spec => []EachRequestInOnePlace
<1>1. IInv => EachRequestInOnePlace
  BY DEF IInv
<1> QED
  BY <1>1, LoopInvariant, PTL

(* loop.cpp:102: no keepalive of a transaction follows its response.       *)
THEOREM LoopKeepalive == Spec => []KeepaliveNeverAfterResponse
<1>1. IInv => KeepaliveNeverAfterResponse
  BY DEF IInv, KeepaliveInv, EachRequestInOnePlace, KeepaliveNeverAfterResponse
<1> QED
  BY <1>1, LoopInvariant, PTL

(* A CANCEL never reaches another transaction through the shared token.    *)
THEOREM LoopCancel == Spec => []CancelHitsOnlyItsOwn
<1>1. IInv => CancelHitsOnlyItsOwn
  BY DEF IInv
<1> QED
  BY <1>1, LoopInvariant, PTL

(* worker_cv_ loses no wakeup: the worker is never blocked while a request *)
(* is in the slot or while run() waits to join it.                         *)
THEOREM LoopNoLostWakeup == Spec => []NoLostWakeup
<1>1. IInv => NoLostWakeup
  BY DEF IInv, WorkerInv, NoLostWakeup
<1> QED
  BY <1>1, LoopInvariant, PTL

-----------------------------------------------------------------------------
(* The loop implements Broker.                                             *)

(* What the refinement needs beyond IInv: from the oldest request to the   *)
(* latest, they are written, dropped, being written, in the outbox and in  *)
(* the slot; and nothing is dropped while the loop runs.                   *)
Serving == {"top", "write", "read", "reply"}
Ascending(s) ==
  \A i, j \in DOMAIN s :
    (i < j /\ s[i].kind = "response" /\ s[j].kind = "response") => s[i].txn < s[j].txn
Before(S, T) == \A x \in S, y \in T : x < y
OrderInv ==
  /\ slot # None => slot.txn = accepted
  /\ Ascending(outbox) /\ Ascending(toWrite)
  /\ Before(answered, lost) /\ Before(answered, TxnsOf(toWrite))
  /\ Before(answered \cup lost \cup TxnsOf(toWrite), TxnsOf(outbox))
  /\ lost # {} => hid \notin Serving

LEMMA OrderCarries ==
  ASSUME OrderInv, UNCHANGED <<slot, accepted, outbox, toWrite, answered, lost>>,
         hid \notin Serving => hid' \notin Serving
  PROVE  OrderInv'
  BY DEF OrderInv, Ascending, Before, TxnsOf

LEMMA AscendingEmpty == Ascending(<<>>)
  BY DEF Ascending

(* A prefix of an ascending batch holds its oldest responses.              *)
LEMMA AscendingPrefix ==
  ASSUME NEW s \in Seq(WireReport), Ascending(s), NEW n \in 0..Len(s)
  PROVE  Before(TxnsOf(SubSeq(s, 1, n)), TxnsOf(s) \ TxnsOf(SubSeq(s, 1, n)))
<1> DEFINE pre == SubSeq(s, 1, n)
<1>1. /\ DOMAIN pre = 1..n /\ DOMAIN s = 1..Len(s) /\ Len(s) \in Nat
      /\ \A i \in 1..n : pre[i] = s[i]
  BY SubSeqProperties, LenProperties
<1> HIDE DEF pre
<1> SUFFICES ASSUME NEW x \in TxnsOf(pre), NEW y \in TxnsOf(s), y \notin TxnsOf(pre)
             PROVE  x < y
  BY DEF Before, pre
<1>2. PICK i \in 1..n : s[i].kind = "response" /\ s[i].txn = x
  BY <1>1 DEF TxnsOf
<1>3. PICK j \in 1..Len(s) : s[j].kind = "response" /\ s[j].txn = y
  BY <1>1 DEF TxnsOf
<1>4. j \notin 1..n
  <2>1. SUFFICES ASSUME j \in 1..n PROVE FALSE
    OBVIOUS
  <2>2. pre[j].kind = "response" /\ pre[j].txn = y
    BY <1>1, <1>3, <2>1
  <2> QED
    BY <1>1, <2>1, <2>2 DEF TxnsOf
<1>5. i \in 1..Len(s) /\ i < j
  BY <1>1, <1>4
<1> QED
  BY <1>1, <1>2, <1>3, <1>5 DEF Ascending

LEMMA DrainOrder ==
  ASSUME IInv, OrderInv, HidDrain
  PROVE  OrderInv'
<1>1. PICK due \in BOOLEAN :
        /\ due => slot # None
        /\ toWrite' = outbox \o (IF due THEN <<Keepalive(slot, token)>> ELSE <<>>)
  BY DEF HidDrain
<1> DEFINE ka == IF due THEN <<Keepalive(slot, token)>> ELSE <<>>
<1>2. due => Keepalive(slot, token) \in WireReport
  BY <1>1 DEF Keepalive, WireReport, IInv, TypeOK, Job
<1>3. /\ ka \in Seq(WireReport) /\ Len(ka) \in Nat
      /\ \A i \in 1..Len(ka) : ka[i].kind = "keepalive"
  BY <1>2, EmptySeq DEF Keepalive
<1>4. outbox \in Seq(WireReport) /\ Len(outbox) \in Nat /\ DOMAIN outbox = 1..Len(outbox)
  BY LenProperties DEF IInv, TypeOK
<1>5. toWrite' = outbox \o ka
  BY <1>1
<1>6. TxnsOf(ka) = {}
  BY DEF TxnsOf, Keepalive
<1> HIDE DEF ka
<1>7. TxnsOf(toWrite') = TxnsOf(outbox)
  <2>1. TxnsOf(outbox \o ka) = TxnsOf(outbox) \cup TxnsOf(ka)
    BY <1>3, <1>4, TxnsOfConcat
  <2> QED
    BY <1>5, <1>6, <2>1
<1>8. /\ DOMAIN toWrite' = 1..(Len(outbox) + Len(ka))
      /\ \A i \in 1..Len(outbox) : toWrite'[i] = outbox[i]
      /\ \A i \in 1..Len(ka) : toWrite'[Len(outbox) + i] = ka[i]
  BY <1>3, <1>4, <1>5, ConcatProperties
<1>9. \A i \in DOMAIN toWrite' : toWrite'[i].kind = "response" => i \in 1..Len(outbox)
  <2> SUFFICES ASSUME NEW i \in 1..(Len(outbox) + Len(ka)), i \notin 1..Len(outbox)
               PROVE  toWrite'[i].kind = "keepalive"
    BY <1>8
  <2>1. i - Len(outbox) \in 1..Len(ka) /\ Len(outbox) + (i - Len(outbox)) = i
    BY <1>3, <1>4
  <2> QED
    BY <1>3, <1>8, <2>1
<1>10. Ascending(toWrite')
  BY <1>4, <1>8, <1>9 DEF Ascending, OrderInv
<1>11. Ascending(outbox') /\ TxnsOf(outbox') = {}
  BY AscendingEmpty, TxnsOfEmpty DEF HidDrain
<1>12. answered' = answered /\ lost' = lost /\ lost = {} /\ slot' = slot /\ accepted' = accepted
  BY DEF HidDrain, ghosts, OrderInv, Serving
<1>13. Before(answered, TxnsOf(outbox))
  BY DEF OrderInv, Before
<1> QED
  BY <1>7, <1>10, <1>11, <1>12, <1>13 DEF OrderInv, Before

LEMMA WriteOrder ==
  ASSUME IInv, OrderInv, HidWrite
  PROVE  OrderInv'
<1>1. /\ answered' = answered \cup TxnsOf(toWrite) /\ toWrite' = <<>>
      /\ UNCHANGED <<slot, accepted, outbox, lost>> /\ lost = {}
  BY DEF HidWrite, OrderInv, Serving
<1>2. TxnsOf(outbox') = TxnsOf(outbox) /\ Ascending(outbox') /\ TxnsOf(toWrite') = {}
  BY <1>1, TxnsOfEmpty DEF TxnsOf, OrderInv
<1>3. Ascending(toWrite')
  BY <1>1, AscendingEmpty
<1> QED
  BY <1>1, <1>2, <1>3 DEF OrderInv, Before

LEMMA WriteFailsOrder ==
  ASSUME IInv, OrderInv, HidWriteFails
  PROVE  OrderInv'
<1>1. PICK n \in 0..(Len(toWrite) - 1) :
        /\ answered' = answered \cup TxnsOf(SubSeq(toWrite, 1, n))
        /\ lost' = lost \cup (TxnsOf(toWrite) \ TxnsOf(SubSeq(toWrite, 1, n)))
  BY DEF HidWriteFails
<1>2. toWrite \in Seq(WireReport) /\ n \in 0..Len(toWrite)
  BY LenProperties DEF IInv, TypeOK
<1>3. TxnsOf(SubSeq(toWrite, 1, n)) \subseteq TxnsOf(toWrite)
  BY <1>2, TxnsOfPrefix
<1>4. Before(TxnsOf(SubSeq(toWrite, 1, n)), TxnsOf(toWrite) \ TxnsOf(SubSeq(toWrite, 1, n)))
  BY <1>2, AscendingPrefix DEF OrderInv
<1>5. /\ toWrite' = <<>> /\ UNCHANGED <<slot, accepted, outbox>> /\ lost = {}
      /\ hid' \notin Serving
  BY DEF HidWriteFails, OrderInv, Serving
<1>6. TxnsOf(outbox') = TxnsOf(outbox) /\ Ascending(outbox') /\ TxnsOf(toWrite') = {}
  BY <1>5, TxnsOfEmpty DEF TxnsOf, OrderInv
<1>7. Ascending(toWrite')
  BY <1>5, AscendingEmpty
<1> QED
  BY <1>1, <1>3, <1>4, <1>5, <1>6, <1>7 DEF OrderInv, Before

(* What ingesting a report does to the requests.                           *)
LEMMA IngestRequests ==
  ASSUME IInv, NEW p \in Packet, NEW fresh \in FreshCids(dev, p), HidIngest(p, fresh)
  PROVE  /\ toWrite' \in Seq(HidReport) /\ hid = "read" /\ hid' = "reply"
         /\ UNCHANGED <<outbox, answered, lost>>
         /\ \/ UNCHANGED <<slot, accepted>>
            \/ /\ slot = None /\ slot' # None /\ slot'.txn = accepted + 1
               /\ accepted' = accepted + 1
<1> DEFINE busy == IF slot = None THEN None ELSE slot.cid
           ing == DeviceIngest(dev, p, busy, fresh)
           new == [cid |-> ing.toWorker.cid, cmd |-> ing.toWorker.cmd, txn |-> accepted + 1]
<1>1. /\ dev \in Device /\ slot \in Job \cup {None} /\ accepted \in 0..MaxTxn
      /\ dev.assembly \in Assembly \cup {None}
  BY DEF IInv, TypeOK, Device
<1>2. /\ ing.reply \in Seq(HidReport)
      /\ ing.toWorker # None => busy = None
  BY <1>1, DeviceIngestOK
<1> HIDE DEF ing
<1>3. /\ toWrite' = ing.reply /\ hid = "read" /\ hid' = "reply"
      /\ UNCHANGED <<outbox, answered, lost>>
      /\ IF ing.toWorker # None THEN slot' = new /\ accepted' = accepted + 1
                                ELSE UNCHANGED <<slot, accepted>>
  BY DEF HidIngest, ing
<1>4. CASE ing.toWorker # None
  <2>1. slot = None
    BY <1>1, <1>2, <1>4, LoopAssumption DEF Job, HostCids
  <2>2. slot' \in Job \cup {None} /\ accepted' \in 0..MaxTxn
    BY HidIngestStep DEF IInv, TypeOK
  <2>3. accepted + 1 \in 1..accepted' /\ accepted + 1 \notin 1..accepted
    BY <1>1, <1>3, <1>4
  <2>4. slot' # None
    <3>1. SUFFICES ASSUME slot' = None PROVE FALSE
      OBVIOUS
    <3>2. InSlot' = {} /\ TxnsOf(outbox') = TxnsOf(outbox) /\ TxnsOf(toWrite') = {}
      BY <1>2, <1>3, <3>1, RepliesOK DEF InSlot, TxnsOf
    <3>3. accepted + 1 \in TxnsOf(outbox) \cup answered \cup lost
      BY <2>3, <3>2, <1>3, HidIngestStep DEF IInv, EachRequestInOnePlace
    <3> QED
      BY <2>3, <3>3 DEF IInv, EachRequestInOnePlace
  <2> QED
    BY <1>2, <1>3, <1>4, <2>1, <2>4
<1> QED
  BY <1>2, <1>3, <1>4

LEMMA IngestOrder ==
  ASSUME IInv, OrderInv,
         NEW p \in Packet, NEW fresh \in FreshCids(dev, p), HidIngest(p, fresh)
  PROVE  OrderInv'
<1>1. /\ toWrite' \in Seq(HidReport) /\ hid = "read" /\ hid' = "reply"
      /\ UNCHANGED <<outbox, answered, lost>>
      /\ slot' # None /\ slot # slot' => slot'.txn = accepted'
      /\ slot' = slot => accepted' = accepted
  BY IngestRequests
<1>2. TxnsOf(toWrite') = {} /\ \A i \in DOMAIN toWrite' : toWrite'[i].kind # "response"
  <2>1. \A i \in DOMAIN toWrite' : toWrite'[i] \in HidReport
    BY <1>1, ElementOfSeq, LenProperties
  <2> QED
    BY <1>1, <2>1, RepliesOK DEF HidReport
<1>3. Ascending(toWrite') /\ Ascending(outbox')
  BY <1>1, <1>2 DEF Ascending, OrderInv
<1>4. TxnsOf(outbox') = TxnsOf(outbox)
  BY <1>1 DEF TxnsOf
<1>5. lost = {}
  BY <1>1 DEF OrderInv, Serving
<1> QED
  BY <1>1, <1>2, <1>3, <1>4, <1>5 DEF OrderInv, Before

LEMMA PublishOrder ==
  ASSUME IInv, OrderInv, WorkerPublish
  PROVE  OrderInv'
<1> DEFINE r == Response(job, status)
<1>1. slot # None /\ job = slot /\ slot \in Job /\ status \in {"ok", "err", "cancelled"}
  BY DEF IInv, WorkerInv, Working, TypeOK, WorkerPublish
<1>2. /\ r \in WireReport /\ r.kind = "response" /\ r.txn = slot.txn
      /\ slot.txn \in Txn /\ InSlot = {slot.txn}
  BY <1>1 DEF Response, WireReport, Job, InSlot
<1>3. slot.txn = accepted /\ accepted \in Nat
  BY <1>1, LoopAssumption DEF OrderInv, IInv, TypeOK
<1> HIDE DEF r
<1>4. outbox \in Seq(WireReport) /\ outbox' = Append(outbox, r)
  BY DEF IInv, TypeOK, r, WorkerPublish
<1>5. TxnsOf(outbox') = TxnsOf(outbox) \cup {slot.txn}
  BY <1>2, <1>4, TxnsOfAppend
<1>6. /\ DOMAIN outbox' = 1..(Len(outbox) + 1) /\ DOMAIN outbox = 1..Len(outbox)
      /\ Len(outbox) \in Nat
      /\ outbox'[Len(outbox) + 1] = r
      /\ \A i \in 1..Len(outbox) : outbox'[i] = outbox[i]
      /\ \A i \in DOMAIN outbox' : i \in 1..Len(outbox) \/ i = Len(outbox) + 1
  BY <1>4, AppendProperties, LenProperties
<1>7. \A t \in TxnsOf(outbox) \cup TxnsOf(toWrite) \cup answered \cup lost : t < accepted
  <2>1. \A t \in TxnsOf(outbox) \cup TxnsOf(toWrite) \cup answered \cup lost :
          t \in 1..accepted /\ t # accepted
    BY <1>2, <1>3 DEF IInv, EachRequestInOnePlace
  <2> QED
    BY <1>3, <2>1
<1>8. \A i \in 1..Len(outbox) : outbox[i].kind = "response" => outbox[i].txn < accepted
  <2> SUFFICES ASSUME NEW i \in 1..Len(outbox), outbox[i].kind = "response"
               PROVE  outbox[i].txn \in TxnsOf(outbox)
    BY <1>7
  <2>1. outbox[i] \in WireReport
    BY <1>4, <1>6, ElementOfSeq
  <2> QED
    BY <2>1, <1>6 DEF WireReport, TxnsOf
<1>9. Ascending(outbox')
  <2> SUFFICES ASSUME NEW i \in DOMAIN outbox', NEW j \in DOMAIN outbox', i < j,
                      outbox'[i].kind = "response", outbox'[j].kind = "response"
               PROVE  outbox'[i].txn < outbox'[j].txn
    BY DEF Ascending
  <2>1. i \in 1..Len(outbox)
    BY <1>6
  <2>2. CASE j \in 1..Len(outbox)
    BY <2>1, <2>2, <1>6 DEF OrderInv, Ascending
  <2>3. CASE j = Len(outbox) + 1
    BY <2>1, <2>3, <1>2, <1>3, <1>6, <1>8
  <2> QED
    BY <1>6, <2>2, <2>3
<1>10. /\ slot' = None
       /\ UNCHANGED <<toWrite, answered, lost, accepted, hid>>
       /\ TxnsOf(toWrite') = TxnsOf(toWrite)
  BY DEF WorkerPublish, hidVars, ghosts
<1> QED
  BY <1>3, <1>5, <1>7, <1>9, <1>10 DEF OrderInv, Before, Ascending

LEMMA OtherOrder ==
  ASSUME OrderInv,
         \/ HidPollTimeout \/ HidReadNothing \/ HidReadFails \/ HidLeave \/ HidStop \/ HidCancel
         \/ HidJoin \/ WorkerWait \/ WorkerSpurious \/ WorkerHandled \/ WorkerConfirm \/ User
         \/ WorkerExpire \/ WorkerCancelled \/ RequestStop \/ QuitStore \/ QuitCancel
         \/ UNCHANGED vars
  PROVE  /\ OrderInv' /\ UNCHANGED <<slot, accepted, answered>>
         /\ hid \notin Serving => hid' \notin Serving
<1>1. UNCHANGED <<slot, accepted, outbox, toWrite, answered, lost>>
  BY DEF HidPollTimeout, HidReadNothing, HidReadFails, HidLeave, HidStop, HidCancel, HidJoin,
     WorkerWait, WorkerSpurious, WorkerHandled, WorkerConfirm, User, WorkerAllow, WorkerDeny,
     WorkerExpire, WorkerCancelled, ConfirmReturns, RequestStop, QuitStore, QuitCancel, vars,
     hidVars, ghosts
<1>2. hid \notin Serving => hid' \notin Serving
  BY DEF HidPollTimeout, HidReadNothing, HidReadFails, HidLeave, HidStop, HidCancel, HidJoin,
     WorkerWait, WorkerSpurious, WorkerHandled, WorkerConfirm, User, WorkerAllow, WorkerDeny,
     WorkerExpire, WorkerCancelled, ConfirmReturns, RequestStop, QuitStore, QuitCancel, vars,
     hidVars, ghosts, Serving
<1> QED
  BY <1>1, <1>2, OrderCarries

(* Since every request is in one place and the places are ordered, what    *)
(* was answered is answered in order.                                      *)
LEMMA AnsweredInOrder ==
  ASSUME IInv, OrderInv
  PROVE  Hosts!InOrder(answered) /\ answered \subseteq Hosts!Handled
<1>1. accepted \in Nat /\ answered \subseteq 1..accepted
  BY LoopAssumption DEF IInv, TypeOK, EachRequestInOnePlace
<1>2. slot # None => InSlot = {accepted} /\ accepted \notin answered
  BY DEF OrderInv, InSlot, IInv, EachRequestInOnePlace
<1>3. answered \subseteq Hosts!Handled
  BY <1>1, <1>2 DEF Hosts!Handled
<1>4. ASSUME NEW t \in answered, NEW s \in 1..t PROVE s \in answered
  <2>1. s \in 1..accepted /\ s <= t /\ t <= accepted /\ s \in Nat /\ t \in Nat
    BY <1>1, <1>4
  <2>2. s \notin InSlot
    BY <1>2, <1>4, <2>1 DEF InSlot
  <2>3. s \notin TxnsOf(outbox) \cup TxnsOf(toWrite) \cup lost
    BY <1>4, <2>1 DEF OrderInv, Before
  <2> QED
    BY <2>1, <2>2, <2>3 DEF IInv, EachRequestInOnePlace
<1> QED
  BY <1>3, <1>4 DEF Hosts!InOrder

LEMMA AnsweredInOrderNext ==
  IInv' /\ OrderInv' => (Hosts!InOrder(answered) /\ answered \subseteq Hosts!Handled)'
<1>1. IInv /\ OrderInv => Hosts!InOrder(answered) /\ answered \subseteq Hosts!Handled
  BY AnsweredInOrder
<1> QED
  BY <1>1, PTL

LEMMA StepBroker ==
  ASSUME IInv, IInv', OrderInv, [Next]_vars
  PROVE  OrderInv' /\ [Hosts!Next]_(Hosts!vars)
<1> DEFINE other ==
         \/ HidPollTimeout \/ HidReadNothing \/ HidReadFails \/ HidLeave \/ HidStop \/ HidCancel
         \/ HidJoin \/ WorkerWait \/ WorkerSpurious \/ WorkerHandled \/ WorkerConfirm \/ User
         \/ WorkerExpire \/ WorkerCancelled \/ RequestStop \/ QuitStore \/ QuitCancel
         \/ UNCHANGED vars
(* The loop goes on or ends, with more answered or not.                    *)
<1>0. ASSUME OrderInv', UNCHANGED <<slot, accepted>>, answered \subseteq answered',
             hid \notin Serving => hid' \notin Serving /\ answered' = answered
      PROVE  [Hosts!Next]_(Hosts!vars)
  <2>1. Hosts!InOrder(answered') /\ answered' \subseteq Hosts!Handled
    BY <1>0, AnsweredInOrderNext DEF Hosts!Handled, Hosts!InOrder
  <2>2. CASE hid \in Serving
    <3>1. Hosts!Write
      BY <1>0, <2>1, <2>2 DEF Hosts!Write, Serving
    <3>2. hid' \in Serving => Hosts!Answer
      BY <2>2, <3>1 DEF Hosts!Answer, Serving
    <3>3. hid' \notin Serving => Hosts!Close
      BY <3>1 DEF Hosts!Close, Serving
    <3> QED
      BY <3>2, <3>3 DEF Hosts!Next
  <2>3. CASE hid \notin Serving
    BY <1>0, <2>3 DEF Hosts!vars, Serving
  <2> QED
    BY <2>2, <2>3
<1>1. CASE other
  BY <1>1, <1>0, OtherOrder
<1> HIDE DEF other
<1>2. CASE HidDrain
  BY <1>2, <1>0, DrainOrder DEF HidDrain, ghosts, Serving
<1>3. CASE HidWrite
  BY <1>3, <1>0, WriteOrder DEF HidWrite, Serving
<1>4. CASE HidWriteFails
  BY <1>4, <1>0, WriteFailsOrder DEF HidWriteFails, Serving
<1>5. CASE WorkerPublish
  <2>1. Hosts!Handle
    BY <1>5 DEF Hosts!Handle, WorkerPublish, IInv, WorkerInv, Working, hidVars, ghosts
  <2> QED
    BY <1>5, <2>1, PublishOrder DEF Hosts!Next
<1>6. ASSUME NEW p \in Packet, NEW fresh \in FreshCids(dev, p), HidIngest(p, fresh)
      PROVE  OrderInv' /\ [Hosts!Next]_(Hosts!vars)
  <2>1. OrderInv'
    BY <1>6, IngestOrder
  <2>2. CASE UNCHANGED <<slot, accepted>>
    BY <1>6, <2>1, <2>2, <1>0, IngestRequests DEF Serving
  <2>3. CASE /\ slot = None /\ slot' # None /\ slot'.txn = accepted + 1
             /\ accepted' = accepted + 1
    <3>1. Hosts!Accept
      BY <1>6, <2>3, IngestRequests DEF Hosts!Accept
    <3> QED
      BY <2>1, <3>1 DEF Hosts!Next
  <2> QED
    BY <1>6, <2>2, <2>3, IngestRequests
<1> QED
  BY <1>1, <1>2, <1>3, <1>4, <1>5, <1>6
     DEF Next, Hid, HidFails, Worker, Terminated, other

(* Requests are taken one at a time and answered in order, at most once,   *)
(* for every interleaving of the HID thread, the worker and the threads    *)
(* that stop them, and for every failure of the transport.                 *)
THEOREM LoopImplementsBroker == Spec => ImplementsBroker
<1>1. Init => OrderInv
  BY TxnsOfEmpty, AscendingEmpty DEF Init, OrderInv, Before
<1>2. Init => Hosts!Init
  BY DEF Init, Hosts!Init
<1>3. IInv /\ IInv' /\ OrderInv /\ [Next]_vars => OrderInv' /\ [Hosts!Next]_(Hosts!vars)
  BY StepBroker
<1> QED
  BY <1>1, <1>2, <1>3, LoopInvariant, PTL DEF Spec, ImplementsBroker, Hosts!Spec
=============================================================================
