---------------------------- MODULE HidBusProofs ----------------------------
(***************************************************************************)
(* Proofs about CTAPHID reassembly, for every number of hosts, every       *)
(* payload size, every message length and every largest sequence number,   *)
(* the real 57, 59, 7609 and 127 among them.                               *)
(***************************************************************************)
EXTENDS HidBus, HidFramerProofs

-----------------------------------------------------------------------------
(* The inductive invariant.  A partial message is its host's run so far    *)
(* and lacks bytes; a run that is still to be completed is the partial     *)
(* message; and a completed one was returned if it is not too long.        *)
AssemblyInv ==
  assembly # None =>
    /\ assembly.cid # ZeroCid
    /\ Len(assembly.parts) >= 1
    /\ assembly.nextSeq = Len(assembly.parts) - 1
    /\ Capacity(Len(assembly.parts)) < assembly.bcnt
    /\ Frame(assembly) = run[assembly.cid]
RunInv ==
  \A c \in Cids :
    run[c] # <<>> =>
      /\ c # ZeroCid
      /\ run[c][1] \in InitPacket
      /\ (~AllSent(run[c]) /\ run[c][1].bcnt <= RecvLimit) =>
           assembly # None /\ assembly.cid = c
IInv == TypeOK /\ AssemblyInv /\ RunInv /\ MessageIsWhatOneHostSent /\ IntactMessageDelivered

LEMMA InitIInv == Init => IInv
<1> SUFFICES ASSUME Init PROVE IInv
  OBVIOUS
<1>1. <<>> \in Seq(Packet)
  BY EmptySeq
<1>2. TypeOK
  BY <1>1 DEF Init, TypeOK, NoReturn
<1> QED
  BY <1>2 DEF Init, IInv, AssemblyInv, RunInv, MessageIsWhatOneHostSent, IntactMessageDelivered,
     AllSent, NoReturn

(* on_timeout() and cancel() take the partial message and the run with it. *)
LEMMA DropStep ==
  ASSUME IInv, assembly # None, assembly' = None, ret' = NoReturn,
         run' = [run EXCEPT ![assembly.cid] = <<>>], got' = got
  PROVE  IInv'
<1>1. TypeOK /\ assembly \in Assembly /\ assembly.cid \in Cids
  BY DEF IInv, TypeOK, Assembly
<1>2. <<>> \in Seq(Packet)
  BY EmptySeq
<1>3. TypeOK'
  BY <1>1, <1>2 DEF TypeOK, NoReturn
<1>4. \A c \in Cids : run'[c] = IF c = assembly.cid THEN <<>> ELSE run[c]
  BY <1>1 DEF TypeOK
<1>5. RunInv'
  BY <1>4 DEF IInv, RunInv, AllSent
<1>6. IntactMessageDelivered'
  BY <1>4 DEF IInv, IntactMessageDelivered, AllSent
<1> QED
  BY <1>3, <1>5, <1>6 DEF IInv, AssemblyInv, MessageIsWhatOneHostSent, NoReturn

LEMMA OnTimeoutStep == IInv /\ OnTimeout => IInv'
  BY DropStep DEF OnTimeout, TimedOut

LEMMA CancelStep == ASSUME IInv, NEW c \in Cids, Cancel(c) PROVE IInv'
<1>1. CASE assembly.cid = c
  BY <1>1, DropStep DEF Cancel, Canceled
<1>2. CASE assembly.cid # c
  <2>1. assembly' = assembly /\ ret' = NoReturn /\ run' = run /\ got' = got
    BY <1>2 DEF Cancel, Canceled
  <2> QED
    BY <2>1 DEF IInv, TypeOK, AssemblyInv, RunInv, MessageIsWhatOneHostSent, NoReturn,
       IntactMessageDelivered, AllSent
<1> QED
  BY <1>1, <1>2

(* The step of ingest() that leaves the run of p's host empty, or longer   *)
(* than the framer can receive, and returns no message.                    *)
LEMMA RefusedStep ==
  ASSUME IInv, NEW p \in Packet, Ingest(p),
         Ingested(assembly, p).kind = "error",
         \/ Ingested(assembly, p).assembly = None /\ (assembly = None \/ assembly.cid = p.cid)
         \/ /\ Ingested(assembly, p).assembly = assembly
            /\ assembly # None => assembly.cid # p.cid,
         Extended(run[p.cid], p) \in Seq(Packet),
         Extended(run[p.cid], p) # <<>> =>
           /\ p.cid # ZeroCid /\ Extended(run[p.cid], p)[1] \in InitPacket
           /\ ~(Extended(run[p.cid], p)[1].bcnt <= RecvLimit)
  PROVE  IInv'
<1> DEFINE c == p.cid
           e == Extended(run[c], p)
<1>1. TypeOK /\ AssemblyInv /\ RunInv /\ IntactMessageDelivered /\ c \in Cids
  BY DEF IInv, Packet, InitPacket, ContPacket
<1>2. assembly \in Assembly \cup {None}
  BY <1>1 DEF TypeOK
<1>3. /\ Ingested(assembly, p).err \in HidErr /\ Ingested(assembly, p).kind = "error"
      /\ Ingested(assembly, p).msg = None
  BY <1>2, IngestedOK DEF Ingested, IngestedInit, IngestedCont, Refused, Partial, Complete
<1>4. /\ assembly' = Ingested(assembly, p).assembly
      /\ ret'.kind = "error" /\ ret' = [kind |-> "error", err |-> ret'.err, msg |-> None]
      /\ ret'.err \in HidErr
      /\ run' = [run EXCEPT ![c] = e] /\ got' = [got EXCEPT ![c] = FALSE]
  BY <1>3 DEF Ingest
<1>5. \A x \in Cids : /\ run'[x] = IF x = c THEN e ELSE run[x]
                     /\ got'[x] = IF x = c THEN FALSE ELSE got[x]
  BY <1>1, <1>4 DEF TypeOK
<1> HIDE DEF e
<1>6. e \in Seq(Packet) /\ (e # <<>> => c # ZeroCid /\ e[1] \in InitPacket /\ ~(e[1].bcnt <= RecvLimit))
  BY DEF e
<1>7. assembly' \in {assembly, None}
  BY <1>4
<1>8. TypeOK'
  BY <1>1, <1>4, <1>6, <1>7 DEF TypeOK
<1>9. AssemblyInv'
  <2> SUFFICES ASSUME assembly' # None PROVE AssemblyInv'
    BY DEF AssemblyInv
  <2>1. assembly' = assembly /\ assembly.cid # c /\ assembly.cid \in Cids
    BY <1>2, <1>4 DEF Assembly
  <2> QED
    BY <1>1, <1>5, <2>1 DEF AssemblyInv
<1>10. RunInv'
  <2> SUFFICES ASSUME NEW x \in Cids, run'[x] # <<>>
               PROVE  /\ x # ZeroCid /\ run'[x][1] \in InitPacket
                      /\ (~AllSent(run'[x]) /\ run'[x][1].bcnt <= RecvLimit) =>
                           assembly' # None /\ assembly'.cid = x
    BY DEF RunInv, AllSent
  <2>1. CASE x = c
    BY <2>1, <1>5, <1>6
  <2>2. CASE x # c
    BY <2>2, <1>1, <1>4, <1>5 DEF RunInv
  <2> QED
    BY <2>1, <2>2
<1>11. IntactMessageDelivered'
  <2> SUFFICES ASSUME NEW x \in Cids, AllSent(run'[x])
               PROVE  got'[x] <=> run'[x][1].bcnt <= RecvLimit
    BY DEF IntactMessageDelivered, AllSent
  <2>1. CASE x = c
    BY <2>1, <1>5, <1>6 DEF AllSent
  <2>2. CASE x # c
    BY <2>2, <1>1, <1>5 DEF IntactMessageDelivered
  <2> QED
    BY <2>1, <2>2
<1> QED
  BY <1>4, <1>8, <1>9, <1>10, <1>11 DEF IInv, MessageIsWhatOneHostSent

(* The step of ingest() that starts or grows the message m of p's host:    *)
(* it is kept as the partial message while bytes are missing, and returned *)
(* once they are there.                                                    *)
LEMMA GrownStep ==
  ASSUME IInv, NEW p \in Packet, Ingest(p), p.cid # ZeroCid,
         assembly = None \/ assembly.cid = p.cid,
         NEW m \in Assembly, m.cid = p.cid, Len(m.parts) >= 1,
         m.nextSeq = Len(m.parts) - 1, Frame(m) = Extended(run[p.cid], p),
         m.bcnt <= MaxMessage, m.nextSeq <= MaxSeq,
         Frame(m) \in Seq(Packet), Frame(m) # <<>>, Frame(m)[1] \in InitPacket,
         Frame(m)[1].bcnt = m.bcnt, Len(Frame(m)) = Len(m.parts),
         Len(m.parts) > 1 => Capacity(Len(m.parts) - 1) < m.bcnt,
         Ingested(assembly, p) =
           IF Buffered(m.bcnt, m.parts) >= m.bcnt THEN Complete(m) ELSE Partial(m)
  PROVE  IInv'
<1> DEFINE c == p.cid
           f == Frame(m)
           full == Capacity(Len(m.parts)) >= m.bcnt
<1>1. TypeOK /\ AssemblyInv /\ RunInv /\ IntactMessageDelivered /\ c \in Cids
  BY DEF IInv, Packet, InitPacket, ContPacket
<1>2. /\ m.bcnt \in Nat /\ m.parts \in Seq(Data) /\ Len(m.parts) \in Nat
      /\ Capacity(Len(m.parts)) \in Int /\ m.cmd \in Cmds /\ m.cid \in Cids
  BY CapacityInt, LenProperties DEF Assembly
<1>3. Ingested(assembly, p) = IF full THEN Complete(m) ELSE Partial(m)
  BY <1>2 DEF Buffered
<1> DEFINE msg == [cid |-> m.cid, cmd |-> m.cmd, bcnt |-> m.bcnt, parts |-> m.parts]
<1>4. msg \in Message /\ msg.cid = c /\ msg.bcnt = m.bcnt /\ msg.parts = m.parts
      /\ Frame(msg) = f
  BY <1>2 DEF Message, Frame
<1>5. /\ assembly' = IF full THEN None ELSE m
      /\ ret' = IF full THEN [kind |-> "message", err |-> None, msg |-> msg] ELSE NoReturn
      /\ run' = [run EXCEPT ![c] = f] /\ got' = [got EXCEPT ![c] = full]
  <2> DEFINE r == Ingested(assembly, p)
  <2>1. /\ assembly' = r.assembly
        /\ ret' = [kind |-> r.kind, err |-> r.err, msg |-> r.msg]
        /\ run' = [run EXCEPT ![c] = f]
        /\ got' = [got EXCEPT ![c] = (r.kind = "message")]
    BY DEF Ingest
  <2>2. full \in BOOLEAN
    OBVIOUS
  <2> HIDE DEF full, r
  <2>3. r = IF full THEN Complete(m) ELSE Partial(m)
    BY <1>3 DEF r
  <2>4. (r.kind = "message") = full
    BY <2>2, <2>3 DEF Complete, Partial
  <2>5. got' = [got EXCEPT ![c] = full]
    BY <2>1, <2>4
  <2> QED
    BY <2>1, <2>3, <2>5 DEF Complete, Partial, NoReturn
<1>6. \A x \in Cids : /\ run'[x] = IF x = c THEN f ELSE run[x]
                     /\ got'[x] = IF x = c THEN full ELSE got[x]
  BY <1>1, <1>5 DEF TypeOK
<1>7. AllSent(f) <=> full
  BY DEF AllSent
<1> HIDE DEF f, full, msg
<1>8. f # <<>> /\ f \in Seq(Packet) /\ f[1] \in InitPacket /\ full \in BOOLEAN
  BY DEF f, full
<1>9. TypeOK'
  <2>1. ret' \in [kind : {"partial", "message", "error"}, err : HidErr \cup {None},
                  msg : Message \cup {None}]
    BY <1>4, <1>5 DEF NoReturn
  <2> QED
    BY <1>1, <1>5, <1>8, <2>1 DEF TypeOK
<1>10. AssemblyInv'
  <2> SUFFICES ASSUME ~full PROVE AssemblyInv'
    BY <1>5 DEF AssemblyInv
  <2>1. assembly' = m /\ run'[m.cid] = Frame(m) /\ Capacity(Len(m.parts)) < m.bcnt
    BY <1>2, <1>5, <1>6 DEF full, f
  <2> QED
    BY <2>1 DEF AssemblyInv
<1>11. RunInv'
  <2> SUFFICES ASSUME NEW x \in Cids, run'[x] # <<>>
               PROVE  /\ x # ZeroCid /\ run'[x][1] \in InitPacket
                      /\ (~AllSent(run'[x]) /\ run'[x][1].bcnt <= RecvLimit) =>
                           assembly' # None /\ assembly'.cid = x
    BY DEF RunInv, AllSent
  <2>1. CASE x = c
    <3>1. m # None
      BY FramerAssumption DEF Assembly
    <3> QED
      BY <2>1, <3>1, <1>5, <1>6, <1>7, <1>8
  <2>2. CASE x # c
    BY <2>2, <1>1, <1>5, <1>6 DEF RunInv
  <2> QED
    BY <2>1, <2>2
<1>12. IntactMessageDelivered'
  <2> SUFFICES ASSUME NEW x \in Cids, AllSent(run'[x])
               PROVE  got'[x] <=> run'[x][1].bcnt <= RecvLimit
    BY DEF IntactMessageDelivered, AllSent
  <2>1. CASE x = c
    <3>1. full /\ got'[x] = full /\ run'[x][1].bcnt = m.bcnt
      BY <2>1, <1>6, <1>7 DEF f
    <3>2. m.nextSeq \in Nat /\ MaxSeq \in Nat /\ ContPayload \in Nat /\ InitPayload \in Nat
      BY FramerAssumption DEF Assembly
    <3>3. Capacity(Len(m.parts)) = InitPayload + ContPayload * m.nextSeq
      BY <1>2, <3>2 DEF Capacity
    <3>4. ContPayload * m.nextSeq <= ContPayload * MaxSeq
      BY <3>2
    <3>5. m.bcnt <= RecvLimit
      <4>1. m.bcnt <= InitPayload + ContPayload * m.nextSeq
        BY <1>2, <3>1, <3>3 DEF full
      <4>2. ContPayload * m.nextSeq \in Int /\ ContPayload * MaxSeq \in Int /\ m.bcnt \in Nat
        BY <1>2, <3>2
      <4> QED
        BY <3>2, <3>4, <4>1, <4>2 DEF RecvLimit
    <3> QED
      BY <3>1, <3>5
  <2>2. CASE x # c
    BY <2>2, <1>1, <1>6 DEF IntactMessageDelivered
  <2> QED
    BY <2>1, <2>2
<1>13. MessageIsWhatOneHostSent'
  <2> SUFFICES ASSUME full PROVE MessageIsWhatOneHostSent'
    BY <1>5 DEF MessageIsWhatOneHostSent, NoReturn
  <2>1. ret'.msg = msg /\ run'[msg.cid] = f
    BY <1>1, <1>4, <1>5, <1>6
  <2>2. Carries(Len(m.parts), m.bcnt)
    BY DEF Carries, full
  <2> QED
    BY <1>4, <2>1, <2>2 DEF MessageIsWhatOneHostSent
<1> QED
  BY <1>9, <1>10, <1>11, <1>12, <1>13 DEF IInv

(* The run of a host whose message is being assembled.                     *)
LEMMA RunOfAssembly ==
  ASSUME IInv, assembly # None
  PROVE  LET s == run[assembly.cid] IN
         /\ assembly \in Assembly /\ assembly.cid \in Cids
         /\ s \in Seq(Packet) /\ s # <<>> /\ s = Frame(assembly)
         /\ Len(s) = Len(assembly.parts) /\ s[1].bcnt = assembly.bcnt /\ ~AllSent(s)
<1> DEFINE a == assembly
           s == run[a.cid]
<1>1. TypeOK /\ AssemblyInv
  BY DEF IInv
<1>2. a \in Assembly /\ a.cid \in Cids /\ a.parts \in Seq(Data) /\ Len(a.parts) \in Nat
      /\ a.bcnt \in Nat
  BY <1>1, LenProperties DEF TypeOK, Assembly
<1>3. s \in Seq(Packet) /\ s = Frame(a)
  BY <1>1, <1>2 DEF TypeOK, AssemblyInv
<1>4. Len(s) = Len(a.parts)
  <2>1. DOMAIN s = 1..Len(a.parts)
    BY <1>3 DEF Frame
  <2>2. DOMAIN s = 1..Len(s) /\ Len(s) \in Nat
    BY <1>3, LenProperties
  <2> QED
    BY <2>1, <2>2, <1>2
<1>5. Len(a.parts) >= 1 /\ Capacity(Len(a.parts)) < a.bcnt
  BY <1>1 DEF AssemblyInv
<1>6. s[1].bcnt = a.bcnt
  BY <1>2, <1>3, <1>5 DEF Frame
<1>7. s # <<>>
  BY <1>4, <1>5
<1>8. ~AllSent(s)
  BY <1>2, <1>4, <1>5, <1>6, CapacityInt DEF AllSent
<1> QED
  BY <1>2, <1>3, <1>4, <1>6, <1>7, <1>8

(* A run that goes on although nothing of it is being assembled is longer  *)
(* than the framer receives.                                               *)
LEMMA OrphanRun ==
  ASSUME IInv, NEW p \in ContPacket, assembly # None => assembly.cid # p.cid
  PROVE  LET e == Extended(run[p.cid], p) IN
         /\ e \in Seq(Packet)
         /\ e # <<>> => p.cid # ZeroCid /\ e[1] \in InitPacket /\ ~(e[1].bcnt <= RecvLimit)
<1> DEFINE s == run[p.cid]
           e == Extended(s, p)
<1>1. TypeOK /\ RunInv /\ p.cid \in Cids /\ p \in Packet /\ p.type # "init"
  BY DEF IInv, ContPacket, Packet
<1>2. s \in Seq(Packet) /\ <<>> \in Seq(Packet)
  BY <1>1, EmptySeq DEF TypeOK
<1>3. CASE e = <<>>
  BY <1>2, <1>3
<1>4. CASE e # <<>>
  <2>1. s # <<>> /\ ~AllSent(s) /\ e = Append(s, p)
    BY <1>1, <1>4 DEF Extended
  <2>2. p.cid # ZeroCid /\ s[1] \in InitPacket /\ ~(s[1].bcnt <= RecvLimit)
    BY <1>1, <2>1 DEF RunInv
  <2>3. e \in Seq(Packet) /\ e[1] = s[1]
    <3>1. Len(s) \in Nat \ {0}
      BY <1>2, <2>1, EmptySeq
    <3>2. 1 \in 1..Len(s)
      BY <3>1
    <3> QED
      BY <1>1, <1>2, <2>1, <3>2, AppendProperties
  <2> QED
    BY <2>2, <2>3
<1> QED
  BY <1>3, <1>4

LEMMA IngestInitStep ==
  ASSUME IInv, NEW p \in InitPacket, Ingest(p)
  PROVE  IInv'
<1>1. /\ p \in Packet /\ p.type = "init" /\ p.cid \in Cids /\ p.bcnt \in Nat /\ p.data \in Data
      /\ p.cmd \in Cmds /\ <<>> \in Seq(Packet) /\ MaxMessage \in Nat
  BY FramerAssumption, EmptySeq DEF InitPacket, Packet
<1>2. CASE OfOther(assembly, p) \/ p.cid = ZeroCid \/ p.bcnt > MaxMessage
  <2>1. Extended(run[p.cid], p) = <<>>
    BY <1>1, <1>2 DEF Extended
  <2>2. assembly # None => assembly.cid # ZeroCid
    BY DEF IInv, AssemblyInv
  <2>3. /\ Ingested(assembly, p).kind = "error"
        /\ \/ /\ Ingested(assembly, p).assembly = None
              /\ assembly = None \/ assembly.cid = p.cid
           \/ /\ Ingested(assembly, p).assembly = assembly
              /\ assembly # None => assembly.cid # p.cid
    BY <1>1, <1>2, <2>2 DEF Ingested, IngestedInit, OfOther, Refused
  <2> QED
    BY <1>1, <2>1, <2>3, RefusedStep
<1>3. CASE ~(OfOther(assembly, p) \/ p.cid = ZeroCid \/ p.bcnt > MaxMessage)
  <2> DEFINE m == [cid |-> p.cid, cmd |-> p.cmd, bcnt |-> p.bcnt, nextSeq |-> 0,
                   parts |-> <<p.data>>]
  <2>1. <<p.data>> \in Seq(Data) /\ Len(<<p.data>>) = 1 /\ <<p.data>>[1] = p.data
    BY <1>1
  <2>2. m \in Assembly
    BY <1>1, <2>1 DEF Assembly
  <2>3. Extended(run[p.cid], p) = <<p>>
    BY <1>1, <1>3 DEF Extended
  <2>4. <<p>> \in Seq(Packet) /\ <<p>>[1] = p /\ Len(<<p>>) = 1 /\ <<p>> # <<>>
    BY <1>1
  <2>5. Frame(m) = <<p>>
    <3>1. p = [type |-> "init", cid |-> p.cid, cmd |-> p.cmd, bcnt |-> p.bcnt, data |-> p.data]
      BY DEF InitPacket
    <3>2. DOMAIN Frame(m) = {1} /\ Frame(m)[1] = p
      BY <2>1, <3>1 DEF Frame
    <3>3. Frame(m) = [i \in 1..1 |-> Frame(m)[i]]
      BY <2>1 DEF Frame
    <3> QED
      BY <3>2, <3>3
  <2>6. Ingested(assembly, p) =
          IF Buffered(m.bcnt, m.parts) >= m.bcnt THEN Complete(m) ELSE Partial(m)
    BY <1>1, <1>3 DEF Ingested, IngestedInit
  <2>7. /\ m.cid = p.cid /\ m.bcnt = p.bcnt /\ m.nextSeq = 0 /\ Len(m.parts) = 1
        /\ assembly = None \/ assembly.cid = p.cid
        /\ m.bcnt <= MaxMessage /\ m.nextSeq <= MaxSeq
    BY <1>1, <1>3, <2>1, FramerAssumption DEF OfOther
  <2> HIDE DEF m
  <2>8. /\ Frame(m) = Extended(run[p.cid], p) /\ Frame(m) \in Seq(Packet) /\ Frame(m) # <<>>
        /\ Frame(m)[1] \in InitPacket /\ Frame(m)[1].bcnt = m.bcnt
        /\ Len(Frame(m)) = Len(m.parts)
    BY <2>3, <2>4, <2>5, <2>7
  <2>9. /\ Len(m.parts) >= 1 /\ m.nextSeq = Len(m.parts) - 1
        /\ Len(m.parts) > 1 => Capacity(Len(m.parts) - 1) < m.bcnt
    BY <2>7
  <2> QED
    BY <1>1, <1>3, <2>2, <2>6, <2>7, <2>8, <2>9, GrownStep
<1> QED
  BY <1>2, <1>3

LEMMA IngestContStep ==
  ASSUME IInv, NEW p \in ContPacket, Ingest(p)
  PROVE  IInv'
<1>1. /\ p \in Packet /\ p.type # "init" /\ p.cid \in Cids /\ p.data \in Data /\ p.seq \in Nat
      /\ <<>> \in Seq(Packet)
  BY FramerAssumption, EmptySeq DEF ContPacket, Packet
<1>2. assembly # None => assembly.cid # ZeroCid
  BY DEF IInv, AssemblyInv
<1>3. CASE assembly = None \/ assembly.cid # p.cid
  <2>1. Ingested(assembly, p).kind = "error" /\ Ingested(assembly, p).assembly = assembly
    BY <1>1, <1>3 DEF Ingested, IngestedCont, OfOther, Refused
  <2> QED
    BY <1>1, <1>3, <2>1, OrphanRun, RefusedStep
<1>4. CASE assembly # None /\ assembly.cid = p.cid
  <2> DEFINE a == assembly
             s == run[p.cid]
             grown == [a EXCEPT !.parts = Append(@, p.data), !.nextSeq = @ + 1]
  <2>1. /\ a \in Assembly /\ s \in Seq(Packet) /\ s # <<>> /\ s = Frame(a)
        /\ Len(s) = Len(a.parts) /\ s[1].bcnt = a.bcnt /\ ~AllSent(s)
    BY <1>4, RunOfAssembly
  <2>2. /\ a.nextSeq = Len(a.parts) - 1 /\ Len(a.parts) >= 1 /\ Capacity(Len(a.parts)) < a.bcnt
        /\ s[1] \in InitPacket
    BY <1>4, <2>1, <1>1 DEF IInv, AssemblyInv, RunInv
  <2>3. a.bcnt \in Nat /\ Len(a.parts) \in Nat
    BY <2>1, LenProperties DEF Assembly
  <2>4. CASE p.seq # a.nextSeq
    <3>1. Extended(s, p) = <<>>
      BY <1>1, <2>1, <2>2, <2>4 DEF Extended
    <3>2. Ingested(a, p).kind = "error" /\ Ingested(a, p).assembly = None
      BY <1>1, <1>2, <1>4, <2>4 DEF Ingested, IngestedCont, OfOther, Refused
    <3> QED
      BY <1>1, <1>4, <3>1, <3>2, RefusedStep
  <2>5. CASE p.seq = a.nextSeq
    <3>1. Extended(s, p) = Append(s, p)
      BY <1>1, <2>1, <2>2, <2>5 DEF Extended
    <3>2. /\ grown \in Assembly /\ grown.cid = a.cid /\ grown.bcnt = a.bcnt
          /\ grown.nextSeq = a.nextSeq + 1
          /\ Len(grown.parts) = Len(a.parts) + 1
          /\ Frame(grown) = Append(s, p)
      BY <1>4, <2>1, <2>2, <2>5, FrameGrows
    <3>3. Ingested(a, p) =
            IF grown.nextSeq > MaxSeq THEN Refused(None, "InvalidLen")
            ELSE IF Buffered(a.bcnt, grown.parts) >= a.bcnt THEN Complete(grown)
            ELSE Partial(grown)
      BY <1>1, <1>2, <1>4, <2>5 DEF Ingested, IngestedCont, OfOther
    <3> HIDE DEF grown
    <3>4. /\ Append(s, p) \in Seq(Packet) /\ Append(s, p) # <<>>
          /\ Append(s, p)[1] = s[1] /\ Len(Append(s, p)) = Len(a.parts) + 1
      <4>1. 1 \in 1..Len(s)
        BY <2>1, <2>2, <2>3
      <4> QED
        BY <1>1, <2>1, <2>3, <4>1, AppendProperties
    <3>5. CASE grown.nextSeq > MaxSeq
      <4>1. ~(a.bcnt <= RecvLimit)
        <5> SUFFICES ASSUME a.bcnt <= RecvLimit PROVE FALSE
          OBVIOUS
        <5> DEFINE n == Len(a.parts)
        <5>1. n - 1 \in Nat /\ MaxSeq \in Nat /\ ContPayload \in Nat \ {0} /\ InitPayload \in Nat
          BY <2>2, <2>3, FramerAssumption
        <5>2. ContPayload * (n - 1) \in Int /\ ContPayload * MaxSeq \in Int
          BY <5>1
        <5>3. ContPayload * (n - 1) < ContPayload * MaxSeq
          BY <2>2, <2>3, <5>1, <5>2 DEF Capacity, RecvLimit
        <5>4. n - 1 < MaxSeq
          BY <5>1, <5>3, ScaledLess
        <5> QED
          BY <5>1, <5>4, <2>2, <2>3, <3>2, <3>5
      <4>2. Ingested(a, p).kind = "error" /\ Ingested(a, p).assembly = None
        BY <3>3, <3>5 DEF Refused
      <4> QED
        BY <1>1, <1>2, <1>4, <2>1, <2>2, <3>1, <3>4, <4>1, <4>2, RefusedStep
    <3>6. CASE ~(grown.nextSeq > MaxSeq)
      <4>1. Ingested(a, p) =
              IF Buffered(grown.bcnt, grown.parts) >= grown.bcnt THEN Complete(grown)
              ELSE Partial(grown)
        BY <3>2, <3>3, <3>6
      <4>2. /\ Len(grown.parts) >= 1 /\ grown.nextSeq = Len(grown.parts) - 1
            /\ Capacity(Len(grown.parts) - 1) < grown.bcnt
            /\ grown.bcnt <= MaxMessage /\ grown.nextSeq <= MaxSeq
        BY <1>4, <2>2, <2>3, <3>2, <3>6, FramerAssumption DEF IInv, TypeOK
      <4> QED
        BY <1>1, <1>2, <1>4, <2>1, <2>2, <3>1, <3>2, <3>4, <4>1, <4>2, GrownStep
    <3> QED
      BY <3>5, <3>6
  <2> QED
    BY <2>4, <2>5
<1> QED
  BY <1>3, <1>4

-----------------------------------------------------------------------------
(* The inductive invariant of the framer with arbitrary hosts.             *)
THEOREM HidBusInvariant == Spec => []IInv
<1>1. IInv /\ [Next]_vars => IInv'
  <2> SUFFICES ASSUME IInv, [Next]_vars PROVE IInv'
    OBVIOUS
  <2>1. CASE \E p \in Packet : Ingest(p)
    BY <2>1, IngestInitStep, IngestContStep DEF Packet
  <2>2. CASE OnTimeout
    BY <2>2, OnTimeoutStep
  <2>3. CASE \E c \in Cids : Cancel(c)
    BY <2>3, CancelStep
  <2>4. CASE UNCHANGED vars
    BY <2>4 DEF vars, IInv, TypeOK, AssemblyInv, RunInv, MessageIsWhatOneHostSent,
       IntactMessageDelivered, AllSent
  <2> QED
    BY <2>1, <2>2, <2>3, <2>4 DEF Next
<1> QED
  BY <1>1, InitIInv, PTL DEF Spec

(* Type correctness of the framer's assembly state under arbitrary hosts.  *)
THEOREM HidBusTypeOK == Spec => []TypeOK
<1>1. IInv => TypeOK
  BY DEF IInv
<1> QED
  BY <1>1, HidBusInvariant, PTL

(* hid_framer.cpp:35-96: whatever the hosts interleave, a message that     *)
(* ingest() returns is one host's packets, all of them and in order.       *)
THEOREM HidBusReassembly == Spec => []MessageIsWhatOneHostSent
<1>1. IInv => MessageIsWhatOneHostSent
  BY DEF IInv
<1> QED
  BY <1>1, HidBusInvariant, PTL

(* hid_framer.cpp:35-96: a message that its host sends undisturbed is      *)
(* returned exactly when it has at most kInitPayload + 127 * kContPayload  *)
(* bytes; kMaxMessage is kContPayload more.                                *)
THEOREM HidBusDelivery == Spec => []IntactMessageDelivered
<1>1. IInv => IntactMessageDelivered
  BY DEF IInv
<1> QED
  BY <1>1, HidBusInvariant, PTL
=============================================================================
