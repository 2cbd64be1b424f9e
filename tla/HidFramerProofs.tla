-------------------------- MODULE HidFramerProofs --------------------------
(***************************************************************************)
(* Facts about the framer's operators that the proofs about HidBus and     *)
(* about Loop both rest on.                                                *)
(***************************************************************************)
EXTENDS HidFramer, SequenceTheorems, TLAPS

(* HidFramer::ingest: its results are well formed, a complete message      *)
(* leaves no assembly, and the command of a message or of a partial        *)
(* message is the one its initialisation packet carried.                   *)
LEMMA IngestedOK ==
  ASSUME NEW a \in Assembly \cup {None}, NEW p \in Packet
  PROVE  LET r == Ingested(a, p) IN
         /\ r.assembly \in Assembly \cup {None}
         /\ r.kind \in {"error", "partial", "message"}
         /\ r.kind = "error" => r.err \in HidErr /\ r.assembly \in {a, None}
         /\ r.kind = "partial" =>
              /\ r.assembly \in Assembly
              /\ r.assembly.cmd = IF p.type = "init" THEN p.cmd ELSE a.cmd
              /\ p.type = "init" \/ a \in Assembly
         /\ r.kind = "message" =>
              /\ r.assembly = None
              /\ r.msg \in Message
              /\ r.msg.cid = p.cid /\ p.cid # ZeroCid
              /\ r.msg.cmd = IF p.type = "init" THEN p.cmd ELSE a.cmd
              /\ p.type = "init" \/ a \in Assembly
<1>1. CASE p.cid = ZeroCid
  BY <1>1 DEF Ingested, Refused, HidErr
<1>2. CASE p.cid # ZeroCid /\ p.type = "init"
  <2>1. p \in InitPacket
    BY <1>2 DEF Packet, ContPacket
  <2>2. [cid |-> p.cid, cmd |-> p.cmd, bcnt |-> p.bcnt, nextSeq |-> 0, parts |-> <<p.data>>]
          \in Assembly
    <3>1. p.data \in Data /\ p.cid \in Cids /\ p.cmd \in Cmds /\ p.bcnt \in Nat
      BY <2>1, FramerAssumption DEF InitPacket
    <3>2. <<p.data>> \in Seq(Data)
      BY <3>1
    <3> QED
      BY <3>1, <3>2 DEF Assembly
  <2> DEFINE new == [cid |-> p.cid, cmd |-> p.cmd, bcnt |-> p.bcnt, nextSeq |-> 0,
                     parts |-> <<p.data>>]
  <2>3. Ingested(a, p) \in {Refused(a, "ChannelBusy"), Refused(None, "InvalidLen"),
                            Complete(new), Partial(new)}
    BY <1>2 DEF Ingested, IngestedInit
  <2>4. new \in Assembly /\ new.cid = p.cid /\ new.cmd = p.cmd
    BY <2>2
  <2> HIDE DEF new
  <2> QED
    BY <1>2, <2>3, <2>4 DEF Refused, Complete, Partial, HidErr, Assembly, Message
<1>3. CASE p.cid # ZeroCid /\ p.type # "init"
  <2>1. p \in ContPacket
    BY <1>3 DEF Packet, InitPacket
  <2> DEFINE grown == [a EXCEPT !.parts = Append(@, p.data), !.nextSeq = @ + 1]
  <2>2. a \in Assembly => grown \in Assembly /\ grown.cid = a.cid /\ grown.cmd = a.cmd
    <3> SUFFICES ASSUME a \in Assembly
                 PROVE  grown \in Assembly /\ grown.cid = a.cid /\ grown.cmd = a.cmd
      OBVIOUS
    <3>1. p.data \in Data
      BY <2>1 DEF ContPacket
    <3>2. Append(a.parts, p.data) \in Seq(Data) /\ a.nextSeq + 1 \in Nat
      BY <3>1, AppendProperties DEF Assembly
    <3>3. grown = [a EXCEPT !.parts = Append(a.parts, p.data), !.nextSeq = a.nextSeq + 1]
      BY DEF Assembly
    <3> QED
      BY <3>2, <3>3 DEF Assembly
  <2>3. \/ Ingested(a, p) \in {Refused(a, "InvalidSeq"), Refused(None, "InvalidSeq"),
                               Refused(None, "InvalidLen")}
        \/ a \in Assembly /\ a.cid = p.cid /\ Ingested(a, p) \in {Complete(grown), Partial(grown)}
    BY <1>3 DEF Ingested, IngestedCont, OfOther
  <2> HIDE DEF grown
  <2> QED
    BY <1>3, <2>2, <2>3 DEF Refused, Complete, Partial, HidErr, Assembly, Message
<1> QED
  BY <1>1, <1>2, <1>3

LEMMA ScaledLess ==
  ASSUME NEW k \in Nat \ {0}, NEW m \in Nat, NEW n \in Nat, k * m < k * n
  PROVE  m < n
<1> SUFFICES ASSUME m >= n PROVE FALSE
  OBVIOUS
<1>1. PICK d \in Nat : m = n + d
  <2>1. m - n \in Nat /\ m = n + (m - n)
    OBVIOUS
  <2> QED
    BY <2>1
<1>2. k * m = k * n + k * d /\ k * d \in Nat /\ k * n \in Nat /\ k * m \in Nat
  BY <1>1
<1> QED
  BY <1>2

LEMMA CapacityInt == \A n \in Nat : Capacity(n) \in Int
  BY FramerAssumption DEF Capacity

(* Framing a message that grew by one packet appends that packet.          *)
LEMMA FrameGrows ==
  ASSUME NEW a \in Assembly, NEW p \in ContPacket,
         Len(a.parts) >= 1, a.nextSeq = Len(a.parts) - 1,
         p.cid = a.cid, p.seq = a.nextSeq, Frame(a) \in Seq(Packet)
  PROVE  LET grown == [a EXCEPT !.parts = Append(@, p.data), !.nextSeq = @ + 1]
         IN  /\ grown \in Assembly /\ grown.cid = a.cid /\ grown.bcnt = a.bcnt
             /\ grown.nextSeq = a.nextSeq + 1
             /\ Len(grown.parts) = Len(a.parts) + 1
             /\ Frame(grown) = Append(Frame(a), p)
<1> DEFINE grown == [a EXCEPT !.parts = Append(@, p.data), !.nextSeq = @ + 1]
           n == Len(a.parts)
<1>1. a.parts \in Seq(Data) /\ p.data \in Data /\ a.nextSeq \in Nat /\ n \in Nat
  BY LenProperties DEF Assembly, ContPacket
<1>2. /\ Append(a.parts, p.data) \in Seq(Data)
      /\ Len(Append(a.parts, p.data)) = n + 1
      /\ Append(a.parts, p.data)[n + 1] = p.data
      /\ \A i \in 1..n : Append(a.parts, p.data)[i] = a.parts[i]
  BY <1>1, AppendProperties
<1>3. /\ grown \in Assembly /\ grown.cid = a.cid /\ grown.cmd = a.cmd /\ grown.bcnt = a.bcnt
      /\ grown.nextSeq = a.nextSeq + 1 /\ grown.parts = Append(a.parts, p.data)
  <2>1. grown = [a EXCEPT !.parts = Append(a.parts, p.data), !.nextSeq = a.nextSeq + 1]
    BY DEF Assembly
  <2>2. Append(a.parts, p.data) \in Seq(Data) /\ a.nextSeq + 1 \in Nat
    BY <1>1, <1>2
  <2>3. grown \in Assembly
    BY <2>1, <2>2 DEF Assembly
  <2> QED
    BY <2>1, <2>3 DEF Assembly
<1> HIDE DEF grown
<1>4. p = [type |-> "cont", cid |-> a.cid, seq |-> n - 1, data |-> p.data]
  BY DEF ContPacket
<1>5. Len(Frame(a)) = n
  <2>1. DOMAIN Frame(a) = 1..n
    BY DEF Frame
  <2>2. DOMAIN Frame(a) = 1..Len(Frame(a)) /\ Len(Frame(a)) \in Nat
    BY LenProperties
  <2> QED
    BY <2>1, <2>2, <1>1
<1>6. /\ DOMAIN Frame(grown) = 1..(n + 1)
      /\ Append(Frame(a), p) \in [1..(n + 1) -> Packet]
      /\ Append(Frame(a), p)[n + 1] = p
      /\ \A i \in 1..n : Append(Frame(a), p)[i] = Frame(a)[i]
  <2>1. DOMAIN Frame(grown) = 1..(n + 1)
    BY <1>2, <1>3 DEF Frame
  <2>2. p \in Packet
    BY DEF Packet
  <2>3. /\ Append(Frame(a), p) \in Seq(Packet) /\ Len(Append(Frame(a), p)) = n + 1
        /\ Append(Frame(a), p)[n + 1] = p
        /\ \A i \in 1..n : Append(Frame(a), p)[i] = Frame(a)[i]
    BY <1>5, <2>2, AppendProperties
  <2> QED
    BY <2>1, <2>3, LenProperties
<1>7. ASSUME NEW i \in 1..(n + 1)
      PROVE  Frame(grown)[i] = Append(Frame(a), p)[i]
  <2>1. CASE i = n + 1
    <3>1. i # 1 /\ i - 2 = n - 1
      BY <2>1, <1>1
    <3>2. Frame(grown)[i] = [type |-> "cont", cid |-> a.cid, seq |-> n - 1, data |-> p.data]
      BY <2>1, <3>1, <1>2, <1>3 DEF Frame
    <3> QED
      BY <2>1, <3>2, <1>4, <1>6
  <2>2. CASE i # n + 1
    <3>1. i \in 1..n /\ grown.parts[i] = a.parts[i]
      BY <2>2, <1>1, <1>2, <1>3
    <3>2. Frame(grown)[i] = Frame(a)[i]
      BY <3>1, <1>1, <1>2, <1>3 DEF Frame
    <3> QED
      BY <3>1, <3>2, <1>6
  <2> QED
    BY <2>1, <2>2
<1>8. Frame(grown) = Append(Frame(a), p)
  <2>1. Frame(grown) = [i \in 1..(n + 1) |-> Frame(grown)[i]]
    BY <1>6 DEF Frame
  <2>2. Append(Frame(a), p) = [i \in 1..(n + 1) |-> Append(Frame(a), p)[i]]
    BY <1>6
  <2> QED
    BY <2>1, <2>2, <1>7
<1> QED
  BY <1>2, <1>3, <1>8 DEF grown
=============================================================================
