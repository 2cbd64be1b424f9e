----------------------------- MODULE HidFramer -----------------------------
(***************************************************************************)
(* ctap::HidFramer: reassembly of 64-byte CTAPHID reports into messages    *)
(* (src/ctap/hid_framer.cpp).  A report is an initialisation packet, which *)
(* carries the command, the payload length bcnt and the first chunk of the *)
(* payload, or a continuation packet, which carries a sequence number and  *)
(* the next chunk.  The bytes of a chunk are abstracted to one value of    *)
(* Data; how many of them a packet contributes is kept, since the length   *)
(* and sequence-number arithmetic is what decides completeness.            *)
(*                                                                         *)
(* Ingested, TimedOut and Canceled are the three methods as operators on   *)
(* the optional Assembly.  HidBus is the closed specification of a framer  *)
(* with hosts; HidDevice and Loop build on the same operators.             *)
(***************************************************************************)
EXTENDS Integers, Sequences

CONSTANTS
  InitPayload,   \* kInitPayload, 57: payload bytes of an initialisation packet
  ContPayload,   \* kContPayload, 59: payload bytes of a continuation packet
  MaxSeq,        \* 127: the largest value of the SEQ byte
  MaxMessage,    \* kMaxMessage, 7609: the largest accepted bcnt
  Cids,          \* the channel identifiers hosts put into reports
  ZeroCid,       \* channel identifier 0, never valid
  Cmds,          \* command codes
  Data,          \* payload chunks
  Lengths,       \* the values of bcnt hosts send
  None           \* an empty std::optional

ASSUME FramerAssumption ==
  /\ InitPayload \in Nat \ {0}
  /\ ContPayload \in Nat \ {0}
  /\ MaxSeq \in Nat \ {0}
  /\ MaxMessage \in Nat
  /\ Lengths \subseteq Nat
  /\ None \notin [cid : Cids, cmd : Cmds, bcnt : Nat, nextSeq : Nat, parts : Seq(Data)]

HidErr == {"InvalidCmd", "InvalidLen", "InvalidSeq", "MsgTimeout", "ChannelBusy",
           "InvalidChannel"}

InitPacket == [type : {"init"}, cid : Cids, cmd : Cmds, bcnt : Lengths, data : Data]
ContPacket == [type : {"cont"}, cid : Cids, seq : 0..MaxSeq, data : Data]
Packet     == InitPacket \cup ContPacket

Message  == [cid : Cids, cmd : Cmds, bcnt : Nat, parts : Seq(Data)]
Assembly == [cid : Cids, cmd : Cmds, bcnt : Nat, nextSeq : Nat, parts : Seq(Data)]

(* Bytes in Assembly::buf: every packet gives all its payload bytes, the   *)
(* last one only what is still missing.                                    *)
Capacity(n) == InitPayload + ContPayload * (n - 1)
Buffered(bcnt, parts) ==
  IF Capacity(Len(parts)) < bcnt THEN Capacity(Len(parts)) ELSE bcnt

(* The three outcomes of std::expected<std::optional<Message>, HidErr>.    *)
Refused(a, e) == [assembly |-> a, kind |-> "error", err |-> e, msg |-> None]
Partial(a)    == [assembly |-> a, kind |-> "partial", err |-> None, msg |-> None]
Complete(a)   == [assembly |-> None, kind |-> "message", err |-> None,
                  msg |-> [cid |-> a.cid, cmd |-> a.cmd, bcnt |-> a.bcnt, parts |-> a.parts]]

OfOther(a, p) == a # None /\ a.cid # p.cid

(* Variants of IngestedInit and IngestedCont with a defect: a long message *)
(* is not refused; an INIT takes the framer away from another channel; the *)
(* sequence number is not compared.                                        *)
IngestedInitAnyLength(a, p) ==
  LET new == [cid |-> p.cid, cmd |-> p.cmd, bcnt |-> p.bcnt, nextSeq |-> 0,
              parts |-> <<p.data>>]
  IN  IF OfOther(a, p) THEN Refused(a, "ChannelBusy")
      ELSE IF Buffered(p.bcnt, new.parts) >= p.bcnt THEN Complete(new)
      ELSE Partial(new)
IngestedInitPreempts(a, p) ==
  LET new == [cid |-> p.cid, cmd |-> p.cmd, bcnt |-> p.bcnt, nextSeq |-> 0,
              parts |-> <<p.data>>]
  IN  IF p.bcnt > MaxMessage THEN Refused(None, "InvalidLen")
      ELSE IF Buffered(p.bcnt, new.parts) >= p.bcnt THEN Complete(new)
      ELSE Partial(new)
IngestedContAnySeq(a, p) ==
  LET grown == [a EXCEPT !.parts = Append(@, p.data), !.nextSeq = @ + 1]
  IN  IF a = None \/ OfOther(a, p) THEN Refused(a, "InvalidSeq")
      ELSE IF grown.nextSeq > MaxSeq THEN Refused(None, "InvalidLen")
      ELSE IF Buffered(a.bcnt, grown.parts) >= a.bcnt THEN Complete(grown)
      ELSE Partial(grown)

IngestedInit(a, p) ==
  LET new == [cid |-> p.cid, cmd |-> p.cmd, bcnt |-> p.bcnt, nextSeq |-> 0,
              parts |-> <<p.data>>]
  IN  IF OfOther(a, p) THEN Refused(a, "ChannelBusy")
      ELSE IF p.bcnt > MaxMessage THEN Refused(None, "InvalidLen")
      ELSE IF Buffered(p.bcnt, new.parts) >= p.bcnt THEN Complete(new)
      ELSE Partial(new)

(* The sequence number is advanced and compared with 127 before the        *)
(* message is tested for completeness (hid_framer.cpp:84-89).              *)
IngestedCont(a, p) ==
  LET grown == [a EXCEPT !.parts = Append(@, p.data), !.nextSeq = @ + 1]
  IN  IF a = None \/ OfOther(a, p) THEN Refused(a, "InvalidSeq")
      ELSE IF p.seq # a.nextSeq THEN Refused(None, "InvalidSeq")
      ELSE IF grown.nextSeq > MaxSeq THEN Refused(None, "InvalidLen")
      ELSE IF Buffered(a.bcnt, grown.parts) >= a.bcnt THEN Complete(grown)
      ELSE Partial(grown)

Ingested(a, p) ==
  IF p.cid = ZeroCid THEN Refused(a, "InvalidChannel")
  ELSE IF p.type = "init" THEN IngestedInit(a, p)
  ELSE IngestedCont(a, p)

TimedOut(a) == None                    \* HidFramer::on_timeout
Canceled(a, cid) == IF a # None /\ a.cid = cid THEN None ELSE a  \* HidFramer::cancel

(* HidFramer::frame: the packets of message m, whose payload is kept as    *)
(* the chunks that the packets carry.                                      *)
Frame(m) ==
  [i \in 1..Len(m.parts) |->
     IF i = 1
       THEN [type |-> "init", cid |-> m.cid, cmd |-> m.cmd, bcnt |-> m.bcnt,
             data |-> m.parts[1]]
       ELSE [type |-> "cont", cid |-> m.cid, seq |-> i - 2, data |-> m.parts[i]]]

(* n packets, and no fewer, carry bcnt payload bytes.                      *)
Carries(n, bcnt) == Capacity(n) >= bcnt /\ (n > 1 => Capacity(n - 1) < bcnt)
=============================================================================
