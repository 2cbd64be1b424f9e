------------------------------- MODULE HidBus -------------------------------
(***************************************************************************)
(* The framer alone, with hosts that send anything.  run[c] is host c's    *)
(* undisturbed run of packets: its last initialisation packet and the      *)
(* continuation packets 0, 1, 2, ... that followed; it is empty when the   *)
(* run was refused because another channel was assembling, was too long,   *)
(* left the sequence, went on past its length, or was aborted by the       *)
(* timeout or by cancel.  got[c] says that the run came out as a message.  *)
(***************************************************************************)
EXTENDS HidFramer

VARIABLES assembly,   \* HidFramer::assembly_
          ret,        \* what the last ingest() returned
          run, got    \* ghosts

vars == <<assembly, ret, run, got>>

NoReturn == [kind |-> "partial", err |-> None, msg |-> None]

Init ==
  /\ assembly = None
  /\ ret = NoReturn
  /\ run = [c \in Cids |-> <<>>]
  /\ got = [c \in Cids |-> FALSE]

(* The packets that the announced bcnt bytes need are all in the run.      *)
AllSent(s) == s # <<>> /\ Capacity(Len(s)) >= s[1].bcnt

(* What packet p of its host makes of the host's undisturbed run s.        *)
Extended(s, p) ==
  IF p.type = "init"
    THEN IF OfOther(assembly, p) \/ p.cid = ZeroCid \/ p.bcnt > MaxMessage
           THEN <<>> ELSE <<p>>
    ELSE IF s = <<>> \/ AllSent(s) \/ p.seq # Len(s) - 1 THEN <<>> ELSE Append(s, p)

Ingest(p) ==
  LET r == Ingested(assembly, p)
  IN  /\ assembly' = r.assembly
      /\ ret' = [kind |-> r.kind, err |-> r.err, msg |-> r.msg]
      /\ run' = [run EXCEPT ![p.cid] = Extended(@, p)]
      /\ got' = [got EXCEPT ![p.cid] = r.kind = "message"]

(* HidFramer::on_timeout and HidFramer::cancel drop a partial message.     *)
OnTimeout ==
  /\ assembly # None
  /\ assembly' = TimedOut(assembly)
  /\ ret' = NoReturn
  /\ run' = [run EXCEPT ![assembly.cid] = <<>>]
  /\ UNCHANGED got

Cancel(c) ==
  /\ assembly # None
  /\ assembly' = Canceled(assembly, c)
  /\ ret' = NoReturn
  /\ run' = IF assembly.cid = c THEN [run EXCEPT ![c] = <<>>] ELSE run
  /\ UNCHANGED got

Next ==
  \/ \E p \in Packet : Ingest(p)
  \/ OnTimeout
  \/ \E c \in Cids : Cancel(c)

Spec == Init /\ [][Next]_vars

-----------------------------------------------------------------------------
(* Type invariant, with the bound on what a host can make the framer       *)
(* buffer: at most kMaxMessage bytes in at most MaxSeq continuations.      *)
TypeOK ==
  /\ assembly \in Assembly \cup {None}
  /\ assembly # None => assembly.bcnt <= MaxMessage /\ assembly.nextSeq <= MaxSeq
  /\ ret \in [kind : {"partial", "message", "error"}, err : HidErr \cup {None},
              msg : Message \cup {None}]
  /\ run \in [Cids -> Seq(Packet)]
  /\ got \in [Cids -> BOOLEAN]

(* Reassembly (hid_framer.cpp:35-96): a message ingest() returns is what   *)
(* one host sent undisturbed: framing it again gives that host's packets,  *)
(* chunk for chunk and in sequence order, and exactly as many as its bcnt  *)
(* needs, whatever other hosts put on the bus in between.                  *)
MessageIsWhatOneHostSent ==
  ret.kind = "message" =>
    /\ Frame(ret.msg) = run[ret.msg.cid]
    /\ Carries(Len(ret.msg.parts), ret.msg.bcnt)

(* Delivery: a host that sends a message undisturbed gets it through once  *)
(* all its packets are in, exactly when it needs continuation packets 0 to *)
(* MaxSeq - 1 at most.  The limit is below MaxMessage: hid_framer.cpp:85   *)
(* refuses the continuation packet of sequence number MaxSeq, although     *)
(* hid_defs.hpp:26 and DESIGN.md ("SEQ [1] 0..127", "kMaxMessage = 7609")  *)
(* count it.                                                               *)
RecvLimit == InitPayload + ContPayload * MaxSeq
IntactMessageDelivered ==
  \A c \in Cids : AllSent(run[c]) => (got[c] <=> run[c][1].bcnt <= RecvLimit)
=============================================================================
