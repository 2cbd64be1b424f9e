--------------------------- MODULE CredentialLife ---------------------------
(***************************************************************************)
(* What a relying party may expect of a credential, whatever happens to    *)
(* the daemon that keeps it.  An id is drawn once; the credential is       *)
(* either stored or was never made; once it is removed, no crash, failed   *)
(* write or later command brings it back, nor does one make a credential   *)
(* of a registration that was refused.  Counters go out only for a         *)
(* credential that is stored, and in growing order.                        *)
(***************************************************************************)
EXTENDS Naturals

CONSTANT Creds

VARIABLES life,   \* "new", "making", "live" or "gone"
          seen    \* the highest counter sent with user presence

vars == <<life, seen>>

Init == life = [c \in Creds |-> "new"] /\ seen = [c \in Creds |-> 0]

Move(c, from, to) ==
  life[c] = from /\ life' = [life EXCEPT ![c] = to] /\ UNCHANGED seen

Begin(c)    == Move(c, "new", "making")
Refuse(c)   == Move(c, "making", "gone")
Register(c) == Move(c, "making", "live")

Answer(c) ==
  /\ life[c] = "live"
  /\ seen'[c] > seen[c]
  /\ seen' = [seen EXCEPT ![c] = seen'[c]]
  /\ UNCHANGED life

(* One credential is deleted or replaced, or all of them are reset.        *)
Remove(C) ==
  /\ life' = [c \in Creds |-> IF c \in C THEN "gone" ELSE life[c]]
  /\ UNCHANGED seen

Next ==
  \/ \E c \in Creds : Begin(c) \/ Refuse(c) \/ Register(c) \/ Answer(c)
  \/ \E C \in SUBSET {c \in Creds : life[c] = "live"} : Remove(C)

Spec == Init /\ [][Next]_vars
=============================================================================
