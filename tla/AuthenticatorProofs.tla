------------------------ MODULE AuthenticatorProofs ------------------------
(***************************************************************************)
(* Proofs about the authenticator, for any number of credentials, users    *)
(* and relying parties, any mix of key backends, and any crashes and       *)
(* failures.                                                               *)
(***************************************************************************)
EXTENDS Authenticator, TLAPS

-----------------------------------------------------------------------------
(* The inductive invariant.                                                *)

IsMaking == op.kind \in {"make", "register"}

(* A stopped daemon holds nothing, a reset has cleared the memory, and     *)
(* only getNextAssertion, U2F commands and responses meet a pending list.  *)
Quiet ==
  /\ ~running => rows = NoRows /\ op = Idle /\ pending = NoPending
  /\ op.kind \in {"assert", "make", "delete", "reset"} => pending = NoPending
  /\ op.kind = "reset" => rows = NoRows

(* But for counters, memory and disk hold the same rows.                   *)
SameShape ==
  running /\ op.kind # "reset" =>
    \A c \in Creds : /\ rows[c] = NoRow <=> disk[c] = NoRow
                     /\ rows[c] # NoRow => /\ rows[c].rp = disk[c].rp
                                           /\ rows[c].user = disk[c].user

(* A credential id is new: it has no row, no key and no counter.           *)
FreshIds ==
  /\ Stored(rows) \cup Stored(disk) \cup keys \subseteq used
  /\ \A c \in Creds \ used : sent[c] = 0
  /\ IsMaking =>
       /\ op.id \in used /\ op.id \notin Stored(rows) \cup Stored(disk)
       /\ sent[op.id] = 0
       /\ op.id \notin op.olds \cup op.old
       /\ ~op.keyed => op.id \notin keys
  /\ op.kind = "respond" => op.id \in used

(* Rows copied for the command under way are fresh too.                    *)
Copies ==
  /\ PendingFresh
  /\ op.kind \in {"assert", "next", "u2f"} =>
       \A c \in DOMAIN op.creds : c \in raced \/ rows[c] = op.creds[c]
  /\ op.kind = "next" => DOMAIN op.creds \cap DOMAIN pending.creds = {}

(* What was sent is in memory and on disk, and a response that waits to be *)
(* sent is ahead of it.                                                    *)
Covers(r, c, n) == r[c] # NoRow => n <= r[c].count
Counters ==
  /\ reused \subseteq raced
  /\ \A c \in Creds \ raced : Covers(rows, c, sent[c]) /\ Covers(disk, c, sent[c])
  /\ op.kind = "respond" /\ op.up /\ op.id \notin raced =>
       sent[op.id] < op.count /\ Covers(rows, op.id, op.count) /\ Covers(disk, op.id, op.count)

(* Before the new row is stored, its user's other rows are replaced.       *)
OfUser(r, c, rp, user) == r[c] # NoRow /\ r[c].rp = rp /\ r[c].user = user
OneEach ==
  /\ OnePerUser
  /\ IsMaking /\ op.keyed /\ op.user # None =>
       \A r \in {rows, disk} : \A c \in Creds :
         OfUser(r, c, op.rp, op.user) => c \in doomed \cup op.olds

(* A row has its key, and so has the credential being made, until its      *)
(* deletion begins.                                                        *)
KeysInv ==
  /\ RowsHaveKeys
  /\ IsMaking /\ op.keyed => op.id \in keys
  /\ op.kind = "reset" => Stored(disk) \subseteq doomed

AuthInv ==
  /\ TypeOK /\ Quiet /\ SameShape /\ FreshIds
  /\ Copies /\ Counters /\ OneEach /\ KeysInv

-----------------------------------------------------------------------------
(* Commands under way are records of their own kind.                       *)
Ops == Signing \cup Making \cup Deleting \cup Responding \cup {Idle, Resetting}

LEMMA OpKinds ==
  ASSUME NEW o \in Ops
  PROVE  /\ o.kind \in {"assert", "next", "u2f"} <=> o \in Signing
         /\ o.kind \in {"make", "register"} <=> o \in Making
         /\ o.kind = "delete" <=> o \in Deleting
         /\ o.kind = "respond" <=> o \in Responding
         /\ o.kind = "idle" <=> o = Idle
         /\ o.kind = "reset" <=> o = Resetting
<1>1. /\ o \in Signing => o.kind \in {"assert", "next", "u2f"}
      /\ o \in Making => o.kind \in {"make", "register"}
      /\ o \in Deleting => o.kind = "delete"
      /\ o \in Responding => o.kind = "respond"
      /\ o = Idle => o.kind = "idle"
      /\ o = Resetting => o.kind = "reset"
  BY DEF Signing, Making, Deleting, Responding, Idle, Resetting
<1> QED
  BY <1>1 DEF Ops

LEMMA SnapshotFacts ==
  /\ Nothing \in Snapshots /\ DOMAIN Nothing = {}
  /\ NoPending \in [creds : Snapshots, up : BOOLEAN]
  /\ NoPending.creds = Nothing /\ DOMAIN NoPending.creds = {}
  /\ \A s \in Snapshots : DOMAIN s \subseteq Creds /\ \A c \in DOMAIN s : s[c] \in Rows
  /\ \A S \in SUBSET Creds : \A f \in [S -> Rows] : f \in Snapshots
<1>1. \A S \in SUBSET Creds : \A f \in [S -> Rows] : f \in Snapshots
  BY DEF Snapshots
<1>2. Nothing \in [{} -> Rows] /\ DOMAIN Nothing = {}
  BY DEF Nothing
<1>3. Nothing \in Snapshots
  BY <1>1, <1>2
<1>4. \A s \in Snapshots : DOMAIN s \subseteq Creds /\ \A c \in DOMAIN s : s[c] \in Rows
  <2> SUFFICES ASSUME NEW s \in Snapshots
               PROVE  DOMAIN s \subseteq Creds /\ \A c \in DOMAIN s : s[c] \in Rows
    OBVIOUS
  <2>1. PICK S \in SUBSET Creds : s \in [S -> Rows]
    BY DEF Snapshots
  <2> QED
    BY <2>1
<1> QED
  BY <1>1, <1>2, <1>3, <1>4 DEF NoPending

LEMMA WithoutFacts ==
  ASSUME NEW s \in Snapshots, NEW c
  PROVE  /\ Without(s, c) \in Snapshots /\ DOMAIN Without(s, c) = DOMAIN s \ {c}
         /\ \A d \in DOMAIN s \ {c} : Without(s, c)[d] = s[d]
<1>1. DOMAIN s \ {c} \in SUBSET Creds /\ Without(s, c) \in [DOMAIN s \ {c} -> Rows]
  BY SnapshotFacts DEF Without
<1> QED
  BY <1>1, SnapshotFacts DEF Without

LEMMA RowFacts ==
  /\ NoRow \notin Rows
  /\ NoRows \in RowsOrNone /\ \A c \in Creds : NoRows[c] = NoRow
  /\ Stored(NoRows) = {}
  BY AuthenticatorAssumption DEF NoRow, NoRows, RowsOrNone, Stored

LEMMA InitAuth == Init => AuthInv
<1> SUFFICES ASSUME Init PROVE AuthInv
  OBVIOUS
<1> USE SnapshotFacts, RowFacts, AuthenticatorAssumption
<1>1. TypeOK
  <2>1. sent \in [Creds -> 0 .. MaxCount]
    BY DEF Init
  <2> QED
    BY <2>1 DEF Init, TypeOK
<1>2. Quiet /\ SameShape /\ FreshIds
  BY DEF Init, Quiet, SameShape, FreshIds, IsMaking, Idle
<1>3. Copies /\ Counters
  BY DEF Init, Copies, PendingFresh, Counters, Covers, Idle
<1>4. OneEach /\ KeysInv
  BY DEF Init, OneEach, OnePerUser, KeysInv, RowsHaveKeys, IsMaking, Idle
<1> QED
  BY <1>1, <1>2, <1>3, <1>4 DEF AuthInv

-----------------------------------------------------------------------------
(* Steps that only choose what the command under way does next: nothing    *)
(* it has made is given up, and no counter goes out.                       *)
LEMMA OpOnly ==
  ASSUME AuthInv, UNCHANGED <<running, store, keys, ghosts>>, running,
         \/ op.kind \in {"idle", "assert", "next", "u2f"}
         \/ op.kind \in {"make", "register"} /\ ~op.keyed,
         \/ op' \in Signing \cup {Idle}
         \/ op' \in Responding /\ ~op'.up /\ op'.id \in used,
         pending' \in [creds : Snapshots, up : BOOLEAN]
  PROVE  /\ TypeOK' /\ SameShape' /\ FreshIds' /\ Counters' /\ OneEach' /\ KeysInv'
<1>1. op \in Ops /\ op' \in Ops
  BY DEF AuthInv, TypeOK, Ops
<1>2. /\ op'.kind \notin {"make", "register", "delete", "reset"}
      /\ op'.kind = "respond" => ~op'.up /\ op'.id \in used
  BY <1>1, OpKinds DEF Idle, Signing
<1>3. op.kind \notin {"delete", "reset"}
  OBVIOUS
<1>4. TypeOK'
  BY <1>1 DEF AuthInv, TypeOK, Ops, store, ghosts
<1>5. SameShape' /\ FreshIds' /\ Counters'
  BY <1>2, <1>3 DEF AuthInv, SameShape, FreshIds, Counters, Covers, IsMaking, Stored, store, ghosts
<1>6. OneEach'
  BY <1>2 DEF AuthInv, OneEach, OnePerUser, OfUser, IsMaking, Stored, store, ghosts
<1>7. KeysInv'
  BY <1>2, <1>3 DEF AuthInv, KeysInv, FreshIds, RowsHaveKeys, IsMaking, Stored,
                    store, ghosts
<1> QED
  BY <1>4, <1>5, <1>6, <1>7

LEMMA GetAssertionStep ==
  ASSUME AuthInv, NEW rp \in Rps, NEW C \in SUBSET Creds, NEW u \in BOOLEAN,
         GetAssertion(rp, C, u)
  PROVE  AuthInv'
<1>1. /\ running /\ op = Idle /\ pending' = NoPending /\ UNCHANGED <<running, store, keys, ghosts>>
      /\ op' = [kind |-> "assert", creds |-> Snapshot(C), up |-> u]
      /\ \A c \in C : rows[c] # NoRow
  BY DEF GetAssertion, Ready
<1>2. Snapshot(C) \in [C -> Rows] /\ \A c \in C : Snapshot(C)[c] = rows[c]
  BY <1>1 DEF Snapshot, AuthInv, TypeOK, RowsOrNone
<1>3. Snapshot(C) \in Snapshots /\ DOMAIN Snapshot(C) = C
  BY <1>2, SnapshotFacts
<1>4. op' \in Signing /\ op.kind = "idle"
  BY <1>1, <1>3 DEF Signing, Idle
<1>5. TypeOK' /\ SameShape' /\ FreshIds' /\ Counters' /\ OneEach' /\ KeysInv'
  BY <1>1, <1>4, SnapshotFacts, OpOnly
<1>6. Quiet'
  BY <1>1, <1>4 DEF AuthInv, Quiet
<1>7. Copies'
  BY <1>1, <1>2, <1>3, SnapshotFacts DEF Copies, PendingFresh, store
<1> QED
  BY <1>5, <1>6, <1>7 DEF AuthInv

LEMMA GetNextStep ==
  ASSUME AuthInv, NEW c \in Creds, GetNextAssertion(c)
  PROVE  AuthInv'
<1> DEFINE s == [d \in {c} |-> pending.creds[d]]
<1>1. /\ running /\ op = Idle /\ UNCHANGED <<running, store, keys, ghosts>>
      /\ op' = [kind |-> "next", creds |-> s, up |-> pending.up]
      /\ pending' = [pending EXCEPT !.creds = Without(@, c)]
      /\ c \in DOMAIN pending.creds
      /\ pending \in [creds : Snapshots, up : BOOLEAN]
  BY DEF GetNextAssertion, Ready, AuthInv, TypeOK
<1>2. pending.creds \in Snapshots /\ pending.up \in BOOLEAN
  BY <1>1
<1>3. s \in [{c} -> Rows] /\ s[c] = pending.creds[c] /\ DOMAIN s = {c}
  BY <1>1, <1>2, SnapshotFacts
<1>4. s \in Snapshots
  BY <1>3, SnapshotFacts
<1> HIDE DEF s
<1>5. op' \in Signing /\ op.kind = "idle" /\ op'.kind = "next" /\ op'.creds = s
  BY <1>1, <1>2, <1>4 DEF Signing, Idle
<1>6. /\ pending' \in [creds : Snapshots, up : BOOLEAN]
      /\ pending'.creds = Without(pending.creds, c)
  BY <1>1, <1>2, WithoutFacts
<1>7. TypeOK' /\ SameShape' /\ FreshIds' /\ Counters' /\ OneEach' /\ KeysInv'
  BY <1>1, <1>5, <1>6, OpOnly
<1>8. Quiet'
  BY <1>1, <1>5 DEF AuthInv, Quiet
<1>9. Copies'
  <2>1. /\ DOMAIN pending'.creds = DOMAIN pending.creds \ {c}
        /\ \A d \in DOMAIN pending.creds \ {c} : pending'.creds[d] = pending.creds[d]
    <3>1. /\ DOMAIN Without(pending.creds, c) = DOMAIN pending.creds \ {c}
          /\ \A d \in DOMAIN pending.creds \ {c} : Without(pending.creds, c)[d] = pending.creds[d]
      BY <1>2, WithoutFacts
    <3> QED
      BY <3>1, <1>6
  <2>2. \A d \in DOMAIN pending.creds : d \in raced \/ rows[d] = pending.creds[d]
    BY DEF AuthInv, Copies, PendingFresh
  <2> QED
    BY <1>1, <1>3, <1>5, <2>1, <2>2 DEF Copies, PendingFresh, store, ghosts
<1> QED
  BY <1>7, <1>8, <1>9 DEF AuthInv

LEMMA U2fAuthenticateStep ==
  ASSUME AuthInv, NEW c \in Creds, NEW u \in BOOLEAN, U2fAuthenticate(c, u)
  PROVE  AuthInv'
<1>1. /\ running /\ op = Idle /\ UNCHANGED <<running, store, keys, pending, ghosts>>
      /\ op' = [kind |-> "u2f", creds |-> Snapshot({c}), up |-> u] /\ rows[c] # NoRow
  BY DEF U2fAuthenticate, Ready
<1>2. Snapshot({c}) \in [{c} -> Rows] /\ Snapshot({c})[c] = rows[c]
  BY <1>1 DEF Snapshot, AuthInv, TypeOK, RowsOrNone
<1>3. Snapshot({c}) \in Snapshots /\ DOMAIN Snapshot({c}) = {c}
  BY <1>2, SnapshotFacts
<1>4. op' \in Signing /\ op.kind = "idle" /\ op'.kind = "u2f"
  BY <1>1, <1>3 DEF Signing, Idle
<1>5. TypeOK' /\ SameShape' /\ FreshIds' /\ Counters' /\ OneEach' /\ KeysInv'
  BY <1>1, <1>4, OpOnly DEF AuthInv, TypeOK
<1>6. Quiet'
  BY <1>1, <1>4 DEF AuthInv, Quiet
<1>7. Copies'
  BY <1>1, <1>2, <1>3, <1>4 DEF AuthInv, Copies, PendingFresh, store, ghosts
<1> QED
  BY <1>5, <1>6, <1>7 DEF AuthInv

(* A command ends without having done anything.                            *)
LEMMA GivenUpStep ==
  ASSUME AuthInv,
         \/ Declined \/ MakeRefused \/ GetNextExpired
         \/ \E c \in Creds : SignFails(c)
  PROVE  AuthInv'
<1>1. /\ UNCHANGED <<running, store, keys, ghosts>> /\ op' = Idle
      /\ pending' \in {pending, NoPending}
  BY DEF Declined, MakeRefused, GetNextExpired, SignFails, Ready
<1>2. \/ op.kind \in {"idle", "assert", "next", "u2f"}
      \/ op.kind \in {"make", "register"} /\ ~op.keyed
  BY DEF Declined, MakeRefused, GetNextExpired, SignFails, Ready, Idle
<1>3. running
  BY DEF AuthInv, Quiet, TypeOK, Declined, MakeRefused, GetNextExpired, SignFails, Ready, Idle
<1>4. pending' \in [creds : Snapshots, up : BOOLEAN]
  BY <1>1, SnapshotFacts DEF AuthInv, TypeOK
<1>5. TypeOK' /\ SameShape' /\ FreshIds' /\ Counters' /\ OneEach' /\ KeysInv'
  BY <1>1, <1>2, <1>3, <1>4, OpOnly
<1>6. Quiet' /\ Copies'
  BY <1>1, <1>3, SnapshotFacts DEF AuthInv, Quiet, Copies, PendingFresh, store, ghosts, Idle
<1> QED
  BY <1>5, <1>6 DEF AuthInv

-----------------------------------------------------------------------------
(* Signing.                                                                *)

Counted(r, c, n) == [r EXCEPT ![c].count = n]

LEMMA RowUpdate ==
  ASSUME NEW r \in RowsOrNone, NEW c \in Creds, r[c] # NoRow, NEW n \in 1 .. MaxCount
  PROVE  /\ Counted(r, c, n) \in RowsOrNone
         /\ Counted(r, c, n)[c] # NoRow /\ Counted(r, c, n)[c].count = n
         /\ Counted(r, c, n)[c].rp = r[c].rp /\ Counted(r, c, n)[c].user = r[c].user
         /\ \A d \in Creds : d # c => Counted(r, c, n)[d] = r[d]
<1> DEFINE e == [r[c] EXCEPT !.count = n]
<1>1. r[c] \in Rows
  BY DEF RowsOrNone
<1>2. e \in Rows /\ e.count = n /\ e.rp = r[c].rp /\ e.user = r[c].user
  BY <1>1 DEF Rows
<1> HIDE DEF e
<1>3. Counted(r, c, n) = [r EXCEPT ![c] = e]
  BY DEF e, Counted
<1> QED
  BY <1>2, <1>3, RowFacts DEF RowsOrNone

LEMMA SigningFacts ==
  ASSUME AuthInv, op.kind \in {"assert", "next", "u2f"}, NEW c \in DOMAIN op.creds
  PROVE  /\ op \in Signing /\ running /\ c \in Creds
         /\ op.creds \in Snapshots /\ op.up \in BOOLEAN
         /\ op.creds[c] \in Rows /\ op.creds[c].count \in 1 .. MaxCount
         /\ c \in raced \/ rows[c] = op.creds[c]
<1>1. op \in Signing
  BY OpKinds DEF AuthInv, TypeOK, Ops
<1>2. running
  BY DEF AuthInv, Quiet, Idle, TypeOK
<1>3. op.creds \in Snapshots /\ op.up \in BOOLEAN
  BY <1>1 DEF Signing
<1>4. op.creds[c] \in Rows /\ c \in Creds
  BY <1>3, SnapshotFacts
<1>5. op.creds[c].count \in 1 .. MaxCount
  BY <1>4 DEF Rows
<1> QED
  BY <1>1, <1>2, <1>3, <1>4, <1>5 DEF AuthInv, Copies

(* What is left for getNextAssertion is fresh, and is signed with later.   *)
LEMMA RemainingFacts ==
  ASSUME AuthInv, op.kind \in {"assert", "next", "u2f"}, NEW c \in DOMAIN op.creds
  PROVE  /\ Remaining(c) \in [creds : Snapshots, up : BOOLEAN]
         /\ op.kind # "u2f" => c \notin DOMAIN Remaining(c).creds
         /\ op.kind = "u2f" => Remaining(c) = pending
         /\ \A d \in DOMAIN Remaining(c).creds : d \in raced \/ rows[d] = Remaining(c).creds[d]
<1>1. op.creds \in Snapshots /\ op.up \in BOOLEAN
  BY SigningFacts
<1>2. /\ Without(op.creds, c) \in Snapshots /\ DOMAIN Without(op.creds, c) = DOMAIN op.creds \ {c}
      /\ \A d \in DOMAIN op.creds \ {c} : Without(op.creds, c)[d] = op.creds[d]
  BY <1>1, WithoutFacts
<1>3. \A d \in DOMAIN op.creds : d \in raced \/ rows[d] = op.creds[d]
  BY DEF AuthInv, Copies
<1>4. CASE op.kind # "assert"
  BY <1>4 DEF Remaining, AuthInv, TypeOK, Copies, PendingFresh
<1>5. CASE op.kind = "assert" /\ DOMAIN op.creds = {c}
  BY <1>5, SnapshotFacts DEF Remaining
<1>6. CASE op.kind = "assert" /\ DOMAIN op.creds # {c}
  <2> DEFINE p == [creds |-> Without(op.creds, c), up |-> op.up]
  <2>1. p \in [creds : Snapshots, up : BOOLEAN] /\ p.creds = Without(op.creds, c)
    BY <1>1, <1>2
  <2>2. Remaining(c) = p
    BY <1>6 DEF Remaining
  <2> HIDE DEF p
  <2> QED
    BY <1>2, <1>3, <1>6, <2>1, <2>2
<1> QED
  BY <1>4, <1>5, <1>6

LEMMA SignUnbumpedStep ==
  ASSUME AuthInv, NEW c \in Creds, SignUnbumped(c)
  PROVE  AuthInv'
<1>1. /\ UNCHANGED <<running, store, keys, ghosts>> /\ pending' = Remaining(c)
      /\ op.kind \in {"assert", "next", "u2f"} /\ ~op.up /\ c \in DOMAIN op.creds
      /\ op' = [kind |-> "respond", id |-> c, count |-> op.creds[c].count, up |-> op.up]
      /\ c \in keys
  BY DEF SignUnbumped, Respond
<1>2. running /\ op.creds[c].count \in 1 .. MaxCount /\ op.up \in BOOLEAN
  BY <1>1, SigningFacts
<1>3. op' \in Responding /\ op'.kind = "respond" /\ op'.up = op.up /\ op'.id \in used
  BY <1>1, <1>2 DEF Responding, AuthInv, FreshIds
<1>4. TypeOK' /\ SameShape' /\ FreshIds' /\ Counters' /\ OneEach' /\ KeysInv'
  BY <1>1, <1>2, <1>3, RemainingFacts, OpOnly
<1>5. Quiet' /\ Copies'
  BY <1>1, <1>2, <1>3, RemainingFacts DEF AuthInv, Quiet, Copies, PendingFresh, store, ghosts
<1> QED
  BY <1>4, <1>5 DEF AuthInv

(* The row of c gets a new counter in memory, and on disk or not.          *)
LEMMA CountedStep ==
  ASSUME AuthInv, running, UNCHANGED <<running, keys, used, sent, reused, doomed>>,
         op.kind \in {"assert", "next", "u2f"}, op.up, NEW c \in DOMAIN op.creds,
         op.creds[c].count < MaxCount, rows[c] # NoRow,
         rows' = Counted(rows, c, op.creds[c].count + 1), disk' \in {disk, rows'}, Race(c),
         \/ op' = Idle /\ pending' \in {pending, NoPending}
                      /\ (op.kind = "assert" => pending' = NoPending)
         \/ /\ op' = [kind |-> "respond", id |-> c, count |-> op.creds[c].count + 1, up |-> op.up]
            /\ disk' = rows' /\ pending' = Remaining(c)
  PROVE  AuthInv'
<1> DEFINE n == op.creds[c].count + 1
<1>1. /\ c \in Creds /\ n \in 1 .. MaxCount
      /\ c \in raced \/ rows[c].count + 1 = n
      /\ op.up \in BOOLEAN
  BY SigningFacts, AuthenticatorAssumption
<1>2. rows \in RowsOrNone /\ disk \in RowsOrNone
  BY DEF AuthInv, TypeOK
<1>3. /\ rows' \in RowsOrNone /\ rows'[c] # NoRow /\ rows'[c].count = n
      /\ rows'[c].rp = rows[c].rp /\ rows'[c].user = rows[c].user
      /\ \A d \in Creds : d # c => rows'[d] = rows[d]
  <2>1. rows' = Counted(rows, c, n)
    OBVIOUS
  <2> HIDE DEF n
  <2> QED
    BY <1>1, <1>2, <2>1, RowUpdate
<1>4. raced \subseteq raced' /\ raced' \subseteq raced \cup {c}
      /\ (op.kind = "u2f" /\ c \in DOMAIN pending.creds => c \in raced')
  BY DEF Race
<1>5. /\ op' \in Responding \cup {Idle}
      /\ op'.kind \in {"respond", "idle"}
      /\ op'.kind = "respond" => op'.id = c /\ op'.count = n /\ disk' = rows' /\ op'.up
  <2>1. CASE op' = Idle
    BY <2>1 DEF Idle
  <2>2. CASE /\ op' = [kind |-> "respond", id |-> c, count |-> n, up |-> op.up]
             /\ disk' = rows'
    <3> HIDE DEF n
    <3> QED
      BY <1>1, <2>2 DEF Responding
  <2> QED
    BY <2>1, <2>2
<1> HIDE DEF n
<1>6. pending' \in [creds : Snapshots, up : BOOLEAN]
  BY RemainingFacts, SnapshotFacts DEF AuthInv, TypeOK
<1>7. TypeOK'
  BY <1>1, <1>2, <1>3, <1>4, <1>5, <1>6 DEF AuthInv, TypeOK
<1>8. Quiet'
  BY <1>5 DEF AuthInv, Quiet
<1>9. Stored(rows)' = Stored(rows) /\ Stored(disk)' = Stored(disk)
  <2>1. \A d \in Creds : rows[d] = NoRow <=> disk[d] = NoRow
    BY DEF AuthInv, SameShape
  <2>2. \A d \in Creds : rows'[d] = NoRow <=> rows[d] = NoRow
    BY <1>3
  <2> QED
    BY <2>1, <2>2 DEF Stored
<1>10. SameShape'
  BY <1>3, <1>5 DEF AuthInv, SameShape
<1>11. FreshIds'
  <2>1. c \in used
    BY <1>1 DEF AuthInv, FreshIds, Stored
  <2> QED
    BY <1>5, <1>9, <2>1 DEF AuthInv, FreshIds, IsMaking
<1>12. Copies'
  <2>1. \A d \in DOMAIN pending'.creds : d \in raced' \/ rows'[d] = pending'.creds[d]
    <3>1. CASE pending' = NoPending
      BY <3>1, SnapshotFacts
    <3>2. CASE pending' = pending /\ op.kind # "assert"
      BY <3>2, <1>3, <1>4, SnapshotFacts DEF AuthInv, Copies, PendingFresh, TypeOK
    <3>3. CASE pending' = Remaining(c)
      BY <3>3, <1>3, <1>4, <1>6, RemainingFacts, SnapshotFacts
    <3> QED
      BY <3>1, <3>2, <3>3
  <2> QED
    BY <1>5, <2>1 DEF Copies, PendingFresh
<1>13. Counters'
  <2>1. \A d \in Creds \ raced' : Covers(rows, d, sent[d])' /\ Covers(disk, d, sent[d])'
    BY <1>1, <1>2, <1>3, <1>4 DEF AuthInv, Counters, Covers, TypeOK, RowsOrNone, Rows
  <2>2. op'.kind = "respond" /\ op'.up /\ op'.id \notin raced' =>
          sent'[op'.id] < op'.count /\ Covers(rows, op.id, op.count)' /\ Covers(disk, op.id, op.count)'
    BY <1>1, <1>2, <1>3, <1>4, <1>5 DEF AuthInv, Counters, Covers, TypeOK, RowsOrNone, Rows
  <2> QED
    BY <1>4, <2>1, <2>2 DEF AuthInv, Counters
<1>14. OneEach'
  <2>1. \A d \in Creds : /\ rows'[d] = NoRow <=> rows[d] = NoRow
                         /\ rows'[d] # NoRow => /\ rows'[d].rp = rows[d].rp
                                               /\ rows'[d].user = rows[d].user
    BY <1>3
  <2>2. \A r \in {rows, disk} : \A b, d \in Stored(r) :
          (b # d /\ r[b].user # None /\ r[b].rp = r[d].rp /\ r[b].user = r[d].user)
            => b \in doomed \/ d \in doomed
    BY DEF AuthInv, OneEach, OnePerUser
  <2>3. \A b, d \in Stored(rows') :
          (b # d /\ rows'[b].user # None /\ rows'[b].rp = rows'[d].rp /\ rows'[b].user = rows'[d].user)
            => b \in doomed \/ d \in doomed
    BY <2>1, <2>2 DEF Stored
  <2>4. OnePerUser'
    BY <2>2, <2>3 DEF OnePerUser, Stored
  <2> QED
    BY <1>5, <2>4 DEF OneEach, IsMaking
<1>15. KeysInv'
  BY <1>5, <1>9 DEF AuthInv, KeysInv, RowsHaveKeys, IsMaking
<1> QED
  BY <1>7, <1>8, <1>10, <1>11, <1>12, <1>13, <1>14, <1>15 DEF AuthInv

LEMMA SignStep ==
  ASSUME AuthInv, NEW c \in Creds, SignBumped(c) \/ SignUnflushed(c)
  PROVE  AuthInv'
<1>1. /\ op.kind \in {"assert", "next", "u2f"} /\ c \in DOMAIN op.creds /\ op.up
      /\ op.creds[c].count < MaxCount /\ rows[c] # NoRow /\ Race(c)
      /\ UNCHANGED <<running, keys, used, sent, reused, doomed>>
      /\ rows' = Counted(rows, c, op.creds[c].count + 1)
  BY DEF SignBumped, SignUnflushed, UpdateCount, Persist, Counted
<1>2. /\ disk' \in {disk, rows'}
      /\ \/ op' = Idle /\ pending' \in {pending, NoPending}
                       /\ (op.kind = "assert" => pending' = NoPending)
         \/ /\ op' = [kind |-> "respond", id |-> c, count |-> op.creds[c].count + 1, up |-> op.up]
            /\ disk' = rows' /\ pending' = Remaining(c)
  BY DEF SignBumped, SignUnflushed, UpdateCount, Persist, FlushFails, Respond
<1>3. running
  BY <1>1, SigningFacts
<1> QED
  BY <1>1, <1>2, <1>3, CountedStep

LEMMA SendStep ==
  ASSUME AuthInv, Send
  PROVE  AuthInv'
<1>1. op.kind = "respond" /\ op' = Idle
      /\ UNCHANGED <<running, store, keys, pending, used, raced, doomed>>
  BY DEF Send
<1>2. op \in Responding /\ running
  BY <1>1, OpKinds DEF AuthInv, TypeOK, Ops, Quiet, Idle
<1>3. op.id \in Creds /\ op.count \in 1 .. MaxCount /\ op.up \in BOOLEAN /\ sent \in [Creds -> 0 .. MaxCount]
  BY <1>2 DEF Responding, AuthInv, TypeOK
<1>4. /\ sent' \in [Creds -> 0 .. MaxCount] /\ \A c \in Creds : c # op.id => sent'[c] = sent[c]
      /\ sent'[op.id] \in {sent[op.id], op.count} /\ (~op.up => sent' = sent)
  BY <1>3, AuthenticatorAssumption DEF Send
<1>5. /\ reused' \subseteq reused \cup {op.id}
      /\ op.id \in reused' => op.id \in reused \/ (op.up /\ op.count <= sent[op.id])
  BY <1>3 DEF Send
<1>6. TypeOK'
  BY <1>1, <1>3, <1>4, <1>5 DEF AuthInv, TypeOK, store
<1>7. Quiet' /\ Copies' /\ SameShape'
  BY <1>1, <1>2 DEF AuthInv, Quiet, Copies, PendingFresh, SameShape, Idle, store
<1>8. FreshIds'
  <2>1. op.id \in used
    BY <1>1 DEF AuthInv, FreshIds
  <2> QED
    BY <1>1, <1>3, <1>4, <2>1 DEF AuthInv, FreshIds, IsMaking, Stored, Idle, store
<1>9. Counters'
  BY <1>1, <1>3, <1>4, <1>5 DEF AuthInv, Counters, Covers, Idle, store
<1>10. OneEach' /\ KeysInv'
  BY <1>1 DEF AuthInv, OneEach, OnePerUser, OfUser, KeysInv, RowsHaveKeys, IsMaking,
              Stored, Idle, store
<1> QED
  BY <1>6, <1>7, <1>8, <1>9, <1>10 DEF AuthInv

-----------------------------------------------------------------------------
(* Starting, stopping, other commands.                                     *)

LEMMA StartStep ==
  ASSUME AuthInv, Start
  PROVE  AuthInv'
<1>1. /\ ~running /\ running' /\ rows' = disk /\ op = Idle /\ pending = NoPending
      /\ UNCHANGED <<disk, keys, pending, op, ghosts>>
  BY DEF Start, AuthInv, Quiet, TypeOK
<1>2. op.kind = "idle"
  BY <1>1 DEF Idle
<1>3. TypeOK'
  BY <1>1 DEF Start, AuthInv, TypeOK, ghosts
<1>4. Quiet' /\ SameShape'
  BY <1>1, <1>2 DEF Quiet, SameShape
<1>5. FreshIds'
  BY <1>1, <1>2 DEF AuthInv, FreshIds, IsMaking, Stored, ghosts
<1>6. Copies' /\ Counters'
  BY <1>1, <1>2, SnapshotFacts DEF AuthInv, Copies, PendingFresh, Counters, Covers, ghosts
<1>7. OneEach'
  BY <1>1, <1>2 DEF AuthInv, OneEach, OnePerUser, IsMaking, Stored, ghosts
<1>8. KeysInv'
  <2>1. Stored(rows) = {}
    BY <1>1, RowFacts DEF AuthInv, Quiet
  <2>2. Stored(rows)' = Stored(disk) /\ Stored(disk)' = Stored(disk)
    BY <1>1 DEF Stored
  <2> QED
    BY <1>1, <1>2, <2>1, <2>2 DEF AuthInv, KeysInv, RowsHaveKeys, IsMaking, ghosts
<1> QED
  BY <1>3, <1>4, <1>5, <1>6, <1>7, <1>8 DEF AuthInv

(* While a command runs, memory has no row that the disk lacks.            *)
LEMMA StoredRows ==
  ASSUME AuthInv
  PROVE  /\ Stored(rows) \subseteq Stored(disk)
         /\ running /\ op.kind # "reset" => Stored(rows) = Stored(disk)
<1>1. CASE running /\ op.kind # "reset"
  BY <1>1 DEF AuthInv, SameShape, Stored
<1>2. CASE ~running \/ op.kind = "reset"
  BY <1>2, RowFacts DEF AuthInv, Quiet
<1> QED
  BY <1>1, <1>2

LEMMA CrashStep ==
  ASSUME AuthInv, Crash
  PROVE  AuthInv'
<1>1. /\ running /\ ~running' /\ rows' = NoRows /\ pending' = NoPending /\ op' = Idle
      /\ UNCHANGED <<disk, keys, used, sent, reused, raced, doomed>>
  BY DEF Crash, ghosts
<1>2. op'.kind = "idle"
  BY <1>1 DEF Idle
<1>3. IsMaking => op.id \in Creds /\ op.keyed \in BOOLEAN
  BY OpKinds DEF IsMaking, AuthInv, TypeOK, Ops, Making
<1>4. TypeOK'
  BY <1>1, <1>3, SnapshotFacts, RowFacts DEF Crash, AuthInv, TypeOK
<1>5. Quiet' /\ SameShape'
  BY <1>1, <1>2 DEF Quiet, SameShape
<1>6. Stored(rows)' = {} /\ Stored(disk)' = Stored(disk)
  BY <1>1, RowFacts DEF Stored
<1>7. FreshIds'
  BY <1>1, <1>2, <1>6 DEF AuthInv, FreshIds, IsMaking
<1>8. Copies' /\ Counters'
  BY <1>1, <1>2, SnapshotFacts, RowFacts DEF AuthInv, Copies, PendingFresh, Counters, Covers
<1>9. OneEach'
  BY <1>1, <1>2, <1>6 DEF AuthInv, OneEach, OnePerUser, IsMaking
<1>10. RowsHaveKeys'
  BY <1>1, <1>6 DEF AuthInv, KeysInv, RowsHaveKeys
<1> QED
  BY <1>1, <1>2, <1>4, <1>5, <1>7, <1>8, <1>9, <1>10 DEF AuthInv, KeysInv, IsMaking

LEMMA OtherCommandStep ==
  ASSUME AuthInv, OtherCommand
  PROVE  AuthInv'
<1>1. /\ running /\ op = Idle /\ pending' = NoPending /\ disk' \in {disk, rows}
      /\ UNCHANGED <<running, rows, keys, op, ghosts>>
  BY DEF OtherCommand, Ready
<1>2. op.kind = "idle"
  BY <1>1 DEF Idle
<1>3. TypeOK'
  BY <1>1, SnapshotFacts DEF AuthInv, TypeOK, ghosts
<1>4. Quiet' /\ SameShape'
  BY <1>1, <1>2 DEF AuthInv, Quiet, SameShape
<1>5. Stored(rows) = Stored(disk) /\ Stored(disk)' = Stored(disk) /\ Stored(rows)' = Stored(rows)
  BY <1>1, <1>2, StoredRows DEF Stored
<1>6. FreshIds'
  BY <1>1, <1>2, <1>5 DEF AuthInv, FreshIds, IsMaking, ghosts
<1>7. Copies' /\ Counters'
  BY <1>1, <1>2, SnapshotFacts DEF AuthInv, Copies, PendingFresh, Counters, Covers, ghosts
<1>8. OneEach'
  BY <1>1, <1>2 DEF AuthInv, OneEach, OnePerUser, IsMaking, Stored, ghosts
<1>9. KeysInv'
  BY <1>1, <1>2, <1>5 DEF AuthInv, KeysInv, RowsHaveKeys, IsMaking, ghosts
<1> QED
  BY <1>3, <1>4, <1>6, <1>7, <1>8, <1>9 DEF AuthInv

-----------------------------------------------------------------------------
(* Making a credential.                                                    *)

LEMMA MakingFacts ==
  ASSUME AuthInv, op.kind \in {"make", "register"}
  PROVE  /\ op \in Making /\ running /\ op.id \in Creds /\ op.rp \in Rps
         /\ op.user \in Users \cup {None} /\ op.olds \subseteq Creds /\ op.old \subseteq Creds
         /\ op.keyed \in BOOLEAN
<1>1. op \in Making
  BY OpKinds DEF AuthInv, TypeOK, Ops
<1> QED
  BY <1>1 DEF Making, AuthInv, Quiet, TypeOK, Idle

LEMMA BeginMakingStep ==
  ASSUME AuthInv, NEW c \in Creds, NEW rp \in Rps,
         (\E user \in Users : MakeCredential(c, rp, user)) \/ U2fRegister(c, rp)
  PROVE  AuthInv'
<1>1. PICK k \in {"make", "register"}, user \in Users \cup {None} :
        /\ op' = [kind |-> k, keyed |-> FALSE, id |-> c, rp |-> rp, user |-> user,
                  olds |-> {}, old |-> {}]
        /\ pending' = (IF k = "make" THEN NoPending ELSE pending)
  BY DEF MakeCredential, U2fRegister
<1>2. /\ running /\ op = Idle /\ c \notin used /\ used' = used \cup {c}
      /\ UNCHANGED <<running, store, keys, sent, reused, raced, doomed>>
  BY DEF MakeCredential, U2fRegister, Ready
<1>3. op' \in Making
  BY <1>1 DEF Making
<1>4. /\ op'.kind = k /\ ~op'.keyed /\ op'.id = c /\ op'.olds = {} /\ op'.old = {}
      /\ op.kind = "idle"
  BY <1>1, <1>2 DEF Idle
<1>5. TypeOK'
  BY <1>1, <1>2, <1>3, SnapshotFacts DEF AuthInv, TypeOK, store
<1>6. Quiet' /\ SameShape'
  BY <1>1, <1>2, <1>4 DEF AuthInv, Quiet, SameShape, store
<1>7. FreshIds'
  BY <1>2, <1>4 DEF AuthInv, FreshIds, IsMaking, Stored, store
<1>8. Copies' /\ Counters'
  BY <1>1, <1>2, <1>4, SnapshotFacts DEF AuthInv, Copies, PendingFresh, Counters, Covers, store
<1>9. OneEach'
  BY <1>2, <1>4 DEF AuthInv, OneEach, OnePerUser, IsMaking, Stored, store
<1>10. KeysInv'
  BY <1>2, <1>4 DEF AuthInv, KeysInv, RowsHaveKeys, IsMaking, Stored, store
<1> QED
  BY <1>5, <1>6, <1>7, <1>8, <1>9, <1>10 DEF AuthInv

LEMMA GenerateStep ==
  ASSUME AuthInv, Generate
  PROVE  AuthInv'
<1>1. /\ op.kind \in {"make", "register"} /\ ~op.keyed /\ keys' = keys \cup {op.id}
      /\ disk' \in {disk, rows}
      /\ UNCHANGED <<running, rows, pending, used, sent, reused, raced, doomed>>
  BY DEF Generate, ghosts
<1>2. /\ op \in Making /\ running /\ op.id \in Creds
      /\ op.old \subseteq Creds /\ op.olds \subseteq Creds
  BY <1>1, MakingFacts
<1>3. Replaced(op.rp, op.user) \subseteq Stored(rows) /\ op.id \notin Replaced(op.rp, op.user)
  BY <1>1 DEF Replaced, SameUser, AuthInv, FreshIds, IsMaking
<1>4. Stored(rows) = Stored(disk) /\ Stored(disk)' = Stored(disk) /\ Stored(rows)' = Stored(rows)
  BY <1>1, <1>2, StoredRows DEF Stored
<1>5. \/ op' = [op EXCEPT !.keyed = TRUE, !.olds = Replaced(op.rp, op.user)]
      \/ op' = Idle
  BY DEF Generate
<1>6. CASE op' = [op EXCEPT !.keyed = TRUE, !.olds = Replaced(op.rp, op.user)]
  <2>1. /\ op' \in Making /\ op'.kind = op.kind /\ op'.id = op.id /\ op'.rp = op.rp
        /\ op'.user = op.user /\ op'.olds = Replaced(op.rp, op.user) /\ op'.old = op.old
        /\ op'.keyed = TRUE
    BY <1>2, <1>3, <1>6 DEF Making, Stored
  <2>2. TypeOK'
    BY <1>1, <1>2, <1>6, <2>1 DEF AuthInv, TypeOK
  <2>3. Quiet' /\ SameShape'
    BY <1>1, <1>2, <2>1 DEF AuthInv, Quiet, SameShape
  <2>4. FreshIds'
    BY <1>1, <1>2, <1>3, <1>4, <2>1 DEF AuthInv, FreshIds, IsMaking
  <2>5. Copies' /\ Counters'
    BY <1>1, <2>1 DEF AuthInv, Copies, PendingFresh, Counters, Covers
  <2>6. OneEach'
    <3>1. OnePerUser'
      BY <1>1, <1>4 DEF AuthInv, OneEach, OnePerUser
    <3>2. \A c \in Creds : OfUser(disk, c, op.rp, op.user) => OfUser(rows, c, op.rp, op.user)
      BY <1>1, <1>2 DEF OfUser, AuthInv, SameShape
    <3>3. op.user # None =>
            \A c \in Creds : OfUser(rows, c, op.rp, op.user) => c \in Replaced(op.rp, op.user)
      BY DEF OfUser, Replaced, SameUser, Stored
    <3> QED
      BY <1>1, <2>1, <3>1, <3>2, <3>3 DEF OneEach, OfUser
  <2>7. KeysInv'
    BY <1>1, <1>4, <1>6, <2>1 DEF AuthInv, KeysInv, FreshIds, RowsHaveKeys, IsMaking
  <2> QED
    BY <2>2, <2>3, <2>4, <2>5, <2>6, <2>7 DEF AuthInv
<1>7. CASE op' = Idle
  <2>1. op'.kind = "idle"
    BY <1>7 DEF Idle
  <2>2. TypeOK'
    BY <1>1, <1>2, <1>7 DEF AuthInv, TypeOK
  <2>3. Quiet' /\ SameShape'
    BY <1>1, <1>2, <2>1 DEF AuthInv, Quiet, SameShape
  <2>4. FreshIds'
    BY <1>1, <1>2, <1>4, <2>1 DEF AuthInv, FreshIds, IsMaking
  <2>5. Copies' /\ Counters'
    BY <1>1, <2>1 DEF AuthInv, Copies, PendingFresh, Counters, Covers
  <2>6. OneEach'
    BY <1>1, <1>4, <2>1 DEF AuthInv, OneEach, OnePerUser, IsMaking
  <2>7. KeysInv'
    BY <1>1, <1>4, <1>7, <2>1 DEF AuthInv, KeysInv, RowsHaveKeys, IsMaking
  <2> QED
    BY <2>2, <2>3, <2>4, <2>5, <2>6, <2>7 DEF AuthInv
<1> QED
  BY <1>5, <1>6, <1>7

LEMMA ReplaceStep ==
  ASSUME AuthInv, NEW c \in Creds, Replace(c)
  PROVE  AuthInv'
<1>1. /\ op.kind = "make" /\ op.old = {} /\ c \in op.olds
      /\ keys' \subseteq keys /\ keys \ keys' \subseteq {c}
      /\ op' = [op EXCEPT !.old = {c}, !.olds = @ \ {c}] /\ doomed' = doomed \cup {c}
      /\ UNCHANGED <<running, store, pending, used, sent, reused, raced>>
  BY DEF Replace, DestroyKeys
<1>2. op \in Making /\ running /\ op.olds \subseteq Creds /\ op.id \in Creds
  BY <1>1, MakingFacts
<1>3. /\ op' \in Making /\ op'.kind = op.kind /\ op'.id = op.id /\ op'.rp = op.rp
      /\ op'.user = op.user /\ op'.olds = op.olds \ {c} /\ op'.old = {c} /\ op'.keyed = op.keyed
  BY <1>1, <1>2 DEF Making
<1>4. c # op.id
  BY <1>1 DEF AuthInv, FreshIds, IsMaking
<1>5. TypeOK'
  BY <1>1, <1>3 DEF AuthInv, TypeOK, store
<1>6. Quiet' /\ SameShape'
  BY <1>1, <1>2, <1>3 DEF AuthInv, Quiet, SameShape, store
<1>7. FreshIds'
  BY <1>1, <1>3, <1>4 DEF AuthInv, FreshIds, IsMaking, Stored, store
<1>8. Copies' /\ Counters'
  BY <1>1, <1>3 DEF AuthInv, Copies, PendingFresh, Counters, Covers, store
<1>9. OneEach'
  BY <1>1, <1>3 DEF AuthInv, OneEach, OnePerUser, OfUser, IsMaking, Stored, store
<1>10. KeysInv'
  <2>1. Stored(rows)' = Stored(rows) /\ Stored(disk)' = Stored(disk)
    BY <1>1 DEF Stored, store
  <2>2. RowsHaveKeys'
    BY <1>1, <1>3, <2>1 DEF AuthInv, KeysInv, RowsHaveKeys, IsMaking
  <2> QED
    BY <1>1, <1>3, <1>4, <2>2 DEF AuthInv, KeysInv, IsMaking
<1> QED
  BY <1>5, <1>6, <1>7, <1>8, <1>9, <1>10 DEF AuthInv

(* A row is erased, in memory and on disk, or neither.                     *)
LEMMA EraseFacts ==
  ASSUME AuthInv, running, op.kind # "reset", NEW c \in Creds,
         \/ rows' = [rows EXCEPT ![c] = NoRow] /\ disk' = rows'
         \/ UNCHANGED <<rows, disk>>
  PROVE  /\ rows' \in RowsOrNone /\ disk' \in RowsOrNone
         /\ \A d \in Creds : /\ rows'[d] \in {rows[d], NoRow}
                             /\ disk'[d] \in {rows[d], disk[d], NoRow}
                             /\ d # c => (rows'[d] = NoRow <=> rows[d] = NoRow)
                             /\ rows'[d] = NoRow <=> disk'[d] = NoRow
         /\ Stored(rows)' \subseteq Stored(rows) /\ Stored(rows)' \cup {c} = Stored(rows) \cup {c}
         /\ Stored(disk)' = Stored(rows)' /\ Stored(disk) = Stored(rows)
<1>1. rows \in RowsOrNone /\ disk \in RowsOrNone
  BY DEF AuthInv, TypeOK
<1>2. \A d \in Creds : rows[d] = NoRow <=> disk[d] = NoRow
  BY DEF AuthInv, SameShape
<1>3. CASE rows' = [rows EXCEPT ![c] = NoRow] /\ disk' = rows'
  BY <1>1, <1>2, <1>3 DEF RowsOrNone, Stored
<1>4. CASE UNCHANGED <<rows, disk>>
  BY <1>1, <1>2, <1>4 DEF Stored
<1> QED
  BY <1>3, <1>4

LEMMA ReplaceEraseStep ==
  ASSUME AuthInv, NEW c \in Creds, ReplaceErase(c)
  PROVE  AuthInv'
<1>1. /\ op.kind = "make" /\ c \in op.old /\ op' = [op EXCEPT !.old = {}]
      /\ \/ rows' = [rows EXCEPT ![c] = NoRow] /\ disk' = rows'
         \/ UNCHANGED <<rows, disk>>
      /\ UNCHANGED <<running, keys, pending, ghosts>>
  BY DEF ReplaceErase, Persist, FlushFails
<1>2. op \in Making /\ running /\ op.id \in Creds /\ pending = NoPending
  BY <1>1, MakingFacts DEF AuthInv, Quiet
<1>3. /\ op' \in Making /\ op'.kind = op.kind /\ op'.id = op.id /\ op'.rp = op.rp
      /\ op'.user = op.user /\ op'.olds = op.olds /\ op'.old = {} /\ op'.keyed = op.keyed
  BY <1>1, <1>2 DEF Making
<1> DEFINE E == /\ rows' \in RowsOrNone /\ disk' \in RowsOrNone
                /\ \A d \in Creds : /\ rows'[d] \in {rows[d], NoRow}
                                    /\ disk'[d] \in {rows[d], disk[d], NoRow}
                                    /\ rows'[d] = NoRow <=> disk'[d] = NoRow
                /\ Stored(rows)' \subseteq Stored(rows)
                /\ Stored(rows)' \cup {c} = Stored(rows) \cup {c}
                /\ Stored(disk)' = Stored(rows)' /\ Stored(disk) = Stored(rows)
<1>4. E
  BY <1>1, <1>2, EraseFacts
<1>5. TypeOK'
  BY <1>1, <1>3, <1>4 DEF AuthInv, TypeOK, ghosts
<1>6. Quiet'
  BY <1>1, <1>2, <1>3 DEF AuthInv, Quiet
<1>7. SameShape'
  BY <1>1, <1>2, <1>4 DEF AuthInv, SameShape
<1>8. FreshIds'
  BY <1>1, <1>3, <1>4 DEF AuthInv, FreshIds, IsMaking, ghosts
<1>9. Copies' /\ Counters'
  BY <1>1, <1>2, <1>3, <1>4, SnapshotFacts DEF AuthInv, Copies, PendingFresh, Counters, Covers, ghosts
<1>10. OneEach'
  BY <1>1, <1>3, <1>4 DEF AuthInv, OneEach, OnePerUser, OfUser, IsMaking, Stored, ghosts
<1>11. KeysInv'
  BY <1>1, <1>3, <1>4 DEF AuthInv, KeysInv, RowsHaveKeys, IsMaking, ghosts
<1> QED
  BY <1>5, <1>6, <1>7, <1>8, <1>9, <1>10, <1>11 DEF AuthInv

LEMMA PutStep ==
  ASSUME AuthInv, Put
  PROVE  AuthInv'
<1> DEFINE row == NewRow(op.rp, op.user)
<1>1. /\ op.kind \in {"make", "register"} /\ op.keyed /\ op.olds = {}
      /\ rows' = [rows EXCEPT ![op.id] = row] /\ disk' = rows'
      /\ UNCHANGED <<running, keys, pending, ghosts>>
      /\ \/ op.kind = "make" /\ op' = [kind |-> "respond", id |-> op.id, count |-> 1, up |-> TRUE]
         \/ op' = Idle
  BY DEF Put, Persist
<1>2. op \in Making /\ running /\ op.id \in Creds /\ op.rp \in Rps /\ op.user \in Users \cup {None}
  BY <1>1, MakingFacts
<1>3. row \in Rows /\ row.rp = op.rp /\ row.user = op.user /\ row.count = 1 /\ row # NoRow
  <2>1. row \in Rows /\ row.rp = op.rp /\ row.user = op.user /\ row.count = 1
    BY <1>2, AuthenticatorAssumption DEF NewRow, Rows
  <2> QED
    BY <2>1, RowFacts
<1> HIDE DEF row
<1>4. /\ rows' \in RowsOrNone /\ rows'[op.id] = row
      /\ \A c \in Creds : c # op.id => rows'[c] = rows[c]
  BY <1>1, <1>2, <1>3 DEF AuthInv, TypeOK, RowsOrNone
<1>5. /\ op' \in Responding \cup {Idle} /\ op'.kind \in {"respond", "idle"}
      /\ op'.kind = "respond" => /\ op' \in Responding /\ op'.id = op.id /\ op'.count = 1
                                 /\ op.kind = "make"
  <2>1. CASE op' = Idle
    BY <2>1 DEF Idle
  <2>2. CASE op.kind = "make" /\ op' = [kind |-> "respond", id |-> op.id, count |-> 1, up |-> TRUE]
    <3>1. 1 \in 1 .. MaxCount
      BY AuthenticatorAssumption
    <3>2. op' \in Responding
      BY <1>2, <2>2, <3>1 DEF Responding
    <3> QED
      BY <2>2, <3>2
  <2> QED
    BY <1>1, <2>1, <2>2
<1>6. /\ op.id \in used /\ op.id \notin Stored(rows) /\ sent[op.id] = 0
      /\ Stored(rows) = Stored(disk)
  BY <1>1, <1>2, StoredRows DEF AuthInv, FreshIds, IsMaking
<1>7. Stored(rows)' = Stored(rows) \cup {op.id} /\ Stored(disk)' = Stored(rows)'
  BY <1>1, <1>2, <1>3, <1>4 DEF Stored
<1>8. TypeOK'
  BY <1>1, <1>4, <1>5 DEF AuthInv, TypeOK, ghosts
<1>9. Quiet'
  BY <1>1, <1>2, <1>5 DEF AuthInv, Quiet
<1>10. SameShape'
  BY <1>1 DEF SameShape
<1>11. FreshIds'
  BY <1>1, <1>5, <1>6, <1>7 DEF AuthInv, FreshIds, IsMaking, ghosts
<1>12. Copies'
  <2>1. ASSUME NEW c \in DOMAIN pending.creds
        PROVE  c \in raced \/ rows'[c] = pending.creds[c]
    <3>1. pending.creds \in Snapshots
      BY DEF AuthInv, TypeOK
    <3>2. c \in Creds /\ pending.creds[c] \in Rows
      BY <3>1, SnapshotFacts
    <3>3. c \in raced \/ rows[c] = pending.creds[c]
      BY DEF AuthInv, Copies, PendingFresh
    <3>4. c \in raced \/ c # op.id
      BY <1>6, <3>2, <3>3, RowFacts DEF Stored
    <3> QED
      BY <1>4, <3>2, <3>3, <3>4
  <2> QED
    BY <1>1, <1>5, <2>1 DEF Copies, PendingFresh, ghosts
<1>13. Counters'
  <2>1. \A c \in Creds \ raced : Covers(rows', c, sent[c])
    BY <1>3, <1>4, <1>6 DEF AuthInv, Counters, Covers
  <2>2. Covers(rows', op.id, 1) /\ sent[op.id] < 1
    BY <1>3, <1>4, <1>6 DEF Covers
  <2> QED
    BY <1>1, <1>5, <2>1, <2>2 DEF AuthInv, Counters, Covers, ghosts
<1>14. OneEach'
  <2>1. op.user # None => \A c \in Creds : OfUser(rows, c, op.rp, op.user) => c \in doomed
    BY <1>1 DEF AuthInv, OneEach, IsMaking
  <2>2. \A c, d \in Stored(rows) :
          (c # d /\ rows[c].user # None /\ rows[c].rp = rows[d].rp /\ rows[c].user = rows[d].user)
            => c \in doomed \/ d \in doomed
    BY DEF AuthInv, OneEach, OnePerUser
  <2>3. ASSUME NEW c \in Stored(rows)', NEW d \in Stored(rows)', c # d, rows'[c].user # None,
               rows'[c].rp = rows'[d].rp, rows'[c].user = rows'[d].user
        PROVE  c \in doomed \/ d \in doomed
    <3>1. CASE c = op.id
      BY <1>3, <1>4, <1>7, <2>1, <2>3, <3>1 DEF OfUser, Stored
    <3>2. CASE d = op.id
      BY <1>3, <1>4, <1>7, <2>1, <2>3, <3>2 DEF OfUser, Stored
    <3>3. CASE c # op.id /\ d # op.id
      <4>1. c \in Stored(rows) /\ d \in Stored(rows) /\ rows'[c] = rows[c] /\ rows'[d] = rows[d]
        BY <1>4, <1>7, <3>3 DEF Stored
      <4> QED
        BY <2>2, <2>3, <4>1
    <3> QED
      BY <3>1, <3>2, <3>3
  <2>4. OnePerUser'
    <3> SUFFICES ASSUME NEW r \in {rows', disk'}, NEW c \in Stored(r), NEW d \in Stored(r), c # d,
                        r[c].user # None, r[c].rp = r[d].rp, r[c].user = r[d].user
                 PROVE  c \in doomed \/ d \in doomed
      BY <1>1 DEF OnePerUser, Stored, ghosts
    <3>1. r = rows' /\ Stored(r) = Stored(rows)'
      BY <1>1 DEF Stored
    <3> QED
      BY <2>3, <3>1
  <2> QED
    BY <1>5, <2>4 DEF OneEach, IsMaking
<1>15. KeysInv'
  <2>1. op.id \in keys
    BY <1>1 DEF AuthInv, KeysInv, IsMaking
  <2> QED
    BY <1>1, <1>5, <1>6, <1>7, <2>1 DEF AuthInv, KeysInv, RowsHaveKeys, IsMaking, ghosts
<1> QED
  BY <1>8, <1>9, <1>10, <1>11, <1>12, <1>13, <1>14, <1>15 DEF AuthInv

LEMMA PutFailsStep ==
  ASSUME AuthInv, PutFails
  PROVE  AuthInv'
<1>1. /\ op.kind \in {"make", "register"} /\ op' = Idle
      /\ keys' \subseteq keys /\ keys \ keys' \subseteq {op.id}
      /\ UNCHANGED <<running, store, pending, ghosts>>
  BY DEF PutFails, FlushFails, DestroyKeys, store
<1>2. running /\ op.id \in Creds /\ op'.kind = "idle"
  BY <1>1, MakingFacts DEF Idle
<1>3. op.id \notin Stored(rows) \cup Stored(disk)
  BY <1>1 DEF AuthInv, FreshIds, IsMaking
<1>4. Stored(rows)' = Stored(rows) /\ Stored(disk)' = Stored(disk)
  BY <1>1 DEF Stored, store
<1>5. TypeOK'
  BY <1>1 DEF AuthInv, TypeOK, store, ghosts
<1>6. Quiet' /\ SameShape' /\ FreshIds'
  BY <1>1, <1>2, <1>4 DEF AuthInv, Quiet, SameShape, FreshIds, IsMaking, store, ghosts
<1>7. Copies' /\ Counters'
  BY <1>1, <1>2 DEF AuthInv, Copies, PendingFresh, Counters, Covers, store, ghosts
<1>8. OneEach'
  BY <1>1, <1>2 DEF AuthInv, OneEach, OnePerUser, IsMaking, Stored, store, ghosts
<1>9. KeysInv'
  BY <1>1, <1>2, <1>3, <1>4 DEF AuthInv, KeysInv, RowsHaveKeys, IsMaking, ghosts
<1> QED
  BY <1>5, <1>6, <1>7, <1>8, <1>9 DEF AuthInv

-----------------------------------------------------------------------------
(* Deletion and reset.                                                     *)

LEMMA CtlDeleteStep ==
  ASSUME AuthInv, NEW c \in Creds, CtlDelete(c)
  PROVE  AuthInv'
<1>1. /\ running /\ op = Idle /\ pending' = NoPending
      /\ keys' \subseteq keys /\ keys \ keys' \subseteq {c}
      /\ op' = [kind |-> "delete", id |-> c] /\ doomed' = doomed \cup {c} /\ rows[c] # NoRow
      /\ UNCHANGED <<running, store, used, sent, reused, raced>>
  BY DEF CtlDelete, Ready, DestroyKeys
<1>2. op.kind = "idle" /\ op'.kind = "delete" /\ op'.id = c /\ op' \in Deleting
  BY <1>1 DEF Idle, Deleting
<1>3. Stored(rows)' = Stored(rows) /\ Stored(disk)' = Stored(disk) /\ c \in Stored(rows)
  BY <1>1 DEF Stored, store
<1>4. TypeOK'
  BY <1>1, <1>2, SnapshotFacts DEF AuthInv, TypeOK, store
<1>5. Quiet' /\ SameShape' /\ FreshIds'
  BY <1>1, <1>2, <1>3 DEF AuthInv, Quiet, SameShape, FreshIds, IsMaking, store
<1>6. Copies' /\ Counters'
  BY <1>1, <1>2, SnapshotFacts DEF AuthInv, Copies, PendingFresh, Counters, Covers, store
<1>7. OneEach'
  BY <1>1, <1>2 DEF AuthInv, OneEach, OnePerUser, IsMaking, Stored, store
<1>8. KeysInv'
  BY <1>1, <1>2, <1>3 DEF AuthInv, KeysInv, RowsHaveKeys, IsMaking
<1> QED
  BY <1>4, <1>5, <1>6, <1>7, <1>8 DEF AuthInv

LEMMA DeleteEraseStep ==
  ASSUME AuthInv, DeleteErase
  PROVE  AuthInv'
<1>1. /\ op.kind = "delete" /\ op' = Idle
      /\ \/ rows' = [rows EXCEPT ![op.id] = NoRow] /\ disk' = rows'
         \/ UNCHANGED <<rows, disk>>
      /\ UNCHANGED <<running, keys, pending, ghosts>>
  BY DEF DeleteErase, Persist, FlushFails
<1>2. op \in Deleting /\ op'.kind = "idle"
  BY <1>1, OpKinds DEF AuthInv, TypeOK, Ops, Idle
<1>3. op.id \in Creds /\ running /\ pending = NoPending
  BY <1>1, <1>2 DEF Deleting, AuthInv, TypeOK, Quiet, Idle
<1> DEFINE E == /\ rows' \in RowsOrNone /\ disk' \in RowsOrNone
                /\ \A d \in Creds : /\ rows'[d] \in {rows[d], NoRow}
                                    /\ disk'[d] \in {rows[d], disk[d], NoRow}
                                    /\ rows'[d] = NoRow <=> disk'[d] = NoRow
                /\ Stored(rows)' \subseteq Stored(rows)
                /\ Stored(rows)' \cup {op.id} = Stored(rows) \cup {op.id}
                /\ Stored(disk)' = Stored(rows)' /\ Stored(disk) = Stored(rows)
<1>4. E
  BY <1>1, <1>3, EraseFacts
<1>5. TypeOK'
  BY <1>1, <1>4 DEF AuthInv, TypeOK, ghosts
<1>6. Quiet'
  BY <1>1, <1>2, <1>3 DEF Quiet
<1>7. SameShape'
  BY <1>1, <1>3, <1>4 DEF AuthInv, SameShape
<1>8. FreshIds'
  BY <1>1, <1>2, <1>4 DEF AuthInv, FreshIds, IsMaking, ghosts
<1>9. Copies' /\ Counters'
  BY <1>1, <1>2, <1>3, <1>4, SnapshotFacts DEF AuthInv, Copies, PendingFresh, Counters, Covers, ghosts
<1>10. OneEach'
  BY <1>1, <1>2, <1>4 DEF AuthInv, OneEach, OnePerUser, IsMaking, Stored, ghosts
<1>11. KeysInv'
  BY <1>1, <1>2, <1>4 DEF AuthInv, KeysInv, RowsHaveKeys, IsMaking, ghosts
<1> QED
  BY <1>5, <1>6, <1>7, <1>8, <1>9, <1>10, <1>11 DEF AuthInv

LEMMA ResetStep ==
  ASSUME AuthInv, Reset
  PROVE  AuthInv'
<1>1. /\ running /\ op = Idle /\ rows' = NoRows
      /\ keys' \subseteq keys /\ keys \ keys' \subseteq Stored(rows)
      /\ pending' = NoPending /\ op' = Resetting /\ doomed' = doomed \cup Stored(rows)
      /\ UNCHANGED <<running, disk, used, sent, reused, raced>>
  BY DEF Reset, Ready, DestroyKeys
<1>2. op.kind = "idle" /\ op'.kind = "reset" /\ Stored(rows) \subseteq Creds
  BY <1>1 DEF Idle, Resetting, Stored
<1>3. Stored(rows)' = {} /\ Stored(disk)' = Stored(disk) /\ Stored(rows) = Stored(disk)
  BY <1>1, <1>2, StoredRows, RowFacts DEF Stored
<1>4. TypeOK'
  BY <1>1, <1>2, SnapshotFacts, RowFacts DEF AuthInv, TypeOK
<1>5. Quiet' /\ SameShape' /\ FreshIds'
  BY <1>1, <1>2, <1>3 DEF AuthInv, Quiet, SameShape, FreshIds, IsMaking
<1>6. Copies' /\ Counters'
  BY <1>1, <1>2, SnapshotFacts, RowFacts DEF AuthInv, Copies, PendingFresh, Counters, Covers
<1>7. OneEach'
  BY <1>1, <1>2, <1>3 DEF AuthInv, OneEach, OnePerUser, IsMaking
<1>8. KeysInv'
  BY <1>1, <1>2, <1>3 DEF AuthInv, KeysInv, RowsHaveKeys, IsMaking
<1> QED
  BY <1>4, <1>5, <1>6, <1>7, <1>8 DEF AuthInv

LEMMA ResetStoreStep ==
  ASSUME AuthInv, ResetStore
  PROVE  AuthInv'
<1>1. /\ op.kind = "reset" /\ disk' = NoRows /\ op' = Idle
      /\ UNCHANGED <<running, rows, keys, pending, ghosts>>
  BY DEF ResetStore
<1>2. rows = NoRows /\ running /\ op'.kind = "idle" /\ pending = NoPending
  BY <1>1 DEF AuthInv, TypeOK, Quiet, Idle
<1>3. Stored(rows)' = {} /\ Stored(disk)' = {} /\ Stored(rows) = {}
  BY <1>1, <1>2, RowFacts DEF Stored
<1>4. TypeOK'
  BY <1>1, RowFacts DEF AuthInv, TypeOK, ghosts
<1>5. Quiet' /\ SameShape' /\ FreshIds'
  BY <1>1, <1>2, <1>3 DEF AuthInv, Quiet, SameShape, FreshIds, IsMaking, ghosts
<1>6. Copies' /\ Counters'
  BY <1>1, <1>2, SnapshotFacts, RowFacts DEF AuthInv, Copies, PendingFresh, Counters, Covers, ghosts
<1>7. OneEach'
  BY <1>1, <1>2, <1>3 DEF AuthInv, OneEach, OnePerUser, IsMaking
<1>8. KeysInv'
  BY <1>1, <1>2, <1>3 DEF AuthInv, KeysInv, RowsHaveKeys, IsMaking, ghosts
<1> QED
  BY <1>4, <1>5, <1>6, <1>7, <1>8 DEF AuthInv

-----------------------------------------------------------------------------
LEMMA StutterStep ==
  ASSUME AuthInv, UNCHANGED vars
  PROVE  AuthInv'
<1> USE DEF vars, store, ghosts
<1>1. TypeOK' /\ Quiet' /\ SameShape'
  BY DEF AuthInv, TypeOK, Quiet, SameShape
<1>2. FreshIds' /\ Copies' /\ Counters'
  BY DEF AuthInv, FreshIds, IsMaking, Stored, Copies, PendingFresh, Counters, Covers
<1>3. OneEach' /\ KeysInv'
  BY DEF AuthInv, OneEach, OnePerUser, OfUser, KeysInv, RowsHaveKeys, IsMaking, Stored
<1> QED
  BY <1>1, <1>2, <1>3 DEF AuthInv

LEMMA NextStep == AuthInv /\ [Next]_vars => AuthInv'
<1> SUFFICES ASSUME AuthInv, [Next]_vars PROVE AuthInv'
  OBVIOUS
<1>1. CASE Assertions
  <2>1. CASE \E rp \in Rps, C \in SUBSET Creds, u \in BOOLEAN : GetAssertion(rp, C, u)
    BY <2>1, GetAssertionStep
  <2>2. CASE \E c \in Creds : GetNextAssertion(c)
    BY <2>2, GetNextStep
  <2>3. CASE \E c \in Creds : \E u \in BOOLEAN : U2fAuthenticate(c, u)
    BY <2>3, U2fAuthenticateStep
  <2>4. CASE \E c \in Creds : SignBumped(c) \/ SignUnflushed(c)
    BY <2>4, SignStep
  <2>5. CASE \E c \in Creds : SignUnbumped(c)
    BY <2>5, SignUnbumpedStep
  <2>6. CASE Declined \/ GetNextExpired \/ \E c \in Creds : SignFails(c)
    BY <2>6, GivenUpStep
  <2>7. CASE Send
    BY <2>7, SendStep
  <2> QED
    BY <1>1, <2>1, <2>2, <2>3, <2>4, <2>5, <2>6, <2>7 DEF Assertions
<1>2. CASE Make
  <2>1. CASE \E c \in Creds, rp \in Rps : \/ \E user \in Users : MakeCredential(c, rp, user)
                                          \/ U2fRegister(c, rp)
    BY <2>1, BeginMakingStep
  <2>2. CASE MakeRefused
    BY <2>2, GivenUpStep
  <2>3. CASE Generate \/ Put \/ PutFails
    BY <2>3, GenerateStep, PutStep, PutFailsStep
  <2>4. CASE \E c \in Creds : Replace(c) \/ ReplaceErase(c)
    BY <2>4, ReplaceStep, ReplaceEraseStep
  <2> QED
    BY <1>2, <2>1, <2>2, <2>3, <2>4 DEF Make
<1>3. CASE Delete
  BY <1>3, CtlDeleteStep, DeleteEraseStep, ResetStep, ResetStoreStep DEF Delete
<1>4. CASE Start \/ Crash \/ OtherCommand \/ UNCHANGED vars
  BY <1>4, StartStep, CrashStep, OtherCommandStep, StutterStep
<1> QED
  BY <1>1, <1>2, <1>3, <1>4 DEF Next

(* AuthInv is inductive, so it holds in every reachable state.             *)
THEOREM AuthenticatorInvariant == Spec => []AuthInv
  BY InitAuth, NextStep, PTL DEF Spec

(* Variables keep their types; in particular no row has counter zero.      *)
THEOREM AuthenticatorTypeOK == Spec => []TypeOK
<1>1. AuthInv => TypeOK
  BY DEF AuthInv
<1> QED
  BY <1>1, AuthenticatorInvariant, PTL

(* A relying party never sees a counter sent with UP that is not above     *)
(* the ones before, whatever crashes and fails, unless a U2F command used  *)
(* the credential while a getAssertion had it in its pending list.         *)
THEOREM AuthenticatorCountersGrow == Spec => []CountersGrow
<1>1. AuthInv => CountersGrow
  BY DEF AuthInv, Counters, CountersGrow
<1> QED
  BY <1>1, AuthenticatorInvariant, PTL

(* The rows next_state_ holds are the rows in the store.                   *)
THEOREM AuthenticatorPendingFresh == Spec => []PendingFresh
<1>1. AuthInv => PendingFresh
  BY DEF AuthInv, Copies
<1> QED
  BY <1>1, AuthenticatorInvariant, PTL

(* makeCredential leaves one credential per rp.id and user.id, but for     *)
(* those whose deletion was cut short.                                     *)
THEOREM AuthenticatorOnePerUser == Spec => []OnePerUser
<1>1. AuthInv => OnePerUser
  BY DEF AuthInv, OneEach
<1> QED
  BY <1>1, AuthenticatorInvariant, PTL

(* A row without a key is one whose deletion was begun: no credential is   *)
(* stored before its key is there, or after its key was given up.          *)
THEOREM AuthenticatorRowsHaveKeys == Spec => []RowsHaveKeys
<1>1. AuthInv => RowsHaveKeys
  BY DEF AuthInv, KeysInv
<1> QED
  BY <1>1, AuthenticatorInvariant, PTL

-----------------------------------------------------------------------------
(* The authenticator implements CredentialLife.                            *)

MakingId(c) == IsMaking /\ op.id = c

LEMMA StandingKept ==
  ASSUME NEW c \in Creds, disk'[c] = NoRow <=> disk[c] = NoRow, c \in used' <=> c \in used,
         MakingId(c)' <=> MakingId(c)
  PROVE  Standing(c)' = Standing(c)
  BY DEF Standing, MakingId, IsMaking

LEMMA LifeUnmoved ==
  ASSUME \A c \in Creds : disk'[c] = NoRow <=> disk[c] = NoRow,
         used' = used, sent' = sent,
         \A c \in Creds : MakingId(c)' <=> MakingId(c)
  PROVE  UNCHANGED Life!vars
<1>1. \A c \in Creds : Standing(c)' = Standing(c)
  BY StandingKept
<1> QED
  BY <1>1 DEF Life!vars

(* One credential moves and all the others stay.                           *)
LEMMA LifeMove ==
  ASSUME NEW c \in Creds, NEW from, NEW to, Standing(c) = from, Standing(c)' = to,
         \A d \in Creds : d # c => Standing(d)' = Standing(d),
         sent' = sent
  PROVE  Life!Move(c, from, to)
<1>1. [d \in Creds |-> Standing(d)'] = [[d \in Creds |-> Standing(d)] EXCEPT ![c] = to]
  OBVIOUS
<1> QED
  BY <1>1 DEF Life!Move

(* Commands that make nothing and delete nothing: rows may be rewritten,   *)
(* but none appears on disk and none goes.                                 *)
LEMMA KeepRows ==
  ASSUME AuthInv, NEW c \in Creds, NEW n \in 1 .. MaxCount, UpdateCount(c, n), running,
         op.kind # "reset"
  PROVE  \A d \in Creds : disk'[d] = NoRow <=> disk[d] = NoRow
<1>1. rows \in RowsOrNone /\ rows[c] # NoRow /\ disk' = Counted(rows, c, n)
  BY DEF UpdateCount, Persist, Counted, AuthInv, TypeOK
<1>2. \A d \in Creds : disk'[d] = NoRow <=> rows[d] = NoRow
  BY <1>1, RowUpdate
<1> QED
  BY <1>2 DEF AuthInv, SameShape

LEMMA FlushRows ==
  ASSUME AuthInv, running, op.kind # "reset", disk' \in {disk, rows}
  PROVE  \A c \in Creds : disk'[c] = NoRow <=> disk[c] = NoRow
  BY DEF AuthInv, SameShape

(* Only a signature leaves a response behind.                              *)
LEMMA AssertionsOp ==
  ASSUME Assertions
  PROVE  /\ op'.kind \in {"assert", "next", "u2f", "respond", "idle"}
         /\ op'.kind = "respond" => \E c \in Creds : SignBumped(c) \/ (SignUnbumped(c) /\ ~op'.up)
<1>1. ASSUME NEW rp \in Rps, NEW C \in SUBSET Creds, NEW u \in BOOLEAN, GetAssertion(rp, C, u)
      PROVE  op'.kind = "assert"
  BY <1>1 DEF GetAssertion
<1>2. ASSUME NEW c \in Creds, GetNextAssertion(c) PROVE op'.kind = "next"
  BY <1>2 DEF GetNextAssertion
<1>3. ASSUME NEW c \in Creds, NEW u \in BOOLEAN, U2fAuthenticate(c, u) PROVE op'.kind = "u2f"
  BY <1>3 DEF U2fAuthenticate
<1>4. ASSUME NEW c \in Creds, SignBumped(c) PROVE op'.kind = "respond"
  BY <1>4 DEF SignBumped, Respond
<1>5. ASSUME NEW c \in Creds, SignUnbumped(c) PROVE op'.kind = "respond" /\ ~op'.up
  BY <1>5 DEF SignUnbumped, Respond
<1>6. ASSUME NEW c \in Creds, SignUnflushed(c) \/ SignFails(c) PROVE op'.kind = "idle"
  BY <1>6 DEF SignUnflushed, SignFails, Idle
<1>7. CASE GetNextExpired
  BY <1>7 DEF GetNextExpired, Ready, Idle
<1>8. CASE Declined \/ Send
  BY <1>8 DEF Declined, Send, Idle
<1> QED
  BY <1>1, <1>2, <1>3, <1>4, <1>5, <1>6, <1>7, <1>8 DEF Assertions

LEMMA AssertionsLife ==
  ASSUME AuthInv, Assertions, ~Send
  PROVE  UNCHANGED Life!vars
<1>1. op \in Ops /\ op \notin Making /\ op.kind # "reset" /\ running
  BY OpKinds DEF Assertions, GetAssertion, GetNextAssertion, U2fAuthenticate, SignBumped,
       SignUnbumped, SignUnflushed, SignFails, GetNextExpired, Declined, Send, Ready, AuthInv,
       TypeOK, Quiet, Ops, Idle
<1>2. op'.kind \in {"assert", "next", "u2f", "respond", "idle"}
  BY AssertionsOp
<1>3. ~IsMaking /\ ~IsMaking'
  BY <1>1, <1>2, OpKinds DEF IsMaking
<1>4. used' = used /\ sent' = sent
  BY DEF Assertions, GetAssertion, GetNextAssertion, U2fAuthenticate, SignBumped, Respond,
       SignUnbumped, SignUnflushed, SignFails, GetNextExpired, Declined, Send, ghosts
<1>5. \A c \in Creds : disk'[c] = NoRow <=> disk[c] = NoRow
  <2>1. CASE \E c \in Creds : SignBumped(c)
    <3>1. PICK c \in Creds : SignBumped(c)
      BY <2>1
    <3>2. op.creds[c].count \in 1 .. MaxCount /\ op.creds[c].count < MaxCount
      BY <3>1, SigningFacts DEF SignBumped
    <3>3. op.creds[c].count + 1 \in 1 .. MaxCount
      BY <3>2, AuthenticatorAssumption
    <3> QED
      BY <3>1, <3>3, <1>1, KeepRows DEF SignBumped
  <2>2. CASE ~\E c \in Creds : SignBumped(c)
    BY <2>2 DEF Assertions, GetAssertion, GetNextAssertion, U2fAuthenticate,
       SignUnbumped, SignUnflushed, SignFails, GetNextExpired, Declined, Send, store, FlushFails
  <2> QED
    BY <2>1, <2>2
<1> QED
  BY <1>3, <1>4, <1>5, LifeUnmoved DEF MakingId

(* A response that is sent with user presence is for a row on disk.        *)
Answerable == op.kind = "respond" /\ op.up => disk[op.id] # NoRow

LEMMA AnswerableStep ==
  ASSUME AuthInv, AuthInv', Answerable, [Next]_vars
  PROVE  Answerable'
<1> SUFFICES ASSUME op'.kind = "respond", op'.up PROVE disk'[op'.id] # NoRow
  BY DEF Answerable
<1>1. CASE UNCHANGED vars
  BY <1>1 DEF vars, store, Answerable
<1>2. ASSUME NEW c \in Creds, SignBumped(c) PROVE disk'[op'.id] # NoRow
  <2>0. op.creds[c].count \in 1 .. MaxCount /\ op.creds[c].count < MaxCount
    BY <1>2, SigningFacts DEF SignBumped
  <2>1. op.creds[c].count + 1 \in 1 .. MaxCount
    BY <2>0, AuthenticatorAssumption
  <2>2. rows \in RowsOrNone /\ rows[c] # NoRow
        /\ disk' = Counted(rows, c, op.creds[c].count + 1) /\ op'.id = c
    BY <1>2 DEF SignBumped, UpdateCount, Persist, Counted, AuthInv, TypeOK, Respond
  <2> QED
    BY <2>1, <2>2, RowUpdate
<1>3. CASE Put
  <2>1. op \in Making /\ op'.id = op.id /\ disk' = [rows EXCEPT ![op.id] = NewRow(op.rp, op.user)]
    BY <1>3, OpKinds DEF Put, Persist, AuthInv, TypeOK, Ops, Idle
  <2>2. NewRow(op.rp, op.user) # NoRow /\ op.id \in Creds /\ rows \in RowsOrNone
    BY <2>1, AuthenticatorAssumption DEF NewRow, NoRow, Making, Rows, AuthInv, TypeOK
  <2> QED
    BY <2>1, <2>2 DEF RowsOrNone
<1>4. Assertions => \E c \in Creds : SignBumped(c)
  BY AssertionsOp
<1>5. ASSUME Make PROVE Put
  <2>1. ASSUME NEW c \in Creds, NEW rp \in Rps, NEW user \in Users,
               MakeCredential(c, rp, user)
        PROVE  FALSE
    BY <2>1 DEF MakeCredential
  <2>2. ASSUME NEW c \in Creds, NEW rp \in Rps, U2fRegister(c, rp) PROVE FALSE
    BY <2>2 DEF U2fRegister
  <2>3. ~(MakeRefused \/ PutFails)
    BY DEF MakeRefused, PutFails, Idle
  <2>4. ASSUME Generate \/ \E c \in Creds : Replace(c) \/ ReplaceErase(c) PROVE FALSE
    <3>1. op \in Making
      BY <2>4, OpKinds DEF Generate, Replace, ReplaceErase, AuthInv, TypeOK, Ops
    <3>2. op' = Idle \/ op'.kind = op.kind
      BY <2>4, <3>1 DEF Generate, Replace, ReplaceErase, Making
    <3> QED
      BY <3>1, <3>2 DEF Idle, Making
  <2> QED
    BY <1>5, <2>1, <2>2, <2>3, <2>4 DEF Make
<1>6. ASSUME Delete PROVE FALSE
  <2>1. ASSUME NEW c \in Creds, CtlDelete(c) PROVE FALSE
    BY <2>1 DEF CtlDelete
  <2>2. ~(DeleteErase \/ Reset \/ ResetStore)
    BY DEF DeleteErase, Reset, ResetStore, Idle, Resetting
  <2> QED
    BY <1>6, <2>1, <2>2 DEF Delete
<1>7. ~Crash /\ ~OtherCommand
  BY DEF Crash, OtherCommand, Ready, Idle
<1>8. ASSUME Start PROVE FALSE
  BY <1>8 DEF Start, AuthInv, Quiet, Idle
<1> QED
  BY <1>1, <1>2, <1>3, <1>4, <1>5, <1>6, <1>7, <1>8 DEF Next

LEMMA SendLife ==
  ASSUME AuthInv, Answerable, Send
  PROVE  [Life!Next]_(Life!vars)
<1>1. op \in Responding /\ op.id \in Creds /\ op.count \in Nat
  BY OpKinds DEF Send, AuthInv, TypeOK, Responding, Ops
<1>2. sent \in [Creds -> 0 .. MaxCount] /\ sent[op.id] \in Nat
  BY <1>1 DEF AuthInv, TypeOK
<1>3. \A c \in Creds : Standing(c)' = Standing(c)
  <2>1. disk' = disk /\ used' = used /\ ~IsMaking /\ ~IsMaking'
    BY DEF Send, store, IsMaking, Idle
  <2> QED
    BY <2>1, StandingKept DEF MakingId
<1>4. CASE op.up /\ op.count > sent[op.id]
  <2>1. Standing(op.id) = "live"
    BY <1>1, <1>4 DEF Send, Answerable, Standing
  <2>2. sent' = [sent EXCEPT ![op.id] = op.count]
    BY <1>1, <1>2, <1>4 DEF Send
  <2>3. sent'[op.id] = op.count /\ sent' = [sent EXCEPT ![op.id] = sent'[op.id]]
    BY <2>2, <1>1, <1>2
  <2>4. Life!Answer(op.id)
    BY <1>1, <1>3, <1>4, <2>1, <2>3 DEF Life!Answer
  <2> QED
    BY <1>1, <2>4 DEF Life!Next
<1>5. CASE ~(op.up /\ op.count > sent[op.id])
  <2>1. sent' = sent
    BY <1>1, <1>2, <1>5 DEF Send
  <2> QED
    BY <1>3, <2>1 DEF Life!vars
<1> QED
  BY <1>4, <1>5

(* A command that makes a credential draws a new id ...                    *)
LEMMA BeginLife ==
  ASSUME AuthInv, NEW c \in Creds, NEW rp \in Rps,
         (\E user \in Users : MakeCredential(c, rp, user)) \/ U2fRegister(c, rp)
  PROVE  Life!Begin(c)
<1>1. c \notin used /\ used' = used \cup {c} /\ disk' = disk /\ sent' = sent
      /\ op = Idle /\ op'.id = c /\ op'.kind \in {"make", "register"}
  BY DEF MakeCredential, U2fRegister, Ready, store
<1>2. disk[c] = NoRow
  BY <1>1 DEF AuthInv, FreshIds, Stored
<1>3. Standing(c) = "new" /\ Standing(c)' = "making"
  BY <1>1, <1>2 DEF Standing
<1>4. \A d \in Creds : d # c => Standing(d)' = Standing(d)
  BY <1>1, StandingKept DEF MakingId, IsMaking, Idle
<1> QED
  BY <1>1, <1>3, <1>4, LifeMove DEF Life!Begin

(* ... and gives it up, ...                                                *)
LEMMA RefuseLife ==
  ASSUME AuthInv, IsMaking, ~IsMaking', used' = used, sent' = sent,
         \A c \in Creds : disk'[c] = NoRow <=> disk[c] = NoRow
  PROVE  Life!Next
<1>0. PICK c \in Creds : c = op.id
  BY OpKinds DEF IsMaking, AuthInv, TypeOK, Making, Ops
<1>2. op.id \in used /\ disk[op.id] = NoRow
  BY <1>0 DEF AuthInv, FreshIds, Stored
<1>3. Standing(c) = "making" /\ Standing(c)' = "gone"
  BY <1>0, <1>2 DEF Standing, IsMaking
<1>4. \A d \in Creds : d # c => Standing(d)' = Standing(d)
  BY <1>0, StandingKept DEF MakingId
<1>5. Life!Refuse(c)
  BY <1>0, <1>3, <1>4, LifeMove DEF Life!Refuse
<1> QED
  BY <1>0, <1>5 DEF Life!Next

(* ... or stores its row.                                                  *)
LEMMA PutLife ==
  ASSUME AuthInv, Put
  PROVE  Life!Next
<1>1. op \in Making /\ IsMaking /\ op.id \in Creds
  BY OpKinds DEF Put, AuthInv, TypeOK, Making, Ops, IsMaking
<1>0. PICK c \in Creds : c = op.id
  BY <1>1
<1>2. op.id \in used /\ disk[op.id] = NoRow
  BY <1>1 DEF AuthInv, FreshIds, Stored
<1>3. disk' = [rows EXCEPT ![op.id] = NewRow(op.rp, op.user)] /\ rows \in RowsOrNone
      /\ used' = used /\ sent' = sent /\ running /\ op.kind # "reset"
  BY <1>1 DEF Put, Persist, AuthInv, TypeOK, ghosts, Quiet, Idle, IsMaking
<1>4. NewRow(op.rp, op.user) # NoRow
  BY <1>1, AuthenticatorAssumption DEF NewRow, NoRow, Making, Rows
<1>5. disk'[c] # NoRow /\ \A d \in Creds : d # c => disk'[d] = rows[d]
  BY <1>0, <1>3, <1>4 DEF RowsOrNone
<1>6. ~IsMaking'
  BY DEF Put, IsMaking, Idle
<1>7. Standing(c) = "making" /\ Standing(c)' = "live"
  BY <1>0, <1>1, <1>2, <1>3, <1>5, <1>6 DEF Standing, IsMaking
<1>8. \A d \in Creds : d # c => Standing(d)' = Standing(d)
  BY <1>0, <1>3, <1>5, <1>6, StandingKept DEF MakingId, AuthInv, SameShape
<1>9. Life!Register(c)
  BY <1>0, <1>3, <1>7, <1>8, LifeMove DEF Life!Register
<1> QED
  BY <1>9 DEF Life!Next

(* Rows that leave the disk are gone.                                      *)
LEMMA RemoveLife ==
  ASSUME AuthInv, used' = used, sent' = sent, \A c \in Creds : MakingId(c)' <=> MakingId(c),
         NEW C \in SUBSET Creds, \A c \in C : disk[c] # NoRow /\ ~MakingId(c),
         \A c \in Creds : disk'[c] = NoRow <=> disk[c] = NoRow \/ c \in C
  PROVE  Life!Next
<1>1. \A c \in Creds \ C : Standing(c)' = Standing(c)
  BY StandingKept
<1>2. \A c \in C : Standing(c) = "live" /\ c \in used
  BY DEF Standing, AuthInv, FreshIds, Stored
<1>3. \A c \in C : Standing(c)' = "gone"
  BY <1>2 DEF Standing, MakingId, IsMaking
<1>4. C \in SUBSET {c \in Creds : [d \in Creds |-> Standing(d)][c] = "live"}
  BY <1>2
<1>5. [d \in Creds |-> Standing(d)'] =
        [c \in Creds |-> IF c \in C THEN "gone" ELSE [d \in Creds |-> Standing(d)][c]]
  BY <1>1, <1>3
<1>6. Life!Remove(C)
  BY <1>5 DEF Life!Remove
<1> QED
  BY <1>4, <1>6 DEF Life!Next

LEMMA EraseLife ==
  ASSUME AuthInv, NEW c \in Creds,
         running, op.kind # "reset", used' = used, sent' = sent,
         \A d \in Creds : MakingId(d)' <=> MakingId(d),
         ~MakingId(c),
         Persist([rows EXCEPT ![c] = NoRow]) \/ disk' = disk
  PROVE  [Life!Next]_(Life!vars)
<1>1. CASE disk' = disk
  BY <1>1, LifeUnmoved
<1>2. CASE Persist([rows EXCEPT ![c] = NoRow])
  <2> DEFINE C == {d \in {c} : disk[d] # NoRow}
  <2>1. \A d \in Creds : disk'[d] = NoRow <=> rows[d] = NoRow \/ d = c
    BY <1>2 DEF Persist, AuthInv, TypeOK, RowsOrNone
  <2>2. \A d \in Creds : disk'[d] = NoRow <=> disk[d] = NoRow \/ d \in C
    BY <2>1 DEF AuthInv, SameShape
  <2>3. C \in SUBSET Creds /\ \A d \in C : disk[d] # NoRow /\ ~MakingId(d)
    OBVIOUS
  <2> HIDE DEF C
  <2> QED
    BY <2>2, <2>3, RemoveLife
<1> QED
  BY <1>1, <1>2

LEMMA MakeLife ==
  ASSUME AuthInv, AuthInv', Make
  PROVE  [Life!Next]_(Life!vars)
<1>0. IsMaking => running /\ op.kind # "reset" /\ op \in Making
  BY OpKinds DEF IsMaking, AuthInv, TypeOK, Quiet, Idle, Ops
<1>1. CASE \E c \in Creds, rp \in Rps : \/ \E user \in Users : MakeCredential(c, rp, user)
                                        \/ U2fRegister(c, rp)
  BY <1>1, BeginLife DEF Life!Next
<1>2. CASE MakeRefused \/ PutFails
  BY <1>2, RefuseLife DEF MakeRefused, PutFails, FlushFails, IsMaking, Idle, store, ghosts
<1>3. CASE Generate
  <2>1. IsMaking /\ used' = used /\ sent' = sent /\ disk' \in {disk, rows}
    BY <1>3 DEF Generate, ghosts, IsMaking
  <2>2. \A c \in Creds : disk'[c] = NoRow <=> disk[c] = NoRow
    BY <1>0, <2>1, FlushRows
  <2>3. CASE op' = Idle
    BY <2>1, <2>2, <2>3, RefuseLife DEF IsMaking, Idle
  <2>4. CASE op' # Idle
    <3>1. op' = [op EXCEPT !.keyed = TRUE, !.olds = Replaced(op.rp, op.user)]
      BY <1>3, <2>4 DEF Generate
    <3>2. op'.id = op.id /\ op'.kind = op.kind
      BY <3>1, <2>1, <1>0 DEF Making
    <3> QED
      BY <2>1, <2>2, <3>2, LifeUnmoved DEF MakingId, IsMaking
  <2> QED
    BY <2>3, <2>4
<1>4. CASE Put
  BY <1>4, PutLife
<1>5. ASSUME NEW c \in Creds, Replace(c) PROVE [Life!Next]_(Life!vars)
  <2>1. op \in Making /\ op' = [op EXCEPT !.old = {c}, !.olds = @ \ {c}]
    BY <1>0, <1>5 DEF Replace, IsMaking
  <2>2. op'.id = op.id /\ op'.kind = op.kind
    BY <2>1 DEF Making
  <2> QED
    BY <1>5, <2>2, LifeUnmoved DEF Replace, MakingId, IsMaking, store
<1>6. ASSUME NEW c \in Creds, ReplaceErase(c) PROVE [Life!Next]_(Life!vars)
  <2>1. op \in Making /\ op' = [op EXCEPT !.old = {}] /\ c \in op.old /\ IsMaking
    BY <1>0, <1>6 DEF ReplaceErase, IsMaking
  <2>2. op'.id = op.id /\ op'.kind = op.kind /\ op.id # c
    BY <2>1 DEF Making, AuthInv, FreshIds
  <2> QED
    BY <1>0, <1>6, <2>1, <2>2, EraseLife DEF ReplaceErase, MakingId, IsMaking, FlushFails, ghosts
<1> QED
  BY <1>1, <1>2, <1>3, <1>4, <1>5, <1>6 DEF Make

LEMMA DeleteLife ==
  ASSUME AuthInv, Delete
  PROVE  [Life!Next]_(Life!vars)
<1>1. ASSUME NEW c \in Creds, CtlDelete(c) PROVE [Life!Next]_(Life!vars)
  BY <1>1, LifeUnmoved DEF CtlDelete, Ready, MakingId, IsMaking, Idle, store
<1>2. CASE DeleteErase
  <2>1. op \in Deleting /\ op.id \in Creds /\ running
    BY <1>2, OpKinds DEF DeleteErase, AuthInv, TypeOK, Quiet, Deleting, Ops, Idle
  <2> QED
    BY <1>2, <2>1, EraseLife DEF DeleteErase, MakingId, IsMaking, FlushFails, ghosts, Idle
<1>3. CASE Reset
  BY <1>3, LifeUnmoved DEF Reset, Ready, MakingId, IsMaking, Idle, Resetting
<1>4. CASE ResetStore
  <2>1. Stored(disk) \in SUBSET Creds /\ \A c \in Stored(disk) : disk[c] # NoRow
    BY DEF Stored
  <2>2. \A c \in Creds : disk'[c] = NoRow
    BY <1>4, RowFacts DEF ResetStore
  <2>3. ~IsMaking /\ ~IsMaking'
    BY <1>4 DEF ResetStore, IsMaking, Idle
  <2>4. \A c \in Creds : disk'[c] = NoRow <=> disk[c] = NoRow \/ c \in Stored(disk)
    BY <2>2 DEF Stored
  <2> QED
    BY <1>4, <2>1, <2>3, <2>4, RemoveLife DEF ResetStore, MakingId, ghosts
<1> QED
  BY <1>1, <1>2, <1>3, <1>4 DEF Delete

LEMMA ProcessLife ==
  ASSUME AuthInv, Start \/ Crash \/ OtherCommand
  PROVE  [Life!Next]_(Life!vars)
<1>1. CASE Start
  BY <1>1, LifeUnmoved DEF Start, ghosts, MakingId, IsMaking
<1>2. CASE Crash
  <2>1. disk' = disk /\ used' = used /\ sent' = sent /\ ~IsMaking'
    BY <1>2 DEF Crash, ghosts, IsMaking, Idle
  <2> QED
    BY <2>1, RefuseLife, LifeUnmoved DEF MakingId
<1>3. CASE OtherCommand
  BY <1>3, FlushRows, LifeUnmoved DEF OtherCommand, Ready, Idle, ghosts, MakingId, IsMaking
<1> QED
  BY <1>1, <1>2, <1>3

LEMMA InitLife == Init => Life!Init
<1> SUFFICES ASSUME Init PROVE Life!Init
  OBVIOUS
<1>1. \A c \in Creds : Standing(c) = "new"
  BY RowFacts DEF Init, Standing
<1> QED
  BY <1>1 DEF Init, Life!Init

LEMMA StepLife ==
  ASSUME AuthInv, AuthInv', Answerable, [Next]_vars
  PROVE  [Life!Next]_(Life!vars)
<1>1. CASE UNCHANGED vars
  BY <1>1, LifeUnmoved DEF vars, store, ghosts, MakingId, IsMaking
<1> QED
  BY <1>1, AssertionsLife, SendLife, MakeLife, DeleteLife, ProcessLife DEF Next

(* Whatever crashes and fails, a credential is drawn once, made at most    *)
(* once, and does not come back after it was deleted, replaced, reset or   *)
(* refused; the counters a relying party sees are those of a stored        *)
(* credential.                                                             *)
THEOREM AuthenticatorImplementsLife == Spec => ImplementsCredentialLife
<1>1. Init => Answerable
  BY DEF Init, Answerable, Idle
<1>2. AuthInv /\ AuthInv' /\ Answerable /\ [Next]_vars => Answerable'
  BY AnswerableStep
<1>3. AuthInv /\ AuthInv' /\ Answerable /\ [Next]_vars => [Life!Next]_(Life!vars)
  BY StepLife
<1> QED
  BY <1>1, <1>2, <1>3, InitLife, AuthenticatorInvariant, PTL
     DEF Spec, ImplementsCredentialLife, Life!Spec
=============================================================================
