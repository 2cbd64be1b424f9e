----------------------------- MODULE KeysProofs -----------------------------
(***************************************************************************)
(* Proofs about the key backends, for any number of credentials, restarts, *)
(* resets and failures.                                                    *)
(***************************************************************************)
EXTENDS Keys, TLAPS

(* Seeds are numbered in the order they were drawn.                        *)
Drawn == primary <= issued /\ tpm <= issued /\ disk.tpm <= issued /\ barrier <= issued

(* What is in memory follows from whether the daemon runs, and how far its *)
(* start has come.                                                         *)
Phases ==
  /\ ~up => op.kind = "idle"
  /\ op.kind \in {"probe", "exit"} => kind = None
  /\ up /\ op.kind \notin {"probe", "exit"} => kind # None
  /\ ~up \/ kind = None => ~failed /\ kind = None
  /\ kind # "tpm" => primary = 0

(* The rows in memory are those on disk; the seeds too, once flushed.      *)
Mirror ==
  /\ up => rows = disk.rows /\ disk.tpm \in {0, tpm}
  /\ op.kind = "reinit" => rows = NoRows /\ tpm = 0 /\ disk = EmptyDocument

(* The primary in use is that of the store's seeds, unless a reset failed; *)
(* then at least every TPM row was made under it.                          *)
Seeded ==
  /\ kind = "tpm" /\ ~failed /\ op.kind # "reinit" => primary = tpm /\ tpm # 0
  /\ failed => \A c \in Stored(rows) :
                 rows[c].backend = "tpm" => rows[c].seed = primary /\ primary # 0

(* A credential being made has a fresh id, and its items in the keychain.  *)
Making ==
  op.kind = "make" =>
    /\ op.id \in used /\ op.id \notin Stored(rows)
    /\ op.seed = primary
    /\ kind = "tpm" => primary # 0
    /\ kind = "se" => <<"key", op.id>> \in items
    /\ kind = "se" /\ op.wrapped => <<"secret", op.id>> \in items
    /\ kind # "se" => ItemsOf(op.id) \cap items = {}

Fresh == \A c \in Creds \ used : ItemsOf(c) \cap items = {} /\ c \notin Stored(disk.rows)

(* The items of c need not be looked for any more.                         *)
Settled(c) == ItemsOf(c) \cap items = {} \/ c \in leaked

(* So it is for rows of the other backends, and rows that are on their way *)
(* out.                                                                    *)
Leaving ==
  /\ \A c \in Stored(disk.rows) : disk.rows[c].backend # "se" => Settled(c)
  /\ op.kind = "delete" => op.id \in Stored(rows) /\ Settled(op.id)
  /\ op.kind = "reset" => /\ op.left \subseteq Stored(rows)
                          /\ \A c \in Stored(rows) \ op.left : Settled(c)

(* The inductive invariant.                                                *)
KeysInv ==
  /\ TypeOK /\ Drawn /\ Phases /\ Mirror /\ Seeded /\ Making /\ Fresh /\ Leaving
  /\ KeysSurviveRestart /\ OldSeedsDead /\ ItemsAccounted
(* Requests under way are records of their own kind.                       *)
LEMMA OpFields ==
  ASSUME NEW o \in Ops
  PROVE  /\ o.kind \in {"idle", "exit", "probe", "make", "delete", "reset", "reinit"}
         /\ o.kind = "idle" => o = Idle
         /\ o.kind = "probe" => o.pref \in Prefs
         /\ o.kind = "make" => /\ o.id \in Creds /\ o.seed \in Seeds
                               /\ [o EXCEPT !.wrapped = TRUE] \in Ops
                               /\ [o EXCEPT !.wrapped = TRUE].kind = "make"
                               /\ [o EXCEPT !.wrapped = TRUE].id = o.id
                               /\ [o EXCEPT !.wrapped = TRUE].seed = o.seed
         /\ o.kind = "delete" => o.id \in Creds
         /\ o.kind = "reset" =>
              /\ o.left \subseteq Creds
              /\ \A c : LET p == [o EXCEPT !.left = @ \ {c}]
                       IN p \in Ops /\ p.kind = "reset" /\ p.left = o.left \ {c}
<1>1. CASE o \in [kind : {"make"}, id : Creds, seed : Seeds, wrapped : BOOLEAN]
  BY <1>1 DEF Ops
<1>2. CASE o \in [kind : {"reset"}, left : SUBSET Creds]
  BY <1>2 DEF Ops
<1>3. CASE o \in {Idle, Exiting}
  BY <1>3 DEF Idle, Exiting
<1>4. CASE o \in [kind : {"probe"}, pref : Prefs] \cup [kind : {"delete"}, id : Creds]
                 \cup [kind : {"reinit"}]
  BY <1>4
<1> QED
  BY <1>1, <1>2, <1>3, <1>4 DEF Ops

LEMMA OpKinds ==
  /\ Idle \in Ops /\ Idle.kind = "idle" /\ Exiting \in Ops /\ Exiting.kind = "exit"
  /\ \A p \in Prefs : [kind |-> "probe", pref |-> p] \in Ops
  /\ \A c \in Creds, s \in Seeds :
       [kind |-> "make", id |-> c, seed |-> s, wrapped |-> FALSE] \in Ops
  /\ \A c \in Creds : [kind |-> "delete", id |-> c] \in Ops
  /\ \A left \in SUBSET Creds : [kind |-> "reset", left |-> left] \in Ops
  /\ [kind |-> "reinit"] \in Ops
  BY DEF Ops, Idle, Exiting

LEMMA ItemFacts ==
  /\ \A c : ItemsOf(c) = {<<"key", c>>, <<"secret", c>>}
  /\ \A c \in Creds : ItemsOf(c) \subseteq Items
  /\ \A c, d : c # d => ItemsOf(c) \cap ItemsOf(d) = {}
  /\ \A c : Probe \notin ItemsOf(c)
  /\ Probe \in Items
  BY DEF ItemsOf, Items, Probe

-----------------------------------------------------------------------------
(* One lemma per action.                                                   *)

LEMMA StartOK ==
  ASSUME KeysInv, NEW pref \in Prefs, Start(pref)
  PROVE  KeysInv'
<1> USE DEF memory, ghosts
<1>0. /\ TypeOK /\ Drawn /\ Phases /\ Mirror /\ Seeded /\ Making /\ Fresh /\ Leaving
      /\ KeysSurviveRestart /\ OldSeedsDead /\ ItemsAccounted
  BY DEF KeysInv
<1>1. op \in Ops
  BY <1>0 DEF TypeOK
<1>2. Fresh' /\ KeysSurviveRestart'
  BY <1>0 DEF Start, Fresh, KeysSurviveRestart
<1>3. TypeOK'
  BY <1>0, <1>1, OpFields, OpKinds, ItemFacts DEF Start, TypeOK, Phases,
      Mirror, Making, Documents, NoRows, EmptyDocument
<1>4. Drawn'
  BY <1>0 DEF Start, Drawn
<1>5. Phases'
  BY <1>0 DEF Start, Phases
<1>6. Mirror'
  BY <1>0 DEF Start, Mirror
<1>7. Seeded'
  BY <1>0, <1>1, OpFields, OpKinds, NoneAssumption, KeysAssumption DEF Start,
      Seeded, Stored, TypeOK, Documents, Rows, Seeds, Kinds, NoRows,
      EmptyDocument, Phases
<1>8. Making'
  BY <1>0 DEF Start, Making, Stored
<1>9. Leaving'
  BY <1>0 DEF Start, Leaving, Settled, Stored
<1>10. OldSeedsDead'
  BY <1>0 DEF Start, OldSeedsDead, Stored
<1>11. ItemsAccounted'
  BY <1>0, <1>1, OpFields, OpKinds, ItemFacts DEF Start, ItemsAccounted,
      Stored, TypeOK, Phases, Mirror
<1> QED
  BY <1>2, <1>3, <1>4, <1>5, <1>6, <1>7, <1>8, <1>9, <1>10, <1>11 DEF KeysInv

LEMMA ProbeSoftwareOK ==
  ASSUME KeysInv, ProbeSoftware
  PROVE  KeysInv'
<1> USE DEF memory, ghosts
<1>0. /\ TypeOK /\ Drawn /\ Phases /\ Mirror /\ Seeded /\ Making /\ Fresh /\ Leaving
      /\ KeysSurviveRestart /\ OldSeedsDead /\ ItemsAccounted
  BY DEF KeysInv
<1>1. op \in Ops
  BY <1>0 DEF TypeOK
<1>2. Fresh' /\ KeysSurviveRestart'
  BY <1>0 DEF ProbeSoftware, Use, Fresh, KeysSurviveRestart
<1>3. TypeOK'
  BY <1>0, <1>1, OpFields, OpKinds, NoneAssumption, KeysAssumption, ItemFacts
      DEF ProbeSoftware, Use, TypeOK, Documents, Rows, Seeds, Kinds, NoRows,
      EmptyDocument, Phases
<1>4. Drawn'
  BY <1>0, <1>1, OpFields, OpKinds, NoneAssumption, KeysAssumption DEF
      ProbeSoftware, Use, Drawn, TypeOK, Documents, Rows, Seeds
<1>5. Phases'
  BY <1>0, <1>1, OpFields, OpKinds, NoneAssumption, KeysAssumption DEF
      ProbeSoftware, Use, Phases, TypeOK, Documents, Rows, Seeds, Kinds,
      NoRows, EmptyDocument, Mirror
<1>6. Mirror'
  BY <1>0, OpKinds DEF ProbeSoftware, Use, Mirror
<1>7. Seeded'
  BY <1>0, <1>1, OpFields, OpKinds DEF ProbeSoftware, Use, Seeded, Stored,
      TypeOK, Phases, Mirror, Making
<1>8. Making'
  BY <1>0, OpKinds DEF ProbeSoftware, Use, Making, Stored
<1>9. Leaving'
  BY <1>0, OpKinds DEF ProbeSoftware, Use, Leaving, Settled, Stored
<1>10. OldSeedsDead'
  BY <1>0 DEF ProbeSoftware, Use, OldSeedsDead, Stored
<1>11. ItemsAccounted'
  BY <1>0 DEF ProbeSoftware, Use, ItemsAccounted, Stored
<1> QED
  BY <1>2, <1>3, <1>4, <1>5, <1>6, <1>7, <1>8, <1>9, <1>10, <1>11 DEF KeysInv

LEMMA ProbeNotBuiltOK ==
  ASSUME KeysInv, ProbeNotBuilt
  PROVE  KeysInv'
<1> USE DEF memory, ghosts
<1>0. /\ TypeOK /\ Drawn /\ Phases /\ Mirror /\ Seeded /\ Making /\ Fresh /\ Leaving
      /\ KeysSurviveRestart /\ OldSeedsDead /\ ItemsAccounted
  BY DEF KeysInv
<1>1. op \in Ops
  BY <1>0 DEF TypeOK
<1>2. Fresh' /\ KeysSurviveRestart'
  BY <1>0 DEF ProbeNotBuilt, NoHardware, Use, Fresh, KeysSurviveRestart
<1>3. TypeOK'
  BY <1>0, OpKinds DEF ProbeNotBuilt, NoHardware, Use, TypeOK
<1>4. Drawn'
  BY <1>0 DEF ProbeNotBuilt, NoHardware, Use, Drawn
<1>5. Phases'
  BY <1>0, OpKinds DEF ProbeNotBuilt, NoHardware, Use, Phases
<1>6. Mirror'
  BY <1>0, OpKinds DEF ProbeNotBuilt, NoHardware, Use, Mirror
<1>7. Seeded'
  BY <1>0 DEF ProbeNotBuilt, NoHardware, Use, Seeded, Stored
<1>8. Making'
  BY <1>0, OpKinds DEF ProbeNotBuilt, NoHardware, Use, Making, Stored
<1>9. Leaving'
  BY <1>0, OpKinds DEF ProbeNotBuilt, NoHardware, Use, Leaving, Settled,
      Stored
<1>10. OldSeedsDead'
  BY <1>0 DEF ProbeNotBuilt, NoHardware, Use, OldSeedsDead, Stored
<1>11. ItemsAccounted'
  BY <1>0 DEF ProbeNotBuilt, NoHardware, Use, ItemsAccounted, Stored
<1> QED
  BY <1>2, <1>3, <1>4, <1>5, <1>6, <1>7, <1>8, <1>9, <1>10, <1>11 DEF KeysInv

LEMMA SeProbeOK ==
  ASSUME KeysInv, SeProbe
  PROVE  KeysInv'
<1> USE DEF memory, ghosts
<1>0. /\ TypeOK /\ Drawn /\ Phases /\ Mirror /\ Seeded /\ Making /\ Fresh /\ Leaving
      /\ KeysSurviveRestart /\ OldSeedsDead /\ ItemsAccounted
  BY DEF KeysInv
<1>1. op \in Ops
  BY <1>0 DEF TypeOK
<1>2. TypeOK'
  BY <1>0, <1>1, OpFields, OpKinds, NoneAssumption, KeysAssumption, ItemFacts
      DEF SeProbe, NoHardware, Use, TypeOK, Documents, Rows, Seeds, Kinds,
      NoRows, EmptyDocument, Phases
<1>3. Drawn'
  BY <1>0, <1>1, OpFields, OpKinds, NoneAssumption, KeysAssumption DEF
      SeProbe, NoHardware, Use, Drawn, TypeOK, Documents, Rows, Seeds
<1>4. Phases'
  BY <1>0, <1>1, OpFields, OpKinds, NoneAssumption, KeysAssumption DEF
      SeProbe, NoHardware, Use, Phases, TypeOK, Documents, Rows, Seeds, Kinds,
      NoRows, EmptyDocument, Mirror
<1>5. Mirror'
  BY <1>0, OpKinds DEF SeProbe, NoHardware, Use, Mirror
<1>6. Seeded'
  BY <1>0, <1>1, OpFields, OpKinds DEF SeProbe, NoHardware, Use, Seeded,
      Stored, TypeOK, Phases, Mirror, Making
<1>7. Making'
  BY <1>0, OpKinds DEF SeProbe, NoHardware, Use, Making, Stored
<1>8. Fresh'
  BY <1>0, <1>1, OpFields, OpKinds, ItemFacts DEF SeProbe, NoHardware, Use,
      Fresh, Stored
<1>9. Leaving'
  BY <1>0, <1>1, OpFields, OpKinds, ItemFacts DEF SeProbe, NoHardware, Use,
      Leaving, Settled, Stored
<1>10. KeysSurviveRestart'
  BY <1>0, <1>1, OpFields, OpKinds, ItemFacts DEF SeProbe, NoHardware, Use,
      KeysSurviveRestart, Stored
<1>11. OldSeedsDead'
  BY <1>0 DEF SeProbe, NoHardware, Use, OldSeedsDead, Stored
<1>12. ItemsAccounted'
  BY <1>0, <1>1, OpFields, OpKinds, ItemFacts DEF SeProbe, NoHardware, Use,
      ItemsAccounted, Stored
<1> QED
  BY <1>2, <1>3, <1>4, <1>5, <1>6, <1>7, <1>8, <1>9, <1>10, <1>11, <1>12 DEF KeysInv

LEMMA MakeTpm2OK ==
  ASSUME KeysInv, MakeTpm2
  PROVE  KeysInv'
<1> USE DEF memory, ghosts
<1>0. /\ TypeOK /\ Drawn /\ Phases /\ Mirror /\ Seeded /\ Making /\ Fresh /\ Leaving
      /\ KeysSurviveRestart /\ OldSeedsDead /\ ItemsAccounted
  BY DEF KeysInv
<1>1. op \in Ops
  BY <1>0 DEF TypeOK
<1>2. TypeOK'
  BY <1>0, <1>1, OpFields, OpKinds, NoneAssumption, KeysAssumption, ItemFacts
      DEF MakeTpm2, NoHardware, Use, TpmStateOrCreate, TpmStateUnflushed,
      TpmInit, TypeOK, Documents, Rows, Seeds, Kinds, NoRows, EmptyDocument,
      Phases
<1>3. Drawn'
  BY <1>0, <1>1, OpFields, OpKinds, NoneAssumption, KeysAssumption DEF
      MakeTpm2, NoHardware, Use, TpmStateOrCreate, TpmStateUnflushed, TpmInit,
      Drawn, TypeOK, Documents, Rows, Seeds
<1>4. Phases'
  BY <1>0, <1>1, OpFields, OpKinds, NoneAssumption, KeysAssumption DEF
      MakeTpm2, NoHardware, Use, TpmStateOrCreate, TpmStateUnflushed, TpmInit,
      Phases, TypeOK, Documents, Rows, Seeds, Kinds, NoRows, EmptyDocument,
      Mirror
<1>5. Mirror'
  BY <1>0, OpKinds DEF MakeTpm2, NoHardware, Use, TpmStateOrCreate,
      TpmStateUnflushed, TpmInit, Mirror
<1>6. Seeded'
  BY <1>0, <1>1, OpFields, OpKinds, NoneAssumption, KeysAssumption DEF
      MakeTpm2, NoHardware, Use, TpmStateOrCreate, TpmStateUnflushed, TpmInit,
      Seeded, Stored, TypeOK, Documents, Rows, Seeds, Kinds, NoRows,
      EmptyDocument, Phases
<1>7. Making'
  BY <1>0, OpKinds DEF MakeTpm2, NoHardware, Use, TpmStateOrCreate,
      TpmStateUnflushed, TpmInit, Making, Stored
<1>8. Fresh'
  BY <1>0, <1>1, OpFields, OpKinds, ItemFacts DEF MakeTpm2, NoHardware, Use,
      TpmStateOrCreate, TpmStateUnflushed, TpmInit, Fresh, Stored, TypeOK,
      Phases, Mirror
<1>9. Leaving'
  BY <1>0, <1>1, OpFields, OpKinds, ItemFacts DEF MakeTpm2, NoHardware, Use,
      TpmStateOrCreate, TpmStateUnflushed, TpmInit, Leaving, Settled, Stored,
      TypeOK, Phases, Mirror
<1>10. KeysSurviveRestart'
  BY <1>0, <1>1, OpFields, OpKinds, ItemFacts DEF MakeTpm2, NoHardware, Use,
      TpmStateOrCreate, TpmStateUnflushed, TpmInit, KeysSurviveRestart,
      Stored, TypeOK, Phases, Mirror
<1>11. OldSeedsDead'
  BY <1>0, <1>1, OpFields, OpKinds, NoneAssumption, KeysAssumption DEF
      MakeTpm2, NoHardware, Use, TpmStateOrCreate, TpmStateUnflushed, TpmInit,
      OldSeedsDead, Stored, TypeOK, Documents, Rows, Seeds, Mirror, Drawn,
      Making
<1>12. ItemsAccounted'
  BY <1>0, <1>1, OpFields, OpKinds, ItemFacts DEF MakeTpm2, NoHardware, Use,
      TpmStateOrCreate, TpmStateUnflushed, TpmInit, ItemsAccounted, Stored,
      TypeOK, Phases, Mirror
<1> QED
  BY <1>2, <1>3, <1>4, <1>5, <1>6, <1>7, <1>8, <1>9, <1>10, <1>11, <1>12 DEF KeysInv

LEMMA StopOK ==
  ASSUME KeysInv, Stop
  PROVE  KeysInv'
<1> USE DEF memory, ghosts
<1>0. /\ TypeOK /\ Drawn /\ Phases /\ Mirror /\ Seeded /\ Making /\ Fresh /\ Leaving
      /\ KeysSurviveRestart /\ OldSeedsDead /\ ItemsAccounted
  BY DEF KeysInv
<1>1. op \in Ops
  BY <1>0 DEF TypeOK
<1>2. Fresh' /\ KeysSurviveRestart'
  BY <1>0 DEF Stop, Fresh, KeysSurviveRestart
<1>3. TypeOK'
  <2>1. op' \in Ops /\ up' \in BOOLEAN /\ failed' \in BOOLEAN /\ kind' \in Kinds \cup {None}
    BY OpKinds DEF Stop
  <2>2. rows' \in [Creds -> Rows \cup {None}]
    BY DEF Stop, NoRows
  <2>3. 0 \in Seeds
    BY KeysAssumption DEF Seeds
  <2>4. leaked \subseteq Creds /\ (op.kind = "make" => op.id \in Creds)
    BY <1>0, <1>1, OpFields DEF TypeOK
  <2>5. leaked' = leaked \/ (op.kind = "make" /\ leaked' = leaked \cup {op.id})
    BY DEF Stop
  <2>6. leaked' \subseteq Creds
    BY <2>4, <2>5
  <2> QED
    BY <1>0, <2>1, <2>2, <2>3, <2>6 DEF Stop, TypeOK
<1>4. Drawn'
  BY <1>0, <1>1, OpFields, OpKinds, NoneAssumption, KeysAssumption DEF Stop,
      Drawn, TypeOK, Documents, Rows, Seeds
<1>5. Phases'
  BY <1>0, OpKinds DEF Stop, Phases
<1>6. Mirror'
  BY <1>0, OpKinds DEF Stop, Mirror
<1>7. Seeded'
  BY <1>0, <1>1, OpFields, OpKinds, NoneAssumption, KeysAssumption DEF Stop,
      Seeded, Stored, TypeOK, Documents, Rows, Seeds, Kinds, NoRows,
      EmptyDocument, Phases
<1>8. Making'
  BY <1>0, OpKinds DEF Stop, Making, Stored
<1>9. Leaving'
  BY <1>0, OpKinds DEF Stop, Leaving, Settled, Stored
<1>10. OldSeedsDead'
  BY <1>0, <1>1, OpFields, OpKinds DEF Stop, OldSeedsDead, Stored, TypeOK,
      Documents, NoRows, EmptyDocument
<1>11. ItemsAccounted'
  BY <1>0, <1>1, OpFields, OpKinds, ItemFacts DEF Stop, ItemsAccounted,
      Stored, TypeOK, Phases, Mirror, Making, Documents, NoRows
<1> QED
  BY <1>2, <1>3, <1>4, <1>5, <1>6, <1>7, <1>8, <1>9, <1>10, <1>11 DEF KeysInv

LEMMA GenerateOK ==
  ASSUME KeysInv, NEW c \in Creds, Generate(c)
  PROVE  KeysInv'
<1> USE DEF memory, ghosts
<1>0. /\ TypeOK /\ Drawn /\ Phases /\ Mirror /\ Seeded /\ Making /\ Fresh /\ Leaving
      /\ KeysSurviveRestart /\ OldSeedsDead /\ ItemsAccounted
  BY DEF KeysInv
<1>1. op \in Ops
  BY <1>0 DEF TypeOK
<1>2. Drawn' /\ OldSeedsDead'
  BY <1>0 DEF Generate, SoftwareGenerate, TpmGenerate, SeGenerate, Make,
      Ready, Drawn, OldSeedsDead
<1>3. TypeOK'
  BY <1>0, <1>1, OpFields, OpKinds, ItemFacts DEF Generate, SoftwareGenerate,
      TpmGenerate, SeGenerate, Make, Ready, TypeOK, Phases, Mirror, Making
<1>4. Phases'
  BY <1>0, OpKinds DEF Generate, SoftwareGenerate, TpmGenerate, SeGenerate,
      Make, Ready, Phases
<1>5. Mirror'
  BY <1>0 DEF Generate, SoftwareGenerate, TpmGenerate, SeGenerate, Make,
      Ready, Mirror
<1>6. Seeded'
  BY <1>0, OpKinds DEF Generate, SoftwareGenerate, TpmGenerate, SeGenerate,
      Make, Ready, Seeded, Stored
<1>7. Making'
  BY <1>0, <1>1, OpFields, OpKinds, NoneAssumption, KeysAssumption, ItemFacts
      DEF Generate, SoftwareGenerate, TpmGenerate, SeGenerate, Make, Ready,
      Making, Stored, TypeOK, Documents, Rows, Seeds, Kinds, NoRows,
      EmptyDocument, Phases, Mirror, Drawn, Seeded, Fresh, Leaving
<1>8. Fresh'
  BY <1>0, <1>1, OpFields, OpKinds, ItemFacts DEF Generate, SoftwareGenerate,
      TpmGenerate, SeGenerate, Make, Ready, Fresh, Stored
<1>9. Leaving'
  BY <1>0, <1>1, OpFields, OpKinds, NoneAssumption, KeysAssumption, ItemFacts
      DEF Generate, SoftwareGenerate, TpmGenerate, SeGenerate, Make, Ready,
      Leaving, Settled, Stored, TypeOK, Documents, Rows, Seeds, Kinds, NoRows,
      EmptyDocument, Phases, Mirror, Drawn, Making, Seeded, Fresh
<1>10. KeysSurviveRestart'
  BY <1>0 DEF Generate, SoftwareGenerate, TpmGenerate, SeGenerate, Make,
      Ready, KeysSurviveRestart, Stored
<1>11. ItemsAccounted'
  BY <1>0, <1>1, OpFields, OpKinds, ItemFacts DEF Generate, SoftwareGenerate,
      TpmGenerate, SeGenerate, Make, Ready, ItemsAccounted, Stored
<1> QED
  BY <1>2, <1>3, <1>4, <1>5, <1>6, <1>7, <1>8, <1>9, <1>10, <1>11 DEF KeysInv

LEMMA WrapSecretOK ==
  ASSUME KeysInv, WrapSecret
  PROVE  KeysInv'
<1> USE DEF memory, ghosts
<1>0. /\ TypeOK /\ Drawn /\ Phases /\ Mirror /\ Seeded /\ Making /\ Fresh /\ Leaving
      /\ KeysSurviveRestart /\ OldSeedsDead /\ ItemsAccounted
  BY DEF KeysInv
<1>1. op \in Ops
  BY <1>0 DEF TypeOK
<1>2. Drawn' /\ OldSeedsDead'
  BY <1>0 DEF WrapSecret, TpmWrapSecret, SeWrapSecret, SoftwareWrapSecret,
      Drawn, OldSeedsDead
<1>3. TypeOK'
  BY <1>0, <1>1, OpFields, ItemFacts DEF WrapSecret, TpmWrapSecret,
      SeWrapSecret, SoftwareWrapSecret, TypeOK
<1>4. Phases'
  BY <1>0 DEF WrapSecret, TpmWrapSecret, SeWrapSecret, SoftwareWrapSecret,
      Phases
<1>5. Mirror'
  BY <1>0 DEF WrapSecret, TpmWrapSecret, SeWrapSecret, SoftwareWrapSecret,
      Mirror
<1>6. Seeded'
  BY <1>0 DEF WrapSecret, TpmWrapSecret, SeWrapSecret, SoftwareWrapSecret,
      Seeded, Stored
<1>7. Making'
  BY <1>0 DEF WrapSecret, TpmWrapSecret, SeWrapSecret, SoftwareWrapSecret,
      Making, Stored
<1>8. Fresh'
  BY <1>0, <1>1, OpFields, OpKinds, ItemFacts DEF WrapSecret, TpmWrapSecret,
      SeWrapSecret, SoftwareWrapSecret, Fresh, Stored, TypeOK, Phases, Mirror,
      Making, Documents, NoRows
<1>9. Leaving'
  BY <1>0, <1>1, OpFields, OpKinds, ItemFacts DEF WrapSecret, TpmWrapSecret,
      SeWrapSecret, SoftwareWrapSecret, Leaving, Settled, Stored, TypeOK,
      Phases, Mirror, Making, Documents, NoRows
<1>10. KeysSurviveRestart'
  BY <1>0 DEF WrapSecret, TpmWrapSecret, SeWrapSecret, SoftwareWrapSecret,
      KeysSurviveRestart, Stored
<1>11. ItemsAccounted'
  BY <1>0, <1>1, OpFields, OpKinds, ItemFacts DEF WrapSecret, TpmWrapSecret,
      SeWrapSecret, SoftwareWrapSecret, ItemsAccounted, Stored
<1> QED
  BY <1>2, <1>3, <1>4, <1>5, <1>6, <1>7, <1>8, <1>9, <1>10, <1>11 DEF KeysInv

LEMMA WrapFailsOK ==
  ASSUME KeysInv, WrapFails
  PROVE  KeysInv'
<1> USE DEF memory, ghosts
<1>0. /\ TypeOK /\ Drawn /\ Phases /\ Mirror /\ Seeded /\ Making /\ Fresh /\ Leaving
      /\ KeysSurviveRestart /\ OldSeedsDead /\ ItemsAccounted
  BY DEF KeysInv
<1>1. op \in Ops
  BY <1>0 DEF TypeOK
<1>2. Drawn' /\ Fresh' /\ KeysSurviveRestart' /\ OldSeedsDead'
  BY <1>0 DEF WrapFails, Drawn, Fresh, KeysSurviveRestart, OldSeedsDead
<1>3. TypeOK'
  BY <1>0, <1>1, OpFields, OpKinds, ItemFacts DEF WrapFails, TypeOK, Phases,
      Mirror, Making
<1>4. Phases'
  BY <1>0, OpKinds DEF WrapFails, Phases
<1>5. Mirror'
  BY <1>0, OpKinds DEF WrapFails, Mirror
<1>6. Seeded'
  BY <1>0 DEF WrapFails, Seeded, Stored
<1>7. Making'
  BY <1>0, OpKinds DEF WrapFails, Making, Stored
<1>8. Leaving'
  BY <1>0, OpKinds DEF WrapFails, Leaving, Settled, Stored
<1>9. ItemsAccounted'
  BY <1>0, <1>1, OpFields, OpKinds, ItemFacts DEF WrapFails, ItemsAccounted,
      Stored, TypeOK, Phases, Mirror, Making, Documents, NoRows
<1> QED
  BY <1>2, <1>3, <1>4, <1>5, <1>6, <1>7, <1>8, <1>9 DEF KeysInv

LEMMA ReplaceOK ==
  ASSUME KeysInv, NEW c \in Creds, Replace(c)
  PROVE  KeysInv'
<1> USE DEF memory, ghosts
<1>0. /\ TypeOK /\ Drawn /\ Phases /\ Mirror /\ Seeded /\ Making /\ Fresh /\ Leaving
      /\ KeysSurviveRestart /\ OldSeedsDead /\ ItemsAccounted
  BY DEF KeysInv
<1>1. op \in Ops
  BY <1>0 DEF TypeOK
<1>2. Phases'
  BY <1>0 DEF Replace, DestroyKey, SeDestroy, Phases
<1>3. TypeOK'
  BY <1>0, <1>1, OpFields, OpKinds, NoneAssumption, KeysAssumption, ItemFacts
      DEF Replace, DestroyKey, SeDestroy, TypeOK, Documents
<1>4. Drawn'
  BY <1>0, <1>1 DEF Replace, DestroyKey, SeDestroy, Drawn
<1>5. Mirror'
  BY <1>0, <1>1 DEF Replace, DestroyKey, SeDestroy, Mirror
<1>6. Seeded'
  BY <1>0, <1>1, OpFields, OpKinds, NoneAssumption, KeysAssumption, ItemFacts
      DEF Replace, DestroyKey, SeDestroy, Seeded, Stored, TypeOK
<1>7. Making'
  BY <1>0, <1>1, OpFields, OpKinds, NoneAssumption, KeysAssumption, ItemFacts
      DEF Replace, DestroyKey, SeDestroy, Making, Stored, TypeOK
<1>8. Fresh'
  BY <1>0, <1>1, OpFields, OpKinds, NoneAssumption, KeysAssumption, ItemFacts
      DEF Replace, DestroyKey, SeDestroy, Fresh, Stored, TypeOK, Phases,
      Mirror, Drawn, Making, Seeded, Leaving
<1>9. Leaving'
  BY <1>0, <1>1, OpFields, OpKinds, NoneAssumption, KeysAssumption, ItemFacts
      DEF Replace, DestroyKey, SeDestroy, Leaving, Settled, Stored, TypeOK,
      Phases, Mirror, Drawn, Making, Seeded, Fresh
<1>10. KeysSurviveRestart'
  BY <1>0, <1>1, OpFields, OpKinds, NoneAssumption, KeysAssumption, ItemFacts
      DEF Replace, DestroyKey, SeDestroy, KeysSurviveRestart, Stored, TypeOK,
      Phases, Mirror, Drawn, Making, Seeded, Fresh
<1>11. OldSeedsDead'
  BY <1>0, <1>1, OpFields, OpKinds, NoneAssumption, KeysAssumption, ItemFacts
      DEF Replace, DestroyKey, SeDestroy, OldSeedsDead, Stored, TypeOK
<1>12. ItemsAccounted'
  BY <1>0, <1>1, OpFields, OpKinds, NoneAssumption, KeysAssumption, ItemFacts
      DEF Replace, DestroyKey, SeDestroy, ItemsAccounted, Stored, TypeOK,
      Phases, Mirror, Drawn, Making, Seeded, Fresh, Leaving, Settled,
      KeysSurviveRestart, OldSeedsDead
<1> QED
  BY <1>2, <1>3, <1>4, <1>5, <1>6, <1>7, <1>8, <1>9, <1>10, <1>11, <1>12 DEF KeysInv

LEMMA PutOK ==
  ASSUME KeysInv, Put
  PROVE  KeysInv'
<1> USE DEF memory, ghosts
<1>0. /\ TypeOK /\ Drawn /\ Phases /\ Mirror /\ Seeded /\ Making /\ Fresh /\ Leaving
      /\ KeysSurviveRestart /\ OldSeedsDead /\ ItemsAccounted
  BY DEF KeysInv
<1>1. op \in Ops
  BY <1>0 DEF TypeOK
<1>2. TypeOK'
  BY <1>0, <1>1, OpFields, OpKinds, NoneAssumption, KeysAssumption, ItemFacts
      DEF Put, TypeOK, Documents, Rows, Seeds, Kinds, NoRows, EmptyDocument,
      Phases, Mirror, Drawn, Making, Stored
<1>3. Drawn'
  BY <1>0 DEF Put, Drawn
<1>4. Phases'
  BY <1>0, OpKinds DEF Put, Phases
<1>5. Mirror'
  BY <1>0, OpKinds DEF Put, Mirror
<1>6. Seeded'
  BY <1>0, <1>1, OpFields, OpKinds DEF Put, Seeded, Stored, TypeOK, Phases,
      Mirror, Making
<1>7. Making'
  BY <1>0, OpKinds DEF Put, Making, Stored
<1>8. Fresh'
  BY <1>0, <1>1, OpFields, OpKinds, ItemFacts DEF Put, Fresh, Stored, TypeOK,
      Phases, Mirror, Making, Documents, NoRows
<1>9. Leaving'
  BY <1>0, <1>1, OpFields, OpKinds, ItemFacts DEF Put, Leaving, Settled,
      Stored, TypeOK, Phases, Mirror, Making, Documents, NoRows
<1>10. KeysSurviveRestart'
  BY <1>0, <1>1, OpFields, OpKinds, NoneAssumption, KeysAssumption, ItemFacts
      DEF Put, KeysSurviveRestart, Stored, TypeOK, Documents, Rows, Seeds,
      Kinds, NoRows, EmptyDocument, Phases, Mirror, Drawn, Making, Seeded,
      Fresh
<1>11. OldSeedsDead'
  BY <1>0, <1>1, OpFields, OpKinds DEF Put, OldSeedsDead, Stored, TypeOK,
      Phases, Mirror, Making
<1>12. ItemsAccounted'
  BY <1>0, <1>1, OpFields, OpKinds, NoneAssumption, KeysAssumption, ItemFacts
      DEF Put, ItemsAccounted, Stored, TypeOK, Documents, Rows, Phases,
      Mirror, Drawn, Making
<1> QED
  BY <1>2, <1>3, <1>4, <1>5, <1>6, <1>7, <1>8, <1>9, <1>10, <1>11, <1>12 DEF KeysInv

LEMMA PutFailsOK ==
  ASSUME KeysInv, PutFails
  PROVE  KeysInv'
<1> USE DEF memory, ghosts
<1>0. /\ TypeOK /\ Drawn /\ Phases /\ Mirror /\ Seeded /\ Making /\ Fresh /\ Leaving
      /\ KeysSurviveRestart /\ OldSeedsDead /\ ItemsAccounted
  BY DEF KeysInv
<1>1. op \in Ops
  BY <1>0 DEF TypeOK
<1>2. Drawn' /\ OldSeedsDead'
  BY <1>0 DEF PutFails, DestroyKey, SeDestroy, Drawn, OldSeedsDead
<1>3. TypeOK'
  BY <1>0, <1>1, OpFields, OpKinds, ItemFacts DEF PutFails, DestroyKey,
      SeDestroy, TypeOK, Phases, Mirror, Making
<1>4. Phases'
  BY <1>0, OpKinds DEF PutFails, DestroyKey, SeDestroy, Phases
<1>5. Mirror'
  BY <1>0, OpKinds DEF PutFails, DestroyKey, SeDestroy, Mirror
<1>6. Seeded'
  BY <1>0 DEF PutFails, DestroyKey, SeDestroy, Seeded, Stored
<1>7. Making'
  BY <1>0, OpKinds DEF PutFails, DestroyKey, SeDestroy, Making, Stored
<1>8. Fresh'
  BY <1>0 DEF PutFails, DestroyKey, SeDestroy, Fresh, Stored
<1>9. Leaving'
  BY <1>0, OpKinds DEF PutFails, DestroyKey, SeDestroy, Leaving, Settled,
      Stored
<1>10. KeysSurviveRestart'
  BY <1>0, <1>1, OpFields, OpKinds, ItemFacts DEF PutFails, DestroyKey,
      SeDestroy, KeysSurviveRestart, Stored
<1>11. ItemsAccounted'
  BY <1>0, <1>1, OpFields, OpKinds, ItemFacts DEF PutFails, DestroyKey,
      SeDestroy, ItemsAccounted, Stored, TypeOK, Phases, Mirror, Making,
      Documents, NoRows
<1> QED
  BY <1>2, <1>3, <1>4, <1>5, <1>6, <1>7, <1>8, <1>9, <1>10, <1>11 DEF KeysInv

LEMMA SignOK ==
  ASSUME KeysInv, NEW c \in Creds, NEW hmac \in BOOLEAN, Sign(c, hmac)
  PROVE  KeysInv'
<1> USE DEF memory, ghosts
<1>0. /\ TypeOK /\ Drawn /\ Phases /\ Mirror /\ Seeded /\ Making /\ Fresh /\ Leaving
      /\ KeysSurviveRestart /\ OldSeedsDead /\ ItemsAccounted
  BY DEF KeysInv
<1>1. op \in Ops
  BY <1>0 DEF TypeOK
<1>2. Phases' /\ Seeded' /\ Making'
  BY <1>0 DEF Sign, Document, Ready, Phases, Seeded, Making
<1>3. TypeOK'
  BY <1>0, <1>1, OpFields, OpKinds, ItemFacts DEF Sign, Document, Ready,
      TypeOK, Phases, Mirror, Making, Documents, NoRows, EmptyDocument
<1>4. Drawn'
  BY <1>0 DEF Sign, Document, Ready, Drawn
<1>5. Mirror'
  BY <1>0, OpKinds DEF Sign, Document, Ready, Mirror
<1>6. Fresh'
  BY <1>0, <1>1, OpFields, OpKinds, ItemFacts DEF Sign, Document, Ready,
      Fresh, Stored, TypeOK, Phases, Mirror
<1>7. Leaving'
  BY <1>0, <1>1, OpFields, OpKinds, ItemFacts DEF Sign, Document, Ready,
      Leaving, Settled, Stored, TypeOK, Phases, Mirror
<1>8. KeysSurviveRestart'
  BY <1>0, <1>1, OpFields, OpKinds, ItemFacts DEF Sign, Document, Ready,
      KeysSurviveRestart, Stored, TypeOK, Phases, Mirror
<1>9. OldSeedsDead'
  BY <1>0 DEF Sign, Document, Ready, OldSeedsDead, Stored
<1>10. ItemsAccounted'
  BY <1>0, <1>1, OpFields, OpKinds, ItemFacts DEF Sign, Document, Ready,
      ItemsAccounted, Stored, TypeOK, Phases, Mirror
<1> QED
  BY <1>2, <1>3, <1>4, <1>5, <1>6, <1>7, <1>8, <1>9, <1>10 DEF KeysInv

LEMMA FlushOK ==
  ASSUME KeysInv, Flush
  PROVE  KeysInv'
<1> USE DEF memory, ghosts
<1>0. /\ TypeOK /\ Drawn /\ Phases /\ Mirror /\ Seeded /\ Making /\ Fresh /\ Leaving
      /\ KeysSurviveRestart /\ OldSeedsDead /\ ItemsAccounted
  BY DEF KeysInv
<1>1. op \in Ops
  BY <1>0 DEF TypeOK
<1>2. Phases' /\ Seeded' /\ Making'
  BY <1>0 DEF Flush, Document, Ready, Phases, Seeded, Making
<1>3. TypeOK'
  BY <1>0, <1>1, OpFields, OpKinds, ItemFacts DEF Flush, Document, Ready,
      TypeOK, Phases, Mirror, Making, Documents, NoRows, EmptyDocument
<1>4. Drawn'
  BY <1>0 DEF Flush, Document, Ready, Drawn
<1>5. Mirror'
  BY <1>0, OpKinds DEF Flush, Document, Ready, Mirror
<1>6. Fresh'
  BY <1>0, <1>1, OpFields, OpKinds, ItemFacts DEF Flush, Document, Ready,
      Fresh, Stored, TypeOK, Phases, Mirror
<1>7. Leaving'
  BY <1>0, <1>1, OpFields, OpKinds, ItemFacts DEF Flush, Document, Ready,
      Leaving, Settled, Stored, TypeOK, Phases, Mirror
<1>8. KeysSurviveRestart'
  BY <1>0, <1>1, OpFields, OpKinds, ItemFacts DEF Flush, Document, Ready,
      KeysSurviveRestart, Stored, TypeOK, Phases, Mirror
<1>9. OldSeedsDead'
  BY <1>0 DEF Flush, Document, Ready, OldSeedsDead, Stored
<1>10. ItemsAccounted'
  BY <1>0, <1>1, OpFields, OpKinds, ItemFacts DEF Flush, Document, Ready,
      ItemsAccounted, Stored, TypeOK, Phases, Mirror
<1> QED
  BY <1>2, <1>3, <1>4, <1>5, <1>6, <1>7, <1>8, <1>9, <1>10 DEF KeysInv

LEMMA DeleteOK ==
  ASSUME KeysInv, NEW c \in Creds, Delete(c)
  PROVE  KeysInv'
<1> USE DEF memory, ghosts
<1>0. /\ TypeOK /\ Drawn /\ Phases /\ Mirror /\ Seeded /\ Making /\ Fresh /\ Leaving
      /\ KeysSurviveRestart /\ OldSeedsDead /\ ItemsAccounted
  BY DEF KeysInv
<1>1. op \in Ops
  BY <1>0 DEF TypeOK
<1>2. Drawn' /\ OldSeedsDead'
  BY <1>0 DEF Delete, DestroyKey, SeDestroy, Ready, Drawn, OldSeedsDead
<1>3. TypeOK'
  BY <1>0, OpKinds DEF Delete, DestroyKey, SeDestroy, Ready, TypeOK
<1>4. Phases'
  BY <1>0, OpKinds DEF Delete, DestroyKey, SeDestroy, Ready, Phases
<1>5. Mirror'
  BY <1>0 DEF Delete, DestroyKey, SeDestroy, Ready, Mirror
<1>6. Seeded'
  BY <1>0, OpKinds DEF Delete, DestroyKey, SeDestroy, Ready, Seeded, Stored
<1>7. Making'
  BY <1>0 DEF Delete, DestroyKey, SeDestroy, Ready, Making, Stored
<1>8. Fresh'
  BY <1>0 DEF Delete, DestroyKey, SeDestroy, Ready, Fresh, Stored
<1>9. Leaving'
  BY <1>0, <1>1, OpFields, OpKinds, ItemFacts DEF Delete, DestroyKey,
      SeDestroy, Ready, Leaving, Settled, Stored, TypeOK, Phases, Mirror
<1>10. KeysSurviveRestart'
  BY <1>0, <1>1, OpFields, OpKinds, ItemFacts DEF Delete, DestroyKey,
      SeDestroy, Ready, KeysSurviveRestart, Stored
<1>11. ItemsAccounted'
  BY <1>0, OpKinds DEF Delete, DestroyKey, SeDestroy, Ready, ItemsAccounted,
      Stored
<1> QED
  BY <1>2, <1>3, <1>4, <1>5, <1>6, <1>7, <1>8, <1>9, <1>10, <1>11 DEF KeysInv

LEMMA EraseOK ==
  ASSUME KeysInv, Erase
  PROVE  KeysInv'
<1> USE DEF memory, ghosts
<1>0. /\ TypeOK /\ Drawn /\ Phases /\ Mirror /\ Seeded /\ Making /\ Fresh /\ Leaving
      /\ KeysSurviveRestart /\ OldSeedsDead /\ ItemsAccounted
  BY DEF KeysInv
<1>1. op \in Ops
  BY <1>0 DEF TypeOK
<1>2. TypeOK'
  BY <1>0, <1>1, OpFields, OpKinds, ItemFacts DEF Erase, TypeOK, Phases,
      Mirror, Making, Documents, NoRows, EmptyDocument
<1>3. Drawn'
  BY <1>0 DEF Erase, Drawn
<1>4. Phases'
  BY <1>0, OpKinds DEF Erase, Phases
<1>5. Mirror'
  BY <1>0, OpKinds DEF Erase, Mirror
<1>6. Seeded'
  BY <1>0 DEF Erase, Seeded, Stored, TypeOK
<1>7. Making'
  BY <1>0, OpKinds DEF Erase, Making, Stored
<1>8. Fresh'
  BY <1>0, <1>1, OpFields, OpKinds, ItemFacts DEF Erase, Fresh, Stored,
      TypeOK, Phases, Mirror
<1>9. Leaving'
  BY <1>0, <1>1, OpFields, OpKinds, ItemFacts DEF Erase, Leaving, Settled,
      Stored, TypeOK, Phases, Mirror
<1>10. KeysSurviveRestart'
  BY <1>0, <1>1, OpFields, OpKinds, ItemFacts DEF Erase, KeysSurviveRestart,
      Stored, TypeOK, Phases, Mirror
<1>11. OldSeedsDead'
  BY <1>0 DEF Erase, OldSeedsDead, Stored, TypeOK
<1>12. ItemsAccounted'
  BY <1>0, <1>1, OpFields, OpKinds, NoneAssumption, KeysAssumption, ItemFacts
      DEF Erase, ItemsAccounted, Stored, TypeOK, Documents, Rows, Seeds,
      Kinds, NoRows, EmptyDocument, Phases, Mirror, Drawn, Making, Seeded,
      Fresh, Leaving, Settled, KeysSurviveRestart, OldSeedsDead
<1> QED
  BY <1>2, <1>3, <1>4, <1>5, <1>6, <1>7, <1>8, <1>9, <1>10, <1>11, <1>12 DEF KeysInv

LEMMA ResetOK ==
  ASSUME KeysInv, Reset
  PROVE  KeysInv'
<1> USE DEF memory, ghosts
<1>0. /\ TypeOK /\ Drawn /\ Phases /\ Mirror /\ Seeded /\ Making /\ Fresh /\ Leaving
      /\ KeysSurviveRestart /\ OldSeedsDead /\ ItemsAccounted
  BY DEF KeysInv
<1>1. op \in Ops
  BY <1>0 DEF TypeOK
<1>2. Drawn' /\ Fresh' /\ KeysSurviveRestart' /\ OldSeedsDead'
  BY <1>0 DEF Reset, Ready, Drawn, Fresh, KeysSurviveRestart, OldSeedsDead
<1>3. TypeOK'
  BY <1>0, <1>1, OpFields, OpKinds, ItemFacts DEF Reset, Ready, TypeOK,
      Phases, Mirror, Making, Stored
<1>4. Phases'
  BY <1>0, OpKinds DEF Reset, Ready, Phases
<1>5. Mirror'
  BY <1>0 DEF Reset, Ready, Mirror
<1>6. Seeded'
  BY <1>0, OpKinds DEF Reset, Ready, Seeded, Stored
<1>7. Making'
  BY <1>0 DEF Reset, Ready, Making, Stored
<1>8. Leaving'
  BY <1>0 DEF Reset, Ready, Leaving, Settled, Stored
<1>9. ItemsAccounted'
  BY <1>0, OpKinds DEF Reset, Ready, ItemsAccounted, Stored
<1> QED
  BY <1>2, <1>3, <1>4, <1>5, <1>6, <1>7, <1>8, <1>9 DEF KeysInv

LEMMA ResetDestroyOK ==
  ASSUME KeysInv, NEW c \in Creds, ResetDestroy(c)
  PROVE  KeysInv'
<1> USE DEF memory, ghosts
<1>0. /\ TypeOK /\ Drawn /\ Phases /\ Mirror /\ Seeded /\ Making /\ Fresh /\ Leaving
      /\ KeysSurviveRestart /\ OldSeedsDead /\ ItemsAccounted
  BY DEF KeysInv
<1>1. op \in Ops
  BY <1>0 DEF TypeOK
<1>2. Drawn' /\ OldSeedsDead'
  BY <1>0 DEF ResetDestroy, DestroyKey, SeDestroy, Drawn, OldSeedsDead
<1>3. TypeOK'
  <2>1. op' \in Ops
    BY <1>1, OpFields DEF ResetDestroy
  <2>2. items' \subseteq Items /\ leaked' \subseteq Creds /\ doomed' \subseteq Creds
    BY <1>0 DEF ResetDestroy, DestroyKey, SeDestroy, TypeOK
  <2> QED
    BY <1>0, <2>1, <2>2 DEF ResetDestroy, TypeOK
<1>4. Phases'
  BY <1>0 DEF ResetDestroy, DestroyKey, SeDestroy, Phases
<1>5. Mirror'
  BY <1>0 DEF ResetDestroy, DestroyKey, SeDestroy, Mirror
<1>6. Seeded'
  BY <1>0 DEF ResetDestroy, DestroyKey, SeDestroy, Seeded, Stored
<1>7. Making'
  BY <1>0 DEF ResetDestroy, DestroyKey, SeDestroy, Making, Stored
<1>8. Fresh'
  BY <1>0 DEF ResetDestroy, DestroyKey, SeDestroy, Fresh, Stored
<1>9. Leaving'
  BY <1>0, <1>1, OpFields, OpKinds, ItemFacts DEF ResetDestroy, DestroyKey,
      SeDestroy, Leaving, Settled, Stored, TypeOK, Phases, Mirror
<1>10. KeysSurviveRestart'
  BY <1>0, <1>1, OpFields, OpKinds, ItemFacts DEF ResetDestroy, DestroyKey,
      SeDestroy, KeysSurviveRestart, Stored
<1>11. ItemsAccounted'
  BY <1>0 DEF ResetDestroy, DestroyKey, SeDestroy, ItemsAccounted, Stored
<1> QED
  BY <1>2, <1>3, <1>4, <1>5, <1>6, <1>7, <1>8, <1>9, <1>10, <1>11 DEF KeysInv

LEMMA WipeOK ==
  ASSUME KeysInv, Wipe
  PROVE  KeysInv'
<1> USE DEF memory, ghosts
<1>0. /\ TypeOK /\ Drawn /\ Phases /\ Mirror /\ Seeded /\ Making /\ Fresh /\ Leaving
      /\ KeysSurviveRestart /\ OldSeedsDead /\ ItemsAccounted
  BY DEF KeysInv
<1>1. op \in Ops
  BY <1>0 DEF TypeOK
<1>2. TypeOK'
  <2>1. op' \in Ops
    BY OpKinds DEF Wipe
  <2>2. NoRows \in [Creds -> Rows \cup {None}]
    BY DEF NoRows
  <2>3. 0 \in Seeds
    BY KeysAssumption DEF Seeds
  <2>4. rows' \in [Creds -> Rows \cup {None}] /\ tpm' \in Seeds /\ disk' \in Documents
    BY <2>2, <2>3 DEF Wipe, EmptyDocument, Documents
  <2>5. failed' \in BOOLEAN
    BY <1>0 DEF Wipe, TypeOK
  <2> QED
    BY <1>0, <2>1, <2>4, <2>5 DEF Wipe, TypeOK
<1>3. Drawn'
  BY <1>0, <1>1, OpFields, OpKinds, NoneAssumption, KeysAssumption DEF Wipe,
      Drawn, TypeOK, Documents, Rows, Seeds, Kinds, NoRows, EmptyDocument,
      Phases
<1>4. Phases'
  BY <1>0, OpKinds DEF Wipe, Phases
<1>5. Mirror'
  BY <1>0, <1>1, OpFields, OpKinds DEF Wipe, Mirror, TypeOK, NoRows,
      EmptyDocument, Stored
<1>6. Seeded'
  BY <1>0, <1>1, OpFields, OpKinds DEF Wipe, Seeded, Stored, TypeOK,
      Documents, NoRows, EmptyDocument
<1>7. Making'
  BY <1>0, OpKinds DEF Wipe, Making, Stored
<1>8. Fresh'
  BY <1>0, <1>1, OpFields, OpKinds, ItemFacts DEF Wipe, Fresh, Stored, TypeOK,
      Phases, Mirror, Making, Documents, NoRows, EmptyDocument
<1>9. Leaving'
  BY <1>0, <1>1, OpFields, OpKinds, ItemFacts DEF Wipe, Leaving, Settled,
      Stored, TypeOK, Phases, Mirror, Making, Documents, NoRows, EmptyDocument
<1>10. KeysSurviveRestart'
  BY <1>0, <1>1, OpFields, OpKinds, ItemFacts DEF Wipe, KeysSurviveRestart,
      Stored, TypeOK, Phases, Mirror, Making, Documents, NoRows, EmptyDocument
<1>11. OldSeedsDead'
  BY <1>0, <1>1, OpFields, OpKinds DEF Wipe, OldSeedsDead, Stored, TypeOK,
      Documents, NoRows, EmptyDocument
<1>12. ItemsAccounted'
  BY <1>0, <1>1, OpFields, OpKinds, NoneAssumption, KeysAssumption, ItemFacts
      DEF Wipe, ItemsAccounted, Stored, TypeOK, Documents, Rows, Seeds, Kinds,
      NoRows, EmptyDocument, Phases, Mirror, Drawn, Making, Seeded, Fresh,
      Leaving, Settled, KeysSurviveRestart, OldSeedsDead
<1> QED
  BY <1>2, <1>3, <1>4, <1>5, <1>6, <1>7, <1>8, <1>9, <1>10, <1>11, <1>12 DEF KeysInv

LEMMA ReinitOK ==
  ASSUME KeysInv, Reinit
  PROVE  KeysInv'
<1> USE DEF memory, ghosts
<1>0. /\ TypeOK /\ Drawn /\ Phases /\ Mirror /\ Seeded /\ Making /\ Fresh /\ Leaving
      /\ KeysSurviveRestart /\ OldSeedsDead /\ ItemsAccounted
  BY DEF KeysInv
<1>1. op \in Ops
  BY <1>0 DEF TypeOK
<1>2. TypeOK'
  <2>1. op' \in Ops
    BY OpKinds DEF Reinit
  <2>2. 0 \in Seeds
    BY KeysAssumption DEF Seeds
  <2>3. issued < MaxSeed => issued + 1 \in Seeds
    BY <1>0, KeysAssumption DEF TypeOK, Seeds
  <2>4. TpmStateOrCreate => tpm' \in Seeds /\ issued' \in Seeds /\ disk' \in Documents
    BY <1>0, <2>3 DEF TpmStateOrCreate, TypeOK, Documents
  <2>5. TpmStateUnflushed => tpm' \in Seeds /\ issued' \in Seeds /\ disk' \in Documents
    BY <1>0, <2>3 DEF TpmStateUnflushed, TypeOK
  <2>6. NoReinit \/ TpmReinit
    BY DEF Reinit
  <2>7. /\ tpm' \in Seeds /\ issued' \in Seeds /\ disk' \in Documents
    BY <1>0, <2>4, <2>5, <2>6 DEF NoReinit, TpmReinit, TypeOK
  <2>8. primary' \in Seeds /\ barrier' \in Seeds /\ failed' \in BOOLEAN
    BY <1>0, <2>2, <2>6, <2>7 DEF NoReinit, TpmReinit, TpmInit, TpmShutDown, TypeOK
  <2> QED
    BY <1>0, <2>1, <2>7, <2>8 DEF Reinit, TypeOK
<1>3. Drawn'
  BY <1>0, <1>1, OpFields, OpKinds, NoneAssumption, KeysAssumption DEF Reinit,
      NoReinit, TpmReinit, TpmStateOrCreate, TpmStateUnflushed, TpmInit,
      TpmShutDown, Drawn, TypeOK, Documents, Rows, Seeds
<1>4. Phases'
  BY <1>0, OpKinds DEF Reinit, NoReinit, TpmReinit, TpmStateOrCreate,
      TpmStateUnflushed, TpmInit, TpmShutDown, Phases
<1>5. Mirror'
  BY <1>0, OpKinds DEF Reinit, NoReinit, TpmReinit, TpmStateOrCreate,
      TpmStateUnflushed, TpmInit, TpmShutDown, Mirror
<1>6. Seeded'
  BY <1>0, <1>1, OpFields, OpKinds, NoneAssumption, KeysAssumption DEF Reinit,
      NoReinit, TpmReinit, TpmStateOrCreate, TpmStateUnflushed, TpmInit,
      TpmShutDown, Seeded, Stored, TypeOK, Documents, Rows, Seeds, Kinds,
      NoRows, EmptyDocument, Phases, Mirror, Drawn, Making
<1>7. Making'
  BY <1>0, OpKinds DEF Reinit, NoReinit, TpmReinit, TpmStateOrCreate,
      TpmStateUnflushed, TpmInit, TpmShutDown, Making, Stored
<1>8. Fresh'
  BY <1>0, <1>1, OpFields, OpKinds, ItemFacts DEF Reinit, NoReinit, TpmReinit,
      TpmStateOrCreate, TpmStateUnflushed, TpmInit, TpmShutDown, Fresh,
      Stored, TypeOK, Phases, Mirror
<1>9. Leaving'
  BY <1>0, <1>1, OpFields, OpKinds, ItemFacts DEF Reinit, NoReinit, TpmReinit,
      TpmStateOrCreate, TpmStateUnflushed, TpmInit, TpmShutDown, Leaving,
      Settled, Stored, TypeOK, Phases, Mirror
<1>10. KeysSurviveRestart'
  BY <1>0, <1>1, OpFields, OpKinds, ItemFacts DEF Reinit, NoReinit, TpmReinit,
      TpmStateOrCreate, TpmStateUnflushed, TpmInit, TpmShutDown,
      KeysSurviveRestart, Stored, TypeOK, Phases, Mirror
<1>11. OldSeedsDead'
  BY <1>0, <1>1, OpFields, OpKinds, NoneAssumption, KeysAssumption DEF Reinit,
      NoReinit, TpmReinit, TpmStateOrCreate, TpmStateUnflushed, TpmInit,
      TpmShutDown, OldSeedsDead, Stored, TypeOK, Documents, Rows, Seeds,
      Kinds, NoRows, EmptyDocument, Phases, Mirror, Drawn, Making
<1>12. ItemsAccounted'
  BY <1>0, <1>1, OpFields, OpKinds, ItemFacts DEF Reinit, NoReinit, TpmReinit,
      TpmStateOrCreate, TpmStateUnflushed, TpmInit, TpmShutDown,
      ItemsAccounted, Stored, TypeOK, Phases, Mirror
<1> QED
  BY <1>2, <1>3, <1>4, <1>5, <1>6, <1>7, <1>8, <1>9, <1>10, <1>11, <1>12 DEF KeysInv

LEMMA InitKeys ==
  Init => KeysInv
<1> SUFFICES ASSUME Init PROVE KeysInv
  OBVIOUS
<1> USE DEF Init, Stored, NoRows, EmptyDocument
<1>1. op \in Ops /\ op.kind = "idle"
  BY OpKinds
<1>2. 0 \in Seeds /\ 0 <= 0 /\ ~(0 \in 1 .. 0)
  BY KeysAssumption DEF Seeds
<1>3. TypeOK
  BY <1>1, <1>2 DEF TypeOK, Documents
<1>4. Drawn /\ Phases /\ Mirror /\ Seeded /\ Making
  BY <1>1, <1>2, NoneAssumption DEF Drawn, Phases, Mirror, Seeded, Making, Kinds
<1>5. Fresh /\ Leaving
  BY <1>1 DEF Fresh, Leaving
<1>6. KeysSurviveRestart /\ OldSeedsDead /\ ItemsAccounted
  BY <1>2 DEF KeysSurviveRestart, OldSeedsDead, ItemsAccounted
<1> QED
  BY <1>3, <1>4, <1>5, <1>6 DEF KeysInv

LEMMA StutterKeys ==
  ASSUME KeysInv, UNCHANGED vars
  PROVE  KeysInv'
<1> USE DEF vars, memory, ghosts
<1>1. TypeOK' /\ Drawn' /\ Phases' /\ Mirror' /\ Seeded' /\ Making'
  BY DEF KeysInv, TypeOK, Drawn, Phases, Mirror, Seeded, Making
<1>2. Fresh' /\ Leaving' /\ KeysSurviveRestart' /\ OldSeedsDead' /\ ItemsAccounted'
  BY DEF KeysInv, Fresh, Leaving, Settled, KeysSurviveRestart, OldSeedsDead, ItemsAccounted
<1> QED
  BY <1>1, <1>2 DEF KeysInv

-----------------------------------------------------------------------------
(* The theorems.                                                           *)

(* The inductive invariant holds in every reachable state.                 *)
THEOREM KeysInvariant == Spec => []KeysInv
<1>1. Init => KeysInv
  BY InitKeys
<1>2. KeysInv /\ [Next]_vars => KeysInv'
  BY StartOK, ProbeSoftwareOK, ProbeNotBuiltOK, SeProbeOK, MakeTpm2OK, StopOK, GenerateOK,
     WrapSecretOK, WrapFailsOK, PutOK, PutFailsOK, ReplaceOK, SignOK, FlushOK, DeleteOK, EraseOK,
     ResetOK, ResetDestroyOK, WipeOK, ReinitOK, StutterKeys DEF Next
<1> QED
  BY <1>1, <1>2, PTL DEF Spec

(* The variables have their types.                                         *)
THEOREM KeysTypeOK == Spec => []TypeOK
<1>1. KeysInv => TypeOK
  BY DEF KeysInv
<1> QED
  BY <1>1, KeysInvariant, PTL

(* A restart finds what every key on disk needs, whatever backends the     *)
(* daemon ran with and whatever flushes and resets failed (Put, Wipe,      *)
(* reinit_after_reset).                                                    *)
THEOREM KeysRestart == Spec => []KeysSurviveRestart
<1>1. KeysInv => KeysSurviveRestart
  BY DEF KeysInv
<1> QED
  BY <1>1, KeysInvariant, PTL

(* A reset that succeeded puts every earlier TPM seed out of use.          *)
THEOREM KeysOldSeedsDead == Spec => []OldSeedsDead
<1>1. KeysInv => OldSeedsDead
  BY DEF KeysInv
<1> QED
  BY <1>1, KeysInvariant, PTL

(* An Enclave item without a row is being made, or was given up            *)
(* (destroy_key and the failures of makeCredential).                       *)
THEOREM KeysItemsAccounted == Spec => []ItemsAccounted
<1>1. KeysInv => ItemsAccounted
  BY DEF KeysInv
<1> QED
  BY <1>1, KeysInvariant, PTL

(* While the daemon runs, the keys of the backend in use can be used       *)
(* (load_key, unwrap_secret), also after a reset that failed.              *)
THEOREM KeysUsable == Spec => []SessionKeysUsable
<1>1. KeysInv => SessionKeysUsable
  <2> SUFFICES ASSUME KeysInv, Ready, NEW c \in Stored(rows),
                      c \notin doomed, failed \/ c \notin astray,
                      rows[c].backend \in {"software", kind}
               PROVE  LoadKey(c) /\ UnwrapSecret(c)
    BY DEF SessionKeysUsable
  <2>1. rows = disk.rows /\ disk.tpm \in {0, tpm} /\ op.kind = "idle" /\ kind \in Kinds
    BY OpKinds, NoneAssumption DEF KeysInv, TypeOK, Ready, Mirror, Phases
  <2>2. c \in Creds /\ c \in Stored(disk.rows) /\ rows[c] \in Rows
    BY <2>1 DEF Stored, KeysInv, TypeOK
  <2>3. CASE rows[c].backend = "software"
    BY <2>3 DEF LoadKey, UnwrapSecret
  <2>4. CASE rows[c].backend = "tpm" /\ kind = "tpm"
    <3>1. rows[c].seed = primary /\ primary # 0
      <4>1. CASE failed
        BY <2>4, <4>1 DEF KeysInv, Seeded
      <4>2. CASE ~failed
        BY <2>1, <2>2, <2>4, <4>2 DEF KeysInv, Seeded, KeysSurviveRestart
      <4> QED
        BY <4>1, <4>2
    <3> QED
      BY <2>4, <3>1 DEF LoadKey, UnwrapSecret, TpmSign, TpmUnwrapSecret, TpmLoadTransient
  <2>5. CASE rows[c].backend = "se" /\ kind = "se"
    <3>1. ItemsOf(c) \subseteq items
      BY <2>1, <2>2, <2>5 DEF KeysInv, KeysSurviveRestart
    <3> QED
      BY <2>5, <3>1, ItemFacts DEF LoadKey, UnwrapSecret, SeLoad, SeUnwrapSecret
  <2> QED
    BY <2>1, <2>2, <2>3, <2>4, <2>5 DEF Rows, Kinds
<1> QED
  BY <1>1, KeysInvariant, PTL

(* A step takes items away from the credential it is making, or from one   *)
(* that has a row.                                                         *)
LEMMA ItemsTakenHaveRows ==
  ASSUME KeysInv, Next, NEW c \in Creds, ~(ItemsOf(c) \cap items \subseteq items')
  PROVE  c \in Stored(disk.rows) \/ (op.kind = "make" /\ op.id = c)
<1>1. \A d, b : DestroyKey(d, b) => items \ ItemsOf(d) \subseteq items'
  BY DEF DestroyKey, SeDestroy
<1>2. \A d, b : DestroyKey(d, b) => d = c
  BY <1>1, ItemFacts
<1>3. ~ (items \subseteq items') /\ ~(items \ {Probe} \subseteq items')
  BY ItemFacts
<1>4. op.kind # "idle" => up
  BY DEF KeysInv, Phases
<1>5. up => Stored(rows) = Stored(disk.rows)
  BY DEF KeysInv, Mirror
<1>6. \/ PutFails
      \/ \E d \in Creds : Replace(d) \/ Delete(d) \/ ResetDestroy(d)
  <2>1. ~(\E pref \in Prefs : Start(pref)) /\ ~ProbeSoftware /\ ~ProbeNotBuilt /\ ~SeProbe
        /\ ~MakeTpm2 /\ ~Stop
    BY <1>3 DEF Start, ProbeSoftware, ProbeNotBuilt, SeProbe, MakeTpm2, Stop
  <2>2. /\ ~(\E d \in Creds : Generate(d)) /\ ~WrapSecret /\ ~WrapFails /\ ~Put /\ ~Erase
        /\ ~(\E d \in Creds, hmac \in BOOLEAN : Sign(d, hmac))
    BY <1>3 DEF Generate, SoftwareGenerate, TpmGenerate, SeGenerate, WrapSecret, TpmWrapSecret,
                SeWrapSecret, SoftwareWrapSecret, WrapFails, Put, Erase, Sign
  <2>3. ~Flush /\ ~Reset /\ ~Wipe /\ ~Reinit
    BY <1>3 DEF Flush, Reset, Wipe, Reinit
  <2> QED
    BY <2>1, <2>2, <2>3 DEF Next
<1>7. CASE PutFails
  BY <1>2, <1>7 DEF PutFails
<1>8. ASSUME NEW d \in Creds, Replace(d) \/ Delete(d) \/ ResetDestroy(d)
      PROVE  c \in Stored(disk.rows)
  <2>1. d = c
    BY <1>2, <1>8 DEF Replace, Delete, ResetDestroy
  <2>2. up /\ d \in Stored(rows)
    BY <1>4, <1>8 DEF Replace, Delete, ResetDestroy, Ready, KeysInv, Leaving
  <2> QED
    BY <1>5, <2>1, <2>2
<1> QED
  BY <1>6, <1>7, <1>8

(* An orphaned item stays, whatever commands, resets and restarts follow:  *)
(* destroy_key is only called for the key under way and for rows           *)
(* (Authenticator::cmd_reset, ctl_delete, makeCredential).                 *)
THEOREM KeysOrphansStay == Spec => OrphansStay
<1>1. KeysInv /\ [Next]_vars =>
        [\A c \in Creds : Orphaned(c) => ItemsOf(c) \cap items \subseteq items']_vars
  BY ItemsTakenHaveRows DEF Orphaned
<1> QED
  BY <1>1, KeysInvariant, PTL DEF Spec, OrphansStay

=============================================================================
