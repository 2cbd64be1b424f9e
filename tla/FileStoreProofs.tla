-------------------------- MODULE FileStoreProofs --------------------------
(***************************************************************************)
(* Proofs about the credential store, for any number of credentials, keys, *)
(* installations, restarts and crashes.                                    *)
(***************************************************************************)
EXTENDS FileStore, FiniteSetTheorems, TLAPS

-----------------------------------------------------------------------------
(* Typing, and what it rests on: every document in memory and on disk is   *)
(* well formed, and a process that runs knows its install id and DEK.      *)
TypeInv == TypeOK /\ (pc # "down" => dek # None)

LEMMA EmptyDocOK == EmptyDoc \in Docs
  BY DEF EmptyDoc, Docs

LEMMA SealedIsNoNoFile ==
  ASSUME NEW i \in Installs, NEW k \in Key, NEW d \in Docs
  PROVE  LET s == [install |-> i, dek |-> k, doc |-> d]
         IN  s \in Sealed /\ s \notin NoFile
<1> DEFINE s == [install |-> i, dek |-> k, doc |-> d]
<1>1. DOMAIN s = {"install", "dek", "doc"} /\ DOMAIN Absent = {"state"} /\ DOMAIN Zeroed = {"state"}
  BY DEF Absent, Zeroed
<1>2. s \notin NoFile
  BY <1>1 DEF NoFile
<1> QED
  BY <1>2 DEF Sealed

LEMMA SetRowOK ==
  ASSUME NEW d \in Docs, NEW id \in Ids, NEW r \in Rows \cup {None}
  PROVE  [d EXCEPT !.creds[id] = r] \in Docs
  BY DEF Docs

(* What the keychain's operations leave behind is well typed.              *)
LEMMA StoreDekOK ==
  ASSUME TypeOK, NEW i \in Installs, NEW k \in Deks, NEW o \in StoreDek(i, k)
  PROVE  /\ o.primary \in [Installs -> Deks \cup {None}]
         /\ o.fallback \in Key \cup {None}
         /\ o.degraded \in BOOLEAN /\ o.ok \in BOOLEAN
         /\ \A j \in Installs : j # i => o.primary[j] = primary[j]
<1>1. /\ primary \in [Installs -> Deks \cup {None}] /\ fallback \in Key \cup {None}
      /\ k \in Key
  BY DEF TypeOK, Key
<1>2. PICK p \in {primary, [primary EXCEPT ![i] = k], [primary EXCEPT ![i] = None]},
           f \in {k, fallback}, d \in BOOLEAN, b \in BOOLEAN : o = Outcome(p, f, d, b)
  BY DEF StoreDek, FallbackStore
<1>3. p \in [Installs -> Deks \cup {None}] /\ \A j \in Installs : j # i => p[j] = primary[j]
  BY <1>1
<1> QED
  BY <1>1, <1>2, <1>3 DEF Outcome

LEMMA LoadDekOK ==
  ASSUME NEW i, NEW l \in LoadDek(i)
  PROVE  l.degraded \in BOOLEAN /\ (~OsKeychain => l.degraded)
<1> DEFINE b == ~OsKeychain \/ (primary[i] = None /\ fallback # None)
<1>1. b \in BOOLEAN /\ (~OsKeychain => b)
  OBVIOUS
<1>2. \/ l = [dek |-> Loaded(i), degraded |-> b]
      \/ OsKeychain /\ l = [dek |-> fallback, degraded |-> TRUE]
  BY DEF LoadDek
<1> HIDE DEF b
<1>3. l.degraded = b \/ (OsKeychain /\ l.degraded = TRUE)
  BY <1>2
<1> QED
  BY <1>1, <1>3

-----------------------------------------------------------------------------
(* Every mutation: the outcomes of Mutate.                                 *)
LEMMA MutateType ==
  ASSUME TypeInv, NEW new \in Docs, NEW onFail \in Docs,
         NEW done \in [Ids -> SUBSET (Rows \cup {None})],
         NEW maybe \in [Ids -> SUBSET (Rows \cup {None})],
         Mutate(new, onFail, done, maybe)
  PROVE  TypeInv'
<1>1. pc = "up" /\ install \in Installs /\ dek \in Key
  BY DEF Mutate, TypeInv, TypeOK
<1>2. [install |-> install, dek |-> dek, doc |-> new] \in Sealed
  BY <1>1 DEF Sealed
<1>3. file' \in Sealed \cup NoFile
  BY <1>2 DEF Mutate, Save, TypeInv, TypeOK
<1>4. mem' \in Docs /\ promise' \in [Ids -> SUBSET (Rows \cup {None})]
  BY EmptyDocOK DEF Mutate, Gone, TypeInv, TypeOK
<1>5. /\ pc' \in {"up", "down"} /\ (pc' = "down" <=> install' = None)
      /\ install' \in Installs \cup {None} /\ dek' \in Key \cup {None}
      /\ pc' # "down" => dek' # None
  BY <1>1, FileStoreAssumption DEF Mutate, Gone, TypeInv, TypeOK, Key
<1>6. degraded' \in BOOLEAN /\ UNCHANGED <<primary, fallback, used>>
  BY FileStoreAssumption DEF Mutate, Gone, TypeInv, TypeOK
<1> QED
  BY <1>3, <1>4, <1>5, <1>6 DEF TypeInv, TypeOK

LEMMA SetRowType ==
  ASSUME TypeInv, NEW id \in Ids, NEW r \in Rows \cup {None}, NEW rollback \in BOOLEAN,
         SetRow(id, r, rollback)
  PROVE  TypeInv'
<1> DEFINE new == [mem EXCEPT !.creds[id] = r]
           done == [promise EXCEPT ![id] = {r}]
           maybe == [promise EXCEPT ![id] = @ \cup {r}]
<1>1. mem \in Docs /\ promise \in [Ids -> SUBSET (Rows \cup {None})]
  BY DEF TypeInv, TypeOK
<1>2. new \in Docs
  BY <1>1, SetRowOK
<1>3. done \in [Ids -> SUBSET (Rows \cup {None})] /\ maybe \in [Ids -> SUBSET (Rows \cup {None})]
  BY <1>1
<1>4. Mutate(new, IF rollback THEN mem ELSE new, done, maybe)
  BY DEF SetRow
<1>5. (IF rollback THEN mem ELSE new) \in Docs
  BY <1>1, <1>2
<1> HIDE DEF new, done, maybe
<1> QED
  BY <1>2, <1>3, <1>4, <1>5, MutateType

LEMMA AssignType ==
  ASSUME TypeInv, NEW new \in Docs, Assign(new)
  PROVE  TypeInv'
  BY MutateType DEF Assign, TypeInv, TypeOK

(* The three single-field mutations and the row mutations are all there is. *)
LEMMA OperateCases ==
  ASSUME TypeInv, Operate
  PROVE  \/ \E id \in Ids, r \in Rows \cup {None}, b \in BOOLEAN : SetRow(id, r, b)
         \/ \E new \in Docs : new.creds = mem.creds /\ Assign(new)
<1>1. mem \in Docs
  BY DEF TypeInv, TypeOK
<1>2. \A p \in Pins : [mem EXCEPT !.pin = p] \in Docs /\ [mem EXCEPT !.pin = p].creds = mem.creds
  BY <1>1 DEF Docs
<1>3. [mem EXCEPT !.tpm = TRUE] \in Docs /\ [mem EXCEPT !.tpm = TRUE].creds = mem.creds
  BY <1>1 DEF Docs
<1>4. [mem EXCEPT !.u2f = TRUE] \in Docs /\ [mem EXCEPT !.u2f = TRUE].creds = mem.creds
  BY <1>1 DEF Docs
<1> QED
  BY <1>2, <1>3, <1>4 DEF Operate, Put, UpdateCountAndUsed, Erase, SetPin, TpmStateOrCreate,
     SetU2fAttestation

-----------------------------------------------------------------------------
(* The inductive invariant.  MemKeepsPromise: what a later flush may write *)
(* is promised too.  ResetInv: while a reset runs there is no document,    *)
(* and only a process that is up has one in memory.                        *)
MemKeepsPromise == pc # "down" => \A id \in Ids : mem.creds[id] \in promise[id]
ResetInv ==
  /\ pc \notin {"down", "up"} => file \in NoFile
  /\ pc # "up" => mem = EmptyDoc
  /\ pc \in {"delete", "rotate", "flush"} => file = Absent
RowInv == TypeInv /\ ResetInv /\ MemKeepsPromise /\ RowsKeepPromise

LEMMA InitRowInv == Init => RowInv
<1> SUFFICES ASSUME Init PROVE RowInv
  OBVIOUS
<1>1. file \in NoFile /\ (~OsKeychain) \in BOOLEAN
  BY FileStoreAssumption DEF Init, NoFile
<1>2. TypeOK
  BY <1>1, EmptyDocOK DEF Init, TypeOK
<1> QED
  BY <1>1, <1>2 DEF Init, RowInv, TypeInv, ResetInv, MemKeepsPromise, RowsKeepPromise, Row

(* A mutation, whatever it changes, keeps the promises it makes.           *)
LEMMA MutateRow ==
  ASSUME RowInv, NEW new \in Docs, NEW onFail \in Docs,
         NEW done \in [Ids -> SUBSET (Rows \cup {None})],
         NEW maybe \in [Ids -> SUBSET (Rows \cup {None})],
         Mutate(new, onFail, done, maybe),
         onFail \in {mem, new},
         \A id \in Ids : /\ new.creds[id] \in done[id]
                         /\ new.creds[id] \in maybe[id]
                         /\ promise[id] \subseteq maybe[id]
  PROVE  RowInv'
<1>1. pc = "up" /\ install \in Installs /\ dek \in Key
  BY DEF Mutate, RowInv, TypeInv, TypeOK
<1>2. TypeInv'
  BY MutateType DEF RowInv
<1>3. pc' = "up" \/ (pc' = "down" /\ mem' = EmptyDoc)
  BY <1>1 DEF Mutate, Gone
<1>4. ResetInv'
  BY <1>3 DEF ResetInv
<1> DEFINE s == [install |-> install, dek |-> dek, doc |-> new]
<1>5. s \notin NoFile /\ s.doc = new
  BY <1>1, SealedIsNoNoFile
<1>6. CASE Save(new) /\ mem' = new /\ promise' = done
  <2>1. MemKeepsPromise'
    BY <1>6 DEF MemKeepsPromise
  <2>2. RowsKeepPromise'
    BY <1>5, <1>6 DEF RowsKeepPromise, Row, Save
  <2> QED
    BY <2>1, <2>2, <1>2, <1>4 DEF RowInv
<1>7. CASE /\ mem' = onFail /\ promise' = (IF onFail = mem THEN promise ELSE maybe)
           /\ UNCHANGED <<file, pc>>
  <2>1. MemKeepsPromise'
    BY <1>1, <1>7 DEF MemKeepsPromise, RowInv
  <2>2. RowsKeepPromise'
    BY <1>7 DEF RowsKeepPromise, Row, RowInv
  <2> QED
    BY <2>1, <2>2, <1>2, <1>4 DEF RowInv
<1>8. CASE Save(new) /\ Gone /\ promise' = maybe
  <2>1. MemKeepsPromise'
    BY <1>8 DEF MemKeepsPromise, Gone
  <2>2. RowsKeepPromise'
    BY <1>5, <1>8 DEF RowsKeepPromise, Row, Save
  <2> QED
    BY <2>1, <2>2, <1>2, <1>4 DEF RowInv
<1> QED
  BY <1>6, <1>7, <1>8 DEF Mutate

LEMMA OperateRow == RowInv /\ Operate => RowInv'
<1> SUFFICES ASSUME RowInv, Operate PROVE RowInv'
  OBVIOUS
<1>1. /\ mem \in Docs /\ promise \in [Ids -> SUBSET (Rows \cup {None})]
      /\ TypeInv
  BY DEF RowInv, TypeInv, TypeOK
<1>2. pc = "up"
  BY DEF Operate, Put, UpdateCountAndUsed, Erase, SetPin, TpmStateOrCreate, SetU2fAttestation,
     SetRow, Assign, Mutate
<1>3. \A id \in Ids : mem.creds[id] \in promise[id]
  BY <1>2 DEF RowInv, MemKeepsPromise
<1>4. ASSUME NEW id \in Ids, NEW r \in Rows \cup {None}, NEW b \in BOOLEAN, SetRow(id, r, b)
      PROVE  RowInv'
  <2> DEFINE new == [mem EXCEPT !.creds[id] = r]
             done == [promise EXCEPT ![id] = {r}]
             maybe == [promise EXCEPT ![id] = @ \cup {r}]
             fail == IF b THEN mem ELSE new
  <2>1. new \in Docs /\ fail \in Docs /\ fail \in {mem, new}
    BY <1>1, SetRowOK
  <2>2. done \in [Ids -> SUBSET (Rows \cup {None})] /\ maybe \in [Ids -> SUBSET (Rows \cup {None})]
    BY <1>1
  <2>3. \A x \in Ids : new.creds[x] = IF x = id THEN r ELSE mem.creds[x]
    BY <1>1 DEF Docs
  <2>4. \A x \in Ids : /\ done[x] = IF x = id THEN {r} ELSE promise[x]
                       /\ maybe[x] = IF x = id THEN promise[x] \cup {r} ELSE promise[x]
    BY <1>1
  <2>5. \A x \in Ids : /\ new.creds[x] \in done[x] /\ new.creds[x] \in maybe[x]
                       /\ promise[x] \subseteq maybe[x]
    BY <1>3, <2>3, <2>4
  <2>6. Mutate(new, fail, done, maybe)
    BY <1>4 DEF SetRow
  <2> HIDE DEF new, done, maybe, fail
  <2> QED
    BY <2>1, <2>2, <2>5, <2>6, MutateRow
<1>5. ASSUME NEW new \in Docs, new.creds = mem.creds, Assign(new)
      PROVE  RowInv'
  BY <1>1, <1>3, <1>5, MutateRow DEF Assign
<1> QED
  BY <1>1, <1>4, <1>5, OperateCases

LEMMA OpenRow == RowInv /\ (OpenExisting \/ OpenFresh) => RowInv'
<1>1. ASSUME RowInv, OpenExisting PROVE RowInv'
  <2>1. file \in Sealed /\ file.doc \in Docs /\ file.install \in Installs /\ file.dek \in Key
    BY <1>1 DEF OpenExisting, RowInv, TypeInv, TypeOK, Sealed
  <2>2. degraded' \in BOOLEAN
    BY <1>1, LoadDekOK DEF OpenExisting
  <2>3. /\ pc' = "up" /\ install' = file.install /\ dek' = file.dek /\ mem' = file.doc
        /\ UNCHANGED <<file, primary, fallback, used, promise>> /\ file \notin NoFile
    BY <1>1 DEF OpenExisting
  <2>4. TypeInv'
    BY <1>1, <2>1, <2>2, <2>3, FileStoreAssumption DEF RowInv, TypeInv, TypeOK, Key
  <2>5. ResetInv' /\ RowsKeepPromise'
    BY <1>1, <2>3 DEF RowInv, ResetInv, RowsKeepPromise, Row
  <2>6. MemKeepsPromise'
    BY <1>1, <2>3 DEF RowInv, MemKeepsPromise, RowsKeepPromise, Row
  <2> QED
    BY <2>4, <2>5, <2>6 DEF RowInv
<1>2. ASSUME RowInv, OpenFresh PROVE RowInv'
  <2>1. PICK i \in Installs \ used, k \in Deks \ used : \E o \in StoreDek(i, k) :
          /\ used' = used \cup {i, k}
          /\ primary' = o.primary /\ fallback' = o.fallback
          /\ \/ /\ o.ok
                /\ file' = [install |-> i, dek |-> k, doc |-> EmptyDoc]
                /\ pc' = "up" /\ install' = i /\ dek' = k /\ mem' = EmptyDoc
                /\ degraded' = o.degraded
             \/ UNCHANGED file /\ Gone
    BY <1>2 DEF OpenFresh
  <2>2. PICK o \in StoreDek(i, k) :
          /\ used' = used \cup {i, k}
          /\ primary' = o.primary /\ fallback' = o.fallback
          /\ \/ /\ o.ok
                /\ file' = [install |-> i, dek |-> k, doc |-> EmptyDoc]
                /\ pc' = "up" /\ install' = i /\ dek' = k /\ mem' = EmptyDoc
                /\ degraded' = o.degraded
             \/ UNCHANGED file /\ Gone
    BY <2>1
  <2>3. TypeOK /\ used' \subseteq Installs \cup Deks /\ k \in Key
    BY <1>2, <2>1, <2>2 DEF RowInv, TypeInv, TypeOK, Key
  <2>4. /\ primary' \in [Installs -> Deks \cup {None}] /\ fallback' \in Key \cup {None}
        /\ o.degraded \in BOOLEAN
    BY <2>2, <2>3, StoreDekOK
  <2>5. pc = "down" /\ file = Absent /\ promise' = promise
    BY <1>2 DEF OpenFresh
  <2>6. \A id \in Ids : None \in promise[id]
    BY <1>2, <2>5 DEF RowInv, RowsKeepPromise, Row, NoFile
  <2>7. \A id \in Ids : EmptyDoc.creds[id] = None
    BY DEF EmptyDoc
  <2> DEFINE s == [install |-> i, dek |-> k, doc |-> EmptyDoc]
  <2>8. s \in Sealed /\ s \notin NoFile /\ s.doc = EmptyDoc
    BY <2>1, <2>3, EmptyDocOK, SealedIsNoNoFile
  <2> HIDE DEF s
  <2>9. CASE /\ file' = s /\ pc' = "up" /\ install' = i /\ dek' = k /\ mem' = EmptyDoc
             /\ degraded' = o.degraded
    <3>1. TypeInv'
      BY <2>1, <2>3, <2>4, <2>5, <2>8, <2>9, EmptyDocOK, FileStoreAssumption DEF TypeInv, TypeOK, Key
    <3>2. ResetInv' /\ MemKeepsPromise' /\ RowsKeepPromise'
      BY <2>5, <2>6, <2>7, <2>8, <2>9 DEF ResetInv, MemKeepsPromise, RowsKeepPromise, Row
    <3> QED
      BY <3>1, <3>2 DEF RowInv
  <2>10. CASE UNCHANGED file /\ Gone
    <3>1. TypeInv'
      BY <2>3, <2>4, <2>5, <2>10, EmptyDocOK, FileStoreAssumption DEF TypeInv, TypeOK, Gone
    <3>2. ResetInv' /\ MemKeepsPromise' /\ RowsKeepPromise'
      BY <1>2, <2>5, <2>10 DEF RowInv, ResetInv, MemKeepsPromise, RowsKeepPromise, Row, Gone
    <3> QED
      BY <3>1, <3>2 DEF RowInv
  <2> QED
    BY <2>2, <2>9, <2>10 DEF s
<1> QED
  BY <1>1, <1>2

LEMMA ResetRow == RowInv /\ Reset => RowInv'
<1> SUFFICES ASSUME RowInv, Reset PROVE RowInv'
  OBVIOUS
<1>0. TypeOK /\ TypeInv
  BY DEF RowInv, TypeInv
<1>1. CASE ResetZero
  <2>1. file' \in NoFile
    BY <1>1 DEF ResetZero, NoFile
  <2>2. TypeInv'
    BY <1>0, <1>1, <2>1, EmptyDocOK DEF ResetZero, TypeInv, TypeOK, keychain
  <2>3. ResetInv' /\ MemKeepsPromise' /\ RowsKeepPromise'
    BY <1>1, <2>1 DEF ResetZero, ResetInv, MemKeepsPromise, RowsKeepPromise, Row, EmptyDoc
  <2> QED
    BY <2>2, <2>3 DEF RowInv
<1>2. CASE ResetUnlink
  <2>1. file' \in NoFile
    BY <1>2 DEF ResetUnlink, NoFile
  <2>2. TypeInv'
    BY <1>0, <1>2, <2>1 DEF ResetUnlink, TypeInv, TypeOK, keychain
  <2>3. ResetInv' /\ MemKeepsPromise' /\ RowsKeepPromise'
    BY <1>2, <2>1 DEF ResetUnlink, RowInv, ResetInv, MemKeepsPromise, RowsKeepPromise, Row
  <2> QED
    BY <2>2, <2>3 DEF RowInv
<1>3. CASE ResetDelete
  <2>1. /\ pc = "delete" /\ install \in Installs /\ pc' = "rotate"
        /\ UNCHANGED <<file, degraded, install, dek, mem, used, promise>>
    BY <1>0, <1>3 DEF ResetDelete, TypeOK
  <2>2. /\ primary' \in [Installs -> Deks \cup {None}]
        /\ fallback' \in Key \cup {None}
    BY <1>0, <1>3, <2>1 DEF ResetDelete, PrimaryDeleted, FallbackDeleted, TypeOK, Key
  <2>3. TypeInv'
    BY <1>0, <2>1, <2>2 DEF TypeInv, TypeOK
  <2>4. ResetInv' /\ MemKeepsPromise' /\ RowsKeepPromise'
    BY <2>1 DEF RowInv, ResetInv, MemKeepsPromise, RowsKeepPromise, Row
  <2> QED
    BY <2>3, <2>4 DEF RowInv
<1>4. CASE ResetRotate
  <2>1. /\ pc = "rotate" /\ install \in Installs /\ pc' \in {"flush", "up"}
        /\ UNCHANGED <<file, install, mem, promise>>
    BY <1>0, <1>4 DEF ResetRotate, TypeOK
  <2>2. /\ primary' \in [Installs -> Deks \cup {None}] /\ fallback' \in Key \cup {None}
        /\ degraded' \in BOOLEAN /\ dek' \in Key /\ used' \subseteq Installs \cup Deks
    <3>1. CASE dek' = ZeroDek /\ UNCHANGED <<keychain, used>>
      BY <1>0, <3>1 DEF keychain, TypeOK, Key
    <3>2. ASSUME NEW k \in Deks \ used, NEW o \in StoreDek(install, k),
                 dek' = k, used' = used \cup {k}, SetKeychain(o)
          PROVE  /\ primary' \in [Installs -> Deks \cup {None}] /\ fallback' \in Key \cup {None}
                 /\ degraded' \in BOOLEAN /\ dek' \in Key /\ used' \subseteq Installs \cup Deks
      BY <1>0, <2>1, <3>2, StoreDekOK DEF SetKeychain, TypeOK, Key
    <3> QED
      BY <1>4, <3>1, <3>2 DEF ResetRotate
  <2>3. TypeInv'
    BY <1>0, <2>1, <2>2, FileStoreAssumption DEF TypeInv, TypeOK, Key
  <2>4. ResetInv' /\ MemKeepsPromise' /\ RowsKeepPromise'
    BY <2>1 DEF RowInv, ResetInv, MemKeepsPromise, RowsKeepPromise, Row
  <2> QED
    BY <2>3, <2>4 DEF RowInv
<1>5. CASE ResetFlush
  <2>1. /\ pc = "flush" /\ pc' = "up" /\ install \in Installs /\ dek \in Key /\ mem \in Docs
        /\ UNCHANGED <<primary, fallback, degraded, install, dek, mem, used, promise>>
    BY <1>0, <1>5 DEF ResetFlush, TypeInv, TypeOK, keychain
  <2> DEFINE s == [install |-> install, dek |-> dek, doc |-> mem]
  <2>2. s \in Sealed /\ s \notin NoFile /\ s.doc = mem
    BY <2>1, SealedIsNoNoFile
  <2>3. file' = s \/ file' = file
    BY <1>5 DEF ResetFlush, Save
  <2> HIDE DEF s
  <2>4. TypeInv'
    BY <1>0, <2>1, <2>2, <2>3 DEF TypeInv, TypeOK
  <2>5. ResetInv' /\ MemKeepsPromise' /\ RowsKeepPromise'
    BY <2>1, <2>2, <2>3 DEF RowInv, ResetInv, MemKeepsPromise, RowsKeepPromise, Row
  <2> QED
    BY <2>4, <2>5 DEF RowInv
<1> QED
  BY <1>1, <1>2, <1>3, <1>4, <1>5 DEF Reset

LEMMA CrashRow == RowInv /\ Crash => RowInv'
<1> SUFFICES ASSUME RowInv, Crash PROVE RowInv'
  OBVIOUS
<1>1. fallback' \in Key \cup {None} /\ UNCHANGED <<file, primary, used, promise>> /\ Gone
  BY DEF Crash, RowInv, TypeInv, TypeOK, Key
<1>2. TypeInv'
  BY <1>1, EmptyDocOK, FileStoreAssumption DEF RowInv, TypeInv, TypeOK, Gone
<1> QED
  BY <1>1, <1>2 DEF RowInv, ResetInv, MemKeepsPromise, RowsKeepPromise, Row, Gone

(* The rows' inductive invariant, whatever fails.                          *)
THEOREM FileStoreInvariant == Spec => []RowInv
<1>1. RowInv /\ [Next]_vars => RowInv'
  <2> SUFFICES ASSUME RowInv, [Next]_vars PROVE RowInv'
    OBVIOUS
  <2>1. CASE UNCHANGED vars
    BY <2>1 DEF vars, keychain, RowInv, TypeInv, TypeOK, ResetInv, MemKeepsPromise,
       RowsKeepPromise, Row
  <2> QED
    BY <2>1, OpenRow, OperateRow, ResetRow, CrashRow DEF Next, OpenRefused
<1> QED
  BY <1>1, InitRowInv, PTL DEF Spec

(* credential.hpp:71-73, for every fault: a restart finds each row as its  *)
(* last successful mutation left it, or as one tried since would have.     *)
THEOREM FileStoreRows == Spec => []RowsKeepPromise
<1>1. RowInv => RowsKeepPromise
  BY DEF RowInv
<1> QED
  BY <1>1, FileStoreInvariant, PTL

(* Type correctness of the store, whatever fails.                          *)
THEOREM FileStoreTypeOK == Spec => []TypeOK
<1>1. RowInv => TypeOK
  BY DEF RowInv, TypeInv
<1> QED
  BY <1>1, FileStoreInvariant, PTL

-----------------------------------------------------------------------------
(* The capacity.  Ids may be infinite, so that the rows are finite in      *)
(* number is part of it.                                                   *)

Fits(doc) == IsFiniteSet(Stored(doc)) /\ Cardinality(Stored(doc)) <= MaxCredentials
CapInv == Fits(mem) /\ (file \notin NoFile => Fits(file.doc))

LEMMA EmptyDocFits == Fits(EmptyDoc)
<1>1. Stored(EmptyDoc) = {}
  BY DEF Stored, EmptyDoc
<1> QED
  BY <1>1, FS_EmptySet, FileStoreAssumption DEF Fits

(* put() checks the limit only for a new row; the other mutations of rows  *)
(* add none.                                                               *)
LEMMA SetRowFits ==
  ASSUME mem \in Docs, Fits(mem), NEW id \in Ids, NEW r \in Rows \cup {None},
         \/ r = None \/ mem.creds[id] # None
         \/ Cardinality(Stored(mem)) < MaxCredentials
  PROVE  Fits([mem EXCEPT !.creds[id] = r])
<1> DEFINE new == [mem EXCEPT !.creds[id] = r]
<1>1. \A i \in Ids : new.creds[i] = IF i = id THEN r ELSE mem.creds[i]
  BY DEF Docs
<1>2. IsFiniteSet(Stored(mem)) /\ Cardinality(Stored(mem)) \in Nat
  BY FS_CardinalityType DEF Fits
<1> HIDE DEF new
<1>3. CASE r = None \/ mem.creds[id] # None
  <2>1. Stored(new) \subseteq Stored(mem)
    BY <1>1, <1>3 DEF Stored
  <2>2. IsFiniteSet(Stored(new)) /\ Cardinality(Stored(new)) <= Cardinality(Stored(mem))
    BY <1>2, <2>1, FS_Subset
  <2>3. Cardinality(Stored(new)) \in Nat
    BY <2>2, FS_CardinalityType
  <2> QED
    BY <1>2, <2>2, <2>3, FileStoreAssumption DEF Fits, new
<1>4. CASE r # None /\ mem.creds[id] = None /\ Cardinality(Stored(mem)) < MaxCredentials
  <2>1. Stored(new) = Stored(mem) \cup {id} /\ id \notin Stored(mem)
    BY <1>1, <1>4 DEF Stored
  <2>2. IsFiniteSet(Stored(new)) /\ Cardinality(Stored(new)) = Cardinality(Stored(mem)) + 1
    BY <1>2, <2>1, FS_AddElement
  <2> QED
    BY <1>2, <1>4, <2>2, FileStoreAssumption DEF Fits, new
<1> QED
  BY <1>3, <1>4

LEMMA MutateCap ==
  ASSUME TypeInv, CapInv, NEW new, Fits(new), NEW onFail \in {mem, new}, NEW done, NEW maybe,
         Mutate(new, onFail, done, maybe)
  PROVE  CapInv'
<1>1. Fits(EmptyDoc)
  BY EmptyDocFits
<1>2. mem' = mem \/ mem' = new \/ mem' = EmptyDoc
  BY DEF Mutate, Gone
<1>3. Fits(mem')
  BY <1>1, <1>2 DEF CapInv
<1>4. file' = file \/ file' = [install |-> install, dek |-> dek, doc |-> new]
  BY DEF Mutate, Save
<1>5. file' \notin NoFile => Fits(file'.doc)
  BY <1>4 DEF CapInv
<1> QED
  BY <1>3, <1>5 DEF CapInv, Fits, Stored

LEMMA OperateCap ==
  ASSUME TypeInv, CapInv, Operate
  PROVE  CapInv'
<1>1. mem \in Docs /\ Fits(mem)
  BY DEF TypeInv, TypeOK, CapInv
<1>2. ASSUME NEW id \in Ids, NEW r \in Rows \cup {None}, NEW b \in BOOLEAN, SetRow(id, r, b),
             \/ r = None \/ mem.creds[id] # None
             \/ Cardinality(Stored(mem)) < MaxCredentials
      PROVE  CapInv'
  <2> DEFINE new == [mem EXCEPT !.creds[id] = r]
             fail == IF b THEN mem ELSE new
  <2>1. Fits(new) /\ fail \in {mem, new}
    BY <1>1, <1>2, SetRowFits
  <2>2. \E done, maybe : Mutate(new, fail, done, maybe)
    BY <1>2 DEF SetRow
  <2> HIDE DEF new, fail
  <2> QED
    BY <2>1, <2>2, MutateCap
<1>3. ASSUME NEW new \in Docs, new.creds = mem.creds, Assign(new)
      PROVE  CapInv'
  <2>1. Fits(new)
    BY <1>1, <1>3 DEF Fits, Stored
  <2> QED
    BY <1>3, <2>1, MutateCap DEF Assign
<1>4. CASE \E id \in Ids : \/ \E r \in Rows : Put(id, r) \/ UpdateCountAndUsed(id, r)
                          \/ Erase(id)
  BY <1>2, <1>4 DEF Put, UpdateCountAndUsed, Erase
<1>5. CASE (\E p \in Pins : SetPin(p)) \/ TpmStateOrCreate \/ SetU2fAttestation
  <2>1. \A p \in Pins : [mem EXCEPT !.pin = p] \in Docs /\ [mem EXCEPT !.pin = p].creds = mem.creds
    BY <1>1 DEF Docs
  <2>2. [mem EXCEPT !.tpm = TRUE] \in Docs /\ [mem EXCEPT !.tpm = TRUE].creds = mem.creds
    BY <1>1 DEF Docs
  <2>3. [mem EXCEPT !.u2f = TRUE] \in Docs /\ [mem EXCEPT !.u2f = TRUE].creds = mem.creds
    BY <1>1 DEF Docs
  <2> QED
    BY <1>3, <1>5, <2>1, <2>2, <2>3 DEF SetPin, TpmStateOrCreate, SetU2fAttestation
<1> QED
  BY <1>4, <1>5 DEF Operate

LEMMA OtherCap ==
  ASSUME CapInv, OpenExisting \/ OpenRefused \/ OpenFresh \/ Reset \/ Crash \/ UNCHANGED vars
  PROVE  CapInv'
<1>1. Fits(EmptyDoc)
  BY EmptyDocFits
<1>2. \/ mem' = mem \/ mem' = EmptyDoc
      \/ file \notin NoFile /\ mem' = file.doc
  BY DEF OpenExisting, OpenRefused, OpenFresh, Reset, ResetZero, ResetUnlink, ResetDelete,
     ResetRotate, ResetFlush, Crash, Gone, vars
<1>3. Fits(mem')
  BY <1>1, <1>2 DEF CapInv
<1>4. \/ file' = file \/ file' \in NoFile
      \/ \E i, k : \E d \in {mem, EmptyDoc} : file' = [install |-> i, dek |-> k, doc |-> d]
  BY DEF OpenExisting, OpenRefused, OpenFresh, Reset, ResetZero, ResetUnlink, ResetDelete,
     ResetRotate, ResetFlush, Crash, vars, Save, NoFile
<1>5. file' \notin NoFile => Fits(file'.doc)
  BY <1>1, <1>4 DEF CapInv
<1> QED
  BY <1>3, <1>5 DEF CapInv, Fits, Stored

(* kMaxCredentials bounds the rows in memory and on disk whatever fails,   *)
(* so remaining() (credential_store.cpp:447-455) does not wrap around.     *)
THEOREM FileStoreCapacity == Spec => []CapacityRespected
<1>1. Init => CapInv
  <2> SUFFICES ASSUME Init PROVE CapInv
    OBVIOUS
  <2>1. mem = EmptyDoc /\ file \in NoFile
    BY DEF Init, NoFile
  <2> QED
    BY <2>1, EmptyDocFits DEF CapInv
<1>2. CapInv /\ RowInv /\ [Next]_vars => CapInv'
  BY OperateCap, OtherCap DEF Next, RowInv
<1>3. CapInv => CapacityRespected
  BY DEF CapInv, Fits, CapacityRespected
<1> QED
  BY <1>1, <1>2, <1>3, FileStoreInvariant, PTL DEF Spec

-----------------------------------------------------------------------------
(* The DEK.  What the keychain must not do to keep the store readable: the *)
(* run MCFileStoreReset shows that a delete of the OS keychain that fails  *)
(* is already too much.                                                    *)
Benign == Faults \subseteq {"write", "load", "store"}

(* The install ids and their use: an id that was never drawn has no DEK.   *)
UsedInv ==
  /\ \A i \in Installs \ used : primary[i] = None
  /\ install # None => install \in used
  /\ ~OsKeychain => degraded

(* The DEK a running process writes with is the one a restart would load.  *)
KeyInv ==
  /\ pc \in {"up", "flush"} => Loaded(install) = dek
  /\ pc = "rotate" => primary[install] = None

FileUsed == file \notin NoFile => file.install \in used
StoreInv == RowInv /\ UsedInv /\ FileUsed /\ KeyInv /\ StoreReadable

(* A DEK stored under an install id whose OS keychain item is gone is the  *)
(* one that is loaded for this id afterwards.                              *)
LEMMA StoreDekLoads ==
  ASSUME Benign, TypeOK, UsedInv, NEW i \in Installs, primary[i] = None,
         NEW k \in Deks, NEW o \in StoreDek(i, k)
  PROVE  /\ o.ok
         /\ (IF ~OsKeychain \/ o.primary[i] = None THEN o.fallback ELSE o.primary[i]) = k
         /\ ~OsKeychain => o.degraded
<1>1. primary \in [Installs -> Deks \cup {None}] /\ k # None /\ "file" \notin Faults
  BY FileStoreAssumption DEF TypeOK, Benign
<1>2. \A p : FallbackStore(p, k) = {Outcome(p, k, TRUE, TRUE)}
  BY <1>1 DEF FallbackStore
<1>3. \/ o = Outcome(primary, k, TRUE, TRUE)
      \/ o = Outcome([primary EXCEPT ![i] = None], k, TRUE, TRUE)
      \/ ~degraded /\ o = Outcome([primary EXCEPT ![i] = k], fallback, FALSE, TRUE)
  BY <1>2 DEF StoreDek
<1> QED
  BY <1>1, <1>3 DEF Outcome, UsedInv

LEMMA InitStoreInv == Init => StoreInv
<1> SUFFICES ASSUME Init PROVE StoreInv
  OBVIOUS
<1>1. file \in NoFile
  BY DEF Init, NoFile
<1> QED
  BY <1>1, InitRowInv DEF Init, StoreInv, UsedInv, FileUsed, KeyInv, StoreReadable

LEMMA OperateMutates ==
  ASSUME TypeInv, Operate
  PROVE  \E new \in Docs, onFail \in Docs :
           \E done, maybe : Mutate(new, onFail, done, maybe)
<1>1. mem \in Docs
  BY DEF TypeInv, TypeOK
<1>2. ASSUME NEW id \in Ids, NEW r \in Rows \cup {None}, NEW b \in BOOLEAN, SetRow(id, r, b)
      PROVE  \E new \in Docs, onFail \in Docs : \E done, maybe : Mutate(new, onFail, done, maybe)
  <2>1. [mem EXCEPT !.creds[id] = r] \in Docs
    BY <1>1, SetRowOK
  <2> QED
    BY <1>1, <1>2, <2>1 DEF SetRow
<1>3. ASSUME NEW new \in Docs, Assign(new)
      PROVE  \E n \in Docs, onFail \in Docs : \E done, maybe : Mutate(n, onFail, done, maybe)
  BY <1>3 DEF Assign
<1> QED
  BY <1>2, <1>3, OperateCases

LEMMA OperateStore == StoreInv /\ RowInv' /\ Operate => StoreInv'
<1> SUFFICES ASSUME StoreInv, RowInv', Operate PROVE StoreInv'
  OBVIOUS
<1>1. PICK new \in Docs, onFail \in Docs : \E done, maybe : Mutate(new, onFail, done, maybe)
  BY OperateMutates DEF StoreInv, RowInv
<1>2. pc = "up" /\ install \in Installs /\ dek \in Key /\ Loaded(install) = dek /\ install \in used
  BY <1>1 DEF Mutate, StoreInv, RowInv, TypeInv, TypeOK, KeyInv, UsedInv
<1> DEFINE s == [install |-> install, dek |-> dek, doc |-> new]
<1>3. s \notin NoFile /\ s.install = install /\ s.dek = dek
  BY <1>2, SealedIsNoNoFile
<1>4. /\ file' = s \/ file' = file
      /\ UNCHANGED <<primary, fallback, used>>
      /\ \/ UNCHANGED <<pc, install, dek, degraded>>
         \/ Gone
  BY <1>1 DEF Mutate, Save
<1> HIDE DEF s
<1>5. UsedInv' /\ KeyInv'
  <2>1. CASE UNCHANGED <<pc, install, dek, degraded>>
    BY <1>4, <2>1 DEF StoreInv, UsedInv, KeyInv, Loaded
  <2>2. CASE Gone
    BY <1>4, <2>2 DEF StoreInv, UsedInv, KeyInv, Gone
  <2> QED
    BY <1>4, <2>1, <2>2
<1>6. FileUsed' /\ StoreReadable'
  BY <1>2, <1>3, <1>4 DEF StoreInv, FileUsed, StoreReadable, Loaded
<1> QED
  BY <1>5, <1>6 DEF StoreInv

LEMMA OpenStore ==
  ASSUME Benign, StoreInv, RowInv', OpenExisting \/ OpenFresh
  PROVE  StoreInv'
<1>1. CASE OpenExisting
  <2>1. ~OsKeychain => degraded'
    BY <1>1, LoadDekOK DEF OpenExisting
  <2>2. /\ file \notin NoFile /\ pc' = "up" /\ install' = file.install /\ dek' = file.dek
        /\ UNCHANGED <<file, primary, fallback, used>>
    BY <1>1 DEF OpenExisting
  <2>3. UsedInv'
    BY <2>1, <2>2 DEF StoreInv, UsedInv, FileUsed
  <2>4. KeyInv' /\ FileUsed' /\ StoreReadable'
    BY <2>2 DEF StoreInv, KeyInv, FileUsed, StoreReadable, Loaded
  <2> QED
    BY <2>3, <2>4 DEF StoreInv
<1>2. CASE OpenFresh
  <2>1. PICK i \in Installs \ used, k \in Deks \ used : \E o \in StoreDek(i, k) :
          /\ used' = used \cup {i, k}
          /\ primary' = o.primary /\ fallback' = o.fallback
          /\ \/ /\ o.ok
                /\ file' = [install |-> i, dek |-> k, doc |-> EmptyDoc]
                /\ pc' = "up" /\ install' = i /\ dek' = k /\ mem' = EmptyDoc
                /\ degraded' = o.degraded
             \/ UNCHANGED file /\ Gone
    BY <1>2 DEF OpenFresh
  <2>2. PICK o \in StoreDek(i, k) :
          /\ used' = used \cup {i, k}
          /\ primary' = o.primary /\ fallback' = o.fallback
          /\ \/ /\ o.ok
                /\ file' = [install |-> i, dek |-> k, doc |-> EmptyDoc]
                /\ pc' = "up" /\ install' = i /\ dek' = k /\ mem' = EmptyDoc
                /\ degraded' = o.degraded
             \/ UNCHANGED file /\ Gone
    BY <2>1
  <2>3. TypeOK /\ UsedInv /\ primary[i] = None /\ file = Absent /\ file \in NoFile
    BY <1>2, <2>1 DEF StoreInv, RowInv, TypeInv, UsedInv, OpenFresh, NoFile
  <2>4. /\ (IF ~OsKeychain \/ o.primary[i] = None THEN o.fallback ELSE o.primary[i]) = k
        /\ ~OsKeychain => o.degraded
    BY <2>2, <2>3, StoreDekLoads
  <2>5. \A j \in Installs \ used' : primary'[j] = None
    BY <2>2, <2>3, StoreDekOK DEF UsedInv
  <2>6. Loaded(i)' = k
    BY <2>2, <2>4 DEF Loaded
  <2> DEFINE s == [install |-> i, dek |-> k, doc |-> EmptyDoc]
  <2>7. s \notin NoFile /\ s.install = i /\ s.dek = k
    BY SealedIsNoNoFile, EmptyDocOK DEF Key
  <2> HIDE DEF s
  <2>8. CASE file' = s /\ pc' = "up" /\ install' = i /\ dek' = k /\ degraded' = o.degraded
    <3>1. UsedInv' /\ KeyInv'
      BY <2>2, <2>4, <2>5, <2>6, <2>8 DEF UsedInv, KeyInv, Loaded
    <3>2. FileUsed' /\ StoreReadable'
      BY <2>2, <2>6, <2>7, <2>8 DEF FileUsed, StoreReadable, Loaded
    <3> QED
      BY <3>1, <3>2 DEF StoreInv
  <2>9. CASE UNCHANGED file /\ Gone
    BY <2>3, <2>5, <2>9 DEF StoreInv, UsedInv, KeyInv, FileUsed, StoreReadable, Gone
  <2> QED
    BY <2>2, <2>8, <2>9 DEF s
<1> QED
  BY <1>1, <1>2

LEMMA ResetStore ==
  ASSUME Benign, StoreInv, RowInv', Reset
  PROVE  StoreInv'
<1>0. TypeOK /\ UsedInv /\ KeyInv /\ ResetInv /\ ResetInv'
  BY DEF StoreInv, RowInv, TypeInv
<1>1. CASE ResetZero \/ ResetUnlink
  <2>1. /\ pc' \in {"unlink", "delete"} /\ file' \in NoFile
        /\ UNCHANGED <<primary, fallback, degraded, install, used>>
    BY <1>1 DEF ResetZero, ResetUnlink, keychain, NoFile
  <2> QED
    BY <1>0, <2>1 DEF StoreInv, UsedInv, KeyInv, FileUsed, StoreReadable
<1>2. CASE ResetDelete
  <2>1. /\ pc = "delete" /\ pc' = "rotate" /\ file \in NoFile /\ install \in Installs
        /\ UNCHANGED <<file, degraded, install, dek, used>>
    BY <1>0, <1>2 DEF ResetDelete, ResetInv, TypeOK
  <2>2. primary' = [primary EXCEPT ![install] = None]
    BY <1>2 DEF ResetDelete, PrimaryDeleted, Benign
  <2>3. UsedInv' /\ KeyInv'
    BY <1>0, <2>1, <2>2 DEF UsedInv, KeyInv, TypeOK
  <2> QED
    BY <2>1, <2>3 DEF StoreInv, FileUsed, StoreReadable
<1>3. CASE ResetRotate
  <2>1. /\ pc = "rotate" /\ install \in Installs /\ primary[install] = None
        /\ UNCHANGED <<file, install>> /\ file \in NoFile
    BY <1>0, <1>3 DEF ResetRotate, KeyInv, ResetInv, TypeOK
  <2>21. PICK k \in Deks \ used : \E o \in StoreDek(install, k) :
          /\ dek' = k /\ used' = used \cup {k} /\ SetKeychain(o)
          /\ pc' = IF o.ok THEN "flush" ELSE "up"
    BY <1>3 DEF ResetRotate, Benign
  <2>2. PICK o \in StoreDek(install, k) :
          /\ dek' = k /\ used' = used \cup {k} /\ SetKeychain(o)
          /\ pc' = IF o.ok THEN "flush" ELSE "up"
    BY <2>21
  <2>3. /\ o.ok
        /\ (IF ~OsKeychain \/ o.primary[install] = None THEN o.fallback ELSE o.primary[install]) = k
        /\ ~OsKeychain => o.degraded
    BY <1>0, <2>1, <2>2, StoreDekLoads
  <2>4. \A j \in Installs : j # install => o.primary[j] = primary[j]
    BY <1>0, <2>1, <2>2, StoreDekOK
  <2>5. install \in used
    BY <1>0, <2>1, FileStoreAssumption DEF UsedInv
  <2>6. UsedInv'
    BY <1>0, <2>1, <2>2, <2>3, <2>4, <2>5 DEF UsedInv, SetKeychain
  <2>7. KeyInv'
    BY <2>1, <2>2, <2>3 DEF KeyInv, Loaded, SetKeychain
  <2> QED
    BY <2>1, <2>6, <2>7 DEF StoreInv, FileUsed, StoreReadable
<1>4. CASE ResetFlush
  <2>1. /\ pc = "flush" /\ pc' = "up" /\ install \in Installs /\ dek \in Key /\ mem \in Docs
        /\ install \in used /\ Loaded(install) = dek
        /\ UNCHANGED <<primary, fallback, degraded, install, dek, used>>
    BY <1>0, <1>4, FileStoreAssumption
       DEF ResetFlush, StoreInv, RowInv, TypeInv, TypeOK, KeyInv, UsedInv, keychain
  <2> DEFINE s == [install |-> install, dek |-> dek, doc |-> mem]
  <2>2. s \notin NoFile /\ s.install = install /\ s.dek = dek
    BY <2>1, SealedIsNoNoFile
  <2>3. file' = s \/ file' = file
    BY <1>4 DEF ResetFlush, Save
  <2> HIDE DEF s
  <2>4. UsedInv' /\ KeyInv'
    BY <1>0, <2>1 DEF UsedInv, KeyInv, Loaded
  <2>5. FileUsed' /\ StoreReadable'
    BY <2>1, <2>2, <2>3 DEF StoreInv, FileUsed, StoreReadable, Loaded
  <2> QED
    BY <2>4, <2>5 DEF StoreInv
<1> QED
  BY <1>1, <1>2, <1>3, <1>4 DEF Reset

LEMMA CrashStore == StoreInv /\ RowInv' /\ Crash => StoreInv'
<1> SUFFICES ASSUME StoreInv, RowInv', Crash PROVE StoreInv'
  OBVIOUS
<1>1. Gone /\ UNCHANGED <<file, primary, used>>
  BY DEF Crash
<1>2. fallback' = fallback \/ file \in NoFile
  BY DEF Crash, StoreInv, RowInv, ResetInv, NoFile
<1>3. UsedInv' /\ KeyInv'
  BY <1>1 DEF StoreInv, UsedInv, KeyInv, Gone
<1> QED
  BY <1>1, <1>2, <1>3 DEF StoreInv, FileUsed, StoreReadable, Loaded

LEMMA StepStore ==
  ASSUME Benign, StoreInv, RowInv', [Next]_vars
  PROVE  StoreInv'
<1>1. CASE UNCHANGED vars
  BY <1>1 DEF vars, keychain, StoreInv, UsedInv, KeyInv, FileUsed, StoreReadable, Loaded
<1> QED
  BY <1>1, OpenStore, OperateStore, ResetStore, CrashStore DEF Next, OpenRefused

(* Unless a keychain delete, the fallback file or the CSPRNG fails: rows,  *)
(* keys and the file agree.                                                *)
THEOREM FileStoreKeys ==
  ASSUME Benign
  PROVE  Spec => []StoreInv
<1>1. StoreInv /\ RowInv' /\ [Next]_vars => StoreInv'
  BY StepStore
<1> QED
  BY <1>1, InitStoreInv, FileStoreInvariant, PTL DEF Spec

(* file_store.cpp:297: under those faults, a sealed store file can be      *)
(* opened after any number of crashes, resets and keychain failures.       *)
THEOREM FileStoreReadable ==
  ASSUME Benign
  PROVE  Spec => []StoreReadable
<1>1. StoreInv => StoreReadable
  BY DEF StoreInv
<1> QED
  BY <1>1, FileStoreKeys, PTL

-----------------------------------------------------------------------------
(* The refinement.  With StoreInv the document a restart would find is     *)
(* simply the one in the file.                                             *)
dphase == IF pc \in {"down", "up"} THEN pc ELSE "reset"
ddisk  == IF file \in NoFile \/ Loaded(file.install) # file.dek THEN None ELSE file.doc

LEMMA DiskIsFile ==
  ASSUME StoreInv
  PROVE  ddisk = IF file \in NoFile THEN None ELSE file.doc
  BY DEF StoreInv, StoreReadable, ddisk

LEMMA DiskIsFilePrime ==
  ASSUME StoreInv'
  PROVE  ddisk' = IF file' \in NoFile THEN None ELSE file'.doc
  BY DEF StoreInv, StoreReadable, ddisk

(* Each step of the store is one step of the durable document, or none.    *)
LEMMA MutateDurable ==
  ASSUME StoreInv, StoreInv', Operate
  PROVE  Durable!Next
<1>1. PICK new \in Docs, onFail \in Docs : \E done, maybe : Mutate(new, onFail, done, maybe)
  BY OperateMutates DEF StoreInv, RowInv
<1>2. pc = "up" /\ install \in Installs /\ dek \in Key
  BY <1>1 DEF Mutate, StoreInv, RowInv, TypeInv, TypeOK
<1> DEFINE s == [install |-> install, dek |-> dek, doc |-> new]
<1>3. s \notin NoFile /\ s.doc = new
  BY <1>2, SealedIsNoNoFile
<1>4. \/ file' = s /\ mem' = new /\ pc' = "up"
      \/ file' = file /\ mem' = onFail /\ pc' = "up"
      \/ file' = s /\ mem' = EmptyDoc /\ pc' = "down"
  BY <1>1, <1>2 DEF Mutate, Save, Gone
<1> HIDE DEF s
<1>5. CASE file' = s /\ mem' = new /\ pc' = "up"
  <2>1. ddisk' = new /\ dphase = "up" /\ dphase' = "up"
    BY <1>2, <1>3, <1>5, DiskIsFilePrime DEF dphase
  <2>2. Durable!Commit
    BY <1>5, <2>1 DEF Durable!Commit, dphase, ddisk
  <2> QED
    BY <2>2 DEF Durable!Next
<1>6. CASE file' = file /\ mem' = onFail /\ pc' = "up"
  <2>1. ddisk' = ddisk /\ dphase = "up" /\ dphase' = "up"
    BY <1>2, <1>6, DiskIsFile, DiskIsFilePrime DEF dphase
  <2>2. Durable!Fail
    BY <1>6, <2>1 DEF Durable!Fail, dphase, ddisk
  <2> QED
    BY <2>2 DEF Durable!Next
<1>7. CASE file' = s /\ mem' = EmptyDoc /\ pc' = "down"
  <2>1. ddisk' = new /\ dphase = "up" /\ dphase' = "down"
    BY <1>2, <1>3, <1>7, DiskIsFilePrime DEF dphase
  <2>2. Durable!Crash
    BY <1>7, <2>1 DEF Durable!Crash, dphase, ddisk
  <2> QED
    BY <2>2 DEF Durable!Next
<1> QED
  BY <1>4, <1>5, <1>6, <1>7

LEMMA OpenDurable ==
  ASSUME StoreInv, StoreInv', OpenExisting \/ OpenFresh
  PROVE  Durable!Next \/ UNCHANGED <<dphase, mem, ddisk>>
<1>0. pc = "down" /\ mem = EmptyDoc /\ dphase = "down"
  BY DEF OpenExisting, OpenFresh, StoreInv, RowInv, ResetInv, dphase
<1>1. CASE OpenExisting
  <2>1. /\ file \notin NoFile /\ pc' = "up" /\ mem' = file.doc /\ file' = file
    BY <1>1 DEF OpenExisting
  <2>2. file.doc \in Docs /\ file.doc # None
    BY <2>1, FileStoreAssumption DEF StoreInv, RowInv, TypeInv, TypeOK, Sealed
  <2>3. ddisk = file.doc /\ ddisk' = file.doc /\ dphase' = "up"
    BY <2>1, DiskIsFile, DiskIsFilePrime DEF dphase
  <2>4. Durable!Boot
    BY <1>0, <2>1, <2>2, <2>3 DEF Durable!Boot, dphase, ddisk
  <2> QED
    BY <2>4 DEF Durable!Next
<1>2. CASE OpenFresh
  <2>1. /\ file \in NoFile
        /\ \/ /\ pc' = "up" /\ mem' = EmptyDoc
              /\ \E i \in Installs, k \in Deks : file' = [install |-> i, dek |-> k, doc |-> EmptyDoc]
           \/ pc' = "down" /\ mem' = EmptyDoc /\ file' = file
    BY <1>2 DEF OpenFresh, NoFile, Gone
  <2>2. ddisk = None
    BY <2>1, DiskIsFile
  <2>3. ASSUME NEW i \in Installs, NEW k \in Deks, pc' = "up", mem' = EmptyDoc,
               file' = [install |-> i, dek |-> k, doc |-> EmptyDoc]
        PROVE  Durable!Boot
    <3>1. file' \notin NoFile /\ file'.doc = EmptyDoc
      BY <2>3, SealedIsNoNoFile, EmptyDocOK DEF Key
    <3>2. ddisk' = EmptyDoc /\ dphase' = "up"
      BY <2>3, <3>1, DiskIsFilePrime DEF dphase
    <3> QED
      BY <1>0, <2>2, <2>3, <3>2 DEF Durable!Boot, dphase, ddisk
  <2>4. CASE pc' = "down" /\ mem' = EmptyDoc /\ file' = file
    BY <1>0, <2>1, <2>2, <2>4, DiskIsFilePrime DEF dphase
  <2> QED
    BY <2>1, <2>3, <2>4 DEF Durable!Next
<1> QED
  BY <1>1, <1>2

LEMMA ResetDurable ==
  ASSUME StoreInv, StoreInv', Reset
  PROVE  Durable!Next \/ UNCHANGED <<dphase, mem, ddisk>>
<1>1. CASE ResetZero
  <2>1. pc = "up" /\ pc' = "unlink" /\ mem' = EmptyDoc /\ file' \in NoFile
    BY <1>1 DEF ResetZero, NoFile
  <2>2. dphase = "up" /\ dphase' = "reset" /\ ddisk' = None
    BY <2>1, DiskIsFilePrime DEF dphase
  <2>3. Durable!BeginReset
    BY <2>1, <2>2 DEF Durable!BeginReset, dphase, ddisk
  <2> QED
    BY <2>3 DEF Durable!Next
<1>2. CASE ResetUnlink \/ ResetDelete
  <2>1. /\ pc \in {"unlink", "delete"} /\ pc' \in {"delete", "rotate"} /\ mem' = mem
        /\ file' \in {file, Absent}
    BY <1>2 DEF ResetUnlink, ResetDelete
  <2>2. file \in NoFile /\ file' \in NoFile
    BY <2>1 DEF StoreInv, RowInv, ResetInv, NoFile
  <2> QED
    BY <2>1, <2>2, DiskIsFile, DiskIsFilePrime DEF dphase
<1>3. CASE ResetRotate
  <2>1. pc = "rotate" /\ pc' \in {"flush", "up"} /\ mem' = mem /\ file' = file /\ file \in NoFile
    BY <1>3 DEF ResetRotate, StoreInv, RowInv, ResetInv
  <2>2. dphase = "reset" /\ dphase' \in {"reset", "up"} /\ ddisk = None /\ ddisk' = None
    BY <2>1, DiskIsFile, DiskIsFilePrime DEF dphase
  <2>3. dphase' = "up" => Durable!EndReset
    BY <2>1, <2>2 DEF Durable!EndReset, dphase, ddisk
  <2> QED
    BY <2>1, <2>2, <2>3 DEF Durable!Next
<1>4. CASE ResetFlush
  <2>1. /\ pc = "flush" /\ pc' = "up" /\ mem' = mem /\ mem = EmptyDoc
        /\ install \in Installs /\ dek \in Key
        /\ file' \in {[install |-> install, dek |-> dek, doc |-> mem], file}
    BY <1>4 DEF ResetFlush, Save, StoreInv, RowInv, ResetInv, TypeInv, TypeOK
  <2>2. file' = file \/ (file' \notin NoFile /\ file'.doc = EmptyDoc)
    BY <2>1, SealedIsNoNoFile, EmptyDocOK
  <2>3. dphase = "reset" /\ dphase' = "up" /\ ddisk' \in {ddisk, EmptyDoc}
    BY <2>1, <2>2, DiskIsFile, DiskIsFilePrime DEF dphase
  <2>4. Durable!EndReset
    BY <2>1, <2>3 DEF Durable!EndReset, dphase, ddisk
  <2> QED
    BY <2>4 DEF Durable!Next
<1> QED
  BY <1>1, <1>2, <1>3, <1>4 DEF Reset

LEMMA CrashDurable ==
  ASSUME StoreInv, StoreInv', Crash
  PROVE  Durable!Next
<1>1. pc # "down" /\ pc' = "down" /\ mem' = EmptyDoc /\ file' = file
  BY DEF Crash, Gone
<1>2. dphase \in {"up", "reset"} /\ dphase' = "down" /\ ddisk' = ddisk
  BY <1>1, DiskIsFile, DiskIsFilePrime DEF dphase
<1>3. Durable!Crash
  BY <1>1, <1>2 DEF Durable!Crash, dphase, ddisk
<1> QED
  BY <1>3 DEF Durable!Next

LEMMA StepDurable ==
  ASSUME StoreInv, StoreInv', [Next]_vars
  PROVE  [Durable!Next]_(Durable!vars)
<1>1. Durable!vars = <<dphase, mem, ddisk>>
  BY DEF Durable!vars, dphase, ddisk
<1>2. CASE UNCHANGED vars
  BY <1>1, <1>2 DEF vars, keychain, dphase, ddisk, Loaded, Durable!vars
<1>3. CASE OpenExisting \/ OpenFresh
  BY <1>3, OpenDurable DEF Durable!vars, dphase, ddisk
<1>4. CASE Operate
  BY <1>4, MutateDurable
<1>5. CASE Reset
  BY <1>5, ResetDurable DEF Durable!vars, dphase, ddisk
<1>6. CASE Crash
  BY <1>6, CrashDurable
<1> QED
  BY <1>2, <1>3, <1>4, <1>5, <1>6 DEF Next, OpenRefused

LEMMA InitDurable == Init => Durable!Init
  BY DEF Init, Durable!Init, NoFile

(* Unless a keychain delete, the fallback file or the CSPRNG fails, the    *)
(* store implements the durable document of DurableStore: mutations are    *)
(* atomic and durable across crashes, a restart sees exactly the durable   *)
(* document, and only a factory reset makes it disappear.                  *)
THEOREM FileStoreRefines ==
  ASSUME Benign
  PROVE  Spec => ImplementsDurableStore
<1>1. StoreInv /\ StoreInv' /\ [Next]_vars => [Durable!Next]_(Durable!vars)
  BY StepDurable
<1> QED
  BY <1>1, InitDurable, FileStoreKeys, PTL DEF Spec, ImplementsDurableStore, Durable!Spec

-----------------------------------------------------------------------------
(* Every fault: where the key can be lost.                                 *)

DrawnInv == RowInv /\ UsedInv /\ FileUsed

(* store_dek that reports success has put the DEK where load_dek looks,    *)
(* provided the OS keychain had no item for the install id.                *)
LEMMA StoreDekReported ==
  ASSUME TypeOK, UsedInv, NEW i \in Installs, NEW k \in Deks, NEW o \in StoreDek(i, k)
  PROVE  /\ primary[i] = None /\ o.ok =>
              (IF ~OsKeychain \/ o.primary[i] = None THEN o.fallback ELSE o.primary[i]) = k
         /\ ~OsKeychain => o.degraded
<1>1. primary \in [Installs -> Deks \cup {None}] /\ k # None
  BY FileStoreAssumption DEF TypeOK
<1>2. \A p : \A f \in FallbackStore(p, k) :
        f = Outcome(p, k, TRUE, TRUE) \/ f = Outcome(p, fallback, TRUE, FALSE)
  BY DEF FallbackStore
<1>3. \/ \E p \in {primary, [primary EXCEPT ![i] = None]} :
           o = Outcome(p, k, TRUE, TRUE) \/ o = Outcome(p, fallback, TRUE, FALSE)
      \/ ~degraded /\ o = Outcome([primary EXCEPT ![i] = k], fallback, FALSE, TRUE)
  BY <1>2 DEF StoreDek
<1> QED
  BY <1>1, <1>3 DEF Outcome, UsedInv

LEMMA OpenDrawn ==
  ASSUME DrawnInv, RowInv', OpenExisting \/ OpenFresh
  PROVE  DrawnInv' /\ (Keyed => Keyed')
<1>1. CASE OpenExisting
  <2>1. ~OsKeychain => degraded'
    BY <1>1, LoadDekOK DEF OpenExisting
  <2>2. /\ file \notin NoFile /\ pc' = "up" /\ install' = file.install /\ dek' = file.dek
        /\ UNCHANGED <<file, primary, fallback, used>>
    BY <1>1 DEF OpenExisting
  <2>3. UsedInv' /\ FileUsed'
    BY <2>1, <2>2 DEF DrawnInv, UsedInv, FileUsed
  <2>4. Keyed => Keyed'
    BY <2>2 DEF Keyed, StoreReadable, Loaded
  <2> QED
    BY <2>3, <2>4 DEF DrawnInv
<1>2. CASE OpenFresh
  <2>1. PICK i \in Installs \ used, k \in Deks \ used : \E o \in StoreDek(i, k) :
          /\ used' = used \cup {i, k}
          /\ primary' = o.primary /\ fallback' = o.fallback
          /\ \/ /\ o.ok
                /\ file' = [install |-> i, dek |-> k, doc |-> EmptyDoc]
                /\ pc' = "up" /\ install' = i /\ dek' = k /\ mem' = EmptyDoc
                /\ degraded' = o.degraded
             \/ UNCHANGED file /\ Gone
    BY <1>2 DEF OpenFresh
  <2>2. PICK o \in StoreDek(i, k) :
          /\ used' = used \cup {i, k}
          /\ primary' = o.primary /\ fallback' = o.fallback
          /\ \/ /\ o.ok
                /\ file' = [install |-> i, dek |-> k, doc |-> EmptyDoc]
                /\ pc' = "up" /\ install' = i /\ dek' = k /\ mem' = EmptyDoc
                /\ degraded' = o.degraded
             \/ UNCHANGED file /\ Gone
    BY <2>1
  <2>3. TypeOK /\ UsedInv /\ primary[i] = None /\ file \in NoFile
    BY <1>2, <2>1 DEF DrawnInv, RowInv, TypeInv, UsedInv, OpenFresh, NoFile
  <2>4. /\ o.ok => (IF ~OsKeychain \/ o.primary[i] = None THEN o.fallback ELSE o.primary[i]) = k
        /\ ~OsKeychain => o.degraded
    BY <2>2, <2>3, StoreDekReported
  <2>5. \A j \in Installs \ used' : primary'[j] = None
    BY <2>2, <2>3, StoreDekOK DEF UsedInv
  <2>6. o.ok => Loaded(i)' = k
    BY <2>2, <2>4 DEF Loaded
  <2> DEFINE s == [install |-> i, dek |-> k, doc |-> EmptyDoc]
  <2>7. s \notin NoFile /\ s.install = i /\ s.dek = k
    BY SealedIsNoNoFile, EmptyDocOK DEF Key
  <2> HIDE DEF s
  <2>8. CASE o.ok /\ file' = s /\ pc' = "up" /\ install' = i /\ dek' = k /\ degraded' = o.degraded
    <3>1. UsedInv' /\ FileUsed'
      BY <2>2, <2>4, <2>5, <2>7, <2>8 DEF UsedInv, FileUsed
    <3>2. Keyed'
      BY <2>2, <2>6, <2>7, <2>8 DEF Keyed, StoreReadable, Loaded
    <3> QED
      BY <3>1, <3>2 DEF DrawnInv
  <2>9. CASE UNCHANGED file /\ Gone
    BY <2>3, <2>5, <2>9 DEF DrawnInv, UsedInv, FileUsed, Keyed, StoreReadable, Gone
  <2> QED
    BY <2>2, <2>8, <2>9 DEF s
<1> QED
  BY <1>1, <1>2

LEMMA OperateDrawn ==
  ASSUME DrawnInv, RowInv', Operate
  PROVE  DrawnInv' /\ (Keyed => Keyed')
<1>1. PICK new \in Docs, onFail \in Docs : \E done, maybe : Mutate(new, onFail, done, maybe)
  BY OperateMutates DEF DrawnInv, RowInv
<1>2. pc = "up" /\ install \in Installs /\ dek \in Key /\ install \in used
  BY <1>1 DEF Mutate, DrawnInv, RowInv, TypeInv, TypeOK, UsedInv
<1> DEFINE s == [install |-> install, dek |-> dek, doc |-> new]
<1>3. s \notin NoFile /\ s.install = install /\ s.dek = dek
  BY <1>2, SealedIsNoNoFile
<1>4. /\ file' = s \/ file' = file
      /\ UNCHANGED <<primary, fallback, used>>
      /\ UNCHANGED <<pc, install, dek, degraded>> \/ Gone
  BY <1>1 DEF Mutate, Save
<1> HIDE DEF s
<1>5. UsedInv' /\ FileUsed'
  <2>1. UsedInv'
    <3>1. CASE UNCHANGED <<pc, install, dek, degraded>>
      BY <1>4, <3>1 DEF DrawnInv, UsedInv
    <3>2. CASE Gone
      BY <1>4, <3>2 DEF DrawnInv, UsedInv, Gone
    <3> QED
      BY <1>4, <3>1, <3>2
  <2>2. FileUsed'
    BY <1>2, <1>3, <1>4 DEF DrawnInv, FileUsed
  <2> QED
    BY <2>1, <2>2
<1>6. Keyed => StoreReadable'
  BY <1>2, <1>3, <1>4 DEF Keyed, StoreReadable, Loaded
<1>7. Keyed => (pc = "up" => Loaded(install) = dek)'
  BY <1>4 DEF Keyed, Loaded, Gone
<1> QED
  BY <1>5, <1>6, <1>7 DEF DrawnInv, Keyed

LEMMA ResetDrawn ==
  ASSUME DrawnInv, RowInv', Reset
  PROVE  DrawnInv' /\ (Keyed /\ ~Keyed' => pc \in {"rotate", "flush"})
<1>0. TypeOK /\ UsedInv /\ ResetInv
  BY DEF DrawnInv, RowInv, TypeInv
<1>1. CASE ResetZero \/ ResetUnlink
  <2>1. /\ pc' \in {"unlink", "delete"} /\ file' \in NoFile
        /\ UNCHANGED <<primary, fallback, degraded, install, used>>
    BY <1>1 DEF ResetZero, ResetUnlink, keychain, NoFile
  <2> QED
    BY <1>0, <2>1 DEF DrawnInv, UsedInv, FileUsed, Keyed, StoreReadable
<1>2. CASE ResetDelete
  <2>1. /\ pc = "delete" /\ pc' = "rotate" /\ file \in NoFile /\ install \in Installs
        /\ UNCHANGED <<file, degraded, install, dek, used>>
    BY <1>0, <1>2 DEF ResetDelete, ResetInv, TypeOK
  <2>2. primary' \in {primary, [primary EXCEPT ![install] = None]}
    BY <1>2 DEF ResetDelete, PrimaryDeleted
  <2>3. UsedInv'
    BY <1>0, <2>1, <2>2 DEF UsedInv, TypeOK
  <2> QED
    BY <2>1, <2>3 DEF DrawnInv, FileUsed, Keyed, StoreReadable
<1>3. CASE ResetRotate
  <2>1. /\ pc = "rotate" /\ install \in Installs /\ install \in used
        /\ UNCHANGED <<file, install>> /\ file \in NoFile
    BY <1>0, <1>3, FileStoreAssumption DEF ResetRotate, ResetInv, TypeOK, UsedInv
  <2>2. CASE UNCHANGED <<keychain, used>>
    BY <1>0, <2>1, <2>2 DEF DrawnInv, UsedInv, FileUsed, keychain
  <2>3. CASE \E k \in Deks \ used : \E o \in StoreDek(install, k) :
               used' = used \cup {k} /\ SetKeychain(o)
    <3>1. PICK k \in Deks \ used : \E o \in StoreDek(install, k) :
            used' = used \cup {k} /\ SetKeychain(o)
      BY <2>3
    <3>2. PICK o \in StoreDek(install, k) : used' = used \cup {k} /\ SetKeychain(o)
      BY <3>1
    <3>3. /\ ~OsKeychain => o.degraded
          /\ \A j \in Installs : j # install => o.primary[j] = primary[j]
      BY <1>0, <2>1, <3>2, StoreDekReported, StoreDekOK
    <3>4. UsedInv'
      BY <1>0, <2>1, <3>2, <3>3 DEF UsedInv, SetKeychain
    <3> QED
      BY <2>1, <3>2, <3>4 DEF DrawnInv, FileUsed
  <2> QED
    BY <1>3, <2>2, <2>3 DEF ResetRotate
<1>4. CASE ResetFlush
  <2>1. /\ pc = "flush" /\ install \in Installs /\ dek \in Key /\ mem \in Docs /\ install \in used
        /\ UNCHANGED <<primary, fallback, degraded, install, dek, used>>
    BY <1>0, <1>4, FileStoreAssumption
       DEF ResetFlush, DrawnInv, RowInv, TypeInv, TypeOK, UsedInv, keychain
  <2> DEFINE s == [install |-> install, dek |-> dek, doc |-> mem]
  <2>2. s \notin NoFile /\ s.install = install
    BY <2>1, SealedIsNoNoFile
  <2>3. file' = s \/ file' = file
    BY <1>4 DEF ResetFlush, Save
  <2> HIDE DEF s
  <2> QED
    BY <1>0, <2>1, <2>2, <2>3 DEF DrawnInv, UsedInv, FileUsed
<1> QED
  BY <1>1, <1>2, <1>3, <1>4 DEF Reset

LEMMA CrashDrawn ==
  ASSUME DrawnInv, RowInv', Crash
  PROVE  DrawnInv' /\ (Keyed => Keyed')
<1>1. Gone /\ UNCHANGED <<file, primary, used>>
  BY DEF Crash
<1>2. fallback' = fallback \/ file \in NoFile
  BY DEF Crash, DrawnInv, RowInv, ResetInv, NoFile
<1>3. UsedInv' /\ FileUsed'
  BY <1>1 DEF DrawnInv, UsedInv, FileUsed, Gone
<1> QED
  BY <1>1, <1>2, <1>3 DEF DrawnInv, Keyed, StoreReadable, Loaded, Gone

LEMMA StepDrawn ==
  ASSUME DrawnInv, RowInv', [Next]_vars
  PROVE  DrawnInv' /\ (Keyed /\ ~Keyed' => pc \in {"rotate", "flush"})
<1>1. CASE UNCHANGED vars
  BY <1>1 DEF vars, keychain, DrawnInv, UsedInv, FileUsed, Keyed, StoreReadable, Loaded
<1> QED
  BY <1>1, OpenDrawn, OperateDrawn, ResetDrawn, CrashDrawn DEF Next, OpenRefused

(* For every combination of faults and crashes: only the two last steps of *)
(* a factory reset can leave the store, or the daemon, without its key.    *)
THEOREM FileStoreKeyKept == Spec => OnlyResetLosesKey
<1>1. Init => UsedInv /\ FileUsed
  BY InitStoreInv DEF StoreInv
<1>2. DrawnInv /\ RowInv' /\ [Next]_vars => DrawnInv'
  BY StepDrawn
<1>3. DrawnInv /\ RowInv' /\ [Next]_vars => [Keyed /\ ~Keyed' => pc \in {"rotate", "flush"}]_vars
  BY StepDrawn
<1>4. RowInv /\ UsedInv /\ FileUsed => DrawnInv
  BY DEF DrawnInv
<1> QED
  BY <1>1, <1>2, <1>3, <1>4, FileStoreInvariant, PTL DEF Spec, OnlyResetLosesKey
=============================================================================
