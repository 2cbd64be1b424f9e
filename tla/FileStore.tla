----------------------------- MODULE FileStore -----------------------------
(***************************************************************************)
(* The credential store on disk: store::CredentialStore with FilePersister *)
(* and open_file_store (src/store/credential_store.cpp, file_store.cpp)    *)
(* over a keychain that holds the data encryption key, DEK: the OS         *)
(* keychain with a fallback file (src/store/keychain.cpp).                 *)
(*                                                                         *)
(* Encryption is by what it does: a sealed document opens with the DEK it  *)
(* was sealed under and with no other.  write_atomic is one step: rename   *)
(* puts either the whole new document in place or nothing.  Every mutation *)
(* holds the store's mutex to its end, so mutations do not interleave; but *)
(* the process may die at any point of one, also between the rename and    *)
(* the return, and at each of the steps a factory reset consists of.       *)
(*                                                                         *)
(* A document keeps the rows (one value per credential for all its fields) *)
(* and whether PIN, TPM seeds and U2F attestation are there; install id    *)
(* and serial are not part of it.                                          *)
(***************************************************************************)
EXTENDS Naturals, FiniteSets

CONSTANTS
  Ids, Rows,        \* credential ids and what a row may hold
  Pins,             \* values of PinState other than PinState{}
  MaxCredentials,   \* kMaxCredentials, 100
  Installs, Deks,   \* what the CSPRNG yields; bounds on fresh starts and resets
  ZeroDek,          \* the cleansed DEK a failed CSPRNG leaves behind
  OsKeychain,       \* an OS keychain is built in and --dek-file is not given
  Faults,           \* what may fail: see FaultKinds
  None

(* write: write_atomic; load, store, delete: calls of the OS keychain;     *)
(* file: the fallback file; random: the CSPRNG during a reset.             *)
FaultKinds == {"write", "load", "store", "delete", "file", "random"}

Key  == Deks \cup {ZeroDek}
Docs == [creds : [Ids -> Rows \cup {None}], pin : Pins \cup {None},
         tpm : BOOLEAN, u2f : BOOLEAN]
EmptyDoc == [creds |-> [i \in Ids |-> None], pin |-> None, tpm |-> FALSE, u2f |-> FALSE]

ASSUME FileStoreAssumption ==
  /\ Faults \subseteq FaultKinds
  /\ OsKeychain \in BOOLEAN
  /\ MaxCredentials \in Nat
  /\ None \notin Rows \cup Pins \cup Installs \cup Deks \cup Docs
  /\ ZeroDek \notin Deks \cup {None}

Sealed == [install : Installs, dek : Key, doc : Docs]
Absent == [state |-> "absent"]
Zeroed == [state |-> "zeroed"]     \* store_bad_magic

VARIABLES
  file,       \* credentials.bin
  primary,    \* the OS keychain: DEK per install id
  fallback,   \* credentials.bin.dek: one DEK, whatever the install id
  pc,         \* "down", "up", or the step of factory_reset that comes next
  install, dek,   \* FilePersister::install_id_ and dek_
  degraded,   \* FallbackKeychain::degraded_ (TRUE when there is no primary)
  mem,        \* the document in memory
  used,       \* ghost: install ids and DEKs generated so far
  promise     \* ghost: for each id, the rows its callers may expect on disk

keychain == <<primary, fallback, degraded>>
vars == <<file, keychain, pc, install, dek, mem, used, promise>>

NoFile == {Absent, Zeroed}
Row(id) == IF file \in NoFile THEN None ELSE file.doc.creds[id]

-----------------------------------------------------------------------------
(* The keychain: the possible outcomes of FallbackKeychain's methods.      *)

Outcome(p, f, d, ok) == [primary |-> p, fallback |-> f, degraded |-> d, ok |-> ok]

(* FileKeychain::store_dek                                                 *)
FallbackStore(p, k) ==
  {Outcome(p, k, TRUE, TRUE)}
    \cup (IF "file" \in Faults THEN {Outcome(p, fallback, TRUE, FALSE)} ELSE {})

(* store_dek: the primary unless it failed before or fails now (libsecret  *)
(* then keeps the old item, macOS has already removed it).                 *)
StoreDek(i, k) ==
  IF degraded THEN FallbackStore(primary, k)
  ELSE {Outcome([primary EXCEPT ![i] = k], fallback, FALSE, TRUE)}
         \cup (IF "store" \in Faults
                 THEN FallbackStore(primary, k)
                        \cup FallbackStore([primary EXCEPT ![i] = None], k)
                 ELSE {})

(* delete_dek: always the primary first, whatever it answers; the fallback *)
(* file is zeroed, then unlinked.                                          *)
PrimaryDeleted(i) ==
  {[primary EXCEPT ![i] = None]} \cup (IF "delete" \in Faults THEN {primary} ELSE {})
FallbackDeleted ==
  {None} \cup (IF "file" \in Faults /\ fallback # None THEN {ZeroDek} ELSE {})

(* load_dek when the primary answers: [dek, degraded afterwards].          *)
Loaded(i) == IF ~OsKeychain \/ primary[i] = None THEN fallback ELSE primary[i]
LoadDek(i) ==
  {[dek |-> Loaded(i), degraded |-> ~OsKeychain \/ (primary[i] = None /\ fallback # None)]}
    \cup (IF OsKeychain /\ "load" \in Faults THEN {[dek |-> fallback, degraded |-> TRUE]} ELSE {})

SetKeychain(o) == primary' = o.primary /\ fallback' = o.fallback /\ degraded' = o.degraded
-----------------------------------------------------------------------------
Init ==
  /\ file = Absent
  /\ primary = [i \in Installs |-> None] /\ fallback = None /\ degraded = ~OsKeychain
  /\ pc = "down" /\ install = None /\ dek = None /\ mem = EmptyDoc
  /\ used = {}
  /\ promise = [i \in Ids |-> {None}]

(* The process is gone, and with it everything it held.                    *)
Gone ==
  /\ pc' = "down" /\ install' = None /\ dek' = None /\ mem' = EmptyDoc
  /\ degraded' = ~OsKeychain

(* Variants of the two actions below with a defect: the install id of the  *)
(* file is not taken over; a store that does not open is replaced.         *)
OpenExistingWithoutInstall ==
  /\ pc = "down" /\ file \notin NoFile
  /\ \E l \in LoadDek(file.install) : l.dek = file.dek /\ degraded' = l.degraded
  /\ pc' = "up" /\ install' = None /\ dek' = file.dek /\ mem' = file.doc
  /\ UNCHANGED <<file, primary, fallback, used, promise>>
OpenRefusedStartsOver ==
  /\ pc = "down" /\ file \notin NoFile
  /\ \E l \in LoadDek(file.install) : l.dek # file.dek /\ degraded' = l.degraded
  /\ pc' = "up" /\ install' = file.install /\ dek' = file.dek /\ mem' = EmptyDoc
  /\ UNCHANGED <<file, primary, fallback, used, promise>>

(* open_file_store with a store file: the DEK is found and opens it ...    *)
OpenExisting ==
  /\ pc = "down" /\ file \notin NoFile
  /\ \E l \in LoadDek(file.install) :
       /\ l.dek = file.dek
       /\ degraded' = l.degraded
  /\ pc' = "up" /\ install' = file.install /\ dek' = file.dek /\ mem' = file.doc
  /\ UNCHANGED <<file, primary, fallback, used, promise>>

(* ... or the daemon exits: bad magic, DEK missing, decryption failed, or, *)
(* without a file, no random numbers.                                      *)
OpenRefused ==
  /\ pc = "down"
  /\ file \notin NoFile => \E l \in LoadDek(file.install) : l.dek # file.dek
  /\ UNCHANGED vars

(* open_file_store without a store file: a new DEK goes into the keychain, *)
(* then the empty store is written; either may fail or be the last step    *)
(* before a crash, and the daemon is down again.                           *)
OpenFresh ==
  /\ pc = "down" /\ file = Absent
  /\ \E i \in Installs \ used, k \in Deks \ used : \E o \in StoreDek(i, k) :
       /\ used' = used \cup {i, k}
       /\ primary' = o.primary /\ fallback' = o.fallback
       /\ \/ /\ o.ok
             /\ file' = [install |-> i, dek |-> k, doc |-> EmptyDoc]
             /\ pc' = "up" /\ install' = i /\ dek' = k /\ mem' = EmptyDoc
             /\ degraded' = o.degraded
          \/ UNCHANGED file /\ Gone
  /\ UNCHANGED promise

-----------------------------------------------------------------------------
(* FilePersister::save, and flush_locked with it.                          *)
Save(d) == file' = [install |-> install, dek |-> dek, doc |-> d]

(* A mutation makes new of the document and flushes: it succeeds, fails    *)
(* and leaves onFail in memory, or the process dies before it returns.     *)
(* Callers may expect done after success, and after a failure or a crash   *)
(* also what may already be, or may yet be, on disk.                       *)
Mutate(new, onFail, done, maybe) ==
  /\ pc = "up"
  /\ \/ /\ Save(new) /\ mem' = new
        /\ promise' = done
        /\ UNCHANGED <<pc, install, dek, degraded>>
     \/ /\ "write" \in Faults
        /\ mem' = onFail
        /\ promise' = IF onFail = mem THEN promise ELSE maybe
        /\ UNCHANGED <<file, pc, install, dek, degraded>>
     \/ /\ Save(new) /\ Gone
        /\ promise' = maybe
  /\ UNCHANGED <<primary, fallback, used>>

Stored(doc) == {i \in Ids : doc.creds[i] # None}

SetRow(id, r, rollback) ==
  LET new == [mem EXCEPT !.creds[id] = r]
  IN  Mutate(new, IF rollback THEN mem ELSE new,
             [promise EXCEPT ![id] = {r}], [promise EXCEPT ![id] = @ \cup {r}])

(* Variants with a defect: no limit on the number of rows; an erased row   *)
(* is not flushed.                                                         *)
PutWithoutLimit(id, r) == SetRow(id, r, TRUE)
EraseWithoutFlush(id) ==
  /\ pc = "up" /\ mem.creds[id] # None
  /\ mem' = [mem EXCEPT !.creds[id] = None]
  /\ promise' = [promise EXCEPT ![id] = {None}]
  /\ UNCHANGED <<file, keychain, pc, install, dek, used>>

Put(id, r) ==
  /\ mem.creds[id] # None \/ Cardinality(Stored(mem)) < MaxCredentials
  /\ SetRow(id, r, TRUE)
UpdateCountAndUsed(id, r) == mem.creds[id] # None /\ SetRow(id, r, FALSE)
Erase(id) == mem.creds[id] # None /\ SetRow(id, None, TRUE)

Assign(new) == Mutate(new, new, promise, promise)

SetPin(p) == Assign([mem EXCEPT !.pin = p])
TpmStateOrCreate == ~mem.tpm /\ Assign([mem EXCEPT !.tpm = TRUE])
SetU2fAttestation == Assign([mem EXCEPT !.u2f = TRUE])

-----------------------------------------------------------------------------
(* factory_reset: memory is cleared and the file zeroed in place; ...      *)
ResetZero ==
  /\ pc = "up"
  /\ mem' = EmptyDoc
  /\ file' = IF file = Absent THEN Absent ELSE Zeroed
  /\ pc' = "unlink"
  /\ promise' = [i \in Ids |-> {None}]
  /\ UNCHANGED <<keychain, install, dek, used>>

ResetUnlink ==
  /\ pc = "unlink"
  /\ file' = Absent
  /\ pc' = "delete"
  /\ UNCHANGED <<keychain, install, dek, mem, used, promise>>

(* ... the DEK is deleted, ...                                             *)
ResetDelete ==
  /\ pc = "delete"
  /\ primary' \in PrimaryDeleted(install) /\ fallback' \in FallbackDeleted
  /\ pc' = "rotate"
  /\ UNCHANGED <<file, degraded, install, dek, mem, used, promise>>

(* A defective variant: the new DEK is not stored.                         *)
ResetRotateUnstored ==
  /\ pc = "rotate"
  /\ \E k \in Deks \ used : dek' = k /\ used' = used \cup {k}
  /\ pc' = "flush"
  /\ UNCHANGED <<keychain, file, install, mem, promise>>

(* ... a new one generated and stored under the old install id; a failure  *)
(* leaves the persister with a DEK that is in no keychain.                 *)
ResetRotate ==
  /\ pc = "rotate"
  /\ \/ \E k \in Deks \ used : \E o \in StoreDek(install, k) :
          /\ dek' = k /\ used' = used \cup {k}
          /\ SetKeychain(o)
          /\ pc' = IF o.ok THEN "flush" ELSE "up"
     \/ /\ "random" \in Faults
        /\ dek' = ZeroDek /\ pc' = "up"
        /\ UNCHANGED <<keychain, used>>
  /\ UNCHANGED <<file, install, mem, promise>>

ResetFlush ==
  /\ pc = "flush"
  /\ pc' = "up"
  /\ \/ Save(mem)
     \/ "write" \in Faults /\ UNCHANGED file
  /\ UNCHANGED <<keychain, install, dek, mem, used, promise>>

(* The process dies between two steps; in ResetDelete, possibly between    *)
(* zeroing and unlinking the fallback file.                                *)
Crash ==
  /\ pc # "down"
  /\ Gone
  /\ fallback' \in {fallback} \cup (IF pc = "delete" /\ fallback # None THEN {ZeroDek} ELSE {})
  /\ UNCHANGED <<file, primary, used, promise>>

Operate ==
  \/ \E id \in Ids : \/ \E r \in Rows : Put(id, r) \/ UpdateCountAndUsed(id, r)
                     \/ Erase(id)
  \/ \E p \in Pins : SetPin(p)
  \/ TpmStateOrCreate \/ SetU2fAttestation

Reset == ResetZero \/ ResetUnlink \/ ResetDelete \/ ResetRotate \/ ResetFlush

Next ==
  \/ OpenExisting \/ OpenRefused \/ OpenFresh
  \/ Operate \/ Reset \/ Crash

Spec == Init /\ [][Next]_vars

-----------------------------------------------------------------------------
(* Type invariant.                                                         *)
TypeOK ==
  /\ file \in Sealed \cup NoFile
  /\ primary \in [Installs -> Deks \cup {None}]
  /\ fallback \in Key \cup {None}
  /\ degraded \in BOOLEAN
  /\ pc \in {"down", "up", "unlink", "delete", "rotate", "flush"}
  /\ install \in Installs \cup {None} /\ dek \in Key \cup {None}
  /\ mem \in Docs
  /\ used \subseteq Installs \cup Deks
  /\ promise \in [Ids -> SUBSET (Rows \cup {None})]
  /\ pc = "down" <=> install = None

(* file_store.cpp:297: "Write the fresh store so the DEK and file exist    *)
(* together from now on": at every moment, also after a crash, a sealed    *)
(* store file opens with the DEK the keychain gives for it.                *)
StoreReadable == file \notin NoFile => Loaded(file.install) = file.dek

(* With every fault the model knows, the store loses its key only where a  *)
(* factory reset stores or first uses the new DEK (file_store.cpp:170-178, *)
(* credential_store.cpp:488): no start, mutation, refused open or crash    *)
(* makes a file unreadable or leaves the daemon writing under a DEK that   *)
(* the keychain would not give back.                                       *)
Keyed == StoreReadable /\ (pc = "up" => Loaded(install) = dek)
OnlyResetLosesKey == [][Keyed /\ ~Keyed' => pc \in {"rotate", "flush"}]_vars

(* credential.hpp:71-73 ("every mutation flushes before returning"): each  *)
(* row a restart would find is the one its last successful mutation wrote, *)
(* or one that was tried since and not reported as done; a deleted row     *)
(* does not come back, and only a factory reset takes all rows away.       *)
RowsKeepPromise == \A id \in Ids : Row(id) \in promise[id]

(* kMaxCredentials bounds the rows in memory and on disk, so remaining()   *)
(* (credential_store.cpp:452) does not wrap around.                        *)
CapacityRespected ==
  /\ Cardinality(Stored(mem)) <= MaxCredentials
  /\ file \notin NoFile => Cardinality(Stored(file.doc)) <= MaxCredentials

(* The store is the durable document that DurableStore promises.           *)
Durable == INSTANCE DurableStore WITH
  NoDoc <- None,
  phase <- IF pc \in {"down", "up"} THEN pc ELSE "reset",
  disk  <- IF file \in NoFile \/ Loaded(file.install) # file.dek THEN None ELSE file.doc
ImplementsDurableStore == Durable!Spec
=============================================================================
