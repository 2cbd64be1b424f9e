-------------------------------- MODULE Keys --------------------------------
(***************************************************************************)
(* The key backends and what depends on them over restarts: the probe at   *)
(* startup and its fallback, the TPM's seeds in the store and the primary  *)
(* key derived from them, the Secure Enclave's items in the keychain, and  *)
(* what a factory reset does to all of them (src/crypto/*_key_backend.*,   *)
(* probe.cpp, src/daemon/main.cpp, CredentialStore::tpm_state_or_create,   *)
(* Authenticator::load_key, destroy_key and cmd_reset).                    *)
(*                                                                         *)
(* A TPM key is a blob in its row that only opens under the primary it was *)
(* made under; a primary is named by its seeds, and seeds by the order     *)
(* they were drawn in, 0 for none.  A Secure Enclave key, and the secret   *)
(* that goes with it, are items of their own.  Software keys are in their  *)
(* row.  op_mu_ serialises the commands; the process can stop at any step  *)
(* and start again with another backend.  A flush writes the whole         *)
(* document: rows and seeds together.                                      *)
(***************************************************************************)
EXTENDS Naturals

CONSTANTS
  Creds,     \* credential ids; the CSPRNG never repeats one
  MaxSeed,   \* bound on the seeds drawn
  Builds,    \* hardware backends to consider: "tpm", "se", "none"
  Prefs,     \* values of --key-backend: "auto", "tpm", "se", "software"
  Faults,    \* what may fail: "flush"; "key": a call into TPM or Enclave;
             \* "destroy": deleting a keychain item
  None

ASSUME KeysAssumption ==
  /\ MaxSeed \in Nat
  /\ Builds \subseteq {"tpm", "se", "none"}
  /\ Prefs \subseteq {"auto", "tpm", "se", "software"}

Kinds == {"software", "tpm", "se"}
Seeds == 0 .. MaxSeed
Rows == [backend : Kinds, seed : Seeds]

ASSUME NoneAssumption == None \notin Rows /\ None \notin Kinds

NoRows == [c \in Creds |-> None]
Documents == [rows : [Creds -> Rows \cup {None}], tpm : Seeds]
EmptyDocument == [rows |-> NoRows, tpm |-> 0]

(* Keychain items: a private key, a wrapped credRandom, the probe's key.   *)
Probe == <<"probe", None>>
Items == ({"key", "secret"} \X Creds) \cup {Probe}
ItemsOf(c) == {"key", "secret"} \X {c}

Idle == [kind |-> "idle"]
Exiting == [kind |-> "exit"]
Ops == {Idle, Exiting}
       \cup [kind : {"probe"}, pref : Prefs]
       \cup [kind : {"make"}, id : Creds, seed : Seeds, wrapped : BOOLEAN]
       \cup [kind : {"delete"}, id : Creds]
       \cup [kind : {"reset"}, left : SUBSET Creds]
       \cup [kind : {"reinit"}]

VARIABLES
  build,     \* the hardware backend this machine and build have
  up,        \* the daemon runs
  kind,      \* primary_.kind(); None before the probe
  primary,   \* the seeds of the TPM primary in use; 0: no ESYS context
  rows, tpm, \* the document in memory
  disk,      \* the document a restart would find
  items,     \* the keychain's items
  op,        \* the command under way
  issued,    \* the seeds drawn so far
  used,      \* ghost: credential ids drawn so far
  failed,    \* ghost: this process's last reset failed
  astray,    \* ghost: TPM credentials made after a failed reset
  doomed,    \* ghost: credentials whose items' deletion was begun
  leaked,    \* ghost: credentials whose items were given up
  barrier    \* ghost: seeds drawn before the last reset that succeeded

memory == <<up, kind, primary, rows, tpm>>
ghosts == <<used, failed, astray, doomed, leaked, barrier>>
vars == <<build, memory, disk, items, op, issued, ghosts>>

Ready == up /\ op = Idle
Document == [rows |-> rows, tpm |-> tpm]
Stored(r) == {c \in Creds : r[c] # None}

Init ==
  /\ build \in Builds
  /\ up = FALSE /\ kind = None /\ primary = 0
  /\ rows = NoRows /\ tpm = 0 /\ disk = EmptyDocument
  /\ items = {} /\ op = Idle /\ issued = 0
  /\ used = {} /\ failed = FALSE
  /\ astray = {} /\ doomed = {} /\ leaked = {} /\ barrier = 0

-----------------------------------------------------------------------------
(* The seeds, in the store.                                                *)

(* tpm_state_or_create, when it returns seeds.                             *)
TpmStateOrCreate ==
  \/ tpm # 0 /\ UNCHANGED <<tpm, disk, issued>>
  \/ /\ tpm = 0 /\ issued < MaxSeed
     /\ issued' = issued + 1 /\ tpm' = issued + 1
     /\ disk' = [rows |-> rows, tpm |-> issued + 1]

(* The flush fails: an error, but the new seeds stay in memory.            *)
TpmStateUnflushed ==
  /\ "flush" \in Faults
  /\ tpm = 0 /\ issued < MaxSeed
  /\ issued' = issued + 1 /\ tpm' = issued + 1
  /\ UNCHANGED disk

-----------------------------------------------------------------------------
(* Startup.                                                                *)

(* The store is opened before the probe: the TPM needs its seeds.          *)
Start(pref) ==
  /\ ~up
  /\ up' = TRUE /\ rows' = disk.rows /\ tpm' = disk.tpm
  /\ op' = [kind |-> "probe", pref |-> pref]
  /\ UNCHANGED <<build, kind, primary, disk, items, issued, ghosts>>

Use(k, seed) == kind' = k /\ primary' = seed /\ op' = Idle

(* Without the hardware "auto" falls back to software keys, and the daemon *)
(* refuses to start when a backend was asked for.                          *)
NoHardware ==
  IF op.pref = "auto" THEN Use("software", 0)
  ELSE op' = Exiting /\ UNCHANGED <<kind, primary>>

ProbeSoftware ==
  /\ op.kind = "probe"
  /\ op.pref = "software" \/ (op.pref = "auto" /\ build = "none")
  /\ Use("software", 0)
  /\ UNCHANGED <<build, up, rows, tpm, disk, items, issued, ghosts>>

ProbeNotBuilt ==
  /\ op.kind = "probe" /\ op.pref \in {"tpm", "se"} \ {build}
  /\ NoHardware
  /\ UNCHANGED <<build, up, rows, tpm, disk, items, issued, ghosts>>

(* A throwaway key is made and deleted; that it could be deleted is not    *)
(* checked.                                                                *)
SeProbe ==
  /\ op.kind = "probe" /\ op.pref \in {"auto", "se"} /\ build = "se"
  /\ \/ Use("se", 0)
     \/ "key" \in Faults /\ NoHardware
  /\ \/ items' = items \ {Probe}
     \/ "destroy" \in Faults /\ items' = items \cup {Probe}
  /\ UNCHANGED <<build, up, rows, tpm, disk, issued, ghosts>>

(* Tpm2KeyBackend::init builds the primary of the seeds it is given, or    *)
(* leaves the backend shut down.                                           *)
TpmInit(seed) == primary' = seed
TpmShutDownDangling == primary' = MaxSeed + 1
TpmShutDown == primary' = 0

(* make_tpm2_key_backend: no device; no seeds; no primary; or a backend.   *)
MakeTpm2 ==
  /\ op.kind = "probe" /\ op.pref \in {"auto", "tpm"} /\ build = "tpm"
  /\ \/ "key" \in Faults /\ NoHardware /\ UNCHANGED <<tpm, disk, issued>>
     \/ TpmStateUnflushed /\ NoHardware
     \/ TpmStateOrCreate /\ "key" \in Faults /\ NoHardware
     \/ TpmStateOrCreate /\ TpmInit(tpm') /\ kind' = "tpm" /\ op' = Idle
  /\ UNCHANGED <<build, up, rows, items, ghosts>>

(* The process ends, by a signal, a crash, or an error at startup.         *)
Stop ==
  /\ up
  /\ up' = FALSE /\ kind' = None /\ primary' = 0 /\ rows' = NoRows /\ tpm' = 0
  /\ op' = Idle /\ failed' = FALSE
  /\ leaked' = IF op.kind = "make" /\ kind = "se" THEN leaked \cup {op.id} ELSE leaked
  /\ UNCHANGED <<build, disk, items, issued, used, astray, doomed, barrier>>

-----------------------------------------------------------------------------
(* Keys are made, used and destroyed.                                      *)

Make(c, seed) == op' = [kind |-> "make", id |-> c, seed |-> seed, wrapped |-> FALSE]

SoftwareGenerate(c) == kind = "software" /\ Make(c, 0) /\ UNCHANGED <<items, leaked>>

(* A child of the primary; a backend that is shut down makes none.         *)
TpmGenerate(c) ==
  /\ kind = "tpm" /\ primary # 0
  /\ Make(c, primary) /\ UNCHANGED <<items, leaked>>

(* A permanent key, which stays if its public half cannot be read.         *)
SeGenerate(c) ==
  /\ kind = "se"
  /\ items' = items \cup {<<"key", c>>}
  /\ \/ Make(c, 0) /\ UNCHANGED leaked
     \/ "key" \in Faults /\ UNCHANGED op /\ leaked' = leaked \cup {c}

(* makeCredential or U2F register after the prompt; a generate that makes  *)
(* nothing changes nothing.                                                *)
Generate(c) ==
  /\ Ready /\ c \notin used
  /\ SoftwareGenerate(c) \/ TpmGenerate(c) \/ SeGenerate(c)
  /\ used' = used \cup {c}
  /\ UNCHANGED <<build, memory, disk, issued, failed, astray, doomed, barrier>>

(* wrap_secret: a blob under the same primary, or an item of its own.      *)
TpmWrapSecret == kind = "tpm" /\ op.seed = primary /\ UNCHANGED items
SeWrapSecret == kind = "se" /\ items' = items \cup {<<"secret", op.id>>}
SoftwareWrapSecret == kind = "software" /\ UNCHANGED items

WrapSecret ==
  /\ op.kind = "make" /\ ~op.wrapped
  /\ TpmWrapSecret \/ SeWrapSecret \/ SoftwareWrapSecret
  /\ op' = [op EXCEPT !.wrapped = TRUE]
  /\ UNCHANGED <<build, memory, disk, issued, ghosts>>

(* It fails: the command does too, and the key is given up.                *)
WrapFails ==
  /\ op.kind = "make" /\ ~op.wrapped /\ "key" \in Faults
  /\ op' = Idle
  /\ leaked' = IF kind = "se" THEN leaked \cup {op.id} ELSE leaked
  /\ UNCHANGED <<build, memory, disk, items, issued, used, failed, astray, doomed, barrier>>

(* CredentialStore::put.                                                   *)
Put ==
  /\ op.kind = "make" /\ op.wrapped
  /\ rows' = [rows EXCEPT ![op.id] = [backend |-> kind, seed |-> op.seed]]
  /\ disk' = [rows |-> rows', tpm |-> tpm]
  /\ op' = Idle
  /\ astray' = IF failed /\ kind = "tpm" THEN astray \cup {op.id} ELSE astray
  /\ UNCHANGED <<build, up, kind, primary, tpm, items, issued, used, failed,
                 doomed, leaked, barrier>>

(* destroy() and destroy_secret() delete one item each.                    *)
SeDestroyKeyOnly(c) == items' = items \ {<<"key", c>>} /\ UNCHANGED leaked
SeDestroyByLabel(c) == items' = {} /\ UNCHANGED leaked
SeDestroy(c) ==
  \/ items' = items \ ItemsOf(c) /\ UNCHANGED leaked
  \/ /\ "destroy" \in Faults
     /\ \E gone \in SUBSET ItemsOf(c) : items' = items \ gone
     /\ leaked' = leaked \cup {c}

(* Authenticator::destroy_key.  Only the Enclave has something to destroy; *)
(* when the row's backend is not the one in use it is skipped.             *)
DestroyKey(c, backend) ==
  IF backend # "se" THEN UNCHANGED <<items, leaked, doomed>>
  ELSE IF kind # "se" THEN leaked' = leaked \cup {c} /\ UNCHANGED <<items, doomed>>
  ELSE SeDestroy(c) /\ doomed' = doomed \cup {c}

PutFails ==
  /\ op.kind = "make" /\ op.wrapped /\ "flush" \in Faults
  /\ DestroyKey(op.id, kind)
  /\ op' = Idle
  /\ UNCHANGED <<build, memory, disk, issued, used, failed, astray, barrier>>

(* makeCredential first removes the user's old credential, and does not    *)
(* look whether its row could be erased.                                   *)
Replace(c) ==
  /\ op.kind = "make" /\ op.wrapped /\ c \in Stored(rows)
  /\ DestroyKey(c, rows[c].backend)
  /\ \/ /\ rows' = [rows EXCEPT ![c] = None]
        /\ disk' = [rows |-> rows', tpm |-> tpm]
     \/ "flush" \in Faults /\ UNCHANGED <<rows, disk>>
  /\ UNCHANGED <<build, up, kind, primary, tpm, op, issued, used, failed, astray, barrier>>

(* What a row needs for its key to be loaded.  TPM: load() compares the    *)
(* blob's public point only, and sign() loads the blob under the primary.  *)
TpmLoadTransient(r) == primary # 0 /\ r.seed = primary
TpmSign(r) == kind = "tpm" /\ TpmLoadTransient(r)
SeLoad(c) == <<"key", c>> \in items
LoadKey(c) ==
  \/ rows[c].backend = "software"
  \/ rows[c].backend = "tpm" /\ TpmSign(rows[c])
  \/ rows[c].backend = "se" /\ kind = "se" /\ SeLoad(c)

(* And for its credRandom to be unwrapped, for hmac-secret.                *)
TpmUnwrapSecret(r) == kind = "tpm" /\ TpmLoadTransient(r)
SeUnwrapSecret(c) == <<"secret", c>> \in items
UnwrapSecret(c) ==
  \/ rows[c].backend = "software"
  \/ rows[c].backend = "tpm" /\ TpmUnwrapSecret(rows[c])
  \/ rows[c].backend = "se" /\ kind = "se" /\ SeUnwrapSecret(c)

(* An assertion flushes the new counter, and with it the document.         *)
Sign(c, hmac) ==
  /\ Ready /\ c \in Stored(rows)
  /\ LoadKey(c) /\ (hmac => UnwrapSecret(c))
  /\ disk' = Document
  /\ UNCHANGED <<build, memory, items, op, issued, ghosts>>

(* Commands about the PIN flush the document too.                          *)
Flush ==
  /\ Ready
  /\ disk' = Document
  /\ UNCHANGED <<build, memory, items, op, issued, ghosts>>

(* ctl_delete: key, then row.                                              *)
Delete(c) ==
  /\ Ready /\ c \in Stored(rows)
  /\ DestroyKey(c, rows[c].backend)
  /\ op' = [kind |-> "delete", id |-> c]
  /\ UNCHANGED <<build, memory, disk, issued, used, failed, astray, barrier>>

Erase ==
  /\ op.kind = "delete"
  /\ \/ /\ rows' = [rows EXCEPT ![op.id] = None]
        /\ disk' = [rows |-> rows', tpm |-> tpm]
     \/ "flush" \in Faults /\ UNCHANGED <<rows, disk>>
  /\ op' = Idle
  /\ UNCHANGED <<build, up, kind, primary, tpm, items, issued, ghosts>>

-----------------------------------------------------------------------------
(* Factory reset.                                                          *)

Reset ==
  /\ Ready
  /\ op' = [kind |-> "reset", left |-> Stored(rows)]
  /\ UNCHANGED <<build, memory, disk, items, issued, ghosts>>

ResetDestroy(c) ==
  /\ op.kind = "reset" /\ c \in op.left
  /\ DestroyKey(c, rows[c].backend)
  /\ op' = [op EXCEPT !.left = @ \ {c}]
  /\ UNCHANGED <<build, memory, disk, issued, used, failed, astray, barrier>>

(* The document is cleared and its file unlinked; then the new DEK cannot  *)
(* be stored or the empty document not be flushed, or the reset goes on.   *)
WipeKeepsSeeds ==
  /\ op.kind = "reset" /\ op.left = {}
  /\ rows' = NoRows /\ disk' = [rows |-> NoRows, tpm |-> tpm]
  /\ op' = [kind |-> "reinit"]
  /\ UNCHANGED <<build, up, kind, primary, tpm, items, issued, ghosts>>
WipeKeepsRows ==
  /\ op.kind = "reset" /\ op.left = {}
  /\ tpm' = 0 /\ disk' = [rows |-> rows, tpm |-> 0]
  /\ op' = [kind |-> "reinit"]
  /\ UNCHANGED <<build, up, kind, primary, rows, items, issued, ghosts>>
Wipe ==
  /\ op.kind = "reset" /\ op.left = {}
  /\ rows' = NoRows /\ tpm' = 0 /\ disk' = EmptyDocument
  /\ \/ op' = [kind |-> "reinit"] /\ UNCHANGED failed
     \/ "flush" \in Faults /\ op' = Idle /\ failed' = TRUE
  /\ UNCHANGED <<build, up, kind, primary, items, issued, used, astray, doomed,
                 leaked, barrier>>

(* reinit_after_reset: nothing to do but for the TPM, which fetches new    *)
(* seeds, shuts down and builds their primary.                             *)
NoReinit ==
  /\ kind # "tpm" /\ UNCHANGED <<primary, tpm, disk, issued>>
  /\ failed' = FALSE /\ barrier' = issued
TpmReinit ==
  /\ kind = "tpm"
  /\ \/ TpmStateOrCreate /\ TpmInit(tpm') /\ failed' = FALSE /\ barrier' = issued
     \/ /\ TpmStateOrCreate /\ "key" \in Faults
        /\ TpmShutDown /\ failed' = TRUE /\ UNCHANGED barrier
     \/ TpmStateUnflushed /\ failed' = TRUE /\ UNCHANGED <<primary, barrier>>

(* A defective variant: the backend keeps its primary over a reset.        *)
ReinitDefault ==
  /\ op.kind = "reinit"
  /\ op' = Idle /\ failed' = FALSE /\ barrier' = issued
  /\ UNCHANGED <<build, up, kind, primary, rows, tpm, disk, items, issued,
                 used, astray, doomed, leaked>>
Reinit ==
  /\ op.kind = "reinit"
  /\ NoReinit \/ TpmReinit
  /\ op' = Idle
  /\ UNCHANGED <<build, up, kind, rows, items, used, astray, doomed, leaked>>

Next ==
  \/ \E pref \in Prefs : Start(pref)
  \/ ProbeSoftware \/ ProbeNotBuilt \/ SeProbe \/ MakeTpm2 \/ Stop
  \/ \E c \in Creds : Generate(c) \/ Replace(c) \/ Delete(c) \/ ResetDestroy(c)
  \/ WrapSecret \/ WrapFails \/ Put \/ PutFails \/ Erase
  \/ \E c \in Creds, hmac \in BOOLEAN : Sign(c, hmac)
  \/ Flush \/ Reset \/ Wipe \/ Reinit

Spec == Init /\ [][Next]_vars

-----------------------------------------------------------------------------
(* The variables have their types.                                         *)
TypeOK ==
  /\ build \in Builds /\ up \in BOOLEAN /\ kind \in Kinds \cup {None}
  /\ primary \in Seeds /\ issued \in Seeds /\ barrier \in Seeds
  /\ rows \in [Creds -> Rows \cup {None}] /\ tpm \in Seeds
  /\ disk \in Documents /\ items \subseteq Items /\ op \in Ops
  /\ failed \in BOOLEAN
  /\ used \subseteq Creds /\ astray \subseteq Creds
  /\ doomed \subseteq Creds /\ leaked \subseteq Creds

(* While the daemon runs, every key of the backend in use, and every       *)
(* software key, can be loaded and its credRandom unwrapped; also when a   *)
(* failed reset left the TPM backend shut down, or with the primary of     *)
(* seeds that the store no longer has.  Except for keys whose deletion     *)
(* began, and those made after a failed reset in an earlier process.       *)
SessionKeysUsable ==
  Ready => \A c \in Stored(rows) \ (doomed \cup IF failed THEN {} ELSE astray) :
             rows[c].backend \in {"software", kind} => LoadKey(c) /\ UnwrapSecret(c)

(* Whenever the process ends, however many starts with other backends and  *)
(* failed resets went before, a restart finds the seeds every TPM key on   *)
(* disk was wrapped under, and the items of every Enclave key.  Not so for *)
(* a key whose deletion began, or a TPM key made after a failed reset: it  *)
(* is wrapped under seeds that the reset took out of the store.            *)
KeysSurviveRestart ==
  \A c \in Stored(disk.rows) \ doomed :
    /\ disk.rows[c].backend = "tpm" /\ c \notin astray =>
         disk.rows[c].seed = disk.tpm /\ disk.tpm # 0
    /\ disk.rows[c].backend = "se" => ItemsOf(c) \subseteq items

(* After a reset that succeeded no seeds from before it are in use, in     *)
(* memory or on disk, so the blobs wrapped under them cannot be loaded     *)
(* again.                                                                  *)
OldSeedsDead ==
  /\ {primary, tpm, disk.tpm} \cap 1 .. barrier = {}
  /\ \A c \in Stored(rows) : rows[c].seed \notin 1 .. barrier
  /\ \A c \in Stored(disk.rows) : disk.rows[c].seed \notin 1 .. barrier

(* An item of a credential without a row is one a command is making, or    *)
(* was given up: by a stop or a failure between key and row, by a deletion *)
(* that failed, or by one while its backend was not in use.                *)
ItemsAccounted ==
  \A c \in Creds : ItemsOf(c) \cap items # {} =>
    \/ c \in Stored(disk.rows) \cup leaked
    \/ op.kind = "make" /\ op.id = c

(* An item is orphaned once its row is gone, or if it never got one.       *)
Orphaned(c) ==
  /\ ItemsOf(c) \cap items # {}
  /\ c \notin Stored(disk.rows)
  /\ ~(op.kind = "make" /\ op.id = c)

(* Nothing the daemon does deletes an orphaned item again: a command finds *)
(* items by the rows only, the factory reset too (authenticator.cpp:222),  *)
(* in any process and with any backend.  DESIGN.md:685 says the contrary:  *)
(* "Factory reset iterates all tags with label `swpasskey` in our access   *)
(* group."                                                                 *)
OrphansStay ==
  [][\A c \in Creds : Orphaned(c) => ItemsOf(c) \cap items \subseteq items']_vars
=============================================================================
