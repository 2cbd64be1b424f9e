--------------------------- MODULE Authenticator ---------------------------
(***************************************************************************)
(* The authenticator proper: makeCredential, getAssertion and              *)
(* getNextAssertion, U2F register and authenticate, reset, and deletion    *)
(* over the control socket (src/ctap/authenticator.cpp,                    *)
(* make_credential.cpp, get_assertion.cpp, u2f.cpp).                       *)
(*                                                                         *)
(* op_mu_ is held from the start of a command to its end, over the prompt  *)
(* for user presence too, so commands do not interleave; but the process   *)
(* may die at any point of one, and rows are read before the prompt and    *)
(* used after it, or in a later getNextAssertion.  A command is a step per *)
(* thing it makes durable: a key in the Secure Enclave, a flushed store.   *)
(* The store is what DurableStore promises.                                *)
(*                                                                         *)
(* Rows are ordered by last_used_unix and created_unix, which come from a  *)
(* clock that can be set: any order may occur, so the pending list is a    *)
(* function on the credentials left, and any of them comes next.  A        *)
(* command that fails before it changes anything only clears the list, as  *)
(* OtherCommand does.  The PIN is ClientPin's business.                    *)
(***************************************************************************)
EXTENDS Naturals, FiniteSets

CONSTANTS
  Creds,            \* credential ids; the CSPRNG never repeats one
  Enclave,          \* those whose key is a permanent item of its own, which
                    \* destroy() deletes; the others' key is in their row
  Rps, Users,
  MaxCredentials,   \* kMaxCredentials, 100
  MaxCount,         \* bound on sign_count; 2^32-1 for the code's uint32
  U2fEnabled,       \* AuthenticatorConfig::u2f_enabled
  Faults,           \* what may fail: "flush"; "key": wrapping, signing;
                    \* "destroy": deleting a permanent key, or skipping it
  None

(* A row; U2F rows have no user (rk = false).                              *)
Rows == [rp : Rps, user : Users \cup {None}, count : 1 .. MaxCount]

ASSUME AuthenticatorAssumption ==
  /\ Enclave \subseteq Creds
  /\ MaxCredentials \in Nat /\ MaxCount \in Nat \ {0}
  /\ U2fEnabled \in BOOLEAN
  /\ Faults \subseteq {"flush", "key", "destroy"}
  /\ None \notin Rows

NoRow == None
NoRows == [c \in Creds |-> NoRow]

(* Rows copied out of the store.                                           *)
Snapshots == UNION {[S -> Rows] : S \in SUBSET Creds}
Nothing == [c \in {} |-> NoRow]

(* The command under way: one that will sign with one of creds, one that   *)
(* makes a credential, a deletion, a reset, or a response to be sent.      *)
Idle == [kind |-> "idle"]
Signing == [kind : {"assert", "next", "u2f"}, creds : Snapshots, up : BOOLEAN]
Making == [kind : {"make", "register"}, keyed : BOOLEAN, id : Creds, rp : Rps,
           user : Users \cup {None}, olds : SUBSET Creds, old : SUBSET Creds]
Deleting == [kind : {"delete"}, id : Creds]
Resetting == [kind |-> "reset"]
Responding == [kind : {"respond"}, id : Creds, count : 1 .. MaxCount, up : BOOLEAN]

VARIABLES
  running,   \* the daemon runs
  rows,      \* the store's rows in memory
  disk,      \* the rows a restart would find
  keys,      \* the credentials whose private key exists
  pending,   \* next_state_: the rows getNextAssertion has left, and its up
  op,        \* the command under way
  used,      \* ghost: the credential ids generated so far
  sent,      \* ghost: the highest counter sent with UP, per credential
  reused,    \* ghost: credentials that sent a counter no higher than before
  raced,     \* ghost: credentials U2F used while they were pending
  doomed     \* ghost: credentials whose deletion was begun

store  == <<rows, disk>>
ghosts == <<used, sent, reused, raced, doomed>>
vars   == <<running, store, keys, pending, op, ghosts>>

NoPending == [creds |-> Nothing, up |-> FALSE]
Ready == running /\ op = Idle
Stored(r) == {c \in Creds : r[c] # NoRow}

Init ==
  /\ running = FALSE /\ rows = NoRows /\ disk = NoRows /\ keys = {}
  /\ pending = NoPending /\ op = Idle
  /\ used = {} /\ sent = [c \in Creds |-> 0]
  /\ reused = {} /\ raced = {} /\ doomed = {}

Start ==
  /\ ~running
  /\ running' = TRUE /\ rows' = disk
  /\ UNCHANGED <<disk, keys, pending, op, ghosts>>

Crash ==
  /\ running
  /\ running' = FALSE /\ rows' = NoRows /\ pending' = NoPending /\ op' = Idle
  /\ UNCHANGED <<disk, keys, ghosts>>

(* A mutation of the store that makes new of the rows and flushes.         *)
Persist(new) == rows' = new /\ disk' = new
FlushFails == "flush" \in Faults /\ UNCHANGED disk

(* Authenticator::destroy_key.  What destroy() returns is ignored, and a   *)
(* row of another backend than the one in use is skipped, so a key may be  *)
(* left when its row goes.                                                 *)
DestroyKeys(C) ==
  \/ keys' = keys \ (C \cap Enclave)
  \/ "destroy" \in Faults /\ \E D \in SUBSET (C \cap Enclave) : keys' = keys \ D

(* Any CBOR command but getNextAssertion drops the pending list: getInfo,  *)
(* clientPIN (which may flush the store), authenticatorSelection, unknown  *)
(* commands, and those that are refused or declined.                       *)
OtherCommand ==
  /\ Ready
  /\ pending' = NoPending
  /\ disk' \in {disk, rows}
  /\ UNCHANGED <<running, rows, keys, op, ghosts>>

-----------------------------------------------------------------------------
(* Assertions.                                                             *)

Snapshot(C) == [c \in C |-> rows[c]]
Without(s, c) == [d \in DOMAIN s \ {c} |-> s[d]]

(* getAssertion up to the prompt.  The candidates: all discoverable rows   *)
(* of rp, or those an allowList names, where U2F rows count too.           *)
GetAssertion(rp, C, u) ==
  /\ Ready
  /\ C # {} /\ \A c \in C : rows[c] # NoRow /\ rows[c].rp = rp
  /\ pending' = NoPending
  /\ op' = [kind |-> "assert", creds |-> Snapshot(C), up |-> u]
  /\ UNCHANGED <<running, store, keys, ghosts>>

(* getNextAssertion takes the next row; ...                                *)
GetNextAssertion(c) ==
  /\ Ready
  /\ c \in DOMAIN pending.creds
  /\ op' = [kind |-> "next", creds |-> [d \in {c} |-> pending.creds[d]], up |-> pending.up]
  /\ pending' = [pending EXCEPT !.creds = Without(@, c)]
  /\ UNCHANGED <<running, store, keys, ghosts>>

(* ... after 30 seconds the list is gone.                                  *)
GetNextExpired ==
  /\ Ready
  /\ pending' = NoPending
  /\ UNCHANGED <<running, store, keys, op, ghosts>>

(* U2F authenticate, enforce (u) or don't-enforce, up to the prompt.  Any  *)
(* row may be named, and handle_u2f leaves the pending list alone.         *)
U2fAuthenticate(c, u) ==
  /\ U2fEnabled /\ Ready /\ rows[c] # NoRow
  /\ op' = [kind |-> "u2f", creds |-> Snapshot({c}), up |-> u]
  /\ UNCHANGED <<running, store, keys, pending, ghosts>>

(* Denied, timed out or cancelled.                                         *)
Declined ==
  /\ op.kind \in {"assert", "u2f"} /\ op.up
  /\ op' = Idle
  /\ UNCHANGED <<running, store, keys, pending, ghosts>>

(* What getAssertion leaves to getNextAssertion when it signs with c.      *)
Remaining(c) ==
  IF op.kind # "assert" THEN pending
  ELSE IF DOMAIN op.creds = {c} THEN NoPending
  ELSE [creds |-> Without(op.creds, c), up |-> op.up]

(* A defective variant: the response does not wait for the flush.          *)
UpdateCountUnflushed(c, n) ==
  /\ rows[c] # NoRow /\ rows' = [rows EXCEPT ![c].count = n] /\ UNCHANGED disk
UpdateCount(c, n) == rows[c] # NoRow /\ Persist([rows EXCEPT ![c].count = n])

Respond(c, n) == op' = [kind |-> "respond", id |-> c, count |-> n, up |-> op.up]
Race(c) == raced' = IF op.kind = "u2f" /\ c \in DOMAIN pending.creds
                      THEN raced \cup {c} ELSE raced

(* build_assertion and its twin in u2f_authenticate, with the first row.   *)
(* With user presence the counter is the copied one plus one, durable      *)
(* before the response is framed; without, it is the copied one.           *)
SignBumped(c) ==
  /\ op.kind \in {"assert", "next", "u2f"} /\ op.up
  /\ c \in DOMAIN op.creds /\ c \in keys
  /\ op.creds[c].count < MaxCount
  /\ UpdateCount(c, op.creds[c].count + 1)
  /\ Respond(c, op.creds[c].count + 1)
  /\ pending' = Remaining(c) /\ Race(c)
  /\ UNCHANGED <<running, keys, used, sent, reused, doomed>>

SignUnbumped(c) ==
  /\ op.kind \in {"assert", "next", "u2f"} /\ ~op.up
  /\ c \in DOMAIN op.creds /\ c \in keys
  /\ Respond(c, op.creds[c].count)
  /\ pending' = Remaining(c)
  /\ UNCHANGED <<running, store, keys, ghosts>>

(* The counter is bumped in memory, but cannot be made durable: no         *)
(* response.  An assertion that fails takes the pending list with it.      *)
SignUnflushed(c) ==
  /\ op.kind \in {"assert", "next", "u2f"} /\ op.up
  /\ c \in DOMAIN op.creds /\ c \in keys
  /\ op.creds[c].count < MaxCount
  /\ FlushFails /\ rows[c] # NoRow
  /\ rows' = [rows EXCEPT ![c].count = op.creds[c].count + 1]
  /\ op' = Idle /\ Race(c)
  /\ pending' = IF op.kind = "assert" THEN NoPending ELSE pending
  /\ UNCHANGED <<running, keys, used, sent, reused, doomed>>

(* load_key or sign_der fails, or the row is not there any more.           *)
SignFails(c) ==
  /\ op.kind \in {"assert", "next", "u2f"}
  /\ c \in DOMAIN op.creds
  /\ c \notin keys \/ (op.up /\ rows[c] = NoRow) \/ "key" \in Faults
  /\ op' = Idle
  /\ pending' = IF op.kind = "assert" THEN NoPending ELSE pending
  /\ UNCHANGED <<running, store, keys, ghosts>>

(* The handler returns and the response goes out.                          *)
Send ==
  /\ op.kind = "respond"
  /\ IF op.up
       THEN /\ reused' = IF op.count <= sent[op.id] THEN reused \cup {op.id} ELSE reused
            /\ sent' = [sent EXCEPT ![op.id] = IF op.count <= @ THEN @ ELSE op.count]
       ELSE UNCHANGED <<sent, reused>>
  /\ op' = Idle
  /\ UNCHANGED <<running, store, keys, pending, used, raced, doomed>>

-----------------------------------------------------------------------------
(* Credentials are made and deleted.                                       *)

(* makeCredential for user, and U2F register, which has none, up to the    *)
(* prompt.                                                                 *)
MakeCredential(c, rp, user) ==
  /\ Ready /\ c \notin used
  /\ pending' = NoPending
  /\ op' = [kind |-> "make", keyed |-> FALSE, id |-> c, rp |-> rp, user |-> user,
            olds |-> {}, old |-> {}]
  /\ used' = used \cup {c}
  /\ UNCHANGED <<running, store, keys, sent, reused, raced, doomed>>

U2fRegister(c, rp) ==
  /\ U2fEnabled /\ Ready /\ c \notin used
  /\ op' = [kind |-> "register", keyed |-> FALSE, id |-> c, rp |-> rp, user |-> None,
            olds |-> {}, old |-> {}]
  /\ used' = used \cup {c}
  /\ UNCHANGED <<running, store, keys, pending, sent, reused, raced, doomed>>

(* Declined, excluded, or the store is full.                               *)
MakeRefused ==
  /\ op.kind \in {"make", "register"} /\ ~op.keyed
  /\ op' = Idle
  /\ UNCHANGED <<running, store, keys, pending, ghosts>>

(* The discoverable rows the new credential replaces.                      *)
SameUser(rp, user) ==
  {c \in Stored(rows) : rows[c].user = user /\ rows[c].rp = rp}
NoneReplaced(rp, user) == {}
Replaced(rp, user) == IF user = None THEN {} ELSE SameUser(rp, user)

(* The key is generated (U2F: after the attestation key is there, which    *)
(* may take a flush); if its secret cannot be wrapped, it is given up.     *)
Generate ==
  /\ op.kind \in {"make", "register"} /\ ~op.keyed
  /\ Cardinality(Stored(rows)) < MaxCredentials
  /\ keys' = keys \cup {op.id}
  /\ \/ op' = [op EXCEPT !.keyed = TRUE, !.olds = Replaced(op.rp, op.user)]
     \/ "key" \in Faults /\ op' = Idle
  /\ IF op.kind = "register" THEN disk' \in {disk, rows} ELSE UNCHANGED disk
  /\ UNCHANGED <<running, rows, pending, ghosts>>

(* The credentials to be replaced, one after the other: the key is         *)
(* destroyed, then the row erased, and a failure to erase it ignored.      *)
Replace(c) ==
  /\ op.kind = "make" /\ op.old = {} /\ c \in op.olds
  /\ DestroyKeys({c})
  /\ op' = [op EXCEPT !.old = {c}, !.olds = @ \ {c}]
  /\ doomed' = doomed \cup {c}
  /\ UNCHANGED <<running, store, pending, used, sent, reused, raced>>

ReplaceErase(c) ==
  /\ op.kind = "make" /\ c \in op.old
  /\ \/ Persist([rows EXCEPT ![c] = NoRow])
     \/ FlushFails /\ UNCHANGED rows
  /\ op' = [op EXCEPT !.old = {}]
  /\ UNCHANGED <<running, keys, pending, ghosts>>

NewRowUncounted(rp, user) == [rp |-> rp, user |-> user, count |-> 0]
NewRow(rp, user) == [rp |-> rp, user |-> user, count |-> 1]

(* The new row is made durable, then the attestation signed (U2F: before,  *)
(* and its response has no counter).  If the flush fails the row is rolled *)
(* back and the key destroyed.                                             *)
Put ==
  /\ op.kind \in {"make", "register"} /\ op.keyed /\ op.olds = {} /\ op.old = {}
  /\ Persist([rows EXCEPT ![op.id] = NewRow(op.rp, op.user)])
  /\ \/ op.kind = "make" /\ op' = [kind |-> "respond", id |-> op.id, count |-> 1, up |-> TRUE]
     \/ (op.kind = "register" \/ "key" \in Faults) /\ op' = Idle
  /\ UNCHANGED <<running, keys, pending, ghosts>>

(* A defective variant: the row stays in memory.                           *)
PutFailsKeepsRow ==
  /\ op.kind \in {"make", "register"} /\ op.keyed /\ op.olds = {} /\ op.old = {}
  /\ FlushFails /\ DestroyKeys({op.id})
  /\ rows' = [rows EXCEPT ![op.id] = NewRow(op.rp, op.user)]
  /\ op' = Idle
  /\ UNCHANGED <<running, pending, ghosts>>
PutFails ==
  /\ op.kind \in {"make", "register"} /\ op.keyed /\ op.olds = {} /\ op.old = {}
  /\ FlushFails /\ UNCHANGED rows
  /\ DestroyKeys({op.id})
  /\ op' = Idle
  /\ UNCHANGED <<running, pending, ghosts>>

(* swpasskeyctl delete, or the menu: the key, the pending list, the row.   *)
CtlDeleteKeepsList(c) ==
  /\ Ready /\ rows[c] # NoRow
  /\ DestroyKeys({c}) /\ op' = [kind |-> "delete", id |-> c]
  /\ doomed' = doomed \cup {c}
  /\ UNCHANGED <<running, store, pending, used, sent, reused, raced>>
CtlDelete(c) ==
  /\ Ready /\ rows[c] # NoRow
  /\ DestroyKeys({c})
  /\ pending' = NoPending
  /\ op' = [kind |-> "delete", id |-> c]
  /\ doomed' = doomed \cup {c}
  /\ UNCHANGED <<running, store, used, sent, reused, raced>>

DeleteErase ==
  /\ op.kind = "delete"
  /\ \/ Persist([rows EXCEPT ![op.id] = NoRow])
     \/ FlushFails /\ UNCHANGED rows
  /\ op' = Idle
  /\ UNCHANGED <<running, keys, pending, ghosts>>

(* authenticatorReset, confirmed, from HID or the control socket: the keys *)
(* and the rows in memory go first, then the file.                         *)
Reset ==
  /\ Ready
  /\ DestroyKeys(Stored(rows))
  /\ rows' = NoRows /\ pending' = NoPending
  /\ op' = Resetting
  /\ doomed' = doomed \cup Stored(rows)
  /\ UNCHANGED <<running, disk, used, sent, reused, raced>>

ResetStore ==
  /\ op.kind = "reset"
  /\ disk' = NoRows /\ op' = Idle
  /\ UNCHANGED <<running, rows, keys, pending, ghosts>>

Assertions ==
  \/ \E rp \in Rps, C \in SUBSET Creds, u \in BOOLEAN : GetAssertion(rp, C, u)
  \/ \E c \in Creds : \/ GetNextAssertion(c)
                      \/ \E u \in BOOLEAN : U2fAuthenticate(c, u)
                      \/ SignBumped(c) \/ SignUnbumped(c) \/ SignUnflushed(c) \/ SignFails(c)
  \/ GetNextExpired \/ Declined \/ Send

Make ==
  \/ \E c \in Creds, rp \in Rps : \/ \E user \in Users : MakeCredential(c, rp, user)
                                  \/ U2fRegister(c, rp)
  \/ MakeRefused \/ Generate \/ Put \/ PutFails
  \/ \E c \in Creds : Replace(c) \/ ReplaceErase(c)

Delete == (\E c \in Creds : CtlDelete(c)) \/ DeleteErase \/ Reset \/ ResetStore

Next == Start \/ Crash \/ OtherCommand \/ Assertions \/ Make \/ Delete

Spec == Init /\ [][Next]_vars

-----------------------------------------------------------------------------
RowsOrNone == [Creds -> Rows \cup {NoRow}]

(* Type invariant.                                                         *)
TypeOK ==
  /\ running \in BOOLEAN
  /\ rows \in RowsOrNone /\ disk \in RowsOrNone
  /\ keys \subseteq Creds
  /\ pending \in [creds : Snapshots, up : BOOLEAN]
  /\ op \in Signing \cup Making \cup Deleting \cup Responding \cup {Idle, Resetting}
  /\ used \subseteq Creds /\ reused \subseteq Creds /\ raced \subseteq Creds
  /\ doomed \subseteq Creds
  /\ sent \in [Creds -> 0 .. MaxCount]

(* DESIGN.md:1050 and 1054: over all crashes and failed flushes, the       *)
(* counters a credential sends with UP only grow (a relying party takes    *)
(* anything else for a clone), as long as U2F does not use a credential    *)
(* while it is in a pending list.                                          *)
CountersGrow == reused \subseteq raced

(* authenticator.cpp:300: "any other command invalidates the pending       *)
(* list": so a row in the list is still the row in the store, and no       *)
(* counter is sent twice.                                                  *)
NoCounterReused == reused = {}

(* The rows getNextAssertion will use, copied at getAssertion, are those   *)
(* in the store, unless U2F used the credential meanwhile; a deleted one   *)
(* is not among them.                                                      *)
PendingFresh ==
  \A c \in DOMAIN pending.creds : c \in raced \/ rows[c] = pending.creds[c]

(* make_credential.cpp:249: a new credential for the same rp.id and        *)
(* user.id replaces the old one.  Two of them are stored only if one is    *)
(* left over from a deletion that was begun and did not complete.          *)
OnePerUser ==
  \A r \in {rows, disk} : \A c, d \in Stored(r) :
    (c # d /\ r[c].user # None /\ r[c].rp = r[d].rp /\ r[c].user = r[d].user)
      => c \in doomed \/ d \in doomed

(* A row whose key is gone, which no assertion can use, is left over from  *)
(* a deletion that was begun and did not complete.                         *)
RowsHaveKeys == (Stored(rows) \cup Stored(disk)) \ doomed \subseteq keys

(* Where a credential stands, by what a restart would find: an id that was *)
(* drawn and has no row is being made, or gone for good.                   *)
Standing(c) ==
  IF disk[c] # NoRow THEN "live"
  ELSE IF c \notin used THEN "new"
  ELSE IF op.kind \in {"make", "register"} /\ op.id = c THEN "making" ELSE "gone"

(* A relying party's credentials live as CredentialLife says: a row that   *)
(* was deleted, replaced or reset, or rolled back when its registration    *)
(* failed (credential_store.cpp:370), is not brought back by a later flush *)
(* of the document in memory or by a restart.                              *)
Life == INSTANCE CredentialLife WITH life <- [c \in Creds |-> Standing(c)], seen <- sent
ImplementsCredentialLife == Life!Spec
=============================================================================
