----------------------------- MODULE ClientPin -----------------------------
(***************************************************************************)
(* authenticatorClientPIN, protocol 2: PinManager (src/ctap/client_pin.cpp *)
(* and pin_state.hpp) with the two control-socket operations that reach it *)
(* (src/ctap/authenticator.cpp).                                           *)
(*                                                                         *)
(* The authenticator's op_mu_ is held from the start of a request to its   *)
(* end, so requests do not interleave, but the process may die at any      *)
(* point of one: where that makes a difference, in check_pin_hash, the     *)
(* request is several steps.  The store is what DurableStore promises: a   *)
(* flush that succeeds makes the PIN in memory durable, one that fails     *)
(* leaves the durable one, and every other flush of the daemon writes the  *)
(* PIN in memory along.                                                    *)
(*                                                                         *)
(* Cryptography is by what it does: a hash encrypted to the present        *)
(* key-agreement key decrypts to the guess, one encrypted to an older key  *)
(* to a value that is no PIN's hash.  Requests that are refused before     *)
(* anything changes (missing or malformed fields, a wrong HMAC, a policy   *)
(* violation, a cancelled failure delay) are not actions.                  *)
(***************************************************************************)
EXTENDS Naturals, FiniteSets

CONSTANTS
  Pins,         \* the PINs (as their hashes)
  Rps,          \* relying party ids
  MaxRetries,   \* kMaxRetries, 8
  Faults,       \* what may fail: "flush" of set_pin, "reset": factory_reset
  None

ASSUME ClientPinAssumption ==
  /\ MaxRetries \in Nat \ {0}
  /\ Faults \subseteq {"flush", "reset"}
  /\ None \notin Pins \cup Rps

Perms == {"mc", "ga"}
Garbage == None          \* what an outdated key-agreement key decrypts to

PinStates == [hash : Pins \cup {None}, retries : 0 .. MaxRetries]
NoPin     == [hash |-> None, retries |-> MaxRetries]
Tokens    == [perms : SUBSET Perms, rp : Rps \cup {None}]

(* A request that has persisted the decremented retries: getPinToken (with *)
(* the token it asks for) or changePIN (with the new PIN).                 *)
Idle    == [kind |-> "idle"]
Asking  == [kind : {"token"}, at : {"compare", "finish"}, guess : Pins \cup {Garbage}, token : Tokens]
Changing == [kind : {"change"}, at : {"compare", "finish"}, guess : Pins \cup {Garbage}, new : Pins]

VARIABLES
  up,      \* the daemon runs
  pin,     \* PinState in memory
  disk,    \* PinState a restart would find
  token,   \* token_
  op,      \* the request under way
  tries,   \* ghost: wrong guesses at each PIN since it was set or proved
  issue    \* ghost, about the token: the PIN it was issued under, whether a
           \* PIN change or reset was reported as done since, and for which
           \* relying parties it has been accepted

vars == <<up, pin, disk, token, op, tries, issue>>

Ready == up /\ op = Idle

Init ==
  /\ up = FALSE /\ pin = NoPin /\ disk = NoPin /\ token = None /\ op = Idle
  /\ tries = [p \in Pins |-> 0]
  /\ issue = [pin |-> None, outdated |-> FALSE, rps |-> {}]

(* The daemon starts and loads the store.                                  *)
Start ==
  /\ ~up
  /\ up' = TRUE /\ pin' = disk
  /\ UNCHANGED <<disk, token, op, tries, issue>>

Crash ==
  /\ up
  /\ up' = FALSE /\ pin' = NoPin /\ token' = None /\ op' = Idle
  /\ UNCHANGED <<disk, tries, issue>>

(* Another mutation of the store is flushed, and the PIN with it.          *)
StoreFlushed ==
  /\ Ready
  /\ disk' = pin
  /\ UNCHANGED <<up, pin, token, op, tries, issue>>

(* CredentialStore::set_pin: memory first, then the flush.                 *)
Persist(p)     == pin' = p /\ disk' = p
PersistFails(p) == "flush" \in Faults /\ pin' = p /\ UNCHANGED disk

Reported == issue' = [issue EXCEPT !.outdated = TRUE]
NewPin(p) == [hash |-> p, retries |-> MaxRetries]

(* setPIN: only while no PIN is set; the token, if any, is not touched.    *)
SetPin(p) ==
  /\ Ready /\ pin.hash = None
  /\ \/ Persist(NewPin(p)) /\ Reported
     \/ PersistFails(NewPin(p)) /\ UNCHANGED issue
  /\ tries' = [tries EXCEPT ![p] = 0]
  /\ UNCHANGED <<up, token, op>>

(* swpasskeyctl set-pin: PinManager::set_pin_local.                        *)
SetPinLocal(p) ==
  /\ Ready
  /\ \/ Persist(NewPin(p)) /\ Reported /\ token' = None
     \/ PersistFails(NewPin(p)) /\ UNCHANGED <<issue, token>>
  /\ tries' = [tries EXCEPT ![p] = 0]
  /\ UNCHANGED <<up, op>>

-----------------------------------------------------------------------------
(* check_pin_hash, for the request r: the decremented retries are durable  *)
(* before the comparison; if they cannot be made durable there is none.    *)
Decremented == [pin EXCEPT !.retries = @ - 1]

(* Variants with a defect: blocked PINs are not refused, and the unsigned  *)
(* counter wraps around; the decrement is not flushed.                     *)
CheckPinUnguarded(r) ==
  /\ Ready /\ pin.hash # None
  /\ Persist([pin EXCEPT !.retries = (@ + 255) % 256]) /\ op' = r
  /\ UNCHANGED <<up, token, tries, issue>>
CheckPinUnflushed(r) ==
  /\ Ready /\ pin.hash # None /\ pin.retries > 0
  /\ pin' = Decremented /\ op' = r /\ UNCHANGED <<disk, up, token, tries, issue>>

CheckPin(r) ==
  /\ Ready /\ pin.hash # None /\ pin.retries > 0
  /\ \/ Persist(Decremented) /\ op' = r
     \/ PersistFails(Decremented) /\ UNCHANGED op
  /\ UNCHANGED <<up, token, tries, issue>>

(* getPinToken (0x05): all permissions, no rpId; with permissions (0x09):  *)
(* an rpId, unless mc is not asked for.                                    *)
Mintable(t) == t.perms # {} /\ (t.rp = None => t.perms = Perms \/ "mc" \notin t.perms)
GetToken(guess, t) ==
  /\ Mintable(t)
  /\ CheckPin([kind |-> "token", at |-> "compare", guess |-> guess, token |-> t])

(* changePIN is authenticated with the shared secret, so its guess was     *)
(* encrypted to the present key.                                           *)
ChangePin(guess, new) ==
  CheckPin([kind |-> "change", at |-> "compare", guess |-> guess, new |-> new])

(* A wrong guess: the token and the key-agreement key are replaced.        *)
CompareFails ==
  /\ op # Idle /\ op.at = "compare" /\ op.guess # pin.hash
  /\ tries' = [tries EXCEPT ![pin.hash] = @ + 1]
  /\ token' = None /\ op' = Idle
  /\ UNCHANGED <<up, pin, disk, issue>>

(* A right one: the retries are restored, whether or not that is durable.  *)
CompareSucceeds ==
  /\ op # Idle /\ op.at = "compare" /\ op.guess = pin.hash
  /\ Persist(NewPin(pin.hash)) \/ PersistFails(NewPin(pin.hash))
  /\ tries' = [tries EXCEPT ![pin.hash] = 0]
  /\ op' = [op EXCEPT !.at = "finish"]
  /\ UNCHANGED <<up, token, issue>>

(* get_token: a new token replaces the old one; without random numbers the *)
(* old one stays, and if the answer cannot be encrypted there is none.     *)
FinishToken ==
  /\ op.kind = "token" /\ op.at = "finish"
  /\ \/ /\ token' = op.token
        /\ issue' = [pin |-> pin.hash, outdated |-> FALSE, rps |-> {}]
     \/ token' \in {token, None} /\ UNCHANGED issue
  /\ op' = Idle
  /\ UNCHANGED <<up, pin, disk, tries>>

(* A defective variant: the outstanding token survives the change.         *)
FinishChangeKeepsToken ==
  /\ op.kind = "change" /\ op.at = "finish"
  /\ \/ Persist(NewPin(op.new)) /\ Reported /\ tries' = [tries EXCEPT ![op.new] = 0]
     \/ UNCHANGED <<pin, disk, issue, tries>>
  /\ op' = Idle
  /\ UNCHANGED <<up, token>>

(* change_pin after the old PIN was proved.  The new PIN may still violate *)
(* the policy; a flush that fails returns before the token is dropped.     *)
FinishChange ==
  /\ op.kind = "change" /\ op.at = "finish"
  /\ \/ /\ Persist(NewPin(op.new)) /\ Reported /\ token' = None
        /\ tries' = [tries EXCEPT ![op.new] = 0]
     \/ /\ PersistFails(NewPin(op.new)) /\ UNCHANGED <<issue, token>>
        /\ tries' = [tries EXCEPT ![op.new] = 0]
     \/ UNCHANGED <<pin, disk, issue, token, tries>>
  /\ op' = Idle
  /\ UNCHANGED up

-----------------------------------------------------------------------------
(* authenticatorReset, confirmed by the user.  A reset that fails has      *)
(* wiped the PIN in memory and on disk, and returns before the token goes; *)
(* one that the process does not survive may have wiped the file.          *)
Reset ==
  /\ Ready
  /\ pin' = NoPin /\ disk' = NoPin
  /\ \/ token' = None /\ Reported /\ UNCHANGED up
     \/ "reset" \in Faults /\ UNCHANGED <<up, token, issue>>
     \/ up' = FALSE /\ token' = None /\ UNCHANGED issue
  /\ UNCHANGED <<op, tries>>

(* verify, from makeCredential (mc) or getAssertion (ga) for rp, with an   *)
(* HMAC made with the present token: accepted, and the token bound to rp.  *)
VerifyUnbound(perm, rp) ==
  /\ Ready /\ token # None
  /\ perm \in token.perms /\ token.rp \in {None, rp}
  /\ issue' = [issue EXCEPT !.rps = @ \cup {rp}]
  /\ UNCHANGED <<up, pin, disk, op, tries, token>>
Verify(perm, rp) ==
  /\ Ready /\ token # None
  /\ perm \in token.perms /\ token.rp \in {None, rp}
  /\ token' = [token EXCEPT !.rp = rp]
  /\ issue' = [issue EXCEPT !.rps = @ \cup {rp}]
  /\ UNCHANGED <<up, pin, disk, op, tries>>

(* verify after token_idle_timeout: the token is dropped.                  *)
VerifyExpired ==
  /\ Ready /\ token # None
  /\ token' = None
  /\ UNCHANGED <<up, pin, disk, op, tries, issue>>

Next ==
  \/ Start \/ Crash \/ StoreFlushed \/ Reset
  \/ \E p \in Pins : SetPin(p) \/ SetPinLocal(p)
  \/ \E g \in Pins \cup {Garbage}, t \in Tokens : GetToken(g, t)
  \/ \E g, p \in Pins : ChangePin(g, p)
  \/ CompareFails \/ CompareSucceeds \/ FinishToken \/ FinishChange
  \/ \E perm \in Perms, rp \in Rps : Verify(perm, rp)
  \/ VerifyExpired

Spec == Init /\ [][Next]_vars

-----------------------------------------------------------------------------
(* Type invariant.                                                         *)
TypeOK ==
  /\ up \in BOOLEAN
  /\ pin \in PinStates /\ disk \in PinStates
  /\ token \in Tokens \cup {None}
  /\ op \in Asking \cup Changing \cup {Idle}
  /\ tries \in [Pins -> Nat]
  /\ issue \in [pin : Pins \cup {None}, outdated : BOOLEAN, rps : SUBSET Rps]
  /\ ~up => op = Idle /\ token = None

(* client_pin.cpp:260: "decrement and persist BEFORE comparing, so a crash *)
(* or a failed flush can never yield a free guess": whatever fails, a PIN  *)
(* is compared with at most MaxRetries wrong guesses in a row, counted     *)
(* over all restarts.                                                      *)
NoFreeGuess == \A p \in Pins : tries[p] <= MaxRetries

(* DESIGN.md:1132: a token that carries no rpId is bound to the first      *)
(* relying party that uses it, and none is ever accepted for two.          *)
TokenForOneRp == token # None => Cardinality(issue.rps) <= 1

(* K23: once a PIN change or a reset was reported as done, no token issued *)
(* before it is valid.                                                     *)
NoTokenAfterChange == token # None => ~issue.outdated

(* DESIGN.md:1119, taken literally: a token is gone when the PIN changes,  *)
(* so a valid token was issued under the PIN in force.                     *)
TokenOfPresentPin == token # None => issue.pin = pin.hash
=============================================================================
