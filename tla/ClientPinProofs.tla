-------------------------- MODULE ClientPinProofs --------------------------
(***************************************************************************)
(* Proofs about the PIN, for any number of retries, PINs and relying       *)
(* parties, and any number of crashes and failed flushes.                  *)
(***************************************************************************)
EXTENDS ClientPin, FiniteSetTheorems, TLAPS

-----------------------------------------------------------------------------
(* The inductive invariant for the guesses: the wrong ones and the retries *)
(* left add up to at most MaxRetries, for the PIN in memory and for the    *)
(* one a restart would load; and before the comparison, when the two are   *)
(* the same, one less.                                                     *)
Within(s, n) == s.hash # None => tries[s.hash] + s.retries + n <= MaxRetries

GuessInv ==
  /\ Within(pin, 0) /\ Within(disk, 0)
  /\ op # Idle => pin.hash # None
  /\ op # Idle /\ op.at = "compare" => pin = disk /\ Within(pin, 1)
  /\ NoFreeGuess

(* The token: what it is bound to is what it was accepted for.             *)
BindInv ==
  token # None => \/ token.rp = None /\ issue.rps = {}
                  \/ token.rp \in Rps /\ issue.rps \subseteq {token.rp}

PinInv == TypeOK /\ GuessInv /\ BindInv

LEMMA NewPinOK ==
  ASSUME NEW p \in Pins
  PROVE  /\ NewPin(p) \in PinStates /\ NewPin(p).hash = p /\ NewPin(p).retries = MaxRetries
         /\ NewPin(p).hash # None
  BY ClientPinAssumption DEF NewPin, PinStates

LEMMA NoPinOK == NoPin \in PinStates /\ NoPin.hash = None
  BY ClientPinAssumption DEF NoPin, PinStates

LEMMA InitPin == Init => PinInv
<1> SUFFICES ASSUME Init PROVE PinInv
  OBVIOUS
<1>1. TypeOK
  BY NoPinOK DEF Init, TypeOK
<1>2. GuessInv
  BY NoPinOK, ClientPinAssumption DEF Init, GuessInv, Within, NoFreeGuess
<1> QED
  BY <1>1, <1>2 DEF PinInv, BindInv, Init

(* Requests under way are records of their own kind.                       *)
LEMMA OpKinds ==
  /\ Idle \notin Asking \cup Changing
  /\ \A r \in Asking \cup Changing : r.at \in {"compare", "finish"} /\ r.guess \in Pins \cup {None}
  /\ \A r \in Asking \cup Changing : [r EXCEPT !.at = "finish"] \in Asking \cup Changing
<1>1. \A r \in Asking : r.kind = "token" /\ [r EXCEPT !.at = "finish"] \in Asking
  BY DEF Asking
<1>2. \A r \in Changing : r.kind = "change" /\ [r EXCEPT !.at = "finish"] \in Changing
  BY DEF Changing
<1>3. Idle.kind = "idle"
  BY DEF Idle
<1>4. Idle \notin Asking \cup Changing
  BY <1>1, <1>2, <1>3
<1> QED
  BY <1>1, <1>2, <1>4 DEF Asking, Changing, Garbage

-----------------------------------------------------------------------------
(* A new PIN is installed in memory, and on disk too unless that fails.    *)
LEMMA InstallGuess ==
  ASSUME PinInv, NEW p \in Pins, pin' = NewPin(p), disk' \in {disk, NewPin(p)},
         tries' = [tries EXCEPT ![p] = 0], op' = Idle
  PROVE  /\ GuessInv' /\ pin' \in PinStates /\ disk' \in PinStates /\ tries' \in [Pins -> Nat]
<1>1. /\ tries \in [Pins -> Nat] /\ disk \in PinStates /\ MaxRetries \in Nat
      /\ \A q \in Pins : tries[q] <= MaxRetries
  BY ClientPinAssumption DEF PinInv, TypeOK, GuessInv, NoFreeGuess
<1>2. /\ tries' \in [Pins -> Nat]
      /\ \A q \in Pins : tries'[q] = IF q = p THEN 0 ELSE tries[q]
  BY <1>1
<1>3. pin' \in PinStates /\ disk' \in PinStates
  BY <1>1, NewPinOK
<1>4. Within(pin, 0)'
  BY <1>1, <1>2, NewPinOK DEF Within
<1>5. disk.hash \in Pins \cup {None} /\ disk.retries \in Nat /\ disk.retries <= MaxRetries
  BY <1>1 DEF PinStates
<1>6. Within(disk, 0)
  BY DEF PinInv, GuessInv
<1>7. Within(disk, 0)'
  <2>1. CASE disk' = NewPin(p)
    BY <2>1, <1>1, <1>2, NewPinOK DEF Within
  <2>2. CASE disk' = disk
    BY <2>2, <1>1, <1>2, <1>5, <1>6 DEF Within
  <2> QED
    BY <2>1, <2>2
<1>8. NoFreeGuess'
  BY <1>1, <1>2 DEF NoFreeGuess
<1> QED
  BY <1>2, <1>3, <1>4, <1>7, <1>8 DEF GuessInv

LEMMA SetPinStep ==
  ASSUME PinInv, NEW p \in Pins, SetPin(p) \/ SetPinLocal(p)
  PROVE  PinInv'
<1>1. /\ pin' = NewPin(p) /\ disk' \in {disk, NewPin(p)} /\ tries' = [tries EXCEPT ![p] = 0]
      /\ op' = Idle /\ op = Idle /\ up /\ up' = up /\ token' \in {token, None}
      /\ issue' \in {issue, [issue EXCEPT !.outdated = TRUE]}
  BY DEF SetPin, SetPinLocal, Persist, PersistFails, Ready, Reported
<1>2. /\ GuessInv' /\ pin' \in PinStates /\ disk' \in PinStates /\ tries' \in [Pins -> Nat]
  BY <1>1, InstallGuess
<1>3. /\ issue' \in [pin : Pins \cup {None}, outdated : BOOLEAN, rps : SUBSET Rps]
      /\ issue'.rps = issue.rps
  BY <1>1 DEF PinInv, TypeOK
<1>4. TypeOK'
  BY <1>1, <1>2, <1>3 DEF PinInv, TypeOK
<1>5. BindInv'
  BY <1>1, <1>3 DEF PinInv, BindInv
<1> QED
  BY <1>2, <1>4, <1>5 DEF PinInv

LEMMA CheckPinStep ==
  ASSUME PinInv, NEW r \in Asking \cup Changing, CheckPin(r)
  PROVE  PinInv'
<1>1. /\ pin \in PinStates /\ disk \in PinStates /\ tries \in [Pins -> Nat] /\ MaxRetries \in Nat
      /\ pin.hash # None /\ pin.retries > 0 /\ up /\ op = Idle
      /\ UNCHANGED <<up, token, tries, issue>>
  BY ClientPinAssumption DEF PinInv, TypeOK, CheckPin, Ready
<1> DEFINE d == Decremented
<1>2. /\ d \in PinStates /\ d.hash = pin.hash /\ d.retries = pin.retries - 1
      /\ pin.hash \in Pins /\ pin.retries \in Nat
  BY <1>1 DEF Decremented, PinStates
<1>3. tries[pin.hash] + pin.retries <= MaxRetries /\ tries[pin.hash] \in Nat
  BY <1>1, <1>2 DEF PinInv, GuessInv, Within
<1>4. pin' = d /\ ((disk' = d /\ op' = r) \/ (disk' = disk /\ op' = op))
  BY DEF CheckPin, Persist, PersistFails
<1> HIDE DEF d
<1>5. Within(pin, 1)'
  BY <1>1, <1>2, <1>3, <1>4 DEF Within
<1>6. Within(pin, 0)'
  BY <1>1, <1>2, <1>3, <1>4 DEF Within
<1>7. Within(disk, 0)'
  BY <1>1, <1>4, <1>6 DEF Within, PinInv, GuessInv
<1>8. GuessInv'
  BY <1>1, <1>2, <1>4, <1>5, <1>6, <1>7 DEF GuessInv, NoFreeGuess, PinInv
<1>9. TypeOK'
  BY <1>1, <1>2, <1>4 DEF PinInv, TypeOK
<1> QED
  BY <1>1, <1>8, <1>9 DEF PinInv, BindInv

LEMMA CompareStep ==
  ASSUME PinInv, CompareFails \/ CompareSucceeds
  PROVE  PinInv'
<1>1. /\ op # Idle /\ op.at = "compare" /\ pin.hash # None /\ pin = disk /\ Within(pin, 1)
      /\ op \in Asking \cup Changing
  BY DEF CompareFails, CompareSucceeds, PinInv, GuessInv, TypeOK
<1>2. /\ pin \in PinStates /\ tries \in [Pins -> Nat] /\ MaxRetries \in Nat
      /\ up \in BOOLEAN /\ (~up => op = Idle)
  BY ClientPinAssumption DEF PinInv, TypeOK
<1>3. pin.hash \in Pins /\ pin.retries \in Nat /\ pin.retries <= MaxRetries
  BY <1>1, <1>2 DEF PinStates
<1>4. tries[pin.hash] \in Nat /\ tries[pin.hash] + pin.retries + 1 <= MaxRetries
  BY <1>1, <1>2, <1>3 DEF Within
<1>5. CASE CompareFails
  <2>1. /\ tries' = [tries EXCEPT ![pin.hash] = @ + 1] /\ token' = None /\ op' = Idle
        /\ UNCHANGED <<up, pin, disk, issue>>
    BY <1>5 DEF CompareFails
  <2>2. tries' \in [Pins -> Nat] /\ tries'[pin.hash] = tries[pin.hash] + 1
    BY <1>2, <1>3, <1>4, <2>1
  <2>3. Within(pin, 0)' /\ Within(disk, 0)'
    BY <1>1, <1>2, <1>3, <1>4, <2>1, <2>2 DEF Within
  <2>4. NoFreeGuess'
    BY <1>2, <1>3, <1>4, <2>1, <2>2 DEF NoFreeGuess, PinInv, GuessInv
  <2>5. TypeOK'
    BY <2>1, <2>2 DEF PinInv, TypeOK
  <2> QED
    BY <2>1, <2>3, <2>4, <2>5 DEF PinInv, GuessInv, BindInv
<1>6. CASE CompareSucceeds
  <2> DEFINE n == NewPin(pin.hash)
  <2>1. /\ tries' = [tries EXCEPT ![pin.hash] = 0] /\ op' = [op EXCEPT !.at = "finish"]
        /\ pin' = n /\ disk' \in {disk, n} /\ UNCHANGED <<up, token, issue>>
    BY <1>6 DEF CompareSucceeds, Persist, PersistFails
  <2>2. n \in PinStates /\ n.hash = pin.hash /\ n.retries = MaxRetries
    BY <1>3, NewPinOK
  <2>3. /\ tries' \in [Pins -> Nat] /\ tries'[pin.hash] = 0
        /\ \A q \in Pins : tries'[q] <= MaxRetries
    BY <1>2, <1>3, <2>1 DEF PinInv, GuessInv, NoFreeGuess
  <2> HIDE DEF n
  <2>4. Within(pin, 0)' /\ Within(disk, 0)'
    BY <1>1, <1>2, <1>3, <2>1, <2>2, <2>3 DEF Within
  <2>5. op' \in Asking \cup Changing /\ op'.at = "finish"
    BY <1>1, <2>1, OpKinds DEF Asking, Changing
  <2>6. GuessInv'
    BY <1>1, <2>1, <2>2, <2>3, <2>4, <2>5 DEF GuessInv, NoFreeGuess
  <2>7. TypeOK'
    BY <1>1, <1>2, <2>1, <2>2, <2>3, <2>5 DEF PinInv, TypeOK
  <2> QED
    BY <2>1, <2>6, <2>7 DEF PinInv, BindInv
<1> QED
  BY <1>5, <1>6

LEMMA FinishTokenStep ==
  ASSUME PinInv, FinishToken
  PROVE  PinInv'
<1>1. /\ op.kind = "token" /\ op \in Asking \cup Changing \cup {Idle} /\ op' = Idle
      /\ UNCHANGED <<up, pin, disk, tries>>
      /\ \/ token' = op.token /\ issue' = [pin |-> pin.hash, outdated |-> FALSE, rps |-> {}]
         \/ token' \in {token, None} /\ issue' = issue
  BY DEF FinishToken, PinInv, TypeOK
<1>2. op \in Asking /\ op.token \in Tokens
  BY <1>1 DEF Asking, Changing, Idle
<1>3. op # Idle /\ up
  BY <1>2, OpKinds DEF PinInv, TypeOK
<1>4. op.token.rp \in Rps \cup {None} /\ op.token \in Tokens
  BY <1>2 DEF Tokens
<1>5. pin.hash \in Pins \cup {None}
  BY DEF PinInv, TypeOK, PinStates
<1>6. TypeOK'
  <2>1. [pin |-> pin.hash, outdated |-> FALSE, rps |-> {}]
          \in [pin : Pins \cup {None}, outdated : BOOLEAN, rps : SUBSET Rps]
    BY <1>5
  <2>2. issue' \in [pin : Pins \cup {None}, outdated : BOOLEAN, rps : SUBSET Rps]
    BY <1>1, <2>1 DEF PinInv, TypeOK
  <2>3. token' \in Tokens \cup {None}
    BY <1>1, <1>4 DEF PinInv, TypeOK
  <2> QED
    BY <1>1, <1>3, <2>2, <2>3 DEF PinInv, TypeOK
<1>7. BindInv'
  BY <1>1, <1>4 DEF PinInv, BindInv
<1>8. GuessInv'
  BY <1>1 DEF PinInv, GuessInv, Within, NoFreeGuess
<1> QED
  BY <1>6, <1>7, <1>8 DEF PinInv

LEMMA FinishChangeStep ==
  ASSUME PinInv, FinishChange
  PROVE  PinInv'
<1>1. op.kind = "change" /\ op \in Asking \cup Changing \cup {Idle} /\ op' = Idle /\ up' = up
  BY DEF FinishChange, PinInv, TypeOK
<1>2. op \in Changing /\ op.new \in Pins
  BY <1>1 DEF Asking, Changing, Idle
<1>3. op # Idle /\ up
  BY <1>2, OpKinds DEF PinInv, TypeOK
<1>4. CASE UNCHANGED <<pin, disk, issue, token, tries>>
  BY <1>1, <1>3, <1>4 DEF PinInv, TypeOK, GuessInv, BindInv, Within, NoFreeGuess
<1>5. CASE /\ pin' = NewPin(op.new) /\ disk' \in {disk, NewPin(op.new)}
           /\ tries' = [tries EXCEPT ![op.new] = 0] /\ token' \in {token, None}
           /\ issue' \in {issue, [issue EXCEPT !.outdated = TRUE]}
  <2>1. /\ GuessInv' /\ pin' \in PinStates /\ disk' \in PinStates /\ tries' \in [Pins -> Nat]
    BY <1>1, <1>2, <1>5, InstallGuess
  <2>2. /\ issue' \in [pin : Pins \cup {None}, outdated : BOOLEAN, rps : SUBSET Rps]
        /\ issue'.rps = issue.rps
    BY <1>5 DEF PinInv, TypeOK
  <2>3. TypeOK'
    BY <1>1, <1>3, <1>5, <2>1, <2>2 DEF PinInv, TypeOK
  <2>4. BindInv'
    BY <1>5, <2>2 DEF PinInv, BindInv
  <2> QED
    BY <2>1, <2>3, <2>4 DEF PinInv
<1> QED
  BY <1>4, <1>5 DEF FinishChange, Persist, PersistFails, Reported

LEMMA VerifyStep ==
  ASSUME PinInv, NEW perm \in Perms, NEW rp \in Rps, Verify(perm, rp)
  PROVE  PinInv'
<1>1. /\ token \in Tokens /\ token # None /\ token.rp \in {None, rp} /\ up /\ op = Idle
      /\ token' = [token EXCEPT !.rp = rp] /\ issue' = [issue EXCEPT !.rps = @ \cup {rp}]
      /\ UNCHANGED <<up, pin, disk, op, tries>>
  BY DEF Verify, Ready, PinInv, TypeOK
<1>2. token' \in Tokens /\ token'.rp = rp
  BY <1>1 DEF Tokens
<1>3. issue' \in [pin : Pins \cup {None}, outdated : BOOLEAN, rps : SUBSET Rps]
  BY <1>1 DEF PinInv, TypeOK
<1>4. issue'.rps = issue.rps \cup {rp}
  BY <1>1 DEF PinInv, TypeOK
<1>5. issue.rps \subseteq {rp}
  BY <1>1, ClientPinAssumption DEF PinInv, BindInv
<1>6. TypeOK'
  BY <1>1, <1>2, <1>3 DEF PinInv, TypeOK
<1>7. BindInv'
  BY <1>2, <1>4, <1>5 DEF BindInv
<1>8. GuessInv'
  BY <1>1 DEF PinInv, GuessInv, Within, NoFreeGuess
<1> QED
  BY <1>6, <1>7, <1>8 DEF PinInv

(* Start, crash, reset, expiry and the flushes of others.                  *)
LEMMA OtherStep ==
  ASSUME PinInv, Start \/ Crash \/ StoreFlushed \/ Reset \/ VerifyExpired
  PROVE  PinInv'
<1>1. /\ op' = Idle /\ tries' = tries /\ token' \in {token, None} /\ up' \in BOOLEAN
      /\ up' = FALSE => token' = None
  BY DEF Start, Crash, StoreFlushed, Reset, VerifyExpired, Ready, PinInv, TypeOK
<1>2. pin' \in {pin, disk, NoPin} /\ disk' \in {pin, disk, NoPin}
  BY DEF Start, Crash, StoreFlushed, Reset, VerifyExpired
<1>3. issue' \in {issue, [issue EXCEPT !.outdated = TRUE]}
  BY DEF Start, Crash, StoreFlushed, Reset, VerifyExpired, Reported
<1>4. /\ issue' \in [pin : Pins \cup {None}, outdated : BOOLEAN, rps : SUBSET Rps]
      /\ issue'.rps = issue.rps
  BY <1>3 DEF PinInv, TypeOK
<1>5. TypeOK'
  BY <1>1, <1>2, <1>4, NoPinOK DEF PinInv, TypeOK
<1>6. GuessInv'
  BY <1>1, <1>2, NoPinOK DEF PinInv, GuessInv, Within, NoFreeGuess
<1>7. BindInv'
  BY <1>1, <1>4 DEF PinInv, BindInv
<1> QED
  BY <1>5, <1>6, <1>7 DEF PinInv

(* The inductive invariant, whatever fails.                                *)
THEOREM ClientPinInvariant == Spec => []PinInv
<1>1. PinInv /\ [Next]_vars => PinInv'
  <2> SUFFICES ASSUME PinInv, [Next]_vars PROVE PinInv'
    OBVIOUS
  <2>1. CASE UNCHANGED vars
    BY <2>1 DEF vars, PinInv, TypeOK, GuessInv, BindInv, Within, NoFreeGuess
  <2>2. ASSUME NEW g \in Pins \cup {Garbage}, NEW t \in Tokens, GetToken(g, t) PROVE PinInv'
    <3>1. [kind |-> "token", at |-> "compare", guess |-> g, token |-> t] \in Asking
      BY DEF Asking
    <3> QED
      BY <2>2, <3>1, CheckPinStep DEF GetToken
  <2>3. ASSUME NEW g \in Pins, NEW p \in Pins, ChangePin(g, p) PROVE PinInv'
    <3>1. [kind |-> "change", at |-> "compare", guess |-> g, new |-> p] \in Changing
      BY DEF Changing
    <3> QED
      BY <2>3, <3>1, CheckPinStep DEF ChangePin
  <2> QED
    BY <2>1, <2>2, <2>3, SetPinStep, CompareStep, FinishTokenStep, FinishChangeStep, VerifyStep,
       OtherStep DEF Next
<1> QED
  BY <1>1, InitPin, PTL DEF Spec

(* Type correctness of PinManager, whatever fails.                         *)
THEOREM ClientPinTypeOK == Spec => []TypeOK
<1>1. PinInv => TypeOK
  BY DEF PinInv
<1> QED
  BY <1>1, ClientPinInvariant, PTL

(* client_pin.cpp:260: no crash and no failed flush yields a free guess,   *)
(* for every number of retries.                                            *)
THEOREM ClientPinNoFreeGuess == Spec => []NoFreeGuess
<1>1. PinInv => NoFreeGuess
  BY DEF PinInv, GuessInv
<1> QED
  BY <1>1, ClientPinInvariant, PTL

(* DESIGN.md:1132: a token is accepted for one relying party only.         *)
THEOREM ClientPinTokenForOneRp == Spec => []TokenForOneRp
<1>1. PinInv => TokenForOneRp
  <2> SUFFICES ASSUME PinInv, token # None PROVE Cardinality(issue.rps) <= 1
    BY DEF TokenForOneRp
  <2>1. Cardinality({}) = 0 /\ IsFiniteSet({})
    BY FS_EmptySet
  <2>2. Cardinality({token.rp}) = 1 /\ IsFiniteSet({token.rp})
    BY FS_Singleton
  <2>3. issue.rps = {} \/ issue.rps = {token.rp}
    BY DEF PinInv, BindInv
  <2> QED
    BY <2>1, <2>2, <2>3
<1> QED
  BY <1>1, ClientPinInvariant, PTL

-----------------------------------------------------------------------------
(* The token and PIN changes.  Unless a reset fails, there is no token     *)
(* without a PIN, so setPIN has none to drop.                              *)
FreshInv == NoTokenAfterChange /\ (up /\ pin.hash = None => token = None)

(* K23: if no reset fails, a token issued before a PIN change or a reset   *)
(* that was reported as done is not valid any more.                        *)
THEOREM ClientPinTokenFresh ==
  ASSUME "reset" \notin Faults
  PROVE  Spec => []NoTokenAfterChange
<1>1. Init => FreshInv
  BY DEF Init, FreshInv, NoTokenAfterChange
<1>2. PinInv /\ PinInv' /\ FreshInv /\ [Next]_vars => FreshInv'
  <2> SUFFICES ASSUME PinInv, PinInv', FreshInv, [Next]_vars PROVE FreshInv'
    OBVIOUS
  <2>0. issue \in [pin : Pins \cup {None}, outdated : BOOLEAN, rps : SUBSET Rps]
    BY DEF PinInv, TypeOK
  <2>1. CASE UNCHANGED vars
    BY <2>1 DEF vars, FreshInv, NoTokenAfterChange
  <2>2. CASE Start \/ Crash \/ StoreFlushed \/ VerifyExpired
    BY <2>2 DEF Start, Crash, StoreFlushed, VerifyExpired, FreshInv, NoTokenAfterChange, PinInv, TypeOK
  <2>3. CASE Reset
    BY <2>3 DEF Reset, FreshInv, NoTokenAfterChange
  <2>4. ASSUME NEW p \in Pins, SetPin(p) PROVE FreshInv'
    <3>1. token = None /\ token' = None
      BY <2>4 DEF SetPin, FreshInv, Ready
    <3> QED
      BY <3>1 DEF FreshInv, NoTokenAfterChange
  <2>5. ASSUME NEW p \in Pins, SetPinLocal(p) PROVE FreshInv'
    <3>1. pin' = NewPin(p) /\ (token' = None \/ UNCHANGED <<issue, token>>)
      BY <2>5 DEF SetPinLocal, Persist, PersistFails
    <3> QED
      BY <3>1, NewPinOK DEF FreshInv, NoTokenAfterChange
  <2>6. ASSUME NEW r, CheckPin(r) PROVE FreshInv'
    <3>1. pin' = Decremented /\ pin.hash # None /\ UNCHANGED <<up, token, issue>>
      BY <2>6 DEF CheckPin, Persist, PersistFails
    <3>2. pin'.hash = pin.hash
      BY <3>1 DEF Decremented, PinInv, TypeOK, PinStates
    <3> QED
      BY <3>1, <3>2 DEF FreshInv, NoTokenAfterChange
  <2>7. CASE CompareFails
    BY <2>7 DEF CompareFails, FreshInv, NoTokenAfterChange
  <2>8. CASE CompareSucceeds
    <3>1. pin.hash \in Pins /\ pin' = NewPin(pin.hash) /\ UNCHANGED <<up, token, issue>>
      BY <2>8 DEF CompareSucceeds, Persist, PersistFails, PinInv, TypeOK, PinStates, GuessInv
    <3> QED
      BY <3>1, NewPinOK DEF FreshInv, NoTokenAfterChange
  <2>9. CASE FinishToken
    <3>1. /\ pin' = pin
          /\ \/ issue'.outdated = FALSE
             \/ token' \in {token, None} /\ issue' = issue
      BY <2>9 DEF FinishToken
    <3>2. pin.hash # None
      BY <2>9, OpKinds DEF FinishToken, PinInv, GuessInv, TypeOK, Idle
    <3> QED
      BY <3>1, <3>2 DEF FreshInv, NoTokenAfterChange
  <2>10. CASE FinishChange
    <3>1. \/ token' = None
          \/ pin' = NewPin(op.new) /\ UNCHANGED <<issue, token>>
          \/ UNCHANGED <<pin, issue, token>>
      BY <2>10 DEF FinishChange, PersistFails
    <3>2. op.new \in Pins /\ pin.hash # None
      BY <2>10, OpKinds DEF FinishChange, PinInv, GuessInv, TypeOK, Idle, Asking, Changing
    <3> QED
      BY <3>1, <3>2, NewPinOK DEF FreshInv, NoTokenAfterChange
  <2>11. ASSUME NEW perm \in Perms, NEW rp \in Rps, Verify(perm, rp) PROVE FreshInv'
    <3>1. /\ token # None /\ up /\ pin' = pin
          /\ issue' = [issue EXCEPT !.rps = @ \cup {rp}]
      BY <2>11 DEF Verify, Ready
    <3>2. issue'.outdated = issue.outdated
      BY <2>0, <3>1
    <3> QED
      BY <3>1, <3>2 DEF FreshInv, NoTokenAfterChange
  <2> QED
    BY <2>1, <2>2, <2>3, <2>4, <2>5, <2>6, <2>7, <2>8, <2>9, <2>10, <2>11
       DEF Next, GetToken, ChangePin
<1>3. FreshInv => NoTokenAfterChange
  BY DEF FreshInv
<1> QED
  BY <1>1, <1>2, <1>3, ClientPinInvariant, PTL DEF Spec
=============================================================================
