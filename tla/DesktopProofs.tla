--------------------------- MODULE DesktopProofs ---------------------------
(***************************************************************************)
(* Proofs about user presence, for any number of questions and clients.    *)
(***************************************************************************)
EXTENDS Desktop, FiniteSetTheorems, SequenceTheorems, TLAPS

(* A question is asked under op_mu_.                                       *)
Held == wpc # "idle" => holder # "none"

(* Only the prompt that was chosen has callbacks.                          *)
OtherPrompts ==
  /\ prompt # "notify" => idles = <<>> /\ lpc = "free" /\ screen = {}
  /\ prompt # "alert" => blocks = <<>> /\ modals = <<>>
  /\ prompt = "stdin" => wpc # "teardown"

(* show_cb and close_cb take turns, also when several questions' callbacks *)
(* wait for a slow server: after a show comes a close.                     *)
Turns ==
  /\ \A i \in 1 .. Len(idles) - 1 : idles[i] # idles[i + 1]
  /\ idles # <<>> => (idles[Len(idles)] = "show" <=> wpc = "wait")
  /\ screen # {} \/ lpc = "show" =>
       IF idles = <<>> THEN wpc = "wait" ELSE Head(idles) = "close"

(* notif_ owns the notification there is.                                  *)
Owned ==
  /\ \A n \in screen : n.id = notif
  /\ \A n, m \in screen : n = m
  /\ lpc = "show" => screen = {}

(* Texts are the numbers of questions that were asked.                     *)
Asked ==
  /\ wpc = "wait" \/ idles # <<>> => req # 0
  /\ \A n \in screen : n.text # 0
  /\ lpc = "show" => body # 0
  /\ \A i \in 1 .. Len(blocks) : blocks[i].gen # 0
  /\ \A i \in 1 .. Len(modals) : modals[i].gen # 0
  /\ tty # NoLine => tty.text # 0

(* The prompts there are, or about to be, are those of this question.      *)
OwnTexts ==
  /\ \A n \in screen : n.text = req
  /\ lpc = "show" => body = req
  /\ \A i \in 1 .. Len(modals) : modals[i].gen = req

(* An answer that allows was given to a text: that of this question, or    *)
(* the question is excused.  A question that is over keeps its answer.     *)
Answered ==
  /\ wpc = "wait" /\ decided /\ decision = "allow" => by # 0 /\ (by = req \/ excused)
  /\ wpc # "wait" => decided \/ result = "none"
  /\ wpc = "wait" /\ ~excused => OwnTexts
  /\ wpc = "wait" /\ ~excused /\ tty # NoLine => tty.text = req

(* Unless the question began with something left of an earlier prompt, or  *)
(* was given up, the callbacks of the notification are its own.            *)
NotifyPrompt ==
  prompt = "notify" /\ ~late =>
    /\ \A n \in screen : n.text = req
    /\ lpc = "show" => body = req
    /\ wpc = "idle" \/ withdrawn => idles = <<>> /\ screen = {} /\ lpc \in {"free", "over"}
    /\ wpc = "wait" => lpc # "close" /\ Len(idles) <= 1 /\ ~withdrawn
    /\ wpc = "teardown" => /\ Len(idles) <= 2
                           /\ lpc = "close" => idles = <<>> /\ screen = {}

(* And of the panel: one alert block waits, or runs, or is through.        *)
AlertPrompt ==
  prompt = "alert" /\ ~late =>
    /\ \A i, j \in 1 .. Len(blocks) :
         blocks[i].kind = "alert" /\ blocks[j].kind = "alert" => i = j
    /\ \A i \in 1 .. Len(blocks) :
         blocks[i].kind = "alert" => blocks[i].gen = req /\ modals = <<>> /\ ~withdrawn
    /\ Len(modals) <= 1
    /\ modals # <<>> => modals[1].gen = req /\ ~withdrawn
    /\ wpc = "idle" => withdrawn

(* The inductive invariant; what the control server does is no part of it. *)
PromptInv ==
  /\ GateTypeOK /\ NotifyTypeOK /\ AlertTypeOK
  /\ Held /\ OtherPrompts /\ Turns /\ Owned /\ Asked /\ Answered
  /\ NotifyPrompt /\ AlertPrompt /\ AllowAnswersOwnPrompt

(* A connection that is served is the first of the backlog, and only the   *)
(* control thread's own question is asked in its name.                     *)
Served ==
  /\ cpc \in {"read", "delete", "ask"} => backlog # <<>>
  /\ holder = "ctl" => cpc = "ask"

CtlInv == CtlTypeOK /\ Served

-----------------------------------------------------------------------------
(* Sequences.                                                              *)

LEMMA AppendFacts ==
  ASSUME NEW S, NEW s \in Seq(S), NEW e \in S
  PROVE  /\ Append(s, e) \in Seq(S) /\ Append(s, e) # <<>>
         /\ Len(Append(s, e)) = Len(s) + 1
         /\ \A i \in 1 .. Len(s) : Append(s, e)[i] = s[i]
         /\ Append(s, e)[Len(s) + 1] = e
         /\ Head(Append(s, e)) = IF s = <<>> THEN e ELSE Head(s)
<1>1. Len(s) \in Nat /\ (s = <<>> <=> Len(s) = 0)
  OBVIOUS
<1>2. CASE s = <<>>
  BY <1>1, <1>2
<1>3. CASE s # <<>>
  BY <1>1, <1>3
<1> QED
  BY <1>2, <1>3

LEMMA TailFacts ==
  ASSUME NEW S, NEW s \in Seq(S), s # <<>>
  PROVE  /\ Tail(s) \in Seq(S) /\ Head(s) \in S /\ Head(s) = s[1]
         /\ Len(s) \in Nat \ {0}
         /\ Len(Tail(s)) = Len(s) - 1
         /\ \A i \in 1 .. Len(s) - 1 : Tail(s)[i] = s[i + 1]
         /\ Tail(s) = <<>> <=> Len(s) = 1
         /\ Tail(s) # <<>> => Head(Tail(s)) = s[2]
<1>1. Len(s) \in Nat \ {0} /\ Head(s) = s[1] /\ Head(s) \in S
  OBVIOUS
<1>2. Tail(s) \in Seq(S) /\ Len(Tail(s)) = Len(s) - 1
  BY <1>1
<1>3. \A i \in 1 .. Len(s) - 1 : Tail(s)[i] = s[i + 1]
  BY <1>1
<1>4. Tail(s) = <<>> <=> Len(Tail(s)) = 0
  BY <1>2, EmptySeq
<1>5. Tail(s) # <<>> => Head(Tail(s)) = s[2]
  <2> SUFFICES ASSUME Tail(s) # <<>> PROVE Head(Tail(s)) = s[2]
    OBVIOUS
  <2>1. Head(Tail(s)) = Tail(s)[1]
    BY <1>2
  <2>2. 1 \in 1 .. Len(s) - 1
    BY <1>1, <1>2, <1>4
  <2> QED
    BY <2>1, <2>2, <1>3
<1> QED
  BY <1>1, <1>2, <1>3, <1>4, <1>5

(* The innermost panel, and the ones around it.                            *)
LEMMA PanelFacts ==
  ASSUME AlertTypeOK, modals # <<>>
  PROVE  /\ Len(modals) \in Nat \ {0} /\ Top \in Modals /\ Top = modals[Len(modals)]
         /\ Outer \in Seq(Modals) /\ Len(Outer) = Len(modals) - 1
         /\ \A i \in 1 .. Len(Outer) : Outer[i] = modals[i]
<1>1. modals \in Seq(Modals) /\ Len(modals) \in Nat \ {0}
  BY DEF AlertTypeOK
<1>2. \A i \in 1 .. Len(modals) - 1 : modals[i] \in Modals
  BY <1>1
<1>3. /\ Outer \in Seq(Modals)
      /\ Len(Outer) = IF 1 <= Len(modals) - 1 THEN Len(modals) - 1 - 1 + 1 ELSE 0
      /\ \A i \in 1 .. Len(modals) - 1 - 1 + 1 : Outer[i] = modals[1 + i - 1]
  BY <1>1, <1>2, SubSeqProperties DEF Outer
<1>4. Len(Outer) = Len(modals) - 1 /\ \A i \in 1 .. Len(Outer) : Outer[i] = modals[i]
  <2> DEFINE n == Len(modals) o == Outer
  <2>1. n \in Nat \ {0} /\ Len(o) = IF 1 <= n - 1 THEN n - 1 - 1 + 1 ELSE 0
    BY <1>1, <1>3
  <2>2. Len(o) = n - 1
    <3> HIDE DEF n, o
    <3> QED
      BY <2>1
  <2>3. ASSUME NEW i \in 1 .. Len(o) PROVE o[i] = modals[i]
    <3>1. i \in 1 .. n - 1 - 1 + 1 /\ 1 + i - 1 = i
      <4> HIDE DEF n, o
      <4> QED
        BY <2>1, <2>2
    <3> QED
      BY <3>1, <1>3
  <2> QED
    BY <2>2, <2>3
<1>5. Top \in Modals
  BY <1>1 DEF Top
<1> QED
  BY <1>1, <1>3, <1>4, <1>5 DEF Top

(* Ending a panel leaves the others, and what it was made for.             *)
LEMMA EndModalFacts ==
  ASSUME AlertTypeOK, InModal, NEW resp \in {"ok", "other"}, EndModal(resp)
  PROVE  /\ modals' \in Seq(Modals) /\ Len(modals') = Len(modals) /\ modals' # <<>>
         /\ \A i \in 1 .. Len(modals) : modals'[i].gen = modals[i].gen
<1>1. modals # <<>>
  BY DEF InModal
<1>2. /\ Len(modals) \in Nat \ {0} /\ Top \in Modals /\ Top = modals[Len(modals)]
      /\ Outer \in Seq(Modals) /\ Len(Outer) = Len(modals) - 1
      /\ \A i \in 1 .. Len(Outer) : Outer[i] = modals[i]
  BY <1>1, PanelFacts
<1> DEFINE t == [Top EXCEPT !.resp = resp]
<1>3. t \in Modals /\ t.gen = Top.gen
  BY <1>2 DEF Modals
<1>4. modals' = Append(Outer, t)
  BY DEF EndModal
<1> HIDE DEF t
<1>5. /\ modals' \in Seq(Modals) /\ Len(modals') = Len(Outer) + 1 /\ modals' # <<>>
      /\ \A i \in 1 .. Len(Outer) : modals'[i] = Outer[i]
      /\ modals'[Len(Outer) + 1] = t
  BY <1>2, <1>3, <1>4, AppendFacts
<1> QED
  BY <1>2, <1>3, <1>5

-----------------------------------------------------------------------------
(* One lemma per action.                                                   *)

LEMMA TypeKeeps ==
  ASSUME PromptInv, NEW allow \in BOOLEAN, Type(allow), UNCHANGED <<notify, alert>>
  PROVE  PromptInv'
<1> USE DEF gate, worker, answer, notify, alert
<1>0. /\ GateTypeOK /\ NotifyTypeOK /\ AlertTypeOK
      /\ Held /\ OtherPrompts /\ Turns /\ Owned /\ Asked /\ Answered
      /\ NotifyPrompt /\ AlertPrompt /\ AllowAnswersOwnPrompt
  BY DEF PromptInv
<1>1. NotifyTypeOK' /\ AlertTypeOK' /\ Held' /\ OtherPrompts' /\ Turns' /\ Owned'
      /\ NotifyPrompt' /\ AlertPrompt' /\ AllowAnswersOwnPrompt'
  BY <1>0 DEF Type, NotifyTypeOK, AlertTypeOK, Held, OtherPrompts, Turns,
      Owned, NotifyPrompt, AlertPrompt, AllowAnswersOwnPrompt
<1>2. GateTypeOK'
  BY <1>0 DEF Type, GateTypeOK, NotifyTypeOK, AlertTypeOK, Lines, NoLine,
      Decisions
<1>3. Asked'
  BY <1>0 DEF Type, Asked, GateTypeOK, NotifyTypeOK, AlertTypeOK, NoLine,
      OtherPrompts
<1>4. Answered'
  BY <1>0 DEF Type, Answered, OwnTexts, Asked, GateTypeOK, NotifyPrompt, AlertPrompt,
      Held, AllowAnswersOwnPrompt, NoLine
<1> QED
  BY <1>1, <1>2, <1>3, <1>4 DEF PromptInv

LEMMA StdinAskKeeps ==
  ASSUME PromptInv, NEW c \in Callers, StdinAsk(c), UNCHANGED <<notify, alert>>
  PROVE  PromptInv'
<1> USE DEF gate, worker, answer, notify, alert
<1>0. /\ GateTypeOK /\ NotifyTypeOK /\ AlertTypeOK
      /\ Held /\ OtherPrompts /\ Turns /\ Owned /\ Asked /\ Answered
      /\ NotifyPrompt /\ AlertPrompt /\ AllowAnswersOwnPrompt
  BY DEF PromptInv
<1>1. NotifyTypeOK' /\ AlertTypeOK' /\ Owned'
  BY <1>0 DEF StdinAsk, Ask, NewQuestion, NotifyTypeOK, AlertTypeOK, Owned
<1>2. GateTypeOK'
  <2>1. req' \in Nat /\ by' \in Nat
    BY <1>0 DEF StdinAsk, Ask, NewQuestion, GateTypeOK
  <2>2. wpc' \in {"idle", "wait", "teardown"} /\ holder' \in Callers \cup {"none"}
    BY DEF StdinAsk, Ask, NewQuestion
  <2>3. decision' \in Decisions /\ cancelled' \in BOOLEAN
        /\ decided' \in BOOLEAN /\ withdrawn' \in BOOLEAN
    BY DEF StdinAsk, Ask, NewQuestion, Decisions
  <2>4. UNCHANGED <<prompt, result, tty, ending>>
    BY DEF StdinAsk, Ask, NewQuestion
  <2>5. excused' \in BOOLEAN /\ late' \in BOOLEAN
    BY Zenon DEF StdinAsk, Ask, NewQuestion
  <2> QED
    BY <1>0, <2>1, <2>2, <2>3, <2>4, <2>5 DEF GateTypeOK
<1>3. Held'
  BY <1>0 DEF StdinAsk, Ask, NewQuestion, Callers, Held
<1>4. OtherPrompts'
  BY <1>0 DEF StdinAsk, Ask, NewQuestion, Callers, OtherPrompts
<1>5. Turns'
  BY <1>0 DEF StdinAsk, Ask, NewQuestion, Callers, Turns, NotifyTypeOK, Held, OtherPrompts,
      Owned
<1>6. Asked'
  BY <1>0 DEF StdinAsk, Ask, NewQuestion, Callers, Asked, GateTypeOK, NotifyTypeOK,
      AlertTypeOK, NoLine, OtherPrompts
<1>7. Answered'
  <2>1. ~excused' => screen = {} /\ lpc # "show" /\ modals = <<>>
    BY <1>0 DEF StdinAsk, Ask, NewQuestion, OtherPrompts
  <2>2. ~excused' => OwnTexts'
    BY <2>1 DEF StdinAsk, OwnTexts
  <2>3. wpc' = "wait" /\ ~decided' /\ (~excused' => tty' = NoLine)
    BY DEF StdinAsk, Ask, NewQuestion
  <2> QED
    BY <2>2, <2>3 DEF Answered
<1>8. NotifyPrompt'
  BY <1>0 DEF StdinAsk, Ask, NewQuestion, Callers, NotifyPrompt, Turns, Owned, Held,
      OtherPrompts, NotifyTypeOK, GateTypeOK
<1>9. AlertPrompt'
  BY <1>0 DEF StdinAsk, Ask, NewQuestion, Callers, AlertPrompt, Held, AlertTypeOK,
      GateTypeOK, OtherPrompts
<1>10. AllowAnswersOwnPrompt'
  BY <1>0 DEF StdinAsk, Ask, NewQuestion, Callers, AllowAnswersOwnPrompt, Answered, OwnTexts, Asked,
      Held, NoLine
<1> QED
  BY <1>1, <1>2, <1>3, <1>4, <1>5, <1>6, <1>7, <1>8, <1>9, <1>10 DEF PromptInv

LEMMA StdinReadKeeps ==
  ASSUME PromptInv, StdinRead, UNCHANGED <<notify, alert>>
  PROVE  PromptInv'
<1> USE DEF gate, worker, answer, notify, alert
<1>0. /\ GateTypeOK /\ NotifyTypeOK /\ AlertTypeOK
      /\ Held /\ OtherPrompts /\ Turns /\ Owned /\ Asked /\ Answered
      /\ NotifyPrompt /\ AlertPrompt /\ AllowAnswersOwnPrompt
  BY DEF PromptInv
<1>1. NotifyTypeOK' /\ AlertTypeOK' /\ Owned'
  BY <1>0 DEF StdinRead, NotifyTypeOK, AlertTypeOK, Owned
<1>2. GateTypeOK'
  BY <1>0 DEF StdinRead, GateTypeOK, NotifyTypeOK, AlertTypeOK, Lines, NoLine,
      Decisions
<1>3. Held'
  BY <1>0 DEF StdinRead, Held
<1>4. OtherPrompts'
  BY <1>0 DEF StdinRead, OtherPrompts
<1>5. Turns'
  BY <1>0 DEF StdinRead, Turns, NotifyTypeOK, Held, OtherPrompts, Owned
<1>6. Asked'
  BY <1>0 DEF StdinRead, Asked, GateTypeOK, NotifyTypeOK, AlertTypeOK, NoLine,
      OtherPrompts
<1>7. Answered'
  BY <1>0 DEF StdinRead, Answered, OwnTexts, Asked, GateTypeOK, NotifyPrompt,
      AlertPrompt, Held, AllowAnswersOwnPrompt, NoLine
<1>8. NotifyPrompt'
  BY <1>0 DEF StdinRead, NotifyPrompt, Turns, Owned, Held, OtherPrompts,
      NotifyTypeOK, GateTypeOK
<1>9. AlertPrompt'
  BY <1>0 DEF StdinRead, AlertPrompt, Held, AlertTypeOK, GateTypeOK,
      OtherPrompts
<1>10. AllowAnswersOwnPrompt'
  BY <1>0 DEF StdinRead, AllowAnswersOwnPrompt, Answered, OwnTexts, Asked, Held, NoLine
<1> QED
  BY <1>1, <1>2, <1>3, <1>4, <1>5, <1>6, <1>7, <1>8, <1>9, <1>10 DEF PromptInv

LEMMA StdinLeaveKeeps ==
  ASSUME PromptInv, StdinLeave, UNCHANGED <<notify, alert>>
  PROVE  PromptInv'
<1> USE DEF gate, worker, answer, notify, alert
<1>0. /\ GateTypeOK /\ NotifyTypeOK /\ AlertTypeOK
      /\ Held /\ OtherPrompts /\ Turns /\ Owned /\ Asked /\ Answered
      /\ NotifyPrompt /\ AlertPrompt /\ AllowAnswersOwnPrompt
  BY DEF PromptInv
<1>1. NotifyTypeOK' /\ AlertTypeOK' /\ Owned'
  BY <1>0 DEF StdinLeave, NotifyTypeOK, AlertTypeOK, Owned
<1>2. GateTypeOK'
  BY <1>0 DEF StdinLeave, GateTypeOK, NotifyTypeOK,
      AlertTypeOK, Lines, NoLine, Decisions
<1>3. Held'
  BY <1>0 DEF StdinLeave, Held
<1>4. OtherPrompts'
  BY <1>0 DEF StdinLeave, OtherPrompts
<1>5. Turns'
  BY <1>0 DEF StdinLeave, Turns, NotifyTypeOK, Held,
      OtherPrompts, Owned
<1>6. Asked'
  BY <1>0 DEF StdinLeave, Asked, GateTypeOK, NotifyTypeOK,
      AlertTypeOK, NoLine, OtherPrompts
<1>7. Answered'
  BY <1>0 DEF StdinLeave, Answered, OwnTexts, Asked, GateTypeOK,
      NotifyPrompt, AlertPrompt, Held, AllowAnswersOwnPrompt, NoLine
<1>8. NotifyPrompt'
  BY <1>0 DEF StdinLeave, NotifyPrompt, Turns, Owned, Held,
      OtherPrompts, NotifyTypeOK, GateTypeOK
<1>9. AlertPrompt'
  BY <1>0 DEF StdinLeave, AlertPrompt, Held, AlertTypeOK,
      GateTypeOK, OtherPrompts
<1>10. AllowAnswersOwnPrompt'
  BY <1>0 DEF StdinLeave, AllowAnswersOwnPrompt, Answered,
      Asked, Held, NoLine
<1> QED
  BY <1>1, <1>2, <1>3, <1>4, <1>5, <1>6, <1>7, <1>8, <1>9, <1>10 DEF PromptInv

LEMMA WithdrawnKeeps ==
  ASSUME PromptInv, Withdrawn, UNCHANGED <<notify, alert>>
  PROVE  PromptInv'
<1> USE DEF gate, worker, answer, notify, alert
<1>0. /\ GateTypeOK /\ NotifyTypeOK /\ AlertTypeOK
      /\ Held /\ OtherPrompts /\ Turns /\ Owned /\ Asked /\ Answered
      /\ NotifyPrompt /\ AlertPrompt /\ AllowAnswersOwnPrompt
  BY DEF PromptInv
<1>1. NotifyTypeOK' /\ AlertTypeOK' /\ Owned'
  BY <1>0 DEF Withdrawn, NotifyTypeOK, AlertTypeOK, Owned
<1>2. GateTypeOK'
  BY <1>0 DEF Withdrawn, GateTypeOK, NotifyTypeOK, AlertTypeOK, Lines, NoLine,
      Decisions
<1>3. Held'
  BY <1>0 DEF Withdrawn, Held
<1>4. OtherPrompts'
  BY <1>0 DEF Withdrawn, OtherPrompts
<1>5. Turns'
  BY <1>0 DEF Withdrawn, Turns, NotifyTypeOK, Held, OtherPrompts, Owned
<1>6. Asked'
  BY <1>0 DEF Withdrawn, Asked, GateTypeOK, NotifyTypeOK, AlertTypeOK, NoLine,
      OtherPrompts
<1>7. Answered'
  BY <1>0 DEF Withdrawn, Answered, OwnTexts, Asked, GateTypeOK, NotifyPrompt,
      AlertPrompt, Held, AllowAnswersOwnPrompt, NoLine
<1>8. NotifyPrompt'
  BY <1>0 DEF Withdrawn, NotifyPrompt, Turns, Owned, Held, OtherPrompts,
      NotifyTypeOK, GateTypeOK
<1>9. AlertPrompt'
  BY <1>0 DEF Withdrawn, AlertPrompt, Held, AlertTypeOK, GateTypeOK,
      OtherPrompts
<1>10. AllowAnswersOwnPrompt'
  BY <1>0 DEF Withdrawn, AllowAnswersOwnPrompt, Answered, OwnTexts, Asked, Held, NoLine
<1> QED
  BY <1>1, <1>2, <1>3, <1>4, <1>5, <1>6, <1>7, <1>8, <1>9, <1>10 DEF PromptInv

LEMMA GiveUpKeeps ==
  ASSUME PromptInv, GiveUp, UNCHANGED <<notify, alert>>
  PROVE  PromptInv'
<1> USE DEF gate, worker, answer, notify, alert
<1>0. /\ GateTypeOK /\ NotifyTypeOK /\ AlertTypeOK
      /\ Held /\ OtherPrompts /\ Turns /\ Owned /\ Asked /\ Answered
      /\ NotifyPrompt /\ AlertPrompt /\ AllowAnswersOwnPrompt
  BY DEF PromptInv
<1>1. NotifyTypeOK' /\ AlertTypeOK' /\ Owned'
  BY <1>0 DEF GiveUp, NotifyTypeOK, AlertTypeOK, Owned
<1>2. GateTypeOK'
  BY <1>0 DEF GiveUp, GateTypeOK, NotifyTypeOK, AlertTypeOK, Lines, NoLine,
      Decisions
<1>3. Held'
  BY <1>0 DEF GiveUp, Held
<1>4. OtherPrompts'
  BY <1>0 DEF GiveUp, OtherPrompts
<1>5. Turns'
  BY <1>0 DEF GiveUp, Turns, NotifyTypeOK, Held, OtherPrompts, Owned
<1>6. Asked'
  BY <1>0 DEF GiveUp, Asked, GateTypeOK, NotifyTypeOK, AlertTypeOK, NoLine,
      OtherPrompts
<1>7. Answered'
  BY <1>0 DEF GiveUp, Answered, OwnTexts, Asked, GateTypeOK, NotifyPrompt, AlertPrompt,
      Held, AllowAnswersOwnPrompt, NoLine
<1>8. NotifyPrompt'
  BY <1>0 DEF GiveUp, NotifyPrompt, Turns, Owned, Held, OtherPrompts,
      NotifyTypeOK, GateTypeOK
<1>9. AlertPrompt'
  BY <1>0 DEF GiveUp, AlertPrompt, Held, AlertTypeOK, GateTypeOK, OtherPrompts
<1>10. AllowAnswersOwnPrompt'
  BY <1>0 DEF GiveUp, AllowAnswersOwnPrompt, Answered, OwnTexts, Asked, Held, NoLine
<1> QED
  BY <1>1, <1>2, <1>3, <1>4, <1>5, <1>6, <1>7, <1>8, <1>9, <1>10 DEF PromptInv

LEMMA NotifyAskKeeps ==
  ASSUME PromptInv, NEW c \in Callers, NotifyAsk(c), UNCHANGED alert
  PROVE  PromptInv'
<1> USE DEF gate, worker, answer, notify, alert
<1>0. /\ GateTypeOK /\ NotifyTypeOK /\ AlertTypeOK
      /\ Held /\ OtherPrompts /\ Turns /\ Owned /\ Asked /\ Answered
      /\ NotifyPrompt /\ AlertPrompt /\ AllowAnswersOwnPrompt
  BY DEF PromptInv
<1>f. /\ Append(idles, "show") \in Seq({"show", "close"}) /\ Append(idles, "show") # <<>>
      /\ Len(Append(idles, "show")) = Len(idles) + 1 /\ Len(idles) \in Nat
      /\ \A i \in 1 .. Len(idles) : Append(idles, "show")[i] = idles[i]
      /\ Append(idles, "show")[Len(idles) + 1] = "show"
      /\ Head(Append(idles, "show")) = IF idles = <<>> THEN "show" ELSE Head(idles)
  BY <1>0, AppendFacts DEF NotifyTypeOK
<1>1. AlertTypeOK' /\ Owned'
  BY <1>0 DEF NotifyAsk, Ask, NewQuestion, AlertTypeOK, Owned
<1>2. GateTypeOK'
  <2>1. req' \in Nat /\ by' \in Nat
    BY <1>0 DEF NotifyAsk, Ask, NewQuestion, GateTypeOK
  <2>2. wpc' \in {"idle", "wait", "teardown"} /\ holder' \in Callers \cup {"none"}
    BY DEF NotifyAsk, Ask, NewQuestion
  <2>3. decision' \in Decisions /\ cancelled' \in BOOLEAN
        /\ decided' \in BOOLEAN /\ withdrawn' \in BOOLEAN
    BY DEF NotifyAsk, Ask, NewQuestion, Decisions
  <2>4. UNCHANGED <<prompt, result, tty, ending>>
    BY DEF NotifyAsk, Ask, NewQuestion
  <2>5. excused' \in BOOLEAN /\ late' \in BOOLEAN
    BY Zenon DEF NotifyAsk, Ask, NewQuestion
  <2> QED
    BY <1>0, <2>1, <2>2, <2>3, <2>4, <2>5 DEF GateTypeOK
<1>3. NotifyTypeOK'
  BY <1>0, <1>f DEF NotifyAsk, Ask, NewQuestion, Callers, NotifyTypeOK, GateTypeOK
<1>4. Held'
  BY <1>0, <1>f DEF NotifyAsk, Ask, NewQuestion, Callers, Held
<1>5. OtherPrompts'
  BY <1>0, <1>f DEF NotifyAsk, Ask, NewQuestion, Callers, OtherPrompts
<1>6. Turns'
  BY <1>0, <1>f DEF NotifyAsk, Ask, NewQuestion, Callers, Turns, NotifyTypeOK, Held,
      OtherPrompts, Owned
<1>7. Asked'
  BY <1>0, <1>f DEF NotifyAsk, Ask, NewQuestion, Callers, Asked, GateTypeOK, NotifyTypeOK,
      AlertTypeOK, NoLine, OtherPrompts
<1>8. Answered'
  <2>1. ~excused' => screen = {} /\ lpc # "show" /\ modals = <<>>
    BY <1>0 DEF NotifyAsk, Ask, NewQuestion, NotifySeen, OtherPrompts
  <2>2. ~excused' => OwnTexts'
    BY <2>1 DEF NotifyAsk, OwnTexts
  <2>3. wpc' = "wait" /\ ~decided' /\ (~excused' => tty' = NoLine)
    BY DEF NotifyAsk, Ask, NewQuestion
  <2> QED
    BY <2>2, <2>3 DEF Answered
<1>9. NotifyPrompt'
  BY <1>0, <1>f DEF NotifyAsk, Ask, NewQuestion, Callers, NotifyPrompt, Turns, Owned, Held,
      OtherPrompts, NotifyTypeOK, GateTypeOK
<1>10. AlertPrompt'
  BY <1>0, <1>f DEF NotifyAsk, Ask, NewQuestion, Callers, AlertPrompt, Held, AlertTypeOK,
      GateTypeOK, OtherPrompts
<1>11. AllowAnswersOwnPrompt'
  BY <1>0, <1>f DEF NotifyAsk, Ask, NewQuestion, Callers, AllowAnswersOwnPrompt, Answered,
      Asked, Held, NoLine
<1> QED
  BY <1>1, <1>2, <1>3, <1>4, <1>5, <1>6, <1>7, <1>8, <1>9, <1>10, <1>11 DEF PromptInv

LEMMA NotifyLeaveKeeps ==
  ASSUME PromptInv, NotifyLeave, UNCHANGED alert
  PROVE  PromptInv'
<1> USE DEF gate, worker, answer, notify, alert
<1>0. /\ GateTypeOK /\ NotifyTypeOK /\ AlertTypeOK
      /\ Held /\ OtherPrompts /\ Turns /\ Owned /\ Asked /\ Answered
      /\ NotifyPrompt /\ AlertPrompt /\ AllowAnswersOwnPrompt
  BY DEF PromptInv
<1>f. /\ Append(idles, "close") \in Seq({"show", "close"}) /\ Append(idles, "close") # <<>>
      /\ Len(Append(idles, "close")) = Len(idles) + 1 /\ Len(idles) \in Nat
      /\ \A i \in 1 .. Len(idles) : Append(idles, "close")[i] = idles[i]
      /\ Append(idles, "close")[Len(idles) + 1] = "close"
      /\ Head(Append(idles, "close")) = IF idles = <<>> THEN "close" ELSE Head(idles)
  BY <1>0, AppendFacts DEF NotifyTypeOK
<1>1. AlertTypeOK' /\ Owned'
  BY <1>0 DEF NotifyLeave, Leave, AlertTypeOK, Owned
<1>2. GateTypeOK'
  BY <1>0, <1>f DEF NotifyLeave, Leave, Outcome, GateTypeOK, NotifyTypeOK,
      AlertTypeOK, Lines, NoLine, Decisions
<1>3. NotifyTypeOK'
  BY <1>0, <1>f DEF NotifyLeave, Leave, Outcome, NotifyTypeOK, GateTypeOK
<1>4. Held'
  BY <1>0, <1>f DEF NotifyLeave, Leave, Outcome, Held
<1>5. OtherPrompts'
  BY <1>0, <1>f DEF NotifyLeave, Leave, Outcome, OtherPrompts
<1>6. Turns'
  BY <1>0, <1>f DEF NotifyLeave, Leave, Outcome, Turns, NotifyTypeOK, Held,
      OtherPrompts, Owned
<1>7. Asked'
  BY <1>0, <1>f DEF NotifyLeave, Leave, Outcome, Asked, GateTypeOK,
      NotifyTypeOK, AlertTypeOK, NoLine, OtherPrompts
<1>8. Answered'
  BY <1>0, <1>f DEF NotifyLeave, Leave, Outcome, Answered, OwnTexts, Asked, GateTypeOK,
      NotifyPrompt, AlertPrompt, Held, AllowAnswersOwnPrompt, NoLine
<1>9. NotifyPrompt'
  BY <1>0, <1>f DEF NotifyLeave, Leave, Outcome, NotifyPrompt, Turns, Owned,
      Held, OtherPrompts, NotifyTypeOK, GateTypeOK
<1>10. AlertPrompt'
  BY <1>0, <1>f DEF NotifyLeave, Leave, Outcome, AlertPrompt, Held,
      AlertTypeOK, GateTypeOK, OtherPrompts
<1>11. AllowAnswersOwnPrompt'
  BY <1>0, <1>f DEF NotifyLeave, Leave, Outcome, AllowAnswersOwnPrompt,
      Answered, OwnTexts, Asked, Held, NoLine
<1> QED
  BY <1>1, <1>2, <1>3, <1>4, <1>5, <1>6, <1>7, <1>8, <1>9, <1>10, <1>11 DEF PromptInv

LEMMA ShowKeeps ==
  ASSUME PromptInv, prompt = "notify", Show, UNCHANGED alert
  PROVE  PromptInv'
<1> USE DEF gate, worker, answer, notify, alert
<1>0. /\ GateTypeOK /\ NotifyTypeOK /\ AlertTypeOK
      /\ Held /\ OtherPrompts /\ Turns /\ Owned /\ Asked /\ Answered
      /\ NotifyPrompt /\ AlertPrompt /\ AllowAnswersOwnPrompt
  BY DEF PromptInv
<1>f. /\ Tail(idles) \in Seq({"show", "close"}) /\ Head(idles) = idles[1]
      /\ Len(idles) \in Nat \ {0} /\ Len(Tail(idles)) = Len(idles) - 1
      /\ \A i \in 1 .. Len(idles) - 1 : Tail(idles)[i] = idles[i + 1]
      /\ Tail(idles) = <<>> <=> Len(idles) = 1
      /\ Tail(idles) # <<>> => Head(Tail(idles)) = idles[2]
  BY <1>0, TailFacts DEF NotifyTypeOK, Show
<1>1. GateTypeOK' /\ AlertTypeOK' /\ Held' /\ Answered' /\ AlertPrompt'
      /\ AllowAnswersOwnPrompt'
  BY <1>0 DEF Show, GateTypeOK, AlertTypeOK, Held, Answered, OwnTexts, AlertPrompt,
      AllowAnswersOwnPrompt
<1>2. NotifyTypeOK'
  BY <1>0, <1>f DEF Show, NotifyTypeOK, GateTypeOK
<1>3. OtherPrompts'
  BY <1>0, <1>f DEF Show, OtherPrompts
<1>4. Turns'
  BY <1>0, <1>f DEF Show, Turns, NotifyTypeOK, Held, OtherPrompts, Owned
<1>5. Owned'
  BY <1>0, <1>f DEF Show, Owned, Turns, NotifyTypeOK
<1>6. Asked'
  BY <1>0, <1>f DEF Show, Asked, GateTypeOK, NotifyTypeOK, AlertTypeOK,
      NoLine, OtherPrompts
<1>7. NotifyPrompt'
  BY <1>0, <1>f DEF Show, NotifyPrompt, Turns, Owned, Held, OtherPrompts,
      NotifyTypeOK, GateTypeOK
<1> QED
  BY <1>1, <1>2, <1>3, <1>4, <1>5, <1>6, <1>7 DEF PromptInv

LEMMA ShownKeeps ==
  ASSUME PromptInv, prompt = "notify", Shown, UNCHANGED alert
  PROVE  PromptInv'
<1> USE DEF gate, worker, answer, notify, alert
<1>0. /\ GateTypeOK /\ NotifyTypeOK /\ AlertTypeOK
      /\ Held /\ OtherPrompts /\ Turns /\ Owned /\ Asked /\ Answered
      /\ NotifyPrompt /\ AlertPrompt /\ AllowAnswersOwnPrompt
  BY DEF PromptInv
<1>1. GateTypeOK' /\ AlertTypeOK' /\ Held' /\ Answered' /\ AlertPrompt'
      /\ AllowAnswersOwnPrompt'
  BY <1>0 DEF Shown, GateTypeOK, AlertTypeOK, Held, Answered, OwnTexts, AlertPrompt,
      AllowAnswersOwnPrompt
<1>2. NotifyTypeOK'
  <2> DEFINE n == [id |-> shows + 1, text |-> body, answered |-> FALSE]
  <2>1. shows + 1 \in Nat /\ body \in Nat /\ screen \subseteq Notifications
    BY <1>0 DEF NotifyTypeOK
  <2>2. n \in Notifications
    BY <2>1 DEF Notifications
  <2>3. screen' = screen \cup {n} /\ shows' = shows + 1
        /\ notif' = shows + 1 /\ lpc' = "free" /\ UNCHANGED <<idles, body>>
    BY DEF Shown
  <2> HIDE DEF n
  <2> QED
    BY <1>0, <2>1, <2>2, <2>3 DEF NotifyTypeOK
<1>3. OtherPrompts'
  BY <1>0 DEF Shown, Notifications, OtherPrompts
<1>4. Turns'
  BY <1>0 DEF Shown, Notifications, Turns, NotifyTypeOK, Held, OtherPrompts,
      Owned
<1>5. Owned'
  <2> DEFINE n == [id |-> shows + 1, text |-> body, answered |-> FALSE]
  <2>1. screen' = screen \cup {n} /\ notif' = shows + 1 /\ lpc' = "free" /\ lpc = "show"
    BY DEF Shown
  <2>2. n.id = shows + 1
    OBVIOUS
  <2> HIDE DEF n
  <2>3. screen = {}
    BY <1>0, <2>1 DEF Owned
  <2> QED
    BY <2>1, <2>2, <2>3 DEF Owned
<1>6. Asked'
  BY <1>0 DEF Shown, Notifications, Asked, GateTypeOK, NotifyTypeOK,
      AlertTypeOK, NoLine, OtherPrompts
<1>7. NotifyPrompt'
  BY <1>0 DEF Shown, Notifications, NotifyPrompt, Turns, Owned, Held,
      OtherPrompts, NotifyTypeOK, GateTypeOK
<1> QED
  BY <1>1, <1>2, <1>3, <1>4, <1>5, <1>6, <1>7 DEF PromptInv

LEMMA ShowFailsKeeps ==
  ASSUME PromptInv, prompt = "notify", ShowFails, UNCHANGED alert
  PROVE  PromptInv'
<1> USE DEF gate, worker, answer, notify, alert
<1>0. /\ GateTypeOK /\ NotifyTypeOK /\ AlertTypeOK
      /\ Held /\ OtherPrompts /\ Turns /\ Owned /\ Asked /\ Answered
      /\ NotifyPrompt /\ AlertPrompt /\ AllowAnswersOwnPrompt
  BY DEF PromptInv
<1>1. AlertTypeOK' /\ Held' /\ AlertPrompt'
  BY <1>0 DEF ShowFails, Decide, AlertTypeOK, Held, AlertPrompt
<1>2. GateTypeOK'
  <2>2. decided' \in BOOLEAN /\ decision' \in Decisions /\ by' \in Nat
    <3>1. CASE decided
      BY <1>0, <3>1 DEF ShowFails, Decide, GateTypeOK
    <3>2. CASE ~decided
      BY <1>0, <3>2 DEF ShowFails, Decide, GateTypeOK, Decisions
    <3> QED
      BY <3>1, <3>2
  <2>3. UNCHANGED <<prompt, worker, withdrawn, tty, ending, late, excused>>
    BY DEF ShowFails
  <2> QED
    BY <1>0, <2>2, <2>3 DEF GateTypeOK
<1>3. NotifyTypeOK'
  BY <1>0 DEF ShowFails, Decide, NotifyTypeOK, GateTypeOK
<1>4. OtherPrompts'
  BY <1>0 DEF ShowFails, Decide, OtherPrompts
<1>5. Turns'
  BY <1>0 DEF ShowFails, Decide, Turns, NotifyTypeOK, Held, OtherPrompts,
      Owned
<1>6. Owned'
  BY <1>0 DEF ShowFails, Decide, Owned, Turns, NotifyTypeOK
<1>7. Asked'
  BY <1>0 DEF ShowFails, Decide, Asked, GateTypeOK, NotifyTypeOK, AlertTypeOK,
      NoLine, OtherPrompts
<1>8. Answered'
  BY <1>0 DEF ShowFails, Decide, Answered, OwnTexts, Asked, GateTypeOK, NotifyPrompt,
      AlertPrompt, Held, AllowAnswersOwnPrompt, NoLine
<1>9. NotifyPrompt'
  BY <1>0 DEF ShowFails, Decide, NotifyPrompt, Turns, Owned, Held,
      OtherPrompts, NotifyTypeOK, GateTypeOK
<1>10. AllowAnswersOwnPrompt'
  BY <1>0 DEF ShowFails, Decide, AllowAnswersOwnPrompt, Answered, OwnTexts, Asked, Held,
      NoLine
<1> QED
  BY <1>1, <1>2, <1>3, <1>4, <1>5, <1>6, <1>7, <1>8, <1>9, <1>10 DEF PromptInv

LEMMA CloseKeeps ==
  ASSUME PromptInv, prompt = "notify", Close, UNCHANGED alert
  PROVE  PromptInv'
<1> USE DEF gate, worker, answer, notify, alert
<1>0. /\ GateTypeOK /\ NotifyTypeOK /\ AlertTypeOK
      /\ Held /\ OtherPrompts /\ Turns /\ Owned /\ Asked /\ Answered
      /\ NotifyPrompt /\ AlertPrompt /\ AllowAnswersOwnPrompt
  BY DEF PromptInv
<1>f. /\ Tail(idles) \in Seq({"show", "close"}) /\ Head(idles) = idles[1]
      /\ Len(idles) \in Nat \ {0} /\ Len(Tail(idles)) = Len(idles) - 1
      /\ \A i \in 1 .. Len(idles) - 1 : Tail(idles)[i] = idles[i + 1]
      /\ Tail(idles) = <<>> <=> Len(idles) = 1
      /\ Tail(idles) # <<>> => Head(Tail(idles)) = idles[2]
  BY <1>0, TailFacts DEF NotifyTypeOK, Close
<1>1. GateTypeOK' /\ AlertTypeOK' /\ Held' /\ Answered' /\ AlertPrompt'
      /\ AllowAnswersOwnPrompt'
  BY <1>0 DEF Close, GateTypeOK, AlertTypeOK, Held, Answered, OwnTexts, AlertPrompt,
      AllowAnswersOwnPrompt
<1>2. NotifyTypeOK'
  BY <1>0, <1>f DEF Close, NotifyTypeOK, GateTypeOK
<1>3. OtherPrompts'
  BY <1>0, <1>f DEF Close, OtherPrompts
<1>4. Turns'
  BY <1>0, <1>f DEF Close, Turns, NotifyTypeOK, Held, OtherPrompts, Owned
<1>5. Owned'
  BY <1>0, <1>f DEF Close, Owned, Turns, NotifyTypeOK
<1>6. Asked'
  BY <1>0, <1>f DEF Close, Asked, GateTypeOK, NotifyTypeOK, AlertTypeOK,
      NoLine, OtherPrompts
<1>7. NotifyPrompt'
  BY <1>0, <1>f DEF Close, NotifyPrompt, Turns, Owned, Held, OtherPrompts,
      NotifyTypeOK, GateTypeOK
<1> QED
  BY <1>1, <1>2, <1>3, <1>4, <1>5, <1>6, <1>7 DEF PromptInv

LEMMA ClosedKeeps ==
  ASSUME PromptInv, prompt = "notify", Closed, UNCHANGED alert
  PROVE  PromptInv'
<1> USE DEF gate, worker, answer, notify, alert
<1>0. /\ GateTypeOK /\ NotifyTypeOK /\ AlertTypeOK
      /\ Held /\ OtherPrompts /\ Turns /\ Owned /\ Asked /\ Answered
      /\ NotifyPrompt /\ AlertPrompt /\ AllowAnswersOwnPrompt
  BY DEF PromptInv
<1>1. AlertTypeOK' /\ Held' /\ Answered' /\ AllowAnswersOwnPrompt'
  BY <1>0 DEF Closed, AlertTypeOK, Held, Answered, OwnTexts, AllowAnswersOwnPrompt
<1>2. GateTypeOK'
  BY <1>0 DEF Closed, GateTypeOK, NotifyTypeOK, AlertTypeOK, Lines, NoLine,
      Decisions
<1>3. NotifyTypeOK'
  BY <1>0 DEF Closed, NotifyTypeOK, GateTypeOK
<1>4. OtherPrompts'
  BY <1>0 DEF Closed, OtherPrompts
<1>5. Turns'
  BY <1>0 DEF Closed, Turns, NotifyTypeOK, Held, OtherPrompts, Owned
<1>6. Owned'
  BY <1>0 DEF Closed, Owned, Turns, NotifyTypeOK
<1>7. Asked'
  BY <1>0 DEF Closed, Asked, GateTypeOK, NotifyTypeOK, AlertTypeOK, NoLine,
      OtherPrompts
<1>8. NotifyPrompt'
  BY <1>0 DEF Closed, NotifyPrompt, Turns, Owned, Held, OtherPrompts,
      NotifyTypeOK, GateTypeOK
<1>9. AlertPrompt'
  BY <1>0 DEF Closed, AlertPrompt, Held, AlertTypeOK, GateTypeOK, OtherPrompts
<1> QED
  BY <1>1, <1>2, <1>3, <1>4, <1>5, <1>6, <1>7, <1>8, <1>9 DEF PromptInv

LEMMA ButtonKeeps ==
  ASSUME PromptInv, prompt = "notify", NEW n \in screen, NEW allow \in BOOLEAN,
         Button(n, allow), UNCHANGED alert
  PROVE  PromptInv'
<1> USE DEF gate, worker, answer, notify, alert
<1>0. /\ GateTypeOK /\ NotifyTypeOK /\ AlertTypeOK
      /\ Held /\ OtherPrompts /\ Turns /\ Owned /\ Asked /\ Answered
      /\ NotifyPrompt /\ AlertPrompt /\ AllowAnswersOwnPrompt
  BY DEF PromptInv
<1>1. AlertTypeOK' /\ Held' /\ AlertPrompt'
  BY <1>0 DEF Button, Decide, AlertTypeOK, Held, AlertPrompt
<1>2. GateTypeOK'
  <2>1. n.text \in Nat
    BY <1>0 DEF NotifyTypeOK, Notifications
  <2>2. decided' \in BOOLEAN /\ decision' \in Decisions /\ by' \in Nat
    <3>1. CASE decided
      BY <1>0, <3>1 DEF Button, Decide, GateTypeOK
    <3>2. CASE ~decided
      BY <1>0, <3>2, <2>1 DEF Button, Decide, GateTypeOK, Decisions
    <3> QED
      BY <3>1, <3>2
  <2>3. UNCHANGED <<prompt, worker, withdrawn, tty, ending, late, excused>>
    BY DEF Button
  <2> QED
    BY <1>0, <2>2, <2>3 DEF GateTypeOK
<1>3. NotifyTypeOK'
  BY <1>0 DEF Button, Decide, Notifications, NotifyTypeOK, GateTypeOK
<1>4. OtherPrompts'
  BY <1>0 DEF Button, Decide, Notifications, OtherPrompts
<1>5. Turns'
  BY <1>0 DEF Button, Decide, Notifications, Turns, NotifyTypeOK, Held,
      OtherPrompts, Owned
<1>6. Owned'
  BY <1>0 DEF Button, Decide, Notifications, Owned, Turns, NotifyTypeOK
<1>7. Asked'
  BY <1>0 DEF Button, Decide, Notifications, Asked, GateTypeOK, NotifyTypeOK,
      AlertTypeOK, NoLine, OtherPrompts
<1>8. Answered'
  <2>1. n.text # 0 /\ UNCHANGED <<wpc, req, result, tty, excused, lpc, body, modals>>
    BY <1>0 DEF Button, Asked
  <2>2. \A m \in screen' : \E k \in screen : m.text = k.text
    BY <1>0 DEF Button, NotifyTypeOK, Notifications
  <2>3. wpc = "wait" /\ ~excused => OwnTexts /\ OwnTexts' /\ n.text = req
    BY <1>0, <2>1, <2>2 DEF Answered, OwnTexts
  <2>4. \/ UNCHANGED <<decided, decision, by>>
        \/ decided' /\ by' = n.text
    BY DEF Button, Decide
  <2> QED
    BY <1>0, <2>1, <2>3, <2>4 DEF Answered
<1>9. NotifyPrompt'
  BY <1>0 DEF Button, Decide, Notifications, NotifyPrompt, Turns, Owned, Held,
      OtherPrompts, NotifyTypeOK, GateTypeOK
<1>10. AllowAnswersOwnPrompt'
  BY <1>0 DEF Button, Decide, Notifications, AllowAnswersOwnPrompt, Answered,
      Asked, Held, NoLine
<1> QED
  BY <1>1, <1>2, <1>3, <1>4, <1>5, <1>6, <1>7, <1>8, <1>9, <1>10 DEF PromptInv

LEMMA DismissedKeeps ==
  ASSUME PromptInv, prompt = "notify", NEW n \in screen, Dismissed(n), UNCHANGED alert
  PROVE  PromptInv'
<1> USE DEF gate, worker, answer, notify, alert
<1>0. /\ GateTypeOK /\ NotifyTypeOK /\ AlertTypeOK
      /\ Held /\ OtherPrompts /\ Turns /\ Owned /\ Asked /\ Answered
      /\ NotifyPrompt /\ AlertPrompt /\ AllowAnswersOwnPrompt
  BY DEF PromptInv
<1>1. AlertTypeOK' /\ Held' /\ AlertPrompt'
  BY <1>0 DEF Dismissed, Decide, AlertTypeOK, Held, AlertPrompt
<1>2. GateTypeOK'
  <2>1. n.text \in Nat
    BY <1>0 DEF NotifyTypeOK, Notifications
  <2>2. decided' \in BOOLEAN /\ decision' \in Decisions /\ by' \in Nat
    <3>1. CASE decided
      BY <1>0, <3>1 DEF Dismissed, Decide, GateTypeOK
    <3>2. CASE ~decided
      BY <1>0, <3>2, <2>1 DEF Dismissed, Decide, GateTypeOK, Decisions
    <3> QED
      BY <3>1, <3>2
  <2>3. UNCHANGED <<prompt, worker, withdrawn, tty, ending, late, excused>>
    BY DEF Dismissed
  <2> QED
    BY <1>0, <2>2, <2>3 DEF GateTypeOK
<1>3. NotifyTypeOK'
  BY <1>0 DEF Dismissed, Decide, Notifications, NotifyTypeOK, GateTypeOK
<1>4. OtherPrompts'
  BY <1>0 DEF Dismissed, Decide, Notifications, OtherPrompts
<1>5. Turns'
  BY <1>0 DEF Dismissed, Decide, Notifications, Turns, NotifyTypeOK, Held,
      OtherPrompts, Owned
<1>6. Owned'
  BY <1>0 DEF Dismissed, Decide, Notifications, Owned, Turns, NotifyTypeOK
<1>7. Asked'
  BY <1>0 DEF Dismissed, Decide, Notifications, Asked, GateTypeOK,
      NotifyTypeOK, AlertTypeOK, NoLine, OtherPrompts
<1>8. Answered'
  <2>1. n.text # 0 /\ UNCHANGED <<wpc, req, result, tty, excused, lpc, body, modals>>
    BY <1>0 DEF Dismissed, Asked
  <2>2. \A m \in screen' : \E k \in screen : m.text = k.text
    BY <1>0 DEF Dismissed, NotifyTypeOK, Notifications
  <2>3. wpc = "wait" /\ ~excused => OwnTexts /\ OwnTexts' /\ n.text = req
    BY <1>0, <2>1, <2>2 DEF Answered, OwnTexts
  <2>4. \/ UNCHANGED <<decided, decision, by>>
        \/ decided' /\ by' = n.text
    BY DEF Dismissed, Decide
  <2> QED
    BY <1>0, <2>1, <2>3, <2>4 DEF Answered
<1>9. NotifyPrompt'
  BY <1>0 DEF Dismissed, Decide, Notifications, NotifyPrompt, Turns, Owned,
      Held, OtherPrompts, NotifyTypeOK, GateTypeOK
<1>10. AllowAnswersOwnPrompt'
  BY <1>0 DEF Dismissed, Decide, Notifications, AllowAnswersOwnPrompt,
      Answered, OwnTexts, Asked, Held, NoLine
<1> QED
  BY <1>1, <1>2, <1>3, <1>4, <1>5, <1>6, <1>7, <1>8, <1>9, <1>10 DEF PromptInv

LEMMA StopLoopKeeps ==
  ASSUME PromptInv, prompt = "notify", StopLoop, UNCHANGED alert
  PROVE  PromptInv'
<1> USE DEF gate, worker, answer, notify, alert
<1>0. /\ GateTypeOK /\ NotifyTypeOK /\ AlertTypeOK
      /\ Held /\ OtherPrompts /\ Turns /\ Owned /\ Asked /\ Answered
      /\ NotifyPrompt /\ AlertPrompt /\ AllowAnswersOwnPrompt
  BY DEF PromptInv
<1>1. GateTypeOK' /\ AlertTypeOK' /\ Held' /\ Answered' /\ AlertPrompt'
      /\ AllowAnswersOwnPrompt'
  BY <1>0 DEF StopLoop, GateTypeOK, AlertTypeOK, Held, Answered, OwnTexts, AlertPrompt,
      AllowAnswersOwnPrompt
<1>2. NotifyTypeOK'
  BY <1>0 DEF StopLoop, NotifyTypeOK, GateTypeOK
<1>3. OtherPrompts'
  BY <1>0 DEF StopLoop, OtherPrompts
<1>4. Turns'
  BY <1>0 DEF StopLoop, Turns, NotifyTypeOK, Held, OtherPrompts, Owned
<1>5. Owned'
  BY <1>0 DEF StopLoop, Owned, Turns, NotifyTypeOK
<1>6. Asked'
  BY <1>0 DEF StopLoop, Asked, GateTypeOK, NotifyTypeOK, AlertTypeOK, NoLine,
      OtherPrompts
<1>7. NotifyPrompt'
  BY <1>0 DEF StopLoop, NotifyPrompt, Turns, Owned, Held, OtherPrompts,
      NotifyTypeOK, GateTypeOK
<1> QED
  BY <1>1, <1>2, <1>3, <1>4, <1>5, <1>6, <1>7 DEF PromptInv

LEMMA AlertAskKeeps ==
  ASSUME PromptInv, NEW c \in Callers, AlertAsk(c), UNCHANGED notify
  PROVE  PromptInv'
<1> USE DEF gate, worker, answer, notify, alert
<1>0. /\ GateTypeOK /\ NotifyTypeOK /\ AlertTypeOK
      /\ Held /\ OtherPrompts /\ Turns /\ Owned /\ Asked /\ Answered
      /\ NotifyPrompt /\ AlertPrompt /\ AllowAnswersOwnPrompt
  BY DEF PromptInv
<1>f. LET b == [kind |-> "alert", gen |-> req + 1]
      IN  /\ Append(blocks, b) \in Seq(Blocks) /\ b \in Blocks
          /\ Len(Append(blocks, b)) = Len(blocks) + 1 /\ Len(blocks) \in Nat
          /\ \A i \in 1 .. Len(blocks) : Append(blocks, b)[i] = blocks[i]
          /\ Append(blocks, b)[Len(blocks) + 1] = b
  <2>1. [kind |-> "alert", gen |-> req + 1] \in Blocks
    BY <1>0 DEF GateTypeOK, Blocks
  <2> QED
    BY <1>0, <2>1, AppendFacts DEF AlertTypeOK
<1>1. NotifyTypeOK' /\ Owned'
  BY <1>0 DEF AlertAsk, Ask, NewQuestion, NotifyTypeOK, Owned
<1>2. GateTypeOK'
  <2>1. req' \in Nat /\ by' \in Nat
    BY <1>0 DEF AlertAsk, Ask, NewQuestion, GateTypeOK
  <2>2. wpc' \in {"idle", "wait", "teardown"} /\ holder' \in Callers \cup {"none"}
    BY DEF AlertAsk, Ask, NewQuestion
  <2>3. decision' \in Decisions /\ cancelled' \in BOOLEAN
        /\ decided' \in BOOLEAN /\ withdrawn' \in BOOLEAN
    BY DEF AlertAsk, Ask, NewQuestion, Decisions
  <2>4. UNCHANGED <<prompt, result, tty, ending>>
    BY DEF AlertAsk, Ask, NewQuestion
  <2>5. excused' \in BOOLEAN /\ late' \in BOOLEAN
    BY Zenon DEF AlertAsk, Ask, NewQuestion
  <2> QED
    BY <1>0, <2>1, <2>2, <2>3, <2>4, <2>5 DEF GateTypeOK
<1>3. AlertTypeOK'
  BY <1>0, <1>f DEF AlertAsk, Ask, NewQuestion, Callers, AlertTypeOK, GateTypeOK
<1>4. Held'
  BY <1>0, <1>f DEF AlertAsk, Ask, NewQuestion, Callers, Held
<1>5. OtherPrompts'
  BY <1>0, <1>f DEF AlertAsk, Ask, NewQuestion, Callers, OtherPrompts
<1>6. Turns'
  BY <1>0, <1>f DEF AlertAsk, Ask, NewQuestion, Callers, Turns, NotifyTypeOK, Held,
      OtherPrompts, Owned
<1>7. Asked'
  BY <1>0, <1>f DEF AlertAsk, Ask, NewQuestion, Callers, Asked, GateTypeOK, NotifyTypeOK,
      AlertTypeOK, NoLine, OtherPrompts
<1>8. Answered'
  <2>1. ~excused' => screen = {} /\ lpc # "show" /\ modals = <<>>
    BY <1>0 DEF AlertAsk, Ask, NewQuestion, AlertSeen, OtherPrompts
  <2>2. ~excused' => OwnTexts'
    BY <2>1 DEF AlertAsk, OwnTexts
  <2>3. wpc' = "wait" /\ ~decided' /\ (~excused' => tty' = NoLine)
    BY DEF AlertAsk, Ask, NewQuestion
  <2> QED
    BY <2>2, <2>3 DEF Answered
<1>9. NotifyPrompt'
  BY <1>0, <1>f DEF AlertAsk, Ask, NewQuestion, Callers, NotifyPrompt, Turns, Owned, Held,
      OtherPrompts, NotifyTypeOK, GateTypeOK
<1>10. AlertPrompt'
  <2> SUFFICES ASSUME ~late' PROVE AlertPrompt'
    BY DEF AlertPrompt
  <2>1. modals = <<>> /\ \A i \in 1 .. Len(blocks) : blocks[i].kind # "alert"
    BY DEF AlertAsk, Ask, NewQuestion, AlertSeen
  <2>2. /\ modals' = <<>> /\ wpc' = "wait" /\ ~withdrawn' /\ req' = req + 1
        /\ blocks' = Append(blocks, [kind |-> "alert", gen |-> req + 1])
    BY <2>1 DEF AlertAsk, Ask, NewQuestion
  <2> QED
    BY <1>f, <2>1, <2>2 DEF AlertPrompt
<1>11. AllowAnswersOwnPrompt'
  BY <1>0, <1>f DEF AlertAsk, Ask, NewQuestion, Callers, AllowAnswersOwnPrompt, Answered,
      Asked, Held, NoLine
<1> QED
  BY <1>1, <1>2, <1>3, <1>4, <1>5, <1>6, <1>7, <1>8, <1>9, <1>10, <1>11 DEF PromptInv

LEMMA AlertLeaveKeeps ==
  ASSUME PromptInv, AlertLeave, UNCHANGED notify
  PROVE  PromptInv'
<1> USE DEF gate, worker, answer, notify, alert
<1>0. /\ GateTypeOK /\ NotifyTypeOK /\ AlertTypeOK
      /\ Held /\ OtherPrompts /\ Turns /\ Owned /\ Asked /\ Answered
      /\ NotifyPrompt /\ AlertPrompt /\ AllowAnswersOwnPrompt
  BY DEF PromptInv
<1>f. LET b == [kind |-> "abort", gen |-> req]
      IN  /\ Append(blocks, b) \in Seq(Blocks) /\ b \in Blocks
          /\ Len(Append(blocks, b)) = Len(blocks) + 1 /\ Len(blocks) \in Nat
          /\ \A i \in 1 .. Len(blocks) : Append(blocks, b)[i] = blocks[i]
          /\ Append(blocks, b)[Len(blocks) + 1] = b
  <2>1. [kind |-> "abort", gen |-> req] \in Blocks
    BY <1>0 DEF GateTypeOK, Blocks
  <2> QED
    BY <1>0, <2>1, AppendFacts DEF AlertTypeOK
<1>1. NotifyTypeOK' /\ Owned'
  BY <1>0 DEF AlertLeave, Leave, NotifyTypeOK, Owned
<1>2. GateTypeOK'
  BY <1>0, <1>f DEF AlertLeave, Leave, Outcome, GateTypeOK, NotifyTypeOK,
      AlertTypeOK, Lines, NoLine, Decisions
<1>3. AlertTypeOK'
  BY <1>0, <1>f DEF AlertLeave, Leave, Outcome, AlertTypeOK, GateTypeOK
<1>4. Held'
  BY <1>0, <1>f DEF AlertLeave, Leave, Outcome, Held
<1>5. OtherPrompts'
  BY <1>0, <1>f DEF AlertLeave, Leave, Outcome, OtherPrompts
<1>6. Turns'
  BY <1>0, <1>f DEF AlertLeave, Leave, Outcome, Turns, NotifyTypeOK, Held,
      OtherPrompts, Owned
<1>7. Asked'
  BY <1>0, <1>f DEF AlertLeave, Leave, Outcome, Asked, GateTypeOK,
      NotifyTypeOK, AlertTypeOK, NoLine, OtherPrompts
<1>8. Answered'
  BY <1>0, <1>f DEF AlertLeave, Leave, Outcome, Answered, OwnTexts, Asked, GateTypeOK,
      NotifyPrompt, AlertPrompt, Held, AllowAnswersOwnPrompt, NoLine
<1>9. NotifyPrompt'
  BY <1>0, <1>f DEF AlertLeave, Leave, Outcome, NotifyPrompt, Turns, Owned,
      Held, OtherPrompts, NotifyTypeOK, GateTypeOK
<1>10. AlertPrompt'
  <2>1. CASE withdrawn
    BY <1>0, <2>1 DEF AlertLeave, AlertPrompt
  <2>2. CASE ~withdrawn
    <3> DEFINE b == [kind |-> "abort", gen |-> req]
    <3>1. blocks' = Append(blocks, b) /\ b.kind = "abort" /\ wpc' = "teardown"
          /\ UNCHANGED <<prompt, late, req, withdrawn, modals>>
      BY <2>2 DEF AlertLeave
    <3>2. /\ Len(blocks') = Len(blocks) + 1 /\ Len(blocks) \in Nat
          /\ \A i \in 1 .. Len(blocks) : blocks'[i] = blocks[i]
          /\ blocks'[Len(blocks) + 1] = b
      BY <1>f, <3>1
    <3> HIDE DEF b
    <3>3. \A i \in 1 .. Len(blocks') : blocks'[i].kind = "alert" =>
            i \in 1 .. Len(blocks) /\ blocks'[i] = blocks[i]
      BY <3>1, <3>2
    <3> QED
      BY <1>0, <3>1, <3>3 DEF AlertPrompt
  <2> QED
    BY <2>1, <2>2
<1>11. AllowAnswersOwnPrompt'
  BY <1>0, <1>f DEF AlertLeave, Leave, Outcome, AllowAnswersOwnPrompt,
      Answered, OwnTexts, Asked, Held, NoLine
<1> QED
  BY <1>1, <1>2, <1>3, <1>4, <1>5, <1>6, <1>7, <1>8, <1>9, <1>10, <1>11 DEF PromptInv

LEMMA AlertBlockKeeps ==
  ASSUME PromptInv, prompt = "alert", AlertBlock, UNCHANGED notify
  PROVE  PromptInv'
<1> USE DEF gate, worker, answer, notify, alert
<1>0. /\ GateTypeOK /\ NotifyTypeOK /\ AlertTypeOK
      /\ Held /\ OtherPrompts /\ Turns /\ Owned /\ Asked /\ Answered
      /\ NotifyPrompt /\ AlertPrompt /\ AllowAnswersOwnPrompt
  BY DEF PromptInv
<1>f. /\ Tail(blocks) \in Seq(Blocks) /\ Head(blocks) \in Blocks /\ Head(blocks) = blocks[1]
      /\ Len(blocks) \in Nat \ {0} /\ Len(Tail(blocks)) = Len(blocks) - 1
      /\ \A i \in 1 .. Len(blocks) - 1 : Tail(blocks)[i] = blocks[i + 1]
  BY <1>0, TailFacts DEF AlertTypeOK, AlertBlock
<1>1. GateTypeOK' /\ NotifyTypeOK' /\ Held' /\ Turns' /\ Owned'
      /\ NotifyPrompt' /\ AllowAnswersOwnPrompt'
  BY <1>0 DEF AlertBlock, Begin, GateTypeOK, NotifyTypeOK, Held, Turns, Owned, NotifyPrompt, AllowAnswersOwnPrompt
<1>2. AlertTypeOK'
  <2>1. CASE Head(blocks).gen # req
    BY <1>0, <1>f, <2>1 DEF AlertBlock, AlertTypeOK
  <2>2. CASE Head(blocks).gen = req
    <3> DEFINE b == Head(blocks)
               m == [gen |-> b.gen, run |-> modal_running',
                     resp |-> IF modal_running' THEN "none" ELSE "other"]
    <3>1. modals' = Append(modals, m) /\ modal_running' = (~decided /\ ~abort_requested)
      BY <2>2 DEF AlertBlock, Begin
    <3>2. modal_running' \in BOOLEAN
      BY <3>1, Zenon
    <3>3. m \in Modals /\ m.gen = b.gen
      BY <1>f, <3>2 DEF Modals, Blocks
    <3> HIDE DEF m, b
    <3>4. /\ modals' \in Seq(Modals) /\ Len(modals') = Len(modals) + 1 /\ Len(modals) \in Nat
          /\ \A i \in 1 .. Len(modals) : modals'[i] = modals[i]
          /\ modals'[Len(modals) + 1] = m
      BY <1>0, <3>1, <3>3, AppendFacts DEF AlertTypeOK
    <3> QED
      BY <1>0, <1>f, <3>2, <3>4 DEF AlertBlock, AlertTypeOK
  <2> QED
    BY <2>1, <2>2
<1>3. OtherPrompts'
  BY <1>0, <1>f DEF AlertBlock, Begin, OtherPrompts
<1>4. Asked'
  <2>1. CASE Head(blocks).gen # req
    BY <1>0, <1>f, <2>1 DEF AlertBlock, Asked, AlertTypeOK
  <2>2. CASE Head(blocks).gen = req
    <3> DEFINE b == Head(blocks)
               m == [gen |-> b.gen, run |-> modal_running',
                     resp |-> IF modal_running' THEN "none" ELSE "other"]
    <3>1. modals' = Append(modals, m) /\ modal_running' = (~decided /\ ~abort_requested)
      BY <2>2 DEF AlertBlock, Begin
    <3>2. modal_running' \in BOOLEAN
      BY <3>1, Zenon
    <3>3. m \in Modals /\ m.gen = b.gen
      BY <1>f, <3>2 DEF Modals, Blocks
    <3> HIDE DEF m, b
    <3>4. /\ modals' \in Seq(Modals) /\ Len(modals') = Len(modals) + 1 /\ Len(modals) \in Nat
          /\ \A i \in 1 .. Len(modals) : modals'[i] = modals[i]
          /\ modals'[Len(modals) + 1] = m
      BY <1>0, <3>1, <3>3, AppendFacts DEF AlertTypeOK
    <3> QED
      BY <1>0, <1>f, <3>3, <3>4 DEF AlertBlock, Asked, b
  <2> QED
    BY <2>1, <2>2
<1>5. AlertPrompt'
  BY <1>0, <1>f DEF AlertBlock, Begin, AlertPrompt, Held, AlertTypeOK,
      GateTypeOK, OtherPrompts
<1>6. Answered'
  <2>1. ASSUME wpc = "wait", ~excused PROVE OwnTexts'
    <3>0. OwnTexts
      BY <1>0, <2>1 DEF Answered
    <3>1. CASE Head(blocks).gen # req
      BY <3>0, <3>1 DEF AlertBlock, OwnTexts
    <3>2. CASE Head(blocks).gen = req
      <4> DEFINE m == [gen |-> req, run |-> modal_running',
                       resp |-> IF modal_running' THEN "none" ELSE "other"]
      <4>1. modals' = Append(modals, m) /\ modal_running' = (~decided /\ ~abort_requested)
        BY <3>2 DEF AlertBlock, Begin
      <4>2. modal_running' \in BOOLEAN
        BY <4>1, Zenon
      <4>3. m \in Modals /\ m.gen = req
        BY <1>0, <4>2 DEF Modals, GateTypeOK
      <4> HIDE DEF m
      <4>4. /\ Len(modals') = Len(modals) + 1 /\ Len(modals) \in Nat
            /\ \A i \in 1 .. Len(modals) : modals'[i] = modals[i]
            /\ modals'[Len(modals) + 1] = m
        BY <1>0, <4>1, <4>3, AppendFacts DEF AlertTypeOK
      <4> QED
        BY <3>0, <4>3, <4>4 DEF AlertBlock, OwnTexts
    <3> QED
      BY <3>1, <3>2
  <2> QED
    BY <1>0, <2>1 DEF AlertBlock, Answered
<1> QED
  BY <1>1, <1>2, <1>3, <1>4, <1>5, <1>6 DEF PromptInv

LEMMA PressKeeps ==
  ASSUME PromptInv, prompt = "alert", NEW resp \in {"ok", "other"}, Press(resp), UNCHANGED notify
  PROVE  PromptInv'
<1> USE DEF gate, worker, answer, notify, alert
<1>0. /\ GateTypeOK /\ NotifyTypeOK /\ AlertTypeOK
      /\ Held /\ OtherPrompts /\ Turns /\ Owned /\ Asked /\ Answered
      /\ NotifyPrompt /\ AlertPrompt /\ AllowAnswersOwnPrompt
  BY DEF PromptInv
<1>f. /\ modals' \in Seq(Modals) /\ Len(modals') = Len(modals) /\ modals' # <<>>
      /\ modals # <<>>
      /\ \A i \in 1 .. Len(modals) : modals'[i].gen = modals[i].gen
  BY <1>0, EndModalFacts DEF Press, InModal
<1>1. GateTypeOK' /\ NotifyTypeOK' /\ Held' /\ Turns' /\ Owned'
      /\ NotifyPrompt' /\ AllowAnswersOwnPrompt'
  BY <1>0 DEF Press, GateTypeOK, NotifyTypeOK, Held, Turns, Owned,
      NotifyPrompt, AllowAnswersOwnPrompt
<1>2. AlertTypeOK'
  BY <1>0, <1>f DEF Press, AlertTypeOK, GateTypeOK
<1>3. OtherPrompts'
  BY <1>0, <1>f DEF Press, OtherPrompts
<1>4. Asked'
  BY <1>0, <1>f DEF Press, Asked, GateTypeOK, NotifyTypeOK, AlertTypeOK,
      NoLine, OtherPrompts
<1>5. AlertPrompt'
  BY <1>0, <1>f DEF Press, AlertPrompt, Held, AlertTypeOK, GateTypeOK,
      OtherPrompts
<1>6. Answered'
  <2>1. (wpc = "wait" /\ ~excused => OwnTexts) => (wpc = "wait" /\ ~excused => OwnTexts)'
    BY <1>0, <1>f DEF Press, OwnTexts
  <2> QED
    BY <1>0, <2>1 DEF Press, Answered
<1> QED
  BY <1>1, <1>2, <1>3, <1>4, <1>5, <1>6 DEF PromptInv

LEMMA FinishKeeps ==
  ASSUME PromptInv, prompt = "alert", Finish, UNCHANGED notify
  PROVE  PromptInv'
<1> USE DEF gate, worker, answer, notify, alert
<1>0. /\ GateTypeOK /\ NotifyTypeOK /\ AlertTypeOK
      /\ Held /\ OtherPrompts /\ Turns /\ Owned /\ Asked /\ Answered
      /\ NotifyPrompt /\ AlertPrompt /\ AllowAnswersOwnPrompt
  BY DEF PromptInv
<1>f. /\ Len(modals) \in Nat \ {0} /\ Top \in Modals /\ Top = modals[Len(modals)]
      /\ Outer \in Seq(Modals) /\ Len(Outer) = Len(modals) - 1
      /\ \A i \in 1 .. Len(Outer) : Outer[i] = modals[i]
  BY <1>0, PanelFacts DEF Finish
<1>1. NotifyTypeOK' /\ Held' /\ Turns' /\ Owned'
  BY <1>0 DEF Finish, Decide, NotifyTypeOK, Held, Turns, Owned
<1>2. GateTypeOK'
  <2>1. Top.gen \in Nat
    BY <1>f DEF Modals
  <2>2. decided' \in BOOLEAN /\ decision' \in Decisions /\ by' \in Nat
    <3>1. CASE decided
      BY <1>0, <3>1 DEF Finish, Decide, GateTypeOK
    <3>2. CASE ~decided
      BY <1>0, <3>2, <2>1 DEF Finish, Decide, GateTypeOK, Decisions
    <3> QED
      BY <3>1, <3>2
  <2>3. UNCHANGED <<prompt, worker, tty, ending, late, excused>> /\ withdrawn' = TRUE
    BY DEF Finish
  <2> QED
    BY <1>0, <2>2, <2>3 DEF GateTypeOK
<1>3. AlertTypeOK'
  BY <1>0, <1>f DEF Finish, Decide, AlertTypeOK, GateTypeOK
<1>4. OtherPrompts'
  BY <1>0, <1>f DEF Finish, Decide, OtherPrompts
<1>5. Asked'
  BY <1>0, <1>f DEF Finish, Decide, Asked, GateTypeOK, NotifyTypeOK,
      AlertTypeOK, NoLine, OtherPrompts
<1>6. Answered'
  BY <1>0, <1>f DEF Finish, Decide, Answered, OwnTexts, Asked, GateTypeOK, NotifyPrompt,
      AlertPrompt, Held, AllowAnswersOwnPrompt, NoLine
<1>7. NotifyPrompt'
  BY <1>0, <1>f DEF Finish, Decide, NotifyPrompt, Turns, Owned, Held,
      OtherPrompts, NotifyTypeOK, GateTypeOK
<1>8. AlertPrompt'
  BY <1>0, <1>f DEF Finish, Decide, AlertPrompt, Held, AlertTypeOK,
      GateTypeOK, OtherPrompts
<1>9. AllowAnswersOwnPrompt'
  BY <1>0, <1>f DEF Finish, Decide, AllowAnswersOwnPrompt, Answered, OwnTexts, Asked,
      Held, NoLine
<1> QED
  BY <1>1, <1>2, <1>3, <1>4, <1>5, <1>6, <1>7, <1>8, <1>9 DEF PromptInv

LEMMA AbortBlockKeeps ==
  ASSUME PromptInv, prompt = "alert", AbortBlock, UNCHANGED notify
  PROVE  PromptInv'
<1> USE DEF gate, worker, answer, notify, alert
<1>0. /\ GateTypeOK /\ NotifyTypeOK /\ AlertTypeOK
      /\ Held /\ OtherPrompts /\ Turns /\ Owned /\ Asked /\ Answered
      /\ NotifyPrompt /\ AlertPrompt /\ AllowAnswersOwnPrompt
  BY DEF PromptInv
<1>f. /\ Tail(blocks) \in Seq(Blocks) /\ Head(blocks) \in Blocks /\ Head(blocks) = blocks[1]
      /\ Len(blocks) \in Nat \ {0} /\ Len(Tail(blocks)) = Len(blocks) - 1
      /\ \A i \in 1 .. Len(blocks) - 1 : Tail(blocks)[i] = blocks[i + 1]
  BY <1>0, TailFacts DEF AlertTypeOK, AbortBlock
<1>g. InModal /\ EndModal("other") =>
      /\ modals' \in Seq(Modals) /\ Len(modals') = Len(modals)
      /\ modals' # <<>> /\ modals # <<>>
      /\ \A i \in 1 .. Len(modals) : modals'[i].gen = modals[i].gen
  BY <1>0, EndModalFacts DEF InModal
<1>1. GateTypeOK' /\ NotifyTypeOK' /\ Held' /\ Turns' /\ Owned'
      /\ NotifyPrompt' /\ AllowAnswersOwnPrompt'
  BY <1>0 DEF AbortBlock, GateTypeOK, NotifyTypeOK, Held, Turns, Owned, NotifyPrompt, AllowAnswersOwnPrompt
<1>2. AlertTypeOK'
  BY <1>0, <1>f, <1>g DEF AbortBlock, AlertTypeOK, GateTypeOK
<1>3. OtherPrompts'
  BY <1>0, <1>f, <1>g DEF AbortBlock, OtherPrompts
<1>4. Asked'
  BY <1>0, <1>f, <1>g DEF AbortBlock, Asked, GateTypeOK, NotifyTypeOK,
      AlertTypeOK, NoLine, OtherPrompts
<1>5. AlertPrompt'
  BY <1>0, <1>f, <1>g DEF AbortBlock, AlertPrompt, Held, AlertTypeOK,
      GateTypeOK, OtherPrompts
<1>6. Answered'
  <2>1. (wpc = "wait" /\ ~excused => OwnTexts) => (wpc = "wait" /\ ~excused => OwnTexts)'
    BY <1>0, <1>g DEF AbortBlock, OwnTexts
  <2> QED
    BY <1>0, <2>1 DEF AbortBlock, Answered
<1> QED
  BY <1>1, <1>2, <1>3, <1>4, <1>5, <1>6 DEF PromptInv

LEMMA StopTimerKeeps ==
  ASSUME PromptInv, prompt = "alert", StopTimer, UNCHANGED notify
  PROVE  PromptInv'
<1> USE DEF gate, worker, answer, notify, alert
<1>0. /\ GateTypeOK /\ NotifyTypeOK /\ AlertTypeOK
      /\ Held /\ OtherPrompts /\ Turns /\ Owned /\ Asked /\ Answered
      /\ NotifyPrompt /\ AlertPrompt /\ AllowAnswersOwnPrompt
  BY DEF PromptInv
<1>f. InModal /\ EndModal("other") =>
      /\ modals' \in Seq(Modals) /\ Len(modals') = Len(modals)
      /\ modals' # <<>> /\ modals # <<>>
      /\ \A i \in 1 .. Len(modals) : modals'[i].gen = modals[i].gen
  BY <1>0, EndModalFacts DEF InModal
<1>1. GateTypeOK' /\ NotifyTypeOK' /\ Held' /\ Turns' /\ Owned'
      /\ NotifyPrompt' /\ AllowAnswersOwnPrompt'
  BY <1>0 DEF StopTimer, GateTypeOK, NotifyTypeOK, Held, Turns, Owned, NotifyPrompt, AllowAnswersOwnPrompt
<1>2. AlertTypeOK'
  BY <1>0, <1>f DEF StopTimer, AlertTypeOK, GateTypeOK
<1>3. OtherPrompts'
  BY <1>0, <1>f DEF StopTimer, OtherPrompts
<1>4. Asked'
  BY <1>0, <1>f DEF StopTimer, Asked, GateTypeOK, NotifyTypeOK, AlertTypeOK,
      NoLine, OtherPrompts
<1>5. AlertPrompt'
  BY <1>0, <1>f DEF StopTimer, AlertPrompt, Held, AlertTypeOK, GateTypeOK,
      OtherPrompts
<1>6. Answered'
  <2>1. (wpc = "wait" /\ ~excused => OwnTexts) => (wpc = "wait" /\ ~excused => OwnTexts)'
    BY <1>0, <1>f DEF StopTimer, OwnTexts
  <2> QED
    BY <1>0, <2>1 DEF StopTimer, Answered
<1> QED
  BY <1>1, <1>2, <1>3, <1>4, <1>5, <1>6 DEF PromptInv

(* What the HID threads, main() and the control server do outside of the   *)
(* prompts.                                                                *)
LEMMA QuietKeeps ==
  ASSUME PromptInv,
         UNCHANGED <<prompt, wpc, req, result, answer, withdrawn, tty, late, excused, notify>>,
         UNCHANGED <<blocks, modals, modal_running, abort_requested>>,
         holder' \in Callers \cup {"none"}, wpc # "idle" => holder' # "none",
         cancelled' \in BOOLEAN, ending' \in Endings, main' \in {"loop", "menu", "over"}
  PROVE  PromptInv'
<1> USE DEF answer, notify
<1>0. /\ GateTypeOK /\ NotifyTypeOK /\ AlertTypeOK
      /\ Held /\ OtherPrompts /\ Turns /\ Owned /\ Asked /\ Answered
      /\ NotifyPrompt /\ AlertPrompt /\ AllowAnswersOwnPrompt
  BY DEF PromptInv
<1>1. GateTypeOK'
  BY <1>0 DEF GateTypeOK
<1>2. NotifyTypeOK' /\ AlertTypeOK' /\ Held'
  BY <1>0 DEF NotifyTypeOK, AlertTypeOK, Held
<1>3. OtherPrompts' /\ Turns' /\ Owned' /\ Asked'
  BY <1>0 DEF OtherPrompts, Turns, Owned, Asked
<1>4. Answered' /\ NotifyPrompt' /\ AlertPrompt' /\ AllowAnswersOwnPrompt'
  BY <1>0 DEF Answered, OwnTexts, NotifyPrompt, AlertPrompt, AllowAnswersOwnPrompt
<1> QED
  BY <1>1, <1>2, <1>3, <1>4 DEF PromptInv

(* Steps that leave the prompts alone.                                     *)
LEMMA WindingDownKeeps ==
  ASSUME PromptInv, UNCHANGED <<notify, alert>>,
         Cancel \/ RequestStop \/ WorkerDone \/ StopCancels \/ LoopDone \/ CtlStop \/ Joined
  PROVE  PromptInv'
<1> USE DEF worker, answer, alert, Callers, Endings
<1>0. GateTypeOK /\ AlertTypeOK /\ Held
  BY DEF PromptInv
<1>1. CASE Cancel
  BY <1>0, <1>1, QuietKeeps DEF Cancel, GateTypeOK, AlertTypeOK, Held
<1>2. CASE RequestStop
  BY <1>0, <1>2, QuietKeeps DEF RequestStop, LoopStop, GateTypeOK, AlertTypeOK, Held
<1>3. CASE WorkerDone
  BY <1>0, <1>3, QuietKeeps DEF WorkerDone, GateTypeOK, AlertTypeOK, Held
<1>4. CASE StopCancels
  <2>1. cancelled' \in BOOLEAN
    BY <1>4, Zenon DEF StopCancels
  <2> QED
    BY <1>0, <1>4, <2>1, QuietKeeps DEF StopCancels, GateTypeOK, AlertTypeOK, Held
<1>5. CASE LoopDone
  BY <1>0, <1>5, QuietKeeps DEF LoopDone, GateTypeOK, AlertTypeOK, Held
<1>6. CASE CtlStop
  BY <1>0, <1>6, QuietKeeps DEF CtlStop, GateTypeOK, AlertTypeOK, Held
<1>7. CASE Joined
  BY <1>0, <1>7, QuietKeeps DEF Joined, GateTypeOK, AlertTypeOK, Held
<1> QED
  BY <1>1, <1>2, <1>3, <1>4, <1>5, <1>6, <1>7

LEMMA ServerKeeps ==
  ASSUME PromptInv, UNCHANGED <<notify, alert>>, CtlThread \/ \E k \in Clients : Client(k)
  PROVE  PromptInv'
<1> USE DEF worker, answer, alert, gate, Callers, Endings
<1>0. GateTypeOK /\ AlertTypeOK /\ Held
  BY DEF PromptInv
<1>1. CASE Quit
  BY <1>0, <1>1, QuietKeeps DEF Quit, LoopStop, GateTypeOK, AlertTypeOK, Held
<1>2. CASE Confirmed
  BY <1>0, <1>2, QuietKeeps DEF Confirmed, GateTypeOK, AlertTypeOK, Held
<1>3. ASSUME UNCHANGED gate PROVE PromptInv'
  BY <1>0, <1>3, QuietKeeps DEF GateTypeOK, AlertTypeOK, Held
<1>4. CASE CheckStop \/ Accept \/ ReadLine \/ CtlDelete
  BY <1>3, <1>4 DEF CheckStop, Accept, ReadLine, CtlDelete
<1>5. CASE \E k \in Clients : Client(k)
  BY <1>3, <1>5 DEF Client, Connect, SendLine
<1> QED
  BY <1>1, <1>2, <1>4, <1>5 DEF CtlThread

LEMMA MenuKeeps ==
  ASSUME PromptInv, UNCHANGED notify, MenuDelete \/ MenuDeleted
  PROVE  PromptInv'
<1> USE DEF worker, answer, gate
<1>0. GateTypeOK /\ AlertTypeOK /\ Held
  BY DEF PromptInv
<1>1. UNCHANGED gate /\ UNCHANGED <<blocks, modals, modal_running, abort_requested>>
  BY DEF MenuDelete, MenuDeleted
<1>2. main' \in {"loop", "menu", "over"}
  BY DEF MenuDelete, MenuDeleted
<1> QED
  BY <1>0, <1>1, <1>2, QuietKeeps DEF GateTypeOK, Held

-----------------------------------------------------------------------------
(* The step relation, grouped by thread.                                   *)

LEMMA AsksKeep ==
  ASSUME PromptInv, NEW c \in Callers, Asks(c)
  PROVE  PromptInv'
  BY StdinAskKeeps, NotifyAskKeeps, AlertAskKeeps DEF Asks

LEMMA NotifyThreadKeeps ==
  ASSUME PromptInv, prompt = "notify", NotifyThread, UNCHANGED alert
  PROVE  PromptInv'
  BY ShowKeeps, ShownKeeps, ShowFailsKeeps, CloseKeeps, ClosedKeeps, StopLoopKeeps,
     DismissedKeeps, ButtonKeeps DEF NotifyThread

LEMMA MainThreadKeeps ==
  ASSUME PromptInv, prompt = "alert", MainThread, UNCHANGED notify
  PROVE  PromptInv'
  BY AlertBlockKeeps, AbortBlockKeeps, FinishKeeps, StopTimerKeeps, MenuKeeps, PressKeeps
     DEF MainThread

LEMMA NextKeeps ==
  ASSUME PromptInv, [Next]_vars
  PROVE  PromptInv'
<1>1. CASE Environment
  <2>1. CASE \E allow \in BOOLEAN : Type(allow) /\ UNCHANGED <<notify, alert, ctl>>
    BY <2>1, TypeKeeps
  <2> QED
    BY <1>1, <2>1, WindingDownKeeps, AsksKeep, ServerKeeps DEF Environment, Callers
<1>2. CASE Asking
  BY <1>2, StdinReadKeeps, StdinLeaveKeeps, WithdrawnKeeps, GiveUpKeeps, NotifyLeaveKeeps,
     AlertLeaveKeeps DEF Asking
<1>3. CASE Control
  BY <1>3, ServerKeeps, AsksKeep DEF Control, Callers
<1>4. CASE Ending
  BY <1>4, WindingDownKeeps DEF Ending
<1>5. CASE prompt = "notify" /\ NotifyThread /\ UNCHANGED <<alert, ctl>>
  BY <1>5, NotifyThreadKeeps
<1>6. CASE prompt = "alert" /\ MainThread /\ UNCHANGED <<notify, ctl>>
  BY <1>6, MainThreadKeeps
<1>7. CASE UNCHANGED vars
  <2>0. GateTypeOK /\ AlertTypeOK /\ Held
    BY DEF PromptInv
  <2> QED
    BY <1>7, <2>0, QuietKeeps
       DEF vars, gate, worker, answer, alert, GateTypeOK, AlertTypeOK, Held
<1> QED
  BY <1>1, <1>2, <1>3, <1>4, <1>5, <1>6, <1>7 DEF Next

LEMMA InitPrompts ==
  Init => PromptInv
<1> SUFFICES ASSUME Init PROVE PromptInv
  OBVIOUS
<1> USE DEF Init, GateInit, NotifyInit, AlertInit, NoLine
<1>1. prompt \in Desktops \cup {"stdin"}
  BY DEF MakeDesktopPresence, MakePresence
<1>2. GateTypeOK
  BY <1>1 DEF GateTypeOK, Decisions, Lines, Endings
<1>3. NotifyTypeOK
  <2>1. idles \in Seq({"show", "close"})
    BY EmptySeq
  <2> QED
    BY <2>1 DEF NotifyTypeOK
<1>4. AlertTypeOK
  <2>1. blocks \in Seq(Blocks) /\ modals \in Seq(Modals)
    BY EmptySeq
  <2> QED
    BY <2>1 DEF AlertTypeOK
<1>5. Held /\ OtherPrompts /\ Turns /\ Owned /\ Asked /\ Answered
  BY DEF Held, OtherPrompts, Turns, Owned, Asked, Answered
<1>6. NotifyPrompt /\ AlertPrompt /\ AllowAnswersOwnPrompt
  BY DEF NotifyPrompt, AlertPrompt, AllowAnswersOwnPrompt
<1> QED
  BY <1>2, <1>3, <1>4, <1>5, <1>6 DEF PromptInv

-----------------------------------------------------------------------------
(* The control server's own variables.                                     *)

(* The threads outside the control server leave what CtlInv is about alone.*)
LEMMA OthersKeepCtl ==
  ASSUME CtlInv, UNCHANGED ctl, holder' = "ctl" => holder = "ctl"
  PROVE  CtlInv'
  BY DEF CtlInv, CtlTypeOK, Served, ctl

LEMMA ReplyKeepsCtl ==
  ASSUME CtlInv, cpc \in {"read", "delete", "ask"}, Reply, holder' # "ctl"
  PROVE  CtlInv'
<1>1. backlog \in Seq(Clients) /\ backlog # <<>>
  BY DEF CtlInv, CtlTypeOK, Served
<1>2. Tail(backlog) \in Seq(Clients)
  BY <1>1, TailFacts
<1> QED
  BY <1>2 DEF CtlInv, CtlTypeOK, Served, Reply

LEMMA ThreadKeepsCtl ==
  ASSUME CtlInv, CtlThread
  PROVE  CtlInv'
<1> USE DEF gate, worker
<1>0. holder = "ctl" => cpc = "ask"
  BY DEF CtlInv, Served
<1>1. CASE CheckStop
  BY <1>0, <1>1 DEF CheckStop, CtlInv, CtlTypeOK, Served
<1>2. CASE Accept
  BY <1>0, <1>2 DEF Accept, CtlInv, CtlTypeOK, Served
<1>3. CASE ReadLine
  <2>1. CASE Reply
    BY <1>0, <1>3, <2>1, ReplyKeepsCtl DEF ReadLine
  <2>2. CASE cpc' \in {"delete", "ask"} /\ UNCHANGED <<backlog, cli>>
    BY <1>0, <1>3, <2>2 DEF ReadLine, CtlInv, CtlTypeOK, Served
  <2> QED
    BY <1>3, <2>1, <2>2 DEF ReadLine
<1>4. CASE Quit
  BY <1>0, <1>4, ReplyKeepsCtl DEF Quit
<1>5. CASE CtlDelete
  BY <1>5, ReplyKeepsCtl DEF CtlDelete
<1>6. CASE Confirmed
  BY <1>0, <1>6, ReplyKeepsCtl DEF Confirmed
<1> QED
  BY <1>1, <1>2, <1>3, <1>4, <1>5, <1>6 DEF CtlThread

LEMMA ClientKeepsCtl ==
  ASSUME CtlInv, NEW k \in Clients, Client(k)
  PROVE  CtlInv'
<1> USE DEF gate, worker
<1>1. /\ Append(backlog, k) \in Seq(Clients) /\ Append(backlog, k) # <<>>
  BY AppendFacts DEF CtlInv, CtlTypeOK
<1>2. CASE Connect(k)
  BY <1>1, <1>2 DEF Connect, Goto, CtlInv, CtlTypeOK, Served
<1>3. CASE SendLine(k)
  BY <1>3 DEF SendLine, Goto, CtlInv, CtlTypeOK, Served
<1> QED
  BY <1>2, <1>3 DEF Client

LEMMA AsksKeepCtl ==
  ASSUME CtlInv, NEW c \in Callers, Asks(c), UNCHANGED ctl, c = "ctl" => cpc = "ask"
  PROVE  CtlInv'
<1>1. holder' = c
  BY DEF Asks, StdinAsk, NotifyAsk, AlertAsk, Ask, NewQuestion
<1> QED
  BY <1>1 DEF CtlInv, CtlTypeOK, Served, ctl

LEMMA CtlNext ==
  ASSUME CtlInv, [Next]_vars
  PROVE  CtlInv'
<1> USE DEF gate, worker
<1>1. CASE Environment
  <2>1. CASE (Cancel \/ RequestStop \/ \E allow \in BOOLEAN : Type(allow))
               /\ UNCHANGED <<notify, alert, ctl>>
    BY <2>1, OthersKeepCtl DEF Cancel, RequestStop, Type
  <2>2. CASE Asks("worker") /\ UNCHANGED ctl
    BY <2>2, AsksKeepCtl DEF Callers
  <2>3. CASE \E k \in Clients : Client(k) /\ UNCHANGED <<notify, alert>>
    BY <2>3, ClientKeepsCtl
  <2> QED
    BY <1>1, <2>1, <2>2, <2>3 DEF Environment
<1>2. CASE Asking
  BY <1>2, OthersKeepCtl
     DEF Asking, StdinRead, StdinLeave, Withdrawn, GiveUp, NotifyLeave, AlertLeave
<1>3. CASE Control
  BY <1>3, ThreadKeepsCtl, AsksKeepCtl DEF Control, Confirm, Callers
<1>4. CASE Ending
  <2>1. CASE Joined
    BY <2>1 DEF Joined, CtlInv, CtlTypeOK, Served
  <2> QED
    BY <1>4, <2>1, OthersKeepCtl DEF Ending, WorkerDone, StopCancels, LoopDone, CtlStop
<1>5. CASE NotifyThread /\ UNCHANGED ctl
  BY <1>5, OthersKeepCtl
     DEF NotifyThread, Show, Shown, ShowFails, Close, Closed, StopLoop, Dismissed, Button
<1>6. CASE MainThread /\ UNCHANGED ctl
  BY <1>6, OthersKeepCtl
     DEF MainThread, AlertBlock, AbortBlock, Finish, StopTimer, MenuDelete, MenuDeleted, Press
<1>7. CASE UNCHANGED vars
  BY <1>7, OthersKeepCtl DEF vars
<1> QED
  BY <1>1, <1>2, <1>3, <1>4, <1>5, <1>6, <1>7 DEF Next

LEMMA CtlInitial ==
  Init => CtlInv
  BY DEF Init, CtlInit, GateInit, CtlInv, CtlTypeOK, Served

-----------------------------------------------------------------------------
(* The theorems.                                                           *)

(* The inductive invariant holds in every reachable state.                 *)
THEOREM DesktopInvariant == Spec => [](PromptInv /\ CtlInv)
<1>1. Init => PromptInv /\ CtlInv
  BY InitPrompts, CtlInitial
<1>2. (PromptInv /\ CtlInv) /\ [Next]_vars => (PromptInv /\ CtlInv)'
  BY NextKeeps, CtlNext
<1> QED
  BY <1>1, <1>2, PTL DEF Spec

(* The variables have their types, for any number of questions and of      *)
(* clients of the control socket.                                          *)
THEOREM DesktopTypeOK == Spec => []TypeOK
<1>1. PromptInv /\ CtlInv => TypeOK
  BY DEF PromptInv, CtlInv, TypeOK
<1> QED
  BY <1>1, DesktopInvariant, PTL

(* An Allow of any of the three prompts was given to the text of its own   *)
(* question, unless an earlier prompt was still to be seen when it was     *)
(* asked or a line was waiting in the terminal (Outcome, Decide and the    *)
(* callbacks).                                                             *)
THEOREM DesktopAllow == Spec => []AllowAnswersOwnPrompt
<1>1. PromptInv => AllowAnswersOwnPrompt
  BY DEF PromptInv
<1> QED
  BY <1>1, DesktopInvariant, PTL

(* However many questions' callbacks wait for a slow notification server,  *)
(* two notifications never exist together, because show_cb and close_cb    *)
(* take turns; and panels nest only when one was left over at the start.   *)
THEOREM DesktopOnePrompt == Spec => []OnePromptAtATime
<1>1. PromptInv => OnePromptAtATime
  <2> SUFFICES ASSUME PromptInv PROVE OnePromptAtATime
    OBVIOUS
  <2>1. Cardinality(screen) <= 1
    <3>1. CASE screen = {}
      BY <3>1, FS_EmptySet
    <3>2. ASSUME NEW n \in screen PROVE Cardinality(screen) <= 1
      <4>1. screen = {n}
        BY <3>2 DEF PromptInv, Owned
      <4> QED
        BY <4>1, FS_Singleton
    <3> QED
      BY <3>1, <3>2
  <2>2. Len(modals) <= 1 \/ late
    <3>1. CASE prompt = "alert"
      BY <3>1 DEF PromptInv, AlertPrompt
    <3>2. CASE prompt # "alert"
      BY <3>2 DEF PromptInv, OtherPrompts
    <3> QED
      BY <3>1, <3>2
  <2> QED
    BY <2>1, <2>2 DEF OnePromptAtATime
<1> QED
  BY <1>1, DesktopInvariant, PTL

(* A confirm() that began with nothing left over, and whose prompt was     *)
(* withdrawn in time, leaves no prompt and no callback that could show one.*)
THEOREM DesktopClean == Spec => []NothingLeftBehind
<1>1. PromptInv => NothingLeftBehind
  <2> SUFFICES ASSUME PromptInv, wpc = "idle", ~late
               PROVE  screen = {} /\ modals = <<>> /\ idles = <<>>
    BY DEF NothingLeftBehind
  <2>1. screen = {} /\ idles = <<>>
    BY DEF PromptInv, OtherPrompts, NotifyPrompt
  <2>2. modals = <<>>
    BY DEF PromptInv, OtherPrompts, AlertPrompt
  <2> QED
    BY <2>1, <2>2
<1> QED
  BY <1>1, DesktopInvariant, PTL
=============================================================================
