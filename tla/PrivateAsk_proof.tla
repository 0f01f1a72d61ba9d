--------------------------- MODULE PrivateAsk_proof ---------------------------
(* For any number of sessions and attempts, any keep, any questions, budgets  *)
(* and rounding, and whatever the local model makes of what it is told: what  *)
(* leaves was gated, and the ledger was debited for it first.                 *)
EXTENDS PrivateAsk, TLAPS

\* Clear, of the question and the context themselves.
ClearOf(a, t) == t.facts \cap (a.message.facts \cup FactsOf(a.context)) = {}

\* The text was gated, with the question and all of the context it came of.
Gated(a, x, m) ==
  \/ m = "abstracted" /\ ClearOf(a, x)
  \/ /\ m = "direct" /\ x = a.message /\ x.spec <= MaxSpecificity
     /\ x.facts \cap FactsOf(a.context) = {}

Pooling == {"off", "load", "route", "abstract"}

\* What holds of a session wherever it is: its pool is of this question, since
\* it is empty until there is a context to gate with, and its text was gated
\* from the moment it was chosen.
SessionIsGated(phase, a, cleared, x, m) ==
  /\ phase \in {"off", "load", "route"} => cleared = {}
  /\ \A t \in cleared : ClearOf(a, t)
  /\ phase \notin Pooling => Gated(a, x, m)

Shape ==
  /\ DOMAIN pc = Sessions /\ pc = [s \in Sessions |-> pc[s]]
  /\ DOMAIN ask = Sessions /\ ask = [s \in Sessions |-> ask[s]]
  /\ DOMAIN pool = Sessions /\ pool = [s \in Sessions |-> pool[s]]
  /\ DOMAIN text = Sessions /\ text = [s \in Sessions |-> text[s]]
  /\ DOMAIN mode = Sessions /\ mode = [s \in Sessions |-> mode[s]]

IInv ==
  /\ Shape
  /\ \A s \in Sessions : SessionIsGated(pc[s], ask[s], pool[s], text[s], mode[s])

\* A step that leaves one session in this state, and the others alone.
Takes(s, phase, a, cleared, x, m) ==
  /\ pc' = [pc EXCEPT ![s] = phase] /\ ask' = [ask EXCEPT ![s] = a]
  /\ pool' = [pool EXCEPT ![s] = cleared] /\ text' = [text EXCEPT ![s] = x]
  /\ mode' = [mode EXCEPT ![s] = m]

-----------------------------------------------------------------------------
LEMMA OneSessionSteps ==
  ASSUME IInv, NEW s \in Sessions, NEW phase, NEW a, NEW cleared, NEW x, NEW m,
         Takes(s, phase, a, cleared, x, m), SessionIsGated(phase, a, cleared, x, m)
  PROVE  IInv'
<1>1. Shape'
  BY DEF IInv, Shape, Takes
<1>2. ASSUME NEW u \in Sessions
      PROVE  SessionIsGated(pc'[u], ask'[u], pool'[u], text'[u], mode'[u])
  <2>1. CASE u = s
    <3>1. pc'[u] = phase /\ ask'[u] = a /\ pool'[u] = cleared /\ text'[u] = x /\ mode'[u] = m
      BY <2>1 DEF IInv, Shape, Takes
    <3>2. QED
      BY <3>1
  <2>2. CASE u # s
    <3>1. /\ pc'[u] = pc[u] /\ ask'[u] = ask[u] /\ pool'[u] = pool[u]
          /\ text'[u] = text[u] /\ mode'[u] = mode[u]
      BY <2>2 DEF IInv, Shape, Takes
    <3>2. QED
      BY <3>1 DEF IInv
  <2>3. QED
    BY <2>1, <2>2
<1>3. QED
  BY <1>1, <1>2 DEF IInv, SessionIsGated, Gated, ClearOf, FactsOf

LEMMA InitIsRight == Init => IInv
  BY DEF Init, IInv, Shape, SessionIsGated, Pooling

LEMMA EndKeeps == ASSUME IInv, NEW s \in Sessions, End(s) PROVE IInv'
<1>1. Takes(s, "off", NoAsk, {}, EmptyText, "none")
  BY DEF End, Go, Takes
<1>2. SessionIsGated("off", NoAsk, {}, EmptyText, "none")
  BY DEF SessionIsGated, Pooling
<1>3. QED
  BY <1>1, <1>2, OneSessionSteps

LEMMA BeginKeeps ==
  ASSUME IInv, NEW s \in Sessions, NEW a, NEW phase \in {"load", "route"}, Begin(s, a, phase)
  PROVE  IInv'
<1>1. Takes(s, phase, a, pool[s], text[s], mode[s])
  BY DEF Begin, Go, Takes, IInv, Shape
<1>2. pool[s] = {}
  BY DEF Begin, IInv, SessionIsGated
<1>3. SessionIsGated(phase, a, pool[s], text[s], mode[s])
  BY <1>2 DEF SessionIsGated, Pooling
<1>4. QED
  BY <1>1, <1>3, OneSessionSteps

\* From one phase to a later one, with nothing chosen, gated or asked.
LEMMA MoveKeeps ==
  ASSUME IInv, NEW s \in Sessions, NEW phase, Go(s, phase), UNCHANGED <<ask, pool, text, mode>>,
         phase \in {"off", "load", "route"} => pool[s] = {},
         phase \notin Pooling => pc[s] \notin Pooling
  PROVE  IInv'
<1>1. Takes(s, phase, ask[s], pool[s], text[s], mode[s])
  BY DEF Go, Takes, IInv, Shape
<1>2. SessionIsGated(pc[s], ask[s], pool[s], text[s], mode[s])
  BY DEF IInv
<1>3. SessionIsGated(phase, ask[s], pool[s], text[s], mode[s])
  BY <1>2 DEF SessionIsGated
<1>4. QED
  BY <1>1, <1>3, OneSessionSteps

LEMMA StartKeeps ==
  ASSUME IInv, NEW s \in Sessions, NEW a, StartCommand(s, a) \/ StartRequest(s, a)
  PROVE  IInv'
<1>1. PICK phase \in {"load", "route"} : Begin(s, a, phase)
  BY DEF StartCommand, StartRequest
<1>2. QED
  BY <1>1, BeginKeeps

LEMMA RouteKeeps ==
  ASSUME IInv, NEW s \in Sessions, Load(s) \/ LoadFails(s) \/ RouteDirect(s) \/ RouteAbstract(s)
  PROVE  IInv'
<1>1. CASE Load(s)
  <2>1. Go(s, "route") /\ UNCHANGED <<ask, pool, text, mode>> /\ pool[s] = {}
    BY <1>1 DEF Load, IInv, SessionIsGated
  <2>2. QED
    BY <2>1, MoveKeeps DEF Pooling
<1>2. CASE LoadFails(s)
  BY <1>2, EndKeeps DEF LoadFails
<1>3. CASE RouteDirect(s)
  <2>1. Takes(s, "send", ask[s], pool[s], ask[s].message, "direct")
    BY <1>3 DEF RouteDirect, Go, Takes, IInv, Shape
  <2>2. Gated(ask[s], ask[s].message, "direct")
    BY <1>3 DEF RouteDirect, Gated
  <2>3. pool[s] = {}
    BY <1>3 DEF RouteDirect, IInv, SessionIsGated
  <2>4. SessionIsGated("send", ask[s], pool[s], ask[s].message, "direct")
    BY <2>2, <2>3 DEF SessionIsGated
  <2>5. QED
    BY <2>1, <2>4, OneSessionSteps
<1>4. CASE RouteAbstract(s)
  <2>1. Go(s, "abstract") /\ UNCHANGED <<ask, pool, text, mode>>
    BY <1>4 DEF RouteAbstract
  <2>2. QED
    BY <2>1, MoveKeeps DEF Pooling
<1>5. QED
  BY <1>1, <1>2, <1>3, <1>4

\* A candidate is gated with the question and the context of its own session,
\* which do not change until the session ends.
LEMMA AttemptKeeps ==
  ASSUME IInv, NEW s \in Sessions, NEW t, AttemptLeaks(s, t) \/ AttemptClears(s, t)
  PROVE  IInv'
<1>1. CASE AttemptLeaks(s, t)
  BY <1>1 DEF AttemptLeaks, IInv, Shape
<1>2. CASE AttemptClears(s, t)
  <2>1. ClearOf(ask[s], t) /\ pc[s] = "abstract" /\ UNCHANGED ask
    BY <1>2 DEF AttemptClears, Clear, Private, ClearOf
  <2>2. \A c \in pool[s] : ClearOf(ask[s], c)
    BY DEF IInv, SessionIsGated
  <2>3. CASE ByDp(s)
    <3> DEFINE cleared == pool[s] \cup ({t} \ {EmptyText})
    <3>1. Takes(s, "abstract", ask[s], cleared, text[s], mode[s])
      BY <1>2, <2>1, <2>3 DEF AttemptClears, Takes, IInv, Shape
    <3>2. SessionIsGated("abstract", ask[s], cleared, text[s], mode[s])
      BY <2>1, <2>2 DEF SessionIsGated, Pooling
    <3>3. QED
      BY <3>1, <3>2, OneSessionSteps
  <2>4. CASE ~ByDp(s)
    <3>1. Takes(s, "send", ask[s], pool[s], t, "abstracted")
      BY <1>2, <2>1, <2>4 DEF AttemptClears, Go, Takes, IInv, Shape
    <3>2. SessionIsGated("send", ask[s], pool[s], t, "abstracted")
      BY <2>1, <2>2 DEF SessionIsGated, Gated
    <3>3. QED
      BY <3>1, <3>2, OneSessionSteps
  <2>5. QED
    BY <2>3, <2>4
<1>3. QED
  BY <1>1, <1>2

LEMMA ChooseKeeps == ASSUME IInv, NEW s \in Sessions, NEW t, Choose(s, t) PROVE IInv'
<1>1. PICK phase \in {"charge", "send"} : Go(s, phase)
  BY DEF Choose
<1>2. Takes(s, phase, ask[s], {}, t, "abstracted")
  BY <1>1 DEF Choose, Go, Takes, IInv, Shape
<1>3. ClearOf(ask[s], t)
  BY DEF Choose, IInv, SessionIsGated
<1>4. SessionIsGated(phase, ask[s], {}, t, "abstracted")
  BY <1>1, <1>3 DEF SessionIsGated, Gated
<1>5. QED
  BY <1>2, <1>4, OneSessionSteps

LEMMA LedgerKeeps ==
  ASSUME IInv, NEW s \in Sessions,
         Charge(s) \/ OverBudget(s) \/ Write(s) \/ Replace(s) \/ ReplaceFails(s)
  PROVE  IInv'
<1>1. CASE Charge(s) \/ Write(s) \/ Replace(s)
  <2>1. PICK phase \in {"write", "replace", "send"} :
          Go(s, phase) /\ UNCHANGED <<ask, pool, text, mode>> /\ pc[s] \notin Pooling
    BY <1>1 DEF Charge, Write, Replace, Pooling
  <2>2. QED
    BY <2>1, MoveKeeps
<1>2. CASE OverBudget(s) \/ ReplaceFails(s)
  BY <1>2, EndKeeps DEF OverBudget, ReplaceFails
<1>3. QED
  BY <1>1, <1>2

LEMMA SendKeeps == ASSUME IInv, NEW s \in Sessions, Send(s) PROVE IInv'
<1>1. Go(s, "sent") /\ UNCHANGED <<ask, pool, text, mode>> /\ pc[s] \notin Pooling
  BY DEF Send, Pooling
<1>2. QED
  BY <1>1, MoveKeeps

LEMMA StepKeeps == IInv /\ [Next]_vars => IInv'
<1>1. SUFFICES ASSUME IInv, [Next]_vars PROVE IInv'
  OBVIOUS
<1>2. ASSUME NEW s \in Sessions, Step(s) PROVE IInv'
  <2>1. CASE \E a \in InUse : StartCommand(s, a) \/ StartRequest(s, a)
    BY <1>1, <2>1, StartKeeps
  <2>2. CASE Load(s) \/ LoadFails(s) \/ RouteDirect(s) \/ RouteAbstract(s)
    BY <1>1, <2>2, RouteKeeps
  <2>3. CASE \E t \in Abstractions : AttemptLeaks(s, t) \/ AttemptClears(s, t) \/ Choose(s, t)
    BY <1>1, <2>3, AttemptKeeps, ChooseKeeps
  <2>4. CASE Charge(s) \/ OverBudget(s) \/ Write(s) \/ Replace(s) \/ ReplaceFails(s)
    BY <1>1, <2>4, LedgerKeeps
  <2>5. CASE Send(s)
    BY <1>1, <2>5, SendKeeps
  <2>6. CASE Refuse(s) \/ Finish(s) \/ Die(s)
    BY <1>1, <2>6, EndKeeps DEF Refuse, Finish, Die
  <2>7. QED
    BY <1>2, <2>1, <2>2, <2>3, <2>4, <2>5, <2>6 DEF Step
<1>3. CASE UNCHANGED vars
  BY <1>1, <1>3 DEF vars, IInv, Shape, SessionIsGated, Gated, ClearOf, FactsOf
<1>4. QED
  BY <1>1, <1>2, <1>3 DEF Next

(* Whatever the local model makes of it, and whoever asks meanwhile, what      *)
(* leaves was gated against all that was read for it (delegate, dp_delegate,   *)
(* route).                                                                     *)
THEOREM Gate == Spec => []NothingKnownLeaves
<1>1. IInv => NothingKnownLeaves
  <2>1. SUFFICES ASSUME IInv, NEW s \in Sessions, Left(s)
                 PROVE  /\ text[s].facts \cap FactsOf(ask[s].context) = {}
                        /\ mode[s] = "abstracted" => Clear(s, text[s])
                        /\ mode[s] = "direct" => text[s].spec <= MaxSpecificity
    BY DEF NothingKnownLeaves
  <2>2. Gated(ask[s], text[s], mode[s])
    BY <2>1 DEF IInv, SessionIsGated, Left, Pooling
  <2>3. QED
    BY <2>2 DEF Gated, ClearOf, Clear, Private
<1>2. QED
  BY <1>1, InitIsRight, StepKeeps, PTL DEF Spec

-----------------------------------------------------------------------------
(* The ledger. A file keeps what an epsilon is to the nearest Grain, so it    *)
(* says at most half a Grain too much or too little for each time it is saved.*)

LEMMA RoundedIsNear ==
  ASSUME NEW e \in Nat
  PROVE  /\ Rounded(e) \in Nat
         /\ 2 * e - Grain <= 2 * Rounded(e) /\ 2 * Rounded(e) <= 2 * e + Grain
<1> DEFINE G == 2 * Grain
           n == 2 * e + Grain
           q == n \div G
<1>1. Grain \in Nat /\ Grain > 0 /\ G \in Nat /\ G > 0 /\ n \in Nat
  BY AmountAssumption
<1>2. q \in Int /\ G * q <= n /\ n < G * (q + 1)
  <2> HIDE DEF G, n
  <2>1. QED
    BY <1>1
<1>3. q \in Nat
  <2> HIDE DEF q
  <2>1. q >= 0
    <3>1. SUFFICES ASSUME q + 1 <= 0 PROVE FALSE
      BY <1>2
    <3>2. G * (q + 1) <= 0
      <4> HIDE DEF G
      <4>1. QED
        BY <1>1, <1>2, <3>1
    <3>3. QED
      BY <1>1, <1>2, <3>2
  <2>2. QED
    BY <1>2, <2>1
<1>4. Rounded(e) = q * Grain
  BY DEF Rounded
<1>5. G * q = 2 * (q * Grain) /\ G * (q + 1) = 2 * (q * Grain) + 2 * Grain /\ q * Grain \in Nat
  <2> HIDE DEF q
  <2>1. QED
    BY <1>1, <1>3
<1>6. QED
  <2> HIDE DEF q
  <2>1. 2 * (q * Grain) <= n /\ n < 2 * (q * Grain) + 2 * Grain
    BY <1>2, <1>5
  <2>2. QED
    BY <1>1, <1>4, <1>5, <2>1

LEMMA SavedIsALedger == ASSUME NEW l \in Ledgers PROVE Saved(l) \in Contents
<1>1. Rounded(l.eps) \in Nat
  BY RoundedIsNear DEF Ledgers
<1>2. [l EXCEPT !.eps = Rounded(l.eps)] \in Ledgers
  BY <1>1 DEF Ledgers
<1>3. QED
  BY <1>2 DEF Saved, Holding, Contents

LEMMA AsksAreWhole ==
  ASSUME NEW a \in Asks \cup {NoAsk}
  PROVE  /\ a.eps \in Nat /\ a.message \in Texts /\ a.ledger \in BOOLEAN
         /\ a.ledger = TRUE => a.budget \in EpsilonBudgets
<1>1. EmptyText \in Texts
  BY DEF EmptyText, Texts
<1>2. CASE a = NoAsk
  BY <1>1, <1>2 DEF NoAsk
<1>3. CASE a \in Commands
  BY <1>3, TextAssumption, AmountAssumption DEF Commands
<1>4. CASE a \in Requests
  BY <1>4, TextAssumption, AmountAssumption DEF Requests
<1>5. QED
  BY <1>2, <1>3, <1>4 DEF Asks

LEMMA InitTypes == Init => TypeOK
<1>1. /\ Fresh \in Ledgers /\ EmptyText \in Texts /\ Absent \in Contents /\ "off" \in Phases
      /\ NoAsk \in Asks \cup {NoAsk}
  BY DEF Fresh, Ledgers, EmptyText, Texts, Contents, Phases
<1>2. SUFFICES ASSUME Init PROVE TypeOK
  OBVIOUS
<1>3. pc \in [Sessions -> Phases] /\ ask \in [Sessions -> Asks \cup {NoAsk}]
  <2>1. pc = [s \in Sessions |-> "off"] /\ ask = [s \in Sessions |-> NoAsk]
    BY <1>2 DEF Init
  <2>2. QED
    BY <1>1, <2>1
<1>4. account \in [Sessions -> Ledgers] /\ base \in [Sessions -> Contents] /\ text \in [Sessions -> Texts]
  BY <1>1, <1>2 DEF Init
<1>5. QED
  BY <1>1, <1>2, <1>3, <1>4 DEF Init, TypeOK

LEMMA EndTypes == ASSUME TypeOK, NEW s \in Sessions, End(s) PROVE TypeOK'
<1>1. Fresh \in Ledgers /\ EmptyText \in Texts /\ Absent \in Contents /\ "off" \in Phases
  BY DEF Fresh, Ledgers, EmptyText, Texts, Contents, Phases
<1>2. QED
  BY <1>1 DEF files, ghosts, TypeOK, End, Go

LEMMA StepTypes == TypeOK /\ [Next]_vars => TypeOK'
<1>1. SUFFICES ASSUME TypeOK, [Next]_vars PROVE TypeOK'
  OBVIOUS
<1>2. ASSUME NEW s \in Sessions, Step(s) PROVE TypeOK'
  <2>1. ASSUME NEW a \in InUse, StartCommand(s, a) \/ StartRequest(s, a) PROVE TypeOK'
    <3>1. PICK phase \in {"load", "route"} : Begin(s, a, phase)
      BY <2>1 DEF StartCommand, StartRequest
    <3>2. QED
      BY <1>1, <3>1, AskAssumption DEF files, ghosts, Begin, Go, TypeOK, Phases
  <2>2. CASE Load(s)
    <3>1. Booked \in Ledgers
      BY <1>1, <2>2 DEF Load, Booked, TypeOK, Contents, Ledgers, Fresh, Absent, Empty, Torn
    <3>2. QED
      BY <1>1, <2>2, <3>1 DEF files, ghosts, Load, Go, TypeOK, Phases
  <2>3. CASE RouteDirect(s)
    <3>1. ask[s].message \in Texts
      BY <1>1, AsksAreWhole DEF TypeOK
    <3>2. QED
      BY <1>1, <2>3, <3>1 DEF files, ghosts, RouteDirect, Go, TypeOK, Phases
  <2>4. CASE RouteAbstract(s)
    BY <1>1, <2>4 DEF files, ghosts, RouteAbstract, Go, TypeOK, Phases
  <2>5. ASSUME NEW t \in Abstractions, AttemptLeaks(s, t) \/ AttemptClears(s, t) \/ Choose(s, t)
        PROVE  TypeOK'
    <3>1. t \in Texts
      BY TextAssumption
    <3>2. CASE AttemptLeaks(s, t)
      BY <1>1, <3>2 DEF files, ghosts, AttemptLeaks, TypeOK
    <3>3. CASE AttemptClears(s, t)
      BY <1>1, <3>1, <3>3 DEF files, ghosts, AttemptClears, Go, TypeOK, Phases
    <3>4. CASE Choose(s, t)
      BY <1>1, <3>1, <3>4 DEF files, ghosts, Choose, Go, TypeOK, Phases
    <3>5. QED
      BY <2>5, <3>2, <3>3, <3>4
  <2>6. CASE Charge(s)
    <3>1. Spent(s) \in Ledgers
      <4>1. ask[s].eps \in Nat
        BY <1>1, AsksAreWhole DEF TypeOK
      <4>2. account[s] \in Ledgers /\ text[s] \in Texts
        BY <1>1 DEF TypeOK
      <4>3. QED
        BY <4>1, <4>2 DEF Spent, Ledgers, Texts
    <3>2. Empty \in Contents
      BY DEF Contents
    <3>3. QED
      BY <1>1, <2>6, <3>1, <3>2 DEF files, ghosts, Charge, Go, TypeOK, Phases
  <2>7. CASE Write(s)
    <3>1. Flushed(tmpFile, account[s]) \subseteq Contents /\ Flushed(ledgerFile, account[s]) \subseteq Contents
      BY <1>1, SavedIsALedger DEF TypeOK, Flushed, Contents
    <3>2. ledgerFile' \in Contents /\ tmpFile' \in Contents
      BY <1>1, <2>7, <3>1 DEF Write, files, TypeOK
    <3>3. QED
      BY <1>1, <2>7, <3>2 DEF Write, Go, files, ghosts, TypeOK, Phases
  <2>8. CASE Replace(s)
    <3>1. Absent \in Contents
      BY DEF Contents
    <3>2. handle' \in [Sessions -> {"none", "tmp", "ledger", "gone"}]
      BY <1>1, <2>8 DEF Replace, TypeOK, Moved
    <3>3. QED
      BY <1>1, <2>8, <3>1, <3>2 DEF files, ghosts, Replace, Go, TypeOK, Phases
  <2>9. CASE Send(s)
    <3>1. ask[s].eps \in Nat
      BY <1>1, AsksAreWhole DEF TypeOK
    <3>2. text[s] \in Texts
      BY <1>1 DEF TypeOK
    <3>3. paid' \in Ledgers
      BY <1>1, <2>9, <3>1, <3>2 DEF Send, TypeOK, Ledgers, Texts
    <3>4. QED
      BY <1>1, <2>9, <3>3 DEF files, ghosts, Send, Go, TypeOK, Phases
  <2>10. CASE LoadFails(s) \/ Refuse(s) \/ OverBudget(s) \/ ReplaceFails(s) \/ Finish(s) \/ Die(s)
    BY <1>1, <2>10, EndTypes DEF LoadFails, Refuse, OverBudget, ReplaceFails, Finish, Die
  <2>11. QED
    BY <1>2, <2>1, <2>2, <2>3, <2>4, <2>5, <2>6, <2>7, <2>8, <2>9, <2>10 DEF Step
<1>3. CASE UNCHANGED vars
  BY <1>1, <1>3 DEF vars, files, ghosts, TypeOK
<1>4. QED
  BY <1>1, <1>2, <1>3 DEF Next

(* The variables keep their types, for any amounts and any number of sessions *)
(* (frontier_private.py, dp.py).                                              *)
THEOREM TypeCorrect == Spec => []TypeOK
  BY InitTypes, StepTypes, PTL DEF Spec

-----------------------------------------------------------------------------
\* What PrivacyLedger.load makes of a file that it can read.
Value(f) == IF f.is = "ledger" THEN f.ledger ELSE Fresh
Readable(f) == f.is \in {"absent", "ledger"}

Saving == {"write", "replace"}

\* The account is what the file said, and what the question costs on top of it.
Debited(l, b, a, x) ==
  /\ Readable(b)
  /\ l = [eps |-> Value(b).eps + a.eps, spec |-> Value(b).spec + x.spec,
          sends |-> Value(b).sends + 1]
  /\ l.eps <= a.budget /\ l.spec <= SpecificityBudget

\* What holds of a session in the ledger, whoever else is in it: its account is
\* what it loaded until it is charged, and only while it writes has it a file.
SessionBooks(phase, a, cleared, x, m, l, h, b) ==
  /\ phase \in {"charge"} \cup Saving => a.ledger = TRUE /\ a.eps > 0 /\ m = "abstracted"
  /\ cleared # {} => phase = "abstract" /\ a.eps > 0
  /\ (a.ledger = TRUE /\ phase \in {"route", "abstract", "charge"}) => (Readable(b) /\ l = Value(b))
  /\ phase \in Saving => Debited(l, b, a, x)
  /\ h # "none" => phase = "write"

Books(s) == SessionBooks(pc[s], ask[s], pool[s], text[s], mode[s], account[s], handle[s], base[s])

\* While no two were in it at once: one session saves, and what is in the files
\* is its own.
OneSaves ==
  /\ \A s, t \in Sessions : pc[s] \in Saving /\ pc[t] \in Saving => s = t
  /\ \A s \in Sessions : pc[s] = "write" => handle[s] = "tmp" /\ tmpFile = Empty
  /\ \A s \in Sessions : pc[s] = "replace" => tmpFile = Saved(account[s])
  /\ Readable(ledgerFile)

WithinBudget ==
  Booked.sends > 0 => \E b \in EpsilonBudgets : 2 * Booked.eps <= 2 * b + Grain

\* Debited for a text that is still to leave.
Owes(s) == pc[s] = "send" /\ ask[s].ledger = TRUE /\ ask[s].eps > 0 /\ mode[s] = "abstracted"
OwedEps == [s \in Sessions |-> IF Owes(s) THEN ask[s].eps ELSE 0]
OwedSpec == [s \in Sessions |-> IF Owes(s) THEN text[s].spec ELSE 0]
OwedSends == [s \in Sessions |-> IF Owes(s) THEN 1 ELSE 0]

\* The sum of what is due, t: the value at the end of a tally that begins at
\* nothing and counts every session once, in whichever order.
Totals(due, t) ==
  \E tally \in [SUBSET Sessions -> Nat] :
    /\ tally[{}] = 0 /\ tally[Sessions] = t
    /\ \A S \in SUBSET Sessions : \A u \in Sessions \ S : tally[S \cup {u}] = tally[S] + due[u]

\* What left and what is about to cost no more than the ledger says.
Covered ==
  \E e, p, n \in Nat :
    /\ Totals(OwedEps, e) /\ Totals(OwedSpec, p) /\ Totals(OwedSends, n)
    /\ 2 * (paid.eps + e) <= 2 * Booked.eps + Grain * Booked.sends
    /\ paid.spec + p <= Booked.spec
    /\ paid.sends + n <= Booked.sends

LInv ==
  /\ \A s \in Sessions : Books(s)
  /\ ~raced => OneSaves /\ WithinBudget /\ Covered

LEMMA TotalChanges ==
  ASSUME NEW due \in [Sessions -> Nat], NEW t, Totals(due, t), NEW s \in Sessions, NEW v \in Nat
  PROVE  t \in Nat /\ due[s] <= t /\ Totals([due EXCEPT ![s] = v], t - due[s] + v)
<1>1. PICK tally \in [SUBSET Sessions -> Nat] :
        /\ tally[{}] = 0 /\ tally[Sessions] = t
        /\ \A S \in SUBSET Sessions : \A u \in Sessions \ S : tally[S \cup {u}] = tally[S] + due[u]
  BY DEF Totals
<1>2. ASSUME NEW S \in SUBSET Sessions, s \in S
      PROVE  tally[S] \in Nat /\ tally[S \ {s}] \in Nat /\ tally[S] = tally[S \ {s}] + due[s]
  <2>1. S \ {s} \in SUBSET Sessions /\ s \notin S \ {s} /\ (S \ {s}) \cup {s} = S
    BY <1>2
  <2>2. tally[(S \ {s}) \cup {s}] = tally[S \ {s}] + due[s]
    BY <1>1, <2>1
  <2>3. QED
    BY <1>1, <2>1, <2>2
<1> DEFINE new == [S \in SUBSET Sessions |-> IF s \in S THEN tally[S] - due[s] + v ELSE tally[S]]
           now == [due EXCEPT ![s] = v]
<1>3. new \in [SUBSET Sessions -> Nat]
  <2>1. ASSUME NEW S \in SUBSET Sessions PROVE new[S] \in Nat
    <3>1. due[s] \in Nat /\ tally[S] \in Nat
      BY <1>1
    <3>2. CASE s \in S
      <4>1. tally[S \ {s}] \in Nat /\ tally[S] = tally[S \ {s}] + due[s]
        BY <1>2, <3>2
      <4>2. new[S] = tally[S] - due[s] + v
        BY <3>2
      <4>3. QED
        <5> HIDE DEF new
        <5>1. QED
          BY <3>1, <4>1, <4>2
    <3>3. CASE s \notin S
      BY <3>1, <3>3
    <3>4. QED
      BY <3>2, <3>3
  <2>2. QED
    BY <2>1
<1>4. {} \in SUBSET Sessions /\ Sessions \in SUBSET Sessions
  OBVIOUS
<1>5. new[{}] = 0 /\ new[Sessions] = t - due[s] + v
  BY <1>1, <1>4
<1>6. ASSUME NEW S \in SUBSET Sessions, NEW u \in Sessions \ S
      PROVE  new[S \cup {u}] = new[S] + now[u]
  <2>1. S \cup {u} \in SUBSET Sessions /\ tally[S \cup {u}] = tally[S] + due[u]
    BY <1>1, <1>6
  <2>2. tally[S] \in Nat /\ due[u] \in Nat /\ due[s] \in Nat /\ now[u] = IF u = s THEN v ELSE due[u]
    BY <1>6
  <2>3. CASE u = s
    <3>1. new[S \cup {u}] = tally[S \cup {u}] - due[s] + v /\ new[S] = tally[S]
      BY <1>6, <2>1, <2>3
    <3>2. QED
      <4> HIDE DEF new, now
      <4>1. QED
        BY <2>1, <2>2, <2>3, <3>1
  <2>4. CASE u # s /\ s \in S
    <3>1. new[S \cup {u}] = tally[S \cup {u}] - due[s] + v /\ new[S] = tally[S] - due[s] + v
      BY <1>6, <2>1, <2>4
    <3>2. QED
      <4> HIDE DEF new, now
      <4>1. QED
        BY <2>1, <2>2, <2>4, <3>1
  <2>5. CASE u # s /\ s \notin S
    <3>1. new[S \cup {u}] = tally[S \cup {u}] /\ new[S] = tally[S]
      BY <1>6, <2>1, <2>5
    <3>2. QED
      <4> HIDE DEF new, now
      <4>1. QED
        BY <2>1, <2>2, <2>5, <3>1
  <2>6. QED
    BY <2>3, <2>4, <2>5
<1>7. Totals(now, t - due[s] + v)
  <2> HIDE DEF new, now
  <2>1. QED
    BY <1>3, <1>5, <1>6 DEF Totals
<1>8. tally[Sessions \ {s}] \in Nat /\ tally[Sessions] = tally[Sessions \ {s}] + due[s] /\ due[s] \in Nat
  BY <1>2, <1>4
<1>9. t \in Nat /\ due[s] <= t
  <2> HIDE DEF new, now
  <2>1. QED
    BY <1>1, <1>8
<1>10. QED
  BY <1>7, <1>9

\* A step that leaves all sessions but one where they were; a descriptor that
\* they have may follow its file.
Others(s) ==
  \A u \in Sessions \ {s} :
    /\ pc'[u] = pc[u] /\ ask'[u] = ask[u] /\ pool'[u] = pool[u] /\ text'[u] = text[u]
    /\ mode'[u] = mode[u] /\ account'[u] = account[u] /\ base'[u] = base[u]
    /\ handle[u] = "none" => handle'[u] = "none"

LEMMA OthersStay == ASSUME TypeOK, NEW s \in Sessions, Step(s) PROVE Others(s)
<1>1. CASE End(s)
  <2>1. /\ pc' = [pc EXCEPT ![s] = "off"] /\ ask' = [ask EXCEPT ![s] = NoAsk]
        /\ pool' = [pool EXCEPT ![s] = {}] /\ text' = [text EXCEPT ![s] = EmptyText]
        /\ mode' = [mode EXCEPT ![s] = "none"] /\ account' = [account EXCEPT ![s] = Fresh]
        /\ handle' = [handle EXCEPT ![s] = "none"] /\ base' = [base EXCEPT ![s] = Absent]
    BY <1>1 DEF End, Go
  <2>2. QED
    BY <2>1 DEF Others, TypeOK
<1>2. ASSUME NEW a, StartCommand(s, a) \/ StartRequest(s, a) PROVE Others(s)
  <2>1. PICK phase : Begin(s, a, phase)
    BY <1>2 DEF StartCommand, StartRequest
  <2>2. QED
    BY <2>1 DEF Begin, Go, Others, TypeOK, files, ghosts
<1>3. CASE Load(s)
  BY <1>3 DEF Load, Go, Others, TypeOK, files
<1>4. CASE RouteDirect(s) \/ RouteAbstract(s)
  BY <1>4 DEF RouteDirect, RouteAbstract, Go, Others, TypeOK, files, ghosts
<1>5. ASSUME NEW t, AttemptLeaks(s, t) \/ Choose(s, t) PROVE Others(s)
  BY <1>5 DEF AttemptLeaks, Choose, Go, Others, TypeOK, files, ghosts
<1>6. ASSUME NEW t, AttemptClears(s, t) PROVE Others(s)
  BY <1>6 DEF AttemptClears, Go, Others, TypeOK, files, ghosts
<1>7. CASE Charge(s)
  BY <1>7 DEF Charge, Go, Others, TypeOK
<1>8. CASE Write(s)
  BY <1>8 DEF Write, Go, Others, TypeOK, ghosts
<1>9. CASE Replace(s)
  BY <1>9 DEF Replace, Go, Others, TypeOK, Moved
<1>10. CASE Send(s)
  BY <1>10 DEF Send, Go, Others, TypeOK, files
<1>11. QED
  BY <1>1, <1>2, <1>3, <1>4, <1>5, <1>6, <1>7, <1>8, <1>9, <1>10
     DEF Step, LoadFails, Refuse, OverBudget, ReplaceFails, Finish, Die

\* It is enough to look at the session that takes the step.
LEMMA OthersBooks ==
  ASSUME \A u \in Sessions : Books(u), NEW s \in Sessions, Others(s), Books(s)'
  PROVE  \A u \in Sessions : Books(u)'
<1>1. ASSUME NEW u \in Sessions \ {s} PROVE Books(u)'
  <2>1. Books(u)
    BY <1>1
  <2>2. QED
    BY <1>1, <2>1 DEF Others, Books, SessionBooks, Saving, Readable, Value, Debited
<1>2. QED
  BY <1>1

LEMMA ChargedIsDebited ==
  ASSUME TypeOK, NEW s \in Sessions, Books(s), Charge(s)
  PROVE  Debited(account'[s], base[s], ask[s], text[s])
<1>1. CASE ask[s].ledger = TRUE
  <2>1. Readable(base[s]) /\ account[s] = Value(base[s])
    BY <1>1 DEF Charge, Books, SessionBooks
  <2>2. account'[s] = Spent(s)
    BY DEF Charge, TypeOK
  <2>3. QED
    BY <2>1, <2>2 DEF Charge, InBudget, Spent, Debited
<1>2. QED
  BY <1>1 DEF Charge, Books, SessionBooks

LEMMA AsksBook ==
  ASSUME TypeOK, NEW s \in Sessions, Books(s), NEW a \in InUse,
         StartCommand(s, a) \/ StartRequest(s, a)
  PROVE  Books(s)'
<1>1. PICK phase : Begin(s, a, phase) /\ (phase = "load" \/ (phase = "route" /\ ~(a.ledger = TRUE)))
  <2>1. CASE StartCommand(s, a)
    <3>1. a.ledger \in BOOLEAN
      BY AskAssumption, AsksAreWhole
    <3>2. CASE a.ledger = TRUE
      <4>1. Begin(s, a, "load")
        BY <2>1, <3>2 DEF StartCommand
      <4>2. QED
        BY <4>1
    <3>3. CASE a.ledger = FALSE
      <4>1. Begin(s, a, "route")
        BY <2>1, <3>3 DEF StartCommand
      <4>2. QED
        BY <3>3, <4>1
    <3>4. QED
      BY <3>1, <3>2, <3>3
  <2>2. CASE StartRequest(s, a)
    BY <2>2 DEF StartRequest, Requests
  <2>3. QED
    BY <2>1, <2>2
<1>2. /\ pc'[s] = phase /\ ask'[s] = a /\ pool'[s] = {} /\ handle'[s] = "none"
  BY <1>1 DEF Begin, Go, TypeOK, Books, SessionBooks
<1>3. QED
  BY <1>1, <1>2 DEF Books, SessionBooks, Saving

LEMMA StepBooks ==
  ASSUME TypeOK, NEW s \in Sessions, Books(s), Step(s)
  PROVE  Books(s)'
<1>1. CASE End(s)
  <2>1. pc'[s] = "off" /\ pool'[s] = {} /\ handle'[s] = "none"
    BY <1>1 DEF End, Go, TypeOK
  <2>2. QED
    BY <2>1 DEF Books, SessionBooks, Saving
<1>2. CASE \E a \in InUse : StartCommand(s, a) \/ StartRequest(s, a)
  BY <1>2, AsksBook
<1>3. CASE Load(s)
  <2>1. /\ pc[s] = "load" /\ pc'[s] = "route" /\ base'[s] = ledgerFile /\ account'[s] = Booked
        /\ UNCHANGED <<ask, pool, handle>> /\ Readable(ledgerFile)
    BY <1>3 DEF Load, Go, TypeOK, Readable
  <2>2. QED
    BY <2>1 DEF Books, SessionBooks, Saving, Booked, Value, Readable
<1>4. CASE RouteDirect(s) \/ RouteAbstract(s)
  <2>1. /\ pc[s] = "route" /\ pc'[s] \in {"send", "abstract"}
        /\ UNCHANGED <<ask, pool, handle, account, base>>
    BY <1>4 DEF RouteDirect, RouteAbstract, Go, TypeOK, ghosts
  <2>2. QED
    BY <2>1 DEF Books, SessionBooks, Saving, Value, Readable
<1>5. ASSUME NEW t \in Abstractions, AttemptLeaks(s, t) PROVE Books(s)'
  BY <1>5 DEF AttemptLeaks, Books, SessionBooks, Saving, Value, Readable, ghosts
<1>6. ASSUME NEW t \in Abstractions, AttemptClears(s, t) PROVE Books(s)'
  <2>1. pc[s] = "abstract" /\ UNCHANGED <<ask, handle, account, base>>
    BY <1>6 DEF AttemptClears, ghosts
  <2>2. CASE ByDp(s)
    <3>1. pc' = pc /\ ask[s].eps > 0
      BY <1>6, <2>2 DEF AttemptClears, ByDp
    <3>2. QED
      BY <2>1, <3>1 DEF Books, SessionBooks, Saving, Value, Readable
  <2>3. CASE ~ByDp(s)
    <3>1. pc'[s] = "send" /\ pool' = pool /\ pool[s] = {}
      <4>1. pool' = pool /\ Go(s, "send")
        BY <1>6, <2>3 DEF AttemptClears
      <4>2. pool[s] = {}
        BY <2>3 DEF ByDp, Books, SessionBooks
      <4>3. QED
        BY <4>1, <4>2 DEF Go, TypeOK
    <3>2. QED
      BY <2>1, <3>1 DEF Books, SessionBooks, Saving
  <2>4. QED
    BY <2>2, <2>3
<1>7. ASSUME NEW t \in Abstractions, Choose(s, t) PROVE Books(s)'
  <2>1. /\ pc[s] = "abstract" /\ pool[s] # {} /\ pool'[s] = {} /\ mode'[s] = "abstracted"
        /\ UNCHANGED <<ask, handle, account, base>>
        /\ pc'[s] = "send" \/ (pc'[s] = "charge" /\ ask[s].ledger = TRUE)
    <3>1. ask[s].ledger \in BOOLEAN
      BY AsksAreWhole DEF TypeOK
    <3>2. QED
      BY <1>7, <3>1 DEF Choose, Go, TypeOK, ghosts
  <2>2. QED
    BY <2>1 DEF Books, SessionBooks, Saving, Value, Readable
<1>8. CASE Charge(s)
  <2>1. /\ pc[s] = "charge" /\ pc'[s] = "write" /\ UNCHANGED <<ask, pool, text, mode, base>>
    BY <1>8 DEF Charge, Go, TypeOK
  <2>2. Debited(account'[s], base[s], ask[s], text[s])
    BY <1>8, ChargedIsDebited
  <2>3. QED
    BY <2>1, <2>2 DEF Books, SessionBooks, Saving, Value, Readable, Debited
<1>9. CASE Write(s)
  <2>1. /\ pc[s] = "write" /\ pc'[s] = "replace" /\ handle'[s] = "none"
        /\ UNCHANGED <<ask, pool, text, mode, base, account>>
    BY <1>9 DEF Write, Go, TypeOK, ghosts
  <2>2. QED
    BY <2>1 DEF Books, SessionBooks, Saving, Value, Readable, Debited
<1>10. CASE Replace(s)
  <2>1. pc[s] = "replace" /\ pc'[s] = "send" /\ handle'[s] = "none" /\ UNCHANGED <<ask, pool>>
    BY <1>10 DEF Replace, Go, TypeOK, Books, SessionBooks, Moved
  <2>2. QED
    BY <2>1 DEF Books, SessionBooks, Saving
<1>11. CASE Send(s)
  <2>1. pc[s] = "send" /\ pc'[s] = "sent" /\ UNCHANGED <<ask, pool, handle>>
    BY <1>11 DEF Send, Go, TypeOK
  <2>2. QED
    BY <2>1 DEF Books, SessionBooks, Saving
<1>12. QED
  BY <1>1, <1>2, <1>3, <1>4, <1>5, <1>6, <1>7, <1>8, <1>9, <1>10, <1>11
     DEF Step, LoadFails, Refuse, OverBudget, ReplaceFails, Finish, Die

\* A step of a session that neither begins nor goes on saving.
LEMMA QuietSaves ==
  ASSUME OneSaves, NEW s \in Sessions, Others(s), pc'[s] \notin Saving, UNCHANGED <<ledgerFile, tmpFile>>,
         \A u \in Sessions \ {s} : handle'[u] = handle[u]
  PROVE  OneSaves'
<1>1. \A u, v \in Sessions : pc'[u] \in Saving /\ pc'[v] \in Saving => u = v
  BY DEF OneSaves, Others
<1>2. \A u \in Sessions : pc'[u] = "write" => handle'[u] = "tmp" /\ tmpFile' = Empty
  BY DEF OneSaves, Others, Saving
<1>3. \A u \in Sessions : pc'[u] = "replace" => tmpFile' = Saved(account'[u])
  BY DEF OneSaves, Others, Saving
<1>4. QED
  BY <1>1, <1>2, <1>3 DEF OneSaves, Readable, Saving, Saved, Holding, Rounded, Empty

\* What the steps do that neither charge nor save: no file changes.
LEMMA OtherSteps ==
  ASSUME TypeOK, \A u \in Sessions : Books(u), NEW s \in Sessions, Step(s)
  PROVE  \/ Charge(s) \/ Write(s) \/ Replace(s)
         \/ /\ pc'[s] \notin Saving /\ UNCHANGED <<ledgerFile, tmpFile, raced>>
            /\ \A u \in Sessions \ {s} : handle'[u] = handle[u]
<1>1. CASE End(s)
  BY <1>1 DEF End, Go, Saving, files, TypeOK
<1>2. ASSUME NEW a \in InUse, StartCommand(s, a) \/ StartRequest(s, a)
      PROVE  pc'[s] \notin Saving /\ UNCHANGED <<ledgerFile, tmpFile, raced, handle>>
  <2>1. PICK phase \in {"load", "route"} : Begin(s, a, phase)
    BY <1>2 DEF StartCommand, StartRequest
  <2>2. QED
    BY <2>1 DEF Begin, Go, Saving, files, ghosts, TypeOK
<1>3. CASE Load(s) \/ RouteDirect(s) \/ RouteAbstract(s) \/ Send(s)
  BY <1>3 DEF Load, RouteDirect, RouteAbstract, Send, Go, Saving, files, ghosts, TypeOK
<1>4. ASSUME NEW t, AttemptLeaks(s, t) \/ AttemptClears(s, t) \/ Choose(s, t)
      PROVE  pc'[s] \notin Saving /\ UNCHANGED <<ledgerFile, tmpFile, raced, handle>>
  BY <1>4 DEF AttemptLeaks, AttemptClears, Choose, Go, Saving, files, ghosts, TypeOK
<1>5. QED
  BY <1>1, <1>2, <1>3, <1>4
     DEF Step, LoadFails, Refuse, OverBudget, ReplaceFails, Finish, Die

LEMMA StepSaves ==
  ASSUME TypeOK, \A u \in Sessions : Books(u), ~raced => OneSaves, NEW s \in Sessions, Step(s), ~raced'
  PROVE  OneSaves' /\ (ledgerFile' = ledgerFile \/ Replace(s)) /\ ~raced
<1>1. Others(s)
  BY OthersStay
<1>2. ~raced
  BY OtherSteps DEF Charge, Write, Replace, ghosts
<1>3. OneSaves
  BY <1>2
<1>4. CASE Charge(s)
  <2>1. \A u \in Sessions \ {s} : pc'[u] = pc[u] /\ pc[u] \notin Saving
    BY <1>1, <1>4 DEF Charge, Others, Saving
  <2>2. pc'[s] = "write" /\ handle'[s] = "tmp" /\ tmpFile' = Empty /\ ledgerFile' = ledgerFile
    BY <1>4 DEF Charge, Go, TypeOK
  <2>3. QED
    BY <1>2, <1>3, <2>1, <2>2 DEF OneSaves, Readable, Saving
<1>5. CASE Write(s)
  <2>1. pc[s] = "write" /\ pc'[s] = "replace" /\ account' = account
    BY <1>5 DEF Write, Go, TypeOK
  <2>2. handle[s] = "tmp" /\ tmpFile = Empty
    BY <1>3, <2>1 DEF OneSaves
  <2>3. tmpFile' = Saved(account[s]) /\ ledgerFile' = ledgerFile
    BY <1>5, <2>2 DEF Write, Flushed
  <2>4. \A u \in Sessions \ {s} : pc'[u] = pc[u] /\ pc[u] \notin Saving
    BY <1>1, <1>3, <2>1 DEF Others, OneSaves, Saving
  <2>5. QED
    BY <1>2, <1>3, <2>1, <2>3, <2>4 DEF OneSaves, Readable, Saving
<1>6. CASE Replace(s)
  <2>1. pc[s] = "replace" /\ pc'[s] = "send" /\ ledgerFile' = tmpFile
    BY <1>6 DEF Replace, Go, TypeOK
  <2>2. Readable(ledgerFile')
    BY <1>3, <2>1 DEF OneSaves, Readable, Saved, Holding
  <2>3. \A u \in Sessions : pc'[u] \notin Saving
    BY <1>1, <1>3, <2>1 DEF Others, OneSaves, Saving
  <2>4. QED
    BY <1>2, <1>6, <2>2, <2>3 DEF OneSaves, Readable, Saving
<1>7. CASE /\ pc'[s] \notin Saving /\ UNCHANGED <<ledgerFile, tmpFile, raced>>
           /\ \A u \in Sessions \ {s} : handle'[u] = handle[u]
  BY <1>1, <1>2, <1>3, <1>7, QuietSaves
<1>8. QED
  BY <1>4, <1>5, <1>6, <1>7, OtherSteps

\* What a save that nobody raced adds to the ledger.
LEMMA ReplaceDebits ==
  ASSUME TypeOK, NEW s \in Sessions, Books(s), OneSaves, Replace(s), ~raced'
  PROVE  /\ ask[s].ledger = TRUE /\ ask[s].eps > 0 /\ mode[s] = "abstracted"
         /\ Booked'.eps = Rounded(Booked.eps + ask[s].eps)
         /\ Booked.eps + ask[s].eps <= ask[s].budget
         /\ Booked'.spec = Booked.spec + text[s].spec /\ Booked'.spec <= SpecificityBudget
         /\ Booked'.sends = Booked.sends + 1
<1>1. pc[s] = "replace" /\ base[s] = ledgerFile /\ ledgerFile' = tmpFile
  BY DEF Replace
<1>2. ask[s].ledger = TRUE /\ ask[s].eps > 0 /\ mode[s] = "abstracted"
  BY <1>1 DEF Books, SessionBooks, Saving
<1>3. Debited(account[s], ledgerFile, ask[s], text[s]) /\ Booked = Value(ledgerFile)
  BY <1>1 DEF Books, SessionBooks, Saving, Booked, Value
<1>4. PICK l : l = account[s] /\ l \in Ledgers
  BY DEF TypeOK
<1>5. ledgerFile' = Saved(l)
  BY <1>1, <1>4 DEF OneSaves
<1>6. Booked' = [l EXCEPT !.eps = Rounded(l.eps)]
  BY <1>5 DEF Booked, Saved, Holding
<1>7. Booked'.eps = Rounded(l.eps) /\ Booked'.spec = l.spec /\ Booked'.sends = l.sends
  BY <1>4, <1>6 DEF Ledgers
<1>8. /\ l.eps = Booked.eps + ask[s].eps /\ l.spec = Booked.spec + text[s].spec
      /\ l.sends = Booked.sends + 1 /\ l.eps <= ask[s].budget /\ l.spec <= SpecificityBudget
  BY <1>3, <1>4 DEF Debited
<1>9. QED
  BY <1>2, <1>7, <1>8

-----------------------------------------------------------------------------
\* What one session owes changes the totals, and nothing else does.
LEMMA OwedChanges ==
  ASSUME TypeOK, TypeOK', NEW s \in Sessions, Others(s), ~Owes(s)' \/ UNCHANGED <<ask, text>>
  PROVE  /\ OwedEps \in [Sessions -> Nat] /\ OwedSpec \in [Sessions -> Nat] /\ OwedSends \in [Sessions -> Nat]
         /\ OwedEps' = [OwedEps EXCEPT ![s] = IF Owes(s)' THEN ask[s].eps ELSE 0]
         /\ OwedSpec' = [OwedSpec EXCEPT ![s] = IF Owes(s)' THEN text[s].spec ELSE 0]
         /\ OwedSends' = [OwedSends EXCEPT ![s] = IF Owes(s)' THEN 1 ELSE 0]
<1>1. \A u \in Sessions : ask[u].eps \in Nat /\ text[u].spec \in Nat
  BY AsksAreWhole DEF TypeOK, Texts
<1>2. \A u \in Sessions \ {s} : (Owes(u)' <=> Owes(u)) /\ ask'[u] = ask[u] /\ text'[u] = text[u]
  BY DEF Others, Owes
<1>3. OwedEps \in [Sessions -> Nat] /\ OwedSpec \in [Sessions -> Nat] /\ OwedSends \in [Sessions -> Nat]
  BY <1>1 DEF OwedEps, OwedSpec, OwedSends
<1>4. OwedEps' = [OwedEps EXCEPT ![s] = IF Owes(s)' THEN ask[s].eps ELSE 0]
  BY <1>2 DEF OwedEps
<1>5. OwedSpec' = [OwedSpec EXCEPT ![s] = IF Owes(s)' THEN text[s].spec ELSE 0]
  BY <1>2 DEF OwedSpec
<1>6. OwedSends' = [OwedSends EXCEPT ![s] = IF Owes(s)' THEN 1 ELSE 0]
  BY <1>2 DEF OwedSends
<1>7. QED
  BY <1>3, <1>4, <1>5, <1>6

LEMMA ValueIsALedger == ASSUME NEW f \in Contents PROVE Value(f) \in Ledgers
<1>1. CASE f.is = "ledger"
  BY <1>1 DEF Contents, Absent, Empty, Torn, Value
<1>2. CASE f.is # "ledger"
  BY <1>2 DEF Value, Fresh, Ledgers
<1>3. QED
  BY <1>1, <1>2

\* The book stays ahead when what was sent, and what is owed, grows by no more
\* than the book does.
LEMMA StaysCovered ==
  ASSUME TypeOK, TypeOK', Covered, NEW s \in Sessions, NEW e \in Nat, NEW p \in Nat, NEW n \in Nat,
         OwedEps \in [Sessions -> Nat], OwedSpec \in [Sessions -> Nat], OwedSends \in [Sessions -> Nat],
         OwedEps' = [OwedEps EXCEPT ![s] = e], OwedSpec' = [OwedSpec EXCEPT ![s] = p],
         OwedSends' = [OwedSends EXCEPT ![s] = n],
         2 * (paid'.eps + e) + 2 * Booked.eps + Grain * Booked.sends
           <= 2 * (paid.eps + OwedEps[s]) + 2 * Booked'.eps + Grain * Booked'.sends,
         paid'.spec + p + Booked.spec <= paid.spec + OwedSpec[s] + Booked'.spec,
         paid'.sends + n + Booked.sends <= paid.sends + OwedSends[s] + Booked'.sends
  PROVE  Covered'
<1>1. PICK te, tp, tn \in Nat :
        /\ Totals(OwedEps, te) /\ Totals(OwedSpec, tp) /\ Totals(OwedSends, tn)
        /\ 2 * (paid.eps + te) <= 2 * Booked.eps + Grain * Booked.sends
        /\ paid.spec + tp <= Booked.spec
        /\ paid.sends + tn <= Booked.sends
  BY DEF Covered
<1> DEFINE ne == te - OwedEps[s] + e
           np == tp - OwedSpec[s] + p
           nn == tn - OwedSends[s] + n
<1>2. /\ Totals(OwedEps', ne) /\ Totals(OwedSpec', np) /\ Totals(OwedSends', nn)
      /\ OwedEps[s] <= te /\ OwedSpec[s] <= tp /\ OwedSends[s] <= tn
  BY <1>1, TotalChanges
<1>3. Booked \in Ledgers /\ Booked' \in Ledgers /\ paid \in Ledgers /\ paid' \in Ledgers
  <2>1. Booked = Value(ledgerFile) /\ Booked' = Value(ledgerFile')
    BY DEF Booked, Value
  <2>2. QED
    BY <2>1, ValueIsALedger DEF TypeOK
<1>4. PICK g, h \in Nat : g = Grain * Booked.sends /\ h = Grain * Booked'.sends
  BY <1>3, AmountAssumption DEF Ledgers
<1>5. ne \in Nat /\ np \in Nat /\ nn \in Nat
  BY <1>2
<1>6. /\ 2 * (paid'.eps + ne) <= 2 * Booked'.eps + Grain * Booked'.sends
      /\ paid'.spec + np <= Booked'.spec
      /\ paid'.sends + nn <= Booked'.sends
  BY <1>1, <1>2, <1>3, <1>4 DEF Ledgers
<1>7. QED
  <2> HIDE DEF ne, np, nn
  <2>1. Covered' <=> \E e1, p1, n1 \in Nat :
          /\ Totals(OwedEps', e1) /\ Totals(OwedSpec', p1) /\ Totals(OwedSends', n1)
          /\ 2 * (paid'.eps + e1) <= 2 * Booked'.eps + Grain * Booked'.sends
          /\ paid'.spec + p1 <= Booked'.spec
          /\ paid'.sends + n1 <= Booked'.sends
    BY DEF Covered, Totals
  <2>2. QED
    BY <1>2, <1>5, <1>6, <2>1

\* No step but a save makes a session owe anything, and none but Send pays.
LEMMA NothingIsOwed ==
  ASSUME TypeOK, NEW s \in Sessions, Books(s), Step(s), ~Replace(s), ~Send(s)
  PROVE  ~Owes(s)' /\ UNCHANGED paid
<1>1. CASE End(s)
  BY <1>1 DEF End, Go, Owes, TypeOK
<1>2. ASSUME NEW a \in InUse, StartCommand(s, a) \/ StartRequest(s, a) PROVE ~Owes(s)' /\ UNCHANGED paid
  <2>1. PICK phase \in {"load", "route"} : Begin(s, a, phase)
    BY <1>2 DEF StartCommand, StartRequest
  <2>2. QED
    BY <2>1 DEF Begin, Go, Owes, ghosts, TypeOK
<1>3. CASE Load(s) \/ RouteDirect(s) \/ RouteAbstract(s) \/ Charge(s) \/ Write(s)
  BY <1>3 DEF Load, RouteDirect, RouteAbstract, Charge, Write, Go, Owes, ghosts, TypeOK
<1>4. ASSUME NEW t, AttemptLeaks(s, t) PROVE ~Owes(s)' /\ UNCHANGED paid
  BY <1>4 DEF AttemptLeaks, Owes, ghosts
<1>5. ASSUME NEW t, AttemptClears(s, t) PROVE ~Owes(s)' /\ UNCHANGED paid
  <2>1. pc[s] = "abstract" /\ ask' = ask /\ paid' = paid
    BY <1>5 DEF AttemptClears, ghosts
  <2>2. CASE ByDp(s)
    <3>1. pc' = pc
      BY <1>5, <2>2 DEF AttemptClears
    <3>2. QED
      BY <2>1, <3>1 DEF Owes
  <2>3. CASE ~ByDp(s)
    BY <2>1, <2>3 DEF Owes, ByDp
  <2>4. QED
    BY <2>2, <2>3
<1>6. ASSUME NEW t, Choose(s, t) PROVE ~Owes(s)' /\ UNCHANGED paid
  BY <1>6 DEF Choose, Go, Owes, ghosts, TypeOK
<1>7. QED
  BY <1>1, <1>2, <1>3, <1>4, <1>5, <1>6
     DEF Step, LoadFails, Refuse, OverBudget, ReplaceFails, Finish, Die

LEMMA ReplaceCovers ==
  ASSUME TypeOK, TypeOK', NEW s \in Sessions, Books(s), OneSaves, WithinBudget, Covered, Replace(s), Others(s),
         ~raced'
  PROVE  WithinBudget' /\ Covered'
<1>1. /\ ask[s].ledger = TRUE /\ ask[s].eps > 0 /\ mode[s] = "abstracted"
      /\ Booked'.eps = Rounded(Booked.eps + ask[s].eps)
      /\ Booked.eps + ask[s].eps <= ask[s].budget
      /\ Booked'.spec = Booked.spec + text[s].spec
      /\ Booked'.sends = Booked.sends + 1
  BY ReplaceDebits
<1>2. /\ ask[s].eps \in Nat /\ text[s].spec \in Nat /\ ask[s].budget \in EpsilonBudgets
      /\ ask[s].budget \in Nat /\ Booked \in Ledgers /\ paid \in Ledgers
  <2>1. Booked = Value(ledgerFile)
    BY DEF Booked, Value
  <2>2. QED
    BY <1>1, <2>1, AsksAreWhole, ValueIsALedger, AmountAssumption DEF TypeOK, Texts
<1>3. PICK e \in Nat : e = Booked.eps + ask[s].eps
  BY <1>2 DEF Ledgers
<1>4. 2 * e - Grain <= 2 * Booked'.eps /\ 2 * Booked'.eps <= 2 * e + Grain /\ Booked'.eps \in Nat
  BY <1>1, <1>3, RoundedIsNear
<1>5. WithinBudget'
  <2>1. 2 * Booked'.eps <= 2 * ask[s].budget + Grain
    BY <1>1, <1>2, <1>3, <1>4, AmountAssumption
  <2>2. QED
    BY <1>2, <2>1 DEF WithinBudget
<1>6. Covered'
  <2>1. UNCHANGED <<ask, text, mode, paid>> /\ pc[s] = "replace" /\ pc'[s] = "send"
    BY DEF Replace, Go, TypeOK
  <2>2. ~Owes(s) /\ Owes(s)'
    BY <1>1, <2>1 DEF Owes
  <2>3. /\ OwedEps \in [Sessions -> Nat] /\ OwedSpec \in [Sessions -> Nat] /\ OwedSends \in [Sessions -> Nat]
        /\ OwedEps' = [OwedEps EXCEPT ![s] = ask[s].eps]
        /\ OwedSpec' = [OwedSpec EXCEPT ![s] = text[s].spec] /\ OwedSends' = [OwedSends EXCEPT ![s] = 1]
    BY <2>1, <2>2, OwedChanges
  <2>4. OwedEps[s] = 0 /\ OwedSpec[s] = 0 /\ OwedSends[s] = 0
    BY <2>2 DEF OwedEps, OwedSpec, OwedSends
  <2>5. Grain * Booked'.sends = Grain * Booked.sends + Grain /\ Grain * Booked.sends \in Nat
    BY <1>1, <1>2, AmountAssumption DEF Ledgers
  <2>6. 2 * (paid'.eps + ask[s].eps) + 2 * Booked.eps + Grain * Booked.sends
          <= 2 * (paid.eps + OwedEps[s]) + 2 * Booked'.eps + Grain * Booked'.sends
    <3>1. PICK g \in Nat : g = Grain * Booked.sends
      BY <2>5
    <3>2. QED
      BY <1>2, <1>3, <1>4, <2>1, <2>4, <2>5, <3>1, AmountAssumption DEF Ledgers
  <2>7. /\ paid'.spec + text[s].spec + Booked.spec <= paid.spec + OwedSpec[s] + Booked'.spec
        /\ paid'.sends + 1 + Booked.sends <= paid.sends + OwedSends[s] + Booked'.sends
    BY <1>1, <1>2, <2>1, <2>4 DEF Ledgers
  <2>8. QED
    BY <1>2, <2>3, <2>6, <2>7, StaysCovered
<1>7. QED
  BY <1>5, <1>6

LEMMA SendCovers ==
  ASSUME TypeOK, TypeOK', NEW s \in Sessions, Covered, Send(s), Others(s)
  PROVE  Covered'
<1>1. UNCHANGED <<ask, text, mode, ledgerFile>> /\ pc[s] = "send" /\ pc'[s] = "sent" /\ ~Owes(s)'
  BY DEF Send, Go, TypeOK, files, Owes
<1>2. /\ ask[s].eps \in Nat /\ text[s].spec \in Nat /\ ask[s].ledger \in BOOLEAN
      /\ Booked \in Ledgers /\ paid \in Ledgers /\ Booked' = Booked
  <2>1. Booked = Value(ledgerFile) /\ Booked' = Booked
    BY <1>1 DEF Booked, Value
  <2>2. QED
    BY <2>1, AsksAreWhole, ValueIsALedger DEF TypeOK, Texts
<1>3. /\ OwedEps \in [Sessions -> Nat] /\ OwedSpec \in [Sessions -> Nat] /\ OwedSends \in [Sessions -> Nat]
      /\ OwedEps' = [OwedEps EXCEPT ![s] = 0] /\ OwedSpec' = [OwedSpec EXCEPT ![s] = 0]
      /\ OwedSends' = [OwedSends EXCEPT ![s] = 0]
  BY <1>1, OwedChanges
<1>4. /\ paid'.eps = paid.eps + OwedEps[s] /\ paid'.spec = paid.spec + OwedSpec[s]
      /\ paid'.sends = paid.sends + OwedSends[s]
  <2>1. CASE Owes(s)
    <3>1. paid' = [eps |-> paid.eps + ask[s].eps, spec |-> paid.spec + text[s].spec,
                   sends |-> paid.sends + 1]
      BY <2>1 DEF Owes, ByDp, Send
    <3>2. OwedEps[s] = ask[s].eps /\ OwedSpec[s] = text[s].spec /\ OwedSends[s] = 1
      BY <2>1 DEF OwedEps, OwedSpec, OwedSends
    <3>3. QED
      BY <3>1, <3>2
  <2>2. CASE ~Owes(s)
    <3>1. paid' = paid
      BY <1>1, <1>2, <2>2 DEF Owes, ByDp, Send
    <3>2. OwedEps[s] = 0 /\ OwedSpec[s] = 0 /\ OwedSends[s] = 0
      BY <2>2 DEF OwedEps, OwedSpec, OwedSends
    <3>3. QED
      BY <1>2, <3>1, <3>2 DEF Ledgers
  <2>3. QED
    BY <2>1, <2>2
<1>5. PICK g \in Nat : g = Grain * Booked.sends
  BY <1>2, AmountAssumption DEF Ledgers
<1>6. OwedEps[s] \in Nat /\ OwedSpec[s] \in Nat /\ OwedSends[s] \in Nat
  BY <1>3
<1>7. /\ 2 * (paid'.eps + 0) + 2 * Booked.eps + Grain * Booked.sends
           <= 2 * (paid.eps + OwedEps[s]) + 2 * Booked'.eps + Grain * Booked'.sends
      /\ paid'.spec + 0 + Booked.spec <= paid.spec + OwedSpec[s] + Booked'.spec
      /\ paid'.sends + 0 + Booked.sends <= paid.sends + OwedSends[s] + Booked'.sends
  BY <1>2, <1>4, <1>5, <1>6 DEF Ledgers
<1>8. QED
  BY <1>3, <1>7, StaysCovered

LEMMA QuietCovers ==
  ASSUME TypeOK, TypeOK', NEW s \in Sessions, Covered, Others(s), ~Owes(s)', UNCHANGED <<paid, ledgerFile>>
  PROVE  Covered'
<1>1. Booked \in Ledgers /\ paid \in Ledgers /\ Booked' = Booked
  <2>1. Booked = Value(ledgerFile) /\ Booked' = Booked
    BY DEF Booked, Value
  <2>2. QED
    BY <2>1, ValueIsALedger DEF TypeOK
<1>2. /\ OwedEps \in [Sessions -> Nat] /\ OwedSpec \in [Sessions -> Nat] /\ OwedSends \in [Sessions -> Nat]
      /\ OwedEps' = [OwedEps EXCEPT ![s] = 0] /\ OwedSpec' = [OwedSpec EXCEPT ![s] = 0]
      /\ OwedSends' = [OwedSends EXCEPT ![s] = 0]
  BY OwedChanges
<1>3. PICK g \in Nat : g = Grain * Booked.sends
  BY <1>1, AmountAssumption DEF Ledgers
<1>4. OwedEps[s] \in Nat /\ OwedSpec[s] \in Nat /\ OwedSends[s] \in Nat
  BY <1>2
<1>5. /\ 2 * (paid'.eps + 0) + 2 * Booked.eps + Grain * Booked.sends
           <= 2 * (paid.eps + OwedEps[s]) + 2 * Booked'.eps + Grain * Booked'.sends
      /\ paid'.spec + 0 + Booked.spec <= paid.spec + OwedSpec[s] + Booked'.spec
      /\ paid'.sends + 0 + Booked.sends <= paid.sends + OwedSends[s] + Booked'.sends
  BY <1>1, <1>3, <1>4 DEF Ledgers
<1>6. QED
  BY <1>2, <1>5, StaysCovered

LEMMA InitBooks == Init => LInv
<1>1. SUFFICES ASSUME Init PROVE LInv
  OBVIOUS
<1>2. \A s \in Sessions : Books(s)
  BY <1>1 DEF Init, Books, SessionBooks, Saving
<1>3. OneSaves /\ WithinBudget
  BY <1>1 DEF Init, OneSaves, WithinBudget, Saving, Readable, Absent, Booked, Fresh
<1>4. Covered
  <2> DEFINE none == [s \in Sessions |-> 0]
             tally == [S \in SUBSET Sessions |-> 0]
  <2>1. \A s \in Sessions : ~Owes(s)
    BY <1>1 DEF Init, Owes
  <2>2. OwedEps = none /\ OwedSpec = none /\ OwedSends = none
    BY <2>1 DEF OwedEps, OwedSpec, OwedSends
  <2>3. Totals(none, 0)
    <3>1. tally \in [SUBSET Sessions -> Nat] /\ tally[{}] = 0 /\ tally[Sessions] = 0
      OBVIOUS
    <3>2. \A S \in SUBSET Sessions : \A u \in Sessions \ S : tally[S \cup {u}] = tally[S] + none[u]
      OBVIOUS
    <3>3. QED
      <4> HIDE DEF none, tally
      <4>1. QED
        BY <3>1, <3>2 DEF Totals
  <2>4. 2 * (paid.eps + 0) <= 2 * Booked.eps + Grain * Booked.sends
        /\ paid.spec + 0 <= Booked.spec /\ paid.sends + 0 <= Booked.sends
    BY <1>1, AmountAssumption DEF Init, Booked, Fresh, Absent
  <2>5. QED
    <3> HIDE DEF none, tally
    <3>1. QED
      BY <2>2, <2>3, <2>4 DEF Covered
<1>5. QED
  BY <1>2, <1>3, <1>4 DEF LInv

LEMMA StepLedger == TypeOK /\ TypeOK' /\ LInv /\ [Next]_vars => LInv'
<1>1. SUFFICES ASSUME TypeOK, TypeOK', LInv, [Next]_vars PROVE LInv'
  OBVIOUS
<1>2. ASSUME NEW s \in Sessions, Step(s) PROVE LInv'
  <2>1. Others(s)
    BY <1>1, <1>2, OthersStay
  <2>2. \A u \in Sessions : Books(u)'
    BY <1>1, <1>2, <2>1, StepBooks, OthersBooks DEF LInv
  <2>3. ASSUME ~raced' PROVE OneSaves' /\ WithinBudget' /\ Covered'
    <3>1. OneSaves' /\ (ledgerFile' = ledgerFile \/ Replace(s)) /\ ~raced
      BY <1>1, <1>2, <2>3, StepSaves DEF LInv
    <3>2. OneSaves /\ WithinBudget /\ Covered /\ Books(s)
      BY <1>1, <3>1 DEF LInv
    <3>3. CASE Replace(s)
      BY <1>1, <2>1, <2>3, <3>1, <3>2, <3>3, ReplaceCovers
    <3>4. CASE ~Replace(s)
      <4>1. WithinBudget'
        BY <3>1, <3>2, <3>4 DEF WithinBudget, Booked
      <4>2. CASE Send(s)
        BY <1>1, <2>1, <3>1, <3>2, <4>1, <4>2, SendCovers
      <4>3. CASE ~Send(s)
        BY <1>1, <1>2, <2>1, <3>1, <3>2, <3>4, <4>1, <4>3, NothingIsOwed, QuietCovers
      <4>4. QED
        BY <4>2, <4>3
    <3>5. QED
      BY <3>3, <3>4
  <2>4. QED
    BY <2>2, <2>3 DEF LInv
<1>3. CASE UNCHANGED vars
  <2>1. /\ UNCHANGED <<pc, ask, pool, text, mode, account, handle, base>>
        /\ UNCHANGED <<ledgerFile, tmpFile, paid, raced>>
    BY <1>3 DEF vars, files, ghosts
  <2>2. \A u \in Sessions : Books(u)'
    BY <1>1, <2>1 DEF LInv, Books, SessionBooks, Saving, Readable, Value, Debited
  <2>3. OneSaves => OneSaves'
    BY <2>1 DEF OneSaves, Saving, Readable, Saved, Holding, Rounded, Empty
  <2>4. WithinBudget => WithinBudget'
    BY <2>1 DEF WithinBudget, Booked
  <2>5. Covered => Covered'
    <3>1. OwedEps' = OwedEps /\ OwedSpec' = OwedSpec /\ OwedSends' = OwedSends /\ Booked' = Booked
      BY <2>1 DEF OwedEps, OwedSpec, OwedSends, Owes, Booked
    <3>2. Covered' <=> \E e, p, n \in Nat :
            /\ Totals(OwedEps', e) /\ Totals(OwedSpec', p) /\ Totals(OwedSends', n)
            /\ 2 * (paid'.eps + e) <= 2 * Booked'.eps + Grain * Booked'.sends
            /\ paid'.spec + p <= Booked'.spec
            /\ paid'.sends + n <= Booked'.sends
      BY DEF Covered, Totals
    <3>3. QED
      BY <2>1, <3>1, <3>2 DEF Covered
  <2>6. QED
    BY <1>1, <2>1, <2>2, <2>3, <2>4, <2>5 DEF LInv
<1>4. QED
  BY <1>1, <1>2, <1>3 DEF Next

LEMMA LedgerIsRight == Spec => [](TypeOK /\ LInv)
<1>1. Init => TypeOK /\ LInv
  BY InitTypes, InitBooks
<1>2. TypeOK /\ LInv /\ [Next]_vars => (TypeOK /\ LInv)'
  BY StepTypes, StepLedger
<1>3. QED
  BY <1>1, <1>2, PTL DEF Spec

(* Unless two processes were in it at once, the ledger on disk can be read,   *)
(* covers what was sent under it, but for what rounding takes off each save,  *)
(* and stays below the largest budget, but for what rounding adds to the last *)
(* (PrivacyLedger of dp.py), wherever a process is killed.                     *)
THEOREM Covers == Spec => []LedgerCovers
<1>1. TypeOK /\ LInv => LedgerCovers
  <2>1. SUFFICES ASSUME TypeOK, LInv, ~raced
                 PROVE  /\ ledgerFile.is \in {"absent", "ledger"}
                        /\ paid.sends <= Booked.sends
                        /\ 2 * paid.eps <= 2 * Booked.eps + Grain * Booked.sends
                        /\ WithinBudget
    BY DEF LedgerCovers, WithinBudget
  <2>2. PICK e, p, n \in Nat :
          /\ 2 * (paid.eps + e) <= 2 * Booked.eps + Grain * Booked.sends
          /\ paid.sends + n <= Booked.sends
    BY <2>1 DEF LInv, Covered
  <2>3. Booked \in Ledgers /\ paid \in Ledgers
    <3>1. Booked = Value(ledgerFile)
      BY DEF Booked, Value
    <3>2. QED
      BY <2>1, <3>1, ValueIsALedger DEF TypeOK
  <2>4. PICK g \in Nat : g = Grain * Booked.sends
    BY <2>3, AmountAssumption DEF Ledgers
  <2>5. paid.sends <= Booked.sends /\ 2 * paid.eps <= 2 * Booked.eps + Grain * Booked.sends
    BY <2>2, <2>3, <2>4 DEF Ledgers
  <2>6. QED
    BY <2>1, <2>5 DEF LInv, OneSaves, Readable
<1>2. QED
  BY <1>1, LedgerIsRight, PTL

(* Under the same condition each step of the file and the provider is a step  *)
(* of a prepaid account: the specificity of a text is booked before it leaves, *)
(* and never above the budget.                                                *)
THEOREM Implements == Spec => ImplementsAccount
<1>1. Init => Account!Init
  BY DEF Init, Account!Init, Booked, Absent, Fresh
<1>2. ASSUME TypeOK, LInv, TypeOK', LInv', [Next]_vars, ~raced'
      PROVE  [Account!Next]_<<Booked.spec, paid.spec>>
  <2>1. CASE UNCHANGED vars
    BY <2>1 DEF vars, files, ghosts, Booked
  <2>2. ASSUME NEW s \in Sessions, Step(s)
        PROVE  [Account!Next]_<<Booked.spec, paid.spec>>
    <3>1. (ledgerFile' = ledgerFile \/ Replace(s)) /\ OneSaves
      BY <1>2, <2>2, StepSaves DEF LInv
    <3>2. /\ Booked.spec \in Nat /\ Booked'.spec \in Nat /\ paid.spec \in Nat /\ paid'.spec \in Nat
          /\ text[s].spec \in Nat
      <4>1. Booked = Value(ledgerFile) /\ Booked' = Value(ledgerFile')
        BY DEF Booked, Value
      <4>2. QED
        BY <1>2, <4>1, ValueIsALedger DEF TypeOK, Ledgers, Texts
    <3>3. CASE Replace(s)
      <4>1. Booked'.spec = Booked.spec + text[s].spec /\ Booked'.spec <= SpecificityBudget
        BY <1>2, <3>1, <3>3, ReplaceDebits DEF LInv
      <4>2. paid' = paid
        BY <3>3 DEF Replace
      <4>3. QED
        BY <3>2, <4>1, <4>2 DEF Account!Next, Account!Book
    <3>4. CASE ~Replace(s)
      <4>1. Booked' = Booked
        BY <3>1, <3>4 DEF Booked
      <4>2. CASE Send(s)
        <5>1. paid'.spec <= Booked'.spec
          <6>1. PICK p \in Nat : paid'.spec + p <= Booked'.spec
            BY <1>2 DEF LInv, Covered
          <6>2. QED
            BY <3>2, <6>1
        <5>2. paid'.spec >= paid.spec
          BY <2>2, <3>2, <4>2 DEF Send
        <5>3. QED
          BY <3>2, <4>1, <5>1, <5>2 DEF Account!Next, Account!Buy
      <4>3. CASE ~Send(s)
        <5>1. paid' = paid
          BY <1>2, <2>2, <3>4, <4>3, NothingIsOwed DEF LInv
        <5>2. QED
          BY <4>1, <5>1
      <4>4. QED
        BY <4>2, <4>3
    <3>5. QED
      BY <3>3, <3>4
  <2>3. QED
    BY <1>2, <2>1, <2>2 DEF Next
<1>3. TypeOK /\ LInv /\ (TypeOK /\ LInv)' /\ [Next]_vars
        => [~raced' => [Account!Next]_<<Booked.spec, paid.spec>>]_vars
  BY <1>2
<1>4. QED
  BY <1>1, <1>3, LedgerIsRight, PTL DEF Spec, ImplementsAccount
==============================================================================
