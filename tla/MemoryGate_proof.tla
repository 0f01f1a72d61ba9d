--------------------------- MODULE MemoryGate_proof ---------------------------
(* For any policy, any facts, any number of processes, attempts and index     *)
(* entries: types, what crosses to whom, what a delegate sees, what stays listed. *)
EXTENDS MemoryGate, FiniteSetTheorems, TLAPS

USE PolicyAssumption, VaultAssumption, LimitAssumption, BoundsAssumption
USE DEF Tiers, OPEN, PSEUDONYMOUS, DELEGATED, ATTESTED, SEALED, LOCAL_TIER,
        Classes, PUBLIC, PERSONAL, SENSITIVE, SECRET

States == [at : Phases, index : Seq(Numbers), known : Seq(Numbers), tier : Tiers,
           class : Classes, message : SUBSET Facts, released : SUBSET Numbers,
           stores : BOOLEAN, tries : 0 .. Attempts, text : SUBSET Facts,
           todo : Seq(Texts)]

(* Something is still to be stored while a gate stores, attempts are counted *)
(* only while a model is at work, and one that abstracts has one left.       *)
Pending ==
  \A g \in Gates :
    /\ gate[g].at \in {"storing", "indexing"} => gate[g].todo # <<>>
    /\ gate[g].at = "indexing" => gate[g].index # <<>>
    /\ gate[g].at \notin {"abstracting", "sent"} => gate[g].tries = 0
    /\ gate[g].at = "abstracting" => gate[g].tries < Attempts

-----------------------------------------------------------------------------
(* A gate at rest has the types of any other.                                *)
LEMMA RestType ==
  ASSUME NEW at \in Phases, NEW index \in Seq(Numbers), NEW known \in Seq(Numbers)
  PROVE  Rest(at, index, known) \in States
BY DEF Rest, States

(* The last n elements of a list are elements of it, and at most n.          *)
LEMMA LastOfType ==
  ASSUME NEW S, NEW s \in Seq(S), NEW n \in Nat \ {0}
  PROVE  LastOf(s, n) \in Seq(S) /\ Len(LastOf(s, n)) <= n
<1>1. CASE Len(s) <= n
  BY <1>1 DEF LastOf
<1>2. CASE ~(Len(s) <= n)
  <2>1. Len(s) \in Nat /\ Len(s) > n
    BY <1>2
  <2>2. LastOf(s, n) = SubSeq(s, Len(s) - n + 1, Len(s))
    BY <1>2 DEF LastOf
  <2>3. Len(s) - n + 1 \in 1 .. Len(s)
    BY <2>1
  <2>4. SubSeq(s, Len(s) - n + 1, Len(s)) \in Seq(S)
    BY <2>1, <2>3
  <2>5. Len(SubSeq(s, Len(s) - n + 1, Len(s))) = n
    BY <2>1, <2>3
  <2> QED BY <2>2, <2>4, <2>5
<1> QED BY <1>1, <1>2

(* What is left of a list of two or more is not empty.                       *)
LEMMA LongTail ==
  ASSUME NEW S, NEW s \in Seq(S), Len(s) > 1
  PROVE  Tail(s) # <<>>
<1>1. Len(s) \in Nat /\ Len(Tail(s)) = Len(s) - 1
  OBVIOUS
<1>2. Len(Tail(s)) # 0
  BY <1>1
<1>3. ASSUME Tail(s) = <<>> PROVE FALSE
  BY <1>2, <1>3
<1> QED BY <1>3

(* A longer keep keeps every type that mentions positions in it.             *)
LEMMA Grown ==
  ASSUME TypeOK, Len(keep') \in Nat, Len(keep) <= Len(keep')
  PROVE  /\ Numbers \subseteq Numbers' /\ Seq(Numbers) \subseteq Seq(Numbers')
         /\ States \subseteq States'
<1>1. Numbers \subseteq Numbers'
  BY DEF TypeOK, Numbers
<1>2. Seq(Numbers) \subseteq Seq(Numbers')
  BY <1>1
<1> QED BY <1>1, <1>2 DEF States

(* Putting a record away appends one memory of the type memories have.       *)
LEMMA StoredType ==
  ASSUME TypeOK, Pending, NEW g \in Gates, gate[g].at = "storing"
  PROVE  /\ Stored(g) \in Seq(Memories) /\ Len(Stored(g)) = Len(keep) + 1
         /\ \A m \in Numbers : Stored(g)[m] = keep[m]
<1>1. gate[g] \in States /\ gate[g].todo \in Seq(Texts) /\ gate[g].todo # <<>>
  BY DEF TypeOK, Pending, States
<1>2. Head(gate[g].todo) \in Texts
  BY <1>1
<1>3. [class |-> gate[g].class, facts |-> Head(gate[g].todo).facts,
       by |-> Head(gate[g].todo).by] \in Memories
  BY <1>1, <1>2 DEF Texts, Memories, States
<1> QED BY <1>3 DEF Stored, TypeOK, Numbers

(* Released memories carry facts, and nothing else.                          *)
LEMMA FactsType ==
  ASSUME TypeOK, NEW S \in SUBSET Numbers
  PROVE  FactsOf(S) \in SUBSET Facts
<1>1. \A m \in S : keep[m] \in Memories
  BY DEF TypeOK, Numbers
<1> QED BY <1>1 DEF FactsOf, Memories

(* The steps that leave the keep alone keep the types.                       *)
LEMMA TypeQuiet ==
  ASSUME TypeOK, UNCHANGED keep, NEW g \in Gates, NEW s \in States,
         gate' = [gate EXCEPT ![g] = s],
         indexFile' \in Seq(Numbers), Len(indexFile') <= IndexLimit,
         remembered' \subseteq Numbers, overlapped' \in BOOLEAN
  PROVE  TypeOK'
<1>1. Numbers' = Numbers
  BY DEF Numbers
<1> QED BY <1>1 DEF TypeOK, States

-----------------------------------------------------------------------------
(* Types and pending texts hold in every state.                              *)
Shape == TypeOK /\ Pending

LEMMA ShapeInit == Init => Shape
<1> SUFFICES ASSUME Init PROVE Shape
  OBVIOUS
<1>1. \A g \in Gates : gate[g] = Rest("closed", <<>>, <<>>)
  BY DEF Init
<1>0. <<>> \in Seq(Numbers) /\ "closed" \in Phases
  BY DEF Phases
<1>2. Rest("closed", <<>>, <<>>) \in States
  BY <1>0, RestType
<1>3. gate \in [Gates -> States]
  BY <1>1, <1>2 DEF Init
<1>4. TypeOK
  <2>1. <<>> \in Seq(Memories) /\ Len(<<>>) <= IndexLimit
    OBVIOUS
  <2> QED BY <1>0, <1>3, <2>1 DEF Init, TypeOK, States
<1>5. Pending
  BY <1>1 DEF Pending, Rest
<1> QED BY <1>4, <1>5 DEF Shape

(* A step of a gate, one case per operation.                                 *)
LEMMA ShapeStep == Shape /\ [Next]_vars => Shape'
<1> SUFFICES ASSUME Shape, [Next]_vars PROVE Shape'
  OBVIOUS
<1>0. TypeOK /\ Pending
  BY DEF Shape
<1>a. \A g \in Gates : gate[g] \in States
  BY <1>0 DEF TypeOK, States
<1>b. ASSUME NEW g \in Gates, NEW at \in {"open", "closed"},
             NEW i \in Seq(Numbers), NEW k \in Seq(Numbers)
      PROVE  Rest(at, i, k) \in States
  BY RestType DEF Phases
<1>1. ASSUME NEW g \in Gates, Open(g) PROVE Shape'
  <2>1. Rest("open", indexFile, indexFile) \in States
    BY <1>0, <1>b DEF TypeOK
  <2>2. TypeOK'
    BY <1>0, <1>1, <2>1, TypeQuiet DEF Open, TypeOK
  <2>3. Pending'
    BY <1>0, <1>1 DEF Open, Pending, TypeOK, Rest
  <2> QED BY <2>2, <2>3 DEF Shape
<1>2. ASSUME NEW g \in Gates, Close(g) PROVE Shape'
  <2>1. <<>> \in Seq(Numbers) /\ Rest("closed", <<>>, <<>>) \in States
    BY <1>b
  <2>2. TypeOK'
    BY <1>0, <1>2, <2>1, TypeQuiet DEF Close, TypeOK
  <2>3. Pending'
    BY <1>0, <1>2 DEF Close, Pending, TypeOK, Rest
  <2> QED BY <2>2, <2>3 DEF Shape
<1>3. ASSUME NEW g \in Gates, NEW claimed \in Tiers, NEW granted \in Tiers,
             NEW message \in SUBSET Facts, NEW class \in InUse,
             NEW stores \in BOOLEAN, NEW n \in Recalls,
             Ask(g, claimed, granted, message, class, stores, n)
      PROVE  Shape'
  <2>1. PICK readable \in SUBSET Entries(Recent(gate[g].index, n)) :
          gate' = [gate EXCEPT
            ![g].at = "released", ![g].tier = granted,
            ![g].class = IF stores THEN class ELSE @,
            ![g].message = message, ![g].stores = stores,
            ![g].released = Release(g, claimed, granted, readable)]
    BY <1>3 DEF Ask
  <2>2. gate[g].index \in Seq(Numbers) /\ n \in Nat
    BY <1>a DEF States
  <2>3. Recent(gate[g].index, n) \in Seq(Numbers)
    BY <2>2, LastOfType DEF Recent
  <2>4. readable \subseteq Numbers
    BY <2>3 DEF Entries
  <2>5. Release(g, claimed, granted, readable) \subseteq Numbers
    BY <2>4 DEF Release
  <2>6. class \in Classes
    OBVIOUS
  <2> DEFINE s == [gate[g] EXCEPT
                     !.at = "released", !.tier = granted,
                     !.class = IF stores THEN class ELSE @,
                     !.message = message, !.stores = stores,
                     !.released = Release(g, claimed, granted, readable)]
  <2>7. s \in States
    <3>1. "released" \in Phases
      BY DEF Phases
    <3>2. (IF stores THEN class ELSE gate[g].class) \in Classes
      BY <1>a, <2>6 DEF States
    <3> HIDE DEF Release
    <3> QED BY <1>a, <2>5, <3>1, <3>2 DEF States
  <2>8. gate' = [gate EXCEPT ![g] = s]
    BY <1>0, <2>1 DEF TypeOK
  <2> HIDE DEF s
  <2>9. TypeOK'
    BY <1>0, <1>3, <2>7, <2>8, TypeQuiet DEF Ask, TypeOK
  <2>10. Pending'
    BY <1>0, <1>3, <2>1 DEF Ask, Pending, TypeOK
  <2> QED BY <2>9, <2>10 DEF Shape
<1>4. ASSUME NEW g \in Gates, NEW text \in SUBSET Facts, NEW tries \in 0 .. Attempts,
             Send(g, text, tries), UNCHANGED <<keep, indexFile, remembered, overlapped>>
      PROVE  Shape'
  <2> DEFINE s == [gate[g] EXCEPT !.at = "sent", !.text = text, !.tries = tries]
  <2>1. s \in States
    BY <1>a DEF States, Phases
  <2>2. gate' = [gate EXCEPT ![g] = s]
    BY <1>0, <1>4 DEF Send, TypeOK
  <2> HIDE DEF s
  <2>3. TypeOK'
    BY <1>0, <1>4, <2>1, <2>2, TypeQuiet DEF TypeOK
  <2>4. Pending'
    BY <1>0, <1>4 DEF Send, Pending, TypeOK
  <2> QED BY <2>3, <2>4 DEF Shape
<1>5. ASSUME NEW g \in Gates, EndExchange(g),
             UNCHANGED <<keep, indexFile, remembered, overlapped>>
      PROVE  Shape'
  <2>1. Rest("open", gate[g].index, gate[g].known) \in States
    BY <1>a, <1>b DEF States
  <2>2. TypeOK'
    BY <1>0, <1>5, <2>1, TypeQuiet DEF EndExchange, TypeOK
  <2>3. Pending'
    BY <1>0, <1>5 DEF EndExchange, Pending, TypeOK, Rest
  <2> QED BY <2>2, <2>3 DEF Shape
<1>6. ASSUME NEW g \in Gates, SendWithContext(g) PROVE Shape'
  <2>1. FactsOf(gate[g].released) \in SUBSET Facts /\ gate[g].message \in SUBSET Facts
    BY <1>0, <1>a, FactsType DEF States
  <2> QED BY <1>4, <1>6, <2>1 DEF SendWithContext
<1>7. ASSUME NEW g \in Gates, SendDirect(g) PROVE Shape'
  <2>1. gate[g].message \in SUBSET Facts
    BY <1>a DEF States
  <2> QED BY <1>4, <1>7, <2>1 DEF SendDirect
<1>8. ASSUME NEW g \in Gates, TakeSlowPath(g) PROVE Shape'
  <2> DEFINE s == [gate[g] EXCEPT !.at = "abstracting"]
  <2>1. s \in States
    BY <1>a DEF States, Phases
  <2>2. gate' = [gate EXCEPT ![g] = s]
    BY <1>0, <1>8 DEF TakeSlowPath, TypeOK
  <2> HIDE DEF s
  <2>3. TypeOK'
    BY <1>0, <1>8, <2>1, <2>2, TypeQuiet DEF TakeSlowPath, TypeOK
  <2>4. Pending'
    BY <1>0, <1>8 DEF TakeSlowPath, Pending, TypeOK
  <2> QED BY <2>3, <2>4 DEF Shape
<1>9. ASSUME NEW g \in Gates, NEW text \in SUBSET Facts, Abstract(g, text)
      PROVE  Shape'
  <2>1. gate[g].tries \in 0 .. Attempts /\ gate[g].tries < Attempts
    BY <1>0, <1>9, <1>a DEF Abstract, Pending, States
  <2>2. CASE Cleared(g, text)
    BY <1>4, <1>9, <2>1, <2>2 DEF Abstract
  <2>3. CASE ~Cleared(g, text) /\ gate[g].tries + 1 < Attempts
    <3>1. gate' = [gate EXCEPT ![g].tries = @ + 1]
      BY <1>9, <2>3 DEF Abstract
    <3> DEFINE s == [gate[g] EXCEPT !.tries = @ + 1]
    <3>2. s \in States
      <4>1. gate[g].tries + 1 \in 0 .. Attempts
        BY <2>1
      <4> QED BY <1>a, <4>1 DEF States
    <3>3. gate' = [gate EXCEPT ![g] = s]
      BY <1>0, <3>1 DEF TypeOK
    <3> HIDE DEF s
    <3>4. TypeOK'
      BY <1>0, <1>9, <3>2, <3>3, TypeQuiet DEF Abstract, TypeOK
    <3>5. Pending'
      BY <1>0, <1>9, <2>3, <3>1 DEF Abstract, Pending, TypeOK
    <3> QED BY <3>4, <3>5 DEF Shape
  <2>4. CASE ~Cleared(g, text) /\ ~(gate[g].tries + 1 < Attempts)
    BY <1>5, <1>9, <2>4 DEF Abstract
  <2> QED BY <2>2, <2>3, <2>4
<1>10. ASSUME NEW g \in Gates, ModelFails(g) \/ SaveFails(g) PROVE Shape'
  BY <1>5, <1>10 DEF ModelFails, SaveFails
<1>11. ASSUME NEW g \in Gates, NEW s \in States, gate' = [gate EXCEPT ![g] = s],
              s.at = "storing", s.todo # <<>>, s.tries = 0,
              UNCHANGED <<keep, indexFile, remembered, overlapped>>
       PROVE  Shape'
  <2>1. TypeOK'
    BY <1>0, <1>11, TypeQuiet DEF TypeOK
  <2>2. Pending'
    BY <1>0, <1>11 DEF Pending, TypeOK
  <2> QED BY <2>1, <2>2 DEF Shape
<1>12. ASSUME NEW g \in Gates, NEW reply \in SUBSET Facts, Reply(g, reply)
       PROVE  Shape'
  <2>1. CASE ~gate[g].stores
    BY <1>5, <1>12, <2>1 DEF Reply
  <2>2. CASE gate[g].stores
    <3> DEFINE told == << [facts |-> gate[g].message, by |-> "user"],
                          [facts |-> reply, by |-> "assistant"] >>
               s == [Rest("storing", gate[g].index, gate[g].known) EXCEPT
                       !.class = gate[g].class, !.todo = told]
    <3>1. gate' = [gate EXCEPT ![g] = s]
      BY <1>12, <2>2 DEF Reply
    <3>2. told \in Seq(Texts) /\ told # <<>>
      BY <1>a DEF Texts, Authors, States
    <3>3. Rest("storing", gate[g].index, gate[g].known) \in States
      BY <1>a, RestType DEF States, Phases
    <3>4. gate[g].class \in Classes
      BY <1>a DEF States
    <3>5. s \in States /\ s.at = "storing" /\ s.todo # <<>> /\ s.tries = 0
      BY <3>2, <3>3, <3>4 DEF States, Rest
    <3> QED BY <1>11, <1>12, <3>1, <3>5 DEF Reply
  <2> QED BY <2>1, <2>2
<1>13. ASSUME NEW g \in Gates, NEW facts \in SUBSET Facts, NEW class \in InUse,
              Remember(g, facts, class)
       PROVE  Shape'
  <2> DEFINE told == << [facts |-> facts, by |-> "user"] >>
             s == [gate[g] EXCEPT !.at = "storing", !.class = class, !.todo = told]
  <2>1. gate' = [gate EXCEPT ![g] = s]
    BY <1>0, <1>13 DEF Remember, TypeOK
  <2>2. told \in Seq(Texts) /\ told # <<>>
    BY DEF Texts, Authors
  <2>3. s \in States /\ s.at = "storing" /\ s.todo # <<>> /\ s.tries = 0
    <3>1. gate[g].tries = 0
      BY <1>0, <1>13 DEF Remember, Pending
    <3>2. s \in States
      BY <1>a, <2>2 DEF States, Phases
    <3>3. s.at = "storing" /\ s.todo = told /\ s.tries = gate[g].tries
      BY <1>a DEF States
    <3> QED BY <2>2, <3>1, <3>2, <3>3
  <2> QED BY <1>11, <1>13, <2>1, <2>3 DEF Remember
<1>14. ASSUME NEW g \in Gates, gate[g].at = "storing", Len(keep') \in Nat,
              keep' \in Seq(Memories), Len(keep) <= Len(keep'),
              NEW s \in States', gate' = [gate EXCEPT ![g] = s],
              s.at = "indexing" => s.todo # <<>> /\ s.index # <<>>,
              s.at \in {"open", "indexing"}, s.tries = 0,
              UNCHANGED <<indexFile, remembered, overlapped>>
       PROVE  Shape'
  <2>1. Numbers \subseteq Numbers' /\ Seq(Numbers) \subseteq Seq(Numbers')
        /\ States \subseteq States'
    BY <1>0, <1>14, Grown
  <2>2. gate \in [Gates -> States']
    BY <1>0, <2>1 DEF TypeOK, States
  <2>3. gate' \in [Gates -> States']
    BY <1>14, <2>2
  <2>4. TypeOK'
    BY <1>0, <1>14, <2>1, <2>3 DEF TypeOK, States
  <2>5. Pending'
    BY <1>0, <1>14 DEF Pending, TypeOK
  <2> QED BY <2>4, <2>5 DEF Shape
<1>15. ASSUME NEW g \in Gates, Put(g) PROVE Shape'
  <2>1. gate[g].at = "storing" /\ keep' = Stored(g)
    BY <1>15 DEF Put
  <2>2. Stored(g) \in Seq(Memories) /\ Len(Stored(g)) = Len(keep) + 1
    BY <1>0, <2>1, StoredType
  <2>3. Len(keep) \in Nat /\ keep' \in Seq(Memories) /\ Len(keep') = Len(keep) + 1
    BY <1>0, <2>1, <2>2 DEF TypeOK
  <2>4. Numbers \subseteq Numbers' /\ States \subseteq States' /\ Len(keep') \in Numbers'
    BY <1>0, <2>3, Grown DEF Numbers
  <2> DEFINE s == [gate[g] EXCEPT !.at = "indexing", !.index = Append(@, Len(keep'))]
  <2>5. gate[g] \in States' /\ gate[g].index \in Seq(Numbers')
    BY <1>a, <2>4 DEF States
  <2>6. Append(gate[g].index, Len(keep')) \in Seq(Numbers')
        /\ Append(gate[g].index, Len(keep')) # <<>>
    BY <2>4, <2>5
  <2>7. s \in States' /\ s.at = "indexing" /\ s.index # <<>>
        /\ s.todo = gate[g].todo /\ s.tries = gate[g].tries
    BY <2>5, <2>6 DEF States, Phases
  <2>8. gate' = [gate EXCEPT ![g] = s]
    BY <1>0, <1>15 DEF Put, TypeOK
  <2>9. gate[g].todo # <<>> /\ gate[g].tries = 0
    BY <1>0, <2>1 DEF Pending
  <2> HIDE DEF s
  <2>10. Len(keep') \in Nat /\ Len(keep) <= Len(keep')
    BY <2>3
  <2>11. s.todo # <<>> /\ s.tries = 0
    BY <2>7, <2>9
  <2>12. UNCHANGED <<indexFile, remembered, overlapped>>
    BY <1>15 DEF Put
  <2> QED BY <1>14, <2>1, <2>3, <2>7, <2>8, <2>10, <2>11, <2>12
<1>16. ASSUME NEW g \in Gates, PutFails(g) PROVE Shape'
  <2>1. CASE keep' = keep
    <3>1. EndExchange(g) /\ UNCHANGED <<keep, indexFile, remembered, overlapped>>
      BY <1>16, <2>1 DEF PutFails
    <3> QED BY <1>5, <3>1
  <2>2. CASE keep' = Stored(g)
    <3>1. gate[g].at = "storing" /\ EndExchange(g)
      BY <1>16 DEF PutFails
    <3>2. Stored(g) \in Seq(Memories) /\ Len(Stored(g)) = Len(keep) + 1
      BY <1>0, <3>1, StoredType
    <3>3. Len(keep) \in Nat /\ keep' \in Seq(Memories) /\ Len(keep') = Len(keep) + 1
      BY <1>0, <2>2, <3>2 DEF TypeOK
    <3> DEFINE s == Rest("open", gate[g].index, gate[g].known)
    <3>4. s \in States
      BY <1>a, <1>b DEF States
    <3>5. s \in States'
      BY <1>0, <3>3, <3>4, Grown
    <3>6. s.at = "open" /\ s.tries = 0
      BY DEF Rest
    <3>7. gate' = [gate EXCEPT ![g] = s]
      BY <3>1 DEF EndExchange
    <3> HIDE DEF s
    <3>8. Len(keep') \in Nat /\ Len(keep) <= Len(keep')
      BY <3>3
    <3>9. UNCHANGED <<indexFile, remembered, overlapped>>
      BY <1>16 DEF PutFails
    <3> QED BY <1>14, <3>1, <3>3, <3>5, <3>6, <3>7, <3>8, <3>9
  <2> QED BY <1>16, <2>1, <2>2 DEF PutFails
<1>17. ASSUME NEW g \in Gates, SaveIndex(g) PROVE Shape'
  <2>1. /\ gate[g].index \in Seq(Numbers) /\ gate[g].index # <<>>
        /\ gate[g].todo \in Seq(Texts) /\ gate[g].todo # <<>> /\ gate[g].tries = 0
    BY <1>0, <1>17, <1>a DEF SaveIndex, Pending, States
  <2>2. indexFile' \in Seq(Numbers) /\ Len(indexFile') <= IndexLimit
    BY <1>17, <2>1, LastOfType DEF SaveIndex, Saved
  <2>3. gate[g].index[Len(gate[g].index)] \in Numbers
    BY <2>1
  <2>4. remembered' \subseteq Numbers /\ overlapped' \in BOOLEAN
    BY <1>0, <1>17, <2>3 DEF SaveIndex, TypeOK
  <2>5. AfterSave(g) \in States
    <3>1. CASE Len(gate[g].todo) > 1
      <4>1. Tail(gate[g].todo) \in Seq(Texts)
        BY <2>1
      <4> QED BY <1>a, <2>2, <3>1, <4>1 DEF AfterSave, States, Phases
    <3>2. CASE ~(Len(gate[g].todo) > 1)
      BY <1>b, <2>1, <2>2, <3>2 DEF AfterSave
    <3> QED BY <3>1, <3>2
  <2>6. /\ AfterSave(g).at \in {"storing", "open"} /\ AfterSave(g).tries = 0
        /\ AfterSave(g).at = "storing" => AfterSave(g).todo # <<>>
    <3>1. CASE Len(gate[g].todo) > 1
      <4>1. Tail(gate[g].todo) # <<>>
        BY <2>1, <3>1, LongTail
      <4>2. /\ AfterSave(g).at = "storing" /\ AfterSave(g).tries = gate[g].tries
            /\ AfterSave(g).todo = Tail(gate[g].todo)
        <5>1. AfterSave(g) = [gate[g] EXCEPT !.at = "storing", !.known = indexFile',
                                              !.todo = Tail(gate[g].todo)]
          BY <1>a, <3>1 DEF AfterSave, States
        <5> HIDE DEF AfterSave
        <5> QED BY <1>a, <5>1 DEF States
      <4> QED BY <2>1, <4>1, <4>2
    <3>2. CASE ~(Len(gate[g].todo) > 1)
      BY <3>2 DEF AfterSave, Rest
    <3> QED BY <3>1, <3>2
  <2>7. gate' = [gate EXCEPT ![g] = AfterSave(g)] /\ UNCHANGED keep
    BY <1>17 DEF SaveIndex
  <2>8. TypeOK'
    BY <1>0, <2>2, <2>4, <2>5, <2>7, TypeQuiet
  <2>9. Pending'
    BY <1>0, <2>6, <2>7 DEF Pending, TypeOK
  <2> QED BY <2>8, <2>9 DEF Shape
<1>18. CASE UNCHANGED vars
  BY <1>0, <1>18 DEF vars, Shape, TypeOK, Pending, Numbers
<1>19. ASSUME NEW g \in Gates, Works(g) PROVE Shape'
  BY <1>6, <1>7, <1>8, <1>9, <1>10, <1>12, <1>15, <1>16, <1>17, <1>19 DEF Works
<1> QED BY <1>1, <1>2, <1>3, <1>13, <1>18, <1>19 DEF Next

(* Every state has its types: what processes of any number list, release and *)
(* store are memories of the keep, whatever fails and in whatever order.     *)
THEOREM TypeCorrect == Spec => []TypeOK
<1>1. Shape => TypeOK
  BY DEF Shape
<1> QED BY ShapeInit, ShapeStep, <1>1, PTL DEF Spec

-----------------------------------------------------------------------------
(* What holds of an exchange from the release on: what was released is       *)
(* cleared for the tier that was proved, only delegating tiers abstract, and *)
(* what was sent is right for the tier it was sent to.                       *)
Clean(g) ==
  /\ gate[g].at \in {"released", "abstracting", "sent"} =>
       \A m \in gate[g].released : Policy[keep[m].class] <= gate[g].tier
  /\ gate[g].at = "abstracting" => Delegating(gate[g].tier)
  /\ gate[g].at = "sent" /\ Delegating(gate[g].tier) =>
       /\ gate[g].text \cap FactsOf(gate[g].released) = {}
       /\ gate[g].text \cap gate[g].message # {} =>
            gate[g].tries = 0 /\ gate[g].text = gate[g].message
  /\ gate[g].at = "sent" /\ ~Delegating(gate[g].tier) =>
       gate[g].text \subseteq gate[g].message \cup FactsOf(gate[g].released)

(* What one process does in a step.                                          *)
Own(g) ==
  \/ Open(g) \/ Works(g) \/ Close(g)
  \/ \E claimed, granted \in Tiers, message \in SUBSET Facts, class \in InUse,
        stores \in BOOLEAN, n \in Recalls :
       Ask(g, claimed, granted, message, class, stores, n)
  \/ \E facts \in SUBSET Facts, class \in InUse : Remember(g, facts, class)

(* A stored memory never changes: puts append.                               *)
LEMMA MemoriesStay ==
  ASSUME Shape, NEW h \in Gates, Own(h)
  PROVE  \A m \in Numbers : keep'[m] = keep[m]
<1>0. TypeOK /\ Pending
  BY DEF Shape
<1>1. CASE keep' = keep
  BY <1>1
<1>2. CASE gate[h].at = "storing" /\ keep' = Stored(h)
  BY <1>0, <1>2, StoredType
<1>3. CASE Put(h) \/ PutFails(h)
  BY <1>1, <1>2, <1>3 DEF Put, PutFails
<1>4. CASE Works(h)
  <2>1. ASSUME NEW text, Abstract(h, text) \/ Reply(h, text) PROVE keep' = keep
    BY <2>1 DEF Abstract, Reply
  <2>2. CASE SendWithContext(h) \/ SendDirect(h) \/ TakeSlowPath(h) \/ ModelFails(h)
    BY <1>1, <2>2 DEF SendWithContext, SendDirect, TakeSlowPath, ModelFails
  <2>3. CASE SaveIndex(h) \/ SaveFails(h)
    BY <1>1, <2>3 DEF SaveIndex, SaveFails
  <2> QED BY <1>1, <1>3, <1>4, <2>1, <2>2, <2>3 DEF Works
<1>5. CASE ~Works(h)
  <2>1. ASSUME NEW claimed, NEW granted, NEW message, NEW class, NEW stores, NEW n,
               Ask(h, claimed, granted, message, class, stores, n)
        PROVE  keep' = keep
    BY <2>1 DEF Ask
  <2>2. ASSUME NEW facts, NEW class, Remember(h, facts, class) PROVE keep' = keep
    BY <2>2 DEF Remember
  <2>3. CASE Open(h) \/ Close(h)
    BY <1>1, <2>3 DEF Open, Close
  <2> QED BY <1>1, <1>5, <2>1, <2>2, <2>3 DEF Own
<1> QED BY <1>4, <1>5

(* A step of one process leaves the exchange of every other alone.           *)
LEMMA OthersRest ==
  ASSUME TypeOK, NEW h \in Gates, Own(h), NEW g \in Gates, g # h
  PROVE  gate'[g] = gate[g]
<1>0. gate = [p \in Gates |-> gate[p]]
  BY DEF TypeOK
<1>1. ASSUME NEW s, gate' = [gate EXCEPT ![h] = s] PROVE gate'[g] = gate[g]
  BY <1>0, <1>1
<1>2. CASE Open(h) \/ Close(h) \/ SaveIndex(h)
  BY <1>1, <1>2 DEF Open, Close, SaveIndex
<1>3. ASSUME EndExchange(h) PROVE gate'[g] = gate[g]
  BY <1>1, <1>3 DEF EndExchange
<1>4. ASSUME NEW text, NEW tries, Send(h, text, tries) PROVE gate'[g] = gate[g]
  BY <1>0, <1>4 DEF Send
<1>5. CASE SendWithContext(h) \/ SendDirect(h)
  BY <1>4, <1>5 DEF SendWithContext, SendDirect
<1>6. CASE TakeSlowPath(h) \/ Put(h)
  BY <1>0, <1>6 DEF TakeSlowPath, Put
<1>7. CASE ModelFails(h) \/ SaveFails(h) \/ PutFails(h)
  BY <1>3, <1>7 DEF ModelFails, SaveFails, PutFails
<1>8. ASSUME NEW text \in SUBSET Facts, Abstract(h, text) PROVE gate'[g] = gate[g]
  BY <1>0, <1>3, <1>4, <1>8 DEF Abstract
<1>9. ASSUME NEW text \in SUBSET Facts, Reply(h, text) PROVE gate'[g] = gate[g]
  BY <1>1, <1>3, <1>9 DEF Reply
<1>10. CASE Works(h)
  BY <1>2, <1>5, <1>6, <1>7, <1>8, <1>9, <1>10 DEF Works
<1>11. ASSUME NEW facts, NEW class, Remember(h, facts, class) PROVE gate'[g] = gate[g]
  BY <1>0, <1>11 DEF Remember
<1>12. ASSUME NEW claimed, NEW granted, NEW message, NEW class, NEW stores, NEW n,
              Ask(h, claimed, granted, message, class, stores, n)
       PROVE  gate'[g] = gate[g]
  BY <1>0, <1>12 DEF Ask
<1> QED BY <1>2, <1>10, <1>11, <1>12 DEF Own

(* An exchange nobody touches stays clean while the keep grows.              *)
LEMMA Steady ==
  ASSUME TypeOK, NEW g \in Gates, Clean(g), gate'[g] = gate[g],
         \A m \in Numbers : keep'[m] = keep[m]
  PROVE  Clean(g)'
<1>1. gate[g].released \subseteq Numbers
  BY DEF TypeOK
<1>2. FactsOf(gate[g].released)' = FactsOf(gate[g].released)
  BY <1>1 DEF FactsOf
<1>3. \A m \in gate[g].released : keep'[m].class = keep[m].class
  BY <1>1
<1> QED BY <1>1, <1>2, <1>3 DEF Clean, Delegating

(* A process that is not between a release and a reply has a clean exchange. *)
LEMMA IdleIsClean ==
  ASSUME NEW g \in Gates, gate[g].at \notin {"released", "abstracting", "sent"}
  PROVE  Clean(g)
BY DEF Clean

(* A step of a process keeps its own exchange clean, one case per operation. *)
LEMMA CleanOwn ==
  ASSUME Shape, NEW g \in Gates, Clean(g), Own(g)
  PROVE  Clean(g)'
<1>0. TypeOK /\ gate[g] \in States /\ gate[g].released \subseteq Numbers
  BY DEF Shape, TypeOK, States
<1>1. ASSUME gate'[g].at \notin {"released", "abstracting", "sent"} PROVE Clean(g)'
  BY <1>1 DEF Clean
<1>2. ASSUME EndExchange(g) PROVE Clean(g)'
  <2>1. gate'[g].at = "open"
    BY <1>0, <1>2 DEF EndExchange, TypeOK, Rest
  <2> QED BY <1>1, <2>1
<1>3. CASE Open(g) \/ Close(g)
  <2>1. gate'[g].at \in {"open", "closed"}
    BY <1>0, <1>3 DEF Open, Close, TypeOK, Rest
  <2> QED BY <1>1, <2>1
<1>4. ASSUME NEW claimed \in Tiers, NEW granted \in Tiers,
             NEW message \in SUBSET Facts, NEW class \in InUse,
             NEW stores \in BOOLEAN, NEW n \in Recalls,
             Ask(g, claimed, granted, message, class, stores, n)
      PROVE  Clean(g)'
  <2>1. /\ gate'[g].at = "released" /\ gate'[g].tier = granted /\ keep' = keep
        /\ \E readable : gate'[g].released = Release(g, claimed, granted, readable)
    BY <1>0, <1>4 DEF Ask, TypeOK
  <2> QED BY <2>1 DEF Clean, Release
<1>5. ASSUME NEW text, NEW tries, Send(g, text, tries), UNCHANGED keep
      PROVE  /\ gate'[g].at = "sent" /\ gate'[g].text = text /\ gate'[g].tries = tries
             /\ gate'[g].message = gate[g].message /\ gate'[g].tier = gate[g].tier
             /\ gate'[g].released = gate[g].released
             /\ FactsOf(gate[g].released)' = FactsOf(gate[g].released)
  <2>1. /\ gate'[g].at = "sent" /\ gate'[g].text = text /\ gate'[g].tries = tries
        /\ gate'[g].message = gate[g].message /\ gate'[g].tier = gate[g].tier
        /\ gate'[g].released = gate[g].released
    BY <1>0, <1>5 DEF Send, TypeOK
  <2> QED BY <1>5, <2>1 DEF FactsOf
<1>6. CASE SendWithContext(g)
  <2> DEFINE full == gate[g].message \cup FactsOf(gate[g].released)
             text == IF gate[g].tier = PSEUDONYMOUS THEN full \ Declared ELSE full
  <2>1. Send(g, text, 0) /\ UNCHANGED keep /\ text \subseteq full
    BY <1>6 DEF SendWithContext
  <2>2. gate[g].at = "released" /\ ~Delegating(gate[g].tier)
    BY <1>6 DEF SendWithContext
  <2> QED BY <1>5, <2>1, <2>2 DEF Clean, Delegating
<1>7. CASE SendDirect(g)
  <2>1. /\ Send(g, gate[g].message, 0) /\ UNCHANGED keep
        /\ gate[g].message \cap FactsOf(gate[g].released) = {}
        /\ gate[g].at = "released" /\ Delegating(gate[g].tier)
    BY <1>7 DEF SendDirect
  <2> QED BY <1>5, <2>1 DEF Clean, Delegating
<1>8. ASSUME gate'[g].at = "abstracting", gate'[g].tier = gate[g].tier,
             gate'[g].released = gate[g].released, UNCHANGED keep,
             gate[g].at \in {"released", "abstracting"}, Delegating(gate[g].tier)
      PROVE  Clean(g)'
  BY <1>8 DEF Clean, Delegating
<1>9. CASE TakeSlowPath(g)
  <2>1. /\ gate'[g].at = "abstracting" /\ gate'[g].tier = gate[g].tier
        /\ gate'[g].released = gate[g].released
    BY <1>0, <1>9 DEF TakeSlowPath, TypeOK
  <2> QED BY <1>8, <1>9, <2>1 DEF TakeSlowPath
<1>10. ASSUME NEW text \in SUBSET Facts, Abstract(g, text) PROVE Clean(g)'
  <2>0. gate[g].at = "abstracting" /\ Delegating(gate[g].tier) /\ UNCHANGED keep
    BY <1>10 DEF Abstract, Clean
  <2>1. CASE Cleared(g, text)
    <3>1. Send(g, text, gate[g].tries + 1)
      BY <1>10, <2>1 DEF Abstract
    <3>2. text \cap gate[g].message = {} /\ text \cap FactsOf(gate[g].released) = {}
      BY <2>1 DEF Cleared
    <3> QED BY <1>5, <2>0, <3>1, <3>2 DEF Clean, Delegating
  <2>2. CASE ~Cleared(g, text) /\ gate[g].tries + 1 < Attempts
    <3>1. /\ gate'[g].at = "abstracting" /\ gate'[g].tier = gate[g].tier
          /\ gate'[g].released = gate[g].released
      BY <1>0, <1>10, <2>0, <2>2 DEF Abstract, TypeOK
    <3> QED BY <1>8, <2>0, <3>1
  <2>3. CASE ~Cleared(g, text) /\ ~(gate[g].tries + 1 < Attempts)
    BY <1>2, <1>10, <2>3 DEF Abstract
  <2> QED BY <2>1, <2>2, <2>3
<1>11. CASE ModelFails(g) \/ SaveFails(g) \/ PutFails(g)
  BY <1>2, <1>11 DEF ModelFails, SaveFails, PutFails
<1>12. ASSUME NEW reply \in SUBSET Facts, Reply(g, reply) PROVE Clean(g)'
  <2>1. CASE gate[g].stores
    <3>1. gate'[g].at = "storing"
      <4> DEFINE told == << [facts |-> gate[g].message, by |-> "user"],
                            [facts |-> reply, by |-> "assistant"] >>
                 s == [Rest("storing", gate[g].index, gate[g].known) EXCEPT
                         !.class = gate[g].class, !.todo = told]
      <4>1. gate' = [gate EXCEPT ![g] = s]
        BY <1>12, <2>1 DEF Reply
      <4>2. s.at = "storing"
        BY DEF Rest
      <4> HIDE DEF s
      <4> QED BY <1>0, <4>1, <4>2 DEF TypeOK
    <3> QED BY <1>1, <3>1
  <2>2. CASE ~gate[g].stores
    BY <1>2, <1>12, <2>2 DEF Reply
  <2> QED BY <2>1, <2>2
<1>13. ASSUME NEW facts \in SUBSET Facts, NEW class \in InUse, Remember(g, facts, class)
       PROVE  Clean(g)'
  <2>1. gate'[g].at = "storing"
    BY <1>0, <1>13 DEF Remember, TypeOK
  <2> QED BY <1>1, <2>1
<1>14. CASE Put(g)
  <2>1. gate'[g].at = "indexing"
    BY <1>0, <1>14 DEF Put, TypeOK
  <2> QED BY <1>1, <2>1
<1>15. CASE SaveIndex(g)
  <2>1. AfterSave(g).at \in {"storing", "open"}
    <3>1. CASE Len(gate[g].todo) > 1
      BY <1>0, <3>1 DEF AfterSave, States
    <3>2. CASE ~(Len(gate[g].todo) > 1)
      BY <3>2 DEF AfterSave, Rest
    <3> QED BY <3>1, <3>2
  <2>2. gate'[g] = AfterSave(g)
    BY <1>0, <1>15 DEF SaveIndex, TypeOK
  <2> QED BY <1>1, <2>1, <2>2
<1>16. CASE Works(g)
  BY <1>6, <1>7, <1>9, <1>10, <1>11, <1>12, <1>14, <1>15, <1>16 DEF Works
<1> QED BY <1>3, <1>4, <1>13, <1>16 DEF Own

(* Every exchange is clean, in every state.                                  *)
Privacy == \A g \in Gates : Clean(g)

LEMMA PrivacyStep == Shape /\ Privacy /\ [Next]_vars => Privacy'
<1> SUFFICES ASSUME Shape, Privacy, [Next]_vars, NEW g \in Gates PROVE Clean(g)'
  BY DEF Privacy
<1>0. TypeOK /\ Clean(g)
  BY DEF Shape, Privacy
<1>1. CASE UNCHANGED vars
  BY <1>0, <1>1, Steady DEF vars
<1>2. ASSUME NEW h \in Gates, Own(h) PROVE Clean(g)'
  <2>1. CASE h = g
    BY <1>0, <1>2, <2>1, CleanOwn
  <2>2. CASE h # g
    BY <1>0, <1>2, <2>2, OthersRest, MemoriesStay, Steady
  <2> QED BY <2>1, <2>2
<1>3. Next => \E h \in Gates : Own(h)
  BY DEF Next, Own
<1> QED BY <1>1, <1>2, <1>3

(* Types and clean exchanges hold in every state.                            *)
LEMMA PrivacyAlways == Spec => [](Shape /\ Privacy)
<1>1. Init => Privacy
  <2>1. Init => \A g \in Gates : gate[g].at = "closed"
    BY DEF Init, Rest
  <2> QED BY <2>1 DEF Privacy, Clean
<1> QED BY <1>1, ShapeInit, ShapeStep, PrivacyStep, PTL DEF Spec

(* What a tier that is shown the context learns beyond the message, some     *)
(* memory whose class the policy clears for that tier carries: for every     *)
(* policy, whatever backends claim, fall back to, repeat or fail at.         *)
THEOREM ClearedCross == Spec => []OnlyClearedCross
<1>1. Shape /\ Privacy => OnlyClearedCross
  <2> SUFFICES ASSUME Shape, Privacy, NEW g \in Gates, gate[g].at = "sent",
                      ~Delegating(gate[g].tier),
                      NEW f \in gate[g].text \ gate[g].message
               PROVE  \E m \in Numbers : f \in keep[m].facts
                                        /\ Policy[keep[m].class] <= gate[g].tier
    BY DEF OnlyClearedCross
  <2>1. Clean(g) /\ gate[g].released \subseteq Numbers
    BY DEF Privacy, Shape, TypeOK
  <2>2. f \in FactsOf(gate[g].released)
    BY <2>1 DEF Clean
  <2>3. PICK m \in gate[g].released : f \in keep[m].facts
    BY <2>2 DEF FactsOf
  <2> QED BY <2>1, <2>3 DEF Clean
<1> QED BY <1>1, PrivacyAlways, PTL

(* A delegate sees no fact of a released memory, and of the message nothing  *)
(* or all of it as typed, after any number of attempts of a local model that *)
(* may write anything.                                                       *)
THEOREM DelegateIsBlind == Spec => []DelegateSeesNothingPrivate
<1>1. Shape /\ Privacy => DelegateSeesNothingPrivate
  BY DEF Privacy, Clean, DelegateSeesNothingPrivate
<1> QED BY <1>1, PrivacyAlways, PTL
-----------------------------------------------------------------------------
(* The index lists memories in the order of their puts.                      *)
Ascending(s) == \A i, j \in 1 .. Len(s) : i < j => s[i] < s[j]

(* An index that has no room left for a memory: it is full of later ones.    *)
Newer(s, m) == Len(s) = IndexLimit /\ \A i \in 1 .. Len(s) : s[i] > m

Listed(s, m) == m \in Entries(s) \/ Newer(s, m)

(* What is saved of a list are its last elements, one for one.               *)
LEMMA SavedAt ==
  ASSUME NEW s \in Seq(Nat)
  PROVE  /\ Saved(s) \in Seq(Nat) /\ Len(Saved(s)) <= Len(s)
         /\ Len(s) <= IndexLimit => Saved(s) = s
         /\ Len(s) > IndexLimit => Len(Saved(s)) = IndexLimit
         /\ \A i \in 1 .. Len(Saved(s)) :
              Saved(s)[i] = s[Len(s) - Len(Saved(s)) + i]
<1> DEFINE l == Saved(s)
           n == IndexLimit
<1>1. CASE Len(s) <= n
  <2>1. l = s
    BY <1>1 DEF LastOf, Saved
  <2> QED BY <1>1, <2>1
<1>2. CASE ~(Len(s) <= n)
  <2>1. Len(s) \in Nat /\ Len(s) > n
    BY <1>2
  <2>2. l = SubSeq(s, Len(s) - n + 1, Len(s))
    BY <1>2 DEF LastOf, Saved
  <2> HIDE DEF l
  <2>3. Len(s) - n + 1 \in 1 .. Len(s)
    BY <2>1
  <2>4. l \in Seq(Nat) /\ Len(l) = n
    BY <2>1, <2>2, <2>3
  <2>5. \A i \in 1 .. n : l[i] = s[Len(s) - n + i]
    BY <2>1, <2>2, <2>3
  <2> QED BY <2>1, <2>4, <2>5 DEF l
<1> QED BY <1>1, <1>2

(* What is cut from an ordered list is ordered.                              *)
LEMMA SavedAscends ==
  ASSUME NEW s \in Seq(Nat), Ascending(s)
  PROVE  Ascending(Saved(s))
<1> DEFINE l == Saved(s)
<1>1. /\ l \in Seq(Nat) /\ Len(l) <= Len(s)
      /\ \A i \in 1 .. Len(l) : l[i] = s[Len(s) - Len(l) + i]
  BY SavedAt
<1> HIDE DEF l
<1>2. ASSUME NEW i \in 1 .. Len(l), NEW j \in 1 .. Len(l), i < j PROVE l[i] < l[j]
  <2>1. Len(s) \in Nat /\ Len(l) \in Nat /\ Len(l) <= Len(s)
    BY <1>1
  <2> DEFINE a == Len(s) - Len(l) + i
             b == Len(s) - Len(l) + j
  <2>2. a \in 1 .. Len(s) /\ b \in 1 .. Len(s) /\ a < b
    BY <1>2, <2>1
  <2>3. l[i] = s[a] /\ l[j] = s[b]
    BY <1>1
  <2> HIDE DEF a, b
  <2> QED BY <2>2, <2>3 DEF Ascending
<1> QED BY <1>2 DEF Ascending, l

(* A later memory pushes at most the oldest entry out of what is saved, and  *)
(* then all of the others are later ones.                                    *)
LEMMA StillListed ==
  ASSUME NEW s \in Seq(Nat), Ascending(s), NEW x \in Nat,
         \A i \in 1 .. Len(s) : s[i] < x,
         NEW m \in Nat, Listed(Saved(s), m)
  PROVE  Listed(Saved(Append(s, x)), m)
<1> DEFINE t == Append(s, x)
           a == Saved(s)
           b == Saved(t)
<1>1. /\ t \in Seq(Nat) /\ Len(t) = Len(s) + 1 /\ t[Len(s) + 1] = x
      /\ \A i \in 1 .. Len(s) : t[i] = s[i]
  OBVIOUS
<1>2. Len(s) \in Nat /\ IndexLimit \in Nat \ {0}
  OBVIOUS
<1> HIDE DEF t
<1>3. /\ a \in Seq(Nat) /\ (Len(s) <= IndexLimit => a = s)
      /\ Len(s) > IndexLimit => Len(a) = IndexLimit
      /\ \A i \in 1 .. Len(a) : a[i] = s[Len(s) - Len(a) + i]
  BY SavedAt
<1>4. /\ b \in Seq(Nat) /\ (Len(t) <= IndexLimit => b = t)
      /\ Len(t) > IndexLimit => Len(b) = IndexLimit
      /\ \A i \in 1 .. Len(b) : b[i] = t[Len(t) - Len(b) + i]
  BY <1>1, SavedAt
<1> HIDE DEF a, b
<1>5. CASE Len(t) <= IndexLimit
  <2>1. b = t /\ a = s /\ Len(s) # IndexLimit
    BY <1>1, <1>2, <1>3, <1>4, <1>5
  <2>2. PICK i \in 1 .. Len(s) : m = s[i]
    <3>1. m \in Entries(a)
      BY <2>1 DEF Listed, Newer, a
    <3> QED BY <2>1, <3>1 DEF Entries
  <2>3. i \in 1 .. Len(b) /\ b[i] = m
    BY <1>1, <1>2, <2>1, <2>2
  <2>4. m \in Entries(b)
    BY <1>4, <2>3 DEF Entries
  <2> QED BY <2>4 DEF Listed, b, t
<1>6. CASE ~(Len(t) <= IndexLimit)
  <2>1. Len(a) = IndexLimit /\ Len(b) = IndexLimit /\ Len(s) >= IndexLimit
    <3>1. Len(t) > IndexLimit /\ Len(s) >= IndexLimit
      BY <1>1, <1>2, <1>6
    <3>2. Len(b) = IndexLimit
      BY <1>4, <3>1
    <3>3. CASE Len(s) = IndexLimit
      BY <1>3, <3>1, <3>2, <3>3
    <3>4. CASE Len(s) # IndexLimit
      <4>1. Len(s) > IndexLimit
        BY <1>2, <3>1, <3>4
      <4> QED BY <1>3, <3>1, <3>2, <4>1
    <3> QED BY <3>3, <3>4
  <2>2. b[IndexLimit] = x
    <3>1. IndexLimit \in 1 .. Len(b) /\ Len(t) - Len(b) + IndexLimit = Len(s) + 1
      BY <1>1, <1>2, <2>1
    <3> QED BY <1>1, <1>4, <3>1
  <2>3. ASSUME NEW i \in 1 .. IndexLimit, i # IndexLimit
        PROVE  i + 1 \in 1 .. IndexLimit /\ b[i] = a[i + 1]
    <3>1. i + 1 \in 1 .. Len(a) /\ i \in 1 .. Len(b)
      BY <1>2, <2>1, <2>3
    <3>2. b[i] = t[Len(s) + 1 - IndexLimit + i]
      BY <1>1, <1>4, <2>1, <3>1
    <3>3. a[i + 1] = s[Len(s) - IndexLimit + (i + 1)]
      BY <1>3, <2>1, <3>1
    <3>4. /\ Len(s) + 1 - IndexLimit + i = Len(s) - IndexLimit + (i + 1)
          /\ Len(s) + 1 - IndexLimit + i \in 1 .. Len(s)
      BY <1>2, <2>1, <2>3
    <3> QED BY <1>1, <2>1, <3>1, <3>2, <3>3, <3>4
  <2>4. \A i \in 1 .. Len(a) : a[i] < x
    <3> SUFFICES ASSUME NEW i \in 1 .. Len(a) PROVE a[i] < x
      OBVIOUS
    <3>1. Len(s) - Len(a) + i \in 1 .. Len(s)
      BY <1>2, <2>1
    <3> QED BY <1>3, <3>1
  <2>5. \A i \in 1 .. Len(a) : a[i] \in Nat
    BY <1>3
  <2>6. CASE Newer(a, m)
    <3>1. \A i \in 1 .. Len(a) : a[i] > m
      BY <2>6 DEF Newer
    <3>2. ASSUME NEW i \in 1 .. Len(b) PROVE b[i] > m
      <4>1. CASE i = IndexLimit
        <5>1. 1 \in 1 .. Len(a)
          BY <1>2, <2>1
        <5>2. a[1] > m /\ a[1] < x /\ a[1] \in Nat
          BY <2>4, <2>5, <3>1, <5>1
        <5> QED BY <2>2, <4>1, <5>2
      <4>2. CASE i # IndexLimit
        BY <2>1, <2>3, <3>1, <4>2
      <4> QED BY <4>1, <4>2
    <3> QED BY <2>1, <3>2 DEF Listed, Newer, b, t
  <2>7. CASE m \in Entries(a)
    <3>1. PICK j \in 1 .. Len(a) : m = a[j]
      BY <1>3, <2>7 DEF Entries
    <3>2. CASE j # 1
      <4>1. j - 1 \in 1 .. IndexLimit /\ j - 1 # IndexLimit /\ (j - 1) + 1 = j
        BY <1>2, <2>1, <3>2
      <4>2. b[j - 1] = m /\ j - 1 \in 1 .. Len(b)
        BY <2>1, <2>3, <3>1, <4>1
      <4>3. m \in Entries(b)
        BY <1>4, <4>2 DEF Entries
      <4> QED BY <4>3 DEF Listed, b, t
    <3>3. CASE j = 1
      <4>1. Ascending(a)
        BY SavedAscends DEF a
      <4>2. ASSUME NEW i \in 1 .. Len(b) PROVE b[i] > m
        <5>1. CASE i = IndexLimit
          BY <2>2, <2>4, <2>5, <3>1, <5>1
        <5>2. CASE i # IndexLimit
          <6>1. i + 1 \in 1 .. Len(a) /\ b[i] = a[i + 1] /\ 1 < i + 1
            BY <2>1, <2>3, <5>2
          <6>2. a[1] < a[i + 1]
            BY <3>1, <3>3, <4>1, <6>1 DEF Ascending
          <6> QED BY <2>5, <3>1, <3>3, <6>1, <6>2
        <5> QED BY <5>1, <5>2
      <4> QED BY <2>1, <4>2 DEF Listed, Newer, b, t
    <3> QED BY <3>2, <3>3
  <2> QED BY <2>6, <2>7 DEF Listed, a
<1> QED BY <1>5, <1>6

(* A full index of later memories holds IndexLimit of them.                  *)
LEMMA FullOfLater ==
  ASSUME NEW s \in Seq(Nat), Ascending(s), NEW m \in Nat, Newer(s, m)
  PROVE  Cardinality({e \in Entries(s) : e > m}) = IndexLimit
<1> DEFINE S == Entries(s)
<1>1. {e \in S : e > m} = S
  BY DEF Newer, Entries
<1>2. Len(s) = IndexLimit /\ DOMAIN s = 1 .. IndexLimit
  BY DEF Newer
<1>3. s \in Bijection(1 .. IndexLimit, S)
  <2>1. s \in [1 .. IndexLimit -> S] /\ \A e \in S : \E i \in 1 .. IndexLimit : s[i] = e
    BY <1>2 DEF Entries
  <2>2. ASSUME NEW i \in 1 .. IndexLimit, NEW j \in 1 .. IndexLimit, s[i] = s[j]
        PROVE  i = j
    <3>1. s[i] \in Nat /\ s[j] \in Nat
      BY <1>2
    <3>2. ~(i < j) /\ ~(j < i)
      BY <1>2, <2>2, <3>1 DEF Ascending
    <3> QED BY <3>2
  <2> QED BY <2>1, <2>2 DEF Bijection, Injection, Surjection, IsInjective
<1>4. ExistsBijection(1 .. IndexLimit, S)
  BY <1>3 DEF ExistsBijection
<1> QED BY <1>1, <1>4, FS_CountingElements

(* The list of a process is ordered, and saving it drops nothing that was    *)
(* listed when the process read or wrote the file.                           *)
Follows(g) ==
  /\ Ascending(gate[g].index)
  /\ \A m \in Nat : Listed(gate[g].known, m) => Listed(Saved(gate[g].index), m)

(* The inductive invariant: the file is ordered too, every process follows   *)
(* what it knows of it, and what was remembered is listed.                   *)
Recall ==
  /\ Ascending(indexFile)
  /\ \A g \in Gates : Follows(g)
  /\ overlapped \/ \A m \in remembered : Listed(indexFile, m)

(* Only a put and a save change what a process with the gate open lists.     *)
LEMMA ListKept ==
  ASSUME Shape, NEW g \in Gates, Own(g), ~Open(g), ~Close(g), ~Put(g), ~SaveIndex(g)
  PROVE  /\ gate'[g].index = gate[g].index /\ gate'[g].known = gate[g].known
         /\ UNCHANGED <<indexFile, remembered, overlapped>>
<1>0. TypeOK /\ gate[g] \in States /\ gate = [p \in Gates |-> gate[p]]
  BY DEF Shape, TypeOK, States
<1>1. ASSUME EndExchange(g)
      PROVE  gate'[g].index = gate[g].index /\ gate'[g].known = gate[g].known
  BY <1>0, <1>1 DEF EndExchange, Rest
<1>2. ASSUME NEW text, NEW tries, Send(g, text, tries)
      PROVE  gate'[g].index = gate[g].index /\ gate'[g].known = gate[g].known
  BY <1>0, <1>2 DEF Send, States
<1>3. CASE SendWithContext(g) \/ SendDirect(g)
  BY <1>2, <1>3 DEF SendWithContext, SendDirect
<1>4. CASE TakeSlowPath(g)
  BY <1>0, <1>4 DEF TakeSlowPath, States
<1>5. CASE ModelFails(g) \/ SaveFails(g) \/ PutFails(g)
  BY <1>1, <1>5 DEF ModelFails, SaveFails, PutFails
<1>6. ASSUME NEW text \in SUBSET Facts, Abstract(g, text)
      PROVE  /\ gate'[g].index = gate[g].index /\ gate'[g].known = gate[g].known
             /\ UNCHANGED <<indexFile, remembered, overlapped>>
  <2>1. CASE gate' = [gate EXCEPT ![g].tries = @ + 1]
    BY <1>0, <1>6, <2>1 DEF Abstract, States
  <2>2. CASE Send(g, text, gate[g].tries + 1) \/ EndExchange(g)
    BY <1>1, <1>2, <1>6, <2>2 DEF Abstract
  <2> QED BY <1>6, <2>1, <2>2 DEF Abstract
<1>7. ASSUME NEW reply \in SUBSET Facts, Reply(g, reply)
      PROVE  /\ gate'[g].index = gate[g].index /\ gate'[g].known = gate[g].known
             /\ UNCHANGED <<indexFile, remembered, overlapped>>
  <2>1. CASE gate[g].stores
    <3> DEFINE told == << [facts |-> gate[g].message, by |-> "user"],
                          [facts |-> reply, by |-> "assistant"] >>
               s == [Rest("storing", gate[g].index, gate[g].known) EXCEPT
                       !.class = gate[g].class, !.todo = told]
    <3>1. gate' = [gate EXCEPT ![g] = s]
      BY <1>7, <2>1 DEF Reply
    <3>2. s.index = gate[g].index /\ s.known = gate[g].known
      BY DEF Rest
    <3> HIDE DEF s
    <3> QED BY <1>0, <1>7, <3>1, <3>2 DEF Reply
  <2>2. CASE ~gate[g].stores
    BY <1>1, <1>7, <2>2 DEF Reply
  <2> QED BY <2>1, <2>2
<1>8. ASSUME NEW facts \in SUBSET Facts, NEW class \in InUse, Remember(g, facts, class)
      PROVE  /\ gate'[g].index = gate[g].index /\ gate'[g].known = gate[g].known
             /\ UNCHANGED <<indexFile, remembered, overlapped>>
  BY <1>0, <1>8 DEF Remember, States
<1>9. ASSUME NEW claimed \in Tiers, NEW granted \in Tiers,
             NEW message \in SUBSET Facts, NEW class \in InUse,
             NEW stores \in BOOLEAN, NEW n \in Recalls,
             Ask(g, claimed, granted, message, class, stores, n)
      PROVE  /\ gate'[g].index = gate[g].index /\ gate'[g].known = gate[g].known
             /\ UNCHANGED <<indexFile, remembered, overlapped>>
  <2>1. UNCHANGED <<indexFile, remembered, overlapped>>
    BY <1>9 DEF Ask
  <2>2. \E readable \in SUBSET Entries(Recent(gate[g].index, n)) :
          gate' = [gate EXCEPT
            ![g].at = "released", ![g].tier = granted,
            ![g].class = IF stores THEN class ELSE @,
            ![g].message = message, ![g].stores = stores,
            ![g].released = Release(g, claimed, granted, readable)]
    BY <1>9 DEF Ask
  <2> QED BY <1>0, <2>1, <2>2 DEF States
<1>10. Works(g) => UNCHANGED <<indexFile, remembered, overlapped>>
  <2>1. CASE SendWithContext(g) \/ SendDirect(g) \/ TakeSlowPath(g)
    BY <2>1 DEF SendWithContext, SendDirect, TakeSlowPath
  <2>2. CASE ModelFails(g) \/ PutFails(g) \/ SaveFails(g)
    BY <2>2 DEF ModelFails, PutFails, SaveFails
  <2> QED BY <1>6, <1>7, <2>1, <2>2 DEF Works
<1>11. CASE Works(g)
  BY <1>3, <1>4, <1>5, <1>6, <1>7, <1>10, <1>11 DEF Works
<1> QED BY <1>8, <1>9, <1>11 DEF Own

(* What each step does to the lists and the file, one case per operation.    *)
LEMMA RecallStep == Shape /\ Recall /\ [Next]_vars => Recall'
<1> SUFFICES ASSUME Shape, Recall, [Next]_vars PROVE Recall'
  OBVIOUS
<1>0. TypeOK /\ Pending /\ gate = [p \in Gates |-> gate[p]]
  BY DEF Shape, TypeOK
<1>a. \A g \in Gates : gate[g].index \in Seq(Nat) /\ gate[g].known \in Seq(Nat)
  <2>1. Seq(Numbers) \subseteq Seq(Nat)
    BY <1>0 DEF TypeOK, Numbers
  <2> QED BY <1>0, <2>1 DEF TypeOK
<1>b. indexFile \in Seq(Nat) /\ Len(indexFile) <= IndexLimit
  BY <1>0 DEF TypeOK, Numbers
<1>1. ASSUME NEW g \in Gates, gate'[g].index = gate[g].index,
             gate'[g].known = gate[g].known
      PROVE  Follows(g)'
  BY <1>1 DEF Recall, Follows
<1>2. ASSUME NEW h \in Gates, Own(h), UNCHANGED <<indexFile, remembered, overlapped>>,
             Follows(h)'
      PROVE  Recall'
  <2>1. \A g \in Gates : Follows(g)'
    BY <1>0, <1>1, <1>2, OthersRest
  <2> QED BY <1>2, <2>1 DEF Recall
<1>3. ASSUME NEW h \in Gates, Own(h), ~Open(h), ~Close(h), ~Put(h), ~SaveIndex(h)
      PROVE  Recall'
  BY <1>1, <1>2, <1>3, ListKept
<1>4. ASSUME NEW s \in Seq(Nat), Ascending(s), Len(s) <= IndexLimit, NEW h \in Gates,
             gate'[h].index = s, gate'[h].known = s
      PROVE  Follows(h)'
  <2>1. Saved(s) = s
    BY <1>4, SavedAt
  <2> QED BY <1>4, <2>1 DEF Follows
<1>5. ASSUME NEW h \in Gates, Open(h) PROVE Recall'
  <2>1. gate'[h].index = indexFile /\ gate'[h].known = indexFile
    BY <1>0, <1>5 DEF Open, Rest
  <2>2. Follows(h)'
    BY <1>4, <1>b, <2>1 DEF Recall
  <2> QED BY <1>2, <1>5, <2>2 DEF Own, Open
<1>6. ASSUME NEW h \in Gates, Close(h) PROVE Recall'
  <2>1. gate'[h].index = <<>> /\ gate'[h].known = <<>>
    BY <1>0, <1>6 DEF Close, Rest
  <2>2. <<>> \in Seq(Nat) /\ Len(<<>>) = 0 /\ Ascending(<<>>)
    BY DEF Ascending
  <2>3. Follows(h)'
    BY <1>4, <2>1, <2>2
  <2> QED BY <1>2, <1>6, <2>3 DEF Own, Close
<1>7. ASSUME NEW h \in Gates, Put(h) PROVE Recall'
  <2> DEFINE s == gate[h].index
             x == Len(keep) + 1
  <2>1. gate[h].at = "storing" /\ keep' = Stored(h)
    BY <1>7 DEF Put
  <2>2. Len(keep) \in Nat /\ Len(keep') = x
    BY <1>0, <2>1, StoredType DEF TypeOK
  <2>3. gate'[h].index = Append(s, x) /\ gate'[h].known = gate[h].known
    BY <1>0, <1>7, <2>2 DEF Put, TypeOK
  <2>4. s \in Seq(Nat) /\ x \in Nat /\ \A i \in 1 .. Len(s) : s[i] < x
    <3>1. s \in Seq(1 .. Len(keep))
      BY <1>0 DEF TypeOK, Numbers
    <3>2. \A i \in 1 .. Len(s) : s[i] \in 1 .. Len(keep)
      BY <3>1
    <3> QED BY <1>a, <2>2, <3>2
  <2>5. Ascending(s) /\ \A m \in Nat : Listed(gate[h].known, m) => Listed(Saved(s), m)
    BY DEF Recall, Follows
  <2> HIDE DEF s, x
  <2>6. Ascending(Append(s, x))
    <3>1. /\ Append(s, x) \in Seq(Nat) /\ Len(Append(s, x)) = Len(s) + 1
          /\ Append(s, x)[Len(s) + 1] = x
          /\ \A i \in 1 .. Len(s) : Append(s, x)[i] = s[i]
      BY <2>4
    <3>2. Len(s) \in Nat
      BY <2>4
    <3> QED BY <2>4, <2>5, <3>1, <3>2 DEF Ascending
  <2>7. \A m \in Nat : Listed(gate[h].known, m) => Listed(Saved(Append(s, x)), m)
    BY <2>4, <2>5, StillListed
  <2>8. Follows(h)'
    BY <2>3, <2>6, <2>7 DEF Follows
  <2>9. Own(h) /\ UNCHANGED <<indexFile, remembered, overlapped>>
    BY <1>7 DEF Own, Works, Put
  <2> QED BY <1>2, <2>8, <2>9
<1>8. ASSUME NEW h \in Gates, SaveIndex(h) PROVE Recall'
  <2> DEFINE s == gate[h].index
             f == Saved(s)
  <2>1. /\ indexFile' = f /\ gate' = [gate EXCEPT ![h] = AfterSave(h)]
        /\ remembered' = remembered \cup {s[Len(s)]}
        /\ overlapped' = (overlapped \/ indexFile # gate[h].known)
    BY <1>8 DEF SaveIndex
  <2>2. s \in Seq(Nat) /\ s # <<>> /\ Ascending(s)
    BY <1>0, <1>8, <1>a DEF SaveIndex, Pending, Recall, Follows
  <2>3. Len(s) \in Nat \ {0} /\ s[Len(s)] \in Nat
    BY <2>2
  <2>4. f \in Seq(Nat) /\ Ascending(f) /\ Len(f) <= IndexLimit
    BY <2>2, LastOfType, SavedAscends DEF Saved
  <2>5. s[Len(s)] \in Entries(f)
    <3>1. /\ f \in Seq(Nat) /\ (Len(s) <= IndexLimit => f = s)
          /\ Len(s) > IndexLimit => Len(f) = IndexLimit
          /\ \A i \in 1 .. Len(f) : f[i] = s[Len(s) - Len(f) + i]
      BY <2>2, SavedAt
    <3> HIDE DEF f, s
    <3>2. Len(f) \in 1 .. Len(f) /\ Len(s) - Len(f) + Len(f) = Len(s)
      BY <2>3, <3>1
    <3>3. f[Len(f)] = s[Len(s)]
      BY <3>1, <3>2
    <3> QED BY <3>1, <3>2, <3>3 DEF Entries
  <2>6. gate'[h].index = s /\ gate'[h].known = f
    <3>1. gate'[h] = AfterSave(h)
      BY <1>0, <2>1
    <3>2. CASE Len(gate[h].todo) > 1
      <4>1. AfterSave(h) = [gate[h] EXCEPT !.at = "storing", !.todo = Tail(@), !.known = f]
        BY <2>1, <3>2 DEF AfterSave
      <4>2. gate[h] \in States
        BY <1>0 DEF TypeOK, States
      <4> HIDE DEF f
      <4> QED BY <3>1, <4>1, <4>2 DEF States
    <3>3. CASE ~(Len(gate[h].todo) > 1)
      BY <2>1, <3>1, <3>3 DEF AfterSave, Rest
    <3> QED BY <3>2, <3>3
  <2>7. Follows(h)'
    BY <2>2, <2>6 DEF Follows
  <2>8. \A g \in Gates : Follows(g)'
    <3>1. Own(h)
      BY <1>8 DEF Own, Works
    <3> QED BY <1>0, <1>1, <2>7, <3>1, OthersRest
  <2>9. ASSUME ~overlapped', NEW m \in remembered' PROVE Listed(f, m)
    <3>1. ~overlapped /\ indexFile = gate[h].known
      BY <1>0, <2>1, <2>9 DEF TypeOK
    <3>2. CASE m = s[Len(s)]
      BY <2>5, <3>2 DEF Listed
    <3>3. CASE m \in remembered
      <4>1. m \in Nat
        BY <1>0, <3>3 DEF TypeOK, Numbers
      <4>2. Listed(indexFile, m)
        BY <3>1, <3>3 DEF Recall
      <4> QED BY <3>1, <4>1, <4>2 DEF Recall, Follows
    <3> QED BY <2>1, <2>9, <3>2, <3>3
  <2>10. Ascending(indexFile') /\ (overlapped' \/ \A m \in remembered' : Listed(indexFile', m))
    BY <2>1, <2>4, <2>9
  <2> QED BY <2>8, <2>10 DEF Recall
<1>9. CASE UNCHANGED vars
  BY <1>9 DEF vars, Recall, Follows
<1>10. Next => \E h \in Gates : Own(h)
  BY DEF Next, Own
<1> QED BY <1>3, <1>5, <1>6, <1>7, <1>8, <1>9, <1>10

(* A memory whose remember() returned is in the index file, or IndexLimit    *)
(* later ones are, unless a process wrote over an index it never read: for   *)
(* any number of processes, whatever fails and whoever dies in between.      *)
THEOREM RememberedStaysListed == Spec => []RememberedIsListed
<1>1. Init => Recall
  <2> SUFFICES ASSUME Init PROVE Recall
    OBVIOUS
  <2>1. indexFile = <<>> /\ remembered = {}
        /\ \A g \in Gates : gate[g].index = <<>> /\ gate[g].known = <<>>
    BY DEF Init, Rest
  <2>2. <<>> \in Seq(Nat) /\ Len(<<>>) = 0 /\ Ascending(<<>>)
    BY DEF Ascending
  <2>3. Saved(<<>>) = <<>>
    BY <2>2 DEF Saved, LastOf
  <2> QED BY <2>1, <2>2, <2>3 DEF Recall, Follows
<1>2. Shape /\ Recall => RememberedIsListed
  <2> SUFFICES ASSUME Shape, Recall, ~overlapped, NEW m \in remembered,
                      m \notin Entries(indexFile)
               PROVE  Cardinality({e \in Entries(indexFile) : e > m}) = IndexLimit
    BY DEF RememberedIsListed
  <2>1. indexFile \in Seq(Nat) /\ m \in Nat
    BY DEF Shape, TypeOK, Numbers
  <2>2. Ascending(indexFile) /\ Newer(indexFile, m)
    BY DEF Recall, Listed
  <2> QED BY <2>1, <2>2, FullOfLater
<1> QED BY <1>1, <1>2, ShapeInit, ShapeStep, RecallStep, PTL DEF Spec
=============================================================================
