------------------------------ MODULE Client_proof ------------------------------
(* What one's own side makes of what others hand over. First the replicated    *)
(* client, which trusts no node by itself: for any nodes, clients and contents, *)
(* and any quorum large enough that two of them meet in an honest node. Then    *)
(* the verdicts on a host's document, a proof of knowledge, a question's       *)
(* receipt, the bridge's words, the nodes that are found and audited, and the   *)
(* texts that go out in placeholders: for any inputs of their types, and a     *)
(* group of any prime order. A theorem is about one of the two specifications.  *)
EXTENDS Replication, Verdicts, FiniteSetTheorems, WellFoundedInduction, TLAPS

QuorumsMeet == 2 * quorum > Cardinality(Nodes) + Cardinality(Hostile)

(* The honest nodes that know the identifier. *)
Keepers(i) == {n \in Honest : held[n][i] # Absent}

MostHonest(S) == Cardinality(S) + Cardinality(Hostile) >= quorum

(* What is stored or put was encrypted by a client. *)
HeldWasMade ==
  /\ \A n \in Honest, i \in Ids :
       held[n][i] # Absent => <<i, held[n][i]>> \in made
  /\ \A c \in Clients :
       op[c].kind = "put" => <<op[c].id, op[c].content>> \in made

(* An honest node's answer says what the node holds. *)
AnswersAreHeld ==
  \A c \in Clients, n \in Nodes : answer[c][n] \in Contents =>
    /\ op[c].kind = "get" =>
         /\ <<op[c].id, answer[c][n]>> \in made
         /\ n \in Honest => held[n][op[c].id] = answer[c][n]
    /\ op[c].kind = "put" /\ n \in Honest => held[n][op[c].id] # Absent

PutsAreHeld == \A r \in puts : MostHonest(Keepers(r[1]))
ReadsAreHeld == \A r \in reads : MostHonest(Holders(r[1], r[2]))

IInv == /\ TypeOK /\ HeldWasMade /\ AnswersAreHeld
        /\ PutsAreHeld /\ ReadsAreHeld

--------------------------------------------------------------------------
LEMMA NodesFinite ==
  /\ IsFiniteSet(Nodes) /\ IsFiniteSet(Honest) /\ IsFiniteSet(Hostile)
  /\ Cardinality(Nodes) \in Nat /\ Cardinality(Hostile) \in Nat
  /\ quorum \in Nat \ {0}
<1>1. Honest \in SUBSET Nodes /\ Hostile \in SUBSET Nodes
  BY ConstantsAssumption DEF Honest
<1>2. IsFiniteSet(Nodes) /\ IsFiniteSet(Honest) /\ IsFiniteSet(Hostile)
  BY <1>1, ConstantsAssumption, FS_Subset
<1>3. Cardinality(Nodes) \in Nat /\ Cardinality(Hostile) \in Nat
  BY <1>2, FS_CardinalityType
<1>4. quorum \in Nat \ {0}
  BY <1>3, ConstantsAssumption
<1>5. QED
  BY <1>2, <1>3, <1>4

(* Of a quorum's nodes, all but the hostile ones are honest. *)
LEMMA QuorumIsMostlyHonest ==
  ASSUME NEW S, S \subseteq Nodes, Cardinality(S) >= quorum,
         NEW T, T \subseteq Honest, S \ Hostile \subseteq T
  PROVE  MostHonest(T)
<1>1. S \subseteq T \cup Hostile
  OBVIOUS
<1>2. IsFiniteSet(S) /\ IsFiniteSet(T) /\ IsFiniteSet(T \cap Hostile)
  BY NodesFinite, FS_Subset DEF Honest
<1>3. /\ IsFiniteSet(T \cup Hostile)
      /\ Cardinality(T \cup Hostile)
           = Cardinality(T) + Cardinality(Hostile) - Cardinality(T \cap Hostile)
  BY <1>2, NodesFinite, FS_Union
<1>4. Cardinality(S) <= Cardinality(T \cup Hostile)
  BY <1>1, <1>3, FS_Subset
<1>5. /\ Cardinality(S) \in Nat /\ Cardinality(T) \in Nat
      /\ Cardinality(T \cap Hostile) \in Nat
  BY <1>2, FS_CardinalityType
<1>6. QED
  BY <1>3, <1>4, <1>5, NodesFinite DEF MostHonest

LEMMA MostHonestGrows ==
  ASSUME NEW S, NEW T, S \subseteq T, T \subseteq Honest, MostHonest(S)
  PROVE  MostHonest(T)
<1>1. IsFiniteSet(S) /\ IsFiniteSet(T) /\ Cardinality(S) <= Cardinality(T)
  BY NodesFinite, FS_Subset
<1>2. Cardinality(S) \in Nat /\ Cardinality(T) \in Nat
  BY <1>1, FS_CardinalityType
<1>3. QED
  BY <1>1, <1>2, NodesFinite DEF MostHonest

(* Two quorums have an honest node in common. *)
LEMMA TwoQuorumsMeet ==
  ASSUME QuorumsMeet, NEW S, NEW T, S \subseteq Honest, T \subseteq Honest,
         MostHonest(S), MostHonest(T)
  PROVE  S \cap T # {}
<1>1. SUFFICES ASSUME S \cap T = {} PROVE FALSE
  OBVIOUS
<1>2. IsFiniteSet(S) /\ IsFiniteSet(T) /\ IsFiniteSet(S \cup T)
  BY NodesFinite, FS_Subset, FS_Union
<1>3. /\ Cardinality(S) \in Nat /\ Cardinality(T) \in Nat
      /\ Cardinality(S \cap T) = 0
  BY <1>1, <1>2, FS_CardinalityType, FS_EmptySet
<1>4. Cardinality(S \cup T) = Cardinality(S) + Cardinality(T)
  BY <1>2, <1>3, FS_Union
<1>5. (S \cup T) \cap Hostile = {} /\ (S \cup T) \cup Hostile \in SUBSET Nodes
  BY ConstantsAssumption DEF Honest
<1>6. Cardinality((S \cup T) \cup Hostile)
        = Cardinality(S \cup T) + Cardinality(Hostile)
  <2>1. Cardinality((S \cup T) \cap Hostile) = 0
    BY <1>5, FS_EmptySet
  <2>2. Cardinality((S \cup T) \cup Hostile) = Cardinality(S \cup T)
          + Cardinality(Hostile) - Cardinality((S \cup T) \cap Hostile)
    BY <1>2, NodesFinite, FS_Union
  <2>3. Cardinality(S \cup T) \in Nat
    BY <1>3, <1>4
  <2>4. QED
    BY <2>1, <2>2, <2>3, NodesFinite
<1>7. Cardinality((S \cup T) \cup Hostile) <= Cardinality(Nodes)
  BY <1>5, NodesFinite, FS_Subset
<1>8. QED
  BY <1>3, <1>4, <1>6, <1>7, NodesFinite DEF MostHonest, QuorumsMeet

--------------------------------------------------------------------------
THEOREM InitIsRight == Init => IInv
<1>1. SUFFICES ASSUME Init PROVE IInv
  OBVIOUS
<1>2. Absent \notin Contents /\ Failed \notin Contents
  BY ConstantsAssumption
<1>3. TypeOK
  BY <1>1 DEF Init, TypeOK, Call, Answer
<1>4. QED
  BY <1>1, <1>2, <1>3 DEF Init, IInv, HeldWasMade, AnswersAreHeld, PutsAreHeld,
     ReadsAreHeld, Idle, Honest

(* No step makes an honest node forget or change what it holds. *)
LEMMA HeldStays ==
  ASSUME TypeOK, [Next]_vars, NEW n \in Nodes, NEW i \in Ids,
         held[n][i] # Absent
  PROVE  held'[n][i] = held[n][i]
<1>1. CASE UNCHANGED held
  BY <1>1
<1>2. CASE \E c \in Clients, m \in Nodes : ServePut(c, m)
  <2>1. PICK c \in Clients, m \in Nodes : ServePut(c, m)
    BY <1>2
  <2>2. held' = [held EXCEPT ![m] = Kept(@, op[c].id, op[c].content)]
    BY <2>1 DEF ServePut
  <2>3. QED
    BY <2>2 DEF TypeOK, Kept
<1>3. QED
  BY <1>1, <1>2 DEF Next, vars, BeginGet, BeginPut, Begin, ServeGet, ServeHostile,
     Lose, FinishPut, FinishGet, Return

LEMMA MadeGrows ==
  ASSUME [Next]_vars PROVE made \subseteq made'
BY DEF Next, vars, history, BeginGet, BeginPut, ServePut, ServeGet, ServeHostile,
   Lose, Hear, FinishPut, FinishGet, Return

(* What quorums of honest nodes kept, they keep. *)
LEMMA QuorumsKeep ==
  ASSUME TypeOK, [Next]_vars
  PROVE  /\ \A i \in Ids : MostHonest(Keepers(i)) => MostHonest(Keepers(i)')
         /\ \A i \in Ids, v \in Contents :
              MostHonest(Holders(i, v)) => MostHonest(Holders(i, v)')
<1>1. ASSUME NEW i \in Ids PROVE Keepers(i) \subseteq Keepers(i)'
  BY <1>1, HeldStays DEF Keepers, Honest
<1>2. ASSUME NEW i \in Ids, NEW v \in Contents
      PROVE  Holders(i, v) \subseteq Holders(i, v)'
  BY <1>2, HeldStays, ConstantsAssumption DEF Holders, Honest
<1>3. /\ \A i \in Ids : Keepers(i)' \subseteq Honest
      /\ \A i \in Ids, v \in Contents : Holders(i, v)' \subseteq Honest
  BY DEF Keepers, Holders
<1>4. QED
  BY <1>1, <1>2, <1>3, MostHonestGrows

LEMMA StepIsRight == IInv /\ [Next]_vars => IInv'
<1> SUFFICES ASSUME IInv, [Next]_vars PROVE IInv'
  OBVIOUS
<1> USE DEF IInv
<1>0. /\ Absent \notin Contents /\ Failed \notin Contents
      /\ Waiting \notin Contents /\ Waiting # Failed
  BY ConstantsAssumption
<1>a. /\ \A n \in Nodes, i \in Ids :
           held[n][i] # Absent => held'[n][i] = held[n][i]
      /\ made \subseteq made'
  BY HeldStays, MadeGrows
<1>k. /\ \A r \in puts : MostHonest(Keepers(r[1])')
      /\ \A r \in reads : MostHonest(Holders(r[1], r[2])')
  BY QuorumsKeep DEF TypeOK, Record, PutsAreHeld, ReadsAreHeld
<1>1. ASSUME NEW c \in Clients, NEW call \in Call, Begin(c, call), made' \subseteq Record,
             call.kind = "put" => <<call.id, call.content>> \in made'
      PROVE  IInv'
  <2>1. /\ op' = [op EXCEPT ![c] = call]
        /\ answer' = [answer EXCEPT ![c] = [n \in Nodes |-> Waiting]]
        /\ UNCHANGED <<held, puts, reads>>
    BY <1>1 DEF Begin
  <2>2. op' \in [Clients -> Call] /\ answer' \in [Clients -> [Nodes -> Answer]]
    BY <1>1, <2>1 DEF TypeOK, Answer
  <2>3. TypeOK'
    BY <1>1, <1>a, <2>1, <2>2 DEF TypeOK
  <2>4. HeldWasMade'
    BY <1>1, <1>a, <2>1 DEF HeldWasMade, TypeOK
  <2>5. \A d \in Clients, n \in Nodes : answer'[d][n] \in Contents =>
          d # c /\ answer'[d][n] = answer[d][n] /\ op'[d] = op[d]
    BY <1>0, <2>1 DEF TypeOK
  <2>6. AnswersAreHeld'
    BY <1>a, <2>1, <2>5 DEF AnswersAreHeld
  <2>7. QED
    BY <1>k, <2>1, <2>3, <2>4, <2>6 DEF PutsAreHeld, ReadsAreHeld
<1>2. ASSUME NEW c \in Clients, NEW n \in Nodes, ServePut(c, n)
      PROVE  IInv'
  <2>1. op[c] \in [kind : {"put"}, id : Ids, content : Contents]
    BY <1>2 DEF ServePut, TypeOK, Call, Idle
  <2>2. PICK a \in {op[c].content, Failed} : Hear(c, n, a)
    BY <1>2 DEF ServePut
  <2>3. /\ answer' = [answer EXCEPT ![c][n] = a]
        /\ UNCHANGED <<op, history>>
        /\ held' = [held EXCEPT ![n] = Kept(@, op[c].id, op[c].content)]
        /\ n \in Honest
    BY <1>2, <2>2 DEF ServePut, Hear, Honest
  <2>4. TypeOK'
    BY <2>1, <2>3 DEF TypeOK, Answer, Kept, history
  <2>5. HeldWasMade'
    BY <2>1, <2>3, <1>a DEF HeldWasMade, TypeOK, Kept, history, Honest
  <2>6. held'[n][op[c].id] # Absent
    BY <2>1, <2>3, <1>0 DEF TypeOK, Kept
  <2>7. AnswersAreHeld'
    <3>1. ASSUME NEW d \in Clients, NEW m \in Nodes, answer'[d][m] \in Contents
          PROVE  \/ d = c /\ m = n
                 \/ answer'[d][m] = answer[d][m]
      BY <2>3 DEF TypeOK
    <3>2. UNCHANGED <<op, made>>
      BY <2>3 DEF history
    <3>3. \A d \in Clients, m \in Nodes : m \in Honest =>
            \A i \in Ids : held[m][i] # Absent => held'[m][i] = held[m][i]
      BY <1>a
    <3>4. ASSUME NEW d \in Clients, NEW m \in Nodes, answer'[d][m] \in Contents
          PROVE  /\ op'[d].kind = "get" =>
                      /\ <<op'[d].id, answer'[d][m]>> \in made'
                      /\ m \in Honest => held'[m][op'[d].id] = answer'[d][m]
                 /\ op'[d].kind = "put" /\ m \in Honest => held'[m][op'[d].id] # Absent
      <4>1. CASE d = c /\ m = n
        BY <2>1, <2>6, <3>2, <4>1
      <4>2. CASE answer'[d][m] = answer[d][m]
        <5>1. op[d].kind \in {"get", "put"} => op[d].id \in Ids
          BY DEF TypeOK, Call, Idle
        <5>2. QED
          BY <1>0, <1>a, <3>2, <3>4, <4>2, <5>1 DEF AnswersAreHeld
      <4>3. QED
        BY <3>1, <3>4, <4>1, <4>2
    <3>5. QED
      BY <3>4 DEF AnswersAreHeld, Honest
  <2>8. QED
    BY <2>3, <2>4, <2>5, <2>7, <1>k DEF PutsAreHeld, ReadsAreHeld, history
<1>3. ASSUME NEW c \in Clients, NEW n \in Nodes, NEW a \in Answer,
             Hear(c, n, a), UNCHANGED held, op[c] # Idle,
             \/ a = Failed
             \/ /\ <<op[c].id, a>> \in made
                /\ n \in Honest => op[c].kind = "get" /\ held[n][op[c].id] = a
      PROVE  IInv'
  <2> USE DEF Hear, history
  <2>1. TypeOK'
    BY <1>3 DEF TypeOK
  <2>2. HeldWasMade'
    BY <1>3 DEF HeldWasMade
  <2>3. AnswersAreHeld'
    <3>1. \A d \in Clients, m \in Nodes :
            answer'[d][m] = IF d = c /\ m = n THEN a ELSE answer[d][m]
      BY <1>3 DEF TypeOK
    <3>2. op[c].kind = "put" => op[c].kind # "get"
      OBVIOUS
    <3>3. UNCHANGED <<op, made, held>>
      BY <1>3
    <3>4. ASSUME NEW d \in Clients, NEW m \in Nodes, answer'[d][m] \in Contents
          PROVE  /\ op'[d].kind = "get" =>
                      /\ <<op'[d].id, answer'[d][m]>> \in made'
                      /\ m \in Honest => held'[m][op'[d].id] = answer'[d][m]
                 /\ op'[d].kind = "put" /\ m \in Honest => held'[m][op'[d].id] # Absent
      <4>1. CASE d = c /\ m = n
        <5>1. answer'[d][m] = a /\ a # Failed
          BY <1>0, <3>1, <3>4, <4>1
        <5>2. /\ <<op[c].id, a>> \in made
              /\ n \in Honest => op[c].kind = "get" /\ held[n][op[c].id] = a
          BY <1>3, <5>1
        <5>3. QED
          BY <3>3, <4>1, <5>1, <5>2
      <4>2. CASE ~(d = c /\ m = n)
        BY <3>1, <3>3, <3>4, <4>2 DEF AnswersAreHeld
      <4>3. QED
        BY <4>1, <4>2
    <3>5. QED
      BY <3>4 DEF AnswersAreHeld, Honest
  <2>4. QED
    BY <1>3, <1>k, <2>1, <2>2, <2>3 DEF PutsAreHeld, ReadsAreHeld
<1>4. ASSUME NEW c \in Clients, NEW n \in Nodes,
             ServeGet(c, n) \/ ServeHostile(c, n) \/ Lose(c, n)
      PROVE  IInv'
  <2>1. CASE ServeGet(c, n)
    <3>1. op[c] \in [kind : {"get"}, id : Ids] /\ n \in Honest
      BY <2>1 DEF ServeGet, TypeOK, Call, Idle, Honest
    <3>2. CASE held[n][op[c].id] = Absent
      <4>1. Hear(c, n, Failed) /\ UNCHANGED held /\ op[c] # Idle /\ Failed \in Answer
        BY <2>1, <3>1, <3>2 DEF ServeGet, Answer, Idle
      <4>2. QED
        BY <1>3, <4>1
    <3>3. CASE held[n][op[c].id] # Absent
      <4>1. held[n][op[c].id] \in Contents /\ <<op[c].id, held[n][op[c].id]>> \in made
        BY <3>1, <3>3 DEF TypeOK, Honest, HeldWasMade
      <4>2. QED
        BY <1>3, <2>1, <3>1, <3>3, <4>1 DEF ServeGet, Answer, Idle
    <3>4. QED
      BY <3>2, <3>3
  <2>2. CASE ServeHostile(c, n)
    BY <1>3, <2>2 DEF ServeHostile, Answer, Honest
  <2>3. CASE Lose(c, n)
    <3>1. Hear(c, n, Failed) /\ UNCHANGED held /\ op[c] # Idle /\ Failed \in Answer
      BY <2>3 DEF Lose, Answer
    <3>2. QED
      BY <1>3, <3>1
  <2>4. QED
    BY <1>4, <2>1, <2>2, <2>3
<1>5. ASSUME NEW c \in Clients, Return(c),
             puts' \subseteq made, reads' \subseteq made,
             \A r \in puts' \ puts : MostHonest(Keepers(r[1])),
             \A r \in reads' \ reads : MostHonest(Holders(r[1], r[2]))
      PROVE  IInv'
  <2> USE DEF Return
  <2>1. TypeOK'
    BY <1>5 DEF TypeOK, Call, Answer
  <2>2. HeldWasMade'
    BY <1>5 DEF HeldWasMade, Idle, TypeOK
  <2>3. AnswersAreHeld'
    BY <1>5, <1>0 DEF AnswersAreHeld, TypeOK
  <2>4. PutsAreHeld' /\ ReadsAreHeld'
    <3>1. Keepers(0)' = Keepers(0) /\ \A i : Keepers(i)' = Keepers(i)
      BY <1>5 DEF Keepers
    <3>2. \A i, v : Holders(i, v)' = Holders(i, v)
      BY <1>5 DEF Holders
    <3>3. QED
      BY <1>5, <3>1, <3>2 DEF PutsAreHeld, ReadsAreHeld, MostHonest
  <2>5. QED
    BY <2>1, <2>2, <2>3, <2>4
<1>6. ASSUME NEW c \in Clients, FinishPut(c) PROVE IInv'
  <2>1. op[c] \in [kind : {"put"}, id : Ids, content : Contents]
    BY <1>6 DEF FinishPut, TypeOK, Call, Idle
  <2>2. ASSUME Cardinality(Backers(c, op[c].content)) >= quorum
        PROVE  MostHonest(Keepers(op[c].id))
    <3>1. Backers(c, op[c].content) \ Hostile \subseteq Keepers(op[c].id)
      BY <2>1 DEF Backers, Keepers, AnswersAreHeld, Honest
    <3>2. Backers(c, op[c].content) \subseteq Nodes /\ Keepers(op[c].id) \subseteq Honest
      BY DEF Backers, Keepers
    <3>3. QED
      BY <2>2, <3>1, <3>2, QuorumIsMostlyHonest
  <2>3. <<op[c].id, op[c].content>> \in made
    BY <2>1 DEF HeldWasMade
  <2>4. /\ puts' \subseteq made /\ reads' \subseteq made
        /\ \A r \in puts' \ puts : MostHonest(Keepers(r[1]))
        /\ reads' \ reads = {}
    <3>1. puts' \subseteq puts \cup {<<op[c].id, op[c].content>>} /\ reads' = reads
      BY <1>6 DEF FinishPut
    <3>2. puts' # puts => Cardinality(Backers(c, op[c].content)) >= quorum
      BY <1>6 DEF FinishPut
    <3>3. CASE puts' = puts
      BY <3>1, <3>3 DEF TypeOK
    <3>4. CASE puts' # puts
      <4>1. MostHonest(Keepers(op[c].id))
        BY <2>2, <3>2, <3>4
      <4>2. \A r \in puts' \ puts : r[1] = op[c].id
        BY <3>1
      <4>3. QED
        BY <2>3, <3>1, <4>1, <4>2 DEF TypeOK
    <3>5. QED
      BY <3>3, <3>4
  <2>5. QED
    BY <1>5, <1>6, <2>4 DEF FinishPut
<1>7. ASSUME NEW c \in Clients, FinishGet(c) PROVE IInv'
  <2>1. op[c] \in [kind : {"get"}, id : Ids]
    BY <1>7 DEF FinishGet, TypeOK, Call, Idle
  <2>2. CASE UNCHANGED <<puts, reads>>
    BY <1>5, <1>7, <2>2 DEF FinishGet, TypeOK
  <2>3. ASSUME NEW v \in Contents, Winner(c, v),
               Cardinality(Backers(c, v)) >= quorum,
               reads' = reads \cup {<<op[c].id, v>>}, UNCHANGED puts
        PROVE  IInv'
    <3>1. /\ Backers(c, v) \ Hostile \subseteq Holders(op[c].id, v)
          /\ Backers(c, v) \subseteq Nodes /\ Holders(op[c].id, v) \subseteq Honest
      BY <2>1 DEF Backers, Holders, AnswersAreHeld, Honest
    <3>2. MostHonest(Holders(op[c].id, v))
      BY <2>3, <3>1, QuorumIsMostlyHonest
    <3>3. <<op[c].id, v>> \in made
      BY <2>1, <2>3 DEF Winner, Backers, AnswersAreHeld
    <3>4. /\ puts' \subseteq made /\ reads' \subseteq made
          /\ puts' \ puts = {}
          /\ \A r \in reads' \ reads : MostHonest(Holders(r[1], r[2]))
      <4>1. \A r \in reads' \ reads : r[1] = op[c].id /\ r[2] = v
        BY <2>3
      <4>2. \A r \in reads' \ reads : MostHonest(Holders(r[1], r[2]))
        BY <3>2, <4>1
      <4>3. QED
        BY <2>3, <3>3, <4>2 DEF TypeOK
    <3>5. QED
      BY <1>5, <1>7, <3>4 DEF FinishGet
  <2>4. QED
    BY <1>7, <2>2, <2>3 DEF FinishGet
<1>8. CASE UNCHANGED vars
  <2>1. UNCHANGED <<held, op, answer, made, puts, reads>>
    BY <1>8 DEF vars, callVars, history
  <2>2. TypeOK' /\ HeldWasMade' /\ AnswersAreHeld'
    BY <2>1 DEF TypeOK, HeldWasMade, AnswersAreHeld
  <2>3. QED
    BY <2>1, <2>2, <1>k DEF PutsAreHeld, ReadsAreHeld
<1>9. ASSUME NEW c \in Clients, NEW i \in Ids,
              BeginGet(c, i) \/ \E v \in Contents : BeginPut(c, i, v)
       PROVE  IInv'
  <2>1. CASE BeginGet(c, i)
    BY <1>1, <2>1 DEF BeginGet, Call, TypeOK
  <2>2. ASSUME NEW v \in Contents, BeginPut(c, i, v) PROVE IInv'
    <3>1. <<i, v>> \in Record
      BY DEF Record
    <3>2. [kind |-> "put", id |-> i, content |-> v] \in Call
      BY DEF Call
    <3>3. QED
      BY <1>1, <2>2, <3>1, <3>2 DEF BeginPut, TypeOK
  <2>3. QED
    BY <1>9, <2>1, <2>2
<1>10. QED
  BY <1>2, <1>4, <1>6, <1>7, <1>8, <1>9 DEF Next

--------------------------------------------------------------------------
LEMMA AlwaysRight == Spec => []IInv
  BY InitIsRight, StepIsRight, PTL DEF Spec

(* Every variable keeps its type; in particular no read returns what no    *)
(* client ever encrypted under that identifier.                            *)
THEOREM TypeCorrect == Spec => []TypeOK
  BY AlwaysRight, PTL DEF IInv

LEMMA HeldReadsAgree ==
  ASSUME QuorumsMeet, ReadsAreHeld PROVE ReadsAgree
<1>1. SUFFICES ASSUME NEW i \in Ids, NEW v \in Contents, NEW w \in Contents,
                      <<i, v>> \in reads, <<i, w>> \in reads
               PROVE  v = w
  BY DEF ReadsAgree
<1>2. MostHonest(Holders(i, v)) /\ MostHonest(Holders(i, w))
  BY <1>1 DEF ReadsAreHeld
<1>3. Holders(i, v) \cap Holders(i, w) # {}
  BY <1>2, TwoQuorumsMeet DEF Holders
<1>4. QED
  BY <1>3 DEF Holders

(* Where two quorums always meet in an honest node, no two reads of one    *)
(* identifier ever return different contents.                              *)
THEOREM ReadersAlwaysAgree == QuorumsMeet /\ Spec => []ReadsAgree
<1>1. SUFFICES ASSUME QuorumsMeet PROVE Spec => []ReadsAgree
  OBVIOUS
<1>2. IInv => ReadsAgree
  BY <1>1, HeldReadsAgree DEF IInv
<1>3. QED
  BY <1>2, AlwaysRight, PTL

(* For any quorum, a put that returned is held by a quorum's honest nodes. *)
THEOREM AckedRecordsAreHeld == Spec => []AckedIsHeld
<1>1. IInv => AckedIsHeld
  <2>1. SUFFICES ASSUME IInv, NEW i \in Ids, NEW v \in Contents, <<i, v>> \in puts,
                        \A w \in Contents : <<i, w>> \in made => w = v
                 PROVE  MostHonest(Holders(i, v))
    BY DEF AckedIsHeld, MostHonest
  <2>2. MostHonest(Keepers(i))
    BY <2>1 DEF IInv, PutsAreHeld
  <2>3. Keepers(i) \subseteq Holders(i, v)
    <3>1. ASSUME NEW n \in Honest, held[n][i] # Absent PROVE held[n][i] = v
      <4>1. held[n][i] \in Contents
        BY <2>1, <3>1 DEF IInv, TypeOK, Honest
      <4>2. <<i, held[n][i]>> \in made
        BY <2>1, <3>1 DEF IInv, HeldWasMade
      <4>3. QED
        BY <2>1, <4>1, <4>2
    <3>2. QED
      BY <3>1 DEF Keepers, Holders
  <2>4. QED
    BY <2>2, <2>3, MostHonestGrows DEF Holders
<1>2. QED
  BY <1>1, AlwaysRight, PTL

(* What the mapped register holds. *)
LEMMA ReadContentIs ==
  ASSUME ReadsAgree, NEW i \in Ids
  PROVE  /\ \A v \in Contents : <<i, v>> \in reads => ReadContent[i] = v
         /\ (\A v \in Contents : <<i, v>> \notin reads) => ReadContent[i] = Absent
<1>1. ASSUME NEW v \in Contents, <<i, v>> \in reads PROVE ReadContent[i] = v
  <2>1. ReadContent[i] = CHOOSE w \in Contents : <<i, w>> \in reads
    BY <1>1 DEF ReadContent
  <2>2. ReadContent[i] \in Contents /\ <<i, ReadContent[i]>> \in reads
    BY <1>1, <2>1
  <2>3. QED
    BY <1>1, <2>2 DEF ReadsAgree
<1>2. QED
  BY <1>1 DEF ReadContent

LEMMA StepSettles ==
  ASSUME TypeOK, ReadsAgree, ReadsAgree', [Next]_vars
  PROVE  [Register!Next]_ReadContent
<1>1. CASE reads' = reads
  BY <1>1 DEF ReadContent
<1>2. CASE reads' # reads
  <2>1. PICK c \in Clients : FinishGet(c)
    BY <1>2 DEF Next, vars, history, BeginGet, BeginPut, Begin, ServePut, ServeGet,
       ServeHostile, Lose, Hear, FinishPut
  <2>2. PICK v \in Contents : reads' = reads \cup {<<op[c].id, v>>}
    BY <1>2, <2>1 DEF FinishGet
  <2>3. op[c] \in [kind : {"get"}, id : Ids]
    BY <2>1 DEF FinishGet, TypeOK, Call, Idle
  <2> DEFINE i == op[c].id
  <2>4. i \in Ids
    BY <2>3
  <2>5. \A w \in Contents : <<i, w>> \notin reads
    BY <1>2, <2>2, <2>4 DEF ReadsAgree
  <2>6. ReadContent[i] = Absent
    BY <2>4, <2>5, ReadContentIs
  <2>7. ReadContent'[i] = v
    <3>1. <<i, v>> \in reads'
      BY <2>2
    <3>2. \E w \in Contents : <<i, w>> \in reads'
      BY <3>1
    <3>3. ReadContent'[i] = CHOOSE w \in Contents : <<i, w>> \in reads'
      BY <2>4, <3>2 DEF ReadContent
    <3>4. ReadContent'[i] \in Contents /\ <<i, ReadContent'[i]>> \in reads'
      BY <3>2, <3>3
    <3>5. QED
      BY <2>4, <3>1, <3>4 DEF ReadsAgree
  <2>8. \A j \in Ids : j # i => ReadContent'[j] = ReadContent[j]
    <3>1. \A j \in Ids, w \in Contents :
            j # i => (<<j, w>> \in reads' <=> <<j, w>> \in reads)
      BY <2>2
    <3>2. QED
      BY <3>1 DEF ReadContent
  <2>9. ReadContent' = [ReadContent EXCEPT ![i] = v]
    BY <2>4, <2>7, <2>8 DEF ReadContent
  <2>10. QED
    BY <2>4, <2>6, <2>9 DEF Register!Next, Register!Settle
<1>3. QED
  BY <1>1, <1>2

(* Where two quorums always meet in an honest node, what clients read is   *)
(* a register per identifier that is written once.                         *)
THEOREM ReadsImplementWriteOnce == QuorumsMeet /\ Spec => ImplementsWriteOnce
<1>1. SUFFICES ASSUME QuorumsMeet PROVE Spec => Register!Spec
  BY DEF ImplementsWriteOnce
<1>2. Init => Register!Init
  BY DEF Init, Register!Init, ReadContent
<1>3. IInv => TypeOK /\ ReadsAgree
  BY <1>1, HeldReadsAgree DEF IInv
<1>4. TypeOK /\ ReadsAgree /\ ReadsAgree' /\ [Next]_vars => [Register!Next]_ReadContent
  BY StepSettles
<1>5. QED
  BY <1>2, <1>3, <1>4, AlwaysRight, PTL DEF Spec, Register!Spec

-----------------------------------------------------------------------------
(* Whatever is tried is of the type of its part.                              *)
InputType ==
  /\ part \in Parts /\ tried \in BOOLEAN
  /\ Tried("host") => input \in HostEvidence
  /\ Tried("proof") => input \in HonestClaim \cup FalseClaim \cup KeepClaim
  /\ Tried("receipt") => input \in Question
  /\ Tried("bridge") => input \in AgentCall
  /\ Tried("nodes") => input \in ListCase \cup AuditCase
  /\ Tried("vault") => input \in Conversation

LEMMA InputTyped == VSpec => []InputType
<1>1. VInit => InputType
  BY DEF VInit, InputType, Tried, Parts
<1>2. InputType /\ [VNext]_partVars => InputType'
  <2> SUFFICES ASSUME InputType, [VNext]_partVars PROVE InputType'
    OBVIOUS
  <2>1. CASE TryHost
    BY <2>1, InputAssumption DEF InputType, TryHost, Try, Tried, Parts
  <2>2. CASE TryProof
    BY <2>2, InputAssumption DEF InputType, TryProof, Try, Tried, Parts
  <2>3. CASE TryQuestion
    BY <2>3, InputAssumption DEF InputType, TryQuestion, Try, Tried, Parts
  <2>4. CASE TryMessage
    BY <2>4, InputAssumption DEF InputType, TryMessage, Try, Tried, Parts
  <2>5. CASE TryNodes
    BY <2>5, InputAssumption DEF InputType, TryNodes, Try, Tried, Parts
  <2>6. CASE TryText
    BY <2>6, InputAssumption DEF InputType, TryText, Try, Tried, Parts
  <2>7. CASE UNCHANGED partVars
    BY <2>7 DEF InputType, partVars, Tried
  <2> QED BY <2>1, <2>2, <2>3, <2>4, <2>5, <2>6, <2>7 DEF VNext
<1> QED BY <1>1, <1>2, PTL DEF VSpec

-----------------------------------------------------------------------------
Asked(case) == ~Bridge!Unreachable(case) /\ Bridge!Loopback(case) /\ Bridge!TokenIsLive(case)

LEMMA CaseTypes ==
  ASSUME NEW case \in Case
  PROVE  /\ case.index \in Int /\ case.granted \in Nat /\ case.required \in Nat
         /\ case.index \in case.records => 0 <= case.index /\ case.index <= MaxIndex
         /\ case.link \in {"good", "reply_lost", "down"}
<1>1. case.index \in Int
  BY DEF Case
<1>2. case.granted \in Nat /\ case.required \in Nat
  BY DEF Case
<1>3. case.records \in SUBSET (0 .. MaxIndex)
  BY DEF Case
<1>4. case.link \in {"good", "reply_lost", "down"}
  BY DEF Case
<1> QED BY <1>1, <1>2, <1>3, <1>4, SizeAssumption

(* What one request makes the bridge say of a read, a write and the state.     *)
LEMMA ReadIsTold ==
  ASSUME NEW case \in Case
  PROVE  LET out == Bridge!Ask(case, "read", "the_text")
         IN /\ out.said = "withheld" <=>
                 /\ Asked(case) /\ ~Bridge!Locked(case) /\ case.node = "up"
                 /\ case.index \in case.records /\ case.granted < case.required
            /\ out.said = "refresh_the_token" => ~Bridge!TokenIsLive(case) \/ ~Bridge!Loopback(case)
            /\ out.said = "unlock_the_key" => Asked(case) /\ Bridge!Locked(case)
            /\ out.said # "protect_the_key" /\ out.said # "kept"
            /\ out.said = "the_text" => Asked(case) /\ case.granted >= case.required
            /\ ~out.stored
<1> DEFINE reply == Bridge!ReadAnswer(case)
<1>1. /\ reply.status \in {200, 400, 403, 423, 500} /\ reply.stored = FALSE
      /\ reply.status = 403 => reply.error = "withheld_by_policy"
      /\ reply.status = 403 <=> /\ ~Bridge!Locked(case) /\ case.node = "up"
                                 /\ case.index \in case.records /\ case.granted < case.required
      /\ reply.status = 423 => Bridge!Locked(case)
      /\ reply.status = 200 => case.granted >= case.required
  BY CaseTypes, SizeAssumption DEF Bridge!ReadAnswer, Bridge!Refusal, Bridge!None
<1>2. Bridge!Answer(case, "read") =
        IF Bridge!Loopback(case) /\ Bridge!TokenIsLive(case) THEN reply ELSE Bridge!Forbidden
  BY DEF Bridge!Answer
<1> HIDE DEF reply
<1>3. CASE Bridge!Unreachable(case)
  <2>1. Bridge!Answer(case, "read").stored = FALSE
    BY <1>1, <1>2 DEF Bridge!Forbidden, Bridge!Refusal
  <2>2. /\ Bridge!Ask(case, "read", "the_text").said = "start_the_app"
        /\ Bridge!Ask(case, "read", "the_text").stored
             = (Bridge!Reaches(case) /\ Bridge!Answer(case, "read").stored)
    BY <1>3 DEF Bridge!Ask
  <2> QED BY <1>3, <2>1, <2>2 DEF Asked
<1>4. CASE ~Bridge!Unreachable(case)
  BY <1>1, <1>2, <1>4 DEF Bridge!Ask, Bridge!Said, Bridge!Refused, Bridge!Forbidden, Bridge!Refusal, Asked
<1> QED BY <1>3, <1>4

LEMMA WriteIsTold ==
  ASSUME NEW case \in Case
  PROVE  LET out == Bridge!Ask(case, "write", "kept")
         IN /\ out.said # "withheld" /\ out.said # "the_text"
            /\ out.said = "refresh_the_token" => ~Bridge!TokenIsLive(case) \/ ~Bridge!Loopback(case)
            /\ out.said = "unlock_the_key" => Asked(case) /\ Bridge!Locked(case)
            /\ out.said = "protect_the_key" =>
                 Asked(case) /\ ~Bridge!Locked(case) /\ ~(case.sealed /\ case.backed_up)
            /\ out.said = "kept" => out.stored
            /\ out.stored => \/ out.said = "kept" \/ case.link = "reply_lost"
                             \/ out.said = "refused" /\ Asked(case) /\ case.fails = "after"
<1> DEFINE reply == Bridge!WriteAnswer(case)
<1>1. /\ reply.status \in {200, 409, 423, 500} /\ reply.stored \in BOOLEAN
      /\ reply.status = 200 => reply.stored
      /\ reply.stored => reply.status = 200 \/ (reply.status = 500 /\ case.fails = "after")
      /\ reply.status = 409 => ~Bridge!Locked(case) /\ ~(case.sealed /\ case.backed_up)
      /\ reply.status = 423 => Bridge!Locked(case)
  BY DEF Bridge!WriteAnswer, Bridge!Refusal, Bridge!None
<1>2. Bridge!Answer(case, "write") =
        IF Bridge!Loopback(case) /\ Bridge!TokenIsLive(case) THEN reply ELSE Bridge!Forbidden
  BY DEF Bridge!Answer
<1>3. Bridge!Unreachable(case) /\ Bridge!Reaches(case) => case.link = "reply_lost"
  BY CaseTypes DEF Bridge!Unreachable, Bridge!Reaches
<1> HIDE DEF reply
<1>4. CASE Bridge!Unreachable(case)
  BY <1>1, <1>2, <1>3, <1>4 DEF Bridge!Ask, Bridge!Forbidden, Bridge!Refusal
<1>5. CASE ~Bridge!Unreachable(case)
  BY <1>1, <1>2, <1>5 DEF Bridge!Ask, Bridge!Said, Bridge!Refused, Bridge!Forbidden, Bridge!Refusal, Asked
<1> QED BY <1>4, <1>5

LEMMA StateIsTold ==
  ASSUME NEW case \in Case, NEW done \in {"the_list", "healthy"}
  PROVE  LET out == Bridge!AskState(case, done)
         IN /\ out.said \in {"node_is_down", "start_the_app", "refresh_the_token", done}
            /\ out.said = "refresh_the_token" => ~Bridge!TokenIsLive(case) \/ ~Bridge!Loopback(case)
            /\ ~out.stored
<1>1. LET reply == Bridge!StateAnswer(case)
      IN reply.status = 200 /\ reply.stored = FALSE
  BY DEF Bridge!StateAnswer
<1>2. Bridge!Answer(case, "state") =
        IF Bridge!Loopback(case) /\ Bridge!TokenIsLive(case) THEN Bridge!StateAnswer(case)
        ELSE Bridge!Forbidden
  BY DEF Bridge!Answer
<1>3. Bridge!Answer(case, "state").stored = FALSE
  BY <1>1, <1>2 DEF Bridge!Forbidden, Bridge!Refusal
<1>4. CASE Bridge!Unreachable(case)
  <2>1. /\ Bridge!AskState(case, done).said = "start_the_app"
        /\ Bridge!AskState(case, done).stored
             = (Bridge!Reaches(case) /\ Bridge!Answer(case, "state").stored)
    BY <1>4 DEF Bridge!AskState, Bridge!Ask
  <2> QED BY <1>3, <2>1
<1>5. CASE ~Bridge!Unreachable(case)
  BY <1>1, <1>2, <1>5
  DEF Bridge!AskState, Bridge!Ask, Bridge!Said, Bridge!Refused, Bridge!Forbidden, Bridge!Refusal
<1> QED BY <1>4, <1>5

(* Every case and every message, whatever the keep holds and the user allows.  *)
LEMMA EveryWordIsTrue ==
  ASSUME NEW case \in Case, NEW msg \in Message
  PROVE  Bridge!WordsAreTrue(case, msg)
<1> DEFINE out == Bridge!Handle(case, msg)
           called == msg.method = "tools_call" /\ msg.name \in Bridge!Tools
           Plain == {"a_result", "no_such_tool", "parse_error", "nothing", "no_such_method",
                     "enable_agents", "call_it_differently", "start_the_app"}
<1>1. CASE ~called
  <2>1. out.said \in Plain /\ ~out.stored
    BY <1>1 DEF Bridge!Handle, Bridge!Said
  <2> HIDE DEF out
  <2> QED BY <1>1, <2>1 DEF Bridge!WordsAreTrue, Bridge!Called, Bridge!Tools, out
<1>2. CASE called
  <2>1. out = Bridge!CallTool(case, msg.name)
    BY <1>2 DEF Bridge!Handle
  <2>2. CASE msg.name = "save_memory"
    <3>1. (out.said \in Plain /\ ~out.stored) \/ out = Bridge!Ask(case, "write", "kept")
      BY <2>1, <2>2 DEF Bridge!CallTool, Bridge!SaveMemory, Bridge!Said
    <3> HIDE DEF out
    <3> QED BY <2>2, <3>1, WriteIsTold DEF Bridge!WordsAreTrue, Bridge!Called, Asked, out
  <2>3. CASE msg.name = "read_memory"
    <3>1. \/ out.said \in Plain /\ ~out.stored /\ (~Bridge!TokenIsLive(case) \/ case.index < 0)
          \/ out = Bridge!Ask(case, "read", "the_text")
      BY <2>1, <2>3 DEF Bridge!CallTool, Bridge!ReadMemory, Bridge!Said, Bridge!TokenIsLive, Bridge!None
    <3> HIDE DEF out
    <3> QED BY <1>2, <2>3, <3>1, CaseTypes, ReadIsTold DEF Bridge!WordsAreTrue, Bridge!Called, Asked, out
  <2>4. CASE msg.name \in {"list_memories", "keep_status"}
    <3>1. \/ out.said \in Plain /\ ~out.stored
          \/ \E done \in {"the_list", "healthy"} : out = Bridge!AskState(case, done)
      BY <2>1, <2>4 DEF Bridge!CallTool, Bridge!ListMemories, Bridge!KeepStatus, Bridge!Said
    <3>2. /\ out.said \in Plain \cup {"the_list", "healthy", "node_is_down", "refresh_the_token"}
          /\ out.said = "refresh_the_token" => ~Bridge!TokenIsLive(case) \/ ~Bridge!Loopback(case)
          /\ ~out.stored
      <4> HIDE DEF out
      <4> QED BY <3>1, StateIsTold
    <3> HIDE DEF out
    <3> QED BY <2>4, <3>2 DEF Bridge!WordsAreTrue, Bridge!Called, out
  <2> QED BY <1>2, <2>2, <2>3, <2>4 DEF Bridge!Tools
<1> QED BY <1>1, <1>2

(* WordsAreTrue, for any number of records, any tiers and any messages: each    *)
(* refusal the bridge puts into words is the case (mcp_server.py, app.py).      *)
THEOREM AgentsAreToldTheTruth == VSpec => []WordsAreTrue
<1>1. InputType => WordsAreTrue
  BY EveryWordIsTrue DEF InputType, WordsAreTrue, AgentCall
<1> QED BY InputTyped, <1>1, PTL

-----------------------------------------------------------------------------
(* The bucket a request is padded to is the smallest that holds it.            *)
LEMMA LeastBucket ==
  ASSUME NEW fit \in SUBSET Buckets, fit # {}
  PROVE  Chat!Min(fit) \in fit /\ \A b \in fit : Chat!Min(fit) <= b
<1> DEFINE R == OpToRel(<, Nat)
<1>1. fit \subseteq Nat
  BY SizeAssumption
<1>2. PICK m \in fit : \A b \in fit : ~(<<b, m>> \in R)
  <2>1. IsWellFoundedOn(R, Nat)
    BY NatLessThanWellFounded
  <2> HIDE DEF R
  <2> QED BY <1>1, <2>1, WFMin
<1>3. \A b \in fit : b < m => <<b, m>> \in R
  BY <1>1 DEF OpToRel
<1>4. \A b \in fit : m <= b
  <2>1. \A b \in fit : ~(b < m)
    <3> HIDE DEF R
    <3> QED BY <1>2, <1>3, Zenon
  <2> QED BY <1>1, <2>1
<1> QED BY <1>4 DEF Chat!Min

LEMMA PaddedIsABucket ==
  ASSUME NEW size \in Nat
  PROVE  LET padded == Chat!PadToBucket(size, Buckets)
         IN /\ padded.bucketed \in BOOLEAN
            /\ padded.bucketed => size + padded.pad \in Buckets
            /\ ~padded.bucketed => \A b \in Buckets : size > b
<1> DEFINE fit == {b \in Buckets : size <= b}
<1>1. CASE fit = {}
  <2>1. Chat!PadToBucket(size, Buckets) = [bucketed |-> FALSE, pad |-> 0]
    BY <1>1 DEF Chat!PadToBucket
  <2> QED BY <1>1, <2>1, SizeAssumption
<1>2. CASE fit # {}
  <2>1. Chat!Min(fit) \in Buckets /\ Chat!Min(fit) \in Nat
    BY <1>2, LeastBucket, SizeAssumption
  <2>2. Chat!PadToBucket(size, Buckets)
          = [bucketed |-> TRUE, pad |-> Chat!Min(fit) - size, bucket_bytes |-> Chat!Min(fit),
             buckets |-> Chat!Cardinality(Buckets)]
    BY <1>2 DEF Chat!PadToBucket
  <2> HIDE DEF fit
  <2>3. size + (Chat!Min(fit) - size) = Chat!Min(fit)
    BY <2>1
  <2> QED BY <2>1, <2>2, <2>3
<1> QED BY <1>1, <1>2

(* What is sent without a gateway: the user's key, and a padded length.        *)
LEMMA HostedCallIsPadded ==
  ASSUME NEW q \in Question, ~Chat!ByGateway(q)
  PROVE  LET wire == Chat!Wire(q)
         IN /\ wire.key
            /\ wire.response_streaming = "no"
            /\ wire.length_channel.bucketed \in BOOLEAN
            /\ wire.length_channel.bucketed => wire.length \in Buckets
            /\ ~wire.length_channel.bucketed => \A b \in Buckets : wire.length > b - Frame
<1> DEFINE size == q.body_bytes + Frame
           padded == Chat!PadToBucket(size, Buckets)
<1>1. q.body_bytes \in Nat /\ size \in Nat
  BY SizeAssumption DEF Question
<1>2. /\ padded.bucketed \in BOOLEAN
      /\ padded.bucketed => size + padded.pad \in Buckets
      /\ ~padded.bucketed => \A b \in Buckets : size > b
  BY <1>1, PaddedIsABucket
<1>3. Chat!Wire(q) =
        [key |-> TRUE, token |-> FALSE, host |-> q.api_base,
         length |-> IF padded.bucketed THEN size + padded.pad ELSE q.body_bytes,
         length_channel |-> padded, response_streaming |-> "no"]
  BY DEF Chat!Wire, Chat!CloudComplete
<1>4. ~padded.bucketed => \A b \in Buckets : q.body_bytes > b - Frame
  <2> HIDE DEF padded
  <2> QED BY <1>1, <1>2, SizeAssumption
<1> HIDE DEF padded, size
<1> QED BY <1>2, <1>3, <1>4

LEMMA GatewayCallIsAToken ==
  ASSUME NEW q \in Question, Chat!ByGateway(q)
  PROVE  LET wire == Chat!Wire(q)
         IN /\ wire.token = TRUE /\ wire.key = FALSE
            /\ wire.response_streaming = "not_said"
            /\ wire.length_channel.bucketed = FALSE
            /\ wire.host = IF Chat!ByRelay(q) THEN q.relay ELSE q.gateway
  BY DEF Chat!Wire, Chat!GatewayComplete

(* The posture of the network is only called private of two hosts that differ. *)
LEMMA PrivateIsSplit ==
  ASSUME NEW q \in Question,
         Chat!AssessNetwork(Chat!TransportOf(q), q.gateway, q.relay, q.independent) = "private"
  PROVE  /\ Chat!ByGateway(q) /\ Chat!ByRelay(q)
         /\ Chat!SplitInFact(q, Chat!Wire(q))
<1>1. /\ Chat!TransportOf(q) = "ohttp" /\ q.relay # q.gateway
      /\ ~({q.relay, q.gateway} \subseteq LocalHosts) /\ q.independent = "yes"
  BY DEF Chat!AssessNetwork, Chat!TransportOf, Chat!ByRelay, Chat!ByGateway
<1>2. Chat!ByRelay(q) /\ Chat!ByGateway(q)
  BY <1>1 DEF Chat!TransportOf, Chat!ByRelay
<1> QED BY <1>1, <1>2, GatewayCallIsAToken DEF Chat!SplitInFact

LEMMA EveryReceiptIsTrue ==
  ASSUME NEW q \in Question PROVE Chat!ReceiptIsTrue(q)
<1> DEFINE out == Chat!FrontierChat(q)
           wire == Chat!Wire(q)
           posture == Chat!AssessNetwork(Chat!TransportOf(q), q.gateway, q.relay, q.independent)
           r == Chat!FrontierReceipt(q)
<1>1. out.sent => Chat!OptedIn(q) /\ (q.overlap => q.abstraction)
  BY DEF Chat!FrontierChat, Chat!Takes, Chat!AppTakes, Chat!CommandTakes
<1>2. out.status = "ok" => out.receipt = r /\ out.wire = wire
  BY DEF Chat!FrontierChat
<1>3. /\ r.claims = Chat!Claims(q, wire)
      /\ r.residual = Chat!Residual(q, wire, posture)
      /\ r.mode = Chat!Mode(q)
      /\ r.identity_private = Chat!ByGateway(q)
      /\ r.metadata_private = (posture = "private")
  BY DEF Chat!FrontierReceipt
<1>4. posture \in {"direct", "no_relay", "same_host", "both_local", "not_asserted", "private"}
  BY DEF Chat!AssessNetwork
<1>5. posture = "private" => Chat!SplitInFact(q, wire)
  BY PrivateIsSplit
<1> HIDE DEF posture, wire, r
<1>6. "ip_visible" \notin r.residual => posture = "private"
  BY <1>3 DEF Chat!Residual, Chat!DefaultResidual
<1>7. "your_key_is_an_account" \notin r.residual => Chat!ByGateway(q)
  BY <1>3 DEF Chat!Residual, Chat!DefaultResidual
<1>8. /\ "bucketed" \in r.claims => wire.length_channel.bucketed
      /\ "bucketed" \notin r.claims => ~wire.length_channel.bucketed
  BY <1>3 DEF Chat!Claims, Chat!ContentClaims
<1>9. "streaming_leaks" \notin r.residual => wire.response_streaming = "no"
  BY <1>3, <1>4 DEF Chat!Residual, Chat!DefaultResidual
<1>10. "your_exact_words" \in r.residual <=> ~q.overlap
  BY <1>3, <1>4 DEF Chat!Residual, Chat!DefaultResidual, Chat!Mode
<1>11. "chosen_at_random" \in r.claims => r.mode = "abstracted"
  BY <1>3 DEF Chat!Claims, Chat!ContentClaims, Chat!ChosenAtRandom, Chat!Mode
<1>12. Chat!ByGateway(q) => wire.token = TRUE /\ wire.key = FALSE /\ wire.length_channel.bucketed = FALSE
  BY GatewayCallIsAToken DEF wire
<1>13. ~Chat!ByGateway(q) =>
         /\ wire.length_channel.bucketed => wire.length \in Buckets
         /\ ~wire.length_channel.bucketed => \A b \in Buckets : wire.length > b - Frame
  BY HostedCallIsPadded DEF wire
<1>14. /\ r.metadata_private => Chat!SplitInFact(q, wire)
       /\ "ip_visible" \notin r.residual => Chat!SplitInFact(q, wire)
       /\ r.identity_private => wire.token /\ ~wire.key
       /\ "your_key_is_an_account" \notin r.residual => ~wire.key
       /\ "bucketed" \in r.claims => wire.length \in Buckets
       /\ "bucketed" \notin r.claims /\ wire.key => \A b \in Buckets : wire.length > b - Frame
  BY <1>3, <1>5, <1>6, <1>7, <1>8, <1>12, <1>13
<1> HIDE DEF out
<1> QED BY <1>1, <1>2, <1>9, <1>10, <1>11, <1>14 DEF Chat!ReceiptIsTrue, out

(* ReceiptIsTrue, for any buckets, hosts and questions: no receipt claims more  *)
(* than was so when the question left (frontier_private.py, cloud_gate.py).    *)
THEOREM ReceiptsAreHonest == VSpec => []ReceiptIsTrue
<1>1. InputType => ReceiptIsTrue
  BY EveryReceiptIsTrue DEF InputType, ReceiptIsTrue
<1> QED BY InputTyped, <1>1, PTL

-----------------------------------------------------------------------------
(* The words of the envelope are the words of the document.                    *)
LEMMA ParsedWords ==
  ASSUME NEW doc \in Document
  PROVE  LET att == Attest!Parsed(doc)
         IN /\ att.format = doc.format /\ att.measurement = doc.measurement
            /\ att.report_data = doc.report_data /\ att.signed_at = doc.signed_at
            /\ att.debug = (doc.debug = "on") /\ att.signature = doc.signature
            /\ att.signing_key = doc.signing_key /\ att.raw = doc.raw
  BY DEF Attest!Parsed

LEMMA EvidenceTypes ==
  ASSUME NEW e \in HostEvidence
  PROVE  /\ e.doc \in Document /\ e.doc.signed_at \in Int
         /\ e.doc.signature.over.signed_at \in Int
         /\ e.wire \in {"document", "redirect"} /\ e.answer \in {"reply", "error"}
<1>1. e.doc \in Document
  BY DEF HostEvidence
<1>2. e.doc.signed_at \in Int
  BY <1>1 DEF Document
<1>3. e.doc.signature \in [by : STRING, over : Words]
  BY <1>1 DEF Document
<1>4. e.doc.signature.over \in Words
  BY <1>3
<1>5. e.doc.signature.over.signed_at \in Int
  BY <1>4 DEF Words
<1>6. e.wire \in {"document", "redirect"} /\ e.answer \in {"reply", "error"}
  BY DEF HostEvidence
<1> QED BY <1>1, <1>2, <1>5, <1>6

(* What the five checks let pass, each of them said.                           *)
LEMMA PassedChecks ==
  ASSUME NEW att, NEW nonce, NEW policy, NEW sev, NEW now
  PROVE  Attest!VerifyAttestation(att, nonce, policy, sev, now) <=>
           /\ att.format \in Attest!Formats
           /\ att.signing_key \in policy.roots
           /\ Attest!SignatureVerifies(att, sev)
           /\ att.report_data = Attest!ReportDataFor(nonce)
           /\ att.measurement \in policy.measurements
           /\ ~(policy.require_debug_disabled /\ att.debug)
           /\ Attest!Fresh(att, now)
  BY DEF Attest!VerifyAttestation, Attest!FailedCheck

(* The reference format signs its envelope: what it says is what was signed.   *)
LEMMA SignedEnvelope ==
  ASSUME NEW doc \in Document, Attest!Ed25519Verifies(Attest!Parsed(doc))
  PROVE  /\ doc.signature.by = doc.signing_key
         /\ doc.signature.over.measurement = doc.measurement
         /\ doc.signature.over.report_data = doc.report_data
         /\ doc.signature.over.signed_at = doc.signed_at
         /\ doc.signature.over.debug = (doc.debug = "on")
<1>1. doc.signature = [by |-> doc.signing_key, over |-> Attest!SignedBytes(Attest!Parsed(doc))]
  BY ParsedWords DEF Attest!Ed25519Verifies
<1>2. /\ doc.signature.by = doc.signing_key
      /\ doc.signature.over = Attest!SignedBytes(Attest!Parsed(doc))
  BY <1>1
<1> QED BY <1>2, ParsedWords DEF Attest!SignedBytes

(* A host that passes every check earned the prompt.                          *)
LEMMA PassedIsEarned ==
  ASSUME NEW e \in HostEvidence,
         Attest!AttestHost(e.wire, e.doc, 1, e.policy, e.sev, 0)
  PROVE  Attest!Earned(e.doc, 1, e.policy, e.sev, 0)
<1> DEFINE doc == e.doc
           att == Attest!Parsed(doc)
<1>1. /\ att.signing_key \in e.policy.roots
      /\ Attest!SignatureVerifies(att, e.sev)
      /\ att.report_data = Attest!ReportDataFor(1)
      /\ att.measurement \in e.policy.measurements
      /\ ~(e.policy.require_debug_disabled /\ att.debug)
      /\ Attest!Fresh(att, 0) /\ Attest!RegistryBuilt(e.sev)
  BY PassedChecks DEF Attest!AttestHost
<1>2. /\ att.format = doc.format /\ att.measurement = doc.measurement
      /\ att.report_data = doc.report_data /\ att.signed_at = doc.signed_at
      /\ att.debug = (doc.debug = "on") /\ att.signature = doc.signature
      /\ att.signing_key = doc.signing_key /\ att.raw = doc.raw
  BY EvidenceTypes, ParsedWords
<1>3. CASE att.format = "ed25519-ref" /\ Attest!Ed25519Verifies(att)
  <2>1. /\ doc.signature.by = doc.signing_key
        /\ doc.signature.over.measurement = doc.measurement
        /\ doc.signature.over.report_data = doc.report_data
        /\ doc.signature.over.signed_at = doc.signed_at
        /\ doc.signature.over.debug = (doc.debug = "on")
    BY <1>3, EvidenceTypes, SignedEnvelope
  <2>2. 0 - doc.signature.over.signed_at \in - Attest!Skew .. MaxAge
    <3>1. doc.signed_at \in Int /\ MaxAge \in Int
      BY EvidenceTypes, SizeAssumption
    <3>2. 0 - doc.signed_at <= MaxAge /\ 0 - doc.signed_at >= - Attest!Skew
      <4> HIDE DEF att
      <4> QED BY <1>1, <1>2 DEF Attest!Fresh
    <3> HIDE DEF doc
    <3> QED BY <2>1, <3>1, <3>2 DEF Attest!Skew
  <2>3. Attest!TrueOfHost(doc.signature.over, 1, e.policy)
    <3> HIDE DEF att, doc
    <3> QED BY <1>1, <1>2, <2>1 DEF Attest!TrueOfHost
  <2> HIDE DEF att
  <2> QED BY <1>1, <1>2, <1>3, <2>1, <2>2, <2>3 DEF Attest!Earned
<1>4. CASE att.format = "sev-snp" /\ e.sev.supplied /\ Attest!SevSnpVerifies(att, e.sev)
  <2> HIDE DEF att, doc
  <2>1. /\ doc.measurement = doc.raw.measurement /\ doc.report_data = doc.raw.report_data
        /\ att.debug = doc.raw.debug
        /\ e.sev.expected_tcb # Attest!NoTcb => doc.raw.reported_tcb = e.sev.expected_tcb
        /\ doc.raw.signed_by = e.sev.chain.vcek.key
    BY <1>2, <1>4 DEF Attest!SevSnpVerifies, Attest!EnvelopeMatches, Attest!DebugEnabled
  <2>2. Attest!ChipIsGenuine(e.sev)
    BY <1>1, <1>4 DEF Attest!RegistryBuilt, Attest!ChainVerifies, Attest!ChipIsGenuine
  <2>3. Attest!TrueOfHost(doc.raw, 1, e.policy)
    BY <1>1, <1>2, <2>1 DEF Attest!TrueOfHost
  <2> QED BY <1>2, <1>4, <2>1, <2>2, <2>3 DEF Attest!Earned, doc
<1> QED BY <1>1, <1>3, <1>4 DEF Attest!SignatureVerifies

(* And one that presents such words as they are passes every check.           *)
LEMMA EarnedAndHonestPasses ==
  ASSUME NEW e \in HostEvidence, e.wire = "document", Attest!Honest(e.doc, e.policy),
         Attest!RegistryBuilt(e.sev), Attest!Earned(e.doc, 1, e.policy, e.sev, 0)
  PROVE  Attest!AttestHost(e.wire, e.doc, 1, e.policy, e.sev, 0)
<1> DEFINE doc == e.doc
           att == Attest!Parsed(doc)
<1>1. /\ att.format = doc.format /\ att.measurement = doc.measurement
      /\ att.report_data = doc.report_data /\ att.signed_at = doc.signed_at
      /\ att.debug = (doc.debug = "on") /\ att.signature = doc.signature
      /\ att.signing_key = doc.signing_key /\ att.raw = doc.raw
  BY EvidenceTypes, ParsedWords
<1>2. Attest!Ed25519Verifies(att) /\ doc.format = "ed25519-ref" /\ doc.signing_key \in e.policy.roots
  BY <1>1 DEF Attest!Honest, Attest!Ed25519Verifies
<1>3. /\ doc.signature.over.measurement = doc.measurement
      /\ doc.signature.over.report_data = doc.report_data
      /\ doc.signature.over.signed_at = doc.signed_at
      /\ doc.signature.over.debug = (doc.debug = "on")
  BY <1>2, EvidenceTypes, SignedEnvelope
<1>4. Attest!TrueOfHost(doc.signature.over, 1, e.policy)
      /\ 0 - doc.signature.over.signed_at \in - Attest!Skew .. MaxAge
  BY <1>2 DEF Attest!Earned
<1> HIDE DEF att
<1>5. /\ doc.measurement \in e.policy.measurements
      /\ doc.report_data = Attest!ReportDataFor(1)
      /\ e.policy.require_debug_disabled => ~att.debug
  BY <1>1, <1>3, <1>4 DEF Attest!TrueOfHost
<1>6. Attest!Fresh(att, 0)
  <2>1. doc.signed_at \in Int /\ MaxAge \in Int
    BY EvidenceTypes, SizeAssumption
  <2> HIDE DEF doc
  <2> QED BY <1>1, <1>3, <1>4, <2>1 DEF Attest!Fresh, Attest!Skew
<1>7. Attest!VerifyAttestation(att, 1, e.policy, e.sev, 0)
  <2>1. att.format \in Attest!Formats /\ att.signing_key \in e.policy.roots
    BY <1>1, <1>2 DEF Attest!Formats
  <2>2. Attest!SignatureVerifies(att, e.sev)
    BY <1>1, <1>2 DEF Attest!SignatureVerifies
  <2>3. /\ att.measurement \in e.policy.measurements
        /\ att.report_data = Attest!ReportDataFor(1)
        /\ ~(e.policy.require_debug_disabled /\ att.debug)
    BY <1>1, <1>5
  <2> QED BY <1>6, <2>1, <2>2, <2>3, PassedChecks
<1>8. Attest!PolicyBuilt(e.policy.measurements, e.policy.roots)
  BY <1>2, <1>5 DEF Attest!PolicyBuilt
<1> QED BY <1>7, <1>8 DEF Attest!AttestHost, Attest!Fetched, att

LEMMA EveryPromptIsEarned ==
  ASSUME NEW e \in HostEvidence
  PROVE  Attest!AcceptedIsEarned(e.wire, e.doc, 1, e.policy, e.sev, 0, e.answer)
<1> DEFINE passed == Attest!AttestHost(e.wire, e.doc, 1, e.policy, e.sev, 0)
           call == Attest!AttestedComplete(passed, e.answer)
<1>1. /\ call.sent = passed
      /\ call.attested = (passed /\ e.answer = "reply")
  <2>1. passed \in BOOLEAN
    BY DEF Attest!AttestHost, Attest!PolicyBuilt, Attest!RegistryBuilt, Attest!Fetched,
           Attest!VerifyAttestation
  <2> HIDE DEF passed
  <2> QED BY <2>1 DEF Attest!AttestedComplete
<1>2. passed => Attest!Earned(e.doc, 1, e.policy, e.sev, 0)
  BY PassedIsEarned
<1>3. e.wire = "document" /\ Attest!Honest(e.doc, e.policy) /\ Attest!RegistryBuilt(e.sev)
        /\ Attest!Earned(e.doc, 1, e.policy, e.sev, 0) => passed
  BY EarnedAndHonestPasses
<1> HIDE DEF passed
<1> QED BY <1>1, <1>2, <1>3 DEF Attest!AcceptedIsEarned, passed

(* AcceptedIsEarned, for any documents, policies, chains and ages: a prompt is  *)
(* sent on words a trusted key said, and on every such word (attest.py).       *)
THEOREM OnlyEarnedTrust == VSpec => []AcceptedIsEarned
<1>1. InputType => AcceptedIsEarned
  BY EveryPromptIsEarned DEF InputType, AcceptedIsEarned
<1> QED BY InputTyped, <1>1, PTL

-----------------------------------------------------------------------------
(* Remainders modulo the order of the group.                                  *)
LEMMA ModRange ==
  ASSUME NEW a \in Int
  PROVE  a % GroupOrder \in 0 .. GroupOrder - 1 /\ a % GroupOrder \in Int
  BY GroupAssumption

LEMMA ModParts ==
  ASSUME NEW a \in Int
  PROVE  \E k \in Int : a = k * GroupOrder + (a % GroupOrder)
<1> DEFINE k == a \div GroupOrder
           r == a % GroupOrder
<1>1. k \in Int /\ r \in Int /\ a = GroupOrder * k + r
  BY GroupAssumption
<1> HIDE DEF k, r
<1>2. a = k * GroupOrder + r
  BY <1>1, GroupAssumption
<1> QED BY <1>1, <1>2 DEF r

LEMMA ModOf ==
  ASSUME NEW k \in Int, NEW r \in 0 .. GroupOrder - 1
  PROVE  (k * GroupOrder + r) % GroupOrder = r
  BY GroupAssumption

LEMMA ModSmall ==
  ASSUME NEW n \in 0 .. GroupOrder - 1 PROVE n % GroupOrder = n
<1>1. 0 * GroupOrder + n = n
  BY GroupAssumption
<1> QED BY <1>1, ModOf

LEMMA SameMod ==
  ASSUME NEW a \in Int, NEW b \in Int, NEW k \in Int, a = b + k * GroupOrder
  PROVE  a % GroupOrder = b % GroupOrder
<1>1. PICK m \in Int : b = m * GroupOrder + (b % GroupOrder)
  BY ModParts
<1>2. a = (m + k) * GroupOrder + (b % GroupOrder)
  BY <1>1, GroupAssumption
<1> QED BY <1>2, ModOf, ModRange

LEMMA ModSame ==
  ASSUME NEW a \in Int, NEW b \in Int, a % GroupOrder = b % GroupOrder
  PROVE  \E k \in Int : a = b + k * GroupOrder
<1>1. PICK m \in Int : b = m * GroupOrder + (b % GroupOrder)
  BY ModParts
<1>2. PICK n \in Int : a = n * GroupOrder + (a % GroupOrder)
  BY ModParts
<1> DEFINE r == a % GroupOrder
<1>3. r \in Int /\ b = m * GroupOrder + r /\ a = n * GroupOrder + r
  BY <1>1, <1>2, ModRange
<1> HIDE DEF r
<1>4. a = b + (n - m) * GroupOrder
  BY <1>3, GroupAssumption
<1> QED BY <1>4

(* The remainder of a sum or a product is that of the parts' remainders.      *)
LEMMA ModPlus ==
  ASSUME NEW a \in Int, NEW b \in Int
  PROVE  ((a % GroupOrder) + (b % GroupOrder)) % GroupOrder = (a + b) % GroupOrder
<1>1. PICK m \in Int : a = m * GroupOrder + (a % GroupOrder)
  BY ModParts
<1>2. PICK n \in Int : b = n * GroupOrder + (b % GroupOrder)
  BY ModParts
<1> DEFINE r == a % GroupOrder
           s == b % GroupOrder
<1>3. r \in Int /\ s \in Int /\ a = m * GroupOrder + r /\ b = n * GroupOrder + s
  BY <1>1, <1>2, ModRange
<1> HIDE DEF r, s
<1>4. a + b = (r + s) + (m + n) * GroupOrder
  BY <1>3, GroupAssumption
<1>5. (a + b) % GroupOrder = (r + s) % GroupOrder
  BY <1>3, <1>4, SameMod
<1> QED BY <1>5 DEF r, s

LEMMA ModTimes ==
  ASSUME NEW a \in Int, NEW n \in Int
  PROVE  ((a % GroupOrder) * n) % GroupOrder = (a * n) % GroupOrder
<1>1. PICK m \in Int : a = m * GroupOrder + (a % GroupOrder)
  BY ModParts
<1> DEFINE r == a % GroupOrder
<1>2. r \in Int /\ a = m * GroupOrder + r
  BY <1>1, ModRange
<1> HIDE DEF r
<1>3. a * n = (r * n) + (m * n) * GroupOrder
  BY <1>2, GroupAssumption
<1>4. a * n \in Int /\ r * n \in Int /\ m * n \in Int
  BY <1>2
<1>5. (a * n) % GroupOrder = (r * n) % GroupOrder
  BY <1>3, <1>4, SameMod
<1> QED BY <1>5 DEF r

LEMMA ModMod ==
  ASSUME NEW a \in Int PROVE (a % GroupOrder) % GroupOrder = a % GroupOrder
<1> DEFINE r == a % GroupOrder
<1>1. r \in 0 .. GroupOrder - 1
  BY ModRange
<1> HIDE DEF r
<1>2. r % GroupOrder = r
  BY <1>1, GroupAssumption
<1> QED BY <1>2 DEF r

(* If one of two factors is no multiple of a prime, and their product is, the  *)
(* other one is.                                                              *)
Divides(a) == \E k \in Int : a = k * GroupOrder

LEMMA Euclid ==
  ASSUME NEW y \in 1 .. GroupOrder - 1, NEW d \in 1 .. GroupOrder - 1
  PROVE  ~Divides(d * y)
<1> SUFFICES ASSUME Divides(d * y) PROVE FALSE
  OBVIOUS
<1> DEFINE S == {x \in Nat : x > 0 /\ Divides(x * y)}
           R == OpToRel(<, Nat)
<1>1. d \in S
  BY GroupAssumption
<1>2. PICK m \in S : \A x \in S : ~(<<x, m>> \in R)
  <2>1. IsWellFoundedOn(R, Nat)
    BY NatLessThanWellFounded
  <2>2. S \in SUBSET Nat
    OBVIOUS
  <2> HIDE DEF R, S
  <2> QED BY <1>1, <2>1, <2>2, WFMin
<1>3. \A x \in S : ~(x < m)
  <2>1. \A x \in S : x < m => <<x, m>> \in R
    BY DEF OpToRel
  <2> HIDE DEF R, S
  <2> QED BY <1>2, <2>1, Zenon
<1>4. m \in Nat /\ m > 0 /\ m <= d /\ d < GroupOrder /\ GroupOrder \in Nat /\ d \in Nat /\ y \in Nat
  BY <1>1, <1>3, GroupAssumption
<1>5. PICK k \in Int : m * y = k * GroupOrder
  BY <1>2 DEF Divides
<1> DEFINE q == GroupOrder \div m
           r == GroupOrder % m
<1>6. q \in Int /\ r \in Nat /\ r < m /\ GroupOrder = m * q + r
  BY <1>4
<1> HIDE DEF q, r
<1>7. Divides(r * y)
  <2>1. r * y = (y - q * k) * GroupOrder
    <3>1. r * y = (GroupOrder - m * q) * y
      BY <1>4, <1>6
    <3>2. (GroupOrder - m * q) * y = GroupOrder * y - q * (m * y)
      BY <1>4, <1>6
    <3>3. GroupOrder * y - q * (k * GroupOrder) = (y - q * k) * GroupOrder
      BY <1>4, <1>5, <1>6
    <3> QED BY <1>5, <3>1, <3>2, <3>3
  <2>2. y - q * k \in Int
    BY <1>4, <1>6
  <2> QED BY <2>1, <2>2 DEF Divides
<1>8. r = 0
  BY <1>3, <1>6, <1>7
<1>9. m # 1
  <2>1. ASSUME m = 1 PROVE FALSE
    <3>1. y = k * GroupOrder
      BY <1>4, <1>5, <2>1
    <3> QED BY <1>4, <3>1
  <2> QED BY <2>1
<1>10. GroupOrder = m * q
  BY <1>4, <1>6, <1>8
<1>11. q \in 2 .. GroupOrder - 1 /\ m \in 2 .. GroupOrder - 1
  BY <1>4, <1>6, <1>9, <1>10
<1> QED BY <1>10, <1>11, GroupAssumption

-----------------------------------------------------------------------------
(* A group element by its exponents, reduced.                                 *)
El(a, b) == <<a % GroupOrder, b % GroupOrder>>

LEMMA ElTimes ==
  ASSUME NEW a \in Int, NEW b \in Int, NEW c \in Int, NEW d \in Int
  PROVE  Sigma!Times(El(a, b), El(c, d)) = El(a + c, b + d)
  BY ModPlus DEF Sigma!Times, El

LEMMA ElPower ==
  ASSUME NEW a \in Int, NEW b \in Int, NEW n \in Int
  PROVE  Sigma!Power(El(a, b), n) = El(a * n, b * n)
  BY ModTimes DEF Sigma!Power, El

LEMMA ElSame ==
  ASSUME NEW a \in Int, NEW b \in Int, NEW c \in Int, NEW d \in Int,
         NEW k \in Int, NEW l \in Int, a = c + k * GroupOrder, b = d + l * GroupOrder
  PROVE  El(a, b) = El(c, d)
  BY SameMod DEF El

LEMMA ElOver ==
  ASSUME NEW a \in Int, NEW b \in Int, NEW c \in Int, NEW d \in Int
  PROVE  Sigma!Over(El(a, b), El(c, d)) = El(a - c, b - d)
<1> DEFINE n == GroupOrder - 1
<1>1. n \in Int /\ GroupOrder \in Int
  BY GroupAssumption
<1>2. c * n \in Int /\ d * n \in Int
  BY <1>1
<1>3. Sigma!Over(El(a, b), El(c, d)) = El(a + c * n, b + d * n)
  <2>1. Sigma!Power(El(c, d), n) = El(c * n, d * n)
    BY <1>1, ElPower
  <2>2. Sigma!Times(El(a, b), El(c * n, d * n)) = El(a + c * n, b + d * n)
    BY <1>2, ElTimes
  <2> QED BY <2>1, <2>2 DEF Sigma!Over
<1>4. a + c * n = (a - c) + c * GroupOrder /\ b + d * n = (b - d) + d * GroupOrder
  BY <1>1
<1>5. a + c * n \in Int /\ b + d * n \in Int /\ a - c \in Int /\ b - d \in Int
  BY <1>2
<1> HIDE DEF n
<1>6. El(a + c * n, b + d * n) = El(a - c, b - d)
  BY <1>4, <1>5, ElSame
<1> QED BY <1>3, <1>6

LEMMA ElOf ==
  /\ \A n \in Int : Sigma!GTo(n) = El(n, 0) /\ Sigma!HTo(n) = El(0, n)
  /\ \A v, r \in Int : Sigma!Commit(v, r) = El(v, r)
  /\ \A a, b \in Int : El(a % GroupOrder, b) = El(a, b) /\ El(a, b % GroupOrder) = El(a, b)
  /\ \A x \in Element : x = El(x[1], x[2]) /\ x[1] \in Int /\ x[2] \in Int
<1>1. 0 % GroupOrder = 0
  BY GroupAssumption
<1>2. \A n \in Int : Sigma!GTo(n) = El(n, 0) /\ Sigma!HTo(n) = El(0, n)
  BY <1>1 DEF Sigma!GTo, Sigma!HTo, El
<1>3. ASSUME NEW v \in Int, NEW r \in Int PROVE Sigma!Commit(v, r) = El(v, r)
  BY <1>2, ElTimes DEF Sigma!Commit
<1>4. \A a, b \in Int : El(a % GroupOrder, b) = El(a, b) /\ El(a, b % GroupOrder) = El(a, b)
  BY ModMod DEF El
<1>5. ASSUME NEW x \in Element PROVE x = El(x[1], x[2]) /\ x[1] \in Int /\ x[2] \in Int
  <2>1. x = <<x[1], x[2]>> /\ x[1] \in 0 .. GroupOrder - 1 /\ x[2] \in 0 .. GroupOrder - 1
    BY DEF Element, Sigma!Exponents
  <2>2. x[1] % GroupOrder = x[1] /\ x[2] % GroupOrder = x[2]
    BY <2>1, GroupAssumption
  <2> QED BY <2>1, <2>2, GroupAssumption DEF El
<1> QED BY <1>2, <1>3, <1>4, <1>5

-----------------------------------------------------------------------------
(* A set in which any two are one has at most one member.                      *)
LEMMA AtMostOne ==
  ASSUME NEW S, \A x, y \in S : x = y
  PROVE  Sigma!Cardinality(S) <= 1
<1>1. Sigma!Cardinality(S) = Cardinality(S)
  BY DEF Sigma!Cardinality, Cardinality
<1>2. CASE S = {}
  BY <1>1, <1>2, FS_EmptySet
<1>3. CASE S # {}
  <2>1. PICK x : S = {x}
    BY <1>3
  <2>2. Cardinality({x}) = 1
    BY FS_Singleton, Zenon
  <2> QED BY <1>1, <2>1, <2>2
<1> QED BY <1>2, <1>3

(* Two challenges answered after one first message, about an exponent that is  *)
(* no multiple of the order, are the same.                                    *)
LEMMA NoTwoAnswers ==
  ASSUME NEW t \in Int, NEW y \in Int, ~Divides(y),
         NEW c \in Sigma!ChallengeSet, NEW d \in Sigma!ChallengeSet,
         (t + y * c) % GroupOrder = 0, (t + y * d) % GroupOrder = 0, d < c
  PROVE  FALSE
<1>1. c \in Int /\ d \in Int /\ c - d \in 1 .. GroupOrder - 1
  BY GroupAssumption DEF Sigma!ChallengeSet
<1>2. PICK j \in Int : t + y * c = j * GroupOrder
  <2>1. t + y * c \in Int
    BY <1>1
  <2>2. PICK j \in Int : t + y * c = j * GroupOrder + ((t + y * c) % GroupOrder)
    BY <2>1, ModParts
  <2>3. j * GroupOrder + 0 = j * GroupOrder
    BY GroupAssumption
  <2> QED BY <2>2, <2>3
<1>3. PICK k \in Int : t + y * d = k * GroupOrder
  <2>1. t + y * d \in Int
    BY <1>1
  <2>2. PICK k \in Int : t + y * d = k * GroupOrder + ((t + y * d) % GroupOrder)
    BY <2>1, ModParts
  <2>3. k * GroupOrder + 0 = k * GroupOrder
    BY GroupAssumption
  <2> QED BY <2>2, <2>3
<1>4. PICK m \in Int : y = m * GroupOrder + (y % GroupOrder)
  BY ModParts
<1> DEFINE r == y % GroupOrder
<1>5. r \in 0 .. GroupOrder - 1 /\ y = m * GroupOrder + r
  BY <1>4, ModRange
<1> HIDE DEF r
<1>6. r # 0
  BY <1>5, GroupAssumption DEF Divides
<1>7. Divides((c - d) * r)
  <2>1. (c - d) * y = (j - k) * GroupOrder
    <3>1. (c - d) * y = (t + y * c) - (t + y * d)
      BY <1>1
    <3> QED BY <1>2, <1>3, <3>1, GroupAssumption
  <2>2. (c - d) * r = ((j - k) - (c - d) * m) * GroupOrder
    <3>1. (c - d) * y = ((c - d) * m) * GroupOrder + (c - d) * r
      BY <1>1, <1>5, GroupAssumption
    <3> QED BY <1>1, <1>5, <2>1, <3>1, GroupAssumption
  <2>3. (j - k) - (c - d) * m \in Int
    BY <1>1
  <2> QED BY <2>2, <2>3 DEF Divides
<1>8. r \in 1 .. GroupOrder - 1
  BY <1>5, <1>6, GroupAssumption
<1> QED BY <1>1, <1>7, <1>8, Euclid

LEMMA OneAnswer ==
  ASSUME NEW t \in Int, NEW y \in Int, ~Divides(y),
         NEW c \in Sigma!ChallengeSet, NEW d \in Sigma!ChallengeSet,
         (t + y * c) % GroupOrder = 0, (t + y * d) % GroupOrder = 0
  PROVE  c = d
<1>1. c \in Int /\ d \in Int
  BY DEF Sigma!ChallengeSet
<1> QED BY <1>1, NoTwoAnswers

(* The equation every verifier checks, read in the exponent of G.             *)
LEMMA EquationBetweenEls ==
  ASSUME NEW s \in Int, NEW t1 \in Int, NEW t2 \in Int, NEW x1 \in Int, NEW x2 \in Int,
         NEW z1 \in Int, NEW z2 \in Int, NEW c \in Int
  PROVE  /\ Sigma!HTo(s) = El(0, s)
         /\ Sigma!Times(El(t1, t2), Sigma!Power(Sigma!Over(El(x1, x2), El(z1, z2)), c))
              = El(t1 + (x1 - z1) * c, t2 + (x2 - z2) * c)
<1> DEFINE x == x1 - z1
           y == x2 - z2
<1>1. x \in Int /\ y \in Int
  OBVIOUS
<1>2. Sigma!Over(El(x1, x2), El(z1, z2)) = El(x, y)
  BY ElOver
<1> HIDE DEF x, y
<1>3. Sigma!Power(El(x, y), c) = El(x * c, y * c)
  BY <1>1, ElPower
<1>4. Sigma!Times(El(t1, t2), El(x * c, y * c)) = El(t1 + x * c, t2 + y * c)
  <2>1. x * c \in Int /\ y * c \in Int
    BY <1>1
  <2> QED BY <2>1, ElTimes
<1> QED BY <1>2, <1>3, <1>4, ElOf DEF x, y

LEMMA EquationInG ==
  ASSUME NEW s \in Int, NEW t \in Element, NEW x \in Element, NEW z \in Element, NEW c \in Int,
         Sigma!HTo(s) = Sigma!Times(t, Sigma!Power(Sigma!Over(x, z), c))
  PROVE  (t[1] + (x[1] - z[1]) * c) % GroupOrder = 0
<1>1. PICK t1 \in Int, t2 \in Int : t = El(t1, t2) /\ t1 = t[1]
  BY ElOf
<1>2. PICK x1 \in Int, x2 \in Int : x = El(x1, x2) /\ x1 = x[1]
  BY ElOf
<1>3. PICK z1 \in Int, z2 \in Int : z = El(z1, z2) /\ z1 = z[1]
  BY ElOf
<1>4. El(0, s) = El(t1 + (x1 - z1) * c, t2 + (x2 - z2) * c)
  BY <1>1, <1>2, <1>3, EquationBetweenEls
<1>5. 0 % GroupOrder = 0
  BY GroupAssumption
<1>6. (t1 + (x1 - z1) * c) % GroupOrder = 0
  BY <1>4, <1>5 DEF El
<1> QED BY <1>1, <1>2, <1>3, <1>6

LEMMA DifferentExponents ==
  ASSUME NEW a \in Sigma!Exponents, NEW b \in Sigma!Exponents, a # b
  PROVE  ~Divides(a - b)
<1> DEFINE n == a - b
<1>1. ASSUME NEW k \in Int, n = k * GroupOrder PROVE FALSE
  <2>1. /\ n \in Int /\ n # 0 /\ n < GroupOrder /\ n > 0 - GroupOrder
        /\ GroupOrder \in Int
    BY GroupAssumption DEF Sigma!Exponents
  <2> HIDE DEF n
  <2>2. k >= 1 => k * GroupOrder >= GroupOrder
    BY GroupAssumption
  <2>3. k <= -1 => k * GroupOrder <= 0 - GroupOrder
    BY GroupAssumption
  <2>4. k = 0 => k * GroupOrder = 0
    BY GroupAssumption
  <2> QED BY <1>1, <2>1, <2>2, <2>3, <2>4
<1> QED BY <1>1 DEF Divides

(* Two answers about the quotient of two elements that differ in G.           *)
LEMMA OneQuotientAnswer ==
  ASSUME NEW t \in Element, NEW x \in Element, NEW z \in Element, x[1] # z[1],
         NEW c \in Sigma!ChallengeSet, NEW d \in Sigma!ChallengeSet,
         NEW s \in Sigma!Exponents, NEW r \in Sigma!Exponents,
         Sigma!HTo(s) = Sigma!Times(t, Sigma!Power(Sigma!Over(x, z), c)),
         Sigma!HTo(r) = Sigma!Times(t, Sigma!Power(Sigma!Over(x, z), d))
  PROVE  c = d
<1>1. x[1] \in Sigma!Exponents /\ z[1] \in Sigma!Exponents /\ t[1] \in Sigma!Exponents
  BY DEF Element
<1>2. x[1] - z[1] \in Int /\ t[1] \in Int /\ c \in Int /\ d \in Int /\ s \in Int /\ r \in Int
  BY <1>1 DEF Sigma!Exponents, Sigma!ChallengeSet
<1>3. ~Divides(x[1] - z[1])
  BY <1>1, DifferentExponents
<1>4. /\ (t[1] + (x[1] - z[1]) * c) % GroupOrder = 0
      /\ (t[1] + (x[1] - z[1]) * d) % GroupOrder = 0
  BY <1>2, EquationInG
<1> QED BY <1>2, <1>3, <1>4, OneAnswer

LEMMA QuotientAnswerable ==
  ASSUME NEW t \in Element, NEW x \in Element, NEW z \in Element, x[1] # z[1],
         NEW S \in SUBSET Sigma!ChallengeSet,
         \A c \in S : \E s \in Sigma!Exponents :
           Sigma!HTo(s) = Sigma!Times(t, Sigma!Power(Sigma!Over(x, z), c))
  PROVE  Sigma!Cardinality(S) <= 1
<1>1. \A c, d \in S : c = d
  BY OneQuotientAnswer
<1> QED BY <1>1, AtMostOne

(* Membership: two challenges that are both answered differ on some branch.   *)
LEMMA MembershipAnswerable ==
  ASSUME NEW x \in Element, NEW candidates \in Seq(Sigma!Exponents), NEW t \in Seq(Element),
         \A i \in DOMAIN candidates : candidates[i] # x[1]
  PROVE  Sigma!Cardinality(Sigma!Answerable(x, candidates, t)) <= 1
<1> DEFINE D == DOMAIN candidates
           Proof(cs, ss) == [candidates |-> candidates, t |-> t, c |-> cs, s |-> ss]
<1>1. D = 1 .. Len(candidates) /\ Len(candidates) \in Nat
  OBVIOUS
<1>2. ASSUME NEW c \in Sigma!Answerable(x, candidates, t), NEW d \in Sigma!Answerable(x, candidates, t)
      PROVE  c = d
  <2>1. PICK cs \in [D -> Sigma!ChallengeSet], ss \in [D -> Sigma!Exponents] :
          Sigma!VerifyMembership(x, Proof(cs, ss), candidates, c)
    BY DEF Sigma!Answerable
  <2>2. PICK ds \in [D -> Sigma!ChallengeSet], rs \in [D -> Sigma!Exponents] :
          Sigma!VerifyMembership(x, Proof(ds, rs), candidates, d)
    BY DEF Sigma!Answerable
  <2>3. /\ Len(t) = Len(candidates)
        /\ Sigma!SumOf(cs) % Challenges = c
        /\ \A i \in D : Sigma!BranchHolds(x, Proof(cs, ss), candidates, i)
    BY <2>1 DEF Sigma!VerifyMembership
  <2>4. /\ Sigma!SumOf(ds) % Challenges = d
        /\ \A i \in D : Sigma!BranchHolds(x, Proof(ds, rs), candidates, i)
    BY <2>2 DEF Sigma!VerifyMembership
  <2>5. ASSUME NEW i \in D PROVE cs[i] = ds[i]
    <3> DEFINE z == Sigma!GTo(candidates[i])
    <3>1. t[i] \in Element /\ candidates[i] \in Sigma!Exponents
      BY <1>1, <2>3
    <3>2. z[1] = candidates[i] /\ z \in Element
      <4>1. ASSUME NEW n \in Sigma!Exponents PROVE n % GroupOrder = n
        <5>1. n \in 0 .. GroupOrder - 1
          BY DEF Sigma!Exponents
        <5> QED BY <5>1, ModSmall
      <4>2. 0 \in Sigma!Exponents
        BY GroupAssumption DEF Sigma!Exponents
      <4> QED BY <3>1, <4>1, <4>2 DEF Sigma!GTo, Element
    <3>3. /\ Sigma!HTo(ss[i]) = Sigma!Times(t[i], Sigma!Power(Sigma!Over(x, z), cs[i]))
          /\ Sigma!HTo(rs[i]) = Sigma!Times(t[i], Sigma!Power(Sigma!Over(x, z), ds[i]))
      BY <2>3, <2>4 DEF Sigma!BranchHolds
    <3>4. /\ cs[i] \in Sigma!ChallengeSet /\ ds[i] \in Sigma!ChallengeSet
          /\ ss[i] \in Sigma!Exponents /\ rs[i] \in Sigma!Exponents
      OBVIOUS
    <3> HIDE DEF z
    <3> QED BY <3>1, <3>2, <3>3, <3>4, OneQuotientAnswer
  <2>6. cs = ds
    BY <2>5
  <2> QED BY <2>3, <2>4, <2>6
<1> QED BY <1>2, AtMostOne

-----------------------------------------------------------------------------
(* What a fold over a sequence of two elements comes to.                      *)
Pair == {1, 2}

LEMMA PairMax ==
  /\ Sigma!Max({1}) = 1 /\ Sigma!Max({2}) = 2 /\ Sigma!Max(Pair) = 2
  /\ \A s \in SUBSET Pair : s # {} => s = {1} \/ s = {2} \/ s = Pair
  /\ {1} \ {1} = {} /\ {2} \ {2} = {} /\ Pair \ {2} = {1}
  /\ {1} # {2} /\ {1} # Pair /\ {2} # Pair /\ Pair # {} /\ {1} # {} /\ {2} # {}
  /\ {} \in SUBSET Pair /\ {1} \in SUBSET Pair /\ {2} \in SUBSET Pair /\ Pair \in SUBSET Pair
<1>1. Sigma!Max({1}) = 1 /\ Sigma!Max({2}) = 2
  BY DEF Sigma!Max
<1>2. Sigma!Max(Pair) = 2
  BY DEF Sigma!Max, Pair
<1>3. \A s \in SUBSET Pair : s # {} => s = {1} \/ s = {2} \/ s = Pair
  BY DEF Pair
<1>4. {1} \ {1} = {} /\ {2} \ {2} = {} /\ Pair \ {2} = {1}
  BY DEF Pair
<1>5. {1} # {2} /\ {1} # Pair /\ {2} # Pair /\ Pair # {} /\ {1} # {} /\ {2} # {}
  BY DEF Pair
<1>6. {} \in SUBSET Pair /\ {1} \in SUBSET Pair /\ {2} \in SUBSET Pair /\ Pair \in SUBSET Pair
  BY DEF Pair
<1> QED BY <1>1, <1>2, <1>3, <1>4, <1>5, <1>6

LEMMA PairSum ==
  ASSUME NEW cs, DOMAIN cs = Pair
  PROVE  Sigma!SumOf(cs) = (0 + cs[1]) + cs[2]
<1> DEFINE Step(it, s) == IF s = {} THEN 0 ELSE it[s \ {Sigma!Max(s)}] + cs[Sigma!Max(s)]
           E(it) == [s \in SUBSET (Pair) |-> Step(it, s)]
           g == [s \in SUBSET (Pair) |->
                  IF s = {} THEN 0
                  ELSE IF s = {1} THEN 0 + cs[1]
                  ELSE IF s = {2} THEN 0 + cs[2]
                  ELSE (0 + cs[1]) + cs[2]]
<1>1. Sigma!SumOf(cs) = (CHOOSE it : it = E(it))[Pair]
  BY DEF Sigma!SumOf, Sigma!FoldLeft, Sigma!MapThenFoldSet
<1>2. \A f : /\ Step(f, {}) = 0
              /\ Step(f, {1}) = f[{}] + cs[1]
              /\ Step(f, {2}) = f[{}] + cs[2]
              /\ Step(f, Pair) = f[{1}] + cs[2]
  <2>1. {1} \ {Sigma!Max({1})} = {} /\ {2} \ {Sigma!Max({2})} = {} /\ Pair \ {Sigma!Max(Pair)} = {1}
    BY PairMax
  <2>2. Pair # {} /\ {1} # {} /\ {2} # {}
    BY PairMax
  <2>3. Sigma!Max({1}) = 1 /\ Sigma!Max({2}) = 2 /\ Sigma!Max(Pair) = 2
    BY PairMax
  <2> QED BY <2>1, <2>2, <2>3
<1>3. \A s \in SUBSET Pair : s = {} \/ s = {1} \/ s = {2} \/ s = Pair
  BY PairMax, Zenon
<1>4. {} \in SUBSET Pair /\ {1} \in SUBSET Pair /\ {2} \in SUBSET Pair /\ Pair \in SUBSET Pair
  BY PairMax, Zenon
<1>5. g = E(g)
  <2>1. g[{}] = 0 /\ g[{1}] = 0 + cs[1] /\ g[{2}] = 0 + cs[2] /\ g[Pair] = (0 + cs[1]) + cs[2]
    BY PairMax, Zenon
  <2>2. \A s \in SUBSET Pair : g[s] = Step(g, s)
    <3> HIDE DEF g, Step
    <3>1. Step(g, {1}) = g[{1}] /\ Step(g, {2}) = g[{2}] /\ Step(g, Pair) = g[Pair] /\ Step(g, {}) = g[{}]
      BY <1>2, <2>1
    <3> QED BY <1>3, <3>1
  <2> HIDE DEF Step
  <2> QED BY <2>2
<1>6. PICK it : it = E(it) /\ it = (CHOOSE f : f = E(f))
  <2> HIDE DEF E
  <2> QED BY <1>5
<1> HIDE DEF Step
<1>7. \A s \in SUBSET Pair : it[s] = Step(it, s)
  BY <1>6
<1>8. it[{}] = 0 /\ it[{1}] = 0 + cs[1] /\ it[Pair] = (0 + cs[1]) + cs[2]
  <2>1. it[{}] = Step(it, {}) /\ it[{1}] = Step(it, {1}) /\ it[Pair] = Step(it, Pair)
    BY <1>4, <1>7, Zenon
  <2> QED BY <1>2, <2>1
<1> HIDE DEF E
<1> QED BY <1>1, <1>6, <1>8

LEMMA PairProduct ==
  ASSUME NEW bits, DOMAIN bits = Pair
  PROVE  Sigma!Aggregate(bits)
           = Sigma!Times(Sigma!Times(Sigma!One, Sigma!Power(bits[1], 1)), Sigma!Power(bits[2], 2))
<1> DEFINE cs == [i \in DOMAIN bits |-> Sigma!Power(bits[i], 2 ^ (i - 1))]
           Step(it, s) == IF s = {} THEN Sigma!One ELSE Sigma!Times(it[s \ {Sigma!Max(s)}], cs[Sigma!Max(s)])
           E(it) == [s \in SUBSET (Pair) |-> Step(it, s)]
           g == [s \in SUBSET (Pair) |->
                  IF s = {} THEN Sigma!One
                  ELSE IF s = {1} THEN Sigma!Times(Sigma!One, cs[1])
                  ELSE IF s = {2} THEN Sigma!Times(Sigma!One, cs[2])
                  ELSE Sigma!Times(Sigma!Times(Sigma!One, cs[1]), cs[2])]
<1>1. Sigma!Aggregate(bits) = (CHOOSE it : it = E(it))[Pair]
  BY DEF Sigma!Aggregate, Sigma!FoldLeft, Sigma!MapThenFoldSet
<1> HIDE DEF cs
<1>2. \A f : /\ Step(f, {}) = Sigma!One
              /\ Step(f, {1}) = Sigma!Times(f[{}], cs[1])
              /\ Step(f, {2}) = Sigma!Times(f[{}], cs[2])
              /\ Step(f, Pair) = Sigma!Times(f[{1}], cs[2])
  <2>1. {1} \ {Sigma!Max({1})} = {} /\ {2} \ {Sigma!Max({2})} = {} /\ Pair \ {Sigma!Max(Pair)} = {1}
    BY PairMax
  <2>2. Pair # {} /\ {1} # {} /\ {2} # {}
    BY PairMax
  <2>3. Sigma!Max({1}) = 1 /\ Sigma!Max({2}) = 2 /\ Sigma!Max(Pair) = 2
    BY PairMax
  <2> QED BY <2>1, <2>2, <2>3
<1>3. \A s \in SUBSET Pair : s = {} \/ s = {1} \/ s = {2} \/ s = Pair
  BY PairMax, Zenon
<1>4. {} \in SUBSET Pair /\ {1} \in SUBSET Pair /\ {2} \in SUBSET Pair /\ Pair \in SUBSET Pair
  BY PairMax, Zenon
<1>5. g = E(g)
  <2>1. g[{}] = Sigma!One /\ g[{1}] = Sigma!Times(Sigma!One, cs[1]) /\ g[{2}] = Sigma!Times(Sigma!One, cs[2]) /\ g[Pair] = Sigma!Times(Sigma!Times(Sigma!One, cs[1]), cs[2])
    BY PairMax, Zenon
  <2>2. \A s \in SUBSET Pair : g[s] = Step(g, s)
    <3> HIDE DEF g, Step
    <3>1. Step(g, {1}) = g[{1}] /\ Step(g, {2}) = g[{2}] /\ Step(g, Pair) = g[Pair] /\ Step(g, {}) = g[{}]
      BY <1>2, <2>1
    <3> QED BY <1>3, <3>1
  <2> HIDE DEF Step
  <2> QED BY <2>2
<1>6. PICK it : it = E(it) /\ it = (CHOOSE f : f = E(f))
  <2> HIDE DEF E
  <2> QED BY <1>5
<1> HIDE DEF Step
<1>7. \A s \in SUBSET Pair : it[s] = Step(it, s)
  BY <1>6
<1>8. it[{}] = Sigma!One /\ it[{1}] = Sigma!Times(Sigma!One, cs[1]) /\ it[Pair] = Sigma!Times(Sigma!Times(Sigma!One, cs[1]), cs[2])
  <2>1. it[{}] = Step(it, {}) /\ it[{1}] = Step(it, {1}) /\ it[Pair] = Step(it, Pair)
    BY <1>4, <1>7, Zenon
  <2> QED BY <1>2, <2>1
<1>9. cs[1] = Sigma!Power(bits[1], 1) /\ cs[2] = Sigma!Power(bits[2], 2)
  <2>1. 2 ^ (1 - 1) = 1 /\ 2 ^ (2 - 1) = 2
    OBVIOUS
  <2> QED BY <2>1 DEF cs, Pair
<1> HIDE DEF E
<1> QED BY <1>1, <1>6, <1>8, <1>9

(* Two commitments to bits make up a commitment to the number they write.      *)
LEMMA AggregateOfTwo ==
  ASSUME NEW a \in Int, NEW b \in Int, NEW r \in Int, NEW u \in Int
  PROVE  Sigma!Aggregate(<<Sigma!Commit(a, r), Sigma!Commit(b, u)>>) = El(a + 2 * b, r + 2 * u)
<1> DEFINE bits == <<Sigma!Commit(a, r), Sigma!Commit(b, u)>>
<1>1. DOMAIN bits = Pair /\ bits[1] = El(a, r) /\ bits[2] = El(b, u)
  <2>1. DOMAIN bits = Pair /\ bits[1] = Sigma!Commit(a, r) /\ bits[2] = Sigma!Commit(b, u)
    BY DEF Pair
  <2>2. Sigma!Commit(a, r) = El(a, r) /\ Sigma!Commit(b, u) = El(b, u)
    BY ElOf
  <2> HIDE DEF bits
  <2> QED BY <2>1, <2>2
<1> HIDE DEF bits
<1>2. Sigma!Aggregate(bits)
        = Sigma!Times(Sigma!Times(Sigma!One, Sigma!Power(El(a, r), 1)), Sigma!Power(El(b, u), 2))
  BY <1>1, PairProduct
<1>3. Sigma!Power(El(a, r), 1) = El(a, r) /\ Sigma!Power(El(b, u), 2) = El(2 * b, 2 * u)
  <2>1. /\ Sigma!Power(El(a, r), 1) = El(a * 1, r * 1)
        /\ Sigma!Power(El(b, u), 2) = El(b * 2, u * 2)
    BY ElPower
  <2>2. a * 1 = a /\ r * 1 = r /\ b * 2 = 2 * b /\ u * 2 = 2 * u
    OBVIOUS
  <2> QED BY <2>1, <2>2
<1>4. Sigma!Times(Sigma!One, El(a, r)) = El(a, r)
  <2>1. Sigma!One = El(0, 0)
    BY ModSmall, GroupAssumption DEF Sigma!One, El
  <2>2. Sigma!Times(El(0, 0), El(a, r)) = El(0 + a, 0 + r)
    BY ElTimes
  <2>3. 0 + a = a /\ 0 + r = r
    OBVIOUS
  <2> QED BY <2>1, <2>2, <2>3
<1>5. Sigma!Times(El(a, r), El(2 * b, 2 * u)) = El(a + 2 * b, r + 2 * u)
  <2>1. 2 * b \in Int /\ 2 * u \in Int
    OBVIOUS
  <2> QED BY <2>1, ElTimes
<1> QED BY <1>2, <1>3, <1>4, <1>5 DEF bits

LEMMA ElIsElement == \A a, b \in Int : El(a, b) \in Element
  BY ModRange DEF El, Element, Sigma!Exponents

(* What is false has at most one challenge it can be answered for.            *)
LEMMA NothingFalseIsProved ==
  ASSUME NEW x \in Element, NEW other \in Element, NEW candidates \in Seq(Sigma!Exponents),
         NEW t \in Seq(Element), t # <<>>
  PROVE  Sigma!FalseIsCaught(x, other, candidates, t)
<1>1. t[1] \in Element
  OBVIOUS
<1>2. (\A i \in DOMAIN candidates : candidates[i] # x[1])
        => Sigma!Cardinality(Sigma!Answerable(x, candidates, t)) <= 1
  BY MembershipAnswerable
<1>3. x[1] # other[1] => Sigma!Cardinality(Sigma!EqualityAnswerable(x, other, t[1])) <= 1
  <2> DEFINE S == Sigma!EqualityAnswerable(x, other, t[1])
  <2>1. /\ S \in SUBSET Sigma!ChallengeSet
        /\ \A c \in S : \E s \in Sigma!Exponents :
             Sigma!HTo(s) = Sigma!Times(t[1], Sigma!Power(Sigma!Over(x, other), c))
    BY DEF Sigma!EqualityAnswerable, Sigma!VerifyEquality
  <2> HIDE DEF S
  <2>2. x[1] # other[1] => Sigma!Cardinality(S) <= 1
    BY <1>1, <2>1, QuotientAnswerable
  <2> QED BY <2>2 DEF S
<1>4. ASSUME x[1] > 3, NEW b \in {0, 1} \X {0, 1}
      PROVE  Sigma!Cardinality(Sigma!RangeAnswerable(x, <<Sigma!Commit(b[1], 1), Sigma!Commit(b[2], 1)>>,
                                                     t[1])) <= 1
  <2> DEFINE bits == <<Sigma!Commit(b[1], 1), Sigma!Commit(b[2], 1)>>
             z == Sigma!Aggregate(bits)
             S == Sigma!RangeAnswerable(x, bits, t[1])
  <2>1. b[1] \in {0, 1} /\ b[2] \in {0, 1}
    OBVIOUS
  <2>2. z = El(b[1] + 2 * b[2], 1 + 2 * 1)
    BY <2>1, AggregateOfTwo
  <2>3. b[1] + 2 * b[2] \in 0 .. 3 /\ x[1] \in 0 .. GroupOrder - 1 /\ GroupOrder \in Int
    BY <2>1, GroupAssumption DEF Element, Sigma!Exponents
  <2> HIDE DEF z
  <2>4. z \in Element /\ z[1] # x[1]
    <3> DEFINE n == b[1] + 2 * b[2]
    <3>1. n \in 0 .. 3
      BY <2>3
    <3> HIDE DEF n
    <3>2. n \in 0 .. GroupOrder - 1
      BY <1>4, <2>3, <3>1
    <3>3. n % GroupOrder = n
      BY <3>2, ModSmall
    <3>4. z = El(n, 1 + 2 * 1)
      BY <2>2 DEF n
    <3>5. z \in Element
      BY <3>1, <3>4, ElIsElement
    <3>6. z[1] = n
      BY <3>3, <3>4 DEF El
    <3> QED BY <1>4, <3>1, <3>5, <3>6
  <2>5. /\ S \in SUBSET Sigma!ChallengeSet
        /\ \A c \in S : \E s \in Sigma!Exponents :
             Sigma!HTo(s) = Sigma!Times(t[1], Sigma!Power(Sigma!Over(x, z), c))
    BY DEF Sigma!RangeAnswerable, z
  <2> HIDE DEF S, bits
  <2>6. Sigma!Cardinality(S) <= 1
    BY <1>1, <2>4, <2>5, QuotientAnswerable
  <2> QED BY <2>6 DEF S, bits
<1> QED BY <1>2, <1>3, <1>4 DEF Sigma!FalseIsCaught

-----------------------------------------------------------------------------
(* Honest proofs.                                                             *)
LEMMA OpeningAccepted ==
  ASSUME NEW v \in Int, NEW r \in Int, NEW w \in Int, NEW u \in Int, NEW c \in Int
  PROVE  Sigma!VerifyOpening(Sigma!Commit(v, r), Sigma!ProveOpening(v, r, w, u, c), c)
<1> DEFINE m == w + c * v
           n == u + c * r
<1>1. m \in Int /\ n \in Int /\ m % GroupOrder \in Int /\ n % GroupOrder \in Int
  BY ModRange
<1>2. Sigma!Times(Sigma!GTo(m % GroupOrder), Sigma!HTo(n % GroupOrder)) = El(m, n)
  <2> HIDE DEF m, n
  <2>1. /\ Sigma!GTo(m % GroupOrder) = El(m, 0)
        /\ Sigma!HTo(n % GroupOrder) = El(0, n)
    BY <1>1, ElOf
  <2>2. Sigma!Times(El(m, 0), El(0, n)) = El(m + 0, 0 + n)
    BY <1>1, ElTimes
  <2>3. m + 0 = m /\ 0 + n = n
    BY <1>1
  <2> QED BY <2>1, <2>2, <2>3
<1>3. Sigma!Times(Sigma!GTo(w), Sigma!HTo(u)) = El(w, u)
  <2>1. Sigma!Commit(w, u) = El(w, u)
    BY ElOf
  <2> QED BY <2>1 DEF Sigma!Commit
<1>4. Sigma!Times(El(w, u), Sigma!Power(Sigma!Commit(v, r), c)) = El(m, n)
  <2>1. Sigma!Commit(v, r) = El(v, r)
    BY ElOf
  <2>2. Sigma!Power(El(v, r), c) = El(v * c, r * c)
    BY ElPower
  <2>3. Sigma!Times(El(w, u), El(v * c, r * c)) = El(w + v * c, u + r * c)
    <3>1. v * c \in Int /\ r * c \in Int
      OBVIOUS
    <3> QED BY <3>1, ElTimes
  <2>4. w + v * c = m /\ u + r * c = n
    OBVIOUS
  <2> HIDE DEF m, n
  <2> QED BY <2>1, <2>2, <2>3, <2>4
<1> QED BY <1>2, <1>3, <1>4 DEF Sigma!VerifyOpening, Sigma!ProveOpening

(* The equation of the verifiers when both sides are known by their exponents. *)
LEMMA EquationHolds ==
  ASSUME NEW m \in Int, NEW t1 \in Int, NEW t2 \in Int, NEW x1 \in Int, NEW x2 \in Int,
         NEW z1 \in Int, NEW z2 \in Int, NEW c \in Int,
         t1 + (x1 - z1) * c = 0, t2 + (x2 - z2) * c = m
  PROVE  Sigma!HTo(m % GroupOrder)
           = Sigma!Times(El(t1, t2), Sigma!Power(Sigma!Over(El(x1, x2), El(z1, z2)), c))
<1>1. m % GroupOrder \in Int
  BY ModRange
<1>2. Sigma!HTo(m % GroupOrder) = El(0, m)
  BY <1>1, ElOf
<1>3. Sigma!Times(El(t1, t2), Sigma!Power(Sigma!Over(El(x1, x2), El(z1, z2)), c))
        = El(t1 + (x1 - z1) * c, t2 + (x2 - z2) * c)
  BY EquationBetweenEls
<1> QED BY <1>2, <1>3

LEMMA EqualityAccepted ==
  ASSUME NEW v \in Int, NEW r \in Int, NEW u \in Int, NEW w \in Int, NEW c \in Int
  PROVE  Sigma!VerifyEquality(Sigma!Commit(v, r), Sigma!Commit(v, u),
                              Sigma!ProveEquality(r, u, w, c), c)
<1> DEFINE m == w + c * (r - u)
<1>1. m \in Int /\ 0 + (v - v) * c = 0 /\ w + (r - u) * c = m
  OBVIOUS
<1>2. Sigma!HTo(w) = El(0, w) /\ Sigma!Commit(v, r) = El(v, r) /\ Sigma!Commit(v, u) = El(v, u)
  BY ElOf
<1> HIDE DEF m
<1>3. Sigma!HTo(m % GroupOrder)
        = Sigma!Times(El(0, w), Sigma!Power(Sigma!Over(El(v, r), El(v, u)), c))
  BY <1>1, EquationHolds
<1> QED BY <1>2, <1>3 DEF Sigma!VerifyEquality, Sigma!ProveEquality, m

(* The branch that is known is answered, the other one was made to fit.       *)
LEMMA KnownBranch ==
  ASSUME NEW v \in Int, NEW r \in Int, NEW w \in Int, NEW c \in Int
  PROVE  Sigma!HTo((w + c * r) % GroupOrder)
           = Sigma!Times(Sigma!HTo(w),
                         Sigma!Power(Sigma!Over(Sigma!Commit(v, r), Sigma!GTo(v)), c))
<1> DEFINE m == w + c * r
<1>1. m \in Int /\ 0 + (v - v) * c = 0 /\ w + (r - 0) * c = m
  OBVIOUS
<1>2. Sigma!HTo(w) = El(0, w) /\ Sigma!Commit(v, r) = El(v, r) /\ Sigma!GTo(v) = El(v, 0)
  BY ElOf
<1> HIDE DEF m
<1>3. Sigma!HTo(m % GroupOrder)
        = Sigma!Times(El(0, w), Sigma!Power(Sigma!Over(El(v, r), El(v, 0)), c))
  BY <1>1, EquationHolds
<1> QED BY <1>2, <1>3 DEF m

LEMMA SimulatedBranch ==
  ASSUME NEW v \in Int, NEW r \in Int, NEW k \in Int, NEW s \in Sigma!Exponents, NEW c \in Int
  PROVE  LET y == Sigma!Over(Sigma!Commit(v, r), Sigma!GTo(k))
         IN Sigma!HTo(s) = Sigma!Times(Sigma!Over(Sigma!HTo(s), Sigma!Power(y, c)), Sigma!Power(y, c))
<1> DEFINE y == Sigma!Over(Sigma!Commit(v, r), Sigma!GTo(k))
           a == (v - k) * c
           b == (r - 0) * c
<1>1. s \in Int /\ a \in Int /\ b \in Int /\ v - k \in Int /\ r - 0 \in Int
  BY DEF Sigma!Exponents
<1>2. Sigma!HTo(s) = El(0, s) /\ Sigma!Commit(v, r) = El(v, r) /\ Sigma!GTo(k) = El(k, 0)
  BY <1>1, ElOf
<1>3. y = El(v - k, r - 0)
  BY <1>2, ElOver
<1> HIDE DEF y
<1>4. Sigma!Power(y, c) = El(a, b)
  BY <1>1, <1>3, ElPower
<1> HIDE DEF a, b
<1>5. Sigma!Over(El(0, s), El(a, b)) = El(0 - a, s - b)
  BY <1>1, ElOver
<1>6. Sigma!Times(El(0 - a, s - b), El(a, b)) = El((0 - a) + a, (s - b) + b)
  <2>1. 0 - a \in Int /\ s - b \in Int
    BY <1>1
  <2> QED BY <1>1, <2>1, ElTimes
<1>7. (0 - a) + a = 0 /\ (s - b) + b = s
  BY <1>1
<1> QED BY <1>2, <1>4, <1>5, <1>6, <1>7 DEF y

(* The challenge left over makes the sum come out.                            *)
LEMMA OwnChallenge ==
  ASSUME NEW c \in Sigma!ChallengeSet, NEW d \in Sigma!ChallengeSet
  PROVE  /\ (c - d) % Challenges \in Sigma!ChallengeSet
         /\ (((c - d) % Challenges) + d) % Challenges = c
<1>1. Challenges \in Nat /\ Challenges > 0 /\ c \in 0 .. Challenges - 1 /\ d \in 0 .. Challenges - 1
  BY GroupAssumption DEF Sigma!ChallengeSet
<1> DEFINE own == (c - d) % Challenges
<1>2. own \in 0 .. Challenges - 1
  BY <1>1
<1>3. own = c - d \/ own = (c - d) + Challenges
  <2>1. CASE d <= c
    BY <1>1, <2>1
  <2>2. CASE c < d
    BY <1>1, <2>2
  <2> QED BY <1>1, <2>1, <2>2
<1> HIDE DEF own
<1>4. (own + d) % Challenges = c
  <2>1. own + d = c \/ own + d = c + Challenges
    BY <1>1, <1>2, <1>3
  <2>2. c % Challenges = c /\ (c + Challenges) % Challenges = c
    BY <1>1
  <2> QED BY <2>1, <2>2
<1> QED BY <1>2, <1>4 DEF own, Sigma!ChallengeSet

(* The value is one of the two candidates; the proof of the other is simulated. *)
LEMMA MembershipAccepted ==
  ASSUME NEW v \in {0, 1}, NEW r \in Int, NEW w \in Int, NEW c \in Sigma!ChallengeSet,
         NEW simulated \in Branch \X Branch
  PROVE  Sigma!VerifyMembership(Sigma!Commit(v, r),
           Sigma!ProveMembership(Sigma!Commit(v, r), v, r, <<0, 1>>, w, simulated, c), <<0, 1>>, c)
<1> DEFINE x == Sigma!Commit(v, r)
           candidates == <<0, 1>>
           j == v + 1
           o == 2 - v
           y(i) == Sigma!Over(x, Sigma!GTo(candidates[i]))
           dummies == [i \in DOMAIN candidates |-> IF i = j THEN 0 ELSE simulated[i].c]
           others == Sigma!SumOf(dummies)
           own == (c - others) % Challenges
           ts == [i \in DOMAIN candidates |->
                   IF i = j THEN Sigma!HTo(w)
                   ELSE Sigma!Over(Sigma!HTo(simulated[i].s), Sigma!Power(y(i), simulated[i].c))]
           cs == [i \in DOMAIN candidates |-> IF i = j THEN own ELSE simulated[i].c]
           ss == [i \in DOMAIN candidates |->
                   IF i = j THEN (w + own * r) % GroupOrder ELSE simulated[i].s]
           proof == Sigma!ProveMembership(x, v, r, candidates, w, simulated, c)
<1>1. /\ DOMAIN candidates = {1, 2} /\ candidates[1] = 0 /\ candidates[2] = 1
      /\ Len(candidates) = 2 /\ j \in {1, 2} /\ o \in {1, 2} /\ o # j /\ candidates[j] = v
      /\ {1, 2} = {j, o} /\ candidates[o] \in Int
  OBVIOUS
<1>2. /\ simulated[o].c \in Sigma!ChallengeSet /\ simulated[o].s \in Sigma!Exponents
      /\ simulated[o].c \in Int /\ c \in Int
  <2>1. simulated[1] \in Branch /\ simulated[2] \in Branch
    OBVIOUS
  <2>2. simulated[o] \in Branch
    BY <1>1, <2>1
  <2>3. simulated[o].c \in Sigma!ChallengeSet /\ simulated[o].s \in Sigma!Exponents
    BY <2>2 DEF Branch
  <2> QED BY <2>3 DEF Sigma!ChallengeSet
<1>3. j = (CHOOSE i \in DOMAIN candidates :
             candidates[i] = v /\ \A k \in 1 .. i - 1 : candidates[k] # v)
  OBVIOUS
<1>4. proof = [candidates |-> candidates, t |-> ts, c |-> cs, s |-> ss]
  <2> HIDE DEF j, candidates
  <2> QED BY <1>3 DEF Sigma!ProveMembership
<1>5. others = simulated[o].c
  <2>1. DOMAIN dummies = Pair
    BY <1>1 DEF Pair
  <2>2. others = (0 + dummies[1]) + dummies[2]
    <3> HIDE DEF dummies
    <3> QED BY <2>1, PairSum
  <2>3. dummies[j] = 0 /\ dummies[o] = simulated[o].c
    <3> HIDE DEF candidates, j, o
    <3> QED BY <1>1
  <2> HIDE DEF dummies, others
  <2> QED BY <1>2, <2>2, <2>3
<1> HIDE DEF others
<1>6. own \in Sigma!ChallengeSet /\ own \in Int /\ (own + simulated[o].c) % Challenges = c
  <2>1. own \in Sigma!ChallengeSet /\ (own + simulated[o].c) % Challenges = c
    BY <1>2, <1>5, OwnChallenge
  <2> QED BY <2>1 DEF Sigma!ChallengeSet
<1> HIDE DEF own
<1>7. /\ cs[j] = own /\ cs[o] = simulated[o].c
      /\ ts[j] = Sigma!HTo(w) /\ ss[j] = (w + own * r) % GroupOrder
      /\ ts[o] = Sigma!Over(Sigma!HTo(simulated[o].s), Sigma!Power(y(o), simulated[o].c))
      /\ ss[o] = simulated[o].s
      /\ DOMAIN cs = Pair
  <2> HIDE DEF candidates, j, o, x
  <2> QED BY <1>1 DEF Pair
<1>8. Len(ts) = 2 /\ Len(cs) = 2 /\ Len(ss) = 2
  <2>1. DOMAIN candidates = 1 .. 2
    OBVIOUS
  <2> HIDE DEF candidates, j, y
  <2> QED BY <2>1
<1> HIDE DEF cs, ts, ss
<1>9. Sigma!SumOf(cs) % Challenges = c
  <2>1. Sigma!SumOf(cs) = (0 + cs[1]) + cs[2]
    BY <1>7, PairSum
  <2>2. (0 + cs[1]) + cs[2] = own + simulated[o].c
    BY <1>2, <1>6, <1>7
  <2> QED BY <1>6, <2>1, <2>2
<1>10. Sigma!HTo(ss[j]) = Sigma!Times(ts[j], Sigma!Power(Sigma!Over(x, Sigma!GTo(v)), cs[j]))
  <2>1. v \in Int
    OBVIOUS
  <2> QED BY <1>6, <1>7, <2>1, KnownBranch
<1>11. Sigma!HTo(ss[o]) = Sigma!Times(ts[o], Sigma!Power(y(o), cs[o]))
  <2>1. v \in Int
    OBVIOUS
  <2>2. candidates[o] \in Int
    BY <1>1
  <2> HIDE DEF candidates, o
  <2> QED BY <1>2, <1>7, <2>1, <2>2, SimulatedBranch
<1>12. \A i \in DOMAIN candidates : Sigma!BranchHolds(x, proof, candidates, i)
  <2>1. \A i \in DOMAIN candidates : i = j \/ i = o
    BY <1>1
  <2>2. proof.t = ts /\ proof.c = cs /\ proof.s = ss
    BY <1>4
  <2>3. candidates[j] = v
    BY <1>1
  <2> HIDE DEF proof, candidates, j, o, x
  <2> QED BY <1>10, <1>11, <2>1, <2>2, <2>3 DEF Sigma!BranchHolds
<1>13. /\ proof.candidates = candidates /\ Len(proof.t) = 2 /\ Len(proof.s) = 2
       /\ Len(proof.c) = 2 /\ proof.c = cs
  BY <1>4, <1>8
<1>14. Sigma!VerifyMembership(x, proof, candidates, c)
  <2>1. Len(candidates) = 2
    BY <1>1
  <2> HIDE DEF x, proof, candidates
  <2> QED BY <1>9, <1>12, <1>13, <2>1 DEF Sigma!VerifyMembership
<1> QED BY <1>14

LEMMA TwoBits ==
  ASSUME NEW n \in Int
  PROVE  /\ Sigma!Bit(n, 1) = n % 2 /\ Sigma!Bit(n, 1) \in {0, 1}
         /\ n \in 0 .. 3 => Sigma!Bit(n, 2) \in {0, 1}
                            /\ n = Sigma!Bit(n, 1) + 2 * Sigma!Bit(n, 2)
<1>1. 2 ^ (1 - 1) = 1 /\ 2 ^ (2 - 1) = 2
  OBVIOUS
<1>2. Sigma!Bit(n, 1) = (n \div 1) % 2 /\ Sigma!Bit(n, 2) = (n \div 2) % 2
  BY <1>1 DEF Sigma!Bit
<1>3. n \div 1 = n
  OBVIOUS
<1>4. n \in 0 .. 3 => (n \div 2) % 2 \in {0, 1} /\ n = (n % 2) + 2 * ((n \div 2) % 2)
  OBVIOUS
<1>5. n % 2 \in {0, 1}
  OBVIOUS
<1> QED BY <1>2, <1>3, <1>4, <1>5

(* A committed number under four, bit by bit, and the commitments to its bits. *)
LEMMA RangeAccepted ==
  ASSUME NEW n \in 0 .. 3, NEW b \in Int, NEW r1 \in Int, NEW r2 \in Int, NEW w \in Int,
         NEW c \in Sigma!ChallengeSet, NEW proofs, Len(proofs) = 2,
         Sigma!VerifyMembership(Sigma!Commit(Sigma!Bit(n, 1), r1), proofs[1], <<0, 1>>, c),
         Sigma!VerifyMembership(Sigma!Commit(Sigma!Bit(n, 2), r2), proofs[2], <<0, 1>>, c)
  PROVE  Sigma!VerifyRange(Sigma!Commit(n, b),
                           Sigma!ProveRange(n, b, <<r1, r2>>, proofs, w, c), 2, <<c, c>>, c)
<1> DEFINE b1 == Sigma!Bit(n, 1)
           b2 == Sigma!Bit(n, 2)
           blindings == <<r1, r2>>
           terms == [i \in DOMAIN blindings |-> 2 ^ (i - 1) * blindings[i]]
           weighted == Sigma!SumOf(terms)
           bits == [i \in DOMAIN blindings |-> Sigma!Commit(Sigma!Bit(n, i), blindings[i])]
           m == w + c * (b - weighted)
           proof == Sigma!ProveRange(n, b, blindings, proofs, w, c)
<1>1. /\ b1 \in {0, 1} /\ b2 \in {0, 1} /\ b1 \in Int /\ b2 \in Int /\ n = b1 + 2 * b2
      /\ n \in Int /\ c \in Int
  BY TwoBits DEF Sigma!ChallengeSet
<1>2. weighted = r1 + 2 * r2 /\ weighted \in Int
  <2>1. DOMAIN terms = Pair
    BY DEF Pair
  <2>2. terms[1] = 1 * r1 /\ terms[2] = 2 * r2
    <3>1. 2 ^ (1 - 1) = 1 /\ 2 ^ (2 - 1) = 2
      OBVIOUS
    <3> QED BY <3>1
  <2> HIDE DEF terms
  <2>3. weighted = (0 + terms[1]) + terms[2]
    BY <2>1, PairSum
  <2> QED BY <2>2, <2>3
<1>3. bits = <<Sigma!Commit(b1, r1), Sigma!Commit(b2, r2)>>
  OBVIOUS
<1>4. proof = [bits |-> bits, proofs |-> proofs, t |-> Sigma!HTo(w), s |-> m % GroupOrder]
  BY DEF Sigma!ProveRange
<1> HIDE DEF weighted, b1, b2
<1>5. Sigma!Aggregate(bits) = El(n, weighted)
  <2>1. Sigma!Aggregate(<<Sigma!Commit(b1, r1), Sigma!Commit(b2, r2)>>) = El(b1 + 2 * b2, r1 + 2 * r2)
    BY <1>1, AggregateOfTwo
  <2> HIDE DEF bits
  <2> QED BY <1>1, <1>2, <1>3, <2>1
<1>6. Len(bits) = 2 /\ bits[1] = Sigma!Commit(b1, r1) /\ bits[2] = Sigma!Commit(b2, r2)
  <2> HIDE DEF bits
  <2> QED BY <1>3
<1> HIDE DEF bits, proof
<1>7. Sigma!HTo(m % GroupOrder)
        = Sigma!Times(Sigma!HTo(w), Sigma!Power(Sigma!Over(Sigma!Commit(n, b), El(n, weighted)), c))
  <2>1. m \in Int /\ 0 + (n - n) * c = 0 /\ w + (b - weighted) * c = m
    BY <1>1, <1>2
  <2>2. Sigma!HTo(w) = El(0, w) /\ Sigma!Commit(n, b) = El(n, b)
    BY <1>1, ElOf
  <2> HIDE DEF m
  <2>3. Sigma!HTo(m % GroupOrder)
          = Sigma!Times(El(0, w), Sigma!Power(Sigma!Over(El(n, b), El(n, weighted)), c))
    <3>1. 0 \in Int /\ n \in Int /\ b \in Int /\ w \in Int /\ c \in Int /\ weighted \in Int
      BY <1>1, <1>2
    <3> QED BY <2>1, <3>1, EquationHolds
  <2> QED BY <2>2, <2>3
<1>8. \A i \in 1 .. 2 :
        Sigma!VerifyMembership(proof.bits[i], proof.proofs[i], <<0, 1>>, <<c, c>>[i])
  <2>1. \A i \in 1 .. 2 : i = 1 \/ i = 2
    OBVIOUS
  <2>2. proof.bits = bits /\ proof.proofs = proofs /\ <<c, c>>[1] = c /\ <<c, c>>[2] = c
    BY <1>4
  <2> QED BY <1>6, <2>1, <2>2 DEF b1, b2
<1>9. proof.s = m % GroupOrder /\ proof.t = Sigma!HTo(w) /\ proof.bits = bits /\ proof.proofs = proofs
  BY <1>4
<1> HIDE DEF m
<1>10. Sigma!VerifyRange(Sigma!Commit(n, b), proof, 2, <<c, c>>, c)
  BY <1>5, <1>6, <1>7, <1>8, <1>9 DEF Sigma!VerifyRange
<1> QED BY <1>10 DEF proof

(* Every proof an honest prover makes is accepted.                            *)
LEMMA HonestyIsAccepted ==
  ASSUME NEW claim \in HonestClaim
  PROVE  Sigma!HonestIsAccepted(claim.value, claim.blinding, claim.w, claim.w2, claim.c,
                                claim.simulated)
<1> DEFINE v == claim.value
           r == claim.blinding
           w == claim.w
           u == claim.w2
           c == claim.c
           small == v % 4
           low == Sigma!Bit(small, 1)
           high == Sigma!Bit(small, 2)
           member(bit, b) ==
             Sigma!ProveMembership(Sigma!Commit(bit, b), bit, b, <<0, 1>>, w, claim.simulated, c)
           Holds(bit, b) == Sigma!VerifyMembership(Sigma!Commit(bit, b), member(bit, b), <<0, 1>>, c)
           proofs == <<member(low, r), member(high, w)>>
<1>1. /\ v \in Int /\ r \in Int /\ w \in Int /\ u \in Int
      /\ c \in Sigma!ChallengeSet /\ c \in Int
      /\ claim.simulated \in Branch \X Branch
  <2>1. /\ v \in Nat /\ r \in Sigma!Exponents /\ w \in Sigma!Exponents /\ u \in Sigma!Exponents
        /\ c \in Sigma!ChallengeSet /\ claim.simulated \in Branch \X Branch
    BY DEF HonestClaim
  <2>2. r \in Int /\ w \in Int /\ u \in Int /\ c \in Int
    BY <2>1 DEF Sigma!Exponents, Sigma!ChallengeSet
  <2> QED BY <2>1, <2>2
<1>2. small \in 0 .. 3 /\ Sigma!Bit(v, 1) \in {0, 1} /\ low \in {0, 1} /\ high \in {0, 1}
  <2>1. small \in 0 .. 3 /\ small \in Int
    BY <1>1
  <2> HIDE DEF small
  <2> QED BY <1>1, <2>1, TwoBits
<1> HIDE DEF v, r, w, u, c, small, low, high
<1>3. \A bit \in {0, 1}, b \in Int : Holds(bit, b)
  BY <1>1, MembershipAccepted
<1>4. Sigma!VerifyOpening(Sigma!Commit(v, r), Sigma!ProveOpening(v, r, w, u, c), c)
  BY <1>1, OpeningAccepted
<1>5. Sigma!VerifyEquality(Sigma!Commit(v, r), Sigma!Commit(v, u), Sigma!ProveEquality(r, u, w, c), c)
  BY <1>1, EqualityAccepted
<1>6. Holds(Sigma!Bit(v, 1), r)
  BY <1>1, <1>2, <1>3
<1>7. Sigma!VerifyRange(Sigma!Commit(small, u),
                        Sigma!ProveRange(small, u, <<r, w>>, proofs, w, c), 2, <<c, c>>, c)
  <2>1. Holds(low, r) /\ Holds(high, w)
    BY <1>1, <1>2, <1>3
  <2>2. Len(proofs) = 2 /\ proofs[1] = member(low, r) /\ proofs[2] = member(high, w)
    <3> HIDE DEF member
    <3> QED OBVIOUS
  <2>3. /\ Sigma!VerifyMembership(Sigma!Commit(low, r), proofs[1], <<0, 1>>, c)
        /\ Sigma!VerifyMembership(Sigma!Commit(high, w), proofs[2], <<0, 1>>, c)
    <3> HIDE DEF member, proofs
    <3> QED BY <2>1, <2>2
  <2> HIDE DEF proofs
  <2> QED BY <1>1, <1>2, <2>2, <2>3, RangeAccepted DEF low, high
<1> QED BY <1>4, <1>5, <1>6, <1>7 DEF Sigma!HonestIsAccepted, v, r, w, u, c, small, low, high

(* A proof about a keep says what it was made over.                           *)
LEMMA KeepProofNamesTheKeep ==
  ASSUME NEW k \in KeepClaim
  PROVE  Sigma!KeepProofIsAboutTheKeep(k.log, k.head, k.list, k.index, k.b, k.vhead, k.vlist)
<1> DEFINE mine == SubSeq(k.log, 1, k.list)
           theirs == SubSeq(k.log, 1, k.vlist)
           bundle == Sigma!ProveInKeep(k.head, mine, k.index, k.b)
<1>1. k.log \in Seq(Nat) /\ k.list \in 0 .. Len(k.log) /\ k.vlist \in 0 .. Len(k.log)
  BY DEF KeepClaim
<1>2. DOMAIN mine = 1 .. Len(mine) /\ DOMAIN theirs = 1 .. Len(theirs)
      /\ Len(mine) \in Nat /\ Len(theirs) \in Nat
  BY <1>1
<1> HIDE DEF mine, theirs
<1>3. Sigma!Scalars(theirs) = Sigma!Scalars(mine) => Len(mine) = Len(theirs)
  <2>1. DOMAIN Sigma!Scalars(theirs) = 1 .. Len(theirs) /\ DOMAIN Sigma!Scalars(mine) = 1 .. Len(mine)
    BY <1>2 DEF Sigma!Scalars
  <2>2. ASSUME NEW m \in Nat, NEW n \in Nat, 1 .. m = 1 .. n PROVE m = n
    <3>1. (m > 0 => m \in 1 .. m) /\ (n > 0 => n \in 1 .. n)
      OBVIOUS
    <3>2. (m > 0 => m \in 1 .. n) /\ (n > 0 => n \in 1 .. m)
      BY <2>2, <3>1
    <3> QED BY <3>2
  <2> QED BY <1>2, <2>1, <2>2
<1>4. /\ bundle.head = k.head /\ bundle.keep_size = Len(mine)
      /\ bundle.candidates = Sigma!Scalars(mine)
      /\ bundle.answers = Sigma!Statement(k.head, bundle.commitment, Sigma!Scalars(mine))
  BY DEF Sigma!ProveInKeep
<1> HIDE DEF bundle
<1>5. Sigma!VerifyInKeep(bundle, theirs, k.vhead)
        <=> k.vhead = k.head /\ Sigma!Scalars(theirs) = Sigma!Scalars(mine)
  BY <1>3, <1>4 DEF Sigma!VerifyInKeep
<1> QED BY <1>5 DEF Sigma!KeepProofIsAboutTheKeep, bundle, mine, theirs

(* ProofsAreSound, for any prime order, any number of challenges and any        *)
(* claims: what is true is proved, what is false is answered for at most one   *)
(* challenge, and a keep's proof is about that keep (zk.py, zk_keep.py).       *)
THEOREM NothingFalseNothingLost == VSpec => []ProofsAreSound
<1>1. InputType => ProofsAreSound
  <2> SUFFICES ASSUME InputType, Tried("proof")
               PROVE  /\ input.kind = "honest" => HonestHolds(input)
                      /\ input.kind = "false" => FalseHolds(input)
                      /\ input.kind = "keep" => KeepHolds(input)
    BY DEF ProofsAreSound
  <2>1. input \in HonestClaim \cup FalseClaim \cup KeepClaim
    BY DEF InputType
  <2>2. \A claim \in HonestClaim : claim.kind = "honest"
    BY DEF HonestClaim
  <2>3. \A claim \in FalseClaim : claim.kind = "false"
    BY DEF FalseClaim
  <2>4. \A claim \in KeepClaim : claim.kind = "keep"
    BY DEF KeepClaim
  <2>5. CASE input \in HonestClaim
    BY <2>2, <2>5, HonestyIsAccepted DEF HonestHolds
  <2>6. CASE input \in FalseClaim
    <3>1. /\ input.commitment \in Element /\ input.other \in Element
          /\ input.candidates \in Seq(Sigma!Exponents)
          /\ input.t \in Seq(Element) /\ input.t # <<>>
      BY <2>6 DEF FalseClaim
    <3>2. FalseHolds(input)
      BY <3>1, NothingFalseIsProved DEF FalseHolds
    <3> QED BY <2>3, <2>6, <3>2
  <2>7. CASE input \in KeepClaim
    BY <2>4, <2>7, KeepProofNamesTheKeep DEF KeepHolds
  <2> QED BY <2>1, <2>5, <2>6, <2>7
<1> QED BY InputTyped, <1>1, PTL

------------------------------------------------------------------------------
(* What goes on from one number to the next holds up to any number.           *)
LEMMA LeastNumber ==
  ASSUME NEW S \in SUBSET Nat, S # {} PROVE \E m \in S : \A b \in S : m <= b
<1> DEFINE R == OpToRel(<, Nat)
<1>1. PICK m \in S : \A b \in S : ~(<<b, m>> \in R)
  <2>1. IsWellFoundedOn(R, Nat)
    BY NatLessThanWellFounded
  <2> HIDE DEF R
  <2> QED BY <2>1, WFMin
<1>2. \A b \in S : b < m => <<b, m>> \in R
  BY DEF OpToRel
<1>3. \A b \in S : ~(b < m)
  <2> HIDE DEF R
  <2> QED BY <1>1, <1>2, Zenon
<1> QED BY <1>3

LEMMA Upwards ==
  ASSUME NEW a \in Nat, NEW b \in Nat, NEW T, a \in T,
         \A k \in a .. b : k \in T /\ k + 1 <= b => k + 1 \in T
  PROVE  \A k \in a .. b : k \in T
<1> DEFINE Rest == {k \in a .. b : k \notin T}
<1>1. SUFFICES ASSUME Rest # {} PROVE FALSE
  OBVIOUS
<1>2. Rest \in SUBSET Nat
  OBVIOUS
<1>3. PICK k \in Rest : \A j \in Rest : k <= j
  <2> HIDE DEF Rest
  <2> QED BY <1>1, <1>2, LeastNumber
<1>4. k # a /\ k - 1 \in a .. b /\ k - 1 \notin Rest
  BY <1>3
<1>5. k - 1 \in T
  BY <1>4
<1>6. (k - 1) + 1 = k /\ k <= b
  BY <1>3
<1> QED BY <1>3, <1>4, <1>5, <1>6

(* What a list has at some places: of the list up to one place there is one   *)
(* more, or none.                                                            *)
AreKept(f, list, places, n) ==
  f = [i \in 0 .. n |->
         IF i = 0 THEN <<>>
         ELSE IF i \in places THEN Append(f[i - 1], list[i]) ELSE f[i - 1]]

LEMMA KeptExist ==
  ASSUME NEW list, NEW places, NEW n \in Nat PROVE \E f : AreKept(f, list, places, n)
<1> DEFINE T == {k \in Nat : \E f : AreKept(f, list, places, k)}
<1>1. 0 \in T
  <2>1. AreKept([i \in 0 .. 0 |-> <<>>], list, places, 0)
    BY DEF AreKept
  <2> QED BY <2>1
<1>2. ASSUME NEW k \in 0 .. n, k \in T PROVE k + 1 \in T
  <2>1. PICK f : AreKept(f, list, places, k)
    BY <1>2
  <2> DEFINE next == IF k + 1 \in places THEN Append(f[k], list[k + 1]) ELSE f[k]
             more == [i \in 0 .. k + 1 |-> IF i = k + 1 THEN next ELSE f[i]]
  <2>2. \A i \in 0 .. k + 1 :
          more[i] = IF i = 0 THEN <<>>
                    ELSE IF i \in places THEN Append(more[i - 1], list[i]) ELSE more[i - 1]
    <3> SUFFICES ASSUME NEW i \in 0 .. k + 1
                 PROVE  more[i] = IF i = 0 THEN <<>>
                                  ELSE IF i \in places THEN Append(more[i - 1], list[i]) ELSE more[i - 1]
      OBVIOUS
    <3>1. CASE i = k + 1
      <4>1. more[i] = next /\ more[i - 1] = f[k] /\ i # 0
        BY <3>1
      <4> HIDE DEF more
      <4> QED BY <3>1, <4>1
    <3>2. CASE i # k + 1
      <4>1. i \in 0 .. k /\ (i # 0 => i - 1 \in 0 .. k)
        BY <3>2
      <4>2. f[i] = IF i = 0 THEN <<>>
                   ELSE IF i \in places THEN Append(f[i - 1], list[i]) ELSE f[i - 1]
        BY <2>1, <4>1 DEF AreKept
      <4>3. more[i] = f[i] /\ (i # 0 => more[i - 1] = f[i - 1])
        BY <4>1
      <4> HIDE DEF more
      <4> QED BY <4>2, <4>3
    <3> QED BY <3>1, <3>2
  <2>3. more = [i \in 0 .. k + 1 |-> more[i]]
    OBVIOUS
  <2>4. AreKept(more, list, places, k + 1)
    <3> HIDE DEF more
    <3> QED BY <2>2, <2>3 DEF AreKept
  <2> QED BY <2>4
<1>3. n \in T
  <2> HIDE DEF T
  <2> QED BY <1>1, <1>2, Upwards
<1> QED BY <1>3

LEMMA OnlyByOne ==
  ASSUME NEW list, NEW places, Len(list) \in Nat
  PROVE  \E f : /\ f[0] = <<>>
                /\ \A i \in 1 .. Len(list) :
                     f[i] = IF i \in places THEN Append(f[i - 1], list[i]) ELSE f[i - 1]
                /\ Finder!Only(list, places) = f[Len(list)]
<1> DEFINE f == CHOOSE g : AreKept(g, list, places, Len(list))
<1>1. AreKept(f, list, places, Len(list))
  BY KeptExist
<1>2. Finder!Only(list, places) = f[Len(list)]
  BY DEF Finder!Only, AreKept
<1> HIDE DEF f
<1>3. f[0] = <<>>
  BY <1>1 DEF AreKept
<1>4. \A i \in 1 .. Len(list) : f[i] = IF i \in places THEN Append(f[i - 1], list[i]) ELSE f[i - 1]
  <2> SUFFICES ASSUME NEW i \in 1 .. Len(list)
               PROVE  f[i] = IF i \in places THEN Append(f[i - 1], list[i]) ELSE f[i - 1]
    OBVIOUS
  <2>1. i \in 0 .. Len(list) /\ i # 0
    OBVIOUS
  <2> QED BY <1>1, <2>1 DEF AreKept
<1> QED BY <1>2, <1>3, <1>4

(* Of the first n of a list, kept has those at the places, and no other.      *)
HasOnly(kept, list, places, n) ==
  /\ \A k \in 1 .. Len(kept) : \E i \in 1 .. n : i \in places /\ kept[k] = list[i]
  /\ \A i \in 1 .. n : i \in places => \E k \in 1 .. Len(kept) : kept[k] = list[i]

NoUrlTwice(list) == \A i, j \in 1 .. Len(list) : i # j => list[i].url # list[j].url

LEMMA OnlyThose ==
  ASSUME NEW S, NEW list \in Seq(S), NEW places
  PROVE  /\ Finder!Only(list, places) \in Seq(S)
         /\ HasOnly(Finder!Only(list, places), list, places, Len(list))
         /\ NoUrlTwice(list) => NoUrlTwice(Finder!Only(list, places))
<1> DEFINE n == Len(list)
<1>1. n \in Nat /\ \A i \in 1 .. n : list[i] \in S
  OBVIOUS
<1>2. PICK f : /\ f[0] = <<>>
               /\ \A i \in 1 .. Len(list) :
                    f[i] = IF i \in places THEN Append(f[i - 1], list[i]) ELSE f[i - 1]
               /\ Finder!Only(list, places) = f[Len(list)]
  BY <1>1, OnlyByOne
<1> DEFINE Right(kept, i) ==
             /\ kept \in Seq(S) /\ HasOnly(kept, list, places, i)
             /\ NoUrlTwice(list) => NoUrlTwice(kept)
           T == {i \in Nat : Right(f[i], i)}
<1>3. 0 \in T
  <2>1. <<>> \in Seq(S) /\ Len(<<>>) = 0
    OBVIOUS
  <2>2. HasOnly(<<>>, list, places, 0) /\ NoUrlTwice(<<>>)
    BY <2>1 DEF HasOnly, NoUrlTwice
  <2> QED BY <1>2, <2>1, <2>2
<1>4. ASSUME NEW i \in 0 .. n, i \in T, i + 1 <= n PROVE i + 1 \in T
  <2> DEFINE kept == f[i]
             more == f[i + 1]
  <2>1. kept \in Seq(S) /\ HasOnly(kept, list, places, i) /\ (NoUrlTwice(list) => NoUrlTwice(kept))
    BY <1>4
  <2>2. i + 1 \in 1 .. n /\ (i + 1) - 1 = i /\ i \in Nat
    BY <1>1, <1>4
  <2>3. more = IF i + 1 \in places THEN Append(kept, list[i + 1]) ELSE kept
    BY <1>2, <2>2
  <2>4. list[i + 1] \in S
    BY <1>1, <2>2
  <2> HIDE DEF kept, more, n, T
  <2>5. CASE i + 1 \notin places
    <3>1. more = kept
      BY <2>3, <2>5
    <3>2. HasOnly(kept, list, places, i + 1)
      <4>1. \A j \in 1 .. i + 1 : j \in places => j \in 1 .. i
        BY <2>2, <2>5
      <4>2. \A j \in 1 .. i : j \in 1 .. i + 1
        BY <2>2
      <4> QED BY <2>1, <4>1, <4>2 DEF HasOnly
    <3> QED BY <2>1, <2>2, <3>1, <3>2 DEF T, more
  <2>6. CASE i + 1 \in places
    <3> DEFINE e == list[i + 1]
               l == Len(kept)
    <3>1. /\ more \in Seq(S) /\ Len(more) = l + 1 /\ more[l + 1] = e /\ l \in Nat
          /\ \A k \in 1 .. l : more[k] = kept[k]
      <4> HIDE DEF e
      <4>1. more = Append(kept, e) /\ e \in S
        BY <2>3, <2>4, <2>6 DEF e
      <4> QED BY <2>1, <4>1
    <3> HIDE DEF e, l
    <3>2. HasOnly(more, list, places, i + 1)
      <4>1. ASSUME NEW k \in 1 .. Len(more)
            PROVE  \E j \in 1 .. i + 1 : j \in places /\ more[k] = list[j]
        <5>1. CASE k = l + 1
          BY <2>2, <2>6, <3>1, <5>1 DEF e
        <5>2. CASE k # l + 1
          <6>1. k \in 1 .. l
            BY <3>1, <5>2
          <6>2. PICK j \in 1 .. i : j \in places /\ kept[k] = list[j]
            BY <2>1, <6>1 DEF HasOnly, l
          <6>3. j \in 1 .. i + 1
            BY <2>2
          <6> QED BY <3>1, <6>1, <6>2, <6>3
        <5> QED BY <5>1, <5>2
      <4>2. ASSUME NEW j \in 1 .. i + 1, j \in places
            PROVE  \E k \in 1 .. Len(more) : more[k] = list[j]
        <5>1. CASE j = i + 1
          BY <3>1, <5>1 DEF e
        <5>2. CASE j # i + 1
          <6>1. j \in 1 .. i
            BY <2>2, <5>2
          <6>2. PICK k \in 1 .. l : kept[k] = list[j]
            BY <2>1, <4>2, <6>1 DEF HasOnly, l
          <6>3. k \in 1 .. Len(more)
            BY <3>1
          <6> QED BY <3>1, <6>2, <6>3
        <5> QED BY <5>1, <5>2
      <4> QED BY <4>1, <4>2 DEF HasOnly
    <3>3. NoUrlTwice(list) => NoUrlTwice(more)
      <4> SUFFICES ASSUME NoUrlTwice(list), NEW k \in 1 .. Len(more), NEW m \in 1 .. Len(more), k < m
                   PROVE  more[k].url # more[m].url
        BY <3>1 DEF NoUrlTwice
      <4>1. k \in 1 .. l /\ k # m
        BY <3>1
      <4>2. CASE m = l + 1
        <5>1. PICK j \in 1 .. i : kept[k] = list[j]
          BY <2>1, <4>1 DEF HasOnly, l
        <5>2. j \in 1 .. Len(list) /\ i + 1 \in 1 .. Len(list) /\ j # i + 1
          BY <2>2 DEF n
        <5>3. list[j].url # list[i + 1].url
          BY <5>2 DEF NoUrlTwice
        <5> QED BY <3>1, <4>1, <4>2, <5>1, <5>3 DEF e
      <4>3. CASE m # l + 1
        <5>1. m \in 1 .. l
          BY <3>1, <4>3
        <5>2. kept[k].url # kept[m].url
          BY <2>1, <4>1, <5>1 DEF NoUrlTwice, l
        <5> QED BY <3>1, <4>1, <5>1, <5>2
      <4> QED BY <4>2, <4>3
    <3> QED BY <2>2, <3>1, <3>2, <3>3 DEF T, more
  <2> QED BY <2>5, <2>6
<1>5. n \in T
  <2>1. n \in 0 .. n
    BY <1>1
  <2> HIDE DEF T, n
  <2>2. \A k \in 0 .. n : k \in T
    BY <1>1, <1>3, <1>4, Upwards
  <2> QED BY <2>1, <2>2
<1> QED BY <1>2, <1>5

Peer == [url : Hosts, pin : STRING]

(* One entry for a url: what was seen is merged with one more entry.          *)
AreSeen(f, list, n) ==
  f = [i \in 0 .. n |-> IF i = 0 THEN <<>> ELSE Finder!Merged(f[i - 1], list[i])]

LEMMA SeenExist ==
  ASSUME NEW list, NEW n \in Nat PROVE \E f : AreSeen(f, list, n)
<1> DEFINE T == {k \in Nat : \E f : AreSeen(f, list, k)}
<1>1. 0 \in T
  <2>1. AreSeen([i \in 0 .. 0 |-> <<>>], list, 0)
    BY DEF AreSeen
  <2> QED BY <2>1
<1>2. ASSUME NEW k \in 0 .. n, k \in T PROVE k + 1 \in T
  <2>1. PICK f : AreSeen(f, list, k)
    BY <1>2
  <2> DEFINE next == Finder!Merged(f[k], list[k + 1])
             more == [i \in 0 .. k + 1 |-> IF i = k + 1 THEN next ELSE f[i]]
  <2>2. \A i \in 0 .. k + 1 :
          more[i] = IF i = 0 THEN <<>> ELSE Finder!Merged(more[i - 1], list[i])
    <3> SUFFICES ASSUME NEW i \in 0 .. k + 1
                 PROVE  more[i] = IF i = 0 THEN <<>> ELSE Finder!Merged(more[i - 1], list[i])
      OBVIOUS
    <3>1. CASE i = k + 1
      <4>1. more[i] = next /\ more[i - 1] = f[k] /\ i # 0
        BY <3>1
      <4> HIDE DEF more
      <4> QED BY <3>1, <4>1
    <3>2. CASE i # k + 1
      <4>1. i \in 0 .. k /\ (i # 0 => i - 1 \in 0 .. k)
        BY <3>2
      <4>2. f[i] = IF i = 0 THEN <<>> ELSE Finder!Merged(f[i - 1], list[i])
        BY <2>1, <4>1 DEF AreSeen
      <4>3. more[i] = f[i] /\ (i # 0 => more[i - 1] = f[i - 1])
        BY <4>1
      <4> HIDE DEF more
      <4> QED BY <4>2, <4>3
    <3> QED BY <3>1, <3>2
  <2>3. more = [i \in 0 .. k + 1 |-> more[i]]
    OBVIOUS
  <2>4. AreSeen(more, list, k + 1)
    <3> HIDE DEF more
    <3> QED BY <2>2, <2>3 DEF AreSeen
  <2> QED BY <2>4
<1>3. n \in T
  <2> HIDE DEF T
  <2> QED BY <1>1, <1>2, Upwards
<1> QED BY <1>3

LEMMA UniqueByOne ==
  ASSUME NEW list, Len(list) \in Nat
  PROVE  \E f : /\ f[0] = <<>>
                /\ \A i \in 1 .. Len(list) : f[i] = Finder!Merged(f[i - 1], list[i])
                /\ Finder!Unique(list) = f[Len(list)]
<1> DEFINE f == CHOOSE g : AreSeen(g, list, Len(list))
<1>1. AreSeen(f, list, Len(list))
  BY SeenExist
<1>2. Finder!Unique(list) = f[Len(list)]
  BY DEF Finder!Unique, AreSeen
<1> HIDE DEF f
<1>3. f[0] = <<>>
  BY <1>1 DEF AreSeen
<1>4. \A i \in 1 .. Len(list) : f[i] = Finder!Merged(f[i - 1], list[i])
  <2> SUFFICES ASSUME NEW i \in 1 .. Len(list) PROVE f[i] = Finder!Merged(f[i - 1], list[i])
    OBVIOUS
  <2>1. i \in 0 .. Len(list) /\ i # 0
    OBVIOUS
  <2> QED BY <1>1, <2>1 DEF AreSeen
<1> QED BY <1>2, <1>3, <1>4

(* Of the first n entries of a list: one is kept for each url, with the first *)
(* key that was named for it.                                                *)
FirstPin(list, j) ==
  /\ list[j].pin # Finder!NoPin
  /\ \A i \in 1 .. j - 1 : list[i].url # list[j].url \/ list[i].pin = Finder!NoPin

Stands(seen, list, n) ==
  /\ \A j \in 1 .. n : \E k \in 1 .. Len(seen) : seen[k].url = list[j].url
  /\ \A k \in 1 .. Len(seen) : \E j \in 1 .. n : seen[k] = list[j]

PinsStand(seen, list, n) ==
  /\ \A k \in 1 .. Len(seen) : seen[k].pin = Finder!NoPin =>
       \A j \in 1 .. n : list[j].url = seen[k].url => list[j].pin = Finder!NoPin
  /\ \A k \in 1 .. Len(seen), j \in 1 .. n :
       FirstPin(list, j) /\ seen[k].url = list[j].url => seen[k].pin = list[j].pin

IsMerged(seen, list, n) ==
  seen \in Seq(Peer) /\ NoUrlTwice(seen) /\ Stands(seen, list, n) /\ PinsStand(seen, list, n)

LEMMA MergesOneMore ==
  ASSUME NEW list \in Seq(Peer), NEW i \in Nat, i < Len(list), NEW seen, IsMerged(seen, list, i)
  PROVE  IsMerged(Finder!Merged(seen, list[i + 1]), list, i + 1)
<1> DEFINE p == list[i + 1]
           l == Len(seen)
           more == Finder!Merged(seen, p)
<1>1. /\ p \in Peer /\ i + 1 \in 1 .. Len(list) /\ Len(list) \in Nat
      /\ seen \in Seq(Peer) /\ l \in Nat /\ DOMAIN seen = 1 .. l
  BY DEF IsMerged
<1>2. NoUrlTwice(seen) /\ Stands(seen, list, i) /\ PinsStand(seen, list, i)
  BY DEF IsMerged
<1>3. \A j \in 1 .. i + 1 : j # i + 1 => j \in 1 .. i
  OBVIOUS
<1>4. CASE \E k \in 1 .. l : seen[k].url = p.url
  <2>1. PICK k \in 1 .. l : seen[k].url = p.url
    BY <1>4
  <2>2. \A m \in 1 .. l : m # k => seen[m].url # p.url
    BY <2>1, <1>2 DEF NoUrlTwice
  <2>3. more = [m \in 1 .. l |-> IF seen[m].url = p.url /\ seen[m].pin = Finder!NoPin THEN p ELSE seen[m]]
    BY <1>1, <1>4 DEF Finder!Merged
  <2>4. \A m \in 1 .. l : more[m] \in Peer
    <3> HIDE DEF p
    <3>1. \A m \in 1 .. l : seen[m] \in Peer
      BY <1>1
    <3> QED BY <1>1, <2>3, <3>1
  <2>5. more \in Seq(Peer) /\ Len(more) = l
    <3>1. more \in [1 .. l -> Peer]
      BY <2>3, <2>4
    <3> HIDE DEF more, l
    <3> QED BY <1>1, <3>1
  <2>6. \A m \in 1 .. l : m # k => more[m] = seen[m]
    BY <2>2, <2>3
  <2>7. more[k] = IF seen[k].pin = Finder!NoPin THEN p ELSE seen[k]
    BY <2>1, <2>3
  <2>8. more[k].url = p.url /\ seen[k].url = p.url
    BY <2>1, <2>7
  <2> HIDE DEF more, p, l
  <2>9. \A m \in 1 .. l : more[m].url = seen[m].url
    BY <2>6, <2>8
  <2>10. NoUrlTwice(more)
    BY <1>2, <2>5, <2>9 DEF NoUrlTwice, l
  <2>11. Stands(more, list, i + 1)
    <3>1. ASSUME NEW j \in 1 .. i + 1 PROVE \E m \in 1 .. Len(more) : more[m].url = list[j].url
      <4>1. CASE j = i + 1
        BY <2>5, <2>8, <4>1 DEF p
      <4>2. CASE j # i + 1
        <5>1. PICK m \in 1 .. l : seen[m].url = list[j].url
          BY <1>2, <1>3, <4>2 DEF Stands, l
        <5> QED BY <2>5, <2>9, <5>1
      <4> QED BY <4>1, <4>2
    <3>2. ASSUME NEW m \in 1 .. Len(more) PROVE \E j \in 1 .. i + 1 : more[m] = list[j]
      <4>1. m \in 1 .. l /\ (more[m] = seen[m] \/ more[m] = p)
        BY <2>5, <2>6, <2>7
      <4>2. CASE more[m] = p
        BY <1>1, <4>2 DEF p
      <4>3. CASE more[m] = seen[m]
        <5>1. PICK j \in 1 .. i : seen[m] = list[j]
          BY <1>2, <4>1 DEF Stands, l
        <5>2. j \in 1 .. i + 1
          OBVIOUS
        <5> QED BY <4>3, <5>1, <5>2
      <4> QED BY <4>1, <4>2, <4>3
    <3> QED BY <3>1, <3>2 DEF Stands
  <2>12. PinsStand(more, list, i + 1)
    <3>1. ASSUME NEW m \in 1 .. Len(more), more[m].pin = Finder!NoPin,
                 NEW j \in 1 .. i + 1, list[j].url = more[m].url
          PROVE  list[j].pin = Finder!NoPin
      <4>1. m \in 1 .. l
        BY <2>5
      <4>2. seen[m].pin = Finder!NoPin
        BY <2>6, <2>7, <3>1, <4>1
      <4>3. CASE j # i + 1
        BY <1>2, <1>3, <2>9, <3>1, <4>1, <4>2, <4>3 DEF PinsStand, l
      <4>4. CASE j = i + 1
        <5>1. m = k
          BY <2>2, <2>9, <3>1, <4>1, <4>4 DEF p
        <5>2. more[m] = p
          BY <2>7, <4>2, <5>1
        <5> QED BY <3>1, <4>4, <5>2 DEF p
      <4> QED BY <4>3, <4>4
    <3>2. ASSUME NEW m \in 1 .. Len(more), NEW j \in 1 .. i + 1,
                 FirstPin(list, j), more[m].url = list[j].url
          PROVE  more[m].pin = list[j].pin
      <4>1. m \in 1 .. l
        BY <2>5
      <4>2. CASE j # i + 1
        <5>1. j \in 1 .. i /\ seen[m].url = list[j].url
          BY <1>3, <2>9, <3>2, <4>1, <4>2
        <5>2. seen[m].pin = list[j].pin /\ list[j].pin # Finder!NoPin
          BY <1>2, <3>2, <4>1, <5>1 DEF PinsStand, FirstPin, l
        <5> QED BY <2>6, <2>7, <4>1, <5>2
      <4>3. CASE j = i + 1
        <5>1. m = k
          BY <2>2, <2>9, <3>2, <4>1, <4>3 DEF p
        <5>2. PICK o \in 1 .. i : seen[k] = list[o]
          BY <1>2, <2>1 DEF Stands, l
        <5>3. o \in 1 .. j - 1
          BY <4>3
        <5>4. list[o].pin = Finder!NoPin
          BY <2>8, <3>2, <4>3, <5>2, <5>3 DEF FirstPin, p
        <5>5. more[m] = p
          BY <2>7, <5>1, <5>2, <5>4
        <5> QED BY <4>3, <5>5 DEF p
      <4> QED BY <4>2, <4>3
    <3> QED BY <3>1, <3>2 DEF PinsStand
  <2> QED BY <2>5, <2>10, <2>11, <2>12 DEF IsMerged, more, p
<1>5. CASE ~\E k \in 1 .. l : seen[k].url = p.url
  <2>1. more = Append(seen, p)
    BY <1>1, <1>5 DEF Finder!Merged
  <2>2. /\ more \in Seq(Peer) /\ Len(more) = l + 1 /\ more[l + 1] = p
        /\ \A m \in 1 .. l : more[m] = seen[m]
    <3> HIDE DEF p, more
    <3> QED BY <1>1, <2>1
  <2>3. \A m \in 1 .. l : seen[m].url # p.url
    BY <1>5
  <2> HIDE DEF p, l, more
  <2>4. \A m \in 1 .. l + 1 : m # l + 1 => m \in 1 .. l
    BY <1>1
  <2>5. NoUrlTwice(more)
    BY <1>2, <2>2, <2>3, <2>4 DEF NoUrlTwice, l
  <2>6. Stands(more, list, i + 1)
    <3>1. ASSUME NEW j \in 1 .. i + 1 PROVE \E m \in 1 .. Len(more) : more[m].url = list[j].url
      <4>1. CASE j = i + 1
        BY <1>1, <2>2, <4>1 DEF p
      <4>2. CASE j # i + 1
        <5>1. PICK m \in 1 .. l : seen[m].url = list[j].url
          BY <1>2, <1>3, <4>2 DEF Stands, l
        <5>2. m \in 1 .. Len(more)
          BY <1>1, <2>2
        <5> QED BY <2>2, <5>1, <5>2
      <4> QED BY <4>1, <4>2
    <3>2. ASSUME NEW m \in 1 .. Len(more) PROVE \E j \in 1 .. i + 1 : more[m] = list[j]
      <4>1. CASE m = l + 1
        BY <1>1, <2>2, <4>1 DEF p
      <4>2. CASE m # l + 1
        <5>1. m \in 1 .. l
          BY <2>2, <2>4, <4>2
        <5>2. PICK j \in 1 .. i : seen[m] = list[j]
          BY <1>2, <5>1 DEF Stands, l
        <5>3. j \in 1 .. i + 1
          OBVIOUS
        <5> QED BY <2>2, <5>1, <5>2, <5>3
      <4> QED BY <4>1, <4>2
    <3> QED BY <3>1, <3>2 DEF Stands
  <2>7. \A j \in 1 .. i : list[j].url # p.url
    <3> SUFFICES ASSUME NEW j \in 1 .. i PROVE list[j].url # p.url
      OBVIOUS
    <3>1. PICK m \in 1 .. l : seen[m].url = list[j].url
      BY <1>2 DEF Stands, l
    <3> QED BY <2>3, <3>1
  <2>8. PinsStand(more, list, i + 1)
    <3>1. ASSUME NEW m \in 1 .. Len(more), more[m].pin = Finder!NoPin,
                 NEW j \in 1 .. i + 1, list[j].url = more[m].url
          PROVE  list[j].pin = Finder!NoPin
      <4>1. CASE m = l + 1
        <5>1. j = i + 1
          BY <1>3, <2>2, <2>7, <3>1, <4>1
        <5> QED BY <2>2, <3>1, <4>1, <5>1 DEF p
      <4>2. CASE m # l + 1
        <5>1. m \in 1 .. l /\ more[m] = seen[m]
          BY <2>2, <2>4, <4>2
        <5>2. j # i + 1
          BY <2>3, <3>1, <5>1 DEF p
        <5> QED BY <1>2, <1>3, <3>1, <5>1, <5>2 DEF PinsStand, l
      <4> QED BY <4>1, <4>2
    <3>2. ASSUME NEW m \in 1 .. Len(more), NEW j \in 1 .. i + 1,
                 FirstPin(list, j), more[m].url = list[j].url
          PROVE  more[m].pin = list[j].pin
      <4>1. CASE m = l + 1
        <5>1. j = i + 1
          BY <1>3, <2>2, <2>7, <3>2, <4>1
        <5> QED BY <2>2, <4>1, <5>1 DEF p
      <4>2. CASE m # l + 1
        <5>1. m \in 1 .. l /\ more[m] = seen[m]
          BY <2>2, <2>4, <4>2
        <5>2. j # i + 1
          BY <2>3, <3>2, <5>1 DEF p
        <5> QED BY <1>2, <1>3, <3>2, <5>1, <5>2 DEF PinsStand, l
      <4> QED BY <4>1, <4>2
    <3> QED BY <3>1, <3>2 DEF PinsStand
  <2> QED BY <2>2, <2>5, <2>6, <2>8 DEF IsMerged, more, p
<1> QED BY <1>4, <1>5

LEMMA UniqueIsMerged ==
  ASSUME NEW list \in Seq(Peer) PROVE IsMerged(Finder!Unique(list), list, Len(list))
<1> DEFINE n == Len(list)
<1>1. n \in Nat
  OBVIOUS
<1>2. PICK f : /\ f[0] = <<>>
               /\ \A i \in 1 .. Len(list) : f[i] = Finder!Merged(f[i - 1], list[i])
               /\ Finder!Unique(list) = f[Len(list)]
  BY <1>1, UniqueByOne
<1> DEFINE T == {i \in Nat : IsMerged(f[i], list, i)}
<1>3. 0 \in T
  <2>1. <<>> \in Seq(Peer) /\ Len(<<>>) = 0
    OBVIOUS
  <2>2. IsMerged(<<>>, list, 0)
    BY <2>1 DEF IsMerged, NoUrlTwice, Stands, PinsStand
  <2> QED BY <1>2, <2>2
<1>4. ASSUME NEW i \in 0 .. n, i \in T, i + 1 <= n PROVE i + 1 \in T
  <2>1. i + 1 \in 1 .. n /\ (i + 1) - 1 = i /\ i \in Nat /\ i < Len(list)
    BY <1>1, <1>4
  <2>2. f[i + 1] = Finder!Merged(f[i], list[i + 1])
    BY <1>2, <2>1
  <2>3. IsMerged(f[i], list, i)
    BY <1>4
  <2>4. IsMerged(f[i + 1], list, i + 1)
    BY <2>1, <2>2, <2>3, MergesOneMore
  <2> QED BY <2>1, <2>4
<1>5. n \in T
  <2>1. n \in 0 .. n
    BY <1>1
  <2> HIDE DEF T, n
  <2>2. \A k \in 0 .. n : k \in T
    BY <1>1, <1>3, <1>4, Upwards
  <2> QED BY <2>1, <2>2
<1> QED BY <1>2, <1>5

Bad(world, e) == Finder!Refused(world, e)

LEMMA ReadIsABeginning ==
  ASSUME NEW list \in Seq(Entry)
  PROVE  LET read == Finder!Read(list)
         IN read \in Seq(Entry) /\ \A i \in 1 .. Len(read) : i \in 1 .. Len(list) /\ read[i] = list[i]
<1> DEFINE n == IF Len(list) < MaxPeers THEN Len(list) ELSE MaxPeers
           read == SubSeq(list, 1, n)
<1>1. n \in Nat /\ n <= Len(list) /\ Len(list) \in Nat
  BY SizeAssumption
<1> HIDE DEF n
<1>2. /\ read \in Seq(Entry) /\ Len(read) = n
      /\ \A i \in 1 .. n : read[i] = list[i]
  <2>1. \A i \in 1 .. n : list[i] \in Entry
    BY <1>1
  <2>2. read = [i \in 1 .. n |-> list[i]]
    BY <1>1
  <2> HIDE DEF read
  <2>3. read \in [1 .. n -> Entry]
    BY <2>1, <2>2
  <2>4. read \in Seq(Entry) /\ Len(read) = n
    BY <1>1, <2>3
  <2> QED BY <2>2, <2>4
<1>3. Finder!Read(list) = read
  BY DEF Finder!Read, n
<1> HIDE DEF read
<1> QED BY <1>1, <1>2, <1>3

LEMMA PeersOfEntries ==
  ASSUME NEW list \in Seq(Entry)
  PROVE  LET peers == Finder!Peers(list)
         IN /\ peers \in Seq(Peer) /\ Len(peers) = Len(list)
            /\ \A i \in 1 .. Len(list) : peers[i].url = list[i].host /\ peers[i].pin = list[i].pin
<1> DEFINE n == Len(list)
           peers == Finder!Peers(list)
<1>1. n \in Nat /\ DOMAIN list = 1 .. n /\ \A i \in 1 .. n : list[i] \in Entry
  OBVIOUS
<1>2. \A i \in 1 .. n : list[i].host \in Hosts /\ list[i].pin \in STRING
  <2> SUFFICES ASSUME NEW i \in 1 .. n PROVE list[i].host \in Hosts /\ list[i].pin \in STRING
    OBVIOUS
  <2>1. list[i] \in Entry
    BY <1>1
  <2> QED BY <2>1 DEF Entry
<1>3. peers = [i \in 1 .. n |-> [url |-> list[i].host, pin |-> list[i].pin]]
  BY <1>1 DEF Finder!Peers
<1> HIDE DEF peers, n
<1>4. \A i \in 1 .. n : peers[i] \in Peer /\ peers[i].url = list[i].host /\ peers[i].pin = list[i].pin
  BY <1>2, <1>3 DEF Peer
<1>5. peers \in [1 .. n -> Peer]
  BY <1>3, <1>4
<1>6. peers \in Seq(Peer) /\ Len(peers) = n
  BY <1>1, <1>5
<1> QED BY <1>4, <1>6 DEF peers, n

(* The peers that were read of a list, and whether a name among them is one   *)
(* that only the host itself may ask for.                                    *)
AllPublic(world, list) ==
  \A i \in 1 .. Len(list) : world[list[i].url].resolves \cap Finder!Private = {}

LEMMA NoneRefusedIsPublic ==
  ASSUME NEW world, NEW list \in Seq(Entry), \A i \in 1 .. Len(list) : ~Bad(world, list[i])
  PROVE  AllPublic(world, Finder!Peers(list))
<1> SUFFICES ASSUME NEW i \in 1 .. Len(Finder!Peers(list))
             PROVE  world[Finder!Peers(list)[i].url].resolves \cap Finder!Private = {}
  BY DEF AllPublic
<1>1. i \in 1 .. Len(list) /\ Finder!Peers(list)[i].url = list[i].host
  BY PeersOfEntries
<1>2. ~Bad(world, list[i])
  BY <1>1
<1> QED BY <1>1, <1>2 DEF Bad, Finder!Refused

LEMMA ToldArePublic ==
  ASSUME NEW world, NEW list \in EntryList, list # Finder!Error
  PROVE  LET told == Finder!FetchBootstrap(world, list)
         IN told \in Seq(Peer) /\ AllPublic(world, told)
<1> DEFINE read == Finder!Read(list)
           places == {i \in DOMAIN read : ~Finder!Refused(world, read[i])}
           good == Finder!Only(read, places)
<1>1. read \in Seq(Entry)
  BY ReadIsABeginning DEF EntryList
<1>2. good \in Seq(Entry) /\ HasOnly(good, read, places, Len(read))
  <2> HIDE DEF read, places
  <2> QED BY <1>1, OnlyThose
<1>3. \A i \in 1 .. Len(good) : ~Bad(world, good[i])
  <2> SUFFICES ASSUME NEW i \in 1 .. Len(good) PROVE ~Bad(world, good[i])
    OBVIOUS
  <2> HIDE DEF good, read
  <2>1. PICK j \in 1 .. Len(read) : j \in places /\ good[i] = read[j]
    BY <1>2 DEF HasOnly
  <2> QED BY <2>1 DEF Bad
<1>4. Finder!FetchBootstrap(world, list) = Finder!Peers(good)
  BY DEF Finder!FetchBootstrap
<1> HIDE DEF good
<1> QED BY <1>2, <1>3, <1>4, PeersOfEntries, NoneRefusedIsPublic

LEMMA LoadedArePublic ==
  ASSUME NEW world, NEW file \in EntryList, Finder!LoadPeers(world, file) # Finder!Error
  PROVE  LET local == Finder!LoadPeers(world, file)
             read == Finder!Read(file)
         IN /\ file \in Seq(Entry) /\ local \in Seq(Peer) /\ AllPublic(world, local)
            /\ Len(local) = Len(read)
            /\ \A i \in 1 .. Len(read) : local[i].url = file[i].host /\ local[i].pin = file[i].pin
<1> DEFINE read == Finder!Read(file)
<1>1. /\ file # Finder!Error /\ Finder!LoadPeers(world, file) = Finder!Peers(read)
      /\ ~\E i \in DOMAIN read : Finder!Refused(world, read[i])
  BY DEF Finder!LoadPeers
<1>2. file \in Seq(Entry)
  BY <1>1 DEF EntryList
<1>3. read \in Seq(Entry) /\ \A i \in 1 .. Len(read) : read[i] = file[i]
  BY <1>2, ReadIsABeginning
<1> HIDE DEF read
<1>4. \A i \in 1 .. Len(read) : ~Bad(world, read[i])
  BY <1>1, <1>3 DEF Bad
<1>5. /\ Finder!Peers(read) \in Seq(Peer) /\ Len(Finder!Peers(read)) = Len(read)
      /\ \A i \in 1 .. Len(read) :
           Finder!Peers(read)[i].url = read[i].host /\ Finder!Peers(read)[i].pin = read[i].pin
  BY <1>3, PeersOfEntries
<1>6. AllPublic(world, Finder!Peers(read))
  BY <1>3, <1>4, NoneRefusedIsPublic
<1> QED BY <1>1, <1>2, <1>3, <1>5, <1>6 DEF read

(* Where the peers come from: the file first, then what was told.             *)
ComeFrom(world, peers, file, local, told) ==
  LET all == Finder!Unique(local \o told)
      alive == {i \in DOMAIN all : Finder!Live(world, all[i])}
  IN /\ file \in Seq(Entry) /\ local \in Seq(Peer) /\ told \in Seq(Peer)
     /\ AllPublic(world, local) /\ AllPublic(world, told)
     /\ Len(local) = Len(Finder!Read(file))
     /\ \A i \in 1 .. Len(local) : local[i].url = file[i].host /\ local[i].pin = file[i].pin
     /\ peers = Finder!Only(all, alive)

LEMMA DiscoveredComeFrom ==
  ASSUME NEW world, NEW file \in EntryList, NEW bootstrap \in EntryList,
         Finder!Discover(world, file, bootstrap, TRUE) # Finder!Error
  PROVE  \E local, told :
           ComeFrom(world, Finder!Discover(world, file, bootstrap, TRUE), file, local, told)
<1> DEFINE local == Finder!LoadPeers(world, file)
           told == Finder!FetchBootstrap(world, bootstrap)
           all == Finder!Unique(local \o told)
           alive == {i \in DOMAIN all : Finder!Live(world, all[i])}
           peers == Finder!Discover(world, file, bootstrap, TRUE)
<1>1. local # Finder!Error /\ told # Finder!Error /\ peers = Finder!Only(all, alive)
  BY DEF Finder!Discover
<1>2. bootstrap # Finder!Error
  BY <1>1 DEF Finder!FetchBootstrap
<1>3. told \in Seq(Peer) /\ AllPublic(world, told)
  BY <1>2, ToldArePublic
<1>4. /\ file \in Seq(Entry) /\ local \in Seq(Peer) /\ AllPublic(world, local)
      /\ Len(local) = Len(Finder!Read(file))
      /\ \A i \in 1 .. Len(local) : local[i].url = file[i].host /\ local[i].pin = file[i].pin
  BY <1>1, LoadedArePublic
<1> HIDE DEF local, told, peers
<1>5. ComeFrom(world, peers, file, local, told)
  BY <1>1, <1>3, <1>4 DEF ComeFrom
<1> QED BY <1>5 DEF peers

(* What is known of the nodes that were found.                                *)
AreFound(world, peers, file) ==
  /\ peers \in Seq(Peer) /\ NoUrlTwice(peers) /\ AllPublic(world, peers)

LEMMA FoundAreFound ==
  ASSUME NEW world, NEW peers, NEW file, NEW local, NEW told,
         ComeFrom(world, peers, file, local, told)
  PROVE  /\ AreFound(world, peers, file)
         /\ \A i \in 1 .. Len(local) :
              Finder!Live(world, local[i]) <=> \E k \in 1 .. Len(peers) : peers[k].url = local[i].url
         /\ \A i \in 1 .. Len(local) : \A k \in 1 .. Len(peers) :
              FirstPin(local, i) /\ peers[k].url = local[i].url => peers[k].pin = local[i].pin
<1> DEFINE both == local \o told
           all == Finder!Unique(both)
           alive == {i \in DOMAIN all : Finder!Live(world, all[i])}
           l == Len(local)
           m == Len(told)
<1>1. /\ local \in Seq(Peer) /\ told \in Seq(Peer) /\ peers = Finder!Only(all, alive)
      /\ AllPublic(world, local) /\ AllPublic(world, told)
  BY DEF ComeFrom
<1>2. /\ both \in Seq(Peer) /\ Len(both) = l + m /\ l \in Nat /\ m \in Nat
      /\ \A i \in 1 .. l : both[i] = local[i]
      /\ \A i \in l + 1 .. l + m : both[i] = told[i - l]
  BY <1>1
<1>3. AllPublic(world, both)
  <2> HIDE DEF both, l, m
  <2> SUFFICES ASSUME NEW i \in 1 .. Len(both)
               PROVE  world[both[i].url].resolves \cap Finder!Private = {}
    BY DEF AllPublic
  <2>1. CASE i \in 1 .. l
    BY <1>1, <1>2, <2>1 DEF AllPublic, l
  <2>2. CASE i \notin 1 .. l
    <3>1. i \in l + 1 .. l + m /\ i - l \in 1 .. m
      BY <1>2, <2>2
    <3> QED BY <1>1, <1>2, <3>1 DEF AllPublic, m
  <2> QED BY <2>1, <2>2
<1>4. IsMerged(all, both, l + m)
  <2> HIDE DEF both, l, m
  <2>1. IsMerged(all, both, Len(both))
    BY <1>2, UniqueIsMerged
  <2> QED BY <1>2, <2>1
<1> HIDE DEF both, l, m, all
<1>5. all \in Seq(Peer) /\ NoUrlTwice(all) /\ Stands(all, both, l + m) /\ PinsStand(all, both, l + m)
  BY <1>4 DEF IsMerged
<1>6. /\ peers \in Seq(Peer) /\ HasOnly(peers, all, alive, Len(all)) /\ NoUrlTwice(peers)
  <2> HIDE DEF alive
  <2> QED BY <1>1, <1>5, OnlyThose
<1>7. \A k \in 1 .. Len(peers) : \E i \in 1 .. Len(all) : peers[k] = all[i] /\ Finder!Live(world, all[i])
  BY <1>6 DEF HasOnly
<1>8. \A i \in 1 .. Len(all) : Finder!Live(world, all[i]) => \E k \in 1 .. Len(peers) : peers[k] = all[i]
  <2>1. DOMAIN all = 1 .. Len(all)
    BY <1>5
  <2> QED BY <1>6, <2>1 DEF HasOnly
<1> HIDE DEF alive
<1>9. AllPublic(world, peers)
  <2> SUFFICES ASSUME NEW k \in 1 .. Len(peers)
               PROVE  world[peers[k].url].resolves \cap Finder!Private = {}
    BY DEF AllPublic
  <2>1. PICK i \in 1 .. Len(all) : peers[k] = all[i]
    BY <1>7
  <2>2. PICK j \in 1 .. l + m : all[i] = both[j]
    BY <1>5 DEF Stands
  <2> QED BY <1>2, <1>3, <2>1, <2>2 DEF AllPublic
<1>10. ASSUME NEW i \in 1 .. l
       PROVE  /\ i \in 1 .. l + m /\ both[i] = local[i]
              /\ \E a \in 1 .. Len(all) : all[a].url = local[i].url
  <2>1. i \in 1 .. l + m /\ both[i] = local[i]
    BY <1>2
  <2> QED BY <1>5, <2>1 DEF Stands
<1>11. ASSUME NEW i \in 1 .. l
       PROVE  Finder!Live(world, local[i]) <=> \E k \in 1 .. Len(peers) : peers[k].url = local[i].url
  <2>1. PICK a \in 1 .. Len(all) : all[a].url = local[i].url
    BY <1>10
  <2>2. Finder!Live(world, all[a]) <=> Finder!Live(world, local[i])
    BY <2>1 DEF Finder!Live
  <2>3. ASSUME Finder!Live(world, local[i])
        PROVE  \E k \in 1 .. Len(peers) : peers[k].url = local[i].url
    BY <1>8, <2>1, <2>2, <2>3
  <2>4. ASSUME NEW k \in 1 .. Len(peers), peers[k].url = local[i].url
        PROVE  Finder!Live(world, local[i])
    <3>1. PICK b \in 1 .. Len(all) : peers[k] = all[b] /\ Finder!Live(world, all[b])
      BY <1>7
    <3> QED BY <2>4, <3>1 DEF Finder!Live
  <2> QED BY <2>3, <2>4
<1>12. ASSUME NEW i \in 1 .. l, NEW k \in 1 .. Len(peers),
              FirstPin(local, i), peers[k].url = local[i].url
       PROVE  peers[k].pin = local[i].pin
  <2>1. PICK a \in 1 .. Len(all) : peers[k] = all[a]
    BY <1>7
  <2>2. FirstPin(both, i)
    <3>1. \A j \in 1 .. i - 1 : both[j] = local[j]
      BY <1>2
    <3> QED BY <1>10, <1>12, <3>1 DEF FirstPin
  <2>3. all[a].pin = both[i].pin
    BY <1>5, <1>10, <1>12, <2>1, <2>2 DEF PinsStand
  <2> QED BY <1>10, <2>1, <2>3
<1> QED BY <1>6, <1>9, <1>11, <1>12 DEF AreFound, l

LEMMA EveryPinSurvives ==
  ASSUME NEW world, NEW file \in EntryList, NEW bootstrap \in EntryList
  PROVE  Finder!PinsSurvive(world, file, bootstrap)
<1> DEFINE peers == Finder!Discover(world, file, bootstrap, TRUE)
<1>1. SUFFICES ASSUME peers # Finder!Error
      PROVE  /\ \A i, j \in DOMAIN peers : i # j => peers[i].url # peers[j].url
             /\ \A i \in DOMAIN peers : world[peers[i].url].resolves \cap Finder!Private = {}
             /\ \A i \in 1 .. Len(Finder!Read(file)) :
                  LET first == \A j \in 1 .. i - 1 :
                                 file[j].host # file[i].host \/ file[j].pin = Finder!NoPin
                  IN /\ Finder!Live(world, [url |-> file[i].host]) <=>
                          \E k \in DOMAIN peers : peers[k].url = file[i].host
                     /\ \A k \in DOMAIN peers :
                          peers[k].url = file[i].host /\ file[i].pin # Finder!NoPin /\ first
                            => peers[k].pin = file[i].pin
  BY DEF Finder!PinsSurvive
<1>2. PICK local, told : ComeFrom(world, peers, file, local, told)
  BY <1>1, DiscoveredComeFrom
<1> HIDE DEF peers
<1>3. /\ AreFound(world, peers, file)
      /\ \A i \in 1 .. Len(local) :
           Finder!Live(world, local[i]) <=> \E k \in 1 .. Len(peers) : peers[k].url = local[i].url
      /\ \A i \in 1 .. Len(local) : \A k \in 1 .. Len(peers) :
           FirstPin(local, i) /\ peers[k].url = local[i].url => peers[k].pin = local[i].pin
  BY <1>2, FoundAreFound
<1>4. DOMAIN peers = 1 .. Len(peers) /\ Len(local) \in Nat
  BY <1>2, <1>3 DEF AreFound, ComeFrom
<1>5. /\ Len(local) = Len(Finder!Read(file))
      /\ \A i \in 1 .. Len(local) : local[i].url = file[i].host /\ local[i].pin = file[i].pin
  BY <1>2 DEF ComeFrom
<1>6. ASSUME NEW i \in 1 .. Len(Finder!Read(file))
      PROVE  Finder!Live(world, [url |-> file[i].host]) <=>
               \E k \in DOMAIN peers : peers[k].url = file[i].host
  <2>1. Finder!Live(world, [url |-> file[i].host]) <=> Finder!Live(world, local[i])
    BY <1>5 DEF Finder!Live
  <2> QED BY <1>3, <1>4, <1>5, <2>1
<1>7. ASSUME NEW i \in 1 .. Len(Finder!Read(file)), NEW k \in DOMAIN peers,
             peers[k].url = file[i].host, file[i].pin # Finder!NoPin,
             \A j \in 1 .. i - 1 : file[j].host # file[i].host \/ file[j].pin = Finder!NoPin
      PROVE  peers[k].pin = file[i].pin
  <2>1. \A j \in 1 .. i - 1 : j \in 1 .. Len(local)
    BY <1>4, <1>5
  <2>2. FirstPin(local, i)
    BY <1>5, <1>7, <2>1 DEF FirstPin
  <2> QED BY <1>3, <1>4, <1>5, <1>7, <2>2
<1>8. \A i, j \in DOMAIN peers : i # j => peers[i].url # peers[j].url
  BY <1>3, <1>4 DEF AreFound, NoUrlTwice
<1>9. \A i \in DOMAIN peers : world[peers[i].url].resolves \cap Finder!Private = {}
  BY <1>3, <1>4 DEF AreFound, AllPublic
<1> QED BY <1>6, <1>7, <1>8, <1>9

Result ==
  [url : Hosts, challenges : Nat, passed : Nat, security : Nat, offline : BOOLEAN]

AskedOf(r) == IF r.challenges = 0 THEN 1 ELSE r.challenges

LEMMA Grows ==
  ASSUME NEW x \in Nat, NEW y \in Nat, NEW k \in Nat, x <= y PROVE x * k <= y * k
<1>1. PICK d \in Nat : y = x + d
  <2>1. y - x \in Nat /\ y = x + (y - x)
    OBVIOUS
  <2> QED BY <2>1
<1>2. (x + d) * k = x * k + d * k /\ x * k \in Nat /\ d * k \in Nat
  OBVIOUS
<1> QED BY <1>1, <1>2

LEMMA Cancels ==
  ASSUME NEW x \in Nat, NEW y \in Nat, NEW k \in Nat, k > 0, x * k <= y * k PROVE ~(x > y)
<1> SUFFICES ASSUME x > y PROVE FALSE
  OBVIOUS
<1>1. x - y - 1 \in Nat /\ x = (y + 1) + (x - y - 1)
  OBVIOUS
<1>2. (y + 1) * k <= x * k
  BY <1>1, Grows
<1>3. (y + 1) * k = y * k + k /\ y * k \in Nat /\ x * k \in Nat
  OBVIOUS
<1> QED BY <1>2, <1>3

LEMMA TimesTurns == \A x, y, z \in Nat : (x * y) * z = (x * z) * y
OBVIOUS

LEMMA MoreShares ==
  ASSUME NEW p \in Nat, NEW q \in Nat, NEW a \in Nat, NEW b \in Nat, NEW c \in Nat, b > 0,
         NEW o \in Nat, ~(o * b > q * c), ~(q * a > p * b)
  PROVE  ~(o * a > p * c)
<1>1. o * b <= q * c /\ q * a <= p * b /\ o * b \in Nat /\ q * c \in Nat /\ q * a \in Nat /\ p * b \in Nat
  <2>1. o * b \in Nat /\ q * c \in Nat /\ q * a \in Nat /\ p * b \in Nat
    OBVIOUS
  <2> QED BY <2>1
<1>2. (o * b) * a <= (q * c) * a
  BY <1>1, Grows
<1>3. (q * a) * c <= (p * b) * c
  BY <1>1, Grows
<1>4. (o * b) * a = (o * a) * b /\ (q * c) * a = (q * a) * c /\ (p * b) * c = (p * c) * b
  BY TimesTurns
<1>5. (o * a) * b <= (p * c) * b
  <2> DEFINE x == (o * a) * b
             y == (q * a) * c
             z == (p * c) * b
  <2>1. x \in Nat /\ y \in Nat /\ z \in Nat
    OBVIOUS
  <2>2. x <= y /\ y <= z
    BY <1>2, <1>3, <1>4
  <2> HIDE DEF x, y, z
  <2>3. x <= z
    BY <2>1, <2>2
  <2> QED BY <2>3 DEF x, z
<1>6. o * a \in Nat /\ p * c \in Nat
  OBVIOUS
<1> QED BY <1>5, <1>6, Cancels

(* One result may stand before another.                                       *)
MayPrecede(r, s) == ~Finder!RankedBefore(s, r)

LEMMA AboveIs ==
  ASSUME NEW r \in Result, NEW s \in Result
  PROVE  /\ Finder!ScoreAbove(r, s) <=> r.passed * AskedOf(s) > s.passed * AskedOf(r)
         /\ r.passed \in Nat /\ AskedOf(r) \in Nat /\ AskedOf(r) > 0
<1>1. r.passed \in Nat /\ AskedOf(r) \in Nat /\ AskedOf(r) > 0
  BY DEF Result, AskedOf
<1>2. Finder!ScoreAbove(r, s) <=> r.passed * AskedOf(s) > s.passed * AskedOf(r)
  BY DEF Finder!ScoreAbove, AskedOf
<1> QED BY <1>1, <1>2

LEMMA PrecedesIs ==
  ASSUME NEW r, NEW s
  PROVE  MayPrecede(r, s) <=>
           /\ Finder!Trustworthy(s) => Finder!Trustworthy(r)
           /\ (Finder!Trustworthy(s) <=> Finder!Trustworthy(r)) => ~Finder!ScoreAbove(s, r)
<1>1. Finder!Trustworthy(s) \in BOOLEAN /\ Finder!Trustworthy(r) \in BOOLEAN
  BY DEF Finder!Trustworthy
<1>2. (Finder!Trustworthy(s) = Finder!Trustworthy(r)) <=> (Finder!Trustworthy(s) <=> Finder!Trustworthy(r))
  <2> DEFINE a == Finder!Trustworthy(s)
             b == Finder!Trustworthy(r)
  <2>1. a \in BOOLEAN /\ b \in BOOLEAN
    BY <1>1
  <2> HIDE DEF a, b
  <2>2. (a = b) <=> (a <=> b)
    BY <2>1
  <2> QED BY <2>2 DEF a, b
<1> QED BY <1>2 DEF MayPrecede, Finder!RankedBefore

LEMMA PrecedenceIsTransitive ==
  ASSUME NEW r \in Result, NEW s \in Result, NEW t \in Result,
         MayPrecede(r, s), MayPrecede(s, t)
  PROVE  MayPrecede(r, t)
<1> DEFINE tr == Finder!Trustworthy(r)
           ts == Finder!Trustworthy(s)
           tt == Finder!Trustworthy(t)
<1>1. (ts => tr) /\ ((ts <=> tr) => ~Finder!ScoreAbove(s, r))
  BY PrecedesIs
<1>2. (tt => ts) /\ ((tt <=> ts) => ~Finder!ScoreAbove(t, s))
  BY PrecedesIs
<1>3. ASSUME ~Finder!ScoreAbove(s, r), ~Finder!ScoreAbove(t, s) PROVE ~Finder!ScoreAbove(t, r)
  <2> DEFINE p == r.passed
             q == s.passed
             o == t.passed
             a == AskedOf(r)
             b == AskedOf(s)
             c == AskedOf(t)
  <2>1. p \in Nat /\ q \in Nat /\ o \in Nat /\ a \in Nat /\ b \in Nat /\ c \in Nat /\ b > 0
    BY AboveIs
  <2>2. ~(q * a > p * b) /\ ~(o * b > q * c)
    BY <1>3, AboveIs
  <2>3. (Finder!ScoreAbove(t, r) <=> o * a > p * c)
    BY AboveIs
  <2> HIDE DEF p, q, o, a, b, c
  <2> QED BY <2>1, <2>2, <2>3, MoreShares
<1>4. (tt => tr) /\ ((tt <=> tr) => ~Finder!ScoreAbove(t, r))
  <2> HIDE DEF tr, ts, tt
  <2> QED BY <1>1, <1>2, <1>3
<1> QED BY <1>4, PrecedesIs

LEMMA OneMayPrecede ==
  ASSUME NEW r \in Result, NEW s \in Result
  PROVE  MayPrecede(r, s) \/ MayPrecede(s, r)
<1> DEFINE x == r.passed * AskedOf(s)
           y == s.passed * AskedOf(r)
<1>1. x \in Nat /\ y \in Nat
  BY AboveIs
<1>2. (Finder!ScoreAbove(r, s) <=> x > y) /\ (Finder!ScoreAbove(s, r) <=> y > x)
  BY AboveIs
<1> HIDE DEF x, y
<1>3. ~(Finder!ScoreAbove(r, s) /\ Finder!ScoreAbove(s, r))
  BY <1>1, <1>2
<1> QED BY <1>3, PrecedesIs

LEMMA EachMayPrecedeItself ==
  ASSUME NEW r \in Result PROVE MayPrecede(r, r)
BY OneMayPrecede

(* Among any of the results there is one that may stand before the rest.      *)
IsFirst(results, R, b) == b \in R /\ \A j \in R : MayPrecede(results[b], results[j])

LEMMA OneIsFirst ==
  ASSUME NEW n \in Nat, NEW results \in [1 .. n -> Result], NEW R \in SUBSET (1 .. n), R # {}
  PROVE  \E b : IsFirst(results, R, b)
<1> DEFINE UpTo(m) == {j \in R : j <= m}
           T == {m \in Nat : UpTo(m) # {} => \E b : IsFirst(results, UpTo(m), b)}
<1>1. 0 \in T
  <2>1. \A j \in R : ~(j <= 0)
    <3>1. \A j \in R : j \in 1 .. n
      OBVIOUS
    <3> QED BY <3>1
  <2>2. UpTo(0) = {}
    BY <2>1
  <2> QED BY <2>2
<1>2. ASSUME NEW m \in 0 .. n, m \in T, m + 1 <= n PROVE m + 1 \in T
  <2>1. m + 1 \in Nat
    BY <1>2
  <2>2. CASE m + 1 \notin R
    <3>1. UpTo(m + 1) = UpTo(m)
      <4>1. ASSUME NEW j \in R PROVE j <= m + 1 <=> j <= m
        <5>1. j \in 1 .. n /\ j # m + 1 /\ m \in Nat
          BY <2>2
        <5> QED BY <5>1
      <4> QED BY <4>1
    <3>2. UpTo(m) # {} => \E b : IsFirst(results, UpTo(m), b)
      BY <1>2
    <3> HIDE DEF UpTo
    <3>3. UpTo(m + 1) # {} => \E b : IsFirst(results, UpTo(m + 1), b)
      BY <3>1, <3>2
    <3> QED BY <2>1, <3>3
  <2>3. CASE m + 1 \in R
    <3>1. m + 1 \in UpTo(m + 1) /\ results[m + 1] \in Result
      BY <2>3
    <3>2. \A j \in UpTo(m + 1) : j = m + 1 \/ j \in UpTo(m)
      OBVIOUS
    <3>3. MayPrecede(results[m + 1], results[m + 1])
      BY <3>1, EachMayPrecedeItself
    <3>4. CASE UpTo(m) = {}
      <4>1. IsFirst(results, UpTo(m + 1), m + 1)
        <5> HIDE DEF UpTo
        <5> QED BY <3>1, <3>2, <3>3, <3>4 DEF IsFirst
      <4> HIDE DEF UpTo
      <4> QED BY <2>1, <4>1
    <3>5. CASE UpTo(m) # {}
      <4>1. PICK b : IsFirst(results, UpTo(m), b)
        BY <1>2, <3>5
      <4>2. b \in UpTo(m) /\ b \in UpTo(m + 1) /\ results[b] \in Result
        <5>1. b \in UpTo(m)
          BY <4>1 DEF IsFirst
        <5> QED BY <5>1
      <4>3. CASE MayPrecede(results[b], results[m + 1])
        <5>1. IsFirst(results, UpTo(m + 1), b)
          <6> HIDE DEF UpTo
          <6> QED BY <3>2, <4>1, <4>2, <4>3 DEF IsFirst
        <5> HIDE DEF UpTo
        <5> QED BY <2>1, <5>1
      <4>4. CASE MayPrecede(results[m + 1], results[b])
        <5>1. ASSUME NEW j \in UpTo(m) PROVE MayPrecede(results[m + 1], results[j])
          <6>1. MayPrecede(results[b], results[j])
            BY <4>1 DEF IsFirst
          <6>2. results[j] \in Result
            OBVIOUS
          <6> QED BY <3>1, <4>2, <4>4, <6>1, <6>2, PrecedenceIsTransitive
        <5>2. IsFirst(results, UpTo(m + 1), m + 1)
          <6> HIDE DEF UpTo
          <6> QED BY <3>1, <3>2, <3>3, <5>1 DEF IsFirst
        <5> HIDE DEF UpTo
        <5> QED BY <2>1, <5>2
      <4> QED BY <3>1, <4>2, <4>3, <4>4, OneMayPrecede
    <3> QED BY <3>4, <3>5
  <2> QED BY <2>2, <2>3
<1>3. n \in T
  <2>1. n \in 0 .. n
    OBVIOUS
  <2> HIDE DEF T
  <2>2. \A m \in 0 .. n : m \in T
    BY <1>1, <1>2, Upwards
  <2> QED BY <2>1, <2>2
<1>4. UpTo(n) = R
  <2>1. \A j \in R : j \in 1 .. n
    OBVIOUS
  <2>2. \A j \in R : j <= n
    BY <2>1
  <2> QED BY <2>2
<1> QED BY <1>3, <1>4

(* The first k places of an order are given: before all that are left out.    *)
IsOrderOf(results, n, k, f) ==
  /\ f \in [1 .. k -> 1 .. n]
  /\ \A i, j \in 1 .. k : f[i] = f[j] => i = j
  /\ \A i, j \in 1 .. k : i < j => MayPrecede(results[f[i]], results[f[j]])
  /\ \A i \in 1 .. k, o \in 1 .. n :
       (\A j \in 1 .. k : f[j] # o) => MayPrecede(results[f[i]], results[o])

LEMMA SomeAreLeft ==
  ASSUME NEW n \in Nat, NEW k \in Nat, k < n, NEW f \in [1 .. k -> 1 .. n]
  PROVE  \E o \in 1 .. n : \A j \in 1 .. k : f[j] # o
<1> SUFFICES ASSUME \A o \in 1 .. n : \E j \in 1 .. k : f[j] = o PROVE FALSE
  OBVIOUS
<1>1. f \in Surjection(1 .. k, 1 .. n)
  BY DEF Surjection
<1>2. /\ IsFiniteSet(1 .. k) /\ Cardinality(1 .. k) = k /\ Cardinality(1 .. n) = n
  <2>1. Cardinality(1 .. k) = IF 1 > k THEN 0 ELSE k - 1 + 1
    BY FS_Interval
  <2>2. Cardinality(1 .. n) = IF 1 > n THEN 0 ELSE n - 1 + 1
    BY FS_Interval
  <2>3. IsFiniteSet(1 .. k)
    BY FS_Interval
  <2> QED BY <2>1, <2>2, <2>3
<1>3. Cardinality(1 .. n) <= Cardinality(1 .. k)
  BY <1>1, <1>2, FS_Surjection
<1> QED BY <1>2, <1>3

LEMMA OneMorePlace ==
  ASSUME NEW n \in Nat, NEW results \in [1 .. n -> Result], NEW k \in Nat, k < n,
         NEW f, IsOrderOf(results, n, k, f)
  PROVE  \E g : IsOrderOf(results, n, k + 1, g)
<1>1. f \in [1 .. k -> 1 .. n]
  BY DEF IsOrderOf
<1> DEFINE R == {o \in 1 .. n : \A j \in 1 .. k : f[j] # o}
<1>2. R \in SUBSET (1 .. n) /\ R # {}
  <2>1. PICK o \in 1 .. n : \A j \in 1 .. k : f[j] # o
    BY <1>1, SomeAreLeft
  <2>2. o \in R
    BY <2>1
  <2> QED BY <2>2
<1>3. PICK b : IsFirst(results, R, b)
  <2> HIDE DEF R
  <2> QED BY <1>2, OneIsFirst
<1>4. b \in R /\ \A j \in R : MayPrecede(results[b], results[j])
  BY <1>3 DEF IsFirst
<1>5. b \in 1 .. n /\ \A j \in 1 .. k : f[j] # b
  BY <1>4
<1> DEFINE g == [i \in 1 .. k + 1 |-> IF i = k + 1 THEN b ELSE f[i]]
<1>6. \A i \in 1 .. k + 1 : i # k + 1 => i \in 1 .. k
  OBVIOUS
<1>7. g \in [1 .. k + 1 -> 1 .. n]
  BY <1>1, <1>5, <1>6
<1>8. g[k + 1] = b /\ k + 1 \in 1 .. k + 1
  OBVIOUS
<1>9. \A i \in 1 .. k : g[i] = f[i] /\ i \in 1 .. k + 1
  OBVIOUS
<1> HIDE DEF g
<1>10. ASSUME NEW i \in 1 .. k + 1, NEW j \in 1 .. k + 1, g[i] = g[j] PROVE i = j
  <2>1. CASE i = k + 1
    BY <1>5, <1>6, <1>8, <1>9, <1>10, <2>1
  <2>2. CASE i # k + 1
    <3>1. i \in 1 .. k /\ g[i] = f[i]
      BY <1>6, <1>9, <2>2
    <3>2. j # k + 1
      BY <1>5, <1>8, <1>10, <3>1
    <3>3. j \in 1 .. k /\ g[j] = f[j]
      BY <1>6, <1>9, <3>2
    <3> QED BY <1>10, <3>1, <3>3 DEF IsOrderOf
  <2> QED BY <2>1, <2>2
<1>11. ASSUME NEW i \in 1 .. k + 1, NEW j \in 1 .. k + 1, i < j
       PROVE  MayPrecede(results[g[i]], results[g[j]])
  <2>1. i \in 1 .. k /\ g[i] = f[i]
    BY <1>6, <1>9, <1>11
  <2>2. CASE j = k + 1
    BY <1>5, <1>8, <2>1, <2>2 DEF IsOrderOf
  <2>3. CASE j # k + 1
    <3>1. j \in 1 .. k /\ g[j] = f[j]
      BY <1>6, <1>9, <2>3
    <3> QED BY <1>11, <2>1, <3>1 DEF IsOrderOf
  <2> QED BY <2>2, <2>3
<1>12. ASSUME NEW i \in 1 .. k + 1, NEW o \in 1 .. n, \A j \in 1 .. k + 1 : g[j] # o
       PROVE  MayPrecede(results[g[i]], results[o])
  <2>1. \A j \in 1 .. k : f[j] # o
    BY <1>9, <1>12
  <2>2. CASE i = k + 1
    BY <1>4, <1>8, <2>1, <2>2
  <2>3. CASE i # k + 1
    BY <1>6, <1>9, <2>1, <2>3 DEF IsOrderOf
  <2> QED BY <2>2, <2>3
<1>13. IsOrderOf(results, n, k + 1, g)
  BY <1>7, <1>10, <1>11, <1>12 DEF IsOrderOf
<1> QED BY <1>13

LEMMA AnOrderExists ==
  ASSUME NEW n \in Nat, NEW results \in [1 .. n -> Result]
  PROVE  \E f : IsOrderOf(results, n, n, f)
<1> DEFINE T == {k \in Nat : \E f : IsOrderOf(results, n, k, f)}
<1>1. 0 \in T
  <2> DEFINE none == [i \in 1 .. 0 |-> 1]
  <2>1. none \in [1 .. 0 -> 1 .. n] /\ \A i \in 1 .. 0 : FALSE
    OBVIOUS
  <2> HIDE DEF none
  <2>2. IsOrderOf(results, n, 0, none)
    BY <2>1 DEF IsOrderOf
  <2> QED BY <2>2
<1>2. ASSUME NEW k \in 0 .. n, k \in T, k + 1 <= n PROVE k + 1 \in T
  <2>1. PICK f : IsOrderOf(results, n, k, f)
    BY <1>2
  <2>2. k \in Nat /\ k < n
    BY <1>2
  <2>3. \E g : IsOrderOf(results, n, k + 1, g)
    BY <2>1, <2>2, OneMorePlace
  <2> QED BY <2>2, <2>3
<1>3. n \in 0 .. n
  OBVIOUS
<1>4. \A k \in 0 .. n : k \in T
  <2> HIDE DEF T
  <2> QED BY <1>1, <1>2, Upwards
<1> QED BY <1>3, <1>4

(* What rank makes of results: each comes once, and none before a better one. *)
IsRanking(ranked, results, n, f) ==
  /\ f \in [1 .. n -> 1 .. n]
  /\ \A i, j \in 1 .. n : f[i] = f[j] => i = j
  /\ \A o \in 1 .. n : \E i \in 1 .. n : f[i] = o
  /\ \A i, j \in 1 .. n : i < j => MayPrecede(results[f[i]], results[f[j]])
  /\ ranked = [i \in 1 .. n |-> results[f[i]]]

LEMMA RankRanks ==
  ASSUME NEW n \in Nat, NEW results \in [1 .. n -> Result]
  PROVE  \E f : IsRanking(Finder!Rank(results), results, n, f)
<1> DEFINE D == DOMAIN results
           good == {f \in Finder!Bijection(D, D) : Finder!InOrder(results, f)}
           order == CHOOSE f \in Finder!Bijection(D, D) : Finder!InOrder(results, f)
<1>1. D = 1 .. n
  OBVIOUS
<1>2. PICK f : IsOrderOf(results, n, n, f)
  BY AnOrderExists
<1>3. f \in Finder!Bijection(1 .. n, 1 .. n)
  <2>1. f \in [1 .. n -> 1 .. n] /\ \A i, j \in 1 .. n : f[i] = f[j] => i = j
    BY <1>2 DEF IsOrderOf
  <2>2. DOMAIN f = 1 .. n
    BY <2>1
  <2>3. f \in Injection(1 .. n, 1 .. n)
    BY <2>1, <2>2 DEF Injection, IsInjective
  <2>4. f \in Surjection(1 .. n, 1 .. n)
    BY <2>3, FS_Interval, FS_Injection
  <2> QED BY <2>1, <2>2, <2>4 DEF Finder!Bijection, Finder!Injection, Finder!Surjection,
                                  Finder!IsInjective, Surjection
<1>4. Finder!InOrder(results, f)
  BY <1>1, <1>2 DEF Finder!InOrder, IsOrderOf, MayPrecede
<1>5. order \in Finder!Bijection(1 .. n, 1 .. n) /\ Finder!InOrder(results, order)
  BY <1>1, <1>3, <1>4
<1>6. Finder!Rank(results) = [i \in 1 .. n |-> results[order[i]]]
  BY <1>1 DEF Finder!Rank
<1> HIDE DEF order
<1>7. /\ order \in [1 .. n -> 1 .. n]
      /\ \A i, j \in 1 .. n : order[i] = order[j] => i = j
      /\ \A o \in 1 .. n : \E i \in 1 .. n : order[i] = o
  BY <1>5 DEF Finder!Bijection, Finder!Injection, Finder!Surjection, Finder!IsInjective
<1>8. \A i, j \in 1 .. n : i < j => MayPrecede(results[order[i]], results[order[j]])
  BY <1>1, <1>5 DEF Finder!InOrder, MayPrecede
<1> QED BY <1>6, <1>7, <1>8 DEF IsRanking

(* The sizes of sets are the same whichever module names them.                *)
LEMMA SameCardinality == \A S : Finder!Cardinality(S) = Cardinality(S)
BY DEF Finder!Cardinality, Cardinality

IsWorld(world) == world \in [Hosts -> HostState]

(* What an audit makes of one node.                                           *)
Met(world, url, chosen, outcome) ==
  {k \in chosen : Finder!GetById(world[url].records[k]) = outcome}

LEMMA GetByIdIs ==
  ASSUME NEW met \in Meets
  PROVE  /\ Finder!GetById(met) = "ok" <=> met = "mine"
         /\ Finder!GetById(met) = "insecure" <=> met \in {"swapped", "put between"}
<1>1. CASE met = "mine"
  <2>1. Finder!GetById(met) = "ok"
    BY <1>1, Zenon DEF Finder!GetById
  <2> QED BY <1>1, <2>1
<1>2. CASE met \in {"another's", "missing", "no answer"}
  <2>1. met # "mine" /\ met \notin {"swapped", "put between"}
    BY <1>2
  <2>2. Finder!GetById(met) = "failed"
    BY <1>2, <2>1, Zenon DEF Finder!GetById
  <2> QED BY <2>1, <2>2
<1>3. CASE met \in {"swapped", "put between"}
  <2>1. met # "mine" /\ met \notin {"another's", "missing", "no answer"}
    BY <1>3
  <2>2. Finder!GetById(met) = "insecure"
    BY <1>3, <2>1, Zenon DEF Finder!GetById
  <2> QED BY <1>3, <2>1, <2>2
<1> QED BY <1>1, <1>2, <1>3 DEF Meets

LEMMA HostStateHas ==
  ASSUME NEW world, IsWorld(world), NEW url \in Hosts
  PROVE  /\ world[url].head \in {"ok", "insecure", "no answer"}
         /\ world[url].records \in Seq(Meets)
<1>1. world[url] \in HostState
  BY DEF IsWorld
<1> QED BY <1>1 DEF HostState

(* How often a set that was asked for met something.                          *)
LEMMA MetIsCounted ==
  ASSUME NEW world, IsWorld(world), NEW url \in Hosts,
         NEW chosen \in SUBSET DOMAIN world[url].records, NEW outcome
  PROVE  LET met == Met(world, url, chosen, outcome)
         IN /\ Cardinality(met) \in Nat /\ Cardinality(chosen) \in Nat
            /\ Cardinality(met) > 0 <=> met # {}
            /\ Cardinality(met) <= Cardinality(chosen)
<1> DEFINE met == Met(world, url, chosen, outcome)
           D == DOMAIN world[url].records
<1>1. D = 1 .. Len(world[url].records) /\ Len(world[url].records) \in Nat
  <2>1. world[url].records \in Seq(Meets)
    BY HostStateHas
  <2> QED BY <2>1
<1>2. IsFiniteSet(D)
  BY <1>1, FS_Interval
<1>3. met \in SUBSET chosen
  BY DEF Met
<1> HIDE DEF D, met
<1>4. IsFiniteSet(chosen)
  BY <1>2, FS_Subset DEF D
<1>5. IsFiniteSet(met) /\ Cardinality(met) <= Cardinality(chosen)
  BY <1>3, <1>4, FS_Subset
<1>6. Cardinality(met) \in Nat /\ Cardinality(chosen) \in Nat
  BY <1>4, <1>5, FS_CardinalityType
<1>7. Cardinality(met) = 0 <=> met = {}
  BY <1>5, FS_EmptySet
<1>8. Cardinality(met) > 0 <=> met # {}
  BY <1>6, <1>7
<1> QED BY <1>5, <1>6, <1>8 DEF met

(* The result for a node that answered with a head is what its records met.   *)
ResultIs(r, url, chosen, passed, security) ==
  r = [url |-> url, challenges |-> Cardinality(chosen), passed |-> Cardinality(passed),
       security |-> Cardinality(security), offline |-> FALSE]

LEMMA AuditOfOne ==
  ASSUME NEW world, NEW url, NEW chosen
  PROVE  LET r == Finder!AuditNode(world, url, chosen)
         IN /\ world[url].head = "insecure" =>
                 r = [url |-> url, challenges |-> 0, passed |-> 0, security |-> 1, offline |-> FALSE]
            /\ world[url].head = "no answer" =>
                 r = [url |-> url, challenges |-> 0, passed |-> 0, security |-> 0, offline |-> TRUE]
            /\ world[url].head \notin {"insecure", "no answer"} =>
                 ResultIs(r, url, chosen, Met(world, url, chosen, "ok"),
                          Met(world, url, chosen, "insecure"))
<1> DEFINE r == Finder!AuditNode(world, url, chosen)
           none == Finder!NoResult(url)
           h == world[url].head
<1>1. none = [url |-> url, challenges |-> 0, passed |-> 0, security |-> 0, offline |-> FALSE]
  BY DEF Finder!NoResult
<1>2. CASE h = "insecure"
  <2>1. r = [none EXCEPT !.security = 1]
    BY <1>2, Zenon DEF Finder!AuditNode
  <2>2. h # "no answer"
    BY <1>2
  <2> HIDE DEF r, none
  <2>3. r = [url |-> url, challenges |-> 0, passed |-> 0, security |-> 1, offline |-> FALSE]
    BY <1>1, <2>1
  <2> QED BY <1>2, <2>2, <2>3 DEF r
<1>3. CASE h = "no answer"
  <2>1. h # "insecure"
    BY <1>3
  <2>2. r = [none EXCEPT !.offline = TRUE]
    BY <1>3, <2>1, Zenon DEF Finder!AuditNode
  <2> HIDE DEF r, none
  <2>3. r = [url |-> url, challenges |-> 0, passed |-> 0, security |-> 0, offline |-> TRUE]
    BY <1>1, <2>2
  <2> QED BY <1>3, <2>1, <2>3 DEF r
<1>4. CASE h \notin {"insecure", "no answer"}
  <2>1. h # "insecure" /\ h # "no answer"
    BY <1>4
  <2> DEFINE ok == Met(world, url, chosen, "ok")
             bad == Met(world, url, chosen, "insecure")
  <2>2. r = [none EXCEPT !.challenges = Cardinality(chosen), !.passed = Cardinality(ok),
                         !.security = Cardinality(bad)]
    <3>1. r = [none EXCEPT !.challenges = Finder!Cardinality(chosen),
                           !.passed = Finder!Cardinality(ok),
                           !.security = Finder!Cardinality(bad)]
      BY <2>1, Zenon DEF Finder!AuditNode, Met
    <3> HIDE DEF r, none, ok, bad
    <3> QED BY <3>1, SameCardinality, Zenon
  <2> HIDE DEF r, none, ok, bad
  <2>3. ResultIs(r, url, chosen, ok, bad)
    BY <1>1, <2>2 DEF ResultIs
  <2> QED BY <2>1, <2>3 DEF r, ok, bad
<1> QED BY <1>2, <1>3, <1>4

IsJudged(world, url, chosen, r) ==
  /\ r \in Result /\ r.url = url
  /\ r.security > 0 <=> Finder!Caught(world, url, chosen)
  /\ Finder!Caught(world, url, chosen) => ~Finder!Trustworthy(r)
  /\ world[url].head = "ok" =>
       /\ Finder!Caught(world, url, chosen) \/ Finder!Trustworthy(r)
       /\ r.challenges = Cardinality(chosen)
       /\ r.passed = Cardinality({k \in chosen : world[url].records[k] = "mine"})
       /\ r.passed <= r.challenges

LEMMA OneIsJudged ==
  ASSUME NEW world, IsWorld(world), NEW url \in Hosts,
         NEW chosen \in SUBSET DOMAIN world[url].records
  PROVE  IsJudged(world, url, chosen, Finder!AuditNode(world, url, chosen))
<1> DEFINE r == Finder!AuditNode(world, url, chosen)
           h == world[url].head
           caught == Finder!Caught(world, url, chosen)
           ok == Met(world, url, chosen, "ok")
           bad == Met(world, url, chosen, "insecure")
<1>1. h \in {"ok", "insecure", "no answer"}
  BY HostStateHas
<1>2. CASE h = "insecure"
  <2>1. r = [url |-> url, challenges |-> 0, passed |-> 0, security |-> 1, offline |-> FALSE]
    BY <1>2, AuditOfOne
  <2>2. caught = TRUE
    BY <1>2 DEF Finder!Caught
  <2> HIDE DEF r
  <2>3. r \in Result /\ r.url = url /\ r.security > 0
    BY <2>1 DEF Result
  <2>4. ~Finder!Trustworthy(r)
    BY <2>1 DEF Finder!Trustworthy
  <2> QED BY <1>2, <2>2, <2>3, <2>4 DEF IsJudged, r
<1>3. CASE h = "no answer"
  <2>1. r = [url |-> url, challenges |-> 0, passed |-> 0, security |-> 0, offline |-> TRUE]
    BY <1>3, AuditOfOne
  <2>2. caught = FALSE
    BY <1>3 DEF Finder!Caught
  <2> HIDE DEF r
  <2>3. r \in Result /\ r.url = url /\ ~(r.security > 0)
    BY <2>1 DEF Result
  <2> QED BY <1>3, <2>2, <2>3 DEF IsJudged, r
<1>4. CASE h = "ok"
  <2>1. ResultIs(r, url, chosen, ok, bad)
    <3>1. h \notin {"insecure", "no answer"}
      BY <1>4
    <3> QED BY <3>1, AuditOfOne
  <2>2. /\ Cardinality(ok) \in Nat /\ Cardinality(bad) \in Nat /\ Cardinality(chosen) \in Nat
        /\ Cardinality(bad) > 0 <=> bad # {}
        /\ Cardinality(ok) <= Cardinality(chosen)
    BY MetIsCounted
  <2>3. \A k \in chosen : world[url].records[k] \in Meets
    <3>1. world[url].records \in Seq(Meets)
      BY HostStateHas
    <3> QED BY <3>1
  <2>4. ok = {k \in chosen : world[url].records[k] = "mine"}
    BY <2>3, GetByIdIs DEF Met
  <2>5. bad # {} <=> \E k \in chosen : world[url].records[k] \in {"swapped", "put between"}
    BY <2>3, GetByIdIs DEF Met
  <2>6. caught <=> \E k \in chosen : world[url].records[k] \in {"swapped", "put between"}
    BY <1>4 DEF Finder!Caught
  <2> HIDE DEF r, ok, bad, caught
  <2>7. /\ r \in Result /\ r.url = url /\ r.security = Cardinality(bad) /\ r.offline = FALSE
        /\ r.challenges = Cardinality(chosen) /\ r.passed = Cardinality(ok)
    BY <2>1, <2>2 DEF Result, ResultIs
  <2>8. r.security > 0 <=> caught
    BY <2>2, <2>5, <2>6, <2>7
  <2>9. Finder!Trustworthy(r) <=> ~caught
    <3>1. r.security = 0 <=> ~(r.security > 0)
      BY <2>2, <2>7
    <3> QED BY <2>7, <2>8, <3>1 DEF Finder!Trustworthy
  <2> QED BY <2>2, <2>4, <2>7, <2>8, <2>9 DEF IsJudged, r, caught, ok
<1> QED BY <1>1, <1>2, <1>3, <1>4

CaughtAt(world, peers, c, i) == Finder!Caught(world, peers[i].url, c[i])
Share(world, peers, c, i) ==
  Finder!Cardinality({n \in c[i] : world[peers[i].url].records[n] = "mine"})
PlaceOf(out, peers, i) == CHOOSE k \in DOMAIN out.results : out.results[k].url = peers[i].url

(* What the blame that is earned says of one outcome of the draw of records.  *)
Placed(world, peers, c, out, i, j) ==
  world[peers[i].url].head = "ok" /\ ~CaughtAt(world, peers, c, i) =>
    /\ Finder!Trustworthy(out.results[PlaceOf(out, peers, i)])
    /\ CaughtAt(world, peers, c, j) => PlaceOf(out, peers, i) < PlaceOf(out, peers, j)
    /\ /\ world[peers[j].url].head = "ok" /\ ~CaughtAt(world, peers, c, j)
       /\ Share(world, peers, c, i) * Finder!Cardinality(c[j])
            > Share(world, peers, c, j) * Finder!Cardinality(c[i])
       => PlaceOf(out, peers, i) < PlaceOf(out, peers, j)

Judged(world, peers, c, out) ==
  /\ Len(out.results) = Len(peers)
  /\ out.code = 1 <=> \E i \in DOMAIN peers : CaughtAt(world, peers, c, i)
  /\ \A i, j \in DOMAIN peers : Placed(world, peers, c, out, i, j)

AreJudged(world, peers, c, raw) ==
  /\ raw = [i \in 1 .. Len(peers) |-> raw[i]]
  /\ \A i \in 1 .. Len(peers) : IsJudged(world, peers[i].url, c[i], raw[i])

LEMMA AllAreJudged ==
  ASSUME NEW world, IsWorld(world), NEW peers \in Seq(Peer), NEW c,
         \A i \in 1 .. Len(peers) : c[i] \in SUBSET DOMAIN world[peers[i].url].records
  PROVE  AreJudged(world, peers, c,
           [i \in DOMAIN peers |-> Finder!AuditNode(world, peers[i].url, c[i])])
<1> DEFINE raw == [i \in DOMAIN peers |-> Finder!AuditNode(world, peers[i].url, c[i])]
<1>1. DOMAIN peers = 1 .. Len(peers) /\ \A i \in 1 .. Len(peers) : peers[i] \in Peer
  OBVIOUS
<1>2. ASSUME NEW i \in 1 .. Len(peers) PROVE IsJudged(world, peers[i].url, c[i], raw[i])
  <2>1. peers[i].url \in Hosts
    BY <1>1 DEF Peer
  <2>2. raw[i] = Finder!AuditNode(world, peers[i].url, c[i])
    BY <1>1
  <2> HIDE DEF raw
  <2> QED BY <2>1, <2>2, OneIsJudged
<1>3. raw = [i \in 1 .. Len(peers) |-> raw[i]]
  BY <1>1
<1> HIDE DEF raw
<1>4. AreJudged(world, peers, c, raw)
  BY <1>2, <1>3 DEF AreJudged
<1> QED BY <1>4 DEF raw

(* Where the ranking puts each node: at one place, which is its own.          *)
HasPlace(out, peers, raw, f, i) ==
  /\ PlaceOf(out, peers, i) \in 1 .. Len(peers)
  /\ f[PlaceOf(out, peers, i)] = i
  /\ out.results[PlaceOf(out, peers, i)] = raw[i]

LEMMA EachHasAPlace ==
  ASSUME NEW world, NEW peers \in Seq(Peer), NoUrlTwice(peers), NEW c, NEW raw,
         AreJudged(world, peers, c, raw), NEW f, NEW out,
         IsRanking(out.results, raw, Len(peers), f), NEW i \in 1 .. Len(peers)
  PROVE  HasPlace(out, peers, raw, f, i)
<1> DEFINE n == Len(peers)
           ranked == out.results
           place == PlaceOf(out, peers, i)
<1>1. /\ n \in Nat /\ f \in [1 .. n -> 1 .. n] /\ ranked = [k \in 1 .. n |-> raw[f[k]]]
      /\ \A o \in 1 .. n : \E k \in 1 .. n : f[k] = o
  BY DEF IsRanking
<1> HIDE DEF ranked, n
<1>2. DOMAIN ranked = 1 .. n /\ \A k \in 1 .. n : ranked[k] = raw[f[k]] /\ f[k] \in 1 .. n
  BY <1>1
<1>3. \A k \in 1 .. n : raw[k].url = peers[k].url
  BY DEF AreJudged, IsJudged, n
<1>4. \A k \in 1 .. n : ranked[k].url = peers[i].url => f[k] = i
  <2> SUFFICES ASSUME NEW k \in 1 .. n, ranked[k].url = peers[i].url PROVE f[k] = i
    OBVIOUS
  <2>1. peers[f[k]].url = peers[i].url /\ f[k] \in 1 .. n
    BY <1>2, <1>3
  <2> QED BY <2>1 DEF NoUrlTwice, n
<1>5. PICK k \in 1 .. n : f[k] = i
  BY <1>1 DEF n
<1>6. k \in DOMAIN ranked /\ ranked[k].url = peers[i].url
  BY <1>2, <1>3, <1>5 DEF n
<1>7. place \in DOMAIN ranked /\ ranked[place].url = peers[i].url
  <2>1. place = CHOOSE m \in DOMAIN ranked : ranked[m].url = peers[i].url
    BY DEF PlaceOf, ranked
  <2> HIDE DEF place
  <2> QED BY <1>6, <2>1
<1> HIDE DEF place
<1>8. place \in 1 .. n /\ f[place] = i /\ ranked[place] = raw[i]
  BY <1>2, <1>4, <1>7
<1> QED BY <1>8 DEF HasPlace, place, ranked, n

LEMMA BetterStandsBefore ==
  ASSUME NEW world, NEW peers \in Seq(Peer), NoUrlTwice(peers), NEW c, NEW raw,
         AreJudged(world, peers, c, raw), NEW f, NEW out,
         IsRanking(out.results, raw, Len(peers), f),
         NEW i \in 1 .. Len(peers), NEW j \in 1 .. Len(peers),
         ~MayPrecede(raw[j], raw[i])
  PROVE  PlaceOf(out, peers, i) < PlaceOf(out, peers, j)
<1> DEFINE a == PlaceOf(out, peers, i)
           b == PlaceOf(out, peers, j)
           n == Len(peers)
<1>1. n \in Nat /\ a \in 1 .. n /\ b \in 1 .. n /\ f[a] = i /\ f[b] = j
  <2>1. n \in Nat
    OBVIOUS
  <2>2. HasPlace(out, peers, raw, f, i) /\ HasPlace(out, peers, raw, f, j)
    BY EachHasAPlace
  <2> QED BY <2>1, <2>2 DEF HasPlace
<1> HIDE DEF a, b, n
<1>2. ~(b < a)
  <2>1. b < a => MayPrecede(raw[f[b]], raw[f[a]])
    BY <1>1 DEF IsRanking, n
  <2> QED BY <1>1, <2>1
<1>3. a # b
  <2> SUFFICES ASSUME a = b PROVE FALSE
    OBVIOUS
  <2>1. i = j
    BY <1>1
  <2>2. raw[i] \in Result
    BY DEF AreJudged, IsJudged
  <2> QED BY <2>1, <2>2, EachMayPrecedeItself
<1>4. a < b
  BY <1>1, <1>2, <1>3
<1> QED BY <1>4 DEF a, b

LEMMA ShareIsScore ==
  ASSUME NEW r \in Result, NEW s \in Result, r.passed <= r.challenges, s.passed <= s.challenges,
         r.passed * s.challenges > s.passed * r.challenges
  PROVE  Finder!ScoreAbove(r, s)
<1> DEFINE p == r.passed
           q == s.passed
           a == r.challenges
           b == s.challenges
<1>1. p \in Nat /\ q \in Nat /\ a \in Nat /\ b \in Nat
  BY DEF Result
<1>2. p <= a /\ q <= b /\ p * b > q * a
  OBVIOUS
<1> HIDE DEF p, q, a, b
<1>3. a # 0
  <2> SUFFICES ASSUME a = 0 PROVE FALSE
    OBVIOUS
  <2>1. p = 0
    BY <1>1, <1>2
  <2>2. p * b = 0 /\ q * a = 0
    BY <1>1, <2>1
  <2> QED BY <1>2, <2>2
<1>4. b # 0
  <2> SUFFICES ASSUME b = 0 PROVE FALSE
    OBVIOUS
  <2>1. p * b = 0 /\ q * a \in Nat
    BY <1>1
  <2> QED BY <1>2, <2>1
<1>5. AskedOf(r) = a /\ AskedOf(s) = b
  BY <1>3, <1>4 DEF AskedOf, a, b
<1>6. r.passed * AskedOf(s) > s.passed * AskedOf(r)
  BY <1>2, <1>5 DEF p, q
<1> QED BY <1>6, AboveIs

LEMMA RankingJudges ==
  ASSUME NEW world, IsWorld(world), NEW peers \in Seq(Peer), NoUrlTwice(peers), NEW c, NEW raw,
         AreJudged(world, peers, c, raw), NEW f, NEW out,
         IsRanking(out.results, raw, Len(peers), f),
         NEW i \in 1 .. Len(peers), NEW j \in 1 .. Len(peers)
  PROVE  Placed(world, peers, c, out, i, j)
<1> DEFINE ri == raw[i]
           rj == raw[j]
           hi == world[peers[i].url].head
           hj == world[peers[j].url].head
           ci == CaughtAt(world, peers, c, i)
           cj == CaughtAt(world, peers, c, j)
<1> SUFFICES ASSUME hi = "ok", ~ci
             PROVE  /\ Finder!Trustworthy(out.results[PlaceOf(out, peers, i)])
                    /\ cj => PlaceOf(out, peers, i) < PlaceOf(out, peers, j)
                    /\ /\ hj = "ok" /\ ~cj
                       /\ Share(world, peers, c, i) * Finder!Cardinality(c[j])
                            > Share(world, peers, c, j) * Finder!Cardinality(c[i])
                       => PlaceOf(out, peers, i) < PlaceOf(out, peers, j)
  BY DEF Placed
<1>1. IsJudged(world, peers[i].url, c[i], ri) /\ IsJudged(world, peers[j].url, c[j], rj)
  BY DEF AreJudged
<1>2. ri \in Result /\ rj \in Result
  BY <1>1 DEF IsJudged
<1>3. Finder!Trustworthy(ri)
  BY <1>1 DEF IsJudged, CaughtAt
<1>4. out.results[PlaceOf(out, peers, i)] = ri
  <2>1. HasPlace(out, peers, raw, f, i)
    BY EachHasAPlace
  <2> QED BY <2>1 DEF HasPlace
<1>5. ASSUME cj PROVE PlaceOf(out, peers, i) < PlaceOf(out, peers, j)
  <2>1. ~Finder!Trustworthy(rj)
    BY <1>1, <1>5 DEF IsJudged, CaughtAt
  <2>2. ~MayPrecede(rj, ri)
    BY <1>3, <2>1, PrecedesIs
  <2> QED BY <2>2, BetterStandsBefore
<1>6. ASSUME hj = "ok", ~cj,
             Share(world, peers, c, i) * Finder!Cardinality(c[j])
               > Share(world, peers, c, j) * Finder!Cardinality(c[i])
      PROVE  PlaceOf(out, peers, i) < PlaceOf(out, peers, j)
  <2>1. Finder!Trustworthy(rj)
    BY <1>1, <1>6 DEF IsJudged, CaughtAt
  <2>2. /\ ri.challenges = Finder!Cardinality(c[i]) /\ ri.passed = Share(world, peers, c, i)
        /\ ri.passed <= ri.challenges
    BY <1>1, SameCardinality DEF IsJudged, Share
  <2>3. /\ rj.challenges = Finder!Cardinality(c[j]) /\ rj.passed = Share(world, peers, c, j)
        /\ rj.passed <= rj.challenges
    BY <1>1, <1>6, SameCardinality DEF IsJudged, Share
  <2> HIDE DEF ri, rj
  <2>4. ri.passed * rj.challenges > rj.passed * ri.challenges
    BY <1>6, <2>2, <2>3
  <2>5. Finder!ScoreAbove(ri, rj)
    BY <1>2, <2>2, <2>3, <2>4, ShareIsScore
  <2>6. ~MayPrecede(rj, ri)
    BY <1>3, <2>1, <2>5, PrecedesIs
  <2> QED BY <2>6, BetterStandsBefore DEF ri, rj
<1> QED BY <1>3, <1>4, <1>5, <1>6

LEMMA AuditJudges ==
  ASSUME NEW world, IsWorld(world), NEW peers \in Seq(Peer), NoUrlTwice(peers), NEW c,
         \A i \in 1 .. Len(peers) : c[i] \in SUBSET DOMAIN world[peers[i].url].records
  PROVE  Judged(world, peers, c, Finder!Audit(world, peers, c))
<1> DEFINE n == Len(peers)
           raw == [i \in DOMAIN peers |-> Finder!AuditNode(world, peers[i].url, c[i])]
           ranked == Finder!Rank(raw)
           out == Finder!Audit(world, peers, c)
<1>1. n \in Nat /\ DOMAIN peers = 1 .. n
  OBVIOUS
<1>2. out = [results |-> ranked, code |-> IF \E i \in DOMAIN ranked : ranked[i].security > 0 THEN 1 ELSE 0]
  BY DEF Finder!Audit
<1>3. AreJudged(world, peers, c, raw)
  BY AllAreJudged
<1> HIDE DEF raw
<1>4. raw \in [1 .. n -> Result]
  <2>1. raw = [i \in 1 .. n |-> raw[i]] /\ \A i \in 1 .. n : raw[i] \in Result
    BY <1>3 DEF AreJudged, IsJudged
  <2> HIDE DEF n
  <2> QED BY <2>1
<1>5. PICK f : IsRanking(ranked, raw, n, f)
  <2> HIDE DEF n
  <2> QED BY <1>1, <1>4, RankRanks
<1> HIDE DEF ranked, out
<1>6. out.results = ranked /\ out.code = IF \E i \in DOMAIN ranked : ranked[i].security > 0 THEN 1 ELSE 0
  BY <1>2
<1>7. IsRanking(out.results, raw, Len(peers), f)
  BY <1>5, <1>6
<1>8. /\ DOMAIN ranked = 1 .. n /\ ranked = [i \in 1 .. n |-> ranked[i]]
      /\ \A i \in 1 .. n : f[i] \in 1 .. n /\ ranked[i] = raw[f[i]]
      /\ \A o \in 1 .. n : \E i \in 1 .. n : f[i] = o
  <2> HIDE DEF n
  <2> QED BY <1>5 DEF IsRanking
<1>9. Len(out.results) = n
  <2> HIDE DEF n
  <2>1. Len(ranked) = n
    BY <1>1, <1>8
  <2> QED BY <1>6, <2>1
<1>10. \A i \in 1 .. n : raw[i].security > 0 <=> CaughtAt(world, peers, c, i)
  BY <1>3 DEF AreJudged, IsJudged, CaughtAt
<1>11. out.code = 1 <=> \E i \in DOMAIN peers : CaughtAt(world, peers, c, i)
  <2>1. out.code = 1 <=> \E i \in DOMAIN ranked : ranked[i].security > 0
    BY <1>6
  <2> HIDE DEF n
  <2>2. (\E i \in 1 .. n : ranked[i].security > 0) <=> \E i \in 1 .. n : raw[i].security > 0
    <3>1. ASSUME NEW i \in 1 .. n, ranked[i].security > 0
          PROVE  \E o \in 1 .. n : raw[o].security > 0
      <4>1. f[i] \in 1 .. n /\ raw[f[i]].security > 0
        BY <1>8, <3>1
      <4> QED BY <4>1
    <3>2. ASSUME NEW o \in 1 .. n, raw[o].security > 0
          PROVE  \E i \in 1 .. n : ranked[i].security > 0
      <4>1. PICK i \in 1 .. n : f[i] = o
        BY <1>8
      <4>2. ranked[i].security > 0
        BY <1>8, <3>2, <4>1
      <4> QED BY <4>2
    <3> QED BY <3>1, <3>2
  <2> QED BY <1>1, <1>8, <1>10, <2>1, <2>2
<1>12. \A i, j \in DOMAIN peers : Placed(world, peers, c, out, i, j)
  BY <1>1, <1>3, <1>7, RankingJudges
<1> QED BY <1>9, <1>11, <1>12 DEF Judged, out

LEMMA AllBlameIsEarned ==
  ASSUME NEW world, IsWorld(world), NEW file \in EntryList, NEW sample \in Nat
  PROVE  Finder!BlameIsEarned(world, file, sample)
<1> DEFINE peers == Finder!Discover(world, file, <<>>, TRUE)
           May(i) == Finder!Chosen(world[peers[i].url], sample)
           picks == {c \in [DOMAIN peers -> UNION {May(i) : i \in DOMAIN peers}] :
                       \A i \in DOMAIN peers : c[i] \in May(i)}
<1>1. ASSUME peers # Finder!Error, NEW c \in picks
      PROVE  Judged(world, peers, c, Finder!Audit(world, peers, c))
  <2>1. <<>> \in EntryList
    BY DEF EntryList
  <2>2. PICK local, told : ComeFrom(world, peers, file, local, told)
    BY <1>1, <2>1, DiscoveredComeFrom
  <2>3. \A i \in DOMAIN peers : c[i] \in May(i)
    BY <1>1
  <2> HIDE DEF peers, May
  <2>4. peers \in Seq(Peer) /\ NoUrlTwice(peers)
    BY <2>2, FoundAreFound DEF AreFound
  <2>5. ASSUME NEW i \in 1 .. Len(peers) PROVE c[i] \in SUBSET DOMAIN world[peers[i].url].records
    <3>1. c[i] \in May(i)
      BY <2>3, <2>4
    <3> QED BY <3>1 DEF May, Finder!Chosen
  <2> QED BY <2>4, <2>5, AuditJudges
<1> QED BY <1>1 DEF Finder!BlameIsEarned, Judged, Placed, CaughtAt, Share, PlaceOf

(* Whatever lists and nodes there are: no bootstrap displaces a pinned key, and *)
(* a node is blamed, and ranked, for the answers it gave (discover.py, audit.py). *)
THEOREM NobodyIsMisjudged == VSpec => []NodesAreJudgedFairly
<1>1. InputType => NodesAreJudgedFairly
  <2> SUFFICES ASSUME InputType, Tried("nodes")
               PROVE  /\ input.kind = "list" =>
                           Finder!PinsSurvive(input.world, input.file, input.bootstrap)
                      /\ input.kind = "audit" =>
                           Finder!BlameIsEarned(input.world, input.file, input.sample)
    BY DEF NodesAreJudgedFairly
  <2>1. input \in ListCase \cup AuditCase
    BY DEF InputType
  <2>2. ASSUME input.kind = "list"
        PROVE  Finder!PinsSurvive(input.world, input.file, input.bootstrap)
    <3>1. input \in ListCase
      BY <2>1, <2>2 DEF AuditCase
    <3>2. input.file \in EntryList /\ input.bootstrap \in EntryList
      BY <3>1 DEF ListCase
    <3> QED BY <3>2, EveryPinSurvives
  <2>3. ASSUME input.kind = "audit"
        PROVE  Finder!BlameIsEarned(input.world, input.file, input.sample)
    <3>1. input \in AuditCase
      BY <2>1, <2>3 DEF ListCase
    <3>2. IsWorld(input.world) /\ input.file \in EntryList /\ input.sample \in Nat
      BY <3>1 DEF AuditCase, IsWorld
    <3> QED BY <3>2, AllBlameIsEarned
  <2> QED BY <2>2, <2>3
<1> QED BY <1>1, InputTyped, PTL

------------------------------------------------------------------------------
Text == Seq(Token)
Plain == Seq(Vocabulary)

(* How texts are put together and cut.                                        *)
LEMMA SameText ==
  ASSUME NEW s \in Text, NEW t \in Text, Len(s) = Len(t), \A i \in 1 .. Len(s) : s[i] = t[i]
  PROVE  s = t
<1>1. s = [i \in 1 .. Len(s) |-> s[i]] /\ t = [i \in 1 .. Len(t) |-> t[i]]
  BY DEF Text
<1> QED BY <1>1

LEMMA TextIs ==
  ASSUME NEW s \in Text
  PROVE  Len(s) \in Nat /\ DOMAIN s = 1 .. Len(s) /\ \A i \in 1 .. Len(s) : s[i] \in Token
BY DEF Text

IsJoined(s, t, u) ==
  /\ u \in Text /\ Len(u) = Len(s) + Len(t)
  /\ \A i \in 1 .. Len(s) : u[i] = s[i]
  /\ \A i \in 1 .. Len(t) : u[Len(s) + i] = t[i]

LEMMA JoinedIs ==
  ASSUME NEW s \in Text, NEW t \in Text PROVE IsJoined(s, t, s \o t)
BY DEF Text, IsJoined

IsCut(s, a, b, u) ==
  /\ u \in Text /\ Len(u) = b - a + 1
  /\ \A i \in 1 .. Len(u) : u[i] = s[a + i - 1] /\ a + i - 1 \in 1 .. Len(s)

LEMMA CutIs ==
  ASSUME NEW s \in Text, NEW a \in Nat \ {0}, NEW b \in Nat, a <= b + 1, b <= Len(s)
  PROVE  IsCut(s, a, b, SubSeq(s, a, b))
<1>1. Len(s) \in Nat /\ \A i \in 1 .. Len(s) : s[i] \in Token
  BY TextIs
<1> DEFINE u == SubSeq(s, a, b)
           n == b - a + 1
<1>2. n \in Nat
  OBVIOUS
<1>3. u = [i \in 1 .. n |-> s[a + i - 1]]
  BY <1>2
<1>4. \A i \in 1 .. n : a + i - 1 \in 1 .. Len(s)
  BY <1>1
<1> HIDE DEF u
<1>5. u \in Seq(Token) /\ Len(u) = n
  <2> HIDE DEF n
  <2> QED BY <1>1, <1>2, <1>3, <1>4
<1>6. \A i \in 1 .. Len(u) : u[i] = s[a + i - 1] /\ a + i - 1 \in 1 .. Len(s)
  BY <1>3, <1>4, <1>5
<1> QED BY <1>5, <1>6 DEF IsCut, Text, u

LEMMA PlainIsText == Plain \subseteq Text /\ Value \subseteq Plain
BY DEF Plain, Text, Value, Token

LEMMA PlainIs ==
  ASSUME NEW s \in Text PROVE s \in Plain <=> \A i \in 1 .. Len(s) : s[i] \in Vocabulary
<1>1. s \in Plain => \A i \in 1 .. Len(s) : s[i] \in Vocabulary
  BY DEF Plain
<1>2. (\A i \in 1 .. Len(s) : s[i] \in Vocabulary) => s \in Plain
  BY DEF Plain, Text
<1> QED BY <1>1, <1>2

LEMMA JoinedTwice ==
  ASSUME NEW s \in Text, NEW t \in Text, NEW u \in Text
  PROVE  (s \o t) \o u = s \o (t \o u)
<1>1. IsJoined(s, t, s \o t) /\ IsJoined(t, u, t \o u)
  BY JoinedIs
<1> DEFINE st == s \o t
           tu == t \o u
<1>2. st \in Text /\ tu \in Text
  BY <1>1 DEF IsJoined
<1>3. IsJoined(st, u, st \o u) /\ IsJoined(s, tu, s \o tu)
  BY <1>2, JoinedIs
<1> DEFINE l == st \o u
           r == s \o tu
<1> HIDE DEF l, r, st, tu
<1>4. Len(s) \in Nat /\ Len(t) \in Nat /\ Len(u) \in Nat
  BY TextIs
<1>5. l \in Text /\ r \in Text /\ Len(l) = Len(s) + Len(t) + Len(u) /\ Len(r) = Len(l)
  BY <1>1, <1>3, <1>4 DEF IsJoined, l, r, st, tu
<1>6. ASSUME NEW i \in 1 .. Len(l) PROVE l[i] = r[i]
  <2>1. CASE i \in 1 .. Len(s)
    <3>1. l[i] = st[i] /\ st[i] = s[i] /\ r[i] = s[i]
      <4>1. i \in 1 .. Len(st)
        BY <1>1, <1>4, <2>1 DEF IsJoined, st
      <4> QED BY <1>1, <1>3, <2>1, <4>1 DEF IsJoined, l, r, st
    <3> QED BY <3>1
  <2>2. CASE i \in Len(s) + 1 .. Len(s) + Len(t)
    <3> DEFINE j == i - Len(s)
    <3>1. j \in 1 .. Len(t) /\ i = Len(s) + j /\ i \in 1 .. Len(st) /\ j \in 1 .. Len(tu)
      BY <1>1, <1>4, <2>2 DEF IsJoined, st, tu
    <3> HIDE DEF j
    <3>2. l[i] = st[i] /\ st[i] = t[j] /\ r[i] = tu[j] /\ tu[j] = t[j]
      BY <1>1, <1>3, <3>1 DEF IsJoined, l, r, st, tu
    <3> QED BY <3>2
  <2>3. CASE i \in Len(s) + Len(t) + 1 .. Len(l)
    <3> DEFINE j == i - Len(s) - Len(t)
    <3>1. /\ j \in 1 .. Len(u) /\ i = Len(st) + j /\ i = Len(s) + (Len(t) + j)
          /\ Len(t) + j \in 1 .. Len(tu)
      BY <1>1, <1>4, <1>5, <2>3 DEF IsJoined, st, tu
    <3> HIDE DEF j
    <3>2. l[i] = u[j]
      BY <1>3, <3>1 DEF IsJoined, l
    <3>3. r[i] = tu[Len(t) + j] /\ tu[Len(t) + j] = u[j]
      BY <1>1, <1>3, <3>1 DEF IsJoined, r, tu
    <3> QED BY <3>2, <3>3
  <2> QED BY <1>4, <1>5, <2>1, <2>2, <2>3
<1>7. l = r
  BY <1>5, <1>6, SameText
<1> QED BY <1>7 DEF l, r, st, tu

LEMMA CutAndJoined ==
  ASSUME NEW s \in Text, NEW a \in Nat \ {0}, NEW b \in Nat, NEW c \in Nat,
         a <= b + 1, b <= c, c <= Len(s)
  PROVE  SubSeq(s, a, c) = SubSeq(s, a, b) \o SubSeq(s, b + 1, c)
<1> DEFINE w == SubSeq(s, a, c)
           x == SubSeq(s, a, b)
           y == SubSeq(s, b + 1, c)
<1>1. Len(s) \in Nat
  BY TextIs
<1>2. IsCut(s, a, c, w) /\ IsCut(s, a, b, x) /\ IsCut(s, b + 1, c, y)
  <2>1. b <= Len(s) /\ a <= c + 1 /\ b + 1 <= c + 1 /\ b + 1 \in Nat \ {0}
    BY <1>1
  <2>2. IsCut(s, a, c, w)
    BY <2>1, CutIs
  <2>3. IsCut(s, a, b, x)
    BY <2>1, CutIs
  <2>4. IsCut(s, b + 1, c, y)
    BY <2>1, CutIs
  <2> QED BY <2>2, <2>3, <2>4
<1> HIDE DEF w, x, y
<1>3. x \in Text /\ y \in Text /\ w \in Text
  BY <1>2 DEF IsCut
<1>4. IsJoined(x, y, x \o y)
  BY <1>3, JoinedIs
<1>5. Len(x) = b - a + 1 /\ Len(y) = c - b /\ Len(w) = c - a + 1
  BY <1>2 DEF IsCut
<1> DEFINE z == x \o y
<1> HIDE DEF z
<1>6. z \in Text /\ Len(z) = Len(w)
  BY <1>4, <1>5 DEF IsJoined, z
<1>7. ASSUME NEW i \in 1 .. Len(w) PROVE z[i] = w[i]
  <2>1. w[i] = s[a + i - 1]
    BY <1>2 DEF IsCut
  <2>2. CASE i \in 1 .. Len(x)
    BY <1>2, <1>4, <2>1, <2>2 DEF IsCut, IsJoined, z
  <2>3. CASE i \notin 1 .. Len(x)
    <3> DEFINE j == i - Len(x)
    <3>1. j \in 1 .. Len(y) /\ i = Len(x) + j /\ a + i - 1 = (b + 1) + j - 1
      BY <1>5, <2>3
    <3> HIDE DEF j
    <3>2. z[i] = y[j]
      BY <1>4, <3>1 DEF IsJoined, z
    <3>3. y[j] = s[(b + 1) + j - 1]
      BY <1>2, <3>1 DEF IsCut
    <3> QED BY <2>1, <3>1, <3>2, <3>3
  <2> QED BY <2>2, <2>3
<1>8. z = w
  BY <1>3, <1>6, <1>7, SameText
<1> QED BY <1>8 DEF w, x, y, z

Loose == Kinds \X Nat \X {"loose"}

LEMMA LooseIs ==
  ASSUME NEW x \in Loose
  PROVE  Len(x) = 3 /\ x[1] \in Kinds /\ x[2] \in Nat /\ x = <<x[1], x[2], "loose">>
<1>1. x[1] \in Kinds /\ x[2] \in Nat /\ x = <<x[1], x[2], "loose">>
  BY DEF Loose
<1>2. Len(<<x[1], x[2], "loose">>) = 3
  OBVIOUS
<1>3. Len(x) = 3
  BY <1>1, <1>2, Zenon
<1> QED BY <1>1, <1>3

LEMMA PairIs ==
  ASSUME NEW x \in Kinds \X Nat
  PROVE  Len(x) = 2 /\ x[1] \in Kinds /\ x[2] \in Nat /\ x = <<x[1], x[2]>>
<1>1. x[1] \in Kinds /\ x[2] \in Nat /\ x = <<x[1], x[2]>>
  OBVIOUS
<1>2. Len(<<x[1], x[2]>>) = 2
  OBVIOUS
<1>3. Len(x) = 2
  BY <1>1, <1>2, Zenon
<1> QED BY <1>1, <1>3

(* Words are tuples of one, placeholders of two, their other spellings of three. *)
LEMMA TokensApart ==
  ASSUME NEW x \in Token
  PROVE  /\ Vault!IsWord(x) <=> x \in Vocabulary
         /\ Vault!IsPlaceholder(x) <=> x \in Kinds \X Nat
         /\ Len(x) = 3 <=> x \in Loose
         /\ x \in Vocabulary => Lower(x) \in Vocabulary
<1>1. x \in Vocabulary => Len(x) = 1 /\ Lower(x) \in Vocabulary
  BY WordAssumption
<1>2. x \in Kinds \X Nat => Len(x) = 2
  BY PairIs
<1>3. x \in Loose => Len(x) = 3
  BY LooseIs
<1>4. x \in Vocabulary \/ x \in Kinds \X Nat \/ x \in Loose
  BY DEF Token, Loose
<1> QED BY <1>1, <1>2, <1>3, <1>4 DEF Vault!IsWord, Vault!IsPlaceholder

(* A text in lower case is the text token by token.                           *)
FoldedOf(x) == IF x \in Vocabulary THEN Lower(x) ELSE x

IsFolded(t, u) ==
  /\ u \in Text /\ Len(u) = Len(t)
  /\ \A i \in 1 .. Len(t) : u[i] = FoldedOf(t[i])
  /\ t \in Plain => u \in Plain

LEMMA FoldedIs == ASSUME NEW t \in Text PROVE IsFolded(t, Vault!Folded(t))
<1> DEFINE u == Vault!Folded(t)
<1>1. Len(t) \in Nat /\ DOMAIN t = 1 .. Len(t) /\ \A i \in 1 .. Len(t) : t[i] \in Token
  BY TextIs
<1>2. u = [i \in 1 .. Len(t) |-> IF Vault!IsWord(t[i]) THEN Lower(t[i]) ELSE t[i]]
  BY <1>1 DEF Vault!Folded
<1> HIDE DEF u
<1>3. \A i \in 1 .. Len(t) : u[i] = FoldedOf(t[i])
  BY <1>1, <1>2, TokensApart DEF FoldedOf
<1>4. \A i \in 1 .. Len(t) : u[i] \in Token /\ (t[i] \in Vocabulary => u[i] \in Vocabulary)
  <2> SUFFICES ASSUME NEW i \in 1 .. Len(t)
               PROVE  u[i] \in Token /\ (t[i] \in Vocabulary => u[i] \in Vocabulary)
    OBVIOUS
  <2>1. t[i] \in Token /\ u[i] = FoldedOf(t[i])
    BY <1>1, <1>3
  <2>2. t[i] \in Vocabulary => Lower(t[i]) \in Vocabulary
    BY <2>1, TokensApart
  <2> QED BY <2>1, <2>2 DEF FoldedOf, Token
<1>5. u \in Text /\ Len(u) = Len(t)
  <2>1. u \in [1 .. Len(t) -> Token]
    BY <1>2, <1>4
  <2> QED BY <1>1, <2>1 DEF Text
<1>6. t \in Plain => u \in Plain
  BY <1>4, <1>5, PlainIs
<1>7. IsFolded(t, u)
  BY <1>3, <1>5, <1>6 DEF IsFolded
<1> QED BY <1>7 DEF u

LEMMA FoldedJoined ==
  ASSUME NEW s \in Text, NEW t \in Text
  PROVE  Vault!Folded(s \o t) = Vault!Folded(s) \o Vault!Folded(t)
<1> DEFINE u == s \o t
           fs == Vault!Folded(s)
           ft == Vault!Folded(t)
           fu == Vault!Folded(u)
           w == fs \o ft
<1>1. IsJoined(s, t, u)
  BY JoinedIs
<1>2. u \in Text
  BY <1>1 DEF IsJoined
<1>3. IsFolded(s, fs) /\ IsFolded(t, ft)
  BY FoldedIs
<1>4. IsFolded(u, fu)
  <2> HIDE DEF u
  <2> QED BY <1>2, FoldedIs
<1> HIDE DEF u, fs, ft, fu
<1>5. IsJoined(fs, ft, w)
  <2>1. fs \in Text /\ ft \in Text
    BY <1>3 DEF IsFolded
  <2> QED BY <2>1, JoinedIs
<1> HIDE DEF w
<1>6. Len(s) \in Nat /\ Len(t) \in Nat
  BY TextIs
<1>7. fu \in Text /\ w \in Text /\ Len(fu) = Len(s) + Len(t) /\ Len(w) = Len(fu)
  BY <1>1, <1>3, <1>4, <1>5 DEF IsFolded, IsJoined
<1>8. ASSUME NEW i \in 1 .. Len(fu) PROVE fu[i] = w[i]
  <2>1. i \in 1 .. Len(u) /\ fu[i] = FoldedOf(u[i])
    BY <1>1, <1>4, <1>7, <1>8 DEF IsFolded, IsJoined
  <2>2. CASE i \in 1 .. Len(s)
    BY <1>1, <1>3, <1>5, <2>1, <2>2 DEF IsFolded, IsJoined
  <2>3. CASE i \notin 1 .. Len(s)
    <3> DEFINE j == i - Len(s)
    <3>1. j \in 1 .. Len(t) /\ i = Len(s) + j
      BY <1>6, <1>7, <1>8, <2>3
    <3> HIDE DEF j
    <3>2. u[i] = t[j] /\ ft[j] = FoldedOf(t[j]) /\ w[i] = ft[j]
      BY <1>1, <1>3, <1>5, <3>1 DEF IsFolded, IsJoined
    <3> QED BY <2>1, <3>2
  <2> QED BY <2>2, <2>3
<1>9. fu = w
  BY <1>7, <1>8, SameText
<1> QED BY <1>9 DEF fu, w, fs, ft, u

LEMMA FoldedCut ==
  ASSUME NEW s \in Text, NEW a \in Nat \ {0}, NEW b \in Nat, a <= b + 1, b <= Len(s)
  PROVE  Vault!Folded(SubSeq(s, a, b)) = SubSeq(Vault!Folded(s), a, b)
<1> DEFINE fs == Vault!Folded(s)
           x == SubSeq(s, a, b)
           fx == Vault!Folded(x)
           y == SubSeq(fs, a, b)
<1>1. IsFolded(s, fs)
  BY FoldedIs
<1>2. fs \in Text /\ Len(fs) = Len(s)
  BY <1>1 DEF IsFolded
<1>3. IsCut(s, a, b, x)
  BY CutIs
<1>4. IsCut(fs, a, b, y)
  <2> HIDE DEF fs
  <2> QED BY <1>2, CutIs
<1>5. IsFolded(x, fx)
  <2>1. x \in Text
    BY <1>3 DEF IsCut
  <2> HIDE DEF x
  <2> QED BY <2>1, FoldedIs
<1> HIDE DEF fs, x, fx, y
<1>6. fx \in Text /\ y \in Text /\ Len(fx) = Len(y)
  BY <1>3, <1>4, <1>5 DEF IsCut, IsFolded
<1>7. ASSUME NEW i \in 1 .. Len(fx) PROVE fx[i] = y[i]
  <2>1. i \in 1 .. Len(x) /\ i \in 1 .. Len(y)
    BY <1>5, <1>6, <1>7 DEF IsFolded
  <2>2. fx[i] = FoldedOf(x[i]) /\ x[i] = s[a + i - 1] /\ a + i - 1 \in 1 .. Len(s)
    BY <1>3, <1>5, <2>1 DEF IsCut, IsFolded
  <2>3. y[i] = fs[a + i - 1]
    BY <1>4, <2>1 DEF IsCut
  <2>4. fs[a + i - 1] = FoldedOf(s[a + i - 1])
    BY <1>1, <2>2 DEF IsFolded
  <2> QED BY <2>2, <2>3, <2>4
<1>8. fx = y
  BY <1>6, <1>7, SameText
<1> QED BY <1>8 DEF fx, y, x, fs

Mapping == [placeholder : Kinds \X Nat, value : Value]

(* No placeholder stands for two values, as the counters are ahead of them.   *)
IsVault(v) ==
  /\ v.mappings \subseteq Mapping /\ v.counters \in [Kinds -> Nat]
  /\ \A m \in v.mappings : m.placeholder[2] < v.counters[m.placeholder[1]]
  /\ \A m, o \in v.mappings : m.placeholder = o.placeholder => m = o

Extends(v, w) == v.mappings \subseteq w.mappings

LEMMA NoVaultIsVault == IsVault(Vault!NoVault)
<1>1. Vault!NoVault.mappings = {} /\ Vault!NoVault.counters = [k \in Kinds |-> 0]
  BY DEF Vault!NoVault, Kinds
<1>2. [k \in Kinds |-> 0] \in [Kinds -> Nat]
  OBVIOUS
<1> QED BY <1>1, <1>2 DEF IsVault

LEMMA OneWordIsText == ASSUME NEW x \in Token PROVE <<x>> \in Text /\ Len(<<x>>) = 1 /\ <<x>>[1] = x
BY DEF Text

(* What a token stands for.                                                   *)
LEMMA ExactIs ==
  ASSUME NEW x \in Token
  PROVE  /\ x \notin Loose => Vault!Exact(x) = x
         /\ x \in Loose => Vault!Exact(x) = <<x[1], x[2]>> /\ <<x[1], x[2]>> \in Kinds \X Nat
<1>1. x \in Loose => <<x[1], x[2]>> \in Kinds \X Nat
  BY LooseIs
<1> QED BY <1>1, TokensApart DEF Vault!Exact

LEMMA StandingFor ==
  ASSUME NEW v, IsVault(v), NEW m \in v.mappings, NEW x, Vault!Exact(x) = m.placeholder
  PROVE  Vault!StandsFor(v, x) = m.value
<1> DEFINE o == CHOOSE o \in v.mappings : o.placeholder = Vault!Exact(x)
<1>1. o \in v.mappings /\ o.placeholder = m.placeholder
  OBVIOUS
<1>2. Vault!StandsFor(v, x) = o.value
  BY DEF Vault!StandsFor
<1> HIDE DEF o
<1>3. o = m
  BY <1>1 DEF IsVault
<1> QED BY <1>2, <1>3

LEMMA MappedIs ==
  ASSUME NEW v, IsVault(v), NEW m \in v.mappings
  PROVE  Vault!StandsFor(v, m.placeholder) = m.value
<1>1. m.placeholder \in Kinds \X Nat
  BY DEF IsVault, Mapping
<1>2. Vault!Exact(m.placeholder) = m.placeholder
  <2>1. Len(m.placeholder) # 3
    BY <1>1, PairIs
  <2> QED BY <2>1 DEF Vault!Exact
<1> QED BY <1>2, StandingFor

LEMMA WordIs ==
  ASSUME NEW v, IsVault(v), NEW x \in Vocabulary
  PROVE  Vault!StandsFor(v, x) = <<x>>
<1>1. Len(x) = 1
  BY WordAssumption
<1>2. Vault!Exact(x) = x
  BY <1>1 DEF Vault!Exact
<1>3. \A m \in v.mappings : m.placeholder # x
  <2> SUFFICES ASSUME NEW m \in v.mappings, m.placeholder = x PROVE FALSE
    OBVIOUS
  <2>1. m.placeholder \in Kinds \X Nat
    BY DEF IsVault, Mapping
  <2> QED BY <1>1, <2>1, PairIs
<1> QED BY <1>2, <1>3 DEF Vault!StandsFor

LEMMA TokenIsText ==
  ASSUME NEW v, IsVault(v), NEW x \in Token
  PROVE  Vault!StandsFor(v, x) \in Text
<1>1. CASE \E m \in v.mappings : m.placeholder = Vault!Exact(x)
  <2>1. PICK m \in v.mappings : m.placeholder = Vault!Exact(x)
    BY <1>1
  <2>2. Vault!StandsFor(v, x) = m.value
    BY <2>1, StandingFor
  <2>3. m.value \in Value
    BY DEF IsVault, Mapping
  <2> QED BY <2>2, <2>3, PlainIsText
<1>2. CASE ~\E m \in v.mappings : m.placeholder = Vault!Exact(x)
  <2>1. Vault!StandsFor(v, x) = <<x>>
    BY <1>2 DEF Vault!StandsFor
  <2> QED BY <2>1, OneWordIsText
<1> QED BY <1>1, <1>2

(* What a text may hold that is not refused, and what one may that is sent:    *)
(* of the vault's own spelling no placeholder, or only those it knows.         *)
Fresh == Vocabulary \cup Loose
Understood(v) == Fresh \cup {m.placeholder : m \in v.mappings}

LEMMA UnderstoodAreTokens ==
  ASSUME NEW v, IsVault(v) PROVE Understood(v) \subseteq Token
<1>1. Fresh \subseteq Token
  BY DEF Fresh, Loose, Token
<1>2. ASSUME NEW m \in v.mappings PROVE m.placeholder \in Token
  <2>1. m.placeholder \in Kinds \X Nat
    BY DEF IsVault, Mapping
  <2> QED BY <2>1 DEF Token
<1> QED BY <1>1, <1>2 DEF Understood

(* Declaring a value keeps what was known, and gives it a placeholder that    *)
(* stands for it but for its spelling.                                        *)
Declares(v, value, w) ==
  /\ IsVault(w) /\ Extends(v, w)
  /\ \E m \in w.mappings :
       /\ Vault!PlaceholderOf(w, value) = m.placeholder
       /\ Vault!Folded(m.value) = Vault!Folded(value)

LEMMA KnownHasPlaceholder ==
  ASSUME NEW w, IsVault(w), NEW value, Vault!Known(w, value) # {}
  PROVE  Declares(w, value, w)
<1> DEFINE m == CHOOSE m \in Vault!Known(w, value) : TRUE
<1>1. m \in Vault!Known(w, value)
  OBVIOUS
<1>2. Vault!PlaceholderOf(w, value) = m.placeholder
  BY DEF Vault!PlaceholderOf
<1> HIDE DEF m
<1>3. m \in w.mappings /\ Vault!Folded(m.value) = Vault!Folded(value)
  BY <1>1 DEF Vault!Known
<1> QED BY <1>2, <1>3 DEF Declares, Extends

LEMMA DeclareDeclares ==
  ASSUME NEW v, IsVault(v), NEW value \in Value, NEW kind \in Kinds
  PROVE  Declares(v, value, Vault!Declare(v, value, kind))
<1> DEFINE w == Vault!Declare(v, value, kind)
<1>1. CASE Vault!Known(v, value) # {}
  <2>1. w = v
    BY <1>1 DEF Vault!Declare
  <2> QED BY <1>1, <2>1, KnownHasPlaceholder
<1>2. CASE Vault!Known(v, value) = {}
  <2> DEFINE n == v.counters[kind]
             new == [placeholder |-> <<kind, n>>, value |-> value]
             counters == [v.counters EXCEPT ![kind] = n + 1]
  <2>1. w = [mappings |-> v.mappings \cup {new}, counters |-> counters]
    BY <1>2 DEF Vault!Declare
  <2>2. w.mappings = v.mappings \cup {new} /\ w.counters = counters
    BY <2>1
  <2>3. n \in Nat /\ new \in Mapping /\ counters \in [Kinds -> Nat]
    BY DEF IsVault, Mapping
  <2>4. \A k \in Kinds : counters[k] >= v.counters[k] /\ counters[kind] = n + 1
    BY DEF IsVault
  <2>5. new.placeholder[1] = kind /\ new.placeholder[2] = n /\ new.value = value
    OBVIOUS
  <2> HIDE DEF w, new, counters, n
  <2>6. ASSUME NEW m \in v.mappings
        PROVE  /\ m.placeholder[1] \in Kinds /\ m.placeholder[2] \in Nat
               /\ m.placeholder[2] < v.counters[m.placeholder[1]]
    <3>1. m.placeholder \in Kinds \X Nat
      BY DEF IsVault, Mapping
    <3> QED BY <3>1 DEF IsVault
  <2>7. v.counters \in [Kinds -> Nat]
    BY DEF IsVault
  <2>8. ASSUME NEW m \in w.mappings PROVE m.placeholder[2] < w.counters[m.placeholder[1]]
    <3>1. CASE m = new
      BY <2>2, <2>3, <2>4, <2>5, <3>1
    <3>2. CASE m \in v.mappings
      BY <2>2, <2>3, <2>4, <2>6, <2>7, <3>2
    <3> QED BY <2>2, <2>8, <3>1, <3>2
  <2>9. ASSUME NEW m \in v.mappings PROVE m.placeholder # new.placeholder
    <3> SUFFICES ASSUME m.placeholder = new.placeholder PROVE FALSE
      OBVIOUS
    <3>1. m.placeholder[1] = kind /\ m.placeholder[2] = n
      BY <2>5
    <3>2. n < v.counters[kind]
      BY <2>6, <3>1
    <3> QED BY <2>3, <3>2 DEF n
  <2>10. \A m, o \in w.mappings : m.placeholder = o.placeholder => m = o
    BY <2>2, <2>9 DEF IsVault
  <2>11. w.mappings \subseteq Mapping
    BY <2>2, <2>3 DEF IsVault
  <2>12. IsVault(w)
    BY <2>2, <2>3, <2>8, <2>10, <2>11 DEF IsVault
  <2>13. Vault!Known(w, value) # {}
    <3>1. new \in w.mappings /\ Vault!Folded(new.value) = Vault!Folded(value)
      BY <2>2, <2>5
    <3> QED BY <3>1 DEF Vault!Known
  <2>14. Declares(w, value, w)
    BY <2>12, <2>13, KnownHasPlaceholder
  <2>15. Extends(v, w)
    BY <2>2 DEF Extends
  <2> QED BY <2>12, <2>14, <2>15 DEF Declares, w
<1> QED BY <1>1, <1>2

(* Texts joined one after the other, as the library flattens them.            *)
IsFlatten(f, texts, n) ==
  f = [i \in 1 .. n |-> IF i = 1 THEN texts[i] ELSE f[i - 1] \o texts[i]]

LEMMA FlattenExists ==
  ASSUME NEW texts, NEW n \in Nat PROVE \E f : IsFlatten(f, texts, n)
<1> DEFINE T == {k \in Nat : \E f : IsFlatten(f, texts, k)}
<1>1. 0 \in T
  <2> DEFINE none == [i \in 1 .. 0 |-> <<>>]
  <2>1. \A i \in 1 .. 0 : FALSE
    OBVIOUS
  <2>2. none = [i \in 1 .. 0 |-> IF i = 1 THEN texts[i] ELSE none[i - 1] \o texts[i]]
    BY <2>1
  <2> HIDE DEF none
  <2>3. IsFlatten(none, texts, 0)
    BY <2>2 DEF IsFlatten
  <2> QED BY <2>3
<1>2. ASSUME NEW k \in 0 .. n, k \in T PROVE k + 1 \in T
  <2>1. PICK f : IsFlatten(f, texts, k)
    BY <1>2
  <2> DEFINE next == IF k + 1 = 1 THEN texts[k + 1] ELSE f[k] \o texts[k + 1]
             more == [i \in 1 .. k + 1 |-> IF i = k + 1 THEN next ELSE f[i]]
  <2>2. \A i \in 1 .. k + 1 :
          more[i] = IF i = 1 THEN texts[i] ELSE more[i - 1] \o texts[i]
    <3> SUFFICES ASSUME NEW i \in 1 .. k + 1
                 PROVE  more[i] = IF i = 1 THEN texts[i] ELSE more[i - 1] \o texts[i]
      OBVIOUS
    <3>1. CASE i = k + 1
      <4>1. more[i] = next /\ (i # 1 => more[i - 1] = f[k])
        BY <3>1
      <4> HIDE DEF more
      <4> QED BY <3>1, <4>1
    <3>2. CASE i # k + 1
      <4>1. i \in 1 .. k /\ (i # 1 => i - 1 \in 1 .. k)
        BY <3>2
      <4>2. f[i] = IF i = 1 THEN texts[i] ELSE f[i - 1] \o texts[i]
        BY <2>1, <4>1 DEF IsFlatten
      <4>3. more[i] = f[i] /\ (i # 1 => more[i - 1] = f[i - 1])
        BY <4>1
      <4> HIDE DEF more
      <4> QED BY <4>2, <4>3
    <3> QED BY <3>1, <3>2
  <2>3. more = [i \in 1 .. k + 1 |-> more[i]]
    OBVIOUS
  <2>4. IsFlatten(more, texts, k + 1)
    <3> HIDE DEF more
    <3> QED BY <2>2, <2>3 DEF IsFlatten
  <2> QED BY <2>4
<1>3. n \in T
  <2>1. n \in 0 .. n
    OBVIOUS
  <2> HIDE DEF T
  <2> QED BY <1>1, <1>2, <2>1, Upwards
<1> QED BY <1>3

LEMMA NothingJoined ==
  ASSUME NEW s \in Text PROVE <<>> \o s = s /\ <<>> \in Text /\ s \o <<>> = s
<1>1. <<>> \in Text /\ Len(<<>>) = 0
  BY DEF Text
<1>2. IsJoined(<<>>, s, <<>> \o s) /\ IsJoined(s, <<>>, s \o <<>>)
  BY <1>1, JoinedIs
<1> DEFINE u == <<>> \o s
           w == s \o <<>>
<1> HIDE DEF u, w
<1>3. Len(s) \in Nat
  BY TextIs
<1>4. u \in Text /\ w \in Text /\ Len(u) = Len(s) /\ Len(w) = Len(s)
  BY <1>1, <1>2, <1>3 DEF IsJoined, u, w
<1>5. \A i \in 1 .. Len(s) : u[i] = s[i] /\ w[i] = s[i]
  <2> SUFFICES ASSUME NEW i \in 1 .. Len(s) PROVE u[i] = s[i] /\ w[i] = s[i]
    OBVIOUS
  <2>1. 0 + i = i
    OBVIOUS
  <2> QED BY <1>1, <1>2, <2>1 DEF IsJoined, u, w
<1>6. u = s /\ w = s
  BY <1>4, <1>5, SameText
<1> QED BY <1>1, <1>6 DEF u, w

(* Putting back goes from token to token.                                     *)
Steps(v, t, g) ==
  /\ g[0] = <<>>
  /\ \A i \in 0 .. Len(t) : g[i] \in Text
  /\ \A i \in 1 .. Len(t) : g[i] = g[i - 1] \o Vault!StandsFor(v, t[i])
  /\ Vault!Restore(v, t) = g[Len(t)]

LEMMA RestoreSteps ==
  ASSUME NEW v, IsVault(v), NEW t \in Text PROVE \E g : Steps(v, t, g)
<1> DEFINE n == Len(t)
           texts == [i \in DOMAIN t |-> Vault!StandsFor(v, t[i])]
           f == CHOOSE h : h = [i \in 1 .. Len(texts) |->
                                  IF i = 1 THEN texts[i] ELSE h[i - 1] \o texts[i]]
           g == [i \in 0 .. n |-> IF i = 0 THEN <<>> ELSE f[i]]
<1>1. n \in Nat /\ DOMAIN t = 1 .. n /\ \A i \in 1 .. n : t[i] \in Token
  BY TextIs
<1>2. \A i \in 1 .. n : texts[i] = Vault!StandsFor(v, t[i]) /\ texts[i] \in Text
  BY <1>1, TokenIsText
<1>3. Len(texts) = n
  <2>1. texts = [i \in 1 .. n |-> Vault!StandsFor(v, t[i])]
    BY <1>1
  <2> HIDE DEF n
  <2> QED BY <1>1, <2>1
<1>4. Vault!Restore(v, t) = IF Len(texts) = 0 THEN texts ELSE f[Len(texts)]
  BY DEF Vault!Restore, Vault!FlattenSeq
<1>5. n = 0 => texts = <<>>
  <2>1. texts \in Seq(Text)
    <3>1. texts = [i \in 1 .. n |-> texts[i]]
      BY <1>1
    <3> HIDE DEF texts, n
    <3> QED BY <1>1, <1>2, <3>1
  <2> HIDE DEF texts, n
  <2> QED BY <1>3, <2>1
<1> HIDE DEF texts
<1>6. f = [i \in 1 .. n |-> IF i = 1 THEN texts[i] ELSE f[i - 1] \o texts[i]]
  <2> HIDE DEF n
  <2>1. \E h : h = [i \in 1 .. Len(texts) |->
                      IF i = 1 THEN texts[i] ELSE h[i - 1] \o texts[i]]
    BY <1>1, <1>3, FlattenExists DEF IsFlatten
  <2>2. f = [i \in 1 .. Len(texts) |-> IF i = 1 THEN texts[i] ELSE f[i - 1] \o texts[i]]
    BY <2>1
  <2> QED BY <1>3, <2>2
<1> HIDE DEF f
<1>7. \A i \in 1 .. n : f[i] = IF i = 1 THEN texts[i] ELSE f[i - 1] \o texts[i]
  BY <1>6
<1>8. g[0] = <<>> /\ \A i \in 1 .. n : g[i] = f[i]
  BY <1>1
<1>9. \A i \in 1 .. n : g[i] = g[i - 1] \o texts[i]
  <2> SUFFICES ASSUME NEW i \in 1 .. n PROVE g[i] = g[i - 1] \o texts[i]
    OBVIOUS
  <2> HIDE DEF g, n
  <2>1. CASE i = 1
    <3>1. g[i - 1] = <<>> /\ g[i] = texts[i]
      BY <1>7, <1>8, <2>1
    <3> QED BY <1>2, <3>1, NothingJoined
  <2>2. CASE i # 1
    <3>1. i - 1 \in 1 .. n
      BY <1>1, <2>2
    <3> QED BY <1>7, <1>8, <2>2, <3>1
  <2> QED BY <2>1, <2>2
<1> HIDE DEF g
<1>10. \A i \in 0 .. n : g[i] \in Text
  <2> DEFINE T == {i \in Nat : g[i] \in Text}
  <2>1. 0 \in T
    BY <1>8, NothingJoined DEF Text
  <2>2. ASSUME NEW i \in 0 .. n, i \in T, i + 1 <= n PROVE i + 1 \in T
    <3>1. i + 1 \in 1 .. n /\ (i + 1) - 1 = i /\ g[i] \in Text
      BY <1>1, <2>2
    <3>2. g[i + 1] = g[i] \o texts[i + 1]
      BY <1>9, <3>1
    <3>3. texts[i + 1] \in Text
      BY <1>2, <3>1
    <3>4. g[i + 1] \in Text
      BY <3>1, <3>2, <3>3, JoinedIs DEF IsJoined
    <3> QED BY <3>1, <3>4
  <2> HIDE DEF T, n
  <2>3. \A i \in 0 .. n : i \in T
    BY <1>1, <2>1, <2>2, Upwards
  <2> QED BY <2>3 DEF T
<1>11. Vault!Restore(v, t) = g[n]
  <2> HIDE DEF n
  <2>1. CASE n = 0
    BY <1>3, <1>4, <1>5, <1>8, <2>1
  <2>2. CASE n # 0
    <3>1. n \in 1 .. n
      BY <1>1, <2>2
    <3> QED BY <1>3, <1>4, <1>8, <2>2, <3>1
  <2> QED BY <2>1, <2>2
<1>12. Steps(v, t, g)
  BY <1>2, <1>8, <1>9, <1>10, <1>11 DEF Steps
<1> QED BY <1>12

LEMMA RestoredIsText ==
  ASSUME NEW v, IsVault(v), NEW t \in Text PROVE Vault!Restore(v, t) \in Text
<1>1. PICK g : Steps(v, t, g)
  BY RestoreSteps
<1>2. Len(t) \in 0 .. Len(t)
  BY TextIs
<1> QED BY <1>1, <1>2 DEF Steps

LEMMA RestoreJoined ==
  ASSUME NEW v, IsVault(v), NEW s \in Text, NEW t \in Text
  PROVE  Vault!Restore(v, s \o t) = Vault!Restore(v, s) \o Vault!Restore(v, t)
<1> DEFINE u == s \o t
           n == Len(s)
           m == Len(t)
<1>1. n \in Nat /\ m \in Nat /\ \A i \in 1 .. m : t[i] \in Token
  BY TextIs
<1>2. IsJoined(s, t, u)
  BY JoinedIs
<1> HIDE DEF u
<1>3. u \in Text /\ Len(u) = n + m
  BY <1>2 DEF IsJoined
<1>4. PICK gs : Steps(v, s, gs)
  BY RestoreSteps
<1>5. PICK gt : Steps(v, t, gt)
  BY RestoreSteps
<1>6. PICK gu : Steps(v, u, gu)
  BY <1>3, RestoreSteps
<1> HIDE DEF n, m
<1>7. gu[n] = gs[n]
  <2> DEFINE T == {i \in Nat : gu[i] = gs[i]}
  <2>1. 0 \in T
    BY <1>4, <1>6 DEF Steps
  <2>2. ASSUME NEW i \in 0 .. n, i \in T, i + 1 <= n PROVE i + 1 \in T
    <3>1. i + 1 \in Nat /\ i + 1 \in 1 .. n /\ i + 1 \in 1 .. Len(u) /\ (i + 1) - 1 = i /\ gu[i] = gs[i]
      BY <1>1, <1>3, <2>2
    <3>2. u[i + 1] = s[i + 1]
      BY <1>2, <3>1 DEF IsJoined, n
    <3>3. gu[i + 1] = gu[i] \o Vault!StandsFor(v, u[i + 1])
      BY <1>6, <3>1 DEF Steps
    <3>4. gs[i + 1] = gs[i] \o Vault!StandsFor(v, s[i + 1])
      BY <1>4, <3>1 DEF Steps, n
    <3> QED BY <3>1, <3>2, <3>3, <3>4
  <2> HIDE DEF T
  <2>3. \A i \in 0 .. n : i \in T
    BY <1>1, <2>1, <2>2, Upwards
  <2>4. n \in T
    BY <1>1, <2>3
  <2> QED BY <2>4 DEF T
<1>8. gu[n + m] = gs[n] \o gt[m]
  <2> DEFINE T == {i \in Nat : gu[n + i] = gs[n] \o gt[i]}
  <2>1. gs[n] \in Text /\ \A i \in 0 .. m : gt[i] \in Text
    <3>1. n \in 0 .. n
      BY <1>1
    <3> QED BY <1>4, <1>5, <3>1 DEF Steps, n, m
  <2>2. 0 \in T
    <3>1. gt[0] = <<>> /\ n + 0 = n
      BY <1>1, <1>5 DEF Steps
    <3>2. gs[n] \o gt[0] = gs[n]
      BY <2>1, <3>1, NothingJoined
    <3> QED BY <1>7, <3>1, <3>2
  <2>3. ASSUME NEW i \in 0 .. m, i \in T, i + 1 <= m PROVE i + 1 \in T
    <3> DEFINE x == Vault!StandsFor(v, t[i + 1])
               k == n + (i + 1)
    <3>1. /\ i + 1 \in Nat /\ i + 1 \in 1 .. m /\ (i + 1) - 1 = i
          /\ k \in 1 .. Len(u) /\ k - 1 = n + i /\ gu[n + i] = gs[n] \o gt[i]
      <4>1. gu[n + i] = gs[n] \o gt[i]
        BY <2>3
      <4>2. i \in 0 .. m /\ i + 1 <= m
        BY <2>3
      <4> HIDE DEF T
      <4>3. k \in 1 .. Len(u) /\ k - 1 = n + i
        BY <1>1, <1>3, <4>2
      <4>4. i + 1 \in Nat /\ i + 1 \in 1 .. m /\ (i + 1) - 1 = i
        BY <1>1, <4>2
      <4> QED BY <4>1, <4>3, <4>4
    <3>2. u[k] = t[i + 1]
      BY <1>2, <3>1 DEF IsJoined, n, m
    <3>3. gu[k] = gu[n + i] \o x
      <4>1. gu[k] = gu[k - 1] \o Vault!StandsFor(v, u[k])
        BY <1>6, <3>1 DEF Steps
      <4> QED BY <3>1, <3>2, <4>1
    <3>4. gt[i + 1] = gt[i] \o x
      BY <1>5, <3>1 DEF Steps, m
    <3>5. x \in Text
      BY <1>1, <3>1, TokenIsText DEF m
    <3> HIDE DEF x, k
    <3>6. (gs[n] \o gt[i]) \o x = gs[n] \o (gt[i] \o x)
      BY <2>1, <3>5, JoinedTwice
    <3>7. gu[k] = gs[n] \o gt[i + 1]
      BY <3>1, <3>3, <3>4, <3>6
    <3> QED BY <3>1, <3>7 DEF k
  <2> HIDE DEF T
  <2>4. \A i \in 0 .. m : i \in T
    BY <1>1, <2>2, <2>3, Upwards
  <2>5. m \in T
    BY <1>1, <2>4
  <2> QED BY <2>5 DEF T
<1>9. Vault!Restore(v, u) = gu[n + m] /\ Vault!Restore(v, s) = gs[n] /\ Vault!Restore(v, t) = gt[m]
  BY <1>3, <1>4, <1>5, <1>6 DEF Steps, n, m
<1> QED BY <1>8, <1>9 DEF u

LEMMA RestoreOne ==
  ASSUME NEW v, IsVault(v), NEW x \in Token
  PROVE  Vault!Restore(v, <<x>>) = Vault!StandsFor(v, x)
<1> DEFINE t == <<x>>
<1>1. t \in Text /\ Len(t) = 1 /\ t[1] = x
  BY OneWordIsText
<1> HIDE DEF t
<1>2. PICK g : Steps(v, t, g)
  BY <1>1, RestoreSteps
<1>3. g[0] = <<>> /\ g[1] = g[0] \o Vault!StandsFor(v, x) /\ Vault!Restore(v, t) = g[1]
  <2>1. 1 \in 1 .. Len(t) /\ 1 - 1 = 0
    BY <1>1
  <2> QED BY <1>1, <1>2, <2>1 DEF Steps
<1>4. Vault!StandsFor(v, x) \in Text
  BY TokenIsText
<1> QED BY <1>3, <1>4, NothingJoined DEF t

(* A text of which nothing is to be put back.                                 *)
LEMMA RestoreNothing ==
  ASSUME NEW v, IsVault(v), NEW t \in Text,
         \A i \in 1 .. Len(t) : Vault!StandsFor(v, t[i]) = <<t[i]>>
  PROVE  Vault!Restore(v, t) = t
<1> DEFINE n == Len(t)
           T == {i \in Nat : Vault!Restore(v, SubSeq(t, 1, i)) = SubSeq(t, 1, i)}
<1>1. t \in Text
  OBVIOUS
<1>2. n \in Nat /\ \A i \in 1 .. n : Vault!StandsFor(v, t[i]) = <<t[i]>> /\ t[i] \in Token
  BY <1>1, TextIs
<1>3. 0 \in T
  <2>1. IsCut(t, 1, 0, SubSeq(t, 1, 0))
    BY <1>1, <1>2, CutIs
  <2>2. SubSeq(t, 1, 0) = <<>>
    <3> DEFINE u == SubSeq(t, 1, 0)
    <3>1. u \in Seq(Token) /\ Len(u) = 0
      BY <2>1 DEF IsCut, Text
    <3> HIDE DEF u
    <3>2. u = <<>>
      BY <3>1
    <3> QED BY <3>2 DEF u
  <2>3. <<>> \in Text /\ Len(<<>>) = 0
    BY DEF Text
  <2>4. Vault!Restore(v, <<>>) = <<>>
    <3>1. PICK g : Steps(v, <<>>, g)
      BY <2>3, RestoreSteps
    <3> QED BY <2>3, <3>1 DEF Steps
  <2> QED BY <2>2, <2>4
<1>4. ASSUME NEW i \in 0 .. n, i \in T, i + 1 <= n PROVE i + 1 \in T
  <2> DEFINE a == SubSeq(t, 1, i)
             b == SubSeq(t, i + 1, i + 1)
  <2>1. i \in Nat /\ i + 1 \in Nat \ {0} /\ i + 1 \in 1 .. n /\ i <= Len(t) /\ i + 1 <= Len(t) /\ Vault!Restore(v, a) = a
    BY <1>2, <1>4
  <2>2. SubSeq(t, 1, i + 1) = a \o b
    <3>1. 1 <= i + 1 /\ i <= i + 1
      BY <2>1
    <3> QED BY <1>1, <2>1, <3>1, CutAndJoined
  <2>3. IsCut(t, 1, i, a) /\ IsCut(t, i + 1, i + 1, b)
    <3>1. 1 <= i + 1 /\ i + 1 <= (i + 1) + 1
      BY <2>1
    <3>2. IsCut(t, 1, i, a)
      BY <1>1, <2>1, <3>1, CutIs
    <3>3. IsCut(t, i + 1, i + 1, b)
      BY <1>1, <2>1, <3>1, CutIs
    <3> QED BY <3>2, <3>3
  <2>4. b = <<t[i + 1]>> /\ t[i + 1] \in Token /\ Vault!StandsFor(v, t[i + 1]) = <<t[i + 1]>>
    <3>1. t[i + 1] \in Token /\ Vault!StandsFor(v, t[i + 1]) = <<t[i + 1]>>
      BY <1>2, <2>1
    <3> DEFINE c == <<t[i + 1]>>
    <3>2. c \in Text /\ Len(c) = 1 /\ c[1] = t[i + 1]
      BY <3>1, OneWordIsText
    <3> HIDE DEF b, c
    <3>3. b \in Text /\ Len(b) = 1 /\ b[1] = t[i + 1]
      <4>1. (i + 1) - (i + 1) + 1 = 1 /\ (i + 1) + 1 - 1 = i + 1 /\ 1 \in 1 .. 1
        BY <2>1
      <4>2. b \in Text /\ Len(b) = 1
        BY <2>3, <4>1 DEF IsCut
      <4>3. b[1] = t[(i + 1) + 1 - 1]
        BY <2>3, <4>1, <4>2 DEF IsCut
      <4> QED BY <4>1, <4>2, <4>3
    <3>4. b = c
      <4>1. \A j \in 1 .. 1 : b[j] = c[j]
        BY <3>2, <3>3
      <4> QED BY <3>2, <3>3, <4>1, SameText
    <3> QED BY <3>1, <3>4 DEF c
  <2> HIDE DEF a, b
  <2>5. Vault!Restore(v, b) = b
    BY <2>4, RestoreOne
  <2>6. a \in Text /\ b \in Text
    BY <2>3 DEF IsCut
  <2>7. Vault!Restore(v, a \o b) = a \o b
    <3>1. Vault!Restore(v, a \o b) = Vault!Restore(v, a) \o Vault!Restore(v, b)
      BY <2>6, RestoreJoined
    <3> QED BY <2>1, <2>5, <3>1
  <2> QED BY <2>1, <2>2, <2>7
<1>5. n \in T
  <2>1. n \in 0 .. n
    BY <1>2
  <2> HIDE DEF T, n
  <2> QED BY <1>2, <1>3, <1>4, <2>1, Upwards
<1>6. SubSeq(t, 1, n) = t
  BY <1>1 DEF Text
<1> QED BY <1>5, <1>6

LEMMA RestorePlain ==
  ASSUME NEW v, IsVault(v), NEW t \in Plain PROVE Vault!Restore(v, t) = t
<1>1. t \in Text
  BY PlainIsText
<1>2. \A i \in 1 .. Len(t) : t[i] \in Vocabulary
  BY <1>1, PlainIs
<1> QED BY <1>1, <1>2, WordIs, RestoreNothing

(* An answer that spells placeholders the vault knows otherwise.               *)
LEMMA RespeltIsRead ==
  ASSUME NEW v, IsVault(v), NEW w, IsVault(w), Extends(v, w), NEW t \in Seq(Understood(v))
  PROVE  Vault!Restore(w, Vault!Respelt(t)) = Vault!Restore(w, t)
<1> DEFINE u == Vault!Respelt(t)
<1>1. DOMAIN u = DOMAIN t /\ \A i \in DOMAIN t :
        u[i] = IF Vault!IsPlaceholder(t[i]) THEN <<t[i][1], t[i][2], "loose">> ELSE t[i]
  BY DEF Vault!Respelt
<1> HIDE DEF u
<1>2. ASSUME NEW i \in DOMAIN t
      PROVE  Vault!StandsFor(w, u[i]) = Vault!StandsFor(w, t[i])
  <2>1. t[i] \in Understood(v)
    OBVIOUS
  <2>2. t[i] \in Token
    BY <2>1, UnderstoodAreTokens
  <2>3. CASE Vault!IsPlaceholder(t[i])
    <3> DEFINE x == t[i]
               y == <<x[1], x[2], "loose">>
    <3>1. x \in Kinds \X Nat
      BY <2>2, <2>3, TokensApart
    <3>2. y \in Loose /\ y[1] = x[1] /\ y[2] = x[2] /\ x = <<x[1], x[2]>>
      BY <3>1, PairIs DEF Loose
    <3>3. y \in Token
      BY <3>2 DEF Loose, Token
    <3>4. u[i] = y
      BY <1>1, <2>3
    <3>5. x \notin Fresh
      <4>1. Len(x) = 2
        BY <3>1, PairIs
      <4> QED BY <2>2, <4>1, TokensApart, WordAssumption DEF Fresh
    <3> HIDE DEF x
    <3>6. PICK m \in v.mappings : m.placeholder = x
      BY <2>1, <3>5 DEF Understood, x
    <3>7. m \in w.mappings
      BY DEF Extends
    <3> HIDE DEF y
    <3>8. Vault!Exact(y) = m.placeholder
      BY <3>2, <3>3, <3>6, ExactIs
    <3>9. Vault!StandsFor(w, y) = m.value
      BY <3>7, <3>8, StandingFor
    <3>10. Vault!StandsFor(w, x) = m.value
      BY <3>6, <3>7, MappedIs
    <3> QED BY <3>4, <3>9, <3>10 DEF x
  <2>4. CASE ~Vault!IsPlaceholder(t[i])
    BY <1>1, <2>4
  <2> QED BY <2>3, <2>4
<1>3. [i \in DOMAIN u |-> Vault!StandsFor(w, u[i])] = [i \in DOMAIN t |-> Vault!StandsFor(w, t[i])]
  BY <1>1, <1>2
<1> QED BY <1>3 DEF Vault!Restore, u

(* Two texts that read alike to a vault and to every vault that knows more.    *)
ReadsAlike(v, s, t) ==
  \A w : IsVault(w) /\ Extends(v, w)
    => Vault!Folded(Vault!Restore(w, s)) = Vault!Folded(Vault!Restore(w, t))

LEMMA AlikeToItself == ASSUME NEW v, NEW t PROVE ReadsAlike(v, t, t)
BY DEF ReadsAlike

LEMMA AlikeLater ==
  ASSUME NEW v, NEW w, Extends(v, w), NEW s, NEW t, ReadsAlike(v, s, t)
  PROVE  ReadsAlike(w, s, t)
<1> SUFFICES ASSUME NEW z, IsVault(z), Extends(w, z)
             PROVE  Vault!Folded(Vault!Restore(z, s)) = Vault!Folded(Vault!Restore(z, t))
  BY DEF ReadsAlike
<1>1. Extends(v, z)
  BY DEF Extends
<1> QED BY <1>1 DEF ReadsAlike

LEMMA AlikeJoined ==
  ASSUME NEW v, NEW s \in Text, NEW t \in Text, ReadsAlike(v, s, t),
         NEW sb \in Text, NEW tb \in Text, ReadsAlike(v, sb, tb)
  PROVE  ReadsAlike(v, s \o sb, t \o tb)
<1> SUFFICES ASSUME NEW z, IsVault(z), Extends(v, z)
             PROVE  Vault!Folded(Vault!Restore(z, s \o sb)) = Vault!Folded(Vault!Restore(z, t \o tb))
  BY DEF ReadsAlike
<1> DEFINE a == Vault!Restore(z, s)
           b == Vault!Restore(z, sb)
           c == Vault!Restore(z, t)
           d == Vault!Restore(z, tb)
<1>1. Vault!Restore(z, s \o sb) = a \o b /\ Vault!Restore(z, t \o tb) = c \o d
  BY RestoreJoined
<1>2. a \in Text /\ b \in Text /\ c \in Text /\ d \in Text
  BY RestoredIsText
<1>3. Vault!Folded(a) = Vault!Folded(c) /\ Vault!Folded(b) = Vault!Folded(d)
  BY DEF ReadsAlike
<1> HIDE DEF a, b, c, d
<1>4. Vault!Folded(a \o b) = Vault!Folded(a) \o Vault!Folded(b)
  BY <1>2, FoldedJoined
<1>5. Vault!Folded(c \o d) = Vault!Folded(c) \o Vault!Folded(d)
  BY <1>2, FoldedJoined
<1> QED BY <1>1, <1>3, <1>4, <1>5

LEMMA AlikeReplaced ==
  ASSUME NEW v, IsVault(v), NEW m \in v.mappings, NEW value \in Value,
         Vault!Folded(m.value) = Vault!Folded(value)
  PROVE  ReadsAlike(v, <<m.placeholder>>, value)
<1> SUFFICES ASSUME NEW z, IsVault(z), Extends(v, z)
             PROVE  Vault!Folded(Vault!Restore(z, <<m.placeholder>>)) = Vault!Folded(Vault!Restore(z, value))
  BY DEF ReadsAlike
<1>1. m \in z.mappings
  BY DEF Extends
<1>2. m.placeholder \in Token
  BY UnderstoodAreTokens DEF Understood
<1>3. Vault!Restore(z, <<m.placeholder>>) = m.value
  BY <1>1, <1>2, RestoreOne, MappedIs
<1>4. Vault!Restore(z, value) = value
  BY PlainIsText, RestorePlain
<1> QED BY <1>3, <1>4

(* Where a value stands, from some place on.                                  *)
From(f, text, value, i) ==
  IF i > Len(text) THEN {}
  ELSE IF Vault!MatchesAt(text, value, i)
         THEN {<<i, i + Len(value) - 1>>} \cup f[i + Len(value)]
         ELSE f[i + 1]

AreFrom(f, text, value, p) == f = [i \in p .. Len(text) + 1 |-> From(f, text, value, i)]

LEMMA FromExists ==
  ASSUME NEW text, Len(text) \in Nat, NEW value, Len(value) \in Nat \ {0}
  PROVE  \E f : AreFrom(f, text, value, 1)
<1> DEFINE n == Len(text)
           l == Len(value)
           T == {k \in Nat : \E f : AreFrom(f, text, value, n + 1 - k)}
<1> HIDE DEF n, l
<1>1. n \in Nat /\ l \in Nat \ {0}
  BY DEF n, l
<1>2. 0 \in T
  <2> DEFINE f == [i \in n + 1 .. n + 1 |-> {}]
  <2>1. \A i \in n + 1 .. n + 1 : From(f, text, value, i) = {}
    BY <1>1 DEF From, n
  <2>2. f = [i \in n + 1 .. n + 1 |-> From(f, text, value, i)]
    BY <2>1
  <2> HIDE DEF f
  <2>3. AreFrom(f, text, value, n + 1 - 0)
    BY <1>1, <2>2 DEF AreFrom, n
  <2> QED BY <2>3
<1>3. ASSUME NEW k \in 0 .. n, k \in T, k + 1 <= n PROVE k + 1 \in T
  <2> DEFINE p == n + 1 - k
             q == n + 1 - (k + 1)
  <2>1. p \in Nat /\ q \in Nat /\ p = q + 1 /\ 1 <= q /\ q <= n
    BY <1>1, <1>3
  <2>2. PICK f : AreFrom(f, text, value, p)
    BY <1>3
  <2> DEFINE more == [i \in q .. n + 1 |-> IF i = q THEN From(f, text, value, q) ELSE f[i]]
  <2> HIDE DEF p, q
  <2>3. \A i \in p .. n + 1 : i \in q .. n + 1 /\ more[i] = f[i]
    BY <1>1, <2>1
  <2>4. more[q] = From(f, text, value, q) /\ more = [i \in q .. n + 1 |-> more[i]]
    BY <1>1, <2>1
  <2> HIDE DEF more
  <2>5. ASSUME NEW i \in q .. n PROVE From(more, text, value, i) = From(f, text, value, i)
    <3>1. i + 1 \in p .. n + 1
      BY <1>1, <2>1
    <3>2. Vault!MatchesAt(text, value, i) => i + l \in p .. n + 1
      <4>1. Vault!MatchesAt(text, value, i) => i + l - 1 <= n
        BY DEF Vault!MatchesAt, n, l
      <4> QED BY <1>1, <2>1, <4>1
    <3> QED BY <2>3, <3>1, <3>2 DEF From, l
  <2>6. ASSUME NEW i \in q .. n + 1 PROVE more[i] = From(more, text, value, i)
    <3>1. CASE i = q
      <4>1. i \in q .. n
        BY <1>1, <2>1, <3>1
      <4> QED BY <2>4, <2>5, <3>1, <4>1
    <3>2. CASE i # q /\ i # n + 1
      <4>1. i \in q .. n /\ i \in p .. n + 1
        BY <1>1, <2>1, <3>2
      <4>2. f[i] = From(f, text, value, i)
        BY <2>2, <4>1 DEF AreFrom, n
      <4> QED BY <2>3, <2>5, <4>1, <4>2
    <3>3. CASE i = n + 1
      <4>1. i \in p .. n + 1 /\ i > n
        BY <1>1, <2>1, <3>3
      <4>2. f[i] = From(f, text, value, i)
        BY <2>2, <4>1 DEF AreFrom, n
      <4>3. From(f, text, value, i) = {} /\ From(more, text, value, i) = {}
        BY <4>1 DEF From, n
      <4> QED BY <2>3, <4>1, <4>2, <4>3
    <3> QED BY <3>1, <3>2, <3>3
  <2>7. AreFrom(more, text, value, q)
    BY <2>4, <2>6 DEF AreFrom, n
  <2> QED BY <1>1, <2>7 DEF q
<1>4. n \in T
  <2>1. n \in 0 .. n
    BY <1>1
  <2> HIDE DEF T
  <2> QED BY <1>1, <1>2, <1>3, <2>1, Upwards
<1>5. PICK f : AreFrom(f, text, value, n + 1 - n)
  BY <1>4
<1>6. n + 1 - n = 1
  BY <1>1
<1> QED BY <1>5, <1>6

LEMMA SpansAreFrom ==
  ASSUME NEW text, Len(text) \in Nat, NEW value, Len(value) \in Nat \ {0}
  PROVE  \E f : /\ \A i \in 1 .. Len(text) + 1 : f[i] = From(f, text, value, i)
                /\ Vault!Spans(text, value) = f[1]
<1> DEFINE f == CHOOSE g : AreFrom(g, text, value, 1)
<1>1. AreFrom(f, text, value, 1)
  BY FromExists
<1>2. Vault!Spans(text, value) = f[1]
  BY DEF Vault!Spans, AreFrom, From
<1> HIDE DEF f
<1>3. \A i \in 1 .. Len(text) + 1 : f[i] = From(f, text, value, i)
  BY <1>1 DEF AreFrom
<1> QED BY <1>2, <1>3

(* A span is a place that matches, and one is missed only when none matches.  *)
IsSpan(n, s) ==
  /\ s = <<s[1], s[2]>> /\ s[1] \in 1 .. n /\ s[2] \in 1 .. n /\ s[1] <= s[2]

SpansFound(spans, text, value) ==
  /\ \A s \in spans : /\ IsSpan(Len(text), s)
                      /\ Vault!MatchesAt(text, value, s[1]) /\ s[2] = s[1] + Len(value) - 1
  /\ spans = {} => \A i \in 1 .. Len(text) : ~Vault!MatchesAt(text, value, i)

LEMMA SpansAreFound ==
  ASSUME NEW text, Len(text) \in Nat, NEW value, Len(value) \in Nat \ {0}
  PROVE  SpansFound(Vault!Spans(text, value), text, value)
<1> DEFINE n == Len(text)
           l == Len(value)
<1>1. PICK f : /\ \A i \in 1 .. Len(text) + 1 : f[i] = From(f, text, value, i)
               /\ Vault!Spans(text, value) = f[1]
  BY SpansAreFrom
<1> HIDE DEF n, l
<1>2. n \in Nat /\ l \in Nat \ {0}
  BY DEF n, l
<1> DEFINE Ok(s) == /\ IsSpan(n, s)
                    /\ Vault!MatchesAt(text, value, s[1]) /\ s[2] = s[1] + l - 1
           Right(i) == /\ \A s \in f[i] : Ok(s)
                       /\ f[i] = {} => \A j \in i .. n : ~Vault!MatchesAt(text, value, j)
           T == {k \in Nat : \A i \in n + 1 - k .. n + 1 : Right(i)}
<1>3. 0 \in T
  <2>1. n + 1 \in 1 .. n + 1 /\ n + 1 > n
    BY <1>2
  <2>2. f[n + 1] = {}
    BY <1>1, <2>1 DEF From, n
  <2>3. \A j \in n + 1 .. n : FALSE
    BY <1>2
  <2>4. Right(n + 1)
    <3> HIDE DEF Ok
    <3> QED BY <2>2, <2>3
  <2> HIDE DEF Right
  <2>5. \A i \in n + 1 - 0 .. n + 1 : i = n + 1
    BY <1>2
  <2> QED BY <2>4, <2>5
<1>4. ASSUME NEW k \in 0 .. n, k \in T, k + 1 <= n PROVE k + 1 \in T
  <2> DEFINE q == n + 1 - (k + 1)
  <2>1. q \in Nat /\ 1 <= q /\ q <= n /\ n + 1 - k = q + 1
    BY <1>2, <1>4
  <2>2. \A i \in q + 1 .. n + 1 : Right(i)
    <3>1. \A i \in n + 1 - k .. n + 1 : Right(i)
      BY <1>4
    <3> HIDE DEF Right
    <3> QED BY <2>1, <3>1
  <2> HIDE DEF q, T
  <2>3. q \in 1 .. n + 1 /\ ~(q > n)
    BY <1>2, <2>1
  <2>4. f[q] = IF Vault!MatchesAt(text, value, q) THEN {<<q, q + l - 1>>} \cup f[q + l] ELSE f[q + 1]
    BY <1>1, <2>3 DEF From, n, l
  <2>5. Right(q)
    <3>1. CASE Vault!MatchesAt(text, value, q)
      <4>1. q + l - 1 <= n
        BY <3>1 DEF Vault!MatchesAt, n, l
      <4>2. q + l \in q + 1 .. n + 1
        BY <1>2, <2>1, <4>1
      <4>3. Right(q + l)
        <5> HIDE DEF Right
        <5> QED BY <2>2, <4>2
      <4> DEFINE s == <<q, q + l - 1>>
      <4>4. Ok(s)
        <5>1. s[1] = q /\ s[2] = q + l - 1 /\ s = <<s[1], s[2]>>
          OBVIOUS
        <5> HIDE DEF s
        <5>2. s[1] \in 1 .. n /\ s[2] \in 1 .. n /\ s[1] <= s[2]
          BY <1>2, <2>1, <4>1, <5>1
        <5>3. IsSpan(n, s)
          BY <5>1, <5>2 DEF IsSpan
        <5> QED BY <3>1, <5>1, <5>3
      <4>5. f[q] = {s} \cup f[q + l]
        BY <2>4, <3>1
      <4> HIDE DEF Ok, s
      <4> QED BY <4>3, <4>4, <4>5
    <3>2. CASE ~Vault!MatchesAt(text, value, q)
      <4>1. q + 1 \in q + 1 .. n + 1 /\ f[q] = f[q + 1]
        BY <1>2, <2>1, <2>4, <3>2
      <4>2. Right(q + 1)
        <5> HIDE DEF Right
        <5> QED BY <2>2, <4>1
      <4>3. \A j \in q .. n : j = q \/ j \in q + 1 .. n
        BY <1>2, <2>1
      <4> HIDE DEF Ok
      <4> QED BY <3>2, <4>1, <4>2, <4>3
    <3> QED BY <3>1, <3>2
  <2> HIDE DEF Right
  <2>6. \A i \in q .. n + 1 : i = q \/ i \in q + 1 .. n + 1
    BY <1>2, <2>1
  <2>7. \A i \in n + 1 - (k + 1) .. n + 1 : Right(i)
    BY <2>2, <2>5, <2>6 DEF q
  <2>8. k + 1 \in Nat
    OBVIOUS
  <2> QED BY <2>7, <2>8 DEF T
<1>5. n \in T
  <2>1. n \in 0 .. n
    BY <1>2
  <2> HIDE DEF T
  <2> QED BY <1>2, <1>3, <1>4, <2>1, Upwards
<1>6. Right(1)
  <2> HIDE DEF Right
  <2>1. n + 1 - n = 1 /\ 1 \in 1 .. n + 1
    BY <1>2
  <2> QED BY <1>5, <2>1
<1> QED BY <1>1, <1>6 DEF SpansFound, n, l

(* Declaring one value after the other.                                       *)
AreAfter(f, v, values, kind, n) ==
  f = [i \in 0 .. n |-> IF i = 0 THEN v ELSE Vault!Declare(f[i - 1], values[i], kind)]

LEMMA AfterExists ==
  ASSUME NEW v, NEW values, NEW kind, NEW n \in Nat
  PROVE  \E f : AreAfter(f, v, values, kind, n)
<1> DEFINE T == {k \in Nat : \E f : AreAfter(f, v, values, kind, k)}
<1>1. 0 \in T
  <2>1. AreAfter([i \in 0 .. 0 |-> v], v, values, kind, 0)
    BY DEF AreAfter
  <2> QED BY <2>1
<1>2. ASSUME NEW k \in 0 .. n, k \in T PROVE k + 1 \in T
  <2>1. PICK f : AreAfter(f, v, values, kind, k)
    BY <1>2
  <2> DEFINE more == [i \in 0 .. k + 1 |->
                        IF i = k + 1 THEN Vault!Declare(f[k], values[k + 1], kind) ELSE f[i]]
  <2>2. \A i \in 0 .. k + 1 :
          more[i] = IF i = 0 THEN v ELSE Vault!Declare(more[i - 1], values[i], kind)
    <3> SUFFICES ASSUME NEW i \in 0 .. k + 1
                 PROVE  more[i] = IF i = 0 THEN v ELSE Vault!Declare(more[i - 1], values[i], kind)
      OBVIOUS
    <3>1. CASE i = k + 1
      <4>1. more[i] = Vault!Declare(f[k], values[k + 1], kind) /\ more[i - 1] = f[k] /\ i # 0
        BY <3>1
      <4> HIDE DEF more
      <4> QED BY <3>1, <4>1
    <3>2. CASE i # k + 1
      <4>1. i \in 0 .. k /\ (i # 0 => i - 1 \in 0 .. k)
        BY <3>2
      <4>2. f[i] = IF i = 0 THEN v ELSE Vault!Declare(f[i - 1], values[i], kind)
        BY <2>1, <4>1 DEF AreAfter
      <4>3. more[i] = f[i] /\ (i # 0 => more[i - 1] = f[i - 1])
        BY <4>1
      <4> HIDE DEF more
      <4> QED BY <4>2, <4>3
    <3> QED BY <3>1, <3>2
  <2>3. more = [i \in 0 .. k + 1 |-> more[i]]
    OBVIOUS
  <2>4. AreAfter(more, v, values, kind, k + 1)
    <3> HIDE DEF more
    <3> QED BY <2>2, <2>3 DEF AreAfter
  <2> QED BY <2>4
<1>3. n \in T
  <2>1. n \in 0 .. n
    OBVIOUS
  <2> HIDE DEF T
  <2> QED BY <1>1, <1>2, <2>1, Upwards
<1> QED BY <1>3

LEMMA DeclareAllKeeps ==
  ASSUME NEW v, IsVault(v), NEW values \in Seq(Value), NEW kind \in Kinds
  PROVE  LET w == Vault!DeclareAll(v, values, kind) IN IsVault(w) /\ Extends(v, w)
<1> DEFINE n == Len(values)
           f == CHOOSE g : AreAfter(g, v, values, kind, n)
           T == {i \in Nat : IsVault(f[i]) /\ Extends(v, f[i])}
<1>1. n \in Nat /\ \A i \in 1 .. n : values[i] \in Value
  OBVIOUS
<1>2. AreAfter(f, v, values, kind, n)
  BY <1>1, AfterExists
<1>3. Vault!DeclareAll(v, values, kind) = f[n]
  BY DEF Vault!DeclareAll, AreAfter
<1> HIDE DEF f, n
<1>4. f[0] = v /\ \A i \in 1 .. n : f[i] = Vault!Declare(f[i - 1], values[i], kind)
  BY <1>1, <1>2 DEF AreAfter
<1>5. 0 \in T
  BY <1>4 DEF Extends
<1>6. ASSUME NEW i \in 0 .. n, i \in T, i + 1 <= n PROVE i + 1 \in T
  <2>1. i + 1 \in 1 .. n /\ (i + 1) - 1 = i /\ i + 1 \in Nat /\ IsVault(f[i]) /\ Extends(v, f[i])
    BY <1>1, <1>6
  <2>2. f[i + 1] = Vault!Declare(f[i], values[i + 1], kind) /\ values[i + 1] \in Value
    BY <1>1, <1>4, <2>1
  <2>3. Declares(f[i], values[i + 1], f[i + 1])
    BY <2>1, <2>2, DeclareDeclares
  <2>4. IsVault(f[i + 1]) /\ Extends(v, f[i + 1])
    BY <2>1, <2>3 DEF Declares, Extends
  <2> QED BY <2>1, <2>4
<1>7. n \in T
  <2>1. n \in 0 .. n
    BY <1>1
  <2> HIDE DEF T
  <2> QED BY <1>1, <1>5, <1>6, <2>1, Upwards
<1> QED BY <1>3, <1>7

(* What is found in a text.                                                   *)
LEMMA PatternsAreSpans ==
  ASSUME NEW text \in Text, NEW s \in Vault!PatternSpans(text)
  PROVE  IsSpan(Len(text), s) /\ SubSeq(text, s[1], s[2]) \in Value
<1>1. PICK find \in Structured : s \in Vault!Spans(text, find)
  BY DEF Vault!PatternSpans
<1>2. find \in Value /\ Len(find) \in Nat \ {0}
  <2>1. find \in Value
    BY WordAssumption
  <2> QED BY <2>1 DEF Value
<1>3. Len(text) \in Nat
  BY TextIs
<1>4. SpansFound(Vault!Spans(text, find), text, find)
  BY <1>2, <1>3, SpansAreFound
<1>5. IsSpan(Len(text), s) /\ Vault!MatchesAt(text, find, s[1]) /\ s[2] = s[1] + Len(find) - 1
  BY <1>1, <1>4 DEF SpansFound
<1>6. SubSeq(text, s[1], s[2]) = find
  BY <1>5 DEF Vault!MatchesAt
<1> QED BY <1>2, <1>5, <1>6

LEMMA DeclaredAreSpans ==
  ASSUME NEW v, IsVault(v), NEW text \in Text, NEW s \in Vault!DeclaredSpans(v, text)
  PROVE  IsSpan(Len(text), s) /\ SubSeq(text, s[1], s[2]) \in Value
<1>1. PICK m \in v.mappings : s \in Vault!LiteralSpans(text, m.value)
  BY DEF Vault!DeclaredSpans
<1> DEFINE ft == Vault!Folded(text)
           fv == Vault!Folded(m.value)
<1>2. m.value \in Value /\ m.value \in Text /\ Len(m.value) \in Nat \ {0}
  <2>1. m.value \in Value
    BY DEF IsVault, Mapping
  <2> QED BY <2>1, PlainIsText DEF Value
<1>3. IsFolded(text, ft) /\ IsFolded(m.value, fv)
  BY <1>2, FoldedIs
<1>4. s \in Vault!Spans(ft, fv)
  BY <1>1 DEF Vault!LiteralSpans
<1> HIDE DEF ft, fv
<1>5. Len(ft) \in Nat /\ Len(ft) = Len(text) /\ Len(fv) \in Nat \ {0}
  BY <1>2, <1>3, TextIs DEF IsFolded
<1>6. SpansFound(Vault!Spans(ft, fv), ft, fv)
  BY <1>5, SpansAreFound
<1>7. IsSpan(Len(text), s) /\ Vault!MatchesAt(ft, fv, s[1]) /\ s[2] = s[1] + Len(fv) - 1
  BY <1>4, <1>5, <1>6 DEF SpansFound
<1> DEFINE x == SubSeq(text, s[1], s[2])
<1>8. /\ s[1] \in Nat \ {0} /\ s[2] \in Nat /\ s[1] <= s[2] + 1 /\ s[2] <= Len(text)
      /\ s[1] <= s[2]
  <2>1. Len(text) \in Nat
    BY TextIs
  <2> QED BY <1>7, <2>1 DEF IsSpan
<1>9. IsCut(text, s[1], s[2], x)
  BY <1>8, CutIs
<1>10. Vault!Folded(x) = fv
  <2>1. Vault!Folded(x) = SubSeq(ft, s[1], s[2])
    BY <1>8, FoldedCut DEF ft
  <2> QED BY <1>7, <2>1 DEF Vault!MatchesAt
<1> HIDE DEF x
<1>11. x \in Text /\ Len(x) # 0
  BY <1>8, <1>9 DEF IsCut
<1>12. IsFolded(x, fv)
  BY <1>10, <1>11, FoldedIs
<1>13. fv \in Plain
  BY <1>2, <1>3, PlainIsText DEF IsFolded
<1>14. \A i \in 1 .. Len(x) : x[i] \in Vocabulary
  <2> SUFFICES ASSUME NEW i \in 1 .. Len(x) PROVE x[i] \in Vocabulary
    OBVIOUS
  <2>1. fv[i] \in Vocabulary
    BY <1>12, <1>13, PlainIs DEF IsFolded
  <2>2. fv[i] = FoldedOf(x[i])
    BY <1>12 DEF IsFolded
  <2> QED BY <2>1, <2>2 DEF FoldedOf
<1>15. x \in Plain
  BY <1>11, <1>14, PlainIs
<1>16. x # <<>>
  BY <1>11
<1>17. x \in Value
  BY <1>15, <1>16 DEF Plain, Value
<1> QED BY <1>7, <1>17 DEF x

LEMMA SetAsList ==
  ASSUME NEW S, IsFiniteSet(S)
  PROVE  Vault!SetToSeq(S) \in Seq(S)
<1> DEFINE n == Cardinality(S)
           f == Vault!SetToSeq(S)
<1>1. n \in Nat /\ Vault!Cardinality(S) = n
  <2>1. Vault!Cardinality(S) = Cardinality(S)
    BY DEF Vault!Cardinality, Cardinality
  <2> QED BY <2>1, FS_CardinalityType
<1>2. PICK g : g \in Bijection(1 .. n, S)
  BY FS_CardinalityType DEF ExistsBijection
<1>3. g \in [1 .. n -> S] /\ Vault!IsInjective(g)
  <2> HIDE DEF n
  <2>1. g \in [1 .. n -> S] /\ \A a, b \in 1 .. n : g[a] = g[b] => a = b
    BY <1>2, Zenon DEF Bijection, Injection, IsInjective
  <2> QED BY <2>1 DEF Vault!IsInjective
<1>4. f \in [1 .. n -> S]
  <2>1. f = CHOOSE h \in [1 .. n -> S] : Vault!IsInjective(h)
    BY <1>1 DEF Vault!SetToSeq
  <2> HIDE DEF f, n
  <2> QED BY <1>3, <2>1
<1> HIDE DEF f, n
<1>5. f \in Seq(S)
  BY <1>1, <1>4
<1> QED BY <1>5 DEF f

LEMMA LearnKeeps ==
  ASSUME NEW v, IsVault(v), NEW text \in Text
  PROVE  LET w == Vault!LearnFrom(v, text) IN IsVault(w) /\ Extends(v, w)
<1> DEFINE S == Vault!PatternSpans(text)
           found == Vault!SetToSeq(S)
           values == [i \in DOMAIN found |-> SubSeq(text, found[i][1], found[i][2])]
           n == Len(text)
<1>1. \A s \in S : IsSpan(n, s) /\ SubSeq(text, s[1], s[2]) \in Value
  BY PatternsAreSpans
<1>2. n \in Nat
  BY TextIs
<1>3. Vault!LearnFrom(v, text) = Vault!DeclareAll(v, values, "KEY")
  BY DEF Vault!LearnFrom
<1> HIDE DEF S, n
<1>4. IsFiniteSet(S)
  <2>1. IsFiniteSet(1 .. n)
    BY <1>2, FS_Interval
  <2>2. IsFiniteSet((1 .. n) \X (1 .. n))
    BY <2>1, FS_Product
  <2>3. S \subseteq (1 .. n) \X (1 .. n)
    BY <1>1 DEF IsSpan
  <2> QED BY <2>2, <2>3, FS_Subset
<1>5. found \in Seq(S)
  BY <1>4, SetAsList
<1> HIDE DEF found
<1>6. values \in Seq(Value)
  <2>1. DOMAIN found = 1 .. Len(found) /\ Len(found) \in Nat /\ \A i \in 1 .. Len(found) : found[i] \in S
    BY <1>5
  <2>2. values \in [1 .. Len(found) -> Value]
    BY <1>1, <2>1
  <2> QED BY <2>1, <2>2
<1> HIDE DEF values
<1>7. "KEY" \in Kinds
  BY DEF Kinds
<1> QED BY <1>3, <1>6, <1>7, DeclareAllKeeps

(* What is kept of the spans that begin up to a place.                        *)
KeptWith(before, spans, i) ==
  before \cup {s \in spans : /\ s[1] = i
                             /\ \A t \in spans : t[1] = i => t[2] <= s[2]
                             /\ \A k \in before : ~Vault!Overlap(s, k)}

AreResolved(f, spans, n) ==
  f = [i \in 0 .. n |-> IF i = 0 THEN {} ELSE KeptWith(f[i - 1], spans, i)]

LEMMA ResolvedExist ==
  ASSUME NEW spans, NEW n \in Nat PROVE \E f : AreResolved(f, spans, n)
<1> DEFINE T == {k \in Nat : \E f : AreResolved(f, spans, k)}
<1>1. 0 \in T
  <2>1. AreResolved([i \in 0 .. 0 |-> {}], spans, 0)
    BY DEF AreResolved
  <2> QED BY <2>1
<1>2. ASSUME NEW k \in 0 .. n, k \in T PROVE k + 1 \in T
  <2>1. PICK f : AreResolved(f, spans, k)
    BY <1>2
  <2> DEFINE next == KeptWith(f[k], spans, k + 1)
             more == [i \in 0 .. k + 1 |-> IF i = k + 1 THEN next ELSE f[i]]
  <2>2. \A i \in 0 .. k + 1 : more[i] = IF i = 0 THEN {} ELSE KeptWith(more[i - 1], spans, i)
    <3> SUFFICES ASSUME NEW i \in 0 .. k + 1
                 PROVE  more[i] = IF i = 0 THEN {} ELSE KeptWith(more[i - 1], spans, i)
      OBVIOUS
    <3>1. CASE i = k + 1
      <4>1. more[i] = next /\ more[i - 1] = f[k] /\ i # 0
        BY <3>1
      <4> HIDE DEF more
      <4> QED BY <3>1, <4>1
    <3>2. CASE i # k + 1
      <4>1. i \in 0 .. k /\ (i # 0 => i - 1 \in 0 .. k)
        BY <3>2
      <4>2. f[i] = IF i = 0 THEN {} ELSE KeptWith(f[i - 1], spans, i)
        BY <2>1, <4>1 DEF AreResolved
      <4>3. more[i] = f[i] /\ (i # 0 => more[i - 1] = f[i - 1])
        BY <4>1
      <4> HIDE DEF more
      <4> QED BY <4>2, <4>3
    <3> QED BY <3>1, <3>2
  <2>3. more = [i \in 0 .. k + 1 |-> more[i]]
    OBVIOUS
  <2>4. AreResolved(more, spans, k + 1)
    <3> HIDE DEF more
    <3> QED BY <2>2, <2>3 DEF AreResolved
  <2> QED BY <2>4
<1>3. n \in T
  <2>1. n \in 0 .. n
    OBVIOUS
  <2> HIDE DEF T
  <2> QED BY <1>1, <1>2, <2>1, Upwards
<1> QED BY <1>3

(* No two of the spans that are kept have a place in common.                  *)
KeptApart(kept, n) ==
  /\ \A s \in kept : IsSpan(n, s)
  /\ \A s, t \in kept : s # t => ~Vault!Overlap(s, t)

LEMMA OverlapIsMutual ==
  ASSUME NEW s, NEW t PROVE Vault!Overlap(s, t) <=> Vault!Overlap(t, s)
BY DEF Vault!Overlap

LEMMA ResolvedAreApart ==
  ASSUME NEW n \in Nat, NEW spans, \A s \in spans : IsSpan(n, s)
  PROVE  /\ KeptApart(Vault!ResolveOverlaps(spans, n), n)
         /\ Vault!ResolveOverlaps(spans, n) \subseteq spans
<1> DEFINE f == CHOOSE g : AreResolved(g, spans, n)
           T == {i \in Nat : KeptApart(f[i], n) /\ f[i] \subseteq spans}
<1>1. AreResolved(f, spans, n)
  BY ResolvedExist
<1>2. Vault!ResolveOverlaps(spans, n) = f[n]
  BY Zenon DEF Vault!ResolveOverlaps, AreResolved, KeptWith
<1> HIDE DEF f
<1>3. f[0] = {} /\ \A i \in 1 .. n : f[i] = KeptWith(f[i - 1], spans, i)
  <2>1. ASSUME NEW i \in 0 .. n
        PROVE  f[i] = IF i = 0 THEN {} ELSE KeptWith(f[i - 1], spans, i)
    BY <1>1 DEF AreResolved
  <2>2. 0 \in 0 .. n /\ \A i \in 1 .. n : i \in 0 .. n /\ i # 0
    OBVIOUS
  <2> QED BY <2>1, <2>2
<1>4. 0 \in T
  BY <1>3 DEF KeptApart
<1>5. ASSUME NEW i \in 0 .. n, i \in T, i + 1 <= n PROVE i + 1 \in T
  <2>1. i + 1 \in 1 .. n /\ (i + 1) - 1 = i /\ i + 1 \in Nat /\ KeptApart(f[i], n) /\ f[i] \subseteq spans
    BY <1>5
  <2> DEFINE new == {s \in spans : /\ s[1] = i + 1
                                   /\ \A t \in spans : t[1] = i + 1 => t[2] <= s[2]
                                   /\ \A k \in f[i] : ~Vault!Overlap(s, k)}
  <2>2. f[i + 1] = f[i] \cup new
    BY <1>3, <2>1 DEF KeptWith
  <2>3. ASSUME NEW s \in new, NEW t \in new PROVE s = t
    <3>1. IsSpan(n, s) /\ IsSpan(n, t) /\ s[1] = t[1] /\ s[2] <= t[2] /\ t[2] <= s[2]
      OBVIOUS
    <3>2. s[2] = t[2]
      BY <3>1 DEF IsSpan
    <3> QED BY <3>1, <3>2 DEF IsSpan
  <2>4. \A s \in new : s \in spans /\ IsSpan(n, s) /\ \A k \in f[i] : ~Vault!Overlap(s, k)
    OBVIOUS
  <2> HIDE DEF new
  <2>5. ASSUME NEW s \in f[i + 1], NEW t \in f[i + 1], s # t PROVE ~Vault!Overlap(s, t)
    BY <2>1, <2>2, <2>3, <2>4, <2>5, OverlapIsMutual DEF KeptApart
  <2>6. KeptApart(f[i + 1], n)
    BY <2>1, <2>2, <2>4, <2>5 DEF KeptApart
  <2>7. f[i + 1] \subseteq spans
    BY <2>1, <2>2, <2>4
  <2> QED BY <2>1, <2>6, <2>7
<1>6. n \in T
  <2>1. n \in 0 .. n
    OBVIOUS
  <2> HIDE DEF T
  <2> QED BY <1>4, <1>5, <2>1, Upwards
<1> QED BY <1>2, <1>6

LEMMA SpansToReplaceAreApart ==
  ASSUME NEW v, IsVault(v), NEW text \in Text
  PROVE  /\ KeptApart(Vault!SpansToReplace(v, text), Len(text))
         /\ \A s \in Vault!SpansToReplace(v, text) : SubSeq(text, s[1], s[2]) \in Value
<1> DEFINE spans == Vault!DeclaredSpans(v, text) \cup Vault!PatternSpans(text)
<1>1. \A s \in spans : IsSpan(Len(text), s) /\ SubSeq(text, s[1], s[2]) \in Value
  BY DeclaredAreSpans, PatternsAreSpans
<1>2. Vault!SpansToReplace(v, text) = Vault!ResolveOverlaps(spans, Len(text))
  BY DEF Vault!SpansToReplace
<1>3. Len(text) \in Nat
  BY TextIs
<1> HIDE DEF spans
<1>4. /\ KeptApart(Vault!ResolveOverlaps(spans, Len(text)), Len(text))
      /\ Vault!ResolveOverlaps(spans, Len(text)) \subseteq spans
  BY <1>1, <1>3, ResolvedAreApart
<1> QED BY <1>1, <1>2, <1>4

(* Parts of parts of a text.                                                  *)
LEMMA CutOfCut ==
  ASSUME NEW s \in Text, NEW e \in Nat, e <= Len(s),
         NEW a \in Nat \ {0}, NEW b \in Nat, a <= b + 1, b <= e
  PROVE  SubSeq(SubSeq(s, 1, e), a, b) = SubSeq(s, a, b)
<1> DEFINE w == SubSeq(s, 1, e)
           x == SubSeq(w, a, b)
           y == SubSeq(s, a, b)
<1>1. Len(s) \in Nat /\ b <= Len(s) /\ 1 <= e + 1
  BY TextIs
<1>2. IsCut(s, 1, e, w)
  BY <1>1, CutIs
<1>3. IsCut(s, a, b, y)
  BY <1>1, CutIs
<1>4. w \in Text /\ Len(w) = e
  BY <1>2 DEF IsCut
<1> HIDE DEF w
<1>5. IsCut(w, a, b, x)
  BY <1>4, CutIs
<1> HIDE DEF x, y
<1>6. x \in Text /\ y \in Text /\ Len(x) = Len(y)
  BY <1>3, <1>5 DEF IsCut
<1>7. ASSUME NEW i \in 1 .. Len(x) PROVE x[i] = y[i]
  <2>1. x[i] = w[a + i - 1] /\ a + i - 1 \in 1 .. Len(w)
    BY <1>5 DEF IsCut
  <2>2. w[a + i - 1] = s[1 + (a + i - 1) - 1]
    BY <1>2, <2>1 DEF IsCut
  <2>3. 1 + (a + i - 1) - 1 = a + i - 1
    OBVIOUS
  <2>4. y[i] = s[a + i - 1]
    BY <1>3, <1>6 DEF IsCut
  <2> QED BY <2>1, <2>2, <2>3, <2>4
<1>8. x = y
  BY <1>6, <1>7, SameText
<1> QED BY <1>8 DEF w, x, y

LEMMA CutOfJoined ==
  ASSUME NEW s \in Text, NEW t \in Text,
         NEW a \in Nat \ {0}, NEW b \in Nat, a <= b + 1, b <= Len(s)
  PROVE  SubSeq(s \o t, a, b) = SubSeq(s, a, b)
<1> DEFINE u == s \o t
           x == SubSeq(u, a, b)
           y == SubSeq(s, a, b)
<1>1. IsJoined(s, t, u) /\ Len(s) \in Nat /\ Len(t) \in Nat
  BY JoinedIs, TextIs
<1> HIDE DEF u
<1>2. u \in Text /\ b <= Len(u)
  BY <1>1 DEF IsJoined
<1>3. IsCut(u, a, b, x)
  BY <1>2, CutIs
<1>4. IsCut(s, a, b, y)
  BY CutIs
<1> HIDE DEF x, y
<1>5. x \in Text /\ y \in Text /\ Len(x) = Len(y)
  BY <1>3, <1>4 DEF IsCut
<1>6. ASSUME NEW i \in 1 .. Len(x) PROVE x[i] = y[i]
  <2>1. y[i] = s[a + i - 1] /\ a + i - 1 \in 1 .. Len(s)
    BY <1>4, <1>5 DEF IsCut
  <2>2. x[i] = u[a + i - 1]
    BY <1>3 DEF IsCut
  <2>3. u[a + i - 1] = s[a + i - 1]
    BY <1>1, <2>1 DEF IsJoined
  <2> QED BY <2>1, <2>2, <2>3
<1>7. x = y
  BY <1>5, <1>6, SameText
<1> QED BY <1>7 DEF x, y, u

LEMMA CutBehind ==
  ASSUME NEW s \in Text, NEW t \in Text
  PROVE  SubSeq(s \o t, Len(s) + 1, Len(s \o t)) = t
<1> DEFINE u == s \o t
           x == SubSeq(u, Len(s) + 1, Len(u))
<1>1. IsJoined(s, t, u) /\ Len(s) \in Nat /\ Len(t) \in Nat
  BY JoinedIs, TextIs
<1> HIDE DEF u
<1>2. u \in Text /\ Len(u) = Len(s) + Len(t)
  BY <1>1 DEF IsJoined
<1>3. Len(u) \in Nat /\ Len(s) + 1 \in Nat \ {0} /\ Len(s) + 1 <= Len(u) + 1 /\ Len(u) <= Len(u)
  BY <1>1, <1>2
<1>4. IsCut(u, Len(s) + 1, Len(u), x)
  BY <1>2, <1>3, CutIs
<1> HIDE DEF x
<1>5. x \in Text /\ Len(x) = Len(t)
  BY <1>1, <1>2, <1>4 DEF IsCut
<1>6. ASSUME NEW i \in 1 .. Len(x) PROVE x[i] = t[i]
  <2>1. x[i] = u[(Len(s) + 1) + i - 1]
    BY <1>4 DEF IsCut
  <2>2. (Len(s) + 1) + i - 1 = Len(s) + i
    BY <1>1
  <2>3. u[Len(s) + i] = t[i]
    BY <1>1, <1>5 DEF IsJoined
  <2> QED BY <2>1, <2>2, <2>3
<1>7. x = t
  BY <1>5, <1>6, SameText
<1> QED BY <1>7 DEF x, u

(* The replacing goes from the last place to the first.                       *)
ReplacedFrom(f, v, text, kept, i) ==
  IF i > Len(text) THEN [vault |-> v, text |-> text]
  ELSE IF \E s \in kept : s[1] = i
         THEN Vault!Replace(f[i + 1], CHOOSE s \in kept : s[1] = i)
         ELSE f[i + 1]

AreReplaced(f, v, text, kept, p) ==
  f = [i \in p .. Len(text) + 1 |-> ReplacedFrom(f, v, text, kept, i)]

LEMMA ReplacedExist ==
  ASSUME NEW v, NEW text, Len(text) \in Nat, NEW kept
  PROVE  \E f : AreReplaced(f, v, text, kept, 1)
<1> DEFINE n == Len(text)
           T == {k \in Nat : \E f : AreReplaced(f, v, text, kept, n + 1 - k)}
<1> HIDE DEF n
<1>1. n \in Nat
  BY DEF n
<1>2. 0 \in T
  <2> DEFINE start == [vault |-> v, text |-> text]
             f == [i \in n + 1 .. n + 1 |-> start]
  <2>1. \A i \in n + 1 .. n + 1 : ReplacedFrom(f, v, text, kept, i) = start
    BY <1>1 DEF ReplacedFrom, n
  <2>2. f = [i \in n + 1 .. n + 1 |-> ReplacedFrom(f, v, text, kept, i)]
    BY <2>1
  <2> HIDE DEF f
  <2>3. AreReplaced(f, v, text, kept, n + 1 - 0)
    BY <1>1, <2>2 DEF AreReplaced, n
  <2> QED BY <2>3
<1>3. ASSUME NEW k \in 0 .. n, k \in T, k + 1 <= n PROVE k + 1 \in T
  <2> DEFINE p == n + 1 - k
             q == n + 1 - (k + 1)
  <2>1. p \in Nat /\ q \in Nat /\ p = q + 1 /\ 1 <= q /\ q <= n
    BY <1>1, <1>3
  <2>2. PICK f : AreReplaced(f, v, text, kept, p)
    BY <1>3
  <2> DEFINE more == [i \in q .. n + 1 |->
                        IF i = q THEN ReplacedFrom(f, v, text, kept, q) ELSE f[i]]
  <2> HIDE DEF p, q
  <2>3. \A i \in p .. n + 1 : i \in q .. n + 1 /\ more[i] = f[i]
    BY <1>1, <2>1
  <2>4. more[q] = ReplacedFrom(f, v, text, kept, q) /\ more = [i \in q .. n + 1 |-> more[i]]
    BY <1>1, <2>1
  <2> HIDE DEF more
  <2>5. ASSUME NEW i \in q .. n
        PROVE  ReplacedFrom(more, v, text, kept, i) = ReplacedFrom(f, v, text, kept, i)
    <3>1. i + 1 \in p .. n + 1
      BY <1>1, <2>1
    <3>2. more[i + 1] = f[i + 1]
      BY <2>3, <3>1
    <3> QED BY <3>2 DEF ReplacedFrom
  <2>6. ASSUME NEW i \in q .. n + 1 PROVE more[i] = ReplacedFrom(more, v, text, kept, i)
    <3>1. CASE i = q
      <4>1. i \in q .. n
        BY <1>1, <2>1, <3>1
      <4> QED BY <2>4, <2>5, <3>1, <4>1
    <3>2. CASE i # q /\ i # n + 1
      <4>1. i \in q .. n /\ i \in p .. n + 1
        BY <1>1, <2>1, <3>2
      <4>2. f[i] = ReplacedFrom(f, v, text, kept, i)
        BY <2>2, <4>1 DEF AreReplaced, n
      <4> QED BY <2>3, <2>5, <4>1, <4>2
    <3>3. CASE i = n + 1
      <4>1. i \in p .. n + 1 /\ i > n
        BY <1>1, <2>1, <3>3
      <4>2. f[i] = ReplacedFrom(f, v, text, kept, i)
        BY <2>2, <4>1 DEF AreReplaced, n
      <4>3. ReplacedFrom(f, v, text, kept, i) = ReplacedFrom(more, v, text, kept, i)
        BY <4>1 DEF ReplacedFrom, n
      <4> QED BY <2>3, <4>1, <4>2, <4>3
    <3> QED BY <3>1, <3>2, <3>3
  <2>7. AreReplaced(more, v, text, kept, q)
    BY <2>4, <2>6 DEF AreReplaced, n
  <2> QED BY <1>1, <2>7 DEF q
<1>4. n \in T
  <2>1. n \in 0 .. n
    BY <1>1
  <2> HIDE DEF T
  <2> QED BY <1>1, <1>2, <1>3, <2>1, Upwards
<1>5. PICK f : AreReplaced(f, v, text, kept, n + 1 - n)
  BY <1>4
<1>6. n + 1 - n = 1
  BY <1>1
<1> QED BY <1>5, <1>6

LEMMA SubstitutedIs ==
  ASSUME NEW v, NEW text, Len(text) \in Nat
  PROVE  \E f : /\ \A i \in 1 .. Len(text) + 1 :
                     f[i] = ReplacedFrom(f, v, text, Vault!SpansToReplace(v, text), i)
                /\ Vault!Substituted(v, text) = f[1]
<1> DEFINE kept == Vault!SpansToReplace(v, text)
           f == CHOOSE g : AreReplaced(g, v, text, kept, 1)
<1>1. AreReplaced(f, v, text, kept, 1)
  BY ReplacedExist
<1>2. Vault!Substituted(v, text) = f[1]
  BY DEF Vault!Substituted, AreReplaced, ReplacedFrom
<1> HIDE DEF f, kept
<1>3. \A i \in 1 .. Len(text) + 1 : f[i] = ReplacedFrom(f, v, text, kept, i)
  BY <1>1 DEF AreReplaced
<1> QED BY <1>2, <1>3 DEF kept

(* The words from one place to another stand somewhere in what is put behind. *)
StandsAt(rest, text, a, b, j) ==
  j + (b - a) <= Len(rest) /\ \A i \in 0 .. b - a : rest[j + i] = text[a + i]

StandsIn(rest, text, a, b) == \E j \in 1 .. Len(rest) : StandsAt(rest, text, a, b, j)

Untouched(kept, a, b) == \A k \in kept : ~Vault!Overlap(k, <<a, b>>)

(* What the loop has done when it has come down to a place: up to e the text   *)
(* is as it was, and the rest reads back as what followed.                     *)
IsDone(acc, v, text, kept, p, e, rest) ==
  /\ e \in Nat /\ e <= Len(text) /\ p <= e + 1
  /\ \A s \in kept : s[1] < p => s[2] <= e
  /\ IsVault(acc.vault) /\ Extends(v, acc.vault)
  /\ rest \in Seq(Understood(acc.vault))
  /\ acc.text = SubSeq(text, 1, e) \o rest
  /\ ReadsAlike(acc.vault, rest, SubSeq(text, e + 1, Len(text)))
  /\ \A a, b \in 1 .. Len(text) :
       a <= b /\ Untouched(kept, a, b) => b <= e \/ StandsIn(rest, text, a, b)

LEMMA MoreUnderstood ==
  ASSUME NEW v, NEW w, Extends(v, w), NEW t \in Seq(Understood(v))
  PROVE  t \in Seq(Understood(w))
<1>1. Understood(v) \subseteq Understood(w)
  BY DEF Extends, Understood
<1> QED BY <1>1

LEMMA FreshIsText == Seq(Fresh) \subseteq Text
<1>1. Fresh \subseteq Token
  BY DEF Fresh, Loose, Token
<1> QED BY <1>1 DEF Text

LEMMA FreshIs ==
  ASSUME NEW s \in Text PROVE s \in Seq(Fresh) <=> \A i \in 1 .. Len(s) : s[i] \in Fresh
<1>1. s \in Seq(Fresh) => \A i \in 1 .. Len(s) : s[i] \in Fresh
  OBVIOUS
<1>2. (\A i \in 1 .. Len(s) : s[i] \in Fresh) => s \in Seq(Fresh)
  BY DEF Text
<1> QED BY <1>1, <1>2

LEMMA FreshIsUnderstood == ASSUME NEW v, NEW t \in Seq(Fresh) PROVE t \in Seq(Understood(v))
<1>1. Fresh \subseteq Understood(v)
  BY DEF Understood
<1> QED BY <1>1

LEMMA UnderstoodIsText ==
  ASSUME NEW v, IsVault(v), NEW t \in Seq(Understood(v)) PROVE t \in Text
<1>1. Understood(v) \subseteq Token
  BY UnderstoodAreTokens
<1> HIDE DEF IsVault
<1> QED BY <1>1 DEF Text

LEMMA NothingDone ==
  ASSUME NEW v, IsVault(v), NEW text \in Seq(Fresh), NEW kept, KeptApart(kept, Len(text))
  PROVE  IsDone([vault |-> v, text |-> text], v, text, kept, Len(text) + 1, Len(text), <<>>)
<1> DEFINE acc == [vault |-> v, text |-> text]
           n == Len(text)
<1>1. text \in Text /\ n \in Nat
  BY FreshIsText, TextIs
<1>2. acc.vault = v /\ acc.text = text
  OBVIOUS
<1> HIDE DEF acc
<1>3. \A s \in kept : s[2] <= n
  BY <1>1 DEF KeptApart, IsSpan
<1>4. Extends(v, v)
  BY DEF Extends
<1>5. <<>> \in Seq(Understood(v))
  OBVIOUS
<1>6. SubSeq(text, 1, n) = text
  BY <1>1 DEF Text
<1>7. text \o <<>> = text
  BY <1>1, NothingJoined
<1>8. SubSeq(text, n + 1, n) = <<>>
  <2> DEFINE u == SubSeq(text, n + 1, n)
  <2>1. n + 1 \in Nat \ {0} /\ n + 1 <= n + 1 /\ n <= n /\ n - (n + 1) + 1 = 0
    BY <1>1
  <2>2. IsCut(text, n + 1, n, u)
    BY <1>1, <2>1, CutIs
  <2> HIDE DEF u
  <2>3. u \in Seq(Token) /\ Len(u) = 0
    BY <2>1, <2>2 DEF IsCut, Text
  <2>4. u = <<>>
    BY <2>3
  <2> QED BY <2>4 DEF u
<1>9. ReadsAlike(v, <<>>, <<>>)
  BY AlikeToItself
<1>10. \A a, b \in 1 .. n : b <= n
  BY <1>1
<1> HIDE DEF n
<1>11. n + 1 <= n + 1 /\ n <= n
  BY <1>1
<1>12. IsDone(acc, v, text, kept, n + 1, n, <<>>)
  BY <1>1, <1>2, <1>3, <1>4, <1>5, <1>6, <1>7, <1>8, <1>9, <1>10, <1>11 DEF IsDone, n
<1> QED BY <1>12 DEF acc, n

(* One span is replaced: what was between it and the last one joins the rest. *)
LEMMA ReplaceOne ==
  ASSUME NEW v, IsVault(v), NEW text \in Seq(Fresh), NEW kept, KeptApart(kept, Len(text)),
         NEW s \in kept, SubSeq(text, s[1], s[2]) \in Value, NEW acc, NEW e, NEW rest,
         IsDone(acc, v, text, kept, s[1] + 1, e, rest)
  PROVE  \E more : IsDone(Vault!Replace(acc, s), v, text, kept, s[1], s[1] - 1, more)
<1> DEFINE n == Len(text)
           p == s[1]
           q == s[2]
           value == SubSeq(text, p, q)
           w == Vault!Declare(acc.vault, value, "KEY")
           x == Vault!PlaceholderOf(w, value)
           gap == SubSeq(text, q + 1, e)
           head == SubSeq(text, 1, e)
           front == SubSeq(text, 1, p - 1)
           tail == gap \o rest
           more == <<x>> \o tail
<1>1. text \in Text /\ n \in Nat
  BY FreshIsText, TextIs
<1>2. /\ p \in Nat \ {0} /\ q \in Nat /\ p <= q /\ q <= e /\ e \in Nat /\ e <= n
  <2>1. IsSpan(n, s)
    BY DEF KeptApart
  <2>2. p \in 1 .. n /\ q \in 1 .. n /\ p <= q
    BY <2>1 DEF IsSpan
  <2>3. p < p + 1
    BY <1>1, <2>2
  <2>4. q <= e /\ e \in Nat /\ e <= n
    BY <2>3 DEF IsDone
  <2> QED BY <1>1, <2>2, <2>4
<1> HIDE DEF n, p, q
<1>3. IsVault(acc.vault) /\ Extends(v, acc.vault) /\ rest \in Seq(Understood(acc.vault)) /\ rest \in Text
  <2>1. IsVault(acc.vault) /\ Extends(v, acc.vault) /\ rest \in Seq(Understood(acc.vault))
    BY DEF IsDone
  <2> QED BY <2>1, UnderstoodIsText
<1>4. acc.text = head \o rest
  BY DEF IsDone
<1>5. IsCut(text, 1, e, head) /\ IsCut(text, 1, p - 1, front) /\ IsCut(text, p, q, value)
      /\ IsCut(text, q + 1, e, gap)
  <2>1. /\ 1 <= e + 1 /\ p - 1 \in Nat /\ 1 <= (p - 1) + 1 /\ p - 1 <= n /\ p <= q + 1 /\ q <= n
        /\ q + 1 \in Nat \ {0} /\ q + 1 <= e + 1 /\ 1 \in Nat \ {0}
    BY <1>1, <1>2
  <2>2. IsCut(text, 1, e, head)
    BY <1>1, <1>2, <2>1, CutIs DEF n
  <2>3. IsCut(text, 1, p - 1, front)
    BY <1>1, <1>2, <2>1, CutIs DEF n
  <2>4. IsCut(text, p, q, value)
    BY <1>1, <1>2, <2>1, CutIs DEF n
  <2>5. IsCut(text, q + 1, e, gap)
    BY <1>1, <1>2, <2>1, CutIs DEF n
  <2> QED BY <2>2, <2>3, <2>4, <2>5
<1>6. head \in Text /\ Len(head) = e /\ front \in Text /\ value \in Text /\ gap \in Text
      /\ Len(value) = q - p + 1 /\ Len(gap) = e - q /\ Len(front) = p - 1
  <2> HIDE DEF head, front, value, gap
  <2> QED BY <1>2, <1>5 DEF IsCut
<1>7. gap \in Seq(Fresh)
  <2>1. \A i \in 1 .. n : text[i] \in Fresh
    BY <1>1, FreshIs DEF n
  <2>2. \A i \in 1 .. Len(gap) : gap[i] \in Fresh
    BY <1>5, <2>1 DEF IsCut, n
  <2> QED BY <1>6, <2>2, FreshIs
<1>8. value \in Value
  BY DEF value, p, q
(* The span is where it was, and so is what is to the left of it.             *)
<1>9. SubSeq(acc.text, p, q) = value
  <2> HIDE DEF head, value
  <2>1. SubSeq(head \o rest, p, q) = SubSeq(head, p, q)
    BY <1>2, <1>3, <1>6, CutOfJoined
  <2>2. SubSeq(head, p, q) = value
    BY <1>1, <1>2, CutOfCut DEF head, value, n
  <2> QED BY <1>4, <2>1, <2>2
<1>10. SubSeq(acc.text, 1, p - 1) = front
  <2> HIDE DEF head, front
  <2>1. p - 1 \in Nat /\ 1 <= (p - 1) + 1 /\ p - 1 <= e /\ 1 \in Nat \ {0}
    BY <1>2
  <2>2. SubSeq(head \o rest, 1, p - 1) = SubSeq(head, 1, p - 1)
    BY <1>3, <1>6, <2>1, CutOfJoined
  <2>3. SubSeq(head, 1, p - 1) = front
    BY <1>1, <1>2, <2>1, CutOfCut DEF head, front, n
  <2> QED BY <1>4, <2>2, <2>3
<1>11. SubSeq(acc.text, q + 1, Len(acc.text)) = tail
  <2> DEFINE left == SubSeq(text, 1, q)
  <2>1. q <= n /\ 1 <= q + 1 /\ 1 \in Nat \ {0}
    BY <1>1, <1>2
  <2>2. head = left \o gap
    BY <1>1, <1>2, <2>1, CutAndJoined DEF n
  <2>3. IsCut(text, 1, q, left)
    BY <1>1, <1>2, <2>1, CutIs DEF n
  <2>4. left \in Text /\ Len(left) = q
    <3> HIDE DEF left
    <3> QED BY <1>2, <2>3 DEF IsCut
  <2> HIDE DEF left, head, gap
  <2>5. (left \o gap) \o rest = left \o (gap \o rest)
    BY <1>3, <1>6, <2>4, JoinedTwice
  <2>6. IsJoined(gap, rest, gap \o rest)
    BY <1>3, <1>6, JoinedIs
  <2>7. gap \o rest \in Text
    BY <2>6 DEF IsJoined
  <2>8. acc.text = left \o tail
    BY <1>4, <2>2, <2>5
  <2> HIDE DEF tail
  <2>9. tail \in Text
    BY <2>7 DEF tail
  <2>10. SubSeq(left \o tail, Len(left) + 1, Len(left \o tail)) = tail
    BY <2>4, <2>9, CutBehind
  <2> QED BY <2>4, <2>8, <2>10
<1>12. Declares(acc.vault, value, w)
  <2>1. "KEY" \in Kinds
    BY DEF Kinds
  <2> HIDE DEF value
  <2> QED BY <1>3, <1>8, <2>1, DeclareDeclares
<1>13. Vault!Replace(acc, s) = [vault |-> w, text |-> front \o <<x>> \o tail]
  <2> HIDE DEF front, tail
  <2> QED BY <1>9, <1>10, <1>11 DEF Vault!Replace, p, q
<1> HIDE DEF w
<1>14. IsVault(w) /\ Extends(acc.vault, w) /\ Extends(v, w)
  BY <1>3, <1>12 DEF Declares, Extends
<1>15. PICK m \in w.mappings : x = m.placeholder /\ Vault!Folded(m.value) = Vault!Folded(value)
  <2> HIDE DEF value
  <2> QED BY <1>12 DEF Declares
<1>16. x \in Understood(w) /\ x \in Token
  <2>1. x \in Understood(w)
    BY <1>15 DEF Understood
  <2> QED BY <1>14, <2>1, UnderstoodAreTokens
<1>17. ReadsAlike(w, <<x>>, value)
  <2> HIDE DEF value
  <2> QED BY <1>8, <1>14, <1>15, AlikeReplaced
<1> HIDE DEF x
<1>18. <<x>> \in Text /\ Len(<<x>>) = 1 /\ <<x>>[1] = x
  BY <1>16, OneWordIsText
<1> HIDE DEF value, gap, head, front
<1>19. IsJoined(gap, rest, tail)
  BY <1>3, <1>6, JoinedIs
<1>20. tail \in Text
  BY <1>19 DEF IsJoined
<1> HIDE DEF tail
<1> DEFINE one == <<x>>
<1>21. one \in Text /\ Len(one) = 1 /\ one[1] = x
  BY <1>18
<1>22. more = one \o tail
  OBVIOUS
<1> HIDE DEF one, more
<1>23. IsJoined(one, tail, more)
  BY <1>20, <1>21, <1>22, JoinedIs
<1>24. Len(more) = 1 + ((e - q) + Len(rest))
  <2>1. Len(more) = Len(one) + Len(tail)
    BY <1>23 DEF IsJoined
  <2>2. Len(tail) = Len(gap) + Len(rest)
    BY <1>19 DEF IsJoined
  <2> QED BY <1>6, <1>21, <2>1, <2>2
<1>25. (front \o one) \o tail = front \o more
  <2>1. front \in Text /\ one \in Text
    BY <1>6, <1>21
  <2>2. (front \o one) \o tail = front \o (one \o tail)
    BY <1>20, <2>1, JoinedTwice
  <2> QED BY <1>22, <2>2
<1> DEFINE next == Vault!Replace(acc, s)
<1>26. next.vault = w /\ next.text = front \o more
  <2>1. next.vault = w /\ next.text = front \o <<x>> \o tail
    BY <1>13
  <2> QED BY <1>25, <2>1 DEF one
<1> HIDE DEF next
<1>27. more \in Seq(Understood(w))
  <2>1. gap \in Seq(Understood(w))
    BY <1>7, FreshIsUnderstood
  <2>2. rest \in Seq(Understood(w))
    BY <1>3, <1>14, MoreUnderstood
  <2>3. one \in Seq(Understood(w))
    BY <1>16 DEF one
  <2>4. tail \in Seq(Understood(w))
    BY <2>1, <2>2 DEF tail
  <2> QED BY <1>22, <2>3, <2>4
(* It reads back as what followed.                                            *)
<1>28. ReadsAlike(w, more, SubSeq(text, p, n))
  <2> DEFINE after == SubSeq(text, e + 1, n)
             behind == SubSeq(text, q + 1, n)
  <2>1. SubSeq(text, p, n) = value \o behind /\ behind = gap \o after
    <3>1. p <= q + 1 /\ q <= n /\ n <= n /\ q + 1 \in Nat \ {0} /\ q + 1 <= e + 1
      BY <1>1, <1>2
    <3>2. SubSeq(text, p, n) = SubSeq(text, p, q) \o SubSeq(text, q + 1, n)
      BY <1>1, <1>2, <3>1, CutAndJoined DEF n
    <3>3. SubSeq(text, q + 1, n) = SubSeq(text, q + 1, e) \o SubSeq(text, e + 1, n)
      BY <1>1, <1>2, <3>1, CutAndJoined DEF n
    <3> QED BY <3>2, <3>3 DEF value, gap
  <2>2. after \in Text
    <3>1. e + 1 \in Nat \ {0} /\ e + 1 <= n + 1 /\ n <= n
      BY <1>1, <1>2
    <3>2. IsCut(text, e + 1, n, after)
      BY <1>1, <3>1, CutIs DEF n
    <3> QED BY <3>2 DEF IsCut
  <2>3. ReadsAlike(w, rest, after)
    <3>1. ReadsAlike(acc.vault, rest, after)
      BY DEF IsDone, n
    <3> HIDE DEF after
    <3> QED BY <1>14, <3>1, AlikeLater
  <2> HIDE DEF after, behind
  <2>4. ReadsAlike(w, tail, behind)
    <3>1. ReadsAlike(w, gap, gap)
      BY AlikeToItself
    <3>2. ReadsAlike(w, gap \o rest, gap \o after)
      BY <1>3, <1>6, <2>2, <2>3, <3>1, AlikeJoined
    <3> QED BY <2>1, <3>2 DEF tail
  <2>5. behind \in Text
    <3>1. IsJoined(gap, after, gap \o after)
      BY <1>6, <2>2, JoinedIs
    <3> QED BY <2>1, <3>1 DEF IsJoined
  <2>6. ReadsAlike(w, one, value)
    BY <1>17 DEF one
  <2>7. ReadsAlike(w, one \o tail, value \o behind)
    BY <1>6, <1>20, <1>21, <2>4, <2>5, <2>6, AlikeJoined
  <2> QED BY <1>22, <2>1, <2>7
(* What no span touches is where it was, between two spans, or in the rest.   *)
<1>29. ASSUME NEW a \in 1 .. n, NEW b \in 1 .. n, a <= b, Untouched(kept, a, b)
       PROVE  b <= p - 1 \/ StandsIn(more, text, a, b)
  <2>1. b < p \/ q < a
    <3>1. ~Vault!Overlap(s, <<a, b>>)
      BY <1>29 DEF Untouched
    <3>2. ~(p <= b /\ a <= q)
      BY <3>1 DEF Vault!Overlap, p, q
    <3> QED BY <1>1, <1>2, <1>29, <3>2
  <2>2. \A i \in 1 .. Len(tail) : 1 + i \in 1 .. Len(more) /\ more[1 + i] = tail[i]
    <3>1. Len(tail) \in Nat /\ Len(more) = 1 + Len(tail)
      BY <1>20, <1>21, <1>23, TextIs DEF IsJoined
    <3> QED BY <1>21, <1>23, <3>1 DEF IsJoined
  <2>3. Len(tail) = (e - q) + Len(rest) /\ Len(rest) \in Nat
    BY <1>3, <1>6, <1>19, TextIs DEF IsJoined
  <2>4. CASE b <= e
    <3> SUFFICES ASSUME q < a PROVE StandsIn(more, text, a, b)
      BY <1>1, <1>2, <1>29, <2>1
    <3> DEFINE j == 1 + (a - q)
    <3>1. j \in 1 .. Len(more) /\ j + (b - a) <= Len(more)
      BY <1>1, <1>2, <1>24, <1>29, <2>3, <2>4
    <3>2. ASSUME NEW i \in 0 .. b - a PROVE more[j + i] = text[a + i]
      <4> DEFINE k == (a - q) + i
      <4>1. k \in 1 .. e - q /\ j + i = 1 + k /\ (q + 1) + k - 1 = a + i
        BY <1>1, <1>2, <1>29, <2>4
      <4>2. k \in 1 .. Len(gap) /\ k \in 1 .. Len(tail)
        BY <1>2, <1>6, <2>3, <4>1
      <4> HIDE DEF k, j
      <4>3. more[1 + k] = tail[k]
        BY <2>2, <4>2
      <4>4. tail[k] = gap[k]
        BY <1>19, <4>2 DEF IsJoined
      <4>5. gap[k] = text[(q + 1) + k - 1]
        BY <1>5, <4>2 DEF IsCut
      <4> QED BY <4>1, <4>3, <4>4, <4>5
    <3> HIDE DEF j
    <3>3. StandsAt(more, text, a, b, j)
      BY <3>1, <3>2 DEF StandsAt
    <3> QED BY <3>1, <3>3 DEF StandsIn
  <2>5. CASE ~(b <= e)
    <3>1. StandsIn(rest, text, a, b)
      BY <1>29, <2>5 DEF IsDone, n
    <3>2. PICK j \in 1 .. Len(rest) : StandsAt(rest, text, a, b, j)
      BY <3>1 DEF StandsIn
    <3> DEFINE l == 1 + ((e - q) + j)
    <3>3. l \in 1 .. Len(more) /\ l + (b - a) <= Len(more)
      BY <1>1, <1>2, <1>24, <1>29, <2>3, <3>2 DEF StandsAt
    <3>4. ASSUME NEW i \in 0 .. b - a PROVE more[l + i] = text[a + i]
      <4> DEFINE k == (e - q) + (j + i)
      <4>1. j + i \in 1 .. Len(rest) /\ l + i = 1 + k /\ k \in 1 .. Len(tail)
        BY <1>1, <1>2, <1>29, <2>3, <3>2 DEF StandsAt
      <4>2. k = Len(gap) + (j + i)
        BY <1>6
      <4> HIDE DEF k, l
      <4>3. more[1 + k] = tail[k]
        BY <2>2, <4>1
      <4>4. tail[k] = rest[j + i]
        BY <1>19, <4>1, <4>2 DEF IsJoined
      <4>5. rest[j + i] = text[a + i]
        BY <3>2 DEF StandsAt
      <4> QED BY <4>1, <4>3, <4>4, <4>5
    <3> HIDE DEF l
    <3>5. StandsAt(more, text, a, b, l)
      BY <3>3, <3>4 DEF StandsAt
    <3> QED BY <3>3, <3>5 DEF StandsIn
  <2> QED BY <2>4, <2>5
<1>30. \A t \in kept : t[1] < p => t[2] <= p - 1
  <2> SUFFICES ASSUME NEW t \in kept, t[1] < p PROVE t[2] <= p - 1
    OBVIOUS
  <2>1. IsSpan(n, t)
    BY DEF KeptApart, n
  <2>2. t[1] \in 1 .. n /\ t[2] \in 1 .. n /\ t[1] <= t[2]
    BY <2>1 DEF IsSpan
  <2>3. t # s
    BY <1>2, <2>2 DEF p
  <2>4. ~Vault!Overlap(t, s)
    BY <2>3 DEF KeptApart
  <2>5. ~(t[1] <= q /\ p <= t[2])
    BY <2>4 DEF Vault!Overlap, p, q
  <2> QED BY <1>1, <1>2, <2>2, <2>5
<1>31. p - 1 \in Nat /\ p - 1 <= n /\ p <= (p - 1) + 1 /\ (p - 1) + 1 = p
  BY <1>1, <1>2
<1>32. IsDone(next, v, text, kept, p, p - 1, more)
  BY <1>14, <1>26, <1>27, <1>28, <1>29, <1>30, <1>31 DEF IsDone, n, front
<1> QED BY <1>32 DEF next, p

LEMMA SubstitutedIsDone ==
  ASSUME NEW v, IsVault(v), NEW text \in Seq(Fresh)
  PROVE  \E e, rest :
           IsDone(Vault!Substituted(v, text), v, text, Vault!SpansToReplace(v, text), 1, e, rest)
<1> DEFINE n == Len(text)
           kept == Vault!SpansToReplace(v, text)
<1>1. text \in Text /\ n \in Nat
  BY FreshIsText, TextIs
<1>2. KeptApart(kept, n) /\ \A s \in kept : SubSeq(text, s[1], s[2]) \in Value
  BY <1>1, SpansToReplaceAreApart
<1>3. PICK f : /\ \A i \in 1 .. Len(text) + 1 :
                     f[i] = ReplacedFrom(f, v, text, Vault!SpansToReplace(v, text), i)
               /\ Vault!Substituted(v, text) = f[1]
  BY <1>1, SubstitutedIs
<1> HIDE DEF n, kept
<1>4. \A i \in 1 .. n + 1 : f[i] = ReplacedFrom(f, v, text, kept, i)
  BY <1>3 DEF n, kept
<1> DEFINE Done(i) == \E e, rest : IsDone(f[i], v, text, kept, i, e, rest)
           T == {k \in Nat : Done(n + 1 - k)}
<1>5. 0 \in T
  <2>1. n + 1 \in 1 .. n + 1 /\ n + 1 > n /\ n + 1 - 0 = n + 1
    BY <1>1
  <2>2. f[n + 1] = [vault |-> v, text |-> text]
    BY <1>4, <2>1 DEF ReplacedFrom, n
  <2>3. IsDone(f[n + 1], v, text, kept, n + 1, n, <<>>)
    BY <1>2, <2>2, NothingDone DEF n
  <2>4. Done(n + 1)
    BY <2>3
  <2> HIDE DEF Done
  <2> QED BY <2>1, <2>4
<1>6. ASSUME NEW k \in 0 .. n, k \in T, k + 1 <= n PROVE k + 1 \in T
  <2> DEFINE q == n + 1 - (k + 1)
  <2>1. q \in 1 .. n /\ q + 1 = n + 1 - k /\ q \in 1 .. n + 1 /\ ~(q > n) /\ q \in Nat
    BY <1>1, <1>6
  <2>2. Done(q + 1)
    <3>1. Done(n + 1 - k)
      BY <1>6
    <3> HIDE DEF Done, q
    <3> QED BY <2>1, <3>1
  <2> HIDE DEF q, T
  <2>3. PICK e, rest : IsDone(f[q + 1], v, text, kept, q + 1, e, rest)
    BY <2>2
  <2>4. Done(q)
    <3>1. CASE \E s \in kept : s[1] = q
      <4> DEFINE s == CHOOSE s \in kept : s[1] = q
      <4>1. s \in kept /\ s[1] = q
        BY <3>1
      <4>2. f[q] = Vault!Replace(f[q + 1], s)
        BY <1>4, <2>1, <3>1 DEF ReplacedFrom, n
      <4> HIDE DEF s
      <4>3. IsDone(f[q + 1], v, text, kept, s[1] + 1, e, rest)
        BY <2>3, <4>1
      <4>4. PICK more : IsDone(Vault!Replace(f[q + 1], s), v, text, kept, s[1], s[1] - 1, more)
        BY <1>2, <4>1, <4>3, ReplaceOne DEF n
      <4>5. IsDone(f[q], v, text, kept, q, q - 1, more)
        BY <4>1, <4>2, <4>4
      <4> QED BY <4>5
    <3>2. CASE ~\E s \in kept : s[1] = q
      <4>1. f[q] = f[q + 1]
        BY <1>4, <2>1, <3>2 DEF ReplacedFrom, n
      <4>2. \A s \in kept : s[1] < q => s[1] < q + 1
        <5> SUFFICES ASSUME NEW s \in kept, s[1] < q PROVE s[1] < q + 1
          OBVIOUS
        <5>1. s[1] \in 1 .. n
          BY <1>2 DEF KeptApart, IsSpan
        <5> QED BY <1>1, <2>1, <5>1
      <4>3. e \in Nat /\ q + 1 <= e + 1
        BY <2>3 DEF IsDone
      <4>4. q <= e + 1
        BY <2>1, <4>3
      <4>5. IsDone(f[q], v, text, kept, q, e, rest)
        BY <2>3, <4>1, <4>2, <4>4 DEF IsDone
      <4> QED BY <4>5
    <3> QED BY <3>1, <3>2
  <2>5. k + 1 \in Nat
    OBVIOUS
  <2> HIDE DEF Done
  <2> QED BY <2>4, <2>5 DEF T, q
<1>7. n \in T
  <2>1. n \in 0 .. n
    BY <1>1
  <2> HIDE DEF T
  <2> QED BY <1>1, <1>5, <1>6, <2>1, Upwards
<1>8. Done(1)
  <2>1. Done(n + 1 - n)
    BY <1>7
  <2>2. n + 1 - n = 1
    BY <1>1
  <2> HIDE DEF Done
  <2> QED BY <2>1, <2>2
<1> QED BY <1>3, <1>8 DEF kept

(* A text that is not refused reads back as it was, but for the spelling.     *)
IsAnonymized(v, text, r) ==
  /\ IsVault(r.vault) /\ Extends(v, r.vault)
  /\ r.text \in Seq(Understood(r.vault))
  /\ ReadsAlike(r.vault, r.text, text)

LEMMA OkIsFresh ==
  ASSUME NEW v, NEW text \in Text, Vault!Anonymize(v, text).ok
  PROVE  text \in Seq(Fresh) /\ ~Vault!ForeignPlaceholder(text)
<1>1. ~Vault!ForeignPlaceholder(text)
  BY DEF Vault!Anonymize
<1>2. \A i \in 1 .. Len(text) : text[i] \in Token /\ ~Vault!IsPlaceholder(text[i])
  BY <1>1, TextIs DEF Vault!ForeignPlaceholder
<1>3. \A i \in 1 .. Len(text) : text[i] \in Fresh
  BY <1>2, TokensApart DEF Fresh, Token, Loose
<1> QED BY <1>1, <1>3, FreshIs

LEMMA DoneIsAnonymized ==
  ASSUME NEW v, IsVault(v), NEW text \in Seq(Fresh), NEW kept, NEW acc, NEW e, NEW rest,
         IsDone(acc, v, text, kept, 1, e, rest)
  PROVE  IsAnonymized(v, text, acc)
<1> DEFINE n == Len(text)
           head == SubSeq(text, 1, e)
           after == SubSeq(text, e + 1, n)
<1>1. text \in Text /\ n \in Nat
  BY FreshIsText, TextIs
<1>2. /\ e \in Nat /\ e <= n /\ IsVault(acc.vault) /\ Extends(v, acc.vault)
      /\ rest \in Seq(Understood(acc.vault)) /\ acc.text = head \o rest
      /\ ReadsAlike(acc.vault, rest, after)
  BY DEF IsDone
<1> HIDE DEF n
<1>3. rest \in Text
  BY <1>2, UnderstoodIsText
<1>4. IsCut(text, 1, e, head) /\ IsCut(text, e + 1, n, after)
  <2>1. 1 \in Nat \ {0} /\ 1 <= e + 1 /\ e + 1 \in Nat \ {0} /\ e + 1 <= n + 1 /\ n <= n
    BY <1>1, <1>2
  <2>2. IsCut(text, 1, e, head)
    BY <1>1, <1>2, <2>1, CutIs DEF n
  <2>3. IsCut(text, e + 1, n, after)
    BY <1>1, <1>2, <2>1, CutIs DEF n
  <2> QED BY <2>2, <2>3
<1>5. text = head \o after
  <2>1. 1 \in Nat \ {0} /\ 1 <= e + 1 /\ n <= n
    BY <1>1, <1>2
  <2>2. SubSeq(text, 1, n) = head \o after
    BY <1>1, <1>2, <2>1, CutAndJoined DEF n
  <2>3. SubSeq(text, 1, n) = text
    BY <1>1 DEF Text, n
  <2> QED BY <2>2, <2>3
<1> HIDE DEF head, after
<1>6. head \in Text /\ after \in Text
  BY <1>4 DEF IsCut
<1>7. head \in Seq(Fresh)
  <2>1. \A i \in 1 .. n : text[i] \in Fresh
    BY <1>1, FreshIs DEF n
  <2>2. \A i \in 1 .. Len(head) : head[i] \in Fresh
    BY <1>4, <2>1 DEF IsCut, n
  <2> QED BY <1>6, <2>2, FreshIs
<1>8. ReadsAlike(acc.vault, acc.text, text)
  <2>1. ReadsAlike(acc.vault, head, head)
    BY AlikeToItself
  <2>2. ReadsAlike(acc.vault, head \o rest, head \o after)
    BY <1>2, <1>3, <1>6, <2>1, AlikeJoined
  <2> QED BY <1>2, <1>5, <2>2
<1>9. acc.text \in Seq(Understood(acc.vault))
  <2>1. head \in Seq(Understood(acc.vault))
    BY <1>7, FreshIsUnderstood
  <2> QED BY <1>2, <2>1
<1> QED BY <1>2, <1>8, <1>9 DEF IsAnonymized

LEMMA OkIsAnonymized ==
  ASSUME NEW v, IsVault(v), NEW text \in Text, Vault!Anonymize(v, text).ok
  PROVE  IsAnonymized(v, text, Vault!Anonymize(v, text))
<1>1. text \in Seq(Fresh) /\ ~Vault!ForeignPlaceholder(text)
  BY OkIsFresh
<1> DEFINE done == Vault!Substituted(v, text)
<1>2. PICK e, rest : IsDone(done, v, text, Vault!SpansToReplace(v, text), 1, e, rest)
  BY <1>1, SubstitutedIsDone
<1>3. IsAnonymized(v, text, done)
  <2> HIDE DEF done
  <2> QED BY <1>1, <1>2, DoneIsAnonymized
<1>4. /\ Vault!Anonymize(v, text).vault = done.vault
      /\ Vault!Anonymize(v, text).text = done.text
  BY <1>1 DEF Vault!Anonymize, Vault!Verified
<1> QED BY <1>3, <1>4 DEF IsAnonymized

(* A value whose words are left standing is found, and the text is not sent.   *)
LEMMA StandingIsFound ==
  ASSUME NEW text \in Text, NEW new \in Text, NEW value \in Text, Len(value) # 0,
         NEW a \in 1 .. Len(text),
         Vault!MatchesAt(Vault!Folded(text), value, a),
         StandsIn(new, text, a, a + Len(value) - 1)
  PROVE  \E j \in 1 .. Len(new) : Vault!MatchesAt(Vault!Folded(new), value, j)
<1> DEFINE n == Len(text)
           l == Len(value)
           ft == Vault!Folded(text)
           fn == Vault!Folded(new)
<1>1. n \in Nat /\ l \in Nat \ {0} /\ Len(new) \in Nat
  BY TextIs
<1>2. IsFolded(text, ft) /\ IsFolded(new, fn)
  BY FoldedIs
<1>3. a + l - 1 <= Len(ft) /\ SubSeq(ft, a, a + l - 1) = value
  BY DEF Vault!MatchesAt
<1> HIDE DEF ft, fn, n, l
<1>4. ft \in Text /\ Len(ft) = n /\ fn \in Text /\ Len(fn) = Len(new)
  BY <1>2 DEF IsFolded, n
<1> DEFINE b == a + l - 1
<1>5. PICK j \in 1 .. Len(new) : StandsAt(new, text, a, b, j)
  <2>1. StandsIn(new, text, a, b)
    BY DEF l
  <2> HIDE DEF b
  <2> QED BY <2>1 DEF StandsIn
<1>6. a \in 1 .. n /\ a \in Nat \ {0} /\ a + l - 1 \in Nat /\ a <= (a + l - 1) + 1
  BY <1>1 DEF n
<1>7. j \in Nat \ {0} /\ j + l - 1 \in Nat /\ j <= (j + l - 1) + 1 /\ j + l - 1 <= Len(fn)
  BY <1>1, <1>4, <1>5, <1>6 DEF StandsAt
<1> DEFINE x == SubSeq(fn, j, j + l - 1)
<1>8. IsCut(ft, a, a + l - 1, value)
  BY <1>3, <1>4, <1>6, CutIs
<1>9. IsCut(fn, j, j + l - 1, x)
  BY <1>4, <1>7, CutIs
<1> HIDE DEF x
<1>10. x \in Text /\ Len(x) = l /\ Len(value) = l
  BY <1>1, <1>7, <1>9 DEF IsCut, l
<1>11. ASSUME NEW i \in 1 .. Len(x) PROVE x[i] = value[i]
  <2> DEFINE k == i - 1
  <2>1. /\ k \in 0 .. b - a /\ j + i - 1 = j + k /\ a + i - 1 = a + k
        /\ j + k \in 1 .. Len(new) /\ a + k \in 1 .. n
    BY <1>1, <1>3, <1>4, <1>5, <1>6, <1>7, <1>10, <1>11 DEF StandsAt
  <2>2. new[j + k] = text[a + k]
    BY <1>5, <2>1 DEF StandsAt
  <2> HIDE DEF k
  <2>3. fn[j + k] = FoldedOf(new[j + k]) /\ ft[a + k] = FoldedOf(text[a + k])
    BY <1>2, <2>1 DEF IsFolded, n
  <2>4. x[i] = fn[j + k]
    BY <1>9, <2>1 DEF IsCut
  <2>5. value[i] = ft[a + k]
    BY <1>8, <1>10, <2>1 DEF IsCut
  <2> QED BY <2>2, <2>3, <2>4, <2>5
<1>12. x = value
  BY <1>10, <1>11, SameText
<1>13. Vault!MatchesAt(fn, value, j)
  BY <1>7, <1>12 DEF Vault!MatchesAt, l, x
<1> QED BY <1>13 DEF fn

(* The words before the last replacement stand in the result, and the rest.    *)
LEMMA LeftStanding ==
  ASSUME NEW v, IsVault(v), NEW text \in Seq(Fresh), NEW kept, NEW acc, NEW e, NEW rest,
         IsDone(acc, v, text, kept, 1, e, rest),
         NEW a \in 1 .. Len(text), NEW b \in 1 .. Len(text), a <= b, Untouched(kept, a, b)
  PROVE  StandsIn(acc.text, text, a, b)
<1> DEFINE n == Len(text)
           head == SubSeq(text, 1, e)
           all == acc.text
<1>1. text \in Text /\ n \in Nat
  BY FreshIsText, TextIs
<1>2. /\ e \in Nat /\ e <= n /\ IsVault(acc.vault) /\ rest \in Seq(Understood(acc.vault))
      /\ all = head \o rest /\ (b <= e \/ StandsIn(rest, text, a, b))
  BY DEF IsDone
<1> HIDE DEF n, all
<1>3. rest \in Text
  BY <1>2, UnderstoodIsText
<1>4. IsCut(text, 1, e, head)
  <2>1. 1 \in Nat \ {0} /\ 1 <= e + 1
    BY <1>2
  <2> QED BY <1>1, <1>2, <2>1, CutIs DEF n
<1> HIDE DEF head
<1>5. head \in Text /\ Len(head) = e
  BY <1>2, <1>4 DEF IsCut
<1>6. IsJoined(head, rest, all)
  BY <1>2, <1>3, <1>5, JoinedIs
<1>7. Len(rest) \in Nat /\ Len(all) = e + Len(rest)
  BY <1>3, <1>5, <1>6, TextIs DEF IsJoined
<1>8. a \in 1 .. n /\ b \in 1 .. n
  BY DEF n
<1>9. CASE b <= e
  <2>1. a \in 1 .. Len(all) /\ a + (b - a) <= Len(all)
    BY <1>1, <1>2, <1>7, <1>8, <1>9
  <2>2. ASSUME NEW i \in 0 .. b - a PROVE all[a + i] = text[a + i]
    <3>1. a + i \in 1 .. Len(head) /\ 1 + (a + i) - 1 = a + i
      BY <1>1, <1>2, <1>5, <1>8, <1>9
    <3>2. all[a + i] = head[a + i]
      BY <1>6, <3>1 DEF IsJoined
    <3>3. head[a + i] = text[1 + (a + i) - 1]
      BY <1>4, <3>1 DEF IsCut
    <3> QED BY <3>1, <3>2, <3>3
  <2>3. StandsAt(all, text, a, b, a)
    BY <2>1, <2>2 DEF StandsAt
  <2> QED BY <2>1, <2>3 DEF StandsIn, all
<1>10. CASE ~(b <= e)
  <2>1. PICK j \in 1 .. Len(rest) : StandsAt(rest, text, a, b, j)
    BY <1>2, <1>10 DEF StandsIn
  <2> DEFINE l == e + j
  <2>2. l \in 1 .. Len(all) /\ l + (b - a) <= Len(all)
    BY <1>1, <1>2, <1>7, <1>8, <2>1 DEF StandsAt
  <2>3. ASSUME NEW i \in 0 .. b - a PROVE all[l + i] = text[a + i]
    <3>1. j + i \in 1 .. Len(rest) /\ l + i = Len(head) + (j + i)
      BY <1>1, <1>2, <1>5, <1>7, <1>8, <2>1 DEF StandsAt
    <3> HIDE DEF l
    <3>2. all[l + i] = rest[j + i]
      BY <1>6, <3>1 DEF IsJoined
    <3> QED BY <2>1, <3>2 DEF StandsAt
  <2> HIDE DEF l
  <2>4. StandsAt(all, text, a, b, l)
    BY <2>2, <2>3 DEF StandsAt
  <2> QED BY <2>2, <2>4 DEF StandsIn, all
<1> QED BY <1>9, <1>10

LEMMA OkLeavesNothing ==
  ASSUME NEW v, IsVault(v), NEW text \in Text, Vault!Anonymize(v, text).ok,
         NEW m \in v.mappings, NEW a \in 1 .. Len(text),
         Vault!MatchesAt(Vault!Folded(text), Vault!Folded(m.value), a)
  PROVE  ~Untouched(Vault!SpansToReplace(v, text), a, a + Len(m.value) - 1)
<1> DEFINE kept == Vault!SpansToReplace(v, text)
           b == a + Len(m.value) - 1
           fv == Vault!Folded(m.value)
           done == Vault!Substituted(v, text)
<1> SUFFICES ASSUME Untouched(kept, a, b) PROVE FALSE
  OBVIOUS
<1>1. text \in Seq(Fresh) /\ ~Vault!ForeignPlaceholder(text)
  BY OkIsFresh
<1>2. PICK e, rest : IsDone(done, v, text, kept, 1, e, rest)
  BY <1>1, SubstitutedIsDone
<1>3. IsAnonymized(v, text, done)
  <2> HIDE DEF done, kept
  <2> QED BY <1>1, <1>2, DoneIsAnonymized
<1>4. Vault!Leaks(done.vault, done.text) = {}
  BY <1>1 DEF Vault!Anonymize, Vault!Verified
<1>5. m \in done.vault.mappings /\ done.text \in Text
  <2>1. done.text \in Text
    <3> HIDE DEF done
    <3> QED BY <1>3, UnderstoodIsText DEF IsAnonymized
  <2> HIDE DEF done
  <2> QED BY <1>3, <2>1 DEF IsAnonymized, Extends
<1> HIDE DEF done
<1>6. m.value \in Text /\ Len(m.value) \in Nat \ {0}
  <2>1. m.value \in Value
    BY DEF IsVault, Mapping
  <2> QED BY <2>1, PlainIsText DEF Value
<1>7. IsFolded(m.value, fv)
  BY <1>6, FoldedIs
<1>8. fv \in Text /\ Len(fv) = Len(m.value) /\ Len(fv) # 0
  <2> HIDE DEF fv
  <2> QED BY <1>6, <1>7 DEF IsFolded
<1>9. IsFolded(text, Vault!Folded(text)) /\ Len(text) \in Nat
  BY FoldedIs, TextIs
<1>10. a + Len(fv) - 1 <= Len(text)
  <2>1. a + Len(fv) - 1 <= Len(Vault!Folded(text))
    BY DEF Vault!MatchesAt
  <2> QED BY <1>9, <2>1 DEF IsFolded
<1>11. b \in 1 .. Len(text) /\ a <= b /\ b = a + Len(fv) - 1
  BY <1>6, <1>8, <1>9, <1>10
<1> HIDE DEF fv, b, kept
<1>12. StandsIn(done.text, text, a, b)
  BY <1>1, <1>2, <1>11, LeftStanding
<1>13. Vault!MatchesAt(Vault!Folded(text), fv, a)
  BY DEF fv
<1>14. PICK j \in 1 .. Len(done.text) : Vault!MatchesAt(Vault!Folded(done.text), fv, j)
  BY <1>5, <1>8, <1>11, <1>12, <1>13, StandingIsFound
<1> DEFINE fd == Vault!Folded(done.text)
<1>15. IsFolded(done.text, fd)
  BY <1>5, FoldedIs
<1> HIDE DEF fd
<1>16. Len(fd) = Len(done.text) /\ Len(fd) \in Nat
  BY <1>5, <1>15, TextIs DEF IsFolded
<1>17. SpansFound(Vault!Spans(fd, fv), fd, fv)
  BY <1>6, <1>8, <1>16, SpansAreFound
<1>18. Vault!Spans(fd, fv) # {}
  BY <1>14, <1>16, <1>17 DEF SpansFound, fd
<1>19. Vault!LiteralSpans(done.text, m.value) # {}
  BY <1>18 DEF Vault!LiteralSpans, fd, fv
<1> QED BY <1>4, <1>5, <1>19 DEF Vault!Leaks

(* A conversation whose texts are not refused comes back as it was.           *)
LEMMA RoundTripHolds ==
  ASSUME NEW c \in Conversation
  PROVE  Vault!RoundTrip(c.declared, c.learnt, c.prompt, c.system)
<1> DEFINE v == Vault!DeclareMany(Vault!NoVault, c.declared)
           call == Vault!PrivateComplete(v, c.prompt, c.system)
           p == Vault!Anonymize(v, c.prompt)
           s == Vault!Anonymize(p.vault, c.system)
           w == Vault!Reloaded(call.vault)
           later == Vault!LearnFrom(w, c.learnt)
           text == c.prompt \o c.system
           sent == call.prompt \o call.system
<1> SUFFICES ASSUME call.sent, NEW reply \in {sent, Vault!Respelt(sent)}
             PROVE  LET back == Vault!Folded(Vault!Restore(later, reply))
                    IN /\ back = Vault!Folded(Vault!Restore(later, text))
                       /\ Vault!HoldsOther(later, text) \/ back = Vault!Folded(text)
  BY DEF Vault!RoundTrip, Vault!ReadBack
<1>1. c.declared \in Seq(Value) /\ c.prompt \in Text /\ c.system \in Text /\ c.learnt \in Text
  BY DEF Conversation, Text
<1>2. IsVault(v)
  <2>1. "PERSON" \in Kinds
    BY DEF Kinds
  <2> QED BY <1>1, <2>1, NoVaultIsVault, DeclareAllKeeps DEF Vault!DeclareMany
<1> HIDE DEF v
<1>3. /\ p.ok /\ s.ok
      /\ call.vault = s.vault /\ call.prompt = p.text /\ call.system = s.text
  <2> HIDE DEF p, s
  <2>1. call = IF ~p.ok \/ ~s.ok
                 THEN [sent |-> FALSE, vault |-> IF p.ok THEN s.vault ELSE p.vault]
                 ELSE [sent |-> TRUE, vault |-> s.vault, prompt |-> p.text, system |-> s.text]
    BY DEF Vault!PrivateComplete, p, s
  <2>2. p.ok /\ s.ok
    <3> SUFFICES ASSUME ~p.ok \/ ~s.ok PROVE FALSE
      OBVIOUS
    <3> HIDE DEF call
    <3>1. call.sent = FALSE
      BY <2>1
    <3> QED BY <3>1 DEF call
  <2> HIDE DEF call
  <2> QED BY <2>1, <2>2
<1>4. IsAnonymized(v, c.prompt, p)
  BY <1>1, <1>2, <1>3, OkIsAnonymized
<1> HIDE DEF p
<1>5. IsVault(p.vault)
  BY <1>4 DEF IsAnonymized
<1>6. IsAnonymized(p.vault, c.system, s)
  BY <1>1, <1>3, <1>5, OkIsAnonymized
<1> HIDE DEF s
<1>7. IsVault(s.vault) /\ Extends(p.vault, s.vault)
  BY <1>6 DEF IsAnonymized
<1>8. IsVault(w) /\ Extends(s.vault, w)
  <2>1. w.mappings = s.vault.mappings /\ w.counters = s.vault.counters
    BY <1>3 DEF Vault!Reloaded
  <2> HIDE DEF w
  <2> QED BY <1>7, <2>1 DEF IsVault, Extends
<1> HIDE DEF w
<1>9. IsVault(later) /\ Extends(w, later)
  BY <1>1, <1>8, LearnKeeps
<1> HIDE DEF later
<1>10. Extends(p.vault, later) /\ Extends(s.vault, later)
  BY <1>7, <1>8, <1>9 DEF Extends
<1>11. p.text \in Text /\ s.text \in Text
  BY <1>4, <1>5, <1>6, <1>7, UnderstoodIsText DEF IsAnonymized
<1>12. sent = p.text \o s.text /\ text = c.prompt \o c.system
  BY <1>3
<1> HIDE DEF call, sent, text
<1>13. ReadsAlike(later, p.text, c.prompt) /\ ReadsAlike(later, s.text, c.system)
  BY <1>4, <1>6, <1>10, AlikeLater DEF IsAnonymized
<1>14. ReadsAlike(later, sent, text)
  BY <1>1, <1>11, <1>12, <1>13, AlikeJoined
<1>15. sent \in Seq(Understood(s.vault))
  <2>1. p.text \in Seq(Understood(s.vault))
    BY <1>4, <1>7, MoreUnderstood DEF IsAnonymized
  <2>2. s.text \in Seq(Understood(s.vault))
    BY <1>6 DEF IsAnonymized
  <2> QED BY <1>12, <2>1, <2>2
<1>16. Vault!Restore(later, reply) = Vault!Restore(later, sent)
  BY <1>7, <1>9, <1>10, <1>15, RespeltIsRead
<1>17. Extends(later, later)
  BY DEF Extends
<1>18. Vault!Folded(Vault!Restore(later, sent)) = Vault!Folded(Vault!Restore(later, text))
  BY <1>9, <1>14, <1>17 DEF ReadsAlike
<1>19. ASSUME ~Vault!HoldsOther(later, text) PROVE Vault!Restore(later, text) = text
  <2>1. text \in Text
    <3>1. IsJoined(c.prompt, c.system, c.prompt \o c.system)
      BY <1>1, JoinedIs
    <3> QED BY <1>12, <3>1 DEF IsJoined
  <2>2. \A i \in 1 .. Len(text) : Vault!StandsFor(later, text[i]) = <<text[i]>>
    BY <1>19, <2>1, TextIs DEF Vault!HoldsOther
  <2> QED BY <1>9, <2>1, <2>2, RestoreNothing
<1> QED BY <1>16, <1>18, <1>19

LEMMA EveryMentionIsHitHolds ==
  ASSUME NEW c \in Conversation PROVE Vault!EveryMentionIsHit(c.declared, c.prompt)
<1> DEFINE v == Vault!DeclareMany(Vault!NoVault, c.declared)
           kept == Vault!SpansToReplace(v, c.prompt)
<1>1. c.declared \in Seq(Value) /\ c.prompt \in Text
  BY DEF Conversation, Text
<1>2. IsVault(v)
  <2>1. "PERSON" \in Kinds
    BY DEF Kinds
  <2> QED BY <1>1, <2>1, NoVaultIsVault, DeclareAllKeeps DEF Vault!DeclareMany
<1>3. DOMAIN c.prompt = 1 .. Len(c.prompt)
  BY <1>1, TextIs
<1> HIDE DEF v
<1>4. ASSUME Vault!Anonymize(v, c.prompt).ok, NEW m \in v.mappings, NEW i \in DOMAIN c.prompt,
             Vault!MatchesAt(Vault!Folded(c.prompt), Vault!Folded(m.value), i)
      PROVE  \E k \in kept : Vault!Overlap(k, <<i, i + Len(m.value) - 1>>)
  <2>1. i \in 1 .. Len(c.prompt)
    BY <1>3
  <2>2. ~Untouched(kept, i, i + Len(m.value) - 1)
    BY <1>1, <1>2, <1>4, <2>1, OkLeavesNothing
  <2> QED BY <2>2 DEF Untouched
<1> QED BY <1>4 DEF Vault!EveryMentionIsHit, v

(* Whatever is declared, written and learnt, and whatever the patterns find:   *)
(* no mention of a declared value is passed over in what a hosted model is     *)
(* sent, and its answer, in whatever spelling of the placeholders, comes back   *)
(* in the user's words (vault_proxy.py).                                       *)
THEOREM TextAlwaysComesBack == VSpec => []TextComesBack
<1>1. InputType => TextComesBack
  <2> SUFFICES ASSUME InputType, Tried("vault") PROVE
        /\ Vault!RoundTrip(input.declared, input.learnt, input.prompt, input.system)
        /\ Vault!EveryMentionIsHit(input.declared, input.prompt)
    BY DEF TextComesBack
  <2>1. input \in Conversation
    BY DEF InputType
  <2> QED BY <2>1, RoundTripHolds, EveryMentionIsHitHolds
<1> QED BY <1>1, InputTyped, PTL
=============================================================================
