----------------------- MODULE OblivioClient_proof -----------------------
(***************************************************************************)
(* Proofs about OblivioClient, for any node, honest or not, any number of  *)
(* clients, identities, leaves and tree sizes.  The theorems that speak of *)
(* a pin file need it to belong to one client object at a time.            *)
(***************************************************************************)
EXTENDS MCAccusations, TLAPS

OneClientPerFile == \A c, d \in Clients : FileOf[c] = FileOf[d] => c = d

(* An open client's pin is the head in its file or one that extends it. *)
PinsExtendFiles ==
  \A c \in Clients : pc[c] # "closed" /\ pinFile[FileOf[c]] # NoPin =>
    pin[c] # NoPin /\ Extends(pin[c], pinFile[FileOf[c]])

(* A call past its first checks has an answer that passed them. *)
AnswersChecked ==
  \A c \in Clients :
    /\ pc[c] = "proving" => /\ Fits(reply[c])
                            /\ ~Contradicts(pin[c], reply[c].head)
    /\ pc[c] = "pinning" => Fits(reply[c]) /\ pin[c] = reply[c].head

(* Every head ever pinned in a file is extended by the one in it now. *)
FilesExtendAccepted ==
  \A f \in PinFiles : \A h \in accepted[f] :
    h # NoPin /\ pinFile[f] # NoPin /\ Extends(pinFile[f], h)

IInv == /\ TypeOK /\ PinsExtendFiles /\ AnswersChecked
        /\ FilesExtendAccepted /\ ReceiptsHold

--------------------------------------------------------------------------
LEMMA ExtendsReflexive ==
  ASSUME NEW h \in SignedHead PROVE Extends(h, h)
  BY DEF Extends, IsInitialPart, SignedHead

LEMMA ExtendsTransitive ==
  ASSUME NEW g \in SignedHead, NEW h \in SignedHead, NEW k \in SignedHead,
         Extends(h, g), Extends(k, h)
  PROVE  Extends(k, g)
<1>1. /\ Len(g.tree) \in Nat /\ Len(h.tree) \in Nat /\ Len(k.tree) \in Nat
  BY DEF SignedHead
<1>2. QED
  BY <1>1 DEF Extends, IsInitialPart

LEMMA NoReplyIsNoReply == NoReply \notin Reply
  BY DEF NoReply, Reply

LEMMA NoPinIsNoHead == NoPin \notin SignedHead /\ NoPin \in Pin
  BY ConstantsAssumption DEF NoPin, SignedHead, Pin

(* What _update_pin takes without a proof extends the pin it replaces. *)
LEMMA UnprovedExtends ==
  ASSUME NEW p \in SignedHead, NEW h \in SignedHead,
         ~Contradicts(p, h), ~NeedsProof(p, h)
  PROVE  Extends(h, p)
<1>1. p # NoPin
  BY NoPinIsNoHead
<1>2. Len(p.tree) \in Nat /\ Len(h.tree) \in Nat
  BY DEF SignedHead
<1>3. h.key = p.key /\ Len(h.tree) >= Len(p.tree)
  BY <1>1, <1>2 DEF Contradicts
<1>4. CASE Len(h.tree) = Len(p.tree)
  BY <1>1, <1>2, <1>3, <1>4 DEF Contradicts, Extends, IsInitialPart
<1>5. CASE Len(h.tree) > Len(p.tree)
  <2>1. Len(p.tree) = 0
    BY <1>1, <1>2, <1>5 DEF NeedsProof
  <2>2. QED
    BY <1>2, <1>3, <2>1 DEF Extends, IsInitialPart
<1>6. QED
  BY <1>2, <1>3, <1>4, <1>5

(* And so does what it takes with one. *)
LEMMA ProvedExtends ==
  ASSUME NEW p \in SignedHead, NEW h \in SignedHead, NEW cut,
         ~Contradicts(p, h), VerifyConsistency(p.tree, h.tree, cut)
  PROVE  Extends(h, p)
  BY NoPinIsNoHead DEF Contradicts, VerifyConsistency, Extends

--------------------------------------------------------------------------
(* Answers have the shape of answers, and trees are sequences of leaves. *)
LEMMA AnswerTypes ==
  ASSUME TypeOK, NEW c \in Clients, NEW q \in Requests, NEW h \in SignedHead,
         NEW at \in Nat, NEW got \in Leaf, NEW path \in Seq(Leaf),
         pc[c] = "ready", Answered(c, q, h, at, got, path),
         tree' \in Seq(Leaf), headTree' \in Seq(Leaf)
  PROVE  TypeOK'
<1>1. q.op \in {"head", "put", "get"} /\ q.index \in Nat /\ q.leaf \in Leaf
  <2>1. (CHOOSE l \in Leaf : TRUE) \in Leaf
    BY ConstantsAssumption
  <2>2. \A i \in 0..MaxSize : i \in Nat
    BY ConstantsAssumption
  <2>3. QED
    BY <2>1, <2>2 DEF Requests
<1>2. [op |-> q.op, index |-> q.index, leaf |-> q.leaf,
       head |-> h, at |-> at, got |-> got, path |-> path] \in Reply
  BY <1>1 DEF Reply
<1>3. QED
  BY <1>2, NoReplyIsNoReply DEF Answered, TypeOK, fileVars

LEMMA TreesAreSequences == \A t \in Trees : t \in Seq(Leaf)
  BY ConstantsAssumption DEF Trees

LEMMA EmptyIsSequence == <<>> \in Seq(Leaf)
  OBVIOUS

LEMMA TypeStep == TypeOK /\ [Next]_vars => TypeOK'
<1> SUFFICES ASSUME TypeOK, [Next]_vars PROVE TypeOK'
  OBVIOUS
<1>1. ASSUME NEW c \in Clients, Open(c) PROVE TypeOK'
  BY <1>1, ConstantsAssumption DEF Open, TypeOK, node, fileVars
<1>2. ASSUME NEW c \in Clients, Exit(c) PROVE TypeOK'
  BY <1>2, NoPinIsNoHead DEF Exit, TypeOK, node, fileVars
<1>3. ASSUME NEW c \in Clients, NEW q \in Requests, AskHonest(c, q) PROVE TypeOK'
  <2>1. q.leaf \in Leaf /\ q.index \in Nat
    <3>1. (CHOOSE l \in Leaf : TRUE) \in Leaf
      BY ConstantsAssumption
    <3>2. QED
      BY <3>1, ConstantsAssumption DEF Requests
  <2>2. /\ tree \in Seq(Leaf) /\ Len(tree) \in Nat /\ Append(tree, q.leaf) \in Seq(Leaf)
        /\ headTree \in Seq(Leaf)
    BY <2>1 DEF TypeOK
  <2>3. \A t \in Seq(Leaf) : [key |-> NodeKey, tree |-> t] \in SignedHead
    BY ConstantsAssumption DEF SignedHead
  <2>4. q.index < Len(tree) => tree[q.index + 1] \in Leaf
    BY <2>1, <2>2
  <2>5. QED
    BY <1>3, <2>1, <2>2, <2>3, <2>4, AnswerTypes DEF AskHonest, node
<1>4. ASSUME NEW c \in Clients, NEW q \in Requests, AskHostile(c, q) PROVE TypeOK'
  <2>1. q.leaf \in Leaf
    <3>1. (CHOOSE l \in Leaf : TRUE) \in Leaf
      BY ConstantsAssumption
    <3>2. QED
      BY <3>1, ConstantsAssumption DEF Requests
  <2>2. \A k \in Keys, t \in Trees : [key |-> k, tree |-> t] \in SignedHead
    BY TreesAreSequences DEF SignedHead
  <2>3. \A i \in 0..MaxSize : i \in Nat
    BY ConstantsAssumption
  <2>4. tree' \in Seq(Leaf) /\ headTree' \in Seq(Leaf)
    BY <1>4 DEF AskHostile, TypeOK, node
  <2>5. \A t \in Trees : \A path \in {t, <<>>} : path \in Seq(Leaf)
    BY TreesAreSequences, EmptyIsSequence
  <2>6. QED
    BY <1>4, <2>1, <2>2, <2>3, <2>4, <2>5, TreesAreSequences, AnswerTypes DEF AskHostile
<1>5. ASSUME NEW c \in Clients, pc[c] # "closed", Accuse(c) PROVE TypeOK'
  BY <1>5 DEF Accuse, TypeOK, node, fileVars
<1>6. ASSUME NEW c \in Clients, pc[c] \in {"answered", "proving"}, Accept(c)
      PROVE  TypeOK'
  <2>1. reply[c].head \in Pin
    BY <1>6 DEF TypeOK, Reply, Pin
  <2>2. QED
    BY <1>6, <2>1 DEF Accept, TypeOK, node, fileVars
<1>7. ASSUME NEW c \in Clients, AskConsistency(c) PROVE TypeOK'
  <2>1. reply[c] \in Reply
    BY <1>7 DEF AskConsistency, TypeOK
  <2>2. /\ reply[c].head.tree \in Seq(Leaf) /\ tree \in Seq(Leaf)
        /\ <<>> \in Seq(Leaf)
    BY <2>1, EmptyIsSequence DEF TypeOK, Reply, SignedHead
  <2>3. proof' \in [Clients -> Seq(Leaf)]
    BY <1>7, <2>2 DEF AskConsistency, TypeOK
  <2>4. QED
    BY <1>7, <2>3 DEF AskConsistency, TypeOK, node, fileVars
<1>8. ASSUME NEW c \in Clients, WritePin(c) PROVE TypeOK'
  <2>1. reply[c] \in Reply /\ FileOf[c] \in PinFiles
    BY <1>8, ConstantsAssumption DEF WritePin, TypeOK
  <2>2. /\ [at |-> reply[c].at, leaf |-> reply[c].leaf] \in [at : Nat, leaf : Leaf]
        /\ pin[c] \in Pin
    BY <2>1 DEF TypeOK, Reply
  <2>3. /\ receipts' \in [PinFiles -> SUBSET [at : Nat, leaf : Leaf]]
        /\ accepted' \in [PinFiles -> SUBSET Pin]
    BY <1>8, <2>1, <2>2 DEF WritePin, TypeOK
  <2>4. QED
    BY <1>8, <2>2, <2>3 DEF WritePin, TypeOK, node
<1>9. ASSUME NEW c \in Clients, Fail(c) PROVE TypeOK'
  BY <1>9 DEF Fail, TypeOK, node, fileVars
<1>10. CASE UNCHANGED vars
  BY <1>10 DEF vars, node, clientVars, fileVars, TypeOK
<1>11. ASSUME NEW c \in Clients, NEW q \in Requests, PutFails(c, q) PROVE TypeOK'
  <2>1. q.leaf \in Leaf
    <3>1. (CHOOSE l \in Leaf : TRUE) \in Leaf
      BY ConstantsAssumption
    <3>2. QED
      BY <3>1 DEF Requests
  <2>2. tree' \in Seq(Leaf)
    BY <1>11, <2>1 DEF PutFails, TypeOK
  <2>3. QED
    BY <1>11, <2>2 DEF PutFails, TypeOK, fileVars
<1>12. QED
  BY <1>1, <1>2, <1>3, <1>4, <1>5, <1>6, <1>7, <1>8, <1>9, <1>10, <1>11
     DEF Next, Step, Ask, Refuse, AcceptUnproved, AcceptProved, RefuseProof

(* The client's variables keep their types, whatever the node answers. *)
THEOREM TypeCorrect == Spec => []TypeOK
<1>1. Init => TypeOK
  BY NoPinIsNoHead, ConstantsAssumption, EmptyIsSequence DEF Init, TypeOK
<1>2. QED
  BY <1>1, TypeStep, PTL DEF Spec

--------------------------------------------------------------------------
(* The two ways a step disturbs a client: it moves the pin in memory, or   *)
(* it writes it to the file.  Everything else leaves pins alone.           *)
Moves(c) == \/ AcceptUnproved(c) \/ AcceptProved(c)

LEMMA AcceptedHeadExtends ==
  ASSUME IInv, NEW c \in Clients, Moves(c)
  PROVE  /\ reply[c] \in Reply /\ reply[c].head \in SignedHead /\ Fits(reply[c])
         /\ pin[c] # NoPin => Extends(reply[c].head, pin[c])
<1>1. pc[c] \in {"answered", "proving"} /\ TypeOK /\ AnswersChecked
  BY DEF Moves, AcceptUnproved, AcceptProved, IInv
<1>2. reply[c] \in Reply
  BY <1>1 DEF TypeOK
<1>3. reply[c].head \in SignedHead
  BY <1>2 DEF Reply
<1>4. Fits(reply[c])
  BY <1>1 DEF Moves, AcceptUnproved, AcceptProved, AnswersChecked
<1>5. ASSUME pin[c] # NoPin PROVE Extends(reply[c].head, pin[c])
  <2>1. pin[c] \in SignedHead
    BY <1>1, <1>5 DEF TypeOK, Pin
  <2>2. CASE AcceptUnproved(c)
    BY <1>3, <2>1, <2>2, UnprovedExtends DEF AcceptUnproved
  <2>3. CASE AcceptProved(c)
    BY <1>1, <1>3, <2>1, <2>3, ProvedExtends DEF AcceptProved, AnswersChecked
  <2>4. QED
    BY <2>2, <2>3 DEF Moves
<1>6. QED
  BY <1>2, <1>3, <1>4, <1>5

(* What a step of c that does not write its pin leaves as it was. *)
LEMMA FilesUntouched ==
  ASSUME TypeOK, NEW c \in Clients, Step(c), ~WritePin(c)
  PROVE  UNCHANGED fileVars
  BY DEF Step, Ask, Open, Exit, AskHonest, PutFails, AskHostile, node, Answered, Refuse,
         AcceptUnproved, AskConsistency, AcceptProved, RefuseProof, Fail,
         Accuse, Accept

LEMMA OthersUntouched ==
  ASSUME TypeOK, NEW c \in Clients, Step(c), NEW d \in Clients, d # c
  PROVE  pc'[d] = pc[d] /\ pin'[d] = pin[d] /\ reply'[d] = reply[d]
  BY DEF Step, Ask, Open, Exit, AskHonest, PutFails, AskHostile, node, Answered, Refuse,
         AcceptUnproved, AskConsistency, AcceptProved, RefuseProof, Fail,
         Accuse, Accept, WritePin, TypeOK

(* The pin in memory after a step of c. *)
LEMMA PinStep ==
  ASSUME TypeOK, NEW c \in Clients, Step(c)
  PROVE  \/ pc'[c] = "closed"
         \/ pc[c] = "closed" /\ pin'[c] = pinFile[FileOf[c]]
         \/ Moves(c) /\ pin'[c] = reply[c].head
         \/ pc[c] # "closed" /\ pin'[c] = pin[c]
  BY DEF Step, Ask, Open, Exit, AskHonest, PutFails, AskHostile, node, Answered, Refuse,
         AcceptUnproved, AskConsistency, AcceptProved, RefuseProof, Fail,
         Accuse, Accept, WritePin, TypeOK, Moves

(* A pin about to be written extends the one it replaces. *)
LEMMA WrittenExtends ==
  ASSUME IInv, NEW c \in Clients, WritePin(c)
  PROVE  /\ pin[c] \in SignedHead /\ pin[c] # NoPin
         /\ pinFile[FileOf[c]] # NoPin => /\ pinFile[FileOf[c]] \in SignedHead
                                          /\ Extends(pin[c], pinFile[FileOf[c]])
         /\ Fits(reply[c]) /\ reply[c] \in Reply /\ pin[c] = reply[c].head
         /\ pinFile' = [pinFile EXCEPT ![FileOf[c]] = pin[c]]
<1>1. pc[c] = "pinning" /\ TypeOK
  BY DEF WritePin, IInv
<1>2. Fits(reply[c]) /\ pin[c] = reply[c].head
  BY <1>1 DEF IInv, AnswersChecked
<1>3. reply[c] \in Reply
  BY <1>1 DEF TypeOK
<1>4. pin[c] \in SignedHead
  BY <1>2, <1>3 DEF Reply
<1>5. FileOf[c] \in PinFiles
  BY ConstantsAssumption
<1>6. pinFile[FileOf[c]] # NoPin =>
        pinFile[FileOf[c]] \in SignedHead /\ Extends(pin[c], pinFile[FileOf[c]])
  BY <1>1, <1>5 DEF IInv, PinsExtendFiles, TypeOK, Pin
<1>7. QED
  BY <1>2, <1>3, <1>4, <1>6, NoPinIsNoHead DEF WritePin

LEMMA PinsStep ==
  OneClientPerFile /\ IInv /\ [Next]_vars => PinsExtendFiles'
<1> SUFFICES ASSUME OneClientPerFile, IInv, [Next]_vars, NEW d \in Clients,
                    pc'[d] # "closed", pinFile'[FileOf[d]] # NoPin
             PROVE  pin'[d] # NoPin /\ Extends(pin'[d], pinFile'[FileOf[d]])
  BY DEF PinsExtendFiles
<1>1. TypeOK /\ PinsExtendFiles /\ FileOf[d] \in PinFiles
  BY ConstantsAssumption DEF IInv
<1>2. ASSUME NEW c \in Clients, WritePin(c)
      PROVE  pin'[d] # NoPin /\ Extends(pin'[d], pinFile'[FileOf[d]])
  <2>1. CASE c = d
    BY <1>1, <1>2, <2>1, WrittenExtends, ExtendsReflexive DEF WritePin, TypeOK
  <2>2. CASE c # d
    <3>1. FileOf[c] # FileOf[d] /\ FileOf[c] \in PinFiles
      BY <2>2, ConstantsAssumption DEF OneClientPerFile
    <3>2. pinFile'[FileOf[d]] = pinFile[FileOf[d]]
      BY <1>1, <1>2, <3>1 DEF WritePin, TypeOK
    <3>3. pin'[d] = pin[d] /\ pc'[d] = pc[d]
      BY <1>1, <1>2, <2>2, OthersUntouched DEF Step
    <3>4. QED
      BY <1>1, <3>2, <3>3 DEF PinsExtendFiles
  <2>3. QED
    BY <2>1, <2>2
<1>3. ASSUME NEW c \in Clients, Step(c), ~WritePin(c)
      PROVE  pin'[d] # NoPin /\ Extends(pin'[d], pinFile'[FileOf[d]])
  <2>1. pinFile' = pinFile
    BY <1>1, <1>3, FilesUntouched DEF fileVars
  <2>2. pinFile[FileOf[d]] \in SignedHead
    BY <1>1, <2>1 DEF TypeOK, Pin
  <2>3. CASE c # d
    BY <1>1, <1>3, <2>1, <2>3, OthersUntouched DEF PinsExtendFiles
  <2>4. CASE c = d /\ pc[d] = "closed" /\ pin'[d] = pinFile[FileOf[d]]
    BY <2>1, <2>2, <2>4, ExtendsReflexive
  <2>5. CASE c = d /\ Moves(d) /\ pin'[d] = reply[d].head
    <3>1. pin[d] # NoPin /\ Extends(pin[d], pinFile[FileOf[d]])
      BY <1>1, <2>1, <2>5 DEF PinsExtendFiles, Moves, AcceptUnproved, AcceptProved
    <3>2. pin[d] \in SignedHead
      BY <1>1, <3>1 DEF TypeOK, Pin
    <3>3. reply[d].head \in SignedHead /\ Extends(reply[d].head, pin[d])
      BY <2>5, <3>1, AcceptedHeadExtends
    <3>4. QED
      BY <2>1, <2>2, <2>5, <3>1, <3>2, <3>3, ExtendsTransitive, NoPinIsNoHead
  <2>6. CASE c = d /\ pc[d] # "closed" /\ pin'[d] = pin[d]
    BY <1>1, <2>1, <2>6 DEF PinsExtendFiles
  <2>7. QED
    BY <1>1, <1>3, <2>3, <2>4, <2>5, <2>6, PinStep
<1>4. CASE UNCHANGED vars
  BY <1>1, <1>4 DEF vars, clientVars, fileVars, PinsExtendFiles
<1>5. QED
  BY <1>2, <1>3, <1>4 DEF Next

LEMMA AnswersStep == IInv /\ [Next]_vars => AnswersChecked'
<1> SUFFICES ASSUME IInv, [Next]_vars, NEW d \in Clients
             PROVE  /\ pc'[d] = "proving" => /\ Fits(reply'[d])
                                             /\ ~Contradicts(pin'[d], reply'[d].head)
                    /\ pc'[d] = "pinning" => Fits(reply'[d]) /\ pin'[d] = reply'[d].head
  BY DEF AnswersChecked
<1>1. TypeOK /\ AnswersChecked
  BY DEF IInv
<1>2. ASSUME NEW c \in Clients, Step(c), c # d
      PROVE  pc'[d] = pc[d] /\ pin'[d] = pin[d] /\ reply'[d] = reply[d]
  BY <1>1, <1>2, OthersUntouched
<1>3. ASSUME Step(d), pc'[d] = "proving"
      PROVE  AskConsistency(d) /\ pin'[d] = pin[d] /\ reply'[d] = reply[d]
  BY <1>1, <1>3 DEF Step, Ask, Open, Exit, AskHonest, PutFails, AskHostile, node, Answered, Refuse,
         AcceptUnproved, AskConsistency, AcceptProved, RefuseProof, Fail,
         Accuse, Accept, WritePin, TypeOK
<1>4. ASSUME Step(d), pc'[d] = "pinning"
      PROVE  Moves(d) /\ pin'[d] = reply[d].head /\ reply'[d] = reply[d]
  BY <1>1, <1>4 DEF Step, Ask, Open, Exit, AskHonest, PutFails, AskHostile, node, Answered, Refuse,
         AcceptUnproved, AskConsistency, AcceptProved, RefuseProof, Fail,
         Accuse, Accept, WritePin, TypeOK, Moves
<1>5. CASE UNCHANGED vars
  BY <1>1, <1>5 DEF vars, clientVars, AnswersChecked
<1>6. CASE Step(d)
  BY <1>3, <1>4, <1>6, AcceptedHeadExtends DEF AskConsistency
<1>7. QED
  BY <1>1, <1>2, <1>5, <1>6 DEF Next, AnswersChecked

LEMMA AcceptedStep == IInv /\ [Next]_vars => FilesExtendAccepted'
<1> SUFFICES ASSUME IInv, [Next]_vars, NEW f \in PinFiles, NEW h \in accepted'[f]
             PROVE  h # NoPin /\ pinFile'[f] # NoPin /\ Extends(pinFile'[f], h)
  BY DEF FilesExtendAccepted
<1>1. TypeOK /\ FilesExtendAccepted
  BY DEF IInv
<1>2. ASSUME NEW c \in Clients, WritePin(c)
      PROVE  h # NoPin /\ pinFile'[f] # NoPin /\ Extends(pinFile'[f], h)
  <2>1. /\ FileOf[c] \in PinFiles
        /\ accepted' = [accepted EXCEPT ![FileOf[c]] = @ \cup {pin[c]}]
    BY <1>2, ConstantsAssumption DEF WritePin
  <2>2. CASE f # FileOf[c]
    BY <1>1, <1>2, <2>1, <2>2, WrittenExtends DEF FilesExtendAccepted, TypeOK
  <2>3. CASE f = FileOf[c] /\ h = pin[c]
    BY <1>1, <1>2, <2>3, WrittenExtends, ExtendsReflexive DEF TypeOK
  <2>4. CASE f = FileOf[c] /\ h \in accepted[f]
    <3>1. h # NoPin /\ pinFile[f] # NoPin /\ Extends(pinFile[f], h)
      BY <1>1, <2>4 DEF FilesExtendAccepted
    <3>2. h \in SignedHead
      BY <1>1, <2>4, <3>1 DEF TypeOK, Pin
    <3>3. pinFile'[f] = pin[c]
      BY <1>1, <1>2, <2>4, WrittenExtends DEF TypeOK
    <3>4. QED
      BY <1>2, <2>4, <3>1, <3>2, <3>3, WrittenExtends, ExtendsTransitive
  <2>5. QED
    BY <1>1, <2>1, <2>2, <2>3, <2>4 DEF TypeOK
<1>3. ASSUME UNCHANGED fileVars
      PROVE  h # NoPin /\ pinFile'[f] # NoPin /\ Extends(pinFile'[f], h)
  BY <1>1, <1>3 DEF fileVars, FilesExtendAccepted
<1>4. QED
  BY <1>1, <1>2, <1>3, FilesUntouched DEF Next, vars

LEMMA ReceiptsStep == IInv /\ [Next]_vars => ReceiptsHold'
<1> SUFFICES ASSUME IInv, [Next]_vars, NEW f \in PinFiles, NEW r \in receipts'[f]
             PROVE  r.at < Len(pinFile'[f].tree) /\ pinFile'[f].tree[r.at + 1] = r.leaf
  BY DEF ReceiptsHold
<1>1. TypeOK /\ ReceiptsHold
  BY DEF IInv
<1>2. ASSUME NEW c \in Clients, WritePin(c)
      PROVE  r.at < Len(pinFile'[f].tree) /\ pinFile'[f].tree[r.at + 1] = r.leaf
  <2>1. /\ FileOf[c] \in PinFiles
        /\ receipts' = receipts \/
           /\ reply[c].op = "put"
           /\ receipts' = [receipts EXCEPT ![FileOf[c]] =
                @ \cup {[at |-> reply[c].at, leaf |-> reply[c].leaf]}]
    BY <1>2, ConstantsAssumption DEF WritePin
  <2>2. CASE f # FileOf[c]
    BY <1>1, <1>2, <2>1, <2>2, WrittenExtends DEF ReceiptsHold, TypeOK
  <2>3. CASE f = FileOf[c] /\ r \in receipts[f]
    <3>1. r.at \in Nat /\ r.at < Len(pinFile[f].tree) /\ pinFile[f].tree[r.at + 1] = r.leaf
      BY <1>1, <2>3 DEF ReceiptsHold, TypeOK
    <3>2. pinFile[f] # NoPin
      BY <1>1, <3>1 DEF NoPin
    <3>3. pin[c].tree \in Seq(Leaf) /\ pinFile[f].tree \in Seq(Leaf)
      BY <1>2, <2>3, <3>2, WrittenExtends DEF SignedHead
    <3>4. IsInitialPart(pinFile[f].tree, pin[c].tree)
      BY <1>2, <2>3, <3>2, WrittenExtends DEF Extends
    <3>5. pinFile'[f] = pin[c]
      BY <1>1, <1>2, <2>3, WrittenExtends DEF TypeOK
    <3>6. r.at + 1 \in 1..Len(pinFile[f].tree)
      BY <3>1, <3>3
    <3>7. QED
      BY <3>1, <3>3, <3>4, <3>5, <3>6 DEF IsInitialPart
  <2>4. CASE /\ f = FileOf[c] /\ reply[c].op = "put"
             /\ r = [at |-> reply[c].at, leaf |-> reply[c].leaf]
    <3>1. VerifyInclusion(reply[c].leaf, reply[c].at, reply[c].path, pin[c])
      BY <1>2, <2>4, WrittenExtends DEF Fits
    <3>2. pinFile'[f] = pin[c]
      BY <1>1, <1>2, <2>4, WrittenExtends DEF TypeOK
    <3>3. QED
      BY <2>4, <3>1, <3>2 DEF VerifyInclusion
  <2>5. QED
    BY <1>1, <2>1, <2>2, <2>3, <2>4 DEF TypeOK
<1>3. ASSUME UNCHANGED fileVars
      PROVE  r.at < Len(pinFile'[f].tree) /\ pinFile'[f].tree[r.at + 1] = r.leaf
  BY <1>1, <1>3 DEF fileVars, ReceiptsHold
<1>4. QED
  BY <1>1, <1>2, <1>3, FilesUntouched DEF Next, vars

--------------------------------------------------------------------------
LEMMA Invariance == OneClientPerFile /\ Spec => []IInv
<1>1. Init => IInv
  <2>1. Init => TypeOK
    BY NoPinIsNoHead, ConstantsAssumption, EmptyIsSequence DEF Init, TypeOK
  <2>2. Init => PinsExtendFiles /\ AnswersChecked /\ FilesExtendAccepted /\ ReceiptsHold
    BY DEF Init, PinsExtendFiles, AnswersChecked, FilesExtendAccepted, ReceiptsHold
  <2>3. QED
    BY <2>1, <2>2 DEF IInv
<1>2. OneClientPerFile /\ IInv /\ [Next]_vars => IInv'
  BY TypeStep, PinsStep, AnswersStep, AcceptedStep, ReceiptsStep DEF IInv
<1>3. CASE OneClientPerFile
  BY <1>1, <1>2, <1>3, PTL DEF Spec
<1>4. QED
  BY <1>3

(* With a pin file of its own a client never accepts two heads that are    *)
(* not moments of one history under one identity, whatever the node sends. *)
THEOREM AcceptedHeadsAreOneHistory == OneClientPerFile /\ Spec => []OneHistory
<1>1. IInv => OneHistory
  <2> SUFFICES ASSUME IInv, NEW f \in PinFiles, NEW g \in accepted[f], NEW h \in accepted[f]
               PROVE  Extends(g, h) \/ Extends(h, g)
    BY DEF OneHistory
  <2>1. /\ g # NoPin /\ Extends(pinFile[f], g)
        /\ h # NoPin /\ Extends(pinFile[f], h)
    BY DEF IInv, FilesExtendAccepted
  <2>2. g \in SignedHead /\ h \in SignedHead
    BY <2>1 DEF IInv, TypeOK, Pin
  <2>3. Len(g.tree) \in Nat /\ Len(h.tree) \in Nat
    BY <2>2 DEF SignedHead
  <2>4. QED
    BY <2>1, <2>3 DEF Extends, IsInitialPart
<1>2. QED
  BY <1>1, Invariance, PTL

(* And a put that returned is in every tree it accepts afterwards. *)
THEOREM ReceiptsAlwaysHold == OneClientPerFile /\ Spec => []ReceiptsHold
<1>1. IInv => ReceiptsHold
  BY DEF IInv
<1>2. QED
  BY <1>1, Invariance, PTL

(* The pin on disk is only ever replaced by a head that extends it. *)
THEOREM PinsOnlyGrow == OneClientPerFile /\ Spec => PinNeverGoesBack
<1>1. IInv /\ [Next]_vars =>
        [\A f \in PinFiles : pinFile[f] # NoPin => Extends(pinFile'[f], pinFile[f])]_vars
  <2> SUFFICES ASSUME IInv, Next, NEW f \in PinFiles, pinFile[f] # NoPin
               PROVE  Extends(pinFile'[f], pinFile[f])
    OBVIOUS
  <2>1. TypeOK /\ pinFile[f] \in SignedHead
    BY DEF IInv, TypeOK, Pin
  <2>2. ASSUME NEW c \in Clients, WritePin(c) PROVE Extends(pinFile'[f], pinFile[f])
    BY <2>1, <2>2, WrittenExtends, ExtendsReflexive, ConstantsAssumption DEF TypeOK
  <2>3. ASSUME UNCHANGED fileVars PROVE Extends(pinFile'[f], pinFile[f])
    BY <2>1, <2>3, ExtendsReflexive DEF fileVars
  <2>4. QED
    BY <2>1, <2>2, <2>3, FilesUntouched DEF Next
<1>2. QED
  BY <1>1, Invariance, PTL DEF Spec, PinNeverGoesBack
--------------------------------------------------------------------------
(* With an honest node a client's pin, and every pin in a file, is a head   *)
(* it has published, and so is the head of an answer, which extends the pin *)
(* it will be checked against; a consistency proof is cut from the log as   *)
(* it is then or later.                                                     *)
OfTheLog(p) == p = NoPin \/ (p.key = NodeKey /\ IsInitialPart(p.tree, headTree))

HeadOfTheLog(c) ==
  /\ reply[c].head.key = NodeKey /\ IsInitialPart(reply[c].head.tree, headTree)
  /\ pin[c] # NoPin => IsInitialPart(pin[c].tree, reply[c].head.tree)

PinsOfTheLog ==
  /\ \A c \in Clients : OfTheLog(pin[c])
  /\ \A f \in PinFiles : OfTheLog(pinFile[f])

(* The answer passes its own checks, unless its head is an old one. *)
FitsUnlessOld(r) ==
  Fits(r) \/ (r.op = "get" /\ Len(r.path) > Len(r.head.tree))

AnswersOfTheLog ==
  \A c \in Clients :
    /\ pc[c] \in {"answered", "proving", "pinning"} => HeadOfTheLog(c)
    /\ pc[c] = "answered" => FitsUnlessOld(reply[c])
    /\ pc[c] = "proving" => IsInitialPart(reply[c].head.tree, proof[c])

HeadIsOfTheLog == IsInitialPart(headTree, tree)

HInv == TypeOK /\ HeadIsOfTheLog /\ (HonestNode => PinsOfTheLog /\ AnswersOfTheLog)

LEMMA PartOfPart ==
  ASSUME NEW s \in Seq(Leaf), NEW t \in Seq(Leaf), NEW u \in Seq(Leaf),
         IsInitialPart(s, t), IsInitialPart(t, u)
  PROVE  IsInitialPart(s, u)
<1>1. Len(s) \in Nat /\ Len(t) \in Nat /\ Len(u) \in Nat
  OBVIOUS
<1>2. QED
  BY <1>1 DEF IsInitialPart

LEMMA PartOfItself == ASSUME NEW s \in Seq(Leaf) PROVE IsInitialPart(s, s)
  BY DEF IsInitialPart

LEMMA RequestTypes == \A q \in Requests : q.leaf \in Leaf /\ q.index \in Nat
<1>1. (CHOOSE l \in Leaf : TRUE) \in Leaf
  BY ConstantsAssumption
<1>2. \A i \in 0..MaxSize : i \in Nat
  BY ConstantsAssumption
<1>3. QED
  BY <1>1, <1>2 DEF Requests

(* The log only grows, and so does the part that is published. *)
LEMMA LogGrows ==
  ASSUME TypeOK, HeadIsOfTheLog, NEW c \in Clients, Step(c)
  PROVE  /\ headTree' \in Seq(Leaf) /\ tree' \in Seq(Leaf)
         /\ IsInitialPart(headTree, headTree') /\ HeadIsOfTheLog'
<1>1. tree \in Seq(Leaf) /\ headTree \in Seq(Leaf)
  BY DEF TypeOK
<1>2. \/ tree' = tree /\ headTree' = headTree
      \/ \E l \in Leaf : tree' = Append(tree, l) /\ headTree' \in {headTree, tree'}
  BY RequestTypes DEF Step, Ask, Open, Exit, AskHonest, PutFails, AskHostile, node, Answered,
     Refuse, AcceptUnproved, AskConsistency, AcceptProved, RefuseProof, Fail, Accuse, Accept,
     WritePin
<1>3. CASE tree' = tree /\ headTree' = headTree
  BY <1>1, <1>3, PartOfItself DEF HeadIsOfTheLog
<1>4. ASSUME NEW l \in Leaf, tree' = Append(tree, l), headTree' \in {headTree, tree'}
      PROVE  /\ headTree' \in Seq(Leaf) /\ tree' \in Seq(Leaf)
             /\ IsInitialPart(headTree, headTree') /\ HeadIsOfTheLog'
  <2>1. tree' \in Seq(Leaf) /\ IsInitialPart(tree, tree')
    BY <1>1, <1>4 DEF IsInitialPart
  <2>2. IsInitialPart(headTree, tree')
    BY <1>1, <2>1, PartOfPart DEF HeadIsOfTheLog
  <2>3. CASE headTree' = headTree
    BY <1>1, <2>1, <2>2, <2>3, PartOfItself DEF HeadIsOfTheLog
  <2>4. CASE headTree' = tree'
    BY <1>1, <2>1, <2>2, <2>4, PartOfItself DEF HeadIsOfTheLog
  <2>5. QED
    BY <1>4, <2>3, <2>4
<1>5. QED
  BY <1>2, <1>3, <1>4

(* What is of the log stays of the log. *)
LEMMA StaysOfTheLog ==
  ASSUME TypeOK, HeadIsOfTheLog, NEW c \in Clients, Step(c), NEW p \in Pin, OfTheLog(p)
  PROVE  p = NoPin \/ (p.key = NodeKey /\ IsInitialPart(p.tree, headTree'))
<1>1. CASE p = NoPin
  BY <1>1
<1>2. CASE p # NoPin
  <2>1. p.tree \in Seq(Leaf) /\ headTree \in Seq(Leaf)
    BY <1>2 DEF Pin, SignedHead, TypeOK
  <2>2. headTree' \in Seq(Leaf) /\ IsInitialPart(headTree, headTree')
    BY LogGrows
  <2>3. QED
    BY <1>2, <2>1, <2>2, PartOfPart DEF OfTheLog
<1>3. QED
  BY <1>1, <1>2

(* An honest answer. *)
LEMMA AnswerIsOfTheLog ==
  ASSUME HInv, HonestNode, NEW c \in Clients, NEW q \in Requests, AskHonest(c, q)
  PROVE  /\ pc' = [pc EXCEPT ![c] = "answered"] /\ UNCHANGED <<pin, proof, verdict, fileVars>>
         /\ reply'[c].head.key = NodeKey /\ reply'[c].head.tree = headTree'
         /\ FitsUnlessOld(reply'[c])
<1>1. /\ tree \in Seq(Leaf) /\ Len(tree) \in Nat /\ q.leaf \in Leaf /\ q.index \in Nat
      /\ headTree \in Seq(Leaf) /\ Len(headTree) \in Nat
  BY RequestTypes DEF HInv, TypeOK
<1>2. reply \in [Clients -> Reply \cup {NoReply}]
  BY DEF HInv, TypeOK
<1>3. CASE q.op = "put"
  <2>1. /\ tree' = Append(tree, q.leaf) /\ headTree' = tree'
        /\ Answered(c, q, [key |-> NodeKey, tree |-> tree'], Len(tree), q.leaf, tree')
    BY <1>3 DEF AskHonest
  <2>2. Len(tree) < Len(tree') /\ tree'[Len(tree) + 1] = q.leaf
    BY <1>1, <2>1
  <2>3. QED
    BY <1>2, <1>3, <2>1, <2>2 DEF Answered, Fits, VerifyInclusion, FitsUnlessOld
<1>4. CASE q.op = "get"
  <2>1. /\ tree' = tree /\ headTree' = headTree /\ q.index < Len(tree)
        /\ Answered(c, q, [key |-> NodeKey, tree |-> headTree],
                    q.index, tree[q.index + 1], tree)
    BY <1>4 DEF AskHonest, node
  <2>2. reply'[c] = [op |-> "get", index |-> q.index, leaf |-> q.leaf,
                     head |-> [key |-> NodeKey, tree |-> headTree],
                     at |-> q.index, got |-> tree[q.index + 1], path |-> tree]
    BY <1>2, <1>4, <2>1 DEF Answered
  <2>3. CASE headTree = tree
    BY <1>1, <2>1, <2>2, <2>3 DEF Answered, Fits, VerifyInclusion, FitsUnlessOld
  <2>4. CASE headTree # tree
    <3>1. Len(tree) > Len(headTree)
      BY <1>1, <2>4 DEF HInv, HeadIsOfTheLog, IsInitialPart
    <3>2. FitsUnlessOld(reply'[c])
      BY <2>2, <3>1 DEF FitsUnlessOld
    <3>3. QED
      BY <2>1, <2>2, <3>2 DEF Answered
  <2>5. QED
    BY <2>3, <2>4
<1>5. CASE q.op = "head"
  <2>1. /\ headTree' = headTree
        /\ Answered(c, q, [key |-> NodeKey, tree |-> headTree], 0, q.leaf, headTree)
    BY <1>5 DEF AskHonest, node
  <2>2. QED
    BY <1>2, <1>5, <2>1 DEF Answered, Fits, FitsUnlessOld
<1>6. QED
  BY <1>3, <1>4, <1>5 DEF AskHonest

LEMMA PinsStay ==
  ASSUME HInv, HonestNode, NEW c \in Clients, Step(c), TypeOK'
  PROVE  PinsOfTheLog'
<1>1. TypeOK /\ HeadIsOfTheLog /\ PinsOfTheLog /\ AnswersOfTheLog
  BY DEF HInv
<1>2. ASSUME pc[c] \in {"answered", "proving"} PROVE OfTheLog(reply[c].head) /\ reply[c].head \in Pin
  <2>1. reply[c] \in Reply
    BY <1>1, <1>2 DEF TypeOK
  <2>2. QED
    BY <1>1, <1>2, <2>1 DEF AnswersOfTheLog, HeadOfTheLog, OfTheLog, Reply, Pin
<1>3. \/ pin'[c] \in {NoPin, pin[c], pinFile[FileOf[c]]}
      \/ pc[c] \in {"answered", "proving"} /\ pin'[c] = reply[c].head
  BY <1>1 DEF Step, Ask, Open, Exit, AskHonest, PutFails, AskHostile, node, Answered, Refuse, AcceptUnproved,
     AskConsistency, AcceptProved, RefuseProof, Fail, Accuse, Accept, WritePin, TypeOK
<1>4. \A p \in {NoPin, pin[c], pinFile[FileOf[c]]} : OfTheLog(p) /\ p \in Pin
  BY <1>1, NoPinIsNoHead, ConstantsAssumption DEF PinsOfTheLog, OfTheLog, TypeOK
<1>5. \A p \in Pin : OfTheLog(p) => (p = NoPin \/ (p.key = NodeKey /\ IsInitialPart(p.tree, headTree')))
  BY <1>1, StaysOfTheLog
<1>6. ASSUME NEW d \in Clients PROVE OfTheLog(pin[d])'
  <2>1. OfTheLog(pin[d]) /\ pin[d] \in Pin
    BY <1>1 DEF PinsOfTheLog, TypeOK
  <2>2. CASE d # c
    BY <1>1, <1>5, <2>1, <2>2, OthersUntouched DEF OfTheLog
  <2>3. CASE d = c
    BY <1>2, <1>3, <1>4, <1>5, <2>3 DEF OfTheLog
  <2>4. QED
    BY <2>2, <2>3
<1>7. ASSUME NEW f \in PinFiles PROVE OfTheLog(pinFile[f])'
  <2>1. pinFile'[f] \in {pinFile[f], pin[c]}
    <3>1. CASE WritePin(c)
      BY <1>1, <3>1, ConstantsAssumption DEF WritePin, TypeOK
    <3>2. CASE ~WritePin(c)
      BY <1>1, <3>2, FilesUntouched DEF fileVars
    <3>3. QED
      BY <3>1, <3>2
  <2>2. OfTheLog(pinFile[f]) /\ pinFile[f] \in Pin
    BY <1>1 DEF PinsOfTheLog, TypeOK
  <2>3. QED
    BY <1>4, <1>5, <2>1, <2>2 DEF OfTheLog
<1>8. QED
  BY <1>6, <1>7 DEF PinsOfTheLog

LEMMA AnswersStay ==
  ASSUME HInv, HonestNode, NEW c \in Clients, Step(c), TypeOK'
  PROVE  AnswersOfTheLog'
<1>1. TypeOK /\ HeadIsOfTheLog /\ PinsOfTheLog /\ AnswersOfTheLog
  BY DEF HInv
<1>2. /\ headTree \in Seq(Leaf) /\ headTree' \in Seq(Leaf)
      /\ IsInitialPart(headTree, headTree')
  BY <1>1, LogGrows DEF TypeOK
<1>3. ASSUME NEW d \in Clients, pc[d] \in {"answered", "proving", "pinning"}
      PROVE  reply[d].head \in SignedHead /\ IsInitialPart(reply[d].head.tree, headTree')
  <2>1. reply[d] \in Reply
    BY <1>1, <1>3 DEF TypeOK
  <2>2. reply[d].head \in SignedHead /\ reply[d].head.tree \in Seq(Leaf)
    BY <2>1 DEF Reply, SignedHead
  <2>3. QED
    BY <1>1, <1>2, <1>3, <2>2, PartOfPart DEF AnswersOfTheLog, HeadOfTheLog
<1> DEFINE Right(d) ==
      /\ pc[d] \in {"answered", "proving", "pinning"} => HeadOfTheLog(d)
      /\ pc[d] = "answered" => FitsUnlessOld(reply[d])
      /\ pc[d] = "proving" => IsInitialPart(reply[d].head.tree, proof[d])
<1>4. ASSUME NEW d \in Clients, d # c PROVE Right(d)'
  <2>1. pc'[d] = pc[d] /\ pin'[d] = pin[d] /\ reply'[d] = reply[d]
    BY <1>1, <1>4, OthersUntouched
  <2>2. proof'[d] = proof[d]
    BY <1>1, <1>4 DEF Step, Ask, Open, Exit, AskHonest, PutFails, AskHostile, node, Answered, Refuse,
       AcceptUnproved, AskConsistency, AcceptProved, RefuseProof, Fail, Accuse, Accept,
       WritePin, TypeOK
  <2>3. QED
    BY <1>1, <1>3, <2>1, <2>2 DEF AnswersOfTheLog, HeadOfTheLog, FitsUnlessOld, Fits
<1>5. CASE Open(c) \/ Exit(c) \/ Refuse(c) \/ RefuseProof(c) \/ Fail(c) \/ WritePin(c)
  <2>1. pc'[c] \in {"ready", "closed"}
    BY <1>1, <1>5 DEF Open, Exit, Refuse, RefuseProof, Fail, WritePin, Accuse, TypeOK
  <2>2. QED
    BY <1>4, <2>1 DEF AnswersOfTheLog
<1>6. ASSUME NEW q \in Requests, AskHonest(c, q) PROVE AnswersOfTheLog'
  <2>2. /\ pc'[c] = "answered" /\ pin'[c] = pin[c]
        /\ reply'[c].head.key = NodeKey /\ reply'[c].head.tree = headTree'
        /\ FitsUnlessOld(reply'[c])
    BY <1>1, <1>6, AnswerIsOfTheLog DEF TypeOK
  <2>3. pin[c] # NoPin => IsInitialPart(pin[c].tree, headTree')
    BY <1>1, StaysOfTheLog DEF PinsOfTheLog, TypeOK
  <2>4. Right(c)'
    BY <1>2, <2>2, <2>3, PartOfItself DEF HeadOfTheLog, FitsUnlessOld, Fits
  <2>5. QED
    BY <1>4, <2>4 DEF AnswersOfTheLog
<1>7. CASE AcceptUnproved(c) \/ AcceptProved(c)
  <2>1. /\ pc[c] \in {"answered", "proving"} /\ pc'[c] = "pinning"
        /\ pin'[c] = reply[c].head /\ reply' = reply
    BY <1>1, <1>7 DEF AcceptUnproved, AcceptProved, Accept, TypeOK
  <2>2. reply[c].head \in SignedHead /\ IsInitialPart(reply[c].head.tree, headTree')
        /\ reply[c].head.key = NodeKey
    BY <1>1, <1>3, <2>1 DEF AnswersOfTheLog, HeadOfTheLog
  <2>3. IsInitialPart(reply[c].head.tree, reply[c].head.tree)
    BY <2>2, PartOfItself DEF SignedHead
  <2>4. Right(c)'
    BY <2>1, <2>2, <2>3 DEF HeadOfTheLog
  <2>5. QED
    BY <1>4, <2>4 DEF AnswersOfTheLog
<1>8. CASE AskConsistency(c)
  <2>1. /\ pc[c] = "answered" /\ pc'[c] = "proving" /\ proof'[c] = tree
        /\ UNCHANGED <<tree, headTree, pin, reply>>
    BY <1>1, <1>8 DEF AskConsistency, TypeOK, node
  <2>2. reply[c] \in Reply /\ tree \in Seq(Leaf)
    BY <1>1, <2>1 DEF TypeOK
  <2>3. IsInitialPart(reply[c].head.tree, headTree) /\ reply[c].head.tree \in Seq(Leaf)
    BY <1>1, <2>1, <2>2 DEF AnswersOfTheLog, HeadOfTheLog, Reply, SignedHead
  <2>4. IsInitialPart(reply[c].head.tree, tree)
    BY <1>1, <1>2, <2>2, <2>3, PartOfPart DEF HeadIsOfTheLog
  <2>5. Right(c)'
    BY <1>1, <2>1, <2>4 DEF AnswersOfTheLog, HeadOfTheLog
  <2>6. QED
    BY <1>4, <2>5 DEF AnswersOfTheLog
<1>9. ASSUME NEW q \in Requests, PutFails(c, q) PROVE AnswersOfTheLog'
  <2>1. UNCHANGED <<pc, pin, reply, proof>>
    BY <1>9 DEF PutFails
  <2>2. Right(c)'
    BY <1>1, <1>3, <2>1 DEF AnswersOfTheLog, HeadOfTheLog, FitsUnlessOld, Fits
  <2>3. QED
    BY <1>4, <2>2 DEF AnswersOfTheLog
<1>10. QED
  BY <1>5, <1>6, <1>7, <1>8, <1>9 DEF Step, Ask, AskHostile

(* What the checks find in an honest answer. *)
LEMMA HonestAnswerPasses ==
  ASSUME HInv, HonestNode, NEW c \in Clients, pc[c] = "answered"
  PROVE  FitsUnlessOld(reply[c]) /\ ~Contradicts(pin[c], reply[c].head)
<1>1. HeadOfTheLog(c) /\ FitsUnlessOld(reply[c]) /\ OfTheLog(pin[c]) /\ reply[c] \in Reply /\ pin[c] \in Pin
  BY DEF HInv, AnswersOfTheLog, PinsOfTheLog, TypeOK
<1>2. reply[c].head \in SignedHead
  BY <1>1 DEF Reply
<1>3. SUFFICES ASSUME pin[c] # NoPin PROVE ~Contradicts(pin[c], reply[c].head)
  BY <1>1 DEF Contradicts
<1>4. /\ pin[c].key = reply[c].head.key /\ IsInitialPart(pin[c].tree, reply[c].head.tree)
      /\ pin[c].tree \in Seq(Leaf) /\ reply[c].head.tree \in Seq(Leaf)
  BY <1>1, <1>2, <1>3 DEF HeadOfTheLog, OfTheLog, Pin, SignedHead
<1>5. ASSUME Len(reply[c].head.tree) = Len(pin[c].tree) PROVE reply[c].head.tree = pin[c].tree
  BY <1>4, <1>5 DEF IsInitialPart
<1>6. Len(reply[c].head.tree) \in Nat /\ Len(pin[c].tree) \in Nat
  BY <1>4
<1>7. QED
  BY <1>4, <1>5, <1>6 DEF Contradicts, IsInitialPart

LEMMA RefusedProofIsLate ==
  ASSUME HInv, HonestNode, NEW c \in Clients, RefuseProof(c)
  PROVE  Len(proof[c]) > Len(reply[c].head.tree)
<1>1. /\ pc[c] = "proving" /\ ~VerifyConsistency(pin[c].tree, reply[c].head.tree, proof[c])
      /\ HeadOfTheLog(c) /\ IsInitialPart(reply[c].head.tree, proof[c])
      /\ reply[c] \in Reply /\ pin[c] \in Pin /\ proof[c] \in Seq(Leaf)
  BY DEF HInv, RefuseProof, AnswersOfTheLog, TypeOK
<1>2. reply[c].head.tree \in Seq(Leaf)
  BY <1>1 DEF Reply, SignedHead
<1>3. IsInitialPart(pin[c].tree, reply[c].head.tree)
  <2>1. CASE pin[c] # NoPin
    BY <1>1, <2>1 DEF HeadOfTheLog
  <2>2. CASE pin[c] = NoPin
    BY <1>2, <2>2 DEF NoPin, IsInitialPart
  <2>3. QED
    BY <2>1, <2>2
<1>4. proof[c] # reply[c].head.tree
  BY <1>1, <1>3 DEF VerifyConsistency
<1>5. Len(reply[c].head.tree) \in Nat /\ Len(proof[c]) \in Nat
  BY <1>1, <1>2
<1>6. ASSUME Len(proof[c]) = Len(reply[c].head.tree) PROVE FALSE
  BY <1>1, <1>2, <1>4, <1>6 DEF IsInitialPart
<1>7. QED
  BY <1>1, <1>5, <1>6 DEF IsInitialPart

(* An honest node that loses no row fails two checks only, and only when its *)
(* log is ahead of the head it sent: a read under a head published before    *)
(* some row was stored, and a consistency proof (_open_response, _update_pin). *)
THEOREM OnlyOldHeadsAccuse == Spec => OnlyAnOldHeadAccuses
<1>1. Init => HInv
  <2>1. SUFFICES ASSUME Init PROVE HInv
    OBVIOUS
  <2>2. TypeOK
    BY <2>1, NoPinIsNoHead, ConstantsAssumption, EmptyIsSequence DEF Init, TypeOK
  <2>3. HeadIsOfTheLog /\ PinsOfTheLog /\ AnswersOfTheLog
    BY <2>1 DEF Init, HeadIsOfTheLog, IsInitialPart, PinsOfTheLog, AnswersOfTheLog, OfTheLog
  <2>4. QED
    BY <2>2, <2>3 DEF HInv
<1>2. HInv /\ [Next]_vars => HInv'
  <2>1. SUFFICES ASSUME HInv, [Next]_vars PROVE HInv'
    OBVIOUS
  <2>2. TypeOK'
    BY <2>1, TypeStep DEF HInv
  <2>3. CASE UNCHANGED vars
    BY <2>1, <2>2, <2>3 DEF vars, node, clientVars, fileVars, HInv, HeadIsOfTheLog, PinsOfTheLog,
       AnswersOfTheLog, OfTheLog, HeadOfTheLog, FitsUnlessOld, Fits
  <2>4. ASSUME NEW c \in Clients, Step(c) PROVE HInv'
    BY <2>1, <2>2, <2>4, LogGrows, PinsStay, AnswersStay DEF HInv
  <2>5. QED
    BY <2>1, <2>3, <2>4 DEF Next
<1>3. HInv /\ [Next]_vars =>
        [HonestNode => \A c \in Clients :
           verdict'[c] = "accused" /\ verdict[c] # "accused" =>
             \/ /\ pc[c] = "answered" /\ reply[c].op = "get"
                /\ Len(reply[c].path) > Len(reply[c].head.tree)
             \/ /\ pc[c] = "proving"
                /\ Len(proof[c]) > Len(reply[c].head.tree)]_vars
  <2>1. SUFFICES ASSUME HInv, Next, HonestNode, NEW c \in Clients,
                        verdict'[c] = "accused", verdict[c] # "accused"
                 PROVE  \/ /\ pc[c] = "answered" /\ reply[c].op = "get"
                           /\ Len(reply[c].path) > Len(reply[c].head.tree)
                        \/ pc[c] = "proving" /\ Len(proof[c]) > Len(reply[c].head.tree)
    OBVIOUS
  <2>2. PICK d \in Clients : Step(d)
    BY <2>1 DEF Next
  <2>3. d = c /\ (Refuse(c) \/ RefuseProof(c))
    BY <2>1, <2>2 DEF Step, Ask, Open, Exit, AskHonest, PutFails, AskHostile, node, Answered, Refuse,
       AcceptUnproved, AskConsistency, AcceptProved, RefuseProof, Fail, Accuse, Accept,
       WritePin, HInv, TypeOK
  <2>4. Refuse(c) => /\ pc[c] = "answered" /\ reply[c].op = "get"
                     /\ Len(reply[c].path) > Len(reply[c].head.tree)
    BY <2>1, HonestAnswerPasses DEF Refuse, FitsUnlessOld
  <2>5. QED
    BY <2>1, <2>3, <2>4, RefusedProofIsLate DEF RefuseProof
<1>4. QED
  BY <1>1, <1>2, <1>3, PTL DEF Spec, OnlyAnOldHeadAccuses
--------------------------------------------------------------------------
(* Gossip. Of what a log or a command holds with a signature that verifies *)
(* the message was signed, and a log has one root for a size; so what it   *)
(* is accused with contradicts what its own node signed.                   *)
Logs == [key : KeyTexts \cup {"nobody"}, heads : SUBSET Gossip!Heads]

GossipShape ==
  /\ place \in [Gossips -> {"off", "observe", "save"}]
  /\ DOMAIN uses = Gossips /\ \A c \in Gossips : place[c] # "off" => uses[c] \in Files
  /\ log \in [Gossips -> Logs] /\ logFile \in [Files -> Logs]
  /\ coming \in [Gossips -> Seq(Gossip!Heads)]
  /\ heard \in [Files -> SUBSET Gossip!Heads]

SignedHonestly ==
  \A a, b \in signed : a.node = b.node /\ a.node \in Honest /\ a.size = b.size => a.bytes = b.bytes

WasSigned(h) == h.valid = TRUE => Gossip!Message(h) \in signed

Sound(l) ==
  /\ \A h \in l.heads : h.valid = TRUE /\ WasSigned(h) /\ h.key = l.key
  /\ \A g, h \in l.heads : g.size = h.size => g.root = h.root
LogsAreSound == (\A c \in Gossips : Sound(log[c])) /\ (\A f \in Files : Sound(logFile[f]))

ComingIsSigned ==
  \A c \in Gossips : \A i \in DOMAIN coming[c] : WasSigned(coming[c][i])

\* A command that nobody crosses is the only one at its file, so what is heard
\* there stays in the log it took from it.
Alone ==
  \A c, d \in Gossips :
    place[c] # "off" /\ place[d] # "off" /\ uses[c] = uses[d] /\ uses[c] \notin crossed => c = d
Heeded ==
  /\ \A c \in Gossips : place[c] # "off" /\ uses[c] \notin crossed => heard[uses[c]] \subseteq log[c].heads
  /\ \A f \in Files \ (crossed \cup torn) : heard[f] = logFile[f].heads

GossipInv ==
  /\ GossipShape /\ SignedHonestly /\ LogsAreSound /\ ComingIsSigned
  /\ Alone /\ Heeded /\ NoSlander

--------------------------------------------------------------------------
LEMMA NoLogIsSound == Gossip!NoLog \in Logs /\ Sound(Gossip!NoLog) /\ Gossip!NoLog.heads = {}
  BY DEF Gossip!NoLog, Logs, Sound

LEMMA GossipInit == Gossip!Init => GossipInv
<1>1. SUFFICES ASSUME Gossip!Init PROVE GossipInv
  OBVIOUS
<1>2. GossipShape
  BY <1>1, NoLogIsSound DEF Gossip!Init, GossipShape
<1>3. SignedHonestly /\ ComingIsSigned /\ Alone
  BY <1>1 DEF Gossip!Init, SignedHonestly, ComingIsSigned, Alone
<1>4. LogsAreSound
  BY <1>1, NoLogIsSound DEF Gossip!Init, LogsAreSound
<1>5. Heeded
  BY <1>1, NoLogIsSound DEF Gossip!Init, Heeded
<1>6. NoSlander
  BY <1>1 DEF Gossip!Init, NoSlander, Gossip!NoSlander
<1>7. QED
  BY <1>2, <1>3, <1>4, <1>5, <1>6 DEF GossipInv

(* What a file that others handed over holds with a good signature is signed. *)
LEMMA TheirsIsSigned ==
  ASSUME GossipInv, NEW theirs \in Gossip!Theirs
  PROVE  /\ theirs \in Seq(Gossip!Heads)
         /\ \A i \in DOMAIN theirs : WasSigned(theirs[i])
<1>1. CASE theirs = <<>>
  BY <1>1
<1>2. ASSUME NEW f \in Files, theirs \in Gossip!Exports(f)
      PROVE  /\ theirs \in Seq(Gossip!Heads)
             /\ \A i \in DOMAIN theirs : WasSigned(theirs[i])
  <2>1. PICK n \in 0..MostSigned : theirs \in [1..n -> logFile[f].heads]
    BY <1>2 DEF Gossip!Exports, Gossip!SeqOf
  <2>2. n \in Nat
    BY GossipAssumption
  <2>3. logFile[f].heads \subseteq Gossip!Heads /\ \A h \in logFile[f].heads : WasSigned(h)
    BY DEF GossipInv, GossipShape, Logs, LogsAreSound, Sound
  <2>4. QED
    BY <2>1, <2>2, <2>3
<1>3. ASSUME NEW h \in Gossip!Forgeries, theirs = <<h>>
      PROVE  /\ theirs \in Seq(Gossip!Heads)
             /\ \A i \in DOMAIN theirs : WasSigned(theirs[i])
  <2>1. h \in Gossip!Heads /\ WasSigned(h)
    BY DEF Gossip!Forgeries, WasSigned
  <2>2. theirs \in Seq(Gossip!Heads) /\ \A i \in DOMAIN theirs : theirs[i] = h
    BY <1>3, <2>1
  <2>3. QED
    BY <2>1, <2>2
<1>4. \/ theirs = <<>>
      \/ \E f \in Files : theirs \in Gossip!Exports(f)
      \/ \E h \in Gossip!Forgeries : theirs = <<h>>
  BY DEF Gossip!Theirs
<1>5. QED
  BY <1>1, <1>2, <1>3, <1>4

LEMMA SoundForLonger ==
  ASSUME NEW l, Sound(l), signed \subseteq signed'
  PROVE  Sound(l)'
  BY DEF Sound, WasSigned

LEMMA GossipBegins == ASSUME GossipInv, NEW c \in Gossips, Gossip!Begin(c) PROVE GossipInv'
<1>1. PICK f \in Files \ torn, h \in Gossip!Heads, theirs \in Gossip!Theirs :
        /\ h.valid /\ Gossip!Signs(Gossip!Message(h))
        /\ uses' = [uses EXCEPT ![c] = f]
        /\ log' = [log EXCEPT ![c] =
             IF logFile[f] = Gossip!NoLog THEN [key |-> h.key, heads |-> {}] ELSE logFile[f]]
        /\ coming' = [coming EXCEPT ![c] = <<h>> \o theirs]
        /\ crossed' = crossed \cup {g \in {f} : \E d \in Gossips \ {c} : uses[d] = g}
  BY DEF Gossip!Begin
<1>2. /\ place[c] = "off" /\ place' = [place EXCEPT ![c] = "observe"]
      /\ UNCHANGED <<logFile, proofFile, heard, torn>>
  BY DEF Gossip!Begin
<1>3. PICK m : m = Gossip!Message(h)
  OBVIOUS
<1>4. /\ h.key \in KeyTexts /\ WasSigned(h)' /\ signed' = signed \cup {m}
      /\ m.node \in Honest => \A o \in signed : o.node = m.node /\ o.size = m.size => o.bytes = m.bytes
  BY <1>1, <1>3 DEF Gossip!Heads, Gossip!Signs, WasSigned
<1>5. PICK l : l = IF logFile[f] = Gossip!NoLog THEN [key |-> h.key, heads |-> {}] ELSE logFile[f]
  OBVIOUS
<1>6. l \in Logs /\ Sound(l) /\ l.heads = logFile[f].heads
  <2>1. CASE logFile[f] = Gossip!NoLog
    BY <1>4, <1>5, <2>1, NoLogIsSound DEF Logs, Sound
  <2>2. CASE logFile[f] # Gossip!NoLog
    BY <1>5, <2>2 DEF GossipInv, GossipShape, LogsAreSound
  <2>3. QED
    BY <2>1, <2>2
<1>7. log' = [log EXCEPT ![c] = l] /\ coming' = [coming EXCEPT ![c] = <<h>> \o theirs]
  BY <1>1, <1>5
<1>8. <<h>> \o theirs \in Seq(Gossip!Heads) /\ theirs \in Seq(Gossip!Heads)
  <2>1. theirs \in Seq(Gossip!Heads)
    BY TheirsIsSigned
  <2>2. <<h>> \in Seq(Gossip!Heads)
    BY <1>4
  <2>3. QED
    BY <2>1, <2>2
<1>9. GossipShape'
  <2>1. /\ place' \in [Gossips -> {"off", "observe", "save"}]
        /\ logFile' \in [Files -> Logs] /\ heard' \in [Files -> SUBSET Gossip!Heads]
    BY <1>2, <1>4 DEF GossipInv, GossipShape
  <2>2. log' \in [Gossips -> Logs] /\ coming' \in [Gossips -> Seq(Gossip!Heads)]
    BY <1>6, <1>7, <1>8 DEF GossipInv, GossipShape
  <2>3. DOMAIN uses' = Gossips /\ \A d \in Gossips : place'[d] # "off" => uses'[d] \in Files
    BY <1>1, <1>2 DEF GossipInv, GossipShape
  <2>4. QED
    BY <2>1, <2>2, <2>3 DEF GossipShape
<1>10. SignedHonestly'
  BY <1>4 DEF GossipInv, SignedHonestly
<1>11. LogsAreSound'
  <2>1. ASSUME NEW d \in Gossips PROVE Sound(log[d])'
    BY <1>4, <1>6, <1>7, SoundForLonger DEF GossipInv, GossipShape, LogsAreSound
  <2>2. ASSUME NEW g \in Files PROVE Sound(logFile[g])'
    BY <1>2, <1>4, SoundForLonger DEF GossipInv, LogsAreSound
  <2>3. QED
    BY <2>1, <2>2 DEF LogsAreSound
<1>12. ComingIsSigned'
  <2>1. ASSUME NEW i \in DOMAIN (<<h>> \o theirs) PROVE WasSigned((<<h>> \o theirs)[i])'
    <3>1. (<<h>> \o theirs)[i] = h \/ \E j \in DOMAIN theirs : (<<h>> \o theirs)[i] = theirs[j]
      BY <1>8, <2>1
    <3>2. CASE (<<h>> \o theirs)[i] = h
      BY <1>4, <3>2 DEF WasSigned
    <3>3. ASSUME NEW j \in DOMAIN theirs, (<<h>> \o theirs)[i] = theirs[j]
          PROVE  WasSigned((<<h>> \o theirs)[i])'
      <4>1. WasSigned(theirs[j])
        BY TheirsIsSigned
      <4>2. QED
        BY <1>4, <3>3, <4>1 DEF WasSigned
    <3>4. QED
      BY <3>1, <3>2, <3>3
  <2>2. ASSUME NEW d \in Gossips, NEW i \in DOMAIN coming'[d] PROVE WasSigned(coming[d][i])'
    <3>1. CASE d = c
      <4>1. coming'[d] = <<h>> \o theirs
        BY <1>7, <3>1 DEF GossipInv, GossipShape
      <4>2. QED
        BY <2>1, <2>2, <4>1 DEF WasSigned
    <3>2. CASE d # c
      <4>1. coming'[d] = coming[d]
        BY <1>7, <3>2 DEF GossipInv, GossipShape
      <4>2. WasSigned(coming[d][i])
        BY <2>2, <4>1 DEF GossipInv, ComingIsSigned
      <4>3. QED
        BY <1>4, <4>1, <4>2 DEF WasSigned
    <3>3. QED
      BY <3>1, <3>2
  <2>3. QED
    BY <2>2 DEF ComingIsSigned
<1>13. Alone'
  BY <1>1, <1>2 DEF GossipInv, GossipShape, Alone
<1>14. Heeded'
  BY <1>1, <1>2, <1>6, <1>7 DEF GossipInv, GossipShape, Heeded
<1>15. NoSlander'
  BY <1>2, <1>4 DEF GossipInv, NoSlander, Gossip!NoSlander
<1>16. QED
  BY <1>9, <1>10, <1>11, <1>12, <1>13, <1>14, <1>15 DEF GossipInv

LEMMA GossipObserves == ASSUME GossipInv, NEW c \in Gossips, Gossip!Observe(c) PROVE GossipInv'
<1>1. PICK h : h = coming[c][1]
  OBVIOUS
<1>2. /\ place[c] = "observe" /\ coming[c] # <<>> /\ h.key = log[c].key /\ h.valid
      /\ \A g \in log[c].heads : g.size = h.size => g.root = h.root
      /\ log' = [log EXCEPT ![c].heads = (@ \ {g \in log[c].heads : g.size = h.size}) \cup {h}]
      /\ coming' = [coming EXCEPT ![c] = Tail(@)]
      /\ UNCHANGED <<uses, signed, place, logFile, proofFile, heard, crossed, torn>>
  BY <1>1 DEF Gossip!Observe, Gossip!Acceptable, Gossip!Foreign, Gossip!Contradicts, Gossip!Seen, Gossip!Next1
<1>3. coming[c] \in Seq(Gossip!Heads) /\ Tail(coming[c]) \in Seq(Gossip!Heads)
  BY <1>2 DEF GossipInv, GossipShape
<1>4. h \in Gossip!Heads /\ 1 \in DOMAIN coming[c]
  BY <1>1, <1>2, <1>3
<1>5. h.valid = TRUE
  BY <1>2, <1>4 DEF Gossip!Heads
<1>6. WasSigned(h)
  BY <1>1, <1>4 DEF GossipInv, ComingIsSigned
<1>7. \A i \in DOMAIN Tail(coming[c]) : \E j \in DOMAIN coming[c] : Tail(coming[c])[i] = coming[c][j]
  BY <1>2, <1>3
<1>8. \A g \in log[c].heads : g.size = h.size => g = h
  <2>1. SUFFICES ASSUME NEW g \in log[c].heads, g.size = h.size PROVE g = h
    OBVIOUS
  <2>2. g \in Gossip!Heads /\ g.key = h.key /\ g.valid = TRUE /\ g.root = h.root
    BY <1>2, <2>1 DEF GossipInv, GossipShape, Logs, LogsAreSound, Sound
  <2>3. QED
    BY <1>4, <1>5, <2>1, <2>2 DEF Gossip!Heads
<1>9. log'[c] = [key |-> log[c].key, heads |-> log[c].heads \cup {h}] /\ log' = [log EXCEPT ![c] = log'[c]]
  BY <1>2, <1>8 DEF GossipInv, GossipShape, Logs
<1>10. log'[c] \in Logs
  BY <1>4, <1>9 DEF GossipInv, GossipShape, Logs
<1>11. GossipShape'
  BY <1>2, <1>3, <1>9, <1>10 DEF GossipInv, GossipShape
<1>12. Sound(log[c])'
  BY <1>2, <1>5, <1>6, <1>8, <1>9 DEF GossipInv, LogsAreSound, Sound, WasSigned
<1>13. LogsAreSound'
  BY <1>2, <1>9, <1>12 DEF GossipInv, GossipShape, LogsAreSound, Sound, WasSigned
<1>14. ComingIsSigned'
  BY <1>2, <1>7 DEF GossipInv, GossipShape, ComingIsSigned, WasSigned
<1>15. SignedHonestly' /\ Alone' /\ NoSlander'
  BY <1>2 DEF GossipInv, SignedHonestly, Alone, NoSlander, Gossip!NoSlander, Gossip!Holds
<1>16. Heeded'
  <2>1. ASSUME NEW d \in Gossips PROVE log[d].heads \subseteq log'[d].heads
    <3>1. CASE d = c
      BY <1>9, <3>1
    <3>2. CASE d # c
      BY <1>2, <3>2 DEF GossipInv, GossipShape
    <3>3. QED
      BY <3>1, <3>2
  <2>2. QED
    BY <1>2, <2>1 DEF GossipInv, Heeded
<1>17. QED
  BY <1>11, <1>13, <1>14, <1>15, <1>16 DEF GossipInv

(* A command that is over leaves its place empty.                             *)
LEMMA GossipIsOver ==
  ASSUME GossipInv, NEW c \in Gossips, Gossip!Over(c), NoSlander',
         UNCHANGED <<signed, logFile, heard, crossed, torn>>
  PROVE  GossipInv'
<1>1. /\ place' = [place EXCEPT ![c] = "off"] /\ log' = [log EXCEPT ![c] = Gossip!NoLog]
      /\ coming' = [coming EXCEPT ![c] = <<>>] /\ DOMAIN uses' = DOMAIN uses
      /\ \A d \in Gossips \ {c} : uses'[d] = uses[d]
  BY DEF Gossip!Over, GossipInv, GossipShape
<1>2. GossipShape'
  BY <1>1, NoLogIsSound DEF GossipInv, GossipShape
<1>3. SignedHonestly' /\ ComingIsSigned' /\ Alone'
  BY <1>1 DEF GossipInv, GossipShape, SignedHonestly, ComingIsSigned, WasSigned, Alone
<1>4. LogsAreSound'
  BY <1>1, NoLogIsSound DEF GossipInv, GossipShape, LogsAreSound, Sound, WasSigned
<1>5. Heeded'
  BY <1>1 DEF GossipInv, GossipShape, Heeded
<1>6. QED
  BY <1>2, <1>3, <1>4, <1>5 DEF GossipInv

(* A contradiction is between two heads that one key signed.                  *)
LEMMA GossipAccuses == ASSUME GossipInv, NEW c \in Gossips, Gossip!Accuse(c) PROVE GossipInv'
<1>1. PICK h : h = coming[c][1]
  OBVIOUS
<1>2. /\ coming[c] # <<>> /\ Gossip!Over(c) /\ UNCHANGED <<signed, logFile, heard, crossed, torn>>
      /\ \/ proofFile' = <<h, h>>
         \/ /\ h.key = log[c].key /\ h.valid
            /\ \E g \in log[c].heads : g.size = h.size /\ proofFile' = <<g, h>>
  BY <1>1 DEF Gossip!Accuse, Gossip!Acceptable, Gossip!Foreign, Gossip!Contradicts, Gossip!Seen, Gossip!Next1
<1>3. h \in Gossip!Heads /\ 1 \in DOMAIN coming[c]
  BY <1>1, <1>2 DEF GossipInv, GossipShape
<1>4. CASE proofFile' = <<h, h>>
  <2>1. NoSlander'
    BY <1>4 DEF NoSlander, Gossip!NoSlander, Gossip!Holds
  <2>2. QED
    BY <1>2, <2>1, GossipIsOver
<1>5. ASSUME NEW g \in log[c].heads, h.key = log[c].key, h.valid, g.size = h.size, proofFile' = <<g, h>>
      PROVE  GossipInv'
  <2>1. h.valid = TRUE /\ Gossip!Message(h) \in signed
    BY <1>1, <1>3, <1>5 DEF GossipInv, ComingIsSigned, WasSigned, Gossip!Heads
  <2>2. g.valid = TRUE /\ Gossip!Message(g) \in signed /\ g.key = log[c].key /\ g \in Gossip!Heads
    BY <1>5 DEF GossipInv, GossipShape, Logs, LogsAreSound, Sound, WasSigned
  <2>3. Signer[g.key] \in Honest => Bytes[g.root] = Bytes[h.root]
    <3>1. /\ Gossip!Message(g).node = Signer[g.key] /\ Gossip!Message(h).node = Signer[g.key]
          /\ Gossip!Message(g).size = Gossip!Message(h).size
          /\ Gossip!Message(g).bytes = Bytes[g.root] /\ Gossip!Message(h).bytes = Bytes[h.root]
      BY <1>5, <2>2 DEF Gossip!Message
    <3>2. QED
      BY <2>1, <2>2, <3>1 DEF GossipInv, SignedHonestly
  <2>4. g.root = h.root => g = h
    BY <1>3, <1>5, <2>1, <2>2 DEF Gossip!Heads
  <2>5. proofFile'[1] = g /\ proofFile'[2] = h
    BY <1>5
  <2>6. NoSlander'
    <3>1. CASE g.root = h.root
      BY <2>4, <2>5, <3>1 DEF NoSlander, Gossip!NoSlander, Gossip!Holds
    <3>2. CASE g.root # h.root
      <4>1. {Gossip!Message(g), Gossip!Message(h)} \subseteq signed'
        BY <1>2, <2>1, <2>2
      <4>2. Gossip!OneRootTwice(proofFile') \/ Signer[g.key] \notin Honest
        BY <2>3, <2>5 DEF Gossip!OneRootTwice
      <4>3. Gossip!Holds(proofFile')
        BY <1>5, <2>1, <2>2, <2>5, <3>2 DEF Gossip!Holds, Gossip!None
      <4>4. QED
        BY <2>5, <4>1, <4>2, <4>3 DEF NoSlander, Gossip!NoSlander
    <3>3. QED
      BY <3>1, <3>2
  <2>7. QED
    BY <1>2, <2>6, GossipIsOver
<1>6. QED
  BY <1>2, <1>4, <1>5

LEMMA GossipBeginsSave == ASSUME GossipInv, NEW c \in Gossips, Gossip!BeginSave(c) PROVE GossipInv'
<1>1. /\ place[c] = "observe" /\ place' = [place EXCEPT ![c] = "save"]
      /\ logFile' = [logFile EXCEPT ![uses[c]] = Gossip!NoLog] /\ torn' = torn \cup {uses[c]}
      /\ UNCHANGED <<uses, signed, log, coming, proofFile, heard, crossed>>
  BY DEF Gossip!BeginSave
<1>2. GossipShape'
  BY <1>1, NoLogIsSound DEF GossipInv, GossipShape
<1>3. SignedHonestly' /\ ComingIsSigned' /\ NoSlander'
  BY <1>1 DEF GossipInv, SignedHonestly, ComingIsSigned, WasSigned, NoSlander, Gossip!NoSlander, Gossip!Holds
<1>4. Alone'
  BY <1>1 DEF GossipInv, GossipShape, Alone
<1>5. LogsAreSound'
  BY <1>1, NoLogIsSound DEF GossipInv, GossipShape, LogsAreSound, Sound, WasSigned
<1>6. Heeded'
  BY <1>1 DEF GossipInv, GossipShape, Heeded
<1>7. QED
  BY <1>2, <1>3, <1>4, <1>5, <1>6 DEF GossipInv

(* A command that is alone at its file saves at least what was heard there.   *)
LEMMA GossipSaves == ASSUME GossipInv, NEW c \in Gossips, Gossip!Save(c) PROVE GossipInv'
<1>1. /\ place[c] = "save" /\ uses[c] \in Files /\ torn \ {uses[c]} \subseteq torn'
      /\ logFile' = [logFile EXCEPT ![uses[c]] = log[c]]
      /\ heard' = [heard EXCEPT ![uses[c]] = @ \cup log[c].heads]
      /\ UNCHANGED <<signed, proofFile, crossed>>
  BY DEF Gossip!Save, GossipInv, GossipShape
<1>2. /\ place' = [place EXCEPT ![c] = "off"] /\ log' = [log EXCEPT ![c] = Gossip!NoLog]
      /\ coming' = [coming EXCEPT ![c] = <<>>] /\ DOMAIN uses' = DOMAIN uses
      /\ \A d \in Gossips \ {c} : uses'[d] = uses[d]
  BY DEF Gossip!Save, Gossip!Over, GossipInv, GossipShape
<1>3. GossipShape'
  BY <1>1, <1>2, NoLogIsSound DEF GossipInv, GossipShape, Logs
<1>4. SignedHonestly' /\ ComingIsSigned' /\ NoSlander'
  BY <1>1, <1>2 DEF GossipInv, GossipShape, SignedHonestly, ComingIsSigned, WasSigned, NoSlander, Gossip!NoSlander, Gossip!Holds
<1>5. Alone'
  BY <1>1, <1>2 DEF GossipInv, GossipShape, Alone
<1>6. LogsAreSound'
  BY <1>1, <1>2, NoLogIsSound DEF GossipInv, GossipShape, LogsAreSound, Sound, WasSigned
<1>7. Heeded'
  <2>1. ASSUME NEW d \in Gossips, place'[d] # "off", uses'[d] \notin crossed'
        PROVE  heard'[uses'[d]] \subseteq log'[d].heads
    <3>1. d # c /\ place[d] # "off" /\ uses'[d] = uses[d] /\ log'[d] = log[d]
      BY <1>2, <2>1 DEF GossipInv, GossipShape
    <3>2. uses[d] # uses[c]
      BY <1>1, <2>1, <3>1 DEF GossipInv, Alone
    <3>3. QED
      BY <1>1, <2>1, <3>1, <3>2 DEF GossipInv, GossipShape, Heeded
  <2>2. ASSUME NEW f \in Files \ (crossed' \cup torn') PROVE heard'[f] = logFile'[f].heads
    BY <1>1, <2>2 DEF GossipInv, GossipShape, Heeded
  <2>3. QED
    BY <2>1, <2>2 DEF Heeded
<1>8. QED
  BY <1>3, <1>4, <1>5, <1>6, <1>7 DEF GossipInv

LEMMA GossipStep == GossipInv /\ [Gossip!Next]_gossipVars => GossipInv'
<1>1. SUFFICES ASSUME GossipInv, [Gossip!Next]_gossipVars PROVE GossipInv'
  OBVIOUS
<1>2. ASSUME NEW c \in Gossips, Gossip!Reject(c) \/ Gossip!Die(c) PROVE GossipInv'
  <2>1. Gossip!Over(c) /\ UNCHANGED <<signed, proofFile, logFile, heard, crossed, torn>>
    BY <1>2 DEF Gossip!Reject, Gossip!Die
  <2>2. NoSlander'
    BY <1>1, <2>1 DEF GossipInv, NoSlander, Gossip!NoSlander, Gossip!Holds
  <2>3. QED
    BY <1>1, <2>1, <2>2, GossipIsOver
<1>3. CASE UNCHANGED gossipVars
  <2>1. UNCHANGED <<signed, place, uses, log, coming, logFile, proofFile, heard, crossed, torn>>
    BY <1>3 DEF gossipVars
  <2>2. GossipShape' /\ SignedHonestly' /\ LogsAreSound' /\ ComingIsSigned'
    BY <1>1, <2>1 DEF GossipInv, GossipShape, SignedHonestly, LogsAreSound, Sound, WasSigned, ComingIsSigned
  <2>3. Alone' /\ Heeded' /\ NoSlander'
    BY <1>1, <2>1 DEF GossipInv, Alone, Heeded, NoSlander, Gossip!NoSlander, Gossip!Holds
  <2>4. QED
    BY <2>2, <2>3 DEF GossipInv
<1>4. QED
  BY <1>1, <1>2, <1>3, GossipBegins, GossipObserves, GossipAccuses, GossipBeginsSave, GossipSaves
     DEF Gossip!Next, Gossip!Step

LEMMA GossipInvariance == ASpec => []GossipInv
<1>1. AInit => GossipInv
  BY GossipInit DEF AInit
<1>2. GossipInv /\ [ANext]_<<part, vars, gossipVars>> => GossipInv'
  BY GossipStep DEF ANext
<1>3. QED
  BY <1>1, <1>2, PTL DEF ASpec

(* For any clients, log files, nodes, heads and spellings of them: an        *)
(* accusation that holds is of two heads that were signed, and an honest node *)
(* signed them only if they name one root in two spellings (witness.py).     *)
THEOREM NobodyIsSlandered == ASpec => []NoSlander
<1>1. GossipInv => NoSlander
  BY DEF GossipInv
<1>2. QED
  BY <1>1, GossipInvariance, PTL

(* And what a log took in stays in it, of one node and one root for a size.  *)
THEOREM HeardStaysHeard == ASpec => []HeardIsKept
<1>1. GossipInv => HeardIsKept
  BY DEF GossipInv, GossipShape, Heeded, LogsAreSound, Sound, HeardIsKept, Gossip!HeardIsKept
<1>2. QED
  BY <1>1, GossipInvariance, PTL
==========================================================================
