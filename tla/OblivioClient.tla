-------------------------- MODULE OblivioClient --------------------------
(***************************************************************************)
(* The verifying client (oblivio/client.py, class OblivioClient): what it  *)
(* pins, what it checks before it moves the pin, and the second request it *)
(* makes for a consistency proof.  Several client objects may be open at   *)
(* once, each a process, a handler thread of the app or a replica's        *)
(* client, and may keep their pin in one file.  The node is honest, one    *)
(* append-only log that loses no row (AppendOnlyLog) and a head that may   *)
(* be behind it, or it answers whatever it likes and can sign it.          *)
(*                                                                         *)
(* A head is the node's key and the tree its size and root commit to.  An  *)
(* audit path or consistency proof is the tree it was cut from: it         *)
(* verifies against a head exactly when that tree is the head's and the    *)
(* claim is true of it (oblivio/merkle.py over collision-free SHA-256).    *)
(***************************************************************************)
EXTENDS Naturals, Sequences

CONSTANTS Clients, Leaf, Keys,
          NodeKey,       \* the honest node's identity
          NoKey,         \* the key field of a pin that does not exist
          PinFiles, FileOf,  \* the pin file each client object uses
          HonestNode,
          MaxSize        \* bound on the trees a node holds or invents

ASSUME ConstantsAssumption ==
  /\ NodeKey \in Keys /\ NoKey \notin Keys
  /\ FileOf \in [Clients -> PinFiles]
  /\ Leaf # {} /\ HonestNode \in BOOLEAN /\ MaxSize \in Nat

VARIABLES
  tree,       \* the honest node's log, as it has it in memory
  headTree,   \* what the head it published last, head.json, commits to
  pc,         \* per client object: what it is waiting for
  pin,        \* per client object: self._pin
  reply,      \* per client object: the answer under verification
  proof,      \* per client object: the consistency proof it was sent
  verdict,    \* per client object: how its last call ended
  pinFile,    \* the pin files on disk
  accepted,   \* history, per pin file: every head that was pinned in it
  receipts    \* history, per pin file: what puts through it returned

node == <<tree, headTree>>
clientVars == <<pc, pin, reply, proof, verdict>>
fileVars == <<pinFile, accepted, receipts>>
vars == <<node, clientVars, fileVars>>

Trees == UNION {[1..n -> Leaf] : n \in 0..MaxSize}
SignedHead == [key : Keys, tree : Seq(Leaf)]
NoPin == [key |-> NoKey, tree |-> <<>>]
Pin == SignedHead \cup {NoPin}
Reply == [op : {"head", "put", "get"}, index : Nat, leaf : Leaf,   \* asked
          head : SignedHead, at : Nat, got : Leaf, path : Seq(Leaf)]     \* answered
NoReply == [none |-> TRUE]

TypeOK ==
  /\ tree \in Seq(Leaf) /\ headTree \in Seq(Leaf)
  /\ pc \in [Clients -> {"closed", "ready", "answered", "proving", "pinning"}]
  /\ pin \in [Clients -> Pin]
  /\ reply \in [Clients -> Reply \cup {NoReply}]
  /\ \A c \in Clients :
       pc[c] \in {"answered", "proving", "pinning"} <=> reply[c] # NoReply
  /\ proof \in [Clients -> Seq(Leaf)]
  /\ verdict \in [Clients -> {"none", "ok", "failed", "accused"}]
  /\ pinFile \in [PinFiles -> Pin]
  /\ accepted \in [PinFiles -> SUBSET Pin]
  /\ receipts \in [PinFiles -> SUBSET [at : Nat, leaf : Leaf]]

Init ==
  /\ tree = <<>> /\ headTree = <<>>
  /\ pc = [c \in Clients |-> "closed"]
  /\ pin = [c \in Clients |-> NoPin]
  /\ reply = [c \in Clients |-> NoReply]
  /\ proof = [c \in Clients |-> <<>>]
  /\ verdict = [c \in Clients |-> "none"]
  /\ pinFile = [f \in PinFiles |-> NoPin]
  /\ accepted = [f \in PinFiles |-> {}]
  /\ receipts = [f \in PinFiles |-> {}]

--------------------------------------------------------------------------
(* s is a prefix of t: what a consistency proof establishes. *)
IsInitialPart(s, t) == /\ Len(s) <= Len(t)
                       /\ \A i \in 1..Len(s) : s[i] = t[i]

(* Mutant: the index counted from one. *)
VerifyInclusionFromOne(leaf, at, path, h) ==
  path = h.tree /\ at \in 1..Len(h.tree) /\ h.tree[at] = leaf

(* merkle.verify_inclusion, and that the leaf is the hash of the body the  *)
(* client sent or received.                                                *)
VerifyInclusion(leaf, at, path, h) ==
  path = h.tree /\ at < Len(h.tree) /\ h.tree[at + 1] = leaf

(* Mutant: the proof is folded to the new root only. *)
VerifyConsistencyNewRoot(old, new, cut) == cut = new

(* merkle.verify_consistency *)
VerifyConsistency(old, new, cut) == IsInitialPart(old, new) /\ cut = new

(* The answer is to the question asked and its record is under its head. *)
Fits(r) ==
  /\ r.op \in {"put", "get"} => VerifyInclusion(r.got, r.at, r.path, r.head)
  /\ r.op = "put" => r.got = r.leaf
  /\ r.op = "get" => r.at = r.index

(* Mutant: a head of a smaller tree is no reason to refuse. *)
ContradictsUnlessShorter(p, h) ==
  /\ p # NoPin
  /\ h.key # p.key \/ (Len(h.tree) = Len(p.tree) /\ h.tree # p.tree)

(* _update_pin: grounds for refusing a head without asking for a proof. *)
Contradicts(p, h) ==
  /\ p # NoPin
  /\ \/ h.key # p.key
     \/ Len(h.tree) < Len(p.tree)
     \/ Len(h.tree) = Len(p.tree) /\ h.tree # p.tree

NeedsProof(p, h) == p # NoPin /\ Len(h.tree) > Len(p.tree) /\ Len(p.tree) > 0

--------------------------------------------------------------------------
(* __init__: the pin is read from its file once. *)
Open(c) ==
  /\ pc[c] = "closed"
  /\ pc' = [pc EXCEPT ![c] = "ready"]
  /\ pin' = [pin EXCEPT ![c] = pinFile[FileOf[c]]]
  /\ verdict' = [verdict EXCEPT ![c] = "none"]
  /\ UNCHANGED <<node, reply, proof, fileVars>>

(* The process ends or is killed; a call under way ends with it. *)
Exit(c) ==
  /\ pc[c] # "closed"
  /\ pc' = [pc EXCEPT ![c] = "closed"]
  /\ pin' = [pin EXCEPT ![c] = NoPin]
  /\ reply' = [reply EXCEPT ![c] = NoReply]
  /\ proof' = [proof EXCEPT ![c] = <<>>]
  /\ UNCHANGED <<node, verdict, fileVars>>

Answered(c, q, h, at, got, path) ==
  /\ reply' = [reply EXCEPT ![c] =
       [op |-> q.op, index |-> q.index, leaf |-> q.leaf,
        head |-> h, at |-> at, got |-> got, path |-> path]]
  /\ pc' = [pc EXCEPT ![c] = "answered"]
  /\ UNCHANGED <<pin, proof, verdict, fileVars>>

(* The honest node serves a request under its lock: a put is appended, its *)
(* head published and sent.  Other answers hold the head published last,   *)
(* with a path of the tree there is now.                                   *)
AskHonest(c, q) ==
  /\ pc[c] = "ready" /\ HonestNode
  /\ \/ /\ q.op = "put" /\ Len(tree) < MaxSize
        /\ tree' = Append(tree, q.leaf) /\ headTree' = tree'
        /\ Answered(c, q, [key |-> NodeKey, tree |-> tree'],
                    Len(tree), q.leaf, tree')
     \/ /\ q.op = "get" /\ q.index < Len(tree)
        /\ Answered(c, q, [key |-> NodeKey, tree |-> headTree],
                    q.index, tree[q.index + 1], tree)
        /\ UNCHANGED node
     \/ /\ q.op = "head"
        /\ Answered(c, q, [key |-> NodeKey, tree |-> headTree], 0, q.leaf, headTree)
        /\ UNCHANGED node

(* A put whose row is in the tree and whose head is not: the node dies or  *)
(* cannot write in between, and the client's request fails.  Nothing makes *)
(* up for it but the next put: a start publishes no head where there is    *)
(* one.  (A head.json left half written answers nothing until then.)       *)
PutFails(c, q) ==
  /\ pc[c] = "ready" /\ HonestNode
  /\ q.op = "put" /\ Len(tree) < MaxSize
  /\ tree' = Append(tree, q.leaf)
  /\ verdict' = [verdict EXCEPT ![c] = "failed"]
  /\ UNCHANGED <<headTree, pc, pin, reply, proof, fileVars>>

(* A dishonest node signs and sends anything at all.  Of a path only one   *)
(* thing matters, whether it leads to the head it came with.               *)
AskHostile(c, q) ==
  /\ pc[c] = "ready" /\ ~HonestNode
  /\ \E k \in Keys, t \in Trees :
       \/ /\ q.op # "head"
          /\ \E at \in 0..MaxSize, got \in Leaf, path \in {t, <<>>} :
               Answered(c, q, [key |-> k, tree |-> t], at, got, path)
       \/ /\ q.op = "head"
          /\ Answered(c, q, [key |-> k, tree |-> t], 0, q.leaf, t)
  /\ UNCHANGED node

Ask(c, q) == IF HonestNode THEN AskHonest(c, q) \/ PutFails(c, q) ELSE AskHostile(c, q)

Accuse(c) ==
  /\ verdict' = [verdict EXCEPT ![c] = "accused"]
  /\ pc' = [pc EXCEPT ![c] = "ready"]
  /\ reply' = [reply EXCEPT ![c] = NoReply]
  /\ proof' = [proof EXCEPT ![c] = <<>>]
  /\ UNCHANGED <<node, pin, fileVars>>

Accept(c) ==
  /\ pin' = [pin EXCEPT ![c] = reply[c].head]
  /\ pc' = [pc EXCEPT ![c] = "pinning"]
  /\ UNCHANGED <<node, reply, proof, verdict, fileVars>>

(* The answer fails a check: SecurityError. *)
Refuse(c) ==
  /\ pc[c] = "answered"
  /\ ~Fits(reply[c]) \/ Contradicts(pin[c], reply[c].head)
  /\ Accuse(c)

(* First contact, an unchanged tree, or growth from an empty tree. *)
AcceptUnproved(c) ==
  /\ pc[c] = "answered"
  /\ Fits(reply[c])
  /\ ~Contradicts(pin[c], reply[c].head)
  /\ ~NeedsProof(pin[c], reply[c].head)
  /\ Accept(c)

(* The tree grew: a second request.  The node cuts the proof from the tree *)
(* it has when that request arrives.                                       *)
AskConsistency(c) ==
  /\ pc[c] = "answered"
  /\ Fits(reply[c])
  /\ ~Contradicts(pin[c], reply[c].head)
  /\ NeedsProof(pin[c], reply[c].head)
  /\ pc' = [pc EXCEPT ![c] = "proving"]
  /\ \E cut \in IF HonestNode THEN {tree} ELSE {reply[c].head.tree, <<>>} :
       proof' = [proof EXCEPT ![c] = cut]
  /\ UNCHANGED <<node, pin, reply, verdict, fileVars>>

AcceptProved(c) ==
  /\ pc[c] = "proving"
  /\ VerifyConsistency(pin[c].tree, reply[c].head.tree, proof[c])
  /\ Accept(c)

(* "consistency proof failed - history rewrite?" *)
RefuseProof(c) ==
  /\ pc[c] = "proving"
  /\ ~VerifyConsistency(pin[c].tree, reply[c].head.tree, proof[c])
  /\ Accuse(c)

(* The pin is written to its file and the call returns. *)
WritePin(c) ==
  LET f == FileOf[c] IN
  /\ pc[c] = "pinning"
  /\ pinFile' = [pinFile EXCEPT ![f] = pin[c]]
  /\ accepted' = [accepted EXCEPT ![f] = @ \cup {pin[c]}]
  /\ receipts' = IF reply[c].op = "put"
                 THEN [receipts EXCEPT ![f] =
                         @ \cup {[at |-> reply[c].at, leaf |-> reply[c].leaf]}]
                 ELSE receipts
  /\ verdict' = [verdict EXCEPT ![c] = "ok"]
  /\ pc' = [pc EXCEPT ![c] = "ready"]
  /\ reply' = [reply EXCEPT ![c] = NoReply]
  /\ proof' = [proof EXCEPT ![c] = <<>>]
  /\ UNCHANGED <<node, pin>>

(* An answer is lost or late, or the pin cannot be written: the call       *)
(* raises, what the node did stays done, and so does the pin in memory.    *)
Fail(c) ==
  /\ pc[c] \in {"answered", "proving", "pinning"}
  /\ verdict' = [verdict EXCEPT ![c] = "failed"]
  /\ pc' = [pc EXCEPT ![c] = "ready"]
  /\ reply' = [reply EXCEPT ![c] = NoReply]
  /\ proof' = [proof EXCEPT ![c] = <<>>]
  /\ UNCHANGED <<node, pin, fileVars>>

(* get_by_id is get with the record id in the place of the index. *)
Requests ==
  LET any == CHOOSE l \in Leaf : TRUE
  IN {[op |-> "head", index |-> 0, leaf |-> any]}
     \cup {[op |-> "put", index |-> 0, leaf |-> l] : l \in Leaf}
     \cup {[op |-> "get", index |-> i, leaf |-> any] : i \in 0..MaxSize}

Step(c) ==
  \/ Open(c) \/ Exit(c)
  \/ \E q \in Requests : Ask(c, q)
  \/ Refuse(c) \/ AcceptUnproved(c)
  \/ AskConsistency(c) \/ AcceptProved(c) \/ RefuseProof(c)
  \/ WritePin(c) \/ Fail(c)

Next == \E c \in Clients : Step(c)

Spec == Init /\ [][Next]_vars

--------------------------------------------------------------------------
(* h extends g: one identity, and nothing g committed to was changed. *)
Extends(h, g) == h.key = g.key /\ IsInitialPart(g.tree, h.tree)

(* Whatever the node answers, the heads that were ever pinned in a file    *)
(* are moments of one history under one identity, across restarts of the   *)
(* client and calls that died half way.                                    *)
OneHistory ==
  \A f \in PinFiles : \A g, h \in accepted[f] : Extends(g, h) \/ Extends(h, g)

(* A put that returned is in every tree the client accepts from then on,   *)
(* at the index it returned.                                               *)
ReceiptsHold ==
  \A f \in PinFiles : \A r \in receipts[f] :
    r.at < Len(pinFile[f].tree) /\ pinFile[f].tree[r.at + 1] = r.leaf

(* The pin on disk is only ever replaced by a head that extends it: no     *)
(* history a client verified can later be taken back unnoticed.            *)
PinNeverGoesBack ==
  [][\A f \in PinFiles : pinFile[f] # NoPin => Extends(pinFile'[f], pinFile[f])]_vars

(* With an honest node two checks can fail and no other: that of a record  *)
(* read under a head the node published before that record or one after it *)
(* was stored, and that of a consistency proof cut from a tree longer than *)
(* the head sent.  Both need a put that stored its row: one that failed    *)
(* before its head was published, or, for the proof, one that was served   *)
(* in between.  What a put itself answers is never refused.                *)
OnlyAnOldHeadAccuses ==
  [][HonestNode => \A c \in Clients :
       verdict'[c] = "accused" /\ verdict[c] # "accused" =>
         \/ /\ pc[c] = "answered" /\ reply[c].op = "get"
            /\ Len(reply[c].path) > Len(reply[c].head.tree)
         \/ /\ pc[c] = "proving"
            /\ Len(proof[c]) > Len(reply[c].head.tree)]_vars
==========================================================================
