-------------------------------- MODULE Verdicts --------------------------------
(* What is made of evidence that others hand over: the document of a host, the   *)
(* proof of one who claims to know, the answer a question came back with, the    *)
(* reply of the app to a model's call, the answers of nodes that are audited.     *)
(* Each part is an algorithm with no state of its own; a behaviour tries one     *)
(* part on one input, from nothing.                                             *)
EXTENDS Integers, Sequences, FiniteSets

CONSTANTS
  MaxAge,                  \* Policy.max_age_seconds
  GroupOrder, Challenges,  \* Q and 2 ^ CHALLENGE_BITS
  LocalHosts, Buckets, Frame,
  MaxIndex,                \* the largest number a record is asked for by
  Hosts,                   \* the hosts a list of nodes may name
  MaxPeers,                \* entries that are read of a list
  Vocabulary, Lower(_),    \* the words a text is made of, and each in lower case
  Structured,              \* what a pattern finds, as texts
  Evidence,                \* sets of documents and the policies they are held against
  ProofClaims,             \* sets of what is proved in zero knowledge, honestly or not
  Questions,               \* sets of questions to a frontier model
  Calls,                   \* sets of a model's calls over the bridge
  NodeLists,               \* sets of lists of nodes, with what the nodes answer
  Conversations            \* sets of texts, with the values that are declared for them

VARIABLES part, tried, input

partVars == <<part, tried, input>>
Parts == {"host", "proof", "receipt", "bridge", "nodes", "vault"}

Try(p) == part = p /\ ~tried /\ tried' = TRUE /\ UNCHANGED part
Tried(p) == part = p /\ tried

-----------------------------------------------------------------------------
(* A host's document, and what is known of the chip it names.                 *)
Attest == INSTANCE Attestation

Words ==
  [format : STRING, measurement : STRING, report_data : STRING \X Nat, signed_at : Int,
   debug : BOOLEAN]

SevReport ==
  [present : BOOLEAN, decodable : BOOLEAN, sized : BOOLEAN, sig_overlong : BOOLEAN,
   algo : Nat, tail : BOOLEAN, measurement : STRING, report_data : STRING \X Nat,
   debug : BOOLEAN, reported_tcb : Nat, signed_by : STRING]

Document ==
  [format : STRING, measurement : STRING, report_data : STRING \X Nat, signed_at : Int,
   debug : {"on", "off"}, signing_key : STRING,
   signature : [by : STRING, over : Words], raw : SevReport]

Certificate == [key : STRING, by : STRING]

HostEvidence ==
  [wire : {"document", "redirect"}, answer : {"reply", "error"}, doc : Document,
   policy : [measurements : SUBSET STRING, roots : SUBSET STRING,
             require_debug_disabled : BOOLEAN],
   sev : [supplied : BOOLEAN, expected_tcb : Nat,
          chain : [ark : Certificate, ask : Certificate, vcek : Certificate]]]

TryHost == Try("host") /\ \E some \in Evidence : input' \in some

(* A prompt goes only to a host whose document was signed in the end by a root *)
(* of the policy, for a measurement, a nonce and an age the policy allows, and *)
(* for every word of it that the chip signed (attest.py, sev_snp.py).          *)
AcceptedIsEarned ==
  Tried("host") =>
    Attest!AcceptedIsEarned(input.wire, input.doc, 1, input.policy, input.sev, 0, input.answer)

-----------------------------------------------------------------------------
(* Proofs of knowledge: an honest one with all that was drawn for it, the first *)
(* message of one about a false statement, one about a keep that may change     *)
(* between the reads it is made and checked from.                              *)
Sigma == INSTANCE SigmaProofs

Element == Sigma!Exponents \X Sigma!Exponents
Branch == [c : Sigma!ChallengeSet, s : Sigma!Exponents]

HonestClaim ==
  [kind : {"honest"}, value : Nat, blinding : Sigma!Exponents, w : Sigma!Exponents,
   w2 : Sigma!Exponents, c : Sigma!ChallengeSet, simulated : Branch \X Branch]

FalseClaim ==
  [kind : {"false"}, commitment : Element, other : Element,
   candidates : Seq(Sigma!Exponents), t : Seq(Element) \ {<<>>}]

KeepClaim ==
  {k \in [kind : {"keep"}, log : Seq(Nat), head : Nat, list : Nat, index : Nat,
          b : Sigma!Exponents, vhead : Nat, vlist : Nat] :
     k.index \in 1 .. k.list /\ {k.list, k.vlist} \subseteq 0 .. Len(k.log)}

TryProof == Try("proof") /\ \E some \in ProofClaims : input' \in some

HonestHolds(claim) ==
  Sigma!HonestIsAccepted(claim.value, claim.blinding, claim.w, claim.w2, claim.c, claim.simulated)

FalseHolds(claim) ==
  Sigma!FalseIsCaught(claim.commitment, claim.other, claim.candidates, claim.t)

KeepHolds(claim) ==
  Sigma!KeepProofIsAboutTheKeep(claim.log, claim.head, claim.list, claim.index, claim.b,
                                claim.vhead, claim.vlist)

(* An honest proof is accepted; a false statement has at most one challenge    *)
(* it can be answered for; and a proof about the keep holds only under the     *)
(* records it was made over (zk.py, zk_keep.py).                               *)
ProofsAreSound ==
  Tried("proof") =>
    /\ input.kind = "honest" => HonestHolds(input)
    /\ input.kind = "false" => FalseHolds(input)
    /\ input.kind = "keep" => KeepHolds(input)

-----------------------------------------------------------------------------
(* Questions as the app and the command pass them on.                         *)
Chat == INSTANCE Receipt

Question ==
  [by : {"app", "command"}, enable_frontier : BOOLEAN, accept_residual_risks : BOOLEAN,
   model : BOOLEAN, gateway : STRING, relay : STRING, ohttp_config : BOOLEAN,
   token : BOOLEAN, api_base : STRING, api_key : BOOLEAN, overlap : BOOLEAN,
   abstraction : BOOLEAN, independent : {"yes", "no", "not_said"}, dp_epsilon : Nat,
   body_bytes : Nat, answer : {"reply", "error"}]

TryQuestion == Try("receipt") /\ \E some \in Questions : input' \in some

(* A receipt claims of the network, the account and the ledger no more than    *)
(* was so when the question left, and nothing leaves without the consents it   *)
(* needs (frontier_private.py, cloud_gate.py, app.py, cli.py).                 *)
ReceiptIsTrue == Tried("receipt") => Chat!ReceiptIsTrue(input)

-----------------------------------------------------------------------------
(* Calls over the bridge, and what is the case while they are made. No record  *)
(* has a number that could not be asked for.                                  *)
Bridge == INSTANCE McpBridge

Case ==
  [app_host : STRING, link : {"good", "reply_lost", "down"}, agents_on : BOOLEAN,
   token : {"none", "current", "old"}, sealed : BOOLEAN, unlocked : BOOLEAN,
   backed_up : BOOLEAN, node : {"up", "starts", "down"}, index : Int,
   records : SUBSET (0 .. MaxIndex),
   granted : Nat, required : Nat, text : BOOLEAN, known_class : BOOLEAN,
   fails : {"nowhere", "before", "after"}]

Message == [method : STRING, name : STRING, has_id : BOOLEAN]
AgentCall == [case : Case, msg : Message]

TryMessage == Try("bridge") /\ \E some \in Calls : input' \in some

(* What an agent is told of a call is what was the case, and what was stored is *)
(* never refused with a reason (mcp_server.py, app.py).                        *)
WordsAreTrue == Tried("bridge") => Bridge!WordsAreTrue(input.case, input.msg)

-----------------------------------------------------------------------------
(* Lists of nodes as a user keeps them and a bootstrap hands them out, and what *)
(* each host answers when it is asked for a record.                           *)
Finder == INSTANCE NodeAudit

Entry == [form : {"url", "junk"}, host : Hosts, pin : STRING]
EntryList == Seq(Entry) \cup {Finder!Error}
Meets == {"mine", "another's", "missing", "no answer", "swapped", "put between"}
HostState ==
  [name : STRING, resolves : SUBSET STRING, health : STRING,
   head : {"ok", "insecure", "no answer"}, records : Seq(Meets)]

ListCase ==
  [kind : {"list"}, world : [Hosts -> HostState], file : EntryList, bootstrap : EntryList]
AuditCase ==
  [kind : {"audit"}, world : [Hosts -> HostState], file : EntryList, sample : Nat]

TryNodes == Try("nodes") /\ \E some \in NodeLists : input' \in some

(* A bootstrap displaces no pinned key, a node is blamed for an answer it gave *)
(* and for nothing else, and one such answer outweighs any number of right     *)
(* ones (discover.py, audit.py).                                               *)
NodesAreJudgedFairly ==
  Tried("nodes") =>
    /\ input.kind = "list" => Finder!PinsSurvive(input.world, input.file, input.bootstrap)
    /\ input.kind = "audit" => Finder!BlameIsEarned(input.world, input.file, input.sample)

-----------------------------------------------------------------------------
(* What a user declares, what is put to a hosted model, and what the vault      *)
(* learns from afterwards.                                                     *)
Vault == INSTANCE EntityVault

Kinds == {"PERSON", "KEY"}
Token == Vocabulary \cup (Kinds \X Nat) \cup (Kinds \X Nat \X {"loose"})
Value == Seq(Vocabulary) \ {<<>>}
Conversation ==
  [declared : Seq(Value), prompt : Seq(Token), system : Seq(Token), learnt : Seq(Token)]

TryText == Try("vault") /\ \E some \in Conversations : input' \in some

(* Every mention of a declared value is hit in what a hosted model is sent, and *)
(* an answer in its placeholders, however they are spelt, comes back in the     *)
(* user's words (vault_proxy.py).                                              *)
TextComesBack ==
  Tried("vault") =>
    /\ Vault!RoundTrip(input.declared, input.learnt, input.prompt, input.system)
    /\ Vault!EveryMentionIsHit(input.declared, input.prompt)

-----------------------------------------------------------------------------
(* The group is of prime order, the challenges are shorter than it, and what   *)
(* is tried is of the types above.                                             *)
ASSUME GroupAssumption ==
  /\ GroupOrder \in Nat \ {0, 1}
  /\ \A a, b \in 2 .. GroupOrder - 1 : a * b # GroupOrder
  /\ Challenges \in 1 .. GroupOrder

ASSUME SizeAssumption ==
  /\ MaxAge \in Nat /\ Buckets \subseteq Nat /\ Frame \in Nat
  /\ MaxIndex \in Nat /\ MaxPeers \in Nat

ASSUME InputAssumption ==
  /\ Evidence \subseteq SUBSET HostEvidence
  /\ ProofClaims \subseteq SUBSET (HonestClaim \cup FalseClaim \cup KeepClaim)
  /\ Questions \subseteq SUBSET Question
  /\ Calls \subseteq SUBSET AgentCall
  /\ NodeLists \subseteq SUBSET (ListCase \cup AuditCase)
  /\ Conversations \subseteq SUBSET Conversation

(* A word is one thing and in lower case a word; a pattern finds no empty text. *)
ASSUME WordAssumption ==
  /\ \A word \in Vocabulary : Len(word) = 1 /\ Lower(word) \in Vocabulary
  /\ Structured \subseteq Value

VInit == part \in Parts /\ tried = FALSE /\ input = <<>>
VNext == TryHost \/ TryProof \/ TryQuestion \/ TryMessage \/ TryNodes \/ TryText
VSpec == VInit /\ [][VNext]_partVars
=============================================================================
