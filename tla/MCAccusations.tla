---------------------------- MODULE MCAccusations ----------------------------
(* The two places where a node is accused of lying: the client's own checks,  *)
(* of which the node is honest here, and the comparison of heads. They share  *)
(* nothing; a behaviour shows one or the other, and the other stands still.   *)
EXTENDS OblivioClient, TLC

CONSTANTS Gossips, Files, KeyTexts, Roots, Signer, Bytes, Honest, MostSigned, MaxCommands  \* of Witness

ASSUME GossipAssumption == MostSigned \in Nat

VARIABLES
  part,
  begun, signed, place, uses, log, coming, logFile, proofFile, heard, crossed, torn

gossipVars ==
  <<begun, signed, place, uses, log, coming, logFile, proofFile, heard, crossed, torn>>

Gossip == INSTANCE Witness WITH Clients <- Gossips, Keys <- KeyTexts, MaxSize <- MostSigned

(* Two nodes, and two roots, one of them spelt twice.                         *)
TwoNodes == [k \in KeyTexts |-> IF k = "n" THEN "liar" ELSE "honest"]
TwoRoots == [r \in Roots |-> IF r = "q" THEN 1 ELSE 2]

\* All clients are of one user, who has one pin file.
OneFile == [c \in Clients |-> CHOOSE f \in PinFiles : TRUE]

AInit == part \in {"calls", "gossip"} /\ Init /\ Gossip!Init

ANext ==
  \/ part = "calls" /\ Next /\ UNCHANGED <<part, gossipVars>>
  \/ part = "gossip" /\ Gossip!Next /\ UNCHANGED <<part, vars>>

ASpec == AInit /\ [][ANext]_<<part, vars, gossipVars>>

(* Whoever hands whatever around, an accusation that holds is against a node  *)
(* that signed two histories, or names one root in two spellings, and one that *)
(* does not hold shows that it does not (EquivocationProof of witness.py, the *)
(* command gossip).                                                           *)
NoSlander == Gossip!NoSlander

(* What a log took in stays in it, so two logs that were compared without an  *)
(* accusation were told one history (HeadLog of witness.py).                  *)
HeardIsKept == Gossip!HeardIsKept

Symmetry ==
  Permutations(Clients) \cup Permutations(Files) \cup Permutations(Gossips)
==============================================================================
