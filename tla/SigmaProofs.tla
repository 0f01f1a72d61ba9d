------------------------------ MODULE SigmaProofs ------------------------------
(* Commitments and the proofs about them (oblivio/zk.py), and the proof that a  *)
(* record is in a keep (oblivio/zk_keep.py).                                    *)
(*                                                                            *)
(* Nobody knows how G and H are related, so the group element G^a H^b is the    *)
(* pair of its exponents, and a prover can only form elements by their          *)
(* exponents. Elements lie in the subgroup of prime order GroupOrder. The       *)
(* Fiat-Shamir challenge is what the hash returns for a transcript: an input.   *)
EXTENDS Integers, Sequences, FiniteSets, SequencesExt

CONSTANTS
  GroupOrder,     \* Q, a prime
  Challenges      \* 2 ^ CHALLENGE_BITS, less than Q

Exponents == 0 .. GroupOrder - 1
ChallengeSet == 0 .. Challenges - 1

Times(x, y) == <<(x[1] + y[1]) % GroupOrder, (x[2] + y[2]) % GroupOrder>>
Power(x, n) == <<(x[1] * n) % GroupOrder, (x[2] * n) % GroupOrder>>
Over(x, y) == Times(x, Power(y, GroupOrder - 1))
One == <<0, 0>>
GTo(n) == <<n % GroupOrder, 0>>
HTo(n) == <<0, n % GroupOrder>>

Commit(value, blinding) == Times(GTo(value), HTo(blinding))

-----------------------------------------------------------------------------
(* Knowledge of an opening.                                                  *)
ProveOpening(value, blinding, w1, w2, c) ==
  [t |-> Times(GTo(w1), HTo(w2)),
   s1 |-> (w1 + c * value) % GroupOrder, s2 |-> (w2 + c * blinding) % GroupOrder]

VerifyOpening(commitment, proof, c) ==
  Times(GTo(proof.s1), HTo(proof.s2)) = Times(proof.t, Power(commitment, c))

(* Two commitments to one value: their quotient is a power of H.             *)
ProveEquality(blinding1, blinding2, w, c) ==
  [t |-> HTo(w), s |-> (w + c * (blinding1 - blinding2)) % GroupOrder]

VerifyEquality(c1, c2, proof, c) ==
  HTo(proof.s) = Times(proof.t, Power(Over(c1, c2), c))

-----------------------------------------------------------------------------
(* Membership: one branch is answered, the others are simulated, and the     *)
(* challenges of all of them add up to the one that was given.               *)
SumOf(cs) == FoldLeft(LAMBDA a, b : a + b, 0, cs)

ProveMembership(commitment, value, blinding, candidates, w, simulated, c) ==
  LET j == CHOOSE i \in DOMAIN candidates :
             candidates[i] = value /\ \A k \in 1 .. i - 1 : candidates[k] # value
      y(i) == Over(commitment, GTo(candidates[i]))
      others == SumOf([i \in DOMAIN candidates |-> IF i = j THEN 0 ELSE simulated[i].c])
      own == (c - others) % Challenges
  IN [candidates |-> candidates,
      t |-> [i \in DOMAIN candidates |->
               IF i = j THEN HTo(w) ELSE Over(HTo(simulated[i].s), Power(y(i), simulated[i].c))],
      c |-> [i \in DOMAIN candidates |-> IF i = j THEN own ELSE simulated[i].c],
      s |-> [i \in DOMAIN candidates |->
               IF i = j THEN (w + own * blinding) % GroupOrder ELSE simulated[i].s]]

BranchHolds(commitment, proof, candidates, i) ==
  HTo(proof.s[i]) = Times(proof.t[i], Power(Over(commitment, GTo(candidates[i])), proof.c[i]))

(* Mutant: the branches may choose their challenges freely.                  *)
VerifyMembershipFree(commitment, proof, candidates, c) ==
  /\ proof.candidates = candidates
  /\ \A i \in DOMAIN candidates : BranchHolds(commitment, proof, candidates, i)

VerifyMembership(commitment, proof, candidates, c) ==
  /\ proof.candidates = candidates
  /\ Len(proof.t) = Len(candidates) /\ Len(proof.c) = Len(candidates)
  /\ Len(proof.s) = Len(candidates)
  /\ SumOf(proof.c) % Challenges = c
  /\ \A i \in DOMAIN candidates : BranchHolds(commitment, proof, candidates, i)

-----------------------------------------------------------------------------
(* Range: commitments to the bits, each shown to be 0 or 1, and the shown    *)
(* knowledge that they make up the committed value.                          *)
Bit(value, i) == (value \div 2 ^ (i - 1)) % 2
Aggregate(bits) == FoldLeft(Times, One, [i \in DOMAIN bits |-> Power(bits[i], 2 ^ (i - 1))])

ProveRange(value, blinding, bitBlindings, bitProofs, w, c) ==
  LET weighted == SumOf([i \in DOMAIN bitBlindings |-> 2 ^ (i - 1) * bitBlindings[i]])
      z == blinding - weighted
  IN [bits |-> [i \in DOMAIN bitBlindings |-> Commit(Bit(value, i), bitBlindings[i])],
      proofs |-> bitProofs, t |-> HTo(w), s |-> (w + c * z) % GroupOrder]

VerifyRange(commitment, proof, bits, bitChallenges, c) ==
  /\ Len(proof.bits) = bits /\ Len(proof.proofs) = bits
  /\ \A i \in 1 .. bits :
       VerifyMembership(proof.bits[i], proof.proofs[i], <<0, 1>>, bitChallenges[i])
  /\ HTo(proof.s) = Times(proof.t, Power(Over(commitment, Aggregate(proof.bits)), c))

-----------------------------------------------------------------------------
(* In a keep: the statement names the head's root and size, the candidates    *)
(* are the leaves of the list. Both are read from the node, one after the     *)
(* other. The hash returns the same challenge for the same transcript only.   *)
LeafToScalar(leaf) == leaf % GroupOrder
Scalars(leaves) == [i \in DOMAIN leaves |-> LeafToScalar(leaves[i])]

Statement(head, commitment, candidates) == [head |-> head, c |-> commitment, set |-> candidates]

ProveInKeep(head, leaves, index, blinding) ==
  LET candidates == Scalars(leaves)
      commitment == Commit(candidates[index], blinding)
  IN [head |-> head, keep_size |-> Len(leaves), commitment |-> commitment,
      candidates |-> candidates, answers |-> Statement(head, commitment, candidates)]

VerifyInKeep(bundle, leaves, head) ==
  /\ bundle.head = head
  /\ bundle.keep_size = Len(leaves)
  /\ bundle.candidates = Scalars(leaves)
  /\ bundle.answers = Statement(head, bundle.commitment, Scalars(leaves))

-----------------------------------------------------------------------------
(* An honest proof is accepted, whatever was committed, drawn and asked.      *)
HonestIsAccepted(value, blinding, w, w2, c, simulated) ==
  LET commitment == Commit(value, blinding)
      small == value % 4
      membership(bit, r) ==
        ProveMembership(Commit(bit, r), bit, r, <<0, 1>>, w, simulated, c)
      range == ProveRange(small, w2, <<blinding, w>>,
                 <<membership(Bit(small, 1), blinding), membership(Bit(small, 2), w)>>, w, c)
  IN /\ VerifyOpening(commitment, ProveOpening(value, blinding, w, w2, c), c)
     /\ VerifyEquality(commitment, Commit(value, w2), ProveEquality(blinding, w2, w, c), c)
     /\ VerifyMembership(Commit(Bit(value, 1), blinding), membership(Bit(value, 1), blinding),
                         <<0, 1>>, c)
     /\ VerifyRange(Commit(small, w2), range, 2, <<c, c>>, c)

(* A prover who has sent his first message on a false statement can answer    *)
(* at most one of the challenges the hash may return.                         *)
Answerable(commitment, candidates, t) ==
  {c \in ChallengeSet :
    \E cs \in [DOMAIN candidates -> ChallengeSet], ss \in [DOMAIN candidates -> Exponents] :
      VerifyMembership(commitment, [candidates |-> candidates, t |-> t, c |-> cs, s |-> ss],
                       candidates, c)}

EqualityAnswerable(c1, c2, t) ==
  {c \in ChallengeSet : \E s \in Exponents : VerifyEquality(c1, c2, [t |-> t, s |-> s], c)}

RangeAnswerable(commitment, bits, t) ==
  {c \in ChallengeSet : \E s \in Exponents :
    HTo(s) = Times(t, Power(Over(commitment, Aggregate(bits)), c))}

FalseIsCaught(commitment, other, candidates, t) ==
  /\ (\A i \in DOMAIN candidates : candidates[i] # commitment[1])
       => Cardinality(Answerable(commitment, candidates, t)) <= 1
  /\ commitment[1] # other[1]
       => Cardinality(EqualityAnswerable(commitment, other, t[1])) <= 1
  /\ commitment[1] > 3
       => \A b \in {0, 1} \X {0, 1} :
            Cardinality(RangeAnswerable(commitment, <<Commit(b[1], 1), Commit(b[2], 1)>>, t[1])) <= 1

(* A bundle is accepted against the leaves and the head the verifier looked up *)
(* only if it was made over those leaves and that head, of one of the leaves;   *)
(* and one made over a head and a list of the same moment is accepted.          *)
KeepProofIsAboutTheKeep(log, headSize, listSize, index, blinding, verifierHead, verifierList) ==
  LET bundle == ProveInKeep(headSize, SubSeq(log, 1, listSize), index, blinding)
      leaves == SubSeq(log, 1, verifierList)
      accepted == VerifyInKeep(bundle, leaves, verifierHead)
  IN accepted <=> verifierHead = headSize /\ Scalars(leaves) = Scalars(SubSeq(log, 1, listSize))
=============================================================================
