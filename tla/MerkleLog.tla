------------------------------- MODULE MerkleLog -----------------------------
(* The hash tree behind the store and the client (oblivio/merkle.py): root    *)
(* and proofs as RFC 6962 defines them, the verifiers, which see no tree, and *)
(* CachedLog, which keeps the inner nodes and repairs them on every append.   *)
(*                                                                            *)
(* Hashes are terms: two are equal when they were made of the same data in    *)
(* the same way, which is what SHA-256 with domain separation is taken for.   *)
EXTENDS Integers, Sequences, SequencesExt

CONSTANTS
  Data,
  MaxSize,     \* bound: leaves of the log while it is alone
  MaxOther,    \* bound: leaves of the other log
  MaxForged    \* bound: leaves of a log against which every proof is tried

VARIABLES
  levels,      \* CachedLog.levels, the leaves first
  other        \* leaves of another log, or of an earlier state of this one

EmptyRoot == <<"empty">>
Leaf(d) == <<"leaf", d>>
Node(l, r) == <<"node", l, r>>

LeafLevel == levels[1]
Odd(n) == n % 2 = 1

-----------------------------------------------------------------------------
(* The normative definitions.                                                *)
Lpo2(n) ==
  LET lpo[k \in 2 .. n] == IF k = 2 THEN 1 ELSE 2 * lpo[(k + 1) \div 2]
  IN  lpo[n]

(* Roots(h)[n][lo] is the root over the n hashes after the first lo.         *)
Roots(h) ==
  LET root[n \in 0 .. Len(h)] ==
        [lo \in 0 .. Len(h) - n |->
           IF n = 0 THEN EmptyRoot
           ELSE IF n = 1 THEN h[lo + 1]
           ELSE Node(root[Lpo2(n)][lo], root[n - Lpo2(n)][lo + Lpo2(n)])]
  IN  root

Root(h) == Roots(h)[Len(h)][0]

InclusionProof(index, h) ==
  LET root == Roots(h)
      path[n \in 1 .. Len(h)] ==
        [lo \in 0 .. Len(h) - n |->
           IF n = 1 THEN <<>>
           ELSE IF index < lo + Lpo2(n)
             THEN Append(path[Lpo2(n)][lo], root[n - Lpo2(n)][lo + Lpo2(n)])
             ELSE Append(path[n - Lpo2(n)][lo + Lpo2(n)], root[Lpo2(n)][lo])]
  IN  path[Len(h)][0]

(* The old tree ends after m leaves; below a step to the right it is no      *)
(* longer complete.                                                          *)
ConsistencyProof(m, h) ==
  LET root == Roots(h)
      sub[n \in 1 .. Len(h)] ==
        [lo \in {l \in 0 .. Len(h) - n : l < m /\ m <= l + n} |->
           IF m = lo + n THEN IF lo = 0 THEN <<>> ELSE <<root[n][lo]>>
           ELSE IF m <= lo + Lpo2(n)
             THEN Append(sub[Lpo2(n)][lo], root[n - Lpo2(n)][lo + Lpo2(n)])
             ELSE Append(sub[n - Lpo2(n)][lo + Lpo2(n)], root[Lpo2(n)][lo])]
  IN  IF m = 0 \/ m = Len(h) THEN <<>> ELSE sub[Len(h)][0]

-----------------------------------------------------------------------------
(* The verifiers. Both walk up from a pair of positions, the node's and the  *)
(* last one of its level; trailing zeros are levels without a sibling.       *)
Up(at) == <<at[1] \div 2, at[2] \div 2>>

Stripped(at) ==
  LET strip[p \in (0 .. at[1]) \X (0 .. at[2])] ==
        IF p[1] = 0 \/ Odd(p[1]) THEN p ELSE strip[Up(p)]
  IN  strip[at]

OnesStripped(at) ==
  LET strip[p \in (0 .. at[1]) \X (0 .. at[2])] == IF Odd(p[1]) THEN strip[Up(p)] ELSE p
  IN  strip[at]

FromLeft(at) == Odd(at[1]) \/ at[1] = at[2]

(* One element of an audit path; the walk fails above the root.              *)
Climb(acc, p) ==
  IF ~acc.ok \/ acc.at[2] = 0 THEN [acc EXCEPT !.ok = FALSE]
  ELSE IF FromLeft(acc.at)
         THEN [ok |-> TRUE, at |-> Up(Stripped(acc.at)), hash |-> Node(p, acc.hash)]
         ELSE [ok |-> TRUE, at |-> Up(acc.at), hash |-> Node(acc.hash, p)]

VerifyInclusion(leaf, index, size, proof, root) ==
  LET end == FoldLeft(Climb, [ok |-> TRUE, at |-> <<index, size - 1>>, hash |-> leaf], proof)
  IN  index < size /\ end.ok /\ end.at[2] = 0 /\ end.hash = root

(* One element of a consistency proof: nodes to the left are in both trees.  *)
ClimbBoth(acc, p) ==
  IF ~acc.ok \/ acc.at[2] = 0 THEN [acc EXCEPT !.ok = FALSE]
  ELSE IF FromLeft(acc.at)
         THEN [ok |-> TRUE, at |-> Up(Stripped(acc.at)),
               old |-> Node(p, acc.old), new |-> Node(p, acc.new)]
         ELSE [ok |-> TRUE, at |-> Up(acc.at), old |-> acc.old, new |-> Node(acc.new, p)]

VerifyConsistency(m, n, oldRoot, newRoot, proof) ==
  IF m > n THEN FALSE
  ELSE IF m = n THEN proof = <<>> /\ oldRoot = newRoot
  ELSE IF m = 0 THEN proof = <<>>
  ELSE LET at   == OnesStripped(<<m - 1, n - 1>>)
           full == at[1] = 0        \* the old tree is a node of the new one
       IN  /\ full \/ proof # <<>>
           /\ LET seed  == IF full THEN oldRoot ELSE Head(proof)
                  steps == IF full THEN proof ELSE Tail(proof)
                  end   == FoldLeft(ClimbBoth,
                             [ok |-> TRUE, at |-> at, old |-> seed, new |-> seed], steps)
              IN  end.ok /\ end.at[2] = 0 /\ end.old = oldRoot /\ end.new = newRoot

-----------------------------------------------------------------------------
(* CachedLog: the j-th node over a level, whose last one is promoted alone.  *)
Parent(cur, j) ==
  IF 2 * j <= Len(cur) THEN Node(cur[2 * j - 1], cur[2 * j]) ELSE cur[2 * j - 1]

(* Mutant: the last node of a level is taken for final. *)
RepairedKeepLast(cur, nxt) ==
  [j \in 1 .. (Len(cur) + 1) \div 2 |-> IF j <= Len(nxt) THEN nxt[j] ELSE Parent(cur, j)]

(* The level above cur: all but its last node is kept, the rest is computed. *)
Repaired(cur, nxt) ==
  LET want == (Len(cur) + 1) \div 2
  IN  [j \in 1 .. want |-> IF j < want /\ j <= Len(nxt) THEN nxt[j] ELSE Parent(cur, j)]

(* The levels over some leaves, of which a part is known, up to the first    *)
(* that has one node.                                                        *)
LevelsOver(leaves, known) ==
  LET lv[i \in 1 .. Len(leaves) + 1] ==
        IF i = 1 THEN leaves
        ELSE Repaired(lv[i - 1], IF i <= Len(known) THEN known[i] ELSE <<>>)
      top == CHOOSE i \in DOMAIN lv :
               Len(lv[i]) <= 1 /\ \A j \in 1 .. i - 1 : Len(lv[j]) > 1
  IN  [i \in 1 .. top |-> lv[i]]

Rebuilt(leaves) == LevelsOver(leaves, <<>>)

TopOf(lv) == IF lv[1] = <<>> THEN EmptyRoot ELSE lv[Len(lv)][1]
CachedRoot == TopOf(levels)

(* The siblings on the way up; a node that is promoted alone has none.       *)
CachedProof(index) ==
  LET way[i \in 1 .. Len(levels)] ==
        IF i = 1 THEN [idx |-> index, proof |-> <<>>]
        ELSE LET idx == way[i - 1].idx
                 sib == IF Odd(idx) THEN idx - 1 ELSE idx + 1
             IN  [idx |-> idx \div 2,
                  proof |-> IF sib < Len(levels[i - 1])
                              THEN Append(way[i - 1].proof, levels[i - 1][sib + 1])
                              ELSE way[i - 1].proof]
  IN  way[Len(levels)].proof

logVars == <<levels, other>>

LogInit == levels = <<(<<>>)>> /\ other = <<>>

AppendLeaf(d) ==
  /\ Len(LeafLevel) < IF other = <<>> THEN MaxSize ELSE MaxForged
  /\ levels' = LevelsOver(Append(LeafLevel, Leaf(d)), levels)
  /\ UNCHANGED other

(* What the other log holds, or what a client saw of this one earlier.       *)
AppendOther(d) ==
  /\ Len(other) < MaxOther /\ Len(LeafLevel) <= MaxForged
  /\ other' = Append(other, Leaf(d))
  /\ UNCHANGED levels

LogNext == \E d \in Data : AppendLeaf(d) \/ AppendOther(d)
LogSpec == LogInit /\ [][LogNext]_logVars

-----------------------------------------------------------------------------
(* The nodes a proof can be made of: those of both trees.                    *)
Terms(lv) == UNION {ToSet(lv[i]) : i \in DOMAIN lv}

(* A proof of a log of MaxForged leaves has at most MaxForged elements; one  *)
(* more is tried too.                                                        *)
Forgeries(nodes) == BoundedSeq(nodes, MaxForged)

(* The cache is the tree: after any appends its root, its proofs and, built  *)
(* at once, its levels are those of the recursive definitions.               *)
CacheIsTree ==
  /\ CachedRoot = Root(LeafLevel)
  /\ Rebuilt(LeafLevel) = levels
  /\ \A i \in 0 .. Len(LeafLevel) - 1 : CachedProof(i) = InclusionProof(i, LeafLevel)

(* Every honest proof is accepted: of each leaf, and of each earlier size.   *)
HonestProofsVerify ==
  LET n == Len(LeafLevel) IN
  /\ \A i \in 0 .. n - 1 : VerifyInclusion(LeafLevel[i + 1], i, n, CachedProof(i), CachedRoot)
  /\ \A m \in 0 .. n :
       VerifyConsistency(m, n, Root(SubSeq(LeafLevel, 1, m)), CachedRoot,
                         ConsistencyProof(m, LeafLevel))

(* No proof whatever makes a leaf pass for one at an index where it is not.  *)
InclusionIsSound ==
  (other = <<>> /\ Len(LeafLevel) <= MaxForged) =>
    \A i \in 0 .. Len(LeafLevel), d \in Data, proof \in Forgeries(Terms(levels)) :
      VerifyInclusion(Leaf(d), i, Len(LeafLevel), proof, CachedRoot)
        => i < Len(LeafLevel) /\ LeafLevel[i + 1] = Leaf(d)

(* No proof whatever makes a log pass for an extension of one it does not    *)
(* extend. Of the empty log every log is taken for an extension.             *)
ConsistencyIsSound ==
  (other # <<>> /\ Len(LeafLevel) <= MaxForged) =>
    \A proof \in Forgeries(Terms(levels) \cup Terms(Rebuilt(other))) :
      VerifyConsistency(Len(other), Len(LeafLevel), TopOf(Rebuilt(other)), CachedRoot, proof)
        => IsPrefix(other, LeafLevel)

(* The tree a log keeps level by level is the one RFC 6962 defines, at every  *)
(* size; the proofs it cuts verify, and of all sequences of nodes no other     *)
(* proves a leaf or an earlier tree that is not there (merkle.py).             *)
LogIsSound == CacheIsTree /\ HonestProofsVerify /\ InclusionIsSound /\ ConsistencyIsSound
==============================================================================
