-------------------------- MODULE AppendOnlyLog --------------------------
(***************************************************************************)
(* What a keep promises: one history that only grows, and signed heads     *)
(* that are each some moment of that one history.  A head stands for the   *)
(* tree it commits to: the pair (tree_size, root) is the sequence of the   *)
(* leaves themselves, SHA-256 being taken as collision free, so that two   *)
(* heads have the same size and root exactly when they are equal here.     *)
(***************************************************************************)
EXTENDS Naturals, Sequences

CONSTANT Leaf          \* the leaf hashes, one for each ciphertext

VARIABLES entries,     \* the history
          heads        \* every head that was ever signed and published

vars == <<entries, heads>>

TypeOK == /\ entries \in Seq(Leaf)
          /\ heads \subseteq Seq(Leaf)

Init == /\ entries = <<>>
        /\ heads = {}

Extend(leaf) == /\ entries' = Append(entries, leaf)
                /\ UNCHANGED heads

Publish == /\ heads' = heads \cup {entries}
           /\ UNCHANGED entries

Next == Publish \/ \E leaf \in Leaf : Extend(leaf)

Spec == Init /\ [][Next]_vars

--------------------------------------------------------------------------

(* h is the state of history s at the moment s had Len(h) entries. *)
IsMomentOf(h, s) == /\ Len(h) <= Len(s)
                    /\ \A i \in 1..Len(h) : h[i] = s[i]

(* No two published heads have one size and different roots: nobody can    *)
(* assemble an equivocation proof (witness.py, EquivocationProof.holds).   *)
NoEquivocation == \A g, h \in heads : Len(g) = Len(h) => g = h

(* Any two published heads are consistent: the older is a prefix of the    *)
(* newer, so a consistency proof exists whichever of them is pinned.       *)
OneHistory == \A g, h \in heads : IsMomentOf(g, h) \/ IsMomentOf(h, g)
==========================================================================
