-------------------------- MODULE MCReplication --------------------------
(* Nodes of one kind are interchangeable, and so are clients and contents. *)
EXTENDS Replication, TLC

Symmetry == Permutations(Honest) \cup Permutations(Clients) \cup Permutations(Contents)
==========================================================================
