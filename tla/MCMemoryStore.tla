-------------------------- MODULE MCMemoryStore --------------------------
(* MemoryStore on small sets, for TLC.  Identifiers and ciphertexts are    *)
(* interchangeable, so both are symmetry sets.                             *)
EXTENDS MemoryStore, TLC

Symmetry == Permutations(RecordIds) \cup Permutations(Ciphertexts)
==========================================================================
