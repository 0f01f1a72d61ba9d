------------------------------ MODULE MCAppKeys ------------------------------
(* Threads are interchangeable, and so are minted keys and passphrases.      *)
EXTENDS AppKeys, TLC

Symmetry == Permutations(Threads) \cup Permutations(Keys) \cup Permutations(Passphrases)
==============================================================================
