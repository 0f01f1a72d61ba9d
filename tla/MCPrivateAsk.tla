----------------------------- MODULE MCPrivateAsk -----------------------------
(* Two processes of frontier-chat; one personal and one secret memory, a      *)
(* question that quotes the first and one that quotes nothing, candidates that *)
(* leak the one, the other, or nothing, an epsilon below the last place kept. *)
EXTENDS PrivateAsk, TLC

CONSTANTS s1, s2

MCAbstractions ==
  {[facts |-> {"name", "pin"}, spec |-> 1], [facts |-> {}, spec |-> 1], [facts |-> {}, spec |-> 2]}

Note == [facts |-> {"name"}, secret |-> FALSE]
Secret == [facts |-> {"pin"}, secret |-> TRUE]
Quoting == [facts |-> {"name"}, spec |-> 2]
Plain == [facts |-> {}, spec |-> 3]
Cli(message, eps, ledger, context) ==
  [by |-> "cli", message |-> message, eps |-> eps, budget |-> 5, ledger |-> ledger,
   context |-> context]
Charged == {Cli(Quoting, 1, TRUE, {Note}), Cli(Plain, 2, TRUE, {Note})}
Uncharged ==
  {Cli(Quoting, 0, FALSE, {}),
   [by |-> "app", message |-> Quoting, eps |-> 3, budget |-> 0, ledger |-> FALSE,
    context |-> {Secret}]}
MCInUse == Charged \cup Uncharged
MCMemories == {Note, Secret}
MCMessages == {Quoting, Plain}

Symmetry == Permutations(Sessions)
================================================================================
