------------------------------ MODULE MCDispatch -----------------------------
(* Two questions that share a phrase, a one-word question with no phrase in  *)
(* a larger bucket than the cover's, and one too long for every bucket.      *)
EXTENDS Dispatch

MCQuestions == {"about a", "about a and b", "long", "too long"}
MCNgrams == [q \in MCQuestions |->
               CASE q = "about a"       -> {"a"}
                 [] q = "about a and b" -> {"a", "b"}
                 [] q = "long"          -> {}
                 [] q = "too long"      -> {"c"}]
MCBucket == [q \in MCQuestions |->
               CASE q = "long" -> 2 [] q = "too long" -> 3 [] OTHER -> 1]
==============================================================================
