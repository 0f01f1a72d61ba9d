------------------------------ MODULE MCAgentGate ------------------------------
(* Two requests at once; a personal and a secret class; the user opens and    *)
(* tightens policy and tier together. A behaviour shows one of three parts:   *)
(* what is released of one record while policy and tier change; who is let    *)
(* in, with several tokens and nothing but switching and writing; or reads    *)
(* and lists of two records, which the page writes once the user has set      *)
(* agents up.                                                                 *)
EXTENDS AgentGate, TLC

CONSTANTS t1, t2
VARIABLE part

MCDefault == ("personal" :> 1) @@ ("secret" :> 2)
Edit(personal, granted) ==
  [policy |-> ("personal" :> personal) @@ ("secret" :> 2), tier |-> granted]
MCEdits == {Edit(1, 1), Edit(2, 0)}

AInit == GateInit /\ part \in {"releasing", "switching", "reading"}
Busy(ops) == \E t \in Threads : job'[t].op \in ops
AgentWrites == \E t \in Threads : job'[t].op = "write" /\ job'[t].token # NoAgentToken
ANext ==
  /\ GateNext /\ UNCHANGED part
  /\ part = "releasing" => minted' <= 1 /\ Len(keep') <= 1 /\ entered' <= 1
  /\ part = "switching" => ~Busy({"change", "read", "list"}) /\ Len(keep') <= 1
  /\ part = "reading" =>
       minted' <= 1 /\ ~AgentWrites /\ (keep' = <<>> \/ ~Busy({"change", "switch"}))
ASpec == AInit /\ [][ANext]_<<gateVars, part>>

Symmetry == Permutations(Threads)
================================================================================
