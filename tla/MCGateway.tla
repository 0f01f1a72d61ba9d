------------------------------- MODULE MCGateway -------------------------------
(* The two halves of the frontier gateway: its tokens and their files, and the *)
(* way to it through a relay. What the second needs of the first, which tokens *)
(* a restart forgets, it takes at its worst; a behaviour shows one of them, and *)
(* the other stands still.                                                     *)
EXTENDS FrontierGateway, Naturals

CONSTANTS Questions, TokenOf, Headers, OurHeader, NoReply, MaxStarts  \* of ObliviousHttp

VARIABLES part, key, spent, serving, place, context, upward, downward, got, put, again2

relayVars == <<key, spent, serving, place, context, upward, downward, got, put, again2>>

Relay == INSTANCE ObliviousHttp WITH asked <- put, again <- again2

\* Every question is asked with the one token: its owner, too, shows it twice.
OneToken == [q \in Questions |-> CHOOSE t \in Tokens : TRUE]

\* Whatever is shown spells one token; the other is only ever issued, which
\* has "token issue" run beside a gateway that serves.
OfOneToken == [w \in Spellings |-> CHOOSE t \in Tokens : TRUE]

GInit == part \in {"tokens", "relay"} /\ Init /\ Relay!Init

Token(A) == part = "tokens" /\ A /\ UNCHANGED <<part, relayVars>>

GNext ==
  \/ Token(Next)
  \/ part = "relay" /\ Relay!Next /\ UNCHANGED <<part, vars>>

GSpec ==
  GInit /\ [][GNext]_<<part, vars, relayVars>>
  /\ \A c \in Callers : WF_<<part, vars, relayVars>>(Token(Serve(c)))

(* No relay has a question put to the provider twice or a reply reach another *)
(* call, whatever the gateway forgets when it restarts (oblivious.py).        *)
RelayIsHarmless == Relay!RelayIsHarmless
================================================================================
