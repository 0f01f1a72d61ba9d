---------------------------- MODULE ObliviousHttp ----------------------------
(* Questions to the frontier gateway through a relay (oblivious.py, hpke.py,   *)
(* frontier_relay.py, and complete_ohttp and handle_ohttp of                   *)
(* frontier_gateway.py). The relay is anybody's: it holds what clients sent    *)
(* and what the gateway answered, and passes on what it likes, as often and to *)
(* whom it likes, with parts exchanged. It holds no key.                       *)
(*                                                                             *)
(* The key schedule binds the secret of an HPKE context to the recipient's key *)
(* pair, the encapsulated key and the header, so a context is those three, and *)
(* what was sealed opens under an equal context and no other. Every call makes *)
(* an ephemeral key of its own, named here by its question. The gateway's key  *)
(* pair is made when its process starts and kept in no file: it is the number  *)
(* of that start.                                                              *)
EXTENDS Naturals

CONSTANTS
  Questions,         \* the calls clients make
  Tokens, TokenOf,   \* the one-time token each of them presents
  Headers, OurHeader,\* key and algorithm identifiers; those the gateway has
  NoReply,
  MaxStarts          \* bound: starts of the gateway

VARIABLES
  key,       \* the gateway's key pair
  spent,     \* Issuer.spent of the running gateway
  serving,   \* question -> how far a request thread of the gateway has it
  place,     \* question -> how far the client's call is
  context,   \* question -> the context it was sealed under
  upward,    \* the sealed questions the relay holds
  downward,  \* the sealed replies the relay holds
  got,       \* question -> the reply its call returned
  asked,     \* ghost: questions that were put to the provider
  again      \* ghost: questions that were put to it more than once

vars == <<key, spent, serving, place, context, upward, downward, got, asked, again>>

Contexts == [key : Nat, enc : Questions, header : Headers]
Idle == [key |-> 0, enc |-> CHOOSE q \in Questions : TRUE, header |-> OurHeader]
Sealed == [context : Contexts, text : Questions]

Init ==
  /\ key = 0 /\ spent = {}
  /\ serving = [q \in Questions |-> "no"]
  /\ place = [q \in Questions |-> "unsent"]
  /\ context = [q \in Questions |-> Idle]
  /\ upward = {} /\ downward = {}
  /\ got = [q \in Questions |-> NoReply]
  /\ asked = {} /\ again = {}

Seal(c, text) == [context |-> c, text |-> text]
Opens(sealed, c) == sealed.context = c

-----------------------------------------------------------------------------
(* The client is given the gateway's configuration as a value, perhaps one of *)
(* a gateway that has restarted since, or one with other identifiers.         *)
Send(q) ==
  /\ place[q] = "unsent"
  /\ \E k \in 0..key, header \in Headers :
       LET c == [key |-> k, enc |-> q, header |-> header]
       IN /\ context' = [context EXCEPT ![q] = c]
          /\ upward' = upward \cup {Seal(c, q)}
  /\ place' = [place EXCEPT ![q] = "waiting"]
  /\ UNCHANGED <<key, spent, serving, downward, got, asked, again>>

(* The relay passes on a sealed question, or one put together from parts. The *)
(* gateway refuses another header, and what its key does not open; then it    *)
(* redeems the token that was inside, under its lock.                         *)
ContextHere(enc, header) == [key |-> key, enc |-> enc, header |-> header]

Deliver(sealed, enc, header) ==
  /\ header = OurHeader /\ Opens(sealed, ContextHere(enc, header))
  /\ serving[sealed.text] = "no" /\ TokenOf[sealed.text] \notin spent
  /\ spent' = spent \cup {TokenOf[sealed.text]}
  /\ serving' = [serving EXCEPT ![sealed.text] = "redeemed"]
  /\ UNCHANGED <<key, place, context, upward, downward, got, asked, again>>

Ask(q) ==
  /\ serving[q] = "redeemed"
  /\ serving' = [serving EXCEPT ![q] = "asked"]
  /\ asked' = asked \cup {q}
  /\ again' = again \cup ({q} \cap asked)
  /\ UNCHANGED <<key, spent, place, context, upward, downward, got>>

\* The response key comes of the exporter secret of the context the request
\* was opened under, and a nonce of its own.
SealReply(q) == {Seal(context[q], q)}

(* The provider's reply goes back sealed. When it fails, an error does, which *)
(* is not sealed, and which the relay can make up as well.                    *)
Reply(q) ==
  /\ serving[q] = "asked"
  /\ serving' = [serving EXCEPT ![q] = "no"]
  /\ \E replies \in {SealReply(q), {}} : downward' = downward \cup replies
  /\ UNCHANGED <<key, spent, place, context, upward, got, asked, again>>

\* Mutant: the key pair is kept in a file, like the issuer's.
RestartKeepingKey ==
  /\ key < MaxStarts /\ key' = key
  /\ spent' \in SUBSET spent
  /\ serving' = [q \in Questions |-> "no"]
  /\ UNCHANGED <<place, context, upward, downward, got, asked, again>>

(* The gateway stops or is killed, its threads with it, and starts again: on  *)
(* the list of spent tokens that is in its file, which may lack any of them   *)
(* (FrontierGateway says when), and with a new key pair under the old key id. *)
Restart ==
  /\ key < MaxStarts /\ key' = key + 1
  /\ spent' \in SUBSET spent
  /\ serving' = [q \in Questions |-> "no"]
  /\ UNCHANGED <<place, context, upward, downward, got, asked, again>>

(* The call ends: with the reply in what the relay sent it, when its own      *)
(* context opens that, or else with an error or a time-out.                   *)
Return(q, sealed) ==
  /\ place[q] = "waiting" /\ Opens(sealed, context[q])
  /\ got' = [got EXCEPT ![q] = sealed.text]
  /\ place' = [place EXCEPT ![q] = "returned"]
  /\ UNCHANGED <<key, spent, serving, context, upward, downward, asked, again>>

Fail(q) ==
  /\ place[q] = "waiting"
  /\ place' = [place EXCEPT ![q] = "failed"]
  /\ UNCHANGED <<key, spent, serving, context, upward, downward, got, asked, again>>

Next ==
  \/ Restart
  \/ \E q \in Questions : Send(q) \/ Ask(q) \/ Reply(q) \/ Fail(q)
  \/ \E sealed \in upward, enc \in Questions, header \in Headers : Deliver(sealed, enc, header)
  \/ \E q \in Questions, sealed \in downward : Return(q, sealed)

Spec == Init /\ [][Next]_vars

-----------------------------------------------------------------------------
TypeOK ==
  /\ key \in Nat /\ spent \subseteq Tokens
  /\ serving \in [Questions -> {"no", "redeemed", "asked"}]
  /\ place \in [Questions -> {"unsent", "waiting", "returned", "failed"}]
  /\ context \in [Questions -> Contexts]
  /\ upward \subseteq Sealed /\ downward \subseteq Sealed
  /\ got \in [Questions -> Questions \cup {NoReply}]
  /\ asked \subseteq Questions /\ again \subseteq Questions

(* A relay that keeps a sealed question and plays it again, to whatever start *)
(* of the gateway, never has it put to the provider twice: while the gateway  *)
(* runs the token in it is spent, and once a kill made the gateway forget     *)
(* that, nothing opens the question any more (handle_ohttp, and the key pair  *)
(* that no file keeps).                                                       *)
AskedOnce == again = {}

(* Whatever replies the relay holds and exchanges, a call returns the         *)
(* provider's reply to its own question, put to the provider for it, or fails *)
(* (Client.send, decapsulate_response).                                       *)
ReplyIsMine ==
  \A q \in Questions : place[q] = "returned" => got[q] = q /\ q \in asked

(* What a relay of whoever it may be cannot bring about: a question that is   *)
(* paid for twice, and a reply to another's.                                  *)
RelayIsHarmless == AskedOnce /\ ReplyIsMine
==============================================================================
