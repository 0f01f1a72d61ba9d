-------------------------------- MODULE Receipt --------------------------------
(* What a user is told about a question that went to a frontier model: the      *)
(* request as the app and the command take it, the call that carries it, and    *)
(* the receipt with its claims and its warnings (oblivio/frontier_private.py,    *)
(* the padding of oblivio/dp.py, the hosted call of oblivio/cloud_gate.py).      *)
(*                                                                            *)
(* A question is a record of what the user passed. A URL is its host. Claims    *)
(* and warnings are named, not worded.                                         *)
EXTENDS Integers, FiniteSets, FiniteSetsExt

CONSTANTS
  LocalHosts,     \* hosts that show by their name or address to be this machine or LAN
  Buckets,        \* lengths a request is padded to
  Frame           \* bytes of the padding header itself

NoHost == "none"

-----------------------------------------------------------------------------
(* The call. A gateway takes a blind token, the hosted path the user's key.   *)
ByGateway(q) == q.gateway # NoHost
ByRelay(q) == ByGateway(q) /\ q.relay # NoHost
TransportOf(q) == IF ByRelay(q) THEN "ohttp" ELSE "direct"

(* The smallest bucket that holds the size; too long is said to be too long.  *)
PadToBucket(size, buckets) ==
  LET fit == {b \in buckets : size <= b}
  IN IF fit = {} THEN [bucketed |-> FALSE, pad |-> 0]
     ELSE [bucketed |-> TRUE, pad |-> Min(fit) - size, bucket_bytes |-> Min(fit),
           buckets |-> Cardinality(buckets)]

(* The hosted call needs both acknowledgements, a key and a base, and reports *)
(* what it did; the gateway's completer reports nothing.                      *)
CloudComplete(q) ==
  LET report == PadToBucket(q.body_bytes + Frame, Buckets)
  IN [key |-> TRUE, token |-> FALSE, host |-> q.api_base,
      length |-> IF report.bucketed THEN q.body_bytes + Frame + report.pad ELSE q.body_bytes,
      length_channel |-> report, response_streaming |-> "no"]

GatewayComplete(q) ==
  [key |-> FALSE, token |-> TRUE, host |-> IF ByRelay(q) THEN q.relay ELSE q.gateway,
   length |-> q.body_bytes, length_channel |-> [bucketed |-> FALSE, pad |-> 0],
   response_streaming |-> "not_said"]

Wire(q) == IF ByGateway(q) THEN GatewayComplete(q) ELSE CloudComplete(q)

-----------------------------------------------------------------------------
(* From transport facts and only then from the user's word; the first fact    *)
(* that fails is the reason. Mutant: one host may play both parts.            *)
AssessNetworkByWord(transport, gateway, relay, independent) ==
  IF transport # "ohttp" THEN "direct"
  ELSE IF relay = NoHost THEN "no_relay"
  ELSE IF independent # "yes" THEN "not_asserted"
  ELSE "private"

AssessNetwork(transport, gateway, relay, independent) ==
  IF transport # "ohttp" THEN "direct"
  ELSE IF relay = NoHost THEN "no_relay"
  ELSE IF gateway # NoHost /\ relay = gateway THEN "same_host"
  ELSE IF {relay, gateway} \subseteq LocalHosts THEN "both_local"
  ELSE IF independent # "yes" THEN "not_asserted"
  ELSE "private"

DefaultResidual == {"ip_visible", "streaming_leaks", "style", "no_attested_host"}
ContentClaims == {"facts_stay_here"}

(* The receipt of a question that was answered. How the text was chosen: as   *)
(* it is, the first clean abstraction, or one drawn from several.             *)
Mode(q) == IF q.overlap THEN "abstracted" ELSE "general_direct"
ChosenAtRandom(q) == q.overlap /\ q.dp_epsilon > 0

Claims(q, wire) ==
  ContentClaims
    \cup (IF ChosenAtRandom(q) THEN {"chosen_at_random"} ELSE {})
    \cup (IF wire.response_streaming = "no" THEN {"one_body"} ELSE {})
    \cup (IF wire.length_channel.bucketed THEN {"bucketed"} ELSE {})
    \cup (IF ByGateway(q) THEN {"no_account"} ELSE {})

Residual(q, wire, posture) ==
  (DefaultResidual
     \ ((IF wire.response_streaming = "no" THEN {"streaming_leaks"} ELSE {})
          \cup (IF posture = "private" THEN {"ip_visible"} ELSE {})))
    \cup (IF Mode(q) = "general_direct" THEN {"your_exact_words"} ELSE {})
    \cup (IF ByGateway(q) THEN {} ELSE {"your_key_is_an_account"})
    \cup (IF q.independent = "no" THEN {"operators_are_one"} ELSE {})
    \cup {posture}

FrontierReceipt(q) ==
  LET wire    == Wire(q)
      posture == AssessNetwork(TransportOf(q), q.gateway, q.relay, q.independent)
  IN [mode |-> Mode(q), claims |-> Claims(q, wire), residual |-> Residual(q, wire, posture),
      transport |-> TransportOf(q), identity_private |-> ByGateway(q),
      metadata_private |-> posture = "private",
      length_channel |-> wire.length_channel, response_streaming |-> wire.response_streaming]

-----------------------------------------------------------------------------
(* The two ways in, each with its own refusals before anything is read or sent. *)
OptedIn(q) == q.enable_frontier /\ q.accept_residual_risks

AskedWell(q) ==
  /\ q.model
  /\ IF ByGateway(q) THEN q.token ELSE q.api_base # NoHost /\ q.api_key

(* A relay needs a gateway behind it, and the gateway's key from elsewhere.   *)
RelayMakesSense(q) == q.relay # NoHost => ByGateway(q) /\ q.ohttp_config

AppTakes(q) == OptedIn(q) /\ AskedWell(q) /\ RelayMakesSense(q)

(* The command lets a relay without a gateway pass, and does not use it, and  *)
(* one without a key, of which only the call complains.                       *)
CommandTakes(q) == OptedIn(q) /\ AskedWell(q)

Takes(q) == IF q.by = "app" THEN AppTakes(q) ELSE CommandTakes(q)

(* The local model fails, or no abstraction is clean: refused, nothing sent.   *)
FrontierChat(q) ==
  IF ~Takes(q) THEN [status |-> "asked_badly", sent |-> FALSE]
  ELSE IF q.overlap /\ ~q.abstraction THEN [status |-> "refused", sent |-> FALSE]
  ELSE IF ByRelay(q) /\ ~q.ohttp_config THEN [status |-> "failed", sent |-> FALSE]
  ELSE IF q.answer # "reply" THEN [status |-> "failed", sent |-> TRUE]
  ELSE [status |-> "ok", sent |-> TRUE, receipt |-> FrontierReceipt(q), wire |-> Wire(q)]

-----------------------------------------------------------------------------
(* No claim outruns the call that was made, and no warning is dropped that     *)
(* still holds.                                                                *)
SplitInFact(q, wire) ==
  /\ wire.host = q.relay
  /\ q.relay # q.gateway
  /\ ~({q.relay, q.gateway} \subseteq LocalHosts)
  /\ q.independent = "yes"

ReceiptIsTrue(q) ==
  LET out == FrontierChat(q) IN
    /\ out.sent => OptedIn(q) /\ (q.overlap => q.abstraction)
    /\ out.status = "ok" =>
         LET r == out.receipt  w == out.wire IN
           /\ r.metadata_private => SplitInFact(q, w)
           /\ "ip_visible" \notin r.residual => SplitInFact(q, w)
           /\ r.identity_private => w.token /\ ~w.key
           /\ "your_key_is_an_account" \notin r.residual => ~w.key
           /\ "bucketed" \in r.claims => w.length \in Buckets
           /\ "bucketed" \notin r.claims /\ w.key => \A b \in Buckets : w.length > b - Frame
           /\ "streaming_leaks" \notin r.residual => w.response_streaming = "no"
           /\ "your_exact_words" \in r.residual <=> ~q.overlap
           /\ "chosen_at_random" \in r.claims => r.mode = "abstracted"
=============================================================================
