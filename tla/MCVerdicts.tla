------------------------------ MODULE MCVerdicts -------------------------------
(* The verdicts the system gives on evidence it is handed. The hash tree grows  *)
(* leaf by leaf; each of the other parts is an algorithm that is tried on every  *)
(* input of a small set, one step from nothing to the input.                    *)
EXTENDS MerkleLog, Verdicts

TryHere(p) == Try(p) /\ UNCHANGED logVars

-----------------------------------------------------------------------------
(* A host's document: the envelope, and what was signed, chosen apart; two     *)
(* keys, two measurements, the nonce of this challenge and that of another.    *)
SomeWords(ages) ==
  [measurement : {"reviewed", "other"}, report_data : {<<"attest", n>> : n \in 1 .. 2},
   signed_at : ages, debug : BOOLEAN]

Said(form, w) ==
  [format |-> form, measurement |-> w.measurement, report_data |-> w.report_data,
   signed_at |-> w.signed_at, debug |-> w.debug]

Envelope(form, w, key, signature, raw) ==
  [format |-> form, measurement |-> w.measurement, report_data |-> w.report_data,
   signed_at |-> w.signed_at, debug |-> IF w.debug THEN "on" ELSE "off",
   signing_key |-> key, signature |-> signature, raw |-> raw]

GoodShape == [present |-> TRUE, decodable |-> TRUE, sized |-> TRUE, sig_overlong |-> FALSE, algo |-> 1]
Shapes ==
  {GoodShape, [GoodShape EXCEPT !.present = FALSE], [GoodShape EXCEPT !.decodable = FALSE],
   [GoodShape EXCEPT !.sized = FALSE], [GoodShape EXCEPT !.sig_overlong = TRUE],
   [GoodShape EXCEPT !.algo = 2]}

Report(shape, w, tail, tcb, by) ==
  [present |-> shape.present, decodable |-> shape.decodable, sized |-> shape.sized,
   sig_overlong |-> shape.sig_overlong, algo |-> shape.algo, tail |-> tail,
   measurement |-> w.measurement, report_data |-> w.report_data, debug |-> w.debug,
   reported_tcb |-> tcb, signed_by |-> by]

AnyWord == CHOOSE w \in SomeWords({0}) : TRUE
NoReport == Report([GoodShape EXCEPT !.present = FALSE], AnyWord, FALSE, 7, "rogue")
NoSignature == [by |-> "nobody", over |-> Said("sev-snp", AnyWord)]

Chain(askBy) ==
  [ark |-> [key |-> "ark", by |-> "ark"], ask |-> [key |-> "ask", by |-> askBy],
   vcek |-> [key |-> "chip", by |-> "ask"]]

NoSev == [supplied |-> FALSE, expected_tcb |-> 0, chain |-> Chain("ark")]
Policy(measurements, debug) ==
  [measurements |-> measurements, roots |-> {"root"}, require_debug_disabled |-> debug]
SomePolicies == {Policy({"reviewed"}, TRUE), Policy({"reviewed"}, FALSE), Policy({}, TRUE)}

Signed(wires, forms, policies) ==
  {[wire |-> wire, policy |-> p, sev |-> NoSev, answer |-> "error",
    doc |-> Envelope(form, w, key, [by |-> by, over |-> Said(form, s)], NoReport)] :
     form \in forms, w \in SomeWords({-301, -300, 30, 31}),
     key \in {"root", "rogue"}, by \in {"root", "rogue"}, s \in SomeWords({-301, 30}),
     p \in policies, wire \in wires}

\* Reports in the right shape, whoever signed them, and in others that the
\* chip itself signed.
Reported(shapes, tails, signers, issuers, lowest) ==
  {[wire |-> "document", answer |-> "reply", policy |-> Policy({"reviewed"}, debug),
    sev |-> [supplied |-> supplied, expected_tcb |-> tcb, chain |-> Chain(askBy)],
    doc |-> Envelope("sev-snp", w, key, NoSignature, Report(shape, s, tail, 7, by))] :
     w \in SomeWords({0}), key \in {"root", "rogue"}, shape \in shapes, s \in SomeWords({0}),
     tail \in tails, by \in signers, askBy \in issuers,
     supplied \in BOOLEAN, tcb \in lowest, debug \in BOOLEAN}

MCEvidence ==
  {Signed({"document"}, {"ed25519-ref", "tdx"}, SomePolicies),
   Signed({"redirect"}, {"ed25519-ref"}, {Policy({"reviewed"}, TRUE)}),
   Reported({GoodShape}, BOOLEAN, {"chip", "rogue"}, {"ark", "rogue"}, {0, 8}),
   Reported(Shapes \ {GoodShape}, {FALSE}, {"chip"}, {"ark"}, {0})}

-----------------------------------------------------------------------------
(* Shares and codes, over the field of eight elements.                        *)
Paper == INSTANCE Recovery WITH FieldBits <- 3, Poly <- 11

TrySplit ==
  /\ TryHere("paper")
  /\ \E threshold \in 2 .. 3, shares \in 1 .. 4 :
       /\ Paper!MaySplit(threshold, shares)
       /\ threshold = 3 => shares = 3
       /\ \E key \in {0, 5}, rest \in [1 .. threshold - 1 -> 0 .. 7] :
            input' = [coefficients |-> <<key>> \o rest, shares |-> shares,
                      code |-> Paper!Code(key), text |-> Paper!EncodedShare([index |-> 1, data |-> key])]

TryWritten ==
  /\ TryHere("paper")
  /\ \E key, copied \in 0 .. 3, spare \in 0 .. 1, index \in 0 .. 2, label \in -1 .. 2 :
       LET share(k) == [index |-> index, data |-> k]
       IN input' = [coefficients |-> <<key, copied>>, shares |-> 2,
            code |-> [payload |-> copied, check |-> Paper!Checksum(key), spare |-> spare],
            text |-> [label |-> label, payload |-> share(copied),
                      check |-> Paper!Checksum(share(key)), spare |-> spare]]

(* Any enough shares give the key back and no smaller number of them tells it, *)
(* a code or share reads only as it was written, and a backup opens to the key *)
(* it was made of or not at all (recovery.py).                                 *)
KeyComesBackWhole ==
  Tried("paper") =>
    /\ Paper!SplitIsSound(input.coefficients, input.shares)
    /\ Paper!OneSpelling(input.code, input.text)
    /\ \A p, q \in {"", "one", "two"} : \A cut \in {"magic", "whole"} :
         Paper!BackupOpens(input.coefficients[1], p, q, cut)

-----------------------------------------------------------------------------
(* Proofs of knowledge in a group of order seven with four challenges.        *)
Drawn == [c : 0 .. 3, s : {0, 2}]
Honest ==
  [kind : {"honest"}, value : {0, 1, 3, 6}, blinding : {0, 1, 3, 6}, w : {0, 3}, w2 : {1, 6},
   c : 0 .. 3, simulated : Drawn \X Drawn]

False ==
  {[kind |-> "false", commitment |-> <<value, b>>, other |-> <<second, 1>>,
    candidates |-> candidates, t |-> <<<<t1, b>>, <<t2, 0>>>>] :
     value \in 0 .. 6, second \in {0, 4}, candidates \in {<<0, 1>>, <<2, 5>>},
     t1 \in 0 .. 6, t2 \in 0 .. 6, b \in {0, 3}}

KeptLists ==
  {[kind : {"keep"}, log : [1 .. 3 -> {3, 4, 11}], head : 1 .. 3, list : {list},
    index : 1 .. list, vhead : 1 .. 3, vlist : 1 .. 3, b : {0, 2}] : list \in 1 .. 3}

MCClaims == {Honest, False} \cup KeptLists

-----------------------------------------------------------------------------
(* Texts over three words and a capital, with a structured find that overlaps  *)
(* the declared values; texts with a placeholder in them, and with one in       *)
(* another spelling.                                                           *)
LowerOf(word) == IF word = <<"A">> THEN <<"a">> ELSE word
MCVocabulary == {<<"a">>, <<"A">>, <<"b">>, <<"k">>}
MCStructured == {<<<<"k">>, <<"b">>>>, <<<<"k">>, <<"a">>>>}

Texts(n) == UNION {[1 .. i -> MCVocabulary] : i \in 0 .. n}
Foreign == <<<<"k">>, <<"a">>, <<"PERSON", 0>>>>
Respelled(kind) == <<<<"k">>, <<kind, 0, "loose">>, <<"a">>>>
Declarations ==
  {<<>>, <<<<<<"a">>>>>>, <<<<<<"a">>, <<"k">>>>, <<<<"b">>, <<"a">>>>>>,
   <<<<<<"A">>, <<"b">>, <<"a">>>>, <<<<"k">>, <<"a">>>>>>, <<<<<<"b">>>>, <<<<"a">>, <<"b">>>>>>}

MCConversations ==
  {[declared : Declarations,
    prompt : Texts(4) \cup {Foreign, Respelled("PERSON"), Respelled("KEY")},
    system : Texts(1) \cup {<<<<"k">>, <<"b">>>>, Respelled("KEY")}, learnt : {<<>>, Foreign}]}

-----------------------------------------------------------------------------
(* Questions as the app and the command pass them on.                         *)
MCQuestions ==
  {[by : {"app", "command"}, enable_frontier : BOOLEAN, accept_residual_risks : {TRUE},
    model : {TRUE}, gateway : {"none", "gw", "localhost"},
    relay : {"none", "gw", "relay", "10.0.0.1"}, ohttp_config : BOOLEAN, token : BOOLEAN,
    api_base : {"provider"}, api_key : BOOLEAN, overlap : BOOLEAN, abstraction : BOOLEAN,
    independent : {"yes", "no", "not_said"}, dp_epsilon : {0, 2},
    body_bytes : {3, 4, 7, 8}, answer : {"reply", "error"}]}

-----------------------------------------------------------------------------
(* Calls of tools in every case, and other messages in one.                   *)
Anywhere ==
  [link |-> "down", app_host |-> "other", agents_on |-> FALSE, token |-> "none",
   sealed |-> FALSE, unlocked |-> FALSE, backed_up |-> FALSE, node |-> "down",
   index |-> 0, records |-> {}, granted |-> 0, required |-> 0, text |-> TRUE,
   known_class |-> TRUE, fails |-> "nowhere"]

ToolCalls(names, numbers, texts, failures) ==
  [case :
     [app_host : {"loopback", "other"}, link : {"good", "reply_lost", "down"},
      agents_on : BOOLEAN, token : {"none", "current", "old"}, sealed : BOOLEAN,
      unlocked : BOOLEAN, backed_up : BOOLEAN, node : {"up", "starts", "down"},
      index : numbers, records : {{0}}, granted : 0 .. 1, required : 0 .. 1, text : texts,
      known_class : {TRUE}, fails : failures],
   msg : [method : {"tools_call"}, name : names, has_id : {TRUE}]]

OtherCalls ==
  [case : {Anywhere},
   msg : [method : {"initialize", "ping", "tools_list", "not_json", "something"},
          name : {"none"}, has_id : BOOLEAN]]

OtherTools == {"list_memories", "keep_status", "unknown"}

MCCalls ==
  {ToolCalls({"save_memory"}, {0}, BOOLEAN, {"nowhere", "before", "after"}),
   ToolCalls({"read_memory"}, {-1, 0, 2}, {TRUE}, {"nowhere"}),
   ToolCalls(OtherTools, {0}, {TRUE}, {"nowhere"}), OtherCalls}

-----------------------------------------------------------------------------
(* Two nodes and a host that is for the local machine only; lists of two        *)
(* entries, and two records on a node that is audited.                         *)
Peer(resolves, health) ==
  [name |-> "public", resolves |-> resolves, health |-> health, head |-> "ok", records |-> <<>>]
Inner == [Peer({"metadata"}, "ok") EXCEPT !.name = "metadata"]

At(host, pin) == [form |-> "url", host |-> host, pin |-> pin]
Listed ==
  {At(host, pin) : host \in {"n", "m"}, pin \in {"no pin", "k", "j"}}
    \cup {At("inner", "no pin"), [At("n", "k") EXCEPT !.form = "junk"]}
ListsUpTo(n) == UNION {[1 .. i -> Listed] : i \in 0 .. n} \cup {Finder!Error}

ListCases ==
  [kind : {"list"}, file : ListsUpTo(2),
   bootstrap : ListsUpTo(1) \cup
     {<<At("inner", "no pin"), At("n", "j")>>, <<At("m", "j"), At("m", "k")>>},
   world :
     [n : {Peer(resolves, health) : resolves \in {{}, {"public"}, {"public", "metadata"}},
                                    health \in {"ok", "down"}},
      m : {Peer({"public"}, "ok"), Peer({"public"}, "redirect")}, inner : {Inner}]]

Behaviours ==
  {[Peer({"public"}, "ok") EXCEPT !.records = r] : r \in UNION {[1 .. i -> Meets] : i \in 0 .. 2}}
    \cup {[Peer({"public"}, "ok") EXCEPT !.head = h] : h \in {"insecure", "no answer"}}

AuditCases ==
  [kind : {"audit"}, sample : 1 .. 2, file : {<<At("n", "no pin"), At("m", "no pin")>>},
   world : [n : Behaviours, m : Behaviours, inner : {Inner}]]

MCNodeLists == {ListCases, AuditCases}

-----------------------------------------------------------------------------
AllInit ==
  /\ part \in Parts \cup {"log", "paper"}
  /\ tried = FALSE /\ input = <<>>
  /\ LogInit

GrowLog == part = "log" /\ LogNext /\ UNCHANGED partVars
TryVerdict == VNext /\ UNCHANGED logVars

AllNext ==
  \/ GrowLog \/ TryVerdict \/ TrySplit \/ TryWritten

AllSpec == AllInit /\ [][AllNext]_<<logVars, partVars>>
=============================================================================
