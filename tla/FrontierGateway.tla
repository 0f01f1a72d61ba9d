--------------------------- MODULE FrontierGateway ---------------------------
(* The account-decoupled gateway (frontier_gateway.py) and the one-time       *)
(* tokens it takes (anon_token.py). Three parties share one issuer key file   *)
(* and the list of spent tokens beside it: the gateway process, the threads   *)
(* that serve its requests, and the command "oblivio token issue", which the  *)
(* README runs while the gateway serves. Nothing locks the two files.         *)
(*                                                                            *)
(* Signing is ideal: a token verifies under the key that signed it and no     *)
(* other. A client shows a token as often as it likes, and in any hexadecimal *)
(* spelling of it: the signature is checked of the bytes, the list of spent   *)
(* tokens is one of spellings. Through the relay or directly makes no         *)
(* difference here.                                                           *)
EXTENDS FiniteSets

CONSTANTS
  Callers,     \* bound: requests the gateway serves at once
  Tokens,      \* bound: tokens ever issued
  Spellings,   \* bound: hexadecimal strings that are shown as tokens
  Decoded,     \* spelling -> the token whose bytes it spells
  Keys,        \* bound: issuer keys ever generated
  None,        \* no key, no file
  Torn         \* a file opened for writing and not yet written

ASSUME FilesAssumption ==
  /\ None \notin Keys /\ Torn \notin Keys /\ None # Torn
  /\ \A S \in SUBSET Spellings : S # None /\ S # Torn
  /\ Decoded \in [Spellings -> Tokens]

Processes == {"gateway", "issue"}

VARIABLES
  pem,        \* the issuer key file
  book,       \* <key file>.spent.json: the spent spellings it lists
  proc,       \* process -> where it is, and the Issuer it holds
  call,       \* caller -> the request a gateway thread serves for it
  issued,     \* token -> the key it was signed under; None before that
  used,       \* ghost: keys generated so far
  redeemed,   \* ghost: spellings some gateway redeemed
  asked,      \* ghost: spellings a provider call was made for
  again,      \* ghost: those a second was made for, hit by no mishap
  late,       \* ghost: spellings redeemed after the gateway's last save
  stale,      \* ghost: the gateway saved after "issue" loaded
  lost        \* ghost: redeemed spellings that only a named mishap can forget

ghosts == <<redeemed, asked, again, late, stale, lost>>
vars == <<pem, book, proc, call, issued, used, ghosts>>

\* ready: the gateway serves, the command is about to sign.
\* last: the save under way is the one the process ends with.
Issuers == [at : {"minted", "pem", "book", "ready", "saved"}, key : Keys,
            spent : SUBSET Spellings, last : BOOLEAN]
Requests == [at : {"arrived", "redeemed"}, token : Spellings]
Asking == [at |-> "asked", token |-> None]
Down == [at |-> "down", key |-> None, spent |-> {}, last |-> FALSE]
Free == [at |-> "none", token |-> None]

Init ==
  /\ pem = None /\ book = None
  /\ proc = [p \in Processes |-> Down]
  /\ call = [c \in Callers |-> Free]
  /\ issued = [t \in Tokens |-> None]
  /\ used = {}
  /\ redeemed = {} /\ asked = {} /\ again = {}
  /\ late = {} /\ stale = FALSE /\ lost = {}

gw == proc["gateway"]
cli == proc["issue"]
Saved == IF book \in {None, Torn} THEN {} ELSE book
Goto(p, at) == proc' = [proc EXCEPT ![p].at = at]

(* ---------------- Starting, saving and stopping an issuer ---------------- *)

\* A fresh copy is not stale; the gateway's own saves make the command's so.
Fresh(p) == stale' = IF p = "issue" THEN FALSE ELSE stale

\* load_issuer: a torn file, key or list, is an error, and nothing starts.
LoadIssuer(p) ==
  /\ proc[p].at = "down" /\ pem \in Keys /\ book # Torn
  /\ p = "issue" => \E t \in Tokens : issued[t] = None
  /\ proc' = [proc EXCEPT ![p] = [Down EXCEPT !.at = "ready", !.key = pem,
                                              !.spent = Saved]]
  /\ Fresh(p)
  /\ UNCHANGED <<pem, book, call, issued, used, redeemed, asked, again, late,
                 lost>>

\* Both processes make a key of their own when there is no key file yet.
Mint(p) ==
  /\ proc[p].at = "down" /\ pem = None
  /\ p = "issue" => \E t \in Tokens : issued[t] = None
  /\ \E k \in Keys \ used :
       /\ proc' = [proc EXCEPT ![p] = [Down EXCEPT !.at = "minted", !.key = k]]
       /\ used' = used \cup {k}
  /\ Fresh(p)
  /\ UNCHANGED <<pem, book, call, issued, redeemed, asked, again, late, lost>>

\* save_issuer opens the key file, which empties it. A gateway at Ctrl-C and
\* the command that has signed save for the last time; the command does so
\* only if the file exists.
BeginSave(p) ==
  /\ \/ proc[p].at = "minted"
     \/ proc[p].at = "ready" /\ (p = "issue" => pem # None)
  /\ pem' = Torn
  /\ proc' = [proc EXCEPT ![p].at = "pem", ![p].last = proc[p].at = "ready"]
  /\ UNCHANGED <<book, call, issued, used, ghosts>>

\* The key is written, and the list opened.
WritePem(p) ==
  /\ proc[p].at = "pem"
  /\ pem' = proc[p].key /\ book' = Torn
  /\ Goto(p, "book")
  /\ UNCHANGED <<call, issued, used, ghosts>>

AfterSave(p) == IF proc[p].last THEN "saved" ELSE "ready"

\* The list is written: what the process knows, over what anybody wrote since.
WriteBook(p) ==
  /\ proc[p].at = "book"
  /\ book' = proc[p].spent
  /\ Goto(p, AfterSave(p))
  /\ IF p = "gateway"
     THEN stale' = (cli.at # "down") /\ lost' = lost
     ELSE /\ lost' = lost \cup (IF stale THEN redeemed \ cli.spent ELSE {})
          /\ stale' = stale
  /\ UNCHANGED <<pem, call, issued, used, redeemed, asked, again, late>>

\* "token issue" ignores a failure of its saves.
SaveFails ==
  /\ cli.at \in {"minted", "pem", "book"}
  /\ Goto("issue", AfterSave("issue"))
  /\ UNCHANGED <<pem, book, call, issued, used, ghosts>>

\* Its first save failed before there was a file: it does not try again.
SkipSave ==
  /\ cli.at = "ready" /\ pem = None
  /\ Goto("issue", "saved")
  /\ UNCHANGED <<pem, book, call, issued, used, ghosts>>

\* The command prints the token it signed, and ends.
PrintToken ==
  /\ cli.at = "saved"
  /\ \E t \in Tokens :
       issued[t] = None /\ issued' = [issued EXCEPT ![t] = cli.key]
  /\ proc' = [proc EXCEPT !["issue"] = Down]
  /\ UNCHANGED <<pem, book, call, used, ghosts>>

CutCalls == call' = [c \in Callers |-> Free]

\* The gateway's main thread ends, and its request threads with it.
ExitGateway ==
  /\ gw.at = "saved"
  /\ proc' = [proc EXCEPT !["gateway"] = Down]
  /\ CutCalls
  /\ lost' = lost \cup late /\ late' = {}
  /\ UNCHANGED <<pem, book, issued, used, redeemed, asked, again, stale>>

\* Killed, at any point. The list in memory is gone.
KillGateway ==
  /\ gw.at # "down"
  /\ proc' = [proc EXCEPT !["gateway"] = Down]
  /\ CutCalls
  /\ lost' = lost \cup (gw.spent \ Saved) /\ late' = {}
  /\ UNCHANGED <<pem, book, issued, used, redeemed, asked, again, stale>>

KillIssue ==
  /\ cli.at # "down"
  /\ proc' = [proc EXCEPT !["issue"] = Down]
  /\ UNCHANGED <<pem, book, call, issued, used, ghosts>>

(* ----------------------------- One request ------------------------------- *)

Arrive(c) ==
  /\ gw.at = "ready" /\ call[c].at = "none"
  /\ \E w \in Spellings :
       /\ issued[Decoded[w]] # None
       /\ call' = [call EXCEPT ![c] = [at |-> "arrived", token |-> w]]
  /\ UNCHANGED <<pem, book, proc, issued, used, ghosts>>

Verifies(w) == issued[Decoded[w]] = gw.key
End(c) == call' = [call EXCEPT ![c] = Free]

\* 403: signed under another key, or spent already as it is spelt here.
RefuseTokenIfSpent(c) ==
  /\ call[c].at = "arrived" /\ call[c].token \in gw.spent
  /\ End(c)
  /\ UNCHANGED <<pem, book, proc, issued, used, ghosts>>

RefuseToken(c) ==
  /\ call[c].at = "arrived"
  /\ \/ ~Verifies(call[c].token)
     \/ call[c].token \in gw.spent
  /\ End(c)
  /\ UNCHANGED <<pem, book, proc, issued, used, ghosts>>

\* Redeeming, had it left the entry in the list to the provider's answer.
RedeemUnlisted(c) ==
  /\ call[c].at = "arrived"
  /\ Verifies(call[c].token) /\ call[c].token \notin gw.spent
  /\ call' = [call EXCEPT ![c].at = "redeemed"]
  /\ UNCHANGED <<pem, book, proc, issued, used, ghosts>>

\* Issuer.redeem, under the gateway's lock: one step.
Redeem(c) ==
  /\ call[c].at = "arrived"
  /\ Verifies(call[c].token) /\ call[c].token \notin gw.spent
  /\ proc' = [proc EXCEPT !["gateway"].spent = @ \cup {call[c].token}]
  /\ call' = [call EXCEPT ![c].at = "redeemed"]
  /\ redeemed' = redeemed \cup {call[c].token}
  /\ late' = IF gw.at = "saved" THEN late \cup {call[c].token} ELSE late
  /\ UNCHANGED <<pem, book, issued, used, asked, again, stale, lost>>

\* 403 for a prompt without text, which any request may have and which nothing
\* asks before; the token is spent all the same.
RefuseEmpty(c) ==
  /\ call[c].at = "redeemed"
  /\ End(c)
  /\ UNCHANGED <<pem, book, proc, issued, used, ghosts>>

\* Nothing is kept of the token once the provider is asked.
Ask(c) ==
  /\ call[c].at = "redeemed"
  /\ call' = [call EXCEPT ![c] = Asking]
  /\ asked' = asked \cup {call[c].token}
  /\ again' = again \cup ({call[c].token} \cap (asked \ lost))
  /\ UNCHANGED <<pem, book, proc, issued, used, redeemed, late, stale, lost>>

\* The provider answers, fails or times out. The token stays spent.
Answer(c) ==
  /\ call[c].at = "asked"
  /\ End(c)
  /\ UNCHANGED <<pem, book, proc, issued, used, ghosts>>

Serve(c) == RefuseToken(c) \/ Redeem(c) \/ RefuseEmpty(c) \/ Ask(c) \/ Answer(c)

Next ==
  \/ \E p \in Processes : LoadIssuer(p) \/ Mint(p) \/ BeginSave(p)
                          \/ WritePem(p) \/ WriteBook(p)
  \/ SaveFails \/ SkipSave \/ PrintToken
  \/ ExitGateway \/ KillGateway \/ KillIssue
  \/ \E c \in Callers : Arrive(c) \/ Serve(c)

\* A request thread runs, and the call to the provider has a timeout.
Spec == Init /\ [][Next]_vars /\ \A c \in Callers : WF_vars(Serve(c))

(* ------------------------------ Properties ------------------------------- *)

TypeOK ==
  /\ pem \in Keys \cup {None, Torn}
  /\ book \in {None, Torn} \cup SUBSET Spellings
  /\ proc \in [Processes -> {Down} \cup Issuers]
  /\ call \in [Callers -> {Free, Asking} \cup Requests]
  /\ issued \in [Tokens -> Keys \cup {None}]
  /\ used \subseteq Keys
  /\ redeemed \subseteq Spellings /\ asked \subseteq Spellings
  /\ again \subseteq Spellings /\ late \subseteq Spellings
  /\ lost \subseteq Spellings /\ stale \in BOOLEAN

\* A token redeemed once is in the list of the running gateway, and in the
\* file when none runs (Issuer.spent, save_issuer), except for three mishaps:
\* the gateway was killed before it saved, the token was redeemed while the
\* gateway was going down and had saved already, or "token issue" wrote back
\* a list it had loaded before the gateway saved its own.
SpentIsRemembered ==
  IF gw.at = "down"
  THEN book = Torn \/ redeemed \ lost \subseteq Saved
  ELSE redeemed \ lost \subseteq gw.spent

\* One spelling of a token buys at most one call to the provider
\* (redeem_header, complete), whatever the number of threads that present it,
\* of restarts and of tokens issued meanwhile, unless one of the three mishaps
\* forgot it. It is no more than that: each further spelling of the token's
\* bytes, in upper case or with a space in it, buys a call of its own.
OneCallPerSpelling == again = {}

\* Every request the gateway takes ends, with a reply or a refusal or because
\* the gateway went away (do_POST): none waits on a token for ever.
EveryCallEnds == \A c \in Callers : call[c].at # "none" ~> call[c].at = "none"
==============================================================================
