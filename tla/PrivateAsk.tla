------------------------------ MODULE PrivateAsk ------------------------------
(* The private path to a hosted model (frontier_private.py, dp.py) as the     *)
(* command frontier-chat and the app's handler run it: a question is routed,  *)
(* abstracted by a local model, gated, chosen among the candidates that are   *)
(* clear, charged to a ledger file, and sent.                                 *)
(*                                                                            *)
(* Every "frontier-chat --ledger F" is a process that loads F once and writes *)
(* it back through F.tmp. A text is its identifying facts and its specificity *)
(* (delegate.py). Epsilons are integers, Grain of them to the sixth decimal,  *)
(* to which the file rounds.                                                  *)
EXTENDS Integers, FiniteSets

CONSTANTS
  Sessions,         \* bound: processes and handler threads at once
  Facts,
  Memories,         \* what the keep holds: [facts, secret]
  Messages,
  Abstractions,     \* bound: what the local model makes of it
  Epsilons,         \* values of --dp-epsilon
  AppEpsilon,       \* the epsilon the app asks with
  EpsilonBudgets,   \* values of --epsilon-budget
  SpecificityBudget,
  MaxSpecificity,
  DpCandidates,     \* attempts of dp_delegate
  Attempts,         \* attempts of delegate
  Grain,            \* epsilons in one unit of the last place the file keeps
  InUse,            \* bound: the questions that are asked, each with its context
  MaxPaid           \* bound: texts that left under a ledger

Texts == [facts : SUBSET Facts, spec : Nat]
EmptyText == [facts |-> {}, spec |-> 0]

ASSUME TextAssumption ==
  /\ Messages \subseteq Texts /\ Abstractions \subseteq Texts
  /\ Memories \subseteq [facts : SUBSET Facts, secret : BOOLEAN]
ASSUME AmountAssumption ==
  /\ Epsilons \subseteq Nat /\ AppEpsilon \in Nat \ {0} /\ EpsilonBudgets \subseteq Nat
  /\ SpecificityBudget \in Nat /\ MaxPaid \in Nat /\ MaxSpecificity \in Nat /\ Grain \in Nat \ {0}
  /\ DpCandidates \in Nat \ {0} /\ Attempts \in Nat \ {0}

Commands ==
  [by : {"cli"}, message : Messages, eps : Epsilons, budget : EpsilonBudgets,
   ledger : BOOLEAN, context : SUBSET {m \in Memories : ~m.secret}]

\* The app asks with a fixed epsilon, without a ledger, and with its secrets.
Requests ==
  [by : {"app"}, message : Messages, eps : {AppEpsilon}, budget : {0},
   ledger : {FALSE}, context : SUBSET Memories]

Asks == Commands \cup Requests

ASSUME AskAssumption == InUse \subseteq Asks

VARIABLES
  pc,          \* session -> where it is
  ask,         \* session -> what it was started with, and the context it read
  tried,       \* session -> abstractions made
  pool,        \* session -> cleared candidates of dp_delegate
  text,        \* session -> what is to leave, or left
  mode,        \* session -> "direct" or "abstracted", "none" before the choice
  account,     \* session -> the PrivacyLedger in its memory
  handle,      \* session -> the file its open descriptor writes to
  ledgerFile,  \* the ledger on disk
  tmpFile,     \* the file written before it replaces the ledger
  base,        \* ghost: session -> the ledger on disk when it was loaded
  paid,        \* ghost: the total of what left under a ledger by dp_delegate
  raced        \* ghost: two sessions were in the ledger at once

files == <<ledgerFile, tmpFile>>
ghosts == <<base, paid, raced>>
vars == <<pc, ask, tried, pool, text, mode, account, handle, files, ghosts>>

Ledgers == [eps : Nat, spec : Nat, sends : Nat]
Fresh == [eps |-> 0, spec |-> 0, sends |-> 0]
Absent == [is |-> "absent"]
Empty == [is |-> "empty"]    \* opened for writing, nothing flushed
Torn == [is |-> "torn"]      \* not JSON
Holding(l) == [is |-> "ledger", ledger |-> l]
Contents == {Absent, Empty, Torn} \cup [is : {"ledger"}, ledger : Ledgers]

Phases == {"off", "load", "route", "abstract", "charge", "write", "replace", "send", "sent"}

NoAsk == [by |-> "nobody", message |-> EmptyText, eps |-> 0, budget |-> 0,
          ledger |-> FALSE, context |-> {}]
FactsOf(S) == UNION {m.facts : m \in S}
Private(s) == ask[s].message.facts \cup FactsOf(ask[s].context)
ByDp(s) == ask[s].eps > 0
Tries(s) == IF ByDp(s) THEN DpCandidates ELSE Attempts

\* Mutant: cut off instead of rounded.
Truncated(e) == (e \div Grain) * Grain

\* round(epsilon, 6), with what lies between two values going to the nearer.
Rounded(e) == ((2 * e + Grain) \div (2 * Grain)) * Grain

\* as_dict, save and load: what of a ledger comes back from its file.
Saved(l) == Holding([l EXCEPT !.eps = Rounded(@)])
Booked == IF ledgerFile.is = "ledger" THEN ledgerFile.ledger ELSE Fresh

Init ==
  /\ pc = [s \in Sessions |-> "off"] /\ ask = [s \in Sessions |-> NoAsk]
  /\ tried = [s \in Sessions |-> 0] /\ pool = [s \in Sessions |-> {}]
  /\ text = [s \in Sessions |-> EmptyText] /\ mode = [s \in Sessions |-> "none"]
  /\ account = [s \in Sessions |-> Fresh] /\ handle = [s \in Sessions |-> "none"]
  /\ ledgerFile = Absent /\ tmpFile = Absent
  /\ base = [s \in Sessions |-> Absent]
  /\ paid = Fresh /\ raced = FALSE

Go(s, phase) == pc' = [pc EXCEPT ![s] = phase]

(* ------------------------- Asking and routing ----------------------------- *)

Begin(s, a, phase) ==
  /\ pc[s] = "off"
  /\ ask' = [ask EXCEPT ![s] = a]
  /\ Go(s, phase)
  /\ UNCHANGED <<tried, pool, text, mode, account, handle, files, ghosts>>

\* Both acknowledgements given, a question that is not empty, a remote built
\* for the gateway and its token or for the provider and its key. The context
\* is what could be read of the recent memories that are not secret: failures,
\* also of the whole list, are passed over.
StartCommand(s, a) ==
  /\ a \in Commands /\ (a.ledger => paid.sends < MaxPaid)
  /\ Begin(s, a, IF a.ledger THEN "load" ELSE "route")

\* The same in the app; a list that fails fails the request.
StartRequest(s, a) == a \in Requests /\ Begin(s, a, "route")

\* The end of a process or request, however it ends; what its descriptor did
\* not flush is not in the file.
End(s) ==
  /\ Go(s, "off")
  /\ ask' = [ask EXCEPT ![s] = NoAsk] /\ tried' = [tried EXCEPT ![s] = 0]
  /\ pool' = [pool EXCEPT ![s] = {}] /\ text' = [text EXCEPT ![s] = EmptyText]
  /\ mode' = [mode EXCEPT ![s] = "none"] /\ account' = [account EXCEPT ![s] = Fresh]
  /\ handle' = [handle EXCEPT ![s] = "none"]
  /\ base' = [base EXCEPT ![s] = Absent]
  /\ UNCHANGED <<files, paid, raced>>

\* PrivacyLedger.load: spends come from the file, budgets from the caller.
Load(s) ==
  /\ pc[s] = "load" /\ ledgerFile.is \in {"absent", "ledger"}
  /\ account' = [account EXCEPT ![s] = Booked]
  /\ base' = [base EXCEPT ![s] = ledgerFile]
  /\ Go(s, "route")
  /\ UNCHANGED <<ask, tried, pool, text, mode, handle, files, paid, raced>>

\* A file that is not JSON is not taken for a new ledger: the command fails.
LoadFails(s) == pc[s] = "load" /\ ledgerFile.is \notin {"absent", "ledger"} /\ End(s)

\* route(): the question shares nothing with the context, is not too specific,
\* and the local model says GENERAL. It leaves as typed.
RouteDirect(s) ==
  /\ pc[s] = "route"
  /\ ask[s].message.facts \cap FactsOf(ask[s].context) = {}
  /\ ask[s].message.spec <= MaxSpecificity
  /\ text' = [text EXCEPT ![s] = ask[s].message]
  /\ mode' = [mode EXCEPT ![s] = "direct"]
  /\ Go(s, "send")
  /\ UNCHANGED <<ask, tried, pool, account, handle, files, ghosts>>

\* Any other verdict, and a local model that fails, takes the slow path.
RouteAbstract(s) ==
  /\ pc[s] = "route" /\ Go(s, "abstract")
  /\ UNCHANGED <<ask, tried, pool, text, mode, account, handle, files, ghosts>>

(* ------------------------- Abstracting and choosing ----------------------- *)

Clear(s, t) == t.facts \cap Private(s) = {}

\* One attempt that leaks: only the count changes, and what the model is told.
AttemptLeaks(s, t) ==
  /\ pc[s] = "abstract" /\ tried[s] < Tries(s) /\ ~Clear(s, t)
  /\ tried' = [tried EXCEPT ![s] = @ + 1]
  /\ UNCHANGED <<pc, ask, pool, text, mode, account, handle, files, ghosts>>

\* Mutant: a candidate is gated against the message only.
AttemptClearsMessage(s, t) ==
  /\ pc[s] = "abstract" /\ tried[s] < Tries(s)
  /\ t.facts \cap ask[s].message.facts = {}
  /\ tried' = [tried EXCEPT ![s] = @ + 1]
  /\ IF ByDp(s)
       THEN /\ pool' = [pool EXCEPT ![s] = @ \cup ({t} \ {EmptyText})]
            /\ UNCHANGED <<pc, text, mode>>
       ELSE /\ text' = [text EXCEPT ![s] = t] /\ mode' = [mode EXCEPT ![s] = "abstracted"]
            /\ Go(s, "send") /\ UNCHANGED pool
  /\ UNCHANGED <<ask, account, handle, files, ghosts>>

\* One that is clear joins the pool of dp_delegate unless it is empty;
\* delegate() sends it at once, empty or not.
AttemptClears(s, t) ==
  /\ pc[s] = "abstract" /\ tried[s] < Tries(s) /\ Clear(s, t)
  /\ tried' = [tried EXCEPT ![s] = @ + 1]
  /\ IF ByDp(s)
       THEN /\ pool' = [pool EXCEPT ![s] = @ \cup ({t} \ {EmptyText})]
            /\ UNCHANGED <<pc, text, mode>>
       ELSE /\ text' = [text EXCEPT ![s] = t] /\ mode' = [mode EXCEPT ![s] = "abstracted"]
            /\ Go(s, "send") /\ UNCHANGED pool
  /\ UNCHANGED <<ask, account, handle, files, ghosts>>

\* The local model cannot be reached, or nothing cleared the gate: refused.
Refuse(s) ==
  /\ pc[s] = "abstract"
  /\ tried[s] < Tries(s) \/ pool[s] = {}
  /\ End(s)

\* Mutant: the chosen candidate is sent, and charged with the next one.
ChooseUncharged(s, t) ==
  /\ pc[s] = "abstract" /\ tried[s] = Tries(s) /\ t \in pool[s]
  /\ text' = [text EXCEPT ![s] = t] /\ mode' = [mode EXCEPT ![s] = "abstracted"]
  /\ pool' = [pool EXCEPT ![s] = {}] /\ tried' = [tried EXCEPT ![s] = 0]
  /\ Go(s, "send")
  /\ UNCHANGED <<ask, account, handle, files, ghosts>>

\* The exponential mechanism gives every candidate of the pool some weight.
\* Neither the pool nor the count is read again.
Choose(s, t) ==
  /\ pc[s] = "abstract" /\ tried[s] = Tries(s) /\ t \in pool[s]
  /\ text' = [text EXCEPT ![s] = t] /\ mode' = [mode EXCEPT ![s] = "abstracted"]
  /\ pool' = [pool EXCEPT ![s] = {}] /\ tried' = [tried EXCEPT ![s] = 0]
  /\ Go(s, IF ask[s].ledger THEN "charge" ELSE "send")
  /\ UNCHANGED <<ask, account, handle, files, ghosts>>

(* ------------------------------- The ledger ------------------------------- *)

Spent(s) ==
  [eps |-> account[s].eps + ask[s].eps, spec |-> account[s].spec + text[s].spec,
   sends |-> account[s].sends + 1]

InBudget(s) == Spent(s).eps <= ask[s].budget /\ Spent(s).spec <= SpecificityBudget

\* charge() up to the opening of the temporary file, which empties it.
Charge(s) ==
  /\ pc[s] = "charge" /\ InBudget(s)
  /\ account' = [account EXCEPT ![s] = Spent(s)]
  /\ tmpFile' = Empty /\ handle' = [handle EXCEPT ![s] = "tmp"]
  /\ raced' = (raced \/ \E t \in Sessions \ {s} : pc[t] \in {"write", "replace"})
  /\ Go(s, "write")
  /\ UNCHANGED <<ask, tried, pool, text, mode, ledgerFile, base, paid>>

OverBudget(s) == pc[s] = "charge" /\ ~InBudget(s) /\ End(s)

\* What a file holds once a descriptor at its start has written a ledger: over
\* what another descriptor wrote, a shorter text leaves the end of the longer.
Flushed(file, l) == IF file = Empty THEN {Saved(l)} ELSE {Saved(l), Torn}

\* The file is closed, and only then its text is in it: in the file that was
\* opened, which another session may have moved over the ledger meanwhile.
Write(s) ==
  /\ pc[s] = "write"
  /\ \/ /\ handle[s] = "tmp" /\ tmpFile' \in Flushed(tmpFile, account[s])
        /\ UNCHANGED ledgerFile
     \/ /\ handle[s] = "ledger" /\ ledgerFile' \in Flushed(ledgerFile, account[s])
        /\ UNCHANGED tmpFile
     \/ handle[s] \notin {"tmp", "ledger"} /\ UNCHANGED files
  /\ handle' = [handle EXCEPT ![s] = "none"]
  /\ Go(s, "replace")
  /\ UNCHANGED <<ask, tried, pool, text, mode, account, ghosts>>

\* A descriptor follows its file.
Moved(h) == CASE h = "tmp" -> "ledger" [] h = "ledger" -> "gone" [] OTHER -> h

\* os.replace. charge() returns and the request may be sent.
Replace(s) ==
  /\ pc[s] = "replace" /\ tmpFile # Absent
  /\ ledgerFile' = tmpFile /\ tmpFile' = Absent
  /\ handle' = [t \in Sessions |-> Moved(handle[t])]
  /\ base' = [base EXCEPT ![s] = Absent]
  /\ raced' = (raced \/ ledgerFile # base[s])
  /\ Go(s, "send")
  /\ UNCHANGED <<ask, tried, pool, text, mode, account, paid>>

\* Another session moved the file first.
ReplaceFails(s) == pc[s] = "replace" /\ tmpFile = Absent /\ End(s)

(* --------------------------------- Sending -------------------------------- *)

\* remote(text): what is asked is out of reach from here on.
Send(s) ==
  /\ pc[s] = "send" /\ Go(s, "sent")
  /\ paid' = IF ask[s].ledger /\ ByDp(s) /\ mode[s] = "abstracted"
               THEN [eps |-> paid.eps + ask[s].eps, spec |-> paid.spec + text[s].spec,
                     sends |-> paid.sends + 1]
               ELSE paid
  /\ UNCHANGED <<ask, tried, pool, text, mode, account, handle, files, base, raced>>

\* The reply is applied locally and printed; or the provider fails, or the
\* local model does. Nothing of the charge is given back.
Finish(s) == pc[s] = "sent" /\ End(s)

\* Killed, or a write that failed.
Die(s) == pc[s] # "off" /\ End(s)

Step(s) ==
  \/ \E a \in InUse : StartCommand(s, a) \/ StartRequest(s, a)
  \/ Load(s) \/ LoadFails(s)
  \/ RouteDirect(s) \/ RouteAbstract(s)
  \/ \E t \in Abstractions : AttemptLeaks(s, t) \/ AttemptClears(s, t) \/ Choose(s, t)
  \/ Refuse(s)
  \/ Charge(s) \/ OverBudget(s) \/ Write(s) \/ Replace(s) \/ ReplaceFails(s)
  \/ Send(s) \/ Finish(s) \/ Die(s)

Next == \E s \in Sessions : Step(s)
Spec == Init /\ [][Next]_vars

-----------------------------------------------------------------------------
TypeOK ==
  /\ pc \in [Sessions -> Phases] /\ ask \in [Sessions -> Asks \cup {NoAsk}]
  /\ tried \in [Sessions -> Nat] /\ pool \in [Sessions -> SUBSET Abstractions]
  /\ text \in [Sessions -> Texts]
  /\ mode \in [Sessions -> {"none", "direct", "abstracted"}]
  /\ account \in [Sessions -> Ledgers]
  /\ handle \in [Sessions -> {"none", "tmp", "ledger", "gone"}]
  /\ ledgerFile \in Contents /\ tmpFile \in Contents
  /\ base \in [Sessions -> Contents]
  /\ paid \in Ledgers /\ raced \in BOOLEAN

Left(s) == pc[s] = "sent"

\* What leaves shares nothing with the memories that were read for it, however
\* it leaves, and nothing with the question either once that was abstracted:
\* the gate that let a text pass is still right about it when it is sent.
NothingKnownLeaves ==
  \A s \in Sessions : Left(s) =>
    /\ text[s].facts \cap FactsOf(ask[s].context) = {}
    /\ mode[s] = "abstracted" => Clear(s, text[s])
    /\ mode[s] = "direct" => text[s].spec <= MaxSpecificity

\* The ledger refines the account it promises to be: the file is debited before
\* a text leaves, and not above the budget, whichever processes are killed
\* between two steps. Two that are in the ledger at once break it.
Account == INSTANCE PrepaidAccount WITH
  Limit <- SpecificityBudget, booked <- Booked.spec, bought <- paid.spec
ImplementsAccount == Account!Init /\ [][~raced' => [Account!Next]_<<Booked.spec, paid.spec>>]_vars

\* Unless two were in it at once, the ledger can be read; what left cost no more
\* than it says, but for what rounding took off each time it was saved; and it
\* is below the largest budget, but for what rounding added the last time. No
\* kill between two steps of a save changes that.
LedgerCovers ==
  ~raced =>
    /\ ledgerFile.is \in {"absent", "ledger"}
    /\ paid.sends <= Booked.sends
    /\ 2 * paid.eps <= 2 * Booked.eps + Grain * Booked.sends
    /\ Booked.sends > 0 =>
         \E b \in EpsilonBudgets : 2 * Booked.eps <= 2 * b + Grain
================================================================================
