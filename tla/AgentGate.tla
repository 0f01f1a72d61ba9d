------------------------------- MODULE AgentGate -------------------------------
(* What the app (app.py) lets an agent have: the switch and its token, the    *)
(* policy and the tier, reading a record, listing and writing, the catalogue  *)
(* of classes, the ledger of reads. Every request runs on a thread of its     *)
(* own, and AGENT, POLICY, AGENT_READS and the two files have no lock.        *)
(*                                                                            *)
(* A record is the class sealed in its label. Requests with the page's token  *)
(* are the user's. Whether the master key is unlocked is in AppKeys: here a   *)
(* request may fail at any step.                                              *)
EXTENDS Naturals, Sequences, FiniteSets, Functions, FiniteSetsExt

CONSTANTS
  Threads,         \* bound: requests at once
  Classes, Secret,
  TopTier,         \* Tier.LOCAL
  DefaultPolicy,
  ReadsLimit,      \* 200 in the code
  CatalogueLimit,  \* 2000 in the code
  Edits,           \* bound: the changes the user makes, [policy, tier]
  MaxRecords, MaxTokens, MaxReads   \* bounds

Tiers == 0..TopTier
Policies == {p \in [Classes -> Tiers] : p[Secret] = TopTier}

ASSUME GateAssumption ==
  /\ TopTier \in Nat /\ Secret \in Classes
  /\ DefaultPolicy \in Policies
  /\ Edits \subseteq [policy : Policies, tier : Tiers]
ASSUME LimitAssumption ==
  /\ ReadsLimit \in Nat \ {0} /\ CatalogueLimit \in Nat \ {0}
  /\ MaxRecords \in Nat /\ MaxTokens \in Nat /\ MaxReads \in Nat

VARIABLES
  on, token, tier,   \* AGENT
  policy,            \* POLICY: empty until load_policy first filled it
  reads,             \* AGENT_READS
  policyFile, catalogue,   \* policy.json and catalogue.json
  keep,              \* the records on the node
  pc, job,           \* thread -> where its request is, and what it holds
  minted,            \* tokens are numbered as they are minted
  revoked,           \* ghost: tokens older than a switch that was answered
  low, high,         \* ghost: thread -> least required, most granted meanwhile
  entered,           \* ghost: reads entered in the ledger since the start
  given              \* ghost: what the rows of the texts handed over must say

memory == <<on, token, tier, policy, reads>>
disk == <<policyFile, catalogue, keep>>
record == <<entered, given>>
ghosts == <<revoked, low, high, record>>
gateVars == <<memory, disk, pc, job, minted, ghosts>>

NoAgentToken == 0
Unset == <<>>
Absent == <<>>                    \* not there, or not JSON; such a catalogue is empty
Entries == [index : Nat, class : Classes]
\* A row of the ledger; its number, the order of entry, stands for its time.
Rows == [no : Nat, index : Nat, class : Classes]

NoJob == [op |-> "none", token |-> NoAgentToken, read |-> NoAgentToken, old |-> NoAgentToken,
          index |-> 0, no |-> 0, class |-> Secret, policy |-> DefaultPolicy, edit |-> {},
          entries |-> <<>>, shown |-> {}, early |-> FALSE, dead |-> {}]

GateInit ==
  /\ on = FALSE /\ token = NoAgentToken /\ tier = 0 /\ policy = Unset /\ reads = <<>>
  /\ policyFile = Absent /\ catalogue = <<>> /\ keep = <<>>
  /\ pc = [t \in Threads |-> "idle"] /\ job = [t \in Threads |-> NoJob]
  /\ minted = 0 /\ revoked = {} /\ entered = 0 /\ given = {}
  /\ low = [t \in Threads |-> DefaultPolicy] /\ high = [t \in Threads |-> 0]

Go(t, phase) == pc' = [pc EXCEPT ![t] = phase]
End(t) == Go(t, "idle") /\ job' = [job EXCEPT ![t] = NoJob]

(* ----------------------------- Who may call ------------------------------- *)

\* _auth: the token in force is read, and then the switch.
Ask(t, op, k, i, c) ==
  /\ pc[t] = "idle" /\ Go(t, "auth")
  /\ job' = [job EXCEPT ![t].op = op, ![t].token = k, ![t].read = token,
                        ![t].index = i, ![t].class = c, ![t].dead = revoked]
  /\ UNCHANGED <<memory, disk, minted, revoked, record>>

\* An agent presents some token it was given once.
AskRead(t, k, i) == k \in 1..minted /\ i \in 1..Len(keep) /\ Ask(t, "read", k, i, keep[i])
AskList(t, k) == k \in 1..minted /\ Ask(t, "list", k, Len(keep), Secret)
AskWrite(t, k, c) == k \in 1..minted /\ Ask(t, "write", k, 0, c)

Admit(t) ==
  /\ pc[t] = "auth" /\ on /\ job[t].read = job[t].token
  /\ Go(t, IF job[t].op = "write" THEN "put" ELSE "policy")
  /\ UNCHANGED <<memory, disk, job, minted, revoked, record>>

Forbid(t) ==
  /\ pc[t] = "auth" /\ ~(on /\ job[t].read = job[t].token) /\ End(t)
  /\ UNCHANGED <<memory, disk, minted, revoked, record>>

(* ------------------------------ load_policy ------------------------------- *)

\* policy.json over the defaults; the secret class is pinned.
Loaded == IF policyFile = Absent THEN DefaultPolicy
          ELSE [policyFile EXCEPT ![Secret] = TopTier]

AfterPolicy(t) == CASE job[t].op = "read" -> "judge" [] job[t].op = "list" -> "catalogue"
                    [] OTHER -> "edit"

\* The defaults are there for every thread before the file has been read.
FillDefaults(t) ==
  /\ pc[t] = "policy" /\ policy = Unset
  /\ policy' = DefaultPolicy /\ Go(t, "fill")
  /\ UNCHANGED <<on, token, tier, reads, disk, job, minted, revoked, record>>

FillFromFile(t) ==
  /\ pc[t] = "fill"
  /\ policy' = IF policyFile = Absent THEN policy ELSE Loaded
  /\ job' = [job EXCEPT ![t].policy = policy']
  /\ Go(t, AfterPolicy(t))
  /\ UNCHANGED <<on, token, tier, reads, disk, minted, revoked, record>>

CopyPolicy(t) ==
  /\ pc[t] = "policy" /\ policy # Unset
  /\ job' = [job EXCEPT ![t].policy = policy,
                        ![t].early = \E u \in Threads : pc[u] = "fill"]
  /\ Go(t, AfterPolicy(t))
  /\ UNCHANGED <<memory, disk, minted, revoked, record>>

(* --------------------------------- Reading -------------------------------- *)

\* The class is the one that was sealed with the text.
Required(t) == job[t].policy[job[t].class]

Judge(t) ==
  /\ pc[t] = "judge" /\ tier >= Required(t) /\ Go(t, "record")
  /\ UNCHANGED <<memory, disk, job, minted, revoked, record>>

Withhold(t) ==
  /\ pc[t] = "judge" /\ tier < Required(t) /\ End(t)
  /\ UNCHANGED <<memory, disk, minted, revoked, record>>

LastOf(s, n) == SubSeq(s, Len(s) - Min({n, Len(s)}) + 1, Len(s))

Row(t) == [no |-> entered + 1, index |-> job[t].index, class |-> job[t].class]
Record(t) ==
  /\ pc[t] = "record" /\ entered < MaxReads /\ entered' = entered + 1
  /\ reads' = Append(reads, Row(t))
  /\ job' = [job EXCEPT ![t].no = entered'] /\ Go(t, "cut")
  /\ UNCHANGED <<on, token, tier, policy, disk, minted, revoked, given>>

\* Mutant: the oldest rows stay.
CutNewest(t) ==
  /\ pc[t] = "cut" /\ reads' = SubSeq(reads, 1, Min({ReadsLimit, Len(reads)}))
  /\ Go(t, "send")
  /\ UNCHANGED <<on, token, tier, policy, disk, job, minted, revoked, record>>

\* Another thread may have entered rows since: the cut is of the list as it is.
Cut(t) ==
  /\ pc[t] = "cut" /\ reads' = LastOf(reads, ReadsLimit)
  /\ Go(t, "send")
  /\ UNCHANGED <<on, token, tier, policy, disk, job, minted, revoked, record>>

\* The row that the text of a request must have.
Handed(t) == [no |-> job[t].no, index |-> job[t].index, class |-> job[t].class]
Send(t) ==
  /\ pc[t] = "send" /\ Go(t, "sent") /\ given' = given \cup {Handed(t)}
  /\ UNCHANGED <<memory, disk, job, minted, revoked, entered>>

(* --------------------------------- Listing -------------------------------- *)

\* Mutant: a record the catalogue does not know is of no particular class.
ListedOpen(entries, i) ==
  LET known == {k \in 1..Len(entries) : entries[k].index = i}
  IN IF known = {} THEN CHOOSE c \in Classes : c # Secret ELSE entries[Max(known)].class

\* What the catalogue says of a record, the last entry for its index; a record
\* it does not know is secret.
Listed(entries, i) ==
  LET known == {k \in 1..Len(entries) : entries[k].index = i}
  IN IF known = {} THEN Secret ELSE entries[Max(known)].class

ReadCatalogue(t) ==
  /\ pc[t] = "catalogue" /\ Go(t, "filter") /\ job' = [job EXCEPT ![t].entries = catalogue]
  /\ UNCHANGED <<memory, disk, minted, revoked, record>>

\* Of the records that were on the node when the request listed them, those
\* whose class is cleared.
SendList(t) ==
  /\ pc[t] = "filter" /\ Go(t, "listed")
  /\ job' = [job EXCEPT ![t].shown =
       {i \in 1..job[t].index : tier >= job[t].policy[Listed(job[t].entries, i)]}]
  /\ UNCHANGED <<memory, disk, minted, revoked, record>>

(* --------------------------------- Writing -------------------------------- *)

\* The page writes with its own token; the class is what the request says.
PageWrite(t, c) ==
  /\ pc[t] = "idle" /\ Go(t, "put") /\ job' = [job EXCEPT ![t].op = "write", ![t].class = c]
  /\ UNCHANGED <<memory, disk, minted, revoked, record>>

Put(t) ==
  /\ pc[t] = "put" /\ Len(keep) < MaxRecords
  /\ keep' = Append(keep, job[t].class)
  /\ job' = [job EXCEPT ![t].index = Len(keep) + 1] /\ Go(t, "load")
  /\ UNCHANGED <<memory, policyFile, catalogue, minted, revoked, record>>

\* add_to_catalogue: what it read goes back with one entry more.
LoadCatalogue(t) ==
  /\ pc[t] = "load" /\ Go(t, "save") /\ job' = [job EXCEPT ![t].entries = catalogue]
  /\ UNCHANGED <<memory, disk, minted, revoked, record>>

NewEntry(t) == [index |-> job[t].index, class |-> job[t].class]

\* The temporary file has one name: while another thread writes it, what is
\* moved into place may be unfinished.
Written(t, value, unfinished, phase) ==
  {value} \cup (IF \E u \in Threads \ {t} : pc[u] = phase THEN {unfinished} ELSE {})

SaveCatalogue(t) ==
  /\ pc[t] = "save"
  /\ catalogue' \in
       Written(t, LastOf(Append(job[t].entries, NewEntry(t)), CatalogueLimit), <<>>, "save")
  /\ End(t)
  /\ UNCHANGED <<memory, policyFile, keep, minted, revoked, record>>

(* --------------------------- Switch, policy, tier ------------------------- *)

\* The switch is set; the token in force is still the one from before.
Switch(t, enabled) ==
  /\ pc[t] = "idle" /\ Go(t, "mint") /\ on' = enabled
  /\ job' = [job EXCEPT ![t].op = "switch", ![t].old = token]
  /\ UNCHANGED <<token, tier, policy, reads, disk, minted, revoked, record>>

\* Mutant: a token that is there is kept.
MintOnce(t) ==
  /\ pc[t] = "mint" /\ Go(t, "store")
  /\ IF on /\ token = NoAgentToken
       THEN /\ minted < MaxTokens /\ minted' = minted + 1
            /\ job' = [job EXCEPT ![t].token = minted']
       ELSE job' = [job EXCEPT ![t].token = token] /\ UNCHANGED minted
  /\ UNCHANGED <<memory, disk, revoked, record>>

\* Whether to mint one depends on the switch as it is now, which another
\* request may have set.
Mint(t) ==
  /\ pc[t] = "mint" /\ Go(t, "store")
  /\ IF on
       THEN /\ minted < MaxTokens /\ minted' = minted + 1
            /\ job' = [job EXCEPT ![t].token = minted']
       ELSE UNCHANGED <<minted, job>>
  /\ UNCHANGED <<memory, disk, revoked, record>>

StoreToken(t) ==
  /\ pc[t] = "store" /\ End(t)
  /\ token' = job[t].token
  /\ revoked' = revoked \cup ({job[t].old} \ {NoAgentToken})
  /\ UNCHANGED <<on, tier, policy, reads, disk, minted, record>>

\* A change of the policy, the tier, or both.
Change(t, e) ==
  /\ pc[t] = "idle" /\ Go(t, "policy") /\ job' = [job EXCEPT ![t].op = "change", ![t].edit = {e}]
  /\ UNCHANGED <<memory, disk, minted, revoked, record>>

EditPolicy(t) ==
  /\ pc[t] = "edit" /\ Go(t, "grant")
  /\ \E e \in job[t].edit : policy' = [e.policy EXCEPT ![Secret] = policy[Secret]]
  /\ UNCHANGED <<on, token, tier, reads, disk, job, minted, revoked, record>>

GrantTier(t) ==
  /\ pc[t] = "grant" /\ Go(t, "keep")
  /\ \E e \in job[t].edit : tier' = e.tier
  /\ UNCHANGED <<on, token, policy, reads, disk, job, minted, revoked, record>>

SavePolicy(t) ==
  /\ pc[t] = "keep" /\ End(t)
  /\ policyFile' \in Written(t, policy, Absent, "keep")
  /\ UNCHANGED <<memory, catalogue, keep, minted, revoked, record>>

(* --------------------------------- Ends ----------------------------------- *)

\* The answer is read, or any step raised: the key is locked, the node is
\* down, a file cannot be written. What was done stays done.
Finish(t) ==
  /\ pc[t] \notin {"idle", "mint", "store"} /\ End(t)
  /\ UNCHANGED <<memory, disk, minted, revoked, record>>

\* The app ends or is killed, and starts again: agents off, and a new process
\* knows no token of the old one.
Restart ==
  /\ on' = FALSE /\ token' = NoAgentToken /\ tier' = 0 /\ policy' = Unset /\ reads' = <<>>
  /\ pc' = [t \in Threads |-> "idle"] /\ job' = [t \in Threads |-> NoJob]
  /\ revoked' = IF token = NoAgentToken THEN revoked ELSE revoked \cup {token}
  /\ entered' = 0 /\ given' = {}
  /\ UNCHANGED <<disk, minted>>

\* The least that was required and the most that was granted since the agent's
\* request came in; policy.json is in force from the start.
InForce == IF policy = Unset \/ \E t \in Threads : pc[t] = "fill" THEN Loaded ELSE policy
Watch ==
  /\ low' = [t \in Threads |->
       IF job[t].op \notin {"read", "list"} THEN InForce'
       ELSE [c \in Classes |-> Min({low[t][c], InForce'[c]})]]
  /\ high' = [t \in Threads |->
       IF job[t].op \notin {"read", "list"} THEN tier' ELSE Max({high[t], tier'})]

Request(t) ==
  \/ \E k \in 1..MaxTokens :
       \/ \E i \in 1..MaxRecords : AskRead(t, k, i)
       \/ AskList(t, k)
       \/ \E c \in Classes : AskWrite(t, k, c)
  \/ Admit(t) \/ Forbid(t)
  \/ FillDefaults(t) \/ FillFromFile(t) \/ CopyPolicy(t)
  \/ Judge(t) \/ Withhold(t) \/ Record(t) \/ Cut(t) \/ Send(t)
  \/ ReadCatalogue(t) \/ SendList(t)
  \/ \E c \in Classes : PageWrite(t, c)
  \/ Put(t) \/ LoadCatalogue(t) \/ SaveCatalogue(t)
  \/ \E b \in BOOLEAN : Switch(t, b)
  \/ Mint(t) \/ StoreToken(t)
  \/ \E e \in Edits : Change(t, e)
  \/ EditPolicy(t) \/ GrantTier(t) \/ SavePolicy(t)
  \/ Finish(t)

GateNext == ((\E t \in Threads : Request(t)) \/ Restart) /\ Watch
GateSpec == GateInit /\ [][GateNext]_gateVars

-----------------------------------------------------------------------------
Phases == {"idle", "auth", "policy", "fill", "judge", "record", "cut", "send", "sent",
           "catalogue", "filter", "listed", "put", "load", "save", "mint", "store",
           "edit", "grant", "keep"}
Jobs == [op : {"none", "read", "list", "write", "switch", "change"},
         token : Nat, read : Nat, old : Nat, index : Nat, no : Nat, class : Classes,
         policy : Policies, edit : SUBSET Edits, entries : Seq(Entries),
         shown : SUBSET Nat, early : BOOLEAN, dead : SUBSET Nat]

GateTypeOK ==
  /\ on \in BOOLEAN /\ token \in Nat /\ tier \in Tiers /\ minted \in Nat
  /\ policy \in Policies \cup {Unset} /\ policyFile \in Policies \cup {Absent}
  /\ catalogue \in Seq(Entries) /\ keep \in Seq(Classes) /\ reads \in Seq(Rows)
  /\ entered \in Nat /\ given \subseteq Rows
  /\ pc \in [Threads -> Phases] /\ job \in [Threads -> Jobs]
  /\ revoked \subseteq Nat /\ low \in [Threads -> Policies] /\ high \in [Threads -> Tiers]

Cleared(t, class) == low[t][class] <= high[t]

\* A text, and a label too, goes to the agent only when its class, the one that
\* was sealed with it, was at some moment of the request required at most at a
\* tier that was granted at some moment of it, whatever became of the catalogue
\* and however the policy is changed or restored meanwhile. Not so for a request
\* that finds the defaults while the first one is still reading the file.
OnlyClearedCross ==
  \A t \in Threads : ~job[t].early =>
    /\ pc[t] \in {"send", "sent"} => Cleared(t, job[t].class)
    /\ pc[t] = "listed" =>
         \A i \in job[t].shown : Cleared(t, keep[i])

\* Once a switch has been answered, whichever way it was turned and whoever else
\* was at it, no request that comes in with a token from before it is let in.
RevokedTokenIsDead ==
  \A t \in Threads :
    job[t].op \in {"read", "list", "write"} /\ job[t].token # NoAgentToken /\ pc[t] \notin {"idle", "auth"}
      => job[t].token \notin job[t].dead

\* Every text that was handed over has a row of its own in the ledger, with its
\* record and the class sealed in it, unless newer reads fill the ledger.
ReadsAreRecorded ==
  \A r \in given :
    \/ r \in Range(reads)
    \/ Len(reads) >= ReadsLimit /\ \A n \in Range(reads) : n.no > r.no
================================================================================
