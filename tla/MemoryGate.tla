------------------------------ MODULE MemoryGate ------------------------------
(* The memory gate (memory_gate.py) with the delegating path (delegate.py):   *)
(* classified memories in the keep, an index file of those the gate knows,    *)
(* and exchanges with models that prove a trust tier first. Every process     *)
(* that opens the gate (each "oblivio gate-chat" is one) loads the index once *)
(* and writes it back whole.                                                  *)
(*                                                                            *)
(* A text is the set of identifying facts in it: LeakGate's identifying terms *)
(* and shared phrases. The keep is append-only and a record's class travels   *)
(* inside its ciphertext (both: MemoryStore, OblivioClient).                  *)
EXTENDS Integers, FiniteSets, Sequences

CONSTANTS
  Gates,       \* bound: processes that hold a MemoryGate at once
  Chatters,    \* bound: those that chat(); the others only remember()
  Facts,
  Declared,    \* the facts the entity vault knows or detects
  Policy,      \* class -> the weakest tier its memories may cross to
  Attempts,    \* abstractions delegate() tries
  IndexLimit,  \* INDEX_LIMIT: entries kept in the index file
  Recalls,     \* bound: values of the parameter recall
  InUse,       \* bound: classes that callers name
  MaxKeep      \* bound: memories ever stored

OPEN == 0
PSEUDONYMOUS == 1
DELEGATED == 2
ATTESTED == 3
SEALED == 4
LOCAL_TIER == 5
Tiers == OPEN .. LOCAL_TIER

PUBLIC == 0
PERSONAL == 1
SENSITIVE == 2
SECRET == 3
Classes == PUBLIC .. SECRET

\* The policy of every gate the program opens.
DefaultPolicy ==
  [c \in Classes |-> CASE c = PUBLIC -> OPEN
                       [] c = PERSONAL -> PSEUDONYMOUS
                       [] c = SENSITIVE -> DELEGATED
                       [] c = SECRET -> LOCAL_TIER]

ASSUME PolicyAssumption == Policy \in [Classes -> Tiers]
ASSUME VaultAssumption == Declared \subseteq Facts
ASSUME LimitAssumption == /\ Attempts \in Nat \ {0} /\ IndexLimit \in Nat \ {0}
                          /\ Recalls \subseteq Nat /\ MaxKeep \in Nat
ASSUME BoundsAssumption == Chatters \subseteq Gates /\ InUse \subseteq Classes

VARIABLES
  keep,        \* the memories the node holds, in the order of their puts
  indexFile,   \* the gate's index on disk: positions in keep
  gate,        \* process -> its gate and the exchange it is in
  remembered,  \* ghost: the memories whose remember() returned
  overlapped   \* ghost: an index was written over one its process never read

vars == <<keep, indexFile, gate, remembered, overlapped>>

Authors == {"user", "assistant"}
Memories == [class : Classes, facts : SUBSET Facts, by : Authors]
Numbers == 1 .. Len(keep)
Texts == [facts : SUBSET Facts, by : Authors]

\* released: facts and tier fixed; abstracting: delegate() is at work; sent: a
\* text is with the backend; storing, indexing: the two halves of remember().
Phases == {"closed", "open", "released", "abstracting", "sent", "storing", "indexing"}

\* What a gate without an exchange is in: nothing but its index matters.
Rest(at, index, known) ==
  [at |-> at, index |-> index, known |-> known, tier |-> OPEN, class |-> PUBLIC,
   message |-> {}, released |-> {}, stores |-> FALSE, tries |-> 0, text |-> {},
   todo |-> <<>>]

Init ==
  /\ keep = <<>> /\ indexFile = <<>>
  /\ gate = [g \in Gates |-> Rest("closed", <<>>, <<>>)]
  /\ remembered = {} /\ overlapped = FALSE

Delegating(tier) == tier \in {DELEGATED, SEALED}
FactsOf(S) == UNION {keep[m].facts : m \in S}
Entries(s) == {s[i] : i \in DOMAIN s}
LastOf(s, n) == IF Len(s) <= n THEN s ELSE SubSeq(s, Len(s) - n + 1, Len(s))

\* index[-n:], which for n = 0 is the whole list.
Recent(s, n) == IF n = 0 THEN s ELSE LastOf(s, n)

\* What a backend that claims a tier may be granted by its prover.
Grants(claimed) ==
  CASE claimed = SEALED -> {SEALED, ATTESTED, DELEGATED, OPEN}
    [] OTHER -> {claimed, OPEN}

EndExchange(g) == gate' = [gate EXCEPT ![g] = Rest("open", @.index, @.known)]

(* --------------------------- Opening and asking --------------------------- *)

Open(g) ==
  /\ gate[g].at = "closed"
  /\ gate' = [gate EXCEPT ![g] = Rest("open", indexFile, indexFile)]
  /\ UNCHANGED <<keep, indexFile, remembered, overlapped>>

\* release_for, had it taken the backend at its word.
ReleaseClaimed(g, claimed, granted, recent) ==
  {m \in recent : Policy[keep[m].class] <= claimed}

\* The memories a backend may see: each recalled one, or none of it, by the
\* class in its own ciphertext and the tier the backend proved.
Release(g, claimed, granted, recent) ==
  {m \in recent : Policy[keep[m].class] <= granted}

\* chat() up to the release. Memories that cannot be read are passed over. A
\* backend without the vault or the local model its tier needs is refused
\* here: nothing happens.
Ask(g, claimed, granted, message, class, stores, n) ==
  /\ gate[g].at = "open" /\ granted \in Grants(claimed)
  /\ \E readable \in SUBSET Entries(Recent(gate[g].index, n)) :
       gate' = [gate EXCEPT
         ![g].at = "released", ![g].tier = granted,
         ![g].class = IF stores THEN class ELSE @,
         ![g].message = message, ![g].stores = stores,
         ![g].released = Release(g, claimed, granted, readable)]
  /\ UNCHANGED <<keep, indexFile, remembered, overlapped>>

(* ------------------------------- Sending ---------------------------------- *)

Send(g, text, tries) ==
  gate' = [gate EXCEPT ![g].at = "sent", ![g].text = text, ![g].tries = tries]

\* Tiers that see the message and the released memories, less what the vault
\* swaps on the pseudonymous one.
SendWithContext(g) ==
  /\ gate[g].at = "released" /\ ~Delegating(gate[g].tier)
  /\ LET full == gate[g].message \cup FactsOf(gate[g].released)
     IN  Send(g, IF gate[g].tier = PSEUDONYMOUS THEN full \ Declared ELSE full, 0)
  /\ UNCHANGED <<keep, indexFile, remembered, overlapped>>

\* route(): mechanically no overlap with the context, and the local model says
\* GENERAL. Anything else, and any failure to say so, takes the slow path.
SendDirect(g) ==
  /\ gate[g].at = "released" /\ Delegating(gate[g].tier)
  /\ gate[g].message \cap FactsOf(gate[g].released) = {}
  /\ Send(g, gate[g].message, 0)
  /\ UNCHANGED <<keep, indexFile, remembered, overlapped>>

TakeSlowPath(g) ==
  /\ gate[g].at = "released" /\ Delegating(gate[g].tier)
  /\ gate' = [gate EXCEPT ![g].at = "abstracting"]
  /\ UNCHANGED <<keep, indexFile, remembered, overlapped>>

\* LeakGate().add(message), had delegate() forgotten the context.
ClearedOfMessage(g, text) == text \cap gate[g].message = {}

\* LeakGate().add(message, *context).leaks(text) is empty.
Cleared(g, text) ==
  text \cap (gate[g].message \cup FactsOf(gate[g].released)) = {}

\* One attempt of delegate(). The local model may write anything at all; what
\* leaks is tried again, and after the last attempt nothing is sent.
Abstract(g, text) ==
  /\ gate[g].at = "abstracting"
  /\ IF Cleared(g, text) THEN Send(g, text, gate[g].tries + 1)
     ELSE IF gate[g].tries + 1 < Attempts
          THEN gate' = [gate EXCEPT ![g].tries = @ + 1]
          ELSE EndExchange(g)
  /\ UNCHANGED <<keep, indexFile, remembered, overlapped>>

\* The local or the hosted model raises or times out; chat() raises with it.
ModelFails(g) ==
  /\ gate[g].at \in {"abstracting", "sent"}
  /\ EndExchange(g)
  /\ UNCHANGED <<keep, indexFile, remembered, overlapped>>

(* ------------------------- The reply and its memory ----------------------- *)

\* What the reply may repeat: what the model was sent, what the vault puts
\* back, and, after an abstraction, the context the local model re-applies.
\* What an abstraction made up is no fact about anybody and drops out.
Seen(g) ==
  IF Delegating(gate[g].tier) /\ gate[g].tries = 0 THEN gate[g].message
  ELSE gate[g].message \cup FactsOf(gate[g].released)

\* The exchange is stored under the class the caller named, whatever the class
\* of the memories that went into it.
Reply(g, reply) ==
  /\ gate[g].at = "sent" /\ reply \subseteq Seen(g)
  /\ IF gate[g].stores
     THEN gate' = [gate EXCEPT
            ![g] = [Rest("storing", @.index, @.known) EXCEPT
                      !.class = gate[g].class,
                      !.todo = << [facts |-> gate[g].message, by |-> "user"],
                                  [facts |-> reply, by |-> "assistant"] >>]]
     ELSE EndExchange(g)
  /\ UNCHANGED <<keep, indexFile, remembered, overlapped>>

\* remember() called by itself.
Remember(g, facts, class) ==
  /\ gate[g].at = "open"
  /\ gate' = [gate EXCEPT ![g].at = "storing", ![g].class = class,
                          ![g].todo = << [facts |-> facts, by |-> "user"] >>]
  /\ UNCHANGED <<keep, indexFile, remembered, overlapped>>

Stored(g) == Append(keep, [class |-> gate[g].class,
                           facts |-> Head(gate[g].todo).facts,
                           by |-> Head(gate[g].todo).by])

\* client.put() returns, and the entry joins the list in memory.
Put(g) ==
  /\ gate[g].at = "storing" /\ Len(keep) < MaxKeep
  /\ keep' = Stored(g)
  /\ gate' = [gate EXCEPT ![g].at = "indexing", ![g].index = Append(@, Len(keep'))]
  /\ UNCHANGED <<indexFile, remembered, overlapped>>

\* client.put() raises, before or after the node stored the record.
PutFails(g) ==
  /\ gate[g].at = "storing"
  /\ keep' = keep \/ (Len(keep) < MaxKeep /\ keep' = Stored(g))
  /\ EndExchange(g)
  /\ UNCHANGED <<indexFile, remembered, overlapped>>

\* _save_index, had it cut the list from the other end.
SaveOldest(s) == SubSeq(s, 1, IF Len(s) < IndexLimit THEN Len(s) ELSE IndexLimit)

\* The newest entries, written aside and moved over the file in one step.
Saved(s) == LastOf(s, IndexLimit)

AfterSave(g) ==
  IF Len(gate[g].todo) > 1
  THEN [gate[g] EXCEPT !.at = "storing", !.todo = Tail(@), !.known = indexFile']
  ELSE Rest("open", gate[g].index, indexFile')

SaveIndex(g) ==
  /\ gate[g].at = "indexing"
  /\ indexFile' = Saved(gate[g].index)
  /\ gate' = [gate EXCEPT ![g] = AfterSave(g)]
  /\ remembered' = remembered \cup {gate[g].index[Len(gate[g].index)]}
  /\ overlapped' = (overlapped \/ indexFile # gate[g].known)
  /\ UNCHANGED keep

\* The index cannot be written: remember() raises, and the memory stays in the
\* keep and in this process's list only.
SaveFails(g) ==
  /\ gate[g].at = "indexing"
  /\ EndExchange(g)
  /\ UNCHANGED <<keep, indexFile, remembered, overlapped>>

\* The process ends or is killed, wherever it is.
Close(g) ==
  /\ gate[g].at # "closed"
  /\ gate' = [gate EXCEPT ![g] = Rest("closed", <<>>, <<>>)]
  /\ UNCHANGED <<keep, indexFile, remembered, overlapped>>

-----------------------------------------------------------------------------
Works(g) ==
  \/ SendWithContext(g) \/ SendDirect(g) \/ TakeSlowPath(g)
  \/ \E text \in SUBSET Facts : Abstract(g, text) \/ Reply(g, text)
  \/ ModelFails(g) \/ Put(g) \/ PutFails(g) \/ SaveIndex(g) \/ SaveFails(g)

Next ==
  \E g \in Gates :
    \/ Open(g) \/ Works(g) \/ Close(g)
    \/ /\ g \in Chatters
       /\ \E claimed, granted \in Tiers, message \in SUBSET Facts, class \in InUse,
             stores \in BOOLEAN, n \in Recalls :
            Ask(g, claimed, granted, message, class, stores, n)
    \/ \E facts \in SUBSET Facts, class \in InUse : Remember(g, facts, class)

Spec == Init /\ [][Next]_vars

-----------------------------------------------------------------------------
(* Types: the keep holds classified texts, and the index file, the lists the *)
(* processes hold and what they released are positions in it.                *)
TypeOK ==
  /\ keep \in Seq(Memories)
  /\ indexFile \in Seq(Numbers) /\ Len(indexFile) <= IndexLimit
  /\ gate \in [Gates ->
       [at : Phases, index : Seq(Numbers), known : Seq(Numbers), tier : Tiers,
        class : Classes, message : SUBSET Facts, released : SUBSET Numbers,
        stores : BOOLEAN, tries : 0 .. Attempts, text : SUBSET Facts,
        todo : Seq(Texts)]]
  /\ remembered \subseteq Numbers /\ overlapped \in BOOLEAN

(* What a backend of a tier that is shown the context learns beyond the      *)
(* user's own message, the policy clears: some memory that carries the fact  *)
(* may cross to the tier the backend proved, whatever it claimed.            *)
OnlyClearedCross ==
  \A g \in Gates : gate[g].at = "sent" /\ ~Delegating(gate[g].tier) =>
    \A f \in gate[g].text \ gate[g].message :
      \E m \in Numbers : f \in keep[m].facts /\ Policy[keep[m].class] <= gate[g].tier

(* A delegating backend learns nothing from the memories that were released  *)
(* for the exchange, and nothing from the message unless it got the message  *)
(* as typed, after any number of attempts of an untrusted local model.       *)
DelegateSeesNothingPrivate ==
  \A g \in Gates : gate[g].at = "sent" /\ Delegating(gate[g].tier) =>
    /\ gate[g].text \cap FactsOf(gate[g].released) = {}
    /\ gate[g].text \cap gate[g].message # {} =>
         gate[g].tries = 0 /\ gate[g].text = gate[g].message

(* A memory whose remember() returned is found by every later process: it is *)
(* in the index file, unless IndexLimit later ones are or two processes      *)
(* wrote the file over one another.                                          *)
RememberedIsListed ==
  overlapped \/ \A m \in remembered :
    \/ m \in Entries(indexFile)
    \/ Cardinality({e \in Entries(indexFile) : e > m}) = IndexLimit
==============================================================================
