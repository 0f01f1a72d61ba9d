-------------------------------- MODULE Witness --------------------------------
(* Clients that compare the heads a node signed (witness.py, and the command  *)
(* "gossip" of cli.py): each command loads a log of heads, takes in the head  *)
(* the node answers and those of a file another client exported, and writes   *)
(* the log back, or an accusation.                                            *)
(*                                                                            *)
(* A head is four texts: a key, a size, a root, a signature, of which here only *)
(* whether it verifies. Key and root are hexadecimal; a signature is checked  *)
(* over the bytes they decode to, while a log and an accusation compare the   *)
(* texts, and one string of bytes has many. Nobody but the node signs for it. *)
EXTENDS Naturals, FiniteSets, Functions, SequencesExt

CONSTANTS
  Clients,      \* bound: commands at once
  Files,        \* the paths given with --log
  Keys, Roots,  \* keys and roots as texts
  Signer,       \* of each key, the node it is a spelling of
  Bytes,        \* of each root, what it decodes to
  Honest,       \* the nodes that sign one root for a size
  MaxSize,      \* bound: sizes a node signs for
  MaxCommands   \* bound: commands begun

VARIABLES
  begun,       \* commands begun so far
  signed,      \* the messages the nodes ever signed
  place,       \* client -> where its command is
  uses,        \* client -> its log file
  log,         \* client -> its HeadLog
  coming,      \* client -> the heads it has yet to take in
  logFile,     \* path -> the log on disk
  proofFile,   \* the accusation on disk
  heard,       \* ghost: path -> heads that commands took in and saved there
  crossed,     \* ghost: paths two commands were at together
  torn         \* ghost: paths whose log a command was killed while writing

vars == <<begun, signed, place, uses, log, coming, logFile, proofFile, heard, crossed, torn>>

Heads == [key : Keys, size : 1..MaxSize, root : Roots, valid : BOOLEAN]
Message(h) == [node |-> Signer[h.key], size |-> h.size, bytes |-> Bytes[h.root]]
NoLog == [key |-> "nobody", heads |-> {}]
None == <<>>
NoFile == "no file"

Init ==
  /\ begun = 0 /\ signed = {} /\ proofFile = None
  /\ place = [c \in Clients |-> "off"] /\ log = [c \in Clients |-> NoLog]
  /\ coming = [c \in Clients |-> <<>>] /\ uses = [c \in Clients |-> NoFile]
  /\ logFile = [f \in Files |-> NoLog] /\ heard = [f \in Files |-> {}]
  /\ crossed = {} /\ torn = {}

Signs(m) ==
  /\ m.node \in Honest => \A o \in signed : o.node = m.node /\ o.size = m.size => o.bytes = m.bytes
  /\ signed' = signed \cup {m}

(* ------------------------------- The command ------------------------------ *)

\* What the file given with --theirs may hold: a log somebody exported, in the
\* order of its sizes, or one head that anybody made up: one that nobody signed,
\* or one that somebody did, in whatever spelling.
Exports(f) ==
  {s \in SeqOf(logFile[f].heads, MaxSize) :
     Range(s) = logFile[f].heads /\ \A i, j \in DOMAIN s : i < j => s[i].size < s[j].size}
Forgeries == {h \in Heads : h.valid => Message(h) \in signed}
Theirs == {<<>>} \cup (UNION {Exports(f) : f \in Files}) \cup {<<h>> : h \in Forgeries}

At(c) == {d \in Clients \ {c} : uses[d] = uses[c]}

\* client.head(): a head with a valid signature, of whatever node is there, as
\* it arrives. A file that is not there begins a log for the key of the head. A log that is
\* there was checked head by head when it was made, and passes again.
Begin(c) ==
  /\ place[c] = "off" /\ begun < MaxCommands
  /\ begun' = begun + 1
  /\ place' = [place EXCEPT ![c] = "observe"]
  /\ \E f \in Files \ torn, h \in Heads, theirs \in Theirs :
       /\ h.valid /\ Signs(Message(h))
       /\ uses' = [uses EXCEPT ![c] = f]
       /\ log' = [log EXCEPT ![c] =
            IF logFile[f] = NoLog THEN [key |-> h.key, heads |-> {}] ELSE logFile[f]]
       /\ coming' = [coming EXCEPT ![c] = <<h>> \o theirs]
       /\ crossed' = crossed \cup {g \in {f} : \E d \in Clients \ {c} : uses[d] = g}
  /\ UNCHANGED <<logFile, proofFile, heard, torn>>

\* The command ends without having saved anything, or after it has.
Over(c) ==
  /\ place' = [place EXCEPT ![c] = "off"] /\ log' = [log EXCEPT ![c] = NoLog]
  /\ coming' = [coming EXCEPT ![c] = <<>>]
  /\ uses' = [uses EXCEPT ![c] = NoFile]

(* ------------------------------- HeadLog.observe -------------------------- *)

Next1(c) == coming[c][1]
Foreign(c) == Next1(c).key # log[c].key
Seen(c) == {h \in log[c].heads : h.size = Next1(c).size}

\* Mutant: a head whose signature nobody checked is entered.
AcceptableUnsigned(c) == ~Foreign(c)

Acceptable(c) == ~Foreign(c) /\ Next1(c).valid

\* Mutant: the later of two heads of a size replaces the earlier.
ContradictsNothing(c) == FALSE

Contradicts(c) == \E h \in Seen(c) : h.root # Next1(c).root

Observe(c) ==
  /\ place[c] = "observe" /\ coming[c] # <<>>
  /\ Acceptable(c) /\ ~Contradicts(c)
  /\ log' = [log EXCEPT ![c].heads = (@ \ Seen(c)) \cup {Next1(c)}]
  /\ coming' = [coming EXCEPT ![c] = Tail(@)]
  /\ UNCHANGED <<begun, uses, signed, place, logFile, proofFile, heard, crossed, torn>>

\* The head is not signed: ValueError, and the command fails.
Reject(c) ==
  /\ place[c] = "observe" /\ coming[c] # <<>> /\ ~Foreign(c) /\ ~Acceptable(c)
  /\ Over(c)
  /\ UNCHANGED <<begun, signed, logFile, proofFile, heard, crossed, torn>>

\* The one head for both sides when its key is not the log's; else the head in
\* the log and the one that contradicts it. Over the last accusation, and the
\* log is not saved.
Accuse(c) ==
  /\ place[c] = "observe" /\ coming[c] # <<>>
  /\ \/ Foreign(c) /\ proofFile' = <<Next1(c), Next1(c)>>
     \/ /\ Acceptable(c) /\ Contradicts(c)
        /\ \E h \in Seen(c) : proofFile' = <<h, Next1(c)>>
  /\ Over(c)
  /\ UNCHANGED <<begun, signed, logFile, heard, crossed, torn>>

(* ---------------------------------- Saving -------------------------------- *)

\* open(path, "w") empties the file.
BeginSave(c) ==
  /\ place[c] = "observe" /\ coming[c] = <<>>
  /\ place' = [place EXCEPT ![c] = "save"]
  /\ logFile' = [logFile EXCEPT ![uses[c]] = NoLog]
  /\ torn' = torn \cup {uses[c]}
  /\ UNCHANGED <<begun, uses, signed, log, coming, proofFile, heard, crossed>>

\* Two that write the file at once may leave a mix of the two.
Save(c) ==
  /\ place[c] = "save"
  /\ logFile' = [logFile EXCEPT ![uses[c]] = log[c]]
  /\ torn' \in IF \E d \in At(c) : place[d] = "save" THEN {torn, torn \ {uses[c]}}
               ELSE {torn \ {uses[c]}}
  /\ heard' = [heard EXCEPT ![uses[c]] = @ \cup log[c].heads]
  /\ Over(c)
  /\ UNCHANGED <<begun, signed, proofFile, crossed>>

Die(c) ==
  /\ place[c] # "off" /\ Over(c)
  /\ UNCHANGED <<begun, signed, logFile, proofFile, heard, crossed, torn>>

Step(c) ==
  \/ Begin(c) \/ Observe(c) \/ Reject(c) \/ Accuse(c)
  \/ BeginSave(c) \/ Save(c) \/ Die(c)

Next == \E c \in Clients : Step(c)
Spec == Init /\ [][Next]_vars

-----------------------------------------------------------------------------
TypeOK ==
  /\ signed \subseteq {Message(h) : h \in Heads} /\ torn \subseteq Files /\ crossed \subseteq Files
  /\ place \in [Clients -> {"off", "observe", "save"}]
  /\ \A c \in Clients : log[c].heads \subseteq Heads
  /\ \A f \in Files : logFile[f].heads \subseteq Heads /\ heard[f] \subseteq Heads

\* EquivocationProof.holds, from the artefact alone.
Holds(p) ==
  /\ p # None
  /\ p[1].key = p[2].key /\ p[1].size = p[2].size /\ p[1].root # p[2].root
  /\ p[1].valid /\ p[2].valid

\* Whatever is handed around, an accusation that holds is of two heads that were
\* signed, and against a node that did sign two roots for one size, never an
\* honest one - unless it holds by its letters only, its two roots being one in
\* two spellings. One that does not hold is about a key that is not spelt as the
\* log's, and says so by naming one head twice.
OneRootTwice(p) == Bytes[p[1].root] = Bytes[p[2].root]

NoSlander ==
  proofFile # None =>
    IF Holds(proofFile)
      THEN /\ {Message(proofFile[1]), Message(proofFile[2])} \subseteq signed
           /\ OneRootTwice(proofFile) \/ Signer[proofFile[1].key] \notin Honest
      ELSE proofFile[1] = proofFile[2]

\* A log remembers every head that was taken in with it, for good, unless two
\* commands are at it at once or one is killed while it writes; so two clients
\* that ever compared, directly or through others, and found nothing were told
\* one history as far as they compared.
HeardIsKept ==
  \A f \in Files \ (crossed \cup torn) :
    /\ heard[f] = logFile[f].heads
    /\ \A g, h \in heard[f] : g.key = h.key /\ (g.size = h.size => g.root = h.root)
================================================================================
