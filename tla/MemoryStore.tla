--------------------------- MODULE MemoryStore ---------------------------
(***************************************************************************)
(* The node's store (oblivio/store.py, class MemoryStore): the files it    *)
(* keeps, the memory it answers from, and put_ciphertext as the sequence   *)
(* of file writes it is, so that a failed write, a killed process or a     *)
(* power loss can fall between any two of them.  RLock lets one put run at *)
(* a time and keeps reads out while it runs: a read sees "idle" states.    *)
(*                                                                         *)
(* A leaf hash stands for its ciphertext and a head for the sequence of    *)
(* leaves it commits to (see AppendOnlyLog).  A proof served with a record *)
(* is the tree it was cut from.                                            *)
(***************************************************************************)
EXTENDS Naturals, Sequences

CONSTANTS RecordIds, Ciphertexts,
          Faults,        \* which faults the environment may inject
          MaxRecords     \* bound on the rows held in memory

FaultKinds == {"crash",     \* the process dies; what it wrote stays
               "torn",      \* ... in the middle of the write it was doing
               "power",     \* nothing is fsynced: rows may vanish too
               "record", "append", "publish"} \* that write raises OSError

ASSUME FaultsAssumption == Faults \subseteq FaultKinds
ASSUME MaxRecordsAssumption == MaxRecords \in Nat

VARIABLES
  recordFiles,  \* disk: records/<leaf>, per ciphertext
  log,          \* disk: the complete rows of log.jsonl
  tornTail,     \* disk: log.jsonl ends in a partial line
  headFile,     \* disk: head.json
  pc,           \* what the process is doing
  pending,      \* the row of the put under way
  rows,         \* memory: _meta, and with it the leaves of _log
  byId,         \* memory: _by_record_id
  signed,       \* history: every head ever published
  acked,        \* history: every row a put answered 200 for
  mishaps       \* history: the kinds of faults there have been

disk == <<recordFiles, log, tornTail, headFile>>
memory == <<rows, byId>>
history == <<signed, acked, mishaps>>
vars == <<disk, pc, pending, memory, history>>

Row == [id : RecordIds, leaf : Ciphertexts, index : Nat]
Tree == Seq(Ciphertexts)
Leaves(rs) == [i \in 1..Len(rs) |-> rs[i].leaf]

NoRow == [none |-> TRUE]
Whole(tree) == [state |-> "whole", tree |-> tree]
Torn == [state |-> "torn", tree |-> <<>>]
Absent == [state |-> "absent", tree |-> <<>>]
HeadFile == [state : {"absent", "torn", "whole"}, tree : Tree]

TypeOK ==
  /\ recordFiles \in [Ciphertexts -> {"absent", "torn", "whole"}]
  /\ log \in Seq(Row) /\ rows \in Seq(Row)
  /\ tornTail \in BOOLEAN
  /\ headFile \in HeadFile
  /\ pc \in {"down", "idle", "record", "append", "publish"}
  /\ IF pc \in {"record", "append", "publish"} THEN pending \in Row
                                               ELSE pending = NoRow
  /\ DOMAIN byId \subseteq RecordIds
  /\ signed \subseteq Tree
  /\ acked \subseteq Row
  /\ mishaps \subseteq Faults

Init ==
  /\ recordFiles = [c \in Ciphertexts |-> "absent"]
  /\ log = <<>> /\ tornTail = FALSE /\ headFile = Absent
  /\ pc = "down" /\ pending = NoRow
  /\ rows = <<>> /\ byId = <<>>
  /\ signed = {} /\ acked = {} /\ mishaps = {}

(* dict.setdefault: the first index recorded for an id is kept. *)
SetDefault(index, id, i) ==
  [x \in DOMAIN index \cup {id} |-> IF x \in DOMAIN index THEN index[x] ELSE i]

(* Replaying rs into an empty index: an id keeps the index of its first row. *)
IndexOf(rs) ==
  LET ids == {rs[i].id : i \in 1..Len(rs)}
      first(x) == CHOOSE i \in 1..Len(rs) :
                    rs[i].id = x /\ \A j \in 1..(i - 1) : rs[j].id # x
  IN [x \in ids |-> rs[first(x)].index]

(* _load: replay log.jsonl, then publish a head only if there is none, or  *)
(* if there is no log yet; a log without rows may be a file all the same.  *)
(* A partial line fails json.loads and the node does not start.            *)
Start ==
  /\ pc = "down"
  /\ ~tornTail
  /\ rows' = log
  /\ byId' = IndexOf(log)
  /\ \/ /\ log = <<>> \/ headFile = Absent
        /\ headFile' = Whole(Leaves(log))
        /\ signed' = signed \cup {Leaves(log)}
     \/ /\ headFile # Absent
        /\ UNCHANGED <<headFile, signed>>
  /\ pc' = "idle"
  /\ UNCHANGED <<recordFiles, log, tornTail, pending, acked, mishaps>>

--------------------------------------------------------------------------
(* put_ciphertext, one action per file it writes. *)

BeginPut(id, c) ==
  /\ pc = "idle"
  /\ Len(rows) < MaxRecords
  /\ pending' = [id |-> id, leaf |-> c, index |-> Len(rows)]
  /\ pc' = "record"
  /\ UNCHANGED <<disk, memory, history>>

(* Mutant: the head is signed and published before the row is logged. *)
WriteRecordPublishing ==
  /\ pc = "record"
  /\ recordFiles' = [recordFiles EXCEPT ![pending.leaf] = "whole"]
  /\ rows' = Append(rows, pending)
  /\ byId' = SetDefault(byId, pending.id, pending.index)
  /\ headFile' = Whole(Leaves(rows'))
  /\ signed' = signed \cup {Leaves(rows')}
  /\ pc' = "append"
  /\ UNCHANGED <<log, tornTail, pending, acked, mishaps>>

(* The ciphertext is on disk; the row enters memory before the log. *)
WriteRecord ==
  /\ pc = "record"
  /\ recordFiles' = [recordFiles EXCEPT ![pending.leaf] = "whole"]
  /\ rows' = Append(rows, pending)
  /\ byId' = SetDefault(byId, pending.id, pending.index)
  /\ pc' = "append"
  /\ UNCHANGED <<log, tornTail, headFile, pending, history>>

(* Mutant: a row whose id is already in the log is not written again. *)
AppendLogOnce ==
  /\ pc = "append"
  /\ log' = IF \E i \in 1..Len(log) : log[i].id = pending.id
             THEN log ELSE Append(log, pending)
  /\ pc' = "publish"
  /\ UNCHANGED <<recordFiles, tornTail, headFile, pending, memory, history>>

(* A row written behind a partial line becomes part of that line. *)
AppendLog ==
  /\ pc = "append"
  /\ log' = IF tornTail THEN log ELSE Append(log, pending)
  /\ pc' = "publish"
  /\ UNCHANGED <<recordFiles, tornTail, headFile, pending, memory, history>>

(* Mutant: the head is computed before the row enters the tree. *)
PublishHeadEarly ==
  /\ pc = "publish"
  /\ headFile' = Whole(Leaves(SubSeq(rows, 1, Len(rows) - 1)))
  /\ signed' = signed \cup {headFile'.tree}
  /\ acked' = acked \cup {pending}
  /\ pc' = "idle" /\ pending' = NoRow
  /\ UNCHANGED <<recordFiles, log, tornTail, memory, mishaps>>

PublishHead ==
  /\ pc = "publish"
  /\ headFile' = Whole(Leaves(rows))
  /\ signed' = signed \cup {Leaves(rows)}
  /\ acked' = acked \cup {pending}
  /\ pc' = "idle" /\ pending' = NoRow
  /\ UNCHANGED <<recordFiles, log, tornTail, memory, mishaps>>

--------------------------------------------------------------------------
(* A write raises OSError: open() failed and the file is as it was, or the *)
(* write itself failed and left a partial one.  The handler answers 500,   *)
(* the lock is released and nothing done so far is undone.                 *)

(* A fault of this kind happens. *)
Mishap(kind) ==
  /\ kind \in Faults
  /\ mishaps' = mishaps \cup {kind}
  /\ UNCHANGED <<signed, acked>>

RecordFails ==
  /\ pc = "record" /\ Mishap("record")
  /\ \E f \in {recordFiles[pending.leaf], "torn"} :
       recordFiles' = [recordFiles EXCEPT ![pending.leaf] = f]
  /\ pc' = "idle" /\ pending' = NoRow
  /\ UNCHANGED <<log, tornTail, headFile, memory>>

AppendFails ==
  /\ pc = "append" /\ Mishap("append")
  /\ tornTail' \in {tornTail, TRUE}
  /\ pc' = "idle" /\ pending' = NoRow
  /\ UNCHANGED <<recordFiles, log, headFile, memory>>

PublishFails ==
  /\ pc = "publish" /\ Mishap("publish")
  /\ headFile' \in {headFile, Torn}
  /\ pc' = "idle" /\ pending' = NoRow
  /\ UNCHANGED <<recordFiles, log, tornTail, memory>>

(* The process dies.  Memory is gone; with "torn" the file it was writing  *)
(* is left partial.                                                        *)
Crash ==
  /\ pc # "down" /\ Mishap("crash")
  /\ pc' = "down" /\ pending' = NoRow
  /\ rows' = <<>> /\ byId' = <<>>
  /\ \/ UNCHANGED disk
     \/ /\ pc = "record" /\ "torn" \in Faults
        /\ recordFiles' = [recordFiles EXCEPT ![pending.leaf] = "torn"]
        /\ UNCHANGED <<log, tornTail, headFile>>
     \/ /\ pc = "append" /\ "torn" \in Faults
        /\ tornTail' = TRUE
        /\ UNCHANGED <<recordFiles, log, headFile>>
     \/ /\ pc = "publish" /\ "torn" \in Faults
        /\ headFile' = Torn
        /\ UNCHANGED <<recordFiles, log, tornTail>>

(* The machine dies: no file is fsynced, so rows still in the page cache   *)
(* are lost although their puts were answered.  Bound: once a behaviour.   *)
PowerLoss ==
  /\ pc # "down" /\ "power" \notin mishaps /\ Mishap("power")
  /\ \E n \in 0..Len(log) : log' = SubSeq(log, 1, n)
  /\ pc' = "down" /\ pending' = NoRow
  /\ rows' = <<>> /\ byId' = <<>>
  /\ UNCHANGED <<recordFiles, tornTail, headFile>>

Next ==
  \/ Start
  \/ \E id \in RecordIds, c \in Ciphertexts : BeginPut(id, c)
  \/ WriteRecord \/ AppendLog \/ PublishHead
  \/ RecordFails \/ AppendFails \/ PublishFails
  \/ Crash \/ PowerLoss

Spec == Init /\ [][Next]_vars

--------------------------------------------------------------------------
(* Reads change nothing: they are what the node would answer now. *)

(* head(): head.json as it is on disk. *)
HeadReadable == headFile.state = "whole"

(* get(index): the proof is cut from memory, the head read from disk. *)
Get(i) == [row |-> rows[i], body |-> recordFiles[rows[i].leaf],
           proof |-> Leaves(rows), head |-> headFile.tree]

(* client._open_response accepts: the body hashes to the leaf, and the     *)
(* audit path leads from the leaf to the signed root at the signed size.   *)
ClientAccepts(reply) ==
  /\ reply.body = "whole"
  /\ reply.proof = reply.head

--------------------------------------------------------------------------
(* The store implements the append-only log: the lines of log.jsonl are    *)
(* the history.                                                            *)
Keep == INSTANCE AppendOnlyLog
          WITH Leaf <- Ciphertexts, entries <- Leaves(log), heads <- signed

(* No row that entered memory or was answered for has been lost. *)
RowsKept == {"append", "power"} \cap mishaps = {}

NeverDied == {"crash", "power"} \cap mishaps = {}

(* Every history of the files, crashes and torn writes included, is one    *)
(* the append-only log allows, for as long as no row is lost (store.py,    *)
(* module docstring and README).                                           *)
ImplementsKeep ==
  Keep!Init /\ [][RowsKept' => Keep!Next \/ UNCHANGED Keep!vars]_vars

(* The node never signs two heads of one size with different roots, so an  *)
(* honest operator can never be shown an equivocation proof of its own,    *)
(* unless a row was lost and the process died.                             *)
NoEquivocation == RowsKept \/ NeverDied => Keep!NoEquivocation

(* An acknowledged record stays where its receipt says it is, in the file  *)
(* a restart replays, whatever happened since but the loss of a row.       *)
AckedStay ==
  RowsKept => \A r \in acked : r.index < Len(log) /\ log[r.index + 1] = r

(* get_by_record_id answers with the first record stored under the id and  *)
(* never with a later duplicate, before and after a restart, even one that *)
(* lost rows; but not after one that replays a log in which a row failed.  *)
LookupIsFirst ==
  pc # "down" /\ ("append" \notin mishaps \/ NeverDied) =>
    /\ DOMAIN byId = {rows[i].id : i \in 1..Len(rows)}
    /\ \A i \in 1..Len(rows) :
         LET k == byId[rows[i].id] + 1
         IN k <= i /\ rows[k].id = rows[i].id

(* Where no fault has happened, everything the node would serve passes the *)
(* client's checks.                                                        *)
ServesVerifiably ==
  pc = "idle" /\ HeadReadable /\ mishaps = {} =>
    \A i \in 1..Len(rows) : ClientAccepts(Get(i))

(* What a reader of this node relies on: an id stands for one record for   *)
(* good, and an honest undisturbed node passes every check of the client.  *)
ReadersAreServed == LookupIsFirst /\ ServesVerifiably
==========================================================================
