------------------------ MODULE MemoryStore_proof ------------------------
(***************************************************************************)
(* Proofs about MemoryStore, for all sets of identifiers and ciphertexts,  *)
(* every bound and every set of faults; and about the hash tree behind it, *)
(* MerkleLog, for logs of any size and proofs of any length. A theorem is  *)
(* about one of the two specifications.                                    *)
(***************************************************************************)
EXTENDS MemoryStore, MerkleLog, TLAPS, WellFoundedInduction

(* The faults that lose rows cannot happen. *)
RowsAreKept == "append" \notin Faults /\ "power" \notin Faults

(* Memory runs ahead of the file by the row of the put under way, between  *)
(* WriteRecord and AppendLog, and at no other time.                        *)
MemoryMatchesLog ==
  /\ pc = "down" => rows = <<>>
  /\ pc # "down" => ~tornTail
  /\ pc \in {"idle", "record", "publish"} => rows = log
  /\ pc = "append" => rows = Append(log, pending)
  /\ pc \in {"record", "append"} => pending.index = Len(log)
  /\ pc = "publish" => /\ pending.index < Len(log)
                       /\ log[pending.index + 1] = pending

(* Every head that was published is a moment of the file's history. *)
SignedAreMoments ==
  \A h \in signed : /\ Len(h) <= Len(log)
                    /\ \A i \in 1..Len(h) : h[i] = log[i].leaf

(* While the process has never died every head is a moment of what is in   *)
(* memory, whether or not the file has it.                                 *)
SignedAreInMemory ==
  /\ pc = "down" => signed = {}
  /\ \A h \in signed : /\ Len(h) <= Len(rows)
                       /\ \A i \in 1..Len(h) : h[i] = rows[i].leaf

IInv == /\ TypeOK /\ AckedStay
        /\ RowsKept => MemoryMatchesLog /\ SignedAreMoments
        /\ NeverDied => SignedAreInMemory

--------------------------------------------------------------------------
(* Appending to a sequence leaves what was there where it was. *)
LEMMA AppendKeeps ==
  ASSUME NEW S, NEW s \in Seq(S), NEW x \in S
  PROVE  /\ Append(s, x) \in Seq(S)
         /\ Len(Append(s, x)) = Len(s) + 1
         /\ \A i \in 1..Len(s) : Append(s, x)[i] = s[i]
         /\ Append(s, x)[Len(s) + 1] = x
  OBVIOUS

(* The leaves of a sequence of rows: one per row, in the same order. *)
LEMMA LeavesOfRows ==
  ASSUME NEW rs \in Seq(Row)
  PROVE  /\ Leaves(rs) \in Tree
         /\ Len(Leaves(rs)) = Len(rs)
         /\ \A i \in 1..Len(rs) : Leaves(rs)[i] = rs[i].leaf
<1>1. \A i \in 1..Len(rs) : rs[i] \in Row
  OBVIOUS
<1>2. \A i \in 1..Len(rs) : rs[i].leaf \in Ciphertexts
  BY <1>1 DEF Row
<1>3. QED
  BY <1>2 DEF Leaves, Tree

(* head.json, in each condition a write can leave it. *)
LEMMA HeadFiles ==
  /\ Torn \in HeadFile /\ Absent \in HeadFile
  /\ \A t \in Tree : Whole(t) \in HeadFile
<1>1. <<>> \in Tree
  BY DEF Tree
<1>2. QED
  BY <1>1 DEF Torn, Absent, Whole, HeadFile

(* A fresh dictionary has no keys. *)
LEMMA EmptyIndex == DOMAIN <<>> = {}
  OBVIOUS

(* Two heads of one length that agree entry by entry are one head. *)
LEMMA SameEntries ==
  ASSUME NEW S, NEW g \in Seq(S), NEW h \in Seq(S), Len(g) = Len(h),
         \A i \in 1..Len(g) : g[i] = h[i]
  PROVE  g = h
  OBVIOUS

(* Types hold in every reachable state, whatever the faults. *)
LEMMA TypeStep == TypeOK /\ [Next]_vars => TypeOK'
<1> SUFFICES ASSUME TypeOK, [Next]_vars PROVE TypeOK'
  OBVIOUS
<1> USE DEF TypeOK, disk, memory, history, Mishap
<1>1. CASE Start
  <2>1. DOMAIN IndexOf(log) \subseteq RecordIds
    <3>1. \A i \in 1..Len(log) : log[i] \in Row
      OBVIOUS
    <3>2. QED
      BY <3>1 DEF IndexOf, Row
  <2>2. Leaves(log) \in Tree
    BY LeavesOfRows
  <2>3. QED
    BY <1>1, <2>1, <2>2, HeadFiles DEF Start
<1>2. ASSUME NEW id \in RecordIds, NEW c \in Ciphertexts, BeginPut(id, c)
      PROVE  TypeOK'
  BY <1>2 DEF BeginPut, Row
<1>3. CASE WriteRecord
  <2>1. pending \in Row /\ pending.id \in RecordIds /\ pending.leaf \in Ciphertexts
    BY <1>3 DEF WriteRecord, Row
  <2>2. DOMAIN SetDefault(byId, pending.id, pending.index) \subseteq RecordIds
    BY <2>1 DEF SetDefault
  <2>3. QED
    BY <1>3, <2>1, <2>2 DEF WriteRecord
<1>4. CASE AppendLog
  BY <1>4 DEF AppendLog
<1>5. CASE PublishHead
  <2>1. Leaves(rows) \in Tree
    BY LeavesOfRows
  <2>2. QED
    BY <1>5, <2>1, HeadFiles DEF PublishHead
<1>6. CASE RecordFails
  <2>1. pending.leaf \in Ciphertexts
    BY <1>6 DEF RecordFails, Row
  <2>2. QED
    BY <1>6, <2>1 DEF RecordFails
<1>7. CASE AppendFails
  BY <1>7 DEF AppendFails
<1>8. CASE PublishFails
  BY <1>8, HeadFiles DEF PublishFails
<1>9. CASE Crash
  <2>1. /\ rows' \in Seq(Row) /\ DOMAIN byId' \subseteq RecordIds
        /\ pc' = "down" /\ pending' = NoRow
    BY <1>9, EmptyIndex DEF Crash
  <2>2. pc = "record" => pending.leaf \in Ciphertexts
    BY DEF Row
  <2>3. QED
    BY <1>9, <2>1, <2>2, HeadFiles DEF Crash
<1>10. CASE PowerLoss
  <2>1. \A n \in 0..Len(log) : SubSeq(log, 1, n) \in Seq(Row)
    OBVIOUS
  <2>2. rows' \in Seq(Row) /\ DOMAIN byId' \subseteq RecordIds
    BY <1>10, EmptyIndex DEF PowerLoss
  <2>3. QED
    BY <1>10, <2>1, <2>2 DEF PowerLoss
<1>11. CASE UNCHANGED vars
  BY <1>11 DEF vars
<1>12. QED
  BY <1>1, <1>2, <1>3, <1>4, <1>5, <1>6, <1>7, <1>8, <1>9, <1>10, <1>11 DEF Next

(* The store's variables keep their types in every reachable state. *)
THEOREM TypeCorrect == Spec => []TypeOK
<1>1. Init => TypeOK
  <2>1. <<>> \in Seq(Row)
    OBVIOUS
  <2>2. QED
    BY <2>1, HeadFiles, EmptyIndex DEF Init, TypeOK
<1>2. QED
  BY <1>1, TypeStep, PTL DEF Spec

--------------------------------------------------------------------------
(* What has happened has happened. *)
LEMMA MishapsStay ==
  ASSUME [Next]_vars
  PROVE  mishaps \subseteq mishaps' /\ (RowsKept' => RowsKept) /\ (NeverDied' => NeverDied)
<1>1. mishaps \subseteq mishaps'
  BY DEF Next, vars, history, Start, BeginPut, WriteRecord, AppendLog, PublishHead,
         RecordFails, AppendFails, PublishFails, Crash, PowerLoss, Mishap
<1>2. QED
  BY <1>1 DEF RowsKept, NeverDied

(* A row is lost by these two faults only, and then that is recorded. *)
LEMMA KeptMeansNoLoss ==
  ASSUME RowsKept' PROVE ~AppendFails /\ ~PowerLoss
  BY DEF RowsKept, AppendFails, PowerLoss, Mishap

(* The file only grows, and by the row memory is ahead by. *)
LEMMA LogStep ==
  IInv /\ [Next]_vars /\ RowsKept' => log' = log \/ (AppendLog /\ log' = Append(log, pending))
<1> SUFFICES ASSUME IInv, [Next]_vars, RowsKept', ~AppendLog PROVE log' = log
  BY MishapsStay DEF AppendLog, IInv, MemoryMatchesLog
<1>1. QED
  BY KeptMeansNoLoss DEF Next, vars, disk, Start, BeginPut, WriteRecord,
         PublishHead, RecordFails, PublishFails, Crash

(* Heads already published stay moments of the growing file. *)
LEMMA OldHeadsStayMoments ==
  ASSUME IInv, [Next]_vars, RowsKept', NEW h \in signed
  PROVE  /\ Len(h) <= Len(log')
         /\ \A i \in 1..Len(h) : h[i] = log'[i].leaf
<1>1. h \in Seq(Ciphertexts) /\ log \in Seq(Row)
  BY DEF IInv, TypeOK, Tree
<1>2. /\ Len(h) <= Len(log)
      /\ \A i \in 1..Len(h) : h[i] = log[i].leaf
  BY MishapsStay DEF IInv, SignedAreMoments
<1>3. CASE log' = log
  BY <1>2, <1>3
<1>4. CASE AppendLog /\ log' = Append(log, pending)
  <2>1. pending \in Row
    BY <1>4 DEF AppendLog, IInv, TypeOK
  <2>2. /\ Len(log') = Len(log) + 1
        /\ \A i \in 1..Len(log) : log'[i] = log[i]
    BY <1>1, <1>4, <2>1, AppendKeeps
  <2>3. Len(h) \in Nat /\ Len(log) \in Nat
    BY <1>1
  <2>4. QED
    BY <1>2, <2>2, <2>3
<1>5. QED
  BY <1>3, <1>4, LogStep

(* A head published now is the whole file's tree. *)
LEMMA NewHeadsAreTheFile ==
  ASSUME IInv, [Next]_vars, RowsKept', NEW h \in signed' \ signed
  PROVE  h = Leaves(log) /\ log' = log
<1>1. CASE Start
  BY <1>1 DEF Start
<1>2. CASE PublishHead
  <2>1. rows = log
    BY <1>2, MishapsStay DEF PublishHead, IInv, MemoryMatchesLog
  <2>2. QED
    BY <1>2, <2>1 DEF PublishHead
<1>3. CASE ~Start /\ ~PublishHead
  BY <1>3 DEF Next, vars, history, BeginPut, WriteRecord, AppendLog,
         RecordFails, AppendFails, PublishFails, Crash, PowerLoss, Mishap
<1>4. QED
  BY <1>1, <1>2, <1>3

LEMMA SignedStep ==
  IInv /\ [Next]_vars /\ RowsKept' => SignedAreMoments'
<1> SUFFICES ASSUME IInv, [Next]_vars, RowsKept', NEW h \in signed'
             PROVE  /\ Len(h) <= Len(log')
                    /\ \A i \in 1..Len(h) : h[i] = log'[i].leaf
  BY DEF SignedAreMoments
<1>1. CASE h \in signed
  BY <1>1, OldHeadsStayMoments
<1>2. CASE h \notin signed
  <2>1. h = Leaves(log) /\ log' = log
    BY <1>2, NewHeadsAreTheFile
  <2>2. log \in Seq(Row)
    BY DEF IInv, TypeOK
  <2>3. /\ Len(Leaves(log)) = Len(log)
        /\ \A i \in 1..Len(log) : Leaves(log)[i] = log[i].leaf
    BY <2>2, LeavesOfRows
  <2>4. QED
    BY <2>1, <2>2, <2>3
<1>3. QED
  BY <1>1, <1>2

LEMMA AckedStep ==
  IInv /\ [Next]_vars => AckedStay'
<1> SUFFICES ASSUME IInv, [Next]_vars, RowsKept', NEW r \in acked'
             PROVE  r.index < Len(log') /\ log'[r.index + 1] = r
  BY DEF AckedStay
<1>1. log \in Seq(Row) /\ acked \subseteq Row
  BY DEF IInv, TypeOK
<1>2. CASE r \in acked
  <2>1. r.index \in Nat /\ r.index < Len(log) /\ log[r.index + 1] = r
    BY <1>1, <1>2, MishapsStay DEF IInv, AckedStay, Row
  <2>2. CASE log' = log
    BY <2>1, <2>2
  <2>3. CASE AppendLog /\ log' = Append(log, pending)
    <3>1. pending \in Row
      BY <2>3 DEF AppendLog, IInv, TypeOK
    <3>2. /\ Len(log') = Len(log) + 1
          /\ \A i \in 1..Len(log) : log'[i] = log[i]
      BY <1>1, <2>3, <3>1, AppendKeeps
    <3>3. QED
      BY <1>1, <2>1, <3>2
  <2>4. QED
    BY <2>2, <2>3, LogStep
<1>3. CASE r \notin acked
  <2>1. PublishHead /\ r = pending
    BY <1>3 DEF Next, vars, history, Start, BeginPut, WriteRecord, AppendLog,
         PublishHead, RecordFails, AppendFails, PublishFails, Crash, PowerLoss,
         Mishap
  <2>2. QED
    BY <2>1, MishapsStay DEF PublishHead, IInv, MemoryMatchesLog
<1>4. QED
  BY <1>2, <1>3

LEMMA MemoryStep ==
  IInv /\ [Next]_vars /\ RowsKept' => MemoryMatchesLog'
<1> SUFFICES ASSUME IInv, [Next]_vars, RowsKept' PROVE MemoryMatchesLog'
  OBVIOUS
<1>0. TypeOK /\ MemoryMatchesLog /\ log \in Seq(Row)
  BY MishapsStay DEF IInv, TypeOK
<1> USE DEF MemoryMatchesLog, disk, memory, history
<1>1. CASE Start
  BY <1>0, <1>1 DEF Start
<1>2. ASSUME NEW id \in RecordIds, NEW c \in Ciphertexts, BeginPut(id, c)
      PROVE  MemoryMatchesLog'
  BY <1>0, <1>2 DEF BeginPut
<1>3. CASE WriteRecord
  BY <1>0, <1>3 DEF WriteRecord
<1>4. CASE AppendLog
  <2>1. pending \in Row
    BY <1>0, <1>4 DEF AppendLog, TypeOK
  <2>2. log' = Append(log, pending) /\ rows' = log'
    BY <1>0, <1>4 DEF AppendLog
  <2>3. Len(log') = Len(log) + 1 /\ log'[Len(log) + 1] = pending
    BY <1>0, <2>1, <2>2, AppendKeeps
  <2>4. QED
    BY <1>0, <1>4, <2>2, <2>3 DEF AppendLog
<1>5. CASE PublishHead
  BY <1>0, <1>5 DEF PublishHead
<1>6. CASE RecordFails
  BY <1>0, <1>6 DEF RecordFails
<1>7. CASE AppendFails
  BY <1>7, KeptMeansNoLoss
<1>8. CASE PublishFails
  BY <1>0, <1>8 DEF PublishFails
<1>9. CASE Crash
  BY <1>9 DEF Crash
<1>10. CASE PowerLoss
  BY <1>10, KeptMeansNoLoss
<1>11. CASE UNCHANGED vars
  BY <1>0, <1>11 DEF vars
<1>12. QED
  BY <1>1, <1>2, <1>3, <1>4, <1>5, <1>6, <1>7, <1>8, <1>9, <1>10, <1>11 DEF Next

(* A process that never died has in memory whatever it signed. *)
LEMMA UndiedStep ==
  IInv /\ [Next]_vars /\ NeverDied' => SignedAreInMemory'
<1> SUFFICES ASSUME IInv, [Next]_vars, NeverDied' PROVE SignedAreInMemory'
  OBVIOUS
<1>0. TypeOK /\ SignedAreInMemory /\ rows \in Seq(Row) /\ log \in Seq(Row)
  BY MishapsStay DEF IInv, TypeOK
<1>a. \A h \in signed : h \in Seq(Ciphertexts)
  BY <1>0 DEF TypeOK, Tree
<1> USE DEF SignedAreInMemory, disk, memory, history
<1>1. CASE Start
  <2>1. /\ Len(Leaves(log)) = Len(log)
        /\ \A i \in 1..Len(log) : Leaves(log)[i] = log[i].leaf
    BY <1>0, LeavesOfRows
  <2>2. rows' = log /\ signed = {} /\ signed' \subseteq {Leaves(log)} /\ pc' # "down"
    BY <1>0, <1>1 DEF Start
  <2>3. QED
    BY <1>0, <2>1, <2>2
<1>2. CASE WriteRecord
  <2>1. pending \in Row
    BY <1>0, <1>2 DEF WriteRecord, TypeOK
  <2>2. rows' = Append(rows, pending) /\ signed' = signed /\ pc' # "down"
    BY <1>2 DEF WriteRecord
  <2>3. Len(rows') = Len(rows) + 1 /\ \A i \in 1..Len(rows) : rows'[i] = rows[i]
    BY <1>0, <2>1, <2>2, AppendKeeps
  <2>4. ASSUME NEW h \in signed
        PROVE  Len(h) <= Len(rows') /\ \A i \in 1..Len(h) : h[i] = rows'[i].leaf
    <3>1. Len(h) \in Nat /\ Len(rows) \in Nat /\ Len(h) <= Len(rows)
      BY <1>0, <1>a
    <3>2. \A i \in 1..Len(h) : i \in 1..Len(rows) /\ h[i] = rows[i].leaf
      BY <1>0, <3>1
    <3>3. QED
      BY <2>3, <3>1, <3>2
  <2>5. QED
    BY <2>2, <2>4
<1>3. CASE PublishHead
  <2>1. /\ Len(Leaves(rows)) = Len(rows)
        /\ \A i \in 1..Len(rows) : Leaves(rows)[i] = rows[i].leaf
    BY <1>0, LeavesOfRows
  <2>2. rows' = rows /\ signed' = signed \cup {Leaves(rows)} /\ pc' # "down"
    BY <1>3 DEF PublishHead
  <2>3. QED
    BY <1>0, <2>1, <2>2
<1>4. CASE Crash \/ PowerLoss
  BY <1>4 DEF Crash, PowerLoss, Mishap, NeverDied
<1>5. CASE ~Start /\ ~WriteRecord /\ ~PublishHead /\ ~Crash /\ ~PowerLoss
  <2>1. rows' = rows /\ signed' = signed /\ (pc' = "down" => pc = "down")
    BY <1>5 DEF Next, vars, BeginPut, AppendLog, RecordFails, AppendFails,
           PublishFails, Mishap
  <2>2. QED
    BY <1>0, <2>1
<1>6. QED
  BY <1>1, <1>2, <1>3, <1>4, <1>5

--------------------------------------------------------------------------
LEMMA Invariance == Spec => []IInv
<1>1. Init => IInv
  <2>1. ASSUME Init PROVE TypeOK
    <3>1. <<>> \in Seq(Row)
      OBVIOUS
    <3>2. QED
      BY <2>1, <3>1, HeadFiles, EmptyIndex DEF Init, TypeOK
  <2>2. Init => MemoryMatchesLog /\ SignedAreMoments /\ AckedStay /\ SignedAreInMemory
    BY DEF Init, MemoryMatchesLog, SignedAreMoments, AckedStay, SignedAreInMemory
  <2>3. QED
    BY <2>1, <2>2 DEF IInv
<1>2. IInv /\ [Next]_vars => IInv'
  BY TypeStep, MemoryStep, SignedStep, AckedStep, UndiedStep DEF IInv
<1>3. QED
  BY <1>1, <1>2, PTL DEF Spec

(* Whatever crashes, writes fail or tear: an honest node signs two heads   *)
(* of one size with different roots only if a row was lost and the process *)
(* died.                                                                   *)
THEOREM HonestNodeNeverEquivocates == Spec => []NoEquivocation
<1>1. IInv => NoEquivocation
  <2> SUFFICES ASSUME IInv, RowsKept \/ NeverDied,
                      NEW g \in signed, NEW h \in signed, Len(g) = Len(h)
               PROVE  g = h
    BY DEF NoEquivocation, Keep!NoEquivocation
  <2>1. g \in Seq(Ciphertexts) /\ h \in Seq(Ciphertexts)
    BY DEF IInv, TypeOK, Tree
  <2>2. CASE RowsKept
    <3>1. \A i \in 1..Len(g) : g[i] = log[i].leaf /\ h[i] = log[i].leaf
      BY <2>2 DEF IInv, SignedAreMoments
    <3>2. QED
      BY <2>1, <3>1, SameEntries
  <2>3. CASE NeverDied
    <3>1. \A i \in 1..Len(g) : g[i] = rows[i].leaf /\ h[i] = rows[i].leaf
      BY <2>3 DEF IInv, SignedAreInMemory
    <3>2. QED
      BY <2>1, <3>1, SameEntries
  <2>4. QED
    BY <2>2, <2>3
<1>2. QED
  BY <1>1, Invariance, PTL

(* As long as no row is lost, a record whose put was answered stays in the *)
(* file at the index its receipt names.                                    *)
THEOREM AcknowledgedRecordsStay == Spec => []AckedStay
<1>1. IInv => AckedStay
  BY DEF IInv
<1>2. QED
  BY <1>1, Invariance, PTL

--------------------------------------------------------------------------
(* Refinement: each step of the store is a step of the append-only log. *)

LEMMA AppendedLeaves ==
  ASSUME NEW rs \in Seq(Row), NEW r \in Row
  PROVE  Leaves(Append(rs, r)) = Append(Leaves(rs), r.leaf)
<1>1. r.leaf \in Ciphertexts
  BY DEF Row
<1>2. Append(rs, r) \in Seq(Row) /\ Len(Append(rs, r)) = Len(rs) + 1
  BY AppendKeeps
<1>3. Leaves(rs) \in Seq(Ciphertexts) /\ Len(Leaves(rs)) = Len(rs)
  BY LeavesOfRows DEF Tree
<1>4. Leaves(Append(rs, r)) \in Seq(Ciphertexts) /\ Len(Leaves(Append(rs, r))) = Len(rs) + 1
  BY <1>2, LeavesOfRows DEF Tree
<1>5. Append(Leaves(rs), r.leaf) \in Seq(Ciphertexts) /\ Len(Append(Leaves(rs), r.leaf)) = Len(rs) + 1
  BY <1>1, <1>3
<1>6. ASSUME NEW i \in 1..(Len(rs) + 1)
      PROVE  Leaves(Append(rs, r))[i] = Append(Leaves(rs), r.leaf)[i]
  <2>1. Leaves(Append(rs, r))[i] = Append(rs, r)[i].leaf
    BY <1>2, LeavesOfRows
  <2>2. CASE i \in 1..Len(rs)
    <3>1. Append(rs, r)[i].leaf = rs[i].leaf
      BY <2>2, AppendKeeps
    <3>2. Append(Leaves(rs), r.leaf)[i] = Leaves(rs)[i]
      BY <1>1, <1>3, <2>2, AppendKeeps
    <3>3. Leaves(rs)[i] = rs[i].leaf
      BY <2>2, LeavesOfRows
    <3>4. QED
      BY <2>1, <3>1, <3>2, <3>3
  <2>3. CASE i = Len(rs) + 1
    <3>1. Append(rs, r)[i] = r
      BY <2>3, AppendKeeps
    <3>2. Append(Leaves(rs), r.leaf)[i] = r.leaf
      BY <1>1, <1>3, <2>3, AppendKeeps
    <3>3. QED
      BY <2>1, <3>1, <3>2
  <2>4. Len(rs) \in Nat /\ (i \in 1..Len(rs) \/ i = Len(rs) + 1)
    OBVIOUS
  <2>5. QED
    BY <2>2, <2>3, <2>4
<1>7. QED
  BY <1>4, <1>5, <1>6, SameEntries

LEMMA KeepStep ==
  ASSUME IInv, [Next]_vars, RowsKept' PROVE Keep!Next \/ UNCHANGED Keep!vars
<1>1. CASE AppendLog
  <2>1. log \in Seq(Row) /\ pending \in Row /\ ~tornTail
    BY <1>1, MishapsStay DEF AppendLog, IInv, TypeOK, MemoryMatchesLog
  <2>2. Leaves(log)' = Append(Leaves(log), pending.leaf)
    BY <1>1, <2>1, AppendedLeaves DEF AppendLog
  <2>3. pending.leaf \in Ciphertexts
    BY <2>1 DEF Row
  <2>4. signed' = signed
    BY <1>1 DEF AppendLog, history
  <2>5. QED
    BY <2>2, <2>3, <2>4 DEF Keep!Next, Keep!Extend
<1>2. CASE ~AppendLog
  <2>1. log' = log
    BY <1>2, LogStep
  <2>2. Leaves(log)' = Leaves(log)
    BY <2>1 DEF Leaves
  <2>3. \A h \in signed' \ signed : h = Leaves(log)
    BY NewHeadsAreTheFile
  <2>4. signed \subseteq signed'
    BY DEF Next, vars, history, Start, BeginPut, WriteRecord, AppendLog, PublishHead,
           RecordFails, AppendFails, PublishFails, Crash, PowerLoss, Mishap
  <2>5. signed' = signed \/ signed' = signed \cup {Leaves(log)}
    BY <2>3, <2>4
  <2>6. QED
    BY <2>2, <2>5 DEF Keep!Next, Keep!Publish, Keep!vars
<1>3. QED
  BY <1>1, <1>2

LEMMA KeepInit == Init => Keep!Init
  BY DEF Init, Keep!Init, Leaves

(* Until a row is lost every step of the store is one of the append-only   *)
(* log: crashes, torn writes and failed heads are invisible to a reader of *)
(* the history.                                                            *)
THEOREM StoreImplementsKeep == Spec => ImplementsKeep
<1>1. IInv /\ [Next]_vars => (RowsKept' => Keep!Next \/ UNCHANGED Keep!vars)
  BY KeepStep
<1>2. QED
  BY <1>1, KeepInit, Invariance, PTL DEF Spec, ImplementsKeep

(* Where no fault can lose a row the store implements the log outright.    *)
THEOREM StoreRefinesKeep == RowsAreKept /\ Spec => Keep!Spec
<1>1. SUFFICES ASSUME RowsAreKept PROVE Spec => Keep!Spec
  OBVIOUS
<1>2. TypeOK => RowsKept
  BY <1>1 DEF TypeOK, RowsAreKept, RowsKept
<1>3. IInv /\ [Next]_vars /\ RowsKept' => [Keep!Next]_(Keep!vars)
  BY KeepStep
<1>4. IInv => RowsKept
  BY <1>2 DEF IInv
<1>5. QED
  BY <1>3, <1>4, KeepInit, Invariance, PTL DEF Spec, Keep!Spec

--------------------------------------------------------------------------
(* What a reader is served: the index of identifiers, and the heads and    *)
(* bodies of an undisturbed node.                                          *)

(* Each row bears the place it stands at. *)
Numbered(rs) == \A i \in 1..Len(rs) : rs[i].index = i - 1

(* The index knows each identifier of the rows, by a row that bears it and *)
(* none of whose followers is preferred to it.                             *)
FirstRows(index, rs) ==
  /\ DOMAIN index = {rs[i].id : i \in 1..Len(rs)}
  /\ \A i \in 1..Len(rs) :
       LET k == index[rs[i].id] + 1
       IN k \in 1..i /\ rs[k].id = rs[i].id

Orderly == "append" \notin mishaps \/ NeverDied

(* Until an append fails the file is numbered as memory is, and a process  *)
(* that never died has not replayed it.                                    *)
IndexIsRight ==
  /\ Numbered(rows) /\ FirstRows(byId, rows)
  /\ pc = "record" => pending.index = Len(rows)
  /\ "append" \notin mishaps =>
       /\ Numbered(log)
       /\ pc # "down" => ~tornTail
       /\ pc \in {"idle", "record", "publish"} => rows = log
       /\ pc = "append" => rows = Append(log, pending)
  /\ NeverDied /\ pc = "down" => log = <<>>

(* A body is whole from before its row is in memory, and a head is of what *)
(* is in memory whenever the lock is free; before the first start there is *)
(* neither a row nor a head.                                               *)
Undisturbed ==
  /\ pc = "down" => log = <<>> /\ headFile = Absent
  /\ \A i \in 1..Len(rows) : recordFiles[rows[i].leaf] = "whole"
  /\ pc \in {"idle", "record"} => headFile = Whole(Leaves(rows))

RInv == /\ TypeOK
        /\ Orderly => IndexIsRight
        /\ mishaps = {} => Undisturbed

(* A set of numbers that is not empty has a least one. *)
LEMMA Least ==
  ASSUME NEW T \in SUBSET Nat, T # {} PROVE \E x \in T : \A y \in T : x <= y
<1> DEFINE R == OpToRel(<, Nat)
<1>1. IsWellFoundedOn(R, Nat)
  BY NatLessThanWellFounded
<1>2. PICK x \in T : \A y \in T : ~ (<<y, x>> \in R)
  <2> HIDE DEF R
  <2>1. QED
    BY <1>1, WFMin
<1>3. \A y \in T : y < x => <<y, x>> \in R
  BY DEF OpToRel
<1>4. \A y \in T : ~(y < x)
  <2> HIDE DEF R
  <2>1. QED
    BY <1>2, <1>3, Zenon
<1>5. \A y \in T : x <= y
  BY <1>4
<1>6. QED
  BY <1>5

(* Replaying numbered rows yields their index. *)
LEMMA ReplayIsRight ==
  ASSUME NEW rs \in Seq(Row), Numbered(rs) PROVE FirstRows(IndexOf(rs), rs)
<1> DEFINE ids == {rs[i].id : i \in 1..Len(rs)}
           IsFirst(x, i) == rs[i].id = x /\ \A j \in 1..(i - 1) : rs[j].id # x
           first(x) == CHOOSE i \in 1..Len(rs) : IsFirst(x, i)
<1>1. IndexOf(rs) = [x \in ids |-> rs[first(x)].index]
  BY DEF IndexOf
<1>2. ASSUME NEW i \in 1..Len(rs)
      PROVE  first(rs[i].id) \in 1..Len(rs) /\ IsFirst(rs[i].id, first(rs[i].id)) /\ first(rs[i].id) <= i
  <2> DEFINE T == {j \in 1..Len(rs) : rs[j].id = rs[i].id}
  <2>1. T \in SUBSET Nat /\ i \in T
    OBVIOUS
  <2>2. PICK j \in T : \A m \in T : j <= m
    <3> HIDE DEF T
    <3>1. QED
      BY <2>1, Least
  <2>3. j \in 1..Len(rs) /\ IsFirst(rs[i].id, j)
    BY <2>2
  <2>4. first(rs[i].id) \in 1..Len(rs) /\ IsFirst(rs[i].id, first(rs[i].id))
    BY <2>3
  <2>5. first(rs[i].id) <= i
    <3> HIDE DEF first
    <3>1. QED
      BY <2>4
  <2>6. QED
    BY <2>4, <2>5
<1>3. ASSUME NEW i \in 1..Len(rs)
      PROVE  LET k == IndexOf(rs)[rs[i].id] + 1 IN k \in 1..i /\ rs[k].id = rs[i].id
  <2>1. PICK f \in 1..Len(rs) : f = first(rs[i].id) /\ rs[f].id = rs[i].id /\ f <= i
    <3>1. first(rs[i].id) \in 1..Len(rs) /\ IsFirst(rs[i].id, first(rs[i].id)) /\ first(rs[i].id) <= i
      BY <1>2
    <3>2. rs[first(rs[i].id)].id = rs[i].id
      BY <3>1
    <3> HIDE DEF first
    <3>3. QED
      BY <3>1, <3>2
  <2>2. IndexOf(rs)[rs[i].id] = f - 1
    <3>1. rs[i].id \in ids
      OBVIOUS
    <3> HIDE DEF first, ids
    <3>2. IndexOf(rs)[rs[i].id] = rs[f].index
      BY <1>1, <2>1, <3>1
    <3>3. QED
      BY <3>2 DEF Numbered
  <2>3. QED
    BY <2>1, <2>2
<1>4. DOMAIN IndexOf(rs) = ids
  BY <1>1
<1>5. QED
  BY <1>3, <1>4 DEF FirstRows

(* A new row changes the index only if its identifier is new. *)
LEMMA AppendIsIndexed ==
  ASSUME NEW rs \in Seq(Row), NEW r \in Row, NEW index, Numbered(rs), FirstRows(index, rs), r.index = Len(rs)
  PROVE  Numbered(Append(rs, r)) /\ FirstRows(SetDefault(index, r.id, r.index), Append(rs, r))
<1> DEFINE all == Append(rs, r)
           now == SetDefault(index, r.id, r.index)
<1>1. /\ Len(rs) \in Nat /\ Len(all) = Len(rs) + 1 /\ all[Len(rs) + 1] = r
      /\ \A i \in 1..Len(rs) : all[i] = rs[i]
  BY AppendKeeps
<1>2. DOMAIN now = DOMAIN index \cup {r.id}
  BY DEF SetDefault
<1>3. \A x \in DOMAIN now : now[x] = IF x \in DOMAIN index THEN index[x] ELSE r.index
  BY DEF SetDefault
<1> HIDE DEF all, now
<1>4. Numbered(all)
  BY <1>1 DEF Numbered
<1>5. DOMAIN now = {all[i].id : i \in 1..Len(all)}
  <2>1. \A i \in 1..Len(all) : all[i].id \in DOMAIN now
    BY <1>1, <1>2 DEF FirstRows
  <2>2. ASSUME NEW x \in DOMAIN now PROVE \E i \in 1..Len(all) : all[i].id = x
    <3>1. CASE x \in DOMAIN index
      <4>1. PICK i \in 1..Len(rs) : rs[i].id = x
        BY <3>1 DEF FirstRows
      <4>2. i \in 1..Len(all) /\ all[i].id = x
        BY <1>1, <4>1
      <4>3. QED
        BY <4>2
    <3>2. CASE x = r.id
      BY <1>1, <3>2
    <3>3. QED
      BY <1>2, <3>1, <3>2
  <2>3. QED
    BY <2>1, <2>2
<1>6. ASSUME NEW i \in 1..Len(all)
      PROVE  LET k == now[all[i].id] + 1 IN k \in 1..i /\ all[k].id = all[i].id
  <2>1. CASE i \in 1..Len(rs)
    <3>1. PICK k \in 1..i : k = index[rs[i].id] + 1 /\ rs[k].id = rs[i].id
      BY <2>1 DEF FirstRows
    <3>2. rs[i].id \in DOMAIN index /\ all[i] = rs[i] /\ k \in 1..Len(rs) /\ all[k] = rs[k]
      BY <1>1, <2>1, <3>1 DEF FirstRows
    <3>3. now[rs[i].id] = index[rs[i].id]
      BY <1>2, <1>3, <3>2
    <3>4. QED
      BY <3>1, <3>2, <3>3
  <2>2. CASE i = Len(rs) + 1 /\ r.id \notin DOMAIN index
    <3>1. now[r.id] = Len(rs)
      BY <1>2, <1>3, <2>2
    <3>2. QED
      BY <1>1, <2>2, <3>1
  <2>3. CASE i = Len(rs) + 1 /\ r.id \in DOMAIN index
    <3>1. now[r.id] = index[r.id]
      BY <1>2, <1>3, <2>3
    <3>2. PICK j \in 1..Len(rs) : rs[j].id = r.id
      BY <2>3 DEF FirstRows
    <3>3. PICK k \in 1..j : k = index[r.id] + 1 /\ rs[k].id = r.id
      BY <3>2 DEF FirstRows
    <3>4. k \in 1..Len(rs) /\ all[k] = rs[k] /\ k \in 1..i
      BY <1>1, <2>3, <3>2, <3>3
    <3>5. QED
      BY <1>1, <2>3, <3>1, <3>3, <3>4
  <2>4. QED
    BY <1>1, <2>1, <2>2, <2>3
<1>7. Numbered(all) /\ FirstRows(now, all)
  BY <1>4, <1>5, <1>6 DEF FirstRows
<1>8. QED
  BY <1>7 DEF all, now

LEMMA NoRowsAreIndexed == ASSUME NEW index, DOMAIN index = {} PROVE Numbered(<<>>) /\ FirstRows(index, <<>>)
  BY DEF Numbered, FirstRows

LEMMA PrefixIsNumbered ==
  ASSUME NEW rs \in Seq(Row), Numbered(rs), NEW n \in 0..Len(rs)
  PROVE  Numbered(SubSeq(rs, 1, n))
<1>1. Len(SubSeq(rs, 1, n)) = n /\ \A i \in 1..n : SubSeq(rs, 1, n)[i] = rs[i]
  OBVIOUS
<1>2. QED
  BY <1>1 DEF Numbered

LEMMA IndexStep == RInv /\ [Next]_vars /\ Orderly' => IndexIsRight'
<1> SUFFICES ASSUME RInv, [Next]_vars, Orderly' PROVE IndexIsRight'
  OBVIOUS
<1>0. TypeOK /\ IndexIsRight /\ rows \in Seq(Row) /\ log \in Seq(Row)
  <2>1. mishaps \subseteq mishaps' /\ (NeverDied' => NeverDied)
    BY MishapsStay
  <2>2. QED
    BY <2>1 DEF RInv, TypeOK, Orderly
<1> USE DEF disk, memory, history
<1>1. CASE Start
  <2>1. Numbered(log)
    <3>1. CASE "append" \notin mishaps
      BY <1>0, <3>1 DEF IndexIsRight
    <3>2. CASE NeverDied
      BY <1>0, <1>1, <3>2 DEF Start, IndexIsRight, Numbered
    <3>3. QED
      BY <1>1, <3>1, <3>2 DEF Start, Orderly, NeverDied
  <2>2. FirstRows(IndexOf(log), log)
    BY <1>0, <2>1, ReplayIsRight
  <2>3. rows' = log /\ byId' = IndexOf(log) /\ pc' = "idle" /\ log' = log /\ tornTail' = tornTail /\ ~tornTail
    BY <1>1 DEF Start
  <2>4. QED
    BY <2>1, <2>2, <2>3 DEF IndexIsRight
<1>2. ASSUME NEW id \in RecordIds, NEW c \in Ciphertexts, BeginPut(id, c)
      PROVE  IndexIsRight'
  BY <1>0, <1>2 DEF BeginPut, IndexIsRight, Numbered, FirstRows
<1>3. CASE WriteRecord
  <2>1. pending \in Row /\ pending.index = Len(rows)
    BY <1>0, <1>3 DEF WriteRecord, TypeOK, IndexIsRight
  <2>2. Numbered(rows') /\ FirstRows(byId', rows')
    BY <1>0, <1>3, <2>1, AppendIsIndexed DEF WriteRecord, IndexIsRight
  <2>3. "append" \notin mishaps' => rows' = Append(log', pending') /\ Numbered(log') /\ ~tornTail'
    BY <1>0, <1>3 DEF WriteRecord, IndexIsRight
  <2>4. pc' = "append"
    BY <1>3 DEF WriteRecord
  <2>5. QED
    BY <2>2, <2>3, <2>4 DEF IndexIsRight
<1>4. CASE AppendLog
  <2>1. Numbered(rows') /\ FirstRows(byId', rows')
    BY <1>0, <1>4 DEF AppendLog, IndexIsRight, Numbered, FirstRows
  <2>2. "append" \notin mishaps' => rows' = log' /\ Numbered(log') /\ ~tornTail'
    BY <1>0, <1>4, <2>1 DEF AppendLog, IndexIsRight
  <2>3. pc' = "publish"
    BY <1>4 DEF AppendLog
  <2>4. QED
    BY <2>1, <2>2, <2>3 DEF IndexIsRight
<1>5. CASE PublishHead \/ RecordFails \/ PublishFails
  <2>1. /\ UNCHANGED <<rows, byId, log, tornTail>> /\ pc' = "idle" /\ pc \in {"record", "publish"}
        /\ ("append" \notin mishaps' => "append" \notin mishaps)
    BY <1>5 DEF PublishHead, RecordFails, PublishFails, Mishap
  <2>2. QED
    BY <1>0, <2>1 DEF IndexIsRight, Numbered, FirstRows
<1>6. CASE AppendFails
  <2>1. UNCHANGED <<rows, byId, log>> /\ pc' = "idle" /\ "append" \in mishaps'
    BY <1>6 DEF AppendFails, Mishap
  <2>2. QED
    BY <1>0, <2>1 DEF IndexIsRight, Numbered, FirstRows
<1>7. CASE Crash \/ PowerLoss
  <2>1. /\ rows' = <<>> /\ byId' = <<>> /\ pc' = "down" /\ ~NeverDied'
        /\ ("append" \notin mishaps' => "append" \notin mishaps)
    BY <1>7 DEF Crash, PowerLoss, Mishap, NeverDied
  <2>2. Numbered(log) => Numbered(log')
    <3>1. CASE log' = log
      BY <3>1 DEF Numbered
    <3>2. CASE PowerLoss
      BY <1>0, <3>2, PrefixIsNumbered DEF PowerLoss
    <3>3. QED
      BY <1>7, <3>1, <3>2 DEF Crash
  <2>3. Numbered(rows') /\ FirstRows(byId', rows')
    BY <2>1, NoRowsAreIndexed, EmptyIndex
  <2>4. QED
    BY <1>0, <2>1, <2>2, <2>3 DEF IndexIsRight
<1>8. CASE UNCHANGED vars
  BY <1>0, <1>8 DEF vars, IndexIsRight, Numbered, FirstRows, NeverDied
<1>9. QED
  BY <1>1, <1>2, <1>3, <1>4, <1>5, <1>6, <1>7, <1>8 DEF Next

LEMMA UndisturbedStep == RInv /\ [Next]_vars /\ mishaps' = {} => Undisturbed'
<1> SUFFICES ASSUME RInv, [Next]_vars, mishaps' = {} PROVE Undisturbed'
  OBVIOUS
<1>0. TypeOK /\ Undisturbed /\ rows \in Seq(Row) /\ mishaps = {}
  <2>1. mishaps \subseteq mishaps'
    BY MishapsStay
  <2>2. QED
    BY <2>1 DEF RInv, TypeOK
<1> USE DEF disk, memory, history
<1>1. CASE Start
  <2>1. /\ rows' = <<>> /\ headFile' = Whole(Leaves(log)) /\ log = <<>> /\ pc' = "idle" /\ log' = log
        /\ recordFiles' = recordFiles
    BY <1>0, <1>1 DEF Start, Undisturbed
  <2>2. QED
    BY <2>1 DEF Undisturbed, Leaves
<1>2. ASSUME NEW id \in RecordIds, NEW c \in Ciphertexts, BeginPut(id, c)
      PROVE  Undisturbed'
  BY <1>0, <1>2 DEF BeginPut, Undisturbed, Leaves
<1>3. CASE WriteRecord
  <2>1. pending \in Row /\ pending.leaf \in Ciphertexts
    BY <1>0, <1>3 DEF WriteRecord, TypeOK, Row
  <2>2. /\ Len(rows') = Len(rows) + 1 /\ rows'[Len(rows) + 1] = pending
        /\ \A i \in 1..Len(rows) : rows'[i] = rows[i]
    BY <1>0, <1>3, <2>1, AppendKeeps DEF WriteRecord
  <2>3. \A i \in 1..Len(rows) : recordFiles[rows[i].leaf] = "whole" /\ rows[i].leaf \in Ciphertexts
    <3>1. \A i \in 1..Len(rows) : rows[i] \in Row
      BY <1>0
    <3>2. QED
      BY <1>0, <3>1 DEF Undisturbed, Row
  <2>4. /\ recordFiles'[pending.leaf] = "whole"
        /\ \A c \in Ciphertexts : recordFiles[c] = "whole" => recordFiles'[c] = "whole"
    BY <1>0, <1>3, <2>1 DEF WriteRecord, TypeOK
  <2>5. \A i \in 1..Len(rows') : recordFiles'[rows'[i].leaf] = "whole"
    <3>1. Len(rows) \in Nat
      BY <1>0
    <3>2. QED
      BY <2>2, <2>3, <2>4, <3>1
  <2>6. QED
    BY <1>3, <2>5 DEF WriteRecord, Undisturbed
<1>4. CASE AppendLog
  BY <1>0, <1>4 DEF AppendLog, Undisturbed
<1>5. CASE PublishHead
  BY <1>0, <1>5 DEF PublishHead, Undisturbed, Leaves
<1>6. CASE RecordFails \/ AppendFails \/ PublishFails \/ Crash \/ PowerLoss
  BY <1>6 DEF RecordFails, AppendFails, PublishFails, Crash, PowerLoss, Mishap
<1>7. CASE UNCHANGED vars
  BY <1>0, <1>7 DEF vars, Undisturbed, Leaves
<1>8. QED
  BY <1>1, <1>2, <1>3, <1>4, <1>5, <1>6, <1>7 DEF Next

LEMMA ReadersInvariance == Spec => []RInv
<1>1. Init => TypeOK
  <2>1. <<>> \in Seq(Row)
    OBVIOUS
  <2>2. QED
    BY <2>1, HeadFiles, EmptyIndex DEF Init, TypeOK
<1>2. Init => IndexIsRight /\ Undisturbed
  <2>1. Init => Numbered(rows) /\ FirstRows(byId, rows) /\ Numbered(log)
    BY NoRowsAreIndexed, EmptyIndex DEF Init
  <2>2. QED
    BY <2>1 DEF Init, IndexIsRight, Undisturbed
<1>3. RInv /\ [Next]_vars => RInv'
  BY TypeStep, IndexStep, UndisturbedStep DEF RInv
<1>4. QED
  BY <1>1, <1>2, <1>3, PTL DEF Spec, RInv

(* An identifier stands for its first record, whatever was stored under it *)
(* since and however often the node was restarted, even without rows that  *)
(* a power loss took, unless one replayed a log in which a row is missing; *)
(* and a node that nothing befell passes the client's checks (get,         *)
(* get_by_record_id and head of MemoryStore).                              *)
THEOREM ReadersAlwaysServed == Spec => []ReadersAreServed
<1>1. RInv => LookupIsFirst
  BY DEF RInv, Orderly, IndexIsRight, FirstRows, LookupIsFirst
<1>2. RInv => ServesVerifiably
  <2>1. SUFFICES ASSUME RInv, pc = "idle", mishaps = {}, NEW i \in 1..Len(rows)
                 PROVE  ClientAccepts(Get(i))
    BY DEF ServesVerifiably
  <2>2. recordFiles[rows[i].leaf] = "whole" /\ headFile.tree = Leaves(rows)
    BY <2>1 DEF RInv, Undisturbed, Whole
  <2>3. QED
    BY <2>2 DEF ClientAccepts, Get
<1>3. QED
  BY <1>1, <1>2, ReadersInvariance, PTL DEF ReadersAreServed

--------------------------------------------------------------------------
(* The Merkle log. Nothing here is by induction over data: what goes on     *)
(* from one number to the next holds up to any number.                      *)
LEMMA Upwards ==
  ASSUME NEW a \in Nat, NEW b \in Nat, NEW T, a \in T,
         \A k \in a .. b : k \in T /\ k + 1 <= b => k + 1 \in T
  PROVE  \A k \in a .. b : k \in T
<1> DEFINE Rest == {k \in a .. b : k \notin T}
<1>1. SUFFICES ASSUME Rest # {} PROVE FALSE
  OBVIOUS
<1>2. Rest \in SUBSET Nat
  OBVIOUS
<1>3. PICK k \in Rest : \A j \in Rest : k <= j
  <2> HIDE DEF Rest
  <2> QED BY <1>1, <1>2, Least
<1>4. k # a /\ k - 1 \in a .. b /\ k - 1 \notin Rest
  BY <1>3
<1>5. k - 1 \in T
  BY <1>4
<1>6. (k - 1) + 1 = k /\ k <= b
  BY <1>3
<1> QED BY <1>3, <1>4, <1>5, <1>6

(* A function made over the first n numbers is a sequence of length n.      *)
IsSeq(s) == s \in Seq(ToSet(s))

LEMMA MadeSeq ==
  ASSUME NEW n \in Nat, NEW s, s = [j \in 1 .. n |-> s[j]]
  PROVE  IsSeq(s) /\ Len(s) = n
<1>1. s \in [1 .. n -> ToSet(s)]
  BY DEF ToSet
<1>2. s \in Seq(ToSet(s))
  BY <1>1
<1>3. DOMAIN s = 1 .. n
  BY <1>1
<1> QED BY <1>2, <1>3 DEF IsSeq

LEMMA SeqFacts ==
  ASSUME NEW s, IsSeq(s)
  PROVE  Len(s) \in Nat /\ DOMAIN s = 1 .. Len(s) /\ s = [j \in 1 .. Len(s) |-> s[j]]
BY DEF IsSeq

--------------------------------------------------------------------------
(* A level is made of the one below it, and what is kept of an older level   *)
(* is what would be made again.                                              *)
IsAbove(upper, lower) ==
  /\ Len(upper) = (Len(lower) + 1) \div 2
  /\ \A j \in 1 .. Len(upper) : upper[j] = Parent(lower, j)

IsTree(lv) ==
  /\ IsSeq(lv) /\ Len(lv) >= 1
  /\ \A i \in 1 .. Len(lv) : IsSeq(lv[i])
  /\ \A i \in 1 .. Len(lv) : i < Len(lv) => Len(lv[i]) > 1 /\ IsAbove(lv[i + 1], lv[i])
  /\ Len(lv[Len(lv)]) <= 1

(* Of the levels below there are n, built on the leaves.                      *)
AreLevels(lv, leaves, known, n) ==
  lv = [i \in 1 .. n |->
          IF i = 1 THEN leaves
          ELSE Repaired(lv[i - 1], IF i <= Len(known) THEN known[i] ELSE <<>>)]

LEMMA LevelsExist ==
  ASSUME NEW leaves, NEW known, NEW n \in Nat
  PROVE  \E lv : AreLevels(lv, leaves, known, n)
<1> DEFINE T == {k \in Nat : \E lv : AreLevels(lv, leaves, known, k)}
<1>1. 0 \in T
  <2>1. AreLevels([i \in 1 .. 0 |-> leaves], leaves, known, 0)
    BY DEF AreLevels
  <2> QED BY <2>1
<1>2. ASSUME NEW k \in 0 .. n, k \in T PROVE k + 1 \in T
  <2>1. PICK lv : AreLevels(lv, leaves, known, k)
    BY <1>2
  <2> DEFINE next == Repaired(lv[k], IF k + 1 <= Len(known) THEN known[k + 1] ELSE <<>>)
             more == [i \in 1 .. k + 1 |-> IF i = k + 1 THEN IF i = 1 THEN leaves ELSE next ELSE lv[i]]
  <2>2. \A i \in 1 .. k + 1 :
          more[i] = IF i = 1 THEN leaves
                    ELSE Repaired(more[i - 1], IF i <= Len(known) THEN known[i] ELSE <<>>)
    <3> SUFFICES ASSUME NEW i \in 1 .. k + 1
                 PROVE  more[i] = IF i = 1 THEN leaves
                                  ELSE Repaired(more[i - 1], IF i <= Len(known) THEN known[i] ELSE <<>>)
      OBVIOUS
    <3>1. CASE i = k + 1
      BY <3>1
    <3>2. CASE i # k + 1
      <4>1. i \in 1 .. k /\ (i # 1 => i - 1 \in 1 .. k)
        BY <3>2
      <4>2. lv[i] = IF i = 1 THEN leaves
                    ELSE Repaired(lv[i - 1], IF i <= Len(known) THEN known[i] ELSE <<>>)
        BY <2>1, <4>1 DEF AreLevels
      <4>3. more[i] = lv[i] /\ (i # 1 => more[i - 1] = lv[i - 1])
        BY <4>1
      <4> HIDE DEF more
      <4> QED BY <4>2, <4>3
    <3> QED BY <3>1, <3>2
  <2>3. more = [i \in 1 .. k + 1 |-> more[i]]
    OBVIOUS
  <2>4. AreLevels(more, leaves, known, k + 1)
    <3> HIDE DEF more
    <3> QED BY <2>2, <2>3 DEF AreLevels
  <2> QED BY <2>4
<1>3. n \in T
  <2> HIDE DEF T
  <2> QED BY <1>1, <1>2, Upwards
<1> QED BY <1>3

(* What is looked at of a tree: its leaves, or what an append leaves of it.   *)
LEMMA RepairedIsAbove ==
  ASSUME NEW lower, IsSeq(lower), NEW was, NEW kept, IsSeq(kept),
         \/ kept = <<>>
         \/ /\ IsSeq(was) /\ IsAbove(kept, was)
            /\ Len(lower) \in {Len(was), Len(was) + 1}
            /\ \A j \in 1 .. Len(lower) : j < Len(lower) => lower[j] = was[j]
  PROVE  /\ IsSeq(Repaired(lower, kept))
         /\ IsAbove(Repaired(lower, kept), lower)
<1> DEFINE want == (Len(lower) + 1) \div 2
           up == Repaired(lower, kept)
<1>1. Len(lower) \in Nat /\ Len(kept) \in Nat /\ want \in Nat
  BY SeqFacts
<1>2. up = [j \in 1 .. want |-> IF j < want /\ j <= Len(kept) THEN kept[j] ELSE Parent(lower, j)]
  BY DEF Repaired
<1>3. IsSeq(up) /\ Len(up) = want
  <2> HIDE DEF want, up
  <2>1. up = [j \in 1 .. want |-> up[j]]
    BY <1>2
  <2> QED BY <1>1, <2>1, MadeSeq
<1>4. ASSUME NEW j \in 1 .. want, j < want, j <= Len(kept)
      PROVE  kept[j] = Parent(lower, j)
  <2>1. kept # <<>>
    BY <1>4
  <2>2. /\ IsSeq(was) /\ IsAbove(kept, was)
        /\ Len(lower) \in {Len(was), Len(was) + 1}
        /\ \A i \in 1 .. Len(lower) : i < Len(lower) => lower[i] = was[i]
    BY <2>1
  <2>3. kept[j] = Parent(was, j)
    BY <1>1, <1>4, <2>2 DEF IsAbove
  <2>4. Len(was) \in Nat
    BY <2>2, SeqFacts
  <2>5. 2 * j < Len(lower) /\ 2 * j <= Len(was)
    BY <1>1, <1>4, <2>2, <2>4
  <2>6. 2 * j \in 1 .. Len(lower) /\ 2 * j - 1 \in 1 .. Len(lower) /\ 2 * j - 1 < Len(lower)
    BY <1>1, <1>4, <2>5
  <2>7. lower[2 * j] = was[2 * j] /\ lower[2 * j - 1] = was[2 * j - 1]
    BY <2>2, <2>5, <2>6
  <2> QED BY <1>1, <2>3, <2>5, <2>7 DEF Parent
<1>5. \A j \in 1 .. want : up[j] = Parent(lower, j)
  <2> HIDE DEF want, up
  <2> QED BY <1>2, <1>4
<1> HIDE DEF up
<1> QED BY <1>3, <1>5 DEF IsAbove, up

LEMMA HalvesOfNext ==
  ASSUME NEW x \in Nat, NEW y \in Nat, x \in {y, y + 1}
  PROVE  (x + 1) \div 2 \in {(y + 1) \div 2, (y + 1) \div 2 + 1}
OBVIOUS

LEMMA LevelsMakeATree ==
  ASSUME NEW leaves, IsSeq(leaves), NEW known,
         \/ known = <<>>
         \/ /\ IsTree(known)
            /\ Len(leaves) = Len(known[1]) + 1
            /\ \A j \in 1 .. Len(known[1]) : leaves[j] = known[1][j]
  PROVE  IsTree(LevelsOver(leaves, known)) /\ LevelsOver(leaves, known)[1] = leaves
<1> DEFINE n == Len(leaves) + 1
           lv == CHOOSE f : AreLevels(f, leaves, known, n)
           kept(i) == IF i <= Len(known) THEN known[i] ELSE <<>>
           Found(i) == Len(lv[i]) <= 1 /\ \A j \in 1 .. i - 1 : Len(lv[j]) > 1
           top == CHOOSE i \in DOMAIN lv : Found(i)
           tree == [i \in 1 .. top |-> lv[i]]
<1>1. n \in Nat /\ n >= 1 /\ Len(known) \in Nat /\ Len(leaves) \in Nat
  <2>1. IsSeq(<<>>)
    BY DEF IsSeq, ToSet
  <2>2. IsSeq(known)
    BY <2>1 DEF IsTree
  <2> QED BY <2>2, SeqFacts
<1>2. AreLevels(lv, leaves, known, n)
  <2> HIDE DEF n
  <2> QED BY <1>1, LevelsExist
<1>3. LevelsOver(leaves, known) = tree
  BY DEF LevelsOver, AreLevels
<1> HIDE DEF lv
<1>4. /\ DOMAIN lv = 1 .. n /\ lv[1] = leaves
      /\ \A i \in 1 .. n : i < n => lv[i + 1] = Repaired(lv[i], kept(i + 1))
  <2> HIDE DEF n
  <2> QED BY <1>1, <1>2 DEF AreLevels
<1> DEFINE Fits(i) ==
             /\ IsSeq(lv[i])
             /\ i <= Len(known) =>
                  /\ Len(lv[i]) \in {Len(known[i]), Len(known[i]) + 1}
                  /\ \A j \in 1 .. Len(lv[i]) : j < Len(lv[i]) => lv[i][j] = known[i][j]
<1>5. \A i \in 1 .. Len(known) : /\ IsSeq(known[i]) /\ Len(known[i]) \in Nat
                                 /\ i < Len(known) => IsAbove(known[i + 1], known[i])
  BY SeqFacts, <1>1 DEF IsTree
<1>6. Fits(1)
  <2>1. CASE known = <<>>
    BY <1>4, <2>1
  <2>2. CASE known # <<>>
    <3>1. 1 \in 1 .. Len(known) /\ Len(known[1]) \in Nat
      BY <1>1, <1>5, <2>2 DEF IsTree
    <3> QED BY <1>4, <2>2, <3>1
  <2> QED BY <2>1, <2>2
<1>7. ASSUME NEW i \in 1 .. n, i < n, Fits(i)
      PROVE  Fits(i + 1) /\ IsAbove(lv[i + 1], lv[i])
  <2> DEFINE was == IF i <= Len(known) THEN known[i] ELSE <<>>
  <2>1. i + 1 <= Len(known) => i \in 1 .. Len(known) /\ i + 1 \in 1 .. Len(known) /\ i < Len(known)
    BY <1>1
  <2>2. IsSeq(kept(i + 1))
    <3>1. IsSeq(<<>>)
      BY DEF IsSeq, ToSet
    <3> QED BY <1>5, <2>1, <3>1
  <2>3. kept(i + 1) # <<>> => i + 1 <= Len(known)
    OBVIOUS
  <2>4. i + 1 <= Len(known) =>
          /\ IsSeq(known[i]) /\ IsAbove(known[i + 1], known[i])
          /\ Len(lv[i]) \in {Len(known[i]), Len(known[i]) + 1}
          /\ \A j \in 1 .. Len(lv[i]) : j < Len(lv[i]) => lv[i][j] = known[i][j]
    BY <1>5, <1>7, <2>1
  <2>5. IsSeq(lv[i + 1]) /\ IsAbove(lv[i + 1], lv[i])
    <3>1. lv[i + 1] = Repaired(lv[i], kept(i + 1)) /\ IsSeq(lv[i])
      BY <1>4, <1>7
    <3>2. CASE i + 1 <= Len(known)
      <4>1. kept(i + 1) = known[i + 1]
        BY <3>2
      <4> HIDE DEF kept
      <4> QED BY <2>2, <2>4, <3>1, <3>2, <4>1, RepairedIsAbove
    <3>3. CASE ~(i + 1 <= Len(known))
      <4>1. kept(i + 1) = <<>>
        BY <3>3
      <4> HIDE DEF kept
      <4> QED BY <2>2, <3>1, <4>1, RepairedIsAbove
    <3> QED BY <3>2, <3>3
  <2>6. ASSUME i + 1 <= Len(known)
        PROVE  /\ Len(lv[i + 1]) \in {Len(known[i + 1]), Len(known[i + 1]) + 1}
               /\ \A j \in 1 .. Len(lv[i + 1]) : j < Len(lv[i + 1]) => lv[i + 1][j] = known[i + 1][j]
    <3>1. /\ Len(lv[i + 1]) = (Len(lv[i]) + 1) \div 2
          /\ Len(known[i + 1]) = (Len(known[i]) + 1) \div 2
      BY <2>4, <2>5, <2>6 DEF IsAbove
    <3>2. Len(known[i]) \in Nat /\ Len(known[i + 1]) \in Nat
      BY <1>5, <2>1, <2>6
    <3>3. Len(lv[i + 1]) \in {Len(known[i + 1]), Len(known[i + 1]) + 1}
      <4>1. Len(lv[i]) \in {Len(known[i]), Len(known[i]) + 1} /\ Len(lv[i]) \in Nat
        BY <2>4, <2>6, <3>2
      <4>2. (Len(lv[i]) + 1) \div 2 \in {(Len(known[i]) + 1) \div 2, (Len(known[i]) + 1) \div 2 + 1}
        BY <3>2, <4>1, HalvesOfNext
      <4> QED BY <3>1, <4>2
    <3>4. lv[i + 1] = [j \in 1 .. Len(lv[i + 1]) |->
                         IF j < Len(lv[i + 1]) /\ j <= Len(known[i + 1])
                           THEN known[i + 1][j] ELSE Parent(lv[i], j)]
      <4>1. lv[i + 1] = Repaired(lv[i], known[i + 1])
        <5>1. kept(i + 1) = known[i + 1]
          BY <2>6
        <5> HIDE DEF kept
        <5> QED BY <1>4, <1>7, <5>1
      <4> QED BY <3>1, <4>1 DEF Repaired
    <3>5. ASSUME NEW j \in 1 .. Len(lv[i + 1]), j < Len(lv[i + 1])
          PROVE  lv[i + 1][j] = known[i + 1][j]
      <4>1. j <= Len(known[i + 1])
        BY <3>2, <3>3, <3>5
      <4> QED BY <3>4, <3>5, <4>1
    <3> QED BY <3>3, <3>5
  <2> QED BY <2>5, <2>6
<1>8. \A i \in 1 .. n : Fits(i)
  <2> DEFINE T == {i \in 1 .. n : Fits(i)}
  <2> HIDE DEF Fits
  <2>1. 1 \in T
    BY <1>1, <1>6
  <2>2. \A i \in 1 .. n : i \in T /\ i + 1 <= n => i + 1 \in T
    BY <1>1, <1>7
  <2>3. \A i \in 1 .. n : i \in T
    <3> HIDE DEF T
    <3> QED BY <1>1, <2>1, <2>2, Upwards
  <2> QED BY <2>3
<1>9. \A i \in 1 .. n : IsSeq(lv[i]) /\ Len(lv[i]) \in Nat /\ (i < n => IsAbove(lv[i + 1], lv[i]))
  <2>1. \A i \in 1 .. n : IsSeq(lv[i])
    BY <1>8
  <2> HIDE DEF Fits
  <2> QED BY <1>7, <1>8, <2>1, SeqFacts
<1> HIDE DEF Fits
<1>10. \A i \in 1 .. n : Len(lv[i]) <= IF i < n THEN n - i ELSE 1
  <2> DEFINE T == {i \in 1 .. n : Len(lv[i]) <= (IF n - i > 1 THEN n - i ELSE 1)}
  <2>1. 1 \in T
    BY <1>1, <1>4
  <2>2. ASSUME NEW i \in 1 .. n, i \in T, i + 1 <= n PROVE i + 1 \in T
    <3>1. Len(lv[i + 1]) = (Len(lv[i]) + 1) \div 2 /\ Len(lv[i]) \in Nat /\ i < n
      <4> HIDE DEF n
      <4>1. i < n
        BY <1>1, <2>2
      <4>2. IsAbove(lv[i + 1], lv[i]) /\ Len(lv[i]) \in Nat
        BY <1>9, <4>1
      <4> QED BY <4>1, <4>2 DEF IsAbove
    <3>2. Len(lv[i]) <= IF n - i > 1 THEN n - i ELSE 1
      BY <2>2
    <3> DEFINE m == Len(lv[i])
               more == Len(lv[i + 1])
    <3>3. more = (m + 1) \div 2 /\ m \in Nat /\ m <= (IF n - i > 1 THEN n - i ELSE 1)
      BY <3>1, <3>2
    <3> HIDE DEF m, more, n
    <3>4. more <= IF n - (i + 1) > 1 THEN n - (i + 1) ELSE 1
      BY <1>1, <2>2, <3>3
    <3> QED BY <1>1, <2>2, <3>4 DEF more
  <2>3. \A i \in 1 .. n : i \in T
    <3> HIDE DEF T
    <3> QED BY <1>1, <2>1, <2>2, Upwards
  <2> QED BY <1>1, <1>9, <2>3
<1>11. \E i \in 1 .. n : Found(i)
  <2> DEFINE T == {i \in 1 .. n : Len(lv[i]) <= 1}
  <2>1. T \in SUBSET Nat /\ n \in T
    BY <1>1, <1>10
  <2>2. PICK i \in T : \A j \in T : i <= j
    <3> HIDE DEF T
    <3> QED BY <2>1, Least
  <2>3. \A j \in 1 .. i - 1 : Len(lv[j]) > 1
    BY <1>1, <1>9, <2>2
  <2> QED BY <2>2, <2>3
<1>12. top \in 1 .. n /\ Found(top)
  <2> HIDE DEF Found, n
  <2> QED BY <1>4, <1>11
<1> HIDE DEF top, n
<1>13. /\ Len(lv[top]) <= 1 /\ \A j \in 1 .. top : j < top => Len(lv[j]) > 1
       /\ top \in Nat /\ top >= 1
  BY <1>1, <1>12
<1>14. /\ IsSeq(tree) /\ Len(tree) = top
       /\ \A i \in 1 .. top : tree[i] = lv[i]
  <2>1. \A i \in 1 .. top : tree[i] = lv[i]
    OBVIOUS
  <2>2. tree = [i \in 1 .. top |-> tree[i]]
    OBVIOUS
  <2> HIDE DEF tree
  <2> QED BY <1>13, <2>1, <2>2, MadeSeq
<1> HIDE DEF tree
<1>15. \A i \in 1 .. top : i \in 1 .. n /\ (i < top => i < n /\ i + 1 \in 1 .. top)
  BY <1>1, <1>12
<1>16. IsTree(tree)
  BY <1>9, <1>13, <1>14, <1>15 DEF IsTree
<1> QED BY <1>3, <1>4, <1>13, <1>14, <1>16

--------------------------------------------------------------------------
(* From a node to the one above it.                                          *)
LEMMA HigherLevel ==
  ASSUME NEW tr, IsTree(tr), NEW i \in 1 .. Len(tr), NEW y \in Nat, Len(tr[i]) = y + 1, y > 0
  PROVE  /\ i < Len(tr) /\ i + 1 \in 1 .. Len(tr)
         /\ Len(tr[i + 1]) = y \div 2 + 1
         /\ \A j \in 1 .. y \div 2 + 1 : tr[i + 1][j] = Parent(tr[i], j)
<1>1. Len(tr) \in Nat
  BY SeqFacts DEF IsTree
<1>2. i < Len(tr)
  BY <1>1 DEF IsTree
<1>3. IsAbove(tr[i + 1], tr[i])
  BY <1>2 DEF IsTree
<1>4. (y + 1 + 1) \div 2 = y \div 2 + 1
  OBVIOUS
<1> QED BY <1>1, <1>2, <1>3, <1>4 DEF IsAbove

LEMMA NodesAreOneToOne ==
  ASSUME NEW a, NEW b, NEW c, NEW d, Node(a, b) = Node(c, d) PROVE a = c /\ b = d
BY DEF Node

--------------------------------------------------------------------------
(* The verifiers skip the levels on which the last node is promoted alone:    *)
(* it is the same node on all of them.                                       *)
IsStrip(s, a, b) ==
  s = [p \in (0 .. a) \X (0 .. b) |-> IF p[1] = 0 \/ Odd(p[1]) THEN p ELSE s[Up(p)]]

LEMMA StripExists ==
  ASSUME NEW a \in Nat, NEW b \in Nat PROVE \E s : IsStrip(s, a, b)
<1> DEFINE T == {k \in Nat : \E s : IsStrip(s, k, b)}
<1>1. 0 \in T
  <2> DEFINE s == [p \in (0 .. 0) \X (0 .. b) |-> p]
  <2>1. \A p \in (0 .. 0) \X (0 .. b) : p[1] = 0
    OBVIOUS
  <2>2. IsStrip(s, 0, b)
    BY <2>1 DEF IsStrip
  <2> QED BY <2>2
<1>2. ASSUME NEW k \in 0 .. a, k \in T PROVE k + 1 \in T
  <2>1. PICK s : IsStrip(s, k, b)
    BY <1>2
  <2> DEFINE D == (0 .. k) \X (0 .. b)
             E == (0 .. k + 1) \X (0 .. b)
             more == [p \in E |-> IF p[1] = k + 1 /\ ~Odd(k + 1) THEN s[Up(p)]
                                  ELSE IF p[1] = k + 1 THEN p ELSE s[p]]
  <2>2. \A p \in E : p[1] \in 0 .. k + 1 /\ (p[1] # k + 1 => p \in D)
    OBVIOUS
  <2>3. \A p \in E : p[1] # 0 => Up(p) \in D
    BY DEF Up
  <2>4. \A p \in D : p \in E /\ p[1] # k + 1 /\ s[p] = IF p[1] = 0 \/ Odd(p[1]) THEN p ELSE s[Up(p)]
    BY <2>1 DEF IsStrip
  <2>5. \A p \in D : more[p] = s[p]
    BY <2>4
  <2>6. \A p \in E : more[p] = IF p[1] = 0 \/ Odd(p[1]) THEN p ELSE more[Up(p)]
    <3> SUFFICES ASSUME NEW p \in E
                 PROVE  more[p] = IF p[1] = 0 \/ Odd(p[1]) THEN p ELSE more[Up(p)]
      OBVIOUS
    <3>1. p[1] # 0 => Up(p) \in D
      BY <2>3
    <3>2. p[1] # 0 => more[Up(p)] = s[Up(p)]
      <4> HIDE DEF D, E, more
      <4> QED BY <2>5, <3>1
    <3>3. CASE p[1] = k + 1
      <4>1. p[1] # 0
        BY <3>3
      <4>2. more[p] = IF ~Odd(k + 1) THEN s[Up(p)] ELSE p
        BY <3>3
      <4> HIDE DEF D, E, more
      <4> QED BY <3>2, <3>3, <4>1, <4>2
    <3>4. CASE p[1] # k + 1
      <4>1. p \in D
        BY <2>2, <3>4
      <4> HIDE DEF D, E, more
      <4> QED BY <2>4, <2>5, <3>2, <4>1
    <3> QED BY <3>3, <3>4
  <2>7. more = [p \in E |-> more[p]]
    OBVIOUS
  <2>8. IsStrip(more, k + 1, b)
    <3> HIDE DEF more
    <3> QED BY <2>6, <2>7 DEF IsStrip
  <2> QED BY <2>8
<1>3. a \in T
  <2> HIDE DEF T
  <2> QED BY <1>1, <1>2, Upwards
<1> QED BY <1>3

LEMMA StrippedByOne ==
  ASSUME NEW a \in Nat, NEW b \in Nat
  PROVE  \E s : IsStrip(s, a, b) /\ Stripped(<<a, b>>) = s[<<a, b>>]
<1> DEFINE s == CHOOSE f : IsStrip(f, a, b)
<1>1. IsStrip(s, a, b)
  BY StripExists
<1>2. Stripped(<<a, b>>) = s[<<a, b>>]
  BY DEF Stripped, IsStrip
<1> HIDE DEF s
<1> QED BY <1>1, <1>2

AtLast(tr, i, x) == IsTree(tr) /\ i \in 1 .. Len(tr) /\ Len(tr[i]) = x + 1

LEMMA HigherLast ==
  ASSUME NEW tr, NEW i, NEW y \in Nat, AtLast(tr, i, y), y > 0
  PROVE  AtLast(tr, i + 1, y \div 2) /\ y \div 2 \in Nat /\ i + 1 \in Nat
<1>1. IsTree(tr) /\ i \in 1 .. Len(tr) /\ Len(tr[i]) = y + 1
  BY DEF AtLast
<1>2. i + 1 \in 1 .. Len(tr) /\ Len(tr[i + 1]) = y \div 2 + 1
  BY <1>1, HigherLevel
<1>3. y \div 2 \in Nat
  OBVIOUS
<1> QED BY <1>1, <1>2, <1>3 DEF AtLast

(* The node over the x-th, counted from zero, of which y is the last.        *)
OverNode(tr, i, x, y) ==
  LET over == tr[i + 1][x \div 2 + 1]
  IN  /\ Odd(x) => over = Node(tr[i][x], tr[i][x + 1])
      /\ ~Odd(x) /\ x < y => over = Node(tr[i][x + 1], tr[i][x + 2])
      /\ ~Odd(x) /\ x = y => over = tr[i][x + 1]

LEMMA NodeAboveLast ==
  ASSUME NEW tr, NEW i, NEW x \in Nat, NEW y \in Nat, AtLast(tr, i, y), y > 0, x <= y
  PROVE  OverNode(tr, i, x, y)
<1> DEFINE j == x \div 2 + 1
<1>0. IsTree(tr) /\ i \in 1 .. Len(tr) /\ Len(tr[i]) = y + 1
  BY DEF AtLast
<1>1. /\ x \div 2 <= y \div 2 /\ x \div 2 \in Nat /\ y \div 2 \in Nat
      /\ Odd(x) => 2 * j = x + 1
      /\ ~Odd(x) => 2 * j = x + 2
      /\ j \in 1 .. y \div 2 + 1
  BY DEF Odd
<1>2. \A k \in 1 .. y \div 2 + 1 : tr[i + 1][k] = Parent(tr[i], k)
  BY <1>0, HigherLevel
<1>3. tr[i + 1][j] = Parent(tr[i], j)
  BY <1>1, <1>2
<1> HIDE DEF j
<1>4. Odd(x) => 2 * j <= Len(tr[i]) /\ 2 * j - 1 = x
  BY <1>0, <1>1
<1>5. ~Odd(x) /\ x < y => 2 * j <= Len(tr[i]) /\ 2 * j - 1 = x + 1
  BY <1>0, <1>1
<1>6. ~Odd(x) /\ x = y => ~(2 * j <= Len(tr[i])) /\ 2 * j - 1 = x + 1
  BY <1>0, <1>1
<1>7. /\ Odd(x) => tr[i + 1][j] = Node(tr[i][x], tr[i][x + 1])
      /\ ~Odd(x) /\ x < y => tr[i + 1][j] = Node(tr[i][x + 1], tr[i][x + 2])
      /\ ~Odd(x) /\ x = y => tr[i + 1][j] = tr[i][x + 1]
  BY <1>1, <1>3, <1>4, <1>5, <1>6 DEF Parent
<1> QED BY <1>7 DEF OverNode, j

LEMMA OddNode ==
  ASSUME NEW tr, NEW i, NEW x \in Nat, NEW y \in Nat, AtLast(tr, i, y), x <= y, Odd(x)
  PROVE  tr[i + 1][x \div 2 + 1] = Node(tr[i][x], tr[i][x + 1])
<1>1. y > 0
  BY DEF Odd
<1>2. OverNode(tr, i, x, y)
  BY <1>1, NodeAboveLast
<1> QED BY <1>2 DEF OverNode

LEMMA EvenNode ==
  ASSUME NEW tr, NEW i, NEW x \in Nat, NEW y \in Nat, AtLast(tr, i, y), x < y, ~Odd(x)
  PROVE  tr[i + 1][x \div 2 + 1] = Node(tr[i][x + 1], tr[i][x + 2])
<1>1. y > 0 /\ x <= y
  OBVIOUS
<1>2. OverNode(tr, i, x, y)
  BY <1>1, NodeAboveLast
<1> QED BY <1>2 DEF OverNode

LEMMA PromotedAbove ==
  ASSUME NEW tr, NEW i, NEW y \in Nat, AtLast(tr, i, y), y > 0, ~Odd(y)
  PROVE  tr[i + 1][y \div 2 + 1] = tr[i][y + 1]
<1>1. y <= y
  OBVIOUS
<1>2. OverNode(tr, i, y, y)
  BY <1>1, NodeAboveLast
<1> QED BY <1>2 DEF OverNode

(* The last node of a level of x + 1 is, k levels higher, the last of y + 1.  *)
SameNode(x, y, k) ==
  \A tr, i : AtLast(tr, i, x) => AtLast(tr, i + k, y) /\ tr[i + k][y + 1] = tr[i][x + 1]

(* Two trees that agree left of that node there agree left of it here.       *)
AgreeTo(tr, tr2, i, n) == \A j \in 1 .. n : tr[i][j] = tr2[i][j]

SameLeft(x, y, k) ==
  \A tr, tr2, i :
    AtLast(tr, i, x) /\ AtLast(tr2, i, x) /\ AgreeTo(tr, tr2, i + k, y) => AgreeTo(tr, tr2, i, x)

(* Equal nodes have equal children: an agreement on one level goes down one.  *)
LEMMA ChildrenAgree ==
  ASSUME NEW tr, NEW tr2, NEW i, NEW y \in Nat, NEW z \in Nat,
         AtLast(tr, i, y), AtLast(tr2, i, z), y > 0, z > 0,
         NEW x \in Nat, x <= y + 1, x <= z + 1,
         AgreeTo(tr, tr2, i + 1, x \div 2)
  PROVE  AgreeTo(tr, tr2, i, 2 * (x \div 2))
<1> SUFFICES ASSUME NEW j \in 1 .. 2 * (x \div 2) PROVE tr[i][j] = tr2[i][j]
  BY DEF AgreeTo
<1> DEFINE q == (j + 1) \div 2
<1>1. /\ q \in 1 .. x \div 2 /\ q \in 1 .. y \div 2 + 1 /\ q \in 1 .. z \div 2 + 1
      /\ 2 * q <= y + 1 /\ 2 * q <= z + 1
      /\ j = 2 * q - 1 \/ j = 2 * q
  OBVIOUS
<1> HIDE DEF q
<1>2. tr[i + 1][q] = Parent(tr[i], q) /\ tr2[i + 1][q] = Parent(tr2[i], q)
  BY <1>1, HigherLevel DEF AtLast
<1>3. tr[i + 1][q] = Node(tr[i][2 * q - 1], tr[i][2 * q])
  BY <1>1, <1>2 DEF Parent, AtLast
<1>4. tr2[i + 1][q] = Node(tr2[i][2 * q - 1], tr2[i][2 * q])
  BY <1>1, <1>2 DEF Parent, AtLast
<1>5. tr[i][2 * q - 1] = tr2[i][2 * q - 1] /\ tr[i][2 * q] = tr2[i][2 * q]
  <2>1. tr[i + 1][q] = tr2[i + 1][q]
    BY <1>1 DEF AgreeTo
  <2> QED BY <1>3, <1>4, <2>1 DEF Node
<1> QED BY <1>1, <1>5

LEMMA LastNodeSkips ==
  ASSUME NEW x \in Nat, x > 0
  PROVE  \E y \in Nat, k \in Nat : /\ Stripped(<<x, x>>) = <<y, y>> /\ Odd(y)
                                   /\ SameNode(x, y, k) /\ SameLeft(x, y, k)
<1>1. PICK s : IsStrip(s, x, x) /\ Stripped(<<x, x>>) = s[<<x, x>>]
  BY StrippedByOne
<1> DEFINE Skips(w, y, k) == /\ s[<<w, w>>] = <<y, y>> /\ Odd(y)
                             /\ SameNode(w, y, k) /\ SameLeft(w, y, k)
           Bad == {w \in 1 .. x : ~ \E y \in Nat, k \in Nat : Skips(w, y, k)}
<1>2. SUFFICES ASSUME Bad # {} PROVE FALSE
  <2>1. x \in 1 .. x
    OBVIOUS
  <2> QED BY <1>1, <1>2, <2>1
<1>3. PICK w \in Bad : \A v \in Bad : w <= v
  <2>1. Bad \in SUBSET Nat
    OBVIOUS
  <2> HIDE DEF Bad
  <2> QED BY <1>2, <2>1, Least
<1>4. w \in 1 .. x /\ w \in Nat /\ w > 0
  BY <1>3
<1>5. s[<<w, w>>] = IF Odd(w) THEN <<w, w>> ELSE s[<<w \div 2, w \div 2>>]
  <2>1. <<w, w>> \in (0 .. x) \X (0 .. x)
    BY <1>4
  <2>2. s[<<w, w>>] = IF <<w, w>>[1] = 0 \/ Odd(<<w, w>>[1]) THEN <<w, w>> ELSE s[Up(<<w, w>>)]
    BY <1>1, <2>1 DEF IsStrip
  <2>3. <<w, w>>[1] = w /\ Up(<<w, w>>) = <<w \div 2, w \div 2>>
    BY DEF Up
  <2> QED BY <1>4, <2>2, <2>3
<1>6. \A tr, i, v : AtLast(tr, i, v) => i \in Nat
  BY SeqFacts DEF AtLast, IsTree
<1>7. CASE Odd(w)
  <2>1. \A i \in Nat : i + 0 = i
    OBVIOUS
  <2>2. SameNode(w, w, 0) /\ SameLeft(w, w, 0)
    BY <1>6, <2>1 DEF SameNode, SameLeft
  <2>3. Skips(w, w, 0)
    BY <1>5, <1>7, <2>2
  <2> QED BY <1>3, <1>4, <2>3
<1>8. CASE ~Odd(w)
  <2> DEFINE v == w \div 2
  <2>1. v \in 1 .. x /\ v < w /\ v \in Nat /\ v > 0 /\ w = 2 * v
    BY <1>4, <1>8 DEF Odd
  <2>2. PICK y \in Nat, k \in Nat : Skips(v, y, k)
    <3> HIDE DEF v, Skips
    <3>1. v \notin Bad
      BY <1>3, <1>4, <2>1
    <3> QED BY <2>1, <3>1
  <2>3. s[<<w, w>>] = <<y, y>> /\ Odd(y)
    BY <1>5, <1>8, <2>2
  <2>4. SameNode(v, y, k) /\ SameLeft(v, y, k)
    BY <2>2
  <2> HIDE DEF Bad, Skips
  <2>5. ASSUME NEW tr, NEW i, AtLast(tr, i, w)
        PROVE  AtLast(tr, i + 1, v) /\ tr[i + 1][v + 1] = tr[i][w + 1]
    <3>1. AtLast(tr, i + 1, v)
      BY <1>4, <2>5, HigherLast
    <3>2. tr[i + 1][v + 1] = tr[i][w + 1]
      BY <1>4, <1>8, <2>5, PromotedAbove
    <3> QED BY <3>1, <3>2
  <2> HIDE DEF v
  <2>6. \A i \in Nat : (i + 1) + k = i + (k + 1)
    OBVIOUS
  <2>7. SameNode(w, y, k + 1)
    <3> SUFFICES ASSUME NEW tr, NEW i, AtLast(tr, i, w)
                 PROVE  AtLast(tr, i + (k + 1), y) /\ tr[i + (k + 1)][y + 1] = tr[i][w + 1]
      BY DEF SameNode
    <3>1. AtLast(tr, i + 1, v) /\ tr[i + 1][v + 1] = tr[i][w + 1]
      BY <2>5
    <3>2. AtLast(tr, (i + 1) + k, y) /\ tr[(i + 1) + k][y + 1] = tr[i + 1][v + 1]
      BY <2>4, <3>1 DEF SameNode
    <3> QED BY <1>6, <2>6, <3>1, <3>2
  <2>8. SameLeft(w, y, k + 1)
    <3> SUFFICES ASSUME NEW tr, NEW tr2, NEW i, AtLast(tr, i, w), AtLast(tr2, i, w),
                        AgreeTo(tr, tr2, i + (k + 1), y)
                 PROVE  AgreeTo(tr, tr2, i, w)
      BY DEF SameLeft
    <3>1. AtLast(tr, i + 1, v) /\ AtLast(tr2, i + 1, v)
      BY <2>5
    <3>2. AgreeTo(tr, tr2, (i + 1) + k, y)
      BY <1>6, <2>6
    <3>3. AgreeTo(tr, tr2, i + 1, v)
      BY <2>4, <3>1, <3>2, Zenon DEF SameLeft
    <3>4. w \div 2 = v /\ 2 * v = w /\ w <= w + 1
      BY <1>4, <2>1 DEF v
    <3> QED BY <1>4, <3>3, <3>4, ChildrenAgree
  <2>9. Skips(w, y, k + 1)
    BY <2>3, <2>7, <2>8 DEF Skips
  <2>10. k + 1 \in Nat
    OBVIOUS
  <2> QED BY <1>3, <2>9, <2>10 DEF Bad
<1> QED BY <1>7, <1>8

LEMMA OddNeedsNoSkip ==
  ASSUME NEW x \in Nat, NEW y \in Nat, Odd(x) PROVE Stripped(<<x, y>>) = <<x, y>>
<1>1. PICK s : IsStrip(s, x, y) /\ Stripped(<<x, y>>) = s[<<x, y>>]
  BY StrippedByOne
<1>2. <<x, y>> \in (0 .. x) \X (0 .. y) /\ <<x, y>>[1] = x
  OBVIOUS
<1>3. s[<<x, y>>] = IF <<x, y>>[1] = 0 \/ Odd(<<x, y>>[1]) THEN <<x, y>> ELSE s[Up(<<x, y>>)]
  BY <1>1, <1>2 DEF IsStrip
<1> QED BY <1>1, <1>2, <1>3

--------------------------------------------------------------------------
(* A walk over a proof, element by element.                                  *)
LEMMA MaxOfUpTo ==
  ASSUME NEW k \in Nat, NEW s \in SUBSET (1 .. k + 1), k + 1 \in s PROVE Max(s) = k + 1
<1>1. k + 1 \in s /\ \A j \in s : k + 1 >= j
  OBVIOUS
<1>2. Max(s) \in s /\ \A j \in s : Max(s) >= j
  BY <1>1 DEF Max
<1> DEFINE m == Max(s)
<1> HIDE DEF m
<1>3. m \in 1 .. k + 1 /\ m >= k + 1 /\ k + 1 >= m
  BY <1>1, <1>2 DEF m
<1> QED BY <1>3 DEF m

IsFoldClimb(it, start, proof, D) ==
  it = [s \in SUBSET D |-> IF s = {} THEN start ELSE Climb(it[s \ {Max(s)}], proof[Max(s)])]

WalkUp(start, proof) == FoldLeft(Climb, start, proof)

LEMMA ClimbSteps ==
  ASSUME NEW start, NEW proof, IsSeq(proof)
  PROVE  \E w : /\ w[0] = start
                /\ \A k \in 1 .. Len(proof) : w[k] = Climb(w[k - 1], proof[k])
                /\ WalkUp(start, proof) = w[Len(proof)]
<1> DEFINE n == Len(proof)
           D == DOMAIN proof
           T == {k \in Nat : \E it : IsFoldClimb(it, start, proof, 1 .. k)}
<1>1. n \in Nat /\ D = 1 .. n
  BY SeqFacts
<1>2. 0 \in T
  <2> DEFINE it == [s \in SUBSET (1 .. 0) |-> start]
  <2>1. \A s \in SUBSET (1 .. 0) : s = {}
    OBVIOUS
  <2>2. IsFoldClimb(it, start, proof, 1 .. 0)
    BY <2>1 DEF IsFoldClimb
  <2> QED BY <2>2
<1>3. ASSUME NEW k \in 0 .. n, k \in T PROVE k + 1 \in T
  <2>1. PICK it : IsFoldClimb(it, start, proof, 1 .. k)
    BY <1>3
  <2> DEFINE P == SUBSET (1 .. k)
             Q == SUBSET (1 .. k + 1)
             Value(f, s) == IF s = {} THEN start ELSE Climb(f[s \ {Max(s)}], proof[Max(s)])
             more == [s \in Q |-> IF k + 1 \in s THEN Climb(it[s \ {k + 1}], proof[k + 1]) ELSE it[s]]
  <2>2. \A s \in P : it[s] = Value(it, s)
    BY <2>1 DEF IsFoldClimb
  <2>3. \A s \in Q : k + 1 \in s => s # {} /\ Max(s) = k + 1 /\ s \ {k + 1} \in P
    BY <1>1, MaxOfUpTo
  <2>4. \A s \in Q : k + 1 \notin s => s \in P
    <3>1. \A j \in 1 .. k + 1 : j # k + 1 => j \in 1 .. k
      OBVIOUS
    <3> QED BY <3>1
  <2>5. \A s \in P : s \in Q /\ k + 1 \notin s /\ s \ {Max(s)} \in P
    <3>1. k + 1 \notin 1 .. k /\ \A j \in 1 .. k : j \in 1 .. k + 1
      OBVIOUS
    <3> QED BY <3>1
  <2>6. \A s \in P : more[s] = it[s]
    BY <2>5
  <2>7. \A s \in Q : more[s] = Value(more, s)
    <3> SUFFICES ASSUME NEW s \in Q PROVE more[s] = Value(more, s)
      OBVIOUS
    <3>1. CASE k + 1 \in s
      <4>1. more[s] = Climb(it[s \ {k + 1}], proof[k + 1])
        BY <3>1
      <4>2. more[s \ {k + 1}] = it[s \ {k + 1}]
        <5> HIDE DEF more, P, Q
        <5> QED BY <2>3, <2>6, <3>1
      <4> HIDE DEF more, P, Q
      <4> QED BY <2>3, <3>1, <4>1, <4>2
    <3>2. CASE k + 1 \notin s
      <4> HIDE DEF more, P, Q
      <4>1. s \in P /\ s \ {Max(s)} \in P
        BY <2>4, <2>5, <3>2
      <4>2. more[s] = it[s] /\ more[s \ {Max(s)}] = it[s \ {Max(s)}]
        BY <2>6, <4>1
      <4>3. it[s] = Value(it, s)
        BY <2>2, <4>1
      <4> QED BY <4>2, <4>3
    <3> QED BY <3>1, <3>2
  <2>8. more = [s \in Q |-> more[s]]
    OBVIOUS
  <2>9. IsFoldClimb(more, start, proof, 1 .. k + 1)
    <3> HIDE DEF more
    <3> QED BY <2>7, <2>8 DEF IsFoldClimb
  <2> QED BY <2>9
<1>4. n \in T
  <2>1. n \in Nat /\ n \in 0 .. n
    BY <1>1
  <2> HIDE DEF T, n
  <2>2. \A k \in 0 .. n : k \in T /\ k + 1 <= n => k + 1 \in T
    BY <1>3
  <2>3. \A k \in 0 .. n : k \in T
    BY <1>2, <2>1, <2>2, Upwards
  <2> QED BY <2>1, <2>3
<1> DEFINE it == CHOOSE f : IsFoldClimb(f, start, proof, D)
<1>5. IsFoldClimb(it, start, proof, D)
  <2>1. \E f : IsFoldClimb(f, start, proof, 1 .. n)
    BY <1>4
  <2> HIDE DEF D, n
  <2> QED BY <1>1, <2>1
<1>6. WalkUp(start, proof) = it[D]
  BY DEF WalkUp, FoldLeft, MapThenFoldSet, IsFoldClimb
<1> HIDE DEF it
<1>7. it[{}] = start
  BY <1>5 DEF IsFoldClimb
<1>8. ASSUME NEW k \in 1 .. n PROVE it[1 .. k] = Climb(it[1 .. k - 1], proof[k])
  <2>1. 1 .. k \in SUBSET D /\ 1 .. k # {} /\ Max(1 .. k) = k /\ (1 .. k) \ {k} = 1 .. k - 1
    <3>1. k - 1 \in Nat /\ (k - 1) + 1 = k
      BY <1>1
    <3>2. 1 .. k \in SUBSET (1 .. (k - 1) + 1) /\ (k - 1) + 1 \in 1 .. k
      BY <1>1
    <3>3. Max(1 .. k) = (k - 1) + 1
      <4> DEFINE s == 1 .. k
                 j == k - 1
      <4> HIDE DEF s, j
      <4>1. Max(s) = j + 1
        BY <3>1, <3>2, MaxOfUpTo DEF s, j
      <4> QED BY <4>1 DEF s, j
    <3> QED BY <1>1, <3>1, <3>3
  <2>2. it[1 .. k] = IF 1 .. k = {} THEN start
                     ELSE Climb(it[(1 .. k) \ {Max(1 .. k)}], proof[Max(1 .. k)])
    <3> DEFINE s == 1 .. k
    <3> HIDE DEF s
    <3>1. it[s] = IF s = {} THEN start ELSE Climb(it[s \ {Max(s)}], proof[Max(s)])
      BY <1>5, <2>1 DEF IsFoldClimb, s
    <3> QED BY <3>1 DEF s
  <2> QED BY <2>1, <2>2
<1> DEFINE w == [k \in 0 .. n |-> it[1 .. k]]
<1>9. w[0] = start
  <2>1. 1 .. 0 = {}
    OBVIOUS
  <2> QED BY <1>1, <1>7, <2>1
<1>10. \A k \in 1 .. n : w[k] = Climb(w[k - 1], proof[k])
  BY <1>1, <1>8
<1>11. WalkUp(start, proof) = w[n]
  BY <1>1, <1>6
<1> HIDE DEF w
<1> QED BY <1>9, <1>10, <1>11

IsFoldClimbBoth(it, start, proof, D) ==
  it = [s \in SUBSET D |-> IF s = {} THEN start ELSE ClimbBoth(it[s \ {Max(s)}], proof[Max(s)])]

WalkBoth(start, proof) == FoldLeft(ClimbBoth, start, proof)

LEMMA ClimbBothSteps ==
  ASSUME NEW start, NEW proof, IsSeq(proof)
  PROVE  \E w : /\ w[0] = start
                /\ \A k \in 1 .. Len(proof) : w[k] = ClimbBoth(w[k - 1], proof[k])
                /\ WalkBoth(start, proof) = w[Len(proof)]
<1> DEFINE n == Len(proof)
           D == DOMAIN proof
           T == {k \in Nat : \E it : IsFoldClimbBoth(it, start, proof, 1 .. k)}
<1>1. n \in Nat /\ D = 1 .. n
  BY SeqFacts
<1>2. 0 \in T
  <2> DEFINE it == [s \in SUBSET (1 .. 0) |-> start]
  <2>1. \A s \in SUBSET (1 .. 0) : s = {}
    OBVIOUS
  <2>2. IsFoldClimbBoth(it, start, proof, 1 .. 0)
    BY <2>1 DEF IsFoldClimbBoth
  <2> QED BY <2>2
<1>3. ASSUME NEW k \in 0 .. n, k \in T PROVE k + 1 \in T
  <2>1. PICK it : IsFoldClimbBoth(it, start, proof, 1 .. k)
    BY <1>3
  <2> DEFINE P == SUBSET (1 .. k)
             Q == SUBSET (1 .. k + 1)
             Value(f, s) == IF s = {} THEN start ELSE ClimbBoth(f[s \ {Max(s)}], proof[Max(s)])
             more == [s \in Q |-> IF k + 1 \in s THEN ClimbBoth(it[s \ {k + 1}], proof[k + 1]) ELSE it[s]]
  <2>2. \A s \in P : it[s] = Value(it, s)
    BY <2>1 DEF IsFoldClimbBoth
  <2>3. \A s \in Q : k + 1 \in s => s # {} /\ Max(s) = k + 1 /\ s \ {k + 1} \in P
    BY <1>1, MaxOfUpTo
  <2>4. \A s \in Q : k + 1 \notin s => s \in P
    <3>1. \A j \in 1 .. k + 1 : j # k + 1 => j \in 1 .. k
      OBVIOUS
    <3> QED BY <3>1
  <2>5. \A s \in P : s \in Q /\ k + 1 \notin s /\ s \ {Max(s)} \in P
    <3>1. k + 1 \notin 1 .. k /\ \A j \in 1 .. k : j \in 1 .. k + 1
      OBVIOUS
    <3> QED BY <3>1
  <2>6. \A s \in P : more[s] = it[s]
    BY <2>5
  <2>7. \A s \in Q : more[s] = Value(more, s)
    <3> SUFFICES ASSUME NEW s \in Q PROVE more[s] = Value(more, s)
      OBVIOUS
    <3>1. CASE k + 1 \in s
      <4>1. more[s] = ClimbBoth(it[s \ {k + 1}], proof[k + 1])
        BY <3>1
      <4>2. more[s \ {k + 1}] = it[s \ {k + 1}]
        <5> HIDE DEF more, P, Q
        <5> QED BY <2>3, <2>6, <3>1
      <4> HIDE DEF more, P, Q
      <4> QED BY <2>3, <3>1, <4>1, <4>2
    <3>2. CASE k + 1 \notin s
      <4> HIDE DEF more, P, Q
      <4>1. s \in P /\ s \ {Max(s)} \in P
        BY <2>4, <2>5, <3>2
      <4>2. more[s] = it[s] /\ more[s \ {Max(s)}] = it[s \ {Max(s)}]
        BY <2>6, <4>1
      <4>3. it[s] = Value(it, s)
        BY <2>2, <4>1
      <4> QED BY <4>2, <4>3
    <3> QED BY <3>1, <3>2
  <2>8. more = [s \in Q |-> more[s]]
    OBVIOUS
  <2>9. IsFoldClimbBoth(more, start, proof, 1 .. k + 1)
    <3> HIDE DEF more
    <3> QED BY <2>7, <2>8 DEF IsFoldClimbBoth
  <2> QED BY <2>9
<1>4. n \in T
  <2>1. n \in Nat /\ n \in 0 .. n
    BY <1>1
  <2> HIDE DEF T, n
  <2>2. \A k \in 0 .. n : k \in T /\ k + 1 <= n => k + 1 \in T
    BY <1>3
  <2>3. \A k \in 0 .. n : k \in T
    BY <1>2, <2>1, <2>2, Upwards
  <2> QED BY <2>1, <2>3
<1> DEFINE it == CHOOSE f : IsFoldClimbBoth(f, start, proof, D)
<1>5. IsFoldClimbBoth(it, start, proof, D)
  <2>1. \E f : IsFoldClimbBoth(f, start, proof, 1 .. n)
    BY <1>4
  <2> HIDE DEF D, n
  <2> QED BY <1>1, <2>1
<1>6. WalkBoth(start, proof) = it[D]
  BY DEF WalkBoth, FoldLeft, MapThenFoldSet, IsFoldClimbBoth
<1> HIDE DEF it
<1>7. it[{}] = start
  BY <1>5 DEF IsFoldClimbBoth
<1>8. ASSUME NEW k \in 1 .. n PROVE it[1 .. k] = ClimbBoth(it[1 .. k - 1], proof[k])
  <2>1. 1 .. k \in SUBSET D /\ 1 .. k # {} /\ Max(1 .. k) = k /\ (1 .. k) \ {k} = 1 .. k - 1
    <3>1. k - 1 \in Nat /\ (k - 1) + 1 = k
      BY <1>1
    <3>2. 1 .. k \in SUBSET (1 .. (k - 1) + 1) /\ (k - 1) + 1 \in 1 .. k
      BY <1>1
    <3>3. Max(1 .. k) = (k - 1) + 1
      <4> DEFINE s == 1 .. k
                 j == k - 1
      <4> HIDE DEF s, j
      <4>1. Max(s) = j + 1
        BY <3>1, <3>2, MaxOfUpTo DEF s, j
      <4> QED BY <4>1 DEF s, j
    <3> QED BY <1>1, <3>1, <3>3
  <2>2. it[1 .. k] = IF 1 .. k = {} THEN start
                     ELSE ClimbBoth(it[(1 .. k) \ {Max(1 .. k)}], proof[Max(1 .. k)])
    <3> DEFINE s == 1 .. k
    <3> HIDE DEF s
    <3>1. it[s] = IF s = {} THEN start ELSE ClimbBoth(it[s \ {Max(s)}], proof[Max(s)])
      BY <1>5, <2>1 DEF IsFoldClimbBoth, s
    <3> QED BY <3>1 DEF s
  <2> QED BY <2>1, <2>2
<1> DEFINE w == [k \in 0 .. n |-> it[1 .. k]]
<1>9. w[0] = start
  <2>1. 1 .. 0 = {}
    OBVIOUS
  <2> QED BY <1>1, <1>7, <2>1
<1>10. \A k \in 1 .. n : w[k] = ClimbBoth(w[k - 1], proof[k])
  BY <1>1, <1>8
<1>11. WalkBoth(start, proof) = w[n]
  BY <1>1, <1>6
<1> HIDE DEF w
<1> QED BY <1>9, <1>10, <1>11

--------------------------------------------------------------------------
(* Where the walk over an audit path stands: at a position that is on some    *)
(* level, and if it carries the node that is there, it began with the leaf    *)
(* that is at the index.                                                     *)
IsAcc(acc) == acc = [ok |-> acc.ok, at |-> acc.at, hash |-> acc.hash] /\ acc.ok \in BOOLEAN

Placed(tr, leaf, index, acc) ==
  \E i \in Nat, x \in Nat, y \in Nat :
    /\ AtLast(tr, i, y) /\ x <= y /\ acc.at = <<x, y>>
    /\ acc.hash = tr[i][x + 1] => leaf = tr[1][index + 1]

LEMMA AboveLast ==
  ASSUME NEW tr, NEW i, NEW z \in Nat, AtLast(tr, i, z), z > 0, Odd(z)
  PROVE  /\ AtLast(tr, i + 1, z \div 2) /\ z \div 2 \in Nat
         /\ tr[i + 1][z \div 2 + 1] = Node(tr[i][z], tr[i][z + 1])
<1>1. IsTree(tr) /\ i \in 1 .. Len(tr) /\ Len(tr[i]) = z + 1
  BY DEF AtLast
<1>2. i + 1 \in 1 .. Len(tr) /\ Len(tr[i + 1]) = z \div 2 + 1
  BY <1>1, HigherLevel
<1>3. z <= z
  OBVIOUS
<1>4. tr[i + 1][z \div 2 + 1] = Node(tr[i][z], tr[i][z + 1])
  BY <1>3, OddNode
<1>5. z \div 2 \in Nat
  OBVIOUS
<1> QED BY <1>1, <1>2, <1>4, <1>5 DEF AtLast

LEMMA PlacedAt ==
  ASSUME NEW tr, NEW leaf, NEW index, NEW acc, NEW i \in Nat, NEW x \in Nat, NEW y \in Nat,
         AtLast(tr, i, y), x <= y, acc.at = <<x, y>>,
         acc.hash = tr[i][x + 1] => leaf = tr[1][index + 1]
  PROVE  Placed(tr, leaf, index, acc)
BY DEF Placed

LEMMA ClimbKeepsPlace ==
  ASSUME NEW tr, NEW leaf, NEW index, NEW acc, NEW p,
         IsAcc(acc), acc.ok => Placed(tr, leaf, index, acc)
  PROVE  /\ IsAcc(Climb(acc, p))
         /\ Climb(acc, p).ok => Placed(tr, leaf, index, Climb(acc, p))
<1> DEFINE next == Climb(acc, p)
<1>1. CASE ~acc.ok \/ acc.at[2] = 0
  <2>1. next = [acc EXCEPT !.ok = FALSE]
    BY <1>1 DEF Climb
  <2>2. IsAcc(next) /\ ~next.ok
    <3> DEFINE a == acc.at
               h == acc.hash
               o == acc.ok
    <3>1. acc = [ok |-> o, at |-> a, hash |-> h]
      BY DEF IsAcc
    <3> HIDE DEF a, h, o
    <3>2. next = [ok |-> FALSE, at |-> a, hash |-> h]
      BY <2>1, <3>1
    <3> QED BY <3>2 DEF IsAcc
  <2> QED BY <2>2
<1>2. CASE acc.ok /\ acc.at[2] # 0
  <2>1. PICK i \in Nat, x \in Nat, y \in Nat :
          /\ AtLast(tr, i, y) /\ x <= y /\ acc.at = <<x, y>>
          /\ acc.hash = tr[i][x + 1] => leaf = tr[1][index + 1]
    BY <1>2 DEF Placed
  <2>2. y > 0 /\ acc.at[1] = x /\ acc.at[2] = y
    BY <1>2, <2>1
  <2>3. x \div 2 <= y \div 2 /\ x \div 2 \in Nat
    BY <2>1
  <2>4. /\ AtLast(tr, i + 1, y \div 2) /\ x \div 2 <= y \div 2
        /\ x \div 2 \in Nat /\ y \div 2 \in Nat
    BY <2>1, <2>2, <2>3, HigherLast
  <2> DEFINE up == tr[i + 1][x \div 2 + 1]
  <2>0. /\ Odd(x) => up = Node(tr[i][x], tr[i][x + 1])
        /\ ~Odd(x) /\ x < y => up = Node(tr[i][x + 1], tr[i][x + 2])
    BY <2>1, OddNode, EvenNode
  <2>5. CASE Odd(x)
    <3>1. next = [ok |-> TRUE, at |-> <<x \div 2, y \div 2>>, hash |-> Node(p, acc.hash)]
      BY <1>2, <2>1, <2>2, <2>5, OddNeedsNoSkip DEF Climb, FromLeft, Up
    <3>2. tr[i + 1][x \div 2 + 1] = Node(tr[i][x], tr[i][x + 1])
      BY <2>0, <2>5
    <3>3. next.hash = tr[i + 1][x \div 2 + 1] => leaf = tr[1][index + 1]
      BY <2>1, <3>1, <3>2, NodesAreOneToOne
    <3>4. Placed(tr, leaf, index, next)
      <4> HIDE DEF next
      <4> QED BY <2>4, <3>1, <3>3 DEF Placed
    <3> QED BY <3>1, <3>4 DEF IsAcc
  <2>6. CASE ~Odd(x) /\ x = y
    <3>1. PICK z \in Nat, k \in Nat : /\ Stripped(<<x, x>>) = <<z, z>> /\ Odd(z)
                                      /\ SameNode(x, z, k) /\ SameLeft(x, z, k)
      BY <2>2, <2>6, LastNodeSkips
    <3>2. next = [ok |-> TRUE, at |-> <<z \div 2, z \div 2>>, hash |-> Node(p, acc.hash)]
      <4>1. acc.at = <<x, x>> /\ FromLeft(acc.at) /\ Stripped(acc.at) = <<z, z>>
        BY <2>1, <2>6, <3>1 DEF FromLeft
      <4>2. Up(<<z, z>>) = <<z \div 2, z \div 2>>
        BY DEF Up
      <4> QED BY <1>2, <4>1, <4>2 DEF Climb
    <3>3. AtLast(tr, i + k, z) /\ tr[i + k][z + 1] = tr[i][x + 1]
      BY <2>1, <2>6, <3>1 DEF SameNode
    <3>4. z > 0 /\ z \in Nat /\ Odd(z)
      BY <3>1 DEF Odd
    <3> DEFINE l == i + k
    <3> HIDE DEF l
    <3>6. /\ AtLast(tr, l + 1, z \div 2) /\ z \div 2 \in Nat
          /\ tr[l + 1][z \div 2 + 1] = Node(tr[l][z], tr[l][z + 1])
      BY <3>3, <3>4, AboveLast DEF l
    <3>7. next.hash = tr[l + 1][z \div 2 + 1] => leaf = tr[1][index + 1]
      BY <2>1, <3>2, <3>3, <3>6, NodesAreOneToOne DEF l
    <3>8. Placed(tr, leaf, index, next)
      <4> DEFINE h == z \div 2
      <4>1. h <= h /\ h \in Nat /\ next.at = <<h, h>>
        BY <3>2, <3>4, <3>6
      <4>3. l + 1 \in Nat
        BY <2>1 DEF l
      <4>2. AtLast(tr, l + 1, h) /\ (next.hash = tr[l + 1][h + 1] => leaf = tr[1][index + 1])
        BY <3>6, <3>7
      <4> HIDE DEF next, h
      <4> QED BY <4>1, <4>2, <4>3, PlacedAt
    <3> QED BY <3>2, <3>8 DEF IsAcc
  <2>7. CASE ~Odd(x) /\ x # y
    <3>1. next = [ok |-> TRUE, at |-> <<x \div 2, y \div 2>>, hash |-> Node(acc.hash, p)]
      BY <1>2, <2>1, <2>2, <2>7 DEF Climb, FromLeft, Up
    <3>2. tr[i + 1][x \div 2 + 1] = Node(tr[i][x + 1], tr[i][x + 2])
      BY <2>0, <2>1, <2>7
    <3>3. next.hash = tr[i + 1][x \div 2 + 1] => leaf = tr[1][index + 1]
      BY <2>1, <3>1, <3>2, NodesAreOneToOne
    <3>4. Placed(tr, leaf, index, next)
      <4> HIDE DEF next
      <4> QED BY <2>4, <3>1, <3>3 DEF Placed
    <3> QED BY <3>1, <3>4 DEF IsAcc
  <2> QED BY <2>5, <2>6, <2>7
<1>3. acc.ok \in BOOLEAN
  BY DEF IsAcc
<1> QED BY <1>1, <1>2, <1>3

(* Whatever the proof, what it proves to be at an index of a tree is there.   *)
LEMMA NothingElseIsProved ==
  ASSUME NEW tr, IsTree(tr), NEW leaf, NEW index \in Nat, NEW proof, IsSeq(proof),
         VerifyInclusion(leaf, index, Len(tr[1]), proof, TopOf(tr))
  PROVE  index < Len(tr[1]) /\ leaf = tr[1][index + 1]
<1> DEFINE size == Len(tr[1])
           start == [ok |-> TRUE, at |-> <<index, size - 1>>, hash |-> leaf]
           end == WalkUp(start, proof)
<1>1. index < size /\ end.ok /\ end.at[2] = 0 /\ end.hash = TopOf(tr)
  BY DEF VerifyInclusion, WalkUp
<1>2. Len(tr) \in Nat /\ 1 \in 1 .. Len(tr) /\ size \in Nat /\ Len(proof) \in Nat
  BY SeqFacts DEF IsTree
<1>3. IsAcc(start) /\ Placed(tr, leaf, index, start)
  <2>1. AtLast(tr, 1, size - 1) /\ size - 1 \in Nat /\ index <= size - 1
    BY <1>1, <1>2 DEF AtLast
  <2>2. IsAcc(start) /\ start.at = <<index, size - 1>> /\ start.hash = leaf
    BY DEF IsAcc
  <2> HIDE DEF start, size
  <2> QED BY <2>1, <2>2 DEF Placed
<1> HIDE DEF start
<1>4. PICK w : /\ w[0] = start
               /\ \A k \in 1 .. Len(proof) : w[k] = Climb(w[k - 1], proof[k])
               /\ WalkUp(start, proof) = w[Len(proof)]
  BY ClimbSteps
<1> DEFINE T == {k \in Nat : IsAcc(w[k]) /\ (w[k].ok => Placed(tr, leaf, index, w[k]))}
<1>5. 0 \in T
  BY <1>3, <1>4
<1>6. ASSUME NEW k \in 0 .. Len(proof), k \in T, k + 1 <= Len(proof) PROVE k + 1 \in T
  <2>1. k + 1 \in 1 .. Len(proof) /\ (k + 1) - 1 = k
    BY <1>2, <1>6
  <2>2. w[k + 1] = Climb(w[k], proof[k + 1])
    BY <1>4, <2>1
  <2>3. IsAcc(w[k]) /\ (w[k].ok => Placed(tr, leaf, index, w[k]))
    BY <1>6
  <2>4. IsAcc(w[k + 1]) /\ (w[k + 1].ok => Placed(tr, leaf, index, w[k + 1]))
    BY <2>2, <2>3, ClimbKeepsPlace
  <2> QED BY <2>4
<1>7. Len(proof) \in T
  <2>1. \A k \in 0 .. Len(proof) : k \in T
    <3> HIDE DEF T
    <3> QED BY <1>2, <1>5, <1>6, Upwards
  <2> QED BY <1>2, <2>1
<1>8. Placed(tr, leaf, index, end)
  BY <1>1, <1>4, <1>7
<1> HIDE DEF end, T
<1>9. PICK i \in Nat, x \in Nat, y \in Nat :
        /\ AtLast(tr, i, y) /\ x <= y /\ end.at = <<x, y>>
        /\ end.hash = tr[i][x + 1] => leaf = tr[1][index + 1]
  BY <1>8 DEF Placed
<1>10. y = 0 /\ x = 0
  BY <1>1, <1>9
<1>11. i = Len(tr)
  <2>1. i \in 1 .. Len(tr) /\ Len(tr[i]) = 1
    BY <1>9, <1>10 DEF AtLast
  <2>2. i < Len(tr) => Len(tr[i]) > 1
    BY <2>1 DEF IsTree
  <2> QED BY <1>2, <2>1, <2>2
<1>12. TopOf(tr) = tr[Len(tr)][1]
  <2>1. tr[1] # <<>>
    BY <1>1, <1>2
  <2> QED BY <2>1 DEF TopOf
<1> QED BY <1>1, <1>9, <1>10, <1>11, <1>12

--------------------------------------------------------------------------
(* The walk over a consistency proof stands at the last node of the old tree, *)
(* on its level in both; once the old tree is used up, it stays at the top.   *)
(* If it carries what is there and the trees agree to its left, they agreed    *)
(* on all of the old tree's nodes where it began, on level t.                 *)
IsBoth(acc) ==
  acc = [ok |-> acc.ok, at |-> acc.at, old |-> acc.old, new |-> acc.new] /\ acc.ok \in BOOLEAN

Carries(tr, tr2, i, i2, x, acc) ==
  acc.new = tr[i][x + 1] /\ acc.old = tr2[i2][x + 1] /\ AgreeTo(tr, tr2, i, x)

BothPlaced(tr, tr2, t, last, acc) ==
  \E i \in Nat, i2 \in Nat, x \in Nat, y \in Nat :
    /\ AtLast(tr, i, y) /\ AtLast(tr2, i2, x) /\ x <= y /\ acc.at = <<x, y>>
    /\ i2 = i \/ x = 0
    /\ Carries(tr, tr2, i, i2, x, acc) => AgreeTo(tr, tr2, t, last + 1)

LEMMA BothPlacedAt ==
  ASSUME NEW tr, NEW tr2, NEW t, NEW last, NEW acc,
         NEW i \in Nat, NEW i2 \in Nat, NEW x \in Nat, NEW y \in Nat,
         AtLast(tr, i, y), AtLast(tr2, i2, x), x <= y, acc.at = <<x, y>>, i2 = i \/ x = 0,
         Carries(tr, tr2, i, i2, x, acc) => AgreeTo(tr, tr2, t, last + 1)
  PROVE  BothPlaced(tr, tr2, t, last, acc)
BY DEF BothPlaced

(* Above a node that is odd from the left, in two trees.                     *)
LEMMA OddAbove ==
  ASSUME NEW tr, NEW tr2, NEW i, NEW x \in Nat, NEW y \in Nat, x <= y, Odd(x),
         AtLast(tr, i, y), AtLast(tr2, i, x), NEW p, NEW new, NEW old,
         Node(p, new) = tr[i + 1][x \div 2 + 1], Node(p, old) = tr2[i + 1][x \div 2 + 1],
         AgreeTo(tr, tr2, i + 1, x \div 2)
  PROVE  new = tr[i][x + 1] /\ old = tr2[i][x + 1] /\ AgreeTo(tr, tr2, i, x)
<1>1. x > 0 /\ y > 0 /\ x <= x /\ 2 * (x \div 2) = x - 1 /\ x <= y + 1 /\ x <= x + 1
  BY DEF Odd
<1>3. tr[i + 1][x \div 2 + 1] = Node(tr[i][x], tr[i][x + 1])
  BY OddNode
<1>4. tr2[i + 1][x \div 2 + 1] = Node(tr2[i][x], tr2[i][x + 1])
  BY <1>1, OddNode
<1>5. /\ p = tr[i][x] /\ new = tr[i][x + 1]
      /\ p = tr2[i][x] /\ old = tr2[i][x + 1]
  BY <1>3, <1>4, NodesAreOneToOne
<1>6. AgreeTo(tr, tr2, i, 2 * (x \div 2))
  BY <1>1, ChildrenAgree
<1>7. AgreeTo(tr, tr2, i, x)
  <2>1. AgreeTo(tr, tr2, i, x - 1)
    BY <1>1, <1>6
  <2>2. \A j \in 1 .. x : j = x \/ j \in 1 .. x - 1
    OBVIOUS
  <2>3. tr[i][x] = tr2[i][x]
    BY <1>5
  <2> QED BY <2>1, <2>2, <2>3 DEF AgreeTo
<1> QED BY <1>5, <1>7

LEMMA ClimbBothKeepsPlace ==
  ASSUME NEW tr, NEW tr2, NEW t, NEW last, NEW acc, NEW p,
         IsBoth(acc), acc.ok => BothPlaced(tr, tr2, t, last, acc)
  PROVE  /\ IsBoth(ClimbBoth(acc, p))
         /\ ClimbBoth(acc, p).ok => BothPlaced(tr, tr2, t, last, ClimbBoth(acc, p))
<1> DEFINE next == ClimbBoth(acc, p)
<1>1. CASE ~acc.ok \/ acc.at[2] = 0
  <2>1. next = [acc EXCEPT !.ok = FALSE]
    BY <1>1 DEF ClimbBoth
  <2>2. IsBoth(next) /\ ~next.ok
    <3> DEFINE a == acc.at
               g == acc.old
               h == acc.new
               o == acc.ok
    <3>1. acc = [ok |-> o, at |-> a, old |-> g, new |-> h]
      BY DEF IsBoth
    <3> HIDE DEF a, g, h, o
    <3>2. next = [ok |-> FALSE, at |-> a, old |-> g, new |-> h]
      BY <2>1, <3>1
    <3> QED BY <3>2 DEF IsBoth
  <2> QED BY <2>2
<1>2. CASE acc.ok /\ acc.at[2] # 0
  <2>1. PICK i \in Nat, i2 \in Nat, x \in Nat, y \in Nat :
          /\ AtLast(tr, i, y) /\ AtLast(tr2, i2, x) /\ x <= y /\ acc.at = <<x, y>>
          /\ i2 = i \/ x = 0
          /\ Carries(tr, tr2, i, i2, x, acc) => AgreeTo(tr, tr2, t, last + 1)
    BY <1>2 DEF BothPlaced
  <2>2. y > 0 /\ acc.at[1] = x /\ acc.at[2] = y
    BY <1>2, <2>1
  <2>3. x \in Nat /\ y \in Nat /\ i \in Nat /\ x \div 2 <= y \div 2 /\ x \div 2 \in Nat
    BY <2>1
  <2>4. AtLast(tr, i + 1, y \div 2) /\ y \div 2 \in Nat /\ i + 1 \in Nat
    BY <2>1, <2>2, HigherLast
  <2>5. CASE Odd(x)
    <3>1. next = [ok |-> TRUE, at |-> <<x \div 2, y \div 2>>,
                  old |-> Node(p, acc.old), new |-> Node(p, acc.new)]
      <4>1. FromLeft(acc.at) /\ Stripped(acc.at) = acc.at /\ Up(acc.at) = <<x \div 2, y \div 2>>
        BY <2>1, <2>2, <2>5, OddNeedsNoSkip DEF FromLeft, Up
      <4> QED BY <1>2, <4>1 DEF ClimbBoth
    <3>2. x > 0 /\ i2 = i
      BY <2>1, <2>5 DEF Odd
    <3>3. AtLast(tr2, i + 1, x \div 2)
      BY <2>1, <3>2, HigherLast
    <3>4. ASSUME Carries(tr, tr2, i + 1, i + 1, x \div 2, next)
          PROVE  AgreeTo(tr, tr2, t, last + 1)
      <4>1. /\ Node(p, acc.new) = tr[i + 1][x \div 2 + 1]
            /\ Node(p, acc.old) = tr2[i + 1][x \div 2 + 1]
            /\ AgreeTo(tr, tr2, i + 1, x \div 2)
        BY <3>1, <3>4 DEF Carries
      <4>2. acc.new = tr[i][x + 1] /\ acc.old = tr2[i][x + 1] /\ AgreeTo(tr, tr2, i, x)
        <5>1. AtLast(tr2, i, x) /\ AtLast(tr, i, y) /\ x <= y
          BY <2>1, <3>2
        <5> QED BY <2>3, <2>5, <4>1, <5>1, OddAbove
      <4> QED BY <2>1, <3>2, <4>2 DEF Carries
    <3>5. BothPlaced(tr, tr2, t, last, next)
      <4>1. next.at = <<x \div 2, y \div 2>>
        BY <3>1
      <4> HIDE DEF next
      <4> QED BY <2>3, <2>4, <3>3, <3>4, <4>1, BothPlacedAt
    <3> QED BY <3>1, <3>5 DEF IsBoth
  <2>6. CASE ~Odd(x) /\ x = y
    <3>1. PICK z \in Nat, k \in Nat : /\ Stripped(<<x, x>>) = <<z, z>> /\ Odd(z)
                                      /\ SameNode(x, z, k) /\ SameLeft(x, z, k)
      BY <2>2, <2>3, <2>6, LastNodeSkips
    <3>2. next = [ok |-> TRUE, at |-> <<z \div 2, z \div 2>>,
                  old |-> Node(p, acc.old), new |-> Node(p, acc.new)]
      <4>1. acc.at = <<x, x>> /\ FromLeft(acc.at) /\ Stripped(acc.at) = <<z, z>>
        BY <2>1, <2>6, <3>1 DEF FromLeft
      <4>2. Up(<<z, z>>) = <<z \div 2, z \div 2>>
        BY DEF Up
      <4> QED BY <1>2, <4>1, <4>2 DEF ClimbBoth
    <3>3. i2 = i /\ AtLast(tr, i, x) /\ AtLast(tr2, i, x)
      BY <2>1, <2>2, <2>6
    <3> DEFINE l == i + k
    <3>4. /\ AtLast(tr, l, z) /\ tr[l][z + 1] = tr[i][x + 1]
          /\ AtLast(tr2, l, z) /\ tr2[l][z + 1] = tr2[i][x + 1]
      BY <3>1, <3>3 DEF SameNode
    <3>5. z \in Nat /\ z > 0 /\ z <= z /\ l \in Nat /\ z \div 2 <= z \div 2 /\ Odd(z)
      BY <2>3, <3>1 DEF Odd
    <3>6. AgreeTo(tr, tr2, l, z) => AgreeTo(tr, tr2, i, x)
      BY <3>1, <3>3, Zenon DEF SameLeft
    <3> HIDE DEF l
    <3>7. AtLast(tr, l + 1, z \div 2) /\ AtLast(tr2, l + 1, z \div 2) /\ z \div 2 \in Nat /\ l + 1 \in Nat
      BY <3>4, <3>5, HigherLast
    <3>8. ASSUME Carries(tr, tr2, l + 1, l + 1, z \div 2, next)
          PROVE  AgreeTo(tr, tr2, t, last + 1)
      <4>1. /\ Node(p, acc.new) = tr[l + 1][z \div 2 + 1]
            /\ Node(p, acc.old) = tr2[l + 1][z \div 2 + 1]
            /\ AgreeTo(tr, tr2, l + 1, z \div 2)
        BY <3>2, <3>8 DEF Carries
      <4>2. acc.new = tr[l][z + 1] /\ acc.old = tr2[l][z + 1] /\ AgreeTo(tr, tr2, l, z)
        BY <3>4, <3>5, <4>1, OddAbove
      <4> QED BY <2>1, <3>3, <3>4, <3>6, <4>2 DEF Carries
    <3>9. BothPlaced(tr, tr2, t, last, next)
      <4> DEFINE h == z \div 2
      <4>1. next.at = <<h, h>> /\ h <= h
        BY <3>2, <3>5
      <4>2. AtLast(tr, l + 1, h) /\ AtLast(tr2, l + 1, h) /\ h \in Nat /\ l + 1 \in Nat
        BY <3>7
      <4>3. Carries(tr, tr2, l + 1, l + 1, h, next) => AgreeTo(tr, tr2, t, last + 1)
        BY <3>8
      <4> HIDE DEF next, h
      <4> QED BY <4>1, <4>2, <4>3, BothPlacedAt
    <3> QED BY <3>2, <3>9 DEF IsBoth
  <2>7. CASE ~Odd(x) /\ x # y
    <3>1. next = [ok |-> TRUE, at |-> <<x \div 2, y \div 2>>,
                  old |-> acc.old, new |-> Node(acc.new, p)]
      BY <1>2, <2>1, <2>2, <2>7 DEF ClimbBoth, FromLeft, Up
    <3>2. x < y /\ ~Odd(x) /\ AtLast(tr, i, y)
      BY <2>1, <2>3, <2>7
    <3>3. tr[i + 1][x \div 2 + 1] = Node(tr[i][x + 1], tr[i][x + 2])
      BY <2>3, <3>2, EvenNode
    <3>4. next.new = tr[i + 1][x \div 2 + 1] => acc.new = tr[i][x + 1]
      BY <3>1, <3>3, NodesAreOneToOne
    <3>5. next.at = <<x \div 2, y \div 2>> /\ next.old = acc.old
      BY <3>1
    <3> DEFINE hx == x \div 2
               hy == y \div 2
    <3>6. /\ AtLast(tr, i + 1, hy) /\ hx <= hy /\ hx \in Nat /\ hy \in Nat /\ i + 1 \in Nat
          /\ next.at = <<hx, hy>>
      BY <2>3, <2>4, <3>5
    <3>7. x = 0 => hx = 0
      OBVIOUS
    <3>8. BothPlaced(tr, tr2, t, last, next)
      <4>1. CASE x = 0
        <5>1. AgreeTo(tr, tr2, i, x)
          BY <4>1 DEF AgreeTo
        <5> HIDE DEF next
        <5>2. Carries(tr, tr2, i + 1, i2, hx, next) => AgreeTo(tr, tr2, t, last + 1)
          BY <2>1, <3>4, <3>5, <3>7, <4>1, <5>1 DEF Carries
        <5>3. AtLast(tr2, i2, hx) /\ hx = 0 /\ i2 \in Nat
          BY <2>1, <3>7, <4>1
        <5> HIDE DEF hx, hy
        <5> QED BY <3>6, <5>2, <5>3, BothPlacedAt
      <4>2. CASE x # 0
        <5>1. i2 = i /\ x > 0 /\ x <= x
          BY <2>1, <2>3, <4>2
        <5>2. AtLast(tr2, i, x)
          BY <2>1, <5>1
        <5>3. AtLast(tr2, i + 1, hx)
          BY <2>3, <5>1, <5>2, HigherLast
        <5>4. tr2[i + 1][hx + 1] = tr2[i][x + 1]
          <6> QED BY <2>3, <2>7, <5>1, <5>2, PromotedAbove
        <5>5. AgreeTo(tr, tr2, i + 1, hx) => AgreeTo(tr, tr2, i, x)
          <6>1. 2 * hx = x /\ x <= y + 1 /\ x <= x + 1
            BY <2>1, <2>3, <2>7 DEF Odd
          <6> QED BY <2>1, <2>2, <2>3, <5>1, <5>2, <6>1, ChildrenAgree
        <5>6. Carries(tr, tr2, i + 1, i + 1, hx, next) => AgreeTo(tr, tr2, t, last + 1)
          <6> HIDE DEF next
          <6> QED BY <2>1, <3>4, <3>5, <5>1, <5>4, <5>5 DEF Carries
        <5> HIDE DEF next, hx, hy
        <5> QED BY <3>6, <5>3, <5>6, BothPlacedAt
      <4> QED BY <4>1, <4>2
    <3> QED BY <3>1, <3>8 DEF IsBoth
  <2> QED BY <2>5, <2>6, <2>7
<1>3. acc.ok \in BOOLEAN
  BY DEF IsBoth
<1> QED BY <1>1, <1>2, <1>3

--------------------------------------------------------------------------
(* Where that walk begins: on the lowest level on which the old tree ends in  *)
(* a node of its own; what is in both trees there is in both below.          *)
IsOnesStrip(s, a, b) ==
  s = [p \in (0 .. a) \X (0 .. b) |-> IF Odd(p[1]) THEN s[Up(p)] ELSE p]

LEMMA OnesStripExists ==
  ASSUME NEW a \in Nat, NEW b \in Nat PROVE \E s : IsOnesStrip(s, a, b)
<1> DEFINE T == {k \in Nat : \E s : IsOnesStrip(s, k, b)}
<1>1. 0 \in T
  <2> DEFINE s == [p \in (0 .. 0) \X (0 .. b) |-> p]
  <2>1. \A p \in (0 .. 0) \X (0 .. b) : ~Odd(p[1])
    BY DEF Odd
  <2>2. IsOnesStrip(s, 0, b)
    BY <2>1 DEF IsOnesStrip
  <2> QED BY <2>2
<1>2. ASSUME NEW k \in 0 .. a, k \in T PROVE k + 1 \in T
  <2>1. PICK s : IsOnesStrip(s, k, b)
    BY <1>2
  <2> DEFINE D == (0 .. k) \X (0 .. b)
             E == (0 .. k + 1) \X (0 .. b)
             more == [p \in E |-> IF p[1] = k + 1 /\ Odd(k + 1) THEN s[Up(p)]
                                  ELSE IF p[1] = k + 1 THEN p ELSE s[p]]
  <2>2. \A p \in E : p[1] \in 0 .. k + 1 /\ (p[1] # k + 1 => p \in D)
    OBVIOUS
  <2>3. \A p \in E : p[1] # 0 => Up(p) \in D
    BY DEF Up
  <2>4. \A p \in D : p \in E /\ p[1] # k + 1 /\ s[p] = IF Odd(p[1]) THEN s[Up(p)] ELSE p
    BY <2>1 DEF IsOnesStrip
  <2>5. \A p \in D : more[p] = s[p]
    BY <2>4
  <2>6. \A p \in E : more[p] = IF Odd(p[1]) THEN more[Up(p)] ELSE p
    <3> SUFFICES ASSUME NEW p \in E
                 PROVE  more[p] = IF Odd(p[1]) THEN more[Up(p)] ELSE p
      OBVIOUS
    <3>1. p[1] # 0 => Up(p) \in D
      BY <2>3
    <3>0. Odd(p[1]) => p[1] # 0
      BY DEF Odd
    <3>2. p[1] # 0 => more[Up(p)] = s[Up(p)]
      <4> HIDE DEF D, E, more
      <4> QED BY <2>5, <3>1
    <3>3. CASE p[1] = k + 1
      <4>1. p[1] # 0
        BY <3>3
      <4>2. more[p] = IF Odd(k + 1) THEN s[Up(p)] ELSE p
        BY <3>3
      <4> HIDE DEF D, E, more
      <4> QED BY <3>0, <3>2, <3>3, <4>1, <4>2
    <3>4. CASE p[1] # k + 1
      <4>1. p \in D
        BY <2>2, <3>4
      <4> HIDE DEF D, E, more
      <4> QED BY <2>4, <2>5, <3>0, <3>2, <4>1
    <3> QED BY <3>3, <3>4
  <2>7. more = [p \in E |-> more[p]]
    OBVIOUS
  <2>8. IsOnesStrip(more, k + 1, b)
    <3> HIDE DEF more
    <3> QED BY <2>6, <2>7 DEF IsOnesStrip
  <2> QED BY <2>8
<1>3. a \in T
  <2> HIDE DEF T
  <2> QED BY <1>1, <1>2, Upwards
<1> QED BY <1>3

LEMMA OnesStrippedByOne ==
  ASSUME NEW a \in Nat, NEW b \in Nat
  PROVE  \E s : IsOnesStrip(s, a, b) /\ OnesStripped(<<a, b>>) = s[<<a, b>>]
<1> DEFINE s == CHOOSE f : IsOnesStrip(f, a, b)
<1>1. IsOnesStrip(s, a, b)
  BY OnesStripExists
<1>2. OnesStripped(<<a, b>>) = s[<<a, b>>]
  BY DEF OnesStripped, IsOnesStrip
<1> HIDE DEF s
<1> QED BY <1>1, <1>2


(* k levels higher the last nodes of levels of a + 1 and b + 1 are those of   *)
(* levels of x + 1 and y + 1.                                                *)
StartsAt(a, b, x, y, k) ==
  \A tr, tr2, i :
    AtLast(tr, i, b) /\ AtLast(tr2, i, a) =>
      /\ AtLast(tr, i + k, y) /\ AtLast(tr2, i + k, x)
      /\ AgreeTo(tr, tr2, i + k, x + 1) => AgreeTo(tr, tr2, i, a + 1)

LEMMA AtLastIsANumber ==
  ASSUME NEW tr, NEW i, NEW v, AtLast(tr, i, v) PROVE i \in Nat
BY SeqFacts DEF AtLast, IsTree

LEMMA WalkStarts ==
  ASSUME NEW a \in Nat, NEW b \in Nat, a <= b
  PROVE  \E x \in Nat, y \in Nat, k \in Nat :
           OnesStripped(<<a, b>>) = <<x, y>> /\ x <= y /\ StartsAt(a, b, x, y, k)
<1>1. PICK s : IsOnesStrip(s, a, b) /\ OnesStripped(<<a, b>>) = s[<<a, b>>]
  BY OnesStrippedByOne
<1> DEFINE Starts(w, v, x, y, k) == s[<<w, v>>] = <<x, y>> /\ x <= y /\ StartsAt(w, v, x, y, k)
           Works(w, v) == \E x \in Nat, y \in Nat, k \in Nat : Starts(w, v, x, y, k)
           Bad == {w \in 0 .. a : \E v \in 0 .. b : w <= v /\ ~Works(w, v)}
<1>2. SUFFICES ASSUME Bad # {} PROVE FALSE
  <2>1. a \in 0 .. a /\ b \in 0 .. b
    OBVIOUS
  <2>2. Works(a, b)
    <3> HIDE DEF Works
    <3> QED BY <1>2, <2>1
  <2> QED BY <1>1, <2>2
<1>3. PICK w \in Bad : \A u \in Bad : w <= u
  <2>1. Bad \in SUBSET Nat
    OBVIOUS
  <2> HIDE DEF Bad
  <2> QED BY <1>2, <2>1, Least
<1>4. PICK v \in 0 .. b : w <= v /\ ~Works(w, v)
  <2> HIDE DEF Works
  <2> QED BY <1>3
<1>5. w \in 0 .. a /\ w \in Nat /\ v \in Nat /\ w <= v
  BY <1>3, <1>4
<1>6. s[<<w, v>>] = IF Odd(w) THEN s[<<w \div 2, v \div 2>>] ELSE <<w, v>>
  <2>1. <<w, v>> \in (0 .. a) \X (0 .. b)
    BY <1>5
  <2>2. s[<<w, v>>] = IF Odd(<<w, v>>[1]) THEN s[Up(<<w, v>>)] ELSE <<w, v>>
    BY <1>1, <2>1 DEF IsOnesStrip
  <2>3. <<w, v>>[1] = w /\ Up(<<w, v>>) = <<w \div 2, v \div 2>>
    BY DEF Up
  <2> QED BY <2>2, <2>3
<1>7. CASE ~Odd(w)
  <2>1. \A i \in Nat : i + 0 = i
    OBVIOUS
  <2>2. StartsAt(w, v, w, v, 0)
    BY <2>1, AtLastIsANumber DEF StartsAt
  <2>3. Starts(w, v, w, v, 0)
    BY <1>5, <1>6, <1>7, <2>2
  <2>4. Works(w, v)
    <3> HIDE DEF Starts
    <3> QED BY <1>5, <2>3
  <2> HIDE DEF Works
  <2> QED BY <1>4, <2>4
<1>8. CASE Odd(w)
  <2> DEFINE w1 == w \div 2
             v1 == v \div 2
  <2>1. /\ w1 \in 0 .. a /\ v1 \in 0 .. b /\ w1 \in Nat /\ v1 \in Nat /\ w1 < w /\ w1 <= v1
        /\ (w + 1) \div 2 = w1 + 1 /\ 2 * ((w + 1) \div 2) = w + 1 /\ w > 0 /\ v > 0
    BY <1>5, <1>8 DEF Odd
  <2>2. PICK x \in Nat, y \in Nat, k \in Nat : Starts(w1, v1, x, y, k)
    <3>1. Works(w1, v1)
      <4>1. w1 \notin Bad
        <5> HIDE DEF w1, Bad
        <5> QED BY <1>3, <1>5, <2>1
      <4> HIDE DEF w1, v1, Works
      <4> QED BY <2>1, <4>1
    <3> HIDE DEF Starts, w1, v1
    <3> QED BY <3>1
  <2>3. s[<<w, v>>] = <<x, y>> /\ x <= y
    BY <1>6, <1>8, <2>2
  <2>4. StartsAt(w1, v1, x, y, k)
    BY <2>2
  <2> HIDE DEF Bad, Works, Starts
  <2>5. StartsAt(w, v, x, y, k + 1)
    <3> SUFFICES ASSUME NEW tr, NEW tr2, NEW i, AtLast(tr, i, v), AtLast(tr2, i, w)
                 PROVE  /\ AtLast(tr, i + (k + 1), y) /\ AtLast(tr2, i + (k + 1), x)
                        /\ AgreeTo(tr, tr2, i + (k + 1), x + 1) => AgreeTo(tr, tr2, i, w + 1)
      BY DEF StartsAt
    <3>1. i \in Nat /\ (i + 1) + k = i + (k + 1)
      BY AtLastIsANumber
    <3>2. AtLast(tr, i + 1, v1) /\ AtLast(tr2, i + 1, w1)
      BY <1>5, <2>1, HigherLast
    <3> DEFINE i1 == i + 1
    <3> HIDE DEF w1, v1, i1
    <3>3. /\ AtLast(tr, i1 + k, y) /\ AtLast(tr2, i1 + k, x)
          /\ AgreeTo(tr, tr2, i1 + k, x + 1) => AgreeTo(tr, tr2, i1, w1 + 1)
      BY <2>4, <3>2, Zenon DEF StartsAt, i1
    <3>4. AgreeTo(tr, tr2, i + 1, w1 + 1) => AgreeTo(tr, tr2, i, w + 1)
      <4>1. w + 1 \in Nat /\ w + 1 <= v + 1 /\ w + 1 <= w + 1
        BY <1>5
      <4>2. AgreeTo(tr, tr2, i + 1, (w + 1) \div 2) => AgreeTo(tr, tr2, i, 2 * ((w + 1) \div 2))
        BY <1>5, <2>1, <4>1, ChildrenAgree
      <4> QED BY <2>1, <4>2
    <3> QED BY <3>1, <3>3, <3>4 DEF i1
  <2>6. Starts(w, v, x, y, k + 1) /\ k + 1 \in Nat
    BY <2>3, <2>5 DEF Starts
  <2>7. Works(w, v)
    BY <2>6 DEF Works
  <2> QED BY <1>4, <2>7
<1> QED BY <1>7, <1>8

--------------------------------------------------------------------------
(* Trees with as many leaves and the same top have the same leaves: equal     *)
(* nodes have equal children, all the way down.                              *)
LEMMA AtTop ==
  ASSUME NEW tr, NEW i, AtLast(tr, i, 0) PROVE i = Len(tr)
<1>1. IsTree(tr) /\ i \in 1 .. Len(tr) /\ Len(tr[i]) = 1 /\ Len(tr) \in Nat
  BY SeqFacts DEF AtLast, IsTree
<1>2. i < Len(tr) => Len(tr[i]) > 1
  BY <1>1 DEF IsTree
<1> QED BY <1>1, <1>2

SameBelow(y) ==
  \A tr, tr2, i :
    AtLast(tr, i, y) /\ AtLast(tr2, i, y) /\ tr[Len(tr)][1] = tr2[Len(tr2)][1]
      => AgreeTo(tr, tr2, i, y + 1)

LEMMA EqualTops == \A y \in Nat : SameBelow(y)
<1> DEFINE Bad == {y \in Nat : ~SameBelow(y)}
<1>1. SUFFICES ASSUME Bad # {} PROVE FALSE
  OBVIOUS
<1>2. PICK y \in Bad : \A z \in Bad : y <= z
  <2>1. Bad \in SUBSET Nat
    OBVIOUS
  <2> HIDE DEF Bad
  <2> QED BY <1>1, <2>1, Least
<1>3. y \in Nat /\ ~SameBelow(y)
  BY <1>2
<1>4. PICK tr, tr2, i :
        /\ AtLast(tr, i, y) /\ AtLast(tr2, i, y) /\ tr[Len(tr)][1] = tr2[Len(tr2)][1]
        /\ ~AgreeTo(tr, tr2, i, y + 1)
  BY <1>3 DEF SameBelow
<1>5. CASE y = 0
  <2>1. i = Len(tr) /\ i = Len(tr2)
    BY <1>4, <1>5, AtTop
  <2>2. AgreeTo(tr, tr2, i, 1)
    BY <1>4, <2>1 DEF AgreeTo
  <2> QED BY <1>4, <1>5, <2>2
<1>6. CASE y > 0
  <2> DEFINE h == y \div 2
  <2>1. h \in Nat /\ h < y /\ y <= y + 1 /\ y + 1 <= y + 1 /\ y + 1 \in Nat
        /\ (Odd(y) => (y + 1) \div 2 = h + 1 /\ 2 * ((y + 1) \div 2) = y + 1)
        /\ (~Odd(y) => 2 * h = y)
    BY <1>3, <1>6 DEF Odd
  <2>2. SameBelow(h)
    <3>1. h \notin Bad
      <4> HIDE DEF Bad, h
      <4> QED BY <1>2, <1>3, <2>1
    <3> QED BY <2>1, <3>1
  <2>3. AtLast(tr, i + 1, h) /\ AtLast(tr2, i + 1, h)
    BY <1>3, <1>4, <1>6, HigherLast
  <2>4. AgreeTo(tr, tr2, i + 1, h + 1)
    <3> HIDE DEF h
    <3> QED BY <1>4, <2>2, <2>3, Zenon DEF SameBelow
  <2>5. CASE Odd(y)
    <3>1. AgreeTo(tr, tr2, i + 1, (y + 1) \div 2)
      BY <2>1, <2>4, <2>5
    <3>2. AgreeTo(tr, tr2, i, 2 * ((y + 1) \div 2))
      <4> HIDE DEF h
      <4> QED BY <1>3, <1>4, <1>6, <2>1, <3>1, ChildrenAgree
    <3> QED BY <1>4, <2>1, <2>5, <3>2
  <2>6. CASE ~Odd(y)
    <3>1. tr[i][y + 1] = tr[i + 1][h + 1] /\ tr2[i][y + 1] = tr2[i + 1][h + 1]
      BY <1>3, <1>4, <1>6, <2>6, PromotedAbove
    <3>2. tr[i + 1][h + 1] = tr2[i + 1][h + 1]
      BY <2>1, <2>4 DEF AgreeTo
    <3>3. AgreeTo(tr, tr2, i + 1, h)
      BY <2>1, <2>4 DEF AgreeTo
    <3>4. AgreeTo(tr, tr2, i, y)
      <4>1. AgreeTo(tr, tr2, i, 2 * (y \div 2))
        BY <1>3, <1>4, <1>6, <2>1, <3>3, ChildrenAgree
      <4> QED BY <2>1, <2>6, <4>1
    <3>5. \A j \in 1 .. y + 1 : j = y + 1 \/ j \in 1 .. y
      BY <1>3
    <3>6. AgreeTo(tr, tr2, i, y + 1)
      BY <3>1, <3>2, <3>4, <3>5 DEF AgreeTo
    <3> QED BY <1>4, <3>6
  <2> QED BY <2>5, <2>6
<1> QED BY <1>3, <1>5, <1>6

LEMMA SeqIsSeq ==
  ASSUME NEW S, NEW s \in Seq(S) PROVE IsSeq(s)
BY MadeSeq

LEMMA TailIsSeq ==
  ASSUME NEW s, IsSeq(s), s # <<>> PROVE IsSeq(Tail(s))
<1>1. Tail(s) \in Seq(ToSet(s))
  BY DEF IsSeq
<1> QED BY <1>1, SeqIsSeq

(* Whatever the proof, a log that passes for an extension of another has the  *)
(* other's leaves first.                                                     *)
LEMMA WalkAgrees ==
  ASSUME NEW tr, NEW tr2, NEW m \in Nat, NEW n \in Nat, AtLast(tr, 1, n), AtLast(tr2, 1, m),
         m <= n, NEW seed, NEW steps, IsSeq(steps),
         NEW w, w[0] = [ok |-> TRUE, at |-> OnesStripped(<<m, n>>), old |-> seed, new |-> seed],
         \A j \in 1 .. Len(steps) : w[j] = ClimbBoth(w[j - 1], steps[j]),
         NEW end, end = w[Len(steps)],
         end.ok, end.at[2] = 0,
         end.old = tr2[Len(tr2)][1], end.new = tr[Len(tr)][1]
  PROVE  AgreeTo(tr, tr2, 1, m + 1)
<1> DEFINE start == [ok |-> TRUE, at |-> OnesStripped(<<m, n>>), old |-> seed, new |-> seed]
           size == Len(steps)
<1>1. PICK x \in Nat, y \in Nat, k \in Nat :
        OnesStripped(<<m, n>>) = <<x, y>> /\ x <= y /\ StartsAt(m, n, x, y, k)
  BY WalkStarts
<1> DEFINE t == 1 + k
<1>2. t \in Nat /\ size \in Nat
  BY SeqFacts
<1>3. /\ AtLast(tr, t, y) /\ AtLast(tr2, t, x)
      /\ AgreeTo(tr, tr2, t, x + 1) => AgreeTo(tr, tr2, 1, m + 1)
  BY <1>1, Zenon DEF StartsAt
<1> HIDE DEF t
<1>4. IsBoth(start) /\ BothPlaced(tr, tr2, t, x, start)
  <2>1. IsBoth(start) /\ start.at = <<x, y>> /\ start.old = seed /\ start.new = seed
    BY <1>1 DEF IsBoth
  <2> HIDE DEF start
  <2>2. Carries(tr, tr2, t, t, x, start) => AgreeTo(tr, tr2, t, x + 1)
    <3>1. \A j \in 1 .. x + 1 : j = x + 1 \/ j \in 1 .. x
      BY <1>1
    <3> QED BY <2>1, <3>1 DEF Carries, AgreeTo
  <2> QED BY <1>1, <1>2, <1>3, <2>1, <2>2, BothPlacedAt
<1>5. w[0] = start
  OBVIOUS
<1> HIDE DEF start
<1> DEFINE T == {j \in Nat : IsBoth(w[j]) /\ (w[j].ok => BothPlaced(tr, tr2, t, x, w[j]))}
<1>6. 0 \in T
  BY <1>4, <1>5
<1>7. ASSUME NEW j \in 0 .. size, j \in T, j + 1 <= size PROVE j + 1 \in T
  <2>1. j + 1 \in 1 .. size /\ (j + 1) - 1 = j
    BY <1>2, <1>7
  <2>2. w[j + 1] = ClimbBoth(w[j], steps[j + 1])
    BY <2>1
  <2>3. IsBoth(w[j]) /\ (w[j].ok => BothPlaced(tr, tr2, t, x, w[j]))
    BY <1>7
  <2>4. IsBoth(w[j + 1]) /\ (w[j + 1].ok => BothPlaced(tr, tr2, t, x, w[j + 1]))
    <3> DEFINE acc == w[j]
               p == steps[j + 1]
    <3>1. IsBoth(acc) /\ (acc.ok => BothPlaced(tr, tr2, t, x, acc)) /\ w[j + 1] = ClimbBoth(acc, p)
      BY <2>2, <2>3
    <3> HIDE DEF acc, p
    <3>2. /\ IsBoth(ClimbBoth(acc, p))
          /\ ClimbBoth(acc, p).ok => BothPlaced(tr, tr2, t, x, ClimbBoth(acc, p))
      BY <3>1, ClimbBothKeepsPlace, Zenon
    <3> QED BY <3>1, <3>2
  <2> QED BY <2>4
<1>8. size \in T
  <2> HIDE DEF T, size
  <2>1. \A j \in 0 .. size : j \in T
    BY <1>2, <1>6, <1>7, Upwards
  <2> QED BY <1>2, <2>1
<1>9. BothPlaced(tr, tr2, t, x, end)
  BY <1>8
<1> HIDE DEF T
<1>10. PICK i \in Nat, i2 \in Nat, v \in Nat, z \in Nat :
         /\ AtLast(tr, i, z) /\ AtLast(tr2, i2, v) /\ v <= z /\ end.at = <<v, z>>
         /\ Carries(tr, tr2, i, i2, v, end) => AgreeTo(tr, tr2, t, x + 1)
  BY <1>9 DEF BothPlaced
<1>11. z = 0 /\ v = 0
  BY <1>10
<1>12. i = Len(tr) /\ i2 = Len(tr2)
  BY <1>10, <1>11, AtTop
<1>13. Carries(tr, tr2, i, i2, v, end)
  BY <1>11, <1>12 DEF Carries, AgreeTo
<1> QED BY <1>3, <1>10, <1>13

LEMMA NothingIsRewritten ==
  ASSUME NEW tr, IsTree(tr), NEW tr2, IsTree(tr2), NEW proof, IsSeq(proof), Len(tr2[1]) > 0,
         VerifyConsistency(Len(tr2[1]), Len(tr[1]), TopOf(tr2), TopOf(tr), proof)
  PROVE  /\ Len(tr2[1]) <= Len(tr[1])
         /\ \A j \in 1 .. Len(tr2[1]) : tr[1][j] = tr2[1][j]
<1> DEFINE m == Len(tr2[1])
           n == Len(tr[1])
<1>1. m \in Nat /\ n \in Nat /\ 1 \in 1 .. Len(tr) /\ 1 \in 1 .. Len(tr2)
  BY SeqFacts DEF IsTree
<1>2. m <= n
  BY <1>1 DEF VerifyConsistency
<1> DEFINE a == m - 1
           b == n - 1
<1>3. a \in Nat /\ b \in Nat /\ a <= b /\ m = a + 1 /\ n = b + 1
  BY <1>1, <1>2
<1>4. AtLast(tr, 1, b) /\ AtLast(tr2, 1, a)
  BY <1>1, <1>3 DEF AtLast
<1>5. TopOf(tr) = tr[Len(tr)][1] /\ TopOf(tr2) = tr2[Len(tr2)][1]
  <2>1. tr[1] # <<>> /\ tr2[1] # <<>>
    BY <1>1, <1>2
  <2> QED BY <2>1 DEF TopOf
<1>6. AgreeTo(tr, tr2, 1, a + 1)
  <2>1. CASE m = n
    <3>1. tr[Len(tr)][1] = tr2[Len(tr2)][1]
      BY <1>1, <1>5, <2>1 DEF VerifyConsistency
    <3>2. AtLast(tr, 1, a) /\ SameBelow(a)
      BY <1>3, <1>4, <2>1, EqualTops
    <3> HIDE DEF a, b
    <3> QED BY <1>4, <3>1, <3>2, Zenon DEF SameBelow
  <2>2. CASE m # n
    <3> DEFINE at == OnesStripped(<<a, b>>)
               full == at[1] = 0
               seed == IF full THEN TopOf(tr2) ELSE Head(proof)
               steps == IF full THEN proof ELSE Tail(proof)
               end == WalkBoth([ok |-> TRUE, at |-> at, old |-> seed, new |-> seed], steps)
    <3>1. /\ full \/ proof # <<>>
          /\ end.ok /\ end.at[2] = 0 /\ end.old = TopOf(tr2) /\ end.new = TopOf(tr)
      BY <1>1, <1>2, <2>2 DEF VerifyConsistency, WalkBoth
    <3>2. IsSeq(steps)
      BY <3>1, TailIsSeq
    <3> DEFINE start == [ok |-> TRUE, at |-> at, old |-> seed, new |-> seed]
    <3> HIDE DEF seed, steps, full, a, b
    <3>3. PICK w : /\ w[0] = start
                   /\ \A j \in 1 .. Len(steps) : w[j] = ClimbBoth(w[j - 1], steps[j])
                   /\ WalkBoth(start, steps) = w[Len(steps)]
      BY <3>2, ClimbBothSteps
    <3> DEFINE last == w[Len(steps)]
    <3>4. last.ok /\ last.at[2] = 0 /\ last.old = tr2[Len(tr2)][1] /\ last.new = tr[Len(tr)][1]
      BY <1>5, <3>1, <3>3
    <3> HIDE DEF last
    <3>5. last = w[Len(steps)] /\ w[0] = [ok |-> TRUE, at |-> OnesStripped(<<a, b>>), old |-> seed, new |-> seed]
      BY <3>3 DEF last
    <3> QED BY <1>3, <1>4, <3>2, <3>3, <3>4, <3>5, WalkAgrees
  <2> QED BY <2>1, <2>2
<1> QED BY <1>2, <1>3, <1>6 DEF AgreeTo

--------------------------------------------------------------------------
(* What the cache keeps is a tree, and both logs are sequences.              *)
TreeInv == IsTree(levels) /\ IsSeq(other)

LEMMA AppendIsSeq ==
  ASSUME NEW s, IsSeq(s), NEW e
  PROVE  IsSeq(Append(s, e)) /\ Len(Append(s, e)) = Len(s) + 1
         /\ \A j \in 1 .. Len(s) : Append(s, e)[j] = s[j]
<1>1. s \in Seq(ToSet(s) \cup {e}) /\ e \in ToSet(s) \cup {e}
  BY DEF IsSeq
<1>2. Append(s, e) \in Seq(ToSet(s) \cup {e})
  BY <1>1
<1>3. Len(Append(s, e)) = Len(s) + 1 /\ \A j \in 1 .. Len(s) : Append(s, e)[j] = s[j]
  BY <1>1
<1>4. IsSeq(Append(s, e))
  BY <1>2, SeqIsSeq
<1> QED BY <1>3, <1>4

LEMMA TreeInit == LogInit => TreeInv
<1> SUFFICES ASSUME LogInit PROVE TreeInv
  OBVIOUS
<1>1. IsSeq(<<>>) /\ IsSeq(<<(<<>>)>>)
  BY DEF IsSeq, ToSet
<1>2. levels = <<(<<>>)>> /\ other = <<>>
  BY DEF LogInit
<1>3. /\ Len(levels) = 1 /\ levels[1] = <<>> /\ Len(levels[1]) = 0
  BY <1>2
<1> QED BY <1>1, <1>2, <1>3 DEF TreeInv, IsTree

LEMMA TreeStep == TreeInv /\ [LogNext]_logVars => TreeInv'
<1> SUFFICES ASSUME TreeInv, [LogNext]_logVars PROVE TreeInv'
  OBVIOUS
<1>1. ASSUME NEW d \in Data, AppendLeaf(d) PROVE TreeInv'
  <2> DEFINE leaves == Append(LeafLevel, Leaf(d))
  <2>1. IsTree(levels) /\ IsSeq(levels[1]) /\ IsSeq(other)
    BY SeqFacts DEF TreeInv, IsTree
  <2>2. /\ IsSeq(leaves) /\ Len(leaves) = Len(levels[1]) + 1
        /\ \A j \in 1 .. Len(levels[1]) : leaves[j] = levels[1][j]
    BY <2>1, AppendIsSeq DEF LeafLevel
  <2> HIDE DEF leaves
  <2>3. IsTree(LevelsOver(leaves, levels))
    BY <2>1, <2>2, LevelsMakeATree
  <2>4. levels' = LevelsOver(leaves, levels) /\ other' = other
    BY <1>1 DEF AppendLeaf, leaves
  <2> QED BY <2>1, <2>3, <2>4 DEF TreeInv
<1>2. ASSUME NEW d \in Data, AppendOther(d) PROVE TreeInv'
  <2>1. levels' = levels /\ other' = Append(other, Leaf(d))
    BY <1>2 DEF AppendOther
  <2>2. IsTree(levels) /\ IsSeq(other)
    BY DEF TreeInv
  <2> QED BY <2>1, <2>2, AppendIsSeq DEF TreeInv
<1>3. CASE UNCHANGED logVars
  BY <1>3 DEF TreeInv, logVars
<1> QED BY <1>1, <1>2, <1>3 DEF LogNext

(* Appended to one leaf at a time, the cached levels are always a whole      *)
(* binary tree over the leaves (CachedLog.append keeps all but the last node  *)
(* of a level), whatever the size of the log.                                *)
THEOREM CacheStaysATree == LogSpec => []TreeInv
BY TreeInit, TreeStep, PTL DEF LogSpec

(* The same for every sequence of anything at all as the proof.              *)
OnlyLeavesAreIncluded ==
  \A i \in Nat : \A proof, leaf :
    IsSeq(proof) /\ VerifyInclusion(leaf, i, Len(LeafLevel), proof, CachedRoot)
      => i < Len(LeafLevel) /\ leaf = LeafLevel[i + 1]

OnlyPrefixesAreConsistent ==
  \A proof :
    IsSeq(proof) /\ other # <<>> =>
      (VerifyConsistency(Len(other), Len(LeafLevel), TopOf(Rebuilt(other)), CachedRoot, proof)
         => IsPrefix(other, LeafLevel))

LEMMA LeavesAreIncluded == TreeInv => OnlyLeavesAreIncluded
<1> SUFFICES ASSUME TreeInv, NEW i \in Nat, NEW proof, NEW leaf, IsSeq(proof),
                    VerifyInclusion(leaf, i, Len(LeafLevel), proof, CachedRoot)
             PROVE  i < Len(LeafLevel) /\ leaf = LeafLevel[i + 1]
  BY DEF OnlyLeavesAreIncluded
<1>1. IsTree(levels)
  BY DEF TreeInv
<1>2. VerifyInclusion(leaf, i, Len(levels[1]), proof, TopOf(levels))
  BY DEF LeafLevel, CachedRoot
<1> QED BY <1>1, <1>2, NothingElseIsProved DEF LeafLevel

LEMMA PrefixesAreConsistent == TreeInv => OnlyPrefixesAreConsistent
<1> SUFFICES ASSUME TreeInv PROVE OnlyPrefixesAreConsistent
  OBVIOUS
<1> SUFFICES ASSUME NEW proof, IsSeq(proof), other # <<>>,
                    VerifyConsistency(Len(other), Len(LeafLevel), TopOf(Rebuilt(other)),
                                      CachedRoot, proof)
             PROVE  IsPrefix(other, LeafLevel)
  BY Zenon DEF OnlyPrefixesAreConsistent
<1> DEFINE tr2 == Rebuilt(other)
<1>1. IsTree(levels) /\ IsSeq(other)
  BY DEF TreeInv
<1>2. IsTree(tr2) /\ tr2[1] = other
  BY <1>1, LevelsMakeATree DEF Rebuilt
<1>3. VerifyConsistency(Len(other), Len(levels[1]), TopOf(tr2), TopOf(levels), proof)
  BY DEF LeafLevel, CachedRoot
<1>4. /\ Len(other) \in Nat /\ Len(levels[1]) \in Nat
      /\ other \in Seq(ToSet(other)) /\ levels[1] \in Seq(ToSet(levels[1]))
  <2>1. IsSeq(levels[1])
    BY <1>1, SeqFacts DEF IsTree
  <2> QED BY <1>1, <2>1 DEF IsSeq
<1>5. Len(other) > 0
  BY <1>4
<1> HIDE DEF tr2
<1>6. /\ Len(other) <= Len(levels[1])
      /\ \A j \in 1 .. Len(other) : levels[1][j] = other[j]
  BY <1>1, <1>2, <1>3, <1>5, NothingIsRewritten
<1>7. SubSeq(other, 1, Len(other)) = SubSeq(levels[1], 1, Len(other))
  BY <1>4, <1>6
<1> QED BY <1>6, <1>7 DEF IsPrefix, LeafLevel

LEMMA ForgeriesAreSequences ==
  ASSUME NEW nodes, NEW proof \in Forgeries(nodes) PROVE IsSeq(proof)
<1>1. PICK n \in 0 .. MaxForged : proof \in [1 .. n -> nodes]
  BY DEF Forgeries, BoundedSeq, SeqOf
<1>2. CASE n \in Nat
  BY <1>1, <1>2, MadeSeq
<1> QED BY <1>1, <1>2

(* However large the log and whatever the proof, nothing verifies as the     *)
(* leaf at an index but the leaf that is there (merkle.verify_inclusion).    *)
THEOREM NothingFalseIsIncluded == LogSpec => [](OnlyLeavesAreIncluded /\ InclusionIsSound)
<1>1. OnlyLeavesAreIncluded => InclusionIsSound
  <2> SUFFICES ASSUME OnlyLeavesAreIncluded, NEW i \in 0 .. Len(LeafLevel), NEW d \in Data,
                      NEW proof \in Forgeries(Terms(levels)),
                      VerifyInclusion(Leaf(d), i, Len(LeafLevel), proof, CachedRoot)
               PROVE  i < Len(LeafLevel) /\ LeafLevel[i + 1] = Leaf(d)
    BY DEF InclusionIsSound
  <2>1. IsSeq(proof) /\ i \in Nat
    BY ForgeriesAreSequences
  <2> QED BY <2>1 DEF OnlyLeavesAreIncluded
<1> QED BY <1>1, CacheStaysATree, LeavesAreIncluded, PTL

(* However large two logs and whatever the proof, one does not verify as an  *)
(* extension of the other, not empty one, that it does not extend            *)
(* (merkle.verify_consistency).                                              *)
THEOREM NothingFalseIsConsistent == LogSpec => [](OnlyPrefixesAreConsistent /\ ConsistencyIsSound)
<1>1. OnlyPrefixesAreConsistent => ConsistencyIsSound
  <2> SUFFICES ASSUME OnlyPrefixesAreConsistent, other # <<>>,
                      NEW proof \in Forgeries(Terms(levels) \cup Terms(Rebuilt(other))),
                      VerifyConsistency(Len(other), Len(LeafLevel), TopOf(Rebuilt(other)),
                                        CachedRoot, proof)
               PROVE  IsPrefix(other, LeafLevel)
    BY DEF ConsistencyIsSound
  <2>1. IsSeq(proof)
    BY ForgeriesAreSequences
  <2> QED BY <2>1 DEF OnlyPrefixesAreConsistent
<1> QED BY <1>1, CacheStaysATree, PrefixesAreConsistent, PTL

--------------------------------------------------------------------------
(* The normative definitions. The largest power of two below a number is     *)
(* positive and below it, and the width of a level's nodes is the one of a    *)
(* number that needs a node of the next level.                               *)
IsLpo(f, n) == f = [k \in 2 .. n |-> IF k = 2 THEN 1 ELSE 2 * f[(k + 1) \div 2]]

LEMMA LpoExists ==
  ASSUME NEW n \in Nat PROVE \E f : IsLpo(f, n)
<1> DEFINE T == {k \in Nat : \E f : IsLpo(f, k)}
<1>1. 0 \in T
  <2>1. IsLpo([k \in 2 .. 0 |-> 0], 0)
    BY DEF IsLpo
  <2> QED BY <2>1
<1>2. ASSUME NEW k \in 0 .. n, k \in T PROVE k + 1 \in T
  <2>1. PICK f : IsLpo(f, k)
    BY <1>2
  <2> DEFINE more == [i \in 2 .. k + 1 |-> IF i = 2 THEN 1
                                           ELSE IF i = k + 1 THEN 2 * f[(i + 1) \div 2] ELSE f[i]]
  <2>2. \A i \in 2 .. k + 1 : i # k + 1 => i \in 2 .. k
    OBVIOUS
  <2>3. \A i \in 2 .. k + 1 : i # 2 => (i + 1) \div 2 \in 2 .. k
    OBVIOUS
  <2>4. \A i \in 2 .. k : f[i] = IF i = 2 THEN 1 ELSE 2 * f[(i + 1) \div 2]
    BY <2>1 DEF IsLpo
  <2>5. \A i \in 2 .. k : more[i] = f[i]
    BY <2>4
  <2>6. \A i \in 2 .. k + 1 : more[i] = IF i = 2 THEN 1 ELSE 2 * more[(i + 1) \div 2]
    <3> SUFFICES ASSUME NEW i \in 2 .. k + 1
                 PROVE  more[i] = IF i = 2 THEN 1 ELSE 2 * more[(i + 1) \div 2]
      OBVIOUS
    <3>1. i # 2 => more[(i + 1) \div 2] = f[(i + 1) \div 2]
      <4> HIDE DEF more
      <4> QED BY <2>3, <2>5
    <3>2. more[i] = IF i = 2 THEN 1 ELSE IF i = k + 1 THEN 2 * f[(i + 1) \div 2] ELSE f[i]
      OBVIOUS
    <3> HIDE DEF more
    <3> QED BY <2>2, <2>4, <3>1, <3>2
  <2>7. more = [i \in 2 .. k + 1 |-> more[i]]
    OBVIOUS
  <2>8. IsLpo(more, k + 1)
    <3> HIDE DEF more
    <3> QED BY <2>6, <2>7 DEF IsLpo
  <2> QED BY <2>8
<1>3. n \in T
  <2> HIDE DEF T
  <2> QED BY <1>1, <1>2, Upwards
<1> QED BY <1>3

LEMMA LpoByOne ==
  ASSUME NEW n \in Nat, n >= 2
  PROVE  \E f : /\ Lpo2(n) = f[n]
                /\ \A k \in 2 .. n : f[k] = IF k = 2 THEN 1 ELSE 2 * f[(k + 1) \div 2]
<1> DEFINE f == CHOOSE g : IsLpo(g, n)
<1>1. IsLpo(f, n)
  BY LpoExists
<1>2. Lpo2(n) = f[n]
  BY DEF Lpo2, IsLpo
<1> HIDE DEF f
<1>3. \A k \in 2 .. n : f[k] = IF k = 2 THEN 1 ELSE 2 * f[(k + 1) \div 2]
  BY <1>1 DEF IsLpo
<1> QED BY <1>2, <1>3

LEMMA LpoBelow ==
  ASSUME NEW n \in Nat, n >= 2 PROVE Lpo2(n) \in Nat /\ 1 <= Lpo2(n) /\ Lpo2(n) < n
<1>1. PICK f : /\ Lpo2(n) = f[n]
               /\ \A k \in 2 .. n : f[k] = IF k = 2 THEN 1 ELSE 2 * f[(k + 1) \div 2]
  BY LpoByOne
<1> DEFINE Good(k) == f[k] \in Nat /\ 1 <= f[k] /\ f[k] < k
           Bad == {k \in 2 .. n : ~Good(k)}
<1>2. SUFFICES ASSUME Bad # {} PROVE FALSE
  <2>1. n \in 2 .. n
    OBVIOUS
  <2> QED BY <1>1, <1>2, <2>1
<1>3. PICK k \in Bad : \A j \in Bad : k <= j
  <2>1. Bad \in SUBSET Nat
    OBVIOUS
  <2> HIDE DEF Bad
  <2> QED BY <1>2, <2>1, Least
<1>4. k \in 2 .. n /\ k # 2
  BY <1>1, <1>3
<1> DEFINE j == (k + 1) \div 2
<1>5. j \in 2 .. n /\ j < k /\ 2 * j <= k + 1
  BY <1>4
<1>6. Good(j)
  <2>1. j \notin Bad
    <3> HIDE DEF Bad, j
    <3> QED BY <1>3, <1>4, <1>5
  <2> HIDE DEF j, Good
  <2> QED BY <1>5, <2>1
<1>7. f[k] = 2 * f[j]
  BY <1>1, <1>4
<1> HIDE DEF j
<1>8. Good(k)
  BY <1>4, <1>5, <1>6, <1>7
<1> QED BY <1>3, <1>8

(* The widths of the levels, the leaves first.                               *)
AreWidths(s, n) == \A i \in 1 .. n : /\ s[i] \in Nat /\ s[i] >= 1
                                     /\ s[i] = IF i = 1 THEN 1 ELSE 2 * s[i - 1]

LEMMA WidthsExist ==
  ASSUME NEW n \in Nat PROVE \E s : AreWidths(s, n)
<1> DEFINE T == {k \in Nat : \E s : AreWidths(s, k)}
<1>1. 0 \in T
  <2>1. AreWidths(<<>>, 0)
    BY DEF AreWidths
  <2> QED BY <2>1
<1>2. ASSUME NEW k \in 0 .. n, k \in T PROVE k + 1 \in T
  <2>1. PICK s : AreWidths(s, k)
    BY <1>2
  <2> DEFINE more == [i \in 1 .. k + 1 |-> IF i = 1 THEN 1 ELSE IF i = k + 1 THEN 2 * s[k] ELSE s[i]]
  <2>2. \A i \in 1 .. k : s[i] \in Nat /\ s[i] >= 1 /\ s[i] = IF i = 1 THEN 1 ELSE 2 * s[i - 1]
    BY <2>1 DEF AreWidths
  <2>3. \A i \in 1 .. k : more[i] = s[i]
    BY <2>2
  <2>4. more[k + 1] = IF k + 1 = 1 THEN 1 ELSE 2 * s[k]
    OBVIOUS
  <2> HIDE DEF more
  <2>5. \A i \in 1 .. k + 1 : i # k + 1 => i \in 1 .. k /\ (i # 1 => i - 1 \in 1 .. k)
    OBVIOUS
  <2>6. k # 0 => k \in 1 .. k
    OBVIOUS
  <2>7. AreWidths(more, k + 1)
    <3> SUFFICES ASSUME NEW i \in 1 .. k + 1
                 PROVE  /\ more[i] \in Nat /\ more[i] >= 1
                        /\ more[i] = IF i = 1 THEN 1 ELSE 2 * more[i - 1]
      BY DEF AreWidths
    <3>1. CASE i = k + 1
      BY <2>2, <2>3, <2>4, <2>6, <3>1
    <3>2. CASE i # k + 1
      BY <2>2, <2>3, <2>5, <3>2
    <3> QED BY <3>1, <3>2
  <2> QED BY <2>7
<1>3. n \in T
  <2> HIDE DEF T
  <2> QED BY <1>1, <1>2, Upwards
<1> QED BY <1>3

LEMMA LpoIsWidth ==
  ASSUME NEW s, NEW N \in Nat, AreWidths(s, N), NEW i \in 1 .. N,
         NEW n \in Nat, s[i] < n, n <= 2 * s[i]
  PROVE  Lpo2(n) = s[i]
<1>1. n >= 2
  BY DEF AreWidths
<1>2. PICK f : /\ Lpo2(n) = f[n]
               /\ \A k \in 2 .. n : f[k] = IF k = 2 THEN 1 ELSE 2 * f[(k + 1) \div 2]
  BY <1>1, LpoByOne
<1> DEFINE Good(k) == \A j \in 1 .. N : s[j] < k /\ k <= 2 * s[j] => f[k] = s[j]
           Bad == {k \in 2 .. n : ~Good(k)}
<1>3. SUFFICES ASSUME Bad # {} PROVE FALSE
  <2>1. n \in 2 .. n
    BY <1>1
  <2> QED BY <1>2, <1>3, <2>1
<1>4. PICK k \in Bad : \A j \in Bad : k <= j
  <2>1. Bad \in SUBSET Nat
    OBVIOUS
  <2> HIDE DEF Bad
  <2> QED BY <1>3, <2>1, Least
<1>5. PICK j \in 1 .. N : s[j] < k /\ k <= 2 * s[j] /\ f[k] # s[j]
  BY <1>4
<1>6. k \in 2 .. n /\ s[j] \in Nat /\ s[j] >= 1 /\ s[j] = IF j = 1 THEN 1 ELSE 2 * s[j - 1]
  BY <1>4 DEF AreWidths
<1>7. f[k] = IF k = 2 THEN 1 ELSE 2 * f[(k + 1) \div 2]
  BY <1>2, <1>6
<1>8. CASE k = 2
  BY <1>5, <1>6, <1>7, <1>8
<1>9. CASE k # 2
  <2> DEFINE h == (k + 1) \div 2
             v == s[j - 1]
  <2>1. j # 1 /\ j - 1 \in 1 .. N
    BY <1>5, <1>6, <1>9
  <2>2. v \in Nat /\ s[j] = 2 * v
    BY <1>6, <2>1 DEF AreWidths
  <2>3. h \in 2 .. n /\ h < k
    BY <1>6, <1>9
  <2>4. v < h /\ h <= 2 * v
    <3> HIDE DEF v
    <3> QED BY <1>5, <1>6, <1>9, <2>2
  <2>5. Good(h)
    <3>1. h \notin Bad
      <4> HIDE DEF Bad, h
      <4> QED BY <1>4, <1>6, <2>3
    <3> HIDE DEF h, Good
    <3> QED BY <2>3, <3>1
  <2>6. f[h] = v
    <3> HIDE DEF h
    <3> QED BY <2>1, <2>4, <2>5
  <2>7. f[k] = 2 * f[h]
    BY <1>7, <1>9
  <2> HIDE DEF h, v
  <2> QED BY <1>5, <2>2, <2>6, <2>7
<1> QED BY <1>8, <1>9

--------------------------------------------------------------------------
(* The recursions over the size of a tree; each is a function, as what is     *)
(* given to a size is made of what is given to smaller ones.                 *)
RootOf(f, h, n, lo, a) ==
  IF n = 0 THEN EmptyRoot ELSE IF n = 1 THEN h[lo + 1] ELSE Node(f[a][lo], f[n - a][lo + a])
RootRow(f, h, n) == [lo \in 0 .. Len(h) - n |-> RootOf(f, h, n, lo, Lpo2(n))]
AreRoots(f, h, k) == f = [n \in 0 .. k |-> RootRow(f, h, n)]

LEMMA RootRowsKeep ==
  ASSUME NEW h, NEW n \in Nat, n >= 0, NEW f, NEW g,
         n >= 2 => f[Lpo2(n)] = g[Lpo2(n)] /\ f[n - Lpo2(n)] = g[n - Lpo2(n)]
  PROVE  RootRow(f, h, n) = RootRow(g, h, n)
<1>1. CASE n >= 2
  <2> DEFINE a == Lpo2(n)
  <2>1. f[a] = g[a] /\ f[n - a] = g[n - a]
    BY <1>1
  <2> HIDE DEF a
  <2>2. \A lo \in 0 .. Len(h) - n : RootOf(f, h, n, lo, a) = RootOf(g, h, n, lo, a)
    BY <2>1 DEF RootOf
  <2> QED BY <2>2 DEF RootRow, a
<1>2. CASE n < 2
  <2>1. \A lo \in 0 .. Len(h) - n : RootOf(f, h, n, lo, Lpo2(n)) = RootOf(g, h, n, lo, Lpo2(n))
    BY <1>2 DEF RootOf
  <2> QED BY <2>1 DEF RootRow
<1> QED BY <1>1, <1>2

LEMMA RootsExist ==
  ASSUME NEW h, NEW n \in Nat PROVE \E f : AreRoots(f, h, n)
<1> DEFINE T == {k \in Nat : \E f : AreRoots(f, h, k)}
<1>1. 0 \in T
  <2>1. AreRoots([k \in 0 .. 0 |-> RootRow(<<>>, h, k)], h, 0)
    <3> DEFINE f == [k \in 0 .. 0 |-> RootRow(<<>>, h, k)]
    <3>1. \A k \in 0 .. 0 : f[k] = RootRow(<<>>, h, k) /\ k \in Nat /\ k >= 0 /\ ~(k >= 2)
      OBVIOUS
    <3>2. f = [k \in 0 .. 0 |-> f[k]]
      OBVIOUS
    <3> HIDE DEF f
    <3>3. \A k \in 0 .. 0 : f[k] = RootRow(f, h, k)
      BY <3>1, RootRowsKeep
    <3>4. AreRoots(f, h, 0)
      BY <3>2, <3>3 DEF AreRoots
    <3> QED BY <3>4 DEF f
  <2> QED BY <2>1
<1>2. ASSUME NEW k \in 0 .. n, k \in T PROVE k + 1 \in T
  <2>1. PICK f : AreRoots(f, h, k)
    BY <1>2
  <2> DEFINE more == [i \in 0 .. k + 1 |-> IF i = k + 1 THEN RootRow(f, h, i) ELSE f[i]]
  <2>2. \A i \in 0 .. k : f[i] = RootRow(f, h, i)
    BY <2>1 DEF AreRoots
  <2>3. \A i \in 0 .. k : more[i] = f[i]
    OBVIOUS
  <2>4. more[k + 1] = RootRow(f, h, k + 1)
    OBVIOUS
  <2>5. more = [i \in 0 .. k + 1 |-> more[i]]
    OBVIOUS
  <2> HIDE DEF more
  <2>6. \A i \in 0 .. k + 1 : more[i] = RootRow(more, h, i)
    <3> SUFFICES ASSUME NEW i \in 0 .. k + 1 PROVE more[i] = RootRow(more, h, i)
      OBVIOUS
    <3>1. i \in Nat /\ i >= 0 /\ (i # k + 1 => i \in 0 .. k)
      OBVIOUS
    <3>2. i >= 2 => /\ Lpo2(i) \in 0 .. k /\ i - Lpo2(i) \in 0 .. k
      BY LpoBelow
    <3>3. i >= 2 => more[Lpo2(i)] = f[Lpo2(i)] /\ more[i - Lpo2(i)] = f[i - Lpo2(i)]
      BY <2>3, <3>2
    <3>4. RootRow(more, h, i) = RootRow(f, h, i)
      BY <3>1, <3>3, RootRowsKeep
    <3> QED BY <2>2, <2>3, <2>4, <3>1, <3>4
  <2>7. AreRoots(more, h, k + 1)
    BY <2>5, <2>6 DEF AreRoots
  <2> QED BY <2>7
<1>3. n \in T
  <2> HIDE DEF T
  <2> QED BY <1>1, <1>2, Upwards
<1> QED BY <1>3

LEMMA RootsAre ==
  ASSUME NEW h, IsSeq(h) PROVE AreRoots(Roots(h), h, Len(h))
<1>1. Roots(h) = CHOOSE f : AreRoots(f, h, Len(h))
  BY DEF Roots, AreRoots, RootRow, RootOf
<1>2. \E f : AreRoots(f, h, Len(h))
  BY SeqFacts, RootsExist
<1> QED BY <1>1, <1>2

(* What the root is over one leaf, and over more.                            *)
LEMMA RootOfOne ==
  ASSUME NEW h, IsSeq(h), NEW lo \in Nat, lo + 1 <= Len(h)
  PROVE  Roots(h)[1][lo] = h[lo + 1]
<1> DEFINE f == Roots(h)
<1>1. AreRoots(f, h, Len(h)) /\ Len(h) \in Nat
  BY RootsAre, SeqFacts
<1> HIDE DEF f
<1>2. f[1] = RootRow(f, h, 1)
  BY <1>1 DEF AreRoots
<1>3. lo \in 0 .. Len(h) - 1
  BY <1>1
<1>4. f[1][lo] = RootOf(f, h, 1, lo, Lpo2(1))
  BY <1>2, <1>3 DEF RootRow
<1> QED BY <1>4 DEF RootOf, f

LEMMA RootOfMore ==
  ASSUME NEW h, IsSeq(h), NEW n \in Nat, n >= 2, NEW lo \in Nat, lo + n <= Len(h)
  PROVE  Roots(h)[n][lo] = Node(Roots(h)[Lpo2(n)][lo], Roots(h)[n - Lpo2(n)][lo + Lpo2(n)])
<1> DEFINE f == Roots(h)
           a == Lpo2(n)
<1>1. AreRoots(f, h, Len(h)) /\ Len(h) \in Nat
  BY RootsAre, SeqFacts
<1> HIDE DEF f, a
<1>2. f[n] = RootRow(f, h, n)
  BY <1>1 DEF AreRoots
<1>3. lo \in 0 .. Len(h) - n
  BY <1>1
<1>4. f[n][lo] = RootOf(f, h, n, lo, a)
  BY <1>2, <1>3 DEF RootRow, a
<1>5. n # 0 /\ n # 1
  OBVIOUS
<1>6. f[n][lo] = Node(f[a][lo], f[n - a][lo + a])
  BY <1>4, <1>5 DEF RootOf
<1> QED BY <1>6 DEF f, a

LEMMA RootIsAtTheEnd ==
  ASSUME NEW h, IsSeq(h) PROVE Len(h) = 0 => Root(h) = EmptyRoot
<1> DEFINE f == Roots(h)
<1>1. AreRoots(f, h, Len(h)) /\ Len(h) \in Nat
  BY RootsAre, SeqFacts
<1> HIDE DEF f
<1> SUFFICES ASSUME Len(h) = 0 PROVE Root(h) = EmptyRoot
  OBVIOUS
<1>2. f[0] = RootRow(f, h, 0)
  BY <1>1 DEF AreRoots
<1>3. f[0][0] = RootOf(f, h, 0, 0, Lpo2(0))
  BY <1>2 DEF RootRow
<1> QED BY <1>3 DEF RootOf, Root, f

--------------------------------------------------------------------------
PathOf(f, h, index, n, lo, a) ==
  IF n = 1 THEN <<>>
  ELSE IF index < lo + a THEN Append(f[a][lo], Roots(h)[n - a][lo + a])
  ELSE Append(f[n - a][lo + a], Roots(h)[a][lo])
PathRow(f, h, index, n) == [lo \in 0 .. Len(h) - n |-> PathOf(f, h, index, n, lo, Lpo2(n))]
ArePaths(f, h, index, k) == f = [n \in 1 .. k |-> PathRow(f, h, index, n)]

LEMMA PathRowsKeep ==
  ASSUME NEW h, NEW index, NEW n \in Nat, n >= 1, NEW f, NEW g,
         n >= 2 => f[Lpo2(n)] = g[Lpo2(n)] /\ f[n - Lpo2(n)] = g[n - Lpo2(n)]
  PROVE  PathRow(f, h, index, n) = PathRow(g, h, index, n)
<1>1. CASE n >= 2
  <2> DEFINE a == Lpo2(n)
  <2>1. f[a] = g[a] /\ f[n - a] = g[n - a]
    BY <1>1
  <2> HIDE DEF a
  <2>2. \A lo \in 0 .. Len(h) - n : PathOf(f, h, index, n, lo, a) = PathOf(g, h, index, n, lo, a)
    BY <2>1 DEF PathOf
  <2> QED BY <2>2 DEF PathRow, a
<1>2. CASE n < 2
  <2>1. \A lo \in 0 .. Len(h) - n : PathOf(f, h, index, n, lo, Lpo2(n)) = PathOf(g, h, index, n, lo, Lpo2(n))
    BY <1>2 DEF PathOf
  <2> QED BY <2>1 DEF PathRow
<1> QED BY <1>1, <1>2

LEMMA PathsExist ==
  ASSUME NEW h, NEW index, NEW n \in Nat PROVE \E f : ArePaths(f, h, index, n)
<1> DEFINE T == {k \in Nat : \E f : ArePaths(f, h, index, k)}
<1>1. 0 \in T
  <2>1. ArePaths([k \in 1 .. 0 |-> PathRow(<<>>, h, index, k)], h, index, 0)
    BY DEF ArePaths
  <2> QED BY <2>1
<1>2. ASSUME NEW k \in 0 .. n, k \in T PROVE k + 1 \in T
  <2>1. PICK f : ArePaths(f, h, index, k)
    BY <1>2
  <2> DEFINE more == [i \in 1 .. k + 1 |-> IF i = k + 1 THEN PathRow(f, h, index, i) ELSE f[i]]
  <2>2. \A i \in 1 .. k : f[i] = PathRow(f, h, index, i)
    BY <2>1 DEF ArePaths
  <2>3. \A i \in 1 .. k : more[i] = f[i]
    OBVIOUS
  <2>4. more[k + 1] = PathRow(f, h, index, k + 1)
    OBVIOUS
  <2>5. more = [i \in 1 .. k + 1 |-> more[i]]
    OBVIOUS
  <2> HIDE DEF more
  <2>6. \A i \in 1 .. k + 1 : more[i] = PathRow(more, h, index, i)
    <3> SUFFICES ASSUME NEW i \in 1 .. k + 1 PROVE more[i] = PathRow(more, h, index, i)
      OBVIOUS
    <3>1. i \in Nat /\ i >= 1 /\ (i # k + 1 => i \in 1 .. k)
      OBVIOUS
    <3>2. i >= 2 => /\ Lpo2(i) \in 1 .. k /\ i - Lpo2(i) \in 1 .. k
      BY LpoBelow
    <3>3. i >= 2 => more[Lpo2(i)] = f[Lpo2(i)] /\ more[i - Lpo2(i)] = f[i - Lpo2(i)]
      BY <2>3, <3>2
    <3>4. PathRow(more, h, index, i) = PathRow(f, h, index, i)
      BY <3>1, <3>3, PathRowsKeep
    <3> QED BY <2>2, <2>3, <2>4, <3>1, <3>4
  <2>7. ArePaths(more, h, index, k + 1)
    BY <2>5, <2>6 DEF ArePaths
  <2> QED BY <2>7
<1>3. n \in T
  <2> HIDE DEF T
  <2> QED BY <1>1, <1>2, Upwards
<1> QED BY <1>3

ArePartPaths(f, h, index) ==
  \A n \in 1 .. Len(h), lo \in Nat :
    lo + n <= Len(h) => f[n][lo] = PathOf(f, h, index, n, lo, Lpo2(n))

(* The audit path of a leaf, in any part of the tree that holds it.           *)
LEMMA PathsByPart ==
  ASSUME NEW h, IsSeq(h), NEW index
  PROVE  \E f : InclusionProof(index, h) = f[Len(h)][0] /\ ArePartPaths(f, h, index)
<1> DEFINE f == CHOOSE g : ArePaths(g, h, index, Len(h))
<1>1. ArePaths(f, h, index, Len(h)) /\ Len(h) \in Nat
  BY PathsExist, SeqFacts
<1>2. InclusionProof(index, h) = f[Len(h)][0]
  BY DEF InclusionProof, ArePaths, PathRow, PathOf
<1> HIDE DEF f
<1>3. ASSUME NEW n \in 1 .. Len(h), NEW lo \in Nat, lo + n <= Len(h)
      PROVE  f[n][lo] = PathOf(f, h, index, n, lo, Lpo2(n))
  <2>1. f[n] = PathRow(f, h, index, n)
    BY <1>1 DEF ArePaths
  <2>2. lo \in 0 .. Len(h) - n
    BY <1>1, <1>3
  <2> QED BY <2>1, <2>2 DEF PathRow
<1>4. ArePartPaths(f, h, index)
  BY <1>3 DEF ArePartPaths
<1> QED BY <1>2, <1>4

--------------------------------------------------------------------------
SubOf(f, h, m, n, lo, a) ==
  IF m = lo + n THEN IF lo = 0 THEN <<>> ELSE <<Roots(h)[n][lo]>>
  ELSE IF m <= lo + a THEN Append(f[a][lo], Roots(h)[n - a][lo + a])
  ELSE Append(f[n - a][lo + a], Roots(h)[a][lo])
SubParts(h, m, n) == {l \in 0 .. Len(h) - n : l < m /\ m <= l + n}
SubRow(f, h, m, n) == [lo \in SubParts(h, m, n) |-> SubOf(f, h, m, n, lo, Lpo2(n))]
AreSubs(f, h, m, k) == f = [n \in 1 .. k |-> SubRow(f, h, m, n)]

LEMMA SubRowsKeep ==
  ASSUME NEW h, NEW m \in Nat, NEW n \in Nat, n >= 1, NEW f, NEW g,
         n >= 2 => f[Lpo2(n)] = g[Lpo2(n)] /\ f[n - Lpo2(n)] = g[n - Lpo2(n)]
  PROVE  SubRow(f, h, m, n) = SubRow(g, h, m, n)
<1>1. CASE n >= 2
  <2> DEFINE a == Lpo2(n)
  <2>1. f[a] = g[a] /\ f[n - a] = g[n - a]
    BY <1>1
  <2> HIDE DEF a
  <2>2. \A lo \in SubParts(h, m, n) : SubOf(f, h, m, n, lo, a) = SubOf(g, h, m, n, lo, a)
    BY <2>1 DEF SubOf
  <2> QED BY <2>2 DEF SubRow, a
<1>2. CASE n < 2
  <2>1. \A lo \in SubParts(h, m, n) : SubOf(f, h, m, n, lo, Lpo2(n)) = SubOf(g, h, m, n, lo, Lpo2(n))
    BY <1>2 DEF SubOf, SubParts
  <2> QED BY <2>1 DEF SubRow
<1> QED BY <1>1, <1>2

LEMMA SubsExist ==
  ASSUME NEW h, NEW m \in Nat, NEW n \in Nat PROVE \E f : AreSubs(f, h, m, n)
<1> DEFINE T == {k \in Nat : \E f : AreSubs(f, h, m, k)}
<1>1. 0 \in T
  <2>1. AreSubs([k \in 1 .. 0 |-> SubRow(<<>>, h, m, k)], h, m, 0)
    BY DEF AreSubs
  <2> QED BY <2>1
<1>2. ASSUME NEW k \in 0 .. n, k \in T PROVE k + 1 \in T
  <2>1. PICK f : AreSubs(f, h, m, k)
    BY <1>2
  <2> DEFINE more == [i \in 1 .. k + 1 |-> IF i = k + 1 THEN SubRow(f, h, m, i) ELSE f[i]]
  <2>2. \A i \in 1 .. k : f[i] = SubRow(f, h, m, i)
    BY <2>1 DEF AreSubs
  <2>3. \A i \in 1 .. k : more[i] = f[i]
    OBVIOUS
  <2>4. more[k + 1] = SubRow(f, h, m, k + 1)
    OBVIOUS
  <2>5. more = [i \in 1 .. k + 1 |-> more[i]]
    OBVIOUS
  <2> HIDE DEF more
  <2>6. \A i \in 1 .. k + 1 : more[i] = SubRow(more, h, m, i)
    <3> SUFFICES ASSUME NEW i \in 1 .. k + 1 PROVE more[i] = SubRow(more, h, m, i)
      OBVIOUS
    <3>1. i \in Nat /\ i >= 1 /\ (i # k + 1 => i \in 1 .. k)
      OBVIOUS
    <3>2. i >= 2 => /\ Lpo2(i) \in 1 .. k /\ i - Lpo2(i) \in 1 .. k
      BY LpoBelow
    <3>3. i >= 2 => more[Lpo2(i)] = f[Lpo2(i)] /\ more[i - Lpo2(i)] = f[i - Lpo2(i)]
      BY <2>3, <3>2
    <3>4. SubRow(more, h, m, i) = SubRow(f, h, m, i)
      BY <3>1, <3>3, SubRowsKeep
    <3> QED BY <2>2, <2>3, <2>4, <3>1, <3>4
  <2>7. AreSubs(more, h, m, k + 1)
    BY <2>5, <2>6 DEF AreSubs
  <2> QED BY <2>7
<1>3. n \in T
  <2> HIDE DEF T
  <2> QED BY <1>1, <1>2, Upwards
<1> QED BY <1>3

ArePartSubs(f, h, m) ==
  \A n \in 1 .. Len(h), lo \in Nat :
    lo + n <= Len(h) /\ lo < m /\ m <= lo + n => f[n][lo] = SubOf(f, h, m, n, lo, Lpo2(n))

(* The consistency proof, in any part of the tree in which the old one ends.  *)
LEMMA SubsByPart ==
  ASSUME NEW h, IsSeq(h), NEW m \in Nat, 0 < m, m < Len(h)
  PROVE  \E f : ConsistencyProof(m, h) = f[Len(h)][0] /\ ArePartSubs(f, h, m)
<1> DEFINE f == CHOOSE g : AreSubs(g, h, m, Len(h))
<1>1. AreSubs(f, h, m, Len(h)) /\ Len(h) \in Nat
  BY SubsExist, SeqFacts
<1>2. ConsistencyProof(m, h) = f[Len(h)][0]
  BY DEF ConsistencyProof, AreSubs, SubRow, SubOf, SubParts
<1> HIDE DEF f
<1>3. ASSUME NEW n \in 1 .. Len(h), NEW lo \in Nat, lo + n <= Len(h), lo < m, m <= lo + n
      PROVE  f[n][lo] = SubOf(f, h, m, n, lo, Lpo2(n))
  <2>1. f[n] = SubRow(f, h, m, n)
    BY <1>1 DEF AreSubs
  <2>2. lo \in SubParts(h, m, n)
    BY <1>1, <1>3 DEF SubParts
  <2> QED BY <2>1, <2>2 DEF SubRow
<1>4. ArePartSubs(f, h, m)
  BY <1>3 DEF ArePartSubs
<1> QED BY <1>2, <1>4


--------------------------------------------------------------------------
(* A level's nodes stand over parts of the leaves of one width each, the last *)
(* over what is left of them.                                                *)
LEMMA MoreTimes ==
  ASSUME NEW a \in Nat, NEW b \in Nat, NEW w \in Nat, a <= b
  PROVE  a * w <= b * w
<1> DEFINE d == b - a
<1>1. d \in Nat /\ b = a + d
  OBVIOUS
<1> HIDE DEF d
<1>2. (a + d) * w = a * w + d * w /\ d * w \in Nat /\ a * w \in Nat
  BY <1>1
<1> QED BY <1>1, <1>2

Covers(w, y, size) == y * w < size /\ size <= (y + 1) * w

LEMMA CoversAbove ==
  ASSUME NEW w \in Nat, NEW y \in Nat, NEW size \in Nat, Covers(w, y, size)
  PROVE  Covers(2 * w, y \div 2, size)
<1> DEFINE h == y \div 2
<1>1. h \in Nat /\ 2 * h <= y /\ y + 1 <= 2 * h + 2
  OBVIOUS
<1> HIDE DEF h
<1>2. h * (2 * w) = (2 * h) * w /\ (h + 1) * (2 * w) = (2 * h + 2) * w
  BY <1>1
<1>3. (2 * h) * w <= y * w /\ (y + 1) * w <= (2 * h + 2) * w
  BY <1>1, MoreTimes
<1>4. (2 * h) * w \in Nat /\ y * w \in Nat /\ (y + 1) * w \in Nat /\ (2 * h + 2) * w \in Nat
  BY <1>1
<1>5. Covers(2 * w, h, size)
  BY <1>2, <1>3, <1>4 DEF Covers
<1> QED BY <1>5 DEF h

LEMMA LevelsCover ==
  ASSUME NEW tr, IsTree(tr), Len(tr[1]) > 0, NEW s, AreWidths(s, Len(tr))
  PROVE  \A i \in 1 .. Len(tr), y \in Nat : AtLast(tr, i, y) => Covers(s[i], y, Len(tr[1]))
<1> DEFINE size == Len(tr[1])
           Good(i) == \E y \in Nat : AtLast(tr, i, y) /\ Covers(s[i], y, size)
           T == {i \in 1 .. Len(tr) : Good(i)}
<1>1. Len(tr) \in Nat /\ Len(tr) >= 1 /\ size \in Nat /\ size > 0
  BY SeqFacts DEF IsTree
<1>2. \A i \in 1 .. Len(tr) : s[i] \in Nat /\ s[i] = IF i = 1 THEN 1 ELSE 2 * s[i - 1]
  BY DEF AreWidths
<1>3. 1 \in T
  <2>1. AtLast(tr, 1, size - 1) /\ size - 1 \in Nat
    BY <1>1 DEF AtLast
  <2>2. Covers(s[1], size - 1, size)
    BY <1>1, <1>2 DEF Covers
  <2>3. Good(1)
    BY <2>1, <2>2
  <2> HIDE DEF Good
  <2> QED BY <1>1, <2>3
<1>4. ASSUME NEW i \in 1 .. Len(tr), i \in T, i + 1 <= Len(tr) PROVE i + 1 \in T
  <2>1. PICK y \in Nat : AtLast(tr, i, y) /\ Covers(s[i], y, size)
    BY <1>4
  <2>2. y > 0
    BY <1>1, <1>4, <2>1 DEF AtLast, IsTree
  <2>3. AtLast(tr, i + 1, y \div 2) /\ y \div 2 \in Nat
    BY <2>1, <2>2, HigherLast
  <2>4. s[i + 1] = 2 * s[i] /\ s[i] \in Nat
    BY <1>1, <1>2, <1>4
  <2>5. Covers(s[i + 1], y \div 2, size)
    <3> HIDE DEF size
    <3> QED BY <1>1, <2>1, <2>4, CoversAbove
  <2>6. Good(i + 1)
    <3> DEFINE h == y \div 2
    <3>1. AtLast(tr, i + 1, h) /\ Covers(s[i + 1], h, size) /\ h \in Nat
      BY <2>3, <2>5
    <3> HIDE DEF h, size
    <3> QED BY <3>1
  <2> HIDE DEF Good
  <2> QED BY <1>1, <1>4, <2>6
<1>5. \A i \in 1 .. Len(tr) : i \in T
  <2> HIDE DEF T
  <2> QED BY <1>1, <1>3, <1>4, Upwards
<1>6. ASSUME NEW i \in 1 .. Len(tr), NEW y \in Nat, AtLast(tr, i, y) PROVE Covers(s[i], y, size)
  <2>1. PICK z \in Nat : AtLast(tr, i, z) /\ Covers(s[i], z, size)
    BY <1>5
  <2>2. z = y
    BY <1>6, <2>1 DEF AtLast
  <2> QED BY <2>1, <2>2
<1> QED BY <1>6

(* How much of that width there is from some place on.                       *)
Rest(w, size, lo) == IF size - lo < w THEN size - lo ELSE w

LEMMA TwoParts ==
  ASSUME NEW w \in Nat, w >= 1, NEW k \in Nat, NEW size \in Nat, (2 * k + 1) * w < size,
         NEW lo, lo = k * (2 * w), NEW n, n = Rest(2 * w, size, lo)
  PROVE  /\ lo \in Nat /\ lo = (2 * k) * w /\ (2 * k + 1) * w = lo + w
         /\ n \in Nat /\ w < n /\ n <= 2 * w /\ lo + n <= size
         /\ Rest(w, size, lo) = w /\ Rest(w, size, lo + w) = n - w
<1>1. lo \in Nat /\ lo = (2 * k) * w /\ (2 * k + 1) * w = lo + w
  OBVIOUS
<1>2. lo + w < size
  BY <1>1
<1> QED BY <1>1, <1>2 DEF Rest

LEMMA OnePart ==
  ASSUME NEW w \in Nat, w >= 1, NEW k \in Nat, NEW size \in Nat, Covers(w, 2 * k, size),
         NEW lo, lo = k * (2 * w)
  PROVE  /\ lo \in Nat /\ lo = (2 * k) * w /\ lo < size
         /\ Rest(2 * w, size, lo) = size - lo /\ Rest(w, size, lo) = size - lo
<1>1. lo \in Nat /\ lo = (2 * k) * w /\ (2 * k + 1) * w = lo + w
  OBVIOUS
<1>2. lo < size /\ size <= lo + w
  BY <1>1 DEF Covers
<1> QED BY <1>1, <1>2 DEF Rest

(* The three ways to a node from the x-th of a level of y + 1.                *)
LEMMA FirstOfTwo ==
  ASSUME NEW w \in Nat, NEW y \in Nat, NEW size \in Nat, Covers(w, y, size),
         NEW x \in Nat, x < y, ~Odd(x)
  PROVE  2 * (x \div 2) = x /\ (2 * (x \div 2) + 1) * w < size
<1>1. 2 * (x \div 2) = x /\ x + 1 <= y
  BY DEF Odd
<1>2. (x + 1) * w <= y * w /\ (x + 1) * w \in Nat /\ y * w \in Nat
  BY <1>1, MoreTimes
<1>3. y * w < size
  BY DEF Covers
<1> QED BY <1>1, <1>2, <1>3

LEMMA SecondOfTwo ==
  ASSUME NEW w \in Nat, NEW y \in Nat, NEW size \in Nat, Covers(w, y, size),
         NEW x \in Nat, x <= y, Odd(x)
  PROVE  2 * (x \div 2) + 1 = x /\ (2 * (x \div 2) + 1) * w < size
<1>1. 2 * (x \div 2) + 1 = x
  BY DEF Odd
<1>2. x * w <= y * w /\ x * w \in Nat /\ y * w \in Nat
  BY MoreTimes
<1>3. y * w < size
  BY DEF Covers
<1> QED BY <1>1, <1>2, <1>3

--------------------------------------------------------------------------
(* The root over the part that the x-th node of a level stands over.          *)
PartRoot(h, w, x) == Roots(h)[Rest(w, Len(h), x * w)][x * w]

LEMMA PairRoot ==
  ASSUME NEW h, IsSeq(h), NEW s, NEW N \in Nat, AreWidths(s, N), NEW i \in 1 .. N,
         NEW k \in Nat, (2 * k + 1) * s[i] < Len(h)
  PROVE  PartRoot(h, 2 * s[i], k) = Node(PartRoot(h, s[i], 2 * k), PartRoot(h, s[i], 2 * k + 1))
<1> DEFINE w == s[i]
           lo == k * (2 * w)
           n == Rest(2 * w, Len(h), lo)
<1>1. w \in Nat /\ w >= 1 /\ Len(h) \in Nat
  BY SeqFacts DEF AreWidths
<1>2. /\ lo \in Nat /\ lo = (2 * k) * w /\ (2 * k + 1) * w = lo + w
      /\ n \in Nat /\ w < n /\ n <= 2 * w /\ lo + n <= Len(h)
      /\ Rest(w, Len(h), lo) = w /\ Rest(w, Len(h), lo + w) = n - w
  BY <1>1, TwoParts
<1>3. Lpo2(n) = w
  <2> HIDE DEF n
  <2> QED BY <1>1, <1>2, LpoIsWidth
<1> HIDE DEF lo, n, w
<1>4. Roots(h)[n][lo] = Node(Roots(h)[Lpo2(n)][lo], Roots(h)[n - Lpo2(n)][lo + Lpo2(n)])
  <2>1. n \in Nat /\ n >= 2 /\ lo \in Nat /\ lo + n <= Len(h)
    BY <1>1, <1>2
  <2> QED BY <2>1, RootOfMore
<1>5. PartRoot(h, 2 * w, k) = Roots(h)[n][lo]
  BY DEF PartRoot, n, lo
<1>6. PartRoot(h, w, 2 * k) = Roots(h)[w][lo]
  BY <1>2 DEF PartRoot
<1>7. PartRoot(h, w, 2 * k + 1) = Roots(h)[n - w][lo + w]
  BY <1>2 DEF PartRoot
<1> QED BY <1>3, <1>4, <1>5, <1>6, <1>7 DEF w

LEMMA AloneRoot ==
  ASSUME NEW h, IsSeq(h), NEW w \in Nat, w >= 1, NEW k \in Nat, Covers(w, 2 * k, Len(h))
  PROVE  PartRoot(h, 2 * w, k) = PartRoot(h, w, 2 * k)
<1> DEFINE lo == k * (2 * w)
<1>1. Len(h) \in Nat
  BY SeqFacts
<1>2. /\ lo = (2 * k) * w
      /\ Rest(2 * w, Len(h), lo) = Len(h) - lo /\ Rest(w, Len(h), lo) = Len(h) - lo
  BY <1>1, OnePart
<1> HIDE DEF lo
<1>3. PartRoot(h, 2 * w, k) = Roots(h)[Rest(2 * w, Len(h), lo)][lo]
  BY DEF PartRoot, lo
<1> QED BY <1>2, <1>3 DEF PartRoot

NodesAreRoots(tr, s, i, y) == \A x \in 0 .. y : tr[i][x + 1] = PartRoot(tr[1], s[i], x)

LEMMA RootsAbove ==
  ASSUME NEW tr, IsTree(tr), IsSeq(tr[1]), Len(tr[1]) > 0, NEW s, AreWidths(s, Len(tr)),
         NEW i \in 1 .. Len(tr), i + 1 \in 1 .. Len(tr), NEW y \in Nat, AtLast(tr, i, y), y > 0,
         NodesAreRoots(tr, s, i, y)
  PROVE  NodesAreRoots(tr, s, i + 1, y \div 2)
<1> DEFINE h == tr[1]
           w == s[i]
<1>1. Len(tr) \in Nat /\ Len(h) \in Nat
  BY SeqFacts DEF IsTree
<1>2. w \in Nat /\ w >= 1 /\ s[i + 1] = 2 * w
  BY <1>1 DEF AreWidths
<1>3. Covers(w, y, Len(h))
  BY LevelsCover
<1> SUFFICES ASSUME NEW k \in 0 .. y \div 2 PROVE tr[i + 1][k + 1] = PartRoot(h, s[i + 1], k)
  BY DEF NodesAreRoots
<1>4. /\ k \in Nat /\ 2 * k \in Nat /\ 2 * k <= y /\ (2 * k) \div 2 = k /\ ~Odd(2 * k)
      /\ 2 * k \in 0 .. y
  BY DEF Odd
<1> HIDE DEF h, w
<1>5. CASE 2 * k < y
  <2>1. tr[i + 1][k + 1] = Node(tr[i][2 * k + 1], tr[i][2 * k + 2])
    <3> DEFINE x == 2 * k
    <3>1. x \in Nat /\ x < y /\ ~Odd(x) /\ x \div 2 = k
      BY <1>4, <1>5
    <3> HIDE DEF x
    <3>2. tr[i + 1][x \div 2 + 1] = Node(tr[i][x + 1], tr[i][x + 2])
      BY <3>1, EvenNode
    <3> QED BY <3>1, <3>2 DEF x
  <2>2. (2 * k + 1) * w < Len(h)
    <3> DEFINE x == 2 * k
    <3>1. x \in Nat /\ x < y /\ ~Odd(x) /\ 2 * (x \div 2) = x
      BY <1>4, <1>5
    <3> HIDE DEF x
    <3>2. (2 * (x \div 2) + 1) * w < Len(h)
      BY <1>1, <1>2, <1>3, <3>1, FirstOfTwo
    <3> QED BY <3>1, <3>2 DEF x
  <2>3. PartRoot(h, 2 * w, k) = Node(PartRoot(h, w, 2 * k), PartRoot(h, w, 2 * k + 1))
    BY <1>1, <1>4, <2>2, PairRoot DEF w, h
  <2>4. tr[i][2 * k + 1] = PartRoot(h, w, 2 * k)
    BY <1>4 DEF NodesAreRoots, h, w
  <2>5. tr[i][2 * k + 2] = PartRoot(h, w, 2 * k + 1)
    <3>1. 2 * k + 1 \in 0 .. y /\ (2 * k + 1) + 1 = 2 * k + 2
      BY <1>4, <1>5
    <3> QED BY <3>1 DEF NodesAreRoots, h, w
  <2> QED BY <1>2, <2>1, <2>3, <2>4, <2>5
<1>6. CASE 2 * k = y
  <2>1. tr[i + 1][k + 1] = tr[i][2 * k + 1]
    <3>1. y \div 2 = k /\ ~Odd(y)
      BY <1>4, <1>6
    <3>2. tr[i + 1][y \div 2 + 1] = tr[i][y + 1]
      BY <3>1, PromotedAbove
    <3> QED BY <1>6, <3>1, <3>2
  <2>2. PartRoot(h, 2 * w, k) = PartRoot(h, w, 2 * k)
    <3>1. IsSeq(h)
      BY DEF h
    <3> QED BY <1>2, <1>3, <1>4, <1>6, <3>1, AloneRoot
  <2>3. tr[i][2 * k + 1] = PartRoot(h, w, 2 * k)
    BY <1>4 DEF NodesAreRoots, h, w
  <2> QED BY <1>2, <2>1, <2>2, <2>3
<1> QED BY <1>4, <1>5, <1>6

LEMMA AllNodesAreRoots ==
  ASSUME NEW tr, IsTree(tr), Len(tr[1]) > 0, NEW s, AreWidths(s, Len(tr))
  PROVE  \A i \in 1 .. Len(tr), y \in Nat : AtLast(tr, i, y) => NodesAreRoots(tr, s, i, y)
<1> DEFINE h == tr[1]
           Good(i) == \E y \in Nat : AtLast(tr, i, y) /\ NodesAreRoots(tr, s, i, y)
           T == {i \in 1 .. Len(tr) : Good(i)}
<1>1. Len(tr) \in Nat /\ Len(tr) >= 1 /\ Len(h) \in Nat /\ Len(h) > 0 /\ IsSeq(h)
  BY SeqFacts DEF IsTree
<1>2. 1 \in T
  <2> DEFINE y == Len(h) - 1
  <2>1. AtLast(tr, 1, y) /\ y \in Nat
    BY <1>1 DEF AtLast
  <2>2. s[1] = 1
    BY <1>1 DEF AreWidths
  <2>3. NodesAreRoots(tr, s, 1, y)
    <3> SUFFICES ASSUME NEW x \in 0 .. y PROVE h[x + 1] = PartRoot(h, s[1], x)
      BY DEF NodesAreRoots
    <3>1. x \in Nat /\ x + 1 <= Len(h) /\ x * 1 = x /\ Rest(1, Len(h), x) = 1
      BY <1>1 DEF Rest
    <3> HIDE DEF h
    <3>2. Roots(h)[1][x] = h[x + 1]
      BY <1>1, <3>1, RootOfOne
    <3> QED BY <2>2, <3>1, <3>2 DEF PartRoot
  <2>4. Good(1)
    <3> HIDE DEF y
    <3> QED BY <2>1, <2>3
  <2> HIDE DEF Good
  <2> QED BY <1>1, <2>4
<1>3. ASSUME NEW i \in 1 .. Len(tr), i \in T, i + 1 <= Len(tr) PROVE i + 1 \in T
  <2>1. PICK y \in Nat : AtLast(tr, i, y) /\ NodesAreRoots(tr, s, i, y)
    BY <1>3
  <2>2. y > 0
    BY <1>1, <1>3, <2>1 DEF AtLast, IsTree
  <2>3. AtLast(tr, i + 1, y \div 2) /\ y \div 2 \in Nat /\ i + 1 \in 1 .. Len(tr)
    BY <1>1, <1>3, <2>1, <2>2, HigherLast
  <2>4. NodesAreRoots(tr, s, i + 1, y \div 2)
    BY <1>1, <2>1, <2>2, <2>3, RootsAbove
  <2>5. Good(i + 1)
    <3> DEFINE v == y \div 2
    <3>1. AtLast(tr, i + 1, v) /\ NodesAreRoots(tr, s, i + 1, v) /\ v \in Nat
      BY <2>3, <2>4
    <3> HIDE DEF v
    <3> QED BY <3>1
  <2> HIDE DEF Good
  <2> QED BY <2>3, <2>5
<1>4. \A i \in 1 .. Len(tr) : i \in T
  <2> HIDE DEF T
  <2> QED BY <1>1, <1>2, <1>3, Upwards
<1>5. ASSUME NEW i \in 1 .. Len(tr), NEW y \in Nat, AtLast(tr, i, y) PROVE NodesAreRoots(tr, s, i, y)
  <2>1. PICK z \in Nat : AtLast(tr, i, z) /\ NodesAreRoots(tr, s, i, z)
    BY <1>4
  <2>2. z = y
    BY <1>5, <2>1 DEF AtLast
  <2> QED BY <2>1, <2>2
<1> QED BY <1>5

--------------------------------------------------------------------------
(* The cache against the definitions: the top is the root, there is one tree  *)
(* over some leaves, and the siblings on the way up are the audit path.       *)
LEMMA OneIsAll ==
  ASSUME NEW a \in Nat, a <= 1, a > 0 PROVE a = 0 + 1
OBVIOUS

LEMMA HalfIsSome ==
  ASSUME NEW a \in Nat, a > 1, NEW b, b = (a + 1) \div 2 PROVE b > 0
OBVIOUS

LEMMA TopLevel ==
  ASSUME NEW tr, IsTree(tr), Len(tr[1]) > 0 PROVE AtLast(tr, Len(tr), 0)
<1>1. Len(tr) \in Nat /\ Len(tr) >= 1 /\ Len(tr) \in 1 .. Len(tr)
  BY SeqFacts DEF IsTree
<1>2. Len(tr[Len(tr)]) \in Nat /\ Len(tr[Len(tr)]) <= 1 /\ Len(tr[1]) \in Nat
  BY <1>1, SeqFacts DEF IsTree
<1>3. CASE Len(tr) = 1
  <2>1. tr[Len(tr)] = tr[1]
    BY <1>3
  <2> DEFINE a == Len(tr[Len(tr)])
  <2>2. a \in Nat /\ a <= 1 /\ a > 0
    BY <1>2, <2>1, Zenon
  <2> HIDE DEF a
  <2>3. a = 0 + 1
    BY <2>2, OneIsAll
  <2> QED BY <1>1, <2>3 DEF AtLast, a
<1>4. CASE Len(tr) # 1
  <2>1. PICK q \in Nat : q = Len(tr) - 1
    BY <1>1
  <2>2. q \in 1 .. Len(tr) /\ q < Len(tr) /\ q + 1 = Len(tr)
    BY <1>1, <1>4, <2>1
  <2>3. Len(tr[q]) > 1 /\ IsAbove(tr[q + 1], tr[q]) /\ Len(tr[q]) \in Nat
    BY <2>2, SeqFacts DEF IsTree
  <2>4. Len(tr[q + 1]) = (Len(tr[q]) + 1) \div 2
    BY <2>3 DEF IsAbove
  <2>5. Len(tr[q + 1]) > 0
    BY <2>3, <2>4, HalfIsSome
  <2>6. tr[q + 1] = tr[Len(tr)]
    BY <2>2
  <2> DEFINE a == Len(tr[Len(tr)])
  <2>7. a \in Nat /\ a <= 1 /\ a > 0
    BY <1>2, <2>5, <2>6, Zenon
  <2> HIDE DEF a
  <2>8. a = 0 + 1
    BY <2>7, OneIsAll
  <2> QED BY <1>1, <2>8 DEF AtLast, a
<1> QED BY <1>3, <1>4

(* At the top the part is all of the leaves.                                 *)
LEMMA TopPart ==
  ASSUME NEW tr, IsTree(tr), Len(tr[1]) > 0, NEW s, AreWidths(s, Len(tr))
  PROVE  Rest(s[Len(tr)], Len(tr[1]), 0) = Len(tr[1])
<1>1. Len(tr) \in Nat /\ Len(tr) \in 1 .. Len(tr) /\ Len(tr[1]) \in Nat
  BY SeqFacts DEF IsTree
<1>2. s[Len(tr)] \in Nat
  BY <1>1 DEF AreWidths
<1>3. Covers(s[Len(tr)], 0, Len(tr[1]))
  BY <1>1, TopLevel, LevelsCover
<1> DEFINE w == s[Len(tr)]
           n == Len(tr[1])
<1>4. (0 + 1) * w = w /\ n <= w /\ w \in Nat /\ n \in Nat
  BY <1>1, <1>2, <1>3 DEF Covers
<1> HIDE DEF w, n
<1>5. Rest(w, n, 0) = n
  BY <1>4 DEF Rest
<1> QED BY <1>5 DEF w, n

LEMMA TopIsRoot ==
  ASSUME NEW tr, IsTree(tr) PROVE TopOf(tr) = Root(tr[1])
<1> DEFINE h == tr[1]
<1>1. Len(tr) \in Nat /\ Len(tr) \in 1 .. Len(tr) /\ IsSeq(h) /\ Len(h) \in Nat
  BY SeqFacts DEF IsTree
<1>2. CASE Len(h) = 0
  <2>1. h = <<>>
    BY <1>1, <1>2 DEF IsSeq
  <2>2. Root(h) = EmptyRoot
    BY <1>1, <1>2, RootIsAtTheEnd
  <2> QED BY <2>1, <2>2 DEF TopOf
<1>3. CASE Len(h) > 0
  <2>1. PICK s : AreWidths(s, Len(tr))
    BY <1>1, WidthsExist
  <2> DEFINE w == s[Len(tr)]
  <2>2. AtLast(tr, Len(tr), 0)
    BY <1>3, TopLevel
  <2>3. NodesAreRoots(tr, s, Len(tr), 0)
    BY <1>1, <1>3, <2>1, <2>2, AllNodesAreRoots
  <2>4. tr[Len(tr)][1] = PartRoot(h, w, 0)
    BY <2>3 DEF NodesAreRoots
  <2>5. Rest(w, Len(h), 0) = Len(h) /\ w \in Nat
    BY <1>1, <1>3, <2>1, TopPart DEF AreWidths
  <2>6. PartRoot(h, w, 0) = Root(h)
    <3> HIDE DEF w, h
    <3>1. 0 * w = 0
      BY <2>5
    <3> QED BY <2>5, <3>1 DEF PartRoot, Root
  <2>7. h # <<>>
    BY <1>3
  <2> QED BY <2>4, <2>6, <2>7 DEF TopOf
<1> QED BY <1>1, <1>2, <1>3

LEMMA SameSeq ==
  ASSUME NEW s, IsSeq(s), NEW t, IsSeq(t), Len(s) = Len(t), \A j \in 1 .. Len(s) : s[j] = t[j]
  PROVE  s = t
BY SeqFacts

LEMMA OneTree ==
  ASSUME NEW tr, IsTree(tr), NEW tr2, IsTree(tr2), tr[1] = tr2[1] PROVE tr = tr2
<1> DEFINE T == {i \in 1 .. Len(tr) : i \in 1 .. Len(tr2) /\ tr[i] = tr2[i]}
<1>1. /\ Len(tr) \in Nat /\ Len(tr) >= 1 /\ Len(tr2) \in Nat /\ Len(tr2) >= 1
      /\ IsSeq(tr) /\ IsSeq(tr2)
  BY SeqFacts DEF IsTree
<1>2. 1 \in T
  BY <1>1
<1>3. ASSUME NEW i \in 1 .. Len(tr), i \in T, i + 1 <= Len(tr) PROVE i + 1 \in T
  <2>1. i \in 1 .. Len(tr2) /\ tr[i] = tr2[i] /\ i < Len(tr) /\ i + 1 \in 1 .. Len(tr)
    BY <1>1, <1>3
  <2>2. Len(tr[i]) > 1 /\ IsAbove(tr[i + 1], tr[i])
    BY <2>1 DEF IsTree
  <2>3. i < Len(tr2) /\ i + 1 \in 1 .. Len(tr2)
    <3>1. Len(tr2[Len(tr2)]) <= 1 /\ Len(tr2[i]) > 1 /\ Len(tr2[i]) \in Nat
      BY <2>1, <2>2, SeqFacts DEF IsTree
    <3>2. i # Len(tr2)
      BY <3>1
    <3> QED BY <1>1, <2>1, <3>2
  <2>4. IsAbove(tr2[i + 1], tr2[i]) /\ IsSeq(tr[i + 1]) /\ IsSeq(tr2[i + 1])
    BY <2>1, <2>3 DEF IsTree
  <2>5. Len(tr[i + 1]) = Len(tr2[i + 1])
    BY <2>1, <2>2, <2>4 DEF IsAbove
  <2>6. \A j \in 1 .. Len(tr[i + 1]) : tr[i + 1][j] = tr2[i + 1][j]
    BY <2>1, <2>2, <2>4, <2>5 DEF IsAbove
  <2>7. tr[i + 1] = tr2[i + 1]
    BY <2>4, <2>5, <2>6, SameSeq
  <2> QED BY <2>1, <2>3, <2>7
<1>4. \A i \in 1 .. Len(tr) : i \in T
  <2> HIDE DEF T
  <2> QED BY <1>1, <1>2, <1>3, Upwards
<1>5. Len(tr) = Len(tr2)
  <2>1. Len(tr) \in 1 .. Len(tr2) /\ tr[Len(tr)] = tr2[Len(tr)]
    BY <1>1, <1>4
  <2>2. Len(tr[Len(tr)]) <= 1 /\ Len(tr[Len(tr)]) \in Nat
    BY <1>1, SeqFacts DEF IsTree
  <2>3. Len(tr) < Len(tr2) => Len(tr2[Len(tr)]) > 1
    BY <2>1 DEF IsTree
  <2> QED BY <1>1, <2>1, <2>2, <2>3
<1> QED BY <1>1, <1>4, <1>5, SameSeq

--------------------------------------------------------------------------
WayStep(at, level) ==
  LET sib == IF Odd(at.idx) THEN at.idx - 1 ELSE at.idx + 1
  IN  [idx |-> at.idx \div 2,
       proof |-> IF sib < Len(level) THEN Append(at.proof, level[sib + 1]) ELSE at.proof]
WayStart(index) == [idx |-> index, proof |-> <<>>]
IsWay(f, tr, index, n) ==
  f = [i \in 1 .. n |-> IF i = 1 THEN WayStart(index) ELSE WayStep(f[i - 1], tr[i - 1])]

LEMMA WayExists ==
  ASSUME NEW tr, NEW index, NEW n \in Nat PROVE \E f : IsWay(f, tr, index, n)
<1> DEFINE T == {k \in Nat : \E f : IsWay(f, tr, index, k)}
<1>1. 0 \in T
  <2>1. IsWay([i \in 1 .. 0 |-> 0], tr, index, 0)
    BY DEF IsWay
  <2> QED BY <2>1
<1>2. ASSUME NEW k \in 0 .. n, k \in T PROVE k + 1 \in T
  <2>1. PICK f : IsWay(f, tr, index, k)
    BY <1>2
  <2> DEFINE more == [i \in 1 .. k + 1 |-> IF i = 1 THEN WayStart(index)
                                           ELSE IF i = k + 1 THEN WayStep(f[k], tr[k]) ELSE f[i]]
  <2>2. \A i \in 1 .. k : f[i] = IF i = 1 THEN WayStart(index) ELSE WayStep(f[i - 1], tr[i - 1])
    BY <2>1 DEF IsWay
  <2>3. \A i \in 1 .. k : more[i] = f[i]
    BY <2>2
  <2>4. more[k + 1] = IF k + 1 = 1 THEN WayStart(index) ELSE WayStep(f[k], tr[k])
    OBVIOUS
  <2>5. more = [i \in 1 .. k + 1 |-> more[i]]
    OBVIOUS
  <2> HIDE DEF more
  <2>6. \A i \in 1 .. k + 1 :
          more[i] = IF i = 1 THEN WayStart(index) ELSE WayStep(more[i - 1], tr[i - 1])
    <3> SUFFICES ASSUME NEW i \in 1 .. k + 1
                 PROVE  more[i] = IF i = 1 THEN WayStart(index) ELSE WayStep(more[i - 1], tr[i - 1])
      OBVIOUS
    <3>1. i # 1 => i - 1 \in 1 .. k
      OBVIOUS
    <3>2. i # k + 1 => i \in 1 .. k
      OBVIOUS
    <3>3. i # 1 => more[i - 1] = f[i - 1]
      BY <2>3, <3>1
    <3>4. CASE i = k + 1
      <4>1. i - 1 = k
        BY <3>4
      <4> QED BY <2>4, <3>3, <3>4, <4>1
    <3>5. CASE i # k + 1
      BY <2>2, <2>3, <3>2, <3>3, <3>5
    <3> QED BY <3>4, <3>5
  <2>7. IsWay(more, tr, index, k + 1)
    BY <2>5, <2>6 DEF IsWay
  <2> QED BY <2>7
<1>3. n \in T
  <2> HIDE DEF T
  <2> QED BY <1>1, <1>2, Upwards
<1> QED BY <1>3

LEMMA WayByOne ==
  ASSUME NEW index, IsTree(levels)
  PROVE  \E f : /\ CachedProof(index) = f[Len(levels)].proof
                /\ f[1] = WayStart(index)
                /\ \A i \in 1 .. Len(levels) :
                     i + 1 <= Len(levels) => f[i + 1] = WayStep(f[i], levels[i])
<1> DEFINE n == Len(levels)
           f == CHOOSE g : IsWay(g, levels, index, n)
<1>1. n \in Nat /\ n >= 1
  BY SeqFacts DEF IsTree
<1>2. IsWay(f, levels, index, n)
  <2> HIDE DEF n
  <2> QED BY <1>1, WayExists
<1>3. CachedProof(index) = f[n].proof
  BY DEF CachedProof, IsWay, WayStep, WayStart
<1> HIDE DEF f, n
<1>4. \A i \in 1 .. n : f[i] = IF i = 1 THEN WayStart(index) ELSE WayStep(f[i - 1], levels[i - 1])
  BY <1>2 DEF IsWay
<1>5. f[1] = WayStart(index)
  BY <1>1, <1>4
<1>6. ASSUME NEW i \in 1 .. n, i + 1 <= n PROVE f[i + 1] = WayStep(f[i], levels[i])
  <2>1. i + 1 \in 1 .. n /\ i + 1 # 1 /\ (i + 1) - 1 = i
    BY <1>1, <1>6
  <2> QED BY <1>4, <2>1
<1> QED BY <1>3, <1>5, <1>6 DEF n

--------------------------------------------------------------------------
(* The cached proof is the audit path: a level has one last node, and what is *)
(* collected up to a level is the path under the node there.                 *)
LEMMA OneLast ==
  ASSUME NEW tr, NEW i, NEW y \in Nat, NEW z \in Nat, AtLast(tr, i, y), AtLast(tr, i, z)
  PROVE  y = z
BY DEF AtLast

(* The audit path in the part of the tree under the x-th node of a level.     *)
PartPath(p, h, w, x) == p[Rest(w, Len(h), x * w)][x * w]

LEMMA PairPath ==
  ASSUME NEW h, IsSeq(h), NEW s, NEW N \in Nat, AreWidths(s, N), NEW i \in 1 .. N,
         NEW k \in Nat, (2 * k + 1) * s[i] < Len(h),
         NEW index, NEW p, ArePartPaths(p, h, index)
  PROVE  PartPath(p, h, 2 * s[i], k) =
           IF index < (2 * k + 1) * s[i]
             THEN Append(PartPath(p, h, s[i], 2 * k), PartRoot(h, s[i], 2 * k + 1))
             ELSE Append(PartPath(p, h, s[i], 2 * k + 1), PartRoot(h, s[i], 2 * k))
<1> DEFINE w == s[i]
           lo == k * (2 * w)
           n == Rest(2 * w, Len(h), lo)
<1>1. w \in Nat /\ w >= 1 /\ Len(h) \in Nat
  BY SeqFacts DEF AreWidths
<1>2. /\ lo \in Nat /\ lo = (2 * k) * w /\ (2 * k + 1) * w = lo + w
      /\ n \in Nat /\ w < n /\ n <= 2 * w /\ lo + n <= Len(h)
      /\ Rest(w, Len(h), lo) = w /\ Rest(w, Len(h), lo + w) = n - w
  BY <1>1, TwoParts
<1>3. Lpo2(n) = w
  <2> HIDE DEF n
  <2> QED BY <1>1, <1>2, LpoIsWidth
<1>4. PartPath(p, h, 2 * w, k) = p[n][lo]
  BY DEF PartPath, n, lo
<1> HIDE DEF lo, n, w
<1>5. p[n][lo] = PathOf(p, h, index, n, lo, Lpo2(n))
  <2>1. n \in 1 .. Len(h) /\ lo \in Nat /\ lo + n <= Len(h)
    BY <1>1, <1>2
  <2> QED BY <2>1 DEF ArePartPaths
<1>6. PartPath(p, h, w, 2 * k) = p[w][lo] /\ PartRoot(h, w, 2 * k) = Roots(h)[w][lo]
  BY <1>2 DEF PartPath, PartRoot
<1>7. /\ PartPath(p, h, w, 2 * k + 1) = p[n - w][lo + w]
      /\ PartRoot(h, w, 2 * k + 1) = Roots(h)[n - w][lo + w]
  BY <1>2 DEF PartPath, PartRoot
<1>8. n # 1
  BY <1>1, <1>2
<1>9. PathOf(p, h, index, n, lo, w) =
        IF index < lo + w THEN Append(p[w][lo], Roots(h)[n - w][lo + w])
        ELSE Append(p[n - w][lo + w], Roots(h)[w][lo])
  BY <1>8 DEF PathOf
<1> QED BY <1>2, <1>3, <1>4, <1>5, <1>6, <1>7, <1>9 DEF w

LEMMA AlonePath ==
  ASSUME NEW h, IsSeq(h), NEW w \in Nat, w >= 1, NEW k \in Nat, Covers(w, 2 * k, Len(h)), NEW p
  PROVE  PartPath(p, h, 2 * w, k) = PartPath(p, h, w, 2 * k)
<1> DEFINE lo == k * (2 * w)
<1>1. Len(h) \in Nat
  BY SeqFacts
<1>2. /\ lo = (2 * k) * w
      /\ Rest(2 * w, Len(h), lo) = Len(h) - lo /\ Rest(w, Len(h), lo) = Len(h) - lo
  BY <1>1, OnePart
<1> HIDE DEF lo
<1>3. PartPath(p, h, 2 * w, k) = p[Rest(2 * w, Len(h), lo)][lo]
  BY DEF PartPath, lo
<1> QED BY <1>2, <1>3 DEF PartPath

(* Where a leaf is under the x-th node of a level.                           *)
Under(w, x, index) == x * w <= index /\ index < (x + 1) * w

LEMMA UnderAbove ==
  ASSUME NEW w \in Nat, NEW x \in Nat, NEW index \in Nat, Under(w, x, index)
  PROVE  Under(2 * w, x \div 2, index)
<1> DEFINE k == x \div 2
<1>1. k \in Nat /\ (2 * k = x \/ 2 * k + 1 = x)
  OBVIOUS
<1> HIDE DEF k
<1>2. k * (2 * w) = (2 * k) * w /\ (k + 1) * (2 * w) = (2 * k + 2) * w
  BY <1>1
<1>3. CASE 2 * k = x
  <2>1. 2 * k <= x /\ x + 1 <= 2 * k + 2
    BY <1>3
  <2>2. (x + 1) * w <= (2 * k + 2) * w
    BY <1>1, <2>1, MoreTimes
  <2>3. x * w \in Nat /\ (x + 1) * w \in Nat /\ (2 * k + 2) * w \in Nat
    BY <1>1
  <2> QED BY <1>2, <1>3, <2>2, <2>3 DEF Under, k
<1>4. CASE 2 * k + 1 = x
  <2>1. (2 * k) * w <= x * w
    BY <1>1, <1>4, MoreTimes
  <2>2. (x + 1) * w = (2 * k + 2) * w
    BY <1>1, <1>4
  <2>3. x * w \in Nat /\ (x + 1) * w \in Nat /\ (2 * k) * w \in Nat
    BY <1>1
  <2> QED BY <1>2, <2>1, <2>2, <2>3 DEF Under, k
<1> QED BY <1>1, <1>3, <1>4

OnTheWay(at, tr, p, s, index, i) ==
  \E x \in Nat, y \in Nat :
    /\ AtLast(tr, i, y) /\ x <= y /\ at.idx = x /\ Under(s[i], x, index)
    /\ at.proof = PartPath(p, tr[1], s[i], x)

LEMMA WayStays ==
  ASSUME NEW tr, IsTree(tr), Len(tr[1]) > 0, NEW s, AreWidths(s, Len(tr)),
         NEW index \in Nat, NEW p, ArePartPaths(p, tr[1], index),
         NEW i \in 1 .. Len(tr), i + 1 <= Len(tr), NEW at, OnTheWay(at, tr, p, s, index, i)
  PROVE  OnTheWay(WayStep(at, tr[i]), tr, p, s, index, i + 1)
<1> DEFINE h == tr[1]
           w == s[i]
           up == WayStep(at, tr[i])
<1>1. Len(tr) \in Nat /\ Len(h) \in Nat /\ IsSeq(h) /\ i + 1 \in 1 .. Len(tr)
  BY SeqFacts DEF IsTree
<1>2. w \in Nat /\ w >= 1 /\ s[i + 1] = 2 * w
  BY <1>1 DEF AreWidths
<1>3. PICK x \in Nat, y \in Nat :
        /\ AtLast(tr, i, y) /\ x <= y /\ at.idx = x /\ Under(w, x, index)
        /\ at.proof = PartPath(p, h, w, x)
  BY DEF OnTheWay
<1>4. Covers(w, y, Len(h)) /\ NodesAreRoots(tr, s, i, y)
  BY <1>3, LevelsCover, AllNodesAreRoots
<1>5. y > 0 /\ Len(tr[i]) = y + 1
  BY <1>1, <1>3 DEF AtLast, IsTree
<1>6. AtLast(tr, i + 1, y \div 2) /\ y \div 2 \in Nat /\ x \div 2 \in Nat /\ x \div 2 <= y \div 2
  BY <1>3, <1>5, HigherLast
<1>7. up.idx = x \div 2
  BY <1>3 DEF WayStep
<1>8. Under(2 * w, x \div 2, index)
  BY <1>2, <1>3, UnderAbove
<1>9. up.proof = PartPath(p, h, 2 * w, x \div 2)
  <2> DEFINE k == x \div 2
  <2> HIDE DEF h, w
  <2>1. CASE Odd(x)
    <3>1. k \in Nat /\ 2 * k + 1 = x /\ (2 * k + 1) * w < Len(h)
      BY <1>1, <1>2, <1>3, <1>4, <2>1, SecondOfTwo
    <3>2. up.proof = Append(at.proof, tr[i][x])
      <4>1. x - 1 < Len(tr[i]) /\ (x - 1) + 1 = x
        BY <1>3, <1>5
      <4> QED BY <1>3, <2>1, <4>1 DEF WayStep
    <3>3. ~(index < (2 * k + 1) * w)
      <4>1. x * w \in Nat /\ x * w <= index
        BY <1>2, <1>3 DEF Under
      <4> HIDE DEF k
      <4> QED BY <3>1, <4>1
    <3>4. tr[i][x] = PartRoot(h, w, 2 * k)
      <4>1. x - 1 \in 0 .. y /\ (x - 1) + 1 = x /\ x - 1 = 2 * k
        BY <1>3, <3>1
      <4> HIDE DEF k
      <4> QED BY <1>4, <4>1 DEF NodesAreRoots, h, w
    <3> HIDE DEF k
    <3>5. PartPath(p, h, 2 * w, k) =
            IF index < (2 * k + 1) * w
              THEN Append(PartPath(p, h, w, 2 * k), PartRoot(h, w, 2 * k + 1))
              ELSE Append(PartPath(p, h, w, 2 * k + 1), PartRoot(h, w, 2 * k))
      BY <1>1, <3>1, PairPath DEF h, w
    <3>6. PartPath(p, h, 2 * w, k) = Append(PartPath(p, h, w, 2 * k + 1), PartRoot(h, w, 2 * k))
      BY <3>3, <3>5
    <3> QED BY <1>3, <3>1, <3>2, <3>4, <3>6 DEF k
  <2>2. CASE ~Odd(x) /\ x < y
    <3>1. k \in Nat /\ 2 * k = x /\ (2 * k + 1) * w < Len(h)
      BY <1>1, <1>2, <1>3, <1>4, <2>2, FirstOfTwo
    <3>2. up.proof = Append(at.proof, tr[i][x + 2])
      <4>1. x + 1 < Len(tr[i]) /\ (x + 1) + 1 = x + 2
        BY <1>3, <1>5, <2>2
      <4> QED BY <1>3, <2>2, <4>1 DEF WayStep
    <3>3. index < (2 * k + 1) * w
      <4>1. index < (x + 1) * w
        BY <1>3 DEF Under
      <4> HIDE DEF k
      <4> QED BY <3>1, <4>1
    <3>4. tr[i][x + 2] = PartRoot(h, w, 2 * k + 1)
      <4>1. x + 1 \in 0 .. y /\ (x + 1) + 1 = x + 2 /\ x + 1 = 2 * k + 1
        BY <1>3, <2>2, <3>1
      <4> HIDE DEF k
      <4> QED BY <1>4, <4>1 DEF NodesAreRoots, h, w
    <3> HIDE DEF k
    <3>5. PartPath(p, h, 2 * w, k) = Append(PartPath(p, h, w, 2 * k), PartRoot(h, w, 2 * k + 1))
      BY <1>1, <3>1, <3>3, PairPath DEF h, w
    <3> QED BY <1>3, <3>1, <3>2, <3>4, <3>5 DEF k
  <2>3. CASE ~Odd(x) /\ x = y
    <3>1. k \in Nat /\ 2 * k = x /\ Covers(w, 2 * k, Len(h))
      BY <1>3, <1>4, <2>3 DEF Odd
    <3>2. up.proof = at.proof
      <4>1. ~(x + 1 < Len(tr[i]))
        BY <1>3, <1>5, <2>3
      <4> QED BY <1>3, <2>3, <4>1 DEF WayStep
    <3> HIDE DEF k
    <3>3. PartPath(p, h, 2 * w, k) = PartPath(p, h, w, 2 * k)
      BY <1>1, <1>2, <3>1, AlonePath DEF h
    <3> QED BY <1>3, <3>1, <3>2, <3>3 DEF k
  <2> QED BY <1>3, <2>1, <2>2, <2>3
<1> QED
  <2> DEFINE v == y \div 2
             u == x \div 2
  <2>1. /\ AtLast(tr, i + 1, v) /\ v \in Nat /\ u \in Nat /\ u <= v /\ up.idx = u
        /\ Under(s[i + 1], u, index) /\ up.proof = PartPath(p, h, s[i + 1], u)
    BY <1>2, <1>6, <1>7, <1>8, <1>9
  <2> HIDE DEF u, v, up
  <2>2. OnTheWay(up, tr, p, s, index, i + 1)
    BY <2>1 DEF OnTheWay
  <2> QED BY <2>2 DEF up

LEMMA SameProof ==
  ASSUME IsTree(levels), Len(LeafLevel) > 0, NEW index \in Nat, index < Len(LeafLevel)
  PROVE  CachedProof(index) = InclusionProof(index, LeafLevel)
<1> DEFINE h == levels[1]
           n == Len(levels)
<1>1. n \in Nat /\ n \in 1 .. n /\ 1 \in 1 .. n /\ Len(h) \in Nat /\ Len(h) > 0 /\ IsSeq(h)
  BY SeqFacts DEF IsTree, LeafLevel
<1>2. PICK s : AreWidths(s, n)
  BY <1>1, WidthsExist
<1>3. PICK p : InclusionProof(index, h) = p[Len(h)][0] /\ ArePartPaths(p, h, index)
  <2> HIDE DEF h
  <2> QED BY <1>1, PathsByPart
<1>4. PICK f : /\ CachedProof(index) = f[n].proof /\ f[1] = WayStart(index)
               /\ \A i \in 1 .. n : i + 1 <= n => f[i + 1] = WayStep(f[i], levels[i])
  BY WayByOne
<1> DEFINE T == {i \in 1 .. n : OnTheWay(f[i], levels, p, s, index, i)}
<1>5. 1 \in T
  <2> DEFINE y == Len(h) - 1
  <2>1. AtLast(levels, 1, y) /\ y \in Nat /\ index <= y
    BY <1>1 DEF AtLast, LeafLevel
  <2>2. s[1] = 1
    BY <1>1, <1>2 DEF AreWidths
  <2>3. Under(s[1], index, index)
    BY <2>2 DEF Under
  <2>4. PartPath(p, h, s[1], index) = <<>>
    <3>1. Rest(1, Len(h), index) = 1 /\ index * 1 = index /\ 1 \in 1 .. Len(h) /\ index + 1 <= Len(h)
      BY <1>1 DEF Rest, LeafLevel
    <3> HIDE DEF h
    <3>2. p[1][index] = PathOf(p, h, index, 1, index, Lpo2(1))
      BY <1>3, <3>1 DEF ArePartPaths
    <3> QED BY <2>2, <3>1, <3>2 DEF PartPath, PathOf
  <2>5. f[1].idx = index /\ f[1].proof = <<>>
    BY <1>4 DEF WayStart
  <2> HIDE DEF y
  <2>6. OnTheWay(f[1], levels, p, s, index, 1)
    BY <2>1, <2>3, <2>4, <2>5 DEF OnTheWay
  <2> QED BY <1>1, <2>6
<1>6. ASSUME NEW i \in 1 .. n, i \in T, i + 1 <= n PROVE i + 1 \in T
  <2>1. OnTheWay(f[i], levels, p, s, index, i) /\ i + 1 \in 1 .. n
    BY <1>1, <1>6
  <2>2. OnTheWay(WayStep(f[i], levels[i]), levels, p, s, index, i + 1)
    BY <1>1, <1>2, <1>3, <1>6, <2>1, WayStays
  <2>3. OnTheWay(f[i + 1], levels, p, s, index, i + 1)
    BY <1>4, <1>6, <2>2
  <2> QED BY <2>1, <2>3
<1>7. n \in T
  <2> HIDE DEF T, n
  <2> QED BY <1>1, <1>5, <1>6, Upwards
<1>8. PICK x \in Nat, y \in Nat : /\ AtLast(levels, n, y) /\ x <= y
                                  /\ f[n].proof = PartPath(p, h, s[n], x)
  BY <1>7 DEF OnTheWay
<1>9. x = 0
  <2>1. AtLast(levels, n, 0)
    BY <1>1, TopLevel
  <2>2. y = 0
    BY <1>8, <2>1, OneLast
  <2> QED BY <1>8, <2>2
<1>10. PartPath(p, h, s[n], 0) = p[Len(h)][0]
  <2> DEFINE w == s[n]
  <2>1. Rest(w, Len(h), 0) = Len(h) /\ w \in Nat
    BY <1>1, <1>2, TopPart DEF AreWidths
  <2> HIDE DEF w, h
  <2>2. 0 * w = 0
    BY <2>1
  <2> QED BY <2>1, <2>2 DEF PartPath, w
<1> QED BY <1>3, <1>4, <1>8, <1>9, <1>10 DEF LeafLevel

LEMMA CacheIsTheTree == TreeInv => CacheIsTree
<1> SUFFICES ASSUME TreeInv PROVE CacheIsTree
  OBVIOUS
<1>1. IsTree(levels) /\ IsSeq(LeafLevel) /\ Len(LeafLevel) \in Nat
  BY SeqFacts DEF TreeInv, IsTree, LeafLevel
<1>2. CachedRoot = Root(LeafLevel)
  BY <1>1, TopIsRoot DEF CachedRoot, LeafLevel
<1>3. Rebuilt(LeafLevel) = levels
  <2>1. IsTree(Rebuilt(LeafLevel)) /\ Rebuilt(LeafLevel)[1] = LeafLevel
    BY <1>1, LevelsMakeATree DEF Rebuilt
  <2> QED BY <1>1, <2>1, OneTree DEF LeafLevel
<1>4. ASSUME NEW i \in 0 .. Len(LeafLevel) - 1
      PROVE  CachedProof(i) = InclusionProof(i, LeafLevel)
  <2>1. i \in Nat /\ i < Len(LeafLevel) /\ Len(LeafLevel) > 0
    BY <1>1
  <2> QED BY <1>1, <2>1, SameProof
<1> QED BY <1>2, <1>3, <1>4 DEF CacheIsTree

--------------------------------------------------------------------------
(* A walk over one element more.                                             *)
LEMMA AppendLast ==
  ASSUME NEW s, IsSeq(s), NEW e PROVE Append(s, e)[Len(s) + 1] = e
<1>1. s \in Seq(ToSet(s) \cup {e}) /\ e \in ToSet(s) \cup {e}
  BY DEF IsSeq
<1> QED BY <1>1

LEMMA EmptyIsSeq == IsSeq(<<>>) /\ Len(<<>>) = 0
<1>1. <<>> \in Seq({})
  OBVIOUS
<1> QED BY <1>1, SeqIsSeq

LEMMA WalkUpMore ==
  ASSUME NEW start, NEW s, IsSeq(s), NEW e
  PROVE  WalkUp(start, Append(s, e)) = Climb(WalkUp(start, s), e)
<1> DEFINE n == Len(s)
           more == Append(s, e)
<1>1. /\ n \in Nat /\ IsSeq(more) /\ Len(more) = n + 1 /\ more[n + 1] = e
      /\ \A j \in 1 .. n : more[j] = s[j]
  BY SeqFacts, AppendIsSeq, AppendLast
<1> HIDE DEF more
<1>2. PICK w : /\ w[0] = start /\ \A k \in 1 .. n : w[k] = Climb(w[k - 1], s[k])
               /\ WalkUp(start, s) = w[n]
  BY ClimbSteps
<1>3. IsSeq(more)
  BY <1>1
<1>4. PICK v : /\ v[0] = start
               /\ \A k \in 1 .. Len(more) : v[k] = Climb(v[k - 1], more[k])
               /\ WalkUp(start, more) = v[Len(more)]
  BY <1>3, ClimbSteps
<1> DEFINE T == {k \in 0 .. n : v[k] = w[k]}
<1> HIDE DEF n
<1>5. 0 \in T
  BY <1>1, <1>2, <1>4
<1>6. ASSUME NEW k \in 0 .. n, k \in T, k + 1 <= n PROVE k + 1 \in T
  <2> DEFINE j == k + 1
  <2>1. j \in 1 .. n /\ j \in 1 .. Len(more) /\ j - 1 = k /\ j \in 0 .. n
    BY <1>1, <1>6
  <2> HIDE DEF j
  <2>2. w[j] = Climb(w[k], s[j]) /\ v[j] = Climb(v[k], more[j]) /\ more[j] = s[j]
    BY <1>1, <1>2, <1>4, <2>1
  <2>3. v[k] = w[k]
    BY <1>6
  <2>4. v[j] = w[j]
    BY <2>2, <2>3
  <2> QED BY <2>1, <2>4 DEF j
<1>7. n \in T
  <2> HIDE DEF T
  <2>1. \A k \in 0 .. n : k \in T
    BY <1>1, <1>5, <1>6, Upwards
  <2> QED BY <1>1, <2>1
<1>8. v[n + 1] = Climb(v[n], e)
  <2> DEFINE j == n + 1
  <2>1. j \in 1 .. Len(more) /\ j - 1 = n /\ more[j] = e
    BY <1>1
  <2> HIDE DEF j
  <2>2. v[j] = Climb(v[j - 1], more[j])
    BY <1>4, <2>1
  <2> QED BY <2>1, <2>2 DEF j
<1>9. v[n] = w[n]
  BY <1>7
<1>10. WalkUp(start, more) = v[n + 1] /\ WalkUp(start, s) = w[n]
  BY <1>1, <1>2, <1>4
<1> QED BY <1>8, <1>9, <1>10 DEF more

LEMMA WalkUpNothing ==
  ASSUME NEW start PROVE WalkUp(start, <<>>) = start
<1> DEFINE s == <<>>
<1>1. IsSeq(s) /\ Len(s) = 0
  BY EmptyIsSeq
<1> HIDE DEF s
<1>2. PICK w : /\ w[0] = start /\ \A k \in 1 .. Len(s) : w[k] = Climb(w[k - 1], s[k])
               /\ WalkUp(start, s) = w[Len(s)]
  BY <1>1, ClimbSteps
<1> QED BY <1>1, <1>2 DEF s

LEMMA WalkBothMore ==
  ASSUME NEW start, NEW s, IsSeq(s), NEW e
  PROVE  WalkBoth(start, Append(s, e)) = ClimbBoth(WalkBoth(start, s), e)
<1> DEFINE n == Len(s)
           more == Append(s, e)
<1>1. /\ n \in Nat /\ IsSeq(more) /\ Len(more) = n + 1 /\ more[n + 1] = e
      /\ \A j \in 1 .. n : more[j] = s[j]
  BY SeqFacts, AppendIsSeq, AppendLast
<1> HIDE DEF more
<1>2. PICK w : /\ w[0] = start /\ \A k \in 1 .. n : w[k] = ClimbBoth(w[k - 1], s[k])
               /\ WalkBoth(start, s) = w[n]
  BY ClimbBothSteps
<1>3. IsSeq(more)
  BY <1>1
<1>4. PICK v : /\ v[0] = start
               /\ \A k \in 1 .. Len(more) : v[k] = ClimbBoth(v[k - 1], more[k])
               /\ WalkBoth(start, more) = v[Len(more)]
  BY <1>3, ClimbBothSteps
<1> DEFINE T == {k \in 0 .. n : v[k] = w[k]}
<1> HIDE DEF n
<1>5. 0 \in T
  BY <1>1, <1>2, <1>4
<1>6. ASSUME NEW k \in 0 .. n, k \in T, k + 1 <= n PROVE k + 1 \in T
  <2> DEFINE j == k + 1
  <2>1. j \in 1 .. n /\ j \in 1 .. Len(more) /\ j - 1 = k /\ j \in 0 .. n
    BY <1>1, <1>6
  <2> HIDE DEF j
  <2>2. w[j] = ClimbBoth(w[k], s[j]) /\ v[j] = ClimbBoth(v[k], more[j]) /\ more[j] = s[j]
    BY <1>1, <1>2, <1>4, <2>1
  <2>3. v[k] = w[k]
    BY <1>6
  <2>4. v[j] = w[j]
    BY <2>2, <2>3
  <2> QED BY <2>1, <2>4 DEF j
<1>7. n \in T
  <2> HIDE DEF T
  <2>1. \A k \in 0 .. n : k \in T
    BY <1>1, <1>5, <1>6, Upwards
  <2> QED BY <1>1, <2>1
<1>8. v[n + 1] = ClimbBoth(v[n], e)
  <2> DEFINE j == n + 1
  <2>1. j \in 1 .. Len(more) /\ j - 1 = n /\ more[j] = e
    BY <1>1
  <2> HIDE DEF j
  <2>2. v[j] = ClimbBoth(v[j - 1], more[j])
    BY <1>4, <2>1
  <2> QED BY <2>1, <2>2 DEF j
<1>9. v[n] = w[n]
  BY <1>7
<1>10. WalkBoth(start, more) = v[n + 1] /\ WalkBoth(start, s) = w[n]
  BY <1>1, <1>2, <1>4
<1> QED BY <1>8, <1>9, <1>10 DEF more

LEMMA WalkBothNothing ==
  ASSUME NEW start PROVE WalkBoth(start, <<>>) = start
<1> DEFINE s == <<>>
<1>1. IsSeq(s) /\ Len(s) = 0
  BY EmptyIsSeq
<1> HIDE DEF s
<1>2. PICK w : /\ w[0] = start /\ \A k \in 1 .. Len(s) : w[k] = ClimbBoth(w[k - 1], s[k])
               /\ WalkBoth(start, s) = w[Len(s)]
  BY <1>1, ClimbBothSteps
<1> QED BY <1>1, <1>2 DEF s

--------------------------------------------------------------------------
(* Where a walk stands that came up to the x-th node of a level of y + 1: at   *)
(* it, or, when it is a last one that was promoted, at the same node below.   *)
LEMMA StrippedUp ==
  ASSUME NEW x \in Nat, x > 0, ~Odd(x)
  PROVE  Stripped(<<x, x>>) = Stripped(<<x \div 2, x \div 2>>)
<1> DEFINE b == x \div 2
<1>1. b \in Nat /\ b < x
  OBVIOUS
<1>2. PICK s : IsStrip(s, x, x) /\ Stripped(<<x, x>>) = s[<<x, x>>]
  BY StrippedByOne
<1>3. PICK t : IsStrip(t, b, b) /\ Stripped(<<b, b>>) = t[<<b, b>>]
  BY <1>1, StrippedByOne
<1> DEFINE Half(z) == <<z \div 2, z \div 2>>
<1> HIDE DEF b
<1>4. ASSUME NEW z \in 0 .. x
      PROVE  s[<<z, z>>] = IF z = 0 \/ Odd(z) THEN <<z, z>> ELSE s[Half(z)]
  <2>1. <<z, z>> \in (0 .. x) \X (0 .. x)
    OBVIOUS
  <2>2. s[<<z, z>>] = IF <<z, z>>[1] = 0 \/ Odd(<<z, z>>[1]) THEN <<z, z>> ELSE s[Up(<<z, z>>)]
    BY <1>2, <2>1 DEF IsStrip
  <2>3. <<z, z>>[1] = z /\ Up(<<z, z>>) = Half(z)
    BY DEF Up
  <2> QED BY <2>2, <2>3
<1>5. ASSUME NEW z \in 0 .. b
      PROVE  t[<<z, z>>] = IF z = 0 \/ Odd(z) THEN <<z, z>> ELSE t[Half(z)]
  <2>1. <<z, z>> \in (0 .. b) \X (0 .. b)
    OBVIOUS
  <2>2. t[<<z, z>>] = IF <<z, z>>[1] = 0 \/ Odd(<<z, z>>[1]) THEN <<z, z>> ELSE t[Up(<<z, z>>)]
    BY <1>3, <2>1 DEF IsStrip
  <2>3. <<z, z>>[1] = z /\ Up(<<z, z>>) = Half(z)
    BY DEF Up
  <2> QED BY <2>2, <2>3
<1>6. \A z \in 0 .. b : s[<<z, z>>] = t[<<z, z>>]
  <2> DEFINE Bad == {z \in 0 .. b : s[<<z, z>>] # t[<<z, z>>]}
  <2> SUFFICES ASSUME Bad # {} PROVE FALSE
    OBVIOUS
  <2>1. PICK z \in Bad : \A u \in Bad : z <= u
    <3>1. Bad \in SUBSET Nat
      BY <1>1
    <3> HIDE DEF Bad
    <3> QED BY <3>1, Least
  <2>2. z \in 0 .. b /\ z \in 0 .. x /\ s[<<z, z>>] # t[<<z, z>>]
    BY <1>1, <2>1
  <2>3. z # 0 /\ ~Odd(z) /\ s[Half(z)] # t[Half(z)]
    <3> HIDE DEF Half
    <3> QED BY <1>4, <1>5, <2>2
  <2> DEFINE u == z \div 2
  <2>4. u \in 0 .. b /\ u < z
    BY <1>1, <2>2, <2>3
  <2>5. s[<<u, u>>] # t[<<u, u>>]
    BY <2>3
  <2> HIDE DEF u
  <2>6. u \in Bad
    BY <2>4, <2>5
  <2>7. u \in Nat /\ z \in Nat
    BY <1>1, <2>2, <2>4
  <2> HIDE DEF Bad
  <2> QED BY <2>1, <2>4, <2>6, <2>7
<1>7. s[<<x, x>>] = s[<<b, b>>]
  <2>1. x \in 0 .. x
    OBVIOUS
  <2> QED BY <1>4, <2>1 DEF b
<1>8. s[<<b, b>>] = t[<<b, b>>]
  BY <1>1, <1>6
<1> QED BY <1>2, <1>3, <1>7, <1>8 DEF b

StandsAt(at, x, y) ==
  \/ at = <<x, y>>
  \/ /\ x = y /\ x > 0
     /\ \E v \in Nat : v > 0 /\ at = <<v, v>> /\ Stripped(<<v, v>>) = Stripped(<<x, x>>)

LEMMA StandsOdd ==
  ASSUME NEW x \in Nat, NEW y \in Nat, x <= y, Odd(x), NEW at, StandsAt(at, x, y)
  PROVE  at[2] # 0 /\ FromLeft(at) /\ Up(Stripped(at)) = <<x \div 2, y \div 2>>
<1>1. y > 0 /\ x # 0
  BY DEF Odd
<1>2. CASE at = <<x, y>>
  <2>1. at[1] = x /\ at[2] = y
    BY <1>2
  <2>2. Stripped(at) = <<x, y>>
    BY <1>2, OddNeedsNoSkip
  <2>3. Up(<<x, y>>) = <<x \div 2, y \div 2>>
    BY DEF Up
  <2> QED BY <1>1, <2>1, <2>2, <2>3 DEF FromLeft
<1>3. CASE at # <<x, y>>
  <2>1. PICK v \in Nat : v > 0 /\ at = <<v, v>> /\ Stripped(<<v, v>>) = Stripped(<<x, x>>)
    BY <1>3 DEF StandsAt
  <2>2. x = y
    BY <1>3 DEF StandsAt
  <2>3. at[1] = v /\ at[2] = v
    BY <2>1
  <2>4. Stripped(at) = <<x, y>>
    BY <2>1, <2>2, OddNeedsNoSkip
  <2>5. Up(<<x, y>>) = <<x \div 2, y \div 2>>
    BY DEF Up
  <2> QED BY <2>1, <2>3, <2>4, <2>5 DEF FromLeft
<1> QED BY <1>2, <1>3

LEMMA StandsEven ==
  ASSUME NEW x \in Nat, NEW y \in Nat, x < y, ~Odd(x), NEW at, StandsAt(at, x, y)
  PROVE  at[2] # 0 /\ ~FromLeft(at) /\ Up(at) = <<x \div 2, y \div 2>>
<1>1. at = <<x, y>> /\ y # 0 /\ x # y
  BY DEF StandsAt
<1>2. at[1] = x /\ at[2] = y
  BY <1>1
<1> QED BY <1>1, <1>2 DEF FromLeft, Up

LEMMA StandsAlone ==
  ASSUME NEW x \in Nat, x > 0, ~Odd(x), NEW at, StandsAt(at, x, x)
  PROVE  StandsAt(at, x \div 2, x \div 2)
<1> DEFINE b == x \div 2
<1>1. b \in Nat /\ b > 0
  BY DEF Odd
<1>2. Stripped(<<x, x>>) = Stripped(<<b, b>>)
  BY StrippedUp
<1> HIDE DEF b
<1>3. \E v \in Nat : v > 0 /\ at = <<v, v>> /\ Stripped(<<v, v>>) = Stripped(<<x, x>>)
  BY DEF StandsAt
<1>4. StandsAt(at, b, b)
  BY <1>1, <1>2, <1>3 DEF StandsAt
<1> QED BY <1>4 DEF b

--------------------------------------------------------------------------
(* An honest audit path: the walk comes by every level, carrying its node.    *)
IsOn(acc, tr, i, x, y) ==
  /\ acc.ok = TRUE /\ StandsAt(acc.at, x, y)
  /\ acc.hash = tr[i][x + 1]

LEMMA ClimbsOdd ==
  ASSUME NEW tr, NEW i, NEW x \in Nat, NEW y \in Nat, AtLast(tr, i, y), x <= y, Odd(x),
         NEW acc, IsOn(acc, tr, i, x, y)
  PROVE  IsOn(Climb(acc, tr[i][x]), tr, i + 1, x \div 2, y \div 2)
<1> DEFINE next == Climb(acc, tr[i][x])
<1>1. acc.ok = TRUE /\ StandsAt(acc.at, x, y) /\ acc.hash = tr[i][x + 1]
  BY DEF IsOn
<1>2. acc.at[2] # 0 /\ FromLeft(acc.at) /\ Up(Stripped(acc.at)) = <<x \div 2, y \div 2>>
  BY <1>1, StandsOdd
<1>3. next = [ok |-> TRUE, at |-> <<x \div 2, y \div 2>>, hash |-> Node(tr[i][x], acc.hash)]
  BY <1>1, <1>2 DEF Climb
<1>4. tr[i + 1][x \div 2 + 1] = Node(tr[i][x], tr[i][x + 1])
  BY OddNode
<1>5. next.ok = TRUE /\ next.at = <<x \div 2, y \div 2>> /\ next.hash = Node(tr[i][x], acc.hash)
  BY <1>3
<1> HIDE DEF next
<1>6. IsOn(next, tr, i + 1, x \div 2, y \div 2)
  BY <1>1, <1>4, <1>5 DEF IsOn, StandsAt
<1> QED BY <1>6 DEF next

LEMMA ClimbsEven ==
  ASSUME NEW tr, NEW i, NEW x \in Nat, NEW y \in Nat, AtLast(tr, i, y), x < y, ~Odd(x),
         NEW acc, IsOn(acc, tr, i, x, y)
  PROVE  IsOn(Climb(acc, tr[i][x + 2]), tr, i + 1, x \div 2, y \div 2)
<1> DEFINE next == Climb(acc, tr[i][x + 2])
<1>1. acc.ok = TRUE /\ StandsAt(acc.at, x, y) /\ acc.hash = tr[i][x + 1]
  BY DEF IsOn
<1>2. acc.at[2] # 0 /\ ~FromLeft(acc.at) /\ Up(acc.at) = <<x \div 2, y \div 2>>
  BY <1>1, StandsEven
<1>3. next = [ok |-> TRUE, at |-> <<x \div 2, y \div 2>>, hash |-> Node(acc.hash, tr[i][x + 2])]
  BY <1>1, <1>2 DEF Climb
<1>4. tr[i + 1][x \div 2 + 1] = Node(tr[i][x + 1], tr[i][x + 2])
  BY EvenNode
<1>5. next.ok = TRUE /\ next.at = <<x \div 2, y \div 2>> /\ next.hash = Node(acc.hash, tr[i][x + 2])
  BY <1>3
<1> HIDE DEF next
<1>6. IsOn(next, tr, i + 1, x \div 2, y \div 2)
  BY <1>1, <1>4, <1>5 DEF IsOn, StandsAt
<1> QED BY <1>6 DEF next

LEMMA ClimbsAlone ==
  ASSUME NEW tr, NEW i, NEW y \in Nat, AtLast(tr, i, y), y > 0, ~Odd(y),
         NEW acc, IsOn(acc, tr, i, y, y)
  PROVE  IsOn(acc, tr, i + 1, y \div 2, y \div 2)
<1>1. acc.ok = TRUE /\ StandsAt(acc.at, y, y) /\ acc.hash = tr[i][y + 1]
  BY DEF IsOn
<1>2. StandsAt(acc.at, y \div 2, y \div 2)
  BY <1>1, StandsAlone
<1>3. tr[i + 1][y \div 2 + 1] = tr[i][y + 1]
  BY PromotedAbove
<1> QED BY <1>1, <1>2, <1>3 DEF IsOn

ComesBy(at, tr, start, i) ==
  \E x \in Nat, y \in Nat :
    /\ AtLast(tr, i, y) /\ x <= y /\ at.idx = x
    /\ IsSeq(at.proof) /\ IsOn(WalkUp(start, at.proof), tr, i, x, y)

LEMMA ComesByAbove ==
  ASSUME NEW tr, IsTree(tr), NEW start, NEW i \in 1 .. Len(tr), i + 1 <= Len(tr),
         NEW at, ComesBy(at, tr, start, i)
  PROVE  ComesBy(WayStep(at, tr[i]), tr, start, i + 1)
<1> DEFINE up == WayStep(at, tr[i])
           acc == WalkUp(start, at.proof)
           next == WalkUp(start, up.proof)
<1>1. Len(tr) \in Nat
  BY SeqFacts DEF IsTree
<1>2. PICK x \in Nat, y \in Nat :
        /\ AtLast(tr, i, y) /\ x <= y /\ at.idx = x /\ IsSeq(at.proof) /\ IsOn(acc, tr, i, x, y)
  BY DEF ComesBy
<1>3. y > 0 /\ Len(tr[i]) = y + 1
  BY <1>1, <1>2 DEF AtLast, IsTree
<1>4. AtLast(tr, i + 1, y \div 2) /\ y \div 2 \in Nat /\ x \div 2 \in Nat /\ x \div 2 <= y \div 2
  BY <1>2, <1>3, HigherLast
<1>5. up.idx = x \div 2
  BY <1>2 DEF WayStep
<1>6. IsSeq(up.proof) /\ IsOn(next, tr, i + 1, x \div 2, y \div 2)
  <2>1. CASE Odd(x)
    <3>1. up.proof = Append(at.proof, tr[i][x])
      <4>1. x - 1 < Len(tr[i]) /\ (x - 1) + 1 = x
        BY <1>2, <1>3
      <4> QED BY <1>2, <2>1, <4>1 DEF WayStep
    <3>2. IsSeq(up.proof) /\ next = Climb(acc, tr[i][x])
      BY <1>2, <3>1, AppendIsSeq, WalkUpMore
    <3> HIDE DEF acc, next, up
    <3>3. IsOn(Climb(acc, tr[i][x]), tr, i + 1, x \div 2, y \div 2)
      BY <1>2, <2>1, ClimbsOdd
    <3> QED BY <3>2, <3>3
  <2>2. CASE ~Odd(x) /\ x < y
    <3>1. up.proof = Append(at.proof, tr[i][x + 2])
      <4>1. x + 1 < Len(tr[i]) /\ (x + 1) + 1 = x + 2
        BY <1>2, <1>3, <2>2
      <4> QED BY <1>2, <2>2, <4>1 DEF WayStep
    <3>2. IsSeq(up.proof) /\ next = Climb(acc, tr[i][x + 2])
      BY <1>2, <3>1, AppendIsSeq, WalkUpMore
    <3> HIDE DEF acc, next, up
    <3>3. IsOn(Climb(acc, tr[i][x + 2]), tr, i + 1, x \div 2, y \div 2)
      BY <1>2, <2>2, ClimbsEven
    <3> QED BY <3>2, <3>3
  <2>3. CASE ~Odd(x) /\ x = y
    <3>1. up.proof = at.proof
      <4>1. ~(x + 1 < Len(tr[i]))
        BY <1>2, <1>3, <2>3
      <4> QED BY <1>2, <2>3, <4>1 DEF WayStep
    <3>2. IsSeq(up.proof) /\ next = acc
      BY <1>2, <3>1
    <3> HIDE DEF acc, next, up
    <3>3. IsOn(acc, tr, i + 1, x \div 2, y \div 2)
      BY <1>2, <1>3, <2>3, ClimbsAlone
    <3> QED BY <3>2, <3>3
  <2> QED BY <1>2, <2>1, <2>2, <2>3
<1> DEFINE v == y \div 2
           u == x \div 2
<1>7. /\ AtLast(tr, i + 1, v) /\ v \in Nat /\ u \in Nat /\ u <= v /\ up.idx = u
      /\ IsSeq(up.proof) /\ IsOn(WalkUp(start, up.proof), tr, i + 1, u, v)
  BY <1>4, <1>5, <1>6
<1> HIDE DEF u, v, up
<1>8. ComesBy(up, tr, start, i + 1)
  BY <1>7 DEF ComesBy
<1> QED BY <1>8 DEF up

LEMMA HonestPathsVerify ==
  ASSUME IsTree(levels), Len(LeafLevel) > 0, NEW index \in Nat, index < Len(LeafLevel)
  PROVE  VerifyInclusion(LeafLevel[index + 1], index, Len(LeafLevel), CachedProof(index), CachedRoot)
<1> DEFINE h == levels[1]
           n == Len(levels)
           start == [ok |-> TRUE, at |-> <<index, Len(h) - 1>>, hash |-> h[index + 1]]
<1>1. n \in Nat /\ n \in 1 .. n /\ 1 \in 1 .. n /\ Len(h) \in Nat /\ Len(h) > 0 /\ index < Len(h)
  BY SeqFacts DEF IsTree, LeafLevel
<1>2. PICK f : /\ CachedProof(index) = f[n].proof /\ f[1] = WayStart(index)
               /\ \A i \in 1 .. n : i + 1 <= n => f[i + 1] = WayStep(f[i], levels[i])
  BY WayByOne
<1> DEFINE T == {i \in 1 .. n : ComesBy(f[i], levels, start, i)}
<1>3. 1 \in T
  <2> DEFINE y == Len(h) - 1
  <2>1. AtLast(levels, 1, y) /\ y \in Nat /\ index <= y
    BY <1>1 DEF AtLast
  <2>2. start.ok = TRUE /\ start.at = <<index, y>> /\ start.hash = levels[1][index + 1]
    OBVIOUS
  <2>3. f[1].idx = index /\ f[1].proof = <<>>
    BY <1>2 DEF WayStart
  <2> HIDE DEF y, start
  <2>4. IsSeq(f[1].proof) /\ WalkUp(start, f[1].proof) = start
    BY <2>3, EmptyIsSeq, WalkUpNothing
  <2>5. IsOn(start, levels, 1, index, y)
    BY <2>2 DEF IsOn, StandsAt
  <2>6. ComesBy(f[1], levels, start, 1)
    BY <2>1, <2>3, <2>4, <2>5 DEF ComesBy
  <2> QED BY <1>1, <2>6
<1> HIDE DEF start
<1>4. ASSUME NEW i \in 1 .. n, i \in T, i + 1 <= n PROVE i + 1 \in T
  <2>1. ComesBy(f[i], levels, start, i) /\ i + 1 \in 1 .. n
    BY <1>1, <1>4
  <2>2. ComesBy(WayStep(f[i], levels[i]), levels, start, i + 1)
    BY <1>4, <2>1, ComesByAbove
  <2>3. ComesBy(f[i + 1], levels, start, i + 1)
    BY <1>2, <1>4, <2>2
  <2> QED BY <2>1, <2>3
<1>5. n \in T
  <2> HIDE DEF T, n
  <2> QED BY <1>1, <1>3, <1>4, Upwards
<1> DEFINE end == WalkUp(start, CachedProof(index))
<1>6. PICK x \in Nat, y \in Nat :
        AtLast(levels, n, y) /\ x <= y /\ IsOn(end, levels, n, x, y)
  BY <1>2, <1>5 DEF ComesBy
<1>7. x = 0 /\ y = 0
  <2>1. AtLast(levels, n, 0)
    BY <1>1, TopLevel
  <2>2. y = 0
    BY <1>6, <2>1, OneLast
  <2> QED BY <1>6, <2>2
<1> HIDE DEF end
<1>8. end.ok = TRUE /\ end.at = <<0, 0>> /\ end.hash = levels[n][1]
  BY <1>6, <1>7 DEF IsOn, StandsAt
<1>9. end.ok /\ end.at[2] = 0
  BY <1>8
<1>10. CachedRoot = levels[n][1]
  <2>1. levels[1] # <<>>
    BY <1>1
  <2> QED BY <2>1 DEF CachedRoot, TopOf
<1> QED BY <1>1, <1>8, <1>9, <1>10 DEF VerifyInclusion, LeafLevel, end, start, WalkUp

--------------------------------------------------------------------------
(* The consistency proof in the part of the tree under the x-th node of a      *)
(* level: the node's leaves hold the end of the old tree, and if all of them  *)
(* are the old tree's, it is not the second of two.                          *)
Ends(w, x, m) == x * w < m /\ m <= (x + 1) * w /\ (Odd(x) => m # (x + 1) * w)

LEMMA EndsAbove ==
  ASSUME NEW w \in Nat, w >= 1, NEW x \in Nat, NEW m \in Nat, Ends(w, x, m)
  PROVE  Ends(2 * w, x \div 2, m) /\ m < (x \div 2 + 1) * (2 * w)
<1> DEFINE k == x \div 2
<1>1. k \in Nat /\ (Odd(x) => 2 * k + 1 = x) /\ (~Odd(x) => 2 * k = x)
  BY DEF Odd
<1> HIDE DEF k
<1> DEFINE a == (2 * k) * w
<1>2. a \in Nat /\ k * (2 * w) = a /\ (k + 1) * (2 * w) = a + w + w
  BY <1>1
<1>3. ~Odd(x) => x * w = a /\ (x + 1) * w = a + w
  BY <1>1
<1>4. Odd(x) => x * w = a + w /\ (x + 1) * w = a + w + w
  <2>1. Odd(x) => x * w = (2 * k + 1) * w /\ (x + 1) * w = (2 * k + 2) * w
    BY <1>1
  <2>2. (2 * k + 1) * w = a + w /\ (2 * k + 2) * w = a + w + w
    BY <1>1
  <2> HIDE DEF a
  <2> QED BY <2>1, <2>2
<1> HIDE DEF a
<1>5. a < m /\ m < a + w + w
  BY <1>2, <1>3, <1>4 DEF Ends
<1>6. Ends(2 * w, k, m) /\ m < (k + 1) * (2 * w)
  BY <1>2, <1>5 DEF Ends
<1> QED BY <1>6 DEF k

LEMMA PairSub ==
  ASSUME NEW h, IsSeq(h), NEW s, NEW N \in Nat, AreWidths(s, N), NEW i \in 1 .. N,
         NEW k \in Nat, (2 * k + 1) * s[i] < Len(h), NEW m \in Nat, m < Len(h),
         k * (2 * s[i]) < m, m < (k + 1) * (2 * s[i]), NEW q, ArePartSubs(q, h, m)
  PROVE  PartPath(q, h, 2 * s[i], k) =
           IF m <= (2 * k + 1) * s[i]
             THEN Append(PartPath(q, h, s[i], 2 * k), PartRoot(h, s[i], 2 * k + 1))
             ELSE Append(PartPath(q, h, s[i], 2 * k + 1), PartRoot(h, s[i], 2 * k))
<1> DEFINE w == s[i]
           lo == k * (2 * w)
           n == Rest(2 * w, Len(h), lo)
<1>1. w \in Nat /\ w >= 1 /\ Len(h) \in Nat
  BY SeqFacts DEF AreWidths
<1>2. /\ lo \in Nat /\ lo = (2 * k) * w /\ (2 * k + 1) * w = lo + w
      /\ n \in Nat /\ w < n /\ n <= 2 * w /\ lo + n <= Len(h)
      /\ Rest(w, Len(h), lo) = w /\ Rest(w, Len(h), lo + w) = n - w
  BY <1>1, TwoParts
<1>3. Lpo2(n) = w
  <2> HIDE DEF n
  <2> QED BY <1>1, <1>2, LpoIsWidth
<1>4. PartPath(q, h, 2 * w, k) = q[n][lo]
  BY DEF PartPath, n, lo
<1>5. lo < m /\ m < lo + n
  <2>1. lo < m
    OBVIOUS
  <2>2. (k + 1) * (2 * w) = lo + 2 * w
    <3> HIDE DEF w
    <3> QED BY <1>1
  <2>3. m < lo + 2 * w
    <3> HIDE DEF lo
    <3> QED BY <2>2
  <2> HIDE DEF lo
  <2> QED BY <1>1, <1>2, <2>1, <2>3 DEF Rest
<1> HIDE DEF lo, n, w
<1>6. q[n][lo] = SubOf(q, h, m, n, lo, Lpo2(n))
  <2>1. n \in 1 .. Len(h) /\ lo \in Nat /\ lo + n <= Len(h) /\ lo < m /\ m <= lo + n
    BY <1>1, <1>2, <1>5
  <2> QED BY <2>1 DEF ArePartSubs
<1>7. PartPath(q, h, w, 2 * k) = q[w][lo] /\ PartRoot(h, w, 2 * k) = Roots(h)[w][lo]
  BY <1>2 DEF PartPath, PartRoot
<1>8. /\ PartPath(q, h, w, 2 * k + 1) = q[n - w][lo + w]
      /\ PartRoot(h, w, 2 * k + 1) = Roots(h)[n - w][lo + w]
  BY <1>2 DEF PartPath, PartRoot
<1>9. m # lo + n
  BY <1>2, <1>5
<1>10. SubOf(q, h, m, n, lo, w) =
        IF m <= lo + w THEN Append(q[w][lo], Roots(h)[n - w][lo + w])
        ELSE Append(q[n - w][lo + w], Roots(h)[w][lo])
  BY <1>9 DEF SubOf
<1> QED BY <1>2, <1>3, <1>4, <1>6, <1>7, <1>8, <1>10 DEF w

LEMMA WholeSub ==
  ASSUME NEW h, IsSeq(h), NEW w \in Nat, w >= 1, NEW x \in Nat, (x + 1) * w <= Len(h),
         NEW m, m = (x + 1) * w, NEW q, ArePartSubs(q, h, m)
  PROVE  PartPath(q, h, w, x) = IF x = 0 THEN <<>> ELSE <<PartRoot(h, w, x)>>
<1> DEFINE lo == x * w
<1>1. Len(h) \in Nat
  BY SeqFacts
<1>2. lo \in Nat /\ (x + 1) * w = lo + w /\ m \in Nat
  OBVIOUS
<1>3. lo = 0 <=> x = 0
  <2>1. CASE x = 0
    BY <2>1
  <2>2. CASE x # 0
    <3>1. 1 * w <= x * w
      <4>1. 1 <= x
        BY <2>2
      <4> QED BY <4>1, MoreTimes
    <3>2. 1 * w = w
      OBVIOUS
    <3> HIDE DEF lo
    <3> QED BY <1>2, <2>2, <3>1, <3>2 DEF lo
  <2> QED BY <2>1, <2>2
<1>4. PartPath(q, h, w, x) = q[Rest(w, Len(h), lo)][lo]
  BY DEF PartPath
<1>5. PartRoot(h, w, x) = Roots(h)[Rest(w, Len(h), lo)][lo]
  BY DEF PartRoot
<1>6. Rest(w, Len(h), lo) = w /\ w \in 1 .. Len(h) /\ lo + w <= Len(h) /\ lo < m /\ m = lo + w
  <2>1. lo + w <= Len(h) /\ m = lo + w
    BY <1>2
  <2> HIDE DEF lo
  <2> QED BY <1>1, <1>2, <2>1 DEF Rest
<1> HIDE DEF lo
<1>7. q[w][lo] = SubOf(q, h, m, w, lo, Lpo2(w))
  BY <1>1, <1>2, <1>6 DEF ArePartSubs
<1>8. SubOf(q, h, m, w, lo, Lpo2(w)) = IF lo = 0 THEN <<>> ELSE <<Roots(h)[w][lo]>>
  BY <1>6 DEF SubOf
<1> QED BY <1>3, <1>4, <1>5, <1>6, <1>7, <1>8

(* From one level to the next: which sibling the proof goes on with.         *)
GoesOn(q, tr, w, i, x, y) ==
  PartPath(q, tr[1], 2 * w, x \div 2) =
    IF Odd(x) THEN Append(PartPath(q, tr[1], w, x), tr[i][x])
    ELSE IF x < y THEN Append(PartPath(q, tr[1], w, x), tr[i][x + 2])
    ELSE PartPath(q, tr[1], w, x)

LEMMA SubAbove ==
  ASSUME NEW tr, IsTree(tr), NEW s, AreWidths(s, Len(tr)), NEW i \in 1 .. Len(tr),
         NEW m \in Nat, m < Len(tr[1]), NEW q, ArePartSubs(q, tr[1], m),
         NEW x \in Nat, NEW y \in Nat, AtLast(tr, i, y), x <= y, Ends(s[i], x, m)
  PROVE  GoesOn(q, tr, s[i], i, x, y)
<1> DEFINE h == tr[1]
           w == s[i]
           k == x \div 2
<1>1. Len(tr) \in Nat /\ Len(h) \in Nat /\ IsSeq(h) /\ 1 \in 1 .. Len(tr) /\ Len(h) > 0
  BY SeqFacts DEF IsTree
<1>2. w \in Nat /\ w >= 1
  BY <1>1 DEF AreWidths
<1>3. Covers(w, y, Len(h)) /\ NodesAreRoots(tr, s, i, y)
  BY <1>1, LevelsCover, AllNodesAreRoots
<1>4. k * (2 * w) < m /\ m < (k + 1) * (2 * w) /\ k \in Nat
  <2>1. Ends(2 * w, x \div 2, m) /\ m < (x \div 2 + 1) * (2 * w)
    BY <1>2, EndsAbove
  <2> HIDE DEF w
  <2> QED BY <2>1 DEF Ends
<1> HIDE DEF h, w
<1>5. CASE Odd(x)
  <2>1. 2 * k + 1 = x /\ (2 * k + 1) * w < Len(h)
    BY <1>1, <1>2, <1>3, <1>5, SecondOfTwo
  <2> HIDE DEF k
  <2>2. ~(m <= (2 * k + 1) * w)
    <3>1. x * w < m /\ x * w \in Nat
      BY <1>2 DEF Ends, w
    <3> QED BY <2>1, <3>1
  <2>3. tr[i][x] = PartRoot(h, w, 2 * k)
    <3>1. x - 1 \in 0 .. y /\ (x - 1) + 1 = x /\ x - 1 = 2 * k
      BY <1>4, <2>1
    <3> QED BY <1>3, <3>1 DEF NodesAreRoots, h, w
  <2>4. PartPath(q, h, 2 * w, k) =
          IF m <= (2 * k + 1) * w
            THEN Append(PartPath(q, h, w, 2 * k), PartRoot(h, w, 2 * k + 1))
            ELSE Append(PartPath(q, h, w, 2 * k + 1), PartRoot(h, w, 2 * k))
    BY <1>1, <1>4, <2>1, PairSub DEF h, w
  <2>5. PartPath(q, h, 2 * w, k) = Append(PartPath(q, h, w, 2 * k + 1), PartRoot(h, w, 2 * k))
    BY <2>2, <2>4
  <2>6. PartPath(q, h, 2 * w, k) = Append(PartPath(q, h, w, x), tr[i][x])
    BY <2>1, <2>3, <2>5
  <2> QED BY <1>5, <2>6 DEF h, w, k, GoesOn
<1>6. CASE ~Odd(x) /\ x < y
  <2>1. 2 * k = x /\ (2 * k + 1) * w < Len(h)
    BY <1>1, <1>2, <1>3, <1>6, FirstOfTwo
  <2> HIDE DEF k
  <2>2. m <= (2 * k + 1) * w
    <3>1. m <= (x + 1) * w
      BY <1>2 DEF Ends, w
    <3> QED BY <2>1, <3>1
  <2>3. tr[i][x + 2] = PartRoot(h, w, 2 * k + 1)
    <3>1. x + 1 \in 0 .. y /\ (x + 1) + 1 = x + 2 /\ x + 1 = 2 * k + 1
      BY <1>4, <1>6, <2>1
    <3> QED BY <1>3, <3>1 DEF NodesAreRoots, h, w
  <2>4. PartPath(q, h, 2 * w, k) =
          IF m <= (2 * k + 1) * w
            THEN Append(PartPath(q, h, w, 2 * k), PartRoot(h, w, 2 * k + 1))
            ELSE Append(PartPath(q, h, w, 2 * k + 1), PartRoot(h, w, 2 * k))
    BY <1>1, <1>4, <2>1, PairSub DEF h, w
  <2>5. PartPath(q, h, 2 * w, k) = Append(PartPath(q, h, w, 2 * k), PartRoot(h, w, 2 * k + 1))
    BY <2>2, <2>4
  <2>6. PartPath(q, h, 2 * w, k) = Append(PartPath(q, h, w, x), tr[i][x + 2])
    BY <2>1, <2>3, <2>5
  <2> QED BY <1>6, <2>6 DEF h, w, k, GoesOn
<1>7. CASE ~Odd(x) /\ x = y
  <2>1. 2 * k = x /\ Covers(w, 2 * k, Len(h))
    BY <1>3, <1>7 DEF Odd
  <2> HIDE DEF k
  <2>2. PartPath(q, h, 2 * w, k) = PartPath(q, h, w, 2 * k)
    BY <1>1, <1>2, <1>4, <2>1, AlonePath
  <2>3. PartPath(q, h, 2 * w, k) = PartPath(q, h, w, x)
    BY <2>1, <2>2
  <2>4. ~(x < y)
    BY <1>7
  <2> QED BY <1>7, <2>3, <2>4 DEF h, w, k, GoesOn
<1> QED BY <1>5, <1>6, <1>7

--------------------------------------------------------------------------
(* Equal children have equal parents.                                        *)
LEMMA ParentsAgree ==
  ASSUME NEW tr, NEW tr2, NEW i, NEW y \in Nat, NEW z \in Nat,
         AtLast(tr, i, y), AtLast(tr2, i, z), y > 0, z > 0,
         NEW x \in Nat, x <= y + 1, x <= z + 1, AgreeTo(tr, tr2, i, x)
  PROVE  AgreeTo(tr, tr2, i + 1, x \div 2)
<1> SUFFICES ASSUME NEW j \in 1 .. x \div 2 PROVE tr[i + 1][j] = tr2[i + 1][j]
  BY DEF AgreeTo
<1>1. /\ j \in 1 .. y \div 2 + 1 /\ j \in 1 .. z \div 2 + 1
      /\ 2 * j <= y + 1 /\ 2 * j <= z + 1 /\ 2 * j \in 1 .. x /\ 2 * j - 1 \in 1 .. x
  OBVIOUS
<1>2. tr[i + 1][j] = Parent(tr[i], j) /\ tr2[i + 1][j] = Parent(tr2[i], j)
  BY <1>1, HigherLevel DEF AtLast
<1>3. tr[i + 1][j] = Node(tr[i][2 * j - 1], tr[i][2 * j])
  BY <1>1, <1>2 DEF Parent, AtLast
<1>4. tr2[i + 1][j] = Node(tr2[i][2 * j - 1], tr2[i][2 * j])
  BY <1>1, <1>2 DEF Parent, AtLast
<1>5. tr[i][2 * j - 1] = tr2[i][2 * j - 1] /\ tr[i][2 * j] = tr2[i][2 * j]
  BY <1>1 DEF AgreeTo
<1> QED BY <1>3, <1>4, <1>5

(* What the walk carries of the old tree: its last node on the level, or,     *)
(* once there is one alone, the top.                                         *)
OldAt(old, tr, tr2, i, x) ==
  \/ AtLast(tr2, i, x) /\ AgreeTo(tr, tr2, i, x) /\ old = tr2[i][x + 1]
  \/ x = 0 /\ old = tr2[Len(tr2)][1]

LEMMA OldOdd ==
  ASSUME NEW tr, NEW tr2, NEW i, NEW x \in Nat, NEW y \in Nat, AtLast(tr, i, y), x <= y, Odd(x),
         NEW old, OldAt(old, tr, tr2, i, x)
  PROVE  OldAt(Node(tr[i][x], old), tr, tr2, i + 1, x \div 2)
<1>1. x > 0 /\ y > 0 /\ x # 0 /\ x \in 1 .. x /\ x <= x + 1 /\ x <= y + 1
  BY DEF Odd
<1>2. AtLast(tr2, i, x) /\ AgreeTo(tr, tr2, i, x) /\ old = tr2[i][x + 1]
  BY <1>1 DEF OldAt
<1>3. AtLast(tr2, i + 1, x \div 2)
  BY <1>1, <1>2, HigherLast
<1>4. AgreeTo(tr, tr2, i + 1, x \div 2)
  BY <1>1, <1>2, ParentsAgree
<1>5. tr2[i + 1][x \div 2 + 1] = Node(tr2[i][x], tr2[i][x + 1])
  <2>1. x <= x
    OBVIOUS
  <2> QED BY <1>2, <2>1, OddNode
<1>6. tr[i][x] = tr2[i][x]
  BY <1>1, <1>2 DEF AgreeTo
<1> QED BY <1>2, <1>3, <1>4, <1>5, <1>6 DEF OldAt

LEMMA OldEven ==
  ASSUME NEW tr, NEW tr2, NEW i, NEW x \in Nat, NEW y \in Nat, AtLast(tr, i, y), x <= y, ~Odd(x),
         NEW old, OldAt(old, tr, tr2, i, x)
  PROVE  OldAt(old, tr, tr2, i + 1, x \div 2)
<1>1. CASE x = 0
  <2>1. old = tr2[Len(tr2)][1]
    <3>1. CASE AtLast(tr2, i, x) /\ old = tr2[i][x + 1]
      <4>1. i = Len(tr2)
        BY <1>1, <3>1, AtTop
      <4>2. x + 1 = 1
        BY <1>1
      <4> QED BY <3>1, <4>1, <4>2
    <3> QED BY <3>1 DEF OldAt
  <2>2. x \div 2 = 0
    BY <1>1
  <2> QED BY <2>1, <2>2 DEF OldAt
<1>2. CASE x # 0
  <2>1. x > 0 /\ y > 0 /\ x <= x + 1 /\ x <= y + 1
    BY <1>2
  <2>2. AtLast(tr2, i, x) /\ AgreeTo(tr, tr2, i, x) /\ old = tr2[i][x + 1]
    BY <1>2 DEF OldAt
  <2>3. AtLast(tr2, i + 1, x \div 2)
    BY <2>1, <2>2, HigherLast
  <2>4. AgreeTo(tr, tr2, i + 1, x \div 2)
    BY <2>1, <2>2, ParentsAgree
  <2>5. tr2[i + 1][x \div 2 + 1] = tr2[i][x + 1]
    BY <2>1, <2>2, PromotedAbove
  <2> QED BY <2>2, <2>3, <2>4, <2>5 DEF OldAt
<1> QED BY <1>1, <1>2

--------------------------------------------------------------------------
(* An honest consistency proof: the walk comes by every level from where it   *)
(* begins, carrying the nodes of both trees.                                 *)
IsOnBoth(acc, tr, tr2, i, x, y) ==
  /\ acc.ok = TRUE /\ StandsAt(acc.at, x, y)
  /\ acc.new = tr[i][x + 1] /\ OldAt(acc.old, tr, tr2, i, x)

LEMMA ClimbsBothOdd ==
  ASSUME NEW tr, NEW tr2, NEW i, NEW x \in Nat, NEW y \in Nat, AtLast(tr, i, y), x <= y, Odd(x),
         NEW acc, IsOnBoth(acc, tr, tr2, i, x, y)
  PROVE  IsOnBoth(ClimbBoth(acc, tr[i][x]), tr, tr2, i + 1, x \div 2, y \div 2)
<1> DEFINE next == ClimbBoth(acc, tr[i][x])
<1>1. /\ acc.ok = TRUE /\ StandsAt(acc.at, x, y)
      /\ acc.new = tr[i][x + 1] /\ OldAt(acc.old, tr, tr2, i, x)
  BY DEF IsOnBoth
<1>2. acc.at[2] # 0 /\ FromLeft(acc.at) /\ Up(Stripped(acc.at)) = <<x \div 2, y \div 2>>
  BY <1>1, StandsOdd
<1>3. next = [ok |-> TRUE, at |-> <<x \div 2, y \div 2>>,
              old |-> Node(tr[i][x], acc.old), new |-> Node(tr[i][x], acc.new)]
  BY <1>1, <1>2 DEF ClimbBoth
<1>4. tr[i + 1][x \div 2 + 1] = Node(tr[i][x], tr[i][x + 1])
  BY OddNode
<1>5. OldAt(Node(tr[i][x], acc.old), tr, tr2, i + 1, x \div 2)
  BY <1>1, OldOdd
<1>6. /\ next.ok = TRUE /\ next.at = <<x \div 2, y \div 2>>
      /\ next.old = Node(tr[i][x], acc.old) /\ next.new = Node(tr[i][x], acc.new)
  BY <1>3
<1> HIDE DEF next
<1>7. IsOnBoth(next, tr, tr2, i + 1, x \div 2, y \div 2)
  BY <1>1, <1>4, <1>5, <1>6 DEF IsOnBoth, StandsAt
<1> QED BY <1>7 DEF next

LEMMA ClimbsBothEven ==
  ASSUME NEW tr, NEW tr2, NEW i, NEW x \in Nat, NEW y \in Nat, AtLast(tr, i, y), x < y, ~Odd(x),
         NEW acc, IsOnBoth(acc, tr, tr2, i, x, y)
  PROVE  IsOnBoth(ClimbBoth(acc, tr[i][x + 2]), tr, tr2, i + 1, x \div 2, y \div 2)
<1> DEFINE next == ClimbBoth(acc, tr[i][x + 2])
<1>1. /\ acc.ok = TRUE /\ StandsAt(acc.at, x, y)
      /\ acc.new = tr[i][x + 1] /\ OldAt(acc.old, tr, tr2, i, x)
  BY DEF IsOnBoth
<1>2. acc.at[2] # 0 /\ ~FromLeft(acc.at) /\ Up(acc.at) = <<x \div 2, y \div 2>>
  BY <1>1, StandsEven
<1>3. next = [ok |-> TRUE, at |-> <<x \div 2, y \div 2>>,
              old |-> acc.old, new |-> Node(acc.new, tr[i][x + 2])]
  BY <1>1, <1>2 DEF ClimbBoth
<1>4. tr[i + 1][x \div 2 + 1] = Node(tr[i][x + 1], tr[i][x + 2])
  BY EvenNode
<1>5. OldAt(acc.old, tr, tr2, i + 1, x \div 2)
  BY <1>1, OldEven
<1>6. /\ next.ok = TRUE /\ next.at = <<x \div 2, y \div 2>>
      /\ next.old = acc.old /\ next.new = Node(acc.new, tr[i][x + 2])
  BY <1>3
<1> HIDE DEF next
<1>7. IsOnBoth(next, tr, tr2, i + 1, x \div 2, y \div 2)
  BY <1>1, <1>4, <1>5, <1>6 DEF IsOnBoth, StandsAt
<1> QED BY <1>7 DEF next

LEMMA ClimbsBothAlone ==
  ASSUME NEW tr, NEW tr2, NEW i, NEW y \in Nat, AtLast(tr, i, y), y > 0, ~Odd(y),
         NEW acc, IsOnBoth(acc, tr, tr2, i, y, y)
  PROVE  IsOnBoth(acc, tr, tr2, i + 1, y \div 2, y \div 2)
<1>1. /\ acc.ok = TRUE /\ StandsAt(acc.at, y, y)
      /\ acc.new = tr[i][y + 1] /\ OldAt(acc.old, tr, tr2, i, y)
  BY DEF IsOnBoth
<1>2. StandsAt(acc.at, y \div 2, y \div 2)
  BY <1>1, StandsAlone
<1>3. tr[i + 1][y \div 2 + 1] = tr[i][y + 1]
  BY PromotedAbove
<1>4. OldAt(acc.old, tr, tr2, i + 1, y \div 2)
  BY <1>1, OldEven
<1> QED BY <1>1, <1>2, <1>3, <1>4 DEF IsOnBoth


--------------------------------------------------------------------------
(* Where it begins: at the highest node that is all of the old tree's, and    *)
(* on which the two trees agree.                                             *)
Begins(tr, tr2, s, m, i, x, y) ==
  /\ AtLast(tr, i, y) /\ AtLast(tr2, i, x) /\ x <= y
  /\ m = (x + 1) * s[i] /\ AgreeTo(tr, tr2, i, x + 1)

LEMMA BeginsAbove ==
  ASSUME NEW tr, NEW tr2, NEW s, AreWidths(s, Len(tr)), NEW m, NEW i,
         NEW x \in Nat, NEW y \in Nat, Odd(x), Begins(tr, tr2, s, m, i, x, y)
  PROVE  Begins(tr, tr2, s, m, i + 1, x \div 2, y \div 2)
<1> DEFINE k == x \div 2
           w == s[i]
<1>1. /\ AtLast(tr, i, y) /\ AtLast(tr2, i, x) /\ x <= y
      /\ m = (x + 1) * w /\ AgreeTo(tr, tr2, i, x + 1)
  BY DEF Begins
<1>2. /\ x > 0 /\ y > 0 /\ k \in Nat /\ 2 * k + 1 = x /\ (x + 1) \div 2 = k + 1 /\ k <= y \div 2
      /\ x + 1 \in Nat /\ x + 1 <= x + 1 /\ x + 1 <= y + 1
  BY <1>1 DEF Odd
<1>3. AtLast(tr, i + 1, y \div 2) /\ AtLast(tr2, i + 1, k)
  BY <1>1, <1>2, HigherLast
<1>4. AgreeTo(tr, tr2, i + 1, (x + 1) \div 2)
  BY <1>1, <1>2, ParentsAgree
<1>5. w \in Nat /\ s[i + 1] = 2 * w
  <2>1. i \in 1 .. Len(tr) /\ i + 1 \in 1 .. Len(tr) /\ Len(tr) \in Nat
    BY <1>1, <1>3, SeqFacts DEF AtLast, IsTree
  <2> QED BY <2>1 DEF AreWidths
<1> HIDE DEF k, w
<1>6. m = (k + 1) * s[i + 1]
  <2>1. x + 1 = 2 * (k + 1)
    BY <1>2
  <2>2. (2 * (k + 1)) * w = (k + 1) * (2 * w)
    BY <1>2, <1>5
  <2> QED BY <1>1, <1>5, <2>1, <2>2
<1>7. Begins(tr, tr2, s, m, i + 1, k, y \div 2)
  BY <1>1, <1>2, <1>3, <1>4, <1>6 DEF Begins
<1> QED BY <1>7 DEF k

LEMMA BothBegin ==
  ASSUME NEW tr, NEW tr2, NEW s, AreWidths(s, Len(tr)), NEW m,
         NEW a \in Nat, NEW b \in Nat, Begins(tr, tr2, s, m, 1, a, b)
  PROVE  \E i \in Nat, x \in Nat, y \in Nat :
           OnesStripped(<<a, b>>) = <<x, y>> /\ ~Odd(x) /\ Begins(tr, tr2, s, m, i, x, y)
<1>1. PICK f : IsOnesStrip(f, a, b) /\ OnesStripped(<<a, b>>) = f[<<a, b>>]
  BY OnesStrippedByOne
<1> DEFINE Here(u, v, i) == Begins(tr, tr2, s, m, i, u, v)
           Ended(u, v) == \E i \in Nat, x \in Nat, y \in Nat :
                            f[<<u, v>>] = <<x, y>> /\ ~Odd(x) /\ Here(x, y, i)
           Bad == {u \in 0 .. a : \E v \in 0 .. b, i \in Nat : Here(u, v, i) /\ ~Ended(u, v)}
<1> HIDE DEF Here
<1>2. Ended(a, b)
  <2> SUFFICES ASSUME ~Ended(a, b) PROVE FALSE
    OBVIOUS
  <2>1. Bad # {}
    <3>1. a \in 0 .. a /\ b \in 0 .. b /\ 1 \in Nat /\ Here(a, b, 1)
      BY DEF Here
    <3> HIDE DEF Ended
    <3> QED BY <3>1
  <2>2. PICK u \in Bad : \A t \in Bad : u <= t
    <3>1. Bad \in SUBSET Nat
      OBVIOUS
    <3> HIDE DEF Bad
    <3> QED BY <2>1, <3>1, Least
  <2>3. PICK v \in 0 .. b, i \in Nat : Here(u, v, i) /\ ~Ended(u, v)
    <3> HIDE DEF Ended
    <3> QED BY <2>2
  <2>4. u \in 0 .. a /\ u \in Nat /\ v \in Nat
    BY <2>2, <2>3
  <2>5. f[<<u, v>>] = IF Odd(u) THEN f[<<u \div 2, v \div 2>>] ELSE <<u, v>>
    <3>1. <<u, v>> \in (0 .. a) \X (0 .. b)
      BY <2>4
    <3>2. f[<<u, v>>] = IF Odd(<<u, v>>[1]) THEN f[Up(<<u, v>>)] ELSE <<u, v>>
      BY <1>1, <3>1 DEF IsOnesStrip
    <3>3. <<u, v>>[1] = u /\ Up(<<u, v>>) = <<u \div 2, v \div 2>>
      BY DEF Up
    <3> QED BY <3>2, <3>3
  <2>6. Odd(u)
    BY <2>3, <2>4, <2>5
  <2> DEFINE u1 == u \div 2
             v1 == v \div 2
             i1 == i + 1
  <2>7. u1 \in 0 .. a /\ v1 \in 0 .. b /\ i1 \in Nat /\ u1 < u /\ u1 \in Nat
    BY <2>4, <2>6 DEF Odd
  <2>8. Here(u1, v1, i1)
    BY <2>3, <2>4, <2>6, BeginsAbove DEF Here
  <2>9. f[<<u, v>>] = f[<<u1, v1>>]
    BY <2>5, <2>6
  <2> HIDE DEF u1, v1, i1
  <2>10. ~Ended(u1, v1)
    BY <2>3, <2>9
  <2>11. u1 \in Bad
    <3> HIDE DEF Ended
    <3> QED BY <2>7, <2>8, <2>10
  <2> HIDE DEF Bad
  <2> QED BY <2>2, <2>4, <2>7, <2>11
<1> QED BY <1>1, <1>2 DEF Here

(* The proof is the steps of the walk, after the node to begin with, which is *)
(* left out when it is the old root.                                         *)
Led(x, seed, steps) == IF x = 0 THEN steps ELSE <<seed>> \o steps

LEMMA LedFacts ==
  ASSUME NEW seed, NEW st, IsSeq(st), NEW e
  PROVE  /\ <<seed>> \o Append(st, e) = Append(<<seed>> \o st, e)
         /\ <<seed>> \o <<>> = <<seed>>
         /\ <<seed>> \o st # <<>>
         /\ Head(<<seed>> \o st) = seed /\ Tail(<<seed>> \o st) = st
<1> DEFINE S == ToSet(st) \cup {seed, e}
<1>1. st \in Seq(S) /\ seed \in S /\ e \in S
  <2>1. st \in Seq(ToSet(st)) /\ ToSet(st) \subseteq S
    BY DEF IsSeq
  <2> HIDE DEF S
  <2>2. st \in Seq(S)
    BY <2>1
  <2> QED BY <2>2 DEF S
<1> HIDE DEF S
<1>2. <<seed>> \o Append(st, e) = Append(<<seed>> \o st, e)
  BY <1>1
<1>3. <<seed>> \o <<>> = <<seed>>
  BY <1>1
<1>4. <<seed>> \o st # <<>> /\ Head(<<seed>> \o st) = seed
  BY <1>1
<1>5. Tail(<<seed>> \o st) = st
  BY <1>1
<1> QED BY <1>2, <1>3, <1>4, <1>5

LEMMA LedOn ==
  ASSUME NEW x, NEW seed, NEW st, IsSeq(st), NEW e
  PROVE  Led(x, seed, Append(st, e)) = Append(Led(x, seed, st), e)
BY LedFacts DEF Led

BothComeBy(q, tr, tr2, s, m, start, x0, seed, i) ==
  \E x \in Nat, y \in Nat : \E st :
    /\ AtLast(tr, i, y) /\ x <= y /\ Ends(s[i], x, m)
    /\ IsSeq(st) /\ IsOnBoth(WalkBoth(start, st), tr, tr2, i, x, y)
    /\ PartPath(q, tr[1], s[i], x) = Led(x0, seed, st)

LEMMA BothComeByAbove ==
  ASSUME NEW tr, IsTree(tr), NEW tr2, NEW s, AreWidths(s, Len(tr)), NEW i \in 1 .. Len(tr),
         i + 1 <= Len(tr), NEW m \in Nat, m < Len(tr[1]), NEW q, ArePartSubs(q, tr[1], m),
         NEW start, NEW x0, NEW seed, BothComeBy(q, tr, tr2, s, m, start, x0, seed, i)
  PROVE  BothComeBy(q, tr, tr2, s, m, start, x0, seed, i + 1)
<1>1. Len(tr) \in Nat /\ i + 1 \in 1 .. Len(tr)
  BY SeqFacts DEF IsTree
<1>2. PICK x \in Nat, y \in Nat : \E st :
        /\ AtLast(tr, i, y) /\ x <= y /\ Ends(s[i], x, m)
        /\ IsSeq(st) /\ IsOnBoth(WalkBoth(start, st), tr, tr2, i, x, y)
        /\ PartPath(q, tr[1], s[i], x) = Led(x0, seed, st)
  BY DEF BothComeBy
<1>3. PICK st :
        /\ AtLast(tr, i, y) /\ x <= y /\ Ends(s[i], x, m)
        /\ IsSeq(st) /\ IsOnBoth(WalkBoth(start, st), tr, tr2, i, x, y)
        /\ PartPath(q, tr[1], s[i], x) = Led(x0, seed, st)
  BY <1>2
<1> DEFINE acc == WalkBoth(start, st)
           v == y \div 2
           u == x \div 2
           part == PartPath(q, tr[1], s[i], x)
           next == PartPath(q, tr[1], s[i + 1], u)
<1>4. s[i] \in Nat /\ s[i] >= 1 /\ s[i + 1] = 2 * s[i]
  BY <1>1 DEF AreWidths
<1>5. y > 0
  BY <1>1, <1>3 DEF AtLast, IsTree
<1>6. AtLast(tr, i + 1, v) /\ v \in Nat /\ u \in Nat /\ u <= v
  BY <1>3, <1>5, HigherLast
<1>7. Ends(s[i + 1], u, m)
  BY <1>3, <1>4, EndsAbove
<1>8. next = IF Odd(x) THEN Append(part, tr[i][x])
             ELSE IF x < y THEN Append(part, tr[i][x + 2]) ELSE part
  <2>1. GoesOn(q, tr, s[i], i, x, y)
    BY <1>3, SubAbove
  <2> QED BY <1>4, <2>1 DEF GoesOn
<1> HIDE DEF acc, v, u, part, next
<1>9. \E more : /\ IsSeq(more) /\ IsOnBoth(WalkBoth(start, more), tr, tr2, i + 1, u, v)
                /\ next = Led(x0, seed, more)
  <2>1. CASE Odd(x)
    <3> DEFINE more == Append(st, tr[i][x])
    <3>1. IsSeq(more) /\ WalkBoth(start, more) = ClimbBoth(acc, tr[i][x])
      BY <1>3, AppendIsSeq, WalkBothMore DEF acc
    <3>2. Led(x0, seed, more) = Append(part, tr[i][x])
      BY <1>3, LedOn DEF part
    <3>3. IsOnBoth(ClimbBoth(acc, tr[i][x]), tr, tr2, i + 1, u, v)
      BY <1>3, <2>1, ClimbsBothOdd DEF acc, u, v
    <3>4. next = Led(x0, seed, more)
      BY <1>8, <2>1, <3>2
    <3> HIDE DEF more
    <3> QED BY <3>1, <3>3, <3>4
  <2>2. CASE ~Odd(x) /\ x < y
    <3> DEFINE more == Append(st, tr[i][x + 2])
    <3>1. IsSeq(more) /\ WalkBoth(start, more) = ClimbBoth(acc, tr[i][x + 2])
      BY <1>3, AppendIsSeq, WalkBothMore DEF acc
    <3>2. Led(x0, seed, more) = Append(part, tr[i][x + 2])
      BY <1>3, LedOn DEF part
    <3>3. IsOnBoth(ClimbBoth(acc, tr[i][x + 2]), tr, tr2, i + 1, u, v)
      BY <1>3, <2>2, ClimbsBothEven DEF acc, u, v
    <3>4. next = Led(x0, seed, more)
      BY <1>8, <2>2, <3>2
    <3> HIDE DEF more
    <3> QED BY <3>1, <3>3, <3>4
  <2>3. CASE ~Odd(x) /\ x = y
    <3>1. IsOnBoth(acc, tr, tr2, i + 1, v, v)
      BY <1>3, <1>5, <2>3, ClimbsBothAlone DEF acc, v
    <3>2. u = v
      BY <2>3 DEF u, v
    <3>3. next = Led(x0, seed, st)
      <4>1. ~(x < y)
        BY <2>3
      <4> QED BY <1>3, <1>8, <2>3, <4>1 DEF part
    <3> QED BY <1>3, <3>1, <3>2, <3>3 DEF acc
  <2> QED BY <1>3, <2>1, <2>2, <2>3
<1>10. PICK more : /\ IsSeq(more) /\ IsOnBoth(WalkBoth(start, more), tr, tr2, i + 1, u, v)
                   /\ next = Led(x0, seed, more)
  BY <1>9
<1>11. PartPath(q, tr[1], s[i + 1], u) = Led(x0, seed, more)
  BY <1>10 DEF next
<1> QED BY <1>6, <1>7, <1>10, <1>11 DEF BothComeBy

LEMMA BothReachTheTop ==
  ASSUME NEW tr, IsTree(tr), NEW tr2, NEW s, AreWidths(s, Len(tr)),
         NEW m \in Nat, m < Len(tr[1]), NEW q, ArePartSubs(q, tr[1], m),
         NEW start, NEW x0, NEW seed, NEW b \in 1 .. Len(tr),
         BothComeBy(q, tr, tr2, s, m, start, x0, seed, b)
  PROVE  \E st : /\ IsSeq(st) /\ q[Len(tr[1])][0] = Led(x0, seed, st)
                 /\ IsOnBoth(WalkBoth(start, st), tr, tr2, Len(tr), 0, 0)
<1> DEFINE n == Len(tr)
           T == {i \in 1 .. n : BothComeBy(q, tr, tr2, s, m, start, x0, seed, i)}
<1>1. n \in Nat /\ n \in 1 .. n /\ b \in Nat /\ b <= n /\ Len(tr[1]) \in Nat /\ Len(tr[1]) > 0
  BY SeqFacts DEF IsTree
<1>2. ASSUME NEW i \in b .. n, i \in T, i + 1 <= n PROVE i + 1 \in T
  <2>1. i \in 1 .. n /\ i + 1 \in 1 .. n /\ BothComeBy(q, tr, tr2, s, m, start, x0, seed, i)
    BY <1>1, <1>2
  <2>2. BothComeBy(q, tr, tr2, s, m, start, x0, seed, i + 1)
    BY <1>2, <2>1, BothComeByAbove
  <2> QED BY <2>1, <2>2
<1>3. n \in T
  <2>1. b \in T /\ n \in b .. n
    BY <1>1
  <2> HIDE DEF T, n
  <2>2. \A i \in b .. n : i \in T
    BY <1>1, <1>2, <2>1, Upwards
  <2> QED BY <2>1, <2>2
<1>4. PICK x \in Nat, y \in Nat : \E st :
        /\ AtLast(tr, n, y) /\ x <= y
        /\ IsSeq(st) /\ IsOnBoth(WalkBoth(start, st), tr, tr2, n, x, y)
        /\ PartPath(q, tr[1], s[n], x) = Led(x0, seed, st)
  BY <1>3 DEF BothComeBy
<1>5. PICK st :
        /\ AtLast(tr, n, y) /\ x <= y
        /\ IsSeq(st) /\ IsOnBoth(WalkBoth(start, st), tr, tr2, n, x, y)
        /\ PartPath(q, tr[1], s[n], x) = Led(x0, seed, st)
  BY <1>4
<1>6. x = 0 /\ y = 0
  <2>1. AtLast(tr, n, 0)
    BY <1>1, TopLevel
  <2>2. y = 0
    BY <1>5, <2>1, OneLast
  <2> QED BY <1>5, <2>2
<1>7. PartPath(q, tr[1], s[n], 0) = q[Len(tr[1])][0]
  <2> DEFINE w == s[n]
             h == tr[1]
  <2>1. Rest(w, Len(h), 0) = Len(h) /\ w \in Nat
    BY <1>1, TopPart DEF AreWidths
  <2> HIDE DEF w, h
  <2>2. 0 * w = 0
    BY <2>1
  <2>3. PartPath(q, h, w, 0) = q[Len(h)][0]
    BY <2>1, <2>2 DEF PartPath
  <2> QED BY <2>3 DEF w, h
<1>8. q[Len(tr[1])][0] = Led(x0, seed, st)
  BY <1>5, <1>6, <1>7
<1>9. IsOnBoth(WalkBoth(start, st), tr, tr2, Len(tr), 0, 0)
  BY <1>5, <1>6
<1> QED BY <1>5, <1>8, <1>9

--------------------------------------------------------------------------
(* From the leaves of an earlier size to its tree, and from the walk to the    *)
(* verifier's answer.                                                        *)
LEMMA FirstLeaves ==
  ASSUME NEW h, IsSeq(h), NEW m \in Nat, m <= Len(h)
  PROVE  /\ IsSeq(SubSeq(h, 1, m)) /\ Len(SubSeq(h, 1, m)) = m
         /\ \A j \in 1 .. m : SubSeq(h, 1, m)[j] = h[j]
<1>1. h \in Seq(ToSet(h)) /\ Len(h) \in Nat
  BY SeqFacts DEF IsSeq
<1> DEFINE S == ToSet(h)
<1> HIDE DEF S
<1>2. h \in Seq(S)
  BY <1>1 DEF S
<1>3. SubSeq(h, 1, m) \in Seq(S) /\ Len(SubSeq(h, 1, m)) = m
  BY <1>1, <1>2
<1>4. \A j \in 1 .. m : SubSeq(h, 1, m)[j] = h[j]
  BY <1>1, <1>2
<1> QED BY <1>3, <1>4, SeqIsSeq

(* What the verifier does with a proof that is led by a node.                *)
BothStart(at, seed) == [ok |-> TRUE, at |-> at, old |-> seed, new |-> seed]

LEMMA LedVerifies ==
  ASSUME NEW m \in Nat, NEW n \in Nat, 0 < m, m < n, NEW x \in Nat, NEW y \in Nat,
         OnesStripped(<<m - 1, n - 1>>) = <<x, y>>, NEW seed, NEW st, IsSeq(st),
         NEW oldRoot, NEW newRoot, x = 0 => oldRoot = seed,
         NEW end, end = WalkBoth(BothStart(<<x, y>>, seed), st),
         end.ok = TRUE, end.at = <<0, 0>>, end.old = oldRoot, end.new = newRoot
  PROVE  VerifyConsistency(m, n, oldRoot, newRoot, Led(x, seed, st))
<1> DEFINE proof == Led(x, seed, st)
           at == OnesStripped(<<m - 1, n - 1>>)
           full == at[1] = 0
           from == IF full THEN oldRoot ELSE Head(proof)
           steps == IF full THEN proof ELSE Tail(proof)
           fin == FoldLeft(ClimbBoth, [ok |-> TRUE, at |-> at, old |-> from, new |-> from], steps)
<1>1. at = <<x, y>> /\ at[1] = x
  OBVIOUS
<1>2. full \/ proof # <<>>
  BY <1>1, LedFacts DEF Led
<1>3. from = seed /\ steps = st
  BY <1>1, LedFacts DEF Led
<1>4. fin = end
  BY <1>1, <1>3 DEF WalkBoth, BothStart
<1>5. fin.ok /\ fin.at[2] = 0 /\ fin.old = oldRoot /\ fin.new = newRoot
  <2> HIDE DEF fin
  <2> QED BY <1>4
<1> QED BY <1>2, <1>5 DEF VerifyConsistency

LEMMA ExtensionsVerify ==
  ASSUME NEW tr, IsTree(tr), NEW tr2, IsTree(tr2), NEW m \in Nat, 0 < m, m < Len(tr[1]),
         Len(tr2[1]) = m, AgreeTo(tr, tr2, 1, m)
  PROVE  VerifyConsistency(m, Len(tr[1]), TopOf(tr2), TopOf(tr), ConsistencyProof(m, tr[1]))
<1> DEFINE h == tr[1]
           n == Len(h)
           a == m - 1
           b == n - 1
<1>1. /\ n \in Nat /\ IsSeq(h) /\ Len(tr) \in Nat /\ 1 \in 1 .. Len(tr) /\ 1 \in 1 .. Len(tr2)
      /\ a \in Nat /\ b \in Nat /\ a <= b /\ a + 1 = m
  BY SeqFacts DEF IsTree
<1>2. AtLast(tr, 1, b) /\ AtLast(tr2, 1, a)
  BY <1>1 DEF AtLast
<1>3. TopOf(tr) = tr[Len(tr)][1] /\ TopOf(tr2) = tr2[Len(tr2)][1]
  <2>1. tr[1] # <<>> /\ tr2[1] # <<>>
    BY <1>1
  <2> QED BY <2>1 DEF TopOf
<1>4. PICK s : AreWidths(s, Len(tr))
  BY <1>1, WidthsExist
<1>5. PICK q : ConsistencyProof(m, h) = q[Len(h)][0] /\ ArePartSubs(q, h, m)
  <2> HIDE DEF h
  <2> QED BY <1>1, SubsByPart DEF h
<1> HIDE DEF a, b
<1>6. Begins(tr, tr2, s, m, 1, a, b)
  <2>1. s[1] = 1
    BY <1>1, <1>4 DEF AreWidths
  <2>2. m = (a + 1) * s[1]
    BY <1>1, <2>1
  <2> QED BY <1>1, <1>2, <2>2 DEF Begins
<1>7. PICK i \in Nat, x \in Nat, y \in Nat :
        OnesStripped(<<a, b>>) = <<x, y>> /\ ~Odd(x) /\ Begins(tr, tr2, s, m, i, x, y)
  BY <1>1, <1>4, <1>6, BothBegin
<1>8. /\ AtLast(tr, i, y) /\ AtLast(tr2, i, x) /\ x <= y /\ i \in 1 .. Len(tr)
      /\ m = (x + 1) * s[i] /\ AgreeTo(tr, tr2, i, x + 1)
  BY <1>7 DEF Begins, AtLast
<1> DEFINE w == s[i]
           seed == tr[i][x + 1]
           start == BothStart(<<x, y>>, seed)
<1>9. w \in Nat /\ w >= 1
  BY <1>4, <1>8 DEF AreWidths
<1>10. seed = tr2[i][x + 1]
  BY <1>8 DEF AgreeTo
<1>11. x = 0 => TopOf(tr2) = seed
  <2> SUFFICES ASSUME x = 0 PROVE TopOf(tr2) = seed
    OBVIOUS
  <2>1. i = Len(tr2)
    BY <1>8, AtTop
  <2>2. x + 1 = 1
    OBVIOUS
  <2> QED BY <1>3, <1>10, <2>1, <2>2
<1>12. Ends(w, x, m)
  <2> HIDE DEF w
  <2>1. m = (x + 1) * w
    BY <1>8 DEF w
  <2>2. (x + 1) * w = x * w + w /\ x * w \in Nat
    BY <1>9
  <2> QED BY <1>7, <1>9, <2>1, <2>2 DEF Ends
<1>13. PartPath(q, h, w, x) = Led(x, seed, <<>>)
  <2>1. PartPath(q, h, w, x) = IF x = 0 THEN <<>> ELSE <<PartRoot(h, w, x)>>
    <3> HIDE DEF h, w
    <3>1. m = (x + 1) * w /\ (x + 1) * w <= Len(h)
      BY <1>1, <1>8 DEF w, h
    <3> QED BY <1>1, <1>5, <1>9, <3>1, WholeSub
  <2>2. PartRoot(h, w, x) = seed
    <3>1. NodesAreRoots(tr, s, i, y)
      BY <1>1, <1>4, <1>8, AllNodesAreRoots
    <3>2. x \in 0 .. y
      BY <1>8
    <3> QED BY <3>1, <3>2 DEF NodesAreRoots
  <2>3. <<seed>> \o <<>> = <<seed>>
    <3> HIDE DEF seed
    <3> QED BY EmptyIsSeq, LedFacts
  <2> HIDE DEF seed
  <2> QED BY <2>1, <2>2, <2>3 DEF Led
<1> HIDE DEF seed
<1>14. IsOnBoth(start, tr, tr2, i, x, y)
  <2>1. start.ok = TRUE /\ start.at = <<x, y>> /\ start.old = seed /\ start.new = seed
    BY DEF BothStart
  <2>2. AgreeTo(tr, tr2, i, x)
    BY <1>8 DEF AgreeTo
  <2>3. OldAt(seed, tr, tr2, i, x)
    BY <1>8, <1>10, <2>2 DEF OldAt
  <2> HIDE DEF start
  <2> QED BY <2>1, <2>3 DEF IsOnBoth, StandsAt, seed
<1> HIDE DEF start, w
<1>15. BothComeBy(q, tr, tr2, s, m, start, x, seed, i)
  <2>1. IsSeq(<<>>) /\ WalkBoth(start, <<>>) = start
    BY EmptyIsSeq, WalkBothNothing
  <2>2. Ends(s[i], x, m) /\ PartPath(q, tr[1], s[i], x) = Led(x, seed, <<>>)
    BY <1>12, <1>13 DEF w
  <2> QED BY <1>8, <1>14, <2>1, <2>2 DEF BothComeBy
<1>16. PICK st : /\ IsSeq(st) /\ q[Len(h)][0] = Led(x, seed, st)
                 /\ IsOnBoth(WalkBoth(start, st), tr, tr2, Len(tr), 0, 0)
  BY <1>4, <1>5, <1>8, <1>15, BothReachTheTop
<1> DEFINE end == WalkBoth(start, st)
<1> HIDE DEF end
<1>17. end.ok = TRUE /\ end.at = <<0, 0>> /\ end.new = TopOf(tr) /\ end.old = TopOf(tr2)
  <2>1. /\ end.ok = TRUE /\ StandsAt(end.at, 0, 0)
        /\ end.new = tr[Len(tr)][0 + 1] /\ OldAt(end.old, tr, tr2, Len(tr), 0)
    BY <1>16 DEF IsOnBoth, end
  <2>2. end.at = <<0, 0>>
    BY <2>1 DEF StandsAt
  <2>3. end.old = tr2[Len(tr2)][1]
    <3>1. CASE AtLast(tr2, Len(tr), 0) /\ end.old = tr2[Len(tr)][0 + 1]
      <4>1. Len(tr) = Len(tr2)
        BY <3>1, AtTop
      <4> QED BY <3>1, <4>1
    <3> QED BY <2>1, <3>1 DEF OldAt
  <2> QED BY <1>3, <2>1, <2>2, <2>3
<1>18. VerifyConsistency(m, n, TopOf(tr2), TopOf(tr), Led(x, seed, st))
  <2>1. OnesStripped(<<m - 1, n - 1>>) = <<x, y>>
    BY <1>7 DEF a, b
  <2>2. end = WalkBoth(BothStart(<<x, y>>, seed), st)
    BY DEF end, start
  <2>3. m < n /\ n \in Nat
    BY <1>1
  <2> HIDE DEF n, h
  <2> QED BY <1>11, <1>16, <1>17, <2>1, <2>2, <2>3, LedVerifies
<1>19. ConsistencyProof(m, h) = Led(x, seed, st)
  BY <1>5, <1>16
<1> QED BY <1>18, <1>19

LEMMA HonestProofsPass == TreeInv => HonestProofsVerify
<1> SUFFICES ASSUME TreeInv PROVE HonestProofsVerify
  OBVIOUS
<1> DEFINE h == LeafLevel
           n == Len(h)
<1>1. IsTree(levels) /\ IsSeq(h) /\ n \in Nat /\ h = levels[1]
  BY SeqFacts DEF TreeInv, IsTree, LeafLevel
<1>2. ASSUME NEW i \in 0 .. n - 1
      PROVE  VerifyInclusion(h[i + 1], i, n, CachedProof(i), CachedRoot)
  <2>1. i \in Nat /\ i < Len(LeafLevel) /\ Len(LeafLevel) > 0
    BY <1>1, <1>2
  <2> QED BY <1>1, <2>1, HonestPathsVerify
<1>3. ASSUME NEW m \in 0 .. n
      PROVE  VerifyConsistency(m, n, Root(SubSeq(h, 1, m)), CachedRoot, ConsistencyProof(m, h))
  <2> DEFINE first == SubSeq(h, 1, m)
             tr2 == Rebuilt(first)
  <2>1. /\ m \in Nat /\ m <= n /\ IsSeq(first) /\ Len(first) = m
        /\ \A j \in 1 .. m : first[j] = h[j]
    <3> HIDE DEF h
    <3> QED BY <1>1, <1>3, FirstLeaves
  <2>2. IsTree(tr2) /\ tr2[1] = first
    <3> HIDE DEF first
    <3> QED BY <2>1, LevelsMakeATree DEF Rebuilt
  <2>3. CASE m = n
    <3>1. first = h
      <4> HIDE DEF first, h
      <4> QED BY <1>1, <2>1, <2>3, SameSeq
    <3>2. Root(first) = CachedRoot
      BY <1>1, <3>1, TopIsRoot DEF CachedRoot
    <3>3. ConsistencyProof(m, h) = <<>>
      BY <2>3 DEF ConsistencyProof
    <3> QED BY <2>1, <2>3, <3>2, <3>3 DEF VerifyConsistency
  <2>4. CASE m = 0
    <3>1. ConsistencyProof(m, h) = <<>>
      BY <2>4 DEF ConsistencyProof
    <3> QED BY <1>1, <2>3, <2>4, <3>1 DEF VerifyConsistency
  <2>5. CASE 0 < m /\ m < n
    <3>1. Root(first) = TopOf(tr2)
      <4> HIDE DEF tr2, first
      <4> QED BY <2>2, TopIsRoot
    <3> HIDE DEF first, tr2, h
    <3>2. AgreeTo(levels, tr2, 1, m)
      BY <1>1, <2>1, <2>2 DEF AgreeTo
    <3>3. Len(tr2[1]) = m /\ m < Len(levels[1])
      BY <1>1, <2>1, <2>2, <2>5
    <3>4. VerifyConsistency(m, Len(levels[1]), TopOf(tr2), TopOf(levels), ConsistencyProof(m, levels[1]))
      BY <1>1, <2>1, <2>2, <2>5, <3>2, <3>3, ExtensionsVerify
    <3> QED BY <1>1, <3>1, <3>4 DEF CachedRoot, first
  <2> QED BY <2>1, <2>3, <2>4, <2>5
<1> QED BY <1>2, <1>3 DEF HonestProofsVerify

(* However large the log: what the cache keeps level by level is the tree     *)
(* that RFC 6962 defines (merkle.root, inclusion_proof), the proofs cut from   *)
(* it verify for every leaf and for every earlier size, and no others do for  *)
(* a leaf or an earlier tree that is not there.                              *)
THEOREM TheLogIsSound == LogSpec => []LogIsSound
<1>1. TreeInv => CacheIsTree /\ HonestProofsVerify
  BY CacheIsTheTree, HonestProofsPass
<1>2. CacheIsTree /\ HonestProofsVerify /\ InclusionIsSound /\ ConsistencyIsSound => LogIsSound
  BY DEF LogIsSound
<1> QED BY <1>1, <1>2, CacheStaysATree, NothingFalseIsIncluded, NothingFalseIsConsistent, PTL
==========================================================================
