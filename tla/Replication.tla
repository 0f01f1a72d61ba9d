--------------------------- MODULE Replication ---------------------------
(***************************************************************************)
(* Records kept on several nodes (oblivio/replica.py, ReplicatedClient).   *)
(* A client sends each request to every node at once and each answer comes *)
(* when it comes; when all have been heard from or given up on, it counts. *)
(* A node can be down when it is asked, a reply can be lost or refused     *)
(* after the node has stored the record, and hostile nodes answer what     *)
(* they like.                                                              *)
(*                                                                         *)
(* Of a node's log only one thing matters here, the content it finds for   *)
(* an identifier: the first it was given (MemoryStore, LookupIsFirst).     *)
(* Contents are sealed under a key only the clients hold, so no node can   *)
(* serve under an identifier what no client encrypted under it.            *)
(***************************************************************************)
EXTENDS Naturals, FiniteSets

CONSTANTS Nodes, Hostile, Clients, Ids, Contents,
          quorum,                  \* agreeing nodes a call needs
          Absent, Waiting, Failed  \* not a content

ASSUME ConstantsAssumption ==
  /\ IsFiniteSet(Nodes) /\ Hostile \subseteq Nodes
  /\ quorum \in 1..Cardinality(Nodes)
  /\ {Absent, Waiting, Failed} \cap Contents = {}
  /\ Waiting # Failed

VARIABLES
  held,     \* per node and identifier: the content a lookup finds
  op,       \* per client: the call under way
  answer,   \* per client: what each node answered to it
  made,     \* history: contents some client encrypted under an identifier
  puts,     \* history: puts that returned a receipt
  reads     \* history: what gets returned

callVars == <<op, answer>>
history == <<made, puts, reads>>
vars == <<held, callVars, history>>

Honest == Nodes \ Hostile
Record == Ids \X Contents
Idle == [kind |-> "idle"]
Call == {Idle} \cup [kind : {"put"}, id : Ids, content : Contents]
               \cup [kind : {"get"}, id : Ids]
Answer == Contents \cup {Waiting, Failed}

TypeOK ==
  /\ held \in [Nodes -> [Ids -> Contents \cup {Absent}]]
  /\ op \in [Clients -> Call]
  /\ answer \in [Clients -> [Nodes -> Answer]]
  /\ made \subseteq Record /\ puts \subseteq made /\ reads \subseteq made

Init ==
  /\ held = [n \in Nodes |-> [i \in Ids |-> Absent]]
  /\ op = [c \in Clients |-> Idle]
  /\ answer = [c \in Clients |-> [n \in Nodes |-> Failed]]
  /\ made = {} /\ puts = {} /\ reads = {}

--------------------------------------------------------------------------
(* The nodes that gave this client this content. *)
Backers(c, v) == {n \in Nodes : answer[c][n] = v}

(* Mutant: the last content wins. *)
KeptLast(row, i, v) == [row EXCEPT ![i] = v]

(* An honest node keeps the first content an identifier came with. *)
Kept(row, i, v) == IF row[i] = Absent THEN [row EXCEPT ![i] = v] ELSE row

Begin(c, call) ==
  /\ op[c] = Idle
  /\ op' = [op EXCEPT ![c] = call]
  /\ answer' = [answer EXCEPT ![c] = [n \in Nodes |-> Waiting]]
  /\ UNCHANGED <<held, puts, reads>>

(* Encrypt once, upload the same bytes to every node. *)
BeginPut(c, i, v) ==
  /\ Begin(c, [kind |-> "put", id |-> i, content |-> v])
  /\ made' = made \cup {<<i, v>>}

BeginGet(c, i) ==
  /\ Begin(c, [kind |-> "get", id |-> i])
  /\ UNCHANGED made

Hear(c, n, a) ==
  /\ answer[c][n] = Waiting
  /\ answer' = [answer EXCEPT ![c][n] = a]
  /\ UNCHANGED <<op, history>>

(* An honest node stores the record; the receipt reaches the client or is  *)
(* lost, late, or refused by one of its checks.                            *)
ServePut(c, n) ==
  /\ op[c].kind = "put" /\ n \in Honest
  /\ \E a \in {op[c].content, Failed} : Hear(c, n, a)
  /\ held' = [held EXCEPT ![n] = Kept(@, op[c].id, op[c].content)]

(* An honest node answers with what it holds, or that it holds nothing. *)
ServeGet(c, n) ==
  /\ op[c].kind = "get" /\ n \in Honest
  /\ Hear(c, n, IF held[n][op[c].id] = Absent THEN Failed
                                              ELSE held[n][op[c].id])
  /\ UNCHANGED held

(* A hostile node confirms a put it may not have stored, and answers a get *)
(* with anything that was ever encrypted under the identifier.             *)
ServeHostile(c, n) ==
  /\ op[c] # Idle /\ n \in Hostile
  /\ \E v \in Contents :
       /\ op[c].kind = "put" => v = op[c].content
       /\ <<op[c].id, v>> \in made
       /\ Hear(c, n, v)
  /\ UNCHANGED held

(* The node was down, or the answer lost, late or refused. *)
Lose(c, n) ==
  /\ op[c] # Idle
  /\ Hear(c, n, Failed)
  /\ UNCHANGED held

Return(c) ==
  /\ op[c] # Idle
  /\ \A n \in Nodes : answer[c][n] # Waiting
  /\ op' = [op EXCEPT ![c] = Idle]
  /\ answer' = [answer EXCEPT ![c] = [n \in Nodes |-> Failed]]
  /\ UNCHANGED <<held, made>>

(* Mutant: one node too few is let through. *)
FinishPutShort(c) ==
  /\ op[c].kind = "put"
  /\ Return(c)
  /\ puts' = IF Cardinality(Backers(c, op[c].content)) + 1 >= quorum
             THEN puts \cup {<<op[c].id, op[c].content>>} ELSE puts
  /\ UNCHANGED reads

(* Below the quorum put raises ReplicationError and undoes nothing. *)
FinishPut(c) ==
  /\ op[c].kind = "put"
  /\ Return(c)
  /\ puts' = IF Cardinality(Backers(c, op[c].content)) >= quorum
             THEN puts \cup {<<op[c].id, op[c].content>>} ELSE puts
  /\ UNCHANGED reads

(* The content most nodes gave. Of two with as many backers the one first  *)
(* in the order of the URLs wins, which here is either.                    *)
Winner(c, v) ==
  /\ Backers(c, v) # {}
  /\ \A w \in Contents : Cardinality(Backers(c, w)) <= Cardinality(Backers(c, v))

(* A get returns the winner if a quorum backs it.  Otherwise, and when no  *)
(* node answered, it raises: DivergenceError if there were two groups.     *)
FinishGet(c) ==
  /\ op[c].kind = "get"
  /\ Return(c)
  /\ \/ \E v \in Contents :
          /\ Winner(c, v) /\ Cardinality(Backers(c, v)) >= quorum
          /\ reads' = reads \cup {<<op[c].id, v>>}
     \/ /\ \A v \in Contents :
             Winner(c, v) => Cardinality(Backers(c, v)) < quorum
        /\ UNCHANGED reads
  /\ UNCHANGED puts

Next ==
  \E c \in Clients :
    \/ \E i \in Ids : BeginGet(c, i) \/ \E v \in Contents : BeginPut(c, i, v)
    \/ \E n \in Nodes : \/ ServePut(c, n) \/ ServeGet(c, n)
                        \/ ServeHostile(c, n) \/ Lose(c, n)
    \/ FinishPut(c) \/ FinishGet(c)

Spec == Init /\ [][Next]_vars

--------------------------------------------------------------------------
(* The honest nodes on which i stands for v. *)
Holders(i, v) == {n \in Honest : held[n][i] = v}

(* Two reads of one identifier never return different contents, whoever    *)
(* made them, whatever the hostile nodes told each of them, and whichever  *)
(* nodes were down at the time.                                            *)
ReadsAgree ==
  \A i \in Ids, v, w \in Contents : <<i, v>> \in reads /\ <<i, w>> \in reads => v = w

(* A put that returned, of an identifier used once, is kept by so many     *)
(* honest nodes that with the hostile ones they make a quorum.             *)
AckedIsHeld ==
  \A i \in Ids, v \in Contents :
    /\ <<i, v>> \in puts
    /\ \A w \in Contents : <<i, w>> \in made => w = v
    => Cardinality(Holders(i, v)) + Cardinality(Hostile) >= quorum

(* The reads implement WriteOnce: what the first returned is what every    *)
(* later one returns.                                                      *)
ReadContent ==
  [i \in Ids |-> IF \E v \in Contents : <<i, v>> \in reads
                 THEN CHOOSE v \in Contents : <<i, v>> \in reads ELSE Absent]
Register == INSTANCE WriteOnce WITH content <- ReadContent, Unknown <- Absent
ImplementsWriteOnce == Register!Spec
==========================================================================
