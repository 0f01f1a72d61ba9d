---------------------------- MODULE WriteOnce ----------------------------
(***************************************************************************)
(* What reading a replicated record promises (oblivio/replica.py): each    *)
(* identifier stands for at most one content.  Once some read returned it, *)
(* no later read by anybody returns another.                               *)
(***************************************************************************)
CONSTANTS Ids, Contents, Unknown

VARIABLE content

Init == content = [i \in Ids |-> Unknown]

(* The first read of i that succeeds settles what i stands for. *)
Settle(i, v) ==
  /\ content[i] = Unknown
  /\ content' = [content EXCEPT ![i] = v]

Next == \E i \in Ids, v \in Contents : Settle(i, v)

Spec == Init /\ [][Next]_content
==========================================================================
