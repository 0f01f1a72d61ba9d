-------------------------- MODULE PrepaidAccount --------------------------
(***************************************************************************)
(* What a privacy budget promises (oblivio/dp.py): spending is booked      *)
(* before anything is bought with it, and never above the limit.  "A       *)
(* budget that is checked after transmission is a diary, not a control."   *)
(***************************************************************************)
EXTENDS Naturals

CONSTANT Limit

VARIABLES booked,    \* spent, according to the book
          bought     \* spent, according to what was sent

Init == /\ booked = 0
        /\ bought = 0

Book == /\ booked' > booked /\ booked' <= Limit
        /\ UNCHANGED bought

Buy == /\ bought' > bought /\ bought' <= booked
       /\ UNCHANGED booked

Next == Book \/ Buy

Spec == Init /\ [][Next]_<<booked, bought>>
===========================================================================
