------------------------------ MODULE Metronome ------------------------------
(* What somebody who watches the wire should see of a channel: a request of  *)
(* one size at every slot, the slots one Interval apart or later, whether    *)
(* anything is asked or not.                                                 *)
EXTENDS Integers

CONSTANTS Interval, MaxLate, Size

VARIABLES
  wait,   \* time to the next slot; at 0 or below it is due
  wire    \* the size of what the last slot put on the wire

Init == wait = 0 /\ wire = Size

(* The owner of the channel may be late, and is never early.                 *)
Pass ==
  /\ wait' = IF wait > -MaxLate THEN wait - 1 ELSE wait
  /\ UNCHANGED wire

Beat ==
  /\ wait <= 0
  /\ wait' = Interval
  /\ wire' = Size

Next == Pass \/ Beat

Spec == Init /\ [][Next]_<<wait, wire>>
==============================================================================
