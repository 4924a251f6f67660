------------------------------ MODULE CanMailbox ------------------------------
(***************************************************************************)
(* What the receive side of the CAN driver promises its user: frames come  *)
(* in, numbered in order, and each is read exactly once, in that order.    *)
(* The abstract specification of rxReadInTask (source/mcp2515Task.cpp).    *)
(***************************************************************************)
EXTENDS Naturals, Sequences

VARIABLES
  received,    \* how many frames came in
  read         \* the frames handed over, in the order of the calls

Init == received = 0 /\ read = << >>

Receive ==
  /\ received' = received + 1
  /\ UNCHANGED read

Read ==
  /\ Len(read) < received
  /\ read' = Append(read, Len(read) + 1)
  /\ UNCHANGED received

Next == Receive \/ Read

Spec == Init /\ [][Next]_<<received, read>>

(* A frame that came in is read at last. *)
FairSpec == Spec /\ WF_<<received, read>>(Read)
=============================================================================
