--------------------------- MODULE MCCanRegisters ---------------------------
(***************************************************************************)
(* An instance of CanRegisters: a filter and the mask of RXB0, and a       *)
(* filter of RXB1, standard and extended; the two identifiers at the test  *)
(* of txBuffer0Send; frames that differ from the filter inside its mask,   *)
(* outside it, and in their width; a slow and a fast bit rate.             *)
(***************************************************************************)
EXTENDS CanRegisters

MCCalls ==
  { [slot |-> 0, id |-> 305419896, ext |-> TRUE],      \* 0x12345678
    [slot |-> 6, id |-> 536608768, ext |-> TRUE],      \* 0x1FFC0000
    [slot |-> 2, id |-> 1165, ext |-> FALSE] }

MCSetups == {[rate |-> 1, rollover |-> TRUE], [rate |-> 7, rollover |-> FALSE]}

MCSendIds == {2047, 2048}

Wire(ext, id, dlc, rtr) ==
  [ext |-> ext, sid |-> IF ext THEN id \div 262144 ELSE id,
   eid |-> IF ext THEN id % 262144 ELSE 0, dlc |-> dlc, rtr |-> rtr]

MCBusFrames ==
  { Wire(FALSE, 1165, 15, 1), Wire(TRUE, 305419897, 8, 1), Wire(TRUE, 536870911, 0, 0) }
=============================================================================
