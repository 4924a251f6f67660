------------------------------ MODULE MCSpiDma ------------------------------
(***************************************************************************)
(* Instances of SpiDma.  The RP2040 has 12 channels; enableDma claims the  *)
(* transmit side's channel after the receive side's, both in the lower     *)
(* half for the first three SPI objects and in the upper half after that.  *)
(***************************************************************************)
EXTENDS SpiDma

LowChannels == [s \in Sides |-> IF s = "rx" THEN 0 ELSE 1]
HighChannels == [s \in Sides |-> IF s = "rx" THEN 6 ELSE 7]
=============================================================================
