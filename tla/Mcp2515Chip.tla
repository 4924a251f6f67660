----------------------------- MODULE Mcp2515Chip -----------------------------
(***************************************************************************)
(* The MCP2515 CAN controller and the RP2040 edge detector on its INT pin, *)
(* as source/mcp2515Task.cpp uses them: the external half of the CAN       *)
(* driver model.  Frames are numbered in the order the bus carries them.   *)
(*                                                                         *)
(* A received frame goes into RXB0 or RXB1 and raises RX0IF or RX1IF; the  *)
(* chip overwrites a buffer whose flag is clear, read or not, and drops a  *)
(* frame whose buffer is still flagged.  INT is low while an enabled flag  *)
(* is up, so a flag raised while INT is low makes no edge.                 *)
(***************************************************************************)
EXTENDS Integers, Sequences

CONSTANTS
  NRx, NErr,   \* bounds: frames the bus carries to us, error events
  Rollover,    \* RxBufferType::Rollover, otherwise Independent
  WarmBoot,    \* the chip kept running while the processor restarted
  Pacing       \* when the next frame may come: "any" time, when its "buffer"
               \* has been read, when the "driver" has delivered them all

ASSUME BoundsAssumption == NRx \in Nat /\ NErr \in Nat
ASSUME ModeAssumption == Rollover \in BOOLEAN /\ WarmBoot \in BOOLEAN
ASSUME PacingAssumption == Pacing \in {"any", "buffer", "driver"}

VARIABLES
  mode,        \* "config", "normal", or "leaving": in Normal mode, asked for
               \* Configuration mode, with a frame to get out first
  inte,        \* CANINTE has been written with the flags of initialInTask
  intf,        \* CANINTF: the flags that are up
  boff,        \* EFLG.TXBO
  rxb,         \* the frame in RXB0 and in RXB1, 0 when none came yet
  txb,         \* header and body registers of TXB0
  txreq,       \* TXB0CTRL.TXREQ
  irqEnabled,  \* the falling edge interrupt of the INT pin is enabled
  irqPending,  \* a falling edge waits for the processor
  arrived,     \* frames that arrived
  onBus,       \* the frames we transmitted
  errors,      \* errors so far: bus errors and receive overflows
  delivered    \* what rxReadInTask returned, call by call

regVars == <<rxb, txb, txreq>>
pinVars == <<inte, intf, irqEnabled, irqPending>>
busVars == <<arrived, onBus, errors>>
chipVars == <<mode, pinVars, boff, regVars, busVars>>

Modes == {"config", "normal", "leaving"}
OnTheBus == mode # "config"
Buffers == 0..1
Flags == {"RX0", "RX1", "TX0", "ERR"}   \* ERR: MERRF, WAKIF or ERRIF
RxFlag(b) == IF b = 0 THEN "RX0" ELSE "RX1"

ChipTypeOK ==
  /\ mode \in Modes
  /\ inte \in BOOLEAN
  /\ intf \subseteq Flags
  /\ boff \in BOOLEAN
  /\ rxb \in [Buffers -> Nat]
  /\ txb \in [hdr : Nat, body : Nat]
  /\ txreq \in BOOLEAN
  /\ irqEnabled \in BOOLEAN
  /\ irqPending \in BOOLEAN
  /\ arrived \in Nat
  /\ onBus \in Seq([hdr : Nat, body : Nat])
  /\ errors \in Nat

(* After power-up the chip is in Configuration mode with every interrupt   *)
(* off; a chip that was not reset goes on as the last session left it.     *)
ChipInit ==
  /\ mode = IF WarmBoot THEN "normal" ELSE "config"
  /\ inte = WarmBoot
  /\ intf = {}
  /\ boff = FALSE
  /\ rxb = [b \in Buffers |-> 0]
  /\ txb = [hdr |-> 0, body |-> 0]
  /\ txreq = FALSE
  /\ irqEnabled = FALSE
  /\ irqPending = FALSE
  /\ arrived = 0
  /\ onBus = << >>
  /\ errors = 0

IntLow == inte /\ intf # {}

(* Every flag the chip raises, and the edge it may cause. *)
Raise(flag) ==
  /\ intf' = intf \cup {flag}
  /\ irqPending' = (irqPending \/ (irqEnabled /\ inte /\ ~IntLow))
  /\ UNCHANGED <<inte, irqEnabled>>

HasBeenRead(b) ==
  rxb[b] = 0 \/ \E i \in 1..Len(delivered) : delivered[i].body = rxb[b]

MayArrive(b) ==
  CASE Pacing = "any" -> TRUE
    [] Pacing = "buffer" -> HasBeenRead(b)
    [] Pacing = "driver" -> Len(delivered) = arrived

(* The acceptance filters choose the buffer in Independent mode; with      *)
(* BUKT a frame that finds RXB0 flagged rolls over into RXB1.              *)
Accepts(b) ==
  IF Rollover THEN b = 1 <=> "RX0" \in intf ELSE TRUE

FrameArrives(b) ==
  /\ OnTheBus
  /\ arrived < NRx
  /\ Accepts(b)
  /\ MayArrive(b)
  /\ arrived' = arrived + 1
  /\ IF RxFlag(b) \in intf
       THEN Raise("ERR") /\ errors' = errors + 1 /\ UNCHANGED rxb   \* RXnOVR, ERRIF
       ELSE Raise(RxFlag(b)) /\ rxb' = [rxb EXCEPT ![b] = arrived + 1] /\ UNCHANGED errors
  /\ UNCHANGED <<mode, boff, txb, txreq, onBus>>

TransmitDone ==
  /\ OnTheBus
  /\ txreq
  /\ ~boff
  /\ txreq' = FALSE
  /\ onBus' = Append(onBus, txb)
  /\ Raise("TX0")
  /\ mode' = IF mode = "leaving" THEN "config" ELSE mode
  /\ UNCHANGED <<boff, rxb, txb, arrived, errors>>

BusError ==
  /\ OnTheBus
  /\ errors < NErr
  /\ errors' = errors + 1
  /\ boff' \in {boff, TRUE}
  /\ Raise("ERR")
  /\ UNCHANGED <<mode, regVars, arrived, onBus>>

(* The chip returns from bus-off by itself after 128 idle periods. *)
BusOffEnds ==
  /\ boff
  /\ boff' = FALSE
  /\ UNCHANGED <<mode, pinVars, regVars, busVars>>

ChipStep == (\E b \in Buffers : FrameArrives(b)) \/ TransmitDone \/ BusError \/ BusOffEnds

-----------------------------------------------------------------------------
(* The register accesses of the driver.  Each is one csSelect..csDeselect  *)
(* bracket, so none sees another half done (SpiBus, CsExclusive).          *)
ClearFlag(flag) ==                          \* bitModify(CANINTF, flag, 0)
  /\ intf' = intf \ {flag}
  /\ UNCHANGED <<inte, irqEnabled, irqPending>>

(* writeByte(CANCTRL, REQOP_..).  The chip leaves Normal mode only when no *)
(* frame waits to be sent, and bus-off with it.                            *)
SetMode(m) ==
  /\ mode' = IF m = "config" /\ OnTheBus /\ txreq THEN "leaving" ELSE m
  /\ boff' = (boff /\ mode' # "config")

(* Registers of a pending TXB0 may or may not take a write. *)
WriteTxb(field, frame) ==
  txb' \in {[txb EXCEPT ![field] = frame]} \cup (IF txreq THEN {txb} ELSE {})
=============================================================================
