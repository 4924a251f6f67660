---------------------------- MODULE CanRegisters ----------------------------
(***************************************************************************)
(* The registers of the MCP2515 under all that writes and reads them: the  *)
(* bring-up (initialInTask), any number of tasks in setFilter and setMask, *)
(* the bus-off recovery of canService, senders, and a reader of a receive  *)
(* buffer (source/mcp2515.cpp and source/mcp2515Task.cpp).  Nothing in the *)
(* code makes one of them wait for another, nor for the bring-up.          *)
(*                                                                         *)
(* One step is one csSelect .. csDeselect bracket.  SPI::lock keeps the    *)
(* others out up to the end of the first bracket of a section and no       *)
(* longer (SpiBus, LockCoversFirstBracket), so here it adds nothing.       *)
(*                                                                         *)
(* The chip takes writes to its acceptance and bit timing registers in     *)
(* Configuration mode only, leaves Normal mode only when no frame waits to *)
(* be sent, and may put a frame into a receive buffer between any two      *)
(* brackets: canService clears RXnIF before the buffer is read             *)
(* (mcp2515Task.cpp:72-73).  The driver asks for a mode and never looks    *)
(* whether it is in it.                                                    *)
(***************************************************************************)
EXTENDS CanIds, Sequences

CONSTANTS
  Configurers,     \* tasks that call setFilter and setMask
  Calls,           \* what they ask for: register, identifier, extended
  Senders,         \* tasks that call txBuffer0Send
  SendIds,         \* identifiers that are sent
  BusFrames,       \* frames that other nodes send
  Mhz,             \* the oscillator
  Setups,          \* bit rates and buffer types a driver is set up for
  WarmBoot,        \* the chip kept running while the processor restarted
  NOps             \* bound: operations started in all, by weight

Slots == 0..7      \* filters 0 to 5, then masks 0 and 1
Nobody == [slot |-> 0, id |-> -1, ext |-> FALSE]

ASSUME CallsAssumption ==
  Calls \subseteq [slot : Slots, id : Ids, ext : BOOLEAN]
ASSUME SendIdsAssumption == SendIds \subseteq Ids
ASSUME BusFramesAssumption == BusFrames \subseteq Frames
ASSUME ChipAssumption ==
  /\ Mhz \in {8, 16} /\ WarmBoot \in BOOLEAN
  /\ Setups \subseteq [rate : 1..9, rollover : BOOLEAN]
ASSUME BoundAssumption == NOps \in Nat

VARIABLES
  reqop, opmod,    \* CANCTRL.REQOP and CANSTAT.OPMOD: "config" or "normal"
  cnf,             \* CNF1, CNF2, CNF3
  acc,             \* the registers of each filter and mask
  rxm, bukt,       \* RXM of RXB0CTRL and RXB1CTRL; BUKT of RXB0CTRL
  txr, txreq,      \* identifier registers of TXB0; TXREQ
  rxr, rxdlc,      \* identifier and DLC registers of a receive buffer
  setup,           \* the bit rate given to the constructor, the type of the
                   \* buffers given to initialInTask
  boot,            \* how far initialInTask is
  conf,            \* each configurer: pc, byte to write, call, BUKT as read
  recovery,        \* bus-off recovery of canService
  sending,         \* each txBuffer0Send: identifier and bracket, 0 outside
  reading,         \* rxBufferNRead: the next register, and its locals
  ops,             \* operations started, by weight
  wanted,          \* history: the identifier of the last request to send
  spoilt,          \* history: TXB0 was pending, or in other hands, when
                   \* some of its bytes were written
  rxframe,         \* history: the frame in the receive buffer
  torn,            \* history: it came since the read began
  intruded,        \* history: configurers whose call has been disturbed
  held,            \* history: the last call for each register, undisturbed
  undone           \* history: what of the bring-up a section may have undone

modeVars == <<reqop, opmod>>
rxVars == <<acc, rxm, bukt>>
sendVars == <<txr, txreq, wanted, spoilt, sending>>
readVars == <<rxr, rxdlc, rxframe, reading, torn>>
bootVars == <<boot, cnf, setup>>
confVars == <<conf, intruded, held, undone>>
vars == <<modeVars, rxVars, sendVars, readVars, bootVars, recovery, confVars, ops>>

Modes == {"config", "normal"}
Order == <<"sidh", "sidl", "eid8", "eid0">>
BootLabels == {"cnf1", "cnf2", "cnf3", "rxb0", "rxb1", "normal", "done"}
ConfLabels == {"idle", "config", "byte", "normal", "read", "write"}

Conf == [pc : ConfLabels, n : 1..4, call : Calls \cup {Nobody}, bukt : BOOLEAN]
AtIdle == [pc |-> "idle", n |-> 1, call |-> Nobody, bukt |-> FALSE]

Sending == [id : SendIds \cup {0}, n : 0..5]
NotSending == [id |-> 0, n |-> 0]

Reading == [pc : Fields \cup {"idle", "dlc", "return"}, regs : Regs, dlc : Byte]
NotReading == [pc |-> "idle", regs |-> NoRegs, dlc |-> 0]
NoFrame == [ext |-> FALSE, sid |-> -1, eid |-> 0, dlc |-> 0, rtr |-> 0]

TypeOK ==
  /\ reqop \in Modes /\ opmod \in Modes
  /\ cnf \in [1..3 -> Byte]
  /\ acc \in [Slots -> Regs]
  /\ rxm \in [0..1 -> 0..3] /\ bukt \in BOOLEAN
  /\ txr \in Regs /\ txreq \in BOOLEAN
  /\ rxr \in Regs /\ rxdlc \in Byte
  /\ setup \in Setups
  /\ boot \in BootLabels
  /\ conf \in [Configurers -> Conf]
  /\ recovery \in {"idle", "seen", "normal"}
  /\ sending \in [Senders -> Sending]
  /\ reading \in Reading
  /\ ops \in 0..NOps
  /\ wanted \in SendIds \cup {0} /\ spoilt \in BOOLEAN
  /\ rxframe \in BusFrames \cup {NoFrame} /\ torn \in BOOLEAN
  /\ intruded \subseteq Configurers
  /\ held \in [Slots -> Calls \cup {Nobody}]
  /\ undone \subseteq {"rate", "rollover"}

(* After power-up, or as the last session left the chip. *)
Init ==
  /\ reqop = (IF WarmBoot THEN "normal" ELSE "config") /\ opmod = reqop
  /\ cnf = [i \in 1..3 |-> 0]
  /\ acc = [s \in Slots |-> NoRegs]
  /\ rxm = [b \in 0..1 |-> 0] /\ bukt = FALSE
  /\ txr = NoRegs /\ txreq = FALSE
  /\ rxr = NoRegs /\ rxdlc = 0
  /\ setup \in Setups
  /\ boot = "cnf1"
  /\ conf = [t \in Configurers |-> AtIdle]
  /\ recovery = "idle"
  /\ sending = [t \in Senders |-> NotSending] /\ reading = NotReading
  /\ ops = 0
  /\ wanted = 0 /\ spoilt = FALSE
  /\ rxframe = NoFrame /\ torn = FALSE
  /\ intruded = {} /\ held = [s \in Slots |-> Nobody] /\ undone = {}

-----------------------------------------------------------------------------
(* A write of CANCTRL.  From Normal mode the chip goes to Configuration    *)
(* mode only when TXREQ is clear; a "normal" written by somebody else      *)
(* takes it away from whoever is in the middle of a section.               *)
InSection(t) == conf[t].pc \in {"byte", "normal"}
InSections == {t \in Configurers : InSection(t)}

Lags(m) == m = "config" /\ opmod = "normal" /\ txreq

Ask(m) ==
  /\ reqop' = m
  /\ opmod' = IF Lags(m) THEN opmod ELSE m

-----------------------------------------------------------------------------
(* initialInTask, from setMcp2515Bitrate on; resetMcp2515 before it is a   *)
(* write without data, and the interrupts are the matter of Mcp2515Task.   *)
Buffer(slot) == IF slot \in {0, 1, 6} THEN 0 ELSE 1

BootFrame == UNCHANGED <<acc, sendVars, readVars, setup, recovery, conf, ops>>

BootRate(i, from, to) ==
  /\ boot = from /\ boot' = to
  /\ cnf' = IF opmod = "config" THEN [cnf EXCEPT ![i] = BitrateRow(Mhz, setup.rate)[i]] ELSE cnf
  /\ UNCHANGED <<modeVars, rxm, bukt, intruded, held, undone>> /\ BootFrame

(* The buffer takes every frame again, whatever a call made of it; and a   *)
(* section that has read RXB0CTRL before will write it back as it was.     *)
TakesAll(b) ==
  /\ rxm' = [rxm EXCEPT ![b] = 3]
  /\ held' = [s \in Slots |-> IF Buffer(s) = b THEN Nobody ELSE held[s]]

HasReadRxb0(t) == conf[t].pc = "write" /\ Buffer(conf[t].call.slot) = 0

BootRxb0 ==
  /\ boot = "rxb0" /\ boot' = IF setup.rollover THEN "normal" ELSE "rxb1"
  /\ TakesAll(0)
  /\ bukt' = setup.rollover
  /\ undone' = undone \cup (IF \E t \in Configurers : HasReadRxb0(t) THEN {"rollover"} ELSE {})
  /\ UNCHANGED <<modeVars, cnf, intruded>> /\ BootFrame

BootRxb1 ==
  /\ boot = "rxb1" /\ boot' = "normal"
  /\ TakesAll(1)
  /\ UNCHANGED <<modeVars, cnf, bukt, intruded, undone>> /\ BootFrame

BootNormal ==
  /\ boot = "normal" /\ boot' = "done"
  /\ Ask("normal")
  /\ intruded' = intruded \cup InSections
  /\ UNCHANGED <<cnf, rxm, bukt, held, undone>> /\ BootFrame

Boot ==
  \/ BootRate(1, "cnf1", "cnf2") \/ BootRate(2, "cnf2", "cnf3")
  \/ BootRate(3, "cnf3", "rxb0")
  \/ BootRxb0 \/ BootRxb1 \/ BootNormal

-----------------------------------------------------------------------------
(* Each operation that starts counts against the bound; a setFilter, a     *)
(* setMask and a txBuffer0Send count twice.                                *)
StartOp(weight) == ops + weight <= NOps /\ ops' = ops + weight

(* setFilter and setMask.  A call is marked as intruded when another one   *)
(* for the same register overlaps it, when the chip does not follow into   *)
(* Configuration mode, and when somebody else asks for Normal mode.        *)
ConfFrame == UNCHANGED <<sendVars, readVars, bootVars, recovery>>

Rivals(slot) == {u \in Configurers : conf[u].pc # "idle" /\ conf[u].call.slot = slot}

Configure(t) ==
  /\ StartOp(2)
  /\ conf[t].pc = "idle"
  /\ \E call \in Calls :
       /\ conf' = [conf EXCEPT ![t] = [AtIdle EXCEPT !.pc = "config", !.call = call]]
       /\ held' = [held EXCEPT ![call.slot] = Nobody]
       /\ intruded' = IF Rivals(call.slot) = {} THEN intruded \ {t}
                      ELSE intruded \cup Rivals(call.slot) \cup {t}
  /\ UNCHANGED <<modeVars, rxVars, undone>> /\ ConfFrame

(* The mutant writes the bytes in whatever mode the chip is in. *)
ConfigModeSkipped(t) ==
  /\ conf[t].pc = "config"
  /\ conf' = [conf EXCEPT ![t].pc = "byte"]
  /\ UNCHANGED <<modeVars, rxVars, ops, intruded, held, undone>> /\ ConfFrame

ConfigMode(t) ==
  /\ conf[t].pc = "config"
  /\ Ask("config")
  /\ conf' = [conf EXCEPT ![t].pc = "byte"]
  /\ intruded' = IF Lags("config") THEN intruded \cup {t} ELSE intruded
  /\ UNCHANGED <<rxVars, ops, held, undone>> /\ ConfFrame

(* writeFilterOrMask, byte by byte up to the last.                         *)
WriteFilterOrMask(t, last) ==
  LET c == conf[t].call
      n == conf[t].n
      field == Order[n]
  IN /\ conf[t].pc = "byte"
     /\ acc' = IF opmod = "config"
                 THEN [acc EXCEPT ![c.slot][field] = FilterRegs(c.id, c.ext)[field]]
                 ELSE acc
     /\ conf' = [conf EXCEPT ![t].pc = IF n = last THEN "normal" ELSE "byte",
                             ![t].n = IF n = last THEN 1 ELSE n + 1]
     /\ UNCHANGED <<modeVars, rxm, bukt, ops, intruded, held, undone>> /\ ConfFrame

FilterByte(t) == WriteFilterOrMask(t, 4)

(* Normal mode before initialInTask has written the bit rate keeps it from *)
(* doing so.  The mutant leaves the chip where it is.                      *)
NormalModeForgotten(t) ==
  /\ conf[t].pc = "normal"
  /\ conf' = [conf EXCEPT ![t].pc = "read"]
  /\ UNCHANGED <<modeVars, rxVars, ops, intruded, held, undone>> /\ ConfFrame

NormalMode(t) ==
  /\ conf[t].pc = "normal"
  /\ Ask("normal")
  /\ conf' = [conf EXCEPT ![t].pc = "read"]
  /\ intruded' = intruded \cup (InSections \ {t})
  /\ undone' = undone \cup (IF boot \in {"cnf1", "cnf2", "cnf3"} THEN {"rate"} ELSE {})
  /\ UNCHANGED <<rxVars, ops, held>> /\ ConfFrame

ReadRxbCtrl(t) ==
  LET b == Buffer(conf[t].call.slot)
  IN /\ conf[t].pc = "read"
     /\ conf' = [conf EXCEPT ![t].pc = "write", ![t].bukt = (b = 0 /\ bukt)]
     /\ UNCHANGED <<modeVars, rxVars, ops, intruded, held, undone>> /\ ConfFrame

(* ... & ~RXM, and the call returns.  The mutant writes RXM_VALID_ALL.     *)
Returned(t) ==
  held' = [held EXCEPT ![conf[t].call.slot] =
             IF t \in intruded \/ Rivals(conf[t].call.slot) # {t}
               THEN Nobody ELSE conf[t].call]

WriteRxbCtrlPlain(t) ==
  LET b == Buffer(conf[t].call.slot)
  IN /\ conf[t].pc = "write"
     /\ rxm' = [rxm EXCEPT ![b] = 0]
     /\ bukt' = (bukt /\ b # 0)
     /\ conf' = [conf EXCEPT ![t] = AtIdle]
     /\ Returned(t)
     /\ UNCHANGED <<modeVars, acc, ops, intruded, undone>> /\ ConfFrame

WriteRxbCtrl(t) ==
  LET b == Buffer(conf[t].call.slot)
  IN /\ conf[t].pc = "write"
     /\ rxm' = [rxm EXCEPT ![b] = 0]
     /\ bukt' = IF b = 0 THEN conf[t].bukt ELSE bukt
     /\ conf' = [conf EXCEPT ![t] = AtIdle]
     /\ Returned(t)
     /\ UNCHANGED <<modeVars, acc, ops, intruded, undone>> /\ ConfFrame

ConfStep(t) ==
  \/ ConfigMode(t) \/ FilterByte(t) \/ NormalMode(t)
  \/ ReadRxbCtrl(t) \/ WriteRxbCtrl(t)

-----------------------------------------------------------------------------
(* Bus-off recovery of run: TXBO seen in EFLG, Configuration mode, a       *)
(* delay, Normal mode.  It takes an error interrupt, which initialInTask   *)
(* enables last, if the last session did not.                              *)
ServiceFrame == UNCHANGED <<rxVars, sendVars, readVars, bootVars, conf, held, undone>>

BusOffSeen ==
  /\ StartOp(1)
  /\ opmod = "normal" /\ (WarmBoot \/ boot \in {"normal", "done"})
  /\ recovery = "idle" /\ recovery' = "seen"
  /\ UNCHANGED <<modeVars, intruded>> /\ ServiceFrame

RecoverConfig ==
  /\ recovery = "seen" /\ recovery' = "normal"
  /\ Ask("config")
  /\ UNCHANGED <<ops, intruded>> /\ ServiceFrame

(* The mutant leaves the chip where it is. *)
RecoverNormalForgotten ==
  /\ recovery = "normal" /\ recovery' = "idle"
  /\ UNCHANGED <<modeVars, ops, intruded>> /\ ServiceFrame

RecoverNormal ==
  /\ recovery = "normal" /\ recovery' = "idle"
  /\ Ask("normal")
  /\ intruded' = intruded \cup InSections
  /\ UNCHANGED ops /\ ServiceFrame

-----------------------------------------------------------------------------
(* txBuffer0Send: the bytes of the identifier, then the request.  The DLC  *)
(* and data bytes between them touch nothing that is kept here.  A stale   *)
(* token of txBuffer0SendInTask, or a call past it, lets a call begin      *)
(* while a frame waits in TXB0 or another call is under way; a byte        *)
(* written while TXREQ is set is taken or ignored.                         *)
SendFrame == UNCHANGED <<modeVars, rxVars, readVars, bootVars, recovery, confVars>>

SendStart(t, id) ==
  /\ StartOp(2)
  /\ sending[t].n = 0
  /\ sending' = [sending EXCEPT ![t] = [id |-> id, n |-> 1]]
  /\ UNCHANGED <<txr, txreq, wanted, spoilt>> /\ SendFrame

SendByte(t) ==
  LET id == sending[t].id
      n == sending[t].n
      field == TxBytes(id)[n]
  IN /\ n \in 1..Len(TxBytes(id))
     /\ \/ txr' = [txr EXCEPT ![field] = TxRegs(id)[field]]
        \/ txreq /\ txr' = txr
     /\ sending' = [sending EXCEPT ![t].n = n + 1]
     /\ spoilt' = \/ txreq
                  \/ \E u \in Senders \ {t} : sending[u].n > 1
                  \/ n > 1 /\ spoilt
     /\ UNCHANGED <<txreq, wanted, ops>> /\ SendFrame

SendRequest(t) ==
  /\ sending[t].n = Len(TxBytes(sending[t].id)) + 1
  /\ txreq' = TRUE
  /\ wanted' = sending[t].id
  /\ sending' = [sending EXCEPT ![t] = NotSending]
  /\ UNCHANGED <<txr, spoilt, ops>> /\ SendFrame

(* The bus may be busy for any time before the chip gets the frame out. *)
TransmitDone ==
  /\ opmod = "normal"
  /\ txreq /\ txreq' = FALSE
  /\ opmod' = reqop
  /\ UNCHANGED <<reqop, rxVars, txr, wanted, spoilt, sending, readVars, bootVars, recovery,
                 confVars, ops>>

-----------------------------------------------------------------------------
(* A frame of another node that the filters let through, data or remote,   *)
(* of any length nibble, comes into the buffer.                            *)
FrameArrives(frame) ==
  /\ StartOp(1) /\ opmod = "normal"
  /\ rxr' = RxRegs(frame, rxr) /\ rxdlc' = RxDlc(frame)
  /\ rxframe' = frame /\ torn' = TRUE
  /\ UNCHANGED <<modeVars, rxVars, sendVars, reading, bootVars, recovery, confVars>>

(* rxBuffer0Read and rxBuffer1Read, up to the data bytes.  That a token    *)
(* lets them begin is the matter of Mcp2515Task.                           *)
ReadFrame == UNCHANGED <<modeVars, rxVars, sendVars, rxr, rxdlc, rxframe, bootVars, recovery, confVars>>

ReadStart ==
  /\ StartOp(1) /\ rxframe # NoFrame
  /\ reading.pc \in {"idle", "return"}
  /\ reading' = [NotReading EXCEPT !.pc = "sidh"]
  /\ torn' = FALSE
  /\ ReadFrame

AfterByte == [sidh |-> "sidl", sidl |-> "dlc", eid8 |-> "eid0", eid0 |-> "return"]

ReadByte ==
  /\ reading.pc \in Fields
  /\ reading' = [reading EXCEPT !.regs[reading.pc] = rxr[reading.pc],
                                !.pc = AfterByte[reading.pc]]
  /\ UNCHANGED <<torn, ops>> /\ ReadFrame

ReadDlc ==
  /\ reading.pc = "dlc"
  /\ reading' = [reading EXCEPT !.dlc = rxdlc,
                                !.pc = IF Extended(reading.regs) THEN "eid8" ELSE "return"]
  /\ UNCHANGED <<torn, ops>> /\ ReadFrame

Next ==
  \/ Boot
  \/ \E t \in Configurers : Configure(t) \/ ConfStep(t)
  \/ BusOffSeen \/ RecoverConfig \/ RecoverNormal
  \/ \E t \in Senders : (\E id \in SendIds : SendStart(t, id)) \/ SendByte(t) \/ SendRequest(t)
  \/ TransmitDone
  \/ \E frame \in BusFrames : FrameArrives(frame)
  \/ ReadStart \/ ReadByte \/ ReadDlc

Spec == Init /\ [][Next]_vars

(* Each call and the recovery go on once they are under way, and a frame   *)
(* gets out at last.                                                       *)
FairSpec ==
  /\ Spec
  /\ \A t \in Configurers : WF_vars(ConfStep(t))
  /\ WF_vars(RecoverConfig \/ RecoverNormal)
  /\ WF_vars(TransmitDone)

-----------------------------------------------------------------------------
(* What an undisturbed setFilter or setMask asked for is in the chip when  *)
(* it returns, all four bytes, and its buffer obeys it, until the next     *)
(* call for the same register (mcp2515.cpp:104-140).  The intruded calls   *)
(* are those whose bytes fell outside Configuration mode.                  *)
HeldIsInChip ==
  \A s \in Slots : held[s] # Nobody =>
    /\ acc[s] = FilterRegs(held[s].id, held[s].ext)
    /\ rxm[Buffer(s)] = 0

(* A filter and a mask set with the same width let through what they say:  *)
(* the frames of that width whose identifier agrees with the filter in the *)
(* bits of the mask (writeFilterOrMask, mcp2515.cpp:104-116).              *)
FiltersSelect ==
  \A f \in 0..5 :
    LET m == 6 + Buffer(f) IN
    (held[f] # Nobody /\ held[m] # Nobody /\ held[f].ext = held[m].ext) =>
      \A frame \in BusFrames :
        Admits(acc[f], acc[m], frame) <=>
          /\ frame.ext = held[f].ext
          /\ AgreeUnder(held[m].id, IdOf(frame), held[f].id, IF frame.ext THEN 29 ELSE 11)

(* Once the chip is up it is never left in Configuration mode: while       *)
(* CANCTRL asks for it, somebody is between his two writes                 *)
(* (mcp2515.cpp:123-125, 135-137, mcp2515Task.cpp:62-64), however the      *)
(* sections overlap one another, the recovery and the bring-up ...         *)
ConfigHasOwner ==
  (boot = "done" /\ reqop = "config") => InSections # {} \/ recovery = "normal"

(* ... so it is on the bus again and again, however often it is taken off. *)
BackOnBus == []<>(boot = "done" => opmod = "normal")

(* The receive buffers go on rolling over as initialInTask set them up,    *)
(* whoever clears RXM of RXB0CTRL, before, beside or after it, except a    *)
(* section that read RXB0CTRL before initialInTask wrote it and wrote back *)
(* after (mcp2515Task.cpp:23-28, mcp2515.cpp:126, 138).                    *)
RolloverKept ==
  boot = "done" /\ "rollover" \notin undone => bukt = setup.rollover

(* Filters only take effect in Independent mode, says mcp2515.h:32: where  *)
(* the buffers roll over, RXB0 takes every frame (mcp2515.cpp:126, 138),   *)
(* no matter which calls have returned.                                    *)
RolloverTakesAll ==
  boot = "done" /\ setup.rollover /\ intruded = {} =>
    \A frame \in BusFrames :
      rxm[0] = 3 \/ \E f \in 0..1 : Admits(acc[f], acc[6], frame)

(* The frame that waits in TXB0 carries the identifier of the call that    *)
(* requested it, as an extended frame exactly above 0x7FF, whatever was    *)
(* sent before it, if TXB0 was free and in one task's hands while its      *)
(* bytes were written (txBuffer0Send, mcp2515.cpp:50-62).                  *)
SendsAsMeant ==
  txreq /\ ~spoilt => /\ IdOf(WireId(txr)) = wanted
                      /\ WireId(txr).ext <=> wanted > 2047

(* rxBufferNRead returns identifier and length nibble of the frame in the  *)
(* buffer, whatever else is in the registers, if no other frame came in    *)
(* between its brackets (mcp2515.cpp:65-95).                               *)
ReadsAsSent ==
  reading.pc = "return" /\ ~torn =>
    /\ ReadId(reading.regs) = IdOf(rxframe)
    /\ ReadLength(reading.dlc) = rxframe.dlc

(* The bit rate registers give the rate that was asked for, if the chip    *)
(* came up in Configuration mode and no section took it to Normal mode     *)
(* before they were written (mcp2515.h:52-73, mcp2515.cpp:5-10, 19-23).    *)
(* So it is with a 16 MHz oscillator; every row for 8 MHz misses it.       *)
RateIsNominal ==
  (boot = "done" /\ ~WarmBoot /\ "rate" \notin undone) =>
    BitTime(cnf) * Bitrate[setup.rate] = 1000 * Mhz
=============================================================================
