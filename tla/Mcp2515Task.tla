----------------------------- MODULE Mcp2515Task -----------------------------
(***************************************************************************)
(* The CAN driver of source/mcp2515Task.cpp: the interrupt handler, the    *)
(* canService task (run), the task that brings the chip up                 *)
(* (initialInTask), a task that receives (rxReadInTask) and a task that    *)
(* sends (txBuffer0SendInTask), all preempting one another at every access *)
(* to what they share.  A register access is one step (see Mcp2515Chip);   *)
(* a "|=" or "&=" on a shared byte is a load and a store.  The times that go *)
(* with the frames are the matter of module Stamps.                        *)
(***************************************************************************)
EXTENDS Mcp2515Chip

CONSTANTS
  NTx,         \* bound: calls of txBuffer0SendInTask
  SingleCore   \* one core, canService above the tasks that use the driver;
               \* otherwise any task and the interrupt handler run at once

ASSUME SenderAssumption == NTx \in Nat
ASSUME CoreAssumption == SingleCore \in BOOLEAN

VARIABLES
  intSem, rxSem, txSem,   \* tokens in _intSemaphore, _rxSemaphore, _txSemaphore
  pendingRx,   \* _pendingRxBuf: the buffers whose bit is set
  pendingTx,   \* bit 0 of _pendingTxBuf
  init,        \* how far initialInTask is
  service,     \* canService: pc and locals
  reader,      \* the receiving task: pc and locals
  sender,      \* the sending task: pc
  sent,        \* calls of txBuffer0SendInTask that returned
  gap          \* a later call found no frame pending

semVars == <<intSem, rxSem, txSem>>
pendVars == <<pendingRx, pendingTx>>
shared == <<semVars, pendVars>>
sendVars == <<sender, sent, gap>>
appVars == <<init, reader, delivered, sendVars>>
vars == <<chipVars, shared, init, service, reader, delivered, sendVars>>

InitLabels == {"create", "reset", "clear", "register", "enable", "normal", "done"}
ServiceLabels == {"gate", "poll", "read", "eflg", "errClear", "config",
                  "normal", "errPending", "errGive", "rxClear",
                  "rxLoad", "rxStore", "txClear", "txPending", "rxGive",
                  "txGive", "wait"}
ReaderLabels == {"take", "test", "load", "store", "hdr", "body"}
SenderLabels == {"idle", "wait", "mark", "hdr", "body", "start"}

ServiceLocals == [pc : ServiceLabels, flags : SUBSET Flags, buf : Buffers,
                  mask : SUBSET Buffers, boff : BOOLEAN]
ReaderLocals == [pc : ReaderLabels, buf : Buffers,
                 mask : SUBSET Buffers, hdr : Nat]

TypeOK ==
  /\ ChipTypeOK
  /\ intSem \in 0..1 /\ rxSem \in 0..2 /\ txSem \in 0..1
  /\ pendingRx \subseteq Buffers
  /\ pendingTx \in BOOLEAN
  /\ init \in InitLabels
  /\ service \in ServiceLocals
  /\ reader \in ReaderLocals
  /\ delivered \in Seq([hdr : Nat, body : Nat])
  /\ sender \in SenderLabels
  /\ sent \in Nat
  /\ gap \in BOOLEAN

(* The locals at the top of the loop of run and of rxReadInTask: none of   *)
(* them outlives a pass.                                                   *)
AtPoll == [pc |-> "poll", flags |-> {}, buf |-> 0, mask |-> {}, boff |-> FALSE]
AtTake == [pc |-> "take", buf |-> 0, mask |-> {}, hdr |-> 0]

Init ==
  /\ ChipInit
  /\ intSem = 0 /\ rxSem = 0 /\ txSem = 0
  /\ pendingRx = {}
  /\ pendingTx = FALSE
  /\ init = "create"
  /\ service = [AtPoll EXCEPT !.pc = "gate"]
  /\ reader = AtTake
  /\ delivered = << >>
  /\ sender = "idle"
  /\ sent = 0
  /\ gap = FALSE

(* xSemaphoreGive on a semaphore that holds at most max tokens. *)
Given(sem, max) == IF sem < max THEN sem + 1 ELSE sem

-----------------------------------------------------------------------------
(* initialInTask.  resetMcp2515 sends WRITE and the RESET opcode as its    *)
(* address, two bytes and no data, which the chip takes as a write of      *)
(* nothing; the bit rate and RXBnCTRL writes change no state kept here.    *)
Bringing(from, to) == init = from /\ init' = to

InitCreate ==
  /\ Bringing("create", "reset")
  /\ UNCHANGED <<chipVars, shared, service, reader, delivered, sendVars>>

InitReset ==
  /\ Bringing("reset", "clear")
  /\ UNCHANGED <<chipVars, shared, service, reader, delivered, sendVars>>

InitClearInterrupts ==
  /\ Bringing("clear", "register")
  /\ intf' = {}
  /\ UNCHANGED <<mode, inte, irqEnabled, irqPending, boff, regVars, busVars,
                 shared, service, reader, delivered, sendVars>>

(* Enabling the edge interrupt acknowledges an edge that is already there. *)
InitRegisterIrq ==
  /\ Bringing("register", "enable")
  /\ irqEnabled' = TRUE
  /\ irqPending' = FALSE
  /\ UNCHANGED <<mode, inte, intf, boff, regVars, busVars,
                 shared, service, reader, delivered, sendVars>>

InitEnableInterrupts ==
  /\ Bringing("enable", "normal")
  /\ inte' = TRUE
  /\ irqPending' = (irqPending \/ (irqEnabled /\ ~inte /\ intf # {}))
  /\ UNCHANGED <<mode, intf, irqEnabled, boff, regVars, busVars,
                 shared, service, reader, delivered, sendVars>>

InitNormalMode ==
  /\ Bringing("normal", "done")
  /\ SetMode("normal")
  /\ UNCHANGED <<pinVars, regVars, busVars,
                 shared, service, reader, delivered, sendVars>>

BringUp ==
  \/ InitCreate
  \/ InitReset
  \/ InitClearInterrupts
  \/ InitRegisterIrq
  \/ InitEnableInterrupts
  \/ InitNormalMode

-----------------------------------------------------------------------------
(* irqHandler, through irqDispatcher of source/gpio.cpp. *)
IrqHandler ==
  /\ irqPending
  /\ irqPending' = FALSE
  /\ intSem' = 1
  /\ UNCHANGED <<mode, inte, intf, irqEnabled, boff, regVars, busVars, rxSem,
                 txSem, pendVars, appVars, service>>

-----------------------------------------------------------------------------
(* run: canService. *)
ServiceAt(label) == service.pc = label
ServiceGoto(label) == service' = [service EXCEPT !.pc = label]
Flagged(b) == RxFlag(b) \in service.flags

ServiceGate ==
  /\ ServiceAt("gate")
  /\ init # "create"
  /\ ServiceGoto("poll")
  /\ UNCHANGED <<chipVars, shared, appVars>>

ServicePoll ==
  /\ ServiceAt("poll")
  /\ ServiceGoto(IF IntLow THEN "read" ELSE "wait")
  /\ UNCHANGED <<chipVars, shared, appVars>>

ServiceRead ==
  /\ ServiceAt("read")
  /\ service' = [service EXCEPT !.flags = intf,
                                !.pc = IF "ERR" \in intf THEN "eflg" ELSE "rxClear"]
  /\ UNCHANGED <<chipVars, shared, appVars>>

ServiceReadEflg ==
  /\ ServiceAt("eflg")
  /\ service' = [service EXCEPT !.boff = boff, !.pc = "errClear"]
  /\ UNCHANGED <<chipVars, shared, appVars>>

ServiceClearEverything ==
  /\ ServiceAt("errClear")
  /\ intf' = {}
  /\ ServiceGoto(IF service.boff THEN "config" ELSE "errPending")
  /\ UNCHANGED <<mode, inte, irqEnabled, irqPending, boff, regVars, busVars, shared, appVars>>

ServiceClearErrorsNot ==
  /\ ServiceAt("errClear")
  /\ ServiceGoto(IF service.boff THEN "config" ELSE "errPending")
  /\ UNCHANGED <<chipVars, shared, appVars>>

ServiceClearErrors ==
  /\ ServiceAt("errClear")
  /\ ClearFlag("ERR")
  /\ ServiceGoto(IF service.boff THEN "config" ELSE "errPending")
  /\ UNCHANGED <<mode, boff, regVars, busVars, shared, appVars>>

ServiceConfigMode ==
  /\ ServiceAt("config")
  /\ SetMode("config")
  /\ ServiceGoto("normal")
  /\ UNCHANGED <<pinVars, regVars, busVars, shared, appVars>>

ServiceNormalMode ==
  /\ ServiceAt("normal")
  /\ SetMode("normal")
  /\ ServiceGoto("errPending")
  /\ UNCHANGED <<pinVars, regVars, busVars, shared, appVars>>

ServiceErrorPending ==
  /\ ServiceAt("errPending")
  /\ pendingTx' = FALSE
  /\ ServiceGoto("errGive")
  /\ UNCHANGED <<chipVars, semVars, pendingRx, appVars>>

ServiceErrorGive ==
  /\ ServiceAt("errGive")
  /\ txSem' = Given(txSem, 1)
  /\ service' = AtPoll
  /\ UNCHANGED <<chipVars, intSem, rxSem, pendVars, appVars>>

(* For RXB0, then for RXB1: clear the flag and set the pending bit. *)
AfterRx(s) ==
  [s EXCEPT !.pc = IF s.buf = 0 THEN "rxClear" ELSE "txClear", !.buf = 1, !.mask = {}]

ServiceClearRxNot ==
  /\ ServiceAt("rxClear")
  /\ IF Flagged(service.buf) THEN ServiceGoto("rxLoad") ELSE service' = AfterRx(service)
  /\ UNCHANGED <<chipVars, shared, appVars>>

ServiceClearRx ==
  /\ ServiceAt("rxClear")
  /\ IF Flagged(service.buf)
       THEN ClearFlag(RxFlag(service.buf)) /\ ServiceGoto("rxLoad")
       ELSE UNCHANGED pinVars /\ service' = AfterRx(service)
  /\ UNCHANGED <<mode, boff, regVars, busVars, shared, appVars>>

ServiceLoadPending ==
  /\ ServiceAt("rxLoad")
  /\ service' = [service EXCEPT !.mask = pendingRx, !.pc = "rxStore"]
  /\ UNCHANGED <<chipVars, shared, appVars>>

ServiceStorePending ==
  /\ ServiceAt("rxStore")
  /\ pendingRx' = service.mask \cup {service.buf}
  /\ service' = AfterRx(service)
  /\ UNCHANGED <<chipVars, semVars, pendingTx, appVars>>

ServiceClearTx ==
  /\ ServiceAt("txClear")
  /\ IF "TX0" \in service.flags
       THEN ClearFlag("TX0") /\ ServiceGoto("txPending")
       ELSE UNCHANGED pinVars /\ service' = [service EXCEPT !.pc = "rxGive", !.buf = 0]
  /\ UNCHANGED <<mode, boff, regVars, busVars, shared, appVars>>

ServiceTxPending ==
  /\ ServiceAt("txPending")
  /\ pendingTx' = FALSE
  /\ service' = [service EXCEPT !.pc = "rxGive", !.buf = 0]
  /\ UNCHANGED <<chipVars, semVars, pendingRx, appVars>>

ServiceGiveRx ==
  /\ ServiceAt("rxGive")
  /\ rxSem' = IF Flagged(service.buf) THEN Given(rxSem, 2) ELSE rxSem
  /\ service' = IF service.buf = 0 THEN [service EXCEPT !.buf = 1]
                                   ELSE [service EXCEPT !.pc = "txGive"]
  /\ UNCHANGED <<chipVars, intSem, txSem, pendVars, appVars>>

ServiceGiveTxNever ==
  /\ ServiceAt("txGive")
  /\ service' = AtPoll
  /\ UNCHANGED <<chipVars, shared, appVars>>

ServiceGiveTxThenWait ==
  /\ ServiceAt("txGive")
  /\ txSem' = IF "TX0" \in service.flags THEN Given(txSem, 1) ELSE txSem
  /\ service' = [AtPoll EXCEPT !.pc = "wait"]
  /\ UNCHANGED <<chipVars, intSem, rxSem, pendVars, appVars>>

ServiceGiveTx ==
  /\ ServiceAt("txGive")
  /\ txSem' = IF "TX0" \in service.flags THEN Given(txSem, 1) ELSE txSem
  /\ service' = AtPoll
  /\ UNCHANGED <<chipVars, intSem, rxSem, pendVars, appVars>>

ServiceWait ==
  /\ ServiceAt("wait")
  /\ intSem = 1
  /\ intSem' = 0
  /\ ServiceGoto("poll")
  /\ UNCHANGED <<chipVars, rxSem, txSem, pendVars, appVars>>

ServiceStep ==
  \/ ServiceGate \/ ServicePoll \/ ServiceRead \/ ServiceReadEflg
  \/ ServiceClearErrors \/ ServiceConfigMode \/ ServiceNormalMode
  \/ ServiceErrorPending \/ ServiceErrorGive
  \/ ServiceClearRx \/ ServiceLoadPending \/ ServiceStorePending
  \/ ServiceClearTx \/ ServiceTxPending \/ ServiceGiveRx \/ ServiceGiveTx
  \/ ServiceWait

-----------------------------------------------------------------------------
(* rxReadInTask, called in a loop once the chip is up. *)
ReaderFrame == <<chipVars, intSem, txSem, pendingTx, init, service, sendVars>>

ReaderTake ==
  /\ reader.pc = "take" /\ init = "done"
  /\ rxSem > 0
  /\ rxSem' = rxSem - 1
  /\ reader' = [reader EXCEPT !.pc = "test"]
  /\ UNCHANGED <<ReaderFrame, pendingRx, delivered>>

ReaderTest ==
  /\ reader.pc = "test"
  /\ reader' = [reader EXCEPT !.pc = "load", !.buf = IF 0 \in pendingRx THEN 0 ELSE 1]
  /\ UNCHANGED <<ReaderFrame, rxSem, pendingRx, delivered>>

ReaderLoad ==
  /\ reader.pc = "load"
  /\ reader' = [reader EXCEPT !.pc = "store", !.mask = pendingRx]
  /\ UNCHANGED <<ReaderFrame, rxSem, pendingRx, delivered>>

ReaderStore ==
  /\ reader.pc = "store"
  /\ pendingRx' = reader.mask \ {reader.buf}
  /\ reader' = [reader EXCEPT !.pc = "hdr", !.mask = {}]
  /\ UNCHANGED <<ReaderFrame, rxSem, delivered>>

(* rxBuffer0Read or rxBuffer1Read: id and length first, then the data. *)
ReaderReadHeader ==
  /\ reader.pc = "hdr"
  /\ reader' = [reader EXCEPT !.pc = "body", !.hdr = rxb[reader.buf]]
  /\ UNCHANGED <<ReaderFrame, rxSem, pendingRx, delivered>>

ReaderReadBody ==
  /\ reader.pc = "body"
  /\ delivered' = Append(delivered, [hdr |-> reader.hdr, body |-> rxb[reader.buf]])
  /\ reader' = AtTake
  /\ UNCHANGED <<ReaderFrame, rxSem, pendingRx>>

ReaderStep ==
  \/ ReaderTake \/ ReaderTest \/ ReaderLoad \/ ReaderStore
  \/ ReaderReadHeader \/ ReaderReadBody

-----------------------------------------------------------------------------
(* txBuffer0SendInTask; the frame of the n-th call is n. *)
SenderFrame == <<mode, pinVars, boff, rxb, busVars, intSem, rxSem, pendingRx,
                 init, service, reader, delivered>>

SendCall ==
  /\ sender = "idle" /\ init = "done"
  /\ sent < NTx
  /\ gap' = (gap \/ (sent > 0 /\ ~pendingTx))
  /\ sender' = IF pendingTx THEN "wait" ELSE "mark"
  /\ UNCHANGED <<SenderFrame, txb, txreq, txSem, pendingTx, sent>>

SendWaitNot ==
  /\ sender = "wait"
  /\ sender' = "mark"
  /\ UNCHANGED <<SenderFrame, gap, txb, txreq, txSem, pendingTx, sent>>

SendWait ==
  /\ sender = "wait"
  /\ txSem = 1
  /\ txSem' = 0
  /\ sender' = "mark"
  /\ UNCHANGED <<SenderFrame, gap, txb, txreq, pendingTx, sent>>

SendMark ==
  /\ sender = "mark"
  /\ pendingTx' = TRUE
  /\ sender' = "hdr"
  /\ UNCHANGED <<SenderFrame, gap, txb, txreq, txSem, sent>>

(* txBuffer0Send: id and length, data, TXREQ. *)
SendHeader ==
  /\ sender = "hdr"
  /\ WriteTxb("hdr", sent + 1)
  /\ sender' = "body"
  /\ UNCHANGED <<SenderFrame, gap, txreq, txSem, pendingTx, sent>>

SendBody ==
  /\ sender = "body"
  /\ WriteTxb("body", sent + 1)
  /\ sender' = "start"
  /\ UNCHANGED <<SenderFrame, gap, txreq, txSem, pendingTx, sent>>

SendStart ==
  /\ sender = "start"
  /\ txreq' = TRUE
  /\ sent' = sent + 1
  /\ sender' = "idle"
  /\ UNCHANGED <<SenderFrame, gap, txb, txSem, pendingTx>>

SenderStep == SendWait \/ SendMark \/ SendHeader \/ SendBody \/ SendStart

-----------------------------------------------------------------------------
(* On one core a pending interrupt comes before any task, and canService   *)
(* (TaskInterface::High by default) before its users unless it is blocked: *)
(* in a delay, on a semaphore, or in the SPI transfer of a register access.*)
ServiceBlocked ==
  \/ service.pc \in {"gate", "read", "eflg", "errClear", "config", "normal"}
  \/ ServiceAt("rxClear") /\ Flagged(service.buf)
  \/ ServiceAt("txClear") /\ "TX0" \in service.flags
  \/ ServiceAt("wait") /\ intSem = 0

TasksRun == SingleCore => ~irqPending
UsersRun == SingleCore => ~irqPending /\ ServiceBlocked

Chip == ChipStep /\ UNCHANGED <<shared, init, service, reader, delivered, sendVars>>
Service == TasksRun /\ ServiceStep
Users == UsersRun /\ (BringUp \/ ReaderStep \/ SendCall \/ SenderStep)

Next == Chip \/ IrqHandler \/ Service \/ Users

Spec == Init /\ [][Next]_vars

(* A pending interrupt is taken; canService runs when it can; its users    *)
(* get the processor as often as it leaves it to them; a requested         *)
(* transmission ends and so does bus-off.  Nobody has to send us frames,   *)
(* cause errors or call txBuffer0SendInTask.                               *)
FairSpec ==
  /\ Spec
  /\ WF_vars(IrqHandler)
  /\ WF_vars(Service)
  /\ SF_vars(UsersRun /\ BringUp)
  /\ SF_vars(UsersRun /\ ReaderStep)
  /\ SF_vars(UsersRun /\ SenderStep)
  /\ WF_vars(Chip /\ (TransmitDone \/ BusOffEnds))

-----------------------------------------------------------------------------
(* canService never sleeps over an interrupt: once the chip is up, if it   *)
(* blocks on the empty _intSemaphore while INT is low, the falling edge is *)
(* still on its way to irqHandler (run and irqHandler, mcp2515Task.cpp:    *)
(* 39-88: the loop polls the pin again before it waits).                   *)
NoLostWakeup ==
  (init = "done" /\ ServiceAt("wait") /\ intSem = 0 /\ IntLow) => irqPending

(* A read never returns more often than frames came in: calls of           *)
(* rxReadInTask that returned, the one under way and the tokens left in    *)
(* _rxSemaphore never outnumber them (mcp2515Task.cpp:69-81, 98-99).       *)
ReadsAreFrames ==
  Len(delivered) + rxSem + (IF reader.pc = "take" THEN 0 ELSE 1) <= arrived

(* The n-th frame on the bus is the frame of the n-th call, complete: no   *)
(* call overwrites TXB0 while the frame before it is pending.  Stated by   *)
(* "_txSemaphore: given by canService on TX complete" (mcp2515Task.h:28)   *)
(* and taken by the next call, txBuffer0SendInTask (mcp2515Task.cpp:90-96).*)
BusCarriesSends ==
  \A n \in 1..Len(onBus) : onBus[n] = [hdr |-> n, body |-> n]

(* ... which holds as long as every call but the first finds a frame       *)
(* pending, so that it takes the token of that frame, and no error clears  *)
(* the pending bit (mcp2515Task.cpp:66, 82, 90-96).                        *)
BackToBackSends == (~gap /\ errors = 0) => BusCarriesSends

(* rxReadInTask returns each frame once: _rxSemaphore is "given once per   *)
(* received frame" (mcp2515Task.h:27) and a set bit of _pendingRxBuf says  *)
(* which buffer is ready (mcp2515Task.h:29).                               *)
NoFrameTwice ==
  \A i, j \in 1..Len(delivered) :
    delivered[i].body = delivered[j].body => i = j

(* No caller of txBuffer0SendInTask is stranded: while it waits for a      *)
(* token and canService sleeps, the edge that wakes canService is still on *)
(* its way, or the chip is in Normal mode with a frame to send, whose end  *)
(* will raise the next flag (mcp2515Task.cpp:54-87, 90-96).                *)
SenderNotStranded ==
  (sender = "wait" /\ txSem = 0 /\ ServiceAt("wait") /\ intSem = 0)
    => irqPending \/ (txreq /\ mode = "normal")

(* No frame is stranded either: while one is not yet delivered and both    *)
(* its reader and canService sleep, the edge is still on its way           *)
(* (mcp2515Task.cpp:54-81, 98-121).                                        *)
FrameNotStranded ==
  (Len(delivered) < arrived /\ reader.pc = "take" /\ rxSem = 0
     /\ ServiceAt("wait") /\ intSem = 0) => irqPending

(* INT does not stay low: canService clears every flag the chip raises,    *)
(* whatever comes in between, so that again and again all are clear and    *)
(* the next flag makes an edge (the loop of run, mcp2515Task.cpp:54-87; a  *)
(* bus that never pauses is beyond the bounds).                            *)
InterruptsServed == []<>(intf = {})

(* A call of txBuffer0SendInTask that waits for _txSemaphore gets it, even *)
(* across errors and bus-off (mcp2515Task.cpp:66-67, 82, 90-96).           *)
SenderReturns == []<>(sender = "idle")

(* The driver is a mailbox that hands over each frame once, complete and   *)
(* in order, and every frame at last (module CanMailbox).                  *)
Whole(d) == IF d.hdr = d.body THEN d.hdr ELSE 0
Mailbox == INSTANCE CanMailbox WITH
  received <- arrived,
  read <- [i \in 1..Len(delivered) |-> Whole(delivered[i])]
RefinesMailbox == Mailbox!FairSpec
=============================================================================
