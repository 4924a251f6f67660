------------------------------- MODULE SpiDma -------------------------------
(***************************************************************************)
(* SPI::transfer over DMA (source/spi.cpp) and the DMA interrupt handlers  *)
(* that end it (source/dma.cpp): one SPI object with its two channels, the *)
(* task that holds the bus (SpiBus: there is only one), the DMA engine and *)
(* the handlers of DMA_IRQ_0 and DMA_IRQ_1.                                *)
(*                                                                         *)
(* Both channels run in every transfer: the transmit channel feeds the SPI *)
(* FIFO, the receive channel drains it, so it finishes last.  A finished   *)
(* block raises the interrupt of its channel until a handler acknowledges  *)
(* it.  Buffers are numbered by the transfer they belong to.               *)
(***************************************************************************)
EXTENDS Naturals, FiniteSets

CONSTANTS
  Channels,    \* the DMA channels enableDma gave to the transmit side "tx"
               \* and to the receive side "rx"
  NumChannels, \* NUM_DMA_CHANNELS
  Size,        \* words in a transfer
  FifoDepth,   \* words the SPI FIFO holds
  NTransfers,  \* bound: calls of transfer
  MultiCore,   \* the task may run while a handler runs on the other core
  Timeouts     \* transfer was given a timeout that can expire

Sides == {"tx", "rx"}

ASSUME ChannelsAssumption ==
  /\ NumChannels \in Nat
  /\ Channels \in [Sides -> 0..(NumChannels - 1)]
  /\ Channels["tx"] # Channels["rx"]
ASSUME SizeAssumption == Size \in Nat \ {0} /\ FifoDepth \in Nat \ {0}
ASSUME CallsAssumption ==
  NTransfers \in Nat /\ MultiCore \in BOOLEAN /\ Timeouts \in BOOLEAN

VARIABLES
  pc,          \* where SPI::transfer is
  transfers,   \* calls so far
  left,        \* words the channel of each side has still to move
  flight,      \* words sent and not yet drained from the SPI FIFO
  buffer,      \* the transfer whose buffer the channel uses
  stored,      \* words received into the buffer of each transfer
  raised,      \* the sides whose channel has an unacknowledged interrupt
  sem,         \* tokens in dmaTxSemaphore and dmaRxSemaphore
  handler,     \* per IRQ line: "off", or what dma_handler0 / 1 does next
  scan,        \* per IRQ line: the sides the running handler has still to visit
  finished,    \* blocks the channel of each side finished
  merged,      \* a block ended while the interrupt of an earlier one was up
  taken,       \* tokens transfer took from each semaphore
  expired      \* a take has timed out

callVars == <<pc, transfers, taken, expired>>
dmaVars == <<left, flight, buffer, stored, finished, merged>>
irqVars == <<raised, handler, scan>>
vars == <<callVars, dmaVars, irqVars, sem>>

Lines == 0..1
IrqStart == NumChannels \div 2               \* dmaIrq1channelStart
Line(s) == IF Channels[s] < IrqStart THEN 0 ELSE 1
Transfers == 1..NTransfers

TypeOK ==
  /\ pc \in {"idle", "write", "read", "start", "waitTx", "waitRx"}
  /\ transfers \in 0..NTransfers
  /\ left \in [Sides -> 0..Size]
  /\ flight \in 0..FifoDepth
  /\ buffer \in [Sides -> 0..NTransfers]
  /\ stored \in [Transfers -> Nat]
  /\ raised \subseteq Sides
  /\ sem \in [Sides -> 0..1]
  /\ handler \in [Lines -> {"off", "look", "call", "acknowledge"}]
  /\ scan \in [Lines -> SUBSET Sides]
  /\ finished \in [Sides -> Nat]
  /\ merged \in BOOLEAN
  /\ taken \in [Sides -> Nat]
  /\ expired \in BOOLEAN

(* The constructor claimed the channels, configured them with a count of 0 *)
(* and enabled their interrupts.                                           *)
Init ==
  /\ pc = "idle"
  /\ transfers = 0
  /\ left = [s \in Sides |-> 0]
  /\ flight = 0
  /\ buffer = [s \in Sides |-> 0]
  /\ stored = [t \in Transfers |-> 0]
  /\ raised = {}
  /\ sem = [s \in Sides |-> 0]
  /\ handler = [l \in Lines |-> "off"]
  /\ scan = [l \in Lines |-> {}]
  /\ finished = [s \in Sides |-> 0]
  /\ merged = FALSE
  /\ taken = [s \in Sides |-> 0]
  /\ expired = FALSE

-----------------------------------------------------------------------------
(* SPI::transfer.  On one core the task stops while a handler runs, and    *)
(* before that while a raised interrupt waits for its handler.             *)
TaskRuns == MultiCore \/ (raised = {} /\ \A l \in Lines : handler[l] = "off")

Goto(from, to) == TaskRuns /\ pc = from /\ pc' = to

Call ==
  /\ Goto("idle", "write")
  /\ transfers < NTransfers
  /\ transfers' = transfers + 1
  /\ UNCHANGED <<taken, expired, dmaVars, irqVars, sem>>

(* dmaWrite and dmaRead point the channels at the buffers, at once even if *)
(* a block is still being moved; the new count waits for the next start.   *)
DmaWrite ==
  /\ Goto("write", "read")
  /\ buffer' = [buffer EXCEPT !["tx"] = transfers]
  /\ UNCHANGED <<transfers, taken, expired, left, flight, stored, finished, merged,
                 irqVars, sem>>

DmaRead ==
  /\ Goto("read", "start")
  /\ buffer' = [buffer EXCEPT !["rx"] = transfers]
  /\ UNCHANGED <<transfers, taken, expired, left, flight, stored, finished, merged,
                 irqVars, sem>>

(* dmaStart triggers both channels in one write; a busy one ignores it. *)
DmaStart ==
  /\ Goto("start", "waitTx")
  /\ left' = [s \in Sides |-> IF left[s] = 0 THEN Size ELSE left[s]]
  /\ UNCHANGED <<transfers, taken, expired, flight, buffer, stored, finished, merged,
                 irqVars, sem>>

Take(s, from, to) ==
  /\ Goto(from, to)
  /\ sem[s] = 1
  /\ sem' = [sem EXCEPT ![s] = 0]
  /\ taken' = [taken EXCEPT ![s] = @ + 1]
  /\ UNCHANGED <<transfers, expired, dmaVars, irqVars>>

TakeTx == Take("tx", "waitTx", "waitRx")
TakeRxNot ==
  /\ Goto("waitRx", "idle")
  /\ UNCHANGED <<transfers, taken, expired, dmaVars, irqVars, sem>>
TakeRx == Take("rx", "waitRx", "idle")

(* A take that times out is not noticed: transfer goes on and returns size. *)
Expire(s, from, to) ==
  /\ Timeouts
  /\ Goto(from, to)
  /\ sem[s] = 0
  /\ expired' = TRUE
  /\ UNCHANGED <<transfers, taken, dmaVars, irqVars, sem>>

TimeoutTx == Expire("tx", "waitTx", "waitRx")
TimeoutRx == Expire("rx", "waitRx", "idle")

Transfer == DmaWrite \/ DmaRead \/ DmaStart \/ TakeTx \/ TakeRx

-----------------------------------------------------------------------------
(* The DMA engine and the SPI FIFO.  A word nobody drains is lost. *)
Moved(s) ==
  /\ left' = [left EXCEPT ![s] = @ - 1]
  /\ raised' = IF left[s] = 1 THEN raised \cup {s} ELSE raised
  /\ finished' = [finished EXCEPT ![s] = IF left[s] = 1 THEN @ + 1 ELSE @]
  /\ merged' = (merged \/ (left[s] = 1 /\ s \in raised))

TxWord ==
  /\ left["tx"] > 0
  /\ flight < FifoDepth \/ left["rx"] = 0
  /\ flight' = IF flight < FifoDepth THEN flight + 1 ELSE flight
  /\ Moved("tx")
  /\ UNCHANGED <<buffer, stored, handler, scan, callVars, sem>>

RxWord ==
  /\ left["rx"] > 0
  /\ flight > 0
  /\ flight' = flight - 1
  /\ Moved("rx")
  /\ stored' = [stored EXCEPT ![buffer["rx"]] = @ + 1]
  /\ UNCHANGED <<buffer, handler, scan, callVars, sem>>

Engine == TxWord \/ RxWord

-----------------------------------------------------------------------------
(* dma_handler0 and dma_handler1 visit the channels of their half in       *)
(* ascending order.  Both ask for and acknowledge the status of line 0,    *)
(* which only the channels of the lower half ever have.                    *)
OnLine(l) == {s \in Sides : Line(s) = l}
Visited(l) == CHOOSE s \in scan[l] : \A u \in scan[l] : Channels[s] <= Channels[u]
Irq0Status(s) == s \in raised /\ Line(s) = 0

HandlerGoto(l, label, sides) ==
  /\ handler' = [handler EXCEPT ![l] = label]
  /\ scan' = [scan EXCEPT ![l] = sides]

Enter(l) ==
  /\ handler[l] = "off"
  /\ OnLine(l) \cap raised # {}
  /\ HandlerGoto(l, "look", OnLine(l))
  /\ UNCHANGED <<raised, callVars, dmaVars, sem>>

Look(l) ==
  /\ handler[l] = "look"
  /\ scan[l] # {}
  /\ IF Irq0Status(Visited(l))
       THEN HandlerGoto(l, "call", scan[l])
       ELSE HandlerGoto(l, "look", scan[l] \ {Visited(l)})
  /\ UNCHANGED <<raised, callVars, dmaVars, sem>>

(* damCallback, which leaves the woken flag uninitialised: at worst one    *)
(* context switch too many or too late.                                    *)
CallbackNot(l) ==
  /\ handler[l] = "call"
  /\ HandlerGoto(l, "acknowledge", scan[l])
  /\ UNCHANGED <<raised, callVars, dmaVars, sem>>

Callback(l) ==
  /\ handler[l] = "call"
  /\ sem' = [sem EXCEPT ![Visited(l)] = 1]
  /\ HandlerGoto(l, "acknowledge", scan[l])
  /\ UNCHANGED <<raised, callVars, dmaVars>>

AcknowledgeNot(l) ==
  /\ handler[l] = "acknowledge"
  /\ HandlerGoto(l, "look", scan[l] \ {Visited(l)})
  /\ UNCHANGED <<raised, callVars, dmaVars, sem>>

Acknowledge(l) ==
  /\ handler[l] = "acknowledge"
  /\ raised' = raised \ {Visited(l)}
  /\ HandlerGoto(l, "look", scan[l] \ {Visited(l)})
  /\ UNCHANGED <<callVars, dmaVars, sem>>

Leave(l) ==
  /\ handler[l] = "look"
  /\ scan[l] = {}
  /\ HandlerGoto(l, "off", {})
  /\ UNCHANGED <<raised, callVars, dmaVars, sem>>

Handler(l) == Enter(l) \/ Look(l) \/ Callback(l) \/ Acknowledge(l) \/ Leave(l)

-----------------------------------------------------------------------------
Next ==
  \/ Call \/ Transfer \/ TimeoutTx \/ TimeoutRx
  \/ Engine
  \/ \E l \in Lines : Handler(l)

Spec == Init /\ [][Next]_vars

(* A transfer under way goes on when the task may run, the engine moves    *)
(* words, a raised interrupt is handled.  Nobody has to call transfer, and *)
(* no timeout has to expire.                                               *)
FairSpec ==
  /\ Spec
  /\ WF_vars(Transfer)
  /\ WF_vars(Engine)
  /\ \A l \in Lines : WF_vars(Handler(l))

-----------------------------------------------------------------------------
(* As long as no take has timed out: when transfer has returned, both      *)
(* channels are idle and every word is in the caller's buffer, so the DMA  *)
(* never writes a buffer, often one on the stack of readByte or writeByte, *)
(* that its owner has given up (SPI::transfer, spi.cpp:51-58).             *)
TransferSettles ==
  (~expired /\ pc = "idle") =>
    /\ \A s \in Sides : left[s] = 0
    /\ \A t \in 1..transfers : stored[t] = Size

(* As long as no take has timed out: no token is left over for the next    *)
(* transfer to mistake for its own end (spi.cpp:55-57, dma.cpp:7-23).      *)
NoStaleToken ==
  (~expired /\ pc \in {"write", "read", "start"}) => \A s \in Sides : sem[s] = 0

(* A successful take always stands for a block that was finished, even     *)
(* when takes time out and blocks end late (dma.cpp:7-14, spi.cpp:56-57).  *)
NoPhantomEnd == \A s \in Sides : taken[s] + sem[s] <= finished[s]

(* No transfer is stranded: while it waits for a side and finds no token,  *)
(* that side has words left and the engine can move one, or its end is in  *)
(* an interrupt that dma_handler0 has still to pass on, unless a take has  *)
(* timed out or two blocks shared an interrupt (spi.cpp:51-58, dma.cpp:    *)
(* 7-14).                                                                  *)
Awaits(s) == pc = IF s = "tx" THEN "waitTx" ELSE "waitRx"
WordMoves ==
  \/ left["tx"] > 0 /\ flight < FifoDepth
  \/ left["rx"] > 0 /\ flight > 0
EndIsDue(s) == Irq0Status(s) /\ ~(handler[0] = "acknowledge" /\ Visited(0) = s)

TransferNotStranded ==
  (~expired /\ ~merged) =>
    \A s \in Sides :
      Awaits(s) /\ sem[s] = 0 => (left[s] > 0 /\ WordMoves) \/ EndIsDue(s)

(* transfer returns: the end of every block reaches the semaphore of its   *)
(* channel.  "Tell the DMA to raise IRQ line 0 when the channel finishes a *)
(* block" (dma.cpp:32).  Two things may spoil it: an earlier timeout, and  *)
(* a second core on which a whole block fits between damCallback and the   *)
(* acknowledgement (dma.cpp:10-11), which then erases two interrupts.      *)
TransferReturns == pc # "idle" ~> (pc = "idle" \/ expired \/ merged)
=============================================================================
