---------------------------- MODULE SpiDmaProofs ----------------------------
(***************************************************************************)
(* Proofs about SPI::transfer and the DMA interrupt handlers of module     *)
(* SpiDma, for every pair of channels of either half, every transfer and   *)
(* FIFO size, any number of transfers, with or without a second core and   *)
(* with or without a timeout.                                              *)
(***************************************************************************)
EXTENDS SpiDma, TLAPS

(* The channels are visited in ascending order: the first one of a set. *)
First(sides) == CHOOSE s \in sides : \A u \in sides : Channels[s] <= Channels[u]

LEMMA FirstIsMember ==
  ASSUME NEW sides \in SUBSET Sides, sides # {}
  PROVE  First(sides) \in sides
  <1>1. Channels["tx"] \in Nat /\ Channels["rx"] \in Nat
    BY ChannelsAssumption DEF Sides
  <1>2. \E s \in sides : \A u \in sides : Channels[s] <= Channels[u]
    <2>1. CASE sides = {"tx"}
      BY <1>1, <2>1
    <2>2. CASE sides = {"rx"}
      BY <1>1, <2>2
    <2>3. CASE sides = {"tx", "rx"} /\ Channels["tx"] <= Channels["rx"]
      BY <1>1, <2>3
    <2>4. CASE sides = {"tx", "rx"} /\ ~(Channels["tx"] <= Channels["rx"])
      BY <1>1, <2>4
    <2>. QED BY <2>1, <2>2, <2>3, <2>4 DEF Sides
  <1>. QED BY <1>2 DEF First

LEMMA VisitedIsFirst == \A l : Visited(l) = First(scan[l])
  BY DEF Visited, First

LEMMA VisitedIsFirstNext == \A l : Visited(l)' = First(scan'[l])
  BY DEF Visited, First

LEMMA ExceptType ==
  ASSUME NEW D, NEW R, NEW f \in [D -> R], NEW x, NEW e, x \in D => e \in R
  PROVE  [f EXCEPT ![x] = e] \in [D -> R]
  OBVIOUS

(* The steps, as the proofs take them apart. *)
LEMMA Steps ==
  ASSUME [Next]_vars
  PROVE  \/ Call \/ DmaWrite \/ DmaRead \/ DmaStart
         \/ Take("tx", "waitTx", "waitRx") \/ Take("rx", "waitRx", "idle")
         \/ Expire("tx", "waitTx", "waitRx") \/ Expire("rx", "waitRx", "idle")
         \/ TxWord \/ RxWord
         \/ \E l \in Lines :
              Enter(l) \/ Look(l) \/ Callback(l) \/ Acknowledge(l) \/ Leave(l)
         \/ UNCHANGED vars
  BY DEF Next, Transfer, TakeTx, TakeRx, TimeoutTx, TimeoutRx, Engine, Handler

-----------------------------------------------------------------------------
(* Every step keeps the types: counts of words stay within a block, the    *)
(* FIFO within its depth, the semaphores binary (spi.cpp:51-58, dma.cpp).  *)
LEMMA TypeStep ==
  ASSUME TypeOK, [Next]_vars
  PROVE  TypeOK'
  <1>. USE SizeAssumption, CallsAssumption
       DEF TypeOK, Sides, Lines, callVars, dmaVars, irqVars, Goto, HandlerGoto
  <1>1. CASE Call
    BY <1>1 DEF Call
  <1>2. CASE DmaWrite
    BY <1>2 DEF DmaWrite
  <1>3. CASE DmaRead
    BY <1>3 DEF DmaRead
  <1>4. CASE DmaStart
    BY <1>4 DEF DmaStart
  <1>5. ASSUME NEW s \in Sides, NEW from, NEW to \in {"waitRx", "idle"}, Take(s, from, to)
        PROVE  TypeOK'
    BY <1>5 DEF Take
  <1>6. ASSUME NEW s \in Sides, NEW from, NEW to \in {"waitRx", "idle"}, Expire(s, from, to)
        PROVE  TypeOK'
    BY <1>6 DEF Expire
  <1>7. ASSUME NEW s \in Sides, Moved(s), left[s] > 0
        PROVE  /\ left' \in [Sides -> 0..Size] /\ raised' \subseteq Sides
               /\ finished' \in [Sides -> Nat] /\ merged' \in BOOLEAN
    <2>1. left' \in [Sides -> 0..Size]
      BY <1>7 DEF Moved
    <2>2. raised' \subseteq Sides
      BY <1>7 DEF Moved
    <2>3. finished' \in [Sides -> Nat]
      BY <1>7 DEF Moved
    <2>4. merged' \in BOOLEAN
      BY <1>7, Zenon DEF Moved
    <2>. QED BY <2>1, <2>2, <2>3, <2>4
  <1>8. CASE TxWord
    BY <1>7, <1>8 DEF TxWord
  <1>9. CASE RxWord
    <2>1. flight' \in 0..FifoDepth
      <3>1. flight' = flight - 1 /\ flight > 0
        BY <1>9 DEF RxWord
      <3>2. flight \in 0..FifoDepth
        OBVIOUS
      <3>. QED BY <3>1, <3>2
    <2>2. stored' \in [Transfers -> Nat]
      <3>1. stored' = [stored EXCEPT ![buffer["rx"]] = stored[buffer["rx"]] + 1]
        BY <1>9 DEF RxWord
      <3>. QED BY <3>1, ExceptType
    <2>3. /\ left' \in [Sides -> 0..Size] /\ raised' \subseteq Sides
          /\ finished' \in [Sides -> Nat] /\ merged' \in BOOLEAN
      BY <1>7, <1>9 DEF RxWord
    <2>. QED BY <1>9, <2>1, <2>2, <2>3 DEF RxWord
  <1>10. ASSUME NEW l \in Lines, Enter(l) \/ Look(l) \/ Callback(l) \/ Acknowledge(l) \/ Leave(l)
         PROVE  TypeOK'
    <2>1. CASE Enter(l)
      BY <2>1 DEF Enter, OnLine
    <2>2. CASE Look(l)
      <3>1. HandlerGoto(l, "call", scan[l]) \/ HandlerGoto(l, "look", scan[l] \ {Visited(l)})
        BY <2>2, Zenon DEF Look
      <3>. QED BY <2>2, <3>1 DEF Look
    <2>3. CASE Callback(l)
      <3>1. sem' \in [Sides -> 0..1]
        <4>1. sem' = [sem EXCEPT ![Visited(l)] = 1] /\ 1 \in 0..1
          BY <2>3 DEF Callback
        <4>. QED BY <4>1, ExceptType
      <3>. QED BY <2>3, <3>1 DEF Callback
    <2>4. CASE Acknowledge(l)
      BY <2>4 DEF Acknowledge
    <2>5. CASE Leave(l)
      BY <2>5 DEF Leave
    <2>. QED BY <1>10, <2>1, <2>2, <2>3, <2>4, <2>5
  <1>11. CASE UNCHANGED vars
    BY <1>11 DEF vars
  <1>. QED
    BY Steps, <1>1, <1>2, <1>3, <1>4, <1>5, <1>6, <1>8, <1>9, <1>10, <1>11

LEMMA InitTyped == Init => TypeOK
  <1>. SUFFICES ASSUME Init PROVE TypeOK
    OBVIOUS
  <1>1. merged \in BOOLEAN /\ expired \in BOOLEAN
    BY DEF Init
  <1>2. /\ left \in [Sides -> 0..Size] /\ flight \in 0..FifoDepth
        /\ buffer \in [Sides -> 0..NTransfers] /\ transfers \in 0..NTransfers
    BY SizeAssumption, CallsAssumption DEF Init
  <1>. QED BY <1>1, <1>2 DEF Init, TypeOK

(* The types hold in every state. *)
THEOREM TypeCorrect == Spec => []TypeOK
  <1>1. TypeOK /\ [Next]_vars => TypeOK'
    BY TypeStep
  <1>. QED BY InitTyped, <1>1, PTL DEF Spec

-----------------------------------------------------------------------------
(* The handlers: each visits channels of its own half, and calls back and  *)
(* acknowledges only a channel that has raised line 0.  So the handler of  *)
(* line 1 never does (dma.cpp:16-23 asks for the status of line 0).        *)
HandlersVisit ==
  /\ \A l \in Lines : scan[l] \subseteq OnLine(l)
  /\ handler[0] \in {"call", "acknowledge"} =>
       scan[0] # {} /\ First(scan[0]) \in raised
  /\ handler[1] \notin {"call", "acknowledge"}

(* The end of a block that the handler has still to pass on. *)
CalledBack(s) == handler[0] = "acknowledge" /\ First(scan[0]) = s
Unheard(s) == IF s \in raised /\ ~CalledBack(s) THEN 1 ELSE 0

EndsAreReal == \A s \in Sides : taken[s] + sem[s] + Unheard(s) <= finished[s]

LEMMA LineType == \A l \in Lines : OnLine(l) \subseteq Sides
  BY DEF OnLine

LEMMA HandlerStep ==
  ASSUME TypeOK, HandlersVisit, NEW l \in Lines
  PROVE  /\ Callback(l) \/ Acknowledge(l) => l = 0
         /\ Look(l) /\ l = 1 => HandlerGoto(1, "look", scan[1] \ {First(scan[1])})
         /\ Look(l) /\ l = 0 => \/ First(scan[0]) \in raised /\ HandlerGoto(0, "call", scan[0])
                               \/ HandlerGoto(0, "look", scan[0] \ {First(scan[0])})
  <1>1. Callback(l) \/ Acknowledge(l) => l = 0
    BY DEF Callback, Acknowledge, HandlersVisit, Lines
  <1>2. ASSUME Look(l), l = 1
        PROVE  HandlerGoto(1, "look", scan[1] \ {First(scan[1])})
    <2>1. scan[1] # {} /\ scan[1] \in SUBSET Sides /\ scan[1] \subseteq OnLine(1)
      BY <1>2, LineType DEF Look, HandlersVisit, Lines
    <2>2. First(scan[1]) \in OnLine(1)
      BY <2>1, FirstIsMember
    <2>3. ~Irq0Status(First(scan[1]))
      BY <2>2 DEF OnLine, Irq0Status
    <2>. QED BY <1>2, <2>3, VisitedIsFirst, Zenon DEF Look
  <1>3. ASSUME Look(l), l = 0
        PROVE  \/ First(scan[0]) \in raised /\ HandlerGoto(0, "call", scan[0])
               \/ HandlerGoto(0, "look", scan[0] \ {First(scan[0])})
    BY <1>3, VisitedIsFirst, Zenon DEF Look, Irq0Status
  <1>. QED BY <1>1, <1>2, <1>3

LEMMA HandlersVisitStep ==
  ASSUME TypeOK, HandlersVisit, [Next]_vars
  PROVE  HandlersVisit'
  <1>1. CASE UNCHANGED <<handler, scan>> /\ raised \subseteq raised'
    BY <1>1 DEF HandlersVisit, OnLine, Line
  <1>2. ASSUME NEW l \in Lines, Enter(l) \/ Look(l) \/ Callback(l) \/ Acknowledge(l) \/ Leave(l)
        PROVE  HandlersVisit'
    <2>. USE DEF HandlerGoto, Lines, TypeOK
    <2>1. CASE Enter(l)
      BY <2>1 DEF Enter, HandlersVisit, OnLine, Line
    <2>2. CASE Look(l)
      BY <2>2, HandlerStep DEF Look, HandlersVisit, OnLine, Line
    <2>3. CASE Callback(l)
      BY <2>3, HandlerStep DEF Callback, HandlersVisit, OnLine, Line
    <2>4. CASE Acknowledge(l)
      BY <2>4, HandlerStep DEF Acknowledge, HandlersVisit, OnLine, Line
    <2>5. CASE Leave(l)
      BY <2>5 DEF Leave, HandlersVisit, OnLine, Line
    <2>. QED BY <1>2, <2>1, <2>2, <2>3, <2>4, <2>5
  <1>3. ASSUME Engine
        PROVE  UNCHANGED <<handler, scan>> /\ raised \subseteq raised'
    BY <1>3 DEF Engine, TxWord, RxWord, Moved
  <1>4. \/ Engine
        \/ \E l \in Lines : Enter(l) \/ Look(l) \/ Callback(l) \/ Acknowledge(l) \/ Leave(l)
        \/ UNCHANGED <<handler, scan, raised>>
    BY DEF Next, vars, irqVars, Call, Transfer, DmaWrite, DmaRead, DmaStart, TakeTx, TakeRx,
           Take, TimeoutTx, TimeoutRx, Expire, Handler
  <1>. QED BY <1>1, <1>2, <1>3, <1>4

LEMMA EndsAreRealStep ==
  ASSUME TypeOK, HandlersVisit, EndsAreReal, [Next]_vars
  PROVE  EndsAreReal'
  <1>. USE DEF EndsAreReal, Unheard, CalledBack, TypeOK, Lines
  <1>1. CASE UNCHANGED <<taken, sem, raised, finished, handler, scan>>
    BY <1>1
  <1>2. CASE Call \/ DmaWrite \/ DmaRead \/ DmaStart
    BY <1>1, <1>2 DEF Call, DmaWrite, DmaRead, DmaStart, dmaVars, irqVars
  <1>3. ASSUME NEW s \in Sides, NEW from, NEW to, Take(s, from, to)
        PROVE  EndsAreReal'
    BY <1>3 DEF Take, dmaVars, irqVars
  <1>4. ASSUME NEW s \in Sides, NEW from, NEW to, Expire(s, from, to)
        PROVE  EndsAreReal'
    BY <1>1, <1>4 DEF Expire, dmaVars, irqVars
  <1>5. ASSUME NEW s \in Sides, Moved(s), UNCHANGED <<taken, sem, handler, scan>>
        PROVE  EndsAreReal'
    BY <1>5 DEF Moved
  <1>6. CASE TxWord \/ RxWord
    BY <1>5, <1>6 DEF TxWord, RxWord, callVars, Sides
  <1>7. ASSUME NEW l \in Lines, Enter(l) \/ Look(l) \/ Callback(l) \/ Acknowledge(l) \/ Leave(l)
        PROVE  EndsAreReal'
    <2>. USE VisitedIsFirst DEF HandlerGoto, callVars, dmaVars
    <2>1. CASE Enter(l)
      BY <2>1 DEF Enter
    <2>2. CASE Look(l)
      <3>1. UNCHANGED <<taken, sem, raised, finished>>
        BY <2>2 DEF Look
      <3>2. CASE l = 1
        BY <2>2, <3>1, <3>2, HandlerStep
      <3>3. CASE l = 0
        BY <2>2, <3>1, <3>3, HandlerStep DEF Look
      <3>. QED BY <3>2, <3>3
    <2>3. CASE Callback(l)
      BY <2>3, HandlerStep DEF Callback, HandlersVisit
    <2>4. CASE Acknowledge(l)
      BY <2>4, HandlerStep DEF Acknowledge, HandlersVisit
    <2>5. CASE Leave(l)
      BY <2>5 DEF Leave
    <2>. QED BY <1>7, <2>1, <2>2, <2>3, <2>4, <2>5
  <1>8. CASE UNCHANGED vars
    BY <1>1, <1>8 DEF vars, callVars, dmaVars, irqVars
  <1>. QED BY Steps, <1>2, <1>3, <1>4, <1>6, <1>7, <1>8 DEF Sides

(* A successful take always stands for a block that was finished: every    *)
(* end is counted once, in taken, in the semaphore or in an interrupt that *)
(* the handler has still to pass on, even after timeouts and even when two *)
(* ends fall into one interrupt (dma.cpp:7-14, spi.cpp:56-57).             *)
THEOREM EveryTakeIsAnEnd == Spec => []NoPhantomEnd
  <1>1. Init => HandlersVisit /\ EndsAreReal
    BY DEF Init, HandlersVisit, EndsAreReal, Unheard, CalledBack, Lines
  <1>2. /\ TypeOK /\ HandlersVisit /\ EndsAreReal /\ [Next]_vars
        => HandlersVisit' /\ EndsAreReal'
    BY HandlersVisitStep, EndsAreRealStep
  <1>3. TypeOK /\ EndsAreReal => NoPhantomEnd
    BY DEF TypeOK, EndsAreReal, Unheard, NoPhantomEnd
  <1>. QED BY <1>1, <1>2, <1>3, TypeCorrect, PTL DEF Spec

-----------------------------------------------------------------------------
(* The blocks started so far, as long as no take has timed out, and what   *)
(* each of them has left behind: a channel has ended all of them but the   *)
(* one it is busy with, a take has been made for all but the current one,  *)
(* and the words of each are in the buffer of its own transfer.            *)
Started == IF pc \in {"write", "read", "start"} THEN transfers - 1 ELSE transfers

Ended(s) == Started - (IF left[s] > 0 THEN 1 ELSE 0)

TakesSoFar(s) ==
  IF pc = "idle" \/ (s = "tx" /\ pc = "waitRx") THEN transfers ELSE transfers - 1

BlocksCounted ==
  /\ pc # "idle" => transfers > 0
  /\ \A s \in Sides : finished[s] = Ended(s) /\ taken[s] = TakesSoFar(s)

WordsInPlace ==
  /\ pc \in {"start", "waitTx", "waitRx"} => buffer["rx"] = transfers
  /\ \A t \in Transfers :
       stored[t] = IF t < Started THEN Size
                   ELSE IF t = Started THEN Size - left["rx"] ELSE 0

Settling == ~expired => BlocksCounted /\ WordsInPlace

(* With every end accounted for, a channel is idle, and nothing of its     *)
(* last block is left to be heard of, once its end has been taken.         *)
LEMMA TakenIsSettled ==
  ASSUME TypeOK, EndsAreReal, BlocksCounted, NEW s \in Sides, TakesSoFar(s) = Started
  PROVE  left[s] = 0 /\ sem[s] = 0
  <1>1. taken[s] + sem[s] + Unheard(s) <= finished[s] /\ Unheard(s) \in {0, 1}
    BY DEF EndsAreReal, Unheard
  <1>2. taken[s] = Started /\ finished[s] = Ended(s)
    BY DEF BlocksCounted
  <1>3. Started \in Nat /\ sem[s] \in 0..1 /\ left[s] \in 0..Size
    BY DEF TypeOK, Started, BlocksCounted
  <1>. QED BY <1>1, <1>2, <1>3, SizeAssumption DEF Ended

LEMMA MovedIsCounted ==
  ASSUME TypeOK, BlocksCounted, NEW s \in Sides, left[s] > 0, Moved(s), UNCHANGED callVars
  PROVE  BlocksCounted'
  <1>1. Started' = Started /\ Started \in Nat /\ \A u \in Sides : TakesSoFar(u)' = TakesSoFar(u)
    BY DEF Started, TakesSoFar, TypeOK, BlocksCounted, callVars
  <1>2. ASSUME NEW u \in Sides
        PROVE  finished'[u] = Ended(u)'
    <2>1. finished[u] = Started - (IF left[u] > 0 THEN 1 ELSE 0)
      BY DEF BlocksCounted, Ended
    <2>2. Ended(u)' = Started - (IF left'[u] > 0 THEN 1 ELSE 0)
      BY <1>1 DEF Ended
    <2>3. left[u] \in Nat /\ finished[u] \in Nat
      BY DEF TypeOK
    <2>4. CASE u # s
      <3>1. left'[u] = left[u] /\ finished'[u] = finished[u]
        BY <2>4 DEF Moved, TypeOK
      <3>. QED BY <2>1, <2>2, <3>1
    <2>5. CASE u = s
      <3>1. /\ left'[u] = left[u] - 1
            /\ finished'[u] = IF left[u] = 1 THEN finished[u] + 1 ELSE finished[u]
        BY <2>5 DEF Moved, TypeOK
      <3>2. left[u] > 0
        BY <2>5
      <3>. QED BY <1>1, <2>1, <2>2, <2>3, <3>1, <3>2
    <2>. QED BY <2>4, <2>5
  <1>. QED BY <1>1, <1>2 DEF BlocksCounted, callVars

LEMMA RxWordStored ==
  ASSUME TypeOK, EndsAreReal, BlocksCounted, WordsInPlace, RxWord
  PROVE  WordsInPlace'
  <1>1. pc \in {"waitTx", "waitRx"}
    <2>1. left["rx"] # 0
      BY DEF RxWord, TypeOK, Sides
    <2>2. TakesSoFar("rx") # Started
      BY <2>1, TakenIsSettled DEF Sides
    <2>. QED BY <2>2 DEF TakesSoFar, Started, TypeOK
  <1>2. /\ Started = transfers /\ Started' = transfers /\ buffer["rx"] = transfers
        /\ UNCHANGED <<pc, buffer, transfers>>
    BY <1>1 DEF Started, WordsInPlace, RxWord, callVars
  <1>3. left'["rx"] = left["rx"] - 1 /\ left["rx"] \in 0..Size
    BY DEF RxWord, Moved, TypeOK, Sides
  <1>4. stored' = [stored EXCEPT ![transfers] = stored[transfers] + 1]
    BY <1>2 DEF RxWord
  <1>5. ASSUME NEW t \in Transfers
        PROVE  stored'[t] = IF t < Started' THEN Size
                            ELSE IF t = Started' THEN Size - left'["rx"] ELSE 0
    <2>1. stored[t] = IF t < transfers THEN Size
                      ELSE IF t = transfers THEN Size - left["rx"] ELSE 0
      BY <1>2 DEF WordsInPlace
    <2>2. t \in Nat /\ transfers \in Nat
      BY CallsAssumption DEF Transfers, TypeOK
    <2>3. CASE t = transfers
      <3>1. stored'[t] = stored[t] + 1
        BY <1>4, <2>3 DEF TypeOK
      <3>. QED BY <1>2, <1>3, <2>1, <2>2, <2>3, <3>1, SizeAssumption
    <2>4. CASE t # transfers
      <3>1. stored'[t] = stored[t]
        BY <1>4, <2>4 DEF TypeOK
      <3>. QED BY <1>2, <2>1, <2>2, <2>4, <3>1
    <2>. QED BY <2>3, <2>4
  <1>. QED BY <1>2, <1>5 DEF WordsInPlace

LEMMA SettlingStep ==
  ASSUME TypeOK, EndsAreReal, Settling, [Next]_vars
  PROVE  Settling'
  <1>. SUFFICES ASSUME ~expired' PROVE BlocksCounted' /\ WordsInPlace'
    BY DEF Settling
  <1>1. expired \/ (BlocksCounted /\ WordsInPlace)
    BY DEF Settling
  <1>2. expired \in BOOLEAN
    BY DEF TypeOK
  <1>. USE SizeAssumption, CallsAssumption
       DEF BlocksCounted, WordsInPlace, Started, Ended, TakesSoFar, TypeOK, Transfers, Sides,
           callVars, dmaVars, irqVars, Goto
  <1>3. CASE UNCHANGED <<callVars, dmaVars>>
    BY <1>1, <1>3
  <1>4. CASE Call
    <2>1. BlocksCounted /\ WordsInPlace
      BY <1>1, <1>4 DEF Call
    <2>2. left["tx"] = 0 /\ left["rx"] = 0
      BY <1>4, <2>1, TakenIsSettled DEF Call
    <2>. QED BY <1>4, <2>1, <2>2 DEF Call
  <1>5. CASE DmaWrite
    BY <1>1, <1>5 DEF DmaWrite
  <1>6. CASE DmaRead
    BY <1>1, <1>6 DEF DmaRead
  <1>7. CASE DmaStart
    <2>1. BlocksCounted /\ WordsInPlace
      BY <1>1, <1>7 DEF DmaStart
    <2>2. left["tx"] = 0 /\ left["rx"] = 0
      BY <1>7, <2>1, TakenIsSettled DEF DmaStart
    <2>. QED BY <1>7, <2>1, <2>2 DEF DmaStart
  <1>8. CASE Take("tx", "waitTx", "waitRx")
    BY <1>1, <1>8 DEF Take
  <1>9. CASE Take("rx", "waitRx", "idle")
    BY <1>1, <1>9 DEF Take
  <1>10. ASSUME NEW s, NEW from, NEW to, Expire(s, from, to)
         PROVE  FALSE
    BY <1>10 DEF Expire
  <1>11. CASE TxWord
    <2>1. BlocksCounted /\ WordsInPlace
      BY <1>1, <1>11 DEF TxWord
    <2>2. BlocksCounted'
      BY <1>11, <2>1, MovedIsCounted DEF TxWord
    <2>3. UNCHANGED <<pc, transfers, buffer, stored>> /\ left'["rx"] = left["rx"]
      BY <1>11 DEF TxWord, Moved
    <2>. QED BY <2>1, <2>2, <2>3
  <1>12. CASE RxWord
    <2>1. BlocksCounted /\ WordsInPlace
      BY <1>1, <1>12 DEF RxWord
    <2>2. BlocksCounted'
      BY <1>12, <2>1, MovedIsCounted DEF RxWord
    <2>3. WordsInPlace'
      BY <1>12, <2>1, RxWordStored
    <2>. QED BY <2>2, <2>3
  <1>13. ASSUME NEW l \in Lines, Enter(l) \/ Look(l) \/ Callback(l) \/ Acknowledge(l) \/ Leave(l)
         PROVE  UNCHANGED <<callVars, dmaVars>>
    BY <1>13 DEF Enter, Look, Callback, Acknowledge, Leave
  <1>14. CASE UNCHANGED vars
    BY <1>3, <1>14 DEF vars
  <1>. QED
    BY Steps, <1>3, <1>4, <1>5, <1>6, <1>7, <1>8, <1>9, <1>10, <1>11, <1>12, <1>13, <1>14

LEMMA InitSettled == Init => Settling
  <1>1. Init => BlocksCounted
    BY DEF Init, BlocksCounted, Ended, Started, TakesSoFar
  <1>2. Init => WordsInPlace
    BY CallsAssumption DEF Init, WordsInPlace, Started, Transfers
  <1>. QED BY <1>1, <1>2 DEF Settling

LEMMA SettlingAlways == Spec => [](TypeOK /\ EndsAreReal /\ Settling)
  <1>1. Init => HandlersVisit /\ EndsAreReal /\ Settling
    BY InitSettled DEF Init, HandlersVisit, EndsAreReal, Unheard, CalledBack, Lines
  <1>2. /\ TypeOK /\ HandlersVisit /\ EndsAreReal /\ Settling /\ [Next]_vars
        => HandlersVisit' /\ EndsAreReal' /\ Settling'
    BY HandlersVisitStep, EndsAreRealStep, SettlingStep
  <1>. QED BY <1>1, <1>2, TypeCorrect, PTL DEF Spec

(* As long as no take has timed out: when transfer has returned, both      *)
(* channels are idle and the caller's buffer holds the block, so the DMA   *)
(* never touches a buffer its owner has given up (spi.cpp:51-58).          *)
THEOREM TransfersSettle == Spec => []TransferSettles
  <1>1. TypeOK /\ EndsAreReal /\ Settling => TransferSettles
    <2>. SUFFICES ASSUME TypeOK, EndsAreReal, Settling, ~expired, pc = "idle"
                  PROVE  /\ \A s \in Sides : left[s] = 0
                         /\ \A t \in 1..transfers : stored[t] = Size
      BY DEF TransferSettles
    <2>1. BlocksCounted /\ WordsInPlace
      BY DEF Settling
    <2>2. \A s \in Sides : left[s] = 0
      BY <2>1, TakenIsSettled DEF TakesSoFar, Started
    <2>3. ASSUME NEW t \in 1..transfers
          PROVE  stored[t] = Size
      BY <2>1, <2>2, SizeAssumption, CallsAssumption DEF WordsInPlace, Started, Transfers, TypeOK, Sides
    <2>. QED BY <2>2, <2>3
  <1>. QED BY <1>1, SettlingAlways, PTL

(* As long as no take has timed out: a transfer starts with both           *)
(* semaphores empty, so it cannot take the end of an earlier block for its *)
(* own, on one core or two (spi.cpp:55-57, dma.cpp:7-23).                  *)
THEOREM TransfersStartEmpty == Spec => []NoStaleToken
  <1>1. TypeOK /\ EndsAreReal /\ Settling => NoStaleToken
    BY TakenIsSettled DEF Settling, NoStaleToken, TakesSoFar, Started
  <1>. QED BY <1>1, SettlingAlways, PTL

(* A timeout is the only way to a take that ends nothing: while none has   *)
(* expired, a token that transfer finds on its way out is the end of its   *)
(* own block, and the channel of that side is idle (spi.cpp:56-57).        *)
THEOREM TakesEndOwnBlock ==
  Spec => [](~expired => /\ pc = "waitTx" /\ sem["tx"] = 1 => left["tx"] = 0
                         /\ pc = "waitRx" /\ sem["rx"] = 1 => left["rx"] = 0)
  <1>1. TypeOK /\ EndsAreReal /\ Settling
        => (~expired => /\ pc = "waitTx" /\ sem["tx"] = 1 => left["tx"] = 0
                        /\ pc = "waitRx" /\ sem["rx"] = 1 => left["rx"] = 0)
    BY SizeAssumption
    DEF Settling, BlocksCounted, EndsAreReal, Ended, TakesSoFar, Started, Unheard, TypeOK, Sides
  <1>. QED BY <1>1, SettlingAlways, PTL

-----------------------------------------------------------------------------
(* Until a take times out the FIFO holds what the receive channel is       *)
(* behind the transmit channel, so that one of the two can always move ... *)
FifoBalanced == ~expired => left["rx"] = left["tx"] + flight

(* ... and until two blocks share an interrupt no end is lost: each one    *)
(* has been taken, is in the semaphore, or is in an interrupt the handler  *)
(* has still to pass on.                                                   *)
EndsAreKept ==
  ~expired /\ ~merged =>
    \A s \in Sides : taken[s] + sem[s] + Unheard(s) = finished[s]

LEMMA FifoBalancedStep ==
  ASSUME TypeOK, EndsAreReal, Settling, FifoBalanced, [Next]_vars
  PROVE  FifoBalanced'
  <1>. SUFFICES ASSUME ~expired' PROVE left'["rx"] = left'["tx"] + flight'
    BY DEF FifoBalanced
  <1>1. CASE UNCHANGED <<expired, left, flight>>
    BY <1>1 DEF FifoBalanced
  <1>2. CASE DmaStart
    <2>1. ~expired /\ pc = "start" /\ flight' = flight
      BY <1>2 DEF DmaStart, Goto
    <2>2. \A s \in Sides : left[s] = 0
      BY <2>1, TakenIsSettled DEF Settling, TakesSoFar, Started
    <2>3. left'["tx"] = Size /\ left'["rx"] = Size
      BY <1>2, <2>2 DEF DmaStart, Sides
    <2>4. flight = 0
      BY <2>1, <2>2 DEF FifoBalanced, Sides, TypeOK
    <2>. QED BY <2>1, <2>3, <2>4, SizeAssumption
  <1>3. ASSUME TxWord \/ RxWord
        PROVE  /\ left["rx"] = left["tx"] + flight
               /\ left["tx"] \in Nat /\ left["rx"] \in Nat /\ flight \in Nat
    BY <1>3, SizeAssumption DEF TxWord, RxWord, callVars, FifoBalanced, TypeOK, Sides
  <1>4. CASE TxWord
    <2>1. left["tx"] > 0 /\ (flight < FifoDepth \/ left["rx"] = 0)
      BY <1>4 DEF TxWord
    <2>2. flight < FifoDepth
      BY <1>3, <1>4, <2>1
    <2>3. flight' = flight + 1
      BY <1>4, <2>2 DEF TxWord
    <2>4. left'["tx"] = left["tx"] - 1 /\ left'["rx"] = left["rx"]
      BY <1>4 DEF TxWord, Moved, TypeOK, Sides
    <2>. QED BY <1>3, <1>4, <2>3, <2>4
  <1>5. CASE RxWord
    <2>1. left'["tx"] = left["tx"] /\ left'["rx"] = left["rx"] - 1
      BY <1>5 DEF RxWord, Moved, TypeOK, Sides
    <2>2. flight' = flight - 1
      BY <1>5 DEF RxWord
    <2>. QED BY <1>3, <1>5, <2>1, <2>2
  <1>6. ASSUME NEW l \in Lines, Enter(l) \/ Look(l) \/ Callback(l) \/ Acknowledge(l) \/ Leave(l)
        PROVE  UNCHANGED <<expired, left, flight>>
    BY <1>6 DEF Enter, Look, Callback, Acknowledge, Leave, callVars, dmaVars
  <1>7. ASSUME NEW s, NEW from, NEW to, Expire(s, from, to)
        PROVE  FALSE
    BY <1>7 DEF Expire
  <1>8. ASSUME Call \/ DmaWrite \/ DmaRead \/ Take("tx", "waitTx", "waitRx")
                 \/ Take("rx", "waitRx", "idle") \/ UNCHANGED vars
        PROVE  UNCHANGED <<expired, left, flight>>
    BY <1>8 DEF Call, DmaWrite, DmaRead, Take, dmaVars, callVars, vars
  <1>. QED BY Steps, <1>1, <1>2, <1>4, <1>5, <1>6, <1>7, <1>8

(* The end a handler passes on finds an empty semaphore. *)
LEMMA CallbackFindsRoom ==
  ASSUME TypeOK, EndsAreReal, BlocksCounted, NEW s \in Sides, Unheard(s) = 1
  PROVE  sem[s] = 0
  <1>1. taken[s] + sem[s] + 1 <= finished[s]
    BY DEF EndsAreReal
  <1>2. taken[s] = TakesSoFar(s) /\ finished[s] = Ended(s)
    BY DEF BlocksCounted
  <1>3. Ended(s) <= transfers /\ TakesSoFar(s) >= transfers - 1 /\ transfers \in Nat
    BY CallsAssumption DEF Ended, Started, TakesSoFar, TypeOK
  <1>4. sem[s] \in 0..1 /\ taken[s] \in Nat /\ finished[s] \in Nat
    BY DEF TypeOK
  <1>. QED BY <1>1, <1>2, <1>3, <1>4

LEMMA EndsAreKeptStep ==
  ASSUME TypeOK, HandlersVisit, EndsAreReal, Settling, EndsAreKept, [Next]_vars
  PROVE  EndsAreKept'
  <1>. SUFFICES ASSUME ~expired', ~merged', NEW s \in Sides
                PROVE  taken'[s] + sem'[s] + Unheard(s)' = finished'[s]
    BY DEF EndsAreKept
  <1>0. taken[s] \in Nat /\ sem[s] \in 0..1 /\ finished[s] \in Nat /\ Unheard(s) \in 0..1
    BY DEF TypeOK, Unheard
  <1>1. CASE /\ UNCHANGED <<expired, merged>> /\ taken'[s] = taken[s] /\ sem'[s] = sem[s]
             /\ finished'[s] = finished[s] /\ Unheard(s)' = Unheard(s)
    BY <1>1 DEF EndsAreKept
  <1>2. ASSUME UNCHANGED <<raised, handler, scan>>
        PROVE  Unheard(s)' = Unheard(s)
    BY <1>2 DEF Unheard, CalledBack
  <1>3. CASE Call \/ DmaWrite \/ DmaRead \/ DmaStart \/ UNCHANGED vars
    BY <1>1, <1>2, <1>3
    DEF Call, DmaWrite, DmaRead, DmaStart, callVars, dmaVars, irqVars, vars
  <1>4. ASSUME NEW u \in Sides, NEW from, NEW to, Take(u, from, to)
        PROVE  taken'[s] + sem'[s] + Unheard(s)' = finished'[s]
    <2>1. /\ taken[s] + sem[s] + Unheard(s) = finished[s] /\ Unheard(s)' = Unheard(s)
          /\ finished' = finished
      BY <1>2, <1>4 DEF Take, dmaVars, irqVars, EndsAreKept
    <2>2. /\ sem[u] = 1 /\ sem' = [sem EXCEPT ![u] = 0]
          /\ taken' = [taken EXCEPT ![u] = @ + 1]
      BY <1>4 DEF Take
    <2>3. CASE u = s
      <3>1. sem'[s] = 0 /\ taken'[s] = taken[s] + 1
        BY <2>2, <2>3 DEF TypeOK
      <3>. QED BY <1>0, <2>1, <2>2, <2>3, <3>1
    <2>4. CASE u # s
      <3>1. sem'[s] = sem[s] /\ taken'[s] = taken[s]
        BY <2>2, <2>4 DEF TypeOK
      <3>. QED BY <2>1, <3>1
    <2>. QED BY <2>3, <2>4
  <1>5. ASSUME NEW u, NEW from, NEW to, Expire(u, from, to)
        PROVE  FALSE
    BY <1>5 DEF Expire
  <1>6. ASSUME NEW u \in Sides, left[u] > 0, Moved(u), UNCHANGED <<callVars, sem, handler, scan>>
        PROVE  taken'[s] + sem'[s] + Unheard(s)' = finished'[s]
    <2>1. ~merged /\ ~(left[u] = 1 /\ u \in raised)
      BY <1>6 DEF Moved, TypeOK
    <2>2. taken[s] + sem[s] + Unheard(s) = finished[s] /\ taken' = taken /\ sem' = sem
      BY <1>6, <2>1 DEF EndsAreKept, callVars
    <2>3. CASE u = s /\ left[u] = 1
      <3>1. s \notin raised /\ s \in raised' /\ finished'[s] = finished[s] + 1
        BY <1>6, <2>1, <2>3 DEF Moved, TypeOK
      <3>2. ~CalledBack(s)'
        BY <1>6, <3>1 DEF CalledBack, HandlersVisit
      <3>3. Unheard(s) = 0 /\ Unheard(s)' = 1
        BY <3>1, <3>2 DEF Unheard
      <3>. QED BY <1>0, <2>2, <3>1, <3>3
    <2>4. CASE ~(u = s /\ left[u] = 1)
      <3>1. finished'[s] = finished[s]
        BY <1>6, <2>4 DEF Moved, TypeOK
      <3>2. s \in raised' <=> s \in raised
        BY <1>6, <2>4 DEF Moved
      <3>3. Unheard(s)' = Unheard(s)
        BY <1>6, <3>2 DEF Unheard, CalledBack
      <3>. QED BY <2>2, <3>1, <3>3
    <2>. QED BY <2>3, <2>4
  <1>7. CASE TxWord \/ RxWord
    BY <1>6, <1>7 DEF TxWord, RxWord, Sides
  <1>8. ASSUME NEW l \in Lines, Enter(l) \/ Look(l) \/ Callback(l) \/ Acknowledge(l) \/ Leave(l)
        PROVE  taken'[s] + sem'[s] + Unheard(s)' = finished'[s]
    <2>1. UNCHANGED <<taken, finished, expired, merged>>
      BY <1>8 DEF Enter, Look, Callback, Acknowledge, Leave, callVars, dmaVars
    <2>2. taken[s] + sem[s] + Unheard(s) = finished[s]
      BY <2>1 DEF EndsAreKept
    <2>3. CASE Enter(l) \/ Look(l) \/ Leave(l)
      <3>1. sem' = sem /\ raised' = raised
        BY <2>3 DEF Enter, Look, Leave
      <3>2. \/ handler[0] # "acknowledge" /\ handler'[0] # "acknowledge"
            \/ handler'[0] = handler[0] /\ scan'[0] = scan[0]
        BY <2>3 DEF Enter, Look, Leave, HandlerGoto, TypeOK, Lines
      <3>3. Unheard(s)' = Unheard(s)
        BY <3>1, <3>2 DEF Unheard, CalledBack
      <3>. QED BY <1>1, <2>1, <3>1, <3>3
    <2>4. CASE Callback(l)
      <3>1. l = 0
        BY <2>4, HandlerStep
      <3>2. /\ handler[0] = "call" /\ handler'[0] = "acknowledge" /\ scan'[0] = scan[0]
            /\ raised' = raised /\ sem' = [sem EXCEPT ![First(scan[0])] = 1]
        BY <2>4, <3>1, VisitedIsFirst DEF Callback, HandlerGoto, TypeOK, Lines
      <3>3. CASE First(scan[0]) = s
        <4>1. Unheard(s) = 1 /\ Unheard(s)' = 0
          BY <3>2, <3>3 DEF Unheard, CalledBack, HandlersVisit
        <4>2. sem[s] = 0
          BY <2>1, <4>1, CallbackFindsRoom DEF Settling
        <4>3. sem'[s] = 1
          BY <3>2, <3>3 DEF TypeOK
        <4>. QED BY <1>0, <2>1, <2>2, <4>1, <4>2, <4>3
      <3>4. CASE First(scan[0]) # s
        <4>1. Unheard(s)' = Unheard(s)
          BY <3>2, <3>4 DEF Unheard, CalledBack
        <4>2. sem'[s] = sem[s]
          BY <3>2, <3>4 DEF TypeOK
        <4>. QED BY <1>1, <2>1, <4>1, <4>2
      <3>. QED BY <3>3, <3>4
    <2>5. CASE Acknowledge(l)
      <3>1. l = 0
        BY <2>5, HandlerStep
      <3>2. /\ handler[0] = "acknowledge" /\ handler'[0] = "look"
            /\ raised' = raised \ {First(scan[0])} /\ sem' = sem
        BY <2>5, <3>1, VisitedIsFirst DEF Acknowledge, HandlerGoto, TypeOK, Lines
      <3>3. Unheard(s)' = Unheard(s)
        BY <3>2 DEF Unheard, CalledBack
      <3>. QED BY <1>1, <2>1, <3>2, <3>3
    <2>. QED BY <1>8, <2>3, <2>4, <2>5
  <1>. QED BY Steps, <1>3, <1>4, <1>5, <1>7, <1>8 DEF Sides

(* No transfer on channels of the lower half is stranded: as long as no    *)
(* take has timed out and no two blocks shared an interrupt, a transfer    *)
(* that waits for a side has words of that side left, which the engine can *)
(* move, or the end of that side is in an interrupt that dma_handler0 has  *)
(* still to pass on (spi.cpp:51-58, dma.cpp:7-14).  With fairness of the   *)
(* engine and the handler this is why transfer returns.                    *)
THEOREM TransfersAreNotStranded ==
  ASSUME \A s \in Sides : Line(s) = 0
  PROVE  Spec => []TransferNotStranded
  <1>. DEFINE Inv == TypeOK /\ HandlersVisit /\ EndsAreReal /\ Settling
                     /\ FifoBalanced /\ EndsAreKept
  <1>1. Init => Inv
    <2>1. Init => TypeOK /\ Settling
      BY InitTyped, InitSettled
    <2>2. Init => HandlersVisit /\ EndsAreReal /\ EndsAreKept /\ FifoBalanced
      BY DEF Init, HandlersVisit, EndsAreReal, EndsAreKept, FifoBalanced, Unheard, CalledBack,
             Lines, Sides
    <2>. QED BY <2>1, <2>2
  <1>2. Inv /\ [Next]_vars => Inv'
    BY TypeStep, HandlersVisitStep, EndsAreRealStep, SettlingStep, FifoBalancedStep, EndsAreKeptStep
  <1>3. Inv => TransferNotStranded
    <2>. SUFFICES ASSUME Inv, ~expired, ~merged, NEW s \in Sides, Awaits(s), sem[s] = 0
                  PROVE  (left[s] > 0 /\ WordMoves) \/ EndIsDue(s)
      BY DEF TransferNotStranded
    <2>1. taken[s] + sem[s] + Unheard(s) = finished[s] /\ left["rx"] = left["tx"] + flight
      BY DEF EndsAreKept, FifoBalanced
    <2>2. taken[s] = transfers - 1 /\ finished[s] = transfers - (IF left[s] > 0 THEN 1 ELSE 0)
      BY DEF Settling, BlocksCounted, Awaits, TakesSoFar, Ended, Started, Sides
    <2>3. /\ left["tx"] \in Nat /\ left["rx"] \in Nat /\ flight \in Nat /\ left[s] \in Nat
          /\ transfers \in Nat /\ FifoDepth \in Nat \ {0}
      BY SizeAssumption, CallsAssumption DEF TypeOK, Sides
    <2>4. CASE left[s] > 0
      <3>1. left["rx"] > 0
        BY <2>1, <2>3, <2>4 DEF Sides
      <3>2. flight = 0 => left["tx"] > 0
        BY <2>1, <2>3, <3>1
      <3>. QED BY <2>3, <2>4, <3>1, <3>2 DEF WordMoves
    <2>5. CASE ~(left[s] > 0)
      <3>1. Unheard(s) = 1
        BY <2>1, <2>2, <2>3, <2>5 DEF Unheard
      <3>2. s \in raised /\ ~CalledBack(s)
        BY <3>1 DEF Unheard
      <3>. QED BY <3>2, VisitedIsFirst DEF CalledBack, EndIsDue, Irq0Status
    <2>. QED BY <2>4, <2>5
  <1>. HIDE DEF Inv
  <1>. QED BY <1>1, <1>2, <1>3, PTL DEF Spec

-----------------------------------------------------------------------------
(* On one core a raised channel is idle: the task starts none before the   *)
(* interrupts of both have been handled, timeout or not ...                *)
RaisedIsIdle == ~MultiCore => ~merged /\ \A s \in raised : left[s] = 0

LEMMA RaisedIsIdleStep ==
  ASSUME TypeOK, RaisedIsIdle, [Next]_vars
  PROVE  RaisedIsIdle'
  <1>. SUFFICES ASSUME ~MultiCore PROVE ~merged' /\ \A s \in raised' : left'[s] = 0
    BY DEF RaisedIsIdle
  <1>0. ~merged /\ \A s \in raised : left[s] = 0
    BY DEF RaisedIsIdle
  <1>1. CASE UNCHANGED <<merged, left>> /\ raised' \subseteq raised
    BY <1>0, <1>1
  <1>2. CASE DmaStart
    BY <1>0, <1>2 DEF DmaStart, Goto, TaskRuns, irqVars
  <1>3. ASSUME NEW s \in Sides, left[s] > 0, Moved(s)
        PROVE  ~merged' /\ \A u \in raised' : left'[u] = 0
    <2>1. s \notin raised
      BY <1>0, <1>3 DEF TypeOK
    <2>2. ~merged'
      BY <1>0, <1>3, <2>1, Zenon DEF Moved
    <2>3. \A u \in raised' : left'[u] = 0
      BY <1>0, <1>3, <2>1 DEF Moved, TypeOK
    <2>. QED BY <2>2, <2>3
  <1>4. CASE TxWord \/ RxWord
    BY <1>3, <1>4 DEF TxWord, RxWord, Sides
  <1>5. ASSUME NEW l \in Lines, Enter(l) \/ Look(l) \/ Callback(l) \/ Acknowledge(l) \/ Leave(l)
        PROVE  UNCHANGED <<merged, left>> /\ raised' \subseteq raised
    BY <1>5 DEF Enter, Look, Callback, Acknowledge, Leave, HandlerGoto, dmaVars
  <1>. QED
    BY Steps, <1>1, <1>2, <1>4, <1>5
    DEF Call, DmaWrite, DmaRead, Take, Expire, vars, dmaVars, irqVars

(* ... so no end of a block is lost in the interrupt of another: on one    *)
(* core the gap between damCallback and the acknowledgement (dma.cpp:10-11)*)
(* is harmless, whatever the timeouts.                                     *)
THEOREM OneCoreMergesNothing == Spec => [](~MultiCore => ~merged)
  <1>1. Init => RaisedIsIdle
    BY DEF Init, RaisedIsIdle
  <1>2. TypeOK /\ RaisedIsIdle /\ [Next]_vars => RaisedIsIdle'
    BY RaisedIsIdleStep
  <1>3. RaisedIsIdle => (~MultiCore => ~merged)
    BY DEF RaisedIsIdle
  <1>. QED BY <1>1, <1>2, <1>3, TypeCorrect, PTL DEF Spec
=============================================================================
