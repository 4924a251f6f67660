-------------------------- MODULE CanTrafficProofs --------------------------
(***************************************************************************)
(* Proofs about the frames that go through the CAN driver of module        *)
(* Mcp2515Task: how often rxReadInTask returns, that the driver implements *)
(* the mailbox of module CanMailbox, and what txBuffer0SendInTask puts on  *)
(* the bus.  For every number of frames, errors and calls, both buffer     *)
(* modes, one core or two, cold and warm start.                            *)
(***************************************************************************)
EXTENDS Mcp2515TaskProofs

(* A received frame is under way to its reader: flagged in the chip; seen  *)
(* by canService, which will give one token for it; in _rxSemaphore; with  *)
(* the reader.  A flag canService has seen and will clear is not counted   *)
(* again in the chip.                                                      *)
Owes(b) ==
  /\ Flagged(b)
  /\ \/ service.pc \in {"rxClear", "rxLoad", "rxStore", "txClear", "txPending"}
     \/ service.pc = "rxGive" /\ service.buf <= b

WillClear(b) ==
  /\ Flagged(b)
  /\ \/ service.pc = "rxClear" /\ service.buf <= b
     \/ service.pc \in {"rxLoad", "rxStore"} /\ service.buf < b

Waits(b) == RxFlag(b) \in intf /\ ~WillClear(b)

Due(b) == (IF Owes(b) THEN 1 ELSE 0) + (IF Waits(b) THEN 1 ELSE 0)
Holds == IF reader.pc = "take" THEN 0 ELSE 1

ServiceRests == service.pc \in {"gate", "poll", "read", "wait"} => service.buf = 0

FramesCounted == Len(delivered) + rxSem + Holds + Due(0) + Due(1) <= arrived

ReadInv == ServiceRests /\ FramesCounted

LEMMA DueType == \A b \in Buffers : Due(b) \in 0..2 /\ Due(b)' \in 0..2
  BY DEF Due

LEMMA CountsType ==
  ASSUME TypeOK
  PROVE  Len(delivered) \in Nat /\ rxSem \in Nat /\ Holds \in Nat /\ arrived \in Nat
  BY DEF TypeOK, ChipTypeOK, Holds

(* A step that adds no token and no frame for either buffer keeps the sum. *)
LEMMA NothingAdded ==
  ASSUME TypeOK, TypeOK', FramesCounted,
         UNCHANGED <<delivered, rxSem, reader, arrived>>,
         \A b \in Buffers : Due(b)' <= Due(b)
  PROVE  FramesCounted'
  <1>1. 0 \in Buffers /\ 1 \in Buffers
    BY Bits, Zenon DEF Buffers
  <1>2. Holds' = Holds
    BY DEF Holds
  <1>. DEFINE x == Len(delivered) + rxSem + Holds
              d0 == Due(0)
              d1 == Due(1)
              e0 == Due(0)'
              e1 == Due(1)'
  <1>3. /\ x \in Nat /\ d0 \in Nat /\ d1 \in Nat /\ e0 \in Nat /\ e1 \in Nat /\ arrived \in Nat
        /\ x' = x
    BY <1>1, <1>2, DueType, CountsType
  <1>4. e0 <= d0 /\ e1 <= d1 /\ x + d0 + d1 <= arrived
    BY <1>1 DEF FramesCounted
  <1>. HIDE DEF x, d0, d1, e0, e1
  <1>5. x + e0 + e1 <= arrived
    BY <1>3, <1>4
  <1>. QED BY <1>3, <1>5 DEF FramesCounted, x, e0, e1

LEMMA ServiceFields ==
  ASSUME TypeOK
  PROVE  /\ service \in ServiceLocals
         /\ service.pc \in ServiceLabels /\ service.buf \in {0, 1}
         /\ service.flags \subseteq Flags
  BY DEF TypeOK, ServiceLocals, Buffers

(* canService keeps the count: it takes over the flags it has read, owes   *)
(* one token for each, and gives it.                                       *)
LEMMA ServiceCounts ==
  ASSUME TypeOK, TypeOK', ReadInv, ServiceStep
  PROVE  ReadInv'
  <1>. USE ServiceFields
       DEF ReadInv, ServiceRests, ServiceAt, ServiceGoto, AtPoll, Flagged, RxFlag, Buffers, ServiceLocals
  <1>1. CASE ServiceGate
    <2>1. /\ UNCHANGED <<intf, delivered, arrived, reader, rxSem>> /\ ServiceRests'
          /\ \A b \in Buffers : (Owes(b)' => Owes(b)) /\ (WillClear(b)' = WillClear(b))
      BY <1>1 DEF ServiceGate, Owes, WillClear, chipVars, pinVars, busVars, shared, semVars, pendVars, appVars
    <2>2. \A b \in Buffers : Due(b)' <= Due(b)
      BY <2>1 DEF Due, Waits
    <2>. QED BY <2>1, <2>2, NothingAdded
  <1>2. CASE ServicePoll
    <2>1. /\ UNCHANGED <<intf, delivered, arrived, reader, rxSem>> /\ ServiceRests'
          /\ \A b \in Buffers : (Owes(b)' => Owes(b)) /\ (WillClear(b)' = WillClear(b))
      BY <1>2 DEF ServicePoll, Owes, WillClear, chipVars, pinVars, busVars, shared, semVars, pendVars, appVars
    <2>2. \A b \in Buffers : Due(b)' <= Due(b)
      BY <2>1 DEF Due, Waits
    <2>. QED BY <2>1, <2>2, NothingAdded
  <1>3. CASE ServiceReadEflg
    <2>1. /\ UNCHANGED <<intf, delivered, arrived, reader, rxSem>> /\ ServiceRests'
          /\ \A b \in Buffers : (Owes(b)' => Owes(b)) /\ (WillClear(b)' = WillClear(b))
      BY <1>3 DEF ServiceReadEflg, Owes, WillClear, chipVars, pinVars, busVars, shared, semVars, pendVars, appVars
    <2>2. \A b \in Buffers : Due(b)' <= Due(b)
      BY <2>1 DEF Due, Waits
    <2>. QED BY <2>1, <2>2, NothingAdded
  <1>4. CASE ServiceConfigMode
    <2>1. /\ UNCHANGED <<intf, delivered, arrived, reader, rxSem>> /\ ServiceRests'
          /\ \A b \in Buffers : (Owes(b)' => Owes(b)) /\ (WillClear(b)' = WillClear(b))
      BY <1>4 DEF ServiceConfigMode, Owes, WillClear, chipVars, pinVars, busVars, shared, semVars, pendVars, appVars
    <2>2. \A b \in Buffers : Due(b)' <= Due(b)
      BY <2>1 DEF Due, Waits
    <2>. QED BY <2>1, <2>2, NothingAdded
  <1>5. CASE ServiceNormalMode
    <2>1. /\ UNCHANGED <<intf, delivered, arrived, reader, rxSem>> /\ ServiceRests'
          /\ \A b \in Buffers : (Owes(b)' => Owes(b)) /\ (WillClear(b)' = WillClear(b))
      BY <1>5 DEF ServiceNormalMode, Owes, WillClear, chipVars, pinVars, busVars, shared, semVars, pendVars, appVars
    <2>2. \A b \in Buffers : Due(b)' <= Due(b)
      BY <2>1 DEF Due, Waits
    <2>. QED BY <2>1, <2>2, NothingAdded
  <1>6. CASE ServiceErrorPending
    <2>1. /\ UNCHANGED <<intf, delivered, arrived, reader, rxSem>> /\ ServiceRests'
          /\ \A b \in Buffers : (Owes(b)' => Owes(b)) /\ (WillClear(b)' = WillClear(b))
      BY <1>6 DEF ServiceErrorPending, Owes, WillClear, chipVars, pinVars, busVars, shared, semVars, pendVars, appVars
    <2>2. \A b \in Buffers : Due(b)' <= Due(b)
      BY <2>1 DEF Due, Waits
    <2>. QED BY <2>1, <2>2, NothingAdded
  <1>7. CASE ServiceErrorGive
    <2>1. /\ UNCHANGED <<intf, delivered, arrived, reader, rxSem>> /\ ServiceRests'
          /\ \A b \in Buffers : (Owes(b)' => Owes(b)) /\ (WillClear(b)' = WillClear(b))
      BY <1>7 DEF ServiceErrorGive, Owes, WillClear, chipVars, pinVars, busVars, shared, semVars, pendVars, appVars
    <2>2. \A b \in Buffers : Due(b)' <= Due(b)
      BY <2>1 DEF Due, Waits
    <2>. QED BY <2>1, <2>2, NothingAdded
  <1>8. CASE ServiceGiveTx
    <2>1. /\ UNCHANGED <<intf, delivered, arrived, reader, rxSem>> /\ ServiceRests'
          /\ \A b \in Buffers : (Owes(b)' => Owes(b)) /\ (WillClear(b)' = WillClear(b))
      BY <1>8 DEF ServiceGiveTx, Owes, WillClear, chipVars, pinVars, busVars, shared, semVars, pendVars, appVars
    <2>2. \A b \in Buffers : Due(b)' <= Due(b)
      BY <2>1 DEF Due, Waits
    <2>. QED BY <2>1, <2>2, NothingAdded
  <1>9. CASE ServiceWait
    <2>1. /\ UNCHANGED <<intf, delivered, arrived, reader, rxSem>> /\ ServiceRests'
          /\ \A b \in Buffers : (Owes(b)' => Owes(b)) /\ (WillClear(b)' = WillClear(b))
      BY <1>9 DEF ServiceWait, Owes, WillClear, chipVars, pinVars, busVars, shared, semVars, pendVars, appVars
    <2>2. \A b \in Buffers : Due(b)' <= Due(b)
      BY <2>1 DEF Due, Waits
    <2>. QED BY <2>1, <2>2, NothingAdded
  <1>10. CASE ServiceLoadPending
    <2>1. /\ UNCHANGED <<intf, delivered, arrived, reader, rxSem>> /\ ServiceRests'
          /\ \A b \in Buffers : (Owes(b)' => Owes(b)) /\ (WillClear(b)' = WillClear(b))
      BY <1>10 DEF ServiceLoadPending, Owes, WillClear, chipVars, pinVars, busVars, shared, semVars, pendVars, appVars
    <2>2. \A b \in Buffers : Due(b)' <= Due(b)
      BY <2>1 DEF Due, Waits
    <2>. QED BY <2>1, <2>2, NothingAdded
  <1>11. CASE ServiceStorePending
    <2>1. /\ UNCHANGED <<intf, delivered, arrived, reader, rxSem>> /\ ServiceRests'
          /\ \A b \in Buffers : (Owes(b)' => Owes(b)) /\ (WillClear(b)' = WillClear(b))
      BY <1>11 DEF ServiceStorePending, Owes, WillClear, chipVars, pinVars, busVars, shared, semVars, pendVars, appVars, AfterRx
    <2>2. \A b \in Buffers : Due(b)' <= Due(b)
      BY <2>1 DEF Due, Waits
    <2>. QED BY <2>1, <2>2, NothingAdded
  <1>12. CASE ServiceTxPending
    <2>1. /\ UNCHANGED <<intf, delivered, arrived, reader, rxSem>> /\ ServiceRests'
          /\ \A b \in Buffers : (Owes(b)' => Owes(b)) /\ (WillClear(b)' = WillClear(b))
      BY <1>12 DEF ServiceTxPending, Owes, WillClear, chipVars, pinVars, busVars, shared, semVars, pendVars, appVars
    <2>2. \A b \in Buffers : Due(b)' <= Due(b)
      BY <2>1 DEF Due, Waits
    <2>. QED BY <2>1, <2>2, NothingAdded
  <1>13. CASE ServiceRead
    <2>1. /\ UNCHANGED <<intf, delivered, arrived, reader, rxSem>> /\ ServiceRests'
          /\ \A b \in Buffers : ~Owes(b) /\ ~WillClear(b)
          /\ \A b \in Buffers : Owes(b)' => RxFlag(b) \in intf /\ WillClear(b)'
      BY <1>13 DEF ServiceRead, Owes, WillClear, chipVars, pinVars, busVars, shared, semVars, appVars
    <2>2. \A b \in Buffers : Due(b)' <= Due(b)
      BY <2>1 DEF Due, Waits
    <2>. QED BY <2>1, <2>2, NothingAdded
  <1>14. CASE ServiceClearErrors
    <2>1. /\ UNCHANGED <<delivered, arrived, reader, rxSem>> /\ ServiceRests' /\ intf' \subseteq intf
          /\ \A b \in Buffers : ~Owes(b)' /\ ~WillClear(b)
      BY <1>14 DEF ServiceClearErrors, ClearFlag, Owes, WillClear, busVars, shared, semVars, appVars
    <2>2. \A b \in Buffers : Due(b)' <= Due(b)
      BY <2>1 DEF Due, Waits
    <2>. QED BY <2>1, <2>2, NothingAdded
  <1>15. CASE ServiceClearRx
    <2>1. /\ UNCHANGED <<delivered, arrived, reader, rxSem>> /\ ServiceRests'
          /\ \A b \in Buffers : Owes(b)' => Owes(b)
      BY <1>15 DEF ServiceClearRx, AfterRx, Owes, busVars, shared, semVars, appVars
    <2>2. ASSUME NEW b \in Buffers
          PROVE  Waits(b)' => Waits(b)
      <3>1. CASE Flagged(service.buf)
        <4>1. /\ intf' = intf \ {RxFlag(service.buf)} /\ service' = [service EXCEPT !.pc = "rxLoad"]
              /\ service.pc = "rxClear"
          BY <1>15, <3>1 DEF ServiceClearRx, ClearFlag
        <4>. QED BY <4>1 DEF Waits, WillClear
      <3>2. CASE ~Flagged(service.buf)
        <4>1. intf' = intf /\ service' = AfterRx(service) /\ service.pc = "rxClear"
          BY <1>15, <3>2 DEF ServiceClearRx, pinVars
        <4>. QED BY <3>2, <4>1 DEF Waits, WillClear, AfterRx
      <3>. QED BY <3>1, <3>2
    <2>3. \A b \in Buffers : Due(b)' <= Due(b)
      BY <2>1, <2>2 DEF Due
    <2>. QED BY <2>1, <2>3, NothingAdded
  <1>16. CASE ServiceClearTx
    <2>1. /\ UNCHANGED <<delivered, arrived, reader, rxSem>> /\ ServiceRests'
          /\ intf' \subseteq intf
          /\ \A b \in Buffers : (Owes(b)' => Owes(b)) /\ ~WillClear(b)
      BY <1>16 DEF ServiceClearTx, ClearFlag, Owes, WillClear, pinVars, busVars, shared, semVars, appVars
    <2>2. \A b \in Buffers : Due(b)' <= Due(b)
      BY <2>1 DEF Due, Waits
    <2>. QED BY <2>1, <2>2, NothingAdded
  <1>17. CASE ServiceGiveRx
    <2>. PICK c \in Buffers : service.buf = c
      OBVIOUS
    <2>1. /\ UNCHANGED <<intf, delivered, arrived, reader>> /\ ServiceRests' /\ service.pc = "rxGive"
          /\ service' = IF c = 0 THEN [service EXCEPT !.buf = 1] ELSE [service EXCEPT !.pc = "txGive"]
          /\ rxSem' = IF Flagged(c) THEN Given(rxSem, 2) ELSE rxSem
      BY <1>17 DEF ServiceGiveRx, chipVars, pinVars, busVars, appVars
    <2>2. \A b \in Buffers : Owes(b)' <=> Owes(b) /\ b # c
      BY <2>1 DEF Owes
    <2>3. \A b \in Buffers : Waits(b)' <=> Waits(b)
      BY <2>1 DEF Waits, WillClear
    <2>. DEFINE token == IF Owes(c) THEN 1 ELSE 0
    <2>4. rxSem' <= rxSem + token
      <3>1. Given(rxSem, 2) <= rxSem + 1
        BY DEF Given, TypeOK
      <3>2. Flagged(c) => Owes(c)
        BY <2>1 DEF Owes
      <3>. QED BY <2>1, <3>1, <3>2, CountsType
    <2>5. /\ Due(c)' = Due(c) - token
          /\ \A b \in Buffers : b # c => Due(b)' = Due(b)
      BY <2>2, <2>3 DEF Due
    <2>6. rxSem' + Due(0)' + Due(1)' <= rxSem + Due(0) + Due(1)
      <3>1. token \in Nat /\ rxSem \in Nat /\ rxSem' \in Nat
        BY DEF TypeOK
      <3>2. Due(0) \in Nat /\ Due(1) \in Nat /\ Due(0)' \in Nat /\ Due(1)' \in Nat
        BY DueType
      <3>. HIDE DEF token
      <3>3. CASE c = 0
        <4>1. Due(0)' = Due(0) - token /\ Due(1)' = Due(1)
          BY <2>5, <3>3
        <4>. QED BY <2>4, <3>1, <3>2, <4>1
      <3>4. CASE c = 1
        <4>1. Due(1)' = Due(1) - token /\ Due(0)' = Due(0)
          BY <2>5, <3>4
        <4>. QED BY <2>4, <3>1, <3>2, <4>1
      <3>. QED BY <3>3, <3>4
    <2>7. Holds' = Holds
      BY <2>1 DEF Holds
    <2>8. rxSem' \in Nat
      BY DEF TypeOK
    <2>9. FramesCounted'
      <3>1. Due(0) \in Nat /\ Due(1) \in Nat /\ Due(0)' \in Nat /\ Due(1)' \in Nat
        BY DueType
      <3>2. delivered' = delivered /\ arrived' = arrived
        BY <2>1
      <3>3. Len(delivered) + rxSem + Holds + Due(0) + Due(1) <= arrived
        BY DEF FramesCounted
      <3>4. Len(delivered) + rxSem' + Holds + Due(0)' + Due(1)' <= arrived
        <4>1. Len(delivered) \in Nat /\ rxSem \in Nat /\ Holds \in Nat /\ arrived \in Nat
          BY CountsType
        <4>. DEFINE l == Len(delivered)
                    r == rxSem
                    h == Holds
                    d0 == Due(0)
                    d1 == Due(1)
                    s == rxSem'
                    e0 == Due(0)'
                    e1 == Due(1)'
        <4>2. /\ l \in Nat /\ h \in Nat /\ arrived \in Nat /\ r \in Nat /\ d0 \in Nat /\ d1 \in Nat
              /\ s \in Nat /\ e0 \in Nat /\ e1 \in Nat
          BY <2>8, <3>1, <4>1, Zenon
        <4>3. s + e0 + e1 <= r + d0 + d1 /\ l + r + h + d0 + d1 <= arrived
          BY <2>6, <3>3, Zenon
        <4>. HIDE DEF l, r, h, d0, d1, s, e0, e1
        <4>4. l + s + h + e0 + e1 <= arrived
          BY <4>2, <4>3
        <4>. QED BY <4>4, Zenon DEF l, h, s, e0, e1
      <3>. QED BY <2>7, <3>2, <3>4 DEF FramesCounted
    <2>. QED BY <2>1, <2>9
  <1>. QED
    BY <1>1, <1>2, <1>3, <1>4, <1>5, <1>6, <1>7, <1>8, <1>9, <1>10, <1>11, <1>12, <1>13, <1>14, <1>15, <1>16, <1>17
    DEF ServiceStep

(* The chip: a frame that finds its flag down raises it, one that finds it *)
(* up is lost; either way one more has arrived.                            *)
LEMMA ChipCounts ==
  ASSUME TypeOK, TypeOK', ReadInv, Chip
  PROVE  ReadInv'
  <1>. USE DEF ReadInv, Chip, shared, semVars, Flagged
  <1>1. ASSUME NEW b \in Buffers, FrameArrives(b)
        PROVE  ReadInv'
    <2>1. /\ UNCHANGED <<service, delivered, reader, rxSem>> /\ arrived' = arrived + 1
          /\ \/ intf' = intf \cup {"ERR"} \/ intf' = intf \cup {RxFlag(b)}
      BY <1>1 DEF FrameArrives, Raise
    <2>2. \A c \in Buffers : Owes(c)' = Owes(c) /\ WillClear(c)' = WillClear(c)
      BY <2>1 DEF Owes, WillClear
    <2>3. /\ Due(b)' <= Due(b) + 1
          /\ \A c \in Buffers : c # b => Due(c)' = Due(c)
      BY <2>1, <2>2 DEF Due, Waits, RxFlag, Buffers
    <2>4. Due(0)' + Due(1)' <= Due(0) + Due(1) + 1
      <3>1. Due(0) \in Nat /\ Due(1) \in Nat /\ Due(0)' \in Nat /\ Due(1)' \in Nat
        BY DueType DEF Buffers
      <3>2. CASE b = 0
        BY <2>3, <3>1, <3>2 DEF Buffers
      <3>3. CASE b = 1
        BY <2>3, <3>1, <3>3 DEF Buffers
      <3>. QED BY <3>2, <3>3 DEF Buffers
    <2>5. FramesCounted'
      <3>1. Holds' = Holds /\ delivered' = delivered /\ rxSem' = rxSem
        BY <2>1 DEF Holds
      <3>2. Due(0) \in Nat /\ Due(1) \in Nat /\ Due(0)' \in Nat /\ Due(1)' \in Nat
        BY DueType DEF Buffers
      <3>3. Len(delivered) \in Nat /\ rxSem \in Nat /\ Holds \in Nat /\ arrived \in Nat
        BY CountsType
      <3>4. Len(delivered) + rxSem + Holds + Due(0)' + Due(1)' <= arrived + 1
        BY <2>4, <3>2, <3>3 DEF FramesCounted
      <3>. QED BY <2>1, <3>1, <3>4 DEF FramesCounted
    <2>. QED BY <2>1, <2>5 DEF ServiceRests
  <1>2. ASSUME UNCHANGED <<service, delivered, reader, rxSem, arrived>>,
               intf' \subseteq intf \cup {"TX0", "ERR"}
        PROVE  ReadInv'
    <2>1. \A b \in Buffers : Due(b)' <= Due(b)
      BY <1>2 DEF Due, Owes, Waits, WillClear, RxFlag
    <2>. QED BY <1>2, <2>1, NothingAdded DEF ServiceRests
  <1>3. CASE TransmitDone \/ BusError \/ BusOffEnds
    BY <1>2, <1>3 DEF TransmitDone, BusError, BusOffEnds, Raise, regVars, pinVars, busVars
  <1>. QED BY <1>1, <1>3 DEF ChipStep

(* The reader takes a token, works on it, and returns. *)
LEMMA ReaderCounts ==
  ASSUME TypeOK, TypeOK', ReadInv, ReaderStep
  PROVE  ReadInv'
  <1>1. UNCHANGED <<service, intf, arrived>>
    BY DEF ReaderStep, ReaderTake, ReaderTest, ReaderLoad, ReaderStore, ReaderReadHeader,
           ReaderReadBody, ReaderFrame, chipVars, pinVars, busVars
  <1>2. /\ Len(delivered) \in Nat /\ rxSem \in Nat /\ Holds \in Nat
        /\ Len(delivered') \in Nat /\ rxSem' \in Nat
    BY CountsType DEF TypeOK
  <1>3. Len(delivered') + rxSem' + Holds' = Len(delivered) + rxSem + Holds
    <2>. USE <1>2 DEF Holds, TypeOK, ReaderLocals
    <2>1. CASE ReaderTake
      BY <2>1 DEF ReaderTake
    <2>2. CASE ReaderTest
      BY <2>2 DEF ReaderTest
    <2>3. CASE ReaderLoad
      BY <2>3 DEF ReaderLoad
    <2>4. CASE ReaderStore
      BY <2>4 DEF ReaderStore
    <2>5. CASE ReaderReadHeader
      BY <2>5 DEF ReaderReadHeader
    <2>6. CASE ReaderReadBody
      <3>1. Len(delivered') = Len(delivered) + 1
        BY <2>6 DEF ReaderReadBody
      <3>. QED BY <2>6, <3>1 DEF ReaderReadBody, AtTake
    <2>. QED BY <2>1, <2>2, <2>3, <2>4, <2>5, <2>6 DEF ReaderStep
  <1>4. Due(0)' = Due(0) /\ Due(1)' = Due(1)
    BY <1>1 DEF Due, Owes, Waits, WillClear, Flagged
  <1>5. Holds' \in Nat /\ Due(0) \in Nat /\ Due(1) \in Nat /\ arrived \in Nat
    BY DueType, CountsType DEF Holds, Buffers
  <1>6. FramesCounted'
    BY <1>1, <1>2, <1>3, <1>4, <1>5 DEF FramesCounted, ReadInv
  <1>. QED BY <1>1, <1>6 DEF ReadInv, ServiceRests

LEMMA OthersCount ==
  ASSUME TypeOK, TypeOK', ReadInv, BringUp \/ IrqHandler \/ SendCall \/ SenderStep \/ UNCHANGED vars
  PROVE  ReadInv'
  <1>1. UNCHANGED <<service, delivered, reader, rxSem, arrived>> /\ intf' \subseteq intf
    <2>1. CASE BringUp
      BY <2>1 DEF BringUp, InitCreate, InitReset, InitClearInterrupts, InitRegisterIrq,
                  InitEnableInterrupts, InitNormalMode, chipVars, pinVars, busVars, shared, semVars
    <2>2. CASE IrqHandler
      BY <2>2 DEF IrqHandler, busVars, appVars
    <2>3. CASE SendCall \/ SenderStep
      BY <2>3 DEF SendCall, SenderStep, SendWait, SendMark, SendHeader, SendBody, SendStart,
                  SenderFrame, pinVars, busVars
    <2>4. CASE UNCHANGED vars
      BY <2>4 DEF vars, chipVars, pinVars, busVars, shared, semVars
    <2>. QED BY <2>1, <2>2, <2>3, <2>4
  <1>2. \A b \in Buffers : Due(b)' <= Due(b)
    BY <1>1 DEF Due, Owes, Waits, WillClear, Flagged
  <1>. QED BY <1>1, <1>2, NothingAdded DEF ReadInv, ServiceRests

LEMMA ReadInvAlways == Spec => [](TypeOK /\ ReadInv)
  <1>1. Init => ReadInv
    <2>. SUFFICES ASSUME Init PROVE ReadInv
      OBVIOUS
    <2>1. service = [AtPoll EXCEPT !.pc = "gate"] /\ intf = {} /\ rxSem = 0 /\ arrived = 0
          /\ delivered = << >> /\ reader = AtTake
      BY DEF Init, ChipInit
    <2>2. \A b \in Buffers : Due(b) = 0
      BY <2>1 DEF Due, Owes, Waits, Flagged, AtPoll
    <2>3. Holds = 0 /\ Len(delivered) = 0
      BY <2>1 DEF Holds, AtTake
    <2>4. service.buf = 0
      BY <2>1 DEF AtPoll
    <2>. QED BY <2>1, <2>2, <2>3, <2>4 DEF ReadInv, ServiceRests, FramesCounted, Buffers
  <1>2. TypeOK /\ ReadInv /\ [Next]_vars => TypeOK' /\ ReadInv'
    <2>. SUFFICES ASSUME TypeOK, ReadInv, [Next]_vars PROVE TypeOK' /\ ReadInv'
      OBVIOUS
    <2>1. TypeOK'
      BY StepType
    <2>. QED
      BY <2>1, ChipCounts, ServiceCounts, ReaderCounts, OthersCount DEF Next, Service, Users
  <1>. QED BY <1>1, <1>2, InitType, PTL DEF Spec

(* rxReadInTask never returns more often than frames came in, whatever the *)
(* burst, the overruns, the errors and the start: every token and every    *)
(* call stands for a flag that a frame of its own had raised               *)
(* (mcp2515Task.cpp:69-81, 98-121).                                        *)
THEOREM ReadsNeverOutnumberFrames == Spec => []ReadsAreFrames
  <1>1. TypeOK /\ ReadInv => ReadsAreFrames
    <2>. SUFFICES ASSUME TypeOK, ReadInv PROVE ReadsAreFrames
      OBVIOUS
    <2>1. Due(0) \in Nat /\ Due(1) \in Nat
      BY DueType DEF Buffers
    <2>2. Len(delivered) \in Nat /\ rxSem \in Nat /\ Holds \in Nat /\ arrived \in Nat
      BY CountsType
    <2>3. Len(delivered) + rxSem + Holds <= arrived
      BY <2>1, <2>2 DEF ReadInv, FramesCounted
    <2>. QED BY <2>3 DEF ReadsAreFrames, Holds
  <1>. QED BY <1>1, ReadInvAlways, PTL

-----------------------------------------------------------------------------
(* Paced by the driver, at most one frame is under way, and the pending    *)
(* bit, the buffer and the locals of both tasks agree on it.               *)
Unstored(b) ==
  WillClear(b) \/ (service.pc \in {"rxLoad", "rxStore"} /\ service.buf = b)

OneAtATime == arrived <= Len(delivered) + 1

InBuffer ==
  /\ \A b \in Buffers : Owes(b) \/ Waits(b) => rxb[b] = arrived
  /\ \A b \in pendingRx : rxb[b] = arrived
  /\ reader.pc \in {"hdr", "body"} => rxb[reader.buf] = arrived
  /\ reader.pc = "body" => reader.hdr = arrived

PendingBits ==
  /\ \A b \in Buffers : Owes(b) => pendingRx = IF Unstored(b) THEN {} ELSE {b}
  /\ rxSem > 0 \/ reader.pc \in {"test", "load", "store"} => \E b \in Buffers : pendingRx = {b}
  /\ reader.pc \in {"load", "store"} => pendingRx = {reader.buf}
  /\ reader.pc = "store" => reader.mask = {reader.buf}
  /\ (rxSem = 0 /\ reader.pc \in {"take", "hdr", "body"} /\ \A b \in Buffers : ~Owes(b))
       => pendingRx = {}
  /\ service.pc \in {"rxLoad", "rxStore"} => Flagged(service.buf)
  /\ service.pc = "rxStore" => service.mask = {}

InOrder == \A i \in 1..Len(delivered) : delivered[i] = [hdr |-> i, body |-> i]

MailInv == OneAtATime /\ InBuffer /\ PendingBits /\ InOrder

(* At most one of the places where a frame can be under way is taken. *)
Idle == \A b \in Buffers : ~Owes(b) /\ ~Waits(b)

LEMMA OnePlace ==
  ASSUME TypeOK, ReadInv, OneAtATime
  PROVE  /\ rxSem > 0 => reader.pc = "take" /\ rxSem = 1 /\ Idle
         /\ reader.pc # "take" => rxSem = 0 /\ Idle /\ arrived = Len(delivered) + 1
         /\ \A b \in Buffers :
              Owes(b) \/ Waits(b) =>
                /\ rxSem = 0 /\ reader.pc = "take" /\ ~(Owes(b) /\ Waits(b))
                /\ \A c \in Buffers : c # b => ~Owes(c) /\ ~Waits(c)
         /\ Len(delivered) = arrived => rxSem = 0 /\ reader.pc = "take" /\ Idle
  <1>1. Len(delivered) \in Nat /\ rxSem \in Nat /\ arrived \in Nat
    BY CountsType
  <1>2. Due(0) \in Nat /\ Due(1) \in Nat /\ Holds \in 0..1
    BY DueType DEF Holds, Buffers
  <1>3. /\ Len(delivered) + rxSem + Holds + Due(0) + Due(1) <= arrived
        /\ arrived <= Len(delivered) + 1
    BY DEF ReadInv, FramesCounted, OneAtATime
  <1>4. rxSem + Holds + Due(0) + Due(1) <= arrived - Len(delivered)
    BY <1>1, <1>2, <1>3
  <1>5. \A b \in Buffers :
          /\ Due(b) = 0 => ~Owes(b) /\ ~Waits(b)
          /\ Due(b) <= 1 => ~(Owes(b) /\ Waits(b))
          /\ Owes(b) \/ Waits(b) => Due(b) >= 1
    BY DEF Due
  <1>6. Due(0) = 0 /\ Due(1) = 0 => Idle
    BY <1>5 DEF Idle, Buffers
  <1>7. reader.pc = "take" <=> Holds = 0
    BY DEF Holds
  <1>8. rxSem > 0 => reader.pc = "take" /\ rxSem = 1 /\ Idle
    BY <1>1, <1>2, <1>3, <1>4, <1>6, <1>7
  <1>9. reader.pc # "take" => rxSem = 0 /\ Idle /\ arrived = Len(delivered) + 1
    BY <1>1, <1>2, <1>3, <1>4, <1>6, <1>7
  <1>10. ASSUME NEW b \in Buffers, Owes(b) \/ Waits(b)
         PROVE  /\ rxSem = 0 /\ reader.pc = "take" /\ ~(Owes(b) /\ Waits(b))
                /\ \A c \in Buffers : c # b => ~Owes(c) /\ ~Waits(c)
    <2>1. Due(b) >= 1
      BY <1>5, <1>10
    <2>2. CASE b = 0
      <3>1. rxSem = 0 /\ Holds = 0 /\ Due(1) = 0 /\ Due(0) <= 1
        BY <1>1, <1>2, <1>3, <1>4, <2>1, <2>2
      <3>. QED BY <1>5, <1>7, <2>2, <3>1 DEF Buffers
    <2>3. CASE b = 1
      <3>1. rxSem = 0 /\ Holds = 0 /\ Due(0) = 0 /\ Due(1) <= 1
        BY <1>1, <1>2, <1>3, <1>4, <2>1, <2>3
      <3>. QED BY <1>5, <1>7, <2>3, <3>1 DEF Buffers
    <2>. QED BY <2>2, <2>3 DEF Buffers
  <1>11. Len(delivered) = arrived => rxSem = 0 /\ reader.pc = "take" /\ Idle
    BY <1>1, <1>2, <1>4, <1>6, <1>7
  <1>. QED BY <1>8, <1>9, <1>10, <1>11

LEMMA WillClearOwes == \A b \in Buffers : WillClear(b) => Owes(b)
  BY DEF WillClear, Owes

(* A step that moves no frame keeps the agreement. *)
LEMMA MailKept ==
  ASSUME MailInv, UNCHANGED <<rxb, arrived, delivered, reader, rxSem, pendingRx>>,
         \A b \in Buffers :
           /\ Owes(b)' <=> Owes(b)
           /\ Waits(b)' => Waits(b)
           /\ Owes(b) => (Unstored(b)' <=> Unstored(b)),
         service'.pc \in {"rxLoad", "rxStore"} => Flagged(service.buf)',
         service'.pc = "rxStore" => service'.mask = {}
  PROVE  MailInv'
  <1>1. OneAtATime' /\ InOrder'
    BY DEF MailInv, OneAtATime, InOrder
  <1>2. InBuffer'
    BY DEF MailInv, InBuffer
  <1>3. PendingBits'
    BY DEF MailInv, PendingBits
  <1>. QED BY <1>1, <1>2, <1>3 DEF MailInv

LEMMA ServiceMail ==
  ASSUME TypeOK, ReadInv, MailInv, ServiceStep
  PROVE  MailInv'
  <1>. USE ServiceFields
       DEF ServiceAt, ServiceGoto, AtPoll, Flagged, RxFlag, Buffers, ServiceLocals
  <1>1. CASE ServiceGate
    <2>1. /\ UNCHANGED <<intf, rxb, arrived, delivered, reader, rxSem, pendingRx>>
          /\ \A b \in Buffers :
               /\ Owes(b)' <=> Owes(b)
               /\ WillClear(b)' <=> WillClear(b)
          /\ service'.pc \notin {"rxLoad", "rxStore"} /\ service.pc \notin {"rxLoad", "rxStore"}
      BY <1>1 DEF ServiceGate, Owes, WillClear, chipVars, regVars, pinVars, busVars, shared, semVars,
                  pendVars, appVars
    <2>. QED BY <2>1, MailKept DEF Unstored, Waits
  <1>2. CASE ServicePoll
    <2>1. /\ UNCHANGED <<intf, rxb, arrived, delivered, reader, rxSem, pendingRx>>
          /\ \A b \in Buffers :
               /\ Owes(b)' <=> Owes(b)
               /\ WillClear(b)' <=> WillClear(b)
          /\ service'.pc \notin {"rxLoad", "rxStore"} /\ service.pc \notin {"rxLoad", "rxStore"}
      BY <1>2 DEF ServicePoll, Owes, WillClear, chipVars, regVars, pinVars, busVars, shared, semVars,
                  pendVars, appVars
    <2>. QED BY <2>1, MailKept DEF Unstored, Waits
  <1>3. CASE ServiceReadEflg
    <2>1. /\ UNCHANGED <<intf, rxb, arrived, delivered, reader, rxSem, pendingRx>>
          /\ \A b \in Buffers :
               /\ Owes(b)' <=> Owes(b)
               /\ WillClear(b)' <=> WillClear(b)
          /\ service'.pc \notin {"rxLoad", "rxStore"} /\ service.pc \notin {"rxLoad", "rxStore"}
      BY <1>3 DEF ServiceReadEflg, Owes, WillClear, chipVars, regVars, pinVars, busVars, shared, semVars,
                  pendVars, appVars
    <2>. QED BY <2>1, MailKept DEF Unstored, Waits
  <1>4. CASE ServiceConfigMode
    <2>1. /\ UNCHANGED <<intf, rxb, arrived, delivered, reader, rxSem, pendingRx>>
          /\ \A b \in Buffers :
               /\ Owes(b)' <=> Owes(b)
               /\ WillClear(b)' <=> WillClear(b)
          /\ service'.pc \notin {"rxLoad", "rxStore"} /\ service.pc \notin {"rxLoad", "rxStore"}
      BY <1>4 DEF ServiceConfigMode, Owes, WillClear, chipVars, regVars, pinVars, busVars, shared, semVars,
                  pendVars, appVars
    <2>. QED BY <2>1, MailKept DEF Unstored, Waits
  <1>5. CASE ServiceNormalMode
    <2>1. /\ UNCHANGED <<intf, rxb, arrived, delivered, reader, rxSem, pendingRx>>
          /\ \A b \in Buffers :
               /\ Owes(b)' <=> Owes(b)
               /\ WillClear(b)' <=> WillClear(b)
          /\ service'.pc \notin {"rxLoad", "rxStore"} /\ service.pc \notin {"rxLoad", "rxStore"}
      BY <1>5 DEF ServiceNormalMode, Owes, WillClear, chipVars, regVars, pinVars, busVars, shared, semVars,
                  pendVars, appVars
    <2>. QED BY <2>1, MailKept DEF Unstored, Waits
  <1>6. CASE ServiceErrorPending
    <2>1. /\ UNCHANGED <<intf, rxb, arrived, delivered, reader, rxSem, pendingRx>>
          /\ \A b \in Buffers :
               /\ Owes(b)' <=> Owes(b)
               /\ WillClear(b)' <=> WillClear(b)
          /\ service'.pc \notin {"rxLoad", "rxStore"} /\ service.pc \notin {"rxLoad", "rxStore"}
      BY <1>6 DEF ServiceErrorPending, Owes, WillClear, chipVars, regVars, pinVars, busVars, shared, semVars,
                  pendVars, appVars
    <2>. QED BY <2>1, MailKept DEF Unstored, Waits
  <1>7. CASE ServiceErrorGive
    <2>1. /\ UNCHANGED <<intf, rxb, arrived, delivered, reader, rxSem, pendingRx>>
          /\ \A b \in Buffers :
               /\ Owes(b)' <=> Owes(b)
               /\ WillClear(b)' <=> WillClear(b)
          /\ service'.pc \notin {"rxLoad", "rxStore"} /\ service.pc \notin {"rxLoad", "rxStore"}
      BY <1>7 DEF ServiceErrorGive, Owes, WillClear, chipVars, regVars, pinVars, busVars, shared, semVars,
                  pendVars, appVars
    <2>. QED BY <2>1, MailKept DEF Unstored, Waits
  <1>8. CASE ServiceGiveTx
    <2>1. /\ UNCHANGED <<intf, rxb, arrived, delivered, reader, rxSem, pendingRx>>
          /\ \A b \in Buffers :
               /\ Owes(b)' <=> Owes(b)
               /\ WillClear(b)' <=> WillClear(b)
          /\ service'.pc \notin {"rxLoad", "rxStore"} /\ service.pc \notin {"rxLoad", "rxStore"}
      BY <1>8 DEF ServiceGiveTx, Owes, WillClear, chipVars, regVars, pinVars, busVars, shared, semVars,
                  pendVars, appVars
    <2>. QED BY <2>1, MailKept DEF Unstored, Waits
  <1>9. CASE ServiceWait
    <2>1. /\ UNCHANGED <<intf, rxb, arrived, delivered, reader, rxSem, pendingRx>>
          /\ \A b \in Buffers :
               /\ Owes(b)' <=> Owes(b)
               /\ WillClear(b)' <=> WillClear(b)
          /\ service'.pc \notin {"rxLoad", "rxStore"} /\ service.pc \notin {"rxLoad", "rxStore"}
      BY <1>9 DEF ServiceWait, Owes, WillClear, chipVars, regVars, pinVars, busVars, shared, semVars,
                  pendVars, appVars
    <2>. QED BY <2>1, MailKept DEF Unstored, Waits
  <1>10. CASE ServiceTxPending
    <2>1. /\ UNCHANGED <<intf, rxb, arrived, delivered, reader, rxSem, pendingRx>>
          /\ \A b \in Buffers :
               /\ Owes(b)' <=> Owes(b)
               /\ WillClear(b)' <=> WillClear(b)
          /\ service'.pc \notin {"rxLoad", "rxStore"} /\ service.pc \notin {"rxLoad", "rxStore"}
      BY <1>10 DEF ServiceTxPending, Owes, WillClear, chipVars, regVars, pinVars, busVars, shared, semVars,
                  pendVars, appVars
    <2>. QED BY <2>1, MailKept DEF Unstored, Waits
  <1>11. CASE ServiceClearErrors
    <2>1. /\ UNCHANGED <<rxb, arrived, delivered, reader, rxSem, pendingRx>> /\ intf' \subseteq intf
          /\ \A b \in Buffers :
               /\ Owes(b)' <=> Owes(b)
               /\ ~WillClear(b)' /\ ~WillClear(b)
          /\ service'.pc \notin {"rxLoad", "rxStore"} /\ service.pc \notin {"rxLoad", "rxStore"}
      BY <1>11 DEF ServiceClearErrors, ClearFlag, Owes, WillClear, regVars, pinVars, busVars, shared, semVars,
                  pendVars, appVars
    <2>. QED BY <2>1, MailKept DEF Unstored, Waits
  <1>12. CASE ServiceClearTx
    <2>1. /\ UNCHANGED <<rxb, arrived, delivered, reader, rxSem, pendingRx>> /\ intf' \subseteq intf
          /\ service.pc = "txClear"
          /\ \/ service' = [service EXCEPT !.pc = "txPending"]
             \/ service' = [service EXCEPT !.pc = "rxGive", !.buf = 0]
      BY <1>12 DEF ServiceClearTx, ClearFlag, regVars, pinVars, busVars, shared, semVars,
                   pendVars, appVars
    <2>2. \A b \in Buffers :
            /\ Owes(b)' <=> Owes(b)
            /\ ~WillClear(b)' /\ ~WillClear(b)
      <3>1. CASE service' = [service EXCEPT !.pc = "txPending"]
        BY <2>1, <3>1 DEF Owes, WillClear
      <3>2. CASE service' = [service EXCEPT !.pc = "rxGive", !.buf = 0]
        <4>1. service'.pc = "rxGive" /\ service'.buf = 0 /\ service'.flags = service.flags
          BY <3>2
        <4>. QED BY <2>1, <4>1 DEF Owes, WillClear
      <3>. QED BY <2>1, <3>1, <3>2
    <2>3. service'.pc \notin {"rxLoad", "rxStore"}
      BY <2>1
    <2>. QED BY <2>1, <2>2, <2>3, MailKept DEF Unstored, Waits
  <1>13. CASE ServiceRead
    <2>1. /\ UNCHANGED <<intf, rxb, arrived, delivered, reader, rxSem, pendingRx>>
          /\ \A b \in Buffers :
               /\ ~Owes(b) /\ ~WillClear(b)
               /\ Owes(b)' => Waits(b) /\ WillClear(b)'
               /\ Waits(b)' => Waits(b)
          /\ service'.pc \notin {"rxLoad", "rxStore"}
      BY <1>13 DEF ServiceRead, Owes, WillClear, Waits, ReadInv, ServiceRests, chipVars, regVars,
                  pinVars, busVars, shared, semVars, pendVars, appVars
    <2>2. \A b \in Buffers : Waits(b) => rxSem = 0 /\ reader.pc = "take"
      BY OnePlace DEF MailInv
    <2>3. \A b \in Buffers : Waits(b) => pendingRx = {} /\ rxb[b] = arrived
      BY <2>1, <2>2 DEF MailInv, PendingBits, InBuffer
    <2>4. OneAtATime' /\ InOrder'
      BY <2>1 DEF MailInv, OneAtATime, InOrder
    <2>5. InBuffer'
      BY <2>1, <2>3 DEF MailInv, InBuffer
    <2>6. PendingBits'
      BY <2>1, <2>3 DEF MailInv, PendingBits, Unstored
    <2>. QED BY <2>4, <2>5, <2>6 DEF MailInv
  <1>14. CASE ServiceClearRx
    <2>. PICK c \in Buffers : service.buf = c
      OBVIOUS
    <2>1. /\ UNCHANGED <<rxb, arrived, delivered, reader, rxSem, pendingRx>> /\ service.pc = "rxClear"
          /\ \/ Flagged(c) /\ service' = [service EXCEPT !.pc = "rxLoad"] /\ intf' = intf \ {RxFlag(c)}
             \/ ~Flagged(c) /\ service' = AfterRx(service) /\ intf' = intf
      BY <1>14 DEF ServiceClearRx, ClearFlag, regVars, pinVars, busVars, shared, semVars,
                  pendVars, appVars
    <2>2. \A b \in Buffers : Owes(b)' <=> Owes(b)
      BY <2>1 DEF Owes, AfterRx
    <2>3. CASE Flagged(c)
      <3>1. service' = [service EXCEPT !.pc = "rxLoad"] /\ intf' = intf \ {RxFlag(c)}
        BY <2>1, <2>3
      <3>2. \A b \in Buffers : (Waits(b)' => Waits(b)) /\ (Owes(b) => (Unstored(b)' <=> Unstored(b)))
        BY <2>1, <3>1 DEF Waits, WillClear, Owes, Unstored
      <3>3. service'.pc = "rxLoad" /\ Flagged(service.buf)'
        BY <2>1, <2>3, <3>1
      <3>. QED BY <2>1, <2>2, <3>2, <3>3, MailKept
    <2>4. CASE ~Flagged(c)
      <3>1. service' = AfterRx(service) /\ intf' = intf
        BY <2>1, <2>4
      <3>2. \A b \in Buffers : WillClear(b)' <=> WillClear(b)
        BY <2>1, <2>4, <3>1 DEF WillClear, AfterRx
      <3>3. service'.pc \notin {"rxLoad", "rxStore"}
        BY <3>1 DEF AfterRx
      <3>4. \A b \in Buffers : (Waits(b)' => Waits(b)) /\ (Owes(b) => (Unstored(b)' <=> Unstored(b)))
        BY <2>1, <3>1, <3>2, <3>3 DEF Waits, Unstored
      <3>. QED BY <2>1, <2>2, <3>3, <3>4, MailKept
    <2>. QED BY <2>3, <2>4
  <1>15. CASE ServiceLoadPending
    <2>1. /\ UNCHANGED <<intf, rxb, arrived, delivered, reader, rxSem, pendingRx>>
          /\ service.pc = "rxLoad" /\ service' = [service EXCEPT !.mask = pendingRx, !.pc = "rxStore"]
      BY <1>15 DEF ServiceLoadPending, chipVars, regVars, pinVars, busVars, shared, semVars,
                  pendVars, appVars
    <2>2. Flagged(service.buf)
      BY <2>1 DEF MailInv, PendingBits
    <2>3. Owes(service.buf) /\ Unstored(service.buf)
      BY <2>1, <2>2 DEF Owes, Unstored
    <2>4. pendingRx = {}
      BY <2>3 DEF MailInv, PendingBits
    <2>5. \A b \in Buffers :
            /\ Owes(b)' <=> Owes(b)
            /\ Waits(b)' => Waits(b)
            /\ Unstored(b)' <=> Unstored(b)
      BY <2>1 DEF Owes, Waits, WillClear, Unstored
    <2>. QED BY <2>1, <2>2, <2>4, <2>5, MailKept
  <1>16. CASE ServiceStorePending
    <2>. PICK c \in Buffers : service.buf = c
      OBVIOUS
    <2>1. /\ UNCHANGED <<intf, rxb, arrived, delivered, reader, rxSem>>
          /\ service.pc = "rxStore" /\ service' = AfterRx(service)
          /\ pendingRx' = service.mask \cup {c}
      BY <1>16 DEF ServiceStorePending, chipVars, regVars, pinVars, busVars, shared, semVars,
                  pendVars, appVars
    <2>2. Flagged(c) /\ service.mask = {}
      BY <2>1 DEF MailInv, PendingBits
    <2>3. Owes(c)
      BY <2>1, <2>2 DEF Owes
    <2>4. /\ rxSem = 0 /\ reader.pc = "take" /\ ~Waits(c)
          /\ \A b \in Buffers : b # c => ~Owes(b) /\ ~Waits(b)
      BY <2>3, OnePlace DEF MailInv
    <2>5. rxb[c] = arrived /\ pendingRx' = {c}
      BY <2>1, <2>2, <2>3 DEF MailInv, InBuffer
    <2>6. /\ \A b \in Buffers : b # c => ~Owes(b)' /\ ~Waits(b)'
          /\ Owes(c)' /\ ~Waits(c)' /\ ~Unstored(c)'
          /\ service'.pc \notin {"rxLoad", "rxStore"}
      BY <2>1, <2>2, <2>4 DEF Owes, Waits, WillClear, Unstored, AfterRx
    <2>7. OneAtATime' /\ InOrder'
      BY <2>1 DEF MailInv, OneAtATime, InOrder
    <2>8. InBuffer'
      BY <2>1, <2>4, <2>5, <2>6 DEF MailInv, InBuffer
    <2>9. PendingBits'
      BY <2>1, <2>4, <2>5, <2>6 DEF PendingBits
    <2>. QED BY <2>7, <2>8, <2>9 DEF MailInv
  <1>17. CASE ServiceGiveRx
    <2>. PICK c \in Buffers : service.buf = c
      OBVIOUS
    <2>1. /\ UNCHANGED <<intf, rxb, arrived, delivered, reader, pendingRx>> /\ service.pc = "rxGive"
          /\ service' = IF c = 0 THEN [service EXCEPT !.buf = 1] ELSE [service EXCEPT !.pc = "txGive"]
          /\ rxSem' = IF Flagged(c) THEN Given(rxSem, 2) ELSE rxSem
      BY <1>17 DEF ServiceGiveRx, chipVars, regVars, pinVars, busVars, pendVars, appVars
    <2>2. \A b \in Buffers :
            /\ Owes(b)' <=> Owes(b) /\ b # c
            /\ Waits(b)' <=> Waits(b)
            /\ ~Unstored(b) /\ ~Unstored(b)'
      BY <2>1 DEF Owes, Waits, WillClear, Unstored
    <2>3. service'.pc \notin {"rxLoad", "rxStore"}
      BY <2>1
    <2>4. CASE ~Flagged(c)
      <3>1. ~Owes(c) /\ rxSem' = rxSem
        BY <2>1, <2>4 DEF Owes
      <3>. QED BY <2>1, <2>2, <2>3, <3>1, MailKept
    <2>5. CASE Flagged(c)
      <3>1. Owes(c)
        BY <2>1, <2>5 DEF Owes
      <3>2. /\ rxSem = 0 /\ reader.pc = "take" /\ \A b \in Buffers : ~Owes(b)' /\ ~Waits(b)'
        BY <2>2, <3>1, OnePlace DEF MailInv
      <3>3. pendingRx = {c}
        BY <2>2, <3>1 DEF MailInv, PendingBits
      <3>4. OneAtATime' /\ InOrder'
        BY <2>1 DEF MailInv, OneAtATime, InOrder
      <3>5. InBuffer'
        BY <2>1, <3>2 DEF MailInv, InBuffer
      <3>6. rxSem' = 1
        BY <2>1, <2>5, <3>2 DEF Given
      <3>7. PendingBits'
        BY <2>1, <2>3, <3>2, <3>3, <3>6 DEF PendingBits
      <3>. QED BY <3>4, <3>5, <3>7 DEF MailInv
    <2>. QED BY <2>4, <2>5
  <1>. QED
    BY <1>1, <1>2, <1>3, <1>4, <1>5, <1>6, <1>7, <1>8, <1>9, <1>10, <1>11, <1>12, <1>13, <1>14, <1>15, <1>16, <1>17
    DEF ServiceStep

(* A read under way, paced by the driver, returns the next frame. *)
ReadsNext ==
  /\ arrived = Len(delivered) + 1
  /\ delivered' = Append(delivered, [hdr |-> Len(delivered) + 1, body |-> Len(delivered) + 1])

LEMMA ReadBodyReadsNext ==
  ASSUME TypeOK, ReadInv, MailInv, ReaderReadBody
  PROVE  ReadsNext
  <1>1. reader.pc = "body"
    BY DEF ReaderReadBody
  <1>2. arrived = Len(delivered) + 1
    BY <1>1, OnePlace DEF MailInv
  <1>3. reader.hdr = arrived /\ rxb[reader.buf] = arrived
    BY <1>1 DEF MailInv, InBuffer
  <1>. QED BY <1>2, <1>3 DEF ReaderReadBody, ReadsNext

LEMMA ChipMail ==
  ASSUME TypeOK, ReadInv, MailInv, Chip, Pacing = "driver"
  PROVE  MailInv'
  <1>. USE DEF Chip, shared, semVars, pendVars
  <1>1. ASSUME NEW b \in Buffers, FrameArrives(b)
        PROVE  MailInv'
    <2>1. Len(delivered) = arrived
      BY <1>1 DEF FrameArrives, MayArrive
    <2>2. rxSem = 0 /\ reader.pc = "take" /\ Idle
      BY <2>1, OnePlace DEF MailInv
    <2>3. \A c \in Buffers : RxFlag(c) \notin intf
      BY <2>2, WillClearOwes DEF Idle, Waits
    <2>4. /\ UNCHANGED <<service, delivered, reader, rxSem, pendingRx>>
          /\ arrived' = arrived + 1 /\ intf' = intf \cup {RxFlag(b)}
          /\ rxb' = [rxb EXCEPT ![b] = arrived + 1]
      BY <1>1, <2>3 DEF FrameArrives, Raise
    <2>5. pendingRx = {}
      BY <2>2 DEF MailInv, PendingBits, Idle
    <2>6. \A c \in Buffers :
            /\ ~Owes(c)'
            /\ c # b => ~Waits(c)'
      BY <2>2, <2>3, <2>4 DEF Idle, Owes, Waits, RxFlag, Flagged, Buffers
    <2>7. rxb'[b] = arrived'
      BY <2>4 DEF TypeOK, ChipTypeOK
    <2>8. OneAtATime' /\ InOrder'
      BY <2>1, <2>4, CountsType DEF MailInv, OneAtATime, InOrder
    <2>9. InBuffer'
      BY <2>2, <2>4, <2>5, <2>6, <2>7 DEF InBuffer
    <2>10. PendingBits'
      BY <2>2, <2>4, <2>5, <2>6 DEF MailInv, PendingBits, Flagged
    <2>. QED BY <2>8, <2>9, <2>10 DEF MailInv
  <1>2. ASSUME UNCHANGED <<rxb, service, delivered, reader, rxSem, arrived, pendingRx>>,
               intf' \subseteq intf \cup {"TX0", "ERR"}
        PROVE  MailInv'
    <2>1. \A b \in Buffers :
            /\ Owes(b)' <=> Owes(b)
            /\ WillClear(b)' <=> WillClear(b)
            /\ Waits(b)' => Waits(b)
      BY <1>2 DEF Owes, Waits, WillClear, RxFlag, Flagged
    <2>2. /\ service'.pc \in {"rxLoad", "rxStore"} => Flagged(service.buf)'
          /\ service'.pc = "rxStore" => service'.mask = {}
      BY <1>2 DEF MailInv, PendingBits, Flagged
    <2>3. \A b \in Buffers : Unstored(b)' <=> Unstored(b)
      BY <1>2, <2>1 DEF Unstored
    <2>. QED BY <1>2, <2>1, <2>2, <2>3, MailKept
  <1>3. CASE TransmitDone \/ BusError \/ BusOffEnds
    BY <1>2, <1>3 DEF TransmitDone, BusError, BusOffEnds, Raise, regVars, pinVars, busVars
  <1>. QED BY <1>1, <1>3 DEF ChipStep

LEMMA ReaderMail ==
  ASSUME TypeOK, ReadInv, MailInv, ReaderStep
  PROVE  MailInv'
  <1>1. UNCHANGED <<service, intf, arrived, rxb>>
    BY DEF ReaderStep, ReaderTake, ReaderTest, ReaderLoad, ReaderStore, ReaderReadHeader,
           ReaderReadBody, ReaderFrame, chipVars, pinVars, busVars, regVars
  <1>2. rxSem > 0 \/ reader.pc # "take"
    BY DEF ReaderStep, ReaderTake, ReaderTest, ReaderLoad, ReaderStore, ReaderReadHeader,
           ReaderReadBody
  <1>3. Idle /\ rxSem \in Nat
    BY <1>2, OnePlace DEF MailInv, TypeOK
  <1>4. \A b \in Buffers : ~Owes(b)' /\ ~Waits(b)'
    BY <1>1, <1>3 DEF Idle, Owes, Waits, WillClear, Flagged
  <1>5. /\ service'.pc \in {"rxLoad", "rxStore"} => Flagged(service.buf)'
        /\ service'.pc = "rxStore" => service'.mask = {}
    BY <1>1 DEF MailInv, PendingBits, Flagged
  <1>. USE DEF ReaderLocals
  <1>6. CASE ReaderTake
    <2>1. /\ UNCHANGED <<pendingRx, delivered>> /\ reader' = [reader EXCEPT !.pc = "test"]
          /\ rxSem > 0 /\ rxSem' = rxSem - 1
      BY <1>6 DEF ReaderTake
    <2>2. \E b \in Buffers : pendingRx = {b}
      BY <2>1 DEF MailInv, PendingBits
    <2>3. reader'.pc = "test"
      BY <2>1 DEF TypeOK
    <2>4. OneAtATime' /\ InOrder' /\ InBuffer'
      BY <1>1, <1>4, <2>1, <2>3 DEF MailInv, OneAtATime, InOrder, InBuffer
    <2>5. PendingBits'
      BY <1>4, <1>5, <2>1, <2>2, <2>3 DEF PendingBits
    <2>. QED BY <2>4, <2>5 DEF MailInv
  <1>7. CASE ReaderTest
    <2>1. /\ UNCHANGED <<pendingRx, delivered, rxSem>> /\ reader.pc = "test"
          /\ reader' = [reader EXCEPT !.pc = "load", !.buf = IF 0 \in pendingRx THEN 0 ELSE 1]
      BY <1>7 DEF ReaderTest
    <2>2. \E b \in Buffers : pendingRx = {b}
      BY <2>1 DEF MailInv, PendingBits
    <2>3. reader'.pc = "load" /\ reader'.buf = IF 0 \in pendingRx THEN 0 ELSE 1
      BY <2>1 DEF TypeOK
    <2>4. pendingRx = {reader'.buf} /\ reader'.buf \in Buffers
      BY <2>2, <2>3 DEF Buffers
    <2>5. OneAtATime' /\ InOrder' /\ InBuffer'
      BY <1>1, <1>4, <2>1, <2>3 DEF MailInv, OneAtATime, InOrder, InBuffer
    <2>6. PendingBits'
      BY <1>4, <1>5, <2>1, <2>3, <2>4 DEF PendingBits
    <2>. QED BY <2>5, <2>6 DEF MailInv
  <1>8. CASE ReaderLoad
    <2>1. /\ UNCHANGED <<pendingRx, delivered, rxSem>> /\ reader.pc = "load"
          /\ reader' = [reader EXCEPT !.pc = "store", !.mask = pendingRx]
      BY <1>8 DEF ReaderLoad
    <2>2. pendingRx = {reader.buf}
      BY <2>1 DEF MailInv, PendingBits
    <2>3. reader'.pc = "store" /\ reader'.mask = pendingRx /\ reader'.buf = reader.buf
          /\ reader.buf \in Buffers
      BY <2>1 DEF TypeOK
    <2>4. OneAtATime' /\ InOrder' /\ InBuffer'
      BY <1>1, <1>4, <2>1, <2>3 DEF MailInv, OneAtATime, InOrder, InBuffer
    <2>5. PendingBits'
      BY <1>4, <1>5, <2>1, <2>2, <2>3 DEF PendingBits
    <2>. QED BY <2>4, <2>5 DEF MailInv
  <1>9. CASE ReaderStore
    <2>1. /\ UNCHANGED <<delivered, rxSem>> /\ reader.pc = "store"
          /\ pendingRx' = reader.mask \ {reader.buf}
          /\ reader' = [reader EXCEPT !.pc = "hdr", !.mask = {}]
      BY <1>9 DEF ReaderStore
    <2>2. pendingRx = {reader.buf} /\ reader.mask = {reader.buf}
      BY <2>1 DEF MailInv, PendingBits
    <2>3. reader'.pc = "hdr" /\ reader'.buf = reader.buf /\ pendingRx' = {}
      BY <2>1, <2>2 DEF TypeOK
    <2>4. rxSem = 0
      BY <2>1, OnePlace DEF MailInv
    <2>5. rxb[reader.buf] = arrived
      BY <2>2 DEF MailInv, InBuffer
    <2>6. OneAtATime' /\ InOrder' /\ InBuffer'
      BY <1>1, <1>4, <2>1, <2>3, <2>5 DEF MailInv, OneAtATime, InOrder, InBuffer
    <2>7. PendingBits'
      BY <1>4, <1>5, <2>1, <2>3, <2>4 DEF PendingBits
    <2>. QED BY <2>6, <2>7 DEF MailInv
  <1>10. CASE ReaderReadHeader
    <2>1. /\ UNCHANGED <<delivered, rxSem, pendingRx>> /\ reader.pc = "hdr"
          /\ reader' = [reader EXCEPT !.pc = "body", !.hdr = rxb[reader.buf]]
      BY <1>10 DEF ReaderReadHeader
    <2>2. rxb[reader.buf] = arrived
      BY <2>1 DEF MailInv, InBuffer
    <2>3. reader'.pc = "body" /\ reader'.buf = reader.buf /\ reader'.hdr = arrived
      BY <2>1, <2>2 DEF TypeOK
    <2>4. rxSem = 0
      BY <2>1, OnePlace DEF MailInv
    <2>5. OneAtATime' /\ InOrder' /\ InBuffer'
      BY <1>1, <1>4, <2>1, <2>2, <2>3 DEF MailInv, OneAtATime, InOrder, InBuffer
    <2>6. PendingBits'
      BY <1>3, <1>4, <1>5, <2>1, <2>3, <2>4 DEF MailInv, PendingBits, Idle
    <2>. QED BY <2>5, <2>6 DEF MailInv
  <1>11. CASE ReaderReadBody
    <2>1. ReadsNext
      BY <1>11, ReadBodyReadsNext
    <2>2. /\ UNCHANGED <<rxSem, pendingRx>> /\ reader.pc = "body" /\ reader'.pc = "take"
      BY <1>11 DEF ReaderReadBody, AtTake
    <2>3. rxSem = 0
      BY <2>2, OnePlace DEF MailInv
    <2>4. pendingRx = {}
      BY <1>3, <2>2, <2>3 DEF MailInv, PendingBits, Idle
    <2>5. OneAtATime' /\ InOrder'
      <3>1. Len(delivered') = Len(delivered) + 1 /\ Len(delivered) \in Nat
        BY <2>1 DEF ReadsNext, TypeOK
      <3>2. \A i \in 1..Len(delivered') :
              delivered'[i] = IF i = Len(delivered) + 1
                                THEN [hdr |-> Len(delivered) + 1, body |-> Len(delivered) + 1]
                                ELSE delivered[i]
        BY <2>1, <3>1 DEF ReadsNext, TypeOK
      <3>3. \A i \in 1..Len(delivered) : delivered[i] = [hdr |-> i, body |-> i]
        BY DEF MailInv, InOrder
      <3>. QED BY <1>1, <2>1, <3>1, <3>2, <3>3, CountsType DEF ReadsNext, OneAtATime, InOrder
    <2>6. InBuffer'
      BY <1>1, <1>4, <2>2, <2>4 DEF InBuffer
    <2>7. PendingBits'
      BY <1>4, <1>5, <2>2, <2>3, <2>4 DEF PendingBits
    <2>. QED BY <2>5, <2>6, <2>7 DEF MailInv
  <1>. QED BY <1>6, <1>7, <1>8, <1>9, <1>10, <1>11 DEF ReaderStep

LEMMA OthersMail ==
  ASSUME TypeOK, MailInv, BringUp \/ IrqHandler \/ SendCall \/ SenderStep \/ UNCHANGED vars
  PROVE  MailInv'
  <1>1. UNCHANGED <<rxb, service, delivered, reader, rxSem, arrived, pendingRx>> /\ intf' \subseteq intf
    <2>1. CASE BringUp
      BY <2>1 DEF BringUp, InitCreate, InitReset, InitClearInterrupts, InitRegisterIrq, regVars,
                  InitEnableInterrupts, InitNormalMode, chipVars, pinVars, busVars, shared, semVars, pendVars
    <2>2. CASE IrqHandler
      BY <2>2 DEF IrqHandler, busVars, appVars, regVars, pendVars
    <2>3. CASE SendCall \/ SenderStep
      BY <2>3 DEF SendCall, SenderStep, SendWait, SendMark, SendHeader, SendBody, SendStart,
                  SenderFrame, pinVars, busVars
    <2>4. CASE UNCHANGED vars
      BY <2>4 DEF vars, chipVars, pinVars, busVars, regVars, shared, semVars, pendVars
    <2>. QED BY <2>1, <2>2, <2>3, <2>4
  <1>2. \A b \in Buffers :
          /\ Owes(b)' <=> Owes(b)
          /\ Waits(b)' => Waits(b)
          /\ Unstored(b)' <=> Unstored(b)
    BY <1>1 DEF Owes, Waits, WillClear, Unstored, Flagged
  <1>3. /\ service'.pc \in {"rxLoad", "rxStore"} => Flagged(service.buf)'
        /\ service'.pc = "rxStore" => service'.mask = {}
    BY <1>1 DEF MailInv, PendingBits, Flagged
  <1>. QED BY <1>1, <1>2, <1>3, MailKept

LEMMA MailInvAlways ==
  ASSUME Pacing = "driver"
  PROVE  Spec => [](TypeOK /\ ReadInv /\ MailInv)
  <1>1. Init => MailInv
    <2>. SUFFICES ASSUME Init PROVE MailInv
      OBVIOUS
    <2>1. service = [AtPoll EXCEPT !.pc = "gate"] /\ intf = {} /\ rxSem = 0 /\ arrived = 0
          /\ delivered = << >> /\ reader = AtTake /\ pendingRx = {}
      BY DEF Init, ChipInit
    <2>2. service.pc = "gate" /\ reader.pc = "take"
      BY <2>1 DEF AtPoll, AtTake
    <2>3. \A b \in Buffers : ~Owes(b) /\ ~Waits(b)
      BY <2>1, <2>2 DEF Owes, Waits
    <2>. QED
      BY <2>1, <2>2, <2>3 DEF MailInv, OneAtATime, InBuffer, PendingBits, InOrder
  <1>2. TypeOK /\ ReadInv /\ MailInv /\ [Next]_vars => MailInv'
    BY ChipMail, ServiceMail, ReaderMail, OthersMail DEF Next, Service, Users
  <1>. QED BY <1>1, <1>2, ReadInvAlways, PTL DEF Spec

(* What each step means to the mailbox. *)
LEMMA MailboxSteps ==
  ASSUME TypeOK, ReadInv, MailInv, [Next]_vars
  PROVE  \/ arrived' = arrived + 1 /\ delivered' = delivered
         \/ ReadsNext /\ arrived' = arrived
         \/ UNCHANGED <<arrived, delivered>>
  <1>1. ASSUME Chip
        PROVE  (arrived' = arrived + 1 \/ arrived' = arrived) /\ delivered' = delivered
    BY <1>1 DEF Chip, ChipStep, FrameArrives, TransmitDone, BusError, BusOffEnds, busVars
  <1>2. ASSUME IrqHandler
        PROVE  UNCHANGED <<arrived, delivered>>
    BY <1>2 DEF IrqHandler, busVars, appVars
  <1>3. ASSUME ServiceStep
        PROVE  UNCHANGED <<arrived, delivered>>
    BY <1>3
    DEF ServiceStep, ServiceGate, ServicePoll, ServiceRead, ServiceReadEflg, ServiceClearErrors,
        ServiceConfigMode, ServiceNormalMode, ServiceErrorPending, ServiceErrorGive,
        ServiceClearRx, ServiceLoadPending, ServiceStorePending, ServiceClearTx,
        ServiceTxPending, ServiceGiveRx, ServiceGiveTx, ServiceWait, chipVars, busVars, appVars
  <1>4. ASSUME BringUp \/ SendCall \/ SenderStep
        PROVE  UNCHANGED <<arrived, delivered>>
    BY <1>4
    DEF BringUp, InitCreate, InitReset, InitClearInterrupts, InitRegisterIrq,
        InitEnableInterrupts, InitNormalMode, SendCall, SenderStep, SendWait, SendMark,
        SendHeader, SendBody, SendStart, SenderFrame, chipVars, busVars
  <1>5. ASSUME ReaderStep, ~ReaderReadBody
        PROVE  UNCHANGED <<arrived, delivered>>
    BY <1>5 DEF ReaderStep, ReaderTake, ReaderTest, ReaderLoad, ReaderStore, ReaderReadHeader,
                ReaderFrame, chipVars, busVars
  <1>6. ASSUME ReaderReadBody
        PROVE  ReadsNext /\ arrived' = arrived
    BY <1>6, ReadBodyReadsNext DEF ReaderReadBody, ReaderFrame, chipVars, busVars
  <1>7. CASE UNCHANGED vars
    BY <1>7 DEF vars, chipVars, busVars
  <1>. QED BY <1>1, <1>2, <1>3, <1>4, <1>5, <1>6, <1>7 DEF Next, Service, Users

(* The frames handed over, as the mailbox sees them. *)
WholeFrames == [i \in 1..Len(delivered) |-> Whole(delivered[i])]

LEMMA WholeFramesGrow ==
  ASSUME TypeOK, InOrder, ReadsNext
  PROVE  /\ Len(WholeFrames) = Len(delivered)
         /\ WholeFrames' = Append(WholeFrames, Len(WholeFrames) + 1)
  <1>. DEFINE n == Len(delivered)
  <1>1. n \in Nat
    BY DEF TypeOK
  <1>2. WholeFrames = [i \in 1..n |-> i]
    <2>1. ASSUME NEW i \in 1..n
          PROVE  Whole(delivered[i]) = i
      <3>1. delivered[i] = [hdr |-> i, body |-> i]
        BY DEF InOrder
      <3>. QED BY <3>1 DEF Whole
    <2>. QED BY <2>1 DEF WholeFrames
  <1>3. Len(delivered') = n + 1
    BY DEF ReadsNext, TypeOK
  <1>4. \A i \in 1..(n + 1) : Whole(delivered'[i]) = i
    <2>1. ASSUME NEW i \in 1..n
          PROVE  delivered'[i] = [hdr |-> i, body |-> i]
      <3>1. delivered'[i] = delivered[i]
        BY DEF ReadsNext, TypeOK
      <3>2. delivered[i] = [hdr |-> i, body |-> i]
        BY DEF InOrder
      <3>. QED BY <3>1, <3>2
    <2>2. delivered'[n + 1] = [hdr |-> n + 1, body |-> n + 1]
      BY DEF ReadsNext, TypeOK
    <2>3. ASSUME NEW i \in 1..(n + 1)
          PROVE  delivered'[i] = [hdr |-> i, body |-> i]
      <3>1. CASE i = n + 1
        BY <2>2, <3>1
      <3>2. CASE i # n + 1
        <4>1. i \in 1..n
          BY <1>1, <3>2
        <4>. QED BY <2>1, <4>1
      <3>. QED BY <3>1, <3>2
    <2>4. ASSUME NEW i \in 1..(n + 1)
          PROVE  Whole(delivered'[i]) = i
      <3>1. delivered'[i] = [hdr |-> i, body |-> i]
        BY <2>3
      <3>. QED BY <3>1 DEF Whole
    <2>. QED BY <2>4
  <1>5. WholeFrames' = [i \in 1..(n + 1) |-> i]
    BY <1>3, <1>4 DEF WholeFrames
  <1>. HIDE DEF n
  <1>6. Len([i \in 1..n |-> i]) = n /\ [i \in 1..n |-> i] \in Seq(Nat)
    BY <1>1
  <1>7. Append([i \in 1..n |-> i], n + 1) = [i \in 1..(n + 1) |-> i]
    BY <1>1, <1>6
  <1>8. Len(WholeFrames) = n /\ WholeFrames' = Append(WholeFrames, Len(WholeFrames) + 1)
    BY <1>2, <1>5, <1>6, <1>7
  <1>. QED BY <1>8 DEF n

(* Paced by the driver, rxReadInTask hands over each frame once, complete  *)
(* and in order: the receive side implements the mailbox, step by step,    *)
(* for any number of frames and errors and on one core or two              *)
(* (mcp2515Task.cpp:69-81, 98-121).                                        *)
THEOREM DriverIsMailbox ==
  ASSUME Pacing = "driver"
  PROVE  Spec => Mailbox!Spec
  <1>. DEFINE view == <<arrived, WholeFrames>>
  <1>1. Init => Mailbox!Init
    <2>. SUFFICES ASSUME Init PROVE arrived = 0 /\ WholeFrames = << >>
      BY DEF Mailbox!Init, WholeFrames
    <2>1. arrived = 0 /\ delivered = << >>
      BY DEF Init, ChipInit
    <2>2. WholeFrames = << >>
      BY <2>1 DEF WholeFrames
    <2>. QED BY <2>1, <2>2
  <1>2. TypeOK /\ ReadInv /\ MailInv /\ [Next]_vars => [Mailbox!Next]_view
    <2>. SUFFICES ASSUME TypeOK, ReadInv, MailInv, [Next]_vars
                  PROVE  [Mailbox!Next]_view
      OBVIOUS
    <2>1. CASE arrived' = arrived + 1 /\ delivered' = delivered
      <3>1. WholeFrames' = WholeFrames
        BY <2>1 DEF WholeFrames
      <3>2. Mailbox!Receive
        BY <2>1, <3>1 DEF Mailbox!Receive, WholeFrames
      <3>. QED BY <3>2 DEF Mailbox!Next
    <2>2. CASE ReadsNext /\ arrived' = arrived
      <3>1. /\ Len(WholeFrames) = Len(delivered)
            /\ WholeFrames' = Append(WholeFrames, Len(WholeFrames) + 1)
        BY <2>2, WholeFramesGrow DEF MailInv
      <3>2. Len(WholeFrames) < arrived
        BY <2>2, <3>1, CountsType DEF ReadsNext
      <3>3. Mailbox!Read
        BY <2>2, <3>1, <3>2 DEF Mailbox!Read, WholeFrames
      <3>. QED BY <3>3 DEF Mailbox!Next
    <2>3. CASE UNCHANGED <<arrived, delivered>>
      BY <2>3 DEF WholeFrames
    <2>. QED BY <2>1, <2>2, <2>3, MailboxSteps
  <1>3. Mailbox!Spec <=> Mailbox!Init /\ [][Mailbox!Next]_view
    BY DEF Mailbox!Spec, WholeFrames
  <1>. QED BY <1>1, <1>2, <1>3, MailInvAlways, PTL DEF Spec

-----------------------------------------------------------------------------
(* Sending: without a gap and without an error, the token of the last      *)
(* frame is in exactly one place: in the chip, on its way through          *)
(* canService, or in _txSemaphore.                                         *)
ErrorLabels == {"eflg", "errClear", "config", "normal", "errPending", "errGive"}

Quiet == errors = 0 => "ERR" \notin intf /\ service.pc \notin ErrorLabels

TxSeen == "TX0" \in service.flags
TxWaits ==
  /\ "TX0" \in intf
  /\ ~(TxSeen /\ service.pc \in {"rxClear", "rxLoad", "rxStore", "txClear"})
TxOwed ==
  /\ TxSeen
  /\ service.pc \in {"rxClear", "rxLoad", "rxStore", "txClear", "txPending", "rxGive", "txGive"}

TokenPlaces ==
  (IF txreq THEN 1 ELSE 0) + (IF TxWaits THEN 1 ELSE 0) + (IF TxOwed THEN 1 ELSE 0) + txSem

OneToken ==
  TokenPlaces = IF sender \in {"idle", "wait"} /\ sent > 0 THEN 1 ELSE 0

TxbFilled ==
  /\ sender \in {"body", "start"} => txb.hdr = sent + 1
  /\ sender = "start" => txb.body = sent + 1
  /\ txreq => txb = [hdr |-> sent, body |-> sent]

BusSoFar ==
  /\ Len(onBus) = sent - (IF txreq THEN 1 ELSE 0)
  /\ BusCarriesSends

SendInv == ~gap /\ errors = 0 => OneToken /\ TxbFilled /\ BusSoFar

(* Nobody sends before the chip is up. *)
SendReady == sender # "idle" \/ sent > 0 => init = "done"

(* A frame that finds its buffer full is an error of its own. *)
LEMMA CountedOverflow ==
  ASSUME TypeOK, NEW b \in Buffers, FrameArrives(b), errors' = 0
  PROVE  RxFlag(b) \notin intf
  <1>1. errors \in Nat
    BY DEF TypeOK, ChipTypeOK
  <1>2. RxFlag(b) \in intf => errors' = errors + 1
    BY DEF FrameArrives
  <1>. QED BY <1>1, <1>2

LEMMA QuietStep ==
  ASSUME TypeOK, Quiet, [Next]_vars
  PROVE  Quiet'
  <1>. SUFFICES ASSUME errors' = 0
                PROVE  "ERR" \notin intf' /\ service'.pc \notin ErrorLabels
    BY DEF Quiet
  <1>1. ASSUME Chip
        PROVE  "ERR" \notin intf' /\ service'.pc \notin ErrorLabels
    <2>1. service' = service /\ ChipStep
      BY <1>1 DEF Chip
    <2>2. ASSUME NEW b \in Buffers, FrameArrives(b)
          PROVE  errors = 0 /\ intf' = intf \cup {RxFlag(b)}
      <3>1. RxFlag(b) \notin intf
        BY <2>2, CountedOverflow
      <3>2. errors' = errors /\ Raise(RxFlag(b))
        BY <2>2, <3>1 DEF FrameArrives
      <3>. QED BY <3>2 DEF Raise
    <2>3. CASE \E b \in Buffers : FrameArrives(b)
      BY <2>1, <2>2, <2>3 DEF RxFlag, Quiet
    <2>4. CASE TransmitDone
      <3>1. errors = 0 /\ intf' = intf \cup {"TX0"}
        BY <2>4 DEF TransmitDone, Raise
      <3>. QED BY <2>1, <3>1 DEF Quiet
    <2>5. ~BusError
      <3>1. errors \in Nat
        BY DEF TypeOK, ChipTypeOK
      <3>2. BusError => errors' = errors + 1
        BY DEF BusError
      <3>. QED BY <3>1, <3>2
    <2>6. CASE BusOffEnds
      <3>1. errors = 0 /\ intf' = intf
        BY <2>6 DEF BusOffEnds, pinVars, busVars
      <3>. QED BY <2>1, <3>1 DEF Quiet
    <2>. QED BY <2>1, <2>3, <2>4, <2>5, <2>6 DEF ChipStep
  <1>2. ASSUME ServiceStep
        PROVE  "ERR" \notin intf' /\ service'.pc \notin ErrorLabels
    <2>1. errors = 0 /\ intf' \subseteq intf
      BY <1>2
      DEF ServiceStep, ServiceGate, ServicePoll, ServiceRead, ServiceReadEflg, ServiceClearErrors,
          ServiceConfigMode, ServiceNormalMode, ServiceErrorPending, ServiceErrorGive,
          ServiceClearRx, ServiceLoadPending, ServiceStorePending, ServiceClearTx, ServiceTxPending,
          ServiceGiveRx, ServiceGiveTx, ServiceWait, ClearFlag, chipVars, pinVars, busVars
    <2>2. "ERR" \notin intf /\ service.pc \notin ErrorLabels
      BY <2>1 DEF Quiet
    <2>3. service'.pc \notin ErrorLabels
      <3>. USE <2>2, ServiceFields DEF ServiceAt, ServiceGoto, AtPoll, AfterRx, ServiceLocals, ErrorLabels
      <3>1. CASE ServiceGate
        BY <3>1 DEF ServiceGate
      <3>2. CASE ServicePoll
        BY <3>2 DEF ServicePoll
      <3>3. CASE ServiceRead
        BY <3>3 DEF ServiceRead
      <3>4. CASE ServiceClearRx
        BY <3>4 DEF ServiceClearRx
      <3>5. CASE ServiceLoadPending
        BY <3>5 DEF ServiceLoadPending
      <3>6. CASE ServiceStorePending
        BY <3>6 DEF ServiceStorePending
      <3>7. CASE ServiceClearTx
        BY <3>7 DEF ServiceClearTx
      <3>8. CASE ServiceTxPending
        BY <3>8 DEF ServiceTxPending
      <3>9. CASE ServiceGiveRx
        BY <3>9 DEF ServiceGiveRx
      <3>10. CASE ServiceGiveTx
        BY <3>10 DEF ServiceGiveTx
      <3>11. CASE ServiceWait
        BY <3>11 DEF ServiceWait
      <3>. QED
        BY <1>2, <3>1, <3>2, <3>3, <3>4, <3>5, <3>6, <3>7, <3>8, <3>9, <3>10, <3>11
        DEF ServiceStep, ServiceReadEflg, ServiceClearErrors, ServiceConfigMode, ServiceNormalMode,
            ServiceErrorPending, ServiceErrorGive
    <2>. QED BY <2>1, <2>2, <2>3
  <1>3. ASSUME BringUp \/ IrqHandler \/ ReaderStep \/ SendCall \/ SenderStep \/ UNCHANGED vars
        PROVE  errors' = errors /\ intf' \subseteq intf /\ service' = service
    <2>1. CASE BringUp
      BY <2>1 DEF BringUp, InitCreate, InitReset, InitClearInterrupts, InitRegisterIrq,
                  InitEnableInterrupts, InitNormalMode, chipVars, pinVars, busVars
    <2>2. CASE IrqHandler
      BY <2>2 DEF IrqHandler, busVars, appVars
    <2>3. CASE ReaderStep
      BY <2>3 DEF ReaderStep, ReaderTake, ReaderTest, ReaderLoad, ReaderStore, ReaderReadHeader,
                  ReaderReadBody, ReaderFrame, chipVars, pinVars, busVars
    <2>4. CASE SendCall \/ SenderStep
      BY <2>4 DEF SendCall, SenderStep, SendWait, SendMark, SendHeader, SendBody, SendStart,
                  SenderFrame, pinVars, busVars
    <2>5. CASE UNCHANGED vars
      BY <2>5 DEF vars, chipVars, pinVars, busVars
    <2>. QED BY <1>3, <2>1, <2>2, <2>3, <2>4, <2>5
  <1>. QED BY <1>1, <1>2, <1>3 DEF Quiet, Next, Service, Users

LEMMA SendReadyStep ==
  ASSUME TypeOK, SendReady, [Next]_vars
  PROVE  SendReady'
  <1>1. ASSUME Chip \/ IrqHandler \/ ServiceStep \/ ReaderStep \/ UNCHANGED vars
        PROVE  UNCHANGED <<sender, sent, init>>
    <2>1. CASE Chip \/ IrqHandler \/ UNCHANGED vars
      BY <2>1 DEF Chip, IrqHandler, vars, sendVars, appVars
    <2>2. CASE ServiceStep
      BY <2>2
      DEF ServiceStep, ServiceGate, ServicePoll, ServiceRead, ServiceReadEflg, ServiceClearErrors,
          ServiceConfigMode, ServiceNormalMode, ServiceErrorPending, ServiceErrorGive,
          ServiceClearRx, ServiceLoadPending, ServiceStorePending, ServiceClearTx, ServiceTxPending,
          ServiceGiveRx, ServiceGiveTx, ServiceWait, sendVars, appVars
    <2>3. CASE ReaderStep
      BY <2>3 DEF ReaderStep, ReaderTake, ReaderTest, ReaderLoad, ReaderStore, ReaderReadHeader,
                  ReaderReadBody, ReaderFrame, sendVars
    <2>. QED BY <1>1, <2>1, <2>2, <2>3
  <1>2. CASE BringUp
    BY <1>2 DEF BringUp, InitCreate, InitReset, InitClearInterrupts, InitRegisterIrq, Bringing,
                InitEnableInterrupts, InitNormalMode, sendVars, SendReady
  <1>3. CASE SendCall \/ SenderStep
    BY <1>3 DEF SendCall, SenderStep, SendWait, SendMark, SendHeader, SendBody, SendStart,
                SenderFrame, SendReady
  <1>. QED BY <1>1, <1>2, <1>3 DEF SendReady, Next, Service, Users

-----------------------------------------------------------------------------
(* A step that leaves the token where it is. *)
LEMMA TokenKept ==
  ASSUME SendInv, UNCHANGED <<txreq, txSem, txb, onBus, sendVars, errors>>,
         TxWaits' <=> TxWaits, TxOwed' <=> TxOwed
  PROVE  SendInv'
  BY DEF SendInv, OneToken, TokenPlaces, TxbFilled, BusSoFar, BusCarriesSends, sendVars

TxClears == TxSeen /\ service.pc \in {"rxClear", "rxLoad", "rxStore", "txClear"}

LEMMA TokenType == TypeOK => txSem \in 0..1 /\ sent \in Nat
  BY DEF TypeOK

LEMMA ServiceSends ==
  ASSUME TypeOK, Quiet, SendInv, ServiceStep
  PROVE  SendInv'
  <1>. SUFFICES ASSUME ~gap', errors' = 0 PROVE (OneToken /\ TxbFilled /\ BusSoFar)'
    BY DEF SendInv
  <1>1. UNCHANGED <<txreq, txb, onBus, sendVars, errors>>
    BY DEF ServiceStep, ServiceGate, ServicePoll, ServiceRead, ServiceReadEflg, ServiceClearErrors,
          ServiceConfigMode, ServiceNormalMode, ServiceErrorPending, ServiceErrorGive,
          ServiceClearRx, ServiceLoadPending, ServiceStorePending, ServiceClearTx, ServiceTxPending,
          ServiceGiveRx, ServiceGiveTx, ServiceWait, chipVars, regVars, busVars, appVars
  <1>2. "ERR" \notin intf /\ service.pc \notin ErrorLabels /\ OneToken /\ TxbFilled /\ BusSoFar
    BY <1>1 DEF Quiet, SendInv, sendVars
  <1>3. ASSUME UNCHANGED txSem, TxWaits' <=> TxWaits, TxOwed' <=> TxOwed
        PROVE  SendInv'
    BY <1>1, <1>3, TokenKept
  <1>. USE ServiceFields DEF ServiceAt, ServiceGoto, ServiceLocals
  <1>4. CASE ServiceGate
    <2>1. UNCHANGED <<txSem, intf>> /\ (TxOwed' <=> TxOwed) /\ (TxClears' <=> TxClears)
      BY <1>4 DEF ServiceGate, TxSeen, TxOwed, TxClears, AfterRx, chipVars, pinVars, shared, semVars
    <2>. QED BY <1>3, <2>1 DEF TxWaits, TxClears, SendInv
  <1>5. CASE ServicePoll
    <2>1. UNCHANGED <<txSem, intf>> /\ (TxOwed' <=> TxOwed) /\ (TxClears' <=> TxClears)
      BY <1>5 DEF ServicePoll, TxSeen, TxOwed, TxClears, AfterRx, chipVars, pinVars, shared, semVars
    <2>. QED BY <1>3, <2>1 DEF TxWaits, TxClears, SendInv
  <1>6. CASE ServiceWait
    <2>1. UNCHANGED <<txSem, intf>> /\ (TxOwed' <=> TxOwed) /\ (TxClears' <=> TxClears)
      BY <1>6 DEF ServiceWait, TxSeen, TxOwed, TxClears, AfterRx, chipVars, pinVars, shared, semVars
    <2>. QED BY <1>3, <2>1 DEF TxWaits, TxClears, SendInv
  <1>7. CASE ServiceLoadPending
    <2>1. UNCHANGED <<txSem, intf>> /\ (TxOwed' <=> TxOwed) /\ (TxClears' <=> TxClears)
      BY <1>7 DEF ServiceLoadPending, TxSeen, TxOwed, TxClears, AfterRx, chipVars, pinVars, shared, semVars
    <2>. QED BY <1>3, <2>1 DEF TxWaits, TxClears, SendInv
  <1>8. CASE ServiceStorePending
    <2>1. UNCHANGED <<txSem, intf>> /\ (TxOwed' <=> TxOwed) /\ (TxClears' <=> TxClears)
      BY <1>8 DEF ServiceStorePending, TxSeen, TxOwed, TxClears, AfterRx, chipVars, pinVars, shared, semVars
    <2>. QED BY <1>3, <2>1 DEF TxWaits, TxClears, SendInv
  <1>9. CASE ServiceTxPending
    <2>1. UNCHANGED <<txSem, intf>> /\ (TxOwed' <=> TxOwed) /\ (TxClears' <=> TxClears)
      BY <1>9 DEF ServiceTxPending, TxSeen, TxOwed, TxClears, AfterRx, chipVars, pinVars, shared, semVars
    <2>. QED BY <1>3, <2>1 DEF TxWaits, TxClears, SendInv
  <1>10. CASE ServiceRead
    <2>1. /\ UNCHANGED <<txSem, intf>> /\ service.pc = "read"
          /\ service'.pc = "rxClear" /\ service'.flags = intf
      BY <1>2, <1>10 DEF ServiceRead, chipVars, pinVars, shared, semVars
    <2>2. /\ TxWaits <=> "TX0" \in intf
          /\ ~TxOwed /\ ~TxWaits' /\ (TxOwed' <=> "TX0" \in intf)
      BY <2>1 DEF TxWaits, TxOwed, TxSeen
    <2>. QED
      BY <1>1, <1>2, <2>1, <2>2
      DEF OneToken, TokenPlaces, TxbFilled, BusSoFar, BusCarriesSends, sendVars
  <1>11. CASE ServiceClearRx
    <2>1. UNCHANGED txSem /\ ("TX0" \in intf' <=> "TX0" \in intf)
      BY <1>11 DEF ServiceClearRx, ClearFlag, RxFlag, pinVars, shared, semVars
    <2>2. /\ service.pc = "rxClear" /\ service'.flags = service.flags
          /\ service'.pc \in {"rxLoad", "rxClear", "txClear"}
      BY <1>11 DEF ServiceClearRx, AfterRx
    <2>3. (TxOwed' <=> TxOwed) /\ (TxClears' <=> TxClears)
      BY <2>2 DEF TxSeen, TxOwed, TxClears
    <2>. QED BY <1>3, <2>1, <2>3 DEF TxWaits, TxClears, SendInv
  <1>12. CASE ServiceClearTx
    <2>1. /\ UNCHANGED txSem /\ service.pc = "txClear" /\ service'.flags = service.flags
          /\ service'.pc \in {"txPending", "rxGive"}
          /\ intf' = IF TxSeen THEN intf \ {"TX0"} ELSE intf
      BY <1>12 DEF ServiceClearTx, ClearFlag, TxSeen, pinVars, shared, semVars
    <2>2. (TxOwed' <=> TxOwed) /\ (TxWaits' <=> TxWaits)
      BY <2>1 DEF TxSeen, TxOwed, TxWaits
    <2>. QED BY <1>3, <2>1, <2>2 DEF SendInv
  <1>13. CASE ServiceGiveRx
    <2>1. /\ UNCHANGED <<txSem, intf>> /\ service.pc = "rxGive" /\ service'.flags = service.flags
          /\ service'.pc \in {"rxGive", "txGive"}
      BY <1>13 DEF ServiceGiveRx, chipVars, pinVars
    <2>2. (TxOwed' <=> TxOwed) /\ (TxWaits' <=> TxWaits)
      BY <2>1 DEF TxSeen, TxOwed, TxWaits
    <2>. QED BY <1>3, <2>1, <2>2 DEF SendInv
  <1>14. CASE ServiceGiveTx
    <2>1. /\ intf' = intf /\ service.pc = "txGive" /\ service'.pc = "poll"
          /\ txSem' = IF TxSeen THEN Given(txSem, 1) ELSE txSem
      BY <1>14 DEF ServiceGiveTx, AtPoll, TxSeen, chipVars, pinVars
    <2>2. (TxOwed <=> TxSeen) /\ ~TxOwed' /\ (TxWaits' <=> TxWaits)
      BY <2>1 DEF TxSeen, TxOwed, TxWaits
    <2>3. TxSeen => txSem = 0
      BY <1>2, <2>2, TokenType DEF OneToken, TokenPlaces
    <2>4. txSem' = txSem + (IF TxSeen THEN 1 ELSE 0)
      BY <2>1, <2>3, TokenType DEF Given
    <2>5. TokenPlaces' = TokenPlaces
      BY <1>1, <2>2, <2>4, TokenType DEF TokenPlaces
    <2>. QED
      BY <1>1, <1>2, <2>5 DEF OneToken, TxbFilled, BusSoFar, BusCarriesSends, sendVars
  <1>. QED
    BY <1>1, <1>2, <1>4, <1>5, <1>6, <1>7, <1>8, <1>9, <1>10, <1>11, <1>12, <1>13, <1>14
    DEF ServiceStep, ErrorLabels, SendInv, ServiceReadEflg, ServiceClearErrors, ServiceConfigMode,
        ServiceNormalMode, ServiceErrorPending, ServiceErrorGive

LEMMA ChipSends ==
  ASSUME TypeOK, SendInv, Chip
  PROVE  SendInv'
  <1>. SUFFICES ASSUME ~gap', errors' = 0 PROVE (OneToken /\ TxbFilled /\ BusSoFar)'
    BY DEF SendInv
  <1>1. UNCHANGED <<txSem, service, sendVars>> /\ ChipStep
    BY DEF Chip, shared, semVars
  <1>2. ASSUME NEW b \in Buffers, FrameArrives(b)
        PROVE  /\ UNCHANGED <<txreq, txb, onBus, errors>>
               /\ "TX0" \in intf' <=> "TX0" \in intf
    <2>1. RxFlag(b) \notin intf
      BY <1>2, CountedOverflow
    <2>2. UNCHANGED <<txreq, txb, onBus, errors>> /\ Raise(RxFlag(b))
      BY <1>2, <2>1 DEF FrameArrives
    <2>. QED BY <2>2 DEF Raise, RxFlag
  <1>3. CASE \E b \in Buffers : FrameArrives(b)
    <2>1. UNCHANGED <<txreq, txb, onBus, errors>> /\ ("TX0" \in intf' <=> "TX0" \in intf)
      BY <1>2, <1>3
    <2>2. (TxWaits' <=> TxWaits) /\ (TxOwed' <=> TxOwed)
      BY <1>1, <2>1 DEF TxWaits, TxOwed, TxSeen
    <2>. QED BY <1>1, <2>1, <2>2, TokenKept DEF SendInv
  <1>4. CASE BusOffEnds
    <2>1. UNCHANGED <<txreq, txb, onBus, errors, intf>>
      BY <1>4 DEF BusOffEnds, pinVars, regVars, busVars
    <2>2. (TxWaits' <=> TxWaits) /\ (TxOwed' <=> TxOwed)
      BY <1>1, <2>1 DEF TxWaits, TxOwed, TxSeen
    <2>. QED BY <1>1, <2>1, <2>2, TokenKept DEF SendInv
  <1>5. CASE BusError
    <2>1. errors \in Nat /\ errors' = errors + 1
      BY <1>5 DEF BusError, TypeOK, ChipTypeOK
    <2>. QED BY <2>1
  <1>6. CASE TransmitDone
    <2>1. /\ txreq /\ ~txreq' /\ txb' = txb /\ errors' = errors
          /\ onBus' = Append(onBus, txb) /\ intf' = intf \cup {"TX0"}
      BY <1>6 DEF TransmitDone, Raise
    <2>2. OneToken /\ TxbFilled /\ BusSoFar /\ sent \in Nat
      BY <1>1, <2>1, TokenType DEF SendInv, sendVars
    <2>3. ~TxWaits /\ ~TxOwed /\ txSem = 0 /\ sender \in {"idle", "wait"} /\ sent > 0
      <3>1. TokenPlaces = 1 + (IF TxWaits THEN 1 ELSE 0) + (IF TxOwed THEN 1 ELSE 0) + txSem
        BY <2>1 DEF TokenPlaces
      <3>2. TokenPlaces >= 1 /\ (TokenPlaces = 1 => ~TxWaits /\ ~TxOwed /\ txSem = 0)
        BY <3>1, TokenType
      <3>3. TokenPlaces = 1 /\ sender \in {"idle", "wait"} /\ sent > 0
        BY <2>2, <3>2 DEF OneToken
      <3>. QED BY <3>2, <3>3
    <2>4. TxWaits' /\ ~TxOwed'
      BY <1>1, <2>1, <2>3 DEF TxWaits, TxOwed, TxSeen
    <2>5. TokenPlaces' = 1
      BY <1>1, <2>1, <2>3, <2>4 DEF TokenPlaces
    <2>6. OneToken'
      BY <1>1, <2>3, <2>5 DEF OneToken, sendVars
    <2>7. TxbFilled'
      BY <1>1, <2>1, <2>2 DEF TxbFilled, sendVars
    <2>8. /\ txb = [hdr |-> sent, body |-> sent] /\ Len(onBus) = sent - 1 /\ BusCarriesSends
          /\ onBus \in Seq([hdr : Nat, body : Nat]) /\ txb \in [hdr : Nat, body : Nat]
      BY <2>1, <2>2 DEF TxbFilled, BusSoFar, TypeOK, ChipTypeOK
    <2>9. Len(onBus') = sent /\ (\A n \in 1..(sent - 1) : onBus'[n] = onBus[n]) /\ onBus'[sent] = txb
      BY <2>1, <2>2, <2>8
    <2>10. ASSUME NEW n \in 1..Len(onBus')
           PROVE  onBus'[n] = [hdr |-> n, body |-> n]
      <3>1. CASE n = sent
        BY <2>8, <2>9, <3>1
      <3>2. CASE n # sent
        <4>1. n \in 1..Len(onBus)
          BY <2>2, <2>8, <2>9, <3>2
        <4>. QED BY <2>8, <2>9, <4>1 DEF BusCarriesSends
      <3>. QED BY <3>1, <3>2
    <2>11. BusCarriesSends'
      BY <2>10 DEF BusCarriesSends
    <2>12. BusSoFar'
      BY <1>1, <2>1, <2>2, <2>9, <2>11 DEF BusSoFar, sendVars
    <2>. QED BY <2>6, <2>7, <2>12
  <1>. QED BY <1>1, <1>3, <1>4, <1>5, <1>6 DEF ChipStep

LEMMA SenderSends ==
  ASSUME TypeOK, SendInv, SendCall \/ SenderStep
  PROVE  SendInv'
  <1>. SUFFICES ASSUME ~gap', errors' = 0 PROVE (OneToken /\ TxbFilled /\ BusSoFar)'
    BY DEF SendInv
  <1>1. UNCHANGED <<intf, service, onBus, errors>>
    BY DEF SendCall, SenderStep, SendWait, SendMark, SendHeader, SendBody, SendStart, SenderFrame,
           pinVars, busVars
  <1>2. gap' = (gap \/ (sent > 0 /\ ~pendingTx)) \/ gap' = gap
    BY DEF SendCall, SenderStep, SendWait, SendMark, SendHeader, SendBody, SendStart
  <1>3. OneToken /\ TxbFilled /\ BusSoFar
    BY <1>1, <1>2 DEF SendInv
  <1>4. (TxWaits' <=> TxWaits) /\ (TxOwed' <=> TxOwed)
    BY <1>1 DEF TxWaits, TxOwed, TxSeen
  <1>5. sent \in Nat /\ txSem \in 0..1 /\ txb \in [hdr : Nat, body : Nat]
    BY DEF TypeOK, ChipTypeOK
  <1>6. ASSUME UNCHANGED <<txreq, sent>>
        PROVE  BusSoFar'
    BY <1>1, <1>3, <1>6 DEF BusSoFar, BusCarriesSends
  <1>7. sender \in {"mark", "hdr", "body", "start"} => TokenPlaces = 0
    BY <1>3 DEF OneToken
  <1>8. TokenPlaces = 0 => ~txreq /\ ~TxWaits /\ ~TxOwed /\ txSem = 0
    BY <1>5 DEF TokenPlaces
  <1>9. ASSUME UNCHANGED <<txreq, txSem>>
        PROVE  TokenPlaces' = TokenPlaces
    BY <1>4, <1>9 DEF TokenPlaces
  <1>10. CASE SendCall
    <2>1. /\ UNCHANGED <<txreq, txSem, txb, sent>> /\ sender = "idle"
          /\ sender' = IF pendingTx THEN "wait" ELSE "mark"
          /\ gap' = (gap \/ (sent > 0 /\ ~pendingTx))
      BY <1>10 DEF SendCall
    <2>2. sender' \in {"idle", "wait"} \/ sent = 0
      <3>1. ~(sent > 0 /\ ~pendingTx)
        BY <2>1, Zenon
      <3>2. pendingTx => sender' = "wait"
        BY <2>1
      <3>. QED BY <1>5, <3>1, <3>2
    <2>3. OneToken'
      BY <1>3, <1>5, <1>9, <2>1, <2>2 DEF OneToken
    <2>4. TxbFilled'
      BY <1>3, <2>1 DEF TxbFilled
    <2>. QED BY <1>6, <2>1, <2>3, <2>4
  <1>11. CASE SendWait
    <2>1. /\ UNCHANGED <<txreq, txb, sent>> /\ sender = "wait" /\ sender' = "mark"
          /\ txSem = 1 /\ txSem' = 0
      BY <1>11 DEF SendWait
    <2>2. ~txreq /\ ~TxWaits /\ ~TxOwed
      BY <1>3, <2>1 DEF OneToken, TokenPlaces
    <2>3. OneToken'
      BY <1>4, <2>1, <2>2 DEF OneToken, TokenPlaces
    <2>4. TxbFilled'
      BY <1>3, <2>1 DEF TxbFilled
    <2>. QED BY <1>6, <2>1, <2>3, <2>4
  <1>12. CASE SendMark
    <2>1. UNCHANGED <<txreq, txSem, txb, sent>> /\ sender = "mark" /\ sender' = "hdr"
      BY <1>12 DEF SendMark
    <2>2. OneToken'
      BY <1>3, <1>7, <1>9, <2>1 DEF OneToken
    <2>3. TxbFilled'
      BY <1>3, <2>1 DEF TxbFilled
    <2>. QED BY <1>6, <2>1, <2>2, <2>3
  <1>13. CASE SendHeader
    <2>1. /\ UNCHANGED <<txreq, txSem, sent>> /\ sender = "hdr" /\ sender' = "body"
          /\ WriteTxb("hdr", sent + 1)
      BY <1>13 DEF SendHeader
    <2>2. ~txreq
      BY <1>7, <1>8, <2>1
    <2>3. txb' = [txb EXCEPT !.hdr = sent + 1]
      BY <2>1, <2>2 DEF WriteTxb
    <2>4. OneToken'
      BY <1>7, <1>9, <2>1 DEF OneToken
    <2>5. TxbFilled'
      BY <1>5, <2>1, <2>2, <2>3 DEF TxbFilled
    <2>. QED BY <1>6, <2>1, <2>4, <2>5
  <1>14. CASE SendBody
    <2>1. /\ UNCHANGED <<txreq, txSem, sent>> /\ sender = "body" /\ sender' = "start"
          /\ WriteTxb("body", sent + 1)
      BY <1>14 DEF SendBody
    <2>2. ~txreq /\ txb.hdr = sent + 1
      BY <1>3, <1>7, <1>8, <2>1 DEF TxbFilled
    <2>3. txb' = [txb EXCEPT !.body = sent + 1]
      BY <2>1, <2>2 DEF WriteTxb
    <2>4. OneToken'
      BY <1>7, <1>9, <2>1 DEF OneToken
    <2>5. TxbFilled'
      BY <1>5, <2>1, <2>2, <2>3 DEF TxbFilled
    <2>. QED BY <1>6, <2>1, <2>4, <2>5
  <1>15. CASE SendStart
    <2>1. /\ UNCHANGED <<txSem, txb>> /\ sender = "start" /\ sender' = "idle"
          /\ txreq' = TRUE /\ sent' = sent + 1
      BY <1>15 DEF SendStart
    <2>2. /\ ~txreq /\ ~TxWaits /\ ~TxOwed /\ txSem = 0
          /\ txb.hdr = sent + 1 /\ txb.body = sent + 1
      BY <1>3, <1>7, <1>8, <2>1 DEF TxbFilled
    <2>3. OneToken'
      BY <1>4, <1>5, <2>1, <2>2 DEF OneToken, TokenPlaces
    <2>4. txb' = [hdr |-> sent + 1, body |-> sent + 1]
      BY <1>5, <2>1, <2>2
    <2>5. TxbFilled'
      BY <2>1, <2>4 DEF TxbFilled
    <2>6. BusSoFar'
      BY <1>1, <1>3, <1>5, <2>1, <2>2 DEF BusSoFar, BusCarriesSends
    <2>. QED BY <2>3, <2>5, <2>6
  <1>. QED BY <1>10, <1>11, <1>12, <1>13, <1>14, <1>15 DEF SenderStep

LEMMA OthersSend ==
  ASSUME TypeOK, SendInv, SendReady, BringUp \/ IrqHandler \/ ReaderStep \/ UNCHANGED vars
  PROVE  SendInv'
  <1>1. UNCHANGED <<txreq, txSem, txb, onBus, sendVars, errors, service>>
    <2>1. CASE BringUp
      BY <2>1 DEF BringUp, InitCreate, InitReset, InitClearInterrupts, InitRegisterIrq,
                  InitEnableInterrupts, InitNormalMode, chipVars, regVars, busVars, shared, semVars
    <2>2. CASE IrqHandler
      BY <2>2 DEF IrqHandler, regVars, busVars, appVars
    <2>3. CASE ReaderStep
      BY <2>3 DEF ReaderStep, ReaderTake, ReaderTest, ReaderLoad, ReaderStore, ReaderReadHeader,
                  ReaderReadBody, ReaderFrame, chipVars, regVars, busVars
    <2>4. CASE UNCHANGED vars
      BY <2>4 DEF vars, chipVars, regVars, busVars, shared, semVars
    <2>. QED BY <2>1, <2>2, <2>3, <2>4
  <1>2. TxOwed' <=> TxOwed
    BY <1>1 DEF TxOwed, TxSeen
  <1>3. ASSUME intf' = intf
        PROVE  SendInv'
    <2>1. TxWaits' <=> TxWaits
      BY <1>1, <1>3 DEF TxWaits, TxSeen
    <2>. QED BY <1>1, <1>2, <2>1, TokenKept
  <1>4. CASE InitClearInterrupts
    <2>. SUFFICES ASSUME ~gap, errors = 0 PROVE SendInv'
      BY <1>1 DEF SendInv, sendVars
    <2>1. intf' = {} /\ init # "done"
      BY <1>4 DEF InitClearInterrupts, Bringing
    <2>2. sender = "idle" /\ ~(sent > 0)
      BY <2>1 DEF SendReady
    <2>3. TokenPlaces = 0
      BY <2>2 DEF SendInv, OneToken
    <2>4. ~TxWaits
      BY <2>3, TokenType DEF TokenPlaces
    <2>5. ~TxWaits'
      BY <2>1 DEF TxWaits
    <2>. QED BY <1>1, <1>2, <2>4, <2>5, TokenKept
  <1>5. CASE ~InitClearInterrupts
    <2>1. intf' = intf
      <3>1. CASE BringUp
        BY <1>5, <3>1 DEF BringUp, InitCreate, InitReset, InitRegisterIrq,
                          InitEnableInterrupts, InitNormalMode, chipVars, pinVars
      <3>2. CASE IrqHandler \/ UNCHANGED vars
        BY <3>2 DEF IrqHandler, vars, chipVars, pinVars
      <3>3. CASE ReaderStep
        BY <3>3 DEF ReaderStep, ReaderTake, ReaderTest, ReaderLoad, ReaderStore, ReaderReadHeader,
                    ReaderReadBody, ReaderFrame, chipVars, pinVars
      <3>. QED BY <3>1, <3>2, <3>3
    <2>. QED BY <1>3, <2>1
  <1>. QED BY <1>4, <1>5

(* The frames on the bus are the frames of the calls, complete and in      *)
(* order, for any number of calls, at any pace of the frames that come in  *)
(* and on one core or two, as long as every call but the first finds a     *)
(* frame pending and no error clears the bit (mcp2515Task.cpp:66, 82,      *)
(* 90-96).                                                                 *)
THEOREM SendsReachBus == Spec => []BackToBackSends
  <1>2. Init => Quiet /\ SendReady /\ SendInv
    <2>. SUFFICES ASSUME Init PROVE Quiet /\ SendReady /\ SendInv
      OBVIOUS
    <2>1. /\ service = [AtPoll EXCEPT !.pc = "gate"] /\ intf = {} /\ txSem = 0 /\ ~txreq
          /\ sender = "idle" /\ sent = 0 /\ onBus = << >>
      BY DEF Init, ChipInit
    <2>2. service.pc = "gate"
      BY <2>1 DEF AtPoll
    <2>3. Quiet /\ SendReady
      BY <2>1, <2>2 DEF Quiet, ErrorLabels, SendReady
    <2>4. ~TxWaits /\ ~TxOwed
      BY <2>1, <2>2 DEF TxWaits, TxOwed
    <2>5. OneToken /\ TxbFilled
      <3>1. TokenPlaces = 0
        BY <2>1, <2>4 DEF TokenPlaces
      <3>. QED BY <2>1, <3>1 DEF OneToken, TxbFilled
    <2>6. BusSoFar
      <3>1. Len(onBus) = 0
        BY <2>1
      <3>2. BusCarriesSends
        BY <3>1 DEF BusCarriesSends
      <3>3. ~txreq /\ Len(onBus) = sent - 0
        BY <2>1, <3>1
      <3>. QED BY <3>2, <3>3 DEF BusSoFar
    <2>. QED BY <2>3, <2>5, <2>6 DEF SendInv
  <1>3. TypeOK /\ ReadInv /\ Quiet /\ SendReady /\ SendInv /\ [Next]_vars => (Quiet /\ SendReady /\ SendInv)'
    BY QuietStep, SendReadyStep, ChipSends, ServiceSends, SenderSends, OthersSend
    DEF Next, Service, Users
  <1>4. SendInv => BackToBackSends
    BY DEF SendInv, BusSoFar, BackToBackSends
  <1>. QED BY ReadInvAlways, <1>2, <1>3, <1>4, PTL DEF Spec

-----------------------------------------------------------------------------
(* Nobody is stranded.  While the pending bit is set outside a call, the   *)
(* frame is with the chip or its end is with canService, which will clear  *)
(* the bit ...                                                             *)
ClearsBit == TxSeen /\ service.pc \in {"rxClear", "rxLoad", "rxStore", "txClear", "txPending"}
FrameIsOut == txreq \/ "TX0" \in intf

BitIsAFrame == pendingTx /\ sender \in {"idle", "wait"} => FrameIsOut \/ ClearsBit

(* ... and a caller that waits finds a token or will be given one.         *)
WaitIsAnswered ==
  sender = "wait" => txSem = 1 \/ FrameIsOut \/ TxOwed \/ service.pc = "errGive"

(* Nobody marks a frame before the chip is up. *)
MarkedIsUp == pendingTx => init = "done"

(* The bus-off branch is the only one to leave Normal mode, and not for    *)
(* long; the interrupts of a chip that is up are enabled.                  *)
ChipIsUp ==
  /\ init = "done" /\ mode # "normal" => service.pc = "normal"
  /\ init \in {"normal", "done"} => inte

StrandInv == SendReady /\ MarkedIsUp /\ BitIsAFrame /\ WaitIsAnswered /\ ChipIsUp

LEMMA NobodyMoved ==
  ASSUME BitIsAFrame, WaitIsAnswered, UNCHANGED <<service, sender, txSem, pendingTx>>,
         FrameIsOut => FrameIsOut'
  PROVE  BitIsAFrame' /\ WaitIsAnswered'
  BY DEF BitIsAFrame, WaitIsAnswered, ClearsBit, TxOwed, TxSeen

LEMMA ServiceAnswers ==
  ASSUME TypeOK, BitIsAFrame, WaitIsAnswered, ServiceStep
  PROVE  BitIsAFrame' /\ WaitIsAnswered'
  <1>1. UNCHANGED <<txreq, sender>>
    BY DEF ServiceStep, ServiceGate, ServicePoll, ServiceRead, ServiceReadEflg, ServiceClearErrors,
           ServiceConfigMode, ServiceNormalMode, ServiceErrorPending, ServiceErrorGive,
           ServiceClearRx, ServiceLoadPending, ServiceStorePending, ServiceClearTx, ServiceTxPending,
           ServiceGiveRx, ServiceGiveTx, ServiceWait, chipVars, regVars, appVars, sendVars
  <1>2. /\ service \in ServiceLocals /\ service.buf \in {0, 1} /\ txSem \in 0..1
    BY ServiceFields DEF TypeOK
  <1>3. ASSUME UNCHANGED <<txSem, pendingTx>>, "TX0" \in intf => "TX0" \in intf',
               ClearsBit => ClearsBit', TxOwed => TxOwed', service.pc # "errGive"
        PROVE  BitIsAFrame' /\ WaitIsAnswered'
    BY <1>1, <1>3 DEF BitIsAFrame, WaitIsAnswered, FrameIsOut
  <1>. USE DEF ServiceAt, ServiceGoto, chipVars, shared, semVars, pendVars, pinVars
  <1>4. CASE ServiceGate \/ ServicePoll \/ ServiceRead \/ ServiceReadEflg \/ ServiceClearErrors
               \/ ServiceConfigMode \/ ServiceNormalMode \/ ServiceWait
    <2>1. UNCHANGED <<txSem, pendingTx>> /\ ("TX0" \in intf => "TX0" \in intf')
      BY <1>4 DEF ServiceGate, ServicePoll, ServiceRead, ServiceReadEflg, ServiceClearErrors,
                  ServiceConfigMode, ServiceNormalMode, ServiceWait, ClearFlag
    <2>2. service.pc \in {"gate", "poll", "read", "eflg", "errClear", "config", "normal", "wait"}
      BY <1>4 DEF ServiceGate, ServicePoll, ServiceRead, ServiceReadEflg, ServiceClearErrors,
                  ServiceConfigMode, ServiceNormalMode, ServiceWait
    <2>. QED BY <1>3, <2>1, <2>2 DEF ClearsBit, TxOwed
  <1>5. CASE ServiceErrorPending
    <2>1. ~pendingTx' /\ service'.pc = "errGive"
      BY <1>2, <1>5 DEF ServiceErrorPending, ServiceLocals
    <2>. QED BY <2>1 DEF BitIsAFrame, WaitIsAnswered
  <1>6. CASE ServiceErrorGive
    <2>1. UNCHANGED <<pendingTx, intf>> /\ service.pc = "errGive" /\ txSem' = 1
      BY <1>2, <1>6 DEF ServiceErrorGive, Given
    <2>2. ~ClearsBit
      BY <2>1 DEF ClearsBit
    <2>. QED BY <1>1, <2>1, <2>2 DEF BitIsAFrame, WaitIsAnswered, FrameIsOut
  <1>7. CASE ServiceClearRx \/ ServiceLoadPending \/ ServiceStorePending
    <2>1. UNCHANGED <<txSem, pendingTx>> /\ ("TX0" \in intf => "TX0" \in intf')
      BY <1>7 DEF ServiceClearRx, ServiceLoadPending, ServiceStorePending, ClearFlag, RxFlag
    <2>2. /\ service.pc \in {"rxClear", "rxLoad", "rxStore"} /\ service'.flags = service.flags
          /\ service'.pc \in {"rxClear", "rxLoad", "rxStore", "txClear"}
      BY <1>2, <1>7
      DEF ServiceClearRx, ServiceLoadPending, ServiceStorePending, AfterRx, ServiceLocals
    <2>. QED BY <1>3, <2>1, <2>2 DEF ClearsBit, TxOwed, TxSeen
  <1>8. CASE ServiceClearTx
    <2>1. UNCHANGED <<txSem, pendingTx>> /\ service.pc = "txClear" /\ service'.flags = service.flags
      BY <1>2, <1>8 DEF ServiceClearTx, ServiceLocals
    <2>2. CASE TxSeen
      <3>1. service'.pc = "txPending"
        BY <1>2, <1>8, <2>2 DEF ServiceClearTx, TxSeen, ServiceLocals
      <3>. QED BY <2>1, <2>2, <3>1 DEF BitIsAFrame, WaitIsAnswered, ClearsBit, TxOwed, TxSeen
    <2>3. CASE ~TxSeen
      <3>1. intf' = intf
        BY <1>8, <2>3 DEF ServiceClearTx, TxSeen
      <3>. QED BY <1>3, <2>1, <2>3, <3>1 DEF ClearsBit, TxOwed
    <2>. QED BY <2>2, <2>3
  <1>9. CASE ServiceTxPending
    <2>1. /\ ~pendingTx' /\ txSem' = txSem /\ intf' = intf /\ service.pc = "txPending"
          /\ service'.pc = "rxGive" /\ service'.flags = service.flags
      BY <1>2, <1>9 DEF ServiceTxPending, ServiceLocals
    <2>2. TxOwed => TxOwed'
      BY <2>1 DEF TxOwed, TxSeen
    <2>. QED BY <1>1, <2>1, <2>2 DEF BitIsAFrame, WaitIsAnswered, FrameIsOut
  <1>10. CASE ServiceGiveRx
    <2>1. /\ UNCHANGED <<txSem, pendingTx, intf>> /\ service.pc = "rxGive"
          /\ service'.pc \in {"rxGive", "txGive"} /\ service'.flags = service.flags
      BY <1>2, <1>10 DEF ServiceGiveRx, ServiceLocals
    <2>. QED BY <1>3, <2>1 DEF ClearsBit, TxOwed, TxSeen
  <1>11. CASE ServiceGiveTx
    <2>1. /\ UNCHANGED <<pendingTx, intf>> /\ service.pc = "txGive"
          /\ txSem' = IF TxSeen THEN 1 ELSE txSem
      BY <1>2, <1>11 DEF ServiceGiveTx, Given, TxSeen
    <2>2. ~ClearsBit
      BY <2>1 DEF ClearsBit
    <2>3. txSem' = 1 \/ (txSem' = txSem /\ ~TxOwed)
      BY <2>1 DEF TxOwed
    <2>. QED BY <1>1, <2>1, <2>2, <2>3 DEF BitIsAFrame, WaitIsAnswered, FrameIsOut
  <1>. QED BY <1>4, <1>5, <1>6, <1>7, <1>8, <1>9, <1>10, <1>11 DEF ServiceStep

LEMMA SenderIsAnswered ==
  ASSUME TypeOK, BitIsAFrame, WaitIsAnswered, SendCall \/ SenderStep
  PROVE  BitIsAFrame' /\ WaitIsAnswered'
  <1>1. UNCHANGED <<intf, service>>
    BY DEF SendCall, SenderStep, SendWait, SendMark, SendHeader, SendBody, SendStart, SenderFrame,
           pinVars
  <1>2. (TxOwed' <=> TxOwed) /\ (ClearsBit' <=> ClearsBit)
    BY <1>1 DEF TxOwed, ClearsBit, TxSeen
  <1>3. CASE SendCall
    <2>1. /\ UNCHANGED <<txreq, pendingTx, txSem>> /\ sender = "idle"
          /\ sender' = IF pendingTx THEN "wait" ELSE "mark"
      BY <1>3 DEF SendCall
    <2>2. ClearsBit => TxOwed
      BY DEF ClearsBit, TxOwed
    <2>. QED BY <1>1, <1>2, <2>1, <2>2 DEF BitIsAFrame, WaitIsAnswered, FrameIsOut
  <1>4. CASE SendWait \/ SendMark \/ SendHeader \/ SendBody
    BY <1>4 DEF SendWait, SendMark, SendHeader, SendBody, BitIsAFrame, WaitIsAnswered
  <1>5. CASE SendStart
    BY <1>5 DEF SendStart, BitIsAFrame, WaitIsAnswered, FrameIsOut
  <1>. QED BY <1>3, <1>4, <1>5 DEF SenderStep

LEMMA ServiceKeeps ==
  ASSUME ServiceStep
  PROVE  UNCHANGED <<init, inte, sender>> /\ (pendingTx' => pendingTx)
  BY DEF ServiceStep, ServiceGate, ServicePoll, ServiceRead, ServiceReadEflg, ServiceClearErrors,
         ServiceConfigMode, ServiceNormalMode, ServiceErrorPending, ServiceErrorGive,
         ServiceClearRx, ServiceLoadPending, ServiceStorePending, ServiceClearTx, ServiceTxPending,
         ServiceGiveRx, ServiceGiveTx, ServiceWait, ClearFlag, chipVars, pinVars, shared, pendVars,
         appVars, sendVars

LEMMA ChipStaysUp ==
  ASSUME TypeOK, ChipIsUp, [Next]_vars
  PROVE  ChipIsUp'
  <1>1. ASSUME UNCHANGED <<mode, inte, init, service>>
        PROVE  ChipIsUp'
    BY <1>1 DEF ChipIsUp
  <1>2. CASE Chip
    <2>1. inte' = inte /\ (mode = "normal" => mode' = "normal")
      BY <1>2 DEF Chip, ChipStep, FrameArrives, TransmitDone, BusError, BusOffEnds, Raise, pinVars
    <2>. QED BY <1>2, <2>1 DEF Chip, ChipIsUp
  <1>3. CASE BringUp
    <2>1. CASE InitNormalMode
      BY <2>1 DEF InitNormalMode, Bringing, SetMode, pinVars, ChipIsUp
    <2>2. CASE InitEnableInterrupts
      BY <2>2 DEF InitEnableInterrupts, Bringing, ChipIsUp
    <2>3. CASE InitCreate \/ InitReset \/ InitClearInterrupts \/ InitRegisterIrq
      BY <2>3 DEF InitCreate, InitReset, InitClearInterrupts, InitRegisterIrq, Bringing, ChipIsUp
    <2>. QED BY <1>3, <2>1, <2>2, <2>3 DEF BringUp
  <1>4. CASE ServiceStep
    <2>1. CASE ServiceNormalMode
      BY <2>1 DEF ServiceNormalMode, SetMode, ServiceAt, pinVars, appVars, ChipIsUp
    <2>2. CASE ServiceConfigMode
      <3>1. service'.pc = "normal"
        BY <2>2, ServiceFields DEF ServiceConfigMode, ServiceGoto, ServiceLocals
      <3>. QED BY <2>2, <3>1, <1>4, ServiceKeeps DEF ChipIsUp
    <2>3. CASE ~ServiceNormalMode /\ ~ServiceConfigMode
      <3>1. mode' = mode /\ service.pc # "normal"
        BY <1>4, <2>3
        DEF ServiceStep, ServiceAt, ServiceGate, ServicePoll, ServiceRead, ServiceReadEflg,
            ServiceClearErrors, ServiceErrorPending, ServiceErrorGive, ServiceClearRx,
            ServiceLoadPending, ServiceStorePending, ServiceClearTx, ServiceTxPending,
            ServiceGiveRx, ServiceGiveTx, ServiceWait, chipVars
      <3>. QED BY <1>4, <3>1, ServiceKeeps DEF ChipIsUp
    <2>. QED BY <2>1, <2>2, <2>3
  <1>5. CASE IrqHandler \/ ReaderStep \/ SendCall \/ SenderStep \/ UNCHANGED vars
    BY <1>1, <1>5
    DEF IrqHandler, appVars, ReaderStep, ReaderTake, ReaderTest, ReaderLoad, ReaderStore,
        ReaderReadHeader, ReaderReadBody, ReaderFrame, SendCall, SenderStep, SendWait, SendMark,
        SendHeader, SendBody, SendStart, SenderFrame, vars, chipVars, pinVars
  <1>. QED BY <1>2, <1>3, <1>4, <1>5 DEF Next, Service, Users

LEMMA MarkedStep ==
  ASSUME SendReady, MarkedIsUp, [Next]_vars
  PROVE  MarkedIsUp'
  <1>1. CASE ServiceStep
    BY <1>1, ServiceKeeps DEF MarkedIsUp
  <1>2. CASE Chip \/ IrqHandler \/ ReaderStep \/ UNCHANGED vars
    BY <1>2
    DEF MarkedIsUp, Chip, IrqHandler, appVars, ReaderStep, ReaderTake, ReaderTest, ReaderLoad,
        ReaderStore, ReaderReadHeader, ReaderReadBody, ReaderFrame, vars, shared, pendVars
  <1>3. CASE BringUp
    BY <1>3
    DEF MarkedIsUp, BringUp, InitCreate, InitReset, InitClearInterrupts, InitRegisterIrq, Bringing,
        InitEnableInterrupts, InitNormalMode, shared, pendVars
  <1>4. CASE SendCall \/ SenderStep
    BY <1>4
    DEF MarkedIsUp, SendReady, SendCall, SenderStep, SendWait, SendMark, SendHeader, SendBody,
        SendStart, SenderFrame
  <1>. QED BY <1>1, <1>2, <1>3, <1>4 DEF Next, Service, Users

LEMMA StrandStep ==
  ASSUME TypeOK, StrandInv, [Next]_vars
  PROVE  StrandInv'
  <1>1. SendReady'
    BY SendReadyStep DEF StrandInv
  <1>2. BitIsAFrame' /\ WaitIsAnswered'
    <2>. USE DEF StrandInv
    <2>1. CASE Chip
      <3>1. UNCHANGED <<service, sender, txSem, pendingTx>>
        BY <2>1 DEF Chip, shared, semVars, pendVars, sendVars
      <3>2. FrameIsOut => FrameIsOut'
        BY <2>1 DEF Chip, ChipStep, FrameArrives, TransmitDone, BusError, BusOffEnds, Raise, RxFlag,
                    FrameIsOut, regVars, pinVars
      <3>. QED BY <3>1, <3>2, NobodyMoved
    <2>2. CASE BringUp
      <3>1. UNCHANGED <<service, sender, txSem, pendingTx>>
        BY <2>2 DEF BringUp, InitCreate, InitReset, InitClearInterrupts, InitRegisterIrq,
                    InitEnableInterrupts, InitNormalMode, shared, semVars, pendVars, sendVars
      <3>2. CASE InitClearInterrupts
        <4>1. sender = "idle" /\ ~pendingTx
          BY <3>2 DEF InitClearInterrupts, Bringing, SendReady, MarkedIsUp
        <4>. QED BY <3>1, <4>1 DEF BitIsAFrame, WaitIsAnswered
      <3>3. CASE ~InitClearInterrupts
        <4>1. UNCHANGED <<txreq, intf>>
          BY <2>2, <3>3 DEF BringUp, InitCreate, InitReset, InitRegisterIrq, InitEnableInterrupts,
                            InitNormalMode, chipVars, regVars, pinVars
        <4>. QED BY <3>1, <4>1, NobodyMoved DEF FrameIsOut
      <3>. QED BY <3>2, <3>3
    <2>3. CASE IrqHandler \/ ReaderStep \/ UNCHANGED vars
      <3>1. UNCHANGED <<service, sender, txSem, pendingTx, txreq, intf>>
        BY <2>3 DEF IrqHandler, appVars, ReaderStep, ReaderTake, ReaderTest, ReaderLoad, ReaderStore,
                    ReaderReadHeader, ReaderReadBody, ReaderFrame, vars, chipVars, regVars, pinVars,
                    shared, semVars, pendVars, sendVars
      <3>. QED BY <3>1, NobodyMoved DEF FrameIsOut
    <2>. QED BY <2>1, <2>2, <2>3, ServiceAnswers, SenderIsAnswered DEF Next, Service, Users
  <1>. QED BY <1>1, <1>2, MarkedStep, ChipStaysUp DEF StrandInv

LEMMA StrandInit == Init => StrandInv
  <1>. SUFFICES ASSUME Init PROVE StrandInv
    OBVIOUS
  <1>1. init = "create" /\ sender = "idle" /\ sent = 0 /\ pendingTx = FALSE
    BY DEF Init
  <1>. QED
    BY <1>1 DEF StrandInv, SendReady, MarkedIsUp, BitIsAFrame, WaitIsAnswered, ChipIsUp

LEMMA StrandInvAlways == Spec => [](TypeOK /\ StrandInv)
  BY TypeCorrect, StrandInit, StrandStep, PTL DEF Spec

(* A caller that waits for its token while canService sleeps is waiting    *)
(* for an edge that is on its way or for a frame that the chip, in Normal  *)
(* mode, has still to send: nothing is forgotten in the error branch, in a *)
(* bus-off or between the flag and the token (mcp2515Task.cpp:54-87,       *)
(* 90-96), for any pace of frames and any number of calls and errors, on   *)
(* one core or more, from a cold start.                                    *)
THEOREM SendersAreNotStranded ==
  ASSUME ~WarmBoot
  PROVE  Spec => []SenderNotStranded
  <1>1. TypeOK /\ StrandInv /\ NoLostWakeup => SenderNotStranded
    <2>. SUFFICES ASSUME TypeOK, StrandInv, NoLostWakeup, sender = "wait", txSem = 0,
                         ServiceAt("wait"), intSem = 0
                  PROVE  irqPending \/ (txreq /\ mode = "normal")
      BY DEF SenderNotStranded
    <2>1. service.pc = "wait" /\ init = "done" /\ inte
      BY DEF ServiceAt, StrandInv, SendReady, ChipIsUp
    <2>2. FrameIsOut
      BY <2>1 DEF StrandInv, WaitIsAnswered, TxOwed
    <2>3. CASE txreq
      BY <2>1, <2>3 DEF StrandInv, ChipIsUp, TypeOK, ChipTypeOK
    <2>4. CASE "TX0" \in intf
      BY <2>1, <2>4 DEF NoLostWakeup, IntLow
    <2>. QED BY <2>2, <2>3, <2>4 DEF FrameIsOut
  <1>. QED BY <1>1, StrandInvAlways, InterruptsAreNotSleptOver, PTL
-----------------------------------------------------------------------------
(* A chip that was powered up with the processor keeps quiet until         *)
(* bring-up is through.                                                    *)
ColdStart ==
  init # "done" =>
    mode = "config" /\ intf = {} /\ arrived = 0 /\ service.pc \in {"gate", "poll", "wait"}

(* Paced by the driver, a frame that was not delivered yet is somewhere on *)
(* its way: flagged, owed a token, in a token, or with the reader.         *)
FrameUnderWay ==
  Len(delivered) < arrived =>
    rxSem > 0 \/ reader.pc # "take" \/ \E b \in Buffers : Owes(b) \/ Waits(b)

LEMMA ColdStartStep ==
  ASSUME TypeOK, ColdStart, [Next]_vars
  PROVE  ColdStart'
  <1>. SUFFICES ASSUME init' # "done" PROVE ColdStart'
    BY DEF ColdStart
  <1>1. init # "done"
    BY ServiceKeeps
    DEF Next, Service, Users, Chip, BringUp, InitCreate, InitReset, InitClearInterrupts,
        InitRegisterIrq, InitEnableInterrupts, InitNormalMode, Bringing, IrqHandler, appVars,
        ReaderStep, ReaderTake, ReaderTest, ReaderLoad, ReaderStore, ReaderReadHeader,
        ReaderReadBody, ReaderFrame, SendCall, SenderStep, SendWait, SendMark, SendHeader,
        SendBody, SendStart, SenderFrame, vars
  <1>2. /\ mode = "config" /\ intf = {} /\ arrived = 0
        /\ service.pc \in {"gate", "poll", "wait"}
    BY <1>1 DEF ColdStart
  <1>3. ASSUME UNCHANGED <<mode, arrived, service>>, intf' \subseteq intf
        PROVE  ColdStart'
    BY <1>2, <1>3 DEF ColdStart
  <1>4. CASE Chip
    BY <1>2, <1>3, <1>4 DEF Chip, ChipStep, FrameArrives, TransmitDone, BusError, BusOffEnds,
                            OnTheBus, pinVars, busVars
  <1>5. CASE BringUp
    <2>1. ~InitNormalMode
      BY DEF InitNormalMode, Bringing
    <2>. QED
      BY <1>3, <1>5, <2>1 DEF BringUp, InitCreate, InitReset, InitClearInterrupts, InitRegisterIrq,
                              InitEnableInterrupts, chipVars, pinVars, busVars
  <1>6. CASE ServiceStep
    <2>1. ServiceGate \/ ServicePoll \/ ServiceWait
      BY <1>2, <1>6
      DEF ServiceStep, ServiceAt, ServiceRead, ServiceReadEflg, ServiceClearErrors,
          ServiceConfigMode, ServiceNormalMode, ServiceErrorPending, ServiceErrorGive,
          ServiceClearRx, ServiceLoadPending, ServiceStorePending, ServiceClearTx,
          ServiceTxPending, ServiceGiveRx, ServiceGiveTx
    <2>2. UNCHANGED <<mode, intf, arrived>>
      BY <2>1 DEF ServiceGate, ServicePoll, ServiceWait, chipVars, pinVars, busVars
    <2>3. service'.pc \in {"poll", "wait"}
      BY <1>2, <2>1, ServiceFields
      DEF ServiceGate, ServicePoll, ServiceWait, ServiceGoto, ServiceLocals, IntLow
    <2>. QED BY <1>2, <2>2, <2>3 DEF ColdStart
  <1>7. CASE IrqHandler \/ ReaderStep \/ SendCall \/ SenderStep \/ UNCHANGED vars
    BY <1>3, <1>7
    DEF IrqHandler, appVars, ReaderStep, ReaderTake, ReaderTest, ReaderLoad, ReaderStore,
        ReaderReadHeader, ReaderReadBody, ReaderFrame, SendCall, SenderStep, SendWait, SendMark,
        SendHeader, SendBody, SendStart, SenderFrame, vars, chipVars, pinVars, busVars
  <1>. QED BY <1>4, <1>5, <1>6, <1>7 DEF Next, Service, Users

(* canService loses no frame: it owes a token for every flag it clears,    *)
(* and gives it.                                                           *)
LEMMA ServiceLosesNone ==
  ASSUME TypeOK, ServiceStep, NEW b \in Buffers, Owes(b) \/ Waits(b)
  PROVE  rxSem' > 0 \/ Owes(b)' \/ Waits(b)'
  <1>1. /\ service \in ServiceLocals /\ service.buf \in {0, 1} /\ rxSem \in 0..2 /\ b \in {0, 1}
    BY ServiceFields DEF TypeOK, Buffers
  <1>. USE <1>1 DEF ServiceAt, ServiceGoto, ServiceLocals
  <1>2. CASE ServiceGate \/ ServicePoll \/ ServiceReadEflg \/ ServiceClearErrors
               \/ ServiceConfigMode \/ ServiceNormalMode \/ ServiceErrorPending \/ ServiceWait
    <2>1. Waits(b) /\ RxFlag(b) \in intf'
      BY <1>2
      DEF Owes, Waits, ServiceGate, ServicePoll, ServiceReadEflg, ServiceClearErrors, ClearFlag,
          ServiceConfigMode, ServiceNormalMode, ServiceErrorPending, ServiceWait, RxFlag,
          chipVars, pinVars
    <2>2. service'.pc \notin {"rxClear", "rxLoad", "rxStore"}
      BY <1>2
      DEF ServiceGate, ServicePoll, ServiceReadEflg, ServiceClearErrors,
          ServiceConfigMode, ServiceNormalMode, ServiceErrorPending, ServiceWait
    <2>. QED BY <2>1, <2>2 DEF Waits, WillClear
  <1>3. CASE ServiceRead
    <2>1. RxFlag(b) \in intf /\ intf' = intf /\ service'.flags = intf
      BY <1>3 DEF ServiceRead, Owes, Waits, chipVars, pinVars
    <2>2. service'.pc \in {"eflg", "rxClear"}
      BY <1>3 DEF ServiceRead
    <2>. QED BY <2>1, <2>2 DEF Owes, Waits, WillClear, Flagged
  <1>4. CASE ServiceErrorGive
    <2>1. RxFlag(b) \in intf' /\ service'.pc = "poll"
      BY <1>4 DEF ServiceErrorGive, Owes, Waits, AtPoll, chipVars, pinVars
    <2>. QED BY <2>1 DEF Waits, WillClear
  <1>5. CASE ServiceClearRx
    <2>1. /\ service.pc = "rxClear" /\ service'.flags = service.flags
          /\ service'.pc \in {"rxLoad", "rxClear", "txClear"}
      BY <1>5 DEF ServiceClearRx, AfterRx
    <2>2. CASE Flagged(b)
      BY <2>1, <2>2 DEF Owes, Flagged
    <2>3. CASE ~Flagged(b)
      <3>1. RxFlag(b) \in intf
        BY <2>3 DEF Owes, Waits
      <3>2. Flagged(service.buf) => service.buf # b
        BY <2>3
      <3>3. RxFlag(b) \in intf'
        BY <1>5, <3>1, <3>2 DEF ServiceClearRx, ClearFlag, RxFlag, pinVars
      <3>. QED BY <2>1, <2>3, <3>3 DEF Waits, WillClear, Flagged
    <2>. QED BY <2>2, <2>3
  <1>6. CASE ServiceLoadPending \/ ServiceStorePending
    <2>1. /\ service.pc \in {"rxLoad", "rxStore"} /\ service'.flags = service.flags
          /\ service'.pc \in {"rxStore", "rxClear", "txClear"} /\ intf' = intf
      BY <1>6 DEF ServiceLoadPending, ServiceStorePending, AfterRx, chipVars, pinVars
    <2>2. CASE Flagged(b)
      BY <2>1, <2>2 DEF Owes, Flagged
    <2>3. CASE ~Flagged(b)
      BY <2>1, <2>3 DEF Owes, Waits, WillClear, Flagged
    <2>. QED BY <2>2, <2>3
  <1>7. CASE ServiceClearTx \/ ServiceTxPending
    <2>1. /\ service.pc \in {"txClear", "txPending"} /\ service'.flags = service.flags
          /\ \/ service'.pc = "txPending"
             \/ service'.pc = "rxGive" /\ service'.buf = 0
      BY <1>7 DEF ServiceClearTx, ServiceTxPending
    <2>2. RxFlag(b) \in intf => RxFlag(b) \in intf'
      BY <1>7 DEF ServiceClearTx, ServiceTxPending, ClearFlag, RxFlag, chipVars, pinVars
    <2>3. CASE Flagged(b)
      BY <2>1, <2>3 DEF Owes, Flagged
    <2>4. CASE ~Flagged(b)
      BY <2>1, <2>2, <2>4 DEF Owes, Waits, WillClear, Flagged
    <2>. QED BY <2>3, <2>4
  <1>8. CASE ServiceGiveRx
    <2>1. /\ service.pc = "rxGive" /\ service'.flags = service.flags /\ intf' = intf
          /\ rxSem' = IF Flagged(service.buf) THEN Given(rxSem, 2) ELSE rxSem
          /\ \/ service.buf = 0 /\ service'.buf = 1 /\ service'.pc = "rxGive"
             \/ service.buf = 1 /\ service'.pc = "txGive"
      BY <1>8 DEF ServiceGiveRx, chipVars, pinVars
    <2>2. CASE Waits(b)
      BY <2>1, <2>2 DEF Waits, WillClear
    <2>3. CASE Owes(b) /\ service.buf = b
      <3>1. rxSem' = Given(rxSem, 2)
        BY <2>1, <2>3 DEF Owes
      <3>. QED BY <3>1 DEF Given
    <2>4. CASE Owes(b) /\ service.buf # b
      <3>1. service.buf = 0 /\ b = 1 /\ Flagged(b)
        BY <2>1, <2>4 DEF Owes
      <3>. QED BY <2>1, <3>1 DEF Owes, Flagged
    <2>. QED BY <2>2, <2>3, <2>4
  <1>9. CASE ServiceGiveTx
    <2>1. Waits(b) /\ intf' = intf /\ service'.pc = "poll"
      BY <1>9 DEF ServiceGiveTx, Owes, AtPoll, chipVars, pinVars
    <2>. QED BY <2>1 DEF Waits, WillClear
  <1>. QED
    BY <1>2, <1>3, <1>4, <1>5, <1>6, <1>7, <1>8, <1>9 DEF ServiceStep

LEMMA UnderWayStep ==
  ASSUME TypeOK, ReadInv, MailInv, ColdStart, FrameUnderWay, Pacing = "driver", [Next]_vars
  PROVE  FrameUnderWay'
  <1>1. ASSUME UNCHANGED <<service, intf, rxSem, reader, delivered, arrived>>
        PROVE  FrameUnderWay'
    BY <1>1 DEF FrameUnderWay, Owes, Waits, WillClear, Flagged
  <1>2. CASE Chip
    <2>1. UNCHANGED <<service, rxSem, reader, delivered>>
      BY <1>2 DEF Chip, shared, semVars
    <2>2. ASSUME NEW b \in Buffers, FrameArrives(b)
          PROVE  Waits(b)'
      <3>1. Len(delivered) = arrived
        BY <2>2 DEF FrameArrives, MayArrive
      <3>2. Idle
        BY <3>1, OnePlace DEF MailInv
      <3>3. RxFlag(b) \notin intf /\ ~WillClear(b)
        BY <3>2, WillClearOwes DEF Idle, Waits
      <3>4. RxFlag(b) \in intf'
        BY <2>2, <3>3 DEF FrameArrives, Raise
      <3>. QED BY <2>1, <3>3, <3>4 DEF Waits, WillClear, Flagged
    <2>3. CASE \E b \in Buffers : FrameArrives(b)
      BY <2>2, <2>3 DEF FrameUnderWay
    <2>4. CASE TransmitDone \/ BusError \/ BusOffEnds
      <3>1. intf \subseteq intf' /\ arrived' = arrived
        BY <2>4 DEF TransmitDone, BusError, BusOffEnds, Raise, pinVars, busVars
      <3>. QED BY <2>1, <3>1 DEF FrameUnderWay, Owes, Waits, WillClear, Flagged
    <2>. QED BY <1>2, <2>3, <2>4 DEF Chip, ChipStep
  <1>3. CASE ServiceStep
    <2>1. UNCHANGED <<reader, delivered, arrived>> /\ (rxSem > 0 => rxSem' > 0)
      BY <1>3
      DEF ServiceStep, ServiceGate, ServicePoll, ServiceRead, ServiceReadEflg, ServiceClearErrors,
          ServiceConfigMode, ServiceNormalMode, ServiceErrorPending, ServiceErrorGive,
          ServiceClearRx, ServiceLoadPending, ServiceStorePending, ServiceClearTx, ServiceTxPending,
          ServiceGiveRx, ServiceGiveTx, ServiceWait, Given, TypeOK, chipVars, busVars, shared,
          semVars, appVars
    <2>. QED BY <1>3, <2>1, ServiceLosesNone DEF FrameUnderWay
  <1>4. CASE ReaderStep
    <2>1. UNCHANGED <<service, intf, arrived>>
      BY <1>4 DEF ReaderStep, ReaderTake, ReaderTest, ReaderLoad, ReaderStore, ReaderReadHeader,
                  ReaderReadBody, ReaderFrame, chipVars, pinVars, busVars
    <2>2. CASE ReaderReadBody
      <3>1. arrived = Len(delivered) + 1
        BY <2>2, OnePlace DEF ReaderReadBody, MailInv
      <3>2. Len(delivered') = Len(delivered) + 1
        BY <2>2 DEF ReaderReadBody, TypeOK
      <3>. QED BY <2>1, <3>1, <3>2, CountsType DEF FrameUnderWay
    <2>3. CASE ~ReaderReadBody
      <3>1. reader'.pc # "take"
        BY <1>4, <2>3
        DEF ReaderStep, ReaderTake, ReaderTest, ReaderLoad, ReaderStore, ReaderReadHeader,
            TypeOK, ReaderLocals
      <3>. QED BY <3>1 DEF FrameUnderWay
    <2>. QED BY <2>2, <2>3
  <1>5. CASE BringUp
    <2>1. CASE InitClearInterrupts
      <3>1. arrived' = 0 /\ delivered' = delivered
        BY <2>1 DEF InitClearInterrupts, Bringing, ColdStart, busVars
      <3>. QED BY <3>1, CountsType DEF FrameUnderWay
    <2>2. CASE ~InitClearInterrupts
      BY <1>1, <1>5, <2>2
      DEF BringUp, InitCreate, InitReset, InitRegisterIrq, InitEnableInterrupts, InitNormalMode,
          chipVars, pinVars, busVars, shared, semVars
    <2>. QED BY <2>1, <2>2
  <1>6. CASE IrqHandler \/ SendCall \/ SenderStep \/ UNCHANGED vars
    BY <1>1, <1>6
    DEF IrqHandler, appVars, SendCall, SenderStep, SendWait, SendMark, SendHeader, SendBody,
        SendStart, SenderFrame, vars, chipVars, pinVars, busVars, shared, semVars
  <1>. QED BY <1>2, <1>3, <1>4, <1>5, <1>6 DEF Next, Service, Users

(* Paced by the driver and from a cold start, a frame that came in and was *)
(* not delivered never finds everybody asleep: with its reader waiting for *)
(* a token and canService for an interrupt, the edge is on its way         *)
(* (mcp2515Task.cpp:54-81, 98-121).  It is the safety core of the promise  *)
(* of the mailbox that each frame is read at last.                         *)
THEOREM FramesAreNotStranded ==
  ASSUME Pacing = "driver", ~WarmBoot
  PROVE  Spec => []FrameNotStranded
  <1>1. Init => ColdStart /\ FrameUnderWay
    <2>. SUFFICES ASSUME Init PROVE ColdStart /\ FrameUnderWay
      OBVIOUS
    <2>1. mode = "config" /\ intf = {} /\ arrived = 0 /\ delivered = << >>
      BY DEF Init, ChipInit
    <2>2. service.pc = "gate"
      BY DEF Init, AtPoll
    <2>. QED BY <2>1, <2>2 DEF ColdStart, FrameUnderWay
  <1>2. /\ TypeOK /\ ReadInv /\ MailInv /\ ColdStart /\ FrameUnderWay /\ [Next]_vars
        => ColdStart' /\ FrameUnderWay'
    BY ColdStartStep, UnderWayStep
  <1>3. TypeOK /\ StrandInv /\ ColdStart /\ FrameUnderWay /\ NoLostWakeup => FrameNotStranded
    <2>. SUFFICES ASSUME TypeOK, StrandInv, ColdStart, FrameUnderWay, NoLostWakeup,
                         Len(delivered) < arrived, reader.pc = "take", rxSem = 0,
                         ServiceAt("wait"), intSem = 0
                  PROVE  irqPending
      BY DEF FrameNotStranded
    <2>1. init = "done" /\ inte
      BY CountsType DEF ColdStart, StrandInv, ChipIsUp
    <2>2. PICK b \in Buffers : Owes(b) \/ Waits(b)
      BY DEF FrameUnderWay
    <2>3. RxFlag(b) \in intf
      BY <2>2 DEF Owes, Waits, ServiceAt
    <2>. QED BY <2>1, <2>3 DEF NoLostWakeup, IntLow
  <1>. QED
    BY <1>1, <1>2, <1>3, MailInvAlways, StrandInvAlways, InterruptsAreNotSleptOver, PTL DEF Spec
=============================================================================
