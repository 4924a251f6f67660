-------------------------- MODULE Mcp2515TaskProofs --------------------------
(***************************************************************************)
(* Proofs about the CAN driver of module Mcp2515Task, for every number of  *)
(* frames, errors and calls, both buffer modes, every pacing, and with or  *)
(* without a second core.                                                  *)
(***************************************************************************)
EXTENDS Mcp2515Task, TLAPS

LEMMA AppendType ==
  ASSUME NEW S, NEW s \in Seq(S), NEW e \in S
  PROVE  Append(s, e) \in Seq(S) /\ Len(Append(s, e)) = Len(s) + 1
  OBVIOUS

LEMMA Bits == 0 \in 0..1 /\ 1 \in 0..1
  OBVIOUS

LEMMA GivenType == \A max \in Nat : \A sem \in 0..max : Given(sem, max) \in 0..max
  BY DEF Given

LEMMA RaiseType ==
  ASSUME TypeOK, NEW flag \in Flags, Raise(flag)
  PROVE  /\ inte' \in BOOLEAN /\ intf' \subseteq Flags
         /\ irqEnabled' \in BOOLEAN /\ irqPending' \in BOOLEAN
  <1>1. intf' \subseteq Flags
    BY DEF TypeOK, ChipTypeOK, Raise
  <1>2. irqPending' \in BOOLEAN
    BY Zenon DEF Raise
  <1>3. inte' \in BOOLEAN /\ irqEnabled' \in BOOLEAN
    BY Zenon DEF TypeOK, ChipTypeOK, Raise
  <1>. QED BY <1>1, <1>2, <1>3

LEMMA RxFlagType == \A b \in Buffers : RxFlag(b) \in Flags
  BY DEF Flags, RxFlag

LEMMA ChipType ==
  ASSUME TypeOK, Chip
  PROVE  TypeOK'
  <1>. USE DEF Chip, shared, semVars, pendVars, sendVars
  <1>1. ASSUME NEW b \in Buffers, FrameArrives(b)
        PROVE  TypeOK'
    <2>1. /\ inte' \in BOOLEAN /\ intf' \subseteq Flags
          /\ irqEnabled' \in BOOLEAN /\ irqPending' \in BOOLEAN
      BY <1>1, RaiseType, RxFlagType DEF FrameArrives, Flags
    <2>2. rxb' \in [Buffers -> Nat]
      <3>1. rxb' = rxb \/ rxb' = [rxb EXCEPT ![b] = arrived + 1]
        BY <1>1, Zenon DEF FrameArrives
      <3>2. rxb \in [Buffers -> Nat] /\ arrived + 1 \in Nat
        BY DEF TypeOK, ChipTypeOK
      <3>. QED BY <3>1, <3>2
    <2>3. arrived' \in Nat
      BY <1>1 DEF FrameArrives, TypeOK, ChipTypeOK
    <2>. QED BY <1>1, <2>1, <2>2, <2>3 DEF FrameArrives, TypeOK, ChipTypeOK
  <1>2. CASE TransmitDone
    <2>1. /\ inte' \in BOOLEAN /\ intf' \subseteq Flags
          /\ irqEnabled' \in BOOLEAN /\ irqPending' \in BOOLEAN
      BY <1>2, RaiseType DEF TransmitDone, Flags
    <2>2. onBus' \in Seq([hdr : Nat, body : Nat])
      BY <1>2, AppendType DEF TransmitDone, TypeOK, ChipTypeOK
    <2>3. mode' \in Modes
      BY <1>2 DEF TransmitDone, Modes, TypeOK, ChipTypeOK
    <2>. QED BY <1>2, <2>1, <2>2, <2>3 DEF TransmitDone, TypeOK, ChipTypeOK
  <1>3. CASE BusError
    <2>1. /\ inte' \in BOOLEAN /\ intf' \subseteq Flags
          /\ irqEnabled' \in BOOLEAN /\ irqPending' \in BOOLEAN
      BY <1>3, RaiseType DEF BusError, Flags
    <2>2. boff' \in BOOLEAN
      BY <1>3 DEF BusError, TypeOK, ChipTypeOK
    <2>. QED BY <1>3, <2>1, <2>2 DEF BusError, TypeOK, ChipTypeOK, regVars
  <1>4. CASE BusOffEnds
    BY <1>4 DEF BusOffEnds, TypeOK, ChipTypeOK, pinVars, regVars, busVars
  <1>. QED BY <1>1, <1>2, <1>3, <1>4 DEF ChipStep

LEMMA BringUpType ==
  ASSUME TypeOK, BringUp
  PROVE  TypeOK'
  <1>. USE DEF TypeOK, ChipTypeOK, Bringing, InitLabels, chipVars, regVars, pinVars,
               busVars, shared, semVars, pendVars, sendVars
  <1>1. CASE InitCreate
    BY <1>1 DEF InitCreate
  <1>2. CASE InitReset
    BY <1>2 DEF InitReset
  <1>3. CASE InitClearInterrupts
    BY <1>3 DEF InitClearInterrupts
  <1>4. CASE InitRegisterIrq
    BY <1>4 DEF InitRegisterIrq
  <1>5. CASE InitEnableInterrupts
    <2>1. irqPending' \in BOOLEAN
      BY <1>5, Zenon DEF InitEnableInterrupts
    <2>. QED BY <1>5, <2>1 DEF InitEnableInterrupts
  <1>6. CASE InitNormalMode
    <2>1. boff' \in BOOLEAN
      BY <1>6, Zenon DEF InitNormalMode, SetMode
    <2>2. mode' \in Modes
      BY <1>6 DEF InitNormalMode, SetMode, Modes
    <2>. QED BY <1>6, <2>1, <2>2 DEF InitNormalMode
  <1>. QED BY <1>1, <1>2, <1>3, <1>4, <1>5, <1>6 DEF BringUp

LEMMA IrqHandlerType ==
  ASSUME TypeOK, IrqHandler
  PROVE  TypeOK'
  <1>1. irqPending' \in BOOLEAN /\ intSem' \in 0..1
    BY Bits, Zenon DEF IrqHandler
  <1>. QED
    BY <1>1
    DEF IrqHandler, TypeOK, ChipTypeOK, regVars, busVars, pendVars, appVars, sendVars

LEMMA ServiceLocalsType ==
  ASSUME TypeOK
  PROVE  /\ \A label \in ServiceLabels : [service EXCEPT !.pc = label] \in ServiceLocals
         /\ \A label \in ServiceLabels, b \in Buffers :
              [service EXCEPT !.pc = label, !.buf = b] \in ServiceLocals
         /\ AfterRx(service) \in ServiceLocals
         /\ AtPoll \in ServiceLocals
  <1>1. service \in ServiceLocals
    BY DEF TypeOK
  <1>2. \A label \in ServiceLabels : [service EXCEPT !.pc = label] \in ServiceLocals
    BY <1>1 DEF ServiceLocals
  <1>3. \A label \in ServiceLabels, b \in Buffers :
           [service EXCEPT !.pc = label, !.buf = b] \in ServiceLocals
    BY <1>1 DEF ServiceLocals
  <1>4. AfterRx(service) \in ServiceLocals
    <2>1. \A label \in ServiceLabels, b \in Buffers :
             [service EXCEPT !.pc = label, !.buf = b, !.mask = {}] \in ServiceLocals
      BY <1>1 DEF ServiceLocals
    <2>2. (IF service.buf = 0 THEN "rxClear" ELSE "txClear") \in ServiceLabels /\ 1 \in Buffers
      BY DEF ServiceLabels, Buffers
    <2>. QED BY <2>1, <2>2, Zenon DEF AfterRx
  <1>5. AtPoll \in ServiceLocals
    BY DEF AtPoll, ServiceLocals, ServiceLabels, Buffers
  <1>. QED BY <1>2, <1>3, <1>4, <1>5

LEMMA ServiceType ==
  ASSUME TypeOK, ServiceStep
  PROVE  TypeOK'
  <1>. USE ServiceLocalsType DEF ServiceGoto
  <1>1. CASE ServiceGate
    <2>1. service' \in ServiceLocals
      BY <1>1 DEF ServiceGate, ServiceLabels, Buffers
    <2>. QED
      BY <1>1, <2>1
      DEF ServiceGate, TypeOK, ChipTypeOK, chipVars, regVars, pinVars, busVars,
          shared, semVars, pendVars, sendVars, appVars
  <1>2. CASE ServicePoll
    <2>1. service' \in ServiceLocals
      BY <1>2 DEF ServicePoll, ServiceLabels, Buffers
    <2>. QED
      BY <1>2, <2>1
      DEF ServicePoll, TypeOK, ChipTypeOK, chipVars, regVars, pinVars, busVars,
          shared, semVars, pendVars, sendVars, appVars
  <1>3. CASE ServiceRead
    <2>1. service' \in ServiceLocals
      <3>1. \A label \in ServiceLabels : [service EXCEPT !.flags = intf, !.pc = label] \in ServiceLocals
        BY DEF TypeOK, ChipTypeOK, ServiceLocals
      <3>2. (IF "ERR" \in intf THEN "eflg" ELSE "rxClear") \in ServiceLabels
        BY DEF ServiceLabels
      <3>. QED BY <1>3, <3>1, <3>2, Zenon DEF ServiceRead
    <2>. QED
      BY <1>3, <2>1
      DEF ServiceRead, TypeOK, ChipTypeOK, chipVars, regVars, pinVars, busVars,
          shared, semVars, pendVars, sendVars, appVars
  <1>4. CASE ServiceReadEflg
    <2>1. service' \in ServiceLocals
      <3>1. \A label \in ServiceLabels : [service EXCEPT !.boff = boff, !.pc = label] \in ServiceLocals
        BY DEF TypeOK, ChipTypeOK, ServiceLocals
      <3>2. "errClear" \in ServiceLabels
        BY DEF ServiceLabels
      <3>. QED BY <1>4, <3>1, <3>2, Zenon DEF ServiceReadEflg
    <2>. QED
      BY <1>4, <2>1
      DEF ServiceReadEflg, TypeOK, ChipTypeOK, chipVars, regVars, pinVars, busVars,
          shared, semVars, pendVars, sendVars, appVars
  <1>5. CASE ServiceClearErrors
    <2>1. service' \in ServiceLocals
      BY <1>5 DEF ServiceClearErrors, ServiceLabels, Buffers
    <2>. QED
      BY <1>5, <2>1
      DEF ServiceClearErrors, TypeOK, ChipTypeOK, chipVars, regVars, pinVars, busVars,
          shared, semVars, pendVars, sendVars, appVars, ClearFlag
  <1>6. CASE ServiceConfigMode
    <2>1. service' \in ServiceLocals
      BY <1>6 DEF ServiceConfigMode, ServiceLabels, Buffers
    <2>2. boff' \in BOOLEAN
      BY <1>6, Zenon DEF ServiceConfigMode, SetMode
    <2>3. mode' \in Modes
      BY <1>6 DEF ServiceConfigMode, SetMode, Modes
    <2>. QED
      BY <1>6, <2>1, <2>2, <2>3
      DEF ServiceConfigMode, TypeOK, ChipTypeOK, chipVars, regVars, pinVars, busVars,
          shared, semVars, pendVars, sendVars, appVars
  <1>7. CASE ServiceNormalMode
    <2>1. service' \in ServiceLocals
      BY <1>7 DEF ServiceNormalMode, ServiceLabels, Buffers
    <2>2. boff' \in BOOLEAN
      BY <1>7, Zenon DEF ServiceNormalMode, SetMode
    <2>3. mode' \in Modes
      BY <1>7 DEF ServiceNormalMode, SetMode, Modes
    <2>. QED
      BY <1>7, <2>1, <2>2, <2>3
      DEF ServiceNormalMode, TypeOK, ChipTypeOK, chipVars, regVars, pinVars, busVars,
          shared, semVars, pendVars, sendVars, appVars
  <1>8. CASE ServiceErrorPending
    <2>1. service' \in ServiceLocals
      BY <1>8 DEF ServiceErrorPending, ServiceLabels, Buffers
    <2>. QED
      BY <1>8, <2>1
      DEF ServiceErrorPending, TypeOK, ChipTypeOK, chipVars, regVars, pinVars, busVars,
          shared, semVars, pendVars, sendVars, appVars
  <1>9. CASE ServiceErrorGive
    <2>1. service' \in ServiceLocals
      BY <1>9 DEF ServiceErrorGive, ServiceLabels, Buffers
    <2>. QED
      BY <1>9, <2>1, GivenType
      DEF ServiceErrorGive, TypeOK, ChipTypeOK, chipVars, regVars, pinVars, busVars,
          shared, semVars, pendVars, sendVars, appVars
  <1>10. CASE ServiceClearRx
    <2>1. service' \in ServiceLocals
      <3>1. service' = AfterRx(service) \/ service' = [service EXCEPT !.pc = "rxLoad"]
        BY <1>10, Zenon DEF ServiceClearRx
      <3>. QED BY <3>1 DEF ServiceLabels
    <2>2. intf' \subseteq Flags /\ UNCHANGED <<inte, irqEnabled, irqPending>>
      BY <1>10 DEF ServiceClearRx, ClearFlag, pinVars, TypeOK, ChipTypeOK
    <2>. QED
      BY <1>10, <2>1, <2>2
      DEF ServiceClearRx, TypeOK, ChipTypeOK, chipVars, regVars, pinVars, busVars,
          shared, semVars, pendVars, sendVars, appVars
  <1>11. CASE ServiceLoadPending
    <2>1. service' \in ServiceLocals
      <3>1. service \in ServiceLocals /\ pendingRx \in SUBSET Buffers
        BY DEF TypeOK
      <3>2. service' = [service EXCEPT !.mask = pendingRx, !.pc = "rxStore"]
        BY <1>11 DEF ServiceLoadPending
      <3>3. "rxStore" \in ServiceLabels
        BY DEF ServiceLabels
      <3>. QED BY <3>1, <3>2, <3>3 DEF ServiceLocals
    <2>. QED
      BY <1>11, <2>1
      DEF ServiceLoadPending, TypeOK, ChipTypeOK, chipVars, regVars, pinVars, busVars,
          shared, semVars, pendVars, sendVars, appVars
  <1>12. CASE ServiceStorePending
    <2>1. service' \in ServiceLocals
      BY <1>12 DEF ServiceStorePending, TypeOK, ChipTypeOK, ServiceLocals, ServiceLabels, Buffers
    <2>2. pendingRx' \subseteq Buffers
      BY <1>12 DEF ServiceStorePending, TypeOK, ServiceLocals
    <2>. QED
      BY <1>12, <2>1, <2>2
      DEF ServiceStorePending, TypeOK, ChipTypeOK, chipVars, regVars, pinVars, busVars,
          shared, semVars, pendVars, sendVars, appVars, Buffers
  <1>13. CASE ServiceClearTx
    <2>1. service' \in ServiceLocals
      BY <1>13 DEF ServiceClearTx, ServiceLabels, Buffers
    <2>2. intf' \subseteq Flags /\ UNCHANGED <<inte, irqEnabled, irqPending>>
      BY <1>13 DEF ServiceClearTx, ClearFlag, pinVars, TypeOK, ChipTypeOK
    <2>. QED
      BY <1>13, <2>1, <2>2
      DEF ServiceClearTx, TypeOK, ChipTypeOK, chipVars, regVars, pinVars, busVars,
          shared, semVars, pendVars, sendVars, appVars
  <1>14. CASE ServiceTxPending
    <2>1. service' \in ServiceLocals
      BY <1>14 DEF ServiceTxPending, ServiceLabels, Buffers
    <2>. QED
      BY <1>14, <2>1
      DEF ServiceTxPending, TypeOK, ChipTypeOK, chipVars, regVars, pinVars, busVars,
          shared, semVars, pendVars, sendVars, appVars
  <1>15. CASE ServiceGiveRx
    <2>1. service' \in ServiceLocals
      <3>1. \/ service' = [service EXCEPT !.buf = 1]
            \/ service' = [service EXCEPT !.pc = "txGive"]
        BY <1>15, Zenon DEF ServiceGiveRx
      <3>2. [service EXCEPT !.buf = 1] \in ServiceLocals
        <4>1. service \in ServiceLocals
          BY DEF TypeOK
        <4>2. 1 \in Buffers
          BY Bits, Zenon DEF Buffers
        <4>. QED BY <4>1, <4>2 DEF ServiceLocals
      <3>. QED BY <3>1, <3>2 DEF ServiceLabels
    <2>2. rxSem' \in 0..2
      <3>1. rxSem' = rxSem \/ rxSem' = Given(rxSem, 2)
        BY <1>15, Zenon DEF ServiceGiveRx
      <3>. QED BY <3>1, GivenType DEF TypeOK
    <2>. QED
      BY <1>15, <2>1, <2>2
      DEF ServiceGiveRx, TypeOK, ChipTypeOK, chipVars, regVars, pinVars, busVars,
          shared, semVars, pendVars, sendVars, appVars
  <1>16. CASE ServiceGiveTx
    <2>1. service' \in ServiceLocals
      BY <1>16 DEF ServiceGiveTx, ServiceLabels, Buffers
    <2>. QED
      BY <1>16, <2>1, GivenType
      DEF ServiceGiveTx, TypeOK, ChipTypeOK, chipVars, regVars, pinVars, busVars,
          shared, semVars, pendVars, sendVars, appVars
  <1>17. CASE ServiceWait
    <2>1. service' \in ServiceLocals
      BY <1>17 DEF ServiceWait, ServiceLabels, Buffers
    <2>. QED
      BY <1>17, <2>1, Bits
      DEF ServiceWait, TypeOK, ChipTypeOK, chipVars, regVars, pinVars, busVars,
          shared, semVars, pendVars, sendVars, appVars
  <1>. QED
    BY <1>1, <1>2, <1>3, <1>4, <1>5, <1>6, <1>7, <1>8, <1>9, <1>10, <1>11, <1>12, <1>13, <1>14, <1>15, <1>16, <1>17
    DEF ServiceStep

LEMMA ReaderType ==
  ASSUME TypeOK, ReaderStep
  PROVE  TypeOK'
  <1>. USE DEF TypeOK, ChipTypeOK, ReaderFrame, ReaderLabels, Buffers,
               ReaderLocals, chipVars, regVars, pinVars, busVars, sendVars
  <1>1. CASE ReaderTake
    <2>1. rxSem' \in 0..2
      BY <1>1 DEF ReaderTake
    <2>2. reader' \in ReaderLocals
      BY <1>1 DEF ReaderTake
    <2>. QED BY <1>1, <2>1, <2>2 DEF ReaderTake
  <1>2. CASE ReaderTest
    <2>1. reader' \in ReaderLocals
      <3>1. \A b \in Buffers : [reader EXCEPT !.pc = "load", !.buf = b] \in ReaderLocals
        OBVIOUS
      <3>2. (IF 0 \in pendingRx THEN 0 ELSE 1) \in Buffers
        OBVIOUS
      <3>. QED BY <1>2, <3>1, <3>2, Zenon DEF ReaderTest
    <2>. QED BY <1>2, <2>1 DEF ReaderTest
  <1>3. CASE ReaderLoad
    BY <1>3 DEF ReaderLoad
  <1>4. CASE ReaderStore
    BY <1>4 DEF ReaderStore
  <1>5. CASE ReaderReadHeader
    BY <1>5 DEF ReaderReadHeader
  <1>6. CASE ReaderReadBody
    <2>1. delivered' \in Seq([hdr : Nat, body : Nat])
      BY <1>6, AppendType DEF ReaderReadBody
    <2>. QED BY <1>6, <2>1 DEF ReaderReadBody, AtTake
  <1>. QED BY <1>1, <1>2, <1>3, <1>4, <1>5, <1>6 DEF ReaderStep

LEMMA SenderType ==
  ASSUME TypeOK, SendCall \/ SenderStep
  PROVE  TypeOK'
  <1>. USE DEF TypeOK, ChipTypeOK, SenderFrame, SenderLabels, WriteTxb,
               pinVars, busVars
  <1>1. CASE SendCall
    <2>1. gap' \in BOOLEAN
      BY <1>1, Zenon DEF SendCall
    <2>. QED BY <1>1, <2>1 DEF SendCall
  <1>2. CASE SendWait
    BY <1>2 DEF SendWait
  <1>3. CASE SendMark
    BY <1>3 DEF SendMark
  <1>4. CASE SendHeader
    <2>1. txb' \in [hdr : Nat, body : Nat]
      <3>1. txb' = txb \/ txb' = [txb EXCEPT !.hdr = sent + 1]
        BY <1>4 DEF SendHeader
      <3>. QED BY <3>1
    <2>. QED BY <1>4, <2>1 DEF SendHeader
  <1>5. CASE SendBody
    <2>1. txb' \in [hdr : Nat, body : Nat]
      <3>1. txb' = txb \/ txb' = [txb EXCEPT !.body = sent + 1]
        BY <1>5 DEF SendBody
      <3>. QED BY <3>1
    <2>. QED BY <1>5, <2>1 DEF SendBody
  <1>6. CASE SendStart
    BY <1>6 DEF SendStart
  <1>. QED BY <1>1, <1>2, <1>3, <1>4, <1>5, <1>6 DEF SenderStep

LEMMA InitType == Init => TypeOK
  <1>. SUFFICES ASSUME Init PROVE TypeOK
    OBVIOUS
  <1>1. inte \in BOOLEAN /\ irqEnabled \in BOOLEAN /\ irqPending \in BOOLEAN
        /\ boff \in BOOLEAN /\ txreq \in BOOLEAN /\ pendingTx \in BOOLEAN
        /\ gap \in BOOLEAN
    BY ModeAssumption, Zenon DEF Init, ChipInit
  <1>2. ChipTypeOK
    BY <1>1 DEF Init, ChipInit, ChipTypeOK, Modes
  <1>3. service \in ServiceLocals
    <2>1. AtPoll \in ServiceLocals
      BY DEF AtPoll, ServiceLocals, ServiceLabels, Buffers
    <2>2. service = [AtPoll EXCEPT !.pc = "gate"] /\ "gate" \in ServiceLabels
      BY DEF Init, ServiceLabels
    <2>. QED BY <2>1, <2>2 DEF ServiceLocals
  <1>4. reader \in ReaderLocals
    BY DEF Init, AtTake, ReaderLocals, ReaderLabels, Buffers
  <1>. QED BY <1>1, <1>2, <1>3, <1>4 DEF Init, TypeOK, InitLabels, SenderLabels

LEMMA StepType == TypeOK /\ [Next]_vars => TypeOK'
  <1>. SUFFICES ASSUME TypeOK, [Next]_vars PROVE TypeOK'
    OBVIOUS
  <1>1. CASE UNCHANGED vars
    BY <1>1 DEF TypeOK, ChipTypeOK, vars, chipVars, regVars, pinVars, busVars, shared,
                semVars, pendVars, sendVars
  <1>. QED
    BY <1>1, ChipType, BringUpType, IrqHandlerType, ServiceType, ReaderType, SenderType
    DEF Next, Service, Users

(* Every variable of the driver keeps its type; in particular no semaphore *)
(* exceeds its capacity, whatever the tasks and the chip do.               *)
THEOREM TypeCorrect == Spec => []TypeOK
  BY InitType, StepType, PTL DEF Spec

-----------------------------------------------------------------------------
(* No lost wake-up.  The invariant that makes it inductive: the chip is    *)
(* not allowed to pull INT low before its edge interrupt is enabled.       *)
Armed ==
  /\ inte => irqEnabled
  /\ init \in {"create", "reset", "clear", "register", "enable"} => ~inte
  /\ init \in {"enable", "normal", "done"} => irqEnabled

Awake == ServiceAt("wait") /\ intSem = 0 /\ IntLow => irqPending

WakeInv == TypeOK /\ Armed /\ Awake

LEMMA RaiseWakes ==
  ASSUME WakeInv, NEW flag, Raise(flag), UNCHANGED <<init, service, intSem>>
  PROVE  Armed' /\ Awake'
  BY DEF WakeInv, Armed, Awake, Raise, ServiceAt, IntLow

LEMMA ChipWakes ==
  ASSUME WakeInv, Chip
  PROVE  Armed' /\ Awake'
  <1>. USE DEF Chip, shared, semVars
  <1>1. ASSUME NEW b \in Buffers, FrameArrives(b)
        PROVE  Armed' /\ Awake'
    BY <1>1, RaiseWakes, Zenon DEF FrameArrives
  <1>2. CASE TransmitDone
    BY <1>2, RaiseWakes, Zenon DEF TransmitDone
  <1>3. CASE BusError
    BY <1>3, RaiseWakes, Zenon DEF BusError
  <1>4. CASE BusOffEnds
    BY <1>4 DEF BusOffEnds, pinVars, WakeInv, Armed, Awake, ServiceAt, IntLow
  <1>. QED BY <1>1, <1>2, <1>3, <1>4 DEF ChipStep

LEMMA BringUpWakes ==
  ASSUME WakeInv, BringUp
  PROVE  Armed' /\ Awake'
  <1>. USE DEF WakeInv, Armed, Awake, ServiceAt, IntLow, Bringing, shared, semVars
  <1>1. CASE InitCreate
    BY <1>1 DEF InitCreate, chipVars, pinVars
  <1>2. CASE InitReset
    BY <1>2 DEF InitReset, chipVars, pinVars
  <1>3. CASE InitClearInterrupts
    BY <1>3 DEF InitClearInterrupts, chipVars, pinVars
  <1>4. CASE InitRegisterIrq
    BY <1>4 DEF InitRegisterIrq, chipVars, pinVars
  <1>5. CASE InitEnableInterrupts
    BY <1>5 DEF InitEnableInterrupts, chipVars, pinVars
  <1>6. CASE InitNormalMode
    BY <1>6 DEF InitNormalMode, chipVars, pinVars
  <1>. QED BY <1>1, <1>2, <1>3, <1>4, <1>5, <1>6 DEF BringUp

LEMMA ServiceWakes ==
  ASSUME WakeInv, ServiceStep
  PROVE  Armed' /\ Awake'
  <1>. USE DEF ServiceAt, ServiceGoto, shared, semVars, appVars, chipVars, pinVars
  <1>1. CASE ServicePoll
    BY <1>1 DEF ServicePoll, WakeInv, Armed, Awake, IntLow
  <1>2. CASE ServiceWait
    BY <1>2 DEF ServiceWait, WakeInv, Armed, Awake, IntLow, TypeOK, ServiceLocals
  <1>3. ASSUME ~ServicePoll, ~ServiceWait
        PROVE  service'.pc # "wait" /\ UNCHANGED <<init, inte, irqEnabled>>
    <2>. USE <1>3 DEF WakeInv, TypeOK, ServiceLocals
    <2>1. CASE ServiceGate
      BY <2>1 DEF ServiceGate
    <2>2. CASE ServiceRead
      BY <2>2 DEF ServiceRead
    <2>3. CASE ServiceReadEflg
      BY <2>3 DEF ServiceReadEflg
    <2>4. CASE ServiceClearErrors
      BY <2>4 DEF ServiceClearErrors, ClearFlag
    <2>5. CASE ServiceConfigMode
      BY <2>5 DEF ServiceConfigMode
    <2>6. CASE ServiceNormalMode
      BY <2>6 DEF ServiceNormalMode
    <2>7. CASE ServiceErrorPending
      BY <2>7 DEF ServiceErrorPending
    <2>8. CASE ServiceErrorGive
      BY <2>8 DEF ServiceErrorGive, AtPoll
    <2>9. CASE ServiceClearRx
      BY <2>9 DEF ServiceClearRx, ClearFlag, AfterRx
    <2>10. CASE ServiceLoadPending
      BY <2>10 DEF ServiceLoadPending
    <2>11. CASE ServiceStorePending
      BY <2>11 DEF ServiceStorePending, AfterRx
    <2>12. CASE ServiceClearTx
      BY <2>12 DEF ServiceClearTx, ClearFlag
    <2>13. CASE ServiceTxPending
      BY <2>13 DEF ServiceTxPending
    <2>14. CASE ServiceGiveRx
      BY <2>14 DEF ServiceGiveRx
    <2>15. CASE ServiceGiveTx
      BY <2>15 DEF ServiceGiveTx, AtPoll
    <2>. QED
      BY <2>1, <2>2, <2>3, <2>4, <2>5, <2>6, <2>7, <2>8, <2>9, <2>10, <2>11, <2>12, <2>13, <2>14, <2>15
      DEF ServiceStep
  <1>. QED BY <1>1, <1>2, <1>3 DEF WakeInv, Armed, Awake

LEMMA OthersWake ==
  ASSUME WakeInv, IrqHandler \/ ReaderStep \/ SendCall \/ SenderStep \/ UNCHANGED vars
  PROVE  Armed' /\ Awake'
  <1>1. CASE IrqHandler
    BY <1>1 DEF IrqHandler, WakeInv, Armed, Awake, ServiceAt, IntLow, appVars
  <1>2. ASSUME ReaderStep \/ SendCall \/ SenderStep \/ UNCHANGED vars
        PROVE  UNCHANGED <<init, service, intSem, pinVars>>
    <2>1. ReaderStep => UNCHANGED ReaderFrame
      BY DEF ReaderStep, ReaderTake, ReaderTest, ReaderLoad, ReaderStore,
             ReaderReadHeader, ReaderReadBody, ReaderFrame
    <2>2. SendCall \/ SenderStep => UNCHANGED SenderFrame
      BY DEF SenderStep, SendCall, SendWait, SendMark, SendHeader, SendBody, SendStart,
             SenderFrame
    <2>. QED
      BY <1>2, <2>1, <2>2
      DEF ReaderFrame, SenderFrame, vars, chipVars, shared, semVars
  <1>3. CASE ReaderStep \/ SendCall \/ SenderStep \/ UNCHANGED vars
    BY <1>2, <1>3 DEF WakeInv, Armed, Awake, ServiceAt, IntLow, pinVars
  <1>. QED BY <1>1, <1>3

(* canService never sleeps over an interrupt of a chip that was powered up *)
(* with the processor (run, irqHandler and initialInTask,                  *)
(* mcp2515Task.cpp:13-88).  A chip that ran on through a restart can pull  *)
(* INT low before its edge is watched.                                     *)
THEOREM InterruptsAreNotSleptOver ==
  ASSUME ~WarmBoot
  PROVE  Spec => []NoLostWakeup
  <1>1. Init => WakeInv
    <2>. SUFFICES ASSUME Init PROVE WakeInv
      OBVIOUS
    <2>1. TypeOK
      BY InitType
    <2>2. Armed
      BY Zenon DEF Init, ChipInit, Armed
    <2>3. Awake
      BY Zenon DEF Init, ChipInit, Awake, IntLow
    <2>. QED BY <2>1, <2>2, <2>3 DEF WakeInv
  <1>2. WakeInv /\ [Next]_vars => WakeInv'
    <2>. SUFFICES ASSUME WakeInv, [Next]_vars PROVE WakeInv'
      OBVIOUS
    <2>1. TypeOK'
      BY StepType DEF WakeInv
    <2>2. Armed' /\ Awake'
      BY ChipWakes, BringUpWakes, ServiceWakes, OthersWake DEF Next, Service, Users
    <2>. QED BY <2>1, <2>2 DEF WakeInv
  <1>3. WakeInv => NoLostWakeup
    BY DEF WakeInv, Awake, NoLostWakeup
  <1>. QED BY <1>1, <1>2, <1>3, PTL DEF Spec
=============================================================================
