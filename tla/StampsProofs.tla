---------------------------- MODULE StampsProofs ----------------------------
(***************************************************************************)
(* Proofs about the clock of module Stamps, for every width of a word,     *)
(* every split of a second and any number of frames and events.            *)
(***************************************************************************)
EXTENDS Stamps, TLAPS

(* Division by a unit: quotient and remainder.                             *)
LEMMA Division ==
  ASSUME NEW u \in Nat \ {0}, NEW x \in Nat
  PROVE  /\ x \div u \in Nat /\ x % u \in 0..(u - 1)
         /\ x = u * (x \div u) + (x % u)
  OBVIOUS

LEMMA ProductType == \A a, b \in Nat : a * b \in Nat
  OBVIOUS

LEMMA Monotone ==
  ASSUME NEW a \in Nat, NEW b \in Nat, NEW c \in Nat \ {0}, a < b
  PROVE  a * c < b * c
  OBVIOUS

LEMMA Distribute == \A a, b, c \in Nat : (a + b) * c = a * c + b * c
  OBVIOUS
LEMMA QuotientMonotone ==
  ASSUME NEW u \in Nat \ {0}, NEW x \in Nat, NEW y \in Nat, x < y
  PROVE  \/ x \div u < y \div u
         \/ x \div u = y \div u /\ x % u < y % u
  <1>. DEFINE p == x \div u
              q == y \div u
  <1>1. p \in Nat /\ x % u \in 0..(u - 1) /\ x = u * p + (x % u)
    BY Division
  <1>2. q \in Nat /\ y % u \in 0..(u - 1) /\ y = u * q + (y % u)
    BY Division
  <1>. HIDE DEF p, q
  <1>3. ~(q < p)
    <2>. SUFFICES ASSUME q < p
                  PROVE  FALSE
      OBVIOUS
    <2>1. u * (q + 1) <= u * p
      BY <1>1, <1>2
    <2>2. u * (q + 1) = u * q + u
      BY <1>2
    <2>. QED BY <1>1, <1>2, <2>1, <2>2
  <1>4. p = q => x % u < y % u
    BY <1>1, <1>2
  <1>. QED BY <1>1, <1>2, <1>3, <1>4 DEF p, q

-----------------------------------------------------------------------------
(* The record types of the two tasks, and the clock, which only counts.    *)
LEMMA WordsType ==
  ASSUME NEW t \in Nat
  PROVE  Words(t) \in [lo : Nat, hi : Nat]
  <1>1. t \div Word \in Nat /\ t % Word \in 0..(Word - 1)
    BY Division, UnitsAssumption
  <1>. QED BY <1>1, UnitsAssumption DEF Words

(* canService and rxReadInTask at any time. *)
Service == [pc : {"read", "lo", "hi", "rx0", "rx1", "tx", "give", "err"},
            flags : SUBSET Flags, lo : Nat]
Reader == [pc : {"take", "lo", "hi"}, lo : Nat]

LEMMA InitType == Init => TypeOK
  <1>. SUFFICES ASSUME Init
                PROVE  TypeOK
    OBVIOUS
  <1>1. Words(0) \in [lo : Nat, hi : Nat]
    BY WordsType
  <1>2. frames \in Seq([handled : Nat, at : Nat, edge : BOOLEAN, alone : BOOLEAN])
        /\ stamps \in Seq(Nat)
    BY DEF Init
  <1>3. AtRead \in Service /\ AtTake \in Reader
    BY DEF AtRead, AtTake, Service, Reader
  <1>4. now \in Nat /\ flags \subseteq Flags /\ rxSem \in 0..2
        /\ edges \subseteq Nat /\ others \in Nat
    BY DEF Init
  <1>5. edge \in BOOLEAN
    BY Zenon DEF Init
  <1>6. lastInt \in [lo : Nat, hi : Nat] /\ lastRx \in [lo : Nat, hi : Nat]
    BY <1>1, Zenon DEF Init
  <1>7. service \in Service /\ reader \in Reader
    BY <1>3, Zenon DEF Init
  <1>. QED BY <1>2, <1>4, <1>5, <1>6, <1>7, Zenon DEF TypeOK, Service, Reader

LEMMA AppendType ==
  ASSUME NEW S, NEW s \in Seq(S), NEW e \in S
  PROVE  Append(s, e) \in Seq(S)
  OBVIOUS

LEMMA SequenceOfLength ==
  ASSUME NEW S, NEW n \in Nat, NEW f \in [1..n -> S]
  PROVE  f \in Seq(S)
  OBVIOUS

LEMMA ElementType ==
  ASSUME NEW S, NEW s \in Seq(S)
  PROVE  Len(s) \in Nat /\ \A i \in 1..Len(s) : s[i] \in S
  OBVIOUS

LEMMA ReplaceType ==
  ASSUME NEW S, NEW s \in Seq(S), NEW i \in 1..Len(s), NEW e \in S
  PROVE  [s EXCEPT ![i] = e] \in Seq(S)
  <1>1. [s EXCEPT ![i] = e] \in [1..Len(s) -> S]
    OBVIOUS
  <1>. QED BY <1>1, SequenceOfLength

LEMMA TypeStep ==
  ASSUME TypeOK, Next
  PROVE  TypeOK'
  <1>. DEFINE Frame == [handled : Nat, at : Nat, edge : BOOLEAN, alone : BOOLEAN]
  <1>. USE DEF busVars, AtRead, AtTake
  <1>1. CASE Tick
    BY <1>1 DEF Tick, TypeOK
  <1>2. CASE FrameArrives
    <2>1. flags' \subseteq Flags
      BY <1>2 DEF FrameArrives, Raise, TypeOK, Flags, RxFlags
    <2>2. edge' \in BOOLEAN
      BY <1>2, Zenon DEF FrameArrives, Raise, TypeOK
    <2>3. frames' \in Seq(Frame)
      <3>. DEFINE old == [i \in 1..Len(frames) |->
             IF i > Len(stamps) THEN [frames[i] EXCEPT !.alone = FALSE] ELSE frames[i]]
           new == [at |-> now, edge |-> flags = {}, handled |-> 0, alone |-> TRUE]
      <3>1. old \in Seq(Frame)
        <4>. frames \in Seq(Frame)
          BY Zenon DEF TypeOK
        <4>1. Len(frames) \in Nat /\ \A i \in 1..Len(frames) : frames[i] \in Frame
          BY ElementType
        <4>2. old \in [1..Len(frames) -> Frame]
          BY <4>1
        <4>. HIDE DEF old
        <4>. QED BY <4>1, <4>2, SequenceOfLength
      <3>2. (flags = {}) \in BOOLEAN
        OBVIOUS
      <3>3. new \in Frame
        BY <3>2 DEF TypeOK
      <3>4. frames' = Append(old, new)
        BY <1>2, Zenon DEF FrameArrives
      <3>. QED BY <3>1, <3>3, <3>4, AppendType
    <2>. QED BY <1>2, <2>1, <2>2, <2>3 DEF FrameArrives, TypeOK
  <1>3. ASSUME NEW f \in {"TX0", "ERR"}, OtherEvent(f)
        PROVE  TypeOK'
    <2>1. edge' \in BOOLEAN
      BY <1>3, Zenon DEF OtherEvent, Raise, TypeOK
    <2>. QED BY <1>3, <2>1 DEF OtherEvent, Raise, TypeOK, Flags
  <1>4. CASE IrqHandler
    <2>1. lastInt' \in [lo : Nat, hi : Nat]
      BY <1>4, WordsType DEF IrqHandler, Handle, TypeOK
    <2>2. frames' \in Seq(Frame)
      <3>. DEFINE n == Len(frames)
      <3>1. CASE frames' = frames
        BY <3>1 DEF TypeOK
      <3>2. CASE frames # << >> /\ frames' = [frames EXCEPT ![n].handled = now]
        <4>. frames \in Seq(Frame) /\ now \in Nat
          BY Zenon DEF TypeOK
        <4>. HIDE DEF Frame
        <4>1. n \in 1..Len(frames)
          BY <3>2
        <4>2. frames[n] \in Frame
          BY <4>1, ElementType
        <4>. USE DEF Frame
        <4>3. [frames[n] EXCEPT !.handled = now] \in Frame
          BY <4>2
        <4>4. [frames EXCEPT ![n] = [frames[n] EXCEPT !.handled = now]] \in Seq(Frame)
          BY <4>1, <4>3, ReplaceType
        <4>. QED BY <3>2, <4>4
      <3>. QED BY <1>4, <3>1, <3>2 DEF IrqHandler, Handle
    <2>. QED BY <1>4, <2>1, <2>2 DEF IrqHandler, Handle, TypeOK
  <1>5. CASE ServiceStep
    <2>1. UNCHANGED <<now, edge, frames, others, lastInt, reader, stamps, edges>>
      BY <1>5 DEF ServiceStep, ServiceRead, ServiceError, ServiceLoad, ServiceStore,
        ServiceClear, ServiceGive, ServiceFrame
    <2>2. flags' \subseteq Flags
      BY <1>5 DEF ServiceStep, ServiceRead, ServiceError, ServiceLoad, ServiceStore,
        ServiceClear, ServiceGive, Clear, TypeOK
    <2>3. lastRx' \in [lo : Nat, hi : Nat]
      BY <1>5 DEF ServiceStep, ServiceRead, ServiceError, ServiceLoad, ServiceStore,
        ServiceClear, ServiceGive, TypeOK
    <2>4. rxSem' \in 0..2
      BY <1>5 DEF ServiceStep, ServiceRead, ServiceError, ServiceLoad, ServiceStore,
        ServiceClear, ServiceGive, TypeOK
    <2>5. service' \in Service
      <3>1. service \in Service /\ flags \subseteq Flags /\ lastInt.lo \in Nat
        BY DEF TypeOK, Service
      <3>2. AtRead \in Service
        BY DEF Service
      <3>3. CASE ServiceRead
        BY <3>1, <3>3 DEF ServiceRead, Service
      <3>4. CASE ServiceError \/ ServiceGive
        BY <3>2, <3>4 DEF ServiceError, ServiceGive
      <3>5. CASE ServiceLoad
        BY <3>1, <3>5 DEF ServiceLoad, Service
      <3>6. CASE ServiceStore
        BY <3>1, <3>6 DEF ServiceStore, Service
      <3>7. ASSUME NEW from, NEW f, NEW to \in {"rx1", "tx", "give"}, ServiceClear(from, f, to)
            PROVE  service' \in Service
        BY <3>1, <3>7 DEF ServiceClear, Service
      <3>. QED BY <1>5, <3>3, <3>4, <3>5, <3>6, <3>7 DEF ServiceStep
    <2>. QED BY <2>1, <2>2, <2>3, <2>4, <2>5 DEF TypeOK, Service
  <1>6. CASE ReaderTake
    <2>1. reader' \in Reader
      BY <1>6 DEF ReaderTake, TypeOK, Reader
    <2>2. rxSem' \in 0..2
      BY <1>6 DEF ReaderTake, TypeOK
    <2>. QED BY <1>6, <2>1, <2>2 DEF ReaderTake, ReaderRuns, TypeOK, Reader
  <1>7. CASE ReaderLoad
    BY <1>7 DEF ReaderLoad, ReaderRuns, TypeOK
  <1>8. CASE ReaderStamp
    <2>1. Time(reader.lo, lastRx.hi) \in Nat
      <3>1. reader.lo \in Nat /\ lastRx.hi \in Nat /\ Word \in Nat
        BY UnitsAssumption DEF TypeOK
      <3>2. lastRx.hi * Word \in Nat
        BY <3>1, ProductType
      <3>. QED BY <3>1, <3>2 DEF Time
    <2>2. stamps' \in Seq(Nat)
      BY <1>8, <2>1, AppendType DEF ReaderStamp, TypeOK
    <2>. QED BY <1>8, <2>2 DEF ReaderStamp, ReaderRuns, TypeOK
  <1>. QED BY <1>1, <1>2, <1>3, <1>4, <1>5, <1>6, <1>7, <1>8 DEF Next

(* What the counter, the flags, the tasks and the time stamps can be.      *)
THEOREM TypeCorrect == Spec => []TypeOK
  <1>1. TypeOK /\ [Next]_vars => TypeOK'
    <2>1. TypeOK /\ UNCHANGED vars => TypeOK'
      BY DEF TypeOK, vars, busVars
    <2>. QED BY <2>1, TypeStep
  <1>. QED BY <1>1, InitType, PTL DEF Spec

-----------------------------------------------------------------------------
(* clock_gettime returns the counter, exactly, with the nanoseconds below  *)
(* a second, at every time (posix_time.c:9-16).                            *)
THEOREM ClockExact == Spec => []TimespecExact
  <1>1. TypeOK => TimespecExact
    <2>. SUFFICES ASSUME TypeOK
                  PROVE  TimespecExact
      OBVIOUS
    <2>. DEFINE q == now \div UsPerSec
                r == now % UsPerSec
    <2>1. now \in Nat /\ UsPerSec \in Nat \ {0} /\ NsPerUs \in Nat \ {0}
      BY UnitsAssumption DEF TypeOK
    <2>2. q \in Nat /\ r \in 0..(UsPerSec - 1) /\ now = UsPerSec * q + r
      BY <2>1, Division
    <2>. HIDE DEF q, r
    <2>3. r * NsPerUs < UsPerSec * NsPerUs
      BY <2>1, <2>2, Monotone
    <2>4. UsPerSec * q = q * UsPerSec /\ q * UsPerSec \in Nat
      BY <2>1, <2>2
    <2>5. (q * UsPerSec * NsPerUs) + r * NsPerUs = now * NsPerUs
      BY <2>1, <2>2, <2>4, Distribute
    <2>. QED BY <2>3, <2>5 DEF TimespecExact, Timespec, q, r
  <1>. QED BY <1>1, TypeCorrect, PTL

(* ... and never steps back (posix_time.c:8).                              *)
THEOREM ClockDoesNotStepBack == Spec => ClockMonotone
  <1>. DEFINE Forward ==
         LET before == Timespec(now)
             after == Timespec(now')
         IN \/ after.sec > before.sec
            \/ after.sec = before.sec /\ after.nsec > before.nsec
  <1>1. TypeOK /\ [Next]_vars => [Forward]_now
    <2>. SUFFICES ASSUME TypeOK, [Next]_vars, now' # now
                  PROVE  Forward
      OBVIOUS
    <2>1. now \in Nat /\ UsPerSec \in Nat \ {0} /\ NsPerUs \in Nat \ {0}
      BY UnitsAssumption DEF TypeOK
    <2>2. Tick
      BY DEF vars, Next, FrameArrives, OtherEvent, IrqHandler, Handle, ServiceStep, ServiceRead,
        ServiceError, ServiceLoad, ServiceStore, ServiceClear, ServiceGive, ServiceFrame,
        ReaderTake, ReaderLoad, ReaderStamp, ReaderRuns
    <2>3. now' \in Nat /\ now < now'
      BY <2>1, <2>2 DEF Tick
    <2>. DEFINE p == now \div UsPerSec
                r == now % UsPerSec
                q == now' \div UsPerSec
                s == now' % UsPerSec
    <2>4. p \in Nat /\ q \in Nat /\ r \in Nat /\ s \in Nat
      <3>1. now' \in Nat
        BY <2>3
      <3>2. p \in Nat /\ r \in 0..(UsPerSec - 1)
        BY <2>1, Division
      <3>3. q \in Nat /\ s \in 0..(UsPerSec - 1)
        BY <2>1, <3>1, Division
      <3>. QED BY <2>1, <3>2, <3>3
    <2>5. p < q \/ (p = q /\ r < s)
      BY <2>1, <2>3, QuotientMonotone
    <2>. HIDE DEF p, q, r, s
    <2>6. r < s => r * NsPerUs < s * NsPerUs
      BY <2>1, <2>4, Monotone
    <2>7. r * NsPerUs \in Nat /\ s * NsPerUs \in Nat
      BY <2>1, <2>4, ProductType
    <2>. QED BY <2>4, <2>5, <2>6, <2>7 DEF Timespec, p, q, r, s
  <1>. QED BY <1>1, TypeCorrect, PTL DEF ClockMonotone, Spec
-----------------------------------------------------------------------------
(* Why the stamps are right: the inductive invariant, in parts.  An edge   *)
(* is latched only while a flag holds INT low, and every flag that is up   *)
(* after its edge was handled follows some edge.                           *)
IntIsLow ==
  /\ edge => flags # {}
  /\ flags # {} => edge \/ edges # {}
  /\ edges # {} => \E e \in edges : lastInt = Words(e)
  /\ service.pc # "read" => edges # {}

(* From the read of the flags to the first clear the pass holds INT low:   *)
(* no edge comes, and the two words it copies are of one edge.             *)
Noting == {"lo", "hi", "rx0"}

PassHoldsInt ==
  /\ service.pc \in Noting =>
       /\ ~edge
       /\ service.flags \cap RxFlags # {}
       /\ service.flags \cap RxFlags \subseteq flags
  /\ service.pc = "rx1" /\ "RX1" \in service.flags => "RX1" \in flags
  /\ service.pc = "hi" => service.lo = lastInt.lo
  /\ service.pc = "rx0" => lastRx = lastInt

(* A pass past the note, a token or a reader under way means that some     *)
(* edge has been noted.                                                    *)
Noted ==
  (\/ service.pc \notin {"read", "lo", "hi", "err"} /\ service.flags \cap RxFlags # {}
   \/ rxSem > 0
   \/ reader.pc # "take") => \E e \in edges : lastRx = Words(e)

ReaderHoldsEdge ==
  reader.pc = "hi" => \E e \in edges : reader.lo = e % Word

EdgeInv == IntIsLow /\ PassHoldsInt /\ Noted /\ ReaderHoldsEdge /\ StampIsAnEdge

LEMMA WholeTime ==
  ASSUME NEW e \in Nat, NEW f \in Nat, e \div Word = f \div Word
  PROVE  /\ Words(e) = [lo |-> e % Word, hi |-> e \div Word]
         /\ Time(e % Word, Words(f).hi) = e
  <1>. DEFINE q == e \div Word
              r == e % Word
  <1>1. q \in Nat /\ r \in 0..(Word - 1) /\ e = Word * q + r /\ Word \in Nat
    BY Division, UnitsAssumption
  <1>2. Words(f).hi = q
    BY DEF Words
  <1>. HIDE DEF q, r
  <1>3. Word * q = q * Word /\ r \in Nat
    BY <1>1
  <1>. QED BY <1>1, <1>2, <1>3 DEF Words, Time, q, r

LEMMA EdgeInit == Init => EdgeInv
  BY DEF Init, AtRead, AtTake, EdgeInv, IntIsLow, PassHoldsInt, Noted, ReaderHoldsEdge,
    Noting, StampIsAnEdge

(* The chip, the clock: a flag that rises while another is up makes no edge. *)
LEMMA EdgeRaise ==
  ASSUME TypeOK, EdgeInv, NEW f \in Flags, Raise(f),
         UNCHANGED <<lastInt, lastRx, service, reader, rxSem, stamps, edges>>
  PROVE  EdgeInv'
  <1>1. IntIsLow'
    BY DEF Raise, TypeOK, EdgeInv, IntIsLow
  <1>2. PassHoldsInt'
    BY DEF Raise, TypeOK, EdgeInv, PassHoldsInt, Noting
  <1>3. Noted' /\ ReaderHoldsEdge' /\ StampIsAnEdge'
    BY DEF EdgeInv, Noted, ReaderHoldsEdge, StampIsAnEdge, Epoch
  <1>. QED BY <1>1, <1>2, <1>3 DEF EdgeInv

LEMMA EdgeIrq ==
  ASSUME TypeOK, EdgeInv, IrqHandler
  PROVE  EdgeInv'
  <1>. USE DEF IrqHandler, Handle
  <1>1. IntIsLow'
    BY DEF TypeOK, EdgeInv, IntIsLow
  <1>2. PassHoldsInt'
    BY DEF TypeOK, EdgeInv, PassHoldsInt, Noting
  <1>3. Noted' /\ ReaderHoldsEdge'
    BY DEF TypeOK, EdgeInv, Noted, ReaderHoldsEdge
  <1>4. StampIsAnEdge'
    BY DEF EdgeInv, StampIsAnEdge, Epoch
  <1>. QED BY <1>1, <1>2, <1>3, <1>4 DEF EdgeInv

LEMMA EdgeService ==
  ASSUME TypeOK, EdgeInv, ServiceStep
  PROVE  EdgeInv'
  <1>1. /\ ~edge
        /\ UNCHANGED <<edge, edges, lastInt, reader, stamps>>
        /\ service \in Service /\ flags \subseteq Flags
    BY DEF ServiceStep, ServiceRead, ServiceError, ServiceLoad, ServiceStore,
      ServiceClear, ServiceGive, ServiceFrame, TypeOK, Service
  <1>2. ReaderHoldsEdge' /\ StampIsAnEdge'
    BY <1>1 DEF EdgeInv, ReaderHoldsEdge, StampIsAnEdge, Epoch
  <1>. SUFFICES IntIsLow' /\ PassHoldsInt' /\ Noted'
    BY <1>2 DEF EdgeInv
  <1>. USE DEF Noting, AtRead
  <1>3. CASE ServiceRead
    <2>1. IntIsLow'
      BY <1>1, <1>3 DEF ServiceRead, EdgeInv, IntIsLow
    <2>2. PassHoldsInt'
      BY <1>1, <1>3 DEF ServiceRead, EdgeInv, PassHoldsInt, Service, RxFlags
    <2>3. Noted'
      BY <1>1, <1>3 DEF ServiceRead, EdgeInv, Noted, Service, RxFlags
    <2>. QED BY <2>1, <2>2, <2>3
  <1>4. CASE ServiceError
    BY <1>1, <1>4 DEF ServiceError, Clear, EdgeInv, IntIsLow, PassHoldsInt, Noted
  <1>5. CASE ServiceLoad
    BY <1>1, <1>5 DEF ServiceLoad, EdgeInv, IntIsLow, PassHoldsInt, Noted, Service
  <1>6. CASE ServiceStore
    <2>1. lastInt \in [lo : Nat, hi : Nat]
      BY DEF TypeOK
    <2>2. lastRx' = lastInt
      BY <1>1, <1>6, <2>1 DEF ServiceStore, EdgeInv, PassHoldsInt
    <2>3. \E e \in edges : lastInt = Words(e)
      BY <1>6 DEF ServiceStore, EdgeInv, IntIsLow
    <2>4. IntIsLow' /\ Noted'
      BY <1>1, <1>6, <2>2, <2>3 DEF ServiceStore, EdgeInv, IntIsLow, Noted, Service
    <2>5. PassHoldsInt'
      BY <1>1, <1>6, <2>2 DEF ServiceStore, EdgeInv, PassHoldsInt, Service
    <2>. QED BY <2>4, <2>5
  <1>7. CASE ServiceClear("rx0", "RX0", "rx1")
    <2>1. IntIsLow' /\ Noted'
      BY <1>1, <1>7 DEF ServiceClear, Clear, EdgeInv, IntIsLow, Noted, Service
    <2>2. PassHoldsInt'
      BY <1>1, <1>7 DEF ServiceClear, Clear, EdgeInv, PassHoldsInt, Service, RxFlags
    <2>. QED BY <2>1, <2>2
  <1>8. CASE ServiceClear("rx1", "RX1", "tx") \/ ServiceClear("tx", "TX0", "give")
    BY <1>1, <1>8 DEF ServiceClear, Clear, EdgeInv, IntIsLow, PassHoldsInt, Noted, Service
  <1>9. CASE ServiceGive
    BY <1>1, <1>9 DEF ServiceGive, EdgeInv, IntIsLow, PassHoldsInt, Noted, TypeOK, RxFlags
  <1>. QED BY <1>3, <1>4, <1>5, <1>6, <1>7, <1>8, <1>9 DEF ServiceStep

LEMMA EdgeReader ==
  ASSUME TypeOK, EdgeInv, ReaderTake \/ ReaderLoad \/ ReaderStamp
  PROVE  EdgeInv'
  <1>1. /\ UNCHANGED <<edge, flags, lastInt, lastRx, service, edges>>
        /\ reader \in Reader /\ rxSem \in 0..2
    BY DEF ReaderTake, ReaderLoad, ReaderStamp, ReaderRuns, busVars, TypeOK, Reader
  <1>2. IntIsLow' /\ PassHoldsInt'
    BY <1>1 DEF EdgeInv, IntIsLow, PassHoldsInt
  <1>3. Noted'
    BY <1>1 DEF ReaderTake, ReaderLoad, ReaderStamp, AtTake, EdgeInv, Noted, Reader
  <1>4. CASE ReaderTake
    <2>1. ReaderHoldsEdge' /\ StampIsAnEdge'
      BY <1>1, <1>4 DEF ReaderTake, EdgeInv, ReaderHoldsEdge, StampIsAnEdge, Epoch, Reader
    <2>. QED BY <1>2, <1>3, <2>1 DEF EdgeInv
  <1>5. CASE ReaderLoad
    <2>1. ReaderHoldsEdge' /\ StampIsAnEdge'
      BY <1>1, <1>5 DEF ReaderLoad, EdgeInv, Noted, ReaderHoldsEdge, StampIsAnEdge, Epoch,
        Words
    <2>. QED BY <1>2, <1>3, <2>1 DEF EdgeInv
  <1>6. CASE ReaderStamp
    <2>. DEFINE t == Time(reader.lo, lastRx.hi)
    <2>1. stamps' = Append(stamps, t) /\ reader' = AtTake /\ reader.pc = "hi"
      BY <1>6 DEF ReaderStamp
    <2>2. ReaderHoldsEdge'
      BY <2>1 DEF ReaderHoldsEdge, AtTake
    <2>3. Epoch => t \in edges
      <3>. SUFFICES ASSUME Epoch
                    PROVE  t \in edges
        OBVIOUS
      <3>1. PICK e \in edges : reader.lo = e % Word
        BY <2>1 DEF EdgeInv, ReaderHoldsEdge
      <3>2. PICK f \in edges : lastRx = Words(f)
        BY <2>1 DEF EdgeInv, Noted
      <3>3. e \in Nat /\ f \in Nat /\ e \div Word = f \div Word
        BY DEF TypeOK, Epoch
      <3>. QED BY <3>1, <3>2, <3>3, WholeTime
    <2>4. StampIsAnEdge'
      <3>. HIDE DEF t
      <3>1. stamps \in Seq(Nat)
        BY DEF TypeOK
      <3>2. Len(stamps') = Len(stamps) + 1
            /\ \A i \in 1..Len(stamps') : stamps'[i] = IF i <= Len(stamps) THEN stamps[i] ELSE t
        BY <2>1, <3>1
      <3>. QED BY <1>1, <2>3, <3>1, <3>2 DEF EdgeInv, StampIsAnEdge, Epoch
    <2>. QED BY <1>2, <1>3, <2>2, <2>4 DEF EdgeInv
  <1>. QED BY <1>4, <1>5, <1>6

LEMMA EdgeStep ==
  ASSUME TypeOK, EdgeInv, [Next]_vars
  PROVE  EdgeInv'
  <1>. DEFINE Still == UNCHANGED <<flags, edge, lastInt, lastRx, service, reader, rxSem,
                                   stamps, edges>>
  <1>1. CASE Still
    BY <1>1 DEF EdgeInv, IntIsLow, PassHoldsInt, Noted, ReaderHoldsEdge, StampIsAnEdge, Epoch
  <1>2. CASE FrameArrives
    <2>1. PICK f \in RxFlags : Raise(f)
      BY <1>2 DEF FrameArrives, RxFlags
    <2>. QED BY <1>2, <2>1, EdgeRaise DEF FrameArrives, Flags
  <1>3. CASE OtherEvent("TX0") \/ OtherEvent("ERR")
    BY <1>3, EdgeRaise DEF OtherEvent, Flags
  <1>4. CASE Tick \/ UNCHANGED vars
    BY <1>1, <1>4 DEF Tick, vars, busVars
  <1>. QED BY <1>2, <1>3, <1>4, EdgeIrq, EdgeService, EdgeReader DEF Next

(* Every frame is given the time of one edge, no mixture of two, as long   *)
(* as the upper word did not change between edges (mcp2515Task.cpp:70,     *)
(* 100): what canService copies is of one edge because INT stays low until *)
(* it has copied, and what the reader mixes has one upper word.            *)
THEOREM StampsAreEdges == Spec => []StampIsAnEdge
  <1>1. EdgeInv => StampIsAnEdge
    BY DEF EdgeInv
  <1>. QED BY <1>1, EdgeInit, EdgeStep, TypeCorrect, PTL DEF Spec

-----------------------------------------------------------------------------
(* A flag, an owed token, a token and the reader each stand for an unread  *)
(* frame of their own.                                                     *)
Bit(p) == IF p THEN 1 ELSE 0

Up == Bit("RX0" \in flags) + Bit("RX1" \in flags)
Owed == Bit("RX0" \in service.flags /\ service.pc \in {"rx1", "tx", "give"})
        + Bit("RX1" \in service.flags /\ service.pc \in {"tx", "give"})

EachStandsForAFrame ==
  Up + Owed + rxSem + Bit(reader.pc # "take") + Len(stamps) <= Len(frames)

(* Of the unread frames only the last can be alone. *)
OnlyLastIsAlone ==
  \A i \in 1..Len(frames) : i > Len(stamps) /\ i < Len(frames) => ~frames[i].alone

(* The last frame, when it pulled INT low itself: it is in RXB0 and no     *)
(* frame is in RXB1; until canService clears its flag the last edge is its *)
(* own, and from then on the time noted is that edge's.                    *)
LastFrame == frames[Len(frames)]

OwnEdge ==
  Len(frames) > 0 /\ LastFrame.edge =>
    /\ "RX1" \notin flags
    /\ Len(stamps) < Len(frames) =>
         IF "RX0" \in flags
           THEN IF edge THEN LastFrame.handled = 0
                ELSE lastInt = Words(LastFrame.handled) /\ LastFrame.handled >= LastFrame.at
           ELSE lastRx = Words(LastFrame.handled) /\ LastFrame.handled >= LastFrame.at

(* The reader of the last frame has loaded the lower word of that time. *)
ReaderHoldsLast ==
  reader.pc = "hi" /\ Len(stamps) + 1 = Len(frames) => reader.lo = lastRx.lo

Started == now >= 1 /\ \A i \in 1..Len(frames) : frames[i].at \in 1..now

OwnInv == EachStandsForAFrame /\ OnlyLastIsAlone /\ OwnEdge /\ ReaderHoldsLast
          /\ Started /\ StampIsOwnEdge

Frame == [handled : Nat, at : Nat, edge : BOOLEAN, alone : BOOLEAN]

LEMMA FrameTypes ==
  ASSUME TypeOK
  PROVE  /\ frames \in Seq(Frame) /\ Len(frames) \in Nat
         /\ \A i \in 1..Len(frames) : frames[i] \in Frame
         /\ stamps \in Seq(Nat) /\ Len(stamps) \in Nat
         /\ now \in Nat /\ rxSem \in 0..2 /\ service \in Service /\ reader \in Reader
  <1>1. frames \in Seq(Frame) /\ stamps \in Seq(Nat)
    BY DEF TypeOK, Frame
  <1>2. now \in Nat /\ rxSem \in 0..2 /\ service \in Service /\ reader \in Reader
    BY DEF TypeOK, Service, Reader
  <1>. QED BY <1>1, <1>2, ElementType

LEMMA CountsAreNat == Up \in 0..2 /\ Owed \in 0..2 /\ \A p : Bit(p) \in 0..1
  BY DEF Up, Owed, Bit

(* As many stamps as frames at the most. *)
LEMMA StampsHaveFrames ==
  ASSUME TypeOK, OwnInv
  PROVE  /\ Len(stamps) <= Len(frames)
         /\ reader.pc # "take" => Len(stamps) + 1 + Up <= Len(frames)
  BY FrameTypes, CountsAreNat DEF OwnInv, EachStandsForAFrame, Bit

LEMMA OwnInit == Init => OwnInv
  BY DEF Init, AtRead, AtTake, OwnInv, EachStandsForAFrame, Up, Owed, Bit, OnlyLastIsAlone,
    OwnEdge, ReaderHoldsLast, Started, StampIsOwnEdge

LEMMA OwnTick ==
  ASSUME TypeOK, OwnInv, Tick \/ UNCHANGED vars
  PROVE  OwnInv'
  <1>1. UNCHANGED <<flags, edge, frames, lastInt, lastRx, service, reader, rxSem, stamps>>
        /\ now' \in Nat /\ now <= now'
    BY DEF Tick, vars, busVars, TypeOK
  <1>2. Started'
    BY <1>1, FrameTypes DEF OwnInv, Started
  <1>. QED BY <1>1, <1>2 DEF OwnInv, EachStandsForAFrame, Up, Owed, Bit, OnlyLastIsAlone,
         OwnEdge, LastFrame, ReaderHoldsLast, StampIsOwnEdge

LEMMA OwnOther ==
  ASSUME TypeOK, OwnInv, NEW f \in {"TX0", "ERR"}, OtherEvent(f)
  PROVE  OwnInv'
  <1>1. /\ UNCHANGED <<now, frames, lastInt, lastRx, service, reader, rxSem, stamps>>
        /\ flags' = flags \cup {f} /\ edge' = (edge \/ flags = {})
    BY DEF OtherEvent, Raise
  <1>2. EachStandsForAFrame'
    BY <1>1 DEF OwnInv, EachStandsForAFrame, Up, Owed, Bit
  <1>3. OwnEdge'
    BY <1>1 DEF OwnInv, OwnEdge, LastFrame
  <1>. QED BY <1>1, <1>2, <1>3 DEF OwnInv, OnlyLastIsAlone, ReaderHoldsLast, Started,
         StampIsOwnEdge

LEMMA OwnFrame ==
  ASSUME TypeOK, OwnInv, FrameArrives
  PROVE  OwnInv'
  <1>. DEFINE n == Len(frames)
              new == [at |-> now, edge |-> flags = {}, handled |-> 0, alone |-> TRUE]
              old == [i \in 1..n |->
                IF i > Len(stamps) THEN [frames[i] EXCEPT !.alone = FALSE] ELSE frames[i]]
  <1>1. UNCHANGED <<now, lastInt, lastRx, service, reader, rxSem, stamps>>
    BY DEF FrameArrives
  <1>2. /\ "RX0" \notin flags => flags' = flags \cup {"RX0"}
        /\ "RX0" \in flags => "RX1" \notin flags /\ flags' = flags \cup {"RX1"}
        /\ edge' = (edge \/ flags = {})
    BY DEF FrameArrives, Raise, RxFlags
  <1>3. frames' = Append(old, new)
    BY Zenon DEF FrameArrives
  <1>4. old \in Seq(Frame) /\ Len(old) = n
    <2>1. old \in [1..n -> Frame]
      BY FrameTypes DEF Frame
    <2>. QED BY <2>1, FrameTypes, SequenceOfLength
  <1>5. Len(frames') = n + 1 /\ frames'[n + 1] = new
        /\ \A i \in 1..n : frames'[i] = old[i]
    <2>. HIDE DEF old, new
    <2>. QED BY <1>3, <1>4, FrameTypes
  <1>6. \A i \in 1..n : /\ frames'[i].at = frames[i].at
                        /\ i > Len(stamps) => ~frames'[i].alone
                        /\ i <= Len(stamps) => frames'[i] = frames[i]
    <2>. SUFFICES ASSUME NEW i \in 1..n
                  PROVE  /\ old[i].at = frames[i].at
                         /\ i > Len(stamps) => ~old[i].alone
                         /\ i <= Len(stamps) => old[i] = frames[i]
      BY <1>5, Zenon
    <2>1. frames[i] \in Frame /\ i \in Nat /\ Len(stamps) \in Nat
      BY FrameTypes
    <2>2. CASE i > Len(stamps)
      <3>1. old[i] = [frames[i] EXCEPT !.alone = FALSE]
        BY <2>2
      <3>2. [frames[i] EXCEPT !.alone = FALSE].alone = FALSE
        BY <2>1, Zenon DEF Frame
      <3>. QED BY <2>1, <2>2, <3>1, <3>2 DEF Frame
    <2>3. CASE ~(i > Len(stamps))
      BY <2>1, <2>3
    <2>. QED BY <2>2, <2>3
  <1>7. new.at = now /\ new.handled = 0 /\ (new.edge => flags = {})
    OBVIOUS
  <1>. HIDE DEF old, new
  <1>8. EachStandsForAFrame'
    <2>1. Up' = Up + 1
      BY <1>2 DEF Up, Bit
    <2>. DEFINE x == Up + Owed + rxSem
                y == Up' + Owed' + rxSem'
                b == Bit(reader.pc # "take")
                k == Len(stamps)
    <2>2. Owed' = Owed /\ b' = b /\ b \in Int
      BY <1>1 DEF Owed, Bit
    <2>3. x \in Int /\ k \in Int /\ n \in Int /\ y = x + 1
      BY <1>1, <2>1, <2>2, FrameTypes, CountsAreNat
    <2>4. x + b + k <= n
      BY DEF OwnInv, EachStandsForAFrame
    <2>5. k' = k /\ Len(frames') = n + 1
      BY <1>1, <1>5
    <2>. HIDE DEF x, y, b, k
    <2>6. y + b + k <= n + 1
      BY <2>2, <2>3, <2>4
    <2>. QED BY <2>2, <2>5, <2>6 DEF EachStandsForAFrame, y, b, k
  <1>9. OnlyLastIsAlone'
    BY <1>1, <1>5, <1>6, FrameTypes DEF OnlyLastIsAlone
  <1>10. OwnEdge'
    <2>1. LastFrame' = new
      BY <1>5, Zenon DEF LastFrame
    <2>2. CASE flags = {}
      <3>1. flags' = {"RX0"} /\ edge'
        BY <1>2, <2>2
      <3>. QED BY <1>7, <2>1, <3>1 DEF OwnEdge
    <2>3. CASE flags # {}
      <3>1. ~LastFrame'.edge
        BY <1>7, <2>1, <2>3, Zenon
      <3>. QED BY <3>1, Zenon DEF OwnEdge
    <2>. QED BY <2>2, <2>3
  <1>11. ReaderHoldsLast'
    BY <1>1, <1>5, FrameTypes, StampsHaveFrames, CountsAreNat DEF ReaderHoldsLast
  <1>12. Started'
    BY <1>1, <1>5, <1>6, <1>7, FrameTypes DEF OwnInv, Started
  <1>13. StampIsOwnEdge'
    BY <1>1, <1>6, FrameTypes, StampsHaveFrames DEF OwnInv, StampIsOwnEdge
  <1>. QED BY <1>8, <1>9, <1>10, <1>11, <1>12, <1>13 DEF OwnInv

LEMMA OwnIrq ==
  ASSUME TypeOK, EdgeInv, OwnInv, IrqHandler
  PROVE  OwnInv'
  <1>. DEFINE n == Len(frames)
              fresh == n > 0 /\ LastFrame.edge /\ LastFrame.handled = 0
  <1>1. /\ UNCHANGED <<now, flags, lastRx, service, reader, rxSem, stamps>>
        /\ edge /\ ~edge' /\ lastInt' = Words(now)
    BY DEF IrqHandler, Handle
  <1>2. /\ ~fresh => frames' = frames
        /\ fresh => n \in 1..n /\ frames' = [frames EXCEPT ![n] = [frames[n] EXCEPT !.handled = now]]
    BY FrameTypes DEF IrqHandler, Handle, LastFrame
  <1>3. /\ Len(frames') = n
        /\ \A i \in 1..n : /\ frames'[i].at = frames[i].at
                           /\ frames'[i].edge = frames[i].edge
                           /\ frames'[i].alone = frames[i].alone
                           /\ ~(fresh /\ i = n) => frames'[i].handled = frames[i].handled
        /\ fresh => frames'[n].handled = now
    <2>. HIDE DEF fresh
    <2>1. CASE fresh
      <3>. DEFINE e == [frames[n] EXCEPT !.handled = now]
      <3>1. frames[n] \in Frame /\ n \in 1..n /\ now \in Nat
        BY <1>2, <2>1, FrameTypes
      <3>2. /\ e.at = frames[n].at /\ e.edge = frames[n].edge
            /\ e.alone = frames[n].alone /\ e.handled = now
        BY <3>1 DEF Frame
      <3>. HIDE DEF e
      <3>3. frames' = [frames EXCEPT ![n] = e]
        BY <1>2, <2>1, Zenon DEF e
      <3>4. frames \in Seq(Frame)
        BY FrameTypes
      <3>5. Len(frames') = n /\ frames'[n] = e /\ \A i \in 1..n : i # n => frames'[i] = frames[i]
        BY <3>1, <3>3, <3>4
      <3>. QED BY <2>1, <3>2, <3>5
    <2>2. CASE ~fresh
      BY <1>2, <2>2, FrameTypes
    <2>. QED BY <2>1, <2>2
  <1>4. EachStandsForAFrame'
    BY <1>1, <1>3 DEF OwnInv, EachStandsForAFrame, Up, Owed, Bit
  <1>5. OnlyLastIsAlone' /\ ReaderHoldsLast' /\ Started'
    BY <1>1, <1>3, FrameTypes DEF OwnInv, OnlyLastIsAlone, ReaderHoldsLast, Started
  <1>6. OwnEdge'
    <2>. SUFFICES ASSUME n > 0, frames[n].edge
                  PROVE  OwnEdge'
      BY <1>3, FrameTypes DEF OwnEdge, LastFrame
    <2>1. n \in 1..n /\ frames[n].at \in 1..now /\ frames[n].handled \in Nat
      BY FrameTypes DEF OwnInv, Started, Frame
    <2>2. /\ "RX1" \notin flags
          /\ Len(stamps) < n /\ "RX0" \in flags => frames[n].handled = 0
          /\ Len(stamps) < n /\ "RX0" \notin flags =>
               lastRx = Words(frames[n].handled) /\ frames[n].handled >= frames[n].at
      BY <1>1 DEF OwnInv, OwnEdge, LastFrame
    <2>3. LastFrame' = frames'[n] /\ LastFrame = frames[n]
      BY <1>3, Zenon DEF LastFrame
    <2>4. frames'[n].at = frames[n].at /\ now \in Nat
      BY <1>3, <2>1, FrameTypes
    <2>5. CASE fresh
      <3>1. frames'[n].handled = now /\ frames[n].handled = 0 /\ now >= frames'[n].at
        BY <1>3, <2>1, <2>3, <2>4, <2>5
      <3>2. Len(stamps) < n => "RX0" \in flags
        BY <2>1, <2>2, <3>1
      <3>. HIDE DEF n
      <3>. QED BY <1>1, <1>3, <2>2, <2>3, <3>1, <3>2 DEF OwnEdge
    <2>6. CASE ~fresh
      <3>1. frames'[n].handled = frames[n].handled /\ frames[n].handled # 0
        BY <1>3, <2>1, <2>3, <2>6
      <3>. HIDE DEF n
      <3>. QED BY <1>1, <1>3, <2>2, <2>3, <2>4, <3>1 DEF OwnEdge
    <2>. QED BY <2>5, <2>6
  <1>7. StampIsOwnEdge'
    <2>. DEFINE k == Len(stamps)
    <2>0. stamps' = stamps /\ k \in Nat /\ n \in Nat /\ k <= n
      BY <1>1, FrameTypes, StampsHaveFrames
    <2>. SUFFICES ASSUME NEW i \in 1..k, frames[i].edge, frames[i].alone
                  PROVE  stamps[i] = frames'[i].handled /\ stamps[i] >= frames[i].at
      <3>. HIDE DEF n, fresh
      <3>1. \A i \in 1..k : i \in 1..n
        BY <2>0
      <3>. QED BY <1>3, <2>0, <3>1 DEF StampIsOwnEdge
    <2>1. i \in 1..n /\ stamps[i] = frames[i].handled /\ stamps[i] >= frames[i].at
      BY FrameTypes, StampsHaveFrames DEF OwnInv, StampIsOwnEdge
    <2>2. frames[i].at \in 1..now
      BY <2>1 DEF OwnInv, Started
    <2>3. ~(fresh /\ i = n)
      BY <2>1, <2>2, FrameTypes DEF LastFrame
    <2>. QED BY <1>3, <2>1, <2>3
  <1>. QED BY <1>4, <1>5, <1>6, <1>7 DEF OwnInv

LEMMA LessOrEqual ==
  ASSUME NEW a \in Int, NEW b \in Int, NEW c \in Int, NEW d \in Int, a <= b, b + c <= d
  PROVE  a + c <= d
  OBVIOUS

LEMMA SumKept ==
  ASSUME TypeOK, EachStandsForAFrame, rxSem' \in Nat, UNCHANGED <<frames, stamps, reader>>,
         Up' + Owed' + rxSem' <= Up + Owed + rxSem
  PROVE  EachStandsForAFrame'
  <1>. DEFINE b == Bit(reader.pc # "take")
              n == Len(frames)
              k == Len(stamps)
              x == Up + Owed + rxSem
              y == Up' + Owed' + rxSem'
  <1>1. b' = b /\ b \in 0..1
    BY DEF Bit
  <1>2. Up \in 0..2 /\ Owed \in 0..2 /\ Up' \in 0..2 /\ Owed' \in 0..2
    BY DEF Up, Owed, Bit
  <1>3. n \in Int /\ k \in Int /\ rxSem \in Int /\ rxSem' \in Int
    BY FrameTypes
  <1>4. x \in Int /\ y \in Int
    BY <1>2, <1>3
  <1>5. y <= x
    OBVIOUS
  <1>6. x + b + k <= n
    BY DEF EachStandsForAFrame
  <1>. HIDE DEF b, n, k, x, y
  <1>7. b + k \in Int /\ x + (b + k) <= n
    BY <1>1, <1>3, <1>4, <1>6
  <1>8. y + (b + k) <= n
    BY <1>3, <1>4, <1>5, <1>7, LessOrEqual
  <1>9. y + b + k <= n
    BY <1>1, <1>3, <1>4, <1>8
  <1>. QED BY <1>1, <1>9 DEF EachStandsForAFrame, b, n, k, y

(* canService: each step moves what stands for a frame on, and only the    *)
(* clear of RX0 ends the phase of a frame whose edge is the last.          *)
LEMMA OwnService ==
  ASSUME TypeOK, EdgeInv, OwnInv, ServiceStep
  PROVE  OwnInv'
  <1>1. /\ UNCHANGED <<now, edge, frames, lastInt, reader, stamps>> /\ ~edge
        /\ service \in Service /\ flags \subseteq Flags /\ rxSem \in 0..2
    BY DEF ServiceStep, ServiceRead, ServiceError, ServiceLoad, ServiceStore,
      ServiceClear, ServiceGive, ServiceFrame, TypeOK, Service
  <1>2. OnlyLastIsAlone' /\ Started' /\ StampIsOwnEdge'
    BY <1>1 DEF OwnInv, OnlyLastIsAlone, Started, StampIsOwnEdge
  <1>3. LastFrame' = LastFrame
    BY <1>1 DEF LastFrame
  <1>. SUFFICES EachStandsForAFrame' /\ OwnEdge' /\ ReaderHoldsLast'
    BY <1>2 DEF OwnInv
  <1>. DEFINE moved == Up' + Owed' + rxSem' <= Up + Owed + rxSem
  <1>4. moved => EachStandsForAFrame'
    <2>1. rxSem' \in Nat
      BY <1>1 DEF ServiceStep, ServiceRead, ServiceError, ServiceLoad, ServiceStore,
        ServiceClear, ServiceGive
    <2>2. EachStandsForAFrame
      BY Zenon DEF OwnInv
    <2>. QED BY <1>1, <2>1, <2>2, SumKept, Zenon
  <1>5. lastRx' = lastRx => ReaderHoldsLast'
    BY <1>1 DEF OwnInv, ReaderHoldsLast
  <1>6. lastRx' = lastRx /\ flags' \subseteq flags /\ flags' \cap RxFlags = flags \cap RxFlags
          => OwnEdge'
    BY <1>1, <1>3 DEF OwnInv, OwnEdge, RxFlags
  <1>. USE DEF AtRead
  <1>7. CASE ServiceRead
    <2>1. moved
      BY <1>1, <1>7 DEF ServiceRead, Service, Up, Owed, Bit, RxFlags
    <2>. QED BY <1>4, <1>5, <1>6, <1>7, <2>1 DEF ServiceRead
  <1>8. CASE ServiceError
    <2>1. moved
      BY <1>1, <1>8 DEF ServiceError, Clear, Up, Owed, Bit
    <2>2. flags' \subseteq flags /\ flags' \cap RxFlags = flags \cap RxFlags
      BY <1>8 DEF ServiceError, Clear, RxFlags
    <2>. QED BY <1>4, <1>5, <1>6, <1>8, <2>1, <2>2 DEF ServiceError
  <1>9. CASE ServiceLoad
    <2>1. moved
      BY <1>1, <1>9 DEF ServiceLoad, Service, Up, Owed, Bit
    <2>. QED BY <1>4, <1>5, <1>6, <1>9, <2>1 DEF ServiceLoad
  <1>10. CASE ServiceStore
    <2>1. moved
      BY <1>1, <1>10 DEF ServiceStore, Service, Up, Owed, Bit
    <2>2. service.flags \cap RxFlags # {} /\ service.flags \cap RxFlags \subseteq flags
      BY <1>10 DEF ServiceStore, EdgeInv, PassHoldsInt, Noting
    <2>3. Up \in 1..2
      BY <2>2 DEF Up, Bit, RxFlags
    <2>4. ReaderHoldsLast'
      BY <1>1, <2>3, FrameTypes, StampsHaveFrames DEF ReaderHoldsLast
    <2>5. OwnEdge'
      BY <1>1, <1>3, <1>10, <2>2 DEF ServiceStore, OwnInv, OwnEdge, RxFlags
    <2>. QED BY <1>4, <2>1, <2>4, <2>5
  <1>11. CASE ServiceClear("rx0", "RX0", "rx1")
    <2>1. lastRx = lastInt /\ service.flags \cap RxFlags \subseteq flags
      BY <1>11 DEF ServiceClear, EdgeInv, PassHoldsInt, Noting
    <2>2. moved
      BY <1>1, <1>11, <2>1 DEF ServiceClear, Clear, Service, Up, Owed, Bit, RxFlags
    <2>3. OwnEdge'
      BY <1>1, <1>3, <1>11, <2>1 DEF ServiceClear, Clear, OwnInv, OwnEdge
    <2>. QED BY <1>4, <1>5, <1>11, <2>2, <2>3 DEF ServiceClear
  <1>12. CASE ServiceClear("rx1", "RX1", "tx")
    <2>1. "RX1" \in service.flags => "RX1" \in flags
      BY <1>12 DEF ServiceClear, EdgeInv, PassHoldsInt
    <2>2. moved
      BY <1>1, <1>12, <2>1 DEF ServiceClear, Clear, Service, Up, Owed, Bit, RxFlags
    <2>3. OwnEdge'
      BY <1>1, <1>3, <1>12 DEF ServiceClear, Clear, OwnInv, OwnEdge
    <2>. QED BY <1>4, <1>5, <1>12, <2>2, <2>3 DEF ServiceClear
  <1>13. CASE ServiceClear("tx", "TX0", "give")
    <2>1. moved
      BY <1>1, <1>13 DEF ServiceClear, Clear, Service, Up, Owed, Bit
    <2>2. flags' \subseteq flags /\ flags' \cap RxFlags = flags \cap RxFlags
      BY <1>13 DEF ServiceClear, Clear, RxFlags
    <2>. QED BY <1>4, <1>5, <1>6, <1>13, <2>1, <2>2 DEF ServiceClear
  <1>14. CASE ServiceGive
    <2>1. moved
      BY <1>1, <1>14 DEF ServiceGive, Up, Owed, Bit
    <2>. QED BY <1>4, <1>5, <1>6, <1>14, <2>1 DEF ServiceGive
  <1>. QED BY <1>7, <1>8, <1>9, <1>10, <1>11, <1>12, <1>13, <1>14 DEF ServiceStep

LEMMA OwnReader ==
  ASSUME TypeOK, EdgeInv, OwnInv, ReaderTake \/ ReaderLoad \/ ReaderStamp
  PROVE  OwnInv'
  <1>1. UNCHANGED <<now, flags, edge, frames, lastInt, lastRx, service>>
    BY DEF ReaderTake, ReaderLoad, ReaderStamp, ReaderRuns, busVars
  <1>2. LastFrame' = LastFrame /\ Up' = Up /\ Owed' = Owed /\ Started'
    BY <1>1 DEF LastFrame, Up, Owed, Bit, OwnInv, Started
  <1>3. CASE ReaderTake \/ ReaderLoad
    <2>1. stamps' = stamps
      BY <1>3 DEF ReaderTake, ReaderLoad
    <2>2. EachStandsForAFrame'
      BY <1>1, <1>2, <1>3, <2>1, FrameTypes, CountsAreNat
      DEF ReaderTake, ReaderLoad, OwnInv, EachStandsForAFrame, Bit, Reader
    <2>3. ReaderHoldsLast'
      BY <1>1, <1>3, FrameTypes DEF ReaderTake, ReaderLoad, ReaderHoldsLast, Reader
    <2>4. OnlyLastIsAlone' /\ OwnEdge' /\ StampIsOwnEdge'
      BY <1>1, <1>2, <2>1 DEF OwnInv, OnlyLastIsAlone, OwnEdge, StampIsOwnEdge
    <2>. QED BY <1>2, <2>2, <2>3, <2>4 DEF OwnInv
  <1>4. CASE ReaderStamp
    <2>. DEFINE t == Time(reader.lo, lastRx.hi)
                n == Len(frames)
                k == Len(stamps)
    <2>1. stamps' = Append(stamps, t) /\ reader.pc = "hi" /\ reader'.pc = "take" /\ rxSem' = rxSem
      BY <1>4 DEF ReaderStamp, AtTake
    <2>2. Len(stamps') = k + 1
          /\ \A i \in 1..(k + 1) : stamps'[i] = IF i <= k THEN stamps[i] ELSE t
      <3>. HIDE DEF t
      <3>. QED BY <2>1, FrameTypes
    <2>3. k + 1 + Up <= n /\ k \in Nat /\ n \in Nat
      BY <2>1, FrameTypes, StampsHaveFrames
    <2>. HIDE DEF t
    <2>4. EachStandsForAFrame'
      BY <1>1, <1>2, <2>1, <2>2, FrameTypes, CountsAreNat DEF OwnInv, EachStandsForAFrame, Bit
    <2>5. OnlyLastIsAlone' /\ OwnEdge' /\ ReaderHoldsLast'
      BY <1>1, <1>2, <2>1, <2>2, <2>3
      DEF OwnInv, OnlyLastIsAlone, OwnEdge, ReaderHoldsLast
    <2>6. frames[k + 1].edge /\ frames[k + 1].alone
            => t = frames[k + 1].handled /\ t >= frames[k + 1].at
      <3>. SUFFICES ASSUME frames[k + 1].edge, frames[k + 1].alone
                    PROVE  t = frames[k + 1].handled /\ t >= frames[k + 1].at
        OBVIOUS
      <3>1. k + 1 = n
        BY <2>3, CountsAreNat DEF OwnInv, OnlyLastIsAlone
      <3>2. "RX0" \notin flags
        BY <2>3, <3>1 DEF Up, Bit
      <3>3. lastRx = Words(frames[n].handled) /\ frames[n].handled >= frames[n].at
        BY <2>3, <3>1, <3>2 DEF OwnInv, OwnEdge, LastFrame
      <3>4. reader.lo = lastRx.lo
        BY <2>1, <3>1 DEF OwnInv, ReaderHoldsLast
      <3>5. n \in 1..n /\ frames[n].handled \in Nat
        BY <2>3, <3>1, FrameTypes DEF Frame
      <3>6. reader.lo = frames[n].handled % Word
        BY <3>3, <3>4, <3>5 DEF Words
      <3>7. t = frames[n].handled
        BY <3>3, <3>5, <3>6, WholeTime DEF t
      <3>. QED BY <3>1, <3>3, <3>7
    <2>7. StampIsOwnEdge'
      BY <1>1, <2>2, <2>3, <2>6 DEF OwnInv, StampIsOwnEdge
    <2>. QED BY <1>2, <2>4, <2>5, <2>7 DEF OwnInv
  <1>. QED BY <1>3, <1>4

(* A frame that pulled INT low itself, and was read before the next one    *)
(* came, gets the time its own edge was handled (mcp2515Task.cpp:41,       *)
(* 69-70, 100), for any number of frames, errors and transmissions.        *)
THEOREM StampsAreOwnEdges == Spec => []StampIsOwnEdge
  <1>1. OwnInv => StampIsOwnEdge
    BY DEF OwnInv
  <1>2. TypeOK /\ EdgeInv /\ OwnInv /\ [Next]_vars => OwnInv'
    BY OwnTick, OwnOther, OwnFrame, OwnIrq, OwnService, OwnReader DEF Next
  <1>. QED BY <1>1, <1>2, OwnInit, EdgeInit, EdgeStep, TypeCorrect, PTL DEF Spec

=============================================================================
