------------------------- MODULE CanRegistersProofs -------------------------
(***************************************************************************)
(* Proofs about the register driver of module CanRegisters: for every      *)
(* identifier of 29 bits, every set of calls, every number of configuring  *)
(* tasks and of operations.  The first part is about the encodings of      *)
(* module CanIds, the second about the steps.                              *)
(***************************************************************************)
EXTENDS CanRegisters, TLAPS

(* The sets of numbers, as bounds: the provers get lost in an interval     *)
(* with large literal ends.                                                *)
LEMMA BelowRange ==
  ASSUME NEW n \in Nat
  PROVE  \A x : x \in Below(n) <=> x \in Nat /\ x < n
  BY SMT DEF Below

LEMMA IdsRange == \A x : x \in Ids <=> x \in Nat /\ x < 536870912
  BY BelowRange, SMT DEF Ids

LEMMA SidsRange == \A x : x \in Sids <=> x \in Nat /\ x < 2048
  BY BelowRange, SMT DEF Sids

LEMMA EidsRange == \A x : x \in Eids <=> x \in Nat /\ x < 262144
  BY BelowRange, SMT DEF Eids

LEMMA ByteRange == \A x : x \in Byte <=> x \in Nat /\ x < 256
  BY BelowRange, SMT DEF Byte

LEMMA NibbleRange == \A x : x \in Below(16) <=> x \in Nat /\ x < 16
  BY BelowRange, SMT

-----------------------------------------------------------------------------
(* An identifier of 29 bits is the sum of the fields it is cut into.       *)
LEMMA FieldsOfId ==
  ASSUME NEW x \in Ids
  PROVE  /\ Bits(x, 2097152, 256) \in Byte
         /\ Bits(x, 262144, 8) \in Nat /\ Bits(x, 262144, 8) < 8
         /\ Bits(x, 65536, 4) \in Nat /\ Bits(x, 65536, 4) < 4
         /\ Bits(x, 256, 256) \in Byte
         /\ Bits(x, 1, 256) \in Byte
         /\ x = 262144 * (8 * Bits(x, 2097152, 256) + Bits(x, 262144, 8))
                + 65536 * Bits(x, 65536, 4) + 256 * Bits(x, 256, 256) + Bits(x, 1, 256)
  <1>1. x \in Nat /\ x < 536870912
    BY IdsRange
  <1>2. /\ Bits(x, 2097152, 256) \in Nat /\ Bits(x, 2097152, 256) < 256
        /\ Bits(x, 262144, 8) \in Nat /\ Bits(x, 262144, 8) < 8
        /\ Bits(x, 65536, 4) \in Nat /\ Bits(x, 65536, 4) < 4
        /\ Bits(x, 256, 256) \in Nat /\ Bits(x, 256, 256) < 256
        /\ Bits(x, 1, 256) \in Nat /\ Bits(x, 1, 256) < 256
    BY <1>1, SMT DEF Bits
  <1>3. /\ x \div 2097152 \in Nat /\ x \div 262144 \in Nat
        /\ x \div 65536 \in Nat /\ x \div 256 \in Nat
    BY <1>1, SMT
  <1>4. x = 256 * (x \div 256) + Bits(x, 1, 256)
    BY <1>1, SMT DEF Bits
  <1>5. x \div 256 = 256 * (x \div 65536) + Bits(x, 256, 256)
    BY <1>1, SMT DEF Bits
  <1>6. x \div 65536 = 4 * (x \div 262144) + Bits(x, 65536, 4)
    BY <1>1, SMT DEF Bits
  <1>7. x \div 262144 = 8 * (x \div 2097152) + Bits(x, 262144, 8)
    BY <1>1, SMT DEF Bits
  <1>8. x \div 2097152 = Bits(x, 2097152, 256)
    BY <1>1, SMT DEF Bits
  <1>9. x = 262144 * (8 * Bits(x, 2097152, 256) + Bits(x, 262144, 8))
            + 65536 * Bits(x, 65536, 4) + 256 * Bits(x, 256, 256) + Bits(x, 1, 256)
    BY <1>1, <1>2, <1>3, <1>4, <1>5, <1>6, <1>7, <1>8, SMT
  <1>. QED BY <1>2, <1>9, ByteRange, SMT

(* What the chip sends for the registers of an extended identifier. *)
LEMMA ExtendedOnWire ==
  ASSUME NEW x \in Ids
  PROVE  /\ ExtRegs(x) \in Regs
         /\ WireId(ExtRegs(x)).ext = TRUE
         /\ WireId(ExtRegs(x)).sid \in Sids /\ WireId(ExtRegs(x)).eid \in Eids
         /\ IdOf(WireId(ExtRegs(x))) = x
  <1>. DEFINE h == Bits(x, 2097152, 256)
              a == Bits(x, 262144, 8)
              b == Bits(x, 65536, 4)
              u == Bits(x, 256, 256)
              l == Bits(x, 1, 256)
  <1>1. /\ h \in Byte /\ a \in Nat /\ a < 8 /\ b \in Nat /\ b < 4 /\ u \in Byte /\ l \in Byte
        /\ x = 262144 * (8 * h + a) + 65536 * b + 256 * u + l
    BY FieldsOfId
  <1>2. ExtRegs(x) = [sidh |-> h, sidl |-> 32 * a + 8 + b, eid8 |-> u, eid0 |-> l]
    BY SMT DEF ExtRegs
  <1>. HIDE DEF h, a, b, u, l
  <1>3. /\ 32 * a + 8 + b \in Byte /\ (32 * a + 8 + b) \div 32 = a
        /\ (32 * a + 8 + b) % 4 = b /\ Bits(32 * a + 8 + b, 8, 2) = 1
    <2>1. a \in Nat /\ a < 8 /\ b \in Nat /\ b < 4
      BY <1>1
    <2>. QED BY <2>1, ByteRange, SMT DEF Bits
  <1>4. ExtRegs(x) \in Regs
    BY <1>1, <1>2, <1>3, SMT DEF Regs
  <1>5. Extended(ExtRegs(x)) = TRUE
    BY <1>2, <1>3, SMT DEF Extended
  <1>6. /\ WireId(ExtRegs(x)).ext = TRUE
        /\ WireId(ExtRegs(x)).sid = 8 * h + a
        /\ WireId(ExtRegs(x)).eid = 65536 * b + 256 * u + l
    <2>1. WireId(ExtRegs(x)).ext = TRUE
      BY <1>5, SMT DEF WireId
    <2>2. WireId(ExtRegs(x)).sid = 8 * h + a
      BY <1>2, <1>3, SMT DEF WireId
    <2>3. WireId(ExtRegs(x)).eid = 65536 * b + 256 * u + l
      BY <1>2, <1>3, <1>5, SMT DEF WireId
    <2>. QED BY <2>1, <2>2, <2>3
  <1>7. 8 * h + a \in Nat /\ 8 * h + a < 2048
    BY <1>1, ByteRange, SMT
  <1>8. 65536 * b + 256 * u + l \in Nat /\ 65536 * b + 256 * u + l < 262144
    BY <1>1, ByteRange, SMT
  <1>9. IdOf(WireId(ExtRegs(x))) = x
    <2>1. 262144 * (8 * h + a) + (65536 * b + 256 * u + l) = x
      BY <1>1, ByteRange, SMT
    <2>. QED BY <1>6, <2>1, SMT DEF IdOf
  <1>. QED BY <1>4, <1>6, <1>7, <1>8, <1>9, SidsRange, EidsRange, SMT

(* ... and of a standard one, which is its low 11 bits. *)
LowSid(x) == x % 2048

LEMMA StandardOnWire ==
  ASSUME NEW x \in Ids
  PROVE  /\ StdRegs(x) \in Regs
         /\ WireId(StdRegs(x)).ext = FALSE
         /\ WireId(StdRegs(x)).sid = LowSid(x)
         /\ WireId(StdRegs(x)).eid = 0
  <1>. DEFINE h == Bits(x, 8, 256)
              a == Bits(x, 1, 8)
  <1>1. x \in Nat
    BY IdsRange
  <1>2. h \in Byte /\ a \in Nat /\ a < 8 /\ 8 * h + a = LowSid(x)
    <2>1. h \in Nat /\ h < 256 /\ a \in Nat /\ a < 8
      BY <1>1, SMT DEF Bits
    <2>2. 8 * h + a = LowSid(x)
      BY <1>1, SMT DEF Bits, LowSid
    <2>. QED BY <2>1, <2>2, ByteRange
  <1>3. 32 * a \in Byte /\ (32 * a) \div 32 = a /\ Bits(32 * a, 8, 2) = 0
    <2>1. a \in Nat /\ a < 8
      BY <1>2
    <2>. HIDE DEF a
    <2>. QED BY <2>1, ByteRange, SMT DEF Bits
  <1>4. StdRegs(x) \in Regs /\ StdRegs(x).sidh = h /\ StdRegs(x).sidl = 32 * a
    <2>1. StdRegs(x) = [sidh |-> h, sidl |-> 32 * a, eid8 |-> 0, eid0 |-> 0]
      BY DEF StdRegs
    <2>. HIDE DEF h, a
    <2>2. h \in Byte /\ 32 * a \in Byte /\ 0 \in Byte
      BY <1>2, <1>3, ByteRange
    <2>3. StdRegs(x) \in Regs
      BY <2>1, <2>2 DEF Regs
    <2>4. StdRegs(x).sidh = h /\ StdRegs(x).sidl = 32 * a
      BY <2>1 DEF Regs
    <2>. QED BY <2>3, <2>4
  <1>. HIDE DEF h, a
  <1>5. Extended(StdRegs(x)) = FALSE
    BY <1>3, <1>4, SMT DEF Extended
  <1>6. WireId(StdRegs(x)).sid = LowSid(x)
    BY <1>2, <1>3, <1>4, SMT DEF WireId
  <1>7. WireId(StdRegs(x)).ext = FALSE /\ WireId(StdRegs(x)).eid = 0
    BY <1>5, SMT DEF WireId
  <1>. QED BY <1>4, <1>6, <1>7

LEMMA EmptyRegs == NoRegs \in Regs
  BY ByteRange, SMT DEF NoRegs, Regs

LEMMA FilterRegsType ==
  ASSUME NEW x \in Ids, NEW ext \in BOOLEAN
  PROVE  FilterRegs(x, ext) \in Regs
  <1>1. ExtRegs(x) \in Regs
    BY ExtendedOnWire
  <1>2. StdRegs(x) \in Regs
    BY StandardOnWire
  <1>. QED BY <1>1, <1>2 DEF FilterRegs

(* What the chip sends for a standard identifier does not depend on EID8   *)
(* and EID0.                                                               *)
LEMMA TwoBytesOnWire ==
  ASSUME NEW r \in Regs, NEW q \in Regs, r.sidh = q.sidh, r.sidl = q.sidl,
         WireId(q).ext = FALSE
  PROVE  WireId(r).ext = FALSE /\ WireId(r).sid = WireId(q).sid
  BY DEF WireId, Extended

LEMMA FourBytes ==
  ASSUME NEW r \in Regs, NEW q \in Regs, \A i \in 1..4 : r[Order[i]] = q[Order[i]]
  PROVE  r = q
  <1>1. r["sidh"] = q["sidh"] /\ r["sidl"] = q["sidl"] /\ r["eid8"] = q["eid8"] /\ r["eid0"] = q["eid0"]
    <2>1. 1 \in 1..4 /\ 2 \in 1..4 /\ 3 \in 1..4 /\ 4 \in 1..4
      BY SMT
    <2>2. r[Order[1]] = q[Order[1]] /\ r[Order[2]] = q[Order[2]]
          /\ r[Order[3]] = q[Order[3]] /\ r[Order[4]] = q[Order[4]]
      BY <2>1
    <2>3. Order[1] = "sidh" /\ Order[2] = "sidl" /\ Order[3] = "eid8" /\ Order[4] = "eid0"
      BY DEF Order
    <2>. QED BY <2>2, <2>3
  <1>. QED BY <1>1 DEF Regs

(* The bytes of a call, and which of them it writes. *)
LEMMA BytesOfSend ==
  ASSUME NEW x \in Ids
  PROVE  /\ TxRegs(x) \in Regs
         /\ Len(TxBytes(x)) \in {2, 4}
         /\ \A i \in 1..Len(TxBytes(x)) : TxBytes(x)[i] \in Fields
         /\ x > 2047 => /\ TxRegs(x) = ExtRegs(x) /\ Len(TxBytes(x)) = 4
                        /\ TxBytes(x)[1] = "eid0" /\ TxBytes(x)[2] = "eid8"
                        /\ TxBytes(x)[3] = "sidl" /\ TxBytes(x)[4] = "sidh"
         /\ ~(x > 2047) => /\ TxRegs(x) = StdRegs(x) /\ Len(TxBytes(x)) = 2
                           /\ TxBytes(x)[1] = "sidh" /\ TxBytes(x)[2] = "sidl"
  <1>1. CASE x > 2047
    <2>1. TxBytes(x) = <<"eid0", "eid8", "sidl", "sidh">>
      BY <1>1 DEF TxBytes
    <2>2. TxRegs(x) = ExtRegs(x)
      BY <1>1 DEF TxRegs, FilterRegs
    <2>3. TxRegs(x) \in Regs
      BY <2>2, ExtendedOnWire
    <2>. QED BY <1>1, <2>1, <2>2, <2>3 DEF Fields
  <1>2. CASE ~(x > 2047)
    <2>1. TxBytes(x) = <<"sidh", "sidl">>
      BY <1>2 DEF TxBytes
    <2>2. TxRegs(x) = StdRegs(x)
      BY <1>2 DEF TxRegs, FilterRegs
    <2>3. TxRegs(x) \in Regs
      BY <2>2, StandardOnWire
    <2>. QED BY <1>2, <2>1, <2>2, <2>3 DEF Fields
  <1>. QED BY <1>1, <1>2

(* Once they are written, the chip sends what the call was asked to send.  *)
LEMMA SendsIdentifier ==
  ASSUME NEW x \in Ids, NEW r \in Regs,
         \A i \in 1..Len(TxBytes(x)) : r[TxBytes(x)[i]] = TxRegs(x)[TxBytes(x)[i]]
  PROVE  /\ IdOf(WireId(r)) = x
         /\ WireId(r).ext <=> x > 2047
  <1>1. CASE x > 2047
    <2>1. /\ TxRegs(x) = ExtRegs(x) /\ Len(TxBytes(x)) = 4
          /\ TxBytes(x)[1] = "eid0" /\ TxBytes(x)[2] = "eid8"
          /\ TxBytes(x)[3] = "sidl" /\ TxBytes(x)[4] = "sidh"
      BY <1>1, BytesOfSend
    <2>2. /\ ExtRegs(x) \in Regs /\ WireId(ExtRegs(x)).ext = TRUE
          /\ IdOf(WireId(ExtRegs(x))) = x
      BY ExtendedOnWire
    <2>3. 1 \in 1..4 /\ 2 \in 1..4 /\ 3 \in 1..4 /\ 4 \in 1..4
      BY SMT
    <2>4. /\ r["sidh"] = ExtRegs(x)["sidh"] /\ r["sidl"] = ExtRegs(x)["sidl"]
          /\ r["eid8"] = ExtRegs(x)["eid8"] /\ r["eid0"] = ExtRegs(x)["eid0"]
      BY <2>1, <2>3
    <2>5. r = ExtRegs(x)
      BY <2>2, <2>4 DEF Regs
    <2>. QED BY <1>1, <2>2, <2>5
  <1>2. CASE ~(x > 2047)
    <2>1. /\ TxRegs(x) = StdRegs(x) /\ Len(TxBytes(x)) = 2
          /\ TxBytes(x)[1] = "sidh" /\ TxBytes(x)[2] = "sidl"
      BY <1>2, BytesOfSend
    <2>2. LowSid(x) = x
      BY <1>2, IdsRange, SMT DEF LowSid
    <2>3. /\ StdRegs(x) \in Regs /\ WireId(StdRegs(x)).ext = FALSE
          /\ WireId(StdRegs(x)).sid = LowSid(x)
      BY StandardOnWire
    <2>4. 1 \in 1..2 /\ 2 \in 1..2
      BY SMT
    <2>5. r.sidh = StdRegs(x).sidh /\ r.sidl = StdRegs(x).sidl
      BY <2>1, <2>4
    <2>6. WireId(r).ext = FALSE /\ WireId(r).sid = x
      BY <2>2, <2>3, <2>5, TwoBytesOnWire
    <2>. QED BY <1>2, <2>6 DEF IdOf
  <1>. QED BY <1>1, <1>2

-----------------------------------------------------------------------------
(* What rxBufferNRead makes of the registers of a receive buffer.          *)
LEMMA ThreeParts ==
  ASSUME NEW e \in Int, NEW d \in Int, NEW q \in Int, NEW u \in Int, NEW l \in Int,
         d = 256 * q + u, e = 256 * d + l
  PROVE  e = 65536 * q + 256 * u + l
  OBVIOUS

LEMMA FieldsOfEid ==
  ASSUME NEW e \in Eids
  PROVE  /\ e \div 65536 \in Nat /\ e \div 65536 < 4
         /\ Bits(e, 256, 256) \in Byte /\ e % 256 \in Byte
         /\ e = 65536 * (e \div 65536) + 256 * Bits(e, 256, 256) + (e % 256)
  <1>1. e \in Nat /\ e < 262144
    BY EidsRange
  <1>2. /\ e \div 65536 \in Nat /\ e \div 65536 < 4
        /\ Bits(e, 256, 256) \in Nat /\ Bits(e, 256, 256) < 256
        /\ e % 256 \in Nat /\ e % 256 < 256 /\ e \div 256 \in Nat
    BY <1>1, SMT DEF Bits
  <1>3. e \div 256 = 256 * (e \div 65536) + Bits(e, 256, 256)
    BY <1>1, SMT DEF Bits
  <1>4. e = 256 * (e \div 256) + (e % 256)
    BY <1>1, SMT
  <1>5. e = 65536 * (e \div 65536) + 256 * Bits(e, 256, 256) + (e % 256)
    <2>. DEFINE d == e \div 256
                q == e \div 65536
                u == Bits(e, 256, 256)
                l == e % 256
    <2>1. d \in Int /\ q \in Int /\ u \in Int /\ l \in Int /\ e \in Int
      BY <1>1, <1>2
    <2>2. d = 256 * q + u /\ e = 256 * d + l
      BY <1>3, <1>4, SMT
    <2>. HIDE DEF d, q, u, l
    <2>3. e = 65536 * q + 256 * u + l
      BY <2>1, <2>2, ThreeParts
    <2>. QED BY <2>3, SMT DEF q, u, l
  <1>. QED BY <1>2, <1>5, ByteRange

LEMMA FieldsOfSid ==
  ASSUME NEW s \in Sids
  PROVE  /\ s \div 8 \in Byte
         /\ s % 8 \in Nat /\ s % 8 < 8
         /\ s = 8 * (s \div 8) + (s % 8)
  <1>1. s \in Nat /\ s < 2048
    BY SidsRange
  <1>2. s \div 8 \in Nat /\ s \div 8 < 256
    BY <1>1, SMT
  <1>. QED BY <1>1, <1>2, ByteRange, SMT

LEMMA NumberOfFrame ==
  ASSUME NEW frame \in Frames
  PROVE  /\ frame.ext \in BOOLEAN /\ frame.sid \in Sids /\ frame.eid \in Eids
         /\ frame.dlc \in Below(16) /\ frame.rtr \in 0..1
         /\ IdOf(frame) \in Ids
  <1>1. /\ frame.ext \in BOOLEAN /\ frame.sid \in Sids /\ frame.eid \in Eids
        /\ frame.dlc \in Below(16) /\ frame.rtr \in 0..1
    BY DEF Frames
  <1>2. CASE frame.ext
    <2>1. IdOf(frame) = 262144 * frame.sid + frame.eid
      BY <1>2, SMT DEF IdOf
    <2>. QED BY <1>1, <2>1, SidsRange, EidsRange, IdsRange, SMT
  <1>3. CASE ~frame.ext
    <2>1. IdOf(frame) = frame.sid
      BY <1>3, SMT DEF IdOf
    <2>. QED BY <1>1, <2>1, SidsRange, IdsRange, SMT
  <1>. QED BY <1>1, <1>2, <1>3

LEMMA RxRegsType ==
  ASSUME NEW frame \in Frames, NEW stale \in Regs
  PROVE  RxRegs(frame, stale) \in Regs /\ RxDlc(frame) \in Byte
  <1>. DEFINE h == frame.sid \div 8
              a == frame.sid % 8
              b == frame.eid \div 65536
              u == Bits(frame.eid, 256, 256)
              l == frame.eid % 256
              low == IF frame.ext THEN 8 + b ELSE 16 * frame.rtr
              r == RxRegs(frame, stale)
  <1>1. /\ h \in Byte /\ a \in Nat /\ a < 8 /\ b \in Nat /\ b < 4 /\ u \in Byte /\ l \in Byte
        /\ frame.rtr \in 0..1 /\ frame.ext \in BOOLEAN
    BY NumberOfFrame, FieldsOfSid, FieldsOfEid
  <1>2. stale.eid8 \in Byte /\ stale.eid0 \in Byte
    BY DEF Regs
  <1>3. r = [sidh |-> h, sidl |-> 32 * a + low,
             eid8 |-> IF frame.ext THEN u ELSE stale.eid8,
             eid0 |-> IF frame.ext THEN l ELSE stale.eid0]
    BY DEF RxRegs
  <1>. HIDE DEF h, a, b, u, l, r
  <1>4. low \in Nat /\ low < 32
    BY <1>1, SMT
  <1>. HIDE DEF low
  <1>5. 32 * a + low \in Byte
    BY <1>1, <1>4, ByteRange, SMT
  <1>6. r \in Regs
    BY <1>1, <1>2, <1>3, <1>5 DEF Regs
  <1>7. RxDlc(frame) \in Byte
    <2>1. frame.dlc \in Nat /\ frame.dlc < 16
      BY NumberOfFrame, NibbleRange
    <2>2. RxDlc(frame) \in Nat /\ RxDlc(frame) < 256
      BY <1>1, <2>1, SMT DEF RxDlc
    <2>. QED BY <2>2, ByteRange
  <1>. QED BY <1>6, <1>7 DEF r

LEMMA ReadsIdentifier ==
  ASSUME NEW frame \in Frames, NEW stale \in Regs
  PROVE  ReadId(RxRegs(frame, stale)) = IdOf(frame)
  <1>. DEFINE r == RxRegs(frame, stale)
              h == frame.sid \div 8
              a == frame.sid % 8
  <1>1. h \in Byte /\ a \in Nat /\ a < 8 /\ frame.sid = 8 * h + a /\ r.sidh = h
    BY NumberOfFrame, FieldsOfSid DEF RxRegs
  <1>2. CASE frame.ext
    <2>. DEFINE b == frame.eid \div 65536
                u == Bits(frame.eid, 256, 256)
                l == frame.eid % 256
    <2>1. /\ b \in Nat /\ b < 4 /\ u \in Byte /\ l \in Byte
          /\ frame.eid = 65536 * b + 256 * u + l
      BY NumberOfFrame, FieldsOfEid
    <2>2. r.sidl = 32 * a + (8 + b) /\ r.eid8 = u /\ r.eid0 = l
      BY <1>2, SMT DEF RxRegs
    <2>. HIDE DEF r, h, a, b, u, l
    <2>3. r.sidl \div 32 = a /\ r.sidl % 4 = b /\ Bits(r.sidl, 8, 2) = 1
      BY <1>1, <2>1, <2>2, SMT DEF Bits
    <2>4. ReadId(r) = 2097152 * h + 262144 * a + 65536 * b + 256 * u + l
      BY <1>1, <2>2, <2>3, SMT DEF ReadId, Extended
    <2>5. IdOf(frame) = 262144 * (8 * h + a) + (65536 * b + 256 * u + l)
      BY <1>1, <1>2, <2>1, SMT DEF IdOf
    <2>6. ReadId(r) = IdOf(frame)
      BY <1>1, <2>1, <2>4, <2>5, ByteRange, SMT
    <2>. QED BY <2>6 DEF r
  <1>3. CASE ~frame.ext
    <2>1. r.sidl = 32 * a + 16 * frame.rtr /\ frame.rtr \in 0..1
      BY <1>3, NumberOfFrame, SMT DEF RxRegs
    <2>. HIDE DEF r, h, a
    <2>2. r.sidl \div 32 = a /\ Bits(r.sidl, 8, 2) = 0
      BY <1>1, <2>1, SMT DEF Bits
    <2>3. ReadId(r) = 8 * h + a
      BY <1>1, <2>2, SMT DEF ReadId, Extended
    <2>4. IdOf(frame) = 8 * h + a
      BY <1>1, <1>3, SMT DEF IdOf
    <2>. QED BY <2>3, <2>4 DEF r
  <1>. QED BY <1>2, <1>3

LEMMA ReadsLength ==
  ASSUME NEW frame \in Frames
  PROVE  ReadLength(RxDlc(frame)) = frame.dlc
  <1>1. frame.dlc \in Nat /\ frame.dlc < 16 /\ frame.rtr \in 0..1
    BY NumberOfFrame, NibbleRange
  <1>2. CASE frame.ext
    BY <1>1, <1>2, SMT DEF ReadLength, RxDlc, Bits
  <1>3. CASE ~frame.ext
    BY <1>1, <1>3, SMT DEF ReadLength, RxDlc, Bits
  <1>. QED BY <1>2, <1>3

(* The identifier read depends on EID8 and EID0 of an extended frame only. *)
LEMMA SameReading ==
  ASSUME NEW r \in Regs, NEW q \in Regs, r.sidh = q.sidh, r.sidl = q.sidl,
         Extended(r) => r.eid8 = q.eid8 /\ r.eid0 = q.eid0
  PROVE  ReadId(r) = ReadId(q)
  BY DEF ReadId, Extended

-----------------------------------------------------------------------------
(* The bits of an extended identifier are those of eid below those of sid. *)
Number(sid, eid) == 262144 * sid + eid
Bit(x, k) == Bits(x, 2^k, 2)

LEMMA EidBits ==
  ASSUME NEW s \in Sids, NEW e \in Eids, NEW k \in 0..17
  PROVE  Bit(Number(s, e), k) = Bit(e, k)
  <1>. DEFINE Same(j) == Bit(Number(s, e), j) = Bit(e, j)
  <1>. s \in Nat /\ e \in Nat /\ e < 262144
    BY SidsRange, EidsRange
  <1>0. Same(0)
    BY SMT DEF Bit, Bits, Number
  <1>1. Same(1)
    BY SMT DEF Bit, Bits, Number
  <1>2. Same(2)
    BY SMT DEF Bit, Bits, Number
  <1>3. Same(3)
    BY SMT DEF Bit, Bits, Number
  <1>4. Same(4)
    BY SMT DEF Bit, Bits, Number
  <1>5. Same(5)
    BY SMT DEF Bit, Bits, Number
  <1>6. Same(6)
    BY SMT DEF Bit, Bits, Number
  <1>7. Same(7)
    BY SMT DEF Bit, Bits, Number
  <1>8. Same(8)
    BY SMT DEF Bit, Bits, Number
  <1>9. Same(9)
    BY SMT DEF Bit, Bits, Number
  <1>10. Same(10)
    BY SMT DEF Bit, Bits, Number
  <1>11. Same(11)
    BY SMT DEF Bit, Bits, Number
  <1>12. Same(12)
    BY SMT DEF Bit, Bits, Number
  <1>13. Same(13)
    BY SMT DEF Bit, Bits, Number
  <1>14. Same(14)
    BY SMT DEF Bit, Bits, Number
  <1>15. Same(15)
    BY SMT DEF Bit, Bits, Number
  <1>16. Same(16)
    BY SMT DEF Bit, Bits, Number
  <1>17. Same(17)
    BY SMT DEF Bit, Bits, Number
  <1>. HIDE DEF Same
  <1>18. Same(k)
    BY <1>0, <1>1, <1>2, <1>3, <1>4, <1>5, <1>6, <1>7, <1>8, <1>9, <1>10, <1>11, <1>12,
       <1>13, <1>14, <1>15, <1>16, <1>17, SMT
  <1>. QED BY <1>18 DEF Same

LEMMA SidBits ==
  ASSUME NEW s \in Sids, NEW e \in Eids, NEW k \in 18..28
  PROVE  Bit(Number(s, e), k) = Bit(s, k - 18)
  <1>. DEFINE Same(j) == Bit(Number(s, e), j) = Bit(s, j - 18)
  <1>. s \in Nat /\ e \in Nat /\ e < 262144
    BY SidsRange, EidsRange
  <1>18. Same(18)
    BY SMT DEF Bit, Bits, Number
  <1>19. Same(19)
    BY SMT DEF Bit, Bits, Number
  <1>20. Same(20)
    BY SMT DEF Bit, Bits, Number
  <1>21. Same(21)
    BY SMT DEF Bit, Bits, Number
  <1>22. Same(22)
    BY SMT DEF Bit, Bits, Number
  <1>23. Same(23)
    BY SMT DEF Bit, Bits, Number
  <1>24. Same(24)
    BY SMT DEF Bit, Bits, Number
  <1>25. Same(25)
    BY SMT DEF Bit, Bits, Number
  <1>26. Same(26)
    BY SMT DEF Bit, Bits, Number
  <1>27. Same(27)
    BY SMT DEF Bit, Bits, Number
  <1>28. Same(28)
    BY SMT DEF Bit, Bits, Number
  <1>. HIDE DEF Same
  <1>29. Same(k)
    BY <1>18, <1>19, <1>20, <1>21, <1>22, <1>23, <1>24, <1>25, <1>26, <1>27, <1>28, SMT
  <1>. QED BY <1>29 DEF Same

LEMMA LowBits ==
  ASSUME NEW x \in Ids, NEW k \in 0..10
  PROVE  Bit(LowSid(x), k) = Bit(x, k)
  <1>. DEFINE q == x \div 2048
              r == LowSid(x)
              Same(j) == Bit(r, j) = Bit(2048 * q + r, j)
  <1>0. q \in Nat /\ r \in Nat /\ x = 2048 * q + r
    BY IdsRange, SMT DEF LowSid
  <1>. HIDE DEF q, r
  <1>1. Same(0)
    BY <1>0, SMT DEF Bit, Bits
  <1>2. Same(1)
    BY <1>0, SMT DEF Bit, Bits
  <1>3. Same(2)
    BY <1>0, SMT DEF Bit, Bits
  <1>4. Same(3)
    BY <1>0, SMT DEF Bit, Bits
  <1>5. Same(4)
    BY <1>0, SMT DEF Bit, Bits
  <1>6. Same(5)
    BY <1>0, SMT DEF Bit, Bits
  <1>7. Same(6)
    BY <1>0, SMT DEF Bit, Bits
  <1>8. Same(7)
    BY <1>0, SMT DEF Bit, Bits
  <1>9. Same(8)
    BY <1>0, SMT DEF Bit, Bits
  <1>10. Same(9)
    BY <1>0, SMT DEF Bit, Bits
  <1>11. Same(10)
    BY <1>0, SMT DEF Bit, Bits
  <1>. HIDE DEF Same
  <1>12. Same(k)
    BY <1>1, <1>2, <1>3, <1>4, <1>5, <1>6, <1>7, <1>8, <1>9, <1>10, <1>11, SMT
  <1>. QED BY <1>0, <1>12 DEF Same, r

(* To agree under a mask is to agree bit by bit ... *)
LEMMA AgreeBits ==
  ASSUME NEW m, NEW x, NEW y, NEW w
  PROVE  AgreeUnder(m, x, y, w) <=>
           \A k \in 0..(w - 1) : Bit(m, k) = 1 => Bit(x, k) = Bit(y, k)
  BY DEF AgreeUnder, Bit

(* ... which for extended identifiers splits into sid and eid. *)
LEMMA AgreeSplits ==
  ASSUME NEW ms \in Sids, NEW me \in Eids, NEW xs \in Sids, NEW xe \in Eids,
         NEW ys \in Sids, NEW ye \in Eids
  PROVE  AgreeUnder(Number(ms, me), Number(xs, xe), Number(ys, ye), 29) <=>
           AgreeUnder(ms, xs, ys, 11) /\ AgreeUnder(me, xe, ye, 18)
  <1>. DEFINE At(k) == Bit(Number(ms, me), k) = 1 =>
                         Bit(Number(xs, xe), k) = Bit(Number(ys, ye), k)
              AtSid(k) == Bit(ms, k) = 1 => Bit(xs, k) = Bit(ys, k)
              AtEid(k) == Bit(me, k) = 1 => Bit(xe, k) = Bit(ye, k)
  <1>1. ASSUME NEW k \in 0..17
        PROVE  At(k) <=> AtEid(k)
    <2>1. /\ Bit(Number(ms, me), k) = Bit(me, k)
          /\ Bit(Number(xs, xe), k) = Bit(xe, k)
          /\ Bit(Number(ys, ye), k) = Bit(ye, k)
      BY EidBits
    <2>. QED BY <2>1
  <1>2. ASSUME NEW k \in 18..28
        PROVE  At(k) <=> AtSid(k - 18)
    <2>1. /\ Bit(Number(ms, me), k) = Bit(ms, k - 18)
          /\ Bit(Number(xs, xe), k) = Bit(xs, k - 18)
          /\ Bit(Number(ys, ye), k) = Bit(ys, k - 18)
      BY SidBits
    <2>. QED BY <2>1
  <1>3. AgreeUnder(Number(ms, me), Number(xs, xe), Number(ys, ye), 29)
          <=> \A k \in 0..(29 - 1) : At(k)
    BY AgreeBits
  <1>4. AgreeUnder(ms, xs, ys, 11) <=> \A k \in 0..(11 - 1) : AtSid(k)
    BY AgreeBits
  <1>5. AgreeUnder(me, xe, ye, 18) <=> \A k \in 0..(18 - 1) : AtEid(k)
    BY AgreeBits
  <1>. HIDE DEF At, AtSid, AtEid
  <1>6. (\A k \in 0..28 : At(k)) <=> (\A k \in 0..10 : AtSid(k)) /\ (\A k \in 0..17 : AtEid(k))
    <2>1. ASSUME \A k \in 0..28 : At(k), NEW k \in 0..10
          PROVE  AtSid(k)
      <3>1. k + 18 \in 18..28 /\ k + 18 \in 0..28 /\ (k + 18) - 18 = k
        BY SMT
      <3>2. At(k + 18) <=> AtSid((k + 18) - 18)
        BY <1>2, <3>1
      <3>. QED BY <2>1, <3>1, <3>2
    <2>2. ASSUME \A k \in 0..28 : At(k), NEW k \in 0..17
          PROVE  AtEid(k)
      BY <1>1, <2>2, SMT
    <2>3. ASSUME \A k \in 0..10 : AtSid(k), \A k \in 0..17 : AtEid(k), NEW k \in 0..28
          PROVE  At(k)
      <3>1. CASE k \in 0..17
        BY <1>1, <2>3, <3>1
      <3>2. CASE k \in 18..28
        <4>1. k - 18 \in 0..10
          BY <3>2, SMT
        <4>. QED BY <1>2, <2>3, <3>2, <4>1
      <3>. QED BY <3>1, <3>2, SMT
    <2>. QED BY <2>1, <2>2, <2>3
  <1>7. 29 - 1 = 28 /\ 11 - 1 = 10 /\ 18 - 1 = 17
    BY SMT
  <1>. QED BY <1>3, <1>4, <1>5, <1>6, <1>7

LEMMA AgreeOnLow ==
  ASSUME NEW m \in Ids, NEW y \in Ids, NEW x
  PROVE  AgreeUnder(LowSid(m), x, LowSid(y), 11) <=> AgreeUnder(m, x, y, 11)
  <1>1. 11 - 1 = 10
    BY SMT
  <1>2. \A k \in 0..10 : Bit(LowSid(m), k) = Bit(m, k) /\ Bit(LowSid(y), k) = Bit(y, k)
    BY LowBits
  <1>3. AgreeUnder(LowSid(m), x, LowSid(y), 11) <=>
          \A k \in 0..(11 - 1) : Bit(LowSid(m), k) = 1 => Bit(x, k) = Bit(LowSid(y), k)
    BY AgreeBits
  <1>4. AgreeUnder(m, x, y, 11) <=>
          \A k \in 0..(11 - 1) : Bit(m, k) = 1 => Bit(x, k) = Bit(y, k)
    BY AgreeBits
  <1>. QED BY <1>1, <1>2, <1>3, <1>4

(* A filter and a mask of the same width admit the frames of that width    *)
(* that agree with the filter under the mask.                              *)
Selects(f, m, ext, frame) ==
  Admits(FilterRegs(f, ext), FilterRegs(m, ext), frame) <=>
    /\ frame.ext = ext
    /\ AgreeUnder(m, IdOf(frame), f, IF frame.ext THEN 29 ELSE 11)

(* The sid and eid of the mask, as Admits takes them from its registers. *)
MaskSid(mask) == 8 * mask.sidh + mask.sidl \div 32
MaskEid(mask) == 65536 * (mask.sidl % 4) + 256 * mask.eid8 + mask.eid0

LEMMA MeaningOfAdmits ==
  ASSUME NEW filter, NEW mask, NEW frame
  PROVE  Admits(filter, mask, frame) <=>
           /\ frame.ext = WireId(filter).ext
           /\ AgreeUnder(MaskSid(mask), frame.sid, WireId(filter).sid, 11)
           /\ frame.ext => AgreeUnder(MaskEid(mask), frame.eid, WireId(filter).eid, 18)
  BY DEF Admits, MaskSid, MaskEid

LEMMA MeaningOfMask ==
  ASSUME NEW mask
  PROVE  /\ WireId(mask).sid = MaskSid(mask)
         /\ WireId(mask).ext = TRUE => WireId(mask).eid = MaskEid(mask)
  <1>1. WireId(mask).sid = MaskSid(mask)
    BY DEF WireId, MaskSid
  <1>2. ASSUME WireId(mask).ext = TRUE
        PROVE  WireId(mask).eid = MaskEid(mask)
    <2>1. Extended(mask)
      <3>1. CASE Extended(mask) = FALSE
        <4>1. WireId(mask).ext = FALSE
          BY <3>1, SMT DEF WireId
        <4>. QED BY <1>2, <4>1
      <3>2. Extended(mask) \in BOOLEAN
        BY DEF Extended
      <3>. QED BY <3>1, <3>2
    <2>. QED BY <2>1 DEF WireId, MaskEid
  <1>. QED BY <1>1, <1>2

LEMMA NumberOfId ==
  ASSUME NEW x \in Ids
  PROVE  x = Number(WireId(ExtRegs(x)).sid, WireId(ExtRegs(x)).eid)
  <1>1. WireId(ExtRegs(x)).ext = TRUE /\ IdOf(WireId(ExtRegs(x))) = x
    BY ExtendedOnWire
  <1>. QED BY <1>1, SMT DEF IdOf, Number

LEMMA ExtendedSelects ==
  ASSUME NEW f \in Ids, NEW m \in Ids, NEW frame \in Frames
  PROVE  Selects(f, m, TRUE, frame)
  <1>. DEFINE wf == WireId(ExtRegs(f))
              wm == WireId(ExtRegs(m))
  <1>1. /\ wf.ext = TRUE /\ wf.sid \in Sids /\ wf.eid \in Eids
        /\ wm.ext = TRUE /\ wm.sid \in Sids /\ wm.eid \in Eids
    BY ExtendedOnWire
  <1>2. f = Number(wf.sid, wf.eid) /\ m = Number(wm.sid, wm.eid)
    BY NumberOfId
  <1>3. wm.sid = MaskSid(ExtRegs(m)) /\ wm.eid = MaskEid(ExtRegs(m))
    BY <1>1, MeaningOfMask
  <1>4. FilterRegs(f, TRUE) = ExtRegs(f) /\ FilterRegs(m, TRUE) = ExtRegs(m)
    BY DEF FilterRegs
  <1>5. Admits(ExtRegs(f), ExtRegs(m), frame) <=>
          /\ frame.ext = wf.ext
          /\ AgreeUnder(MaskSid(ExtRegs(m)), frame.sid, wf.sid, 11)
          /\ frame.ext => AgreeUnder(MaskEid(ExtRegs(m)), frame.eid, wf.eid, 18)
    BY MeaningOfAdmits
  <1>. HIDE DEF wf, wm
  <1>6. frame.sid \in Sids /\ frame.eid \in Eids /\ frame.ext \in BOOLEAN
    BY NumberOfFrame
  <1>7. CASE frame.ext = TRUE
    <2>1. IdOf(frame) = Number(frame.sid, frame.eid)
      BY <1>7, SMT DEF IdOf, Number
    <2>2. AgreeUnder(m, IdOf(frame), f, 29) <=>
            /\ AgreeUnder(wm.sid, frame.sid, wf.sid, 11)
            /\ AgreeUnder(wm.eid, frame.eid, wf.eid, 18)
      BY <1>1, <1>2, <1>6, <2>1, AgreeSplits
    <2>. QED BY <1>1, <1>3, <1>4, <1>5, <1>7, <2>2 DEF Selects
  <1>8. CASE frame.ext = FALSE
    BY <1>1, <1>4, <1>5, <1>8 DEF Selects
  <1>. QED BY <1>6, <1>7, <1>8

LEMMA StandardSelects ==
  ASSUME NEW f \in Ids, NEW m \in Ids, NEW frame \in Frames
  PROVE  Selects(f, m, FALSE, frame)
  <1>. DEFINE rf == StdRegs(f)
              rm == StdRegs(m)
  <1>1. /\ WireId(rf).ext = FALSE /\ WireId(rf).sid = LowSid(f)
        /\ WireId(rm).sid = LowSid(m)
    BY StandardOnWire
  <1>2. MaskSid(rm) = LowSid(m)
    BY <1>1, MeaningOfMask
  <1>3. FilterRegs(f, FALSE) = rf /\ FilterRegs(m, FALSE) = rm
    BY DEF FilterRegs
  <1>. HIDE DEF rf, rm
  <1>4. Admits(rf, rm, frame) <=>
          /\ frame.ext = FALSE
          /\ AgreeUnder(LowSid(m), frame.sid, LowSid(f), 11)
          /\ frame.ext => AgreeUnder(MaskEid(rm), frame.eid, WireId(rf).eid, 18)
    BY <1>1, <1>2, MeaningOfAdmits
  <1>5. frame.ext \in BOOLEAN
    BY NumberOfFrame
  <1>6. CASE frame.ext = FALSE
    <2>1. IdOf(frame) = frame.sid
      BY <1>6 DEF IdOf
    <2>2. AgreeUnder(LowSid(m), frame.sid, LowSid(f), 11) <=> AgreeUnder(m, IdOf(frame), f, 11)
      BY <2>1, AgreeOnLow
    <2>. QED BY <1>3, <1>4, <1>6, <2>2 DEF Selects
  <1>7. CASE frame.ext = TRUE
    BY <1>3, <1>4, <1>7 DEF Selects
  <1>. QED BY <1>5, <1>6, <1>7

-----------------------------------------------------------------------------
(* The rows of the bit rate tables. *)
LEMMA RowIsBytes ==
  ASSUME NEW mhz, NEW k \in 1..9, NEW i \in 1..3
  PROVE  BitrateRow(mhz, k)[i] \in Byte
  <1>. DEFINE Fits(row) == /\ row[1] \in Nat /\ row[1] < 256 /\ row[2] \in Nat /\ row[2] < 256
                           /\ row[3] \in Nat /\ row[3] < 256
  <1>1. Fits(BitrateToReg8MHz[k])
    BY SMT DEF BitrateToReg8MHz
  <1>2. Fits(BitrateToReg16MHz[k])
    BY SMT DEF BitrateToReg16MHz
  <1>3. Fits(BitrateRow(mhz, k))
    BY <1>1, <1>2 DEF BitrateRow
  <1>. QED BY <1>3, ByteRange, SMT

LEMMA NominalRows ==
  ASSUME NEW k \in 1..9, NEW c, \A i \in 1..3 : c[i] = BitrateToReg16MHz[k][i]
  PROVE  BitTime(c) * Bitrate[k] = 1000 * 16
  <1>1. CASE k = 1
    BY <1>1, SMT DEF BitTime, Quanta, Bits, Bitrate, BitrateToReg16MHz
  <1>2. CASE k = 2
    BY <1>2, SMT DEF BitTime, Quanta, Bits, Bitrate, BitrateToReg16MHz
  <1>3. CASE k = 3
    BY <1>3, SMT DEF BitTime, Quanta, Bits, Bitrate, BitrateToReg16MHz
  <1>4. CASE k = 4
    BY <1>4, SMT DEF BitTime, Quanta, Bits, Bitrate, BitrateToReg16MHz
  <1>5. CASE k = 5
    BY <1>5, SMT DEF BitTime, Quanta, Bits, Bitrate, BitrateToReg16MHz
  <1>6. CASE k = 6
    BY <1>6, SMT DEF BitTime, Quanta, Bits, Bitrate, BitrateToReg16MHz
  <1>7. CASE k = 7
    BY <1>7, SMT DEF BitTime, Quanta, Bits, Bitrate, BitrateToReg16MHz
  <1>8. CASE k = 8
    BY <1>8, SMT DEF BitTime, Quanta, Bits, Bitrate, BitrateToReg16MHz
  <1>9. CASE k = 9
    BY <1>9, SMT DEF BitTime, Quanta, Bits, Bitrate, BitrateToReg16MHz
  <1>. QED BY <1>1, <1>2, <1>3, <1>4, <1>5, <1>6, <1>7, <1>8, <1>9, SMT

(* Of the table for 8 MHz the first row gives 4 kbit/s, each other row     *)
(* half of the rate it is named for.                                       *)
LEMMA MissedRows ==
  ASSUME NEW k \in 1..9, NEW c, \A i \in 1..3 : c[i] = BitrateToReg8MHz[k][i]
  PROVE  IF k = 1 THEN BitTime(c) = 2000 ELSE BitTime(c) * Bitrate[k] = 2 * 8000
  <1>1. CASE k = 1
    BY <1>1, SMT DEF BitTime, Quanta, Bits, Bitrate, BitrateToReg8MHz
  <1>2. CASE k = 2
    BY <1>2, SMT DEF BitTime, Quanta, Bits, Bitrate, BitrateToReg8MHz
  <1>3. CASE k = 3
    BY <1>3, SMT DEF BitTime, Quanta, Bits, Bitrate, BitrateToReg8MHz
  <1>4. CASE k = 4
    BY <1>4, SMT DEF BitTime, Quanta, Bits, Bitrate, BitrateToReg8MHz
  <1>5. CASE k = 5
    BY <1>5, SMT DEF BitTime, Quanta, Bits, Bitrate, BitrateToReg8MHz
  <1>6. CASE k = 6
    BY <1>6, SMT DEF BitTime, Quanta, Bits, Bitrate, BitrateToReg8MHz
  <1>7. CASE k = 7
    BY <1>7, SMT DEF BitTime, Quanta, Bits, Bitrate, BitrateToReg8MHz
  <1>8. CASE k = 8
    BY <1>8, SMT DEF BitTime, Quanta, Bits, Bitrate, BitrateToReg8MHz
  <1>9. CASE k = 9
    BY <1>9, SMT DEF BitTime, Quanta, Bits, Bitrate, BitrateToReg8MHz
  <1>. QED BY <1>1, <1>2, <1>3, <1>4, <1>5, <1>6, <1>7, <1>8, <1>9, SMT

-----------------------------------------------------------------------------
(* The state is well typed; a task in a call is in a call of Calls, and a  *)
(* sender has no more bytes behind it than its identifier takes.           *)
Active(t) == conf[t].pc # "idle"

CallsKnown ==
  \A t \in Configurers : Active(t) =>
    conf[t].call \in Calls /\ (conf[t].pc = "config" => conf[t].n = 1)

SendsKnown ==
  \A t \in Senders : sending[t].n # 0 =>
    /\ sending[t].id \in SendIds
    /\ sending[t].n <= Len(TxBytes(sending[t].id)) + 1

TypeInv == TypeOK /\ CallsKnown /\ SendsKnown

(* A call that has not been disturbed is alone on its register, the chip   *)
(* stays in Configuration mode while it writes, and the bytes that it has  *)
(* written are there.  Nobody is at a register that is held.               *)
Clean(t) == Active(t) /\ t \notin intruded

Alone == \A t \in Configurers : Clean(t) => Rivals(conf[t].call.slot) = {t}

AskedFor(t) == FilterRegs(conf[t].call.id, conf[t].call.ext)

BytesWritten ==
  \A t \in Configurers : Clean(t) =>
    /\ conf[t].pc = "byte" =>
         /\ opmod = "config"
         /\ \A i \in 1..(conf[t].n - 1) :
              acc[conf[t].call.slot][Order[i]] = AskedFor(t)[Order[i]]
    /\ conf[t].pc \in {"normal", "read", "write"} => acc[conf[t].call.slot] = AskedFor(t)

HeldIsQuiet == \A s \in Slots : held[s] # Nobody => Rivals(s) = {}

HoldInv == Alone /\ BytesWritten /\ HeldIsQuiet /\ HeldIsInChip

(* BUKT, in the chip and in the hands of those who write it back. *)
RolloverInv ==
  "rollover" \notin undone /\ boot \in {"rxb1", "normal", "done"} =>
    /\ bukt = setup.rollover
    /\ \A t \in Configurers : HasReadRxb0(t) => conf[t].bukt = bukt

(* The bit timing registers, as far as initialInTask has got.  A chip that *)
(* came up in Configuration mode raises no error interrupt before.         *)
RateInv ==
  ~WarmBoot =>
    /\ boot \notin {"normal", "done"} => recovery = "idle"
    /\ "rate" \notin undone =>
         /\ boot \in {"cnf1", "cnf2", "cnf3"} => opmod = "config"
         /\ boot # "cnf1" => cnf[1] = BitrateRow(Mhz, setup.rate)[1]
         /\ boot \notin {"cnf1", "cnf2"} => cnf[2] = BitrateRow(Mhz, setup.rate)[2]
         /\ boot \notin {"cnf1", "cnf2", "cnf3"} => cnf[3] = BitrateRow(Mhz, setup.rate)[3]

(* A sender whose bytes nobody spoilt is the only one past its first byte, *)
(* no frame waits, and the bytes behind it are in TXB0.                    *)
Past(t) == sending[t].n > 1

Behind(t) ==
  \A i \in 1..(sending[t].n - 1) :
    txr[TxBytes(sending[t].id)[i]] = TxRegs(sending[t].id)[TxBytes(sending[t].id)[i]]

SendInv ==
  ~spoilt =>
    /\ \A t \in Senders : Past(t) => ~txreq /\ Behind(t)
    /\ \A t, u \in Senders : Past(t) /\ Past(u) => t = u

(* The receive buffer holds the last frame that came; a reader that none   *)
(* has overtaken has its registers, as far as it has got.                  *)
InBuffer ==
  rxframe # NoFrame =>
    \E stale \in Regs : rxr = RxRegs(rxframe, stale) /\ rxdlc = RxDlc(rxframe)

ReadSoFar ==
  /\ reading.pc \notin {"idle", "sidh"} => reading.regs.sidh = rxr.sidh
  /\ reading.pc \notin {"idle", "sidh", "sidl"} => reading.regs.sidl = rxr.sidl
  /\ reading.pc \in {"eid8", "eid0", "return"} => reading.dlc = rxdlc
  /\ reading.pc = "eid0" => reading.regs.eid8 = rxr.eid8
  /\ reading.pc = "return" /\ Extended(reading.regs) =>
       reading.regs.eid8 = rxr.eid8 /\ reading.regs.eid0 = rxr.eid0

ReadInv ==
  /\ InBuffer
  /\ reading.pc # "idle" => rxframe # NoFrame
  /\ reading.pc # "idle" /\ ~torn => ReadSoFar

IInv == /\ TypeInv /\ HoldInv /\ RolloverInv /\ RateInv
        /\ SendInv /\ SendsAsMeant /\ ReadInv

-----------------------------------------------------------------------------
(* The steps by who makes them, and what each of them leaves alone. *)
Service == BusOffSeen \/ RecoverConfig \/ RecoverNormal
Send ==
  \E t \in Senders : (\E id \in SendIds : SendStart(t, id)) \/ SendByte(t) \/ SendRequest(t)
Arrival == \E frame \in BusFrames : FrameArrives(frame)
Read == ReadStart \/ ReadByte \/ ReadDlc
Traffic == Send \/ TransmitDone \/ Arrival \/ Read

LEMMA Steps ==
  ASSUME [Next]_vars
  PROVE  \/ Boot
         \/ \E t \in Configurers : Configure(t) \/ ConfStep(t)
         \/ Service \/ Traffic \/ UNCHANGED vars
  BY DEF Next, Service, Traffic, Send, Arrival, Read

LEMMA BootLeaves ==
  ASSUME Boot
  PROVE  UNCHANGED <<acc, sendVars, readVars, setup, recovery, conf, ops>>
  BY DEF Boot, BootRate, BootRxb0, BootRxb1, BootNormal, BootFrame

LEMMA ServiceLeaves ==
  ASSUME Service
  PROVE  UNCHANGED <<rxVars, sendVars, readVars, bootVars, conf, held, undone>>
  BY DEF Service, BusOffSeen, RecoverConfig, RecoverNormal, ServiceFrame

LEMMA SendLeaves ==
  ASSUME Send
  PROVE  UNCHANGED <<modeVars, rxVars, readVars, bootVars, recovery, confVars>>
  BY DEF Send, SendStart, SendByte, SendRequest, SendFrame

LEMMA ArrivalLeaves ==
  ASSUME Arrival
  PROVE  UNCHANGED <<modeVars, rxVars, sendVars, reading, bootVars, recovery, confVars>>
  BY DEF Arrival, FrameArrives

LEMMA ReadLeaves ==
  ASSUME Read
  PROVE  UNCHANGED <<modeVars, rxVars, sendVars, rxr, rxdlc, rxframe, bootVars, recovery, confVars>>
  BY DEF Read, ReadStart, ReadByte, ReadDlc, ReadFrame

LEMMA TrafficLeaves ==
  ASSUME Traffic
  PROVE  UNCHANGED <<reqop, rxVars, bootVars, recovery, confVars>>
  BY SendLeaves, ArrivalLeaves, ReadLeaves DEF Traffic, TransmitDone, modeVars

LEMMA OpsBounded ==
  ASSUME ops \in 0..NOps, NEW w \in Nat, StartOp(w)
  PROVE  ops' \in 0..NOps
  BY BoundAssumption DEF StartOp

-----------------------------------------------------------------------------
(* What the steps of a configuring task do to its own record. *)
LEMMA IdleIsConf == AtIdle \in Conf /\ AtIdle.pc = "idle" /\ AtIdle.n = 1
  BY DEF AtIdle, Conf, ConfLabels

LEMMA GoesOn ==
  ASSUME NEW c \in Conf, NEW pc \in ConfLabels, NEW n \in 1..4
  PROVE  /\ [c EXCEPT !.pc = pc] \in Conf
         /\ [c EXCEPT !.n = n] \in Conf
         /\ [c EXCEPT !.pc = pc, !.n = n] \in Conf
  BY DEF Conf

LEMMA ConfigureMoves ==
  ASSUME TypeInv, NEW t \in Configurers, Configure(t)
  PROVE  /\ conf[t].pc = "idle"
         /\ \E call \in Calls :
              /\ conf'[t] = [AtIdle EXCEPT !.pc = "config", !.call = call]
              /\ held' = [held EXCEPT ![call.slot] = Nobody]
              /\ intruded' = IF Rivals(call.slot) = {} THEN intruded \ {t}
                             ELSE intruded \cup Rivals(call.slot) \cup {t}
         /\ conf' \in [Configurers -> Conf]
         /\ \A u \in Configurers \ {t} : conf'[u] = conf[u]
         /\ UNCHANGED <<modeVars, rxVars, sendVars, readVars, bootVars, recovery, undone>>
         /\ ops' \in 0..NOps
  <1>1. PICK call \in Calls :
          /\ conf' = [conf EXCEPT ![t] = [AtIdle EXCEPT !.pc = "config", !.call = call]]
          /\ held' = [held EXCEPT ![call.slot] = Nobody]
          /\ intruded' = IF Rivals(call.slot) = {} THEN intruded \ {t}
                         ELSE intruded \cup Rivals(call.slot) \cup {t}
    BY DEF Configure
  <1>2. [AtIdle EXCEPT !.pc = "config", !.call = call] \in Conf
    BY IdleIsConf DEF Conf, ConfLabels
  <1>3. conf \in [Configurers -> Conf] /\ ops \in 0..NOps
    BY DEF TypeInv, TypeOK
  <1>4. conf[t].pc = "idle" /\ StartOp(2)
    BY DEF Configure
  <1>5. UNCHANGED <<modeVars, rxVars, sendVars, readVars, bootVars, recovery, undone>>
    BY DEF Configure, ConfFrame
  <1>6. ops' \in 0..NOps
    BY <1>3, <1>4, OpsBounded
  <1>. QED BY <1>1, <1>2, <1>3, <1>4, <1>5, <1>6

LEMMA ConfStepMoves ==
  ASSUME TypeInv, NEW t \in Configurers, ConfStep(t)
  PROVE  /\ conf[t].pc # "idle" /\ conf[t].call \in Calls
         /\ conf' \in [Configurers -> Conf]
         /\ \A u \in Configurers \ {t} : conf'[u] = conf[u]
         /\ \/ /\ conf[t].pc = "config" /\ conf'[t] = [conf[t] EXCEPT !.pc = "byte"]
            \/ /\ conf[t].pc = "byte" /\ conf[t].n = 4
               /\ conf'[t] = [conf[t] EXCEPT !.pc = "normal", !.n = 1]
            \/ /\ conf[t].pc = "byte" /\ conf[t].n \in 1..3
               /\ conf'[t] = [conf[t] EXCEPT !.n = conf[t].n + 1]
            \/ /\ conf[t].pc = "normal" /\ conf'[t] = [conf[t] EXCEPT !.pc = "read"]
            \/ /\ conf[t].pc = "read"
               /\ conf'[t] = [conf[t] EXCEPT !.pc = "write",
                                !.bukt = (Buffer(conf[t].call.slot) = 0 /\ bukt)]
            \/ /\ conf[t].pc = "write" /\ conf'[t] = AtIdle
         /\ UNCHANGED <<sendVars, readVars, bootVars, recovery, ops>>
  <1>1. conf \in [Configurers -> Conf] /\ conf[t] \in Conf
    BY DEF TypeInv, TypeOK
  <1>2. conf[t].pc # "idle"
    BY DEF ConfStep, ConfigMode, FilterByte, WriteFilterOrMask, NormalMode, ReadRxbCtrl, WriteRxbCtrl
  <1>3. conf[t].call \in Calls
    BY <1>2 DEF TypeInv, CallsKnown, Active
  <1>4. UNCHANGED <<sendVars, readVars, bootVars, recovery, ops>>
    BY DEF ConfStep, ConfigMode, FilterByte, WriteFilterOrMask, NormalMode, ReadRxbCtrl, WriteRxbCtrl,
           ConfFrame
  <1>5. CASE ConfigMode(t)
    <2>1. conf' = [conf EXCEPT ![t] = [conf[t] EXCEPT !.pc = "byte"]] /\ conf[t].pc = "config"
      BY <1>1, <1>5 DEF ConfigMode
    <2>2. [conf[t] EXCEPT !.pc = "byte"] \in Conf
      BY <1>1 DEF Conf, ConfLabels
    <2>. QED BY <1>1, <1>2, <1>3, <1>4, <2>1, <2>2
  <1>6. CASE FilterByte(t)
    <2>. DEFINE n == conf[t].n
                c == [conf[t] EXCEPT !.pc = IF n = 4 THEN "normal" ELSE "byte",
                                     !.n = IF n = 4 THEN 1 ELSE n + 1]
    <2>1. n \in 1..4
      BY <1>1 DEF Conf
    <2>2. conf[t].pc = "byte" /\ conf' = [conf EXCEPT ![t] = c]
      BY <1>1, <1>6 DEF FilterByte, WriteFilterOrMask
    <2>3. CASE n = 4
      <3>1. conf' = [conf EXCEPT ![t] = [conf[t] EXCEPT !.pc = "normal", !.n = 1]]
        BY <2>2, <2>3
      <3>2. [conf[t] EXCEPT !.pc = "normal", !.n = 1] \in Conf
        <4>1. "normal" \in ConfLabels /\ 1 \in 1..4
          BY DEF ConfLabels
        <4>. QED BY <1>1, <4>1, GoesOn
      <3>. QED BY <1>1, <1>2, <1>3, <1>4, <2>2, <2>3, <3>1, <3>2
    <2>4. CASE n # 4
      <3>1. n \in 1..3 /\ n + 1 \in 1..4 /\ "byte" \in ConfLabels
        BY <2>1, <2>4 DEF ConfLabels
      <3>2. c = [conf[t] EXCEPT !.n = n + 1]
        BY <1>1, <2>2, <2>4, <3>1 DEF Conf
      <3>3. [conf[t] EXCEPT !.n = n + 1] \in Conf
        BY <1>1, <3>1, GoesOn
      <3>4. /\ conf'[t] = [conf[t] EXCEPT !.n = n + 1] /\ conf' \in [Configurers -> Conf]
            /\ \A u \in Configurers \ {t} : conf'[u] = conf[u]
        BY <1>1, <2>2, <3>2, <3>3
      <3>. QED BY <1>2, <1>3, <1>4, <2>2, <3>1, <3>4
    <2>. QED BY <2>3, <2>4
  <1>7. CASE NormalMode(t)
    <2>1. conf' = [conf EXCEPT ![t] = [conf[t] EXCEPT !.pc = "read"]] /\ conf[t].pc = "normal"
      BY <1>1, <1>7 DEF NormalMode
    <2>2. [conf[t] EXCEPT !.pc = "read"] \in Conf
      BY <1>1 DEF Conf, ConfLabels
    <2>. QED BY <1>1, <1>2, <1>3, <1>4, <2>1, <2>2
  <1>8. CASE ReadRxbCtrl(t)
    <2>. DEFINE b == Buffer(conf[t].call.slot)
                c == [conf[t] EXCEPT !.pc = "write", !.bukt = (b = 0 /\ bukt)]
    <2>1. conf' = [conf EXCEPT ![t] = c] /\ conf[t].pc = "read"
      BY <1>1, <1>8 DEF ReadRxbCtrl
    <2>2. (b = 0 /\ bukt) \in BOOLEAN
      BY DEF TypeInv, TypeOK
    <2>3. c \in Conf
      BY <1>1, <2>2 DEF Conf, ConfLabels
    <2>4. conf'[t] = c /\ (\A u \in Configurers \ {t} : conf'[u] = conf[u])
          /\ conf' \in [Configurers -> Conf]
      BY <1>1, <2>1, <2>3
    <2>. QED BY <1>2, <1>3, <1>4, <2>1, <2>4
  <1>9. CASE WriteRxbCtrl(t)
    <2>1. conf' = [conf EXCEPT ![t] = AtIdle] /\ conf[t].pc = "write"
      BY <1>1, <1>9 DEF WriteRxbCtrl
    <2>2. AtIdle \in Conf
      BY DEF AtIdle, Conf, ConfLabels
    <2>. QED BY <1>1, <1>2, <1>3, <1>4, <2>1, <2>2
  <1>. QED BY <1>5, <1>6, <1>7, <1>8, <1>9 DEF ConfStep

(* A step of a section keeps its call, never goes back to its first        *)
(* bracket, and reaches the write of RXBnCTRL from its read only.          *)
LEMMA ConfStepKeepsCall ==
  ASSUME TypeInv, NEW t \in Configurers, ConfStep(t)
  PROVE  /\ conf'[t].pc # "config"
         /\ conf'[t].pc # "idle" => conf'[t].call = conf[t].call
         /\ conf'[t].pc = "write" => conf[t].pc = "read"
  <1>1. conf[t] \in Conf
    BY DEF TypeInv, TypeOK
  <1>2. CASE conf[t].pc = "config" /\ conf'[t] = [conf[t] EXCEPT !.pc = "byte"]
    BY <1>1, <1>2 DEF Conf
  <1>3. CASE conf'[t] = [conf[t] EXCEPT !.pc = "normal", !.n = 1]
    BY <1>1, <1>3 DEF Conf
  <1>4. CASE conf[t].pc = "byte" /\ conf'[t] = [conf[t] EXCEPT !.n = conf[t].n + 1]
    BY <1>1, <1>4 DEF Conf
  <1>5. CASE conf'[t] = [conf[t] EXCEPT !.pc = "read"]
    BY <1>1, <1>5 DEF Conf
  <1>6. CASE /\ conf[t].pc = "read"
             /\ conf'[t] = [conf[t] EXCEPT !.pc = "write",
                              !.bukt = (Buffer(conf[t].call.slot) = 0 /\ bukt)]
    BY <1>1, <1>6 DEF Conf
  <1>7. CASE conf'[t] = AtIdle
    BY <1>7, IdleIsConf
  <1>. QED BY <1>2, <1>3, <1>4, <1>5, <1>6, <1>7, ConfStepMoves

-----------------------------------------------------------------------------
(* Type correctness, action by action. *)
LEMMA BootType ==
  ASSUME TypeInv, Boot
  PROVE  TypeInv'
  <1>1. UNCHANGED <<acc, sendVars, readVars, setup, recovery, conf, ops>>
    BY BootLeaves
  <1>2. reqop' \in Modes /\ opmod' \in Modes
    BY DEF Boot, BootRate, BootRxb0, BootRxb1, BootNormal, Ask, Modes, modeVars, TypeInv, TypeOK
  <1>3. cnf' \in [1..3 -> Byte]
    <2>1. cnf \in [1..3 -> Byte] /\ setup.rate \in 1..9
      BY ChipAssumption DEF TypeInv, TypeOK
    <2>2. ASSUME NEW i \in 1..3,
                 cnf' = IF opmod = "config"
                          THEN [cnf EXCEPT ![i] = BitrateRow(Mhz, setup.rate)[i]] ELSE cnf
          PROVE  cnf' \in [1..3 -> Byte]
      <3>1. BitrateRow(Mhz, setup.rate)[i] \in Byte
        BY <2>1, RowIsBytes
      <3>. QED BY <2>1, <2>2, <3>1
    <2>. QED
      BY <2>1, <2>2 DEF Boot, BootRate, BootRxb0, BootRxb1, BootNormal
  <1>4. rxm' \in [0..1 -> 0..3] /\ bukt' \in BOOLEAN /\ boot' \in BootLabels
    <2>1. rxm \in [0..1 -> 0..3] /\ bukt \in BOOLEAN /\ setup.rollover \in BOOLEAN
      BY ChipAssumption DEF TypeInv, TypeOK
    <2>. QED BY <2>1 DEF Boot, BootRate, BootRxb0, BootRxb1, BootNormal, TakesAll, BootLabels
  <1>5. held' \in [Slots -> Calls \cup {Nobody}]
    <2>1. held \in [Slots -> Calls \cup {Nobody}]
      BY DEF TypeInv, TypeOK
    <2>. QED BY <2>1 DEF Boot, BootRate, BootRxb0, BootRxb1, BootNormal, TakesAll
  <1>6. intruded' \subseteq Configurers /\ undone' \subseteq {"rate", "rollover"}
    BY DEF Boot, BootRate, BootRxb0, BootRxb1, BootNormal, InSections, TypeInv, TypeOK
  <1>. QED
    BY <1>1, <1>2, <1>3, <1>4, <1>5, <1>6
    DEF TypeInv, TypeOK, CallsKnown, SendsKnown, Active, sendVars, readVars

LEMMA ConfigureType ==
  ASSUME TypeInv, NEW t \in Configurers, Configure(t)
  PROVE  TypeInv'
  <1>1. PICK call \in Calls :
          /\ conf'[t] = [AtIdle EXCEPT !.pc = "config", !.call = call]
          /\ held' = [held EXCEPT ![call.slot] = Nobody]
          /\ intruded' = IF Rivals(call.slot) = {} THEN intruded \ {t}
                         ELSE intruded \cup Rivals(call.slot) \cup {t}
    BY ConfigureMoves
  <1>2. /\ conf' \in [Configurers -> Conf] /\ ops' \in 0..NOps
        /\ \A u \in Configurers \ {t} : conf'[u] = conf[u]
        /\ UNCHANGED <<modeVars, rxVars, sendVars, readVars, bootVars, recovery, undone>>
    BY ConfigureMoves
  <1>3. conf'[t].call = call /\ conf'[t].n = 1
    BY <1>1, IdleIsConf DEF Conf
  <1>4. CallsKnown'
    BY <1>2, <1>3 DEF TypeInv, CallsKnown, Active
  <1>5. held' \in [Slots -> Calls \cup {Nobody}] /\ intruded' \subseteq Configurers
    BY <1>1 DEF TypeInv, TypeOK, Rivals
  <1>. QED
    BY <1>2, <1>4, <1>5
    DEF TypeInv, TypeOK, SendsKnown, modeVars, rxVars, sendVars, readVars, bootVars

LEMMA ConfStepType ==
  ASSUME TypeInv, NEW t \in Configurers, ConfStep(t)
  PROVE  TypeInv'
  <1>1. /\ conf' \in [Configurers -> Conf] /\ conf[t].call \in Calls
        /\ \A u \in Configurers \ {t} : conf'[u] = conf[u]
        /\ UNCHANGED <<sendVars, readVars, bootVars, recovery, ops>>
    BY ConfStepMoves
  <1>2. CallsKnown'
    <2>1. conf'[t].pc # "idle" => conf'[t].call = conf[t].call /\ conf'[t].pc # "config"
      BY ConfStepKeepsCall
    <2>. QED BY <1>1, <2>1 DEF TypeInv, CallsKnown, Active
  <1>3. conf[t].call.slot \in Slots /\ conf[t].call.id \in Ids /\ conf[t].call.ext \in BOOLEAN
    BY <1>1, CallsAssumption
  <1>4. /\ reqop' \in Modes /\ opmod' \in Modes
        /\ acc' \in [Slots -> Regs]
        /\ rxm' \in [0..1 -> 0..3] /\ bukt' \in BOOLEAN
        /\ intruded' \subseteq Configurers /\ undone' \subseteq {"rate", "rollover"}
        /\ held' \in [Slots -> Calls \cup {Nobody}]
    <2>. USE DEF TypeInv, TypeOK
    <2>1. CASE ConfigMode(t)
      BY <2>1 DEF ConfigMode, Ask, Modes, rxVars
    <2>2. CASE FilterByte(t)
      <3>. DEFINE c == conf[t].call
                  f == Order[conf[t].n]
      <3>1. conf[t].n \in 1..4
        BY DEF Conf
      <3>2. f \in Fields
        BY <3>1 DEF Order, Fields
      <3>3. FilterRegs(c.id, c.ext) \in Regs
        BY <1>3, FilterRegsType
      <3>4. [acc[c.slot] EXCEPT ![f] = FilterRegs(c.id, c.ext)[f]] \in Regs
        BY <1>3, <3>2, <3>3 DEF Regs, Fields
      <3>5. /\ acc' = IF opmod = "config"
                        THEN [acc EXCEPT ![c.slot] =
                                [acc[c.slot] EXCEPT ![f] = FilterRegs(c.id, c.ext)[f]]]
                        ELSE acc
            /\ UNCHANGED <<modeVars, rxm, bukt, intruded, held, undone>>
        BY <1>3, <2>2 DEF FilterByte, WriteFilterOrMask
      <3>. QED BY <1>3, <3>4, <3>5 DEF modeVars
    <2>3. CASE NormalMode(t)
      BY <2>3 DEF NormalMode, Ask, Modes, rxVars, InSections
    <2>4. CASE ReadRxbCtrl(t)
      BY <2>4 DEF ReadRxbCtrl, rxVars, modeVars
    <2>5. CASE WriteRxbCtrl(t)
      <3>1. conf[t].bukt \in BOOLEAN /\ Buffer(conf[t].call.slot) \in 0..1
        BY DEF Conf, Buffer
      <3>2. UNCHANGED <<modeVars, acc, intruded, undone>> /\ Returned(t)
        BY <2>5 DEF WriteRxbCtrl
      <3>3. rxm' \in [0..1 -> 0..3] /\ bukt' \in BOOLEAN
        BY <2>5, <3>1 DEF WriteRxbCtrl
      <3>4. held' \in [Slots -> Calls \cup {Nobody}]
        BY <1>1, <1>3, <3>2 DEF Returned
      <3>. QED BY <3>2, <3>3, <3>4 DEF modeVars
    <2>. QED BY <2>1, <2>2, <2>3, <2>4, <2>5 DEF ConfStep
  <1>. QED
    BY <1>1, <1>2, <1>4 DEF TypeInv, TypeOK, SendsKnown, sendVars, readVars, bootVars

LEMMA ServiceType ==
  ASSUME TypeInv, Service
  PROVE  TypeInv'
  <1>1. UNCHANGED <<rxVars, sendVars, readVars, bootVars, conf, held, undone>>
    BY ServiceLeaves
  <1>2. reqop' \in Modes /\ opmod' \in Modes
    BY DEF Service, BusOffSeen, RecoverConfig, RecoverNormal, Ask, Modes, modeVars, TypeInv, TypeOK
  <1>3. recovery' \in {"idle", "seen", "normal"} /\ intruded' \subseteq Configurers
    BY DEF Service, BusOffSeen, RecoverConfig, RecoverNormal, InSections, TypeInv, TypeOK
  <1>4. ops' \in 0..NOps
    BY OpsBounded DEF Service, BusOffSeen, RecoverConfig, RecoverNormal, TypeInv, TypeOK
  <1>. QED
    BY <1>1, <1>2, <1>3, <1>4
    DEF TypeInv, TypeOK, CallsKnown, SendsKnown, Active, rxVars, sendVars, readVars, bootVars

(* Where a step leaves the record of the senders. *)
LEMMA SendMoves ==
  ASSUME TypeInv, NEW t \in Senders,
         (\E id \in SendIds : SendStart(t, id)) \/ SendByte(t) \/ SendRequest(t)
  PROVE  /\ sending' \in [Senders -> Sending]
         /\ \A u \in Senders \ {t} : sending'[u] = sending[u]
         /\ \/ sending[t].n = 0 /\ sending'[t].id \in SendIds /\ sending'[t].n = 1
            \/ /\ sending[t].id \in SendIds /\ sending[t].n \in 1..Len(TxBytes(sending[t].id))
               /\ sending'[t].id = sending[t].id /\ sending'[t].n = sending[t].n + 1
            \/ sending'[t].n = 0
  <1>1. sending \in [Senders -> Sending] /\ sending[t] \in Sending
    BY DEF TypeInv, TypeOK
  <1>2. ASSUME NEW id \in SendIds, SendStart(t, id)
        PROVE  sending'[t].n = 1 /\ sending'[t].id = id /\ sending' \in [Senders -> Sending]
               /\ \A u \in Senders \ {t} : sending'[u] = sending[u]
    <2>1. [id |-> id, n |-> 1] \in Sending
      BY DEF Sending
    <2>2. sending' = [sending EXCEPT ![t] = [id |-> id, n |-> 1]]
      BY <1>2 DEF SendStart
    <2>. QED BY <1>1, <2>1, <2>2
  <1>3. CASE SendByte(t)
    <2>1. /\ sending[t].n \in 1..Len(TxBytes(sending[t].id))
          /\ sending' = [sending EXCEPT ![t] = [sending[t] EXCEPT !.n = sending[t].n + 1]]
      BY <1>1, <1>3 DEF SendByte
    <2>2. sending[t].id \in SendIds
      BY <2>1 DEF TypeInv, SendsKnown
    <2>3. Len(TxBytes(sending[t].id)) \in {2, 4}
      BY <2>2, SendIdsAssumption, BytesOfSend
    <2>4. sending[t].n + 1 \in 0..5
      <3>. DEFINE n == sending[t].n
                  l == Len(TxBytes(sending[t].id))
      <3>1. l \in {2, 4} /\ n \in 1..l
        BY <2>1, <2>3
      <3>. HIDE DEF n, l
      <3>2. n + 1 \in 0..5
        BY <3>1
      <3>. QED BY <3>2 DEF n
    <2>5. [sending[t] EXCEPT !.n = sending[t].n + 1] \in Sending
      BY <1>1, <2>4 DEF Sending
    <2>6. /\ sending'[t].id = sending[t].id /\ sending'[t].n = sending[t].n + 1
          /\ sending' \in [Senders -> Sending]
          /\ \A u \in Senders \ {t} : sending'[u] = sending[u]
      BY <1>1, <2>1, <2>5 DEF Sending
    <2>. QED BY <2>1, <2>2, <2>6
  <1>4. CASE SendRequest(t)
    <2>1. NotSending \in Sending /\ NotSending.n = 0
      BY DEF NotSending, Sending
    <2>2. sending' = [sending EXCEPT ![t] = NotSending]
      BY <1>4 DEF SendRequest
    <2>. QED BY <1>1, <2>1, <2>2
  <1>5. (\E id \in SendIds : SendStart(t, id)) => sending[t].n = 0
    BY DEF SendStart
  <1>. QED BY <1>2, <1>3, <1>4, <1>5

LEMMA SendType ==
  ASSUME TypeInv, Send
  PROVE  TypeInv'
  <1>1. UNCHANGED <<modeVars, rxVars, readVars, bootVars, recovery, confVars>>
    BY SendLeaves
  <1>2. PICK t \in Senders :
          (\E id \in SendIds : SendStart(t, id)) \/ SendByte(t) \/ SendRequest(t)
    BY DEF Send
  <1>3. /\ sending' \in [Senders -> Sending]
        /\ \A u \in Senders \ {t} : sending'[u] = sending[u]
        /\ \/ sending[t].n = 0 /\ sending'[t].id \in SendIds /\ sending'[t].n = 1
           \/ /\ sending[t].id \in SendIds /\ sending[t].n \in 1..Len(TxBytes(sending[t].id))
              /\ sending'[t].id = sending[t].id /\ sending'[t].n = sending[t].n + 1
           \/ sending'[t].n = 0
    BY <1>2, SendMoves
  <1>4. \A id \in SendIds : Len(TxBytes(id)) \in {2, 4}
    BY SendIdsAssumption, BytesOfSend
  <1>5. SendsKnown'
    <2>1. sending'[t].n # 0 => /\ sending'[t].id \in SendIds
                               /\ sending'[t].n <= Len(TxBytes(sending'[t].id)) + 1
      BY <1>3, <1>4
    <2>. QED BY <1>3, <2>1 DEF TypeInv, SendsKnown
  <1>6. txr' \in Regs
    <2>1. txr \in Regs
      BY DEF TypeInv, TypeOK
    <2>2. CASE SendByte(t)
      <3>. DEFINE id == sending[t].id
                  f == TxBytes(id)[sending[t].n]
      <3>1. sending[t].n \in 1..Len(TxBytes(id)) /\ id \in Ids
        BY <2>2, SendIdsAssumption DEF SendByte, TypeInv, SendsKnown
      <3>2. f \in Fields /\ TxRegs(id) \in Regs
        BY <3>1, BytesOfSend
      <3>3. txr' = [txr EXCEPT ![f] = TxRegs(id)[f]] \/ txr' = txr
        BY <2>2 DEF SendByte
      <3>. HIDE DEF f
      <3>4. [txr EXCEPT ![f] = TxRegs(id)[f]] \in Regs
        BY <2>1, <3>2 DEF Regs, Fields
      <3>. QED BY <2>1, <3>3, <3>4
    <2>3. CASE (\E id \in SendIds : SendStart(t, id)) \/ SendRequest(t)
      BY <2>1, <2>3 DEF SendStart, SendRequest
    <2>. QED BY <1>2, <2>2, <2>3
  <1>7. txreq' \in BOOLEAN /\ spoilt' \in BOOLEAN
    <2>1. txreq \in BOOLEAN /\ spoilt \in BOOLEAN
      BY DEF TypeInv, TypeOK
    <2>. QED BY <1>2, <2>1, Zenon DEF SendStart, SendByte, SendRequest
  <1>8. wanted' \in SendIds \cup {0}
    <2>1. wanted \in SendIds \cup {0} /\ sending[t].id \in SendIds \cup {0}
      BY DEF TypeInv, TypeOK, Sending
    <2>. QED BY <1>2, <2>1 DEF SendStart, SendByte, SendRequest
  <1>9. ops' \in 0..NOps
    BY <1>2, OpsBounded DEF SendStart, SendByte, SendRequest, TypeInv, TypeOK
  <1>. QED
    BY <1>1, <1>3, <1>5, <1>6, <1>7, <1>8, <1>9
    DEF TypeInv, TypeOK, CallsKnown, Active, modeVars, rxVars, readVars, bootVars, confVars

LEMMA ReadMoves ==
  ASSUME TypeInv, Read
  PROVE  reading' \in Reading
  <1>1. rxr \in Regs /\ rxdlc \in Byte /\ reading \in Reading
    BY DEF TypeInv, TypeOK
  <1>2. CASE ReadStart
    <2>1. [NotReading EXCEPT !.pc = "sidh"] \in Reading
      BY EmptyRegs, ByteRange DEF NotReading, Reading, Fields
    <2>. QED BY <1>2, <2>1 DEF ReadStart
  <1>3. CASE ReadByte
    <2>. DEFINE f == reading.pc
    <2>1. f \in Fields /\ reading.regs \in Regs
      BY <1>1, <1>3 DEF ReadByte, Reading
    <2>2. [reading.regs EXCEPT ![f] = rxr[f]] \in Regs
      BY <1>1, <2>1 DEF Regs, Fields
    <2>3. AfterByte[f] \in Fields \cup {"idle", "dlc", "return"}
      BY <2>1 DEF AfterByte, Fields
    <2>4. reading' = [reading EXCEPT !.regs = [reading.regs EXCEPT ![f] = rxr[f]],
                                     !.pc = AfterByte[f]]
      BY <1>1, <1>3 DEF ReadByte, Reading
    <2>. HIDE DEF f
    <2>. QED BY <1>1, <2>2, <2>3, <2>4 DEF Reading
  <1>4. CASE ReadDlc
    BY <1>1, <1>4 DEF ReadDlc, Reading, Fields
  <1>. QED BY <1>2, <1>3, <1>4 DEF Read

LEMMA TrafficType ==
  ASSUME TypeInv, Traffic
  PROVE  TypeInv'
  <1>1. CASE Send
    BY <1>1, SendType
  <1>2. CASE TransmitDone
    BY <1>2
    DEF TransmitDone, TypeInv, TypeOK, CallsKnown, SendsKnown, Active, rxVars, readVars, bootVars,
        confVars
  <1>3. CASE Arrival
    <2>1. PICK frame \in BusFrames : FrameArrives(frame)
      BY <1>3 DEF Arrival
    <2>2. rxr' \in Regs /\ rxdlc' \in Byte /\ rxframe' \in BusFrames \cup {NoFrame} /\ torn' \in BOOLEAN
      BY <2>1, RxRegsType, BusFramesAssumption DEF FrameArrives, TypeInv, TypeOK
    <2>3. ops' \in 0..NOps
      BY <2>1, OpsBounded DEF FrameArrives, TypeInv, TypeOK
    <2>. QED
      BY <1>3, <2>2, <2>3, ArrivalLeaves
      DEF TypeInv, TypeOK, CallsKnown, SendsKnown, Active, modeVars, rxVars, sendVars, bootVars, confVars
  <1>4. CASE Read
    <2>1. reading' \in Reading
      BY <1>4, ReadMoves
    <2>2. torn' \in BOOLEAN /\ ops' \in 0..NOps
      BY <1>4, OpsBounded DEF Read, ReadStart, ReadByte, ReadDlc, TypeInv, TypeOK
    <2>. QED
      BY <1>4, <2>1, <2>2, ReadLeaves
      DEF TypeInv, TypeOK, CallsKnown, SendsKnown, Active, modeVars, rxVars, sendVars, bootVars, confVars
  <1>. QED BY <1>1, <1>2, <1>3, <1>4 DEF Traffic

LEMMA TypeInvAlways == Spec => []TypeInv
  <1>1. Init => TypeInv
    <2>. SUFFICES ASSUME Init PROVE TypeInv
      OBVIOUS
    <2>1. 0 \in Byte
      BY ByteRange
    <2>2. conf \in [Configurers -> Conf] /\ \A t \in Configurers : ~Active(t)
      BY IdleIsConf DEF Init, Active
    <2>3. reqop \in Modes /\ opmod \in Modes
      BY DEF Init, Modes
    <2>4. /\ cnf \in [1..3 -> Byte] /\ acc \in [Slots -> Regs] /\ txr \in Regs
          /\ rxr \in Regs /\ rxdlc \in Byte
      BY <2>1, EmptyRegs DEF Init
    <2>5. /\ rxm \in [0..1 -> 0..3] /\ bukt \in BOOLEAN /\ txreq \in BOOLEAN
          /\ setup \in Setups /\ boot \in BootLabels /\ recovery = "idle"
      <3>1. rxm \in [0..1 -> 0..3]
        BY DEF Init
      <3>2. bukt = FALSE /\ txreq = FALSE /\ setup \in Setups /\ recovery = "idle" /\ boot = "cnf1"
        BY DEF Init
      <3>. QED BY <3>1, <3>2 DEF BootLabels
    <2>6. /\ ops \in 0..NOps /\ wanted \in SendIds \cup {0} /\ spoilt \in BOOLEAN
          /\ intruded \subseteq Configurers /\ undone \subseteq {"rate", "rollover"}
          /\ rxframe \in BusFrames \cup {NoFrame} /\ torn \in BOOLEAN
      <3>1. ops \in 0..NOps
        BY BoundAssumption DEF Init
      <3>2. /\ wanted = 0 /\ spoilt = FALSE /\ intruded = {} /\ undone = {}
            /\ rxframe = NoFrame /\ torn = FALSE
        BY DEF Init
      <3>. QED BY <3>1, <3>2
    <2>7. held \in [Slots -> Calls \cup {Nobody}]
      BY DEF Init
    <2>8. sending \in [Senders -> Sending] /\ \A t \in Senders : sending[t].n = 0
      <3>1. NotSending \in Sending /\ NotSending.n = 0
        BY DEF NotSending, Sending
      <3>. QED BY <3>1 DEF Init
    <2>9. reading \in Reading
      BY <2>1, EmptyRegs DEF Init, NotReading, Reading
    <2>10. TypeOK
      BY <2>2, <2>3, <2>4, <2>5, <2>6, <2>7, <2>8, <2>9 DEF TypeOK
    <2>. QED BY <2>2, <2>8, <2>10 DEF TypeInv, CallsKnown, SendsKnown
  <1>2. TypeInv /\ [Next]_vars => TypeInv'
    <2>. SUFFICES ASSUME TypeInv, [Next]_vars PROVE TypeInv'
      OBVIOUS
    <2>1. UNCHANGED vars => TypeInv'
      BY DEF vars, TypeInv, TypeOK, CallsKnown, SendsKnown, Active, modeVars, rxVars, sendVars,
             readVars, bootVars, confVars
    <2>. QED BY <2>1, Steps, BootType, ConfigureType, ConfStepType, ServiceType, TrafficType
  <1>. QED BY <1>1, <1>2, PTL DEF Spec

(* Every register, every record of a configurer, a sender and a reader     *)
(* stays in its range: whatever identifier is asked for, its bytes fit the *)
(* registers, and so do those of every frame that comes in                 *)
(* (mcp2515.cpp:50-140).                                                   *)
THEOREM TypeCorrect == Spec => []TypeOK
  BY TypeInvAlways, PTL DEF TypeInv

-----------------------------------------------------------------------------
(* What an undisturbed call has written stays. *)
LEMMA HoldKept ==
  ASSUME HoldInv, UNCHANGED <<conf, acc>>, intruded \subseteq intruded',
         \A s \in Slots : held'[s] # Nobody =>
                            held'[s] = held[s] /\ rxm'[Buffer(s)] = rxm[Buffer(s)],
         \A t \in Configurers : conf[t].pc = "byte" /\ t \notin intruded' /\ opmod = "config"
                                  => opmod' = "config"
  PROVE  HoldInv'
  <1>1. \A t \in Configurers : Clean(t)' => Clean(t)
    BY DEF Clean, Active
  <1>2. \A s : Rivals(s)' = Rivals(s)
    BY DEF Rivals
  <1>3. \A t \in Configurers : AskedFor(t)' = AskedFor(t)
    BY DEF AskedFor
  <1>4. Alone'
    BY <1>1, <1>2 DEF HoldInv, Alone
  <1>5. BytesWritten'
    BY <1>1, <1>3 DEF HoldInv, BytesWritten, Clean
  <1>6. HeldIsQuiet' /\ HeldIsInChip'
    BY <1>2 DEF HoldInv, HeldIsQuiet, HeldIsInChip
  <1>. QED BY <1>4, <1>5, <1>6 DEF HoldInv

LEMMA ConfigureHolds ==
  ASSUME TypeInv, HoldInv, NEW t \in Configurers, Configure(t)
  PROVE  HoldInv'
  <1>1. PICK call \in Calls :
          /\ conf'[t] = [AtIdle EXCEPT !.pc = "config", !.call = call]
          /\ held' = [held EXCEPT ![call.slot] = Nobody]
          /\ intruded' = IF Rivals(call.slot) = {} THEN intruded \ {t}
                         ELSE intruded \cup Rivals(call.slot) \cup {t}
    BY ConfigureMoves
  <1>2. /\ conf[t].pc = "idle"
        /\ \A u \in Configurers \ {t} : conf'[u] = conf[u]
        /\ UNCHANGED <<modeVars, rxVars>>
    BY ConfigureMoves
  <1>3. conf'[t].pc = "config" /\ conf'[t].call = call
    BY <1>1, IdleIsConf DEF Conf
  <1>4. call.slot \in Slots /\ held \in [Slots -> Calls \cup {Nobody}]
    BY CallsAssumption DEF TypeInv, TypeOK
  <1>5. \A s : Rivals(s)' = Rivals(s) \cup (IF s = call.slot THEN {t} ELSE {})
    BY <1>2, <1>3 DEF Rivals
  <1>6. ASSUME NEW u \in Configurers, u # t, Clean(u)'
        PROVE  Clean(u) /\ conf[u].call.slot # call.slot /\ conf'[u] = conf[u]
    <2>1. conf'[u] = conf[u] /\ Active(u)
      BY <1>2, <1>6 DEF Clean, Active
    <2>2. u \notin intruded'
      BY <1>6 DEF Clean
    <2>3. u \notin intruded
      BY <1>1, <1>6, <2>2
    <2>4. conf[u].call.slot # call.slot
      <3>1. ASSUME conf[u].call.slot = call.slot
            PROVE  FALSE
        <4>1. u \in Rivals(call.slot)
          BY <2>1, <3>1 DEF Rivals, Active
        <4>. QED BY <1>1, <2>2, <4>1
      <3>. QED BY <3>1
    <2>. QED BY <2>1, <2>3, <2>4 DEF Clean
  <1>7. Clean(t)' => Rivals(call.slot) = {}
    BY <1>1 DEF Clean
  <1>8. Alone'
    <2>1. ASSUME NEW u \in Configurers, Clean(u)'
          PROVE  Rivals(conf[u].call.slot)' = {u}
      <3>1. CASE u = t
        BY <1>3, <1>5, <1>7, <2>1, <3>1
      <3>2. CASE u # t
        <4>1. Clean(u) /\ conf[u].call.slot # call.slot /\ conf'[u] = conf[u]
          BY <1>6, <2>1, <3>2
        <4>2. Rivals(conf[u].call.slot) = {u}
          BY <4>1 DEF HoldInv, Alone
        <4>. QED BY <1>5, <4>1, <4>2
      <3>. QED BY <3>1, <3>2
    <2>. QED BY <2>1 DEF Alone
  <1>9. BytesWritten'
    <2>1. \A u \in Configurers : u # t /\ Clean(u)' =>
            Clean(u) /\ conf'[u] = conf[u] /\ AskedFor(u)' = AskedFor(u)
      BY <1>6 DEF AskedFor
    <2>2. acc' = acc /\ opmod' = opmod
      BY <1>2 DEF modeVars, rxVars
    <2>. QED BY <1>3, <2>1, <2>2 DEF HoldInv, BytesWritten
  <1>10. \A s \in Slots : held'[s] # Nobody => s # call.slot /\ held'[s] = held[s]
    BY <1>1, <1>4
  <1>11. HeldIsQuiet'
    BY <1>5, <1>10 DEF HoldInv, HeldIsQuiet
  <1>12. HeldIsInChip'
    BY <1>2, <1>10 DEF HoldInv, HeldIsInChip, rxVars
  <1>. QED BY <1>8, <1>9, <1>11, <1>12 DEF HoldInv

(* A clean task is alone: nobody else is at its register. *)
LEMMA CleanIsAlone ==
  ASSUME Alone, NEW t \in Configurers, Active(t), NEW u \in Configurers, u # t, Clean(u)
  PROVE  conf[u].call.slot # conf[t].call.slot
  BY DEF Alone, Rivals, Active

LEMMA ConfStepHolds ==
  ASSUME TypeInv, HoldInv, NEW t \in Configurers, ConfStep(t)
  PROVE  HoldInv'
  <1>. DEFINE slot == conf[t].call.slot
  <1>1. /\ Active(t) /\ conf[t] \in Conf /\ conf[t].call \in Calls /\ slot \in Slots
        /\ \A u \in Configurers \ {t} : conf'[u] = conf[u]
    BY ConfStepMoves, CallsAssumption DEF TypeInv, TypeOK, Active
  <1>2. t \in Rivals(slot) /\ held[slot] = Nobody
    BY <1>1 DEF Rivals, Active, HoldInv, HeldIsQuiet
  <1>3. ASSUME NEW u \in Configurers, u # t, Clean(u)
        PROVE  conf[u].call.slot # slot
    BY <1>1, <1>3, CleanIsAlone DEF HoldInv
  <1>4. ASSUME conf'[t].pc # "idle", conf'[t].call = conf[t].call, intruded \subseteq intruded'
        PROVE  /\ \A s : Rivals(s)' = Rivals(s)
               /\ \A u \in Configurers : Clean(u)' => Clean(u)
               /\ \A u \in Configurers : AskedFor(u)' = AskedFor(u)
               /\ Alone'
    <2>1. \A s : Rivals(s)' = Rivals(s)
      BY <1>1, <1>4 DEF Rivals, Active
    <2>2. \A u \in Configurers : Clean(u)' => Clean(u)
      BY <1>1, <1>4 DEF Clean, Active
    <2>3. \A u \in Configurers : conf'[u].call = conf[u].call
      BY <1>1, <1>4
    <2>. QED BY <2>1, <2>2, <2>3 DEF HoldInv, Alone, AskedFor
  <1>5. CASE ConfigMode(t)
    <2>1. /\ UNCHANGED <<acc, rxm, held>> /\ intruded \subseteq intruded'
          /\ conf'[t] = [conf[t] EXCEPT !.pc = "byte"] /\ conf[t].pc = "config" /\ conf[t].n = 1
      BY <1>1, <1>5 DEF ConfigMode, rxVars, TypeInv, TypeOK, CallsKnown
    <2>2. conf'[t].pc = "byte" /\ conf'[t].call = conf[t].call /\ conf'[t].n = 1
      BY <1>1, <2>1 DEF Conf
    <2>3. opmod = "config" \/ t \notin intruded' => opmod' = "config"
      BY <1>5 DEF ConfigMode, Ask, Lags
    <2>4. BytesWritten'
      <3>1. ASSUME NEW u \in Configurers, Clean(u)'
            PROVE  /\ conf'[u].pc = "byte" =>
                        /\ opmod' = "config"
                        /\ \A i \in 1..(conf'[u].n - 1) :
                             acc'[conf'[u].call.slot][Order[i]] = AskedFor(u)'[Order[i]]
                   /\ conf'[u].pc \in {"normal", "read", "write"} =>
                        acc'[conf'[u].call.slot] = AskedFor(u)'
        <4>1. CASE u = t
          <5>1. opmod' = "config"
            BY <2>3, <3>1, <4>1 DEF Clean
          <5>2. 1..(conf'[u].n - 1) = {}
            BY <2>2, <4>1
          <5>. QED BY <2>2, <4>1, <5>1, <5>2
        <4>2. CASE u # t
          <5>1. Clean(u) /\ conf'[u] = conf[u] /\ AskedFor(u)' = AskedFor(u)
            BY <1>1, <1>4, <2>1, <2>2, <3>1, <4>2
          <5>. QED BY <2>1, <2>3, <5>1 DEF HoldInv, BytesWritten
        <4>. QED BY <4>1, <4>2
      <3>. QED BY <3>1 DEF BytesWritten
    <2>5. HeldIsQuiet' /\ HeldIsInChip'
      BY <1>4, <2>1, <2>2 DEF HoldInv, HeldIsQuiet, HeldIsInChip
    <2>. QED BY <1>4, <2>1, <2>2, <2>4, <2>5 DEF HoldInv
  <1>6. CASE FilterByte(t)
    <2>. DEFINE n == conf[t].n
                F == AskedFor(t)
    <2>1. n \in 1..4 /\ F \in Regs /\ acc \in [Slots -> Regs] /\ conf[t].pc = "byte"
      <3>1. F \in Regs
        BY <1>1, CallsAssumption, FilterRegsType DEF AskedFor
      <3>. QED BY <1>1, <1>6, <3>1 DEF Conf, TypeInv, TypeOK, FilterByte, WriteFilterOrMask
    <2>2. /\ acc' = IF opmod = "config"
                      THEN [acc EXCEPT ![slot] = [acc[slot] EXCEPT ![Order[n]] = F[Order[n]]]]
                      ELSE acc
          /\ UNCHANGED <<modeVars, rxm, intruded, held>>
      BY <1>1, <1>6, <2>1 DEF FilterByte, WriteFilterOrMask, AskedFor
    <2>3. \/ n = 4 /\ conf'[t] = [conf[t] EXCEPT !.pc = "normal", !.n = 1]
          \/ n \in 1..3 /\ conf'[t] = [conf[t] EXCEPT !.n = n + 1]
      BY <2>1, ConfStepMoves
    <2>4. /\ conf'[t].call = conf[t].call
          /\ \/ n = 4 /\ conf'[t].pc = "normal"
             \/ n \in 1..3 /\ conf'[t].pc = "byte" /\ conf'[t].n = n + 1
      BY <1>1, <2>1, <2>3 DEF Conf
    <2>5. \A r \in Slots : r # slot => acc'[r] = acc[r]
      BY <2>1, <2>2
    <2>6. /\ conf'[t].pc # "idle" /\ intruded' = intruded /\ opmod' = opmod
      BY <2>2, <2>4 DEF modeVars
    <2>7. ASSUME Clean(t)
          PROVE  /\ acc'[slot] \in Regs
                 /\ \A i \in 1..n : acc'[slot][Order[i]] = F[Order[i]]
      <3>1. opmod = "config" /\ \A i \in 1..(n - 1) : acc[slot][Order[i]] = F[Order[i]]
        BY <2>1, <2>7 DEF HoldInv, BytesWritten
      <3>2. acc'[slot] = [acc[slot] EXCEPT ![Order[n]] = F[Order[n]]]
        BY <1>1, <2>1, <2>2, <3>1
      <3>3. acc[slot] \in Regs /\ \A i \in 1..4 : Order[i] \in Fields
        BY <1>1, <2>1 DEF Order, Fields
      <3>4. acc'[slot] \in Regs
        BY <2>1, <3>2, <3>3 DEF Regs, Fields
      <3>5. ASSUME NEW i \in 1..n
            PROVE  acc'[slot][Order[i]] = F[Order[i]]
        <4>1. CASE Order[i] = Order[n]
          BY <2>1, <3>2, <3>3, <4>1 DEF Regs, Fields
        <4>2. CASE Order[i] # Order[n]
          <5>1. i \in 1..(n - 1)
            BY <2>1, <4>2
          <5>2. acc'[slot][Order[i]] = acc[slot][Order[i]]
            BY <2>1, <3>2, <3>3, <4>2 DEF Regs, Fields
          <5>. QED BY <3>1, <5>1, <5>2
        <4>. QED BY <4>1, <4>2
      <3>. QED BY <3>4, <3>5
    <2>8. BytesWritten'
      <3>1. ASSUME NEW u \in Configurers, Clean(u)'
            PROVE  /\ conf'[u].pc = "byte" =>
                        /\ opmod' = "config"
                        /\ \A i \in 1..(conf'[u].n - 1) :
                             acc'[conf'[u].call.slot][Order[i]] = AskedFor(u)'[Order[i]]
                   /\ conf'[u].pc \in {"normal", "read", "write"} =>
                        acc'[conf'[u].call.slot] = AskedFor(u)'
        <4>1. Clean(u) /\ AskedFor(u)' = AskedFor(u)
          BY <1>4, <2>4, <2>6, <3>1
        <4>2. CASE u = t
          <5>1. acc'[slot] \in Regs /\ \A i \in 1..n : acc'[slot][Order[i]] = F[Order[i]]
            BY <2>7, <4>1, <4>2
          <5>2. opmod = "config"
            BY <2>1, <4>1, <4>2 DEF HoldInv, BytesWritten
          <5>3. CASE n = 4 /\ conf'[t].pc = "normal"
            <6>1. acc'[slot] = F
              BY <2>1, <5>1, <5>3, FourBytes
            <6>. QED BY <2>4, <4>1, <4>2, <5>3, <6>1
          <5>4. CASE n \in 1..3 /\ conf'[t].pc = "byte" /\ conf'[t].n = n + 1
            <6>1. (n + 1) - 1 = n
              BY <2>1
            <6>. QED BY <2>4, <2>6, <4>1, <4>2, <5>1, <5>2, <5>4, <6>1
          <5>. QED BY <2>4, <5>3, <5>4
        <4>3. CASE u # t
          <5>1. conf'[u] = conf[u] /\ conf[u].call.slot # slot /\ conf[u].call.slot \in Slots
            BY <1>1, <1>3, <4>1, <4>3, CallsAssumption DEF Clean, TypeInv, CallsKnown
          <5>. QED BY <2>5, <2>6, <4>1, <5>1 DEF HoldInv, BytesWritten
        <4>. QED BY <4>2, <4>3
      <3>. QED BY <3>1 DEF BytesWritten
    <2>9. HeldIsQuiet'
      BY <1>4, <2>2, <2>4, <2>6 DEF HoldInv, HeldIsQuiet
    <2>10. HeldIsInChip'
      BY <1>2, <2>2, <2>5 DEF HoldInv, HeldIsInChip
    <2>. QED BY <1>4, <2>4, <2>6, <2>8, <2>9, <2>10 DEF HoldInv
  <1>7. CASE NormalMode(t) \/ ReadRxbCtrl(t)
    <2>1. /\ UNCHANGED <<acc, rxm, held>> /\ intruded \subseteq intruded'
          /\ conf[t].pc \in {"normal", "read"}
      BY <1>7 DEF NormalMode, ReadRxbCtrl, rxVars
    <2>2. conf'[t].call = conf[t].call /\ conf'[t].pc \in {"read", "write"}
      <3>1. CASE conf[t].pc = "normal"
        <4>1. conf'[t] = [conf[t] EXCEPT !.pc = "read"]
          BY <3>1, ConfStepMoves
        <4>. QED BY <1>1, <4>1 DEF Conf
      <3>2. CASE conf[t].pc = "read"
        <4>1. conf'[t] = [conf[t] EXCEPT !.pc = "write", !.bukt = (Buffer(slot) = 0 /\ bukt)]
          BY <3>2, ConfStepMoves
        <4>. QED BY <1>1, <4>1 DEF Conf
      <3>. QED BY <2>1, <3>1, <3>2
    <2>3. \A u \in Configurers \ {t} : conf[u].pc = "byte" /\ u \notin intruded' => opmod' = opmod
      BY <1>7 DEF NormalMode, ReadRxbCtrl, modeVars, InSections, InSection
    <2>4. BytesWritten'
      <3>1. ASSUME NEW u \in Configurers, Clean(u)'
            PROVE  /\ conf'[u].pc = "byte" =>
                        /\ opmod' = "config"
                        /\ \A i \in 1..(conf'[u].n - 1) :
                             acc'[conf'[u].call.slot][Order[i]] = AskedFor(u)'[Order[i]]
                   /\ conf'[u].pc \in {"normal", "read", "write"} =>
                        acc'[conf'[u].call.slot] = AskedFor(u)'
        <4>1. Clean(u) /\ AskedFor(u)' = AskedFor(u) /\ u \notin intruded'
          BY <1>4, <2>1, <2>2, <3>1 DEF Clean
        <4>2. CASE u = t
          BY <2>1, <2>2, <4>1, <4>2 DEF HoldInv, BytesWritten
        <4>3. CASE u # t
          <5>1. conf'[u] = conf[u]
            BY <1>1, <4>3
          <5>. QED BY <2>1, <2>3, <4>1, <4>3, <5>1 DEF HoldInv, BytesWritten
        <4>. QED BY <4>2, <4>3
      <3>. QED BY <3>1 DEF BytesWritten
    <2>5. HeldIsQuiet' /\ HeldIsInChip'
      BY <1>4, <2>1, <2>2 DEF HoldInv, HeldIsQuiet, HeldIsInChip
    <2>. QED BY <1>4, <2>1, <2>2, <2>4, <2>5 DEF HoldInv
  <1>8. CASE WriteRxbCtrl(t)
    <2>1. /\ UNCHANGED <<modeVars, acc, intruded>> /\ conf[t].pc = "write" /\ conf'[t] = AtIdle
          /\ rxm' = [rxm EXCEPT ![Buffer(slot)] = 0]
          /\ held' = [held EXCEPT ![slot] =
                        IF t \in intruded \/ Rivals(slot) # {t} THEN Nobody ELSE conf[t].call]
      BY <1>1, <1>8 DEF WriteRxbCtrl, Returned, TypeInv, TypeOK
    <2>2. \A r : Rivals(r)' = Rivals(r) \ {t}
      BY <1>1, <2>1, IdleIsConf DEF Rivals
    <2>3. ASSUME NEW u \in Configurers, Clean(u)'
          PROVE  u # t /\ Clean(u) /\ conf'[u] = conf[u] /\ AskedFor(u)' = AskedFor(u)
      BY <1>1, <2>1, <2>3, IdleIsConf DEF Clean, Active, AskedFor
    <2>4. Alone'
      <3>1. \A u \in Configurers : Clean(u) => Rivals(conf[u].call.slot) = {u}
        BY DEF HoldInv, Alone
      <3>. QED BY <2>2, <2>3, <3>1 DEF Alone
    <2>5. BytesWritten'
      BY <2>1, <2>3 DEF HoldInv, BytesWritten, modeVars
    <2>6. HeldIsQuiet' /\ HeldIsInChip'
      <3>1. held \in [Slots -> Calls \cup {Nobody}] /\ rxm \in [0..1 -> 0..3]
            /\ \A r \in Slots : Buffer(r) \in 0..1
        BY DEF TypeInv, TypeOK, Buffer
      <3>2. ASSUME NEW r \in Slots, held'[r] # Nobody
            PROVE  /\ Rivals(r)' = {}
                   /\ acc'[r] = FilterRegs(held'[r].id, held'[r].ext)
                   /\ rxm'[Buffer(r)] = 0
        <4>1. CASE r = slot
          <5>1. t \notin intruded /\ Rivals(slot) = {t} /\ held'[slot] = conf[t].call
            BY <2>1, <3>1, <3>2, <4>1
          <5>2. acc[slot] = AskedFor(t)
            BY <1>1, <2>1, <5>1 DEF HoldInv, BytesWritten, Clean
          <5>. QED BY <2>1, <2>2, <3>1, <4>1, <5>1, <5>2 DEF AskedFor
        <4>2. CASE r # slot
          <5>1. held'[r] = held[r]
            BY <2>1, <3>1, <4>2
          <5>. QED BY <2>1, <2>2, <3>1, <3>2, <5>1 DEF HoldInv, HeldIsQuiet, HeldIsInChip
        <4>. QED BY <4>1, <4>2
      <3>. QED BY <3>2 DEF HeldIsQuiet, HeldIsInChip
    <2>. QED BY <2>4, <2>5, <2>6 DEF HoldInv
  <1>. QED BY <1>5, <1>6, <1>7, <1>8 DEF ConfStep

(* The others leave the calls alone: initialInTask makes a buffer take     *)
(* every frame again, and forgets what was held of it.                     *)
LEMMA BootHolds ==
  ASSUME TypeInv, HoldInv, Boot
  PROVE  HoldInv'
  <1>1. UNCHANGED <<conf, acc>>
    BY BootLeaves
  <1>2. intruded \subseteq intruded'
    BY DEF Boot, BootRate, BootRxb0, BootRxb1, BootNormal
  <1>3. ASSUME NEW s \in Slots, held'[s] # Nobody
        PROVE  held'[s] = held[s] /\ rxm'[Buffer(s)] = rxm[Buffer(s)]
    <2>1. CASE \E b \in 0..1 : TakesAll(b)
      <3>1. PICK b \in 0..1 : TakesAll(b)
        BY <2>1
      <3>2. Buffer(s) # b /\ held'[s] = held[s]
        BY <1>3, <3>1 DEF TakesAll
      <3>3. rxm \in [0..1 -> 0..3] /\ Buffer(s) \in 0..1
        BY DEF TypeInv, TypeOK, Buffer
      <3>. QED BY <3>1, <3>2, <3>3 DEF TakesAll
    <2>2. CASE UNCHANGED <<rxm, held>>
      BY <2>2
    <2>. QED BY <2>1, <2>2 DEF Boot, BootRate, BootRxb0, BootRxb1, BootNormal
  <1>4. ASSUME NEW t \in Configurers, conf[t].pc = "byte", t \notin intruded', opmod = "config"
        PROVE  opmod' = "config"
    BY <1>4
    DEF Boot, BootRate, BootRxb0, BootRxb1, BootNormal, modeVars, InSections, InSection
  <1>. QED BY <1>1, <1>2, <1>3, <1>4, HoldKept

LEMMA OthersHold ==
  ASSUME TypeInv, HoldInv, Service \/ Traffic \/ UNCHANGED vars
  PROVE  HoldInv'
  <1>1. UNCHANGED <<conf, held, acc, rxm>>
    BY ServiceLeaves, TrafficLeaves DEF vars, rxVars, confVars
  <1>2. intruded \subseteq intruded'
    BY TrafficLeaves DEF Service, BusOffSeen, RecoverConfig, RecoverNormal, vars, confVars
  <1>3. ASSUME NEW t \in Configurers, conf[t].pc = "byte", t \notin intruded', opmod = "config"
        PROVE  opmod' = "config"
    <2>1. CASE Service
      BY <1>3, <2>1
      DEF Service, BusOffSeen, RecoverConfig, RecoverNormal, modeVars, Ask, Lags, InSections, InSection
    <2>2. CASE Traffic
      BY <1>3, <2>2, SendLeaves, ArrivalLeaves, ReadLeaves DEF Traffic, TransmitDone, modeVars
    <2>. QED BY <1>3, <2>1, <2>2 DEF vars, modeVars
  <1>. QED BY <1>1, <1>2, <1>3, HoldKept

LEMMA HoldInvAlways == Spec => [](TypeInv /\ HoldInv)
  <1>1. Init => HoldInv
    <2>. SUFFICES ASSUME Init PROVE HoldInv
      OBVIOUS
    <2>1. (\A t \in Configurers : ~Clean(t)) /\ \A s \in Slots : held[s] = Nobody
      BY IdleIsConf DEF Init, Clean, Active
    <2>. QED BY <2>1 DEF HoldInv, Alone, BytesWritten, HeldIsQuiet, HeldIsInChip
  <1>2. TypeInv /\ HoldInv /\ [Next]_vars => HoldInv'
    BY Steps, BootHolds, ConfigureHolds, ConfStepHolds, OthersHold
  <1>. QED BY <1>1, <1>2, TypeInvAlways, PTL DEF Spec

(* What an undisturbed setFilter or setMask asked for is in the chip when  *)
(* it returns, all four bytes, and stays there until the next call for the *)
(* same register, whatever other configurers, the recovery, the bring-up   *)
(* and the senders do (mcp2515.cpp:104-140).                               *)
THEOREM UndisturbedCallsHold == Spec => []HeldIsInChip
  BY HoldInvAlways, PTL DEF HoldInv

(* A filter and a mask that are in the chip admit the frames they say, for *)
(* every pair of identifiers and every frame (mcp2515.cpp:104-116).        *)
THEOREM FiltersAdmitWhatTheySay == Spec => []FiltersSelect
  <1>1. TypeInv /\ HoldInv => FiltersSelect
    <2>. SUFFICES ASSUME TypeInv, HoldInv, NEW f \in 0..5,
                         held[f] # Nobody, held[6 + Buffer(f)] # Nobody,
                         held[f].ext = held[6 + Buffer(f)].ext, NEW frame \in BusFrames
                  PROVE  Admits(acc[f], acc[6 + Buffer(f)], frame) <=>
                           /\ frame.ext = held[f].ext
                           /\ AgreeUnder(held[6 + Buffer(f)].id, IdOf(frame), held[f].id,
                                         IF frame.ext THEN 29 ELSE 11)
      BY DEF FiltersSelect
    <2>. DEFINE m == 6 + Buffer(f)
    <2>1. f \in Slots /\ m \in Slots
      BY DEF Slots, Buffer
    <2>. HIDE DEF m
    <2>2. held[f] \in Calls /\ held[m] \in Calls
      BY <2>1 DEF TypeInv, TypeOK, m
    <2>3. held[f].id \in Ids /\ held[m].id \in Ids /\ held[f].ext \in BOOLEAN
      BY <2>2, CallsAssumption
    <2>4. /\ acc[f] = FilterRegs(held[f].id, held[f].ext)
          /\ acc[m] = FilterRegs(held[m].id, held[f].ext)
      BY <2>1 DEF HoldInv, HeldIsInChip, m
    <2>5. Selects(held[f].id, held[m].id, held[f].ext, frame)
      BY <2>3, ExtendedSelects, StandardSelects, BusFramesAssumption
    <2>. QED BY <2>4, <2>5 DEF Selects, m
  <1>. QED BY <1>1, HoldInvAlways, PTL

-----------------------------------------------------------------------------
(* However the sections overlap one another, the recovery and the last     *)
(* write of the bring-up, somebody is always left who will ask for Normal  *)
(* mode (mcp2515.cpp:123-125, 135-137, mcp2515Task.cpp:62-64).             *)
THEOREM ConfigModeIsOwned == Spec => []ConfigHasOwner
  <1>1. Init => ConfigHasOwner
    BY DEF Init, ConfigHasOwner
  <1>2. TypeInv /\ ConfigHasOwner /\ [Next]_vars => ConfigHasOwner'
    <2>. SUFFICES ASSUME TypeInv, ConfigHasOwner, [Next]_vars, boot' = "done", reqop' = "config"
                  PROVE  InSections' # {} \/ recovery' = "normal"
      BY DEF ConfigHasOwner
    <2>1. CASE Boot
      BY <2>1
      DEF Boot, BootRate, BootRxb0, BootRxb1, BootNormal, Ask
    <2>2. ASSUME NEW t \in Configurers, Configure(t)
          PROVE  InSections' # {} \/ recovery' = "normal"
      <3>1. /\ conf[t].pc = "idle" /\ \A u \in Configurers \ {t} : conf'[u] = conf[u]
            /\ UNCHANGED <<modeVars, bootVars, recovery>>
        BY <2>2, ConfigureMoves
      <3>2. \A u \in InSections : conf'[u] = conf[u]
        BY <3>1 DEF InSections, InSection
      <3>. QED BY <3>1, <3>2 DEF ConfigHasOwner, InSections, InSection, modeVars, bootVars
    <2>3. ASSUME NEW t \in Configurers, ConfStep(t)
          PROVE  InSections' # {} \/ recovery' = "normal"
      <3>1. /\ UNCHANGED <<boot, recovery>> /\ conf[t] \in Conf
            /\ \A u \in Configurers \ {t} : conf'[u] = conf[u]
        BY <2>3, ConfStepMoves DEF TypeInv, TypeOK, bootVars
      <3>2. CASE ConfigMode(t) \/ FilterByte(t)
        <4>1. conf[t].pc \in {"config", "byte"}
          BY <3>2 DEF ConfigMode, FilterByte, WriteFilterOrMask
        <4>2. conf'[t].pc \in {"byte", "normal"}
          BY <2>3, <3>1, <4>1, ConfStepMoves DEF Conf
        <4>. QED BY <4>2 DEF InSections, InSection
      <3>3. CASE NormalMode(t)
        BY <3>3 DEF NormalMode, Ask
      <3>4. CASE ReadRxbCtrl(t) \/ WriteRxbCtrl(t)
        <4>1. reqop' = reqop /\ conf[t].pc \in {"read", "write"}
          BY <3>4 DEF ReadRxbCtrl, WriteRxbCtrl, modeVars
        <4>2. \A u \in InSections : conf'[u] = conf[u]
          BY <3>1, <4>1 DEF InSections, InSection
        <4>. QED BY <3>1, <4>1, <4>2 DEF ConfigHasOwner, InSections, InSection
      <3>. QED BY <2>3, <3>2, <3>3, <3>4 DEF ConfStep
    <2>4. CASE Service
      <3>1. UNCHANGED <<conf, boot>>
        BY <2>4, ServiceLeaves DEF bootVars
      <3>. QED
        BY <2>4, <3>1
        DEF Service, BusOffSeen, RecoverConfig, RecoverNormal, Ask, modeVars, ConfigHasOwner,
            InSections, InSection
    <2>5. CASE Traffic \/ UNCHANGED vars
      <3>1. UNCHANGED <<conf, boot, recovery, reqop>>
        BY <2>5, TrafficLeaves DEF vars, modeVars, bootVars, confVars
      <3>. QED BY <3>1 DEF ConfigHasOwner, InSections, InSection
    <2>. QED BY <2>1, <2>2, <2>3, <2>4, <2>5, Steps
  <1>. QED BY <1>1, <1>2, TypeInvAlways, PTL DEF Spec

-----------------------------------------------------------------------------
(* Whoever clears RXM of RXB0CTRL writes BUKT back as he found it, and as  *)
(* initialInTask set it up, unless he read it before initialInTask wrote   *)
(* it (mcp2515Task.cpp:23-28, mcp2515.cpp:126, 138).                       *)
THEOREM RolloverSurvives == Spec => []RolloverKept
  <1>1. Init => RolloverInv
    BY DEF Init, RolloverInv
  <1>2. TypeInv /\ RolloverInv /\ [Next]_vars => RolloverInv'
    <2>. SUFFICES ASSUME TypeInv, RolloverInv, [Next]_vars,
                         "rollover" \notin undone', boot' \in {"rxb1", "normal", "done"}
                  PROVE  /\ bukt' = setup'.rollover
                         /\ \A t \in Configurers : HasReadRxb0(t)' => conf'[t].bukt = bukt'
      BY DEF RolloverInv
    <2>1. CASE Boot
      <3>1. UNCHANGED <<setup, conf>> /\ \A t \in Configurers : HasReadRxb0(t)' = HasReadRxb0(t)
        BY <2>1, BootLeaves DEF HasReadRxb0
      <3>2. CASE BootRxb0
        BY <3>1, <3>2 DEF BootRxb0
      <3>3. CASE BootRxb1 \/ BootNormal
        <4>1. UNCHANGED <<bukt, undone>> /\ boot \in {"rxb1", "normal"}
          BY <3>3 DEF BootRxb1, BootNormal
        <4>. QED BY <3>1, <4>1 DEF RolloverInv
      <3>. QED BY <2>1, <3>2, <3>3 DEF Boot, BootRate
    <2>2. ASSUME NEW t \in Configurers, Configure(t)
          PROVE  /\ bukt' = setup'.rollover
                 /\ \A u \in Configurers : HasReadRxb0(u)' => conf'[u].bukt = bukt'
      <3>1. UNCHANGED <<boot, bukt, setup, undone>> /\ \A u \in Configurers \ {t} : conf'[u] = conf[u]
        BY <2>2, ConfigureMoves DEF rxVars, bootVars
      <3>2. conf'[t].pc = "config"
        BY <2>2, ConfigureMoves, IdleIsConf DEF Conf
      <3>. QED BY <3>1, <3>2 DEF RolloverInv, HasReadRxb0
    <2>3. ASSUME NEW t \in Configurers, ConfStep(t)
          PROVE  /\ bukt' = setup'.rollover
                 /\ \A u \in Configurers : HasReadRxb0(u)' => conf'[u].bukt = bukt'
      <3>1. /\ UNCHANGED <<boot, setup>> /\ conf[t] \in Conf
            /\ \A u \in Configurers \ {t} : conf'[u] = conf[u]
        BY <2>3, ConfStepMoves DEF bootVars, TypeInv, TypeOK
      <3>2. "rollover" \notin undone
        BY <2>3 DEF ConfStep, ConfigMode, FilterByte, WriteFilterOrMask, NormalMode, ReadRxbCtrl,
                    WriteRxbCtrl
      <3>3. bukt = setup.rollover /\ \A u \in Configurers : HasReadRxb0(u) => conf[u].bukt = bukt
        BY <3>1, <3>2 DEF RolloverInv
      <3>4. bukt' = bukt
        BY <2>3, <3>3
        DEF ConfStep, ConfigMode, FilterByte, WriteFilterOrMask, NormalMode, ReadRxbCtrl,
            WriteRxbCtrl, rxVars, HasReadRxb0
      <3>5. HasReadRxb0(t)' => conf'[t].bukt = bukt
        <4>1. SUFFICES ASSUME conf'[t].pc = "write", Buffer(conf'[t].call.slot) = 0
                       PROVE  conf'[t].bukt = bukt
          BY DEF HasReadRxb0
        <4>2. conf[t].pc = "read"
          BY <2>3, <4>1, ConfStepKeepsCall
        <4>3. conf'[t] = [conf[t] EXCEPT !.pc = "write",
                                         !.bukt = (Buffer(conf[t].call.slot) = 0 /\ bukt)]
          BY <2>3, <4>2, ConfStepMoves
        <4>4. /\ conf'[t].call = conf[t].call
              /\ conf'[t].bukt = (Buffer(conf[t].call.slot) = 0 /\ bukt)
          BY <3>1, <4>3 DEF Conf
        <4>5. bukt \in BOOLEAN /\ Buffer(conf[t].call.slot) = 0
          BY <4>1, <4>4 DEF TypeInv, TypeOK
        <4>. QED BY <4>4, <4>5, Zenon
      <3>. QED BY <3>1, <3>3, <3>4, <3>5 DEF HasReadRxb0
    <2>4. CASE Service \/ Traffic \/ UNCHANGED vars
      <3>1. UNCHANGED <<boot, bukt, setup, conf, undone>>
        BY <2>4, ServiceLeaves, TrafficLeaves DEF vars, rxVars, bootVars, confVars
      <3>. QED BY <3>1 DEF RolloverInv, HasReadRxb0
    <2>. QED BY <2>1, <2>2, <2>3, <2>4, Steps
  <1>3. RolloverInv => RolloverKept
    BY DEF RolloverInv, RolloverKept
  <1>. QED BY <1>1, <1>2, <1>3, TypeInvAlways, PTL DEF Spec

-----------------------------------------------------------------------------
(* A chip that came up in Configuration mode takes all three bit timing    *)
(* registers, if no section takes it to Normal mode before.                *)
LEMMA RateInvAlways == Spec => [](TypeInv /\ RateInv)
  <1>1. Init => RateInv
    BY DEF Init, RateInv
  <1>2. TypeInv /\ RateInv /\ [Next]_vars => RateInv'
    <2>. SUFFICES ASSUME TypeInv, RateInv, [Next]_vars, ~WarmBoot PROVE RateInv'
      BY DEF RateInv
    <2>1. CASE Boot
      <3>1. UNCHANGED <<setup, recovery>> /\ cnf \in [1..3 -> Byte]
        BY <2>1, BootLeaves DEF TypeInv, TypeOK
      <3>3. CASE \/ BootRate(1, "cnf1", "cnf2")
                 \/ BootRate(2, "cnf2", "cnf3")
                 \/ BootRate(3, "cnf3", "rxb0")
        BY <3>1, <3>3 DEF BootRate, RateInv, modeVars
      <3>4. CASE BootRxb0 \/ BootRxb1 \/ BootNormal
        <4>1. /\ UNCHANGED cnf /\ boot \in {"rxb0", "rxb1", "normal"}
              /\ boot' \in {"rxb1", "normal", "done"} /\ undone \subseteq undone'
              /\ boot' = "rxb1" => boot = "rxb0"
          BY <3>4 DEF BootRxb0, BootRxb1, BootNormal
        <4>. QED BY <3>1, <4>1 DEF RateInv
      <3>. QED BY <2>1, <3>3, <3>4 DEF Boot
    <2>2. CASE ~Boot
      <3>1. UNCHANGED <<boot, cnf, setup>> /\ undone \subseteq undone'
        <4>1. ASSUME NEW t \in Configurers, Configure(t)
              PROVE  UNCHANGED <<boot, cnf, setup, undone>>
          BY <4>1, ConfigureMoves DEF bootVars
        <4>2. ASSUME NEW t \in Configurers, ConfStep(t)
              PROVE  UNCHANGED <<boot, cnf, setup>> /\ undone \subseteq undone'
          BY <4>2, ConfStepMoves
          DEF bootVars, ConfStep, ConfigMode, FilterByte, WriteFilterOrMask, NormalMode, ReadRxbCtrl,
              WriteRxbCtrl
        <4>3. CASE Service \/ Traffic \/ UNCHANGED vars
          BY <4>3, ServiceLeaves, TrafficLeaves DEF vars, bootVars, confVars
        <4>. QED BY <2>2, <4>1, <4>2, <4>3, Steps
      <3>2. boot \notin {"normal", "done"} => recovery' = "idle"
        <4>1. ASSUME NEW t \in Configurers, Configure(t) \/ ConfStep(t)
              PROVE  recovery' = recovery
          BY <4>1, ConfigureMoves, ConfStepMoves
        <4>2. CASE Service
          BY <4>2 DEF Service, BusOffSeen, RecoverConfig, RecoverNormal, RateInv
        <4>3. CASE Traffic \/ UNCHANGED vars
          BY <4>3, TrafficLeaves DEF vars, RateInv
        <4>. QED BY <2>2, <4>1, <4>2, <4>3, Steps DEF RateInv
      <3>3. ASSUME "rate" \notin undone', boot \in {"cnf1", "cnf2", "cnf3"}
            PROVE  opmod' = "config"
        <4>0. opmod = "config" /\ recovery = "idle"
          BY <3>1, <3>3 DEF RateInv
        <4>1. ASSUME NEW t \in Configurers, Configure(t)
              PROVE  opmod' = opmod
          BY <4>1, ConfigureMoves DEF modeVars
        <4>2. ASSUME NEW t \in Configurers, ConfStep(t)
              PROVE  opmod' = "config"
          BY <3>3, <4>0, <4>2
          DEF ConfStep, ConfigMode, FilterByte, WriteFilterOrMask, NormalMode, ReadRxbCtrl,
              WriteRxbCtrl, Ask, Lags, modeVars
        <4>3. CASE Service
          BY <4>0, <4>3 DEF Service, BusOffSeen, RecoverConfig, RecoverNormal
        <4>4. CASE Traffic
          BY <4>0, <4>4, SendLeaves, ArrivalLeaves, ReadLeaves DEF Traffic, TransmitDone, modeVars
        <4>5. CASE UNCHANGED vars
          BY <4>0, <4>5 DEF vars, modeVars
        <4>. QED BY <2>2, <4>0, <4>1, <4>2, <4>3, <4>4, <4>5, Steps
      <3>. QED BY <3>1, <3>2, <3>3 DEF RateInv
    <2>. QED BY <2>1, <2>2
  <1>. QED BY <1>1, <1>2, TypeInvAlways, PTL DEF Spec

(* With a 16 MHz oscillator they give the rate that was asked for, for     *)
(* each of the nine rates (mcp2515.cpp:5-10, 19-23, mcp2515.h:63-73).      *)
THEOREM RateIsTheOneAsked ==
  ASSUME Mhz = 16
  PROVE  Spec => []RateIsNominal
  <1>1. TypeInv /\ RateInv => RateIsNominal
    <2>. SUFFICES ASSUME TypeInv, RateInv, boot = "done", ~WarmBoot, "rate" \notin undone
                  PROVE  BitTime(cnf) * Bitrate[setup.rate] = 1000 * Mhz
      BY DEF RateIsNominal
    <2>1. setup.rate \in 1..9
      BY ChipAssumption DEF TypeInv, TypeOK
    <2>2. BitrateRow(Mhz, setup.rate) = BitrateToReg16MHz[setup.rate]
      BY DEF BitrateRow
    <2>3. \A i \in 1..3 : cnf[i] = BitrateToReg16MHz[setup.rate][i]
      BY <2>2 DEF RateInv
    <2>. QED BY <2>1, <2>3, NominalRows
  <1>. QED BY <1>1, RateInvAlways, PTL

(* With an 8 MHz oscillator none of the nine does: the chip that comes up  *)
(* with the first row of BitrateToReg8MHz has a bit of 2000 periods, which *)
(* is 4 kbit/s, and with each other row one of twice the length, half the  *)
(* rate that was asked for (mcp2515.h:52-62).                              *)
RateIsOff ==
  (boot = "done" /\ ~WarmBoot /\ "rate" \notin undone) =>
    IF setup.rate = 1 THEN BitTime(cnf) = 2000
                      ELSE BitTime(cnf) * Bitrate[setup.rate] = 2 * 8000

THEOREM RateIsMissed ==
  ASSUME Mhz = 8
  PROVE  Spec => []RateIsOff
  <1>1. TypeInv /\ RateInv => RateIsOff
    <2>. SUFFICES ASSUME TypeInv, RateInv, boot = "done", ~WarmBoot, "rate" \notin undone
                  PROVE  IF setup.rate = 1 THEN BitTime(cnf) = 2000
                         ELSE BitTime(cnf) * Bitrate[setup.rate] = 2 * 8000
      BY DEF RateIsOff
    <2>1. setup.rate \in 1..9
      BY ChipAssumption DEF TypeInv, TypeOK
    <2>2. BitrateRow(Mhz, setup.rate) = BitrateToReg8MHz[setup.rate]
      BY DEF BitrateRow
    <2>3. \A i \in 1..3 : cnf[i] = BitrateToReg8MHz[setup.rate][i]
      BY <2>2 DEF RateInv
    <2>. QED BY <2>1, <2>3, MissedRows
  <1>. QED BY <1>1, RateInvAlways, PTL

-----------------------------------------------------------------------------
(* Every identifier of 29 bits goes out as it was given, extended exactly  *)
(* above 0x7FF, whatever frame was sent before, from every call that had   *)
(* TXB0 to itself while it wrote, byte by byte (mcp2515.cpp:50-62).        *)
THEOREM EveryIdIsSent == Spec => []SendsAsMeant
  <1>1. Init => SendInv /\ SendsAsMeant
    <2>. SUFFICES ASSUME Init PROVE SendInv /\ SendsAsMeant
      OBVIOUS
    <2>1. (\A t \in Senders : sending[t].n = 0) /\ txreq = FALSE
      BY DEF Init, NotSending
    <2>. QED BY <2>1 DEF SendInv, Past, SendsAsMeant
  <1>2. TypeInv /\ SendInv /\ SendsAsMeant /\ [Next]_vars => SendInv' /\ SendsAsMeant'
    <2>. SUFFICES ASSUME TypeInv, SendInv, SendsAsMeant, [Next]_vars
                  PROVE  SendInv' /\ SendsAsMeant'
      OBVIOUS
    <2>0. /\ sending \in [Senders -> Sending] /\ txr \in Regs /\ txreq \in BOOLEAN
          /\ \A u \in Senders : sending[u].n \in 0..5
      BY DEF TypeInv, TypeOK, Sending
    <2>1. ASSUME NEW t \in Senders, NEW id \in SendIds, SendStart(t, id)
          PROVE  SendInv' /\ SendsAsMeant'
      <3>1. UNCHANGED <<txr, txreq, wanted, spoilt>>
        BY <2>1 DEF SendStart
      <3>2. /\ \A u \in Senders \ {t} : sending'[u] = sending[u]
            /\ sending'[t].n = 1
        BY <2>0, <2>1 DEF SendStart
      <3>3. \A u \in Senders : Past(u)' => Past(u) /\ sending'[u] = sending[u]
        BY <3>2 DEF Past
      <3>. QED BY <3>1, <3>3 DEF SendInv, SendsAsMeant, Behind
    <2>2. ASSUME NEW t \in Senders, SendByte(t)
          PROVE  SendInv' /\ SendsAsMeant'
      <3>. DEFINE id == sending[t].id
                  n == sending[t].n
                  f == TxBytes(id)[n]
      <3>1. SUFFICES ASSUME ~spoilt'
                     PROVE  SendInv' /\ SendsAsMeant'
        BY DEF SendInv, SendsAsMeant
      <3>2. /\ ~txreq /\ ~txreq' /\ \A u \in Senders \ {t} : ~Past(u)
            /\ n > 1 => ~spoilt
        BY <2>2, <3>1, Zenon DEF SendByte, Past
      <3>3. /\ n \in 1..Len(TxBytes(id)) /\ txr' = [txr EXCEPT ![f] = TxRegs(id)[f]]
            /\ sending' = [sending EXCEPT ![t] = [sending[t] EXCEPT !.n = n + 1]]
        BY <2>0, <2>2, <3>2 DEF SendByte
      <3>4. id \in Ids
        BY <3>3, SendIdsAssumption DEF TypeInv, SendsKnown
      <3>5. \A i \in 1..Len(TxBytes(id)) : TxBytes(id)[i] \in Fields
        BY <3>4, BytesOfSend
      <3>6. sending'[t].id = id /\ sending'[t].n = n + 1
            /\ \A u \in Senders \ {t} : sending'[u] = sending[u]
        BY <2>0, <3>3 DEF Sending
      <3>7. \A u \in Senders : Past(u)' => u = t
        BY <3>2, <3>6 DEF Past
      <3>8. \A i \in 1..(n - 1) : txr[TxBytes(id)[i]] = TxRegs(id)[TxBytes(id)[i]]
        <4>1. CASE n > 1
          BY <3>2, <4>1 DEF SendInv, Past, Behind
        <4>2. CASE ~(n > 1)
          BY <2>0, <4>2
        <4>. QED BY <4>1, <4>2
      <3>9. Len(TxBytes(id)) \in {2, 4}
        BY <3>4, BytesOfSend
      <3>10. ASSUME NEW i \in 1..n
             PROVE  txr'[TxBytes(id)[i]] = TxRegs(id)[TxBytes(id)[i]]
        <4>. DEFINE g == TxBytes(id)[i]
                    l == Len(TxBytes(id))
        <4>1. n \in 1..l /\ l \in {2, 4}
          BY <3>3, <3>9
        <4>2. i \in 1..l /\ (i = n \/ i \in 1..(n - 1))
          <5>. HIDE DEF n, l
          <5>. QED BY <3>10, <4>1
        <4>3. g \in Fields
          BY <3>5, <4>2
        <4>4. g = f \/ txr[g] = TxRegs(id)[g]
          BY <3>8, <4>2
        <4>. HIDE DEF f, g
        <4>5. txr'[g] = TxRegs(id)[g]
          BY <2>0, <3>3, <4>3, <4>4 DEF Regs, Fields
        <4>. QED BY <4>5 DEF g
      <3>11. Behind(t)'
        <4>1. (n + 1) - 1 = n
          BY <2>0
        <4>2. \A i \in 1..((n + 1) - 1) : txr'[TxBytes(id)[i]] = TxRegs(id)[TxBytes(id)[i]]
          BY <3>10, <4>1
        <4>. QED BY <3>6, <4>2 DEF Behind
      <3>. QED BY <3>2, <3>7, <3>11 DEF SendInv, SendsAsMeant
    <2>3. ASSUME NEW t \in Senders, SendRequest(t)
          PROVE  SendInv' /\ SendsAsMeant'
      <3>. DEFINE id == sending[t].id
                  l == Len(TxBytes(id))
      <3>1. SUFFICES ASSUME ~spoilt
                     PROVE  SendInv' /\ SendsAsMeant'
        BY <2>3 DEF SendInv, SendsAsMeant, SendRequest
      <3>2. sending[t].n = l + 1 /\ wanted' = id /\ txr' = txr
        BY <2>3 DEF SendRequest
      <3>3. TxBytes(id) \in {<<"eid0", "eid8", "sidl", "sidh">>, <<"sidh", "sidl">>}
        BY DEF TxBytes
      <3>4. l \in {2, 4}
        BY <3>3
      <3>5. Past(t) /\ sending[t].n # 0 /\ (l + 1) - 1 = l
        <4>. HIDE DEF l
        <4>. QED BY <3>2, <3>4 DEF Past
      <3>6. id \in Ids
        BY <3>5, SendIdsAssumption DEF TypeInv, SendsKnown
      <3>7. \A i \in 1..l : txr[TxBytes(id)[i]] = TxRegs(id)[TxBytes(id)[i]]
        BY <3>1, <3>2, <3>5 DEF SendInv, Behind
      <3>8. IdOf(WireId(txr)) = id /\ (WireId(txr).ext <=> id > 2047)
        BY <2>0, <3>6, <3>7, SendsIdentifier
      <3>9. \A u \in Senders : ~Past(u)'
        <4>1. \A u \in Senders \ {t} : ~Past(u)
          BY <3>1, <3>5 DEF SendInv
        <4>2. sending'[t].n = 0 /\ \A u \in Senders \ {t} : sending'[u] = sending[u]
          BY <2>0, <2>3 DEF SendRequest, NotSending
        <4>. QED BY <4>1, <4>2 DEF Past
      <3>. QED BY <3>2, <3>8, <3>9 DEF SendInv, SendsAsMeant
    <2>4. CASE TransmitDone
      <3>1. UNCHANGED <<txr, wanted, spoilt, sending>> /\ ~txreq'
        BY <2>4 DEF TransmitDone
      <3>. QED BY <3>1 DEF SendInv, SendsAsMeant, Past, Behind
    <2>5. ASSUME UNCHANGED sendVars
          PROVE  SendInv' /\ SendsAsMeant'
      BY <2>5 DEF sendVars, SendInv, SendsAsMeant, Past, Behind
    <2>6. ASSUME NEW t \in Configurers, Configure(t) \/ ConfStep(t)
          PROVE  UNCHANGED sendVars
      BY <2>6, ConfigureMoves, ConfStepMoves
    <2>7. Boot \/ Service \/ Arrival \/ Read \/ UNCHANGED vars => UNCHANGED sendVars
      BY BootLeaves, ServiceLeaves, ArrivalLeaves, ReadLeaves DEF vars
    <2>. QED BY <2>1, <2>2, <2>3, <2>4, <2>5, <2>6, <2>7, Steps DEF Traffic, Send
  <1>. QED BY <1>1, <1>2, TypeInvAlways, PTL DEF Spec

-----------------------------------------------------------------------------
(* Every frame is read with the identifier and the length it was sent      *)
(* with, standard or extended, data or remote, whatever the registers held *)
(* before, if no other frame comes in between the brackets of the read     *)
(* (mcp2515.cpp:65-95).                                                    *)
THEOREM EveryFrameIsRead == Spec => []ReadsAsSent
  <1>1. Init => ReadInv
    BY DEF Init, ReadInv, InBuffer, NotReading
  <1>2. TypeInv /\ ReadInv /\ [Next]_vars => ReadInv'
    <2>. SUFFICES ASSUME TypeInv, ReadInv, [Next]_vars PROVE ReadInv'
      OBVIOUS
    <2>0. /\ rxr \in Regs /\ reading \in Reading /\ reading.regs \in Regs
      BY DEF TypeInv, TypeOK, Reading
    <2>1. ASSUME NEW frame \in BusFrames, FrameArrives(frame)
          PROVE  ReadInv'
      <3>1. /\ rxr' = RxRegs(frame, rxr) /\ rxdlc' = RxDlc(frame)
            /\ rxframe' = frame /\ torn' = TRUE /\ reading' = reading
        BY <2>1 DEF FrameArrives
      <3>2. frame # NoFrame
        <4>1. frame.sid \in Nat
          BY BusFramesAssumption, NumberOfFrame, SidsRange
        <4>. QED BY <4>1 DEF NoFrame
      <3>. QED BY <2>0, <3>1, <3>2 DEF ReadInv, InBuffer
    <2>2. ASSUME Read
          PROVE  ReadInv'
      <3>1. UNCHANGED <<rxr, rxdlc, rxframe>>
        BY <2>2, ReadLeaves
      <3>2. InBuffer'
        BY <3>1 DEF ReadInv, InBuffer
      <3>3. CASE ReadStart
        BY <3>1, <3>2, <3>3 DEF ReadStart, ReadInv, ReadSoFar, NotReading
      <3>4. CASE ReadDlc
        <4>1. /\ reading.pc = "dlc" /\ UNCHANGED torn
              /\ reading' = [reading EXCEPT !.dlc = rxdlc,
                                !.pc = IF Extended(reading.regs) THEN "eid8" ELSE "return"]
          BY <3>4 DEF ReadDlc
        <4>2. /\ reading'.regs = reading.regs /\ reading'.dlc = rxdlc
              /\ reading'.pc = IF Extended(reading.regs) THEN "eid8" ELSE "return"
          BY <2>0, <4>1 DEF Reading
        <4>. QED BY <3>1, <3>2, <4>1, <4>2 DEF ReadInv, ReadSoFar
      <3>5. CASE ReadByte
        <4>. DEFINE f == reading.pc
        <4>1. f \in Fields /\ UNCHANGED torn
          BY <3>5 DEF ReadByte
        <4>2. reading' = [reading EXCEPT !.regs = [reading.regs EXCEPT ![f] = rxr[f]],
                                         !.pc = AfterByte[f]]
          BY <2>0, <3>5 DEF ReadByte, Reading
        <4>3. /\ reading'.pc = AfterByte[f] /\ reading'.dlc = reading.dlc
              /\ reading'.regs = [reading.regs EXCEPT ![f] = rxr[f]]
          BY <2>0, <4>2 DEF Reading
        <4>4. CASE f = "sidh"
          <5>1. reading'.pc = "sidl" /\ reading'.regs.sidh = rxr.sidh
            BY <2>0, <4>3, <4>4 DEF AfterByte, Regs
          <5>. QED BY <3>1, <3>2, <4>1, <4>4, <5>1 DEF ReadInv, ReadSoFar
        <4>5. CASE f = "sidl"
          <5>1. /\ reading'.pc = "dlc" /\ reading'.regs.sidl = rxr.sidl
                /\ reading'.regs.sidh = reading.regs.sidh
            BY <2>0, <4>3, <4>5 DEF AfterByte, Regs
          <5>. QED BY <3>1, <3>2, <4>1, <4>5, <5>1 DEF ReadInv, ReadSoFar
        <4>6. CASE f = "eid8"
          <5>1. /\ reading'.pc = "eid0" /\ reading'.regs.eid8 = rxr.eid8
                /\ reading'.regs.sidh = reading.regs.sidh /\ reading'.regs.sidl = reading.regs.sidl
            BY <2>0, <4>3, <4>6 DEF AfterByte, Regs
          <5>. QED BY <3>1, <3>2, <4>1, <4>3, <4>6, <5>1 DEF ReadInv, ReadSoFar
        <4>7. CASE f = "eid0"
          <5>1. /\ reading'.pc = "return" /\ reading'.regs.eid0 = rxr.eid0
                /\ reading'.regs.eid8 = reading.regs.eid8
                /\ reading'.regs.sidh = reading.regs.sidh /\ reading'.regs.sidl = reading.regs.sidl
            BY <2>0, <4>3, <4>7 DEF AfterByte, Regs
          <5>. QED BY <3>1, <3>2, <4>1, <4>3, <4>7, <5>1 DEF ReadInv, ReadSoFar
        <4>. QED BY <4>1, <4>4, <4>5, <4>6, <4>7 DEF Fields
      <3>. QED BY <2>2, <3>3, <3>4, <3>5 DEF Read
    <2>3. ASSUME UNCHANGED readVars
          PROVE  ReadInv'
      BY <2>3 DEF readVars, ReadInv, InBuffer, ReadSoFar
    <2>4. ASSUME NEW t \in Configurers, Configure(t) \/ ConfStep(t)
          PROVE  UNCHANGED readVars
      BY <2>4, ConfigureMoves, ConfStepMoves
    <2>5. Boot \/ Service \/ Send \/ TransmitDone \/ UNCHANGED vars => UNCHANGED readVars
      BY BootLeaves, ServiceLeaves, SendLeaves DEF TransmitDone, vars
    <2>. QED BY <2>1, <2>2, <2>3, <2>4, <2>5, Steps DEF Traffic, Arrival
  <1>3. TypeInv /\ ReadInv => ReadsAsSent
    <2>. SUFFICES ASSUME TypeInv, ReadInv, reading.pc = "return", ~torn
                  PROVE  /\ ReadId(reading.regs) = IdOf(rxframe)
                         /\ ReadLength(reading.dlc) = rxframe.dlc
      BY DEF ReadsAsSent
    <2>1. rxframe \in Frames /\ rxframe # NoFrame
      BY BusFramesAssumption DEF ReadInv, TypeInv, TypeOK
    <2>2. PICK stale \in Regs : rxr = RxRegs(rxframe, stale) /\ rxdlc = RxDlc(rxframe)
      BY <2>1 DEF ReadInv, InBuffer
    <2>3. /\ reading.regs \in Regs /\ rxr \in Regs
          /\ reading.regs.sidh = rxr.sidh /\ reading.regs.sidl = rxr.sidl /\ reading.dlc = rxdlc
          /\ Extended(reading.regs) => /\ reading.regs.eid8 = rxr.eid8
                                       /\ reading.regs.eid0 = rxr.eid0
      BY DEF ReadInv, ReadSoFar, TypeInv, TypeOK, Reading
    <2>4. ReadId(reading.regs) = ReadId(rxr)
      BY <2>3, SameReading
    <2>. QED BY <2>1, <2>2, <2>3, <2>4, ReadsIdentifier, ReadsLength
  <1>. QED BY <1>1, <1>2, <1>3, TypeInvAlways, PTL DEF Spec
=============================================================================
