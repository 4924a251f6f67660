------------------------------- MODULE CanIds -------------------------------
(***************************************************************************)
(* Identifiers in the registers of the MCP2515 (source/mcp2515.cpp) and in *)
(* the frames of the bus, and the bit timing registers                     *)
(* (include/mcp2515.h).                                                    *)
(*                                                                         *)
(* A shift and a mask of the code, (x >> s) & (2^k - 1), is                *)
(* Bits(x, 2^s, 2^k); an "or" of fields that do not overlap is their sum.  *)
(* Frames are modelled by their fields: ext, the 11 bits sid, in an        *)
(* extended frame the 18 bits eid, the length nibble and the remote bit.   *)
(***************************************************************************)
EXTENDS Integers

Bits(x, unit, n) == (x \div unit) % n
Below(n) == 0..(n - 1)

Fields == {"sidh", "sidl", "eid8", "eid0"}
Byte == Below(256)
Regs == [sidh : Byte, sidl : Byte, eid8 : Byte, eid0 : Byte]
NoRegs == [sidh |-> 0, sidl |-> 0, eid8 |-> 0, eid0 |-> 0]

(* The four registers of an extended identifier, as txBuffer0Send and      *)
(* writeFilterOrMask compute them; EXIDE is bit 3 of SIDL.  The mutant     *)
(* ExtRegsLow takes the upper field of SIDL one bit too low.               *)
ExtRegsLow(id) ==
  [sidh |-> Bits(id, 2097152, 256),
   sidl |-> 32 * Bits(id, 131072, 8) + 8 + Bits(id, 65536, 4),
   eid8 |-> Bits(id, 256, 256),
   eid0 |-> Bits(id, 1, 256)]

ExtRegs(id) ==
  [sidh |-> Bits(id, 2097152, 256),
   sidl |-> 32 * Bits(id, 262144, 8) + 8 + Bits(id, 65536, 4),
   eid8 |-> Bits(id, 256, 256),
   eid0 |-> Bits(id, 1, 256)]

(* A standard identifier, with the extended bytes zeroed, as               *)
(* writeFilterOrMask does.                                                 *)
StdRegs(id) ==
  [sidh |-> Bits(id, 8, 256), sidl |-> 32 * Bits(id, 1, 8), eid8 |-> 0, eid0 |-> 0]

FilterRegs(id, ext) == IF ext THEN ExtRegs(id) ELSE StdRegs(id)

(* txBuffer0Send tells the two apart by the value, and computes the same   *)
(* bytes ...                                                               *)
TxRegs(id) == FilterRegs(id, id > 2047)

(* ... of which it writes these, in this order.  The mutant leaves SIDL of *)
(* a standard identifier as an earlier frame left it.                      *)
TxBytesKeepSidl(id) ==
  IF id > 2047 THEN <<"eid0", "eid8", "sidl", "sidh">> ELSE <<"sidh">>

TxBytes(id) ==
  IF id > 2047 THEN <<"eid0", "eid8", "sidl", "sidh">> ELSE <<"sidh", "sidl">>

Extended(regs) == Bits(regs.sidl, 8, 2) = 1

(* rxBuffer0Read and rxBuffer1Read.  The mutant forgets EID17 and EID16.   *)
ReadIdShort(regs) ==
  IF Extended(regs)
    THEN 2097152 * regs.sidh + 262144 * (regs.sidl \div 32)
         + 256 * regs.eid8 + regs.eid0
    ELSE 8 * regs.sidh + regs.sidl \div 32

ReadId(regs) ==
  IF Extended(regs)
    THEN 2097152 * regs.sidh + 262144 * (regs.sidl \div 32)
         + 65536 * (regs.sidl % 4) + 256 * regs.eid8 + regs.eid0
    ELSE 8 * regs.sidh + regs.sidl \div 32

(* The DLC register also holds RTR in bit 6. *)
ReadLength(dlcReg) == Bits(dlcReg, 1, 16)

-----------------------------------------------------------------------------
(* The chip: the identifier it makes of the registers of TXB0, and what it *)
(* puts into those of a receive buffer.  The remote bit of a standard      *)
(* frame is bit 4 of SIDL, that of an extended one bit 6 of DLC; a         *)
(* standard frame leaves EID8 and EID0 as they were.                       *)
WireId(regs) ==
  [ext |-> Extended(regs),
   sid |-> 8 * regs.sidh + regs.sidl \div 32,
   eid |-> IF Extended(regs)
             THEN 65536 * (regs.sidl % 4) + 256 * regs.eid8 + regs.eid0
             ELSE 0]

RxRegs(frame, stale) ==
  [sidh |-> frame.sid \div 8,
   sidl |-> 32 * (frame.sid % 8)
            + (IF frame.ext THEN 8 + frame.eid \div 65536 ELSE 16 * frame.rtr),
   eid8 |-> IF frame.ext THEN Bits(frame.eid, 256, 256) ELSE stale.eid8,
   eid0 |-> IF frame.ext THEN frame.eid % 256 ELSE stale.eid0]

RxDlc(frame) == IF frame.ext THEN 64 * frame.rtr + frame.dlc ELSE frame.dlc

(* The number a frame carries, sid before eid on the wire. *)
IdOf(frame) == IF frame.ext THEN 262144 * frame.sid + frame.eid ELSE frame.sid

Ids == Below(536870912)       \* 29 bits, of which 11 are sid and 18 eid
Sids == Below(2048)
Eids == Below(262144)
Frames == [ext : BOOLEAN, sid : Sids, eid : Eids, dlc : Below(16), rtr : 0..1]

(* Acceptance: the bits of sid, and of eid in an extended frame, agree     *)
(* with the filter wherever the mask has a one.  (In a standard frame the  *)
(* chip compares EID8 and EID0 with the first data bytes, where the mask   *)
(* asks for it; the mask registers of a standard mask do not.)             *)
AgreeUnder(mask, x, y, width) ==
  \A k \in 0..(width - 1) : Bits(mask, 2^k, 2) = 1 => Bits(x, 2^k, 2) = Bits(y, 2^k, 2)

Admits(filter, mask, frame) ==
  LET f == WireId(filter)
      m == [sid |-> 8 * mask.sidh + mask.sidl \div 32,
            eid |-> 65536 * (mask.sidl % 4) + 256 * mask.eid8 + mask.eid0]
  IN /\ frame.ext = f.ext
     /\ AgreeUnder(m.sid, frame.sid, f.sid, 11)
     /\ frame.ext => AgreeUnder(m.eid, frame.eid, f.eid, 18)

-----------------------------------------------------------------------------
(* The chip's bit time, in periods of its oscillator, from CNF1, CNF2 and  *)
(* CNF3: 2 * (BRP + 1) for each quantum of the sync, propagation and two   *)
(* phase segments.  With BTLMODE clear the second phase segment is as long *)
(* as the first, but not shorter than two quanta.                          *)
Quanta(cnf) ==
  LET ps1 == Bits(cnf[2], 8, 8) + 1
      ps2 == IF Bits(cnf[2], 128, 2) = 1 THEN Bits(cnf[3], 1, 8) + 1
             ELSE IF ps1 < 2 THEN 2 ELSE ps1
  IN 1 + (Bits(cnf[2], 1, 8) + 1) + ps1 + ps2

BitTime(cnf) == 2 * (Bits(cnf[1], 1, 64) + 1) * Quanta(cnf)

(* The rates of Mcp2515::Bitrate, in kilobits per second, and the rows the *)
(* constructor chooses for them.                                           *)
Bitrate == <<5, 10, 20, 50, 100, 125, 250, 500, 1000>>

BitrateToReg8MHz ==
  << <<\hA7, \hBF, \h07>>, <<\h31, \hA4, \h04>>, <<\h18, \hA4, \h04>>,
     <<\h09, \hA4, \h04>>, <<\h04, \h9E, \h03>>, <<\h03, \h9E, \h03>>,
     <<\h01, \h1E, \h03>>, <<\h00, \h9E, \h03>>, <<\h00, \h82, \h02>> >>

BitrateToReg16MHz ==
  << <<\h3F, \hFF, \h87>>, <<\h1F, \hFF, \h87>>, <<\h0F, \hFF, \h87>>,
     <<\h07, \hFA, \h87>>, <<\h03, \hFA, \h87>>, <<\h03, \hF0, \h86>>,
     <<\h41, \hF1, \h85>>, <<\h00, \hF0, \h86>>, <<\h00, \hD0, \h82>> >>

(* The constructor takes the row of the oscillator.  The mutant takes      *)
(* that of the other one.                                                  *)
BitrateRowSwapped(mhz, k) ==
  IF mhz = 8 THEN BitrateToReg16MHz[k] ELSE BitrateToReg8MHz[k]

BitrateRow(mhz, k) ==
  IF mhz = 8 THEN BitrateToReg8MHz[k] ELSE BitrateToReg16MHz[k]

=============================================================================
