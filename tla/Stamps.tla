------------------------------- MODULE Stamps -------------------------------
(***************************************************************************)
(* Time: the clock of source/posix_time.c, and the time a frame gets on    *)
(* its way through irqHandler, canService and rxReadInTask                 *)
(* (source/mcp2515Task.cpp).  Both read one counter of microseconds.  The  *)
(* processor moves it in two words, so that a copy is two loads; there is  *)
(* one core, where a handler comes before any task and canService before   *)
(* the reader unless it is blocked in a register access.                   *)
(***************************************************************************)
EXTENDS Integers, Sequences

CONSTANTS
  Word,       \* values of a word: 2^32
  UsPerSec,   \* microseconds in a second: 10^6
  NsPerUs,    \* nanoseconds in a microsecond: 1000
  Horizon,    \* bound: the last microsecond
  NFrames,    \* bound: frames
  NOther      \* bound: transmissions and errors

ASSUME UnitsAssumption == Word \in Nat \ {0} /\ UsPerSec \in Nat \ {0} /\ NsPerUs \in Nat \ {0}
ASSUME StampBoundsAssumption == Horizon \in Nat /\ NFrames \in Nat /\ NOther \in Nat

VARIABLES
  now,         \* the counter
  flags,       \* CANINTF
  edge,        \* the falling edge of INT is latched
  lastInt, lastRx,    \* _lastIntTime and _lastRxTime, in two words
  service,     \* canService: pc, flags read, low word loaded
  reader,      \* rxReadInTask: pc, low word loaded
  rxSem,       \* tokens in _rxSemaphore
  frames,      \* history: each frame, when its edge was handled (0: it made
               \* none, or not yet), and whether another came before its read
  stamps,      \* the times that rxReadInTask returned
  edges,       \* history: when irqHandler ran
  others       \* transmissions and errors so far

busVars == <<flags, edge, frames, others>>
vars == <<now, busVars, lastInt, lastRx, service, reader, rxSem, stamps, edges>>

RxFlags == {"RX0", "RX1"}
Flags == RxFlags \cup {"TX0", "ERR"}
Words(t) == [lo |-> t % Word, hi |-> t \div Word]
Time(lo, hi) == (hi * Word) + lo

TypeOK ==
  /\ now \in Nat
  /\ flags \subseteq Flags /\ edge \in BOOLEAN
  /\ lastInt \in [lo : Nat, hi : Nat] /\ lastRx \in [lo : Nat, hi : Nat]
  /\ service \in [pc : {"read", "lo", "hi", "rx0", "rx1", "tx", "give", "err"},
                  flags : SUBSET Flags, lo : Nat]
  /\ reader \in [pc : {"take", "lo", "hi"}, lo : Nat]
  /\ rxSem \in 0..2
  /\ frames \in Seq([handled : Nat, at : Nat, edge : BOOLEAN, alone : BOOLEAN])
  /\ stamps \in Seq(Nat)
  /\ edges \subseteq Nat
  /\ others \in Nat

(* clock_gettime, for any of its clocks; it keeps nothing.  The mutant     *)
(* leaves the seconds in the nanoseconds.                                  *)
TimespecUnsplit(us) == [sec |-> us \div UsPerSec, nsec |-> us * NsPerUs]

Timespec(us) == [sec |-> us \div UsPerSec, nsec |-> (us % UsPerSec) * NsPerUs]

AtRead == [pc |-> "read", flags |-> {}, lo |-> 0]
AtTake == [pc |-> "take", lo |-> 0]

(* Some time has passed since boot. *)
Init ==
  /\ now = 1
  /\ flags = {} /\ edge = FALSE
  /\ lastInt = Words(0) /\ lastRx = Words(0)
  /\ service = AtRead /\ reader = AtTake
  /\ rxSem = 0
  /\ frames = << >> /\ stamps = << >>
  /\ edges = {} /\ others = 0

Tick ==
  /\ now < Horizon /\ now' = now + 1
  /\ UNCHANGED <<busVars, lastInt, lastRx, service, reader, rxSem, stamps, edges>>

-----------------------------------------------------------------------------
(* The chip and its INT pin, low while a flag is up: only a fall from high *)
(* makes an edge.  At most two frames wait for their reader, one in each   *)
(* buffer.                                                                 *)
Raise(f) ==
  /\ flags' = flags \cup {f}
  /\ edge' = (edge \/ flags = {})

FrameArrives ==
  /\ Len(frames) < NFrames /\ Len(frames) < Len(stamps) + 2
  /\ ~(RxFlags \subseteq flags)
  /\ Raise(IF "RX0" \in flags THEN "RX1" ELSE "RX0")
  /\ frames' = Append(
       [i \in 1..Len(frames) |->
          IF i > Len(stamps) THEN [frames[i] EXCEPT !.alone = FALSE] ELSE frames[i]],
       [at |-> now, edge |-> flags = {}, handled |-> 0, alone |-> TRUE])
  /\ UNCHANGED <<now, others, lastInt, lastRx, service, reader, rxSem, stamps, edges>>

OtherEvent(f) ==
  /\ others < NOther /\ others' = others + 1
  /\ f \notin flags
  /\ Raise(f)
  /\ UNCHANGED <<now, frames, lastInt, lastRx, service, reader, rxSem, stamps, edges>>

(* irqHandler.  The mutant takes the lower word of the time only. *)
Handle(time) ==
  /\ edge /\ edge' = FALSE
  /\ lastInt' = time
  /\ edges' = edges \cup {now}
  /\ frames' = IF frames # << >> /\ frames[Len(frames)].edge /\ frames[Len(frames)].handled = 0
                 THEN [frames EXCEPT ![Len(frames)].handled = now] ELSE frames
  /\ UNCHANGED <<now, flags, others, lastRx, service, reader, rxSem, stamps>>

IrqHandlerLow == Handle([lo |-> now % Word, hi |-> 0])
IrqHandler == Handle(Words(now))

-----------------------------------------------------------------------------
(* run: a pass that found an error clears only that; the other notes the   *)
(* time of the last edge, clears what it found and gives the tokens.       *)
ServiceFrame ==
  /\ ~edge
  /\ UNCHANGED <<now, frames, others, lastInt, reader, stamps, edges>>

Clear(f) == flags' = flags \ {f}

(* The mutant notes the time only when no transmission ended as well. *)
ServiceReadTxFirst ==
  /\ service.pc = "read"
  /\ flags # {}
  /\ service' = [service EXCEPT !.flags = flags,
                                !.pc = IF "ERR" \in flags THEN "err"
                                       ELSE IF "TX0" \in flags THEN "rx0" ELSE "lo"]
  /\ UNCHANGED <<flags, edge, lastRx, rxSem>> /\ ServiceFrame

ServiceRead ==
  /\ service.pc = "read"
  /\ flags # {}
  /\ service' = [service EXCEPT !.flags = flags,
                                !.pc = IF "ERR" \in flags THEN "err"
                                       ELSE IF flags \cap RxFlags # {} THEN "lo" ELSE "tx"]
  /\ UNCHANGED <<flags, edge, lastRx, rxSem>> /\ ServiceFrame

ServiceError ==
  /\ service.pc = "err"
  /\ Clear("ERR")
  /\ service' = AtRead
  /\ UNCHANGED <<edge, lastRx, rxSem>> /\ ServiceFrame

ServiceLoad ==
  /\ service.pc = "lo"
  /\ service' = [service EXCEPT !.pc = "hi", !.lo = lastInt.lo]
  /\ UNCHANGED <<flags, edge, lastRx, rxSem>> /\ ServiceFrame

ServiceStore ==
  /\ service.pc = "hi"
  /\ lastRx' = [lo |-> service.lo, hi |-> lastInt.hi]
  /\ service' = [service EXCEPT !.pc = "rx0", !.lo = 0]
  /\ UNCHANGED <<flags, edge, rxSem>> /\ ServiceFrame

ServiceClear(from, f, to) ==
  /\ service.pc = from
  /\ IF f \in service.flags THEN Clear(f) ELSE UNCHANGED flags
  /\ service' = [service EXCEPT !.pc = to]
  /\ UNCHANGED <<edge, lastRx, rxSem>> /\ ServiceFrame

ServiceGive ==
  LET tokens == (IF "RX0" \in service.flags THEN 1 ELSE 0)
                + (IF "RX1" \in service.flags THEN 1 ELSE 0)
  IN /\ service.pc = "give"
     /\ rxSem' = IF rxSem + tokens > 2 THEN 2 ELSE rxSem + tokens
     /\ service' = AtRead
     /\ UNCHANGED <<flags, edge, lastRx>> /\ ServiceFrame

ServiceStep ==
  \/ ServiceRead \/ ServiceError \/ ServiceLoad \/ ServiceStore
  \/ ServiceClear("rx0", "RX0", "rx1") \/ ServiceClear("rx1", "RX1", "tx")
  \/ ServiceClear("tx", "TX0", "give") \/ ServiceGive

-----------------------------------------------------------------------------
(* rxReadInTask, up to the time it returns, while canService is blocked.   *)
ServiceBlocked ==
  \/ service.pc \in {"read", "err"}
  \/ service.pc = "rx0" /\ "RX0" \in service.flags
  \/ service.pc = "rx1" /\ "RX1" \in service.flags
  \/ service.pc = "tx" /\ "TX0" \in service.flags

ReaderRuns ==
  /\ ~edge /\ ServiceBlocked
  /\ UNCHANGED <<now, busVars, lastInt, lastRx, service, edges>>

ReaderTake ==
  /\ reader.pc = "take" /\ reader' = [reader EXCEPT !.pc = "lo"]
  /\ rxSem > 0 /\ rxSem' = rxSem - 1
  /\ UNCHANGED stamps /\ ReaderRuns

ReaderLoad ==
  /\ reader.pc = "lo" /\ reader' = [pc |-> "hi", lo |-> lastRx.lo]
  /\ UNCHANGED <<rxSem, stamps>> /\ ReaderRuns

ReaderStamp ==
  /\ reader.pc = "hi" /\ reader' = AtTake
  /\ stamps' = Append(stamps, Time(reader.lo, lastRx.hi))
  /\ UNCHANGED rxSem /\ ReaderRuns

Next ==
  \/ Tick
  \/ FrameArrives \/ OtherEvent("TX0") \/ OtherEvent("ERR")
  \/ IrqHandler
  \/ ServiceStep
  \/ ReaderTake \/ ReaderLoad \/ ReaderStamp

Spec == Init /\ [][Next]_vars

-----------------------------------------------------------------------------
(* A frame that pulled INT low itself, and was read before the next one    *)
(* came, gets the time its own edge was handled, whatever other flags came *)
(* and went (mcp2515Task.cpp:41, 69-70, 100): INT stays low until          *)
(* canService has noted the time, so that no edge can overwrite it.        *)
StampIsOwnEdge ==
  \A i \in 1..Len(stamps) :
    (frames[i].edge /\ frames[i].alone) =>
      stamps[i] = frames[i].handled /\ stamps[i] >= frames[i].at

(* Every frame gets the time of some edge, no mixture of two, as long as   *)
(* the upper word of the counter did not change between edges, which it    *)
(* does every 71 minutes: the reader loads the two words of _lastRxTime    *)
(* without protection (mcp2515Task.cpp:70, 100).                           *)
Epoch == \A e, f \in edges : e \div Word = f \div Word
StampIsAnEdge == Epoch => \A i \in 1..Len(stamps) : stamps[i] \in edges

(* What clock_gettime returns is the counter, exactly, with the nanoseconds *)
(* below a second (posix_time.c:9-16).                                     *)
TimespecExact ==
  LET tp == Timespec(now)
  IN /\ tp.nsec < UsPerSec * NsPerUs
     /\ (tp.sec * UsPerSec * NsPerUs) + tp.nsec = now * NsPerUs

(* Between two calls of clock_gettime, however far apart, time does not    *)
(* step back (posix_time.c:8, "monotonic time").                           *)
ClockMonotone ==
  [][LET before == Timespec(now)
         after == Timespec(now')
     IN \/ after.sec > before.sec
        \/ after.sec = before.sec /\ after.nsec > before.nsec]_now
=============================================================================
