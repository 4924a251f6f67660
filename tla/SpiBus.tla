------------------------------- MODULE SpiBus -------------------------------
(***************************************************************************)
(* The bus discipline of source/spi.cpp: how the tasks that share one SPI  *)
(* object bracket their transactions.  Every register access of the CAN    *)
(* driver (readByte, writeByte, bitModify, resetMcp2515) is one bracket    *)
(* csSelect .. csDeselect; setFilter and setMask put a lock .. unlock      *)
(* around a fixed number of such brackets (CANCTRL, four filter bytes,     *)
(* CANCTRL, RXBnCTRL read and RXBnCTRL write: eight).                      *)
(*                                                                         *)
(* The bytes that move while the chip is selected are not modelled here,   *)
(* and _busMutex is taken to have been created (spi.cpp:18).               *)
(***************************************************************************)
EXTENDS RecursiveMutex

CONSTANTS
  Configurers,   \* the tasks that also call setFilter or setMask
  Brackets,      \* csSelect .. csDeselect brackets in a lock .. unlock
  Asserts        \* TRUE in a build that defines configASSERT

ASSUME ConfigurersAssumption == Configurers \subseteq Tasks
ASSUME BracketsAssumption == Brackets \in Nat \ {0}
ASSUME AssertsAssumption == Asserts \in BOOLEAN

VARIABLES
  pc,          \* where each task is
  csActive,    \* SPI::_csActive
  todo,        \* brackets a task has still to run before it unlocks
  halted       \* TRUE once a configASSERT fired: nothing runs any more

busVars == <<pc, csActive, todo, halted>>
vars == <<mutexHolder, recursiveCallCount, pc, csActive, todo, halted>>

Labels == {"idle", "lock", "select", "selected", "checked", "active",
           "finishing", "deselected", "unlock"}

TypeOK ==
  /\ MutexTypeOK
  /\ pc \in [Tasks -> Labels]
  /\ csActive \in BOOLEAN
  /\ todo \in [Tasks -> 0..Brackets]
  /\ halted \in BOOLEAN

Init ==
  /\ MutexInit
  /\ pc = [t \in Tasks |-> "idle"]
  /\ csActive = FALSE
  /\ todo = [t \in Tasks |-> 0]
  /\ halted = FALSE

Goto(t, from, to) ==
  /\ ~halted
  /\ pc[t] = from
  /\ pc' = [pc EXCEPT ![t] = to]

(* configASSERT(ok): the task goes on, or the whole system stops. *)
AssertThen(t, from, to, ok) ==
  IF ok \/ ~Asserts
    THEN Goto(t, from, to) /\ UNCHANGED halted
    ELSE ~halted /\ pc[t] = from /\ halted' = TRUE /\ UNCHANGED pc

-----------------------------------------------------------------------------
(* A client starts: one register access, or setFilter / setMask. *)
StartAccess(t) ==
  /\ Goto(t, "idle", "select")
  /\ UNCHANGED <<mutexVars, csActive, todo, halted>>

StartConfigure(t) ==
  /\ t \in Configurers
  /\ Goto(t, "idle", "lock")
  /\ UNCHANGED <<mutexVars, csActive, todo, halted>>

(* SPI::lock takes the recursive mutex with the plain take.  The mutant    *)
(* LockNothing does not take it.                                           *)
LockNothing(t) ==
  /\ Goto(t, "lock", "select")
  /\ todo' = [todo EXCEPT ![t] = Brackets]
  /\ UNCHANGED <<mutexVars, csActive, halted>>

Lock(t) ==
  /\ Goto(t, "lock", "select")
  /\ Take(t)
  /\ todo' = [todo EXCEPT ![t] = Brackets]
  /\ UNCHANGED <<csActive, halted>>

(* SPI::csSelect: take the mutex, then assert, then select.                *)
CsTake(t) ==
  /\ Goto(t, "select", "selected")
  /\ TakeRecursive(t)
  /\ UNCHANGED <<csActive, todo, halted>>

CsSelectAssert(t) ==
  /\ AssertThen(t, "selected", "checked", ~csActive)
  /\ UNCHANGED <<mutexVars, csActive, todo>>

CsSelectLine(t) ==
  /\ Goto(t, "checked", "active")
  /\ csActive' = TRUE
  /\ UNCHANGED <<mutexVars, todo, halted>>

(* SPI::csDeselect: assert, deselect, then give the mutex back. *)
CsDeselectAssert(t) ==
  /\ AssertThen(t, "active", "finishing", csActive)
  /\ UNCHANGED <<mutexVars, csActive, todo>>

CsDeselectLineKept(t) ==
  /\ Goto(t, "finishing", "deselected")
  /\ UNCHANGED <<mutexVars, csActive, todo, halted>>

CsDeselectLine(t) ==
  /\ Goto(t, "finishing", "deselected")
  /\ csActive' = FALSE
  /\ UNCHANGED <<mutexVars, todo, halted>>

AfterBracket(t) ==
  IF todo[t] > 1 THEN "select" ELSE IF todo[t] = 1 THEN "unlock" ELSE "idle"

CsGiveForgotten(t) ==
  /\ Goto(t, "deselected", AfterBracket(t))
  /\ todo' = [todo EXCEPT ![t] = IF @ = 0 THEN 0 ELSE @ - 1]
  /\ UNCHANGED <<mutexVars, csActive, halted>>

CsGive(t) ==
  /\ Goto(t, "deselected", AfterBracket(t))
  /\ GiveRecursive(t)
  /\ todo' = [todo EXCEPT ![t] = IF @ = 0 THEN 0 ELSE @ - 1]
  /\ UNCHANGED <<csActive, halted>>

(* SPI::unlock *)
UnlockUnchecked(t) ==
  /\ Goto(t, "unlock", "idle")
  /\ Give
  /\ UNCHANGED <<csActive, todo, halted>>

Unlock(t) ==
  /\ AssertThen(t, "unlock", "idle", ~ForeignGive(t))
  /\ IF ForeignGive(t) /\ Asserts THEN UNCHANGED mutexVars ELSE Give
  /\ UNCHANGED <<csActive, todo>>

-----------------------------------------------------------------------------
TaskStep(t) ==
  \/ Lock(t)
  \/ CsTake(t)
  \/ CsSelectAssert(t)
  \/ CsSelectLine(t)
  \/ CsDeselectAssert(t)
  \/ CsDeselectLine(t)
  \/ CsGive(t)
  \/ Unlock(t)

Next ==
  \E t \in Tasks : StartAccess(t) \/ StartConfigure(t) \/ TaskStep(t)

Spec == Init /\ [][Next]_vars

(* A task that is inside an SPI call keeps running it; nobody has to start *)
(* one.  Blocked takes get weak fairness only: FreeRTOS wakes waiters by   *)
(* priority, so a low-priority waiter may be passed over for ever.         *)
FairSpec == Spec /\ \A t \in Tasks : WF_vars(TaskStep(t))

-----------------------------------------------------------------------------
OnWire(t) == pc[t] \in {"active", "finishing"}

(* Two tasks are never between csSelect and csDeselect at the same time:   *)
(* _busMutex "serialises csSelect->transfer->csDeselect across tasks"      *)
(* (include/spi.h:39).                                                     *)
CsExclusive == \A t, u \in Tasks : OnWire(t) /\ OnWire(u) => t = u

(* The asserts of csSelect and csDeselect (spi.cpp:38, 44) never fail:     *)
(* a build with configASSERT stops, if at all, in an unlock that gives a   *)
(* mutex somebody else holds.                                              *)
OnlyUnlockAsserts ==
  halted => \E t \in Tasks : pc[t] = "unlock" /\ ForeignGive(t)

(* When every task is outside the SPI calls the mutex is free, its nesting *)
(* count is back at 0 and the chip is deselected: brackets leak nothing    *)
(* (csSelect and csDeselect, spi.cpp:35-49, and lock and unlock,           *)
(* spi.h:20-21, are balanced).                                             *)
QuiescentBusIsFree ==
  (~halted /\ \A t \in Tasks : pc[t] = "idle") =>
    /\ mutexHolder = NoTask
    /\ recursiveCallCount = 0
    /\ ~csActive

(* What SPI::lock does give: from lock to the end of the first bracket of  *)
(* its section no other task is on the wire (spi.h:20, spi.cpp:35-49).     *)
InFirstBracket(t) == todo[t] = Brackets
LockCoversFirstBracket ==
  ~halted => \A t, u \in Tasks : InFirstBracket(t) /\ OnWire(u) => t = u

(* What it does not give: the plain take leaves the nesting count at 0, so *)
(* the first csDeselect of the section already frees the mutex, and no     *)
(* task ever reaches SPI::unlock (spi.h:21) as the holder.  The later      *)
(* brackets of setFilter and setMask are not covered by the lock.          *)
UnlockReleasesNothing ==
  \A t \in Tasks : pc[t] = "unlock" => mutexHolder # t

(* The bus never wedges: when some task waits in csSelect (portMAX_DELAY,  *)
(* spi.cpp:37), some task eventually gets onto the wire, unless the build  *)
(* stops in an assert.                                                     *)
BusProgress ==
  (\E t \in Tasks : pc[t] = "select") ~> (halted \/ \E t \in Tasks : OnWire(t))

(* The part of BusProgress that needs no fairness: whenever some task is   *)
(* inside an SPI call, some task there is not blocked in a take.  The      *)
(* mutex is never left with a task that has finished with it (csDeselect   *)
(* and unlock: spi.cpp:43-49, spi.h:21).                                   *)
CanGoOn(t) ==
  /\ pc[t] # "idle"
  /\ pc[t] = "lock" => mutexHolder = NoTask
  /\ pc[t] = "select" => mutexHolder \in {NoTask, t}

BusNeverWedges ==
  (~halted /\ \E t \in Tasks : pc[t] # "idle") => \E t \in Tasks : CanGoOn(t)
=============================================================================
