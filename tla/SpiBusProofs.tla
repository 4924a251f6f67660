---------------------------- MODULE SpiBusProofs ----------------------------
(***************************************************************************)
(* Proofs about module SpiBus, for every set of tasks, every set of tasks  *)
(* that call setFilter or setMask, and every number of brackets in a       *)
(* locked section.                                                         *)
(*                                                                         *)
(* All results but type correctness rest on Guarded: either the build      *)
(* defines configASSERT, or no task calls setFilter or setMask.  Run       *)
(* bus_overlap shows that the assumption cannot be dropped.                *)
(***************************************************************************)
EXTENDS SpiBus, TLAPS

Guarded == Asserts \/ Configurers = {}

(* The pcs at which a task has taken the mutex recursively. *)
Inside == {"selected", "checked", "active", "finishing", "deselected"}

(* The inductive invariant.  The mutex belongs to the one task inside a    *)
(* bracket, or to a task that has just locked and stands before its first  *)
(* csSelect; the nesting count is 1 in the first case and 0 otherwise.     *)
HolderIsInside ==
  \A t \in Tasks : pc[t] \in Inside => mutexHolder = t

HolderIsBusy ==
  \A t \in Tasks : mutexHolder = t => pc[t] \in Inside \cup {"select"}

NestingCount ==
  /\ \A t \in Tasks : pc[t] \in Inside => recursiveCallCount = 1
  /\ (\A t \in Tasks : pc[t] \notin Inside) => recursiveCallCount = 0

LineFollowsTask ==
  /\ \A t \in Tasks : OnWire(t) => csActive
  /\ (\A t \in Tasks : ~OnWire(t)) => ~csActive

SectionHolds ==
  \A t \in Tasks : todo[t] = Brackets => mutexHolder = t

ConfigurersOnly ==
  \A t \in Tasks : pc[t] \in {"lock", "unlock"} \/ todo[t] # 0
                     => t \in Configurers

IdleIsDone ==
  \A t \in Tasks : pc[t] \in {"idle", "lock", "unlock"} => todo[t] = 0

IInv ==
  /\ TypeOK
  /\ HolderIsInside
  /\ HolderIsBusy
  /\ NestingCount
  /\ LineFollowsTask
  /\ SectionHolds
  /\ ConfigurersOnly
  /\ IdleIsDone

-----------------------------------------------------------------------------
(* The nesting count never goes below 0: whoever gives recursively has     *)
(* taken recursively since it became the holder.                           *)
CountCovers ==
  \A t \in Tasks :
    mutexHolder = t /\ pc[t] \in Inside => recursiveCallCount >= 1

TypeInv == TypeOK /\ CountCovers

(* A bus just built by SPI::SPI (spi.cpp:18) is well typed. *)
LEMMA InitTyped == Init => TypeOK
<1> SUFFICES ASSUME Init PROVE TypeOK
  OBVIOUS
<1>1. MutexTypeOK
  BY DEF Init, MutexInit, MutexTypeOK
<1>2. pc \in [Tasks -> Labels]
  BY DEF Init, Labels
<1>3. todo \in [Tasks -> 0..Brackets]
  BY BracketsAssumption DEF Init
<1>4. csActive \in BOOLEAN /\ halted \in BOOLEAN
  BY Zenon DEF Init
<1>5. QED
  BY <1>1, <1>2, <1>3, <1>4 DEF TypeOK

(* Every variable of the bus keeps its type whatever the build and whoever *)
(* calls setFilter; for the nesting count (GiveRecursive in csDeselect,    *)
(* spi.cpp:43-49) that is not obvious and needs CountCovers.               *)
THEOREM TypeCorrect == Spec => []TypeOK
<1>1. Init => TypeInv
  BY InitTyped DEF Init, TypeInv, CountCovers, Inside
<1>2. TypeInv /\ [Next]_vars => TypeInv'
  <2> SUFFICES ASSUME TypeInv, [Next]_vars
               PROVE  TypeInv'
    OBVIOUS
  <2> USE NoTaskAssumption, BracketsAssumption
      DEF TypeInv, TypeOK, MutexTypeOK, CountCovers, Labels, Inside,
          Goto, AssertThen, mutexVars
  <2>stutter. CASE vars' = vars
    BY <2>stutter DEF vars
  <2>access. ASSUME NEW t \in Tasks, StartAccess(t) PROVE TypeInv'
    BY <2>access DEF StartAccess
  <2>configure. ASSUME NEW t \in Tasks, StartConfigure(t) PROVE TypeInv'
    BY <2>configure DEF StartConfigure
  <2>lock. ASSUME NEW t \in Tasks, Lock(t) PROVE TypeInv'
    BY <2>lock DEF Lock, Take
  <2>take. ASSUME NEW t \in Tasks, CsTake(t) PROVE TypeInv'
    BY <2>take DEF CsTake, TakeRecursive
  <2>selectAssert. ASSUME NEW t \in Tasks, CsSelectAssert(t) PROVE TypeInv'
    BY <2>selectAssert DEF CsSelectAssert
  <2>selectLine. ASSUME NEW t \in Tasks, CsSelectLine(t) PROVE TypeInv'
    BY <2>selectLine DEF CsSelectLine
  <2>deselectAssert. ASSUME NEW t \in Tasks, CsDeselectAssert(t) PROVE TypeInv'
    BY <2>deselectAssert DEF CsDeselectAssert
  <2>deselectLine. ASSUME NEW t \in Tasks, CsDeselectLine(t) PROVE TypeInv'
    BY <2>deselectLine DEF CsDeselectLine
  <2>give. ASSUME NEW t \in Tasks, CsGive(t) PROVE TypeInv'
    BY <2>give DEF CsGive, GiveRecursive, AfterBracket
  <2>unlock. ASSUME NEW t \in Tasks, Unlock(t) PROVE TypeInv'
    BY <2>unlock DEF Unlock, Give, ForeignGive
  <2> QED
    BY <2>stutter, <2>access, <2>configure, <2>lock, <2>take, <2>selectAssert,
       <2>selectLine, <2>deselectAssert, <2>deselectLine, <2>give, <2>unlock
    DEF Next, TaskStep
<1>3. QED
  BY <1>1, <1>2, PTL DEF Spec, TypeInv

-----------------------------------------------------------------------------
(* Under Guarded the bus keeps its inductive invariant (csSelect,          *)
(* csDeselect, lock and unlock: spi.cpp:35-49, spi.h:20-21).               *)
LEMMA Inductive == ASSUME Guarded PROVE Spec => []IInv
<1>1. Init => IInv
  BY InitTyped, NoTaskAssumption, BracketsAssumption
  DEF Init, MutexInit, IInv, Inside,
      HolderIsInside, HolderIsBusy, NestingCount, LineFollowsTask,
      SectionHolds, ConfigurersOnly, IdleIsDone, OnWire
<1>2. IInv /\ [Next]_vars => IInv'
  <2> SUFFICES ASSUME IInv, [Next]_vars
               PROVE  IInv'
    OBVIOUS
  <2> USE Guarded, NoTaskAssumption, BracketsAssumption
      DEF Guarded, IInv, TypeOK, MutexTypeOK, Labels, Inside,
          HolderIsInside, HolderIsBusy, NestingCount, LineFollowsTask,
          SectionHolds, ConfigurersOnly, IdleIsDone, OnWire,
          Goto, AssertThen, mutexVars
  <2>stutter. CASE vars' = vars
    BY <2>stutter DEF vars
  <2>access. ASSUME NEW t \in Tasks, StartAccess(t) PROVE IInv'
    BY <2>access DEF StartAccess
  <2>configure. ASSUME NEW t \in Tasks, StartConfigure(t) PROVE IInv'
    BY <2>configure DEF StartConfigure
  <2>lock. ASSUME NEW t \in Tasks, Lock(t) PROVE IInv'
    BY <2>lock DEF Lock, Take
  <2>take. ASSUME NEW t \in Tasks, CsTake(t) PROVE IInv'
    BY <2>take DEF CsTake, TakeRecursive
  <2>selectAssert. ASSUME NEW t \in Tasks, CsSelectAssert(t) PROVE IInv'
    BY <2>selectAssert DEF CsSelectAssert
  <2>selectLine. ASSUME NEW t \in Tasks, CsSelectLine(t) PROVE IInv'
    BY <2>selectLine DEF CsSelectLine
  <2>deselectAssert. ASSUME NEW t \in Tasks, CsDeselectAssert(t) PROVE IInv'
    BY <2>deselectAssert DEF CsDeselectAssert
  <2>deselectLine. ASSUME NEW t \in Tasks, CsDeselectLine(t) PROVE IInv'
    BY <2>deselectLine DEF CsDeselectLine
  <2>give. ASSUME NEW t \in Tasks, CsGive(t) PROVE IInv'
    BY <2>give DEF CsGive, GiveRecursive, AfterBracket
  <2>unlock. ASSUME NEW t \in Tasks, Unlock(t) PROVE IInv'
    <3>1. CASE ForeignGive(t) /\ Asserts
      BY <2>unlock, <3>1 DEF Unlock
    <3>2. CASE ~(ForeignGive(t) /\ Asserts)
      BY <2>unlock, <3>2 DEF Unlock, Give, ForeignGive
    <3>. QED BY <3>1, <3>2
  <2> QED
    BY <2>stutter, <2>access, <2>configure, <2>lock, <2>take, <2>selectAssert,
       <2>selectLine, <2>deselectAssert, <2>deselectLine, <2>give, <2>unlock
    DEF Next, TaskStep
<1>3. QED
  BY <1>1, <1>2, PTL DEF Spec

-----------------------------------------------------------------------------
(* Two tasks are never between csSelect and csDeselect together            *)
(* (spi.cpp:35-49), in a build with configASSERT or when nobody calls      *)
(* setFilter or setMask.                                                   *)
THEOREM OneTaskOnTheWire == ASSUME Guarded PROVE Spec => []CsExclusive
<1>1. IInv => CsExclusive
  BY DEF IInv, HolderIsInside, Inside, OnWire, CsExclusive
<1>2. QED
  BY <1>1, Inductive, PTL

(* Brackets and locked sections leak nothing: when all tasks are outside   *)
(* (csDeselect, spi.cpp:43-49; unlock, spi.h:21) the mutex is free, its    *)
(* nesting count is 0 and the chip is deselected.                          *)
THEOREM NothingLeaks == ASSUME Guarded PROVE Spec => []QuiescentBusIsFree
<1>1. IInv => QuiescentBusIsFree
  <2> SUFFICES ASSUME IInv, \A t \in Tasks : pc[t] = "idle"
               PROVE  mutexHolder = NoTask /\ recursiveCallCount = 0 /\ ~csActive
    BY DEF QuiescentBusIsFree
  <2>1. mutexHolder = NoTask
    BY DEF IInv, HolderIsBusy, Inside, TypeOK, MutexTypeOK
  <2>2. recursiveCallCount = 0
    BY DEF IInv, NestingCount, Inside
  <2>3. ~csActive
    BY DEF IInv, LineFollowsTask, OnWire
  <2>4. QED
    BY <2>1, <2>2, <2>3
<1>2. QED
  BY <1>1, Inductive, PTL

(* The plain take of SPI::lock protects the first bracket of a setFilter   *)
(* or setMask section (mcp2515.cpp:122-123, 134-135) ...                   *)
THEOREM FirstBracketCovered ==
  ASSUME Guarded PROVE Spec => []LockCoversFirstBracket
<1>1. IInv => LockCoversFirstBracket
  BY DEF IInv, SectionHolds, HolderIsInside, Inside, OnWire,
         InFirstBracket, LockCoversFirstBracket
<1>2. QED
  BY <1>1, Inductive, PTL

(* ... and no more: whoever reaches SPI::unlock (mcp2515.cpp:127, 139) has *)
(* already lost the mutex.                                                 *)
THEOREM LockAlreadyLost ==
  ASSUME Guarded PROVE Spec => []UnlockReleasesNothing
<1>1. IInv => UnlockReleasesNothing
  BY DEF IInv, HolderIsBusy, Inside, UnlockReleasesNothing
<1>2. QED
  BY <1>1, Inductive, PTL

(* The asserts of csSelect and csDeselect (spi.cpp:38, 44) never fail: a   *)
(* build with configASSERT can only stop in an unlock of a mutex that      *)
(* somebody else holds.                                                    *)
THEOREM OnlyUnlockStops == ASSUME Guarded PROVE Spec => []OnlyUnlockAsserts
<1>1. Init => OnlyUnlockAsserts
  BY DEF Init, OnlyUnlockAsserts
<1>2. IInv /\ OnlyUnlockAsserts /\ [Next]_vars => OnlyUnlockAsserts'
  <2> SUFFICES ASSUME IInv, OnlyUnlockAsserts, [Next]_vars
               PROVE  OnlyUnlockAsserts'
    OBVIOUS
  <2> USE DEF OnlyUnlockAsserts, ForeignGive
  <2>selectAssert. ASSUME NEW t \in Tasks, CsSelectAssert(t) PROVE ~halted'
    <3>1. pc[t] = "selected" /\ ~halted
      BY <2>selectAssert DEF CsSelectAssert, AssertThen, Goto
    <3>2. \A u \in Tasks : ~OnWire(u)
      BY <3>1 DEF IInv, HolderIsInside, Inside, OnWire
    <3>3. ~csActive
      BY <3>2 DEF IInv, LineFollowsTask
    <3>4. QED
      BY <2>selectAssert, <3>1, <3>3 DEF CsSelectAssert, AssertThen
  <2>deselectAssert. ASSUME NEW t \in Tasks, CsDeselectAssert(t) PROVE ~halted'
    <3>1. csActive /\ ~halted
      BY <2>deselectAssert DEF CsDeselectAssert, AssertThen, Goto,
                  IInv, LineFollowsTask, OnWire
    <3>2. QED
      BY <2>deselectAssert, <3>1 DEF CsDeselectAssert, AssertThen
  <2>unlock. ASSUME NEW t \in Tasks, Unlock(t) PROVE OnlyUnlockAsserts'
    BY <2>unlock DEF Unlock, AssertThen, Goto, mutexVars
  <2>others. ASSUME NEW t \in Tasks,
               \/ StartAccess(t) \/ StartConfigure(t) \/ Lock(t) \/ CsTake(t)
               \/ CsSelectLine(t) \/ CsDeselectLine(t) \/ CsGive(t)
        PROVE  ~halted'
    BY <2>others DEF StartAccess, StartConfigure, Lock, CsTake, CsSelectLine,
                CsDeselectLine, CsGive, Goto
  <2>stutter. CASE vars' = vars
    BY <2>stutter DEF vars
  <2> QED
    BY <2>stutter, <2>selectAssert, <2>deselectAssert, <2>unlock, <2>others
    DEF Next, TaskStep
<1>3. QED
  BY <1>1, <1>2, Inductive, PTL DEF Spec

-----------------------------------------------------------------------------
(* No wedge: while somebody is inside an SPI call, somebody there can go   *)
(* on (csSelect, csDeselect, lock, unlock: spi.cpp:35-49, spi.h:20-21).  A *)
(* task that is blocked waits for a holder, and the holder is busy, never  *)
(* blocked itself.  Without Guarded an unlock can free the mutex under a   *)
(* bracket, whose give then fails and leaves the count too high for ever.  *)
THEOREM BusIsNotWedged == ASSUME Guarded PROVE Spec => []BusNeverWedges
<1>1. IInv => BusNeverWedges
  <2> SUFFICES ASSUME IInv, NEW u \in Tasks, pc[u] # "idle"
               PROVE  \E t \in Tasks : CanGoOn(t)
    BY DEF BusNeverWedges
  <2>free. CASE mutexHolder = NoTask
    BY <2>free DEF CanGoOn
  <2>held. CASE mutexHolder # NoTask
    <3>1. mutexHolder \in Tasks
      BY <2>held DEF IInv, TypeOK, MutexTypeOK
    <3>2. pc[mutexHolder] \in Inside \cup {"select"}
      BY <3>1 DEF IInv, HolderIsBusy
    <3>3. CanGoOn(mutexHolder)
      BY <3>2 DEF CanGoOn, Inside
    <3>4. QED
      BY <3>1, <3>3
  <2>1. QED
    BY <2>free, <2>held
<1>2. QED
  BY <1>1, Inductive, PTL
=============================================================================
