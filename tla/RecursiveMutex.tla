--------------------------- MODULE RecursiveMutex ---------------------------
(***************************************************************************)
(* The FreeRTOS recursive mutex behind SPI::_busMutex, as the calls in     *)
(* source/spi.cpp and include/spi.h use it.  FreeRTOS is not part of the   *)
(* repository: this module is the external half of the bus model.          *)
(*                                                                         *)
(* A recursive mutex has two pairs of operations.  The recursive pair      *)
(* (xSemaphoreTakeRecursive / xSemaphoreGiveRecursive) counts nested takes *)
(* of the holder and releases the mutex when that count returns to 0.  The *)
(* plain pair (xSemaphoreTake / xSemaphoreGive) moves ownership and never  *)
(* touches the count.  SPI::lock and SPI::unlock use the plain pair,       *)
(* csSelect and csDeselect the recursive one.                              *)
(***************************************************************************)
EXTENDS Naturals

CONSTANTS
  Tasks,      \* the FreeRTOS tasks that share the mutex
  NoTask      \* the value of the holder field of a free mutex

ASSUME NoTaskAssumption == NoTask \notin Tasks

VARIABLES
  mutexHolder,          \* xMutexHolder: the owning task, NoTask when free
  recursiveCallCount    \* uxRecursiveCallCount: nested recursive takes

mutexVars == <<mutexHolder, recursiveCallCount>>

MutexTypeOK ==
  /\ mutexHolder \in Tasks \cup {NoTask}
  /\ recursiveCallCount \in Nat

(* xSemaphoreCreateRecursiveMutex returns a free mutex. *)
MutexInit ==
  /\ mutexHolder = NoTask
  /\ recursiveCallCount = 0

(* A task that does not hold the mutex blocks until it is free; the holder *)
(* only counts one more nesting level.                                     *)
TakeRecursive(t) ==
  /\ mutexHolder \in {NoTask, t}
  /\ mutexHolder' = t
  /\ recursiveCallCount' = recursiveCallCount + 1

(* Fails without effect for a task that is not the holder; frees the mutex *)
(* when the nesting count of the holder returns to 0.                      *)
GiveRecursive(t) ==
  \/ /\ mutexHolder # t
     /\ UNCHANGED mutexVars
  \/ /\ mutexHolder = t
     /\ recursiveCallCount' = recursiveCallCount - 1
     /\ mutexHolder' = IF recursiveCallCount = 1 THEN NoTask ELSE t

(* The plain take blocks until the mutex is free, whoever asks. *)
Take(t) ==
  /\ mutexHolder = NoTask
  /\ mutexHolder' = t
  /\ UNCHANGED recursiveCallCount

(* The plain give frees the mutex whoever holds it (errQUEUE_FULL, without *)
(* effect, when it is free) and leaves the nesting count as it is.         *)
Give ==
  /\ mutexHolder' = NoTask
  /\ UNCHANGED recursiveCallCount

(* Giving a mutex another task holds trips the configASSERT of             *)
(* xTaskPriorityDisinherit in builds that define configASSERT.             *)
ForeignGive(t) == mutexHolder \notin {NoTask, t}
=============================================================================
