-------------------------- MODULE DriverLifeProofs --------------------------
(***************************************************************************)
(* Proofs about the objects with tasks of module DriverLife, for any set   *)
(* of drivers and jobs.                                                    *)
(***************************************************************************)
EXTENDS DriverLife, TLAPS, FiniteSetTheorems

(* Tasks and objects.  A task belongs to an object whose construction has  *)
(* begun; a task that is ready to run in an object that is not complete is *)
(* held back by the scheduler or was constructed too late; an object that  *)
(* lives has its task, unless there was no memory or the task has ended.   *)
TasksFollowObjects ==
  \A o \in Objects :
    /\ task[o] # "none" => life[o] # "raw"
    /\ (task[o] = "ready" /\ scheduler /\ o \notin late) => life[o] = "built"
    /\ (life[o] \in {"base", "built", "dying"} /\ o \notin lacking \cup Jobs)
         => task[o] \notin {"none", "deleted"}

(* Semaphores exist from the first step of initialInTask on. *)
SemaphoresFollowInit ==
  \A o \in Drivers :
    /\ (init[o] # "idle" /\ o \notin lacking) => "int" \in sems[o]
    /\ task[o] = "run" => sems[o] = Semaphores

(* The slot and the enabled interrupt lead back to registrations; a driver *)
(* that was unregistered does not come back.                               *)
SlotFollowsInit ==
  /\ \A o \in Drivers :
       /\ init[o] \in {"moving", "enable", "done"} => o \in registered
       /\ slot = o => init[o] \in {"enable", "done"}
       /\ o \in unregistered => init[o] = "done" /\ slot # o
  /\ slot = "torn" => \E o \in registered : init[o] = "moving"
  /\ irqOn => \E o \in registered : init[o] = "done"
  /\ IsFiniteSet(registered)

Excused ==
  /\ EntersBuilt /\ DeletesOwnTask /\ HandlersHitLive /\ FirstRegistrationIsWhole
  /\ \A o \in Drivers : <<"null", o>> \in faults => o \in lacking

IInv ==
  /\ TypeOK /\ NoTaskOnFreedObject
  /\ TasksFollowObjects /\ SemaphoresFollowInit /\ SlotFollowsInit
  /\ Excused
-----------------------------------------------------------------------------
(* The steps, one by one, with what no step does after a fault.            *)
LEMMA Steps ==
  ASSUME Next
  PROVE  /\ faults = {}
         /\ \/ StartScheduler
            \/ \E o \in Objects :
                 \/ Construct(o) \/ FinishConstruct(o) \/ Destroy(o) \/ DeleteTask(o)
                 \/ EnterRun(o) \/ (o \in Drivers /\ Gate(o)) \/ RunReturns(o)
            \/ \E o \in Drivers :
                 \/ CreateSemaphores(o) \/ RegisterMove(o) \/ RegisterMoved(o)
                 \/ RegisterEnable(o) \/ Unregister(o)
            \/ Edge \/ Dispatch
  BY Zenon DEF Next, TaskStep

(* The interrupt has nothing to call, or half an object, or a driver.      *)
LEMMA DispatchFaults ==
  ASSUME TypeOK, Dispatch
  PROVE  \/ faults' = faults
         \/ slot = "torn" /\ irqOn /\ faults' = faults \cup {<<"torn", Nobody>>}
         \/ slot \in Drivers /\ faults' = faults \cup {Called(slot)}
              /\ ~(life[slot] = "built" /\ "int" \in sems[slot])
  <1>1. CASE slot = Nobody
    BY <1>1, LifeAssumption DEF Dispatch
  <1>2. CASE slot = "torn"
    BY <1>2, LifeAssumption DEF Dispatch
  <1>3. CASE slot \in Drivers
    BY <1>3, LifeAssumption DEF Dispatch
  <1>. QED BY <1>1, <1>2, <1>3 DEF TypeOK

LEMMA TypeStep ==
  ASSUME TypeOK, Next
  PROVE  TypeOK'
  <1>0. Dispatch => \/ faults' = faults \/ faults' = faults \cup {<<"torn", Nobody>>}
                    \/ slot \in Drivers /\ faults' = faults \cup {Called(slot)}
    BY DispatchFaults, Zenon
  <1>. USE DEF TypeOK, Objects, LifeLabels, TaskLabels, InitLabels, objVars, pinVars
  <1>1. CASE StartScheduler
    BY <1>1 DEF StartScheduler
  <1>2. ASSUME NEW o \in Objects, Construct(o)
        PROVE  TypeOK'
    BY <1>2 DEF Construct, Start
  <1>3. ASSUME NEW o \in Objects, FinishConstruct(o)
        PROVE  TypeOK'
    BY <1>3 DEF FinishConstruct
  <1>4. ASSUME NEW o \in Objects, Destroy(o)
        PROVE  TypeOK'
    BY <1>4 DEF Destroy
  <1>5. ASSUME NEW o \in Objects, DeleteTask(o)
        PROVE  TypeOK'
    BY <1>5 DEF DeleteTask, Fault, FaultKinds
  <1>6. ASSUME NEW o \in Objects, EnterRun(o)
        PROVE  TypeOK'
    BY <1>6 DEF EnterRun, Fault, FaultKinds
  <1>7. ASSUME NEW o \in Drivers, Gate(o)
        PROVE  TypeOK'
    BY <1>7 DEF Gate, LeaveGate
  <1>8. ASSUME NEW o \in Objects, RunReturns(o)
        PROVE  TypeOK'
    BY <1>8 DEF RunReturns
  <1>9. ASSUME NEW o \in Drivers, CreateSemaphores(o)
        PROVE  TypeOK'
    BY <1>9 DEF CreateSemaphores, CreateSemaphore, Initialising, Semaphores
  <1>10. ASSUME NEW o \in Drivers, RegisterMove(o)
         PROVE  TypeOK'
    BY <1>10 DEF RegisterMove, Initialising
  <1>11. ASSUME NEW o \in Drivers, RegisterMoved(o)
         PROVE  TypeOK'
    BY <1>11 DEF RegisterMoved, Initialising
  <1>12. ASSUME NEW o \in Drivers, RegisterEnable(o)
         PROVE  TypeOK'
    BY <1>12 DEF RegisterEnable, Initialising
  <1>13. ASSUME NEW o \in Drivers, Unregister(o)
         PROVE  TypeOK'
    BY <1>13 DEF Unregister
  <1>14. CASE Edge
    BY <1>14 DEF Edge
  <1>15. CASE Dispatch
    <2>1. faults' \subseteq FaultKinds \X (Objects \cup {Nobody})
      <3>1. slot \in Drivers => Called(slot) \in FaultKinds \X (Objects \cup {Nobody})
        BY DEF Called, FaultKinds
      <3>. QED BY <1>0, <1>15, <3>1 DEF FaultKinds
    <2>. QED BY <1>15, <2>1 DEF Dispatch
  <1>. QED BY Steps, <1>1, <1>2, <1>3, <1>4, <1>5, <1>6, <1>7, <1>8, <1>9, <1>10,
              <1>11, <1>12, <1>13, <1>14, <1>15

LEMMA InitType == Init => TypeOK
  <1>. SUFFICES ASSUME Init
                PROVE  TypeOK
    OBVIOUS
  <1>1. faults \subseteq FaultKinds \X (Objects \cup {Nobody})
    BY DEF Init
  <1>. QED BY <1>1 DEF Init, TypeOK, LifeLabels, TaskLabels, InitLabels

-----------------------------------------------------------------------------
(* Each part of the invariant is kept by every step; the parts lean on     *)
(* each other only as far as the hypotheses of these lemmas say.           *)
LEMMA TasksStep ==
  ASSUME TypeOK, NoTaskOnFreedObject, TasksFollowObjects, Next
  PROVE  NoTaskOnFreedObject' /\ TasksFollowObjects'
  <1>. USE LifeAssumption DEF TypeOK, NoTaskOnFreedObject, TasksFollowObjects, Objects,
               LifeLabels, TaskLabels, objVars, pinVars
  <1>1. CASE StartScheduler
    BY <1>1 DEF StartScheduler, OwnerIdle, OwnerRuns
  <1>2. ASSUME NEW o \in Objects, Construct(o)
        PROVE  NoTaskOnFreedObject' /\ TasksFollowObjects'
    BY <1>2 DEF Construct, Start, OwnerIdle, OwnerRuns
  <1>3. ASSUME NEW o \in Objects, FinishConstruct(o)
        PROVE  NoTaskOnFreedObject' /\ TasksFollowObjects'
    BY <1>3 DEF FinishConstruct, OwnerRuns
  <1>4. ASSUME NEW o \in Objects, Destroy(o)
        PROVE  NoTaskOnFreedObject' /\ TasksFollowObjects'
    BY <1>4 DEF Destroy, OwnerIdle, OwnerRuns
  <1>5. ASSUME NEW o \in Objects, DeleteTask(o)
        PROVE  NoTaskOnFreedObject' /\ TasksFollowObjects'
    BY <1>5 DEF DeleteTask, Fault, OwnerRuns
  <1>6. ASSUME NEW o \in Objects, EnterRun(o)
        PROVE  NoTaskOnFreedObject' /\ TasksFollowObjects'
    BY <1>6 DEF EnterRun, Fault
  <1>7. ASSUME NEW o \in Drivers, Gate(o)
        PROVE  NoTaskOnFreedObject' /\ TasksFollowObjects'
    BY <1>7 DEF Gate, LeaveGate
  <1>8. ASSUME NEW o \in Objects, RunReturns(o)
        PROVE  NoTaskOnFreedObject' /\ TasksFollowObjects'
    BY <1>8 DEF RunReturns
  <1>9. ASSUME NEW o \in Drivers, CreateSemaphores(o)
        PROVE  NoTaskOnFreedObject' /\ TasksFollowObjects'
    BY <1>9 DEF CreateSemaphores, CreateSemaphore, MayInitialise, Initialising
  <1>10. ASSUME NEW o \in Drivers, RegisterMove(o)
         PROVE  NoTaskOnFreedObject' /\ TasksFollowObjects'
    BY <1>10 DEF RegisterMove, Initialising
  <1>11. ASSUME NEW o \in Drivers, RegisterMoved(o)
         PROVE  NoTaskOnFreedObject' /\ TasksFollowObjects'
    BY <1>11 DEF RegisterMoved, Initialising
  <1>12. ASSUME NEW o \in Drivers, RegisterEnable(o)
         PROVE  NoTaskOnFreedObject' /\ TasksFollowObjects'
    BY <1>12 DEF RegisterEnable, Initialising
  <1>13. ASSUME NEW o \in Drivers, Unregister(o)
         PROVE  NoTaskOnFreedObject' /\ TasksFollowObjects'
    BY <1>13 DEF Unregister
  <1>14. CASE Edge
    BY <1>14 DEF Edge
  <1>15. CASE Dispatch
    BY <1>15 DEF Dispatch
  <1>. QED BY Steps, <1>1, <1>2, <1>3, <1>4, <1>5, <1>6, <1>7, <1>8, <1>9,
              <1>10, <1>11, <1>12, <1>13, <1>14, <1>15

LEMMA SemaphoresStep ==
  ASSUME TypeOK, SemaphoresFollowInit, Next
  PROVE  SemaphoresFollowInit'
  <1>. USE LifeAssumption DEF TypeOK, SemaphoresFollowInit, Objects, Semaphores, objVars, pinVars
  <1>1. CASE StartScheduler
    BY <1>1 DEF StartScheduler
  <1>2. ASSUME NEW o \in Objects, Construct(o)
        PROVE  SemaphoresFollowInit'
    BY <1>2 DEF Construct, Start
  <1>3. ASSUME NEW o \in Objects, FinishConstruct(o)
        PROVE  SemaphoresFollowInit'
    BY <1>3 DEF FinishConstruct
  <1>4. ASSUME NEW o \in Objects, Destroy(o)
        PROVE  SemaphoresFollowInit'
    BY <1>4 DEF Destroy
  <1>5. ASSUME NEW o \in Objects, DeleteTask(o)
        PROVE  SemaphoresFollowInit'
    BY <1>5 DEF DeleteTask, Fault
  <1>6. ASSUME NEW o \in Objects, EnterRun(o)
        PROVE  SemaphoresFollowInit'
    BY <1>6 DEF EnterRun, Fault
  <1>7. ASSUME NEW o \in Drivers, Gate(o)
        PROVE  SemaphoresFollowInit'
    BY <1>7 DEF Gate, LeaveGate
  <1>8. ASSUME NEW o \in Objects, RunReturns(o)
        PROVE  SemaphoresFollowInit'
    BY <1>8 DEF RunReturns
  <1>9. ASSUME NEW o \in Drivers, CreateSemaphores(o)
        PROVE  SemaphoresFollowInit'
    BY <1>9 DEF CreateSemaphores, CreateSemaphore, MayInitialise, Initialising
  <1>10. ASSUME NEW o \in Drivers, RegisterMove(o)
         PROVE  SemaphoresFollowInit'
    BY <1>10 DEF RegisterMove, Initialising
  <1>11. ASSUME NEW o \in Drivers, RegisterMoved(o)
         PROVE  SemaphoresFollowInit'
    BY <1>11 DEF RegisterMoved, Initialising
  <1>12. ASSUME NEW o \in Drivers, RegisterEnable(o)
         PROVE  SemaphoresFollowInit'
    BY <1>12 DEF RegisterEnable, Initialising
  <1>13. ASSUME NEW o \in Drivers, Unregister(o)
         PROVE  SemaphoresFollowInit'
    BY <1>13 DEF Unregister
  <1>14. CASE Edge
    BY <1>14 DEF Edge
  <1>15. CASE Dispatch
    BY <1>15 DEF Dispatch
  <1>. QED BY Steps, <1>1, <1>2, <1>3, <1>4, <1>5, <1>6, <1>7, <1>8, <1>9,
              <1>10, <1>11, <1>12, <1>13, <1>14, <1>15

LEMMA SlotStep ==
  ASSUME TypeOK, SlotFollowsInit, Next
  PROVE  SlotFollowsInit'
  <1>. USE LifeAssumption DEF TypeOK, SlotFollowsInit, Objects, InitLabels, objVars, pinVars
  <1>1. CASE StartScheduler
    BY <1>1 DEF StartScheduler
  <1>2. ASSUME NEW o \in Objects, Construct(o)
        PROVE  SlotFollowsInit'
    BY <1>2 DEF Construct, Start
  <1>3. ASSUME NEW o \in Objects, FinishConstruct(o)
        PROVE  SlotFollowsInit'
    BY <1>3 DEF FinishConstruct
  <1>4. ASSUME NEW o \in Objects, Destroy(o)
        PROVE  SlotFollowsInit'
    BY <1>4 DEF Destroy
  <1>5. ASSUME NEW o \in Objects, DeleteTask(o)
        PROVE  SlotFollowsInit'
    BY <1>5 DEF DeleteTask, Fault
  <1>6. ASSUME NEW o \in Objects, EnterRun(o)
        PROVE  SlotFollowsInit'
    BY <1>6 DEF EnterRun, Fault
  <1>7. ASSUME NEW o \in Drivers, Gate(o)
        PROVE  SlotFollowsInit'
    BY <1>7 DEF Gate, LeaveGate
  <1>8. ASSUME NEW o \in Objects, RunReturns(o)
        PROVE  SlotFollowsInit'
    BY <1>8 DEF RunReturns
  <1>9. ASSUME NEW o \in Drivers, CreateSemaphores(o)
        PROVE  SlotFollowsInit'
    BY <1>9 DEF CreateSemaphores, CreateSemaphore, MayInitialise, Initialising
  <1>10. ASSUME NEW o \in Drivers, RegisterMove(o)
         PROVE  SlotFollowsInit'
    <2>1. IsFiniteSet(registered \cup {o})
      BY FS_AddElement, Zenon
    <2>. QED BY <1>10, <2>1 DEF RegisterMove, Initialising
  <1>11. ASSUME NEW o \in Drivers, RegisterMoved(o)
         PROVE  SlotFollowsInit'
    BY <1>11 DEF RegisterMoved, Initialising
  <1>12. ASSUME NEW o \in Drivers, RegisterEnable(o)
         PROVE  SlotFollowsInit'
    BY <1>12 DEF RegisterEnable, Initialising
  <1>13. ASSUME NEW o \in Drivers, Unregister(o)
         PROVE  SlotFollowsInit'
    BY <1>13 DEF Unregister, OwnerIdle
  <1>14. CASE Edge
    BY <1>14 DEF Edge
  <1>15. CASE Dispatch
    BY <1>15 DEF Dispatch
  <1>. QED BY Steps, <1>1, <1>2, <1>3, <1>4, <1>5, <1>6, <1>7, <1>8, <1>9,
              <1>10, <1>11, <1>12, <1>13, <1>14, <1>15
(* Who was registered twice is two.                                        *)
LEMMA TwoRegistered ==
  ASSUME TypeOK, SlotFollowsInit, slot = "torn", irqOn
  PROVE  Cardinality(registered) > 1
  <1>1. PICK a \in registered : init[a] = "moving"
    BY Zenon DEF SlotFollowsInit
  <1>2. PICK b \in registered : init[b] = "done"
    BY Zenon DEF SlotFollowsInit
  <1>3. a # b
    BY <1>1, <1>2
  <1>4. IsFiniteSet(registered)
    BY Zenon DEF SlotFollowsInit
  <1>5. IsFiniteSet({a}) /\ Cardinality({a}) = 1
    BY FS_Singleton, Zenon
  <1>6. Cardinality({a} \cup {b}) = Cardinality({a}) + 1
    BY <1>3, <1>5, FS_AddElement
  <1>7. Cardinality({a} \cup {b}) <= Cardinality(registered)
    BY <1>4, FS_Subset
  <1>8. Cardinality(registered) \in Nat
    BY <1>4, FS_CardinalityType
  <1>. QED BY <1>5, <1>6, <1>7, <1>8

(* A step that adds no fault and lets the excuses stand. *)
LEMMA NoFault == faults = {} => Excused
  BY DEF Excused, EntersBuilt, DeletesOwnTask, HandlersHitLive, FirstRegistrationIsWhole

LEMMA ExcusedStep ==
  ASSUME TypeOK, TasksFollowObjects, SemaphoresFollowInit, SlotFollowsInit, Next
  PROVE  Excused'
  <1>1. faults = {}
    BY Steps
  <1>2. (faults' = {}) => Excused'
    BY DEF Excused, EntersBuilt, DeletesOwnTask, HandlersHitLive, FirstRegistrationIsWhole
  <1>3. ASSUME NEW o \in Objects, DeleteTask(o)
        PROVE  Excused'
    BY <1>1, <1>3 DEF DeleteTask, Fault, TypeOK, TasksFollowObjects, Excused, EntersBuilt,
      DeletesOwnTask, HandlersHitLive, FirstRegistrationIsWhole
  <1>4. ASSUME NEW o \in Objects, EnterRun(o)
        PROVE  Excused'
    BY <1>1, <1>4 DEF EnterRun, Fault, objVars, TypeOK, TasksFollowObjects, Excused,
      EntersBuilt, DeletesOwnTask, HandlersHitLive, FirstRegistrationIsWhole
  <1>5. CASE Dispatch
    <2>1. UNCHANGED <<late, lacking, registered, unregistered>>
      BY <1>5 DEF Dispatch, objVars
    <2>2. CASE faults' = {}
      BY <1>2, <2>2
    <2>3. CASE slot = "torn" /\ irqOn /\ faults' = {<<"torn", Nobody>>}
      <3>1. Cardinality(registered) > 1
        BY <2>3, TwoRegistered
      <3>. QED BY <2>1, <2>3, <3>1 DEF Excused, EntersBuilt, DeletesOwnTask, HandlersHitLive,
                                       FirstRegistrationIsWhole
    <2>4. CASE /\ slot \in Drivers /\ faults' = {Called(slot)}
               /\ ~(life[slot] = "built" /\ "int" \in sems[slot])
      <3>1. slot \notin unregistered
        BY <2>4 DEF SlotFollowsInit
      <3>2. "int" \notin sems[slot] => slot \in lacking
        BY <2>4 DEF SlotFollowsInit, SemaphoresFollowInit
      <3>. QED BY <2>1, <2>4, <3>1, <3>2 DEF Called, Excused, EntersBuilt, DeletesOwnTask,
                                             HandlersHitLive, FirstRegistrationIsWhole
    <2>. QED BY <1>1, <1>5, <2>2, <2>3, <2>4, DispatchFaults
  <1>6. ASSUME ~Dispatch, \A o \in Objects : ~DeleteTask(o) /\ ~EnterRun(o)
        PROVE  faults' = faults
    BY <1>6, Steps DEF StartScheduler, Construct, Start, FinishConstruct, Destroy, Gate, LeaveGate,
      RunReturns, CreateSemaphores, CreateSemaphore, RegisterMove, RegisterMoved,
      RegisterEnable, Unregister, Edge
  <1>. QED BY <1>1, <1>2, <1>3, <1>4, <1>5, <1>6

-----------------------------------------------------------------------------
LEMMA Inductive == Spec => []IInv
  <1>1. Init => IInv
    <2>. SUFFICES ASSUME Init
                  PROVE  IInv
      OBVIOUS
    <2>1. TypeOK
      BY InitType
    <2>2. NoTaskOnFreedObject /\ TasksFollowObjects /\ SemaphoresFollowInit
      BY DEF Init, NoTaskOnFreedObject, TasksFollowObjects, SemaphoresFollowInit, Objects
    <2>3. SlotFollowsInit
      BY LifeAssumption, FS_EmptySet DEF Init, SlotFollowsInit
    <2>4. Excused
      BY NoFault DEF Init
    <2>. QED BY <2>1, <2>2, <2>3, <2>4 DEF IInv
  <1>2. IInv /\ [Next]_vars => IInv'
    <2>1. ASSUME IInv, Next
          PROVE  IInv'
      BY <2>1, TypeStep, TasksStep, SemaphoresStep, SlotStep, ExcusedStep, Zenon DEF IInv
    <2>2. ASSUME IInv, UNCHANGED vars
          PROVE  IInv'
      BY <2>2 DEF IInv, vars, objVars, pinVars, TypeOK, NoTaskOnFreedObject,
        TasksFollowObjects, SemaphoresFollowInit, SlotFollowsInit, Excused, EntersBuilt,
        DeletesOwnTask, HandlersHitLive, FirstRegistrationIsWhole
    <2>. QED BY <2>1, <2>2
  <1>. QED BY <1>1, <1>2, PTL DEF Spec

(* Every object, driver and pin of taskinterface.cpp, mcp2515Task.cpp and  *)
(* gpio.cpp stays in the states the code gives it.                         *)
THEOREM TypeCorrect == Spec => []TypeOK
  <1>1. IInv => TypeOK
    BY DEF IInv
  <1>. QED BY <1>1, Inductive, PTL

(* However often objects come and go, no task runs on in a freed one       *)
(* (taskinterface.cpp:27-28).                                              *)
THEOREM TasksDieWithObjects == Spec => []NoTaskOnFreedObject
  <1>1. IInv => NoTaskOnFreedObject
    BY DEF IInv, Excused
  <1>. QED BY <1>1, Inductive, PTL

(* run finds its object complete, unless the scheduler ran when it was     *)
(* constructed (taskinterface.cpp:20, 40-42).                              *)
THEOREM RunSeesWholeObject == Spec => []EntersBuilt
  <1>1. IInv => EntersBuilt
    BY DEF IInv, Excused
  <1>. QED BY <1>1, Inductive, PTL

(* The destructor deletes a task that is there, unless it never was or has *)
(* ended by itself (taskinterface.cpp:28, 44, 78).                         *)
THEOREM DeletesWhatItStarted == Spec => []DeletesOwnTask
  <1>1. IInv => DeletesOwnTask
    BY DEF IInv, Excused
  <1>. QED BY <1>1, Inductive, PTL

(* The interrupt of the pin never calls a driver that was unregistered     *)
(* before its delete (gpio.cpp:7-10, 20-23).                               *)
THEOREM InterruptFindsDriver == Spec => []HandlersHitLive
  <1>1. IInv => HandlersHitLive
    BY DEF IInv, Excused
  <1>. QED BY <1>1, Inductive, PTL

(* With one registration of the pin, the interrupt never calls half a      *)
(* function object (gpio.cpp:12-18).                                       *)
THEOREM FirstMoveIsSafe == Spec => []FirstRegistrationIsWhole
  <1>1. IInv => FirstRegistrationIsWhole
    BY DEF IInv, Excused
  <1>. QED BY <1>1, Inductive, PTL

(* canService and irqHandler use semaphores that exist, but for irqHandler *)
(* when there was no memory (mcp2515Task.cpp:14-16, 42, 50-52).            *)
THEOREM SemaphoresAreThere == Spec => []SemaphoresExist
  <1>1. IInv => SemaphoresExist
    BY DEF IInv, Excused, SemaphoresFollowInit, SemaphoresExist
  <1>. QED BY <1>1, Inductive, PTL
=============================================================================
