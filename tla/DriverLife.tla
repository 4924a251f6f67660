----------------------------- MODULE DriverLife -----------------------------
(***************************************************************************)
(* The life of the objects that own a task (source/taskinterface.cpp): the *)
(* CAN drivers of source/mcp2515Task.cpp, one after the other on the INT   *)
(* pin of one chip (source/gpio.cpp), and jobs, whose run returns.  One    *)
(* task, or main before the scheduler starts, owns them all: it            *)
(* constructs, initialises and deletes them, one call at a time.  The      *)
(* tasks of the objects have a higher priority and share its core.         *)
(***************************************************************************)
EXTENDS Integers, FiniteSets

CONSTANTS
  Drivers,   \* Mcp2515Task objects; each lives once
  Jobs,      \* objects of other classes, whose run may return
  Nobody     \* no object

ASSUME LifeAssumption ==
  /\ Drivers \cap Jobs = {}
  /\ Nobody \notin Drivers \cup Jobs /\ Nobody # "torn"
  /\ "torn" \notin Drivers

VARIABLES
  scheduler,   \* vTaskStartScheduler was called
  life,        \* each object, from its constructor to its delete
  task,        \* the task of each object and where it is in run
  init,        \* where each driver is in initialInTask
  sems,        \* the semaphores of each driver that exist
  slot,        \* pinCallbacks of the pin: a driver, nothing, or half a move
  irqOn, edge, \* the edge interrupt of the pin is enabled; is latched
  late,        \* history: constructed under a running scheduler
  lacking,     \* history: an allocation for the object failed
  registered, unregistered,   \* history: drivers that were, alive
  faults       \* history: what went wrong, and with which object

objVars == <<scheduler, life, late>>
pinVars == <<slot, irqOn, edge, registered, unregistered>>
vars == <<objVars, task, init, sems, lacking, pinVars, faults>>

Objects == Drivers \cup Jobs
Semaphores == {"int", "tx", "rx"}
LifeLabels == {"raw", "base", "built", "dying", "freed"}
TaskLabels == {"none", "ready", "gate", "run", "deleted"}
InitLabels == {"idle", "tx", "rx", "move", "moving", "enable", "done"}
FaultKinds == {"unbuilt", "dangling", "torn", "null", "delete"}

TypeOK ==
  /\ scheduler \in BOOLEAN
  /\ life \in [Objects -> LifeLabels]
  /\ task \in [Objects -> TaskLabels]
  /\ init \in [Drivers -> InitLabels]
  /\ sems \in [Drivers -> SUBSET Semaphores]
  /\ slot \in Drivers \cup {Nobody, "torn"}
  /\ irqOn \in BOOLEAN /\ edge \in BOOLEAN
  /\ late \subseteq Objects /\ lacking \subseteq Objects
  /\ registered \subseteq Drivers /\ unregistered \subseteq Drivers
  /\ faults \subseteq FaultKinds \X (Objects \cup {Nobody})

Init ==
  /\ scheduler = FALSE
  /\ life = [o \in Objects |-> "raw"]
  /\ task = [o \in Objects |-> "none"]
  /\ init = [o \in Drivers |-> "idle"]
  /\ sems = [o \in Drivers |-> {}]
  /\ slot = Nobody
  /\ irqOn = FALSE /\ edge = FALSE
  /\ late = {} /\ lacking = {}
  /\ registered = {} /\ unregistered = {}
  /\ faults = {}

Fault(kind, o, happened) == faults' = IF happened THEN faults \cup {<<kind, o>>} ELSE faults

-----------------------------------------------------------------------------
(* The owner gets the processor when no task of an object is ready, and is *)
(* between two calls when nothing is half done.                            *)
OwnerRuns == scheduler => \A o \in Objects : task[o] # "ready"

OwnerIdle ==
  /\ OwnerRuns
  /\ \A o \in Objects : life[o] \notin {"base", "dying"}
  /\ \A o \in Drivers : init[o] \in {"idle", "done"}

StartScheduler ==
  /\ OwnerIdle
  /\ ~scheduler /\ scheduler' = TRUE
  /\ UNCHANGED <<life, late, task, init, sems, lacking, pinVars, faults>>

(* The base class constructor: start, whose xTaskCreate may find no memory *)
(* without anybody noticing.  The mutant finds taskStarted set.            *)
Start(o, created) ==
  /\ OwnerIdle
  /\ life[o] = "raw" /\ life' = [life EXCEPT ![o] = "base"]
  /\ late' = IF scheduler THEN late \cup {o} ELSE late
  /\ lacking' = IF created THEN lacking ELSE lacking \cup {o}
  /\ UNCHANGED <<scheduler, init, sems, pinVars, faults>>

ConstructNotStarted(o) == Start(o, TRUE) /\ UNCHANGED task

Construct(o) ==
  \E created \in BOOLEAN :
    /\ Start(o, created)
    /\ task' = IF created THEN [task EXCEPT ![o] = "ready"] ELSE task

(* The members and the virtual functions of the derived class. *)
FinishConstruct(o) ==
  /\ OwnerRuns
  /\ life[o] = "base" /\ life' = [life EXCEPT ![o] = "built"]
  /\ UNCHANGED <<scheduler, late, task, init, sems, lacking, pinVars, faults>>

(* delete: the derived part goes first, then ~TaskInterface deletes the    *)
(* task, whatever has become of it, and the memory is freed.  The mutant   *)
(* leaves the task alone.                                                  *)
Destroy(o) ==
  /\ OwnerIdle
  /\ life[o] = "built" /\ life' = [life EXCEPT ![o] = "dying"]
  /\ UNCHANGED <<scheduler, late, task, init, sems, lacking, pinVars, faults>>

DeleteTaskNot(o) ==
  /\ OwnerRuns
  /\ life[o] = "dying" /\ life' = [life EXCEPT ![o] = "freed"]
  /\ UNCHANGED <<scheduler, late, task, init, sems, lacking, pinVars, faults>>

DeleteTask(o) ==
  /\ OwnerRuns
  /\ life[o] = "dying" /\ life' = [life EXCEPT ![o] = "freed"]
  /\ task' = [task EXCEPT ![o] = "deleted"]
  /\ Fault("delete", o, task[o] \in {"none", "deleted"})
  /\ UNCHANGED <<scheduler, late, init, sems, lacking, pinVars>>

-----------------------------------------------------------------------------
(* initialInTask: three semaphores, each of which may find no memory       *)
(* without anybody noticing, then the callback of the pin.                 *)
Initialising(o, from, to) ==
  /\ OwnerRuns
  /\ init[o] = from /\ init' = [init EXCEPT ![o] = to]

CreateSemaphore(o, from, to, s) ==
  /\ Initialising(o, from, to)
  /\ \/ sems' = [sems EXCEPT ![o] = @ \cup {s}] /\ UNCHANGED lacking
     \/ UNCHANGED sems /\ lacking' = lacking \cup {o}
  /\ UNCHANGED <<objVars, task, pinVars, faults>>

(* One driver at a time works the chip. *)
MayInitialise(o) ==
  /\ OwnerIdle /\ scheduler
  /\ life[o] = "built"
  /\ \A p \in Drivers \ {o} : init[p] = "done" => life[p] = "freed"

(* The mutant leaves _rxSemaphore out. *)
CreateTwo(o) ==
  \/ /\ MayInitialise(o)
     /\ CreateSemaphore(o, "idle", "tx", "int")
  \/ CreateSemaphore(o, "tx", "move", "tx")

CreateSemaphores(o) ==
  \/ /\ MayInitialise(o)
     /\ CreateSemaphore(o, "idle", "tx", "int")
  \/ CreateSemaphore(o, "tx", "rx", "tx")
  \/ CreateSemaphore(o, "rx", "move", "rx")

(* gpioRegisterIrqCallback: the function object is moved in member by      *)
(* member; enabling acknowledges an edge from before.  The mutant enables  *)
(* first.                                                                  *)
RegisterMoveEnabled(o) ==
  /\ Initialising(o, "move", "moving")
  /\ slot' = "torn"
  /\ irqOn' = TRUE /\ edge' = FALSE
  /\ registered' = registered \cup {o}
  /\ UNCHANGED <<objVars, task, sems, lacking, unregistered, faults>>

RegisterMove(o) ==
  /\ Initialising(o, "move", "moving")
  /\ slot' = "torn"
  /\ registered' = registered \cup {o}
  /\ UNCHANGED <<objVars, task, sems, lacking, irqOn, edge, unregistered, faults>>

RegisterMoved(o) ==
  /\ Initialising(o, "moving", "enable")
  /\ slot' = o
  /\ UNCHANGED <<objVars, task, sems, lacking, irqOn, edge, registered, unregistered, faults>>

RegisterEnable(o) ==
  /\ Initialising(o, "enable", "done")
  /\ irqOn' = TRUE /\ edge' = FALSE
  /\ UNCHANGED <<objVars, task, sems, lacking, slot, registered, unregistered, faults>>

(* gpioUnregisterIrqCallback; the interrupt of the pin stays enabled.  The *)
(* mutant takes the pin for out of range.                                  *)
UnregisterNot(o) ==
  /\ OwnerIdle
  /\ slot = o
  /\ unregistered' = IF life[o] = "built" THEN unregistered \cup {o} ELSE unregistered
  /\ UNCHANGED <<objVars, task, init, sems, lacking, slot, irqOn, edge, registered, faults>>

Unregister(o) ==
  /\ OwnerIdle
  /\ slot = o /\ slot' = Nobody
  /\ unregistered' = IF life[o] = "built" THEN unregistered \cup {o} ELSE unregistered
  /\ UNCHANGED <<objVars, task, init, sems, lacking, irqOn, edge, registered, faults>>

-----------------------------------------------------------------------------
(* taskFunctionAdapter: run of the object, whatever there is of it, and    *)
(* the delete of a task whose run returns.                                 *)
EnterRun(o) ==
  /\ scheduler
  /\ task[o] = "ready"
  /\ task' = [task EXCEPT ![o] = IF o \in Drivers THEN "gate" ELSE "run"]
  /\ Fault("unbuilt", o, life[o] # "built")
  /\ UNCHANGED <<objVars, init, sems, lacking, pinVars>>

RunReturns(o) ==
  /\ o \in Jobs
  /\ task[o] = "run" /\ task' = [task EXCEPT ![o] = "deleted"]
  /\ UNCHANGED <<objVars, init, sems, lacking, pinVars, faults>>

(* canService goes on when all its semaphores exist.  The mutant looks at  *)
(* the first only.                                                         *)
LeaveGate(o, needed) ==
  /\ task[o] = "gate"
  /\ needed \subseteq sems[o]
  /\ task' = [task EXCEPT ![o] = "run"]
  /\ UNCHANGED <<objVars, init, sems, lacking, pinVars, faults>>

GateOfOne(o) == LeaveGate(o, {"int"})
Gate(o) == LeaveGate(o, Semaphores)

TaskStep(o) == EnterRun(o) \/ (o \in Drivers /\ Gate(o))

-----------------------------------------------------------------------------
(* The pin, and irqDispatcher with the irqHandler it calls. *)
Edge ==
  /\ ~edge /\ edge' = TRUE
  /\ UNCHANGED <<objVars, task, init, sems, lacking, slot, irqOn, registered,
                 unregistered, faults>>

Called(o) ==
  IF life[o] # "built" THEN <<"dangling", o>> ELSE <<"null", o>>

Dispatch ==
  /\ irqOn /\ edge
  /\ edge' = FALSE
  /\ faults' = faults \cup
       CASE slot = Nobody -> {}
         [] slot = "torn" -> {<<"torn", Nobody>>}
         [] OTHER -> IF life[slot] = "built" /\ "int" \in sems[slot] THEN {} ELSE {Called(slot)}
  /\ UNCHANGED <<objVars, task, init, sems, lacking, slot, irqOn, registered, unregistered>>

(* What follows a fault is undefined and left out. *)
Next ==
  /\ faults = {}
  /\ \/ StartScheduler
     \/ \E o \in Objects :
          \/ Construct(o) \/ FinishConstruct(o) \/ Destroy(o) \/ DeleteTask(o)
          \/ TaskStep(o) \/ RunReturns(o)
     \/ \E o \in Drivers :
          \/ CreateSemaphores(o) \/ RegisterMove(o) \/ RegisterMoved(o)
          \/ RegisterEnable(o) \/ Unregister(o)
     \/ Edge \/ Dispatch

Spec == Init /\ [][Next]_vars

(* The tasks of the objects have the processor when they can run. *)
FairSpec == Spec /\ \A o \in Objects : WF_vars(faults = {} /\ TaskStep(o))

-----------------------------------------------------------------------------
(* run is entered only on an object that is complete, unless it was        *)
(* constructed under a running scheduler, where the task is there before   *)
(* the derived class is (taskinterface.cpp:20, 40-42).                     *)
EntersBuilt == \A o \in Objects : <<"unbuilt", o>> \in faults => o \in late

(* No task outlives its object (taskinterface.cpp:27-28). *)
NoTaskOnFreedObject ==
  \A o \in Objects : life[o] = "freed" => task[o] \in {"none", "deleted"}

(* The destructor deletes a task that exists, unless xTaskCreate had       *)
(* failed, which start takes for success, or run had returned              *)
(* (taskinterface.cpp:28, 44, 78).                                         *)
DeletesOwnTask ==
  \A o \in Objects : <<"delete", o>> \in faults => o \in lacking \cup Jobs

(* The interrupt never calls a driver that is gone, unless it was          *)
(* destroyed without gpioUnregisterIrqCallback, which no destructor calls  *)
(* (gpio.cpp:7-10, 20-23, mcp2515Task.cpp:32-33).                          *)
HandlersHitLive ==
  \A o \in Drivers : <<"dangling", o>> \in faults => o \notin unregistered

(* The interrupt never calls half a function object the first time a pin   *)
(* is registered; only a second time, for gpioUnregisterIrqCallback leaves *)
(* the interrupt on (gpio.cpp:12-18, 22).                                  *)
FirstRegistrationIsWhole ==
  <<"torn", Nobody>> \in faults => Cardinality(registered) > 1

(* Neither canService nor irqHandler uses a semaphore that is not there,   *)
(* except irqHandler when the memory ran out (mcp2515Task.cpp:14-16,       *)
(* 32-33, 42, 50-52).                                                      *)
SemaphoresExist ==
  \A o \in Drivers :
    /\ task[o] = "run" => sems[o] = Semaphores
    /\ <<"null", o>> \in faults => o \in lacking

(* canService starts its work once initialInTask is through                *)
(* (mcp2515Task.cpp:50-54).                                                *)
CanServiceStarts ==
  \A o \in Drivers :
    (init[o] = "done" /\ o \notin lacking) ~>
      (task[o] = "run" \/ life[o] # "built" \/ faults # {})
=============================================================================
