-------------------------- MODULE ServiceLifecycle --------------------------
(***************************************************************************)
(* One process per mounted drive: how it is made, started by WinFsp's      *)
(* service loop, stopped and taken apart, and the threads that run beside  *)
(* the main thread meanwhile: the dispatcher's callbacks, NotifListener's  *)
(* thread and the one of TimerWorker.                                      *)
(*                                                                         *)
(* The services are started in the order driver, device, "delayed",        *)
(* "timer" and stopped in the same order.  When a start fails nothing is   *)
(* stopped again; only the destructors do, in the order main.cpp fixes:    *)
(* driver, TimerWorker, DelayedWorker, device and DLL.                     *)
(*                                                                         *)
(* NotifListener's events have global names: the processes of all drives   *)
(* share them, and each SetEvent releases one listener, of any drive: one  *)
(* that waits, at once, or the next to wait.                               *)
(*                                                                         *)
(* The pool's own start and stop are DelayedWorker's subject: here both    *)
(* return.  The device's OnSvcStop does nothing and is left out.           *)
(***************************************************************************)
CONSTANT
  Drives         (* one process each                                       *)

VARIABLES
  at,            (* at[d]: the step that drive d's main thread takes next  *)
  served,        (* served[d]: this process has got as far as serving      *)
  alive,         (* alive[d]: the parts that are made and not yet given up *)
  calling,       (* calling[d]: a callback is in progress                  *)
  listener,      (* listener[d]: NotifListener's thread                    *)
  mEvents,       (* mEvents[d]: the events the process has handles of      *)
  mEndThreadFlag,
  timer,         (* timer[d]: TimerWorker's thread                         *)
  mTasks,        (* mTasks[d]: the owners of TimerWorker's tasks           *)
  running,       (* running[d]: the copy of them it goes through          *)
  mEndWorkerFlag,
  signalled,     (* the named events that are set                          *)
  robbed         (* ghost: another drive took the last event of d's stop  *)

main  == <<at, served, alive>>
notif == <<listener, mEvents, mEndThreadFlag, robbed>>
clock == <<timer, mTasks, running, mEndWorkerFlag>>
vars  == <<main, calling, notif, clock, signalled>>

Events == {"report", "clear"}

(* a listener that was released by an event and found the flag unset, and   *)
(* what the handler it runs works with                                      *)
Uses == [onReport |-> {"driver", "device"}, onClear |-> {"device"}]

Parts  == {"fs", "driver", "device", "pool", "dispatcher"}

Starting == {"create", "startDriver", "startDevice", "startDelayed", "startTimer", "dispatch"}
Stopping == {"stopDispatcher", "stopReport", "stopClear", "stopJoin", "stopDelayed",
             "stopTimer", "stopJoinTimer"}
Exiting  == {"deleteFs", "exitReport", "exitClear", "exitJoin", "exitDriver",
             "exitTimer", "exitJoinTimer", "exitDelayed", "unload"}
Gone     == {"off", "ended", "crashed"}

TypeOK ==
  /\ at \in [Drives -> Starting \cup {"serving"} \cup Stopping \cup Exiting \cup Gone]
  /\ served \in [Drives -> BOOLEAN]
  /\ alive \in [Drives -> SUBSET Parts]
  /\ calling \in [Drives -> BOOLEAN]
  /\ listener \in [Drives -> {"none", "ready", "wait", "ended"} \cup Events \cup DOMAIN Uses]
  /\ mEvents \in [Drives -> SUBSET Events]
  /\ mEndThreadFlag \in [Drives -> BOOLEAN]
  /\ timer \in [Drives -> {"none", "wait", "runs", "ended"}]
  /\ mTasks \in [Drives -> SUBSET {"driver", "device"}]
  /\ running \in [Drives -> SUBSET {"driver", "device"}]
  /\ mEndWorkerFlag \in [Drives -> BOOLEAN]
  (* a named event exists as long as a process has a handle of it          *)
  /\ signalled \subseteq UNION {mEvents[d] : d \in Drives}
  /\ robbed \in [Drives -> BOOLEAN]

Init ==
  /\ at = [d \in Drives |-> "off"]
  /\ served = [d \in Drives |-> FALSE]
  /\ alive = [d \in Drives |-> {}]
  /\ calling = [d \in Drives |-> FALSE]
  /\ listener = [d \in Drives |-> "none"]
  /\ mEvents = [d \in Drives |-> {}]
  /\ mEndThreadFlag = [d \in Drives |-> FALSE]
  /\ timer = [d \in Drives |-> "none"]
  /\ mTasks = [d \in Drives |-> {}]
  /\ running = [d \in Drives |-> {}]
  /\ mEndWorkerFlag = [d \in Drives |-> FALSE]
  /\ signalled = {}
  /\ robbed = [d \in Drives |-> FALSE]

------------------------------------------------------------------------------
(* The process                                                              *)

Goto(d, there) == at' = [at EXCEPT ![d] = there]

Makes(d, part)   == alive' = [alive EXCEPT ![d] = @ \cup {part}]
GivesUp(d, part) == alive' = [alive EXCEPT ![d] = @ \ {part}]

(* the events that outlive what the processes let go of                     *)
StillNamed(set) == signalled' = set \cap UNION {mEvents'[d] : d \in Drives}

(* an access violation: no thread of the process goes on                    *)
Crash(d) ==
  /\ Goto(d, "crashed")
  /\ alive' = [alive EXCEPT ![d] = {}]
  /\ calling' = [calling EXCEPT ![d] = FALSE]
  /\ listener' = [listener EXCEPT ![d] = "none"]
  /\ mEvents' = [mEvents EXCEPT ![d] = {}]
  /\ timer' = [timer EXCEPT ![d] = "none"]
  /\ mTasks' = [mTasks EXCEPT ![d] = {}]
  /\ running' = [running EXCEPT ![d] = {}]
  /\ StillNamed(signalled)
  /\ UNCHANGED <<served, mEndThreadFlag, mEndWorkerFlag, robbed>>

(* app_main: workers and device are made, the DLL may not load; the driver  *)
(* is made last.                                                            *)
AppMain(d) ==
  /\ at[d] \in Gone
  /\ \E loads \in BOOLEAN : Goto(d, IF loads THEN "create" ELSE "exitTimer")
  /\ served' = [served EXCEPT ![d] = FALSE]
  /\ mEndThreadFlag' = [mEndThreadFlag EXCEPT ![d] = FALSE]
  /\ mEndWorkerFlag' = [mEndWorkerFlag EXCEPT ![d] = FALSE]
  /\ robbed' = [robbed EXCEPT ![d] = FALSE]
  /\ UNCHANGED <<alive, calling, listener, mEvents, timer, mTasks, running, signalled>>

------------------------------------------------------------------------------
(* The named events: auto-reset, so each SetEvent releases one thread       *)

Unreleased == {"ready", "wait"} \cup DOMAIN Uses

(* Listener d takes an event: is it the last that another one is to end by? *)
TakenBy(d) ==
  robbed' = [x \in Drives |-> robbed[x] \/ (/\ x # d
                                           /\ at'[x] \in {"stopJoin", "exitJoin"}
                                           /\ listener'[x] \in Unreleased
                                           /\ signalled' = {})]

(* one of the threads that wait, of any process, or the next to wait        *)
SetEvent(e) ==
  LET waiting == {x \in Drives : listener[x] = "wait" /\ e \in mEvents[x]} IN
  IF waiting = {}
  THEN signalled' = signalled \cup {e} /\ UNCHANGED <<listener, robbed>>
  ELSE /\ UNCHANGED signalled
       /\ \E x \in waiting : listener' = [listener EXCEPT ![x] = e] /\ TakenBy(x)

------------------------------------------------------------------------------
(* SvcStart.  PreCreateFilesystem only fills in parameters.                 *)

(* the start fails, and SvcStart deletes the file system                    *)
Fails(d) == Goto(d, "deleteFs")

PtfsCreate(d) ==
  /\ at[d] = "create"
  /\ \/ Goto(d, "startDriver") /\ Makes(d, "fs")
     \/ Goto(d, "exitReport") /\ UNCHANGED alive
  /\ UNCHANGED <<served, calling, notif, clock, signalled>>

(* CSDriverBase::OnSvcStart fails before it has touched anything, or sets   *)
(* mRuntimeEnv, starts the listener and adds its IdleTask.  When an event   *)
(* cannot be made there is no listener thread, which goes unnoticed.        *)
StartDriver(d) ==
  /\ at[d] = "startDriver"
  /\ \/ Fails(d) /\ UNCHANGED <<alive, notif, clock>>
     \/ /\ Goto(d, "startDevice")
        /\ Makes(d, "driver")
        /\ mTasks' = [mTasks EXCEPT ![d] = {"driver"}]
        /\ \/ /\ mEvents' = [mEvents EXCEPT ![d] = Events]
              /\ listener' = [listener EXCEPT ![d] = "ready"]
           \/ /\ \E made \in {{}, {"report"}} : mEvents' = [mEvents EXCEPT ![d] = made]
              /\ UNCHANGED listener
        /\ UNCHANGED <<mEndThreadFlag, robbed, timer, running, mEndWorkerFlag>>
  /\ UNCHANGED <<served, calling, signalled>>

(* CSDeviceBase::OnSvcStart lists the buckets first, and sets its members   *)
(* only when that has worked                                                *)
StartDevice(d) ==
  /\ at[d] = "startDevice"
  /\ \/ Fails(d) /\ UNCHANGED <<alive, mTasks>>
     \/ /\ Goto(d, "startDelayed")
        /\ Makes(d, "device")
        /\ mTasks' = [mTasks EXCEPT ![d] = @ \cup {"device"}]
  /\ UNCHANGED <<served, calling, notif, timer, running, mEndWorkerFlag, signalled>>

StartDelayed(d) ==
  /\ at[d] = "startDelayed"
  /\ Goto(d, "startTimer")
  /\ Makes(d, "pool")
  /\ UNCHANGED <<served, calling, notif, clock, signalled>>

StartTimer(d) ==
  /\ at[d] = "startTimer"
  /\ Goto(d, "dispatch")
  /\ timer' = [timer EXCEPT ![d] = "wait"]
  /\ UNCHANGED <<served, alive, calling, notif, mTasks, running, mEndWorkerFlag, signalled>>

(* the option -C ends the start here, or the dispatcher does not start      *)
StartDispatcher(d) ==
  /\ at[d] = "dispatch"
  /\ \/ Fails(d) /\ UNCHANGED <<served, alive>>
     \/ /\ Goto(d, "serving")
        /\ Makes(d, "dispatcher")
        /\ served' = [served EXCEPT ![d] = TRUE]
  /\ UNCHANGED <<calling, notif, clock, signalled>>

------------------------------------------------------------------------------
(* Callbacks: the WinFsp handlers and what RelayXxx does with them          *)

Call(d) ==
  /\ at[d] = "serving" /\ ~calling[d]
  /\ calling' = [calling EXCEPT ![d] = TRUE]
  /\ UNCHANGED <<main, notif, clock, signalled>>

(* it works with the driver, the device and the pool until it returns       *)
Return(d) ==
  /\ calling[d]
  /\ IF {"driver", "device", "pool"} \subseteq alive[d]
     THEN /\ calling' = [calling EXCEPT ![d] = FALSE]
          /\ UNCHANGED <<main, notif, clock, signalled>>
     ELSE Crash(d)

------------------------------------------------------------------------------
(* SvcStop, and the destructors                                             *)

After == [stopReport |-> "stopClear", stopClear |-> "stopJoin", stopJoin |-> "stopDelayed",
          stopDelayed |-> "stopTimer", stopTimer |-> "stopJoinTimer", stopJoinTimer |-> "deleteFs",
          deleteFs |-> "exitReport", exitReport |-> "exitClear", exitClear |-> "exitJoin",
          exitJoin |-> "exitDriver", exitDriver |-> "exitTimer", exitTimer |-> "exitJoinTimer",
          exitJoinTimer |-> "exitDelayed", exitDelayed |-> "unload", unload |-> "ended"]

GoesOn(d) == Goto(d, After[at[d]])

(* the service is told to stop                                              *)
SvcStop(d) ==
  /\ at[d] = "serving"
  /\ Goto(d, "stopDispatcher")
  /\ UNCHANGED <<served, alive, calling, notif, clock, signalled>>

(* for comparison: callbacks are not waited for                             *)
StopsDispatcherAtOnce(d) ==
  /\ at[d] = "stopDispatcher"
  /\ GivesUp(d, "dispatcher")
  /\ Goto(d, "stopReport")
  /\ UNCHANGED <<served, calling, notif, clock, signalled>>

(* FspFileSystemStopDispatcher waits for the callbacks                      *)
StopDispatcher(d) ==
  /\ at[d] = "stopDispatcher" /\ ~calling[d]
  /\ GivesUp(d, "dispatcher")
  /\ Goto(d, "stopReport")
  /\ UNCHANGED <<served, calling, notif, clock, signalled>>

EventOf == [stopReport |-> "report", exitReport |-> "report", stopClear |-> "clear", exitClear |-> "clear"]

(* for comparison: both events first, then the flag                         *)
SignalsBeforeTheFlag(d) ==
  /\ at[d] \in DOMAIN EventOf
  /\ GoesOn(d)
  /\ IF EventOf[at[d]] = "report"
     THEN signalled' = signalled \cup mEvents[d] /\ UNCHANGED mEndThreadFlag
     ELSE mEndThreadFlag' = [mEndThreadFlag EXCEPT ![d] = TRUE] /\ UNCHANGED signalled
  /\ UNCHANGED <<served, alive, calling, listener, mEvents, robbed, clock>>

(* NotifListener::stop, from OnSvcStop or from its destructor: the flag,    *)
(* and one event after the other ...                                        *)
Signal(d) ==
  /\ at[d] \in DOMAIN EventOf
  /\ GoesOn(d)
  /\ mEndThreadFlag' = [mEndThreadFlag EXCEPT ![d] = TRUE]
  /\ IF EventOf[at[d]] \in mEvents[d]
     THEN SetEvent(EventOf[at[d]])
     ELSE UNCHANGED <<listener, signalled, robbed>>
  /\ UNCHANGED <<served, alive, calling, mEvents, clock>>

(* for comparison: the events stay set when the last handle is closed       *)
KeepsTheEvents(d) ==
  /\ at[d] \in {"stopJoin", "exitJoin"}
  /\ listener[d] \in {"none", "ended"}
  /\ listener' = [listener EXCEPT ![d] = "none"]
  /\ mEvents' = [mEvents EXCEPT ![d] = {}]
  /\ GoesOn(d)
  /\ UNCHANGED <<served, alive, calling, mEndThreadFlag, robbed, clock, signalled>>

(* ... and join, if there is a thread, and the handles                      *)
JoinListener(d) ==
  /\ at[d] \in {"stopJoin", "exitJoin"}
  /\ listener[d] \in {"none", "ended"}
  /\ listener' = [listener EXCEPT ![d] = "none"]
  /\ mEvents' = [mEvents EXCEPT ![d] = {}]
  /\ StillNamed(signalled)
  /\ GoesOn(d)
  /\ UNCHANGED <<served, alive, calling, mEndThreadFlag, robbed, clock>>

(* ScheduledWorker::OnSvcStop, from SvcStop or from its destructor          *)
StopTimer(d) ==
  /\ at[d] \in {"stopTimer", "exitTimer"}
  /\ mEndWorkerFlag' = [mEndWorkerFlag EXCEPT ![d] = (@ \/ timer[d] # "none")]
  /\ GoesOn(d)
  /\ UNCHANGED <<served, alive, calling, notif, timer, mTasks, running, signalled>>

JoinTimer(d) ==
  /\ at[d] \in {"stopJoinTimer", "exitJoinTimer"}
  /\ timer[d] \in {"none", "ended"}
  /\ timer' = [timer EXCEPT ![d] = "none"]
  /\ mTasks' = [mTasks EXCEPT ![d] = {}]
  /\ GoesOn(d)
  /\ UNCHANGED <<served, alive, calling, notif, running, mEndWorkerFlag, signalled>>

(* the part that goes in each of the other steps                            *)
Ends == [stopDelayed |-> "pool", deleteFs |-> "fs", exitDriver |-> "driver",
         exitDelayed |-> "pool", unload |-> "device"]

(* DelayedWorker::OnSvcStop, PtfsDelete, ~CSDriver, ~DelayedWorker and      *)
(* ~DllModule                                                               *)
GiveUp(d) ==
  /\ at[d] \in DOMAIN Ends
  /\ GivesUp(d, Ends[at[d]])
  /\ GoesOn(d)
  /\ UNCHANGED <<served, calling, notif, clock, signalled>>

------------------------------------------------------------------------------
(* NotifListener::listen                                                    *)

(* a tool finds the event by its name and sets it                           *)
Request(e) ==
  /\ \E d \in Drives : e \in mEvents[d]
  /\ UNCHANGED <<main, calling, mEvents, mEndThreadFlag, clock>>
  /\ SetEvent(e)

(* WaitForMultipleObjects takes the first of the events that are set, or    *)
(* waits for one                                                            *)
Wait(d) ==
  /\ listener[d] = "ready"
  /\ UNCHANGED <<main, calling, mEvents, mEndThreadFlag, clock>>
  /\ IF signalled \cap mEvents[d] = {}
     THEN listener' = [listener EXCEPT ![d] = "wait"] /\ UNCHANGED <<signalled, robbed>>
     ELSE LET e == IF "report" \in signalled \cap mEvents[d] THEN "report" ELSE "clear" IN
          /\ listener' = [listener EXCEPT ![d] = e]
          /\ signalled' = signalled \ {e}
          /\ TakenBy(d)

CheckFlag(d) ==
  /\ listener[d] \in Events
  /\ listener' = [listener EXCEPT ![d] =
                    IF mEndThreadFlag[d] THEN "ended"
                    ELSE IF @ = "report" THEN "onReport" ELSE "onClear"]
  /\ UNCHANGED <<main, calling, mEvents, mEndThreadFlag, robbed, clock, signalled>>

(* CSDriverBase::onNotif writes a report with the device's caches,          *)
(* CSDeviceBase::onNotif clears them and reloads the bucket list            *)
OnNotif(d) ==
  /\ listener[d] \in DOMAIN Uses
  /\ IF Uses[listener[d]] \subseteq alive[d]
     THEN /\ listener' = [listener EXCEPT ![d] = "ready"]
          /\ UNCHANGED <<main, calling, mEvents, mEndThreadFlag, robbed, clock, signalled>>
     ELSE Crash(d)

Listen(d) == Wait(d) \/ CheckFlag(d) \/ OnNotif(d)

------------------------------------------------------------------------------
(* ScheduledWorker::listen                                                  *)

(* Each minute, or at once when it is to stop, it goes through a copy of    *)
(* the tasks, on which the driver's IdleTask counts to ten before it does   *)
(* anything.                                                                *)
Tick(d) ==
  /\ timer[d] = "wait"
  /\ IF mEndWorkerFlag[d]
     THEN timer' = [timer EXCEPT ![d] = "ended"] /\ UNCHANGED running
     ELSE /\ timer' = [timer EXCEPT ![d] = "runs"]
          /\ running' = [running EXCEPT ![d] = mTasks[d]]
  /\ UNCHANGED <<main, calling, notif, mTasks, mEndWorkerFlag, signalled>>

(* CSDriverBase::onIdle deletes old cache files, CSDeviceBase::onTimer and  *)
(* onIdle old cache entries.  An owner that goes away while the list is     *)
(* gone through is missed at the end at the latest.                         *)
RunTasks(d) ==
  /\ timer[d] = "runs"
  /\ IF running[d] \subseteq alive[d]
     THEN /\ running' = [running EXCEPT ![d] = {}]
          /\ timer' = [timer EXCEPT ![d] = "wait"]
          /\ UNCHANGED <<main, calling, notif, mTasks, mEndWorkerFlag, signalled>>
     ELSE Crash(d)

TimerRuns(d) == Tick(d) \/ RunTasks(d)

------------------------------------------------------------------------------
Start(d) ==
  \/ PtfsCreate(d) \/ StartDriver(d) \/ StartDevice(d)
  \/ StartDelayed(d) \/ StartTimer(d) \/ StartDispatcher(d)

Leave(d) ==
  \/ StopDispatcher(d) \/ Signal(d) \/ JoinListener(d)
  \/ StopTimer(d) \/ JoinTimer(d) \/ GiveUp(d)

Next ==
  \/ \E d \in Drives :
       \/ AppMain(d) \/ Start(d) \/ SvcStop(d) \/ Leave(d)
       \/ Call(d) \/ Return(d)
       \/ Listen(d) \/ TimerRuns(d)
  \/ \E e \in Events : Request(e)

Spec == Init /\ [][Next]_vars

(* Every thread that can go on does: calls of the store have time limits.   *)
(* Nobody has to mount or unmount a drive, or to use one.                   *)
FairSpec ==
  /\ Spec
  /\ \A d \in Drives :
       /\ WF_vars(Start(d)) /\ WF_vars(Leave(d)) /\ WF_vars(Return(d))
       /\ WF_vars(Listen(d)) /\ WF_vars(TimerRuns(d))

------------------------------------------------------------------------------
(* Properties                                                               *)

(* A drive that has started never dies of using what is not there: neither  *)
(* a callback, a notification nor the timer's tasks run before the parts    *)
(* they use are made or after they are given up, all through the stop and   *)
(* the destructors (WinFsp_c.cpp SvcStop, main.cpp app_main).  A start that *)
(* is notified early or fails late has no such protection.                  *)
StaysUp == \A d \in Drives : at[d] = "crashed" => ~served[d]

Leaving(d) == at[d] \in Stopping \cup Exiting

(* A process that stops, or fails to start, ends, unless the listener of    *)
(* another drive takes the last of the events that were meant for its own:  *)
(* NotifListener::stop sets the flag before it sets any event, so that no   *)
(* notification in progress hides the end from the listener, and every      *)
(* join has a thread that ends.                                             *)
EndsUnlessRobbed == \A d \in Drives : Leaving(d) ~> (at[d] \in Gone \/ robbed[d])

(* A process that stops, or fails to start, ends: app_main promises to go   *)
(* on to the release of workers, DLL and logger.                            *)
EndsAlways == \A d \in Drives : Leaving(d) ~> at[d] \in Gone

==============================================================================
