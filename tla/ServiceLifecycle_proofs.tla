---------------------- MODULE ServiceLifecycle_proofs ----------------------
(***************************************************************************)
(* Proofs about the life of the drives' processes, for any number of them: *)
(* types, and that a drive which has started is never killed by the use of *)
(* a part that is not there.                                               *)
(***************************************************************************)
EXTENDS ServiceLifecycle, TLAPS

(* where NotifListener has no handles                                      *)
Unnotified == Gone \cup {"create", "startDriver", "exitDriver", "exitTimer",
                         "exitJoinTimer", "exitDelayed", "unload"}

Handles == \A d \in Drives : at[d] \in Unnotified => mEvents[d] = {}

TypeInv == TypeOK /\ Handles

(* A process has been served just while and after it serves; callbacks are *)
(* in progress only then, and until the dispatcher has stopped.            *)
Stages(d) ==
  /\ at[d] \in {"serving"} \cup Stopping => served[d]
  /\ served[d] => at[d] \notin Starting \cup {"off", "crashed"}
  /\ calling[d] => at[d] \in {"serving", "stopDispatcher"}

(* the parts that a start has made so far, and those that a stop still has *)
Made(d) ==
  /\ at[d] \in {"startDevice", "startDelayed", "startTimer", "dispatch"} => "driver" \in alive[d]
  /\ at[d] \in {"startDelayed", "startTimer", "dispatch"} => "device" \in alive[d]
  /\ at[d] \in {"startTimer", "dispatch"} => "pool" \in alive[d]

Kept(d) ==
  /\ at[d] \in {"serving"} \cup Stopping => {"driver", "device"} \subseteq alive[d]
  /\ at[d] \in {"serving", "stopDispatcher"} => "pool" \in alive[d]

(* the threads have ended when the destructors begin                       *)
Joined(d) ==
  served[d] =>
    /\ at[d] \in {"stopDelayed", "stopTimer", "stopJoinTimer", "ended"} \cup Exiting => listener[d] = "none"
    /\ at[d] \in {"ended"} \cup Exiting => timer[d] = "none"

Safe(d) == Stages(d) /\ Made(d) /\ Kept(d) /\ Joined(d)

Inv == TypeInv /\ \A d \in Drives : Safe(d)

------------------------------------------------------------------------------
LEMMA InitInv == Init => Inv
  BY DEF Init, Inv, TypeInv, TypeOK, Handles, Safe, Stages, Made, Kept, Joined,
         Starting, Stopping, Exiting, Gone, Events, Uses, Parts, Unnotified

(* A listener that is not waiting is left alone when an event is set; no    *)
(* other is brought to life.                                                *)
LEMMA SetEventReleases ==
  ASSUME TypeOK, NEW e \in Events, SetEvent(e), \E d \in Drives : e \in mEvents[d],
         mEvents' = mEvents
  PROVE  /\ listener' \in [Drives -> {"none", "ready", "wait", "ended"} \cup Events \cup DOMAIN Uses]
         /\ \A x \in Drives : listener[x] # "wait" => listener'[x] = listener[x]
         /\ robbed' \in [Drives -> BOOLEAN]
         /\ signalled' \subseteq UNION {mEvents'[d] : d \in Drives}
  <1> DEFINE waiting == {x \in Drives : listener[x] = "wait" /\ e \in mEvents[x]}
  <1>1. CASE waiting = {}
    BY <1>1 DEF SetEvent, TypeOK
  <1>2. CASE waiting # {}
    <2>1. PICK x \in waiting : listener' = [listener EXCEPT ![x] = e] /\ TakenBy(x)
      BY <1>2 DEF SetEvent
    <2>2. signalled' = signalled
      BY <1>2 DEF SetEvent
    <2> QED
      BY <2>1, <2>2 DEF TakenBy, TypeOK
  <1> QED
    BY <1>1, <1>2

------------------------------------------------------------------------------
(* A step of the start keeps every process safe.                           *)
LEMMA StartSafe ==
  ASSUME TypeOK, NEW d \in Drives, Safe(d), NEW x \in Drives, Safe(x), Start(d)
  PROVE  Safe(x)'
  <1> USE DEF TypeOK, Safe, Stages, Made, Kept, Joined, Starting, Stopping, Exiting, Gone, main, notif, clock
  <1>1. CASE PtfsCreate(d)
    BY <1>1 DEF PtfsCreate, Goto, Makes
  <1>2. CASE StartDriver(d)
    BY <1>2 DEF StartDriver, Goto, Fails, Makes
  <1>3. CASE StartDevice(d)
    BY <1>3 DEF StartDevice, Goto, Fails, Makes
  <1>4. CASE StartDelayed(d)
    BY <1>4 DEF StartDelayed, Goto, Makes
  <1>5. CASE StartTimer(d)
    BY <1>5 DEF StartTimer, Goto
  <1>6. CASE StartDispatcher(d)
    BY <1>6 DEF StartDispatcher, Goto, Fails, Makes
  <1> QED
    BY <1>1, <1>2, <1>3, <1>4, <1>5, <1>6 DEF Start

(* A step of the stop or of the destructors keeps every process safe.      *)
LEMMA LeaveSafe ==
  ASSUME TypeOK, NEW d \in Drives, Safe(d), NEW x \in Drives, Safe(x), Leave(d)
  PROVE  Safe(x)'
  <1> USE DEF TypeOK, Safe, Stages, Made, Kept, Joined, Starting, Stopping, Exiting, Gone, main, notif, clock
  <1>1. CASE StopDispatcher(d)
    BY <1>1 DEF StopDispatcher, Goto, GivesUp
  <1>2. CASE Signal(d)
    <2>1. ASSUME EventOf[at[d]] \in mEvents[d]
          PROVE  \A y \in Drives : listener[y] # "wait" => listener'[y] = listener[y]
      BY <1>2, <2>1, SetEventReleases DEF Signal, EventOf, Events
    <2>2. \A y \in Drives : listener[y] # "wait" => listener'[y] = listener[y]
      BY <1>2, <2>1 DEF Signal
    <2> QED
      BY <1>2, <2>2 DEF Signal, EventOf, GoesOn, Goto, After
  <1>3. CASE JoinListener(d)
    BY <1>3 DEF JoinListener, GoesOn, Goto, After
  <1>4. CASE StopTimer(d)
    BY <1>4 DEF StopTimer, GoesOn, Goto, After
  <1>5. CASE JoinTimer(d)
    BY <1>5 DEF JoinTimer, GoesOn, Goto, After
  <1>6. CASE GiveUp(d)
    BY <1>6 DEF GiveUp, GoesOn, Goto, After, GivesUp, Ends
  <1> QED
    BY <1>1, <1>2, <1>3, <1>4, <1>5, <1>6 DEF Leave

(* Mounting, unmounting and using a drive keep every process safe.         *)
LEMMA UserSafe ==
  ASSUME TypeOK, NEW d \in Drives, Safe(d), NEW x \in Drives, Safe(x), AppMain(d) \/ SvcStop(d) \/ Call(d) \/ Return(d)
  PROVE  Safe(x)'
  <1> USE DEF TypeOK, Safe, Stages, Made, Kept, Joined, Starting, Stopping, Exiting, Gone, main, notif, clock
  <1>1. CASE AppMain(d)
    BY <1>1 DEF AppMain, Goto
  <1>2. CASE SvcStop(d)
    BY <1>2 DEF SvcStop, Goto
  <1>3. CASE Call(d)
    BY <1>3 DEF Call
  <1>4. CASE Return(d)
    BY <1>4 DEF Return, Crash, Goto
  <1> QED
    BY <1>1, <1>2, <1>3, <1>4 DEF Start

(* The two threads beside the main thread keep every process safe.         *)
LEMMA ThreadSafe ==
  ASSUME TypeOK, NEW d \in Drives, Safe(d), NEW x \in Drives, Safe(x), Listen(d) \/ TimerRuns(d)
  PROVE  Safe(x)'
  <1> USE DEF TypeOK, Safe, Stages, Made, Kept, Joined, Starting, Stopping, Exiting, Gone, main, notif, clock
  <1>1. CASE Wait(d)
    BY <1>1 DEF Wait
  <1>2. CASE CheckFlag(d)
    BY <1>2 DEF CheckFlag, Events, Uses
  <1>3. CASE OnNotif(d)
    <2>1. Uses[listener[d]] \subseteq {"driver", "device"}
      BY <1>3 DEF OnNotif, Uses
    <2>2. served[d] => {"driver", "device"} \subseteq alive[d]
      BY <1>3 DEF OnNotif, Uses
    <2>3. CASE Uses[listener[d]] \subseteq alive[d]
      BY <1>3, <2>3 DEF OnNotif, Uses
    <2>4. CASE ~(Uses[listener[d]] \subseteq alive[d])
      BY <1>3, <2>1, <2>2, <2>4 DEF OnNotif, Crash, Goto
    <2> QED
      BY <2>3, <2>4
  <1>4. CASE Tick(d)
    BY <1>4 DEF Tick
  <1>5. CASE RunTasks(d)
    BY <1>5 DEF RunTasks, Crash, Goto
  <1> QED
    BY <1>1, <1>2, <1>3, <1>4, <1>5 DEF Listen, TimerRuns

------------------------------------------------------------------------------
(* Nothing that is set survives the handles it can be set through.          *)
LEMMA StillNamedFits ==
  ASSUME NEW set, StillNamed(set)
  PROVE  signalled' \subseteq UNION {mEvents'[d] : d \in Drives}
  BY DEF StillNamed

(* The processes' handles only grow in a step that changes no handle but    *)
(* those of a process that has none.                                        *)
LEMMA StillSet ==
  ASSUME TypeOK, NEW d \in Drives, mEvents[d] = {}, NEW made, mEvents' = [mEvents EXCEPT ![d] = made],
         signalled' = signalled
  PROVE  signalled' \subseteq UNION {mEvents'[x] : x \in Drives}
  <1>1. \A x \in Drives : mEvents[x] \subseteq mEvents'[x]
    BY DEF TypeOK
  <1> QED
    BY <1>1 DEF TypeOK

(* A process that dies leaves no handles.                                   *)
LEMMA CrashTypes ==
  ASSUME TypeInv, NEW d \in Drives, Crash(d)
  PROVE  TypeInv'
  <1> USE DEF TypeInv, TypeOK, Handles, Unnotified, Starting, Stopping, Exiting, Gone, Parts, main, notif, clock
  <1> QED
    BY StillNamedFits DEF Crash, Goto

(* A step of the start keeps the types.                                     *)
LEMMA StartTypes ==
  ASSUME TypeInv, NEW d \in Drives, Start(d)
  PROVE  TypeInv'
  <1> USE DEF TypeInv, TypeOK, Handles, Unnotified, Starting, Stopping, Exiting, Gone, Parts, main, notif, clock
  <1>1. CASE PtfsCreate(d)
    BY <1>1 DEF PtfsCreate, Goto, Makes
  <1>2. CASE StartDriver(d)
    <2>1. CASE UNCHANGED mEvents
      BY <1>2, <2>1 DEF StartDriver, Goto, Fails, Makes
    <2>2. ASSUME NEW made \in SUBSET Events, mEvents' = [mEvents EXCEPT ![d] = made]
          PROVE  TypeInv'
      <3>1. signalled' \subseteq UNION {mEvents'[x] : x \in Drives}
        BY <1>2, <2>2, StillSet DEF StartDriver
      <3> QED
        BY <1>2, <2>2, <3>1 DEF StartDriver, Goto, Fails, Makes
    <2> QED
      BY <1>2, <2>1, <2>2 DEF StartDriver, Events
  <1>3. CASE StartDevice(d)
    BY <1>3 DEF StartDevice, Goto, Fails, Makes
  <1>4. CASE StartDelayed(d)
    BY <1>4 DEF StartDelayed, Goto, Makes
  <1>5. CASE StartTimer(d)
    BY <1>5 DEF StartTimer, Goto
  <1>6. CASE StartDispatcher(d)
    <2>1. served' \in [Drives -> BOOLEAN]
      BY <1>6 DEF StartDispatcher
    <2> QED
      BY <1>6, <2>1 DEF StartDispatcher, Goto, Fails, Makes
  <1> QED
    BY <1>1, <1>2, <1>3, <1>4, <1>5, <1>6 DEF Start

(* A step of the stop or of the destructors keeps the types.                *)
LEMMA LeaveTypes ==
  ASSUME TypeInv, NEW d \in Drives, Leave(d)
  PROVE  TypeInv'
  <1> USE DEF TypeInv, TypeOK, Handles, Unnotified, Starting, Stopping, Exiting, Gone, Parts, main, notif, clock
  <1>1. CASE StopDispatcher(d)
    BY <1>1 DEF StopDispatcher, Goto, GivesUp
  <1>2. CASE Signal(d)
    <2>1. CASE EventOf[at[d]] \in mEvents[d]
      <3>1. SetEvent(EventOf[at[d]]) /\ EventOf[at[d]] \in Events /\ mEvents' = mEvents
        BY <1>2, <2>1 DEF Signal, EventOf, Events
      <3> HIDE DEF TypeOK
      <3>2. /\ listener' \in [Drives -> {"none", "ready", "wait", "ended"} \cup Events \cup DOMAIN Uses]
            /\ robbed' \in [Drives -> BOOLEAN]
            /\ signalled' \subseteq UNION {mEvents'[x] : x \in Drives}
        BY <2>1, <3>1, SetEventReleases DEF TypeInv
      <3> USE DEF TypeOK
      <3>3. mEndThreadFlag' \in [Drives -> BOOLEAN]
        BY <1>2 DEF Signal
      <3> QED
        BY <1>2, <3>2, <3>3 DEF Signal, EventOf, GoesOn, Goto, After
    <2>2. CASE EventOf[at[d]] \notin mEvents[d]
      BY <1>2, <2>2 DEF Signal, EventOf, GoesOn, Goto, After
    <2> QED
      BY <2>1, <2>2
  <1>3. CASE JoinListener(d)
    BY <1>3, StillNamedFits DEF JoinListener, GoesOn, Goto, After
  <1>4. CASE StopTimer(d)
    BY <1>4 DEF StopTimer, GoesOn, Goto, After
  <1>5. CASE JoinTimer(d)
    BY <1>5 DEF JoinTimer, GoesOn, Goto, After
  <1>6. CASE GiveUp(d)
    BY <1>6 DEF GiveUp, GoesOn, Goto, After, GivesUp, Ends
  <1> QED
    BY <1>1, <1>2, <1>3, <1>4, <1>5, <1>6 DEF Leave

(* Mounting, unmounting and using a drive keep the types.                   *)
LEMMA UserTypes ==
  ASSUME TypeInv, NEW d \in Drives, AppMain(d) \/ SvcStop(d) \/ Call(d) \/ Return(d)
  PROVE  TypeInv'
  <1> USE DEF TypeInv, TypeOK, Handles, Unnotified, Starting, Stopping, Exiting, Gone, Parts, main, notif, clock
  <1>1. CASE AppMain(d)
    BY <1>1 DEF AppMain, Goto
  <1>2. CASE SvcStop(d)
    BY <1>2 DEF SvcStop, Goto
  <1>3. CASE Call(d)
    BY <1>3 DEF Call
  <1>4. CASE Return(d)
    <2>1. CASE Crash(d)
      BY <2>1, CrashTypes
    <2>2. CASE ~Crash(d)
      <3>1. calling' \in [Drives -> BOOLEAN] /\ UNCHANGED <<main, notif, clock, signalled>>
        BY <1>4, <2>2 DEF Return
      <3> QED
        BY <3>1
    <2> QED
      BY <2>1, <2>2
  <1> QED
    BY <1>1, <1>2, <1>3, <1>4 DEF Start

(* The two threads beside the main thread keep the types.                   *)
LEMMA ThreadTypes ==
  ASSUME TypeInv, NEW d \in Drives, Listen(d) \/ TimerRuns(d)
  PROVE  TypeInv'
  <1> USE DEF TypeInv, TypeOK, Handles, Unnotified, Starting, Stopping, Exiting, Gone, Parts, main, notif, clock
  <1>1. CASE Wait(d)
    <2>1. CASE signalled \cap mEvents[d] = {}
      BY <1>1, <2>1 DEF Wait
    <2>2. CASE signalled \cap mEvents[d] # {}
      <3>1. PICK e \in Events : listener' = [listener EXCEPT ![d] = e] /\ signalled' = signalled \ {e} /\ TakenBy(d)
        BY <1>1, <2>2 DEF Wait, Events
      <3> QED
        BY <1>1, <3>1 DEF Wait, TakenBy
    <2> QED
      BY <2>1, <2>2
  <1>2. CASE CheckFlag(d)
    BY <1>2 DEF CheckFlag, Uses, Events
  <1>3. CASE OnNotif(d)
    <2>1. CASE Crash(d)
      BY <2>1, CrashTypes
    <2>2. CASE ~Crash(d)
      BY <1>3, <2>2 DEF OnNotif
    <2> QED
      BY <2>1, <2>2
  <1>4. CASE Tick(d)
    BY <1>4 DEF Tick
  <1>5. CASE RunTasks(d)
    <2>1. CASE Crash(d)
      BY <2>1, CrashTypes
    <2>2. CASE ~Crash(d)
      BY <1>5, <2>2 DEF RunTasks
    <2> QED
      BY <2>1, <2>2
  <1> QED
    BY <1>1, <1>2, <1>3, <1>4, <1>5 DEF Listen, TimerRuns

(* So does a tool that sets an event, and it keeps every process safe.      *)
LEMMA RequestKeeps ==
  ASSUME TypeInv, NEW e \in Events, Request(e)
  PROVE  TypeInv' /\ \A x \in Drives : Safe(x) => Safe(x)'
  <1>1. /\ listener' \in [Drives -> {"none", "ready", "wait", "ended"} \cup Events \cup DOMAIN Uses]
        /\ \A x \in Drives : listener[x] # "wait" => listener'[x] = listener[x]
        /\ robbed' \in [Drives -> BOOLEAN]
        /\ signalled' \subseteq UNION {mEvents'[d] : d \in Drives}
    BY SetEventReleases DEF TypeInv, Request
  <1>2. TypeInv'
    BY <1>1 DEF Request, TypeInv, TypeOK, Handles, main, clock
  <1>3. ASSUME NEW x \in Drives, Safe(x)
        PROVE  Safe(x)'
    BY <1>1, <1>3 DEF Request, Safe, Stages, Made, Kept, Joined, main, clock
  <1> QED
    BY <1>2, <1>3

LEMMA NextInv == Inv /\ [Next]_vars => Inv'
  <1> SUFFICES ASSUME Inv, [Next]_vars
               PROVE  Inv'
    OBVIOUS
  <1>1. ASSUME NEW d \in Drives, Start(d)
        PROVE  Inv'
    BY <1>1, StartTypes, StartSafe DEF Inv, TypeInv
  <1>2. ASSUME NEW d \in Drives, Leave(d)
        PROVE  Inv'
    BY <1>2, LeaveTypes, LeaveSafe DEF Inv, TypeInv
  <1>3. ASSUME NEW d \in Drives, AppMain(d) \/ SvcStop(d) \/ Call(d) \/ Return(d)
        PROVE  Inv'
    BY <1>3, UserTypes, UserSafe DEF Inv, TypeInv
  <1>4. ASSUME NEW d \in Drives, Listen(d) \/ TimerRuns(d)
        PROVE  Inv'
    BY <1>4, ThreadTypes, ThreadSafe DEF Inv, TypeInv
  <1>5. ASSUME NEW e \in Events, Request(e)
        PROVE  Inv'
    BY <1>5, RequestKeeps DEF Inv
  <1>6. CASE UNCHANGED vars
    BY <1>6 DEF vars, main, notif, clock, Inv, TypeInv, TypeOK, Handles, Safe, Stages, Made, Kept, Joined
  <1> QED
    BY <1>1, <1>2, <1>3, <1>4, <1>5, <1>6 DEF Next

(* The handles, flags and threads of every process have their types, and a *)
(* named event is set only while some process has a handle of it.           *)
THEOREM TypeCorrect == Spec => []TypeOK
  <1>1. Inv => TypeOK
    BY DEF Inv, TypeInv
  <1> QED
    BY <1>1, InitInv, NextInv, PTL DEF Spec

(* However many drives are mounted, started, notified and stopped at the    *)
(* same time: once a drive has started, no callback, notification or timed  *)
(* task of it uses a part that is not made yet or already given up, up to   *)
(* the end of its process (WinFsp_c.cpp SvcStop, main.cpp app_main).        *)
THEOREM StaysUpTheorem == Spec => []StaysUp
  <1>1. Inv => StaysUp
    BY DEF Inv, Safe, Stages, StaysUp
  <1> QED
    BY <1>1, InitInv, NextInv, PTL DEF Spec

==============================================================================
