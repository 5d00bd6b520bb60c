---------------------------- MODULE DelayedWorker ----------------------------
(***************************************************************************)
(* The pool of I/O threads (DelayedWorker.cpp) that downloads and uploads  *)
(* the parts of large objects.                                             *)
(*                                                                         *)
(* All threads wait on one auto-reset event.  addTypedTask pushes a task   *)
(* and sets the event under mGuard; a thread that is woken takes tasks     *)
(* until the queue is empty and waits again.  OnSvcStop raises a flag,     *)
(* sets the event once for each thread and joins them.  The flag and the   *)
(* event are outside mGuard, so the three interleave freely.               *)
(***************************************************************************)
EXTENDS Integers, Sequences, FiniteSets

CONSTANTS
  Workers,  (* the threads that OnSvcStart creates (file_io_threads)        *)
  Tasks,    (* the tasks ever added                                         *)
  Awaited,  (* tasks whose creator waits for their result, as the download  *)
            (* and upload of parts do inside a file-system callback         *)
  Late,     (* tasks added with no regard for OnSvcStop: addTypedTask says  *)
            (* that this should not happen, and checks for it               *)
  NULL

ASSUME WorkersFinite == IsFiniteSet(Workers) /\ Workers # {}
ASSUME TasksFinite == IsFiniteSet(Tasks)
ASSUME TaskKinds == Awaited \subseteq Tasks /\ Late \subseteq Tasks \ Awaited
ASSUME NullIsNothing == NULL \notin Workers \cup Tasks

VARIABLES
  mTaskQueue,      (* the queue                                             *)
  mEvent,          (* the auto-reset event                                  *)
  mEndWorkerFlag,
  mThreads,        (* the threads created and not yet joined                *)
  pc,              (* pc[w]: where thread w is                              *)
  holding,         (* holding[w]: the task w has taken from the queue       *)
  task,            (* task[k]: what has become of task k                    *)
  adding,          (* the task in addTypedTask, whose caller holds mGuard   *)
  svc,             (* how far the service's start or stop has come          *)
  signals          (* SetEvent calls made so far by OnSvcStop's loop        *)

pool == <<mEvent, pc>>
vars == <<mTaskQueue, mEvent, mEndWorkerFlag, mThreads, pc, holding, task,
          adding, svc, signals>>

Locations  == {"off", "loop", "waiting", "woken", "drain", "run", "cancel",
               "cancelling", "exit"}
TaskStates == {"new", "queued", "running", "done", "cancelled", "destroyed"}
Stages     == {"starting", "up", "signal", "join", "clear", "stopped"}

TypeOK ==
  /\ mTaskQueue \in Seq(Tasks)
  /\ mEvent \in BOOLEAN
  /\ mEndWorkerFlag \in BOOLEAN
  /\ mThreads \subseteq Workers
  /\ pc \in [Workers -> Locations]
  /\ holding \in [Workers -> Tasks \cup {NULL}]
  /\ task \in [Tasks -> TaskStates]
  /\ adding \in Tasks \cup {NULL}
  /\ svc \in Stages
  /\ signals \in 0 .. Cardinality(Workers)

Init ==
  /\ mTaskQueue = <<>>
  /\ mEvent = FALSE
  /\ mEndWorkerFlag = FALSE
  /\ mThreads = {}
  /\ pc = [w \in Workers |-> "off"]
  /\ holding = [w \in Workers |-> NULL]
  /\ task = [k \in Tasks |-> "new"]
  /\ adding = NULL
  /\ svc = "starting"
  /\ signals = 0

------------------------------------------------------------------------------
(* An auto-reset event: SetEvent releases one waiting thread or, when none  *)
(* waits, is remembered for the next one; a second SetEvent adds nothing.   *)
SetEvent ==
  IF \E w \in Workers : pc[w] = "waiting"
  THEN /\ \E w \in Workers : /\ pc[w] = "waiting"
                             /\ pc' = [pc EXCEPT ![w] = "woken"]
       /\ UNCHANGED mEvent
  ELSE mEvent' = TRUE /\ UNCHANGED pc

------------------------------------------------------------------------------
(* OnSvcStart creates the threads one after the other, waiting for each     *)
(* to reach listen.                                                         *)
OnSvcStart ==
  /\ svc = "starting"
  /\ \E w \in Workers \ mThreads :
        /\ mThreads' = mThreads \cup {w}
        /\ pc' = [pc EXCEPT ![w] = "loop"]
        /\ svc' = IF mThreads' = Workers THEN "up" ELSE "starting"
  /\ UNCHANGED <<mTaskQueue, mEvent, mEndWorkerFlag, holding, task, adding,
                 signals>>

(* addTypedTask under mGuard: refuse a task once the flag is up ...         *)
AddTypedTask(k) ==
  /\ task[k] = "new" /\ adding = NULL
  /\ svc = "up" \/ (k \in Late /\ svc # "starting")
  /\ IF mEndWorkerFlag
     THEN task' = [task EXCEPT ![k] = "cancelled"] /\ UNCHANGED adding
     ELSE adding' = k /\ UNCHANGED task
  /\ UNCHANGED <<mTaskQueue, mEvent, mEndWorkerFlag, mThreads, pc, holding,
                 svc, signals>>

(* pushes without a signal                                                  *)
ForgetsToSignal ==
  /\ adding # NULL
  /\ mTaskQueue' = Append(mTaskQueue, adding)
  /\ task' = [task EXCEPT ![adding] = "queued"]
  /\ adding' = NULL
  /\ UNCHANGED <<pool, mEndWorkerFlag, mThreads, holding, svc, signals>>

(* ... else push it, set the event and release mGuard                       *)
Push ==
  /\ adding # NULL
  /\ mTaskQueue' = Append(mTaskQueue, adding)
  /\ task' = [task EXCEPT ![adding] = "queued"]
  /\ adding' = NULL
  /\ SetEvent
  /\ UNCHANGED <<mEndWorkerFlag, mThreads, holding, svc, signals>>

------------------------------------------------------------------------------
(* the worker threads                                                       *)

Goto(w, there) == pc' = [pc EXCEPT ![w] = there]

(* WaitForSingleObject(mEvent, INFINITE): take a set event or sleep         *)
Wait(w) ==
  /\ pc[w] = "loop"
  /\ Goto(w, IF mEvent THEN "woken" ELSE "waiting")
  /\ mEvent' = FALSE
  /\ UNCHANGED <<mTaskQueue, mEndWorkerFlag, mThreads, holding, task, adding,
                 svc, signals>>

(* the thread that leaves the loop exits with the queue as it is            *)
LeavesTheQueue(w) ==
  /\ pc[w] = "woken"
  /\ Goto(w, IF mEndWorkerFlag THEN "exit" ELSE "drain")
  /\ UNCHANGED <<mTaskQueue, mEvent, mEndWorkerFlag, mThreads, holding, task,
                 adding, svc, signals>>

(* after the wait: leave the loop if the service is stopping                *)
CheckFlag(w) ==
  /\ pc[w] = "woken"
  /\ Goto(w, IF mEndWorkerFlag THEN "cancel" ELSE "drain")
  /\ UNCHANGED <<mTaskQueue, mEvent, mEndWorkerFlag, mThreads, holding, task,
                 adding, svc, signals>>

(* front() without pop_front()                                              *)
ForgetsToPop(w) ==
  /\ pc[w] \in {"drain", "cancel"} /\ adding = NULL
  /\ IF mTaskQueue = <<>>
     THEN /\ Goto(w, IF pc[w] = "drain" THEN "loop" ELSE "exit")
          /\ UNCHANGED <<mTaskQueue, holding, task>>
     ELSE /\ Goto(w, IF pc[w] = "drain" THEN "run" ELSE "cancelling")
          /\ holding' = [holding EXCEPT ![w] = Head(mTaskQueue)]
          /\ task' = [task EXCEPT ![Head(mTaskQueue)] = "running"]
          /\ UNCHANGED mTaskQueue
  /\ UNCHANGED <<mEvent, mEndWorkerFlag, mThreads, adding, svc, signals>>

(* dequeueTask under mGuard, from either loop of listen: take the first     *)
(* task, or go on when there is none                                        *)
Dequeue(w) ==
  /\ pc[w] \in {"drain", "cancel"} /\ adding = NULL
  /\ IF mTaskQueue = <<>>
     THEN /\ Goto(w, IF pc[w] = "drain" THEN "loop" ELSE "exit")
          /\ UNCHANGED <<mTaskQueue, holding, task>>
     ELSE /\ Goto(w, IF pc[w] = "drain" THEN "run" ELSE "cancelling")
          /\ holding' = [holding EXCEPT ![w] = Head(mTaskQueue)]
          /\ task' = [task EXCEPT ![Head(mTaskQueue)] = "running"]
          /\ mTaskQueue' = Tail(mTaskQueue)
  /\ UNCHANGED <<mEvent, mEndWorkerFlag, mThreads, adding, svc, signals>>

(* one task for each wake-up                                                *)
RunsOneTask(w) ==
  /\ pc[w] \in {"run", "cancelling"}
  /\ Goto(w, IF pc[w] = "run" THEN "loop" ELSE "cancel")
  /\ task' = [task EXCEPT ![holding[w]] =
                 IF pc[w] = "run" THEN "done" ELSE "cancelled"]
  /\ holding' = [holding EXCEPT ![w] = NULL]
  /\ UNCHANGED <<mTaskQueue, mEvent, mEndWorkerFlag, mThreads, adding, svc,
                 signals>>

(* task->run(), whose exceptions are caught, or task->cancelled(); then the *)
(* same loop again                                                          *)
EndTask(w) ==
  /\ pc[w] \in {"run", "cancelling"}
  /\ Goto(w, IF pc[w] = "run" THEN "drain" ELSE "cancel")
  /\ task' = [task EXCEPT ![holding[w]] =
                 IF pc[w] = "run" THEN "done" ELSE "cancelled"]
  /\ holding' = [holding EXCEPT ![w] = NULL]
  /\ UNCHANGED <<mTaskQueue, mEvent, mEndWorkerFlag, mThreads, adding, svc,
                 signals>>

------------------------------------------------------------------------------
(* OnSvcStop.  WinFsp has stopped its dispatcher by then: no callback runs, *)
(* so none is in addTypedTask or waiting for a task.                        *)
OnSvcStop ==
  /\ svc = "up" /\ mThreads # {}
  /\ adding \in Late \cup {NULL}
  /\ \A k \in Awaited : task[k] \in {"new", "done"}
  /\ mEndWorkerFlag' = TRUE
  /\ svc' = "signal"
  /\ UNCHANGED <<mTaskQueue, mEvent, mThreads, pc, holding, task, adding,
                 signals>>

(* i <= mThreads.size()                                                     *)
SignalsOnceMore ==
  /\ svc = "signal" /\ signals <= Cardinality(mThreads)
  /\ SetEvent
  /\ signals' = signals + 1
  /\ svc' = IF signals = Cardinality(mThreads) THEN "join" ELSE "signal"
  /\ UNCHANGED <<mTaskQueue, mEndWorkerFlag, mThreads, holding, task, adding>>

(* SetEvent, as many times as there are threads                             *)
Signal ==
  /\ svc = "signal" /\ signals < Cardinality(mThreads)
  /\ SetEvent
  /\ signals' = signals + 1
  /\ svc' = IF signals' = Cardinality(mThreads) THEN "join" ELSE "signal"
  /\ UNCHANGED <<mTaskQueue, mEndWorkerFlag, mThreads, holding, task, adding>>

(* join every thread, then forget them                                      *)
Join ==
  /\ svc = "join" /\ \A w \in mThreads : pc[w] = "exit"
  /\ mThreads' = {}
  /\ svc' = "clear"
  /\ UNCHANGED <<mTaskQueue, pool, mEndWorkerFlag, holding, task, adding,
                 signals>>

(* mTaskQueue.clear(), without mGuard: what is left is destroyed, neither   *)
(* run nor cancelled.  The destructor calls OnSvcStop again, which finds no *)
(* thread and only clears.                                                  *)
Clear ==
  /\ svc = "clear" \/ (svc = "stopped" /\ mTaskQueue # <<>>)
  /\ task' = [k \in Tasks |-> IF task[k] = "queued" THEN "destroyed"
                             ELSE task[k]]
  /\ mTaskQueue' = <<>>
  /\ svc' = "stopped"
  /\ UNCHANGED <<pool, mEndWorkerFlag, mThreads, holding, adding, signals>>

Work(w) == Wait(w) \/ CheckFlag(w) \/ Dequeue(w) \/ EndTask(w)

Next ==
  \/ OnSvcStart
  \/ \E k \in Tasks : AddTypedTask(k)
  \/ Push
  \/ \E w \in Workers : Work(w)
  \/ OnSvcStop \/ Signal \/ Join \/ Clear

Spec == Init /\ [][Next]_vars

(* Every thread of the process is scheduled, a task's requests to the store *)
(* time out, and OnSvcStop runs on once it is called.  Nothing obliges      *)
(* anyone to add a task or to stop the service.                             *)
Fairness ==
  /\ \A w \in Workers : WF_vars(Work(w))
  /\ WF_vars(Push)
  /\ WF_vars(OnSvcStart)
  /\ WF_vars(Signal) /\ WF_vars(Join) /\ WF_vars(Clear)

FairSpec == Spec /\ Fairness

------------------------------------------------------------------------------
(* Properties                                                               *)

(* A task belongs to one place: a queued task is in the queue, once, and a  *)
(* task being run or cancelled is in the hands of exactly one thread, so no *)
(* part is transferred twice (dequeueTask moves the pointer out).           *)
OnePlace ==
  /\ \A i, j \in DOMAIN mTaskQueue : i # j => mTaskQueue[i] # mTaskQueue[j]
  /\ \A k \in Tasks :
        /\ task[k] = "queued" <=> \E i \in DOMAIN mTaskQueue : mTaskQueue[i] = k
        /\ task[k] = "running" <=> \E w \in Workers : holding[w] = k
  /\ \A v, w \in Workers : holding[v] = holding[w] /\ v # w => holding[v] = NULL

Busy(w)  == pc[w] \in {"woken", "drain", "run", "cancel", "cancelling"}
Alert    == mEvent \/ \E w \in Workers : Busy(w)

(* No wake-up is lost: while a task waits in the queue, the event is set or *)
(* some thread is awake and will look at the queue again before it waits,   *)
(* although several tasks may be announced by one event (addTypedTask       *)
(* pushes before it sets; listen drains before it waits).                   *)
NoLostWakeup ==
  mTaskQueue # <<>> => Alert \/ \A w \in mThreads : pc[w] = "exit"

(* What OnSvcStop finds queued is cancelled by the threads before they end: *)
(* only a task that was pushed after they left is destroyed by clear.       *)
NothingLeftBehind ==
  \A k \in Tasks : task[k] = "destroyed" => k \in Late

(* Every task that is queued ends, whatever the service does meanwhile.     *)
TaskEnds ==
  \A k \in Tasks :
    task[k] = "queued" ~> task[k] \in {"done", "cancelled", "destroyed"}

(* OnSvcStop returns: the threads all end, so that the workers can be       *)
(* released, the device's DLL unloaded and the log closed, in the order     *)
(* main.cpp:165-177 lays down.                                              *)
StopReturns == svc = "signal" ~> svc = "stopped"

==============================================================================
