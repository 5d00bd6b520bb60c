------------------------ MODULE DelayedWorker_proofs ------------------------
(***************************************************************************)
(* Proofs about the DelayedWorker pool, for any number of threads and      *)
(* tasks: types, the places of a task, no lost wake-up, and what is left   *)
(* in the queue when the service has stopped.                              *)
(***************************************************************************)
EXTENDS DelayedWorker, FiniteSetTheorems, TLAPS

Stopped == {"clear", "stopped"}

(* the stages of the service, the flag and the threads go together; before *)
(* the service is up nobody adds a task                                    *)
Lifecycle ==
  /\ svc = "starting" => mTaskQueue = <<>> /\ adding = NULL
  /\ svc \in {"up", "signal", "join"} => mThreads = Workers
  /\ svc \notin Stopped => \A w \in Workers : pc[w] = "off" <=> w \notin mThreads
  /\ svc \in Stopped => mThreads = {} /\ \A w \in Workers : pc[w] = "exit"
  /\ mEndWorkerFlag <=> svc \notin {"starting", "up"}

(* a thread holds a task just while it runs or cancels it; the task being  *)
(* added is in nobody's hands                                              *)
Hands ==
  /\ \A w \in Workers : holding[w] # NULL <=> pc[w] \in {"run", "cancelling"}
  /\ adding # NULL => task[adding] = "new"

(* Only when the flag is up does a thread leave its loop, and only a late  *)
(* caller is then still in addTypedTask.  A thread that has ended saw an   *)
(* empty queue, so what is in it was pushed later.                         *)
Leaving ==
  /\ \A w \in Workers : pc[w] \in {"cancel", "cancelling", "exit"} => mEndWorkerFlag
  /\ mEndWorkerFlag => adding \in Late \cup {NULL}
  /\ (\E w \in Workers : pc[w] = "exit") =>
        \A i \in DOMAIN mTaskQueue : mTaskQueue[i] \in Late

Inv ==
  /\ TypeOK
  /\ Lifecycle
  /\ Hands
  /\ OnePlace
  /\ NoLostWakeup
  /\ Leaving
  /\ NothingLeftBehind

------------------------------------------------------------------------------
(* SetEvent leaves the event set or a thread awake, and moves only a       *)
(* waiting thread.                                                         *)
LEMMA SetEventAlerts ==
  ASSUME TypeOK, SetEvent
  PROVE  /\ mEvent' \in BOOLEAN /\ pc' \in [Workers -> Locations]
         /\ Alert'
         /\ \A w \in Workers :
              pc'[w] # pc[w] => pc[w] = "waiting" /\ pc'[w] = "woken"
  <1>1. CASE \E w \in Workers : pc[w] = "waiting"
    <2>1. PICK w \in Workers : pc[w] = "waiting" /\ pc' = [pc EXCEPT ![w] = "woken"]
      BY <1>1 DEF SetEvent
    <2>2. mEvent' = mEvent
      BY <1>1 DEF SetEvent
    <2> QED
      BY <2>1, <2>2 DEF TypeOK, Locations, Alert, Busy
  <1>2. CASE ~ \E w \in Workers : pc[w] = "waiting"
    BY <1>2 DEF SetEvent, TypeOK, Alert
  <1> QED
    BY <1>1, <1>2

(* Every step keeps the types.                                             *)
LEMMA TypesKept ==
  ASSUME Inv, [Next]_vars
  PROVE  TypeOK'
  <1>0. TypeOK /\ Lifecycle /\ Hands /\ IsFiniteSet(Workers) /\ NULL \notin Tasks
    BY WorkersFinite, NullIsNothing DEF Inv
  <1>1. CASE OnSvcStart
    BY <1>1, <1>0 DEF OnSvcStart, TypeOK, Locations, TaskStates, Stages, Goto, pool
  <1>2. ASSUME NEW k \in Tasks, AddTypedTask(k) PROVE TypeOK'
    BY <1>2, <1>0 DEF AddTypedTask, TypeOK, Locations, TaskStates, Stages, Goto, pool
  <1>3. CASE Push
    BY <1>3, <1>0, SetEventAlerts DEF Push, TypeOK, TaskStates
  <1>4. ASSUME NEW w \in Workers, Wait(w) PROVE TypeOK'
    BY <1>4, <1>0 DEF Wait, TypeOK, Locations, TaskStates, Stages, Goto, pool
  <1>5. ASSUME NEW w \in Workers, CheckFlag(w) PROVE TypeOK'
    BY <1>5, <1>0 DEF CheckFlag, TypeOK, Locations, TaskStates, Stages, Goto, pool
  <1>6. ASSUME NEW w \in Workers, Dequeue(w) PROVE TypeOK'
    <2>1. CASE mTaskQueue = <<>>
      BY <1>6, <1>0, <2>1 DEF Dequeue, TypeOK, Locations, Goto
    <2>2. CASE mTaskQueue # <<>>
      <3>1. Head(mTaskQueue) \in Tasks /\ Tail(mTaskQueue) \in Seq(Tasks)
        BY <1>0, <2>2 DEF TypeOK
      <3> QED
        BY <1>6, <1>0, <2>2, <3>1 DEF Dequeue, TypeOK, Locations, TaskStates, Goto
    <2> QED
      BY <2>1, <2>2
  <1>7. ASSUME NEW w \in Workers, EndTask(w) PROVE TypeOK'
    <2>1. holding[w] \in Tasks
      BY <1>7, <1>0 DEF EndTask, TypeOK, Hands
    <2> QED
      BY <1>7, <1>0, <2>1 DEF EndTask, TypeOK, Locations, TaskStates, Goto
  <1>8. CASE OnSvcStop
    BY <1>8, <1>0 DEF OnSvcStop, TypeOK, Locations, TaskStates, Stages, Goto, pool
  <1>9. CASE Signal
    <2>1. mThreads = Workers /\ Cardinality(Workers) \in Nat
      BY <1>9, <1>0, FS_CardinalityType DEF Signal, Lifecycle
    <2>2. signals' \in 0 .. Cardinality(Workers)
      BY <1>9, <1>0, <2>1 DEF Signal, TypeOK
    <2> QED
      BY <1>9, <1>0, <2>2, SetEventAlerts DEF Signal, TypeOK, Stages
  <1>10. CASE Join
    BY <1>10, <1>0 DEF Join, TypeOK, Locations, TaskStates, Stages, Goto, pool
  <1>11. CASE Clear
    BY <1>11, <1>0 DEF Clear, TypeOK, Locations, TaskStates, Stages, Goto, pool
  <1>12. CASE UNCHANGED vars
    BY <1>0, <1>12 DEF vars, TypeOK, Locations, TaskStates, Stages
  <1> QED
    BY <1>1, <1>2, <1>3, <1>4, <1>5, <1>6, <1>7, <1>8, <1>9, <1>10, <1>11, <1>12 DEF Next, Work

(* Every step keeps stages, flag and threads together.                     *)
LEMMA LifecycleKept ==
  ASSUME Inv, [Next]_vars
  PROVE  Lifecycle'
  <1>0. TypeOK /\ Lifecycle /\ Leaving /\ Workers # {}
    BY WorkersFinite DEF Inv
  <1>1. CASE OnSvcStart
    BY <1>1, <1>0 DEF OnSvcStart, TypeOK, Lifecycle, Stopped, Goto, pool
  <1>2. ASSUME NEW k \in Tasks, AddTypedTask(k) PROVE Lifecycle'
    BY <1>2, <1>0 DEF AddTypedTask, TypeOK, Lifecycle, Stopped, Goto, pool
  <1>3. CASE Push
    <2>1. svc # "starting"
      BY <1>3, <1>0 DEF Push, Lifecycle
    <2> QED
      BY <1>3, <1>0, <2>1, SetEventAlerts DEF Push, TypeOK, Lifecycle, Stopped
  <1>4. ASSUME NEW w \in Workers, Wait(w) PROVE Lifecycle'
    BY <1>4, <1>0 DEF Wait, TypeOK, Lifecycle, Stopped, Goto, pool
  <1>5. ASSUME NEW w \in Workers, CheckFlag(w) PROVE Lifecycle'
    BY <1>5, <1>0 DEF CheckFlag, TypeOK, Lifecycle, Stopped, Goto, pool
  <1>6. ASSUME NEW w \in Workers, Dequeue(w) PROVE Lifecycle'
    BY <1>6, <1>0 DEF Dequeue, TypeOK, Lifecycle, Stopped, Goto, pool
  <1>7. ASSUME NEW w \in Workers, EndTask(w) PROVE Lifecycle'
    BY <1>7, <1>0 DEF EndTask, TypeOK, Lifecycle, Stopped, Goto, pool
  <1>8. CASE OnSvcStop
    BY <1>8, <1>0 DEF OnSvcStop, TypeOK, Lifecycle, Stopped, Goto, pool
  <1>9. CASE Signal
    BY <1>9, <1>0, SetEventAlerts DEF Signal, TypeOK, Lifecycle, Stopped
  <1>10. CASE Join
    BY <1>10, <1>0 DEF Join, TypeOK, Lifecycle, Stopped, Goto, pool
  <1>11. CASE Clear
    BY <1>11, <1>0 DEF Clear, TypeOK, Lifecycle, Stopped, Goto, pool
  <1>12. CASE UNCHANGED vars
    BY <1>0, <1>12 DEF vars, Lifecycle, Stopped
  <1> QED
    BY <1>1, <1>2, <1>3, <1>4, <1>5, <1>6, <1>7, <1>8, <1>9, <1>10, <1>11, <1>12 DEF Next, Work

(* Every step keeps the hands consistent.                                  *)
LEMMA HandsKept ==
  ASSUME Inv, [Next]_vars
  PROVE  Hands'
  <1>0. TypeOK /\ Lifecycle /\ Hands /\ OnePlace /\ NULL \notin Tasks
    BY NullIsNothing DEF Inv
  <1>1. CASE OnSvcStart
    BY <1>1, <1>0 DEF OnSvcStart, TypeOK, Hands, Lifecycle, Stopped
  <1>2. ASSUME NEW k \in Tasks, AddTypedTask(k) PROVE Hands'
    BY <1>2, <1>0 DEF AddTypedTask, TypeOK, Hands, Goto, pool
  <1>3. CASE Push
    BY <1>3, <1>0, SetEventAlerts DEF Push, TypeOK, Hands
  <1>4. ASSUME NEW w \in Workers, Wait(w) PROVE Hands'
    BY <1>4, <1>0 DEF Wait, TypeOK, Hands, Goto, pool
  <1>5. ASSUME NEW w \in Workers, CheckFlag(w) PROVE Hands'
    BY <1>5, <1>0 DEF CheckFlag, TypeOK, Hands, Goto, pool
  <1>6. ASSUME NEW w \in Workers, Dequeue(w) PROVE Hands'
    <2>1. CASE mTaskQueue = <<>>
      BY <1>6, <1>0, <2>1 DEF Dequeue, TypeOK, Hands, Goto
    <2>2. CASE mTaskQueue # <<>>
      <3>1. Head(mTaskQueue) \in Tasks
        BY <1>0, <2>2 DEF TypeOK
      <3> QED
        BY <1>6, <1>0, <2>2, <3>1 DEF Dequeue, TypeOK, Hands, Goto
    <2> QED
      BY <2>1, <2>2
  <1>7. ASSUME NEW w \in Workers, EndTask(w) PROVE Hands'
    <2>1. holding[w] \in Tasks
      BY <1>7, <1>0 DEF EndTask, TypeOK, Hands
    <2>2. task[holding[w]] = "running"
      BY <1>0, <2>1 DEF OnePlace
    <2>3. \A k \in Tasks : k # holding[w] => task'[k] = task[k]
      BY <1>7, <1>0 DEF EndTask, TypeOK
    <2>4. adding' # NULL => task'[adding'] = "new"
      BY <1>7, <1>0, <2>2, <2>3 DEF EndTask, TypeOK, Hands
    <2>5. \A v \in Workers : holding'[v] # NULL <=> pc'[v] \in {"run", "cancelling"}
      BY <1>7, <1>0 DEF EndTask, TypeOK, Hands, Goto
    <2> QED
      BY <2>4, <2>5 DEF Hands
  <1>8. CASE OnSvcStop
    BY <1>8, <1>0 DEF OnSvcStop, TypeOK, Hands, Goto, pool
  <1>9. CASE Signal
    BY <1>9, <1>0, SetEventAlerts DEF Signal, TypeOK, Hands
  <1>10. CASE Join
    BY <1>10, <1>0 DEF Join, TypeOK, Hands, Goto, pool
  <1>11. CASE Clear
    BY <1>11, <1>0 DEF Clear, TypeOK, Hands, Goto, pool
  <1>12. CASE UNCHANGED vars
    BY <1>0, <1>12 DEF vars, Hands
  <1> QED
    BY <1>1, <1>2, <1>3, <1>4, <1>5, <1>6, <1>7, <1>8, <1>9, <1>10, <1>11, <1>12 DEF Next, Work

(* Every step leaves each task in one place.                               *)
LEMMA OnePlaceKept ==
  ASSUME Inv, [Next]_vars
  PROVE  OnePlace'
  <1>0. TypeOK /\ Hands /\ OnePlace /\ NULL \notin Tasks
    BY NullIsNothing DEF Inv
  <1>1. CASE OnSvcStart
    BY <1>1, <1>0 DEF OnSvcStart, OnePlace
  <1>2. ASSUME NEW k \in Tasks, AddTypedTask(k) PROVE OnePlace'
    BY <1>2, <1>0 DEF AddTypedTask, TypeOK, OnePlace
  <1>3. CASE Push
    <2>1. /\ adding \in Tasks /\ task[adding] = "new"
          /\ mTaskQueue' = Append(mTaskQueue, adding)
          /\ task' = [task EXCEPT ![adding] = "queued"] /\ holding' = holding
      BY <1>3, <1>0 DEF Push, TypeOK, Hands
    <2>2. /\ DOMAIN mTaskQueue = 1 .. Len(mTaskQueue) /\ Len(mTaskQueue) \in Nat
          /\ DOMAIN mTaskQueue' = 1 .. Len(mTaskQueue) + 1
          /\ mTaskQueue'[Len(mTaskQueue) + 1] = adding
          /\ \A i \in DOMAIN mTaskQueue : mTaskQueue'[i] = mTaskQueue[i]
      BY <1>0, <2>1 DEF TypeOK
    <2>3. \A i \in DOMAIN mTaskQueue : mTaskQueue[i] # adding
      BY <1>0, <2>1 DEF OnePlace
    <2>4. \A i, j \in DOMAIN mTaskQueue' : i # j => mTaskQueue'[i] # mTaskQueue'[j]
      BY <1>0, <2>2, <2>3 DEF OnePlace
    <2>5. ASSUME NEW k \in Tasks
          PROVE  task'[k] = "queued" <=> \E i \in DOMAIN mTaskQueue' : mTaskQueue'[i] = k
      <3>1. CASE k = adding
        BY <1>0, <2>1, <2>2, <3>1 DEF TypeOK
      <3>2. CASE k # adding
        <4>1. task'[k] = task[k]
          BY <1>0, <2>1, <3>2 DEF TypeOK
        <4>2. \A i \in DOMAIN mTaskQueue' : mTaskQueue'[i] = k => i \in DOMAIN mTaskQueue
          BY <2>2, <3>2
        <4>3. \A i \in DOMAIN mTaskQueue : i \in DOMAIN mTaskQueue'
          BY <2>2
        <4> QED
          BY <1>0, <2>2, <4>1, <4>2, <4>3 DEF OnePlace
      <3> QED
        BY <3>1, <3>2
    <2>6. ASSUME NEW k \in Tasks
          PROVE  task'[k] = "running" <=> \E w \in Workers : holding'[w] = k
      BY <1>0, <2>1 DEF TypeOK, OnePlace
    <2>7. \A v, w \in Workers : holding'[v] = holding'[w] /\ v # w => holding'[v] = NULL
      BY <1>0, <2>1 DEF OnePlace
    <2> QED
      BY <2>4, <2>5, <2>6, <2>7 DEF OnePlace
  <1>4. ASSUME NEW w \in Workers, Wait(w) PROVE OnePlace'
    BY <1>4, <1>0 DEF Wait, OnePlace
  <1>5. ASSUME NEW w \in Workers, CheckFlag(w) PROVE OnePlace'
    BY <1>5, <1>0 DEF CheckFlag, OnePlace
  <1>6. ASSUME NEW w \in Workers, Dequeue(w) PROVE OnePlace'
    <2>1. CASE mTaskQueue = <<>>
      BY <1>6, <1>0, <2>1 DEF Dequeue, OnePlace
    <2>2. CASE mTaskQueue # <<>>
      <3>1. /\ Head(mTaskQueue) \in Tasks
            /\ mTaskQueue' = Tail(mTaskQueue)
            /\ task' = [task EXCEPT ![Head(mTaskQueue)] = "running"]
            /\ holding' = [holding EXCEPT ![w] = Head(mTaskQueue)]
            /\ holding[w] = NULL
        BY <1>6, <1>0, <2>2 DEF Dequeue, TypeOK, Hands
      <3>2. task[Head(mTaskQueue)] = "queued"
        BY <1>0, <2>2, <3>1 DEF TypeOK, OnePlace
      <3>3. \A v \in Workers : holding[v] # Head(mTaskQueue)
        BY <1>0, <3>1, <3>2 DEF OnePlace
      <3>4. /\ Len(mTaskQueue) \in Nat \ {0} /\ Head(mTaskQueue) = mTaskQueue[1]
            /\ DOMAIN mTaskQueue = 1 .. Len(mTaskQueue)
            /\ DOMAIN mTaskQueue' = 1 .. Len(mTaskQueue) - 1
            /\ \A i \in DOMAIN mTaskQueue' : mTaskQueue'[i] = mTaskQueue[i + 1]
        BY <1>0, <2>2, <3>1 DEF TypeOK
      <3>5. \A i, j \in DOMAIN mTaskQueue' : i # j => mTaskQueue'[i] # mTaskQueue'[j]
        BY <1>0, <3>4 DEF OnePlace
      <3>6. ASSUME NEW k \in Tasks
            PROVE  task'[k] = "queued" <=> \E i \in DOMAIN mTaskQueue' : mTaskQueue'[i] = k
        <4>1. CASE k = Head(mTaskQueue)
          <5>1. \A i \in DOMAIN mTaskQueue' : mTaskQueue[i + 1] # mTaskQueue[1]
            BY <1>0, <3>4 DEF OnePlace
          <5> QED
            BY <1>0, <3>1, <3>4, <4>1, <5>1 DEF TypeOK
        <4>2. CASE k # Head(mTaskQueue)
          <5>1. task'[k] = task[k]
            BY <1>0, <3>1, <4>2 DEF TypeOK
          <5>2. ASSUME NEW i \in DOMAIN mTaskQueue, mTaskQueue[i] = k
                PROVE  i - 1 \in DOMAIN mTaskQueue' /\ mTaskQueue'[i - 1] = k
            <6>1. i # 1
              BY <3>4, <4>2, <5>2
            <6>2. i - 1 \in DOMAIN mTaskQueue'
              BY <3>4, <6>1
            <6> QED
              BY <3>4, <5>2, <6>2
          <5>3. ASSUME NEW i \in DOMAIN mTaskQueue', mTaskQueue'[i] = k
                PROVE  i + 1 \in DOMAIN mTaskQueue /\ mTaskQueue[i + 1] = k
            BY <3>4, <5>3
          <5> QED
            BY <1>0, <5>1, <5>2, <5>3 DEF OnePlace
        <4> QED
          BY <4>1, <4>2
      <3>7. ASSUME NEW k \in Tasks
            PROVE  task'[k] = "running" <=> \E v \in Workers : holding'[v] = k
        BY <1>0, <3>1, <3>2, <3>3 DEF TypeOK, OnePlace
      <3>8. ASSUME NEW u \in Workers, NEW v \in Workers, holding'[u] = holding'[v], u # v
            PROVE  holding'[u] = NULL
        BY <1>0, <3>1, <3>3, <3>8 DEF TypeOK, OnePlace
      <3> QED
        BY <3>5, <3>6, <3>7, <3>8 DEF OnePlace
    <2> QED
      BY <2>1, <2>2
  <1>7. ASSUME NEW w \in Workers, EndTask(w) PROVE OnePlace'
    <2>1. /\ holding[w] \in Tasks
          /\ \E s \in {"done", "cancelled"} : task' = [task EXCEPT ![holding[w]] = s]
          /\ holding' = [holding EXCEPT ![w] = NULL]
          /\ mTaskQueue' = mTaskQueue
      BY <1>7, <1>0 DEF EndTask, TypeOK, Hands
    <2>2. task[holding[w]] = "running"
      BY <1>0, <2>1 DEF OnePlace
    <2> QED
      BY <1>0, <2>1, <2>2 DEF TypeOK, OnePlace
  <1>8. CASE OnSvcStop
    BY <1>8, <1>0 DEF OnSvcStop, OnePlace
  <1>9. CASE Signal
    BY <1>9, <1>0 DEF Signal, OnePlace
  <1>10. CASE Join
    BY <1>10, <1>0 DEF Join, OnePlace
  <1>11. CASE Clear
    <2>1. /\ mTaskQueue' = <<>> /\ holding' = holding
          /\ \A k \in Tasks : task'[k] = IF task[k] = "queued" THEN "destroyed" ELSE task[k]
      BY <1>11 DEF Clear
    <2> QED
      BY <1>0, <2>1 DEF OnePlace
  <1>12. CASE UNCHANGED vars
    BY <1>0, <1>12 DEF vars, OnePlace
  <1> QED
    BY <1>1, <1>2, <1>3, <1>4, <1>5, <1>6, <1>7, <1>8, <1>9, <1>10, <1>11, <1>12 DEF Next, Work

(* Every step keeps the wake-up.  A thread about to sleep takes a set      *)
(* event instead, and one that leaves its loop to wait has seen the queue  *)
(* empty.                                                                  *)
LEMMA WakeupKept ==
  ASSUME Inv, [Next]_vars
  PROVE  NoLostWakeup'
  <1>0. TypeOK /\ Lifecycle /\ NoLostWakeup
    BY DEF Inv
  <1>1. CASE OnSvcStart
    BY <1>1, <1>0 DEF OnSvcStart, Lifecycle, NoLostWakeup
  <1>2. ASSUME NEW k \in Tasks, AddTypedTask(k) PROVE NoLostWakeup'
    BY <1>2, <1>0 DEF AddTypedTask, TypeOK, NoLostWakeup, Alert, Busy, Goto
  <1>3. CASE Push
    BY <1>3, <1>0, SetEventAlerts DEF Push, NoLostWakeup
  <1>4. ASSUME NEW w \in Workers, Wait(w) PROVE NoLostWakeup'
    <2>1. w \in mThreads
      BY <1>4, <1>0 DEF Wait, Lifecycle, Stopped
    <2>2. CASE mEvent
      BY <1>4, <1>0, <2>2 DEF Wait, TypeOK, NoLostWakeup, Alert, Busy, Goto
    <2>3. CASE ~ mEvent
      BY <1>4, <1>0, <2>1, <2>3 DEF Wait, TypeOK, NoLostWakeup, Alert, Busy, Goto
    <2> QED
      BY <2>2, <2>3
  <1>5. ASSUME NEW w \in Workers, CheckFlag(w) PROVE NoLostWakeup'
    BY <1>5, <1>0 DEF CheckFlag, TypeOK, NoLostWakeup, Alert, Busy, Goto
  <1>6. ASSUME NEW w \in Workers, Dequeue(w) PROVE NoLostWakeup'
    BY <1>6, <1>0 DEF Dequeue, TypeOK, NoLostWakeup, Alert, Busy, Goto
  <1>7. ASSUME NEW w \in Workers, EndTask(w) PROVE NoLostWakeup'
    BY <1>7, <1>0 DEF EndTask, TypeOK, NoLostWakeup, Alert, Busy, Goto
  <1>8. CASE OnSvcStop
    BY <1>8, <1>0 DEF OnSvcStop, TypeOK, NoLostWakeup, Alert, Busy, Goto
  <1>9. CASE Signal
    BY <1>9, <1>0, SetEventAlerts DEF Signal, NoLostWakeup
  <1>10. CASE Join
    BY <1>10 DEF Join, NoLostWakeup
  <1>11. CASE Clear
    BY <1>11 DEF Clear, NoLostWakeup
  <1>12. CASE UNCHANGED vars
    BY <1>0, <1>12 DEF vars, NoLostWakeup, Alert, Busy
  <1> QED
    BY <1>1, <1>2, <1>3, <1>4, <1>5, <1>6, <1>7, <1>8, <1>9, <1>10, <1>11, <1>12 DEF Next, Work

(* Every step keeps what is known of the threads that leave.               *)
LEMMA LeavingKept ==
  ASSUME Inv, [Next]_vars
  PROVE  Leaving'
  <1>0. TypeOK /\ Lifecycle /\ Leaving
    BY DEF Inv
  <1>1. CASE OnSvcStart
    BY <1>1, <1>0 DEF OnSvcStart, TypeOK, Leaving, Lifecycle, Goto, pool
  <1>2. ASSUME NEW k \in Tasks, AddTypedTask(k) PROVE Leaving'
    BY <1>2, <1>0 DEF AddTypedTask, TypeOK, Leaving, Lifecycle, Goto, pool
  <1>3. CASE Push
    <2>1. ASSUME NEW w \in Workers, pc'[w] = "exit"
          PROVE  \A i \in DOMAIN mTaskQueue' : mTaskQueue'[i] \in Late
      <3>1. pc[w] = "exit"
        BY <1>0, <1>3, <2>1, SetEventAlerts DEF Push
      <3>2. adding \in Late
        BY <1>0, <1>3, <3>1 DEF Push, Leaving
      <3>3. /\ mTaskQueue' = Append(mTaskQueue, adding)
            /\ \A i \in DOMAIN mTaskQueue : mTaskQueue[i] \in Late
        BY <1>0, <1>3, <3>1 DEF Push, Leaving
      <3> QED
        BY <1>0, <3>2, <3>3 DEF TypeOK
    <2>2. \A w \in Workers : pc'[w] \in {"cancel", "cancelling", "exit"} => mEndWorkerFlag'
      BY <1>0, <1>3, SetEventAlerts DEF Push, Leaving
    <2> QED
      BY <1>0, <1>3, <2>1, <2>2 DEF Push, Leaving
  <1>4. ASSUME NEW w \in Workers, Wait(w) PROVE Leaving'
    BY <1>4, <1>0 DEF Wait, TypeOK, Leaving, Lifecycle, Goto, pool
  <1>5. ASSUME NEW w \in Workers, CheckFlag(w) PROVE Leaving'
    BY <1>5, <1>0 DEF CheckFlag, TypeOK, Leaving, Lifecycle, Goto, pool
  <1>6. ASSUME NEW w \in Workers, Dequeue(w) PROVE Leaving'
    <2>1. CASE mTaskQueue = <<>>
      BY <1>6, <1>0, <2>1 DEF Dequeue, TypeOK, Leaving, Goto
    <2>2. CASE mTaskQueue # <<>>
      <3>1. /\ mTaskQueue' = Tail(mTaskQueue) /\ UNCHANGED <<adding, mEndWorkerFlag>>
            /\ pc' = [pc EXCEPT ![w] = IF pc[w] = "drain" THEN "run" ELSE "cancelling"]
            /\ pc[w] \in {"drain", "cancel"}
        BY <1>6, <2>2 DEF Dequeue, Goto
      <3>2. \A i \in DOMAIN mTaskQueue' : /\ i + 1 \in DOMAIN mTaskQueue
                                         /\ mTaskQueue'[i] = mTaskQueue[i + 1]
        BY <1>0, <2>2, <3>1 DEF TypeOK
      <3>3. \A v \in Workers : /\ pc'[v] = "exit" => pc[v] = "exit"
                               /\ pc'[v] = "cancelling" => pc[v] \in {"cancel", "cancelling"}
                               /\ pc'[v] = "cancel" => pc[v] = "cancel"
        BY <1>0, <3>1 DEF TypeOK
      <3> QED
        BY <1>0, <3>1, <3>2, <3>3 DEF Leaving
    <2> QED
      BY <2>1, <2>2
  <1>7. ASSUME NEW w \in Workers, EndTask(w) PROVE Leaving'
    BY <1>7, <1>0 DEF EndTask, TypeOK, Leaving, Lifecycle, Goto, pool
  <1>8. CASE OnSvcStop
    BY <1>8, <1>0 DEF OnSvcStop, TypeOK, Leaving, Lifecycle, Goto, pool
  <1>9. CASE Signal
    BY <1>9, <1>0, SetEventAlerts DEF Signal, TypeOK, Leaving
  <1>10. CASE Join
    BY <1>10, <1>0 DEF Join, TypeOK, Leaving, Lifecycle, Goto, pool
  <1>11. CASE Clear
    BY <1>11, <1>0 DEF Clear, TypeOK, Leaving, Lifecycle, Goto, pool
  <1>12. CASE UNCHANGED vars
    BY <1>0, <1>12 DEF vars, Leaving
  <1> QED
    BY <1>1, <1>2, <1>3, <1>4, <1>5, <1>6, <1>7, <1>8, <1>9, <1>10, <1>11, <1>12 DEF Next, Work

(* Only late tasks are destroyed: when the queue is cleared, every thread  *)
(* has ended.                                                              *)
LEMMA NothingLeftKept ==
  ASSUME Inv, [Next]_vars
  PROVE  NothingLeftBehind'
  <1>0. TypeOK /\ Lifecycle /\ OnePlace /\ Leaving /\ NothingLeftBehind /\ Hands /\ Workers # {}
    BY WorkersFinite DEF Inv
  <1>1. CASE OnSvcStart
    BY <1>1, <1>0 DEF OnSvcStart, TypeOK, NothingLeftBehind
  <1>2. ASSUME NEW k \in Tasks, AddTypedTask(k) PROVE NothingLeftBehind'
    BY <1>2, <1>0 DEF AddTypedTask, TypeOK, NothingLeftBehind
  <1>3. CASE Push
    BY <1>3, <1>0 DEF Push, TypeOK, NothingLeftBehind
  <1>4. ASSUME NEW w \in Workers, Wait(w) PROVE NothingLeftBehind'
    BY <1>4, <1>0 DEF Wait, TypeOK, NothingLeftBehind
  <1>5. ASSUME NEW w \in Workers, CheckFlag(w) PROVE NothingLeftBehind'
    BY <1>5, <1>0 DEF CheckFlag, TypeOK, NothingLeftBehind
  <1>6. ASSUME NEW w \in Workers, Dequeue(w) PROVE NothingLeftBehind'
    BY <1>6, <1>0 DEF Dequeue, TypeOK, NothingLeftBehind
  <1>7. ASSUME NEW w \in Workers, EndTask(w) PROVE NothingLeftBehind'
    <2>1. holding[w] \in Tasks
      BY <1>7, <1>0, NullIsNothing DEF EndTask, TypeOK, Hands
    <2> QED
      BY <1>7, <1>0, <2>1 DEF EndTask, TypeOK, NothingLeftBehind
  <1>8. CASE OnSvcStop
    BY <1>8, <1>0 DEF OnSvcStop, TypeOK, NothingLeftBehind
  <1>9. CASE Signal
    BY <1>9, <1>0 DEF Signal, TypeOK, NothingLeftBehind
  <1>10. CASE Join
    BY <1>10, <1>0 DEF Join, TypeOK, NothingLeftBehind
  <1>11. CASE Clear
    <2>1. \E w \in Workers : pc[w] = "exit"
      BY <1>11, <1>0 DEF Clear, Lifecycle, Stopped
    <2>2. ASSUME NEW k \in Tasks, task[k] = "queued"
          PROVE  k \in Late
      BY <1>0, <2>1, <2>2 DEF OnePlace, Leaving
    <2> QED
      BY <1>11, <1>0, <2>2 DEF Clear, NothingLeftBehind
  <1>12. CASE UNCHANGED vars
    BY <1>0, <1>12 DEF vars, NothingLeftBehind
  <1> QED
    BY <1>1, <1>2, <1>3, <1>4, <1>5, <1>6, <1>7, <1>8, <1>9, <1>10, <1>11, <1>12 DEF Next, Work

------------------------------------------------------------------------------
LEMMA InitInv == Init => Inv
  <1> SUFFICES ASSUME Init PROVE Inv
    OBVIOUS
  <1>1. 0 \in 0 .. Cardinality(Workers)
    BY WorkersFinite, FS_CardinalityType
  <1>2. TypeOK
    <2>1. mTaskQueue \in Seq(Tasks)
      BY DEF Init
    <2>2. signals \in 0 .. Cardinality(Workers)
      BY <1>1 DEF Init
    <2> QED
      BY <2>1, <2>2 DEF Init, TypeOK, Locations, TaskStates, Stages
  <1>3. Lifecycle /\ Hands /\ Leaving
    BY DEF Init, Lifecycle, Stopped, Hands, Leaving
  <1>4. OnePlace
    BY NullIsNothing DEF Init, OnePlace
  <1>5. NoLostWakeup /\ NothingLeftBehind
    BY DEF Init, NoLostWakeup, NothingLeftBehind
  <1> QED
    BY <1>2, <1>3, <1>4, <1>5 DEF Inv

(* Inv is an invariant: it holds at the start and every step keeps it.     *)
THEOREM PoolInvariance == Spec => []Inv
  <1>1. Inv /\ [Next]_vars => Inv'
    BY TypesKept, LifecycleKept, HandsKept, OnePlaceKept, WakeupKept, LeavingKept,
       NothingLeftKept DEF Inv
  <1> QED
    BY InitInv, <1>1, PTL DEF Spec

(* Every variable of the pool keeps its type, the queue holding only       *)
(* tasks and OnSvcStop signalling at most once for each thread.            *)
THEOREM PoolTypeCorrect == Spec => []TypeOK
  BY PoolInvariance, PTL DEF Inv

(* A task is queued once or in the hands of one thread: no part of a file  *)
(* is transferred twice by the pool.                                       *)
THEOREM TaskInOnePlace == Spec => []OnePlace
  BY PoolInvariance, PTL DEF Inv

(* No wake-up is lost although one auto-reset event announces all tasks to *)
(* all threads.                                                            *)
THEOREM NoWakeupLost == Spec => []NoLostWakeup
  BY PoolInvariance, PTL DEF Inv

(* Stopping the pool destroys no task that was added before the stop: it   *)
(* is run or cancelled.                                                    *)
THEOREM NoTaskLeftBehind == Spec => []NothingLeftBehind
  BY PoolInvariance, PTL DEF Inv

==============================================================================
