--------------------------- MODULE WorkerPoolProofs ---------------------------
(*****************************************************************************)
(* Theorems about the worker pool, for any number of workers and callers and *)
(* any set of batches.                                                       *)
(*****************************************************************************)
EXTENDS WorkerPool, SequenceTheorems, TLAPS

-------------------------------------------------------------------------------
(* What a worker thread's own locals say of each other.  A thread that sends  *)
(* has a batch in hand; one that fetches, waits or has left has run all it    *)
(* fetched; a stop marker once met is remembered to the end of the pass.      *)
LocalOK ==
    \A w \in Workers :
        /\ wpc[w] = "send" => batch[w] # <<>> /\ Head(batch[w]) # Stop
        /\ wpc[w] \in {"fetch", "wait", "woken", "exited"} => batch[w] = <<>>
        /\ stopping[w] => wpc[w] \in {"run", "send", "exited"}
        /\ wpc[w] = "exited" => stopping[w]

AllStops(s) == \A i \in DOMAIN s : s[i] = Stop
NoStop(s) == \A i \in DOMAIN s : s[i] # Stop
StopsAtEnd(s) == \A i, j \in DOMAIN s : i < j /\ s[i] = Stop => s[j] = Stop

(* Nothing is submitted after a stop marker but stop markers: DrainedAtExit   *)
(* is not inductive without it.                                               *)
StopsLast ==
    \A w \in Workers :
        /\ StopsAtEnd(batch[w])
        /\ StopsAtEnd(tasks[w])
        /\ NoStop(batch[w]) \/ AllStops(tasks[w])
        /\ stopping[w] => AllStops(batch[w]) /\ AllStops(tasks[w])
        /\ ostep = "up" => NoStop(batch[w]) /\ NoStop(tasks[w]) /\ ~stopping[w]

(* Where Main is, which notifications are still owed, and which threads have  *)
(* ended: NothingUsesDestroyedWorker is not inductive without it.             *)
OwnerInv ==
    /\ ostep = "up" => stopIdx = 0
    /\ ostep # "up" => \A t \in Callers : toNotify[t] = NoWorker
    /\ toNotify[Main] # NoWorker =>
           ostep \in {"reset", "join"} /\ toNotify[Main] = stopIdx
    /\ \A w \in Workers : Destroyed(w) => wpc[w] = "exited"

-------------------------------------------------------------------------------
(* The worker of a connection exists: _workers[id % _workers.size()] is inside *)
(* the vector.                                                                *)
LEMMA FetchType == ASSUME NEW id \in Nat PROVE Fetch(id) \in Workers
BY PoolAssumption DEF Fetch, Workers

(* A pushed queue is a queue, and its last element is what was pushed.        *)
LEMMA PushedType ==
    ASSUME TypeOK, NEW w \in Workers, NEW item \in Items
    PROVE  Pushed(w, item) \in Seq(Items)
BY DEF TypeOK, Pushed

(* What Push does to the typed variables, whoever pushes what where.          *)
LEMMA PushType ==
    ASSUME TypeOK, NEW t \in Threads, NEW w \in Workers, NEW item \in Items,
           Push(t, w, item)
    PROVE  /\ tasks' \in [Workers -> Seq(Items)]
           /\ toNotify' \in [Threads -> Workers \cup {NoWorker}]
BY PushedType DEF TypeOK, Push, Owed

(* The variables keep their types: one step per action.                       *)
LEMMA TypeStep == ASSUME TypeOK, LocalOK, [Next]_vars PROVE TypeOK'
<1>1. ASSUME NEW t \in Callers, NEW b \in Batch, CallerDispatches(t, b) PROVE TypeOK'
  <2>1. Fetch(b.conn) \in Workers /\ b \in Items /\ t \in Threads
    BY FetchType, PoolAssumption DEF Items, Threads
  <2> QED BY <1>1, <2>1, PushType DEF CallerDispatches, Dispatch, TypeOK
<1>2. ASSUME NEW t \in Threads, NotifyOne(t) PROVE TypeOK'
  <2>1. wpc' \in [Workers -> WorkerPCs]
    BY <1>2 DEF NotifyOne, TypeOK, WorkerPCs
  <2>2. toNotify' \in [Threads -> Workers \cup {NoWorker}]
    BY <1>2 DEF NotifyOne, TypeOK
  <2> QED BY <1>2, <2>1, <2>2 DEF NotifyOne, TypeOK
<1>3. ASSUME NEW w \in Workers, FetchTasks(w) PROVE TypeOK'
  <2>1. CASE tasks[w] = <<>>
    BY <1>3, <2>1 DEF FetchTasks, Goto, TypeOK, WorkerPCs
  <2>2. CASE tasks[w] # <<>>
    <3>1. <<>> \in Seq(Items)
      OBVIOUS
    <3>2. tasks' \in [Workers -> Seq(Items)] /\ batch' \in [Workers -> Seq(Items)]
      BY <1>3, <2>2, <3>1 DEF FetchTasks, TypeOK
    <3>3. wpc' \in [Workers -> WorkerPCs] /\ stopping' \in [Workers -> BOOLEAN]
      BY <1>3, <2>2 DEF FetchTasks, AfterFetch, Goto, TypeOK, WorkerPCs
    <3> QED BY <1>3, <3>2, <3>3 DEF FetchTasks, TypeOK
  <2> QED BY <2>1, <2>2
<1>4. ASSUME NEW w \in Workers, RunBatch(w) \/ EndPass(w) \/ SpuriousWakeup(w) PROVE TypeOK'
  BY <1>4 DEF RunBatch, EndPass, SpuriousWakeup, Goto, TypeOK, WorkerPCs
<1>5. ASSUME NEW w \in Workers, Sent(w) \/ SkipStop(w) PROVE TypeOK'
  <2>1. batch[w] # <<>> /\ batch[w] \in Seq(Items)
    BY <1>5 DEF SkipStop, Sent, LocalOK, TypeOK
  <2>2. Tail(batch[w]) \in Seq(Items)
    BY <2>1
  <2>3. /\ batch' = [batch EXCEPT ![w] = Tail(batch[w])]
        /\ wpc' \in [Workers -> WorkerPCs] /\ stopping' \in [Workers -> BOOLEAN]
    BY <1>5 DEF Sent, SkipStop, Goto, TypeOK, WorkerPCs
  <2>4. batch' \in [Workers -> Seq(Items)]
    BY <2>2, <2>3 DEF TypeOK
  <2> QED BY <1>5, <2>3, <2>4 DEF Sent, SkipStop, TypeOK
<1>6. ASSUME OwnerBeginsStop PROVE TypeOK'
  BY <1>6 DEF OwnerBeginsStop, BeginStop, TypeOK, OwnerSteps
<1>7. ASSUME StopWorker \/ ResetWorker PROVE TypeOK'
  <2>1. Main \in Threads /\ Stop \in Items /\ stopIdx \in Workers
    BY DEF Threads, Items, TypeOK
  <2>2. Push(Main, stopIdx, Stop)
    BY <1>7 DEF StopWorker, ResetWorker
  <2> QED BY <1>7, <2>1, <2>2, PushType DEF StopWorker, ResetWorker, TypeOK, OwnerSteps
<1>8. ASSUME JoinWorker PROVE TypeOK'
  BY <1>8, PoolAssumption DEF JoinWorker, LastWorker, TypeOK, OwnerSteps, Workers
<1>9. ASSUME UNCHANGED vars PROVE TypeOK'
  BY <1>9 DEF vars, TypeOK
<1> QED BY <1>1, <1>2, <1>3, <1>4, <1>5, <1>6, <1>7, <1>8, <1>9
        DEF Next, Terminated, WorkerStep, OwnerStep

(* The locals of a worker thread stay consistent.                             *)
LEMMA LocalStep == ASSUME TypeOK, LocalOK, [Next]_vars PROVE LocalOK'
<1>1. ASSUME NEW t \in Callers, NEW b \in Batch, CallerDispatches(t, b) PROVE LocalOK'
  BY <1>1 DEF CallerDispatches, Dispatch, LocalOK
<1>2. ASSUME NEW t \in Threads, NotifyOne(t) PROVE LocalOK'
  BY <1>2 DEF NotifyOne, LocalOK, TypeOK
<1>3. ASSUME NEW w \in Workers, FetchTasks(w) PROVE LocalOK'
  BY <1>3 DEF FetchTasks, AfterFetch, Goto, LocalOK, TypeOK
<1>4. ASSUME NEW w \in Workers, RunBatch(w) \/ SpuriousWakeup(w) PROVE LocalOK'
  BY <1>4 DEF RunBatch, SpuriousWakeup, Goto, LocalOK, TypeOK
<1>5. ASSUME NEW w \in Workers, Sent(w) \/ SkipStop(w) PROVE LocalOK'
  BY <1>5 DEF Sent, SkipStop, Goto, LocalOK, TypeOK
<1>6. ASSUME NEW w \in Workers, EndPass(w) PROVE LocalOK'
  BY <1>6 DEF EndPass, Leaves, Goto, LocalOK, TypeOK
<1>7. ASSUME OwnerBeginsStop \/ OwnerStep \/ UNCHANGED vars PROVE LocalOK'
  BY <1>7 DEF OwnerBeginsStop, BeginStop, OwnerStep, StopWorker, ResetWorker, JoinWorker,
              vars, LocalOK
<1> QED BY <1>1, <1>2, <1>3, <1>4, <1>5, <1>6, <1>7 DEF Next, Terminated, WorkerStep

(* Every variable keeps its type; in particular the index of WorkerPool::stop *)
(* never leaves the vector, and no thread moves past the end of its batches.  *)
THEOREM TypeCorrect == SafeSpec => [](TypeOK /\ LocalOK)
<1>1. Init => TypeOK /\ LocalOK
  BY PoolAssumption DEF Init, TypeOK, LocalOK, Workers, WorkerPCs, OwnerSteps
<1>2. TypeOK /\ LocalOK /\ [Next]_vars => TypeOK' /\ LocalOK'
  BY TypeStep, LocalStep
<1> QED BY <1>1, <1>2, PTL DEF SafeSpec

-------------------------------------------------------------------------------
(* No lost wakeup.  A push leaves its thread owing a notification; a thread   *)
(* that owes one pushes nothing else; and a worker decides to wait only on an *)
(* empty vector, under the lock that every push holds.                        *)
LEMMA WakeupStep == ASSUME TypeOK, NoLostWakeup, [Next]_vars PROVE NoLostWakeup'
<1>1. ASSUME NEW t \in Threads, NEW w \in Workers, NEW item \in Items,
             Push(t, w, item), wpc' = wpc
      PROVE  NoLostWakeup'
  <2> SUFFICES ASSUME NEW v \in Workers, wpc[v] = "wait", tasks'[v] # <<>>
               PROVE  \E s \in Threads : toNotify'[s] = v
    BY <1>1 DEF NoLostWakeup
  <2>1. CASE v = w
    BY <1>1, <2>1 DEF Push, Owed, TypeOK
  <2>2. CASE v # w
    <3>1. PICK s \in Threads : toNotify[s] = v
      BY <1>1, <2>2 DEF NoLostWakeup, Push, TypeOK
    <3>2. s # t
      BY <1>1, <3>1, PoolAssumption DEF Push
    <3> QED BY <1>1, <3>1, <3>2 DEF Push, TypeOK
  <2> QED BY <2>1, <2>2
<1>2. ASSUME NEW t \in Callers, NEW b \in Batch, CallerDispatches(t, b) PROVE NoLostWakeup'
  <2>1. Fetch(b.conn) \in Workers /\ b \in Items /\ t \in Threads
    BY FetchType, PoolAssumption DEF Items, Threads
  <2> QED BY <1>1, <1>2, <2>1 DEF CallerDispatches, Dispatch
<1>3. ASSUME NEW t \in Threads, NotifyOne(t) PROVE NoLostWakeup'
  <2> SUFFICES ASSUME NEW v \in Workers, wpc'[v] = "wait", tasks[v] # <<>>
               PROVE  \E s \in Threads : toNotify'[s] = v
    BY <1>3 DEF NoLostWakeup, NotifyOne
  <2>1. wpc[v] = "wait" /\ toNotify[t] # v
    BY <1>3 DEF NotifyOne, TypeOK
  <2>2. PICK s \in Threads : toNotify[s] = v
    BY <2>1 DEF NoLostWakeup
  <2> QED BY <1>3, <2>1, <2>2 DEF NotifyOne, TypeOK
<1>4. ASSUME NEW w \in Workers, FetchTasks(w) PROVE NoLostWakeup'
  BY <1>4 DEF FetchTasks, AfterFetch, Goto, NoLostWakeup, TypeOK
<1>5. ASSUME NEW w \in Workers,
             RunBatch(w) \/ Sent(w) \/ SkipStop(w) \/ EndPass(w) \/ SpuriousWakeup(w)
      PROVE  NoLostWakeup'
  BY <1>5 DEF RunBatch, Sent, SkipStop, EndPass, SpuriousWakeup, Goto, NoLostWakeup, TypeOK
<1>6. ASSUME StopWorker \/ ResetWorker PROVE NoLostWakeup'
  <2>1. Main \in Threads /\ Stop \in Items /\ stopIdx \in Workers
    BY DEF Threads, Items, TypeOK
  <2> QED BY <1>1, <1>6, <2>1 DEF StopWorker, ResetWorker
<1>7. ASSUME OwnerBeginsStop \/ JoinWorker \/ UNCHANGED vars PROVE NoLostWakeup'
  BY <1>7 DEF OwnerBeginsStop, BeginStop, JoinWorker, vars, NoLostWakeup
<1> QED BY <1>2, <1>3, <1>4, <1>5, <1>6, <1>7 DEF Next, Terminated, WorkerStep, OwnerStep

(* A worker never sleeps through a batch or a stop marker.                    *)
THEOREM NoWakeupIsLost == SafeSpec => []NoLostWakeup
<1>1. Init => NoLostWakeup
  BY DEF Init, NoLostWakeup
<1>2. TypeOK /\ NoLostWakeup /\ [Next]_vars => NoLostWakeup'
  BY WakeupStep
<1> QED BY <1>1, <1>2, TypeCorrect, PTL DEF SafeSpec

-------------------------------------------------------------------------------
(* The stop markers stay last: appending a marker keeps them last, appending  *)
(* a batch happens only before the first marker.                              *)
LEMMA StopsStep == ASSUME TypeOK, LocalOK, StopsLast, [Next]_vars PROVE StopsLast'
<1> USE DEF AllStops, NoStop, StopsAtEnd
<1>1. ASSUME NEW t \in Callers, NEW b \in Batch, CallerDispatches(t, b) PROVE StopsLast'
  <2>1. PICK w \in Workers : w = Fetch(b.conn)
    BY FetchType, PoolAssumption
  <2>2. /\ b # Stop
        /\ tasks' = [tasks EXCEPT ![w] = Append(tasks[w], b)]
        /\ UNCHANGED <<batch, stopping, ostep>>
        /\ ostep = "up"
    BY <1>1, <2>1, PoolAssumption DEF CallerDispatches, Dispatch, Push, Pushed
  <2>3. NoStop(Append(tasks[w], b))
    BY <2>2 DEF StopsLast, TypeOK
  <2> QED BY <2>2, <2>3 DEF StopsLast, TypeOK
<1>2. ASSUME StopWorker \/ ResetWorker PROVE StopsLast'
  <2>1. /\ stopIdx \in Workers
        /\ tasks' = [tasks EXCEPT ![stopIdx] = Append(tasks[stopIdx], Stop)]
        /\ UNCHANGED <<batch, stopping>>
        /\ ostep' # "up"
    BY <1>2 DEF StopWorker, ResetWorker, Push, Pushed, TypeOK
  <2>2. /\ StopsAtEnd(Append(tasks[stopIdx], Stop))
        /\ AllStops(tasks[stopIdx]) => AllStops(Append(tasks[stopIdx], Stop))
    BY <2>1 DEF StopsLast, TypeOK
  <2> QED BY <2>1, <2>2 DEF StopsLast, TypeOK
<1>3. ASSUME NEW w \in Workers, FetchTasks(w) PROVE StopsLast'
  <2>1. CASE tasks[w] = <<>>
    BY <1>3, <2>1 DEF FetchTasks, StopsLast
  <2>2. CASE tasks[w] # <<>>
    <3>1. /\ batch' = [batch EXCEPT ![w] = tasks[w]]
          /\ tasks' = [tasks EXCEPT ![w] = <<>>]
          /\ stopping' = [stopping EXCEPT ![w] = FALSE]
          /\ UNCHANGED ostep
      BY <1>3, <2>2 DEF FetchTasks
    <3>2. \A v \in Workers :
             /\ batch'[v] = IF v = w THEN tasks[v] ELSE batch[v]
             /\ tasks'[v] = IF v = w THEN <<>> ELSE tasks[v]
             /\ stopping'[v] = IF v = w THEN FALSE ELSE stopping[v]
      BY <3>1 DEF TypeOK
    <3>3. AllStops(<<>>) /\ NoStop(<<>>) /\ StopsAtEnd(<<>>)
      OBVIOUS
    <3>4. StopsAtEnd(tasks[w]) /\ (ostep = "up" => NoStop(tasks[w]))
      BY DEF StopsLast
    <3> HIDE DEF AllStops, NoStop, StopsAtEnd
    <3> QED BY <3>1, <3>2, <3>3, <3>4 DEF StopsLast
  <2> QED BY <2>1, <2>2
<1>4. ASSUME NEW w \in Workers, Sent(w) PROVE StopsLast'
  <2>1. batch[w] \in Seq(Items) /\ batch[w] # <<>> /\ batch' = [batch EXCEPT ![w] = Tail(@)]
        /\ UNCHANGED <<tasks, stopping, ostep>>
    BY <1>4 DEF Sent, LocalOK, TypeOK
  <2>2. \A i \in DOMAIN Tail(batch[w]) : i + 1 \in DOMAIN batch[w] /\ Tail(batch[w])[i] = batch[w][i + 1]
    BY <2>1
  <2>3. /\ StopsAtEnd(Tail(batch[w]))
        /\ NoStop(batch[w]) => NoStop(Tail(batch[w]))
        /\ AllStops(batch[w]) => AllStops(Tail(batch[w]))
    BY <2>1, <2>2 DEF StopsLast
  <2> QED BY <2>1, <2>3 DEF StopsLast, TypeOK
<1>5. ASSUME NEW w \in Workers, SkipStop(w) PROVE StopsLast'
  <2>1. /\ batch[w] \in Seq(Items) /\ batch[w] # <<>> /\ batch[w][1] = Stop
        /\ batch' = [batch EXCEPT ![w] = Tail(@)]
        /\ stopping' = [stopping EXCEPT ![w] = TRUE]
        /\ UNCHANGED <<tasks, ostep>>
    BY <1>5 DEF SkipStop, TypeOK
  <2>2. /\ 1 \in DOMAIN batch[w]
        /\ \A i \in DOMAIN Tail(batch[w]) :
              i + 1 \in DOMAIN batch[w] /\ 1 < i + 1 /\ Tail(batch[w])[i] = batch[w][i + 1]
    BY <2>1
  <2>3. AllStops(Tail(batch[w])) /\ AllStops(tasks[w]) /\ ostep # "up"
    BY <2>1, <2>2 DEF StopsLast
  <2> QED BY <2>1, <2>3 DEF StopsLast, TypeOK
<1>6. ASSUME OwnerBeginsStop \/ JoinWorker PROVE StopsLast'
  BY <1>6 DEF OwnerBeginsStop, BeginStop, JoinWorker, StopsLast
<1>7. ASSUME UNCHANGED <<tasks, batch, stopping, ostep>> PROVE StopsLast'
  BY <1>7 DEF StopsLast
<1> QED BY <1>1, <1>2, <1>3, <1>4, <1>5, <1>6, <1>7
        DEF Next, Terminated, WorkerStep, OwnerStep, NotifyOne, RunBatch, EndPass,
            SpuriousWakeup, vars

(* Everything submitted to a worker before it was told to stop has been run   *)
(* when its thread ends.                                                      *)
THEOREM DrainsBeforeExit == SafeSpec => []DrainedAtExit
<1>1. Init => StopsLast
  BY DEF Init, StopsLast, AllStops, NoStop, StopsAtEnd
<1>2. TypeOK /\ LocalOK /\ StopsLast /\ [Next]_vars => StopsLast'
  BY StopsStep
<1>3. LocalOK /\ StopsLast => DrainedAtExit
  BY DEF LocalOK, StopsLast, DrainedAtExit, AllStops
<1> QED BY <1>1, <1>2, <1>3, TypeCorrect, PTL DEF SafeSpec

-------------------------------------------------------------------------------
(* What Main and the callers owe and have ended: one step per action.         *)
LEMMA OwnerInvStep == ASSUME TypeOK, OwnerInv, [Next]_vars PROVE OwnerInv'
<1> USE DEF Destroyed, Threads
<1>1. ASSUME NEW t \in Callers, NEW b \in Batch, CallerDispatches(t, b) PROVE OwnerInv'
  <2>1. t # Main /\ ostep = "up" /\ UNCHANGED <<wpc, stopIdx, ostep>>
    BY <1>1, PoolAssumption DEF CallerDispatches, Dispatch
  <2>2. toNotify'[Main] = toNotify[Main]
    BY <1>1, <2>1 DEF CallerDispatches, Dispatch, Push, TypeOK
  <2> QED BY <2>1, <2>2 DEF OwnerInv
<1>2. ASSUME NEW t \in Threads, NotifyOne(t) PROVE OwnerInv'
  BY <1>2 DEF NotifyOne, OwnerInv, TypeOK
<1>3. ASSUME NEW w \in Workers, WorkerStep(w) \/ SpuriousWakeup(w) PROVE OwnerInv'
  BY <1>3 DEF WorkerStep, SpuriousWakeup, FetchTasks, RunBatch, Sent, SkipStop, EndPass,
              Goto, OwnerInv, TypeOK
<1>4. ASSUME OwnerBeginsStop PROVE OwnerInv'
  BY <1>4 DEF OwnerBeginsStop, BeginStop, OwnerInv, TypeOK
<1>5. ASSUME StopWorker \/ ResetWorker PROVE OwnerInv'
  BY <1>5, PoolAssumption DEF StopWorker, ResetWorker, Push, Owed, OwnerInv, TypeOK
<1>6. ASSUME JoinWorker PROVE OwnerInv'
  <2>1. /\ wpc[stopIdx] = "exited" /\ toNotify[Main] = NoWorker /\ ostep = "join"
        /\ UNCHANGED <<wpc, toNotify>>
    BY <1>6 DEF JoinWorker, Joinable
  <2>2. CASE LastWorker(stopIdx)
    <3>1. \A w \in Workers : w < stopIdx \/ w = stopIdx
      BY <2>2, PoolAssumption DEF LastWorker, Workers, TypeOK
    <3> QED BY <1>6, <2>1, <2>2, <3>1 DEF JoinWorker, OwnerInv
  <2>3. CASE ~LastWorker(stopIdx)
    <3>1. \A w \in Workers : w < stopIdx + 1 => w < stopIdx \/ w = stopIdx
      BY PoolAssumption DEF Workers, TypeOK
    <3> QED BY <1>6, <2>1, <2>3, <3>1 DEF JoinWorker, OwnerInv
  <2> QED BY <2>2, <2>3
<1>7. ASSUME UNCHANGED vars PROVE OwnerInv'
  BY <1>7 DEF vars, OwnerInv
<1> QED BY <1>1, <1>2, <1>3, <1>4, <1>5, <1>6, <1>7 DEF Next, Terminated, OwnerStep

(* No thread uses a Worker whose destructor has returned, given that no       *)
(* caller dispatches once the destruction has begun.                          *)
THEOREM DestroyedWorkersAreUnused == SafeSpec => []NothingUsesDestroyedWorker
<1>1. Init => OwnerInv
  BY PoolAssumption DEF Init, OwnerInv, Destroyed, Threads, Workers
<1>2. TypeOK /\ OwnerInv /\ [Next]_vars => OwnerInv'
  BY OwnerInvStep
<1>3. TypeOK /\ OwnerInv => NothingUsesDestroyedWorker
  BY PoolAssumption DEF TypeOK, OwnerInv, NothingUsesDestroyedWorker, Destroyed, Threads, Workers
<1> QED BY <1>1, <1>2, <1>3, TypeCorrect, PTL DEF SafeSpec

-------------------------------------------------------------------------------
(* The two vectors of a worker as one queue: a push goes to its end, ...      *)
LEMMA QueueAppend ==
    ASSUME NEW S, NEW s \in Seq(S), NEW t \in Seq(S), NEW e \in S
    PROVE  s \o Append(t, e) = Append(s \o t, e)
BY AppendIsConcat, ConcatAssociative, ConcatProperties

(* ... and what the thread takes comes from its front.                        *)
LEMMA QueueTail ==
    ASSUME NEW S, NEW s \in Seq(S), NEW t \in Seq(S), s # <<>>
    PROVE  /\ s \o t # <<>>
           /\ Head(s \o t) = Head(s)
           /\ Tail(s \o t) = Tail(s) \o t
OBVIOUS

(* The queue of TaskQueue that worker w stands for.                           *)
Q(w) == batch[w] \o tasks[w]

(* Every step of the pool is a step of TaskQueue or changes nothing of it.    *)
LEMMA QueueStep ==
    ASSUME TypeOK, LocalOK, [Next]_vars PROVE [TQ!Next]_TQ!vars
<1> USE DEF Q
<1>1. ASSUME NEW w \in Workers, NEW item \in Items,
             tasks' = [tasks EXCEPT ![w] = Append(tasks[w], item)],
             UNCHANGED <<batch, stopping, wpc>>
      PROVE  TQ!Next
  <2>1. Q(w)' = Append(Q(w), item)
    BY <1>1, QueueAppend DEF TypeOK
  <2>2. \A v \in Workers : v # w => Q(v)' = Q(v)
    BY <1>1 DEF TypeOK
  <2>3. [v \in Workers |-> Q(v)]' = [[v \in Workers |-> Q(v)] EXCEPT ![w] = Append(@, item)]
    BY <2>1, <2>2
  <2>4. TQ!Put(w, item)
    BY <1>1, <2>3 DEF TQ!Put
  <2> QED BY <2>4 DEF TQ!Next
<1>2. ASSUME NEW t \in Callers, NEW b \in Batch, CallerDispatches(t, b) PROVE TQ!Next
  <2>1. Fetch(b.conn) \in Workers /\ b \in Items
    BY FetchType, PoolAssumption DEF Items
  <2> QED BY <1>1, <1>2, <2>1 DEF CallerDispatches, Dispatch, Push, Pushed
<1>3. ASSUME StopWorker \/ ResetWorker PROVE TQ!Next
  <2>1. stopIdx \in Workers /\ Stop \in Items
    BY DEF TypeOK, Items
  <2> QED BY <1>1, <1>3, <2>1 DEF StopWorker, ResetWorker, Push, Pushed
<1>4. ASSUME NEW w \in Workers, batch[w] # <<>>, wpc[w] # "exited",
             batch' = [batch EXCEPT ![w] = Tail(@)], UNCHANGED tasks,
             stopping' = [stopping EXCEPT ![w] = @ \/ Head(batch[w]) = Stop],
             \A v \in Workers : wpc'[v] = "exited" <=> wpc[v] = "exited"
      PROVE  TQ!Next
  <2>1. /\ Q(w) # <<>> /\ Head(Q(w)) = Head(batch[w])
        /\ Q(w)' = Tail(Q(w))
    <3>1. batch[w] \in Seq(Items) /\ tasks[w] \in Seq(Items)
      BY DEF TypeOK
    <3>2. batch'[w] = Tail(batch[w]) /\ tasks'[w] = tasks[w]
      BY <1>4 DEF TypeOK
    <3>3. /\ batch[w] \o tasks[w] # <<>>
          /\ Head(batch[w] \o tasks[w]) = Head(batch[w])
          /\ Tail(batch[w] \o tasks[w]) = Tail(batch[w]) \o tasks[w]
      BY <1>4, <3>1, QueueTail
    <3> QED BY <3>2, <3>3
  <2>2. \A v \in Workers : v # w => Q(v)' = Q(v)
    BY <1>4 DEF TypeOK
  <2>3. [v \in Workers |-> Q(v)]' = [[v \in Workers |-> Q(v)] EXCEPT ![w] = Tail(@)]
    BY <2>1, <2>2
  <2>4. [v \in Workers |-> wpc[v] = "exited"]' = [v \in Workers |-> wpc[v] = "exited"]
    BY <1>4
  <2>5. TQ!Take(w)
    BY <1>4, <2>1, <2>3, <2>4 DEF TQ!Take
  <2> QED BY <2>5 DEF TQ!Next
<1>5. ASSUME NEW w \in Workers, Sent(w) PROVE TQ!Next
  <2>1. batch[w] # <<>> /\ Head(batch[w]) # Stop /\ wpc[w] = "send"
    BY <1>5 DEF Sent, LocalOK
  <2>2. stopping' = [stopping EXCEPT ![w] = @ \/ Head(batch[w]) = Stop]
    BY <1>5, <2>1 DEF Sent, TypeOK
  <2>3. \A v \in Workers : wpc'[v] = "exited" <=> wpc[v] = "exited"
    BY <1>5, <2>1 DEF Sent, Goto, TypeOK
  <2> QED BY <1>4, <1>5, <2>1, <2>2, <2>3 DEF Sent
<1>6. ASSUME NEW w \in Workers, SkipStop(w) PROVE TQ!Next
  <2>1. stopping' = [stopping EXCEPT ![w] = @ \/ Head(batch[w]) = Stop]
    BY <1>6 DEF SkipStop, TypeOK
  <2> QED BY <1>4, <1>6, <2>1 DEF SkipStop
<1>7. ASSUME UNCHANGED stopping, \A v \in Workers : Q(v)' = Q(v),
             \A v \in Workers : wpc'[v] = "exited" <=> wpc[v] = "exited"
      PROVE  UNCHANGED TQ!vars
  BY <1>7 DEF TQ!vars
<1>8. ASSUME NEW w \in Workers, FetchTasks(w) PROVE UNCHANGED TQ!vars
  <2>1. \A v \in Workers : wpc'[v] = "exited" <=> wpc[v] = "exited"
    BY <1>8 DEF FetchTasks, AfterFetch, Goto, TypeOK
  <2>2. UNCHANGED stopping
    <3>1. stopping[w] = FALSE
      BY <1>8 DEF FetchTasks, LocalOK, TypeOK
    <3>2. stopping = [stopping EXCEPT ![w] = FALSE]
      BY <3>1 DEF TypeOK
    <3> QED BY <1>8, <3>2 DEF FetchTasks
  <2>3. \A v \in Workers : Q(v)' = Q(v)
    <3>1. Q(w) = tasks[w]
      BY <1>8, EmptySeq, ConcatEmptySeq DEF FetchTasks, LocalOK, TypeOK
    <3>2. Q(w)' = tasks[w]
      BY <1>8, <3>1, EmptySeq, ConcatEmptySeq DEF FetchTasks, LocalOK, TypeOK
    <3> QED BY <1>8, <3>1, <3>2 DEF FetchTasks, TypeOK
  <2> QED BY <1>7, <2>1, <2>2, <2>3
<1>9. ASSUME NEW w \in Workers, EndPass(w) PROVE [TQ!Next]_TQ!vars
  <2>1. CASE Leaves(w)
    <3>1. TQ!Halt(w)
      BY <1>9, <2>1 DEF EndPass, Leaves, Goto, TypeOK, TQ!Halt
    <3> QED BY <3>1 DEF TQ!Next
  <2>2. CASE ~Leaves(w)
    <3>1. \A v \in Workers : wpc'[v] = "exited" <=> wpc[v] = "exited"
      BY <1>9, <2>2 DEF EndPass, Goto, TypeOK
    <3> QED BY <1>7, <1>9, <3>1 DEF EndPass
  <2> QED BY <2>1, <2>2
<1>10. ASSUME NEW w \in Workers, RunBatch(w) \/ SpuriousWakeup(w) PROVE UNCHANGED TQ!vars
  <2>1. \A v \in Workers : wpc'[v] = "exited" <=> wpc[v] = "exited"
    BY <1>10 DEF RunBatch, SpuriousWakeup, Goto, TypeOK
  <2> QED BY <1>7, <1>10, <2>1 DEF RunBatch, SpuriousWakeup
<1>11. ASSUME NEW t \in Threads, NotifyOne(t) PROVE UNCHANGED TQ!vars
  <2>1. \A v \in Workers : wpc'[v] = "exited" <=> wpc[v] = "exited"
    BY <1>11 DEF NotifyOne, TypeOK
  <2> QED BY <1>7, <1>11, <2>1 DEF NotifyOne
<1>12. ASSUME OwnerBeginsStop \/ JoinWorker \/ UNCHANGED vars PROVE UNCHANGED TQ!vars
  BY <1>7, <1>12 DEF OwnerBeginsStop, BeginStop, JoinWorker, vars
<1> QED BY <1>2, <1>3, <1>5, <1>6, <1>8, <1>9, <1>10, <1>11, <1>12
        DEF Next, Terminated, WorkerStep, OwnerStep

(* The pool is one FIFO queue per worker: nothing submitted is lost, run      *)
(* twice or run out of order, whatever the threads do.                        *)
THEOREM PoolIsTaskQueues == SafeSpec => TQ!Safe
<1>1. ASSUME Init PROVE TQ!Init
  <2>1. <<>> \o <<>> = <<>>
    BY EmptySeq, ConcatEmptySeq
  <2>2. \A w \in Workers : batch[w] \o tasks[w] = <<>> /\ ~stopping[w] /\ wpc[w] # "exited"
    BY <1>1, <2>1 DEF Init
  <2>3. stopping = [w \in Workers |-> FALSE]
    BY <1>1 DEF Init
  <2> QED BY <2>2, <2>3 DEF TQ!Init
<1>2. TypeOK /\ LocalOK /\ [Next]_vars => [TQ!Next]_TQ!vars
  BY QueueStep
<1> QED BY <1>1, <1>2, TypeCorrect, PTL DEF SafeSpec, TQ!Safe
================================================================================
