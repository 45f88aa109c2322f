------------------------------ MODULE WorkerPool ------------------------------
(*****************************************************************************)
(* The worker pool (worker.h, worker.cpp): a fixed vector of workers, each a *)
(* thread with a vector of batches guarded by a mutex and announced through  *)
(* a condition variable.                                                     *)
(*                                                                           *)
(* A step is what happens under one acquisition of a worker's mutex, or one  *)
(* call that another thread can see: Worker::submit is the push under the    *)
(* lock and, after the unlock, notify_one; a wait is the release of the lock *)
(* and, later, the reacquisition that evaluates the predicate anew.          *)
(*                                                                           *)
(* Callers are the threads that dispatch (the reactor's loop thread); Main   *)
(* is the thread that constructed the pool and destroys it.  The contract of *)
(* the pool, kept by the order of destruction in main(), is that no caller   *)
(* dispatches any more once Main destroys the pool.                          *)
(*                                                                           *)
(* An operator named Op_Variant is a faulty variant of Op that the model     *)
(* checker must tell from Op; nothing else refers to it.                     *)
(*****************************************************************************)
EXTENDS Naturals, Sequences

CONSTANTS NumWorkers,  \* the size given to WorkerPool(std::size_t)
          Callers,     \* the threads that call dispatch
          Main,        \* the thread that owns the pool
          Batch,       \* the batches (BatchTask with a reactor): records with a field conn
          Stop,        \* the BatchTask whose reactor is nullptr
          NoWorker,    \* "this thread owes no notify_one"
          MaxQueue     \* bound: a worker this far behind is sent no further batch

Workers == 0 .. NumWorkers - 1
Threads == Callers \cup {Main}
Items == Batch \cup {Stop}

ASSUME PoolAssumption ==
    /\ NumWorkers \in Nat \ {0}      \* WorkerPool throws for 0
    /\ MaxQueue \in Nat
    /\ Main \notin Callers
    /\ Stop \notin Batch
    /\ NoWorker \notin Workers
    /\ \A b \in Batch : b.conn \in Nat

VARIABLES tasks,     \* tasks[w]: Worker::_tasks, guarded by Worker::_mutex
          batch,     \* batch[w]: what is left of the local vector of Worker::_run
          wpc,       \* wpc[w]: where the thread of w is
          stopping,  \* stopping[w]: the local stop_thread of Worker::_run
          toNotify,  \* toNotify[t]: the worker t has pushed to and not notified yet
          live,      \* live[w]: the unique_ptr _workers[w] is not null
          stopIdx,   \* the worker WorkerPool::stop is at
          ostep      \* where Main is in the destruction of the pool

vars == <<tasks, batch, wpc, stopping, toNotify, live, stopIdx, ostep>>

WorkerPCs == {"fetch", "wait", "woken", "run", "send", "exited"}
OwnerSteps == {"up", "stop", "reset", "join", "gone"}

Init ==
    /\ tasks = [w \in Workers |-> <<>>]
    /\ batch = [w \in Workers |-> <<>>]
    /\ wpc = [w \in Workers |-> "fetch"]
    /\ stopping = [w \in Workers |-> FALSE]
    /\ toNotify = [t \in Threads |-> NoWorker]
    /\ live = [w \in Workers |-> TRUE]
    /\ stopIdx = 0
    /\ ostep = "up"

Goto(w, pc) == wpc' = [wpc EXCEPT ![w] = pc]

-------------------------------------------------------------------------------
(* Submitting. *)

(* WorkerPool::fetch: the worker that serves a connection. *)
Fetch(id) == id % NumWorkers

(* The vector after _tasks.push_back. *)
Pushed_Front(w, item) == <<item>> \o tasks[w]
Pushed(w, item) == Append(tasks[w], item)

(* The worker that the submitting thread has to notify after the unlock. *)
Owed_QuietStop(w, item) == IF item = Stop THEN NoWorker ELSE w
Owed(w, item) == w

(* Worker::submit up to the unlock. *)
Push(t, w, item) ==
    /\ toNotify[t] = NoWorker
    /\ tasks' = [tasks EXCEPT ![w] = Pushed(w, item)]
    /\ toNotify' = [toNotify EXCEPT ![t] = Owed(w, item)]

(* The notify_one that ends Worker::submit: it wakes the worker if it waits. *)
NotifyOne(t) ==
    /\ toNotify[t] # NoWorker
    /\ wpc' = [w \in Workers |->
                  IF w = toNotify[t] /\ wpc[w] = "wait" THEN "woken" ELSE wpc[w]]
    /\ toNotify' = [toNotify EXCEPT ![t] = NoWorker]
    /\ UNCHANGED <<tasks, batch, stopping, live, stopIdx, ostep>>

(* The pool's part of Reactor::dispatch: fetch the worker and submit to it. *)
Dispatch(t, b) ==
    LET w == Fetch(b.conn) IN
    /\ live[w]
    /\ Len(tasks[w]) < MaxQueue
    /\ Push(t, w, b)
    /\ UNCHANGED <<batch, wpc, stopping, live, stopIdx, ostep>>

-------------------------------------------------------------------------------
(* The worker thread. *)

(* Worker::_run goes through the vector it fetched, whatever is in it. *)
AfterFetch_StopFirst(w) == IF \E i \in DOMAIN tasks[w] : tasks[w][i] = Stop
                           THEN "exited" ELSE "run"
AfterFetch(w) == "run"

(* Worker::_fetch_tasks, from the (re)acquisition of the lock to its release: *)
(* an empty vector is waited for, any other is swapped out whole.             *)
FetchTasks(w) ==
    /\ wpc[w] \in {"fetch", "woken"}
    /\ IF tasks[w] = <<>>
       THEN Goto(w, "wait") /\ UNCHANGED <<tasks, batch, stopping>>
       ELSE /\ batch' = [batch EXCEPT ![w] = tasks[w]]
            /\ tasks' = [tasks EXCEPT ![w] = <<>>]
            /\ stopping' = [stopping EXCEPT ![w] = FALSE]
            /\ Goto(w, AfterFetch(w))
    /\ UNCHANGED <<toNotify, live, stopIdx, ostep>>

(* A condition variable may wake its waiter without a notification. *)
SpuriousWakeup(w) ==
    /\ wpc[w] = "wait"
    /\ Goto(w, "woken")
    /\ UNCHANGED <<tasks, batch, stopping, toNotify, live, stopIdx, ostep>>

(* _run_batch_task and the first half of Reactor::send: the batch is run and *)
(* its reply is with the reactor, which is yet to be notified.               *)
RunBatch(w) ==
    /\ wpc[w] = "run"
    /\ batch[w] # <<>>
    /\ Head(batch[w]) # Stop
    /\ Goto(w, "send")
    /\ UNCHANGED <<tasks, batch, stopping, toNotify, live, stopIdx, ostep>>

(* The second half of Reactor::send, and on to the next batch. *)
Sent(w) ==
    /\ wpc[w] = "send"
    /\ Goto(w, "run")
    /\ batch' = [batch EXCEPT ![w] = Tail(@)]
    /\ UNCHANGED <<tasks, stopping, toNotify, live, stopIdx, ostep>>

(* A stop marker is remembered, and the rest of the vector is still run. *)
SkipStop(w) ==
    /\ wpc[w] = "run"
    /\ batch[w] # <<>>
    /\ Head(batch[w]) = Stop
    /\ stopping' = [stopping EXCEPT ![w] = TRUE]
    /\ batch' = [batch EXCEPT ![w] = Tail(@)]
    /\ UNCHANGED <<tasks, wpc, toNotify, live, stopIdx, ostep>>

(* The end of a pass of _run: break if a stop marker was met, else loop. *)
Leaves_Never(w) == FALSE
Leaves(w) == stopping[w]
EndPass(w) ==
    /\ wpc[w] = "run"
    /\ batch[w] = <<>>
    /\ Goto(w, IF Leaves(w) THEN "exited" ELSE "fetch")
    /\ UNCHANGED <<tasks, batch, stopping, toNotify, live, stopIdx, ostep>>

WorkerStep(w) == FetchTasks(w) \/ RunBatch(w) \/ Sent(w) \/ SkipStop(w) \/ EndPass(w)

-------------------------------------------------------------------------------
(* Main: ~WorkerPool, which is WorkerPool::stop. *)

BeginStop ==
    /\ ostep = "up"
    /\ ostep' = "stop"
    /\ UNCHANGED <<tasks, batch, wpc, stopping, toNotify, live, stopIdx>>

(* worker->stop() *)
StopWorker ==
    /\ ostep = "stop"
    /\ Push(Main, stopIdx, Stop)
    /\ ostep' = "reset"
    /\ UNCHANGED <<batch, wpc, stopping, live, stopIdx>>

(* worker = nullptr: the pointer is null, then ~Worker stops the worker again. *)
ResetWorker ==
    /\ ostep = "reset"
    /\ live' = [live EXCEPT ![stopIdx] = FALSE]
    /\ Push(Main, stopIdx, Stop)
    /\ ostep' = "join"
    /\ UNCHANGED <<batch, wpc, stopping, stopIdx>>

(* When _worker.join() in ~Worker returns. *)
Joinable_Detached(w) == TRUE
Joinable(w) == wpc[w] = "exited"

(* The end of the loop over _workers. *)
LastWorker_OffByOne(w) == w = NumWorkers
LastWorker(w) == w + 1 = NumWorkers

(* The join, after which the Worker is destroyed, and on to the next one. *)
JoinWorker ==
    /\ ostep = "join"
    /\ toNotify[Main] = NoWorker
    /\ Joinable(stopIdx)
    /\ IF LastWorker(stopIdx)
       THEN ostep' = "gone" /\ UNCHANGED stopIdx
       ELSE ostep' = "stop" /\ stopIdx' = stopIdx + 1
    /\ UNCHANGED <<tasks, batch, wpc, stopping, toNotify, live>>

OwnerStep == StopWorker \/ ResetWorker \/ JoinWorker

-------------------------------------------------------------------------------
(* A caller dispatches, and Main begins the destruction, within the contract. *)
CallerDispatches(t, b) == ostep = "up" /\ Dispatch(t, b)
OwnerBeginsStop == (\A t \in Callers : toNotify[t] = NoWorker) /\ BeginStop

(* Nothing is left to do once the pool is gone. *)
Terminated == ostep = "gone" /\ UNCHANGED vars

Next ==
    \/ \E t \in Callers, b \in Batch : CallerDispatches(t, b)
    \/ \E t \in Threads : NotifyOne(t)
    \/ \E w \in Workers : WorkerStep(w) \/ SpuriousWakeup(w)
    \/ OwnerBeginsStop
    \/ OwnerStep
    \/ Terminated

(* Every thread that can go on is scheduled eventually; nothing obliges a     *)
(* caller to dispatch, Main to stop, or a wait to be woken spuriously.        *)
Fairness ==
    /\ \A w \in Workers : WF_vars(WorkerStep(w))
    /\ \A t \in Threads : WF_vars(NotifyOne(t))
    /\ WF_vars(OwnerStep)

SafeSpec == Init /\ [][Next]_vars
Spec == SafeSpec /\ Fairness

-------------------------------------------------------------------------------
(* Properties. *)

(* The type of every variable; the owner's index stays inside the vector. *)
TypeOK ==
    /\ tasks \in [Workers -> Seq(Items)]
    /\ batch \in [Workers -> Seq(Items)]
    /\ wpc \in [Workers -> WorkerPCs]
    /\ stopping \in [Workers -> BOOLEAN]
    /\ toNotify \in [Threads -> Workers \cup {NoWorker}]
    /\ live \in [Workers -> BOOLEAN]
    /\ stopIdx \in Workers
    /\ ostep \in OwnerSteps

(* No lost wakeup: a worker never sleeps on a queue with something in it      *)
(* unless the thread that put it there is still to call notify_one.  The code *)
(* notifies after the unlock, so the wait in _fetch_tasks must not fall       *)
(* between a push and its notification.                                       *)
NoLostWakeup ==
    \A w \in Workers :
        wpc[w] = "wait" /\ tasks[w] # <<>> => \E t \in Threads : toNotify[t] = w

(* A worker thread leaves _run with no batch behind: what was submitted       *)
(* before the stop marker has been run, also when the marker was fetched in   *)
(* the same vector, and only further stop markers are dropped.                *)
DrainedAtExit ==
    \A w \in Workers :
        wpc[w] = "exited" =>
            /\ batch[w] = <<>>
            /\ \A i \in DOMAIN tasks[w] : tasks[w][i] = Stop

(* A Worker whose destructor has returned. *)
Destroyed(w) == ostep = "gone" \/ w < stopIdx

(* A destroyed Worker is touched by no thread: its own has left _run, and no  *)
(* submit is between its push and its notify_one, which uses the Worker's     *)
(* condition variable after the lock was given back.                          *)
NothingUsesDestroyedWorker ==
    \A w \in Workers :
        Destroyed(w) => wpc[w] = "exited" /\ \A t \in Threads : toNotify[t] # w

(* Every worker is one FIFO queue, run once and in order, and it serves it:   *)
(* the vector that is pushed to and the vector that is being run are together *)
(* the queue of TaskQueue.                                                    *)
TQ == INSTANCE TaskQueue WITH
          q <- [w \in Workers |-> batch[w] \o tasks[w]],
          stopSeen <- stopping,
          halted <- [w \in Workers |-> wpc[w] = "exited"]
ImplementsTaskQueue == TQ!Spec

(* Stopping the pool returns: no join waits for a thread that sleeps on its   *)
(* condition variable or has missed its stop marker.                          *)
StopReturns == ostep = "stop" ~> ostep = "gone"
================================================================================
