----------------------------- MODULE EngineProofs ------------------------------
(*****************************************************************************)
(* The engine, for any number of workers, clients and commands: it keeps the *)
(* contract of the pool, what is proved of the pool and of the reactor holds *)
(* in it, every client gets its answers, each once and in the order it asked,*)
(* and a destroyed reactor is used only while an answer is owed or a worker  *)
(* is inside send.                                                           *)
(*                                                                           *)
(* First, the order of destruction in main() is enough for the contract of   *)
(* the worker pool.  Second, what the engine does to its components: a batch *)
(* or a reply is only ever where the connection it names has it.  Third, the *)
(* algebra of runs of commands, then what each move of an item from one      *)
(* place of a connection's pipeline to the next does to them; then the       *)
(* engine, whose steps are such moves.  Last, what of this a client leaves   *)
(* behind when it goes, and what a late worker can therefore have at hand.   *)
(*****************************************************************************)
EXTENDS Engine, SequenceTheorems, TLAPS

(* The loop thread owes a notification only inside dispatch, it is over when  *)
(* the reactor is destroyed, and the pool is destroyed after the reactor.     *)
(* The rest types what a batch is made of.                                    *)
ContractInv ==
    /\ DOMAIN toNotify = WP!Threads
    /\ lpc # "dispatch" => toNotify[Loop] = NoWorker
    /\ rpc = "destroyed" => lpc = "exited"
    /\ ostep # "up" => rpc = "destroyed"
    /\ connCnt \in Nat
    /\ DOMAIN hconn = Handles /\ DOMAIN hstate = Handles
    /\ \A h \in Handles : hstate[h] # "none" => hconn[h] \in ConnIds
    /\ asked \in [Handles -> 0 .. MaxCmds]

(* It holds at the start of main().                                           *)
LEMMA ContractInit == Init => ContractInv
BY EngineAssumption DEF Init, WP!Init, R!Init, ContractInv, WP!Threads

(* What a read completes is a batch.                                          *)
LEMMA BatchType ==
    ASSUME ContractInv, NEW h \in Handles, NEW k \in 1 .. MaxCmds, Read(h, k)
    PROVE  BatchOf(h, k) \in Batch
<1>1. hconn[h] \in ConnIds
  BY DEF Read, R!OnRead, ContractInv
<1>2. asked[h] \in 0 .. MaxCmds /\ asked[h] + k <= MaxCmds
  BY DEF Read, ContractInv
<1>3. Commands(h, asked[h], k) \in Runs
  <2> DEFINE r == <<asked[h], k>>
  <2>1. r \in {x \in (0 .. MaxCmds) \X (1 .. MaxCmds) : x[1] + x[2] <= MaxCmds}
    BY <1>2
  <2>2. r[1] = asked[h] /\ r[2] = k
    OBVIOUS
  <2> HIDE DEF r
  <2> QED BY <2>1, <2>2 DEF Runs
<1> QED BY <1>1, <1>3 DEF BatchOf, Batch

(* One step per action of the engine keeps it.                                *)
LEMMA ContractStep == ASSUME ContractInv, [Next]_vars PROVE ContractInv'
<1> USE EngineAssumption DEF ContractInv, LoopOnly, poolVars, clientVars
<1>1. ASSUME NEW h \in Handles, Connect(h) PROVE ContractInv'
  BY <1>1 DEF Connect, R!OnConnect, R!NextId, ConnIds
<1>2. ASSUME NEW h \in Handles, CloseConn(h) \/ Break(h) \/ WriteDone(h) PROVE ContractInv'
  BY <1>2 DEF CloseConn, R!OnReadClose, Break, R!PeerBreaks, WriteDone, R!OnWrite, R!tvars
<1>3. ASSUME NEW h \in Handles, NEW k \in 1 .. MaxCmds, Read(h, k) PROVE ContractInv'
  <2>1. asked' \in [Handles -> 0 .. MaxCmds]
    BY <1>3 DEF Read
  <2> QED BY <1>3, <2>1 DEF Read, R!OnRead, R!Polling, R!tvars, WP!Dispatch, WP!Push
<1>4. ASSUME EndDispatch PROVE ContractInv'
  BY <1>4 DEF EndDispatch, R!Dispatched, R!tvars, WP!NotifyOne, WP!Threads
<1>5. ASSUME TakeReplies \/ StopLoop \/ RequestStop PROVE ContractInv'
  BY <1>5 DEF TakeReplies, R!OnReply, R!SwapReplies, R!SendReply, StopLoop, R!OnStop,
              R!PcAfterStop, RequestStop, R!Stop, R!Polling, R!tvars
<1>6. ASSUME FinishIteration PROVE ContractInv'
  BY <1>6 DEF FinishIteration, R!EndIteration, R!Polling
<1>7. ASSUME DestroyReactor PROVE ContractInv'
  BY <1>7 DEF DestroyReactor, R!Destroy
<1>8. ASSUME NEW w \in Workers, WorkerStep(w) \/ Wakeup(w) PROVE ContractInv'
  <2>1. UNCHANGED <<toNotify, lpc, rpc, ostep, connCnt, hconn, hstate, asked>>
    BY <1>8 DEF WorkerStep, WorkerAlone, RunAndAppend, NotifyLoop, Wakeup,
                WP!FetchTasks, WP!SkipStop, WP!EndPass, WP!RunBatch, WP!Sent,
                WP!SpuriousWakeup, R!AppendReply, R!Notify, R!tvars, reactorVars
  <2> QED BY <2>1
<1>9. ASSUME DestroyPool PROVE ContractInv'
  <2>1. UNCHANGED <<lpc, rpc, connCnt, hconn, hstate, asked>>
    BY <1>9 DEF DestroyPool, reactorVars
  <2>2. DOMAIN toNotify' = WP!Threads /\ toNotify'[Loop] = toNotify[Loop]
    <3>1. \/ UNCHANGED toNotify
          \/ toNotify' = [toNotify EXCEPT ![Main] = NoWorker]
          \/ toNotify' = [toNotify EXCEPT ![Main] = WP!Owed(stopIdx, StopMarker)]
      BY <1>9 DEF DestroyPool, WP!BeginStop, WP!OwnerStep, WP!StopWorker, WP!ResetWorker,
                  WP!JoinWorker, WP!NotifyOne, WP!Push
    <3>2. Loop \in WP!Threads
      BY DEF WP!Threads
    <3> QED BY <3>1, <3>2
  <2>3. ostep' # "up" => rpc = "destroyed"
    BY <1>9 DEF DestroyPool, PoolReleased, WP!BeginStop, WP!OwnerStep, WP!StopWorker,
                WP!ResetWorker, WP!JoinWorker, WP!NotifyOne
  <2> QED BY <2>1, <2>2, <2>3
<1>10. ASSUME UNCHANGED vars PROVE ContractInv'
  BY <1>10 DEF vars, reactorVars
<1> QED BY <1>1, <1>2, <1>3, <1>4, <1>5, <1>6, <1>7, <1>8, <1>9, <1>10
        DEF Next, Step, Terminated

(* Every step of the engine is, for the pool, a step that its contract allows *)
(* or none.                                                                   *)
LEMMA PoolStep == ASSUME ContractInv, [Next]_vars PROVE [WP!Next]_WP!vars
<1> USE DEF WP!vars, poolVars
<1>1. ASSUME NEW h \in Handles, NEW k \in 1 .. MaxCmds, Read(h, k) PROVE WP!Next
  <2>1. ostep = "up"
    BY <1>1 DEF ContractInv, Read, R!OnRead, R!Polling
  <2> QED BY <1>1, <2>1, BatchType DEF Read, WP!CallerDispatches, WP!Next
<1>2. ASSUME EndDispatch PROVE WP!Next
  BY <1>2 DEF EndDispatch, WP!Next, WP!Threads
<1>3. ASSUME NEW w \in Workers, WorkerStep(w) \/ Wakeup(w) PROVE WP!Next
  BY <1>3 DEF WorkerStep, WorkerAlone, RunAndAppend, NotifyLoop, Wakeup,
              WP!WorkerStep, WP!Next, Workers, WP!Workers
<1>4. ASSUME DestroyPool PROVE WP!Next
  <2>1. PoolReleased /\ WP!BeginStop => WP!OwnerBeginsStop
    BY DEF PoolReleased, ContractInv, WP!OwnerBeginsStop
  <2> QED BY <1>4, <2>1 DEF DestroyPool, WP!Next, WP!Threads
<1>5. ASSUME NEW h \in Handles, Connect(h) \/ CloseConn(h) \/ Break(h) \/ WriteDone(h)
      PROVE  UNCHANGED WP!vars
  BY <1>5 DEF Connect, CloseConn, Break, WriteDone, LoopOnly
<1>6. ASSUME TakeReplies \/ FinishIteration \/ StopLoop \/ RequestStop \/ DestroyReactor
      PROVE  UNCHANGED WP!vars
  BY <1>6 DEF TakeReplies, FinishIteration, StopLoop, RequestStop, DestroyReactor, LoopOnly
<1>7. ASSUME UNCHANGED vars PROVE UNCHANGED WP!vars
  BY <1>7 DEF vars
<1> QED BY <1>1, <1>2, <1>3, <1>4, <1>5, <1>6, <1>7 DEF Next, Step, Terminated

(* The loop thread dispatches only to a pool that is up, and Main destroys    *)
(* the pool only when no dispatch is under way.                               *)
THEOREM EngineKeepsPoolContract == SafeSpec => KeepsPoolContract
<1>1. Init => WP!Init
  BY DEF Init
<1>2. ContractInv /\ [Next]_vars => ContractInv' /\ [WP!Next]_WP!vars
  BY ContractStep, PoolStep
<1> QED BY <1>1, <1>2, ContractInit, PTL DEF SafeSpec, KeepsPoolContract, WP!SafeSpec

-------------------------------------------------------------------------------
(* The components in the engine.                                             *)

(* The theorems about the components, about these instances of them. *)
WPP == INSTANCE WorkerPoolProofs WITH
           Callers <- {Loop}, Stop <- StopMarker, MaxQueue <- MaxLoad
RP == INSTANCE ReactorProofs WITH Senders <- Workers, Backlog <- Nat

-------------------------------------------------------------------------------
(* What the components assume of their constants the engine gives them.       *)
LEMMA PartsAssumptions == WPP!PoolAssumption /\ RP!ReactorAssumption
<1>1. \A b \in Batch : b.conn \in Nat
  BY EngineAssumption DEF Batch, ConnIds
<1>2. \A r \in Reply : r.conn \in ConnIds
  BY DEF Reply
<1>3. WPP!PoolAssumption
  BY <1>1, EngineAssumption DEF WPP!PoolAssumption, WPP!Workers, Workers
<1>4. RP!ReactorAssumption
  BY <1>2, EngineAssumption DEF RP!ReactorAssumption, RP!ConnIds, ConnIds
<1> QED BY <1>3, <1>4

(* The two names of each definition stand for the same.                       *)
LEMMA SamePool ==
    /\ WPP!TypeOK <=> WP!TypeOK
    /\ WPP!TypeOK' <=> WP!TypeOK'
    /\ [WPP!Next]_WPP!vars <=> [WP!Next]_WP!vars
<1>1. (WPP!TypeOK <=> WP!TypeOK) /\ (WPP!TypeOK' <=> WP!TypeOK')
  BY DEF WPP!TypeOK, WPP!Workers, WPP!Items, WPP!WorkerPCs, WPP!Threads, WPP!OwnerSteps,
         WP!TypeOK, WP!Workers, WP!Items, WP!WorkerPCs, WP!Threads, WP!OwnerSteps
<1>2. [WPP!Next]_WPP!vars <=> [WP!Next]_WP!vars
  BY DEF WPP!Next, WPP!vars, WPP!Workers, WPP!Threads, WPP!Fetch, WPP!Pushed, WPP!Owed,
         WPP!Push, WPP!Goto, WPP!NotifyOne, WPP!Dispatch, WPP!CallerDispatches,
         WPP!AfterFetch, WPP!FetchTasks, WPP!SpuriousWakeup, WPP!RunBatch, WPP!Sent,
         WPP!SkipStop, WPP!Leaves, WPP!EndPass, WPP!WorkerStep, WPP!BeginStop,
         WPP!OwnerBeginsStop, WPP!StopWorker, WPP!ResetWorker, WPP!Joinable,
         WPP!LastWorker, WPP!JoinWorker, WPP!OwnerStep, WPP!Terminated,
         WP!Next, WP!vars, WP!Workers, WP!Threads, WP!Fetch, WP!Pushed, WP!Owed,
         WP!Push, WP!Goto, WP!NotifyOne, WP!Dispatch, WP!CallerDispatches,
         WP!AfterFetch, WP!FetchTasks, WP!SpuriousWakeup, WP!RunBatch, WP!Sent,
         WP!SkipStop, WP!Leaves, WP!EndPass, WP!WorkerStep, WP!BeginStop,
         WP!OwnerBeginsStop, WP!StopWorker, WP!ResetWorker, WP!Joinable,
         WP!LastWorker, WP!JoinWorker, WP!OwnerStep, WP!Terminated
<1> QED BY <1>1, <1>2

(* The same of the reactor.                                                   *)
LEMMA SameReactor ==
    /\ RP!TypeOK <=> R!TypeOK
    /\ RP!TypeOK' <=> R!TypeOK'
    /\ [RP!Next]_RP!vars <=> [R!Next]_R!vars
<1>1. (RP!TypeOK <=> R!TypeOK) /\ (RP!TypeOK' <=> R!TypeOK')
  BY DEF RP!TypeOK, RP!ConnIds, RP!HandleStates, RP!LoopPCs, RP!OwnerPCs,
         R!TypeOK, R!ConnIds, R!HandleStates, R!LoopPCs, R!OwnerPCs
<1>2. [RP!Next]_RP!vars <=> [R!Next]_R!vars
  BY DEF RP!Next, RP!vars, RP!tvars, RP!ConnIds, RP!Polling, RP!NextId, RP!OnConnect,
         RP!OnRead, RP!Dispatched, RP!OnReadClose, RP!PeerBreaks, RP!OnWrite, RP!Appended,
         RP!AppendReply, RP!Notify, RP!OnReply, RP!LeftAfterSwap, RP!SwapReplies,
         RP!Target, RP!SendReply, RP!Registered, RP!EndIteration, RP!PcAfterStop,
         RP!StopFlagAfter, RP!OnStop, RP!Stop, RP!Destroy, RP!SenderSends,
         RP!SenderNotifies, RP!Terminated,
         R!Next, R!vars, R!tvars, R!ConnIds, R!Polling, R!NextId, R!OnConnect,
         R!OnRead, R!Dispatched, R!OnReadClose, R!PeerBreaks, R!OnWrite, R!Appended,
         R!AppendReply, R!Notify, R!OnReply, R!LeftAfterSwap, R!SwapReplies,
         R!Target, R!SendReply, R!Registered, R!EndIteration, R!PcAfterStop,
         R!StopFlagAfter, R!OnStop, R!Stop, R!Destroy, R!SenderSends,
         R!SenderNotifies, R!Terminated
<1> QED BY <1>1, <1>2

-------------------------------------------------------------------------------
(* Where items may be: a worker's two vectors hold stop markers and batches of*)
(* connections it serves, a write queue the replies of its own connection, and*)
(* no item names a connection that is not there yet.  A client that is not    *)
(* there yet has nothing.                                                     *)
Ours(b, w, n) == b # StopMarker => b.conn < n /\ WP!Fetch(b.conn) = w
ItemsInv ==
    /\ \A w \in Workers :
          /\ \A i \in 1 .. Len(batch[w]) : Ours(batch[w][i], w, connCnt)
          /\ \A i \in 1 .. Len(tasks[w]) : Ours(tasks[w][i], w, connCnt)
    /\ \A i \in 1 .. Len(replies) : replies[i].conn < connCnt
    /\ \A i \in 1 .. Len(sending) : sending[i].conn < connCnt
    /\ answered \in [Handles -> Seq([peer : Handles, n : 1 .. MaxCmds])]
    /\ \A h \in Handles :
          /\ IF hstate[h] = "none"
             THEN asked[h] = 0 /\ answered[h] = <<>> /\ wq[h] = <<>>
             ELSE hconn[h] < connCnt
          /\ \A i \in 1 .. Len(wq[h]) : wq[h][i].conn = hconn[h]

(* All that is known of the parts and of what is between them.                *)
PartsInv ==
    /\ ContractInv
    /\ WP!TypeOK /\ WPP!LocalOK
    /\ R!TypeOK /\ RP!TableInv
    /\ ItemsInv

(* All of it holds at the start of main().                                    *)
LEMMA PartsInit == Init => PartsInv
<1>. SUFFICES ASSUME Init PROVE PartsInv
  OBVIOUS
<1>1. ContractInv
  BY ContractInit
<1>2. WP!TypeOK /\ WPP!LocalOK
  BY EngineAssumption DEF Init, WP!Init, WP!TypeOK, WPP!LocalOK, WP!Workers, WPP!Workers,
     WP!WorkerPCs, WP!OwnerSteps
<1>3. R!TypeOK
  <2>1. <<>> \in Seq(Reply)
    BY EmptySeq
  <2>2. 0 \in 0 .. MaxConns /\ {} \in SUBSET Workers
    BY EngineAssumption
  <2>. QED
    BY <2>1, <2>2 DEF Init, R!Init, R!TypeOK, R!ConnIds, R!HandleStates, R!LoopPCs, R!OwnerPCs
<1>4. RP!TableInv
  BY DEF Init, R!Init, RP!TableInv, RP!TableMatchesHandles, RP!ConnIds, R!ConnIds
<1>5. ItemsInv
  <2>1. <<>> \in Seq([peer : Handles, n : 1 .. MaxCmds])
    BY EmptySeq
  <2>. QED
    BY <2>1 DEF Init, WP!Init, R!Init, ItemsInv, WP!Workers, Workers
<1>. QED
  BY <1>1, <1>2, <1>3, <1>4, <1>5 DEF PartsInv

(* The reply of a batch that a worker is about to run is one that a sender may*)
(* hand to the reactor.                                                       *)
LEMMA ReplyOfBatch ==
    ASSUME PartsInv, NEW w \in Workers, WP!RunBatch(w)
    PROVE  /\ Head(batch[w]) \in Batch
           /\ Head(batch[w]).conn < connCnt
           /\ WP!Fetch(Head(batch[w]).conn) = w
           /\ RunTasks(Head(batch[w])) \in Reply
           /\ RunTasks(Head(batch[w])).conn = Head(batch[w]).conn
           /\ RunTasks(Head(batch[w])).out = Head(batch[w]).cmds
<1>1. batch[w] # <<>> /\ Head(batch[w]) # StopMarker
  BY DEF WP!RunBatch
<1>2. batch[w] \in Seq(WP!Items)
  BY DEF PartsInv, WP!TypeOK, WP!Workers, Workers
<1>3. Head(batch[w]) \in WP!Items /\ 1 \in 1 .. Len(batch[w]) /\ Head(batch[w]) = batch[w][1]
  BY <1>1, <1>2
<1>4. Head(batch[w]) \in Batch
  BY <1>1, <1>3 DEF WP!Items
<1>5. Ours(Head(batch[w]), w, connCnt)
  BY <1>3 DEF PartsInv, ItemsInv
<1>6. RunTasks(Head(batch[w])) \in Reply
  BY <1>4 DEF RunTasks, Batch, Reply
<1>. QED
  BY <1>1, <1>4, <1>5, <1>6 DEF Ours, RunTasks

(* What a worker does to a reactor that has been destroyed.                   *)
Late ==
    /\ rpc = "destroyed"
    /\ \E w \in Workers : R!Notify(w) \/ \E r \in Reply : r.conn < connCnt /\ R!AppendReply(w, r)

(* Every step of the engine is, for the reactor, a step that its contract     *)
(* allows, or none, or one that comes after its destruction.                  *)
LEMMA ReactorStep == ASSUME PartsInv, [Next]_vars PROVE [R!Next]_R!vars \/ Late
<1>1. ASSUME NEW h \in Handles, Connect(h) PROVE R!Next
  BY <1>1 DEF Connect, LoopOnly, R!Next
<1>2. ASSUME NEW h \in Handles, CloseConn(h) \/ Break(h) \/ WriteDone(h) PROVE R!Next
  BY <1>2 DEF CloseConn, Break, WriteDone, LoopOnly, R!Next
<1>3. ASSUME NEW h \in Handles, NEW k \in 1 .. MaxCmds, Read(h, k) PROVE R!Next
  BY <1>3 DEF Read, R!Next
<1>4. ASSUME EndDispatch \/ TakeReplies \/ FinishIteration \/ StopLoop
      PROVE  R!Next
  BY <1>4 DEF EndDispatch, TakeReplies, FinishIteration, StopLoop, LoopOnly, R!Next
<1>5. ASSUME RequestStop \/ DestroyReactor PROVE R!Next
  BY <1>5 DEF RequestStop, DestroyReactor, LoopOnly, R!Next
<1>6. ASSUME NEW w \in Workers, RunAndAppend(w) PROVE R!Next \/ Late
  <2>. DEFINE r == RunTasks(Head(batch[w]))
  <2>1. r \in Reply /\ r.conn < connCnt /\ R!AppendReply(w, r)
    BY <1>6, ReplyOfBatch DEF RunAndAppend
  <2>2. \A h \in Handles : Len(replies) + Len(sending) + Len(wq[h]) \in Nat
    BY DEF PartsInv, R!TypeOK
  <2>. HIDE DEF r
  <2>3. CASE rpc # "destroyed"
    <3>1. R!SenderSends(w, r)
      BY <2>1, <2>2, <2>3 DEF R!SenderSends
    <3>. QED
      BY <2>1, <3>1 DEF R!Next
  <2>4. CASE rpc = "destroyed"
    BY <2>1, <2>4 DEF Late
  <2>. QED
    BY <2>3, <2>4
<1>7. ASSUME NEW w \in Workers, NotifyLoop(w) PROVE R!Next \/ Late
  BY <1>7 DEF NotifyLoop, R!SenderNotifies, R!Next, Late
<1>8. ASSUME NEW w \in Workers, WorkerAlone(w) \/ Wakeup(w) PROVE UNCHANGED R!vars
  BY <1>8 DEF WorkerAlone, Wakeup, reactorVars, R!vars, R!tvars
<1>9. ASSUME DestroyPool \/ UNCHANGED vars PROVE UNCHANGED R!vars
  BY <1>9 DEF DestroyPool, vars, reactorVars, R!vars, R!tvars
<1>. QED
  BY <1>1, <1>2, <1>3, <1>4, <1>5, <1>6, <1>7, <1>8, <1>9
     DEF Next, Step, WorkerStep, Terminated

(* It appends and notifies, and changes nothing else of the reactor's.        *)
LEMMA LateStep ==
    ASSUME PartsInv, Late
    PROVE  /\ R!TypeOK' /\ RP!TableInv'
           /\ UNCHANGED <<connCnt, conns, hconn, hstate, sending, lpc, rpc>>
           /\ RP!NoStrandedReply => RP!NoStrandedReply'
<1>1. /\ UNCHANGED <<connCnt, conns, hconn, hstate, broken, wq, sending, stopAsync, stopFlag, lpc, rpc>>
      /\ replies' = replies \/ \E r \in Reply : replies' = Append(replies, r)
      /\ replyAsync' = replyAsync \/ replyAsync' = TRUE
      /\ \E w \in Workers : notifying' = notifying \cup {w} \/ notifying' = notifying \ {w}
  BY DEF Late, R!Notify, R!AppendReply, R!Appended, R!tvars
<1>2. replies' \in Seq(Reply) /\ notifying' \in SUBSET Workers /\ replyAsync' \in BOOLEAN
  <2>1. replies \in Seq(Reply) /\ notifying \in SUBSET Workers /\ replyAsync \in BOOLEAN
    BY DEF PartsInv, R!TypeOK
  <2>2. replies' \in Seq(Reply)
    BY <1>1, <2>1, AppendProperties
  <2>3. notifying' \in SUBSET Workers
    BY <1>1, <2>1
  <2>4. replyAsync' \in BOOLEAN
    BY <1>1, <2>1
  <2>. QED
    BY <2>2, <2>3, <2>4
<1>3. R!TypeOK'
  BY <1>1, <1>2 DEF PartsInv, R!TypeOK
<1>4. RP!TableInv'
  BY <1>1 DEF PartsInv, RP!TableInv, RP!TableMatchesHandles
<1>5. RP!NoStrandedReply => RP!NoStrandedReply'
  BY DEF Late, R!Notify, R!AppendReply, R!Appended, RP!NoStrandedReply, R!tvars
<1>. QED
  BY <1>1, <1>3, <1>4, <1>5

(* What a read, a batch or a reply carries is a sequence of commands.         *)
LEMMA RunsType == Runs \subseteq Seq([peer : Handles, n : 1 .. MaxCmds])
<1>. SUFFICES ASSUME NEW run \in Runs
              PROVE  run \in Seq([peer : Handles, n : 1 .. MaxCmds])
  OBVIOUS
<1>1. PICK h \in Handles, r \in {x \in (0 .. MaxCmds) \X (1 .. MaxCmds) : x[1] + x[2] <= MaxCmds} :
        run = Commands(h, r[1], r[2])
  BY DEF Runs
<1>2. r[1] \in 0 .. MaxCmds /\ r[2] \in 1 .. MaxCmds /\ r[1] + r[2] <= MaxCmds
  BY <1>1
<1>3. run = [i \in 1 .. r[2] |-> Cmd(h, r[1] + i)]
  BY <1>1 DEF Commands
<1>4. \A i \in 1 .. r[2] : Cmd(h, r[1] + i) \in [peer : Handles, n : 1 .. MaxCmds]
  BY <1>2, EngineAssumption DEF Cmd
<1>5. run \in [1 .. r[2] -> [peer : Handles, n : 1 .. MaxCmds]]
  BY <1>3, <1>4
<1>. DEFINE S == [peer : Handles, n : 1 .. MaxCmds]
            k == r[2]
<1>6. k \in Nat /\ run \in [1 .. k -> S]
  BY <1>2, <1>5, EngineAssumption
<1>. HIDE DEF S, k
<1>7. run \in Seq(S)
  BY <1>6
<1>. QED
  BY <1>7 DEF S

(* What the steps of a worker and of Main do to the vectors of the workers.   *)
LEMMA VectorsStep ==
    ASSUME PartsInv, NEW w \in Workers,
           \/ WP!FetchTasks(w) \/ WP!SkipStop(w) \/ WP!EndPass(w) \/ WP!RunBatch(w)
           \/ WP!Sent(w) \/ WP!SpuriousWakeup(w)
    PROVE  \A v \in Workers :
              /\ \A i \in 1 .. Len(batch'[v]) : Ours(batch'[v][i], v, connCnt)
              /\ \A i \in 1 .. Len(tasks'[v]) : Ours(tasks'[v][i], v, connCnt)
<1>1. /\ tasks \in [Workers -> Seq(WP!Items)]
      /\ batch \in [Workers -> Seq(WP!Items)]
  BY DEF PartsInv, WP!TypeOK, WP!Workers, Workers
<1>2. \A v \in Workers :
         /\ \A i \in 1 .. Len(batch[v]) : Ours(batch[v][i], v, connCnt)
         /\ \A i \in 1 .. Len(tasks[v]) : Ours(tasks[v][i], v, connCnt)
  BY DEF PartsInv, ItemsInv
<1>4. CASE WP!RunBatch(w) \/ WP!EndPass(w) \/ WP!SpuriousWakeup(w)
  BY <1>2, <1>4 DEF WP!RunBatch, WP!EndPass, WP!SpuriousWakeup
<1>5. CASE WP!FetchTasks(w)
  <2>1. CASE tasks[w] = <<>>
    BY <1>2, <1>5, <2>1 DEF WP!FetchTasks
  <2>2. CASE tasks[w] # <<>>
    <3>1. \A v \in Workers : /\ batch'[v] = IF v = w THEN tasks[w] ELSE batch[v]
                             /\ tasks'[v] = IF v = w THEN <<>> ELSE tasks[v]
      BY <1>1, <1>5, <2>2 DEF WP!FetchTasks
    <3>. QED
      BY <1>2, <3>1
  <2>. QED
    BY <2>1, <2>2
<1>6. CASE WP!SkipStop(w) \/ WP!Sent(w)
  <2>1. batch[w] # <<>>
    BY <1>6 DEF WP!SkipStop, WP!Sent, PartsInv, WPP!LocalOK, WPP!Workers, Workers
  <2>2. \A v \in Workers : /\ batch'[v] = IF v = w THEN Tail(batch[w]) ELSE batch[v]
                           /\ tasks'[v] = tasks[v]
    BY <1>1, <1>6 DEF WP!SkipStop, WP!Sent
  <2>3. \A i \in 1 .. Len(Tail(batch[w])) :
           Tail(batch[w])[i] = batch[w][i + 1] /\ i + 1 \in 1 .. Len(batch[w])
    BY <1>1, <2>1
  <2>. QED
    BY <1>2, <2>2, <2>3
<1>. QED
  BY <1>4, <1>5, <1>6

(* A push of a stop marker or of a batch for the worker.                      *)
LEMMA PushStep ==
    ASSUME PartsInv, NEW t, NEW v \in Workers, NEW item \in WP!Items, Ours(item, v, connCnt),
           WP!Push(t, v, item), batch' = batch
    PROVE  \A w \in Workers :
              /\ \A i \in 1 .. Len(batch'[w]) : Ours(batch'[w][i], w, connCnt)
              /\ \A i \in 1 .. Len(tasks'[w]) : Ours(tasks'[w][i], w, connCnt)
<1>1. tasks \in [Workers -> Seq(WP!Items)]
  BY DEF PartsInv, WP!TypeOK, WP!Workers, Workers
<1>2. \A w \in Workers :
         /\ \A i \in 1 .. Len(batch[w]) : Ours(batch[w][i], w, connCnt)
         /\ \A i \in 1 .. Len(tasks[w]) : Ours(tasks[w][i], w, connCnt)
  BY DEF PartsInv, ItemsInv
<1>4. \A w \in Workers : tasks'[w] = IF w = v THEN Append(tasks[v], item) ELSE tasks[w]
  BY <1>1 DEF WP!Push, WP!Pushed
<1>5. \A i \in 1 .. Len(Append(tasks[v], item)) :
         \/ i \in 1 .. Len(tasks[v]) /\ Append(tasks[v], item)[i] = tasks[v][i]
         \/ Append(tasks[v], item)[i] = item
  BY <1>1
<1>. QED
  BY <1>2, <1>4, <1>5

(* What the clients have been written keeps its type.                         *)
LEMMA AnsweredStep ==
    ASSUME PartsInv, NEW h \in Handles, WriteDone(h)
    PROVE  answered' \in [Handles -> Seq([peer : Handles, n : 1 .. MaxCmds])]
<1>. DEFINE S == Seq([peer : Handles, n : 1 .. MaxCmds])
<1>1. wq[h] \in Seq(Reply) /\ wq[h] # <<>>
  BY DEF WriteDone, R!OnWrite, PartsInv, R!TypeOK
<1>2. Head(wq[h]) \in Reply
  BY <1>1, HeadTailProperties
<1>3. Head(wq[h]).out \in S
  BY <1>2, RunsType DEF Reply
<1>4. answered \in [Handles -> S]
  BY DEF PartsInv, ItemsInv
<1>5. answered[h] \o Head(wq[h]).out \in S
  BY <1>3, <1>4, ConcatProperties
<1>6. answered' = [answered EXCEPT ![h] = IF broken[h] THEN @ ELSE @ \o Head(wq[h]).out]
  BY DEF WriteDone
<1>. HIDE DEF S
<1>7. answered' \in [Handles -> S]
  BY <1>4, <1>5, <1>6
<1>. QED
  BY <1>7 DEF S

(* One step of the engine, one action after the other: what the parts hold    *)
(* stays where it may be.                                                     *)
LEMMA ItemsStep == ASSUME PartsInv, [Next]_vars PROVE ItemsInv'
<1>. DEFINE Queues(n) ==
        \A w \in Workers :
           /\ \A i \in 1 .. Len(batch'[w]) : Ours(batch'[w][i], w, n)
           /\ \A i \in 1 .. Len(tasks'[w]) : Ours(tasks'[w][i], w, n)
<1>a. connCnt \in Nat
  BY DEF PartsInv, ContractInv
<1>b. ASSUME UNCHANGED poolVars PROVE Queues(connCnt)
  BY <1>b DEF PartsInv, ItemsInv, poolVars
<1>1. ASSUME NEW h \in Handles, Connect(h) PROVE ItemsInv'
  <2>1. Queues(connCnt)
    BY <1>1, <1>b DEF Connect, LoopOnly
  <2>2. Queues(connCnt')
    <3>1. connCnt' = connCnt + 1
      BY <1>1 DEF Connect, LoopOnly, R!OnConnect
    <3>2. \A w \in Workers : tasks[w] \in Seq(WP!Items) /\ batch[w] \in Seq(WP!Items)
      BY DEF PartsInv, WP!TypeOK, WP!Workers, Workers
    <3>3. \A b \in WP!Items, w \in Workers : Ours(b, w, connCnt) => Ours(b, w, connCnt')
      BY <1>a, <3>1, EngineAssumption DEF Ours, WP!Items, Batch, ConnIds
    <3>4. UNCHANGED <<batch, tasks>>
      BY <1>1 DEF Connect, LoopOnly, poolVars
    <3>. QED
      BY <2>1, <3>2, <3>3, <3>4
  <2>3. /\ connCnt' = connCnt + 1
        /\ hstate[h] = "none"
        /\ hstate' = [hstate EXCEPT ![h] = hstate'[h]] /\ hstate'[h] # "none"
        /\ hconn' = [hconn EXCEPT ![h] = connCnt]
        /\ UNCHANGED <<wq, replies, sending, asked, answered>>
    BY <1>1 DEF Connect, LoopOnly, R!OnConnect, R!NextId, clientVars, PartsInv, R!TypeOK
  <2>4. /\ \A i \in 1 .. Len(replies) : replies[i].conn < connCnt'
        /\ \A i \in 1 .. Len(sending) : sending[i].conn < connCnt'
    <3>1. /\ \A i \in 1 .. Len(replies) : replies[i] \in Reply
          /\ \A i \in 1 .. Len(sending) : sending[i] \in Reply
      BY DEF PartsInv, R!TypeOK
    <3>2. \A r \in Reply : r.conn \in Nat
      BY EngineAssumption DEF Reply, ConnIds
    <3>. QED
      BY <1>a, <2>3, <3>1, <3>2 DEF PartsInv, ItemsInv
  <2>5. ASSUME NEW g \in Handles
        PROVE  /\ IF hstate'[g] = "none"
                  THEN asked[g] = 0 /\ answered[g] = <<>> /\ wq[g] = <<>>
                  ELSE hconn'[g] < connCnt'
               /\ \A i \in 1 .. Len(wq[g]) : wq[g][i].conn = hconn'[g]
    <3>1. CASE g = h
      BY <1>a, <2>3, <3>1 DEF PartsInv, ItemsInv, R!TypeOK
    <3>2. CASE g # h
      <4>1. hconn'[g] = hconn[g] /\ hstate'[g] = hstate[g]
        BY <2>3, <3>2 DEF PartsInv, R!TypeOK
      <4>2. hstate[g] # "none" => hconn[g] \in Nat
        BY EngineAssumption DEF PartsInv, ContractInv, ConnIds
      <4>. QED
        BY <1>a, <2>3, <4>1, <4>2 DEF PartsInv, ItemsInv
    <3>. QED
      BY <3>1, <3>2
  <2>. QED
    BY <2>2, <2>3, <2>4, <2>5 DEF PartsInv, ItemsInv
<1>2. ASSUME NEW h \in Handles, CloseConn(h) \/ Break(h) PROVE ItemsInv'
  <2>1. \A g \in Handles : hstate'[g] = "none" <=> hstate[g] = "none"
    BY <1>2 DEF CloseConn, Break, LoopOnly, R!OnReadClose, R!PeerBreaks, PartsInv, R!TypeOK
  <2>2. UNCHANGED <<poolVars, clientVars, connCnt, hconn, wq, replies, sending>>
    BY <1>2 DEF CloseConn, Break, LoopOnly, R!OnReadClose, R!PeerBreaks
  <2>. QED
    BY <2>1, <2>2 DEF PartsInv, ItemsInv, poolVars, clientVars
<1>3. ASSUME NEW h \in Handles, WriteDone(h) PROVE ItemsInv'
  <2>1. answered' \in [Handles -> Seq([peer : Handles, n : 1 .. MaxCmds])]
    BY <1>3, AnsweredStep
  <2>2. /\ UNCHANGED <<poolVars, asked, connCnt, hstate, hconn, replies, sending>>
        /\ hstate[h] = "open"
        /\ wq[h] # <<>> /\ wq' = [wq EXCEPT ![h] = Tail(wq[h])]
    BY <1>3 DEF WriteDone, R!OnWrite, R!tvars
  <2>3. \A g \in Handles : hstate[g] = "none" => answered'[g] = answered[g] /\ wq'[g] = wq[g]
    BY <1>3, <2>2 DEF WriteDone, PartsInv, ItemsInv, R!TypeOK
  <2>4. wq \in [Handles -> Seq(Reply)]
    BY DEF PartsInv, R!TypeOK
  <2>5. \A i \in 1 .. Len(Tail(wq[h])) : Tail(wq[h])[i] = wq[h][i + 1] /\ i + 1 \in 1 .. Len(wq[h])
    BY <2>2, <2>4
  <2>6. \A g \in Handles : \A i \in 1 .. Len(wq'[g]) : wq'[g][i].conn = hconn[g]
    BY <2>2, <2>4, <2>5 DEF PartsInv, ItemsInv
  <2>. QED
    BY <2>1, <2>2, <2>3, <2>6 DEF PartsInv, ItemsInv, poolVars
<1>4. ASSUME NEW h \in Handles, NEW k \in 1 .. MaxCmds, Read(h, k) PROVE ItemsInv'
  <2>. DEFINE b == BatchOf(h, k)
              v == WP!Fetch(hconn[h])
  <2>1. b \in Batch /\ b.conn = hconn[h]
    BY <1>4, BatchType DEF PartsInv, BatchOf
  <2>2. hstate[h] = "open" /\ hconn[h] \in ConnIds /\ hconn[h] < connCnt
    BY <1>4 DEF Read, R!OnRead, PartsInv, ItemsInv, ContractInv
  <2>3. v \in Workers
    BY <2>2, EngineAssumption DEF WP!Fetch, Workers, ConnIds
  <2>4. WP!Push(Loop, v, b) /\ batch' = batch
    BY <1>4, <2>1 DEF Read, WP!Dispatch
  <2>5. b \in WP!Items /\ Ours(b, v, connCnt)
    BY <2>1, <2>2 DEF WP!Items, Ours
  <2>. HIDE DEF b, v
  <2>6. Queues(connCnt)
    BY <2>3, <2>4, <2>5, PushStep
  <2>7. UNCHANGED <<connCnt, hconn, hstate, wq, replies, sending, answered>>
    BY <1>4 DEF Read, R!OnRead, R!tvars
  <2>8. \A g \in Handles : hstate[g] = "none" => asked'[g] = asked[g]
    BY <1>4, <2>2 DEF Read, PartsInv, ContractInv
  <2>. QED
    BY <2>6, <2>7, <2>8 DEF PartsInv, ItemsInv
<1>5. ASSUME EndDispatch \/ StopLoop \/ RequestStop PROVE ItemsInv'
  <2>1. UNCHANGED <<tasks, batch, clientVars, connCnt, hstate, hconn, wq, replies, sending>>
    BY <1>5 DEF EndDispatch, R!Dispatched, WP!NotifyOne, StopLoop, R!OnStop, RequestStop,
                R!Stop, LoopOnly, poolVars, clientVars, R!tvars
  <2>. QED
    BY <2>1 DEF PartsInv, ItemsInv, clientVars
<1>6. ASSUME LoopOnly(R!OnReply) \/ LoopOnly(R!SwapReplies) PROVE ItemsInv'
  <2>1. UNCHANGED <<poolVars, clientVars, connCnt, hstate, hconn, wq>>
    BY <1>6 DEF LoopOnly, R!OnReply, R!SwapReplies, R!tvars
  <2>2. /\ \A i \in 1 .. Len(replies') : replies'[i].conn < connCnt
        /\ \A i \in 1 .. Len(sending') : sending'[i].conn < connCnt
    BY <1>6 DEF LoopOnly, R!OnReply, R!SwapReplies, R!LeftAfterSwap, PartsInv, ItemsInv
  <2>. QED
    BY <2>1, <2>2 DEF PartsInv, ItemsInv, poolVars, clientVars
<1>7. ASSUME LoopOnly(R!SendReply) PROVE ItemsInv'
  <2>1. UNCHANGED <<poolVars, clientVars, connCnt, hstate, hconn, replies>>
    BY <1>7 DEF LoopOnly, R!SendReply, R!tvars
  <2>. DEFINE r == Head(sending)
  <2>2. sending \in Seq(Reply) /\ sending # <<>> /\ sending' = Tail(sending)
    BY <1>7 DEF LoopOnly, R!SendReply, PartsInv, R!TypeOK
  <2>3. \A i \in 1 .. Len(Tail(sending)) :
           Tail(sending)[i] = sending[i + 1] /\ i + 1 \in 1 .. Len(sending)
    BY <2>2
  <2>4. \A i \in 1 .. Len(sending') : sending'[i].conn < connCnt
    BY <2>2, <2>3 DEF PartsInv, ItemsInv
  <2>5. r \in Reply
    BY <2>2, HeadTailProperties
  <2>6. \A g \in Handles :
           wq'[g] = IF g = R!Target(r) /\ hstate[g] = "open" THEN Append(wq[g], r) ELSE wq[g]
    BY <1>7 DEF LoopOnly, R!SendReply
  <2>. HIDE DEF r
  <2>7. \A g \in Handles : g = R!Target(r) /\ hstate[g] = "open" => r.conn = hconn[g]
    BY <2>5, EngineAssumption
       DEF R!Target, Reply, PartsInv, RP!TableInv, RP!TableMatchesHandles, ConnIds, RP!ConnIds
  <2>8. \A g \in Handles : wq[g] \in Seq(Reply)
    BY DEF PartsInv, R!TypeOK
  <2>9. ASSUME NEW g \in Handles, g = R!Target(r), hstate[g] = "open"
        PROVE  \A i \in 1 .. Len(Append(wq[g], r)) : Append(wq[g], r)[i].conn = hconn[g]
    <3>1. \A i \in 1 .. Len(Append(wq[g], r)) :
             \/ i \in 1 .. Len(wq[g]) /\ Append(wq[g], r)[i] = wq[g][i]
             \/ Append(wq[g], r)[i] = r
      BY <2>8, <2>5
    <3>. QED
      BY <3>1, <2>7, <2>9 DEF PartsInv, ItemsInv
  <2>10. \A g \in Handles : \A i \in 1 .. Len(wq'[g]) : wq'[g][i].conn = hconn[g]
    BY <2>6, <2>9 DEF PartsInv, ItemsInv
  <2>11. \A g \in Handles : hstate[g] = "none" => wq'[g] = <<>>
    BY <2>6 DEF PartsInv, ItemsInv
  <2>. QED
    BY <2>1, <2>4, <2>10, <2>11 DEF PartsInv, ItemsInv, poolVars, clientVars
<1>8. ASSUME FinishIteration \/ DestroyReactor PROVE ItemsInv'
  <2>1. UNCHANGED <<poolVars, clientVars, connCnt, hconn, sending>>
    BY <1>8 DEF FinishIteration, DestroyReactor, LoopOnly, R!EndIteration, R!Destroy
  <2>2. replies' \in {replies, <<>>}
    BY <1>8 DEF FinishIteration, DestroyReactor, LoopOnly, R!EndIteration, R!Destroy
  <2>3. \A g \in Handles : wq'[g] \in {wq[g], <<>>} /\ (hstate'[g] = "none" <=> hstate[g] = "none")
    BY <1>8 DEF FinishIteration, DestroyReactor, LoopOnly, R!EndIteration, R!Destroy
  <2>4. \A i \in 1 .. Len(replies') : replies'[i].conn < connCnt
    BY <2>2 DEF PartsInv, ItemsInv
  <2>5. ASSUME NEW g \in Handles
        PROVE  /\ hstate'[g] = "none" => wq'[g] = <<>>
               /\ \A i \in 1 .. Len(wq'[g]) : wq'[g][i].conn = hconn[g]
    <3>1. /\ hstate[g] = "none" => wq[g] = <<>>
          /\ \A i \in 1 .. Len(wq[g]) : wq[g][i].conn = hconn[g]
      BY DEF PartsInv, ItemsInv
    <3>2. CASE wq'[g] = wq[g]
      BY ONLY <2>3, <3>1, <3>2
    <3>3. CASE wq'[g] = <<>>
      BY ONLY <3>3
    <3>. QED
      BY ONLY <2>3, <3>2, <3>3
  <2>. QED
    BY <2>1, <2>3, <2>4, <2>5 DEF PartsInv, ItemsInv, poolVars, clientVars
<1>9. ASSUME NEW w \in Workers, WorkerStep(w) \/ Wakeup(w) PROVE ItemsInv'
  <2>1. Queues(connCnt)
    BY <1>9, VectorsStep DEF WorkerStep, WorkerAlone, RunAndAppend, NotifyLoop, Wakeup
  <2>2. UNCHANGED <<clientVars, connCnt, hstate, hconn, wq, sending>>
    BY <1>9 DEF WorkerStep, WorkerAlone, RunAndAppend, NotifyLoop, Wakeup,
                R!AppendReply, R!Notify, R!tvars, reactorVars, clientVars
  <2>3. \A i \in 1 .. Len(replies') : replies'[i].conn < connCnt
    <3>1. CASE RunAndAppend(w)
      <4>. DEFINE r == RunTasks(Head(batch[w]))
      <4>1. r \in Reply /\ r.conn < connCnt /\ replies' = Append(replies, r)
        BY <3>1, ReplyOfBatch DEF RunAndAppend, R!AppendReply
      <4>. HIDE DEF r
      <4>2. replies \in Seq(Reply)
        BY DEF PartsInv, R!TypeOK
      <4>3. \A i \in 1 .. Len(Append(replies, r)) :
               \/ i \in 1 .. Len(replies) /\ Append(replies, r)[i] = replies[i]
               \/ Append(replies, r)[i] = r
        BY <4>2
      <4>. QED
        BY <4>1, <4>3 DEF PartsInv, ItemsInv
    <3>2. CASE UNCHANGED replies
      BY <3>2 DEF PartsInv, ItemsInv
    <3>. QED
      BY <1>9, <3>1, <3>2
         DEF WorkerStep, WorkerAlone, NotifyLoop, Wakeup, R!Notify, reactorVars
  <2>. QED
    BY <2>1, <2>2, <2>3 DEF PartsInv, ItemsInv, clientVars
<1>10. ASSUME DestroyPool PROVE ItemsInv'
  <2>1. Queues(connCnt)
    <3>1. CASE WP!StopWorker \/ WP!ResetWorker
      <4>1. WP!Push(Main, stopIdx, StopMarker) /\ batch' = batch
        BY <3>1 DEF WP!StopWorker, WP!ResetWorker
      <4>2. stopIdx \in Workers /\ StopMarker \in WP!Items /\ Ours(StopMarker, stopIdx, connCnt)
        BY DEF PartsInv, WP!TypeOK, WP!Workers, Workers, WP!Items, Ours
      <4>. QED
        BY <4>1, <4>2, PushStep
    <3>2. CASE UNCHANGED <<batch, tasks>>
      BY <3>2 DEF PartsInv, ItemsInv
    <3>. QED
      BY <1>10, <3>1, <3>2 DEF DestroyPool, WP!BeginStop, WP!OwnerStep, WP!JoinWorker, WP!NotifyOne
  <2>2. UNCHANGED <<clientVars, connCnt, hstate, hconn, wq, replies, sending>>
    BY <1>10 DEF DestroyPool, reactorVars
  <2>. QED
    BY <2>1, <2>2 DEF PartsInv, ItemsInv, clientVars
<1>11. ASSUME UNCHANGED vars PROVE ItemsInv'
  BY <1>11 DEF vars, poolVars, reactorVars, clientVars, PartsInv, ItemsInv
<1>. QED
  BY <1>1, <1>2, <1>3, <1>4, <1>5, <1>6, <1>7, <1>8, <1>9, <1>10, <1>11
     DEF Next, Step, TakeReplies, LoopOnly, Terminated

(* The parts of the engine keep what is known of them.                        *)
LEMMA PartsStep == ASSUME PartsInv, [Next]_vars PROVE PartsInv'
<1>1. ContractInv'
  BY ContractStep DEF PartsInv
<1>2. [WP!Next]_WP!vars /\ ([R!Next]_R!vars \/ Late)
  BY PoolStep, ReactorStep DEF PartsInv
<1>3. WPP!TypeOK /\ RP!TypeOK /\ [WPP!Next]_WPP!vars /\ ([RP!Next]_RP!vars \/ Late)
  BY <1>2, SamePool, SameReactor DEF PartsInv
<1>4. WPP!TypeOK' /\ WPP!LocalOK'
  BY <1>3, PartsAssumptions, WPP!TypeStep, WPP!LocalStep DEF PartsInv
<1>5. RP!TypeOK' /\ RP!TableInv'
  <2>1. CASE [RP!Next]_RP!vars
    BY <1>3, <2>1, PartsAssumptions, RP!TypeStep, RP!TableStep DEF PartsInv
  <2>2. CASE Late
    BY <2>2, LateStep, SameReactor
  <2>. QED
    BY <1>3, <2>1, <2>2
<1>6. ItemsInv'
  BY ItemsStep
<1>. QED
  BY <1>1, <1>4, <1>5, <1>6, SamePool, SameReactor DEF PartsInv

(* Both components and what the clients see keep their types: what is read,   *)
(* run, sent and written are runs of commands of clients.                     *)
THEOREM EngineTypeCorrect == SafeSpec => []TypeOK
<1>. DEFINE Memory == memory \in {"valid", "corrupt", "aborted"}
<1>1. Init => Memory
  BY DEF Init
<1>2. ASSUME Memory, [Next]_vars PROVE Memory'
  BY <1>2 DEF Next, Step, Terminated, vars, Connect, CloseConn, Break, WriteDone, Read,
              EndDispatch, TakeReplies, FinishIteration, StopLoop, WorkerStep, WorkerAlone,
              RunAndAppend, NotifyLoop, UsesReactor, Wakeup, RequestStop, DestroyReactor,
              DestroyPool, LoopOnly
<1>3. PartsInv /\ Memory => TypeOK
  BY DEF PartsInv, ContractInv, ItemsInv, TypeOK
<1>4. PartsInv /\ [Next]_vars => PartsInv'
  BY PartsStep
<1>. HIDE DEF Memory
<1>. QED
  BY <1>1, <1>2, <1>3, <1>4, PartsInit, PTL DEF SafeSpec

(* The pool inside the engine, with main()'s order of destruction: no worker  *)
(* sleeps on a batch, none ends before its batches are run, and none is used  *)
(* when it is destroyed; not even if a late batch has used freed memory and   *)
(* the process goes on.                                                       *)
THEOREM PoolInEngine ==
    SafeSpec => [](WP!NoLostWakeup /\ WP!DrainedAtExit /\ WP!NothingUsesDestroyedWorker)
<1>1. WP!Init => WPP!Init
  BY DEF WP!Init, WPP!Init, WP!Workers, WPP!Workers, WP!Threads, WPP!Threads
<1>2. [WP!Next]_WP!vars => [WPP!Next]_WPP!vars
  BY SamePool
<1>3. /\ WPP!NoLostWakeup => WP!NoLostWakeup
      /\ WPP!DrainedAtExit => WP!DrainedAtExit
      /\ WPP!NothingUsesDestroyedWorker => WP!NothingUsesDestroyedWorker
  BY DEF WP!NoLostWakeup, WPP!NoLostWakeup, WP!DrainedAtExit, WPP!DrainedAtExit,
         WP!NothingUsesDestroyedWorker, WPP!NothingUsesDestroyedWorker, WP!Destroyed,
         WPP!Destroyed, WP!Workers, WPP!Workers, WP!Threads, WPP!Threads,
         WP!Fetch, WPP!Fetch
<1>4. WPP!PoolAssumption
  BY PartsAssumptions
<1>5. WPP!SafeSpec => [](WPP!NoLostWakeup /\ WPP!DrainedAtExit /\ WPP!NothingUsesDestroyedWorker)
  BY <1>4, WPP!NoWakeupIsLost, WPP!DrainsBeforeExit, WPP!DestroyedWorkersAreUnused, PTL
<1>6. SafeSpec => WP!SafeSpec
  BY EngineKeepsPoolContract DEF KeepsPoolContract
<1>. QED
  BY <1>1, <1>2, <1>3, <1>5, <1>6, PTL DEF WP!SafeSpec, WPP!SafeSpec

(* The reactor inside the engine: no reply waits for a loop that is not going *)
(* to look, the handle a reply is written to is that of its connection, and   *)
(* LoopDeleter meets no handle that is being closed.  The engine does not keep*)
(* the whole of the reactor's contract, as workers may send when it has been  *)
(* destroyed; but by then the loop has ended, and what such a send is meant to*)
(* do, an append and a notification, disturbs none of the three.              *)
THEOREM ReactorInEngine ==
    SafeSpec => [](R!NoStrandedReply /\ R!TableMatchesHandles /\ R!NoCloseInFlightAtExit)
<1>1. /\ RP!NoStrandedReply => R!NoStrandedReply
      /\ RP!TableInv => R!TableMatchesHandles
      /\ RP!NoCloseInFlightAtExit => R!NoCloseInFlightAtExit
  BY DEF R!NoStrandedReply, RP!NoStrandedReply, R!TableMatchesHandles, RP!TableMatchesHandles,
         R!NoCloseInFlightAtExit, RP!NoCloseInFlightAtExit, R!ConnIds, RP!ConnIds, RP!TableInv
<1>2. Init => RP!NoStrandedReply /\ RP!NoCloseInFlightAtExit
  BY DEF Init, R!Init, RP!NoStrandedReply, RP!NoCloseInFlightAtExit
<1>3. ASSUME PartsInv, RP!NoStrandedReply, RP!NoCloseInFlightAtExit, [Next]_vars
      PROVE  PartsInv' /\ RP!NoStrandedReply' /\ RP!NoCloseInFlightAtExit'
  <2>1. PartsInv'
    BY <1>3, PartsStep
  <2>2. CASE [RP!Next]_RP!vars
    <3>1. RP!NoStrandedReply' /\ RP!NoCloseInFlightAtExit'
      BY <1>3, <2>2, PartsAssumptions, RP!StrandedStep, RP!ExitStep
    <3>. QED
      BY <2>1, <3>1
  <2>3. CASE Late
    <3>1. RP!NoStrandedReply' /\ UNCHANGED <<hstate, lpc>>
      BY <1>3, <2>3, LateStep
    <3>. QED
      BY <1>3, <2>1, <3>1 DEF RP!NoCloseInFlightAtExit
  <2>. QED
    BY <1>3, <2>2, <2>3, ReactorStep, SameReactor
<1>4. PartsInv /\ RP!NoStrandedReply /\ RP!NoCloseInFlightAtExit
        => R!NoStrandedReply /\ R!TableMatchesHandles /\ R!NoCloseInFlightAtExit
  BY <1>1 DEF PartsInv
<1>. QED
  BY <1>2, <1>3, <1>4, PartsInit, PTL DEF SafeSpec

-------------------------------------------------------------------------------
(* The order of the answers.                                                 *)

(* What an item may carry for a connection.                                   *)
Carried == Runs \cup {<<>>}

(* A run of no commands is empty, and only such a run is.                     *)
LEMMA EmptyRun ==
    ASSUME NEW h, NEW a \in Nat
    PROVE  Commands(h, a, 0) = <<>>
BY DEF Commands

(* Only a run of no commands is empty.                                        *)
LEMMA EmptyRunOnly ==
    ASSUME NEW h, NEW a \in Nat, NEW k \in Nat, Commands(h, a, k) = <<>>
    PROVE  k = 0 /\ a + k = a
<1>1. DOMAIN Commands(h, a, k) = 1 .. k
  BY DEF Commands
<1>2. DOMAIN <<>> = 1 .. 0
  OBVIOUS
<1>. QED
  BY <1>1, <1>2

(* A run of k commands has k elements.                                        *)
LEMMA RunLength == ASSUME NEW h, NEW a \in Nat, NEW k \in Nat PROVE Len(Commands(h, a, k)) = k
<1>1. Commands(h, a, k) \in [1 .. k -> {Cmd(h, a + i) : i \in 1 .. k}]
  BY DEF Commands
<1>. QED
  BY <1>1

(* Two runs, one beginning where the other ends, are one.                     *)
LEMMA JoinedRuns ==
    ASSUME NEW h, NEW a \in Nat, NEW k \in Nat, NEW n \in Nat
    PROVE  Commands(h, a, k) \o Commands(h, a + k, n) = Commands(h, a, k + n)
<1>. DEFINE S == [peer : {h}, n : Nat]
            x == Commands(h, a, k)
            y == Commands(h, a + k, n)
            z == Commands(h, a, k + n)
<1>1. \A b, m \in Nat : Commands(h, b, m) \in [1 .. m -> S]
  BY DEF Commands, Cmd
<1>2. a + k \in Nat /\ k + n \in Nat
  OBVIOUS
<1>3. x \in [1 .. k -> S] /\ y \in [1 .. n -> S] /\ z \in [1 .. k + n -> S]
  BY <1>1, <1>2
<1>4. /\ \A i \in 1 .. k : x[i] = Cmd(h, a + i)
      /\ \A i \in 1 .. n : y[i] = Cmd(h, (a + k) + i)
      /\ \A i \in 1 .. k + n : z[i] = Cmd(h, a + i)
  BY DEF Commands
<1>. HIDE DEF S, x, y, z
<1>5. x \in Seq(S) /\ y \in Seq(S) /\ z \in Seq(S) /\ Len(x) = k /\ Len(y) = n /\ Len(z) = k + n
  BY <1>2, <1>3
<1>6. /\ x \o y \in Seq(S) /\ Len(x \o y) = k + n
      /\ \A i \in 1 .. k + n : (x \o y)[i] = IF i <= k THEN x[i] ELSE y[i - k]
  BY <1>5, ConcatProperties
<1>7. \A i \in 1 .. k + n : (x \o y)[i] = z[i]
  <2>. SUFFICES ASSUME NEW i \in 1 .. k + n PROVE (x \o y)[i] = z[i]
    OBVIOUS
  <2>1. CASE i <= k
    BY <1>4, <1>6, <2>1
  <2>2. CASE ~(i <= k)
    <3>1. i - k \in 1 .. n /\ (a + k) + (i - k) = a + i
      BY <2>2
    <3>. QED
      BY <1>4, <1>6, <2>2, <3>1
  <2>. QED
    BY <2>1, <2>2
<1>8. x \o y = z
  BY <1>5, <1>6, <1>7, SeqEqual
<1>. QED
  BY <1>8 DEF x, y, z

(* No run at all: nothing is between two ends that are the same.              *)
LEMMA NoRuns ==
    ASSUME NEW h, NEW a \in Nat, NEW b \in Nat
    PROVE  Consecutive(<<>>, h, a, b) <=> a = b
<1>1. ASSUME Consecutive(<<>>, h, a, b) PROVE a = b
  BY <1>1 DEF Consecutive
<1>2. ASSUME a = b PROVE Consecutive(<<>>, h, a, b)
  <2>. DEFINE cut == [i \in 0 .. 0 |-> a]
  <2>1. cut \in [0 .. Len(<<>>) -> a .. b]
    BY <1>2
  <2>2. /\ cut[0] = a /\ cut[Len(<<>>)] = b
        /\ \A i, j \in 0 .. Len(<<>>) : i <= j => cut[i] <= cut[j]
        /\ \A i \in 1 .. Len(<<>>) : <<>>[i] = Commands(h, cut[i - 1], cut[i] - cut[i - 1])
    BY <1>2
  <2>. QED
    BY <2>1, <2>2 DEF Consecutive
<1>. QED
  BY <1>1, <1>2

(* Empty runs are between ends that are the same.                             *)
LEMMA EmptyRuns ==
    ASSUME NEW h, NEW a \in Nat, NEW runs \in Seq(Carried),
           \A i \in 1 .. Len(runs) : runs[i] = <<>>
    PROVE  Consecutive(runs, h, a, a)
<1>. DEFINE cut == [i \in 0 .. Len(runs) |-> a]
<1>1. cut \in [0 .. Len(runs) -> a .. a] /\ Len(runs) \in Nat
  OBVIOUS
<1>2. /\ cut[0] = a /\ cut[Len(runs)] = a
      /\ \A i, j \in 0 .. Len(runs) : i <= j => cut[i] <= cut[j]
  OBVIOUS
<1>3. \A i \in 1 .. Len(runs) : runs[i] = Commands(h, cut[i - 1], cut[i] - cut[i - 1])
  <2>. SUFFICES ASSUME NEW i \in 1 .. Len(runs)
                PROVE  runs[i] = Commands(h, cut[i - 1], cut[i] - cut[i - 1])
    OBVIOUS
  <2>1. cut[i - 1] = a /\ cut[i] - cut[i - 1] = 0
    BY <1>1
  <2>. QED
    BY <2>1, EmptyRun
<1>. QED
  BY <1>1, <1>2, <1>3 DEF Consecutive

(* A run at the end.                                                          *)
LEMMA PushedRun ==
    ASSUME NEW h, NEW a \in Nat, NEW b \in Nat, NEW k \in Nat,
           NEW runs \in Seq(Carried), NEW run \in Carried,
           Consecutive(runs, h, a, b), run = Commands(h, b, k)
    PROVE  Consecutive(Append(runs, run), h, a, b + k)
<1>1. PICK cut \in [0 .. Len(runs) -> a .. b] :
        /\ cut[0] = a /\ cut[Len(runs)] = b
        /\ \A i, j \in 0 .. Len(runs) : i <= j => cut[i] <= cut[j]
        /\ \A i \in 1 .. Len(runs) : runs[i] = Commands(h, cut[i - 1], cut[i] - cut[i - 1])
  BY DEF Consecutive
<1>. DEFINE n == Len(runs)
            to == b + k
            more == [i \in 0 .. n + 1 |-> IF i = n + 1 THEN to ELSE cut[i]]
            longer == Append(runs, run)
<1>2. n \in Nat /\ to \in Nat /\ b <= to /\ to - b = k
  OBVIOUS
<1>3. /\ Len(longer) = n + 1 /\ longer[n + 1] = run
      /\ \A i \in 1 .. n : longer[i] = runs[i]
  BY AppendProperties
<1>4. a <= b
  BY <1>1, <1>2
<1>5. \A i \in 0 .. n : cut[i] \in a .. b /\ more[i] = cut[i]
  <2>1. \A i \in 0 .. n : i \in 0 .. n + 1 /\ i # n + 1
    BY <1>2
  <2>. QED
    BY <1>1, <2>1
<1>6. more[n + 1] = to
  BY <1>2
<1>. HIDE DEF n, to, longer
<1>7. more \in [0 .. n + 1 -> a .. to]
  BY <1>1, <1>2, <1>4 DEF n
<1>. HIDE DEF more
<1>8. ASSUME NEW i \in 0 .. n + 1, NEW j \in 0 .. n + 1, i <= j PROVE more[i] <= more[j]
  <2>1. CASE j = n + 1
    <3>1. more[i] \in a .. to
      BY <1>7
    <3>. QED
      BY <1>2, <1>6, <2>1, <3>1
  <2>2. CASE j # n + 1
    <3>1. i \in 0 .. n /\ j \in 0 .. n
      BY <1>2, <1>8, <2>2
    <3>. QED
      BY <1>1, <1>5, <1>8, <3>1 DEF n
  <2>. QED
    BY <2>1, <2>2
<1>9. ASSUME NEW i \in 1 .. n + 1
      PROVE  longer[i] = Commands(h, more[i - 1], more[i] - more[i - 1])
  <2>1. CASE i = n + 1
    <3>1. more[n] = b /\ more[n + 1] - more[n] = k /\ i - 1 = n
      BY <1>1, <1>2, <1>5, <1>6, <2>1 DEF n
    <3>. QED
      BY <1>3, <2>1, <3>1
  <2>2. CASE i # n + 1
    <3>1. i \in 1 .. n /\ i \in 0 .. n /\ i - 1 \in 0 .. n
      BY <1>2, <2>2
    <3>2. more[i - 1] = cut[i - 1] /\ more[i] = cut[i]
      BY <1>5, <3>1
    <3>. QED
      BY <1>1, <1>3, <3>1, <3>2 DEF n
  <2>. QED
    BY <2>1, <2>2
<1>10. more[0] = a /\ more[n + 1] = to
  BY <1>1, <1>2, <1>5, <1>6
<1>11. Consecutive(longer, h, a, to)
  BY <1>3, <1>7, <1>8, <1>9, <1>10 DEF Consecutive
<1>. QED
  BY <1>11 DEF longer, to

(* The first run, and what is left without it.                                *)
LEMMA PoppedRun ==
    ASSUME NEW h, NEW a \in Nat, NEW b \in Nat,
           NEW runs \in Seq(Carried), runs # <<>>, Consecutive(runs, h, a, b)
    PROVE  \E k \in Nat : /\ Head(runs) = Commands(h, a, k)
                          /\ a + k <= b
                          /\ Consecutive(Tail(runs), h, a + k, b)
<1>1. PICK cut \in [0 .. Len(runs) -> a .. b] :
        /\ cut[0] = a /\ cut[Len(runs)] = b
        /\ \A i, j \in 0 .. Len(runs) : i <= j => cut[i] <= cut[j]
        /\ \A i \in 1 .. Len(runs) : runs[i] = Commands(h, cut[i - 1], cut[i] - cut[i - 1])
  BY DEF Consecutive
<1>. DEFINE n == Len(runs) - 1
            k == cut[1] - a
            rest == Tail(runs)
            less == [i \in 0 .. n |-> cut[i + 1]]
<1>2. n \in Nat /\ n + 1 = Len(runs) /\ 1 <= Len(runs)
  OBVIOUS
<1>3. /\ Head(runs) = runs[1] /\ Len(rest) = n
      /\ \A i \in 1 .. n : rest[i] = runs[i + 1]
  BY <1>2
<1>4. \A i \in 0 .. n + 1 : cut[i] \in a .. b
  BY <1>1, <1>2
<1>5. cut[1] \in a .. b /\ k \in Nat /\ a + k = cut[1]
  BY <1>2, <1>4
<1>6. Head(runs) = Commands(h, a, k)
  <2>1. runs[1] = Commands(h, cut[1 - 1], cut[1] - cut[1 - 1])
    BY <1>1, <1>2
  <2>2. 1 - 1 = 0
    OBVIOUS
  <2>. QED
    BY <1>1, <1>3, <2>1, <2>2
<1>7. \A i \in 0 .. n : less[i] = cut[i + 1] /\ i + 1 \in 0 .. n + 1 /\ 1 <= i + 1
  BY <1>2
<1>8. \A i \in 0 .. n : cut[1] <= less[i] /\ less[i] <= b
  BY <1>1, <1>2, <1>4, <1>7
<1>9. less \in [0 .. n -> cut[1] .. b]
  BY <1>4, <1>5, <1>7, <1>8
<1>. HIDE DEF n, rest, less
<1>10. less[0] = cut[1] /\ less[n] = b
  BY <1>1, <1>2, <1>7
<1>11. ASSUME NEW i \in 0 .. n, NEW j \in 0 .. n, i <= j PROVE less[i] <= less[j]
  <2>1. i + 1 <= j + 1 /\ i + 1 \in 0 .. Len(runs) /\ j + 1 \in 0 .. Len(runs)
    BY <1>2, <1>11
  <2>2. cut[i + 1] <= cut[j + 1]
    BY <1>1, <2>1
  <2>. QED
    BY <1>7, <2>2
<1>12. ASSUME NEW i \in 1 .. n
       PROVE  rest[i] = Commands(h, less[i - 1], less[i] - less[i - 1])
  <2>1. /\ i + 1 \in 1 .. Len(runs) /\ (i + 1) - 1 = i
        /\ less[i] = cut[i + 1] /\ i - 1 \in 0 .. n /\ (i - 1) + 1 = i
    BY <1>2, <1>7
  <2>2. less[i - 1] = cut[i]
    BY <1>7, <2>1
  <2>3. runs[i + 1] = Commands(h, cut[(i + 1) - 1], cut[i + 1] - cut[(i + 1) - 1])
    BY <1>1, <2>1
  <2>. QED
    BY <1>3, <2>1, <2>2, <2>3
<1>13. Consecutive(rest, h, cut[1], b)
  BY <1>3, <1>9, <1>10, <1>11, <1>12 DEF Consecutive
<1>14. a + k <= b
  BY <1>5
<1>. QED
  BY <1>5, <1>6, <1>13, <1>14 DEF rest

(* Runs after runs.                                                           *)
LEMMA GluedRuns ==
    ASSUME NEW h, NEW a \in Nat, NEW b \in Nat, NEW c \in Nat,
           NEW r \in Seq(Carried), NEW s \in Seq(Carried),
           Consecutive(r, h, a, b), Consecutive(s, h, b, c)
    PROVE  Consecutive(r \o s, h, a, c) /\ a <= b
<1>1. PICK f \in [0 .. Len(r) -> a .. b] :
        /\ f[0] = a /\ f[Len(r)] = b
        /\ \A i, j \in 0 .. Len(r) : i <= j => f[i] <= f[j]
        /\ \A i \in 1 .. Len(r) : r[i] = Commands(h, f[i - 1], f[i] - f[i - 1])
  BY DEF Consecutive
<1>2. PICK g \in [0 .. Len(s) -> b .. c] :
        /\ g[0] = b /\ g[Len(s)] = c
        /\ \A i, j \in 0 .. Len(s) : i <= j => g[i] <= g[j]
        /\ \A i \in 1 .. Len(s) : s[i] = Commands(h, g[i - 1], g[i] - g[i - 1])
  BY DEF Consecutive
<1>. DEFINE m == Len(r)
            n == Len(s)
            both == r \o s
            cut == [i \in 0 .. m + n |-> IF i <= m THEN f[i] ELSE g[i - m]]
<1>3. m \in Nat /\ n \in Nat
  OBVIOUS
<1>4. /\ Len(both) = m + n
      /\ \A i \in 1 .. m + n : both[i] = IF i <= m THEN r[i] ELSE s[i - m]
  BY ConcatProperties
<1>. HIDE DEF both
<1>5. (\A i \in 0 .. m : f[i] \in a .. b) /\ (\A i \in 0 .. n : g[i] \in b .. c)
  BY <1>1, <1>2
<1>6. a <= b /\ b <= c
  BY <1>1, <1>2, <1>3, <1>5
<1>7. \A i \in 0 .. m + n : cut[i] = IF i <= m THEN f[i] ELSE g[i - m]
  OBVIOUS
<1>8. /\ \A i \in 0 .. m : i \in 0 .. m + n /\ cut[i] = f[i]
      /\ \A i \in 0 .. n : m + i \in 0 .. m + n /\ cut[m + i] = g[i]
  <2>1. ASSUME NEW i \in 0 .. n PROVE m + i \in 0 .. m + n /\ cut[m + i] = g[i]
    <3>1. m + i \in 0 .. m + n /\ (m + i) - m = i
      BY <1>3
    <3>2. CASE i = 0
      BY <1>1, <1>2, <1>3, <1>7, <3>1, <3>2
    <3>3. CASE i # 0
      BY <1>3, <1>7, <3>1, <3>3
    <3>. QED
      BY <3>2, <3>3
  <2>. QED
    BY <1>3, <1>7, <2>1
<1>9. \A i \in 0 .. m + n : cut[i] \in a .. c
  BY <1>3, <1>5, <1>6, <1>7
<1>10. cut \in [0 .. m + n -> a .. c]
  BY <1>9
<1>. HIDE DEF cut
<1>11. cut[0] = a /\ cut[m + n] = c
  BY <1>1, <1>2, <1>3, <1>8
<1>12. ASSUME NEW i \in 0 .. m + n, NEW j \in 0 .. m + n, i <= j PROVE cut[i] <= cut[j]
  <2>1. CASE j <= m
    BY <1>1, <1>3, <1>7, <1>12, <2>1
  <2>2. CASE ~(i <= m)
    <3>1. i - m \in 0 .. n /\ j - m \in 0 .. n /\ i - m <= j - m /\ ~(j <= m)
      BY <1>3, <1>12, <2>2
    <3>. QED
      BY <1>2, <1>7, <2>2, <3>1
  <2>3. CASE i <= m /\ ~(j <= m)
    <3>1. i \in 0 .. m /\ j - m \in 0 .. n
      BY <1>3, <2>3
    <3>2. f[i] <= b /\ b <= g[j - m] /\ f[i] \in Nat /\ g[j - m] \in Nat
      BY <1>5, <1>6, <3>1
    <3>. QED
      BY <1>7, <2>3, <3>2
  <2>. QED
    BY <2>1, <2>2, <2>3
<1>13. ASSUME NEW i \in 1 .. m + n
       PROVE  both[i] = Commands(h, cut[i - 1], cut[i] - cut[i - 1])
  <2>1. CASE i <= m
    <3>1. i \in 1 .. m /\ i \in 0 .. m /\ i - 1 \in 0 .. m
      BY <1>3, <2>1
    <3>. QED
      BY <1>1, <1>4, <1>8, <2>1, <3>1
  <2>2. CASE ~(i <= m)
    <3>. DEFINE k == i - m
    <3>1. k \in 1 .. n
      BY <1>3, <2>2
    <3>2. i = m + k /\ i - 1 = m + (k - 1) /\ k \in 0 .. n /\ k - 1 \in 0 .. n
      BY <1>3, <3>1
    <3>3. cut[i] = g[k] /\ cut[i - 1] = g[k - 1]
      BY <1>8, <3>2
    <3>4. both[i] = s[k]
      BY <1>4, <2>2
    <3>5. s[k] = Commands(h, g[k - 1], g[k] - g[k - 1])
      BY <1>2, <3>1
    <3>. QED
      BY <3>3, <3>4, <3>5
  <2>. QED
    BY <2>1, <2>2
<1>14. Consecutive(both, h, a, c)
  <2>1. Len(both) = m + n
    BY <1>4
  <2>2. cut \in [0 .. Len(both) -> a .. c]
    BY <1>10, <2>1
  <2>3. cut[0] = a /\ cut[Len(both)] = c
    BY <1>11, <2>1
  <2>4. \A i, j \in 0 .. Len(both) : i <= j => cut[i] <= cut[j]
    BY ONLY <1>12, <2>1
  <2>5. \A i \in 1 .. Len(both) : both[i] = Commands(h, cut[i - 1], cut[i] - cut[i - 1])
    BY ONLY <1>13, <2>1
  <2>. QED
    BY ONLY <2>2, <2>3, <2>4, <2>5 DEF Consecutive
<1>. QED
  BY <1>6, <1>14 DEF both

-------------------------------------------------------------------------------
(* A function applied to every item of a vector, when an item is appended to  *)
(* the vector and when its first item is taken.                               *)
Each(f, s) == [i \in 1 .. Len(s) |-> f[s[i]]]

(* What it does to the vector it does to each item, one after the other.      *)
LEMMA EachOfVector ==
    ASSUME NEW T, NEW f, NEW s \in Seq(T)
    PROVE  /\ Len(Each(f, s)) = Len(s)
           /\ \A i \in 1 .. Len(s) : Each(f, s)[i] = f[s[i]]
           /\ \A e \in T : Each(f, Append(s, e)) = Append(Each(f, s), f[e])
           /\ s # <<>> => /\ Each(f, s) # <<>>
                          /\ Head(Each(f, s)) = f[Head(s)]
                          /\ Tail(Each(f, s)) = Each(f, Tail(s))
<1>. DEFINE o == Each(f, s)
            C == {f[e] : e \in T}
<1>1. ASSUME NEW t \in Seq(T)
      PROVE  /\ Each(f, t) \in Seq(C) /\ Len(Each(f, t)) = Len(t)
             /\ \A i \in 1 .. Len(t) : Each(f, t)[i] = f[t[i]]
  <2>1. Each(f, t) \in [1 .. Len(t) -> C] /\ Len(t) \in Nat
    BY DEF Each
  <2>. QED
    BY <2>1 DEF Each
<1>2. ASSUME NEW e \in T PROVE Each(f, Append(s, e)) = Append(o, f[e])
  <2>. DEFINE x == Each(f, Append(s, e))
              y == Append(o, f[e])
              n == Len(s)
  <2>1. Append(s, e) \in Seq(T) /\ Len(Append(s, e)) = n + 1 /\ n \in Nat
        /\ Append(s, e)[n + 1] = e /\ \A i \in 1 .. n : Append(s, e)[i] = s[i]
    BY AppendProperties
  <2>2. o \in Seq(C) /\ Len(o) = n /\ \A i \in 1 .. n : o[i] = f[s[i]]
    BY <1>1
  <2>3. y \in Seq(C) /\ Len(y) = n + 1 /\ y[n + 1] = f[e] /\ \A i \in 1 .. n : y[i] = o[i]
    BY <2>2, AppendProperties
  <2>4. x \in Seq(C) /\ Len(x) = n + 1 /\ \A i \in 1 .. n + 1 : x[i] = f[Append(s, e)[i]]
    BY <1>1, <2>1
  <2>5. \A i \in 1 .. n + 1 : i \in 1 .. n \/ i = n + 1
    BY <2>1
  <2>6. \A i \in 1 .. n + 1 : x[i] = y[i]
    BY <2>1, <2>2, <2>3, <2>4, <2>5
  <2>. HIDE DEF x, y, n
  <2>7. x = y
    BY <2>3, <2>4, <2>6, SeqEqual
  <2>. QED
    BY <2>7 DEF x, y
<1>3. ASSUME s # <<>> PROVE o # <<>> /\ Head(o) = f[Head(s)] /\ Tail(o) = Each(f, Tail(s))
  <2>. DEFINE x == Tail(o)
              y == Each(f, Tail(s))
              n == Len(s) - 1
  <2>1. n \in Nat /\ n + 1 = Len(s) /\ Tail(s) \in Seq(T) /\ Len(Tail(s)) = n
        /\ Head(s) = s[1] /\ \A i \in 1 .. n : Tail(s)[i] = s[i + 1]
    BY <1>3
  <2>2. o \in Seq(C) /\ Len(o) = n + 1 /\ \A i \in 1 .. n + 1 : o[i] = f[s[i]]
    BY <1>1, <2>1
  <2>. HIDE DEF o
  <2>3. o # <<>> /\ Head(o) = o[1] /\ 1 \in 1 .. n + 1
    BY <2>1, <2>2
  <2>4. x \in Seq(C) /\ Len(x) = n /\ \A i \in 1 .. n : x[i] = o[i + 1]
    BY <2>1, <2>2, <2>3
  <2>5. y \in Seq(C) /\ Len(y) = n /\ \A i \in 1 .. n : y[i] = f[Tail(s)[i]]
    BY <1>1, <2>1
  <2>6. \A i \in 1 .. n : i + 1 \in 1 .. n + 1
    BY <2>1
  <2>7. \A i \in 1 .. n : x[i] = y[i]
    BY <2>1, <2>2, <2>4, <2>5, <2>6
  <2>. HIDE DEF x, y, n
  <2>8. x = y
    BY <2>4, <2>5, <2>7, SeqEqual
  <2>. QED
    BY <2>1, <2>2, <2>3, <2>8 DEF x, y
<1>. QED
  BY <1>1, <1>2, <1>3

(* What a vector of replies, or of batches, carries for a connection.         *)
LEMMA RepliesCarry ==
    ASSUME NEW c, NEW s \in Seq(Reply)
    PROVE  /\ OutRuns(s, c) \in Seq(Carried) /\ Len(OutRuns(s, c)) = Len(s)
           /\ \A i \in 1 .. Len(s) : OutRuns(s, c)[i] = OutFor(s[i], c)
           /\ \A r \in Reply :
                 /\ OutFor(r, c) \in Carried
                 /\ OutRuns(Append(s, r), c) = Append(OutRuns(s, c), OutFor(r, c))
           /\ s # <<>> => /\ OutRuns(s, c) # <<>>
                          /\ Head(OutRuns(s, c)) = OutFor(Head(s), c)
                          /\ Tail(OutRuns(s, c)) = OutRuns(Tail(s), c)
<1>. DEFINE f == [r \in Reply |-> OutFor(r, c)]
<1>0. \A r \in Reply : OutFor(r, c) \in Carried
  BY DEF OutFor, Reply, Carried
<1>1. \A r \in Reply : f[r] = OutFor(r, c) /\ f[r] \in Carried
  BY <1>0
<1>2. \A t \in Seq(Reply) : OutRuns(t, c) = Each(f, t)
  BY <1>1 DEF OutRuns, Each
<1>. HIDE DEF f
<1>3. /\ \A r \in Reply : Append(s, r) \in Seq(Reply)
      /\ \A i \in 1 .. Len(s) : s[i] \in Reply
      /\ s # <<>> => Head(s) \in Reply /\ Tail(s) \in Seq(Reply)
  BY HeadTailProperties
<1>4. /\ Len(Each(f, s)) = Len(s)
      /\ \A i \in 1 .. Len(s) : Each(f, s)[i] = f[s[i]]
      /\ \A e \in Reply : Each(f, Append(s, e)) = Append(Each(f, s), f[e])
      /\ s # <<>> => /\ Each(f, s) # <<>>
                     /\ Head(Each(f, s)) = f[Head(s)]
                     /\ Tail(Each(f, s)) = Each(f, Tail(s))
  BY EachOfVector
<1>5. OutRuns(s, c) = Each(f, s)
  BY <1>2
<1>6. \A r \in Reply :
         /\ OutFor(r, c) \in Carried
         /\ OutRuns(Append(s, r), c) = Append(OutRuns(s, c), OutFor(r, c))
  BY <1>1, <1>2, <1>3, <1>4, <1>5
<1>7. s # <<>> => /\ OutRuns(s, c) # <<>>
                  /\ Head(OutRuns(s, c)) = OutFor(Head(s), c)
                  /\ Tail(OutRuns(s, c)) = OutRuns(Tail(s), c)
  BY <1>1, <1>2, <1>3, <1>4, <1>5
<1>8. \A i \in 1 .. Len(s) : OutRuns(s, c)[i] = OutFor(s[i], c)
  BY <1>1, <1>3, <1>4, <1>5
<1>9. OutRuns(s, c) \in Seq(Carried) /\ Len(OutRuns(s, c)) = Len(s)
  <2>1. Each(f, s) \in [1 .. Len(s) -> Carried] /\ Len(s) \in Nat
    BY <1>1, <1>3 DEF Each
  <2>2. Each(f, s) \in Seq(Carried)
    BY <2>1
  <2>. QED
    BY <1>4, <1>5, <2>2
<1>. QED
  BY <1>6, <1>7, <1>8, <1>9

(* The same of a worker's vector.                                             *)
LEMMA BatchesCarry ==
    ASSUME NEW c, NEW s \in Seq(WP!Items)
    PROVE  /\ CmdRuns(s, c) \in Seq(Carried) /\ Len(CmdRuns(s, c)) = Len(s)
           /\ \A i \in 1 .. Len(s) : CmdRuns(s, c)[i] = CmdsFor(s[i], c)
           /\ \A b \in WP!Items :
                 /\ CmdsFor(b, c) \in Carried
                 /\ CmdRuns(Append(s, b), c) = Append(CmdRuns(s, c), CmdsFor(b, c))
           /\ s # <<>> => /\ CmdRuns(s, c) # <<>>
                          /\ Head(CmdRuns(s, c)) = CmdsFor(Head(s), c)
                          /\ Tail(CmdRuns(s, c)) = CmdRuns(Tail(s), c)
<1>. DEFINE f == [b \in WP!Items |-> CmdsFor(b, c)]
<1>0. \A b \in WP!Items : CmdsFor(b, c) \in Carried
  BY DEF CmdsFor, WP!Items, Batch, Carried
<1>1. \A b \in WP!Items : f[b] = CmdsFor(b, c) /\ f[b] \in Carried
  BY <1>0
<1>2. \A t \in Seq(WP!Items) : CmdRuns(t, c) = Each(f, t)
  BY <1>1 DEF CmdRuns, Each
<1>. HIDE DEF f
<1>3. /\ \A b \in WP!Items : Append(s, b) \in Seq(WP!Items)
      /\ \A i \in 1 .. Len(s) : s[i] \in WP!Items
      /\ s # <<>> => Head(s) \in WP!Items /\ Tail(s) \in Seq(WP!Items)
  BY HeadTailProperties
<1>4. /\ Len(Each(f, s)) = Len(s)
      /\ \A i \in 1 .. Len(s) : Each(f, s)[i] = f[s[i]]
      /\ \A e \in WP!Items : Each(f, Append(s, e)) = Append(Each(f, s), f[e])
      /\ s # <<>> => /\ Each(f, s) # <<>>
                     /\ Head(Each(f, s)) = f[Head(s)]
                     /\ Tail(Each(f, s)) = Each(f, Tail(s))
  BY EachOfVector
<1>5. CmdRuns(s, c) = Each(f, s)
  BY <1>2
<1>6. \A b \in WP!Items :
         /\ CmdsFor(b, c) \in Carried
         /\ CmdRuns(Append(s, b), c) = Append(CmdRuns(s, c), CmdsFor(b, c))
  BY <1>1, <1>2, <1>3, <1>4, <1>5
<1>7. s # <<>> => /\ CmdRuns(s, c) # <<>>
                  /\ Head(CmdRuns(s, c)) = CmdsFor(Head(s), c)
                  /\ Tail(CmdRuns(s, c)) = CmdRuns(Tail(s), c)
  BY <1>1, <1>2, <1>3, <1>4, <1>5
<1>8. \A i \in 1 .. Len(s) : CmdRuns(s, c)[i] = CmdsFor(s[i], c)
  BY <1>1, <1>3, <1>4, <1>5
<1>9. CmdRuns(s, c) \in Seq(Carried) /\ Len(CmdRuns(s, c)) = Len(s)
  <2>1. Each(f, s) \in [1 .. Len(s) -> Carried] /\ Len(s) \in Nat
    BY <1>1, <1>3 DEF Each
  <2>2. Each(f, s) \in Seq(Carried)
    BY <2>1
  <2>. QED
    BY <1>4, <1>5, <2>2
<1>. QED
  BY <1>6, <1>7, <1>8, <1>9

(* An item that carries the next run is appended, or the first is taken.      *)
LEMMA ReplyPushed ==
    ASSUME NEW h, NEW c, NEW a \in Nat, NEW b \in Nat, NEW k \in Nat,
           NEW s \in Seq(Reply), NEW e \in Reply,
           Consecutive(OutRuns(s, c), h, a, b), OutFor(e, c) = Commands(h, b, k)
    PROVE  Consecutive(OutRuns(Append(s, e), c), h, a, b + k)
<1>. DEFINE runs == OutRuns(s, c)
            run == OutFor(e, c)
<1>1. /\ runs \in Seq(Carried) /\ run \in Carried
      /\ OutRuns(Append(s, e), c) = Append(runs, run)
  BY RepliesCarry
<1>2. Consecutive(runs, h, a, b) /\ run = Commands(h, b, k)
  OBVIOUS
<1>. HIDE DEF runs, run
<1>. QED
  BY <1>1, <1>2, PushedRun

(* The first reply carries the first of the runs, the others carry the rest.  *)
LEMMA ReplyPopped ==
    ASSUME NEW h, NEW c, NEW a \in Nat, NEW b \in Nat,
           NEW s \in Seq(Reply), s # <<>>,
           Consecutive(OutRuns(s, c), h, a, b)
    PROVE  \E k \in Nat : /\ OutFor(Head(s), c) = Commands(h, a, k)
                          /\ a + k <= b
                          /\ Consecutive(OutRuns(Tail(s), c), h, a + k, b)
<1>. DEFINE runs == OutRuns(s, c)
<1>1. /\ runs \in Seq(Carried) /\ runs # <<>>
      /\ Head(runs) = OutFor(Head(s), c) /\ Tail(runs) = OutRuns(Tail(s), c)
  BY RepliesCarry
<1>2. Consecutive(runs, h, a, b)
  OBVIOUS
<1>. HIDE DEF runs
<1>3. \E k \in Nat : /\ Head(runs) = Commands(h, a, k)
                     /\ a + k <= b
                     /\ Consecutive(Tail(runs), h, a + k, b)
  BY <1>1, <1>2, PoppedRun
<1>. QED
  BY <1>1, <1>3

(* The same of a worker's vector: a batch is pushed.                          *)
LEMMA BatchPushed ==
    ASSUME NEW h, NEW c, NEW a \in Nat, NEW b \in Nat, NEW k \in Nat,
           NEW s \in Seq(WP!Items), NEW e \in WP!Items,
           Consecutive(CmdRuns(s, c), h, a, b), CmdsFor(e, c) = Commands(h, b, k)
    PROVE  Consecutive(CmdRuns(Append(s, e), c), h, a, b + k)
<1>. DEFINE runs == CmdRuns(s, c)
            run == CmdsFor(e, c)
<1>1. /\ runs \in Seq(Carried) /\ run \in Carried
      /\ CmdRuns(Append(s, e), c) = Append(runs, run)
  BY BatchesCarry
<1>2. Consecutive(runs, h, a, b) /\ run = Commands(h, b, k)
  OBVIOUS
<1>. HIDE DEF runs, run
<1>. QED
  BY <1>1, <1>2, PushedRun

(* And its first batch is taken.                                              *)
LEMMA BatchPopped ==
    ASSUME NEW h, NEW c, NEW a \in Nat, NEW b \in Nat,
           NEW s \in Seq(WP!Items), s # <<>>,
           Consecutive(CmdRuns(s, c), h, a, b)
    PROVE  \E k \in Nat : /\ CmdsFor(Head(s), c) = Commands(h, a, k)
                          /\ a + k <= b
                          /\ Consecutive(CmdRuns(Tail(s), c), h, a + k, b)
<1>. DEFINE runs == CmdRuns(s, c)
<1>1. /\ runs \in Seq(Carried) /\ runs # <<>>
      /\ Head(runs) = CmdsFor(Head(s), c) /\ Tail(runs) = CmdRuns(Tail(s), c)
  BY BatchesCarry
<1>2. Consecutive(runs, h, a, b)
  OBVIOUS
<1>. HIDE DEF runs
<1>3. \E k \in Nat : /\ Head(runs) = Commands(h, a, k)
                     /\ a + k <= b
                     /\ Consecutive(Tail(runs), h, a + k, b)
  BY <1>1, <1>2, PoppedRun
<1>. QED
  BY <1>1, <1>3

-------------------------------------------------------------------------------
(* The line of a connection c of client h: done commands are answered, the    *)
(* next ones are, one place after the other, in its write queue q, in what the*)
(* loop took (s), in what the workers sent (r), in what its worker fetched (u)*)
(* and in what was submitted to its worker (t), up to the n that are asked.   *)
Line(h, c, done, q, s, r, u, t, n) ==
    \E b1, b2, b3, b4 \in Nat :
        /\ Consecutive(OutRuns(q, c), h, done, b1)
        /\ Consecutive(OutRuns(s, c), h, b1, b2)
        /\ Consecutive(OutRuns(r, c), h, b2, b3)
        /\ Consecutive(CmdRuns(u, c), h, b3, b4)
        /\ Consecutive(CmdRuns(t, c), h, b4, n)

Places(q, s, r, u, t) ==
    q \in Seq(Reply) /\ s \in Seq(Reply) /\ r \in Seq(Reply)
    /\ u \in Seq(WP!Items) /\ t \in Seq(WP!Items)

(* An empty place has its two ends at the same command.                       *)
LEMMA EmptyPlace ==
    ASSUME NEW h, NEW c, NEW a \in Nat, NEW b \in Nat
    PROVE  /\ Consecutive(OutRuns(<<>>, c), h, a, b) <=> a = b
           /\ Consecutive(CmdRuns(<<>>, c), h, a, b) <=> a = b
<1>1. OutRuns(<<>>, c) = <<>> /\ CmdRuns(<<>>, c) = <<>>
  BY DEF OutRuns, CmdRuns
<1>. QED
  BY <1>1, NoRuns

(* A new connection, of which nothing is anywhere.                            *)
LEMMA LineBegins ==
    ASSUME NEW h, NEW c, NEW q, NEW s, NEW r, NEW u, NEW t, Places(q, s, r, u, t),
           q = <<>>,
           \A i \in 1 .. Len(s) : OutFor(s[i], c) = <<>>,
           \A i \in 1 .. Len(r) : OutFor(r[i], c) = <<>>,
           \A i \in 1 .. Len(u) : CmdsFor(u[i], c) = <<>>,
           \A i \in 1 .. Len(t) : CmdsFor(t[i], c) = <<>>
    PROVE  Line(h, c, 0, q, s, r, u, t, 0)
<1>1. Consecutive(OutRuns(q, c), h, 0, 0)
  BY EmptyPlace
<1>2. \A v \in Seq(Reply) : (\A i \in 1 .. Len(v) : OutFor(v[i], c) = <<>>)
                               => Consecutive(OutRuns(v, c), h, 0, 0)
  <2>. SUFFICES ASSUME NEW v \in Seq(Reply), \A i \in 1 .. Len(v) : OutFor(v[i], c) = <<>>
                PROVE  Consecutive(OutRuns(v, c), h, 0, 0)
    OBVIOUS
  <2>1. OutRuns(v, c) \in Seq(Carried) /\ \A i \in 1 .. Len(OutRuns(v, c)) : OutRuns(v, c)[i] = <<>>
    BY RepliesCarry
  <2>. QED
    BY <2>1, EmptyRuns
<1>3. \A v \in Seq(WP!Items) : (\A i \in 1 .. Len(v) : CmdsFor(v[i], c) = <<>>)
                               => Consecutive(CmdRuns(v, c), h, 0, 0)
  <2>. SUFFICES ASSUME NEW v \in Seq(WP!Items), \A i \in 1 .. Len(v) : CmdsFor(v[i], c) = <<>>
                PROVE  Consecutive(CmdRuns(v, c), h, 0, 0)
    OBVIOUS
  <2>1. CmdRuns(v, c) \in Seq(Carried) /\ \A i \in 1 .. Len(CmdRuns(v, c)) : CmdRuns(v, c)[i] = <<>>
    BY BatchesCarry
  <2>. QED
    BY <2>1, EmptyRuns
<1>. QED
  BY <1>1, <1>2, <1>3 DEF Line, Places

(* A batch is submitted: k more commands are asked; none if it is for another *)
(* connection.                                                                *)
LEMMA LineAsked ==
    ASSUME NEW h, NEW c, NEW done \in Nat, NEW q, NEW s, NEW r, NEW u, NEW t, NEW n \in Nat,
           Places(q, s, r, u, t), Line(h, c, done, q, s, r, u, t, n),
           NEW b \in WP!Items, NEW k \in Nat, CmdsFor(b, c) = Commands(h, n, k)
    PROVE  Line(h, c, done, q, s, r, u, Append(t, b), n + k)
<1>1. PICK b1, b2, b3, b4 \in Nat :
        /\ Consecutive(OutRuns(q, c), h, done, b1)
        /\ Consecutive(OutRuns(s, c), h, b1, b2)
        /\ Consecutive(OutRuns(r, c), h, b2, b3)
        /\ Consecutive(CmdRuns(u, c), h, b3, b4)
        /\ Consecutive(CmdRuns(t, c), h, b4, n)
  BY DEF Line
<1>2. Consecutive(CmdRuns(Append(t, b), c), h, b4, n + k)
  BY <1>1, BatchPushed DEF Places
<1>. QED
  BY <1>1, <1>2 DEF Line

(* The worker fetches all that was submitted to it.                           *)
LEMMA LineFetched ==
    ASSUME NEW h, NEW c, NEW done \in Nat, NEW q, NEW s, NEW r, NEW t, NEW n \in Nat,
           Line(h, c, done, q, s, r, <<>>, t, n)
    PROVE  Line(h, c, done, q, s, r, t, <<>>, n)
<1>1. PICK b1, b2, b3, b4 \in Nat :
        /\ Consecutive(OutRuns(q, c), h, done, b1)
        /\ Consecutive(OutRuns(s, c), h, b1, b2)
        /\ Consecutive(OutRuns(r, c), h, b2, b3)
        /\ Consecutive(CmdRuns(<<>>, c), h, b3, b4)
        /\ Consecutive(CmdRuns(t, c), h, b4, n)
  BY DEF Line
<1>2. b3 = b4 /\ Consecutive(CmdRuns(<<>>, c), h, n, n)
  BY <1>1, EmptyPlace
<1>. QED
  BY <1>1, <1>2 DEF Line

(* The worker passes over a batch that carries nothing for the connection.    *)
LEMMA LineSkipped ==
    ASSUME NEW h, NEW c, NEW done \in Nat, NEW q, NEW s, NEW r, NEW u, NEW t, NEW n \in Nat,
           Places(q, s, r, u, t), Line(h, c, done, q, s, r, u, t, n),
           u # <<>>, CmdsFor(Head(u), c) = <<>>
    PROVE  Line(h, c, done, q, s, r, Tail(u), t, n)
<1>1. PICK b1, b2, b3, b4 \in Nat :
        /\ Consecutive(OutRuns(q, c), h, done, b1)
        /\ Consecutive(OutRuns(s, c), h, b1, b2)
        /\ Consecutive(OutRuns(r, c), h, b2, b3)
        /\ Consecutive(CmdRuns(u, c), h, b3, b4)
        /\ Consecutive(CmdRuns(t, c), h, b4, n)
  BY DEF Line
<1>2. PICK k \in Nat : /\ CmdsFor(Head(u), c) = Commands(h, b3, k)
                       /\ Consecutive(CmdRuns(Tail(u), c), h, b3 + k, b4)
  BY <1>1, BatchPopped DEF Places
<1>3. Commands(h, b3, k) = <<>>
  BY <1>2
<1>4. b3 + k = b3
  BY <1>3, EmptyRunOnly
<1>. QED
  BY <1>1, <1>2, <1>4 DEF Line

(* The worker runs a batch and sends what it carries.                         *)
LEMMA LineRun ==
    ASSUME NEW h, NEW c, NEW done \in Nat, NEW q, NEW s, NEW r, NEW u, NEW t, NEW n \in Nat,
           Places(q, s, r, u, t), Line(h, c, done, q, s, r, u, t, n),
           u # <<>>, NEW e \in Reply, OutFor(e, c) = CmdsFor(Head(u), c)
    PROVE  Line(h, c, done, q, s, Append(r, e), Tail(u), t, n)
<1>1. PICK b1, b2, b3, b4 \in Nat :
        /\ Consecutive(OutRuns(q, c), h, done, b1)
        /\ Consecutive(OutRuns(s, c), h, b1, b2)
        /\ Consecutive(OutRuns(r, c), h, b2, b3)
        /\ Consecutive(CmdRuns(u, c), h, b3, b4)
        /\ Consecutive(CmdRuns(t, c), h, b4, n)
  BY DEF Line
<1>2. PICK k \in Nat : /\ CmdsFor(Head(u), c) = Commands(h, b3, k)
                       /\ Consecutive(CmdRuns(Tail(u), c), h, b3 + k, b4)
  BY <1>1, BatchPopped DEF Places
<1>3. Consecutive(OutRuns(Append(r, e), c), h, b2, b3 + k)
  BY <1>1, <1>2, ReplyPushed DEF Places
<1>4. b3 + k \in Nat
  OBVIOUS
<1>. QED
  BY <1>1, <1>2, <1>3, <1>4 DEF Line

(* Another worker sends a reply, which is for another connection.             *)
LEMMA LineBeside ==
    ASSUME NEW h, NEW c, NEW done \in Nat, NEW q, NEW s, NEW r, NEW u, NEW t, NEW n \in Nat,
           Places(q, s, r, u, t), Line(h, c, done, q, s, r, u, t, n),
           NEW e \in Reply, OutFor(e, c) = <<>>
    PROVE  Line(h, c, done, q, s, Append(r, e), u, t, n)
<1>1. PICK b1, b2, b3, b4 \in Nat :
        /\ Consecutive(OutRuns(q, c), h, done, b1)
        /\ Consecutive(OutRuns(s, c), h, b1, b2)
        /\ Consecutive(OutRuns(r, c), h, b2, b3)
        /\ Consecutive(CmdRuns(u, c), h, b3, b4)
        /\ Consecutive(CmdRuns(t, c), h, b4, n)
  BY DEF Line
<1>2. OutFor(e, c) = Commands(h, b3, 0) /\ b3 + 0 = b3 /\ 0 \in Nat
  BY EmptyRun
<1>3. Consecutive(OutRuns(Append(r, e), c), h, b2, b3 + 0)
  BY <1>1, <1>2, ReplyPushed DEF Places
<1>. QED
  BY <1>1, <1>2, <1>3 DEF Line

(* The loop takes all that the workers sent, having nothing left to send.     *)
LEMMA LineSwapped ==
    ASSUME NEW h, NEW c, NEW done \in Nat, NEW q, NEW r, NEW u, NEW t, NEW n \in Nat,
           Line(h, c, done, q, <<>>, r, u, t, n)
    PROVE  Line(h, c, done, q, r, <<>>, u, t, n)
<1>1. PICK b1, b2, b3, b4 \in Nat :
        /\ Consecutive(OutRuns(q, c), h, done, b1)
        /\ Consecutive(OutRuns(<<>>, c), h, b1, b2)
        /\ Consecutive(OutRuns(r, c), h, b2, b3)
        /\ Consecutive(CmdRuns(u, c), h, b3, b4)
        /\ Consecutive(CmdRuns(t, c), h, b4, n)
  BY DEF Line
<1>2. b1 = b2 /\ Consecutive(OutRuns(<<>>, c), h, b3, b3)
  BY <1>1, EmptyPlace
<1>. QED
  BY <1>1, <1>2 DEF Line

(* The loop queues a reply on the connection, or passes over one that carries *)
(* nothing for it.                                                            *)
LEMMA LineQueued ==
    ASSUME NEW h, NEW c, NEW done \in Nat, NEW q, NEW s, NEW r, NEW u, NEW t, NEW n \in Nat,
           Places(q, s, r, u, t), Line(h, c, done, q, s, r, u, t, n),
           s # <<>>
    PROVE  /\ Line(h, c, done, Append(q, Head(s)), Tail(s), r, u, t, n)
           /\ OutFor(Head(s), c) = <<>> => Line(h, c, done, q, Tail(s), r, u, t, n)
<1>1. PICK b1, b2, b3, b4 \in Nat :
        /\ Consecutive(OutRuns(q, c), h, done, b1)
        /\ Consecutive(OutRuns(s, c), h, b1, b2)
        /\ Consecutive(OutRuns(r, c), h, b2, b3)
        /\ Consecutive(CmdRuns(u, c), h, b3, b4)
        /\ Consecutive(CmdRuns(t, c), h, b4, n)
  BY DEF Line
<1>2. PICK k \in Nat : /\ OutFor(Head(s), c) = Commands(h, b1, k)
                       /\ Consecutive(OutRuns(Tail(s), c), h, b1 + k, b2)
  BY <1>1, ReplyPopped DEF Places
<1>3. Head(s) \in Reply
  BY HeadTailProperties DEF Places
<1>4. Consecutive(OutRuns(Append(q, Head(s)), c), h, done, b1 + k)
  BY <1>1, <1>2, <1>3, ReplyPushed DEF Places
<1>5. b1 + k \in Nat
  OBVIOUS
<1>6. Line(h, c, done, Append(q, Head(s)), Tail(s), r, u, t, n)
  BY <1>1, <1>2, <1>4, <1>5 DEF Line
<1>7. ASSUME OutFor(Head(s), c) = <<>> PROVE Line(h, c, done, q, Tail(s), r, u, t, n)
  <2>1. Commands(h, b1, k) = <<>>
    BY <1>2, <1>7
  <2>2. b1 + k = b1
    BY <2>1, EmptyRunOnly
  <2>. QED
    BY <1>1, <1>2, <2>2 DEF Line
<1>. QED
  BY <1>6, <1>7

(* The first reply of the write queue is written: the next answers.           *)
LEMMA LineWritten ==
    ASSUME NEW h, NEW c, NEW done \in Nat, NEW q, NEW s, NEW r, NEW u, NEW t, NEW n \in Nat,
           Places(q, s, r, u, t), Line(h, c, done, q, s, r, u, t, n),
           q # <<>>
    PROVE  \E k \in Nat : /\ OutFor(Head(q), c) = Commands(h, done, k)
                          /\ Line(h, c, done + k, Tail(q), s, r, u, t, n)
<1>1. PICK b1, b2, b3, b4 \in Nat :
        /\ Consecutive(OutRuns(q, c), h, done, b1)
        /\ Consecutive(OutRuns(s, c), h, b1, b2)
        /\ Consecutive(OutRuns(r, c), h, b2, b3)
        /\ Consecutive(CmdRuns(u, c), h, b3, b4)
        /\ Consecutive(CmdRuns(t, c), h, b4, n)
  BY DEF Line
<1>2. PICK k \in Nat : /\ OutFor(Head(q), c) = Commands(h, done, k)
                       /\ Consecutive(OutRuns(Tail(q), c), h, done + k, b1)
  BY <1>1, ReplyPopped DEF Places
<1>. QED
  BY <1>1, <1>2 DEF Line

(* The places of a line put together, as PipelineIntact does.                 *)
LEMMA LineWhole ==
    ASSUME NEW h, NEW c, NEW done \in Nat, NEW q, NEW s, NEW r, NEW u, NEW t, NEW n \in Nat,
           Places(q, s, r, u, t), Line(h, c, done, q, s, r, u, t, n)
    PROVE  /\ Consecutive(OutRuns(q, c) \o OutRuns(s, c) \o OutRuns(r, c)
                          \o CmdRuns(u, c) \o CmdRuns(t, c), h, done, n)
           /\ done <= n
<1>1. PICK b1, b2, b3, b4 \in Nat :
        /\ Consecutive(OutRuns(q, c), h, done, b1)
        /\ Consecutive(OutRuns(s, c), h, b1, b2)
        /\ Consecutive(OutRuns(r, c), h, b2, b3)
        /\ Consecutive(CmdRuns(u, c), h, b3, b4)
        /\ Consecutive(CmdRuns(t, c), h, b4, n)
  BY DEF Line
<1>. DEFINE v1 == OutRuns(q, c)
            v2 == OutRuns(s, c)
            v3 == OutRuns(r, c)
            v4 == CmdRuns(u, c)
            v5 == CmdRuns(t, c)
            w2 == v1 \o v2
            w3 == w2 \o v3
            w4 == w3 \o v4
            w5 == w4 \o v5
<1>2. v1 \in Seq(Carried) /\ v2 \in Seq(Carried) /\ v3 \in Seq(Carried)
  BY RepliesCarry DEF Places
<1>3. v4 \in Seq(Carried) /\ v5 \in Seq(Carried)
  BY BatchesCarry DEF Places
<1>4. /\ Consecutive(v1, h, done, b1) /\ Consecutive(v2, h, b1, b2)
      /\ Consecutive(v3, h, b2, b3) /\ Consecutive(v4, h, b3, b4)
      /\ Consecutive(v5, h, b4, n)
  BY <1>1
<1>. HIDE DEF v1, v2, v3, v4, v5
<1>5. w2 \in Seq(Carried) /\ w3 \in Seq(Carried) /\ w4 \in Seq(Carried)
  BY <1>2, <1>3, ConcatProperties
<1>6. Consecutive(w2, h, done, b2)
  BY <1>2, <1>4, GluedRuns
<1>. HIDE DEF w2
<1>7. Consecutive(w3, h, done, b3)
  BY <1>2, <1>4, <1>5, <1>6, GluedRuns
<1>. HIDE DEF w3
<1>8. Consecutive(w4, h, done, b4)
  BY <1>3, <1>4, <1>5, <1>7, GluedRuns
<1>. HIDE DEF w4
<1>9. Consecutive(w5, h, done, n)
  BY <1>3, <1>4, <1>5, <1>8, GluedRuns
<1>10. done <= n
  BY <1>9 DEF Consecutive
<1>. QED
  BY <1>9, <1>10 DEF v1, v2, v3, v4, v5, w2, w3, w4

-------------------------------------------------------------------------------
(* The engine.  What a worker has fetched and not handed to the reactor.      *)
Rest(pc, b) == IF pc = "send" THEN Tail(b) ELSE b

Live(h) == hstate[h] = "open" /\ ~broken[h] /\ rpc # "destroyed"

(* What was written to the client is the beginning of what it asked, and the  *)
(* line of its connection is whole.                                           *)
Whole(h) ==
    LET w == WP!Fetch(hconn[h]) IN
    /\ answered[h] = Commands(h, 0, Len(answered[h]))
    /\ Line(h, hconn[h], Len(answered[h]), wq[h], sending, replies,
            Rest(wpc[w], batch[w]), tasks[w], asked[h])

(* Between two replies that it sends, the loop runs no other callback.        *)
Undisturbed == lpc # "poll" => sending = <<>>

OrderInv == Undisturbed /\ \A h \in Handles : Live(h) => Whole(h)

(* Every callback of the loop begins when the one before has sent all.        *)
LEMMA UndisturbedStep ==
    ASSUME PartsInv, Undisturbed, [R!Next]_R!vars \/ Late
    PROVE  Undisturbed'
<1>1. CASE [R!Next]_R!vars
  BY <1>1 DEF Undisturbed, R!Next, R!vars, R!tvars, R!OnConnect, R!OnRead, R!OnReadClose,
       R!PeerBreaks, R!OnWrite, R!SenderSends, R!AppendReply, R!SenderNotifies, R!Notify,
       R!Dispatched, R!OnReply, R!SwapReplies, R!SendReply, R!EndIteration, R!OnStop,
       R!PcAfterStop, R!Stop, R!Destroy, R!Terminated, R!Polling
<1>2. CASE Late
  BY <1>2, LateStep DEF Undisturbed
<1>. QED
  BY <1>1, <1>2

(* The places of a client that is there.                                      *)
LEMMA OwnPlaces ==
    ASSUME PartsInv, NEW h \in Handles, Live(h)
    PROVE  /\ hconn[h] \in ConnIds /\ hconn[h] < connCnt /\ conns[hconn[h]] = h
           /\ WP!Fetch(hconn[h]) \in Workers
           /\ Len(answered[h]) \in Nat /\ asked[h] \in Nat
           /\ \A i \in 1 .. Len(wq[h]) : wq[h][i].conn = hconn[h]
<1>1. hconn[h] \in ConnIds /\ hconn[h] < connCnt
  BY DEF Live, PartsInv, ContractInv, ItemsInv
<1>2. conns[hconn[h]] = h
  BY DEF Live, PartsInv, RP!TableInv, RP!TableMatchesHandles
<1>3. WP!Fetch(hconn[h]) \in Workers
  BY <1>1, EngineAssumption DEF WP!Fetch, Workers, ConnIds
<1>4. Len(answered[h]) \in Nat /\ asked[h] \in Nat
  BY EngineAssumption DEF PartsInv, ContractInv, ItemsInv
<1>. QED
  BY <1>1, <1>2, <1>3, <1>4 DEF PartsInv, ItemsInv

(* The vectors of a line hold replies and items; a worker that is not running *)
(* a pass has none left of the last one.                                      *)
LEMMA TypedPlaces ==
    ASSUME PartsInv, NEW h \in Handles, NEW w \in Workers
    PROVE  /\ Places(wq[h], sending, replies, Rest(wpc[w], batch[w]), tasks[w])
           /\ batch[w] \in Seq(WP!Items)
           /\ wpc[w] = "send" => batch[w] # <<>>
           /\ wpc[w] \in {"fetch", "wait", "woken", "exited"} => batch[w] = <<>>
<1>1. wq[h] \in Seq(Reply) /\ sending \in Seq(Reply) /\ replies \in Seq(Reply)
  BY DEF PartsInv, R!TypeOK
<1>2. tasks[w] \in Seq(WP!Items) /\ batch[w] \in Seq(WP!Items)
  BY DEF PartsInv, WP!TypeOK, WP!Workers, Workers
<1>3. /\ wpc[w] = "send" => batch[w] # <<>>
      /\ wpc[w] \in {"fetch", "wait", "woken", "exited"} => batch[w] = <<>>
  BY DEF PartsInv, WPP!LocalOK, WPP!Workers, Workers
<1>4. Rest(wpc[w], batch[w]) \in Seq(WP!Items)
  BY <1>2, <1>3, HeadTailProperties DEF Rest
<1>. QED
  BY <1>1, <1>2, <1>3, <1>4 DEF Places

(* A client that is there after a step was there before it, on the same       *)
(* connection, unless it has just connected.                                  *)
LEMMA LiveBefore ==
    ASSUME PartsInv, [Next]_vars, NEW h \in Handles, Live(h)'
    PROVE  Connect(h) \/ (Live(h) /\ hconn'[h] = hconn[h])
<1>. USE DEF Live
<1>a. /\ DOMAIN hstate = Handles /\ DOMAIN hconn = Handles /\ DOMAIN broken = Handles
  BY DEF PartsInv, R!TypeOK
<1>1. ASSUME NEW g \in Handles, Connect(g), g # h PROVE Live(h) /\ hconn'[h] = hconn[h]
  BY <1>1, <1>a DEF Connect, LoopOnly, R!OnConnect
<1>2. ASSUME NEW g \in Handles, CloseConn(g) \/ Break(g) \/ WriteDone(g)
      PROVE  Live(h) /\ hconn'[h] = hconn[h]
  BY <1>2, <1>a DEF CloseConn, Break, WriteDone, LoopOnly, R!OnReadClose, R!PeerBreaks,
                    R!OnWrite, R!tvars
<1>3. ASSUME NEW g \in Handles, NEW k \in 1 .. MaxCmds, Read(g, k)
      PROVE  Live(h) /\ hconn'[h] = hconn[h]
  BY <1>3 DEF Read, R!OnRead, R!tvars
<1>4. ASSUME EndDispatch \/ TakeReplies \/ StopLoop PROVE Live(h) /\ hconn'[h] = hconn[h]
  BY <1>4 DEF EndDispatch, R!Dispatched, TakeReplies, LoopOnly, R!OnReply, R!SwapReplies,
              R!SendReply, StopLoop, R!OnStop, R!tvars
<1>5. ASSUME FinishIteration PROVE Live(h) /\ hconn'[h] = hconn[h]
  BY <1>5 DEF FinishIteration, LoopOnly, R!EndIteration
<1>6. ASSUME RequestStop \/ DestroyReactor PROVE Live(h) /\ hconn'[h] = hconn[h]
  BY <1>6 DEF RequestStop, DestroyReactor, LoopOnly, R!Stop, R!Destroy, R!tvars
<1>7. ASSUME NEW w \in Workers, WorkerStep(w) \/ Wakeup(w)
      PROVE  Live(h) /\ hconn'[h] = hconn[h]
  BY <1>7 DEF WorkerStep, WorkerAlone, RunAndAppend, NotifyLoop, Wakeup,
              R!AppendReply, R!Notify, R!tvars, reactorVars
<1>8. ASSUME DestroyPool \/ UNCHANGED vars PROVE Live(h) /\ hconn'[h] = hconn[h]
  BY <1>8 DEF DestroyPool, vars, reactorVars
<1>. QED
  BY <1>1, <1>2, <1>3, <1>4, <1>5, <1>6, <1>7, <1>8 DEF Next, Step, Terminated

(* A client that has just connected: nothing in the engine is for it.         *)
LEMMA WholeBegins ==
    ASSUME PartsInv, NEW h \in Handles, Connect(h)
    PROVE  Whole(h)'
<1>1. /\ connCnt \in ConnIds /\ hconn'[h] = connCnt
      /\ asked[h] = 0 /\ answered[h] = <<>> /\ wq[h] = <<>>
      /\ UNCHANGED <<poolVars, asked, answered, wq, sending, replies>>
  <2>1. /\ hstate[h] = "none" /\ connCnt < MaxConns
        /\ hconn' = [hconn EXCEPT ![h] = connCnt]
        /\ UNCHANGED <<poolVars, asked, answered, wq, sending, replies>>
    BY DEF Connect, LoopOnly, R!OnConnect, R!NextId, clientVars
  <2>2. connCnt \in Nat /\ DOMAIN hconn = Handles
    BY DEF PartsInv, ContractInv
  <2>3. connCnt \in ConnIds
    BY <2>1, <2>2, EngineAssumption DEF ConnIds
  <2>4. asked[h] = 0 /\ answered[h] = <<>> /\ wq[h] = <<>>
    BY <2>1 DEF PartsInv, ItemsInv
  <2>. QED
    BY <2>1, <2>2, <2>3, <2>4
<1>2. PICK c \in ConnIds, w \in Workers : c = connCnt /\ w = WP!Fetch(c)
  BY <1>1, EngineAssumption DEF WP!Fetch, Workers, ConnIds
<1>3. Places(wq[h], sending, replies, Rest(wpc[w], batch[w]), tasks[w])
  BY TypedPlaces
<1>4. c \in Nat /\ \A r \in Reply : r.conn \in Nat
  BY EngineAssumption DEF Reply, ConnIds
<1>5. \A r \in Reply : r.conn < c => OutFor(r, c) = <<>>
  BY <1>4 DEF OutFor
<1>6. \A b \in WP!Items : Ours(b, w, c) => CmdsFor(b, c) = <<>>
  BY EngineAssumption DEF CmdsFor, Ours, WP!Items, Batch, ConnIds
<1>7. /\ \A i \in 1 .. Len(sending) : OutFor(sending[i], c) = <<>>
      /\ \A i \in 1 .. Len(replies) : OutFor(replies[i], c) = <<>>
  <2>1. /\ \A i \in 1 .. Len(sending) : sending[i] \in Reply
        /\ \A i \in 1 .. Len(replies) : replies[i] \in Reply
    BY <1>3 DEF Places
  <2>2. /\ \A i \in 1 .. Len(sending) : sending[i].conn < c
        /\ \A i \in 1 .. Len(replies) : replies[i].conn < c
    BY <1>2 DEF PartsInv, ItemsInv
  <2>. QED
    BY <1>5, <2>1, <2>2
<1>8. \A i \in 1 .. Len(tasks[w]) : CmdsFor(tasks[w][i], c) = <<>>
  <2>1. \A i \in 1 .. Len(tasks[w]) : tasks[w][i] \in WP!Items
    BY <1>3 DEF Places
  <2>2. \A i \in 1 .. Len(tasks[w]) : Ours(tasks[w][i], w, c)
    BY <1>2 DEF PartsInv, ItemsInv
  <2>. QED
    BY <1>6, <2>1, <2>2
<1>9. \A i \in 1 .. Len(batch[w]) : CmdsFor(batch[w][i], c) = <<>>
  <2>1. batch[w] \in Seq(WP!Items)
    BY TypedPlaces
  <2>2. \A i \in 1 .. Len(batch[w]) : batch[w][i] \in WP!Items
    BY <2>1
  <2>3. \A i \in 1 .. Len(batch[w]) : Ours(batch[w][i], w, c)
    BY <1>2 DEF PartsInv, ItemsInv
  <2>. QED
    BY <1>6, <2>2, <2>3
<1>10. \A i \in 1 .. Len(Rest(wpc[w], batch[w])) : CmdsFor(Rest(wpc[w], batch[w])[i], c) = <<>>
  <2>1. CASE wpc[w] = "send"
    <3>1. batch[w] \in Seq(WP!Items) /\ batch[w] # <<>>
      BY <2>1, TypedPlaces
    <3>2. \A i \in 1 .. Len(Tail(batch[w])) :
             Tail(batch[w])[i] = batch[w][i + 1] /\ i + 1 \in 1 .. Len(batch[w])
      BY <3>1
    <3>. QED
      BY <1>9, <2>1, <3>2 DEF Rest
  <2>2. CASE wpc[w] # "send"
    BY <1>9, <2>2 DEF Rest
  <2>. QED
    BY <2>1, <2>2
<1>11. Line(h, c, 0, wq[h], sending, replies, Rest(wpc[w], batch[w]), tasks[w], 0)
  BY <1>1, <1>3, <1>7, <1>8, <1>10, LineBegins
<1>12. Len(answered[h]) = 0 /\ answered[h] = Commands(h, 0, 0)
  BY <1>1, EmptyRun
<1>. QED
  BY <1>1, <1>2, <1>11, <1>12 DEF Whole, poolVars

(* A step of the engine and the line of a client that stays: one step per     *)
(* action, each a move of that line or none.                                  *)
LEMMA WholeStep ==
    ASSUME PartsInv, Undisturbed, [Next]_vars, NEW h \in Handles,
           Live(h), Whole(h), Live(h)', hconn'[h] = hconn[h]
    PROVE  Whole(h)'
<1>1. PICK c \in ConnIds, w \in Workers :
        /\ c = hconn[h] /\ w = WP!Fetch(c) /\ conns[c] = h
        /\ \A i \in 1 .. Len(wq[h]) : wq[h][i].conn = c
  BY OwnPlaces
<1>2. /\ Places(wq[h], sending, replies, Rest(wpc[w], batch[w]), tasks[w])
      /\ batch[w] \in Seq(WP!Items)
      /\ wpc[w] = "send" => batch[w] # <<>>
      /\ wpc[w] \in {"fetch", "wait", "woken", "exited"} => batch[w] = <<>>
  BY TypedPlaces
<1>3. Len(answered[h]) \in Nat /\ asked[h] \in Nat
  BY OwnPlaces
<1>4. /\ answered[h] = Commands(h, 0, Len(answered[h]))
      /\ Line(h, c, Len(answered[h]), wq[h], sending, replies,
              Rest(wpc[w], batch[w]), tasks[w], asked[h])
  BY <1>1 DEF Whole
<1>5. ASSUME answered'[h] = answered[h], wq'[h] = wq[h], sending' = sending, replies' = replies,
             Rest(wpc'[w], batch'[w]) = Rest(wpc[w], batch[w]), tasks'[w] = tasks[w],
             asked'[h] = asked[h]
      PROVE  Whole(h)'
  BY <1>1, <1>4, <1>5 DEF Whole
<1>6. ASSUME NEW g \in Handles, Connect(g), g # h PROVE Whole(h)'
  BY <1>5, <1>6 DEF Connect, LoopOnly, R!OnConnect, poolVars, clientVars
<1>7. ASSUME NEW g \in Handles, CloseConn(g) \/ Break(g) PROVE Whole(h)'
  BY <1>5, <1>7 DEF CloseConn, Break, LoopOnly, R!OnReadClose, R!PeerBreaks, poolVars, clientVars
<1>8. ASSUME NEW g \in Handles, WriteDone(g) PROVE Whole(h)'
  <2>1. UNCHANGED <<poolVars, asked, replies, sending, hconn>>
    BY <1>8 DEF WriteDone, R!OnWrite, R!tvars
  <2>2. DOMAIN wq = Handles /\ DOMAIN answered = Handles
    BY DEF PartsInv, ItemsInv, R!TypeOK
  <2>3. CASE g # h
    <3>1. wq'[h] = wq[h] /\ answered'[h] = answered[h]
      BY <1>8, <2>2, <2>3 DEF WriteDone, R!OnWrite
    <3>. QED
      BY <1>5, <2>1, <3>1 DEF poolVars
  <2>4. CASE g = h
    <3>. DEFINE a == Len(answered[h])
    <3>1. wq[h] # <<>> /\ wq'[h] = Tail(wq[h]) /\ answered'[h] = answered[h] \o Head(wq[h]).out
      BY <1>8, <2>2, <2>4 DEF WriteDone, R!OnWrite, Live
    <3>2. OutFor(Head(wq[h]), c) = Head(wq[h]).out
      <4>1. Head(wq[h]) = wq[h][1] /\ 1 \in 1 .. Len(wq[h])
        BY <1>2, <3>1 DEF Places
      <4>. QED
        BY <1>1, <4>1 DEF OutFor
    <3>3. PICK k \in Nat :
            /\ OutFor(Head(wq[h]), c) = Commands(h, a, k)
            /\ Line(h, c, a + k, Tail(wq[h]), sending, replies,
                    Rest(wpc[w], batch[w]), tasks[w], asked[h])
      BY <1>2, <1>3, <1>4, <3>1, LineWritten
    <3>4. answered'[h] = Commands(h, 0, a + k)
      <4>1. answered'[h] = Commands(h, 0, a) \o Commands(h, a, k)
        BY <1>4, <3>1, <3>2, <3>3
      <4>2. 0 + a = a /\ a \in Nat /\ 0 \in Nat
        BY <1>3
      <4>. HIDE DEF a
      <4>3. Commands(h, 0, a) \o Commands(h, 0 + a, k) = Commands(h, 0, a + k)
        BY <4>2, JoinedRuns
      <4>. QED
        BY <4>1, <4>2, <4>3
    <3>5. Len(answered'[h]) = a + k
      <4>1. a + k \in Nat
        BY <1>3
      <4>. QED
        BY <3>4, <4>1, RunLength
    <3>. QED
      BY <1>1, <2>1, <3>1, <3>3, <3>4, <3>5 DEF Whole, poolVars
  <2>. QED
    BY <2>3, <2>4
<1>9. ASSUME NEW g \in Handles, NEW k \in 1 .. MaxCmds, Read(g, k) PROVE Whole(h)'
  <2>. DEFINE b == BatchOf(g, k)
              v == WP!Fetch(hconn[g])
  <2>1. /\ b \in WP!Items /\ b # StopMarker
        /\ b.conn = hconn[g] /\ b.cmds = Commands(g, asked[g], k)
    BY <1>9, BatchType, EngineAssumption DEF PartsInv, BatchOf, WP!Items
  <2>2. UNCHANGED <<answered, wq, sending, replies, wpc, batch, hconn>>
    BY <1>9 DEF Read, R!OnRead, R!tvars, WP!Dispatch
  <2>3. tasks' = [tasks EXCEPT ![v] = Append(tasks[v], b)]
    BY <1>9, <2>1 DEF Read, WP!Dispatch, WP!Push, WP!Pushed
  <2>4. asked' = [asked EXCEPT ![g] = asked[g] + k] /\ DOMAIN asked = Handles
    BY <1>9 DEF Read, PartsInv, ContractInv
  <2>5. DOMAIN tasks = Workers
    BY DEF PartsInv, WP!TypeOK, WP!Workers, Workers
  <2>6. hconn[g] = c => g = h
    <3>1. hstate[g] = "open" /\ rpc # "destroyed"
      BY <1>9 DEF Read, R!OnRead, Live
    <3>2. conns[hconn[g]] = g
      BY <3>1 DEF PartsInv, RP!TableInv, RP!TableMatchesHandles
    <3>. QED
      BY <1>1, <3>2
  <2>. HIDE DEF b
  <2>7. CASE g = h
    <3>1. CmdsFor(b, c) = Commands(h, asked[h], k) /\ v = w /\ k \in Nat
      BY <1>1, <2>1, <2>7 DEF CmdsFor
    <3>2. tasks'[w] = Append(tasks[w], b) /\ asked'[h] = asked[h] + k
      BY <2>3, <2>4, <2>5, <2>7, <3>1
    <3>3. Line(h, c, Len(answered[h]), wq[h], sending, replies,
               Rest(wpc[w], batch[w]), Append(tasks[w], b), asked[h] + k)
      BY <1>2, <1>3, <1>4, <2>1, <3>1, LineAsked
    <3>. QED
      BY <1>1, <1>4, <2>2, <3>2, <3>3 DEF Whole
  <2>8. CASE g # h /\ v = w
    <3>1. CmdsFor(b, c) = Commands(h, asked[h], 0) /\ asked[h] + 0 = asked[h]
      BY <1>3, <2>1, <2>6, <2>8, EmptyRun DEF CmdsFor
    <3>2. tasks'[w] = Append(tasks[w], b) /\ asked'[h] = asked[h]
      BY <2>3, <2>4, <2>5, <2>8
    <3>3. Line(h, c, Len(answered[h]), wq[h], sending, replies,
               Rest(wpc[w], batch[w]), Append(tasks[w], b), asked[h] + 0)
      BY <1>2, <1>3, <1>4, <2>1, <3>1, LineAsked
    <3>. QED
      BY <1>1, <1>4, <2>2, <3>1, <3>2, <3>3 DEF Whole
  <2>9. CASE g # h /\ v # w
    <3>1. tasks'[w] = tasks[w] /\ asked'[h] = asked[h]
      BY <2>3, <2>4, <2>5, <2>9
    <3>. QED
      BY <1>5, <2>2, <3>1
  <2>. QED
    BY <2>7, <2>8, <2>9
<1>10. ASSUME NEW t, WP!NotifyOne(t) PROVE Rest(wpc'[w], batch'[w]) = Rest(wpc[w], batch[w])
  BY <1>10 DEF WP!NotifyOne, WP!Workers, Workers, Rest
<1>11. ASSUME EndDispatch PROVE Whole(h)'
  <2>1. UNCHANGED <<answered, wq, sending, replies, tasks, asked>>
    BY <1>11 DEF EndDispatch, R!Dispatched, WP!NotifyOne, clientVars
  <2>2. Rest(wpc'[w], batch'[w]) = Rest(wpc[w], batch[w])
    BY <1>10, <1>11 DEF EndDispatch
  <2>. QED
    BY <1>5, <2>1, <2>2
<1>12. ASSUME LoopOnly(R!OnReply) \/ StopLoop \/ RequestStop PROVE Whole(h)'
  BY <1>5, <1>12 DEF StopLoop, RequestStop, LoopOnly, R!OnReply, R!OnStop, R!Stop,
                     poolVars, clientVars
<1>13. ASSUME LoopOnly(R!SwapReplies) PROVE Whole(h)'
  <2>1. sending = <<>> /\ sending' = replies /\ replies' = <<>>
    BY <1>13 DEF LoopOnly, R!SwapReplies, R!LeftAfterSwap, Undisturbed
  <2>2. UNCHANGED <<answered, wq, hconn, wpc, batch, tasks, asked>>
    BY <1>13 DEF LoopOnly, R!SwapReplies, R!tvars, poolVars, clientVars
  <2>3. Line(h, c, Len(answered[h]), wq[h], replies, <<>>,
             Rest(wpc[w], batch[w]), tasks[w], asked[h])
    BY <1>3, <1>4, <2>1, LineSwapped
  <2>. QED
    BY <1>1, <1>4, <2>1, <2>2, <2>3 DEF Whole
<1>14. ASSUME LoopOnly(R!SendReply) PROVE Whole(h)'
  <2>. DEFINE r == Head(sending)
  <2>1. sending # <<>> /\ sending' = Tail(sending)
        /\ wq'[h] = IF h = conns[r.conn] /\ hstate[h] = "open" THEN Append(wq[h], r) ELSE wq[h]
    BY <1>14 DEF LoopOnly, R!SendReply, R!Target
  <2>2. UNCHANGED <<answered, replies, hconn, wpc, batch, tasks, asked>>
    BY <1>14 DEF LoopOnly, R!SendReply, R!tvars, poolVars, clientVars
  <2>3. /\ Line(h, c, Len(answered[h]), Append(wq[h], r), Tail(sending), replies,
                Rest(wpc[w], batch[w]), tasks[w], asked[h])
        /\ OutFor(r, c) = <<>> =>
              Line(h, c, Len(answered[h]), wq[h], Tail(sending), replies,
                   Rest(wpc[w], batch[w]), tasks[w], asked[h])
    BY <1>2, <1>3, <1>4, <2>1, LineQueued
  <2>4. r \in Reply
    BY <1>2, <2>1, HeadTailProperties DEF Places
  <2>. HIDE DEF r
  <2>5. CASE r.conn = c
    <3>1. wq'[h] = Append(wq[h], r)
      BY <1>1, <2>1, <2>5 DEF Live
    <3>. QED
      BY <1>1, <1>4, <2>1, <2>2, <2>3, <3>1 DEF Whole
  <2>6. CASE r.conn # c
    <3>1. OutFor(r, c) = <<>>
      BY <2>6 DEF OutFor
    <3>2. conns[r.conn] # h
      BY <1>1, <2>4, <2>6, EngineAssumption
         DEF Reply, PartsInv, RP!TableInv, RP!TableMatchesHandles, ConnIds, RP!ConnIds
    <3>3. wq'[h] = wq[h]
      BY <2>1, <3>2
    <3>. QED
      BY <1>1, <1>4, <2>1, <2>2, <2>3, <3>1, <3>3 DEF Whole
  <2>. QED
    BY <2>5, <2>6
<1>15. ASSUME FinishIteration PROVE Whole(h)'
  <2>1. wq'[h] = wq[h] /\ UNCHANGED <<replies, sending, poolVars, clientVars>>
    BY <1>15 DEF FinishIteration, LoopOnly, R!EndIteration, Live
  <2>. QED
    BY <1>5, <2>1 DEF poolVars, clientVars
<1>16. ~DestroyReactor
  BY DEF DestroyReactor, LoopOnly, R!Destroy, Live
<1>17. ASSUME NEW v \in Workers, WorkerAlone(v) \/ Wakeup(v) PROVE Whole(h)'
  <2>1. UNCHANGED <<answered, wq, sending, replies, asked, hconn>>
    BY <1>17 DEF WorkerAlone, Wakeup, reactorVars, clientVars
  <2>2. DOMAIN tasks = Workers /\ DOMAIN batch = Workers /\ DOMAIN wpc = Workers
    BY DEF PartsInv, WP!TypeOK, WP!Workers, Workers
  <2>3. CASE v # w
    <3>1. wpc'[w] = wpc[w] /\ batch'[w] = batch[w] /\ tasks'[w] = tasks[w]
      BY <1>17, <2>2, <2>3 DEF WorkerAlone, Wakeup, WP!FetchTasks, WP!SkipStop, WP!EndPass,
                               WP!SpuriousWakeup, WP!Goto
    <3>. QED
      BY <1>5, <2>1, <3>1
  <2>4. CASE v = w /\ (WP!EndPass(w) \/ WP!SpuriousWakeup(w))
    <3>1. Rest(wpc'[w], batch'[w]) = Rest(wpc[w], batch[w]) /\ tasks'[w] = tasks[w]
      BY <2>2, <2>4 DEF WP!EndPass, WP!SpuriousWakeup, WP!Goto, Rest
    <3>. QED
      BY <1>5, <2>1, <3>1
  <2>5. CASE v = w /\ WP!FetchTasks(w)
    <3>1. wpc[w] \in {"fetch", "woken"} /\ batch[w] = <<>> /\ Rest(wpc[w], batch[w]) = <<>>
      BY <1>2, <2>5 DEF WP!FetchTasks, Rest
    <3>2. CASE tasks[w] = <<>>
      <4>1. Rest(wpc'[w], batch'[w]) = <<>> /\ tasks'[w] = tasks[w]
        BY <2>2, <2>5, <3>1, <3>2 DEF WP!FetchTasks, WP!Goto, Rest
      <4>. QED
        BY <1>5, <2>1, <3>1, <4>1
    <3>3. CASE tasks[w] # <<>>
      <4>1. Rest(wpc'[w], batch'[w]) = tasks[w] /\ tasks'[w] = <<>>
        BY <2>2, <2>5, <3>3 DEF WP!FetchTasks, WP!Goto, WP!AfterFetch, Rest
      <4>2. Line(h, c, Len(answered[h]), wq[h], sending, replies, tasks[w], <<>>, asked[h])
        BY <1>3, <1>4, <3>1, LineFetched
      <4>. QED
        BY <1>1, <1>4, <2>1, <4>1, <4>2 DEF Whole
    <3>. QED
      BY <3>2, <3>3
  <2>6. CASE v = w /\ WP!SkipStop(w)
    <3>1. /\ wpc[w] = "run" /\ wpc'[w] = "run" /\ tasks'[w] = tasks[w]
          /\ batch[w] # <<>> /\ Head(batch[w]) = StopMarker /\ batch'[w] = Tail(batch[w])
      BY <2>2, <2>6 DEF WP!SkipStop
    <3>2. CmdsFor(Head(batch[w]), c) = <<>>
      BY <3>1 DEF CmdsFor
    <3>3. Rest(wpc[w], batch[w]) = batch[w] /\ Rest(wpc'[w], batch'[w]) = Tail(batch[w])
      BY <3>1 DEF Rest
    <3>4. Line(h, c, Len(answered[h]), wq[h], sending, replies, Tail(batch[w]), tasks[w], asked[h])
      BY <1>2, <1>3, <1>4, <3>1, <3>2, <3>3, LineSkipped
    <3>. QED
      BY <1>1, <1>4, <2>1, <3>1, <3>3, <3>4 DEF Whole
  <2>. QED
    BY <1>17, <2>3, <2>4, <2>5, <2>6 DEF WorkerAlone, Wakeup
<1>18. ASSUME NEW v \in Workers, RunAndAppend(v) PROVE Whole(h)'
  <2>. DEFINE r == RunTasks(Head(batch[v]))
  <2>1. /\ r \in Reply /\ r.conn = Head(batch[v]).conn /\ r.out = Head(batch[v]).cmds
        /\ Head(batch[v]) # StopMarker /\ WP!Fetch(r.conn) = v
    BY <1>18, ReplyOfBatch DEF RunAndAppend, WP!RunBatch
  <2>2. UNCHANGED <<answered, wq, sending, asked, hconn, tasks, batch>>
        /\ replies' = Append(replies, r)
    BY <1>18 DEF RunAndAppend, WP!RunBatch, R!AppendReply, R!tvars, clientVars
  <2>3. batch[v] # <<>> /\ wpc[v] = "run" /\ wpc' = [wpc EXCEPT ![v] = "send"]
        /\ DOMAIN wpc = Workers
    BY <1>18 DEF RunAndAppend, WP!RunBatch, WP!Goto, PartsInv, WP!TypeOK, WP!Workers, Workers
  <2>. HIDE DEF r
  <2>4. CASE v = w
    <3>1. OutFor(r, c) = CmdsFor(Head(batch[w]), c)
      BY <2>1, <2>4 DEF OutFor, CmdsFor
    <3>2. Rest(wpc[w], batch[w]) = batch[w] /\ Rest(wpc'[w], batch'[w]) = Tail(batch[w])
      BY <2>2, <2>3, <2>4 DEF Rest
    <3>3. Line(h, c, Len(answered[h]), wq[h], sending, Append(replies, r),
               Tail(batch[w]), tasks[w], asked[h])
      BY <1>2, <1>3, <1>4, <2>1, <2>3, <2>4, <3>1, <3>2, LineRun
    <3>. QED
      BY <1>1, <1>4, <2>2, <3>2, <3>3 DEF Whole
  <2>5. CASE v # w
    <3>1. OutFor(r, c) = <<>>
      BY <1>1, <2>1, <2>5 DEF OutFor
    <3>2. Rest(wpc'[w], batch'[w]) = Rest(wpc[w], batch[w])
      BY <2>2, <2>3, <2>5
    <3>3. Line(h, c, Len(answered[h]), wq[h], sending, Append(replies, r),
               Rest(wpc[w], batch[w]), tasks[w], asked[h])
      BY <1>2, <1>3, <1>4, <2>1, <3>1, LineBeside
    <3>. QED
      BY <1>1, <1>4, <2>2, <3>2, <3>3 DEF Whole
  <2>. QED
    BY <2>4, <2>5
<1>19. ASSUME NEW v \in Workers, NotifyLoop(v) PROVE Whole(h)'
  <2>1. UNCHANGED <<answered, wq, sending, replies, asked, tasks>>
    BY <1>19 DEF NotifyLoop, R!Notify, WP!Sent, clientVars
  <2>2. DOMAIN batch = Workers /\ DOMAIN wpc = Workers
    BY DEF PartsInv, WP!TypeOK, WP!Workers, Workers
  <2>3. Rest(wpc'[w], batch'[w]) = Rest(wpc[w], batch[w])
    BY <1>19, <2>2 DEF NotifyLoop, WP!Sent, WP!Goto, Rest
  <2>. QED
    BY <1>5, <2>1, <2>3
<1>21. ASSUME DestroyPool PROVE Whole(h)'
  <2>1. ostep = "up"
    BY DEF PartsInv, ContractInv, Live
  <2>2. WP!NotifyOne(Main)
    BY <1>21, <2>1 DEF DestroyPool, PoolReleased, Live, WP!OwnerStep, WP!StopWorker,
                       WP!ResetWorker, WP!JoinWorker
  <2>3. UNCHANGED <<answered, wq, sending, replies, asked, tasks>>
    BY <1>21, <2>2 DEF DestroyPool, WP!NotifyOne, reactorVars, clientVars
  <2>. QED
    BY <1>5, <1>10, <2>2, <2>3
<1>22. ASSUME UNCHANGED vars PROVE Whole(h)'
  BY <1>5, <1>22 DEF vars, poolVars, reactorVars, clientVars
<1>23. ~Connect(h)
  BY DEF Connect, LoopOnly, R!OnConnect, Live
<1>. QED
  BY <1>6, <1>7, <1>8, <1>9, <1>11, <1>12, <1>13, <1>14, <1>15, <1>16, <1>17, <1>18, <1>19,
     <1>21, <1>22, <1>23
     DEF Next, Step, TakeReplies, LoopOnly, WorkerStep, Terminated
(* All clients at once.                                                       *)
LEMMA OrderStep == ASSUME PartsInv, OrderInv, [Next]_vars PROVE OrderInv'
<1>1. Undisturbed'
  BY ReactorStep, UndisturbedStep DEF OrderInv
<1>2. ASSUME NEW h \in Handles, Live(h)' PROVE Whole(h)'
  <2>1. CASE Connect(h)
    BY <2>1, WholeBegins
  <2>2. CASE Live(h) /\ hconn'[h] = hconn[h]
    BY <1>2, <2>2, WholeStep DEF OrderInv
  <2>. QED
    BY <1>2, <2>1, <2>2, LiveBefore
<1>. QED
  BY <1>1, <1>2 DEF OrderInv

(* When main() starts no client is there.                                     *)
LEMMA OrderInit == Init => OrderInv
BY DEF Init, R!Init, OrderInv, Undisturbed, Live

(* The invariant of all that follows.                                         *)
LEMMA OrderHolds == SafeSpec => [](PartsInv /\ OrderInv)
<1>1. PartsInv /\ OrderInv /\ [Next]_vars => PartsInv' /\ OrderInv'
  BY PartsStep, OrderStep
<1>. QED
  BY <1>1, PartsInit, OrderInit, PTL DEF SafeSpec

(* Whatever the threads do, for a connection that is open the answers written *)
(* to the client and all that is under way for it, in the write queue, in what*)
(* the loop took, in what the workers sent, in what its worker fetched and in *)
(* what was submitted to it, are together what the client asked, each command *)
(* once and in order.                                                         *)
THEOREM PipelineStaysIntact == SafeSpec => []PipelineIntact
<1>1. ASSUME PartsInv, OrderInv, NEW h \in Handles, Live(h)
      PROVE  /\ answered[h] = Commands(h, 0, Len(answered[h]))
             /\ Consecutive(Pipeline(h, hconn[h]), h, Len(answered[h]), asked[h])
  <2>1. PICK c \in ConnIds, w \in Workers : c = hconn[h] /\ w = WP!Fetch(c)
    BY <1>1, OwnPlaces
  <2>2. Places(wq[h], sending, replies, Rest(wpc[w], batch[w]), tasks[w])
    BY <1>1, TypedPlaces
  <2>3. Len(answered[h]) \in Nat /\ asked[h] \in Nat
    BY <1>1, OwnPlaces
  <2>4. /\ answered[h] = Commands(h, 0, Len(answered[h]))
        /\ Line(h, c, Len(answered[h]), wq[h], sending, replies,
                Rest(wpc[w], batch[w]), tasks[w], asked[h])
    BY <1>1, <2>1 DEF OrderInv, Whole
  <2>5. Consecutive(OutRuns(wq[h], c) \o OutRuns(sending, c) \o OutRuns(replies, c)
                    \o CmdRuns(Rest(wpc[w], batch[w]), c) \o CmdRuns(tasks[w], c),
                    h, Len(answered[h]), asked[h])
    BY <2>2, <2>3, <2>4, LineWhole
  <2>. QED
    BY <2>1, <2>4, <2>5 DEF Pipeline, Unsent, Rest
<1>2. PartsInv /\ OrderInv => PipelineIntact
  BY <1>1 DEF PipelineIntact, Live
<1>. QED
  BY <1>2, OrderHolds, PTL

-------------------------------------------------------------------------------
(* When quitting is dangerous.  A worker has a batch of connection c to run or*)
(* to come to.                                                                *)
HasBatch(s, c) == \E i \in 1 .. Len(s) : s[i] # StopMarker /\ s[i].conn = c
Waiting(c) == \E w \in Workers : HasBatch(Rest(wpc[w], batch[w]), c) \/ HasBatch(tasks[w], c)

(* No client has more answers than it asked for, and fewer if a batch of it   *)
(* waits.                                                                     *)
Owes(h) ==
    /\ Len(answered[h]) <= asked[h]
    /\ Waiting(hconn[h]) => Len(answered[h]) < asked[h]

(* Connections and the clients there were are one to one, and what is known of*)
(* a client that is there by its line stays true when it has gone.            *)
IdsInv ==
    /\ \A g, h \in Handles :
          hstate[g] # "none" /\ hstate[h] # "none" /\ hconn[g] = hconn[h] => g = h
    /\ \A c \in ConnIds : c < connCnt => \E h \in Handles : hstate[h] # "none" /\ hconn[h] = c
GoneInv == \A h \in Handles : hstate[h] # "none" /\ ~Live(h) => Owes(h)

(* A read completes at least one command.                                     *)
LEMMA RunsNotEmpty == \A run \in Runs : run # <<>>
<1>. SUFFICES ASSUME NEW run \in Runs, run = <<>> PROVE FALSE
  OBVIOUS
<1>1. PICK h \in Handles, r \in {x \in (0 .. MaxCmds) \X (1 .. MaxCmds) : x[1] + x[2] <= MaxCmds} :
        run = Commands(h, r[1], r[2])
  BY DEF Runs
<1>2. PICK a \in Nat, k \in Nat : a = r[1] /\ k = r[2] /\ k # 0
  BY <1>1, EngineAssumption
<1>3. Commands(h, a, k) = <<>>
  BY <1>1, <1>2
<1>. QED
  BY <1>2, <1>3, EmptyRunOnly

(* A list of runs does not go back.                                           *)
LEMMA RunsAdvance ==
    ASSUME NEW h, NEW a \in Nat, NEW b \in Nat, NEW runs \in Seq(Carried),
           Consecutive(runs, h, a, b)
    PROVE  a <= b
<1>1. 0 \in 0 .. Len(runs)
  OBVIOUS
<1>. QED
  BY <1>1 DEF Consecutive

(* It advances over a batch.                                                  *)
LEMMA BatchAdvances ==
    ASSUME NEW h, NEW c, NEW a \in Nat, NEW b \in Nat, NEW s \in Seq(WP!Items),
           Consecutive(CmdRuns(s, c), h, a, b), HasBatch(s, c)
    PROVE  a < b
<1>1. PICK i \in 1 .. Len(s) : s[i] # StopMarker /\ s[i].conn = c
  BY DEF HasBatch
<1>2. s[i] \in Batch
  <2>1. s[i] \in WP!Items
    OBVIOUS
  <2>. QED
    BY <1>1, <2>1 DEF WP!Items
<1>3. CmdRuns(s, c)[i] # <<>> /\ Len(CmdRuns(s, c)) = Len(s)
  <2>1. s[i].cmds \in Runs
    BY <1>2 DEF Batch
  <2>2. CmdRuns(s, c)[i] = s[i].cmds
    BY <1>1 DEF CmdRuns, CmdsFor
  <2>3. Len(CmdRuns(s, c)) = Len(s)
    BY DEF CmdRuns
  <2>. QED
    BY <2>1, <2>2, <2>3, RunsNotEmpty
<1>. DEFINE runs == CmdRuns(s, c)
<1>4. PICK cut \in [0 .. Len(runs) -> a .. b] :
        /\ \A j, k \in 0 .. Len(runs) : j <= k => cut[j] <= cut[k]
        /\ \A j \in 1 .. Len(runs) : runs[j] = Commands(h, cut[j - 1], cut[j] - cut[j - 1])
  BY DEF Consecutive
<1>. HIDE DEF runs
<1>5. i \in 1 .. Len(runs) /\ i - 1 \in 0 .. Len(runs) /\ i \in 0 .. Len(runs) /\ i - 1 <= i
  BY <1>3 DEF runs
<1>6. cut[i - 1] \in a .. b /\ cut[i] \in a .. b /\ cut[i - 1] <= cut[i]
  BY <1>4, <1>5
<1>7. cut[i - 1] # cut[i]
  <2>1. SUFFICES ASSUME cut[i - 1] = cut[i] PROVE FALSE
    OBVIOUS
  <2>2. cut[i] - cut[i - 1] = 0 /\ cut[i - 1] \in Nat
    BY <1>6, <2>1
  <2>3. runs[i] = Commands(h, cut[i - 1], 0)
    BY <1>4, <1>5, <2>2
  <2>4. runs[i] = <<>>
    BY <2>2, <2>3, EmptyRun
  <2>. QED
    BY <1>3, <2>4 DEF runs
<1>. QED
  BY <1>6, <1>7

(* What a worker has still to run is of connections it serves.                *)
LEMMA WaitingIsOurs ==
    ASSUME PartsInv, NEW v \in Workers, NEW c,
           HasBatch(Rest(wpc[v], batch[v]), c) \/ HasBatch(tasks[v], c)
    PROVE  c < connCnt /\ WP!Fetch(c) = v
<1>1. \A i \in 1 .. Len(Rest(wpc[v], batch[v])) : Ours(Rest(wpc[v], batch[v])[i], v, connCnt)
  <2>1. CASE wpc[v] = "send"
    <3>1. batch[v] \in Seq(WP!Items) /\ batch[v] # <<>>
      BY <2>1 DEF PartsInv, WPP!LocalOK, WPP!Workers, Workers, WP!TypeOK, WP!Workers
    <3>2. \A i \in 1 .. Len(Tail(batch[v])) :
             Tail(batch[v])[i] = batch[v][i + 1] /\ i + 1 \in 1 .. Len(batch[v])
      BY <3>1
    <3>. QED
      BY <2>1, <3>2 DEF Rest, PartsInv, ItemsInv
  <2>2. CASE wpc[v] # "send"
    BY <2>2 DEF Rest, PartsInv, ItemsInv
  <2>. QED
    BY <2>1, <2>2
<1>2. \A i \in 1 .. Len(tasks[v]) : Ours(tasks[v][i], v, connCnt)
  BY DEF PartsInv, ItemsInv
<1>. QED
  BY <1>1, <1>2 DEF HasBatch, Ours

(* A client that is there, by the line of its connection.                     *)
LEMMA LiveOwes ==
    ASSUME PartsInv, NEW h \in Handles, Live(h), Whole(h)
    PROVE  Owes(h)
<1>1. PICK c \in ConnIds, w \in Workers : c = hconn[h] /\ w = WP!Fetch(c)
  BY OwnPlaces
<1>2. Places(wq[h], sending, replies, Rest(wpc[w], batch[w]), tasks[w])
  BY TypedPlaces
<1>. DEFINE q == OutRuns(wq[h], c)
            s == OutRuns(sending, c)
            r == OutRuns(replies, c)
            u == Rest(wpc[w], batch[w])
            t == tasks[w]
            done == Len(answered[h])
            n == asked[h]
<1>3. done \in Nat /\ n \in Nat
  BY OwnPlaces
<1>4. PICK b1, b2, b3, b4 \in Nat :
        /\ Consecutive(q, h, done, b1)
        /\ Consecutive(s, h, b1, b2)
        /\ Consecutive(r, h, b2, b3)
        /\ Consecutive(CmdRuns(u, c), h, b3, b4)
        /\ Consecutive(CmdRuns(t, c), h, b4, n)
  BY <1>1 DEF Whole, Line
<1>5. /\ q \in Seq(Carried) /\ s \in Seq(Carried) /\ r \in Seq(Carried)
      /\ u \in Seq(WP!Items) /\ t \in Seq(WP!Items)
      /\ CmdRuns(u, c) \in Seq(Carried) /\ CmdRuns(t, c) \in Seq(Carried)
  BY <1>2, RepliesCarry, BatchesCarry DEF Places
<1>6. Waiting(c) => HasBatch(u, c) \/ HasBatch(t, c)
  BY <1>1, WaitingIsOurs DEF Waiting
<1>. HIDE DEF q, s, r, u, t, done, n
<1>7. done <= b1 /\ b1 <= b2 /\ b2 <= b3
  BY <1>3, <1>4, <1>5, RunsAdvance
<1>8. b3 <= b4 /\ (HasBatch(u, c) => b3 < b4)
  BY <1>4, <1>5, RunsAdvance, BatchAdvances
<1>9. b4 <= n /\ (HasBatch(t, c) => b4 < n)
  BY <1>3, <1>4, <1>5, RunsAdvance, BatchAdvances
<1>10. done <= n /\ (Waiting(c) => done < n)
  BY <1>3, <1>6, <1>7, <1>8, <1>9
<1>. QED
  BY <1>1, <1>10 DEF Owes, done, n

(* Connections are only added, one for each client that connects.             *)
LEMMA IdsKept ==
    ASSUME PartsInv, [Next]_vars
    PROVE  \/ \E h \in Handles : Connect(h)
           \/ /\ UNCHANGED <<connCnt, hconn>>
              /\ \A g \in Handles : hstate'[g] = "none" <=> hstate[g] = "none"
<1>. DEFINE Kept == /\ UNCHANGED <<connCnt, hconn>>
                    /\ \A g \in Handles : hstate'[g] = "none" <=> hstate[g] = "none"
<1>1. ASSUME NEW h \in Handles, CloseConn(h) \/ Break(h) \/ WriteDone(h) PROVE Kept
  BY <1>1 DEF CloseConn, Break, WriteDone, LoopOnly, R!OnReadClose, R!PeerBreaks, R!OnWrite,
              R!tvars, PartsInv, R!TypeOK
<1>2. ASSUME NEW h \in Handles, NEW k \in 1 .. MaxCmds, Read(h, k) PROVE Kept
  BY <1>2 DEF Read, R!OnRead, R!tvars
<1>3. ASSUME EndDispatch \/ TakeReplies \/ StopLoop \/ RequestStop PROVE Kept
  BY <1>3 DEF EndDispatch, R!Dispatched, TakeReplies, LoopOnly, R!OnReply, R!SwapReplies,
              R!SendReply, StopLoop, R!OnStop, RequestStop, R!Stop, R!tvars
<1>4. ASSUME FinishIteration \/ DestroyReactor PROVE Kept
  BY <1>4 DEF FinishIteration, DestroyReactor, LoopOnly, R!EndIteration, R!Destroy
<1>5. ASSUME NEW w \in Workers, WorkerStep(w) \/ Wakeup(w) PROVE Kept
  BY <1>5 DEF WorkerStep, WorkerAlone, RunAndAppend, NotifyLoop, Wakeup,
              R!AppendReply, R!Notify, R!tvars, reactorVars
<1>6. ASSUME DestroyPool \/ UNCHANGED vars PROVE Kept
  BY <1>6 DEF DestroyPool, vars, reactorVars
<1>. HIDE DEF Kept
<1>7. (\E h \in Handles : Connect(h)) \/ Kept
  BY <1>1, <1>2, <1>3, <1>4, <1>5, <1>6 DEF Next, Step, Terminated
<1>. QED
  BY <1>7 DEF Kept

(* Only a read of the connection itself gives it one more batch.              *)
LEMMA WaitingKept ==
    ASSUME PartsInv, [Next]_vars, NEW c, Waiting(c)'
    PROVE  \/ Waiting(c)
           \/ \E h \in Handles, k \in 1 .. MaxCmds : Read(h, k) /\ hconn[h] = c
<1>. DEFINE At(w) == HasBatch(Rest(wpc[w], batch[w]), c) \/ HasBatch(tasks[w], c)
<1>1. PICK w \in Workers : At(w)'
  BY DEF Waiting
<1>2. At(w) => Waiting(c)
  BY DEF Waiting
<1>3. DOMAIN tasks = Workers /\ DOMAIN batch = Workers /\ DOMAIN wpc = Workers
      /\ tasks[w] \in Seq(WP!Items) /\ batch[w] \in Seq(WP!Items)
  BY DEF PartsInv, WP!TypeOK, WP!Workers, Workers
<1>4. ASSUME Rest(wpc'[w], batch'[w]) = Rest(wpc[w], batch[w]), tasks'[w] = tasks[w]
      PROVE  At(w)
  BY <1>1, <1>4
<1>5. ASSUME NEW s \in Seq(WP!Items), s # <<>>, HasBatch(Tail(s), c) PROVE HasBatch(s, c)
  <2>1. \A i \in 1 .. Len(Tail(s)) : Tail(s)[i] = s[i + 1] /\ i + 1 \in 1 .. Len(s)
    BY <1>5
  <2>. QED
    BY <1>5, <2>1 DEF HasBatch
<1>6. ASSUME NEW s \in Seq(WP!Items), NEW e \in WP!Items, HasBatch(Append(s, e), c)
      PROVE  HasBatch(s, c) \/ (e # StopMarker /\ e.conn = c)
  <2>1. \A i \in 1 .. Len(Append(s, e)) :
           \/ i \in 1 .. Len(s) /\ Append(s, e)[i] = s[i]
           \/ Append(s, e)[i] = e
    OBVIOUS
  <2>. QED
    BY <1>6, <2>1 DEF HasBatch
<1>7. ASSUME NEW h \in Handles, NEW k \in 1 .. MaxCmds, Read(h, k)
      PROVE  At(w) \/ hconn[h] = c
  <2>. DEFINE b == BatchOf(h, k)
              v == WP!Fetch(hconn[h])
  <2>1. b \in WP!Items /\ b.conn = hconn[h]
    BY <1>7, BatchType DEF PartsInv, BatchOf, WP!Items
  <2>2. UNCHANGED <<wpc, batch>> /\ tasks' = [tasks EXCEPT ![v] = Append(tasks[v], b)]
    BY <1>7, <2>1 DEF Read, WP!Dispatch, WP!Push, WP!Pushed
  <2>. HIDE DEF b, v
  <2>3. CASE v = w
    <3>1. tasks'[w] = Append(tasks[w], b)
      BY <1>3, <2>2, <2>3
    <3>2. HasBatch(Rest(wpc[w], batch[w]), c) \/ HasBatch(Append(tasks[w], b), c)
      BY <1>1, <2>2, <3>1
    <3>. QED
      BY <1>3, <1>6, <2>1, <3>2
  <2>4. CASE v # w
    BY <1>3, <1>4, <2>2, <2>4
  <2>. QED
    BY <2>3, <2>4
<1>8. ASSUME NEW t, WP!NotifyOne(t) PROVE At(w)
  BY <1>4, <1>8 DEF WP!NotifyOne, WP!Workers, Workers, Rest
<1>9. ASSUME NEW v \in Workers, WP!RunBatch(v) \/ WP!Sent(v) \/ WP!SkipStop(v) PROVE At(w)
  <2>1. CASE v # w
    BY <1>3, <1>4, <1>9, <2>1 DEF WP!RunBatch, WP!Sent, WP!SkipStop, WP!Goto
  <2>2. CASE v = w
    <3>1. tasks'[w] = tasks[w] /\ batch[w] # <<>>
      BY <1>9, <2>2 DEF WP!RunBatch, WP!Sent, WP!SkipStop, PartsInv, WPP!LocalOK, WPP!Workers, Workers
    <3>2. \/ Rest(wpc'[w], batch'[w]) = Rest(wpc[w], batch[w])
          \/ Rest(wpc[w], batch[w]) = batch[w] /\ Rest(wpc'[w], batch'[w]) = Tail(batch[w])
      BY <1>3, <1>9, <2>2 DEF WP!RunBatch, WP!Sent, WP!SkipStop, WP!Goto, Rest
    <3>3. CASE Rest(wpc'[w], batch'[w]) = Rest(wpc[w], batch[w])
      BY <1>4, <3>1, <3>3
    <3>4. CASE Rest(wpc[w], batch[w]) = batch[w] /\ Rest(wpc'[w], batch'[w]) = Tail(batch[w])
      <4>1. HasBatch(Tail(batch[w]), c) \/ HasBatch(tasks[w], c)
        BY <1>1, <3>1, <3>4
      <4>. QED
        BY <1>3, <1>5, <3>1, <3>4, <4>1
    <3>. QED
      BY <3>2, <3>3, <3>4
  <2>. QED
    BY <2>1, <2>2
<1>10. ASSUME NEW v \in Workers, WP!FetchTasks(v) \/ WP!EndPass(v) \/ WP!SpuriousWakeup(v)
       PROVE  At(w)
  <2>1. CASE v # w
    BY <1>3, <1>4, <1>10, <2>1 DEF WP!FetchTasks, WP!EndPass, WP!SpuriousWakeup, WP!Goto
  <2>2. CASE v = w /\ (WP!EndPass(w) \/ WP!SpuriousWakeup(w))
    BY <1>3, <1>4, <2>2 DEF WP!EndPass, WP!SpuriousWakeup, WP!Goto, Rest
  <2>3. CASE v = w /\ WP!FetchTasks(w) /\ tasks[w] = <<>>
    BY <1>3, <1>4, <2>3 DEF WP!FetchTasks, WP!Goto, Rest
  <2>4. CASE v = w /\ WP!FetchTasks(w) /\ tasks[w] # <<>>
    <3>1. Rest(wpc'[w], batch'[w]) = tasks[w] /\ tasks'[w] = <<>>
      BY <1>3, <2>4 DEF WP!FetchTasks, WP!Goto, WP!AfterFetch, Rest
    <3>2. ~HasBatch(<<>>, c)
      BY DEF HasBatch
    <3>. QED
      BY <1>1, <3>1, <3>2
  <2>. QED
    BY <1>10, <2>1, <2>2, <2>3, <2>4
<1>11. ASSUME WP!StopWorker \/ WP!ResetWorker PROVE At(w)
  <2>1. UNCHANGED <<wpc, batch>> /\ tasks' = [tasks EXCEPT ![stopIdx] = Append(tasks[stopIdx], StopMarker)]
    BY <1>11 DEF WP!StopWorker, WP!ResetWorker, WP!Push, WP!Pushed
  <2>2. CASE stopIdx = w
    <3>1. tasks'[w] = Append(tasks[w], StopMarker) /\ StopMarker \in WP!Items
      BY <1>3, <2>1, <2>2 DEF WP!Items
    <3>2. HasBatch(Rest(wpc[w], batch[w]), c) \/ HasBatch(Append(tasks[w], StopMarker), c)
      BY <1>1, <2>1, <3>1
    <3>. QED
      BY <1>3, <1>6, <3>1, <3>2
  <2>3. CASE stopIdx # w
    BY <1>3, <1>4, <2>1, <2>3
  <2>. QED
    BY <2>2, <2>3
<1>12. ASSUME UNCHANGED <<tasks, batch, wpc>> PROVE At(w)
  BY <1>4, <1>12
<1>. HIDE DEF At
<1>13. ASSUME DestroyPool PROVE At(w)
  BY <1>8, <1>11, <1>12, <1>13 DEF DestroyPool, WP!BeginStop, WP!OwnerStep, WP!JoinWorker
<1>14. ASSUME NEW v \in Workers, WorkerStep(v) \/ Wakeup(v) PROVE At(w)
  BY <1>9, <1>10, <1>14 DEF WorkerStep, WorkerAlone, RunAndAppend, NotifyLoop, Wakeup
<1>15. ASSUME NEW h \in Handles, Connect(h) \/ CloseConn(h) \/ Break(h) \/ WriteDone(h)
       PROVE  At(w)
  BY <1>12, <1>15 DEF Connect, CloseConn, Break, WriteDone, LoopOnly, poolVars
<1>16. ASSUME TakeReplies \/ FinishIteration \/ StopLoop \/ RequestStop \/ DestroyReactor
       PROVE  At(w)
  BY <1>12, <1>16 DEF TakeReplies, FinishIteration, StopLoop, RequestStop, DestroyReactor,
                      LoopOnly, poolVars
<1>17. ASSUME EndDispatch PROVE At(w)
  BY <1>8, <1>17 DEF EndDispatch
<1>18. ASSUME UNCHANGED vars PROVE At(w)
  BY <1>12, <1>18 DEF vars, poolVars
<1>. QED
  BY <1>2, <1>7, <1>13, <1>14, <1>15, <1>16, <1>17, <1>18 DEF Next, Step, Terminated

(* A client that has gone is written no more answers.                         *)
LEMMA AnsweredKept ==
    ASSUME PartsInv, [Next]_vars, NEW h \in Handles, hstate[h] # "none", ~Live(h)'
    PROVE  /\ answered'[h] = answered[h]
           /\ \/ asked'[h] = asked[h]
              \/ asked'[h] \in Nat /\ asked[h] \in Nat /\ asked[h] < asked'[h]
           /\ \A k \in 1 .. MaxCmds : Read(h, k) => asked'[h] # asked[h]
<1>a. asked \in [Handles -> 0 .. MaxCmds] /\ DOMAIN answered = Handles /\ MaxCmds \in Nat
  BY EngineAssumption DEF PartsInv, ContractInv, ItemsInv
<1>b. ASSUME UNCHANGED asked, NEW k \in 1 .. MaxCmds PROVE ~Read(h, k)
  <2>1. Read(h, k) => asked'[h] = asked[h] + k
    BY <1>a DEF Read
  <2>. QED
    BY <1>a, <1>b, <2>1
<1>1. ASSUME UNCHANGED clientVars PROVE UNCHANGED answered /\ UNCHANGED asked
  BY <1>1 DEF clientVars
<1>2. ASSUME NEW g \in Handles, WriteDone(g) PROVE answered'[h] = answered[h] /\ UNCHANGED asked
  <2>1. UNCHANGED <<asked, hstate, broken, rpc>> /\ hstate[g] = "open" /\ rpc # "destroyed"
    BY <1>2 DEF WriteDone, R!OnWrite, R!tvars, R!Polling, PartsInv, ContractInv
  <2>2. g = h => broken[h]
    BY <2>1 DEF Live
  <2>. QED
    BY <1>2, <1>a, <2>1, <2>2 DEF WriteDone
<1>3. ASSUME NEW g \in Handles, NEW k \in 1 .. MaxCmds, Read(g, k)
      PROVE  /\ UNCHANGED answered
             /\ IF g = h THEN asked'[h] = asked[h] + k ELSE asked'[h] = asked[h]
  BY <1>3, <1>a DEF Read
<1>4. ASSUME NEW g \in Handles, NEW k \in 1 .. MaxCmds, Read(g, k)
      PROVE  /\ answered'[h] = answered[h]
             /\ \/ asked'[h] = asked[h]
                \/ asked'[h] \in Nat /\ asked[h] \in Nat /\ asked[h] < asked'[h]
             /\ \A n \in 1 .. MaxCmds : Read(h, n) => asked'[h] # asked[h]
  <2>1. \A n \in 1 .. MaxCmds : Read(h, n) => asked'[h] = asked[h] + n
    BY <1>a DEF Read
  <2>. QED
    BY <1>3, <1>4, <1>a, <2>1
<1>5. \/ UNCHANGED clientVars
      \/ \E g \in Handles : WriteDone(g)
      \/ \E g \in Handles, k \in 1 .. MaxCmds : Read(g, k)
  BY DEF Next, Step, Terminated, vars, Connect, CloseConn, Break, EndDispatch, TakeReplies,
         FinishIteration, StopLoop, WorkerStep, WorkerAlone, RunAndAppend, NotifyLoop, Wakeup,
         RequestStop, DestroyReactor, DestroyPool, LoopOnly
<1>. QED
  BY <1>b, <1>1, <1>2, <1>4, <1>5

(* Connections stay one to one with clients.                                  *)
LEMMA IdsStep == ASSUME PartsInv, IdsInv, [Next]_vars PROVE IdsInv'
<1>1. ASSUME NEW h \in Handles, Connect(h) PROVE IdsInv'
  <2>1. /\ hstate[h] = "none" /\ hstate'[h] # "none" /\ hconn'[h] = connCnt
        /\ connCnt' = connCnt + 1 /\ connCnt \in Nat
        /\ \A g \in Handles : g # h => hstate'[g] = hstate[g] /\ hconn'[g] = hconn[g]
    BY <1>1 DEF Connect, LoopOnly, R!OnConnect, R!NextId, PartsInv, R!TypeOK, ContractInv
  <2>2. \A g \in Handles : hstate[g] # "none" => hconn[g] \in Nat /\ hconn[g] < connCnt
    BY EngineAssumption DEF PartsInv, ContractInv, ItemsInv, ConnIds
  <2>3. \A g \in Handles : hstate[g] # "none" => g # h /\ hconn[g] # connCnt
    BY <2>1, <2>2
  <2>4. ASSUME NEW f \in Handles, NEW g \in Handles, hstate'[f] # "none", hstate'[g] # "none",
               hconn'[f] = hconn'[g]
        PROVE  f = g
    BY <2>1, <2>3, <2>4 DEF IdsInv
  <2>5. ASSUME NEW c \in ConnIds, c < connCnt'
        PROVE  \E g \in Handles : hstate'[g] # "none" /\ hconn'[g] = c
    <3>1. CASE c = connCnt
      BY <2>1, <3>1
    <3>2. CASE c # connCnt
      <4>1. c < connCnt
        BY <2>1, <2>5, <3>2, EngineAssumption DEF ConnIds
      <4>2. PICK g \in Handles : hstate[g] # "none" /\ hconn[g] = c
        BY <4>1 DEF IdsInv
      <4>. QED
        BY <2>1, <2>3, <4>2
    <3>. QED
      BY <3>1, <3>2
  <2>. QED
    BY <2>4, <2>5 DEF IdsInv
<1>2. CASE /\ UNCHANGED <<connCnt, hconn>>
           /\ \A g \in Handles : hstate'[g] = "none" <=> hstate[g] = "none"
  BY <1>2 DEF IdsInv
<1>. QED
  BY <1>1, <1>2, IdsKept

(* Every client that there was has asked for what waits of it: by its line    *)
(* while it is there, and then because only a read of its own gives it more.  *)
LEMMA GoneStep == ASSUME PartsInv, OrderInv, IdsInv, GoneInv, [Next]_vars PROVE GoneInv'
<1>. SUFFICES ASSUME NEW h \in Handles, hstate'[h] # "none", ~Live(h)'
              PROVE  Owes(h)'
  BY DEF GoneInv
<1>1. CASE hstate[h] = "none"
  <2>1. PICK c \in ConnIds : c = connCnt /\ c \in Nat /\ hconn'[h] = c /\ Connect(h)
    <3>1. PICK g \in Handles : Connect(g)
      BY <1>1, IdsKept
    <3>2. g = h
      BY <1>1, <3>1 DEF Connect, LoopOnly, R!OnConnect
    <3>3. connCnt \in Nat /\ connCnt < MaxConns /\ hconn'[h] = connCnt
      BY <3>1, <3>2 DEF Connect, LoopOnly, R!OnConnect, R!NextId, PartsInv, R!TypeOK, ContractInv
    <3>. QED
      BY <3>1, <3>2, <3>3, EngineAssumption DEF ConnIds
  <2>2. asked'[h] = 0 /\ answered'[h] = <<>>
    BY <1>1, <2>1 DEF Connect, LoopOnly, clientVars, PartsInv, ItemsInv
  <2>3. ~Waiting(c)'
    <3>1. Waiting(c)' => Waiting(c)
      BY <2>1 DEF Connect, LoopOnly, poolVars, Waiting
    <3>2. ~Waiting(c)
      BY <2>1, WaitingIsOurs DEF Waiting
    <3>. QED
      BY <3>1, <3>2
  <2>. QED
    BY <2>1, <2>2, <2>3 DEF Owes
<1>2. CASE hstate[h] # "none"
  <2>1. Owes(h)
    BY <1>2, LiveOwes DEF GoneInv, OrderInv
  <2>2. PICK c \in ConnIds : c = hconn[h]
    BY <1>2 DEF PartsInv, ContractInv
  <2>3. hconn'[h] = c
    <3>1. ASSUME NEW g \in Handles, Connect(g) PROVE hconn'[h] = hconn[h]
      BY <1>2, <3>1 DEF Connect, LoopOnly, R!OnConnect, PartsInv, R!TypeOK
    <3>. QED
      BY <2>2, <3>1, IdsKept
  <2>4. /\ answered'[h] = answered[h] /\ Len(answered[h]) \in Nat /\ asked[h] \in Nat
        /\ asked'[h] = asked[h] \/ (asked'[h] \in Nat /\ asked[h] < asked'[h])
        /\ \A k \in 1 .. MaxCmds : Read(h, k) => asked'[h] # asked[h]
    <3>1. Len(answered[h]) \in Nat /\ asked[h] \in Nat
      BY EngineAssumption DEF PartsInv, ContractInv, ItemsInv
    <3>. QED
      BY <1>2, <3>1, AnsweredKept
  <2>5. Waiting(c)' => Waiting(c) \/ \E k \in 1 .. MaxCmds : Read(h, k)
    <3>1. ASSUME NEW g \in Handles, NEW k \in 1 .. MaxCmds, Read(g, k), hconn[g] = c PROVE g = h
      <4>1. hstate[g] = "open"
        BY <3>1 DEF Read, R!OnRead
      <4>. QED
        BY <1>2, <2>2, <3>1, <4>1 DEF IdsInv
    <3>. QED
      BY <3>1, WaitingKept
  <2>6. Len(answered'[h]) <= asked'[h] /\ (Waiting(c)' => Len(answered'[h]) < asked'[h])
    BY <2>1, <2>2, <2>4, <2>5 DEF Owes
  <2>. QED
    BY <2>3, <2>6 DEF Owes
<1>. QED
  BY <1>1, <1>2

(* Freed memory is used only by a worker that is inside Reactor::send already,*)
(* or while a client is owed an answer: the batch that a late worker takes up *)
(* holds a command that was read and has not been answered, even if the client*)
(* has gone meanwhile.                                                        *)
THEOREM LateSendsAreOwed == SafeSpec => LateOnlyIfOwed
<1>. DEFINE Inv == PartsInv /\ OrderInv /\ IdsInv /\ GoneInv
<1>1. Init => IdsInv /\ GoneInv
  BY EngineAssumption DEF Init, R!Init, IdsInv, GoneInv, ConnIds
<1>2. Inv /\ [Next]_vars => Inv'
  BY PartsStep, OrderStep, IdsStep, GoneStep
<1>3. ASSUME Inv, [Next]_vars, memory' # memory
      PROVE  \/ \E h \in Handles : Len(answered[h]) < asked[h]
             \/ \E w \in Workers : wpc[w] = "send"
  <2>1. PICK w \in Workers : RunAndAppend(w) \/ NotifyLoop(w)
    BY <1>3 DEF Next, Step, Terminated, vars, Connect, CloseConn, Break, WriteDone, Read,
                EndDispatch, TakeReplies, FinishIteration, StopLoop, WorkerStep, WorkerAlone,
                Wakeup, RequestStop, DestroyReactor, DestroyPool, LoopOnly
  <2>2. CASE NotifyLoop(w)
    BY <2>2 DEF NotifyLoop, WP!Sent
  <2>3. CASE RunAndAppend(w)
    <3>1. PICK c \in ConnIds : c = Head(batch[w]).conn /\ c < connCnt
      BY <1>3, <2>3, ReplyOfBatch DEF RunAndAppend, Batch
    <3>2. Waiting(c)
      <4>1. wpc[w] = "run" /\ batch[w] # <<>> /\ Head(batch[w]) # StopMarker
        BY <2>3 DEF RunAndAppend, WP!RunBatch
      <4>2. batch[w] \in Seq(WP!Items)
        BY <1>3, TypedPlaces DEF PartsInv, WP!TypeOK, WP!Workers, Workers
      <4>3. 1 \in 1 .. Len(batch[w]) /\ batch[w][1] = Head(batch[w])
        BY <4>1, <4>2
      <4>. QED
        BY <3>1, <4>1, <4>3 DEF Waiting, HasBatch, Rest
    <3>3. PICK h \in Handles : hstate[h] # "none" /\ hconn[h] = c
      BY <1>3, <3>1 DEF IdsInv
    <3>4. Owes(h)
      BY <1>3, <3>3, LiveOwes DEF GoneInv, OrderInv
    <3>. QED
      BY <3>2, <3>3, <3>4 DEF Owes
  <2>. QED
    BY <2>1, <2>2, <2>3
<1>4. Inv /\ [Next]_vars
        => [memory' # memory =>
              \/ \E h \in Handles : Len(answered[h]) < asked[h]
              \/ \E w \in Workers : wpc[w] = "send"]_vars
  BY <1>3
<1>. HIDE DEF Inv
<1>5. Init => Inv
  BY <1>1, PartsInit, OrderInit DEF Inv
<1>. QED
  BY <1>2, <1>4, <1>5, PTL DEF SafeSpec, LateOnlyIfOwed

-------------------------------------------------------------------------------
(* The refinement.  The life of a client's connection, as Service sees it.    *)
Seen == [h \in Handles |->
            IF hstate[h] = "none" THEN "none"
            ELSE IF hstate[h] = "open" /\ ~broken[h] THEN "open" ELSE "gone"]

(* Connections may only go.                                                   *)
LEMMA LeaveStep ==
    ASSUME UNCHANGED clientVars,
           \A h \in Handles : Seen'[h] = Seen[h] \/ (Seen[h] = "open" /\ Seen'[h] = "gone")
    PROVE  SV!Leave
<1>. DEFINE gone == {h \in Handles : Seen[h] = "open" /\ Seen'[h] = "gone"}
<1>1. gone \in SUBSET {h \in Handles : Seen[h] = "open"}
  OBVIOUS
<1>2. \A h \in Handles : Seen'[h] = IF h \in gone THEN "gone" ELSE Seen[h]
  OBVIOUS
<1>3. Seen' = [h \in Handles |-> IF h \in gone THEN "gone" ELSE Seen[h]]
  BY <1>2 DEF Seen
<1>. QED
  BY <1>1, <1>3 DEF SV!Leave, Seen, clientVars

(* A step that neither the clients nor their answers see.                     *)
LEMMA UnseenStep ==
    ASSUME UNCHANGED <<hstate, broken, asked, answered>>
    PROVE  UNCHANGED SV!vars
BY DEF SV!vars

(* A write that is done: the next answers, or none if the client has gone.    *)
LEMMA AnswerStep ==
    ASSUME PartsInv, OrderInv, NEW h \in Handles, WriteDone(h)
    PROVE  SV!Next \/ UNCHANGED SV!vars
<1>1. UNCHANGED <<hstate, broken, asked>> /\ hstate[h] = "open" /\ wq[h] # <<>> /\ lpc = "poll"
  BY DEF WriteDone, R!OnWrite, R!tvars, R!Polling
<1>2. answered' = [answered EXCEPT ![h] = IF broken[h] THEN @ ELSE @ \o Head(wq[h]).out]
  BY DEF WriteDone
<1>3. DOMAIN answered = Handles /\ answered[h] \in Seq([peer : Handles, n : 1 .. MaxCmds])
      /\ answered = [g \in Handles |-> answered[g]]
  BY DEF PartsInv, ItemsInv
<1>4. CASE broken[h]
  BY <1>1, <1>2, <1>3, <1>4, UnseenStep
<1>5. CASE ~broken[h]
  <2>1. Live(h)
    BY <1>1, <1>5 DEF Live, PartsInv, ContractInv
  <2>2. PICK c \in ConnIds, w \in Workers : c = hconn[h] /\ w = WP!Fetch(c)
    BY <2>1, OwnPlaces
  <2>3. Places(wq[h], sending, replies, Rest(wpc[w], batch[w]), tasks[w])
    BY TypedPlaces
  <2>4. Len(answered[h]) \in Nat /\ asked[h] \in Nat /\ wq[h][1].conn = c
    <3>1. 1 \in 1 .. Len(wq[h])
      BY <1>1, <2>3 DEF Places
    <3>. QED
      BY <2>1, <2>2, <3>1, OwnPlaces
  <2>5. Line(h, c, Len(answered[h]), wq[h], sending, replies,
             Rest(wpc[w], batch[w]), tasks[w], asked[h])
    BY <2>1, <2>2 DEF OrderInv, Whole
  <2>6. PICK k \in Nat :
          /\ OutFor(Head(wq[h]), c) = Commands(h, Len(answered[h]), k)
          /\ Line(h, c, Len(answered[h]) + k, Tail(wq[h]), sending, replies,
                  Rest(wpc[w], batch[w]), tasks[w], asked[h])
    BY <1>1, <2>3, <2>4, <2>5, LineWritten
  <2>7. Head(wq[h]).out = Commands(h, Len(answered[h]), k)
    BY <1>1, <2>3, <2>4, <2>6 DEF OutFor, Places
  <2>8. Len(answered[h]) + k <= asked[h]
    <3>1. Places(Tail(wq[h]), sending, replies, Rest(wpc[w], batch[w]), tasks[w])
      BY <1>1, <2>3, HeadTailProperties DEF Places
    <3>2. Len(answered[h]) + k \in Nat
      BY <2>4
    <3>. QED
      BY <2>4, <2>6, <3>1, <3>2, LineWhole
  <2>9. answered' = [answered EXCEPT ![h] = @ \o Commands(h, Len(answered[h]), k)]
    BY <1>2, <1>5, <2>7
  <2>10. CASE k = 0
    <3>1. Commands(h, Len(answered[h]), k) = <<>>
      BY <2>4, <2>10, EmptyRun
    <3>2. answered[h] \o <<>> = answered[h]
      BY <1>3, ConcatEmptySeq
    <3>3. answered' = answered
      BY <1>3, <2>9, <3>1, <3>2
    <3>. QED
      BY <1>1, <3>3, UnseenStep
  <2>11. CASE k # 0
    <3>1. k \in 1 .. asked[h] - Len(answered[h])
      BY <2>4, <2>8, <2>11
    <3>2. Commands(h, Len(answered[h]), k)
             = [i \in 1 .. k |-> SV!Cmd(h, Len(answered[h]) + i)]
      BY DEF Commands, Cmd, SV!Cmd
    <3>3. Seen[h] = "open" /\ UNCHANGED Seen
      BY <1>1, <1>5 DEF Seen
    <3>. QED
      BY <1>1, <2>9, <3>1, <3>2, <3>3 DEF SV!Next, SV!Answer, Seen
  <2>. QED
    BY <2>10, <2>11
<1>. QED
  BY <1>4, <1>5

(* Each step of the engine is a step of Service or none that it sees.         *)
LEMMA ServiceStep ==
    ASSUME PartsInv, OrderInv, [Next]_vars
    PROVE  [SV!Next]_SV!vars
<1>a. /\ DOMAIN hstate = Handles /\ DOMAIN broken = Handles /\ DOMAIN asked = Handles
      /\ hstate = [h \in Handles |-> hstate[h]]
  BY DEF PartsInv, ContractInv, R!TypeOK
<1>1. ASSUME NEW h \in Handles, Connect(h) PROVE SV!Next
  <2>1. /\ hstate[h] = "none" /\ hstate'[h] \in {"open", "closing"}
        /\ hstate' = [hstate EXCEPT ![h] = hstate'[h]]
        /\ UNCHANGED <<broken, asked, answered>>
    BY <1>1, <1>a DEF Connect, LoopOnly, R!OnConnect, clientVars
  <2>2. Seen[h] = "none" /\ Seen'[h] \in {"open", "gone"}
    BY <2>1 DEF Seen
  <2>3. Seen' = [Seen EXCEPT ![h] = Seen'[h]]
    BY <1>a, <2>1 DEF Seen
  <2>. QED
    BY <2>1, <2>2, <2>3 DEF SV!Next, SV!Arrive, Seen
<1>2. ASSUME NEW h \in Handles, CloseConn(h) \/ Break(h) PROVE SV!Next
  <2>1. UNCHANGED clientVars
    BY <1>2 DEF CloseConn, Break, LoopOnly
  <2>2. \A g \in Handles : Seen'[g] = Seen[g] \/ (Seen[g] = "open" /\ Seen'[g] = "gone")
    BY <1>2, <1>a DEF CloseConn, Break, LoopOnly, R!OnReadClose, R!PeerBreaks, Seen
  <2>. QED
    BY <2>1, <2>2, LeaveStep DEF SV!Next
<1>3. ASSUME NEW h \in Handles, WriteDone(h) PROVE [SV!Next]_SV!vars
  BY <1>3, AnswerStep
<1>4. ASSUME NEW h \in Handles, NEW k \in 1 .. MaxCmds, Read(h, k) PROVE SV!Next
  <2>1. /\ hstate[h] = "open"
        /\ asked' = [asked EXCEPT ![h] = asked[h] + k]
        /\ UNCHANGED <<hstate, broken, answered>>
    BY <1>4 DEF Read, R!OnRead, R!tvars
  <2>2. asked[h] \in Nat /\ k \in Nat /\ k > 0
    BY EngineAssumption DEF PartsInv, ContractInv
  <2>3. asked'[h] = asked[h] + k
    BY <1>a, <2>1
  <2>4. asked'[h] \in Nat /\ asked'[h] > asked[h]
    BY <2>2, <2>3
  <2>5. Seen[h] # "none" /\ UNCHANGED Seen
    BY <2>1 DEF Seen
  <2>. QED
    BY <2>1, <2>3, <2>4, <2>5 DEF SV!Next, SV!Ask, Seen
<1>5. ASSUME EndDispatch \/ TakeReplies \/ StopLoop \/ RequestStop PROVE UNCHANGED SV!vars
  BY <1>5, UnseenStep
     DEF EndDispatch, TakeReplies, StopLoop, RequestStop, LoopOnly, clientVars, R!Dispatched,
         R!OnReply, R!SwapReplies, R!SendReply, R!OnStop, R!Stop, R!tvars
<1>6. ASSUME FinishIteration \/ DestroyReactor PROVE SV!Next
  <2>1. UNCHANGED <<clientVars, broken>>
    BY <1>6 DEF FinishIteration, DestroyReactor, LoopOnly, R!EndIteration, R!Destroy
  <2>2. \A g \in Handles : /\ hstate'[g] = "none" <=> hstate[g] = "none"
                           /\ hstate'[g] = "open" => hstate[g] = "open"
    BY <1>6 DEF FinishIteration, DestroyReactor, LoopOnly, R!EndIteration, R!Destroy
  <2>3. \A g \in Handles : Seen'[g] = Seen[g] \/ (Seen[g] = "open" /\ Seen'[g] = "gone")
    BY <2>1, <2>2 DEF Seen
  <2>. QED
    BY <2>1, <2>3, LeaveStep DEF SV!Next
<1>7. ASSUME NEW w \in Workers, WorkerStep(w) \/ Wakeup(w) PROVE UNCHANGED SV!vars
  BY <1>7, UnseenStep
     DEF WorkerStep, WorkerAlone, RunAndAppend, NotifyLoop, Wakeup, R!AppendReply,
         R!Notify, R!tvars, reactorVars, clientVars
<1>8. ASSUME DestroyPool \/ UNCHANGED vars PROVE UNCHANGED SV!vars
  BY <1>8, UnseenStep DEF DestroyPool, vars, reactorVars, clientVars
<1>. QED
  BY <1>1, <1>2, <1>3, <1>4, <1>5, <1>6, <1>7, <1>8 DEF Next, Step, Terminated

(* The engine implements the service it is: seen through the clients, each of *)
(* its steps is one that Service allows.  A client is answered what it asked, *)
(* each command once, in order, and nothing else, for as long as it stays.    *)
THEOREM EngineAnswersInOrder == SafeSpec => AnswersInOrder
<1>1. Init => SV!Init
  BY DEF Init, R!Init, SV!Init
<1>2. PartsInv /\ OrderInv /\ [Next]_vars => [SV!Next]_SV!vars
  BY ServiceStep
<1>. QED
  BY <1>1, <1>2, OrderHolds, PTL DEF SafeSpec, AnswersInOrder, SV!Safe
================================================================================
