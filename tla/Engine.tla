-------------------------------- MODULE Engine --------------------------------
(*****************************************************************************)
(* The process (main.cpp): the reactor and the worker pool, wired together.  *)
(*                                                                           *)
(* A step of the loop thread that reads a request is a step of the reactor   *)
(* and a push into a worker; a step of a worker that has run a batch is a    *)
(* step of the worker and an append to the reactor's replies.  Main stops    *)
(* the reactor, destroys it, and then destroys the pool: the locals of main()*)
(* are destroyed in reverse order, and the reactor's reference to the pool is*)
(* not the last one.  Nothing makes Main wait for the workers in between.    *)
(*                                                                           *)
(* A command is the client that sent it and its number; an answer is named   *)
(* by the command it answers.                                                *)
(*****************************************************************************)
EXTENDS Naturals, Sequences, SequencesExt

CONSTANTS NumWorkers, Main, Loop, StopMarker, NoWorker,  \* see WorkerPool
          Handles, NoHandle, NoConn, MaxConns,           \* see Reactor
          MaxCmds,    \* bound: commands a client sends in a run
          MaxLoad     \* bound: commands all clients send in a run

VARIABLES tasks, batch, wpc, stopping, toNotify, live, stopIdx, ostep,
          connCnt, conns, hconn, hstate, broken, wq, replies, sending,
          notifying, replyAsync, stopAsync, stopFlag, lpc, rpc,
          asked,     \* asked[h]: how many commands of the client have been read
          answered,  \* answered[h]: the answers written to the client, in order
          memory     \* what is left of the process after a use of freed memory

Workers == 0 .. NumWorkers - 1
ConnIds == 0 .. MaxConns - 1
Cmd(h, n) == [peer |-> h, n |-> n]

(* The commands from + 1 .. from + k of client h, as one read completes them. *)
Commands(h, from, k) == [i \in 1 .. k |-> Cmd(h, from + i)]
Runs == {Commands(h, r[1], r[2]) :
            h \in Handles, r \in {x \in (0 .. MaxCmds) \X (1 .. MaxCmds) :
                                       x[1] + x[2] <= MaxCmds}}

(* BatchTask: the tasks of one read.  Reply: their outputs, in one string. *)
Batch == [conn : ConnIds, cmds : Runs]
Reply == [conn : ConnIds, out : Runs]

ASSUME EngineAssumption ==
    /\ NumWorkers \in Nat \ {0}
    /\ MaxConns \in Nat /\ MaxCmds \in Nat /\ MaxLoad \in Nat
    /\ Main # Loop
    /\ StopMarker \notin Batch
    /\ NoWorker \notin Workers
    /\ NoHandle \notin Handles
    /\ NoConn \notin ConnIds

(* No bound of the components is reached before MaxLoad is; of the reactor   *)
(* there is none.                                                            *)
WP == INSTANCE WorkerPool WITH Callers <- {Loop}, Stop <- StopMarker, MaxQueue <- MaxLoad
R == INSTANCE Reactor WITH Senders <- Workers, Backlog <- Nat

poolVars == <<tasks, batch, wpc, stopping, toNotify, live, stopIdx, ostep>>
reactorVars == <<connCnt, conns, hconn, hstate, broken, wq, replies, sending,
                 notifying, replyAsync, stopAsync, stopFlag, lpc, rpc>>
clientVars == <<asked, answered>>
vars == <<poolVars, reactorVars, clientVars, memory>>

Init ==
    /\ WP!Init
    /\ R!Init
    /\ asked = [h \in Handles |-> 0]
    /\ answered = [h \in Handles |-> <<>>]
    /\ memory = "valid"

-------------------------------------------------------------------------------
(* The loop thread. *)

(* A callback that concerns the reactor alone. *)
LoopOnly(step) == step /\ UNCHANGED <<poolVars, clientVars, memory>>

Connect(h) == \E accepted \in BOOLEAN : LoopOnly(R!OnConnect(h, accepted))
CloseConn(h) == LoopOnly(R!OnReadClose(h))
Break(h) == LoopOnly(R!PeerBreaks(h))
TakeReplies == LoopOnly(R!OnReply \/ R!SwapReplies \/ R!SendReply)
FinishIteration == LoopOnly(R!EndIteration)
StopLoop == LoopOnly(R!OnStop)

(* on_read: the batch of the k commands that the new bytes complete. *)
BatchOf(h, k) == [conn |-> hconn[h], cmds |-> Commands(h, asked[h], k)]

(* on_read, parse, dispatch and submit, up to the worker's unlock. *)
Read(h, k) ==
    /\ asked[h] + k <= MaxCmds
    /\ SumFunction(asked) + k <= MaxLoad
    /\ R!OnRead(h)
    /\ WP!Dispatch(Loop, BatchOf(h, k))
    /\ asked' = [asked EXCEPT ![h] = @ + k]
    /\ UNCHANGED <<answered, memory>>

(* The notify_one of submit, and back to the loop. *)
EndDispatch ==
    /\ R!Dispatched
    /\ WP!NotifyOne(Loop)
    /\ UNCHANGED <<clientVars, memory>>

(* A write has finished; the answers reach a client that is still there. *)
WriteDone(h) ==
    /\ R!OnWrite(h)
    /\ answered' = [answered EXCEPT ![h] = IF broken[h] THEN @ ELSE @ \o Head(wq[h]).out]
    /\ UNCHANGED <<poolVars, asked, memory>>

-------------------------------------------------------------------------------
(* The workers. *)

(* _run_batch_task: one reply of all outputs, to the batch's connection. *)
RunTasks_LastFirst(b) == [conn |-> b.conn, out |-> Reverse(b.cmds)]
RunTasks_SkipsFirst(b) == [conn |-> b.conn, out |-> SubSeq(b.cmds, 2, Len(b.cmds))]
RunTasks(b) == [conn |-> b.conn, out |-> b.cmds]

WorkerAlone(w) ==
    /\ WP!FetchTasks(w) \/ WP!SkipStop(w) \/ WP!EndPass(w)
    /\ UNCHANGED <<reactorVars, clientVars, memory>>

Wakeup(w) == WP!SpuriousWakeup(w) /\ UNCHANGED <<reactorVars, clientVars, memory>>

(* A worker uses the reactor through the pointer in its batch and asks nothing *)
(* before.  If the reactor has been destroyed, what it locks, appends to and   *)
(* notifies is freed: the process dies, or goes on with that memory damaged.   *)
UsesReactor ==
    memory' \in IF rpc = "destroyed" THEN {"corrupt", "aborted"} ELSE {memory}

(* The task runs, and its reply is appended to the reactor's.                  *)
RunAndAppend(w) ==
    /\ WP!RunBatch(w)
    /\ R!AppendReply(w, RunTasks(Head(batch[w])))
    /\ UsesReactor
    /\ UNCHANGED clientVars

(* _notify, and on to the next batch. *)
NotifyLoop(w) ==
    /\ R!Notify(w)
    /\ WP!Sent(w)
    /\ UsesReactor
    /\ UNCHANGED clientVars

WorkerStep(w) == WorkerAlone(w) \/ RunAndAppend(w) \/ NotifyLoop(w)

-------------------------------------------------------------------------------
(* Main. *)

(* "quit", or the end of the input: reactor.stop(); then ~Reactor. *)
RequestStop == LoopOnly(R!Stop)
DestroyReactor == LoopOnly(R!Destroy)

(* When the destruction of the pool begins. *)
PoolReleased_Early == rpc # "serving"
PoolReleased == rpc = "destroyed"
DestroyPool ==
    /\ \/ PoolReleased /\ WP!BeginStop
       \/ WP!OwnerStep
       \/ WP!NotifyOne(Main)
    /\ UNCHANGED <<reactorVars, clientVars, memory>>

-------------------------------------------------------------------------------
(* Nothing is left to do when main() has returned or the process has died. *)
Terminated == (ostep = "gone" \/ memory = "aborted") /\ UNCHANGED vars

Step ==
    \/ \E h \in Handles :
          \/ Connect(h) \/ CloseConn(h) \/ Break(h) \/ WriteDone(h)
          \/ \E k \in 1 .. MaxCmds : Read(h, k)
    \/ EndDispatch \/ TakeReplies \/ FinishIteration \/ StopLoop
    \/ \E w \in Workers : WorkerStep(w) \/ Wakeup(w)
    \/ RequestStop \/ DestroyReactor \/ DestroyPool

Alive == memory # "aborted"
Next == (Alive /\ Step) \/ Terminated

(* Threads are scheduled, and libuv passes no ready handle over for ever (see *)
(* Reactor); clients and the operator are under no obligation.                *)
Fairness ==
    /\ \A h \in Handles : SF_vars(Alive /\ WriteDone(h))
    /\ WF_vars(Alive /\ EndDispatch) /\ SF_vars(Alive /\ TakeReplies)
    /\ SF_vars(Alive /\ FinishIteration) /\ SF_vars(Alive /\ StopLoop)
    /\ \A w \in Workers : WF_vars(Alive /\ WorkerStep(w))
    /\ WF_vars(Alive /\ rpc = "stopping" /\ RequestStop)
    /\ WF_vars(Alive /\ DestroyReactor) /\ WF_vars(Alive /\ DestroyPool)

SafeSpec == Init /\ [][Next]_vars
Spec == SafeSpec /\ Fairness

-------------------------------------------------------------------------------
(* Properties. *)

(* The types of both components and of what the clients see. *)
TypeOK ==
    /\ WP!TypeOK
    /\ R!TypeOK
    /\ asked \in [Handles -> 0 .. MaxCmds]
    /\ answered \in [Handles -> Seq([peer : Handles, n : 1 .. MaxCmds])]
    /\ memory \in {"valid", "corrupt", "aborted"}

(* What items of a worker's queue, and replies, carry for connection c: for   *)
(* each a run of commands, empty if the item is not for c.                    *)
CmdsFor(b, c) == IF b # StopMarker /\ b.conn = c THEN b.cmds ELSE <<>>
OutFor(r, c) == IF r.conn = c THEN r.out ELSE <<>>
CmdRuns(s, c) == [i \in DOMAIN s |-> CmdsFor(s[i], c)]
OutRuns(s, c) == [i \in DOMAIN s |-> OutFor(s[i], c)]

(* Runs that put together are the commands from + 1 .. to of client h: there  *)
(* are points, one after the other, at which these are cut into the runs.     *)
Consecutive(runs, h, from, to) ==
    \E cut \in [0 .. Len(runs) -> from .. to] :
        /\ cut[0] = from /\ cut[Len(runs)] = to
        /\ \A i, j \in 0 .. Len(runs) : i <= j => cut[i] <= cut[j]
        /\ \A i \in 1 .. Len(runs) : runs[i] = Commands(h, cut[i - 1], cut[i] - cut[i - 1])

(* What worker w has fetched and not handed to the reactor yet. *)
Unsent(w) == IF wpc[w] = "send" THEN Tail(batch[w]) ELSE batch[w]

(* All that is between the reads and the writes of connection c, whose handle *)
(* is h: the write queue, what the loop took, what the workers sent, what its *)
(* worker has still to run.                                                   *)
Pipeline(h, c) ==
    OutRuns(wq[h], c) \o OutRuns(sending, c) \o OutRuns(replies, c)
    \o CmdRuns(Unsent(WP!Fetch(c)), c) \o CmdRuns(tasks[WP!Fetch(c)], c)

(* The pipeline of an open connection is whole: what was written to the       *)
(* client and what is under way are, put together, the commands it asked,     *)
(* each once and in order.  Two threads, two mutexes and four vectors are     *)
(* involved; the order holds because a connection stays on one worker.        *)
PipelineIntact ==
    \A h \in Handles :
        hstate[h] = "open" /\ ~broken[h] /\ rpc # "destroyed" =>
            /\ answered[h] = Commands(h, 0, Len(answered[h]))
            /\ Consecutive(Pipeline(h, hconn[h]), h, Len(answered[h]), asked[h])

(* The engine keeps the worker pool's contract: the loop thread dispatches    *)
(* only while the pool is up, and Main destroys it only when no dispatch is   *)
(* under way, so fetch never meets a null or a destroyed Worker.              *)
KeepsPoolContract == WP!SafeSpec

(* When quitting is dangerous: freed memory is used only while a command that *)
(* was read has no answer yet, or by a worker that is inside Reactor::send.   *)
(* Nothing else is late: the loop has ended, it left no batch behind that the *)
(* clients have the answers of, and the markers of the pool's stop use nothing.*)
LateOnlyIfOwed ==
    [][memory' # memory =>
          \/ \E h \in Handles : Len(answered[h]) < asked[h]
          \/ \E w \in Workers : wpc[w] = "send"]_vars

(* Seen through the clients, the engine is Service.                           *)
SV == INSTANCE Service WITH
          Clients <- Handles,
          state <- [h \in Handles |->
                       IF hstate[h] = "none" THEN "none"
                       ELSE IF hstate[h] = "open" /\ ~broken[h] THEN "open" ELSE "gone"]
AnswersInOrder == SV!Safe
ImplementsService == SV!Spec

(* Once the operator has asked for it, main() returns (or the process has     *)
(* used freed memory and nothing can be said of it).                          *)
ProcessEnds == rpc = "stopping" ~> ostep = "gone" \/ memory # "valid"

(* The assertion of _notify, for every worker that is about to call it: the   *)
(* reactor's _reply_async exists.                                             *)
NotifyFindsAsync == \A w \in Workers : wpc[w] = "send" => rpc # "destroyed"
================================================================================
