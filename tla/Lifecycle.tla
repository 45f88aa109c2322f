------------------------------- MODULE Lifecycle -------------------------------
(*****************************************************************************)
(* The life of the process from main()'s point of view (main.cpp, the logger,*)
(* the constructors and destructors of the pool and the reactor, uv_utils):  *)
(* the workers are started, handles are put into a libuv loop one by one,    *)
(* each step may fail, the loop thread takes over, and LoopDeleter walks     *)
(* whatever the loop still lists.                                            *)
(*                                                                           *)
(* Of libuv there is what that depends on: the list of handles, the count of *)
(* active handles and the handles that are closing.  None of it is guarded   *)
(* by a lock.  Once the loop thread runs, an update of the list or of the    *)
(* count is a read and a write, and the constructor, which still arms its    *)
(* timer, may come in between.                                               *)
(*                                                                           *)
(* Replies, writes and what workers do are Reactor's, WorkerPool's and       *)
(* Engine's; here a worker is a thread that runs or has been joined.         *)
(*                                                                           *)
(* An exception that is an Error is caught in main(); any other (spdlog's, or*)
(* the std::system_error of a thread) ends the process.  An operator         *)
(* named Op_Variant is a faulty variant of Op that the model checker must    *)
(* tell from Op; nothing else refers to it.                                  *)
(*****************************************************************************)
EXTENDS Integers, FiniteSets, Sequences

CONSTANTS Clients,    \* handles of clients that may connect in a run
          NoClient,   \* "the loop thread is at no client"
          NumWorkers  \* the size of the worker pool

Own == {"server", "stop_async", "reply_async", "timer"}
Handles == Own \cup Clients

ASSUME LifecycleAssumption ==
    /\ IsFiniteSet(Clients)
    /\ Own \cap Clients = {}
    /\ NoClient \notin Clients
    /\ NumWorkers \in Nat \ {0}

VARIABLES main,    \* where Main is
          error,   \* the step of the constructor that has thrown, or "none"
          mem,     \* mem[h]: the memory of the handle
          listed,  \* the loop's list of handles
          active,  \* the loop's count of active handles
          on,      \* the handles that are active, one by one
          closing, \* the handles LoopDeleter has closed, before the loop ran again
          workers, \* how many worker threads run
          stopped, \* stop() has been called
          thread,  \* the loop thread
          job,     \* what the loop thread is doing, and to which client
          seen,    \* seen[t]: what thread t has read of the list and the count
          raced    \* both threads have been at the list or the count at once

vars == <<main, error, mem, listed, active, on, closing, workers, stopped, thread,
          job, seen, raced>>
loopVars == <<workers, stopped, thread, job>>

Idle == [does |-> "poll", at |-> NoClient]

Init ==
    /\ main = "logger"
    /\ error = "none"
    /\ mem = [h \in Handles |-> "none"]
    /\ listed = {}
    /\ active = 0
    /\ on = {}
    /\ closing = {}
    /\ workers = 0
    /\ stopped = FALSE
    /\ thread = "none"
    /\ job = Idle
    /\ seen = [t \in {"main", "loop"} |-> [list |-> {}, count |-> 0]]
    /\ raced = FALSE

ReadsList(t) == seen' = [seen EXCEPT ![t].list = listed]
ReadsCount(t) == seen' = [seen EXCEPT ![t].count = active]
Allocate(h) == mem' = [mem EXCEPT ![h] = "live"]

-------------------------------------------------------------------------------
(* The logger and the worker pool. *)

(* Logger::init: the log file may not be to be had. *)
InitLogger ==
    /\ main = "logger"
    /\ main' \in {"pool", "aborted"}
    /\ UNCHANGED <<error, mem, listed, active, on, closing, seen, loopVars>>

(* One turn of the loop of WorkerPool's constructor. *)
StartWorker ==
    /\ main = "pool"
    /\ \/ /\ workers' = workers + 1
          /\ main' = IF workers' = NumWorkers THEN "loop" ELSE "pool"
       \/ main' = "aborted" /\ UNCHANGED workers
    /\ UNCHANGED <<error, mem, listed, active, on, closing, stopped, thread, job, seen>>

-------------------------------------------------------------------------------
(* The constructor of Reactor. *)

(* Its steps, in their order. *)
Order_ThreadEarly ==
    <<"loop", "server", "listen", "stop_async", "thread", "reply_async", "timer">>
Order == <<"loop", "server", "listen", "stop_async", "reply_async", "thread", "timer">>
After(step) == Order[1 + CHOOSE i \in DOMAIN Order : Order[i] = step]

(* The members destroyed before _loop, which is declared last. *)
DestroyedBeforeLoop_LoopFirst == Own
DestroyedBeforeLoop == {}

(* An Error of a step: what has been constructed is destroyed, _loop first. *)
Throw(freed) ==
    /\ error' = main
    /\ main' = "walk"
    /\ mem' = [h \in Handles |->
                  IF h \in freed \cup DestroyedBeforeLoop /\ mem[h] = "live"
                  THEN "freed" ELSE mem[h]]
    /\ UNCHANGED <<listed, active, on, closing, seen, loopVars>>

(* make_loop *)
MakeLoop ==
    /\ main = "loop"
    /\ \/ main' = After("loop") /\ UNCHANGED error
       \/ main' = "members" /\ error' = "loop"
    /\ UNCHANGED <<mem, listed, active, on, closing, seen, loopVars>>

(* uv_tcp_init_ex: the socket's handle is in the list.  Without a socket it   *)
(* is not, and uv_fileno fails next.                                          *)
InitServer ==
    /\ main = "server"
    /\ main' = After("server")
    /\ Allocate("server")
    /\ listed' = listed \cup {"server"}
    /\ UNCHANGED <<error, active, on, closing, seen, loopVars>>
NoSocket == main = "server" /\ Throw({})

(* The rest of make_tcp_server: options, bind, listen.  If one fails, the     *)
(* local unique_ptr frees the handle, and nobody has closed it.               *)
Listen ==
    /\ main = "listen"
    /\ main' = After("listen")
    /\ on' = on \cup {"server"}
    /\ active' = active + 1
    /\ UNCHANGED <<error, mem, listed, closing, seen, loopVars>>
NoListen == main = "listen" /\ Throw({"server"})

(* make_async, twice; a handle that could not be initialised is not listed.   *)
MakeAsync ==
    /\ main \in {"stop_async", "reply_async"}
    /\ main' = After(main)
    /\ Allocate(main)
    /\ listed' = listed \cup {main}
    /\ on' = on \cup {main}
    /\ active' = active + 1
    /\ UNCHANGED <<error, closing, seen, loopVars>>
NoAsync == main \in {"stop_async", "reply_async"} /\ Throw({})

(* The loop thread starts; a std::system_error is not an Error, and ends main. *)
StartThread ==
    /\ main = "thread"
    /\ \/ main' = After("thread") /\ thread' = "running"
       \/ main' = "aborted" /\ UNCHANGED thread
    /\ UNCHANGED <<error, mem, listed, active, on, closing, workers, stopped, job,
                   seen>>

(* uv_timer_init reads the list ... *)
ArmTimer ==
    /\ main = "timer"
    /\ main' = "timer_init"
    /\ ReadsList("main")
    /\ UNCHANGED <<error, mem, listed, active, on, closing, loopVars>>

(* ... and writes it; uv_timer_start reads the count ... *)
ListTimer ==
    /\ main = "timer_init"
    /\ main' = "timer_start"
    /\ Allocate("timer")
    /\ listed' = seen["main"].list \cup {"timer"}
    /\ ReadsCount("main")
    /\ UNCHANGED <<error, active, on, closing, loopVars>>

(* ... and writes it. *)
CountTimer ==
    /\ main = "timer_start"
    /\ main' = "up"
    /\ on' = on \cup {"timer"}
    /\ active' = seen["main"].count + 1
    /\ UNCHANGED <<error, mem, listed, closing, seen, loopVars>>

-------------------------------------------------------------------------------
(* The end. *)

(* The end of the input or "quit": stop(), and ~Reactor up to its join. *)
RequestStop ==
    /\ main = "up"
    /\ main' = "join"
    /\ stopped' = TRUE
    /\ UNCHANGED <<error, mem, listed, active, on, closing, seen, workers, thread, job>>

(* The join of ~Reactor. *)
JoinThread ==
    /\ main = "join"
    /\ thread = "ended"
    /\ main' = "walk"
    /\ mem' = [h \in Handles |-> IF h \in DestroyedBeforeLoop THEN "freed" ELSE mem[h]]
    /\ UNCHANGED <<error, listed, active, on, closing, seen, loopVars>>

(* LoopDeleter: an empty loop is closed at once, else every listed handle is  *)
(* closed.  Reading and closing a handle that has been freed may as well end  *)
(* the process.                                                               *)
Walked_OwnOnly == listed \cap Own
Walked == listed
Walk ==
    /\ main = "walk"
    /\ \/ main' = IF listed = {} THEN "members" ELSE "drain"
       \/ main' = "aborted" /\ \E h \in listed : mem[h] = "freed"
    /\ closing' = Walked
    /\ on' = on \ Walked
    /\ active' = active - Cardinality(on \cap Walked)
    /\ UNCHANGED <<error, mem, listed, seen, loopVars>>

(* The uv_run in it finishes the closing handles and returns when nothing is  *)
(* active; the loop is deleted.                                               *)
FinishClosing ==
    /\ main = "drain"
    /\ closing # {}
    /\ closing' = {}
    /\ listed' = listed \ closing
    /\ UNCHANGED <<main, error, mem, active, on, seen, loopVars>>
DeleteLoop ==
    /\ main = "drain"
    /\ closing = {} /\ active = 0
    /\ main' = "members"
    /\ UNCHANGED <<error, mem, listed, active, on, closing, seen, loopVars>>
Blocked == main = "drain" /\ closing = {} /\ active # 0 /\ UNCHANGED vars

(* The members above _loop are destroyed. *)
ReleaseMembers ==
    /\ main = "members"
    /\ main' = "join_pool"
    /\ mem' = [h \in Handles |-> IF h \in Own /\ mem[h] = "live" THEN "freed" ELSE mem[h]]
    /\ UNCHANGED <<error, listed, active, on, closing, seen, loopVars>>

(* Then the pool, which joins its workers one by one (WorkerPool has the      *)
(* details), and main() returns; an Error is caught and printed on the way.   *)
JoinWorker ==
    /\ main = "join_pool"
    /\ workers' = workers - 1
    /\ main' = IF workers' = 0 THEN "over" ELSE "join_pool"
    /\ UNCHANGED <<error, mem, listed, active, on, closing, stopped, thread, job, seen>>

MainStep ==
    \/ InitLogger \/ StartWorker \/ JoinWorker
    \/ MakeLoop \/ InitServer \/ NoSocket \/ Listen \/ NoListen \/ MakeAsync \/ NoAsync
    \/ StartThread \/ ArmTimer \/ ListTimer \/ CountTimer
    \/ JoinThread \/ Walk \/ FinishClosing \/ DeleteLoop \/ ReleaseMembers

-------------------------------------------------------------------------------
(* The loop thread. *)

Doing(what) == thread = "running" /\ job.does = what
Goes(what) == job' = [job EXCEPT !.does = what]

(* _on_connect: make_tcp_client puts a handle into the list ... *)
Accept(h) ==
    /\ Doing("poll")
    /\ mem[h] = "none"
    /\ Allocate(h)
    /\ ReadsList("loop")
    /\ job' = [does |-> "accept", at |-> h]
    /\ UNCHANGED <<main, error, listed, active, on, closing, workers, stopped, thread>>
ListClient ==
    /\ Doing("accept")
    /\ listed' = seen["loop"].list \cup {job.at}
    /\ ReadsCount("loop")
    /\ Goes("start")
    /\ UNCHANGED <<main, error, mem, active, on, closing, workers, stopped, thread>>

(* ... and uv_read_start makes it active. *)
CountClient ==
    /\ Doing("start")
    /\ on' = on \cup {job.at}
    /\ active' = seen["loop"].count + 1
    /\ job' = Idle
    /\ UNCHANGED <<main, error, mem, listed, closing, workers, stopped, thread, seen>>

(* Or uv_accept refuses, and the handle is closed without having been active. *)
RefuseClient ==
    /\ Doing("start")
    /\ ReadsList("loop")
    /\ Goes("finish")
    /\ UNCHANGED <<main, error, mem, listed, active, on, closing, workers, stopped, thread>>

(* on_read closes the handle, which is not active any more ... *)
CloseClient(h) ==
    /\ Doing("poll")
    /\ h \in on
    /\ ReadsCount("loop")
    /\ job' = [does |-> "close", at |-> h]
    /\ UNCHANGED <<main, error, mem, listed, active, on, closing, workers, stopped, thread>>
DiscountClient ==
    /\ Doing("close")
    /\ on' = on \ {job.at}
    /\ active' = seen["loop"].count - 1
    /\ ReadsList("loop")
    /\ Goes("finish")
    /\ UNCHANGED <<main, error, mem, listed, closing, workers, stopped, thread>>

(* ... and is taken from the list before on_close deletes it. *)
FinishClient ==
    /\ Doing("finish")
    /\ listed' = seen["loop"].list \ {job.at}
    /\ mem' = [mem EXCEPT ![job.at] = "freed"]
    /\ job' = Idle
    /\ UNCHANGED <<main, error, active, on, closing, workers, stopped, thread, seen>>

(* _on_stop, and uv_run returns. *)
LeaveLoop ==
    /\ Doing("poll")
    /\ stopped
    /\ thread' = "ended"
    /\ UNCHANGED <<main, error, mem, listed, active, on, closing, workers, stopped, job, seen>>

LoopStep ==
    \/ ListClient \/ CountClient \/ RefuseClient \/ DiscountClient
    \/ FinishClient \/ LeaveLoop

-------------------------------------------------------------------------------
Over == main \in {"over", "aborted"} /\ UNCHANGED vars

Step ==
    \/ MainStep \/ RequestStop \/ LoopStep
    \/ \E h \in Clients : Accept(h) \/ CloseClient(h)

Overlap == main \in {"timer_init", "timer_start"} /\ job # Idle
Next ==
    \/ Step /\ raced' = (raced \/ Overlap')
    \/ Blocked \/ Over

(* Both threads are scheduled; nothing obliges a client to come or go, or the *)
(* operator to quit.                                                          *)
Fairness ==
    /\ WF_vars(MainStep /\ raced' = (raced \/ Overlap'))
    /\ WF_vars(LoopStep /\ raced' = (raced \/ Overlap'))
SafeSpec == Init /\ [][Next]_vars
Spec == SafeSpec /\ Fairness

-------------------------------------------------------------------------------
(* Properties. *)

(* Every handle the loop lists is allocated, through start-up, service,        *)
(* destruction and every failure but one: _loop is the last member, so it is  *)
(* destroyed before the handles the other members own.  The exceptions are    *)
(* the two disagreements below.                                               *)
ListedIsLive ==
    \A h \in listed : mem[h] = "live" \/ (h = "server" /\ error = "listen") \/ raced

(* When a step of the constructor has failed, or the operator has quit, main()*)
(* returns (or has ended over a freed handle): the join returns and           *)
(* LoopDeleter leaves nothing active, whatever clients are connected.         *)
LifeEnds ==
    error # "none" \/ stopped ~> main \in {"over", "aborted"} \/ raced

(* The loop never has two runners, and no thread outlives its owner: when     *)
(* Main walks the loop and runs it again, or destroys the members above it,   *)
(* the loop thread has ended or was never started, also when the constructor  *)
(* has failed (a joinable std::thread member would end the process); and      *)
(* main() is over only when every worker has been joined, also then.          *)
Ending == {"walk", "drain", "members", "join_pool", "over"}
NothingRunsOn ==
    /\ main \in Ending => thread # "running"
    /\ main = "over" => workers = 0

(* The comment in LoopDeleter: the memory of the handles it closes is released*)
(* with or after the loop, not before.                                        *)
HandlesOutliveLoop == main = "walk" => \A h \in listed : mem[h] = "live"

(* "How to correctly close an event loop", the comment in LoopDeleter: its    *)
(* uv_run returns and the loop is deleted.                                    *)
LoopDeleterReturns == main = "drain" ~> main = "members"
================================================================================
