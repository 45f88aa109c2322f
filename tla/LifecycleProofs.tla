---------------------------- MODULE LifecycleProofs ----------------------------
(*****************************************************************************)
(* Proofs about Lifecycle, for every number of workers and every finite set  *)
(* of clients.                                                               *)
(*****************************************************************************)
EXTENDS Lifecycle, FiniteSetTheorems, TLAPS

(* Where Main is until the loop thread has been started. *)
Before == {"logger", "pool", "loop", "server", "listen", "stop_async", "reply_async",
           "thread"}

(* The successors of the constructor's steps.                                 *)
LEMMA AfterSteps ==
    /\ After("loop") = "server"
    /\ After("server") = "listen"
    /\ After("listen") = "stop_async"
    /\ After("stop_async") = "reply_async"
    /\ After("reply_async") = "thread"
    /\ After("thread") = "timer"
<1>1. /\ DOMAIN Order = 1 .. 7
      /\ Order[1] = "loop" /\ Order[2] = "server" /\ Order[3] = "listen"
      /\ Order[4] = "stop_async" /\ Order[5] = "reply_async"
      /\ Order[6] = "thread" /\ Order[7] = "timer"
  BY DEF Order
<1>2. \A k \in 1 .. 6 : After(Order[k]) = Order[k + 1]
  <2> SUFFICES ASSUME NEW k \in 1 .. 6
               PROVE  After(Order[k]) = Order[k + 1]
    OBVIOUS
  <2> DEFINE at == CHOOSE i \in DOMAIN Order : Order[i] = Order[k]
  <2>1. \A i \in 1 .. 7 : Order[i] = Order[k] => i = k
    BY <1>1
  <2>2. at \in 1 .. 7 /\ Order[at] = Order[k]
    BY <1>1
  <2>3. at = k
    BY <2>1, <2>2
  <2>4. After(Order[k]) = Order[1 + at]
    BY Zenon DEF After
  <2> HIDE DEF at
  <2> QED
    BY <2>3, <2>4
<1> QED
  BY <1>1, <1>2

-------------------------------------------------------------------------------
(* NothingRunsOn needs that no step that throws comes after the thread. *)
ThreadInv == NothingRunsOn /\ (main \in Before => thread = "none")

(* It is inductive. *)
LEMMA ThreadInvStep == ThreadInv /\ [Next]_vars => ThreadInv'
<1> SUFFICES ASSUME ThreadInv, [Next]_vars
             PROVE  ThreadInv'
  OBVIOUS
<1> USE DEF ThreadInv, NothingRunsOn, Before, Ending, loopVars
<1>1. CASE InitLogger \/ StartWorker \/ JoinWorker
  BY <1>1 DEF InitLogger, StartWorker, JoinWorker
<1>2. CASE MakeLoop \/ InitServer \/ Listen \/ MakeAsync
  BY <1>2, AfterSteps DEF MakeLoop, InitServer, Listen, MakeAsync
<1>3. CASE NoSocket \/ NoListen \/ NoAsync
  BY <1>3 DEF NoSocket, NoListen, NoAsync, Throw
<1>4. CASE StartThread \/ ArmTimer \/ ListTimer \/ CountTimer
  BY <1>4, AfterSteps DEF StartThread, ArmTimer, ListTimer, CountTimer
<1>5. CASE RequestStop \/ JoinThread \/ Walk \/ FinishClosing \/ DeleteLoop \/ ReleaseMembers
  BY <1>5 DEF RequestStop, JoinThread, Walk, FinishClosing, DeleteLoop, ReleaseMembers
<1>6. CASE LoopStep \/ \E h \in Clients : Accept(h) \/ CloseClient(h)
  BY <1>6 DEF LoopStep, ListClient, CountClient, RefuseClient, DiscountClient,
              FinishClient, LeaveLoop, Accept, CloseClient, Doing
<1>7. CASE UNCHANGED vars
  BY <1>7 DEF vars
<1> QED
  BY <1>1, <1>2, <1>3, <1>4, <1>5, <1>6, <1>7
  DEF Next, Step, MainStep, Blocked, Over

(* No thread outlives its owner and the loop never has two runners: the       *)
(* constructor of Reactor starts the loop thread after every step that throws *)
(* an Error, ~Reactor joins it before LoopDeleter runs the loop, and the pool *)
(* joins its workers before main() returns.                                   *)
THEOREM NoThreadRunsOn == SafeSpec => []NothingRunsOn
<1>1. Init => ThreadInv
  BY DEF Init, ThreadInv, NothingRunsOn, Ending, Before
<1> QED
  BY <1>1, ThreadInvStep, PTL DEF SafeSpec, ThreadInv

-------------------------------------------------------------------------------
(* ListedIsLive.  What a thread has read of the list is still the list when it *)
(* is written back, unless the two threads have been at it at once (SeenInv); *)
(* and what is not freed at the end is listed by nobody (EndInv).             *)
Jobs == {"poll", "accept", "start", "close", "finish"}
TypeInv ==
    /\ mem \in [Handles -> {"none", "live", "freed"}]
    /\ listed \in SUBSET Handles
    /\ job \in [does : Jobs, at : Clients \cup {NoClient}]
    /\ on \in SUBSET Handles
    /\ active \in Int
    /\ seen \in [{"main", "loop"} -> [list : SUBSET Handles, count : Int]]

(* What LoopDeleter takes off the count is a number: there are finitely many  *)
(* handles.                                                                   *)
LEMMA OnIsFinite == ASSUME TypeInv PROVE Cardinality(on \cap Walked) \in Nat
<1>1. IsFiniteSet(Own)
  <2>1. Own = ((({} \cup {"server"}) \cup {"stop_async"}) \cup {"reply_async"}) \cup {"timer"}
    BY DEF Own
  <2>2. IsFiniteSet({} \cup {"server"})
    BY FS_EmptySet, FS_AddElement
  <2>3. IsFiniteSet(({} \cup {"server"}) \cup {"stop_async"})
    BY <2>2, FS_AddElement
  <2>4. IsFiniteSet((({} \cup {"server"}) \cup {"stop_async"}) \cup {"reply_async"})
    BY <2>3, FS_AddElement
  <2> QED
    BY <2>1, <2>4, FS_AddElement
<1>2. IsFiniteSet(Handles)
  BY <1>1, FS_Union, LifecycleAssumption DEF Handles
<1>3. IsFiniteSet(on \cap Walked)
  BY <1>2, FS_Subset DEF TypeInv
<1> QED
  BY <1>3, FS_CardinalityType

(* The loop thread is at a client only while it runs, and at one that is live. *)
JobInv ==
    /\ job.does = "poll" => job = Idle
    /\ thread # "running" => job = Idle
    /\ job.does # "poll" => job.at \in Clients
    /\ job.does = "accept" => mem[job.at] = "live"

SeenInv ==
    ~raced =>
        /\ ~Overlap
        /\ main = "timer_init" => seen["main"].list = listed
        /\ job.does \in {"accept", "finish"} => seen["loop"].list = listed

EndInv ==
    /\ main \in Before => error = "none"
    /\ main \in {"logger", "pool", "loop", "server", "members", "join_pool", "over"} =>
          listed = {}
    /\ main = "drain" => listed = closing \/ (listed = {} /\ closing = {})

ListInv == ThreadInv /\ TypeInv /\ JobInv /\ SeenInv /\ EndInv /\ ListedIsLive

(* It holds before Logger::init. *)
LEMMA ListInvInit == Init => ListInv
<1> SUFFICES ASSUME Init
             PROVE  ListInv
  OBVIOUS
<1>1. ThreadInv
  BY DEF Init, ThreadInv, NothingRunsOn, Ending, Before
<1>2. TypeInv
  BY DEF Init, TypeInv, Idle, Jobs
<1>3. JobInv /\ EndInv /\ ListedIsLive
  BY DEF Init, JobInv, EndInv, ListedIsLive, Idle, Before
<1>4. SeenInv
  BY DEF Init, SeenInv, Overlap, Idle
<1> QED
  BY <1>1, <1>2, <1>3, <1>4 DEF ListInv

(* The steps of Main before and after the life of the loop thread: the loop   *)
(* thread is at nothing.                                                      *)
LEMMA MainAlone ==
    ASSUME ListInv,
           \/ InitLogger \/ StartWorker \/ JoinWorker
           \/ MakeLoop \/ InitServer \/ NoSocket \/ Listen \/ NoListen
           \/ MakeAsync \/ NoAsync \/ StartThread
           \/ JoinThread \/ Walk \/ FinishClosing \/ DeleteLoop \/ ReleaseMembers
    PROVE  /\ TypeInv' /\ JobInv' /\ EndInv'
           /\ job' = Idle
           /\ main' \notin {"timer_init", "timer_start"}
           /\ \A h \in listed' : mem'[h] = "live" \/ (h = "server" /\ error' = "listen") \/ raced
<1> USE DEF ListInv, ThreadInv, NothingRunsOn, Ending, TypeInv, JobInv, EndInv, ListedIsLive,
            Before, loopVars
<1>1. CASE InitLogger \/ StartWorker \/ JoinWorker
  BY <1>1 DEF InitLogger, StartWorker, JoinWorker, Idle
<1>2. CASE MakeLoop
  BY <1>2, AfterSteps DEF MakeLoop, Idle
<1>3. CASE InitServer
  BY <1>3, AfterSteps DEF InitServer, Allocate, Handles, Own, Idle
<1>4. CASE Listen \/ StartThread
  <2>1. CASE Listen
    <3>1. active + 1 \in Int
      OBVIOUS
    <3>2. on \cup {"server"} \in SUBSET Handles
      BY DEF Handles, Own
    <3> QED
      BY <2>1, <3>1, <3>2, AfterSteps DEF Listen, Idle
  <2>2. CASE StartThread
    BY <2>2, AfterSteps DEF StartThread, Idle
  <2> QED
    BY <1>4, <2>1, <2>2
<1>5. CASE NoSocket \/ NoListen \/ NoAsync
  BY <1>5 DEF NoSocket, NoListen, NoAsync, Throw, DestroyedBeforeLoop, Idle
<1>6. CASE MakeAsync
  BY <1>6, AfterSteps DEF MakeAsync, Allocate, Handles, Own, Idle
<1>7. CASE JoinThread
  BY <1>7 DEF JoinThread, DestroyedBeforeLoop, Idle
<1>8. CASE Walk
  <2>1. active - Cardinality(on \cap Walked) \in Int
    BY OnIsFinite
  <2> QED
    BY <1>8, <2>1 DEF Walk, Walked, Idle
<1>9. CASE FinishClosing \/ DeleteLoop
  BY <1>9 DEF FinishClosing, DeleteLoop, Idle
<1>10. CASE ReleaseMembers
  BY <1>10 DEF ReleaseMembers, Idle
<1> QED
  BY <1>1, <1>2, <1>3, <1>4, <1>5, <1>6, <1>7, <1>8, <1>9, <1>10

(* The steps of both threads while the loop thread may run: what holds         *)
(* whether they race or not, and what holds only if they do not.              *)
LEMMA TogetherKeeps ==
    ASSUME ListInv,
           \/ ArmTimer \/ ListTimer \/ CountTimer \/ RequestStop \/ LoopStep
           \/ \E h \in Clients : Accept(h) \/ CloseClient(h)
    PROVE  TypeInv' /\ JobInv' /\ EndInv'
<1> USE LifecycleAssumption
    DEF ListInv, ThreadInv, NothingRunsOn, Ending, TypeInv, JobInv, EndInv, Before, loopVars,
        Idle, Jobs
<1>1. CASE ArmTimer
  BY <1>1 DEF ArmTimer, ReadsList
<1>2. CASE ListTimer
  BY <1>2 DEF ListTimer, ReadsCount, Allocate, Handles, Own
<1>3. CASE CountTimer \/ RequestStop
  <2>1. CASE CountTimer
    <3>1. seen["main"].count + 1 \in Int
      OBVIOUS
    <3>2. on \cup {"timer"} \in SUBSET Handles
      BY DEF Handles, Own
    <3> QED
      BY <2>1, <3>1, <3>2 DEF CountTimer
  <2>2. CASE RequestStop
    BY <2>2 DEF RequestStop
  <2> QED
    BY <1>3, <2>1, <2>2
<1>4. CASE ListClient
  BY <1>4 DEF ListClient, ReadsCount, Doing, Goes, Handles
<1>5. CASE CountClient \/ LeaveLoop
  BY <1>5 DEF CountClient, LeaveLoop, Doing, Handles
<1>6. CASE RefuseClient \/ DiscountClient
  BY <1>6 DEF RefuseClient, DiscountClient, ReadsList, Doing, Goes
<1>7. CASE FinishClient
  BY <1>7 DEF FinishClient, Doing, Handles
<1>8. ASSUME NEW h \in Clients, Accept(h) \/ CloseClient(h)
      PROVE  TypeInv' /\ JobInv' /\ EndInv'
  BY <1>8 DEF Accept, CloseClient, ReadsList, ReadsCount, Allocate, Doing, Handles
<1> QED
  BY <1>1, <1>2, <1>3, <1>4, <1>5, <1>6, <1>7, <1>8 DEF LoopStep

(* Without a race no update of the list is lost, and what is listed is live. *)
LEMMA Together ==
    ASSUME ListInv, ~raced, ~Overlap',
           \/ ArmTimer \/ ListTimer \/ CountTimer \/ RequestStop \/ LoopStep
           \/ \E h \in Clients : Accept(h) \/ CloseClient(h)
    PROVE  /\ main' = "timer_init" => seen'["main"].list = listed'
           /\ job'.does \in {"accept", "finish"} => seen'["loop"].list = listed'
           /\ \A h \in listed' : mem'[h] = "live" \/ (h = "server" /\ error' = "listen")
<1> USE LifecycleAssumption
    DEF ListInv, ThreadInv, NothingRunsOn, Ending, TypeInv, JobInv, SeenInv, EndInv,
        ListedIsLive, Before, loopVars, Overlap, Idle, Jobs
<1> DEFINE Kept ==
      /\ main' = "timer_init" => seen'["main"].list = listed'
      /\ job'.does \in {"accept", "finish"} => seen'["loop"].list = listed'
      /\ \A h \in listed' : mem'[h] = "live" \/ (h = "server" /\ error' = "listen")
<1>1. CASE ArmTimer
  BY <1>1 DEF ArmTimer, ReadsList
<1>2. CASE ListTimer
  BY <1>2 DEF ListTimer, ReadsCount, Allocate, Handles, Own
<1>3. CASE CountTimer \/ RequestStop
  BY <1>3 DEF CountTimer, RequestStop, Handles, Own
<1>4. CASE ListClient
  BY <1>4 DEF ListClient, ReadsCount, Doing, Goes, Handles
<1>5. CASE CountClient \/ LeaveLoop
  BY <1>5 DEF CountClient, LeaveLoop, Doing, Handles
<1>6. CASE RefuseClient
  BY <1>6 DEF RefuseClient, ReadsList, Doing, Goes
<1>7. CASE DiscountClient
  BY <1>7 DEF DiscountClient, ReadsList, Doing, Goes
<1>8. CASE FinishClient
  BY <1>8 DEF FinishClient, Doing, Handles
<1>9. ASSUME NEW h \in Clients, Accept(h)
      PROVE  Kept
  BY <1>9 DEF Accept, ReadsList, Allocate, Doing, Handles
<1>10. ASSUME NEW h \in Clients, CloseClient(h)
       PROVE  Kept
  BY <1>10 DEF CloseClient, ReadsCount, Doing
<1> QED
  BY <1>1, <1>2, <1>3, <1>4, <1>5, <1>6, <1>7, <1>8, <1>9, <1>10 DEF LoopStep

(* It is inductive: a step is one of Main alone or one of both threads' time.  *)
LEMMA ListInvStep == ListInv /\ [Next]_vars => ListInv'
<1> SUFFICES ASSUME ListInv, [Next]_vars
             PROVE  ListInv'
  OBVIOUS
<1>1. ThreadInv'
  BY ThreadInvStep DEF ListInv
<1>2. CASE UNCHANGED vars
  <2>1. TypeInv' /\ JobInv' /\ EndInv' /\ SeenInv' /\ ListedIsLive'
    BY <1>2 DEF ListInv, vars, TypeInv, JobInv, SeenInv, EndInv, ListedIsLive, Overlap
  <2> QED
    BY <1>1, <2>1 DEF ListInv
<1>3. CASE Step /\ raced' = (raced \/ Overlap')
  <2>1. CASE \/ InitLogger \/ StartWorker \/ JoinWorker
             \/ MakeLoop \/ InitServer \/ NoSocket \/ Listen \/ NoListen
             \/ MakeAsync \/ NoAsync \/ StartThread
             \/ JoinThread \/ Walk \/ FinishClosing \/ DeleteLoop \/ ReleaseMembers
    <3>1. /\ TypeInv' /\ JobInv' /\ EndInv'
          /\ job' = Idle
          /\ main' \notin {"timer_init", "timer_start"}
          /\ \A h \in listed' :
                mem'[h] = "live" \/ (h = "server" /\ error' = "listen") \/ raced
      BY <2>1, MainAlone
    <3>2. SeenInv'
      BY <3>1 DEF SeenInv, Overlap, Idle
    <3>3. ListedIsLive'
      BY <1>3, <3>1 DEF ListedIsLive
    <3> QED
      BY <1>1, <3>1, <3>2, <3>3 DEF ListInv
  <2>2. CASE \/ ArmTimer \/ ListTimer \/ CountTimer \/ RequestStop \/ LoopStep
             \/ \E h \in Clients : Accept(h) \/ CloseClient(h)
    <3>1. TypeInv' /\ JobInv' /\ EndInv'
      BY <2>2, TogetherKeeps
    <3>2. ~raced' => ~raced /\ ~Overlap'
      BY <1>3
    <3>3. ~raced' =>
             /\ main' = "timer_init" => seen'["main"].list = listed'
             /\ job'.does \in {"accept", "finish"} => seen'["loop"].list = listed'
             /\ \A h \in listed' : mem'[h] = "live" \/ (h = "server" /\ error' = "listen")
      BY <2>2, <3>2, Together
    <3> QED
      BY <1>1, <3>1, <3>2, <3>3 DEF ListInv, SeenInv, ListedIsLive
  <2> QED
    BY <1>3, <2>1, <2>2 DEF Step, MainStep
<1> QED
  BY <1>2, <1>3 DEF Next, Blocked, Over

(* What the loop lists is allocated, through start-up, service, destruction   *)
(* and every failure but that of make_tcp_server, unless the two threads have *)
(* raced for the list: _loop is the last member, and what is freed before it  *)
(* has been taken from the list.                                              *)
THEOREM ListedHandlesAreLive == SafeSpec => []ListedIsLive
  BY ListInvInit, ListInvStep, PTL DEF SafeSpec, ListInv
================================================================================
