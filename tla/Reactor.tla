-------------------------------- MODULE Reactor --------------------------------
(*****************************************************************************)
(* The reactor (reactor.h, reactor.cpp, the close path of connection.cpp):   *)
(* one thread runs a libuv loop and all its callbacks; the workers hand it   *)
(* replies through a vector under a mutex and wake it with uv_async_send;    *)
(* Main stops and destroys it.                                               *)
(*                                                                           *)
(* What only the loop thread touches (the connection table, the handles, the *)
(* write queues) changes in one step per callback.  What it shares with      *)
(* other threads (the reply vector, the pending flags of the async handles)  *)
(* changes one access at a time.  A handle is a uv_tcp_t together with its   *)
(* Connection; each stands for one client, and handles are not reused.       *)
(*                                                                           *)
(* An operator named Op_Variant is a faulty variant of Op that the model     *)
(* checker must tell from Op; nothing else refers to it.                     *)
(*****************************************************************************)
EXTENDS Naturals, Sequences

CONSTANTS Handles,     \* client handles that may be created
          NoHandle,    \* "no entry in _connections"
          NoConn,      \* "no Connection yet"
          MaxConns,    \* bound: connections accepted in a run
          Senders,     \* the threads that call Reactor::send (the workers)
          Reply,       \* the replies: records with a field conn
          Backlog      \* bound: how many replies may be under way when one more
                       \* is sent, Nat for any number

ConnIds == 0 .. MaxConns - 1

ASSUME ReactorAssumption ==
    /\ MaxConns \in Nat
    /\ Backlog \subseteq Nat
    /\ NoHandle \notin Handles
    /\ NoConn \notin ConnIds
    /\ \A r \in Reply : r.conn \in ConnIds

VARIABLES connCnt,     \* _connection_cnt
          conns,       \* _connections: the handle of a connection id
          hconn,       \* hconn[h]: _id of the Connection in the handle's data
          hstate,      \* hstate[h]: the handle's life
          broken,      \* broken[h]: the client is gone, writes to it fail
          wq,          \* wq[h]: the replies in the stream's write queue
          replies,     \* _replies, guarded by _mutex
          sending,     \* what is left of the local vector of Reactor::_send
          notifying,   \* senders between the unlock of send and uv_async_send
          replyAsync,  \* the pending flag of _reply_async
          stopAsync,   \* the pending flag of _stop_async
          stopFlag,    \* the loop's stop flag, set by uv_stop
          lpc,         \* where the loop thread is
          rpc          \* where Main is in the life of the reactor

tvars == <<connCnt, conns, hconn, hstate, broken>>
vars == <<tvars, wq, replies, sending, notifying, replyAsync, stopAsync,
          stopFlag, lpc, rpc>>

HandleStates == {"none", "open", "closing", "freed", "orphan"}
LoopPCs == {"poll", "dispatch", "drain", "exited"}
OwnerPCs == {"serving", "stopping", "joining", "destroyed"}

Init ==
    /\ connCnt = 0
    /\ conns = [i \in ConnIds |-> NoHandle]
    /\ hconn = [h \in Handles |-> NoConn]
    /\ hstate = [h \in Handles |-> "none"]
    /\ broken = [h \in Handles |-> FALSE]
    /\ wq = [h \in Handles |-> <<>>]
    /\ replies = <<>>
    /\ sending = <<>>
    /\ notifying = {}
    /\ replyAsync = FALSE
    /\ stopAsync = FALSE
    /\ stopFlag = FALSE
    /\ lpc = "poll"
    /\ rpc = "serving"

(* The loop is between two callbacks of its poll phase. *)
Polling == lpc = "poll" /\ sending = <<>>

-------------------------------------------------------------------------------
(* Connections. *)

(* _connection_id() *)
NextId_Reused == CHOOSE i \in ConnIds : conns[i] = NoHandle
NextId_FromOne == connCnt + 1
NextId == connCnt

(* _on_connect with a connection to accept: _create_client registers a fresh  *)
(* handle; if uv_accept refuses, the handle is closed at once, registered.    *)
OnConnect(h, accepted) ==
    /\ Polling
    /\ hstate[h] = "none"
    /\ connCnt < MaxConns
    /\ connCnt' = connCnt + 1
    /\ conns' = [conns EXCEPT ![NextId] = h]
    /\ hconn' = [hconn EXCEPT ![h] = NextId]
    /\ hstate' = [hstate EXCEPT ![h] = IF accepted THEN "open" ELSE "closing"]
    /\ UNCHANGED <<broken, wq, replies, sending, notifying, replyAsync, stopAsync,
                   stopFlag, lpc, rpc>>

(* Connection::on_read with bytes that complete a request: the batch has been *)
(* pushed to a worker, which is yet to be notified.                           *)
OnRead(h) ==
    /\ Polling
    /\ hstate[h] = "open"
    /\ lpc' = "dispatch"
    /\ UNCHANGED <<tvars, wq, replies, sending, notifying, replyAsync, stopAsync,
                   stopFlag, rpc>>

(* The end of dispatch, and of on_read. *)
Dispatched ==
    /\ lpc = "dispatch"
    /\ lpc' = "poll"
    /\ UNCHANGED <<tvars, wq, replies, sending, notifying, replyAsync, stopAsync,
                   stopFlag, rpc>>

(* on_read with an error, end of file or a request that does not parse: the   *)
(* handle is closed, and stays registered until its close callback.           *)
OnReadClose(h) ==
    /\ Polling
    /\ hstate[h] = "open"
    /\ hstate' = [hstate EXCEPT ![h] = "closing"]
    /\ UNCHANGED <<connCnt, conns, hconn, broken, wq, replies, sending, notifying,
                   replyAsync, stopAsync, stopFlag, lpc, rpc>>

(* The client resets the connection; the server has not noticed yet. *)
PeerBreaks(h) ==
    /\ hstate[h] = "open"
    /\ ~broken[h]
    /\ broken' = [broken EXCEPT ![h] = TRUE]
    /\ UNCHANGED <<connCnt, conns, hconn, hstate, wq, replies, sending, notifying,
                   replyAsync, stopAsync, stopFlag, lpc, rpc>>

(* libuv finishes the oldest write of a stream, well or (the client being     *)
(* gone) with an error, and calls _on_write.                                  *)
OnWrite(h) ==
    /\ Polling
    /\ hstate[h] = "open"
    /\ wq[h] # <<>>
    /\ wq' = [wq EXCEPT ![h] = Tail(@)]
    /\ UNCHANGED <<tvars, replies, sending, notifying, replyAsync, stopAsync,
                   stopFlag, lpc, rpc>>

-------------------------------------------------------------------------------
(* Replies. *)

(* Reactor::send up to the unlock. *)
Appended_NoNotify(s) == notifying
Appended(s) == notifying \cup {s}
AppendReply(s, r) ==
    /\ s \notin notifying
    /\ replies' = Append(replies, r)
    /\ notifying' = Appended(s)
    /\ UNCHANGED <<tvars, wq, sending, replyAsync, stopAsync, stopFlag, lpc, rpc>>

(* _notify: uv_async_send sets the flag of the handle, and sends coalesce. *)
Notify(s) ==
    /\ s \in notifying
    /\ notifying' = notifying \ {s}
    /\ replyAsync' = TRUE
    /\ UNCHANGED <<tvars, wq, replies, sending, stopAsync, stopFlag, lpc, rpc>>

(* libuv finds _reply_async pending, clears the flag and calls _on_reply. *)
OnReply ==
    /\ Polling
    /\ replyAsync
    /\ replyAsync' = FALSE
    /\ lpc' = "drain"
    /\ UNCHANGED <<tvars, wq, replies, sending, notifying, stopAsync, stopFlag, rpc>>

(* What is in _replies after the swap. *)
LeftAfterSwap_Copied == replies
LeftAfterSwap == <<>>

(* The swap under the lock in _send(). *)
SwapReplies ==
    /\ lpc = "drain"
    /\ sending' = replies
    /\ replies' = LeftAfterSwap
    /\ lpc' = "poll"
    /\ UNCHANGED <<tvars, wq, notifying, replyAsync, stopAsync, stopFlag, rpc>>

(* _send(Reply): a reply whose connection is not registered is dropped; on a  *)
(* closing handle uv_write fails and its result is ignored; else it is queued.*)
Target(r) == conns[r.conn]
SendReply ==
    /\ lpc = "poll"
    /\ sending # <<>>
    /\ sending' = Tail(sending)
    /\ wq' = [h \in Handles |->
                 IF h = Target(Head(sending)) /\ hstate[h] = "open"
                 THEN Append(wq[h], Head(sending)) ELSE wq[h]]
    /\ UNCHANGED <<tvars, replies, notifying, replyAsync, stopAsync, stopFlag,
                   lpc, rpc>>

-------------------------------------------------------------------------------
(* Closing and stopping. *)

(* remove_connection, for the handles whose close callback runs. *)
Registered_Kept(closed) == conns
Registered(closed) == [i \in ConnIds |-> IF conns[i] \in closed THEN NoHandle ELSE conns[i]]

(* The end of an iteration of uv_run: the close callbacks of the handles      *)
(* closed in it (Connection::on_close), then the stop flag is looked at.      *)
EndIteration ==
    LET closed == {h \in Handles : hstate[h] = "closing"} IN
    /\ Polling
    /\ closed # {} \/ stopFlag
    /\ conns' = Registered(closed)
    /\ hstate' = [h \in Handles |-> IF h \in closed THEN "freed" ELSE hstate[h]]
    /\ wq' = [h \in Handles |-> IF h \in closed THEN <<>> ELSE wq[h]]
    /\ lpc' = IF stopFlag THEN "exited" ELSE "poll"
    /\ UNCHANGED <<connCnt, hconn, broken, replies, sending, notifying, replyAsync,
                   stopAsync, stopFlag, rpc>>

(* _on_stop: uv_stop lets the loop finish the iteration it is in. *)
PcAfterStop_Now == "exited"
PcAfterStop == "poll"

(* The loop's stop flag after _on_stop. *)
StopFlagAfter_Forgotten == stopFlag
StopFlagAfter == TRUE
OnStop ==
    /\ Polling
    /\ stopAsync
    /\ stopAsync' = FALSE
    /\ stopFlag' = StopFlagAfter
    /\ lpc' = PcAfterStop
    /\ UNCHANGED <<tvars, wq, replies, sending, notifying, replyAsync, rpc>>

(* Reactor::stop, called by main() and once more by ~Reactor. *)
Stop ==
    /\ \/ rpc = "serving" /\ rpc' = "stopping"
       \/ rpc = "stopping" /\ rpc' = "joining"
    /\ stopAsync' = TRUE
    /\ UNCHANGED <<tvars, wq, replies, sending, notifying, replyAsync, stopFlag, lpc>>

(* The rest of ~Reactor, when the loop thread has been joined: LoopDeleter    *)
(* closes every handle still open without a close callback, so no Connection  *)
(* and no client handle is deleted; then the members are destroyed.  One step:*)
(* a send that falls in between finds the mutex and the vector still there or *)
(* gone, as one does that comes just before or just after.                    *)
Destroy ==
    /\ rpc = "joining"
    /\ lpc = "exited"
    /\ rpc' = "destroyed"
    /\ hstate' = [h \in Handles |-> IF hstate[h] = "open" THEN "orphan" ELSE hstate[h]]
    /\ wq' = [h \in Handles |-> <<>>]
    /\ conns' = [i \in ConnIds |-> NoHandle]
    /\ replies' = <<>>
    /\ UNCHANGED <<connCnt, hconn, broken, sending, notifying, replyAsync, stopAsync,
                   stopFlag, lpc>>

-------------------------------------------------------------------------------
(* Senders send while the reactor exists, one reply at a time each. *)
SenderSends(s, r) ==
    /\ rpc # "destroyed"
    /\ r.conn < connCnt
    /\ \A h \in Handles : Len(replies) + Len(sending) + Len(wq[h]) \in Backlog
    /\ AppendReply(s, r)
SenderNotifies(s) == rpc # "destroyed" /\ Notify(s)

(* Nothing is left to do once the reactor is gone. *)
Terminated == rpc = "destroyed" /\ UNCHANGED vars

Next ==
    \/ \E h \in Handles :
          \/ \E accepted \in BOOLEAN : OnConnect(h, accepted)
          \/ OnRead(h) \/ OnReadClose(h) \/ PeerBreaks(h) \/ OnWrite(h)
    \/ \E s \in Senders : (\E r \in Reply : SenderSends(s, r)) \/ SenderNotifies(s)
    \/ Dispatched \/ OnReply \/ SwapReplies \/ SendReply \/ EndIteration \/ OnStop
    \/ Stop \/ Destroy
    \/ Terminated

(* A callback that has started runs to its end; an iteration of uv_run polls  *)
(* every handle and ends, so no pending async, finished write or closing      *)
(* handle is passed over for ever (SF: other callbacks come in between).      *)
(* Nothing obliges a client to connect or send, or Main to call stop.         *)
Fairness ==
    /\ WF_vars(Dispatched) /\ WF_vars(SwapReplies) /\ WF_vars(SendReply)
    /\ SF_vars(OnReply) /\ SF_vars(OnStop) /\ SF_vars(EndIteration)
    /\ \A h \in Handles : SF_vars(OnWrite(h))
    /\ \A s \in Senders : WF_vars(SenderNotifies(s))
    /\ WF_vars(rpc = "stopping" /\ Stop) /\ WF_vars(Destroy)

SafeSpec == Init /\ [][Next]_vars
Spec == SafeSpec /\ Fairness

-------------------------------------------------------------------------------
(* Properties. *)

(* The type of every variable. *)
TypeOK ==
    /\ connCnt \in 0 .. MaxConns
    /\ conns \in [ConnIds -> Handles \cup {NoHandle}]
    /\ hconn \in [Handles -> ConnIds \cup {NoConn}]
    /\ hstate \in [Handles -> HandleStates]
    /\ broken \in [Handles -> BOOLEAN]
    /\ wq \in [Handles -> Seq(Reply)]
    /\ replies \in Seq(Reply)
    /\ sending \in Seq(Reply)
    /\ notifying \in SUBSET Senders
    /\ replyAsync \in BOOLEAN /\ stopAsync \in BOOLEAN /\ stopFlag \in BOOLEAN
    /\ lpc \in LoopPCs
    /\ rpc \in OwnerPCs

(* No reply is stranded: whenever _replies holds something, the loop is going *)
(* to take it, because _reply_async is pending, or its callback is before the *)
(* swap, or the sender is before its uv_async_send; although sends coalesce   *)
(* and the flag is cleared before the vector is taken.                        *)
NoStrandedReply ==
    replies # <<>> => replyAsync \/ lpc = "drain" \/ notifying # {}

(* The connection table and the handles agree: the raw uv_tcp_t* that _send   *)
(* finds for a reply, however late the reply is, is allocated and is the      *)
(* handle of the connection the reply names; and a handle that can still      *)
(* receive is found.                                                          *)
TableMatchesHandles ==
    /\ \A i \in ConnIds :
          conns[i] # NoHandle =>
              hstate[conns[i]] \in {"open", "closing"} /\ hconn[conns[i]] = i
    /\ rpc # "destroyed" =>
          \A h \in Handles :
              hstate[h] \in {"open", "closing"} =>
                  hconn[h] \in ConnIds /\ conns[hconn[h]] = h

(* When the loop thread has left uv_run no handle is closing, so the uv_walk  *)
(* of LoopDeleter never closes a handle a second time, which libuv forbids.   *)
NoCloseInFlightAtExit ==
    lpc = "exited" => \A h \in Handles : hstate[h] # "closing"

(* What the comment in LoopDeleter relies on: handles that uv_walk closes      *)
(* without a close callback are released all the same, so none is left over.  *)
HandlesReleased == rpc = "destroyed" => \A h \in Handles : hstate[h] \in {"none", "freed"}

(* Whatever was sent is taken out of _replies, while the loop runs or by the  *)
(* destruction.                                                               *)
RepliesDrained == replies # <<>> ~> replies = <<>>

(* The destructor gets through its join: a stop request, coalesced with the   *)
(* second one of ~Reactor or not, ends uv_run.                                *)
DestructorReturns == rpc = "stopping" ~> rpc = "destroyed"
================================================================================
