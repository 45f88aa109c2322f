----------------------------- MODULE ReactorProofs -----------------------------
(*****************************************************************************)
(* Theorems about the reactor, for any set of clients, any number of         *)
(* connections and any set of senders.                                       *)
(*****************************************************************************)
EXTENDS Reactor, SequenceTheorems, TLAPS

-------------------------------------------------------------------------------
(* Every variable keeps its type.                                             *)
LEMMA TypeStep == ASSUME TypeOK, [Next]_vars PROVE TypeOK'
<1>1. ASSUME NEW h \in Handles, NEW accepted \in BOOLEAN, OnConnect(h, accepted) PROVE TypeOK'
  <2>1. connCnt \in ConnIds /\ connCnt + 1 \in 0 .. MaxConns
    BY <1>1, ReactorAssumption DEF OnConnect, TypeOK, ConnIds
  <2> QED BY <1>1, <2>1 DEF OnConnect, NextId, TypeOK, HandleStates
<1>2. ASSUME NEW h \in Handles, OnRead(h) \/ OnReadClose(h) \/ PeerBreaks(h) PROVE TypeOK'
  BY <1>2 DEF OnRead, OnReadClose, PeerBreaks, tvars, TypeOK, HandleStates, LoopPCs
<1>3. ASSUME NEW h \in Handles, OnWrite(h) PROVE TypeOK'
  <2>1. Tail(wq[h]) \in Seq(Reply)
    BY <1>3 DEF OnWrite, TypeOK
  <2> QED BY <1>3, <2>1 DEF OnWrite, tvars, TypeOK
<1>4. ASSUME NEW s \in Senders, NEW r \in Reply, SenderSends(s, r) PROVE TypeOK'
  <2>1. Append(replies, r) \in Seq(Reply)
    BY DEF TypeOK
  <2> QED BY <1>4, <2>1 DEF SenderSends, AppendReply, Appended, tvars, TypeOK
<1>5. ASSUME NEW s \in Senders, SenderNotifies(s) PROVE TypeOK'
  BY <1>5 DEF SenderNotifies, Notify, tvars, TypeOK
<1>6. ASSUME Dispatched \/ OnReply \/ SwapReplies \/ OnStop PROVE TypeOK'
  <2>1. <<>> \in Seq(Reply)
    BY EmptySeq
  <2>2. CASE SwapReplies
    BY <2>1, <2>2 DEF SwapReplies, LeftAfterSwap, tvars, TypeOK, LoopPCs
  <2>3. CASE Dispatched \/ OnReply \/ OnStop
    BY <2>3 DEF Dispatched, OnReply, OnStop, PcAfterStop, StopFlagAfter, tvars, TypeOK, LoopPCs
  <2> QED BY <1>6, <2>2, <2>3
<1>7. ASSUME SendReply PROVE TypeOK'
  <2>1. Head(sending) \in Reply /\ Tail(sending) \in Seq(Reply)
    BY <1>7, HeadTailProperties DEF SendReply, TypeOK
  <2>2. \A h \in Handles : Append(wq[h], Head(sending)) \in Seq(Reply)
    BY <2>1 DEF TypeOK
  <2>3. wq' \in [Handles -> Seq(Reply)]
    BY <1>7, <2>2 DEF SendReply, TypeOK
  <2> QED BY <1>7, <2>1, <2>3 DEF SendReply, tvars, TypeOK
<1>8. ASSUME EndIteration PROVE TypeOK'
  <2>1. conns' \in [ConnIds -> Handles \cup {NoHandle}]
    BY <1>8 DEF EndIteration, Registered, TypeOK
  <2>2. hstate' \in [Handles -> HandleStates] /\ lpc' \in LoopPCs
    BY <1>8 DEF EndIteration, TypeOK, HandleStates, LoopPCs
  <2>3. wq' \in [Handles -> Seq(Reply)]
    <3>1. <<>> \in Seq(Reply)
      BY EmptySeq
    <3> QED BY <1>8, <3>1 DEF EndIteration, TypeOK
  <2> QED BY <1>8, <2>1, <2>2, <2>3 DEF EndIteration, TypeOK
<1>9. ASSUME Stop PROVE TypeOK'
  BY <1>9 DEF Stop, tvars, TypeOK, OwnerPCs
<1>10. ASSUME Destroy PROVE TypeOK'
  <2>1. <<>> \in Seq(Reply)
    BY EmptySeq
  <2>2. hstate' \in [Handles -> HandleStates] /\ conns' \in [ConnIds -> Handles \cup {NoHandle}]
    BY <1>10 DEF Destroy, TypeOK, HandleStates
  <2> QED BY <1>10, <2>1, <2>2 DEF Destroy, TypeOK, OwnerPCs
<1>11. ASSUME UNCHANGED vars PROVE TypeOK'
  BY <1>11 DEF vars, tvars, TypeOK
<1> QED BY <1>1, <1>2, <1>3, <1>4, <1>5, <1>6, <1>7, <1>8, <1>9, <1>10, <1>11
        DEF Next, Terminated

(* Every variable of the reactor has its type in every reachable state: ids   *)
(* given out stay below MaxConns, and no step of OnConnect, _send or the      *)
(* close path leaves the table or a write queue with anything else in it.     *)
THEOREM TypeCorrect == SafeSpec => []TypeOK
<1>1. Init => TypeOK
  <2>1. <<>> \in Seq(Reply)
    BY EmptySeq
  <2>2. ASSUME Init PROVE /\ connCnt \in 0 .. MaxConns
                          /\ conns \in [ConnIds -> Handles \cup {NoHandle}]
                          /\ hconn \in [Handles -> ConnIds \cup {NoConn}]
                          /\ broken \in [Handles -> BOOLEAN]
                          /\ notifying \in SUBSET Senders
    BY <2>2, ReactorAssumption DEF Init
  <2>3. ASSUME Init PROVE /\ hstate \in [Handles -> HandleStates]
                          /\ wq \in [Handles -> Seq(Reply)]
                          /\ lpc \in LoopPCs /\ rpc \in OwnerPCs
    BY <2>1, <2>3 DEF Init, HandleStates, LoopPCs, OwnerPCs
  <2> QED BY <2>1, <2>2, <2>3 DEF Init, TypeOK
<1>2. TypeOK /\ [Next]_vars => TypeOK'
  BY TypeStep
<1> QED BY <1>1, <1>2, PTL DEF SafeSpec

-------------------------------------------------------------------------------
(* Clearing the flag is followed by the swap, and every append by a           *)
(* uv_async_send.                                                             *)
LEMMA StrandedStep == ASSUME NoStrandedReply, [Next]_vars PROVE NoStrandedReply'
<1>1. CASE UNCHANGED <<replies, replyAsync, lpc, notifying>>
  BY <1>1 DEF NoStrandedReply
<1>2. ASSUME NEW h \in Handles, OnRead(h) PROVE NoStrandedReply'
  BY <1>2 DEF OnRead, Polling, NoStrandedReply
<1>3. ASSUME NEW s \in Senders, NEW r \in Reply, SenderSends(s, r) PROVE NoStrandedReply'
  BY <1>3 DEF SenderSends, AppendReply, Appended, NoStrandedReply
<1>4. ASSUME NEW s \in Senders, SenderNotifies(s) PROVE NoStrandedReply'
  BY <1>4 DEF SenderNotifies, Notify, NoStrandedReply
<1>5. ASSUME SwapReplies \/ Destroy PROVE NoStrandedReply'
  BY <1>5 DEF SwapReplies, LeftAfterSwap, Destroy, NoStrandedReply
<1>6. ASSUME Dispatched \/ OnReply \/ EndIteration \/ OnStop PROVE NoStrandedReply'
  BY <1>6 DEF Dispatched, OnReply, EndIteration, OnStop, Polling, NoStrandedReply
<1> QED BY <1>1, <1>2, <1>3, <1>4, <1>5, <1>6
        DEF Next, Terminated, OnConnect, OnReadClose, PeerBreaks, OnWrite, SendReply,
            Stop, tvars, vars

(* No reply is stranded, whatever is interleaved with the loop's callbacks.   *)
THEOREM NoReplyIsStranded == SafeSpec => []NoStrandedReply
<1>1. Init => NoStrandedReply
  BY DEF Init, NoStrandedReply
<1>2. NoStrandedReply /\ [Next]_vars => NoStrandedReply'
  BY StrandedStep
<1> QED BY <1>1, <1>2, PTL DEF SafeSpec

-------------------------------------------------------------------------------
(* The stop flag is looked at only after the close callbacks.                 *)
LEMMA ExitStep == ASSUME NoCloseInFlightAtExit, [Next]_vars PROVE NoCloseInFlightAtExit'
<1>1. CASE UNCHANGED <<lpc, hstate>>
  BY <1>1 DEF NoCloseInFlightAtExit
<1>2. CASE lpc' # "exited"
  BY <1>2 DEF NoCloseInFlightAtExit
<1>3. CASE EndIteration \/ Destroy
  BY <1>3 DEF EndIteration, Destroy, NoCloseInFlightAtExit
<1> QED BY <1>1, <1>2, <1>3
        DEF Next, Terminated, OnConnect, OnRead, OnReadClose, PeerBreaks, OnWrite,
            SenderSends, AppendReply, SenderNotifies, Notify, Dispatched, OnReply,
            SwapReplies, SendReply, OnStop, PcAfterStop, StopFlagAfter, Stop, Polling, tvars, vars

(* When uv_run has returned no close is in flight.                            *)
THEOREM ExitLeavesNoCloseInFlight == SafeSpec => []NoCloseInFlightAtExit
<1>1. Init => NoCloseInFlightAtExit
  BY DEF Init, NoCloseInFlightAtExit
<1>2. NoCloseInFlightAtExit /\ [Next]_vars => NoCloseInFlightAtExit'
  BY ExitStep
<1> QED BY <1>1, <1>2, PTL DEF SafeSpec

-------------------------------------------------------------------------------
(* TableMatchesHandles is inductive together with two facts: connection ids   *)
(* that were not given out have no entry, and the loop thread has ended when  *)
(* the reactor is destroyed.                                                  *)
TableInv ==
    /\ TableMatchesHandles
    /\ \A i \in ConnIds : connCnt <= i => conns[i] = NoHandle
    /\ rpc = "destroyed" => lpc = "exited"

(* The table stays sound: only OnConnect and EndIteration change both an      *)
(* entry and a handle, and each changes them together.                        *)
LEMMA TableStep == ASSUME TypeOK, TableInv, [Next]_vars PROVE TableInv'
<1> USE DEF TableInv, TableMatchesHandles
<1>1. ASSUME NEW h \in Handles, NEW accepted \in BOOLEAN, OnConnect(h, accepted) PROVE TableInv'
  <2>1. connCnt \in ConnIds /\ conns[connCnt] = NoHandle
    BY <1>1, ReactorAssumption DEF OnConnect, TypeOK, ConnIds
  <2>2. rpc # "destroyed" /\ UNCHANGED <<rpc, lpc>>
    BY <1>1 DEF OnConnect, Polling
  <2>3. \A i \in ConnIds : conns'[i] = IF i = connCnt THEN h ELSE conns[i]
    BY <1>1 DEF OnConnect, NextId, TypeOK
  <2>4. \A g \in Handles :
           /\ hconn'[g] = IF g = h THEN connCnt ELSE hconn[g]
           /\ hstate'[g] = IF g # h THEN hstate[g] ELSE IF accepted THEN "open" ELSE "closing"
    BY <1>1 DEF OnConnect, NextId, TypeOK
  <2>5. \A i \in ConnIds : conns[i] # h
    BY <1>1, ReactorAssumption DEF OnConnect
  <2>6. TableMatchesHandles'
    <3>1. ASSUME NEW i \in ConnIds, conns'[i] # NoHandle
          PROVE  hstate'[conns'[i]] \in {"open", "closing"} /\ hconn'[conns'[i]] = i
      BY <2>3, <2>4, <2>5, <3>1 DEF TypeOK
    <3>2. ASSUME NEW g \in Handles, hstate'[g] \in {"open", "closing"}
          PROVE  hconn'[g] \in ConnIds /\ conns'[hconn'[g]] = g
      <4>1. CASE g = h
        BY <2>1, <2>3, <2>4, <4>1
      <4>2. CASE g # h
        <5>1. hconn[g] \in ConnIds /\ conns[hconn[g]] = g
          BY <2>2, <2>4, <3>2, <4>2
        <5>2. hconn[g] # connCnt
          BY <2>1, <5>1, ReactorAssumption
        <5> QED BY <2>3, <2>4, <4>2, <5>1, <5>2
      <4> QED BY <4>1, <4>2
    <3> QED BY <3>1, <3>2
  <2>7. \A i \in ConnIds : connCnt' <= i => conns'[i] = NoHandle
    BY <1>1, <2>1, <2>3 DEF OnConnect, ConnIds
  <2> QED BY <2>2, <2>6, <2>7
<1>2. ASSUME NEW h \in Handles, OnReadClose(h) PROVE TableInv'
  BY <1>2 DEF OnReadClose, Polling, TypeOK
<1>3. ASSUME EndIteration PROVE TableInv'
  <2> DEFINE closed == {h \in Handles : hstate[h] = "closing"}
  <2>1. \A i \in ConnIds : conns'[i] = IF conns[i] \in closed THEN NoHandle ELSE conns[i]
    BY <1>3 DEF EndIteration, Registered
  <2>2. \A h \in Handles : hstate'[h] = IF h \in closed THEN "freed" ELSE hstate[h]
    BY <1>3 DEF EndIteration
  <2>3. UNCHANGED <<connCnt, hconn, rpc>> /\ rpc # "destroyed"
    BY <1>3 DEF EndIteration, Polling
  <2>4. TableMatchesHandles'
    <3>1. ASSUME NEW i \in ConnIds, conns'[i] # NoHandle
          PROVE  hstate'[conns'[i]] \in {"open", "closing"} /\ hconn'[conns'[i]] = i
      BY <2>1, <2>2, <2>3, <3>1 DEF TypeOK
    <3>2. ASSUME NEW g \in Handles, hstate'[g] \in {"open", "closing"}
          PROVE  hconn'[g] \in ConnIds /\ conns'[hconn'[g]] = g
      BY <2>1, <2>2, <2>3, <3>2
    <3> QED BY <3>1, <3>2
  <2> QED BY <2>1, <2>3, <2>4
<1>4. ASSUME Destroy PROVE TableInv'
  BY <1>4 DEF Destroy
<1>5. ASSUME Stop PROVE TableInv'
  BY <1>5 DEF Stop, tvars
<1>6. ASSUME UNCHANGED <<connCnt, conns, hconn, hstate, rpc>>, lpc = "exited" => lpc' = "exited"
      PROVE  TableInv'
  BY <1>6
<1> QED BY <1>1, <1>2, <1>3, <1>4, <1>5, <1>6
        DEF Next, Terminated, OnRead, PeerBreaks, OnWrite, SenderSends, AppendReply,
            SenderNotifies, Notify, Dispatched, OnReply, SwapReplies, SendReply, OnStop,
            PcAfterStop, Polling, tvars, vars

(* The handle that a reply is written to exists and belongs to the connection *)
(* that asked.                                                                *)
THEOREM TableIsSound == SafeSpec => []TableMatchesHandles
<1>1. Init => TableInv
  BY DEF Init, TableInv, TableMatchesHandles
<1>2. TypeOK /\ TableInv /\ [Next]_vars => TableInv'
  BY TableStep
<1>3. TableInv => TableMatchesHandles
  BY DEF TableInv
<1> QED BY <1>1, <1>2, <1>3, TypeCorrect, PTL DEF SafeSpec
================================================================================
