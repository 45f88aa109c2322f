------------------------------- MODULE TaskQueue -------------------------------
(*****************************************************************************)
(* What a pool of workers promises to those that submit to it: every worker  *)
(* is one FIFO queue.  An item, once put, is taken exactly once and in       *)
(* order, for as long as the worker has not halted, and a worker halts only  *)
(* after it has taken a stop marker.  No thread, lock, condition variable or *)
(* local vector is visible here; WorkerPool implements this module.          *)
(*****************************************************************************)
EXTENDS Sequences

CONSTANTS Workers,   \* the workers
          Items,     \* what can be put into a queue, Stop included
          Stop       \* the item that ends a worker

VARIABLES q,         \* q[w]: the items put to w and not taken yet, oldest first
          stopSeen,  \* stopSeen[w]: w has taken a stop marker
          halted     \* halted[w]: w takes nothing any more

vars == <<q, stopSeen, halted>>

Init ==
    /\ q = [w \in Workers |-> <<>>]
    /\ stopSeen = [w \in Workers |-> FALSE]
    /\ halted = [w \in Workers |-> FALSE]

Put(w, item) ==
    /\ q' = [q EXCEPT ![w] = Append(@, item)]
    /\ UNCHANGED <<stopSeen, halted>>

Take(w) ==
    /\ ~halted[w]
    /\ q[w] # <<>>
    /\ q' = [q EXCEPT ![w] = Tail(@)]
    /\ stopSeen' = [stopSeen EXCEPT ![w] = @ \/ Head(q[w]) = Stop]
    /\ UNCHANGED halted

Halt(w) ==
    /\ stopSeen[w]
    /\ ~halted[w]
    /\ halted' = [halted EXCEPT ![w] = TRUE]
    /\ UNCHANGED <<q, stopSeen>>

Next == \E w \in Workers : (\E item \in Items : Put(w, item)) \/ Take(w) \/ Halt(w)

(* The safety part of the promise: order, no loss, no duplicate, no early halt. *)
Safe == Init /\ [][Next]_vars

(* With the progress part: a worker that has not halted serves its queue. *)
Spec == Safe /\ \A w \in Workers : WF_vars(Take(w)) /\ WF_vars(Halt(w))
================================================================================
