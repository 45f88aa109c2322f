-------------------------------- MODULE Service --------------------------------
(*****************************************************************************)
(* What the engine promises to its clients, and nothing of how: the commands *)
(* of a client are answered to that client, each once and in the order they  *)
(* were asked, for as long as the connection is open.  Reactor, worker pool, *)
(* batches and replies are not visible; Engine implements this module.       *)
(*****************************************************************************)
EXTENDS Naturals, Sequences

CONSTANT Clients

VARIABLES state,     \* state[h]: the connection of h is not there yet, open or gone
          asked,     \* asked[h]: the commands of h the engine has read
          answered   \* answered[h]: the answers written to h, named by their commands

vars == <<state, asked, answered>>

(* The n-th command of client h; an answer is named by the command it answers. *)
Cmd(h, n) == [peer |-> h, n |-> n]

Init ==
    /\ state = [h \in Clients |-> "none"]
    /\ asked = [h \in Clients |-> 0]
    /\ answered = [h \in Clients |-> <<>>]

Arrive(h) ==
    /\ state[h] = "none"
    /\ \E s \in {"open", "gone"} : state' = [state EXCEPT ![h] = s]
    /\ UNCHANGED <<asked, answered>>

(* What a client sent before it went may still be read. *)
Ask(h) ==
    /\ state[h] # "none"
    /\ asked'[h] \in Nat /\ asked'[h] > asked[h]
    /\ asked' = [asked EXCEPT ![h] = asked'[h]]
    /\ UNCHANGED <<state, answered>>

(* The next answers, several at once when their commands were read at once. *)
Answer(h) ==
    LET done == Len(answered[h]) IN
    /\ state[h] = "open"
    /\ \E k \in 1 .. asked[h] - done :
          answered' = [answered EXCEPT ![h] = @ \o [i \in 1 .. k |-> Cmd(h, done + i)]]
    /\ UNCHANGED <<state, asked>>

(* Any number of connections may go together: the engine stops. *)
Leave ==
    /\ \E gone \in SUBSET {h \in Clients : state[h] = "open"} :
          state' = [h \in Clients |-> IF h \in gone THEN "gone" ELSE state[h]]
    /\ UNCHANGED <<asked, answered>>

Next == Leave \/ \E h \in Clients : Arrive(h) \/ Ask(h) \/ Answer(h)

(* Each answer goes to the client that asked, once and in order. *)
Safe == Init /\ [][Next]_vars

(* And no command of a client that stays is left unanswered. *)
Spec == Safe /\ \A h \in Clients : WF_vars(Answer(h))
================================================================================
