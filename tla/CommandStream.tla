----------------------------- MODULE CommandStream -----------------------------
(*****************************************************************************)
(* What a connection makes of a client's bytes, and nothing of how: there is *)
(* no buffer, no parser and no remainder to be parsed again.  The stream is a*)
(* sequence of frames, each a command up to byte end of the stream or, if    *)
(* err > 0, bytes that byte err of the stream shows to be wrong.  After each *)
(* read the commands that have arrived in full are dispatched, so it does not*)
(* matter how the stream is cut into reads; with one exception, which the    *)
(* code makes: the read that reveals a wrong byte dispatches nothing, not    *)
(* even the complete commands before it.                                     *)
(*                                                                           *)
(* Connection implements this module with a bounded buffer, RespParser with  *)
(* a parse of real bytes that starts anew at every read.                     *)
(*****************************************************************************)
EXTENDS Integers, Sequences

CONSTANT MaxLen   \* the longest command a connection must accept

VARIABLES stream,      \* the frames
          received,    \* how many of the bytes have been read
          dispatched,  \* how many of the commands have been dispatched
          why          \* "open", or why the connection was closed

vars == <<stream, received, dispatched, why>>

(* The position of the last byte of frame i. *)
End(i) == IF i = 0 THEN 0 ELSE stream[i].end
Length(i) == End(i) - End(i - 1)

(* What the first n bytes hold: that many whole frames, a wrong byte. *)
CommandsIn(n) ==
    {m \in 0 .. Len(stream) : End(m) <= n /\ (m < Len(stream) => n < End(m + 1))}
WrongIn(n) == \E i \in DOMAIN stream : stream[i].err \in 1 .. n

Init ==
    /\ received = 0
    /\ dispatched = 0
    /\ why = "open"

(* The next bytes, any number of them. *)
Receive ==
    /\ why = "open"
    /\ received' \in received + 1 .. End(Len(stream))
    /\ IF WrongIn(received')
       THEN why' = "rejected" /\ UNCHANGED dispatched
       ELSE dispatched' \in CommandsIn(received') /\ UNCHANGED why
    /\ UNCHANGED stream

(* The next command is too long. *)
Refuse ==
    /\ why = "open"
    /\ dispatched < Len(stream) /\ Length(dispatched + 1) > MaxLen
    /\ why' = "nobufs"
    /\ UNCHANGED <<stream, received, dispatched>>

(* The client goes. *)
Leave ==
    /\ why = "open"
    /\ why' = "eof"
    /\ UNCHANGED <<stream, received, dispatched>>

Next == Receive \/ Refuse \/ Leave

Safe == Init /\ [][Next]_vars

(* What is sent is read, unless the connection is closed. *)
Reads == WF_vars(Receive)
================================================================================
