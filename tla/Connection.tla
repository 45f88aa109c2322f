------------------------------ MODULE Connection ------------------------------
(*****************************************************************************)
(* One connection (connection.h, connection.cpp) from the bytes a client     *)
(* sends to the batches that are dispatched: libuv's read callbacks, the     *)
(* receive buffer, and the parse that each callback starts anew at the front *)
(* of the buffer.                                                            *)
(*                                                                           *)
(* The client's stream is a sequence of frames.  A frame is a RESP command   *)
(* up to byte end of the stream, or, if err > 0, bytes that the parser       *)
(* rejects as soon as it sees byte err of the stream.  A byte is named by its*)
(* position in the stream.                                                   *)
(*                                                                           *)
(* The buffer's module is extended, as a Connection owns its buffer.  An     *)
(* operator named Op_Variant is a faulty variant of Op, see ReadBuffer.      *)
(*****************************************************************************)
EXTENDS ReadBuffer, Integers

CONSTANTS Streams,    \* what a client may send: sequences of [end, err]
          Suggested   \* the room libuv asks for, 64 KiB

ASSUME StreamAssumption ==
    /\ Suggested \in Nat \ {0}
    /\ Streams \subseteq Seq([end : Nat, err : Nat])
    /\ \A s \in Streams : \A i \in DOMAIN s :
          /\ s[i].end > 0
          /\ s[i].err <= s[i].end
          /\ \A j \in 1 .. i - 1 :
                s[j].end < s[i].end /\ (s[i].err > 0 => s[j].end < s[i].err)

VARIABLES stream,      \* the frames of this client
          received,    \* how many bytes of it libuv has read
          dispatched,  \* how many frames have been dispatched
          cpc,         \* the connection: "idle", "alloc" between on_alloc and
                       \* on_read, "closed"
          why          \* why it was closed

vars == <<bufVars, stream, received, dispatched, cpc, why>>

(* The position of the last byte of frame i, and how many bytes it has. *)
End(i) == IF i = 0 THEN 0 ELSE stream[i].end
Length(i) == End(i) - End(i - 1)
Total == End(Len(stream))

Init ==
    /\ BufInit
    /\ stream \in Streams
    /\ received = 0
    /\ dispatched = 0
    /\ cpc = "idle"
    /\ why = "open"

-------------------------------------------------------------------------------
(* What RespCommandParser::parse returns of a buffer that starts behind frame *)
(* n and ends with byte last of the stream.  How it gets there is in          *)
(* RespParser, which shows that parsing piece by piece gives the same.        *)

(* The frame behind which it stops: those up to it are complete. *)
StopsBehind_OneCommand(n, last) ==
    {m \in n .. Len(stream) : IF m = n THEN m < Len(stream) => last < End(m + 1)
                              ELSE m = n + 1 /\ End(m) <= last}
StopsBehind(n, last) ==
    {m \in n .. Len(stream) : End(m) <= last /\ (m < Len(stream) => last < End(m + 1))}

(* It throws if it sees a wrong byte there, even after complete frames. *)
Rejects_NextOnly(n, last) == n < Len(stream) /\ stream[n + 1].err \in 1 .. last
Rejects(n, last) == \E i \in n + 1 .. Len(stream) : stream[i].err \in 1 .. last

-------------------------------------------------------------------------------
(* on_alloc, called before libuv reads. *)
OnAlloc ==
    /\ cpc = "idle"
    /\ Alloc(Suggested)
    /\ cpc' = "alloc"
    /\ UNCHANGED <<stream, received, dispatched, why>>

(* on_read with the next n bytes of the stream, as many as there is room for. *)
OnRead(n) ==
    LET last == received + n
        bytes == [i \in 1 .. n |-> received + i] IN
    /\ cpc = "alloc"
    /\ n \in 1 .. Room
    /\ last <= Total
    /\ received' = last
    /\ IF Rejects(dispatched, last)
       THEN /\ Fill(bytes, 0)
            /\ cpc' = "closed" /\ why' = "rejected"
            /\ UNCHANGED dispatched
       ELSE /\ \E m \in StopsBehind(dispatched, last) :
                  /\ Fill(bytes, End(m) - End(dispatched))
                  /\ dispatched' = m
            /\ cpc' = "idle"
            /\ UNCHANGED why
    /\ UNCHANGED stream

(* on_read with nothing: libuv found the socket empty after all. *)
OnReadNothing ==
    /\ cpc = "alloc"
    /\ Room > 0
    /\ cpc' = "idle"
    /\ UNCHANGED <<bufVars, stream, received, dispatched, why>>

(* on_read with UV_ENOBUFS, which libuv reports when on_alloc gave no room. *)
OnReadNoBufs_Ignored ==
    /\ cpc = "alloc"
    /\ Room = 0
    /\ cpc' = "idle"
    /\ UNCHANGED <<bufVars, stream, received, dispatched, why>>
OnReadNoBufs ==
    /\ cpc = "alloc"
    /\ Room = 0
    /\ cpc' = "closed" /\ why' = "nobufs"
    /\ UNCHANGED <<bufVars, stream, received, dispatched>>

(* on_read with UV_EOF or an error: the client is gone, at any point. *)
OnReadEof ==
    /\ cpc = "alloc"
    /\ Room > 0
    /\ cpc' = "closed" /\ why' = "eof"
    /\ UNCHANGED <<bufVars, stream, received, dispatched>>

(* A closed connection reads nothing more. *)
Closed == cpc = "closed" /\ UNCHANGED vars

ReadBytes == \E n \in 1 .. MaxSize : OnRead(n)
Next == OnAlloc \/ ReadBytes \/ OnReadNothing \/ OnReadNoBufs \/ OnReadEof \/ Closed

(* libuv keeps reading a readable socket: what the client has sent is read    *)
(* (SF: polls that find nothing come in between), what was asked is answered. *)
Fairness == WF_vars(OnAlloc) /\ SF_vars(ReadBytes) /\ WF_vars(OnReadNoBufs)

Spec == Init /\ [][Next]_vars /\ Fairness

-------------------------------------------------------------------------------
(* Properties. *)

(* The types, and the limits of the buffer: the assertions of read_buffer.cpp *)
(* hold and no configuration of reads outgrows read_buf_max_size.             *)
TypeOK ==
    /\ Sound
    /\ received \in 0 .. Total
    /\ dispatched \in 0 .. Len(stream)
    /\ cpc \in {"idle", "alloc", "closed"}
    /\ why \in {"open", "rejected", "nobufs", "eof"}

(* The buffer is in step with the stream: it starts exactly behind the last   *)
(* dispatched command and holds every byte received since, in order, through  *)
(* all growing, copying and shrinking.                                        *)
InStep ==
    LET start == End(dispatched) IN
    buf = [i \in 1 .. received - start |-> start + i]

(* Only a request that cannot fit is refused for its size: the connection is  *)
(* closed for lack of room only if the next command alone exceeds the limit,  *)
(* however many commands were pipelined before it.                            *)
RefusedOnlyIfTooLarge ==
    why = "nobufs" => dispatched < Len(stream) /\ Length(dispatched + 1) > MaxSize

(* And nothing that fits is refused or stuck: a client whose commands are     *)
(* well-formed and fit has them all dispatched, unless it leaves.             *)
Acceptable == \A i \in DOMAIN stream : stream[i].err = 0 /\ Length(i) <= MaxSize
AllDispatched == Acceptable ~> dispatched = Len(stream) \/ why = "eof"

(* The bounded buffer, its growing, shrinking and refusing cannot be told from*)
(* one without limits: the connection is a CommandStream, whose commands wait *)
(* for nothing but their own bytes, however the stream is cut into reads.     *)
CS == INSTANCE CommandStream WITH MaxLen <- MaxSize
ImplementsCommandStream == CS!Safe

(* ... and it keeps reading: as long as the connection is open and there is   *)
(* more of the stream, more is received, whatever the frames are.             *)
KeepsReading == CS!Reads
================================================================================
