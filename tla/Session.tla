-------------------------------- MODULE Session --------------------------------
(*****************************************************************************)
(* A client's session from its bytes to the bytes it gets back: the reads    *)
(* and parses of RespParser, the batches that on_read dispatches, and the    *)
(* replies of RespReplies that a worker makes of a batch.  Which threads and *)
(* queues are in between is Engine's; here a batch waits until it is run.    *)
(*                                                                           *)
(* The session ends with a parse that fails or with the client's end of file *)
(* or error, and what is under way then is not written any more.             *)
(*****************************************************************************)
EXTENDS RespParser

VARIABLES batches,  \* what has been dispatched and not been run: sequences of commands
          out,      \* the bytes written to the client
          gone      \* on_read has had an end of file or an error

sessionVars == <<vars, batches, out, gone>>

W == INSTANCE RespReplies WITH
         Names <- {}, Lines <- {}, Blobs <- {}, Numbers <- {}, MaxReplies <- 0,
         said <- <<>>

SessionInit ==
    /\ Init
    /\ batches = <<>>
    /\ out = <<>>
    /\ gone = FALSE

Open == ~failed /\ ~gone

(* on_read: the commands that a parse yields are one batch. *)
ReadBytes(n) ==
    /\ ~gone
    /\ OnRead(n)
    /\ batches' = IF got' = got THEN batches
                  ELSE Append(batches, SubSeq(got', Len(got) + 1, Len(got')))
    /\ UNCHANGED <<out, gone>>
ReadSome == \E n \in 1 .. Len(stream) : ReadBytes(n)

(* on_read with an end of file or an error: the handle is closed at once. *)
ClientGoes ==
    /\ Open
    /\ gone' = TRUE
    /\ UNCHANGED <<vars, batches, out>>

(* A batch is run, and its reply is written, or dropped with the connection. *)
ReplyTo(batch) == FlattenSeq([i \in DOMAIN batch |-> W!TaskReply(batch[i][1])])
RunBatch ==
    /\ batches # <<>>
    /\ batches' = Tail(batches)
    /\ out' = IF Open THEN out \o ReplyTo(Head(batches)) ELSE out
    /\ UNCHANGED <<vars, gone>>

Ended ==
    /\ batches = <<>>
    /\ ~Open \/ read = Len(stream)
    /\ UNCHANGED sessionVars

SessionNext == ReadSome \/ ClientGoes \/ RunBatch \/ Ended

(* What is sent is read, what is dispatched is run; the client may stay. *)
SessionSpec ==
    /\ SessionInit /\ [][SessionNext]_sessionVars
    /\ WF_sessionVars(ReadSome) /\ WF_sessionVars(RunBatch)

-------------------------------------------------------------------------------
(* Properties. *)

(* What the client should read for its commands, and whether a reply of one   *)
(* line can say it.                                                           *)
Answer(cmd) ==
    IF W!IsPing(cmd[1]) THEN W!Item("simple", W!Pong)
    ELSE W!Item("error", <<W!Unknown>> \o cmd[1])
Answers(cmds) == [i \in DOMAIN cmds |-> Answer(cmds[i])]
Sayable(cmds) == \A i \in DOMAIN cmds : W!OneLine(Answer(cmds[i]).data)

(* The client can match replies to commands: at any moment it reads one reply *)
(* for each command that has been parsed and run, in order and with the name  *)
(* it sent, whatever the reads and the batches.  Its strings may hold any     *)
(* bytes but for the name of an unknown command: one with an end of line      *)
(* (Sayable) would split the error that quotes it.                            *)
Waiting == Len(FlattenSeq(batches))
RepliesMatch ==
    Sayable(got) =>
        \E reads \in W!ReadAll(out) :
            /\ IsPrefix(reads, Answers(got))
            /\ Len(reads) <= Len(got) - Waiting
            /\ Open => Len(reads) = Len(got) - Waiting

(* A client that sends commands that are right and stays reads an answer to   *)
(* every one of them.                                                         *)
AllAnswered ==
    stream = EncodeAll(meant) /\ Sayable(meant) ~>
        ~Open \/ W!ReadAll(out) = {Answers(meant)}
================================================================================
