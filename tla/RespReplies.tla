------------------------------ MODULE RespReplies ------------------------------
(*****************************************************************************)
(* From commands to the bytes of their replies (resp.h, resp.cpp,            *)
(* ping_task.cpp, unknown_task.cpp, the loop of _run_batch_task in           *)
(* worker.cpp): a task is created by the command's name, its output is built *)
(* with RespReplyBuilder, and the outputs of a batch are one string.         *)
(*                                                                           *)
(* The reader of the replies, a RESP client, is not part of the repository:  *)
(* it is what the formats noted in resp.h mean.  The one byte Unknown stands *)
(* for the words before the name in the error of an unknown command.         *)
(*                                                                           *)
(* An operator named Op_Variant is a faulty variant of Op that the model     *)
(* checker must tell from Op; nothing else refers to it.                     *)
(*****************************************************************************)
EXTENDS RespBytes

CONSTANTS Names,      \* names of commands, as the parser yields them: any bytes
          Lines,      \* arguments of append_simple_string and append_error
          Blobs,      \* arguments of append_bulk_string
          Numbers,    \* arguments of append_integer and append_array
          MaxReplies  \* bound: replies in one string

ASSUME RepliesAssumption ==
    /\ Names \cup Lines \cup Blobs \subseteq Seq(Nat)
    /\ Numbers \subseteq Int

Plus == 43
Minus == 45
Colon == 58
Unknown == 63
Crlf == <<CR, LF>>

Ping == <<112, 105, 110, 103>>
Pong == <<80, 79, 78, 71>>
OK == <<79, 75>>

VARIABLES said,  \* what was meant: the replies, as [kind, data]
          out    \* the bytes

vars == <<said, out>>

Item(kind, data) == [kind |-> kind, data |-> data]

-------------------------------------------------------------------------------
(* The builder. *)

(* std::to_string. *)
ToText(n) == IF n < 0 THEN <<Minus>> \o Decimal(-n) ELSE Decimal(n)

(* _append_string, and append_bulk_string. *)
Line(type, str) == <<type>> \o str \o Crlf
Bulk_WholeLength(str) == Line(Dollar, ToText(Len(str) + 2)) \o str \o Crlf
Bulk(str) == Line(Dollar, ToText(Len(str))) \o str \o Crlf
NilBulk == Line(Dollar, <<Minus, Zero + 1>>)

-------------------------------------------------------------------------------
(* RespTaskCreator and the tasks. *)

(* str::to_lower, on ASCII letters. *)
ToLower(str) ==
    [i \in DOMAIN str |-> IF str[i] \in 65 .. 90 THEN str[i] + 32 ELSE str[i]]

(* The tasks that _creators knows. *)
Known_AsTyped(name) == name = Ping
Known(name) == ToLower(name) = Ping

(* What run and to_resp_reply give for a command. *)
TaskReply(name) ==
    IF Known(name) THEN Line(Plus, Pong) ELSE Line(Minus, <<Unknown>> \o name)

-------------------------------------------------------------------------------
Init == said = <<>> /\ out = <<>>

Append_(item, bytes) ==
    /\ Len(said) < MaxReplies
    /\ said' = Append(said, item)
    /\ out' = out \o bytes

AppendOk == Append_(Item("simple", OK), Line(Plus, OK))
AppendSimpleString(str) == Append_(Item("simple", str), Line(Plus, str))
AppendError(err) == Append_(Item("error", err), Line(Minus, err))
AppendInteger(n) == Append_(Item("integer", n), Line(Colon, ToText(n)))
AppendBulkString(str) == Append_(Item("bulk", str), Bulk(str))
AppendNil == Append_(Item("nil", 0), NilBulk)
AppendArray(n) == Append_(Item("array", n), Line(Star, ToText(n)))

(* A command of the batch: ping, in upper and lower case alike, or unknown. *)
IsPing(name) ==
    /\ Len(name) = Len(Ping)
    /\ \A i \in DOMAIN name : name[i] \in {Ping[i], Ping[i] - 32}
RunTask(name) ==
    Append_(IF IsPing(name) THEN Item("simple", Pong) ELSE Item("error", <<Unknown>> \o name),
            TaskReply(name))

Full == Len(said) = MaxReplies /\ UNCHANGED vars

Next ==
    \/ \E name \in Names : RunTask(name)
    \/ \E str \in Lines : AppendSimpleString(str) \/ AppendError(str)
    \/ \E str \in Blobs : AppendBulkString(str)
    \/ \E n \in Numbers : AppendInteger(n) \/ AppendArray(n)
    \/ AppendOk \/ AppendNil
    \/ Full

Spec == Init /\ [][Next]_vars

-------------------------------------------------------------------------------
(* The client that reads s.  What can be read at position p is a set of at    *)
(* most one item with the position behind it.                                 *)

Ends(s, q) == s[q] = CR /\ s[q + 1] = LF
LineEnd(s, p) ==
    {q \in p .. Len(s) - 1 : Ends(s, q) /\ \A r \in p .. q - 1 : ~Ends(s, r)}

Kinds ==
    [type \in {Plus, Minus, Colon, Star} |->
        CASE type = Plus -> "simple" [] type = Minus -> "error"
          [] type = Colon -> "integer" [] type = Star -> "array"]
FromText(t) == IF t[1] = Minus THEN -ValueOf(Tail(t)) ELSE ValueOf(t)

ReadLine(s, p) ==
    {[item |-> Item(Kinds[s[p]], IF s[p] \in {Plus, Minus}
                                 THEN SubSeq(s, p + 1, q - 1)
                                 ELSE FromText(SubSeq(s, p + 1, q - 1))),
      next |-> q + 2] : q \in LineEnd(s, p + 1)}
ReadBulk(s, p) ==
    UNION {LET n == FromText(SubSeq(s, p + 1, q - 1)) IN
           IF n = -1 THEN {[item |-> Item("nil", 0), next |-> q + 2]}
           ELSE {[item |-> Item("bulk", SubSeq(s, q + 2, q + 1 + n)), next |-> q + 4 + n] :
                    x \in {x \in {q} : n \in 0 .. Len(s) - q - 3 /\ Ends(s, q + 2 + n)}} :
           q \in LineEnd(s, p + 1)}
ReadItem(s, p) ==
    IF p > Len(s) THEN {}
    ELSE IF s[p] = Dollar THEN ReadBulk(s, p)
    ELSE IF s[p] \in DOMAIN Kinds THEN ReadLine(s, p) ELSE {}

(* All that can be read of s. *)
ReadAll(s) ==
    LET from[p \in Nat] ==
            IF ReadItem(s, p) = {} THEN {<<>>}
            ELSE UNION {{<<r.item>> \o rest : rest \in from[r.next]} : r \in ReadItem(s, p)}
    IN  from[1]

-------------------------------------------------------------------------------
(* Properties. *)

(* No line that was meant as one holds an end of line: the code does not      *)
(* escape one, and what a client then reads is not what was meant.            *)
OneLine(str) == \A i \in 1 .. Len(str) - 1 : ~Ends(str, i)
Clean == \A i \in DOMAIN said : said[i].kind \in {"simple", "error"} => OneLine(said[i].data)

(* A client reads back what was meant: one reply per command, in order and    *)
(* with its data, any bytes in a bulk string included; and when only a part   *)
(* of the bytes has arrived, nothing but a part of the replies.               *)
ReadsBack ==
    Clean => /\ ReadAll(out) = {said}
             /\ \A k \in 1 .. Len(out) :
                   \A reads \in ReadAll(SubSeq(out, 1, k)) : IsPrefix(reads, said)
================================================================================
