------------------------------ MODULE RespParser ------------------------------
(*****************************************************************************)
(* The RESP request parser (resp.h, resp.cpp) and how on_read uses it: the   *)
(* bytes of a client arrive in pieces of any size, each piece starts a parse *)
(* of the whole buffer, and the bytes of complete commands are taken out.    *)
(* Session has the specification whose reads these are.                      *)
(*                                                                           *)
(* A command is the sequence of its name and its arguments, each a sequence  *)
(* of bytes.  Numbers are small enough for a size_t, so that std::from_chars *)
(* and len + 2 do not overflow.                                              *)
(*                                                                           *)
(* An operator named Op_Variant is a faulty variant of Op, see Connection.   *)
(*****************************************************************************)
EXTENDS RespBytes

CONSTANTS Commands,   \* commands a client sends: non-empty sequences of byte sequences
          MaxSent,    \* bound: commands in one stream
          Bytes       \* bytes that a broken client sends in the place of a right one

ASSUME BytesAssumption ==
    /\ \A cmd \in Commands : cmd \in Seq(Seq(Nat)) /\ cmd # <<>>
    /\ Bytes \subseteq Nat

VARIABLES meant,   \* the commands the client meant to send
          stream,  \* the bytes it sends: their encoding, perhaps with one wrong byte
          read,    \* how many bytes have been read
          buf,     \* the bytes in the receive buffer
          got,     \* the commands parsed so far
          failed,  \* a parse threw, the connection is closed
          frames   \* history: what the parser makes of the whole stream at once

vars == <<meant, stream, read, buf, got, failed, frames>>

-------------------------------------------------------------------------------
(* The parser.  What can be parsed at position p of s is a set of at most one *)
(* result: its value v and the position p behind it.  It is empty when bytes  *)
(* are missing, and when an Error is thrown; a predicate says which.          *)

(* The number that std::from_chars reads from s[p .. q]. *)
Number(s, p, q) == ValueOf(SubSeq(s, p, q))
AllDigits(s, p, q) == \A i \in p .. q : s[i] \in Digit

(* CR and LF at position p. *)
CrLf_CrOnly(s, p) == s[p] = CR
CrLf(s, p) == s[p] = CR /\ s[p + 1] = LF

(* _parse_num: c, digits up to position e, CR LF. *)
NumberAt(c, s, p) ==
    {[v |-> Number(s, p + 1, e - 1), p |-> e + 2] :
        e \in {q \in p + 2 .. Len(s) - 1 :
                  s[p] = c /\ CrLf(s, q) /\ AllDigits(s, p + 1, q - 1)}}
NoNumberAt_Hasty(c, s, p) ==
    /\ p <= Len(s)
    /\ \/ s[p] # c
       \/ \E e \in p + 1 .. Len(s) :
             /\ s[e] \notin Digit /\ AllDigits(s, p + 1, e - 1)
             /\ e = p + 1 \/ e = Len(s) \/ ~CrLf(s, e)
NoNumberAt(c, s, p) ==
    /\ p <= Len(s)
    /\ \/ s[p] # c
       \/ \E e \in p + 1 .. Len(s) :
             /\ s[e] \notin Digit /\ AllDigits(s, p + 1, e - 1)
             /\ e = p + 1 \/ (e < Len(s) /\ ~CrLf(s, e))

(* _parse_argv: $len CR LF, len bytes of any kind, CR LF. *)
EnoughForArg_Late(s, p, len) == Len(s) + 1 - p > len + 2
EnoughForArg(s, p, len) == Len(s) + 1 - p >= len + 2
ArgLengthAt(s, p) == {len \in NumberAt(Dollar, s, p) : EnoughForArg(s, len.p, len.v)}
ArgAt(s, p) ==
    {[v |-> SubSeq(s, len.p, len.p + len.v - 1), p |-> len.p + len.v + 2] :
        len \in {l \in ArgLengthAt(s, p) : CrLf(s, l.p + l.v)}}
NoArgAt(s, p) ==
    NoNumberAt(Dollar, s, p) \/ \E len \in ArgLengthAt(s, p) : ~CrLf(s, len.p + len.v)

(* The first k strings of a command, the name among them. *)
ArgsAt(s, p, k) ==
    LET args[j \in Nat] ==
            IF j = 0 THEN {[v |-> <<>>, p |-> p]}
            ELSE UNION {{[v |-> Append(before.v, arg.v), p |-> arg.p] :
                            arg \in ArgAt(s, before.p)} : before \in args[j - 1]}
    IN  args[k]

(* The body of the loop of RespCommandParser::parse: a count above zero and   *)
(* that many strings.                                                         *)
CommandAt(s, p) ==
    UNION {ArgsAt(s, argc.p, argc.v) : argc \in {n \in NumberAt(Star, s, p) : n.v > 0}}
NoCommandAt(s, p) ==
    \/ NoNumberAt(Star, s, p)
    \/ \E argc \in NumberAt(Star, s, p) :
          \/ argc.v = 0
          \/ \E k \in 0 .. argc.v - 1 :
                \E before \in ArgsAt(s, argc.p, k) : NoArgAt(s, before.p)

(* RespCommandParser::parse: the complete commands at the front.              *)
CommandsOf(s) ==
    LET from[p \in Nat] ==
            IF CommandAt(s, p) = {} THEN {[v |-> <<>>, p |-> p]}
            ELSE UNION {{[v |-> <<c.v>> \o rest.v, p |-> rest.p] : rest \in from[c.p]} :
                           c \in CommandAt(s, p)}
    IN  from[1]

-------------------------------------------------------------------------------
(* The client, and the reads. *)

(* What a client sends for a string, for a command, and for some commands. *)
EncodeArg(a) == <<Dollar>> \o Decimal(Len(a)) \o <<CR, LF>> \o a \o <<CR, LF>>
Encode(cmd) ==
    <<Star>> \o Decimal(Len(cmd)) \o <<CR, LF>> \o
    FlattenSeq([i \in DOMAIN cmd |-> EncodeArg(cmd[i])])
EncodeAll(cmds) == FlattenSeq([i \in DOMAIN cmds |-> Encode(cmds[i])])

(* The stream as CommandStream's frames, by a parse of all of it: complete    *)
(* commands, then perhaps one that is wrong or lacks bytes.                   *)
WrongFrom(s, p, q) == NoCommandAt(SubSeq(s, 1, q), p)
LastFrame(s, p) ==
    IF p > Len(s) THEN <<>>
    ELSE IF NoCommandAt(s, p)
    THEN <<[end |-> Len(s),
            err |-> CHOOSE q \in p .. Len(s) :
                        WrongFrom(s, p, q) /\ \A j \in p .. q - 1 : ~WrongFrom(s, p, j)]>>
    ELSE <<[end |-> Len(s) + 1, err |-> 0]>>
FramesOf(s) ==
    LET from[p \in Nat] ==
            IF CommandAt(s, p) = {} THEN {LastFrame(s, p)}
            ELSE UNION {{<<[end |-> c.p - 1, err |-> 0]>> \o rest : rest \in from[c.p]} :
                           c \in CommandAt(s, p)}
    IN  from[1]

Init ==
    /\ meant \in UNION {[1 .. n -> Commands] : n \in 1 .. MaxSent}
    /\ \E right \in {EncodeAll(meant)} :
          stream \in {right} \cup {[right EXCEPT ![i] = b] : i \in DOMAIN right, b \in Bytes}
    /\ read = 0
    /\ buf = <<>>
    /\ got = <<>>
    /\ failed = FALSE
    /\ frames \in FramesOf(stream)

(* on_read with the next n bytes. *)
Kept_Front(s, p) == SubSeq(s, 1, Len(s) + 1 - p)
Kept(s, p) == SubSeq(s, p, Len(s))
OnRead(n) ==
    /\ ~failed
    /\ read + n <= Len(stream)
    /\ read' = read + n
    /\ \E all \in {buf \o SubSeq(stream, read + 1, read + n)} :
       \E parsed \in CommandsOf(all) :
          IF NoCommandAt(all, parsed.p)   \* parse throws, whatever it has parsed
          THEN failed' = TRUE /\ buf' = all /\ UNCHANGED got
          ELSE /\ buf' = Kept(all, parsed.p)
               /\ got' = got \o parsed.v
               /\ UNCHANGED failed
    /\ UNCHANGED <<meant, stream, frames>>

-------------------------------------------------------------------------------
(* Properties. *)

(* The types.  What is kept is what was read last.                            *)
TypeOK ==
    /\ read \in 0 .. Len(stream)
    /\ buf = SubSeq(stream, read - Len(buf) + 1, read)
    /\ failed \in BOOLEAN

(* A well-formed stream is understood however it is cut into reads: after     *)
(* each read exactly the commands that have arrived in full are there, once,  *)
(* in order and with their bytes, delimiters inside strings included, and no  *)
(* read fails.                                                                *)
Understood ==
    stream = EncodeAll(meant) =>
        /\ ~failed
        /\ \E n \in 0 .. Len(meant) :
              /\ got = SubSeq(meant, 1, n)
              /\ Len(EncodeAll(got)) <= read
              /\ n < Len(meant) => read < Len(EncodeAll(SubSeq(meant, 1, n + 1)))

(* A stream with a wrong byte is never taken for something it does not say:   *)
(* what was parsed and what is kept encode together what was read.  Which     *)
(* bytes a number stands for is certain unless it has leading zeros.          *)
OneForm(s) ==
    \A c \in {Star, Dollar}, p \in DOMAIN s :
        \A n \in NumberAt(c, s, p) : n.p > p + 4 => s[p + 1] # Zero
NothingInvented ==
    OneForm(stream) => EncodeAll(got) \o buf = SubSeq(stream, 1, read)

(* It does not matter how a stream is cut, right or wrong: parsing anew at    *)
(* every read, from what the last one left, finds the commands and the wrong  *)
(* byte that a parse of the whole stream finds, each as soon as it is there.  *)
CS == INSTANCE CommandStream WITH
          MaxLen <- 0,
          stream <- frames, received <- read, dispatched <- Len(got),
          why <- IF failed THEN "rejected" ELSE "open"
ImplementsCommandStream == CS!Safe
================================================================================
