--------------------------- MODULE RespRepliesProofs ---------------------------
(*****************************************************************************)
(* A client reads back from the bytes of RespReplyBuilder the replies that   *)
(* were meant, for any strings and numbers and any number of replies.        *)
(*                                                                           *)
(* The builder's bytes of one reply, and nothing less, are read as that      *)
(* reply and up to the end of these bytes (ItemReads). What is read at a     *)
(* position does not change when there are bytes before it or more bytes     *)
(* behind it (ItemGrows), and is unique (ItemUnique). So in a string of      *)
(* replies each is read at its place, and in a part of the string those that *)
(* lie in it entirely (PrefixReads); the invariant, ReplyInv, says that the  *)
(* builder's string is made of the bytes of the replies meant.               *)
(*****************************************************************************)
EXTENDS RespReplies, RespBytesProofs

-------------------------------------------------------------------------------
(* What is meant.                                                             *)

(* What can be meant: a kind, with any string or number that goes with it.    *)
Items ==
    [kind : {"simple", "error", "bulk"}, data : Seq(Nat)]
        \cup [kind : {"integer", "array"}, data : Int] \cup {Item("nil", 0)}

(* The bytes that the builder's operation for an item appends.                *)
BytesOf(item) ==
    CASE item.kind = "simple" -> Line(Plus, item.data)
      [] item.kind = "error" -> Line(Minus, item.data)
      [] item.kind = "integer" -> Line(Colon, ToText(item.data))
      [] item.kind = "array" -> Line(Star, ToText(item.data))
      [] item.kind = "bulk" -> Bulk(item.data)
      [] item.kind = "nil" -> NilBulk

(* An item that can be read back: no end of line inside a line.               *)
Readable(item) == item.kind \in {"simple", "error"} => OneLine(item.data)

-------------------------------------------------------------------------------
(* The bytes of lines.                                                        *)

(* The types and delimiters as the numbers they are.                          *)
LEMMA BytesAre ==
    /\ Plus = 43 /\ Minus = 45 /\ Colon = 58 /\ Dollar = 36 /\ Star = 42 /\ CR = 13 /\ LF = 10
    /\ Zero = 48
    /\ Digit = 48 .. 57
BY DEF Plus, Minus, Colon, Dollar, Star, CR, LF, Zero, Digit

(* The kinds of the types that a line begins with.                            *)
LEMMA KindsAre ==
    /\ DOMAIN Kinds = {Plus, Minus, Colon, Star}
    /\ Kinds[Plus] = "simple" /\ Kinds[Minus] = "error" /\ Kinds[Colon] = "integer"
    /\ Kinds[Star] = "array"
BY BytesAre DEF Kinds

(* A line byte by byte: its type, its text, an end of line.                   *)
LEMMA LineIs ==
    ASSUME NEW type \in Nat, NEW str \in Seq(Nat)
    PROVE  /\ Line(type, str) \in Seq(Nat) /\ Len(Line(type, str)) = Len(str) + 3
           /\ Line(type, str)[1] = type
           /\ Line(type, str)[Len(str) + 2] = CR /\ Line(type, str)[Len(str) + 3] = LF
           /\ InWindow(str, Line(type, str), 1)
<1>. DEFINE a == <<type>> \o str
            e == a \o Crlf
<1>1. <<type>> \in Seq(Nat) /\ Len(<<type>>) = 1 /\ <<type>>[1] = type /\ Len(str) \in Nat
  OBVIOUS
<1>2. Crlf \in Seq(Nat) /\ Len(Crlf) = 2 /\ Crlf[1] = CR /\ Crlf[2] = LF
  BY BytesAre DEF Crlf
<1>3. a \in Seq(Nat) /\ Len(a) = 1 + Len(str) /\ InWindow(<<type>>, a, 0) /\ InWindow(str, a, 1)
  BY <1>1, ConcatWindows
<1>. HIDE DEF a
<1>4. e \in Seq(Nat) /\ Len(e) = Len(a) + 2 /\ InWindow(a, e, 0) /\ InWindow(Crlf, e, Len(a))
  BY <1>2, <1>3, ConcatWindows
<1>5. Line(type, str) = e
  BY DEF Line, a
<1>. HIDE DEF e
<1>6. InWindow(<<type>>, e, 0 + 0) /\ InWindow(str, e, 1 + 0)
  BY <1>1, <1>3, <1>4, WindowInWindow
<1>7. e[1] = type
  <2>1. 1 \in 1 .. Len(<<type>>) /\ 1 + (0 + 0) = 1
    BY <1>1
  <2>2. <<type>>[1] = e[1 + (0 + 0)]
    BY <1>6, <2>1 DEF InWindow
  <2>. QED
    BY <1>1, <2>1, <2>2
<1>8. e[Len(str) + 2] = CR /\ e[Len(str) + 3] = LF
  <2>1. 1 \in 1 .. Len(Crlf) /\ 2 \in 1 .. Len(Crlf) /\ 1 + Len(a) = Len(str) + 2
        /\ 2 + Len(a) = Len(str) + 3
    BY <1>1, <1>2, <1>3
  <2>2. Crlf[1] = e[1 + Len(a)] /\ Crlf[2] = e[2 + Len(a)]
    BY <1>4, <2>1 DEF InWindow
  <2>. QED
    BY <1>2, <2>1, <2>2
<1>9. Len(e) = Len(str) + 3 /\ 1 + 0 = 1
  BY <1>1, <1>3, <1>4
<1>. QED
  BY <1>4, <1>5, <1>6, <1>7, <1>8, <1>9

(* A reader finds the end of a line whose text holds none.                    *)
LEMMA LineEnds ==
    ASSUME NEW type \in Nat, NEW str \in Seq(Nat), OneLine(str)
    PROVE  LineEnd(Line(type, str), 2) = {Len(str) + 2}
<1>. DEFINE e == Line(type, str)
            n == Len(str)
<1>1. /\ e \in Seq(Nat) /\ Len(e) = n + 3 /\ e[n + 2] = CR /\ e[n + 3] = LF /\ InWindow(str, e, 1)
      /\ n \in Nat
  <2>1. n \in Nat
    OBVIOUS
  <2>2. \A u \in Nat, w \in Seq(Nat) :
           /\ Line(u, w) \in Seq(Nat) /\ Len(Line(u, w)) = Len(w) + 3
           /\ Line(u, w)[Len(w) + 2] = CR /\ Line(u, w)[Len(w) + 3] = LF
           /\ InWindow(w, Line(u, w), 1)
    BY LineIs
  <2>. QED
    BY ONLY <2>1, <2>2, type \in Nat, str \in Seq(Nat), Zenon
<1>. HIDE DEF e
<1>2. ASSUME NEW r \in 2 .. n + 1 PROVE ~Ends(e, r)
  <2>1. CASE r = n + 1
    <3>1. e[r + 1] = CR /\ CR # LF
      <4>1. r + 1 = n + 2
        BY <1>1, <2>1
      <4>. QED
        BY <1>1, <4>1, BytesAre
    <3>. QED
      BY <3>1 DEF Ends
  <2>2. CASE r # n + 1
    <3>1. r - 1 \in 1 .. n /\ r \in 1 .. n /\ r - 1 \in 1 .. n - 1 /\ (r - 1) + 1 = r
      BY <1>1, <2>2
    <3>2. str[r - 1] = e[(r - 1) + 1] /\ str[r] = e[r + 1]
      BY <1>1, <3>1 DEF InWindow
    <3>3. ~Ends(str, r - 1)
      BY <3>1 DEF OneLine
    <3>. QED
      BY <3>1, <3>2, <3>3 DEF Ends
  <2>. QED
    BY <2>1, <2>2
<1>3. Ends(e, n + 2)
  <2>1. (n + 2) + 1 = n + 3
    BY <1>1
  <2>. QED
    BY <1>1, <2>1 DEF Ends
<1>4. n + 2 \in 2 .. Len(e) - 1 /\ \A r \in 2 .. (n + 2) - 1 : r \in 2 .. n + 1
  BY <1>1
<1>5. n + 2 \in LineEnd(e, 2)
  BY <1>2, <1>3, <1>4 DEF LineEnd
<1>6. ASSUME NEW q \in LineEnd(e, 2) PROVE q = n + 2
  <2>1. q \in 2 .. Len(e) - 1 /\ Ends(e, q)
    BY DEF LineEnd
  <2>2. q \in 2 .. n + 2
    BY <1>1, <2>1
  <2>. QED
    BY <1>1, <1>2, <2>1, <2>2
<1>. QED
  BY <1>5, <1>6 DEF e

(* A number's text holds no end of line and is read as the number.            *)
LEMMA TextIs ==
    ASSUME NEW n \in Int
    PROVE  /\ ToText(n) \in Seq(Nat) /\ Len(ToText(n)) > 0 /\ OneLine(ToText(n))
           /\ FromText(ToText(n)) = n
<1>1. ASSUME NEW k \in Nat
      PROVE  /\ Decimal(k) \in Seq(Nat) /\ Len(Decimal(k)) \in Nat \ {0} /\ ValueOf(Decimal(k)) = k
             /\ \A i \in 1 .. Len(Decimal(k)) : Decimal(k)[i] \in Digit
  <2>1. Decimal(k) \in Seq(Digit) /\ Len(Decimal(k)) > 0 /\ ValueOf(Decimal(k)) = k
    BY DecimalIs
  <2>2. Decimal(k) \in Seq(Nat)
    BY DecimalTyped
  <2>. QED
    BY <2>1, <2>2
<1>2. CASE n < 0
  <2>. DEFINE d == Decimal(-n)
              t == <<Minus>> \o d
  <2>1. -n \in Nat /\ -(-n) = n
    BY <1>2
  <2>2. d \in Seq(Nat) /\ Len(d) \in Nat \ {0} /\ ValueOf(d) = -n
        /\ \A i \in 1 .. Len(d) : d[i] \in Digit
    BY <1>1, <2>1
  <2>. HIDE DEF d
  <2>3. <<Minus>> \in Seq(Nat) /\ Len(<<Minus>>) = 1 /\ <<Minus>>[1] = Minus
    BY BytesAre
  <2>4. /\ t \in Seq(Nat) /\ Len(t) = 1 + Len(d)
        /\ \A i \in 1 .. 1 + Len(d) : t[i] = IF i <= 1 THEN <<Minus>>[i] ELSE d[i - 1]
    BY ONLY <2>2, <2>3, ConcatProperties
  <2>5. t[1] = Minus
    BY <2>2, <2>3, <2>4
  <2>6. ASSUME NEW i \in 1 .. Len(t) PROVE t[i] # CR
    <3>1. CASE i = 1
      BY <2>5, <3>1, BytesAre
    <3>2. CASE i # 1
      <4>1. i - 1 \in 1 .. Len(d) /\ t[i] = d[i - 1]
        BY <2>2, <2>4, <3>2
      <4>2. d[i - 1] \in Digit /\ CR \notin Digit
        BY <2>2, <4>1, BytesAre
      <4>. QED
        BY ONLY <4>1, <4>2
    <3>. QED
      BY <3>1, <3>2
  <2>7. Tail(t) = d
    <3>1. Tail(t) = [i \in 1 .. Len(t) - 1 |-> t[i + 1]]
      BY <2>4
    <3>2. ASSUME NEW i \in 1 .. Len(d) PROVE t[i + 1] = d[i]
      BY <2>2, <2>4
    <3>3. Len(t) - 1 = Len(d) /\ d = [i \in 1 .. Len(d) |-> d[i]]
      BY <2>2, <2>4
    <3>. QED
      BY ONLY <3>1, <3>2, <3>3
  <2>8. OneLine(t)
    <3>1. \A i \in 1 .. Len(t) - 1 : i \in 1 .. Len(t)
      BY <2>4
    <3>. QED
      BY <2>6, <3>1 DEF OneLine, Ends
  <2>9. ToText(n) = t
    BY <1>2 DEF ToText, d
  <2>. HIDE DEF t
  <2>10. FromText(t) = n
    BY <2>1, <2>2, <2>5, <2>7 DEF FromText
  <2>. QED
    BY <2>2, <2>4, <2>8, <2>9, <2>10
<1>3. CASE ~(n < 0)
  <2>. DEFINE d == Decimal(n)
  <2>1. d \in Seq(Nat) /\ Len(d) \in Nat \ {0} /\ ValueOf(d) = n
        /\ \A i \in 1 .. Len(d) : d[i] \in Digit
    BY <1>1, <1>3
  <2>2. ToText(n) = d
    BY <1>3 DEF ToText
  <2>. HIDE DEF d
  <2>3. \A i \in 1 .. Len(d) : d[i] # CR /\ d[i] # Minus
    BY <2>1, BytesAre, SMTT(30)
  <2>4. OneLine(d)
    <3>1. \A i \in 1 .. Len(d) - 1 : i \in 1 .. Len(d)
      BY <2>1
    <3>. QED
      BY <2>3, <3>1 DEF OneLine, Ends
  <2>5. FromText(d) = n
    <3>1. 1 \in 1 .. Len(d)
      BY <2>1
    <3>. QED
      BY <2>1, <2>3, <3>1 DEF FromText
  <2>. QED
    BY <2>1, <2>2, <2>4, <2>5
<1>. QED
  BY <1>2, <1>3

-------------------------------------------------------------------------------
(* What is read at a position.                                                *)

(* r is what ReadLine reads in s from p, with the line's end at q.            *)
LineRead(s, p, q, r) ==
    /\ s[p] \in {Plus, Minus, Colon, Star}
    /\ r = [item |-> Item(Kinds[s[p]], IF s[p] \in {Plus, Minus}
                                       THEN SubSeq(s, p + 1, q - 1)
                                       ELSE FromText(SubSeq(s, p + 1, q - 1))),
            next |-> q + 2]

(* r is the nil that ReadBulk reads.                                          *)
NilRead(s, p, q, r) ==
    /\ s[p] = Dollar
    /\ FromText(SubSeq(s, p + 1, q - 1)) = -1
    /\ r = [item |-> Item("nil", 0), next |-> q + 2]

(* A bulk string of n bytes behind the end of the line q.                     *)
BulkOf(s, q, n) == [item |-> Item("bulk", SubSeq(s, q + 2, q + 1 + n)), next |-> q + 4 + n]

(* r is the string of n bytes that ReadBulk reads.                            *)
BulkRead(s, p, q, r, n) ==
    /\ s[p] = Dollar
    /\ n = FromText(SubSeq(s, p + 1, q - 1)) /\ n # -1
    /\ n \in 0 .. Len(s) - q - 3 /\ Ends(s, q + 2 + n)
    /\ r = BulkOf(s, q, n)

(* r is read in one of these ways.                                            *)
Reads(s, p, q, r) ==
    LineRead(s, p, q, r) \/ NilRead(s, p, q, r) \/ \E n \in Nat : BulkRead(s, p, q, r, n)

(* What ReadItem yields is read in one of these ways, and conversely.         *)
LEMMA ReadItemIs ==
    ASSUME NEW s \in Seq(Nat), NEW p \in Nat, NEW r
    PROVE  r \in ReadItem(s, p) <=> p <= Len(s) /\ \E q \in LineEnd(s, p + 1) : Reads(s, p, q, r)
<1>1. CASE ~(p <= Len(s))
  <2>1. p > Len(s)
    BY <1>1
  <2>. QED
    BY <1>1, <2>1 DEF ReadItem
<1>2. CASE p <= Len(s) /\ s[p] = Dollar
  <2>1. ReadItem(s, p) = ReadBulk(s, p)
    BY <1>2 DEF ReadItem
  <2>2. s[p] \notin {Plus, Minus, Colon, Star}
    BY <1>2, BytesAre
  <2>3. ASSUME NEW q \in LineEnd(s, p + 1), NEW n, n = FromText(SubSeq(s, p + 1, q - 1))
        PROVE  r \in (IF n = -1 THEN {[item |-> Item("nil", 0), next |-> q + 2]}
                      ELSE {BulkOf(s, q, n) :
                              x \in {x \in {q} : n \in 0 .. Len(s) - q - 3 /\ Ends(s, q + 2 + n)}})
               <=> Reads(s, p, q, r)
    <3>1. n \in 0 .. Len(s) - q - 3 => n \in Nat
      OBVIOUS
    <3>2. CASE n = -1
      BY <1>2, <2>2, <2>3, <3>2 DEF Reads, LineRead, NilRead, BulkRead
    <3>3. CASE n # -1
      BY <1>2, <2>2, <2>3, <3>1, <3>3 DEF Reads, LineRead, NilRead, BulkRead
    <3>. QED
      BY <3>2, <3>3
  <2>. QED
    BY <1>2, <2>1, <2>3 DEF ReadBulk, BulkOf
<1>3. CASE p <= Len(s) /\ s[p] # Dollar
  <2>1. ReadItem(s, p) = IF s[p] \in {Plus, Minus, Colon, Star} THEN ReadLine(s, p) ELSE {}
    BY <1>3, KindsAre DEF ReadItem
  <2>2. ASSUME NEW q
        PROVE  Reads(s, p, q, r) <=> LineRead(s, p, q, r)
    BY <1>3 DEF Reads, NilRead, BulkRead
  <2>. QED
    BY <1>3, <2>1, <2>2 DEF ReadLine, LineRead
<1>. QED
  BY <1>1, <1>2, <1>3

(* The end of a line is behind its beginning and inside the string.           *)
LEMMA LineEndTyped ==
    ASSUME NEW s \in Seq(Nat), NEW p \in Nat, NEW q \in LineEnd(s, p)
    PROVE  q \in Nat /\ q >= p /\ q + 1 <= Len(s)
BY DEF LineEnd

(* It is the first one, so there is at most one.                              *)
LEMMA LineEndUnique ==
    ASSUME NEW s \in Seq(Nat), NEW p \in Nat, NEW q \in LineEnd(s, p), NEW r \in LineEnd(s, p)
    PROVE  q = r
<1>1. q \in Nat /\ r \in Nat /\ q >= p /\ r >= p
  BY LineEndTyped
<1>2. Ends(s, q) /\ Ends(s, r)
  BY DEF LineEnd
<1>3. r \notin p .. q - 1
  BY <1>2 DEF LineEnd
<1>4. q \notin p .. r - 1
  BY <1>2 DEF LineEnd
<1>. QED
  BY <1>1, <1>3, <1>4

(* The ways exclude each other,                                               *)
LEMMA ReadsUnique ==
    ASSUME NEW s, NEW p, NEW q, NEW r, NEW u, Reads(s, p, q, r), Reads(s, p, q, u)
    PROVE  r = u
<1>1. CASE s[p] = Dollar
  <2>1. s[p] \notin {Plus, Minus, Colon, Star}
    BY <1>1, BytesAre
  <2>2. \A v : Reads(s, p, q, v) => NilRead(s, p, q, v) \/ \E n \in Nat : BulkRead(s, p, q, v, n)
    BY <2>1 DEF Reads, LineRead
  <2>. QED
    BY <2>2 DEF NilRead, BulkRead
<1>2. CASE s[p] # Dollar
  <2>1. \A v : Reads(s, p, q, v) => LineRead(s, p, q, v)
    BY <1>2 DEF Reads, NilRead, BulkRead
  <2>. QED
    BY <2>1 DEF LineRead
<1>. QED
  BY <1>1, <1>2

(* so at most one item is read at a position.                                 *)
LEMMA ItemUnique ==
    ASSUME NEW s \in Seq(Nat), NEW p \in Nat, NEW r \in ReadItem(s, p), NEW u \in ReadItem(s, p)
    PROVE  r = u
<1>1. PICK q \in LineEnd(s, p + 1) : Reads(s, p, q, r)
  BY ReadItemIs
<1>2. PICK v \in LineEnd(s, p + 1) : Reads(s, p, v, u)
  BY ReadItemIs
<1>3. p + 1 \in Nat
  OBVIOUS
<1>4. v = q
  BY <1>3, LineEndUnique
<1>. QED
  BY <1>1, <1>2, <1>4, ReadsUnique

(* An end of line is one wherever the piece it is in lies.                    *)
LEMMA EndsGrows ==
    ASSUME NEW t \in Seq(Nat), NEW s \in Seq(Nat), NEW d \in Nat, InWindow(t, s, d),
           NEW q \in Nat \ {0}, q + 1 <= Len(t)
    PROVE  Ends(t, q) <=> Ends(s, q + d)
<1>1. q \in 1 .. Len(t) /\ q + 1 \in 1 .. Len(t) /\ (q + 1) + d = (q + d) + 1
  OBVIOUS
<1>2. t[q] = s[q + d] /\ t[q + 1] = s[(q + 1) + d]
  BY <1>1 DEF InWindow
<1>3. t[q + 1] = s[(q + d) + 1]
  BY <1>1, <1>2
<1>. QED
  BY <1>2, <1>3 DEF Ends

(* The first end of line in a piece is the first in the string.               *)
LEMMA LineEndGrows ==
    ASSUME NEW t \in Seq(Nat), NEW s \in Seq(Nat), NEW d \in Nat, InWindow(t, s, d),
           NEW p \in Nat \ {0}, NEW q \in LineEnd(t, p)
    PROVE  q + d \in LineEnd(s, p + d)
<1>1. q \in Nat \ {0} /\ q >= p /\ q + 1 <= Len(t) /\ Ends(t, q)
      /\ \A r \in p .. q - 1 : ~Ends(t, r)
  BY LineEndTyped DEF LineEnd
<1>2. d + Len(t) <= Len(s)
  BY DEF InWindow
<1>3. q + d \in p + d .. Len(s) - 1
  BY <1>1, <1>2
<1>4. Ends(s, q + d)
  BY <1>1, EndsGrows
<1>5. ASSUME NEW r \in p + d .. (q + d) - 1 PROVE ~Ends(s, r)
  <2>1. r - d \in Nat \ {0} /\ r - d \in p .. q - 1 /\ (r - d) + 1 <= Len(t) /\ (r - d) + d = r
    BY <1>1
  <2>2. ~Ends(t, r - d)
    BY <1>1, <2>1
  <2>3. Ends(t, r - d) <=> Ends(s, (r - d) + d)
    BY <2>1, EndsGrows
  <2>. QED
    BY <2>1, <2>2, <2>3
<1>. QED
  BY <1>3, <1>4, <1>5 DEF LineEnd

-------------------------------------------------------------------------------
(* What is read does not depend on what is around it.                         *)

(* What is read, d bytes further.                                             *)
Shifted(r, d) == [item |-> r.item, next |-> r.next + d]

(* What is read in a piece in one way is read in the string in that way,      *)
LEMMA ReadsGrow ==
    ASSUME NEW t \in Seq(Nat), NEW s \in Seq(Nat), NEW d \in Nat, InWindow(t, s, d),
           NEW p \in Nat \ {0}, p <= Len(t), NEW q \in LineEnd(t, p + 1), NEW r, Reads(t, p, q, r)
    PROVE  Reads(s, p + d, q + d, Shifted(r, d))
<1>1. q \in Nat /\ q >= p + 1 /\ q + 1 <= Len(t) /\ Len(t) \in Nat
  BY LineEndTyped
<1>2. d + Len(t) <= Len(s) /\ Len(s) \in Nat
  BY DEF InWindow
<1>3. s[p + d] = t[p]
  BY DEF InWindow
<1>4. SubSeq(t, p + 1, q - 1) = SubSeq(s, (p + d) + 1, (q + d) - 1)
  <2>1. p + 1 \in Int /\ q - 1 \in Int /\ 1 <= p + 1 /\ q - 1 <= Len(t)
    BY <1>1
  <2>2. SamePiece(t, s, d, p + 1, q - 1)
    BY <2>1, PieceInWindow
  <2>3. (p + 1) + d = (p + d) + 1 /\ (q - 1) + d = (q + d) - 1
    BY <1>1
  <2>. QED
    BY <2>2, <2>3 DEF SamePiece
<1>5. (q + 2) + d = (q + d) + 2
  BY <1>1
<1>6. CASE LineRead(t, p, q, r)
  <2>1. r.item = Item(Kinds[t[p]], IF t[p] \in {Plus, Minus} THEN SubSeq(t, p + 1, q - 1)
                                  ELSE FromText(SubSeq(t, p + 1, q - 1)))
        /\ r.next = q + 2
    BY <1>6 DEF LineRead
  <2>2. LineRead(s, p + d, q + d, Shifted(r, d))
    BY <1>3, <1>4, <1>5, <1>6, <2>1 DEF LineRead, Shifted
  <2>. QED
    BY <2>2 DEF Reads
<1>7. CASE NilRead(t, p, q, r)
  <2>1. r.item = Item("nil", 0) /\ r.next = q + 2
    BY <1>7 DEF NilRead
  <2>2. NilRead(s, p + d, q + d, Shifted(r, d))
    BY <1>3, <1>4, <1>5, <1>7, <2>1 DEF NilRead, Shifted
  <2>. QED
    BY <2>2 DEF Reads
<1>8. CASE \E n \in Nat : BulkRead(t, p, q, r, n)
  <2>1. PICK n \in Nat : BulkRead(t, p, q, r, n)
    BY <1>8
  <2>2. /\ t[p] = Dollar /\ n = FromText(SubSeq(t, p + 1, q - 1)) /\ n # -1
        /\ n \in 0 .. Len(t) - q - 3 /\ Ends(t, q + 2 + n)
        /\ r.item = Item("bulk", SubSeq(t, q + 2, q + 1 + n)) /\ r.next = q + 4 + n
    BY <2>1 DEF BulkRead, BulkOf
  <2>9. n <= Len(t) - q - 3 /\ n \in Nat
    BY <1>1, <2>2
  <2>3. n \in 0 .. Len(s) - (q + d) - 3
    BY <1>1, <1>2, <2>9
  <2>4. Ends(s, (q + d) + 2 + n)
    <3>1. q + 2 + n \in Nat \ {0} /\ (q + 2 + n) + 1 <= Len(t) /\ (q + 2 + n) + d = (q + d) + 2 + n
      BY ONLY <1>1, <2>9, d \in Nat
    <3>2. Ends(s, (q + 2 + n) + d)
      BY <2>2, <3>1, EndsGrows
    <3>. QED
      BY <3>1, <3>2
  <2>5. SubSeq(t, q + 2, q + 1 + n) = SubSeq(s, (q + d) + 2, (q + d) + 1 + n)
    <3>1. q + 2 \in Int /\ q + 1 + n \in Int /\ 1 <= q + 2 /\ q + 1 + n <= Len(t)
      BY ONLY <1>1, <2>9
    <3>2. SamePiece(t, s, d, q + 2, q + 1 + n)
      BY <3>1, PieceInWindow
    <3>3. (q + 2) + d = (q + d) + 2 /\ (q + 1 + n) + d = (q + d) + 1 + n
      BY <1>1
    <3>. QED
      BY <3>2, <3>3 DEF SamePiece
  <2>6. (q + 4 + n) + d = (q + d) + 4 + n
    BY <1>1
  <2>7. Shifted(r, d) = BulkOf(s, q + d, n)
    BY <2>2, <2>5, <2>6 DEF Shifted, BulkOf
  <2>8. BulkRead(s, p + d, q + d, Shifted(r, d), n)
    BY <1>3, <1>4, <2>2, <2>3, <2>4, <2>7 DEF BulkRead
  <2>. QED
    BY <2>8 DEF Reads
<1>. QED
  BY <1>6, <1>7, <1>8 DEF Reads

(* so an item of a piece is an item of the string it is in.                   *)
LEMMA ItemGrows ==
    ASSUME NEW t \in Seq(Nat), NEW s \in Seq(Nat), NEW d \in Nat, InWindow(t, s, d),
           NEW p \in Nat \ {0}, NEW r \in ReadItem(t, p)
    PROVE  Shifted(r, d) \in ReadItem(s, p + d)
<1>1. p \in Nat /\ p + d \in Nat
  OBVIOUS
<1>2. p <= Len(t)
  BY <1>1, ReadItemIs
<1>3. PICK q \in LineEnd(t, p + 1) : Reads(t, p, q, r)
  BY <1>1, ReadItemIs
<1>4. q + d \in LineEnd(s, (p + d) + 1)
  <2>1. p + 1 \in Nat \ {0} /\ (p + 1) + d = (p + d) + 1
    OBVIOUS
  <2>2. q + d \in LineEnd(s, (p + 1) + d)
    BY <2>1, LineEndGrows
  <2>. QED
    BY <2>1, <2>2
<1>5. Reads(s, p + d, q + d, Shifted(r, d))
  BY <1>2, <1>3, ReadsGrow
<1>6. p + d <= Len(s)
  BY <1>2 DEF InWindow
<1>. QED
  BY <1>1, <1>4, <1>5, <1>6, ReadItemIs

(* Reading goes forward and not beyond the string.                            *)
LEMMA ReadNext ==
    ASSUME NEW s \in Seq(Nat), NEW p \in Nat, NEW r \in ReadItem(s, p)
    PROVE  p <= Len(s) /\ r.next \in p + 1 .. Len(s) + 1
<1>1. p <= Len(s)
  BY ReadItemIs
<1>2. PICK q \in LineEnd(s, p + 1) : Reads(s, p, q, r)
  BY ReadItemIs
<1>3. q \in Nat /\ q >= p + 1 /\ q + 1 <= Len(s) /\ Len(s) \in Nat
  BY LineEndTyped
<1>4. CASE r.next = q + 2
  BY <1>1, <1>3, <1>4
<1>5. CASE \E n \in Nat : BulkRead(s, p, q, r, n)
  <2>1. PICK n \in Nat : BulkRead(s, p, q, r, n)
    BY <1>5
  <2>2. n \in 0 .. Len(s) - q - 3 /\ r.next = q + 4 + n
    BY <2>1 DEF BulkRead, BulkOf
  <2>. QED
    BY <1>1, <1>3, <2>2
<1>6. r.next = q + 2 \/ \E n \in Nat : BulkRead(s, p, q, r, n)
  BY <1>2 DEF Reads, LineRead, NilRead
<1>. QED
  BY <1>1, <1>4, <1>5, <1>6

(* The bytes of the string at the piece's place are the piece.                *)
LEMMA WholePiece ==
    ASSUME NEW t \in Seq(Nat), NEW s \in Seq(Nat), NEW d \in Nat, InWindow(t, s, d)
    PROVE  SubSeq(s, 1 + d, Len(t) + d) = t
<1>1. 1 \in Int /\ Len(t) \in Int /\ 1 <= 1 /\ Len(t) <= Len(t)
  OBVIOUS
<1>2. SamePiece(t, s, d, 1, Len(t))
  BY <1>1, PieceInWindow
<1>3. SubSeq(t, 1, Len(t)) = t
  OBVIOUS
<1>. QED
  BY <1>2, <1>3 DEF SamePiece

-------------------------------------------------------------------------------
(* Each reply is read back.                                                   *)

(* An item that is read from all of some bytes.                               *)
Answer(item, bytes) == [item |-> item, next |-> Len(bytes) + 1]

(* What a reader finds at the beginning of a line.                            *)
LEMMA LineText ==
    ASSUME NEW type \in Nat, NEW str \in Seq(Nat), OneLine(str)
    PROVE  /\ Line(type, str) \in Seq(Nat) /\ 1 <= Len(Line(type, str)) /\ Line(type, str)[1] = type
           /\ Len(str) + 2 \in LineEnd(Line(type, str), 1 + 1)
           /\ SubSeq(Line(type, str), 1 + 1, (Len(str) + 2) - 1) = str
           /\ (Len(str) + 2) + 2 = Len(Line(type, str)) + 1
<1>1. /\ Line(type, str) \in Seq(Nat) /\ Len(Line(type, str)) = Len(str) + 3
      /\ Line(type, str)[1] = type
      /\ InWindow(str, Line(type, str), 1)
  BY LineIs
<1>2. SubSeq(Line(type, str), 1 + 1, Len(str) + 1) = str
  <2>1. 1 \in Nat
    OBVIOUS
  <2>. QED
    BY <1>1, <2>1, WholePiece
<1>3. Len(str) \in Nat /\ (Len(str) + 2) - 1 = Len(str) + 1 /\ 1 + 1 = 2
  OBVIOUS
<1>4. LineEnd(Line(type, str), 2) = {Len(str) + 2}
  BY LineEnds
<1>5. SubSeq(Line(type, str), 1 + 1, (Len(str) + 2) - 1) = str
  BY ONLY <1>2, <1>3
<1>6. Len(str) + 2 \in LineEnd(Line(type, str), 1 + 1)
  BY ONLY <1>3, <1>4
<1>. QED
  BY <1>1, <1>3, <1>5, <1>6

(* A line is read as the item of its type,                                    *)
LEMMA LineReads ==
    ASSUME NEW type \in {Plus, Minus, Colon, Star}, NEW str \in Seq(Nat), OneLine(str)
    PROVE  Answer(Item(Kinds[type], IF type \in {Plus, Minus} THEN str
               ELSE FromText(str)), Line(type, str))
             \in ReadItem(Line(type, str), 1)
<1>. DEFINE e == Line(type, str)
            q == Len(str) + 2
            r == Answer(Item(Kinds[type], IF type \in {Plus, Minus} THEN str
                ELSE FromText(str)), Line(type, str))
<1>1. type \in Nat
  BY BytesAre
<1>2. /\ e \in Seq(Nat) /\ 1 <= Len(e) /\ e[1] = type /\ q \in LineEnd(e, 1 + 1)
      /\ SubSeq(e, 1 + 1, q - 1) = str /\ q + 2 = Len(e) + 1
  BY <1>1, LineText
<1>3. r = [item |-> Item(Kinds[type], IF type \in {Plus, Minus} THEN str
          ELSE FromText(str)), next |-> Len(e) + 1]
  BY DEF Answer
<1>. HIDE DEF e, q, r
<1>4. LineRead(e, 1, q, r)
  BY <1>2, <1>3 DEF LineRead
<1>5. Reads(e, 1, q, r)
  BY <1>4 DEF Reads
<1>6. r \in ReadItem(e, 1)
  BY <1>2, <1>5, ReadItemIs
<1>. QED
  BY <1>6 DEF e, r

(* a nil as a nil,                                                            *)
LEMMA NilReads ==
    /\ NilBulk \in Seq(Nat) /\ Len(NilBulk) \in Nat
    /\ Answer(Item("nil", 0), NilBulk) \in ReadItem(NilBulk, 1)
<1>. DEFINE str == <<Minus, Zero + 1>>
            e == Line(Dollar, str)
            q == Len(str) + 2
            r == Answer(Item("nil", 0), e)
<1>1. str \in Seq(Nat) /\ Len(str) = 2 /\ str[1] = Minus /\ str[2] = Zero + 1
      /\ Tail(str) = <<Zero + 1>>
  BY BytesAre
<1>2. OneLine(str)
  <2>1. \A i \in 1 .. Len(str) - 1 : str[i] # CR
    <3>1. 1 .. Len(str) - 1 = {1}
      BY <1>1
    <3>. QED
      BY <1>1, <3>1, BytesAre
  <2>. QED
    BY <2>1 DEF OneLine, Ends
<1>3. FromText(str) = -1
  <2>1. 1 \in 0 .. 9
    OBVIOUS
  <2>2. ValueOf(<<Zero + 1>>) = 1
    BY <2>1, ValueOneDigit
  <2>. QED
    BY <1>1, <2>2 DEF FromText
<1>. HIDE DEF str
<1>4. Dollar \in Nat /\ NilBulk = e
  BY BytesAre DEF NilBulk, str
<1>5. /\ e \in Seq(Nat) /\ 1 <= Len(e) /\ e[1] = Dollar /\ q \in LineEnd(e, 1 + 1)
      /\ SubSeq(e, 1 + 1, q - 1) = str /\ q + 2 = Len(e) + 1
  BY <1>1, <1>2, <1>4, LineText
<1>6. r = [item |-> Item("nil", 0), next |-> Len(e) + 1]
  BY DEF Answer
<1>. HIDE DEF e, q, r
<1>7. NilRead(e, 1, q, r)
  BY <1>3, <1>5, <1>6 DEF NilRead
<1>8. Reads(e, 1, q, r)
  BY <1>7 DEF Reads
<1>9. r \in ReadItem(e, 1)
  BY <1>5, <1>8, ReadItemIs
<1>. QED
  BY <1>4, <1>5, <1>9 DEF r

(* and a bulk string as itself, whatever its bytes are: its length says where *)
(* it ends.                                                                   *)
LEMMA BulkReads ==
    ASSUME NEW str \in Seq(Nat)
    PROVE  Bulk(str) \in Seq(Nat) /\ Answer(Item("bulk", str), Bulk(str)) \in ReadItem(Bulk(str), 1)
<1>. DEFINE n == Len(str)
            text == ToText(n)
            h == Line(Dollar, text)
            a == h \o str
            e == a \o Crlf
            q == Len(text) + 2
            r == Answer(Item("bulk", str), e)
<1>1. n \in Nat /\ n \in Int /\ Dollar \in Nat
  BY BytesAre
<1>2. text \in Seq(Nat) /\ OneLine(text) /\ FromText(text) = n
  BY <1>1, TextIs
<1>3. Bulk(str) = e
  BY DEF Bulk
<1>4. r = [item |-> Item("bulk", str), next |-> Len(e) + 1]
  BY DEF Answer
<1>. HIDE DEF n, text
<1>5. Len(text) \in Nat /\ Len(h) = Len(text) + 3
  <2>1. \A u \in Nat, w \in Seq(Nat) : Len(Line(u, w)) = Len(w) + 3
    BY LineIs
  <2>2. Len(text) \in Nat
    BY <1>2
  <2>. QED
    BY ONLY <1>1, <1>2, <2>1, <2>2, Zenon
<1>6. /\ h \in Seq(Nat) /\ 1 <= Len(h) /\ h[1] = Dollar /\ q \in LineEnd(h, 1 + 1)
      /\ SubSeq(h, 1 + 1, q - 1) = text
  BY <1>1, <1>2, LineText
<1>. HIDE DEF h
<1>7. Crlf \in Seq(Nat) /\ Len(Crlf) = 2 /\ Crlf[1] = CR /\ Crlf[2] = LF
  BY BytesAre DEF Crlf
<1>8. a \in Seq(Nat) /\ Len(a) = Len(h) + n /\ InWindow(h, a, 0) /\ InWindow(str, a, Len(h))
  BY <1>6, ConcatWindows DEF n
<1>. HIDE DEF a
<1>9. e \in Seq(Nat) /\ Len(e) = Len(a) + 2 /\ InWindow(a, e, 0) /\ InWindow(Crlf, e, Len(a))
  <2>1. /\ a \o Crlf \in Seq(Nat) /\ Len(a \o Crlf) = Len(a) + Len(Crlf)
        /\ InWindow(a, a \o Crlf, 0) /\ InWindow(Crlf, a \o Crlf, Len(a))
    BY ONLY <1>7, <1>8, ConcatWindows, Zenon
  <2>. QED
    BY ONLY <1>7, <2>1
<1>. HIDE DEF e
<1>10. InWindow(h, e, 0)
  <2>1. InWindow(h, e, 0 + 0)
    BY <1>6, <1>8, <1>9, WindowInWindow
  <2>. QED
    BY <2>1
<1>11. Len(h) \in Nat /\ InWindow(str, e, Len(h))
  <2>1. Len(h) \in Nat
    BY <1>5
  <2>2. InWindow(str, e, Len(h) + 0)
    BY <1>8, <1>9, <2>1, WindowInWindow
  <2>. QED
    BY <2>1, <2>2
<1>12. 1 <= Len(e) /\ e[1] = Dollar
  <2>1. 1 \in 1 .. Len(h) /\ 1 + 0 = 1
    BY <1>6, <1>11
  <2>2. h[1] = e[1 + 0]
    BY <1>10, <2>1 DEF InWindow
  <2>. QED
    BY <1>1, <1>6, <1>8, <1>9, <1>11, <2>1, <2>2
<1>13. q \in LineEnd(e, 1 + 1)
  <2>1. 1 + 1 \in Nat \ {0} /\ 0 \in Nat
    OBVIOUS
  <2>2. q + 0 \in LineEnd(e, (1 + 1) + 0)
    BY <1>6, <1>9, <1>10, <2>1, LineEndGrows
  <2>3. q + 0 = q /\ (1 + 1) + 0 = 1 + 1
    BY <1>5
  <2>. QED
    BY <2>2, <2>3
<1>14. SubSeq(e, 1 + 1, q - 1) = text
  <2>1. 1 + 1 \in Int /\ q - 1 \in Int /\ 1 <= 1 + 1 /\ q - 1 <= Len(h) /\ 0 \in Nat
    BY <1>5
  <2>2. SamePiece(h, e, 0, 1 + 1, q - 1)
    BY <1>6, <1>9, <1>10, <2>1, PieceInWindow
  <2>3. (1 + 1) + 0 = 1 + 1 /\ (q - 1) + 0 = q - 1
    BY <1>5
  <2>. QED
    BY <1>6, <2>2, <2>3 DEF SamePiece
<1>15. SubSeq(e, q + 2, q + 1 + n) = str
  <2>1. SubSeq(e, 1 + Len(h), Len(str) + Len(h)) = str
    BY <1>9, <1>11, WholePiece
  <2>2. 1 + Len(h) = q + 2 /\ Len(str) + Len(h) = q + 1 + n
    BY <1>1, <1>5 DEF n
  <2>. QED
    BY <2>1, <2>2
<1>16. n \in 0 .. Len(e) - q - 3 /\ n # -1 /\ q + 4 + n = Len(e) + 1
  BY <1>1, <1>5, <1>8, <1>9
<1>17. Ends(e, q + 2 + n)
  <2>1. 1 \in Nat \ {0} /\ 1 + 1 <= Len(Crlf) /\ Len(a) \in Nat
    BY <1>1, <1>7, <1>8, <1>11
  <2>2. Ends(Crlf, 1)
    BY <1>7 DEF Ends
  <2>3. Ends(e, 1 + Len(a))
    BY <1>7, <1>9, <2>1, <2>2, EndsGrows
  <2>4. 1 + Len(a) = q + 2 + n
    BY <1>1, <1>5, <1>8
  <2>. QED
    BY <2>3, <2>4
<1>. HIDE DEF q, r
<1>18. r = BulkOf(e, q, n)
  BY <1>4, <1>15, <1>16 DEF BulkOf
<1>19. BulkRead(e, 1, q, r, n)
  BY <1>2, <1>12, <1>14, <1>16, <1>17, <1>18 DEF BulkRead
<1>20. Reads(e, 1, q, r)
  BY <1>1, <1>19 DEF Reads
<1>21. r \in ReadItem(e, 1)
  BY <1>9, <1>12, <1>13, <1>20, ReadItemIs
<1>. QED
  BY <1>3, <1>9, <1>21 DEF r

(* The bytes that the builder appends for an item are read as the item.       *)
LEMMA ItemReads ==
    ASSUME NEW item \in Items, Readable(item)
    PROVE  /\ BytesOf(item) \in Seq(Nat)
           /\ Answer(item, BytesOf(item)) \in ReadItem(BytesOf(item), 1)
<1>1. CASE item \in [kind : {"simple", "error"}, data : Seq(Nat)]
  <2>1. item = Item(item.kind, item.data) /\ item.data \in Seq(Nat) /\ OneLine(item.data)
    BY <1>1 DEF Item, Readable
  <2>2. CASE item.kind = "simple"
    <3>1. BytesOf(item) = Line(Plus, item.data)
      BY <2>2 DEF BytesOf
    <3>2. /\ Line(Plus, item.data) \in Seq(Nat)
          /\ Answer(Item("simple", item.data), Line(Plus, item.data))
                 \in ReadItem(Line(Plus, item.data), 1)
      BY <2>1, LineReads, LineIs, BytesAre, KindsAre
    <3>. QED
      BY <2>1, <2>2, <3>1, <3>2
  <2>3. CASE item.kind = "error"
    <3>1. BytesOf(item) = Line(Minus, item.data)
      BY <2>3 DEF BytesOf
    <3>2. /\ Line(Minus, item.data) \in Seq(Nat)
          /\ Answer(Item("error", item.data), Line(Minus, item.data))
                 \in ReadItem(Line(Minus, item.data), 1)
      BY <2>1, LineReads, LineIs, BytesAre, KindsAre
    <3>. QED
      BY <2>1, <2>3, <3>1, <3>2
  <2>. QED
    BY <1>1, <2>2, <2>3
<1>2. CASE item \in [kind : {"integer", "array"}, data : Int]
  <2>1. item = Item(item.kind, item.data) /\ item.data \in Int
    BY <1>2 DEF Item
  <2>. DEFINE text == ToText(item.data)
  <2>2. text \in Seq(Nat) /\ OneLine(text) /\ FromText(text) = item.data
    BY <2>1, TextIs
  <2>3. CASE item.kind = "integer"
    <3>1. BytesOf(item) = Line(Colon, text)
      BY <2>3 DEF BytesOf
    <3>. HIDE DEF text
    <3>2. /\ Line(Colon, text) \in Seq(Nat)
          /\ Answer(Item("integer", FromText(text)), Line(Colon, text))
                 \in ReadItem(Line(Colon, text), 1)
      <4>1. Colon \in {Plus, Minus, Colon, Star} /\ Colon \notin {Plus, Minus} /\ Colon \in Nat
        BY BytesAre
      <4>. QED
        BY <2>2, <4>1, LineReads, LineIs, KindsAre
    <3>. QED
      BY <2>1, <2>2, <2>3, <3>1, <3>2
  <2>4. CASE item.kind = "array"
    <3>1. BytesOf(item) = Line(Star, text)
      BY <2>4 DEF BytesOf
    <3>. HIDE DEF text
    <3>2. /\ Line(Star, text) \in Seq(Nat)
          /\ Answer(Item("array", FromText(text)), Line(Star, text))
                 \in ReadItem(Line(Star, text), 1)
      <4>1. Star \in {Plus, Minus, Colon, Star} /\ Star \notin {Plus, Minus} /\ Star \in Nat
        BY BytesAre
      <4>. QED
        BY <2>2, <4>1, LineReads, LineIs, KindsAre
    <3>. QED
      BY <2>1, <2>2, <2>4, <3>1, <3>2
  <2>. QED
    BY <1>2, <2>3, <2>4
<1>3. CASE item \in [kind : {"bulk"}, data : Seq(Nat)]
  <2>1. item = Item("bulk", item.data) /\ item.data \in Seq(Nat) /\ item.kind = "bulk"
    BY <1>3 DEF Item
  <2>2. BytesOf(item) = Bulk(item.data)
    BY <2>1 DEF BytesOf
  <2>. QED
    BY <2>1, <2>2, BulkReads
<1>4. CASE item = Item("nil", 0)
  <2>1. BytesOf(item) = NilBulk
    BY <1>4 DEF BytesOf, Item
  <2>. QED
    BY <1>4, <2>1, NilReads
<1>5. \/ item \in [kind : {"simple", "error"}, data : Seq(Nat)]
      \/ item \in [kind : {"bulk"}, data : Seq(Nat)]
      \/ item \in [kind : {"integer", "array"}, data : Int] \/ item = Item("nil", 0)
  <2>1. ASSUME item \in [kind : {"simple", "error", "bulk"}, data : Seq(Nat)]
        PROVE  \/ item \in [kind : {"simple", "error"}, data : Seq(Nat)]
               \/ item \in [kind : {"bulk"}, data : Seq(Nat)]
    BY <2>1
  <2>. QED
    BY <2>1 DEF Items
<1>. QED
  BY <1>1, <1>2, <1>3, <1>4, <1>5

-------------------------------------------------------------------------------
(* The reader's recursion.                                                    *)

(* The body of the recursion in ReadAll.                                      *)
ReadStep(f, s, p) ==
    IF ReadItem(s, p) = {} THEN {<<>>}
    ELSE UNION {{<<r.item>> \o rest : rest \in f[r.next]} : r \in ReadItem(s, p)}

(* A function that follows it: what ReadAll chooses.                          *)
ReadsFrom(f, s) == f = [p \in Nat |-> ReadStep(f, s, p)]

(* A function that follows it from position n on.                             *)
ReadsBehind(f, s, n) == f = [p \in Nat |-> f[p]]
    /\ \A p \in Nat : p >= n => f[p] = ReadStep(f, s, p)

(* Two functions agree behind position n.                                     *)
SameBehind(f, g, n) == \A p \in Nat : p > n => f[p] = g[p]

(* The recursion looks only at positions behind its own.                      *)
LEMMA SameReadStep ==
    ASSUME NEW s \in Seq(Nat), NEW n \in Nat, NEW p \in Nat, p >= n, NEW f,
           NEW g, SameBehind(f, g, n)
    PROVE  ReadStep(f, s, p) = ReadStep(g, s, p)
<1>1. ASSUME NEW r \in ReadItem(s, p) PROVE f[r.next] = g[r.next]
  <2>1. r.next \in Nat /\ r.next > n
    BY ReadNext
  <2>. QED
    BY <2>1 DEF SameBehind
<1>. DEFINE H(h, r) == {<<r.item>> \o rest : rest \in h[r.next]}
<1>2. ASSUME NEW r \in ReadItem(s, p) PROVE H(f, r) = H(g, r)
  BY <1>1
<1>3. /\ ReadStep(f, s, p) = IF ReadItem(s, p) = {} THEN {<<>>}
             ELSE UNION {H(f, r) : r \in ReadItem(s, p)}
      /\ ReadStep(g, s, p) = IF ReadItem(s, p) = {} THEN {<<>>}
             ELSE UNION {H(g, r) : r \in ReadItem(s, p)}
  BY DEF ReadStep
<1>. HIDE DEF H
<1>4. {H(f, r) : r \in ReadItem(s, p)} = {H(g, r) : r \in ReadItem(s, p)}
  BY <1>2
<1>. QED
  BY <1>3, <1>4

(* So there is a function that follows it: from the end of the string, where  *)
(* nothing is read, down to its beginning.                                    *)
LEMMA ReadFromDefined ==
    ASSUME NEW s \in Seq(Nat)
    PROVE  \E f : ReadsFrom(f, s)
<1>. DEFINE m == Len(s) + 1
            S == {n \in Nat : \E f : ReadsBehind(f, s, n)}
<1>0. m \in Nat /\ 0 \in 0 .. m
  OBVIOUS
<1>1. m \in S
  <2>. DEFINE f == [p \in Nat |-> {<<>>}]
  <2>1. ASSUME NEW p \in Nat, p >= m PROVE ReadItem(s, p) = {}
    <3>1. ~(p <= Len(s))
      BY <2>1
    <3>. QED
      BY <3>1, ReadNext
  <2>2. \A p \in Nat : p >= m => f[p] = ReadStep(f, s, p)
    BY <2>1 DEF ReadStep
  <2>3. f = [p \in Nat |-> f[p]]
    OBVIOUS
  <2>. HIDE DEF f
  <2>4. ReadsBehind(f, s, m)
    BY <2>2, <2>3 DEF ReadsBehind
  <2>. QED
    BY <1>0, <2>4
<1>2. ASSUME NEW n \in 0 .. m - 1, n + 1 \in S PROVE n \in S
  <2>1. n \in Nat
    BY <1>0
  <2>2. PICK f : ReadsBehind(f, s, n + 1)
    BY <1>2
  <2>. DEFINE g == [p \in Nat |-> IF p = n THEN ReadStep(f, s, n) ELSE f[p]]
  <2>3. g = [p \in Nat |-> g[p]] /\ g[n] = ReadStep(f, s, n) /\ \A p \in Nat : p # n => g[p] = f[p]
    BY <2>1
  <2>. HIDE DEF g
  <2>4. SameBehind(f, g, n)
    BY <2>1, <2>3 DEF SameBehind
  <2>5. ASSUME NEW p \in Nat, p >= n PROVE g[p] = ReadStep(g, s, p)
    <3>1. ReadStep(f, s, p) = ReadStep(g, s, p)
      BY <2>1, <2>4, <2>5, SameReadStep
    <3>2. CASE p = n
      BY <2>3, <3>1, <3>2
    <3>3. CASE p # n
      <4>1. p >= n + 1
        BY <2>1, <2>5, <3>3
      <4>2. f[p] = ReadStep(f, s, p)
        BY <2>2, <4>1 DEF ReadsBehind
      <4>. QED
        BY <2>3, <3>1, <3>3, <4>2
    <3>. QED
      BY <3>2, <3>3
  <2>6. ReadsBehind(g, s, n)
    BY <2>3, <2>5 DEF ReadsBehind
  <2>. QED
    BY <2>1, <2>6
<1>. HIDE DEF m, S
<1>3. 0 \in S
  <2>1. 0 .. m \subseteq S
    BY <1>0, <1>1, <1>2, DownwardInduction
  <2>. QED
    BY <1>0, <2>1
<1>4. PICK f : ReadsBehind(f, s, 0)
  BY <1>3 DEF S
<1>5. f = [p \in Nat |-> f[p]] /\ \A p \in Nat : f[p] = ReadStep(f, s, p)
  BY <1>4 DEF ReadsBehind
<1>6. f = [p \in Nat |-> ReadStep(f, s, p)]
  BY <1>5
<1>. QED
  BY <1>6 DEF ReadsFrom

(* ReadAll satisfies its recursion.                                           *)
LEMMA ReadAllSteps ==
    ASSUME NEW s \in Seq(Nat)
    PROVE  \E f : (\A p \in Nat : f[p] = ReadStep(f, s, p)) /\ ReadAll(s) = f[1]
<1>. DEFINE f == CHOOSE f : ReadsFrom(f, s)
<1>1. ReadsFrom(f, s)
  BY ReadFromDefined, Zenon
<1>2. ReadAll(s) = f[1]
  BY DEF ReadAll, ReadsFrom, ReadStep
<1>. HIDE DEF f
<1>. DEFINE ff == [p \in Nat |-> ReadStep(f, s, p)]
<1>3. f = ff
  BY <1>1 DEF ReadsFrom
<1>4. \A p \in Nat : ff[p] = ReadStep(f, s, p)
  OBVIOUS
<1>. HIDE DEF ff
<1>5. \A p \in Nat : f[p] = ReadStep(f, s, p)
  BY <1>3, <1>4
<1>. QED
  BY <1>2, <1>5

(* Reading s yields items[1] to items[m] at P[0], P[1] and so on, and then    *)
(* nothing more.                                                              *)
Chain(s, items, P, m) ==
    /\ P[0] = 1
    /\ \A i \in 0 .. m - 1 : ReadItem(s, P[i]) = {[item |-> items[i + 1], next |-> P[i + 1]]}
    /\ ReadItem(s, P[m]) = {}

(* Then these are what ReadAll reads.                                         *)
LEMMA ChainReads ==
    ASSUME NEW s \in Seq(Nat), NEW S, NEW items \in Seq(S), NEW m \in 0 .. Len(items),
           NEW P \in [0 .. m -> Nat], Chain(s, items, P, m)
    PROVE  ReadAll(s) = {SubSeq(items, 1, m)}
<1>1. PICK f : (\A p \in Nat : f[p] = ReadStep(f, s, p)) /\ ReadAll(s) = f[1]
  BY ReadAllSteps
<1>. DEFINE T == {i \in 0 .. m : f[P[i]] = {SubSeq(items, i + 1, m)}}
<1>0. m \in Nat /\ m \in 0 .. m /\ 0 \in 0 .. m
  OBVIOUS
<1>2. m \in T
  <2>1. P[m] \in Nat /\ ReadItem(s, P[m]) = {}
    BY <1>0 DEF Chain
  <2>2. f[P[m]] = {<<>>}
    BY <1>1, <2>1 DEF ReadStep
  <2>3. SubSeq(items, m + 1, m) = <<>>
    BY <1>0
  <2>. QED
    BY <1>0, <2>2, <2>3
<1>3. ASSUME NEW i \in 0 .. m - 1, i + 1 \in T PROVE i \in T
  <2>1. i \in 0 .. m /\ i + 1 \in 0 .. m /\ i \in Nat /\ i + 1 \in 1 .. Len(items) /\ i + 1 <= m
    BY <1>0
  <2>2. f[P[i + 1]] = {SubSeq(items, (i + 1) + 1, m)}
    BY <1>3
  <2>3. ReadItem(s, P[i]) = {[item |-> items[i + 1], next |-> P[i + 1]]} /\ P[i] \in Nat
    BY <2>1 DEF Chain
  <2>4. f[P[i]] = {<<items[i + 1]>> \o SubSeq(items, (i + 1) + 1, m)}
    <3>. DEFINE r == [item |-> items[i + 1], next |-> P[i + 1]]
                H(u) == {<<u.item>> \o rest : rest \in f[u.next]}
                rest1 == SubSeq(items, (i + 1) + 1, m)
    <3>1. r.item = items[i + 1] /\ r.next = P[i + 1]
      OBVIOUS
    <3>2. f[P[i]] = UNION {H(u) : u \in {r}}
      BY <1>1, <2>3 DEF ReadStep
    <3>3. H(r) = {<<r.item>> \o rest : rest \in {rest1}}
      BY <2>2, <3>1
    <3>4. {<<r.item>> \o rest : rest \in {rest1}} = {<<items[i + 1]>> \o rest1}
      BY <3>1
    <3>. HIDE DEF r, H, rest1
    <3>5. f[P[i]] = {<<items[i + 1]>> \o rest1}
      BY <3>2, <3>3, <3>4
    <3>. QED
      BY <3>5 DEF rest1
  <2>5. <<items[i + 1]>> \o SubSeq(items, (i + 1) + 1, m) = SubSeq(items, i + 1, m)
    BY <1>0, <2>1
  <2>. QED
    BY <2>1, <2>4, <2>5
<1>. HIDE DEF T
<1>4. 0 \in T
  <2>1. 0 .. m \subseteq T
    BY <1>0, <1>2, <1>3, DownwardInduction
  <2>. QED
    BY <1>0, <2>1
<1>5. f[P[0]] = {SubSeq(items, 0 + 1, m)}
  BY <1>4 DEF T
<1>6. P[0] = 1 /\ 0 + 1 = 1
  BY DEF Chain
<1>. QED
  BY <1>1, <1>5, <1>6

-------------------------------------------------------------------------------
(* All replies are read back.                                                 *)

(* The bytes of an item are read as the item at any place of any string.      *)
LEMMA ItemReadAt ==
    ASSUME NEW item \in Items, Readable(item), NEW s \in Seq(Nat), NEW d \in Nat,
           InWindow(BytesOf(item), s, d)
    PROVE  ReadItem(s, d + 1) = {[item |-> item, next |-> d + Len(BytesOf(item)) + 1]}
<1>. DEFINE e == BytesOf(item)
            r == Answer(item, e)
            u == [item |-> item, next |-> d + Len(e) + 1]
<1>1. e \in Seq(Nat) /\ r \in ReadItem(e, 1)
  BY ItemReads
<1>2. r.item = item /\ r.next = Len(e) + 1
  BY DEF Answer
<1>. HIDE DEF e, r
<1>3. Len(e) \in Nat /\ (Len(e) + 1) + d = d + Len(e) + 1 /\ 1 + d = d + 1 /\ 1 \in Nat \ {0}
      /\ d + 1 \in Nat
  BY <1>1
<1>4. Shifted(r, d) = u
  BY <1>2, <1>3 DEF Shifted
<1>5. InWindow(e, s, d)
  BY DEF e
<1>. HIDE DEF u
<1>6. Shifted(r, d) \in ReadItem(s, 1 + d)
  BY <1>1, <1>3, <1>5, ItemGrows
<1>7. u \in ReadItem(s, d + 1)
  BY <1>3, <1>4, <1>6
<1>8. ReadItem(s, d + 1) = {u}
  BY <1>3, <1>7, ItemUnique
<1>. QED
  BY <1>8 DEF u, e

(* The bytes of some items, one string for each.                              *)
Pieces(items) == [i \in 1 .. Len(items) |-> BytesOf(items[i])]

(* All of them can be read back.                                              *)
AllReadable(items) == \A i \in 1 .. Len(items) : Readable(items[i])

(* They are strings of bytes.                                                 *)
LEMMA PiecesTyped ==
    ASSUME NEW items \in Seq(Items), AllReadable(items)
    PROVE  /\ Pieces(items) \in Seq(Seq(Nat)) /\ Len(Pieces(items)) = Len(items)
           /\ \A i \in 1 .. Len(items) : Pieces(items)[i] = BytesOf(items[i])
<1>1. \A i \in 1 .. Len(items) : items[i] \in Items /\ Readable(items[i])
  BY DEF AllReadable
<1>2. \A i \in 1 .. Len(items) : BytesOf(items[i]) \in Seq(Nat)
  BY <1>1, ItemReads
<1>3. Len(items) \in Nat
  OBVIOUS
<1>. QED
  BY <1>2, <1>3 DEF Pieces

(* Of the first k bytes of some replies a client reads the first replies,     *)
(* those that are there in full; of all the bytes it reads all.               *)
LEMMA PrefixReads ==
    ASSUME NEW items \in Seq(Items), AllReadable(items),
           NEW k \in 0 .. Len(FlattenSeq(Pieces(items)))
    PROVE  \E m \in 0 .. Len(items) :
              /\ ReadAll(SubSeq(FlattenSeq(Pieces(items)), 1, k)) = {SubSeq(items, 1, m)}
              /\ k = Len(FlattenSeq(Pieces(items))) => m = Len(items)
<1>. DEFINE n == Len(items)
            ss == Pieces(items)
            all == FlattenSeq(ss)
            s == SubSeq(all, 1, k)
            B(i) == Len(FlattenSeq(SubSeq(ss, 1, i)))
            T == {i \in 0 .. n : i = n \/ B(i + 1) > k}
<1>1. ss \in Seq(Seq(Nat)) /\ Len(ss) = n /\ n \in Nat
      /\ \A i \in 1 .. n : ss[i] = BytesOf(items[i])
  BY PiecesTyped
<1>. HIDE DEF ss
<1>2. all \in Seq(Nat) /\ Len(all) \in Nat
  BY <1>1, FlattenTyped
<1>3. /\ \A i \in 0 .. n : B(i) \in Nat
      /\ B(0) = 0 /\ B(n) = Len(all)
  <2>1. \A i \in 0 .. n : FlattenSeq(SubSeq(ss, 1, i)) \in Seq(Nat)
    BY <1>1, FlattenPrefixTyped
  <2>2. FlattenSeq(SubSeq(ss, 1, 0)) = <<>>
    BY <1>1, FlattenNothing
  <2>3. SubSeq(ss, 1, n) = ss
    BY <1>1
  <2>4. \A i \in 0 .. n : B(i) \in Nat
    BY <2>1
  <2>5. B(0) = 0
    BY <2>2
  <2>6. B(n) = Len(all)
    BY ONLY <2>3, Zenon
  <2>. QED
    BY <2>4, <2>5, <2>6
<1>4. ASSUME NEW i \in 0 .. n - 1
      PROVE  /\ ss[i + 1] \in Seq(Nat) /\ B(i + 1) = B(i) + Len(ss[i + 1]) /\ Len(ss[i + 1]) \in Nat
             /\ InWindow(ss[i + 1], all, B(i)) /\ B(i + 1) <= Len(all) /\ B(i) \in Nat
             /\ B(i + 1) \in Nat
             /\ items[i + 1] \in Items /\ Readable(items[i + 1])
             /\ ss[i + 1] = BytesOf(items[i + 1])
  <2>1. i \in 0 .. Len(ss) - 1 /\ i + 1 \in 1 .. n /\ i \in 0 .. n /\ i + 1 \in 0 .. n
    BY <1>1
  <2>2. /\ ss[i + 1] \in Seq(Nat) /\ B(i + 1) = B(i) + Len(ss[i + 1])
        /\ InWindow(ss[i + 1], all, B(i))
    BY <1>1, <2>1, FlattenWindow
  <2>3. B(i) + Len(ss[i + 1]) <= Len(all)
    BY <2>2 DEF InWindow
  <2>4. items[i + 1] \in Items /\ Readable(items[i + 1]) /\ ss[i + 1] = BytesOf(items[i + 1])
    BY <1>1, <2>1 DEF AllReadable
  <2>5. Len(ss[i + 1]) \in Nat
    BY <2>2
  <2>6. B(i) \in Nat /\ B(i + 1) \in Nat
    BY <1>3, <2>1
  <2>. QED
    BY ONLY <2>2, <2>3, <2>4, <2>5, <2>6
<1>. HIDE DEF B
<1>5. s \in Seq(Nat) /\ Len(s) = k /\ k \in Nat /\ k <= Len(all) /\ InWindow(s, all, 0)
      /\ \A j \in 1 .. k : s[j] = all[j]
  <2>1. k \in Nat /\ k <= Len(all)
    BY <1>2 DEF all, ss
  <2>. HIDE DEF all
  <2>2. s \in Seq(Nat) /\ Len(s) = k /\ \A j \in 1 .. k : s[j] = all[j]
    BY <1>2, <2>1
  <2>. HIDE DEF s
  <2>3. InWindow(s, all, 0)
    BY <1>2, <2>1, <2>2 DEF InWindow
  <2>. QED
    BY <2>1, <2>2, <2>3
<1>. HIDE DEF all, s
<1>6. PICK m \in T : \A i \in T : m <= i
  <2>1. n \in T /\ T \subseteq Nat
    BY <1>1
  <2>. HIDE DEF T
  <2>. QED
    BY <2>1, FirstIs
<1>7. m \in 0 .. n /\ (m = n \/ B(m + 1) > k) /\ m \in Nat
  BY <1>1, <1>6
<1>8. ASSUME NEW i \in 0 .. m - 1 PROVE i \in 0 .. n - 1 /\ B(i + 1) <= k
  <2>1. i \in 0 .. n - 1 /\ i \in 0 .. n /\ i # n /\ ~(m <= i)
    BY <1>1, <1>7
  <2>2. i \notin T
    BY <1>6, <2>1
  <2>3. ~(B(i + 1) > k) /\ B(i + 1) \in Nat
    BY <1>4, <2>1, <2>2
  <2>. QED
    BY <1>5, <2>1, <2>3
<1>. HIDE DEF T
<1>. DEFINE P == [i \in 0 .. m |-> B(i) + 1]
<1>9. ASSUME NEW i \in 0 .. m - 1
      PROVE  ReadItem(s, P[i]) = {[item |-> items[i + 1], next |-> P[i + 1]]}
  <2>1. i \in 0 .. n - 1 /\ B(i + 1) <= k
    BY <1>8
  <2>2. P[i] = B(i) + 1 /\ P[i + 1] = B(i + 1) + 1
    BY <1>7
  <2>3. /\ ss[i + 1] \in Seq(Nat) /\ B(i + 1) = B(i) + Len(ss[i + 1]) /\ Len(ss[i + 1]) \in Nat
        /\ InWindow(ss[i + 1], all, B(i)) /\ B(i) \in Nat
        /\ items[i + 1] \in Items /\ Readable(items[i + 1]) /\ ss[i + 1] = BytesOf(items[i + 1])
    BY <1>4, <2>1
  <2>4. InWindow(ss[i + 1], s, B(i))
    <3>1. ASSUME NEW j \in 1 .. Len(ss[i + 1]) PROVE ss[i + 1][j] = s[j + B(i)]
      <4>1. j + B(i) \in 1 .. k
        BY <1>5, <2>1, <2>3, SMTT(30)
      <4>2. ss[i + 1][j] = all[j + B(i)]
        BY <2>3 DEF InWindow
      <4>. QED
        BY <1>5, <4>1, <4>2
    <3>2. B(i) + Len(ss[i + 1]) <= Len(s)
      BY <1>5, <2>1, <2>3
    <3>. QED
      BY <3>1, <3>2 DEF InWindow
  <2>5. ReadItem(s, B(i) + 1) = {[item |-> items[i + 1], next |-> B(i) + Len(ss[i + 1]) + 1]}
    <3>1. InWindow(BytesOf(items[i + 1]), s, B(i))
      BY ONLY <2>3, <2>4
    <3>2. ReadItem(s, B(i) + 1)
              = {[item |-> items[i + 1], next |-> B(i) + Len(BytesOf(items[i + 1])) + 1]}
      BY ONLY <1>5, <2>3, <3>1, ItemReadAt, Zenon
    <3>. QED
      BY ONLY <2>3, <3>2, Zenon
  <2>. QED
    BY ONLY <2>2, <2>3, <2>5
<1>10. ReadItem(s, P[m]) = {}
  <2>1. SUFFICES ASSUME NEW r \in ReadItem(s, P[m]) PROVE FALSE
    OBVIOUS
  <2>2. P[m] = B(m) + 1 /\ B(m) \in Nat
    BY <1>3, <1>7
  <2>. DEFINE p == B(m) + 1
  <2>3. p \in Nat /\ p \in Nat \ {0} /\ r \in ReadItem(s, p) /\ p + 0 = p /\ 0 \in Nat
    BY <2>2
  <2>. HIDE DEF p, P
  <2>4. r.next \in p + 1 .. Len(s) + 1
    BY <1>5, <2>3, ReadNext
  <2>5. r.next \in Nat /\ r.next <= k + 1
    BY <1>5, <2>3, <2>4
  <2>6. Shifted(r, 0) \in ReadItem(all, p)
    <3>1. Shifted(r, 0) \in ReadItem(all, p + 0)
      BY <1>2, <1>5, <2>3, ItemGrows
    <3>. QED
      BY <2>3, <3>1
  <2>7. CASE m = n
    <3>1. p <= Len(all)
      BY <1>2, <2>3, <2>6, ReadNext
    <3>. QED
      BY <1>2, <1>3, <2>7, <3>1 DEF p
  <2>8. CASE m # n
    <3>1. m \in 0 .. n - 1 /\ B(m + 1) > k
      BY <1>1, <1>7, <2>8
    <3>2. /\ B(m + 1) = B(m) + Len(ss[m + 1]) /\ InWindow(ss[m + 1], all, B(m)) /\ B(m + 1) \in Nat
          /\ items[m + 1] \in Items /\ Readable(items[m + 1]) /\ ss[m + 1] = BytesOf(items[m + 1])
      BY <1>4, <3>1
    <3>3. ReadItem(all, B(m) + 1) = {[item |-> items[m + 1], next |-> B(m) + Len(ss[m + 1]) + 1]}
      BY <1>2, <2>2, <3>2, ItemReadAt
    <3>4. Shifted(r, 0) = [item |-> items[m + 1], next |-> B(m) + Len(ss[m + 1]) + 1]
      BY <2>6, <3>3 DEF p
    <3>5. Shifted(r, 0).next = r.next + 0
      BY DEF Shifted
    <3>6. r.next + 0 = B(m + 1) + 1
      BY <3>2, <3>4, <3>5
    <3>. QED
      BY ONLY <1>5, <2>5, <3>1, <3>2, <3>6
  <2>. QED
    BY <2>7, <2>8
<1>11. P \in [0 .. m -> Nat] /\ P[0] = 1
  <2>1. \A i \in 0 .. m : i \in 0 .. n
    BY <1>7
  <2>. QED
    BY <1>3, <1>7, <2>1
<1>. HIDE DEF P
<1>12. Chain(s, items, P, m)
  BY <1>9, <1>10, <1>11 DEF Chain
<1>13. ReadAll(s) = {SubSeq(items, 1, m)}
  <2>1. m \in 0 .. Len(items)
    BY <1>7
  <2>. QED
    BY <1>5, <1>11, <1>12, <2>1, ChainReads
<1>14. k = Len(all) => m = n
  <2>1. SUFFICES ASSUME k = Len(all), m # n PROVE FALSE
    OBVIOUS
  <2>2. m \in 0 .. n - 1 /\ B(m + 1) > k
    BY <1>1, <1>7, <2>1
  <2>3. B(m + 1) <= Len(all) /\ B(m + 1) \in Nat
    BY <1>4, <2>2
  <2>. QED
    BY ONLY <1>5, <2>1, <2>2, <2>3
<1>. QED
  BY <1>7, <1>13, <1>14 DEF s, all, ss

-------------------------------------------------------------------------------
(* The tasks, and the steps of the builder.                                   *)

(* What the builder appends for an item is bytes, whether it can be read back *)
(* or not.                                                                    *)
LEMMA BytesTyped ==
    ASSUME NEW item \in Items
    PROVE  BytesOf(item) \in Seq(Nat)
<1>1. Plus \in Nat /\ Minus \in Nat /\ Colon \in Nat /\ Star \in Nat
  BY BytesAre
<1>2. \/ item.kind \in {"simple", "error", "bulk"} /\ item.data \in Seq(Nat)
      \/ item.kind \in {"integer", "array"} /\ item.data \in Int
      \/ item.kind = "nil"
  BY DEF Items, Item
<1>3. CASE item.kind = "simple"
  BY <1>1, <1>2, <1>3, LineIs DEF BytesOf
<1>4. CASE item.kind = "error"
  <2>1. item.data \in Seq(Nat)
    BY <1>2, <1>4
  <2>. QED
    BY <1>1, <1>4, <2>1, LineIs DEF BytesOf
<1>5. CASE item.kind = "bulk"
  <2>1. item.data \in Seq(Nat)
    BY <1>2, <1>5
  <2>. QED
    BY <1>5, <2>1, BulkReads DEF BytesOf
<1>6. CASE item.kind = "integer"
  <2>1. ToText(item.data) \in Seq(Nat)
    BY <1>2, <1>6, TextIs
  <2>. QED
    BY <1>1, <1>6, <2>1, LineIs DEF BytesOf
<1>7. CASE item.kind = "array"
  <2>1. ToText(item.data) \in Seq(Nat)
    BY <1>2, <1>7, TextIs
  <2>. QED
    BY <1>1, <1>7, <2>1, LineIs DEF BytesOf
<1>8. CASE item.kind = "nil"
  BY <1>8, NilReads DEF BytesOf
<1>. QED
  BY <1>2, <1>3, <1>4, <1>5, <1>6, <1>7, <1>8

(* One item more, its bytes behind those of the others.                       *)
LEMMA OneMore ==
    ASSUME NEW items \in Seq(Items), NEW item \in Items
    PROVE  FlattenSeq(Pieces(Append(items, item))) = FlattenSeq(Pieces(items)) \o BytesOf(item)
<1>. DEFINE n == Len(items)
            more == Append(items, item)
            ss == Pieces(more)
<1>1. n \in Nat /\ more \in Seq(Items) /\ Len(more) = n + 1 /\ more[n + 1] = item
      /\ \A i \in 1 .. n : more[i] = items[i]
  OBVIOUS
<1>. HIDE DEF more
<1>2. ss \in Seq(Seq(Nat)) /\ Len(ss) = n + 1 /\ \A i \in 1 .. n + 1 : ss[i] = BytesOf(more[i])
  <2>1. \A i \in 1 .. n + 1 : BytesOf(more[i]) \in Seq(Nat)
    BY <1>1, BytesTyped
  <2>. QED
    BY <1>1, <2>1 DEF Pieces
<1>. HIDE DEF ss
<1>3. SubSeq(ss, 1, n) = Pieces(items)
  <2>1. SubSeq(ss, 1, n) = [i \in 1 .. n |-> ss[i]]
    BY <1>1, <1>2
  <2>2. \A i \in 1 .. n : ss[i] = BytesOf(items[i])
    BY <1>1, <1>2
  <2>. QED
    BY <2>1, <2>2 DEF Pieces
<1>4. SubSeq(ss, 1, n + 1) = ss
  BY <1>1, <1>2
<1>5. n \in 0 .. Len(ss) - 1
  BY <1>1, <1>2
<1>6. FlattenSeq(SubSeq(ss, 1, n + 1)) = FlattenSeq(SubSeq(ss, 1, n)) \o ss[n + 1]
  BY <1>2, <1>5, FlattenStep
<1>7. ss[n + 1] = BytesOf(item)
  BY <1>1, <1>2
<1>. QED
  BY <1>3, <1>4, <1>6, <1>7 DEF ss, more

(* Lower case makes the names of RespTaskCreator's table of exactly those     *)
(* that spell ping, each letter in either case.                               *)
LEMMA PingIsKnown ==
    ASSUME NEW name \in Seq(Nat)
    PROVE  Known(name) <=> IsPing(name)
<1>1. /\ Ping \in Seq(Nat) /\ Len(Ping) = 4
      /\ Ping[1] = 112 /\ Ping[2] = 105 /\ Ping[3] = 110 /\ Ping[4] = 103
  BY DEF Ping
<1>0. \A i \in 1 .. 4 : i = 1 \/ i = 2 \/ i = 3 \/ i = 4
  OBVIOUS
<1>2. ASSUME NEW i \in 1 .. 4 PROVE Ping[i] \in 97 .. 122
  <2>. DEFINE p == Ping[i]
  <2>1. p = 112 \/ p = 105 \/ p = 110 \/ p = 103
    BY <1>0, <1>1
  <2>. HIDE DEF p
  <2>2. p \in 97 .. 122
    BY <2>1
  <2>. QED
    BY <2>2 DEF p
<1>3. /\ ToLower(name) \in Seq(Nat) /\ Len(ToLower(name)) = Len(name)
      /\ \A i \in 1 .. Len(name) :
            ToLower(name)[i] = IF name[i] \in 65 .. 90 THEN name[i] + 32 ELSE name[i]
  BY DEF ToLower
<1>4. ASSUME Len(name) = 4, NEW i \in 1 .. 4
      PROVE  ToLower(name)[i] = Ping[i] <=> name[i] \in {Ping[i], Ping[i] - 32}
  <2>. DEFINE c == name[i]
              p == Ping[i]
  <2>1. c \in Nat /\ p \in 97 .. 122
    <3>1. c \in Nat
      <4>1. i \in 1 .. Len(name)
        BY <1>4
      <4>2. name \in [1 .. Len(name) -> Nat]
        OBVIOUS
      <4>. QED
        BY ONLY <4>1, <4>2
    <3>2. p \in 97 .. 122
      BY <1>2
    <3>. QED
      BY <3>1, <3>2
  <2>2. ToLower(name)[i] = IF c \in 65 .. 90 THEN c + 32 ELSE c
    BY <1>3, <1>4
  <2>. HIDE DEF c, p
  <2>3. CASE c \in 65 .. 90
    <3>1. c + 32 = p <=> c = p \/ c = p - 32
      BY <2>1, <2>3
    <3>. QED
      BY <2>2, <2>3, <3>1 DEF c, p
  <2>4. CASE c \notin 65 .. 90
    <3>1. c = p <=> c = p \/ c = p - 32
      BY <2>1, <2>4
    <3>. QED
      BY <2>2, <2>4, <3>1 DEF c, p
  <2>. QED
    BY <2>3, <2>4
<1>5. ToLower(name) = Ping <=> Len(name) = 4 /\ \A i \in 1 .. 4 : ToLower(name)[i] = Ping[i]
  <2>1. ASSUME Len(name) = 4, \A i \in 1 .. 4 : ToLower(name)[i] = Ping[i]
        PROVE  ToLower(name) = Ping
    <3>. HIDE DEF ToLower
    <3>1. ToLower(name) = [i \in 1 .. 4 |-> ToLower(name)[i]] /\ Ping = [i \in 1 .. 4 |-> Ping[i]]
      BY <1>1, <1>3, <2>1
    <3>. QED
      BY <2>1, <3>1
  <2>. QED
    BY <1>1, <1>3, <2>1
<1>6. IsPing(name) <=> Len(name) = 4 /\ \A i \in 1 .. 4 : name[i] \in {Ping[i], Ping[i] - 32}
  <2>1. DOMAIN name = 1 .. Len(name)
    OBVIOUS
  <2>2. Len(Ping) = 4
    BY <1>1
  <2>. QED
    BY ONLY <2>1, <2>2 DEF IsPing
<1>. QED
  BY <1>4, <1>5, <1>6 DEF Known

(* The reply of a task is the bytes of the item that answers its command.     *)
LEMMA TaskAnswers ==
    ASSUME NEW name \in Seq(Nat)
    PROVE  \E item \in Items :
              /\ item = IF IsPing(name) THEN Item("simple", Pong)
                     ELSE Item("error", <<Unknown>> \o name)
              /\ TaskReply(name) = BytesOf(item)
<1>1. Pong \in Seq(Nat) /\ <<Unknown>> \o name \in Seq(Nat)
  BY DEF Pong, Unknown
<1>2. CASE IsPing(name)
  <2>. DEFINE item == Item("simple", Pong)
  <2>1. item \in Items /\ item.kind = "simple" /\ item.data = Pong
    BY <1>1 DEF Item, Items
  <2>. HIDE DEF item
  <2>2. TaskReply(name) = BytesOf(item)
    BY <1>2, <2>1, PingIsKnown DEF TaskReply, BytesOf
  <2>. QED
    BY <1>2, <2>1, <2>2 DEF item
<1>3. CASE ~IsPing(name)
  <2>. DEFINE item == Item("error", <<Unknown>> \o name)
  <2>1. item \in Items /\ item.kind = "error" /\ item.data = <<Unknown>> \o name
    BY <1>1 DEF Item, Items
  <2>. HIDE DEF item
  <2>2. TaskReply(name) = BytesOf(item)
    BY <1>3, <2>1, PingIsKnown DEF TaskReply, BytesOf
  <2>. QED
    BY <1>3, <2>1, <2>2 DEF item
<1>. QED
  BY <1>2, <1>3

(* The inductive invariant: the bytes are those of what was meant.            *)
ReplyInv == said \in Seq(Items) /\ out = FlattenSeq(Pieces(said))

(* Nothing is meant and written at first.                                     *)
LEMMA InitReplies == Init => ReplyInv
<1>1. SUFFICES ASSUME Init PROVE ReplyInv
  OBVIOUS
<1>2. said = <<>> /\ out = <<>> /\ said \in Seq(Items)
  BY <1>1 DEF Init
<1>3. Pieces(said) = <<>>
  BY <1>2 DEF Pieces
<1>4. FlattenSeq(<<>>) = <<>>
  <2>. DEFINE e == <<>>
  <2>1. e \in Seq(Seq(Nat)) /\ SubSeq(e, 1, 0) = e
    OBVIOUS
  <2>. QED
    BY <2>1, FlattenNothing
<1>. QED
  BY <1>2, <1>3, <1>4 DEF ReplyInv

(* An operation that appends the bytes of the item it means keeps it so,      *)
LEMMA AppendKeeps ==
    ASSUME ReplyInv, NEW item \in Items, NEW bytes, bytes = BytesOf(item), Append_(item, bytes)
    PROVE  ReplyInv'
<1>1. said \in Seq(Items) /\ out = FlattenSeq(Pieces(said))
  BY DEF ReplyInv
<1>2. said' = Append(said, item) /\ out' = out \o BytesOf(item)
  BY DEF Append_
<1>3. said' \in Seq(Items)
  BY <1>1, <1>2
<1>4. out' = FlattenSeq(Pieces(said'))
  BY <1>1, <1>2, OneMore
<1>. QED
  BY <1>3, <1>4 DEF ReplyInv

(* and all of them do, those of the tasks included.                           *)
LEMMA NextReplies == ReplyInv /\ [Next]_vars => ReplyInv'
<1>. SUFFICES ASSUME ReplyInv, [Next]_vars PROVE ReplyInv'
  OBVIOUS
<1>1. ASSUME NEW name \in Names, RunTask(name) PROVE ReplyInv'
  <2>1. name \in Seq(Nat)
    BY RepliesAssumption
  <2>2. PICK item \in Items :
            /\ item = IF IsPing(name) THEN Item("simple", Pong)
                   ELSE Item("error", <<Unknown>> \o name)
            /\ TaskReply(name) = BytesOf(item)
    BY <2>1, TaskAnswers
  <2>3. Append_(item, TaskReply(name))
    BY <1>1, <2>2 DEF RunTask
  <2>. QED
    BY <2>2, <2>3, AppendKeeps
<1>2. ASSUME NEW str \in Lines, AppendSimpleString(str) PROVE ReplyInv'
  <2>1. Item("simple", str) \in Items
    BY RepliesAssumption DEF Items, Item
  <2>2. Line(Plus, str) = BytesOf(Item("simple", str))
    BY DEF BytesOf, Item
  <2>. QED
    BY <1>2, <2>1, <2>2, AppendKeeps DEF AppendSimpleString
<1>3. ASSUME NEW str \in Lines, AppendError(str) PROVE ReplyInv'
  <2>1. Item("error", str) \in Items
    BY RepliesAssumption DEF Items, Item
  <2>2. Line(Minus, str) = BytesOf(Item("error", str))
    BY DEF BytesOf, Item
  <2>. QED
    BY <1>3, <2>1, <2>2, AppendKeeps DEF AppendError
<1>4. ASSUME NEW str \in Blobs, AppendBulkString(str) PROVE ReplyInv'
  <2>1. Item("bulk", str) \in Items
    BY RepliesAssumption DEF Items, Item
  <2>2. Bulk(str) = BytesOf(Item("bulk", str))
    BY DEF BytesOf, Item
  <2>. QED
    BY <1>4, <2>1, <2>2, AppendKeeps DEF AppendBulkString
<1>5. ASSUME NEW n \in Numbers, AppendInteger(n) PROVE ReplyInv'
  <2>1. Item("integer", n) \in Items
    BY RepliesAssumption DEF Items, Item
  <2>2. Line(Colon, ToText(n)) = BytesOf(Item("integer", n))
    BY DEF BytesOf, Item
  <2>. QED
    BY <1>5, <2>1, <2>2, AppendKeeps DEF AppendInteger
<1>6. ASSUME NEW n \in Numbers, AppendArray(n) PROVE ReplyInv'
  <2>1. Item("array", n) \in Items
    BY RepliesAssumption DEF Items, Item
  <2>2. Line(Star, ToText(n)) = BytesOf(Item("array", n))
    BY DEF BytesOf, Item
  <2>. QED
    BY <1>6, <2>1, <2>2, AppendKeeps DEF AppendArray
<1>7. ASSUME AppendOk PROVE ReplyInv'
  <2>1. Item("simple", OK) \in Items
    BY DEF Items, Item, OK
  <2>2. Line(Plus, OK) = BytesOf(Item("simple", OK))
    BY DEF BytesOf, Item
  <2>. QED
    BY <1>7, <2>1, <2>2, AppendKeeps DEF AppendOk
<1>8. ASSUME AppendNil PROVE ReplyInv'
  <2>1. Item("nil", 0) \in Items
    BY DEF Items
  <2>2. NilBulk = BytesOf(Item("nil", 0))
    BY DEF BytesOf, Item
  <2>. QED
    BY <1>8, <2>1, <2>2, AppendKeeps DEF AppendNil
<1>9. ASSUME UNCHANGED vars PROVE ReplyInv'
  BY <1>9 DEF vars, ReplyInv
<1>. QED
  BY <1>1, <1>2, <1>3, <1>4, <1>5, <1>6, <1>7, <1>8, <1>9 DEF Next, Full

(* A client reads back what was meant.                                        *)
LEMMA InvReadsBack == ReplyInv => ReadsBack
<1>1. SUFFICES ASSUME ReplyInv, Clean PROVE ReadsBack
  BY DEF ReadsBack
<1>2. said \in Seq(Items) /\ out = FlattenSeq(Pieces(said)) /\ Len(said) \in Nat
  BY <1>1 DEF ReplyInv
<1>3. AllReadable(said)
  BY <1>1, <1>2 DEF Clean, AllReadable, Readable
<1>4. out \in Seq(Nat) /\ Len(out) \in Nat
  BY <1>2, <1>3, PiecesTyped, FlattenTyped
<1>5. ReadAll(out) = {said}
  <2>1. Len(out) \in 0 .. Len(FlattenSeq(Pieces(said)))
    BY <1>2, <1>4
  <2>2. PICK m \in 0 .. Len(said) :
            ReadAll(SubSeq(out, 1, Len(out))) = {SubSeq(said, 1, m)} /\ m = Len(said)
    BY <1>2, <1>3, <2>1, PrefixReads
  <2>3. SubSeq(out, 1, Len(out)) = out /\ SubSeq(said, 1, Len(said)) = said
    BY <1>2, <1>4
  <2>. QED
    BY <2>2, <2>3
<1>6. ASSUME NEW k \in 1 .. Len(out), NEW reads \in ReadAll(SubSeq(out, 1, k))
      PROVE  IsPrefix(reads, said)
  <2>1. k \in 0 .. Len(FlattenSeq(Pieces(said)))
    BY <1>2, <1>4
  <2>2. PICK m \in 0 .. Len(said) : ReadAll(SubSeq(out, 1, k)) = {SubSeq(said, 1, m)}
    BY <1>2, <1>3, <2>1, PrefixReads
  <2>3. reads = SubSeq(said, 1, m) /\ m \in Nat /\ m <= Len(said)
    BY <1>2, <1>6, <2>2
  <2>4. reads \in Seq(Items) /\ Len(reads) = m
    BY <1>2, <2>3
  <2>5. SubSeq(reads, 1, Len(reads)) = reads
    BY <2>4
  <2>. QED
    BY <2>3, <2>4, <2>5 DEF IsPrefix
<1>. QED
  BY <1>5, <1>6 DEF ReadsBack

(* Whatever replies the tasks and the builder append, with any bytes in a     *)
(* bulk string and any number in an integer or an array: if no line holds an  *)
(* end of line, a client reads all of them back, each once and in order, and  *)
(* from a part of the bytes only a part of the replies.                       *)
THEOREM RepliesReadBack == Spec => []ReadsBack
<1>1. Init => ReplyInv
  BY InitReplies
<1>2. ReplyInv /\ [Next]_vars => ReplyInv'
  BY NextReplies
<1>3. ReplyInv => ReadsBack
  BY InvReadsBack
<1>. QED
  BY <1>1, <1>2, <1>3, PTL DEF Spec
================================================================================
