----------------------------- MODULE SessionProofs -----------------------------
(*****************************************************************************)
(* A client's stream is parsed as a whole however it is cut into reads, what *)
(* is well-formed is understood and what is parsed is what was sent, and the *)
(* client can match the replies to its commands: for any commands, of any    *)
(* length and with any bytes, and any wrong byte.                            *)
(*                                                                           *)
(* The parser. What is parsed at a position is unique, is not also an Error, *)
(* and is the same when bytes are put before or behind it (...Grows); what   *)
(* is parsed in a string is parsed in a piece of it that holds it            *)
(* (...Shrinks). Numbers, arguments and commands have these lemmas one after *)
(* the other, and the recursion over the arguments is unfolded for them.     *)
(*                                                                           *)
(* A parse of a string is a chain: each command is parsed where the one      *)
(* before it ends, and behind the last there is none. CommandsOf and         *)
(* FramesOf are functions of the chain. A read parses what was kept and what *)
(* has come, which is a piece of the stream from the end of some command on; *)
(* its chain is the corresponding part of the chain of the whole stream      *)
(* (ParseOfPiece). So the inductive invariant, Parsing, says that what has   *)
(* been parsed is a beginning of the whole stream's chain and that what is   *)
(* kept begins where it ends.                                                *)
(*                                                                           *)
(* Encodings parse back as the commands they encode, so the chain of a right *)
(* stream is known; and a number in its one decimal form is encoded as it    *)
(* was sent, so what is parsed encodes to what was read.                     *)
(*                                                                           *)
(* The replies. What has been parsed are the commands answered, those        *)
(* dropped with the connection, and those waiting, in this order             *)
(* (AnswerInv), and the client reads what RespRepliesProofs says.            *)
(*****************************************************************************)
EXTENDS Session, RespBytesProofs

-------------------------------------------------------------------------------
(* The recursion over the arguments of a command.                             *)

(* No argument has been parsed yet.                                           *)
First(p) == {[v |-> <<>>, p |-> p]}

(* One argument more, behind what has been parsed.                            *)
OneMore(s, befores) ==
    UNION {{[v |-> Append(before.v, arg.v), p |-> arg.p] : arg \in ArgAt(s, before.p)} :
              before \in befores}

(* The function of ArgsAt, for up to n arguments.                             *)
ArgsUpTo(args, s, p, n) ==
    args = [j \in 0 .. n |-> IF j = 0 THEN First(p) ELSE OneMore(s, args[j - 1])]

(* Its values.                                                                *)
LEMMA ArgsUpToValues ==
    ASSUME NEW s, NEW p, NEW n \in Nat, NEW g, ArgsUpTo(g, s, p, n)
    PROVE  g[0] = First(p) /\ \A j \in 0 .. n - 1 : g[j + 1] = OneMore(s, g[j])
<1>. DEFINE gg == [j \in 0 .. n |-> IF j = 0 THEN First(p) ELSE OneMore(s, g[j - 1])]
<1>1. g = gg
  BY DEF ArgsUpTo
<1>2. gg[0] = First(p)
  OBVIOUS
<1>3. ASSUME NEW j \in 0 .. n - 1 PROVE gg[j + 1] = OneMore(s, g[j])
  <2>1. j + 1 \in 0 .. n /\ j + 1 # 0 /\ (j + 1) - 1 = j
    OBVIOUS
  <2>. QED
    BY <2>1
<1>. HIDE DEF gg
<1>. QED
  BY <1>1, <1>2, <1>3

(* It can be extended by one argument,                                        *)
LEMMA ArgsExtend ==
    ASSUME NEW s, NEW p, NEW n \in Nat, NEW g, ArgsUpTo(g, s, p, n)
    PROVE  \E h : ArgsUpTo(h, s, p, n + 1)
<1>. DEFINE h == [j \in 0 .. n + 1 |-> IF j = 0 THEN First(p) ELSE OneMore(s, g[j - 1])]
            hh == [j \in 0 .. n + 1 |-> IF j = 0 THEN First(p) ELSE OneMore(s, h[j - 1])]
<1>1. ASSUME NEW j \in 0 .. n + 1 PROVE h[j] = hh[j]
  <2>1. CASE j = 0
    BY <2>1
  <2>2. CASE j # 0
    <3>1. j - 1 \in 0 .. n
      BY <2>2
    <3>2. h[j - 1] = IF j - 1 = 0 THEN First(p) ELSE OneMore(s, g[(j - 1) - 1])
      BY <3>1
    <3>3. g[j - 1] = IF j - 1 = 0 THEN First(p) ELSE OneMore(s, g[(j - 1) - 1])
      BY <3>1 DEF ArgsUpTo
    <3>4. h[j] = OneMore(s, g[j - 1]) /\ hh[j] = OneMore(s, h[j - 1])
      BY <2>2
    <3>. HIDE DEF h, hh
    <3>. QED
      BY <3>2, <3>3, <3>4
  <2>. QED
    BY <2>1, <2>2
<1>2. h = [j \in 0 .. n + 1 |-> h[j]] /\ hh = [j \in 0 .. n + 1 |-> hh[j]]
  OBVIOUS
<1>3. h = hh
  <2>. HIDE DEF h, hh
  <2>. QED
    BY <1>1, <1>2
<1>. HIDE DEF h
<1>. QED
  BY <1>3, Zenon DEF ArgsUpTo

(* so there is one for every n,                                               *)
LEMMA ArgsExist ==
    ASSUME NEW s, NEW p
    PROVE  \A n \in Nat : \E g : ArgsUpTo(g, s, p, n)
<1>. DEFINE S == {n \in Nat : \E g : ArgsUpTo(g, s, p, n)}
<1>1. 0 \in S
  <2>. DEFINE g == [j \in 0 .. 0 |-> First(p)]
  <2>1. g = [j \in 0 .. 0 |-> IF j = 0 THEN First(p) ELSE OneMore(s, g[j - 1])]
    OBVIOUS
  <2>. HIDE DEF g
  <2>. QED
    BY <2>1 DEF ArgsUpTo
<1>2. \A n \in Nat : n \in S => n + 1 \in S
  BY ArgsExtend
<1>. HIDE DEF S
<1>3. Nat \subseteq S
  BY <1>1, <1>2, Induction
<1>. QED
  BY <1>3 DEF S

(* any two agree as far as both go,                                           *)
LEMMA ArgsAgree ==
    ASSUME NEW s, NEW p, NEW m \in Nat, NEW n \in Nat, m <= n,
           NEW g, ArgsUpTo(g, s, p, m), NEW h, ArgsUpTo(h, s, p, n)
    PROVE  \A i \in 0 .. m : g[i] = h[i]
<1>. DEFINE S == {i \in 0 .. m : g[i] = h[i]}
<1>1. g[0] = First(p) /\ \A j \in 0 .. m - 1 : g[j + 1] = OneMore(s, g[j])
  BY ArgsUpToValues
<1>2. h[0] = First(p) /\ \A j \in 0 .. n - 1 : h[j + 1] = OneMore(s, h[j])
  BY ONLY n \in Nat, ArgsUpTo(h, s, p, n), ArgsUpToValues
<1>3. 0 \in S
  BY <1>1, <1>2
<1>4. \A i \in 0 .. m - 1 : i \in S => i + 1 \in S
  <2>1. SUFFICES ASSUME NEW i \in 0 .. m - 1, g[i] = h[i] PROVE g[i + 1] = h[i + 1]
    OBVIOUS
  <2>2. i \in 0 .. n - 1
    OBVIOUS
  <2>. QED
    BY <1>1, <1>2, <2>1, <2>2
<1>. HIDE DEF S
<1>5. 0 .. m \subseteq S
  BY <1>3, <1>4, BoundedInduction
<1>. QED
  BY <1>5 DEF S

(* The function that ArgsAt chooses.                                          *)
ArgsEquation(args, s, p) ==
    args = [j \in Nat |-> IF j = 0 THEN First(p) ELSE OneMore(s, args[j - 1])]

(* and together they are one for any number of arguments.                     *)
LEMMA ArgsDefined ==
    ASSUME NEW s, NEW p
    PROVE  \E args : ArgsEquation(args, s, p)
<1>. DEFINE G(n) == CHOOSE g : ArgsUpTo(g, s, p, n)
            f == [n \in Nat |-> G(n)[n]]
            ff == [j \in Nat |-> IF j = 0 THEN First(p) ELSE OneMore(s, f[j - 1])]
<1>1. \A n \in Nat : ArgsUpTo(G(n), s, p, n)
  BY ArgsExist, Zenon
<1>. HIDE DEF G
<1>2. ASSUME NEW n \in Nat PROVE f[n] = ff[n]
  <2>1. CASE n = 0
    <3>1. ArgsUpTo(G(0), s, p, 0)
      BY <1>1
    <3>2. G(0)[0] = First(p)
      BY <3>1, ArgsUpToValues
    <3>. QED
      BY <2>1, <3>2
  <2>2. CASE n # 0
    <3>1. n - 1 \in Nat /\ n - 1 <= n /\ n - 1 \in 0 .. n - 1 /\ (n - 1) + 1 = n
      BY <2>2
    <3>2. ArgsUpTo(G(n), s, p, n) /\ ArgsUpTo(G(n - 1), s, p, n - 1)
      BY <1>1, <3>1
    <3>3. \A j \in 0 .. n - 1 : G(n)[j + 1] = OneMore(s, G(n)[j])
      BY <3>2, ArgsUpToValues
    <3>4. G(n)[n] = OneMore(s, G(n)[n - 1])
      BY <3>1, <3>3
    <3>5. G(n - 1)[n - 1] = G(n)[n - 1]
      BY <3>1, <3>2, ArgsAgree
    <3>. QED
      BY <2>2, <3>1, <3>4, <3>5
  <2>. QED
    BY <2>1, <2>2
<1>3. f = [j \in Nat |-> f[j]] /\ ff = [j \in Nat |-> ff[j]]
  OBVIOUS
<1>4. f = ff
  <2>. HIDE DEF f, ff
  <2>. QED
    BY <1>2, <1>3
<1>. HIDE DEF f
<1>. QED
  BY <1>4, Zenon DEF ArgsEquation

(* ArgsAt satisfies its recursion.                                            *)
LEMMA ArgsSteps ==
    ASSUME NEW s, NEW p
    PROVE  /\ ArgsAt(s, p, 0) = {[v |-> <<>>, p |-> p]}
           /\ \A k \in Nat : ArgsAt(s, p, k + 1) = OneMore(s, ArgsAt(s, p, k))
<1>. DEFINE f == CHOOSE args : ArgsEquation(args, s, p)
<1>1. ArgsEquation(f, s, p)
  BY ArgsDefined, Zenon
<1>2. \A k : ArgsAt(s, p, k) = f[k]
  BY DEF ArgsAt, ArgsEquation, First, OneMore
<1>. HIDE DEF f
<1>. DEFINE ff == [j \in Nat |-> IF j = 0 THEN First(p) ELSE OneMore(s, f[j - 1])]
<1>3. f = ff
  BY <1>1 DEF ArgsEquation
<1>4. ff[0] = First(p)
  OBVIOUS
<1>5. ASSUME NEW k \in Nat PROVE ff[k + 1] = OneMore(s, f[k])
  <2>1. k + 1 \in Nat /\ k + 1 # 0 /\ (k + 1) - 1 = k
    OBVIOUS
  <2>. QED
    BY <2>1
<1>. HIDE DEF ff
<1>. QED
  BY <1>2, <1>3, <1>4, <1>5 DEF First

-------------------------------------------------------------------------------
(* Numbers.                                                                   *)

(* Digits say the same number wherever they are.                              *)
LEMMA NumberInWindow ==
    ASSUME NEW t \in Seq(Nat), NEW s \in Seq(Nat), NEW d \in Nat, InWindow(t, s, d),
           NEW a \in Int, NEW b \in Int, 1 <= a, b <= Len(t)
    PROVE  Number(t, a, b) = Number(s, a + d, b + d)
<1>1. SamePiece(t, s, d, a, b)
  BY PieceInWindow
<1>. QED
  BY <1>1 DEF Number, SamePiece

(* Digits say a number.                                                       *)
LEMMA NumberNat ==
    ASSUME NEW s, NEW p \in Int, NEW q \in Int, AllDigits(s, p, q)
    PROVE  Number(s, p, q) \in Nat
<1>1. SubSeq(s, p, q) \in Seq(Digit)
  BY SubSeqProperties DEF AllDigits
<1>2. Number(s, p, q) = ValueOf(SubSeq(s, p, q))
  BY DEF Number, ValueOf
<1>. QED
  BY <1>1, <1>2, ValueNat

(* What has been parsed as a number: its type, its digits, its end.           *)
LEMMA NumberResult ==
    ASSUME NEW c, NEW s \in Seq(Nat), NEW p \in Nat, NEW r \in NumberAt(c, s, p)
    PROVE  /\ r.p \in p + 4 .. Len(s) + 1 /\ r.v \in Nat /\ r = [v |-> r.v, p |-> r.p]
           /\ s[p] = c /\ CrLf(s, r.p - 2) /\ AllDigits(s, p + 1, r.p - 3)
           /\ r.v = Number(s, p + 1, r.p - 3)
<1>0. Len(s) \in Nat
  OBVIOUS
<1>1. PICK e \in p + 2 .. Len(s) - 1 :
          /\ s[p] = c /\ CrLf(s, e) /\ AllDigits(s, p + 1, e - 1)
          /\ r = [v |-> Number(s, p + 1, e - 1), p |-> e + 2]
  BY DEF NumberAt
<1>2. e \in Int /\ r.p = e + 2 /\ r.p - 2 = e /\ r.p - 3 = e - 1 /\ p + 1 \in Int /\ e - 1 \in Int
  BY <1>0, <1>1
<1>3. r.v = Number(s, p + 1, e - 1) /\ r = [v |-> r.v, p |-> r.p]
  BY <1>1
<1>4. r.v \in Nat
  BY <1>1, <1>2, <1>3, NumberNat
<1>5. r.p \in p + 4 .. Len(s) + 1
  BY <1>0, <1>1, <1>2
<1>. QED
  BY <1>1, <1>2, <1>3, <1>4, <1>5

(* And what is parsed as one.                                                 *)
LEMMA NumberIntro ==
    ASSUME NEW c, NEW s \in Seq(Nat), NEW p \in Nat, NEW n \in p + 4 .. Len(s) + 1,
           s[p] = c, CrLf(s, n - 2), AllDigits(s, p + 1, n - 3)
    PROVE  [v |-> Number(s, p + 1, n - 3), p |-> n] \in NumberAt(c, s, p)
<1>. DEFINE e == n - 2
<1>1. Len(s) \in Nat
  OBVIOUS
<1>2. e \in p + 2 .. Len(s) - 1 /\ e - 1 = n - 3 /\ e + 2 = n /\ e = n - 2
  BY <1>1
<1>. HIDE DEF e
<1>. QED
  BY <1>2 DEF NumberAt

(* Digits end where they are first followed by an end of line, so two ends    *)
(* are one.                                                                   *)
LEMMA DigitsEnd ==
    ASSUME NEW s, NEW p \in Int, NEW m \in Int, NEW n \in Int, m >= p + 4, n >= p + 4,
           CrLf(s, m - 2), CrLf(s, n - 2), AllDigits(s, p + 1, m - 3), AllDigits(s, p + 1, n - 3)
    PROVE  m = n
<1>1. CASE m < n
  <2>1. m - 2 \in p + 1 .. n - 3
    BY <1>1
  <2>. QED
    BY <2>1 DEF CrLf, AllDigits, Digit, Zero, CR
<1>2. CASE n < m
  <2>1. n - 2 \in p + 1 .. m - 3
    BY <1>2
  <2>. QED
    BY <2>1 DEF CrLf, AllDigits, Digit, Zero, CR
<1>. QED
  BY <1>1, <1>2

(* At most one number is parsed at a position.                                *)
LEMMA NumberUnique ==
    ASSUME NEW c, NEW s \in Seq(Nat), NEW p \in Nat,
           NEW r \in NumberAt(c, s, p), NEW x \in NumberAt(c, s, p)
    PROVE  r = x
<1>0. Len(s) \in Nat
  OBVIOUS
<1>1. /\ r.p \in p + 4 .. Len(s) + 1 /\ CrLf(s, r.p - 2) /\ AllDigits(s, p + 1, r.p - 3)
      /\ r.v = Number(s, p + 1, r.p - 3) /\ r = [v |-> r.v, p |-> r.p]
  BY NumberResult
<1>2. /\ x.p \in p + 4 .. Len(s) + 1 /\ CrLf(s, x.p - 2) /\ AllDigits(s, p + 1, x.p - 3)
      /\ x.v = Number(s, p + 1, x.p - 3) /\ x = [v |-> x.v, p |-> x.p]
  BY NumberResult
<1>3. r.p \in p + 4 .. Len(s) + 1 /\ x.p \in p + 4 .. Len(s) + 1
  BY ONLY <1>1, <1>2
<1>4. r.p \in Int /\ x.p \in Int /\ r.p >= p + 4 /\ x.p >= p + 4
  BY <1>0, <1>3
<1>5. r.p = x.p
  BY ONLY p \in Nat, <1>1, <1>2, <1>3, <1>4, DigitsEnd
<1>. QED
  BY ONLY <1>1, <1>2, <1>5

(* A number that is parsed is not an Error.                                   *)
LEMMA NumberNotBoth ==
    ASSUME NEW c, NEW s \in Seq(Nat), NEW p \in Nat, NumberAt(c, s, p) # {}
    PROVE  ~NoNumberAt(c, s, p)
<1>0. Len(s) \in Nat
  OBVIOUS
<1>1. PICK r \in NumberAt(c, s, p) : TRUE
  OBVIOUS
<1>2. /\ r.p \in p + 4 .. Len(s) + 1 /\ CrLf(s, r.p - 2) /\ AllDigits(s, p + 1, r.p - 3)
      /\ s[p] = c
  BY NumberResult
<1>3. SUFFICES ASSUME NEW e \in p + 1 .. Len(s), s[e] \notin Digit, AllDigits(s, p + 1, e - 1),
                      e = p + 1 \/ (e < Len(s) /\ ~CrLf(s, e))
               PROVE  FALSE
  BY <1>2 DEF NoNumberAt
<1>4. r.p \in Int /\ r.p >= p + 4 /\ e \in Int /\ e >= p + 1
  BY <1>0, <1>2
<1>5. e = r.p - 2
  <2>1. ASSUME NEW m \in Int, m >= p + 4, AllDigits(s, p + 1, m - 3), CrLf(s, m - 2) PROVE e = m - 2
    <3>1. CASE e < m - 2
      <4>1. e \in p + 1 .. m - 3
        BY <1>4, <2>1, <3>1
      <4>. QED
        BY <4>1, <2>1, <1>3 DEF AllDigits
    <3>2. CASE m - 2 < e
      <4>1. m - 2 \in p + 1 .. e - 1
        BY <1>4, <2>1, <3>2
      <4>2. s[m - 2] \in Digit
        BY <4>1, <1>3 DEF AllDigits
      <4>. QED
        BY <4>2, <2>1 DEF CrLf, Digit, Zero, CR
    <3>. QED
      BY <1>4, <2>1, <3>1, <3>2
  <2>. QED
    BY ONLY <1>2, <1>4, <2>1
<1>6. e # p + 1 /\ CrLf(s, e)
  BY <1>2, <1>4, <1>5
<1>. QED
  BY <1>3, <1>6

(* Digits are digits,                                                         *)
LEMMA DigitsInWindow ==
    ASSUME NEW t \in Seq(Nat), NEW s \in Seq(Nat), NEW d \in Nat, InWindow(t, s, d),
           NEW a \in Int, NEW b \in Int, 1 <= a, b <= Len(t)
    PROVE  AllDigits(t, a, b) <=> AllDigits(s, a + d, b + d)
<1>1. ASSUME NEW i \in a .. b PROVE t[i] = s[i + d] /\ i + d \in a + d .. b + d
  <2>1. i \in 1 .. Len(t)
    OBVIOUS
  <2>. QED
    BY <2>1 DEF InWindow
<1>2. ASSUME NEW i \in a + d .. b + d PROVE t[i - d] = s[i] /\ i - d \in a .. b
  <2>1. i - d \in 1 .. Len(t) /\ (i - d) + d = i /\ i - d \in a .. b
    OBVIOUS
  <2>. QED
    BY <2>1 DEF InWindow
<1>. QED
  BY <1>1, <1>2 DEF AllDigits

(* and an end of line is one, wherever the piece they are in lies.            *)
LEMMA CrLfInWindow ==
    ASSUME NEW t \in Seq(Nat), NEW s \in Seq(Nat), NEW d \in Nat, InWindow(t, s, d),
           NEW i \in 1 .. Len(t) - 1
    PROVE  CrLf(t, i) <=> CrLf(s, i + d)
<1>1. i \in 1 .. Len(t) /\ i + 1 \in 1 .. Len(t) /\ (i + 1) + d = (i + d) + 1
  OBVIOUS
<1>2. t[i] = s[i + d] /\ t[i + 1] = s[(i + d) + 1]
  BY <1>1 DEF InWindow
<1>. QED
  BY <1>2 DEF CrLf

(* A number in a piece is one in the string,                                  *)
LEMMA NumberGrows ==
    ASSUME NEW t \in Seq(Nat), NEW s \in Seq(Nat), NEW d \in Nat, InWindow(t, s, d),
           NEW c, NEW p \in Nat \ {0}, NEW r \in NumberAt(c, t, p)
    PROVE  [v |-> r.v, p |-> r.p + d] \in NumberAt(c, s, p + d)
<1>0. Len(t) \in Nat /\ Len(s) \in Nat /\ d + Len(t) <= Len(s) /\ p \in Nat /\ p >= 1
  BY DEF InWindow
<1>a. t \in Seq(Nat) /\ s \in Seq(Nat) /\ d \in Nat /\ InWindow(t, s, d)
  OBVIOUS
<1>. DEFINE n == r.p
            a == p + 1
            b == n - 3
<1>1. /\ n \in p + 4 .. Len(t) + 1
      /\ t[p] = c /\ CrLf(t, n - 2) /\ AllDigits(t, a, b)
      /\ r.v = Number(t, a, b)
  BY <1>0, NumberResult
<1>. HIDE DEF n
<1>b. n \in p + 4 .. Len(t) + 1
  BY ONLY <1>1
<1>2. /\ n - 2 \in 1 .. Len(t) - 1 /\ n \in Nat /\ p \in 1 .. Len(t)
      /\ (n - 2) + d = (n + d) - 2
      /\ n + d \in (p + d) + 4 .. Len(s) + 1 /\ p + d \in Nat
  BY ONLY <1>0, <1>b, d \in Nat
<1>3. /\ a \in Int /\ b \in Int /\ 1 <= a /\ b <= Len(t)
      /\ b + d = (n + d) - 3 /\ a + d = (p + d) + 1
  BY ONLY <1>0, <1>1, d \in Nat
<1>. HIDE DEF a, b
<1>4. s[p + d] = c
  BY <1>1, <1>2 DEF InWindow
<1>5. CrLf(s, (n + d) - 2)
  BY <1>1, <1>2, CrLfInWindow
<1>6. AllDigits(s, (p + d) + 1, (n + d) - 3)
  <2>1. AllDigits(s, a + d, b + d)
    BY ONLY <1>a, <1>1, <1>3, DigitsInWindow
  <2>. QED
    BY ONLY <1>3, <2>1
<1>7. r.v = Number(s, (p + d) + 1, (n + d) - 3)
  <2>1. Number(t, a, b) = Number(s, a + d, b + d)
    BY ONLY <1>a, <1>3, NumberInWindow
  <2>. QED
    BY ONLY <1>1, <1>3, <2>1
<1>8. [v |-> Number(s, (p + d) + 1, (n + d) - 3), p |-> n + d] \in NumberAt(c, s, p + d)
  BY <1>2, <1>4, <1>5, <1>6, NumberIntro
<1>. QED
  BY <1>7, <1>8 DEF n

(* and a number in the string that ends in the piece is one in the piece.     *)
LEMMA NumberShrinks ==
    ASSUME NEW t \in Seq(Nat), NEW s \in Seq(Nat), NEW d \in Nat, InWindow(t, s, d),
           NEW c, NEW p \in Nat \ {0}, NEW r \in NumberAt(c, s, p + d), r.p - d <= Len(t) + 1
    PROVE  [v |-> r.v, p |-> r.p - d] \in NumberAt(c, t, p)
<1>0. Len(t) \in Nat /\ Len(s) \in Nat /\ d + Len(t) <= Len(s) /\ p \in Nat /\ p >= 1
      /\ p + d \in Nat
  BY DEF InWindow
<1>a. t \in Seq(Nat) /\ s \in Seq(Nat) /\ d \in Nat /\ InWindow(t, s, d)
  OBVIOUS
<1>. DEFINE m == r.p
            n == m - d
            a == p + 1
            b == n - 3
<1>1. /\ m \in (p + d) + 4 .. Len(s) + 1
      /\ s[p + d] = c /\ CrLf(s, m - 2) /\ AllDigits(s, (p + d) + 1, m - 3)
      /\ r.v = Number(s, (p + d) + 1, m - 3)
  BY ONLY <1>0, s \in Seq(Nat), r \in NumberAt(c, s, p + d), NumberResult
<1>b. n <= Len(t) + 1
  OBVIOUS
<1>. HIDE DEF m
<1>2. /\ n - 2 \in 1 .. Len(t) - 1 /\ n \in Nat /\ p \in 1 .. Len(t)
      /\ (n - 2) + d = m - 2 /\ n \in p + 4 .. Len(t) + 1
  BY ONLY <1>0, <1>1, <1>b, d \in Nat
<1>3. /\ a \in Int /\ b \in Int /\ 1 <= a /\ b <= Len(t) /\ b = n - 3 /\ a = p + 1
      /\ b + d = m - 3 /\ a + d = (p + d) + 1
  BY ONLY <1>0, <1>1, <1>b, d \in Nat
<1>. HIDE DEF a, b, n
<1>4. t[p] = c
  BY <1>1, <1>2 DEF InWindow
<1>5. CrLf(t, n - 2)
  <2>1. CrLf(s, (n - 2) + d)
    BY ONLY <1>1, <1>2
  <2>2. CrLf(t, n - 2) <=> CrLf(s, (n - 2) + d)
    BY ONLY <1>a, <1>2, CrLfInWindow
  <2>. QED
    BY ONLY <2>1, <2>2
<1>c. AllDigits(s, a + d, b + d) /\ r.v = Number(s, a + d, b + d)
  BY ONLY <1>1, <1>3
<1>6. AllDigits(t, a, b)
  <2>1. AllDigits(t, a, b) <=> AllDigits(s, a + d, b + d)
    BY ONLY <1>a, <1>3, DigitsInWindow
  <2>. QED
    BY ONLY <1>c, <2>1
<1>7. r.v = Number(t, a, b)
  <2>1. Number(t, a, b) = Number(s, a + d, b + d)
    BY ONLY <1>a, <1>3, NumberInWindow
  <2>. QED
    BY ONLY <1>c, <2>1
<1>8. [v |-> Number(t, p + 1, n - 3), p |-> n] \in NumberAt(c, t, p)
  BY <1>0, <1>2, <1>3, <1>4, <1>5, <1>6, NumberIntro
<1>. QED
  BY <1>3, <1>7, <1>8 DEF n, m

(* An Error in a piece is one in the string: more bytes make it no better,    *)
LEMMA NoNumberGrows ==
    ASSUME NEW t \in Seq(Nat), NEW s \in Seq(Nat), NEW d \in Nat, InWindow(t, s, d),
           NEW c, NEW p \in Nat \ {0}, NoNumberAt(c, t, p)
    PROVE  NoNumberAt(c, s, p + d)
<1>0. Len(t) \in Nat /\ Len(s) \in Nat /\ d + Len(t) <= Len(s) /\ p \in Nat /\ p >= 1
      /\ p + d \in Nat
  BY DEF InWindow
<1>1. p \in 1 .. Len(t) /\ p + d <= Len(s) /\ t[p] = s[p + d]
  <2>1. p \in 1 .. Len(t) /\ p + d <= Len(s)
    BY <1>0 DEF NoNumberAt
  <2>. QED
    BY <2>1 DEF InWindow
<1>2. CASE t[p] # c
  BY <1>1, <1>2 DEF NoNumberAt
<1>3. CASE t[p] = c
  <2>1. PICK e \in p + 1 .. Len(t) :
          /\ t[e] \notin Digit /\ AllDigits(t, p + 1, e - 1)
          /\ e = p + 1 \/ (e < Len(t) /\ ~CrLf(t, e))
    BY <1>3 DEF NoNumberAt
  <2>2. /\ e \in 1 .. Len(t) /\ e + d \in (p + d) + 1 .. Len(s) /\ (p + 1) + d = (p + d) + 1
        /\ (e - 1) + d = (e + d) - 1 /\ p + 1 >= 1 /\ p + 1 \in Int /\ e - 1 <= Len(t)
        /\ e - 1 \in Int
        /\ (e < Len(t) => e \in 1 .. Len(t) - 1 /\ e + d < Len(s))
    BY ONLY <1>0, d \in Nat, e \in p + 1 .. Len(t)
  <2>3. s[e + d] \notin Digit
    BY <2>1, <2>2 DEF InWindow
  <2>4. AllDigits(s, (p + 1) + d, (e - 1) + d)
    BY <1>0, <2>1, <2>2, DigitsInWindow
  <2>5. e + d = (p + d) + 1 \/ (e + d < Len(s) /\ ~CrLf(s, e + d))
    BY <2>1, <2>2, CrLfInWindow
  <2>. QED
    BY <1>1, <2>2, <2>3, <2>4, <2>5 DEF NoNumberAt
<1>. QED
  BY <1>2, <1>3

(* and one in the string is found in every piece that reaches the string's    *)
(* end.                                                                       *)
LEMMA NoNumberShrinks ==
    ASSUME NEW t \in Seq(Nat), NEW s \in Seq(Nat),
           NEW d \in Nat, InWindow(t, s, d), d + Len(t) = Len(s),
           NEW c, NEW p \in Nat \ {0}, NoNumberAt(c, s, p + d)
    PROVE  NoNumberAt(c, t, p)
<1>0. Len(t) \in Nat /\ Len(s) \in Nat /\ d + Len(t) = Len(s) /\ p \in Nat /\ p >= 1
      /\ p + d \in Nat
  BY DEF InWindow
<1>1. p \in 1 .. Len(t) /\ t[p] = s[p + d]
  <2>1. p \in 1 .. Len(t)
    BY <1>0 DEF NoNumberAt
  <2>. QED
    BY <2>1 DEF InWindow
<1>2. CASE t[p] # c
  BY <1>1, <1>2 DEF NoNumberAt
<1>3. CASE t[p] = c
  <2>1. PICK x \in (p + d) + 1 .. Len(s) :
          /\ s[x] \notin Digit /\ AllDigits(s, (p + d) + 1, x - 1)
          /\ x = (p + d) + 1 \/ (x < Len(s) /\ ~CrLf(s, x))
    BY <1>1, <1>3 DEF NoNumberAt
  <2>. DEFINE e == x - d
  <2>2. /\ e \in 1 .. Len(t) /\ e \in p + 1 .. Len(t) /\ (p + 1) + d = (p + d) + 1 /\ e + d = x
        /\ (e - 1) + d = x - 1 /\ p + 1 >= 1 /\ p + 1 \in Int /\ e - 1 <= Len(t) /\ e - 1 \in Int
        /\ (x < Len(s) => e \in 1 .. Len(t) - 1 /\ e < Len(t))
        /\ (x = (p + d) + 1 => e = p + 1)
    BY ONLY <1>0, d \in Nat, x \in (p + d) + 1 .. Len(s)
  <2>. HIDE DEF e
  <2>3. t[e] \notin Digit
    BY <2>1, <2>2 DEF InWindow
  <2>4. AllDigits(t, p + 1, e - 1)
    <3>1. AllDigits(t, p + 1, e - 1) <=> AllDigits(s, (p + 1) + d, (e - 1) + d)
      BY ONLY <2>2, t \in Seq(Nat), s \in Seq(Nat), d \in Nat, InWindow(t, s, d), DigitsInWindow
    <3>. QED
      BY ONLY <2>1, <2>2, <3>1
  <2>5. e = p + 1 \/ (e < Len(t) /\ ~CrLf(t, e))
    BY <2>1, <2>2, CrLfInWindow
  <2>6. \E n \in p + 1 .. Len(t) :
             /\ t[n] \notin Digit /\ AllDigits(t, p + 1, n - 1)
             /\ n = p + 1 \/ (n < Len(t) /\ ~CrLf(t, n))
    BY <2>2, <2>3, <2>4, <2>5
  <2>7. p <= Len(t)
    BY <1>1
  <2>. QED
    BY ONLY <2>6, <2>7, Zenon DEF NoNumberAt
<1>. QED
  BY <1>2, <1>3

-------------------------------------------------------------------------------
(* Arguments.                                                                 *)

(* The argument whose length has been parsed.                                 *)
ArgOf(s, len) == [v |-> SubSeq(s, len.p, len.p + len.v - 1), p |-> len.p + len.v + 2]

(* An argument has a length, bytes enough, and an end of line behind them;    *)
LEMMA ArgElim ==
    ASSUME NEW s \in Seq(Nat), NEW p \in Nat, NEW r \in ArgAt(s, p)
    PROVE  \E len \in NumberAt(Dollar, s, p) :
              EnoughForArg(s, len.p, len.v) /\ CrLf(s, len.p + len.v) /\ r = ArgOf(s, len)
BY DEF ArgAt, ArgLengthAt, ArgOf

(* and what has these is an argument.                                         *)
LEMMA ArgIntro ==
    ASSUME NEW s \in Seq(Nat), NEW p \in Nat, NEW len \in NumberAt(Dollar, s, p),
           EnoughForArg(s, len.p, len.v), CrLf(s, len.p + len.v)
    PROVE  ArgOf(s, len) \in ArgAt(s, p)
BY DEF ArgAt, ArgLengthAt, ArgOf

(* A length is a number with a position inside the string.                    *)
LEMMA LengthType ==
    ASSUME NEW s \in Seq(Nat), NEW p \in Nat, NEW len \in NumberAt(Dollar, s, p)
    PROVE  /\ len.p \in Nat /\ len.v \in Nat /\ len.p >= p + 4 /\ len.p <= Len(s) + 1
           /\ len = [v |-> len.v, p |-> len.p]
           /\ EnoughForArg(s, len.p, len.v) <=> len.p + len.v + 1 <= Len(s)
<1>1. len.p \in p + 4 .. Len(s) + 1 /\ len.v \in Nat /\ len = [v |-> len.v, p |-> len.p]
      /\ Len(s) \in Nat
  BY NumberResult
<1>2. len.p \in Nat /\ len.p >= p + 4 /\ len.p <= Len(s) + 1
  BY <1>1
<1>3. EnoughForArg(s, len.p, len.v) <=> len.p + len.v + 1 <= Len(s)
  BY <1>1, <1>2 DEF EnoughForArg
<1>. QED
  BY <1>1, <1>2, <1>3

(* An argument is bytes, and ends at least six behind its beginning.          *)
LEMMA ArgResult ==
    ASSUME NEW s \in Seq(Nat), NEW p \in Nat, NEW r \in ArgAt(s, p)
    PROVE  r.p \in p + 6 .. Len(s) + 1 /\ r.v \in Seq(Nat) /\ r = [v |-> r.v, p |-> r.p]
<1>1. PICK len \in NumberAt(Dollar, s, p) :
              EnoughForArg(s, len.p, len.v) /\ CrLf(s, len.p + len.v) /\ r = ArgOf(s, len)
  BY ArgElim
<1>2. /\ len.p \in Nat /\ len.v \in Nat /\ len.p >= p + 4 /\ len.p <= Len(s) + 1
      /\ len.p + len.v + 1 <= Len(s)
  BY <1>1, LengthType
<1>3. r.v = SubSeq(s, len.p, len.p + len.v - 1) /\ r.p = len.p + len.v + 2
  BY <1>1 DEF ArgOf
<1>4. r = [v |-> r.v, p |-> r.p]
  BY <1>1 DEF ArgOf
<1>5. r.p \in p + 6 .. Len(s) + 1
  <2>1. ASSUME NEW a \in Nat, NEW b \in Nat, a >= p + 4, a <= Len(s) + 1, a + b + 1 <= Len(s)
        PROVE  a + b + 2 \in p + 6 .. Len(s) + 1
    BY <2>1
  <2>. QED
    BY <1>2, <1>3, <2>1
<1>6. r.v \in Seq(Nat)
  <2>1. len.p \in Int /\ len.p + len.v - 1 \in Int
    BY <1>2
  <2>2. \A i \in len.p .. len.p + len.v - 1 : s[i] \in Nat
    <3>1. SUFFICES ASSUME NEW i \in len.p .. len.p + len.v - 1 PROVE s[i] \in Nat
      OBVIOUS
    <3>2. i \in 1 .. Len(s)
      BY <1>2, Len(s) \in Nat
    <3>. QED
      BY <3>2, ElementOfSeq
  <2>. QED
    BY <1>3, <2>1, <2>2, SubSeqProperties
<1>. QED
  BY <1>4, <1>5, <1>6

(* At most one argument is parsed at a position.                              *)
LEMMA ArgUnique ==
    ASSUME NEW s \in Seq(Nat), NEW p \in Nat, NEW r \in ArgAt(s, p), NEW x \in ArgAt(s, p)
    PROVE  r = x
<1>1. PICK l \in NumberAt(Dollar, s, p) : r = ArgOf(s, l)
  BY ArgElim
<1>2. PICK m \in NumberAt(Dollar, s, p) : x = ArgOf(s, m)
  BY ArgElim
<1>3. l = m
  BY NumberUnique
<1>. QED
  BY <1>1, <1>2, <1>3

(* An argument that is parsed is not an Error.                                *)
LEMMA ArgNotBoth ==
    ASSUME NEW s \in Seq(Nat), NEW p \in Nat, ArgAt(s, p) # {}
    PROVE  ~NoArgAt(s, p)
<1>1. PICK r \in ArgAt(s, p) : TRUE
  OBVIOUS
<1>2. PICK len \in NumberAt(Dollar, s, p) :
              EnoughForArg(s, len.p, len.v) /\ CrLf(s, len.p + len.v) /\ r = ArgOf(s, len)
  BY ArgElim
<1>3. ~NoNumberAt(Dollar, s, p)
  BY NumberNotBoth
<1>4. \A l \in NumberAt(Dollar, s, p) : l = len
  BY NumberUnique
<1>. QED
  BY <1>2, <1>3, <1>4 DEF NoArgAt, ArgLengthAt

(* An argument in a piece is one in the string,                               *)
LEMMA ArgGrows ==
    ASSUME NEW t \in Seq(Nat), NEW s \in Seq(Nat), NEW d \in Nat, InWindow(t, s, d),
           NEW p \in Nat \ {0}, NEW r \in ArgAt(t, p)
    PROVE  [v |-> r.v, p |-> r.p + d] \in ArgAt(s, p + d)
<1>a. t \in Seq(Nat) /\ s \in Seq(Nat) /\ d \in Nat /\ InWindow(t, s, d)
  OBVIOUS
<1>0. Len(t) \in Nat /\ Len(s) \in Nat /\ d + Len(t) <= Len(s) /\ p \in Nat /\ p >= 1
      /\ p + d \in Nat
  BY DEF InWindow
<1>1. PICK len \in NumberAt(Dollar, t, p) :
              EnoughForArg(t, len.p, len.v) /\ CrLf(t, len.p + len.v) /\ r = ArgOf(t, len)
  BY <1>0, ArgElim
<1>. DEFINE x == len.p
            y == len.v
            l == [v |-> y, p |-> x + d]
            a == x
            b == x + y - 1
            i == x + y
<1>2. x \in Nat /\ y \in Nat /\ x >= p + 4 /\ x + y + 1 <= Len(t)
  BY <1>0, <1>1, LengthType
<1>3. l \in NumberAt(Dollar, s, p + d)
  BY NumberGrows
<1>6. r.p = i + 2 /\ r.v = SubSeq(t, a, b) /\ CrLf(t, i)
  BY <1>1 DEF ArgOf
<1>. HIDE DEF x, y
<1>4. l.p = a + d /\ l.v = y /\ l.p + l.v = i + d /\ l.p + l.v - 1 = b + d
  BY ONLY <1>a, <1>2
<1>5. a \in Int /\ b \in Int /\ 1 <= a /\ b <= Len(t) /\ i \in 1 .. Len(t) - 1
      /\ l.p + l.v + 1 <= Len(s)
  BY ONLY <1>a, <1>0, <1>2
<1>. HIDE DEF l, a, b, i
<1>7. CrLf(s, l.p + l.v)
  <2>1. CrLf(t, i) <=> CrLf(s, i + d)
    BY ONLY <1>a, <1>5, CrLfInWindow
  <2>. QED
    BY ONLY <1>4, <1>6, <2>1
<1>8. EnoughForArg(s, l.p, l.v)
  BY <1>0, <1>3, <1>5, LengthType
<1>9. ArgOf(s, l) \in ArgAt(s, p + d)
  BY <1>0, <1>3, <1>7, <1>8, ArgIntro
<1>10. SubSeq(t, a, b) = SubSeq(s, a + d, b + d)
  <2>1. SamePiece(t, s, d, a, b)
    BY ONLY <1>a, <1>5, PieceInWindow
  <2>. QED
    BY <2>1 DEF SamePiece
<1>11. (i + d) + 2 = (i + 2) + d
  BY <1>5
<1>. QED
  BY <1>4, <1>6, <1>9, <1>10, <1>11 DEF ArgOf

(* and one in the string that ends in the piece is one in the piece.          *)
LEMMA ArgShrinks ==
    ASSUME NEW t \in Seq(Nat), NEW s \in Seq(Nat), NEW d \in Nat, InWindow(t, s, d),
           NEW p \in Nat \ {0}, NEW r \in ArgAt(s, p + d), r.p - d <= Len(t) + 1
    PROVE  [v |-> r.v, p |-> r.p - d] \in ArgAt(t, p)
<1>a. t \in Seq(Nat) /\ s \in Seq(Nat) /\ d \in Nat /\ InWindow(t, s, d)
  OBVIOUS
<1>0. Len(t) \in Nat /\ Len(s) \in Nat /\ d + Len(t) <= Len(s) /\ p \in Nat /\ p >= 1
      /\ p + d \in Nat
  BY DEF InWindow
<1>1. PICK len \in NumberAt(Dollar, s, p + d) :
              EnoughForArg(s, len.p, len.v) /\ CrLf(s, len.p + len.v) /\ r = ArgOf(s, len)
  BY <1>0, ArgElim
<1>. DEFINE x == len.p
            y == len.v
            z == r.p
            l == [v |-> y, p |-> x - d]
            a == x - d
            b == (x - d) + y - 1
            i == (x - d) + y
<1>2. x \in Nat /\ y \in Nat /\ x >= (p + d) + 4 /\ x + y + 1 <= Len(s)
  BY <1>0, <1>1, LengthType
<1>3. r.p = x + y + 2 /\ r.v = SubSeq(s, x, x + y - 1) /\ CrLf(s, x + y)
  BY <1>1 DEF ArgOf
<1>b. r.p - d <= Len(t) + 1 /\ z = r.p
  OBVIOUS
<1>4. x - d <= Len(t) + 1 /\ x + y + 1 <= d + Len(t)
  <2>. HIDE DEF x, y, z
  <2>1. z = x + y + 2 /\ z - d <= Len(t) + 1
    BY ONLY <1>3, <1>b
  <2>. QED
    BY ONLY <1>a, <1>0, <1>2, <2>1
<1>5. l \in NumberAt(Dollar, t, p)
  BY <1>4, NumberShrinks
<1>. HIDE DEF x, y
<1>6. /\ a \in Int /\ b \in Int /\ 1 <= a /\ b <= Len(t) /\ i \in 1 .. Len(t) - 1
      /\ a + d = x /\ b + d = x + y - 1 /\ i + d = x + y
  BY ONLY <1>a, <1>0, <1>2, <1>4
<1>7. l.p = a /\ l.v = y /\ l.p + l.v = i /\ l.p + l.v - 1 = b /\ l.p + l.v + 1 <= Len(t)
  BY ONLY <1>a, <1>0, <1>2, <1>4
<1>8. r.p - d = i + 2
  BY ONLY <1>a, <1>0, <1>2, <1>3
<1>. HIDE DEF l, a, b, i
<1>9. CrLf(t, l.p + l.v)
  <2>1. CrLf(t, i) <=> CrLf(s, i + d)
    BY ONLY <1>a, <1>6, CrLfInWindow
  <2>. QED
    BY ONLY <1>3, <1>6, <1>7, <2>1
<1>10. EnoughForArg(t, l.p, l.v)
  BY <1>0, <1>5, <1>7, LengthType
<1>11. ArgOf(t, l) \in ArgAt(t, p)
  BY <1>0, <1>5, <1>9, <1>10, ArgIntro
<1>12. SubSeq(t, a, b) = SubSeq(s, a + d, b + d)
  <2>1. a \in Int /\ b \in Int /\ 1 <= a /\ b <= Len(t)
    BY ONLY <1>6
  <2>. QED
    <3>1. SamePiece(t, s, d, a, b)
      BY ONLY <1>a, <2>1, PieceInWindow
    <3>. QED
      BY <3>1 DEF SamePiece
<1>. QED
  BY <1>3, <1>6, <1>7, <1>8, <1>11, <1>12 DEF ArgOf

(* An Error in a piece is one in the string,                                  *)
LEMMA NoArgGrows ==
    ASSUME NEW t \in Seq(Nat), NEW s \in Seq(Nat), NEW d \in Nat, InWindow(t, s, d),
           NEW p \in Nat \ {0}, NoArgAt(t, p)
    PROVE  NoArgAt(s, p + d)
<1>a. t \in Seq(Nat) /\ s \in Seq(Nat) /\ d \in Nat /\ InWindow(t, s, d)
  OBVIOUS
<1>0. Len(t) \in Nat /\ Len(s) \in Nat /\ d + Len(t) <= Len(s) /\ p \in Nat /\ p >= 1
      /\ p + d \in Nat
  BY DEF InWindow
<1>1. CASE NoNumberAt(Dollar, t, p)
  BY <1>1, NoNumberGrows DEF NoArgAt
<1>2. ASSUME NEW len \in NumberAt(Dollar, t, p),
             EnoughForArg(t, len.p, len.v), ~CrLf(t, len.p + len.v)
      PROVE  NoArgAt(s, p + d)
  <2>. DEFINE x == len.p
              y == len.v
              l == [v |-> y, p |-> x + d]
              i == x + y
  <2>1. x \in Nat /\ y \in Nat /\ x >= p + 4 /\ x + y + 1 <= Len(t)
    BY <1>0, <1>2, LengthType
  <2>2. l \in NumberAt(Dollar, s, p + d)
    BY NumberGrows
  <2>a. ~CrLf(t, i)
    BY <1>2
  <2>. HIDE DEF x, y
  <2>3. i \in 1 .. Len(t) - 1 /\ l.p + l.v = i + d /\ l.p + l.v + 1 <= Len(s)
    BY ONLY <1>a, <1>0, <2>1
  <2>. HIDE DEF l, i
  <2>4. ~CrLf(s, l.p + l.v)
    <3>1. CrLf(t, i) <=> CrLf(s, i + d)
      BY ONLY <1>a, <2>3, CrLfInWindow
    <3>. QED
      BY ONLY <2>3, <2>a, <3>1
  <2>5. EnoughForArg(s, l.p, l.v)
    BY <1>0, <2>2, <2>3, LengthType
  <2>. QED
    BY <2>2, <2>4, <2>5 DEF NoArgAt, ArgLengthAt
<1>. QED
  BY <1>1, <1>2 DEF NoArgAt, ArgLengthAt

(* and one in the string is found in every piece that reaches the string's    *)
(* end.                                                                       *)
LEMMA NoArgShrinks ==
    ASSUME NEW t \in Seq(Nat), NEW s \in Seq(Nat),
           NEW d \in Nat, InWindow(t, s, d), d + Len(t) = Len(s),
           NEW p \in Nat \ {0}, NoArgAt(s, p + d)
    PROVE  NoArgAt(t, p)
<1>a. t \in Seq(Nat) /\ s \in Seq(Nat) /\ d \in Nat /\ InWindow(t, s, d)
  OBVIOUS
<1>0. Len(t) \in Nat /\ Len(s) \in Nat /\ d + Len(t) = Len(s) /\ p \in Nat /\ p >= 1
      /\ p + d \in Nat
  BY DEF InWindow
<1>1. CASE NoNumberAt(Dollar, s, p + d)
  BY <1>1, NoNumberShrinks DEF NoArgAt
<1>2. ASSUME NEW len \in NumberAt(Dollar, s, p + d),
             EnoughForArg(s, len.p, len.v), ~CrLf(s, len.p + len.v)
      PROVE  NoArgAt(t, p)
  <2>. DEFINE x == len.p
              y == len.v
              l == [v |-> y, p |-> x - d]
              i == (x - d) + y
  <2>1. x \in Nat /\ y \in Nat /\ x >= (p + d) + 4 /\ x + y + 1 <= Len(s)
    BY <1>0, <1>2, LengthType
  <2>a. x - d <= Len(t) + 1
    <3>. HIDE DEF x, y
    <3>. QED
      BY ONLY <1>a, <1>0, <2>1
  <2>2. l \in NumberAt(Dollar, t, p)
    BY <2>a, NumberShrinks
  <2>b. ~CrLf(s, x + y)
    BY <1>2
  <2>. HIDE DEF x, y
  <2>3. i \in 1 .. Len(t) - 1 /\ i + d = x + y /\ l.p + l.v = i /\ l.p + l.v + 1 <= Len(t)
    BY ONLY <1>a, <1>0, <2>1
  <2>. HIDE DEF l, i
  <2>4. ~CrLf(t, l.p + l.v)
    <3>1. CrLf(t, i) <=> CrLf(s, i + d)
      BY ONLY <1>a, <2>3, CrLfInWindow
    <3>. QED
      BY ONLY <2>b, <2>3, <3>1
  <2>5. EnoughForArg(t, l.p, l.v)
    BY <1>0, <2>2, <2>3, LengthType
  <2>. QED
    BY <2>2, <2>4, <2>5 DEF NoArgAt, ArgLengthAt
<1>. QED
  BY <1>1, <1>2 DEF NoArgAt, ArgLengthAt

-------------------------------------------------------------------------------
(* The arguments of a command.                                                *)

(* k + 1 arguments are k and one more behind them;                            *)
LEMMA ArgsStep ==
    ASSUME NEW s \in Seq(Nat), NEW p \in Nat, NEW k \in Nat, NEW r \in ArgsAt(s, p, k + 1)
    PROVE  \E before \in ArgsAt(s, p, k) : \E arg \in ArgAt(s, before.p) :
              r = [v |-> Append(before.v, arg.v), p |-> arg.p]
<1>1. ArgsAt(s, p, k + 1) = OneMore(s, ArgsAt(s, p, k))
  BY ArgsSteps
<1>. QED
  BY <1>1 DEF OneMore

(* and k with one more are k + 1.                                             *)
LEMMA ArgsStepIntro ==
    ASSUME NEW s \in Seq(Nat), NEW p \in Nat, NEW k \in Nat,
           NEW before \in ArgsAt(s, p, k), NEW arg \in ArgAt(s, before.p)
    PROVE  [v |-> Append(before.v, arg.v), p |-> arg.p] \in ArgsAt(s, p, k + 1)
<1>1. ArgsAt(s, p, k + 1) = OneMore(s, ArgsAt(s, p, k))
  BY ArgsSteps
<1>. QED
  BY <1>1 DEF OneMore

(* k arguments are k strings of bytes, with a position inside the string.     *)
ArgsTyped(s, p, k, r) ==
    /\ r.v \in Seq(Seq(Nat)) /\ Len(r.v) = k
    /\ r.p \in Nat /\ r.p >= p + k /\ r.p <= Len(s) + 1
    /\ r = [v |-> r.v, p |-> r.p]

(* Such are the results of ArgsAt.                                            *)
LEMMA ArgsResult ==
    ASSUME NEW s \in Seq(Nat), NEW p \in Nat, p <= Len(s) + 1
    PROVE  \A k \in Nat : \A r \in ArgsAt(s, p, k) : ArgsTyped(s, p, k, r)
<1>. DEFINE S == {k \in Nat : \A r \in ArgsAt(s, p, k) : ArgsTyped(s, p, k, r)}
<1>0. Len(s) \in Nat
  OBVIOUS
<1>1. 0 \in S
  <2>1. SUFFICES ASSUME NEW r \in ArgsAt(s, p, 0) PROVE ArgsTyped(s, p, 0, r)
    OBVIOUS
  <2>2. r = [v |-> <<>>, p |-> p]
    BY ArgsSteps
  <2>. QED
    BY <2>2 DEF ArgsTyped
<1>2. ASSUME NEW k \in Nat, \A r \in ArgsAt(s, p, k) : ArgsTyped(s, p, k, r),
             NEW r \in ArgsAt(s, p, k + 1)
      PROVE  ArgsTyped(s, p, k + 1, r)
  <2>2. PICK before \in ArgsAt(s, p, k) :
              \E arg \in ArgAt(s, before.p) : r = [v |-> Append(before.v, arg.v), p |-> arg.p]
    <3>1. s \in Seq(Nat) /\ p \in Nat /\ k \in Nat /\ r \in ArgsAt(s, p, k + 1)
      OBVIOUS
    <3>. QED
      BY ONLY <3>1, ArgsStep, Zenon
  <2>2a. PICK arg \in ArgAt(s, before.p) : r = [v |-> Append(before.v, arg.v), p |-> arg.p]
    BY <2>2
  <2>3. before.v \in Seq(Seq(Nat)) /\ Len(before.v) = k /\ before.p \in Nat /\ before.p >= p + k
    BY <1>2 DEF ArgsTyped
  <2>4. arg.p \in before.p + 6 .. Len(s) + 1 /\ arg.v \in Seq(Nat)
    BY <2>3, ArgResult
  <2>5. r.v = Append(before.v, arg.v) /\ r.p = arg.p /\ r = [v |-> r.v, p |-> r.p]
    BY <2>2a
  <2>6. r.v \in Seq(Seq(Nat)) /\ Len(r.v) = k + 1
    BY <2>3, <2>4, <2>5, AppendProperties
  <2>7. r.p \in Nat /\ r.p >= p + (k + 1) /\ r.p <= Len(s) + 1
    <3>1. ASSUME NEW x \in Nat, NEW y \in x + 6 .. Len(s) + 1, x >= p + k
          PROVE  y \in Nat /\ y >= p + (k + 1) /\ y <= Len(s) + 1
      BY <1>0, <3>1
    <3>. QED
      BY ONLY <2>3, <2>4, <2>5, <3>1
  <2>. QED
    BY <2>5, <2>6, <2>7 DEF ArgsTyped
<1>. HIDE DEF S
<1>3. \A k \in Nat : k \in S => k + 1 \in S
  <2>. SUFFICES ASSUME NEW k \in Nat, k \in S PROVE k + 1 \in S
    OBVIOUS
  <2>1. k + 1 \in Nat
    OBVIOUS
  <2>2. \A r \in ArgsAt(s, p, k) : ArgsTyped(s, p, k, r)
    BY DEF S
  <2>3. \A r \in ArgsAt(s, p, k + 1) : ArgsTyped(s, p, k + 1, r)
    BY <1>2, <2>2
  <2>. QED
    BY <2>1, <2>3 DEF S
<1>4. Nat \subseteq S
  BY <1>1, <1>3, Induction
<1>. QED
  BY <1>4 DEF S

(* There is at most one.                                                      *)
LEMMA ArgsUnique ==
    ASSUME NEW s \in Seq(Nat), NEW p \in Nat, p <= Len(s) + 1
    PROVE  \A k \in Nat : \A r, x \in ArgsAt(s, p, k) : r = x
<1>. DEFINE S == {k \in Nat : \A r, x \in ArgsAt(s, p, k) : r = x}
<1>1. 0 \in S
  <2>1. ArgsAt(s, p, 0) = {[v |-> <<>>, p |-> p]}
    BY ArgsSteps
  <2>. QED
    BY <2>1
<1>2. ASSUME NEW k \in Nat, \A r, x \in ArgsAt(s, p, k) : r = x,
             NEW r \in ArgsAt(s, p, k + 1), NEW x \in ArgsAt(s, p, k + 1)
      PROVE  r = x
  <2>1. PICK before \in ArgsAt(s, p, k) :
              \E arg \in ArgAt(s, before.p) : r = [v |-> Append(before.v, arg.v), p |-> arg.p]
    <3>1. s \in Seq(Nat) /\ p \in Nat /\ k \in Nat /\ r \in ArgsAt(s, p, k + 1)
      OBVIOUS
    <3>. QED
      BY ONLY <3>1, ArgsStep
  <2>1a. PICK arg \in ArgAt(s, before.p) : r = [v |-> Append(before.v, arg.v), p |-> arg.p]
    BY <2>1
  <2>2. PICK b2 \in ArgsAt(s, p, k) :
              \E a2 \in ArgAt(s, b2.p) : x = [v |-> Append(b2.v, a2.v), p |-> a2.p]
    <3>1. s \in Seq(Nat) /\ p \in Nat /\ k \in Nat /\ x \in ArgsAt(s, p, k + 1)
      OBVIOUS
    <3>. QED
      BY ONLY <3>1, ArgsStep
  <2>2a. PICK a2 \in ArgAt(s, b2.p) : x = [v |-> Append(b2.v, a2.v), p |-> a2.p]
    BY <2>2
  <2>3. before = b2 /\ before.p \in Nat
    BY <1>2, ArgsResult DEF ArgsTyped
  <2>4. arg = a2
    BY <2>3, ArgUnique
  <2>. QED
    BY <2>1a, <2>2a, <2>3, <2>4
<1>. HIDE DEF S
<1>3. \A k \in Nat : k \in S => k + 1 \in S
  <2>. SUFFICES ASSUME NEW k \in Nat, k \in S PROVE k + 1 \in S
    OBVIOUS
  <2>1. k + 1 \in Nat
    OBVIOUS
  <2>2. \A r, x \in ArgsAt(s, p, k) : r = x
    BY DEF S
  <2>3. \A r, x \in ArgsAt(s, p, k + 1) : r = x
    BY <1>2, <2>2
  <2>. QED
    BY <2>1, <2>3 DEF S
<1>4. Nat \subseteq S
  BY <1>1, <1>3, Induction
<1>. QED
  BY <1>4 DEF S

(* Arguments in a piece are arguments in the string,                          *)
LEMMA ArgsGrow ==
    ASSUME NEW t \in Seq(Nat), NEW s \in Seq(Nat), NEW d \in Nat, InWindow(t, s, d),
           NEW p \in Nat \ {0}, p <= Len(t) + 1
    PROVE  \A k \in Nat : \A r \in ArgsAt(t, p, k) :
              [v |-> r.v, p |-> r.p + d] \in ArgsAt(s, p + d, k)
<1>. DEFINE S == {k \in Nat : \A r \in ArgsAt(t, p, k) :
                                 [v |-> r.v, p |-> r.p + d] \in ArgsAt(s, p + d, k)}
<1>0. p \in Nat /\ p + d \in Nat
  OBVIOUS
<1>1. 0 \in S
  <2>1. ArgsAt(t, p, 0) = {[v |-> <<>>, p |-> p]}
    BY ArgsSteps
  <2>2. ArgsAt(s, p + d, 0) = {[v |-> <<>>, p |-> p + d]}
    BY ArgsSteps
  <2>. QED
    BY <2>1, <2>2
<1>2. ASSUME NEW k \in Nat,
             \A r \in ArgsAt(t, p, k) : [v |-> r.v, p |-> r.p + d] \in ArgsAt(s, p + d, k),
             NEW r \in ArgsAt(t, p, k + 1)
      PROVE  [v |-> r.v, p |-> r.p + d] \in ArgsAt(s, p + d, k + 1)
  <2>1. PICK before \in ArgsAt(t, p, k) :
              \E arg \in ArgAt(t, before.p) : r = [v |-> Append(before.v, arg.v), p |-> arg.p]
    <3>1. ArgsAt(t, p, k + 1) = OneMore(t, ArgsAt(t, p, k))
      BY ArgsSteps
    <3>. QED
      BY <3>1 DEF OneMore
  <2>1a. PICK arg \in ArgAt(t, before.p) : r = [v |-> Append(before.v, arg.v), p |-> arg.p]
    BY <2>1
  <2>2. before.p \in Nat /\ before.p >= p + k
    BY <1>0, ArgsResult DEF ArgsTyped
  <2>3. before.p \in Nat \ {0}
    BY <2>2
  <2>. DEFINE b == [v |-> before.v, p |-> before.p + d]
              a == [v |-> arg.v, p |-> arg.p + d]
  <2>4. b \in ArgsAt(s, p + d, k)
    BY <1>2
  <2>5. a \in ArgAt(s, before.p + d)
    BY <2>3, ArgGrows
  <2>6. b.p = before.p + d /\ b.v = before.v /\ a.p = arg.p + d /\ a.v = arg.v
    OBVIOUS
  <2>. HIDE DEF a, b
  <2>7. [v |-> Append(b.v, a.v), p |-> a.p] \in ArgsAt(s, p + d, k + 1)
    BY <1>0, <2>4, <2>5, <2>6, ArgsStepIntro
  <2>. QED
    BY <2>1a, <2>6, <2>7
<1>. HIDE DEF S
<1>3. \A k \in Nat : k \in S => k + 1 \in S
  <2>. SUFFICES ASSUME NEW k \in Nat, k \in S PROVE k + 1 \in S
    OBVIOUS
  <2>1. k + 1 \in Nat
    OBVIOUS
  <2>2. \A r \in ArgsAt(t, p, k) : [v |-> r.v, p |-> r.p + d] \in ArgsAt(s, p + d, k)
    BY DEF S
  <2>3. \A r \in ArgsAt(t, p, k + 1) : [v |-> r.v, p |-> r.p + d] \in ArgsAt(s, p + d, k + 1)
    BY <1>2, <2>2
  <2>. QED
    BY <2>1, <2>3 DEF S
<1>4. Nat \subseteq S
  BY <1>1, <1>3, Induction
<1>. QED
  BY <1>4 DEF S

(* and those in the string that end in the piece are arguments in the piece.  *)
LEMMA ArgsShrink ==
    ASSUME NEW t \in Seq(Nat), NEW s \in Seq(Nat), NEW d \in Nat, InWindow(t, s, d),
           NEW p \in Nat \ {0}, p <= Len(t) + 1
    PROVE  \A k \in Nat : \A r \in ArgsAt(s, p + d, k) :
              r.p - d <= Len(t) + 1 => [v |-> r.v, p |-> r.p - d] \in ArgsAt(t, p, k)
<1>. DEFINE S == {k \in Nat : \A r \in ArgsAt(s, p + d, k) :
              r.p - d <= Len(t) + 1 => [v |-> r.v, p |-> r.p - d] \in ArgsAt(t, p, k)}
<1>0. p \in Nat /\ p + d \in Nat /\ p + d <= Len(s) + 1 /\ Len(t) \in Nat /\ (p + d) - d = p
  BY DEF InWindow
<1>1. 0 \in S
  <2>1. ArgsAt(t, p, 0) = {[v |-> <<>>, p |-> p]}
    BY ArgsSteps
  <2>2. ArgsAt(s, p + d, 0) = {[v |-> <<>>, p |-> p + d]}
    BY ArgsSteps
  <2>. QED
    BY <1>0, <2>1, <2>2
<1>2. ASSUME NEW k \in Nat,
             \A r \in ArgsAt(s, p + d, k) :
              r.p - d <= Len(t) + 1 => [v |-> r.v, p |-> r.p - d] \in ArgsAt(t, p, k),
             NEW r \in ArgsAt(s, p + d, k + 1), r.p - d <= Len(t) + 1
      PROVE  [v |-> r.v, p |-> r.p - d] \in ArgsAt(t, p, k + 1)
  <2>1. PICK before \in ArgsAt(s, p + d, k) :
              \E arg \in ArgAt(s, before.p) : r = [v |-> Append(before.v, arg.v), p |-> arg.p]
    <3>1. ArgsAt(s, p + d, k + 1) = OneMore(s, ArgsAt(s, p + d, k))
      BY ArgsSteps
    <3>. QED
      BY <3>1 DEF OneMore
  <2>1a. PICK arg \in ArgAt(s, before.p) : r = [v |-> Append(before.v, arg.v), p |-> arg.p]
    BY <2>1
  <2>2. before.p \in Nat /\ before.p >= (p + d) + k
    BY <1>0, ArgsResult DEF ArgsTyped
  <2>3. arg.p \in before.p + 6 .. Len(s) + 1 /\ r.p = arg.p /\ r.v = Append(before.v, arg.v)
    BY <2>1a, <2>2, ArgResult
  <2>4. /\ before.p - d \in Nat \ {0} /\ before.p - d \in Nat /\ before.p - d <= Len(t) + 1
        /\ (before.p - d) + d = before.p /\ arg.p - d <= Len(t) + 1
    <3>1. ASSUME NEW x \in Nat, NEW y \in x + 6 .. Len(s) + 1, x >= (p + d) + k, y - d <= Len(t) + 1
          PROVE  x - d \in Nat \ {0} /\ x - d \in Nat /\ x - d <= Len(t) + 1 /\ (x - d) + d = x
      BY ONLY <1>0, <3>1, d \in Nat, k \in Nat, x \in Nat, y \in x + 6 .. Len(s) + 1
    <3>2. arg.p - d <= Len(t) + 1
      BY ONLY <1>2, <2>3
    <3>. QED
      BY ONLY <2>2, <2>3, <3>1, <3>2
  <2>. DEFINE q == before.p - d
              b == [v |-> before.v, p |-> before.p - d]
              a == [v |-> arg.v, p |-> arg.p - d]
  <2>5. b \in ArgsAt(t, p, k)
    BY <1>2, <2>4
  <2>6. a \in ArgAt(t, q)
    <3>. HIDE DEF q
    <3>1. q \in Nat \ {0} /\ arg \in ArgAt(s, q + d) /\ arg.p - d <= Len(t) + 1
      BY <2>4 DEF q
    <3>. QED
      BY <3>1, ArgShrinks
  <2>7. b.p = q /\ b.v = before.v /\ a.p = arg.p - d /\ a.v = arg.v
    OBVIOUS
  <2>. HIDE DEF a, b, q
  <2>8. [v |-> Append(b.v, a.v), p |-> a.p] \in ArgsAt(t, p, k + 1)
    BY <1>0, <2>5, <2>6, <2>7, ArgsStepIntro
  <2>. QED
    BY <2>3, <2>7, <2>8
<1>. HIDE DEF S
<1>3. \A k \in Nat : k \in S => k + 1 \in S
  <2>. SUFFICES ASSUME NEW k \in Nat, k \in S PROVE k + 1 \in S
    OBVIOUS
  <2>1. k + 1 \in Nat
    OBVIOUS
  <2>2. \A r \in ArgsAt(s, p + d, k) :
           r.p - d <= Len(t) + 1 => [v |-> r.v, p |-> r.p - d] \in ArgsAt(t, p, k)
    BY DEF S
  <2>3. \A r \in ArgsAt(s, p + d, k + 1) :
           r.p - d <= Len(t) + 1 => [v |-> r.v, p |-> r.p - d] \in ArgsAt(t, p, k + 1)
    BY <1>2, <2>2
  <2>. QED
    BY <2>1, <2>3 DEF S
<1>4. Nat \subseteq S
  BY <1>1, <1>3, Induction
<1>. QED
  BY <1>4 DEF S

-------------------------------------------------------------------------------
(* Commands.                                                                  *)

(* A command has a count above zero and that many arguments.                  *)
LEMMA CommandElim ==
    ASSUME NEW s \in Seq(Nat), NEW p \in Nat, NEW c \in CommandAt(s, p)
    PROVE  \E argc \in NumberAt(Star, s, p) : argc.v > 0 /\ c \in ArgsAt(s, argc.p, argc.v)
BY DEF CommandAt

(* A count is a number with a position inside the string.                     *)
LEMMA CountType ==
    ASSUME NEW s \in Seq(Nat), NEW p \in Nat, NEW argc \in NumberAt(Star, s, p)
    PROVE  argc.p \in Nat /\ argc.v \in Nat /\ argc.p >= p + 4 /\ argc.p <= Len(s) + 1
<1>1. argc.p \in p + 4 .. Len(s) + 1 /\ argc.v \in Nat /\ Len(s) \in Nat
  BY NumberResult
<1>. QED
  BY <1>1

(* A command is at least one string, and ends behind its beginning.           *)
LEMMA CommandResult ==
    ASSUME NEW s \in Seq(Nat), NEW p \in Nat, NEW c \in CommandAt(s, p)
    PROVE  /\ c.p \in p + 5 .. Len(s) + 1 /\ c.v \in Seq(Seq(Nat)) /\ Len(c.v) > 0
           /\ c = [v |-> c.v, p |-> c.p]
<1>1. PICK argc \in NumberAt(Star, s, p) : argc.v > 0 /\ c \in ArgsAt(s, argc.p, argc.v)
  BY CommandElim
<1>2. argc.p \in Nat /\ argc.v \in Nat /\ argc.p >= p + 4 /\ argc.p <= Len(s) + 1
  BY CountType
<1>3. ArgsTyped(s, argc.p, argc.v, c)
  BY <1>1, <1>2, ArgsResult
<1>4. c.p \in p + 5 .. Len(s) + 1
  <2>1. ASSUME NEW x \in Nat, NEW y \in Nat,
        NEW z \in Nat, x >= p + 4, y > 0, z >= x + y, z <= Len(s) + 1
        PROVE  z \in p + 5 .. Len(s) + 1
    BY <2>1
  <2>. QED
    BY <1>1, <1>2, <1>3, <2>1 DEF ArgsTyped
<1>. QED
  BY <1>1, <1>3, <1>4 DEF ArgsTyped

(* At most one command is parsed at a position.                               *)
LEMMA CommandUnique ==
    ASSUME NEW s \in Seq(Nat), NEW p \in Nat, NEW c \in CommandAt(s, p), NEW x \in CommandAt(s, p)
    PROVE  c = x
<1>1. PICK m \in NumberAt(Star, s, p) : m.v > 0 /\ c \in ArgsAt(s, m.p, m.v)
  BY CommandElim
<1>2. PICK n \in NumberAt(Star, s, p) : n.v > 0 /\ x \in ArgsAt(s, n.p, n.v)
  BY CommandElim
<1>3. m = n
  BY NumberUnique
<1>4. m.p \in Nat /\ m.v \in Nat /\ m.p >= p + 4 /\ m.p <= Len(s) + 1
  BY CountType
<1>. QED
  BY <1>1, <1>2, <1>3, <1>4, ArgsUnique

(* Where n arguments are parsed, so are fewer.                                *)
LEMMA ArgsPrefix ==
    ASSUME NEW s \in Seq(Nat), NEW p \in Nat, NEW n \in Nat, ArgsAt(s, p, n) # {}
    PROVE  \A k \in 0 .. n : ArgsAt(s, p, k) # {}
<1>. DEFINE S == {k \in 0 .. n : ArgsAt(s, p, k) # {}}
<1>1. n \in S
  OBVIOUS
<1>2. ASSUME NEW k \in 0 .. n - 1, ArgsAt(s, p, k + 1) # {}
      PROVE  ArgsAt(s, p, k) # {}
  <2>1. k \in Nat
    OBVIOUS
  <2>2. ArgsAt(s, p, k + 1) = OneMore(s, ArgsAt(s, p, k))
    BY <2>1, ArgsSteps
  <2>. QED
    BY <1>2, <2>2 DEF OneMore
<1>3. ASSUME NEW k \in 0 .. n - 1, k + 1 \in S
      PROVE  k \in S
  <2>1. k \in 0 .. n
    OBVIOUS
  <2>. QED
    BY <1>2, <1>3, <2>1
<1>. HIDE DEF S
<1>4. 0 .. n \subseteq S
  BY <1>1, <1>3, DownwardInduction
<1>. QED
  BY <1>4 DEF S

(* A command that is parsed is not an Error.                                  *)
LEMMA CommandNotBoth ==
    ASSUME NEW s \in Seq(Nat), NEW p \in Nat, CommandAt(s, p) # {}
    PROVE  ~NoCommandAt(s, p)
<1>1. PICK c \in CommandAt(s, p) : TRUE
  OBVIOUS
<1>2. PICK n \in NumberAt(Star, s, p) : n.v > 0 /\ c \in ArgsAt(s, n.p, n.v)
  BY CommandElim
<1>3. n.p \in Nat /\ n.v \in Nat /\ n.p >= p + 4 /\ n.p <= Len(s) + 1
  BY CountType
<1>4. ~NoNumberAt(Star, s, p)
  BY NumberNotBoth
<1>5. ASSUME NEW k \in 0 .. n.v - 1, NEW before \in ArgsAt(s, n.p, k), NoArgAt(s, before.p)
      PROVE  FALSE
  <2>1. k \in Nat /\ k + 1 \in 0 .. n.v
    BY <1>3
  <2>2. ArgsAt(s, n.p, n.v) # {}
    BY <1>2
  <2>3. ArgsAt(s, n.p, k + 1) # {}
    BY <1>3, <2>1, <2>2, ArgsPrefix
  <2>4. ArgsAt(s, n.p, k + 1) = OneMore(s, ArgsAt(s, n.p, k))
    BY <2>1, ArgsSteps
  <2>5. \E b \in ArgsAt(s, n.p, k) : ArgAt(s, b.p) # {}
    <3>1. OneMore(s, ArgsAt(s, n.p, k)) # {}
      BY <2>3, <2>4
    <3>. QED
      BY <3>1 DEF OneMore
  <2>b. PICK b \in ArgsAt(s, n.p, k) : ArgAt(s, b.p) # {}
    BY <2>5
  <2>6. b = before /\ b.p \in Nat
    BY <1>3, <2>1, ArgsUnique, ArgsResult DEF ArgsTyped
  <2>. QED
    BY <1>5, <2>b, <2>6, ArgNotBoth
<1>6. \A m \in NumberAt(Star, s, p) : m = n
  BY NumberUnique
<1>7. n.v # 0
  BY <1>2, <1>3
<1>. QED
  BY <1>4, <1>5, <1>6, <1>7 DEF NoCommandAt

(* A command in a piece is one in the string,                                 *)
LEMMA CommandGrows ==
    ASSUME NEW t \in Seq(Nat), NEW s \in Seq(Nat), NEW d \in Nat, InWindow(t, s, d),
           NEW p \in Nat \ {0}, NEW c \in CommandAt(t, p)
    PROVE  [v |-> c.v, p |-> c.p + d] \in CommandAt(s, p + d)
<1>1. PICK n \in NumberAt(Star, t, p) : n.v > 0 /\ c \in ArgsAt(t, n.p, n.v)
  BY p \in Nat, CommandElim
<1>2. n.p \in Nat /\ n.v \in Nat /\ n.p >= p + 4 /\ n.p <= Len(t) + 1
  BY p \in Nat, CountType
<1>. DEFINE m == [v |-> n.v, p |-> n.p + d]
            q == n.p
<1>3. m \in NumberAt(Star, s, p + d)
  BY NumberGrows
<1>4. q \in Nat \ {0} /\ q <= Len(t) + 1 /\ m.p = q + d /\ m.v = n.v
  BY <1>2
<1>. HIDE DEF m, q
<1>5. c \in ArgsAt(t, q, m.v) /\ m.v \in Nat
  BY <1>1, <1>2, <1>4 DEF q
<1>6. [v |-> c.v, p |-> c.p + d] \in ArgsAt(s, q + d, m.v)
  BY <1>4, <1>5, ArgsGrow
<1>. QED
  BY <1>1, <1>3, <1>4, <1>6 DEF CommandAt

(* and one in the string that ends in the piece is one in the piece.          *)
LEMMA CommandShrinks ==
    ASSUME NEW t \in Seq(Nat), NEW s \in Seq(Nat), NEW d \in Nat, InWindow(t, s, d),
           NEW p \in Nat \ {0}, NEW c \in CommandAt(s, p + d), c.p - d <= Len(t) + 1
    PROVE  [v |-> c.v, p |-> c.p - d] \in CommandAt(t, p)
<1>0. Len(t) \in Nat /\ p \in Nat /\ p + d \in Nat
  OBVIOUS
<1>1. PICK n \in NumberAt(Star, s, p + d) : n.v > 0 /\ c \in ArgsAt(s, n.p, n.v)
  BY <1>0, CommandElim
<1>2. n.p \in Nat /\ n.v \in Nat /\ n.p >= (p + d) + 4 /\ n.p <= Len(s) + 1
  BY <1>0, CountType
<1>3. c.p \in Nat /\ c.p >= n.p + n.v
  BY <1>1, <1>2, ArgsResult DEF ArgsTyped
<1>. DEFINE m == [v |-> n.v, p |-> n.p - d]
            q == n.p - d
<1>4. /\ q \in Nat \ {0} /\ q <= Len(t) + 1 /\ q + d = n.p /\ m.p = q /\ m.v = n.v
      /\ n.p - d <= Len(t) + 1
  <2>1. ASSUME NEW x \in Nat, NEW y \in Nat, NEW z \in Nat, x >= (p + d) + 4,
               z >= x + y, z - d <= Len(t) + 1
        PROVE  x - d \in Nat \ {0} /\ x - d <= Len(t) + 1 /\ (x - d) + d = x
    BY <1>0, <2>1
  <2>2. q \in Nat \ {0} /\ q <= Len(t) + 1 /\ q + d = n.p
    BY ONLY <1>2, <1>3, <2>1, c.p - d <= Len(t) + 1
  <2>. QED
    BY <2>2
<1>5. m \in NumberAt(Star, t, p)
  BY <1>4, NumberShrinks
<1>. HIDE DEF m, q
<1>6. c \in ArgsAt(s, q + d, m.v) /\ m.v \in Nat
  BY <1>1, <1>2, <1>4
<1>7. [v |-> c.v, p |-> c.p - d] \in ArgsAt(t, q, m.v)
  BY <1>4, <1>6, ArgsShrink
<1>. QED
  BY <1>1, <1>4, <1>5, <1>7 DEF CommandAt

(* An Error in a piece is one in the string,                                  *)
LEMMA NoCommandGrows ==
    ASSUME NEW t \in Seq(Nat), NEW s \in Seq(Nat), NEW d \in Nat, InWindow(t, s, d),
           NEW p \in Nat \ {0}, NoCommandAt(t, p)
    PROVE  NoCommandAt(s, p + d)
<1>1. CASE NoNumberAt(Star, t, p)
  BY <1>1, NoNumberGrows DEF NoCommandAt
<1>2. ASSUME NEW n \in NumberAt(Star, t, p), n.v = 0
      PROVE  NoCommandAt(s, p + d)
  <2>1. [v |-> n.v, p |-> n.p + d] \in NumberAt(Star, s, p + d)
    BY NumberGrows
  <2>. QED
    BY <1>2, <2>1 DEF NoCommandAt
<1>3. ASSUME NEW n \in NumberAt(Star, t, p),
             NEW k \in 0 .. n.v - 1, NEW before \in ArgsAt(t, n.p, k), NoArgAt(t, before.p)
      PROVE  NoCommandAt(s, p + d)
  <2>1. n.p \in Nat /\ n.v \in Nat /\ n.p >= p + 4 /\ n.p <= Len(t) + 1
    BY p \in Nat, CountType
  <2>. DEFINE m == [v |-> n.v, p |-> n.p + d]
              q == n.p
              b == [v |-> before.v, p |-> before.p + d]
              z == before.p
  <2>2. m \in NumberAt(Star, s, p + d)
    BY NumberGrows
  <2>3. q \in Nat \ {0} /\ q <= Len(t) + 1 /\ m.p = q + d /\ m.v = n.v /\ k \in Nat /\ b.p = z + d
    BY <2>1
  <2>4. ArgsTyped(t, n.p, k, before)
    BY <2>1, <2>3, ArgsResult
  <2>5. z \in Nat \ {0}
    BY <2>1, <2>4 DEF ArgsTyped
  <2>6. b \in ArgsAt(s, q + d, k)
    BY <2>3, ArgsGrow
  <2>7. NoArgAt(s, z + d)
    BY <1>3, <2>5, NoArgGrows
  <2>. HIDE DEF m, q, b, z
  <2>. QED
    BY <2>2, <2>3, <2>6, <2>7 DEF NoCommandAt
<1>. QED
  BY <1>1, <1>2, <1>3 DEF NoCommandAt

(* and one in the string is found in every piece that reaches the string's    *)
(* end.                                                                       *)
LEMMA NoCommandShrinks ==
    ASSUME NEW t \in Seq(Nat), NEW s \in Seq(Nat),
           NEW d \in Nat, InWindow(t, s, d), d + Len(t) = Len(s),
           NEW p \in Nat \ {0}, NoCommandAt(s, p + d)
    PROVE  NoCommandAt(t, p)
<1>0. Len(t) \in Nat /\ Len(s) \in Nat /\ p \in Nat /\ p + d \in Nat
  OBVIOUS
<1>a. ASSUME NEW n \in NumberAt(Star, s, p + d)
      PROVE  /\ n.p \in Nat /\ n.v \in Nat /\ n.p <= Len(s) + 1
             /\ n.p - d \in Nat \ {0} /\ n.p - d <= Len(t) + 1 /\ (n.p - d) + d = n.p
             /\ [v |-> n.v, p |-> n.p - d] \in NumberAt(Star, t, p)
  <2>1. n.p \in Nat /\ n.v \in Nat /\ n.p >= (p + d) + 4 /\ n.p <= Len(s) + 1
    BY <1>0, CountType
  <2>2. ASSUME NEW x \in Nat, x >= (p + d) + 4, x <= Len(s) + 1
        PROVE  x - d \in Nat \ {0} /\ x - d <= Len(t) + 1 /\ (x - d) + d = x
    BY <1>0, <2>2
  <2>3. n.p - d \in Nat \ {0} /\ n.p - d <= Len(t) + 1 /\ (n.p - d) + d = n.p
    BY ONLY <2>1, <2>2
  <2>4. [v |-> n.v, p |-> n.p - d] \in NumberAt(Star, t, p)
    BY <2>3, NumberShrinks
  <2>. QED
    BY <2>1, <2>3, <2>4
<1>1. CASE NoNumberAt(Star, s, p + d)
  BY <1>1, NoNumberShrinks DEF NoCommandAt
<1>2. ASSUME NEW n \in NumberAt(Star, s, p + d), n.v = 0
      PROVE  NoCommandAt(t, p)
  BY <1>a, <1>2 DEF NoCommandAt
<1>3. ASSUME NEW n \in NumberAt(Star, s, p + d),
             NEW k \in 0 .. n.v - 1, NEW before \in ArgsAt(s, n.p, k), NoArgAt(s, before.p)
      PROVE  NoCommandAt(t, p)
  <2>. DEFINE m == [v |-> n.v, p |-> n.p - d]
              q == n.p - d
              b == [v |-> before.v, p |-> before.p - d]
              z == before.p - d
  <2>1. /\ q \in Nat \ {0} /\ q <= Len(t) + 1 /\ q + d = n.p /\ m.p = q /\ m.v = n.v
        /\ m \in NumberAt(Star, t, p) /\ k \in Nat /\ b.p = z /\ n.p \in Nat /\ n.p <= Len(s) + 1
    BY <1>a
  <2>2. ArgsTyped(s, n.p, k, before)
    BY <2>1, ArgsResult
  <2>3. z \in Nat \ {0} /\ z + d = before.p /\ before.p - d <= Len(t) + 1
    <3>1. ASSUME NEW x \in Nat, NEW y \in Nat, x - d \in Nat \ {0}, y >= x + k, y <= Len(s) + 1
          PROVE  y - d \in Nat \ {0} /\ (y - d) + d = y /\ y - d <= Len(t) + 1
      <4>1. k \in Nat
        BY <2>1
      <4>. QED
        BY ONLY <1>0, <3>1, <4>1, d \in Nat, d + Len(t) = Len(s)
    <3>2. before.p \in Nat /\ before.p >= n.p + k /\ before.p <= Len(s) + 1
      BY <2>2 DEF ArgsTyped
    <3>. QED
      BY ONLY <2>1, <3>1, <3>2
  <2>. HIDE DEF m, q, z
  <2>4. b \in ArgsAt(t, q, k)
    <3>1. before \in ArgsAt(s, q + d, k)
      BY <2>1
    <3>. QED
      BY <2>1, <2>3, <3>1, ArgsShrink
  <2>5. NoArgAt(t, z)
    <3>1. NoArgAt(s, z + d)
      BY <1>3, <2>3
    <3>. QED
      BY <2>3, <3>1, NoArgShrinks
  <2>. HIDE DEF b
  <2>. QED
    BY <2>1, <2>4, <2>5 DEF NoCommandAt
<1>. QED
  BY <1>1, <1>2, <1>3 DEF NoCommandAt

-------------------------------------------------------------------------------
(* Chains of commands.                                                        *)

(* What a parse yields: a command and the position behind it.                 *)
Res == [v : Seq(Seq(Nat)), p : Nat]

(* Where the i-th command of a chain ends that begins at p.                   *)
At(p, c, i) == IF i = 0 THEN p ELSE c[i].p

(* The chains from p: each command is parsed where the one before it ends,    *)
(* and behind the last none is.                                               *)
Chains(s, p) ==
    {c \in Seq(Res) : /\ \A i \in 1 .. Len(c) : c[i] \in CommandAt(s, At(p, c, i - 1))
                      /\ CommandAt(s, At(p, c, Len(c))) = {}}

(* What CommandAt yields is of this type, and goes forward.                   *)
LEMMA CommandTyped ==
    ASSUME NEW s \in Seq(Nat), NEW p \in Nat, NEW c \in CommandAt(s, p)
    PROVE  c \in Res /\ c.p \in Nat /\ c.p >= p + 5 /\ c.p <= Len(s) + 1
<1>1. /\ c.p \in p + 5 .. Len(s) + 1 /\ c.v \in Seq(Seq(Nat))
      /\ c = [v |-> c.v, p |-> c.p]
  BY CommandResult
<1>. DEFINE x == c.p
            y == c.v
<1>2. x \in Nat /\ x >= p + 5 /\ x <= Len(s) + 1
  <2>1. x \in p + 5 .. Len(s) + 1 /\ Len(s) \in Nat
    BY <1>1
  <2>. HIDE DEF x
  <2>. QED
    BY ONLY <2>1, p \in Nat
<1>3. c = [v |-> y, p |-> x] /\ y \in Seq(Seq(Nat))
  BY <1>1
<1>4. c \in Res
  <2>. HIDE DEF x, y
  <2>. QED
    BY ONLY <1>2, <1>3 DEF Res
<1>. QED
  BY <1>2, <1>4

(* Nothing is parsed behind the end.                                          *)
LEMMA NothingBehind ==
    ASSUME NEW s \in Seq(Nat), NEW p \in Nat, p > Len(s)
    PROVE  CommandAt(s, p) = {}
<1>1. SUFFICES ASSUME NEW c \in CommandAt(s, p) PROVE FALSE
  OBVIOUS
<1>2. c.p \in Nat /\ c.p >= p + 5 /\ c.p <= Len(s) + 1 /\ Len(s) \in Nat
  BY CommandTyped
<1>. QED
  BY ONLY <1>2, p \in Nat, p > Len(s)

(* A result put before others,                                                *)
LEMMA ConsProperties ==
    ASSUME NEW c \in Res, NEW r \in Seq(Res)
    PROVE  /\ <<c>> \o r \in Seq(Res) /\ Len(<<c>> \o r) = Len(r) + 1 /\ (<<c>> \o r)[1] = c
           /\ \A i \in 1 .. Len(r) : (<<c>> \o r)[i + 1] = r[i]
<1>1. <<c>> \in Seq(Res) /\ Len(<<c>>) = 1 /\ <<c>>[1] = c /\ Len(r) \in Nat
  OBVIOUS
<1>2. /\ <<c>> \o r \in Seq(Res)
      /\ Len(<<c>> \o r) = Len(<<c>>) + Len(r)
      /\ \A i \in 1 .. Len(<<c>>) + Len(r) :
            (<<c>> \o r)[i] = IF i <= Len(<<c>>) THEN <<c>>[i] ELSE r[i - Len(<<c>>)]
  BY <1>1, ConcatProperties
<1>3. ASSUME NEW i \in 1 .. Len(r) PROVE (<<c>> \o r)[i + 1] = r[i]
  <2>1. i + 1 \in 1 .. Len(<<c>>) + Len(r) /\ ~(i + 1 <= Len(<<c>>)) /\ (i + 1) - Len(<<c>>) = i
    BY <1>1
  <2>. QED
    BY <1>2, <2>1
<1>4. (<<c>> \o r)[1] = c
  BY <1>1, <1>2
<1>. QED
  BY <1>1, <1>2, <1>3, <1>4

(* and a first result taken off.                                              *)
LEMMA Uncons ==
    ASSUME NEW x \in Seq(Res), Len(x) > 0
    PROVE  /\ x[1] \in Res /\ Tail(x) \in Seq(Res) /\ x = <<x[1]>> \o Tail(x)
           /\ Len(Tail(x)) = Len(x) - 1
<1>1. x # <<>> /\ Len(x) \in Nat
  OBVIOUS
<1>2. /\ Head(x) \in Res /\ Tail(x) \in Seq(Res) /\ Len(Tail(x)) = Len(x) - 1
      /\ \A i \in 1 .. Len(Tail(x)) : Tail(x)[i] = x[i + 1]
  BY <1>1, HeadTailProperties
<1>3. Head(x) = x[1]
  OBVIOUS
<1>. DEFINE y == <<x[1]>> \o Tail(x)
<1>4. /\ y \in Seq(Res) /\ Len(y) = Len(Tail(x)) + 1 /\ y[1] = x[1]
      /\ \A i \in 1 .. Len(Tail(x)) : y[i + 1] = Tail(x)[i]
  BY <1>2, <1>3, ConsProperties
<1>. HIDE DEF y
<1>5. ASSUME NEW i \in 1 .. Len(x) PROVE x[i] = y[i]
  <2>1. CASE i = 1
    BY <1>4, <2>1
  <2>2. CASE i # 1
    <3>1. i - 1 \in 1 .. Len(Tail(x)) /\ (i - 1) + 1 = i
      BY <1>1, <1>2, <2>2
    <3>. QED
      BY <1>2, <1>4, <3>1
  <2>. QED
    BY <2>1, <2>2
<1>6. Len(x) = Len(y)
  BY <1>1, <1>2, <1>4
<1>7. x = y
  BY <1>4, <1>5, <1>6, SeqEqual
<1>. QED
  BY <1>2, <1>3, <1>7 DEF y

(* Where the commands end then.                                               *)
LEMMA ConsAt ==
    ASSUME NEW c \in Res, NEW r \in Seq(Res), NEW p \in Nat
    PROVE  /\ At(p, <<c>> \o r, 0) = p
           /\ \A i \in 0 .. Len(r) : At(p, <<c>> \o r, i + 1) = At(c.p, r, i)
<1>1. /\ (<<c>> \o r)[1] = c /\ \A i \in 1 .. Len(r) : (<<c>> \o r)[i + 1] = r[i]
  BY ConsProperties
<1>2. ASSUME NEW i \in 0 .. Len(r) PROVE At(p, <<c>> \o r, i + 1) = At(c.p, r, i)
  <2>1. i + 1 # 0
    OBVIOUS
  <2>2. CASE i = 0
    BY <1>1, <2>2 DEF At
  <2>3. CASE i # 0
    <3>1. i \in 1 .. Len(r)
      BY <2>3
    <3>. QED
      BY <1>1, <2>1, <2>3, <3>1 DEF At
  <2>. QED
    BY <2>2, <2>3
<1>. QED
  BY <1>2 DEF At

(* A command and a chain from its end are a chain;                            *)
LEMMA ChainCons ==
    ASSUME NEW s \in Seq(Nat), NEW p \in Nat, NEW c \in CommandAt(s, p), NEW r \in Chains(s, c.p)
    PROVE  <<c>> \o r \in Chains(s, p)
<1>1. c \in Res /\ r \in Seq(Res) /\ Len(r) \in Nat
  BY CommandTyped DEF Chains
<1>. DEFINE x == <<c>> \o r
<1>2. x \in Seq(Res) /\ Len(x) = Len(r) + 1 /\ x[1] = c /\ \A i \in 1 .. Len(r) : x[i + 1] = r[i]
  BY <1>1, ConsProperties
<1>3. At(p, x, 0) = p /\ \A i \in 0 .. Len(r) : At(p, x, i + 1) = At(c.p, r, i)
  BY <1>1, ConsAt
<1>. HIDE DEF x
<1>4. ASSUME NEW i \in 1 .. Len(x) PROVE x[i] \in CommandAt(s, At(p, x, i - 1))
  <2>1. CASE i = 1
    BY <1>2, <1>3, <2>1
  <2>2. CASE i # 1
    <3>1. i - 1 \in 1 .. Len(r) /\ i - 2 \in 0 .. Len(r) /\ (i - 1) + 1 = i /\ (i - 2) + 1 = i - 1
          /\ (i - 1) - 1 = i - 2
      BY <1>1, <1>2, <2>2
    <3>2. x[i] = r[i - 1] /\ At(p, x, i - 1) = At(c.p, r, i - 2)
      BY <1>2, <1>3, <3>1
    <3>3. r[i - 1] \in CommandAt(s, At(c.p, r, (i - 1) - 1))
      BY <3>1 DEF Chains
    <3>. QED
      BY <3>1, <3>2, <3>3
  <2>. QED
    BY <2>1, <2>2
<1>5. CommandAt(s, At(p, x, Len(x))) = {}
  BY <1>1, <1>2, <1>3 DEF Chains
<1>. QED
  BY <1>2, <1>4, <1>5 DEF Chains, x

(* and a chain that begins with a command continues as one from its end.      *)
LEMMA ChainUncons ==
    ASSUME NEW s \in Seq(Nat), NEW p \in Nat, NEW c \in CommandAt(s, p), NEW x \in Chains(s, p)
    PROVE  \E r \in Chains(s, c.p) : x = <<c>> \o r /\ Len(x) = Len(r) + 1
<1>1. x \in Seq(Res) /\ Len(x) \in Nat
  BY DEF Chains
<1>2. Len(x) > 0
  <2>1. SUFFICES ASSUME Len(x) = 0 PROVE FALSE
    BY <1>1
  <2>. QED
    BY <2>1 DEF Chains, At
<1>3. x[1] \in CommandAt(s, p)
  <2>1. 1 \in 1 .. Len(x) /\ 1 - 1 = 0
    BY <1>1, <1>2
  <2>. QED
    BY <2>1 DEF Chains, At
<1>4. x[1] = c
  BY <1>3, CommandUnique
<1>. DEFINE r == Tail(x)
<1>5. c \in Res /\ r \in Seq(Res) /\ x = <<c>> \o r /\ Len(r) = Len(x) - 1 /\ Len(r) \in Nat
  BY <1>1, <1>2, <1>4, Uncons
<1>6. Len(x) = Len(r) + 1 /\ \A i \in 1 .. Len(r) : x[i + 1] = r[i]
  BY <1>5, ConsProperties
<1>7. \A i \in 0 .. Len(r) : At(p, x, i + 1) = At(c.p, r, i)
  <2>1. \A i \in 0 .. Len(r) : At(p, <<c>> \o r, i + 1) = At(c.p, r, i)
    BY ONLY <1>5, p \in Nat, ConsAt
  <2>. QED
    BY ONLY <1>5, <2>1
<1>. HIDE DEF r
<1>8. ASSUME NEW i \in 1 .. Len(r) PROVE r[i] \in CommandAt(s, At(c.p, r, i - 1))
  <2>1. i + 1 \in 1 .. Len(x) /\ i - 1 \in 0 .. Len(r) /\ (i + 1) - 1 = i /\ (i - 1) + 1 = i
    BY <1>5, <1>6
  <2>2. x[i + 1] \in CommandAt(s, At(p, x, (i + 1) - 1))
    BY <2>1 DEF Chains
  <2>3. At(p, x, i) = At(c.p, r, i - 1)
    BY <1>7, <2>1
  <2>. QED
    BY <1>6, <2>1, <2>2, <2>3
<1>9. CommandAt(s, At(c.p, r, Len(r))) = {}
  <2>1. Len(r) \in 0 .. Len(r)
    BY <1>5
  <2>2. At(p, x, Len(x)) = At(c.p, r, Len(r))
    BY <1>6, <1>7, <2>1
  <2>3. CommandAt(s, At(p, x, Len(x))) = {}
    BY DEF Chains
  <2>. QED
    BY <2>2, <2>3
<1>. QED
  BY <1>5, <1>6, <1>8, <1>9 DEF Chains

(* There is a chain from every position: a command has at least five bytes,   *)
(* so the last is reached.                                                    *)
LEMMA ChainExists ==
    ASSUME NEW s \in Seq(Nat)
    PROVE  \A p \in 0 .. Len(s) + 1 : Chains(s, p) # {}
<1>1. Len(s) \in Nat /\ Len(s) + 1 \in Nat
  OBVIOUS
<1>. DEFINE S == {p \in 0 .. Len(s) + 1 : \A q \in p .. Len(s) + 1 : Chains(s, q) # {}}
<1>2. ASSUME NEW p \in 0 .. Len(s) + 1, \A q \in p + 1 .. Len(s) + 1 : Chains(s, q) # {}
      PROVE  Chains(s, p) # {}
  <2>1. p \in Nat
    OBVIOUS
  <2>2. CASE CommandAt(s, p) = {}
    <3>1. <<>> \in Seq(Res) /\ Len(<<>>) = 0
      OBVIOUS
    <3>2. <<>> \in Chains(s, p)
      BY <2>2, <3>1 DEF Chains, At
    <3>. QED
      BY <3>2
  <2>3. ASSUME NEW c \in CommandAt(s, p) PROVE Chains(s, p) # {}
    <3>1. c.p \in Nat /\ c.p >= p + 5 /\ c.p <= Len(s) + 1
      BY <2>1, CommandTyped
    <3>2. c.p \in p + 1 .. Len(s) + 1
      BY <1>1, <2>1, <3>1
    <3>3. PICK r \in Chains(s, c.p) : TRUE
      BY <1>2, <3>2
    <3>. QED
      BY <2>1, <3>3, ChainCons
  <2>. QED
    BY <2>2, <2>3
<1>3. Len(s) + 1 \in S
  <2>1. Len(s) + 1 \in 0 .. Len(s) + 1
    BY <1>1
  <2>2. Chains(s, Len(s) + 1) # {}
    BY <1>1, <1>2, <2>1
  <2>3. \A q \in Len(s) + 1 .. Len(s) + 1 : q = Len(s) + 1
    BY <1>1
  <2>. QED
    BY <2>1, <2>2, <2>3
<1>4. ASSUME NEW p \in 0 .. (Len(s) + 1) - 1, p + 1 \in S PROVE p \in S
  <2>1. p \in 0 .. Len(s) + 1 /\ \A q \in p .. Len(s) + 1 : q = p \/ q \in p + 1 .. Len(s) + 1
    BY <1>1
  <2>2. \A q \in p + 1 .. Len(s) + 1 : Chains(s, q) # {}
    BY <1>4
  <2>3. Chains(s, p) # {}
    BY <1>2, <2>1, <2>2
  <2>. QED
    BY <2>1, <2>2, <2>3
<1>. HIDE DEF S
<1>5. 0 .. Len(s) + 1 \subseteq S
  BY <1>1, <1>3, <1>4, DownwardInduction
<1>. QED
  <2>1. ASSUME NEW p \in 0 .. Len(s) + 1 PROVE p \in p .. Len(s) + 1
    BY <1>1
  <2>. QED
    BY <1>5, <2>1 DEF S

(* The commands of a chain end one behind the other, inside the string.       *)
LEMMA ChainPositions ==
    ASSUME NEW s \in Seq(Nat), NEW p \in 0 .. Len(s) + 1, NEW c \in Chains(s, p)
    PROVE  \A j \in 0 .. Len(c) : /\ At(p, c, j) \in Nat /\ At(p, c, j) <= Len(s) + 1
                                  /\ \A i \in 0 .. j : At(p, c, i) + (j - i) <= At(p, c, j)
<1>1. c \in Seq(Res) /\ Len(c) \in Nat /\ Len(s) \in Nat /\ p \in Nat /\ p <= Len(s) + 1
  BY DEF Chains
<1>. DEFINE S == {j \in 0 .. Len(c) : /\ At(p, c, j) \in Nat /\ At(p, c, j) <= Len(s) + 1
                                      /\ \A i \in 0 .. j : At(p, c, i) \in Nat
                                         /\ At(p, c, i) + (j - i) <= At(p, c, j)}
<1>2. 0 \in S
  <2>1. 0 \in 0 .. Len(c) /\ \A i \in 0 .. 0 : i = 0
    BY <1>1
  <2>2. At(p, c, 0) = p
    BY DEF At
  <2>3. p + (0 - 0) <= p
    BY <1>1
  <2>. QED
    BY <1>1, <2>1, <2>2, <2>3
<1>3. ASSUME NEW j \in 0 .. Len(c) - 1, j \in S PROVE j + 1 \in S
  <2>1. j \in Nat /\ j + 1 \in 1 .. Len(c) /\ (j + 1) - 1 = j /\ j + 1 # 0 /\ j + 1 \in 0 .. Len(c)
    BY <1>1
  <2>2. c[j + 1] \in CommandAt(s, At(p, c, j))
    BY <2>1 DEF Chains
  <2>. DEFINE x == At(p, c, j)
              y == At(p, c, j + 1)
  <2>3. x \in Nat /\ \A i \in 0 .. j : At(p, c, i) \in Nat /\ At(p, c, i) + (j - i) <= x
    BY <1>3
  <2>4. y = c[j + 1].p
    BY <2>1 DEF At
  <2>5. y \in Nat /\ y >= x + 5 /\ y <= Len(s) + 1
    BY <2>2, <2>3, <2>4, CommandTyped
  <2>6. ASSUME NEW i \in 0 .. j + 1 PROVE At(p, c, i) \in Nat /\ At(p, c, i) + ((j + 1) - i) <= y
    <3>1. CASE i = j + 1
      BY <2>1, <2>5, <3>1
    <3>2. CASE i # j + 1
      <4>. DEFINE z == At(p, c, i)
      <4>1. i \in 0 .. j
        BY <2>1, <3>2
      <4>2. z \in Nat /\ z + (j - i) <= x
        BY <2>3, <4>1
      <4>. HIDE DEF x, y, z
      <4>3. z + ((j + 1) - i) <= y
        BY <2>1, <2>3, <2>5, <4>1, <4>2
      <4>. QED
        BY <4>2, <4>3 DEF z
    <3>. QED
      BY <3>1, <3>2
  <2>. QED
    BY <2>1, <2>5, <2>6
<1>. HIDE DEF S
<1>4. 0 .. Len(c) \subseteq S
  BY <1>1, <1>2, <1>3, BoundedInduction
<1>. QED
  BY <1>4 DEF S

(* Where no command is parsed, only the empty chain begins.                   *)
LEMMA ChainStops ==
    ASSUME NEW s \in Seq(Nat), NEW p \in Nat, CommandAt(s, p) = {}
    PROVE  Chains(s, p) = {<<>>}
<1>1. <<>> \in Seq(Res) /\ Len(<<>>) = 0
  OBVIOUS
<1>2. <<>> \in Chains(s, p)
  BY <1>1 DEF Chains, At
<1>3. ASSUME NEW x \in Chains(s, p) PROVE x = <<>>
  <2>1. SUFFICES ASSUME x # <<>> PROVE FALSE
    OBVIOUS
  <2>2. x \in Seq(Res)
    BY DEF Chains
  <2>3. 1 \in 1 .. Len(x) /\ 1 - 1 = 0
    BY <2>1, <2>2, EmptySeq
  <2>4. x[1] \in CommandAt(s, At(p, x, 0))
    BY <2>3 DEF Chains
  <2>. QED
    BY <2>4 DEF At
<1>. QED
  BY <1>2, <1>3

(* Where one is, every chain begins with it.                                  *)
LEMMA ChainSteps ==
    ASSUME NEW s \in Seq(Nat), NEW p \in Nat, NEW c \in CommandAt(s, p)
    PROVE  CommandAt(s, p) = {c} /\ Chains(s, p) = {<<c>> \o r : r \in Chains(s, c.p)}
<1>1. CommandAt(s, p) = {c}
  BY CommandUnique
<1>2. \A r \in Chains(s, c.p) : <<c>> \o r \in Chains(s, p)
  BY ChainCons
<1>3. \A x \in Chains(s, p) : \E r \in Chains(s, c.p) : x = <<c>> \o r
  BY ChainUncons
<1>. QED
  BY ONLY <1>1, <1>2, <1>3

(* Of two chains from a position the first is a beginning of the second,      *)
LEMMA ChainPrefix ==
    ASSUME NEW s \in Seq(Nat), NEW p \in 0 .. Len(s) + 1, NEW x \in Chains(s, p),
           NEW y \in Chains(s, p)
    PROVE  Len(x) <= Len(y) /\ \A i \in 1 .. Len(x) : x[i] = y[i]
<1>1. x \in Seq(Res) /\ y \in Seq(Res) /\ Len(x) \in Nat /\ Len(y) \in Nat
  BY DEF Chains
<1>. DEFINE S == {i \in 0 .. Len(x) : i <= Len(y) /\ \A j \in 1 .. i : x[j] = y[j]}
<1>2. 0 \in S
  BY <1>1
<1>3. ASSUME NEW i \in 0 .. Len(x) - 1, i \in S PROVE i + 1 \in S
  <2>1. i \in Nat /\ i + 1 \in 1 .. Len(x) /\ (i + 1) - 1 = i /\ i <= Len(y)
        /\ i + 1 \in 0 .. Len(x) /\ i \in 0 .. Len(x)
    BY <1>1, <1>3
  <2>2. At(p, x, i) = At(p, y, i)
    <3>1. i = 0 \/ i \in 1 .. i
      BY <2>1
    <3>. QED
      BY <1>3, <3>1 DEF At
  <2>3. x[i + 1] \in CommandAt(s, At(p, x, i))
    BY <2>1 DEF Chains
  <2>4. i # Len(y)
    BY <2>2, <2>3 DEF Chains
  <2>5. i + 1 \in 1 .. Len(y) /\ i + 1 <= Len(y)
    BY <1>1, <2>1, <2>4
  <2>6. y[i + 1] \in CommandAt(s, At(p, x, i))
    BY <2>1, <2>2, <2>5 DEF Chains
  <2>7. At(p, x, i) \in Nat
    BY <2>1, ChainPositions
  <2>8. x[i + 1] = y[i + 1]
    BY <2>3, <2>6, <2>7, CommandUnique
  <2>9. ASSUME NEW j \in 1 .. i + 1 PROVE x[j] = y[j]
    <3>1. j = i + 1 \/ j \in 1 .. i
      BY <2>1
    <3>. QED
      BY <1>3, <2>8, <3>1
  <2>. QED
    BY <2>1, <2>5, <2>9
<1>. HIDE DEF S
<1>4. 0 .. Len(x) \subseteq S
  BY <1>1, <1>2, <1>3, BoundedInduction
<1>5. Len(x) \in S
  BY <1>1, <1>4
<1>. QED
  BY <1>5 DEF S

(* so they are the same.                                                      *)
LEMMA ChainUnique ==
    ASSUME NEW s \in Seq(Nat), NEW p \in 0 .. Len(s) + 1, NEW x \in Chains(s, p),
           NEW y \in Chains(s, p)
    PROVE  x = y
<1>1. x \in Seq(Res) /\ y \in Seq(Res) /\ Len(x) \in Nat /\ Len(y) \in Nat
  BY DEF Chains
<1>2. Len(x) <= Len(y) /\ Len(y) <= Len(x) /\ \A i \in 1 .. Len(x) : x[i] = y[i]
  BY ChainPrefix
<1>. QED
  BY <1>1, <1>2, SeqEqual

-----------------------------------------------------------------------------

-------------------------------------------------------------------------------
(* The commands of a chain.                                                   *)

(* The commands of a chain.                                                   *)
Values(x) == [i \in 1 .. Len(x) |-> x[i].v]

(* The result of CommandsOf for a chain.                                      *)
Parsed(p, x) == [v |-> Values(x), p |-> At(p, x, Len(x))]

(* The function that CommandsOf chooses.                                      *)
CommandsFrom(from, s) ==
    from = [p \in Nat |->
              IF CommandAt(s, p) = {} THEN {[v |-> <<>>, p |-> p]}
              ELSE UNION {{[v |-> <<c.v>> \o rest.v, p |-> rest.p] : rest \in from[c.p]} :
                             c \in CommandAt(s, p)}]

(* The commands of a chain with one more before it,                           *)
LEMMA ValuesCons ==
    ASSUME NEW c \in Res, NEW r \in Seq(Res)
    PROVE  Values(<<c>> \o r) = <<c.v>> \o Values(r)
<1>. DEFINE x == <<c>> \o r
            V == Seq(Seq(Nat))
<1>1. x \in Seq(Res) /\ Len(x) = Len(r) + 1 /\ x[1] = c /\ \A i \in 1 .. Len(r) : x[i + 1] = r[i]
  BY ConsProperties
<1>2. Len(r) \in Nat /\ Len(x) \in Nat /\ c.v \in V /\ (\A i \in 1 .. Len(r) : r[i].v \in V)
      /\ \A i \in 1 .. Len(x) : x[i].v \in V
  <2>1. Len(r) \in Nat /\ Len(x) \in Nat /\ \A i \in 1 .. Len(r) : r[i] \in Res
    BY <1>1, ElementOfSeq
  <2>2. \A i \in 1 .. Len(x) : x[i] \in Res
    BY <1>1, ElementOfSeq
  <2>3. \A y \in Res : y.v \in V
    BY DEF Res
  <2>. HIDE DEF x, V
  <2>. QED
    BY <2>1, <2>2, <2>3
<1>. HIDE DEF x, V
<1>3. Values(r) \in Seq(V) /\ Len(Values(r)) = Len(r)
      /\ \A i \in 1 .. Len(r) : Values(r)[i] = r[i].v
  BY <1>2 DEF Values
<1>4. Values(x) \in Seq(V) /\ Len(Values(x)) = Len(x)
      /\ \A i \in 1 .. Len(x) : Values(x)[i] = x[i].v
  BY <1>2 DEF Values
<1>5. <<c.v>> \in Seq(V) /\ Len(<<c.v>>) = 1 /\ <<c.v>>[1] = c.v
  BY <1>2
<1>. DEFINE one == <<c.v>>
            y == one \o Values(r)
<1>6. /\ y \in Seq(V) /\ Len(y) = Len(one) + Len(Values(r))
      /\ \A i \in 1 .. Len(one) + Len(Values(r)) :
            y[i] = IF i <= Len(one) THEN one[i] ELSE Values(r)[i - Len(one)]
  BY <1>3, <1>5, ConcatProperties
<1>7. Len(one) = 1 /\ one[1] = c.v
  BY <1>5
<1>. HIDE DEF y, one
<1>8. ASSUME NEW i \in 1 .. Len(x) PROVE Values(x)[i] = y[i]
  <2>1. CASE i = 1
    BY <1>1, <1>2, <1>3, <1>4, <1>6, <1>7, <2>1
  <2>2. CASE i # 1
    <3>1. i - 1 \in 1 .. Len(r) /\ (i - 1) + 1 = i /\ ~(i <= 1) /\ i \in 1 .. 1 + Len(r)
      BY <1>1, <1>2, <2>2
    <3>2. y[i] = Values(r)[i - 1]
      BY <1>3, <1>6, <1>7, <3>1
    <3>3. Values(r)[i - 1] = r[i - 1].v /\ x[i] = r[i - 1]
      BY <1>1, <1>3, <3>1
    <3>. QED
      BY <1>4, <3>2, <3>3
  <2>. QED
    BY <2>1, <2>2
<1>9. Len(Values(x)) = Len(y)
  BY <1>1, <1>2, <1>3, <1>4, <1>6, <1>7
<1>10. Values(x) = y
  <2>1. Values(x) \in Seq(V) /\ y \in Seq(V) /\ Len(Values(x)) = Len(y)
        /\ \A i \in 1 .. Len(Values(x)) : Values(x)[i] = y[i]
    BY <1>4, <1>6, <1>8, <1>9
  <2>. QED
    BY ONLY <2>1, SeqEqual
<1>. QED
  BY <1>10 DEF x, y, one

(* and the result for it.                                                     *)
LEMMA ParsedCons ==
    ASSUME NEW c \in Res, NEW r \in Seq(Res), NEW p \in Nat
    PROVE  Parsed(p, <<c>> \o r) = [v |-> <<c.v>> \o Parsed(c.p, r).v, p |-> Parsed(c.p, r).p]
<1>. DEFINE x == <<c>> \o r
<1>1. Values(x) = <<c.v>> \o Values(r)
  BY ValuesCons
<1>2. Len(x) = Len(r) + 1 /\ Len(r) \in Nat
  BY ConsProperties
<1>3. \A i \in 0 .. Len(r) : At(p, x, i + 1) = At(c.p, r, i)
  BY ConsAt
<1>. HIDE DEF x
<1>4. At(p, x, Len(x)) = At(c.p, r, Len(r))
  <2>1. Len(r) \in 0 .. Len(r)
    BY <1>2
  <2>. QED
    BY <1>2, <1>3, <2>1
<1>5. Parsed(p, x) = [v |-> <<c.v>> \o Values(r), p |-> At(c.p, r, Len(r))]
  BY <1>1, <1>4 DEF Parsed
<1>6. Parsed(c.p, r).v = Values(r) /\ Parsed(c.p, r).p = At(c.p, r, Len(r))
  BY DEF Parsed
<1>. QED
  BY <1>5, <1>6 DEF x

(* The result for the empty chain.                                            *)
LEMMA ParsedNothing ==
    ASSUME NEW p \in Nat
    PROVE  Parsed(p, <<>>) = [v |-> <<>>, p |-> p]
<1>1. Len(<<>>) = 0 /\ 1 .. 0 = {}
  OBVIOUS
<1>2. Values(<<>>) = <<>>
  BY <1>1 DEF Values
<1>. QED
  BY <1>1, <1>2 DEF Parsed, At

(* There is a function that satisfies the recursion: the one that the chains  *)
(* give.                                                                      *)
LEMMA CommandsFromExists ==
    ASSUME NEW s \in Seq(Nat)
    PROVE  \E from : CommandsFrom(from, s)
<1>. DEFINE g == [p \in Nat |-> {Parsed(p, x) : x \in Chains(s, p)}]
            gg == [p \in Nat |->
              IF CommandAt(s, p) = {} THEN {[v |-> <<>>, p |-> p]}
              ELSE UNION {{[v |-> <<c.v>> \o rest.v, p |-> rest.p] : rest \in g[c.p]} :
                             c \in CommandAt(s, p)}]
<1>1. ASSUME NEW p \in Nat, CommandAt(s, p) = {} PROVE g[p] = gg[p]
  <2>1. g[p] = {Parsed(p, x) : x \in Chains(s, p)} /\ gg[p] = {[v |-> <<>>, p |-> p]}
    BY <1>1
  <2>2. Chains(s, p) = {<<>>}
    BY <1>1, ChainStops
  <2>3. Parsed(p, <<>>) = [v |-> <<>>, p |-> p]
    BY ParsedNothing
  <2>. HIDE DEF g, gg
  <2>. QED
    BY <2>1, <2>2, <2>3
<1>2. ASSUME NEW p \in Nat, NEW c \in CommandAt(s, p) PROVE g[p] = gg[p]
  <2>1. CommandAt(s, p) = {c} /\ Chains(s, p) = {<<c>> \o r : r \in Chains(s, c.p)}
    BY ChainSteps
  <2>2. c \in Res /\ c.p \in Nat
    BY CommandTyped
  <2>3. g[c.p] = {Parsed(c.p, r) : r \in Chains(s, c.p)}
    BY <2>2
  <2>4. gg[p] = {[v |-> <<c.v>> \o rest.v, p |-> rest.p] : rest \in g[c.p]}
    <3>1. gg[p] = UNION {{[v |-> <<d.v>> \o rest.v, p |-> rest.p] : rest \in g[d.p]} :
              d \in CommandAt(s, p)}
      BY <2>1
    <3>. HIDE DEF gg, g
    <3>. QED
      BY <2>1, <3>1
  <2>5. g[p] = {Parsed(p, <<c>> \o r) : r \in Chains(s, c.p)}
    <3>1. g[p] = {Parsed(p, x) : x \in Chains(s, p)}
      OBVIOUS
    <3>. HIDE DEF g, gg
    <3>. QED
      BY <2>1, <3>1
  <2>. HIDE DEF g, gg
  <2>6. \A r \in Chains(s, c.p) :
           Parsed(p, <<c>> \o r) = [v |-> <<c.v>> \o Parsed(c.p, r).v, p |-> Parsed(c.p, r).p]
    BY <2>2, ParsedCons DEF Chains
  <2>7. gg[p] = {[v |-> <<c.v>> \o Parsed(c.p, r).v, p |-> Parsed(c.p, r).p] : r \in Chains(s, c.p)}
    BY ONLY <2>3, <2>4
  <2>. QED
    BY ONLY <2>5, <2>6, <2>7
<1>3. \A p \in Nat : g[p] = gg[p]
  BY <1>1, <1>2
<1>4. g = gg
  <2>1. g = [p \in Nat |-> g[p]] /\ gg = [p \in Nat |-> gg[p]]
    OBVIOUS
  <2>. HIDE DEF g, gg
  <2>. QED
    BY <1>3, <2>1
<1>. HIDE DEF g
<1>. QED
  BY <1>4, Zenon DEF CommandsFrom

(* And every one that does has the chains' results as its values.             *)
LEMMA CommandsFromChain ==
    ASSUME NEW s \in Seq(Nat), NEW from, CommandsFrom(from, s)
    PROVE  \A n \in Nat : \A p \in Nat : \A x \in Chains(s, p) : Len(x) = n
               => from[p] = {Parsed(p, x)}
<1>. DEFINE S == {n \in Nat : \A p \in Nat : \A x \in Chains(s, p) : Len(x) = n
         => from[p] = {Parsed(p, x)}}
            ff == [p \in Nat |->
              IF CommandAt(s, p) = {} THEN {[v |-> <<>>, p |-> p]}
              ELSE UNION {{[v |-> <<c.v>> \o rest.v, p |-> rest.p] : rest \in from[c.p]} :
                             c \in CommandAt(s, p)}]
<1>1. from = ff
  BY DEF CommandsFrom
<1>2. ASSUME NEW p \in Nat, CommandAt(s, p) = {}
      PROVE  from[p] = {[v |-> <<>>, p |-> p]}
  <2>1. ff[p] = {[v |-> <<>>, p |-> p]}
    BY <1>2
  <2>. HIDE DEF ff
  <2>. QED
    BY <1>1, <2>1
<1>3. ASSUME NEW p \in Nat, NEW c \in CommandAt(s, p)
      PROVE  from[p] = {[v |-> <<c.v>> \o rest.v, p |-> rest.p] : rest \in from[c.p]}
  <2>1. ff[p] = UNION {{[v |-> <<d.v>> \o rest.v, p |-> rest.p] : rest \in from[d.p]} :
            d \in CommandAt(s, p)}
    BY <1>3
  <2>2. CommandAt(s, p) = {c}
    BY ChainSteps
  <2>. HIDE DEF ff
  <2>. QED
    BY <1>1, <2>1, <2>2
<1>. HIDE DEF ff
<1>4. 0 \in S
  <2>1. SUFFICES ASSUME NEW p \in Nat, NEW x \in Chains(s, p), Len(x) = 0
                 PROVE from[p] = {Parsed(p, x)}
    OBVIOUS
  <2>2. x = <<>>
    BY <2>1, EmptySeq DEF Chains
  <2>3. CommandAt(s, p) = {}
    BY <2>1 DEF Chains, At
  <2>. QED
    BY <1>2, <2>2, <2>3, ParsedNothing
<1>5. ASSUME NEW n \in Nat, n \in S PROVE n + 1 \in S
  <2>1. SUFFICES ASSUME NEW p \in Nat, NEW x \in Chains(s, p), Len(x) = n + 1
                 PROVE from[p] = {Parsed(p, x)}
    OBVIOUS
  <2>2. \E c \in CommandAt(s, p) : TRUE
    <3>1. CommandAt(s, p) # {}
      <4>1. SUFFICES ASSUME CommandAt(s, p) = {} PROVE FALSE
        OBVIOUS
      <4>2. x = <<>>
        BY <4>1, ChainStops
      <4>. QED
        BY <2>1, <4>2
    <3>. QED
      BY <3>1
  <2>3. PICK c \in CommandAt(s, p) : TRUE
    BY <2>2
  <2>4. PICK r \in Chains(s, c.p) : x = <<c>> \o r /\ Len(x) = Len(r) + 1
    BY ChainUncons
  <2>5. c \in Res /\ c.p \in Nat /\ r \in Seq(Res) /\ Len(r) \in Nat
    BY CommandTyped DEF Chains
  <2>6. Len(r) = n
    BY <2>1, <2>4, <2>5
  <2>7. from[c.p] = {Parsed(c.p, r)}
    BY <1>5, <2>5, <2>6
  <2>8. from[p] = {[v |-> <<c.v>> \o Parsed(c.p, r).v, p |-> Parsed(c.p, r).p]}
    <3>1. from[p] = {[v |-> <<c.v>> \o rest.v, p |-> rest.p] : rest \in from[c.p]}
      BY <1>3
    <3>. QED
      BY <2>7, <3>1
  <2>9. Parsed(p, <<c>> \o r) = [v |-> <<c.v>> \o Parsed(c.p, r).v, p |-> Parsed(c.p, r).p]
    BY <2>5, ParsedCons
  <2>. QED
    BY <2>4, <2>8, <2>9
<1>. HIDE DEF S
<1>6. Nat \subseteq S
  BY <1>4, <1>5, Induction
<1>. QED
  BY <1>6 DEF S

(* RespCommandParser::parse finds the commands of the chain, and stops where  *)
(* it ends.                                                                   *)
LEMMA CommandsOfChain ==
    ASSUME NEW s \in Seq(Nat), NEW x \in Chains(s, 1)
    PROVE  CommandsOf(s) = {[v |-> Values(x), p |-> At(1, x, Len(x))]}
<1>. DEFINE from == CHOOSE from : CommandsFrom(from, s)
<1>1. CommandsFrom(from, s)
  BY CommandsFromExists, Zenon
<1>2. CommandsOf(s) = from[1]
  BY DEF CommandsOf, CommandsFrom
<1>. HIDE DEF from
<1>3. Len(x) \in Nat
  BY DEF Chains
<1>4. from[1] = {Parsed(1, x)}
  BY <1>1, <1>3, CommandsFromChain
<1>. QED
  BY <1>2, <1>4 DEF Parsed

-------------------------------------------------------------------------------
(* The frames of a chain.                                                     *)

(* The frame of a complete command.                                           *)
Whole(c) == [end |-> c.p - 1, err |-> 0]

(* The frames of the commands of a chain.                                     *)
Ends(x) == [i \in 1 .. Len(x) |-> Whole(x[i])]

(* All frames: these, and the one of the rest.                                *)
Frames(s, p, x) == Ends(x) \o LastFrame(s, At(p, x, Len(x)))

(* The type of a complete command's frame.                                    *)
Frame == [end : Int, err : {0}]

(* The function that FramesOf chooses.                                        *)
FramesFrom(from, s) ==
    from = [p \in Nat |->
              IF CommandAt(s, p) = {} THEN {LastFrame(s, p)}
              ELSE UNION {{<<[end |-> c.p - 1, err |-> 0]>> \o rest : rest \in from[c.p]} :
                             c \in CommandAt(s, p)}]

(* The frames of a chain, one by one.                                         *)
LEMMA EndsSeq ==
    ASSUME NEW x \in Seq(Res)
    PROVE  /\ Ends(x) \in Seq(Frame) /\ Len(Ends(x)) = Len(x)
           /\ \A i \in 1 .. Len(x) : Ends(x)[i] = Whole(x[i])
<1>1. Len(x) \in Nat /\ \A i \in 1 .. Len(x) : x[i] \in Res
  BY ElementOfSeq
<1>2. \A c \in Res : Whole(c) \in Frame
  <2>1. SUFFICES ASSUME NEW c \in Res PROVE Whole(c) \in Frame
    OBVIOUS
  <2>2. c.p \in Nat
    BY DEF Res
  <2>. DEFINE z == c.p
  <2>3. Whole(c) = [end |-> z - 1, err |-> 0]
    BY DEF Whole
  <2>4. z - 1 \in Int
    BY <2>2
  <2>. HIDE DEF z
  <2>. QED
    BY <2>3, <2>4 DEF Frame
<1>3. \A i \in 1 .. Len(x) : Whole(x[i]) \in Frame
  BY <1>1, <1>2
<1>. QED
  BY <1>1, <1>3 DEF Ends

(* The frames of a chain with one command more before it.                     *)
LEMMA EndsCons ==
    ASSUME NEW c \in Res, NEW r \in Seq(Res)
    PROVE  Ends(<<c>> \o r) = <<Whole(c)>> \o Ends(r)
<1>. DEFINE x == <<c>> \o r
<1>1. x \in Seq(Res) /\ Len(x) = Len(r) + 1 /\ x[1] = c /\ \A i \in 1 .. Len(r) : x[i + 1] = r[i]
  BY ConsProperties
<1>. HIDE DEF x
<1>2. Len(r) \in Nat /\ Len(x) \in Nat
  BY <1>1
<1>3. Ends(r) \in Seq(Frame) /\ Len(Ends(r)) = Len(r)
      /\ \A i \in 1 .. Len(r) : Ends(r)[i] = Whole(r[i])
  BY EndsSeq
<1>4. Ends(x) \in Seq(Frame) /\ Len(Ends(x)) = Len(x)
      /\ \A i \in 1 .. Len(x) : Ends(x)[i] = Whole(x[i])
  BY <1>1, EndsSeq
<1>5. Whole(c) \in Frame
  <2>1. 1 \in 1 .. Len(x)
    BY <1>1, <1>2
  <2>. QED
    BY <1>1, <1>4, <2>1, ElementOfSeq
<1>. DEFINE one == <<Whole(c)>>
            y == one \o Ends(r)
<1>6. one \in Seq(Frame) /\ Len(one) = 1 /\ one[1] = Whole(c)
  BY <1>5
<1>7. /\ y \in Seq(Frame) /\ Len(y) = Len(one) + Len(Ends(r))
      /\ \A i \in 1 .. Len(one) + Len(Ends(r)) :
            y[i] = IF i <= Len(one) THEN one[i] ELSE Ends(r)[i - Len(one)]
  BY <1>3, <1>6, ConcatProperties
<1>. HIDE DEF y, one
<1>8. ASSUME NEW i \in 1 .. Len(x) PROVE Ends(x)[i] = y[i]
  <2>1. CASE i = 1
    BY <1>1, <1>2, <1>3, <1>4, <1>6, <1>7, <2>1
  <2>2. CASE i # 1
    <3>1. i - 1 \in 1 .. Len(r) /\ (i - 1) + 1 = i /\ ~(i <= 1) /\ i \in 1 .. 1 + Len(r)
      BY <1>1, <1>2, <2>2
    <3>2. y[i] = Ends(r)[i - 1]
      BY <1>3, <1>6, <1>7, <3>1
    <3>3. Ends(r)[i - 1] = Whole(r[i - 1]) /\ x[i] = r[i - 1]
      BY <1>1, <1>3, <3>1
    <3>. QED
      BY <1>4, <3>2, <3>3
  <2>. QED
    BY <2>1, <2>2
<1>9. Len(Ends(x)) = Len(y)
  BY <1>1, <1>2, <1>3, <1>4, <1>6, <1>7
<1>10. Ends(x) = y
  <2>1. Ends(x) \in Seq(Frame) /\ y \in Seq(Frame) /\ Len(Ends(x)) = Len(y)
        /\ \A i \in 1 .. Len(Ends(x)) : Ends(x)[i] = y[i]
    BY <1>4, <1>7, <1>8, <1>9
  <2>. QED
    BY ONLY <2>1, SeqEqual
<1>. QED
  BY <1>10 DEF x, y, one

(* The frame of the rest is a sequence of at most one.                        *)
LEMMA LastFrameSeq ==
    ASSUME NEW s \in Seq(Nat), NEW p \in Nat
    PROVE  \E F : Frame \subseteq F /\ LastFrame(s, p) \in Seq(F)
<1>. DEFINE wrong == CHOOSE q \in p .. Len(s) :
                        WrongFrom(s, p, q) /\ \A j \in p .. q - 1 : ~WrongFrom(s, p, j)
            f == [end |-> Len(s), err |-> wrong]
            g == [end |-> Len(s) + 1, err |-> 0]
<1>1. LastFrame(s, p) = <<>> \/ LastFrame(s, p) = <<f>> \/ LastFrame(s, p) = <<g>>
  BY DEF LastFrame
<1>. HIDE DEF f, g
<1>. DEFINE F == Frame \cup {f, g}
<1>2. <<>> \in Seq(F) /\ <<f>> \in Seq(F) /\ <<g>> \in Seq(F)
  <2>1. f \in F /\ g \in F
    OBVIOUS
  <2>. HIDE DEF F
  <2>. QED
    BY <2>1
<1>3. Frame \subseteq F
  OBVIOUS
<1>. HIDE DEF F
<1>. QED
  BY <1>1, <1>2, <1>3

(* All frames with one command more before them.                              *)
LEMMA FramesCons ==
    ASSUME NEW s \in Seq(Nat), NEW c \in Res, NEW r \in Seq(Res),
           NEW p \in Nat, At(c.p, r, Len(r)) \in Nat
    PROVE  Frames(s, p, <<c>> \o r) = <<[end |-> c.p - 1, err |-> 0]>> \o Frames(s, c.p, r)
<1>. DEFINE x == <<c>> \o r
            q == At(c.p, r, Len(r))
<1>1. Ends(x) = <<Whole(c)>> \o Ends(r)
  BY EndsCons
<1>2. Len(x) = Len(r) + 1 /\ Len(r) \in Nat /\ x \in Seq(Res) /\ x[1] = c
  BY ConsProperties
<1>3. \A i \in 0 .. Len(r) : At(p, x, i + 1) = At(c.p, r, i)
  BY ConsAt
<1>. HIDE DEF x
<1>4. At(p, x, Len(x)) = q
  <2>1. Len(r) \in 0 .. Len(r)
    BY <1>2
  <2>. QED
    BY <1>2, <1>3, <2>1
<1>. HIDE DEF q
<1>5. Frames(s, p, x) = (<<Whole(c)>> \o Ends(r)) \o LastFrame(s, q)
  BY <1>1, <1>4 DEF Frames
<1>6. q \in Nat
  BY DEF q
<1>7. PICK F : Frame \subseteq F /\ LastFrame(s, q) \in Seq(F)
  BY <1>6, LastFrameSeq
<1>8. Ends(r) \in Seq(Frame) /\ <<Whole(c)>> \in Seq(Frame)
  <2>1. Ends(x) \in Seq(Frame) /\ Len(Ends(x)) = Len(x)
        /\ \A i \in 1 .. Len(x) : Ends(x)[i] = Whole(x[i])
    BY <1>2, EndsSeq
  <2>2. 1 \in 1 .. Len(x)
    BY <1>2
  <2>3. Whole(c) \in Frame
    BY <1>2, <2>1, <2>2, ElementOfSeq
  <2>4. Ends(r) \in Seq(Frame)
    BY EndsSeq
  <2>. QED
    BY <2>3, <2>4
<1>9. Ends(r) \in Seq(F) /\ <<Whole(c)>> \in Seq(F)
  BY <1>7, <1>8, SeqMonotonic
<1>10. (<<Whole(c)>> \o Ends(r)) \o LastFrame(s, q) = <<Whole(c)>> \o (Ends(r) \o LastFrame(s, q))
  <2>1. LastFrame(s, q) \in Seq(F)
    BY <1>7
  <2>. QED
    BY ONLY <1>9, <2>1, ConcatAssociative
<1>. QED
  BY <1>5, <1>10 DEF Frames, x, q, Whole

(* All frames of the empty chain.                                             *)
LEMMA FramesNothing ==
    ASSUME NEW s \in Seq(Nat), NEW p \in Nat
    PROVE  Frames(s, p, <<>>) = LastFrame(s, p)
<1>1. Len(<<>>) = 0 /\ 1 .. 0 = {}
  OBVIOUS
<1>2. Ends(<<>>) = <<>>
  BY <1>1 DEF Ends
<1>3. Frames(s, p, <<>>) = <<>> \o LastFrame(s, p)
  BY <1>1, <1>2 DEF Frames, At
<1>4. PICK F : Frame \subseteq F /\ LastFrame(s, p) \in Seq(F)
  BY LastFrameSeq
<1>. QED
  BY <1>3, <1>4, ConcatEmptySeq

(* A chain is a sequence, and ends at a position.                             *)
LEMMA ChainEndNat ==
    ASSUME NEW s \in Seq(Nat), NEW p \in Nat, NEW x \in Chains(s, p)
    PROVE  x \in Seq(Res) /\ Len(x) \in Nat /\ At(p, x, Len(x)) \in Nat
<1>1. x \in Seq(Res) /\ Len(x) \in Nat
  BY DEF Chains
<1>2. CASE Len(x) = 0
  BY <1>1, <1>2 DEF At
<1>3. CASE Len(x) # 0
  <2>1. Len(x) \in 1 .. Len(x)
    BY <1>1, <1>3
  <2>2. x[Len(x)] \in Res
    BY <1>1, <2>1, ElementOfSeq
  <2>. QED
    BY <1>1, <1>3, <2>2 DEF At, Res
<1>. QED
  BY <1>1, <1>2, <1>3

(* There is a function that satisfies the recursion.                          *)
LEMMA FramesFromExists ==
    ASSUME NEW s \in Seq(Nat)
    PROVE  \E from : FramesFrom(from, s)
<1>. DEFINE g == [p \in Nat |-> {Frames(s, p, x) : x \in Chains(s, p)}]
            gg == [p \in Nat |->
              IF CommandAt(s, p) = {} THEN {LastFrame(s, p)}
              ELSE UNION {{<<[end |-> c.p - 1, err |-> 0]>> \o rest : rest \in g[c.p]} :
                             c \in CommandAt(s, p)}]
<1>1. ASSUME NEW p \in Nat, CommandAt(s, p) = {} PROVE g[p] = gg[p]
  <2>1. g[p] = {Frames(s, p, x) : x \in Chains(s, p)} /\ gg[p] = {LastFrame(s, p)}
    BY <1>1
  <2>2. Chains(s, p) = {<<>>}
    BY <1>1, ChainStops
  <2>3. Frames(s, p, <<>>) = LastFrame(s, p)
    BY FramesNothing
  <2>. HIDE DEF g, gg
  <2>. QED
    BY <2>1, <2>2, <2>3
<1>2. ASSUME NEW p \in Nat, NEW c \in CommandAt(s, p) PROVE g[p] = gg[p]
  <2>1. CommandAt(s, p) = {c} /\ Chains(s, p) = {<<c>> \o r : r \in Chains(s, c.p)}
    BY ChainSteps
  <2>2. c \in Res /\ c.p \in Nat
    BY CommandTyped
  <2>3. g[c.p] = {Frames(s, c.p, r) : r \in Chains(s, c.p)}
    BY <2>2
  <2>4. gg[p] = {<<[end |-> c.p - 1, err |-> 0]>> \o rest : rest \in g[c.p]}
    <3>1. gg[p] = UNION {{<<[end |-> d.p - 1, err |-> 0]>> \o rest : rest \in g[d.p]} :
              d \in CommandAt(s, p)}
      BY <2>1
    <3>. HIDE DEF gg, g
    <3>. QED
      BY <2>1, <3>1
  <2>5. g[p] = {Frames(s, p, <<c>> \o r) : r \in Chains(s, c.p)}
    <3>1. g[p] = {Frames(s, p, x) : x \in Chains(s, p)}
      OBVIOUS
    <3>. HIDE DEF g, gg
    <3>. QED
      BY <2>1, <3>1
  <2>. HIDE DEF g, gg
  <2>6. ASSUME NEW r \in Chains(s, c.p)
        PROVE  Frames(s, p, <<c>> \o r) = <<[end |-> c.p - 1, err |-> 0]>> \o Frames(s, c.p, r)
    <3>1. r \in Seq(Res) /\ At(c.p, r, Len(r)) \in Nat
      BY <2>2, ChainEndNat
    <3>. QED
      BY <2>2, <3>1, FramesCons
  <2>7. gg[p] = {<<[end |-> c.p - 1, err |-> 0]>> \o Frames(s, c.p, r) : r \in Chains(s, c.p)}
    BY ONLY <2>3, <2>4
  <2>. DEFINE L(r) == Frames(s, p, <<c>> \o r)
              R(r) == <<[end |-> c.p - 1, err |-> 0]>> \o Frames(s, c.p, r)
  <2>8. \A r \in Chains(s, c.p) : L(r) = R(r)
    BY <2>6
  <2>9. g[p] = {L(r) : r \in Chains(s, c.p)} /\ gg[p] = {R(r) : r \in Chains(s, c.p)}
    BY ONLY <2>5, <2>7
  <2>. HIDE DEF L, R
  <2>. QED
    BY ONLY <2>8, <2>9
<1>3. \A p \in Nat : g[p] = gg[p]
  BY <1>1, <1>2
<1>4. g = gg
  <2>1. g = [p \in Nat |-> g[p]] /\ gg = [p \in Nat |-> gg[p]]
    OBVIOUS
  <2>. HIDE DEF g, gg
  <2>. QED
    BY <1>3, <2>1
<1>. HIDE DEF g
<1>. QED
  BY <1>4, Zenon DEF FramesFrom

(* And every one that does has the chains' frames as its values.              *)
LEMMA FramesFromChain ==
    ASSUME NEW s \in Seq(Nat), NEW from, FramesFrom(from, s)
    PROVE  \A n \in Nat : \A p \in Nat : \A x \in Chains(s, p) : Len(x) = n
               => from[p] = {Frames(s, p, x)}
<1>. DEFINE S == {n \in Nat : \A p \in Nat : \A x \in Chains(s, p) : Len(x) = n
         => from[p] = {Frames(s, p, x)}}
            ff == [p \in Nat |->
              IF CommandAt(s, p) = {} THEN {LastFrame(s, p)}
              ELSE UNION {{<<[end |-> c.p - 1, err |-> 0]>> \o rest : rest \in from[c.p]} :
                             c \in CommandAt(s, p)}]
<1>1. from = ff
  BY DEF FramesFrom
<1>2. ASSUME NEW p \in Nat, CommandAt(s, p) = {}
      PROVE  from[p] = {LastFrame(s, p)}
  <2>1. ff[p] = {LastFrame(s, p)}
    BY <1>2
  <2>. HIDE DEF ff
  <2>. QED
    BY <1>1, <2>1
<1>3. ASSUME NEW p \in Nat, NEW c \in CommandAt(s, p)
      PROVE  from[p] = {<<[end |-> c.p - 1, err |-> 0]>> \o rest : rest \in from[c.p]}
  <2>1. ff[p] = UNION {{<<[end |-> d.p - 1, err |-> 0]>> \o rest : rest \in from[d.p]} :
            d \in CommandAt(s, p)}
    BY <1>3
  <2>2. CommandAt(s, p) = {c}
    BY ChainSteps
  <2>. HIDE DEF ff
  <2>. QED
    BY <1>1, <2>1, <2>2
<1>. HIDE DEF ff
<1>4. 0 \in S
  <2>1. SUFFICES ASSUME NEW p \in Nat, NEW x \in Chains(s, p), Len(x) = 0
                 PROVE from[p] = {Frames(s, p, x)}
    OBVIOUS
  <2>2. x = <<>>
    BY <2>1, EmptySeq DEF Chains
  <2>3. CommandAt(s, p) = {}
    BY <2>1 DEF Chains, At
  <2>. QED
    BY <1>2, <2>2, <2>3, FramesNothing
<1>5. ASSUME NEW n \in Nat, n \in S PROVE n + 1 \in S
  <2>1. SUFFICES ASSUME NEW p \in Nat, NEW x \in Chains(s, p), Len(x) = n + 1
                 PROVE from[p] = {Frames(s, p, x)}
    OBVIOUS
  <2>2. CommandAt(s, p) # {}
    <3>1. SUFFICES ASSUME CommandAt(s, p) = {} PROVE FALSE
      OBVIOUS
    <3>2. x = <<>>
      BY <3>1, ChainStops
    <3>. QED
      BY <2>1, <3>2
  <2>3. PICK c \in CommandAt(s, p) : TRUE
    BY <2>2
  <2>4. PICK r \in Chains(s, c.p) : x = <<c>> \o r /\ Len(x) = Len(r) + 1
    BY ChainUncons
  <2>5. c \in Res /\ c.p \in Nat
    BY CommandTyped
  <2>a. r \in Seq(Res) /\ Len(r) \in Nat /\ At(c.p, r, Len(r)) \in Nat
    BY <2>5, ChainEndNat
  <2>6. Len(r) = n
    BY <2>1, <2>4, <2>a
  <2>7. from[c.p] = {Frames(s, c.p, r)}
    BY <1>5, <2>5, <2>6
  <2>8. from[p] = {<<[end |-> c.p - 1, err |-> 0]>> \o Frames(s, c.p, r)}
    <3>1. from[p] = {<<[end |-> c.p - 1, err |-> 0]>> \o rest : rest \in from[c.p]}
      BY <1>3
    <3>. QED
      BY <2>7, <3>1
  <2>9. Frames(s, p, <<c>> \o r) = <<[end |-> c.p - 1, err |-> 0]>> \o Frames(s, c.p, r)
    <3>1. s \in Seq(Nat) /\ p \in Nat /\ c \in Res /\ r \in Seq(Res)
          /\ At(c.p, r, Len(r)) \in Nat
      BY <2>5, <2>a
    <3>. QED
      BY ONLY <3>1, FramesCons, Zenon
  <2>. QED
    BY <2>4, <2>8, <2>9
<1>. HIDE DEF S
<1>6. Nat \subseteq S
  BY <1>4, <1>5, Induction
<1>. QED
  BY <1>6 DEF S

(* The frames of a stream are those of its chain and of the rest.             *)
LEMMA FramesOfChain ==
    ASSUME NEW s \in Seq(Nat), NEW x \in Chains(s, 1)
    PROVE  FramesOf(s) = {Ends(x) \o LastFrame(s, At(1, x, Len(x)))}
<1>. DEFINE from == CHOOSE from : FramesFrom(from, s)
<1>1. FramesFrom(from, s)
  BY FramesFromExists, Zenon
<1>2. FramesOf(s) = from[1]
  BY DEF FramesOf, FramesFrom
<1>. HIDE DEF from
<1>3. Len(x) \in Nat
  BY DEF Chains
<1>4. from[1] = {Frames(s, 1, x)}
  BY <1>1, <1>3, FramesFromChain
<1>. QED
  BY <1>2, <1>4 DEF Frames

-------------------------------------------------------------------------------
(* Encodings are bytes.                                                       *)

(* The encoding of a string is bytes,                                         *)
LEMMA EncodeArgTyped ==
    ASSUME NEW a \in Seq(Nat)
    PROVE  EncodeArg(a) \in Seq(Nat)
<1>1. <<Dollar>> \in Seq(Nat) /\ <<CR, LF>> \in Seq(Nat)
  BY DEF Dollar, CR, LF
<1>2. Decimal(Len(a)) \in Seq(Nat)
  BY DecimalTyped
<1>. QED
  BY <1>1, <1>2 DEF EncodeArg

(* that of a command,                                                         *)
LEMMA EncodeTyped ==
    ASSUME NEW cmd \in Seq(Seq(Nat))
    PROVE  Encode(cmd) \in Seq(Nat)
<1>1. <<Star>> \in Seq(Nat) /\ <<CR, LF>> \in Seq(Nat)
  BY DEF Star, CR, LF
<1>2. Decimal(Len(cmd)) \in Seq(Nat)
  BY DecimalTyped
<1>. DEFINE args == [i \in DOMAIN cmd |-> EncodeArg(cmd[i])]
<1>3. args \in Seq(Seq(Nat))
  <2>1. DOMAIN cmd = 1 .. Len(cmd) /\ Len(cmd) \in Nat
    OBVIOUS
  <2>2. \A i \in 1 .. Len(cmd) : EncodeArg(cmd[i]) \in Seq(Nat)
    BY ElementOfSeq, EncodeArgTyped
  <2>. QED
    BY <2>1, <2>2
<1>4. FlattenSeq(args) \in Seq(Nat)
  BY <1>3, FlattenTyped
<1>. HIDE DEF args
<1>5. Encode(cmd) = <<Star>> \o Decimal(Len(cmd)) \o <<CR, LF>> \o FlattenSeq(args)
  BY DEF Encode, args
<1>. QED
  BY <1>1, <1>2, <1>4, <1>5

(* those of some commands,                                                    *)
LEMMA EncodingsTyped ==
    ASSUME NEW cmds \in Seq(Seq(Seq(Nat)))
    PROVE  [i \in DOMAIN cmds |-> Encode(cmds[i])] \in Seq(Seq(Nat))
<1>1. DOMAIN cmds = 1 .. Len(cmds) /\ Len(cmds) \in Nat
  OBVIOUS
<1>2. \A i \in 1 .. Len(cmds) : Encode(cmds[i]) \in Seq(Nat)
  BY ElementOfSeq, EncodeTyped
<1>. QED
  BY <1>1, <1>2

(* and that of all of them.                                                   *)
LEMMA EncodeAllTyped ==
    ASSUME NEW cmds \in Seq(Seq(Seq(Nat)))
    PROVE  EncodeAll(cmds) \in Seq(Nat)
BY EncodingsTyped, FlattenTyped DEF EncodeAll

-------------------------------------------------------------------------------
(* What a parse of a piece finds.                                             *)

(* An Error in the first bytes is one in more of them.                        *)
LEMMA NoCommandPrefix ==
    ASSUME NEW s \in Seq(Nat), NEW q \in Nat, NEW r \in Nat, q <= r, r <= Len(s),
           NEW p \in Nat \ {0}, NoCommandAt(SubSeq(s, 1, q), p)
    PROVE  NoCommandAt(SubSeq(s, 1, r), p) /\ NoCommandAt(s, p)
<1>. DEFINE t == SubSeq(s, 1, q)
            u == SubSeq(s, 1, r)
<1>1. t \in Seq(Nat) /\ u \in Seq(Nat) /\ InWindow(t, u, 0) /\ InWindow(u, s, 0) /\ 0 \in Nat
      /\ p + 0 = p
  BY PrefixOfPrefix
<1>2. NoCommandAt(t, p)
  OBVIOUS
<1>. HIDE DEF t, u
<1>3. NoCommandAt(u, p + 0)
  BY <1>1, <1>2, NoCommandGrows
<1>4. NoCommandAt(s, p + 0)
  BY <1>1, <1>3, NoCommandGrows
<1>. QED
  BY <1>1, <1>3, <1>4 DEF u

(* An Error is found at a byte, not behind the last.                          *)
LEMMA NoCommandInside ==
    ASSUME NEW s \in Seq(Nat), NEW p \in Nat, NoCommandAt(s, p)
    PROVE  p <= Len(s)
<1>1. CASE NoNumberAt(Star, s, p)
  BY <1>1 DEF NoNumberAt
<1>2. ASSUME NEW n \in NumberAt(Star, s, p) PROVE p <= Len(s)
  <2>1. n.p \in Nat /\ n.p >= p + 4 /\ n.p <= Len(s) + 1
    BY CountType
  <2>2. ASSUME NEW z \in Nat, z >= p + 4, z <= Len(s) + 1 PROVE p <= Len(s)
    BY <2>2
  <2>. QED
    BY ONLY <2>1, <2>2
<1>. QED
  BY <1>1, <1>2 DEF NoCommandAt

(* The frame of the rest: none if nothing is left, one that is wrong from the *)
(* first byte on that makes it so, or one that lacks bytes.                   *)
LEMMA LastFrameIs ==
    ASSUME NEW s \in Seq(Nat), NEW p \in Nat \ {0}
    PROVE  /\ p > Len(s) => LastFrame(s, p) = <<>>
           /\ NoCommandAt(s, p) =>
                 \E e \in p .. Len(s) : /\ LastFrame(s, p) = <<[end |-> Len(s), err |-> e]>>
                                        /\ NoCommandAt(SubSeq(s, 1, e), p)
                                        /\ \A r \in p .. Len(s) : NoCommandAt(SubSeq(s, 1, r), p)
                                               => e <= r
           /\ p <= Len(s) /\ ~NoCommandAt(s, p)
                  => LastFrame(s, p) = <<[end |-> Len(s) + 1, err |-> 0]>>
<1>0. Len(s) \in Nat
  OBVIOUS
<1>1. p > Len(s) => LastFrame(s, p) = <<>>
  BY DEF LastFrame
<1>2. p <= Len(s) /\ ~NoCommandAt(s, p) => LastFrame(s, p) = <<[end |-> Len(s) + 1, err |-> 0]>>
  BY <1>0 DEF LastFrame
<1>3. ASSUME NoCommandAt(s, p)
      PROVE  \E e \in p .. Len(s) : /\ LastFrame(s, p) = <<[end |-> Len(s), err |-> e]>>
                                    /\ NoCommandAt(SubSeq(s, 1, e), p)
                                    /\ \A r \in p .. Len(s) : NoCommandAt(SubSeq(s, 1, r), p)
                                           => e <= r
  <2>1. p <= Len(s)
    BY <1>3, NoCommandInside
  <2>. DEFINE T == {q \in p .. Len(s) : WrongFrom(s, p, q)}
              e == CHOOSE q \in p .. Len(s) :
                        WrongFrom(s, p, q) /\ \A j \in p .. q - 1 : ~WrongFrom(s, p, j)
  <2>2. Len(s) \in T
    <3>1. SubSeq(s, 1, Len(s)) = s
      BY SubSeqFull
    <3>2. WrongFrom(s, p, Len(s))
      BY <1>3, <3>1 DEF WrongFrom
    <3>3. Len(s) \in p .. Len(s)
      BY <1>0, <2>1
    <3>. QED
      BY <3>2, <3>3
  <2>3. PICK n \in T : \A m \in T : n <= m
    <3>1. T \subseteq Nat
      BY <1>0
    <3>. HIDE DEF T
    <3>. QED
      BY <2>2, <3>1, FirstIs
  <2>4. n \in p .. Len(s) /\ WrongFrom(s, p, n) /\ \A j \in p .. n - 1 : ~WrongFrom(s, p, j)
    <3>1. n \in p .. Len(s) /\ WrongFrom(s, p, n)
      OBVIOUS
    <3>2. ASSUME NEW j \in p .. n - 1, WrongFrom(s, p, j) PROVE FALSE
      <4>1. j \in p .. Len(s) /\ ~(n <= j)
        BY <1>0, <3>1
      <4>. QED
        BY <2>3, <3>2, <4>1
    <3>. QED
      BY <3>1, <3>2
  <2>5. e \in p .. Len(s) /\ WrongFrom(s, p, e) /\ \A j \in p .. e - 1 : ~WrongFrom(s, p, j)
    <3>. HIDE DEF T
    <3>. QED
      BY ONLY <2>4, Zenon
  <2>6. LastFrame(s, p) = <<[end |-> Len(s), err |-> e]>>
    <3>1. LastFrame(s, p) =
             IF p > Len(s) THEN <<>>
             ELSE IF NoCommandAt(s, p) THEN <<[end |-> Len(s), err |-> e]>>
             ELSE <<[end |-> Len(s) + 1, err |-> 0]>>
      BY DEF LastFrame
    <3>2. ~(p > Len(s))
      BY <1>0, <2>1
    <3>. HIDE DEF e
    <3>. QED
      BY <1>3, <3>1, <3>2
  <2>. HIDE DEF e, T
  <2>7. ASSUME NEW r \in p .. Len(s), NoCommandAt(SubSeq(s, 1, r), p) PROVE e <= r
    <3>1. SUFFICES ASSUME r < e PROVE FALSE
      BY <1>0, <2>5
    <3>2. r \in p .. e - 1
      BY <1>0, <2>5, <3>1
    <3>. QED
      BY <2>5, <2>7, <3>2 DEF WrongFrom
  <2>. QED
    BY <2>5, <2>6, <2>7 DEF WrongFrom
<1>. QED
  BY <1>1, <1>2, <1>3

(* The positions of the chain of a whole stream.                              *)
LEMMA ChainAt ==
    ASSUME NEW s \in Seq(Nat), NEW x \in Chains(s, 1)
    PROVE  /\ Len(x) \in Nat /\ x \in Seq(Res) /\ At(1, x, 0) = 1
           /\ \A j \in 0 .. Len(x) : /\ At(1, x, j) \in Nat \ {0} /\ At(1, x, j) <= Len(s) + 1
                                     /\ \A i \in 0 .. j : At(1, x, i) + (j - i) <= At(1, x, j)
<1>1. Len(x) \in Nat /\ x \in Seq(Res) /\ At(1, x, 0) = 1
  BY DEF Chains, At
<1>2. 1 \in 0 .. Len(s) + 1
  OBVIOUS
<1>3. \A j \in 0 .. Len(x) : /\ At(1, x, j) \in Nat /\ At(1, x, j) <= Len(s) + 1
                             /\ \A i \in 0 .. j : At(1, x, i) + (j - i) <= At(1, x, j)
  BY <1>2, ChainPositions
<1>4. ASSUME NEW j \in 0 .. Len(x) PROVE At(1, x, j) \in Nat \ {0}
  <2>1. At(1, x, 0) + (j - 0) <= At(1, x, j) /\ At(1, x, j) \in Nat /\ j \in Nat
    BY <1>1, <1>3
  <2>. QED
    BY ONLY <1>1, <2>1
<1>. QED
  BY <1>1, <1>3, <1>4

(* y, the chain of the bytes from the end of command m up to r, is the part   *)
(* of the stream's chain x from there on: the same commands at the same       *)
(* places, as many as end up to r, and then an Error if and only if the       *)
(* stream up to r has one.                                                    *)
Follows(s, x, m, r, y) ==
    /\ m + Len(y) <= Len(x)
    /\ \A i \in 1 .. Len(y) : y[i].v = x[m + i].v
    /\ At(1, y, Len(y)) + (At(1, x, m) - 1) = At(1, x, m + Len(y))
    /\ At(1, x, m + Len(y)) <= r + 1
    /\ m + Len(y) < Len(x) => r + 1 < At(1, x, m + Len(y) + 1)
    /\ NoCommandAt(SubSeq(s, At(1, x, m), r), At(1, y, Len(y)))
          <=> NoCommandAt(SubSeq(s, 1, r), At(1, x, m + Len(y)))

(* A parse of what was kept and has come follows the parse of the whole       *)
(* stream.                                                                    *)
LEMMA ParseOfPiece ==
    ASSUME NEW s \in Seq(Nat), NEW x \in Chains(s, 1), NEW m \in 0 .. Len(x),
           NEW r \in Nat, r <= Len(s), At(1, x, m) <= r + 1,
           NEW y \in Chains(SubSeq(s, At(1, x, m), r), 1)
    PROVE  Follows(s, x, m, r, y)
<1>. DEFINE a == At(1, x, m)
            d == a - 1
            t == SubSeq(s, a, r)
            u == SubSeq(s, 1, r)
<1>1. /\ Len(x) \in Nat /\ x \in Seq(Res)
      /\ \A j \in 0 .. Len(x) : At(1, x, j) \in Nat \ {0} /\ At(1, x, j) <= Len(s) + 1
  BY ChainAt
<1>2. a \in Nat \ {0} /\ a <= r + 1 /\ m \in Nat
  BY <1>1
<1>3. t \in Seq(Nat) /\ Len(t) = (r + 1) - a
  BY <1>2, PieceTyped
<1>4. InWindow(t, s, d) /\ d \in Nat /\ u \in Seq(Nat) /\ Len(u) = r /\ InWindow(t, u, d)
      /\ d + Len(t) = Len(u)
  BY <1>2, PieceOfPrefix
<1>5. y \in Chains(t, 1)
  OBVIOUS
<1>a. a = At(1, x, m)
  OBVIOUS
<1>b. d + 1 = a
  BY <1>2
<1>. HIDE DEF t, u, a
<1>6. /\ Len(y) \in Nat /\ y \in Seq(Res) /\ At(1, y, 0) = 1
      /\ \A j \in 0 .. Len(y) : At(1, y, j) \in Nat \ {0} /\ At(1, y, j) <= Len(t) + 1
  BY <1>3, <1>5, ChainAt
<1>. HIDE DEF d
<1>. DEFINE S == {i \in 0 .. Len(y) : /\ m + i <= Len(x) /\ At(1, y, i) + d = At(1, x, m + i)
                                      /\ \A j \in 1 .. i : y[j].v = x[m + j].v}
<1>7. 0 \in S
  <2>1. m <= Len(x) /\ m + 0 = m
    BY <1>1
  <2>2. At(1, y, 0) + d = a
    BY <1>4, <1>6, <1>b
  <2>. QED
    BY <1>6, <1>a, <2>1, <2>2
<1>8. ASSUME NEW i \in 0 .. Len(y) - 1, i \in S PROVE i + 1 \in S
  <2>. DEFINE p == At(1, y, i)
              q == p + d
  <2>1. i \in Nat /\ i + 1 \in 1 .. Len(y) /\ i + 1 \in 0 .. Len(y) /\ (i + 1) - 1 = i
        /\ i \in 0 .. Len(y) /\ i + 1 # 0
    BY <1>6
  <2>2. m + i <= Len(x) /\ q = At(1, x, m + i) /\ p \in Nat \ {0} /\ p \in Nat /\ q \in Nat
    BY <1>4, <1>6, <1>8, <2>1
  <2>3. y[i + 1] \in CommandAt(t, p)
    BY <1>5, <2>1 DEF Chains
  <2>. DEFINE c == y[i + 1]
  <2>4. [v |-> c.v, p |-> c.p + d] \in CommandAt(s, q)
    <3>. HIDE DEF p, q, c
    <3>1. [v |-> c.v, p |-> c.p + d] \in CommandAt(s, p + d)
      BY <1>3, <1>4, <2>2, <2>3, CommandGrows DEF c
    <3>. QED
      BY <3>1 DEF q
  <2>5. m + i # Len(x)
    <3>1. CommandAt(s, At(1, x, Len(x))) = {}
      BY DEF Chains
    <3>. QED
      BY <2>2, <2>4, <3>1
  <2>6. m + (i + 1) \in 1 .. Len(x) /\ (m + (i + 1)) - 1 = m + i /\ m + (i + 1) # 0
        /\ m + (i + 1) <= Len(x)
    BY <1>1, <1>2, <2>1, <2>2, <2>5
  <2>7. x[m + (i + 1)] \in CommandAt(s, q)
    BY <2>2, <2>6 DEF Chains
  <2>. HIDE DEF q
  <2>8. x[m + (i + 1)] = [v |-> c.v, p |-> c.p + d]
    BY <2>2, <2>4, <2>7, CommandUnique
  <2>9. x[m + (i + 1)].v = c.v /\ At(1, x, m + (i + 1)) = c.p + d /\ At(1, y, i + 1) = c.p
    BY <2>1, <2>6, <2>8 DEF At
  <2>10. ASSUME NEW j \in 1 .. i + 1 PROVE y[j].v = x[m + j].v
    <3>1. CASE j = i + 1
      BY <2>9, <3>1
    <3>2. CASE j # i + 1
      <4>1. j \in 1 .. i
        BY <2>1, <3>2
      <4>. QED
        BY <1>8, <4>1
    <3>. QED
      BY <3>1, <3>2
  <2>. QED
    BY <2>1, <2>6, <2>9, <2>10
<1>. HIDE DEF S
<1>9. 0 .. Len(y) \subseteq S
  BY <1>6, <1>7, <1>8, BoundedInduction
<1>10. Len(y) \in S
  <2>1. Len(y) \in Nat
    BY <1>6
  <2>2. Len(y) \in 0 .. Len(y)
    BY ONLY <2>1
  <2>. QED
    BY ONLY <1>9, <2>2
<1>. DEFINE n == Len(y)
            k == m + n
            p == At(1, y, n)
            q == At(1, x, k)
<1>11. k <= Len(x) /\ p + d = q /\ \A i \in 1 .. n : y[i].v = x[m + i].v
  BY <1>10 DEF S
<1>12. p \in Nat \ {0} /\ p <= Len(t) + 1 /\ n \in Nat /\ k \in Nat
  BY <1>2, <1>6
<1>13. CommandAt(t, p) = {}
  BY <1>5 DEF Chains
<1>. HIDE DEF p, n
<1>14. q <= r + 1
  <2>. HIDE DEF q
  <2>. QED
    BY <1>2, <1>3, <1>4, <1>b, <1>11, <1>12
<1>15. ASSUME k < Len(x) PROVE r + 1 < At(1, x, k + 1)
  <2>. DEFINE c == x[k + 1]
  <2>1. k + 1 \in 1 .. Len(x) /\ (k + 1) - 1 = k /\ k + 1 # 0
    BY <1>1, <1>12, <1>15
  <2>2. c \in CommandAt(s, q)
    BY <2>1 DEF Chains
  <2>3. At(1, x, k + 1) = c.p
    BY <2>1 DEF At
  <2>. HIDE DEF q, c
  <2>4. c \in CommandAt(s, p + d)
    BY <1>11, <2>2
  <2>5. c.p \in Nat
    BY <1>4, <1>11, <1>12, <2>2, CommandTyped
  <2>6. ~(c.p - d <= Len(t) + 1)
    <3>1. SUFFICES ASSUME c.p - d <= Len(t) + 1 PROVE FALSE
      OBVIOUS
    <3>2. [v |-> c.v, p |-> c.p - d] \in CommandAt(t, p)
      BY <1>3, <1>4, <1>12, <2>4, <3>1, CommandShrinks
    <3>. QED
      BY <1>13, <3>2
  <2>. DEFINE z == c.p
  <2>7. z \in Nat /\ ~(z - d <= Len(t) + 1) /\ At(1, x, k + 1) = z
    BY <2>3, <2>5, <2>6
  <2>. HIDE DEF z, k
  <2>8. r + 1 < z
    BY ONLY <1>2, <1>3, <1>4, <1>b, <2>7
  <2>. QED
    BY <2>7, <2>8
<1>16. NoCommandAt(t, p) <=> NoCommandAt(u, p + d)
  <2>1. NoCommandAt(t, p) => NoCommandAt(u, p + d)
    BY <1>3, <1>4, <1>12, NoCommandGrows
  <2>2. NoCommandAt(u, p + d) => NoCommandAt(t, p)
    BY <1>3, <1>4, <1>12, NoCommandShrinks
  <2>. QED
    BY <2>1, <2>2
<1>17. NoCommandAt(t, p) <=> NoCommandAt(u, q)
  BY <1>11, <1>16
<1>. QED
  BY <1>11, <1>14, <1>15, <1>17 DEF Follows, a, d, t, u, p, n

-------------------------------------------------------------------------------
(* What CommandStream makes of it.                                            *)

(* What is to be seen of the frames when r bytes have come and the chain's    *)
(* first m commands with them.                                                *)
Sees(s, x, fr, m, r) ==
    /\ NoCommandAt(SubSeq(s, 1, r), At(1, x, m)) <=> \E i \in DOMAIN fr : fr[i].err \in 1 .. r
    /\ NoCommandAt(SubSeq(s, 1, r), At(1, x, m)) => m = Len(x) /\ NoCommandAt(s, At(1, x, Len(x)))
    /\ Len(fr) \in Nat /\ DOMAIN fr = 1 .. Len(fr)
    /\ r <= (IF Len(fr) = 0 THEN 0 ELSE fr[Len(fr)].end)
    /\ ~NoCommandAt(SubSeq(s, 1, r), At(1, x, m)) =>
          /\ m \in 0 .. Len(fr)
          /\ (IF m = 0 THEN 0 ELSE fr[m].end) <= r
          /\ m < Len(fr) => r < fr[m + 1].end

(* The frames of a stream, one by one.                                        *)
LEMMA FramesAre ==
    ASSUME NEW s \in Seq(Nat), NEW x \in Chains(s, 1)
    PROVE  \E fr : /\ fr = Ends(x) \o LastFrame(s, At(1, x, Len(x)))
                   /\ Len(fr) = Len(x) + Len(LastFrame(s, At(1, x, Len(x))))
                   /\ DOMAIN fr = 1 .. Len(fr)
                   /\ \A i \in 1 .. Len(x) : fr[i] = [end |-> At(1, x, i) - 1, err |-> 0]
                   /\ Len(LastFrame(s, At(1, x, Len(x)))) = 1 =>
                         fr[Len(x) + 1] = LastFrame(s, At(1, x, Len(x)))[1]
<1>1. Len(x) \in Nat /\ x \in Seq(Res) /\ \A j \in 0 .. Len(x) : At(1, x, j) \in Nat \ {0}
  BY ChainAt
<1>. DEFINE L == LastFrame(s, At(1, x, Len(x)))
            fr == Ends(x) \o L
<1>2. PICK F : Frame \subseteq F /\ L \in Seq(F)
  <2>1. Len(x) \in 0 .. Len(x)
    BY <1>1
  <2>2. At(1, x, Len(x)) \in Nat
    BY <1>1, <2>1
  <2>. QED
    BY <2>2, LastFrameSeq
<1>3. /\ Ends(x) \in Seq(Frame) /\ Len(Ends(x)) = Len(x)
      /\ \A i \in 1 .. Len(x) : Ends(x)[i] = Whole(x[i])
  BY <1>1, EndsSeq
<1>4. Ends(x) \in Seq(F)
  BY <1>2, <1>3, SeqMonotonic
<1>. HIDE DEF L
<1>5. /\ fr \in Seq(F) /\ Len(fr) = Len(Ends(x)) + Len(L)
      /\ \A i \in 1 .. Len(Ends(x)) + Len(L) :
            fr[i] = IF i <= Len(Ends(x)) THEN Ends(x)[i] ELSE L[i - Len(Ends(x))]
  BY <1>2, <1>4, ConcatProperties
<1>6. DOMAIN fr = 1 .. Len(fr) /\ Len(L) \in Nat
  BY <1>2, <1>5
<1>7. fr = Ends(x) \o L
  OBVIOUS
<1>. HIDE DEF fr
<1>8. ASSUME NEW i \in 1 .. Len(x) PROVE fr[i] = [end |-> At(1, x, i) - 1, err |-> 0]
  <2>1. i \in 1 .. Len(Ends(x)) + Len(L) /\ i <= Len(Ends(x)) /\ i # 0
    BY <1>1, <1>3, <1>6
  <2>2. fr[i] = Whole(x[i])
    BY <1>3, <1>5, <2>1
  <2>. QED
    BY <2>1, <2>2 DEF Whole, At
<1>9. ASSUME Len(L) = 1 PROVE fr[Len(x) + 1] = L[1]
  <2>1. Len(x) + 1 \in 1 .. Len(Ends(x)) + Len(L) /\ ~(Len(x) + 1 <= Len(Ends(x)))
        /\ (Len(x) + 1) - Len(Ends(x)) = 1
    BY <1>1, <1>3, <1>9
  <2>. QED
    BY <1>5, <2>1
<1>10. Len(fr) = Len(x) + Len(L)
  BY <1>3, <1>5
<1>. QED
  BY <1>6, <1>7, <1>8, <1>9, <1>10 DEF L

(* Exactly the first m frames have come in full then, and the wrong byte of   *)
(* the rest if and only if a parse throws.                                    *)
LEMMA WhatIsSeen ==
    ASSUME NEW s \in Seq(Nat), NEW x \in Chains(s, 1), NEW fr,
           fr = Ends(x) \o LastFrame(s, At(1, x, Len(x))),
           NEW r \in Nat, r <= Len(s), NEW m \in 0 .. Len(x), At(1, x, m) <= r + 1,
           m < Len(x) => r + 1 < At(1, x, m + 1)
    PROVE  Sees(s, x, fr, m, r)
<1>0. Len(s) \in Nat
  OBVIOUS
<1>1. /\ Len(x) \in Nat /\ At(1, x, 0) = 1
      /\ \A j \in 0 .. Len(x) : /\ At(1, x, j) \in Nat \ {0} /\ At(1, x, j) <= Len(s) + 1
                                /\ \A i \in 0 .. j : At(1, x, i) + (j - i) <= At(1, x, j)
  BY ChainAt
<1>. DEFINE n == Len(x)
            b == At(1, x, n)
            a == At(1, x, m)
            L == LastFrame(s, b)
            wrong == NoCommandAt(SubSeq(s, 1, r), a)
<1>2. /\ Len(fr) = n + Len(L) /\ DOMAIN fr = 1 .. Len(fr)
      /\ \A i \in 1 .. n : fr[i] = [end |-> At(1, x, i) - 1, err |-> 0]
      /\ Len(L) = 1 => fr[n + 1] = L[1]
  BY FramesAre
<1>3. n \in Nat /\ n \in 0 .. n /\ b \in Nat \ {0} /\ b <= Len(s) + 1 /\ a \in Nat \ {0}
      /\ a <= r + 1 /\ m \in Nat /\ m <= n
  <2>1. n \in 0 .. n
    BY <1>1
  <2>. QED
    BY <1>1, <2>1
<1>4. /\ b > Len(s) => L = <<>>
      /\ NoCommandAt(s, b) =>
            \E e \in b .. Len(s) : /\ L = <<[end |-> Len(s), err |-> e]>>
                                   /\ NoCommandAt(SubSeq(s, 1, e), b)
                                   /\ \A q \in b .. Len(s) : NoCommandAt(SubSeq(s, 1, q), b)
                                          => e <= q
      /\ b <= Len(s) /\ ~NoCommandAt(s, b) => L = <<[end |-> Len(s) + 1, err |-> 0]>>
  BY <1>3, LastFrameIs
<1>5. wrong => m = n /\ NoCommandAt(s, b)
  <2>1. SUFFICES ASSUME wrong PROVE m = n /\ NoCommandAt(s, b)
    OBVIOUS
  <2>2. NoCommandAt(s, a)
    BY <1>3, <2>1, NoCommandPrefix
  <2>3. CommandAt(s, a) = {}
    BY <1>3, <2>2, CommandNotBoth
  <2>4. ASSUME m < n PROVE FALSE
    <3>1. m + 1 \in 1 .. n /\ (m + 1) - 1 = m
      BY <1>3, <2>4
    <3>2. x[m + 1] \in CommandAt(s, a)
      BY <3>1 DEF Chains
    <3>. QED
      BY <2>3, <3>2
  <2>. QED
    BY <1>3, <2>2, <2>4
<1>6. m < n => r + 1 < At(1, x, m + 1) /\ At(1, x, m + 1) \in Nat /\ At(1, x, m + 1) <= b
  <2>1. SUFFICES ASSUME m < n PROVE At(1, x, m + 1) \in Nat /\ At(1, x, m + 1) <= b
    OBVIOUS
  <2>2. m + 1 \in 0 .. n
    BY <1>3, <2>1
  <2>. DEFINE z == At(1, x, m + 1)
  <2>3. z + (n - (m + 1)) <= b /\ z \in Nat
    BY <1>1, <1>3, <2>2
  <2>. HIDE DEF z, n, b
  <2>4. z <= b
    BY <1>3, <2>2, <2>3
  <2>. QED
    BY <2>3, <2>4 DEF z
<1>7. ASSUME NEW i \in 1 .. n PROVE fr[i].err = 0 /\ fr[i].end = At(1, x, i) - 1
  <2>1. fr[i] = [end |-> At(1, x, i) - 1, err |-> 0]
    BY <1>2
  <2>. QED
    BY ONLY <2>1
<1>m. m < n \/ m = n
  BY ONLY <1>3
<1>8. (IF m = 0 THEN 0 ELSE fr[m].end) = a - 1
  <2>1. CASE m = 0
    BY <1>1, <2>1
  <2>2. CASE m # 0
    <3>1. m \in 1 .. n
      BY <1>3, <2>2
    <3>. QED
      BY <1>7, <2>2, <3>1
  <2>. QED
    BY <2>1, <2>2
<1>8a. (IF n = 0 THEN 0 ELSE fr[n].end) = b - 1
  <2>1. CASE n = 0
    BY <1>1, <2>1
  <2>2. CASE n # 0
    <3>1. n \in 1 .. n
      BY <1>3, <2>2
    <3>. QED
      BY <1>7, <2>2, <3>1
  <2>. QED
    BY <2>1, <2>2
<1>8b. (IF m = 0 THEN 0 ELSE fr[m].end) <= r
  <2>1. a - 1 <= r
    BY <1>3
  <2>. QED
    BY ONLY <1>8, <2>1
<1>8c. m < n => fr[m + 1].end = At(1, x, m + 1) - 1 /\ r < At(1, x, m + 1) - 1
  <2>1. SUFFICES ASSUME m < n PROVE fr[m + 1].end = At(1, x, m + 1) - 1 /\ r < At(1, x, m + 1) - 1
    OBVIOUS
  <2>2. m + 1 \in 1 .. n
    BY <1>3, <2>1
  <2>3. fr[m + 1].end = At(1, x, m + 1) - 1
    BY <1>7, <2>2
  <2>. DEFINE z == At(1, x, m + 1)
  <2>4. r + 1 < z /\ z \in Nat
    BY <1>6, <2>1
  <2>. HIDE DEF z
  <2>5. r < z - 1
    BY ONLY <2>4, r \in Nat
  <2>. QED
    BY <2>3, <2>5 DEF z
<1>. HIDE DEF n, b, a, L, wrong
<1>9. CASE b > Len(s)
  <2>1. L = <<>> /\ Len(L) = 0 /\ Len(fr) = n /\ DOMAIN fr = 1 .. n
    BY <1>2, <1>3, <1>4, <1>9
  <2>2. ~NoCommandAt(s, b)
    <3>1. b \in Nat /\ ~(b <= Len(s))
      BY <1>0, <1>3, <1>9
    <3>. QED
      BY <3>1, NoCommandInside
  <2>3. ~wrong
    BY <1>5, <2>2
  <2>4. ~\E i \in DOMAIN fr : fr[i].err \in 1 .. r
    BY <1>7, <2>1
  <2>5. r <= b - 1
    BY <1>0, <1>3, <1>9
  <2>6. r <= (IF Len(fr) = 0 THEN 0 ELSE fr[Len(fr)].end)
    BY <1>8a, <2>1, <2>5
  <2>7. m \in 0 .. Len(fr) /\ (IF m = 0 THEN 0 ELSE fr[m].end) <= r
    BY <1>3, <1>8b, <2>1
  <2>8. m < Len(fr) => r < fr[m + 1].end
    BY <1>8c, <2>1
  <2>. QED
    BY <1>3, <1>5, <2>1, <2>3, <2>4, <2>6, <2>7, <2>8 DEF Sees, wrong, a, n, b
<1>10. CASE b <= Len(s) /\ ~NoCommandAt(s, b)
  <2>1. L = <<[end |-> Len(s) + 1, err |-> 0]>> /\ Len(L) = 1
    BY <1>4, <1>10
  <2>2. /\ Len(fr) = n + 1 /\ DOMAIN fr = 1 .. n + 1 /\ fr[n + 1].end = Len(s) + 1
        /\ fr[n + 1].err = 0
        /\ Len(fr) # 0 /\ Len(fr) \in Nat
    BY <1>2, <1>3, <2>1
  <2>3. ~wrong
    BY <1>5, <1>10
  <2>4. ~\E i \in DOMAIN fr : fr[i].err \in 1 .. r
    <3>1. SUFFICES ASSUME NEW i \in 1 .. n + 1 PROVE fr[i].err = 0
      BY <2>2
    <3>2. i = n + 1 \/ i \in 1 .. n
      BY <1>3
    <3>. QED
      BY <1>7, <2>2, <3>2
  <2>5. r <= Len(s) + 1 /\ r < Len(s) + 1
    BY <1>0
  <2>6. r <= (IF Len(fr) = 0 THEN 0 ELSE fr[Len(fr)].end)
    BY <2>2, <2>5
  <2>7. m \in 0 .. Len(fr) /\ (IF m = 0 THEN 0 ELSE fr[m].end) <= r
    BY <1>3, <1>8b, <2>2
  <2>8. r < fr[m + 1].end
    <3>1. CASE m < n
      BY <1>8c, <3>1
    <3>2. CASE m = n
      BY <2>2, <2>5, <3>2
    <3>. QED
      BY <1>m, <3>1, <3>2
  <2>. QED
    BY <1>3, <1>5, <2>2, <2>3, <2>4, <2>6, <2>7, <2>8 DEF Sees, wrong, a, n, b
<1>11. CASE NoCommandAt(s, b)
  <2>1. PICK e \in b .. Len(s) : /\ L = <<[end |-> Len(s), err |-> e]>>
                                 /\ NoCommandAt(SubSeq(s, 1, e), b)
                                 /\ \A q \in b .. Len(s) : NoCommandAt(SubSeq(s, 1, q), b) => e <= q
    BY <1>4, <1>11
  <2>2. /\ Len(fr) = n + 1 /\ DOMAIN fr = 1 .. n + 1 /\ fr[n + 1].end = Len(s) /\ fr[n + 1].err = e
        /\ Len(fr) # 0 /\ Len(fr) \in Nat
    <3>1. Len(L) = 1 /\ L[1] = [end |-> Len(s), err |-> e]
      BY <2>1
    <3>2. Len(fr) = n + 1 /\ DOMAIN fr = 1 .. n + 1 /\ fr[n + 1] = [end |-> Len(s), err |-> e]
      BY ONLY <1>2, <3>1
    <3>. QED
      BY ONLY <1>3, <3>2
  <2>3. e \in Nat /\ e >= b /\ e >= 1 /\ e <= Len(s)
    BY <1>0, <1>3
  <2>4. (\E i \in DOMAIN fr : fr[i].err \in 1 .. r) <=> e <= r
    <3>1. e <= r => n + 1 \in DOMAIN fr /\ fr[n + 1].err \in 1 .. r
      <4>1. n + 1 \in DOMAIN fr
        BY ONLY <1>3, <2>2
      <4>2. e <= r => e \in 1 .. r
        BY ONLY <2>3, r \in Nat
      <4>. QED
        BY ONLY <2>2, <4>1, <4>2
    <3>2. ASSUME NEW i \in DOMAIN fr, fr[i].err \in 1 .. r PROVE e <= r
      <4>1. i = n + 1 \/ i \in 1 .. n
        <5>1. i \in 1 .. n + 1 /\ n \in Nat
          BY <1>3, <2>2
        <5>. QED
          BY ONLY <5>1
      <4>2. i = n + 1
        BY <1>7, <3>2, <4>1
      <4>. QED
        BY <2>2, <2>3, <3>2, <4>2
    <3>. QED
      BY <3>1, <3>2
  <2>5. wrong => e <= r
    <3>1. SUFFICES ASSUME wrong PROVE e <= r
      OBVIOUS
    <3>2. m = n /\ a = b
      BY <1>5, <3>1 DEF a, b, n
    <3>3. NoCommandAt(SubSeq(s, 1, r), b)
      BY <3>1, <3>2 DEF wrong
    <3>4. b <= r
      <4>1. b <= Len(SubSeq(s, 1, r))
        <5>1. SubSeq(s, 1, r) \in Seq(Nat)
          BY <1>0, PrefixOfPrefix
        <5>. QED
          BY <1>3, <3>3, <5>1, NoCommandInside
      <4>2. Len(SubSeq(s, 1, r)) = r
        BY <1>3, PieceOfPrefix
      <4>. QED
        BY <4>1, <4>2
    <3>5. r \in b .. Len(s)
      BY <1>0, <1>3, <3>4
    <3>. QED
      BY <2>1, <3>3, <3>5
  <2>6. e <= r => wrong
    <3>1. SUFFICES ASSUME e <= r PROVE wrong
      OBVIOUS
    <3>2. m = n
      <4>1. SUFFICES ASSUME m < n PROVE FALSE
        BY <1>3
      <4>. QED
        BY <1>3, <1>6, <2>3, <3>1, <4>1
    <3>3. NoCommandAt(SubSeq(s, 1, r), b)
      BY <1>3, <2>1, <2>3, <3>1, NoCommandPrefix
    <3>. QED
      BY <3>2, <3>3 DEF wrong, a, b, n
  <2>7. r <= (IF Len(fr) = 0 THEN 0 ELSE fr[Len(fr)].end)
    BY <2>2
  <2>8. m \in 0 .. Len(fr) /\ (IF m = 0 THEN 0 ELSE fr[m].end) <= r
    <3>1. m \in 0 .. n /\ n \in Nat /\ Len(fr) = n + 1
      BY <1>3, <2>2
    <3>2. m \in 0 .. Len(fr)
      BY ONLY <3>1
    <3>. QED
      BY <1>8b, <3>2
  <2>9. ~wrong => r < fr[m + 1].end
    <3>1. SUFFICES ASSUME ~wrong PROVE r < fr[m + 1].end
      OBVIOUS
    <3>2. CASE m < n
      BY <1>8c, <3>2
    <3>3. CASE m = n
      <4>1. ~(e <= r)
        BY <2>6, <3>1
      <4>2. r < Len(s)
        BY ONLY <2>3, <4>1, <1>0, r \in Nat
      <4>. QED
        BY <2>2, <3>3, <4>2
    <3>. QED
      BY <1>m, <3>2, <3>3
  <2>. QED
    BY <1>3, <1>5, <2>2, <2>4, <2>5, <2>6, <2>7, <2>8, <2>9 DEF Sees, wrong, a, n, b
<1>. QED
  BY <1>0, <1>3, <1>9, <1>10, <1>11

(* The inductive invariant, for a stream s with the chain x: what has been    *)
(* parsed are the first commands of x, all that have come in full; what is    *)
(* kept is what was read behind them; and a parse has thrown only on what is  *)
(* wrong in the stream.                                                       *)
Parsing(s, x, r, b, g, f, fr) ==
    /\ r \in Nat /\ r <= Len(s) /\ f \in BOOLEAN
    /\ fr = Ends(x) \o LastFrame(s, At(1, x, Len(x)))
    /\ g \in Seq(Seq(Seq(Nat))) /\ Len(g) <= Len(x)
    /\ \A i \in 1 .. Len(g) : g[i] = x[i].v
    /\ At(1, x, Len(g)) <= r + 1
    /\ b = SubSeq(s, At(1, x, Len(g)), r)
    /\ ~f /\ Len(g) < Len(x) => r + 1 < At(1, x, Len(g) + 1)
    /\ f => NoCommandAt(s, At(1, x, Len(x)))

(* A wrong byte has come.                                                     *)
WrongSeen(fr, r) == \E i \in DOMAIN fr : fr[i].err \in 1 .. r

(* Where frame i ends.                                                        *)
EndOf(fr, i) == IF i = 0 THEN 0 ELSE fr[i].end

(* How many frames have come in full.                                         *)
WholeSeen(fr, r) == {m \in 0 .. Len(fr) : EndOf(fr, m) <= r
    /\ (m < Len(fr) => r < EndOf(fr, m + 1))}

(* What holds after a read, as the steps of CommandStream need it.            *)
AfterRead(s, x, q, all, parsed, g, fr) ==
    /\ q <= EndOf(fr, Len(fr))
    /\ NoCommandAt(all, parsed.p) => Parsing(s, x, q, all, g, TRUE, fr) /\ WrongSeen(fr, q)
    /\ ~NoCommandAt(all, parsed.p) =>
          /\ Parsing(s, x, q, Kept(all, parsed.p), g \o parsed.v, FALSE, fr)
          /\ ~WrongSeen(fr, q)
          /\ Len(g \o parsed.v) \in WholeSeen(fr, q)

(* The commands of a chain are commands.                                      *)
LEMMA ValuesSeq ==
    ASSUME NEW y \in Seq(Res)
    PROVE  /\ Values(y) \in Seq(Seq(Seq(Nat))) /\ Len(Values(y)) = Len(y)
           /\ \A i \in 1 .. Len(y) : Values(y)[i] = y[i].v
<1>1. Len(y) \in Nat /\ \A i \in 1 .. Len(y) : y[i] \in Res
  BY ElementOfSeq
<1>2. \A c \in Res : c.v \in Seq(Seq(Nat))
  BY DEF Res
<1>3. \A i \in 1 .. Len(y) : y[i].v \in Seq(Seq(Nat))
  BY <1>1, <1>2
<1>. DEFINE V == Seq(Seq(Nat))
<1>. HIDE DEF V
<1>4. \A i \in 1 .. Len(y) : y[i].v \in V
  BY <1>3 DEF V
<1>5. Values(y) \in Seq(V) /\ Len(Values(y)) = Len(y)
      /\ \A i \in 1 .. Len(y) : Values(y)[i] = y[i].v
  BY <1>1, <1>4 DEF Values
<1>. QED
  BY <1>5 DEF V

(* A read keeps the invariant, throws if and only if a wrong byte has come,   *)
(* and otherwise parses the frames that have come in full.                    *)
LEMMA ReadStep ==
    ASSUME NEW s \in Seq(Nat), NEW x \in Chains(s, 1), NEW r, NEW b, NEW g, NEW fr,
           Parsing(s, x, r, b, g, FALSE, fr),
           NEW n \in Nat \ {0}, r + n <= Len(s),
           NEW parsed \in CommandsOf(b \o SubSeq(s, r + 1, r + n))
    PROVE  AfterRead(s, x, r + n, b \o SubSeq(s, r + 1, r + n), parsed, g, fr)
<1>. DEFINE m == Len(g)
            a == At(1, x, m)
            q == r + n
            all == b \o SubSeq(s, r + 1, q)
            t == SubSeq(s, a, q)
<1>0. Len(s) \in Nat
  OBVIOUS
<1>1. /\ r \in Nat /\ r <= Len(s) /\ fr = Ends(x) \o LastFrame(s, At(1, x, Len(x)))
      /\ g \in Seq(Seq(Seq(Nat))) /\ m <= Len(x) /\ (\A i \in 1 .. m : g[i] = x[i].v)
      /\ a <= r + 1 /\ b = SubSeq(s, a, r)
  BY DEF Parsing
<1>2. Len(x) \in Nat /\ \A j \in 0 .. Len(x) : At(1, x, j) \in Nat \ {0}
  BY ChainAt
<1>3. m \in 0 .. Len(x) /\ m \in Nat /\ a \in Nat \ {0} /\ q \in Nat /\ q <= Len(s) /\ a <= q + 1
  <2>1. m \in 0 .. Len(x) /\ m \in Nat
    BY <1>1, <1>2
  <2>2. a \in Nat \ {0}
    BY <1>2, <2>1
  <2>. HIDE DEF a, m
  <2>. QED
    BY <1>1, <2>1, <2>2
<1>4. all = t
  <2>. HIDE DEF a, m
  <2>1. a \in 1 .. Len(s) + 1 /\ r \in a - 1 .. Len(s) /\ q \in r .. Len(s)
    BY <1>0, <1>1, <1>3
  <2>2. SubSeq(s, a, r) \o SubSeq(s, r + 1, q) = SubSeq(s, a, q)
    BY <2>1, ConcatAdjacentSubSeq
  <2>. QED
    BY <1>1, <2>2
<1>5. t \in Seq(Nat) /\ Len(t) = (q + 1) - a
  BY <1>3, PieceTyped
<1>6. PICK y \in Chains(t, 1) : TRUE
  <2>. HIDE DEF t
  <2>1. 1 \in 0 .. Len(t) + 1
    BY <1>5
  <2>2. Chains(t, 1) # {}
    BY <1>5, <2>1, ChainExists
  <2>. QED
    BY <2>2
<1>7. parsed = [v |-> Values(y), p |-> At(1, y, Len(y))]
  <2>1. parsed \in CommandsOf(t)
    BY <1>4
  <2>. HIDE DEF t
  <2>. QED
    BY <1>5, <1>6, <2>1, CommandsOfChain
<1>8. Follows(s, x, m, q, y)
  <2>1. y \in Chains(SubSeq(s, At(1, x, m), q), 1) /\ At(1, x, m) <= q + 1
    BY <1>3, <1>6
  <2>. HIDE DEF q, m, a, t
  <2>. QED
    BY <1>3, <2>1, ParseOfPiece
<1>9. /\ Len(y) \in Nat /\ y \in Seq(Res)
      /\ \A j \in 0 .. Len(y) : At(1, y, j) \in Nat \ {0} /\ At(1, y, j) <= Len(t) + 1
  <2>. HIDE DEF t
  <2>. QED
    BY <1>5, <1>6, ChainAt
<1>. DEFINE k == m + Len(y)
            p == At(1, y, Len(y))
<1>10. /\ k <= Len(x) /\ k \in Nat /\ k \in 0 .. Len(x)
       /\ \A i \in 1 .. Len(y) : y[i].v = x[m + i].v
       /\ p + (a - 1) = At(1, x, k) /\ At(1, x, k) <= q + 1
       /\ k < Len(x) => q + 1 < At(1, x, k + 1)
       /\ NoCommandAt(t, p) <=> NoCommandAt(SubSeq(s, 1, q), At(1, x, k))
  <2>1. k \in Nat
    BY <1>3, <1>9
  <2>2. k <= Len(x)
    BY <1>8 DEF Follows
  <2>3. k \in 0 .. Len(x)
    BY <1>2, <2>1, <2>2
  <2>. QED
    BY <1>8, <2>1, <2>2, <2>3 DEF Follows
<1>11. Sees(s, x, fr, k, q)
  <2>. HIDE DEF q, k
  <2>. QED
    BY <1>1, <1>3, <1>10, WhatIsSeen
<1>12. p \in Nat \ {0} /\ p <= Len(t) + 1
  <2>1. Len(y) \in 0 .. Len(y)
    BY <1>9
  <2>. QED
    BY <1>9, <2>1
<1>13. Len(fr) \in Nat /\ DOMAIN fr = 1 .. Len(fr) /\ q <= EndOf(fr, Len(fr))
  BY <1>11 DEF Sees, EndOf
<1>14. WrongSeen(fr, q) <=> NoCommandAt(t, p)
  BY <1>10, <1>11 DEF Sees, WrongSeen
<1>15. ASSUME NoCommandAt(t, p) PROVE Parsing(s, x, q, t, g, TRUE, fr)
  <2>1. NoCommandAt(s, At(1, x, Len(x)))
    BY <1>10, <1>11, <1>15 DEF Sees
  <2>2. At(1, x, Len(g)) <= q + 1
    BY <1>3
  <2>. HIDE DEF q
  <2>. QED
    BY <1>1, <1>3, <2>1, <2>2 DEF Parsing
<1>16. /\ Values(y) \in Seq(Seq(Seq(Nat))) /\ Len(Values(y)) = Len(y)
       /\ \A i \in 1 .. Len(y) : Values(y)[i] = y[i].v
  BY <1>9, ValuesSeq
<1>. DEFINE h == g \o Values(y)
            V == Seq(Seq(Nat))
<1>17. /\ h \in Seq(V) /\ Len(h) = k
       /\ \A i \in 1 .. Len(g) + Len(Values(y)) :
             h[i] = IF i <= Len(g) THEN g[i] ELSE Values(y)[i - Len(g)]
  <2>1. g \in Seq(V) /\ Values(y) \in Seq(V)
    BY <1>1, <1>16
  <2>. HIDE DEF V
  <2>2. /\ h \in Seq(V) /\ Len(h) = Len(g) + Len(Values(y))
        /\ \A i \in 1 .. Len(g) + Len(Values(y)) :
             h[i] = IF i <= Len(g) THEN g[i] ELSE Values(y)[i - Len(g)]
    BY <2>1, ConcatProperties
  <2>. QED
    BY <1>16, <2>2
<1>18. ASSUME NEW i \in 1 .. k PROVE h[i] = x[i].v
  <2>. HIDE DEF h
  <2>1. CASE i <= m
    <3>1. i \in 1 .. m /\ i \in 1 .. Len(g) + Len(Values(y))
      BY <1>3, <1>9, <1>16, <2>1
    <3>. QED
      BY <1>1, <1>17, <2>1, <3>1
  <2>2. CASE ~(i <= m)
    <3>1. i - m \in 1 .. Len(y) /\ i \in 1 .. Len(g) + Len(Values(y)) /\ m + (i - m) = i
      BY <1>3, <1>9, <1>16, <2>2
    <3>2. h[i] = Values(y)[i - m]
      BY <1>17, <2>2, <3>1
    <3>3. Values(y)[i - m] = y[i - m].v /\ y[i - m].v = x[m + (i - m)].v
      BY <1>10, <1>16, <3>1
    <3>. QED
      BY <3>1, <3>2, <3>3
  <2>. QED
    BY <2>1, <2>2
<1>19. Kept(t, p) = SubSeq(s, At(1, x, k), q)
  <2>1. InWindow(t, s, a - 1) /\ a - 1 \in Nat
    BY <1>3, PieceOfPrefix
  <2>. DEFINE d == a - 1
  <2>2. d \in Nat /\ InWindow(t, s, d) /\ Len(t) + d = q /\ p + d = At(1, x, k)
    <3>1. Len(t) + (a - 1) = q
      <4>. HIDE DEF a, q, t
      <4>. QED
        BY <1>3, <1>5
    <3>. QED
      BY <1>10, <2>1, <3>1
  <2>. HIDE DEF d, t, q, p
  <2>3. p \in Int /\ Len(t) \in Int /\ 1 <= p /\ Len(t) <= Len(t)
    BY <1>5, <1>12
  <2>4. SubSeq(t, p, Len(t)) = SubSeq(s, p + d, Len(t) + d)
    <3>1. SamePiece(t, s, d, p, Len(t))
      BY ONLY <1>5, s \in Seq(Nat), <2>2, <2>3, PieceInWindow
    <3>. QED
      BY <3>1 DEF SamePiece
  <2>. QED
    BY <2>2, <2>4 DEF Kept
<1>20. Parsing(s, x, q, Kept(t, p), h, FALSE, fr)
  <2>. HIDE DEF q, h, k, p, t
  <2>. QED
    BY <1>1, <1>3, <1>10, <1>17, <1>18, <1>19 DEF Parsing
<1>21. ASSUME ~NoCommandAt(t, p) PROVE Len(h) \in WholeSeen(fr, q)
  <2>1. ~NoCommandAt(SubSeq(s, 1, q), At(1, x, k))
    BY <1>10, <1>21
  <2>2. /\ k \in 0 .. Len(fr) /\ (IF k = 0 THEN 0 ELSE fr[k].end) <= q
        /\ k < Len(fr) => q < fr[k + 1].end
    BY <1>11, <2>1 DEF Sees
  <2>3. k + 1 # 0
    BY <1>10
  <2>. HIDE DEF q, k, h
  <2>4. k \in WholeSeen(fr, q)
    BY <2>2, <2>3 DEF WholeSeen, EndOf
  <2>. QED
    BY <1>17, <2>4
<1>22. parsed.v = Values(y) /\ parsed.p = p
  BY <1>7
<1>. HIDE DEF t, p, h
<1>23. AfterRead(s, x, q, t, parsed, g, fr)
  <2>. HIDE DEF q
  <2>. QED
    BY <1>13, <1>14, <1>15, <1>20, <1>21, <1>22 DEF AfterRead, h
<1>. QED
  BY <1>4, <1>23 DEF t

-------------------------------------------------------------------------------
(* The steps of the session.                                                  *)

(* The chain of the stream.                                                   *)
All == CHOOSE x : x \in Chains(stream, 1)

(* The invariant of the session's parsing.                                    *)
ParseInv == stream \in Seq(Nat) /\ Parsing(stream, All, read, buf, got, failed, frames)

(* The choice of a chain is one.                                              *)
LEMMA AllIsChain ==
    ASSUME NEW s \in Seq(Nat)
    PROVE  (CHOOSE x : x \in Chains(s, 1)) \in Chains(s, 1)
<1>1. 1 \in 0 .. Len(s) + 1
  OBVIOUS
<1>2. Chains(s, 1) # {}
  BY <1>1, ChainExists
<1>. QED
  BY <1>2

(* The stream is bytes, right or with a wrong one, and the client means       *)
(* commands.                                                                  *)
LEMMA StreamTyped == Init => stream \in Seq(Nat) /\ meant \in Seq(Seq(Seq(Nat)))
<1>. SUFFICES ASSUME Init PROVE stream \in Seq(Nat) /\ meant \in Seq(Seq(Seq(Nat)))
  OBVIOUS
<1>1. PICK n \in 1 .. MaxSent : meant \in [1 .. n -> Commands]
  BY DEF Init
<1>2. n \in Nat
  OBVIOUS
<1>3. meant \in Seq(Seq(Seq(Nat)))
  <2>1. \A i \in 1 .. n : meant[i] \in Seq(Seq(Nat))
    BY <1>1, BytesAssumption
  <2>. QED
    BY <1>1, <1>2, <2>1
<1>4. EncodeAll(meant) \in Seq(Nat)
  BY <1>3, EncodeAllTyped
<1>5. stream = EncodeAll(meant) \/ \E i \in DOMAIN EncodeAll(meant), c \in Bytes :
          stream = [EncodeAll(meant) EXCEPT ![i] = c]
  BY DEF Init
<1>. DEFINE right == EncodeAll(meant)
<1>. HIDE DEF right
<1>6. right \in Seq(Nat)
  BY <1>4 DEF right
<1>7. stream = right \/ \E i \in DOMAIN right, c \in Bytes : stream = [right EXCEPT ![i] = c]
  BY <1>5 DEF right
<1>8. ASSUME NEW i \in DOMAIN right, NEW c \in Bytes PROVE [right EXCEPT ![i] = c] \in Seq(Nat)
  <2>1. i \in 1 .. Len(right) /\ c \in Nat
    BY <1>6, BytesAssumption
  <2>. QED
    BY ONLY <1>6, <2>1, ExceptSeq
<1>. QED
  BY <1>3, <1>6, <1>7, <1>8

(* Nothing has been read and parsed at first.                                 *)
LEMMA ParseInit == Init => ParseInv
<1>. SUFFICES ASSUME Init PROVE ParseInv
  OBVIOUS
<1>1. stream \in Seq(Nat)
  BY StreamTyped
<1>2. All \in Chains(stream, 1)
  BY <1>1, AllIsChain DEF All
<1>3. frames = Ends(All) \o LastFrame(stream, At(1, All, Len(All)))
  <2>1. frames \in FramesOf(stream)
    BY DEF Init
  <2>. QED
    BY <1>1, <1>2, <2>1, FramesOfChain
<1>4. read = 0 /\ buf = <<>> /\ got = <<>> /\ failed = FALSE
  BY DEF Init
<1>5. Len(got) = 0 /\ got \in Seq(Seq(Seq(Nat))) /\ Len(stream) \in Nat
  BY <1>1, <1>4
<1>6. /\ Len(All) \in Nat /\ At(1, All, 0) = 1
      /\ \A j \in 0 .. Len(All) : /\ At(1, All, j) \in Nat \ {0}
                                  /\ \A i \in 0 .. j : At(1, All, i) + (j - i) <= At(1, All, j)
  BY <1>1, <1>2, ChainAt
<1>7. buf = SubSeq(stream, 1, 0)
  BY <1>4, SubSeqEmpty
<1>8. ASSUME 0 < Len(All) PROVE 0 + 1 < At(1, All, 0 + 1)
  <2>1. 1 \in 0 .. Len(All) /\ 0 \in 0 .. 1
    BY <1>6, <1>8
  <2>2. At(1, All, 0) + (1 - 0) <= At(1, All, 1) /\ At(1, All, 1) \in Nat
    BY <1>6, <2>1
  <2>. QED
    BY <1>6, <2>2
<1>. HIDE DEF All
<1>9. Parsing(stream, All, 0, buf, got, FALSE, frames)
  BY <1>3, <1>5, <1>6, <1>7, <1>8 DEF Parsing
<1>. QED
  BY <1>1, <1>4, <1>9 DEF ParseInv

(* on_read keeps the invariant, and is a step of CommandStream.               *)
LEMMA ParseRead ==
    ASSUME ParseInv, NEW n \in Nat \ {0}, OnRead(n)
    PROVE  /\ ParseInv' /\ CS!Receive
<1>1. /\ ~failed /\ read + n <= Len(stream) /\ read' = read + n
      /\ UNCHANGED <<meant, stream, frames>>
  BY DEF OnRead
<1>. DEFINE all == buf \o SubSeq(stream, read + 1, read + n)
<1>2. PICK parsed \in CommandsOf(all) :
          IF NoCommandAt(all, parsed.p)
          THEN failed' = TRUE /\ buf' = all /\ UNCHANGED got
          ELSE /\ buf' = Kept(all, parsed.p)
               /\ got' = got \o parsed.v
               /\ UNCHANGED failed
  BY DEF OnRead
<1>3. stream \in Seq(Nat) /\ All \in Chains(stream, 1)
      /\ Parsing(stream, All, read, buf, got, FALSE, frames)
  <2>1. stream \in Seq(Nat) /\ Parsing(stream, All, read, buf, got, failed, frames)
    BY DEF ParseInv
  <2>2. failed = FALSE
    BY <1>1, <2>1 DEF Parsing
  <2>3. All \in Chains(stream, 1)
    BY <2>1, AllIsChain DEF All
  <2>. QED
    BY <2>1, <2>2, <2>3
<1>4. AfterRead(stream, All, read + n, all, parsed, got, frames)
  <2>. HIDE DEF All
  <2>. QED
    BY ONLY <1>1, <1>2, <1>3, n \in Nat \ {0}, ReadStep
<1>5. All' = All
  BY <1>1 DEF All
<1>6. read \in Nat /\ read + n \in read + 1 .. CS!End(Len(frames))
  <2>1. read \in Nat
    BY <1>3 DEF Parsing
  <2>2. read + n <= EndOf(frames, Len(frames))
    BY <1>4 DEF AfterRead
  <2>3. Parsing(stream, All, read + n, all, got, TRUE, frames) \/ TRUE
    OBVIOUS
  <2>4. EndOf(frames, Len(frames)) = CS!End(Len(frames))
    BY DEF EndOf, CS!End
  <2>. QED
    BY <2>1, <2>2, <2>4
<1>. HIDE DEF all, All
<1>7. CASE NoCommandAt(all, parsed.p)
  <2>1. failed' = TRUE /\ buf' = all /\ got' = got
    BY <1>2, <1>7
  <2>2. Parsing(stream, All, read + n, all, got, TRUE, frames) /\ WrongSeen(frames, read + n)
    BY <1>4, <1>7 DEF AfterRead
  <2>3. ParseInv'
    BY <1>1, <1>3, <1>5, <2>1, <2>2 DEF ParseInv
  <2>4. CS!Receive
    BY <1>1, <1>6, <2>1, <2>2 DEF CS!Receive, CS!WrongIn, WrongSeen
  <2>. QED
    BY <2>3, <2>4
<1>8. CASE ~NoCommandAt(all, parsed.p)
  <2>1. failed' = failed /\ failed' = FALSE /\ buf' = Kept(all, parsed.p) /\ got' = got \o parsed.v
    <3>1. failed = FALSE
      BY <1>1, <1>3 DEF ParseInv, Parsing
    <3>. QED
      BY <1>2, <1>8, <3>1
  <2>2. /\ Parsing(stream, All, read + n, Kept(all, parsed.p), got \o parsed.v, FALSE, frames)
        /\ ~WrongSeen(frames, read + n)
        /\ Len(got \o parsed.v) \in WholeSeen(frames, read + n)
    BY <1>4, <1>8 DEF AfterRead
  <2>3. ParseInv'
    BY <1>1, <1>3, <1>5, <2>1, <2>2 DEF ParseInv
  <2>4. Len(got') \in CS!CommandsIn(read')
    BY <1>1, <2>1, <2>2 DEF CS!CommandsIn, WholeSeen, CS!End, EndOf
  <2>5. CS!Receive
    BY <1>1, <1>6, <2>1, <2>2, <2>4 DEF CS!Receive, CS!WrongIn, WrongSeen
  <2>. QED
    BY <2>3, <2>5
<1>. QED
  BY <1>7, <1>8

(* What leaves the parser alone keeps it, and is a stutter there.             *)
LEMMA ParseKeeps == ParseInv /\ UNCHANGED vars => ParseInv' /\ UNCHANGED CS!vars
<1>. SUFFICES ASSUME ParseInv, UNCHANGED vars PROVE ParseInv' /\ UNCHANGED CS!vars
  OBVIOUS
<1>1. stream' = stream /\ read' = read /\ buf' = buf /\ got' = got /\ failed' = failed
      /\ frames' = frames
  BY DEF vars
<1>2. All' = All
  BY <1>1 DEF All
<1>. QED
  BY <1>1, <1>2 DEF ParseInv, CS!vars

(* Every step of the session keeps it, and maps to a step or a stutter.       *)
LEMMA ParseStep ==
    ParseInv /\ [SessionNext]_sessionVars => ParseInv' /\ [CS!Next]_(CS!vars)
<1>. SUFFICES ASSUME ParseInv, [SessionNext]_sessionVars
              PROVE  ParseInv' /\ [CS!Next]_(CS!vars)
  OBVIOUS
<1>1. CASE UNCHANGED vars
  BY <1>1, ParseKeeps
<1>2. ASSUME NEW n \in 1 .. Len(stream), ReadBytes(n) PROVE ParseInv' /\ [CS!Next]_(CS!vars)
  <2>1. n \in Nat \ {0} /\ OnRead(n)
    BY <1>2 DEF ReadBytes
  <2>2. ParseInv' /\ CS!Receive
    BY <2>1, ParseRead
  <2>. QED
    BY <2>2 DEF CS!Next
<1>3. CASE ClientGoes
  BY <1>1, <1>3 DEF ClientGoes
<1>4. CASE RunBatch
  BY <1>1, <1>4 DEF RunBatch
<1>5. CASE Ended
  BY <1>1, <1>5 DEF Ended, sessionVars
<1>6. CASE UNCHANGED sessionVars
  BY <1>1, <1>6 DEF sessionVars
<1>. QED
  BY <1>2, <1>3, <1>4, <1>5, <1>6 DEF SessionNext, ReadSome

(* The invariant gives the types.                                             *)
LEMMA ParseTypes == ParseInv => TypeOK
<1>. SUFFICES ASSUME ParseInv PROVE TypeOK
  OBVIOUS
<1>. DEFINE a == At(1, All, Len(got))
<1>1. /\ stream \in Seq(Nat) /\ read \in Nat /\ read <= Len(stream) /\ failed \in BOOLEAN
      /\ Len(got) \in Nat /\ Len(got) <= Len(All) /\ a <= read + 1 /\ buf = SubSeq(stream, a, read)
  BY DEF ParseInv, Parsing
<1>2. All \in Chains(stream, 1)
  BY <1>1, AllIsChain DEF All
<1>3. Len(All) \in Nat /\ \A j \in 0 .. Len(All) : At(1, All, j) \in Nat \ {0}
  BY <1>1, <1>2, ChainAt
<1>. HIDE DEF All
<1>4. a \in Nat \ {0}
  <2>1. Len(got) \in 0 .. Len(All)
    BY <1>1, <1>3
  <2>. QED
    BY <1>3, <2>1
<1>. HIDE DEF a
<1>5. Len(buf) = (read + 1) - a
  BY <1>1, <1>4, PieceTyped
<1>6. read - Len(buf) + 1 = a
  BY <1>1, <1>4, <1>5
<1>7. read \in 0 .. Len(stream)
  <2>1. Len(stream) \in Nat
    BY <1>1
  <2>. QED
    BY ONLY <1>1, <2>1
<1>8. buf = SubSeq(stream, read - Len(buf) + 1, read)
  BY ONLY <1>1, <1>6
<1>. QED
  BY <1>1, <1>7, <1>8 DEF TypeOK

(* on_read's buffer holds at any time the bytes read last, as many as it has, *)
(* whatever is sent and however it is read.                                   *)
THEOREM SessionTypes == SessionSpec => []TypeOK
<1>1. SessionInit => ParseInv
  BY ParseInit DEF SessionInit
<1>2. ParseInv /\ [SessionNext]_sessionVars => ParseInv'
  BY ParseStep
<1>. QED
  BY <1>1, <1>2, ParseTypes, PTL DEF SessionSpec

(* Parsing anew at every read, from what RespRequestParser left in the        *)
(* buffer, finds the commands and the wrong byte that one parse of the whole  *)
(* stream finds, each at the read that brings its last byte: it does not      *)
(* matter how TCP cuts the stream.                                            *)
THEOREM ParsesAsAWhole == SessionSpec => ImplementsCommandStream
<1>1. SessionInit => ParseInv
  BY ParseInit DEF SessionInit
<1>2. ParseInv /\ [SessionNext]_sessionVars => ParseInv' /\ [CS!Next]_(CS!vars)
  BY ParseStep
<1>3. SessionInit => CS!Init
  BY DEF SessionInit, Init, CS!Init
<1>. QED
  BY <1>1, <1>2, <1>3, PTL DEF SessionSpec, ImplementsCommandStream, CS!Safe

-------------------------------------------------------------------------------
(* Encodings parse back.                                                      *)

(* A line with a number: a type, digits, an end of line.                      *)
NumberLine(c, w) == <<c>> \o w \o <<CR, LF>>

(* It is parsed as the number.                                                *)
LEMMA HeadParses ==
    ASSUME NEW c \in Nat, NEW w \in Seq(Digit)
    PROVE  /\ NumberLine(c, w) \in Seq(Nat) /\ Len(NumberLine(c, w)) = Len(w) + 3
           /\ Len(w) > 0 => [v |-> ValueOf(w), p |-> Len(NumberLine(c, w)) + 1]
                                \in NumberAt(c, NumberLine(c, w), 1)
<1>. DEFINE a == <<c>> \o w
            z == <<CR, LF>>
            head == a \o z
            n == Len(head) + 1
<1>0. Digit \subseteq Nat /\ CR \in Nat /\ LF \in Nat
  BY DEF Digit, Zero, CR, LF
<1>1. w \in Seq(Nat) /\ Len(w) \in Nat /\ \A i \in 1 .. Len(w) : w[i] \in Digit
  <2>1. Len(w) \in Nat /\ \A i \in 1 .. Len(w) : w[i] \in Digit
    OBVIOUS
  <2>2. Seq(Digit) \subseteq Seq(Nat)
    BY <1>0, SeqMonotonic
  <2>. QED
    BY <2>1, <2>2
<1>2. <<c>> \in Seq(Nat) /\ Len(<<c>>) = 1 /\ <<c>>[1] = c
  OBVIOUS
<1>3. z \in Seq(Nat) /\ Len(z) = 2 /\ z[1] = CR /\ z[2] = LF
  BY <1>0
<1>4. /\ a \in Seq(Nat) /\ Len(a) = 1 + Len(w) /\ InWindow(<<c>>, a, 0) /\ InWindow(w, a, 1)
  BY <1>1, <1>2, ConcatWindows
<1>. HIDE DEF a, z
<1>5. /\ head \in Seq(Nat) /\ Len(head) = Len(a) + 2 /\ InWindow(a, head, 0)
      /\ InWindow(z, head, Len(a))
  BY <1>3, <1>4, ConcatWindows
<1>. HIDE DEF head
<1>6. InWindow(<<c>>, head, 0 + 0) /\ InWindow(w, head, 1 + 0)
  BY <1>1, <1>2, <1>4, <1>5, WindowInWindow
<1>7. Len(head) = Len(w) + 3 /\ n = Len(w) + 4
  BY <1>1, <1>4, <1>5
<1>8. ASSUME Len(w) > 0 PROVE [v |-> ValueOf(w), p |-> n] \in NumberAt(c, head, 1)
  <2>1. head[1] = c
    <3>1. 1 \in 1 .. Len(<<c>>) /\ 1 + (0 + 0) = 1
      BY <1>2
    <3>2. <<c>>[1] = head[1 + (0 + 0)]
      BY <1>6, <3>1 DEF InWindow
    <3>. QED
      BY <1>2, <3>1, <3>2
  <2>2. CrLf(head, n - 2)
    <3>1. 1 \in 1 .. Len(z) /\ 2 \in 1 .. Len(z) /\ 1 + Len(a) = n - 2 /\ 2 + Len(a) = (n - 2) + 1
      BY <1>1, <1>3, <1>4, <1>7
    <3>2. z[1] = head[1 + Len(a)] /\ z[2] = head[2 + Len(a)]
      BY <1>5, <3>1 DEF InWindow
    <3>. QED
      BY <1>3, <3>1, <3>2 DEF CrLf
  <2>3. ASSUME NEW i \in 1 + 1 .. n - 3 PROVE head[i] \in Digit
    <3>1. i - 1 \in 1 .. Len(w) /\ (i - 1) + (1 + 0) = i
      BY <1>1, <1>7
    <3>2. w[i - 1] = head[(i - 1) + (1 + 0)]
      BY <1>6, <3>1 DEF InWindow
    <3>. QED
      BY <1>1, <3>1, <3>2
  <2>4. AllDigits(head, 1 + 1, n - 3)
    BY <2>3 DEF AllDigits
  <2>5. n \in 1 + 4 .. Len(head) + 1
    BY <1>1, <1>5, <1>7, <1>8
  <2>6. [v |-> Number(head, 1 + 1, n - 3), p |-> n] \in NumberAt(c, head, 1)
    <3>. HIDE DEF n
    <3>. QED
      BY <1>5, <2>1, <2>2, <2>4, <2>5, NumberIntro
  <2>7. Number(head, 1 + 1, n - 3) = ValueOf(w)
    <3>1. 1 + (1 + 0) = 1 + 1 /\ Len(w) + (1 + 0) = n - 3 /\ 1 \in Int /\ Len(w) \in Int /\ 1 <= 1
          /\ Len(w) <= Len(w) /\ 1 + 0 \in Nat
      BY <1>1, <1>7
    <3>2. SubSeq(w, 1, Len(w)) = SubSeq(head, 1 + (1 + 0), Len(w) + (1 + 0))
      <4>1. SamePiece(w, head, 1 + 0, 1, Len(w))
        BY ONLY <1>1, <1>5, <1>6, <3>1, PieceInWindow
      <4>. QED
        BY <4>1 DEF SamePiece
    <3>3. SubSeq(w, 1, Len(w)) = w
      BY <1>1, SubSeqFull
    <3>. QED
      BY <3>1, <3>2, <3>3 DEF Number, ValueOf
  <2>. QED
    BY <2>6, <2>7
<1>. QED
  BY <1>5, <1>7, <1>8 DEF head, a, z, NumberLine

(* A string that is encoded is parsed as the string, whatever its bytes.      *)
LEMMA EncodeArgParses ==
    ASSUME NEW a \in Seq(Nat)
    PROVE  [v |-> a, p |-> Len(EncodeArg(a)) + 1] \in ArgAt(EncodeArg(a), 1)
<1>. DEFINE w == Decimal(Len(a))
            z == <<CR, LF>>
            head == NumberLine(Dollar, w)
            b == head \o a
            s == b \o z
            n == Len(head) + 1
<1>0. Dollar \in Nat /\ CR \in Nat /\ LF \in Nat
  BY DEF Dollar, CR, LF
<1>1. w \in Seq(Digit) /\ Len(w) > 0 /\ ValueOf(w) = Len(a) /\ Len(a) \in Nat
  <2>1. Len(a) \in Nat
    OBVIOUS
  <2>. QED
    BY <2>1, DecimalIs
<1>2. z \in Seq(Nat) /\ Len(z) = 2 /\ z[1] = CR /\ z[2] = LF
  BY <1>0
<1>3. head \in Seq(Nat) /\ Len(head) \in Nat
      /\ [v |-> Len(a), p |-> n] \in NumberAt(Dollar, head, 1)
  <2>. HIDE DEF w
  <2>1. head \in Seq(Nat) /\ [v |-> ValueOf(w), p |-> n] \in NumberAt(Dollar, head, 1)
    BY <1>0, <1>1, HeadParses
  <2>. QED
    BY <1>1, <2>1
<1>4. EncodeArg(a) = s
  BY DEF EncodeArg, NumberLine
<1>. HIDE DEF w, z, head
<1>5. b \in Seq(Nat) /\ Len(b) = Len(head) + Len(a) /\ InWindow(head, b, 0)
      /\ InWindow(a, b, Len(head))
  BY <1>3, ConcatWindows
<1>. HIDE DEF b
<1>6. s \in Seq(Nat) /\ Len(s) = Len(b) + 2 /\ InWindow(b, s, 0) /\ InWindow(z, s, Len(b))
  BY <1>2, <1>5, ConcatWindows
<1>. HIDE DEF s
<1>7. InWindow(head, s, 0 + 0) /\ InWindow(a, s, Len(head) + 0)
  BY <1>3, <1>5, <1>6, WindowInWindow
<1>. DEFINE len == [v |-> Len(a), p |-> n]
            h == Len(head)
<1>8. h \in Nat /\ n = h + 1 /\ Len(s) = h + Len(a) + 2 /\ len.p = n /\ len.v = Len(a)
  BY <1>1, <1>3, <1>5, <1>6
<1>9. len \in NumberAt(Dollar, s, 1)
  <2>. DEFINE r == [v |-> Len(a), p |-> n]
  <2>1. r \in NumberAt(Dollar, head, 1) /\ 1 \in Nat \ {0} /\ 0 \in Nat /\ InWindow(head, s, 0)
    BY <1>3, <1>7
  <2>2. r.v = Len(a) /\ r.p = n
    OBVIOUS
  <2>. HIDE DEF r, n
  <2>3. [v |-> r.v, p |-> r.p + 0] \in NumberAt(Dollar, s, 1 + 0)
    BY <1>3, <1>6, <2>1, NumberGrows
  <2>4. n + 0 = n /\ 1 + 0 = 1
    BY <1>8
  <2>. QED
    BY <2>2, <2>3, <2>4
<1>. HIDE DEF h
<1>10. EnoughForArg(s, len.p, len.v)
  BY <1>1, <1>8 DEF EnoughForArg
<1>11. CrLf(s, len.p + len.v)
  <2>1. 1 \in 1 .. Len(z) /\ 2 \in 1 .. Len(z) /\ 1 + Len(b) = len.p + len.v
        /\ 2 + Len(b) = (len.p + len.v) + 1
    BY <1>1, <1>2, <1>5, <1>8
  <2>2. z[1] = s[1 + Len(b)] /\ z[2] = s[2 + Len(b)]
    BY <1>6, <2>1 DEF InWindow
  <2>. QED
    BY <1>2, <2>1, <2>2 DEF CrLf
<1>12. ArgOf(s, len) \in ArgAt(s, 1)
  <2>. HIDE DEF len
  <2>. QED
    BY <1>6, <1>9, <1>10, <1>11, ArgIntro
<1>13. ArgOf(s, len) = [v |-> a, p |-> Len(s) + 1]
  <2>1. SubSeq(s, len.p, len.p + len.v - 1) = a
    <3>1. 1 + (Len(head) + 0) = len.p /\ Len(a) + (Len(head) + 0) = len.p + len.v - 1
          /\ 1 \in Int /\ Len(a) \in Int /\ 1 <= 1 /\ Len(a) <= Len(a) /\ Len(head) + 0 \in Nat
      BY <1>1, <1>3
    <3>2. SubSeq(a, 1, Len(a)) = SubSeq(s, 1 + (Len(head) + 0), Len(a) + (Len(head) + 0))
      <4>1. SamePiece(a, s, Len(head) + 0, 1, Len(a))
        BY ONLY <1>6, <1>7, <3>1, a \in Seq(Nat), PieceInWindow
      <4>. QED
        BY <4>1 DEF SamePiece
    <3>3. SubSeq(a, 1, Len(a)) = a
      BY SubSeqFull
    <3>. QED
      BY <3>1, <3>2, <3>3
  <2>2. len.p + len.v + 2 = Len(s) + 1
    BY <1>1, <1>8
  <2>. QED
    BY <2>1, <2>2 DEF ArgOf
<1>. QED
  BY <1>4, <1>12, <1>13

(* The encodings of the strings of a command.                                 *)
Args(cmd) == [i \in DOMAIN cmd |-> EncodeArg(cmd[i])]

(* They are bytes.                                                            *)
LEMMA ArgsTypes ==
    ASSUME NEW cmd \in Seq(Seq(Nat))
    PROVE  /\ Args(cmd) \in Seq(Seq(Nat)) /\ Len(Args(cmd)) = Len(cmd)
           /\ \A i \in 1 .. Len(cmd) : Args(cmd)[i] = EncodeArg(cmd[i]) /\ cmd[i] \in Seq(Nat)
<1>1. DOMAIN cmd = 1 .. Len(cmd) /\ Len(cmd) \in Nat
  OBVIOUS
<1>2. \A i \in 1 .. Len(cmd) : EncodeArg(cmd[i]) \in Seq(Nat) /\ cmd[i] \in Seq(Nat)
  BY ElementOfSeq, EncodeArgTyped
<1>3. Args(cmd) = [i \in 1 .. Len(cmd) |-> EncodeArg(cmd[i])]
  BY <1>1 DEF Args
<1>4. Args(cmd) \in Seq(Seq(Nat)) /\ Len(Args(cmd)) = Len(cmd)
  BY <1>1, <1>2, <1>3
<1>. QED
  BY <1>2, <1>3, <1>4

(* The first k of them are parsed as the first k strings.                     *)
LEMMA ArgsParse ==
    ASSUME NEW cmd \in Seq(Seq(Nat)), NEW s \in Seq(Nat), NEW d \in Nat,
           InWindow(FlattenSeq(Args(cmd)), s, d), NEW k \in 0 .. Len(cmd)
    PROVE  [v |-> SubSeq(cmd, 1, k), p |-> d + 1 + Len(FlattenSeq(SubSeq(Args(cmd), 1, k)))]
              \in ArgsAt(s, d + 1, k)
<1>. DEFINE args == Args(cmd)
            all == FlattenSeq(args)
            n == Len(cmd)
            L(i) == Len(FlattenSeq(SubSeq(args, 1, i)))
            R(i) == [v |-> SubSeq(cmd, 1, i), p |-> d + 1 + L(i)]
            S == {i \in 0 .. n : R(i) \in ArgsAt(s, d + 1, i)}
<1>1. /\ args \in Seq(Seq(Nat)) /\ Len(args) = n /\ n \in Nat
      /\ \A i \in 1 .. n : args[i] = EncodeArg(cmd[i]) /\ cmd[i] \in Seq(Nat)
  BY ArgsTypes
<1>2. all \in Seq(Nat) /\ InWindow(all, s, d)
  BY <1>1, FlattenTyped
<1>3. \A i \in 0 .. n - 1 : /\ L(i) \in Nat /\ L(i + 1) = L(i) + Len(args[i + 1])
                            /\ InWindow(args[i + 1], all, L(i))
  BY <1>1, FlattenWindow
<1>4. 0 \in S
  <2>1. L(0) = 0
    BY <1>1, FlattenNothing
  <2>2. SubSeq(cmd, 1, 0) = <<>>
    BY SubSeqEmpty
  <2>3. ArgsAt(s, d + 1, 0) = {[v |-> <<>>, p |-> d + 1]}
    BY ArgsSteps
  <2>4. d + 1 + 0 = d + 1 /\ 0 \in 0 .. n
    BY <1>1
  <2>. HIDE DEF L
  <2>. QED
    BY <2>1, <2>2, <2>3, <2>4
<1>. HIDE DEF args, all, n, L
<1>5. ASSUME NEW i \in 0 .. n - 1, i \in S PROVE i + 1 \in S
  <2>. DEFINE e == args[i + 1]
              a == cmd[i + 1]
              arg == [v |-> a, p |-> Len(e) + 1]
              at == L(i) + d
  <2>1. i + 1 \in 1 .. n /\ i + 1 \in 0 .. n /\ i \in Nat
    BY <1>1
  <2>2. a \in Seq(Nat) /\ e = EncodeArg(a) /\ e \in Seq(Nat) /\ Len(e) \in Nat
    BY <1>1, <2>1, EncodeArgTyped
  <2>3. arg \in ArgAt(e, 1)
    BY <2>2, EncodeArgParses
  <2>4. /\ L(i) \in Nat /\ L(i + 1) = L(i) + Len(e) /\ InWindow(e, all, L(i))
    BY <1>3
  <2>5. InWindow(e, s, at) /\ at \in Nat
    BY ONLY <1>2, <2>2, <2>4, s \in Seq(Nat), d \in Nat, WindowInWindow, SMTT(30)
  <2>6. arg.v = a /\ arg.p = Len(e) + 1
    OBVIOUS
  <2>. HIDE DEF e, arg, at, a
  <2>7. [v |-> arg.v, p |-> arg.p + at] \in ArgAt(s, 1 + at)
    <3>1. e \in Seq(Nat) /\ at \in Nat /\ InWindow(e, s, at) /\ 1 \in Nat \ {0}
          /\ arg \in ArgAt(e, 1)
      BY <2>2, <2>3, <2>5
    <3>2. s \in Seq(Nat)
      OBVIOUS
    <3>. QED
      BY ONLY <3>1, <3>2, ArgGrows
  <2>8. 1 + at = d + 1 + L(i) /\ arg.p + at = d + 1 + L(i + 1)
    <3>. DEFINE l == L(i)
                m == L(i + 1)
                x == arg.p
                u == Len(e)
    <3>1. at = l + d /\ l \in Nat /\ m = l + u /\ u \in Nat /\ x = u + 1
      BY <2>2, <2>4, <2>6 DEF at
    <3>2. d \in Nat
      OBVIOUS
    <3>. HIDE DEF l, m, x, u
    <3>3. 1 + at = d + 1 + l /\ x + at = d + 1 + m
      BY ONLY <3>1, <3>2
    <3>. QED
      BY <3>3 DEF l, m, x
  <2>9. [v |-> a, p |-> d + 1 + L(i + 1)] \in ArgAt(s, R(i).p)
    BY <2>6, <2>7, <2>8
  <2>10. R(i) \in ArgsAt(s, d + 1, i)
    BY <1>5
  <2>11. [v |-> Append(R(i).v, a), p |-> d + 1 + L(i + 1)] \in ArgsAt(s, d + 1, i + 1)
    <3>. DEFINE b == R(i)
                g == [v |-> a, p |-> d + 1 + L(i + 1)]
    <3>1. g.v = a /\ g.p = d + 1 + L(i + 1) /\ b \in ArgsAt(s, d + 1, i) /\ g \in ArgAt(s, b.p)
          /\ d + 1 \in Nat
      BY <2>9, <2>10
    <3>. HIDE DEF b, g
    <3>2. [v |-> Append(b.v, g.v), p |-> g.p] \in ArgsAt(s, d + 1, i + 1)
      BY <2>1, <3>1, ArgsStepIntro
    <3>. QED
      BY <3>1, <3>2 DEF b
  <2>12. Append(R(i).v, a) = SubSeq(cmd, 1, i + 1)
    BY <2>1, LongerPrefix DEF a, n
  <2>. QED
    BY <2>1, <2>11, <2>12
<1>. HIDE DEF S
<1>6. 0 .. n \subseteq S
  BY <1>1, <1>4, <1>5, BoundedInduction
<1>7. k \in S
  BY <1>6 DEF n
<1>. QED
  BY <1>7 DEF S, L, args

(* A command that is encoded is parsed as the command.                        *)
LEMMA EncodeParses ==
    ASSUME NEW cmd \in Seq(Seq(Nat)), cmd # <<>>
    PROVE  [v |-> cmd, p |-> Len(Encode(cmd)) + 1] \in CommandAt(Encode(cmd), 1)
<1>. DEFINE w == Decimal(Len(cmd))
            n == Len(cmd)
            head == NumberLine(Star, w)
            tail == FlattenSeq(Args(cmd))
            s == head \o tail
            h == Len(head)
            argc == [v |-> n, p |-> h + 1]
<1>1. n \in Nat \ {0}
  OBVIOUS
<1>2. w \in Seq(Digit) /\ Len(w) > 0 /\ ValueOf(w) = n
  BY <1>1, DecimalIs
<1>3. Star \in Nat
  BY DEF Star
<1>4. Encode(cmd) = s
  BY DEF Encode, NumberLine, Args
<1>. HIDE DEF w, n
<1>5. head \in Seq(Nat) /\ h \in Nat /\ argc \in NumberAt(Star, head, 1)
  BY <1>2, <1>3, HeadParses
<1>6. tail \in Seq(Nat) /\ Len(tail) \in Nat
  BY ArgsTypes, FlattenTyped
<1>7. argc.v = n /\ argc.p = h + 1
  OBVIOUS
<1>. HIDE DEF head, tail
<1>8. s \in Seq(Nat) /\ Len(s) = h + Len(tail) /\ InWindow(head, s, 0) /\ InWindow(tail, s, h)
  BY <1>5, <1>6, ConcatWindows
<1>. HIDE DEF s, h, argc
<1>9. argc \in NumberAt(Star, s, 1)
  <2>1. [v |-> argc.v, p |-> argc.p + 0] \in NumberAt(Star, s, 1 + 0)
    <3>1. head \in Seq(Nat) /\ s \in Seq(Nat) /\ InWindow(head, s, 0) /\ 0 \in Nat
          /\ 1 \in Nat \ {0}
          /\ argc \in NumberAt(Star, head, 1)
      BY <1>5, <1>8
    <3>. QED
      BY ONLY <3>1, NumberGrows
  <2>2. 1 + 0 = 1 /\ argc.p + 0 = h + 1 /\ [v |-> argc.v, p |-> h + 1] = argc
    BY <1>5, <1>7 DEF argc
  <2>. QED
    BY <2>1, <2>2
<1>10. [v |-> cmd, p |-> Len(s) + 1] \in ArgsAt(s, h + 1, n)
  <2>1. n \in 0 .. Len(cmd) /\ SubSeq(cmd, 1, n) = cmd
    BY <1>1, SubSeqFull DEF n
  <2>2. SubSeq(Args(cmd), 1, n) = Args(cmd)
    BY ArgsTypes, SubSeqFull DEF n
  <2>3. [v |-> SubSeq(cmd, 1, n), p |-> h + 1 + Len(FlattenSeq(SubSeq(Args(cmd), 1, n)))]
            \in ArgsAt(s, h + 1, n)
    <3>1. InWindow(FlattenSeq(Args(cmd)), s, h)
      BY <1>8 DEF tail
    <3>. QED
      BY <1>5, <1>8, <2>1, <3>1, ArgsParse
  <2>4. h + 1 + Len(tail) = Len(s) + 1
    BY <1>5, <1>6, <1>8
  <2>. QED
    BY <2>1, <2>2, <2>3, <2>4 DEF tail
<1>11. n > 0
  BY <1>1
<1>. QED
  BY <1>4, <1>7, <1>9, <1>10, <1>11 DEF CommandAt

(* What a client may mean: commands, none of them empty.                      *)
CommandSeq == {cmds \in Seq(Seq(Seq(Nat))) : \A i \in DOMAIN cmds : cmds[i] # <<>>}

(* Their encodings.                                                           *)
Encodings(cmds) == [i \in DOMAIN cmds |-> Encode(cmds[i])]

(* How many bytes the first k have.                                           *)
BytesUpTo(cmds, k) == Len(FlattenSeq(SubSeq(Encodings(cmds), 1, k)))

(* The chain that they should have.                                           *)
Parts(cmds) == [i \in 1 .. Len(cmds) |-> [v |-> cmds[i], p |-> BytesUpTo(cmds, i) + 1]]

(* The encodings one by one, and all together.                                *)
LEMMA EncodingsAre ==
    ASSUME NEW cmds \in CommandSeq
    PROVE  /\ cmds \in Seq(Seq(Seq(Nat))) /\ Len(cmds) \in Nat /\ Encodings(cmds) \in Seq(Seq(Nat))
           /\ Len(Encodings(cmds)) = Len(cmds)
           /\ EncodeAll(cmds) = FlattenSeq(Encodings(cmds)) /\ EncodeAll(cmds) \in Seq(Nat)
           /\ \A i \in 1 .. Len(cmds) : /\ Encodings(cmds)[i] = Encode(cmds[i])
                                        /\ cmds[i] \in Seq(Seq(Nat)) /\ cmds[i] # <<>>
<1>1. cmds \in Seq(Seq(Seq(Nat))) /\ \A i \in DOMAIN cmds : cmds[i] # <<>>
  BY DEF CommandSeq
<1>2. DOMAIN cmds = 1 .. Len(cmds) /\ Len(cmds) \in Nat
  BY <1>1
<1>3. Encodings(cmds) \in Seq(Seq(Nat)) /\ EncodeAll(cmds) \in Seq(Nat)
  BY <1>1, EncodingsTyped, EncodeAllTyped DEF Encodings
<1>4. Encodings(cmds) = [i \in 1 .. Len(cmds) |-> Encode(cmds[i])]
  BY <1>2 DEF Encodings
<1>5. Len(Encodings(cmds)) = Len(cmds)
  BY <1>2, <1>3, <1>4
<1>6. \A i \in 1 .. Len(cmds) : cmds[i] \in Seq(Seq(Nat))
  BY <1>1, ElementOfSeq
<1>. QED
  BY <1>1, <1>2, <1>3, <1>4, <1>5, <1>6 DEF EncodeAll, Encodings

(* The bytes of the first k commands.                                         *)
LEMMA BytesOfPrefix ==
    ASSUME NEW cmds \in CommandSeq, NEW k \in 0 .. Len(cmds)
    PROVE  Len(EncodeAll(SubSeq(cmds, 1, k))) = BytesUpTo(cmds, k)
<1>1. /\ cmds \in Seq(Seq(Seq(Nat))) /\ Len(cmds) \in Nat /\ Encodings(cmds) \in Seq(Seq(Nat))
      /\ Len(Encodings(cmds)) = Len(cmds)
      /\ \A i \in 1 .. Len(cmds) : Encodings(cmds)[i] = Encode(cmds[i])
  BY EncodingsAre
<1>. DEFINE pre == SubSeq(cmds, 1, k)
<1>2. DOMAIN pre = 1 .. k /\ \A i \in 1 .. k : pre[i] = cmds[i]
  BY <1>1
<1>3. Encodings(pre) = [i \in 1 .. k |-> Encode(pre[i])]
  BY <1>2 DEF Encodings
<1>4. SubSeq(Encodings(cmds), 1, k) = [i \in 1 .. k |-> Encodings(cmds)[i]]
  BY <1>1
<1>5. \A i \in 1 .. k : i \in 1 .. Len(cmds)
  BY <1>1
<1>6. SubSeq(Encodings(cmds), 1, k) = Encodings(pre)
  <2>. HIDE DEF pre
  <2>. QED
    BY <1>1, <1>2, <1>3, <1>4, <1>5
<1>7. EncodeAll(pre) = FlattenSeq(Encodings(pre))
  BY DEF EncodeAll, Encodings
<1>. QED
  BY <1>6, <1>7 DEF BytesUpTo

(* The commands and positions of the chain.                                   *)
LEMMA PartsAre ==
    ASSUME NEW cmds \in CommandSeq
    PROVE  /\ Parts(cmds) \in Seq(Res) /\ Len(Parts(cmds)) = Len(cmds)
           /\ \A i \in 1 .. Len(cmds) :
                  Parts(cmds)[i] = [v |-> cmds[i], p |-> BytesUpTo(cmds, i) + 1]
           /\ \A i \in 0 .. Len(cmds) : /\ At(1, Parts(cmds), i) = BytesUpTo(cmds, i) + 1
                                        /\ BytesUpTo(cmds, i) \in Nat
           /\ BytesUpTo(cmds, Len(cmds)) = Len(EncodeAll(cmds))
<1>. DEFINE n == Len(cmds)
            e == Encodings(cmds)
            B(i) == BytesUpTo(cmds, i)
<1>1. /\ cmds \in Seq(Seq(Seq(Nat))) /\ n \in Nat /\ e \in Seq(Seq(Nat)) /\ Len(e) = n
      /\ EncodeAll(cmds) = FlattenSeq(e) /\ EncodeAll(cmds) \in Seq(Nat)
      /\ \A i \in 1 .. n : cmds[i] \in Seq(Seq(Nat))
  BY EncodingsAre
<1>2. \A i \in 0 .. n : B(i) \in Nat
  BY <1>1, FlattenPrefixTyped DEF BytesUpTo
<1>3. B(0) = 0
  BY <1>1, FlattenNothing DEF BytesUpTo
<1>4. B(n) = Len(EncodeAll(cmds))
  BY <1>1, SubSeqFull DEF BytesUpTo
<1>. HIDE DEF n, B
<1>5. Parts(cmds) = [i \in 1 .. n |-> [v |-> cmds[i], p |-> B(i) + 1]]
  BY DEF Parts, n, B
<1>6. \A i \in 1 .. n : [v |-> cmds[i], p |-> B(i) + 1] \in Res
  <2>1. \A i \in 1 .. n : i \in 0 .. n
    BY <1>1
  <2>2. \A i \in 1 .. n : B(i) + 1 \in Nat
    BY <1>2, <2>1
  <2>. QED
    BY <1>1, <2>2 DEF Res
<1>7. Parts(cmds) \in Seq(Res) /\ Len(Parts(cmds)) = n
  BY <1>1, <1>5, <1>6
<1>8. \A i \in 1 .. n : Parts(cmds)[i] = [v |-> cmds[i], p |-> B(i) + 1]
  BY <1>5
<1>9. ASSUME NEW i \in 0 .. n PROVE At(1, Parts(cmds), i) = B(i) + 1
  <2>1. CASE i = 0
    BY <1>3, <2>1 DEF At
  <2>2. CASE i # 0
    <3>1. i \in 1 .. n
      BY <1>1, <2>2
    <3>2. Parts(cmds)[i] = [v |-> cmds[i], p |-> B(i) + 1]
      BY <1>8, <3>1
    <3>3. [v |-> cmds[i], p |-> B(i) + 1].p = B(i) + 1
      OBVIOUS
    <3>4. Parts(cmds)[i].p = B(i) + 1
      BY ONLY <3>2, <3>3
    <3>. QED
      BY <2>2, <3>4 DEF At
  <2>. QED
    BY <2>1, <2>2
<1>. QED
  BY <1>2, <1>4, <1>7, <1>8, <1>9 DEF n, B

(* It is the chain of the encoding.                                           *)
LEMMA ChainOfEncoding ==
    ASSUME NEW cmds \in CommandSeq
    PROVE  Parts(cmds) \in Chains(EncodeAll(cmds), 1)
<1>. DEFINE n == Len(cmds)
            e == Encodings(cmds)
            s == EncodeAll(cmds)
            y == Parts(cmds)
            B(i) == BytesUpTo(cmds, i)
<1>1. /\ n \in Nat /\ e \in Seq(Seq(Nat)) /\ Len(e) = n /\ s = FlattenSeq(e) /\ s \in Seq(Nat)
      /\ \A i \in 1 .. n : e[i] = Encode(cmds[i]) /\ cmds[i] \in Seq(Seq(Nat)) /\ cmds[i] # <<>>
  BY EncodingsAre
<1>2. /\ y \in Seq(Res) /\ Len(y) = n
      /\ \A i \in 1 .. n : y[i] = [v |-> cmds[i], p |-> B(i) + 1]
      /\ \A i \in 0 .. n : At(1, y, i) = B(i) + 1 /\ B(i) \in Nat
      /\ B(n) = Len(s)
  BY PartsAre
<1>3. \A i \in 0 .. n - 1 : /\ B(i + 1) = B(i) + Len(e[i + 1])
                            /\ InWindow(e[i + 1], s, B(i))
  BY <1>1, FlattenWindow DEF BytesUpTo
<1>. HIDE DEF n, e, s, y, B
<1>4. ASSUME NEW k \in 0 .. n - 1 PROVE y[k + 1] \in CommandAt(s, At(1, y, k))
  <2>. DEFINE c == [v |-> cmds[k + 1], p |-> Len(e[k + 1]) + 1]
              t == e[k + 1]
              b == B(k)
              m == B(k + 1)
              u == Len(t)
  <2>1. k \in 0 .. n /\ k + 1 \in 1 .. n /\ k + 1 \in 0 .. n
    BY <1>1
  <2>2. t \in Seq(Nat) /\ t = Encode(cmds[k + 1]) /\ cmds[k + 1] \in Seq(Seq(Nat))
        /\ cmds[k + 1] # <<>>
    BY <1>1, <2>1, EncodeTyped
  <2>3. c \in CommandAt(t, 1)
    BY <2>2, EncodeParses
  <2>4. b \in Nat /\ m = b + u /\ u \in Nat /\ InWindow(t, s, b) /\ At(1, y, k) = b + 1
        /\ y[k + 1] = [v |-> cmds[k + 1], p |-> m + 1]
    <3>1. b \in Nat /\ At(1, y, k) = b + 1 /\ y[k + 1] = [v |-> cmds[k + 1], p |-> m + 1]
      BY <1>2, <2>1
    <3>2. m = b + u /\ InWindow(t, s, b)
      BY <1>3
    <3>3. u \in Nat
      BY <2>2
    <3>. QED
      BY ONLY <3>1, <3>2, <3>3
  <2>5. c.v = cmds[k + 1] /\ c.p = u + 1
    OBVIOUS
  <2>. HIDE DEF c, t, b, m, u
  <2>6. [v |-> c.v, p |-> c.p + b] \in CommandAt(s, 1 + b)
    <3>1. 1 \in Nat \ {0}
      OBVIOUS
    <3>. QED
      BY ONLY <1>1, <2>2, <2>3, <2>4, <3>1, CommandGrows
  <2>7. 1 + b = b + 1 /\ u + 1 + b = m + 1
    BY <2>4
  <2>. QED
    BY <2>4, <2>5, <2>6, <2>7
<1>5. ASSUME NEW i \in 1 .. Len(y) PROVE y[i] \in CommandAt(s, At(1, y, i - 1))
  <2>1. i - 1 \in 0 .. n - 1 /\ (i - 1) + 1 = i
    BY <1>1, <1>2
  <2>. QED
    BY <1>4, <2>1
<1>6. CommandAt(s, At(1, y, Len(y))) = {}
  <2>1. At(1, y, Len(y)) = Len(s) + 1 /\ Len(s) \in Nat
    BY <1>1, <1>2
  <2>. QED
    <3>1. At(1, y, Len(y)) \in Nat /\ At(1, y, Len(y)) > Len(s)
      BY <2>1
    <3>. QED
      BY <1>1, <3>1, NothingBehind
<1>. QED
  BY <1>2, <1>5, <1>6 DEF Chains, s, y

-------------------------------------------------------------------------------
(* Right streams.                                                             *)

(* When a right stream is parsed, no read has failed, and what has been       *)
(* parsed are the commands that have come in full.                            *)
LEMMA RightIsUnderstood ==
    ASSUME NEW cmds \in CommandSeq, NEW x \in Chains(EncodeAll(cmds), 1), NEW r, NEW b, NEW g,
           NEW f, NEW fr,
           Parsing(EncodeAll(cmds), x, r, b, g, f, fr)
    PROVE  /\ ~f
           /\ \E n \in 0 .. Len(cmds) :
                 /\ g = SubSeq(cmds, 1, n)
                 /\ Len(EncodeAll(g)) <= r
                 /\ n < Len(cmds) => r < Len(EncodeAll(SubSeq(cmds, 1, n + 1)))
<1>. DEFINE s == EncodeAll(cmds)
            n == Len(g)
            y == Parts(cmds)
            B(i) == BytesUpTo(cmds, i)
<1>1. cmds \in Seq(Seq(Seq(Nat))) /\ Len(cmds) \in Nat /\ s \in Seq(Nat)
  BY EncodingsAre
<1>2. x = y
  <2>1. y \in Chains(s, 1)
    BY ChainOfEncoding
  <2>2. 1 \in 0 .. Len(s) + 1
    BY <1>1
  <2>. HIDE DEF s, y
  <2>3. x \in Chains(s, 1)
    BY DEF s
  <2>. QED
    BY <1>1, <2>1, <2>2, <2>3, ChainUnique
<1>3. /\ Len(y) = Len(cmds)
      /\ \A i \in 1 .. Len(cmds) : y[i] = [v |-> cmds[i], p |-> B(i) + 1]
      /\ \A i \in 0 .. Len(cmds) : At(1, y, i) = B(i) + 1 /\ B(i) \in Nat
      /\ B(Len(cmds)) = Len(s)
  BY PartsAre
<1>4. /\ r \in Nat /\ f \in BOOLEAN
      /\ g \in Seq(Seq(Seq(Nat))) /\ Len(g) <= Len(x)
      /\ \A i \in 1 .. Len(g) : g[i] = x[i].v
      /\ At(1, x, Len(g)) <= r + 1
      /\ ~f /\ Len(g) < Len(x) => r + 1 < At(1, x, Len(g) + 1)
      /\ f => NoCommandAt(s, At(1, x, Len(x)))
  BY DEF Parsing
<1>5. \A i \in 0 .. Len(cmds) : Len(EncodeAll(SubSeq(cmds, 1, i))) = B(i)
  BY BytesOfPrefix
<1>. HIDE DEF s, y, B
<1>6. ~f
  <2>1. At(1, x, Len(x)) = Len(s) + 1 /\ Len(s) \in Nat
    <3>1. Len(cmds) \in 0 .. Len(cmds)
      BY <1>1
    <3>. QED
      BY <1>1, <1>2, <1>3, <3>1
  <2>2. SUFFICES ASSUME f PROVE FALSE
    OBVIOUS
  <2>3. NoCommandAt(s, Len(s) + 1)
    BY <1>4, <2>1, <2>2
  <2>4. Len(s) + 1 <= Len(s)
    BY <1>1, <2>1, <2>3, NoCommandInside
  <2>. QED
    BY <2>1, <2>4
<1>7. n \in Nat /\ n \in 0 .. Len(cmds)
  BY <1>1, <1>2, <1>3, <1>4
<1>8. g = SubSeq(cmds, 1, n)
  <2>1. ASSUME NEW i \in 1 .. n PROVE g[i] = cmds[i]
    <3>1. i \in 1 .. Len(cmds)
      BY <1>1, <1>7
    <3>2. y[i] = [v |-> cmds[i], p |-> B(i) + 1]
      BY <1>3, <3>1
    <3>3. [v |-> cmds[i], p |-> B(i) + 1].v = cmds[i]
      OBVIOUS
    <3>4. g[i] = y[i].v
      BY <1>2, <1>4
    <3>. QED
      BY ONLY <3>2, <3>3, <3>4
  <2>2. SubSeq(cmds, 1, n) = [i \in 1 .. n |-> cmds[i]]
    BY <1>1, <1>7
  <2>3. g = [i \in 1 .. n |-> g[i]]
    BY <1>4
  <2>. HIDE DEF n
  <2>. QED
    BY <2>1, <2>2, <2>3
<1>. HIDE DEF n
<1>9. Len(EncodeAll(g)) = B(n) /\ B(n) \in Nat
  BY <1>3, <1>5, <1>7, <1>8
<1>10. B(n) <= r
  <2>1. B(n) + 1 <= r + 1
    BY <1>2, <1>3, <1>4, <1>7 DEF n
  <2>. QED
    BY <1>4, <1>9, <2>1
<1>11. ASSUME n < Len(cmds) PROVE r < Len(EncodeAll(SubSeq(cmds, 1, n + 1)))
  <2>1. n + 1 \in 0 .. Len(cmds)
    BY <1>1, <1>7, <1>11
  <2>2. r + 1 < B(n + 1) + 1
    BY <1>2, <1>3, <1>4, <1>6, <1>11, <2>1 DEF n
  <2>3. B(n + 1) \in Nat /\ Len(EncodeAll(SubSeq(cmds, 1, n + 1))) = B(n + 1)
    BY <1>3, <1>5, <2>1
  <2>. QED
    BY <1>4, <2>2, <2>3
<1>. QED
  BY <1>6, <1>7, <1>8, <1>9, <1>10, <1>11

(* The invariant, with the type of what was meant.                            *)
UnderstoodInv == ParseInv /\ meant \in CommandSeq

(* A client means commands that are not empty.                                *)
LEMMA MeantTyped == Init => meant \in CommandSeq
<1>. SUFFICES ASSUME Init PROVE meant \in CommandSeq
  OBVIOUS
<1>1. PICK n \in 1 .. MaxSent : meant \in [1 .. n -> Commands]
  BY DEF Init
<1>2. meant \in Seq(Seq(Seq(Nat)))
  BY StreamTyped
<1>3. \A i \in DOMAIN meant : meant[i] # <<>>
  BY <1>1, BytesAssumption
<1>. QED
  BY <1>2, <1>3 DEF CommandSeq

(* The invariant gives the property.                                          *)
LEMMA InvUnderstands == UnderstoodInv => Understood
<1>. SUFFICES ASSUME UnderstoodInv, stream = EncodeAll(meant)
              PROVE  /\ ~failed
                     /\ \E n \in 0 .. Len(meant) :
                           /\ got = SubSeq(meant, 1, n)
                           /\ Len(EncodeAll(got)) <= read
                           /\ n < Len(meant) => read < Len(EncodeAll(SubSeq(meant, 1, n + 1)))
  BY DEF Understood
<1>1. meant \in CommandSeq /\ stream \in Seq(Nat)
      /\ Parsing(stream, All, read, buf, got, failed, frames)
  BY DEF UnderstoodInv, ParseInv
<1>2. All \in Chains(stream, 1)
  BY <1>1, AllIsChain DEF All
<1>. HIDE DEF All
<1>3. All \in Chains(EncodeAll(meant), 1)
      /\ Parsing(EncodeAll(meant), All, read, buf, got, failed, frames)
  BY <1>1, <1>2
<1>. QED
  BY ONLY <1>1, <1>3, RightIsUnderstood

(* What was meant does not change.                                            *)
LEMMA MeantStays == [SessionNext]_sessionVars => meant' = meant
BY DEF SessionNext, ReadSome, ReadBytes, OnRead, ClientGoes, RunBatch, Ended, sessionVars, vars

(* RespCommandParser understands every stream of well-formed commands, of any *)
(* number, with any bytes in their strings, delimiters included, and in reads *)
(* of any size: after each read exactly the commands that have come in full   *)
(* have been parsed, once and in order, and no read fails.                    *)
THEOREM RightStreamsUnderstood == SessionSpec => []Understood
<1>1. SessionInit => UnderstoodInv
  BY ParseInit, MeantTyped DEF SessionInit, UnderstoodInv
<1>2. UnderstoodInv /\ [SessionNext]_sessionVars => UnderstoodInv'
  BY ParseStep, MeantStays DEF UnderstoodInv
<1>. QED
  BY <1>1, <1>2, InvUnderstands, PTL DEF SessionSpec

-------------------------------------------------------------------------------
(* The bytes of what is parsed.                                               *)

(* Digits without a leading zero are the only ones of their number:           *)
(* std::to_string gives them back.                                            *)
LEMMA OneDecimalForm ==
    ASSUME NEW w \in Seq(Digit), Len(w) > 0, Len(w) > 1 => w[1] # Zero
    PROVE  Decimal(ValueOf(w)) = w
<1>. DEFINE Good(u) == Decimal(ValueOf(u)) = u /\ (u[1] # Zero => ValueOf(u) > 0)
            S == {n \in Nat : \A u \in Seq(Digit) :
                                  Len(u) = n + 1 /\ (n > 0 => u[1] # Zero) => Good(u)}
<1>1. 0 \in S
  <2>1. SUFFICES ASSUME NEW u \in Seq(Digit), Len(u) = 1 PROVE Good(u)
    BY DEF Digit
  <2>2. u = <<u[1]>> /\ u[1] \in Digit
    <3>0. 1 \in 1 .. Len(u) /\ u \in Seq(Digit)
      BY <2>1
    <3>1. u[1] \in Digit
      BY <3>0, ElementOfSeq
    <3>2. u = [i \in 1 .. 1 |-> u[i]]
      BY <2>1
    <3>3. u = <<u[1]>>
      BY <3>2
    <3>. QED
      BY <3>1, <3>3
  <2>. DEFINE a == u[1] - Zero
  <2>3. a \in 0 .. 9 /\ Zero + a = u[1]
    BY <2>2 DEF Digit, Zero
  <2>4. u = <<Zero + a>>
    BY <2>2, <2>3
  <2>. HIDE DEF a
  <2>5. ValueOf(u) = a
    BY <2>3, <2>4, ValueOneDigit
  <2>6. Decimal(a) = u
    BY <2>3, <2>4, DecimalSteps
  <2>7. u[1] # Zero => a > 0
    BY <2>3 DEF Zero
  <2>. QED
    BY <2>5, <2>6, <2>7
<1>2. ASSUME NEW n \in Nat, n \in S PROVE n + 1 \in S
  <2>1. SUFFICES ASSUME NEW u \in Seq(Digit), Len(u) = n + 2, u[1] # Zero PROVE Good(u)
    OBVIOUS
  <2>. DEFINE t == SubSeq(u, 1, n + 1)
              d == u[n + 2]
  <2>2. t \in Seq(Digit) /\ Len(t) = n + 1 /\ t[1] = u[1] /\ d \in Digit /\ u = Append(t, d)
    <3>1. n + 1 \in 0 .. Len(u) - 1 /\ (n + 1) + 1 = n + 2 /\ SubSeq(u, 1, n + 2) = u
      BY <2>1
    <3>2. SubSeq(u, 1, (n + 1) + 1) = Append(SubSeq(u, 1, n + 1), u[(n + 1) + 1])
      BY <3>1, LongerPrefix
    <3>3. t \in Seq(Digit) /\ Len(t) = n + 1 /\ t[1] = u[1] /\ d \in Digit
      BY <2>1
    <3>. QED
      BY <3>1, <3>2, <3>3
  <2>. HIDE DEF t, d
  <2>3. Good(t)
    BY <1>2, <2>1, <2>2
  <2>. DEFINE x == ValueOf(t)
              y == 10 * x + d - Zero
  <2>4. x \in Nat /\ x > 0 /\ Decimal(x) = t
    BY <2>1, <2>2, <2>3, ValueNat
  <2>5. ValueOf(u) = y
    BY <2>2, ValueAppend
  <2>. HIDE DEF x
  <2>6. y \in Nat /\ ~(y < 10) /\ y \div 10 = x /\ Zero + (y % 10) = d
    <3>1. d - Zero \in 0 .. 9
      BY <2>2 DEF Digit, Zero
    <3>2. ASSUME NEW e \in 0 .. 9, NEW z \in Nat, z > 0
          PROVE  10 * z + e \in Nat /\ ~(10 * z + e < 10) /\ (10 * z + e) \div 10 = z
                 /\ (10 * z + e) % 10 = e
      BY <3>2
    <3>3. y = 10 * x + (d - Zero) /\ Zero + (d - Zero) = d
      BY <2>2, <2>4 DEF Digit, Zero
    <3>. HIDE DEF y
    <3>. QED
      BY <2>4, <3>1, <3>2, <3>3
  <2>. HIDE DEF y
  <2>7. Decimal(y) = Append(Decimal(y \div 10), Zero + (y % 10))
    BY <2>6, DecimalSteps
  <2>8. Decimal(y) = u
    BY <2>2, <2>4, <2>6, <2>7
  <2>9. y > 0
    BY <2>6
  <2>. QED
    BY <2>5, <2>8, <2>9
<1>. HIDE DEF S
<1>3. Nat \subseteq S
  BY <1>1, <1>2, Induction
<1>4. Len(w) - 1 \in Nat /\ Len(w) = (Len(w) - 1) + 1
  OBVIOUS
<1>5. Good(w)
  BY <1>3, <1>4 DEF S
<1>. QED
  BY <1>5

(* The bytes from p to before q.                                              *)
Between(s, p, q) == SubSeq(s, p, q - 1)

(* These are positions in s.                                                  *)
Places(s, p, q) == p \in Nat \ {0} /\ q \in Nat /\ p <= q /\ q <= Len(s) + 1

(* Bytes between positions one behind the other.                              *)
LEMMA BetweenJoins ==
    ASSUME NEW s \in Seq(Nat), NEW p, NEW q, NEW r, Places(s, p, q), Places(s, q, r)
    PROVE  Between(s, p, q) \o Between(s, q, r) = Between(s, p, r) /\ Places(s, p, r)
<1>1. p \in 1 .. Len(s) + 1 /\ q - 1 \in p - 1 .. Len(s) /\ r - 1 \in q - 1 .. Len(s)
      /\ (q - 1) + 1 = q
      /\ Len(s) \in Nat
  BY DEF Places
<1>2. SubSeq(s, p, q - 1) \o SubSeq(s, (q - 1) + 1, r - 1) = SubSeq(s, p, r - 1)
  BY ONLY <1>1, s \in Seq(Nat), ConcatAdjacentSubSeq
<1>3. Places(s, p, r)
  BY <1>1 DEF Places
<1>. QED
  BY <1>1, <1>2, <1>3 DEF Between

(* What they are, one by one.                                                 *)
LEMMA BetweenTyped ==
    ASSUME NEW s \in Seq(Nat), NEW p, NEW q, Places(s, p, q)
    PROVE  /\ Between(s, p, q) \in Seq(Nat) /\ Len(Between(s, p, q)) = q - p
           /\ \A i \in 1 .. q - p : Between(s, p, q)[i] = s[i + (p - 1)]
<1>1. q - 1 \in Nat /\ q - 1 <= Len(s) /\ p <= (q - 1) + 1 /\ p \in Nat \ {0}
      /\ ((q - 1) + 1) - p = q - p
  BY DEF Places
<1>2. /\ SubSeq(s, p, q - 1) \in Seq(Nat) /\ Len(SubSeq(s, p, q - 1)) = ((q - 1) + 1) - p
      /\ \A i \in 1 .. ((q - 1) + 1) - p : SubSeq(s, p, q - 1)[i] = s[i + (p - 1)]
  BY ONLY <1>1, s \in Seq(Nat), PieceTyped
<1>. QED
  BY <1>1, <1>2 DEF Between

(* The bytes of an end of line.                                               *)
LEMMA CrLfBytes ==
    ASSUME NEW s \in Seq(Nat), NEW q \in Nat \ {0}, q < Len(s), CrLf(s, q)
    PROVE  Between(s, q, q + 2) = <<CR, LF>> /\ Places(s, q, q + 2)
<1>. DEFINE e == q + 2
<1>1. Places(s, q, e)
  BY DEF Places
<1>3. e - q = 2 /\ 1 + (q - 1) = q /\ 2 + (q - 1) = q + 1 /\ s[q] = CR /\ s[q + 1] = LF
  BY DEF CrLf
<1>. HIDE DEF e
<1>2. /\ Between(s, q, e) \in Seq(Nat) /\ Len(Between(s, q, e)) = e - q
      /\ \A i \in 1 .. e - q : Between(s, q, e)[i] = s[i + (q - 1)]
  BY <1>1, BetweenTyped
<1>. DEFINE b == Between(s, q, e)
<1>. HIDE DEF b
<1>4. b \in Seq(Nat) /\ Len(b) = 2 /\ b[1] = CR /\ b[2] = LF
  BY <1>2, <1>3 DEF b
<1>5. b = <<CR, LF>>
  BY <1>4
<1>. QED
  BY <1>1, <1>5 DEF b, e

(* The bytes of what is parsed as a number are its line,                      *)
LEMMA NumberBytes ==
    ASSUME NEW s \in Seq(Nat), OneForm(s), NEW c \in {Star, Dollar}, NEW p \in Nat \ {0},
           NEW r \in NumberAt(c, s, p)
    PROVE  Between(s, p, r.p) = NumberLine(c, Decimal(r.v)) /\ Places(s, p, r.p)
<1>. DEFINE n == r.p
            m == n - 2
            w == Between(s, p + 1, m)
<1>0. Len(s) \in Nat /\ c \in Nat
  BY DEF Star, Dollar
<1>1. /\ n \in p + 4 .. Len(s) + 1 /\ s[p] = c /\ CrLf(s, n - 2) /\ AllDigits(s, p + 1, n - 3)
      /\ r.v = Number(s, p + 1, n - 3)
  BY NumberResult
<1>2. n > p + 4 => s[p + 1] # Zero
  <2>1. p \in DOMAIN s
    BY <1>0, <1>1
  <2>. QED
    BY <2>1 DEF OneForm
<1>. HIDE DEF n
<1>3. /\ m \in Nat \ {0} /\ m - 1 = n - 3 /\ m + 2 = n /\ m < Len(s) /\ p + 1 <= m
      /\ p + 1 \in Nat \ {0}
      /\ m <= Len(s) + 1 /\ p + 1 <= Len(s) + 1 /\ m - (p + 1) > 0
  BY <1>0, <1>1
<1>. HIDE DEF m
<1>4. Places(s, p, p + 1) /\ Places(s, p + 1, m)
  BY <1>3 DEF Places
<1>5. Between(s, m, n) = <<CR, LF>> /\ Places(s, m, n)
  <2>1. CrLf(s, m)
    BY <1>1 DEF m
  <2>2. Between(s, m, m + 2) = <<CR, LF>> /\ Places(s, m, m + 2)
    BY <1>3, <2>1, CrLfBytes
  <2>. QED
    BY <1>3, <2>2
<1>6. Between(s, p, p + 1) = <<c>>
  <2>. DEFINE e == p + 1
              b == Between(s, p, e)
  <2>2. e - p = 1 /\ 1 + (p - 1) = p /\ Places(s, p, e)
    BY <1>4
  <2>. HIDE DEF e
  <2>1. b \in Seq(Nat) /\ Len(b) = e - p /\ \A i \in 1 .. e - p : b[i] = s[i + (p - 1)]
    BY <2>2, BetweenTyped
  <2>. HIDE DEF b
  <2>3. b \in Seq(Nat) /\ Len(b) = 1 /\ b[1] = c
    BY <1>1, <2>1, <2>2, SMTT(30)
  <2>4. b = <<c>>
    BY <2>3
  <2>. QED
    BY <2>4 DEF b, e
<1>7. /\ w \in Seq(Nat) /\ Len(w) = m - (p + 1)
      /\ \A i \in 1 .. m - (p + 1) : w[i] = s[i + ((p + 1) - 1)]
  BY <1>4, BetweenTyped
<1>8. r.v = ValueOf(w)
  BY <1>1, <1>3 DEF Number, Between
<1>. HIDE DEF w
<1>9. w \in Seq(Digit)
  <2>1. ASSUME NEW i \in 1 .. Len(w) PROVE w[i] \in Digit
    <3>1. i \in 1 .. m - (p + 1) /\ i + ((p + 1) - 1) \in p + 1 .. n - 3
      BY <1>3, <1>7
    <3>2. s[i + ((p + 1) - 1)] \in Digit
      BY <1>1, <3>1 DEF AllDigits
    <3>. QED
      BY <1>7, <3>1, <3>2
  <2>. QED
    BY <1>7, <2>1
<1>10. Len(w) > 0 /\ (Len(w) > 1 => w[1] # Zero)
  <2>1. 1 \in 1 .. m - (p + 1) /\ 1 + ((p + 1) - 1) = p + 1 /\ (m - (p + 1) > 1 => n > p + 4)
    BY <1>3
  <2>2. w[1] = s[p + 1]
    BY <1>7, <2>1
  <2>. QED
    BY <1>2, <1>3, <1>7, <2>1, <2>2
<1>11. Decimal(r.v) = w
  BY <1>8, <1>9, <1>10, OneDecimalForm
<1>12. <<c>> \o w = Between(s, p, m) /\ Places(s, p, m)
  <2>1. Between(s, p, p + 1) \o Between(s, p + 1, m) = Between(s, p, m) /\ Places(s, p, m)
    BY ONLY <1>4, s \in Seq(Nat), BetweenJoins, Zenon
  <2>. QED
    BY ONLY <1>6, <2>1, Zenon DEF w
<1>13. Between(s, p, m) \o <<CR, LF>> = Between(s, p, n) /\ Places(s, p, n)
  <2>1. Between(s, p, m) \o Between(s, m, n) = Between(s, p, n) /\ Places(s, p, n)
    BY <1>5, <1>12, BetweenJoins
  <2>. QED
    BY <1>5, <2>1
<1>. QED
  BY <1>11, <1>12, <1>13 DEF NumberLine, n

(* those of an argument its encoding.                                         *)
LEMMA ArgBytes ==
    ASSUME NEW s \in Seq(Nat), OneForm(s), NEW p \in Nat \ {0}, NEW r \in ArgAt(s, p)
    PROVE  Between(s, p, r.p) = EncodeArg(r.v) /\ Places(s, p, r.p) /\ r.v \in Seq(Nat)
<1>1. PICK len \in NumberAt(Dollar, s, p) :
          EnoughForArg(s, len.p, len.v) /\ CrLf(s, len.p + len.v) /\ r = ArgOf(s, len)
  BY ArgElim
<1>. DEFINE m == len.p
            k == len.v
            q == m + k
<1>2. m \in Nat /\ k \in Nat /\ m >= p + 4 /\ m <= Len(s) + 1 /\ m + k + 1 <= Len(s)
  BY <1>1, LengthType
<1>3. Between(s, p, m) = NumberLine(Dollar, Decimal(k)) /\ Places(s, p, m)
  BY NumberBytes
<1>4. r.v = SubSeq(s, m, m + k - 1) /\ r.p = m + k + 2 /\ CrLf(s, m + k)
  BY <1>1 DEF ArgOf
<1>. HIDE DEF m, k
<1>5. /\ q \in Nat \ {0} /\ q < Len(s) /\ Places(s, m, q) /\ q - m = k /\ q - 1 = m + k - 1
      /\ r.p = q + 2 /\ CrLf(s, q)
  <2>1. Len(s) \in Nat
    OBVIOUS
  <2>2. q \in Nat \ {0} /\ q < Len(s) /\ m \in Nat \ {0} /\ q \in Nat /\ m <= q /\ q <= Len(s) + 1
        /\ q - m = k /\ q - 1 = m + k - 1
    BY ONLY <1>2, <2>1, p \in Nat \ {0}
  <2>. QED
    BY <1>4, <2>2 DEF Places
<1>. HIDE DEF q
<1>6. r.v = Between(s, m, q) /\ Len(r.v) = k /\ r.v \in Seq(Nat)
  <2>1. r.v = Between(s, m, q)
    BY <1>4, <1>5 DEF Between
  <2>. QED
    BY <1>5, <2>1, BetweenTyped
<1>7. Between(s, q, r.p) = <<CR, LF>> /\ Places(s, q, r.p)
  BY <1>5, CrLfBytes
<1>8. Between(s, p, q) = NumberLine(Dollar, Decimal(k)) \o r.v /\ Places(s, p, q)
  <2>1. Between(s, p, m) \o Between(s, m, q) = Between(s, p, q) /\ Places(s, p, q)
    BY ONLY <1>3, <1>5, s \in Seq(Nat), BetweenJoins
  <2>. QED
    BY ONLY <1>3, <1>6, <2>1
<1>9. Between(s, p, r.p) = (NumberLine(Dollar, Decimal(k)) \o r.v) \o <<CR, LF>>
      /\ Places(s, p, r.p)
  <2>1. Between(s, p, q) \o Between(s, q, r.p) = Between(s, p, r.p) /\ Places(s, p, r.p)
    BY <1>7, <1>8, BetweenJoins
  <2>. QED
    BY <1>7, <1>8, <2>1
<1>10. EncodeArg(r.v) = (NumberLine(Dollar, Decimal(k)) \o r.v) \o <<CR, LF>>
  BY <1>6 DEF EncodeArg, NumberLine
<1>. QED
  BY <1>6, <1>9, <1>10

(* A sequence is another with an element appended if it has the elements.     *)
LEMMA IsAppended ==
    ASSUME NEW V, NEW z \in Seq(V), NEW e \in V, NEW x \in Seq(V), Len(x) = Len(z) + 1,
           \A i \in 1 .. Len(z) : x[i] = z[i],
           x[Len(z) + 1] = e
    PROVE  x = Append(z, e)
<1>. DEFINE y == Append(z, e)
            n == Len(z)
<1>1. /\ y \in Seq(V) /\ Len(y) = n + 1 /\ (\A i \in 1 .. n : y[i] = z[i]) /\ y[n + 1] = e
         /\ n \in Nat
  BY AppendProperties
<1>2. Len(x) = n + 1 /\ x[n + 1] = e /\ \A i \in 1 .. n : x[i] = z[i]
  OBVIOUS
<1>. HIDE DEF y, n
<1>3. \A i \in 1 .. n + 1 : x[i] = y[i]
  BY <1>1, <1>2
<1>4. x = y
  BY <1>1, <1>2, <1>3, SeqEqual
<1>. QED
  BY <1>4 DEF y

(* The encodings with one string more.                                        *)
LEMMA ArgsAppend ==
    ASSUME NEW args \in Seq(Seq(Nat))
    PROVE  /\ Args(args) \in Seq(Seq(Nat))
           /\ \A a \in Seq(Nat) : Args(Append(args, a)) = Append(Args(args), EncodeArg(a))
<1>1. DOMAIN args = 1 .. Len(args) /\ Len(args) \in Nat
      /\ \A i \in 1 .. Len(args) : args[i] \in Seq(Nat)
  BY ElementOfSeq
<1>2. \A i \in 1 .. Len(args) : EncodeArg(args[i]) \in Seq(Nat)
  BY <1>1, EncodeArgTyped
<1>3. Args(args) = [i \in 1 .. Len(args) |-> EncodeArg(args[i])]
  BY <1>1 DEF Args
<1>4. Args(args) \in Seq(Seq(Nat)) /\ Len(Args(args)) = Len(args)
  BY <1>1, <1>2, <1>3
<1>5. ASSUME NEW a \in Seq(Nat)
      PROVE  Args(Append(args, a)) = Append(Args(args), EncodeArg(a))
  <2>. DEFINE more == Append(args, a)
              n == Len(args)
  <2>1. /\ more \in Seq(Seq(Nat)) /\ Len(more) = n + 1 /\ DOMAIN more = 1 .. n + 1
        /\ \A i \in 1 .. n : more[i] = args[i]
        /\ more[n + 1] = a /\ n \in Nat
    OBVIOUS
  <2>. HIDE DEF more, n
  <2>2. Args(more) = [i \in 1 .. n + 1 |-> EncodeArg(more[i])]
    BY <2>1 DEF Args
  <2>. DEFINE x == Args(more)
              z == Args(args)
              e == EncodeArg(a)
  <2>3. ASSUME NEW i \in 1 .. n + 1 PROVE EncodeArg(more[i]) \in Seq(Nat)
    <3>1. more[i] \in Seq(Nat)
      BY <2>1, ElementOfSeq
    <3>. QED
      BY <3>1, EncodeArgTyped
  <2>4. x \in Seq(Seq(Nat)) /\ Len(x) = n + 1
    BY <2>1, <2>2, <2>3
  <2>5. z \in Seq(Seq(Nat)) /\ Len(z) = n /\ e \in Seq(Nat)
    BY <1>4, EncodeArgTyped DEF n
  <2>6. x[n + 1] = e
    BY <2>1, <2>2
  <2>7. ASSUME NEW i \in 1 .. n PROVE x[i] = z[i]
    <3>1. i \in 1 .. n + 1
      BY <2>1
    <3>2. x[i] = EncodeArg(args[i])
      BY <2>1, <2>2, <3>1
    <3>. QED
      BY <1>3, <3>2 DEF n
  <2>. HIDE DEF x, z, e
  <2>8. x = Append(z, e)
    BY <2>4, <2>5, <2>6, <2>7, IsAppended
  <2>. QED
    BY <2>8 DEF x, z, e, more
<1>. QED
  BY <1>4, <1>5

(* The bytes of some arguments are their encodings,                           *)
LEMMA ArgsBytes ==
    ASSUME NEW s \in Seq(Nat), OneForm(s), NEW p \in Nat \ {0}, p <= Len(s) + 1
    PROVE  \A k \in Nat : \A r \in ArgsAt(s, p, k) :
               Between(s, p, r.p) = FlattenSeq(Args(r.v)) /\ Places(s, p, r.p)
<1>. DEFINE Good(r) == Between(s, p, r.p) = FlattenSeq(Args(r.v)) /\ Places(s, p, r.p)
            S == {k \in Nat : \A r \in ArgsAt(s, p, k) : Good(r)}
<1>1. 0 \in S
  <2>1. SUFFICES ASSUME NEW r \in ArgsAt(s, p, 0) PROVE Good(r)
    OBVIOUS
  <2>2. r = [v |-> <<>>, p |-> p]
    BY ArgsSteps
  <2>3. Args(<<>>) = <<>>
    BY DEF Args
  <2>4. Between(s, p, p) = <<>> /\ Places(s, p, p)
    BY DEF Between, Places
  <2>. QED
    BY <2>2, <2>3, <2>4, FlattenEmpty
<1>2. ASSUME NEW k \in Nat, \A r \in ArgsAt(s, p, k) : Good(r), NEW r \in ArgsAt(s, p, k + 1)
      PROVE  Good(r)
  <2>1. PICK before \in ArgsAt(s, p, k) :
              \E arg \in ArgAt(s, before.p) : r = [v |-> Append(before.v, arg.v), p |-> arg.p]
    <3>1. ArgsAt(s, p, k + 1) = OneMore(s, ArgsAt(s, p, k))
      BY ArgsSteps
    <3>. QED
      BY <3>1 DEF OneMore
  <2>2. PICK arg \in ArgAt(s, before.p) : r = [v |-> Append(before.v, arg.v), p |-> arg.p]
    BY <2>1
  <2>3. before.v \in Seq(Seq(Nat)) /\ before.p \in Nat \ {0}
    BY ArgsResult DEF ArgsTyped
  <2>4. Between(s, p, before.p) = FlattenSeq(Args(before.v)) /\ Places(s, p, before.p)
    BY <1>2
  <2>5. Between(s, before.p, arg.p) = EncodeArg(arg.v) /\ Places(s, before.p, arg.p)
        /\ arg.v \in Seq(Nat)
    BY <2>3, ArgBytes
  <2>6. r.v = Append(before.v, arg.v) /\ r.p = arg.p
    BY <2>2
  <2>7. Args(r.v) = Append(Args(before.v), EncodeArg(arg.v))
        /\ Args(before.v) \in Seq(Seq(Nat)) /\ EncodeArg(arg.v) \in Seq(Nat)
    BY <2>3, <2>5, <2>6, ArgsAppend, EncodeArgTyped
  <2>8. FlattenSeq(Args(r.v)) = FlattenSeq(Args(before.v)) \o EncodeArg(arg.v)
    BY <2>7, FlattenAppend
  <2>9. Between(s, p, before.p) \o Between(s, before.p, arg.p) = Between(s, p, arg.p)
        /\ Places(s, p, arg.p)
    BY <2>4, <2>5, BetweenJoins
  <2>. QED
    BY <2>4, <2>5, <2>6, <2>8, <2>9
<1>. HIDE DEF Good, S
<1>3. \A k \in Nat : k \in S => k + 1 \in S
  <2>. SUFFICES ASSUME NEW k \in Nat, k \in S PROVE k + 1 \in S
    OBVIOUS
  <2>1. k + 1 \in Nat /\ \A r \in ArgsAt(s, p, k) : Good(r)
    BY DEF S
  <2>2. \A r \in ArgsAt(s, p, k + 1) : Good(r)
    BY <1>2, <2>1
  <2>. QED
    BY <2>1, <2>2 DEF S
<1>4. Nat \subseteq S
  BY <1>1, <1>3, Induction
<1>. QED
  BY <1>4 DEF S, Good

(* and those of a command its encoding.                                       *)
LEMMA CommandBytes ==
    ASSUME NEW s \in Seq(Nat), OneForm(s), NEW p \in Nat \ {0}, NEW c \in CommandAt(s, p)
    PROVE  Between(s, p, c.p) = Encode(c.v) /\ Places(s, p, c.p)
<1>1. PICK argc \in NumberAt(Star, s, p) : argc.v > 0 /\ c \in ArgsAt(s, argc.p, argc.v)
  BY CommandElim
<1>2. argc.p \in Nat \ {0} /\ argc.v \in Nat /\ argc.p <= Len(s) + 1
  BY CountType
<1>3. Between(s, p, argc.p) = NumberLine(Star, Decimal(argc.v)) /\ Places(s, p, argc.p)
  BY NumberBytes
<1>4. Between(s, argc.p, c.p) = FlattenSeq(Args(c.v)) /\ Places(s, argc.p, c.p)
  BY <1>1, <1>2, ArgsBytes
<1>5. Len(c.v) = argc.v
  BY <1>1, <1>2, ArgsResult DEF ArgsTyped
<1>6. Between(s, p, c.p) = NumberLine(Star, Decimal(argc.v)) \o FlattenSeq(Args(c.v))
      /\ Places(s, p, c.p)
  BY <1>3, <1>4, BetweenJoins
<1>. QED
  BY <1>5, <1>6 DEF Encode, NumberLine, Args

(* The first k commands of a chain.                                           *)
FirstValues(x, k) == [i \in 1 .. k |-> x[i].v]

(* Up to the end of command k the bytes are the encoding of the first k.      *)
LEMMA ChainBytes ==
    ASSUME NEW s \in Seq(Nat), OneForm(s), NEW x \in Chains(s, 1)
    PROVE  \A k \in 0 .. Len(x) :
               Between(s, 1, At(1, x, k)) = EncodeAll(FirstValues(x, k))
               /\ Places(s, 1, At(1, x, k))
<1>. DEFINE Codes(k) == [i \in 1 .. k |-> Encode(x[i].v)]
            n == Len(x)
            Good(k) == Between(s, 1, At(1, x, k)) = FlattenSeq(Codes(k))
            /\ Places(s, 1, At(1, x, k))
            S == {k \in 0 .. n : Good(k)}
<1>1. /\ n \in Nat /\ x \in Seq(Res) /\ At(1, x, 0) = 1
      /\ \A j \in 0 .. n : At(1, x, j) \in Nat \ {0}
  BY ChainAt
<1>2. \A i \in 1 .. n : x[i] \in CommandAt(s, At(1, x, i - 1))
  BY DEF Chains
<1>3. ASSUME NEW i \in 1 .. n
      PROVE  /\ Encode(x[i].v) \in Seq(Nat)
             /\ Between(s, At(1, x, i - 1), x[i].p) = Encode(x[i].v)
             /\ Places(s, At(1, x, i - 1), x[i].p)
  <2>1. i - 1 \in 0 .. n
    BY <1>1
  <2>2. At(1, x, i - 1) \in Nat \ {0} /\ x[i] \in CommandAt(s, At(1, x, i - 1))
    BY <1>1, <1>2, <2>1
  <2>3. x[i].v \in Seq(Seq(Nat))
    BY <2>2, CommandResult
  <2>. QED
    BY <2>2, <2>3, CommandBytes, EncodeTyped
<1>4. 0 \in S
  <2>1. Codes(0) = <<>>
    OBVIOUS
  <2>2. Between(s, 1, 1) = <<>> /\ Places(s, 1, 1)
    BY DEF Between, Places
  <2>3. Good(0)
    BY <1>1, <2>1, <2>2, FlattenEmpty
  <2>. QED
    BY <1>1, <2>3
<1>5. ASSUME NEW k \in 0 .. n - 1, k \in S PROVE k + 1 \in S
  <2>1. k + 1 \in 1 .. n /\ (k + 1) - 1 = k /\ k + 1 # 0 /\ k \in Nat /\ k + 1 \in 0 .. n
    BY <1>1
  <2>2. At(1, x, k + 1) = x[k + 1].p
    BY <2>1 DEF At
  <2>3. /\ Encode(x[k + 1].v) \in Seq(Nat)
        /\ Between(s, At(1, x, k), At(1, x, k + 1)) = Encode(x[k + 1].v)
        /\ Places(s, At(1, x, k), At(1, x, k + 1))
    BY <1>3, <2>1, <2>2
  <2>4. Between(s, 1, At(1, x, k)) = FlattenSeq(Codes(k)) /\ Places(s, 1, At(1, x, k))
    BY <1>5
  <2>5. Codes(k) \in Seq(Seq(Nat)) /\ Codes(k + 1) = Append(Codes(k), Encode(x[k + 1].v))
    <3>. DEFINE E == [i \in 1 .. n |-> Encode(x[i].v)]
    <3>1. \A i \in 1 .. n : E[i] \in Seq(Nat)
      BY <1>3
    <3>2. Codes(k) = [i \in 1 .. k |-> E[i]] /\ Codes(k + 1) = [i \in 1 .. k + 1 |-> E[i]]
          /\ Encode(x[k + 1].v) = E[k + 1]
      BY <2>1
    <3>. HIDE DEF E, Codes
    <3>3. E[k + 1] \in Seq(Nat) /\ \A i \in 1 .. k : E[i] \in Seq(Nat)
      BY <2>1, <3>1
    <3>4. [i \in 1 .. k |-> E[i]] \in Seq(Seq(Nat)) /\ Len([i \in 1 .. k |-> E[i]]) = k
      BY <2>1, <3>3
    <3>. DEFINE z == [i \in 1 .. k |-> E[i]]
                y == [i \in 1 .. k + 1 |-> E[i]]
    <3>5. y \in Seq(Seq(Nat)) /\ Len(y) = k + 1 /\ y[k + 1] = E[k + 1]
          /\ \A i \in 1 .. k : y[i] = z[i]
      BY <2>1, <3>3
    <3>6. z \in Seq(Seq(Nat)) /\ Len(z) = k
      BY <3>4
    <3>. HIDE DEF z, y
    <3>7. y = Append(z, E[k + 1])
      BY <3>3, <3>5, <3>6, IsAppended
    <3>. QED
      BY <3>2, <3>4, <3>7 DEF y, z
  <2>6. FlattenSeq(Codes(k + 1)) = FlattenSeq(Codes(k)) \o Encode(x[k + 1].v)
    <3>. HIDE DEF Codes
    <3>. QED
      BY <2>3, <2>5, FlattenAppend
  <2>7. Between(s, 1, At(1, x, k + 1))
            = Between(s, 1, At(1, x, k)) \o Between(s, At(1, x, k), At(1, x, k + 1))
        /\ Places(s, 1, At(1, x, k + 1))
    BY <2>3, <2>4, BetweenJoins
  <2>8. Good(k + 1)
    <3>. HIDE DEF Codes
    <3>. QED
      BY <2>3, <2>4, <2>6, <2>7
  <2>. QED
    BY <2>1, <2>8
<1>. HIDE DEF S, n, Good
<1>6. 0 .. n \subseteq S
  BY <1>1, <1>4, <1>5, BoundedInduction
<1>7. ASSUME NEW k \in 0 .. n PROVE EncodeAll(FirstValues(x, k)) = FlattenSeq(Codes(k))
  BY DEF EncodeAll, FirstValues
<1>. HIDE DEF Codes
<1>. QED
  BY <1>6, <1>7 DEF S, Good, n

(* The invariant gives the property.                                          *)
LEMMA ParsedEncodes == ParseInv => NothingInvented
<1>. SUFFICES ASSUME ParseInv, OneForm(stream)
              PROVE  EncodeAll(got) \o buf = SubSeq(stream, 1, read)
  BY DEF NothingInvented
<1>. DEFINE a == At(1, All, Len(got))
<1>1. /\ stream \in Seq(Nat) /\ read \in Nat /\ read <= Len(stream) /\ got \in Seq(Seq(Seq(Nat)))
      /\ Len(got) \in Nat /\ Len(got) <= Len(All) /\ a <= read + 1 /\ buf = SubSeq(stream, a, read)
      /\ \A i \in 1 .. Len(got) : got[i] = All[i].v
  BY DEF ParseInv, Parsing
<1>2. All \in Chains(stream, 1)
  BY <1>1, AllIsChain DEF All
<1>. HIDE DEF All
<1>3. Len(All) \in Nat /\ \A j \in 0 .. Len(All) : At(1, All, j) \in Nat \ {0}
  BY <1>1, <1>2, ChainAt
<1>4. Len(got) \in 0 .. Len(All) /\ a \in Nat \ {0}
  BY <1>1, <1>3
<1>5. Between(stream, 1, a) = EncodeAll(FirstValues(All, Len(got))) /\ Places(stream, 1, a)
  BY <1>1, <1>2, <1>4, ChainBytes
<1>6. FirstValues(All, Len(got)) = got
  <2>1. got = [i \in 1 .. Len(got) |-> got[i]]
    BY <1>1
  <2>. QED
    BY <1>1, <2>1 DEF FirstValues
<1>. HIDE DEF a
<1>7. Places(stream, a, read + 1) /\ (read + 1) - 1 = read /\ Len(stream) \in Nat
  BY <1>1, <1>4 DEF Places
<1>8. Between(stream, 1, a) \o Between(stream, a, read + 1) = Between(stream, 1, read + 1)
  BY <1>1, <1>5, <1>7, BetweenJoins
<1>. QED
  BY <1>1, <1>5, <1>6, <1>7, <1>8 DEF Between

(* Of a stream with a wrong byte too, what has been parsed and what is kept   *)
(* in the buffer encode exactly to what was read: on_read neither loses,      *)
(* repeats nor invents a byte, if no number that it parses has a leading      *)
(* zero.                                                                      *)
THEOREM BytesAreKept == SessionSpec => []NothingInvented
<1>1. SessionInit => ParseInv
  BY ParseInit DEF SessionInit
<1>2. ParseInv /\ [SessionNext]_sessionVars => ParseInv'
  BY ParseStep
<1>. QED
  BY <1>1, <1>2, ParsedEncodes, PTL DEF SessionSpec

-------------------------------------------------------------------------------
(* The instance of the replies that the proofs are about is the session's.    *)

(* RespReplies again, with the lemmas about it.                               *)
WP == INSTANCE RespRepliesProofs WITH
          Names <- {}, Lines <- {}, Blobs <- {}, Numbers <- {}, MaxReplies <- 0,
          said <- <<>>

(* The bytes are the same.                                                    *)
LEMMA SameBytes ==
    /\ W!LF = WP!LF /\ W!CR = WP!CR /\ W!Dollar = WP!Dollar /\ W!Star = WP!Star /\ W!Zero = WP!Zero
    /\ W!Plus = WP!Plus /\ W!Minus = WP!Minus /\ W!Colon = WP!Colon /\ W!Unknown = WP!Unknown
BY DEF W!LF, WP!LF, W!CR, WP!CR, W!Dollar, WP!Dollar, W!Star, WP!Star, W!Zero, WP!Zero,
       W!Plus, WP!Plus, W!Minus, WP!Minus, W!Colon, WP!Colon, W!Unknown, WP!Unknown

(* So are the words and the types of lines.                                   *)
LEMMA SameWords == W!Crlf = WP!Crlf /\ W!Ping = WP!Ping /\ W!Pong = WP!Pong /\ W!Kinds = WP!Kinds
<1>1. W!Kinds = WP!Kinds
  BY Zenon DEF W!Kinds, WP!Kinds, W!Plus, WP!Plus, W!Minus, WP!Minus, W!Colon, WP!Colon, W!Star,
  WP!Star
<1>. QED
  BY <1>1, SameBytes DEF W!Crlf, WP!Crlf, W!Ping, WP!Ping, W!Pong, WP!Pong

(* So are the items.                                                          *)
LEMMA SameItem == \A kind, data : W!Item(kind, data) = WP!Item(kind, data)
BY DEF W!Item, WP!Item

(* The ends of lines are the same.                                            *)
LEMMA SameEnds == \A s, p : W!Ends(s, p) = WP!Ends(s, p)
BY SameBytes DEF W!Ends, WP!Ends

(* What is one line is the same.                                              *)
LEMMA SameOneLine == \A str : W!OneLine(str) = WP!OneLine(str)
BY SameEnds, Zenon DEF W!OneLine, WP!OneLine

(* Which commands are pings is the same.                                      *)
LEMMA SameIsPing == \A name : W!IsPing(name) = WP!IsPing(name)
BY SameWords, Zenon DEF W!IsPing, WP!IsPing

(* The tasks' replies are the same.                                           *)
LEMMA SameTaskReply == \A name : W!TaskReply(name) = WP!TaskReply(name)
<1>1. \A name : W!ToLower(name) = WP!ToLower(name)
  BY DEF W!ToLower, WP!ToLower
<1>2. \A name : W!Known(name) = WP!Known(name)
  BY <1>1, SameWords, Zenon DEF W!Known, WP!Known
<1>3. \A type, str : W!Line(type, str) = WP!Line(type, str)
  BY SameWords, Zenon DEF W!Line, WP!Line
<1>. QED
  BY <1>2, <1>3, SameWords, SameBytes, Zenon DEF W!TaskReply, WP!TaskReply

(* Digits say the same numbers.                                               *)
LEMMA SameValue == \A digits : W!ValueOf(digits) = WP!ValueOf(digits)
BY DEF W!ValueOf, WP!ValueOf, W!Zero, WP!Zero, W!FoldLeft, WP!FoldLeft,
       W!MapThenFoldSet, WP!MapThenFoldSet, W!Max, WP!Max

(* So do digits with a sign.                                                  *)
LEMMA SameText == \A t : W!FromText(t) = WP!FromText(t)
BY SameValue, SameBytes DEF W!FromText, WP!FromText

(* A line ends at the same position.                                          *)
LEMMA SameLineEnd == \A s, p : W!LineEnd(s, p) = WP!LineEnd(s, p)
BY SameEnds DEF W!LineEnd, WP!LineEnd

(* The same is read as a line.                                                *)
LEMMA SameLine == \A s, p : W!ReadLine(s, p) = WP!ReadLine(s, p)
BY SameLineEnd, SameText, SameBytes, SameWords, SameItem DEF W!ReadLine, WP!ReadLine

(* The same is read as a bulk string.                                         *)
LEMMA SameBulk == \A s, p : W!ReadBulk(s, p) = WP!ReadBulk(s, p)
BY SameLineEnd, SameText, SameItem, SameEnds DEF W!ReadBulk, WP!ReadBulk

(* The same is read at a position.                                            *)
LEMMA SameRead == \A s, p : W!ReadItem(s, p) = WP!ReadItem(s, p)
BY SameLine, SameBulk, SameBytes, SameWords DEF W!ReadItem, WP!ReadItem

(* The same is read of all the bytes.                                         *)
LEMMA SameReadAll == \A s : W!ReadAll(s) = WP!ReadAll(s)
BY SameRead, Zenon DEF W!ReadAll, WP!ReadAll

(* Strings one behind the other are the same in both.                         *)
LEMMA SameFlatten == \A ss : FlattenSeq(ss) = WP!FlattenSeq(ss)
BY Zenon DEF FlattenSeq, WP!FlattenSeq

(* The session's client reads back the bytes of replies, as RespRepliesProofs *)
(* says.                                                                      *)
LEMMA RepliesRead ==
    ASSUME NEW items \in Seq(WP!Items), WP!AllReadable(items)
    PROVE  W!ReadAll(FlattenSeq(WP!Pieces(items))) = {items}
<1>. DEFINE all == FlattenSeq(WP!Pieces(items))
<1>1. all = WP!FlattenSeq(WP!Pieces(items))
  BY SameFlatten
<1>2. all \in Seq(Nat) /\ Len(items) \in Nat
  <2>1. WP!Pieces(items) \in Seq(Seq(Nat))
    BY WP!PiecesTyped
  <2>. QED
    BY <2>1, FlattenTyped
<1>3. Len(all) \in 0 .. Len(all) /\ SubSeq(all, 1, Len(all)) = all
      /\ SubSeq(items, 1, Len(items)) = items
  BY <1>2
<1>4. \E m \in 0 .. Len(items) : WP!ReadAll(SubSeq(all, 1, Len(all))) = {SubSeq(items, 1, m)}
      /\ m = Len(items)
  BY <1>1, <1>3, WP!PrefixReads
<1>. QED
  BY <1>3, <1>4, SameReadAll

-------------------------------------------------------------------------------
(* Commands and their answers.                                                *)

(* Commands, as the parser yields them.                                       *)
Cmd == {cmd \in Seq(Seq(Nat)) : cmd # <<>>}

(* What has been parsed are commands.                                         *)
LEMMA GotCommands == ParseInv => got \in Seq(Cmd)
<1>. SUFFICES ASSUME ParseInv PROVE got \in Seq(Cmd)
  OBVIOUS
<1>1. /\ stream \in Seq(Nat) /\ got \in Seq(Seq(Seq(Nat))) /\ Len(got) <= Len(All)
      /\ \A i \in 1 .. Len(got) : got[i] = All[i].v
  BY DEF ParseInv, Parsing
<1>2. All \in Chains(stream, 1)
  BY <1>1, AllIsChain DEF All
<1>. HIDE DEF All
<1>3. Len(All) \in Nat /\ \A j \in 0 .. Len(All) : At(1, All, j) \in Nat \ {0}
  BY <1>1, <1>2, ChainAt
<1>4. ASSUME NEW i \in 1 .. Len(got) PROVE got[i] \in Cmd
  <2>1. i \in 1 .. Len(All) /\ i - 1 \in 0 .. Len(All)
    BY <1>1, <1>3
  <2>2. At(1, All, i - 1) \in Nat /\ All[i] \in CommandAt(stream, At(1, All, i - 1))
    BY <1>2, <1>3, <2>1 DEF Chains
  <2>3. All[i].v \in Seq(Seq(Nat)) /\ Len(All[i].v) > 0
    BY <1>1, <2>2, CommandResult
  <2>4. All[i].v # <<>>
    BY <2>3
  <2>. QED
    BY <1>1, <2>3, <2>4 DEF Cmd
<1>5. Len(got) \in Nat /\ got = [i \in 1 .. Len(got) |-> got[i]]
  BY <1>1
<1>. QED
  BY ONLY <1>4, <1>5

(* A read adds commands or none.                                              *)
LEMMA GotGrows ==
    ASSUME ParseInv, NEW n \in Nat \ {0}, OnRead(n)
    PROVE  got' = got \/ \E v \in Seq(Seq(Seq(Nat))) : got' = got \o v
<1>. DEFINE all == buf \o SubSeq(stream, read + 1, read + n)
            a == At(1, All, Len(got))
<1>1. read + n <= Len(stream)
      /\ \E parsed \in CommandsOf(all) : got' = got \/ got' = got \o parsed.v
  BY DEF OnRead
<1>2. /\ stream \in Seq(Nat) /\ read \in Nat /\ read <= Len(stream)
      /\ Len(got) \in Nat /\ Len(got) <= Len(All) /\ a <= read + 1 /\ buf = SubSeq(stream, a, read)
  BY DEF ParseInv, Parsing
<1>3. All \in Chains(stream, 1)
  BY <1>2, AllIsChain DEF All
<1>. HIDE DEF All
<1>4. a \in Nat \ {0}
  <2>1. Len(All) \in Nat /\ \A j \in 0 .. Len(All) : At(1, All, j) \in Nat \ {0}
    BY <1>2, <1>3, ChainAt
  <2>2. Len(got) \in 0 .. Len(All)
    BY <1>2, <2>1
  <2>. QED
    BY <2>1, <2>2
<1>. HIDE DEF a
<1>5. buf \in Seq(Nat)
  BY <1>2, <1>4, PieceTyped
<1>6. SubSeq(stream, read + 1, read + n) \in Seq(Nat)
  <2>1. read + 1 \in Nat \ {0} /\ read + n \in Nat /\ read + 1 <= (read + n) + 1
    BY <1>2
  <2>. QED
    BY <1>1, <1>2, <2>1, PieceTyped
<1>7. all \in Seq(Nat)
  BY <1>5, <1>6
<1>. HIDE DEF all
<1>8. PICK y : y \in Chains(all, 1)
  <2>1. 1 \in 0 .. Len(all) + 1
    BY <1>7
  <2>. QED
    BY <1>7, <2>1, ChainExists
<1>9. CommandsOf(all) = {[v |-> Values(y), p |-> At(1, y, Len(y))]}
  BY <1>7, <1>8, CommandsOfChain
<1>10. Values(y) \in Seq(Seq(Seq(Nat)))
  <2>1. y \in Seq(Res)
    BY <1>8 DEF Chains
  <2>. QED
    BY <2>1, ValuesSeq
<1>. QED
  BY <1>1, <1>9, <1>10

(* What answers a command is an item, and its bytes are the task's reply.     *)
LEMMA AnswerIs ==
    ASSUME NEW cmd \in Cmd
    PROVE  Answer(cmd) \in WP!Items /\ W!TaskReply(cmd[1]) = WP!BytesOf(Answer(cmd))
<1>1. cmd[1] \in Seq(Nat)
  <2>1. cmd \in Seq(Seq(Nat)) /\ cmd # <<>>
    BY DEF Cmd
  <2>2. 1 \in 1 .. Len(cmd)
    BY <2>1
  <2>. QED
    BY <2>1, <2>2, ElementOfSeq
<1>. DEFINE name == cmd[1]
<1>. HIDE DEF name
<1>2. PICK item \in WP!Items :
          /\ item = IF WP!IsPing(name) THEN WP!Item("simple", WP!Pong)
                                       ELSE WP!Item("error", <<WP!Unknown>> \o name)
          /\ WP!TaskReply(name) = WP!BytesOf(item)
  BY <1>1, WP!TaskAnswers DEF name
<1>3. Answer(cmd) = item
  BY <1>2, SameIsPing, SameItem, SameWords, SameBytes, Zenon DEF Answer, name
<1>4. W!TaskReply(name) = WP!TaskReply(name)
  BY SameTaskReply
<1>. QED
  BY <1>2, <1>3, <1>4 DEF name

(* The answers to some commands, one by one.                                  *)
LEMMA AnswersTyped ==
    ASSUME NEW cmds \in Seq(Cmd)
    PROVE  /\ Answers(cmds) \in Seq(WP!Items) /\ Len(Answers(cmds)) = Len(cmds)
           /\ \A i \in 1 .. Len(cmds) : Answers(cmds)[i] = Answer(cmds[i]) /\ cmds[i] \in Cmd
<1>1. DOMAIN cmds = 1 .. Len(cmds) /\ Len(cmds) \in Nat
  OBVIOUS
<1>2. \A i \in 1 .. Len(cmds) : cmds[i] \in Cmd
  BY ElementOfSeq
<1>3. \A i \in 1 .. Len(cmds) : Answer(cmds[i]) \in WP!Items
  BY <1>2, AnswerIs
<1>4. Answers(cmds) = [i \in 1 .. Len(cmds) |-> Answer(cmds[i])]
  BY <1>1 DEF Answers
<1>. DEFINE V == WP!Items
<1>. HIDE DEF V
<1>5. Answers(cmds) \in Seq(V) /\ Len(Answers(cmds)) = Len(cmds)
  <2>1. \A i \in 1 .. Len(cmds) : Answer(cmds[i]) \in V
    BY <1>3 DEF V
  <2>. QED
    BY <1>1, <1>4, <2>1
<1>. QED
  BY <1>2, <1>4, <1>5 DEF V

(* The replies of the tasks of some commands.                                 *)
TaskReplies(cmds) == [i \in DOMAIN cmds |-> W!TaskReply(cmds[i][1])]

(* They are the bytes of the answers.                                         *)
LEMMA TaskRepliesAre ==
    ASSUME NEW cmds \in Seq(Cmd)
    PROVE  /\ TaskReplies(cmds) \in Seq(Seq(Nat)) /\ Len(TaskReplies(cmds)) = Len(cmds)
           /\ \A i \in 1 .. Len(cmds) : TaskReplies(cmds)[i] = W!TaskReply(cmds[i][1])
           /\ TaskReplies(cmds) = WP!Pieces(Answers(cmds))
<1>1. DOMAIN cmds = 1 .. Len(cmds) /\ Len(cmds) \in Nat
  OBVIOUS
<1>2. /\ Answers(cmds) \in Seq(WP!Items) /\ Len(Answers(cmds)) = Len(cmds)
      /\ \A i \in 1 .. Len(cmds) : Answers(cmds)[i] = Answer(cmds[i]) /\ cmds[i] \in Cmd
  BY AnswersTyped
<1>3. ASSUME NEW i \in 1 .. Len(cmds)
      PROVE  /\ W!TaskReply(cmds[i][1]) \in Seq(Nat)
             /\ W!TaskReply(cmds[i][1]) = WP!BytesOf(Answers(cmds)[i])
  <2>1. Answer(cmds[i]) \in WP!Items /\ W!TaskReply(cmds[i][1]) = WP!BytesOf(Answer(cmds[i]))
    BY <1>2, AnswerIs
  <2>2. WP!BytesOf(Answer(cmds[i])) \in Seq(Nat)
    BY <2>1, WP!BytesTyped
  <2>. QED
    BY <1>2, <2>1, <2>2
<1>4. TaskReplies(cmds) = [i \in 1 .. Len(cmds) |-> W!TaskReply(cmds[i][1])]
  BY <1>1 DEF TaskReplies
<1>5. TaskReplies(cmds) \in Seq(Seq(Nat)) /\ Len(TaskReplies(cmds)) = Len(cmds)
  BY <1>1, <1>3, <1>4
<1>6. TaskReplies(cmds) = WP!Pieces(Answers(cmds))
  BY <1>2, <1>3, <1>4 DEF WP!Pieces
<1>. QED
  BY <1>4, <1>5, <1>6

(* What is added behind a sequence is there.                                  *)
LEMMA Added ==
    ASSUME NEW V, NEW g \in Seq(V), NEW v \in Seq(V)
    PROVE  /\ g \o v \in Seq(V) /\ Len(g \o v) = Len(g) + Len(v)
           /\ \A i \in 1 .. Len(g) : (g \o v)[i] = g[i]
           /\ \A i \in 1 .. Len(v) : (g \o v)[i + Len(g)] = v[i]
           /\ SubSeq(g \o v, Len(g) + 1, Len(g \o v)) = v
<1>. DEFINE c == g \o v
            m == Len(g)
            n == Len(v)
<1>1. m \in Nat /\ n \in Nat
  OBVIOUS
<1>2. c \in Seq(V) /\ Len(c) = m + n
      /\ \A i \in 1 .. m + n : c[i] = IF i <= m THEN g[i] ELSE v[i - m]
  BY ConcatProperties
<1>. HIDE DEF c, m, n
<1>3. ASSUME NEW i \in 1 .. m PROVE c[i] = g[i]
  BY <1>1, <1>2
<1>4. ASSUME NEW i \in 1 .. n PROVE c[i + m] = v[i]
  <2>1. i + m \in 1 .. m + n /\ ~(i + m <= m) /\ (i + m) - m = i
    BY <1>1
  <2>. QED
    BY <1>2, <2>1
<1>5. SubSeq(c, m + 1, Len(c)) = v
  <2>. DEFINE w == SubSeq(c, m + 1, Len(c))
  <2>1. w \in Seq(V) /\ Len(w) = n /\ \A i \in 1 .. n : w[i] = c[i + m]
    BY <1>1, <1>2, SMTT(30)
  <2>2. v \in Seq(V) /\ Len(v) = n
    BY DEF n
  <2>. HIDE DEF w
  <2>3. w = v
    BY <1>4, <2>1, <2>2, SeqEqual
  <2>. QED
    BY <2>3 DEF w
<1>. QED
  BY <1>2, <1>3, <1>4, <1>5 DEF c, m, n

(* A sequence is two others joined if it has their elements.                  *)
LEMMA IsJoined ==
    ASSUME NEW V, NEW x \in Seq(V), NEW y \in Seq(V), NEW z \in Seq(V), Len(z) = Len(x) + Len(y),
           \A i \in 1 .. Len(x) : z[i] = x[i],
           \A i \in 1 .. Len(y) : z[i + Len(x)] = y[i]
    PROVE  z = x \o y
<1>. DEFINE w == x \o y
            m == Len(x)
            n == Len(y)
<1>1. /\ w \in Seq(V) /\ Len(w) = m + n /\ \A i \in 1 .. m : w[i] = x[i]
      /\ \A i \in 1 .. n : w[i + m] = y[i]
  BY Added
<1>2. m \in Nat /\ n \in Nat /\ Len(z) = m + n
  OBVIOUS
<1>3. \A i \in 1 .. m : z[i] = x[i]
  OBVIOUS
<1>4. \A i \in 1 .. n : z[i + m] = y[i]
  OBVIOUS
<1>. HIDE DEF w, m, n
<1>5. ASSUME NEW i \in 1 .. m + n PROVE z[i] = w[i]
  <2>1. CASE i <= m
    BY <1>1, <1>2, <1>3, <2>1
  <2>2. CASE ~(i <= m)
    <3>1. i - m \in 1 .. n /\ (i - m) + m = i
      BY <1>2, <2>2
    <3>2. z[(i - m) + m] = y[i - m] /\ w[(i - m) + m] = y[i - m]
      BY <1>1, <1>4, <3>1
    <3>. QED
      BY <3>1, <3>2
  <2>. QED
    BY <2>1, <2>2
<1>6. z = w
  BY <1>1, <1>2, <1>5, SeqEqual
<1>. QED
  BY <1>6 DEF w

(* The replies to two batches, one behind the other, are those to both.       *)
LEMMA TaskRepliesConcat ==
    ASSUME NEW a \in Seq(Cmd), NEW b \in Seq(Cmd)
    PROVE  ReplyTo(a \o b) = ReplyTo(a) \o ReplyTo(b)
<1>. DEFINE c == a \o b
<1>1. /\ c \in Seq(Cmd) /\ Len(c) = Len(a) + Len(b) /\ Len(a) \in Nat /\ Len(b) \in Nat
      /\ \A i \in 1 .. Len(a) : c[i] = a[i]
      /\ \A i \in 1 .. Len(b) : c[i + Len(a)] = b[i]
  BY Added
<1>. HIDE DEF c
<1>2. /\ TaskReplies(a) \in Seq(Seq(Nat)) /\ Len(TaskReplies(a)) = Len(a)
      /\ \A i \in 1 .. Len(a) : TaskReplies(a)[i] = W!TaskReply(a[i][1])
  BY TaskRepliesAre
<1>3. /\ TaskReplies(b) \in Seq(Seq(Nat)) /\ Len(TaskReplies(b)) = Len(b)
      /\ \A i \in 1 .. Len(b) : TaskReplies(b)[i] = W!TaskReply(b[i][1])
  BY TaskRepliesAre
<1>4. /\ TaskReplies(c) \in Seq(Seq(Nat)) /\ Len(TaskReplies(c)) = Len(c)
      /\ \A i \in 1 .. Len(c) : TaskReplies(c)[i] = W!TaskReply(c[i][1])
  BY <1>1, TaskRepliesAre
<1>5. TaskReplies(c) = TaskReplies(a) \o TaskReplies(b)
  <2>. DEFINE x == TaskReplies(a)
              y == TaskReplies(b)
              z == TaskReplies(c)
  <2>1. x \in Seq(Seq(Nat)) /\ y \in Seq(Seq(Nat)) /\ z \in Seq(Seq(Nat))
        /\ Len(z) = Len(x) + Len(y)
    BY <1>1, <1>2, <1>3, <1>4
  <2>2. ASSUME NEW i \in 1 .. Len(x) PROVE z[i] = x[i]
    <3>1. i \in 1 .. Len(a) /\ i \in 1 .. Len(c) /\ c[i] = a[i]
      BY <1>1, <1>2
    <3>. QED
      BY <1>2, <1>4, <3>1
  <2>3. ASSUME NEW i \in 1 .. Len(y) PROVE z[i + Len(x)] = y[i]
    <3>1. i \in 1 .. Len(b) /\ i + Len(a) \in 1 .. Len(c) /\ c[i + Len(a)] = b[i] /\ Len(x) = Len(a)
      BY <1>1, <1>2, <1>3
    <3>. QED
      BY <1>3, <1>4, <3>1
  <2>. HIDE DEF x, y, z
  <2>4. z = x \o y
    BY <2>1, <2>2, <2>3, IsJoined
  <2>. QED
    BY <2>4 DEF x, y, z
<1>6. FlattenSeq(TaskReplies(a) \o TaskReplies(b))
          = FlattenSeq(TaskReplies(a)) \o FlattenSeq(TaskReplies(b))
  BY <1>2, <1>3, FlattenConcat
<1>. QED
  BY <1>5, <1>6 DEF ReplyTo, TaskReplies, c

-------------------------------------------------------------------------------
(* The steps that answer.                                                     *)

(* All that has been parsed, by what became of it.                            *)
Handled(answered, dropped, waiting) == (answered \o dropped) \o waiting

(* Batches are the first and the rest of them.                                *)
LEMMA FlattenHead ==
    ASSUME NEW S, NEW ss \in Seq(Seq(S)), ss # <<>>
    PROVE  /\ Head(ss) \in Seq(S) /\ Tail(ss) \in Seq(Seq(S))
           /\ FlattenSeq(ss) = Head(ss) \o FlattenSeq(Tail(ss))
<1>. DEFINE V == Seq(S)
            h == Head(ss)
            t == Tail(ss)
<1>. HIDE DEF V
<1>1. h \in V /\ t \in Seq(V) /\ <<h>> \in Seq(V) /\ ss = <<h>> \o t
  BY DEF V
<1>. HIDE DEF h, t
<1>2. FlattenSeq(<<h>> \o t) = FlattenSeq(<<h>>) \o FlattenSeq(t)
  BY <1>1, FlattenConcat DEF V
<1>3. FlattenSeq(<<h>>) = h
  BY <1>1, FlattenOne DEF V
<1>. QED
  BY <1>1, <1>2, <1>3 DEF h, t, V

(* The commands answered, dropped and waiting are those that were parsed, in  *)
(* order; the client was sent the replies to the first; and none is dropped   *)
(* while the connection is open.                                              *)
Accounts(answered, dropped, g, waiting, o, open) ==
    /\ g = Handled(answered, dropped, FlattenSeq(waiting))
    /\ o = ReplyTo(answered)
    /\ open => dropped = <<>>

(* The inductive invariant: there are such commands.                          *)
AnswerInv ==
    /\ ParseInv
    /\ batches \in Seq(Seq(Cmd))
    /\ \E answered, dropped \in Seq(Cmd) : Accounts(answered, dropped, got, batches, out, Open)

(* At first there are none.                                                   *)
LEMMA AnswerInit == SessionInit => AnswerInv
<1>. SUFFICES ASSUME SessionInit PROVE AnswerInv
  OBVIOUS
<1>1. got = <<>> /\ batches = <<>> /\ out = <<>>
  BY DEF SessionInit, Init
<1>2. <<>> \in Seq(Cmd) /\ batches \in Seq(Seq(Cmd))
  BY <1>1
<1>3. ReplyTo(<<>>) = <<>>
  <2>1. [i \in DOMAIN <<>> |-> W!TaskReply(<<>>[i][1])] = <<>>
    OBVIOUS
  <2>. QED
    BY <2>1, FlattenEmpty DEF ReplyTo
<1>4. Handled(<<>>, <<>>, FlattenSeq(<<>>)) = <<>>
  <2>1. FlattenSeq(<<>>) = <<>>
    BY FlattenEmpty
  <2>. QED
    BY <2>1 DEF Handled
<1>5. Accounts(<<>>, <<>>, got, batches, out, Open)
  BY <1>1, <1>3, <1>4 DEF Accounts
<1>6. ParseInv
  BY ParseInit DEF SessionInit
<1>. QED
  BY <1>2, <1>5, <1>6 DEF AnswerInv

(* What will have been parsed are commands.                                   *)
LEMMA GotCommandsNext == ParseInv' => (got \in Seq(Cmd))'
BY GotCommands, PTL

(* A read adds what it parses to what waits, as one batch.                    *)
LEMMA AnswerRead ==
    ASSUME AnswerInv, ParseInv', NEW n \in Nat \ {0}, ReadBytes(n)
    PROVE  AnswerInv'
<1>1. batches \in Seq(Seq(Cmd)) /\ got \in Seq(Cmd) /\ got' \in Seq(Cmd)
  BY GotCommands, GotCommandsNext DEF AnswerInv
<1>2. PICK answered \in Seq(Cmd), dropped \in Seq(Cmd) :
          Accounts(answered, dropped, got, batches, out, Open)
  BY DEF AnswerInv
<1>3. out' = out /\ (Open' => Open) /\ OnRead(n)
  BY DEF ReadBytes, OnRead, Open
<1>4. CASE got' = got
  <2>1. batches' = batches
    BY <1>4 DEF ReadBytes
  <2>2. Accounts(answered, dropped, got', batches', out', Open')
    BY <1>2, <1>3, <1>4, <2>1 DEF Accounts
  <2>. QED
    BY <1>1, <2>1, <2>2 DEF AnswerInv
<1>5. CASE got' # got
  <2>1. PICK v \in Seq(Seq(Seq(Nat))) : got' = got \o v
    BY <1>3, <1>5, GotGrows DEF AnswerInv
  <2>2. SubSeq(got', Len(got) + 1, Len(got')) = v
    <3>1. got \in Seq(Seq(Seq(Nat)))
      BY <1>1 DEF Cmd
    <3>. QED
      BY <2>1, <3>1, Added
  <2>3. v \in Seq(Cmd)
    <3>1. SubSeq(got', Len(got) + 1, Len(got')) \in Seq(Cmd)
      BY <1>1
    <3>. QED
      BY <2>2, <3>1
  <2>4. batches' = Append(batches, v)
    BY <1>5, <2>2 DEF ReadBytes
  <2>5. batches' \in Seq(Seq(Cmd))
    BY <1>1, <2>3, <2>4
  <2>6. FlattenSeq(batches') = FlattenSeq(batches) \o v /\ FlattenSeq(batches) \in Seq(Cmd)
    BY <1>1, <2>3, <2>4, FlattenAppend, FlattenTyped
  <2>7. Accounts(answered, dropped, got', batches', out', Open')
    <3>1. Handled(answered, dropped, FlattenSeq(batches)) \o v
          = Handled(answered, dropped, FlattenSeq(batches) \o v)
      BY ONLY <1>2, <2>3, <2>6 DEF Handled
    <3>. QED
      BY <1>2, <1>3, <2>1, <2>6, <3>1 DEF Accounts
  <2>. QED
    BY <2>5, <2>7 DEF AnswerInv
<1>. QED
  BY <1>4, <1>5

(* A batch that is run moves to what is answered, or to what is dropped when  *)
(* the connection is closed.                                                  *)
LEMMA AnswerRun ==
    ASSUME AnswerInv, ParseInv', RunBatch
    PROVE  AnswerInv'
<1>1. batches \in Seq(Seq(Cmd)) /\ batches # <<>> /\ batches' = Tail(batches)
  BY DEF AnswerInv, RunBatch
<1>2. PICK answered \in Seq(Cmd), dropped \in Seq(Cmd) :
          Accounts(answered, dropped, got, batches, out, Open)
  BY DEF AnswerInv
<1>3. got' = got /\ Open' = Open
  BY DEF RunBatch, Open, vars
<1>. DEFINE head == Head(batches)
            rest == FlattenSeq(Tail(batches))
<1>4. head \in Seq(Cmd) /\ batches' \in Seq(Seq(Cmd)) /\ FlattenSeq(batches) = head \o rest
  BY <1>1, FlattenHead
<1>5. rest \in Seq(Cmd) /\ FlattenSeq(batches') = rest
  BY <1>1, <1>4, FlattenTyped
<1>6. out' = IF Open THEN out \o ReplyTo(head) ELSE out
  BY DEF RunBatch
<1>. HIDE DEF head, rest
<1>7. CASE Open
  <2>1. dropped = <<>> /\ got = Handled(answered, <<>>, head \o rest) /\ out = ReplyTo(answered)
    BY <1>2, <1>4, <1>7 DEF Accounts
  <2>2. Handled(answered, <<>>, head \o rest) = Handled(answered \o head, <<>>, rest)
        /\ answered \o head \in Seq(Cmd)
    BY <1>4, <1>5, SMTT(30) DEF Handled
  <2>3. ReplyTo(answered \o head) = ReplyTo(answered) \o ReplyTo(head)
    BY <1>4, TaskRepliesConcat
  <2>4. Accounts(answered \o head, <<>>, got', batches', out', Open')
    BY <1>3, <1>5, <1>6, <1>7, <2>1, <2>2, <2>3 DEF Accounts
  <2>. QED
    BY <1>4, <2>1, <2>2, <2>4 DEF AnswerInv
<1>8. CASE ~Open
  <2>1. got = Handled(answered, dropped, head \o rest) /\ out = ReplyTo(answered)
    BY <1>2, <1>4 DEF Accounts
  <2>2. Handled(answered, dropped, head \o rest) = Handled(answered, dropped \o head, rest)
        /\ dropped \o head \in Seq(Cmd)
    BY <1>4, <1>5, SMTT(30) DEF Handled
  <2>3. Accounts(answered, dropped \o head, got', batches', out', Open')
    BY <1>3, <1>5, <1>6, <1>8, <2>1, <2>2 DEF Accounts
  <2>. QED
    BY <1>4, <2>2, <2>3 DEF AnswerInv
<1>. QED
  BY <1>7, <1>8

(* Every step of the session keeps the invariant.                             *)
LEMMA AnswerStep == AnswerInv /\ [SessionNext]_sessionVars => AnswerInv'
<1>. SUFFICES ASSUME AnswerInv, [SessionNext]_sessionVars PROVE AnswerInv'
  OBVIOUS
<1>1. ParseInv'
  BY ParseStep DEF AnswerInv
<1>2. ASSUME NEW n \in 1 .. Len(stream), ReadBytes(n) PROVE AnswerInv'
  <2>1. n \in Nat \ {0}
    OBVIOUS
  <2>. QED
    BY <1>1, <1>2, <2>1, AnswerRead
<1>3. CASE RunBatch
  BY <1>1, <1>3, AnswerRun
<1>4. ASSUME got' = got, batches' = batches, out' = out, Open' => Open PROVE AnswerInv'
  <2>1. PICK answered \in Seq(Cmd), dropped \in Seq(Cmd) :
            Accounts(answered, dropped, got, batches, out, Open)
    BY DEF AnswerInv
  <2>2. Accounts(answered, dropped, got', batches', out', Open')
    BY <1>4, <2>1 DEF Accounts
  <2>3. batches' \in Seq(Seq(Cmd))
    BY <1>4 DEF AnswerInv
  <2>. QED
    BY <1>1, <2>2, <2>3 DEF AnswerInv
<1>5. CASE ClientGoes
  <2>1. got' = got /\ batches' = batches /\ out' = out /\ (Open' => Open)
    BY <1>5 DEF ClientGoes, Open, vars
  <2>. QED
    BY <1>4, <2>1
<1>6. CASE UNCHANGED sessionVars
  <2>1. got' = got /\ batches' = batches /\ out' = out /\ (Open' => Open)
    BY <1>6 DEF sessionVars, Open, vars
  <2>. QED
    BY <1>4, <2>1
<1>7. CASE Ended
  BY <1>6, <1>7 DEF Ended
<1>. QED
  BY <1>2, <1>3, <1>5, <1>6, <1>7 DEF SessionNext, ReadSome

-------------------------------------------------------------------------------
(* What the client reads.                                                     *)

(* The answers to the first commands are the first answers.                   *)
LEMMA AnswersPrefix ==
    ASSUME NEW a \in Seq(Cmd), NEW g \in Seq(Cmd), Len(a) <= Len(g),
           \A i \in 1 .. Len(a) : g[i] = a[i]
    PROVE  IsPrefix(Answers(a), Answers(g))
<1>1. /\ Answers(a) \in Seq(WP!Items) /\ Len(Answers(a)) = Len(a)
      /\ \A i \in 1 .. Len(a) : Answers(a)[i] = Answer(a[i])
  BY AnswersTyped
<1>2. /\ Answers(g) \in Seq(WP!Items) /\ Len(Answers(g)) = Len(g)
      /\ \A i \in 1 .. Len(g) : Answers(g)[i] = Answer(g[i])
  BY AnswersTyped
<1>3. Len(a) \in Nat /\ Len(g) \in Nat
  OBVIOUS
<1>. DEFINE x == Answers(a)
            y == SubSeq(Answers(g), 1, Len(Answers(a)))
            V == WP!Items
<1>4. /\ x \in Seq(V) /\ Len(x) = Len(a) /\ \A i \in 1 .. Len(a) : x[i] = Answer(a[i])
  BY <1>1
<1>5. /\ y \in Seq(V) /\ Len(y) = Len(a) /\ \A i \in 1 .. Len(a) : y[i] = Answer(g[i])
  <2>. HIDE DEF V
  <2>. QED
    BY <1>1, <1>2, <1>3 DEF V
<1>. HIDE DEF x, y, V
<1>6. x = y
  BY <1>3, <1>4, <1>5, SeqEqual
<1>. QED
  BY <1>1, <1>2, <1>6, <1>3 DEF x, y, IsPrefix

(* The invariant gives the property.                                          *)
LEMMA AnswerMatches == AnswerInv => RepliesMatch
<1>. SUFFICES ASSUME AnswerInv, Sayable(got)
              PROVE  \E reads \in W!ReadAll(out) :
                         /\ IsPrefix(reads, Answers(got))
                         /\ Len(reads) <= Len(got) - Waiting
                         /\ Open => Len(reads) = Len(got) - Waiting
  BY DEF RepliesMatch
<1>1. got \in Seq(Cmd) /\ batches \in Seq(Seq(Cmd))
  BY GotCommands DEF AnswerInv
<1>2. PICK a \in Seq(Cmd), d \in Seq(Cmd) : Accounts(a, d, got, batches, out, Open)
  BY DEF AnswerInv
<1>. DEFINE w == FlattenSeq(batches)
<1>3. w \in Seq(Cmd) /\ got = Handled(a, d, w) /\ out = ReplyTo(a) /\ (Open => d = <<>>)
  BY <1>1, <1>2, FlattenTyped DEF Accounts
<1>4. Waiting = Len(w)
  BY DEF Waiting
<1>. HIDE DEF w
<1>5. /\ Len(got) = (Len(a) + Len(d)) + Len(w) /\ Len(a) \in Nat /\ Len(d) \in Nat /\ Len(w) \in Nat
      /\ \A i \in 1 .. Len(a) : got[i] = a[i]
  <2>1. /\ a \o d \in Seq(Cmd) /\ Len(a \o d) = Len(a) + Len(d)
        /\ \A i \in 1 .. Len(a) : (a \o d)[i] = a[i]
    BY Added
  <2>. DEFINE b == a \o d
  <2>2. got = b \o w
    BY <1>3 DEF Handled
  <2>3. b \in Seq(Cmd) /\ Len(b) = Len(a) + Len(d) /\ \A i \in 1 .. Len(a) : b[i] = a[i]
    BY <2>1
  <2>. HIDE DEF b
  <2>4. Len(b \o w) = Len(b) + Len(w) /\ \A i \in 1 .. Len(b) : (b \o w)[i] = b[i]
    <3>1. b \in Seq(Cmd) /\ w \in Seq(Cmd)
      BY ONLY <1>3, <2>3
    <3>. QED
      BY ONLY <3>1, Added, SMTT(30)
  <2>5. Len(a) \in Nat /\ Len(d) \in Nat /\ Len(w) \in Nat
    BY <1>3
  <2>6. ASSUME NEW i \in 1 .. Len(a) PROVE got[i] = a[i]
    <3>1. i \in 1 .. Len(b)
      BY <2>3, <2>5
    <3>. QED
      BY <2>2, <2>3, <2>4, <3>1
  <2>. QED
    BY <2>2, <2>3, <2>4, <2>5, <2>6
<1>6. /\ Answers(a) \in Seq(WP!Items) /\ Len(Answers(a)) = Len(a)
      /\ \A i \in 1 .. Len(a) : Answers(a)[i] = Answer(a[i])
  BY AnswersTyped
<1>7. WP!AllReadable(Answers(a))
  <2>1. ASSUME NEW i \in 1 .. Len(a) PROVE WP!OneLine(Answers(a)[i].data)
    <3>1. i \in DOMAIN got /\ got[i] = a[i]
      BY <1>1, <1>5
    <3>2. W!OneLine(Answer(a[i]).data)
      BY <3>1 DEF Sayable
    <3>. QED
      BY <1>6, <3>2, SameOneLine
  <2>. QED
    BY <1>6, <2>1 DEF WP!AllReadable, WP!Readable
<1>8. W!ReadAll(out) = {Answers(a)}
  <2>1. ReplyTo(a) = FlattenSeq(WP!Pieces(Answers(a)))
    BY TaskRepliesAre DEF ReplyTo, TaskReplies
  <2>. QED
    BY <1>3, <1>6, <1>7, <2>1, RepliesRead
<1>9. IsPrefix(Answers(a), Answers(got))
  BY <1>1, <1>5, AnswersPrefix
<1>10. Len(Answers(a)) <= Len(got) - Waiting /\ (Open => Len(Answers(a)) = Len(got) - Waiting)
  <2>1. Open => Len(d) = 0
    BY <1>3
  <2>. QED
    BY <1>4, <1>5, <1>6, <2>1
<1>. QED
  BY <1>8, <1>9, <1>10

(* A client can match replies to commands: at any moment it reads from what   *)
(* it was sent one reply for each command that on_read has parsed and a       *)
(* worker has run, in order and with the name it sent, for all commands and   *)
(* all cuts into reads and batches, unless an unknown name holds an end of    *)
(* line.                                                                      *)
THEOREM ClientsMatchReplies == SessionSpec => []RepliesMatch
BY AnswerInit, AnswerStep, AnswerMatches, PTL DEF SessionSpec
================================================================================
