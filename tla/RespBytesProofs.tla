---------------------------- MODULE RespBytesProofs ----------------------------
(*****************************************************************************)
(* The bytes that requests and replies are made of: numbers and their        *)
(* decimal digits, pieces of a string of bytes, and strings put one behind   *)
(* the other.                                                                *)
(*                                                                           *)
(* The operators here and in the modules that parse and read are recursive   *)
(* functions in a LET, and FoldLeft, which is one too. What such a function  *)
(* is for every argument is an induction. The library's induction theorems   *)
(* take a predicate as a parameter; here the induction is over a set of      *)
(* numbers, and rests on the least element that a non-empty set of numbers   *)
(* has.                                                                      *)
(*****************************************************************************)
EXTENDS RespBytes, WellFoundedInduction, SequenceTheorems, FiniteSetTheorems, TLAPS

-------------------------------------------------------------------------------
(* Induction.                                                                 *)

(* The order of the numbers, as a relation.                                   *)
Less == {ss \in Nat \X Nat : ss[1] < ss[2]}

(* It has no infinite descent.                                                *)
LEMMA LessWellFounded == IsWellFoundedOn(Less, Nat)
BY NatLessThanWellFounded DEF OpToRel, Less

(* A set of numbers that is not empty has a least one.                        *)
LEMMA FirstIs ==
    ASSUME NEW T, T \subseteq Nat, T # {}
    PROVE  \E n \in T : \A m \in T : n <= m
<1>1. PICK n \in T : \A m \in T : <<m, n>> \notin Less
  BY LessWellFounded, WFMin
<1>2. \A m \in T : n <= m
  <2>1. SUFFICES ASSUME NEW m \in T PROVE n <= m
    OBVIOUS
  <2>2. m \in Nat /\ n \in Nat /\ ~(m < n)
    BY <1>1 DEF Less
  <2>. QED
    BY <2>2
<1>. QED
  BY <1>2

(* Induction over the numbers, the property given as the set of those that    *)
(* have it.                                                                   *)
LEMMA Induction ==
    ASSUME NEW S, 0 \in S, \A n \in Nat : n \in S => n + 1 \in S
    PROVE  Nat \subseteq S
<1>. DEFINE T == Nat \ S
<1>1. SUFFICES ASSUME T # {} PROVE FALSE
  OBVIOUS
<1>2. PICK n \in T : \A m \in T : <<m, n>> \notin Less
  BY <1>1, LessWellFounded, WFMin, T \subseteq Nat
<1>3. n # 0 /\ n \in Nat
  OBVIOUS
<1>4. n - 1 \in Nat /\ n - 1 < n /\ (n - 1) + 1 = n
  BY <1>3
<1>5. <<n - 1, n>> \in Less
  BY <1>3, <1>4 DEF Less
<1>6. n - 1 \in S
  BY <1>2, <1>4, <1>5
<1>. QED
  BY <1>4, <1>6

(* Induction from 0 up to m.                                                  *)
LEMMA BoundedInduction ==
    ASSUME NEW m \in Nat, NEW S, 0 \in S, \A n \in 0 .. m - 1 : n \in S => n + 1 \in S
    PROVE  0 .. m \subseteq S
<1>. DEFINE T == {n \in Nat : n <= m => n \in S}
<1>1. 0 \in T
  OBVIOUS
<1>2. \A n \in Nat : n \in T => n + 1 \in T
  <2>1. SUFFICES ASSUME NEW n \in Nat, n \in T, n + 1 <= m PROVE n + 1 \in S
    OBVIOUS
  <2>2. n \in 0 .. m - 1 /\ n \in S
    BY <2>1
  <2>. QED
    BY <2>2
<1>. HIDE DEF T
<1>3. Nat \subseteq T
  BY <1>1, <1>2, Induction
<1>. QED
  BY <1>3 DEF T

(* Induction from m down to 0.                                                *)
LEMMA DownwardInduction ==
    ASSUME NEW m \in Nat, NEW S, m \in S, \A n \in 0 .. m - 1 : n + 1 \in S => n \in S
    PROVE  0 .. m \subseteq S
<1>. DEFINE T == {n \in Nat : m - n \in S}
<1>1. 0 \in T
  OBVIOUS
<1>2. \A n \in 0 .. m - 1 : n \in T => n + 1 \in T
  <2>1. SUFFICES ASSUME NEW n \in 0 .. m - 1, m - n \in S PROVE m - (n + 1) \in S
    OBVIOUS
  <2>2. m - (n + 1) \in 0 .. m - 1 /\ (m - (n + 1)) + 1 = m - n
    OBVIOUS
  <2>. QED
    BY <2>1, <2>2
<1>. HIDE DEF T
<1>3. 0 .. m \subseteq T
  BY <1>1, <1>2, BoundedInduction
<1>4. SUFFICES ASSUME NEW n \in 0 .. m PROVE n \in S
  OBVIOUS
<1>5. m - n \in 0 .. m /\ m - (m - n) = n
  OBVIOUS
<1>. QED
  BY <1>3, <1>5 DEF T

-------------------------------------------------------------------------------
(* Numbers from digits.                                                       *)

(* FoldLeft in ValueOf, as the function over sets of indices that it is       *)
(* defined by.                                                                *)
Folds(value, t, n) ==
    value = [T \in SUBSET (1 .. n) |->
                IF T = {} THEN 0 ELSE 10 * value[T \ {Max(T)}] + t[Max(T)] - Zero]

(* The maximum of a set of numbers is the element that no other exceeds.      *)
LEMMA MaxIs ==
    ASSUME NEW T, NEW x, T \subseteq Int, x \in T, \A y \in T : y <= x
    PROVE  Max(T) = x
<1>1. \A y \in T : x >= y
  OBVIOUS
<1>2. \E m \in T : \A y \in T : m >= y
  BY <1>1
<1>3. Max(T) \in T /\ \A y \in T : Max(T) >= y
  BY <1>2, Zenon DEF Max
<1>4. Max(T) \in Int /\ x \in Int /\ Max(T) >= x /\ Max(T) <= x
  BY ONLY <1>3, T \subseteq Int, x \in T, \A y \in T : y <= x, Zenon
<1>. QED
  BY ONLY <1>4

(* Such a function exists, so the CHOOSE in the definition chooses one.       *)
LEMMA FoldExists ==
    ASSUME NEW t
    PROVE  \A n \in Nat : \E value : Folds(value, t, n)
<1>. DEFINE S == {n \in Nat : \E value : Folds(value, t, n)}
<1>1. 0 \in S
  <2>. DEFINE g == [T \in SUBSET (1 .. 0) |-> 0]
  <2>1. g = [T \in SUBSET (1 .. 0) |->
                IF T = {} THEN 0 ELSE 10 * g[T \ {Max(T)}] + t[Max(T)] - Zero]
    OBVIOUS
  <2>. HIDE DEF g
  <2>. QED
    BY <2>1 DEF Folds
<1>2. \A n \in Nat : n \in S => n + 1 \in S
  <2>1. SUFFICES ASSUME NEW n \in Nat, NEW g, Folds(g, t, n) PROVE \E value : Folds(value, t, n + 1)
    OBVIOUS
  <2>. DEFINE h == [T \in SUBSET (1 .. n + 1) |->
                      IF n + 1 \in T THEN 10 * g[T \ {n + 1}] + t[n + 1] - Zero ELSE g[T]]
              hh == [T \in SUBSET (1 .. n + 1) |->
                IF T = {} THEN 0 ELSE 10 * h[T \ {Max(T)}] + t[Max(T)] - Zero]
  <2>2. ASSUME NEW T \in SUBSET (1 .. n + 1), n + 1 \in T
        PROVE  h[T] = hh[T]
    <3>1. Max(T) = n + 1
      <4>1. T \subseteq Int /\ \A y \in T : y <= n + 1
        OBVIOUS
      <4>. QED
        BY ONLY <4>1, <2>2, MaxIs
    <3>2. T \ {n + 1} \in SUBSET (1 .. n)
      OBVIOUS
    <3>3. h[T \ {n + 1}] = g[T \ {n + 1}]
      BY <3>2
    <3>. QED
      BY <3>1, <3>3, <2>2
  <2>3. ASSUME NEW T \in SUBSET (1 .. n + 1), n + 1 \notin T
        PROVE  h[T] = hh[T]
    <3>1. T \in SUBSET (1 .. n)
      BY <2>3
    <3>2. h[T] = g[T]
      BY <2>3
    <3>3. g[T] = IF T = {} THEN 0 ELSE 10 * g[T \ {Max(T)}] + t[Max(T)] - Zero
      BY <2>1, <3>1 DEF Folds
    <3>4. T \ {Max(T)} \in SUBSET (1 .. n + 1) /\ n + 1 \notin T \ {Max(T)}
      BY <2>3
    <3>5. h[T \ {Max(T)}] = g[T \ {Max(T)}]
      BY <3>4
    <3>6. hh[T] = IF T = {} THEN 0 ELSE 10 * h[T \ {Max(T)}] + t[Max(T)] - Zero
      OBVIOUS
    <3>. QED
      BY <3>2, <3>3, <3>5, <3>6
  <2>4. h = hh
    <3>. HIDE DEF h
    <3>1. DOMAIN hh = SUBSET (1 .. n + 1)
      OBVIOUS
    <3>2. h = [T \in SUBSET (1 .. n + 1) |-> h[T]]
      BY DEF h
    <3>3. hh = [T \in SUBSET (1 .. n + 1) |-> hh[T]]
      OBVIOUS
    <3>. HIDE DEF hh
    <3>. QED
      BY <2>2, <2>3, <3>2, <3>3
  <2>. HIDE DEF h
  <2>. QED
    BY <2>4, Zenon DEF Folds
<1>. HIDE DEF S
<1>3. Nat \subseteq S
  BY <1>1, <1>2, Induction
<1>. QED
  BY <1>3 DEF S

(* ValueOf is the value of such a function for all the indices.               *)
LEMMA ValueFolds ==
    ASSUME NEW t, NEW n \in Nat, DOMAIN t = 1 .. n
    PROVE  \E value : Folds(value, t, n) /\ ValueOf(t) = value[1 .. n]
<1>. DEFINE value == CHOOSE value : Folds(value, t, n)
<1>1. Folds(value, t, n)
  BY FoldExists
<1>2. ValueOf(t) = value[1 .. n]
  BY DEF ValueOf, FoldLeft, MapThenFoldSet, Folds
<1>. QED
  BY <1>1, <1>2

(* ValueOf digit by digit: each one adds to ten times the number so far.      *)
LEMMA ValueSteps ==
    ASSUME NEW t, NEW n \in Nat, DOMAIN t = 1 .. n
    PROVE  \E w : /\ w[0] = 0
                  /\ \A k \in 0 .. n - 1 : w[k + 1] = 10 * w[k] + t[k + 1] - Zero
                  /\ ValueOf(t) = w[n]
<1>1. PICK value : Folds(value, t, n) /\ ValueOf(t) = value[1 .. n]
  BY ValueFolds
<1>. DEFINE w == [k \in 0 .. n |-> value[1 .. k]]
<1>2. w[0] = 0
  <2>1. 1 .. 0 = {} /\ {} \in SUBSET (1 .. n)
    OBVIOUS
  <2>. QED
    BY <1>1, <2>1 DEF Folds
<1>3. ASSUME NEW k \in 0 .. n - 1
      PROVE  w[k + 1] = 10 * w[k] + t[k + 1] - Zero
  <2>1. 1 .. k + 1 \in SUBSET (1 .. n) /\ 1 .. k + 1 # {} /\ (1 .. k + 1) \ {k + 1} = 1 .. k
    OBVIOUS
  <2>2. Max(1 .. k + 1) = k + 1
    <3>1. 1 .. k + 1 \subseteq Int /\ k + 1 \in 1 .. k + 1 /\ \A y \in 1 .. k + 1 : y <= k + 1
      OBVIOUS
    <3>. QED
      BY ONLY <3>1, MaxIs
  <2>3. value[1 .. k + 1] = 10 * value[(1 .. k + 1) \ {Max(1 .. k + 1)}] + t[Max(1 .. k + 1)] - Zero
    BY <1>1, <2>1 DEF Folds
  <2>4. value[1 .. k + 1] = 10 * value[1 .. k] + t[k + 1] - Zero
    BY <2>1, <2>2, <2>3
  <2>5. k + 1 \in 0 .. n /\ k \in 0 .. n
    OBVIOUS
  <2>. QED
    BY <2>4, <2>5
<1>4. ValueOf(t) = w[n]
  BY <1>1
<1>. HIDE DEF w
<1>. QED
  BY <1>2, <1>3, <1>4

(* Digits say a number.                                                       *)
LEMMA ValueNat ==
    ASSUME NEW t \in Seq(Digit)
    PROVE  ValueOf(t) \in Nat
<1>1. Len(t) \in Nat /\ DOMAIN t = 1 .. Len(t) /\ \A i \in 1 .. Len(t) : t[i] \in Digit
  BY LenProperties, ElementOfSeq
<1>2. PICK w : /\ w[0] = 0
               /\ \A k \in 0 .. Len(t) - 1 : w[k + 1] = 10 * w[k] + t[k + 1] - Zero
               /\ ValueOf(t) = w[Len(t)]
  BY <1>1, ValueSteps
<1>. DEFINE S == {k \in 0 .. Len(t) : w[k] \in Nat}
<1>3. 0 \in S
  BY <1>1, <1>2
<1>4. \A k \in 0 .. Len(t) - 1 : k \in S => k + 1 \in S
  <2>1. SUFFICES ASSUME NEW k \in 0 .. Len(t) - 1, w[k] \in Nat
                 PROVE  w[k + 1] \in Nat
    BY <1>1
  <2>2. t[k + 1] \in Digit /\ w[k + 1] = 10 * w[k] + t[k + 1] - Zero
    BY <1>1, <1>2
  <2>3. t[k + 1] - Zero \in Nat
    BY <2>2 DEF Digit, Zero
  <2>4. ASSUME NEW x \in Nat, NEW y \in Nat PROVE 10 * x + y \in Nat
    OBVIOUS
  <2>. QED
    BY ONLY <2>1, <2>2, <2>3, <2>4
<1>. HIDE DEF S
<1>5. 0 .. Len(t) \subseteq S
  BY <1>1, <1>3, <1>4, BoundedInduction
<1>. QED
  BY <1>1, <1>2, <1>5 DEF S

(* A digit says its own value.                                                *)
LEMMA ValueOneDigit ==
    ASSUME NEW a \in 0 .. 9
    PROVE  ValueOf(<<Zero + a>>) = a
<1>. DEFINE t == <<Zero + a>>
<1>1. DOMAIN t = 1 .. 1 /\ t[1] = Zero + a
  OBVIOUS
<1>. HIDE DEF t
<1>2. PICK w : /\ w[0] = 0
               /\ \A k \in 0 .. 1 - 1 : w[k + 1] = 10 * w[k] + t[k + 1] - Zero
               /\ ValueOf(t) = w[1]
  <2>1. 1 \in Nat /\ DOMAIN t = 1 .. 1
    BY <1>1
  <2>. QED
    BY ONLY <2>1, ValueSteps
<1>3. w[1] = 10 * w[0] + t[1] - Zero
  BY <1>2
<1>4. ValueOf(t) = a
  BY <1>1, <1>2, <1>3 DEF Zero
<1>. QED
  BY <1>4 DEF t

-------------------------------------------------------------------------------
(* Pieces of a string.                                                        *)

(* t is what s holds behind its first d bytes.                                *)
InWindow(t, s, d) ==
    /\ d + Len(t) <= Len(s)
    /\ \A i \in 1 .. Len(t) : t[i] = s[i + d]

(* A piece of t is the piece of s that lies d bytes further.                  *)
SamePiece(t, s, d, a, b) == SubSeq(t, a, b) = SubSeq(s, a + d, b + d)

(* So it is when t is in s, behind d bytes.                                   *)
LEMMA PieceInWindow ==
    ASSUME NEW t \in Seq(Nat), NEW s \in Seq(Nat), NEW d \in Nat, InWindow(t, s, d),
           NEW a \in Int, NEW b \in Int, 1 <= a, b <= Len(t)
    PROVE  SamePiece(t, s, d, a, b)
<1>1. t \in Seq(Nat) /\ s \in Seq(Nat) /\ d \in Nat /\ Len(t) \in Nat /\ Len(s) \in Nat
  BY DEF InWindow
<1>2. ASSUME NEW i \in a .. b PROVE t[i] \in Nat /\ t[i] = s[i + d]
  <2>1. i \in 1 .. Len(t)
    BY <1>1
  <2>2. t[i] = s[i + d]
    BY <2>1 DEF InWindow
  <2>. QED
    BY ONLY <1>1, <2>1, <2>2, ElementOfSeq
<1>3. \A i \in a + d .. b + d : s[i] \in Nat
  BY <1>1 DEF InWindow
<1>4. /\ SubSeq(t, a, b) \in Seq(Nat)
      /\ Len(SubSeq(t, a, b)) = IF a <= b THEN b - a + 1 ELSE 0
      /\ \A i \in 1 .. b - a + 1 : SubSeq(t, a, b)[i] = t[a + i - 1]
  <2>1. a \in Int /\ \A i \in a .. b : t[i] \in Nat
    BY <1>2
  <2>. QED
    BY ONLY <2>1, b \in Int, SubSeqProperties
<1>5. /\ SubSeq(s, a + d, b + d) \in Seq(Nat)
      /\ Len(SubSeq(s, a + d, b + d)) = IF a <= b THEN b - a + 1 ELSE 0
      /\ \A i \in 1 .. b - a + 1 : SubSeq(s, a + d, b + d)[i] = s[a + d + i - 1]
  <2>1. a + d \in Int /\ b + d \in Int
    BY <1>1
  <2>2. /\ SubSeq(s, a + d, b + d) \in Seq(Nat)
        /\ Len(SubSeq(s, a + d, b + d)) = IF a + d <= b + d THEN (b + d) - (a + d) + 1 ELSE 0
        /\ \A i \in 1 .. (b + d) - (a + d) + 1 : SubSeq(s, a + d, b + d)[i] = s[a + d + i - 1]
    BY ONLY <2>1, <1>3, SubSeqProperties
  <2>3. (a + d <= b + d <=> a <= b) /\ (b + d) - (a + d) + 1 = b - a + 1
    BY <1>1
  <2>. QED
    BY ONLY <2>2, <2>3
<1>6. ASSUME NEW i \in 1 .. Len(SubSeq(t, a, b))
      PROVE  SubSeq(t, a, b)[i] = SubSeq(s, a + d, b + d)[i]
  <2>1. i \in 1 .. b - a + 1
    BY <1>4
  <2>2. a + i - 1 \in a .. b /\ (a + i - 1) + d = a + d + i - 1
    BY <2>1, <1>1
  <2>. QED
    BY ONLY <1>2, <1>4, <1>5, <2>1, <2>2
<1>7. Len(SubSeq(t, a, b)) = Len(SubSeq(s, a + d, b + d))
  BY ONLY <1>4, <1>5
<1>8. SubSeq(t, a, b) = SubSeq(s, a + d, b + d)
  BY ONLY <1>4, <1>5, <1>6, <1>7, SeqEqual
<1>. QED
  BY <1>8 DEF SamePiece

-------------------------------------------------------------------------------
(* Strings one behind the other.                                              *)

(* FlattenSeq's function: the first i strings, one behind the other.          *)
Flattens(f, ss, n) == f = [i \in 1 .. n |-> IF i = 1 THEN ss[i] ELSE f[i - 1] \o ss[i]]

(* Its values.                                                                *)
LEMMA FlattensValues ==
    ASSUME NEW f, NEW ss, NEW n \in Nat, Flattens(f, ss, n)
    PROVE  \A i \in 1 .. n : f[i] = IF i = 1 THEN ss[i] ELSE f[i - 1] \o ss[i]
<1>. DEFINE ff == [i \in 1 .. n |-> IF i = 1 THEN ss[i] ELSE f[i - 1] \o ss[i]]
<1>1. f = ff
  BY DEF Flattens
<1>2. \A i \in 1 .. n : ff[i] = IF i = 1 THEN ss[i] ELSE f[i - 1] \o ss[i]
  OBVIOUS
<1>. HIDE DEF ff
<1>. QED
  BY <1>1, <1>2

(* There is one for any strings.                                              *)
LEMMA FlattensExists ==
    ASSUME NEW ss
    PROVE  \A n \in Nat : \E f : Flattens(f, ss, n)
<1>. DEFINE S == {n \in Nat : \E f : Flattens(f, ss, n)}
<1>1. 0 \in S
  <2>. DEFINE f == [i \in 1 .. 0 |-> <<>>]
  <2>1. f = [i \in 1 .. 0 |-> IF i = 1 THEN ss[i] ELSE f[i - 1] \o ss[i]]
    OBVIOUS
  <2>. HIDE DEF f
  <2>. QED
    BY <2>1 DEF Flattens
<1>2. ASSUME NEW n \in Nat, n \in S PROVE n + 1 \in S
  <2>1. PICK f : Flattens(f, ss, n)
    BY <1>2
  <2>. DEFINE g == [i \in 1 .. n + 1 |-> IF i = 1 THEN ss[i] ELSE f[i - 1] \o ss[i]]
              gg == [i \in 1 .. n + 1 |-> IF i = 1 THEN ss[i] ELSE g[i - 1] \o ss[i]]
  <2>2. \A i \in 1 .. n : f[i] = IF i = 1 THEN ss[i] ELSE f[i - 1] \o ss[i]
    BY <2>1, FlattensValues
  <2>3. \A i \in 1 .. n : g[i] = f[i]
    BY <2>2
  <2>4. \A i \in 1 .. n + 1 : g[i] = IF i = 1 THEN ss[i] ELSE f[i - 1] \o ss[i]
    OBVIOUS
  <2>5. \A i \in 1 .. n + 1 : gg[i] = IF i = 1 THEN ss[i] ELSE g[i - 1] \o ss[i]
    OBVIOUS
  <2>6. g = [i \in 1 .. n + 1 |-> g[i]] /\ gg = [i \in 1 .. n + 1 |-> gg[i]]
    OBVIOUS
  <2>. HIDE DEF g, gg
  <2>7. ASSUME NEW i \in 1 .. n + 1 PROVE g[i] = gg[i]
    <3>1. CASE i = 1
      BY <2>4, <2>5, <3>1
    <3>2. CASE i # 1
      <4>1. i - 1 \in 1 .. n
        BY <3>2
      <4>. QED
        BY <2>3, <2>4, <2>5, <3>2, <4>1
    <3>. QED
      BY <3>1, <3>2
  <2>8. g = gg
    BY <2>6, <2>7
  <2>9. Flattens(g, ss, n + 1)
    BY <2>8, Zenon DEF Flattens, gg
  <2>. QED
    BY <2>9
<1>. HIDE DEF S
<1>3. Nat \subseteq S
  BY <1>1, <1>2, Induction
<1>. QED
  BY <1>3 DEF S

(* Two functions agree on the first n arguments.                              *)
Agree(f, g, n) == \A i \in 1 .. n : f[i] = g[i]

(* The first n strings make the same, whatever comes behind them.             *)
LEMMA FlattensAgree ==
    ASSUME NEW ss, NEW tt, NEW m \in Nat, NEW n \in Nat, n <= m, NEW f, NEW g,
           Flattens(f, ss, n), Flattens(g, tt, m), Agree(ss, tt, n)
    PROVE  Agree(f, g, n)
<1>1. \A i \in 1 .. n : f[i] = IF i = 1 THEN ss[i] ELSE f[i - 1] \o ss[i]
  BY FlattensValues
<1>2. \A i \in 1 .. m : g[i] = IF i = 1 THEN tt[i] ELSE g[i - 1] \o tt[i]
  BY FlattensValues
<1>. DEFINE S == {i \in 0 .. n : i # 0 => f[i] = g[i]}
<1>3. 0 \in S
  OBVIOUS
<1>4. ASSUME NEW i \in 0 .. n - 1, i \in S PROVE i + 1 \in S
  <2>1. i + 1 \in 1 .. n /\ i + 1 \in 1 .. m /\ (i + 1) - 1 = i /\ i + 1 \in 0 .. n
    OBVIOUS
  <2>2. ss[i + 1] = tt[i + 1]
    BY <2>1 DEF Agree
  <2>3. CASE i = 0
    BY <1>1, <1>2, <2>1, <2>2, <2>3
  <2>4. CASE i # 0
    <3>1. f[i] = g[i] /\ i + 1 # 1
      BY <1>4, <2>4
    <3>2. f[i + 1] = f[i] \o ss[i + 1] /\ g[i + 1] = g[i] \o tt[i + 1]
      BY <1>1, <1>2, <2>1, <3>1
    <3>. QED
      BY <2>1, <2>2, <3>1, <3>2
  <2>. QED
    BY <2>3, <2>4
<1>. HIDE DEF S
<1>5. 0 .. n \subseteq S
  BY <1>3, <1>4, BoundedInduction
<1>. QED
  BY <1>5 DEF S, Agree

(* FlattenSeq of some strings is the last value of such a function.           *)
LEMMA FlattenIs ==
    ASSUME NEW ss, Len(ss) \in Nat \ {0}
    PROVE  \E f : Flattens(f, ss, Len(ss)) /\ FlattenSeq(ss) = f[Len(ss)]
<1>. DEFINE f == CHOOSE f : Flattens(f, ss, Len(ss))
<1>1. Flattens(f, ss, Len(ss))
  BY FlattensExists, Zenon
<1>2. FlattenSeq(ss) = f[Len(ss)]
  BY DEF FlattenSeq, Flattens
<1>. QED
  BY <1>1, <1>2

(* One string more is put behind the others.                                  *)
LEMMA FlattenStep ==
    ASSUME NEW S, NEW ss \in Seq(Seq(S)), NEW k \in 0 .. Len(ss) - 1
    PROVE  FlattenSeq(SubSeq(ss, 1, k + 1)) = FlattenSeq(SubSeq(ss, 1, k)) \o ss[k + 1]
<1>0. k \in Nat /\ k + 1 \in Nat \ {0} /\ Len(ss) \in Nat /\ k + 1 <= Len(ss)
  OBVIOUS
<1>. DEFINE new == SubSeq(ss, 1, k + 1)
            old == SubSeq(ss, 1, k)
<1>1. Len(new) = k + 1 /\ Len(old) = k
  BY <1>0
<1>2. (\A i \in 1 .. k + 1 : new[i] = ss[i]) /\ \A i \in 1 .. k : old[i] = ss[i]
  BY <1>0
<1>3. k = 0 => old = <<>>
  BY SubSeqEmpty
<1>4. ss[k + 1] \in Seq(S)
  <2>1. k + 1 \in 1 .. Len(ss)
    BY <1>0
  <2>. QED
    BY <2>1, ElementOfSeq
<1>. HIDE DEF new, old
<1>5. PICK f : Flattens(f, new, k + 1) /\ FlattenSeq(new) = f[k + 1]
  BY <1>0, <1>1, FlattenIs
<1>6. \A i \in 1 .. k + 1 : f[i] = IF i = 1 THEN new[i] ELSE f[i - 1] \o new[i]
  BY <1>0, <1>5, FlattensValues
<1>7. CASE k = 0
  <2>1. FlattenSeq(new) = ss[1]
    BY <1>0, <1>2, <1>5, <1>6, <1>7
  <2>2. FlattenSeq(old) = <<>>
    BY <1>1, <1>3, <1>7 DEF FlattenSeq
  <2>3. <<>> \o ss[k + 1] = ss[k + 1]
    BY <1>4, ConcatEmptySeq
  <2>4. k + 1 = 1
    BY <1>7
  <2>5. FlattenSeq(new) = FlattenSeq(old) \o ss[k + 1]
    BY <2>1, <2>2, <2>3, <2>4
  <2>. QED
    BY <2>5 DEF new, old
<1>8. CASE k # 0
  <2>1. PICK g : Flattens(g, old, k) /\ FlattenSeq(old) = g[k]
    BY <1>0, <1>1, <1>8, FlattenIs
  <2>2. \A i \in 1 .. k : old[i] = new[i]
    BY <1>0, <1>2
  <2>. DEFINE m == k + 1
  <2>3. k \in Nat /\ k <= m /\ m \in Nat /\ (k + 1) - 1 = k /\ k + 1 # 1
    BY <1>0, <1>8
  <2>a. Flattens(f, new, m)
    BY <1>5
  <2>. HIDE DEF m
  <2>4. \A i \in 1 .. k : g[i] = f[i]
    <3>1. Agree(old, new, k)
      BY <2>2 DEF Agree
    <3>2. Agree(g, f, k)
      BY ONLY <2>1, <2>3, <2>a, <3>1, FlattensAgree
    <3>. QED
      BY <3>2 DEF Agree
  <2>5. g[k] = f[k]
    <3>1. k \in 1 .. k
      BY <1>0, <1>8
    <3>. QED
      BY ONLY <2>4, <3>1
  <2>6. f[k + 1] = f[k] \o new[k + 1]
    <3>1. k + 1 \in 1 .. k + 1
      BY <1>0
    <3>. QED
      BY <1>6, <2>3, <3>1
  <2>7. new[k + 1] = ss[k + 1]
    BY <1>0, <1>2
  <2>8. FlattenSeq(new) = FlattenSeq(old) \o ss[k + 1]
    BY <1>5, <2>1, <2>5, <2>6, <2>7
  <2>. QED
    BY <2>8 DEF new, old
<1>. QED
  BY <1>7, <1>8

(* No strings make the empty string.                                          *)
LEMMA FlattenNothing ==
    ASSUME NEW S, NEW ss \in Seq(Seq(S))
    PROVE  FlattenSeq(SubSeq(ss, 1, 0)) = <<>>
<1>1. SubSeq(ss, 1, 0) = <<>>
  BY SubSeqEmpty
<1>2. Len(<<>>) = 0
  OBVIOUS
<1>. QED
  BY <1>1, <1>2 DEF FlattenSeq

(* The first strings make a string over the same set.                         *)
LEMMA FlattenPrefixTyped ==
    ASSUME NEW S, NEW ss \in Seq(Seq(S))
    PROVE  \A k \in 0 .. Len(ss) : FlattenSeq(SubSeq(ss, 1, k)) \in Seq(S)
<1>. DEFINE T == {k \in 0 .. Len(ss) : FlattenSeq(SubSeq(ss, 1, k)) \in Seq(S)}
<1>0. Len(ss) \in Nat
  OBVIOUS
<1>1. 0 \in T
  <2>1. FlattenSeq(SubSeq(ss, 1, 0)) = <<>>
    BY FlattenNothing
  <2>2. <<>> \in Seq(S) /\ 0 \in 0 .. Len(ss)
    BY <1>0
  <2>. QED
    BY <2>1, <2>2
<1>2. ASSUME NEW k \in 0 .. Len(ss) - 1, k \in T PROVE k + 1 \in T
  <2>1. FlattenSeq(SubSeq(ss, 1, k + 1)) = FlattenSeq(SubSeq(ss, 1, k)) \o ss[k + 1]
    BY FlattenStep
  <2>2. k + 1 \in 1 .. Len(ss) /\ k + 1 \in 0 .. Len(ss)
    BY <1>0
  <2>3. ss[k + 1] \in Seq(S)
    BY <2>2, ElementOfSeq
  <2>4. FlattenSeq(SubSeq(ss, 1, k)) \in Seq(S)
    BY <1>2
  <2>5. FlattenSeq(SubSeq(ss, 1, k)) \o ss[k + 1] \in Seq(S)
    BY <2>3, <2>4, ConcatProperties
  <2>. QED
    BY <2>1, <2>2, <2>5
<1>. HIDE DEF T
<1>3. 0 .. Len(ss) \subseteq T
  BY <1>0, <1>1, <1>2, BoundedInduction
<1>. QED
  BY <1>3 DEF T

(* So do all of them.                                                         *)
LEMMA FlattenTyped ==
    ASSUME NEW S, NEW ss \in Seq(Seq(S))
    PROVE  FlattenSeq(ss) \in Seq(S)
<1>1. SubSeq(ss, 1, Len(ss)) = ss /\ Len(ss) \in 0 .. Len(ss)
  BY SubSeqFull
<1>. QED
  BY <1>1, FlattenPrefixTyped

-----------------------------------------------------------------------------

-------------------------------------------------------------------------------
(* Digits from numbers.                                                       *)

(* The body of the recursion in Decimal.                                      *)
DecimalStep(f, k) == IF k < 10 THEN <<Zero + k>> ELSE Append(f[k \div 10], Zero + (k % 10))

(* A function that follows it for the numbers up to n.                        *)
DecimalUpTo(f, n) == f = [k \in 0 .. n |-> DecimalStep(f, k)]

(* A function that follows it for all numbers: what Decimal chooses.          *)
DecimalAll(f) == f = [k \in Nat |-> DecimalStep(f, k)]

(* Two functions agree on the numbers up to n.                                *)
SameUpTo(f, g, n) == \A i \in 0 .. n : f[i] = g[i]

(* Division by ten leaves a smaller number and a digit.                       *)
LEMMA Tenth ==
    ASSUME NEW k \in Nat, ~(k < 10)
    PROVE  k \div 10 \in 0 .. k - 1 /\ k \div 10 \in Nat /\ k % 10 \in 0 .. 9
           /\ k = 10 * (k \div 10) + (k % 10)
OBVIOUS

(* The recursion looks only at smaller numbers.                               *)
LEMMA SameStep ==
    ASSUME NEW f, NEW g, NEW k \in Nat, SameUpTo(f, g, k - 1)
    PROVE  DecimalStep(f, k) = DecimalStep(g, k)
<1>1. CASE k < 10
  BY <1>1 DEF DecimalStep
<1>2. CASE ~(k < 10)
  <2>1. k \div 10 \in 0 .. k - 1
    BY <1>2, Tenth
  <2>2. f[k \div 10] = g[k \div 10]
    BY <2>1 DEF SameUpTo
  <2>. QED
    BY <2>2 DEF DecimalStep
<1>. QED
  BY <1>1, <1>2

(* The values of a function that follows it up to n.                          *)
LEMMA DecimalUpToValues ==
    ASSUME NEW f, NEW n \in Nat, DecimalUpTo(f, n)
    PROVE  \A k \in 0 .. n : f[k] = DecimalStep(f, k)
BY DEF DecimalUpTo

(* Such a function can be extended by one number,                             *)
LEMMA DecimalExtends ==
    ASSUME NEW n \in Nat, NEW g, DecimalUpTo(g, n)
    PROVE  \E h : DecimalUpTo(h, n + 1)
<1>. DEFINE h == [k \in 0 .. n + 1 |-> DecimalStep(g, k)]
            hh == [k \in 0 .. n + 1 |-> DecimalStep(h, k)]
<1>1. \A k \in 0 .. n : g[k] = DecimalStep(g, k)
  BY DecimalUpToValues
<1>2. \A k \in 0 .. n : h[k] = g[k]
  BY <1>1
<1>3. (\A k \in 0 .. n + 1 : h[k] = DecimalStep(g, k))
      /\ \A k \in 0 .. n + 1 : hh[k] = DecimalStep(h, k)
  OBVIOUS
<1>4. h = [k \in 0 .. n + 1 |-> h[k]] /\ hh = [k \in 0 .. n + 1 |-> hh[k]]
  OBVIOUS
<1>. HIDE DEF h, hh
<1>5. ASSUME NEW k \in 0 .. n + 1 PROVE h[k] = hh[k]
  <2>1. k \in Nat /\ \A i \in 0 .. k - 1 : i \in 0 .. n
    OBVIOUS
  <2>2. SameUpTo(g, h, k - 1)
    BY <1>2, <2>1 DEF SameUpTo
  <2>3. DecimalStep(g, k) = DecimalStep(h, k)
    BY <2>1, <2>2, SameStep
  <2>. QED
    BY <1>3, <2>3
<1>6. h = hh
  BY <1>4, <1>5
<1>7. h = [k \in 0 .. n + 1 |-> DecimalStep(h, k)]
  BY <1>6 DEF hh
<1>. QED
  BY <1>7 DEF DecimalUpTo

(* so there is one for every n,                                               *)
LEMMA DecimalExists == \A n \in Nat : \E f : DecimalUpTo(f, n)
<1>. DEFINE S == {n \in Nat : \E f : DecimalUpTo(f, n)}
<1>1. 0 \in S
  <2>. DEFINE g == [k \in 0 .. 0 |-> <<Zero + k>>]
  <2>1. \A k \in 0 .. 0 : k < 10
    OBVIOUS
  <2>2. \A k \in 0 .. 0 : DecimalStep(g, k) = <<Zero + k>>
    BY <2>1 DEF DecimalStep
  <2>3. g = [k \in 0 .. 0 |-> DecimalStep(g, k)]
    <3>1. [k \in 0 .. 0 |-> DecimalStep(g, k)] = [k \in 0 .. 0 |-> <<Zero + k>>]
      BY <2>2
    <3>. QED
      BY <3>1
  <2>. HIDE DEF g
  <2>. QED
    BY <2>3 DEF DecimalUpTo
<1>2. \A n \in Nat : n \in S => n + 1 \in S
  BY DecimalExtends
<1>. HIDE DEF S
<1>3. Nat \subseteq S
  BY <1>1, <1>2, Induction
<1>. QED
  BY <1>3 DEF S

(* any two of them agree as far as both go,                                   *)
LEMMA DecimalAgree ==
    ASSUME NEW m \in Nat, NEW n \in Nat, m <= n,
           NEW g, DecimalUpTo(g, m), NEW h, DecimalUpTo(h, n)
    PROVE  SameUpTo(g, h, m)
<1>. DEFINE S == {i \in 0 .. m : SameUpTo(g, h, i)}
<1>1. \A k \in 0 .. m : g[k] = DecimalStep(g, k)
  BY DecimalUpToValues
<1>2. \A k \in 0 .. n : h[k] = DecimalStep(h, k)
  BY ONLY n \in Nat, DecimalUpTo(h, n), DecimalUpToValues
<1>3. ASSUME NEW i \in 0 .. m, SameUpTo(g, h, i - 1) PROVE SameUpTo(g, h, i)
  <2>1. i \in Nat /\ i \in 0 .. n /\ \A j \in 0 .. i : j = i \/ j \in 0 .. i - 1
    OBVIOUS
  <2>2. DecimalStep(g, i) = DecimalStep(h, i)
    BY <1>3, <2>1, SameStep
  <2>3. g[i] = h[i]
    BY <1>1, <1>2, <2>1, <2>2
  <2>. QED
    BY <1>3, <2>1, <2>3 DEF SameUpTo
<1>4. 0 \in S
  <2>1. 0 \in 0 .. m /\ 0 .. 0 - 1 = {}
    OBVIOUS
  <2>2. SameUpTo(g, h, 0 - 1)
    BY <2>1 DEF SameUpTo
  <2>3. SameUpTo(g, h, 0)
    BY <1>3, <2>1, <2>2
  <2>. QED
    BY <2>1, <2>3
<1>5. ASSUME NEW i \in 0 .. m - 1, i \in S PROVE i + 1 \in S
  <2>1. i + 1 \in 0 .. m /\ (i + 1) - 1 = i
    OBVIOUS
  <2>. DEFINE j == i + 1
  <2>2. SameUpTo(g, h, j - 1) /\ j \in 0 .. m
    BY <1>5, <2>1
  <2>. HIDE DEF j
  <2>3. SameUpTo(g, h, j)
    BY <1>3, <2>2
  <2>. QED
    BY <2>2, <2>3 DEF j
<1>. HIDE DEF S
<1>6. 0 .. m \subseteq S
  BY <1>4, <1>5, BoundedInduction
<1>7. m \in S
  <2>1. m \in 0 .. m
    OBVIOUS
  <2>. QED
    BY <1>6, <2>1
<1>. QED
  BY <1>7 DEF S

(* and together they are one for all numbers.                                 *)
LEMMA DecimalDefined == \E f : DecimalAll(f)
<1>. DEFINE G(n) == CHOOSE g : DecimalUpTo(g, n)
            f == [n \in Nat |-> G(n)[n]]
            ff == [n \in Nat |-> DecimalStep(f, n)]
<1>1. \A n \in Nat : DecimalUpTo(G(n), n)
  BY DecimalExists, Zenon
<1>. HIDE DEF G
<1>2. ASSUME NEW n \in Nat PROVE f[n] = ff[n]
  <2>1. DecimalUpTo(G(n), n)
    BY <1>1
  <2>2. G(n)[n] = DecimalStep(G(n), n)
    <3>1. n \in 0 .. n
      OBVIOUS
    <3>. QED
      BY <2>1, <3>1, DecimalUpToValues
  <2>3. ASSUME NEW i \in 0 .. n - 1 PROVE G(n)[i] = f[i]
    <3>1. i \in Nat /\ i <= n /\ i \in 0 .. i
      OBVIOUS
    <3>2. DecimalUpTo(G(i), i)
      BY <1>1, <3>1
    <3>3. SameUpTo(G(i), G(n), i)
      BY <2>1, <3>1, <3>2, DecimalAgree
    <3>4. G(i)[i] = G(n)[i]
      BY <3>1, <3>3 DEF SameUpTo
    <3>. QED
      BY <3>1, <3>4
  <2>4. f[n] = G(n)[n] /\ ff[n] = DecimalStep(f, n)
    OBVIOUS
  <2>. HIDE DEF f, ff
  <2>5. SameUpTo(G(n), f, n - 1)
    BY <2>3 DEF SameUpTo
  <2>6. DecimalStep(G(n), n) = DecimalStep(f, n)
    BY <2>5, SameStep
  <2>. QED
    BY <2>2, <2>4, <2>6
<1>3. f = [n \in Nat |-> f[n]] /\ ff = [n \in Nat |-> ff[n]]
  OBVIOUS
<1>4. f = ff
  <2>. HIDE DEF f, ff
  <2>. QED
    BY <1>2, <1>3
<1>. HIDE DEF f
<1>. QED
  BY <1>4, Zenon DEF DecimalAll

(* Decimal satisfies its recursion.                                           *)
LEMMA DecimalSteps ==
    /\ \A k \in 0 .. 9 : Decimal(k) = <<Zero + k>>
    /\ \A k \in Nat : ~(k < 10) => Decimal(k) = Append(Decimal(k \div 10), Zero + (k % 10))
<1>. DEFINE f == CHOOSE f : DecimalAll(f)
<1>1. DecimalAll(f)
  BY DecimalDefined, Zenon
<1>2. \A k : Decimal(k) = f[k]
  BY DEF Decimal, DecimalAll, DecimalStep
<1>. HIDE DEF f
<1>. DEFINE ff == [k \in Nat |-> DecimalStep(f, k)]
<1>3. f = ff
  BY <1>1 DEF DecimalAll
<1>4. \A k \in Nat : ff[k] = DecimalStep(f, k)
  OBVIOUS
<1>. HIDE DEF ff
<1>5. \A k \in Nat : f[k] = DecimalStep(f, k)
  BY <1>3, <1>4
<1>6. ASSUME NEW k \in 0 .. 9 PROVE Decimal(k) = <<Zero + k>>
  <2>1. k \in Nat /\ k < 10
    OBVIOUS
  <2>. QED
    BY <1>2, <1>5, <2>1 DEF DecimalStep
<1>7. ASSUME NEW k \in Nat, ~(k < 10) PROVE Decimal(k) = Append(Decimal(k \div 10), Zero + (k % 10))
  BY <1>2, <1>5, <1>7 DEF DecimalStep
<1>. QED
  BY <1>6, <1>7

(* One digit more, one step more.                                             *)
LEMMA ValueAppend ==
    ASSUME NEW t \in Seq(Digit), NEW c \in Digit
    PROVE  ValueOf(Append(t, c)) = 10 * ValueOf(t) + c - Zero
<1>. DEFINE u == Append(t, c)
            n == Len(t)
<1>1. u \in Seq(Digit) /\ Len(u) = n + 1 /\ (\A i \in 1 .. n : u[i] = t[i]) /\ u[n + 1] = c
      /\ n \in Nat
  BY AppendProperties
<1>2. DOMAIN t = 1 .. n /\ DOMAIN u = 1 .. n + 1 /\ n + 1 \in Nat
  BY <1>1, LenProperties
<1>. HIDE DEF u, n
<1>3. PICK w : /\ w[0] = 0
               /\ \A k \in 0 .. n - 1 : w[k + 1] = 10 * w[k] + t[k + 1] - Zero
               /\ ValueOf(t) = w[n]
  BY <1>1, <1>2, ValueSteps
<1>4. PICK z : /\ z[0] = 0
               /\ \A k \in 0 .. (n + 1) - 1 : z[k + 1] = 10 * z[k] + u[k + 1] - Zero
               /\ ValueOf(u) = z[n + 1]
  BY <1>2, ValueSteps
<1>. DEFINE S == {k \in 0 .. n : w[k] = z[k]}
<1>5. 0 \in S
  BY <1>1, <1>3, <1>4
<1>6. ASSUME NEW k \in 0 .. n - 1, k \in S PROVE k + 1 \in S
  <2>1. k + 1 \in 1 .. n /\ k \in 0 .. (n + 1) - 1 /\ k + 1 \in 0 .. n
    BY <1>1
  <2>2. w[k] = z[k] /\ u[k + 1] = t[k + 1]
    BY <1>1, <1>6, <2>1
  <2>3. w[k + 1] = 10 * w[k] + t[k + 1] - Zero /\ z[k + 1] = 10 * z[k] + u[k + 1] - Zero
    BY <1>3, <1>4, <2>1
  <2>. QED
    BY <2>1, <2>2, <2>3
<1>. HIDE DEF S
<1>7. 0 .. n \subseteq S
  BY <1>1, <1>5, <1>6, BoundedInduction
<1>8. w[n] = z[n]
  <2>1. n \in 0 .. n
    BY <1>1
  <2>. QED
    BY <1>7, <2>1 DEF S
<1>9. z[n + 1] = 10 * z[n] + u[n + 1] - Zero
  <2>1. n \in 0 .. (n + 1) - 1
    BY <1>1
  <2>. QED
    BY <1>4, <2>1
<1>. QED
  BY <1>1, <1>3, <1>4, <1>8, <1>9 DEF u

(* std::to_string and std::from_chars fit together: the digits of a number    *)
(* are digits, at least one, and say the number.                              *)
LEMMA DecimalIs ==
    ASSUME NEW n \in Nat
    PROVE  Decimal(n) \in Seq(Digit) /\ Len(Decimal(n)) > 0 /\ ValueOf(Decimal(n)) = n
<1>. DEFINE Good(k) == Decimal(k) \in Seq(Digit) /\ Len(Decimal(k)) > 0 /\ ValueOf(Decimal(k)) = k
            S == {k \in Nat : \A i \in 0 .. k : Good(i)}
<1>1. ASSUME NEW k \in Nat, \A i \in 0 .. k - 1 : Good(i) PROVE Good(k)
  <2>1. CASE k < 10
    <3>1. k \in 0 .. 9
      BY <2>1
    <3>2. Decimal(k) = <<Zero + k>> /\ ValueOf(<<Zero + k>>) = k
      BY <3>1, DecimalSteps, ValueOneDigit
    <3>3. Zero + k \in Digit
      BY <3>1 DEF Digit, Zero
    <3>4. <<Zero + k>> \in Seq(Digit) /\ Len(<<Zero + k>>) > 0
      BY <3>3
    <3>. QED
      BY <3>2, <3>4
  <2>2. CASE ~(k < 10)
    <3>. DEFINE m == k \div 10
                c == Zero + (k % 10)
    <3>1. m \in 0 .. k - 1 /\ m \in Nat /\ k % 10 \in 0 .. 9 /\ k = 10 * m + (k % 10)
      BY <2>2, Tenth
    <3>2. c \in Digit /\ 10 * m + c - Zero = k
      BY <3>1 DEF Digit, Zero
    <3>3. Decimal(k) = Append(Decimal(m), c)
      BY <2>2, DecimalSteps
    <3>4. Good(m)
      BY <1>1, <3>1
    <3>. HIDE DEF m, c
    <3>5. ValueOf(Append(Decimal(m), c)) = 10 * ValueOf(Decimal(m)) + c - Zero
      BY <3>2, <3>4, ValueAppend
    <3>6. Append(Decimal(m), c) \in Seq(Digit) /\ Len(Append(Decimal(m), c)) > 0
      BY <3>2, <3>4
    <3>. QED
      BY <3>2, <3>3, <3>4, <3>5, <3>6
  <2>. QED
    BY <2>1, <2>2
<1>. HIDE DEF Good
<1>2. 0 \in S
  <2>1. Good(0)
    BY <1>1
  <2>. QED
    BY <2>1
<1>3. \A k \in Nat : k \in S => k + 1 \in S
  <2>1. SUFFICES ASSUME NEW k \in Nat, \A i \in 0 .. k : Good(i) PROVE \A i \in 0 .. k + 1 : Good(i)
    OBVIOUS
  <2>2. Good(k + 1)
    <3>1. k + 1 \in Nat /\ (k + 1) - 1 = k
      OBVIOUS
    <3>. QED
      BY <1>1, <2>1, <3>1
  <2>3. \A i \in 0 .. k + 1 : i = k + 1 \/ i \in 0 .. k
    OBVIOUS
  <2>. QED
    BY <2>1, <2>2, <2>3
<1>. HIDE DEF S
<1>4. Nat \subseteq S
  BY <1>2, <1>3, Induction
<1>5. Good(n)
  <2>1. n \in S /\ n \in 0 .. n
    BY <1>4
  <2>. QED
    BY <2>1 DEF S
<1>. QED
  BY <1>5 DEF Good

(* The digits of a number are bytes.                                          *)
LEMMA DecimalTyped ==
    ASSUME NEW n \in Nat
    PROVE  Decimal(n) \in Seq(Nat)
<1>1. Decimal(n) \in Seq(Digit)
  BY DecimalIs
<1>2. Digit \subseteq Nat
  BY DEF Digit, Zero
<1>. QED
  BY <1>1, <1>2, SeqMonotonic

-------------------------------------------------------------------------------
(* More about pieces.                                                         *)

(* What a piece of a string is, byte by byte.                                 *)
LEMMA PieceTyped ==
    ASSUME NEW s \in Seq(Nat), NEW a \in Nat \ {0}, NEW r \in Nat, r <= Len(s), a <= r + 1
    PROVE  /\ SubSeq(s, a, r) \in Seq(Nat) /\ Len(SubSeq(s, a, r)) = (r + 1) - a
           /\ \A i \in 1 .. (r + 1) - a : SubSeq(s, a, r)[i] = s[i + (a - 1)]
<1>1. \A i \in a .. r : s[i] \in Nat
  OBVIOUS
<1>2. /\ SubSeq(s, a, r) \in Seq(Nat)
      /\ Len(SubSeq(s, a, r)) = IF a <= r THEN r - a + 1 ELSE 0
      /\ \A i \in 1 .. r - a + 1 : SubSeq(s, a, r)[i] = s[a + i - 1]
  BY ONLY <1>1, a \in Int, r \in Int, SubSeqProperties
<1>3. (IF a <= r THEN r - a + 1 ELSE 0) = (r + 1) - a /\ r - a + 1 = (r + 1) - a
  OBVIOUS
<1>4. ASSUME NEW i \in 1 .. (r + 1) - a PROVE SubSeq(s, a, r)[i] = s[i + (a - 1)]
  <2>1. i \in 1 .. r - a + 1 /\ a + i - 1 = i + (a - 1)
    OBVIOUS
  <2>. QED
    BY <1>2, <2>1
<1>. QED
  BY <1>2, <1>3, <1>4

(* A piece up to r is in the first r bytes, and ends where they do.           *)
LEMMA PieceOfPrefix ==
    ASSUME NEW s \in Seq(Nat), NEW a \in Nat \ {0}, NEW r \in Nat, r <= Len(s), a <= r + 1
    PROVE  /\ InWindow(SubSeq(s, a, r), s, a - 1) /\ a - 1 \in Nat
           /\ SubSeq(s, 1, r) \in Seq(Nat) /\ Len(SubSeq(s, 1, r)) = r
           /\ InWindow(SubSeq(s, a, r), SubSeq(s, 1, r), a - 1)
           /\ (a - 1) + Len(SubSeq(s, a, r)) = Len(SubSeq(s, 1, r))
<1>. DEFINE t == SubSeq(s, a, r)
            u == SubSeq(s, 1, r)
<1>0. 1 \in Nat \ {0} /\ 1 <= r + 1 /\ a - 1 \in Nat /\ (r + 1) - 1 = r /\ Len(s) \in Nat
  OBVIOUS
<1>1. t \in Seq(Nat) /\ Len(t) = (r + 1) - a /\ \A i \in 1 .. (r + 1) - a : t[i] = s[i + (a - 1)]
  BY PieceTyped
<1>2. u \in Seq(Nat) /\ Len(u) = (r + 1) - 1 /\ \A i \in 1 .. (r + 1) - 1 : u[i] = s[i + (1 - 1)]
  BY <1>0, PieceTyped
<1>. HIDE DEF t, u
<1>3. (a - 1) + Len(t) = r /\ Len(u) = r
  BY <1>1, <1>2
<1>4. ASSUME NEW i \in 1 .. Len(t) PROVE t[i] = s[i + (a - 1)] /\ t[i] = u[i + (a - 1)]
  <2>1. i \in 1 .. (r + 1) - a /\ i + (a - 1) \in 1 .. (r + 1) - 1
        /\ (i + (a - 1)) + (1 - 1) = i + (a - 1)
    BY <1>1
  <2>. QED
    BY <1>1, <1>2, <2>1
<1>. QED
  BY <1>0, <1>2, <1>3, <1>4 DEF InWindow, t, u

(* A shorter beginning of a string is in a longer one.                        *)
LEMMA PrefixOfPrefix ==
    ASSUME NEW s \in Seq(Nat), NEW q \in Nat, NEW r \in Nat, q <= r, r <= Len(s)
    PROVE  /\ SubSeq(s, 1, q) \in Seq(Nat) /\ SubSeq(s, 1, r) \in Seq(Nat)
           /\ InWindow(SubSeq(s, 1, q), SubSeq(s, 1, r), 0)
           /\ InWindow(SubSeq(s, 1, r), s, 0)
<1>. DEFINE t == SubSeq(s, 1, q)
            u == SubSeq(s, 1, r)
<1>0. 1 \in Nat \ {0} /\ 1 <= r + 1 /\ 1 <= q + 1 /\ Len(s) \in Nat /\ q <= Len(s)
  OBVIOUS
<1>1. t \in Seq(Nat) /\ Len(t) = (q + 1) - 1 /\ \A i \in 1 .. (q + 1) - 1 : t[i] = s[i + (1 - 1)]
  BY ONLY <1>0, s \in Seq(Nat), q \in Nat, PieceTyped
<1>2. u \in Seq(Nat) /\ Len(u) = (r + 1) - 1 /\ \A i \in 1 .. (r + 1) - 1 : u[i] = s[i + (1 - 1)]
  BY <1>0, PieceTyped
<1>. HIDE DEF t, u
<1>. QED
  BY <1>0, <1>1, <1>2 DEF InWindow, t, u

(* Two strings are where they were put.                                       *)
LEMMA ConcatWindows ==
    ASSUME NEW t \in Seq(Nat), NEW u \in Seq(Nat)
    PROVE  /\ t \o u \in Seq(Nat) /\ Len(t \o u) = Len(t) + Len(u)
           /\ InWindow(t, t \o u, 0) /\ InWindow(u, t \o u, Len(t))
<1>. DEFINE s == t \o u
<1>1. /\ s \in Seq(Nat) /\ Len(s) = Len(t) + Len(u) /\ Len(t) \in Nat /\ Len(u) \in Nat
      /\ \A i \in 1 .. Len(t) + Len(u) : s[i] = IF i <= Len(t) THEN t[i] ELSE u[i - Len(t)]
  BY ConcatProperties
<1>. HIDE DEF s
<1>2. ASSUME NEW i \in 1 .. Len(t) PROVE t[i] = s[i + 0]
  <2>1. i + 0 = i /\ i \in 1 .. Len(t) + Len(u) /\ i <= Len(t)
    BY <1>1
  <2>. QED
    BY <1>1, <2>1
<1>3. ASSUME NEW i \in 1 .. Len(u) PROVE u[i] = s[i + Len(t)]
  <2>1. i + Len(t) \in 1 .. Len(t) + Len(u) /\ ~(i + Len(t) <= Len(t)) /\ (i + Len(t)) - Len(t) = i
    BY <1>1
  <2>. QED
    BY <1>1, <2>1
<1>4. InWindow(t, s, 0) /\ InWindow(u, s, Len(t))
  BY <1>1, <1>2, <1>3 DEF InWindow
<1>. QED
  BY <1>1, <1>4 DEF s

(* What is in a piece is in what the piece is in.                             *)
LEMMA WindowInWindow ==
    ASSUME NEW t \in Seq(Nat), NEW u \in Seq(Nat), NEW s \in Seq(Nat), NEW d \in Nat, NEW e \in Nat,
           InWindow(t, u, d), InWindow(u, s, e)
    PROVE  InWindow(t, s, d + e)
<1>1. d + Len(t) <= Len(u) /\ e + Len(u) <= Len(s) /\ Len(t) \in Nat /\ Len(u) \in Nat
      /\ Len(s) \in Nat
  BY DEF InWindow
<1>2. ASSUME NEW i \in 1 .. Len(t) PROVE t[i] = s[i + (d + e)]
  <2>1. i + d \in 1 .. Len(u) /\ (i + d) + e = i + (d + e)
    BY <1>1
  <2>2. t[i] = u[i + d] /\ u[i + d] = s[(i + d) + e]
    BY <2>1 DEF InWindow
  <2>. QED
    BY <2>1, <2>2
<1>. QED
  BY <1>1, <1>2 DEF InWindow

(* Each of some strings is at its place in all of them.                       *)
LEMMA FlattenWindow ==
    ASSUME NEW ss \in Seq(Seq(Nat)), NEW k \in 0 .. Len(ss) - 1
    PROVE  /\ ss[k + 1] \in Seq(Nat) /\ FlattenSeq(ss) \in Seq(Nat)
           /\ Len(FlattenSeq(SubSeq(ss, 1, k))) \in Nat
           /\ Len(FlattenSeq(SubSeq(ss, 1, k + 1)))
                  = Len(FlattenSeq(SubSeq(ss, 1, k))) + Len(ss[k + 1])
           /\ InWindow(ss[k + 1], FlattenSeq(ss), Len(FlattenSeq(SubSeq(ss, 1, k))))
<1>. DEFINE F(i) == FlattenSeq(SubSeq(ss, 1, i))
            n == Len(ss)
            all == FlattenSeq(ss)
<1>0. n \in Nat /\ k \in Nat /\ k + 1 \in 1 .. n /\ k + 1 \in 0 .. n /\ k \in 0 .. n
  OBVIOUS
<1>1. all \in Seq(Nat) /\ \A i \in 0 .. n : F(i) \in Seq(Nat)
  BY FlattenTyped, FlattenPrefixTyped
<1>2. \A i \in 0 .. n - 1 : F(i + 1) = F(i) \o ss[i + 1]
  BY FlattenStep
<1>3. F(n) = all
  BY SubSeqFull
<1>4. \A i \in 1 .. n : ss[i] \in Seq(Nat)
  BY ElementOfSeq
<1>. HIDE DEF F, all, n
<1>5. ASSUME NEW i \in 0 .. n - 1
      PROVE  /\ F(i) \in Seq(Nat) /\ F(i + 1) \in Seq(Nat) /\ ss[i + 1] \in Seq(Nat)
             /\ Len(F(i + 1)) = Len(F(i)) + Len(ss[i + 1])
             /\ InWindow(F(i), F(i + 1), 0) /\ InWindow(ss[i + 1], F(i + 1), Len(F(i)))
  <2>1. i \in 0 .. n /\ i + 1 \in 0 .. n /\ i + 1 \in 1 .. n
    BY <1>0
  <2>2. F(i) \in Seq(Nat) /\ F(i + 1) \in Seq(Nat) /\ ss[i + 1] \in Seq(Nat)
    BY <1>1, <1>4, <2>1
  <2>. QED
    BY <1>2, <2>2, ConcatWindows
<1>. DEFINE S == {i \in 0 .. n : InWindow(F(i), all, 0)}
<1>6. n \in S
  <2>1. InWindow(all, all, 0)
    <3>1. Len(all) \in Nat /\ \A i \in 1 .. Len(all) : i + 0 = i
      BY <1>1
    <3>. QED
      BY <3>1 DEF InWindow
  <2>. QED
    BY <1>0, <1>3, <2>1
<1>. HIDE DEF S
<1>7. ASSUME NEW i \in 0 .. n - 1, i + 1 \in S PROVE i \in S
  <2>1. InWindow(F(i), F(i + 1), 0) /\ InWindow(F(i + 1), all, 0) /\ i \in 0 .. n
        /\ F(i) \in Seq(Nat) /\ F(i + 1) \in Seq(Nat) /\ 0 \in Nat /\ 0 + 0 = 0
    <3>1. InWindow(F(i + 1), all, 0)
      BY <1>7 DEF S
    <3>2. i \in 0 .. n
      BY <1>0
    <3>. QED
      BY <1>5, <3>1, <3>2
  <2>2. InWindow(F(i), all, 0 + 0)
    BY <1>1, <2>1, WindowInWindow
  <2>. QED
    BY <2>1, <2>2 DEF S
<1>8. 0 .. n \subseteq S
  BY <1>0, <1>6, <1>7, DownwardInduction
<1>9. InWindow(F(k + 1), all, 0)
  BY <1>0, <1>8 DEF S
<1>10. /\ F(k) \in Seq(Nat) /\ F(k + 1) \in Seq(Nat) /\ ss[k + 1] \in Seq(Nat)
       /\ Len(F(k + 1)) = Len(F(k)) + Len(ss[k + 1])
       /\ InWindow(ss[k + 1], F(k + 1), Len(F(k)))
  <2>1. k \in 0 .. n - 1
    BY <1>0
  <2>. QED
    BY <1>5, <2>1
<1>11. Len(F(k)) \in Nat /\ Len(F(k)) + 0 = Len(F(k))
  BY <1>10
<1>12. InWindow(ss[k + 1], all, Len(F(k)) + 0)
  BY <1>1, <1>9, <1>10, <1>11, WindowInWindow
<1>. QED
  BY <1>1, <1>10, <1>11, <1>12 DEF F, all

-------------------------------------------------------------------------------
(* More about strings one behind the other.                                   *)

(* One element more of a beginning is appended to it.                         *)
LEMMA LongerPrefix ==
    ASSUME NEW S, NEW ss \in Seq(S), NEW k \in 0 .. Len(ss) - 1
    PROVE  SubSeq(ss, 1, k + 1) = Append(SubSeq(ss, 1, k), ss[k + 1])
<1>1. Len(ss) \in Nat /\ k + 1 \in 1 .. Len(ss) /\ 1 \in 1 .. Len(ss) /\ 1 <= (k + 1) + 1
      /\ (k + 1) - 1 = k
  OBVIOUS
<1>. QED
  BY <1>1, SubSeqRecursiveSecond

(* No strings make the empty string.                                          *)
LEMMA FlattenEmpty == FlattenSeq(<<>>) = <<>>
<1>. DEFINE e == <<>>
<1>1. e \in Seq(Seq(Nat)) /\ SubSeq(e, 1, 0) = e
  OBVIOUS
<1>. QED
  BY <1>1, FlattenNothing

(* A string appended is put behind the others.                                *)
LEMMA FlattenAppend ==
    ASSUME NEW S, NEW ss \in Seq(Seq(S)), NEW t \in Seq(S)
    PROVE  FlattenSeq(Append(ss, t)) = FlattenSeq(ss) \o t
<1>. DEFINE n == Len(ss)
            more == Append(ss, t)
            V == Seq(S)
<1>. HIDE DEF V
<1>0. ss \in Seq(V) /\ t \in V
  BY DEF V
<1>1. n \in Nat /\ more \in Seq(V) /\ Len(more) = n + 1 /\ more[n + 1] = t
      /\ SubSeq(more, 1, n) = ss /\ SubSeq(more, 1, n + 1) = more
  BY <1>0
<1>2. n \in 0 .. Len(more) - 1
  BY <1>1
<1>. HIDE DEF more
<1>3. FlattenSeq(SubSeq(more, 1, n + 1)) = FlattenSeq(SubSeq(more, 1, n)) \o more[n + 1]
  BY <1>1, <1>2, FlattenStep DEF V
<1>. QED
  BY <1>1, <1>3 DEF more

(* One string makes itself.                                                   *)
LEMMA FlattenOne ==
    ASSUME NEW S, NEW t \in Seq(S)
    PROVE  FlattenSeq(<<t>>) = t
<1>. DEFINE e == <<>>
<1>1. e \in Seq(Seq(S)) /\ Append(e, t) = <<t>> /\ e \o t = t
  OBVIOUS
<1>2. FlattenSeq(Append(e, t)) = FlattenSeq(e) \o t
  BY <1>1, FlattenAppend
<1>. QED
  BY <1>1, <1>2, FlattenEmpty

(* Strings of two sequences are put one behind the other in turn.             *)
LEMMA FlattenConcat ==
    ASSUME NEW S, NEW ss \in Seq(Seq(S)), NEW tt \in Seq(Seq(S))
    PROVE  FlattenSeq(ss \o tt) = FlattenSeq(ss) \o FlattenSeq(tt)
<1>. DEFINE n == Len(tt)
            V == Seq(S)
            T == {k \in 0 .. n :
                FlattenSeq(ss \o SubSeq(tt, 1, k)) = FlattenSeq(ss) \o FlattenSeq(SubSeq(tt, 1, k))}
<1>. HIDE DEF V
<1>0. ss \in Seq(V) /\ tt \in Seq(V) /\ n \in Nat /\ n \in 0 .. n /\ 0 \in 0 .. n
  BY DEF V
<1>1. \A uu \in Seq(V) : FlattenSeq(uu) \in Seq(S)
  BY FlattenTyped DEF V
<1>2. 0 \in T
  <2>1. SubSeq(tt, 1, 0) = <<>> /\ ss \o <<>> = ss
    BY <1>0
  <2>2. FlattenSeq(ss) \o <<>> = FlattenSeq(ss)
    BY <1>0, <1>1
  <2>. QED
    BY <1>0, <2>1, <2>2, FlattenEmpty
<1>3. ASSUME NEW k \in 0 .. n - 1, k \in T PROVE k + 1 \in T
  <2>. DEFINE u == SubSeq(tt, 1, k)
              x == tt[k + 1]
  <2>1. u \in Seq(V) /\ x \in V /\ ss \o u \in Seq(V) /\ k + 1 \in 0 .. n /\ k \in 0 .. Len(tt) - 1
    BY <1>0
  <2>2. SubSeq(tt, 1, k + 1) = Append(u, x)
    BY <1>0, <2>1, LongerPrefix
  <2>3. FlattenSeq(ss \o u) = FlattenSeq(ss) \o FlattenSeq(u)
    BY <1>3
  <2>. HIDE DEF u, x
  <2>4. ss \o Append(u, x) = Append(ss \o u, x)
    BY <1>0, <2>1
  <2>5. FlattenSeq(Append(u, x)) = FlattenSeq(u) \o x
    BY <2>1, FlattenAppend DEF V
  <2>6. FlattenSeq(Append(ss \o u, x)) = FlattenSeq(ss \o u) \o x
    BY <2>1, FlattenAppend DEF V
  <2>7. FlattenSeq(ss) \in Seq(S) /\ FlattenSeq(u) \in Seq(S) /\ x \in Seq(S)
    BY <1>0, <1>1, <2>1 DEF V
  <2>8. (FlattenSeq(ss) \o FlattenSeq(u)) \o x = FlattenSeq(ss) \o (FlattenSeq(u) \o x)
    BY ONLY <2>7, SMTT(30)
  <2>9. FlattenSeq(ss \o Append(u, x)) = FlattenSeq(ss) \o FlattenSeq(Append(u, x))
    BY ONLY <2>3, <2>4, <2>5, <2>6, <2>8
  <2>. QED
    BY <2>1, <2>2, <2>9
<1>. HIDE DEF T
<1>4. n \in T
  <2>1. 0 .. n \subseteq T
    BY <1>0, <1>2, <1>3, BoundedInduction
  <2>. QED
    BY <1>0, <2>1
<1>5. SubSeq(tt, 1, n) = tt
  BY <1>0
<1>. QED
  BY <1>4, <1>5 DEF T
================================================================================
