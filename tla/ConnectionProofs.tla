--------------------------- MODULE ConnectionProofs ---------------------------
(*****************************************************************************)
(* Proofs about Connection, for every stream of frames, every size of the    *)
(* buffer and every way the stream is cut into reads: the buffer is in step  *)
(* with the stream, only a command that cannot fit is refused, and the       *)
(* connection implements CommandStream.                                      *)
(*                                                                           *)
(* The frames name the positions of their last bytes, which increase, so that*)
(* no sum over frames has to be reasoned about.                              *)
(*****************************************************************************)
EXTENDS Connection, SequenceTheorems, TLAPS

(* What is known of the positions, from StreamAssumption. *)
Placed ==
    /\ stream \in Seq([end : Nat, err : Nat])
    /\ \A i \in 0 .. Len(stream) : End(i) \in Nat
    /\ \A i, j \in 0 .. Len(stream) : i < j => End(i) < End(j)
    /\ \A i \in 1 .. Len(stream) :
          /\ stream[i].err \in Nat
          /\ stream[i].err <= End(i)
          /\ \A j \in 0 .. i - 1 : stream[i].err > 0 => End(j) < stream[i].err

(* The inductive invariant.  Beyond the invariants that are stated of the     *)
(* connection it says that what is dispatched has been received, that a       *)
(* connection is closed when it has a reason, that a command which has come in*)
(* full is dispatched, that no wrong byte has been received unless it is      *)
(* closed for it, and that on_alloc gives no room only at the maximum.        *)
NothingWrong ==
    why # "rejected" => \A i \in 1 .. Len(stream) : stream[i].err \notin 1 .. received

(* The next command of an open connection is incomplete.                      *)
NextIncomplete ==
    cpc # "closed" /\ dispatched < Len(stream) => received < End(dispatched + 1)

IInv ==
    /\ stream \in Streams
    /\ cap \in Nat
    /\ buf \in Seq(Nat)
    /\ TypeOK
    /\ End(dispatched) <= received
    /\ InStep
    /\ cpc = "closed" <=> why # "open"
    /\ cpc = "alloc" /\ Room = 0 => cap = MaxSize
    /\ NextIncomplete
    /\ NothingWrong
    /\ RefusedOnlyIfTooLarge

-------------------------------------------------------------------------------
(* The positions of a stream's frames are natural numbers that increase, and  *)
(* a wrong byte is one of its frame's.                                        *)
LEMMA StreamPlaced == stream \in Streams => Placed
<1>. SUFFICES ASSUME stream \in Streams PROVE Placed
  OBVIOUS
<1>1. stream \in Seq([end : Nat, err : Nat])
  BY StreamAssumption
<1>2. DOMAIN stream = 1 .. Len(stream) /\ Len(stream) \in Nat
  BY <1>1
<1>3. \A i \in 1 .. Len(stream) : stream[i] \in [end : Nat, err : Nat]
  BY <1>1, <1>2, ElementOfSeq
<1>4. \A i \in 1 .. Len(stream) :
        /\ stream[i].end > 0
        /\ stream[i].err <= stream[i].end
        /\ \A j \in 1 .. i - 1 : /\ stream[j].end < stream[i].end
                                 /\ stream[i].err > 0 => stream[j].end < stream[i].err
  BY <1>2, StreamAssumption
<1>5. End(0) = 0 /\ \A i \in 1 .. Len(stream) : End(i) = stream[i].end
  BY <1>2 DEF End
<1>6. \A i \in 0 .. Len(stream) : End(i) \in Nat
  BY <1>2, <1>3, <1>5
<1>7. \A i, j \in 0 .. Len(stream) : i < j => End(i) < End(j)
  <2>. SUFFICES ASSUME NEW i \in 0 .. Len(stream), NEW j \in 0 .. Len(stream), i < j
                PROVE  End(i) < End(j)
    OBVIOUS
  <2>1. CASE i = 0
    BY <2>1, <1>2, <1>4, <1>5
  <2>2. CASE i > 0
    <3>1. j \in 1 .. Len(stream) /\ i \in 1 .. j - 1
      BY <2>2, <1>2
    <3>2. QED
      BY <3>1, <1>2, <1>4, <1>5
  <2>3. QED
    BY <2>1, <2>2, <1>2
<1>8. \A i \in 1 .. Len(stream) :
        /\ stream[i].err \in Nat
        /\ stream[i].err <= End(i)
        /\ \A j \in 0 .. i - 1 : stream[i].err > 0 => End(j) < stream[i].err
  <2>. TAKE i \in 1 .. Len(stream)
  <2>1. stream[i].err \in Nat /\ stream[i].err <= End(i)
    BY <1>3, <1>4, <1>5
  <2>2. ASSUME NEW j \in 0 .. i - 1, stream[i].err > 0 PROVE End(j) < stream[i].err
    <3>1. CASE j = 0
      BY <2>2, <3>1, <1>5
    <3>2. CASE j > 0
      <4>1. j \in 1 .. i - 1 /\ j \in 1 .. Len(stream)
        BY <3>2, <1>2
      <4>2. QED
        BY <2>2, <4>1, <1>4, <1>5
    <3>3. QED
      BY <3>1, <3>2, <1>2
  <2>3. QED
    BY <2>1, <2>2
<1>9. QED
  BY <1>1, <1>6, <1>7, <1>8 DEF Placed

(* Rounds of doubling leave the capacity between what it was and the maximum. *)
LEMMA DoubledBound ==
    ASSUME cap \in Nat, cap <= MaxSize, NEW f \in Factors
    PROVE  Doubled(f) \in cap .. MaxSize
<1>1. f \in Nat /\ 1 <= f
  BY BufferAssumption DEF Factors
<1>2. cap * f \in Nat /\ cap <= cap * f
  BY <1>1
<1>3. QED
  BY <1>2, BufferAssumption DEF Doubled

(* Bytes with consecutive positions behind start: appended, and a front of    *)
(* them taken away.                                                           *)
Bytes(start, n) == [i \in 1 .. n |-> start + i]

(* A stretch of the stream is a sequence of its bytes.                        *)
LEMMA BytesSeq ==
    ASSUME NEW start \in Nat, NEW n \in Nat
    PROVE  Bytes(start, n) \in Seq(Nat) /\ Len(Bytes(start, n)) = n
<1>1. Bytes(start, n) \in [1 .. n -> Nat]
  BY DEF Bytes
<1>2. QED
  BY <1>1

(* Two stretches, one beginning where the other ends, are one.                *)
LEMMA BytesConcat ==
    ASSUME NEW start \in Nat, NEW n \in Nat, NEW k \in Nat
    PROVE  Bytes(start, n) \o Bytes(start + n, k) = Bytes(start, n + k)
<1>. DEFINE x == Bytes(start, n)
            y == Bytes(start + n, k)
            all == x \o y
<1>. start + n \in Nat /\ n + k \in Nat
  OBVIOUS
<1>1. /\ Bytes(start, n) \in Seq(Nat) /\ Len(Bytes(start, n)) = n
      /\ Bytes(start + n, k) \in Seq(Nat) /\ Len(Bytes(start + n, k)) = k
      /\ Bytes(start, n + k) \in Seq(Nat) /\ Len(Bytes(start, n + k)) = n + k
  BY BytesSeq
<1>2. /\ all \in Seq(Nat) /\ Len(all) = n + k
      /\ \A i \in 1 .. n + k :
            all[i] = IF i <= n THEN Bytes(start, n)[i] ELSE Bytes(start + n, k)[i - n]
  <2>1. x \in Seq(Nat) /\ Len(x) = n /\ y \in Seq(Nat) /\ Len(y) = k
    BY <1>1
  <2>. HIDE DEF x, y
  <2>2. /\ all \in Seq(Nat) /\ Len(all) = n + k
        /\ \A i \in 1 .. n + k : all[i] = IF i <= n THEN x[i] ELSE y[i - n]
    BY ONLY <2>1, ConcatProperties
  <2>. QED
    BY <2>2 DEF x, y
<1>. HIDE DEF all
<1>3. \A i \in 1 .. n + k : all[i] = Bytes(start, n + k)[i]
  <2>. SUFFICES ASSUME NEW i \in 1 .. n + k PROVE all[i] = start + i
    BY DEF Bytes
  <2>1. CASE i <= n
    <3>1. i \in 1 .. n
      BY <2>1
    <3>2. Bytes(start, n)[i] = start + i
      BY <3>1 DEF Bytes
    <3>. QED
      BY <1>2, <2>1, <3>2
  <2>2. CASE ~(i <= n)
    <3>1. i - n \in 1 .. k /\ (start + n) + (i - n) = start + i
      BY <2>2
    <3>2. Bytes(start + n, k)[i - n] = (start + n) + (i - n)
      BY <3>1 DEF Bytes
    <3>. QED
      BY <1>2, <2>2, <3>1, <3>2
  <2>. QED
    BY <2>1, <2>2
<1>4. all = Bytes(start, n + k)
  BY <1>1, <1>2, <1>3, SeqEqual
<1>5. QED
  BY <1>4 DEF all

(* What is left of a stretch without its first bytes is a stretch.            *)
LEMMA BytesRest ==
    ASSUME NEW start \in Nat, NEW n \in Nat, NEW k \in 0 .. n
    PROVE  Rest(Bytes(start, n), k) = Bytes(start + k, n - k)
<1>. DEFINE rest == SubSeq(Bytes(start, n), k + 1, n)
<1>. start + k \in Nat /\ n - k \in Nat /\ k \in Nat
  OBVIOUS
<1>1. /\ Bytes(start, n) \in Seq(Nat) /\ Len(Bytes(start, n)) = n
      /\ Bytes(start + k, n - k) \in Seq(Nat) /\ Len(Bytes(start + k, n - k)) = n - k
  BY BytesSeq
<1>2. \A i \in k + 1 .. n : Bytes(start, n)[i] = start + i /\ start + i \in Nat
  BY DEF Bytes
<1>3. /\ rest \in Seq(Nat) /\ Len(rest) = n - k
      /\ \A i \in 1 .. n - k : rest[i] = Bytes(start, n)[k + 1 + i - 1]
  BY <1>2, SubSeqProperties
<1>4. \A i \in 1 .. n - k : rest[i] = Bytes(start + k, n - k)[i]
  BY <1>2, <1>3 DEF Bytes
<1>. HIDE DEF rest
<1>5. rest = Bytes(start + k, n - k)
  BY <1>1, <1>3, <1>4, SeqEqual
<1>6. QED
  BY <1>1, <1>5 DEF rest, Rest

(* occupy and dealloc: a buffer of consecutive bytes that gets the next k     *)
(* bytes and loses p from its front has consecutive bytes again, and they fit.*)
LEMMA FillBytes ==
    ASSUME NEW start \in Nat, NEW n \in Nat, NEW k \in Nat, NEW p \in 0 .. n + k,
           cap \in Nat, MinSize <= cap, cap <= MaxSize,
           buf = Bytes(start, n), Fill(Bytes(start + n, k), p)
    PROVE  /\ buf' = Bytes(start + p, (n + k) - p)
           /\ cap' \in Nat
           /\ Sound'
           /\ buf' \in Seq(Nat)
<1>. DEFINE all == buf \o Bytes(start + n, k)
            rest == Rest(all, p)
<1>. n + k \in Nat /\ start + p \in Nat /\ (n + k) - p \in Nat
  OBVIOUS
<1>1. all = Bytes(start, n + k) /\ Len(all) = n + k
  <2>0. start \in Nat /\ n \in Nat /\ k \in Nat
    OBVIOUS
  <2>1. Bytes(start, n) \o Bytes(start + n, k) = Bytes(start, n + k)
    BY ONLY <2>0, BytesConcat
  <2>2. Len(Bytes(start, n + k)) = n + k
    BY BytesSeq
  <2>3. buf = Bytes(start, n)
    OBVIOUS
  <2>4. QED
    BY ONLY <2>1, <2>2, <2>3
<1>2. rest = Bytes(start + p, (n + k) - p)
  <2>1. Rest(Bytes(start, n + k), p) = Bytes(start + p, (n + k) - p)
    BY BytesRest
  <2>2. rest = Rest(all, p)
    OBVIOUS
  <2>. HIDE DEF all, rest
  <2>3. QED
    BY <2>1, <2>2, <1>1
<1>3. Bytes(start + p, (n + k) - p) \in Seq(Nat) /\ Len(Bytes(start + p, (n + k) - p)) = (n + k) - p
  BY BytesSeq
<1>4. /\ Len(all) <= cap
      /\ buf' = IF p = 0 THEN all ELSE rest
      /\ cap' = IF p > 0 /\ MovesDown(rest) THEN MinSize ELSE cap
  BY DEF Fill
<1>. HIDE DEF all, rest
<1>5. buf' = Bytes(start + p, (n + k) - p)
  BY <1>1, <1>2, <1>4
<1>6. Len(buf') = (n + k) - p
  BY <1>3, <1>5
<1>7. cap' \in Nat /\ MinSize <= cap' /\ cap' <= MaxSize
  BY <1>4, BufferAssumption
<1>8. Len(buf') <= cap'
  <2>1. CASE cap' = cap
    BY <2>1, <1>1, <1>4, <1>6
  <2>2. CASE cap' = MinSize /\ MovesDown(rest)
    BY <2>2, <1>2, <1>3, <1>6, BufferAssumption DEF MovesDown
  <2>3. QED
    BY <2>1, <2>2, <1>4
<1>9. QED
  BY <1>3, <1>5, <1>7, <1>8 DEF Sound

-------------------------------------------------------------------------------
(* What the proofs of the steps need of the invariant.                        *)
LEMMA Known ==
    ASSUME IInv
    PROVE  /\ Placed
           /\ Len(stream) \in Nat /\ dispatched \in 0 .. Len(stream)
           /\ End(dispatched) \in Nat /\ Total \in Nat /\ received \in Nat
           /\ End(dispatched) <= received /\ received <= Total
           /\ cap \in Nat /\ MinSize <= cap /\ cap <= MaxSize
           /\ buf = Bytes(End(dispatched), received - End(dispatched))
           /\ buf \in Seq(Nat) /\ Len(buf) = received - End(dispatched)
<1>1. Placed
  BY StreamPlaced DEF IInv
<1>2. Len(stream) \in Nat /\ dispatched \in 0 .. Len(stream)
  BY <1>1 DEF Placed, IInv, TypeOK
<1>3. End(dispatched) \in Nat /\ Total \in Nat
  BY <1>1, <1>2 DEF Placed, Total
<1>4. received \in Nat /\ End(dispatched) <= received /\ received <= Total
  BY <1>3 DEF IInv, TypeOK
<1>5. cap \in Nat /\ MinSize <= cap /\ cap <= MaxSize
  BY DEF IInv, TypeOK, Sound
<1>6. buf = Bytes(End(dispatched), received - End(dispatched))
  BY DEF IInv, InStep, Bytes
<1>7. received - End(dispatched) \in Nat
  BY <1>3, <1>4
<1>8. buf \in Seq(Nat) /\ Len(buf) = received - End(dispatched)
  BY <1>3, <1>6, <1>7, BytesSeq
<1>9. QED
  BY <1>1, <1>2, <1>3, <1>4, <1>5, <1>6, <1>8

(* The invariant holds of a new connection.                                   *)
LEMMA InitIInv == Init => IInv
<1>. SUFFICES ASSUME Init PROVE IInv
  OBVIOUS
<1>. USE DEF Init, BufInit
<1>1. Placed
  BY StreamPlaced
<1>2. Len(stream) \in Nat /\ 0 \in 0 .. Len(stream) /\ End(dispatched) = 0
  BY <1>1 DEF Placed, End
<1>3. Total \in Nat
  BY <1>1, <1>2 DEF Placed, Total
<1>4. buf = <<>> /\ buf \in Seq(Nat) /\ Len(buf) = 0 /\ cap \in Nat
  BY BufferAssumption
<1>5. TypeOK
  BY <1>2, <1>3, <1>4, BufferAssumption DEF TypeOK, Sound
<1>6. InStep
  <2>1. Bytes(0, 0) \in Seq(Nat) /\ Len(Bytes(0, 0)) = 0
    BY BytesSeq
  <2>2. Bytes(0, 0) = <<>>
    BY <2>1
  <2>3. QED
    BY <1>2, <1>4, <2>2 DEF InStep, Bytes
<1>7. NextIncomplete
  <2>. SUFFICES ASSUME 0 < Len(stream) PROVE 0 < End(1)
    BY DEF NextIncomplete
  <2>1. 0 \in 0 .. Len(stream) /\ 1 \in 0 .. Len(stream) /\ End(0) = 0
    BY <1>2 DEF End
  <2>2. QED
    BY <2>1, <1>1 DEF Placed
<1>8. NothingWrong
  BY <1>1, <1>2 DEF NothingWrong
<1>9. RefusedOnlyIfTooLarge
  BY DEF RefusedOnlyIfTooLarge
<1>10. QED
  BY <1>2, <1>4, <1>5, <1>6, <1>7, <1>8, <1>9 DEF IInv

(* on_alloc keeps the bytes and only enlarges the buffer; there is no room    *)
(* behind them only if it is as large as it may be.                           *)
LEMMA AllocStep == IInv /\ OnAlloc => IInv'
<1>. SUFFICES ASSUME IInv, OnAlloc PROVE IInv'
  OBVIOUS
<1>. USE Known
<1>1. PICK f \in Factors : Enough(Doubled(f), Len(buf), Suggested) /\ cap' = Doubled(f)
  BY DEF OnAlloc, Alloc
<1>2. cap' \in Nat /\ cap <= cap' /\ cap' <= MaxSize
  <2>1. Doubled(f) \in cap .. MaxSize
    BY DoubledBound
  <2>2. QED
    BY <2>1, <1>1, BufferAssumption
<1>3. cap' - Len(buf) >= Suggested \/ cap' >= MaxSize
  BY <1>1 DEF Enough
<1>4. /\ cpc = "idle" /\ cpc' = "alloc"
      /\ buf' = buf /\ stream' = stream /\ received' = received
      /\ dispatched' = dispatched /\ why' = why
  BY DEF OnAlloc, Alloc
<1>5. /\ End(dispatched)' = End(dispatched) /\ Total' = Total
      /\ End(dispatched + 1)' = End(dispatched + 1)
  BY <1>4 DEF End, Total
<1>6. TypeOK'
  BY <1>2, <1>4, <1>5, BufferAssumption DEF IInv, TypeOK, Sound
<1>7. InStep' /\ NextIncomplete' /\ NothingWrong' /\ RefusedOnlyIfTooLarge'
  BY <1>4, <1>5 DEF IInv, InStep, NextIncomplete, NothingWrong, RefusedOnlyIfTooLarge,
                    Length, End
<1>8. Room' = 0 => cap' = MaxSize
  BY <1>2, <1>3, <1>4, StreamAssumption, BufferAssumption DEF Room
<1>9. QED
  BY <1>2, <1>4, <1>5, <1>6, <1>7, <1>8 DEF IInv

(* What on_read makes of the next n bytes when the parser throws: they are    *)
(* all there, and nothing is dispatched.                                      *)
LEMMA RejectStep ==
    ASSUME IInv, NEW n \in 1 .. MaxSize, OnRead(n), Rejects(dispatched, received + n)
    PROVE  IInv' /\ CS!Receive
<1>. USE Known
<1>. n \in Nat /\ n >= 1
  OBVIOUS
<1>1. /\ received' = received + n /\ received + n <= Total
      /\ Fill(Bytes(received, n), 0)
      /\ cpc = "alloc" /\ cpc' = "closed" /\ why' = "rejected"
      /\ stream' = stream /\ dispatched' = dispatched
  BY DEF OnRead, Bytes
<1>2. why = "open"
  BY <1>1 DEF IInv
<1>3. End(dispatched)' = End(dispatched) /\ Total' = Total
  BY <1>1 DEF End, Total
<1>4. /\ buf' = Bytes(End(dispatched), (received + n) - End(dispatched))
      /\ cap' \in Nat /\ Sound' /\ buf' \in Seq(Nat)
  <2>. DEFINE start == End(dispatched)
              had == received - End(dispatched)
  <2>1. start \in Nat /\ had \in Nat /\ start + had = received /\ 0 \in 0 .. had + n
    OBVIOUS
  <2>2. (had + n) - 0 = (received + n) - start /\ start + 0 = start
    OBVIOUS
  <2>3. buf = Bytes(start, had) /\ Fill(Bytes(start + had, n), 0)
    <3>1. buf = Bytes(End(dispatched), received - End(dispatched))
      BY Known
    <3>2. start + had = received
      BY <2>1
    <3>. QED
      BY ONLY <1>1, <3>1, <3>2
  <2>. HIDE DEF start, had
  <2>4. buf' = Bytes(start + 0, (had + n) - 0) /\ cap' \in Nat /\ Sound' /\ buf' \in Seq(Nat)
    <3>1. n \in Nat /\ cap \in Nat /\ MinSize <= cap /\ cap <= MaxSize
      BY Known
    <3>. QED
      BY ONLY <2>1, <2>3, <3>1, FillBytes
  <2>5. QED
    BY <2>2, <2>4 DEF start
<1>5. TypeOK'
  BY <1>1, <1>3, <1>4 DEF TypeOK
<1>6. InStep'
  BY <1>1, <1>3, <1>4 DEF InStep, Bytes
<1>7. NextIncomplete' /\ NothingWrong' /\ RefusedOnlyIfTooLarge'
  BY <1>1 DEF NextIncomplete, NothingWrong, RefusedOnlyIfTooLarge
<1>8. IInv'
  BY <1>1, <1>3, <1>4, <1>5, <1>6, <1>7 DEF IInv
<1>9. CS!Receive
  <2>1. received' \in received + 1 .. CS!End(Len(stream))
    BY <1>1 DEF Total, End, CS!End
  <2>2. CS!WrongIn(received')
    <3>1. PICK i \in dispatched + 1 .. Len(stream) : stream[i].err \in 1 .. received + n
      BY DEF Rejects
    <3>2. i \in DOMAIN stream
      BY <3>1 DEF Placed
    <3>3. QED
      BY <1>1, <3>1, <3>2 DEF CS!WrongIn
  <2>3. QED
    BY <1>1, <1>2, <2>1, <2>2 DEF CS!Receive
<1>10. QED
  BY <1>8, <1>9

(* What it makes of them otherwise: the commands that are complete now are    *)
(* dispatched and their bytes, no others, leave the buffer.                   *)
LEMMA ParseStep ==
    ASSUME IInv, NEW n \in 1 .. MaxSize, OnRead(n), ~Rejects(dispatched, received + n)
    PROVE  IInv' /\ CS!Receive
<1>. USE Known
<1>. n \in Nat /\ n >= 1
  OBVIOUS
<1>1. PICK m \in StopsBehind(dispatched, received + n) :
        Fill(Bytes(received, n), End(m) - End(dispatched)) /\ dispatched' = m
  BY DEF OnRead, Bytes
<1>2. /\ received' = received + n /\ received + n <= Total
      /\ cpc = "alloc" /\ cpc' = "idle"
      /\ stream' = stream /\ why' = why
  BY DEF OnRead
<1>3. why = "open"
  BY <1>2 DEF IInv
<1>4. /\ m \in dispatched .. Len(stream) /\ m \in 0 .. Len(stream)
      /\ End(m) <= received + n
      /\ m < Len(stream) => received + n < End(m + 1)
  BY DEF StopsBehind
<1>5. End(m) \in Nat /\ End(dispatched) <= End(m)
  <2>1. CASE m = dispatched
    BY <2>1
  <2>2. CASE m > dispatched
    BY <2>2, <1>4 DEF Placed
  <2>3. QED
    BY <2>1, <2>2, <1>4
<1>6. /\ End(dispatched)' = End(m) /\ Total' = Total
      /\ End(dispatched + 1)' = End(m + 1)
  BY <1>1, <1>2 DEF End, Total
<1>7. /\ buf' = Bytes(End(m), (received + n) - End(m))
      /\ cap' \in Nat /\ Sound' /\ buf' \in Seq(Nat)
  <2>. DEFINE start == End(dispatched)
              had == received - End(dispatched)
              p == End(m) - End(dispatched)
  <2>1. start \in Nat /\ had \in Nat /\ start + had = received /\ p \in 0 .. had + n
    BY <1>4, <1>5
  <2>2. (had + n) - p = (received + n) - End(m) /\ start + p = End(m)
    BY <1>5
  <2>3. buf = Bytes(start, had) /\ Fill(Bytes(start + had, n), p)
    <3>1. buf = Bytes(End(dispatched), received - End(dispatched))
      BY Known
    <3>2. start + had = received
      BY <2>1
    <3>. QED
      BY ONLY <1>1, <3>1, <3>2
  <2>. HIDE DEF start, had, p
  <2>4. buf' = Bytes(start + p, (had + n) - p) /\ cap' \in Nat /\ Sound' /\ buf' \in Seq(Nat)
    <3>1. n \in Nat /\ cap \in Nat /\ MinSize <= cap /\ cap <= MaxSize
      BY Known
    <3>. QED
      BY ONLY <2>1, <2>3, <3>1, FillBytes
  <2>5. QED
    BY <2>2, <2>4
<1>8. TypeOK'
  BY <1>1, <1>2, <1>3, <1>4, <1>6, <1>7 DEF TypeOK
<1>9. InStep'
  <2>1. buf' = Bytes(End(dispatched)', received' - End(dispatched)')
    BY <1>2, <1>6, <1>7
  <2>2. QED
    BY ONLY <2>1 DEF InStep, Bytes
<1>10. NextIncomplete'
  BY <1>1, <1>2, <1>4, <1>6 DEF NextIncomplete
<1>11. \A i \in 1 .. Len(stream) : stream[i].err \notin 1 .. received + n
  <2>. SUFFICES ASSUME NEW i \in 1 .. Len(stream), stream[i].err \in 1 .. received + n
                PROVE  FALSE
    OBVIOUS
  <2>1. i <= dispatched
    BY DEF Rejects
  <2>2. stream[i].err <= End(i) /\ End(i) \in Nat
    <3>1. Placed /\ i \in 1 .. Len(stream)
      BY Known
    <3>2. Len(stream) \in Nat
      BY <3>1 DEF Placed
    <3>3. i \in 0 .. Len(stream)
      BY ONLY <3>1, <3>2
    <3>. QED
      BY ONLY <3>1, <3>3 DEF Placed
  <2>3. End(i) <= End(dispatched)
    <3>1. CASE i = dispatched
      BY <3>1, <2>2
    <3>2. CASE i < dispatched
      BY <3>2 DEF Placed
    <3>3. QED
      BY <3>1, <3>2, <2>1
  <2>4. stream[i].err \in 1 .. received
    BY <2>2, <2>3
  <2>5. QED
    BY <2>4, <1>3 DEF IInv, NothingWrong
<1>12. NothingWrong' /\ RefusedOnlyIfTooLarge'
  BY <1>2, <1>3, <1>11 DEF NothingWrong, RefusedOnlyIfTooLarge
<1>13. IInv'
  BY <1>2, <1>3, <1>4, <1>6, <1>7, <1>8, <1>9, <1>10, <1>12 DEF IInv
<1>14. CS!Receive
  <2>1. received' \in received + 1 .. CS!End(Len(stream))
    BY <1>2 DEF Total, End, CS!End
  <2>2. ~CS!WrongIn(received')
    <3>1. DOMAIN stream = 1 .. Len(stream)
      BY DEF Placed
    <3>2. QED
      BY <1>2, <1>11, <3>1 DEF CS!WrongIn
  <2>3. dispatched' \in CS!CommandsIn(received')
    BY <1>1, <1>2, <1>4 DEF CS!CommandsIn, CS!End, End
  <2>4. QED
    BY <1>2, <1>3, <2>1, <2>2, <2>3 DEF CS!Receive
<1>15. QED
  BY <1>13, <1>14

(* When on_alloc gave no room, the buffer is as large as it may be and holds  *)
(* nothing but the front of the next command: that one is too long.           *)
LEMMA NoBufsStep == IInv /\ OnReadNoBufs => IInv' /\ CS!Refuse
<1>. SUFFICES ASSUME IInv, OnReadNoBufs PROVE IInv' /\ CS!Refuse
  OBVIOUS
<1>. USE Known
<1>1. /\ cpc = "alloc" /\ cpc' = "closed" /\ why' = "nobufs" /\ Room = 0
      /\ buf' = buf /\ cap' = cap
      /\ stream' = stream /\ received' = received /\ dispatched' = dispatched
  BY DEF OnReadNoBufs, bufVars
<1>2. why = "open" /\ cap = MaxSize
  BY <1>1 DEF IInv
<1>3. received - End(dispatched) = MaxSize /\ MaxSize >= 1
  BY <1>1, <1>2, BufferAssumption DEF Room
<1>4. dispatched < Len(stream)
  <2>. SUFFICES ASSUME dispatched = Len(stream) PROVE FALSE
    OBVIOUS
  <2>1. End(dispatched) = Total
    BY DEF Total
  <2>2. QED
    BY <2>1, <1>3, BufferAssumption
<1>5. received < End(dispatched + 1) /\ End(dispatched + 1) \in Nat
  BY <1>1, <1>4 DEF IInv, NextIncomplete, Placed
<1>6. Length(dispatched + 1) > MaxSize
  BY <1>3, <1>5, BufferAssumption DEF Length
<1>7. CS!Length(dispatched + 1) > MaxSize
  BY <1>6 DEF CS!Length, CS!End, Length, End
<1>8. /\ End(dispatched)' = End(dispatched) /\ Total' = Total
      /\ Length(dispatched + 1)' = Length(dispatched + 1)
  BY <1>1 DEF End, Total, Length
<1>9. TypeOK' /\ InStep' /\ NextIncomplete' /\ NothingWrong' /\ RefusedOnlyIfTooLarge'
  BY <1>1, <1>2, <1>4, <1>6, <1>8 DEF IInv, TypeOK, Sound, InStep, NextIncomplete,
     NothingWrong, RefusedOnlyIfTooLarge
<1>10. IInv'
  BY <1>1, <1>8, <1>9 DEF IInv
<1>11. CS!Refuse
  BY <1>1, <1>2, <1>4, <1>7 DEF CS!Refuse
<1>12. QED
  BY <1>10, <1>11

(* The steps that touch neither the stream nor the buffer: libuv found nothing*)
(* to read, the client is gone, or nothing happens.                           *)
LEMMA QuietStep ==
    ASSUME IInv, OnReadNothing \/ OnReadEof \/ UNCHANGED vars
    PROVE  IInv' /\ (CS!Leave \/ UNCHANGED CS!vars)
<1>. USE Known
<1>1. /\ buf' = buf /\ cap' = cap
      /\ stream' = stream /\ received' = received /\ dispatched' = dispatched
  BY DEF OnReadNothing, OnReadEof, vars, bufVars
<1>2. /\ End(dispatched)' = End(dispatched) /\ Total' = Total /\ Room' = Room
      /\ End(dispatched + 1)' = End(dispatched + 1)
      /\ Length(dispatched + 1)' = Length(dispatched + 1)
  BY <1>1 DEF End, Total, Room, Length
<1>3. CASE OnReadNothing
  <2>1. cpc = "alloc" /\ cpc' = "idle" /\ why' = why
    BY <1>3 DEF OnReadNothing
  <2>2. TypeOK' /\ InStep' /\ NextIncomplete' /\ NothingWrong' /\ RefusedOnlyIfTooLarge'
    BY <1>1, <1>2, <2>1 DEF IInv, TypeOK, Sound, InStep, NextIncomplete,
       NothingWrong, RefusedOnlyIfTooLarge
  <2>3. QED
    BY <1>1, <1>2, <2>1, <2>2 DEF IInv, CS!vars
<1>4. CASE OnReadEof
  <2>1. cpc = "alloc" /\ cpc' = "closed" /\ why = "open" /\ why' = "eof"
    BY <1>4 DEF OnReadEof, IInv
  <2>2. TypeOK' /\ InStep' /\ NextIncomplete' /\ NothingWrong' /\ RefusedOnlyIfTooLarge'
    BY <1>1, <1>2, <2>1 DEF IInv, TypeOK, Sound, InStep, NextIncomplete,
       NothingWrong, RefusedOnlyIfTooLarge
  <2>3. CS!Leave
    BY <1>1, <2>1 DEF CS!Leave
  <2>4. QED
    BY <1>1, <1>2, <2>1, <2>2, <2>3 DEF IInv
<1>5. CASE UNCHANGED vars
  <2>1. cpc' = cpc /\ why' = why
    BY <1>5 DEF vars
  <2>2. TypeOK' /\ InStep' /\ NextIncomplete' /\ NothingWrong' /\ RefusedOnlyIfTooLarge'
    BY <1>1, <1>2, <2>1 DEF IInv, TypeOK, Sound, InStep, NextIncomplete,
       NothingWrong, RefusedOnlyIfTooLarge
  <2>3. QED
    BY <1>1, <1>2, <2>1, <2>2 DEF IInv, CS!vars
<1>6. QED
  BY <1>3, <1>4, <1>5

(* Every step keeps the invariant, and is one of CommandStream or changes     *)
(* nothing that CommandStream sees.                                           *)
LEMMA Step == IInv /\ [Next]_vars => IInv' /\ [CS!Next]_(CS!vars)
<1>. SUFFICES ASSUME IInv, [Next]_vars PROVE IInv' /\ [CS!Next]_(CS!vars)
  OBVIOUS
<1>1. CASE OnAlloc
  <2>1. UNCHANGED CS!vars
    BY <1>1 DEF OnAlloc, CS!vars
  <2>2. QED
    BY <1>1, <2>1, AllocStep
<1>2. CASE ReadBytes
  <2>1. PICK n \in 1 .. MaxSize : OnRead(n)
    BY <1>2 DEF ReadBytes
  <2>2. IInv' /\ CS!Receive
    BY <2>1, RejectStep, ParseStep
  <2>3. QED
    BY <2>2 DEF CS!Next
<1>3. CASE OnReadNoBufs
  BY <1>3, NoBufsStep DEF CS!Next
<1>4. CASE OnReadNothing \/ OnReadEof \/ UNCHANGED vars
  BY <1>4, QuietStep DEF CS!Next
<1>5. QED
  BY <1>1, <1>2, <1>3, <1>4 DEF Next, Closed

-------------------------------------------------------------------------------
(* The inductive invariant. *)
THEOREM Invariance == Spec => []IInv
<1>1. Init => IInv
  BY InitIInv
<1>2. IInv /\ [Next]_vars => IInv'
  BY Step
<1>3. QED
  BY <1>1, <1>2, PTL DEF Spec

(* The types hold, and the assertions of ReadBuffer: its bytes fit and its    *)
(* capacity stays within the limits (read_buffer.cpp).                        *)
THEOREM TypeCorrect == Spec => []TypeOK
<1>1. IInv => TypeOK
  BY DEF IInv
<1>2. QED
  BY <1>1, Invariance, PTL

(* The buffer holds the bytes received behind the last dispatched command, in *)
(* order, whatever is grown, copied or shrunk in between.                     *)
THEOREM AlwaysInStep == Spec => []InStep
<1>1. IInv => InStep
  BY DEF IInv
<1>2. QED
  BY <1>1, Invariance, PTL

(* UV_ENOBUFS closes a connection only for a command above read_buf_max_size, *)
(* however many commands were pipelined before it.                            *)
THEOREM RefusalIsJustified == Spec => []RefusedOnlyIfTooLarge
<1>1. IInv => RefusedOnlyIfTooLarge
  BY DEF IInv
<1>2. QED
  BY <1>1, Invariance, PTL

(* The connection with its bounded buffer implements CommandStream, which has *)
(* none: which commands are dispatched, when, and why the connection is closed*)
(* does not depend on the buffer nor on how the stream is cut into reads.     *)
THEOREM Refinement == Spec => ImplementsCommandStream
<1>1. Init => CS!Init
  BY DEF Init, CS!Init
<1>2. IInv /\ [Next]_vars => [CS!Next]_(CS!vars)
  BY Step
<1>3. QED
  BY <1>1, <1>2, Invariance, PTL DEF Spec, ImplementsCommandStream, CS!Safe

===============================================================================
