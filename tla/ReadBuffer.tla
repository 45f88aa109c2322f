------------------------------ MODULE ReadBuffer ------------------------------
(*****************************************************************************)
(* The receive buffer of a connection (read_buffer.h, read_buffer.cpp): a    *)
(* string that doubles up to a limit when libuv asks for room, and shrinks   *)
(* back when little of it is used.  The bytes in it are named by what the    *)
(* user of the module puts there; only their order and number matter.        *)
(*                                                                           *)
(* An operator named Op_Variant is a faulty variant of Op that the model     *)
(* checker must tell from Op; nothing else refers to it.                     *)
(*****************************************************************************)
EXTENDS Naturals, Sequences

CONSTANTS MinSize,  \* read_buf_min_size
          MaxSize   \* read_buf_max_size; twice of it must fit in a size_t

ASSUME BufferAssumption ==
    /\ MinSize \in Nat \ {0}
    /\ MaxSize \in Nat
    /\ MinSize <= MaxSize

VARIABLES cap,  \* _buf.size()
          buf   \* the first _size bytes of _buf

bufVars == <<cap, buf>>

BufInit == cap = MinSize /\ buf = <<>>

(* What rounds of doubling in _realloc_if_needed multiply the capacity with,  *)
(* and the capacity after them.                                               *)
Factors == {f \in 1 .. 2 * MaxSize : \E k \in 0 .. MaxSize : f = 2 ^ k}
Doubled(f) == IF cap * f > MaxSize THEN MaxSize ELSE cap * f

(* The loop ends with capacity c, when used bytes are in the buffer. *)
Enough_ShortOfMax(c, used, suggested) == c - used >= suggested \/ 2 * c > MaxSize
Enough(c, used, suggested) == c - used >= suggested \/ c >= MaxSize

(* alloc: the room for libuv, which starts behind the bytes in use. *)
Room == cap - Len(buf)
Alloc(suggested) ==
    /\ \E f \in Factors :
          /\ Enough(Doubled(f), Len(buf), suggested)
          /\ \A g \in Factors : g < f => ~Enough(Doubled(g), Len(buf), suggested)
          /\ cap' = Doubled(f)
    /\ UNCHANGED buf

(* occupy and, if n > 0 of the bytes were parsed, dealloc.  A remainder that  *)
(* needs less than half of the minimum moves to a string of minimum size.     *)
MovesDown_Always(rest) == TRUE
MovesDown(rest) == Len(rest) < MinSize \div 2
Rest_OffByOne(all, n) == SubSeq(all, n, Len(all))
Rest(all, n) == SubSeq(all, n + 1, Len(all))
Fill(bytes, n) ==
    LET all == buf \o bytes
        rest == Rest(all, n) IN
    /\ Len(all) <= cap      \* the assertion of occupy
    /\ buf' = IF n = 0 THEN all ELSE rest
    /\ cap' = IF n > 0 /\ MovesDown(rest) THEN MinSize ELSE cap

(* The bytes fit, and the capacity stays within its limits. *)
Sound == Len(buf) <= cap /\ MinSize <= cap /\ cap <= MaxSize
================================================================================
