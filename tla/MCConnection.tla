----------------------------- MODULE MCConnection -----------------------------
(* Streams of three frames for TLC: shorter than, about as long as and longer  *)
(* than the limit of the buffer, and frames that do not parse.                 *)
EXTENDS Connection

MCFrames == {[len |-> n, err |-> 0] : n \in {1, 4, 6, 14, 15}} \cup {[len |-> 3, err |-> 2]}

(* Frames one behind the other, by the positions of their bytes. *)
MCPlaced(f) ==
    LET end[i \in 0 .. 3] == IF i = 0 THEN 0 ELSE end[i - 1] + f[i].len
    IN  [i \in 1 .. 3 |->
            [end |-> end[i], err |-> IF f[i].err = 0 THEN 0 ELSE end[i - 1] + f[i].err]]
MCStreams == {MCPlaced(f) : f \in [1 .. 3 -> MCFrames]}
================================================================================
