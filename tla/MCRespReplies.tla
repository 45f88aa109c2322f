----------------------------- MODULE MCRespReplies -----------------------------
(* Short strings for TLC: empty, with delimiters, and with lengths and numbers *)
(* of one and of two digits.                                                   *)
EXTENDS RespReplies

Letter == 112

MCNames == {Ping, <<80, 105, 78, 103>>, <<112, 105, 110>>, <<>>, <<CR, Plus>>,
            <<Letter, CR, LF, Plus, Letter>>}
MCLines == {<<>>, <<Letter>>, <<Dollar, LF>>}
MCBlobs == {<<>>, <<CR, LF>>, <<Dollar, Zero, CR>>, [i \in 1 .. 11 |-> Letter]}
MCNumbers == {-12, 0, 7, 45}
================================================================================
