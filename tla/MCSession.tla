------------------------------- MODULE MCSession -------------------------------
(* Short commands for TLC: a ping in mixed case, one with a name and arguments *)
(* that look like delimiters, one of them empty, and one with a length of two  *)
(* digits.  A wrong byte is one that begins a terminator, or a digit.           *)
EXTENDS Session

Letter == 112

MCCommands == {<<<<80, 105, 110, 103>>>>,
               <<<<Star, Zero>>, <<>>, <<CR, LF>>>>,
               <<[i \in 1 .. 10 |-> Letter]>>}
MCBytes == {CR, Zero + 1}
================================================================================
