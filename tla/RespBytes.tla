------------------------------- MODULE RespBytes -------------------------------
(*****************************************************************************)
(* What requests and replies of RESP have in common: the bytes that types    *)
(* and ends of lines are (resp.h, resp.cpp), and numbers as decimal digits,  *)
(* as std::from_chars reads them and std::to_string writes them.  A byte is  *)
(* its character code.                                                       *)
(*****************************************************************************)
EXTENDS Integers, Sequences, SequencesExt

LF == 10
CR == 13
Dollar == 36
Star == 42
Zero == 48
Digit == Zero .. Zero + 9

(* The number that digits say. *)
ValueOf(digits) == FoldLeft(LAMBDA n, d : 10 * n + d - Zero, 0, digits)

(* The digits of a number that is not negative. *)
Decimal(n) ==
    LET decimal[k \in Nat] ==
            IF k < 10 THEN <<Zero + k>> ELSE Append(decimal[k \div 10], Zero + (k % 10))
    IN  decimal[n]
================================================================================
