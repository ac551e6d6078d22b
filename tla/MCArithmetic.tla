---------------------------- MODULE MCArithmetic ----------------------------
(***************************************************************************)
(* Sizes of 2, 3, 4 and 5 bits: two are narrower than int, one is wider.   *)
(* The program may have any constant of the first three, so the properties *)
(* are checked of every pair of operands there; a variable of one byte     *)
(* receives conditions and one of four bytes the rest.                     *)
(***************************************************************************)
EXTENDS Arithmetic

CONSTANTS flag, word

MCLocal == {flag, word}
MCSize == [l \in MCLocal |-> IF l = flag THEN 1 ELSE 4]
MCWidth == [s \in Sizes |-> CASE s = 1 -> 2 [] s = 2 -> 3 [] s = 4 -> 4 [] s = 8 -> 5]
\* Of the widest, the numbers about zero and about the two extremes.
MCConstant == [s \in Sizes |->
    IF s = 8 THEN (0 .. 3) \union (14 .. 17) \union (29 .. 31)
             ELSE 0 .. 2^MCWidth[s] - 1]
MCFill == [s \in Sizes |-> 2^(MCWidth[s] - 1) + 1]
=============================================================================
