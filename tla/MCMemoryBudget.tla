---------------------------- MODULE MCMemoryBudget ----------------------------
(* A program with a plain function, a variadic one that is called in two      *)
(* ways, and a small memory.                                                  *)
EXTENDS MemoryBudget

MCFixed == <<1>>
MCPlain == [vars |-> <<1, 2>>, variadic |-> <<>>]
MCVariadic == [vars |-> <<1>>, variadic |-> <<1, 2>>]
MCThree == [vars |-> <<>>, variadic |-> <<1, 1, 3>>]
MCFrames == {MCPlain, MCVariadic, MCThree}
==============================================================================
