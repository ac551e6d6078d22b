----------------------------- MODULE MCNavigation -----------------------------
(* Programs of three functions with one, one and two parameters.              *)
EXTENDS Navigation

Op(op) == [op |-> op, callee |-> 0, args |-> <<>>]
other == Op("OTHER")
ret   == Op("RET")
jump  == Op("JUMP")
fork  == Op("BRANCH")
halt  == Op("HALT")
call(f) == [op |-> "CALL", callee |-> f, args |-> <<>>]
through(sizes) == [op |-> "CALL", callee |-> 0, args |-> sizes]

Block(code, next) == [code |-> code, next |-> next]

\* Straight code with up to two calls.
Straight == {<<Block(code \o <<ret>>, <<>>)>> :
    code \in {<<>>, <<other>>} \cup {<<call(f)>> : f \in 1 .. 3}
             \cup {<<other, call(f), other, call(g)>> : f, g \in 1 .. 3}}

\* A call through a pointer: to 2, to 2 and 3, to 1, to nothing; with a function
\* as the second operand, which 3 has a parameter for if the first one fits.
Pointer == {<<Block(<<other, through(sizes), ret>>, <<>>)>> :
    sizes \in {<<4>>, <<4, 8>>, <<1>>, <<8>>, <<1, FunctionArg>>, <<4, FunctionArg>>}}

\* A loop, a block that follows itself, two ways of different cost, a block
\* that nothing leads to.
Loops == UNION {{
    <<Block(<<fork>>, <<2, 3>>), Block(<<other, call(f), jump>>, <<1>>), Block(<<ret>>, <<>>)>>,
    <<Block(<<jump>>, <<2>>), Block(<<other, fork>>, <<2, 3>>), Block(<<call(f), ret>>, <<>>)>>,
    <<Block(<<fork>>, <<2, 3>>), Block(<<other, other, jump>>, <<4>>),
      Block(<<call(f), jump>>, <<4>>), Block(<<call(3), ret>>, <<>>)>>,
    <<Block(<<ret>>, <<>>), Block(<<call(f), jump>>, <<1>>)>>} : f \in 1 .. 3}

\* HALT after a call, in the middle and at the end; alone in a block, too.
Halts == {
    <<Block(<<fork>>, <<2, 3>>), Block(<<call(2), halt>>, <<>>), Block(<<ret>>, <<>>)>>,
    <<Block(<<fork>>, <<2, 3>>), Block(<<ret>>, <<>>), Block(<<call(2), halt>>, <<>>)>>,
    <<Block(<<fork>>, <<2, 3>>), Block(<<other, ret>>, <<>>), Block(<<halt>>, <<>>)>>,
    <<Block(<<halt>>, <<>>), Block(<<ret>>, <<>>)>>}

Short == {c \in Straight : Len(c[1].code) < 4}
Simple == {<<Block(<<ret>>, <<>>)>>, <<Block(<<call(2), ret>>, <<>>)>>}

Bodies(F, G, H) ==
    {<<[params |-> <<1>>, blocks |-> f], [params |-> <<4>>, blocks |-> g],
       [params |-> <<4, 8>>, blocks |-> h]>> : f \in F, g \in G, h \in H}

MCPrograms == Bodies(Straight \cup Pointer \cup Loops, Short, Short)
              \cup Bodies(Short, Loops \cup Halts \cup Pointer, Simple)
              \cup Bodies(Simple, Simple, Halts \cup Loops)
==============================================================================
