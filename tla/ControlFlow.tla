----------------------------- MODULE ControlFlow ------------------------------
(****************************************************************************)
(* The call graph and the control flow graph of a program.                  *)
(*                                                                          *)
(* A program is a sequence of functions, a function has the sizes of its    *)
(* parameters and a sequence of blocks, a block its code and the blocks     *)
(* that may follow it.  Indices begin at 1 here, at 0 in the code.          *)
(*                                                                          *)
(* A node of the graph is a part of a block that ends in CALL, RET, JUMP or *)
(* BRANCH: all nodes of all blocks of all functions, numbered through.      *)
(****************************************************************************)
EXTENDS Integers, Sequences, FiniteSets, SequencesExt

Instruction == [op     : {"CALL", "RET", "JUMP", "BRANCH", "HALT", "OTHER"},
                callee : Nat,       \* of CALL: a function, 0 through a pointer
                args   : Seq(Int)]  \* of CALL: sizes of the operands passed

\* An operand that is a function: it has no size.
FunctionArg == -1

CodeOf(p, f, b) == p[f].blocks[b].code

\* UNREACHABLE of make_call_graph: through a pointer, a function is passed for a
\* parameter whose size is asked for, as those before it fit.
MeetsFunctionArg(p, i) ==
    i.callee = 0 /\ \E f \in DOMAIN p :
        /\ Len(p[f].params) <= Len(i.args)
        /\ \E k \in DOMAIN p[f].params :
              /\ i.args[k] = FunctionArg
              /\ \A j \in 1 .. k - 1 : p[f].params[j] = i.args[j]

\* make_call_graph: a call through a pointer may reach every function whose
\* parameters have the sizes of the first operands.
Targets(p, i) ==
    IF i.callee # 0 THEN {i.callee}
    ELSE {f \in DOMAIN p :
             /\ Len(p[f].params) <= Len(i.args)
             /\ \A k \in DOMAIN p[f].params : p[f].params[k] = i.args[k]}

----------------------------------------------------------------------------
(* Nodes.                                                                   *)

EndsNode(i) == i.op \in {"CALL", "RET", "JUMP", "BRANCH"}

\* The instructions at which a node ends: function, block, place in the block.
NodeEnds(p) ==
    UNION {UNION {{<<f, b, k>> : k \in {k \in DOMAIN CodeOf(p, f, b) :
                                           EndsNode(CodeOf(p, f, b)[k])}} :
              b \in DOMAIN p[f].blocks} : f \in DOMAIN p}

Earlier(d, e) ==
    \/ d[1] < e[1]
    \/ d[1] = e[1] /\ d[2] < e[2]
    \/ d[1] = e[1] /\ d[2] = e[2] /\ d[3] < e[3]

\* m_nodes: numbered through in the order of the program.
AllNodes(p) ==
    LET ends == NodeEnds(p)
        at(n) == CHOOSE e \in ends : Cardinality({d \in ends : Earlier(d, e)}) = n - 1
        node(e) == [function |-> e[1], block |-> e[2], instr |-> e[3],
                    op |-> CodeOf(p, e[1], e[2])[e[3]].op]
    IN  [n \in 1 .. Cardinality(ends) |-> node(at(n))]

Sorted(S) ==
    [k \in 1 .. Cardinality(S) |->
        CHOOSE n \in S : Cardinality({m \in S : m < n}) = k - 1]

\* The end of the first block of each function: INVARIANT of the constructor.
FirstBlocksHaveNodes(p) ==
    \A f \in DOMAIN p : \E e \in NodeEnds(p) : e[1] = f /\ e[2] = 1

\* FunctionLookup::bbs: the first node of each block and, last, the node behind
\* the function.  A block without nodes has the place of what follows.
BlockStarts(p, nodes, f) ==
    [b \in 1 .. Len(p[f].blocks) + 1 |->
        1 + Cardinality({n \in DOMAIN nodes :
               \/ nodes[n].function < f
               \/ nodes[n].function = f /\ nodes[n].block < b})]

\* FunctionLookup::calls
Calls(nodes, f) ==
    Sorted({n \in DOMAIN nodes : nodes[n].function = f /\ nodes[n].op = "CALL"})

Lookups(p, nodes) ==
    [f \in DOMAIN p |-> [bbs |-> BlockStarts(p, nodes, f), calls |-> Calls(nodes, f)]]

\* Mutant: the successors of BRANCH in the opposite order.
SuccessorsSwapped(p, nodes, lookups, n) ==
    LET f == nodes[n].function
        b == p[f].blocks[nodes[n].block]
        i == b.code[nodes[n].instr] IN
    IF i.op = "CALL" THEN Sorted({lookups[h].bbs[1] : h \in Targets(p, i)})
    ELSE [k \in DOMAIN b.next |-> lookups[f].bbs[b.next[Len(b.next) + 1 - k]]]

\* Node::successors: sorted entries of the callees of a call, the blocks that
\* may follow otherwise.
Successors(p, nodes, lookups, n) ==
    LET f == nodes[n].function
        b == p[f].blocks[nodes[n].block]
        i == b.code[nodes[n].instr] IN
    IF i.op = "CALL" THEN Sorted({lookups[h].bbs[1] : h \in Targets(p, i)})
    ELSE [k \in DOMAIN b.next |-> lookups[f].bbs[b.next[k]]]

----------------------------------------------------------------------------
(* Questions about a graph g: [nodes, succ, lookups].                       *)

IsCall(g, n) == g.nodes[n].op = "CALL"
IsRet(g, n)  == g.nodes[n].op = "RET"

Entry(g, f)   == g.lookups[f].bbs[1]
End(g, f)     == Last(g.lookups[f].bbs)
NodesIn(g, f) == Entry(g, f) .. End(g, f) - 1

\* Mutant: one node too far.
AfterNext(n) == n + 2

\* bb_next: the rest of the block after a call.
BlockNext(n) == n + 1

\* num_instructions: from behind the previous node of the block.
NumInstructions(g, n) ==
    LET node == g.nodes[n] IN
    IF n = g.lookups[node.function].bbs[node.block] THEN node.instr
    ELSE node.instr - g.nodes[n - 1].instr

\* bb_of_instruction: the first node of the block that ends at i or later.
NodeOfInstruction(g, f, b, i) ==
    Min({n \in g.lookups[f].bbs[b] .. g.lookups[f].bbs[b + 1] - 1 : i <= g.nodes[n].instr})

==============================================================================
