------------------------------ MODULE Navigation ------------------------------
(****************************************************************************)
(* The navigation graph: costs of moving through a program.                 *)
(*                                                                          *)
(* A cost counts instructions.  The constructor first averages what a call  *)
(* costs, by a recursive pass over the callees, then finds the cheapest way *)
(* between the nodes of each function (Floyd and Warshall), then the costs  *)
(* from each function to those it calls, directly or not, by another        *)
(* recursive pass.  Both passes visit a function once, recursive or not.    *)
(*                                                                          *)
(* A behaviour is one construction: the program is any of Programs, then    *)
(* each iteration of a loop and each call of a recursive function is a step.*)
(****************************************************************************)
EXTENDS ControlFlow

CONSTANTS
    Programs,   \* the programs that are tried
    Infinity    \* INFINITY_COST, the largest cost: 2^32 - 1

ASSUMPTION InfinityAssumption == Infinity \in Nat \ {0}
\* What a program refers to exists.
ASSUMPTION ProgramAssumption ==
    \A p \in Programs :
        /\ p \in Seq([params : Seq(Nat), blocks : Seq([code : Seq(Instruction), next : Seq(Nat)])])
        /\ \A f \in DOMAIN p :
              /\ p[f].blocks # <<>>
              /\ \A b \in DOMAIN p[f].blocks :
                    /\ \A i \in DOMAIN CodeOf(p, f, b) : CodeOf(p, f, b)[i].callee <= Len(p)
                    /\ \A k \in DOMAIN p[f].blocks[b].next :
                          p[f].blocks[b].next[k] \in DOMAIN p[f].blocks
\* The instructions of two nodes are fewer than a uint32_t counts.
ASSUMPTION CodeAssumption ==
    \A p \in Programs : \A f \in DOMAIN p : \A b \in DOMAIN p[f].blocks :
        2 * Len(CodeOf(p, f, b)) <= Infinity

VARIABLES
    program,
    graph,      \* the ControlFlowGraph that NavigationGraph derives from
    phase,      \* the part of the constructor that runs
    stack,      \* calls of update_avg_costs_rec, update_inter_costs_rec
    resolved,   \* resolved_functions
    funcAvg,    \* m_func_avg_costs: function -> cost
    callAvg,    \* m_calls_avg_costs: node of a call -> cost
    intra,      \* m_intra_costs: for each function, pair of nodes -> cost
    loop,       \* compute_intra_costs: the loop that runs and its node
    fromEntry,  \* m_inter_costs: function -> function -> cost
    fromCalls   \* m_inter_costs: node of a call -> function -> cost

vars == <<program, graph, phase, stack, resolved, funcAvg, callAvg, intra, loop,
          fromEntry, fromCalls>>

avgVars   == <<funcAvg, callAvg>>
interVars == <<fromEntry, fromCalls>>
intraVars == <<intra, loop>>

Functions == DOMAIN program
AllCalls == {n \in DOMAIN graph.nodes : IsCall(graph, n)}
Instructions(n) == NumInstructions(graph, n)

CallsOf(f) == graph.lookups[f].calls

\* Additions of uint32_t wrap, sum_costs() saturates.
Plus(x, y) == (x + y) % (Infinity + 1)
SumCosts(x, y) == IF x + y < Infinity THEN x + y ELSE Infinity
Least(x, y) == IF x <= y THEN x ELSE y

Start == [at |-> "start", node |-> 0]
NoGraph == [nodes |-> <<>>, lookups |-> <<>>, succ |-> <<>>]
NoTable == <<>>

Init ==
    /\ program \in Programs
    /\ graph = NoGraph
    /\ phase = "nodes"
    /\ stack = <<>> /\ resolved = {}
    /\ funcAvg = <<>> /\ callAvg = <<>>
    /\ intra = <<>> /\ loop = Start
    /\ fromEntry = <<>> /\ fromCalls = <<>>

Throw == phase' = "exception" /\ UNCHANGED
            <<program, graph, stack, resolved, avgVars, intraVars, interVars>>

\* The call graph can be made, and so can the nodes.
CallsResolved(p) ==
    \A f \in DOMAIN p : \A b \in DOMAIN p[f].blocks : \A i \in Range(CodeOf(p, f, b)) :
        i.op = "CALL" => ~MeetsFunctionArg(p, i)
Buildable(p) == CallsResolved(p) /\ FirstBlocksHaveNodes(p)

\* The nodes and the lookups of the control flow graph.
MakeNodes ==
    /\ phase = "nodes"
    /\ \/ ~Buildable(program) /\ Throw
       \/ /\ Buildable(program)
          /\ \E nodes \in {AllNodes(program)} :
                graph' = [nodes |-> nodes, lookups |-> Lookups(program, nodes), succ |-> <<>>]
          /\ phase' = "edges"
          /\ UNCHANGED <<program, stack, resolved, avgVars, intraVars, interVars>>

\* The initial cost of a function: the instructions of all its nodes.
OwnCost(f) ==
    LET cost[k \in 0 .. Cardinality(NodesIn(graph, f))] ==
            IF k = 0 THEN 0 ELSE Plus(cost[k - 1], Instructions(Entry(graph, f) + k - 1))
    IN  cost[Cardinality(NodesIn(graph, f))]

\* The edges, INVARIANT that each call has one, and the initial costs.
MakeEdges ==
    LET succ(n) == Successors(program, graph.nodes, graph.lookups, n) IN
    /\ phase = "edges"
    /\ \/ (\E n \in AllCalls : succ(n) = <<>>) /\ Throw
       \/ /\ \A n \in AllCalls : succ(n) # <<>>
          /\ graph' = [graph EXCEPT !.succ = [n \in DOMAIN graph.nodes |-> succ(n)]]
          /\ funcAvg' = [f \in Functions |-> OwnCost(f)]
          /\ callAvg' = [n \in AllCalls |-> 0]
          /\ phase' = "avg"
          /\ UNCHANGED <<program, stack, resolved, intraVars, interVars>>

----------------------------------------------------------------------------
(* The recursion over callees, the same in both passes.                     *)

Top == Last(stack)
Call == CallsOf(Top.func)[Top.call]
Callees == graph.succ[Call]
Callee == graph.nodes[Callees[Top.succ]].function

\* Where the recursion of f stands: f.call is the call it looks at, f.succ the
\* callee; 0 in the second pass before the direct callees are entered.
AtCall   == stack # <<>> /\ Top.call <= Len(CallsOf(Top.func))
AtCallee == AtCall /\ Top.succ \in DOMAIN Callees
FirstSucc == IF phase = "avg" THEN 1 ELSE 0

ReplaceTop(f) == stack' = Append(Front(stack), f)
NextCallee == [Top EXCEPT !.succ = @ + 1]

\* Mutant: what the callees of one call cost is counted for the next one, too.
NextCallKeepsSum == [Top EXCEPT !.call = @ + 1, !.succ = FirstSucc]

NextCall == [Top EXCEPT !.call = @ + 1, !.succ = FirstSucc, !.sum = 0]

Enter(f) ==
    /\ resolved' = resolved \cup {f}
    /\ stack' = Append(stack, [func |-> f, call |-> 1, succ |-> FirstSucc, sum |-> 0])
    /\ UNCHANGED <<program, graph, phase, avgVars, intraVars, interVars>>

\* The loop over all functions passes over those that are resolved.
EnterRoot ==
    /\ phase \in {"avg", "inter"} /\ stack = <<>>
    /\ resolved # Functions
    /\ Enter(Min(Functions \ resolved))

EnterCallee ==
    /\ phase \in {"avg", "inter"} /\ AtCallee
    /\ Callee \notin resolved
    /\ Enter(Callee)

Leave ==
    /\ phase \in {"avg", "inter"} /\ stack # <<>> /\ ~AtCall
    /\ stack' = Front(stack)
    /\ UNCHANGED <<program, graph, phase, resolved, avgVars, intraVars, interVars>>

----------------------------------------------------------------------------
(* Average costs.                                                           *)

\* The callee is resolved: by now, or while its own visit still runs.
AvgCallee ==
    /\ phase = "avg" /\ AtCallee /\ Callee \in resolved
    /\ ReplaceTop([NextCallee EXCEPT !.sum = Plus(@, funcAvg[Callee])])
    /\ UNCHANGED <<program, graph, phase, resolved, avgVars, intraVars, interVars>>

AvgCall ==
    /\ phase = "avg" /\ AtCall /\ ~AtCallee
    /\ LET average == Top.sum \div Len(Callees)
           cost    == IF average > 1 THEN average ELSE 1 IN
       /\ callAvg' = [callAvg EXCEPT ![Call] = cost]
       /\ funcAvg' = [funcAvg EXCEPT ![Top.func] = Plus(@, cost)]
    /\ ReplaceTop(NextCall)
    /\ UNCHANGED <<program, graph, phase, resolved, intraVars, interVars>>

AvgDone ==
    /\ phase = "avg" /\ stack = <<>> /\ resolved = Functions
    /\ phase' = "intra" /\ resolved' = {}
    /\ UNCHANGED <<program, graph, stack, avgVars, intraVars, interVars>>

----------------------------------------------------------------------------
(* Costs between the nodes of a function.                                   *)

InGraph(n) == n \in DOMAIN graph.nodes

\* The node after u in its function: the rest of the block after a call.
Onwards(u) == IF IsCall(graph, u) THEN {BlockNext(u)} ELSE Range(graph.succ[u])

\* intra_cost()
Cost(table, u, v) == IF <<u, v>> \in DOMAIN table THEN table[<<u, v>>] ELSE Infinity

\* The cost of an edge as it is entered: RET has no edge of its own, so that
\* its instructions count on the way in.
EdgeCost(u, v) ==
    LET last == IF IsRet(graph, v) THEN Instructions(v) ELSE 0 IN
    IF IsCall(graph, u)
    THEN SumCosts(last, SumCosts(Instructions(u), callAvg[u]))
    ELSE Plus(Instructions(u), last)

Edges(f) == UNION {{u} \X Onwards(u) : u \in NodesIn(graph, f)}

\* The table that Floyd and Warshall start with; node() throws when an edge
\* leads out of the graph.
IntraStart ==
    LET f == Len(intra) + 1 IN
    /\ phase = "intra" /\ loop = Start /\ f \in Functions
    /\ \/ /\ \E e \in Edges(f) : ~InGraph(e[2])
          /\ Throw
       \/ /\ \A e \in Edges(f) : InGraph(e[2])
          /\ intra' = Append(intra,
                [e \in Edges(f) \cup {<<u, u>> : u \in NodesIn(graph, f)} |->
                    IF e \in Edges(f) THEN EdgeCost(e[1], e[2]) ELSE 0])
          /\ loop' = [at |-> "paths", node |-> Entry(graph, f)]
          /\ UNCHANGED <<program, graph, phase, stack, resolved, avgVars, interVars>>

Table == Last(intra)
SetTable(t) == intra' = Append(Front(intra), t)

\* The loops over all nodes of the function, one after the other.
Advance(after) ==
    loop' = IF loop.node + 1 < End(graph, Len(intra))
            THEN [loop EXCEPT !.node = @ + 1]
            ELSE [at |-> after, node |-> Entry(graph, Len(intra))]

\* Ways through x.
FloydWarshall ==
    LET x == loop.node
        N == NodesIn(graph, Len(intra))
        best(e) == Least(Cost(Table, e[1], e[2]),
                         SumCosts(Cost(Table, e[1], x), Cost(Table, x, e[2]))) IN
    /\ phase = "intra" /\ loop.at = "paths"
    /\ SetTable([e \in {e \in N \X N : best(e) # Infinity} |-> best(e)])
    /\ Advance("diagonal")
    /\ UNCHANGED <<program, graph, phase, stack, resolved, avgVars, interVars>>

Replaced(t, e, c) ==
    [d \in (DOMAIN t \ {e}) \cup (IF c = Infinity THEN {} ELSE {e}) |->
        IF d = e THEN c ELSE t[d]]

\* Mutant: the cost through a later successor replaces that through an earlier.
DiagonalLast ==
    LET u == loop.node
        v == Max(Onwards(u)) IN
    /\ phase = "intra" /\ loop.at = "diagonal"
    /\ \/ /\ u \in Onwards(u)
          /\ SetTable(Replaced(Table, <<u, u>>, Instructions(u)))
       \/ /\ u \notin Onwards(u)
          /\ SetTable(Replaced(Table, <<u, u>>,
                IF Onwards(u) = {} THEN Infinity
                ELSE SumCosts(Cost(Table, u, v), Cost(Table, v, u))))
    /\ Advance("calls")
    /\ UNCHANGED <<program, graph, phase, stack, resolved, avgVars, interVars>>

\* From u back to u.  A node of another function has no table yet: at() throws.
Diagonal ==
    LET u == loop.node
        N == NodesIn(graph, Len(intra)) IN
    /\ phase = "intra" /\ loop.at = "diagonal"
    /\ \/ /\ u \notin Onwards(u) /\ ~(Onwards(u) \subseteq N)
          /\ Throw
       \/ /\ u \in Onwards(u) \/ Onwards(u) \subseteq N
          /\ SetTable(Replaced(Table, <<u, u>>,
                IF u \in Onwards(u) THEN Instructions(u)
                ELSE Min({SumCosts(Cost(Table, u, v), Cost(Table, v, u)) : v \in Onwards(u)}
                         \cup {Infinity})))
          /\ Advance("calls")
          /\ UNCHANGED <<program, graph, phase, stack, resolved, avgVars, interVars>>

\* From calls to the entries of their callees.
CallEntries ==
    LET calls == UNION {{u} \X Range(graph.succ[u]) :
                           u \in Range(CallsOf(Len(intra)))} IN
    /\ phase = "intra" /\ loop.at = "calls"
    /\ SetTable([e \in DOMAIN Table \cup calls |->
                    IF e \in calls THEN Instructions(e[1]) ELSE Table[e]])
    /\ loop' = Start
    /\ UNCHANGED <<program, graph, phase, stack, resolved, avgVars, interVars>>

IntraDone ==
    /\ phase = "intra" /\ loop = Start /\ Len(intra) = Len(program)
    /\ phase' = "inter"
    /\ fromEntry' = [f \in Functions |-> NoTable]
    /\ fromCalls' = [n \in AllCalls |-> NoTable]
    /\ UNCHANGED <<program, graph, stack, resolved, avgVars, intraVars>>

----------------------------------------------------------------------------
(* Costs between functions.                                                 *)

\* Mutant: a later call overwrites the cost of an earlier one.
MergeLast(t, new) ==
    [f \in DOMAIN t \cup DOMAIN new |-> IF f \in DOMAIN new THEN new[f] ELSE t[f]]

\* The cheaper of two costs for each function.
Merge(t, new) ==
    [f \in DOMAIN t \cup DOMAIN new |->
        IF f \notin DOMAIN new THEN t[f]
        ELSE IF f \notin DOMAIN t THEN new[f] ELSE Least(new[f], t[f])]

Farther(c, t) == [f \in DOMAIN t |-> SumCosts(c, t[f])]

\* intra_cost_stationary()
Stationary(u, v) == IF u = v THEN 0 ELSE Cost(intra[graph.nodes[u].function], u, v)

\* The direct callees first.
InterDirect ==
    /\ phase = "inter" /\ AtCall /\ Top.succ = 0
    /\ fromCalls' = [fromCalls EXCEPT ![Call] =
          [f \in {graph.nodes[n].function : n \in Range(Callees)} |-> Instructions(Call)]]
    /\ ReplaceTop(NextCallee)
    /\ UNCHANGED <<program, graph, phase, resolved, avgVars, intraVars, fromEntry>>

\* Then what the callees call, as far as it is known.
InterCallee ==
    /\ phase = "inter" /\ AtCallee /\ Callee \in resolved
    /\ fromCalls' = [fromCalls EXCEPT ![Call] =
          Merge(@, Farther(Instructions(Call), fromEntry[Callee]))]
    /\ ReplaceTop(NextCallee)
    /\ UNCHANGED <<program, graph, phase, resolved, avgVars, intraVars, fromEntry>>

\* And all of it from the entry of the function, too.
InterCall ==
    /\ phase = "inter" /\ AtCall /\ Top.succ > Len(Callees)
    /\ fromEntry' = [fromEntry EXCEPT ![Top.func] =
          Merge(@, Farther(Stationary(Entry(graph, Top.func), Call), fromCalls[Call]))]
    /\ ReplaceTop(NextCall)
    /\ UNCHANGED <<program, graph, phase, resolved, avgVars, intraVars, fromCalls>>

InterDone ==
    /\ phase = "inter" /\ stack = <<>> /\ resolved = Functions
    /\ phase' = "done"
    /\ UNCHANGED <<program, graph, stack, resolved, avgVars, intraVars, interVars>>

----------------------------------------------------------------------------
Next ==
    \/ MakeNodes \/ MakeEdges
    \/ EnterRoot \/ EnterCallee \/ Leave
    \/ AvgCallee \/ AvgCall \/ AvgDone
    \/ IntraStart \/ FloydWarshall \/ Diagonal \/ CallEntries \/ IntraDone
    \/ InterDirect \/ InterCallee \/ InterCall \/ InterDone

\* The constructor runs to its end.
Spec == Init /\ [][Next]_vars /\ WF_vars(Next)

----------------------------------------------------------------------------
(* What the costs should be, by definition.                                 *)

\* Programs as program.hpp describes them, without HALT: every block ends, and
\* only ends, in the instruction that transfers control, and has as many
\* successors as that needs; calls go somewhere, and no call through a pointer
\* passes a function, which program.hpp allows, where its size is asked for.
WellFormed(p) ==
    /\ CallsResolved(p)
    /\ \A f \in DOMAIN p : \A b \in DOMAIN p[f].blocks :
          LET code == CodeOf(p, f, b) IN
          /\ code # <<>>
          /\ \A i \in DOMAIN code : i < Len(code) => code[i].op \in {"CALL", "OTHER"}
          /\ \/ Last(code).op = "RET"    /\ Len(p[f].blocks[b].next) = 0
             \/ Last(code).op = "JUMP"   /\ Len(p[f].blocks[b].next) = 1
             \/ Last(code).op = "BRANCH" /\ Len(p[f].blocks[b].next) = 2
          /\ \A i \in Range(code) : i.op = "CALL" => Targets(p, i) # {}

\* The cheapest walks of at least one edge between nodes of N, where c[u][v]
\* are the costs of the edges from u to v: with costs above 0 none is longer
\* than the number of nodes.
CheapestWalks(N, c) ==
    LET walks[k \in 0 .. Cardinality(N)] ==
            IF k = 0 THEN [u \in N |-> [v \in N |-> Infinity]]
            ELSE [u \in N |-> [v \in N |->
                    Min({Infinity} \cup c[u][v]
                        \cup UNION {{d + walks[k - 1][x][v] : d \in c[u][x]} : x \in N})]]
    IN  walks[Cardinality(N)]

\* What can be reached from each node of N by at least one edge.
Reachable(N, next) ==
    LET reach[k \in 0 .. Cardinality(N)] ==
            IF k = 0 THEN [u \in N |-> {}]
            ELSE [u \in N |-> next[u] \cup UNION {reach[k - 1][x] : x \in next[u]}]
    IN  reach[Cardinality(N)]

Total(s) ==
    LET upTo[k \in 0 .. Len(s)] == IF k = 0 THEN 0 ELSE upTo[k - 1] + s[k]
    IN  upTo[Len(s)]

CalleesOf(n) == {graph.nodes[v].function : v \in Range(graph.succ[n])}

\* The functions that f calls, directly or not.
Reached ==
    Reachable(Functions, [f \in Functions |-> UNION {CalleesOf(n) : n \in Range(CallsOf(f))}])

\* No recursion anywhere below f.
Loopless(f) == \A g \in {f} \cup Reached[f] : g \notin Reached[g]

\* Instructions of a node and, on average, of what it calls.
NodeCost(n) == Instructions(n) + (IF IsCall(graph, n) THEN callAvg[n] ELSE 0)

\* Instructions on an edge, without any bound on the sum.
Weight(u, v) == NodeCost(u) + (IF IsRet(graph, v) THEN Instructions(v) ELSE 0)

\* Between the nodes of f.
Cheapest(f) ==
    LET N == NodesIn(graph, f) IN
    CheapestWalks(N, [u \in N |-> [v \in N |-> IF v \in Onwards(u) THEN {Weight(u, v)} ELSE {}]])

\* By chains of calls between functions.
CheapestCalls ==
    LET before(n) == Stationary(Entry(graph, graph.nodes[n].function), n) + Instructions(n) IN
    CheapestWalks(Functions, [f \in Functions |-> [g \in Functions |->
        {before(n) : n \in {n \in Range(CallsOf(f)) : g \in CalleesOf(n)}}]])

----------------------------------------------------------------------------
(* Correctness.                                                             *)

\* The nodes of a block share its instructions out: each counts those that
\* bb_of_instruction leads to it from, whatever stands between the calls.
SharesCode(n) ==
    LET node == graph.nodes[n] IN
    Instructions(n) = Cardinality({i \in 1 .. node.instr :
        NodeOfInstruction(graph, node.function, node.block, i) = n})

\* m is the first part of a block: nothing in it ends before m.
IsFirst(m, f, b) ==
    /\ m \in DOMAIN graph.nodes
    /\ graph.nodes[m].function = f /\ graph.nodes[m].block = b
    /\ \A i \in 1 .. graph.nodes[m].instr - 1 : ~EndsNode(CodeOf(program, f, b)[i])

\* m is behind all that comes before a block, and before nothing else.
IsBehind(m, f, b) ==
    \A n \in DOMAIN graph.nodes :
        LET node == graph.nodes[n] IN
        n < m <=> node.function < f \/ (node.function = f /\ node.block < b)

\* The edges of a node lead to the first parts of the callees, or, in the order
\* of the program, of the blocks that follow.  Only a block without CALL, RET,
\* JUMP and BRANCH has no part: an edge to it leads to what comes next, in this
\* function, in another or nowhere.
EdgesLead(n) ==
    LET node == graph.nodes[n]
        f    == node.function
        next == program[f].blocks[node.block].next
        targets == Targets(program, CodeOf(program, f, node.block)[node.instr])
        succ == graph.succ[n] IN
    IF node.op = "CALL"
    THEN /\ \A k \in DOMAIN succ : \E h \in targets : IsFirst(succ[k], h, 1)
         /\ \A h \in targets : \E k \in DOMAIN succ : IsFirst(succ[k], h, 1)
    ELSE /\ DOMAIN succ = DOMAIN next
         /\ \A k \in DOMAIN next :
               IF \E i \in Range(CodeOf(program, f, next[k])) : EndsNode(i)
               THEN IsFirst(succ[k], f, next[k]) ELSE IsBehind(succ[k], f, next[k])

GraphMirrorsProgram ==
    /\ phase = "edges" => \A n \in DOMAIN graph.nodes : SharesCode(n)
    /\ phase = "avg" => \A n \in DOMAIN graph.nodes : EdgesLead(n)

\* "Final cost is a sum of the initial cost and final costs of functions called
\* in CALL nodes", the average where there are several: f must not call itself,
\* directly or not, for it, then the order of the visits does not matter.
AvgFinal ==
    phase = "done" =>
        \A f \in Functions :
            LET before == Entry(graph, f) - 1
                costs  == [k \in 1 .. End(graph, f) - 1 - before |-> NodeCost(before + k)]
                sum(n) == Total([k \in DOMAIN graph.succ[n] |->
                                    funcAvg[graph.nodes[graph.succ[n][k]].function]])
                average(n) == sum(n) \div Len(graph.succ[n]) IN
            /\ funcAvg[f] = Total(costs) % (Infinity + 1)
            /\ f \notin Reached[f] =>
                  \A n \in NodesIn(graph, f) : IsCall(graph, n) /\ sum(n) <= Infinity =>
                      callAvg[n] = IF average(n) = 0 THEN 1 ELSE average(n)

\* A table holds the costs of the cheapest walks and nothing else, of
\* those back to the node itself on the diagonal; and a call costs its own
\* instructions up to the entries of its callees.
IntraCheapest ==
    phase = "done" /\ WellFormed(program) =>
        \A f \in Functions :
            LET best == Cheapest(f) IN
            \A u, v \in NodesIn(graph, f) :
                Cost(intra[f], u, v) =
                    IF IsCall(graph, u) /\ v \in Range(graph.succ[u])
                    THEN Instructions(u) ELSE best[u][v]

\* The functions reachable from f by calls, each at the cost of the cheapest
\* chain.  In a recursion some may be missing or too expensive, none too cheap.
InterCheapest ==
    phase = "done" =>
        LET best == CheapestCalls IN
        \A f \in Functions :
            /\ DOMAIN fromEntry[f] \subseteq Reached[f]
            /\ \A g \in DOMAIN fromEntry[f] : fromEntry[f][g] >= best[f][g]
            /\ Loopless(f) =>
                  /\ DOMAIN fromEntry[f] = Reached[f]
                  /\ \A g \in Reached[f] : fromEntry[f][g] = best[f][g]

\* "It holds costs to move from the current function to other functions
\* (transitively)", "Keys are functions reachable (transitively) via calls from
\* the current function", "indices of other functions" (navigation_graph.hpp:
\* 38-39, 42-43, 47-49), for every program: no other function is missing.
InterComplete ==
    phase = "done" =>
        \A f \in Functions : Reached[f] \ {f} \subseteq DOMAIN fromEntry[f]

\* The construction ends, whatever recursion the program has, and with an
\* exception only if some block does not end as it should.
Completes == <>(\/ phase = "done"
                \/ phase = "exception" /\ ~WellFormed(program))

==============================================================================
