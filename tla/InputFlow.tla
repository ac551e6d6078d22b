------------------------------ MODULE InputFlow ------------------------------
(****************************************************************************)
(* The InputFlow analyzer beside the memory of the analysed program.        *)
(*                                                                          *)
(* InputFlow keeps, for each byte of the program's memory, the set of       *)
(* inputs that flowed into it, and updates the sets around the              *)
(* instructions it knows.  The history variable deps says what the bytes    *)
(* the interpreter computed really depend on, through data: addresses and   *)
(* branch conditions do not count, neither do they in the code.             *)
(*                                                                          *)
(* A slot stands for an address at which the program's blocks come and go:  *)
(* static variables, variables of frames, blocks of ALLOCA and MALLOC,      *)
(* arrays of VA_START.  An action is a whole step: the analyzer, the        *)
(* instruction, the post operation of the analyzer.                         *)
(****************************************************************************)
EXTENDS Integers, Sequences, FiniteSets, SequencesExt

CONSTANTS
    Inputs,     \* InputDescriptor
    Slot,       \* places of blocks
    Size,       \* slot -> bytes of the blocks at it
    Statics,    \* slots of static variables
    MaxFrames,  \* bound: frames on the stack
    MaxAllocas, \* bound: blocks of ALLOCA in a frame
    MaxArgs     \* bound: arguments of a call

ASSUMPTION SlotAssumption ==
    /\ Size \in [Slot -> Nat \ {0}] /\ Statics \subseteq Slot
    /\ MaxFrames \in Nat \ {0} /\ MaxAllocas \in Nat /\ MaxArgs \in Nat

VARIABLES
    frames,     \* stack_segment_: [params, va, locals, dst]
    heap,       \* slots of heap_segment_
    flow,       \* flow_: byte -> set of inputs, where one is recorded
    handles,    \* handles_: the interned sets
    deps,       \* history: byte -> inputs its value depends on
    stale       \* history: bytes that STACKRESTORE released with their records

vars == <<frames, heap, flow, handles, deps, stale>>

NoFlow == {}
Byte == UNION {{s} \X (1 .. Size[s]) : s \in Slot}
BytesOf(S) == {b \in Byte : b[1] \in S}

Frame == [params : SUBSET Slot,    \* parameters, for the model the locals too
          va     : SUBSET Slot,    \* variadic parameters
          locals : Seq(Slot),      \* blocks of ALLOCA
          dst    : SUBSET Slot,    \* of an external function: its result
          joins  : Seq(SUBSET Slot)]  \* and what its processor joins into it

Top == Last(frames)
SlotsOf(f) == f.params \cup f.va \cup Range(f.locals)
Live == Statics \cup heap \cup UNION {SlotsOf(f) : f \in Range(frames)}
Variables == Statics \cup SlotsOf(Top)

Init ==
    /\ frames = <<[params |-> {}, va |-> {}, locals |-> <<>>,
                   dst |-> {}, joins |-> <<>>]>>
    /\ heap = {}
    /\ flow = <<>> /\ handles = {NoFlow}
    /\ deps = [b \in Byte |-> {}]
    /\ stale = {}

----------------------------------------------------------------------------
(* The records.                                                             *)

\* read_handle
Read(b) == IF b \in DOMAIN flow THEN flow[b] ELSE NoFlow

JoinOf(B) == UNION {Read(b) : b \in B}

\* write_handle for the bytes of g, whose values were read before.
Write(g) ==
    /\ flow' = [b \in DOMAIN flow \cup DOMAIN g |->
                   IF b \in DOMAIN g THEN g[b] ELSE flow[b]]
    /\ handles' = handles \cup Range(g)

\* Mutant: a set is dropped although other bytes still have it.
ClearUnchecked(B) ==
    /\ flow' = Restrict(flow, DOMAIN flow \ B)
    /\ handles' = handles \ ({flow[b] : b \in B \cap DOMAIN flow} \ {NoFlow})

\* clear: a set that no other byte has is no longer interned.
Clear(B) ==
    /\ flow' = Restrict(flow, DOMAIN flow \ B)
    /\ handles' = handles \ ({flow[b] : b \in B \cap DOMAIN flow}
                                \ ({NoFlow} \cup Range(flow')))

\* What the interpreter computes: the bytes of g get what g says.
Compute(g) == deps' = [b \in Byte |-> IF b \in DOMAIN g THEN g[b] ELSE deps[b]]
Forget(B) == [b \in B |-> {}]
DepsOf(B) == UNION {deps[b] : b \in B}

\* Where byte b of a block goes when the block is copied from slot s to slot d.
At(b, s) == <<s, b[2]>>

InFunction == Top.dst = {}
SameMemory == UNCHANGED <<frames, heap, stale>>

----------------------------------------------------------------------------
(* Inputs, and the instructions that keep the blocks.                       *)

\* start: the user of the analyzer has stored an input.
Start(s, i) ==
    /\ InFunction
    /\ Write([b \in BytesOf({s}) |-> {i}])
    /\ Compute([b \in BytesOf({s}) |-> {i}])
    /\ SameMemory

\* start_extend
StartExtend(s, i) ==
    /\ InFunction
    /\ Write([b \in BytesOf({s}) |-> Read(b) \cup {i}])
    /\ Compute([b \in BytesOf({s}) |-> deps[b] \cup {i}])
    /\ SameMemory

\* n bytes from byte i of slot s
Area(s, i, n) == {b \in BytesOf({s}) : b[2] \in i .. i + n - 1}
Areas(s) == {a \in (1 .. Size[s]) \X (1 .. Size[s]) : a[1] + a[2] - 1 <= Size[s]}

\* The byte of s at the place that b has in the area of d that starts at j.
Across(b, s, i, j) == <<s, b[2] - j + i>>

\* LOAD, STORE, COPY, MEMCPY, the TRUNCATEs of integers, and MEMMOVE.  Only
\* move() reads all sets before it writes; copy() goes byte by byte, which is
\* the same unless the areas overlap in part, and then the interpreter's memcpy
\* is undefined.
Copy(d, j, s, i, n) ==
    /\ InFunction
    /\ Write([b \in Area(d, j, n) |-> Read(Across(b, s, i, j))])
    /\ Compute([b \in Area(d, j, n) |-> deps[Across(b, s, i, j)]])
    /\ SameMemory

\* MEMSET takes the first byte of variable v.
Set(d, j, n, v) ==
    /\ InFunction
    /\ Write([b \in Area(d, j, n) |-> Read(<<v, 1>>)])
    /\ Compute([b \in Area(d, j, n) |-> deps[<<v, 1>>]])
    /\ SameMemory

\* Any byte of the result may depend on any byte of the operands.
JoinInto(v, args) ==
    /\ InFunction
    /\ Write([b \in BytesOf({v}) |-> JoinOf(BytesOf(args))])
    /\ Compute([b \in BytesOf({v}) |-> DepsOf(BytesOf(args))])
    /\ SameMemory

Alike(v, args) == \A a \in args : Size[a] = Size[v]

\* ADD, SUB, MUL; DIV, REM; SHL, SHR; NEG; of one width each.
Arith(v, s, t)  == Alike(v, {s, t}) /\ JoinInto(v, {s, t})
Divide(v, s, t) == Alike(v, {s, t}) /\ JoinInto(v, {s, t})
Shift(v, s, t)  == Alike(v, {s, t}) /\ JoinInto(v, {s, t})
Negate(v, s)    == Alike(v, {s}) /\ JoinInto(v, {s})

\* MOVEPTR: pointer, shift and factor.
MovePtr(v, s, t, u) == JoinInto(v, {s, t, u})

\* Casts between integers, floats and pointers; comparisons and ISNAN.
Convert(v, s)    == JoinInto(v, {s})
Compare(v, s, t) == Alike(s, {t}) /\ JoinInto(v, {s, t})

\* AND, OR, XOR
Bitwise(v, args) ==
    /\ InFunction
    /\ Write([b \in BytesOf({v}) |-> JoinOf({At(b, a) : a \in args})])
    /\ Compute([b \in BytesOf({v}) |-> DepsOf({At(b, a) : a \in args})])
    /\ SameMemory

\* EXTEND of signed integers: the new bytes repeat the sign.
ExtendSigned(v, s) ==
    LET From(b) == <<s, IF b[2] <= Size[s] THEN b[2] ELSE Size[s]>> IN
    /\ InFunction
    /\ Write([b \in BytesOf({v}) |-> Read(From(b))])
    /\ Compute([b \in BytesOf({v}) |-> deps[From(b)]])
    /\ SameMemory

\* EXTEND of unsigned integers: copy of the low bytes, clear of the others,
\* the copied sets interned by then.
ExtendUnsigned(v, s) ==
    LET low  == Area(v, 1, Size[s])
        high == BytesOf({v}) \ low
        gone == {flow[b] : b \in high \cap DOMAIN flow} IN
    /\ InFunction
    /\ flow' = [b \in (DOMAIN flow \ high) \cup low |->
                   IF b \in low THEN Read(At(b, s)) ELSE flow[b]]
    /\ handles' = (handles \cup {Read(At(b, s)) : b \in low})
                     \ (gone \ ({NoFlow} \cup Range(flow')))
    /\ Compute([b \in BytesOf({v}) |->
                   IF b \in low THEN deps[At(b, s)] ELSE {}])
    /\ SameMemory

\* ADDRESS and STACKSAVE, of which InputFlow takes no notice.
Overwrite(v) ==
    /\ InFunction
    /\ Compute(Forget(BytesOf({v})))
    /\ SameMemory /\ UNCHANGED <<flow, handles>>

----------------------------------------------------------------------------
(* Instructions that create and destroy blocks.  New blocks hold nothing    *)
(* that depends on an input.                                                *)

Free == Slot \ Live
ReplaceTop(f) == frames' = Append(Front(frames), f)

\* ALLOCA and MALLOC store the address in variable v; their blocks keep what
\* flow_ says of their bytes.
Alloca(s, v) ==
    /\ InFunction /\ Len(Top.locals) < MaxAllocas
    /\ ReplaceTop([Top EXCEPT !.locals = Append(@, s)])
    /\ Compute(Forget(BytesOf({s, v})))
    /\ UNCHANGED <<heap, flow, handles, stale>>

Malloc(s, v) ==
    /\ InFunction
    /\ heap' = heap \cup {s}
    /\ Compute(Forget(BytesOf({s, v})))
    /\ UNCHANGED <<frames, flow, handles, stale>>

\* STACKRESTORE pops the blocks after the k-th; InputFlow takes no notice.
StackRestore(k) ==
    LET gone == BytesOf(Range(SubSeq(Top.locals, k + 1, Len(Top.locals)))) IN
    /\ InFunction
    /\ ReplaceTop([Top EXCEPT !.locals = SubSeq(@, 1, k)])
    /\ Compute(Forget(gone))
    /\ stale' = stale \cup (gone \cap DOMAIN flow)
    /\ UNCHANGED <<heap, flow, handles>>

\* FREE, and VA_END of the array of a list.
Release(s) ==
    /\ InFunction
    /\ heap' = heap \ {s}
    /\ Clear(BytesOf({s}))
    /\ Compute(Forget(BytesOf({s})))
    /\ stale' = stale \ BytesOf({s})
    /\ UNCHANGED frames

\* VA_START: the post operation copies the flow of the variadic parameter p
\* into the array, which is larger, and leaves the list in variable v alone.
VaStart(s, v) ==
    /\ InFunction
    /\ heap' = heap \cup {s}
    /\ \E p \in Top.va :
          LET low == Area(s, 1, Size[p]) IN
          /\ Size[s] > Size[p]
          /\ Write([b \in low |-> Read(At(b, p))])
          /\ Compute([b \in BytesOf({s, v}) |->
                         IF b \in low THEN deps[At(b, p)] ELSE {}])
    /\ UNCHANGED <<frames, stale>>

----------------------------------------------------------------------------
(* Calls.                                                                   *)

\* A call pushes blocks for the parameters: formal -> actual operand.
Arguments == {m \in UNION {[F -> Variables] : F \in SUBSET Free} :
                 Cardinality(DOMAIN m) <= MaxArgs /\ \A s \in DOMAIN m : Size[s] = Size[m[s]]}

PassFlow(args) == Write([b \in BytesOf(DOMAIN args) |-> Read(At(b, args[b[1]]))])
Passed(b, args) == deps[At(b, args[b[1]])]

\* CALL of a defined function with further locals; va: the argument is a
\* variadic one.
Call(args, locals, va) ==
    /\ InFunction /\ Len(frames) < MaxFrames
    /\ frames' = Append(frames,
          [params |-> locals \cup (DOMAIN args \ va), va |-> va, locals |-> <<>>,
           dst |-> {}, joins |-> <<>>])
    /\ PassFlow(args)
    /\ Compute([b \in BytesOf(DOMAIN args \cup locals) |->
                   IF b[1] \in DOMAIN args THEN Passed(b, args) ELSE {}])
    /\ UNCHANGED <<heap, stale>>

\* CALL of an external function.  The registered code stores the result in d
\* at once, value[b] is what it depends on; InputFlow knows the flow of the
\* parameters when the step is over.
CallTo(args, d, joins, value) ==
    /\ InFunction /\ Len(frames) < MaxFrames
    /\ frames' = Append(frames,
          [params |-> DOMAIN args, va |-> {}, locals |-> <<>>, dst |-> {d}, joins |-> joins])
    /\ PassFlow(args)
    /\ Compute([b \in BytesOf(DOMAIN args \cup {d}) |->
                   IF b[1] = d THEN value[b] ELSE Passed(b, args)])
    /\ UNCHANGED <<heap, stale>>

OnAll(args, strings) == DepsOf(BytesOf(Range(args) \cup strings))

\* The functions of the math library, most intrinsics, getopt.
CallExtern(args, d) ==
    CallTo(args, d, <<DOMAIN args>>, [b \in BytesOf({d}) |-> OnAll(args, {})])

\* ctlz and ctpop, whose processors join the flow of the first parameter, the
\* address of the result, instead of the operand; none for the address here.
CallCount(args, d) ==
    CallTo(args, d, <<{}>>, [b \in BytesOf({d}) |-> OnAll(args, {})])

\* bswap
Mirrored(b, s) == <<s, Size[s] + 1 - b[2]>>
CallSwap(args, d) ==
    \E s \in DOMAIN args :
        /\ DOMAIN args = {s} /\ Size[s] = Size[d]
        /\ CallTo(args, d, <<>>, [b \in BytesOf({d}) |-> deps[Mirrored(b, args[s])]])

LastJoin(args) == IF args = <<>> THEN <<>> ELSE <<DOMAIN args>>

\* strlen, strchr, strrchr: the string is joined, then the character, each
\* join in place of the one before.
CallString(args, s, d) ==
    CallTo(args, d, <<{s}>> \o LastJoin(args), [b \in BytesOf({d}) |-> OnAll(args, {s})])

\* strcmp and strncmp: one string, the other, the number of characters.
CallCompare(args, s, t, d) ==
    CallTo(args, d, <<{s}, {t}>> \o LastJoin(args), [b \in BytesOf({d}) |-> OnAll(args, {s, t})])

\* Mutant: the blocks of ALLOCA keep their records.
RetKeepsLocals ==
    /\ InFunction /\ Len(frames) > 1
    /\ frames' = Front(frames)
    /\ Clear(BytesOf(Top.params \cup Top.va))
    /\ Compute(Forget(BytesOf(SlotsOf(Top))))
    /\ stale' = stale \ BytesOf(SlotsOf(Top))
    /\ UNCHANGED heap

\* Mutant: the last frame is popped, too.
RetFromAny ==
    /\ InFunction
    /\ frames' = Front(frames)
    /\ Clear(BytesOf(SlotsOf(Top)))
    /\ Compute(Forget(BytesOf(SlotsOf(Top))))
    /\ stale' = stale \ BytesOf(SlotsOf(Top))
    /\ UNCHANGED heap

\* RET: the variables of the frame are cleared before the interpreter pops it.
Ret ==
    /\ InFunction /\ Len(frames) > 1
    /\ frames' = Front(frames)
    /\ Clear(BytesOf(SlotsOf(Top)))
    /\ Compute(Forget(BytesOf(SlotsOf(Top))))
    /\ stale' = stale \ BytesOf(SlotsOf(Top))
    /\ UNCHANGED heap

\* pass_input_flow_from_parameters_to_return_value: one set for the result.
PassToResult(own) == [b \in BytesOf(Top.dst) |-> JoinOf(own)]

\* join_extend: a result keeps what it had, and gets no record from nothing.
ExtendResult(own) ==
    [b \in IF JoinOf(own) = {} THEN {} ELSE BytesOf(Top.dst) |->
        Read(b) \cup JoinOf(own)]

\* Two joins, or one of nothing: the record of the result misses some of what
\* it depends on, for good.  The history forgets that here, and only here, so
\* that Sound finds what is lost elsewhere.
Lossy == Len(Top.joins) > 1 \/ Top.joins = <<{}>>
Kept(result, own) ==
    [b \in own \cup BytesOf(Top.dst) |->
        IF b \in own THEN {}
        ELSE IF Lossy THEN deps[b] \cap (IF b \in DOMAIN result THEN result[b] ELSE Read(b))
        ELSE deps[b]]

\* Mutant: the parameters are cleared before the processor joins their flow.
ReturnLate(result) ==
    LET own == BytesOf(Top.params) IN
    /\ ~InFunction
    /\ frames' = Front(frames)
    /\ flow' = [b \in (DOMAIN flow \ own) \cup DOMAIN result |->
                   IF b \in DOMAIN result THEN NoFlow ELSE flow[b]]
    /\ UNCHANGED handles
    /\ Compute(Kept(result, own))
    /\ stale' = stale \ own
    /\ UNCHANGED heap

\* RET of an external function: its processor writes the sets of the result,
\* then the parameters are cleared, then the interpreter pops the frame.
ReturnFrom(result) ==
    LET own     == BytesOf(Top.params)
        gone    == {flow[b] : b \in own \cap DOMAIN flow}
        between == {JoinOf(BytesOf(S)) : S \in Range(Top.joins)} IN
    /\ ~InFunction
    /\ frames' = Front(frames)
    /\ flow' = [b \in (DOMAIN flow \ own) \cup DOMAIN result |->
                   IF b \in DOMAIN result THEN result[b] ELSE flow[b]]
    /\ handles' = (handles \cup Range(result) \cup between)
                     \ (gone \ ({NoFlow} \cup Range(flow')))
    /\ Compute(Kept(result, own))
    /\ stale' = stale \ own
    /\ UNCHANGED heap

\* The functions that join something into their result; getopt; bswap.
RetExtern ==
    /\ ~InFunction /\ Top.joins # <<>>
    /\ ReturnFrom(PassToResult(BytesOf(Last(Top.joins))))

RetGetopt ==
    /\ ~InFunction /\ Top.joins = <<Top.params>>
    /\ ReturnFrom(ExtendResult(BytesOf(Top.params)))

RetSwap ==
    /\ ~InFunction /\ Top.joins = <<>>
    /\ \E s \in Top.params : ReturnFrom([b \in BytesOf(Top.dst) |-> Read(Mirrored(b, s))])

----------------------------------------------------------------------------
Next ==
    \/ \E s \in Live, i \in Inputs : Start(s, i) \/ StartExtend(s, i)
    \/ \E d, s \in Live : \E a \in Areas(d), i \in 1 .. Size[s] :
          /\ i + a[2] - 1 <= Size[s]
          /\ Copy(d, a[1], s, i, a[2])
    \/ \E d \in Live, v \in Variables : \E a \in Areas(d) : Set(d, a[1], a[2], v)
    \/ \E v, s, t \in Variables :
          Arith(v, s, t) \/ Divide(v, s, t) \/ Shift(v, s, t) \/ Compare(v, s, t)
    \/ \E v, s \in Variables : Negate(v, s) \/ Convert(v, s)
    \/ \E v, s, t, u \in Variables : MovePtr(v, s, t, u)
    \/ \E v, s, t \in Variables : Alike(v, {s, t}) /\ Bitwise(v, {s, t})
    \/ \E v, s \in Variables : Size[s] < Size[v] /\ ExtendSigned(v, s)
    \/ \E v, s \in Variables : Size[s] < Size[v] /\ ExtendUnsigned(v, s)
    \/ \E v \in Variables : Overwrite(v)
    \/ \E s \in Free, v \in Variables : Alloca(s, v) \/ Malloc(s, v) \/ VaStart(s, v)
    \/ \E k \in 0 .. Len(Top.locals) : StackRestore(k)
    \/ \E s \in heap : Release(s)
    \/ \E args \in Arguments : \E va \in SUBSET DOMAIN args :
          \E locals \in SUBSET (Free \ DOMAIN args) : Call(args, locals, va)
    \/ \E args \in Arguments, d \in Live :
          \/ CallExtern(args, d) \/ CallSwap(args, d) \/ CallCount(args, d)
          \/ \E s \in Live : CallString(args, s, d)
          \/ \E s, t \in Live : CallCompare(args, s, t, d)
    \/ Ret
    \/ RetExtern
    \/ RetGetopt
    \/ RetSwap

Spec == Init /\ [][Next]_vars

----------------------------------------------------------------------------
(* Correctness.                                                             *)

TypeOK ==
    /\ frames \in Seq(Frame) /\ frames # <<>>
    /\ heap \subseteq Slot
    /\ DOMAIN flow \subseteq Byte /\ Range(flow) \subseteq SUBSET Inputs
    /\ handles \subseteq SUBSET Inputs
    /\ deps \in [Byte -> SUBSET Inputs]
    /\ stale \subseteq Byte

\* The result of an external function between its call and its return.
Pending == UNION {BytesOf(f.dst) : f \in Range(frames)}

\* No dependence is lost: whatever mixture of copies, arithmetic, calls and
\* reuse of memory a value went through, the inputs it depends on are recorded;
\* except for what ctlz, ctpop and the joins of string functions fail to pass.
Sound == \A b \in Byte \ Pending : deps[b] \subseteq Read(b)

\* Memory that is released takes its records along: what is recorded belongs to
\* blocks that live, except where STACKRESTORE released them.
NoLeftovers == DOMAIN flow \subseteq BytesOf(Live) \cup stale

\* Every recorded set is interned, so that clear() finds its handle; and the
\* empty set stays interned for ever.
Interned == Range(flow) \cup {NoFlow} \subseteq handles

==============================================================================
