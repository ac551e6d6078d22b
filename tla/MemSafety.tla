------------------------------ MODULE MemSafety ------------------------------
(****************************************************************************)
(* The Sanitizer beside the memory of the analysed program.                 *)
(*                                                                          *)
(* The interpreter creates and destroys memory blocks: variables of frames, *)
(* blocks of ALLOCA and MALLOC, arrays of VA_START.  The Sanitizer keeps    *)
(* its own map of regions, brings it up to date around every instruction,   *)
(* and answers from it whether an access stays inside the program's memory. *)
(*                                                                          *)
(* A step runs the Sanitizer (pre), the instruction, and the Sanitizer's    *)
(* post operation; an action is a whole step.  A post operation is skipped  *)
(* when the instruction finished the execution.                             *)
(****************************************************************************)
EXTENDS Integers, Sequences, FiniteSets, SequencesExt

CONSTANTS
    Addr,       \* host addresses at which owner blocks are placed
    Gap,        \* bytes the host allocator keeps between two blocks
    Statics,    \* host address -> size: constants and static variables
    Wrap,       \* 2^64, the values a host address keeps
    Sizes,      \* bound: sizes of blocks
    Counts,     \* bound: numbers of bytes an access asks for
    Probes,     \* bound: host addresses that are accessed
    MaxFrames,  \* bound: frames on the stack
    MaxVars,    \* bound: variables a frame starts with
    MaxAllocas, \* bound: blocks of ALLOCA in a frame
    MaxLists    \* bound: started variadic lists of a frame

ASSUMPTION PlaceAssumption ==
    /\ Addr \subseteq Nat \ {0} /\ Gap \in Nat \ {0} /\ Sizes \subseteq Nat
    /\ Wrap \in Nat \ {0} /\ Counts \subseteq 0 .. Wrap - 1
    /\ Probes \subseteq Nat
ASSUMPTION StaticsAssumption ==
    /\ DOMAIN Statics \subseteq Nat \ {0} /\ DOMAIN Statics \cap Addr = {}
    /\ Statics \in [DOMAIN Statics -> Nat \ {0}]

VARIABLES
    blocks,    \* owner blocks alive: host address -> size
    frames,    \* stack_segment_: [vars, locals, lists]
    heap,      \* keys of heap_segment_
    regions,   \* Sanitizer::regions_: host address -> size
    outcome,   \* "running", "crash" (reported) or "exception" (thrown)
    stale      \* history: regions that STACKRESTORE left behind

vars == <<blocks, frames, heap, regions, outcome, stale>>

Frame == [vars   : SUBSET Addr,        \* parameters and most locals
          locals : Seq(Addr),          \* the last local, blocks of ALLOCA;
                                       \* none in a frame of external code
          lists  : SUBSET (Addr \X Sizes)]  \* started lists: array, size

Top == Last(frames)
FrameBlocks(f) == f.vars \cup Range(f.locals)

\* std::map::insert of all entries of g: present keys keep their value.
InsertAll(f, g) ==
    [x \in DOMAIN f \cup DOMAIN g |-> IF x \in DOMAIN f THEN f[x] ELSE g[x]]
Without(f, S) == Restrict(f, DOMAIN f \ S)
At(n, a) == [x \in {a} |-> n]

\* The host allocator places new blocks apart from all that exist.
Apart(f) ==
    \A b, c \in DOMAIN f : b < c => b + f[b] + Gap <= c
Fits(new) == DOMAIN new \cap DOMAIN blocks = {} /\ Apart(InsertAll(InsertAll(blocks, new), Statics))
NewBlocks == UNION {[S -> Sizes] : S \in {S \in SUBSET Addr : Cardinality(S) \in 1 .. MaxVars}}

Records(new) ==
    {[vars |-> DOMAIN new \ {b}, locals |-> <<b>>, lists |-> {}] : b \in DOMAIN new}

Init ==
    /\ \E new \in NewBlocks :
          /\ Apart(InsertAll(new, Statics))
          /\ blocks = new
          /\ frames \in {<<f>> : f \in Records(new)}
          /\ regions = InsertAll(new, Statics)
    /\ heap = {}
    /\ outcome = "running"
    /\ stale = {}

----------------------------------------------------------------------------
(* The questions the Sanitizer answers.                                     *)

\* Mutant: lower_bound in place of upper_bound.
FindBelow(ptr) ==
    LET below == {r \in DOMAIN regions : r < ptr} IN
    IF below # {} THEN Max(below) ELSE Min(DOMAIN regions)

\* Sanitizer::find: the last region that starts at or below ptr, or else the
\* first one.  The regions are never empty while a frame has a local.
Find(ptr) ==
    LET below == {r \in DOMAIN regions : r <= ptr} IN
    IF below # {} THEN Max(below) ELSE Min(DOMAIN regions)

\* Sanitizer::inside
Inside(r, ptr, count) == r <= ptr /\ (ptr + count) % Wrap <= r + regions[r]

IsMemoryValid(ptr, count) == Inside(Find(ptr), ptr, count)

\* Sanitizer::is_c_string_valid of a pointer to n characters and a zero, and of
\* at most max of them: the scan stops behind the end of the region.
IsCString(ptr, n) == ptr # 0 /\ \A i \in 0 .. n : Inside(Find(ptr), ptr + i, 0)
IsCStringUpTo(ptr, n, max) == IsCString(ptr, IF n <= max THEN n ELSE max)

\* What the Sanitizer can be made to say about memory and about strings,
\* whatever the memory holds.
OfMemory == {IsMemoryValid(ptr, count) : ptr \in Probes, count \in Counts}
OfMove(overlapping) ==
    UNION {LET good == {ptr \in Probes : IsMemoryValid(ptr, size)} IN
           {/\ src \in good /\ dst \in good
            /\ \/ overlapping
               \/ ~(src >= dst /\ src < (dst + size) % Wrap)
                  /\ ~(dst >= src /\ dst < (src + size) % Wrap) : src, dst \in Probes} :
           size \in Counts}
OfString == {IsCString(ptr, n) : ptr \in Probes, n \in Counts}
OfStringUpTo == {IsCStringUpTo(ptr, n, max) : ptr \in Probes, n \in Counts, max \in Counts}
Both(S, T) == {s /\ t : s \in S, t \in T}

\* Sanitizer::erase finds its entry.
Erasable(S) == \A b \in S : Find(b) = b

----------------------------------------------------------------------------
(* Instructions.                                                            *)

Running == outcome = "running"
InFunction == Running /\ Top.locals # <<>>   \* external code has no instructions

\* Sanitizer::erase, for the blocks of S.
Erase(S) == regions' = Without(regions, S) /\ stale' = stale \ S

Report == outcome' = "crash" /\ UNCHANGED <<blocks, frames, heap, regions, stale>>
Throw  == outcome' = "exception" /\ UNCHANGED <<blocks, frames, heap, regions, stale>>

\* LOAD, STORE, MEMSET, and VA_START for the list it is given
Access ==
    /\ InFunction
    /\ \E valid \in OfMemory : IF valid THEN UNCHANGED vars ELSE Report

\* MEMCPY and MEMMOVE; only the former refuses blocks that overlap.
Move ==
    /\ InFunction
    /\ \E valid \in OfMove(TRUE) \cup OfMove(FALSE) : IF valid THEN UNCHANGED vars ELSE Report

\* Mutant: the post operation of CALL forgets the locals.
CallForgetsLocals(new) ==
    /\ InFunction /\ Len(frames) < MaxFrames
    /\ Fits(new)
    /\ \E f \in Records(new) :
          /\ frames' = Append(frames, f)
          /\ regions' = InsertAll(regions, Restrict(new, f.vars))
    /\ blocks' = InsertAll(blocks, new)
    /\ UNCHANGED <<heap, outcome, stale>>

\* CALL
Call(new) ==
    /\ InFunction /\ Len(frames) < MaxFrames
    /\ Fits(new)
    /\ \E f \in Records(new) : frames' = Append(frames, f)
    /\ blocks' = InsertAll(blocks, new)
    /\ regions' = InsertAll(regions, new)
    /\ UNCHANGED <<heap, outcome, stale>>

\* CALL through a pointer to no function, or with operands too few or of other
\* sizes than the parameters.
CallInvalid == InFunction /\ Report

\* CALL of a function of the C library, with blocks for its parameters.  Its
\* code asks the Sanitizer, whose post operation has not run yet, and ends the
\* execution when it does not like an argument.
CallExternal(valid) ==
    /\ InFunction /\ Len(frames) < MaxFrames
    /\ \E new \in NewBlocks :
          /\ Fits(new)
          /\ frames' = Append(frames, [vars |-> DOMAIN new, locals |-> <<>>, lists |-> {}])
          /\ blocks' = InsertAll(blocks, new)
          /\ regions' = IF valid THEN InsertAll(regions, new) ELSE regions
    /\ outcome' = IF valid THEN outcome ELSE "crash"
    /\ UNCHANGED <<heap, stale>>

\* Functions of math.h ask nothing.
MathFunction == CallExternal(TRUE)

\* strlen, strchr, strrchr
Strlen == \E valid \in OfString : CallExternal(valid)

Strcmp == \E valid \in Both(OfString, OfString) : CallExternal(valid)

\* strncmp asks about its first argument twice, about the second never.
Strncmp == \E valid \in OfStringUpTo : CallExternal(valid)

\* getopt: argc may be negative; argv, its strings, the string of options.
GetoptAnswers == Both(BOOLEAN, Both(OfMemory, OfString))
Getopt == \E valid \in GetoptAnswers : CallExternal(valid)

\* getopt_long: also the options and their flags, and the index.
GetoptLong == \E valid \in Both(GetoptAnswers, OfMemory) : CallExternal(valid)

\* strspn, strcpy and seven more are not implemented and end the execution.
NotImplemented == CallExternal(FALSE)

\* Mutant: the regions of a frame stay behind.
RetKeepsRegions ==
    /\ Running /\ Len(frames) > 1
    /\ blocks' = Without(blocks, FrameBlocks(Top))
    /\ frames' = Front(frames)
    /\ UNCHANGED <<heap, regions, outcome, stale>>

\* Mutant: the last frame is popped and nothing follows.
RetFromAny ==
    /\ Running
    /\ Erase(FrameBlocks(Top))
    /\ blocks' = Without(blocks, FrameBlocks(Top))
    /\ frames' = Front(frames)
    /\ UNCHANGED <<heap, outcome>>

\* RET to a caller
Ret ==
    /\ Running /\ Len(frames) > 1
    /\ \/ /\ Erasable(FrameBlocks(Top))
          /\ Erase(FrameBlocks(Top))
          /\ blocks' = Without(blocks, FrameBlocks(Top))
          /\ frames' = Front(frames)
          /\ UNCHANGED <<heap, outcome>>
       \/ ~Erasable(FrameBlocks(Top)) /\ Throw

\* RET of a root: step() pushes the next one, and on_stack_initialized inserts
\* the variables of all frames.
RetToRoot(new) ==
    LET old == FrameBlocks(Top) IN
    /\ InFunction /\ Len(frames) = 1
    /\ \/ /\ Erasable(old)
          /\ DOMAIN new \cap DOMAIN Without(blocks, old) = {}
          /\ Apart(InsertAll(InsertAll(Without(blocks, old), new), Statics))
          /\ \E f \in Records(new) : frames' = <<f>>
          /\ blocks' = InsertAll(Without(blocks, old), new)
          /\ regions' = InsertAll(Without(regions, old), new)
          /\ stale' = stale \ old
          /\ UNCHANGED <<heap, outcome>>
       \/ ~Erasable(old) /\ Throw

\* ALLOCA
Alloca(b, n) ==
    /\ InFunction /\ Len(Top.locals) <= MaxAllocas
    /\ Fits(At(n, b))
    /\ blocks' = InsertAll(blocks, At(n, b))
    /\ frames' = [frames EXCEPT ![Len(frames)].locals = Append(@, b)]
    /\ regions' = InsertAll(regions, At(n, b))
    /\ UNCHANGED <<heap, outcome, stale>>

\* STACKRESTORE: the saved pointer must be the start of a known region and of
\* a local of the frame; the locals above it die, their regions stay.
StackRestore(saved) ==
    /\ InFunction
    /\ \/ /\ Find(saved) = saved
          /\ \E i \in DOMAIN Top.locals :
                LET gone == Range(SubSeq(Top.locals, i + 1, Len(Top.locals))) IN
                /\ Top.locals[i] = saved
                /\ frames' = [frames EXCEPT ![Len(frames)].locals = SubSeq(@, 1, i)]
                /\ blocks' = Without(blocks, gone)
                /\ stale' = stale \cup gone
                /\ UNCHANGED <<heap, regions, outcome>>
       \/ /\ Find(saved) # saved \/ saved \notin Range(Top.locals)
          /\ Report

\* MALLOC; when it fails nothing is inserted and nothing changes.
Malloc(b, n) ==
    /\ InFunction
    /\ Fits(At(n, b))
    /\ blocks' = InsertAll(blocks, At(n, b))
    /\ heap' = heap \cup {b}
    /\ regions' = InsertAll(regions, At(n, b))
    /\ UNCHANGED <<frames, outcome, stale>>

\* FREE of a pointer that is not null
Free(ptr) ==
    /\ InFunction
    /\ \A f \in Range(frames) : \A l \in f.lists : l[1] # ptr
    /\ \/ /\ ptr \in heap /\ Erasable({ptr})
          /\ Erase({ptr})
          /\ blocks' = Without(blocks, {ptr})
          /\ heap' = heap \ {ptr}
          /\ UNCHANGED <<frames, outcome>>
       \/ ptr \in heap /\ ~Erasable({ptr}) /\ Throw
       \/ ptr \notin heap /\ Report

\* VA_START
VaStart(b, n) ==
    /\ InFunction /\ Cardinality(Top.lists) < MaxLists
    /\ Fits(At(n, b))
    /\ blocks' = InsertAll(blocks, At(n, b))
    /\ heap' = heap \cup {b}
    /\ regions' = InsertAll(regions, At(n, b))
    /\ frames' = [frames EXCEPT ![Len(frames)].lists = @ \cup {<<b, n>>}]
    /\ UNCHANGED <<outcome, stale>>

\* Mutant: the array is released by the interpreter alone.
VaEndKeepsRegion(l) ==
    /\ InFunction /\ l \in Top.lists
    /\ blocks' = Without(blocks, {l[1]})
    /\ heap' = heap \ {l[1]}
    /\ frames' = [frames EXCEPT ![Len(frames)].lists = @ \ {l}]
    /\ UNCHANGED <<regions, outcome, stale>>

\* VA_END of a started list: the region must have the size of the array.
VaEnd(l) ==
    /\ InFunction /\ l \in Top.lists
    /\ \/ /\ Find(l[1]) = l[1] /\ regions[l[1]] = l[2]
          /\ Erase({l[1]})
          /\ blocks' = Without(blocks, {l[1]})
          /\ heap' = heap \ {l[1]}
          /\ frames' = [frames EXCEPT ![Len(frames)].lists = @ \ {l}]
          /\ UNCHANGED outcome
       \/ ~(Find(l[1]) = l[1] /\ regions[l[1]] = l[2]) /\ Throw

Next ==
    \/ Access \/ Move
    \/ \E new \in NewBlocks : Call(new) \/ RetToRoot(new)
    \/ CallInvalid \/ Ret
    \/ MathFunction \/ Strlen \/ Strcmp \/ Strncmp \/ Getopt \/ GetoptLong \/ NotImplemented
    \/ \E b \in Addr, n \in Sizes : Alloca(b, n) \/ Malloc(b, n) \/ VaStart(b, n)
    \/ \E ptr \in Probes : StackRestore(ptr) \/ Free(ptr)
    \/ \E l \in Addr \X Sizes : VaEnd(l)

Spec == Init /\ [][Next]_vars

----------------------------------------------------------------------------
(* Correctness.                                                             *)

\* The types of all variables.
TypeOK ==
    /\ DOMAIN blocks \subseteq Addr /\ blocks \in [DOMAIN blocks -> Sizes]
    /\ frames \in Seq(Frame) /\ frames # <<>>
    /\ heap \subseteq Addr
    /\ DOMAIN regions \subseteq Addr \cup DOMAIN Statics
    /\ regions \in [DOMAIN regions -> Nat]
    /\ outcome \in {"running", "crash", "exception"}
    /\ stale \subseteq Addr

\* The Sanitizer knows the start of every block that lives; this is what the
\* erasing of regions relies on, also when STACKRESTORE left stale regions.
LiveKnown == Running => DOMAIN blocks \subseteq DOMAIN regions

\* The blocks of external code that ended the execution: the post operation of
\* its CALL was skipped.
Skipped == IF outcome = "crash" /\ Top.locals = <<>> THEN FrameBlocks(Top) ELSE {}

\* Apart from regions that STACKRESTORE left behind, the regions are exactly
\* the live blocks and the static memory, with their sizes, after any
\* interleaving of calls, returns, allocations and releases at reused addresses;
\* also when the execution was ended, but for the frame on top of which the
\* post operation was skipped: of its blocks none is a region.
RegionsExact ==
    Without(regions, stale) =
        Without(InsertAll(Without(blocks, Skipped), Statics), stale)

InMemory(ptr, count) ==
    \E f \in {blocks, Statics} : \E b \in DOMAIN f :
        b <= ptr /\ ptr + count <= b + f[b]

\* No access and no string that the Sanitizer lets through leaves the memory of
\* the program: it lies inside one block that lives, but for the zero behind a
\* string; unless a stale region is consulted.
NoBadAccessPasses ==
    Running => \A ptr \in Probes, count \in Counts :
        IsMemoryValid(ptr, count) \/ IsCString(ptr, count) =>
            InMemory(ptr, count) \/ Find(ptr) \in stale

\* "The Sanitizer class can be used to prevent crash of the entire Interpreter"
\* (README.md:13-15), for all programs.
AccessesStayInMemory ==
    Running => \A ptr \in Probes, count \in Counts :
        IsMemoryValid(ptr, count) => InMemory(ptr, count)

\* No access and no string inside a live block is reported as a defect, with the
\* same exception.
NoFalseAlarm ==
    Running => \A ptr \in Probes, count \in Counts :
        InMemory(ptr, count) =>
            \/ IsMemoryValid(ptr, count) /\ IsCString(ptr, count)
            \/ Find(ptr) \in stale

\* The book-keeping of the Sanitizer never breaks its own assertions, but for
\* the end of a list whose array was placed at a stale region.
NoInternalFailure ==
    outcome = "exception" => \E l \in Top.lists : l[1] \in stale

==============================================================================
