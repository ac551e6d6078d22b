----------------------------- MODULE MemoryBudget -----------------------------
(****************************************************************************)
(* Who may allocate, and what an allocation that fails leaves behind.       *)
(*                                                                          *)
(* The interpreter checks a limit of bytes (ExecState::can_allocate) and    *)
(* the segments that are left (has_free_segments) before some of its        *)
(* allocations, and not before others: the frames that step() pushes, the   *)
(* variadic parameters of a call, and the array of VA_START.  A block whose *)
(* construction fails throws.  MALLOC and VA_START catch the exception, for *)
(* the others it leaves Interpreter::step.                                  *)
(*                                                                          *)
(* Blocks are their sizes here, in bytes.  The pointer model is the number  *)
(* of segments it can still hand out: CapacityExact of SegmentPointers says *)
(* that this is what has_free_segments answers from.                        *)
(****************************************************************************)
EXTENDS Integers, Sequences, SequencesExt

CONSTANTS
    Usable,      \* segments of the pointer model, 65534 in the code
    Fixed,       \* sizes of the blocks of constants, statics, arguments
    Limit,       \* memory_size_in_bytes_, 0 when there is no limit
    HostMax,     \* the largest block the host allocator provides
    Wrap,        \* 2^64, the values a std::size_t keeps
    Align,       \* 8, the items of a variadic array are aligned to it
    AreaMax,     \* 2^32 - 257, the largest array of VA_START
    Sizes,       \* bound: sizes an instruction asks for
    Frames,      \* calls: sizes [vars, variadic]; vars: parameters and locals
    MaxFrames,   \* bound: frames on the stack
    MaxHeap,     \* bound: blocks on the heap
    MaxLost      \* bound: bytes lost by MALLOC

ASSUMPTION LimitAssumption ==
    /\ {Usable, Limit, HostMax, AreaMax, MaxFrames, MaxHeap, MaxLost} \subseteq Nat
    /\ {Wrap, Align} \subseteq Nat \ {0}
    /\ Sizes \subseteq 0 .. Wrap - 1
    /\ Frames \subseteq [vars : Seq(Nat), variadic : Seq(Nat)]
\* The blocks of ExecState exist before the program runs.
ASSUMPTION FixedAssumption ==
    Fixed \in Seq(0 .. HostMax) /\ Len(Fixed) <= Usable
\* What all segments can hold, and is lost, does not reach the wrap: the host
\* has less memory than a std::size_t counts.
ASSUMPTION WrapAssumption == Usable * HostMax + MaxLost < Wrap

Sum(s) ==
    LET upTo[i \in 0 .. Len(s)] == IF i = 0 THEN 0 ELSE upTo[i - 1] + s[i]
    IN  upTo[Len(s)]

VARIABLES
    frames,      \* stack_segment_: [vars, allocas, variadic, root], of sizes
    heap,        \* heap_segment_: [size, area]; area: made by VA_START
    free,        \* segments the pointer model can still hand out
    counted,     \* num_allocated_bytes_
    lost,        \* history: bytes counted for blocks that do not exist
    outcome,     \* "running", "error" or "exception"
    at           \* the allocation that ended the execution

vars == <<frames, heap, free, counted, lost, outcome, at>>

Top == Last(frames)
FrameBytes(f) == Sum(f.vars) + Sum(f.allocas) + Sum(f.variadic)
FrameBlocks(f) == Len(f.vars) + Len(f.allocas) + Len(f.variadic)
\* The record of the static initializer.
Initializer == [vars |-> <<>>, allocas |-> <<>>, variadic |-> <<>>, root |-> TRUE]

Init ==
    /\ frames = <<Initializer>> /\ heap = <<>>
    /\ free = Usable - Len(Fixed) /\ counted = Sum(Fixed) /\ lost = 0
    /\ outcome = "running" /\ at = "nowhere"

----------------------------------------------------------------------------
\* ExecState::can_allocate; the sum wraps.
CanAllocate(n) == Limit = 0 \/ (counted + n) % Wrap <= Limit

\* Mutant: any number of segments will do.
HasAnySegment(n) == n >= 0

HasFreeSegments(n) == n <= free

\* Building one more owner block: operator new[] may refuse, and then nothing
\* was counted; on_memblock_allocated counts before it looks for a segment.
Build(s, n) ==
    CASE ~s.ok \/ n > HostMax -> [s EXCEPT !.ok = FALSE]
      [] s.ok /\ n <= HostMax /\ s.free = 0 ->
            [s EXCEPT !.ok = FALSE, !.counted = @ + n, !.lost = @ + n]
      [] OTHER -> [s EXCEPT !.free = @ - 1, !.counted = @ + n,
                            !.built = Append(@, n)]

Start == [ok |-> TRUE, free |-> free, counted |-> counted, lost |-> lost,
          built |-> <<>>]
BuildAll(s, sizes) ==
    LET after[i \in 0 .. Len(sizes)] ==
            IF i = 0 THEN [s EXCEPT !.built = <<>>] ELSE Build(after[i - 1], sizes[i])
    IN  after[Len(sizes)]

\* The blocks of a container that is destroyed.
Release(s, sizes) ==
    [s EXCEPT !.free = @ + Len(sizes), !.counted = @ - Sum(sizes)]

Keep(s) == free' = s.free /\ counted' = s.counted /\ lost' = s.lost
End(o, instr) == outcome' = o /\ at' = instr
Continue == UNCHANGED <<outcome, at>>
Running == outcome = "running"

----------------------------------------------------------------------------
(* Instructions.                                                            *)

\* MALLOC: over the limit the execution ends; a block that cannot be built
\* yields a null pointer.
Malloc(n) ==
    /\ Running /\ Len(heap) < MaxHeap
    /\ UNCHANGED frames
    /\ \/ /\ ~CanAllocate(n)
          /\ End("error", "MALLOC")
          /\ UNCHANGED <<heap, free, counted, lost>>
       \/ LET s == Build(Start, n) IN
          /\ CanAllocate(n)
          /\ s.lost <= MaxLost
          /\ Keep(s) /\ Continue
          /\ heap' = IF s.ok THEN Append(heap, [size |-> n, area |-> FALSE])
                             ELSE heap

\* FREE of a block that exists, and the release by VA_END.
Free(i) ==
    /\ Running
    /\ heap' = RemoveAt(heap, i)
    /\ Keep(Release(Start, <<heap[i].size>>))
    /\ Continue /\ UNCHANGED frames

\* Mutant: the limit is not checked.
AllocaUnchecked(n, m) ==
    LET bytes == (n * m) % Wrap
        s == Build(Start, bytes) IN
    /\ Running /\ FrameBlocks(Top) < MaxHeap
    /\ Keep(s) /\ UNCHANGED heap
    /\ \/ /\ s.ok
          /\ frames' = [frames EXCEPT ![Len(frames)].allocas = Append(@, bytes)]
          /\ Continue
       \/ /\ ~s.ok
          /\ End("exception", "ALLOCA") /\ UNCHANGED frames

\* ALLOCA of n items of m bytes: the product wraps; nothing catches what
\* push_back_local_variable throws.
Alloca(n, m) ==
    LET bytes == (n * m) % Wrap
        s == Build(Start, bytes) IN
    /\ Running /\ FrameBlocks(Top) < MaxHeap
    /\ UNCHANGED heap
    /\ \/ /\ ~CanAllocate(bytes)
          /\ End("error", "ALLOCA")
          /\ UNCHANGED <<frames, free, counted, lost>>
       \/ /\ CanAllocate(bytes) /\ Keep(s)
          /\ \/ /\ s.ok
                /\ frames' = [frames EXCEPT ![Len(frames)].allocas = Append(@, bytes)]
                /\ Continue
             \/ /\ ~s.ok
                /\ End("exception", "ALLOCA") /\ UNCHANGED frames

\* STACKRESTORE pops the locals above the saved one; brackets of STACKSAVE and
\* STACKRESTORE enclose every ALLOCA, so only variables of ALLOCA are popped.
StackRestore(k) ==
    /\ Running /\ k <= Len(Top.allocas)
    /\ frames' = [frames EXCEPT ![Len(frames)].allocas = SubSeq(@, 1, k)]
    /\ Keep(Release(Start, SubSeq(Top.allocas, k + 1, Len(Top.allocas))))
    /\ Continue /\ UNCHANGED heap

\* A StackRecord for function f on top of the frames fs: when a block of it
\* cannot be built, the ones before it are destroyed on the way out.
PushRecord(fs, base, f, isRoot, instr) ==
    LET s == BuildAll(base, f.vars) IN
    IF s.ok
    THEN /\ frames' = Append(fs, [vars |-> f.vars, allocas |-> <<>>,
                                  variadic |-> <<>>, root |-> isRoot])
         /\ Keep(s) /\ Continue
    ELSE /\ frames' = fs
         /\ Keep(Release(s, s.built)) /\ End("exception", instr)

\* CALL checks bytes and segments of the record, not of the variadic
\* parameters it pushes afterwards, one by one.
Call(f) ==
    LET s == BuildAll(Start, f.vars)
        v == BuildAll(s, f.variadic) IN
    /\ Running /\ Len(frames) < MaxFrames
    /\ UNCHANGED heap
    /\ \/ /\ \/ ~CanAllocate(Sum(f.vars))
             \/ ~HasFreeSegments(Len(f.vars))
          /\ End("error", "CALL")
          /\ UNCHANGED <<frames, free, counted, lost>>
       \/ /\ CanAllocate(Sum(f.vars))
          /\ HasFreeSegments(Len(f.vars))
          /\ \/ ~s.ok /\ PushRecord(frames, Start, f, FALSE, "CALL")
             \/ /\ s.ok
                /\ frames' = Append(frames, [vars |-> f.vars, allocas |-> <<>>,
                                             variadic |-> v.built, root |-> FALSE])
                /\ Keep(v)
                /\ IF v.ok THEN Continue ELSE End("exception", "variadic parameter")

\* Mutant: the variadic parameters of the frame are not released.
RetKeepsVariadic ==
    /\ Running /\ ~Top.root
    /\ frames' = Front(frames)
    /\ Keep(Release(Start, Top.vars \o Top.allocas))
    /\ Continue /\ UNCHANGED heap

\* RET to a caller.
Ret ==
    /\ Running /\ ~Top.root
    /\ frames' = Front(frames)
    /\ Keep(Release(Start, Top.vars \o Top.allocas \o Top.variadic))
    /\ Continue /\ UNCHANGED heap

\* step() pushes main or a handler, unchecked: when the root that is on top
\* returned, or on top of the frames that exit() froze.
NextRoot(f) ==
    /\ Running
    /\ \/ /\ Top.root
          /\ PushRecord(Front(frames),
                Release(Start, Top.vars \o Top.allocas \o Top.variadic),
                f, TRUE, "root")
       \/ /\ Len(frames) < MaxFrames
          /\ PushRecord(frames, Start, f, TRUE, "root")
    /\ UNCHANGED heap

\* The array of VA_START; every item is padded.
AreaSize(f) == Sum([i \in DOMAIN f.variadic |->
                       f.variadic[i] + (Align - (f.variadic[i] % Align))])
\* VA_START, also of a function without variadic parameters: its array is empty.
VaStart ==
    LET s == Build(Start, AreaSize(Top)) IN
    /\ Running /\ Len(heap) < MaxHeap
    /\ UNCHANGED frames
    /\ \/ /\ AreaSize(Top) > AreaMax
          /\ End("error", "VA_START")
          /\ UNCHANGED <<heap, free, counted, lost>>
       \/ /\ AreaSize(Top) <= AreaMax
          /\ Keep(s)
          /\ \/ /\ s.ok
                /\ heap' = Append(heap, [size |-> AreaSize(Top), area |-> TRUE])
                /\ Continue
             \/ /\ ~s.ok
                /\ End("error", "VA_START") /\ UNCHANGED heap

Next ==
    \/ \E n \in Sizes : Malloc(n)
    \/ \E i \in DOMAIN heap : Free(i)
    \/ \E n, m \in Sizes : Alloca(n, m)
    \/ \E k \in 0 .. MaxHeap : StackRestore(k)
    \/ \E f \in Frames : Call(f) \/ NextRoot(f)
    \/ Ret
    \/ VaStart

Spec == Init /\ [][Next]_vars

----------------------------------------------------------------------------
(* Correctness.                                                             *)

Blocks == Sum([i \in DOMAIN frames |-> FrameBlocks(frames[i])]) + Len(heap) + Len(Fixed)
Bytes  == Sum([i \in DOMAIN frames |-> FrameBytes(frames[i])])
             + Sum([i \in DOMAIN heap |-> heap[i].size]) + Sum(Fixed)

\* Whatever failed half-way through a frame, the segments in use and the
\* counter stay those of the blocks that exist, but for the bytes of blocks
\* that got no segment.
BudgetExact == free = Usable - Blocks /\ counted = Bytes + lost

\* The bytes of blocks that were allocated without asking can_allocate.
UncheckedBytes ==
    Sum([i \in DOMAIN frames |->
            Sum(frames[i].variadic)
            + IF frames[i].root THEN Sum(frames[i].vars) ELSE 0])
    + Sum([i \in DOMAIN heap |-> IF heap[i].area THEN heap[i].size ELSE 0])
    + Sum(Fixed)

\* The memory limit holds for everything that is checked against it, also for
\* sizes and products that wrap.
LimitHeld == Running /\ Limit > 0 => counted - UncheckedBytes <= Limit

\* A call without variadic parameters never throws: the two checks of do_call
\* are enough for the frame it builds.
CallsNeverThrow == ~(outcome = "exception" /\ at = "CALL")

==============================================================================
