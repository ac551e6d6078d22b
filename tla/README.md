# Verification of libsala

libsala interprets *sala* programs (a small assembly of typeless memory
blocks) and analyses them while they run. This directory holds TLA+ models of
the library, the TLC configurations that check them on small instances, and
proofs checked by TLAPS. Paths below are relative to the repository root;
`PROJECT.json` maps every definition to the lines it was translated from.

    tlc -config X.cfg MCM.tla       check a run
    tlapm MProofs.tla               check the proofs of a module

## 1. The system

### Components, their state and their operations

| component | state | operations |
|---|---|---|
| Memory blocks (`memblock.*`) | an owner block: host address, size; handles share it | construct (counts bytes, registers with the pointer model), destroy, typed `read`/`write`, `as_size`, `as_shift` |
| Pointer models (`pointer_model*.{hpp,cpp}`) | `num_allocated_bytes_`; for M32 the maps `ptr2seg`, `seg2ptr`, `released_segments`, `fresh_segment` | `on_memblock_allocated/released`, `has_free_segments`, read/write/shift of a pointer, casts between pointers and integers |
| Execution state (`exec_state.*`) | stage, termination, stack of `StackRecord`, `stack_exit_depth`, `atexit_stack`, heap, segments of constants and statics, memory limit | `set_stage`, `set_termination`, `can_allocate`, pushing and popping of records and blocks |
| Interpreter (`interpreter.*`) | the number of steps; everything else is in the execution state | `step`, three forms of `run`, one handler per instruction and type |
| Instruction dispatch (`instr_switch.*`) | none | from opcode, modifier and operand sizes to a handler |
| External code (`extern_code*.{hpp,cpp}`) | a registry of functions | `exit`, `atexit`, `abort`, LLVM intrinsics, C library |
| Analyzer base (`analyzer.*`) | a postponed operation, a registry of processors | `pre` before and `post` after each instruction |
| Sanitizer (`sanitizer.*`) | `regions_`, an ordered map from address to size | the checks of an access, a release, a division; regions kept up to date around each instruction |
| Input flow (`input_flow.*`) | `flow_`: byte to handle of a set of inputs, `handles_`: interned, counted sets | start, copy, join, clear, per instruction; processors of external functions |
| Input flow with updates | `m_updates`, a counter of basic blocks | the same, with the instructions that changed a value |
| Call graph, control flow graph, navigation graph | built once from a program | `make_call_graph`, constructor; average, intra- and interprocedural costs |
| Program, streaming, opcode names | a container; none | accessors; JSON input and output |

### How they interact

`Interpreter::step` calls `pre` of each analyzer, the handler of the
instruction and `post` of each analyzer, in one thread. An analyzer stops the
execution by setting stage and termination of the shared `ExecState`; the
interpreter asks `done()` in between. Every handler that creates or destroys a
block ends in the pointer model through the constructor or destructor of
`MemBlockData`. The Sanitizer and the input flow keep maps of their own that
mirror the memory of `ExecState`, keyed by host addresses that the host
allocator reuses. The external functions change `ExecState` during a CALL,
their analyzers follow at the RET. The C library
asks the Sanitizer about its arguments during the CALL, before the post
operation of the Sanitizer has seen the new frame. The navigation graph extends
the control flow graph, which is made from the call graph; nobody changes them
once they are built.

### What is hard

There are no threads, messages or persistent data. The hard behaviours are

* **mirrored state**: two or three parts keep a map of the same memory, each
  updated at its own moment around an instruction, and skip the update when the
  instruction failed;
* **reuse**: addresses and segments come back for other blocks, so anything
  left behind attaches to a stranger;
* **partial failure**: a block, or a record of several blocks, that cannot be
  built after some counters were already raised;
* **the protocol of an ending**: exit inside handlers, atexit of anything,
  aborts, defects and time-outs, with a stack of which a part is frozen;
* **limits**: the last segment, the limit of bytes, sums that wrap;
* **sharing**: values that were written together share one map of updates, which
  is copied at some places and changed in place at others;
* **recursive passes** over a call graph that may have cycles, each of which
  marks a function as finished before it is;
* **C++ arithmetic**: promotion, wrap, undefined cases, NaN.

`PROJECT.json` lists the hazards one by one, with the property that would see
each or the reason why there is none.

### What makes each component correct

* Pointer model: a segment belongs to at most one live block and none is lost;
  what was written is read back, and survives what happens to other blocks.
* Execution state and interpreter: the stack is never empty while it is used;
  the gravest verdict wins; handlers run once each, last one first, and never
  inside one another; a run with a time budget ends.
* Memory: the counters equal the blocks that live; a checked allocation never
  fails half-way.
* Sanitizer: an access passes iff it lies inside one live block, a string iff it
  ends inside one.
* Input flow: no dependency is missed; nothing is left behind. With updates: no
  update of a value is lost, none comes from another value, and two executions
  of an instruction do not share a hit.
* Arithmetic: instructions agree with each other at every width.
* Graphs: nodes share out the instructions of a block, edges lead to the blocks
  that follow; costs are those of
  cheapest walks, tables have all reachable functions, construction ends.

## 2. The modules

| module | models | composed with |
|---|---|---|
| `BlockStore` | the promise of a pointer model: blocks come and go within a capacity | implemented by `SegmentPointers` |
| `SegmentPointers` | `PointerModelM32_SegmentOffset`, `MemBlockData`, pointers in 4-byte cells | `INSTANCE BlockStore` with a refinement mapping |
| `Lifecycle` | stages, verdicts, frames, exit handlers, the clock of `run` | |
| `MemoryBudget` | who allocates, what is checked first, what failure leaves behind | its number of free segments is what `SegmentPointers!CapacityExact` shows |
| `MemSafety` | the Sanitizer beside the memory of the program | |
| `InputFlow` | the input flow beside the memory of the program, against the true dependencies | |
| `InputFlowUpdates` | the maps of updates that bytes share, against the true history of each value | its base class only as "has a flow or not" |
| `ControlFlow` | call graph and control flow graph, as functions of a program | |
| `Navigation` | the constructor of the navigation graph, pass by pass, against costs by definition | EXTENDS `ControlFlow` |
| `Arithmetic` | the handlers of number instructions behind the Sanitizer's check of divisors | |

`MC<module>` gives the constants of a run that a configuration cannot spell.
Definitions whose comment begins with *Mutant* are mistaken variants of the
definition below them. They are not part of any specification and show that a
property would notice such a mistake.

Theorems are in `SegmentPointersProofs`, `LifecycleProofs`,
`MemoryBudgetProofs`, `MemSafetyProofs`, `InputFlowProofs`,
`InputFlowUpdatesProofs`, `ArithmeticProofs` and `NavigationProofs`. Each of them
begins with the lemmas about stacks, sums, induction and recursion that it needs,
so that it can be checked without the others.

### Correspondence

**SegmentPointers.** `blocks` are the `MemBlockData` objects; `ptr2seg`,
`seg2ptr`, `released`, `fresh` and `counted` are the fields of the same names.
A cell is the pair of its 16-bit halves. A block is constructed at any address
where the host allocator has room, with `Gap` bytes between blocks.
Construction either succeeds or throws, with the bytes already counted.
Addresses computed below 0 are kept as negative numbers standing for the
wrapped 64-bit ones. ADDRESS, MOVEPTR, COPY and the casts are the actions on
cells.

**Lifecycle.** One action is one `step()`. The intermediate state of a step
is a record (`Now`) that the called functions transform in the order of the
code, `Become` makes it the next state. The program is arbitrary: a frame of a
defined function may call, return, stop or do something else in any order.
`registered`, `started`, `worst` and `requests` are history. `requests` has a
record per registration, in their order: the handler, how many handlers had been
started before, and the number at which this one was started, 0 while it waits. A
handler that starts answers the last registration of it that waits, so the record
shows whether `atexit_stack` gave the right one.

**MemoryBudget.** Blocks are sizes. `Build` is the constructor of a block with
its three outcomes; a record is built block by block and, when one fails, the
others are destroyed. `can_allocate` keeps its wrapping sum. `AreaMax` is the
largest array for which `do_va_start` does not end the execution with an error, as
its offsets are 32-bit numbers. `WrapAssumption` says
that all segments filled with the largest blocks the host provides, and the bytes
that may be lost, are fewer than a `std::size_t` counts, so that the counter itself
does not wrap; what a program asks for is any size.

**MemSafety.** An action is a whole step: check of the Sanitizer, instruction,
post operation, which is skipped when the instruction fails. `Throw` stands for
an assertion of the Sanitizer that fails. The model is one of programs that free
what MALLOC returned and not the array of a variadic list, and end a list they
started once. `Statics` stands for the constants and static variables. The host
allocator places a block at any address that is free, used before or not. An
external function is a frame without locals; what it asks of the Sanitizer is
its `is_memory_valid`, `is_memmove_valid` and `is_c_string_valid` calls in the
order of the code, on any addresses and any contents of the bytes: an operator
such as `OfString` is the set of answers that some contents give. When it
refuses, the post operation of the CALL is skipped, and the blocks of the frame
(`Skipped`) never become regions.
`stale` is history: the entries that
STACKRESTORE left behind and what was built on them; the invariants that such
entries break except exactly those, no other entry.

**InputFlow.** `flow` is `flow_` with the sets in place of the handles;
`handles` is the set of interned sets. `deps` is history: what each byte really
depends on, computed by the semantics of the instruction and not by the
analyzer. Addresses and conditions do not count as dependencies; they do not
count in the code either. `stale` marks what STACKRESTORE released: the code does
not clear records there, and `NoLeftovers` says that there is nothing else left. An
external function writes its result at the CALL and its processor runs at the
RET. Where a processor loses a dependency at a glance (`ctlz` and `ctpop` join
another parameter than the one they read; of `strchr`, `strcmp` and their kin
the second join replaces the first) the history forgets the same dependency and
only that one (`Lossy`), so that `Sound` still speaks of all the others.

**InputFlowUpdates.** Shared pointers are modelled by the partition of the bytes
by the map they lead to: an object is a map together with the bytes that share
it. `slice` copies maps, `copy` and `move` share them, `join` makes a new one,
`join_extend` changes the ones that are there. `past` is history: for each byte
the updates its value really went through. `odd` is history, too: it records what
the invariants except. "late" is a byte that an input was added to with
`start_extend` and that has no map; "mixed" are bytes whose shared map
`join_extend` changed for one of them. The program is the worst for telling hits
apart: one function of one block that follows itself and calls itself.

**ControlFlow, Navigation.** A program is a sequence of functions, blocks and
instructions of which only the transfer of control and callees are kept. Nodes,
entries, successors and costs of instructions are functions of the program;
indices begin at 1. `Navigation` has one action per iteration of a loop of the
constructor, and one per call and return of the recursive functions, with
their local variables in `stack`. An exception, be it an INVARIANT or a
`std::vector::at`, is the phase "exception", and so is the `UNREACHABLE` of
`make_call_graph`. An operand that is a function, `FunctionArg`, has no size. Costs wrap where the code adds
`uint32_t` and saturate where it calls `sum_costs`.

**Arithmetic.** Blocks are bit patterns; a handler reads them as signed,
unsigned or floating. Widths are scaled to a few bits, which keeps that char and
short are narrower than int and int narrower than the widest type. Floats are
ordered by sign and magnitude as IEEE floats are, with infinities, two zeros and
NaNs. Signed overflow wraps and a shift uses its count modulo the promoted
width: that is what the functions compiled one by one do on x86-64 and AArch64.
`Pow2` and `Below` spell powers of two and numbers made of bits as recursive
functions.
The quotient that does not fit traps (x86) or wraps: either may happen.

## 3. The runs

| run | question | result |
|---|---|---|
| `SegmentPointers` | segments never lost or doubled, pointers stable, implements `BlockStore` | holds |
| `AddressTaken` | ADDRESS stores the address (`program.hpp:132`) | violated |
| `Lifecycle` | verdict, stack, handlers and their order, end of a timed run | holds |
| `MemoryBudget` | counters exact, limit held, checked calls do not throw | holds |
| `MemSafety` | the Sanitizer is exact but for what STACKRESTORE left, every live block is known, assertions fail nowhere else | holds |
| `StaleRegionAccess` | no bad access passes, with STACKRESTORE (`README.md:13`) | violated |
| `InputFlow` | no dependency missed, nothing left behind, sets interned | holds |
| `InputFlowUpdates` | updates kept for what has a flow, none lost, none foreign, hits told apart | holds |
| `Navigation` | nodes, edges, averages, costs inside and between functions as defined; construction ends | holds |
| `NavigationRecursion` | a table has all other functions reachable by calls (`navigation_graph.hpp:38-43`) | violated |
| `Arithmetic` | instructions agree with each other and across widths | holds |
| `ArithmeticTrap` | the Sanitizer prevents a crash of the interpreter (`README.md:13`) | violated |

What the violations mean:

* `AddressTaken`: constants, and static variables, lie in one block each; an
  item beyond offset 0xFFFF is too far from the start of its block for a 16-bit
  offset and its address is stored as null.
* `StaleRegionAccess`: STACKRESTORE destroys variables and leaves their regions
  in the Sanitizer. An access through a dangling pointer passes. A new block at
  the place is judged by the old size, and at VA_END the size that is erased is
  not the size that is known, so that the assertion at `sanitizer.cpp:80` fails:
  `MemSafety` has both as exceptions of its invariants.
* `NavigationRecursion`: `update_inter_costs_rec` returns at once for a function
  whose visit still runs, and its caller copies a table that is not complete. Let
  1 call 2 and 3, and 3 call 1: 3 then has 1 in its table and lacks 2. That a
  function lacks itself, as the one visited second of two that call each other
  does, is no violation: the header speaks of *other* functions. `Navigation` checks that without
  recursion the tables are complete and cheapest, and that with it no entry is
  wrong in the other direction.
* `ArithmeticTrap`: DIV or REM of the least number by -1 at 32 and 64 bits.

Further behaviours that the models have, because the code has them, and that a
user of the library should know:

* MALLOC over the limit finishes the execution with an error, where
  `program.hpp:261-262` promises null. Without a free segment, or memory of the
  host, it writes null and the execution goes on.
* ISNAN tests its last operand only; `program.hpp:497-503` documents a test of
  two operands.
* `is_c_string_valid` accepts, and reads, the byte right behind a region.
* `strncmp` of the C library asks about its first argument twice
  (`extern_code_cstd.cpp:299`), and string functions write through the
  pointer to their result unchecked.
* `ptr + count` in `is_memory_valid` wraps for a count near 2^64.
* A block that ends in HALT has no node. Where it is the last of a
  function with a call in it the constructor of the navigation graph throws
  `std::out_of_range` (`navigation_graph.cpp` 108, 157, 253); in the
  middle of a function it gets edges of the next block. A first block that is
  only HALT fails the INVARIANT at `control_flow_graph.cpp:50`, a call through a
  pointer that no function fits the one at line 67.
* CALL takes functions as operands (`program.hpp:521-533`). In a call through a
  pointer `make_call_graph` meets the `UNREACHABLE` at `call_graph.cpp:44-46` for
  one, as soon as some function has a parameter in that place and those before
  it fit.
* Average costs are added without saturation (`navigation_graph.cpp` 72, 76,
  116), other costs with.
* `getopt` on a result that has a flow but no map of updates writes through a
  null pointer (`CrashInGetopt`). A hit is the number of blocks entered, a
  `uint32_t`, and not the index of the step (`input_flow_with_updates.hpp:31-33`).

### Bounds, and why they are enough

* `SegmentPointers`: two usable segments for three places, so that segments run
  out, are released and reused in both orders; offsets of one bit, so that the
  last offset and the one behind it are both tried; two cells, one of which may
  dangle while the other is used.
* `Lifecycle`: four frames at a call and three registrations: exit can be called
  from a handler that was called by a handler's callee, with handlers left. The
  run excludes `exit` itself as a handler, with which frames nest (the theorems
  about the stack and the handlers include it).
* `MemoryBudget`: a limit of 8 bytes against blocks of 0, 1 and 3, and one size
  that wraps; six segments against records of two or three blocks, so that both
  limits are reached in the middle of a record; two variadic parameters, whose
  array fits `AreaMax`, and three, whose array does not.
* `MemSafety`: three places for blocks of one or two bytes beside the static
  memory, three frames, one variable of ALLOCA, one variadic list, STACKSAVE and
  STACKRESTORE; every place is reused by blocks of the other size. Every address
  from below the first block to behind the last is asked about, with counts of
  0, 1 and more than a block. What makes the cases is neighbours and reuse, for
  which three places suffice; the theorems have no bound.
* `InputFlow`: three places, one static, one of two bytes (so that the parts of
  a block can differ), two frames, two variables of ALLOCA, one argument per
  call; every place is reused by variables, ALLOCA, MALLOC and variadic arrays.
  One input is enough for soundness of a union: a byte misses an input
  independently of the others. `Interned` is weaker for it, as there are two
  sets only.
* `InputFlowUpdates`: three bytes, so that two can share a map that the third
  does not; a block of two instructions, entered three times by jumps or calls,
  two frames. An update is lost or leaks within two operations on shared maps.
* `Navigation`: all programs of `MCNavigation`, of three functions: straight
  code with up to two calls, calls through pointers to none, one and two
  functions, and with a function as an operand where a parameter is and where
  none is, loops (of one block and of two, ways of different cost, a block
  nothing leads to), HALT after a call, in the middle and at the end; calls
  among them make every shape of recursion of up to two functions and of
  some over three. `Infinity` is 63 and no cost of them reaches it.
* `Arithmetic`: 2, 3, 4 and 5 bits, all pairs of operands of the first three.

Deadlock is not checked where the system stops by design (a finished
execution, full memory).

### Fairness

`Lifecycle` has the liveness property `TimedRunFinishes`: a run with a time
budget finishes. It assumes WF of `Step`, as `run(terminator)` is a loop that
calls `step()` until `done()` or the terminator says stop, and WF of `Expire`,
as `run(max_seconds)` compares with a clock that advances. No fairness is
assumed of what the program does: it may loop, recurse to the bound of
frames or register handlers for ever.

`Navigation` has `Completes`: the constructor ends, for whatever program, and
throws for none that is well formed. It assumes WF of `Next`, as a constructor
runs in one thread to its end.

## 4. The proofs

For every value of the constants that satisfies the named assumptions:

* `SegmentPointersProofs`. From the inductive invariant `IInv`: types,
  `SegmentsConsistent` (the two maps inverse to each other, released segments
  distinct, disjoint from those in use, all below `fresh`) and `Counting` (live
  blocks and released segments together are the segments ever handed out):
  `TypeCorrect`, `SegmentsSafe`, `CapacityCorrect`,
  `PointersStable`, and `ModelKeepsPromise`, that every step of the model is a
  step of `BlockStore` or a stutter. `Counting` is what ties the answer of
  `has_free_segments` to the blocks that live; the consistency of segments does
  not imply it. `RoundTripSafe` needs the stronger `RInv`: live
  blocks lie apart, so the nearest block below an address is its owner.
* `LifecycleProofs`. From one inductive invariant, `NowSettled`, about the state
  between steps (the stack is above the exit depth, or the execution is finished;
  handlers not yet started equal those registered minus those started; the
  termination equals the gravest announced; a finished execution has a verdict,
  and a normal one no handler left): `TopFrameExists`, `VerdictCorrect`.
  `HandlersDrained` and `TypeCorrect` add `Recorded`: the handlers in
  `atexit_stack` are those of the registrations that wait, in their order, and a
  registration is answered only when none after it waits. No step both registers
  and starts a handler (`StepOrder`), so each of the two need only be shown to
  keep it (`KeptRegister`, `KeptStart`). `RootsNeverNest` assumes that `exit` is not registered as a
  handler: with it frames do nest. It adds `NowStanding`, that
  the lowest frame above the exit depth is the only one step() pushed.
  `MainStarted` adds to the invariant that while the static
  initializer runs no handler was started and the exit depth is 0 (`Fresh`): only
  step() pushes a root, and it pushes main in that stage only. `FramesFrozen` uses
  `NowStanding` and so assumes, too, that `exit` is not a handler.
* `MemSafetyProofs`. `TypeCorrect`: frames, maps and heap keep their types
  whatever the interleaving. `EveryLiveBlockKnown`: a region is erased only for a
  block that goes, which is inductive by itself.
  The rest of the module shows the Sanitizer exact. `StepShape` says in which few ways
  a step changes memory and regions. The inductive invariant has the parts

  * `Owned`, `Listed`: locals, heap and lists own blocks that live, and different
    ones, so that what is erased for one is not known for another;
  * `Exact`: outside `stale`, regions and blocks are the same map, when the blocks
    in `Skipped` are taken away;
  * live blocks lie at least `Gap` apart, from the guard of the host allocator.

  `RegionsAreExact` is `Exact`; `NeverThrows` needs `Owned` and `Listed`, too: what
  is erased is known with that size. `NothingBadPasses` and `NothingGoodIsRefused`
  add the search: `find` takes the greatest region at or below an address, which
  exists by well-foundedness, and by the distance of blocks a byte of a live block
  lies in no other region. `NothingBadPasses` assumes `NoWrap`, that no sum of an
  address and a count that a program passes reaches `Wrap`. It is false without it.
* `InputFlowProofs`. `Sound` says nothing of a result between the call of an
  external function and its return, so it is not inductive. `Covered` adds that
  until then what the result depends on is in the records that the processor will
  join, and `Calls` that only the frame on top can be one of an external function
  with a result, which lies below it and so outlives the frame. `NothingMissed`,
  `NothingLeft`, `SetsInterned` and `TypeCorrect` follow. `MirrorStep` and
  `MoveStep` carry all instructions that keep the blocks: each writes to the
  record of a byte at least what the byte depends on then. What the joins of the
  code drop (`Lossy`) the history forgets; the theorem claims nothing about it.
* `MemoryBudgetProofs`. The inductive invariant has three parts. `Book`: free
  segments are the usable ones less the blocks of frames and heap, counted bytes
  are the sum of their sizes and of the bytes lost. `Rooted`: the lowest record
  is never popped while the program runs. `Within`: what is counted, less the
  blocks that nobody checks (records of roots, variadic arguments, arrays of
  VA_START, the constants and statics), keeps to the limit. Each is stated of the sums over the records, and the lemmas
  say what a push, a pop, a replaced top and a block taken out of the heap do to
  a sum. `BudgetIsExact` and `LimitHolds` follow; the latter needs that a product
  or a sum of sizes that wraps is still refused, which `Book` gives as it bounds the
  counter. `BuildFact` and its kin prove of the loop of the constructor, by
  induction along the list of blocks, that either all blocks are built or those
  that were built are destroyed and one block's bytes are lost. `CallsDoNotThrow`
  assumes that the host provides each block of a function on its own (`HostMax`):
  the constructor of a block fails, too, when the host has no memory, which
  `do_call` does not ask about, and without the assumption the property is false.
* `InputFlowUpdatesProofs`. The invariant is of the memory as a whole: each byte
  with a flow has a map (`Agree`, unless one was marked again by start_extend that
  had none), a map has every update of each of its bytes (`Sound`) and,
  unless getopt merged into a shared map, no other (`Pure`), and every hit in any map
  of the instruction to run is older than the counter. One lemma per
  operation says what it does to the maps, whatever bytes it is given.
* `ArithmeticProofs`. The invariant, `TypeInv`, is that each variable holds a
  pattern of its size; the four properties follow from it for every width that
  grows with the size, so for 8, 16, 32 and 64 bits. A handler cuts its result, so
  the lemmas calculate with `Same`, equality up to a multiple of a power of two,
  which sums, differences and products keep: `NumberSame` (a pattern and the
  number it stands for), `NarrowSame`, and `NumberNarrow` (a number of the size is
  read as it was written). From them `DivisionFits`, and the part of `NarrowFits` about
  numbers. For AND, OR, XOR and the shifts, `NumberBelow` and `BelowBits` say that a
  number and the set of its bits determine each other, by induction along the
  places; `AdderFact` is the law of the full adder, of which XOR with all bits is an
  instance, and `ShiftBits` what a shift does to each place.
* `NavigationProofs`. The invariant has a part for each part of the construction.
  `GraphInv`: the nodes are the parts of the blocks, in the order of the program,
  the edges are the successors of the program, and each call has a callee.
  `PlaceOfBlock` gives the place of a block among the nodes: its first part is
  where the lookup points, behind all nodes of what comes before. `StackInv`: each frame of the recursion stands at the
  callee that the frame above it visits, so no function is visited twice, and a
  function that does not reach itself meets its callees only when they are
  `Finished` (`MetAgain`). `AvgInv`: a call that is done with has the average of
  final costs, and the sums of functions count each node once, whether or not
  they wrap in between. `IntraInv`: a table has no cost below the cheapest walk,
  and none above the walks whose inner nodes the loop is done with; after it the
  diagonal is right as far as the next loop came. `InterInv`: what a call that is
  done with leads to is in the table of its function at no more than the way by
  the call, and no entry is too cheap. The last part uses the costs within
  functions only as the prices of the calls.

  The costs by definition are recursive functions that count steps up to the number
  of nodes or functions. `ReachesAll` and `WalksAll` show that one more step
  changes nothing: the sets, or costs, would otherwise go on changing at more
  nodes than there are. So `ReachableFact` and `WalksFact` can say that they are
  closed under an edge, and below everything else that is; the proofs use only
  this. `GraphIsRight` and its kin follow for every program that satisfies
  `ProgramAssumption`, that what a program refers to exists, and
  `CodeAssumption`, that the instructions of two blocks are fewer than a `uint32_t`
  counts (an edge into RET adds those of two nodes without saturation).
  The tables are proved for `WellFormed` programs: where a block
  does not end as it should, edges lead into other functions.

Most lemmas about sets, sums and sequences are stated of sets and functions in
place of predicates and operators, which the provers can instantiate: a least
number exists; a property that holds of 0 and passes on to the next number holds
of all; a first value and a function for each step define a sequence.

The proofs expand one action at a time; an effect lemma states what the helper
functions do to the record of a step, so that the invariant is proved from the
effects and not from the definitions.

**Only model-checked.** `TimedRunFinishes` and `Completes`, as TLAPS does not prove
liveness or ENABLED. Every invariant and action property of the passing runs is
stated by a theorem. What the runs add is that the cases occur, that the
definitions of the costs mean what they should on real programs, and that each
property notices a mistake.

## 5. What is not modelled

* JSON streaming, opcode names, platform layout: pure input and output, tables.
* `PointerModelM32` (the variant with a map) is instantiated nowhere.
* `PointerModelDefault` keeps host pointers and no state but the byte counter.
* The layout of constants and statics inside their blocks, `argv` and the exit
  code, cached pointers of `update_current_values`.
* JUMP and BRANCH only move the instruction pointer, which the models of the
  execution leave to the program; they may go anywhere.
* Rounding of floats, and the values that the C library and the math functions
  compute. `MemSafety` has what they ask, `InputFlow` where they take their
  dependencies from.
* The values of the LLVM intrinsics. Reading them showed: `ctlz` starts with the
  bit `1 << (sizeof(T) - 1)`, not the highest of the type; `ctpop` shifts an
  `int`; the overflow-reporting SUB and MUL write their result and then the sum
  over it; `bswap` is registered for 8, 16, 32 and 64 as numbers of bytes;
  `is_fpclass` returns before it looks at bit 9; `ptrmask` is a TODO.
* VA_COPY and VA_ARG in `MemSafety` and `InputFlow`; the `longindex` of
  `getopt_long` in `InputFlow`.
* Addresses near the top of the address space (`NoWrap`), and a counter of blocks
  that wraps (`MaxBlocks`).

## 6. Plan

1. *(done)* Pointer model with its abstract store, lifecycle, memory budget,
   Sanitizer, input flow, arithmetic.
2. *(done)* Call graph, control flow graph, navigation graph; input flow with
   updates; C strings and the C library before the Sanitizer and the input flow.
3. *(done)* Exactness of the Sanitizer for every address space and program;
   soundness of the input flow for every program.
4. *(done)* Exactness of the memory budget, the maps of updates for every program,
   and the laws of `Arithmetic` for every width.
5. *(done)* That nodes of the control flow graph share the code and their edges lead
   where the program goes, and the averages and tables of the navigation graph, for every program.
6. The intrinsics as handlers of `Arithmetic`; VA_COPY and VA_ARG.
