--------------------------- MODULE InputFlowUpdates ---------------------------
(****************************************************************************)
(* InputFlowWithUpdates: which instructions updated the tracked values.     *)
(*                                                                          *)
(* Beside the flow of InputFlow the analyzer keeps, for bytes an input      *)
(* flowed into, a shared pointer to a map of updates to hits.  Bytes that   *)
(* were written together, and copies, share one map.  The pointers are the  *)
(* partition of the bytes by the map they share: an object is a map with    *)
(* the bytes whose pointer leads to it.                                     *)
(*                                                                          *)
(* The program is the worst one for telling hits apart: one function with   *)
(* one block, which follows itself and calls itself.                        *)
(****************************************************************************)
EXTENDS Integers, Sequences, FiniteSets, SequencesExt

CONSTANTS
    Bytes,      \* bound: addresses 1 .. Bytes
    MaxInstr,   \* bound: instructions of the block
    MaxBlocks,  \* bound: changes of the block
    MaxDepth    \* bound: frames

ASSUMPTION BoundsAssumption ==
    /\ {Bytes, MaxInstr, MaxDepth} \subseteq Nat \ {0} /\ MaxBlocks \in Nat

VARIABLES
    m_is_predicate_update,   \* whether comparisons are updates
    ip,         \* the next instruction of each frame
    counter,    \* m_basic_block_counter
    mem,        \* flow: bytes with a flow that is not empty
                \* objects: m_updates and what it leads to
                \* past: history, byte -> updates that its value went through
                \*       since an input was started; only where there is one
    odd         \* history: what happened that the invariants except

vars == <<m_is_predicate_update, ip, counter, mem, odd>>

Byte == 1 .. Bytes
Hit == (1 .. MaxInstr) \X (0 .. MaxBlocks)   \* InstructionID and a hit
Object == [bytes : (SUBSET Byte) \ {{}}, hits : SUBSET Hit]

\* The update that the current instruction is.
Here == <<Last(ip), counter>>

Init ==
    /\ m_is_predicate_update \in BOOLEAN
    /\ ip = <<1>> /\ counter = 0
    /\ mem = [flow |-> {}, objects |-> {}, past |-> <<>>]
    /\ odd = {}

----------------------------------------------------------------------------
(* The maps.                                                                *)

HasUpdates(m) == UNION {o.bytes : o \in m.objects}
Recorded(m, B) == UNION {o.hits : o \in {o \in m.objects : o.bytes \cap B # {}}}
PastOf(m, B) == UNION {m.past[b] : b \in B \cap DOMAIN m.past}

\* write_updates for the bytes of D: to the map of from[d], to none without.
Repointed(objects, D, from) ==
    {o \in {[o EXCEPT !.bytes = (@ \ D) \cup {d \in DOMAIN from : from[d] \in @}] :
               o \in objects} : o.bytes # {}}

\* The history once the bytes of D were written: new for those of its domain.
Rewritten(past, D, new) ==
    [b \in (DOMAIN past \ D) \cup DOMAIN new |->
        IF b \in DOMAIN new THEN new[b] ELSE past[b]]

Forgotten(past, D) == Rewritten(past, D, <<>>)

\* The values of bytes from[d] reach d, through the updates of new.
Carried(past, from, new) ==
    Rewritten(past, DOMAIN from,
        [d \in {d \in DOMAIN from : from[d] \in DOMAIN past} |-> past[from[d]] \cup new])

\* start(ptr, count): one empty map for all bytes.
Started(m, D) ==
    [flow    |-> m.flow \cup D,
     objects |-> Repointed(m.objects, D, <<>>) \cup {[bytes |-> D, hits |-> {}]},
     past    |-> Rewritten(m.past, D, [d \in D |-> {}])]

\* start_extend: an empty map is merged, which changes no map; a byte without
\* an entry gets a null pointer, which read_updates takes for no entry.
StartExtended(m, D) == [m EXCEPT !.flow = @ \cup D]

\* copy, move, set: the pointers are shared.
Copied(m, from) ==
    [flow    |-> (m.flow \ DOMAIN from) \cup {d \in DOMAIN from : from[d] \in m.flow},
     objects |-> Repointed(m.objects, DOMAIN from, from),
     past    |-> Carried(m.past, from, {})]

\* Mutant: the update is inserted without a copy of the map.
SlicedInPlace(m, from) ==
    [flow    |-> Copied(m, from).flow,
     objects |-> {IF o.bytes \cap DOMAIN from = {} THEN o ELSE [o EXCEPT !.hits = @ \cup {Here}] :
                     o \in Repointed(m.objects, DOMAIN from, from)},
     past    |-> Carried(m.past, from, {Here})]

\* slice: a copy of the map for each byte, with the update; TRUNCATE and bswap,
\* where it is called from, are no comparisons.
Sliced(m, from) ==
    [flow    |-> Copied(m, from).flow,
     objects |-> Repointed(m.objects, DOMAIN from, <<>>) \cup
                    {[bytes |-> {d}, hits |-> Recorded(m, {from[d]}) \cup {Here}] :
                        d \in {d \in DOMAIN from : from[d] \in HasUpdates(m)}},
     past    |-> Carried(m.past, from, {Here})]

\* Mutant: only the flow is cleared.
ClearedFlow(m, D) == [m EXCEPT !.flow = @ \ D, !.past = Forgotten(@, D)]

\* clear
Cleared(m, D) ==
    [flow    |-> m.flow \ D,
     objects |-> Repointed(m.objects, D, <<>>),
     past    |-> Forgotten(m.past, D)]

\* Mutant: the map of one operand is taken for all.
MergedFirst(m, S) == Recorded(m, {Min(S \cap HasUpdates(m))})

\* A copy of the first map among the bytes of S, merged with the others.
Merged(m, S) == Recorded(m, S)

\* join: one map for all bytes of D.
Joined(m, D, S, new) ==
    [flow    |-> (m.flow \ D) \cup (IF S \cap m.flow = {} THEN {} ELSE D),
     objects |-> Repointed(m.objects, D, <<>>) \cup
                    (IF S \cap HasUpdates(m) = {} THEN {}
                     ELSE {[bytes |-> D, hits |-> Merged(m, S) \cup new]}),
     past    |-> Rewritten(m.past, D,
                    [d \in IF S \cap DOMAIN m.past = {} THEN {} ELSE D |->
                        PastOf(m, S) \cup new])]

\* join_per_byte, where no byte is read after another was written: a join of
\* from[d] for each d.
JoinedPerByte(m, from) ==
    LET Reached(B) == {d \in DOMAIN from : from[d] \cap B # {}} IN
    [flow    |-> (m.flow \ DOMAIN from) \cup Reached(m.flow),
     objects |-> Repointed(m.objects, DOMAIN from, <<>>) \cup
                    {[bytes |-> {d}, hits |-> Merged(m, from[d]) \cup {Here}] :
                        d \in Reached(HasUpdates(m))},
     past    |-> Rewritten(m.past, DOMAIN from,
                    [d \in Reached(DOMAIN m.past) |-> PastOf(m, from[d]) \cup {Here}])]

\* join_extend, where each byte of D has an entry: merged into the maps that
\* are there, for whichever bytes share them.
JoinExtended(m, D, S) ==
    IF S \cap HasUpdates(m) = {} THEN [m EXCEPT !.flow = @ \cup (IF S \cap @ = {} THEN {} ELSE D)]
    ELSE [flow    |-> m.flow \cup D,
          objects |-> {IF o.bytes \cap D = {} THEN o
                       ELSE [o EXCEPT !.hits = @ \cup Merged(m, S) \cup {Here}] :
                           o \in m.objects},
          past    |-> [b \in DOMAIN m.past |->
                          IF b \in D THEN m.past[b] \cup PastOf(m, S) \cup {Here}
                          ELSE m.past[b]]]

----------------------------------------------------------------------------
(* Steps.                                                                   *)

Area(a, n) == a .. a + n - 1
Areas == {Area(a, n) : a \in Byte, n \in Byte} \cap SUBSET Byte
From(D, S) == [d \in D |-> d - Min(D) + Min(S)]

Running == "crash" \notin odd
AtInstr == Running /\ Last(ip) <= MaxInstr

\* The next instruction of the block.
Onwards ==
    /\ ip' = Append(Front(ip), Last(ip) + 1)
    /\ UNCHANGED <<m_is_predicate_update, counter>>

Instruction(m) == AtInstr /\ mem' = m /\ Onwards /\ UNCHANGED odd

\* is_current_instruction_update
IsUpdate(comparison) == m_is_predicate_update \/ ~comparison

\* The user of the analyzer, between two instructions.
Start(D) ==
    /\ Running /\ mem' = Started(mem, D)
    /\ UNCHANGED <<m_is_predicate_update, ip, counter, odd>>

StartExtend(D) ==
    /\ Running /\ mem' = StartExtended(mem, D)
    /\ odd' = IF D \subseteq HasUpdates(mem) THEN odd ELSE odd \cup {"late"}
    /\ UNCHANGED <<m_is_predicate_update, ip, counter>>

\* Areas may overlap: all pointers are read before the first is written.
Move(D, S) == Instruction(Copied(mem, From(D, S)))

\* Areas that overlap in part make the interpreter's memcpy undefined.
Copy(D, S) == (D = S \/ D \cap S = {}) /\ Instruction(Copied(mem, From(D, S)))

Set(D, b)   == Instruction(Copied(mem, [d \in D |-> b]))
Slice(D, S) == D \cap S = {} /\ Instruction(Sliced(mem, From(D, S)))
Free(D)     == Instruction(Cleared(mem, D))

\* Arithmetic, conversions and comparisons.
Join(D, S, comparison) ==
    Instruction(Joined(mem, D, S, IF IsUpdate(comparison) THEN {Here} ELSE {}))

\* AND, OR, XOR of two bytes each.
JoinPerByte(D, S, T) ==
    /\ \A A \in {S, T} : A = D \/ A \cap D = {}
    /\ Instruction(JoinedPerByte(mem, [d \in D |-> {From(D, S)[d], From(D, T)[d]}]))

\* EXTEND: of signed integers the bytes above share the pointer of the sign.
ExtendSigned(D, S) ==
    /\ D \cap S = {}
    /\ Instruction(Copied(mem, [d \in D |-> LET s == d - Min(D) + Min(S) IN
                                            IF s \in S THEN s ELSE Max(S)]))

ExtendUnsigned(D, S) ==
    LET low == Area(Min(D), Cardinality(S)) IN
    /\ D \cap S = {}
    /\ Instruction(Cleared(Copied(mem, From(low, S)), D \ low))

----------------------------------------------------------------------------
(* Control.                                                                 *)

\* on_basic_block_changed
Count == counter < MaxBlocks /\ counter' = counter + 1

\* JUMP and BRANCH.
Jump ==
    /\ AtInstr /\ Count
    /\ ip' = Append(Front(ip), 1)
    /\ UNCHANGED <<m_is_predicate_update, mem, odd>>

\* Mutant: the callee runs under the number of the caller's block.
CallUncounted(D, S) ==
    /\ AtInstr /\ Len(ip) < MaxDepth
    /\ D \cap S = {} /\ mem' = Copied(mem, From(D, S))
    /\ ip' = Append(ip, 1)
    /\ UNCHANGED <<m_is_predicate_update, counter, odd>>

\* CALL: the argument S is copied to the parameter D.
Call(D, S) ==
    /\ AtInstr /\ Count /\ Len(ip) < MaxDepth
    /\ D \cap S = {} /\ mem' = Copied(mem, From(D, S))
    /\ ip' = Append(ip, 1)
    /\ UNCHANGED <<m_is_predicate_update, odd>>

\* RET: the variables D of the frame are cleared.
Return(m, D) ==
    /\ AtInstr /\ Count /\ Len(ip) > 1
    /\ mem' = Cleared(m, D)
    /\ ip' = LET below == Front(ip) IN Append(Front(below), Last(below) + 1)
    /\ UNCHANGED m_is_predicate_update

Ret(D) == Return(mem, D) /\ UNCHANGED odd

\* RET of an external function, with the parameters P and the result D.
RetExtern(D, P) ==
    /\ D \cap P = {}
    /\ Return(Joined(mem, D, P, {Here}), P) /\ UNCHANGED odd

\* RET of getopt: the result is extended by P.
RetGetopt(D, P) ==
    /\ D \cap P = {}
    /\ P \cap HasUpdates(mem) # {} => D \subseteq HasUpdates(mem)
    /\ Return(JoinExtended(mem, D, P), P)
    /\ odd' = IF /\ P \cap HasUpdates(mem) # {}
                 /\ \E o \in mem.objects : o.bytes \cap D # {} /\ ~(o.bytes \subseteq D)
              THEN odd \cup {"mixed"} ELSE odd

\* A byte of the result has no entry: merge_updates writes through the null
\* pointer that the map has made for it.
CrashInGetopt(D, P) ==
    /\ AtInstr /\ Len(ip) > 1
    /\ P \cap HasUpdates(mem) # {} /\ ~(D \subseteq HasUpdates(mem))
    /\ odd' = odd \cup {"crash"}
    /\ UNCHANGED <<m_is_predicate_update, ip, counter, mem>>

Same(D, S) == Cardinality(D) = Cardinality(S)

Next ==
    \/ \E D \in Areas : Start(D) \/ StartExtend(D) \/ Free(D)
    \/ \E D, S \in Areas : Same(D, S) /\ (Copy(D, S) \/ Move(D, S) \/ Slice(D, S))
    \/ \E D \in Areas, b \in Byte : Set(D, b)
    \/ \E D \in Areas, S \in {S \cup T : S, T \in Areas}, comparison \in BOOLEAN :
          Join(D, S, comparison)
    \/ \E D, S, T \in Areas : Same(D, S) /\ Same(D, T) /\ JoinPerByte(D, S, T)
    \/ \E D, S \in Areas :
          /\ Cardinality(S) < Cardinality(D)
          /\ ExtendSigned(D, S) \/ ExtendUnsigned(D, S)
    \/ Jump
    \/ \E D, S \in Areas : Same(D, S) /\ Call(D, S)
    \/ \E D \in Areas : Ret(D)
    \/ \E D, P \in Areas : RetExtern(D, P) \/ RetGetopt(D, P) \/ CrashInGetopt(D, P)

Spec == Init /\ [][Next]_vars

----------------------------------------------------------------------------
(* Correctness.                                                             *)

\* Updates are kept exactly for the bytes that an input flowed into by start():
\* the two analyzers, written beside each other, agree on every operation.
\* start_extend() of a byte without an entry leaves a flow without updates.
UpdatesFollowFlow ==
    /\ HasUpdates(mem) = DOMAIN mem.past
    /\ HasUpdates(mem) \subseteq mem.flow
    /\ "late" \notin odd => mem.flow = HasUpdates(mem)

\* No update of a tracked value is lost, whatever copies share its map.
NoUpdateLost ==
    \A b \in DOMAIN mem.past : mem.past[b] \subseteq Recorded(mem, {b})

\* None is recorded for a value that it did not update, unless getopt merged
\* into a map that other bytes share.
NoForeignUpdate ==
    "mixed" \notin odd =>
        \A b \in DOMAIN mem.past : Recorded(mem, {b}) \subseteq mem.past[b]

\* A hit names one execution: an instruction that is to run was never recorded
\* with the current number of blocks, on loops, calls and returns alike.
HitsAreFresh ==
    \A o \in mem.objects : \A hit \in o.hits :
        hit[2] < counter \/ (hit[2] = counter /\ hit[1] < Last(ip))

==============================================================================
