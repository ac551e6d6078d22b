--------------------------- MODULE SegmentPointers ---------------------------
(****************************************************************************)
(* The 32-bit pointer model of an analysed program.                         *)
(*                                                                          *)
(* An interpreted 32-bit program stores pointers in 4-byte cells while the  *)
(* interpreter keeps every memory block at a 64-bit host address.           *)
(* PointerModelM32_SegmentOffset gives each live block a 16-bit segment and *)
(* encodes a host address as segment:offset.  MemBlockData registers a      *)
(* block in its constructor and unregisters it in its destructor.           *)
(*                                                                          *)
(* A 32-bit cell is the record [seg, off] of its two halves.  Host          *)
(* addresses are integers: an address computed below 0 stands for the       *)
(* 64-bit address that the subtraction wraps to, which compares greater     *)
(* than every block.                                                        *)
(****************************************************************************)
EXTENDS Integers, Sequences, FiniteSets, SequencesExt

CONSTANTS
    MaxSeg,    \* numeric_limits<Segment>::max(), 0xFFFF in the code
    MaxOff,    \* numeric_limits<Offset>::max(), 0xFFFF in the code
    Addr,      \* host addresses at which the allocator places blocks
    Gap,       \* bytes the host allocator keeps between two blocks
    MaxSize,   \* bound: the largest block the environment asks for
    MaxBytes,  \* bound: the bytes ever counted as allocated
    Shifts,    \* bound: the shifts of MOVEPTR that are tried
    ByteMod,   \* 2^8, the values an 8-bit integer keeps
    Cells      \* pointer-sized cells of the analysed program

ASSUMPTION SegAssumption  == MaxSeg \in Nat /\ MaxSeg > 0
ASSUMPTION OffAssumption  == MaxOff \in Nat
ASSUMPTION AddrAssumption == Addr \subseteq Nat \ {0} /\ Gap \in Nat \ {0}
ASSUMPTION SizeAssumption ==
    /\ MaxSize \in Nat /\ MaxBytes \in Nat /\ Shifts \subseteq Int
    /\ ByteMod \in Nat \ {0} /\ ByteMod <= MaxOff + 1

VARIABLES
    blocks,    \* owner blocks alive: host address -> size
    ptr2seg,   \* ptr2seg: host address -> segment
    seg2ptr,   \* seg2ptr: segment -> host address
    released,  \* released_segments, a vector used as a stack
    fresh,     \* fresh_segment
    counted,   \* num_allocated_bytes_
    lost,      \* history: bytes counted for blocks whose construction failed
    cells      \* contents of the pointer cells

model == <<ptr2seg, seg2ptr, released, fresh>>
vars  == <<blocks, ptr2seg, seg2ptr, released, fresh, counted, lost, cells>>

Segment == 1 .. MaxSeg - 1
Word    == [seg : 0 .. MaxSeg, off : 0 .. MaxOff]
Null    == [seg |-> 0, off |-> 0]
NullPtr == 0

\* std::map::insert keeps the entry of a key that is already present.
Insert(f, k, v) ==
    [x \in DOMAIN f \cup {k} |-> IF x \in DOMAIN f THEN f[x] ELSE v]
Erase(f, k) == Restrict(f, DOMAIN f \ {k})

NoEntry   == [x \in {} |-> 0]

Init ==
    /\ blocks = NoEntry /\ ptr2seg = NoEntry /\ seg2ptr = NoEntry
    /\ released = <<>> /\ fresh = 1
    /\ counted = 0 /\ lost = 0
    /\ cells = [c \in Cells |-> Null]

----------------------------------------------------------------------------
(* Reading and writing of pointers.                                         *)

\* read_pointer: the host address a cell stands for.
ReadPointer(w) ==
    IF w = Null \/ w.seg \notin DOMAIN seg2ptr
    THEN NullPtr
    ELSE seg2ptr[w.seg] + w.off

\* Mutant: lower_bound in place of upper_bound, a block misses its first byte.
IsNearestStrict(b, ptr) ==
    /\ b \in DOMAIN ptr2seg
    /\ ptr < 0 \/ b < ptr
    /\ \A c \in DOMAIN ptr2seg : (ptr < 0 \/ c < ptr) => c <= b

\* The block write_pointer charges ptr to: the last one that starts at or
\* below it.  A wrapped address lies above every block.
IsNearest(b, ptr) ==
    /\ b \in DOMAIN ptr2seg
    /\ ptr < 0 \/ b <= ptr
    /\ \A c \in DOMAIN ptr2seg : (ptr < 0 \/ c <= ptr) => c <= b

\* write_pointer: the words a cell may hold after ptr was written to it. The
\* distance of a wrapped address from its block is negative as an int64, so it
\* passes the test against the largest offset and is or-ed over the segment:
\* whatever its bits are, the upper half is not below the segment.
Encodings(ptr) ==
    { w \in Word :
        \/ /\ \A b \in DOMAIN ptr2seg : 0 <= ptr /\ ptr < b
           /\ w = Null
        \/ \E b \in DOMAIN ptr2seg :
              /\ IsNearest(b, ptr)
              /\ \/ 0 <= ptr /\ ptr - b > MaxOff /\ w = Null
                 \/ /\ 0 <= ptr /\ ptr - b <= MaxOff
                    /\ w = [seg |-> ptr2seg[b], off |-> ptr - b]
                 \/ ptr < 0 /\ w.seg >= ptr2seg[b] }

\* What the cast of a 32-bit word to an integer of the given width keeps.
Narrow(w, bits) ==
    CASE bits = 8  -> [seg |-> 0, off |-> w.off % ByteMod]
      [] bits = 16 -> [seg |-> 0, off |-> w.off]
      [] OTHER     -> w

----------------------------------------------------------------------------
(* Allocation and release of blocks.                                        *)

\* operator new[]: the host allocator never hands out overlapping blocks.
Placeable(b, n) ==
    \A c \in DOMAIN blocks :
        b + n + Gap <= c \/ c + blocks[c] + Gap <= b

\* Mutant: the released segments are forgotten.
HasFreshSegments(count) == count <= MaxSeg - fresh

\* has_free_segments
HasFreeSegments(count) == count <= MaxSeg - fresh + Len(released)

\* Mutant: the test of the last segment is off by one.
AssignPastLimit(b) ==
    \/ /\ released = <<>>
       /\ fresh <= MaxSeg
       /\ seg2ptr' = Insert(seg2ptr, fresh, b)
       /\ ptr2seg' = Insert(ptr2seg, b, fresh)
       /\ fresh' = fresh + 1
       /\ UNCHANGED released
    \/ /\ released # <<>>
       /\ seg2ptr' = Insert(seg2ptr, Last(released), b)
       /\ ptr2seg' = Insert(ptr2seg, b, Last(released))
       /\ released' = Front(released)
       /\ UNCHANGED fresh

\* on_memblock_allocated takes the last released segment, or a fresh one.
Assign(b) ==
    \/ /\ released = <<>>
       /\ fresh < MaxSeg
       /\ seg2ptr' = Insert(seg2ptr, fresh, b)
       /\ ptr2seg' = Insert(ptr2seg, b, fresh)
       /\ fresh' = fresh + 1
       /\ UNCHANGED released
    \/ /\ released # <<>>
       /\ seg2ptr' = Insert(seg2ptr, Last(released), b)
       /\ ptr2seg' = Insert(ptr2seg, b, Last(released))
       /\ released' = Front(released)
       /\ UNCHANGED fresh

\* MemBlockData::MemBlockData of a block that owns its bytes.
Construct(b, n) ==
    /\ counted + n <= MaxBytes
    /\ b \notin DOMAIN blocks /\ Placeable(b, n)
    /\ counted' = counted + n
    /\ Assign(b)
    /\ blocks' = Insert(blocks, b, n)
    /\ UNCHANGED <<lost, cells>>

\* No segment is left: the assumption in on_memblock_allocated throws after
\* the base class has counted the bytes. The destructor of the half-built
\* block does not run, so they stay counted.
ConstructThrows(n) ==
    /\ counted + n <= MaxBytes
    /\ released = <<>> /\ fresh >= MaxSeg
    /\ counted' = counted + n
    /\ lost' = lost + n
    /\ UNCHANGED <<blocks, model, cells>>

\* Mutant: releases the segment handed out last, as if blocks formed a stack.
DestroyNewestSegment(b) ==
    /\ b \in DOMAIN blocks
    /\ counted' = counted - blocks[b]
    /\ released' = Append(released, fresh - 1)
    /\ seg2ptr' = Erase(seg2ptr, fresh - 1)
    /\ ptr2seg' = Erase(ptr2seg, b)
    /\ blocks' = Erase(blocks, b)
    /\ UNCHANGED <<fresh, lost, cells>>

\* MemBlockData::~MemBlockData
Destroy(b) ==
    /\ b \in DOMAIN blocks
    /\ counted' = counted - blocks[b]
    /\ IF b \in DOMAIN ptr2seg
       THEN /\ released' = Append(released, ptr2seg[b])
            /\ seg2ptr' = Erase(seg2ptr, ptr2seg[b])
            /\ ptr2seg' = Erase(ptr2seg, b)
       ELSE UNCHANGED <<released, seg2ptr, ptr2seg>>
    /\ blocks' = Erase(blocks, b)
    /\ UNCHANGED <<fresh, lost, cells>>

----------------------------------------------------------------------------
(* Instructions on pointer cells.  write_pointer assumes some block lives.  *)

Store(c, ptr) ==
    /\ DOMAIN ptr2seg # {}
    /\ \E w \in Encodings(ptr) : cells' = [cells EXCEPT ![c] = w]
    /\ UNCHANGED <<blocks, model, counted, lost>>

\* ADDRESS, MALLOC and ALLOCA write the address of a byte of a live block; a
\* null pointer is written when MALLOC fails.
WritePointer(c, ptr) ==
    /\ \/ ptr = NullPtr
       \/ \E b \in DOMAIN blocks : ptr \in b .. b + blocks[b]
    /\ Store(c, ptr)

\* MOVEPTR
ReadShiftAndWrite(c, d, shift) == Store(c, ReadPointer(cells[d]) + shift)

\* Casts: an integer of the given width is re-read as a pointer.
WriteUintAsPointer(c, d, bits) ==
    Store(c, ReadPointer(Narrow(cells[d], bits)))

\* Casts: a pointer becomes an integer of the given width.
WritePointerAsUint(c, d, bits) ==
    /\ DOMAIN ptr2seg # {}
    /\ \E w \in Encodings(ReadPointer(cells[d])) :
          cells' = [cells EXCEPT ![c] = Narrow(w, bits)]
    /\ UNCHANGED <<blocks, model, counted, lost>>

\* COPY moves the bytes of a cell without asking the pointer model.
CopyCell(c, d) ==
    /\ cells' = [cells EXCEPT ![c] = cells[d]]
    /\ UNCHANGED <<blocks, model, counted, lost>>

Widths == {8, 16, 32, 64}

Next ==
    \/ \E b \in Addr, n \in 0 .. MaxSize : Construct(b, n)
    \/ \E n \in 0 .. MaxSize : ConstructThrows(n)
    \/ \E b \in Addr : Destroy(b)
    \/ \E c \in Cells :
        \/ \E b \in DOMAIN blocks :
              \E ptr \in (b .. b + blocks[b]) \cup {NullPtr} : WritePointer(c, ptr)
        \/ \E d \in Cells :
            \/ \E s \in Shifts : ReadShiftAndWrite(c, d, s)
            \/ \E bits \in Widths : WriteUintAsPointer(c, d, bits)
            \/ \E bits \in Widths : WritePointerAsUint(c, d, bits)
            \/ CopyCell(c, d)

Spec == Init /\ [][Next]_vars

----------------------------------------------------------------------------
(* Correctness.                                                             *)

\* The types of all variables.
TypeOK ==
    /\ DOMAIN blocks \subseteq Addr /\ blocks \in [DOMAIN blocks -> Nat]
    /\ DOMAIN ptr2seg \subseteq Addr /\ ptr2seg \in [DOMAIN ptr2seg -> Segment]
    /\ DOMAIN seg2ptr \subseteq Segment /\ seg2ptr \in [DOMAIN seg2ptr -> Addr]
    /\ released \in Seq(Segment)
    /\ fresh \in 1 .. MaxSeg
    /\ counted \in Int /\ lost \in Nat
    /\ cells \in [Cells -> Word]

\* Exactly the owner blocks that are alive have a segment.
OwnersRegistered == DOMAIN ptr2seg = DOMAIN blocks

\* The two maps of the pointer model are inverse to each other, so that no two
\* live blocks share a segment.
MapsInverse ==
    /\ \A b \in DOMAIN ptr2seg :
          ptr2seg[b] \in DOMAIN seg2ptr /\ seg2ptr[ptr2seg[b]] = b
    /\ \A s \in DOMAIN seg2ptr :
          seg2ptr[s] \in DOMAIN ptr2seg /\ ptr2seg[seg2ptr[s]] = s

\* Every segment handed out so far is either in use or waits in
\* released_segments, there once, so that it is never given to two blocks.
SegmentsPartitioned ==
    /\ \A i, j \in DOMAIN released : released[i] = released[j] => i = j
    /\ Range(released) \cap DOMAIN seg2ptr = {}
    /\ Range(released) \cup DOMAIN seg2ptr = 1 .. fresh - 1

SegmentsConsistent == OwnersRegistered /\ MapsInverse /\ SegmentsPartitioned

\* has_free_segments tells exactly how many more blocks can be built, whatever
\* history of allocations and releases led here; do_call relies on it.
CapacityExact ==
    \A n \in 0 .. MaxSeg :
        HasFreeSegments(n) <=> n <= MaxSeg - 1 - Cardinality(DOMAIN blocks)

\* The pointer model keeps the promise of a store of blocks: it takes any block
\* as long as fewer than MaxSeg - 1 live, and fails only when all segments are
\* in use, however allocations and releases were interleaved before.
Promise == INSTANCE BlockStore WITH
    live <- blocks, Capacity <- MaxSeg - 1, Sizes <- 0 .. MaxSize
KeepsPromise == Promise!Spec

\* The address of each byte of a live block, and its end, survives a write to
\* a cell and a read from it as long as its offset fits, and the word names
\* the segment of that block and not of a neighbour.
RoundTrip ==
    \A b \in DOMAIN blocks :
        \A ptr \in b .. b + blocks[b] :
            ptr - b <= MaxOff =>
                /\ Encodings(ptr) # {}
                /\ \A w \in Encodings(ptr) :
                      w.seg = ptr2seg[b] /\ ReadPointer(w) = ptr

\* A stored pointer keeps its meaning while its block lives: allocations and
\* releases of other blocks never redirect a cell that was not written.
StoredPointersStable ==
    [][\A c \in Cells :
          ( /\ cells'[c] = cells[c]
            /\ cells[c].seg \in DOMAIN seg2ptr
            /\ seg2ptr[cells[c].seg] \in DOMAIN blocks' )
          => ReadPointer(cells[c])' = ReadPointer(cells[c])]_vars

\* What the description of ADDRESS promises: the address of the operand is
\* what the cell holds afterwards, wherever in its block the operand lies.
AddressStored ==
    [][\A c \in Cells, b \in DOMAIN blocks :
          \A ptr \in b .. b + blocks[b] - 1 :
              WritePointer(c, ptr) => ReadPointer(cells[c])' = ptr]_vars

============================================================================
