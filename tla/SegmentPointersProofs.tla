------------------------ MODULE SegmentPointersProofs ------------------------
(****************************************************************************)
(* Proofs about the segment:offset pointer model: the book-keeping of       *)
(* segments is consistent for every number of segments and every history of *)
(* allocations and releases, has_free_segments is exact, and a stored       *)
(* pointer keeps its meaning while its block lives.                         *)
(****************************************************************************)
EXTENDS SegmentPointers, FiniteSetTheorems, SequenceTheorems, TLAPS

----------------------------------------------------------------------------
(* Stacks.                                                                  *)

\* A stack loses its last element when it is popped.
LEMMA PopFact ==
    ASSUME NEW S, NEW s \in Seq(S), s # <<>>
    PROVE  /\ Len(s) \in Nat \ {0} /\ Last(s) = s[Len(s)] /\ Last(s) \in S
           /\ Front(s) \in Seq(S) /\ Len(Front(s)) = Len(s) - 1
           /\ \A i \in 1 .. Len(s) - 1 : Front(s)[i] = s[i]
<1>1. Len(s) \in Nat \ {0}
  BY EmptySeq
<1>2. \A i \in 1 .. Len(s) : s[i] \in S
  BY ElementOfSeq
<1>3. \A i \in 1 .. Len(s) - 1 : s[i] \in S
  BY <1>1, <1>2
<1>4. /\ SubSeq(s, 1, Len(s) - 1) \in Seq(S)
      /\ Len(SubSeq(s, 1, Len(s) - 1)) =
            IF 1 <= Len(s) - 1 THEN Len(s) - 1 - 1 + 1 ELSE 0
      /\ \A i \in 1 .. Len(s) - 1 - 1 + 1 : SubSeq(s, 1, Len(s) - 1)[i] = s[1 + i - 1]
  BY <1>1, <1>3, SubSeqProperties
<1>5. \A i \in 1 .. Len(s) - 1 : SubSeq(s, 1, Len(s) - 1)[i] = s[i]
  BY <1>1, <1>4
<1>6. Len(SubSeq(s, 1, Len(s) - 1)) = Len(s) - 1
  <2>1. \A n \in Nat : \A k : k = (IF 1 <= n - 1 THEN n - 1 - 1 + 1 ELSE 0) /\ n # 0 => k = n - 1
    OBVIOUS
  <2> QED
    BY ONLY <1>1, <1>4, <2>1, Zenon
<1>7. Last(s) = s[Len(s)] /\ Front(s) = SubSeq(s, 1, Len(s) - 1)
  BY DEF Last, Front
<1>8. s[Len(s)] \in S
  BY <1>1, <1>2
<1> QED
  BY <1>1, <1>4, <1>5, <1>6, <1>7, <1>8

\* An element pushed on a stack joins its elements.
LEMMA PushFact ==
    ASSUME NEW S, NEW s \in Seq(S), NEW e \in S
    PROVE  /\ Append(s, e) \in Seq(S) /\ Len(Append(s, e)) = Len(s) + 1
           /\ DOMAIN Append(s, e) = DOMAIN s \cup {Len(s) + 1}
           /\ \A i \in DOMAIN s : Append(s, e)[i] = s[i]
           /\ Append(s, e)[Len(s) + 1] = e
           /\ Len(s) + 1 \notin DOMAIN s
<1>1. /\ Append(s, e) \in Seq(S) /\ Len(Append(s, e)) = Len(s) + 1
      /\ \A i \in 1 .. Len(s) : Append(s, e)[i] = s[i]
      /\ Append(s, e)[Len(s) + 1] = e
  BY AppendProperties
<1>2. /\ Len(s) \in Nat /\ DOMAIN s = 1 .. Len(s)
      /\ DOMAIN Append(s, e) = 1 .. Len(Append(s, e))
  BY <1>1, LenProperties
<1> QED
  BY ONLY <1>1, <1>2

----------------------------------------------------------------------------
(* Types.                                                                   *)

\* The model starts in a well-typed state.
LEMMA TypeInit == Init => TypeOK
BY SegAssumption, OffAssumption, EmptySeq DEF Init, TypeOK, NoEntry, Null, Word

\* A narrowed word is a word.
LEMMA NarrowType ==
    ASSUME NEW w \in Word, NEW bits
    PROVE  Narrow(w, bits) \in Word
BY SegAssumption, OffAssumption, SizeAssumption DEF Narrow, Word

\* The steps that only write a cell.
CellStep ==
    \E c \in Cells :
        \/ \E ptr : WritePointer(c, ptr)
        \/ \E d \in Cells :
            \/ \E s : ReadShiftAndWrite(c, d, s)
            \/ \E bits : WriteUintAsPointer(c, d, bits)
            \/ \E bits : WritePointerAsUint(c, d, bits)
            \/ CopyCell(c, d)

\* Every step builds a block, fails to build one, releases one or writes a cell.
LEMMA StepCases ==
    ASSUME Next
    PROVE  \/ \E b \in Addr, n \in 0 .. MaxSize : Construct(b, n)
           \/ \E n \in 0 .. MaxSize : ConstructThrows(n)
           \/ \E b \in Addr : Destroy(b)
           \/ CellStep
BY DEF Next, CellStep

\* An instruction on a cell writes a word and leaves the pointer model alone.
LEMMA CellStepEffect ==
    ASSUME TypeOK, CellStep
    PROVE  /\ cells' \in [Cells -> Word]
           /\ UNCHANGED <<blocks, ptr2seg, seg2ptr, released, fresh, counted, lost>>
<1>1. ASSUME NEW c \in Cells, NEW ptr, Store(c, ptr)
      PROVE  /\ cells' \in [Cells -> Word]
             /\ UNCHANGED <<blocks, model, counted, lost>>
  BY <1>1 DEF Store, Encodings, TypeOK
<1>2. ASSUME NEW c \in Cells, NEW ptr, WritePointer(c, ptr)
      PROVE  Store(c, ptr)
  BY <1>2 DEF WritePointer
<1>3. ASSUME NEW c \in Cells, NEW d \in Cells, NEW bits, WritePointerAsUint(c, d, bits)
      PROVE  /\ cells' \in [Cells -> Word]
             /\ UNCHANGED <<blocks, model, counted, lost>>
  <2>1. PICK w \in Encodings(ReadPointer(cells[d])) :
            cells' = [cells EXCEPT ![c] = Narrow(w, bits)]
    BY <1>3 DEF WritePointerAsUint
  <2>2. Narrow(w, bits) \in Word
    BY <2>1, NarrowType DEF Encodings
  <2> QED
    BY <1>3, <2>1, <2>2 DEF WritePointerAsUint, TypeOK
<1>4. ASSUME NEW c \in Cells, NEW d \in Cells, CopyCell(c, d)
      PROVE  /\ cells' \in [Cells -> Word]
             /\ UNCHANGED <<blocks, model, counted, lost>>
  BY <1>4 DEF CopyCell, TypeOK
<1> QED
  BY <1>1, <1>2, <1>3, <1>4 DEF CellStep, ReadShiftAndWrite, WriteUintAsPointer, model

----------------------------------------------------------------------------
(* The inductive invariant adds to the consistency of the two maps that     *)
(* blocks in use and released segments together make up the fresh counter.  *)

Counting ==
    /\ IsFiniteSet(DOMAIN blocks)
    /\ Cardinality(DOMAIN blocks) + Len(released) = fresh - 1

IInv == TypeOK /\ SegmentsConsistent /\ Counting

\* The empty pointer model is consistent.
LEMMA InitIInv == Init => IInv
<1> SUFFICES ASSUME Init PROVE IInv
  OBVIOUS
<1>1. TypeOK
  BY TypeInit
<1>2. /\ DOMAIN blocks = {} /\ DOMAIN ptr2seg = {} /\ DOMAIN seg2ptr = {}
      /\ released = <<>> /\ fresh = 1 /\ Len(released) = 0 /\ DOMAIN released = {}
  BY DEF Init, NoEntry
<1>3. SegmentsConsistent
  BY <1>2 DEF SegmentsConsistent, OwnersRegistered, MapsInverse, SegmentsPartitioned, Range
<1>4. Counting
  BY <1>2, FS_EmptySet DEF Counting
<1> QED
  BY <1>1, <1>3, <1>4 DEF IInv

\* The segment given to a new block is unused, and what remains released is
\* what was released before without it.
LEMMA AssignedSegment ==
    ASSUME IInv, NEW b, Assign(b)
    PROVE  \E s \in Segment :
              /\ s \notin DOMAIN seg2ptr
              /\ seg2ptr' = Insert(seg2ptr, s, b)
              /\ ptr2seg' = Insert(ptr2seg, b, s)
              /\ released' \in Seq(Segment) /\ fresh' \in 1 .. MaxSeg
              /\ \A i, j \in DOMAIN released' : released'[i] = released'[j] => i = j
              /\ s \notin Range(released')
              /\ Range(released') \subseteq Range(released)
              /\ Range(released') \cup DOMAIN seg2ptr \cup {s} = 1 .. fresh' - 1
              /\ fresh' - Len(released') = fresh - Len(released) + 1
<1> USE SegAssumption DEF IInv, SegmentsConsistent, SegmentsPartitioned, TypeOK
<1>1. CASE released = <<>> /\ fresh < MaxSeg /\ released' = released
           /\ fresh' = fresh + 1
           /\ seg2ptr' = Insert(seg2ptr, fresh, b) /\ ptr2seg' = Insert(ptr2seg, b, fresh)
  <2>1. fresh \in Segment /\ fresh' \in 1 .. MaxSeg
    BY <1>1 DEF Segment
  <2>2. Range(released) \cup DOMAIN seg2ptr \cup {fresh} = 1 .. fresh' - 1
    <3>1. 1 .. fresh' - 1 = (1 .. fresh - 1) \cup {fresh}
      BY <1>1
    <3>2. Range(released) \cup DOMAIN seg2ptr = 1 .. fresh - 1
      OBVIOUS
    <3> QED
      BY ONLY <3>1, <3>2
  <2>3. fresh \notin DOMAIN seg2ptr /\ fresh \notin Range(released)
    BY <1>1
  <2>4. fresh' - Len(released') = fresh - Len(released) + 1
    BY <1>1, EmptySeq
  <2>5. /\ released' \in Seq(Segment)
        /\ \A i, j \in DOMAIN released' : released'[i] = released'[j] => i = j
        /\ fresh \notin Range(released') /\ Range(released') = Range(released)
    <3>1. released' = released
      BY <1>1
    <3>2. /\ released \in Seq(Segment)
          /\ \A i, j \in DOMAIN released : released[i] = released[j] => i = j
      OBVIOUS
    <3> QED
      BY ONLY <3>1, <3>2, <2>3 DEF Range
  <2> QED
    BY ONLY <1>1, <2>1, <2>2, <2>3, <2>4, <2>5
<1>2. CASE released # <<>> /\ fresh' = fresh /\ released' = Front(released)
           /\ seg2ptr' = Insert(seg2ptr, Last(released), b)
           /\ ptr2seg' = Insert(ptr2seg, b, Last(released))
  <2> DEFINE s == Last(released)
  <2>1. /\ Len(released) \in Nat \ {0} /\ s = released[Len(released)] /\ s \in Segment
        /\ Front(released) \in Seq(Segment) /\ Len(Front(released)) = Len(released) - 1
        /\ \A i \in 1 .. Len(released) - 1 : Front(released)[i] = released[i]
    BY <1>2, PopFact
  <2>2. /\ DOMAIN released = 1 .. Len(released)
        /\ DOMAIN Front(released) = 1 .. Len(released) - 1
    BY <2>1, LenProperties
  <2>3. s \in Range(released)
    BY <2>1, <2>2 DEF Range
  <2>4. s \notin Range(Front(released))
    BY <2>1, <2>2 DEF Range
  <2>5. Range(released) = Range(Front(released)) \cup {s}
    <3>1. \A i \in DOMAIN released : i = Len(released) \/ i \in DOMAIN Front(released)
      BY <2>1, <2>2
    <3>2. DOMAIN Front(released) \subseteq DOMAIN released
      BY <2>1, <2>2
    <3>3. \A i \in DOMAIN Front(released) : Front(released)[i] = released[i]
      BY <2>1, <2>2
    <3> QED
      BY ONLY <2>1, <2>3, <3>1, <3>2, <3>3 DEF Range
  <2>6. \A i, j \in DOMAIN Front(released) : Front(released)[i] = Front(released)[j] => i = j
    BY <2>1, <2>2
  <2>7. s \notin DOMAIN seg2ptr
    BY <2>3
  <2>8. Range(released) \cup DOMAIN seg2ptr = 1 .. fresh - 1
    OBVIOUS
  <2>9. fresh' - Len(released') = fresh - Len(released) + 1 /\ fresh' \in 1 .. MaxSeg
    BY <1>2, <2>1
  <2> QED
    BY ONLY <1>2, <2>1, <2>3, <2>4, <2>5, <2>6, <2>7, <2>8, <2>9
<1> QED
  BY <1>1, <1>2 DEF Assign

\* Building a block keeps the model consistent.
LEMMA ConstructStep ==
    ASSUME IInv, NEW b \in Addr, NEW n \in 0 .. MaxSize, Construct(b, n)
    PROVE  IInv'
<1>1. /\ b \notin DOMAIN blocks /\ Assign(b) /\ counted' = counted + n
      /\ blocks' = Insert(blocks, b, n) /\ lost' = lost /\ cells' = cells
  BY DEF Construct
<1>2. PICK s \in Segment :
          /\ s \notin DOMAIN seg2ptr
          /\ seg2ptr' = Insert(seg2ptr, s, b)
          /\ ptr2seg' = Insert(ptr2seg, b, s)
          /\ released' \in Seq(Segment) /\ fresh' \in 1 .. MaxSeg
          /\ \A i, j \in DOMAIN released' : released'[i] = released'[j] => i = j
          /\ s \notin Range(released')
          /\ Range(released') \subseteq Range(released)
          /\ Range(released') \cup DOMAIN seg2ptr \cup {s} = 1 .. fresh' - 1
          /\ fresh' - Len(released') = fresh - Len(released) + 1
  BY <1>1, AssignedSegment
<1>3. b \notin DOMAIN ptr2seg /\ TypeOK /\ MapsInverse
  BY <1>1 DEF IInv, SegmentsConsistent, OwnersRegistered
<1>4. /\ DOMAIN blocks' = DOMAIN blocks \cup {b}
      /\ DOMAIN ptr2seg' = DOMAIN ptr2seg \cup {b}
      /\ DOMAIN seg2ptr' = DOMAIN seg2ptr \cup {s}
      /\ \A x \in DOMAIN blocks : blocks'[x] = blocks[x]
      /\ \A x \in DOMAIN ptr2seg : ptr2seg'[x] = ptr2seg[x]
      /\ \A x \in DOMAIN seg2ptr : seg2ptr'[x] = seg2ptr[x]
      /\ blocks'[b] = n /\ ptr2seg'[b] = s /\ seg2ptr'[s] = b
      /\ blocks' = [x \in DOMAIN blocks' |-> blocks'[x]]
      /\ ptr2seg' = [x \in DOMAIN ptr2seg' |-> ptr2seg'[x]]
      /\ seg2ptr' = [x \in DOMAIN seg2ptr' |-> seg2ptr'[x]]
  <2>1. blocks' = Insert(blocks, b, n) /\ b \notin DOMAIN blocks
    BY <1>1
  <2>2. ptr2seg' = Insert(ptr2seg, b, s) /\ b \notin DOMAIN ptr2seg
    BY <1>2, <1>3
  <2>3. seg2ptr' = Insert(seg2ptr, s, b) /\ s \notin DOMAIN seg2ptr
    BY <1>2
  <2>4. /\ DOMAIN blocks' = DOMAIN blocks \cup {b}
        /\ \A x \in DOMAIN blocks : blocks'[x] = blocks[x]
        /\ blocks'[b] = n /\ blocks' = [x \in DOMAIN blocks' |-> blocks'[x]]
    BY ONLY <2>1 DEF Insert
  <2>5. /\ DOMAIN ptr2seg' = DOMAIN ptr2seg \cup {b}
        /\ \A x \in DOMAIN ptr2seg : ptr2seg'[x] = ptr2seg[x]
        /\ ptr2seg'[b] = s /\ ptr2seg' = [x \in DOMAIN ptr2seg' |-> ptr2seg'[x]]
    BY ONLY <2>2 DEF Insert
  <2>6. /\ DOMAIN seg2ptr' = DOMAIN seg2ptr \cup {s}
        /\ \A x \in DOMAIN seg2ptr : seg2ptr'[x] = seg2ptr[x]
        /\ seg2ptr'[s] = b /\ seg2ptr' = [x \in DOMAIN seg2ptr' |-> seg2ptr'[x]]
    BY ONLY <2>3 DEF Insert
  <2> QED
    BY ONLY <2>4, <2>5, <2>6
<1>5. TypeOK'
  <2>1. DOMAIN blocks' \subseteq Addr /\ blocks' \in [DOMAIN blocks' -> Nat]
    BY <1>3, <1>4, SizeAssumption DEF TypeOK
  <2>2. DOMAIN ptr2seg' \subseteq Addr /\ ptr2seg' \in [DOMAIN ptr2seg' -> Segment]
    BY <1>3, <1>4 DEF TypeOK
  <2>3. DOMAIN seg2ptr' \subseteq Segment /\ seg2ptr' \in [DOMAIN seg2ptr' -> Addr]
    BY <1>3, <1>4 DEF TypeOK
  <2>4. counted' \in Int
    BY <1>1, <1>3, SizeAssumption DEF TypeOK
  <2> QED
    BY <1>1, <1>2, <1>3, <2>1, <2>2, <2>3, <2>4 DEF TypeOK
<1>6. OwnersRegistered'
  BY <1>4 DEF IInv, SegmentsConsistent, OwnersRegistered
<1>7. MapsInverse'
  BY <1>2, <1>3, <1>4 DEF MapsInverse
<1>8. SegmentsPartitioned'
  <2>1. Range(released') \cap DOMAIN seg2ptr' = {}
    BY <1>2, <1>4 DEF IInv, SegmentsConsistent, SegmentsPartitioned
  <2>2. Range(released') \cup DOMAIN seg2ptr' = 1 .. fresh' - 1
    BY <1>2, <1>4
  <2> QED
    BY <1>2, <2>1, <2>2 DEF SegmentsPartitioned
<1>9. Counting'
  <2>1. IsFiniteSet(DOMAIN blocks') /\ Cardinality(DOMAIN blocks') = Cardinality(DOMAIN blocks) + 1
    BY <1>1, <1>4, FS_AddElement DEF IInv, Counting
  <2>2. Cardinality(DOMAIN blocks) \in Nat
    BY FS_CardinalityType DEF IInv, Counting
  <2>3. Len(released) \in Nat /\ Len(released') \in Nat /\ fresh \in Int /\ fresh' \in Int
    BY <1>2, <1>3, LenProperties DEF TypeOK
  <2>4. Cardinality(DOMAIN blocks) + Len(released) = fresh - 1
    BY DEF IInv, Counting
  <2>5. Cardinality(DOMAIN blocks') + Len(released') = fresh' - 1
    BY <1>2, <2>1, <2>2, <2>3, <2>4
  <2> QED
    BY <2>1, <2>5 DEF Counting
<1> QED
  BY <1>5, <1>6, <1>7, <1>8, <1>9 DEF IInv, SegmentsConsistent

\* A failed construction only moves the byte counters.
LEMMA ThrowStep ==
    ASSUME IInv, NEW n \in 0 .. MaxSize, ConstructThrows(n)
    PROVE  IInv'
<1>1. /\ UNCHANGED <<blocks, ptr2seg, seg2ptr, released, fresh, cells>>
      /\ counted' = counted + n /\ lost' = lost + n
  BY DEF ConstructThrows, model
<1>2. TypeOK'
  BY <1>1, SizeAssumption DEF IInv, TypeOK
<1>3. SegmentsConsistent' /\ Counting'
  BY <1>1 DEF IInv, SegmentsConsistent, OwnersRegistered, MapsInverse,
              SegmentsPartitioned, Counting, Range
<1> QED
  BY <1>2, <1>3 DEF IInv

\* Releasing a block keeps the model consistent.
LEMMA DestroyStep ==
    ASSUME IInv, NEW b \in Addr, Destroy(b)
    PROVE  IInv'
<1> DEFINE s == ptr2seg[b]
<1>1. /\ b \in DOMAIN blocks /\ b \in DOMAIN ptr2seg
      /\ TypeOK /\ MapsInverse /\ SegmentsPartitioned /\ Counting
  BY DEF Destroy, IInv, SegmentsConsistent, OwnersRegistered
<1>2. /\ blocks' = Erase(blocks, b) /\ ptr2seg' = Erase(ptr2seg, b)
      /\ seg2ptr' = Erase(seg2ptr, s) /\ released' = Append(released, s)
      /\ fresh' = fresh /\ lost' = lost /\ cells' = cells
      /\ counted' = counted - blocks[b]
  BY <1>1 DEF Destroy
<1>3. s \in Segment /\ s \in DOMAIN seg2ptr /\ seg2ptr[s] = b
  BY <1>1 DEF TypeOK, MapsInverse
<1>4. /\ DOMAIN blocks' = DOMAIN blocks \ {b}
      /\ DOMAIN ptr2seg' = DOMAIN ptr2seg \ {b}
      /\ DOMAIN seg2ptr' = DOMAIN seg2ptr \ {s}
      /\ blocks' = [x \in DOMAIN blocks' |-> blocks[x]]
      /\ ptr2seg' = [x \in DOMAIN ptr2seg' |-> ptr2seg[x]]
      /\ seg2ptr' = [x \in DOMAIN seg2ptr' |-> seg2ptr[x]]
  BY <1>2 DEF Erase, Restrict
<1>5. /\ released' \in Seq(Segment) /\ Len(released') = Len(released) + 1
      /\ DOMAIN released' = DOMAIN released \cup {Len(released) + 1}
      /\ \A i \in DOMAIN released : released'[i] = released[i]
      /\ released'[Len(released) + 1] = s
      /\ Len(released) + 1 \notin DOMAIN released
  BY <1>1, <1>2, <1>3, PushFact DEF TypeOK
<1>6. TypeOK'
  <2>1. DOMAIN blocks' \subseteq Addr /\ blocks' \in [DOMAIN blocks' -> Nat]
    BY <1>1, <1>4 DEF TypeOK
  <2>2. DOMAIN ptr2seg' \subseteq Addr /\ ptr2seg' \in [DOMAIN ptr2seg' -> Segment]
    BY <1>1, <1>4 DEF TypeOK
  <2>3. DOMAIN seg2ptr' \subseteq Segment /\ seg2ptr' \in [DOMAIN seg2ptr' -> Addr]
    BY <1>1, <1>4 DEF TypeOK
  <2>4. counted' \in Int
    BY <1>1, <1>2 DEF TypeOK
  <2> QED
    BY <1>1, <1>2, <1>5, <2>1, <2>2, <2>3, <2>4 DEF TypeOK
<1>7. OwnersRegistered'
  BY <1>4 DEF IInv, SegmentsConsistent, OwnersRegistered
<1>8. MapsInverse'
  BY <1>1, <1>3, <1>4 DEF MapsInverse
<1>9. SegmentsPartitioned'
  <2>1. Range(released') = Range(released) \cup {s}
    BY <1>5 DEF Range
  <2>2. s \notin Range(released)
    BY <1>1, <1>3 DEF SegmentsPartitioned
  <2>3. \A i, j \in DOMAIN released' : released'[i] = released'[j] => i = j
    BY <1>1, <1>5, <2>2 DEF SegmentsPartitioned, Range
  <2>4. Range(released') \cap DOMAIN seg2ptr' = {}
    BY <1>1, <1>4, <2>1 DEF SegmentsPartitioned
  <2>5. Range(released') \cup DOMAIN seg2ptr' = Range(released) \cup DOMAIN seg2ptr
    BY <1>3, <1>4, <2>1
  <2>6. Range(released') \cup DOMAIN seg2ptr' = 1 .. fresh' - 1
    BY <1>1, <1>2, <2>5 DEF SegmentsPartitioned
  <2> QED
    BY <2>3, <2>4, <2>6 DEF SegmentsPartitioned
<1>10. Counting'
  <2>1. IsFiniteSet(DOMAIN blocks') /\ Cardinality(DOMAIN blocks') = Cardinality(DOMAIN blocks) - 1
    BY <1>1, <1>4, FS_RemoveElement DEF Counting
  <2>2. Cardinality(DOMAIN blocks) \in Nat
    BY <1>1, FS_CardinalityType DEF Counting
  <2>3. Len(released) \in Nat /\ fresh \in Int
    BY <1>1, LenProperties DEF TypeOK
  <2>4. Cardinality(DOMAIN blocks) + Len(released) = fresh - 1
    BY <1>1 DEF Counting
  <2>5. Cardinality(DOMAIN blocks') + Len(released') = fresh' - 1
    BY <1>2, <1>5, <2>1, <2>2, <2>3, <2>4
  <2> QED
    BY <2>1, <2>5 DEF Counting
<1> QED
  BY <1>6, <1>7, <1>8, <1>9, <1>10 DEF IInv, SegmentsConsistent

\* Writing a cell keeps the model consistent.
LEMMA CellStepInv ==
    ASSUME IInv, CellStep
    PROVE  IInv'
<1>1. /\ cells' \in [Cells -> Word]
      /\ UNCHANGED <<blocks, ptr2seg, seg2ptr, released, fresh, counted, lost>>
  BY CellStepEffect DEF IInv
<1>2. TypeOK'
  BY <1>1 DEF IInv, TypeOK
<1>3. SegmentsConsistent' /\ Counting'
  BY <1>1 DEF IInv, SegmentsConsistent, OwnersRegistered, MapsInverse,
              SegmentsPartitioned, Counting, Range
<1> QED
  BY <1>2, <1>3 DEF IInv

\* Every step keeps the model consistent.
LEMMA NextIInv == IInv /\ [Next]_vars => IInv'
<1> SUFFICES ASSUME IInv, [Next]_vars PROVE IInv'
  OBVIOUS
<1>1. CASE Next
  BY <1>1, StepCases, ConstructStep, ThrowStep, DestroyStep, CellStepInv
<1>2. CASE UNCHANGED vars
  BY <1>2 DEF vars, IInv, TypeOK, SegmentsConsistent, OwnersRegistered, MapsInverse,
              SegmentsPartitioned, Counting, Range
<1> QED
  BY <1>1, <1>2

\* The inductive invariant holds in every reachable state.
LEMMA AlwaysIInv == Spec => []IInv
BY InitIInv, NextIInv, PTL DEF Spec

----------------------------------------------------------------------------
(* Results.                                                                 *)

\* Type correctness of the pointer model.
THEOREM TypeCorrect == Spec => []TypeOK
<1>1. IInv => TypeOK
  BY DEF IInv
<1> QED
  BY <1>1, AlwaysIInv, PTL

\* The two maps of the pointer model stay inverse to each other, exactly the
\* live owner blocks have a segment, and no segment is handed out twice.
THEOREM SegmentsSafe == Spec => []SegmentsConsistent
<1>1. IInv => SegmentsConsistent
  BY DEF IInv
<1> QED
  BY <1>1, AlwaysIInv, PTL

\* has_free_segments is exact for every segment width: the check do_call makes
\* before it builds a frame neither refuses a frame that fits nor accepts one
\* that does not.
THEOREM CapacityCorrect == Spec => []CapacityExact
<1>1. IInv => CapacityExact
  <2> SUFFICES ASSUME IInv, NEW n \in 0 .. MaxSeg
               PROVE  HasFreeSegments(n) <=> n <= MaxSeg - 1 - Cardinality(DOMAIN blocks)
    BY DEF CapacityExact
  <2>1. Cardinality(DOMAIN blocks) \in Nat
    BY FS_CardinalityType DEF IInv, Counting
  <2>2. Len(released) \in Nat /\ fresh \in Int
    BY LenProperties DEF IInv, TypeOK
  <2>3. Cardinality(DOMAIN blocks) + Len(released) = fresh - 1
    BY DEF IInv, Counting
  <2> QED
    BY <2>1, <2>2, <2>3, SegAssumption DEF HasFreeSegments
<1> QED
  BY <1>1, AlwaysIInv, PTL

\* A step redirects no segment whose block stays alive.
LEMMA SegmentKept ==
    ASSUME IInv, Next, NEW t \in DOMAIN seg2ptr, seg2ptr[t] \in DOMAIN blocks'
    PROVE  t \in DOMAIN seg2ptr' /\ seg2ptr'[t] = seg2ptr[t]
<1>1. ASSUME NEW b \in Addr, NEW n \in 0 .. MaxSize, Construct(b, n)
      PROVE  t \in DOMAIN seg2ptr' /\ seg2ptr'[t] = seg2ptr[t]
  BY <1>1 DEF Construct, Assign, Insert
<1>2. ASSUME NEW n \in 0 .. MaxSize, ConstructThrows(n)
      PROVE  t \in DOMAIN seg2ptr' /\ seg2ptr'[t] = seg2ptr[t]
  BY <1>2 DEF ConstructThrows, model
<1>3. ASSUME NEW b \in Addr, Destroy(b)
      PROVE  t \in DOMAIN seg2ptr' /\ seg2ptr'[t] = seg2ptr[t]
  <2>1. /\ b \in DOMAIN ptr2seg /\ seg2ptr[ptr2seg[b]] = b
        /\ seg2ptr' = Erase(seg2ptr, ptr2seg[b]) /\ blocks' = Erase(blocks, b)
    BY <1>3 DEF Destroy, IInv, SegmentsConsistent, OwnersRegistered, MapsInverse
  <2>2. b \notin DOMAIN blocks'
    BY <2>1 DEF Erase, Restrict
  <2>3. t # ptr2seg[b]
    BY <2>1, <2>2
  <2> QED
    BY <2>1, <2>3 DEF Erase, Restrict
<1>4. ASSUME CellStep
      PROVE  t \in DOMAIN seg2ptr' /\ seg2ptr'[t] = seg2ptr[t]
  BY <1>4, CellStepEffect DEF IInv
<1> QED
  BY <1>1, <1>2, <1>3, <1>4, StepCases

\* A pointer stored in a cell keeps its meaning until the cell is written or
\* the block it points into is released, whatever else is allocated, released
\* or reuses a segment meanwhile.
THEOREM PointersStable == Spec => StoredPointersStable
<1> DEFINE Kept ==
        \A c \in Cells :
          ( /\ cells'[c] = cells[c]
            /\ cells[c].seg \in DOMAIN seg2ptr
            /\ seg2ptr[cells[c].seg] \in DOMAIN blocks' )
          => ReadPointer(cells[c])' = ReadPointer(cells[c])
<1>1. ASSUME IInv, Next PROVE Kept
  <2> SUFFICES ASSUME NEW c \in Cells, cells'[c] = cells[c],
                      cells[c].seg \in DOMAIN seg2ptr,
                      seg2ptr[cells[c].seg] \in DOMAIN blocks'
               PROVE  ReadPointer(cells[c])' = ReadPointer(cells[c])
    OBVIOUS
  <2>1. /\ cells[c].seg \in DOMAIN seg2ptr'
        /\ seg2ptr'[cells[c].seg] = seg2ptr[cells[c].seg]
    BY <1>1, SegmentKept
  <2> QED
    BY <2>1 DEF ReadPointer
<1>2. IInv /\ [Next]_vars => [Kept]_vars
  BY <1>1
<1> QED
  BY <1>2, AlwaysIInv, PTL DEF Spec, StoredPointersStable

----------------------------------------------------------------------------
(* Round trip.  Blocks never overlap, so the nearest block at or below an   *)
(* address inside a block is that block.                                    *)

BlocksDisjoint ==
    \A b, c \in DOMAIN blocks : b < c => b + blocks[b] + Gap <= c

RInv == IInv /\ BlocksDisjoint

\* Blocks stay apart: a new one is placed between the others.
LEMMA NextRInv == RInv /\ [Next]_vars => RInv'
<1> SUFFICES ASSUME RInv, [Next]_vars PROVE BlocksDisjoint'
  BY NextIInv DEF RInv
<1> USE AddrAssumption, SizeAssumption DEF RInv
<1>0. TypeOK /\ DOMAIN blocks \subseteq Nat /\ \A x \in DOMAIN blocks : blocks[x] \in Nat
  BY DEF IInv, TypeOK
<1>1. ASSUME NEW b \in Addr, NEW n \in 0 .. MaxSize, Construct(b, n)
      PROVE  BlocksDisjoint'
  <2>1. /\ DOMAIN blocks' = DOMAIN blocks \cup {b} /\ b \notin DOMAIN blocks
        /\ blocks' = [x \in DOMAIN blocks' |-> IF x \in DOMAIN blocks THEN blocks[x] ELSE n]
        /\ Placeable(b, n) /\ n \in Nat /\ b \in Nat
    BY <1>1 DEF Construct, Insert
  <2> SUFFICES ASSUME NEW x \in DOMAIN blocks', NEW y \in DOMAIN blocks', x < y
               PROVE  x + blocks'[x] + Gap <= y
    BY DEF BlocksDisjoint
  <2>2. CASE x \in DOMAIN blocks /\ y \in DOMAIN blocks
    BY <2>1, <2>2 DEF BlocksDisjoint
  <2>3. CASE x = b /\ y \in DOMAIN blocks
    BY <1>0, <2>1, <2>3 DEF Placeable
  <2>4. CASE x \in DOMAIN blocks /\ y = b
    BY <1>0, <2>1, <2>4 DEF Placeable
  <2> QED
    BY <1>0, <2>1, <2>2, <2>3, <2>4
<1>2. ASSUME NEW b \in Addr, Destroy(b)
      PROVE  BlocksDisjoint'
  BY <1>2 DEF Destroy, Erase, Restrict, BlocksDisjoint
<1>3. ASSUME UNCHANGED blocks PROVE BlocksDisjoint'
  BY <1>3 DEF BlocksDisjoint
<1>4. CASE Next
  <2>1. (\E n \in 0 .. MaxSize : ConstructThrows(n)) => UNCHANGED blocks
    BY DEF ConstructThrows
  <2>2. CellStep => UNCHANGED blocks
    BY <1>0, CellStepEffect
  <2> QED
    BY <1>1, <1>2, <1>3, <1>4, <2>1, <2>2, StepCases
<1>5. CASE UNCHANGED vars
  BY <1>3, <1>5 DEF vars
<1> QED
  BY <1>4, <1>5

\* An address inside a block, or at its end, is charged to that block.
LEMMA NearestIsOwner ==
    ASSUME RInv, NEW b \in DOMAIN blocks, NEW ptr \in b .. b + blocks[b]
    PROVE  \A c : IsNearest(c, ptr) <=> c = b
<1> USE AddrAssumption DEF RInv
<1>1. /\ TypeOK /\ DOMAIN ptr2seg = DOMAIN blocks /\ DOMAIN blocks \subseteq Nat \ {0}
      /\ \A x \in DOMAIN blocks : blocks[x] \in Nat
  BY DEF IInv, TypeOK, SegmentsConsistent, OwnersRegistered
<1>2. ptr \in Nat /\ b <= ptr /\ ptr <= b + blocks[b]
  BY <1>1
<1>3. \A c \in DOMAIN blocks : c <= ptr => c <= b
  BY <1>1, <1>2 DEF BlocksDisjoint
<1>4. IsNearest(b, ptr)
  BY <1>1, <1>2, <1>3 DEF IsNearest
<1>5. ASSUME NEW c, IsNearest(c, ptr) PROVE c = b
  BY <1>1, <1>2, <1>3, <1>5 DEF IsNearest
<1> QED
  BY <1>4, <1>5

\* Every address of a live block whose offset is representable survives being
\* written to a cell, for blocks of every size and layout, and the word names
\* the segment of its own block.
THEOREM RoundTripSafe == Spec => []RoundTrip
<1>1. Init => RInv
  BY InitIInv DEF Init, NoEntry, RInv, BlocksDisjoint
<1>2. RInv => RoundTrip
  <2> SUFFICES ASSUME RInv, NEW b \in DOMAIN blocks,
                      NEW ptr \in b .. b + blocks[b], ptr - b <= MaxOff
               PROVE  /\ Encodings(ptr) # {}
                      /\ \A w \in Encodings(ptr) :
                            w.seg = ptr2seg[b] /\ ReadPointer(w) = ptr
    BY DEF RoundTrip
  <2> DEFINE own == [seg |-> ptr2seg[b], off |-> ptr - b]
  <2>1. /\ b \in DOMAIN ptr2seg /\ ptr2seg[b] \in Segment /\ b \in Nat /\ blocks[b] \in Nat
        /\ ptr2seg[b] \in DOMAIN seg2ptr /\ seg2ptr[ptr2seg[b]] = b
    BY AddrAssumption DEF RInv, IInv, TypeOK, SegmentsConsistent, OwnersRegistered, MapsInverse
  <2>2. ptr \in Nat /\ b <= ptr /\ ptr - b \in 0 .. MaxOff
    BY <2>1, OffAssumption
  <2>3. own \in Word /\ own # Null
    BY <2>1, <2>2, SegAssumption DEF Word, Null, Segment
  <2>4. \A c : IsNearest(c, ptr) <=> c = b
    BY NearestIsOwner
  <2>5. own \in Encodings(ptr)
    BY <2>1, <2>2, <2>3, <2>4 DEF Encodings
  <2>6. ASSUME NEW w \in Encodings(ptr) PROVE w = own
    BY <2>1, <2>2, <2>4, <2>6, OffAssumption DEF Encodings
  <2>7. ReadPointer(own) = ptr
    BY <2>1, <2>2, <2>3 DEF ReadPointer
  <2> QED
    BY <2>5, <2>6, <2>7
<1> QED
  BY <1>1, <1>2, NextRInv, PTL DEF Spec


----------------------------------------------------------------------------
(* The pointer model implements the store of blocks.                        *)

\* A construction fails exactly when every segment is in use.
LEMMA FullFact ==
    ASSUME IInv
    PROVE  /\ Cardinality(DOMAIN blocks) \in Nat
           /\ released = <<>> /\ fresh >= MaxSeg => Cardinality(DOMAIN blocks) = MaxSeg - 1
           /\ released # <<>> \/ fresh < MaxSeg => Cardinality(DOMAIN blocks) < MaxSeg - 1
<1>1. /\ Cardinality(DOMAIN blocks) \in Nat /\ fresh \in 1 .. MaxSeg
      /\ Cardinality(DOMAIN blocks) + Len(released) = fresh - 1
  BY FS_CardinalityType DEF IInv, Counting, TypeOK
<1>2. Len(released) \in Nat /\ (released = <<>> <=> Len(released) = 0)
  BY LenProperties, EmptySeq DEF IInv, TypeOK
<1> QED
  BY <1>1, <1>2, SegAssumption

\* The store counts its blocks as the model does.
LEMMA SameCardinality == \A S : Promise!Cardinality(S) = Cardinality(S)
BY DEF Promise!Cardinality, Cardinality

\* Every step of the pointer model is a step of the store of blocks, or none:
\* however allocations and releases are interleaved, a block is refused only
\* when MaxSeg - 1 blocks live, and every release makes room for one.
THEOREM ModelKeepsPromise == Spec => KeepsPromise
<1>1. Init => Promise!Init
  BY DEF Init, NoEntry, Promise!Init
<1>2. IInv /\ [Next]_vars => [Promise!Next]_(Promise!vars)
  <2> SUFFICES ASSUME IInv, [Next]_vars
               PROVE  Promise!Next \/ UNCHANGED <<blocks, counted, lost>>
    BY DEF Promise!vars
  <2>1. ASSUME NEW b \in Addr, NEW n \in 0 .. MaxSize, Construct(b, n)
        PROVE  Promise!Alloc(b, n)
    <3>1. released # <<>> \/ fresh < MaxSeg
      BY <2>1 DEF Construct, Assign
    <3>2. Cardinality(DOMAIN blocks) < MaxSeg - 1
      BY <3>1, FullFact
    <3>3. /\ b \notin DOMAIN blocks /\ blocks' = Insert(blocks, b, n)
          /\ counted' = counted + n /\ lost' = lost
      BY <2>1 DEF Construct
    <3>4. blocks' = [x \in DOMAIN blocks \cup {b} |-> IF x = b THEN n ELSE blocks[x]]
      BY ONLY <3>3 DEF Insert
    <3> QED
      BY ONLY <3>2, <3>3, <3>4, SameCardinality DEF Promise!Alloc
  <2>2. ASSUME NEW n \in 0 .. MaxSize, ConstructThrows(n)
        PROVE  Promise!Refuse(n)
    BY <2>2, FullFact, SameCardinality DEF ConstructThrows, Promise!Refuse
  <2>3. ASSUME NEW b \in Addr, Destroy(b)
        PROVE  Promise!Free(b)
    BY <2>3 DEF Destroy, Erase, Restrict, Promise!Free
  <2>4. ASSUME CellStep PROVE UNCHANGED <<blocks, counted, lost>>
    BY <2>4, CellStepEffect DEF IInv
  <2>5. CASE Next
    BY <2>1, <2>2, <2>3, <2>4, <2>5, StepCases DEF Promise!Next
  <2>6. CASE UNCHANGED vars
    BY <2>6 DEF vars
  <2> QED
    BY <2>5, <2>6
<1> QED
  BY <1>1, <1>2, AlwaysIInv, PTL DEF Spec, KeepsPromise, Promise!Spec

============================================================================
