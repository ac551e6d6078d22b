--------------------------- MODULE InputFlowProofs ---------------------------
(****************************************************************************)
(* Proofs about the input flow, for every program, every number of inputs,  *)
(* places and frames: no dependency is missed, nothing is left behind, the  *)
(* sets stay interned.                                                      *)
(*                                                                          *)
(* Every instruction writes to the record of a byte at least what the byte  *)
(* depends on then, read before the write. The exception is an external     *)
(* function, whose result is computed at the call and recorded at the       *)
(* return: in between what it depends on is in the records of the           *)
(* parameters.                                                              *)
(****************************************************************************)
EXTENDS InputFlow, SequenceTheorems, TLAPS

----------------------------------------------------------------------------
(* Stacks.                                                                  *)

\* A stack loses its last element when it is popped.
LEMMA PopFact ==
    ASSUME NEW S, NEW s \in Seq(S), s # <<>>
    PROVE  /\ Len(s) \in Nat \ {0} /\ Last(s) = s[Len(s)] /\ Last(s) \in S
           /\ Front(s) \in Seq(S) /\ Len(Front(s)) = Len(s) - 1
           /\ \A i \in 1 .. Len(s) - 1 : Front(s)[i] = s[i]
<1>1. Len(s) \in Nat \ {0}
  BY EmptySeq
<1>2. \A i \in 1 .. Len(s) : s[i] \in S
  BY ElementOfSeq
<1>3. \A i \in 1 .. Len(s) - 1 : s[i] \in S
  BY <1>1, <1>2
<1>4. /\ SubSeq(s, 1, Len(s) - 1) \in Seq(S)
      /\ Len(SubSeq(s, 1, Len(s) - 1)) =
            IF 1 <= Len(s) - 1 THEN Len(s) - 1 - 1 + 1 ELSE 0
      /\ \A i \in 1 .. Len(s) - 1 - 1 + 1 : SubSeq(s, 1, Len(s) - 1)[i] = s[1 + i - 1]
  BY <1>1, <1>3, SubSeqProperties
<1>5. \A i \in 1 .. Len(s) - 1 : SubSeq(s, 1, Len(s) - 1)[i] = s[i]
  BY <1>1, <1>4
<1>6. Len(SubSeq(s, 1, Len(s) - 1)) = Len(s) - 1
  <2>1. \A n \in Nat : \A k : k = (IF 1 <= n - 1 THEN n - 1 - 1 + 1 ELSE 0) /\ n # 0 => k = n - 1
    OBVIOUS
  <2> QED
    BY ONLY <1>1, <1>4, <2>1, Zenon
<1>7. Last(s) = s[Len(s)] /\ Front(s) = SubSeq(s, 1, Len(s) - 1)
  BY DEF Last, Front
<1>8. s[Len(s)] \in S
  BY <1>1, <1>2
<1> QED
  BY <1>1, <1>4, <1>5, <1>6, <1>7, <1>8

\* An element pushed on a stack joins its elements.
LEMMA PushFact ==
    ASSUME NEW S, NEW s \in Seq(S), NEW e \in S
    PROVE  /\ Append(s, e) \in Seq(S) /\ Len(Append(s, e)) = Len(s) + 1
           /\ DOMAIN Append(s, e) = DOMAIN s \cup {Len(s) + 1}
           /\ \A i \in DOMAIN s : Append(s, e)[i] = s[i]
           /\ Append(s, e)[Len(s) + 1] = e
           /\ Len(s) + 1 \notin DOMAIN s
<1>1. /\ Append(s, e) \in Seq(S) /\ Len(Append(s, e)) = Len(s) + 1
      /\ \A i \in 1 .. Len(s) : Append(s, e)[i] = s[i]
      /\ Append(s, e)[Len(s) + 1] = e
  BY AppendProperties
<1>2. /\ Len(s) \in Nat /\ DOMAIN s = 1 .. Len(s)
      /\ DOMAIN Append(s, e) = 1 .. Len(Append(s, e))
  BY <1>1, LenProperties
<1> QED
  BY ONLY <1>1, <1>2

----------------------------------------------------------------------------
(* Bytes and places.                                                        *)

LEMMA ByteFact ==
    /\ \A s \in Slot, i \in Int : i \in 1 .. Size[s] => <<s, i>> \in Byte
    /\ \A b \in Byte : /\ b = <<b[1], b[2]>> /\ b[1] \in Slot
                       /\ b[2] \in Nat \ {0} /\ b[2] <= Size[b[1]]
    /\ \A s \in Slot : Size[s] \in Nat \ {0}
BY SlotAssumption DEF Byte

LEMMA BytesOfFact ==
    /\ \A S : BytesOf(S) \subseteq Byte
    /\ \A S, T : S \subseteq T => BytesOf(S) \subseteq BytesOf(T)
    /\ \A S, b : b \in BytesOf(S) <=> b \in Byte /\ b[1] \in S
BY DEF BytesOf

\* The byte at the same place of a block of the same size.
LEMMA AtFact ==
    ASSUME NEW b \in Byte, NEW s \in Slot, Size[s] = Size[b[1]]
    PROVE  At(b, s) \in Byte /\ At(b, s) \in BytesOf({s})
<1>1. b[2] \in 1 .. Size[s] /\ b[2] \in Int
  BY ByteFact
<1>2. <<s, b[2]>> \in Byte
  BY <1>1, ByteFact
<1> QED
  BY <1>2 DEF At, BytesOf

----------------------------------------------------------------------------
(* Frames.                                                                  *)

\* The places of all frames of a stack.
Slots(fs) == UNION {SlotsOf(f) : f \in Range(fs)}

LEMMA StackSplit ==
    ASSUME NEW fs \in Seq(Frame), fs # <<>>
    PROVE  /\ Front(fs) \in Seq(Frame) /\ Last(fs) \in Frame
           /\ Range(fs) = Range(Front(fs)) \cup {Last(fs)}
           /\ Front(fs) # <<>> => Last(Front(fs)) \in Range(Front(fs))
           /\ Len(fs) > 1 <=> Front(fs) # <<>>
<1>1. /\ Len(fs) \in Nat \ {0} /\ Last(fs) = fs[Len(fs)] /\ Last(fs) \in Frame
      /\ Front(fs) \in Seq(Frame) /\ Len(Front(fs)) = Len(fs) - 1
      /\ \A i \in 1 .. Len(fs) - 1 : Front(fs)[i] = fs[i]
  BY PopFact
<1>2. DOMAIN fs = 1 .. Len(fs) /\ DOMAIN Front(fs) = 1 .. Len(fs) - 1
  BY <1>1, LenProperties
<1>3. Range(fs) = Range(Front(fs)) \cup {Last(fs)}
  BY <1>1, <1>2 DEF Range
<1>4. ASSUME Front(fs) # <<>> PROVE Last(Front(fs)) \in Range(Front(fs))
  <2>1. Last(Front(fs)) = Front(fs)[Len(fs) - 1] /\ Len(fs) - 1 \in Nat \ {0}
    BY <1>1, <1>4, PopFact
  <2> QED
    BY <1>2, <2>1 DEF Range
<1>5. Len(fs) > 1 <=> Front(fs) # <<>>
  BY <1>1, EmptySeq
<1> QED
  BY <1>1, <1>3, <1>4, <1>5

LEMMA StackPush ==
    ASSUME NEW fs \in Seq(Frame), NEW f \in Frame
    PROVE  /\ Append(fs, f) \in Seq(Frame) /\ Append(fs, f) # <<>>
           /\ Front(Append(fs, f)) = fs /\ Last(Append(fs, f)) = f
           /\ Range(Append(fs, f)) = Range(fs) \cup {f}
<1> DEFINE s == Append(fs, f)
<1>1. /\ s \in Seq(Frame) /\ Len(s) = Len(fs) + 1 /\ Len(fs) \in Nat
      /\ \A i \in 1 .. Len(fs) : s[i] = fs[i]
      /\ s[Len(fs) + 1] = f
  BY AppendProperties, LenProperties
<1>2. s # <<>>
  BY <1>1, EmptySeq
<1> HIDE DEF s
<1>3. /\ Last(s) = f /\ Front(s) \in Seq(Frame) /\ Len(Front(s)) = Len(fs)
      /\ \A i \in 1 .. Len(fs) : Front(s)[i] = fs[i]
  BY <1>1, <1>2, PopFact
<1>4. Front(s) = fs
  BY <1>1, <1>3, SeqEqual
<1>5. DOMAIN s = 1 .. Len(fs) + 1 /\ DOMAIN fs = 1 .. Len(fs)
  BY <1>1, LenProperties
<1>6. Range(s) = Range(fs) \cup {f}
  BY <1>1, <1>5 DEF Range
<1> QED
  BY <1>1, <1>2, <1>3, <1>4, <1>6 DEF s

LEMMA LiveFact ==
    ASSUME TypeOK
    PROVE  /\ Live = Statics \cup heap \cup Slots(frames)
           /\ Slots(frames) = Slots(Front(frames)) \cup SlotsOf(Top)
           /\ Variables \subseteq Live /\ Live \subseteq Slot
           /\ Top \in Frame /\ Front(frames) \in Seq(Frame)
<1>1. frames \in Seq(Frame) /\ frames # <<>> /\ heap \subseteq Slot
  BY DEF TypeOK
<1>2. Live = Statics \cup heap \cup Slots(frames)
  BY DEF Live, Slots
<1>3. /\ Range(frames) = Range(Front(frames)) \cup {Top} /\ Top \in Frame
      /\ Front(frames) \in Seq(Frame)
  BY <1>1, StackSplit DEF Top
<1>4. Slots(frames) = Slots(Front(frames)) \cup SlotsOf(Top)
  BY <1>3 DEF Slots
<1>5. \A f \in Frame : SlotsOf(f) \subseteq Slot
  <2> TAKE f \in Frame
  <2>1. f.locals \in Seq(Slot) /\ f.params \subseteq Slot /\ f.va \subseteq Slot
    BY DEF Frame
  <2>2. Range(f.locals) \subseteq Slot
    BY <2>1 DEF Range
  <2> QED
    BY <2>1, <2>2 DEF SlotsOf
<1>6. Range(frames) \subseteq Frame
  BY <1>1 DEF Range
<1>7. Live \subseteq Slot
  BY <1>1, <1>2, <1>5, <1>6, SlotAssumption DEF Slots
<1> QED
  BY <1>2, <1>3, <1>4, <1>7 DEF Variables

----------------------------------------------------------------------------
(* Records.                                                                 *)

Flows ==
    /\ DOMAIN flow \subseteq Byte /\ Range(flow) \subseteq SUBSET Inputs
    /\ handles \subseteq SUBSET Inputs
    /\ Interned

LEMMA ReadType ==
    ASSUME Flows
    PROVE  \A b : Read(b) \in SUBSET Inputs
BY DEF Flows, Read, NoFlow, Range

LEMMA WriteFact ==
    ASSUME Flows, NEW D \in SUBSET Byte, NEW g \in [D -> SUBSET Inputs], Write(g)
    PROVE  /\ Flows' /\ DOMAIN flow' = DOMAIN flow \cup D
           /\ \A b : Read(b)' = IF b \in D THEN g[b] ELSE Read(b)
<1>1. /\ flow' = [b \in DOMAIN flow \cup D |-> IF b \in D THEN g[b] ELSE flow[b]]
      /\ handles' = handles \cup Range(g) /\ DOMAIN g = D
  BY DEF Write
<1>2. DOMAIN flow' = DOMAIN flow \cup D
  BY <1>1
<1>3. \A b \in DOMAIN flow' : flow'[b] = IF b \in D THEN g[b] ELSE flow[b]
  BY <1>1
<1>4. Range(g) \subseteq SUBSET Inputs
  BY DEF Range
<1>5. Range(flow') \subseteq Range(flow) \cup Range(g)
  BY <1>1, <1>2, <1>3 DEF Range
<1>6. Flows'
  BY <1>1, <1>2, <1>4, <1>5 DEF Flows, Interned
<1>7. \A b : Read(b)' = IF b \in D THEN g[b] ELSE Read(b)
  BY <1>2, <1>3 DEF Read
<1> QED
  BY <1>2, <1>6, <1>7

LEMMA ClearFact ==
    ASSUME Flows, NEW B, Clear(B)
    PROVE  /\ Flows' /\ DOMAIN flow' = DOMAIN flow \ B
           /\ \A b : Read(b)' = IF b \in B THEN {} ELSE Read(b)
<1>1. flow' = [b \in DOMAIN flow \ B |-> flow[b]]
  BY DEF Clear, Restrict
<1>2. DOMAIN flow' = DOMAIN flow \ B
  BY <1>1
<1>3. \A b \in DOMAIN flow' : flow'[b] = flow[b]
  BY <1>1
<1>4. Range(flow') \subseteq Range(flow)
  BY <1>2, <1>3 DEF Range
<1>5. handles' = handles \ ({flow[b] : b \in B \cap DOMAIN flow}
                                \ ({NoFlow} \cup Range(flow')))
  BY DEF Clear
<1>6. Flows'
  BY <1>2, <1>4, <1>5 DEF Flows, Interned
<1>7. \A b : Read(b)' = IF b \in B THEN {} ELSE Read(b)
  BY <1>2, <1>3 DEF Read, NoFlow
<1> QED
  BY <1>2, <1>6, <1>7

LEMMA ComputeFact ==
    ASSUME deps \in [Byte -> SUBSET Inputs], NEW D, NEW h \in [D -> SUBSET Inputs],
           Compute(h)
    PROVE  /\ deps' \in [Byte -> SUBSET Inputs]
           /\ \A b \in Byte : deps'[b] = IF b \in D THEN h[b] ELSE deps[b]
BY DEF Compute

----------------------------------------------------------------------------
(* The inductive invariant.                                                 *)

\* Only the frame on top may be one of an external function with a result, and
\* the result lies below it; it has parameters only.
Calls ==
    /\ \A f \in Range(Front(frames)) : f.dst = {}
    /\ Front(frames) = <<>> => Top.dst = {}
    /\ Top.dst \subseteq Statics \cup heap \cup Slots(Front(frames))
    /\ Top.dst # {} => SlotsOf(Top) = Top.params

\* What the return will find for byte b of the result.
Carried(b) ==
    IF Top.joins # <<>> THEN deps[b] \subseteq JoinOf(BytesOf(Last(Top.joins)))
    ELSE \A s \in Top.params : deps[b] \subseteq Read(Mirrored(b, s))

\* Every dependency is recorded, or will be by the return.
Covered ==
    /\ \A b \in Byte \ BytesOf(Top.dst) : deps[b] \subseteq Read(b)
    /\ ~InFunction /\ ~Lossy => \A b \in BytesOf(Top.dst) : Carried(b)

Covers == \A b \in Byte : deps[b] \subseteq Read(b)

IInv == TypeOK /\ Interned /\ NoLeftovers /\ Calls /\ Covered

LEMMA FunctionFacts ==
    ASSUME IInv
    PROVE  /\ Flows /\ deps \in [Byte -> SUBSET Inputs]
           /\ InFunction => Covers
<1>1. BytesOf({}) = {}
  BY DEF BytesOf
<1> QED
  BY <1>1 DEF IInv, TypeOK, Flows, InFunction, Covered, Covers

\* What a step of a function has to show.
LEMMA Assemble ==
    ASSUME TypeOK', Interned', NoLeftovers', Calls', Covers', InFunction'
    PROVE  IInv'
BY DEF IInv, Covered, Covers, InFunction

\* The inputs of several bytes.
LEMMA UnionFact ==
    ASSUME Flows, deps \in [Byte -> SUBSET Inputs], Covers, NEW B \in SUBSET Byte
    PROVE  /\ DepsOf(B) \subseteq JoinOf(B) /\ JoinOf(B) \in SUBSET Inputs
           /\ DepsOf(B) \in SUBSET Inputs
BY ReadType DEF Covers, DepsOf, JoinOf

----------------------------------------------------------------------------
(* Instructions that keep the blocks.                                       *)

\* The record of each byte that is written has what the byte depends on.
LEMMA MirrorStep ==
    ASSUME IInv, InFunction, SameMemory,
           NEW D \in SUBSET BytesOf(Live),
           NEW g \in [D -> SUBSET Inputs], NEW h \in [D -> SUBSET Inputs],
           Write(g), Compute(h), \A b \in D : h[b] \subseteq g[b]
    PROVE  IInv'
<1>1. Flows /\ Covers /\ deps \in [Byte -> SUBSET Inputs] /\ D \subseteq Byte
  BY FunctionFacts, BytesOfFact
<1>2. /\ Flows' /\ DOMAIN flow' = DOMAIN flow \cup D
      /\ \A b : Read(b)' = IF b \in D THEN g[b] ELSE Read(b)
  BY <1>1, WriteFact
<1>3. /\ deps' \in [Byte -> SUBSET Inputs]
      /\ \A b \in Byte : deps'[b] = IF b \in D THEN h[b] ELSE deps[b]
  BY <1>1, ComputeFact
<1>4. frames' = frames /\ heap' = heap /\ stale' = stale
  BY DEF SameMemory
<1>5. TypeOK'
  BY <1>2, <1>3, <1>4 DEF IInv, TypeOK, Flows
<1>6. Interned' /\ Calls' /\ InFunction'
  BY <1>2, <1>4 DEF IInv, Flows, Calls, Top, InFunction, Slots
<1>7. NoLeftovers'
  BY <1>2, <1>4 DEF IInv, NoLeftovers, Live
<1>8. Covers'
  BY <1>1, <1>2, <1>3 DEF Covers
<1> QED
  BY <1>5, <1>6, <1>7, <1>8, Assemble

LEMMA StartStep ==
    ASSUME IInv, NEW s \in Live, NEW i \in Inputs, Start(s, i) \/ StartExtend(s, i)
    PROVE  IInv'
<1>1. /\ BytesOf({s}) \subseteq BytesOf(Live) /\ BytesOf({s}) \subseteq Byte
      /\ Flows /\ deps \in [Byte -> SUBSET Inputs]
  BY FunctionFacts, BytesOfFact
<1>2. CASE Start(s, i)
  <2> DEFINE g == [b \in BytesOf({s}) |-> {i}]
  <2>1. g \in [BytesOf({s}) -> SUBSET Inputs] /\ \A b \in BytesOf({s}) : g[b] \subseteq g[b]
    OBVIOUS
  <2>2. InFunction /\ SameMemory /\ Write(g) /\ Compute(g)
    BY <1>2 DEF Start
  <2> HIDE DEF g
  <2> QED
    BY <1>1, <2>1, <2>2, MirrorStep
<1>3. CASE StartExtend(s, i)
  <2> DEFINE g == [b \in BytesOf({s}) |-> Read(b) \cup {i}]
             h == [b \in BytesOf({s}) |-> deps[b] \cup {i}]
  <2>1. InFunction /\ SameMemory /\ Write(g) /\ Compute(h)
    BY <1>3 DEF StartExtend
  <2>2. g \in [BytesOf({s}) -> SUBSET Inputs] /\ h \in [BytesOf({s}) -> SUBSET Inputs]
    BY <1>1, ReadType
  <2>3. \A b \in BytesOf({s}) : h[b] \subseteq g[b]
    BY <1>1, <2>1, FunctionFacts DEF Covers
  <2> HIDE DEF g, h
  <2> QED
    BY <1>1, <2>1, <2>2, <2>3, MirrorStep
<1> QED
  BY <1>2, <1>3

\* The bytes of D get records and values of the bytes that src names, or of none.
LEMMA MoveStep ==
    ASSUME IInv, InFunction, SameMemory,
           NEW D \in SUBSET BytesOf(Live), NEW src \in [D -> Byte],
           Write([b \in D |-> Read(src[b])]), Compute([b \in D |-> deps[src[b]]])
    PROVE  IInv'
<1> DEFINE g == [b \in D |-> Read(src[b])]
           h == [b \in D |-> deps[src[b]]]
<1>1. Flows /\ deps \in [Byte -> SUBSET Inputs] /\ Covers
  BY FunctionFacts
<1>2. g \in [D -> SUBSET Inputs] /\ h \in [D -> SUBSET Inputs]
  BY <1>1, ReadType
<1>3. \A b \in D : h[b] \subseteq g[b]
  BY <1>1 DEF Covers
<1>4. Write(g) /\ Compute(h)
  OBVIOUS
<1> HIDE DEF g, h
<1> QED
  BY <1>2, <1>3, <1>4, MirrorStep

LEMMA CopyStep ==
    ASSUME IInv, NEW d \in Live, NEW s \in Live, NEW a \in Areas(d), NEW i \in 1 .. Size[s],
           i + a[2] - 1 <= Size[s], Copy(d, a[1], s, i, a[2])
    PROVE  IInv'
<1> DEFINE D == Area(d, a[1], a[2])
           src == [b \in D |-> Across(b, s, i, a[1])]
<1>1. D \in SUBSET BytesOf(Live) /\ s \in Slot /\ d \in Slot
  BY BytesOfFact, LiveFact DEF Area, IInv
<1>2. /\ a[1] \in Nat /\ a[2] \in Nat /\ a[1] >= 1 /\ i \in Nat /\ i >= 1
      /\ Size[s] \in Nat
  BY <1>1, ByteFact DEF Areas
<1>3. ASSUME NEW b \in D PROVE Across(b, s, i, a[1]) \in Byte
  <2>1. b[2] \in Nat /\ b[2] >= a[1] /\ b[2] <= a[1] + a[2] - 1
    BY <1>2, <1>3, BytesOfFact, ByteFact DEF Area
  <2>2. b[2] - a[1] + i \in 1 .. Size[s] /\ b[2] - a[1] + i \in Int
    BY <1>2, <2>1
  <2> QED
    BY <1>1, <2>2, ByteFact DEF Across
<1>4. src \in [D -> Byte]
  BY <1>3
<1>5. /\ [b \in D |-> Read(Across(b, s, i, a[1]))] = [b \in D |-> Read(src[b])]
      /\ [b \in D |-> deps[Across(b, s, i, a[1])]] = [b \in D |-> deps[src[b]]]
  OBVIOUS
<1>6. /\ InFunction /\ SameMemory
      /\ Write([b \in D |-> Read(src[b])]) /\ Compute([b \in D |-> deps[src[b]]])
  BY <1>5 DEF Copy
<1> HIDE DEF D, src
<1> QED
  BY <1>1, <1>4, <1>6, MoveStep

LEMMA SetStep ==
    ASSUME IInv, NEW d \in Live, NEW v \in Variables, NEW j, NEW n, Set(d, j, n, v)
    PROVE  IInv'
<1> DEFINE D == Area(d, j, n)
           src == [b \in D |-> <<v, 1>>]
<1>1. D \in SUBSET BytesOf(Live) /\ v \in Slot
  BY BytesOfFact, LiveFact DEF Area, IInv
<1>2. <<v, 1>> \in Byte
  BY <1>1, ByteFact
<1>3. src \in [D -> Byte]
  BY <1>2
<1>4. /\ [b \in D |-> Read(<<v, 1>>)] = [b \in D |-> Read(src[b])]
      /\ [b \in D |-> deps[<<v, 1>>]] = [b \in D |-> deps[src[b]]]
  OBVIOUS
<1>5. /\ InFunction /\ SameMemory
      /\ Write([b \in D |-> Read(src[b])]) /\ Compute([b \in D |-> deps[src[b]]])
  BY <1>4 DEF Set
<1> HIDE DEF D, src
<1> QED
  BY <1>1, <1>3, <1>5, MoveStep

LEMMA ExtendSignedStep ==
    ASSUME IInv, NEW v \in Variables, NEW s \in Variables, ExtendSigned(v, s)
    PROVE  IInv'
<1> DEFINE D == BytesOf({v})
           at(b) == <<s, IF b[2] <= Size[s] THEN b[2] ELSE Size[s]>>
           src == [b \in D |-> at(b)]
<1>1. D \in SUBSET BytesOf(Live) /\ s \in Slot
  BY BytesOfFact, LiveFact DEF IInv
<1>2. ASSUME NEW b \in D PROVE at(b) \in Byte
  <2>1. b[2] \in Nat \ {0} /\ Size[s] \in Nat \ {0}
    BY <1>1, <1>2, BytesOfFact, ByteFact
  <2>2. (IF b[2] <= Size[s] THEN b[2] ELSE Size[s]) \in 1 .. Size[s]
    BY <2>1
  <2>3. (IF b[2] <= Size[s] THEN b[2] ELSE Size[s]) \in Int
    BY <2>1
  <2> QED
    BY <1>1, <2>2, <2>3, ByteFact
<1>3. src \in [D -> Byte]
  BY <1>2
<1>4. /\ [b \in D |-> Read(at(b))] = [b \in D |-> Read(src[b])]
      /\ [b \in D |-> deps[at(b)]] = [b \in D |-> deps[src[b]]]
  OBVIOUS
<1>5. /\ InFunction /\ SameMemory
      /\ Write([b \in D |-> Read(src[b])]) /\ Compute([b \in D |-> deps[src[b]]])
  BY <1>4 DEF ExtendSigned
<1> HIDE DEF D, src
<1> QED
  BY <1>1, <1>3, <1>5, MoveStep

LEMMA JoinStep ==
    ASSUME IInv, NEW v \in Variables, NEW args, JoinInto(v, args)
    PROVE  IInv'
<1> DEFINE D == BytesOf({v})
           g == [b \in D |-> JoinOf(BytesOf(args))]
           h == [b \in D |-> DepsOf(BytesOf(args))]
<1>1. D \in SUBSET BytesOf(Live)
  BY BytesOfFact, LiveFact DEF IInv
<1>2. InFunction /\ SameMemory /\ Write(g) /\ Compute(h)
  BY DEF JoinInto
<1>3. /\ DepsOf(BytesOf(args)) \subseteq JoinOf(BytesOf(args))
      /\ JoinOf(BytesOf(args)) \in SUBSET Inputs /\ DepsOf(BytesOf(args)) \in SUBSET Inputs
  BY <1>2, BytesOfFact, FunctionFacts, UnionFact
<1>4. /\ g \in [D -> SUBSET Inputs] /\ h \in [D -> SUBSET Inputs]
      /\ \A b \in D : h[b] \subseteq g[b]
  BY <1>3
<1> HIDE DEF D, g, h
<1> QED
  BY <1>1, <1>2, <1>4, MirrorStep

LEMMA BitwiseStep ==
    ASSUME IInv, NEW v \in Variables, NEW args \in SUBSET Variables, Alike(v, args),
           Bitwise(v, args)
    PROVE  IInv'
<1> DEFINE D == BytesOf({v})
           from(b) == {At(b, a) : a \in args}
           g == [b \in D |-> JoinOf(from(b))]
           h == [b \in D |-> DepsOf(from(b))]
<1>1. D \in SUBSET BytesOf(Live) /\ Variables \subseteq Slot
  BY BytesOfFact, LiveFact DEF IInv
<1>2. InFunction /\ SameMemory /\ Write(g) /\ Compute(h)
  BY DEF Bitwise
<1>3. ASSUME NEW b \in D
      PROVE  /\ DepsOf(from(b)) \subseteq JoinOf(from(b))
             /\ JoinOf(from(b)) \in SUBSET Inputs /\ DepsOf(from(b)) \in SUBSET Inputs
  <2>1. b \in Byte /\ b[1] = v
    BY <1>3, BytesOfFact
  <2>2. from(b) \in SUBSET Byte
    BY <1>1, <2>1, AtFact DEF Alike
  <2> HIDE DEF from
  <2> QED
    BY <1>2, <2>2, FunctionFacts, UnionFact
<1>4. /\ g \in [D -> SUBSET Inputs] /\ h \in [D -> SUBSET Inputs]
      /\ \A b \in D : h[b] \subseteq g[b]
  BY <1>3
<1> HIDE DEF D, g, h
<1> QED
  BY <1>1, <1>2, <1>4, MirrorStep

LEMMA ExtendUnsignedStep ==
    ASSUME IInv, NEW v \in Variables, NEW s \in Variables, ExtendUnsigned(v, s)
    PROVE  IInv'
<1> DEFINE low  == Area(v, 1, Size[s])
           high == BytesOf({v}) \ low
           gone == {flow[b] : b \in high \cap DOMAIN flow}
           new  == {Read(At(b, s)) : b \in low}
           h    == [b \in BytesOf({v}) |-> IF b \in low THEN deps[At(b, s)] ELSE {}]
<1>1. /\ Flows /\ deps \in [Byte -> SUBSET Inputs] /\ Covers /\ InFunction
      /\ SameMemory /\ Compute(h)
  BY FunctionFacts DEF ExtendUnsigned
<1>2. /\ BytesOf({v}) \subseteq BytesOf(Live) /\ BytesOf({v}) \subseteq Byte
      /\ low \subseteq BytesOf({v}) /\ s \in Slot
  BY BytesOfFact, LiveFact DEF Area, IInv
<1>3. ASSUME NEW b \in low PROVE At(b, s) \in Byte
  <2>1. b[2] \in 1 .. Size[s] /\ b[2] \in Int /\ Size[s] \in Nat
    BY <1>2, <1>3, ByteFact DEF Area
  <2> QED
    BY <1>2, <2>1, ByteFact DEF At
<1>4. h \in [BytesOf({v}) -> SUBSET Inputs]
  BY <1>1, <1>3
<1>5. /\ deps' \in [Byte -> SUBSET Inputs]
      /\ \A b \in Byte : deps'[b] = IF b \in BytesOf({v}) THEN h[b] ELSE deps[b]
  BY <1>1, <1>4, ComputeFact
<1>6. /\ flow' = [b \in (DOMAIN flow \ high) \cup low |->
                     IF b \in low THEN Read(At(b, s)) ELSE flow[b]]
      /\ handles' = (handles \cup new) \ (gone \ ({NoFlow} \cup Range(flow')))
  BY DEF ExtendUnsigned
<1> HIDE DEF low, high, gone, new
<1>7. DOMAIN flow' = (DOMAIN flow \ high) \cup low
  BY <1>6
<1>8. \A b \in DOMAIN flow' : flow'[b] = IF b \in low THEN Read(At(b, s)) ELSE flow[b]
  BY <1>6
<1>9. new \subseteq SUBSET Inputs /\ \A b \in low : Read(At(b, s)) \in new
  BY <1>1, ReadType DEF new
<1>10. Range(flow') \subseteq Range(flow) \cup new
  BY <1>7, <1>8, <1>9 DEF Range
<1>11. Flows'
  BY <1>1, <1>2, <1>6, <1>7, <1>9, <1>10 DEF Flows, Interned
<1>12. \A b : Read(b)' = IF b \in low THEN Read(At(b, s))
                         ELSE IF b \in high THEN {} ELSE Read(b)
  BY <1>7, <1>8 DEF Read, NoFlow
<1>13. Covers'
  <2> SUFFICES ASSUME NEW b \in Byte PROVE deps'[b] \subseteq Read(b)'
    BY DEF Covers
  <2>1. CASE b \in low
    BY <1>1, <1>2, <1>3, <1>5, <1>12, <2>1 DEF Covers
  <2>2. CASE b \in BytesOf({v}) /\ b \notin low
    BY <1>5, <2>2
  <2>3. CASE b \notin BytesOf({v})
    BY <1>1, <1>2, <1>5, <1>12, <2>3 DEF Covers, high
  <2> QED
    BY <2>1, <2>2, <2>3
<1>14. frames' = frames /\ heap' = heap /\ stale' = stale
  BY <1>1 DEF SameMemory
<1>15. TypeOK' /\ Interned' /\ NoLeftovers' /\ Calls' /\ InFunction'
  BY <1>1, <1>2, <1>5, <1>7, <1>11, <1>14
     DEF IInv, TypeOK, Flows, NoLeftovers, Live, Calls, Top, InFunction, Slots
<1> QED
  BY <1>13, <1>15, Assemble

\* Bytes that get values without a dependency.
LEMMA ForgetFact ==
    ASSUME deps \in [Byte -> SUBSET Inputs], NEW B, Compute(Forget(B))
    PROVE  /\ deps' \in [Byte -> SUBSET Inputs]
           /\ \A b \in Byte : deps'[b] = IF b \in B THEN {} ELSE deps[b]
BY DEF Compute, Forget

\* They need no record.
LEMMA ForgetCovers ==
    ASSUME IInv, InFunction, NEW B, Compute(Forget(B)), flow' = flow
    PROVE  deps' \in [Byte -> SUBSET Inputs] /\ Covers'
<1>1. Covers /\ deps \in [Byte -> SUBSET Inputs]
  BY FunctionFacts
<1>2. /\ deps' \in [Byte -> SUBSET Inputs]
      /\ \A b \in Byte : deps'[b] = IF b \in B THEN {} ELSE deps[b]
  BY <1>1, ForgetFact
<1>3. \A b : Read(b)' = Read(b)
  BY DEF Read
<1> QED
  BY <1>1, <1>2, <1>3 DEF Covers

LEMMA OverwriteStep ==
    ASSUME IInv, NEW v, Overwrite(v)
    PROVE  IInv'
<1>1. /\ InFunction /\ flow' = flow /\ handles' = handles
      /\ frames' = frames /\ heap' = heap /\ stale' = stale
      /\ Compute(Forget(BytesOf({v})))
  BY DEF Overwrite, SameMemory
<1>2. deps' \in [Byte -> SUBSET Inputs] /\ Covers'
  BY <1>1, ForgetCovers
<1>3. TypeOK' /\ Interned' /\ NoLeftovers' /\ Calls' /\ InFunction'
  BY <1>1, <1>2
     DEF IInv, TypeOK, Interned, NoLeftovers, Live, Calls, Top, InFunction, Slots
<1> QED
  BY <1>2, <1>3, Assemble

----------------------------------------------------------------------------
(* Instructions that create and destroy blocks.                             *)

\* Another frame of the function on top.
LEMMA ReplaceTopFact ==
    ASSUME IInv, InFunction, NEW f \in Frame, f.dst = {}, ReplaceTop(f)
    PROVE  /\ frames' \in Seq(Frame) /\ frames' # <<>>
           /\ Calls' /\ InFunction' /\ Top' = f
           /\ Slots(frames') = Slots(Front(frames)) \cup SlotsOf(f)
<1>1. Front(frames) \in Seq(Frame) /\ frames' = Append(Front(frames), f)
  BY LiveFact DEF IInv, ReplaceTop
<1>2. /\ frames' \in Seq(Frame) /\ frames' # <<>>
      /\ Front(frames') = Front(frames) /\ Last(frames') = f
      /\ Range(frames') = Range(Front(frames)) \cup {f}
  BY <1>1, StackPush
<1> QED
  BY <1>2 DEF IInv, Calls, Top, InFunction, Slots

LEMMA AllocaStep ==
    ASSUME IInv, NEW s \in Free, NEW v, Alloca(s, v)
    PROVE  IInv'
<1> DEFINE f == [Top EXCEPT !.locals = Append(Top.locals, s)]
<1>1. /\ InFunction /\ ReplaceTop(f) /\ flow' = flow /\ handles' = handles
      /\ heap' = heap /\ stale' = stale /\ Compute(Forget(BytesOf({s, v})))
  BY DEF Alloca
<1>2. Top \in Frame /\ s \in Slot
  BY LiveFact DEF IInv, Free
<1>3. /\ Append(Top.locals, s) \in Seq(Slot)
      /\ Range(Top.locals) \subseteq Range(Append(Top.locals, s))
  <2>1. Top.locals \in Seq(Slot)
    BY <1>2 DEF Frame
  <2>2. /\ Append(Top.locals, s) \in Seq(Slot)
        /\ DOMAIN Append(Top.locals, s) = DOMAIN Top.locals \cup {Len(Top.locals) + 1}
        /\ \A i \in DOMAIN Top.locals : Append(Top.locals, s)[i] = Top.locals[i]
    BY <1>2, <2>1, PushFact
  <2> QED
    BY <2>2 DEF Range
<1>4. f \in Frame /\ f.dst = {} /\ SlotsOf(Top) \subseteq SlotsOf(f)
  BY <1>1, <1>2, <1>3 DEF Frame, InFunction, SlotsOf
<1> HIDE DEF f
<1>5. /\ frames' \in Seq(Frame) /\ frames' # <<>> /\ Calls' /\ InFunction'
      /\ Slots(frames') = Slots(Front(frames)) \cup SlotsOf(f)
  BY <1>1, <1>4, ReplaceTopFact
<1>6. Live \subseteq Live'
  BY <1>1, <1>4, <1>5, LiveFact DEF IInv, Live, Slots
<1>7. deps' \in [Byte -> SUBSET Inputs] /\ Covers'
  BY <1>1, ForgetCovers
<1>8. TypeOK' /\ Interned'
  BY <1>1, <1>5, <1>7 DEF IInv, TypeOK, Interned
<1>9. NoLeftovers'
  BY <1>1, <1>6, BytesOfFact DEF IInv, NoLeftovers
<1> QED
  BY <1>5, <1>7, <1>8, <1>9, Assemble

LEMMA MallocStep ==
    ASSUME IInv, NEW s \in Free, NEW v, Malloc(s, v)
    PROVE  IInv'
<1>1. /\ InFunction /\ frames' = frames /\ flow' = flow /\ handles' = handles
      /\ heap' = heap \cup {s} /\ stale' = stale /\ Compute(Forget(BytesOf({s, v})))
  BY DEF Malloc
<1>2. deps' \in [Byte -> SUBSET Inputs] /\ Covers'
  BY <1>1, ForgetCovers
<1>3. Live \subseteq Live' /\ s \in Slot
  BY <1>1 DEF Live, Free
<1>4. TypeOK' /\ Interned' /\ Calls' /\ InFunction'
  BY <1>1, <1>2, <1>3 DEF IInv, TypeOK, Interned, Calls, Top, InFunction, Slots
<1>5. NoLeftovers'
  BY <1>1, <1>3, BytesOfFact DEF IInv, NoLeftovers
<1> QED
  BY <1>2, <1>4, <1>5, Assemble

LEMMA StackRestoreStep ==
    ASSUME IInv, NEW k \in 0 .. Len(Top.locals), StackRestore(k)
    PROVE  IInv'
<1> DEFINE low == SubSeq(Top.locals, 1, k)
           high == SubSeq(Top.locals, k + 1, Len(Top.locals))
           gone == BytesOf(Range(high))
           f == [Top EXCEPT !.locals = low]
<1>1. /\ InFunction /\ ReplaceTop(f) /\ flow' = flow /\ handles' = handles
      /\ heap' = heap /\ stale' = stale \cup (gone \cap DOMAIN flow)
      /\ Compute(Forget(gone))
  BY DEF StackRestore
<1>2. Top \in Frame
  BY LiveFact DEF IInv
<1>3. low \in Seq(Slot) /\ Range(Top.locals) \subseteq Range(low) \cup Range(high)
  <2>1. Top.locals \in Seq(Slot) /\ Len(Top.locals) \in Nat
    BY <1>2, LenProperties DEF Frame
  <2>2. \A i \in 1 .. Len(Top.locals) : Top.locals[i] \in Slot
    BY <2>1, ElementOfSeq
  <2>3. low \in Seq(Slot) /\ high \in Seq(Slot)
    BY <2>1, <2>2, SubSeqProperties
  <2>4. /\ DOMAIN low = 1 .. k /\ \A i \in 1 .. k : low[i] = Top.locals[i]
        /\ DOMAIN high = 1 .. Len(Top.locals) - k
        /\ \A i \in 1 .. Len(Top.locals) - k : high[i] = Top.locals[k + i]
    BY <2>1, <2>2
  <2>5. DOMAIN Top.locals = 1 .. Len(Top.locals)
    BY <2>1, LenProperties
  <2>6. ASSUME NEW i \in 1 .. Len(Top.locals)
        PROVE  Top.locals[i] \in Range(low) \cup Range(high)
    <3>1. CASE i <= k
      <4>1. i \in 1 .. k
        BY <2>1, <3>1
      <4> QED
        BY <2>4, <4>1, Zenon DEF Range
    <3>2. CASE i > k
      <4>1. i - k \in 1 .. Len(Top.locals) - k /\ k + (i - k) = i
        BY <2>1, <3>2
      <4>2. high[i - k] = Top.locals[i]
        BY <2>4, <4>1
      <4> QED
        BY <2>4, <4>1, <4>2, Zenon DEF Range
    <3> QED
      BY <2>1, <3>1, <3>2
  <2> QED
    BY <2>3, <2>5, <2>6 DEF Range
<1>4. /\ f \in Frame /\ f.dst = {} /\ SlotsOf(Top) \subseteq SlotsOf(f) \cup Range(high)
  <2>1. f \in Frame /\ f.dst = {}
    BY <1>1, <1>2, <1>3 DEF Frame, InFunction
  <2>2. f.params = Top.params /\ f.va = Top.va /\ f.locals = low
    BY <1>2 DEF Frame
  <2> QED
    BY <1>3, <2>1, <2>2 DEF SlotsOf
<1> HIDE DEF f
<1>5. /\ frames' \in Seq(Frame) /\ frames' # <<>> /\ Calls' /\ InFunction'
      /\ Slots(frames') = Slots(Front(frames)) \cup SlotsOf(f)
  BY <1>1, <1>4, ReplaceTopFact
<1>6. Live \subseteq Live' \cup Range(high)
  BY <1>1, <1>4, <1>5, LiveFact DEF IInv, Live, Slots
<1>7. deps' \in [Byte -> SUBSET Inputs] /\ Covers'
  BY <1>1, ForgetCovers
<1>8. TypeOK' /\ Interned'
  BY <1>1, <1>5, <1>7, BytesOfFact DEF IInv, TypeOK, Interned
<1>9. NoLeftovers'
  <2>1. BytesOf(Live) \subseteq BytesOf(Live') \cup gone
    BY <1>6 DEF BytesOf
  <2> QED
    BY <1>1, <2>1 DEF IInv, NoLeftovers
<1> QED
  BY <1>5, <1>7, <1>8, <1>9, Assemble

\* Bytes that lose their records and what they depend on.
LEMMA ReleaseCovers ==
    ASSUME IInv, InFunction, NEW B, Clear(B), Compute(Forget(B))
    PROVE  /\ deps' \in [Byte -> SUBSET Inputs] /\ Covers' /\ Flows'
           /\ DOMAIN flow' = DOMAIN flow \ B
<1>1. Covers /\ deps \in [Byte -> SUBSET Inputs] /\ Flows
  BY FunctionFacts
<1>2. /\ deps' \in [Byte -> SUBSET Inputs]
      /\ \A b \in Byte : deps'[b] = IF b \in B THEN {} ELSE deps[b]
  BY <1>1, ForgetFact
<1>3. /\ Flows' /\ DOMAIN flow' = DOMAIN flow \ B
      /\ \A b : Read(b)' = IF b \in B THEN {} ELSE Read(b)
  BY <1>1, ClearFact
<1> QED
  BY <1>1, <1>2, <1>3 DEF Covers

LEMMA ReleaseStep ==
    ASSUME IInv, NEW s \in heap, Release(s)
    PROVE  IInv'
<1>1. /\ InFunction /\ frames' = frames /\ heap' = heap \ {s}
      /\ Clear(BytesOf({s})) /\ Compute(Forget(BytesOf({s})))
      /\ stale' = stale \ BytesOf({s})
  BY DEF Release
<1>2. /\ deps' \in [Byte -> SUBSET Inputs] /\ Covers' /\ Flows'
      /\ DOMAIN flow' = DOMAIN flow \ BytesOf({s})
  BY <1>1, ReleaseCovers
<1>3. TypeOK' /\ Interned' /\ Calls' /\ InFunction'
  BY <1>1, <1>2 DEF IInv, TypeOK, Flows, Calls, Top, InFunction, Slots
<1>4. NoLeftovers'
  <2>1. BytesOf(Live) \subseteq BytesOf(Live') \cup BytesOf({s})
    BY <1>1 DEF BytesOf, Live
  <2> QED
    BY <1>1, <1>2, <2>1 DEF IInv, NoLeftovers
<1> QED
  BY <1>2, <1>3, <1>4, Assemble

LEMMA VaStartStep ==
    ASSUME IInv, NEW s \in Free, NEW v, VaStart(s, v)
    PROVE  IInv'
<1>1. /\ InFunction /\ frames' = frames /\ heap' = heap \cup {s} /\ stale' = stale
  BY DEF VaStart
<1>2. PICK p \in Top.va :
        LET low == Area(s, 1, Size[p]) IN
        /\ Size[s] > Size[p]
        /\ Write([b \in low |-> Read(At(b, p))])
        /\ Compute([b \in BytesOf({s, v}) |-> IF b \in low THEN deps[At(b, p)] ELSE {}])
  BY DEF VaStart
<1> DEFINE low == Area(s, 1, Size[p])
           g == [b \in low |-> Read(At(b, p))]
           h == [b \in BytesOf({s, v}) |-> IF b \in low THEN deps[At(b, p)] ELSE {}]
<1>3. Flows /\ deps \in [Byte -> SUBSET Inputs] /\ Covers
  BY <1>1, FunctionFacts
<1>4. p \in Slot /\ s \in Slot
  BY LiveFact DEF IInv, Free, Frame
<1>5. low \subseteq BytesOf({s}) /\ low \subseteq Byte /\ low \subseteq BytesOf({s, v})
  BY BytesOfFact DEF Area
<1>6. ASSUME NEW b \in low PROVE At(b, p) \in Byte
  <2>1. b[2] \in 1 .. Size[p] /\ b[2] \in Int
    BY <1>4, <1>5, <1>6, ByteFact DEF Area
  <2> QED
    BY <1>4, <2>1, ByteFact DEF At
<1>7. g \in [low -> SUBSET Inputs] /\ h \in [BytesOf({s, v}) -> SUBSET Inputs]
  BY <1>3, <1>6, ReadType
<1>8. Write(g) /\ Compute(h)
  BY <1>2
<1>9. /\ \A b \in low : g[b] = Read(At(b, p)) /\ h[b] = deps[At(b, p)]
      /\ \A b \in BytesOf({s, v}) \ low : h[b] = {}
  BY <1>5
<1> HIDE DEF low, g, h
<1>10. /\ Flows' /\ DOMAIN flow' = DOMAIN flow \cup low
       /\ \A b : Read(b)' = IF b \in low THEN g[b] ELSE Read(b)
  BY <1>3, <1>5, <1>7, <1>8, WriteFact
<1>11. /\ deps' \in [Byte -> SUBSET Inputs]
       /\ \A b \in Byte : deps'[b] = IF b \in BytesOf({s, v}) THEN h[b] ELSE deps[b]
  BY <1>3, <1>7, <1>8, ComputeFact
<1>12. Covers'
  <2> SUFFICES ASSUME NEW b \in Byte PROVE deps'[b] \subseteq Read(b)'
    BY DEF Covers
  <2>1. CASE b \in low
    <3>1. deps'[b] = deps[At(b, p)] /\ Read(b)' = Read(At(b, p))
      BY <1>5, <1>9, <1>10, <1>11, <2>1
    <3> QED
      BY <1>3, <1>6, <2>1, <3>1 DEF Covers
  <2>2. CASE b \notin low
    <3>1. Read(b)' = Read(b)
      BY <1>10, <2>2
    <3>2. deps'[b] = {} \/ deps'[b] = deps[b]
      BY <1>9, <1>11, <2>2
    <3> QED
      BY <1>3, <3>1, <3>2 DEF Covers
  <2> QED
    BY <2>1, <2>2
<1>13. TypeOK' /\ Interned'
  BY <1>1, <1>4, <1>10, <1>11 DEF IInv, TypeOK, Flows
<1>14. Calls' /\ InFunction'
  BY <1>1 DEF IInv, Calls, Top, InFunction, Slots
<1>15. NoLeftovers'
  <2>1. BytesOf(Live) \cup BytesOf({s}) \subseteq BytesOf(Live')
    BY <1>1 DEF BytesOf, Live
  <2> QED
    BY <1>1, <1>5, <1>10, <2>1 DEF IInv, NoLeftovers
<1> QED
  BY <1>12, <1>13, <1>14, <1>15, Assemble

----------------------------------------------------------------------------
(* Calls.                                                                   *)

\* The parameters get the records of the operands.
LEMMA PassFact ==
    ASSUME IInv, InFunction, NEW args \in Arguments, PassFlow(args)
    PROVE  /\ DOMAIN args \subseteq Free /\ DOMAIN args \subseteq Slot
           /\ Range(args) \subseteq Variables
           /\ \A f \in DOMAIN args : Size[f] = Size[args[f]] /\ args[f] \in Slot
           /\ Flows' /\ DOMAIN flow' = DOMAIN flow \cup BytesOf(DOMAIN args)
           /\ \A b \in BytesOf(DOMAIN args) :
                 /\ Read(b)' = Read(At(b, args[b[1]]))
                 /\ Passed(b, args) \subseteq Read(b)'
                 /\ Passed(b, args) \in SUBSET Inputs
           /\ \A b : b \notin BytesOf(DOMAIN args) => Read(b)' = Read(b)
<1>1. PICK F \in SUBSET Free : args \in [F -> Variables]
  BY DEF Arguments
<1>2. /\ DOMAIN args \subseteq Free /\ DOMAIN args \subseteq Slot
      /\ Range(args) \subseteq Variables
      /\ \A f \in DOMAIN args : Size[f] = Size[args[f]] /\ args[f] \in Slot
  <2>1. Variables \subseteq Slot
    BY LiveFact DEF IInv
  <2> QED
    BY <1>1, <2>1 DEF Arguments, Free, Range
<1> DEFINE D == BytesOf(DOMAIN args)
           g == [b \in D |-> Read(At(b, args[b[1]]))]
<1>3. Flows /\ deps \in [Byte -> SUBSET Inputs] /\ Covers
  BY FunctionFacts
<1>4. D \in SUBSET Byte /\ g \in [D -> SUBSET Inputs] /\ Write(g)
  BY <1>3, ReadType, BytesOfFact DEF PassFlow
<1>5. \A b \in D : g[b] = Read(At(b, args[b[1]]))
  OBVIOUS
<1>6. \A b \in D : At(b, args[b[1]]) \in Byte
  BY <1>2, AtFact, BytesOfFact
<1> HIDE DEF D, g
<1>7. /\ Flows' /\ DOMAIN flow' = DOMAIN flow \cup D
      /\ \A b : Read(b)' = IF b \in D THEN g[b] ELSE Read(b)
  BY <1>3, <1>4, WriteFact
<1>8. \A b \in D : /\ Read(b)' = Read(At(b, args[b[1]]))
                   /\ Passed(b, args) \subseteq Read(b)'
                   /\ Passed(b, args) \in SUBSET Inputs
  BY <1>3, <1>5, <1>6, <1>7 DEF Covers, Passed
<1> QED
  BY <1>2, <1>7, <1>8 DEF D

\* A frame on top of that of a function.
LEMMA PushFrame ==
    ASSUME IInv, InFunction, NEW f \in Frame, frames' = Append(frames, f), heap' = heap,
           f.dst \subseteq Live, f.dst # {} => SlotsOf(f) = f.params
    PROVE  /\ frames' \in Seq(Frame) /\ frames' # <<>> /\ Calls' /\ Top' = f
           /\ Live' = Live \cup SlotsOf(f)
<1>1. frames \in Seq(Frame) /\ frames # <<>>
  BY DEF IInv, TypeOK
<1>2. /\ frames' \in Seq(Frame) /\ frames' # <<>>
      /\ Front(frames') = frames /\ Last(frames') = f
      /\ Range(frames') = Range(frames) \cup {f}
  BY <1>1, StackPush
<1>3. \A e \in Range(frames) : e.dst = {}
  <2>1. Range(frames) = Range(Front(frames)) \cup {Top}
    BY <1>1, StackSplit DEF Top
  <2> QED
    BY <2>1 DEF IInv, Calls, InFunction
<1>4. Live = Statics \cup heap \cup Slots(frames)
  BY LiveFact DEF IInv
<1>5. Calls' /\ Top' = f
  BY <1>1, <1>2, <1>3, <1>4 DEF Calls, Top
<1>6. Live' = Live \cup SlotsOf(f)
  BY <1>2 DEF Live
<1> QED
  BY <1>2, <1>5, <1>6

LEMMA CallStep ==
    ASSUME IInv, NEW args \in Arguments, NEW va \in SUBSET DOMAIN args,
           NEW locals \in SUBSET (Free \ DOMAIN args), Call(args, locals, va)
    PROVE  IInv'
<1> DEFINE f == [params |-> locals \cup (DOMAIN args \ va), va |-> va, locals |-> <<>>,
                 dst |-> {}, joins |-> <<>>]
           D == BytesOf(DOMAIN args \cup locals)
           h == [b \in D |-> IF b[1] \in DOMAIN args THEN Passed(b, args) ELSE {}]
<1>1. /\ InFunction /\ frames' = Append(frames, f) /\ PassFlow(args) /\ Compute(h)
      /\ heap' = heap /\ stale' = stale
  BY DEF Call
<1>2. Flows /\ deps \in [Byte -> SUBSET Inputs] /\ Covers
  BY <1>1, FunctionFacts
<1>3. /\ DOMAIN args \subseteq Slot
      /\ Flows' /\ DOMAIN flow' = DOMAIN flow \cup BytesOf(DOMAIN args)
      /\ \A b \in BytesOf(DOMAIN args) : /\ Passed(b, args) \subseteq Read(b)'
                                         /\ Passed(b, args) \in SUBSET Inputs
      /\ \A b : b \notin BytesOf(DOMAIN args) => Read(b)' = Read(b)
  BY <1>1, PassFact
<1>4. f \in Frame
  <2>1. locals \subseteq Slot
    BY DEF Free
  <2> QED
    BY <1>3, <2>1 DEF Frame
<1>5. f.dst = {} /\ DOMAIN args \subseteq SlotsOf(f)
  BY DEF SlotsOf
<1>6. \A b \in D : b \in Byte /\ (b[1] \in DOMAIN args <=> b \in BytesOf(DOMAIN args))
  BY BytesOfFact
<1>7. h \in [D -> SUBSET Inputs]
  BY <1>3, <1>6
<1>8. \A b \in D : h[b] = IF b \in BytesOf(DOMAIN args) THEN Passed(b, args) ELSE {}
  BY <1>6
<1>9. BytesOf(DOMAIN args) \subseteq D
  BY BytesOfFact
<1> HIDE DEF f, h, D
<1>10. /\ deps' \in [Byte -> SUBSET Inputs]
       /\ \A b \in Byte : deps'[b] = IF b \in D THEN h[b] ELSE deps[b]
  BY <1>1, <1>2, <1>7, ComputeFact
<1>11. /\ frames' \in Seq(Frame) /\ frames' # <<>> /\ Calls' /\ Top' = f
       /\ Live' = Live \cup SlotsOf(f)
  BY <1>1, <1>4, <1>5, PushFrame
<1>12. Covers'
  <2> SUFFICES ASSUME NEW b \in Byte PROVE deps'[b] \subseteq Read(b)'
    BY DEF Covers
  <2>1. CASE b \in BytesOf(DOMAIN args)
    BY <1>3, <1>8, <1>9, <1>10, <2>1
  <2>2. CASE b \notin BytesOf(DOMAIN args)
    <3>1. Read(b)' = Read(b)
      BY <1>3, <2>2
    <3>2. deps'[b] = {} \/ deps'[b] = deps[b]
      BY <1>8, <1>10, <2>2
    <3> QED
      BY <1>2, <3>1, <3>2 DEF Covers
  <2> QED
    BY <2>1, <2>2
<1>13. TypeOK' /\ Interned' /\ InFunction'
  BY <1>1, <1>3, <1>5, <1>10, <1>11 DEF IInv, TypeOK, Flows, InFunction
<1>14. NoLeftovers'
  <2>1. BytesOf(Live) \cup BytesOf(DOMAIN args) \subseteq BytesOf(Live')
    BY <1>5, <1>11 DEF BytesOf
  <2> QED
    BY <1>1, <1>3, <2>1 DEF IInv, NoLeftovers
<1> QED
  BY <1>11, <1>12, <1>13, <1>14, Assemble

\* A call of an external function: the result may depend on what the parameters
\* or, for a function of strings, the bytes of the joins have recorded.
LEMMA CallToStep ==
    ASSUME IInv, NEW args \in Arguments, NEW d \in Live, NEW joins \in Seq(SUBSET Slot),
           NEW value \in [BytesOf({d}) -> SUBSET Inputs], CallTo(args, d, joins, value),
           ~(Len(joins) > 1 \/ joins = <<{}>>) =>
               \A b \in BytesOf({d}) :
                   IF joins # <<>> THEN value[b] \subseteq JoinOf(BytesOf(Last(joins)))'
                   ELSE \A s \in DOMAIN args : value[b] \subseteq Read(Mirrored(b, s))'
    PROVE  IInv'
<1> DEFINE f == [params |-> DOMAIN args, va |-> {}, locals |-> <<>>,
                 dst |-> {d}, joins |-> joins]
           D == BytesOf(DOMAIN args \cup {d})
           h == [b \in D |-> IF b[1] = d THEN value[b] ELSE Passed(b, args)]
<1>1. /\ InFunction /\ frames' = Append(frames, f) /\ PassFlow(args) /\ Compute(h)
      /\ heap' = heap /\ stale' = stale
  BY DEF CallTo
<1>2. Flows /\ deps \in [Byte -> SUBSET Inputs] /\ Covers
  BY <1>1, FunctionFacts
<1>3. /\ DOMAIN args \subseteq Slot
      /\ Flows' /\ DOMAIN flow' = DOMAIN flow \cup BytesOf(DOMAIN args)
      /\ \A b \in BytesOf(DOMAIN args) : /\ Passed(b, args) \subseteq Read(b)'
                                         /\ Passed(b, args) \in SUBSET Inputs
      /\ \A b : b \notin BytesOf(DOMAIN args) => Read(b)' = Read(b)
  BY <1>1, PassFact
<1>4. d \in Slot
  BY LiveFact DEF IInv
<1>5. f \in Frame
  BY <1>3, <1>4 DEF Frame
<1>6. /\ f.dst = {d} /\ f.joins = joins /\ f.params = DOMAIN args
      /\ SlotsOf(f) = DOMAIN args
  <2>1. DOMAIN f.locals = {} /\ f.va = {} /\ f.params = DOMAIN args
    OBVIOUS
  <2>2. Range(f.locals) = {}
    BY <2>1, Zenon DEF Range
  <2> QED
    BY <2>1, <2>2 DEF SlotsOf
<1>7. \A b \in D : /\ b \in Byte /\ (b[1] = d <=> b \in BytesOf({d}))
                   /\ b \notin BytesOf({d}) => b \in BytesOf(DOMAIN args)
  BY BytesOfFact
<1>8. h \in [D -> SUBSET Inputs]
  BY <1>3, <1>7
<1>9. \A b \in D : h[b] = IF b \in BytesOf({d}) THEN value[b] ELSE Passed(b, args)
  BY <1>7
<1>10. BytesOf(DOMAIN args) \subseteq D /\ BytesOf({d}) \subseteq D /\ D \subseteq Byte
  BY BytesOfFact
<1> HIDE DEF f, h, D
<1>11. /\ deps' \in [Byte -> SUBSET Inputs]
       /\ \A b \in Byte : deps'[b] = IF b \in D THEN h[b] ELSE deps[b]
  BY <1>1, <1>2, <1>8, ComputeFact
<1>12. /\ frames' \in Seq(Frame) /\ frames' # <<>> /\ Calls' /\ Top' = f
       /\ Live' = Live \cup DOMAIN args
  BY <1>1, <1>5, <1>6, PushFrame
<1>13. ASSUME NEW b \in Byte \ BytesOf({d}) PROVE deps'[b] \subseteq Read(b)'
  <2>1. CASE b \in BytesOf(DOMAIN args)
    <3>1. deps'[b] = Passed(b, args)
      BY <1>9, <1>10, <1>11, <1>13, <2>1
    <3> QED
      BY <1>3, <2>1, <3>1
  <2>2. CASE b \notin BytesOf(DOMAIN args)
    <3>1. Read(b)' = Read(b) /\ deps'[b] = deps[b]
      BY <1>3, <1>7, <1>11, <1>13, <2>2
    <3> QED
      BY <1>2, <3>1 DEF Covers
  <2> QED
    BY <2>1, <2>2
<1>14. \A b \in BytesOf({d}) : deps'[b] = value[b]
  BY <1>9, <1>10, <1>11
<1>15. Covered'
  <2>1. Lossy' <=> Len(joins) > 1 \/ joins = <<{}>>
    BY <1>6, <1>12 DEF Lossy
  <2>2. ~Lossy' => \A b \in BytesOf({d}) : Carried(b)'
    BY <1>6, <1>12, <1>14, <2>1 DEF Carried
  <2> QED
    BY <1>6, <1>12, <1>13, <2>2 DEF Covered
<1>16. TypeOK' /\ Interned'
  BY <1>1, <1>3, <1>11, <1>12 DEF IInv, TypeOK, Flows
<1>17. NoLeftovers'
  <2>1. BytesOf(Live) \cup BytesOf(DOMAIN args) \subseteq BytesOf(Live')
    BY <1>12 DEF BytesOf
  <2> QED
    BY <1>1, <1>3, <2>1 DEF IInv, NoLeftovers
<1> QED
  BY <1>12, <1>15, <1>16, <1>17 DEF IInv

\* What a result depends on is a set of inputs.
LEMMA OnAllFact ==
    ASSUME IInv, InFunction, NEW args, NEW strings
    PROVE  /\ OnAll(args, strings) \in SUBSET Inputs
           /\ OnAll(args, strings) \subseteq JoinOf(BytesOf(Range(args) \cup strings))
BY FunctionFacts, UnionFact, BytesOfFact DEF OnAll

\* The parameters carry what the operands carried.
LEMMA ParametersCarry ==
    ASSUME IInv, InFunction, NEW args \in Arguments, PassFlow(args)
    PROVE  JoinOf(BytesOf(Range(args))) \subseteq JoinOf(BytesOf(DOMAIN args))'
<1>1. /\ DOMAIN args \subseteq Slot
      /\ \A f \in DOMAIN args : Size[f] = Size[args[f]] /\ args[f] \in Slot
      /\ \A b \in BytesOf(DOMAIN args) : Read(b)' = Read(At(b, args[b[1]]))
  BY PassFact
<1>2. ASSUME NEW c \in BytesOf(Range(args))
      PROVE  \E b \in BytesOf(DOMAIN args) : Read(b)' = Read(c)
  <2>1. c \in Byte /\ c[1] \in Range(args)
    BY BytesOfFact
  <2>2. PICK f \in DOMAIN args : c[1] = args[f]
    BY <2>1 DEF Range
  <2> DEFINE b == <<f, c[2]>>
  <2>3. b \in Byte
    <3>1. c[2] \in 1 .. Size[f] /\ c[2] \in Int
      BY <1>1, <2>1, <2>2, ByteFact
    <3> QED
      BY <1>1, <3>1, ByteFact
  <2>4. b \in BytesOf(DOMAIN args) /\ At(b, args[b[1]]) = c
    BY <2>1, <2>2, <2>3, ByteFact, BytesOfFact DEF At
  <2> QED
    BY <1>1, <2>4
<1>3. JoinOf(BytesOf(Range(args))) \subseteq UNION {Read(b)' : b \in BytesOf(DOMAIN args)}
  BY <1>2 DEF JoinOf
<1> QED
  BY <1>3 DEF JoinOf

LEMMA CallExternStep ==
    ASSUME IInv, NEW args \in Arguments, NEW d \in Live, CallExtern(args, d)
    PROVE  IInv'
<1> DEFINE value == [b \in BytesOf({d}) |-> OnAll(args, {})]
           joins == <<DOMAIN args>>
<1>1. CallTo(args, d, joins, value) /\ InFunction /\ PassFlow(args)
  BY DEF CallExtern, CallTo
<1>2. /\ OnAll(args, {}) \in SUBSET Inputs
      /\ OnAll(args, {}) \subseteq JoinOf(BytesOf(Range(args)))
  <2>1. Range(args) \cup {} = Range(args)
    OBVIOUS
  <2> QED
    BY <1>1, <2>1, OnAllFact
<1>3. OnAll(args, {}) \subseteq JoinOf(BytesOf(DOMAIN args))'
  BY <1>1, <1>2, ParametersCarry
<1>4. DOMAIN args \in SUBSET Slot
  BY <1>1, PassFact
<1>5. joins \in Seq(SUBSET Slot) /\ joins # <<>> /\ Last(joins) = DOMAIN args
  BY <1>4 DEF Last
<1>6. value \in [BytesOf({d}) -> SUBSET Inputs]
  BY <1>2
<1>7. \A b \in BytesOf({d}) : value[b] = OnAll(args, {})
  OBVIOUS
<1> HIDE DEF value, joins
<1>8. \A b \in BytesOf({d}) : value[b] \subseteq JoinOf(BytesOf(Last(joins)))'
  BY <1>3, <1>5, <1>7
<1> QED
  BY <1>1, <1>5, <1>6, <1>8, CallToStep

LEMMA CallCountStep ==
    ASSUME IInv, NEW args \in Arguments, NEW d \in Live, CallCount(args, d)
    PROVE  IInv'
<1> DEFINE value == [b \in BytesOf({d}) |-> OnAll(args, {})]
           joins == <<{}>>
<1>1. CallTo(args, d, joins, value) /\ InFunction
  BY DEF CallCount, CallTo
<1>2. value \in [BytesOf({d}) -> SUBSET Inputs]
  BY <1>1, OnAllFact
<1>3. joins \in Seq(SUBSET Slot) /\ (Len(joins) > 1 \/ joins = <<{}>>)
  OBVIOUS
<1> HIDE DEF value, joins
<1> QED
  BY <1>1, <1>2, <1>3, CallToStep

LEMMA CallSwapStep ==
    ASSUME IInv, NEW args \in Arguments, NEW d \in Live, CallSwap(args, d)
    PROVE  IInv'
<1>1. PICK s \in DOMAIN args :
        /\ DOMAIN args = {s} /\ Size[s] = Size[d]
        /\ CallTo(args, d, <<>>, [b \in BytesOf({d}) |-> deps[Mirrored(b, args[s])]])
  BY DEF CallSwap
<1> DEFINE value == [b \in BytesOf({d}) |-> deps[Mirrored(b, args[s])]]
<1>2. CallTo(args, d, <<>>, value) /\ InFunction /\ PassFlow(args)
  BY <1>1 DEF CallTo
<1>3. /\ s \in Slot /\ args[s] \in Slot /\ Size[s] = Size[args[s]]
      /\ \A b \in BytesOf({s}) : Read(b)' = Read(At(b, args[s]))
  <2>1. \A b \in BytesOf({s}) : b[1] = s
    BY BytesOfFact
  <2>2. /\ DOMAIN args \subseteq Slot
        /\ \A f \in DOMAIN args : Size[f] = Size[args[f]] /\ args[f] \in Slot
        /\ \A b \in BytesOf(DOMAIN args) : Read(b)' = Read(At(b, args[b[1]]))
    BY <1>2, PassFact
  <2> QED
    BY <1>1, <2>1, <2>2, Zenon
<1>4. Covers /\ deps \in [Byte -> SUBSET Inputs]
  BY <1>2, FunctionFacts
<1>5. ASSUME NEW b \in BytesOf({d})
      PROVE  /\ Mirrored(b, args[s]) \in Byte
             /\ deps[Mirrored(b, args[s])] \subseteq Read(Mirrored(b, s))'
  <2> DEFINE i == Size[s] + 1 - b[2]
  <2>1. i \in 1 .. Size[s] /\ i \in Int
    <3>1. b \in Byte /\ b[1] = d
      BY <1>5, BytesOfFact
    <3>2. b[2] \in Nat \ {0} /\ b[2] <= Size[s] /\ Size[s] \in Nat
      BY <1>1, <1>3, <3>1, ByteFact
    <3> QED
      BY <3>2
  <2>2. Mirrored(b, args[s]) = <<args[s], i>> /\ Mirrored(b, s) = <<s, i>>
    BY <1>3 DEF Mirrored
  <2>3. <<args[s], i>> \in Byte /\ <<s, i>> \in BytesOf({s})
    BY <1>3, <2>1, ByteFact, BytesOfFact
  <2>4. Read(<<s, i>>)' = Read(At(<<s, i>>, args[s])) /\ At(<<s, i>>, args[s]) = <<args[s], i>>
    BY <1>3, <2>3 DEF At
  <2> QED
    BY <1>4, <2>2, <2>3, <2>4 DEF Covers
<1>6. value \in [BytesOf({d}) -> SUBSET Inputs]
  BY <1>4, <1>5
<1>7. \A b \in BytesOf({d}), t \in DOMAIN args : value[b] \subseteq Read(Mirrored(b, t))'
  BY <1>1, <1>5
<1>8. <<>> \in Seq(SUBSET Slot)
  OBVIOUS
<1> HIDE DEF value
<1> QED
  BY <1>2, <1>6, <1>7, <1>8, CallToStep

\* Strings that are joined before the parameters, if there are any.
LEMMA JoinsFact ==
    ASSUME NEW args, DOMAIN args \in SUBSET Slot, NEW first \in Seq(SUBSET Slot)
    PROVE  /\ first \o LastJoin(args) \in Seq(SUBSET Slot)
           /\ Len(first \o LastJoin(args)) = IF args = <<>> THEN Len(first) ELSE Len(first) + 1
           /\ args = <<>> => first \o LastJoin(args) = first
<1>1. CASE args = <<>>
  <2>1. LastJoin(args) = <<>>
    BY <1>1 DEF LastJoin
  <2>2. first \o <<>> = first
    OBVIOUS
  <2> QED
    BY <1>1, <2>1, <2>2
<1>2. CASE args # <<>>
  <2>1. LastJoin(args) = <<DOMAIN args>> /\ <<DOMAIN args>> \in Seq(SUBSET Slot)
    BY <1>2 DEF LastJoin
  <2>2. Len(<<DOMAIN args>>) = 1
    OBVIOUS
  <2>3. /\ first \o <<DOMAIN args>> \in Seq(SUBSET Slot)
        /\ Len(first \o <<DOMAIN args>>) = Len(first) + Len(<<DOMAIN args>>)
    BY <2>1, ConcatProperties
  <2> QED
    BY <1>2, <2>1, <2>2, <2>3
<1> QED
  BY <1>1, <1>2

LEMMA CallStringStep ==
    ASSUME IInv, NEW args \in Arguments, NEW d \in Live, NEW s \in Live,
           CallString(args, s, d)
    PROVE  IInv'
<1> DEFINE value == [b \in BytesOf({d}) |-> OnAll(args, {s})]
           first == <<{s}>>
           joins == first \o LastJoin(args)
<1>1. CallTo(args, d, joins, value) /\ InFunction /\ PassFlow(args)
  BY DEF CallString, CallTo
<1>2. value \in [BytesOf({d}) -> SUBSET Inputs]
  BY <1>1, OnAllFact
<1>3. s \in Slot /\ DOMAIN args \in SUBSET Slot
  BY <1>1, LiveFact, PassFact DEF IInv
<1>4. first \in Seq(SUBSET Slot) /\ Len(first) = 1 /\ first # <<>> /\ Last(first) = {s}
  BY <1>3 DEF Last
<1> HIDE DEF first
<1>5. /\ joins \in Seq(SUBSET Slot)
      /\ Len(joins) = IF args = <<>> THEN Len(first) ELSE Len(first) + 1
      /\ args = <<>> => joins = first
  BY <1>3, <1>4, JoinsFact
<1>6. CASE args # <<>>
  <2>1. joins \in Seq(SUBSET Slot) /\ Len(joins) > 1
    BY <1>4, <1>5, <1>6
  <2> HIDE DEF value, joins
  <2> QED
    BY <1>1, <1>2, <2>1, CallToStep
<1>7. CASE args = <<>>
  <2>1. joins \in Seq(SUBSET Slot) /\ Last(joins) = {s} /\ joins # <<>>
    BY <1>4, <1>5, <1>7
  <2>2. BytesOf(DOMAIN args) = {} /\ Range(args) \cup {s} = {s}
    BY <1>7 DEF BytesOf, Range
  <2>3. OnAll(args, {s}) \subseteq JoinOf(BytesOf({s}))
    BY <1>1, <2>2, OnAllFact
  <2>4. \A b : Read(b)' = Read(b)
    BY <1>1, <2>2, PassFact
  <2>5. JoinOf(BytesOf({s}))' = JoinOf(BytesOf({s}))
    BY <2>4 DEF JoinOf
  <2>6. \A b \in BytesOf({d}) : value[b] \subseteq JoinOf(BytesOf(Last(joins)))'
    BY <2>1, <2>3, <2>5
  <2> HIDE DEF value, joins
  <2> QED
    BY <1>1, <1>2, <2>1, <2>6, CallToStep
<1> QED
  BY <1>6, <1>7

LEMMA CallCompareStep ==
    ASSUME IInv, NEW args \in Arguments, NEW d \in Live, NEW s \in Live, NEW t \in Live,
           CallCompare(args, s, t, d)
    PROVE  IInv'
<1> DEFINE value == [b \in BytesOf({d}) |-> OnAll(args, {s, t})]
           first == <<{s}, {t}>>
           joins == first \o LastJoin(args)
<1>1. CallTo(args, d, joins, value) /\ InFunction /\ PassFlow(args)
  BY DEF CallCompare, CallTo
<1>2. value \in [BytesOf({d}) -> SUBSET Inputs]
  BY <1>1, OnAllFact
<1>3. {s} \in SUBSET Slot /\ {t} \in SUBSET Slot /\ DOMAIN args \in SUBSET Slot
  BY <1>1, LiveFact, PassFact DEF IInv
<1>4. first \in Seq(SUBSET Slot) /\ Len(first) = 2
  BY <1>3
<1> HIDE DEF first
<1>5. /\ joins \in Seq(SUBSET Slot)
      /\ Len(joins) = IF args = <<>> THEN Len(first) ELSE Len(first) + 1
  BY <1>3, <1>4, JoinsFact
<1>6. Len(joins) > 1
  BY <1>4, <1>5
<1> HIDE DEF value, joins
<1> QED
  BY <1>1, <1>2, <1>5, <1>6, CallToStep

----------------------------------------------------------------------------
(* Returns.                                                                 *)

\* The frame below belongs to a function.
LEMMA PopFrame ==
    ASSUME IInv, Front(frames) # <<>>, frames' = Front(frames), heap' = heap
    PROVE  /\ frames' \in Seq(Frame) /\ frames' # <<>> /\ Calls' /\ InFunction'
           /\ Live' = Statics \cup heap \cup Slots(Front(frames))
           /\ Live = Live' \cup SlotsOf(Top)
<1>1. frames' \in Seq(Frame) /\ frames' # <<>>
  BY LiveFact DEF IInv
<1>2. /\ Range(frames') = Range(Front(frames')) \cup {Last(frames')}
      /\ \A f \in Range(frames') : f.dst = {}
  BY <1>1, StackSplit DEF IInv, Calls
<1>3. Calls' /\ InFunction'
  BY <1>2 DEF Calls, Top, InFunction
<1>4. /\ Live' = Statics \cup heap \cup Slots(Front(frames))
      /\ Live = Live' \cup SlotsOf(Top)
  BY LiveFact DEF IInv, Live, Slots
<1> QED
  BY <1>1, <1>3, <1>4

LEMMA RetStep ==
    ASSUME IInv, Ret
    PROVE  IInv'
<1> DEFINE B == BytesOf(SlotsOf(Top))
<1>1. /\ InFunction /\ Len(frames) > 1 /\ frames' = Front(frames) /\ heap' = heap
      /\ Clear(B) /\ Compute(Forget(B)) /\ stale' = stale \ B
  BY DEF Ret
<1>2. Front(frames) # <<>>
  BY <1>1, StackSplit DEF IInv, TypeOK
<1>3. /\ frames' \in Seq(Frame) /\ frames' # <<>> /\ Calls' /\ InFunction'
      /\ Live = Live' \cup SlotsOf(Top)
  BY <1>1, <1>2, PopFrame
<1>4. /\ deps' \in [Byte -> SUBSET Inputs] /\ Covers' /\ Flows'
      /\ DOMAIN flow' = DOMAIN flow \ B
  BY <1>1, ReleaseCovers
<1>5. TypeOK' /\ Interned'
  BY <1>1, <1>3, <1>4 DEF IInv, TypeOK, Flows
<1>6. NoLeftovers'
  <2>1. BytesOf(Live) \subseteq BytesOf(Live') \cup B
    BY <1>3 DEF BytesOf
  <2> QED
    BY <1>1, <1>4, <2>1 DEF IInv, NoLeftovers
<1> QED
  BY <1>3, <1>4, <1>5, <1>6, Assemble

\* The return of an external function: what the result was computed from is in
\* the record that the processor writes, or was in one that it leaves alone.
LEMMA ReturnStep ==
    ASSUME IInv, NEW R \in SUBSET BytesOf(Top.dst), NEW result \in [R -> SUBSET Inputs],
           ReturnFrom(result),
           ~Lossy => \A b \in BytesOf(Top.dst) :
                        deps[b] \subseteq IF b \in R THEN result[b] ELSE Read(b)
    PROVE  IInv'
<1> DEFINE own == BytesOf(Top.params)
           dst == BytesOf(Top.dst)
           gone == {flow[b] : b \in own \cap DOMAIN flow}
           between == {JoinOf(BytesOf(S)) : S \in Range(Top.joins)}
           h == Kept(result, own)
           D == own \cup dst
<1>1. /\ ~InFunction /\ frames' = Front(frames) /\ heap' = heap
      /\ flow' = [b \in (DOMAIN flow \ own) \cup R |->
                     IF b \in R THEN result[b] ELSE flow[b]]
      /\ handles' = (handles \cup Range(result) \cup between)
                       \ (gone \ ({NoFlow} \cup Range(flow')))
      /\ Compute(h) /\ stale' = stale \ own
  BY DEF ReturnFrom
<1>2. Flows /\ deps \in [Byte -> SUBSET Inputs]
  BY FunctionFacts
<1>3. own \subseteq Byte /\ dst \subseteq Byte /\ R \subseteq dst
  BY BytesOfFact
<1>4. between \subseteq SUBSET Inputs
  BY <1>2, ReadType DEF JoinOf
<1>5. \A b \in D : h[b] = IF b \in own THEN {}
                          ELSE IF Lossy
                          THEN deps[b] \cap (IF b \in R THEN result[b] ELSE Read(b))
                          ELSE deps[b]
  BY DEF Kept
<1>6. h \in [D -> SUBSET Inputs]
  <2>1. \A b \in D : deps[b] \in SUBSET Inputs
    BY <1>2, <1>3
  <2>2. \A b \in D : h[b] \in SUBSET Inputs
    BY <1>5, <2>1
  <2>3. h = [b \in D |-> h[b]]
    BY DEF Kept
  <2> HIDE DEF h, D
  <2> QED
    BY <2>2, <2>3
<1> HIDE DEF own, dst, gone, between, h, D
<1>7. /\ deps' \in [Byte -> SUBSET Inputs]
      /\ \A b \in Byte : deps'[b] = IF b \in D THEN h[b] ELSE deps[b]
  BY <1>1, <1>2, <1>6, ComputeFact
<1>8. /\ DOMAIN flow' = (DOMAIN flow \ own) \cup R
      /\ \A b \in DOMAIN flow' : flow'[b] = IF b \in R THEN result[b] ELSE flow[b]
  BY <1>1
<1>9. Range(result) \subseteq SUBSET Inputs
  BY DEF Range
<1>10. Range(flow') \subseteq Range(flow) \cup Range(result)
  BY <1>8 DEF Range
<1>11. Flows'
  <2>1. DOMAIN flow' \subseteq Byte
    BY <1>2, <1>3, <1>8 DEF Flows
  <2>2. Range(flow') \subseteq SUBSET Inputs /\ handles' \subseteq SUBSET Inputs
    BY <1>1, <1>2, <1>4, <1>9, <1>10 DEF Flows
  <2>3. Interned'
    BY <1>1, <1>2, <1>10 DEF Flows, Interned
  <2> QED
    BY <2>1, <2>2, <2>3 DEF Flows
<1>12. \A b : Read(b)' = IF b \in R THEN result[b] ELSE IF b \in own THEN {} ELSE Read(b)
  BY <1>8 DEF Read, NoFlow
<1>13. Front(frames) # <<>>
  BY <1>1 DEF IInv, Calls, InFunction
<1>14. /\ frames' \in Seq(Frame) /\ frames' # <<>> /\ Calls' /\ InFunction'
       /\ Live' = Statics \cup heap \cup Slots(Front(frames))
       /\ Live = Live' \cup Top.params
  <2>1. SlotsOf(Top) = Top.params
    BY <1>1 DEF IInv, Calls, InFunction
  <2> QED
    BY <1>1, <1>13, <2>1, PopFrame
<1>15. Covers'
  <2> SUFFICES ASSUME NEW b \in Byte PROVE deps'[b] \subseteq Read(b)'
    BY DEF Covers
  <2>1. CASE b \in own
    BY <1>5, <1>7, <2>1 DEF D
  <2>2. CASE b \in dst /\ b \notin own
    <3>1. deps'[b] \subseteq IF b \in R THEN result[b] ELSE Read(b)
      BY <1>5, <1>7, <2>2 DEF D, dst
    <3> QED
      BY <1>12, <2>2, <3>1
  <2>3. CASE b \notin D
    <3>1. deps[b] \subseteq Read(b)
      BY <2>3 DEF IInv, Covered, D, dst
    <3>2. deps'[b] = deps[b] /\ Read(b)' = Read(b)
      BY <1>3, <1>7, <1>12, <2>3 DEF D
    <3> QED
      BY <3>1, <3>2
  <2> QED
    BY <2>1, <2>2, <2>3 DEF D
<1>16. TypeOK' /\ Interned'
  BY <1>1, <1>7, <1>11, <1>14 DEF IInv, TypeOK, Flows
<1>17. NoLeftovers'
  <2>1. BytesOf(Live) \subseteq BytesOf(Live') \cup own
    BY <1>14 DEF BytesOf, own
  <2>2. R \subseteq BytesOf(Live')
    <3>1. Top.dst \subseteq Live'
      BY <1>14 DEF IInv, Calls
    <3> QED
      BY <1>3, <3>1, BytesOfFact DEF dst
  <2> QED
    BY <1>1, <1>8, <2>1, <2>2 DEF IInv, NoLeftovers
<1> QED
  BY <1>14, <1>15, <1>16, <1>17, Assemble

LEMMA RetExternStep ==
    ASSUME IInv, RetExtern
    PROVE  IInv'
<1> DEFINE R == BytesOf(Top.dst)
           result == PassToResult(BytesOf(Last(Top.joins)))
<1>1. ~InFunction /\ Top.joins # <<>> /\ ReturnFrom(result)
  BY DEF RetExtern
<1>2. Flows
  BY FunctionFacts
<1>3. \A b \in R : result[b] = JoinOf(BytesOf(Last(Top.joins)))
  BY DEF PassToResult
<1>4. result \in [R -> SUBSET Inputs]
  BY <1>2, ReadType DEF PassToResult, JoinOf
<1>5. ~Lossy => \A b \in R : deps[b] \subseteq JoinOf(BytesOf(Last(Top.joins)))
  BY <1>1 DEF IInv, Covered, Carried
<1> HIDE DEF result
<1>6. ~Lossy => \A b \in R : deps[b] \subseteq IF b \in R THEN result[b] ELSE Read(b)
  BY <1>3, <1>5
<1> QED
  BY <1>1, <1>4, <1>6, ReturnStep

LEMMA RetGetoptStep ==
    ASSUME IInv, RetGetopt
    PROVE  IInv'
<1> DEFINE own == BytesOf(Top.params)
           dst == BytesOf(Top.dst)
           R == IF JoinOf(own) = {} THEN {} ELSE dst
           result == ExtendResult(own)
<1>1. ~InFunction /\ Top.joins = <<Top.params>> /\ ReturnFrom(result)
  BY DEF RetGetopt
<1>2. Flows
  BY FunctionFacts
<1>3. JoinOf(own) \in SUBSET Inputs
  BY <1>2, ReadType DEF JoinOf
<1>4. result \in [R -> SUBSET Inputs] /\ \A b \in R : result[b] = Read(b) \cup JoinOf(own)
  BY <1>2, <1>3, ReadType DEF ExtendResult
<1>5. Top.joins # <<>> /\ Last(Top.joins) = Top.params
  BY <1>1 DEF Last
<1>6. ~Lossy => \A b \in dst : deps[b] \subseteq JoinOf(own)
  BY <1>1, <1>5 DEF IInv, Covered, Carried
<1>7. R \subseteq dst /\ (JoinOf(own) = {} \/ R = dst)
  OBVIOUS
<1> HIDE DEF result, own, R
<1>8. ~Lossy => \A b \in dst : deps[b] \subseteq IF b \in R THEN result[b] ELSE Read(b)
  BY <1>4, <1>6, <1>7
<1> QED
  BY <1>1, <1>4, <1>7, <1>8, ReturnStep

LEMMA RetSwapStep ==
    ASSUME IInv, RetSwap
    PROVE  IInv'
<1>1. PICK s \in Top.params : ReturnFrom([b \in BytesOf(Top.dst) |-> Read(Mirrored(b, s))])
  BY DEF RetSwap
<1> DEFINE R == BytesOf(Top.dst)
           result == [b \in R |-> Read(Mirrored(b, s))]
<1>2. ~InFunction /\ Top.joins = <<>> /\ ReturnFrom(result)
  BY <1>1 DEF RetSwap
<1>3. Flows
  BY FunctionFacts
<1>4. result \in [R -> SUBSET Inputs] /\ \A b \in R : result[b] = Read(Mirrored(b, s))
  BY <1>3, ReadType
<1>5. ~Lossy => \A b \in R : deps[b] \subseteq Read(Mirrored(b, s))
  BY <1>2 DEF IInv, Covered, Carried
<1> HIDE DEF result
<1>6. ~Lossy => \A b \in R : deps[b] \subseteq IF b \in R THEN result[b] ELSE Read(b)
  BY <1>4, <1>5
<1> QED
  BY <1>2, <1>4, <1>6, ReturnStep

----------------------------------------------------------------------------
(* Theorems.                                                                *)

LEMMA InitFact == Init => IInv
<1> SUFFICES ASSUME Init PROVE IInv
  OBVIOUS
<1> DEFINE f == [params |-> {}, va |-> {}, locals |-> <<>>, dst |-> {}, joins |-> <<>>]
<1>1. /\ frames = <<f>> /\ heap = {} /\ flow = <<>> /\ handles = {NoFlow}
      /\ deps = [b \in Byte |-> {}] /\ stale = {}
  BY DEF Init
<1>2. f \in Frame /\ f.dst = {}
  BY DEF Frame
<1> HIDE DEF f
<1>3. /\ frames = Append(<<>>, f) /\ <<>> \in Seq(Frame)
  BY <1>1
<1>4. /\ frames \in Seq(Frame) /\ frames # <<>> /\ Front(frames) = <<>> /\ Top = f
  BY <1>2, <1>3, StackPush DEF Top
<1>5. DOMAIN flow = {} /\ Range(flow) = {}
  <2>1. DOMAIN flow = {}
    BY <1>1
  <2> QED
    BY <2>1, Zenon DEF Range
<1>6. TypeOK /\ Interned /\ NoLeftovers
  BY <1>1, <1>4, <1>5 DEF TypeOK, Interned, NoLeftovers, NoFlow
<1>7. Range(Front(frames)) = {}
  <2>1. DOMAIN Front(frames) = {}
    BY <1>4
  <2> QED
    BY <2>1, Zenon DEF Range
<1>8. Calls
  BY <1>2, <1>4, <1>7 DEF Calls
<1>9. Covered
  BY <1>1, <1>2, <1>4 DEF Covered, InFunction
<1> QED
  BY <1>6, <1>8, <1>9 DEF IInv

LEMMA NextFact == IInv /\ [Next]_vars => IInv'
<1> SUFFICES ASSUME IInv, [Next]_vars PROVE IInv'
  OBVIOUS
<1>1. CASE UNCHANGED vars
  BY <1>1 DEF vars, IInv, TypeOK, Interned, NoLeftovers, Calls, Covered, Carried, Live,
              Top, InFunction, Lossy, Slots, Read, JoinOf
<1>2. ASSUME NEW s \in Live, NEW i \in Inputs, Start(s, i) \/ StartExtend(s, i) PROVE IInv'
  BY <1>2, StartStep
<1>3. ASSUME NEW d \in Live, NEW s \in Live, NEW a \in Areas(d), NEW i \in 1 .. Size[s],
             i + a[2] - 1 <= Size[s], Copy(d, a[1], s, i, a[2])
      PROVE  IInv'
  BY <1>3, CopyStep
<1>4. ASSUME NEW d \in Live, NEW v \in Variables, NEW a \in Areas(d), Set(d, a[1], a[2], v)
      PROVE  IInv'
  BY <1>4, SetStep
<1>5. ASSUME NEW v \in Variables, NEW s \in Variables, NEW t \in Variables,
             Arith(v, s, t) \/ Divide(v, s, t) \/ Shift(v, s, t) \/ Compare(v, s, t)
      PROVE  IInv'
  BY <1>5, JoinStep DEF Arith, Divide, Shift, Compare
<1>6. ASSUME NEW v \in Variables, NEW s \in Variables, Negate(v, s) \/ Convert(v, s)
      PROVE  IInv'
  BY <1>6, JoinStep DEF Negate, Convert
<1>7. ASSUME NEW v \in Variables, NEW s \in Variables, NEW t \in Variables,
             NEW u \in Variables, MovePtr(v, s, t, u)
      PROVE  IInv'
  BY <1>7, JoinStep DEF MovePtr
<1>8. ASSUME NEW v \in Variables, NEW s \in Variables, NEW t \in Variables,
             Alike(v, {s, t}), Bitwise(v, {s, t})
      PROVE  IInv'
  BY <1>8, BitwiseStep
<1>9. ASSUME NEW v \in Variables, NEW s \in Variables,
             ExtendSigned(v, s) \/ ExtendUnsigned(v, s)
      PROVE  IInv'
  BY <1>9, ExtendSignedStep, ExtendUnsignedStep
<1>10. ASSUME NEW v \in Variables, Overwrite(v) PROVE IInv'
  BY <1>10, OverwriteStep
<1>11. ASSUME NEW s \in Free, NEW v \in Variables,
              Alloca(s, v) \/ Malloc(s, v) \/ VaStart(s, v)
       PROVE  IInv'
  BY <1>11, AllocaStep, MallocStep, VaStartStep
<1>12. ASSUME NEW k \in 0 .. Len(Top.locals), StackRestore(k) PROVE IInv'
  BY <1>12, StackRestoreStep
<1>13. ASSUME NEW s \in heap, Release(s) PROVE IInv'
  BY <1>13, ReleaseStep
<1>14. ASSUME NEW args \in Arguments, NEW va \in SUBSET DOMAIN args,
              NEW locals \in SUBSET (Free \ DOMAIN args), Call(args, locals, va)
       PROVE  IInv'
  BY <1>14, CallStep
<1>15. ASSUME NEW args \in Arguments, NEW d \in Live,
              CallExtern(args, d) \/ CallSwap(args, d) \/ CallCount(args, d)
       PROVE  IInv'
  BY <1>15, CallExternStep, CallSwapStep, CallCountStep
<1>16. ASSUME NEW args \in Arguments, NEW d \in Live, NEW s \in Live, CallString(args, s, d)
       PROVE  IInv'
  BY <1>16, CallStringStep
<1>17. ASSUME NEW args \in Arguments, NEW d \in Live, NEW s \in Live, NEW t \in Live,
              CallCompare(args, s, t, d)
       PROVE  IInv'
  BY <1>17, CallCompareStep
<1>18. ASSUME Ret \/ RetExtern \/ RetGetopt \/ RetSwap PROVE IInv'
  BY <1>18, RetStep, RetExternStep, RetGetoptStep, RetSwapStep
<1> QED
  BY ONLY [Next]_vars, <1>1, <1>2, <1>3, <1>4, <1>5, <1>6, <1>7, <1>8, <1>9, <1>10, <1>11,
     <1>12, <1>13, <1>14, <1>15, <1>16, <1>17, <1>18, Zenon DEF Next

THEOREM Inductive == Spec => []IInv
BY InitFact, NextFact, PTL DEF Spec

\* Stack, heap, records, interned sets and the history keep their types.
THEOREM TypeCorrect == Spec => []TypeOK
<1>1. IInv => TypeOK
  BY DEF IInv
<1> QED
  BY <1>1, Inductive, PTL

\* No dependence is lost: for every program, whatever mixture of copies,
\* arithmetic, calls and reuse of memory a value went through, flow_ has for each
\* byte every input the byte depends on, but for the results of external
\* functions that are still to be recorded and what the processors of ctlz,
\* ctpop and of the string functions fail to join.
THEOREM NothingMissed == Spec => []Sound
<1>1. IInv => Sound
  <2> SUFFICES ASSUME IInv, NEW b \in Byte \ Pending PROVE deps[b] \subseteq Read(b)
    BY DEF Sound
  <2>1. Top \in Range(frames)
    BY StackSplit DEF IInv, TypeOK, Top
  <2>2. BytesOf(Top.dst) \subseteq Pending
    BY <2>1 DEF Pending
  <2> QED
    BY <2>2 DEF IInv, Covered
<1> QED
  BY <1>1, Inductive, PTL

\* RET, FREE and VA_END clear what was recorded of the blocks they release: a
\* record belongs to a block that lives or to one that STACKRESTORE released.
THEOREM NothingLeft == Spec => []NoLeftovers
<1>1. IInv => NoLeftovers
  BY DEF IInv
<1> QED
  BY <1>1, Inductive, PTL

\* clear() drops a set only when no byte has it any more: the set of every
\* recorded byte, and the empty one, stay interned.
THEOREM SetsInterned == Spec => []Interned
<1>1. IInv => Interned
  BY DEF IInv
<1> QED
  BY <1>1, Inductive, PTL

==============================================================================
