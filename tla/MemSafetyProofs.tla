--------------------------- MODULE MemSafetyProofs ---------------------------
(****************************************************************************)
(* Proofs about the Sanitizer, for every address space, every set of sizes  *)
(* and every depth of calls: the types, and that the Sanitizer knows every  *)
(* block that lives.                                                        *)
(****************************************************************************)
EXTENDS MemSafety, SequenceTheorems, WellFoundedInduction, TLAPS

----------------------------------------------------------------------------
(* Stacks.                                                                  *)

\* A stack loses its last element when it is popped.
LEMMA PopFact ==
    ASSUME NEW S, NEW s \in Seq(S), s # <<>>
    PROVE  /\ Len(s) \in Nat \ {0} /\ Last(s) = s[Len(s)] /\ Last(s) \in S
           /\ Front(s) \in Seq(S) /\ Len(Front(s)) = Len(s) - 1
           /\ \A i \in 1 .. Len(s) - 1 : Front(s)[i] = s[i]
<1>1. Len(s) \in Nat \ {0}
  BY EmptySeq
<1>2. \A i \in 1 .. Len(s) : s[i] \in S
  BY ElementOfSeq
<1>3. \A i \in 1 .. Len(s) - 1 : s[i] \in S
  BY <1>1, <1>2
<1>4. /\ SubSeq(s, 1, Len(s) - 1) \in Seq(S)
      /\ Len(SubSeq(s, 1, Len(s) - 1)) =
            IF 1 <= Len(s) - 1 THEN Len(s) - 1 - 1 + 1 ELSE 0
      /\ \A i \in 1 .. Len(s) - 1 - 1 + 1 : SubSeq(s, 1, Len(s) - 1)[i] = s[1 + i - 1]
  BY <1>1, <1>3, SubSeqProperties
<1>5. \A i \in 1 .. Len(s) - 1 : SubSeq(s, 1, Len(s) - 1)[i] = s[i]
  BY <1>1, <1>4
<1>6. Len(SubSeq(s, 1, Len(s) - 1)) = Len(s) - 1
  <2>1. \A n \in Nat : \A k : k = (IF 1 <= n - 1 THEN n - 1 - 1 + 1 ELSE 0) /\ n # 0 => k = n - 1
    OBVIOUS
  <2> QED
    BY ONLY <1>1, <1>4, <2>1, Zenon
<1>7. Last(s) = s[Len(s)] /\ Front(s) = SubSeq(s, 1, Len(s) - 1)
  BY DEF Last, Front
<1>8. s[Len(s)] \in S
  BY <1>1, <1>2
<1> QED
  BY <1>1, <1>4, <1>5, <1>6, <1>7, <1>8

\* An element pushed on a stack joins its elements.
LEMMA PushFact ==
    ASSUME NEW S, NEW s \in Seq(S), NEW e \in S
    PROVE  /\ Append(s, e) \in Seq(S) /\ Len(Append(s, e)) = Len(s) + 1
           /\ DOMAIN Append(s, e) = DOMAIN s \cup {Len(s) + 1}
           /\ \A i \in DOMAIN s : Append(s, e)[i] = s[i]
           /\ Append(s, e)[Len(s) + 1] = e
           /\ Len(s) + 1 \notin DOMAIN s
<1>1. /\ Append(s, e) \in Seq(S) /\ Len(Append(s, e)) = Len(s) + 1
      /\ \A i \in 1 .. Len(s) : Append(s, e)[i] = s[i]
      /\ Append(s, e)[Len(s) + 1] = e
  BY AppendProperties
<1>2. /\ Len(s) \in Nat /\ DOMAIN s = 1 .. Len(s)
      /\ DOMAIN Append(s, e) = 1 .. Len(Append(s, e))
  BY <1>1, LenProperties
<1> QED
  BY ONLY <1>1, <1>2

----------------------------------------------------------------------------
(* Induction and recursion.                                                 *)

\* A set of numbers has a least one.
LEMMA LeastNumber ==
    ASSUME NEW T \in SUBSET Nat, T # {}
    PROVE  \E x \in T : \A y \in T : x <= y
<1> DEFINE R == OpToRel(<, Nat)
<1>1. PICK x \in T : \A y \in T : ~(<<y, x>> \in R)
  <2>1. IsWellFoundedOn(R, Nat)
    BY NatLessThanWellFounded
  <2> HIDE DEF R
  <2> QED
    BY <2>1, WFMin
<1>2. ASSUME NEW y \in T, y < x PROVE FALSE
  <2>1. <<y, x>> \in Nat \X Nat /\ <<y, x>>[1] = y /\ <<y, x>>[2] = x
    OBVIOUS
  <2>2. <<y, x>> \in R
    BY <1>2, <2>1 DEF OpToRel
  <2> QED
    BY <1>1, <2>2
<1> QED
  BY <1>2

----------------------------------------------------------------------------
(* Types.                                                                   *)

\* A stack of frames whose top frame is replaced is a stack of frames.
LEMMA ReplaceTop ==
    ASSUME NEW S, NEW s \in Seq(S), s # <<>>, NEW e \in S
    PROVE  [s EXCEPT ![Len(s)] = e] \in Seq(S) /\ [s EXCEPT ![Len(s)] = e] # <<>>
<1>1. Len(s) \in 1 .. Len(s)
  BY PopFact
<1>2. /\ [s EXCEPT ![Len(s)] = e] \in Seq(S)
      /\ Len([s EXCEPT ![Len(s)] = e]) = Len(s)
  BY <1>1, ExceptSeq
<1> QED
  BY <1>1, <1>2, EmptySeq

\* What is known of the frame on top of the stack.
LEMMA TopFact ==
    ASSUME TypeOK
    PROVE  /\ Top \in Frame /\ Top = frames[Len(frames)]
           /\ Len(frames) \in DOMAIN frames /\ Len(frames) \in Nat
           /\ FrameBlocks(Top) \subseteq Addr
<1>1. frames \in Seq(Frame) /\ frames # <<>>
  BY DEF TypeOK
<1>2. /\ Top \in Frame /\ Top = frames[Len(frames)] /\ Len(frames) \in Nat \ {0}
      /\ DOMAIN frames = 1 .. Len(frames)
  BY <1>1, PopFact, LenProperties DEF Top
<1>3. Top.vars \subseteq Addr /\ Top.locals \in Seq(Addr)
  BY <1>2 DEF Frame
<1>4. Range(Top.locals) \subseteq Addr
  BY <1>3, ElementOfSeq, LenProperties DEF Range
<1> QED
  BY <1>2, <1>3, <1>4 DEF FrameBlocks

\* The blocks above a saved one are blocks.
LEMMA DroppedLocals ==
    ASSUME NEW q \in Seq(Addr), NEW i \in 1 .. Len(q)
    PROVE  Range(SubSeq(q, i + 1, Len(q))) \subseteq Addr
<1>1. Len(q) \in Nat /\ \A j \in 1 .. Len(q) : q[j] \in Addr
  BY ElementOfSeq, LenProperties
<1>2. SubSeq(q, i + 1, Len(q)) \in Seq(Addr)
  BY <1>1, SubSeqProperties
<1> QED
  BY <1>2, ElementOfSeq, LenProperties DEF Range

\* A map from addresses in A to values in T.
IsMap(f, A, T) == DOMAIN f \subseteq A /\ f \in [DOMAIN f -> T]

\* The frame of a call.
LEMMA RecordFact ==
    ASSUME NEW new \in NewBlocks, NEW f \in Records(new)
    PROVE  f \in Frame /\ IsMap(new, Addr, Sizes)
<1>1. DOMAIN new \subseteq Addr /\ new \in [DOMAIN new -> Sizes]
  BY DEF NewBlocks
<1>2. PICK b \in DOMAIN new : f = [vars |-> DOMAIN new \ {b}, locals |-> <<b>>, lists |-> {}]
  BY DEF Records
<1>3. <<b>> \in Seq(Addr)
  BY <1>1, <1>2
<1> QED
  BY <1>1, <1>2, <1>3 DEF Frame, IsMap

\* Maps stay maps when they are extended and reduced.
LEMMA InsertMap ==
    ASSUME NEW A, NEW T, NEW f, NEW g, IsMap(f, A, T), IsMap(g, A, T)
    PROVE  IsMap(InsertAll(f, g), A, T)
<1> DEFINE D == DOMAIN f \cup DOMAIN g
           v(x) == IF x \in DOMAIN f THEN f[x] ELSE g[x]
<1>1. \A x \in D : v(x) \in T
  BY DEF IsMap
<1>2. D \subseteq A
  BY DEF IsMap
<1>3. InsertAll(f, g) = [x \in D |-> v(x)]
  BY DEF InsertAll
<1> HIDE DEF D, v
<1>4. InsertAll(f, g) \in [D -> T]
  BY ONLY <1>1, <1>3
<1>5. DOMAIN InsertAll(f, g) = D
  BY ONLY <1>3
<1> QED
  BY ONLY <1>2, <1>4, <1>5 DEF IsMap

LEMMA WithoutMap ==
    ASSUME NEW A, NEW T, NEW f, NEW S, IsMap(f, A, T)
    PROVE  IsMap(Without(f, S), A, T)
<1> DEFINE D == DOMAIN f \ S
<1>1. \A x \in D : f[x] \in T
  BY DEF IsMap
<1>2. D \subseteq A
  BY DEF IsMap
<1>3. Without(f, S) = [x \in D |-> f[x]]
  BY DEF Without, Restrict
<1> HIDE DEF D
<1>4. Without(f, S) \in [D -> T]
  BY ONLY <1>1, <1>3
<1>5. DOMAIN Without(f, S) = D
  BY ONLY <1>3
<1> QED
  BY ONLY <1>2, <1>4, <1>5 DEF IsMap

\* A map of blocks is also a map of regions.
LEMMA RegionMap ==
    ASSUME NEW f, IsMap(f, Addr, Sizes)
    PROVE  IsMap(f, Addr \cup DOMAIN Statics, Nat)
<1> DEFINE D == DOMAIN f
<1>1. D \subseteq Addr /\ f \in [D -> Sizes] /\ Sizes \subseteq Nat
  BY PlaceAssumption DEF IsMap
<1> HIDE DEF D
<1>2. f \in [D -> Nat] /\ D \subseteq Addr \cup DOMAIN Statics
  BY ONLY <1>1
<1> QED
  BY ONLY <1>2 DEF IsMap, D

MapsOK == IsMap(blocks, Addr, Sizes) /\ IsMap(regions, Addr \cup DOMAIN Statics, Nat)

\* New blocks, inserted into both maps, keep their types.
LEMMA InsertMaps ==
    ASSUME MapsOK, NEW new, IsMap(new, Addr, Sizes),
           blocks' = InsertAll(blocks, new), regions' = InsertAll(regions, new)
    PROVE  MapsOK'
BY InsertMap, RegionMap DEF MapsOK

\* So do blocks that are removed from one map or from both.
LEMMA RemoveMaps ==
    ASSUME MapsOK, NEW S, blocks' = Without(blocks, S),
           regions' = Without(regions, S) \/ regions' = regions
    PROVE  MapsOK'
BY WithoutMap DEF MapsOK

RestOK ==
    /\ frames \in Seq(Frame) /\ frames # <<>>
    /\ heap \subseteq Addr
    /\ outcome \in {"running", "crash", "exception"}
    /\ stale \subseteq Addr

\* A block of ALLOCA, MALLOC or VA_START.
LEMMA AtFact ==
    ASSUME NEW b \in Addr, NEW n \in Sizes
    PROVE  IsMap(At(n, b), Addr, Sizes)
BY DEF At, IsMap

\* Nothing changes but the outcome.
LEMMA QuietStep ==
    ASSUME TypeOK, UNCHANGED <<blocks, frames, heap, regions, stale>>,
           outcome' \in {"running", "crash", "exception"}
    PROVE  TypeOK'
BY DEF TypeOK

\* A call of external code, whether it goes on or ends the execution.
LEMMA ExternalType ==
    ASSUME TypeOK, NEW valid, CallExternal(valid) PROVE TypeOK'
<1>0. MapsOK /\ RestOK
  BY DEF TypeOK, MapsOK, RestOK, IsMap
<1> DEFINE record(new) == [vars |-> DOMAIN new, locals |-> <<>>, lists |-> {}]
<1>1. PICK new \in NewBlocks :
         /\ frames' = Append(frames, record(new))
         /\ blocks' = InsertAll(blocks, new)
         /\ regions' = IF valid THEN InsertAll(regions, new) ELSE regions
  BY DEF CallExternal
<1>2. IsMap(new, Addr, Sizes)
  BY DEF NewBlocks, IsMap
<1>3. record(new) \in Frame
  BY <1>2 DEF Frame, IsMap
<1>4. RestOK'
  <2> HIDE DEF record
  <2>1. frames' \in Seq(Frame) /\ frames' # <<>>
    BY <1>0, <1>1, <1>3, AppendProperties DEF RestOK
  <2> QED
    BY <1>0, <2>1 DEF RestOK, CallExternal
<1>5. MapsOK'
  BY <1>0, <1>1, <1>2, InsertMap, RegionMap DEF MapsOK
<1> QED
  BY <1>4, <1>5 DEF TypeOK, MapsOK, RestOK, IsMap

LEMMA NextType ==
    ASSUME TypeOK, Next PROVE TypeOK'
<1>0. MapsOK /\ RestOK /\ Len(frames) \in Nat
  BY TopFact DEF TypeOK, MapsOK, RestOK, IsMap
<1>1. MapsOK' /\ RestOK' => TypeOK'
  BY DEF TypeOK, MapsOK, RestOK, IsMap
<1>2. (Report \/ Throw \/ UNCHANGED vars) => TypeOK'
  BY QuietStep DEF Report, Throw, vars, TypeOK
<1>3. CASE Access \/ CallInvalid
  BY <1>2, <1>3 DEF Access, CallInvalid
<1>4. CASE Move
  BY <1>2, <1>4 DEF Move
<1>5. ASSUME NEW new \in NewBlocks, Call(new) PROVE TypeOK'
  <2>1. PICK f \in Records(new) : frames' = Append(frames, f)
    BY <1>5 DEF Call
  <2>2. RestOK'
    BY <1>0, <1>5, <2>1, RecordFact, AppendProperties DEF RestOK, Call
  <2>3. MapsOK'
    BY <1>0, <1>5, <2>1, RecordFact, InsertMaps DEF Call
  <2> QED
    BY <1>1, <2>2, <2>3
<1>6. CASE Ret
  <2>1. CASE Throw
    BY <1>2, <2>1
  <2>2. CASE /\ Erase(FrameBlocks(Top))
             /\ blocks' = Without(blocks, FrameBlocks(Top))
             /\ frames' = Front(frames) /\ UNCHANGED <<heap, outcome>>
    <3>1. Len(frames) > 1
      BY <1>6 DEF Ret
    <3>2. Front(frames) \in Seq(Frame) /\ Len(Front(frames)) = Len(frames) - 1
      BY <1>0, PopFact DEF RestOK
    <3>3. RestOK'
      BY <1>0, <2>2, <3>1, <3>2, EmptySeq DEF RestOK, Erase
    <3> QED
      BY <1>0, <1>1, <2>2, <3>3, RemoveMaps DEF Erase
  <2> QED
    BY <1>6, <2>1, <2>2 DEF Ret
<1>7. ASSUME NEW new \in NewBlocks, RetToRoot(new) PROVE TypeOK'
  <2> DEFINE old == FrameBlocks(Top)
  <2>1. CASE Throw
    BY <1>2, <2>1
  <2>2. ASSUME NEW f \in Records(new), frames' = <<f>>,
               blocks' = InsertAll(Without(blocks, old), new),
               regions' = InsertAll(Without(regions, old), new),
               stale' = stale \ old, UNCHANGED <<heap, outcome>>
        PROVE  TypeOK'
    <3>1. f \in Frame /\ IsMap(new, Addr, Sizes)
      BY <2>2, RecordFact
    <3>2. frames' \in Seq(Frame) /\ frames' # <<>>
      BY <2>2, <3>1
    <3>3. RestOK'
      BY <1>0, <2>2, <3>2 DEF RestOK
    <3> HIDE DEF old
    <3>4. IsMap(blocks', Addr, Sizes)
      BY <1>0, <2>2, <3>1, WithoutMap, InsertMap DEF MapsOK
    <3>5. IsMap(regions', Addr \cup DOMAIN Statics, Nat)
      BY <1>0, <2>2, <3>1, WithoutMap, InsertMap, RegionMap DEF MapsOK
    <3> QED
      BY <1>1, <3>3, <3>4, <3>5 DEF MapsOK
  <2> QED
    BY <1>7, <2>1, <2>2 DEF RetToRoot
<1>8. ASSUME NEW b \in Addr, NEW n \in Sizes, Alloca(b, n) PROVE TypeOK'
  <2>1. /\ frames' = [frames EXCEPT ![Len(frames)] =
                        [Top EXCEPT !.locals = Append(Top.locals, b)]]
        /\ UNCHANGED <<heap, outcome, stale>>
        /\ blocks' = InsertAll(blocks, At(n, b)) /\ regions' = InsertAll(regions, At(n, b))
    BY <1>8, TopFact DEF Alloca
  <2>2. [Top EXCEPT !.locals = Append(Top.locals, b)] \in Frame
    BY TopFact, AppendProperties DEF Frame
  <2>3. RestOK'
    BY <1>0, <2>1, <2>2, ReplaceTop DEF RestOK
  <2>4. MapsOK'
    BY <1>0, <2>1, AtFact, InsertMaps
  <2> QED
    BY <1>1, <2>3, <2>4
<1>9. ASSUME NEW saved, StackRestore(saved) PROVE TypeOK'
  <2>1. CASE Report
    BY <1>2, <2>1
  <2> DEFINE gone(i) == Range(SubSeq(Top.locals, i + 1, Len(Top.locals)))
  <2>2. ASSUME NEW i \in DOMAIN Top.locals,
               frames' = [frames EXCEPT ![Len(frames)].locals = SubSeq(@, 1, i)],
               blocks' = Without(blocks, gone(i)), stale' = stale \cup gone(i),
               UNCHANGED <<heap, regions, outcome>>
        PROVE  TypeOK'
    <3>1. frames' = [frames EXCEPT ![Len(frames)] =
                        [Top EXCEPT !.locals = SubSeq(Top.locals, 1, i)]]
      BY <2>2, TopFact
    <3>2. Top.locals \in Seq(Addr) /\ i \in 1 .. Len(Top.locals)
      BY <2>2, TopFact, LenProperties DEF Frame
    <3>3. \A j \in 1 .. i : Top.locals[j] \in Addr
      BY <3>2, ElementOfSeq, LenProperties
    <3>4. SubSeq(Top.locals, 1, i) \in Seq(Addr)
      BY <3>2, <3>3, SubSeqProperties
    <3>5. [Top EXCEPT !.locals = SubSeq(Top.locals, 1, i)] \in Frame
      BY <3>4, TopFact DEF Frame
    <3>6. RestOK'
      <4>1. frames \in Seq(Frame) /\ frames # <<>>
        BY <1>0 DEF RestOK
      <4>2. frames' \in Seq(Frame) /\ frames' # <<>>
        BY ONLY <3>1, <3>5, <4>1, ReplaceTop
      <4>3. gone(i) \subseteq Addr
        BY <3>2, DroppedLocals
      <4> QED
        BY <1>0, <2>2, <4>2, <4>3 DEF RestOK
    <3> QED
      BY <1>0, <1>1, <2>2, <3>6, RemoveMaps
  <2> QED
    BY <1>9, <2>1, <2>2 DEF StackRestore
<1>10. ASSUME NEW b \in Addr, NEW n \in Sizes, Malloc(b, n) PROVE TypeOK'
  <2>1. RestOK'
    BY <1>0, <1>10 DEF RestOK, Malloc
  <2>2. MapsOK'
    BY <1>0, <1>10, AtFact, InsertMaps DEF Malloc
  <2> QED
    BY <1>1, <2>1, <2>2
<1>11. ASSUME NEW ptr, Free(ptr) PROVE TypeOK'
  <2>1. CASE Report \/ Throw
    BY <1>2, <2>1
  <2>2. CASE /\ Erase({ptr}) /\ blocks' = Without(blocks, {ptr})
             /\ heap' = heap \ {ptr} /\ UNCHANGED <<frames, outcome>>
    <3>1. RestOK'
      BY <1>0, <2>2 DEF RestOK, Erase
    <3> QED
      BY <1>0, <1>1, <2>2, <3>1, RemoveMaps DEF Erase
  <2> QED
    BY <1>11, <2>1, <2>2 DEF Free
<1>12. ASSUME NEW b \in Addr, NEW n \in Sizes, VaStart(b, n) PROVE TypeOK'
  <2>1. /\ frames' = [frames EXCEPT ![Len(frames)] =
                        [Top EXCEPT !.lists = Top.lists \cup {<<b, n>>}]]
        /\ heap' = heap \cup {b} /\ UNCHANGED <<outcome, stale>>
        /\ blocks' = InsertAll(blocks, At(n, b)) /\ regions' = InsertAll(regions, At(n, b))
    BY <1>12, TopFact DEF VaStart
  <2>2. [Top EXCEPT !.lists = Top.lists \cup {<<b, n>>}] \in Frame
    BY TopFact DEF Frame
  <2>3. RestOK'
    BY <1>0, <2>1, <2>2, ReplaceTop DEF RestOK
  <2>4. MapsOK'
    BY <1>0, <2>1, AtFact, InsertMaps
  <2> QED
    BY <1>1, <2>3, <2>4
<1>13. ASSUME NEW l, VaEnd(l) PROVE TypeOK'
  <2>1. CASE Throw
    BY <1>2, <2>1
  <2>2. CASE /\ Erase({l[1]}) /\ blocks' = Without(blocks, {l[1]})
             /\ heap' = heap \ {l[1]} /\ UNCHANGED outcome
             /\ frames' = [frames EXCEPT ![Len(frames)].lists = @ \ {l}]
    <3>1. frames' = [frames EXCEPT ![Len(frames)] = [Top EXCEPT !.lists = Top.lists \ {l}]]
      BY <2>2, TopFact
    <3>2. [Top EXCEPT !.lists = Top.lists \ {l}] \in Frame
      BY TopFact DEF Frame
    <3>3. RestOK'
      <4>1. frames \in Seq(Frame) /\ frames # <<>>
        BY <1>0 DEF RestOK
      <4>2. frames' \in Seq(Frame) /\ frames' # <<>>
        BY ONLY <3>1, <3>2, <4>1, ReplaceTop
      <4> QED
        BY <1>0, <2>2, <4>2 DEF RestOK, Erase
    <3> QED
      BY <1>0, <1>1, <2>2, <3>3, RemoveMaps DEF Erase
  <2> QED
    BY <1>13, <2>1, <2>2 DEF VaEnd
<1>14. CASE MathFunction \/ Strlen \/ Strcmp \/ Strncmp \/ Getopt \/ GetoptLong \/ NotImplemented
  <2>1. PICK valid : CallExternal(valid)
    BY <1>14 DEF MathFunction, Strlen, Strcmp, Strncmp, Getopt, GetoptLong, NotImplemented
  <2> QED
    BY <2>1, ExternalType
<1> QED
  BY <1>3, <1>4, <1>5, <1>6, <1>7, <1>8, <1>9, <1>10, <1>11, <1>12, <1>13, <1>14 DEF Next

LEMMA InitType == Init => TypeOK
<1> SUFFICES ASSUME Init PROVE TypeOK
  OBVIOUS
<1>1. PICK new \in NewBlocks : blocks = new /\ frames \in {<<f>> : f \in Records(new)}
                               /\ regions = InsertAll(new, Statics)
  BY DEF Init
<1>2. PICK f \in Records(new) : frames = <<f>>
  BY <1>1
<1>3. f \in Frame /\ IsMap(new, Addr, Sizes)
  BY <1>2, RecordFact
<1>4. frames \in Seq(Frame) /\ frames # <<>>
  BY <1>2, <1>3
<1>5. IsMap(Statics, Addr \cup DOMAIN Statics, Nat)
  BY StaticsAssumption DEF IsMap
<1>6. IsMap(regions, Addr \cup DOMAIN Statics, Nat)
  BY <1>1, <1>3, <1>5, InsertMap, RegionMap
<1> QED
  BY <1>1, <1>3, <1>4, <1>6 DEF Init, TypeOK, IsMap

\* The types of the Sanitizer and of the memory it watches.
THEOREM TypeCorrect == Spec => []TypeOK
<1>1. TypeOK /\ [Next]_vars => TypeOK'
  <2>1. TypeOK /\ UNCHANGED vars => TypeOK'
    BY DEF TypeOK, vars
  <2> QED
    BY <2>1, NextType
<1> QED
  BY <1>1, InitType, PTL DEF Spec

----------------------------------------------------------------------------
(* Live blocks are known.                                                   *)

\* What the extension and the reduction of a map do to its domain.
LEMMA InsertDomain ==
    ASSUME NEW f, NEW g PROVE DOMAIN InsertAll(f, g) = DOMAIN f \cup DOMAIN g
BY DEF InsertAll

LEMMA WithoutDomain ==
    ASSUME NEW f, NEW S PROVE DOMAIN Without(f, S) = DOMAIN f \ S
BY DEF Without, Restrict

\* Blocks that are created come into both maps, blocks that are destroyed leave
\* both, or only the map of the blocks.
LEMMA InsertKnown ==
    ASSUME LiveKnown, Running, NEW new,
           blocks' = InsertAll(blocks, new), regions' = InsertAll(regions, new)
    PROVE  LiveKnown'
<1>1. /\ DOMAIN blocks' = DOMAIN blocks \cup DOMAIN new
      /\ DOMAIN regions' = DOMAIN regions \cup DOMAIN new
  BY InsertDomain
<1> QED
  BY <1>1 DEF LiveKnown

LEMMA RemoveKnown ==
    ASSUME LiveKnown, Running, NEW S, blocks' = Without(blocks, S),
           regions' = Without(regions, S) \/ regions' = regions
    PROVE  LiveKnown'
<1>1. /\ DOMAIN blocks' = DOMAIN blocks \ S
      /\ DOMAIN regions' = DOMAIN regions \ S \/ DOMAIN regions' = DOMAIN regions
  BY WithoutDomain
<1> QED
  BY <1>1 DEF LiveKnown

LEMMA NextKnown ==
    ASSUME LiveKnown, Next PROVE LiveKnown'
<1>1. (Report \/ Throw) => LiveKnown'
  BY DEF Report, Throw, LiveKnown, Running
<1>2. UNCHANGED vars => LiveKnown'
  BY DEF vars, LiveKnown, Running
<1>3. CASE Access \/ CallInvalid
  BY <1>1, <1>2, <1>3 DEF Access, CallInvalid
<1>4. CASE Move
  BY <1>1, <1>2, <1>4 DEF Move
<1>5. ASSUME NEW new, Call(new) PROVE LiveKnown'
  BY <1>5, InsertKnown DEF Call, InFunction
<1>6. CASE Ret
  BY <1>1, <1>6, RemoveKnown DEF Ret, Erase
<1>7. ASSUME NEW new, RetToRoot(new) PROVE LiveKnown'
  <2> DEFINE old == FrameBlocks(Top)
  <2>1. CASE /\ blocks' = InsertAll(Without(blocks, old), new)
             /\ regions' = InsertAll(Without(regions, old), new)
    <3> HIDE DEF old
    <3>1. /\ DOMAIN blocks' = DOMAIN Without(blocks, old) \cup DOMAIN new
          /\ DOMAIN regions' = DOMAIN Without(regions, old) \cup DOMAIN new
      BY <2>1, InsertDomain
    <3>2. /\ DOMAIN Without(blocks, old) = DOMAIN blocks \ old
          /\ DOMAIN Without(regions, old) = DOMAIN regions \ old
      BY WithoutDomain
    <3> QED
      <4>1. Running
        BY <1>7 DEF RetToRoot, InFunction
      <4> QED
        BY <3>1, <3>2, <4>1 DEF LiveKnown
  <2> QED
    BY <1>1, <1>7, <2>1 DEF RetToRoot
<1>8. ASSUME NEW b, NEW n, Alloca(b, n) PROVE LiveKnown'
  BY <1>8, InsertKnown DEF Alloca, InFunction
<1>9. ASSUME NEW saved, StackRestore(saved) PROVE LiveKnown'
  BY <1>1, <1>9, RemoveKnown DEF StackRestore, InFunction
<1>10. ASSUME NEW b, NEW n, Malloc(b, n) PROVE LiveKnown'
  BY <1>10, InsertKnown DEF Malloc, InFunction
<1>11. ASSUME NEW ptr, Free(ptr) PROVE LiveKnown'
  BY <1>1, <1>11, RemoveKnown DEF Free, Erase, InFunction
<1>12. ASSUME NEW b, NEW n, VaStart(b, n) PROVE LiveKnown'
  BY <1>12, InsertKnown DEF VaStart, InFunction
<1>13. ASSUME NEW l, VaEnd(l) PROVE LiveKnown'
  BY <1>1, <1>13, RemoveKnown DEF VaEnd, Erase, InFunction
<1>14. CASE MathFunction \/ Strlen \/ Strcmp \/ Strncmp \/ Getopt \/ GetoptLong \/ NotImplemented
  <2>1. PICK valid : CallExternal(valid)
    BY <1>14 DEF MathFunction, Strlen, Strcmp, Strncmp, Getopt, GetoptLong, NotImplemented
  <2>2. CASE valid
    <3>1. PICK new : blocks' = InsertAll(blocks, new) /\ regions' = InsertAll(regions, new)
      BY <2>1, <2>2 DEF CallExternal
    <3>2. Running
      BY <2>1 DEF CallExternal, InFunction
    <3> QED
      BY <3>1, <3>2, InsertKnown
  <2>3. CASE ~valid
    BY <2>1, <2>3 DEF CallExternal, LiveKnown, Running
  <2> QED
    BY <2>2, <2>3
<1> QED
  BY <1>3, <1>4, <1>5, <1>6, <1>7, <1>8, <1>9, <1>10, <1>11, <1>12, <1>13, <1>14 DEF Next

\* The Sanitizer knows the start of every block that lives, also of those at the
\* places of regions that STACKRESTORE left behind.
THEOREM EveryLiveBlockKnown == Spec => []LiveKnown
<1>1. Init => LiveKnown
  BY InsertDomain DEF Init, LiveKnown
<1>2. LiveKnown /\ [Next]_vars => LiveKnown'
  BY NextKnown DEF vars, LiveKnown, Running
<1> QED
  BY <1>1, <1>2, PTL DEF Spec

(****************************************************************************)
(* Proofs that the book-keeping of the Sanitizer is exact, that it trips    *)
(* over none of its assertions, and that its answers are right, for every   *)
(* address space, every set of sizes and every depth of calls.              *)
(****************************************************************************)

----------------------------------------------------------------------------
(* What a step does to the blocks and the regions.                          *)

\* New blocks enter both maps; when external code ends the execution they
\* enter the first one alone, and are skipped.
Enter(new) ==
    /\ IsMap(new, Addr, Sizes)
    /\ Fits(new)
    /\ blocks' = InsertAll(blocks, new)
    /\ stale' = stale
    /\ \/ regions' = InsertAll(regions, new) /\ Skipped' = {}
       \/ regions' = regions /\ Skipped' = DOMAIN new

\* Blocks leave both maps, or their regions become stale.
Leave(S) ==
    /\ S \subseteq Addr
    /\ blocks' = Without(blocks, S)
    /\ \/ regions' = Without(regions, S) /\ stale' = stale \ S
       \/ regions' = regions /\ stale' = stale \cup S
    /\ Skipped' = {}

\* The blocks of the last frame leave, those of the next root enter.
Exchange(S, new) ==
    /\ S \subseteq Addr /\ IsMap(new, Addr, Sizes)
    /\ DOMAIN new \cap DOMAIN Without(blocks, S) = {}
    /\ Apart(InsertAll(InsertAll(Without(blocks, S), new), Statics))
    /\ blocks' = InsertAll(Without(blocks, S), new)
    /\ regions' = InsertAll(Without(regions, S), new)
    /\ stale' = stale \ S
    /\ Skipped' = {}

Still == UNCHANGED <<blocks, regions, stale>> /\ Skipped' = {}

\* Every step does one of these.
LEMMA StepShape ==
    ASSUME TypeOK, Next
    PROVE  /\ Running
           /\ \/ Still
              \/ \E new : Enter(new)
              \/ \E S : Leave(S)
              \/ \E S, new : Exchange(S, new)
<1> DEFINE Shape == \/ Still
                    \/ \E new : Enter(new)
                    \/ \E S : Leave(S)
                    \/ \E S, new : Exchange(S, new)
<1>00. outcome' # "crash" => Skipped' = {}
  BY DEF Skipped
<1>0. /\ InFunction /\ Report => Still
      /\ Throw => Still
      /\ Running /\ UNCHANGED vars => Still
  <2>1. InFunction /\ Report => Still
    BY DEF InFunction, Report, Still, Skipped, Top
  <2>2. Throw => Still
    BY <1>00 DEF Throw, Still
  <2>3. Running /\ UNCHANGED vars => Still
    BY <1>00 DEF vars, Still, Running
  <2> QED
    BY <2>1, <2>2, <2>3
<1>1. \A b \in Addr, n \in Sizes : IsMap(At(n, b), Addr, Sizes)
  BY AtFact
<1>2. FrameBlocks(Top) \subseteq Addr /\ heap \subseteq Addr /\ Top \in Frame
  BY TopFact DEF TypeOK
<1>3. CASE Access \/ CallInvalid \/ Move
  BY <1>0, <1>3 DEF Access, CallInvalid, Move, InFunction
<1>4. ASSUME NEW new \in NewBlocks, Call(new) PROVE Running /\ Shape
  <2>1. IsMap(new, Addr, Sizes)
    BY DEF NewBlocks, IsMap
  <2>2. Enter(new)
    BY <1>00, <1>4, <2>1 DEF Call, Enter, InFunction, Running
  <2> QED
    BY <1>4, <2>2 DEF Call, InFunction
<1>5. CASE MathFunction \/ Strlen \/ Strcmp \/ Strncmp \/ Getopt \/ GetoptLong \/ NotImplemented
  <2>1. PICK valid : CallExternal(valid)
    BY <1>5 DEF MathFunction, Strlen, Strcmp, Strncmp, Getopt, GetoptLong, NotImplemented
  <2>2. PICK new \in NewBlocks : /\ Fits(new) /\ blocks' = InsertAll(blocks, new)
                                 /\ regions' = IF valid THEN InsertAll(regions, new) ELSE regions
                                 /\ frames' = Append(frames, [vars |-> DOMAIN new, locals |-> <<>>,
                                                              lists |-> {}])
    BY <2>1 DEF CallExternal
  <2>3. IsMap(new, Addr, Sizes)
    BY DEF NewBlocks, IsMap
  <2>4. ~valid => Skipped' = DOMAIN new
    <3>1. Top' = [vars |-> DOMAIN new, locals |-> <<>>, lists |-> {}]
      <4>1. DOMAIN new \subseteq Addr
        BY <2>3 DEF IsMap
      <4> QED
        BY <2>2, <4>1, PushFact DEF TypeOK, Top, Last, Frame
    <3>2. Range(<<>>) = {}
      BY DEF Range
    <3> QED
      BY <2>1, <3>1, <3>2 DEF CallExternal, Skipped, FrameBlocks
  <2>5. valid => Skipped' = {}
    BY <1>00, <2>1 DEF CallExternal, InFunction, Running
  <2>6. Enter(new)
    BY <2>1, <2>2, <2>3, <2>4, <2>5 DEF CallExternal, Enter
  <2> QED
    BY <2>1, <2>6 DEF CallExternal, InFunction
<1>6. CASE Ret
  BY <1>0, <1>00, <1>2, <1>6 DEF Ret, Leave, Erase, Running
<1>7. ASSUME NEW new \in NewBlocks, RetToRoot(new) PROVE Running /\ Shape
  <2>1. IsMap(new, Addr, Sizes)
    BY DEF NewBlocks, IsMap
  <2>2. Throw \/ Exchange(FrameBlocks(Top), new)
    BY <1>00, <1>2, <1>7, <2>1 DEF RetToRoot, Exchange, InFunction, Running
  <2> QED
    BY <1>0, <1>7, <2>2 DEF RetToRoot, InFunction
<1>8. ASSUME NEW b \in Addr, NEW n \in Sizes, Alloca(b, n) PROVE Running /\ Shape
  <2>1. Enter(At(n, b))
    BY <1>00, <1>1, <1>8 DEF Alloca, Enter, InFunction, Running
  <2> QED
    BY <1>8, <2>1 DEF Alloca, InFunction
<1>9. ASSUME NEW saved, StackRestore(saved) PROVE Running /\ Shape
  <2>1. Running /\ InFunction
    BY <1>9 DEF StackRestore, InFunction
  <2>2. ASSUME NEW i \in DOMAIN Top.locals,
               blocks' = Without(blocks, Range(SubSeq(Top.locals, i + 1, Len(Top.locals)))),
               stale' = stale \cup Range(SubSeq(Top.locals, i + 1, Len(Top.locals))),
               UNCHANGED <<regions, outcome>>
        PROVE  Shape
    <3>1. Top.locals \in Seq(Addr) /\ i \in 1 .. Len(Top.locals)
      BY <1>2, <2>2, LenProperties DEF Frame
    <3>2. Leave(Range(SubSeq(Top.locals, i + 1, Len(Top.locals))))
      BY <1>00, <2>1, <2>2, <3>1, DroppedLocals DEF Leave, Running
    <3> QED
      BY <3>2
  <2> QED
    BY <1>0, <1>9, <2>1, <2>2 DEF StackRestore
<1>10. ASSUME NEW b \in Addr, NEW n \in Sizes, Malloc(b, n) PROVE Running /\ Shape
  <2>1. Enter(At(n, b))
    BY <1>00, <1>1, <1>10 DEF Malloc, Enter, InFunction, Running
  <2> QED
    BY <1>10, <2>1 DEF Malloc, InFunction
<1>11. ASSUME NEW ptr, Free(ptr) PROVE Running /\ Shape
  <2>1. Report \/ Throw \/ Leave({ptr})
    BY <1>00, <1>2, <1>11 DEF Free, Erase, Leave, InFunction, Running
  <2> QED
    BY <1>0, <1>11, <2>1 DEF Free, InFunction
<1>12. ASSUME NEW b \in Addr, NEW n \in Sizes, VaStart(b, n) PROVE Running /\ Shape
  <2>1. Enter(At(n, b))
    BY <1>00, <1>1, <1>12 DEF VaStart, Enter, InFunction, Running
  <2> QED
    BY <1>12, <2>1 DEF VaStart, InFunction
<1>13. ASSUME NEW l \in Addr \X Sizes, VaEnd(l) PROVE Running /\ Shape
  <2>1. Throw \/ Leave({l[1]})
    BY <1>00, <1>13 DEF VaEnd, Erase, Leave, InFunction, Running
  <2> QED
    BY <1>0, <1>13, <2>1 DEF VaEnd, InFunction
<1> QED
  BY <1>3, <1>4, <1>5, <1>6, <1>7, <1>8, <1>9, <1>10, <1>11, <1>12, <1>13 DEF Next

----------------------------------------------------------------------------
(* The regions are exact.                                                   *)

\* The regions and the memory agree at every address that is not stale.
Exact(r, b, st) ==
    \A x : x \notin st =>
        /\ x \in DOMAIN r <=> x \in DOMAIN b \cup DOMAIN Statics
        /\ x \in DOMAIN r => r[x] = InsertAll(b, Statics)[x]

\* Maps that agree outside a set are the same without it.
LEMMA SameWithout ==
    ASSUME NEW f, NEW g, NEW S
    PROVE  Without(f, S) = Without(g, S) <=>
              \A x : x \notin S => /\ x \in DOMAIN f <=> x \in DOMAIN g
                                   /\ x \in DOMAIN f => f[x] = g[x]
<1> DEFINE F == DOMAIN f \ S
           G == DOMAIN g \ S
<1>1. Without(f, S) = [x \in F |-> f[x]] /\ Without(g, S) = [x \in G |-> g[x]]
  BY DEF Without, Restrict
<1>2. ASSUME [x \in F |-> f[x]] = [x \in G |-> g[x]], NEW x, x \notin S
      PROVE  /\ x \in DOMAIN f <=> x \in DOMAIN g
             /\ x \in DOMAIN f => f[x] = g[x]
  <2>1. F = G
    <3>1. DOMAIN [y \in F |-> f[y]] = F /\ DOMAIN [y \in G |-> g[y]] = G
      OBVIOUS
    <3> HIDE DEF F, G
    <3> QED
      BY <1>2, <3>1
  <2>2. x \in F => [y \in F |-> f[y]][x] = f[x] /\ [y \in G |-> g[y]][x] = g[x]
    BY <2>1
  <2> QED
    BY <1>2, <2>1, <2>2
<1>3. ASSUME \A x : x \notin S => /\ x \in DOMAIN f <=> x \in DOMAIN g
                                  /\ x \in DOMAIN f => f[x] = g[x]
      PROVE  [x \in F |-> f[x]] = [x \in G |-> g[x]]
  <2>1. F = G /\ \A x \in F : f[x] = g[x]
    BY <1>3
  <2> QED
    BY <2>1
<1>4. Without(f, S) = Without(g, S) <=> [x \in F |-> f[x]] = [x \in G |-> g[x]]
  BY <1>1
<1> QED
  BY ONLY <1>2, <1>3, <1>4

LEMMA RegionsExactIsExact ==
    RegionsExact <=> Exact(regions, Without(blocks, Skipped), stale)
<1> DEFINE known == Without(blocks, Skipped)
<1>1. DOMAIN InsertAll(known, Statics) = DOMAIN known \cup DOMAIN Statics
  BY InsertDomain
<1>2. RegionsExact <=> Without(regions, stale) = Without(InsertAll(known, Statics), stale)
  BY DEF RegionsExact
<1> HIDE DEF known
<1>3. RegionsExact <=> Exact(regions, known, stale)
  BY <1>1, <1>2, SameWithout DEF Exact
<1> QED
  BY <1>3 DEF known

\* While the execution runs nothing is skipped.
LEMMA RunningExact ==
    ASSUME TypeOK, Running, RegionsExact PROVE Exact(regions, blocks, stale)
<1>1. Skipped = {}
  BY DEF Running, Skipped
<1>2. Without(blocks, {}) = blocks
  BY DEF TypeOK, Without, Restrict
<1> QED
  BY <1>1, <1>2, RegionsExactIsExact

\* Looking up an address in an extended or a reduced map.
LEMMA InsertedAt ==
    ASSUME NEW f, NEW g
    PROVE  /\ \A x \in DOMAIN f : InsertAll(f, g)[x] = f[x]
           /\ \A x \in DOMAIN g : x \notin DOMAIN f => InsertAll(f, g)[x] = g[x]
BY DEF InsertAll

LEMMA ReducedAt ==
    ASSUME NEW f, NEW S
    PROVE  \A x \in DOMAIN f : x \notin S => Without(f, S)[x] = f[x]
BY DEF Without, Restrict

LEMMA InsertExact ==
    ASSUME NEW r, NEW b, NEW st, NEW new, Exact(r, b, st),
           DOMAIN new \cap DOMAIN b = {}, DOMAIN new \cap DOMAIN Statics = {}
    PROVE  Exact(InsertAll(r, new), InsertAll(b, new), st)
<1> SUFFICES ASSUME NEW x, x \notin st
             PROVE  /\ x \in DOMAIN InsertAll(r, new) <=> x \in DOMAIN InsertAll(b, new) \cup DOMAIN Statics
                    /\ x \in DOMAIN InsertAll(r, new) =>
                          InsertAll(r, new)[x] = InsertAll(InsertAll(b, new), Statics)[x]
  BY DEF Exact
<1>1. /\ DOMAIN InsertAll(r, new) = DOMAIN r \cup DOMAIN new
      /\ DOMAIN InsertAll(b, new) = DOMAIN b \cup DOMAIN new
  BY InsertDomain
<1>2. /\ x \in DOMAIN r <=> x \in DOMAIN b \cup DOMAIN Statics
      /\ x \in DOMAIN r => r[x] = InsertAll(b, Statics)[x]
  BY DEF Exact
<1>3. ASSUME x \in DOMAIN r
      PROVE  InsertAll(r, new)[x] = InsertAll(InsertAll(b, new), Statics)[x]
  <2>1. InsertAll(r, new)[x] = r[x]
    BY <1>3, InsertedAt
  <2>2. x \notin DOMAIN new
    BY <1>2, <1>3
  <2>3. CASE x \in DOMAIN b
    BY <1>1, <1>2, <1>3, <2>1, <2>3, InsertedAt
  <2>4. CASE x \notin DOMAIN b
    BY <1>1, <1>2, <1>3, <2>1, <2>2, <2>4, InsertedAt
  <2> QED
    BY <2>3, <2>4
<1>4. ASSUME x \in DOMAIN new, x \notin DOMAIN r
      PROVE  InsertAll(r, new)[x] = InsertAll(InsertAll(b, new), Statics)[x]
  <2>1. InsertAll(r, new)[x] = new[x]
    BY <1>4, InsertedAt
  <2>2. InsertAll(b, new)[x] = new[x]
    BY <1>4, InsertedAt
  <2> QED
    BY <1>1, <1>4, <2>1, <2>2, InsertedAt
<1> QED
  BY <1>1, <1>2, <1>3, <1>4

LEMMA RemoveExact ==
    ASSUME NEW r, NEW b, NEW st, NEW S, Exact(r, b, st), S \cap DOMAIN Statics = {}
    PROVE  /\ Exact(Without(r, S), Without(b, S), st \ S)
           /\ Exact(r, Without(b, S), st \cup S)
<1>1. /\ DOMAIN Without(r, S) = DOMAIN r \ S
      /\ DOMAIN Without(b, S) = DOMAIN b \ S
  BY WithoutDomain
<1>2. ASSUME NEW x, x \notin S, x \notin st
      PROVE  /\ x \in DOMAIN r <=> x \in DOMAIN Without(b, S) \cup DOMAIN Statics
             /\ x \in DOMAIN r => /\ r[x] = InsertAll(Without(b, S), Statics)[x]
                                  /\ Without(r, S)[x] = r[x]
  <2>1. /\ x \in DOMAIN r <=> x \in DOMAIN b \cup DOMAIN Statics
        /\ x \in DOMAIN r => r[x] = InsertAll(b, Statics)[x]
    BY <1>2 DEF Exact
  <2>2. ASSUME x \in DOMAIN r PROVE Without(r, S)[x] = r[x]
    BY <1>2, <2>2, ReducedAt
  <2>3. CASE x \in DOMAIN b
    <3>1. Without(b, S)[x] = b[x]
      BY <1>2, <2>3, ReducedAt
    <3>2. /\ InsertAll(Without(b, S), Statics)[x] = b[x]
          /\ InsertAll(b, Statics)[x] = b[x]
      BY <1>1, <1>2, <2>3, <3>1, InsertedAt
    <3> QED
      BY <1>1, <1>2, <2>1, <2>2, <2>3, <3>2
  <2>4. CASE x \notin DOMAIN b /\ x \in DOMAIN Statics
    <3>1. /\ InsertAll(Without(b, S), Statics)[x] = Statics[x]
          /\ InsertAll(b, Statics)[x] = Statics[x]
      BY <1>1, <2>4, InsertedAt
    <3> QED
      BY <1>1, <2>1, <2>2, <2>4, <3>1
  <2> QED
    BY <1>1, <2>1, <2>3, <2>4
<1>3. \A x : x \in S => /\ x \notin DOMAIN Without(r, S)
                        /\ x \notin DOMAIN Without(b, S) \cup DOMAIN Statics
  BY <1>1
<1>4. Exact(Without(r, S), Without(b, S), st \ S)
  BY <1>1, <1>2, <1>3 DEF Exact
<1>5. Exact(r, Without(b, S), st \cup S)
  BY <1>2 DEF Exact
<1> QED
  BY <1>4, <1>5

LEMMA NextExact ==
    ASSUME TypeOK, RegionsExact, Next PROVE RegionsExact'
<1>1. Exact(regions, blocks, stale)
  BY StepShape, RunningExact
<1>2. Addr \cap DOMAIN Statics = {}
  BY StaticsAssumption
<1>3. /\ Exact(regions', Without(blocks', Skipped'), stale') => RegionsExact'
      /\ Skipped' = {} /\ Exact(regions', blocks', stale') => RegionsExact'
  <2>1. RegionsExact' <=> Exact(regions', Without(blocks', Skipped'), stale')
    <3> DEFINE known == Without(blocks', Skipped')
    <3>1. DOMAIN InsertAll(known, Statics) = DOMAIN known \cup DOMAIN Statics
      BY InsertDomain
    <3>2. RegionsExact' <=> Without(regions', stale') = Without(InsertAll(known, Statics), stale')
      BY DEF RegionsExact
    <3> HIDE DEF known
    <3>3. RegionsExact' <=> Exact(regions', known, stale')
      BY <3>1, <3>2, SameWithout DEF Exact
    <3> QED
      BY <3>3 DEF known
  <2>2. ASSUME Exact(regions', blocks', stale') PROVE Exact(regions', Without(blocks', {}), stale')
    <3>1. Exact(regions', Without(blocks', {}), stale' \cup {})
      BY <2>2, RemoveExact
    <3> QED
      BY <3>1
  <2> QED
    BY <2>1, <2>2
<1>4. CASE Still
  BY <1>1, <1>3, <1>4 DEF Still
<1>5. ASSUME NEW new, Enter(new) PROVE RegionsExact'
  <2>1. DOMAIN new \cap DOMAIN blocks = {} /\ DOMAIN new \cap DOMAIN Statics = {}
    BY <1>2, <1>5 DEF Enter, Fits, IsMap
  <2>2. Exact(InsertAll(regions, new), InsertAll(blocks, new), stale)
    BY <1>1, <2>1, InsertExact
  <2>3. Without(InsertAll(blocks, new), DOMAIN new) = blocks
    <3> DEFINE b == InsertAll(blocks, new)
    <3>1. DOMAIN b = DOMAIN blocks \cup DOMAIN new /\ \A x \in DOMAIN blocks : b[x] = blocks[x]
      BY InsertDomain, InsertedAt
    <3> HIDE DEF b
    <3>2. Without(b, DOMAIN new) = [x \in DOMAIN blocks |-> blocks[x]]
      BY <2>1, <3>1 DEF Without, Restrict
    <3> QED
      BY <3>2 DEF b, TypeOK
  <2> QED
    BY <1>1, <1>3, <1>5, <2>2, <2>3 DEF Enter
<1>6. ASSUME NEW S, Leave(S) PROVE RegionsExact'
  <2>1. S \cap DOMAIN Statics = {}
    BY <1>2, <1>6 DEF Leave
  <2>2. /\ Exact(Without(regions, S), Without(blocks, S), stale \ S)
        /\ Exact(regions, Without(blocks, S), stale \cup S)
    BY <1>1, <2>1, RemoveExact
  <2> QED
    BY <1>3, <1>6, <2>2 DEF Leave
<1>7. ASSUME NEW S, NEW new, Exchange(S, new) PROVE RegionsExact'
  <2>1. S \cap DOMAIN Statics = {} /\ DOMAIN new \cap DOMAIN Statics = {}
    BY <1>2, <1>7 DEF Exchange, IsMap
  <2>2. Exact(Without(regions, S), Without(blocks, S), stale \ S)
    BY <1>1, <2>1, RemoveExact
  <2>3. Exact(InsertAll(Without(regions, S), new), InsertAll(Without(blocks, S), new), stale \ S)
    BY <1>7, <2>1, <2>2, InsertExact DEF Exchange
  <2> QED
    BY <1>3, <1>7, <2>3 DEF Exchange
<1> QED
  BY <1>4, <1>5, <1>6, <1>7, StepShape

LEMMA InitExact == Init => RegionsExact
<1> SUFFICES ASSUME Init PROVE RegionsExact
  OBVIOUS
<1>1. blocks \in NewBlocks /\ regions = InsertAll(blocks, Statics) /\ stale = {}
  BY DEF Init
<1>2. Skipped = {} /\ Without(blocks, {}) = blocks
  BY <1>1 DEF Init, Skipped, NewBlocks, Without, Restrict
<1> QED
  BY <1>1, <1>2 DEF RegionsExact

\* But for the entries that STACKRESTORE left behind, the regions of the
\* Sanitizer are the live blocks and the static memory, with their sizes; of the
\* frame of external code that ended the execution they have none.
THEOREM RegionsAreExact == Spec => []RegionsExact
<1>1. TypeOK /\ RegionsExact /\ [Next]_vars => RegionsExact'
  <2>1. RegionsExact /\ UNCHANGED vars => RegionsExact'
    BY DEF RegionsExact, vars, Skipped, Top
  <2> QED
    BY <2>1, NextExact
<1> QED
  BY <1>1, InitExact, TypeCorrect, PTL DEF Spec

----------------------------------------------------------------------------
(* Blocks keep their distance.                                              *)

AllApart == Apart(InsertAll(blocks, Statics))

LEMMA FewerApart ==
    ASSUME NEW b, NEW S, Apart(InsertAll(b, Statics)), S \cap DOMAIN Statics = {}
    PROVE  Apart(InsertAll(Without(b, S), Statics))
<1> DEFINE all == InsertAll(b, Statics)
           some == InsertAll(Without(b, S), Statics)
<1>0. DOMAIN Without(b, S) = DOMAIN b \ S
  BY WithoutDomain
<1>1. /\ DOMAIN all = DOMAIN b \cup DOMAIN Statics
      /\ DOMAIN some = (DOMAIN b \ S) \cup DOMAIN Statics
  BY ONLY <1>0, InsertDomain
<1>2. ASSUME NEW x \in DOMAIN some PROVE x \in DOMAIN all /\ some[x] = all[x]
  <2>0. x \in (DOMAIN b \ S) \cup DOMAIN Statics
    BY <1>1, <1>2
  <2>1. CASE x \in DOMAIN b
    <3>1. x \notin S
      BY <2>0
    <3>2. x \in DOMAIN Without(b, S) /\ Without(b, S)[x] = b[x]
      BY <1>0, <2>1, <3>1, ReducedAt
    <3>3. some[x] = Without(b, S)[x] /\ all[x] = b[x]
      BY <2>1, <3>2, InsertedAt
    <3> QED
      BY <1>1, <2>1, <3>2, <3>3
  <2>2. CASE x \notin DOMAIN b
    <3>1. x \in DOMAIN Statics /\ x \notin DOMAIN Without(b, S)
      BY <1>0, <2>0, <2>2
    <3>2. some[x] = Statics[x] /\ all[x] = Statics[x]
      BY <2>2, <3>1, InsertedAt
    <3> QED
      BY <1>1, <3>1, <3>2
  <2> QED
    BY <2>1, <2>2
<1> HIDE DEF all, some
<1>3. Apart(all)
  BY DEF all
<1>4. Apart(some)
  BY <1>2, <1>3 DEF Apart
<1> QED
  BY <1>4 DEF some

LEMMA NextApart ==
    ASSUME TypeOK, AllApart, Next PROVE AllApart'
<1>1. CASE Still
  BY <1>1 DEF AllApart, Still
<1>2. ASSUME NEW new, Enter(new) PROVE AllApart'
  BY <1>2 DEF AllApart, Enter, Fits
<1>3. ASSUME NEW S, Leave(S) PROVE AllApart'
  <2>1. S \cap DOMAIN Statics = {}
    BY <1>3, StaticsAssumption DEF Leave
  <2>2. Apart(InsertAll(Without(blocks, S), Statics))
    BY <2>1, FewerApart DEF AllApart
  <2> QED
    BY <1>3, <2>2 DEF AllApart, Leave
<1>4. ASSUME NEW S, NEW new, Exchange(S, new) PROVE AllApart'
  BY <1>4 DEF AllApart, Exchange
<1> QED
  BY <1>1, <1>2, <1>3, <1>4, StepShape

LEMMA BlocksApart == Spec => []AllApart
<1>1. Init => AllApart
  BY DEF Init, AllApart
<1>2. TypeOK /\ AllApart /\ [Next]_vars => AllApart'
  <2>1. AllApart /\ UNCHANGED vars => AllApart'
    BY DEF AllApart, vars
  <2> QED
    BY <2>1, NextApart
<1> QED
  BY <1>1, <1>2, TypeCorrect, PTL DEF Spec

----------------------------------------------------------------------------
(* Every block has one owner.                                               *)

\* A frame names each of its blocks once.
Distinct(f) == f.vars \cap Range(f.locals) = {} /\ IsInjective(f.locals)

\* Frames own their blocks, apart from one another and from the heap; the first
\* frame is of a function that is not external.
Owned ==
    /\ heap \subseteq DOMAIN blocks
    /\ \A i \in DOMAIN frames : FrameBlocks(frames[i]) \subseteq DOMAIN blocks \ heap
    /\ \A i, j \in DOMAIN frames :
          i # j => FrameBlocks(frames[i]) \cap FrameBlocks(frames[j]) = {}
    /\ \A i \in DOMAIN frames : Distinct(frames[i])
    /\ frames[1].locals # <<>>

\* The array of a started list is a block of the heap and of no other list.
Listed ==
    /\ \A i \in DOMAIN frames : \A l \in frames[i].lists :
          l[1] \in heap /\ blocks[l[1]] = l[2]
    /\ \A i, j \in DOMAIN frames : \A l \in frames[i].lists, k \in frames[j].lists :
          l[1] = k[1] => i = j /\ l = k

\* A block pushed on the locals.
LEMMA PushedLocal ==
    ASSUME NEW q \in Seq(Addr), NEW b \in Addr
    PROVE  /\ Range(Append(q, b)) = Range(q) \cup {b}
           /\ IsInjective(q) /\ b \notin Range(q) => IsInjective(Append(q, b))
           /\ Append(q, b) # <<>>
<1>1. /\ DOMAIN Append(q, b) = DOMAIN q \cup {Len(q) + 1}
      /\ \A i \in DOMAIN q : Append(q, b)[i] = q[i]
      /\ Append(q, b)[Len(q) + 1] = b
      /\ Len(q) + 1 \notin DOMAIN q
      /\ Len(Append(q, b)) = Len(q) + 1 /\ Append(q, b) \in Seq(Addr)
  BY PushFact
<1> DEFINE p == Append(q, b)
           n == Len(q) + 1
<1>2. /\ DOMAIN p = DOMAIN q \cup {n} /\ \A i \in DOMAIN q : p[i] = q[i]
      /\ p[n] = b /\ n \notin DOMAIN q
  BY <1>1
<1>3. Append(q, b) # <<>>
  BY <1>1, EmptySeq, LenProperties
<1> HIDE DEF p, n
<1>4. Range(p) = Range(q) \cup {b}
  BY ONLY <1>2 DEF Range
<1>5. IsInjective(q) /\ b \notin Range(q) => IsInjective(p)
  BY ONLY <1>2 DEF Range, IsInjective
<1> QED
  BY <1>3, <1>4, <1>5 DEF p

\* The locals, cut behind a saved one.
LEMMA CutLocals ==
    ASSUME NEW q \in Seq(Addr), NEW i \in 1 .. Len(q), IsInjective(q)
    PROVE  LET low  == SubSeq(q, 1, i)
               high == SubSeq(q, i + 1, Len(q)) IN
           /\ low # <<>> /\ IsInjective(low)
           /\ Range(low) \subseteq Range(q) /\ Range(high) \subseteq Range(q)
           /\ Range(low) \cap Range(high) = {}
<1> DEFINE low == SubSeq(q, 1, i)
           high == SubSeq(q, i + 1, Len(q))
<1>1. Len(q) \in Nat /\ DOMAIN q = 1 .. Len(q) /\ \A j \in 1 .. Len(q) : q[j] \in Addr
  BY ElementOfSeq, LenProperties
<1>2. low \in Seq(Addr) /\ Len(low) = i /\ \A j \in 1 .. i : low[j] = q[j]
  <2>1. \A j \in 1 .. i : q[j] \in Addr
    BY <1>1
  <2>2. /\ SubSeq(q, 1, i) \in Seq(Addr)
        /\ Len(SubSeq(q, 1, i)) = IF 1 <= i THEN i - 1 + 1 ELSE 0
        /\ \A j \in 1 .. i - 1 + 1 : SubSeq(q, 1, i)[j] = q[1 + j - 1]
    BY <1>1, <2>1, SubSeqProperties
  <2> QED
    BY <1>1, <2>2
<1>3. /\ high \in Seq(Addr) /\ Len(high) = Len(q) - i
      /\ \A j \in 1 .. Len(q) - i : high[j] = q[i + j]
  <2>1. /\ SubSeq(q, i + 1, Len(q)) \in Seq(Addr)
        /\ Len(SubSeq(q, i + 1, Len(q))) = IF i + 1 <= Len(q) THEN Len(q) - (i + 1) + 1 ELSE 0
        /\ \A j \in 1 .. Len(q) - (i + 1) + 1 : SubSeq(q, i + 1, Len(q))[j] = q[i + 1 + j - 1]
    BY <1>1, SubSeqProperties
  <2>2. Len(q) - (i + 1) + 1 = Len(q) - i /\ (i + 1 <= Len(q) \/ Len(q) - i = 0)
    <3>1. \A n \in Nat : \A k \in 1 .. n : n - (k + 1) + 1 = n - k /\ (k + 1 <= n \/ n - k = 0)
      OBVIOUS
    <3> QED
      BY ONLY <1>1, <3>1, i \in 1 .. Len(q)
  <2>3. \A j \in 1 .. Len(q) - i : i + 1 + j - 1 = i + j
    BY <1>1
  <2>4. Len(high) = Len(q) - i
    BY <2>1, <2>2
  <2>5. \A j \in 1 .. Len(q) - i : high[j] = q[i + j]
    BY <2>1, <2>2, <2>3
  <2> QED
    BY <2>1, <2>4, <2>5
<1>4. /\ DOMAIN low = 1 .. i /\ DOMAIN high = 1 .. Len(q) - i
      /\ low # <<>>
  BY <1>2, <1>3, LenProperties, EmptySeq
<1> HIDE DEF low, high
<1>5. IsInjective(low)
  BY <1>1, <1>2, <1>4 DEF IsInjective
<1>6. \A x \in Range(low) : \E j \in 1 .. i : x = q[j]
  BY <1>2, <1>4 DEF Range
<1>7. \A x \in Range(high) : \E j \in 1 .. Len(q) - i : x = q[i + j]
  BY <1>3, <1>4 DEF Range
<1>8. Range(low) \subseteq Range(q) /\ Range(high) \subseteq Range(q)
  <2>1. \A j \in 1 .. i : j \in DOMAIN q
    BY <1>1
  <2>2. \A j \in 1 .. Len(q) - i : i + j \in DOMAIN q
    BY <1>1
  <2> QED
    BY <1>6, <1>7, <2>1, <2>2 DEF Range
<1>9. Range(low) \cap Range(high) = {}
  <2>1. ASSUME NEW j \in 1 .. i, NEW k \in 1 .. Len(q) - i, q[j] = q[i + k] PROVE FALSE
    <3>1. j \in DOMAIN q /\ i + k \in DOMAIN q /\ j # i + k
      BY <1>1
    <3> QED
      BY <2>1, <3>1 DEF IsInjective
  <2> QED
    BY <1>6, <1>7, <2>1
<1> QED
  BY <1>4, <1>5, <1>8, <1>9 DEF low, high

\* A frame pushed on the stack, with new blocks.
LEMMA PushOwned ==
    ASSUME TypeOK, Owned, NEW f \in Frame, frames' = Append(frames, f),
           NEW N, FrameBlocks(f) \subseteq N, N \cap DOMAIN blocks = {}, Distinct(f),
           DOMAIN blocks' = DOMAIN blocks \cup N, heap' = heap
    PROVE  Owned'
<1>1. /\ frames \in Seq(Frame) /\ frames # <<>>
      /\ Len(frames) \in DOMAIN frames /\ Len(frames) \in Nat /\ 1 \in DOMAIN frames
  BY TopFact, LenProperties DEF TypeOK
<1>2. /\ DOMAIN frames' = DOMAIN frames \cup {Len(frames) + 1}
      /\ \A i \in DOMAIN frames : frames'[i] = frames[i]
      /\ frames'[Len(frames) + 1] = f
      /\ Len(frames) + 1 \notin DOMAIN frames
  BY <1>1, PushFact
<1> DEFINE n == Len(frames) + 1
<1>3. /\ DOMAIN frames' = DOMAIN frames \cup {n} /\ frames'[n] = f
      /\ \A i \in DOMAIN frames : frames'[i] = frames[i]
  BY <1>2
<1> HIDE DEF n
<1>4. heap' \subseteq DOMAIN blocks'
  BY DEF Owned
<1>5. N \cap heap = {}
  BY DEF Owned
<1>6. \A i \in DOMAIN frames' : FrameBlocks(frames'[i]) \subseteq DOMAIN blocks' \ heap'
  BY <1>3, <1>5 DEF Owned
<1>7. \A i, j \in DOMAIN frames' :
         i # j => FrameBlocks(frames'[i]) \cap FrameBlocks(frames'[j]) = {}
  <2>1. \A i \in DOMAIN frames : FrameBlocks(frames[i]) \cap N = {}
    BY DEF Owned
  <2> QED
    BY <1>3, <2>1 DEF Owned
<1>8. \A i \in DOMAIN frames' : Distinct(frames'[i])
  BY <1>3 DEF Owned
<1>9. frames'[1].locals # <<>>
  BY <1>1, <1>3 DEF Owned
<1> QED
  BY <1>4, <1>6, <1>7, <1>8, <1>9 DEF Owned

\* The frame on top is popped with its blocks.
LEMMA PopOwned ==
    ASSUME TypeOK, Owned, Len(frames) > 1, frames' = Front(frames), heap' = heap,
           DOMAIN blocks' = DOMAIN blocks \ FrameBlocks(Top)
    PROVE  Owned'
<1>1. /\ frames \in Seq(Frame) /\ frames # <<>> /\ Top = frames[Len(frames)]
      /\ Len(frames) \in DOMAIN frames /\ Len(frames) \in Nat
      /\ DOMAIN frames = 1 .. Len(frames)
  BY TopFact, LenProperties DEF TypeOK
<1>2. /\ Len(frames') = Len(frames) - 1 /\ frames' \in Seq(Frame)
      /\ \A i \in 1 .. Len(frames) - 1 : frames'[i] = frames[i]
  BY <1>1, PopFact
<1>3. DOMAIN frames' = 1 .. Len(frames) - 1
  BY <1>2, LenProperties
<1> DEFINE n == Len(frames)
<1>4. /\ n \in DOMAIN frames /\ n \notin DOMAIN frames' /\ 1 \in DOMAIN frames'
      /\ \A i \in DOMAIN frames' : i \in DOMAIN frames /\ frames'[i] = frames[i] /\ i # n
  BY <1>1, <1>2, <1>3
<1>5. FrameBlocks(frames[n]) \cap heap = {}
  BY <1>4 DEF Owned
<1>6. DOMAIN blocks' = DOMAIN blocks \ FrameBlocks(frames[n])
  BY <1>1
<1> HIDE DEF n
<1>7. heap' \subseteq DOMAIN blocks'
  BY <1>5, <1>6 DEF Owned
<1>8. \A i \in DOMAIN frames' : FrameBlocks(frames'[i]) \subseteq DOMAIN blocks' \ heap'
  BY <1>4, <1>6 DEF Owned
<1>9. \A i, j \in DOMAIN frames' :
         i # j => FrameBlocks(frames'[i]) \cap FrameBlocks(frames'[j]) = {}
  BY <1>4 DEF Owned
<1>10. (\A i \in DOMAIN frames' : Distinct(frames'[i])) /\ frames'[1].locals # <<>>
  BY <1>4 DEF Owned
<1> QED
  BY <1>7, <1>8, <1>9, <1>10 DEF Owned

\* The frame on top is changed, with blocks that it had or that are new; what
\* other frames own stays.
LEMMA ChangeOwned ==
    ASSUME TypeOK, Owned, NEW e \in Frame, frames' = [frames EXCEPT ![Len(frames)] = e],
           heap' \subseteq DOMAIN blocks', FrameBlocks(e) \subseteq DOMAIN blocks' \ heap',
           FrameBlocks(e) \cap DOMAIN blocks \subseteq FrameBlocks(Top),
           DOMAIN blocks \ (heap \cup FrameBlocks(Top)) \subseteq DOMAIN blocks' \ heap',
           Distinct(e), e.locals # <<>>
    PROVE  Owned'
<1> DEFINE n == Len(frames)
<1>1. /\ n \in DOMAIN frames /\ 1 \in DOMAIN frames /\ Top = frames[n]
      /\ DOMAIN frames' = DOMAIN frames /\ frames'[n] = e
      /\ \A i \in DOMAIN frames : i # n => frames'[i] = frames[i]
  BY TopFact, LenProperties DEF TypeOK
<1> HIDE DEF n
<1>2. \A i \in DOMAIN frames : i # n =>
         FrameBlocks(frames[i]) \subseteq DOMAIN blocks \ (heap \cup FrameBlocks(Top))
  BY <1>1 DEF Owned
<1>3. \A i \in DOMAIN frames' : FrameBlocks(frames'[i]) \subseteq DOMAIN blocks' \ heap'
  BY <1>1, <1>2
<1>4. \A i \in DOMAIN frames : i # n => FrameBlocks(frames[i]) \cap FrameBlocks(e) = {}
  BY <1>2
<1>5. \A i, j \in DOMAIN frames' :
         i # j => FrameBlocks(frames'[i]) \cap FrameBlocks(frames'[j]) = {}
  BY <1>1, <1>4 DEF Owned
<1>6. (\A i \in DOMAIN frames' : Distinct(frames'[i])) /\ frames'[1].locals # <<>>
  BY <1>1 DEF Owned
<1> QED
  BY <1>3, <1>5, <1>6 DEF Owned

\* The frame on top is changed and keeps its blocks.
LEMMA SameOwned ==
    ASSUME TypeOK, Owned, NEW e \in Frame, frames' = [frames EXCEPT ![Len(frames)] = e],
           e.vars = Top.vars, e.locals = Top.locals, Top.locals # <<>>,
           heap' \subseteq DOMAIN blocks', DOMAIN blocks \ heap \subseteq DOMAIN blocks' \ heap'
    PROVE  Owned'
<1>1. FrameBlocks(Top) \subseteq DOMAIN blocks \ heap /\ Distinct(Top)
  BY TopFact DEF Owned
<1>2. FrameBlocks(e) = FrameBlocks(Top) /\ Distinct(e)
  BY <1>1 DEF FrameBlocks, Distinct
<1> QED
  BY <1>1, <1>2, ChangeOwned

\* The frames stay, only the heap changes.
LEMMA HeapOwned ==
    ASSUME Owned, frames' = frames, heap' \subseteq DOMAIN blocks',
           DOMAIN blocks \ heap \subseteq DOMAIN blocks' \ heap'
    PROVE  Owned'
BY DEF Owned

\* The frame of a call owns the new blocks.
LEMMA RecordOwns ==
    ASSUME NEW new \in NewBlocks, NEW f \in Records(new)
    PROVE  /\ f \in Frame /\ FrameBlocks(f) = DOMAIN new /\ Distinct(f)
           /\ f.lists = {} /\ f.locals # <<>>
<1>1. PICK b \in DOMAIN new : f = [vars |-> DOMAIN new \ {b}, locals |-> <<b>>, lists |-> {}]
  BY DEF Records
<1>2. DOMAIN <<b>> = {1} /\ <<b>>[1] = b /\ <<b>> # <<>>
  OBVIOUS
<1>3. Range(<<b>>) = {b} /\ IsInjective(<<b>>)
  BY <1>2 DEF Range, IsInjective
<1> QED
  BY <1>1, <1>2, <1>3, RecordFact DEF FrameBlocks, Distinct

\* The frame of external code owns the new blocks.
LEMMA ExternalOwns ==
    ASSUME NEW new \in NewBlocks
    PROVE  LET f == [vars |-> DOMAIN new, locals |-> <<>>, lists |-> {}] IN
           f \in Frame /\ FrameBlocks(f) = DOMAIN new /\ Distinct(f) /\ f.lists = {}
<1>1. DOMAIN new \subseteq Addr
  BY DEF NewBlocks
<1>2. Range(<<>>) = {} /\ IsInjective(<<>>)
  BY DEF Range, IsInjective
<1> DEFINE f == [vars |-> DOMAIN new, locals |-> <<>>, lists |-> {}]
<1>3. f.vars = DOMAIN new /\ f.locals = <<>> /\ f.lists = {}
  OBVIOUS
<1>4. f \in Frame
  BY <1>1 DEF Frame
<1> HIDE DEF f
<1>5. FrameBlocks(f) = DOMAIN new /\ Distinct(f)
  BY <1>2, <1>3 DEF FrameBlocks, Distinct
<1> QED
  BY <1>3, <1>4, <1>5 DEF f

LEMMA NextOwned ==
    ASSUME TypeOK, Owned, Listed, Next PROVE Owned'
<1>0. UNCHANGED <<blocks, frames, heap>> => Owned'
  BY DEF Owned
<1>1. (Report \/ Throw \/ UNCHANGED vars) => Owned'
  BY <1>0 DEF Report, Throw, vars
<1>2. /\ Top \in Frame /\ Top = frames[Len(frames)] /\ Len(frames) \in DOMAIN frames
      /\ frames \in Seq(Frame)
      /\ FrameBlocks(Top) \subseteq DOMAIN blocks \ heap /\ Distinct(Top)
      /\ heap \subseteq DOMAIN blocks
  BY TopFact DEF TypeOK, Owned
<1>3. CASE Access \/ CallInvalid \/ Move
  BY <1>1, <1>3 DEF Access, CallInvalid, Move
<1>4. ASSUME NEW new \in NewBlocks, Call(new) PROVE Owned'
  <2>1. PICK f \in Records(new) : frames' = Append(frames, f)
    BY <1>4 DEF Call
  <2>2. /\ DOMAIN blocks' = DOMAIN blocks \cup DOMAIN new
        /\ DOMAIN new \cap DOMAIN blocks = {} /\ heap' = heap
    BY <1>4, InsertDomain DEF Call, Fits
  <2> QED
    BY <2>1, <2>2, RecordOwns, PushOwned
<1>5. CASE MathFunction \/ Strlen \/ Strcmp \/ Strncmp \/ Getopt \/ GetoptLong \/ NotImplemented
  <2>1. PICK valid : CallExternal(valid)
    BY <1>5 DEF MathFunction, Strlen, Strcmp, Strncmp, Getopt, GetoptLong, NotImplemented
  <2> DEFINE f(new) == [vars |-> DOMAIN new, locals |-> <<>>, lists |-> {}]
  <2>2. PICK new \in NewBlocks : /\ Fits(new) /\ blocks' = InsertAll(blocks, new)
                                 /\ frames' = Append(frames, f(new))
    BY <2>1 DEF CallExternal
  <2>3. /\ DOMAIN blocks' = DOMAIN blocks \cup DOMAIN new
        /\ DOMAIN new \cap DOMAIN blocks = {} /\ heap' = heap
    BY <2>1, <2>2, InsertDomain DEF CallExternal, Fits
  <2>4. f(new) \in Frame /\ FrameBlocks(f(new)) = DOMAIN new /\ Distinct(f(new))
    BY ExternalOwns
  <2> HIDE DEF f
  <2> QED
    BY <2>2, <2>3, <2>4, PushOwned
<1>6. CASE Ret
  <2>1. CASE /\ Len(frames) > 1 /\ frames' = Front(frames) /\ heap' = heap
             /\ blocks' = Without(blocks, FrameBlocks(Top))
    BY <2>1, WithoutDomain, PopOwned
  <2> QED
    BY <1>1, <1>6, <2>1 DEF Ret
<1>7. ASSUME NEW new \in NewBlocks, RetToRoot(new) PROVE Owned'
  <2> DEFINE old == FrameBlocks(Top)
  <2>1. ASSUME NEW f \in Records(new), frames' = <<f>>, heap' = heap,
               blocks' = InsertAll(Without(blocks, old), new),
               DOMAIN new \cap DOMAIN Without(blocks, old) = {}
        PROVE  Owned'
    <3>1. DOMAIN frames' = {1} /\ frames'[1] = f
      BY <2>1
    <3>2. FrameBlocks(f) = DOMAIN new /\ Distinct(f) /\ f.locals # <<>>
      BY <2>1, RecordOwns
    <3> HIDE DEF old
    <3>3. DOMAIN Without(blocks, old) = DOMAIN blocks \ old
      BY WithoutDomain
    <3>4. DOMAIN blocks' = (DOMAIN blocks \ old) \cup DOMAIN new
      BY <2>1, <3>3, InsertDomain
    <3>5. heap \subseteq DOMAIN blocks \ old
      BY <1>2 DEF old
    <3>6. heap' \subseteq DOMAIN blocks' /\ DOMAIN new \subseteq DOMAIN blocks' \ heap'
      BY <2>1, <3>3, <3>4, <3>5
    <3> QED
      BY <3>1, <3>2, <3>6 DEF Owned
  <2> QED
    BY <1>1, <1>7, <2>1 DEF RetToRoot
<1>8. ASSUME NEW b \in Addr, NEW n \in Sizes, Alloca(b, n) PROVE Owned'
  <2> DEFINE e == [Top EXCEPT !.locals = Append(Top.locals, b)]
  <2>1. /\ frames' = [frames EXCEPT ![Len(frames)] = e] /\ heap' = heap
        /\ Fits(At(n, b)) /\ blocks' = InsertAll(blocks, At(n, b))
    BY <1>2, <1>8 DEF Alloca
  <2>2. DOMAIN At(n, b) = {b}
    BY DEF At
  <2>3. DOMAIN blocks' = DOMAIN blocks \cup {b} /\ b \notin DOMAIN blocks
    BY <2>1, <2>2, InsertDomain DEF Fits
  <2>4. /\ Top.locals \in Seq(Addr) /\ e \in Frame
        /\ e.vars = Top.vars /\ e.locals = Append(Top.locals, b)
    BY <1>2, AppendProperties DEF Frame
  <2> HIDE DEF e
  <2>5. b \notin FrameBlocks(Top)
    BY <1>2, <2>3
  <2>6. /\ Range(e.locals) = Range(Top.locals) \cup {b}
        /\ IsInjective(e.locals) /\ e.locals # <<>>
    BY <1>2, <2>4, <2>5, PushedLocal DEF Distinct, FrameBlocks
  <2>7. FrameBlocks(e) = FrameBlocks(Top) \cup {b} /\ Distinct(e)
    BY <1>2, <2>4, <2>5, <2>6 DEF Distinct, FrameBlocks
  <2> QED
    BY <1>2, <2>1, <2>3, <2>4, <2>6, <2>7, ChangeOwned
<1>9. ASSUME NEW saved, StackRestore(saved) PROVE Owned'
  <2>1. ASSUME NEW i \in DOMAIN Top.locals, heap' = heap,
               frames' = [frames EXCEPT ![Len(frames)].locals = SubSeq(@, 1, i)],
               blocks' = Without(blocks, Range(SubSeq(Top.locals, i + 1, Len(Top.locals))))
        PROVE  Owned'
    <3> DEFINE q == Top.locals
               low == SubSeq(q, 1, i)
               high == SubSeq(q, i + 1, Len(q))
               e == [Top EXCEPT !.locals = low]
    <3>1. q \in Seq(Addr) /\ i \in 1 .. Len(q) /\ IsInjective(q)
      BY <1>2, <2>1, LenProperties DEF Frame, Distinct
    <3>2. /\ low # <<>> /\ IsInjective(low)
          /\ Range(low) \subseteq Range(q) /\ Range(high) \subseteq Range(q)
          /\ Range(low) \cap Range(high) = {}
      BY <3>1, CutLocals
    <3>3. low \in Seq(Addr)
      <4>1. \A j \in 1 .. i : q[j] \in Addr
        BY <3>1, ElementOfSeq, LenProperties
      <4> QED
        BY <3>1, <4>1, SubSeqProperties
    <3>4. /\ frames' = [frames EXCEPT ![Len(frames)] = e]
          /\ DOMAIN blocks' = DOMAIN blocks \ Range(high)
      BY <1>2, <2>1, WithoutDomain
    <3> HIDE DEF low, high
    <3>5. e \in Frame /\ e.vars = Top.vars /\ e.locals = low
      BY <1>2, <3>3 DEF Frame
    <3> HIDE DEF e
    <3>6. FrameBlocks(e) \subseteq FrameBlocks(Top) \ Range(high) /\ Distinct(e)
      BY <1>2, <3>2, <3>5 DEF Distinct, FrameBlocks
    <3>7. Range(high) \subseteq FrameBlocks(Top)
      BY <3>2 DEF FrameBlocks
    <3>8. heap' \subseteq DOMAIN blocks' /\ FrameBlocks(e) \subseteq DOMAIN blocks' \ heap'
      BY <1>2, <2>1, <3>4, <3>6, <3>7
    <3> QED
      BY <2>1, <3>2, <3>4, <3>5, <3>6, <3>7, <3>8, ChangeOwned
  <2> QED
    BY <1>1, <1>9, <2>1 DEF StackRestore
<1>10. ASSUME NEW b \in Addr, NEW n \in Sizes, Malloc(b, n) PROVE Owned'
  <2>1. DOMAIN At(n, b) = {b}
    BY DEF At
  <2>2. DOMAIN blocks' = DOMAIN blocks \cup {b} /\ b \notin DOMAIN blocks
    BY <1>10, <2>1, InsertDomain DEF Malloc, Fits
  <2> QED
    BY <1>2, <1>10, <2>2, HeapOwned DEF Malloc
<1>11. ASSUME NEW ptr, Free(ptr) PROVE Owned'
  <2>1. CASE blocks' = Without(blocks, {ptr}) /\ heap' = heap \ {ptr} /\ ptr \in heap /\ UNCHANGED frames
    <3>1. DOMAIN blocks' = DOMAIN blocks \ {ptr}
      BY <2>1, WithoutDomain
    <3> QED
      BY <1>2, <2>1, <3>1, HeapOwned
  <2> QED
    BY <1>1, <1>11, <2>1 DEF Free
<1>12. ASSUME NEW b \in Addr, NEW n \in Sizes, VaStart(b, n) PROVE Owned'
  <2> DEFINE e == [Top EXCEPT !.lists = Top.lists \cup {<<b, n>>}]
  <2>1. DOMAIN At(n, b) = {b}
    BY DEF At
  <2>2. DOMAIN blocks' = DOMAIN blocks \cup {b} /\ b \notin DOMAIN blocks /\ heap' = heap \cup {b}
    BY <1>12, <2>1, InsertDomain DEF VaStart, Fits
  <2>3. frames' = [frames EXCEPT ![Len(frames)] = e] /\ Top.locals # <<>>
    BY <1>2, <1>12 DEF VaStart, InFunction
  <2>4. e \in Frame /\ e.vars = Top.vars /\ e.locals = Top.locals
    BY TopFact DEF Frame
  <2> HIDE DEF e
  <2> QED
    BY <1>2, <2>2, <2>3, <2>4, SameOwned
<1>13. ASSUME NEW l, VaEnd(l) PROVE Owned'
  <2> DEFINE e == [Top EXCEPT !.lists = Top.lists \ {l}]
  <2>1. CASE /\ blocks' = Without(blocks, {l[1]}) /\ heap' = heap \ {l[1]} /\ l[1] \in heap
             /\ frames' = [frames EXCEPT ![Len(frames)].lists = @ \ {l}]
    <3>1. frames' = [frames EXCEPT ![Len(frames)] = e] /\ Top.locals # <<>>
      BY <1>2, <1>13, <2>1 DEF VaEnd, InFunction
    <3>2. e \in Frame /\ e.vars = Top.vars /\ e.locals = Top.locals
      BY <1>2 DEF Frame
    <3>3. DOMAIN blocks' = DOMAIN blocks \ {l[1]}
      BY <2>1, WithoutDomain
    <3> HIDE DEF e
    <3> QED
      BY <1>2, <2>1, <3>1, <3>2, <3>3, SameOwned
  <2> QED
    <3>1. l[1] \in heap
      BY <1>2, <1>13 DEF VaEnd, Listed
    <3> QED
      BY <1>1, <1>13, <2>1, <3>1 DEF VaEnd
<1> QED
  BY <1>3, <1>4, <1>5, <1>6, <1>7, <1>8, <1>9, <1>10, <1>11, <1>12, <1>13 DEF Next

\* Lists end or stay; the arrays of those that stay are not touched.
LEMMA FewerLists ==
    ASSUME Listed,
           \A i \in DOMAIN frames' :
              \/ frames'[i].lists = {}
              \/ i \in DOMAIN frames /\ frames'[i].lists \subseteq frames[i].lists,
           \A i \in DOMAIN frames' : \A l \in frames'[i].lists :
              l[1] \in heap' /\ blocks'[l[1]] = blocks[l[1]]
    PROVE  Listed'
BY DEF Listed

\* New blocks leave the arrays of lists alone.
LEMMA KeptArrays ==
    ASSUME Owned, Listed, NEW new, blocks' = InsertAll(blocks, new), heap \subseteq heap',
           NEW i \in DOMAIN frames, NEW l \in frames[i].lists
    PROVE  l[1] \in heap' /\ blocks'[l[1]] = blocks[l[1]]
<1>1. l[1] \in heap /\ l[1] \in DOMAIN blocks
  BY DEF Listed, Owned
<1> QED
  BY <1>1, InsertedAt

LEMMA NextListed ==
    ASSUME TypeOK, Owned, Listed, Next PROVE Listed'
<1>0. UNCHANGED <<blocks, frames, heap>> => Listed'
  BY DEF Listed
<1>1. (Report \/ Throw \/ UNCHANGED vars) => Listed'
  BY <1>0 DEF Report, Throw, vars
<1> DEFINE n == Len(frames)
<1>2. /\ Top \in Frame /\ Top = frames[n] /\ n \in DOMAIN frames /\ n \in Nat
      /\ frames \in Seq(Frame) /\ frames # <<>> /\ DOMAIN frames = 1 .. n
  BY TopFact, LenProperties DEF TypeOK
<1>3. CASE Access \/ CallInvalid \/ Move
  BY <1>1, <1>3 DEF Access, CallInvalid, Move
<1>4. ASSUME NEW new, NEW f \in Frame, f.lists = {}, frames' = Append(frames, f),
             blocks' = InsertAll(blocks, new), heap' = heap
      PROVE  Listed'
  <2>1. /\ DOMAIN frames' = DOMAIN frames \cup {n + 1} /\ frames'[n + 1] = f
        /\ \A i \in DOMAIN frames : frames'[i] = frames[i]
    BY <1>2, <1>4, PushFact
  <2>2. \A i \in DOMAIN frames : \A l \in frames[i].lists :
           l[1] \in heap' /\ blocks'[l[1]] = blocks[l[1]]
    BY <1>4, KeptArrays
  <2> QED
    BY ONLY Listed, <1>4, <2>1, <2>2, FewerLists
<1>5. ASSUME NEW new \in NewBlocks, Call(new) PROVE Listed'
  <2>1. PICK f \in Records(new) : frames' = Append(frames, f)
    BY <1>5 DEF Call
  <2> QED
    BY <1>4, <1>5, <2>1, RecordOwns DEF Call
<1>6. CASE MathFunction \/ Strlen \/ Strcmp \/ Strncmp \/ Getopt \/ GetoptLong \/ NotImplemented
  <2>1. PICK valid : CallExternal(valid)
    BY <1>6 DEF MathFunction, Strlen, Strcmp, Strncmp, Getopt, GetoptLong, NotImplemented
  <2> DEFINE f(new) == [vars |-> DOMAIN new, locals |-> <<>>, lists |-> {}]
  <2>2. PICK new \in NewBlocks : blocks' = InsertAll(blocks, new) /\ frames' = Append(frames, f(new))
    BY <2>1 DEF CallExternal
  <2>3. f(new) \in Frame /\ f(new).lists = {} /\ heap' = heap
    BY <2>1, ExternalOwns DEF CallExternal
  <2> HIDE DEF f
  <2> QED
    BY <1>4, <2>2, <2>3
<1>7. CASE Ret
  <2>1. CASE /\ Len(frames) > 1 /\ frames' = Front(frames) /\ heap' = heap
             /\ blocks' = Without(blocks, FrameBlocks(Top))
    <3>1. /\ frames' \in Seq(Frame) /\ Len(frames') = n - 1
          /\ \A i \in 1 .. n - 1 : frames'[i] = frames[i]
      BY <1>2, <2>1, PopFact
    <3>2. DOMAIN frames' = 1 .. n - 1
      BY <3>1, LenProperties
    <3>3. \A i \in DOMAIN frames' : i \in DOMAIN frames /\ frames'[i] = frames[i]
      BY <1>2, <3>1, <3>2
    <3>4. ASSUME NEW i \in DOMAIN frames, NEW l \in frames[i].lists
          PROVE  l[1] \in heap /\ l[1] \in DOMAIN blocks /\ l[1] \notin FrameBlocks(Top)
      BY <1>2, <3>4 DEF Listed, Owned
    <3>5. \A i \in DOMAIN frames' : \A l \in frames'[i].lists :
             l[1] \in heap' /\ blocks'[l[1]] = blocks[l[1]]
      BY <2>1, <3>3, <3>4, ReducedAt
    <3> QED
      BY ONLY Listed, <3>3, <3>5, FewerLists
  <2> QED
    BY <1>1, <1>7, <2>1 DEF Ret
<1>8. ASSUME NEW new \in NewBlocks, RetToRoot(new) PROVE Listed'
  <2>1. ASSUME NEW f \in Records(new), frames' = <<f>> PROVE Listed'
    <3>1. DOMAIN frames' = {1} /\ frames'[1].lists = {}
      BY <2>1, RecordOwns
    <3> QED
      BY <3>1 DEF Listed
  <2> QED
    BY <1>1, <1>8, <2>1 DEF RetToRoot
<1>9. ASSUME NEW b \in Addr, NEW k \in Sizes, Alloca(b, k) PROVE Listed'
  <2>1. /\ DOMAIN frames' = DOMAIN frames
        /\ \A i \in DOMAIN frames : frames'[i].lists = frames[i].lists
    BY <1>2, <1>9 DEF Alloca, Frame
  <2>2. \A i \in DOMAIN frames : \A l \in frames[i].lists :
           l[1] \in heap' /\ blocks'[l[1]] = blocks[l[1]]
    BY <1>9, KeptArrays DEF Alloca
  <2> QED
    BY ONLY Listed, <2>1, <2>2, FewerLists
<1>10. ASSUME NEW saved, StackRestore(saved) PROVE Listed'
  <2>1. ASSUME NEW i \in DOMAIN Top.locals, heap' = heap,
               frames' = [frames EXCEPT ![Len(frames)].locals = SubSeq(@, 1, i)],
               blocks' = Without(blocks, Range(SubSeq(Top.locals, i + 1, Len(Top.locals))))
        PROVE  Listed'
    <3> DEFINE high == Range(SubSeq(Top.locals, i + 1, Len(Top.locals)))
    <3>1. /\ DOMAIN frames' = DOMAIN frames
          /\ \A j \in DOMAIN frames : frames'[j].lists = frames[j].lists
      BY <1>2, <2>1 DEF Frame
    <3>2. high \subseteq FrameBlocks(Top)
      <4>1. Top.locals \in Seq(Addr) /\ i \in 1 .. Len(Top.locals) /\ IsInjective(Top.locals)
        BY <1>2, <2>1, LenProperties DEF Frame, Owned, Distinct
      <4> QED
        BY <4>1, CutLocals DEF FrameBlocks
    <3> HIDE DEF high
    <3>3. ASSUME NEW j \in DOMAIN frames, NEW l \in frames[j].lists
          PROVE  l[1] \in heap /\ l[1] \in DOMAIN blocks /\ l[1] \notin high
      BY <1>2, <3>2, <3>3 DEF Listed, Owned
    <3>4. \A j \in DOMAIN frames : \A l \in frames[j].lists :
             l[1] \in heap' /\ blocks'[l[1]] = blocks[l[1]]
      BY <2>1, <3>3, ReducedAt DEF high
    <3> QED
      BY ONLY Listed, <3>1, <3>4, FewerLists
  <2> QED
    BY <1>1, <1>10, <2>1 DEF StackRestore
<1>11. ASSUME NEW b \in Addr, NEW k \in Sizes, Malloc(b, k) PROVE Listed'
  <2>1. \A i \in DOMAIN frames : \A l \in frames[i].lists :
           l[1] \in heap' /\ blocks'[l[1]] = blocks[l[1]]
    BY <1>11, KeptArrays DEF Malloc
  <2>2. frames' = frames
    BY <1>11 DEF Malloc
  <2> QED
    BY ONLY Listed, <2>1, <2>2, FewerLists
<1>12. ASSUME NEW ptr, Free(ptr) PROVE Listed'
  <2>1. CASE blocks' = Without(blocks, {ptr}) /\ heap' = heap \ {ptr} /\ UNCHANGED frames
    <3>1. ASSUME NEW i \in DOMAIN frames, NEW l \in frames[i].lists
          PROVE  l[1] \in heap /\ l[1] \in DOMAIN blocks /\ l[1] # ptr
      <4>1. frames[i] \in Range(frames)
        BY DEF Range
      <4> QED
        BY <1>12, <4>1 DEF Free, Listed, Owned
    <3>2. \A i \in DOMAIN frames : \A l \in frames[i].lists :
             l[1] \in heap' /\ blocks'[l[1]] = blocks[l[1]]
      BY <2>1, <3>1, ReducedAt
    <3> QED
      BY ONLY Listed, <2>1, <3>2, FewerLists
  <2> QED
    BY <1>1, <1>12, <2>1 DEF Free
<1>13. ASSUME NEW b \in Addr, NEW k \in Sizes, VaStart(b, k) PROVE Listed'
  <2>1. DOMAIN At(k, b) = {b} /\ At(k, b)[b] = k
    BY DEF At
  <2>2. /\ blocks' = InsertAll(blocks, At(k, b)) /\ heap' = heap \cup {b} /\ b \notin DOMAIN blocks
    BY <1>13, <2>1 DEF VaStart, Fits
  <2>3. blocks'[b] = k
    BY <2>1, <2>2, InsertedAt
  <2>4. /\ DOMAIN frames' = DOMAIN frames /\ frames'[n].lists = frames[n].lists \cup {<<b, k>>}
        /\ \A i \in DOMAIN frames : i # n => frames'[i].lists = frames[i].lists
    BY <1>2, <1>13 DEF VaStart, Frame
  <2>5. \A i \in DOMAIN frames : \A l \in frames[i].lists :
           l[1] \in heap' /\ blocks'[l[1]] = blocks[l[1]]
    BY <2>2, KeptArrays
  <2>6. \A i \in DOMAIN frames : \A l \in frames[i].lists : l[1] # b
    BY <2>2 DEF Listed, Owned
  <2> DEFINE z == <<b, k>>
  <2>7. z[1] = b /\ z[2] = k
    OBVIOUS
  <2> HIDE DEF z, n
  <2>8. \A i \in DOMAIN frames' : \A l \in frames'[i].lists :
           \/ l \in frames[i].lists
           \/ i = n /\ l = z
    BY <2>4 DEF z
  <2>9. \A i \in DOMAIN frames' : \A l \in frames'[i].lists :
           l[1] \in heap' /\ blocks'[l[1]] = l[2]
    BY <2>2, <2>3, <2>4, <2>5, <2>7, <2>8 DEF Listed
  <2>10. \A i, j \in DOMAIN frames' : \A l \in frames'[i].lists, m \in frames'[j].lists :
            l[1] = m[1] => i = j /\ l = m
    BY <2>4, <2>6, <2>7, <2>8 DEF Listed
  <2> QED
    BY <2>9, <2>10 DEF Listed
<1>14. ASSUME NEW l, VaEnd(l) PROVE Listed'
  <2>1. CASE /\ blocks' = Without(blocks, {l[1]}) /\ heap' = heap \ {l[1]}
             /\ frames' = [frames EXCEPT ![Len(frames)].lists = @ \ {l}]
    <3>1. /\ DOMAIN frames' = DOMAIN frames /\ frames'[n].lists = frames[n].lists \ {l}
          /\ \A i \in DOMAIN frames : i # n => frames'[i].lists = frames[i].lists
      BY <1>2, <2>1 DEF Frame
    <3>2. l \in frames[n].lists
      BY <1>2, <1>14 DEF VaEnd
    <3> HIDE DEF n
    <3>3. ASSUME NEW i \in DOMAIN frames', NEW k \in frames'[i].lists
          PROVE  /\ i \in DOMAIN frames /\ k \in frames[i].lists
                 /\ k[1] \in heap /\ k[1] \in DOMAIN blocks /\ k[1] # l[1]
      <4>1. i \in DOMAIN frames /\ k \in frames[i].lists /\ (i = n => k # l)
        BY <3>1, <3>3
      <4> QED
        BY <1>2, <3>2, <4>1 DEF Listed, Owned
    <3>4. \A i \in DOMAIN frames' : \A k \in frames'[i].lists :
             k[1] \in heap' /\ blocks'[k[1]] = blocks[k[1]]
      BY <2>1, <3>3, ReducedAt
    <3>5. \A i \in DOMAIN frames' : i \in DOMAIN frames /\ frames'[i].lists \subseteq frames[i].lists
      BY <3>1, <3>3
    <3> QED
      BY ONLY Listed, <3>4, <3>5, FewerLists
  <2> QED
    BY <1>1, <1>14, <2>1 DEF VaEnd
<1> QED
  BY <1>3, <1>5, <1>6, <1>7, <1>8, <1>9, <1>10, <1>11, <1>12, <1>13, <1>14 DEF Next

\* What the invariants of the book-keeping say together.
BookKeeping == TypeOK /\ Owned /\ Listed /\ LiveKnown /\ RegionsExact /\ AllApart

LEMMA InitOwned == Init => Owned /\ Listed
<1> SUFFICES ASSUME Init PROVE Owned /\ Listed
  OBVIOUS
<1>1. PICK new \in NewBlocks : blocks = new /\ frames \in {<<f>> : f \in Records(new)}
  BY DEF Init
<1>2. PICK f \in Records(new) : frames = <<f>>
  BY <1>1
<1>3. DOMAIN frames = {1} /\ frames[1] = f /\ heap = {}
  BY <1>2 DEF Init
<1> QED
  BY <1>1, <1>3, RecordOwns DEF Owned, Listed

LEMMA BookKept == Spec => []BookKeeping
<1>1. TypeOK /\ Owned /\ Listed /\ [Next]_vars => Owned' /\ Listed'
  <2>1. Owned /\ Listed /\ UNCHANGED vars => Owned' /\ Listed'
    BY DEF Owned, Listed, vars
  <2> QED
    BY <2>1, NextOwned, NextListed
<1>2. Spec => [](Owned /\ Listed)
  BY <1>1, InitOwned, TypeCorrect, PTL DEF Spec
<1> QED
  BY <1>2, TypeCorrect, EveryLiveBlockKnown, RegionsAreExact, BlocksApart, PTL DEF BookKeeping

----------------------------------------------------------------------------
(* No assertion of the Sanitizer fails.                                     *)

\* A region is found at its start.
LEMMA FindKnown ==
    ASSUME TypeOK, NEW b \in DOMAIN regions PROVE Find(b) = b
<1>1. DOMAIN regions \subseteq Nat
  BY PlaceAssumption, StaticsAssumption DEF TypeOK
<1> DEFINE below == {r \in DOMAIN regions : r <= b}
<1>2. below \subseteq Nat /\ b \in below /\ \A y \in below : b >= y
  BY <1>1
<1>3. Find(b) = Max(below)
  BY <1>2 DEF Find
<1> HIDE DEF below
<1>4. \E x \in below : \A y \in below : x >= y
  BY <1>2
<1>5. Max(below) \in below /\ \A y \in below : Max(below) >= y
  BY <1>4 DEF Max
<1> DEFINE m == Max(below)
<1>6. m \in below /\ m >= b
  BY <1>2, <1>5
<1> HIDE DEF m
<1>7. b >= m /\ m \in Nat /\ b \in Nat
  BY <1>2, <1>6
<1>8. m = b
  BY <1>6, <1>7
<1> QED
  BY <1>3, <1>8 DEF m

LEMMA NextSound ==
    ASSUME BookKeeping, NoInternalFailure, Next PROVE NoInternalFailure'
<1>0. Running
  BY StepShape DEF BookKeeping
<1>1. /\ heap \subseteq DOMAIN regions /\ FrameBlocks(Top) \subseteq DOMAIN regions
      /\ DOMAIN blocks \subseteq DOMAIN regions
  BY <1>0, TopFact DEF BookKeeping, Owned, LiveKnown
<1>2. Erasable(FrameBlocks(Top)) /\ \A b \in heap : Erasable({b})
  BY <1>1, FindKnown DEF Erasable, BookKeeping
<1>3. ASSUME outcome' \in {"running", "crash"} PROVE NoInternalFailure'
  BY <1>3 DEF NoInternalFailure
<1>4. Report \/ UNCHANGED outcome => NoInternalFailure'
  BY <1>0, <1>3 DEF Report, Running
<1>5. CASE Access \/ CallInvalid \/ Move
  BY <1>4, <1>5 DEF Access, CallInvalid, Move, vars
<1>6. CASE MathFunction \/ Strlen \/ Strcmp \/ Strncmp \/ Getopt \/ GetoptLong \/ NotImplemented
  <2>1. PICK valid : CallExternal(valid)
    BY <1>6 DEF MathFunction, Strlen, Strcmp, Strncmp, Getopt, GetoptLong, NotImplemented
  <2> QED
    BY <1>0, <1>3, <2>1 DEF CallExternal, Running
<1>7. CASE Ret
  BY <1>2, <1>4, <1>7 DEF Ret
<1>8. ASSUME NEW new, Call(new) \/ RetToRoot(new) PROVE NoInternalFailure'
  BY <1>2, <1>4, <1>8 DEF Call, RetToRoot
<1>9. ASSUME NEW b, NEW n, Alloca(b, n) \/ Malloc(b, n) \/ VaStart(b, n) PROVE NoInternalFailure'
  BY <1>4, <1>9 DEF Alloca, Malloc, VaStart
<1>10. ASSUME NEW ptr, StackRestore(ptr) \/ Free(ptr) PROVE NoInternalFailure'
  BY <1>2, <1>4, <1>10 DEF StackRestore, Free
<1>11. ASSUME NEW l, VaEnd(l) PROVE NoInternalFailure'
  <2>1. l \in Top.lists /\ l[1] \in heap /\ blocks[l[1]] = l[2]
    BY <1>11, TopFact DEF VaEnd, Listed, BookKeeping
  <2>2. l[1] \in DOMAIN regions /\ l[1] \in DOMAIN blocks
    BY <1>1, <2>1 DEF BookKeeping, Owned
  <2>3. Find(l[1]) = l[1]
    BY <2>2, FindKnown DEF BookKeeping
  <2>4. l[1] \notin stale => regions[l[1]] = l[2]
    <3>1. Exact(regions, blocks, stale)
      BY <1>0, RunningExact DEF BookKeeping
    <3>2. l[1] \notin stale => regions[l[1]] = InsertAll(blocks, Statics)[l[1]]
      BY <2>2, <3>1 DEF Exact
    <3> QED
      BY <2>1, <2>2, <3>2, InsertedAt
  <2>5. CASE Throw
    <3>1. ~(Find(l[1]) = l[1] /\ regions[l[1]] = l[2]) \/ UNCHANGED outcome
      BY <1>11 DEF VaEnd
    <3>2. CASE UNCHANGED outcome
      BY <1>4, <3>2
    <3>3. CASE l[1] \in stale
      <4>1. stale' = stale /\ frames' = frames
        BY <2>5 DEF Throw
      <4> QED
        BY <2>1, <3>3, <4>1 DEF NoInternalFailure, Top
    <3> QED
      BY <2>3, <2>4, <3>1, <3>2, <3>3
  <2> QED
    BY <1>4, <1>11, <2>5 DEF VaEnd
<1> QED
  BY <1>5, <1>6, <1>7, <1>8, <1>9, <1>10, <1>11 DEF Next

\* The Sanitizer finds every region it erases, whatever the program calls,
\* returns from, allocates and releases; it throws only at the end of a list
\* whose array was placed at a stale region.
THEOREM NeverThrows == Spec => []NoInternalFailure
<1>1. Init => NoInternalFailure
  BY DEF Init, NoInternalFailure
<1>2. BookKeeping /\ NoInternalFailure /\ [Next]_vars => NoInternalFailure'
  <2>1. NoInternalFailure /\ UNCHANGED vars => NoInternalFailure'
    BY DEF NoInternalFailure, vars, Top
  <2> QED
    BY <2>1, NextSound
<1> QED
  BY <1>1, <1>2, BookKept, PTL DEF Spec

----------------------------------------------------------------------------
(* The answers of the Sanitizer are right.                                  *)

\* A bounded set of numbers has a greatest one.
LEMMA GreatestNumber ==
    ASSUME NEW T \in SUBSET Nat, T # {}, NEW n \in Nat, \A y \in T : y <= n
    PROVE  Max(T) \in T /\ \A y \in T : y <= Max(T)
<1> DEFINE U == {k \in Nat : \A y \in T : y <= k}
<1>1. U \in SUBSET Nat /\ n \in U
  OBVIOUS
<1>2. PICK u \in U : \A v \in U : u <= v
  <2> HIDE DEF U
  <2> QED
    BY <1>1, LeastNumber
<1>3. u \in T
  <2>1. ASSUME u \notin T PROVE FALSE
    <3>1. PICK t \in T : TRUE
      OBVIOUS
    <3>2. u \in Nat /\ \A y \in T : y <= u /\ y # u
      BY <1>2, <2>1
    <3>3. u - 1 \in Nat /\ \A y \in T : y <= u - 1
      BY <3>1, <3>2
    <3>4. u - 1 \in U
      BY <3>3
    <3> QED
      BY <1>2, <3>2, <3>4
  <2> QED
    BY <2>1
<1>4. \A y \in T : u >= y /\ y <= u
  BY <1>2
<1>5. Max(T) \in T /\ \A y \in T : Max(T) >= y
  BY <1>3, <1>4 DEF Max
<1> QED
  BY <1>5

\* The region that is found is the last one at or below the address, or lies
\* above it.
LEMMA FindFact ==
    ASSUME TypeOK, DOMAIN regions # {}, NEW ptr \in Nat
    PROVE  /\ Find(ptr) \in DOMAIN regions /\ DOMAIN regions \subseteq Nat
           /\ \A r \in DOMAIN regions : r <= ptr => r <= Find(ptr) /\ Find(ptr) <= ptr
<1>1. DOMAIN regions \subseteq Nat
  BY PlaceAssumption, StaticsAssumption DEF TypeOK
<1> DEFINE below == {r \in DOMAIN regions : r <= ptr}
<1>2. below \in SUBSET Nat /\ \A y \in below : y <= ptr /\ y \in DOMAIN regions
  BY <1>1
<1>3. \A r \in DOMAIN regions : r <= ptr => r \in below
  OBVIOUS
<1>4. Find(ptr) = IF below # {} THEN Max(below) ELSE Min(DOMAIN regions)
  BY DEF Find
<1> HIDE DEF below
<1>5. CASE below # {}
  <2>1. Max(below) \in below /\ \A y \in below : y <= Max(below)
    BY <1>2, <1>5, GreatestNumber
  <2> QED
    BY <1>1, <1>2, <1>3, <1>4, <1>5, <2>1
<1>6. CASE below = {}
  <2>1. \E x \in DOMAIN regions : \A y \in DOMAIN regions : x <= y
    BY <1>1, LeastNumber
  <2>2. Min(DOMAIN regions) \in DOMAIN regions
    BY <2>1 DEF Min
  <2> QED
    BY <1>1, <1>3, <1>4, <1>6, <2>2
<1> QED
  BY <1>5, <1>6

LEMMA SomeRegion ==
    ASSUME BookKeeping, Running PROVE DOMAIN regions # {}
<1>1. frames \in Seq(Frame) /\ 1 \in DOMAIN frames
  BY TopFact, LenProperties DEF BookKeeping, TypeOK
<1>2. frames[1].locals \in Seq(Addr) /\ frames[1].locals # <<>>
  <2>1. frames[1] \in Frame
    BY <1>1, ElementOfSeq, LenProperties
  <2> QED
    BY <2>1 DEF BookKeeping, Owned, Frame
<1>3. 1 \in DOMAIN frames[1].locals
  BY <1>2, EmptySeq, LenProperties
<1>4. frames[1].locals[1] \in FrameBlocks(frames[1])
  BY <1>3 DEF FrameBlocks, Range
<1> QED
  BY <1>1, <1>4 DEF BookKeeping, Owned, LiveKnown

\* Remainders by the number of addresses.
LEMMA Remainder ==
    ASSUME NEW a \in Nat, NEW w \in Nat \ {0}
    PROVE  a % w \in Nat /\ a % w <= a /\ (a < w => a % w = a)
OBVIOUS

\* A region that is not stale is a live block or a static item.
LEMMA RegionIsBlock ==
    ASSUME BookKeeping, Running, NEW r \in DOMAIN regions, r \notin stale
    PROVE  \E f \in {blocks, Statics} : r \in DOMAIN f /\ regions[r] = f[r]
<1>1. /\ r \in DOMAIN blocks \cup DOMAIN Statics
      /\ regions[r] = InsertAll(blocks, Statics)[r]
  BY RunningExact DEF BookKeeping, Exact
<1>2. CASE r \in DOMAIN blocks
  BY <1>1, <1>2, InsertedAt
<1>3. CASE r \notin DOMAIN blocks
  BY <1>1, <1>3, InsertedAt
<1> QED
  BY <1>2, <1>3

\* No access of the bounds reaches the end of the addresses.
NoWrap == \A ptr \in Probes, count \in Counts : ptr + count < Wrap

LEMMA RightToPass ==
    ASSUME BookKeeping, NoWrap PROVE NoBadAccessPasses
<1> SUFFICES ASSUME Running, NEW ptr \in Probes, NEW count \in Counts,
                    IsMemoryValid(ptr, count) \/ IsCString(ptr, count),
                    Find(ptr) \notin stale
             PROVE  InMemory(ptr, count)
  BY DEF NoBadAccessPasses
<1> DEFINE r == Find(ptr)
<1>1. ptr \in Nat /\ count \in Nat /\ Wrap \in Nat \ {0} /\ ptr + count < Wrap
  BY PlaceAssumption DEF NoWrap
<1>2. r \in DOMAIN regions /\ r \in Nat /\ regions[r] \in Nat
  BY <1>1, SomeRegion, FindFact DEF BookKeeping, TypeOK
<1>3. r <= ptr /\ (ptr + count) % Wrap <= r + regions[r]
  <2>1. CASE IsMemoryValid(ptr, count)
    BY <2>1 DEF IsMemoryValid, Inside
  <2>2. CASE IsCString(ptr, count)
    <3>1. \A i \in 0 .. count : r <= ptr + i /\ (ptr + i + 0) % Wrap <= r + regions[r]
      BY <2>2 DEF IsCString, Inside
    <3>2. r <= ptr + 0 /\ (ptr + count + 0) % Wrap <= r + regions[r]
      BY <1>1, <3>1
    <3> QED
      BY <1>1, <1>2, <3>2
  <2> QED
    BY <2>1, <2>2
<1>4. ptr + count <= r + regions[r]
  <2>1. ptr + count \in Nat /\ (ptr + count < Wrap => (ptr + count) % Wrap = ptr + count)
    BY <1>1, Remainder
  <2> QED
    BY <1>1, <1>3, <2>1
<1>5. PICK f \in {blocks, Statics} : r \in DOMAIN f /\ regions[r] = f[r]
  BY <1>2, RegionIsBlock
<1> HIDE DEF r
<1> QED
  BY <1>3, <1>4, <1>5 DEF InMemory

\* What the Sanitizer lets through lies inside one live block or static item,
\* unless a stale region was consulted; for all addresses at which sums of an
\* address and a count do not wrap.
THEOREM NothingBadPasses ==
    ASSUME NoWrap PROVE Spec => []NoBadAccessPasses
BY BookKept, RightToPass, PTL

LEMMA RightToRefuse ==
    ASSUME BookKeeping PROVE NoFalseAlarm
<1> SUFFICES ASSUME Running, NEW ptr \in Probes, NEW count \in Counts, InMemory(ptr, count),
                    Find(ptr) \notin stale
             PROVE  IsMemoryValid(ptr, count) /\ IsCString(ptr, count)
  BY DEF NoFalseAlarm
<1> DEFINE all == InsertAll(blocks, Statics)
           r == Find(ptr)
<1>1. ptr \in Nat /\ count \in Nat /\ Wrap \in Nat \ {0} /\ Gap \in Nat \ {0}
  BY PlaceAssumption
<1>2. PICK f \in {blocks, Statics} : \E x \in DOMAIN f : x <= ptr /\ ptr + count <= x + f[x]
  BY DEF InMemory
<1>3. PICK b \in DOMAIN f : b <= ptr /\ ptr + count <= b + f[b]
  BY <1>2
<1>4. Addr \cap DOMAIN Statics = {} /\ stale \subseteq Addr /\ DOMAIN blocks \subseteq Addr
  BY StaticsAssumption DEF BookKeeping, TypeOK
<1>5. Exact(regions, blocks, stale)
  BY RunningExact DEF BookKeeping
<1>6. DOMAIN all = DOMAIN blocks \cup DOMAIN Statics
  BY InsertDomain
<1>7. b \in DOMAIN all /\ all[b] = f[b]
  <2>1. CASE f = blocks
    BY <1>3, <1>6, <2>1, InsertedAt
  <2>2. CASE f = Statics
    <3>1. b \notin DOMAIN blocks
      BY <1>3, <1>4, <2>2
    <3> QED
      BY <1>3, <1>6, <2>2, <3>1, InsertedAt
  <2> QED
    BY <2>1, <2>2
<1>8. b \in DOMAIN regions
  BY <1>3, <1>4, <1>5 DEF BookKeeping, LiveKnown, Exact
<1>9. /\ r \in DOMAIN regions /\ b \in Nat /\ r \in Nat
      /\ b <= r /\ r <= ptr
  BY <1>1, <1>3, <1>8, FindFact DEF BookKeeping
<1>10. r \in DOMAIN all /\ regions[r] = all[r]
  BY <1>5, <1>6, <1>9 DEF Exact
<1>11. all[b] \in Nat
  <2>1. blocks \in [DOMAIN blocks -> Sizes] /\ Sizes \subseteq Nat
        /\ Statics \in [DOMAIN Statics -> Nat \ {0}]
    BY PlaceAssumption, StaticsAssumption DEF BookKeeping, TypeOK
  <2> QED
    BY <1>3, <1>7, <2>1
<1>12. b < r => b + all[b] + Gap <= r
  BY <1>7, <1>10 DEF BookKeeping, AllApart, Apart
<1> HIDE DEF all, r
<1>13. r = b
  BY <1>1, <1>3, <1>7, <1>9, <1>11, <1>12
<1>14. r <= ptr /\ ptr + count <= r + regions[r] /\ regions[r] \in Nat
  BY <1>3, <1>7, <1>10, <1>11, <1>13
<1>15. ASSUME NEW k \in Nat, k <= ptr + count PROVE k % Wrap <= r + regions[r]
  BY <1>1, <1>9, <1>14, <1>15, Remainder
<1>16. IsMemoryValid(ptr, count)
  BY <1>1, <1>14, <1>15 DEF IsMemoryValid, Inside, r
<1>17. ASSUME NEW i \in 0 .. count PROVE Inside(Find(ptr), ptr + i, 0)
  <2>1. /\ i \in Nat /\ ptr + i + 0 \in Nat /\ ptr + i + 0 <= ptr + count
        /\ r <= ptr + i
    BY <1>1, <1>9
  <2> QED
    BY <1>15, <2>1 DEF Inside, r
<1>18. ptr # 0
  <2>1. b # 0
    BY <1>3, <1>4, PlaceAssumption, StaticsAssumption
  <2> QED
    BY <1>1, <1>3, <1>9, <2>1
<1> QED
  BY <1>16, <1>17, <1>18 DEF IsCString

\* No access and no string inside a live block or a static item is refused,
\* unless a stale region was consulted.
THEOREM NothingGoodIsRefused == Spec => []NoFalseAlarm
BY BookKept, RightToRefuse, PTL

==============================================================================
