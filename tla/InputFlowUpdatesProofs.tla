------------------------ MODULE InputFlowUpdatesProofs ------------------------
(****************************************************************************)
(* Proofs that the maps of updates are kept for the right bytes, lose no    *)
(* update, record none for a value that it did not update, and tell hits    *)
(* apart, for every number of bytes, instructions, blocks and frames.       *)
(****************************************************************************)
EXTENDS InputFlowUpdates, FiniteSetTheorems, SequenceTheorems, TLAPS

----------------------------------------------------------------------------
(* Stacks.                                                                  *)

\* A stack loses its last element when it is popped.
LEMMA PopFact ==
    ASSUME NEW S, NEW s \in Seq(S), s # <<>>
    PROVE  /\ Len(s) \in Nat \ {0} /\ Last(s) = s[Len(s)] /\ Last(s) \in S
           /\ Front(s) \in Seq(S) /\ Len(Front(s)) = Len(s) - 1
           /\ \A i \in 1 .. Len(s) - 1 : Front(s)[i] = s[i]
<1>1. Len(s) \in Nat \ {0}
  BY EmptySeq
<1>2. \A i \in 1 .. Len(s) : s[i] \in S
  BY ElementOfSeq
<1>3. \A i \in 1 .. Len(s) - 1 : s[i] \in S
  BY <1>1, <1>2
<1>4. /\ SubSeq(s, 1, Len(s) - 1) \in Seq(S)
      /\ Len(SubSeq(s, 1, Len(s) - 1)) =
            IF 1 <= Len(s) - 1 THEN Len(s) - 1 - 1 + 1 ELSE 0
      /\ \A i \in 1 .. Len(s) - 1 - 1 + 1 : SubSeq(s, 1, Len(s) - 1)[i] = s[1 + i - 1]
  BY <1>1, <1>3, SubSeqProperties
<1>5. \A i \in 1 .. Len(s) - 1 : SubSeq(s, 1, Len(s) - 1)[i] = s[i]
  BY <1>1, <1>4
<1>6. Len(SubSeq(s, 1, Len(s) - 1)) = Len(s) - 1
  <2>1. \A n \in Nat : \A k : k = (IF 1 <= n - 1 THEN n - 1 - 1 + 1 ELSE 0) /\ n # 0 => k = n - 1
    OBVIOUS
  <2> QED
    BY ONLY <1>1, <1>4, <2>1, Zenon
<1>7. Last(s) = s[Len(s)] /\ Front(s) = SubSeq(s, 1, Len(s) - 1)
  BY DEF Last, Front
<1>8. s[Len(s)] \in S
  BY <1>1, <1>2
<1> QED
  BY <1>1, <1>4, <1>5, <1>6, <1>7, <1>8

\* An element pushed on a stack joins its elements.
LEMMA PushFact ==
    ASSUME NEW S, NEW s \in Seq(S), NEW e \in S
    PROVE  /\ Append(s, e) \in Seq(S) /\ Len(Append(s, e)) = Len(s) + 1
           /\ DOMAIN Append(s, e) = DOMAIN s \cup {Len(s) + 1}
           /\ \A i \in DOMAIN s : Append(s, e)[i] = s[i]
           /\ Append(s, e)[Len(s) + 1] = e
           /\ Len(s) + 1 \notin DOMAIN s
<1>1. /\ Append(s, e) \in Seq(S) /\ Len(Append(s, e)) = Len(s) + 1
      /\ \A i \in 1 .. Len(s) : Append(s, e)[i] = s[i]
      /\ Append(s, e)[Len(s) + 1] = e
  BY AppendProperties
<1>2. /\ Len(s) \in Nat /\ DOMAIN s = 1 .. Len(s)
      /\ DOMAIN Append(s, e) = 1 .. Len(Append(s, e))
  BY <1>1, LenProperties
<1> QED
  BY ONLY <1>1, <1>2

----------------------------------------------------------------------------
(* What the maps say of one byte.                                           *)

Has(objects, b) == \E o \in objects : b \in o.bytes
Knows(objects, b, h) == \E o \in objects : b \in o.bytes /\ h \in o.hits

MemOK(m) ==
    /\ m = [flow |-> m.flow, objects |-> m.objects, past |-> m.past]
    /\ m.flow \subseteq Byte /\ m.objects \subseteq Object
    /\ DOMAIN m.past \subseteq Byte
    /\ \A b \in DOMAIN m.past : m.past[b] \subseteq Hit

\* UpdatesFollowFlow of any state, and NoUpdateLost.
Sound(m) ==
    /\ \A b : Has(m.objects, b) <=> b \in DOMAIN m.past
    /\ \A b : Has(m.objects, b) => b \in m.flow
    /\ \A b \in DOMAIN m.past : \A h \in m.past[b] : Knows(m.objects, b, h)

\* The part of UpdatesFollowFlow that start_extend() breaks.
Agree(m) == \A b \in m.flow : Has(m.objects, b)

\* NoForeignUpdate
Pure(m) == \A b \in DOMAIN m.past : \A h : Knows(m.objects, b, h) => h \in m.past[b]

\* The hits of n are those of m, and maybe one more.
OnlyHere(m, n) ==
    \A o \in n.objects : \A h \in o.hits : h = Here \/ \E p \in m.objects : h \in p.hits

OnlyOld(m, n) ==
    \A o \in n.objects : \A h \in o.hits : \E p \in m.objects : h \in p.hits

\* From m to n the bytes d of the domain of src were written, with the values
\* of the bytes src[d], through the updates of new; the others were not.
Written(m, n, src, new) ==
    /\ \A b : b \in n.flow <=> IF b \in DOMAIN src THEN src[b] \cap m.flow # {} ELSE b \in m.flow
    /\ \A b : Has(n.objects, b) <=>
                IF b \in DOMAIN src THEN \E s \in src[b] : Has(m.objects, s) ELSE Has(m.objects, b)
    /\ \A b, h : Knows(n.objects, b, h) <=>
                IF b \in DOMAIN src
                THEN \E s \in src[b] : Knows(m.objects, s, h) \/ (h \in new /\ Has(m.objects, s))
                ELSE Knows(m.objects, b, h)
    /\ \A b : b \in DOMAIN n.past <=>
                IF b \in DOMAIN src THEN src[b] \cap DOMAIN m.past # {} ELSE b \in DOMAIN m.past
    /\ \A b \in DOMAIN n.past :
          IF b \in DOMAIN src
          THEN \A h : h \in n.past[b] <=>
                        h \in new \/ \E s \in src[b] \cap DOMAIN m.past : h \in m.past[s]
          ELSE n.past[b] = m.past[b]

\* Writing in this way keeps what the maps promise.
LEMMA WrittenFact ==
    ASSUME NEW m, NEW n, NEW src, NEW new, Sound(m), Written(m, n, src, new)
    PROVE  /\ Sound(n)
           /\ Agree(m) => Agree(n)
           /\ Pure(m) => Pure(n)
<1>1. \A b : Has(n.objects, b) <=> b \in DOMAIN n.past
  BY DEF Sound, Written
<1>2. \A b : Has(n.objects, b) => b \in n.flow
  BY DEF Sound, Written
<1>3. ASSUME NEW b \in DOMAIN n.past, NEW h \in n.past[b] PROVE Knows(n.objects, b, h)
  <2>1. CASE b \in DOMAIN src
    <3>1. CASE h \in new
      BY <2>1, <3>1 DEF Sound, Written
    <3>2. CASE \E s \in src[b] \cap DOMAIN m.past : h \in m.past[s]
      BY <2>1, <3>2 DEF Sound, Written
    <3> QED
      BY <1>3, <2>1, <3>1, <3>2 DEF Written
  <2>2. CASE b \notin DOMAIN src
    BY <1>3, <2>2 DEF Sound, Written
  <2> QED
    BY <2>1, <2>2
<1>4. Agree(m) => Agree(n)
  BY DEF Agree, Written
<1>5. ASSUME Pure(m), NEW b \in DOMAIN n.past, NEW h, Knows(n.objects, b, h)
      PROVE  h \in n.past[b]
  <2>1. CASE b \in DOMAIN src
    <3>1. PICK s \in src[b] : Knows(m.objects, s, h) \/ (h \in new /\ Has(m.objects, s))
      BY <1>5, <2>1 DEF Written
    <3>2. Has(m.objects, s)
      BY <3>1 DEF Has, Knows
    <3>3. s \in DOMAIN m.past
      BY <3>2 DEF Sound
    <3>4. Knows(m.objects, s, h) => h \in m.past[s]
      BY <1>5, <3>3 DEF Pure
    <3> QED
      BY <2>1, <3>1, <3>3, <3>4 DEF Written
  <2>2. CASE b \notin DOMAIN src
    BY <1>5, <2>2 DEF Pure, Written
  <2> QED
    BY <2>1, <2>2
<1> QED
  BY <1>1, <1>2, <1>3, <1>4, <1>5 DEF Sound, Pure

----------------------------------------------------------------------------
(* The operations on the maps.                                              *)

\* An object has the type it says.
LEMMA ObjectFact ==
    ASSUME NEW o \in Object
    PROVE  /\ o = [bytes |-> o.bytes, hits |-> o.hits]
           /\ o.bytes \subseteq Byte /\ o.hits \subseteq Hit /\ o.bytes # {}
BY DEF Object

\* Bytes of an area share the maps of the bytes they got their value from.
LEMMA RepointedFact ==
    ASSUME NEW objects \in SUBSET Object, NEW D \in SUBSET Byte, NEW from,
           DOMAIN from \subseteq D
    PROVE  /\ Repointed(objects, D, from) \subseteq Object
           /\ \A o \in Repointed(objects, D, from) : \E p \in objects : o.hits = p.hits
           /\ \A b : Has(Repointed(objects, D, from), b) <=>
                        IF b \in DOMAIN from THEN Has(objects, from[b])
                        ELSE b \notin D /\ Has(objects, b)
           /\ \A b, h : Knows(Repointed(objects, D, from), b, h) <=>
                        IF b \in DOMAIN from THEN Knows(objects, from[b], h)
                        ELSE b \notin D /\ Knows(objects, b, h)
<1> DEFINE now(o) == (o.bytes \ D) \cup {d \in DOMAIN from : from[d] \in o.bytes}
           moved(o) == [bytes |-> now(o), hits |-> o.hits]
           R == Repointed(objects, D, from)
<1>1. \A o \in objects : [o EXCEPT !.bytes = (@ \ D) \cup {d \in DOMAIN from : from[d] \in @}]
                         = moved(o)
  <2>1. \A o \in objects : o = [bytes |-> o.bytes, hits |-> o.hits]
    BY ObjectFact
  <2> QED
    BY <2>1
<1>2. \A o : o \in R <=> o.bytes # {} /\ \E p \in objects : o = moved(p)
  BY <1>1 DEF Repointed
<1>3. \A p \in objects : moved(p).bytes = now(p) /\ moved(p).hits = p.hits
  OBVIOUS
<1>4. \A p \in objects : now(p) \subseteq Byte /\ p.hits \subseteq Hit
  BY DEF Object
<1>5. \A b : \A p \in objects :
         b \in now(p) <=> IF b \in DOMAIN from THEN from[b] \in p.bytes
                          ELSE b \notin D /\ b \in p.bytes
  OBVIOUS
<1> HIDE DEF now, moved, R
<1>6. R \subseteq Object
  <2> SUFFICES ASSUME NEW o \in R PROVE o \in Object
    OBVIOUS
  <2>1. PICK p \in objects : o = moved(p)
    BY <1>2
  <2>2. now(p) \in (SUBSET Byte) \ {{}} /\ p.hits \in SUBSET Hit
    BY <1>2, <1>3, <1>4, <2>1
  <2>3. \A B \in (SUBSET Byte) \ {{}}, H \in SUBSET Hit : [bytes |-> B, hits |-> H] \in Object
    BY DEF Object
  <2>4. o = [bytes |-> now(p), hits |-> p.hits]
    BY <2>1 DEF moved
  <2> QED
    BY <2>2, <2>3, <2>4
<1>7. \A o \in R : \E p \in objects : o.hits = p.hits
  BY <1>2, <1>3
<1>8. \A b : \A p \in objects : b \in now(p) => moved(p) \in R
  BY <1>2, <1>3
<1>9. \A b : Has(R, b) <=> \E p \in objects : b \in now(p)
  BY <1>2, <1>3, <1>8 DEF Has
<1>10. \A b, h : Knows(R, b, h) <=> \E p \in objects : b \in now(p) /\ h \in p.hits
  BY <1>2, <1>3, <1>8 DEF Knows
<1>11. \A b : Has(R, b) <=> IF b \in DOMAIN from THEN Has(objects, from[b])
                            ELSE b \notin D /\ Has(objects, b)
  BY <1>5, <1>9 DEF Has
<1>12. \A b, h : Knows(R, b, h) <=> IF b \in DOMAIN from THEN Knows(objects, from[b], h)
                                    ELSE b \notin D /\ Knows(objects, b, h)
  BY <1>5, <1>10 DEF Knows
<1> QED
  BY <1>6, <1>7, <1>11, <1>12 DEF R

\* What is recorded for a set of bytes is recorded for one of them.
LEMMA RecordedFact ==
    ASSUME NEW m, NEW B
    PROVE  /\ \A h : h \in Recorded(m, B) <=> \E b \in B : Knows(m.objects, b, h)
           /\ \A b : b \in HasUpdates(m) <=> Has(m.objects, b)
<1>1. \A h : h \in Recorded(m, B) <=> \E o \in m.objects : o.bytes \cap B # {} /\ h \in o.hits
  BY DEF Recorded
<1> QED
  BY <1>1 DEF HasUpdates, Knows, Has

\* The history after a write.
LEMMA RewrittenFact ==
    ASSUME NEW past, NEW D, NEW new
    PROVE  /\ \A b : b \in DOMAIN Rewritten(past, D, new) <=>
                        b \in DOMAIN new \/ (b \in DOMAIN past /\ b \notin D)
           /\ \A b \in DOMAIN new : Rewritten(past, D, new)[b] = new[b]
           /\ \A b \in DOMAIN past : b \notin D /\ b \notin DOMAIN new =>
                 Rewritten(past, D, new)[b] = past[b]
BY DEF Rewritten

----------------------------------------------------------------------------
(* Every operation but start, start_extend and join_extend is a write.      *)

\* The hits that remain are old ones.
LEMMA OnlyHereFact ==
    ASSUME NEW m, NEW n, NEW D \in SUBSET Byte, NEW from,
           m.objects \in SUBSET Object, DOMAIN from \subseteq D,
           \A o \in n.objects : \/ o \in Repointed(m.objects, D, from)
                                 \/ \A h \in o.hits : h = Here \/ \E b : Knows(m.objects, b, h)
    PROVE  OnlyHere(m, n)
<1>1. \A o \in Repointed(m.objects, D, from) : \E p \in m.objects : o.hits = p.hits
  BY RepointedFact
<1> QED
  BY <1>1 DEF OnlyHere, Knows

\* copy, move, set
LEMMA CopiedFact ==
    ASSUME NEW m, MemOK(m), NEW D \in SUBSET Byte, NEW from, DOMAIN from = D
    PROVE  /\ MemOK(Copied(m, from))
           /\ Written(m, Copied(m, from), [d \in D |-> {from[d]}], {})
           /\ OnlyHere(m, Copied(m, from))
<1> DEFINE n == Copied(m, from)
           src == [d \in D |-> {from[d]}]
           values == [d \in {d \in D : from[d] \in DOMAIN m.past} |-> m.past[from[d]] \cup {}]
<1>1. /\ n.objects = Repointed(m.objects, D, from)
      /\ n.flow = (m.flow \ D) \cup {d \in D : from[d] \in m.flow}
      /\ n.past = Rewritten(m.past, D, values)
      /\ n = [flow |-> n.flow, objects |-> n.objects, past |-> n.past]
  BY DEF Copied, Carried
<1> HIDE DEF n
<1>2. m.objects \in SUBSET Object
  BY DEF MemOK
<1>3. /\ \A b : b \in DOMAIN n.past <=>
                IF b \in D THEN from[b] \in DOMAIN m.past ELSE b \in DOMAIN m.past
      /\ \A b \in DOMAIN n.past :
            n.past[b] = IF b \in D THEN m.past[from[b]] ELSE m.past[b]
  BY <1>1, RewrittenFact
<1>4. MemOK(n)
  <2>1. n.flow \subseteq Byte /\ n.objects \subseteq Object
    BY <1>1, <1>2, RepointedFact DEF MemOK
  <2>2. DOMAIN n.past \subseteq Byte /\ \A b \in DOMAIN n.past : n.past[b] \subseteq Hit
    BY <1>3 DEF MemOK
  <2> QED
    BY <1>1, <2>1, <2>2 DEF MemOK
<1>5. Written(m, n, src, {})
  <2>1. DOMAIN src = D /\ \A b \in D : \A s : s \in src[b] <=> s = from[b]
    OBVIOUS
  <2> HIDE DEF src
  <2>2. /\ \A b : Has(n.objects, b) <=>
                IF b \in D THEN Has(m.objects, from[b]) ELSE Has(m.objects, b)
        /\ \A b, h : Knows(n.objects, b, h) <=>
                IF b \in D THEN Knows(m.objects, from[b], h) ELSE Knows(m.objects, b, h)
    BY <1>1, <1>2, RepointedFact
  <2>3. \A b : b \in n.flow <=> IF b \in D THEN from[b] \in m.flow ELSE b \in m.flow
    BY <1>1
  <2> QED
    BY <1>3, <2>1, <2>2, <2>3 DEF Written
<1>6. OnlyHere(m, n)
  <2>1. \A o \in n.objects : o \in Repointed(m.objects, D, from)
    BY <1>1
  <2> QED
    BY <1>2, <2>1, OnlyHereFact
<1> QED
  BY <1>4, <1>5, <1>6 DEF n

\* Bytes of an area leave the maps they shared.
LEMMA RemovedFact ==
    ASSUME NEW objects \in SUBSET Object, NEW D \in SUBSET Byte
    PROVE  /\ Repointed(objects, D, <<>>) \subseteq Object
           /\ \A o \in Repointed(objects, D, <<>>) : \E p \in objects : o.hits = p.hits
           /\ \A b : Has(Repointed(objects, D, <<>>), b) <=> b \notin D /\ Has(objects, b)
           /\ \A b, h : Knows(Repointed(objects, D, <<>>), b, h) <=>
                           b \notin D /\ Knows(objects, b, h)
<1>1. DOMAIN <<>> = {}
  OBVIOUS
<1> QED
  BY <1>1, RepointedFact

\* From m to n the bytes of D leave the maps they shared for the maps of G,
\* which say of d what those of the bytes src[d] said, and new.
Grouped(m, n, D, src, new, G, values) ==
    /\ n = [flow |-> n.flow, objects |-> n.objects, past |-> n.past]
    /\ DOMAIN src = D /\ new \subseteq {Here} /\ new \subseteq Hit
    /\ n.objects = Repointed(m.objects, D, <<>>) \cup G
    /\ n.past = Rewritten(m.past, D, values)
    /\ \A b : b \in n.flow <=> IF b \in D THEN src[b] \cap m.flow # {} ELSE b \in m.flow
    /\ G \subseteq Object /\ \A o \in G : o.bytes \subseteq D
    /\ \A d \in D : Has(G, d) <=> \E s \in src[d] : Has(m.objects, s)
    /\ \A d \in D : \A h : Knows(G, d, h) <=>
          \E s \in src[d] : Knows(m.objects, s, h) \/ (h \in new /\ Has(m.objects, s))
    /\ \A b : b \in DOMAIN values <=> b \in D /\ src[b] \cap DOMAIN m.past # {}
    /\ \A d \in DOMAIN values : \A h : h \in values[d] <=>
          h \in new \/ \E s \in src[d] \cap DOMAIN m.past : h \in m.past[s]

\* This is a write.
LEMMA GroupedFact ==
    ASSUME NEW m, MemOK(m), NEW n, NEW D \in SUBSET Byte, NEW src, NEW new, NEW G, NEW values,
           Grouped(m, n, D, src, new, G, values)
    PROVE  MemOK(n) /\ Written(m, n, src, new) /\ OnlyHere(m, n)
<1> DEFINE R == Repointed(m.objects, D, <<>>)
<1>1. m.objects \in SUBSET Object /\ DOMAIN <<>> = {}
  BY DEF MemOK
<1>2. /\ R \subseteq Object
      /\ \A b : Has(R, b) <=> b \notin D /\ Has(m.objects, b)
      /\ \A b, h : Knows(R, b, h) <=> b \notin D /\ Knows(m.objects, b, h)
  BY <1>1, RemovedFact
<1>0. n.objects = R \cup G
  BY DEF Grouped
<1> HIDE DEF R
<1>3. /\ \A b : Has(n.objects, b) <=> Has(R, b) \/ Has(G, b)
      /\ \A b, h : Knows(n.objects, b, h) <=> Knows(R, b, h) \/ Knows(G, b, h)
  BY <1>0 DEF Has, Knows
<1>4. \A b : b \notin D => ~Has(G, b) /\ \A h : ~Knows(G, b, h)
  BY DEF Has, Knows, Grouped
<1>5. /\ \A b : b \in DOMAIN n.past <=>
                IF b \in D THEN src[b] \cap DOMAIN m.past # {} ELSE b \in DOMAIN m.past
      /\ \A b \in DOMAIN n.past :
            IF b \in D
            THEN \A h : h \in n.past[b] <=>
                          h \in new \/ \E s \in src[b] \cap DOMAIN m.past : h \in m.past[s]
            ELSE n.past[b] = m.past[b]
  BY RewrittenFact DEF Grouped
<1>6. MemOK(n)
  <2>1. n.flow \subseteq Byte /\ n.objects \subseteq Object
    BY <1>0, <1>2 DEF MemOK, Grouped
  <2>2. ASSUME NEW b \in DOMAIN n.past, NEW h \in n.past[b] PROVE h \in Hit
    BY <1>5, <2>2 DEF MemOK, Grouped
  <2>3. DOMAIN n.past \subseteq Byte
    BY <1>5 DEF MemOK
  <2> QED
    BY <2>1, <2>2, <2>3 DEF MemOK, Grouped
<1>7. Written(m, n, src, new)
  BY <1>2, <1>3, <1>4, <1>5 DEF Written, Grouped
<1>8. OnlyHere(m, n)
  <2>1. ASSUME NEW o \in G, NEW h \in o.hits
        PROVE  h = Here \/ \E b : Knows(m.objects, b, h)
    <3>1. PICK d \in D : d \in o.bytes
      BY ObjectFact DEF Grouped
    <3>2. Knows(G, d, h)
      BY <2>1, <3>1 DEF Knows
    <3> QED
      BY <3>1, <3>2 DEF Grouped
  <2>2. \A o \in n.objects : \/ o \in Repointed(m.objects, D, <<>>)
                             \/ \A h \in o.hits : h = Here \/ \E b : Knows(m.objects, b, h)
    BY <1>0, <2>1 DEF R
  <2>3. DOMAIN <<>> \subseteq D
    BY <1>1
  <2> QED
    BY ONLY <1>1, <2>2, <2>3, D \in SUBSET Byte, OnlyHereFact
<1> QED
  BY <1>6, <1>7, <1>8

\* clear
LEMMA ClearedFact ==
    ASSUME NEW m, MemOK(m), NEW D \in SUBSET Byte
    PROVE  /\ MemOK(Cleared(m, D))
           /\ Written(m, Cleared(m, D), [d \in D |-> {}], {})
           /\ OnlyHere(m, Cleared(m, D))
<1> DEFINE n == Cleared(m, D)
           src == [d \in D |-> {}]
<1>1. /\ n = [flow |-> n.flow, objects |-> n.objects, past |-> n.past]
      /\ n.flow = m.flow \ D
      /\ n.objects = Repointed(m.objects, D, <<>>) \cup {}
      /\ n.past = Rewritten(m.past, D, <<>>)
  BY DEF Cleared, Forgotten
<1>2. /\ DOMAIN src = D /\ \A d \in D : src[d] = {}
      /\ DOMAIN <<>> = {}
      /\ \A b, h : ~Has({}, b) /\ ~Knows({}, b, h)
  BY DEF Has, Knows
<1> HIDE DEF n, src
<1>3. Grouped(m, n, D, src, {}, {}, <<>>)
  BY <1>1, <1>2 DEF Grouped
<1> QED
  BY <1>3, GroupedFact DEF n, src

\* Maps for one byte each.
LEMMA SinglesFact ==
    ASSUME NEW P \in SUBSET Byte, NEW hits, \A d \in P : hits[d] \in SUBSET Hit
    PROVE  LET G == {[bytes |-> {d}, hits |-> hits[d]] : d \in P} IN
           /\ G \subseteq Object /\ \A o \in G : o.bytes \subseteq P
           /\ \A b : Has(G, b) <=> b \in P
           /\ \A b, h : Knows(G, b, h) <=> b \in P /\ h \in hits[b]
<1> DEFINE single(d) == [bytes |-> {d}, hits |-> hits[d]]
           G == {single(d) : d \in P}
<1>1. \A d \in P : single(d).bytes = {d} /\ single(d).hits = hits[d]
  OBVIOUS
<1>2. \A B \in (SUBSET Byte) \ {{}}, H \in SUBSET Hit : [bytes |-> B, hits |-> H] \in Object
  BY DEF Object
<1>3. \A d \in P : single(d) \in Object
  BY <1>2
<1> HIDE DEF single
<1>4. G \subseteq Object /\ \A o \in G : o.bytes \subseteq P
  BY <1>1, <1>3
<1>5. \A b : Has(G, b) <=> b \in P
  BY <1>1 DEF Has
<1>6. \A b, h : Knows(G, b, h) <=> b \in P /\ h \in hits[b]
  BY <1>1 DEF Knows
<1> QED
  BY <1>4, <1>5, <1>6 DEF single

\* Types of what is recorded and of the history.
LEMMA RecordedType ==
    ASSUME NEW m, MemOK(m)
    PROVE  /\ \A b, h : Knows(m.objects, b, h) => h \in Hit /\ Has(m.objects, b)
           /\ \A b : Has(m.objects, b) => b \in Byte
           /\ \A B : Recorded(m, B) \subseteq Hit
           /\ \A B, h : h \in PastOf(m, B) <=> \E b \in B \cap DOMAIN m.past : h \in m.past[b]
<1>1. \A b, h : Knows(m.objects, b, h) => h \in Hit /\ Has(m.objects, b)
  BY ObjectFact DEF MemOK, Knows, Has
<1>2. \A b : Has(m.objects, b) => b \in Byte
  BY ObjectFact DEF MemOK, Has
<1>3. \A B : Recorded(m, B) \subseteq Hit
  BY ObjectFact DEF MemOK, Recorded
<1>4. \A B, h : h \in PastOf(m, B) <=> \E b \in B \cap DOMAIN m.past : h \in m.past[b]
  BY DEF PastOf
<1> QED
  BY <1>1, <1>2, <1>3, <1>4

\* slice
LEMMA SlicedFact ==
    ASSUME NEW m, MemOK(m), NEW D \in SUBSET Byte, NEW from, DOMAIN from = D, Here \in Hit
    PROVE  /\ MemOK(Sliced(m, from))
           /\ Written(m, Sliced(m, from), [d \in D |-> {from[d]}], {Here})
           /\ OnlyHere(m, Sliced(m, from))
<1> DEFINE n == Sliced(m, from)
           src == [d \in D |-> {from[d]}]
           hits == [d \in D |-> Recorded(m, {from[d]}) \cup {Here}]
           P == {d \in D : from[d] \in HasUpdates(m)}
           G == {[bytes |-> {d}, hits |-> hits[d]] : d \in P}
           values == [d \in {d \in D : from[d] \in DOMAIN m.past} |-> m.past[from[d]] \cup {Here}]
<1>1. /\ n = [flow |-> n.flow, objects |-> n.objects, past |-> n.past]
      /\ n.flow = (m.flow \ D) \cup {d \in D : from[d] \in m.flow}
      /\ n.objects = Repointed(m.objects, D, <<>>) \cup G
      /\ n.past = Rewritten(m.past, D, values)
  BY DEF Sliced, Copied, Carried
<1>2. DOMAIN src = D /\ \A d \in D : \A s : s \in src[d] <=> s = from[d]
  OBVIOUS
<1>3. \A d \in D : \A h : h \in hits[d] <=> h = Here \/ Knows(m.objects, from[d], h)
  BY RecordedFact
<1>4. \A d : d \in P <=> d \in D /\ Has(m.objects, from[d])
  BY RecordedFact
<1>5. /\ \A b : b \in DOMAIN values <=> b \in D /\ from[b] \in DOMAIN m.past
      /\ \A d \in DOMAIN values : values[d] = m.past[from[d]] \cup {Here}
  OBVIOUS
<1>6. P \in SUBSET Byte /\ \A d \in P : hits[d] \in SUBSET Hit
  BY RecordedType
<1> HIDE DEF n, src, hits, P, values
<1>7. /\ G \subseteq Object /\ \A o \in G : o.bytes \subseteq P
      /\ \A b : Has(G, b) <=> b \in P
      /\ \A b, h : Knows(G, b, h) <=> b \in P /\ h \in hits[b]
  BY <1>6, SinglesFact
<1> HIDE DEF G
<1>8. Grouped(m, n, D, src, {Here}, G, values)
  BY <1>1, <1>2, <1>3, <1>4, <1>5, <1>7, RecordedType DEF Grouped
<1> QED
  BY <1>8, GroupedFact DEF n, src

\* join
LEMMA JoinedFact ==
    ASSUME NEW m, MemOK(m), NEW D \in SUBSET Byte, D # {}, NEW S,
           NEW new \in SUBSET Hit, new \subseteq {Here}
    PROVE  /\ MemOK(Joined(m, D, S, new))
           /\ Written(m, Joined(m, D, S, new), [d \in D |-> S], new)
           /\ OnlyHere(m, Joined(m, D, S, new))
<1> DEFINE n == Joined(m, D, S, new)
           src == [d \in D |-> S]
           o == [bytes |-> D, hits |-> Merged(m, S) \cup new]
           G == IF S \cap HasUpdates(m) = {} THEN {} ELSE {o}
           values == [d \in IF S \cap DOMAIN m.past = {} THEN {} ELSE D |-> PastOf(m, S) \cup new]
<1>1. /\ n = [flow |-> n.flow, objects |-> n.objects, past |-> n.past]
      /\ n.flow = (m.flow \ D) \cup (IF S \cap m.flow = {} THEN {} ELSE D)
      /\ n.objects = Repointed(m.objects, D, <<>>) \cup G
      /\ n.past = Rewritten(m.past, D, values)
  BY DEF Joined
<1>2. DOMAIN src = D /\ \A d \in D : src[d] = S
  OBVIOUS
<1>3. o.bytes = D /\ o.hits = Merged(m, S) \cup new
  OBVIOUS
<1>4. \A h : h \in Merged(m, S) <=> \E s \in S : Knows(m.objects, s, h)
  BY RecordedFact DEF Merged
<1>5. S \cap HasUpdates(m) # {} <=> \E s \in S : Has(m.objects, s)
  BY RecordedFact
<1>6. /\ \A b : b \in DOMAIN values <=> b \in D /\ S \cap DOMAIN m.past # {}
      /\ \A d \in DOMAIN values : values[d] = PastOf(m, S) \cup new
  OBVIOUS
<1>7. o \in Object
  <2>1. Merged(m, S) \cup new \in SUBSET Hit
    BY RecordedType DEF Merged
  <2>2. \A B \in (SUBSET Byte) \ {{}}, H \in SUBSET Hit : [bytes |-> B, hits |-> H] \in Object
    BY DEF Object
  <2> QED
    BY <2>1, <2>2
<1> HIDE DEF n, src, o, values
<1>8. /\ G \subseteq Object /\ \A q \in G : q.bytes \subseteq D
      /\ \A d \in D : Has(G, d) <=> \E s \in S : Has(m.objects, s)
      /\ \A d \in D : \A h : Knows(G, d, h) <=>
            (\E s \in S : Has(m.objects, s)) /\ (h \in new \/ \E s \in S : Knows(m.objects, s, h))
  BY <1>3, <1>4, <1>5, <1>7 DEF Has, Knows
<1> HIDE DEF G
<1>9. Grouped(m, n, D, src, new, G, values)
  BY <1>1, <1>2, <1>6, <1>8, RecordedType DEF Grouped
<1> QED
  BY <1>9, GroupedFact DEF n, src

\* join_per_byte
LEMMA JoinedPerByteFact ==
    ASSUME NEW m, MemOK(m), NEW D \in SUBSET Byte, NEW from, DOMAIN from = D, Here \in Hit
    PROVE  /\ MemOK(JoinedPerByte(m, from))
           /\ Written(m, JoinedPerByte(m, from), from, {Here})
           /\ OnlyHere(m, JoinedPerByte(m, from))
<1> DEFINE n == JoinedPerByte(m, from)
           hits == [d \in D |-> Merged(m, from[d]) \cup {Here}]
           P == {d \in D : from[d] \cap HasUpdates(m) # {}}
           G == {[bytes |-> {d}, hits |-> hits[d]] : d \in P}
           values == [d \in {d \in D : from[d] \cap DOMAIN m.past # {}} |->
                         PastOf(m, from[d]) \cup {Here}]
<1>1. /\ n = [flow |-> n.flow, objects |-> n.objects, past |-> n.past]
      /\ n.flow = (m.flow \ D) \cup {d \in D : from[d] \cap m.flow # {}}
      /\ n.objects = Repointed(m.objects, D, <<>>) \cup G
      /\ n.past = Rewritten(m.past, D, values)
  BY DEF JoinedPerByte
<1>2. \A d \in D : \A h : h \in hits[d] <=>
         h = Here \/ \E s \in from[d] : Knows(m.objects, s, h)
  BY RecordedFact DEF Merged
<1>3. \A d : d \in P <=> d \in D /\ \E s \in from[d] : Has(m.objects, s)
  BY RecordedFact
<1>4. /\ \A b : b \in DOMAIN values <=> b \in D /\ from[b] \cap DOMAIN m.past # {}
      /\ \A d \in DOMAIN values : values[d] = PastOf(m, from[d]) \cup {Here}
  OBVIOUS
<1>5. P \in SUBSET Byte /\ \A d \in P : hits[d] \in SUBSET Hit
  BY RecordedType DEF Merged
<1> HIDE DEF n, hits, P, values
<1>6. /\ G \subseteq Object /\ \A o \in G : o.bytes \subseteq P
      /\ \A b : Has(G, b) <=> b \in P
      /\ \A b, h : Knows(G, b, h) <=> b \in P /\ h \in hits[b]
  BY <1>5, SinglesFact
<1> HIDE DEF G
<1>7. Grouped(m, n, D, from, {Here}, G, values)
  BY <1>1, <1>2, <1>3, <1>4, <1>6, RecordedType DEF Grouped
<1> QED
  BY <1>7, GroupedFact DEF n

----------------------------------------------------------------------------
(* What the operations keep.                                                *)

Kept(m, n) ==
    /\ MemOK(n) /\ Sound(n)
    /\ Agree(m) => Agree(n)
    /\ Pure(m) => Pure(n)
    /\ OnlyHere(m, n)

LEMMA KeptFact ==
    ASSUME NEW m, NEW n, NEW k, Kept(m, n), Kept(n, k)
    PROVE  Kept(m, k)
BY DEF Kept, OnlyHere

\* start: the map of the area is empty.
LEMMA StartedFact ==
    ASSUME NEW m, MemOK(m), Sound(m), NEW D \in SUBSET Byte, D # {}
    PROVE  Kept(m, Started(m, D)) /\ OnlyOld(m, Started(m, D))
<1> DEFINE n == Started(m, D)
           R == Repointed(m.objects, D, <<>>)
           o == [bytes |-> D, hits |-> {}]
           values == [d \in D |-> {}]
<1>1. /\ n = [flow |-> n.flow, objects |-> n.objects, past |-> n.past]
      /\ n.flow = m.flow \cup D
      /\ n.objects = R \cup {o}
      /\ n.past = Rewritten(m.past, D, values)
  BY DEF Started
<1>2. o.bytes = D /\ o.hits = {} /\ DOMAIN values = D /\ \A d \in D : values[d] = {}
  OBVIOUS
<1>3. o \in Object
  <2>1. \A B \in (SUBSET Byte) \ {{}}, H \in SUBSET Hit : [bytes |-> B, hits |-> H] \in Object
    BY DEF Object
  <2> QED
    BY <2>1
<1>4. m.objects \in SUBSET Object /\ DOMAIN <<>> \subseteq D
  BY DEF MemOK
<1>5. /\ R \subseteq Object
      /\ \A b : Has(R, b) <=> b \notin D /\ Has(m.objects, b)
      /\ \A b, h : Knows(R, b, h) <=> b \notin D /\ Knows(m.objects, b, h)
  BY <1>4, RemovedFact
<1> HIDE DEF n, o, values
<1>6. /\ \A b : Has(n.objects, b) <=> b \in D \/ Has(m.objects, b)
      /\ \A b, h : Knows(n.objects, b, h) <=> b \notin D /\ Knows(m.objects, b, h)
  <2>1. /\ \A b : Has(n.objects, b) <=> Has(R, b) \/ b \in D
        /\ \A b, h : Knows(n.objects, b, h) <=> Knows(R, b, h)
    BY <1>1, <1>2 DEF Has, Knows
  <2> QED
    BY <1>5, <2>1
<1>7. /\ \A b : b \in DOMAIN n.past <=> b \in D \/ b \in DOMAIN m.past
      /\ \A b \in DOMAIN n.past : n.past[b] = IF b \in D THEN {} ELSE m.past[b]
  <2>1. /\ \A b : b \in DOMAIN Rewritten(m.past, D, values) <=>
                     b \in DOMAIN values \/ (b \in DOMAIN m.past /\ b \notin D)
        /\ \A b \in DOMAIN values : Rewritten(m.past, D, values)[b] = values[b]
        /\ \A b \in DOMAIN m.past : b \notin D /\ b \notin DOMAIN values =>
              Rewritten(m.past, D, values)[b] = m.past[b]
    BY RewrittenFact
  <2> QED
    BY ONLY <1>1, <1>2, <2>1
<1>8. OnlyHere(m, n)
  <2>1. \A q \in n.objects : \/ q \in Repointed(m.objects, D, <<>>)
                             \/ \A h \in q.hits : h = Here \/ \E b : Knows(m.objects, b, h)
    BY <1>1, <1>2
  <2> QED
    BY ONLY <1>4, <2>1, D \in SUBSET Byte, OnlyHereFact
<1>12. OnlyOld(m, n)
  <2>1. \A q \in R : \E p \in m.objects : q.hits = p.hits
    BY <1>4, RemovedFact
  <2> QED
    BY <1>1, <1>2, <2>1 DEF OnlyOld
<1>9. MemOK(n)
  BY <1>1, <1>3, <1>5, <1>7 DEF MemOK
<1>10. Sound(n)
  BY <1>1, <1>6, <1>7 DEF Sound
<1>11. (Agree(m) => Agree(n)) /\ (Pure(m) => Pure(n))
  BY <1>1, <1>6, <1>7 DEF Agree, Pure
<1> QED
  BY <1>8, <1>9, <1>10, <1>11, <1>12 DEF Kept, n

\* start_extend: only the flow changes.
LEMMA StartExtendedFact ==
    ASSUME NEW m, MemOK(m), Sound(m), NEW D \in SUBSET Byte
    PROVE  LET n == StartExtended(m, D) IN
           /\ MemOK(n) /\ Sound(n)
           /\ Agree(m) /\ D \subseteq HasUpdates(m) => Agree(n)
           /\ Pure(m) => Pure(n)
           /\ OnlyOld(m, n)
<1> DEFINE n == StartExtended(m, D)
<1>1. m = [flow |-> m.flow, objects |-> m.objects, past |-> m.past]
  BY DEF MemOK
<1>2. n = [flow |-> m.flow \cup D, objects |-> m.objects, past |-> m.past]
  BY <1>1 DEF StartExtended
<1>3. n.flow = m.flow \cup D /\ n.objects = m.objects /\ n.past = m.past
  BY <1>2
<1> HIDE DEF n
<1>4. MemOK(n) /\ Sound(n)
  BY <1>2, <1>3 DEF MemOK, Sound
<1>5. Agree(m) /\ D \subseteq HasUpdates(m) => Agree(n)
  BY <1>3, RecordedFact DEF Agree
<1>6. (Pure(m) => Pure(n)) /\ OnlyOld(m, n)
  BY <1>3 DEF Pure, OnlyOld
<1> QED
  BY <1>4, <1>5, <1>6 DEF n

\* join_extend merges into maps that other bytes may share.
LEMMA JoinExtendedFact ==
    ASSUME NEW m, MemOK(m), Sound(m), NEW D \in SUBSET Byte, NEW S, Here \in Hit,
           S \cap HasUpdates(m) # {} => D \subseteq HasUpdates(m)
    PROVE  LET n == JoinExtended(m, D, S) IN
           /\ MemOK(n) /\ Sound(n)
           /\ Agree(m) => Agree(n)
           /\ \/ S \cap HasUpdates(m) = {}
              \/ \A o \in m.objects : o.bytes \cap D = {} \/ o.bytes \subseteq D
              => (Pure(m) => Pure(n))
           /\ OnlyHere(m, n)
<1> DEFINE n == JoinExtended(m, D, S)
<1>1. m = [flow |-> m.flow, objects |-> m.objects, past |-> m.past]
  BY DEF MemOK
<1>2. \A b : b \in HasUpdates(m) <=> Has(m.objects, b)
  BY RecordedFact
<1>3. CASE S \cap HasUpdates(m) = {}
  <2>1. n = [flow |-> m.flow \cup (IF S \cap m.flow = {} THEN {} ELSE D),
             objects |-> m.objects, past |-> m.past]
    BY <1>1, <1>3 DEF JoinExtended
  <2>2. /\ n.flow = m.flow \cup (IF S \cap m.flow = {} THEN {} ELSE D)
        /\ n.objects = m.objects /\ n.past = m.past
    BY <2>1
  <2> HIDE DEF n
  <2>3. MemOK(n) /\ Sound(n)
    BY <2>1, <2>2 DEF MemOK, Sound
  <2>4. Agree(m) => Agree(n)
    BY <1>2, <1>3, <2>2 DEF Agree
  <2>5. (Pure(m) => Pure(n)) /\ OnlyHere(m, n)
    BY <2>2 DEF Pure, OnlyHere
  <2> QED
    BY <2>3, <2>4, <2>5 DEF n
<1>4. CASE S \cap HasUpdates(m) # {}
  <2> DEFINE more == Merged(m, S) \cup {Here}
             grown(o) == [o EXCEPT !.hits = @ \cup Merged(m, S) \cup {Here}]
             step(o) == IF o.bytes \cap D = {} THEN o ELSE grown(o)
             later(b) == IF b \in D THEN m.past[b] \cup PastOf(m, S) \cup {Here} ELSE m.past[b]
  <2>1. /\ n = [flow |-> n.flow, objects |-> n.objects, past |-> n.past]
        /\ n.flow = m.flow \cup D
        /\ n.objects = {step(o) : o \in m.objects}
        /\ n.past = [b \in DOMAIN m.past |-> later(b)]
    BY <1>4 DEF JoinExtended
  <2>2. ASSUME NEW o \in m.objects
        PROVE  /\ step(o) \in Object /\ step(o).bytes = o.bytes
               /\ step(o).hits = IF o.bytes \cap D = {} THEN o.hits ELSE o.hits \cup more
    <3>1. o \in Object
      BY DEF MemOK
    <3>2. o = [bytes |-> o.bytes, hits |-> o.hits]
      BY <3>1, ObjectFact
    <3>3. grown(o) = [bytes |-> o.bytes, hits |-> o.hits \cup more]
      BY <3>2
    <3>4. o.bytes \in (SUBSET Byte) \ {{}} /\ o.hits \cup more \in SUBSET Hit
      BY <3>1, ObjectFact, RecordedType DEF Merged
    <3>5. grown(o) \in Object
      BY <3>3, <3>4 DEF Object
    <3>6. grown(o).bytes = o.bytes /\ grown(o).hits = o.hits \cup more
      BY <3>3
    <3> QED
      BY <3>1, <3>5, <3>6
  <2>3. \A h : h \in more <=> h = Here \/ \E s \in S : Knows(m.objects, s, h)
    BY RecordedFact DEF Merged
  <2>4. /\ DOMAIN n.past = DOMAIN m.past
        /\ \A b \in DOMAIN m.past : \A h : h \in n.past[b] <=>
              \/ h \in m.past[b]
              \/ b \in D /\ (h = Here \/ \E s \in S \cap DOMAIN m.past : h \in m.past[s])
    BY <2>1, RecordedType
  <2> HIDE DEF n, step, more, later
  <2>5. \A b : Has(n.objects, b) <=> Has(m.objects, b)
    BY <2>1, <2>2 DEF Has
  <2>6. \A b, h : Knows(n.objects, b, h) <=>
           \E o \in m.objects : b \in o.bytes /\ (h \in o.hits \/ (o.bytes \cap D # {} /\ h \in more))
    BY <2>1, <2>2 DEF Knows
  <2>7. MemOK(n)
    <3>1. n.objects \subseteq Object
      BY <2>1, <2>2
    <3>2. ASSUME NEW b \in DOMAIN n.past, NEW h \in n.past[b] PROVE h \in Hit
      BY <2>4, <3>2 DEF MemOK
    <3> QED
      BY <2>1, <2>4, <3>1, <3>2 DEF MemOK
  <2>8. Sound(n)
    <3>1. ASSUME NEW b \in DOMAIN n.past, NEW h \in n.past[b] PROVE Knows(n.objects, b, h)
      <4>1. CASE h \in m.past[b]
        <5>1. Knows(m.objects, b, h)
          BY <2>4, <4>1 DEF Sound
        <5> QED
          BY <2>6, <5>1 DEF Knows
      <4>2. CASE b \in D /\ (h = Here \/ \E s \in S \cap DOMAIN m.past : h \in m.past[s])
        <5>1. PICK o \in m.objects : b \in o.bytes
          BY <2>4 DEF Sound, Has
        <5>2. h \in more
          BY <2>3, <4>2 DEF Sound
        <5> QED
          BY <2>6, <4>2, <5>1, <5>2
      <4> QED
        BY <2>4, <3>1, <4>1, <4>2
    <3>2. \A b : Has(n.objects, b) => b \in n.flow /\ b \in DOMAIN n.past
      BY <2>1, <2>4, <2>5 DEF Sound
    <3>3. \A b \in DOMAIN n.past : Has(n.objects, b)
      BY <2>4, <2>5 DEF Sound
    <3> QED
      BY <3>1, <3>2, <3>3 DEF Sound
  <2>9. Agree(m) => Agree(n)
    BY <1>2, <1>4, <2>1, <2>5 DEF Agree
  <2>10. ASSUME \A o \in m.objects : o.bytes \cap D = {} \/ o.bytes \subseteq D, Pure(m),
                NEW b \in DOMAIN n.past, NEW h, Knows(n.objects, b, h)
         PROVE  h \in n.past[b]
    <3>1. PICK o \in m.objects :
             b \in o.bytes /\ (h \in o.hits \/ (o.bytes \cap D # {} /\ h \in more))
      BY <2>6, <2>10
    <3>2. CASE h \in o.hits
      BY <2>4, <2>10, <3>1, <3>2 DEF Pure, Knows
    <3>3. CASE o.bytes \cap D # {} /\ h \in more
      <4>1. b \in D
        BY <2>10, <3>1, <3>3
      <4>2. h = Here \/ \E s \in S \cap DOMAIN m.past : h \in m.past[s]
        BY <2>3, <2>10, <3>3, RecordedType DEF Pure, Sound
      <4> QED
        BY <2>4, <4>1, <4>2
    <3> QED
      BY <3>1, <3>2, <3>3
  <2>11. OnlyHere(m, n)
    <3>1. ASSUME NEW o \in m.objects, NEW h \in step(o).hits
          PROVE  h = Here \/ \E p \in m.objects : h \in p.hits
      BY <2>2, <2>3, <3>1 DEF Knows
    <3> QED
      BY <2>1, <3>1 DEF OnlyHere
  <2> QED
    BY <1>4, <2>7, <2>8, <2>9, <2>10, <2>11 DEF n, Pure
<1> QED
  BY <1>3, <1>4

\* A write keeps what the maps promise.
LEMMA KeptByWrite ==
    ASSUME NEW m, Sound(m), NEW n, NEW src, NEW new,
           MemOK(n), Written(m, n, src, new), OnlyHere(m, n)
    PROVE  Kept(m, n)
BY WrittenFact DEF Kept

LEMMA KeptByCopy ==
    ASSUME NEW m, MemOK(m), Sound(m), NEW D \in SUBSET Byte, NEW from, DOMAIN from = D
    PROVE  Kept(m, Copied(m, from))
BY CopiedFact, KeptByWrite

LEMMA KeptByClear ==
    ASSUME NEW m, MemOK(m), Sound(m), NEW D \in SUBSET Byte
    PROVE  Kept(m, Cleared(m, D))
BY ClearedFact, KeptByWrite

LEMMA KeptByJoin ==
    ASSUME NEW m, MemOK(m), Sound(m), NEW D \in SUBSET Byte, D # {}, NEW S,
           NEW new \in SUBSET Hit, new \subseteq {Here}
    PROVE  Kept(m, Joined(m, D, S, new))
BY JoinedFact, KeptByWrite

LEMMA KeptBySlice ==
    ASSUME NEW m, MemOK(m), Sound(m), NEW D \in SUBSET Byte, NEW from, DOMAIN from = D,
           Here \in Hit
    PROVE  /\ Kept(m, Sliced(m, from))
           /\ Kept(m, JoinedPerByte(m, from))
BY SlicedFact, JoinedPerByteFact, KeptByWrite

----------------------------------------------------------------------------
(* The areas and the frames.                                                *)

LEMMA AreaFact ==
    /\ \A D \in Areas : D \in SUBSET Byte /\ D # {} /\ IsFiniteSet(D)
    /\ \A D, S \in Areas : Cardinality(S) < Cardinality(D) =>
          Area(Min(D), Cardinality(S)) \subseteq D
<1>1. ASSUME NEW D \in Areas
      PROVE  \E a, n \in Nat \ {0} : D = a .. a + n - 1 /\ n = Cardinality(D) /\ a = Min(D)
  <2>1. PICK a \in Byte, n \in Byte : D = a .. a + n - 1
    BY DEF Areas, Area
  <2>2. a \in Nat \ {0} /\ n \in Nat \ {0}
    BY BoundsAssumption DEF Byte
  <2>3. Cardinality(a .. a + n - 1) = n
    BY <2>2, FS_Interval
  <2>4. a \in D /\ \A x \in D : a <= x
    BY <2>1, <2>2
  <2>5. Min(D) \in D /\ \A x \in D : Min(D) <= x
    BY <2>4 DEF Min
  <2>6. Min(D) = a
    BY <2>1, <2>2, <2>4, <2>5
  <2> QED
    BY <2>1, <2>2, <2>3, <2>6
<1>2. ASSUME NEW D \in Areas PROVE D \in SUBSET Byte /\ D # {} /\ IsFiniteSet(D)
  <2>1. PICK a, n \in Nat \ {0} : D = a .. a + n - 1
    BY <1>1
  <2>2. a \in D /\ IsFiniteSet(D)
    BY <2>1, FS_Interval
  <2> QED
    BY <2>2 DEF Areas
<1>3. ASSUME NEW D \in Areas, NEW S \in Areas, Cardinality(S) < Cardinality(D)
      PROVE  Area(Min(D), Cardinality(S)) \subseteq D
  <2>1. PICK a, n \in Nat \ {0} : D = a .. a + n - 1 /\ n = Cardinality(D) /\ a = Min(D)
    BY <1>1
  <2>2. PICK b, k \in Nat \ {0} : k = Cardinality(S)
    BY <1>1
  <2> QED
    BY <1>3, <2>1, <2>2 DEF Area
<1> QED
  BY <1>2, <1>3

Frames(stack) ==
    /\ stack \in Seq(1 .. MaxInstr + 1) /\ stack # <<>>
    /\ \A i \in 1 .. Len(stack) - 1 : stack[i] <= MaxInstr

\* The last frame moves on.
LEMMA MovedOn ==
    ASSUME NEW stack, Frames(stack), NEW next \in 1 .. MaxInstr + 1
    PROVE  LET new == Append(Front(stack), next) IN Frames(new) /\ Last(new) = next
<1> DEFINE below == Front(stack)
           new == Append(below, next)
<1>1. /\ below \in Seq(1 .. MaxInstr + 1) /\ Len(stack) \in Nat \ {0}
      /\ Len(below) = Len(stack) - 1
      /\ \A i \in 1 .. Len(stack) - 1 : below[i] = stack[i]
  BY PopFact DEF Frames
<1> HIDE DEF below
<1>2. /\ new \in Seq(1 .. MaxInstr + 1) /\ Len(new) = Len(below) + 1
      /\ DOMAIN below = 1 .. Len(below)
      /\ \A i \in DOMAIN below : new[i] = below[i]
      /\ new[Len(below) + 1] = next
  BY <1>1, PushFact
<1> HIDE DEF new
<1>3. new # <<>>
  BY <1>1, <1>2
<1>4. \A i \in 1 .. Len(new) - 1 : new[i] <= MaxInstr
  BY <1>1, <1>2 DEF Frames
<1>5. Last(new) = next
  BY <1>1, <1>2 DEF Last
<1> QED
  BY <1>2, <1>3, <1>4, <1>5 DEF Frames, new, below

\* A frame is pushed.
LEMMA Entered ==
    ASSUME NEW stack, Frames(stack), Last(stack) <= MaxInstr
    PROVE  LET new == Append(stack, 1) IN Frames(new) /\ Last(new) = 1
<1> DEFINE new == Append(stack, 1)
<1>1. 1 \in 1 .. MaxInstr + 1 /\ MaxInstr \in Nat
  BY BoundsAssumption
<1>2. /\ new \in Seq(1 .. MaxInstr + 1) /\ Len(new) = Len(stack) + 1
      /\ DOMAIN stack = 1 .. Len(stack) /\ Len(stack) \in Nat \ {0}
      /\ \A i \in DOMAIN stack : new[i] = stack[i]
      /\ new[Len(stack) + 1] = 1 /\ Last(stack) = stack[Len(stack)]
  <2>1. stack \in Seq(1 .. MaxInstr + 1) /\ stack # <<>>
    BY DEF Frames
  <2>2. Len(stack) \in Nat \ {0} /\ Last(stack) = stack[Len(stack)]
    BY <2>1, PopFact
  <2>3. /\ new \in Seq(1 .. MaxInstr + 1) /\ Len(new) = Len(stack) + 1
        /\ \A i \in DOMAIN stack : new[i] = stack[i]
        /\ new[Len(stack) + 1] = 1
    BY <1>1, <2>1, PushFact
  <2> QED
    BY <2>1, <2>2, <2>3
<1> HIDE DEF new
<1>3. new # <<>>
  BY <1>2
<1>4. \A i \in 1 .. Len(new) - 1 : new[i] <= MaxInstr
  BY <1>2 DEF Frames
<1>5. Last(new) = 1
  BY <1>2 DEF Last
<1> QED
  BY <1>2, <1>3, <1>4, <1>5 DEF Frames, new

\* The last frame is popped, the one below waits for its return.
LEMMA Popped ==
    ASSUME NEW stack, Frames(stack), Len(stack) > 1
    PROVE  Frames(Front(stack)) /\ Last(Front(stack)) \in 1 .. MaxInstr
<1> DEFINE below == Front(stack)
<1>1. /\ below \in Seq(1 .. MaxInstr + 1) /\ Len(stack) \in Nat \ {0}
      /\ Len(below) = Len(stack) - 1
      /\ \A i \in 1 .. Len(stack) - 1 : below[i] = stack[i]
  BY PopFact DEF Frames
<1> HIDE DEF below
<1>2. below # <<>>
  BY <1>1
<1>3. Last(below) = below[Len(below)] /\ Last(below) \in 1 .. MaxInstr + 1
  BY <1>1, <1>2, PopFact
<1>4. Last(below) = stack[Len(stack) - 1]
  BY <1>1, <1>3
<1>5. Last(below) <= MaxInstr
  BY <1>1, <1>4 DEF Frames
<1>6. Frames(below)
  BY <1>1, <1>2 DEF Frames
<1> QED
  BY <1>3, <1>5, <1>6, BoundsAssumption DEF below

----------------------------------------------------------------------------
(* Steps.                                                                   *)

Inv ==
    /\ m_is_predicate_update \in BOOLEAN
    /\ Frames(ip) /\ counter \in 0 .. MaxBlocks
    /\ MemOK(mem) /\ Sound(mem)
    /\ "late" \notin odd => Agree(mem)
    /\ "mixed" \notin odd => Pure(mem)
    /\ HitsAreFresh

\* How control and the hits move.
Idle == ip' = ip /\ counter' = counter /\ OnlyOld(mem, mem')

Forward ==
    /\ Frames(ip') /\ Last(ip') = Last(ip) + 1 /\ counter' = counter
    /\ OnlyHere(mem, mem')

Counted ==
    /\ Frames(ip') /\ counter' = counter + 1 /\ counter' \in 0 .. MaxBlocks
    /\ OnlyHere(mem, mem')

Safe ==
    /\ m_is_predicate_update' = m_is_predicate_update
    /\ MemOK(mem') /\ Sound(mem')
    /\ "late" \notin odd' => Agree(mem')
    /\ "mixed" \notin odd' => Pure(mem')

\* The update that an instruction records is a hit.
LEMMA HereFact ==
    ASSUME Inv, AtInstr
    PROVE  Here \in Hit /\ Last(ip) \in 1 .. MaxInstr
<1>1. Last(ip) \in 1 .. MaxInstr + 1
  BY PopFact DEF Inv, Frames
<1>2. Last(ip) \in 1 .. MaxInstr
  BY <1>1, BoundsAssumption DEF AtInstr
<1> QED
  BY <1>2 DEF Here, Hit, Inv

\* An instruction that keeps the promises of the maps is a step forward.
LEMMA InstructionFact ==
    ASSUME Inv, NEW m, Instruction(m), Kept(mem, m)
    PROVE  Safe /\ Forward
<1>1. AtInstr /\ mem' = m /\ odd' = odd /\ Onwards
  BY DEF Instruction
<1>2. Last(ip) + 1 \in 1 .. MaxInstr + 1 /\ Frames(ip)
  BY <1>1, HereFact, BoundsAssumption DEF Inv
<1>3. Frames(ip') /\ Last(ip') = Last(ip) + 1
  BY <1>1, <1>2, MovedOn DEF Onwards
<1> QED
  BY <1>1, <1>3 DEF Onwards, Kept, Inv, Safe, Forward

\* Every step keeps the promises of the maps, and is one of three kinds.
LEMMA StepFact ==
    ASSUME Inv, Next
    PROVE  Safe /\ (Idle \/ Forward \/ Counted)
<1> DEFINE Goal == Safe /\ (Idle \/ Forward \/ Counted)
<1>0. MemOK(mem) /\ Sound(mem) /\ Frames(ip) /\ counter \in 0 .. MaxBlocks
  BY DEF Inv
<1>i. \A m : Instruction(m) /\ Kept(mem, m) => Goal
  BY InstructionFact
<1>h. \A m : Instruction(m) => Here \in Hit
  BY HereFact DEF Instruction
<1>a. \A D \in Areas : D \in SUBSET Byte /\ D # {}
  BY AreaFact
<1>f. \A D, S : DOMAIN From(D, S) = D
  BY DEF From
<1>1. ASSUME NEW D \in Areas, Start(D) PROVE Goal
  <2>1. Kept(mem, mem') /\ OnlyOld(mem, mem')
    BY <1>0, <1>1, <1>a, StartedFact DEF Start
  <2> QED
    BY <1>1, <2>1 DEF Start, Kept, Inv, Safe, Idle
<1>2. ASSUME NEW D \in Areas, StartExtend(D) PROVE Goal
  <2>1. /\ MemOK(mem') /\ Sound(mem')
        /\ Agree(mem) /\ D \subseteq HasUpdates(mem) => Agree(mem')
        /\ Pure(mem) => Pure(mem')
        /\ OnlyOld(mem, mem')
    BY <1>0, <1>2, <1>a, StartExtendedFact DEF StartExtend
  <2>2. "mixed" \in odd => "mixed" \in odd'
    BY <1>2 DEF StartExtend
  <2>3. "late" \notin odd' => "late" \notin odd /\ D \subseteq HasUpdates(mem)
    BY <1>2 DEF StartExtend
  <2> QED
    BY <1>2, <2>1, <2>2, <2>3 DEF StartExtend, Inv, Safe, Idle
<1>3. ASSUME NEW D \in Areas, Free(D) PROVE Goal
  BY <1>0, <1>3, <1>a, <1>i, KeptByClear DEF Free
<1>4. ASSUME NEW D \in Areas, NEW S \in Areas, Copy(D, S) \/ Move(D, S) \/ Slice(D, S) PROVE Goal
  <2>1. Kept(mem, Copied(mem, From(D, S)))
    BY <1>0, <1>a, <1>f, KeptByCopy
  <2>2. Here \in Hit => Kept(mem, Sliced(mem, From(D, S)))
    BY <1>0, <1>a, <1>f, KeptBySlice
  <2> QED
    BY <1>4, <2>1, <2>2, <1>h, <1>i DEF Copy, Move, Slice
<1>5. ASSUME NEW D \in Areas, NEW b, Set(D, b) PROVE Goal
  <2>1. Kept(mem, Copied(mem, [d \in D |-> b]))
    BY <1>0, <1>a, KeptByCopy
  <2> QED
    BY <1>5, <2>1, <1>i DEF Set
<1>6. ASSUME NEW D \in Areas, NEW S, NEW comparison, Join(D, S, comparison) PROVE Goal
  <2> DEFINE new == IF IsUpdate(comparison) THEN {Here} ELSE {}
  <2>1. new \in SUBSET Hit /\ new \subseteq {Here}
    BY <1>6, <1>h DEF Join
  <2>2. Kept(mem, Joined(mem, D, S, new))
    BY <1>0, <1>a, <2>1, KeptByJoin
  <2> QED
    BY <1>6, <2>2, <1>i DEF Join
<1>7. ASSUME NEW D \in Areas, NEW S, NEW T, JoinPerByte(D, S, T) PROVE Goal
  <2> DEFINE from == [d \in D |-> {From(D, S)[d], From(D, T)[d]}]
  <2>1. Instruction(JoinedPerByte(mem, from))
    BY <1>7 DEF JoinPerByte
  <2>2. DOMAIN from = D
    OBVIOUS
  <2> HIDE DEF from
  <2>3. Kept(mem, JoinedPerByte(mem, from))
    BY <1>0, <1>a, <1>h, <2>1, <2>2, KeptBySlice
  <2> QED
    BY <2>1, <2>3, <1>i
<1>8. ASSUME NEW D \in Areas, NEW S \in Areas, ExtendSigned(D, S) PROVE Goal
  <2>1. PICK from : DOMAIN from = D /\ Instruction(Copied(mem, from))
    BY <1>8 DEF ExtendSigned
  <2>2. Kept(mem, Copied(mem, from))
    BY <1>0, <1>a, <2>1, KeptByCopy
  <2> QED
    BY <2>1, <2>2, <1>i
<1>9. ASSUME NEW D \in Areas, NEW S \in Areas, Cardinality(S) < Cardinality(D),
             ExtendUnsigned(D, S)
      PROVE  Goal
  <2> DEFINE low == Area(Min(D), Cardinality(S))
             m == Copied(mem, From(low, S))
  <2>1. low \in SUBSET Byte /\ D \ low \in SUBSET Byte
    BY <1>9, <1>a, AreaFact
  <2>2. Instruction(Cleared(m, D \ low))
    BY <1>9 DEF ExtendUnsigned
  <2> HIDE DEF low
  <2>3. Kept(mem, m)
    BY <1>0, <1>f, <2>1, KeptByCopy
  <2> HIDE DEF m
  <2>4. Kept(m, Cleared(m, D \ low))
    BY <2>1, <2>3, KeptByClear DEF Kept
  <2> QED
    BY <2>2, <2>3, <2>4, <1>i, KeptFact
<1>10. ASSUME Jump PROVE Goal
  <2>1. 1 \in 1 .. MaxInstr + 1
    BY BoundsAssumption
  <2>2. Frames(ip')
    BY <1>0, <1>10, <2>1, MovedOn DEF Jump
  <2>3. mem' = mem /\ odd' = odd /\ counter' = counter + 1 /\ counter' \in 0 .. MaxBlocks
        /\ m_is_predicate_update' = m_is_predicate_update
    BY <1>0, <1>10, BoundsAssumption DEF Jump, Count
  <2> QED
    BY <2>2, <2>3 DEF Inv, Safe, Counted, OnlyHere
<1>11. ASSUME NEW D \in Areas, NEW S \in Areas, Call(D, S) PROVE Goal
  <2>1. Frames(ip')
    BY <1>0, <1>11, Entered DEF Call, AtInstr
  <2>2. Kept(mem, mem')
    BY <1>0, <1>a, <1>f, <1>11, KeptByCopy DEF Call
  <2>3. odd' = odd /\ counter' = counter + 1 /\ counter' \in 0 .. MaxBlocks
        /\ m_is_predicate_update' = m_is_predicate_update
    BY <1>0, <1>11, BoundsAssumption DEF Call, Count
  <2> QED
    BY <2>1, <2>2, <2>3 DEF Inv, Safe, Counted, Kept
<1>r. ASSUME NEW m, NEW D \in Areas, Return(m, D)
      PROVE  /\ Here \in Hit /\ Frames(ip')
             /\ counter' = counter + 1 /\ counter' \in 0 .. MaxBlocks
             /\ m_is_predicate_update' = m_is_predicate_update
             /\ mem' = Cleared(m, D)
  <2>1. Frames(Front(ip)) /\ Last(Front(ip)) + 1 \in 1 .. MaxInstr + 1
    BY <1>0, <1>r, Popped, BoundsAssumption DEF Return
  <2>2. Frames(ip')
    BY <1>r, <2>1, MovedOn DEF Return
  <2> QED
    BY <1>0, <1>r, <2>2, HereFact, BoundsAssumption DEF Return, Count
<1>k. ASSUME NEW m, NEW D \in Areas, Return(m, D), Kept(mem, m), odd' = odd PROVE Goal
  <2>1. Kept(m, mem')
    BY <1>a, <1>k, <1>r, KeptByClear DEF Kept
  <2>2. Kept(mem, mem')
    BY <1>k, <2>1, KeptFact
  <2> QED
    BY <1>k, <1>r, <2>2 DEF Inv, Safe, Counted, Kept
<1>12. ASSUME NEW D \in Areas, Ret(D) PROVE Goal
  <2>1. Kept(mem, mem)
    BY <1>0 DEF Kept, OnlyHere
  <2> QED
    BY <1>12, <1>k, <2>1 DEF Ret
<1>13. ASSUME NEW D \in Areas, NEW P \in Areas, RetExtern(D, P) PROVE Goal
  <2>1. Return(Joined(mem, D, P, {Here}), P) /\ odd' = odd
    BY <1>13 DEF RetExtern
  <2>2. Kept(mem, Joined(mem, D, P, {Here}))
    BY <1>0, <1>a, <1>r, <2>1, KeptByJoin
  <2> QED
    BY <1>k, <2>1, <2>2
<1>14. ASSUME NEW D \in Areas, NEW P \in Areas, RetGetopt(D, P) PROVE Goal
  <2> DEFINE m == JoinExtended(mem, D, P)
             apart == \/ P \cap HasUpdates(mem) = {}
                      \/ \A o \in mem.objects : o.bytes \cap D = {} \/ o.bytes \subseteq D
  <2>1. Return(m, P) /\ (P \cap HasUpdates(mem) # {} => D \subseteq HasUpdates(mem))
    BY <1>14 DEF RetGetopt
  <2>2. /\ "late" \notin odd' => "late" \notin odd
        /\ "mixed" \notin odd' => "mixed" \notin odd /\ apart
    BY <1>14 DEF RetGetopt
  <2> HIDE DEF m
  <2>3. Here \in Hit
    BY <1>r, <2>1
  <2>4. /\ MemOK(m) /\ Sound(m)
        /\ Agree(mem) => Agree(m)
        /\ apart => (Pure(mem) => Pure(m))
        /\ OnlyHere(mem, m)
    BY <1>0, <1>a, <2>1, <2>3, JoinExtendedFact DEF m
  <2>5. mem' = Cleared(m, P) /\ Kept(m, mem')
    BY <1>a, <1>r, <2>1, <2>4, KeptByClear
  <2>6. OnlyHere(mem, mem')
    BY <2>4, <2>5 DEF Kept, OnlyHere
  <2> HIDE DEF apart
  <2> QED
    BY <1>r, <2>1, <2>2, <2>4, <2>5, <2>6 DEF Inv, Safe, Counted, Kept
<1>15. ASSUME NEW D, NEW P, CrashInGetopt(D, P) PROVE Goal
  <2>1. mem' = mem /\ ip' = ip /\ counter' = counter /\ odd \subseteq odd'
        /\ m_is_predicate_update' = m_is_predicate_update
    BY <1>15 DEF CrashInGetopt
  <2> QED
    BY <2>1 DEF Inv, Safe, Idle, OnlyOld
<1>16. CASE \E D \in Areas : Start(D) \/ StartExtend(D) \/ Free(D)
  BY <1>1, <1>2, <1>3, <1>16
<1>17. CASE \E D, S \in Areas : Same(D, S) /\ (Copy(D, S) \/ Move(D, S) \/ Slice(D, S))
  BY <1>4, <1>17
<1>18. CASE \E D, S \in Areas :
                /\ Cardinality(S) < Cardinality(D)
                /\ ExtendSigned(D, S) \/ ExtendUnsigned(D, S)
  BY <1>8, <1>9, <1>18
<1>19. CASE \E D, P \in Areas : RetExtern(D, P) \/ RetGetopt(D, P) \/ CrashInGetopt(D, P)
  BY <1>13, <1>14, <1>15, <1>19
<1>20. CASE \E D \in Areas, S \in {S \cup T : S, T \in Areas}, comparison \in BOOLEAN :
               Join(D, S, comparison)
  BY <1>6, <1>20
<1>21. CASE \/ \E D \in Areas, b \in Byte : Set(D, b)
            \/ \E D, S, T \in Areas : Same(D, S) /\ Same(D, T) /\ JoinPerByte(D, S, T)
            \/ Jump
            \/ \E D, S \in Areas : Same(D, S) /\ Call(D, S)
            \/ \E D \in Areas : Ret(D)
  BY <1>5, <1>7, <1>10, <1>11, <1>12, <1>21
<1> QED
  BY <1>16, <1>17, <1>18, <1>19, <1>20, <1>21 DEF Next

\* Hits stay fresh.
LEMMA FreshFact ==
    ASSUME Inv, MemOK(mem'), Idle \/ Forward \/ Counted
    PROVE  HitsAreFresh'
<1>1. \A o \in mem.objects : \A h \in o.hits : h \in Hit
  BY ObjectFact DEF Inv, MemOK
<1>2. Last(ip) \in Int /\ counter \in Int
  <2>1. Last(ip) \in 1 .. MaxInstr + 1 /\ counter \in 0 .. MaxBlocks
    BY PopFact DEF Inv, Frames
  <2> QED
    BY <2>1
<1>3. Here[1] = Last(ip) /\ Here[2] = counter
  BY DEF Here
<1>4. CASE Idle
  BY <1>4 DEF Inv, Idle, OnlyOld, HitsAreFresh
<1>5. CASE Forward
  <2> SUFFICES ASSUME NEW o \in mem'.objects, NEW h \in o.hits
               PROVE  h[2] < counter' \/ (h[2] = counter' /\ h[1] < Last(ip'))
    BY DEF HitsAreFresh
  <2>1. CASE h = Here
    BY <1>2, <1>3, <1>5, <2>1 DEF Forward
  <2>2. CASE \E p \in mem.objects : h \in p.hits
    <3>1. h[2] < counter \/ (h[2] = counter /\ h[1] < Last(ip))
      BY <2>2 DEF Inv, HitsAreFresh
    <3>2. h[1] \in Int /\ h[2] \in Int
      BY <1>1, <2>2 DEF Hit
    <3> QED
      BY <1>2, <1>5, <3>1, <3>2 DEF Forward
  <2> QED
    BY <1>5, <2>1, <2>2 DEF Forward, OnlyHere
<1>6. CASE Counted
  <2> SUFFICES ASSUME NEW o \in mem'.objects, NEW h \in o.hits
               PROVE  h[2] < counter' \/ (h[2] = counter' /\ h[1] < Last(ip'))
    BY DEF HitsAreFresh
  <2>1. CASE h = Here
    BY <1>2, <1>3, <1>6, <2>1 DEF Counted
  <2>2. CASE \E p \in mem.objects : h \in p.hits
    <3>1. h[2] < counter \/ (h[2] = counter /\ h[1] < Last(ip))
      BY <2>2 DEF Inv, HitsAreFresh
    <3>2. h[1] \in Int /\ h[2] \in Int
      BY <1>1, <2>2 DEF Hit
    <3> QED
      BY <1>2, <1>6, <3>1, <3>2 DEF Counted
  <2> QED
    BY <1>6, <2>1, <2>2 DEF Counted, OnlyHere
<1> QED
  BY <1>4, <1>5, <1>6

----------------------------------------------------------------------------
(* The properties.                                                          *)

\* At the start the maps are empty.
LEMMA InitInv == Init => Inv
<1> SUFFICES ASSUME Init PROVE Inv
  OBVIOUS
<1>1. /\ mem.flow = {} /\ mem.objects = {} /\ DOMAIN mem.past = {}
      /\ mem = [flow |-> mem.flow, objects |-> mem.objects, past |-> mem.past]
  BY DEF Init
<1>2. MemOK(mem) /\ Sound(mem) /\ Agree(mem) /\ Pure(mem) /\ HitsAreFresh
  BY <1>1 DEF MemOK, Sound, Agree, Pure, HitsAreFresh, Has, Knows
<1>3. Frames(ip)
  <2>1. 1 \in 1 .. MaxInstr + 1 /\ ip = <<1>>
    BY BoundsAssumption DEF Init
  <2>2. ip \in Seq(1 .. MaxInstr + 1) /\ Len(ip) = 1
    BY <2>1
  <2> QED
    BY <2>1, <2>2 DEF Frames
<1>4. counter \in 0 .. MaxBlocks
  BY BoundsAssumption DEF Init
<1> QED
  BY <1>2, <1>3, <1>4 DEF Init, Inv

LEMMA NextInv == Inv /\ [Next]_vars => Inv'
<1> SUFFICES ASSUME Inv, [Next]_vars PROVE Inv'
  OBVIOUS
<1>1. CASE Next
  <2>1. Safe /\ (Idle \/ Forward \/ Counted)
    BY <1>1, StepFact
  <2>2. HitsAreFresh'
    BY <2>1, FreshFact DEF Safe
  <2>3. Frames(ip') /\ counter' \in 0 .. MaxBlocks
    BY <2>1 DEF Inv, Idle, Forward, Counted
  <2> QED
    BY <2>1, <2>2, <2>3 DEF Inv, Safe
<1>2. CASE UNCHANGED vars
  BY <1>2 DEF Inv, vars, HitsAreFresh
<1> QED
  BY <1>1, <1>2

\* Whatever areas are written, shared and merged in whatever order, the types
\* are right and the promises of the maps hold together.
THEOREM InvHolds == Spec => []Inv
<1> QED
  BY InitInv, NextInv, PTL DEF Spec

\* Updates are kept exactly for the bytes that an input flowed into by start(),
\* in every operation of InputFlowWithUpdates.
THEOREM UpdatesFollow == Spec => []UpdatesFollowFlow
<1>1. Inv => UpdatesFollowFlow
  <2> SUFFICES ASSUME Inv PROVE UpdatesFollowFlow
    OBVIOUS
  <2>1. \A b : b \in HasUpdates(mem) <=> Has(mem.objects, b)
    BY RecordedFact
  <2>2. HasUpdates(mem) = DOMAIN mem.past /\ HasUpdates(mem) \subseteq mem.flow
    BY <2>1 DEF Inv, Sound
  <2>3. "late" \notin odd => mem.flow = HasUpdates(mem)
    BY <2>1, <2>2 DEF Inv, Agree
  <2> QED
    BY <2>2, <2>3 DEF UpdatesFollowFlow
<1> QED
  BY <1>1, InvHolds, PTL

\* No operation loses an update of a tracked value, whatever copies share its
\* map.
THEOREM NoUpdateIsLost == Spec => []NoUpdateLost
<1>1. Inv => NoUpdateLost
  BY RecordedFact DEF Inv, Sound, NoUpdateLost
<1> QED
  BY <1>1, InvHolds, PTL

\* No operation records an update for a value that it did not update, as long
\* as getopt merges into no map that other bytes share.
THEOREM NoUpdateIsForeign == Spec => []NoForeignUpdate
<1>1. Inv => NoForeignUpdate
  BY RecordedFact DEF Inv, Pure, NoForeignUpdate
<1> QED
  BY <1>1, InvHolds, PTL

\* An instruction that is to run was never recorded with the current number of
\* blocks: on_basic_block_changed() tells its executions apart.
THEOREM FreshHits == Spec => []HitsAreFresh
<1>1. Inv => HitsAreFresh
  BY DEF Inv
<1> QED
  BY <1>1, InvHolds, PTL

==============================================================================
