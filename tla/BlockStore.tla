------------------------------ MODULE BlockStore ------------------------------
(****************************************************************************)
(* What the pointer model of 32-bit programs promises to those who build    *)
(* memory blocks: a store of at most Capacity blocks and the count of their *)
(* bytes.  A block is refused only when the store is full, and a refused    *)
(* block stays counted.                                                     *)
(****************************************************************************)
EXTENDS Integers, FiniteSets

CONSTANTS Capacity, Addr, Sizes

VARIABLES
    live,      \* host address -> size of the blocks that exist
    counted,   \* bytes counted as allocated
    lost       \* bytes counted for refused blocks

vars == <<live, counted, lost>>

Init == DOMAIN live = {} /\ counted = 0 /\ lost = 0

Alloc(b, n) ==
    /\ b \notin DOMAIN live
    /\ Cardinality(DOMAIN live) < Capacity
    /\ live' = [x \in DOMAIN live \cup {b} |-> IF x = b THEN n ELSE live[x]]
    /\ counted' = counted + n
    /\ UNCHANGED lost

Refuse(n) ==
    /\ Cardinality(DOMAIN live) = Capacity
    /\ counted' = counted + n /\ lost' = lost + n
    /\ UNCHANGED live

Free(b) ==
    /\ b \in DOMAIN live
    /\ live' = [x \in DOMAIN live \ {b} |-> live[x]]
    /\ counted' = counted - live[b]
    /\ UNCHANGED lost

Next ==
    \/ \E b \in Addr, n \in Sizes : Alloc(b, n)
    \/ \E n \in Sizes : Refuse(n)
    \/ \E b \in Addr : Free(b)

Spec == Init /\ [][Next]_vars
==============================================================================
