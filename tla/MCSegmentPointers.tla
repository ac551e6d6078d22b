------------------------- MODULE MCSegmentPointers -------------------------
(* A small address space for the pointer model.                             *)
EXTENDS SegmentPointers

MCShifts == {-1, 1}
=============================================================================
