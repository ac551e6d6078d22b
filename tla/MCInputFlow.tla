----------------------------- MODULE MCInputFlow ------------------------------
(* Three places, one of them static; blocks at y have two bytes.              *)
EXTENDS InputFlow

CONSTANTS g, x, y

MCSize == [s \in Slot |-> IF s = y THEN 2 ELSE 1]
==============================================================================
