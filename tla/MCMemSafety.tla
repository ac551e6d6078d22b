----------------------------- MODULE MCMemSafety ------------------------------
(* Small address spaces for the Sanitizer.                                    *)
EXTENDS MemSafety

MCStatics == [x \in {1} |-> 1]
MCProbes == 0 .. 12
==============================================================================
