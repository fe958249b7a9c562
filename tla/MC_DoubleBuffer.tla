--------------------------- MODULE MC_DoubleBuffer ---------------------------
(* DoubleBuffer for TLC with three frames as model values.                 *)
EXTENDS DoubleBuffer

CONSTANTS f1, f2, f3, f4

=============================================================================
