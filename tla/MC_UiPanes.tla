----------------------------- MODULE MC_UiPanes -----------------------------
(* Small instances of UiPanes for TLC: model values for names and canvas   *)
(* addresses, and the symmetry among them that the model cannot tell apart.*)
EXTENDS UiPanes, TLC

CONSTANTS r, a, b, d, c1, c2, c3

(* The client names other than "root" play interchangeable roles, and so   *)
(* do the addresses malloc returns.                                        *)
Symmetry == Permutations({a, b, d}) \cup Permutations({c1, c2, c3})

=============================================================================
