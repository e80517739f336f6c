------------------------------- MODULE MCFind -------------------------------
(* Find on small instances: two searches, one or two Closes and two          *)
(* connections; every timer of the code is one or two ticks.                 *)
EXTENDS Find, TLC

CONSTANTS f1, f2, c1, d1, d2

MCFinds == {f1, f2}
OneFind == {f1}
MCCloses == {c1}
MCDials == {d1, d2}
OneDial == {d1}

Symmetry == Permutations(MCFinds) \cup Permutations(MCDials)
=============================================================================
