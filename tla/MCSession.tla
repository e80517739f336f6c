----------------------------- MODULE MCSession -----------------------------
(* Session on small instances: Connect calls to one address or the empty one, *)
(* one or two sends and a Close.                                              *)
EXTENDS Session, TLC

CONSTANTS d1, d2, s1, s2, c1, m1

MCDials == {d1, d2}
MCSends == {s1, s2}
OneSend == {s1}
OneDial == {d1}
MCCloses == {c1}
MCMACs == {m1}

Symmetry == Permutations(MCDials) \cup Permutations(MCSends)
=============================================================================
