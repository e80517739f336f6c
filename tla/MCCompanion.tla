----------------------------- MODULE MCCompanion ----------------------------
(* Companion in two instances: requests across changes of the link, and two   *)
(* searches against Disconnect and a ticker that a full queue refuses.        *)
EXTENDS Companion

CONSTANTS s1, c1, d1, f1, f2, m1, m2

MCTarget == [c \in Connects |-> m1]
MCWindow == Sets \cup Finds
=============================================================================
