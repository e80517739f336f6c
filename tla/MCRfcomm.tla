------------------------------ MODULE MCRfcomm ------------------------------
(* Rfcomm with two earbuds on different channels. *)
EXTENDS Rfcomm, TLC

CONSTANTS m1, m2

MCServes == m1 :> 1 @@ m2 :> 2
MCSPP == {m1}
MCLegacy == [mac |-> m2, channel |-> m1 :> 3 @@ m2 :> 1]
=============================================================================
