----------------------------- MODULE MCEventBus -----------------------------
(* EventBus with four events, two of them priority ones, for one listener:   *)
(* listeners share nothing but the order in which a call serves them.        *)
EXTENDS EventBus

CONSTANTS p1, p2, p3, p4, l1

MCPublishes == {p1, p2, p3, p4}
MCPriority == {p1, p2}
MCListeners == {l1}
=============================================================================
