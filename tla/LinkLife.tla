----------------------------- MODULE LinkLife -----------------------------
(***************************************************************************)
(* What the session promises about links, without goroutines or mutexes:   *)
(* at most one link is current, a link is current at most once in its      *)
(* life, each one is announced once, and a link that was torn down (not    *)
(* one that was replaced) is reported as disconnected exactly once.        *)
(***************************************************************************)

CONSTANTS Links, None

VARIABLES
  link,   \* the current link, or None
  used,   \* the links that have been established
  owing,  \* the links torn down and not yet reported
  up,     \* the links announced
  down    \* the links reported as disconnected

vars == <<link, used, owing, up, down>>

Init == link = None /\ used = {} /\ owing = {} /\ up = {} /\ down = {}

\* A new link takes the place of none, or of the current one without a report.
Establish(l) ==
  /\ l \notin used
  /\ link' = l
  /\ used' = used \cup {l}
  /\ UNCHANGED <<owing, up, down>>

Drop ==
  /\ link # None
  /\ link' = None
  /\ owing' = owing \cup {link}
  /\ UNCHANGED <<used, up, down>>

AnnounceUp(l) ==
  /\ l \in used \ up
  /\ up' = up \cup {l}
  /\ UNCHANGED <<link, used, owing, down>>

ReportDown(l) ==
  /\ l \in owing
  /\ owing' = owing \ {l}
  /\ down' = down \cup {l}
  /\ UNCHANGED <<link, used, up>>

Next == Drop \/ \E l \in Links : Establish(l) \/ AnnounceUp(l) \/ ReportDown(l)

Spec == Init /\ [][Next]_vars
=============================================================================
