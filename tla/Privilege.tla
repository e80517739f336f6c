------------------------------ MODULE Privilege -----------------------------
(***************************************************************************)
(* What may come of a command on the RFCOMM node: run with the rights of   *)
(* the caller, by sudo (internal/bt/bt.go) or by the polkit helper         *)
(* (internal/bt/privilege.go, cmd/nothing_helper_rfcomm_helper).  Each     *)
(* operator is the set of the outcomes of one call: whether it reports     *)
(* success, the node afterwards and what is known of the sudo ticket.      *)
(***************************************************************************)
CONSTANTS
  Mode,       \* --privilege-helper
  NoNode

ASSUME PrivilegeAssumption == Mode \in {"none", "polkit", "sudo", "auto"}

Outcome(ok, node, sudo) == [ok |-> ok, node |-> node, sudo |-> sudo]
Owned(node) == [node EXCEPT !.access = TRUE]

-----------------------------------------------------------------------------
(* The helper.  It binds, waits for the node and gives it to the caller; when *)
(* the last part fails the node stays bound.                                  *)

runBind(node, new, sudo) ==
  IF node = NoNode
  THEN {Outcome(TRUE, Owned(new), sudo), Outcome(FALSE, new, sudo), Outcome(FALSE, node, sudo)}
  ELSE {Outcome(FALSE, node, sudo)}

\* "can't release" is a success, whatever the reason the tool gives for it.
runRelease(node, sudo) ==
  {Outcome(TRUE, NoNode, sudo), Outcome(TRUE, node, sudo), Outcome(FALSE, node, sudo)}

runFixPerms(node, sudo) ==
  IF node = NoNode
  THEN {Outcome(FALSE, node, sudo)}
  ELSE {Outcome(TRUE, Owned(node), sudo), Outcome(FALSE, node, sudo)}

\* There may be no helper, and polkit may refuse to run it.
execPolkit(node, sudo, outcomes) == {Outcome(FALSE, node, sudo)} \cup outcomes

-----------------------------------------------------------------------------
(* sudo.  The password is asked for until it was given once, and the call      *)
(* waits for the user without a limit; from then on only the ticket counts,   *)
(* and nothing notices that it has expired.                                   *)

WarmupPrivileges == \* what is known of the ticket when the program starts
  {[used |-> ok, fresh |-> ok] : ok \in IF Mode = "sudo" THEN BOOLEAN ELSE {FALSE}}

asksPassword(sudo) == Mode \in {"sudo", "auto"} /\ ~sudo.used
ticketExpired(sudo) == sudo.used /\ ~sudo.fresh

\* Whether sudo runs the command, when there is an answer at all.
buildSudoCommand(sudo) ==
  IF sudo.used THEN {sudo.fresh} ELSE BOOLEAN

execSudo(node, done, sudo) ==
  {IF granted THEN Outcome(TRUE, done, [used |-> TRUE, fresh |-> TRUE])
              ELSE Outcome(FALSE, node, sudo) : granted \in buildSudoCommand(sudo)}

sudoRFCCOMMBind(node, new, sudo) ==
  IF node = NoNode THEN execSudo(node, new, sudo) ELSE {Outcome(FALSE, node, sudo)}
sudoRFCCOMMRelease(node, sudo) == execSudo(node, NoNode, sudo)
sudoDeviceAccess(node, sudo) ==
  IF node = NoNode THEN {Outcome(FALSE, node, sudo)} ELSE execSudo(node, Owned(node), sudo)

-----------------------------------------------------------------------------

\* sudoFn gives the outcomes of sudo on each node that the helper may leave.
privilegeAutoFallback(polkit, sudoFn) ==
  {r \in polkit : r.ok} \cup UNION {sudoFn[r.node] : r \in {q \in polkit : ~q.ok}}

withPrivilegeFallback(node, sudo, polkit, sudoFn) ==
  CASE Mode = "none"   -> {Outcome(FALSE, node, sudo)}
    [] Mode = "polkit" -> polkit
    [] Mode = "sudo"   -> sudoFn[node]
    [] Mode = "auto"   -> privilegeAutoFallback(polkit, sudoFn)

privilegedRFCCOMMBind(node, new, sudo) ==
  withPrivilegeFallback(node, sudo, execPolkit(node, sudo, runBind(node, new, sudo)),
                        [n \in {node, Owned(new), new} |-> sudoRFCCOMMBind(n, new, sudo)])
privilegedRFCOMMRelease(node, sudo) ==
  withPrivilegeFallback(node, sudo, execPolkit(node, sudo, runRelease(node, sudo)),
                        [n \in {node} |-> sudoRFCCOMMRelease(n, sudo)])
privilegedEnsureRFCOMMAccess(node, sudo) ==
  withPrivilegeFallback(node, sudo, execPolkit(node, sudo, runFixPerms(node, sudo)),
                        [n \in {node} |-> sudoDeviceAccess(n, sudo)])

-----------------------------------------------------------------------------
(* The calls of internal/bt: the caller's own rights first. *)

\* The node may also come late, when the caller no longer waits for it.
BindRFCOMMDevice(node, new, sudo) ==
  privilegedRFCCOMMBind(node, new, sudo) \cup
  (IF node = NoNode
   THEN {Outcome(TRUE, new, sudo)} \cup privilegedRFCCOMMBind(new, new, sudo)
   ELSE {})

releaseRFCOMMNumber(node, sudo) ==
  IF node = NoNode
  THEN {Outcome(TRUE, NoNode, sudo)}
  ELSE {Outcome(TRUE, n, sudo) : n \in {NoNode, node}} \cup privilegedRFCOMMRelease(node, sudo)
=============================================================================
