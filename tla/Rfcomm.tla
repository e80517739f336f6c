------------------------------- MODULE Rfcomm -------------------------------
(***************************************************************************)
(* One attempt to connect, from connect.Manager down to /dev/rfcommN       *)
(* (internal/connect, internal/bt, cmd/nothing_helper_rfcomm_helper).      *)
(* SwitchTo names its earbuds; ConnectBest uses the node and the saved     *)
(* address that are there, or discovers earbuds and rebinds.  Both bind    *)
(* and open channel after channel, with privileges that may be refused.    *)
(* Only the worker of the companion window calls them, one at a time; what *)
(* else moves is the earbuds, the node, the sudo ticket, and the program   *)
(* itself, which may die between any two steps.                            *)
(***************************************************************************)
EXTENDS DeviceConfig, Privilege

CONSTANTS
  Serves,     \* the channel that each of the earbuds answers on
  SPP,        \* the earbuds whose Bluetooth record names the service
  NoLink,
  MaxEvents   \* bounds what happens around the worker

Node == [mac : Devices, ch : Channels, access : BOOLEAN]
Link == [asked : Devices, peer : Devices, via : {"existing", "bind"}, bound : BOOLEAN]

ASSUME RfcommAssumption ==
  /\ Serves \in [Devices -> Channels] /\ SPP \subseteq Devices
  /\ NoNode \notin Node /\ NoLink \notin Link
  /\ MaxEvents \in Nat

VARIABLES
  node,     \* what the kernel has bound to the path
  link,     \* the session's link: the earbuds it shows and those it reaches
  radio,    \* whether each of the earbuds is off, on, or on and an audio sink
  sudo,     \* sudoTicketValid, and whether the ticket still is
  op,       \* the attempt in progress
  events,   \* what happened around the worker, counted up to MaxEvents
  promised, \* history: what the callers of Bind and Remember were told of the file
  cause     \* history: the attempt met a reason of its own to fail

config == <<file, cache>>
outside == <<node, link, radio>>
history == <<promised, cause>>
vars == <<file, cache, node, link, radio, sudo, op, events, promised, cause>>

Steps == {"idle", "exists", "ready", "discover", "free", "bind", "access", "again", "fix",
          "verify", "saveChannel", "saveMAC", "connect", "open", "release", "revive"}
Op ==
  [kind : {"best", "switch"}, pc : Steps,
   mode : {"bind", "open"},       \* the loop over channels it is in
   via : {"existing", "bind"},    \* how it came to its node
   dev : Devices \cup {NoDevice}, ch : {0} \cup Channels, tried : SUBSET Channels]
Idle == [kind |-> "best", pc |-> "idle", mode |-> "bind", via |-> "bind",
         dev |-> NoDevice, ch |-> 0, tried |-> {}]

\* Of the node that was bound last: Bind returned for its earbuds, its channel was saved,
\* a release left it in place.  The channels that the file may hold: the last one saved,
\* or asked for since.
Promised == [mac : BOOLEAN, channel : BOOLEAN, kept : BOOLEAN,
             saved : [Devices -> SUBSET ({0} \cup Channels)]]

TypeOK ==
  /\ file \in FileEntry \cup {Absent, Damaged}
  /\ cache \in Saved \cup {NotLoaded, LoadError}
  /\ node \in Node \cup {NoNode} /\ link \in Link \cup {NoLink}
  /\ radio \in [Devices -> {"off", "on", "sink"}]
  /\ sudo \in [used : BOOLEAN, fresh : BOOLEAN]
  /\ op \in Op /\ events \in 0..MaxEvents
  /\ promised \in Promised /\ cause \in BOOLEAN

Init ==
  /\ file \in {Absent} \cup
       {[mac |-> m, channel |-> [d \in Devices |-> 0]] : m \in Devices \cup {Malformed}}
  /\ cache = NotLoaded
  /\ node = NoNode /\ link = NoLink
  /\ radio = [d \in Devices |-> "sink"]
  /\ sudo \in WarmupPrivileges
  /\ op = Idle /\ events = 0
  /\ promised = [mac |-> FALSE, channel |-> FALSE, kept |-> FALSE,
                 saved |-> [d \in Devices |-> {loadConfigFromDisk.channel[d]}]]
  /\ cause = FALSE

-----------------------------------------------------------------------------
(* What the steps are made of. *)

At(pc) == op.pc = pc
Event == events < MaxEvents /\ events' = events + 1
Go(pc) == op' = [op EXCEPT !.pc = pc]
Fail == op' = Idle
Blame == cause' = TRUE

\* The earbuds that the node is bound to answer on its channel.
Carrier == node # NoNode /\ radio[node.mac] # "off" /\ Serves[node.mac] = node.ch

\* EnsureRFCOMMDeviceAccess opens the node without a limit, before anything else.
Parked == op.pc \in {"access", "again", "fix"} /\ node # NoNode /\ node.access /\ ~Carrier

\* What earlier attempts may leave behind and the code does not mend: a file that cannot
\* be read, a node that is not released, a ticket taken for valid, a channel (saved, or
\* the default) that earbuds in reach do not answer on.
LeftBehind ==
  \/ At("saveMAC") /\ LoadConfig = LoadError
  \/ op.pc \in {"bind", "revive"} /\ node # NoNode
  \/ op.pc \in {"bind", "access", "again", "fix"} /\ ticketExpired(sudo)
  \/ Parked /\ radio[node.mac] # "off"
Denied == cause' = (cause \/ ~LeftBehind)

\* ReleaseRFCOMMDevice: whether it reports success, it may leave the node in place.
ReleaseRFCOMMDevice(ok) ==
  \E r \in releaseRFCOMMNumber(node, sudo) :
    /\ r.ok = ok /\ node' = r.node /\ sudo' = r.sudo
    /\ promised' = [promised EXCEPT !.kept = r.node # NoNode]

\* channelCandidates: the preferred channel came first, then the default, then the others.
NextChannel ==
  LET left == Channels \ op.tried
  IN  IF DefaultChannel \in left THEN DefaultChannel
      ELSE CHOOSE c \in left : \A d \in left : c <= d

StartLoop(mode) ==
  LET first == ResolveDeviceChannel(op.dev)
  IN  op' = [op EXCEPT !.mode = mode, !.pc = mode, !.ch = first, !.tried = {first}]

\* ConnectBest goes on to discover when the saved earbuds do not open.
GiveUp ==
  IF op.kind = "best" /\ op.mode = "open" /\ op.via = "existing"
  THEN Go("discover")
  ELSE Fail

NextAttemptMutant ==
  IF op.tried = Channels
  THEN GiveUp
  ELSE op' = [op EXCEPT !.ch = NextChannel, !.pc = "release"]
NextAttempt ==
  IF op.tried = Channels
  THEN GiveUp
  ELSE op' = [op EXCEPT !.ch = NextChannel, !.tried = @ \cup {NextChannel}, !.pc = "release"]

-----------------------------------------------------------------------------
(* The calls of the worker. *)

SwitchTo(d) ==
  /\ At("idle")
  /\ link # NoLink => link.asked # d
  /\ link' = NoLink
  /\ op' = [Idle EXCEPT !.kind = "switch", !.pc = "free", !.dev = d]
  /\ cause' = FALSE
  /\ UNCHANGED <<config, node, radio, events, sudo, promised>>

ConnectBest ==
  /\ At("idle")
  /\ op' = [Idle EXCEPT !.pc = "exists"]
  /\ cause' = FALSE
  /\ UNCHANGED <<config, outside, events, sudo, promised>>

Exists ==
  /\ At("exists")
  /\ IF node = NoNode
     THEN Go("discover") /\ UNCHANGED config
     ELSE /\ Load
          /\ op' = [op EXCEPT !.dev = LookupDeviceMAC,
                              !.pc = IF LookupDeviceMAC = NoDevice THEN "discover" ELSE "ready"]
  /\ UNCHANGED <<outside, events, sudo, history>>

\* Earbuds that are no audio sink are not waited for if the sinks cannot be listed.
HasBluetoothOutputForMAC(d) == {TRUE, radio[d] = "sink"}
requireRFCOMMReady(d) ==
  {"error"} \cup
  (IF radio[d] = "off" THEN {"waiting for bluetooth"}
   ELSE {IF has THEN "ready" ELSE "waiting for audio" : has \in HasBluetoothOutputForMAC(d)})

\* The saved earbuds: wait until they are a sink, else rescan.
ReadyMutant ==
  /\ At("ready")
  /\ \E r \in requireRFCOMMReady(op.dev) :
       CASE r = "ready" ->
              op' = [op EXCEPT !.via = "existing", !.pc = "connect"] /\ UNCHANGED cause
         [] r = "waiting for audio" -> Fail /\ Blame
         [] r = "waiting for bluetooth" -> Fail /\ UNCHANGED cause
         [] OTHER -> Go("discover") /\ UNCHANGED cause
  /\ UNCHANGED <<config, outside, events, sudo, promised>>
Ready ==
  /\ At("ready")
  /\ \E r \in requireRFCOMMReady(op.dev) :
       CASE r = "ready" ->
              op' = [op EXCEPT !.via = "existing", !.pc = "connect"] /\ UNCHANGED cause
         [] r = "waiting for audio" -> Fail /\ Blame
         [] OTHER -> Go("discover") /\ UNCHANGED cause
  /\ UNCHANGED <<config, outside, events, sudo, promised>>

\* The connected ones among what bluetoothctl lists.
Discovered == {d \in Devices : radio[d] # "off"}

\* Earbuds with the service come before others.
BestConnectedCandidate(connected) ==
  IF connected \cap SPP # {} THEN connected \cap SPP ELSE connected

\* discoverBestDevice: any failed query ends the attempt.
Discover ==
  /\ At("discover")
  /\ \/ \E d \in BestConnectedCandidate(Discovered) :
          /\ "ready" \in requireRFCOMMReady(d)
          /\ op' = [op EXCEPT !.dev = d, !.via = "bind", !.pc = "free"] /\ UNCHANGED cause
     \/ Fail /\ Blame
  /\ UNCHANGED <<config, outside, events, sudo, promised>>

\* Whether the node is freed or not, Bind begins.
Free ==
  /\ At("free")
  /\ \E ok \in BOOLEAN : ReleaseRFCOMMDevice(ok)
  /\ Load /\ StartLoop("bind")
  /\ UNCHANGED <<link, radio, events, cause>>

-----------------------------------------------------------------------------
(* One channel. *)

Release ==
  /\ At("release")
  /\ \E ok \in BOOLEAN : ReleaseRFCOMMDevice(ok)
  /\ Go(op.mode)
  /\ UNCHANGED <<config, link, radio, events, cause>>

\* BindRFCOMMDevice.  A path that is bound cannot be bound again.
Bind ==
  /\ At("bind")
  /\ \E access \in BOOLEAN :
       \E r \in BindRFCOMMDevice(node, [mac |-> op.dev, ch |-> op.ch, access |-> access], sudo) :
         /\ node' = r.node /\ sudo' = r.sudo
         /\ IF r.ok
            THEN Go("access") /\ UNCHANGED cause
            ELSE NextAttempt /\ Denied
         /\ promised' = IF r.node = node THEN promised
                        ELSE [promised EXCEPT !.mac = @ /\ op.mode = "open",
                                              !.channel = FALSE, !.kept = FALSE]
  /\ UNCHANGED <<config, link, radio, events>>

\* EnsureRFCOMMDeviceAccess: a plain open of the node, which waits for the earbuds until
\* the kernel gives up.  What it cannot fix is an error of permission that ends the loop,
\* but for the second time in a revive, which looks like any error of a revive.
NoAccess == (IF At("again") THEN NextAttempt ELSE GiveUp) /\ Denied
Access ==
  /\ op.pc \in {"access", "again", "fix"}
  /\ IF node # NoNode /\ node.access
     THEN /\ Carrier /\ UNCHANGED <<node, sudo, cause>>
          /\ Go(IF At("access") /\ op.mode = "open" THEN "again" ELSE "verify")
     ELSE \E r \in privilegedEnsureRFCOMMAccess(node, sudo) :
            /\ node' = r.node /\ sudo' = r.sudo
            /\ IF r.ok THEN UNCHANGED <<op, cause>> ELSE NoAccess
  /\ UNCHANGED <<config, link, radio, events, promised>>

Unpark ==
  /\ Parked
  /\ NoAccess
  /\ UNCHANGED <<config, outside, events, sudo, promised>>

\* openFileWithTimeout after a bind: the earbuds must answer in time.
Verify ==
  /\ At("verify")
  /\ IF Carrier
     THEN Go("saveChannel") /\ UNCHANGED cause
     ELSE NextAttempt /\ cause' = (cause \/ radio[op.dev] = "off")
  /\ UNCHANGED <<config, outside, events, sudo, promised>>

\* openRFCOMMOnChannel: the node as it is, whatever it is bound to.
Open ==
  /\ At("open")
  /\ Go(CASE node # NoNode /\ ~node.access -> "fix"
          [] Carrier -> "saveChannel"
          [] OTHER -> "revive")
  /\ UNCHANGED <<config, outside, events, sudo, history>>

Revive ==
  /\ At("revive")
  /\ \/ ReleaseRFCOMMDevice(TRUE) /\ Go("bind")
     \/ ReleaseRFCOMMDevice(FALSE) /\ NextAttempt
  /\ UNCHANGED <<config, link, radio, events, cause>>

\* The session takes the opened node.
Opened ==
  /\ op' = Idle
  /\ link' = IF node = NoNode THEN NoLink
             ELSE [asked |-> op.dev, peer |-> node.mac, via |-> op.via, bound |-> promised.mac]

\* RememberDeviceChannel, whose error is ignored.
SaveChannel ==
  /\ At("saveChannel")
  /\ IF LoadConfig = LoadError
     THEN Load /\ UNCHANGED <<promised, events>>
     ELSE LET cfg == withChannel(LoadConfig, op.dev, op.ch) IN
          \/ /\ SaveConfig(cfg)
             /\ promised' = [promised EXCEPT !.channel = @ \/ op.mode = "bind",
                                             !.saved[op.dev] = {op.ch}]
             /\ UNCHANGED events
          \/ /\ SaveFails(cfg) /\ Event
             /\ promised' = [promised EXCEPT !.saved[op.dev] = @ \cup {op.ch}]
  /\ IF op.mode = "bind" THEN Go("saveMAC") /\ UNCHANGED link ELSE Opened
  /\ UNCHANGED <<node, radio, sudo, cause>>

\* RememberDeviceMAC, whose error fails Bind.
SaveMACMutant ==
  /\ At("saveMAC")
  /\ Go("connect")
  /\ promised' = [promised EXCEPT !.mac = TRUE]
  /\ UNCHANGED <<config, outside, sudo, cause, events>>
SaveMAC ==
  /\ At("saveMAC")
  /\ IF LoadConfig = LoadError
     THEN Load /\ Fail /\ UNCHANGED <<promised, events, cause>>
     ELSE LET cfg == withMAC(LoadConfig, op.dev) IN
          \/ /\ SaveConfig(cfg) /\ Go("connect")
             /\ promised' = [promised EXCEPT !.mac = TRUE] /\ UNCHANGED <<cause, events>>
          \/ SaveFails(cfg) /\ Event /\ Fail /\ Blame /\ UNCHANGED promised
  /\ UNCHANGED <<outside, sudo>>

\* session.Connect is done at once when its link shows these earbuds.
Connect ==
  /\ At("connect")
  /\ IF link # NoLink /\ link.asked = op.dev
     THEN Fail /\ UNCHANGED config
     ELSE Load /\ StartLoop("open")
  /\ UNCHANGED <<outside, events, sudo, history>>

-----------------------------------------------------------------------------
(* What happens around the worker. *)

Radio(d, state) ==
  /\ Event
  /\ radio[d] # state
  /\ radio' = [radio EXCEPT ![d] = state]
  /\ link' = IF state = "off" /\ link # NoLink /\ link.peer = d THEN NoLink ELSE link
  /\ Blame
  /\ UNCHANGED <<config, node, sudo, op, promised>>

Disconnect == \* by a user, or the link breaks
  /\ link # NoLink /\ link' = NoLink
  /\ UNCHANGED <<config, node, radio, events, sudo, op, history>>

TicketExpires ==
  /\ Event
  /\ sudo.fresh /\ sudo' = [sudo EXCEPT !.fresh = FALSE]
  /\ UNCHANGED <<config, outside, op, history>>

NodeGone == \* Bluetooth starts again
  /\ Event
  /\ node # NoNode
  /\ node' = NoNode /\ link' = NoLink /\ Blame
  /\ UNCHANGED <<config, radio, sudo, op, promised>>

Crash ==
  /\ Event
  /\ Restart(At("saveChannel") \/ At("saveMAC"))
  /\ link' = NoLink /\ op' = Idle /\ Blame
  /\ sudo' \in WarmupPrivileges
  /\ UNCHANGED <<node, radio, promised>>

Attempt ==
  \/ Exists \/ Ready \/ Discover \/ Free \/ Release \/ Bind \/ Access \/ Verify
  \/ Open \/ Revive \/ SaveChannel \/ SaveMAC \/ Connect

Next ==
  \/ \E d \in Devices : SwitchTo(d)
  \/ ConnectBest
  \/ Attempt
  \/ Unpark
  \/ \E d \in Devices, state \in {"off", "on", "sink"} : Radio(d, state)
  \/ Disconnect \/ TicketExpires \/ NodeGone \/ Crash

Spec == Init /\ [][Next]_vars

\* The calls that the code sets no limit to: the open that parks, the dialog that asks for
\* the password, and the command that lists the sinks of earbuds that are connected.
Waiting ==
  \/ Parked
  \/ asksPassword(sudo) /\ op.pc \in {"bind", "access", "again", "fix"}
  \/ asksPassword(sudo) /\ op.pc \in {"free", "release", "revive"} /\ node # NoNode
  \/ At("ready") /\ radio[op.dev] # "off"
  \/ At("discover") /\ Discovered # {}

\* Every other step is a call with a time limit.
FairSpec == Spec /\ WF_vars(~Waiting /\ Attempt)

-----------------------------------------------------------------------------
(* Properties. *)

\* The link reaches the earbuds that the session shows, whatever was bound before:
\* SwitchTo never opens the node of the previous ones.  ConnectBest, which trusts the
\* saved address, may, but only on a node that no Bind had finished with.
LinkReachesAskedDevice ==
  link # NoLink /\ link.peer # link.asked => link.via = "existing" /\ ~link.bound

\* Once the channel of a node was saved, later attempts on that node save that channel and
\* for its earbuds: but when a release has left the node in place, for which see
\* RemembersWorkingChannel.
StoresWorkingChannel ==
  At("saveChannel") /\ node # NoNode /\ promised.channel /\ promised.mac
    => op.dev = node.mac /\ (op.ch = node.ch \/ promised.kept)

\* What is read of the saved devices, from the file or its copy, is all that was saved, or
\* an error: never less.  This does not keep the file: one that a crash or a failed write
\* cut short is such an error, and what it held is lost.
ReadsAllOrNothing ==
  \A cfg \in {loadConfigFromDisk, LoadConfig} \ {LoadError} :
    /\ \A d \in Devices : cfg.channel[d] \in promised.saved[d]
    /\ promised.mac /\ node # NoNode => cfg.mac = node.mac

\* An attempt that ends without a link has met a reason of its own since it began, or
\* stands before one of the four things that LeftBehind names.  Nothing else of what was
\* before makes it fail: no other copy of the file, no other node, no link.
FailureHasCause ==
  [][~At("idle") /\ op'.pc = "idle" => link' # NoLink \/ cause' \/ LeftBehind]_vars

\* Every attempt comes to its end, unless it stays in a call that has no limit.
AttemptEnds == []<>At("idle") \/ <>[]Waiting

\* RememberDeviceChannel "persists the working RFCOMM channel": the one of the node.
RemembersWorkingChannel ==
  At("saveChannel") /\ node # NoNode /\ node.mac = op.dev => op.ch = node.ch
=============================================================================
