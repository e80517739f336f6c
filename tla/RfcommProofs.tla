---------------------------- MODULE RfcommProofs ----------------------------
(* What TLAPS proves about Rfcomm and the modules it extends: for every set of *)
(* earbuds and of channels, and for every --privilege-helper.                 *)
EXTENDS Rfcomm, WellFoundedInduction, TLAPS

-----------------------------------------------------------------------------
(* The saved devices.                                                      *)

\* What was saved is read back as it was.
LEMMA SanitizeKeepsSaved == \A cfg \in Saved : sanitizeConfig(cfg) = cfg
BY ConfigAssumption DEF Saved, sanitizeConfig

\* What is read is a saved configuration.
LEMMA SanitizeType == \A cfg \in FileEntry : sanitizeConfig(cfg) \in Saved
BY ConfigAssumption DEF Saved, FileEntry, sanitizeConfig

LEMMA SavedIsFileEntry == Saved \subseteq FileEntry
BY ConfigAssumption DEF Saved, FileEntry, Channels

\* The disk gives a configuration, and an error only when the file is damaged.
LEMMA DiskType ==
  ASSUME file \in FileEntry \cup {Absent, Damaged}
  PROVE  /\ loadConfigFromDisk \in Saved \cup {LoadError}
         /\ file # Damaged => loadConfigFromDisk \in Saved
<1>1. Empty \in Saved
  BY DEF Empty, Saved
<1> QED
  BY <1>1, SanitizeType, ConfigAssumption DEF loadConfigFromDisk

\* A file that was written from a configuration is read back as it.
LEMMA DiskAfterSave ==
  ASSUME NEW cfg \in Saved, SaveConfig(cfg)
  PROVE  file' \in FileEntry /\ loadConfigFromDisk' = cfg /\ LoadConfig' = cfg
<1>1. file' = cfg /\ cache' = NotLoaded
  BY SanitizeKeepsSaved DEF SaveConfig
<1>2. cfg \in FileEntry /\ cfg # Absent /\ cfg # Damaged
  BY SavedIsFileEntry, ConfigAssumption
<1>3. loadConfigFromDisk' = sanitizeConfig(cfg)
  BY <1>1, <1>2 DEF loadConfigFromDisk, sanitizeConfig
<1> QED
  BY <1>1, <1>2, <1>3, SanitizeKeepsSaved DEF LoadConfig

\* What each Remember call stores is a configuration.
LEMMA RememberTypes ==
  ASSUME NEW cfg \in Saved, NEW d \in Devices, NEW ch \in Channels
  PROVE  /\ withMAC(cfg, d) \in Saved /\ withMAC(cfg, d).mac = d
         /\ withMAC(cfg, d).channel = cfg.channel
         /\ withChannel(cfg, d, ch) \in Saved /\ withChannel(cfg, d, ch).mac = cfg.mac
         /\ withChannel(cfg, d, ch).channel = [cfg.channel EXCEPT ![d] = ch]
BY DEF withMAC, withChannel, Saved

LEMMA ResolvedChannel ==
  ASSUME LoadConfig \in Saved \cup {LoadError}, NEW d \in Devices
  PROVE  ResolveDeviceChannel(d) \in Channels
BY ConfigAssumption DEF ResolveDeviceChannel, Saved, Channels

-----------------------------------------------------------------------------
(* The commands on the node.                                               *)

Tickets == [used : BOOLEAN, fresh : BOOLEAN]
Outcomes(nodes) == [ok : BOOLEAN, node : nodes, sudo : Tickets]

\* What every release, every bind on a free path and every change of the rights of a
\* bound node comes to, with every helper.
Released(n) == {r \in Outcomes({NoNode, n}) : ~r.ok => r.node = n}
Bound(new)  == {r \in Outcomes({NoNode, new, Owned(new)}) : r.ok => r.node \in {new, Owned(new)}}
Opens(n)    == {r \in Outcomes({n, Owned(n)}) : r.node = IF r.ok THEN Owned(n) ELSE n}
Refused(n)  == {r \in Outcomes({n}) : ~r.ok}

LEMMA OutcomeIsReleased ==
  ASSUME NEW n, NEW m \in {NoNode, n}, NEW ok \in BOOLEAN, NEW t \in Tickets, ok \/ m = n
  PROVE  Outcome(ok, m, t) \in Released(n)
BY DEF Outcome, Outcomes, Released

LEMMA OutcomeIsBound ==
  ASSUME NEW new, NEW m \in {NoNode, new, Owned(new)}, NEW ok \in BOOLEAN, NEW t \in Tickets,
         ok => m \in {new, Owned(new)}
  PROVE  Outcome(ok, m, t) \in Bound(new)
BY DEF Outcome, Outcomes, Bound

LEMMA OutcomeOpens ==
  ASSUME NEW n, NEW t \in Tickets
  PROVE  Outcome(TRUE, Owned(n), t) \in Opens(n) /\ Outcome(FALSE, n, t) \in Opens(n)
BY DEF Outcome, Outcomes, Opens

LEMMA OutcomeIsRefused ==
  ASSUME NEW n, NEW t \in Tickets
  PROVE  Outcome(FALSE, n, t) \in Refused(n)
BY DEF Outcome, Outcomes, Refused

\* Whatever the mode, the outcomes are those of polkit and of sudo.
LEMMA FallbackWithin ==
  ASSUME NEW n, NEW t, NEW polkit, NEW sudoFn, NEW good,
         Outcome(FALSE, n, t) \in good, polkit \subseteq good,
         sudoFn[n] \subseteq good,
         \A q \in polkit : ~q.ok => sudoFn[q.node] \subseteq good
  PROVE  withPrivilegeFallback(n, t, polkit, sudoFn) \subseteq good
<1>1. privilegeAutoFallback(polkit, sudoFn) \subseteq good
  BY DEF privilegeAutoFallback
<1> QED
  BY <1>1, PrivilegeAssumption DEF withPrivilegeFallback

LEMMA SudoWithin ==
  ASSUME NEW n, NEW done, NEW t \in Tickets, NEW r \in execSudo(n, done, t)
  PROVE  \/ \E new \in Tickets : r = Outcome(TRUE, done, new)
         \/ r = Outcome(FALSE, n, t)
BY DEF execSudo, Tickets

LEMMA ReleaseOutcomes ==
  ASSUME NEW n, NEW t \in Tickets
  PROVE  releaseRFCOMMNumber(n, t) \subseteq Released(n)
<1>1. /\ \A m \in {NoNode, n} : Outcome(TRUE, m, t) \in Released(n)
      /\ Outcome(FALSE, n, t) \in Released(n)
      /\ \A new \in Tickets : Outcome(TRUE, NoNode, new) \in Released(n)
  BY OutcomeIsReleased
<1>2. runRelease(n, t) \subseteq Released(n)
  BY <1>1 DEF runRelease
<1>3. sudoRFCCOMMRelease(n, t) \subseteq Released(n)
  BY <1>1, SudoWithin DEF sudoRFCCOMMRelease
<1>4. privilegedRFCOMMRelease(n, t) \subseteq Released(n)
  <2> DEFINE polkit == execPolkit(n, t, runRelease(n, t))
             sudoFn == [m \in {n} |-> sudoRFCCOMMRelease(m, t)]
  <2>1. polkit \subseteq Released(n)
    BY <1>1, <1>2 DEF execPolkit
  <2>2. \A q \in polkit : ~q.ok => q.node = n
    BY <2>1 DEF Released
  <2>3. sudoFn[n] \subseteq Released(n)
    BY <1>3
  <2> HIDE DEF polkit, sudoFn
  <2>4. withPrivilegeFallback(n, t, polkit, sudoFn) \subseteq Released(n)
    BY <1>1, <2>1, <2>2, <2>3, FallbackWithin
  <2> QED
    BY <2>4 DEF polkit, sudoFn, privilegedRFCOMMRelease
<1> QED
  BY <1>1, <1>4 DEF releaseRFCOMMNumber

\* A path that is bound cannot be bound again, and stays as it is.
LEMMA BindRefused ==
  ASSUME NEW n, n # NoNode, NEW new, NEW t \in Tickets
  PROVE  privilegedRFCCOMMBind(n, new, t) \subseteq Refused(n)
<1> DEFINE polkit == execPolkit(n, t, runBind(n, new, t))
           sudoFn == [m \in {n, Owned(new), new} |-> sudoRFCCOMMBind(m, new, t)]
<1>1. Outcome(FALSE, n, t) \in Refused(n)
  BY OutcomeIsRefused
<1>2. polkit \subseteq Refused(n)
  BY <1>1 DEF execPolkit, runBind
<1>3. \A q \in polkit : q.node = n
  BY <1>2 DEF Refused, Outcomes
<1>4. sudoFn[n] \subseteq Refused(n)
  BY <1>1 DEF sudoRFCCOMMBind
<1> HIDE DEF polkit, sudoFn
<1>5. withPrivilegeFallback(n, t, polkit, sudoFn) \subseteq Refused(n)
  BY <1>1, <1>2, <1>3, <1>4, FallbackWithin
<1> QED
  BY <1>5 DEF polkit, sudoFn, privilegedRFCCOMMBind

\* Binding a free path.
LEMMA BindOutcomes ==
  ASSUME NEW new, new # NoNode, Owned(new) # NoNode, NEW t \in Tickets
  PROVE  BindRFCOMMDevice(NoNode, new, t) \subseteq Bound(new)
<1>1. /\ \A m \in {NoNode, new} : Outcome(FALSE, m, t) \in Bound(new)
      /\ \A m \in {new, Owned(new)}, s \in Tickets : Outcome(TRUE, m, s) \in Bound(new)
      /\ Outcome(FALSE, Owned(new), t) \in Bound(new)
  BY OutcomeIsBound
<1>2. \A m \in {NoNode, new, Owned(new)} : sudoRFCCOMMBind(m, new, t) \subseteq Bound(new)
  <2> SUFFICES ASSUME NEW m \in {NoNode, new, Owned(new)}
               PROVE  sudoRFCCOMMBind(m, new, t) \subseteq Bound(new)
    OBVIOUS
  <2>1. CASE m = NoNode
    <3> SUFFICES ASSUME NEW r \in execSudo(NoNode, new, t)
                 PROVE  r \in Bound(new)
      BY <2>1 DEF sudoRFCCOMMBind
    <3>1. CASE r = Outcome(FALSE, NoNode, t)
      BY <1>1, <3>1
    <3>2. CASE \E s \in Tickets : r = Outcome(TRUE, new, s)
      BY <1>1, <3>2
    <3> QED
      BY <3>1, <3>2, SudoWithin
  <2>2. CASE m # NoNode
    BY <1>1, <2>2 DEF sudoRFCCOMMBind
  <2> QED
    BY <2>1, <2>2
<1>3. privilegedRFCCOMMBind(NoNode, new, t) \subseteq Bound(new)
  <2> DEFINE polkit == execPolkit(NoNode, t, runBind(NoNode, new, t))
             sudoFn == [m \in {NoNode, Owned(new), new} |-> sudoRFCCOMMBind(m, new, t)]
  <2>1. polkit \subseteq Bound(new)
    BY <1>1 DEF execPolkit, runBind
  <2>2. \A q \in polkit : q.node \in {NoNode, new, Owned(new)}
    BY <2>1 DEF Bound, Outcomes
  <2>3. \A m \in {NoNode, new, Owned(new)} : sudoFn[m] \subseteq Bound(new)
    BY <1>2
  <2> HIDE DEF polkit, sudoFn
  <2>4. withPrivilegeFallback(NoNode, t, polkit, sudoFn) \subseteq Bound(new)
    BY <1>1, <2>1, <2>2, <2>3, FallbackWithin
  <2> QED
    BY <2>4 DEF polkit, sudoFn, privilegedRFCCOMMBind
<1>4. privilegedRFCCOMMBind(new, new, t) \subseteq Bound(new)
  BY BindRefused DEF Refused, Bound, Outcomes
<1> QED
  BY <1>1, <1>3, <1>4 DEF BindRFCOMMDevice

LEMMA BindOnBound ==
  ASSUME NEW n, n # NoNode, NEW new, NEW t \in Tickets
  PROVE  BindRFCOMMDevice(n, new, t) \subseteq Refused(n)
BY BindRefused DEF BindRFCOMMDevice

\* The rights of a bound node are changed or not; without a node there are none.
LEMMA AccessOutcomes ==
  ASSUME NEW n, NEW t \in Tickets
  PROVE  /\ n # NoNode => privilegedEnsureRFCOMMAccess(n, t) \subseteq Opens(n)
         /\ n = NoNode => privilegedEnsureRFCOMMAccess(n, t) \subseteq Refused(n)
<1> DEFINE polkit == execPolkit(n, t, runFixPerms(n, t))
           sudoFn == [m \in {n} |-> sudoDeviceAccess(m, t)]
<1>1. /\ Outcome(FALSE, n, t) \in Refused(n) \cap Opens(n)
      /\ \A s \in Tickets : Outcome(TRUE, Owned(n), s) \in Opens(n)
  BY OutcomeIsRefused, OutcomeOpens
<1>2. CASE n # NoNode
  <2>1. polkit \subseteq Opens(n) /\ sudoFn[n] \subseteq Opens(n)
    <3>1. polkit \subseteq Opens(n)
      BY <1>1, <1>2 DEF execPolkit, runFixPerms
    <3>2. sudoDeviceAccess(n, t) \subseteq Opens(n)
      <4> SUFFICES ASSUME NEW r \in execSudo(n, Owned(n), t)
                   PROVE  r \in Opens(n)
        BY <1>2 DEF sudoDeviceAccess
      <4>1. \/ \E s \in Tickets : r = Outcome(TRUE, Owned(n), s)
            \/ r = Outcome(FALSE, n, t)
        BY SudoWithin
      <4>2. CASE r = Outcome(FALSE, n, t)
        BY <1>1, <4>2
      <4>3. ASSUME NEW s \in Tickets, r = Outcome(TRUE, Owned(n), s)
            PROVE  r \in Opens(n)
        BY <1>1, <4>3
      <4> QED
        BY <4>1, <4>2, <4>3
    <3> QED
      BY <3>1, <3>2
  <2>2. \A q \in polkit : ~q.ok => q.node = n
    BY <2>1 DEF Opens
  <2> HIDE DEF polkit, sudoFn
  <2>3. withPrivilegeFallback(n, t, polkit, sudoFn) \subseteq Opens(n)
    BY <1>1, <2>1, <2>2, FallbackWithin
  <2> QED
    BY <1>2, <2>3 DEF polkit, sudoFn, privilegedEnsureRFCOMMAccess
<1>3. CASE n = NoNode
  <2>1. polkit \subseteq Refused(n) /\ sudoFn[n] \subseteq Refused(n)
    BY <1>1, <1>3 DEF execPolkit, runFixPerms, sudoDeviceAccess
  <2>2. \A q \in polkit : q.node = n
    BY <2>1 DEF Refused, Outcomes
  <2> HIDE DEF polkit, sudoFn
  <2>3. withPrivilegeFallback(n, t, polkit, sudoFn) \subseteq Refused(n)
    BY <1>1, <2>1, <2>2, FallbackWithin
  <2> QED
    BY <1>3, <2>3 DEF polkit, sudoFn, privilegedEnsureRFCOMMAccess
<1> QED
  BY <1>2, <1>3

LEMMA LeastChannel ==
  ASSUME NEW S \in SUBSET Channels, S # {}
  PROVE  \E c \in S : \A d \in S : c <= d
<1>1. S \subseteq Nat
  BY ConfigAssumption DEF Channels
<1>2. PICK c \in S : \A d \in S : ~ (<<d, c>> \in OpToRel(<, Nat))
  BY <1>1, NatLessThanWellFounded, WFMin
<1>3. \A d \in S : ~ (d < c)
  BY <1>1, <1>2 DEF OpToRel
<1> QED
  BY <1>1, <1>3

-----------------------------------------------------------------------------
(* The inductive invariant.                                                *)

Loop == {"release", "bind", "access", "again", "fix", "verify", "saveChannel", "open", "revive"}
Opening == At("connect") \/ (op.mode = "open" /\ op.pc \in Loop)
Binding == {"access", "verify", "saveChannel", "saveMAC"}

\* An attempt has its earbuds once it leaves discovery, and its channel in the loop;
\* each step belongs to a loop.
OpShape ==
  /\ op.pc \notin {"idle", "exists", "discover"} => op.dev \in Devices
  /\ op.pc \in Loop => op.ch \in Channels
  /\ op.pc \in {"open", "revive", "again", "fix"} => op.mode = "open"
  /\ At("saveMAC") => op.mode = "bind"

\* What is on the disk and what is in memory, where there is a configuration at all.
Configurations ==
  (IF loadConfigFromDisk = LoadError THEN {} ELSE {loadConfigFromDisk}) \cup
  (IF cache \in Saved THEN {cache} ELSE {})
SavedAs(d) == \A cfg \in Configurations : cfg.mac = d

\* The node that a Bind finished with is the one whose earbuds are saved.
NodeIsSaved == promised.mac /\ node # NoNode => SavedAs(node.mac)

\* The attempt that opens a node asks for the saved earbuds.
OpensSaved ==
  At("ready") \/ Opening =>
    /\ LoadConfig # LoadError /\ LoadConfig.mac = op.dev
    /\ promised.mac => SavedAs(op.dev)
    /\ Opening /\ op.via = "bind" => promised.mac

\* The channel of a node, once saved, is what is on the disk and in memory, unless a
\* release left the node in place.
ChannelIsSaved ==
  promised.channel /\ ~promised.kept /\ node # NoNode =>
    \A cfg \in Configurations : cfg.channel[node.mac] = node.ch

\* What is bound over was left in place, and what is opened is opened on its channel.
OpensOnItsChannel ==
  /\ At("bind") /\ node # NoNode => promised.kept
  /\ (/\ op.mode = "open" /\ op.pc \in Loop \ {"release", "bind"}
      /\ node # NoNode /\ promised.channel /\ ~promised.kept /\ op.dev = node.mac)
     => op.ch = node.ch

\* A node that Bind has made belongs to the attempt until Bind returns.
BindsItsOwn ==
  op.mode = "bind" /\ op.pc \in Binding =>
    /\ ~promised.mac
    /\ node # NoNode => node.mac = op.dev /\ (~At("saveMAC") => node.ch = op.ch)

SavedChannels ==
  \A cfg \in Configurations, d \in Devices : cfg.channel[d] \in promised.saved[d]

\* Why the step before a failure already has its cause.
CauseIsKnown ==
  /\ At("verify") => Carrier \/ cause \/ radio[op.dev] = "off"
  /\ At("saveChannel") => node # NoNode \/ cause

IInv ==
  /\ TypeOK /\ OpShape /\ NodeIsSaved /\ OpensSaved /\ ChannelIsSaved
  /\ OpensOnItsChannel /\ BindsItsOwn /\ SavedChannels /\ CauseIsKnown

-----------------------------------------------------------------------------
(* What each call does to the configurations.                              *)

ConfigOK ==
  file \in FileEntry \cup {Absent, Damaged} /\ cache \in Saved \cup {NotLoaded, LoadError}

LEMMA Loaded ==
  ASSUME ConfigOK
  PROVE  /\ Configurations \subseteq Saved
         /\ LoadConfig \in Saved \cup {LoadError}
         /\ LoadConfig # LoadError => LoadConfig \in Configurations
         /\ file # Damaged => loadConfigFromDisk \in Configurations
BY DiskType, ConfigAssumption DEF ConfigOK, Configurations, LoadConfig

LEMMA KeepingConfig ==
  ASSUME ConfigOK, UNCHANGED config
  PROVE  ConfigOK' /\ Configurations' = Configurations /\ LoadConfig' = LoadConfig
BY DEF config, ConfigOK, Configurations, LoadConfig, loadConfigFromDisk

LEMMA Loading ==
  ASSUME ConfigOK, Load
  PROVE  ConfigOK' /\ Configurations' \subseteq Configurations /\ LoadConfig' = LoadConfig
<1>1. loadConfigFromDisk' = loadConfigFromDisk
  BY DEF Load, loadConfigFromDisk
<1>2. cache' = LoadConfig /\ file' = file /\ cache' # NotLoaded
  BY Loaded, ConfigAssumption DEF Load
<1>3. LoadConfig' = LoadConfig
  BY <1>2 DEF LoadConfig
<1> QED
  BY <1>1, <1>2, <1>3, Loaded, ConfigAssumption DEF ConfigOK, Configurations

LEMMA Saving ==
  ASSUME ConfigOK, NEW cfg \in Saved, SaveConfig(cfg)
  PROVE  ConfigOK' /\ Configurations' = {cfg} /\ LoadConfig' = cfg
<1>1. file' \in FileEntry /\ loadConfigFromDisk' = cfg /\ LoadConfig' = cfg
  BY DiskAfterSave
<1>2. cache' = NotLoaded
  BY DEF SaveConfig
<1> QED
  BY <1>1, <1>2, ConfigAssumption DEF ConfigOK, Configurations

LEMMA Failing ==
  ASSUME ConfigOK, NEW cfg \in Saved, SaveFails(cfg)
  PROVE  ConfigOK' /\ Configurations' \subseteq Configurations \cup {cfg} /\ LoadConfig' = cfg
<1>1. file' \in {file, Damaged} /\ cache' = cfg
  BY DEF SaveFails
<1>2. loadConfigFromDisk' \in {loadConfigFromDisk, LoadError}
  BY <1>1, ConfigAssumption DEF loadConfigFromDisk
<1> QED
  BY <1>1, <1>2, ConfigAssumption DEF ConfigOK, Configurations, LoadConfig

LEMMA Restarting ==
  ASSUME ConfigOK, NEW writing \in BOOLEAN, Restart(writing)
  PROVE  ConfigOK' /\ Configurations' \subseteq Configurations
<1>1. file' \in {file, Damaged} /\ cache' = NotLoaded
  BY DEF Restart
<1>2. loadConfigFromDisk' \in {loadConfigFromDisk, LoadError}
  BY <1>1, ConfigAssumption DEF loadConfigFromDisk
<1> QED
  BY <1>1, <1>2, ConfigAssumption DEF ConfigOK, Configurations

-----------------------------------------------------------------------------
(* What each call does to the node.                                        *)

LEMMA Owning ==
  ASSUME NEW n \in Node
  PROVE  /\ Owned(n) \in Node /\ Owned(n) # NoNode /\ n # NoNode
         /\ Owned(n).mac = n.mac /\ Owned(n).ch = n.ch
BY RfcommAssumption DEF Owned, Node

LEMMA Releasing ==
  ASSUME TypeOK, NEW ok \in BOOLEAN, ReleaseRFCOMMDevice(ok)
  PROVE  /\ node' \in {NoNode, node} /\ sudo' \in Tickets
         /\ promised' \in Promised /\ promised'.mac = promised.mac
         /\ promised'.channel = promised.channel /\ promised'.saved = promised.saved
         /\ promised'.kept = (node' # NoNode)
         /\ ~ok => node' = node /\ node # NoNode
<1>1. PICK r \in releaseRFCOMMNumber(node, sudo) :
        /\ r.ok = ok /\ node' = r.node /\ sudo' = r.sudo
        /\ promised' = [promised EXCEPT !.kept = r.node # NoNode]
  BY DEF ReleaseRFCOMMDevice
<1>2. sudo \in Tickets /\ promised \in Promised
  BY DEF TypeOK, Tickets
<1>3. r \in Released(node)
  BY <1>2, ReleaseOutcomes
<1>4. /\ r.node \in {NoNode, node} /\ r.sudo \in Tickets /\ r.ok \in BOOLEAN
      /\ ~r.ok => r.node = node
  BY <1>3 DEF Released, Outcomes
<1>5. node = NoNode => r.ok
  BY DEF releaseRFCOMMNumber, Outcome
<1>6. /\ promised' \in Promised /\ promised'.mac = promised.mac
      /\ promised'.channel = promised.channel /\ promised'.saved = promised.saved
      /\ promised'.kept = (r.node # NoNode)
  BY <1>1, <1>2 DEF Promised
<1> QED
  BY <1>1, <1>4, <1>5, <1>6

\* A bind on a free path gives it to the earbuds, or fails and may still do so.
LEMMA BindingOutcome ==
  ASSUME NEW new \in Node, NEW n \in Node \cup {NoNode}, NEW t \in Tickets,
         NEW r \in BindRFCOMMDevice(n, new, t)
  PROVE  /\ r.ok \in BOOLEAN /\ r.sudo \in Tickets /\ r.node \in Node \cup {NoNode}
         /\ r.node # n => n = NoNode /\ r.node.mac = new.mac /\ r.node.ch = new.ch
         /\ r.ok => r.node # n
<1>1. /\ Owned(new) \in Node /\ Owned(new) # NoNode /\ new # NoNode
      /\ Owned(new).mac = new.mac /\ Owned(new).ch = new.ch
  BY Owning
<1>2. CASE n = NoNode
  <2>1. r \in Bound(new)
    BY <1>1, <1>2, BindOutcomes
  <2>2. /\ r.ok \in BOOLEAN /\ r.sudo \in Tickets /\ r.node \in {NoNode, new, Owned(new)}
        /\ r.ok => r.node \in {new, Owned(new)}
    BY <2>1 DEF Bound, Outcomes
  <2> QED
    BY <1>1, <1>2, <2>2
<1>3. CASE n # NoNode
  <2>1. r \in Refused(n)
    BY <1>3, BindOnBound
  <2> QED
    BY <2>1 DEF Refused, Outcomes
<1> QED
  BY <1>2, <1>3

LEMMA Accessing ==
  ASSUME NEW n \in Node \cup {NoNode}, NEW t \in Tickets,
         NEW r \in privilegedEnsureRFCOMMAccess(n, t)
  PROVE  /\ r.ok \in BOOLEAN /\ r.sudo \in Tickets /\ r.node \in Node \cup {NoNode}
         /\ r.node = NoNode <=> n = NoNode
         /\ n # NoNode => r.node.mac = n.mac /\ r.node.ch = n.ch
         /\ r.ok => r.node # NoNode
<1>1. CASE n # NoNode
  <2>1. r \in Opens(n)
    BY <1>1, AccessOutcomes
  <2>2. r.ok \in BOOLEAN /\ r.sudo \in Tickets /\ r.node \in {n, Owned(n)}
    BY <2>1 DEF Opens, Outcomes
  <2> QED
    BY <1>1, <2>2, Owning
<1>2. CASE n = NoNode
  <2>1. r \in Refused(n)
    BY <1>2, AccessOutcomes
  <2> QED
    BY <1>2, <2>1 DEF Refused, Outcomes
<1> QED
  BY <1>1, <1>2

-----------------------------------------------------------------------------
(* What the steps do to the attempt.                                       *)

LEMMA NextChannelType ==
  ASSUME op \in Op, op.tried # Channels
  PROVE  NextChannel \in Channels
<1> DEFINE left == Channels \ op.tried
<1>1. left \in SUBSET Channels /\ left # {}
  BY DEF Op
<1>2. \E c \in left : \A d \in left : c <= d
  BY <1>1, LeastChannel
<1> QED
  BY <1>1, <1>2, ConfigAssumption DEF NextChannel

\* The next channel is released first; when there is none the attempt gives up.
LEMMA Retrying ==
  ASSUME op \in Op, NextAttempt
  PROVE  \/ /\ op' \in Op /\ op'.pc = "release" /\ op'.ch \in Channels
            /\ op'.mode = op.mode /\ op'.via = op.via /\ op'.dev = op.dev
         \/ op' \in Op /\ op'.pc \in {"discover", "idle"}
<1>1. CASE op.tried = Channels
  BY <1>1 DEF NextAttempt, GiveUp, Go, Fail, Idle, Op, Steps
<1>2. CASE op.tried # Channels
  <2>1. NextChannel \in Channels
    BY <1>2, NextChannelType
  <2>2. op' = [op EXCEPT !.ch = NextChannel, !.tried = @ \cup {NextChannel}, !.pc = "release"]
    BY <1>2 DEF NextAttempt
  <2> QED
    BY <2>1, <2>2 DEF Op, Steps
<1> QED
  BY <1>1, <1>2

-----------------------------------------------------------------------------
(* The steps keep the invariant, first those that move no node.           *)

LEMMA InvConfig == IInv => ConfigOK
BY DEF IInv, TypeOK, ConfigOK

\* A step to where no attempt is leaves nothing to keep but the configurations.
LEMMA ToRest ==
  ASSUME IInv, TypeOK', UNCHANGED <<config, node, promised>>,
         op'.pc \in {"idle", "exists", "discover", "free"},
         op'.pc = "free" => op'.dev \in Devices
  PROVE  IInv'
<1>1. Configurations' = Configurations /\ LoadConfig' = LoadConfig
  BY InvConfig, KeepingConfig
<1>2. OpShape' /\ OpensSaved' /\ OpensOnItsChannel' /\ BindsItsOwn' /\ CauseIsKnown'
  BY DEF OpShape, OpensSaved, Opening, OpensOnItsChannel, BindsItsOwn, CauseIsKnown, At, Loop,
         Binding
<1>3. NodeIsSaved' /\ ChannelIsSaved' /\ SavedChannels'
  BY <1>1 DEF IInv, NodeIsSaved, SavedAs, ChannelIsSaved, SavedChannels
<1> QED
  BY <1>2, <1>3 DEF IInv

LEMMA KeepSwitchTo ==
  ASSUME IInv, NEW d \in Devices, SwitchTo(d)
  PROVE  IInv'
<1>1. op' \in Op /\ op'.pc = "free" /\ op'.dev = d
  BY ConfigAssumption DEF SwitchTo, Idle, Op, Steps
<1>2. TypeOK'
  BY <1>1 DEF IInv, TypeOK, SwitchTo, config, Saved, FileEntry
<1> QED
  BY <1>1, <1>2, ToRest DEF SwitchTo

LEMMA KeepConnectBest ==
  ASSUME IInv, ConnectBest
  PROVE  IInv'
<1>1. op' \in Op /\ op'.pc = "exists"
  BY ConfigAssumption DEF ConnectBest, Idle, Op, Steps
<1>2. TypeOK'
  BY <1>1 DEF IInv, TypeOK, ConnectBest, config, outside
<1> QED
  BY <1>1, <1>2, ToRest DEF ConnectBest, outside

LEMMA KeepDiscover ==
  ASSUME IInv, Discover
  PROVE  IInv'
<1>1. /\ op' \in Op
      /\ (op'.pc = "free" /\ op'.dev \in Devices) \/ op'.pc = "idle"
  <2>1. CASE Fail
    BY <2>1, ConfigAssumption DEF Fail, Idle, Op, Steps
  <2>2. CASE \E d \in Devices : op' = [op EXCEPT !.dev = d, !.via = "bind", !.pc = "free"]
    BY <2>2 DEF IInv, TypeOK, Op, Steps
  <2> QED
    BY <2>1, <2>2 DEF Discover, BestConnectedCandidate, Discovered
<1>2. TypeOK'
  BY <1>1 DEF IInv, TypeOK, Discover, config, outside, Blame
<1> QED
  BY <1>1, <1>2, ToRest DEF Discover, outside

LEMMA KeepReady ==
  ASSUME IInv, Ready
  PROVE  IInv'
<1>1. \/ op' = [op EXCEPT !.via = "existing", !.pc = "connect"] /\ UNCHANGED cause
      \/ Fail /\ Blame
      \/ Go("discover") /\ UNCHANGED cause
  BY DEF Ready
<1>2. At("ready") /\ UNCHANGED <<config, outside, events, sudo, promised>>
  BY DEF Ready
<1>3. op' \in Op /\ op'.pc \in {"connect", "idle", "discover"}
  <2>1. Idle \in Op /\ Idle.pc = "idle"
    BY ConfigAssumption DEF Idle, Op, Steps
  <2>2. op \in Op
    BY DEF IInv, TypeOK
  <2>3. CASE Fail
    BY <2>1, <2>3 DEF Fail
  <2>4. CASE Go("discover") \/ op' = [op EXCEPT !.via = "existing", !.pc = "connect"]
    BY <2>2, <2>4 DEF Go, Op, Steps
  <2> QED
    BY <1>1, <2>3, <2>4
<1>4. TypeOK'
  BY <1>1, <1>2, <1>3 DEF IInv, TypeOK, config, outside, Blame
<1>5. CASE op'.pc # "connect"
  BY <1>2, <1>3, <1>4, <1>5, ToRest DEF outside
<1>6. CASE op'.pc = "connect"
  <2>1. op' = [op EXCEPT !.via = "existing", !.pc = "connect"]
    BY <1>1, <1>6 DEF Fail, Idle, Go, IInv, TypeOK, Op
  <2>2. op'.pc = "connect" /\ op'.via = "existing" /\ op'.dev = op.dev
    BY <2>1 DEF IInv, TypeOK, Op
  <2>3. Configurations' = Configurations /\ LoadConfig' = LoadConfig
    BY <1>2, InvConfig, KeepingConfig
  <2>4. OpShape' /\ OpensOnItsChannel' /\ BindsItsOwn' /\ CauseIsKnown'
    BY <1>2, <2>2 DEF IInv, OpShape, OpensOnItsChannel, BindsItsOwn, CauseIsKnown, At, Loop, Binding
  <2>5. OpensSaved'
    BY <1>2, <2>2, <2>3 DEF IInv, OpensSaved, Opening, SavedAs, At
  <2>6. NodeIsSaved' /\ ChannelIsSaved' /\ SavedChannels'
    BY <1>2, <2>3 DEF outside, IInv, NodeIsSaved, SavedAs, ChannelIsSaved, SavedChannels
  <2> QED
    BY <1>4, <2>4, <2>5, <2>6 DEF IInv
<1> QED
  BY <1>5, <1>6

LEMMA KeepExists ==
  ASSUME IInv, Exists
  PROVE  IInv'
<1>1. CASE node = NoNode
  <2>1. op' \in Op /\ op'.pc = "discover"
    BY <1>1 DEF Exists, Go, IInv, TypeOK, Op, Steps
  <2>2. TypeOK'
    BY <1>1, <2>1 DEF Exists, IInv, TypeOK, config, outside, history
  <2> QED
    BY <1>1, <2>1, <2>2, ToRest DEF Exists, outside, history
<1>2. CASE node # NoNode
  <2>1. ConfigOK' /\ Configurations' \subseteq Configurations /\ LoadConfig' = LoadConfig
    BY <1>2, InvConfig, Loading DEF Exists
  <2>2. LookupDeviceMAC \in Devices \cup {NoDevice}
    BY InvConfig, Loaded DEF LookupDeviceMAC, Saved
  <2>3. /\ op' \in Op /\ op'.dev = LookupDeviceMAC
        /\ op'.pc = IF LookupDeviceMAC = NoDevice THEN "discover" ELSE "ready"
    <3> DEFINE step == IF LookupDeviceMAC = NoDevice THEN "discover" ELSE "ready"
    <3>1. op \in Op /\ step \in Steps
      BY DEF IInv, TypeOK, Steps
    <3>2. op' = [op EXCEPT !.dev = LookupDeviceMAC, !.pc = step]
      BY <1>2 DEF Exists
    <3> HIDE DEF step
    <3>3. op' \in Op /\ op'.dev = LookupDeviceMAC /\ op'.pc = step
      BY <2>2, <3>1, <3>2 DEF Op
    <3> QED
      BY <3>3 DEF step
  <2>4. UNCHANGED <<node, link, radio, events, sudo, promised, cause>>
    BY DEF Exists, outside, history
  <2>5. TypeOK'
    BY <2>1, <2>3, <2>4 DEF IInv, TypeOK, ConfigOK
  <2>6. OpShape' /\ OpensOnItsChannel' /\ BindsItsOwn' /\ CauseIsKnown'
    BY <2>2, <2>3 DEF OpShape, OpensOnItsChannel, BindsItsOwn, CauseIsKnown, At, Loop, Binding
  <2>7. NodeIsSaved' /\ ChannelIsSaved' /\ SavedChannels'
    BY <2>1, <2>4 DEF IInv, NodeIsSaved, SavedAs, ChannelIsSaved, SavedChannels
  <2>8. OpensSaved'
    <3> SUFFICES ASSUME op'.pc = "ready"
                 PROVE  /\ LoadConfig # LoadError /\ LoadConfig.mac = op'.dev
                        /\ promised.mac => SavedAs(op.dev)'
      BY <2>1, <2>3, <2>4 DEF OpensSaved, Opening, At, Loop
    <3>1. LoadConfig # LoadError /\ LoadConfig.mac = op'.dev
      BY <2>3, ConfigAssumption DEF LookupDeviceMAC
    <3>2. promised.mac => LoadConfig.mac = node.mac
      BY <1>2, <3>1, InvConfig, Loaded DEF IInv, NodeIsSaved, SavedAs
    <3>3. promised.mac => SavedAs(node.mac)'
      BY <1>2, <2>4, <2>7 DEF NodeIsSaved
    <3> QED
      BY <2>4, <3>1, <3>2, <3>3 DEF SavedAs
  <2> QED
    BY <2>5, <2>6, <2>7, <2>8 DEF IInv
<1> QED
  BY <1>1, <1>2

-----------------------------------------------------------------------------
(* Then those that may.  What they keep falls into what is said of the      *)
(* attempt and what is said of the node and the configurations.            *)

OfAttempt == OpShape /\ OpensSaved /\ OpensOnItsChannel /\ BindsItsOwn /\ CauseIsKnown
OfNode == NodeIsSaved /\ ChannelIsSaved /\ SavedChannels

LEMMA NoAttempt ==
  ASSUME op'.pc \in {"idle", "exists", "discover"}
  PROVE  OfAttempt'
BY DEF OfAttempt, OpShape, OpensSaved, Opening, OpensOnItsChannel, BindsItsOwn, CauseIsKnown,
       At, Loop, Binding

LEMMA ToRelease ==
  ASSUME IInv, op.pc \in Loop, UNCHANGED config,
         op'.pc = "release", op'.ch \in Channels, op'.mode = op.mode, op'.via = op.via,
         op'.dev = op.dev, op.mode = "open" => promised'.mac = promised.mac
  PROVE  OfAttempt'
<1>1. Configurations' = Configurations /\ LoadConfig' = LoadConfig
  BY InvConfig, KeepingConfig
<1>2. op'.dev \in Devices
  BY DEF IInv, OpShape, Loop
<1>3. OpShape' /\ OpensOnItsChannel' /\ BindsItsOwn' /\ CauseIsKnown'
  BY <1>2 DEF OpShape, OpensOnItsChannel, BindsItsOwn, CauseIsKnown, At, Loop, Binding
<1>4. OpensSaved'
  BY <1>1 DEF IInv, OpensSaved, Opening, SavedAs, At, Loop
<1> QED
  BY <1>3, <1>4 DEF OfAttempt

LEMMA GivingUp ==
  ASSUME op \in Op, GiveUp
  PROVE  op' \in Op /\ op'.pc \in {"discover", "idle"}
<1>1. Idle \in Op /\ Idle.pc = "idle"
  BY ConfigAssumption DEF Idle, Op, Steps
<1> QED
  BY <1>1 DEF GiveUp, Fail, Go, Op, Steps

LEMMA Starting ==
  ASSUME ConfigOK, op \in Op, op.dev \in Devices, NEW mode \in {"bind", "open"},
         StartLoop(mode)
  PROVE  /\ op' \in Op /\ op'.mode = mode /\ op'.pc = mode
         /\ op'.dev = op.dev /\ op'.via = op.via
         /\ op'.ch = ResolveDeviceChannel(op.dev) /\ op'.ch \in Channels
<1>1. ResolveDeviceChannel(op.dev) \in Channels
  BY Loaded, ResolvedChannel
<1> QED
  BY <1>1 DEF StartLoop, Op, Steps

\* A release, whatever comes of it, keeps what is said of the node.
LEMMA KeepReleased ==
  ASSUME IInv, NEW ok \in BOOLEAN, ReleaseRFCOMMDevice(ok), Configurations' \subseteq Configurations
  PROVE  OfNode'
<1>1. /\ node' \in {NoNode, node} /\ promised'.mac = promised.mac
      /\ promised'.saved = promised.saved /\ promised'.kept = (node' # NoNode)
  BY Releasing DEF IInv
<1> QED
  BY <1>1 DEF IInv, OfNode, NodeIsSaved, SavedAs, ChannelIsSaved, SavedChannels

LEMMA KeepFree ==
  ASSUME IInv, Free
  PROVE  IInv'
<1>1. At("free") /\ op \in Op /\ op.dev \in Devices
  BY DEF Free, IInv, TypeOK, OpShape, At
<1>2. PICK ok \in BOOLEAN : ReleaseRFCOMMDevice(ok)
  BY DEF Free
<1>3. ConfigOK' /\ Configurations' \subseteq Configurations
  BY InvConfig, Loading DEF Free
<1>4. /\ op' \in Op /\ op'.mode = "bind" /\ op'.pc = "bind"
      /\ op'.dev = op.dev /\ op'.ch \in Channels
  BY <1>1, InvConfig, Starting DEF Free
<1>5. /\ node' \in {NoNode, node} /\ sudo' \in Tickets
      /\ promised' \in Promised /\ (node' # NoNode => promised'.kept)
  BY <1>2, Releasing DEF IInv
<1>6. TypeOK'
  BY <1>3, <1>4, <1>5 DEF IInv, TypeOK, ConfigOK, Free, Tickets
<1>7. OfAttempt'
  BY <1>1, <1>4, <1>5 DEF OfAttempt, OpShape, OpensSaved, Opening, OpensOnItsChannel,
     BindsItsOwn, CauseIsKnown, At, Loop, Binding
<1>8. OfNode'
  BY <1>2, <1>3, KeepReleased
<1> QED
  BY <1>6, <1>7, <1>8 DEF IInv, OfAttempt, OfNode

LEMMA KeepRelease ==
  ASSUME IInv, Release
  PROVE  IInv'
<1>1. /\ op.pc = "release" /\ op \in Op /\ op.dev \in Devices /\ op.ch \in Channels
      /\ op.mode \in {"bind", "open"}
  BY DEF Release, IInv, TypeOK, OpShape, At, Op, Loop
<1>2. PICK ok \in BOOLEAN : ReleaseRFCOMMDevice(ok)
  BY DEF Release
<1>3. ConfigOK' /\ Configurations' = Configurations /\ LoadConfig' = LoadConfig
  BY InvConfig, KeepingConfig DEF Release
<1>4. op' \in Op /\ op' = [op EXCEPT !.pc = op.mode]
  BY <1>1 DEF Release, Go, Op, Steps
<1>5. /\ op'.pc = op.mode /\ op'.mode = op.mode /\ op'.dev = op.dev /\ op'.ch = op.ch
      /\ op'.via = op.via
  BY <1>1, <1>4 DEF Op
<1>6. /\ node' \in {NoNode, node} /\ sudo' \in Tickets
      /\ promised' \in Promised /\ promised'.mac = promised.mac
      /\ node' # NoNode => promised'.kept
  BY <1>2, Releasing DEF IInv
<1>7. TypeOK'
  BY <1>3, <1>4, <1>6 DEF IInv, TypeOK, ConfigOK, Release, Tickets
<1>8. OpensSaved'
  BY <1>1, <1>3, <1>5, <1>6 DEF IInv, OpensSaved, Opening, SavedAs, At, Loop
<1>9. OfAttempt'
  BY <1>1, <1>5, <1>6, <1>8 DEF OfAttempt, OpShape, OpensOnItsChannel, BindsItsOwn,
     CauseIsKnown, At, Loop, Binding
<1>10. OfNode'
  BY <1>2, <1>3, KeepReleased
<1> QED
  BY <1>7, <1>9, <1>10 DEF IInv, OfAttempt, OfNode

\* A refusal is a cause or leaves it as it was.
LEMMA KeepDenied == cause \in BOOLEAN /\ Denied => cause' \in BOOLEAN
BY DEF Denied

LEMMA KeepBind ==
  ASSUME IInv, Bind
  PROVE  IInv'
<1>1. /\ op.pc = "bind" /\ op \in Op /\ op.dev \in Devices /\ op.ch \in Channels
      /\ op.mode \in {"bind", "open"} /\ op.pc \in Loop
      /\ node \in Node \cup {NoNode} /\ sudo \in Tickets /\ promised \in Promised
      /\ cause \in BOOLEAN
  BY DEF Bind, IInv, TypeOK, OpShape, At, Op, Loop, Tickets
<1> PICK access \in BOOLEAN :
      \E r \in BindRFCOMMDevice(node, [mac |-> op.dev, ch |-> op.ch, access |-> access], sudo) :
        /\ node' = r.node /\ sudo' = r.sudo
        /\ IF r.ok
           THEN Go("access") /\ UNCHANGED cause
           ELSE NextAttempt /\ Denied
        /\ promised' = IF r.node = node THEN promised
                       ELSE [promised EXCEPT !.mac = @ /\ op.mode = "open",
                                             !.channel = FALSE, !.kept = FALSE]
  BY DEF Bind
<1>2. PICK r \in BindRFCOMMDevice(node, [mac |-> op.dev, ch |-> op.ch, access |-> access], sudo) :
        /\ node' = r.node /\ sudo' = r.sudo
        /\ IF r.ok
           THEN Go("access") /\ UNCHANGED cause
           ELSE NextAttempt /\ Denied
        /\ promised' = IF r.node = node THEN promised
                       ELSE [promised EXCEPT !.mac = @ /\ op.mode = "open",
                                             !.channel = FALSE, !.kept = FALSE]
  OBVIOUS
<1>3. /\ r.ok \in BOOLEAN /\ r.sudo \in Tickets /\ r.node \in Node \cup {NoNode}
      /\ r.node # node => node = NoNode /\ r.node.mac = op.dev /\ r.node.ch = op.ch
      /\ r.ok => r.node # node
  <2> DEFINE new == [mac |-> op.dev, ch |-> op.ch, access |-> access]
  <2>1. new \in Node /\ new.mac = op.dev /\ new.ch = op.ch
    BY <1>1 DEF Node
  <2> HIDE DEF new
  <2>2. r \in BindRFCOMMDevice(node, new, sudo)
    BY DEF new
  <2> QED
    BY <1>1, <2>1, <2>2, BindingOutcome
<1>4. /\ promised' \in Promised /\ promised'.saved = promised.saved
      /\ r.node = node => promised' = promised
      /\ r.node # node => /\ promised'.mac = (promised.mac /\ op.mode = "open")
                          /\ ~promised'.channel
  BY <1>1, <1>2 DEF Promised
<1>5. ConfigOK' /\ Configurations' = Configurations /\ LoadConfig' = LoadConfig
  BY InvConfig, KeepingConfig DEF Bind
<1>6. OfNode'
  <2>1. CASE r.node = node
    BY <1>2, <1>4, <1>5, <2>1 DEF IInv, OfNode, NodeIsSaved, SavedAs, ChannelIsSaved, SavedChannels
  <2>2. CASE r.node # node
    <3>1. promised'.mac => SavedAs(op.dev)
      BY <1>1, <1>4, <2>2 DEF IInv, OpensSaved, Opening
    <3>2. NodeIsSaved'
      BY <1>2, <1>3, <1>5, <2>2, <3>1 DEF NodeIsSaved, SavedAs
    <3>3. ChannelIsSaved' /\ SavedChannels'
      BY <1>4, <1>5, <2>2 DEF IInv, ChannelIsSaved, SavedChannels
    <3> QED
      BY <3>2, <3>3 DEF OfNode
  <2> QED
    BY <2>1, <2>2
<1>7. op' \in Op /\ cause' \in BOOLEAN /\ OfAttempt'
  <2>1. CASE r.ok
    <3>1. op' \in Op /\ op' = [op EXCEPT !.pc = "access"]
      BY <1>1, <1>2, <2>1 DEF Go, Op, Steps
    <3>2. /\ op'.pc = "access" /\ op'.mode = op.mode /\ op'.dev = op.dev /\ op'.ch = op.ch
          /\ op'.via = op.via
      BY <1>1, <3>1 DEF Op
    <3>3. OpensSaved'
      BY <1>1, <1>3, <1>4, <1>5, <2>1, <3>2 DEF IInv, OpensSaved, Opening, SavedAs, At, Loop
    <3>4. BindsItsOwn'
      BY <1>1, <1>2, <1>3, <1>4, <2>1, <3>2 DEF BindsItsOwn, At
    <3>5. OpShape' /\ OpensOnItsChannel' /\ CauseIsKnown'
      BY <1>1, <1>3, <1>4, <2>1, <3>2 DEF OpShape, OpensOnItsChannel, CauseIsKnown, At, Loop
    <3> QED
      BY <1>1, <1>2, <2>1, <3>1, <3>3, <3>4, <3>5 DEF OfAttempt
  <2>2. CASE ~r.ok
    <3>1. op.mode = "open" => promised'.mac = promised.mac
      BY <1>1, <1>4 DEF Promised
    <3>2. NextAttempt /\ cause' \in BOOLEAN
      BY <1>1, <1>2, <2>2, KeepDenied
    <3> QED
      BY <1>1, <3>1, <3>2, Retrying, NoAttempt, ToRelease DEF Bind
  <2> QED
    BY <2>1, <2>2
<1>8. TypeOK'
  BY <1>2, <1>3, <1>4, <1>5, <1>7 DEF IInv, TypeOK, ConfigOK, Bind, Tickets
<1> QED
  BY <1>6, <1>7, <1>8 DEF IInv, OfAttempt, OfNode

\* The attempt goes on to the next channel, or gives up.
LEMMA WithoutAccess ==
  ASSUME IInv, op.pc \in {"access", "again", "fix"}, NoAccess, UNCHANGED <<config, promised>>
  PROVE  op' \in Op /\ cause' \in BOOLEAN /\ OfAttempt'
<1>1. op \in Op /\ op.pc \in Loop /\ cause' \in BOOLEAN
  BY KeepDenied DEF NoAccess, IInv, TypeOK, Loop
<1>2. CASE At("again")
  BY <1>1, <1>2, Retrying, NoAttempt, ToRelease DEF NoAccess
<1>3. CASE ~At("again")
  BY <1>1, <1>3, GivingUp, NoAttempt DEF NoAccess
<1> QED
  BY <1>2, <1>3

LEMMA KeepAccess ==
  ASSUME IInv, Access
  PROVE  IInv'
<1>1. /\ op.pc \in {"access", "again", "fix"} /\ op \in Op /\ op.dev \in Devices
      /\ op.ch \in Channels /\ op.mode \in {"bind", "open"}
      /\ op.pc \in {"again", "fix"} => op.mode = "open"
      /\ node \in Node \cup {NoNode} /\ sudo \in Tickets
  BY DEF Access, IInv, TypeOK, OpShape, Op, Loop, Tickets
<1>2. /\ ConfigOK' /\ Configurations' = Configurations /\ LoadConfig' = LoadConfig
      /\ promised' = promised /\ UNCHANGED config
  BY InvConfig, KeepingConfig DEF Access
<1>3. CASE node # NoNode /\ node.access
  <2> DEFINE next == IF At("access") /\ op.mode = "open" THEN "again" ELSE "verify"
  <2>1. Carrier /\ Go(next) /\ UNCHANGED <<node, link, radio, sudo, cause>>
    BY <1>3 DEF Access
  <2>2. next \in {"again", "verify"} /\ (next = "again" => op.mode = "open")
    OBVIOUS
  <2> HIDE DEF next
  <2>3. op' \in Op /\ op' = [op EXCEPT !.pc = next]
    BY <1>1, <2>1, <2>2 DEF Go, Op, Steps
  <2>4. /\ op'.pc = next /\ op'.mode = op.mode /\ op'.dev = op.dev /\ op'.ch = op.ch
        /\ op'.via = op.via
    BY <1>1, <2>3 DEF Op
  <2>5. TypeOK'
    BY <1>2, <2>1, <2>3 DEF IInv, TypeOK, ConfigOK, Access
  <2>6. OpensSaved'
    BY <1>1, <1>2, <2>2, <2>4 DEF IInv, OpensSaved, Opening, SavedAs, At, Loop
  <2>7. OpShape' /\ OpensOnItsChannel'
    BY <1>1, <1>2, <2>1, <2>2, <2>4 DEF IInv, OpShape, OpensOnItsChannel, At, Loop
  <2>8. BindsItsOwn'
    BY <1>1, <1>2, <2>1, <2>2, <2>4 DEF IInv, BindsItsOwn, At, Binding
  <2>9. CauseIsKnown'
    BY <2>1, <2>2, <2>4 DEF CauseIsKnown, Carrier, At
  <2>10. OfNode'
    BY <1>2, <2>1 DEF IInv, OfNode, NodeIsSaved, SavedAs, ChannelIsSaved, SavedChannels
  <2> QED
    BY <2>5, <2>6, <2>7, <2>8, <2>9, <2>10 DEF IInv, OfNode
<1>4. CASE ~(node # NoNode /\ node.access)
  <2>1. PICK r \in privilegedEnsureRFCOMMAccess(node, sudo) :
          /\ node' = r.node /\ sudo' = r.sudo
          /\ IF r.ok THEN UNCHANGED <<op, cause>> ELSE NoAccess
    BY <1>4 DEF Access
  <2>2. /\ r.ok \in BOOLEAN /\ r.sudo \in Tickets /\ r.node \in Node \cup {NoNode}
        /\ r.node = NoNode <=> node = NoNode
        /\ node # NoNode => r.node.mac = node.mac /\ r.node.ch = node.ch
    BY <1>1, <2>1, Accessing
  <2>3. OfNode'
    BY <1>2, <2>1, <2>2 DEF IInv, OfNode, NodeIsSaved, SavedAs, ChannelIsSaved, SavedChannels
  <2>4. op' \in Op /\ cause' \in BOOLEAN /\ OfAttempt'
    <3>1. CASE r.ok
      <4>1. op' = op /\ cause' = cause
        BY <2>1, <3>1
      <4>2. OpensSaved'
        BY <1>2, <4>1 DEF IInv, OpensSaved, Opening, SavedAs, At
      <4>3. OpShape' /\ OpensOnItsChannel' /\ BindsItsOwn' /\ CauseIsKnown'
        BY <1>1, <1>2, <2>1, <2>2, <4>1
        DEF IInv, OpShape, OpensOnItsChannel, BindsItsOwn, CauseIsKnown, At
      <4> QED
        BY <1>1, <4>1, <4>2, <4>3 DEF OfAttempt, IInv, TypeOK
    <3>2. CASE ~r.ok
      BY <1>1, <1>2, <2>1, <3>2, WithoutAccess
    <3> QED
      BY <3>1, <3>2
  <2>5. TypeOK'
    BY <1>2, <2>1, <2>2, <2>4 DEF IInv, TypeOK, ConfigOK, Access, Tickets
  <2> QED
    BY <2>3, <2>4, <2>5 DEF IInv, OfAttempt, OfNode
<1> QED
  BY <1>3, <1>4

LEMMA KeepUnpark ==
  ASSUME IInv, Unpark
  PROVE  IInv'
<1>1. UNCHANGED <<file, cache, node, link, radio, events, sudo, promised>> /\ UNCHANGED config
  BY DEF Unpark, config, outside
<1>2. op.pc \in {"access", "again", "fix"} /\ NoAccess
  BY DEF Unpark, Parked
<1>3. op' \in Op /\ cause' \in BOOLEAN /\ OfAttempt'
  BY <1>1, <1>2, WithoutAccess
<1>4. TypeOK'
  BY <1>1, <1>3 DEF IInv, TypeOK
<1>5. OfNode'
  BY <1>1, InvConfig, KeepingConfig
  DEF IInv, OfNode, NodeIsSaved, SavedAs, ChannelIsSaved, SavedChannels
<1> QED
  BY <1>3, <1>4, <1>5 DEF IInv, OfAttempt, OfNode

LEMMA KeepVerify ==
  ASSUME IInv, Verify
  PROVE  IInv'
<1>1. /\ op.pc = "verify" /\ op \in Op /\ op.pc \in Loop /\ op.dev \in Devices
      /\ op.ch \in Channels
  BY DEF Verify, IInv, TypeOK, OpShape, At, Loop
<1>2. UNCHANGED <<node, link, radio, events, sudo, promised>> /\ UNCHANGED config
  BY DEF Verify, outside
<1>3. ConfigOK' /\ Configurations' = Configurations /\ LoadConfig' = LoadConfig
  BY <1>2, InvConfig, KeepingConfig
<1>4. op' \in Op /\ cause' \in BOOLEAN /\ OfAttempt'
  <2>1. CASE Carrier
    <3>1. op' \in Op /\ op' = [op EXCEPT !.pc = "saveChannel"] /\ cause' = cause
      BY <1>1, <2>1 DEF Verify, Go, Op, Steps
    <3>2. /\ op'.pc = "saveChannel" /\ op'.mode = op.mode /\ op'.dev = op.dev
          /\ op'.ch = op.ch /\ op'.via = op.via
      BY <1>1, <3>1 DEF Op
    <3>3. OpensSaved'
      BY <1>1, <1>2, <1>3, <3>2 DEF IInv, OpensSaved, Opening, SavedAs, At, Loop
    <3>4. OpShape' /\ OpensOnItsChannel' /\ BindsItsOwn' /\ CauseIsKnown'
      BY <1>1, <1>2, <2>1, <3>2
      DEF IInv, OpShape, OpensOnItsChannel, BindsItsOwn, CauseIsKnown, Carrier, At, Loop, Binding
    <3> QED
      BY <3>1, <3>3, <3>4 DEF OfAttempt, IInv, TypeOK
  <2>2. CASE ~Carrier
    <3>1. NextAttempt /\ cause' \in BOOLEAN
      BY <2>2 DEF Verify, IInv, TypeOK
    <3> QED
      BY <1>1, <1>2, <3>1, Retrying, NoAttempt, ToRelease
  <2> QED
    BY <2>1, <2>2
<1>5. TypeOK'
  BY <1>2, <1>3, <1>4 DEF IInv, TypeOK, ConfigOK
<1>6. OfNode'
  BY <1>2, <1>3 DEF IInv, OfNode, NodeIsSaved, SavedAs, ChannelIsSaved, SavedChannels
<1> QED
  BY <1>4, <1>5, <1>6 DEF IInv, OfAttempt, OfNode

LEMMA KeepOpen ==
  ASSUME IInv, Open
  PROVE  IInv'
<1>1. /\ op.pc = "open" /\ op \in Op /\ op.mode = "open" /\ op.dev \in Devices
      /\ op.ch \in Channels
  BY DEF Open, IInv, TypeOK, OpShape, At, Loop
<1>2. UNCHANGED <<node, link, radio, events, sudo, promised, cause>> /\ UNCHANGED config
  BY DEF Open, outside, history
<1>3. ConfigOK' /\ Configurations' = Configurations /\ LoadConfig' = LoadConfig
  BY <1>2, InvConfig, KeepingConfig
<1>4. PICK pc \in {"fix", "saveChannel", "revive"} :
        Go(pc) /\ (pc = "saveChannel" => Carrier)
  BY DEF Open
<1>5. op' \in Op /\ op' = [op EXCEPT !.pc = pc]
  BY <1>1, <1>4 DEF Go, Op, Steps
<1>6. /\ op'.pc = pc /\ op'.mode = op.mode /\ op'.dev = op.dev /\ op'.ch = op.ch
      /\ op'.via = op.via
  BY <1>1, <1>5 DEF Op
<1>7. TypeOK'
  BY <1>2, <1>3, <1>5 DEF IInv, TypeOK, ConfigOK
<1>8. OpensSaved'
  BY <1>1, <1>2, <1>3, <1>6 DEF IInv, OpensSaved, Opening, SavedAs, At, Loop
<1>9. OpShape' /\ OpensOnItsChannel' /\ BindsItsOwn' /\ CauseIsKnown'
  BY <1>1, <1>2, <1>4, <1>6
  DEF IInv, OpShape, OpensOnItsChannel, BindsItsOwn, CauseIsKnown, Carrier, At, Loop, Binding
<1>10. OfNode'
  BY <1>2, <1>3 DEF IInv, OfNode, NodeIsSaved, SavedAs, ChannelIsSaved, SavedChannels
<1> QED
  BY <1>7, <1>8, <1>9, <1>10 DEF IInv, OfNode

LEMMA KeepRevive ==
  ASSUME IInv, Revive
  PROVE  IInv'
<1>1. /\ op.pc = "revive" /\ op \in Op /\ op.mode = "open" /\ op.dev \in Devices
      /\ op.ch \in Channels /\ op.pc \in Loop
  BY DEF Revive, IInv, TypeOK, OpShape, At, Loop
<1>2. PICK ok \in BOOLEAN : ReleaseRFCOMMDevice(ok) /\ (IF ok THEN Go("bind") ELSE NextAttempt)
  BY DEF Revive
<1>3. ConfigOK' /\ Configurations' = Configurations /\ LoadConfig' = LoadConfig
  BY InvConfig, KeepingConfig DEF Revive
<1>4. /\ node' \in {NoNode, node} /\ sudo' \in Tickets
      /\ promised' \in Promised /\ promised'.mac = promised.mac
      /\ node' # NoNode => promised'.kept
  BY <1>2, Releasing DEF IInv
<1>5. op' \in Op /\ OfAttempt'
  <2>1. CASE ok
    <3>1. op' \in Op /\ op' = [op EXCEPT !.pc = "bind"]
      BY <1>1, <1>2, <2>1 DEF Go, Op, Steps
    <3>2. /\ op'.pc = "bind" /\ op'.mode = op.mode /\ op'.dev = op.dev
          /\ op'.ch = op.ch /\ op'.via = op.via
      BY <1>1, <3>1 DEF Op
    <3>3. OpensSaved'
      BY <1>1, <1>3, <1>4, <3>2 DEF IInv, OpensSaved, Opening, SavedAs, At, Loop
    <3>4. OpShape' /\ OpensOnItsChannel' /\ BindsItsOwn' /\ CauseIsKnown'
      BY <1>1, <1>4, <3>2
      DEF OpShape, OpensOnItsChannel, BindsItsOwn, CauseIsKnown, At, Loop, Binding
    <3> QED
      BY <3>1, <3>3, <3>4 DEF OfAttempt
  <2>2. CASE ~ok
    BY <1>1, <1>2, <1>4, <2>2, Retrying, NoAttempt, ToRelease DEF Revive
  <2> QED
    BY <2>1, <2>2
<1>6. TypeOK'
  BY <1>3, <1>4, <1>5 DEF IInv, TypeOK, ConfigOK, Revive, Tickets
<1>7. OfNode'
  BY <1>2, <1>3, KeepReleased
<1> QED
  BY <1>5, <1>6, <1>7 DEF IInv, OfAttempt, OfNode

LEMMA KeepSaveChannel ==
  ASSUME IInv, SaveChannel
  PROVE  IInv'
<1>1. /\ op.pc = "saveChannel" /\ op \in Op /\ op.dev \in Devices /\ op.ch \in Channels
      /\ op.mode \in {"bind", "open"} /\ promised \in Promised /\ node \in Node \cup {NoNode}
  BY DEF SaveChannel, IInv, TypeOK, OpShape, At, Loop, Op
<1>2. UNCHANGED <<node, radio, sudo, cause>>
  BY DEF SaveChannel
<1> DEFINE cfg == withChannel(LoadConfig, op.dev, op.ch)
<1>3. /\ ConfigOK' /\ events' \in 0..MaxEvents
      /\ promised' \in Promised /\ promised'.mac = promised.mac
      /\ OfNode'
  <2>1. CASE LoadConfig = LoadError
    <3>1. Load /\ promised' = promised /\ events' = events
      BY <2>1 DEF SaveChannel
    <3>2. ConfigOK' /\ Configurations' \subseteq Configurations
      BY <3>1, InvConfig, Loading
    <3>3. OfNode'
      BY <1>2, <3>1, <3>2 DEF IInv, OfNode, NodeIsSaved, SavedAs, ChannelIsSaved, SavedChannels
    <3> QED
      BY <1>1, <3>1, <3>2, <3>3 DEF IInv, TypeOK
  <2>2. CASE LoadConfig # LoadError
    <3>1. LoadConfig \in Saved /\ LoadConfig \in Configurations
      BY <2>2, InvConfig, Loaded
    <3>2. /\ cfg \in Saved /\ cfg.mac = LoadConfig.mac
          /\ cfg.channel = [LoadConfig.channel EXCEPT ![op.dev] = op.ch]
          /\ LoadConfig.channel \in [Devices -> {0} \cup Channels]
      BY <1>1, <3>1, RememberTypes DEF Saved
    <3>3. promised.mac /\ node # NoNode => cfg.mac = node.mac
      BY <3>1, <3>2 DEF IInv, NodeIsSaved, SavedAs
    <3>4. (promised.channel \/ op.mode = "bind") /\ ~promised.kept /\ node # NoNode
            => cfg.channel[node.mac] = node.ch
      <4> SUFFICES ASSUME promised.channel \/ op.mode = "bind", ~promised.kept, node # NoNode
                   PROVE  cfg.channel[node.mac] = node.ch
        OBVIOUS
      <4>1. node.mac \in Devices
        BY <1>1 DEF Node
      <4>2. CASE node.mac = op.dev
        <5>1. op.ch = node.ch
          BY <1>1, <4>2 DEF IInv, OpensOnItsChannel, BindsItsOwn, At, Loop, Binding
        <5> QED
          BY <3>2, <4>1, <4>2, <5>1
      <4>3. CASE node.mac # op.dev
        <5>1. op.mode = "open"
          BY <1>1, <4>3 DEF IInv, BindsItsOwn, Binding
        <5>2. LoadConfig.channel[node.mac] = node.ch
          BY <3>1, <5>1 DEF IInv, ChannelIsSaved
        <5> QED
          BY <3>2, <4>1, <4>3, <5>2
      <4> QED
        BY <4>2, <4>3
    <3>5. CASE SaveConfig(cfg) /\ events' = events /\
               promised' = [promised EXCEPT !.channel = @ \/ op.mode = "bind",
                                            !.saved[op.dev] = {op.ch}]
      <4>1. ConfigOK' /\ Configurations' = {cfg}
        BY <3>2, <3>5, InvConfig, Saving
      <4>2. /\ promised' \in Promised /\ promised'.mac = promised.mac
            /\ promised'.kept = promised.kept
            /\ promised'.channel => promised.channel \/ op.mode = "bind"
            /\ promised'.saved = [promised.saved EXCEPT ![op.dev] = {op.ch}]
        BY <1>1, <3>5 DEF Promised
      <4>3. NodeIsSaved'
        BY <1>2, <3>3, <4>1, <4>2 DEF NodeIsSaved, SavedAs
      <4>4. ChannelIsSaved'
        BY <1>2, <3>4, <4>1, <4>2 DEF ChannelIsSaved
      <4>5. SavedChannels'
        BY <1>1, <3>1, <3>2, <4>1, <4>2 DEF IInv, SavedChannels, Promised
      <4> QED
        BY <3>5, <4>1, <4>2, <4>3, <4>4, <4>5 DEF OfNode, IInv, TypeOK
    <3>6. CASE SaveFails(cfg) /\ Event /\
               promised' = [promised EXCEPT !.saved[op.dev] = @ \cup {op.ch}]
      <4>1. ConfigOK' /\ Configurations' \subseteq Configurations \cup {cfg}
        BY <3>2, <3>6, InvConfig, Failing
      <4>2. /\ promised' \in Promised /\ promised'.mac = promised.mac
            /\ promised'.channel = promised.channel /\ promised'.kept = promised.kept
            /\ promised'.saved = [promised.saved EXCEPT ![op.dev] = @ \cup {op.ch}]
        BY <1>1, <3>6 DEF Promised
      <4>3. NodeIsSaved'
        BY <1>2, <3>3, <4>1, <4>2 DEF IInv, NodeIsSaved, SavedAs
      <4>4. ChannelIsSaved'
        BY <1>2, <3>4, <4>1, <4>2 DEF IInv, ChannelIsSaved
      <4>5. SavedChannels'
        BY <1>1, <3>1, <3>2, <4>1, <4>2 DEF IInv, SavedChannels, Promised
      <4>6. events' \in 0..MaxEvents
        BY <3>6, RfcommAssumption DEF Event, IInv, TypeOK
      <4> QED
        BY <4>1, <4>2, <4>3, <4>4, <4>5, <4>6 DEF OfNode
    <3> QED
      BY <2>2, <3>5, <3>6 DEF SaveChannel
  <2> QED
    BY <2>1, <2>2
<1>4. op' \in Op /\ link' \in Link \cup {NoLink} /\ OfAttempt'
  <2>1. CASE op.mode = "bind"
    <3>1. op' \in Op /\ op' = [op EXCEPT !.pc = "saveMAC"] /\ link' = link
      BY <1>1, <2>1 DEF SaveChannel, Go, Op, Steps
    <3>2. op'.pc = "saveMAC" /\ op'.mode = op.mode /\ op'.dev = op.dev /\ op'.ch = op.ch
      BY <1>1, <3>1 DEF Op
    <3>3. OpShape' /\ OpensSaved' /\ OpensOnItsChannel' /\ CauseIsKnown'
      BY <1>1, <2>1, <3>2
      DEF OpShape, OpensSaved, Opening, OpensOnItsChannel, CauseIsKnown, At, Loop
    <3>4. BindsItsOwn'
      BY <1>1, <1>2, <1>3, <3>2 DEF IInv, BindsItsOwn, At, Binding
    <3> QED
      BY <3>1, <3>3, <3>4 DEF OfAttempt, IInv, TypeOK
  <2>2. CASE op.mode # "bind"
    <3>1. Opened
      BY <2>2 DEF SaveChannel
    <3>2. op' \in Op /\ op'.pc = "idle"
      BY <3>1, ConfigAssumption DEF Opened, Idle, Op, Steps
    <3>3. link' \in Link \cup {NoLink}
      BY <1>1, <3>1 DEF Opened, Link, Node, Op, Promised
    <3> QED
      BY <3>2, <3>3, NoAttempt
  <2> QED
    BY <2>1, <2>2
<1>5. TypeOK'
  BY <1>2, <1>3, <1>4 DEF IInv, TypeOK, ConfigOK
<1> QED
  BY <1>3, <1>4, <1>5 DEF IInv, OfAttempt, OfNode

LEMMA KeepSaveMAC ==
  ASSUME IInv, SaveMAC
  PROVE  IInv'
<1>1. /\ op.pc = "saveMAC" /\ op.mode = "bind" /\ op \in Op /\ op.dev \in Devices
      /\ promised \in Promised /\ ~promised.mac
      /\ node # NoNode => node.mac = op.dev
  BY DEF SaveMAC, IInv, TypeOK, OpShape, BindsItsOwn, At, Binding
<1>2. UNCHANGED <<node, link, radio, sudo>>
  BY DEF SaveMAC, outside
<1>3. Idle \in Op /\ Idle.pc = "idle"
  BY ConfigAssumption DEF Idle, Op, Steps
<1> DEFINE cfg == withMAC(LoadConfig, op.dev)
<1>4. CASE LoadConfig = LoadError
  <2>1. Load /\ Fail /\ cause' = cause /\ promised' = promised /\ events' = events
    BY <1>4 DEF SaveMAC
  <2>2. ConfigOK' /\ Configurations' \subseteq Configurations
    BY <2>1, InvConfig, Loading
  <2>3. OfNode'
    BY <1>2, <2>1, <2>2 DEF IInv, OfNode, NodeIsSaved, SavedAs, ChannelIsSaved, SavedChannels
  <2>4. TypeOK' /\ OfAttempt'
    BY <1>2, <1>3, <2>1, <2>2, NoAttempt DEF Fail, IInv, TypeOK, ConfigOK
  <2> QED
    BY <2>3, <2>4 DEF IInv, OfAttempt, OfNode
<1>5. CASE LoadConfig # LoadError
  <2>1. LoadConfig \in Saved /\ LoadConfig \in Configurations
    BY <1>5, InvConfig, Loaded
  <2>2. cfg \in Saved /\ cfg.mac = op.dev /\ cfg.channel = LoadConfig.channel
    BY <1>1, <2>1, RememberTypes DEF withMAC, Saved
  <2>3. CASE SaveConfig(cfg) /\ Go("connect") /\ promised' = [promised EXCEPT !.mac = TRUE]
             /\ cause' = cause /\ events' = events
    <3>1. ConfigOK' /\ Configurations' = {cfg} /\ LoadConfig' = cfg
      BY <2>2, <2>3, InvConfig, Saving
    <3>2. /\ promised' \in Promised /\ promised'.mac /\ promised'.saved = promised.saved
          /\ promised'.channel = promised.channel /\ promised'.kept = promised.kept
      BY <1>1, <2>3 DEF Promised
    <3>3. op' \in Op /\ op' = [op EXCEPT !.pc = "connect"]
      BY <1>1, <2>3 DEF Go, Op, Steps
    <3>4. op'.pc = "connect" /\ op'.dev = op.dev
      BY <1>1, <3>3 DEF Op
    <3>5. TypeOK'
      BY <1>2, <2>3, <3>1, <3>2, <3>3 DEF IInv, TypeOK, ConfigOK
    <3>6. OfNode'
      BY <1>1, <1>2, <2>1, <2>2, <3>1, <3>2
      DEF IInv, OfNode, NodeIsSaved, SavedAs, ChannelIsSaved, SavedChannels
    <3>7. OpensSaved'
      BY <2>2, <3>1, <3>2, <3>4, ConfigAssumption DEF OpensSaved, SavedAs, At
    <3>8. OpShape' /\ OpensOnItsChannel' /\ BindsItsOwn' /\ CauseIsKnown'
      BY <1>1, <3>4 DEF OpShape, OpensOnItsChannel, BindsItsOwn, CauseIsKnown, At, Loop, Binding
    <3> QED
      BY <3>5, <3>6, <3>7, <3>8 DEF IInv, OfNode
  <2>4. CASE SaveFails(cfg) /\ Event /\ Fail /\ Blame /\ promised' = promised
    <3>1. ConfigOK' /\ Configurations' \subseteq Configurations \cup {cfg}
      BY <2>2, <2>4, InvConfig, Failing
    <3>2. OfNode'
      BY <1>1, <1>2, <2>1, <2>2, <2>4, <3>1
      DEF IInv, OfNode, NodeIsSaved, SavedAs, ChannelIsSaved, SavedChannels
    <3>3. events' \in 0..MaxEvents
      BY <2>4, RfcommAssumption DEF Event, IInv, TypeOK
    <3>4. TypeOK' /\ OfAttempt'
      BY <1>2, <1>3, <2>4, <3>1, <3>3, NoAttempt DEF Fail, Blame, IInv, TypeOK, ConfigOK
    <3> QED
      BY <3>2, <3>4 DEF IInv, OfAttempt, OfNode
  <2> QED
    BY <1>5, <2>3, <2>4 DEF SaveMAC
<1> QED
  BY <1>4, <1>5

LEMMA KeepConnect ==
  ASSUME IInv, Connect
  PROVE  IInv'
<1>1. op.pc = "connect" /\ op \in Op /\ op.dev \in Devices
  BY DEF Connect, IInv, TypeOK, OpShape, At
<1>2. UNCHANGED <<node, link, radio, events, sudo, promised, cause>>
  BY DEF Connect, outside, history
<1>3. CASE link # NoLink /\ link.asked = op.dev
  <2>1. op' \in Op /\ op'.pc = "idle" /\ UNCHANGED config
    BY <1>3, ConfigAssumption DEF Connect, Fail, Idle, Op, Steps
  <2>2. TypeOK'
    BY <1>2, <2>1 DEF IInv, TypeOK, config
  <2> QED
    BY <1>2, <2>1, <2>2, ToRest
<1>4. CASE ~(link # NoLink /\ link.asked = op.dev)
  <2>1. Load /\ StartLoop("open")
    BY <1>4 DEF Connect
  <2>2. ConfigOK' /\ Configurations' \subseteq Configurations /\ LoadConfig' = LoadConfig
    BY <2>1, InvConfig, Loading
  <2>3. /\ op' \in Op /\ op'.mode = "open" /\ op'.pc = "open"
        /\ op'.dev = op.dev /\ op'.via = op.via
        /\ op'.ch = ResolveDeviceChannel(op.dev) /\ op'.ch \in Channels
    BY <1>1, <2>1, InvConfig, Starting
  <2>4. TypeOK'
    BY <1>2, <2>2, <2>3 DEF IInv, TypeOK, ConfigOK
  <2>5. OfNode'
    BY <1>2, <2>2 DEF IInv, OfNode, NodeIsSaved, SavedAs, ChannelIsSaved, SavedChannels
  <2>6. OpensSaved'
    BY <1>1, <1>2, <2>2, <2>3 DEF IInv, OpensSaved, Opening, SavedAs, At, Loop
  <2>7. OpensOnItsChannel'
    <3> SUFFICES ASSUME node # NoNode, promised.channel, ~promised.kept, op.dev = node.mac
                 PROVE  op'.ch = node.ch
      BY <1>2, <2>3 DEF OpensOnItsChannel, At
    <3>1. LoadConfig # LoadError /\ LoadConfig \in Configurations
      BY <1>1, InvConfig, Loaded DEF IInv, OpensSaved, Opening, At
    <3>2. LoadConfig.channel[op.dev] = node.ch
      BY <3>1 DEF IInv, ChannelIsSaved
    <3>3. node.ch > 0
      BY ConfigAssumption DEF IInv, TypeOK, Node, Channels
    <3> QED
      BY <2>3, <3>1, <3>2, <3>3 DEF ResolveDeviceChannel
  <2>8. OpShape' /\ BindsItsOwn' /\ CauseIsKnown'
    BY <1>1, <2>3 DEF OpShape, BindsItsOwn, CauseIsKnown, At, Loop
  <2> QED
    BY <2>4, <2>5, <2>6, <2>7, <2>8 DEF IInv, OfNode
<1> QED
  BY <1>3, <1>4

-----------------------------------------------------------------------------
(* What happens around the worker.                                         *)

\* The attempt goes on, knowing the cause when the node or the earbuds changed.
LEMMA Around ==
  ASSUME IInv, TypeOK', UNCHANGED config, op' = op, promised' = promised,
         node' \in {NoNode, node}, cause => cause',
         cause' \/ UNCHANGED <<node, radio>>
  PROVE  IInv'
<1>1. Configurations' = Configurations /\ LoadConfig' = LoadConfig
  BY InvConfig, KeepingConfig
<1>2. OfNode'
  BY <1>1 DEF IInv, OfNode, NodeIsSaved, SavedAs, ChannelIsSaved, SavedChannels
<1>3. OpensSaved'
  BY <1>1 DEF IInv, OpensSaved, Opening, SavedAs, At
<1>4. OpShape' /\ OpensOnItsChannel' /\ BindsItsOwn'
  BY DEF IInv, OpShape, OpensOnItsChannel, BindsItsOwn, At
<1>5. CauseIsKnown'
  BY DEF IInv, CauseIsKnown, Carrier, At
<1> QED
  BY <1>2, <1>3, <1>4, <1>5 DEF IInv, OfNode

LEMMA EventBound ==
  ASSUME TypeOK, Event
  PROVE  events' \in 0..MaxEvents
BY RfcommAssumption DEF Event, TypeOK

LEMMA KeepRadio ==
  ASSUME IInv, NEW d \in Devices, NEW state \in {"off", "on", "sink"}, Radio(d, state)
  PROVE  IInv'
<1>1. events' \in 0..MaxEvents
  BY EventBound DEF Radio, IInv
<1>2. /\ radio' \in [Devices -> {"off", "on", "sink"}] /\ link' \in Link \cup {NoLink}
      /\ cause' = TRUE /\ UNCHANGED <<file, cache, node, sudo, op, promised>>
  BY DEF Radio, Blame, config, IInv, TypeOK
<1>3. TypeOK'
  BY <1>1, <1>2 DEF IInv, TypeOK
<1> QED
  BY <1>2, <1>3, Around DEF config

LEMMA KeepDisconnect ==
  ASSUME IInv, Disconnect
  PROVE  IInv'
<1>1. /\ link' = NoLink
      /\ UNCHANGED <<file, cache, node, radio, events, sudo, op, promised, cause>>
  BY DEF Disconnect, config, history
<1>2. TypeOK'
  BY <1>1 DEF IInv, TypeOK
<1> QED
  BY <1>1, <1>2, Around DEF config

LEMMA KeepTicketExpires ==
  ASSUME IInv, TicketExpires
  PROVE  IInv'
<1>1. events' \in 0..MaxEvents
  BY EventBound DEF TicketExpires, IInv
<1>2. /\ sudo' \in [used : BOOLEAN, fresh : BOOLEAN]
      /\ UNCHANGED <<file, cache, node, link, radio, op, promised, cause>>
  BY DEF TicketExpires, config, outside, history, IInv, TypeOK
<1>3. TypeOK'
  BY <1>1, <1>2 DEF IInv, TypeOK
<1> QED
  BY <1>2, <1>3, Around DEF config

LEMMA KeepNodeGone ==
  ASSUME IInv, NodeGone
  PROVE  IInv'
<1>1. events' \in 0..MaxEvents
  BY EventBound DEF NodeGone, IInv
<1>2. /\ node' = NoNode /\ link' = NoLink /\ cause' = TRUE
      /\ UNCHANGED <<file, cache, radio, sudo, op, promised>>
  BY DEF NodeGone, Blame, config
<1>3. TypeOK'
  BY <1>1, <1>2 DEF IInv, TypeOK
<1> QED
  BY <1>2, <1>3, Around DEF config

LEMMA WarmTickets == WarmupPrivileges \subseteq Tickets
<1> SUFFICES ASSUME NEW ok \in BOOLEAN
             PROVE  [used |-> ok, fresh |-> ok] \in Tickets
  BY Zenon DEF WarmupPrivileges
<1> QED
  BY DEF Tickets

LEMMA KeepCrash ==
  ASSUME IInv, Crash
  PROVE  IInv'
<1>1. events' \in 0..MaxEvents
  BY EventBound DEF Crash, IInv
<1>2. PICK writing \in BOOLEAN : Restart(writing)
  BY DEF Crash, At
<1>3. ConfigOK' /\ Configurations' \subseteq Configurations
  BY <1>2, InvConfig, Restarting
<1>4. /\ link' = NoLink /\ op' = Idle /\ cause' = TRUE /\ sudo' \in WarmupPrivileges
      /\ UNCHANGED <<node, radio, promised>>
  BY DEF Crash, Blame
<1>5. op' \in Op /\ op'.pc = "idle"
  BY <1>4, ConfigAssumption DEF Idle, Op, Steps
<1>6. sudo' \in [used : BOOLEAN, fresh : BOOLEAN]
  BY <1>4, WarmTickets DEF Tickets
<1>7. TypeOK'
  BY <1>1, <1>3, <1>4, <1>5, <1>6 DEF IInv, TypeOK, ConfigOK
<1>8. OfNode'
  BY <1>3, <1>4 DEF IInv, OfNode, NodeIsSaved, SavedAs, ChannelIsSaved, SavedChannels
<1> QED
  BY <1>5, <1>7, <1>8, NoAttempt DEF IInv, OfAttempt, OfNode

-----------------------------------------------------------------------------
(* The invariant holds.                                                    *)

\* A file of an earlier run promises the channels it holds, and nothing else.
LEMMA InitIInv == Init => IInv
<1> SUFFICES ASSUME Init PROVE IInv
  OBVIOUS
<1>1. ConfigOK /\ file # Damaged
  <2>1. file \in FileEntry \cup {Absent}
    <3>1. 0 \in 0..(MaxChannel + 1)
      BY ConfigAssumption
    <3> QED
      BY <3>1 DEF Init, FileEntry
  <2> QED
    BY <2>1, ConfigAssumption DEF ConfigOK, Init
<1>2. /\ op \in Op /\ op.pc = "idle"
  BY ConfigAssumption DEF Init, Idle, Op, Steps
<1>3. loadConfigFromDisk \in Saved
  BY <1>1, DiskType DEF ConfigOK
<1>4. promised \in Promised /\ ~promised.mac /\ ~promised.channel
      /\ promised.saved = [d \in Devices |-> {loadConfigFromDisk.channel[d]}]
  BY <1>3 DEF Init, Promised, Saved
<1>5. sudo \in [used : BOOLEAN, fresh : BOOLEAN]
  BY WarmTickets DEF Init, Tickets
<1>6. TypeOK
  <2>1. radio \in [Devices -> {"off", "on", "sink"}]
    BY DEF Init
  <2>2. events \in 0..MaxEvents
    BY RfcommAssumption DEF Init
  <2>3. node \in Node \cup {NoNode} /\ link \in Link \cup {NoLink} /\ cause \in BOOLEAN
    BY DEF Init
  <2> QED
    BY <1>1, <1>2, <1>4, <1>5, <2>1, <2>2, <2>3 DEF TypeOK, ConfigOK
<1>7. Configurations \subseteq {loadConfigFromDisk}
  BY ConfigAssumption DEF Init, Configurations
<1>8. NodeIsSaved /\ ChannelIsSaved /\ SavedChannels
  BY <1>4, <1>7 DEF NodeIsSaved, ChannelIsSaved, SavedChannels
<1>9. OpShape /\ OpensSaved /\ OpensOnItsChannel /\ BindsItsOwn /\ CauseIsKnown
  BY <1>2 DEF OpShape, OpensSaved, Opening, OpensOnItsChannel, BindsItsOwn, CauseIsKnown,
     At, Loop, Binding
<1> QED
  BY <1>6, <1>8, <1>9 DEF IInv

LEMMA NextIInv == IInv /\ [Next]_vars => IInv'
<1> SUFFICES ASSUME IInv, [Next]_vars PROVE IInv'
  OBVIOUS
<1>1. CASE \E d \in Devices : SwitchTo(d)
  BY <1>1, KeepSwitchTo
<1>2. CASE ConnectBest
  BY <1>2, KeepConnectBest
<1>3. CASE Attempt
  BY <1>3, KeepExists, KeepReady, KeepDiscover, KeepFree, KeepRelease, KeepBind, KeepAccess,
     KeepVerify, KeepOpen, KeepRevive, KeepSaveChannel, KeepSaveMAC, KeepConnect DEF Attempt
<1>4. CASE Unpark
  BY <1>4, KeepUnpark
<1>5. CASE \E d \in Devices, state \in {"off", "on", "sink"} : Radio(d, state)
  BY <1>5, KeepRadio
<1>6. CASE Disconnect \/ TicketExpires \/ NodeGone \/ Crash
  BY <1>6, KeepDisconnect, KeepTicketExpires, KeepNodeGone, KeepCrash
<1>7. CASE UNCHANGED vars
  <2>1. UNCHANGED <<file, cache, node, link, radio, sudo, op, events, promised, cause>>
    BY <1>7 DEF vars
  <2>2. TypeOK'
    BY <2>1 DEF IInv, TypeOK
  <2> QED
    BY <2>1, <2>2, Around DEF config
<1> QED
  BY <1>1, <1>2, <1>3, <1>4, <1>5, <1>6, <1>7 DEF Next

THEOREM Invariant == Spec => []IInv
<1>1. Init => IInv
  BY InitIInv
<1>2. IInv /\ [Next]_vars => IInv'
  BY NextIInv
<1> QED
  BY <1>1, <1>2, PTL DEF Spec

-----------------------------------------------------------------------------
(* What follows.                                                           *)

\* The file, the node, the ticket and the attempt are what the code can make of them.
THEOREM TypeCorrect == Spec => []TypeOK
BY Invariant, PTL DEF IInv

\* Whatever writes fail and wherever the program dies, the file and its copy each hold all
\* that was saved, of these earbuds and the others, or are an error.  Neither an outdated
\* copy nor a read error that passes for an empty configuration makes a Remember call write
\* less than was there.  That the file is not cut short is no part of this: it may be.
THEOREM SavedOrError == Spec => []ReadsAllOrNothing
<1>1. IInv => ReadsAllOrNothing
  BY InvConfig, Loaded DEF IInv, SavedChannels, NodeIsSaved, SavedAs, ReadsAllOrNothing, Configurations
<1> QED
  BY <1>1, Invariant, PTL

\* On a node whose channel and address were saved, an attempt saves for no earbuds but those
\* it is bound to, and no channel but the one it is on, unless a release, done or failed,
\* left the node in place.
THEOREM WorkingChannelStored == Spec => []StoresWorkingChannel
<1>1. IInv => StoresWorkingChannel
  <2> SUFFICES ASSUME IInv, At("saveChannel"), node # NoNode, promised.channel, promised.mac
               PROVE  op.dev = node.mac /\ (op.ch = node.ch \/ promised.kept)
    BY DEF StoresWorkingChannel
  <2>1. op.mode = "open"
    BY DEF IInv, BindsItsOwn, Binding, At, TypeOK, Op
  <2>2. op.dev = node.mac
    BY <2>1, InvConfig, Loaded DEF IInv, NodeIsSaved, OpensSaved, Opening, SavedAs, At, Loop
  <2>3. ~promised.kept => op.ch = node.ch
    BY <2>1, <2>2 DEF IInv, OpensOnItsChannel, At, Loop
  <2> QED
    BY <2>2, <2>3
<1> QED
  BY <1>1, Invariant, PTL

\* SwitchTo never gives the session the node of other earbuds, and ConnectBest only one
\* that no Bind had finished with.  Links are made in SaveChannel alone, so it is enough
\* to look at that step.
THEOREM LinkIsAsked == Spec => []LinkReachesAskedDevice
<1>1. Init => LinkReachesAskedDevice
  BY DEF Init, LinkReachesAskedDevice
<1>2. IInv /\ LinkReachesAskedDevice /\ [Next]_vars => LinkReachesAskedDevice'
  <2> SUFFICES ASSUME IInv, LinkReachesAskedDevice, [Next]_vars
               PROVE  LinkReachesAskedDevice'
    OBVIOUS
  <2>1. CASE link' \in {link, NoLink}
    BY <2>1 DEF LinkReachesAskedDevice
  <2>2. CASE link' \notin {link, NoLink}
    <3>1. SaveChannel /\ op.mode # "bind"
      BY <2>2
      DEF Next, Attempt, vars, SwitchTo, ConnectBest, Exists, Ready, Discover, Free, Release, Bind,
          Access, Verify, Open, Revive, SaveChannel, SaveMAC, Connect, Unpark, Radio, Disconnect,
          TicketExpires, NodeGone, Crash, outside
    <3>2. /\ op.pc = "saveChannel" /\ op.mode = "open" /\ node # NoNode
          /\ link' = [asked |-> op.dev, peer |-> node.mac, via |-> op.via, bound |-> promised.mac]
      BY <2>2, <3>1 DEF SaveChannel, Opened, At, IInv, TypeOK, Op
    <3>3. op.via \in {"existing", "bind"} /\ promised.mac \in BOOLEAN
      BY DEF IInv, TypeOK, Op, Promised
    <3>4. promised.mac => node.mac = op.dev
      BY <3>2, InvConfig, Loaded DEF IInv, NodeIsSaved, OpensSaved, Opening, SavedAs, At, Loop
    <3>5. op.via = "bind" => promised.mac
      BY <3>2 DEF IInv, OpensSaved, Opening, Loop
    <3> QED
      BY <3>2, <3>3, <3>4, <3>5 DEF LinkReachesAskedDevice
  <2> QED
    BY <2>1, <2>2
<1> QED
  BY <1>1, <1>2, Invariant, PTL DEF Spec

\* An attempt that ends without a link has met a reason since it began, or stands before
\* one of the four leftovers that the code does not mend.
THEOREM FailureExplained == Spec => FailureHasCause
<1>1. IInv /\ [Next]_vars =>
        [~At("idle") /\ op'.pc = "idle" => link' # NoLink \/ cause' \/ LeftBehind]_vars
  <2> SUFFICES ASSUME IInv, Next, ~At("idle"), op'.pc = "idle"
               PROVE  link' # NoLink \/ cause' \/ LeftBehind
    OBVIOUS
  <2>1. op \in Op
    BY DEF IInv, TypeOK
  <2>2. CASE \E d \in Devices : SwitchTo(d)
    BY <2>2 DEF SwitchTo
  <2>3. CASE ConnectBest
    BY <2>3 DEF ConnectBest
  <2>4. CASE Unpark \/ NodeGone \/ Crash
          \/ \E d \in Devices, state \in {"off", "on", "sink"} : Radio(d, state)
    BY <2>4 DEF Unpark, NoAccess, Denied, NodeGone, Crash, Radio, Blame
  <2>5. CASE Disconnect \/ TicketExpires
    BY <2>5 DEF Disconnect, TicketExpires, At
  <2>6. CASE Exists
    BY <2>1, <2>6 DEF Exists, Go, Op
  <2>7. CASE Ready \/ Discover
    BY <2>1, <2>7 DEF Ready, Discover, Go, Blame, Op
  <2>8. CASE Free
    BY <2>1, <2>8 DEF Free, StartLoop, Op
  <2>9. CASE Release
    BY <2>1, <2>9 DEF Release, Go, Op
  <2>10. CASE Bind
    BY <2>1, <2>10 DEF Bind, Denied, Go, Op
  <2>11. CASE Access
    BY <2>1, <2>11 DEF Access, NoAccess, Denied, Go, Op, At
  <2>12. CASE Verify
    BY <2>1, <2>12 DEF IInv, CauseIsKnown, Verify, Go, Op
  <2>13. CASE Open
    <3>1. \E pc \in {"fix", "saveChannel", "revive"} : Go(pc)
      BY <2>13 DEF Open
    <3> QED
      BY <2>1, <3>1 DEF Go, Op
  <2>14. CASE Revive
    <3>1. CASE ReleaseRFCOMMDevice(TRUE) /\ Go("bind")
      BY <2>1, <3>1 DEF Go, Op
    <3>2. CASE ReleaseRFCOMMDevice(FALSE)
      BY <2>14, <3>2, Releasing DEF IInv, LeftBehind, Revive, At
    <3> QED
      BY <2>14, <3>1, <3>2 DEF Revive
  <2>15. CASE SaveChannel
    <3>1. node # NoNode \/ cause
      BY <2>15 DEF SaveChannel, IInv, CauseIsKnown
    <3>2. CASE op.mode = "bind"
      BY <2>1, <2>15, <3>2 DEF SaveChannel, Go, Op
    <3>3. CASE op.mode # "bind"
      <4>1. cause' = cause /\ Opened
        BY <2>15, <3>3 DEF SaveChannel
      <4>2. node # NoNode => link' \in Link
        BY <2>1, <2>15, <4>1 DEF Opened, SaveChannel, At, IInv, OpShape, Loop, TypeOK, Link, Node,
           Op, Promised
      <4> QED
        BY <3>1, <4>1, <4>2, RfcommAssumption
    <3> QED
      BY <3>2, <3>3
  <2>16. CASE SaveMAC
    BY <2>1, <2>16 DEF SaveMAC, LeftBehind, Go, Blame, Op
  <2>17. CASE Connect
    BY <2>1, <2>17 DEF Connect, StartLoop, outside, Op
  <2> QED
    BY <2>2, <2>3, <2>4, <2>5, <2>6, <2>7, <2>8, <2>9, <2>10, <2>11, <2>12, <2>13, <2>14, <2>15,
       <2>16, <2>17 DEF Next, Attempt
<1> QED
  BY <1>1, Invariant, PTL DEF Spec, FailureHasCause
=============================================================================
