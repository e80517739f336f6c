# Nothing helper in TLA+

A verification development for `nothing_helper`, the desktop companion of Nothing
and CMF earbuds. The program talks to the earbuds over one RFCOMM link, with many
goroutines around that link: read loops, the device worker of the window, tickers,
probes, searches and the shutdown path. The modules here model that concurrency
from the code under `src/`, TLC checks them on small instances and TLAPS proves the
most important results for every value of the constants.

    tlc -workers 2 -config MCSession.cfg MCSession      # any run of the table below
    tlapm SessionProofs.tla                             # the proofs

## Inventory

### The parts, their state and how they interact

| Component | State | Operations | What makes it correct |
|---|---|---|---|
| `session` link and requests (`internal/session/session.go`) | `transport`, `device`, `pending`, live state (batteries, earbuds, config, dual list), the mutexes `connectMu`, `findMu`, `rxMu`, `txMu`, `mu`; the process-wide frame counter of `spp` | `Connect`, `Send`, `Close`, `readLoop`, `finalizeDisconnect` | one link at a time; nothing of an old link is seen on a new one; one report per lost link; no call hangs |
| `session` find (`internal/session/find.go`) | `activeFind`, sensor readings with their time | `FindEarbud`, `stopFindLocked`, the check in `Send` | rings only out of the ear, on the asked link, and never stays ringing |
| `session` event bus (`events_publish.go`) | bounded channels of subscribers | `publish`, `publishPriority`, `Subscribe` | the state a listener ends up with agrees with the session |
| `session` probe, scan, polling | none of its own | `initialProbe`, `RunQueryScan`, `StartBatteryPolling` | asks the earbuds that are connected, all of it, and nothing forbidden |
| `ui/companion` | `queue`, `pending`, `background`, `generation`, `auto`, `target`, `findCancel` | `Start`, `submit`, `worker`, `Connect`, `Disconnect`, `Feature`, `Find`, ... | an action of the user never reaches another device; the queue's counters are right; a disconnect is final |
| `ui/companion` microphone (`walkie_talkie.go`) | the confirmed mode in `config` | `WalkieTalkie`, `writeMicMode` | both switches end up consistent, or the failure is reported |
| `connect` | none (works on the session and the nodes) | `SwitchTo`, `ConnectBest`, auto-connect loop | connects to the asked device only |
| `bt` nodes and channels, privileges (`bt.go`, `privilege.go`, the polkit helper) | the bound node, the sudo ticket | bind, release, revive, open with deadline, channel probe | the opened node belongs to the address that was asked for; an attempt fails for a reason of its own |
| `bt` configuration | a cached JSON file | load, remember, save | what is read is all that was saved, or an error; a saved channel is the one that works |
| `notify` | what was notified, low flags | `processEvent`, `checkLowBattery` | one notification per drop, per device |
| `ui/dualprompt`, `dualpolicy` | prompt shown, declined | `OnSnapshot`, `OnDisconnected`, `Decline` | one prompt per connection |
| `app` | once flag | `Shutdown`, `Run` | the session is closed once, whoever asks |
| `spp` | the frame counter | encode, decode, `ReadPacket`, parsers, write rules | what is decoded is what was sent; the reader resynchronises; no forbidden command is written |
| `presenter`, `actions`, `tray`, `trace`, `audio`, `security`, `cmd/*`, packaging | presentation, logging, external commands, pure string functions | | |

Users, the tray and the tickers of `ui/companion` queue work; its one worker calls
`connect`, which calls `Session.Connect` and `Close`, and `Session.Send` for
everything else. The read loop of each transport calls back into the session, which
publishes events to the companion, the notifier and the tray. The mutexes of the
session are the only thing that orders them.

### What is hard here

* Goroutines of several links run at once: after a reconnect the read loop, the
  probe and the sends of the old transport go on until they notice.
* A link ends in three places (read loop, failed write, `Close`) that race with each
  other and with the next `Connect`.
* Sends write without `mu` and come back to a session that may have a new link.
* A search keeps a physical sound on while links break, writes block and users
  cancel, close and reconnect.
* Events go through bounded channels that drop and evict.
* Time limits: closing a transport, waiting for a sensor, the grace of `Close`.

`PROJECT.json` lists each of these hazards at its line with the property that would
catch it, or why there is none yet.

## The modules

### Session: the link (`Session.tla`, `MCSession.tla`)

Every goroutine is a one-shot actor: a call of `Connect`, `Send` or `Close`, and one
read loop per transport. A transport is named after the `Connect` that opened it. A
critical section of `s.mu` is straight-line code and becomes one atomic step; the
other four mutexes stay locked over several steps and are variables that hold their
owner (`connectMu` over a whole `Connect`, `rxMu` over the handling of a packet,
`txMu` from the check of a command to its write, `findMu` over `Close`).

| State | Code |
|---|---|
| `transport`, `device`, `pending` | `s.transport`, `s.device.MAC` (kept after a disconnect), `s.pending` |
| `live` | the links whose packets built batteries, earbuds, config and dual list |
| `fsn` | `txFSN.val` of `spp/frame.go`, modulo `FSNLimit` (254 in the code) |
| `dial`, `loop`, `send`, `close` | where each call or loop is |
| `fin`, `owed` | an actor inside `finalizeDisconnect`: the transport to tear down, then the report it has to publish |
| `dead`, `replies` | the kernel's side of a transport |
| `up`, `down` | history of `EventConnected` and `EventDisconnected` |

Actions follow the calls: `Connect`, `AlreadyLinked`, `Open`/`OpenFails`, `Swap`
(`swapConnectTransport`), `Reset` (`spp.ResetFSN`), `Announce`; `LoopStart`,
`Receive`, `ReadFails`, `Deliver`, `BadFrame`, `MatchRequest`, `Record`; `TakeFSN`,
`NotConnected`, `Register`, `CheckPasses`/`CheckFails` (microphone and find commands),
`Write`/`WriteFails`, `Written`, `Failed`; `Close`, `TearDown`, `Stale`, `Report`.
What the parsed payloads say is data: only which link a packet came from is kept.

`LinkLife.tla` is the abstract specification: at most one current link, each current
once, announced once, and reported once if it was torn down (and not if it was
replaced). `Session` refines it with `link <- transport`, `used <-` the dials that
went through the swap and `owing <-` the transports in `owed`.

### Find: ringing an earbud (`Find.tla`, `MCFind.tla`)

Links are installed and torn down in one step here; a write is not. It begins in one
step (`Send` captures the link), and ends in `Written` or `WriteFails`, possibly much
later, and a failing write may or may not have reached the earbuds (`Rings`, `bell`). The
search follows `FindEarbud` line by line: `Call`, `Lock` (`connectMu`), `Register` or
`LinkChanged` (`findMu`), `RequestStatus`, `SensorAnswered`/`SensorSilent`, `Start`,
`StartChecked` (the check inside `Send`), the ring loop `RingEnds`, `RingUnsafe`,
`Poll`/`PollUnsent`, the deferred `Stop`/`NoStop`, `Finish` (`close(active.done)`)
and `Release`. `CloseNow`, `CloseCancels`, `FindStopped`, `FindStuck` and `CloseLink`
are `Close` with `stopFindLocked`. Time is a `Tick` that ages the sensor reading and
counts timers down; nothing limits how late a goroutine runs.

### EventBus: telling the listeners (`EventBus.tla`, `MCEventBus.tla`)

Every call of `publish` is a one-shot actor that has made a change of its own before
(`Change`); an event is named after its call. `Dispatch` copies the list of subscribers
under `s.mu`; then the call serves one channel after another without a lock: `Put`,
`DropPlain`, or for a priority event `Full`, `Evict` and `Retry`, the three selects of
`publishPriority`, between which any other goroutine may run. A listener takes an event
(`Receive`) and looks at a `Snapshot` (`Look`), which shows every change made so far, or
leaves without unsubscribing (`Leave`). The order in which a call serves its listeners
is left open. `s.events`, which nobody but the tests reads, is not modelled.

### Companion: queue, worker, tokens and ticker (`Companion.tla`, `MCCompanion.tla`)

Every call of a user is a one-shot actor whose `pc` goes through the call in its
caller's goroutine (`Calling`), the queue, and the job in the worker (`Running`). Calls
in `Window` come from the one goroutine of the window, one at a time; the tray's come
from goroutines of their own. The ticker goes round for ever; a job of it is named
`Ticker`. A critical section of `c.mu` is one step, and so is a `Snapshot` of the
session. What a call remembers between its steps is the record `job`.

| State | Code |
|---|---|
| `queue`, `running`, `pending`, `background` | `c.queue`, the worker's job, `c.pending`, `c.background` |
| `auto`, `target`, `generation` | the same fields of `Controller` |
| `findCancel`, `cancelled`, `stopping` | `c.findCancel`; the contexts that are cancelled; the cancel function that `StopFind` read |
| `job[j].mac`, `.generation` | the token of `c.token()` |
| `tick` | what the ticker read of `auto` and `pending` |
| `link`, `macs`, `device` | the session: links numbered as they come, the address behind each |
| `unread` | link events on their way to the event loop that increments `generation` |
| `job[j].reached`, `.readback`, `.stood`, `.lagging` | history: the links a job used and stood on |

`Connect`, `NameTarget`, `TakeGoal`; `Disconnect`, `StopFind`, `AutoOff`; `Feature` or
`DualPeer`, `TokenMAC`, `TokenGeneration`; `Find`, `TakeSlot`, `Undo` are the calls.
`Accept` and `Refuse` are `submitWork`; `Take` and `Finish` are the worker around a job;
`Same` and `Compare` are `sameConnection`; `Write`, `Wait`, `Read` are
`executeAndReadback`, which also stands for the background refresh of the ticker;
`CheckStopped`, `Ring`, `RingEnds`, `Clear` are the job of a search; `SwitchTo`, `Bind`,
`ConnectBest`, `ConnectFails`, `RunDisconnect` are the connection jobs. An event that a
full channel evicted is one that stays unread, so `ChangeNoticed` claims nothing
about it.

A tick that read `auto` before a `Disconnect` turned it off still connects after it; the
model has this behaviour, and no property forbids it, because the repository does not
say which of the two should win.

`Feature` looks at one `Snapshot` for the feature and takes the address from a second
one; the properties speak of the second, which is what the job is bound to.

### Rfcomm, Privilege, DeviceConfig: from "connect" to an open node

`Rfcomm.tla` is one attempt of `connect.Manager` to get a link, step by step down to
`/dev/rfcommN`. Only the worker of the companion makes attempts, one at a time; around it
the earbuds go off and on, the node disappears, the sudo ticket expires and the program
dies between any two steps (`Crash`). `op` is the attempt: its `pc`, whether it is in the
loop that binds or the one that opens (`mode`), how it came to its node (`via`), and the
channels it has tried.

| State or action | Code |
|---|---|
| `node`, `link`, `radio` | what the kernel has bound to the path; `session.device` and the earbuds really behind it; the earbuds |
| `sudo.used`, `sudo.fresh` | `sudoTicketValid`, and whether the ticket still is |
| `SwitchTo`, `ConnectBest`, `Exists`, `Ready`, `Discover`, `Free` | `connect.Manager` up to the call of `Bind` |
| `Bind`, `Access`, `Verify`, `SaveChannel`, `SaveMAC` | `bt.BindRFCOMMWithProbe` for one channel and `Manager.Bind` |
| `Access` at `access`, `again`, `fix` | `EnsureRFCOMMDeviceAccess` after a bind, once more before a revived node is opened, and on a node without rights; the plain open in it may park (`Parked`, `Unpark`). `NoAccess` ends the loop, except at `again`, whose error goes back as that of a revive (bt.go:281) and lets the loop try the next channel |
| `Connect`, `Open`, `Revive`, `Release` | `openRFCOMMOnChannel`: the node as it is, else release, bind and access again |
| `NextAttempt`, `GiveUp` | `probeRFCOMMChannels`, and `ConnectBest` going on to discover |
| `promised` | history: what `Bind` and the `Remember` calls reported of the node that was bound last (`mac`, `channel`), whether a release has left it in place since (`kept`), and which channels the file may hold (`saved`) |
| `cause` | history: this attempt met a reason of its own to fail |
| `LeftBehind` | what earlier attempts left: a file that cannot be read, a node that is not released, an expired ticket, a wrong channel |
| `Waiting` | the calls without a limit: the plain open, the dialog for the password, the list of sinks |

`Privilege.tla` has no variables: each operator is the set of outcomes of one privileged
command (as the user, by `sudo`, by the polkit helper), and `BindRFCOMMDevice`,
`releaseRFCOMMNumber` and `privilegedEnsureRFCOMMAccess` combine them as `Mode` says. Whether
sudo runs a command is what `buildSudoCommand` says *when there is an answer*: while no
password was given (`asksPassword`) the call waits for the user, and `FairSpec` does not
assume that it returns.
`DeviceConfig.tla` is the file of devices and its copy in memory: `Load`, `SaveConfig`,
`SaveFails` (the copy has changed, the file is damaged or as before) and `Restart` (a
crash while saving leaves a damaged file), the migration from the old file (`Legacy`) and
`sanitizeConfig`.

### Spp, Decode, Requests: what is asked of the earbuds and what is shown

`Spp.tla` has the tables that decide: models and their features, the commands with their
write rules, `FeatureCommandPacket` and `ValidateScanRange`. `Decode.tla` turns bytes
into state: `MarshalBinary` and `ReadPacket` with its resynchronisation (a stand-in for the
CRC, which the program reads and never compares), and the parser of each command. Both are
pure operators; `Requests` runs them against earbuds that encode with operators of their
own (`Encode`, `EncodeEvent`, `EncodePairs`, `EncodePeer`), so what is decoded is compared
with what was encoded and not with itself. An answer about noise reduction has two
triples, mode and level; its event has the mode alone (`EventValue`), as in the fixture
spp_test.go:143.

`Requests.tla` is the dialogue. A send is one step here (`Session` has its steps), and so
is a reconnect; several goroutines talk at once:

| State or action | Code |
|---|---|
| `shown` | `model`, `config`, `batteries`, `earbuds`, `dualList` of the session |
| `tx`, `rx` | packets to the earbuds; the bytes of each write of theirs |
| `probe[l]` | `initialProbe` and `probeConfig` of connection `l`: the next query, the model it read, and whether the connection changed since its last look (`raced`) |
| `ProbeSends`, `ProbeSkips`, `ProbeStops` | one query: sent, not for this model, no longer this device |
| `Poll`, `Later` | the polling of batteries; `afterDelay` of the dual follow-ups |
| `job`, `Ask`, `JobStep` | a job of the worker as the list of what is left to do: `Feature`, `Refresh`, `RefreshPeers`, `DualPeer`, `WalkieTalkie` (`writeMicMode`, `requireCapture`), a scan, a catalogue command |
| `Read`, `handleRaw` | `readLoop`: a packet, more bytes to wait for, or a failure that ends the link |
| `Serve`, `Changes`, `BatteryChanges`, `PeersChange`, `SendsPacket`, `SendsBytes` | the earbuds (external): answers in order (none for a feature they lack), a SET obeyed or refused, changes with and without an event, unknown packets and noise |
| `past`, `owed`, `guessed` | history: what was true since the link is up; settings that changed without telling and were not asked for since; batteries from unknown packets |

What earbuds may be and send is assumed by name: `IsState` (a value of each setting their
model has, which the program has a label for; names of peers that are as they are shown),
`SettingsAssumption` of those at first, `NewsAssumption` of what happens to them,
`CaseAssumption` that the battery of the case has one of its two names
(`BatteryCaseSource`). `AsksAssumption` says what users can ask for.

The generation that `sameConnection` compares may lag, so `SameConnection` may say no at
any time, and yes for the same earbuds on a later link.

## The runs

| Run | Result | Shows |
|---|---|---|
| `session` (`MCSession.cfg`) | pass, 1.1 million states | `TypeOK`, `LiveStateOfCurrentLink`, `PendingOnCurrentLink`, `IdempotentConnect`, `LinkLifeRefined` |
| `session_live` (`MCSessionLive.cfg`) | pass, 0.1 million | `DeadLinkReported`, `CallsReturn` under `FairSpec` |
| `session_fsn` (`MCSessionFSN.cfg`) | violation, as expected | `PairedWithOriginator`: see Findings |
| `find` (`MCFind.cfg`) | pass, 1.5 million | `TypeOK`, `RingsAskedLink`, `NeverLeftRinging`, `CloseWaitsForStop`, `StartsOnFreshReading` |
| `find_live` (`MCFindLive.cfg`) | pass, 0.2 million | `FindReturns`, `CloseReturns` under `FairSpec` |
| `find_stop` (`MCFindStop.cfg`) | violation, as expected | `FailedStartIsStopped`: see Findings |
| `bus` (`MCEventBus.cfg`) | pass, 29 thousand | `TypeOK`, `NothingMissed`, and `ViewCatchesUp` under `FairSpec` |
| `companion` (`MCCompanion.cfg`) | pass, 1.8 million | `TypeOK`, `CountersMatch`, `BackgroundYields`, `ReachesAskedDevice`, `ChangeNoticed`, `ReadbackOnSameLink` |
| `companion_find` (`MCCompanionFind.cfg`) | pass, 1.6 million | `SlotHeld`, and `BusyEnds`, `ReconnectTried` under `FairSpec`, which lets calls without a limit never return |
| `rfcomm` (`MCRfcomm.cfg`) | pass, 1.9 million | `TypeOK`, `LinkReachesAskedDevice`, `StoresWorkingChannel`, `ReadsAllOrNothing`, `FailureHasCause`, and `AttemptEnds` under `FairSpec` |
| `rfcomm_channel` (`MCRfcommChannel.cfg`) | violation, as expected | `RemembersWorkingChannel`: see Findings |
| `requests` (`MCRequests.cfg`) | pass, 0.4 million | `TypeOK`, `ShownWasReported`, `QuietAgrees`, `OnlyAllowedTraffic`, `WalkieNeedsSuperMic`, and `ConnectionIsProbed` under `FairSpec` |

Bounds.
* `session`: two `Connect`s, two `Send`s (both with the check under `txMu`), one
  `Close`, one address beside the empty one, frame numbers modulo 2. Two links are
  what every hazard of this module needs: an old one and a new one; one address
  and the empty one give equal, different and unknown devices; two numbers give the
  wrap-around and the collision. The other disjunct of `CanWrite` (unchecked sends)
  is exercised by `session_live`.
* `session_live`: one `Send`, without the symmetry that would be unsound here.
* `session_fsn`: `FSNLimit = 8` shows that the collision is no effect of a small
  range.
* `find`: two searches, one `Close`, two links; every timer is one tick. Timers run
  out in any order relative to the steps, because steps take no time, so longer
  ones add no order.
* `find_live`: one link and `MaxAge = 0` keep the liveness check small; a reading is
  stale one tick after it arrived.
* `bus`: a channel of two overflows with the third of four events; one listener, since
  listeners share nothing but the order in which a call serves them.
* `companion`: a SET, a reconnect of the tray and the ticker are one more than a queue
  of two holds while the worker is busy; two devices and two links (`MaxLinks`) give a
  token on the one and a job on the other, and the same device on a new link.
* `companion_find`: two searches compete for the slot; a queue of one refuses calls and
  the ticker while a search runs and another job waits; one link is enough because no
  search outlives the first failed check. When `MaxLinks` is used up an attempt to connect
  still happens, and fails. There is no symmetry, which would be unsound for liveness.
* `rfcomm`: two earbuds on different channels, the second on the default one, so that a
  loop succeeds at its first and at its second channel; the old file has a channel out of
  range and an outdated one; `Mode = "auto"` contains the outcomes of the
  other modes. `MaxEvents = 2` events around the worker (a radio, the node, the ticket, a
  failed write, a crash) make pairs of faults; attempts and links are not bounded.
  `rfcomm_channel` is the same instance.
* `requests`: an Ear (3), which is named and has all features, and a model that is only
  known by its identity packet and calls its case `stereo`. Three units of `MaxEvents`
  are shared by connections, polls, requests and news. A connection counts once and so
  does switching walkie-talkie off, which is therefore met by a reconnect to the same or
  the other earbuds between any two of its steps; everything else counts twice, and meets
  one connection with its probe. `MaxInFlight = 2` packets may cross. `Layout` is how a peer's
  name is put: `"length"` here; `"fixed"` and `"bare"` are other values of the constant.

Fairness. `Session!FairSpec` assumes `WF_vars(System)`: the runtime keeps running
some goroutine that can run, and opens and writes return (`openFileWithTimeout` polls
to a deadline; the kernel fails the I/O of a link whose peer is gone). Nothing is
assumed of users, tickers, the earbuds, or of `c.Close()`, which may never take
effect. It is weak fairness of the disjunction only: no actor loops without outside
input, so no single goroutine or mutex needs more. `Find!FairSpec` assumes weak
fairness of each goroutine and of time, that a write on a broken link fails in the
end (a write on a link that takes data is an ordinary step of its goroutine), and strong
fairness of `RingEnds`: Go's `select` picks at random among ready cases, so a timer
case that stays ready is not passed over for ever. A write that blocks for ever is
allowed: `FindReturns` excludes it (`Stuck`), `CloseReturns` does not.
`EventBus!FairSpec` assumes weak fairness of every call in progress and of every
listener that has an event. `Companion!FairSpec` assumes that some call in progress, the job of the worker and the
ticker go on; users need not call, and events may stay unread. Of the job it assumes so
only outside the calls that the code sets no limit to (`Waits`): a write to the earbuds,
`FindEarbud`, and a connect or a bind, which may park in bt.go:334 or wait for a password
(controller.go:415). A job may stay there for ever; `BusyEnds` and `ReconnectTried`
except exactly this (`<>[]WorkerWaits`). When a write or a search returns is what
`session_live` and `find_live` are about.
`Rfcomm!FairSpec` assumes that an attempt goes on while a step of it can be taken, outside
the calls without a limit (`Waiting`): the plain open of `EnsureRFCOMMDeviceAccess` on earbuds
that do not answer, each command that asks for the password (bt.go:424), and `pactl`
(sink_linux.go:85), which is run for earbuds that are connected. `AttemptEnds` excepts an
attempt that stays in one of these. All the other commands run with a timeout.
`Requests!FairSpec` assumes that the goroutines of the probes, the delayed queries, the
worker and the read loop go on, and that connected earbuds answer; users, news, polls and
connections are free. In `Requests` and `Companion` weak fairness is spelled out: the
enabling conditions (`CanRead`, `ProbeGoesOn`, `LaterGoesOn`; `TickGoesOn`, `Calls`;
`JobGoesOn` in both) and, in `Companion`, what tells a step of the callers and of the worker
(`Leaves`), since TLC finds them too slowly.

`CHECK_DEADLOCK` is on in the runs of `Session`, `Find` and `Rfcomm`; in `EventBus`,
`Companion` and `Requests` everything may be served with all goroutines waiting, so it is
off. `Session` has a `Rest` step for the state in
which every call returned, and a real deadlock is still one since `Rest` asks that
nobody is busy.

## Findings

1. *Two requests of one link with one frame number* (`session_fsn`).
   `installConnectTransport` makes the new transport visible, unlocks, and only then
   calls `spp.ResetFSN` (session.go:302), and `Send` takes its number (567)
   before it captures the link (570). A send between the two and one after the reset
   share a number, and `matchRequest` pairs the first answer with the second request.
   Its comment says that it pairs a response with the originating request.
   The pairing is used as a label in logs.
2. *A failed START is not stopped* (`find_stop`). find.go:167 says "Install stop before
   start: even a failed write may have reached the device". But a `Send` whose write
   fails tears the link down itself (session.go:627), so the deferred STOP sees
   another transport (`nil`) and is skipped. `NeverLeftRinging` states what does hold:
   as long as the link is up, STOP was written.
3. *The channel that is saved is not the one that works* (`rfcomm_channel`).
   `openRFCOMMOnChannel` (bt.go:564) opens a node that exists as it is, and bt.go:543
   saves the channel that the loop was trying. In the run a bind on channel 1 fails, the
   bind on channel 2 makes the node and reports an error, so nothing is saved; the next
   `ConnectBest` reads channel 1 from the old file, opens the node of channel 2 at once,
   and saves channel 1. channel.go:40 says "RememberDeviceChannel persists the working
   RFCOMM channel for a MAC address". A release that leaves the node in place
   (bt.go:475) has the same effect in the other direction: an old node opens while
   another channel is tried. `StoresWorkingChannel` states what does hold: on a node whose
   channel was saved, and that no release has left in place, that channel is saved again.

Behaviour that the models have and that no document of the repository speaks against, so
that no run claims it as a divergence:

* bt.go:475 and main.go:113 of the helper take every "can't release" for a success. The
  node may then stay as it was (`promised.kept`); what an attempt that follows may save is
  finding 3.
* A node that was bound by an attempt which ended before `RememberDeviceMAC` is opened by
  `ConnectBest` as the saved earbuds, whichever it reaches (`LinkReachesAskedDevice`
  excepts exactly this: `via = "existing"` and not `bound`).
* `SaveConfig` (config.go:57) truncates the file in place, so a crash or a failed write
  loses every device that was saved, also one whose node is still there.
  `ReadsAllOrNothing` states what does hold: such a file reads as an error and never as
  fewer devices, so no later save writes the loss down as the configuration.
* A damaged `devices.json` fails every attempt until it is removed and the program
  restarted: the load error is cached. This is no reason of the attempt's own: it is one of
  the four things that `FailureHasCause` names in `LeftBehind`.
* `sudoTicketValid` is never reset, so that every privileged command fails once the ticket
  has expired (another one of the four); a refused password is asked for again per channel.
* A node that cannot be released makes every later bind of the path fail, and one on a
  channel that nobody answers parks the plain open (the other two).
* The plain open of bt.go:334, the dialog for the password and `pactl` may keep an attempt,
  and the worker of the window with it, for ever.
* An unknown packet whose payload looks like battery pairs overwrites batteries
  (parse_dispatch.go:667); `ShownWasReported` and `QuietAgrees` except those parts (`guessed`).
* `CRCValid` is computed and never looked at.
* The readback of a SET is skipped when the generation changed: the setting that is shown
  stays stale until it is asked for again (`owed` in `QuietAgrees`).
* `FeaturePacket` builds for the model of the moment; only the microphone commands and the
  search look again at the moment of the write.
* A list of peers with names of fixed width, of which one that is not the last is empty, is
  misread (parse_dispatch.go:556-577).
* The microphone modes are not probed when the model becomes known after `probeConfig`
  read it, so `Probed` claims them for named earbuds only.
* A walkie-talkie job whose connection was replaced by one to the same earbuds, with the
  generation lagging, may write on a link on which the Super Mic was not seen
  (`WalkieNeedsSuperMic` speaks of jobs on their own connection).
* A confirmation may be satisfied by the answer to an earlier request of the same link.
* The low battery flags of the notifier survive a link that is replaced, and a late
  `EventDisconnected` clears those of the next; declining the dual prompt dismisses the
  phone that is pending, which may be another than the one shown (not modelled).

## The proofs

### `SessionProofs.tla`

All proved from `SessionAssumption` (the actors' sets are disjoint, the null values are
none of them, `FSNLimit` is positive) for any number of calls, addresses and numbers:

| Theorem | States |
|---|---|
| `TypeCorrect` | `Spec => []TypeOK` |
| `LiveStateSafe` | `Spec => []LiveStateOfCurrentLink` |
| `PendingSafe` | `Spec => []PendingOnCurrentLink` |
| `ConnectIsIdempotent` | `Spec => IdempotentConnect` |
| `ImplementsLinkLife` | `Spec => LinkLifeRefined` |

The inductive invariant `IInv` adds to the types what the two safety properties need:
a read loop between its check and its update holds `rxMu`, and is on the current
link (`HandlerHoldsRx`), so neither `Swap` nor `TearDown` can move the transport under
it; a `Connect` in progress holds `connectMu` (`DialHoldsConnect`), so what
`connectAlreadyLinked` saw is only changed towards no link; and at most one actor
owes the report of a transport, which is not current any more (`OneReporter`), which
is what maps `Report` to `ReportDown` of the abstract specification.
Each part has a lemma of its own (`HandlerStep`, `LiveStep`, `PendingStep`,
`ConnectStep`, `ReporterStep`) that goes through the actions.

### `EventBusProofs.tla`

From `EventBusAssumption` (priority events are events, `None` is no listener, the
capacity is positive) for any number of events and listeners:

| Theorem | States |
|---|---|
| `TypeCorrect` | `Spec => []TypeOK`; it contains that no channel exceeds its capacity |
| `NothingMissedSafe` | `Spec => []NothingMissed` |

`NothingMissed` is not inductive: what keeps a listener informed while its channel is
empty is the call that emptied it. The invariant adds `NewsPending` (a listener that was
served and has not looked since has an event, is about to look, or some call is between
`Evict` and `Retry` at it) and `ToldAfterChange` (who tells has made its change, so
the next `Look` shows it). `NewsStep` has one step per action; the ones with content are
`DropPlain` (a full channel has an event), `Evict` (the caller becomes the witness) and
`Retry` (it leaves the channel non-empty whether it finds room or not).

### `FindProofs.tla`

From `FindAssumption` (calls of the two kinds and links are different things, the time
limits are numbers) for any number of searches, closings and links:

| Theorem | States |
|---|---|
| `TypeCorrect` | `Spec => []TypeOK` |
| `RingsOnlyAsked` | `Spec => []RingsAskedLink` |
| `StopsWhatItStarted` | `Spec => []NeverLeftRinging` |
| `CloseIsLast` | `Spec => CloseWaitsForStop` |
| `StartsOnlyWhenSafe` | `Spec => StartsOnFreshReading` |

A search holds `connectMu` from the first look at the link to its return, so its link
can be lost and not replaced (`HoldsConnect`); what it writes goes to that link
(`WritesAskedLink`), which is never made again (`LinksAreUsed`). Hence the earbud is
silent before START and after STOP, or the link is gone (`BellFollows`). `Close` waits
with `findMu` held, under which no search registers, and every search that may ring is
registered (`CloseSeesSearch`). `StartsAfterReading` is what the action property needs:
the reading that START rests on answers a request of this search.

### `CompanionProofs.tla`

From `CompanionAssumption` for any calls, addresses, number of links and length of the
queue, and with the facts on finite sets of the library:

| Theorem | States |
|---|---|
| `TypeCorrect` | `Spec => []TypeOK`; it contains that the queue never overflows and that no counter goes below zero |
| `CountersCorrect` | `Spec => []CountersMatch` |
| `TickerYields` | `Spec => []BackgroundYields` |
| `AskedDeviceOnly` | `Spec => []ReachesAskedDevice` |
| `ReconnectionNoticed` | `Spec => []ChangeNoticed` |
| `ReadbackStays` | `Spec => []ReadbackOnSameLink` |
| `SlotCorrect` | `Spec => []SlotHeld` |

The queue is reasoned about as the set of its jobs (`RangeOfAppend`, `RangeOfTail`):
`QueueHolds` says that a job is in it exactly while it waits, once, and that the worker
has exactly the job that runs; `OnPath` says which steps each kind of call goes through. From them
`Counted` follows the two counters: since there is one ticker, `background` is one or
zero. `Tokens` is why the address and the generation suffice: an address that was
compared stays, because only the worker connects (`KeepsDevice`); every change of the
link is an unread event before it is a new generation, so a token that is the newest with
nothing unread is about the link that is up (`CountsEvents`); and a job that compared
without lagging still stands on that link or on none (`SawChanges`).

### `RfcommProofs.tla`

From `RfcommAssumption`, `ConfigAssumption` and `PrivilegeAssumption` for any earbuds,
channels and events, each mode of the helper, and any file that was there before:

| Theorem | States |
|---|---|
| `TypeCorrect` | `Spec => []TypeOK` |
| `SavedOrError` | `Spec => []ReadsAllOrNothing` |
| `WorkingChannelStored` | `Spec => []StoresWorkingChannel` |
| `LinkIsAsked` | `Spec => []LinkReachesAskedDevice` |
| `FailureExplained` | `Spec => FailureHasCause` |

`Invariant` is `Spec => []IInv`. The lemmas on `DeviceConfig` say what each `Remember`
call leaves on the disk and in memory when it succeeds, fails or is cut off, in terms of
the configurations that can still be read (`Configurations`: the disk's and the copy's).
Those on `Privilege` bound what a command does to the node, once for every mode: a
release frees it or fails, a bind on a free path makes the node that was asked for or
none, and one on a bound path changes nothing. With these, `IInv` relates the attempt, the
node and the file: the node that a `Bind` finished with is bound to the earbuds whose
address every readable configuration has (`NodeIsSaved`), on the channel it has for them
(`ChannelIsSaved`); an attempt opens on that channel (`OpensOnItsChannel`, but on a node
that a release has left in place), for those earbuds (`OpensSaved`), and between binding and
saving owns the node (`BindsItsOwn`). `CauseIsKnown` places the cause of a failure before the
step that fails; where there is none, that step is shown to stand before one of the
leftovers of `LeftBehind`. TLC agreed on `IInv` first, on the instance of
`rfcomm`.

The assumptions that the proofs needed beside those that were there say that values which
stand for "nothing" are none of the things (`NoNode`, `NoLink`) and that a missing file is
not a damaged one.

### `RequestsProofs.tla`

From `RequestsAssumption` and `AsksAssumption` for any earbuds, models, settings, news and
requests of users, and without bounds on how many packets cross:

| Theorem | States |
|---|---|
| `TrafficAllowed` | `Spec => []OnlyAllowedTraffic` |

`OnlyAllowedTraffic` depends on where a packet comes from, because `authorizeCommand` lets
a command pass that is in no table: it forbids and it checks SETs, and leaves unknown
commands alone. So the invariant follows what is offered (`Offered`): a job is a program
each of whose sends is a packet that is offered (`Fits`, `JobIsProgram`), by `FeaturePackets` for packets built
from words, whatever the words and the model, by `ScansAreOffered` for a scan, by
`ProbesAsk` for the probe, and by `AsksAssumption` for an entry of the catalogue. The
latter is what `BuildCommands` justifies, which lists queries and features; the
assumption lets users ask for any SET and any forbidden command too, which `Send` must
refuse. What concerns the microphone goes to an Ear (3) only: `Send` looks at the model of
the moment, which is that of the earbuds connected or unknown (`ModelIsTheirs`), and
packets under way are lost with their connection (`TrafficFits`).

### `DecodeProofs.tla`

Of `Decode` alone, for every input: two theorems about the operators.

| Theorem | States |
|---|---|
| `PacketOfStream` | whatever `ReadPacket` finds in bytes that were written as packets, noise and starts of packets that are too long is the first packet that was written as one of them, and what is left starts where that write ended |
| `PeersAreRead` | `parseDualDeviceListPacket` of what the earbuds made of a list of peers is this list, in the three layouts of a name |

Both are about data of any length. The induction theorems of the library cannot be used,
so each induction is a least counterexample: the numbers at which a formula fails have a
smallest one (`MinOf`), and the formula holds before it.
`PacketOfStream` rests on what `MarshalBinary` and `parseFrame` make of each other, on the
resynchronisation never passing a packet (`NextSOF`), and on `TwoConcat`, `FlattenSeq` cut in two.
`PeersAreRead` walks the records with `parseDualDeviceRecord`: the layout with a length
is tried first, and an attempt that a name of another layout lets through by chance is the
hard case (`IsName` is what excludes it).

### `ReportedProofs.tla`

Of `Requests` and `Decode` together, from `RequestsAssumption`, `SettingsAssumption`,
`NewsAssumption`, `AsksAssumption` and `SppAssumption`, and for `QuietIsTrue`
and `TypeCorrect` `CaseAssumption`, for any earbuds, layout, news and requests, any number of packets under
way and connections:

| Theorem | States |
|---|---|
| `Reported` | `Spec => []ShownWasReported` |
| `WalkieIsCareful` | `Spec => WalkieNeedsSuperMic` |
| `QuietIsTrue` | `Spec => []QuietAgrees` |
| `TypeCorrect` | `Spec => []TypeOK` |

`ShownWasReported` is about the bytes under way as well: an answer is true when it is
written, and read when the earbuds have changed. So the invariant (`RInv`) says of each
write in `rx` that it is a packet which tells only what is in `Was`, *whatever model* the
session takes the earbuds for when it reads it (`Truthful`, `SoundWrites`), or noise
in which no packet starts; and of what the session holds that it is in `Was`
(`ShownIsTrue`). `Was` only grows while a connection is up: what a change removes goes to
`past`. The lemmas on the answers say, per parser, that what it reads from what the earbuds
encoded is what they are (`AnswerSays`): `SettingIsRead` for the features, `AncEventIsRead`
for the event of noise reduction, which tells the mode only,
`BatteriesAreRead` with what `NormalizeBatteryForModel` renames, `WearIsRead`,
`PeersAreRead` for the list, and that an acknowledgement, an event without a value and an
unknown packet tell nothing. A `Read`
then takes the first packet by `PacketOfStream` and leaves writes that are sound still.
`Careful` is added for `WalkieNeedsSuperMic`: what is left of a job has no SET that
switches Walkie Talkie on, or a confirmation of the Super Mic before it, or the Super Mic was seen
on the connection of the job.

`QuietAgrees` speaks of a moment at which nothing is under way, and is far from inductive.
`QInv` follows each topic, a setting, a battery, the list of peers, through all the
others: it is owed, or a query for it waits in `tx`, or the list was announced and will be
asked for (`Announced`), or it is settled (`Agrees`). Settled means that what is
shown and every write under way tell of it only what is so now (`Known`), or that a write
under way brings it up to date and no later one spoils that (`Fresh`); facts of other topics
may be out of date meanwhile, which is why each topic has a formula of its own. `Followed`
adds that a SET in `tx` is owed or is asked for behind it, as it changes the earbuds only
when it is served. A change that the earbuds tell (`QuietTold`) makes its topic fresh, one
that they do not tell owes it, an answer makes fresh what it answers (`Served`), and a
packet that is read settles what it renews (`RenewLearns`), because packets are read in
the order they were written (`FrameTaken`, by `PacketOfStream`). The two names of the
case are one topic (`NameOf`): that both are never shown needs that earbuds have only one of the
two batteries (`CaseAssumption`), that they keep their parts (`PartsStay`), and that what
earbuds call "stereo" is shown as "case" only once their model is known (`CaseIs`).
TLC agreed on `QInv` first, on the instance of `requests`.

`TypeOK` comes last, as it needs the others: that `tx` holds packets is part of
`TrafficFits`, `Careful` has the connection of a job, and which batteries are shown is
part of `QInv`. What is left (`TInv`) is that each write in `rx` is made of bytes, however
it was encoded: that a code and a length fit two bytes (`FrameBytes`), that settings,
batteries and the records of a list are bytes (`SettingBytes`, `PairsBytes`, `PeerBytes`),
and that 255 records of a list fit a packet (`PeersBytes`); and that a packet tells of no
earbud but the left and the right one (`EarsTold`).

### Only model-checked

All liveness (`DeadLinkReported`, `CallsReturn`, `FindReturns`, `CloseReturns`,
`ViewCatchesUp`, `BusyEnds`, `ReconnectTried`, `AttemptEnds`, `ConnectionIsProbed`), which
is out of the prover's reach. Each invariant and each action property that a run checks is
stated by a theorem.

## Not modelled

* The presentation (`presenter`, `tray`, the window), logging, validation of strings, flag
  parsing, packaging and the developer's experiment have no state that concurrent steps
  share.
* macOS (`*_darwin.go`): RFCOMM channels are opened by IOBluetooth behind cgo, without
  nodes, privileges or probing.
* `connect.AutoConnect` and the preflight questions: the program does not call them.
* `notify`, the dual prompt and the shutdown are one goroutine, or four flags under one
  lock, or two `sync.Once`; what they build on (`EventBus`, `Session`, the list of phones
  in `Requests`) is modelled, and their hazards are listed with the reason why no property
  covers them.
* `Session` leaves out raw capture and a model that the user chose. `Companion` leaves out
  `Discover` and `Export`, which only read, `ResolveDual`, and the buttons, which a stale
  `Snapshot` may leave enabled: any call may come at any time.
* `Requests` leaves out summaries and other wording, the payloads of a search (`Find`) and
  the value of the CRC. That a summary of an unreadable payload becomes a configuration
  value is such wording. Earbuds answer each request once and in order.
* `Rfcomm` has one node path, and the output of `bluetoothctl` is a set of earbuds.
* Undelivered bytes that an old descriptor steals from a reopened Linux tty are the
  kernel's business.

## Plan

| Step | Modules | Promises, runs and theorems |
|---|---|---|
| done | `Session`, `LinkLife`, `SessionProofs` | runs `session`, `session_live`, `session_fsn` |
| done | `Find` | runs `find`, `find_live`, `find_stop` |
| done | `EventBus`, `EventBusProofs` | run `bus` |
| done | `Companion` | runs `companion`, `companion_find` |
| done | `DeviceConfig`, `Privilege`, `Rfcomm` | runs `rfcomm`, `rfcomm_channel` |
| done | `Spp`, `Decode`, `Requests` | run `requests` |
| done | `FindProofs`, `CompanionProofs`, `RfcommProofs`, `RequestsProofs` | the theorems of the tables above |
| done | `DecodeProofs`, `ReportedProofs` | what `ReadPacket` and the parsers compute for every input; `ShownWasReported`, `WalkieNeedsSuperMic`, `QuietAgrees` and `TypeOK` of `Requests` |

No module above declares a RECURSIVE operator: recursion is a fold of the community
modules, so that each can be proved about.
