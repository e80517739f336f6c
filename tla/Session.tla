------------------------------ MODULE Session ------------------------------
(***************************************************************************)
(* The RFCOMM link of internal/session: Connect, Send, Close and the read  *)
(* loops, with the mutexes that order them.                                *)
(*                                                                         *)
(* Every goroutine is a one-shot actor.  A call of Connect opens at most   *)
(* one transport, so a transport is named after the call that opened it,   *)
(* and so is the read loop started on it.  s.mu guards only straight-line  *)
(* code: a critical section of s.mu is one atomic step, and s.mu itself is *)
(* not a variable.  The other mutexes stay locked over several steps and   *)
(* are variables that hold their owner.                                    *)
(***************************************************************************)
EXTENDS Naturals

CONSTANTS
  Dials,     \* calls of Connect; also the transports they open
  Sends,     \* calls of Send
  Guarded,   \* the sends whose command is checked again before the write
  Closes,    \* calls of Close
  MACs,      \* device addresses
  NoMAC,     \* the empty address
  None,      \* no transport, no entry, nobody
  FSNLimit   \* NextFSN wraps to 0 at this value (254 in the code)

Actors == Dials \cup Sends \cup Closes

FSNs == 0 .. FSNLimit - 1

\* A packet in flight: its frame number and the send that it answers.
Packets == [fsn : FSNs, req : Sends]

ASSUME SessionAssumption ==
  /\ Guarded \subseteq Sends
  /\ Dials \cap Sends = {} /\ Dials \cap Closes = {} /\ Sends \cap Closes = {}
  /\ None \notin Actors /\ None \notin Packets
  /\ NoMAC \notin MACs
  /\ FSNLimit \in Nat \ {0}

VARIABLES
  transport,  \* s.transport: the current link, or None
  device,     \* s.device.MAC; kept after a disconnect, as in the code
  live,       \* the links whose packets the live state was built from
  pending,    \* s.pending: the send registered under each frame number
  fsn,        \* txFSN.val
  connectMu, findMu, rxMu, txMu,  \* the owner of each mutex
  dial,       \* where each Connect is
  asked,      \* the address its caller gave
  target,     \* the address after prepareConnectDevice
  loop,       \* where the read loop of each transport is
  packet,     \* the packet a read loop is handling
  related,    \* the send matchRequest paired that packet with
  send,       \* where each Send is
  sent,       \* the transport and the frame number it captured
  close,      \* where each Close is
  fin,        \* the transport an actor's finalizeDisconnect is to tear down
  owed,       \* the transport it tore down and has not yet reported
  closed,     \* the transports on which c.Close() was started
  dead,       \* the transports whose reads and writes now fail
  replies,    \* the device's answers on their way, per transport
  up, down    \* history: the links whose EventConnected and
              \* EventDisconnected were published

linkVars  == <<transport, device, live, closed>>
lockVars  == <<connectMu, findMu, rxMu, txMu>>
dialVars  == <<dial, asked, target>>
loopVars  == <<loop, packet, related>>
sendVars  == <<send, sent>>
finVars   == <<fin, owed>>
wireVars  == <<dead, replies>>
eventVars == <<up, down>>

vars == <<linkVars, pending, fsn, lockVars, dialVars, loopVars, sendVars,
          close, finVars, wireVars, eventVars>>

NoPending == [f \in FSNs |-> None]

\* A Connect that went through swapConnectTransport, and the one in progress.
Installed(d) == dial[d] \in {"reset", "announce", "done"}
Dialing(d)   == dial[d] \in {"check", "opened", "reset", "announce"}

TypeOK ==
  /\ transport \in Dials \cup {None}
  /\ device \in MACs \cup {NoMAC}
  /\ live \subseteq Dials
  /\ pending \in [FSNs -> Sends \cup {None}]
  /\ fsn \in FSNs
  /\ connectMu \in Dials \cup {None}
  /\ findMu \in Closes \cup {None}
  /\ rxMu \in Dials \cup {None}
  /\ txMu \in Sends \cup {None}
  /\ dial \in [Dials -> {"idle", "check", "opened", "reset", "announce", "done",
                         "refused"}]
  /\ asked \in [Dials -> MACs \cup {NoMAC}]
  /\ target \in [Dials -> MACs \cup {NoMAC}]
  /\ loop \in [Dials -> {"none", "start", "read", "deliver", "match", "record", "done"}]
  /\ packet \in [Dials -> Packets \cup {None}]
  /\ related \in [Dials -> Sends \cup {None}]
  /\ send \in [Sends -> {"idle", "register", "write", "checked", "written",
                         "failed", "done"}]
  /\ sent \in [Sends -> [link : Dials \cup {None}, fsn : FSNs]]
  /\ close \in [Closes -> {"idle", "done"}]
  /\ fin \in [Actors -> Dials \cup {None}]
  /\ owed \in [Actors -> Dials \cup {None}]
  /\ closed \subseteq Dials
  /\ dead \subseteq Dials
  /\ replies \in [Dials -> SUBSET Packets]
  /\ up \subseteq Dials
  /\ down \subseteq Dials
  /\ \A d \in Dials : loop[d] \in {"deliver", "match", "record"} => packet[d] # None

Init ==
  /\ transport = None /\ device = NoMAC /\ live = {} /\ closed = {}
  /\ pending = NoPending /\ fsn = 0
  /\ connectMu = None /\ findMu = None /\ rxMu = None /\ txMu = None
  /\ dial = [d \in Dials |-> "idle"]
  /\ asked = [d \in Dials |-> NoMAC] /\ target = [d \in Dials |-> NoMAC]
  /\ loop = [d \in Dials |-> "none"]
  /\ packet = [d \in Dials |-> None] /\ related = [d \in Dials |-> None]
  /\ send = [s \in Sends |-> "idle"]
  /\ sent = [s \in Sends |-> [link |-> None, fsn |-> 0]]
  /\ close = [c \in Closes |-> "idle"]
  /\ fin = [a \in Actors |-> None] /\ owed = [a \in Actors |-> None]
  /\ dead = {} /\ replies = [d \in Dials |-> {}]
  /\ up = {} /\ down = {}

-----------------------------------------------------------------------------
(* What several operations share.  An operator named ...Mutant is a bug that  *)
(* could have been made in the definition below it, which the runs catch.     *)

CurrentMutant(d) == TRUE

\* isCurrentTransport.
Current(d) == transport = d

ClearLiveStateMutant == live' = {} /\ UNCHANGED pending

\* clearLiveStateLocked.
ClearLiveState == live' = {} /\ pending' = NoPending

FinalizeMutant(a, d) == UNCHANGED fin

\* Actor a calls finalizeDisconnect(d), which ends in TearDown or Stale.
Finalize(a, d) == fin' = [fin EXCEPT ![a] = d]

-----------------------------------------------------------------------------
(* Connect.  connectMu is held from the first step to the last.            *)

DialTo(d, from, to) == dial[d] = from /\ dial' = [dial EXCEPT ![d] = to]

\* The deferred unlock; the call's locals are gone.
Return(d) ==
  /\ connectMu' = None
  /\ asked' = [asked EXCEPT ![d] = NoMAC]
  /\ target' = [target EXCEPT ![d] = NoMAC]

LockConnectMutant(d) == connectMu' = d

LockConnect(d) == connectMu = None /\ connectMu' = d

\* A user, the tray or the auto-connect ticker asks for a connection.
Connect(d) ==
  /\ LockConnect(d)
  /\ DialTo(d, "idle", "check")
  /\ \E m \in MACs \cup {NoMAC} : asked' = [asked EXCEPT ![d] = m]
  /\ UNCHANGED <<linkVars, pending, fsn, findMu, rxMu, txMu, target, loopVars,
                 sendVars, close, finVars, wireVars, eventVars>>

\* connectAlreadyLinked: a live link to the same, non-empty address.
LinkedTo(m) == transport # None /\ m # NoMAC /\ device = m

AlreadyLinked(d) ==
  /\ LinkedTo(asked[d])
  /\ DialTo(d, "check", "refused")
  /\ Return(d)
  /\ UNCHANGED <<linkVars, pending, fsn, findMu, rxMu, txMu, loopVars,
                 sendVars, close, finVars, wireVars, eventVars>>

\* prepareConnectDevice may find an empty address by the transport's name; the
\* open that follows touches no state of the session.
Open(d) ==
  /\ ~LinkedTo(asked[d])
  /\ DialTo(d, "check", "opened")
  /\ \E m \in MACs \cup {NoMAC} :
       /\ asked[d] # NoMAC => m = asked[d]
       /\ target' = [target EXCEPT ![d] = m]
  /\ UNCHANGED <<linkVars, pending, fsn, lockVars, asked, loopVars, sendVars,
                 close, finVars, wireVars, eventVars>>

\* Invalid inputs or a failing open: Connect returns the error.
OpenFails(d) ==
  /\ ~LinkedTo(asked[d])
  /\ DialTo(d, "check", "refused")
  /\ Return(d)
  /\ UNCHANGED <<linkVars, pending, fsn, findMu, rxMu, txMu, loopVars,
                 sendVars, close, finVars, wireVars, eventVars>>

\* swapConnectTransport: under rxMu and mu the new transport takes the place of
\* the old one, the live state is cleared, and the old transport is closed.  The
\* replaced link gets no EventDisconnected.
Swap(d) ==
  /\ rxMu = None
  /\ DialTo(d, "opened", "reset")
  /\ transport' = d
  /\ device' = target[d]
  /\ ClearLiveState
  /\ closed' = closed \cup ({transport} \ {None})
  /\ UNCHANGED <<fsn, lockVars, asked, target, loopVars, sendVars, close,
                 finVars, wireVars, eventVars>>

Reset(d) ==
  /\ DialTo(d, "reset", "announce")
  /\ fsn' = 0
  /\ UNCHANGED <<linkVars, pending, lockVars, asked, target, loopVars, sendVars,
                 close, finVars, wireVars, eventVars>>

\* EventConnected is published, go readLoop(transport) runs and Connect returns.
Announce(d) ==
  /\ DialTo(d, "announce", "done")
  /\ up' = up \cup {d}
  /\ loop' = [loop EXCEPT ![d] = "start"]
  /\ Return(d)
  /\ UNCHANGED <<linkVars, pending, fsn, findMu, rxMu, txMu, packet, related,
                 sendVars, close, finVars, wireVars, down>>

-----------------------------------------------------------------------------
(* The read loop of a transport.                                           *)

LoopTo(d, from, to) == loop[d] = from /\ loop' = [loop EXCEPT ![d] = to]

HandledMutant(d) ==
  /\ UNCHANGED rxMu
  /\ packet' = [packet EXCEPT ![d] = None]
  /\ related' = [related EXCEPT ![d] = None]

\* handleTransportRaw returns: the deferred unlock; its locals are gone.
Handled(d) ==
  /\ rxMu' = None
  /\ packet' = [packet EXCEPT ![d] = None]
  /\ related' = [related EXCEPT ![d] = None]

LoopStart(d) ==
  /\ LoopTo(d, "start", IF Current(d) THEN "read" ELSE "done")
  /\ UNCHANGED <<linkVars, pending, fsn, lockVars, dialVars, packet, related,
                 sendVars, close, finVars, wireVars, eventVars>>

Receive(d) ==
  /\ d \notin dead
  /\ LoopTo(d, "read", "deliver")
  /\ \E p \in replies[d] :
       /\ packet' = [packet EXCEPT ![d] = p]
       /\ replies' = [replies EXCEPT ![d] = @ \ {p}]
  /\ UNCHANGED <<linkVars, pending, fsn, lockVars, dialVars, related, sendVars,
                 close, finVars, dead, eventVars>>

\* ReadPacket fails: the loop ends in finalizeDisconnect.  The check of
\* isCurrentTransport before it is the one finalizeDisconnect repeats.
ReadFails(d) ==
  /\ d \in dead
  /\ LoopTo(d, "read", "done")
  /\ Finalize(d, d)
  /\ UNCHANGED <<linkVars, pending, fsn, lockVars, dialVars, packet, related,
                 sendVars, close, owed, wireVars, eventVars>>

\* handleTransportRaw: rxMu is taken and kept if the transport is current.
Deliver(d) ==
  /\ rxMu = None
  /\ IF Current(d)
       THEN LoopTo(d, "deliver", "match") /\ rxMu' = d /\ UNCHANGED <<packet, related>>
       ELSE LoopTo(d, "deliver", "done") /\ Handled(d)
  /\ UNCHANGED <<linkVars, pending, fsn, connectMu, findMu, txMu, dialVars,
                 sendVars, close, finVars, wireVars, eventVars>>

\* A frame that does not decode is reported and changes nothing.
BadFrame(d) ==
  /\ LoopTo(d, "match", "read")
  /\ Handled(d)
  /\ UNCHANGED <<linkVars, pending, fsn, connectMu, findMu, txMu, dialVars,
                 sendVars, close, finVars, wireVars, eventVars>>

\* matchRequest takes the entry registered under the echoed frame number.
MatchRequest(d) ==
  /\ LoopTo(d, "match", "record")
  /\ related' = [related EXCEPT ![d] = pending[packet[d].fsn]]
  /\ pending' = [pending EXCEPT ![packet[d].fsn] = None]
  /\ UNCHANGED <<linkVars, fsn, lockVars, dialVars, packet, sendVars, close,
                 finVars, wireVars, eventVars>>

\* recordEarbuds, recordConfig, updateDualList and mergeBatteryState.
Record(d) ==
  /\ LoopTo(d, "record", "read")
  /\ live' = live \cup {d}
  /\ Handled(d)
  /\ UNCHANGED <<transport, device, closed, pending, fsn, connectMu, findMu,
                 txMu, dialVars, sendVars, close, finVars, wireVars, eventVars>>

-----------------------------------------------------------------------------
(* Send.                                                                   *)

SendTo(s, from, to) == send[s] = from /\ send' = [send EXCEPT ![s] = to]

NextFSNMutant == IF fsn + 1 > FSNLimit THEN 0 ELSE fsn + 1

NextFSN == IF fsn + 1 >= FSNLimit THEN 0 ELSE fsn + 1

\* An authorised command takes its frame number before it looks at the link.
TakeFSN(s) ==
  /\ SendTo(s, "idle", "register")
  /\ fsn' = NextFSN
  /\ sent' = [sent EXCEPT ![s].fsn = NextFSN]
  /\ UNCHANGED <<linkVars, pending, lockVars, dialVars, loopVars, close,
                 finVars, wireVars, eventVars>>

NotConnected(s) ==
  /\ transport = None
  /\ SendTo(s, "register", "done")
  /\ UNCHANGED <<linkVars, pending, fsn, lockVars, dialVars, loopVars, sent,
                 close, finVars, wireVars, eventVars>>

Register(s) ==
  /\ transport # None
  /\ SendTo(s, "register", "write")
  /\ sent' = [sent EXCEPT ![s].link = transport]
  /\ pending' = [pending EXCEPT ![sent[s].fsn] = s]
  /\ UNCHANGED <<linkVars, fsn, lockVars, dialVars, loopVars, close, finVars,
                 wireVars, eventVars>>

Forget(s) == pending' = [pending EXCEPT ![sent[s].fsn] = None]

\* Microphone and find commands are validated again under txMu.
CheckPasses(s) ==
  /\ s \in Guarded /\ txMu = None
  /\ transport = sent[s].link
  /\ SendTo(s, "write", "checked")
  /\ txMu' = s
  /\ UNCHANGED <<linkVars, pending, fsn, connectMu, findMu, rxMu, dialVars,
                 loopVars, sent, close, finVars, wireVars, eventVars>>

\* The connection changed, or the command is no longer allowed.
CheckFails(s) ==
  /\ s \in Guarded /\ txMu = None
  /\ SendTo(s, "write", "done")
  /\ Forget(s)
  /\ UNCHANGED <<linkVars, fsn, lockVars, dialVars, loopVars, sent, close,
                 finVars, wireVars, eventVars>>

CanWrite(s) == \/ send[s] = "checked"
               \/ send[s] = "write" /\ s \notin Guarded /\ txMu = None

\* transport.Write on the captured transport; the device may answer.
Write(s) ==
  /\ CanWrite(s)
  /\ sent[s].link \notin dead
  /\ send' = [send EXCEPT ![s] = "written"]
  /\ txMu' = None
  /\ \E answers \in SUBSET {[fsn |-> sent[s].fsn, req |-> s]} :
       replies' = [replies EXCEPT ![sent[s].link] = @ \cup answers]
  /\ UNCHANGED <<linkVars, pending, fsn, connectMu, findMu, rxMu, dialVars,
                 loopVars, sent, close, finVars, dead, eventVars>>

WriteFails(s) ==
  /\ CanWrite(s)
  /\ sent[s].link \in dead
  /\ send' = [send EXCEPT ![s] = "failed"]
  /\ txMu' = None
  /\ UNCHANGED <<linkVars, pending, fsn, connectMu, findMu, rxMu, dialVars,
                 loopVars, sent, close, finVars, wireVars, eventVars>>

\* After the write: if the link changed meanwhile, the entry is dropped.
Written(s) ==
  /\ SendTo(s, "written", "done")
  /\ IF Current(sent[s].link) THEN UNCHANGED pending ELSE Forget(s)
  /\ UNCHANGED <<linkVars, fsn, lockVars, dialVars, loopVars, sent, close,
                 finVars, wireVars, eventVars>>

\* A failed write drops its entry and tears the link down if it is current.
Failed(s) ==
  /\ SendTo(s, "failed", "done")
  /\ Forget(s)
  /\ Finalize(s, sent[s].link)
  /\ UNCHANGED <<linkVars, fsn, lockVars, dialVars, loopVars, sent, close,
                 owed, wireVars, eventVars>>

-----------------------------------------------------------------------------
(* Close and finalizeDisconnect.                                           *)

\* findMu is held until Close returns; without a link it returns at once.
Close(c) ==
  /\ findMu = None
  /\ close[c] = "idle"
  /\ close' = [close EXCEPT ![c] = "done"]
  /\ IF transport = None
       THEN UNCHANGED <<findMu, fin>>
       ELSE findMu' = c /\ Finalize(c, transport)
  /\ UNCHANGED <<linkVars, pending, fsn, connectMu, rxMu, txMu, dialVars,
                 loopVars, sendVars, owed, wireVars, eventVars>>

ReleaseFind(a) == findMu' = IF findMu = a THEN None ELSE findMu

StillActiveMutant(a) == transport # None

\* The transport to tear down is still the session's.
StillActive(a) == fin[a] = transport

\* closeActiveTransport on the current link.
TearDown(a) ==
  /\ fin[a] # None /\ StillActive(a)
  /\ rxMu = None
  /\ transport' = None
  /\ ClearLiveState
  /\ closed' = closed \cup {fin[a]}
  /\ fin' = [fin EXCEPT ![a] = None]
  /\ owed' = [owed EXCEPT ![a] = fin[a]]
  /\ UNCHANGED <<device, fsn, lockVars, dialVars, loopVars, sendVars, close,
                 wireVars, eventVars>>

\* The link was replaced or torn down by another actor: nothing to do.
Stale(a) ==
  /\ fin[a] # None /\ ~StillActive(a)
  /\ rxMu = None
  /\ fin' = [fin EXCEPT ![a] = None]
  /\ ReleaseFind(a)
  /\ UNCHANGED <<linkVars, pending, fsn, connectMu, rxMu, txMu, dialVars,
                 loopVars, sendVars, close, owed, wireVars, eventVars>>

\* EventDisconnected, published after the transport was closed or timed out.
Report(a) ==
  /\ owed[a] # None
  /\ down' = down \cup {owed[a]}
  /\ owed' = [owed EXCEPT ![a] = None]
  /\ ReleaseFind(a)
  /\ UNCHANGED <<linkVars, pending, fsn, connectMu, rxMu, txMu, dialVars,
                 loopVars, sendVars, close, fin, wireVars, up>>

-----------------------------------------------------------------------------
(* The transport.                                                          *)

\* I/O on the transport fails from now on, and what was on its way is lost.
Dies(d) ==
  /\ d \notin dead
  /\ dead' = dead \cup {d}
  /\ replies' = [replies EXCEPT ![d] = {}]
  /\ UNCHANGED <<linkVars, pending, fsn, lockVars, dialVars, loopVars,
                 sendVars, close, finVars, eventVars>>

\* The earbuds go out of range or are switched off.  c.Close() takes effect, or
\* never does: a read that is blocked in the tty keeps the descriptor open.
PeerGone(d) == Installed(d) /\ Dies(d)
CloseTakesEffect(d) == d \in closed /\ Dies(d)

-----------------------------------------------------------------------------
\* The calls that have begun and not returned, and loops not waiting for data.
Busy(a) ==
  \/ a \in Dials /\ (Dialing(a) \/ loop[a] \in {"start", "deliver", "match", "record"})
  \/ a \in Sends /\ send[a] \notin {"idle", "done"}
  \/ fin[a] # None \/ owed[a] # None

DialStep(d) == \/ AlreadyLinked(d) \/ Open(d) \/ OpenFails(d)
               \/ Swap(d) \/ Reset(d) \/ Announce(d)
LoopStep(d) == \/ LoopStart(d) \/ Receive(d) \/ ReadFails(d) \/ Deliver(d)
               \/ BadFrame(d) \/ MatchRequest(d) \/ Record(d)
SendStep(s) == \/ NotConnected(s) \/ Register(s) \/ CheckPasses(s) \/ CheckFails(s)
               \/ Write(s) \/ WriteFails(s) \/ Written(s) \/ Failed(s)
FinStep(a)  == TearDown(a) \/ Stale(a) \/ Report(a)

\* Every call returned and every loop that is left waits for data.
Rest == (\A a \in Actors : ~Busy(a)) /\ UNCHANGED vars

\* What goroutines do once a call has begun.
System ==
  \/ \E d \in Dials : DialStep(d) \/ LoopStep(d)
  \/ \E s \in Sends : SendStep(s)
  \/ \E a \in Actors : FinStep(a)

\* What users, tickers, the kernel and the earbuds may do and need not.
Environment ==
  \/ \E d \in Dials : Connect(d) \/ PeerGone(d) \/ CloseTakesEffect(d)
  \/ \E s \in Sends : TakeFSN(s)
  \/ \E c \in Closes : Close(c)

Next == System \/ Environment \/ Rest

Spec == Init /\ [][Next]_vars

\* The runtime keeps scheduling goroutines that can run, and opens and writes
\* return: the open polls to a deadline, and the kernel fails the I/O of a link
\* that lost its peer.  No actor loops for ever without outside input, so no
\* fairness towards a single goroutine or mutex is needed.
FairSpec == Spec /\ WF_vars(System)

-----------------------------------------------------------------------------
(* What is promised about links.                                           *)

Owing == {d \in Dials : \E a \in Actors : owed[a] = d}

Life == INSTANCE LinkLife WITH
          Links <- Dials, link <- transport,
          used  <- {d \in Dials : Installed(d)},
          owing <- Owing

\* The session implements LinkLife: no link is current twice, a torn-down link is
\* reported by exactly one of the goroutines that race to tear it down
\* (finalizeDisconnect), and a replaced one by none.
LinkLifeRefined == Life!Spec

-----------------------------------------------------------------------------
(* Properties.                                                             *)

\* What Snapshot shows was built only from packets of the current link: a late
\* packet of a replaced or closed transport never reaches the state that
\* clearLiveStateLocked emptied (handleTransportRaw against swapConnectTransport
\* and closeActiveTransport).
LiveStateOfCurrentLink == live \subseteq {transport}

\* Every pending request was captured on the current link: no reply of one
\* link can consume a request that was written to another.
PendingOnCurrentLink ==
  \A f \in FSNs : pending[f] # None => sent[pending[f]].link = transport

\* "Same MAC while link is live": a transport is never installed in place of a
\* live link to the address that its caller asked for, however many callers race.
IdempotentConnect ==
  [][\A d \in Dials : transport' = d /\ transport # d => ~LinkedTo(asked[d])]_vars

\* The comment of matchRequest: an incoming response is paired with the request
\* that it answers (or with none, and the command number is used instead).
PairedWithOriginator ==
  \A d \in Dials : loop[d] = "record" => related[d] \in {None, packet[d].req}

\* The device is never stuck connected to a link whose I/O fails: the loss is
\* reported, unless a new connection takes the place of the dead one first.
DeadLinkReported ==
  \A d \in Dials :
    (transport = d /\ d \in dead) ~> (d \in down \/ transport \notin {d, None})

\* Every call returns and no packet is left half handled: the mutexes taken by
\* Connect, Close, Send and the read loops never leave one of them stuck.
CallsReturn == []<>(\A a \in Actors : ~Busy(a))

=============================================================================
