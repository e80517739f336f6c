-------------------------------- MODULE Find --------------------------------
(***************************************************************************)
(* Ringing an earbud (internal/session/find.go): calls of FindEarbud that  *)
(* race with each other, with Close, with new connections and with the     *)
(* loss of the link.  Module Session details how links are installed and   *)
(* torn down; here each is one step.  A write is not one step: it may      *)
(* block, fail, or fail after it reached the earbuds.                      *)
(*                                                                         *)
(* Time passes in Tick steps.  Ages count up and timers count down, so     *)
(* there is no horizon; nothing limits how late a goroutine runs.          *)
(***************************************************************************)
EXTENDS Naturals

CONSTANTS
  Finds,      \* calls of FindEarbud, all for one earbud of a supported model
  Closes,     \* calls of Session.Close
  Dials,      \* connections, named after the Connect that makes them
  None,       \* no link, no search, nobody
  MaxAge,     \* findStatusMaxAge, in ticks (2 s in the code)
  StatusWait, \* how long FindEarbud waits for the sensor (3 s)
  Duration,   \* how long the earbud rings (10 s)
  Grace       \* how long Close waits for STOP (1 s)

ASSUME FindAssumption ==
  /\ Finds \cap Closes = {}
  /\ None \notin Finds \cup Closes \cup Dials
  /\ {MaxAge, StatusWait, Duration, Grace} \subseteq Nat

VARIABLES
  transport,   \* s.transport
  ear,         \* s.earbuds[side]: the reading and its age, or None
  connectMu, findMu,
  activeFind,  \* s.activeFind
  find,        \* where each FindEarbud is
  link,        \* the transport it saw when it was called
  wire,        \* the transport that its latest Send captured
  seen,        \* a reading was recorded since it asked for one
  timer,       \* what is left of its timeout, its duration or the grace
  pollDue,     \* its poll ticker fired
  cancelled,   \* the searches whose context is cancelled
  close,       \* where each Close is
  expired,     \* the Closes that stopped waiting
  bell,        \* the link whose earbud a search may have left ringing
  used,        \* the links that were made
  stalled,     \* the links on which writes block
  broken       \* the links on which writes fail

lockVars   == <<connectMu, findMu>>
searchVars == <<link, wire, seen, pollDue, bell>>
closeVars  == <<activeFind, close, expired>>
wireVars   == <<used, stalled, broken>>
vars == <<transport, ear, lockVars, find, searchVars, timer, cancelled,
          closeVars, wireVars>>

Sending == {"asking", "starting", "polling", "stopping"}
Over    == {"release", "done"}   \* close(active.done) was called

Timed == Finds \cup Closes
Timers == 0 .. StatusWait + Duration + Grace

TypeOK ==
  /\ transport \in Dials \cup {None}
  /\ ear \in [wear : {"out", "in", "away"}, age : 0 .. MaxAge + 1] \cup {None}
  /\ connectMu \in Finds \cup {None}
  /\ findMu \in Closes \cup {None}
  /\ activeFind \in Finds \cup {None}
  /\ find \in [Finds -> {"idle", "lock", "register", "request", "wait", "start",
                         "check", "ring", "stop", "finish"} \cup Sending \cup Over]
  /\ link \in [Finds -> Dials \cup {None}]
  /\ wire \in [Finds -> Dials \cup {None}]
  /\ seen \in [Finds -> BOOLEAN]
  /\ timer \in [Timed -> Timers]
  /\ pollDue \in [Finds -> BOOLEAN]
  /\ cancelled \subseteq Finds
  /\ close \in [Closes -> {"idle", "await", "closing", "done"}]
  /\ expired \subseteq Closes
  /\ bell \in [Finds -> Dials \cup {None}]
  /\ used \subseteq Dials /\ stalled \subseteq Dials /\ broken \subseteq Dials
  /\ \A f \in Finds : find[f] \in Sending \cup {"check"} => wire[f] # None

Init ==
  /\ transport = None /\ ear = None
  /\ connectMu = None /\ findMu = None /\ activeFind = None
  /\ find = [f \in Finds |-> "idle"]
  /\ link = [f \in Finds |-> None] /\ wire = [f \in Finds |-> None]
  /\ seen = [f \in Finds |-> FALSE] /\ pollDue = [f \in Finds |-> FALSE]
  /\ timer = [a \in Timed |-> 0]
  /\ cancelled = {}
  /\ close = [c \in Closes |-> "idle"] /\ expired = {}
  /\ bell = [f \in Finds |-> None]
  /\ used = {} /\ stalled = {} /\ broken = {}

-----------------------------------------------------------------------------
(* What several steps share.  An operator named ...Mutant is a bug that could  *)
(* have been made in the definition below it, which the runs catch.           *)

\* The link that the search was asked for is still the session's.
Same(f) == transport = link[f]

SafeMutant == ear # None /\ ear.wear = "out"

\* validateFindLocked for a START: a fresh reading, out of the ear and in reach.
Safe == ear # None /\ ear.age <= MaxAge /\ ear.wear = "out"

\* finalizeDisconnect(l): only the current link is torn down.
TearDown(l) ==
  IF transport = l THEN transport' = None /\ ear' = None
                   ELSE UNCHANGED <<transport, ear>>

FindTo(f, from, to) == find[f] = from /\ find' = [find EXCEPT ![f] = to]

-----------------------------------------------------------------------------
(* FindEarbud.                                                             *)

\* Without a link the call fails at once and changes nothing.
Call(f) ==
  /\ transport # None
  /\ FindTo(f, "idle", "lock")
  /\ link' = [link EXCEPT ![f] = transport]
  /\ UNCHANGED <<transport, ear, lockVars, wire, seen, pollDue, bell, timer,
                 cancelled, closeVars, wireVars>>

LockConnect(f) == connectMu = None /\ connectMu' = f

Lock(f) ==
  /\ LockConnect(f)
  /\ FindTo(f, "lock", "register")
  /\ UNCHANGED <<transport, ear, findMu, searchVars, timer, cancelled, closeVars,
                 wireVars>>

FindMuFreeMutant == TRUE

FindMuFree == findMu = None

\* Under findMu the search becomes the one that Close will stop.
Register(f) ==
  /\ FindMuFree
  /\ Same(f)
  /\ FindTo(f, "register", "request")
  /\ activeFind' = f
  /\ UNCHANGED <<transport, ear, lockVars, searchVars, timer, cancelled, close,
                 expired, wireVars>>

LinkChanged(f) ==
  /\ FindMuFree
  /\ ~Same(f)
  /\ FindTo(f, "register", "done")
  /\ connectMu' = None
  /\ UNCHANGED <<transport, ear, findMu, searchVars, timer, cancelled, closeVars,
                 wireVars>>

CaptureMutant(f) == wire' = [wire EXCEPT ![f] = transport]

\* Send captures the transport that is current now, whichever that is.
Capture(f) == transport # None /\ wire' = [wire EXCEPT ![f] = transport]

\* The clock is read, and GET_STATUS is sent.
RequestStatus(f) ==
  /\ f \notin cancelled
  /\ Capture(f)
  /\ FindTo(f, "request", "asking")
  /\ seen' = [seen EXCEPT ![f] = FALSE]
  /\ UNCHANGED <<transport, ear, lockVars, link, pollDue, bell, timer, cancelled,
                 closeVars, wireVars>>

GiveUp(f) ==
  /\ f \in cancelled \/ transport = None
  /\ FindTo(f, "request", "finish")
  /\ UNCHANGED <<transport, ear, lockVars, searchVars, timer, cancelled, closeVars,
                 wireVars>>

\* Snapshot shows a reading that is not older than the request.
Answered(f) == seen[f] /\ ear # None

SensorAnswered(f) ==
  /\ Answered(f)
  /\ FindTo(f, "wait", IF f \in cancelled THEN "finish" ELSE "start")
  /\ UNCHANGED <<transport, ear, lockVars, searchVars, timer, cancelled, closeVars,
                 wireVars>>

SensorSilent(f) ==
  /\ ~Answered(f)
  /\ f \in cancelled \/ timer[f] = 0
  /\ FindTo(f, "wait", "finish")
  /\ UNCHANGED <<transport, ear, lockVars, searchVars, timer, cancelled, closeVars,
                 wireVars>>

\* From here on the deferred STOP runs, whatever happens to START.
Start(f) ==
  /\ Capture(f)
  /\ FindTo(f, "start", "check")
  /\ UNCHANGED <<transport, ear, lockVars, link, seen, pollDue, bell, timer,
                 cancelled, closeVars, wireVars>>

StartUnsent(f) ==
  /\ transport = None
  /\ FindTo(f, "start", "stop")
  /\ UNCHANGED <<transport, ear, lockVars, searchVars, timer, cancelled, closeVars,
                 wireVars>>

\* Send checks a START again at the write boundary.
StartChecked(f) ==
  /\ FindTo(f, "check", IF Safe /\ transport = wire[f] THEN "starting" ELSE "stop")
  /\ UNCHANGED <<transport, ear, lockVars, searchVars, timer, cancelled, closeVars,
                 wireVars>>

LeaveRingMutant(f) == FindTo(f, "ring", "finish")

\* Every return from the ring loop runs the deferred STOP.
LeaveRing(f) == FindTo(f, "ring", "stop")

RingsTooLongMutant(f) == f \in cancelled

RingsTooLong(f) == f \in cancelled \/ timer[f] = 0

\* Cancelled, or ten seconds are over.
RingEnds(f) ==
  /\ RingsTooLong(f)
  /\ LeaveRing(f)
  /\ UNCHANGED <<transport, ear, lockVars, searchVars, timer, cancelled, closeVars,
                 wireVars>>

\* The check ticker finds the link gone, or the earbud in the ear, in the case,
\* out of reach, or silent for too long.
RingUnsafe(f) ==
  /\ ~Same(f) \/ ~Safe
  /\ LeaveRing(f)
  /\ UNCHANGED <<transport, ear, lockVars, searchVars, timer, cancelled, closeVars,
                 wireVars>>

Poll(f) ==
  /\ pollDue[f]
  /\ Capture(f)
  /\ FindTo(f, "ring", "polling")
  /\ pollDue' = [pollDue EXCEPT ![f] = FALSE]
  /\ UNCHANGED <<transport, ear, lockVars, link, seen, bell, timer, cancelled,
                 closeVars, wireVars>>

PollUnsent(f) ==
  /\ pollDue[f] /\ transport = None
  /\ LeaveRing(f)
  /\ UNCHANGED <<transport, ear, lockVars, searchVars, timer, cancelled, closeVars,
                 wireVars>>

\* The deferred STOP.
Stop(f) ==
  /\ Same(f) /\ Capture(f)
  /\ FindTo(f, "stop", "stopping")
  /\ UNCHANGED <<transport, ear, lockVars, link, seen, pollDue, bell, timer,
                 cancelled, closeVars, wireVars>>

\* The link is gone before STOP, or when Send checks it at the write boundary.
NoStop(f) ==
  /\ \/ ~Same(f) /\ find[f] = "stop"
     \/ transport # wire[f] /\ find[f] = "stopping"
  /\ find' = [find EXCEPT ![f] = "finish"]
  /\ UNCHANGED <<transport, ear, lockVars, searchVars, timer, cancelled, closeVars,
                 wireVars>>

\* close(active.done).
Finish(f) ==
  /\ FindTo(f, "finish", "release")
  /\ UNCHANGED <<transport, ear, lockVars, searchVars, timer, cancelled, closeVars,
                 wireVars>>

Release(f) ==
  /\ FindTo(f, "release", "done")
  /\ connectMu' = None
  /\ UNCHANGED <<transport, ear, findMu, searchVars, timer, cancelled, closeVars,
                 wireVars>>

-----------------------------------------------------------------------------
(* A write that a search has begun.                                        *)

\* What follows a Send that returns nil, and one that returns an error.
AfterSuccess == [asking |-> "wait", starting |-> "ring", polling |-> "ring",
                 stopping |-> "finish"]
AfterError == [asking |-> "finish", starting |-> "stop", polling |-> "stop",
               stopping |-> "finish"]

\* What the earbuds do when the frame reaches them.
Rings(f) ==
  bell' = CASE find[f] = "starting" -> [bell EXCEPT ![f] = wire[f]]
            [] find[f] = "stopping" /\ bell[f] = wire[f] -> [bell EXCEPT ![f] = None]
            [] OTHER -> bell

\* Each new wait starts its timer and, for the ring, its poll ticker.
SetTimer(f) ==
  timer' = CASE find'[f] = "wait" -> [timer EXCEPT ![f] = StatusWait]
             [] find[f] = "starting" /\ find'[f] = "ring" -> [timer EXCEPT ![f] = Duration]
             [] OTHER -> timer

Written(f) ==
  /\ find[f] \in Sending
  /\ wire[f] \notin stalled \cup broken
  /\ find' = [find EXCEPT ![f] =
                IF transport = wire[f] THEN AfterSuccess[@] ELSE AfterError[@]]
  /\ Rings(f)
  /\ SetTimer(f)
  /\ UNCHANGED <<transport, ear, lockVars, link, wire, seen, pollDue, cancelled,
                 closeVars, wireVars>>

\* The frame may have left all the same.  Send tears the link down.
WriteFails(f) ==
  /\ find[f] \in Sending
  /\ wire[f] \in stalled \cup broken
  /\ find' = [find EXCEPT ![f] = AfterError[@]]
  /\ Rings(f) \/ UNCHANGED bell
  /\ TearDown(wire[f])
  /\ UNCHANGED <<lockVars, link, wire, seen, pollDue, timer, cancelled, closeVars,
                 wireVars>>

-----------------------------------------------------------------------------
(* Session.Close: findMu is held until it returns.                         *)

CloseTo(c, from, to) == close[c] = from /\ close' = [close EXCEPT ![c] = to]

FindOver == activeFind # None => find[activeFind] \in Over

\* stopFindLocked without a search, or with one that is over.
CloseNow(c) ==
  /\ FindMuFree
  /\ FindOver
  /\ CloseTo(c, "idle", "closing")
  /\ findMu' = c /\ activeFind' = None
  /\ UNCHANGED <<transport, ear, connectMu, find, searchVars, timer, cancelled,
                 expired, wireVars>>

CloseCancels(c) ==
  /\ FindMuFree
  /\ ~FindOver
  /\ CloseTo(c, "idle", "await")
  /\ findMu' = c
  /\ cancelled' = cancelled \cup {activeFind}
  /\ timer' = [timer EXCEPT ![c] = Grace]
  /\ UNCHANGED <<transport, ear, connectMu, find, searchVars, activeFind, expired,
                 wireVars>>

FindStopped(c) ==
  /\ FindOver
  /\ CloseTo(c, "await", "closing")
  /\ activeFind' = None
  /\ UNCHANGED <<transport, ear, lockVars, find, searchVars, timer, cancelled,
                 expired, wireVars>>

GraceOverMutant(c) == FALSE

GraceOver(c) == timer[c] = 0

FindStuck(c) ==
  /\ GraceOver(c)
  /\ CloseTo(c, "await", "closing")
  /\ expired' = expired \cup {c}
  /\ UNCHANGED <<transport, ear, lockVars, activeFind, find, searchVars, timer,
                 cancelled, wireVars>>

CloseLink(c) ==
  /\ CloseTo(c, "closing", "done")
  /\ TearDown(transport)
  /\ findMu' = None
  /\ UNCHANGED <<connectMu, activeFind, find, searchVars, timer, cancelled, expired,
                 wireVars>>

-----------------------------------------------------------------------------
(* The rest of the session, the earbuds, and time.                         *)

ConnectFreeMutant == TRUE

ConnectFree == connectMu = None

\* A Connect that installs its transport; it has connectMu from first to last.
Connect(d) ==
  /\ ConnectFree
  /\ d \notin used
  /\ transport' = d /\ used' = used \cup {d} /\ ear' = None
  /\ UNCHANGED <<lockVars, find, searchVars, timer, cancelled, closeVars, stalled,
                 broken>>

\* The read loop or another Send finds the link broken.
LinkLost ==
  /\ transport \in broken
  /\ TearDown(transport)
  /\ UNCHANGED <<lockVars, find, searchVars, timer, cancelled, closeVars, wireVars>>

\* recordEarbuds: the earbuds report whenever they are worn or put away.
RecordEarbuds ==
  /\ transport # None
  /\ \E w \in {"out", "in", "away"} : ear' = [wear |-> w, age |-> 0]
  /\ seen' = [f \in Finds |-> TRUE]
  /\ UNCHANGED <<transport, lockVars, find, link, wire, pollDue, bell, timer,
                 cancelled, closeVars, wireVars>>

Cancel(f) ==
  /\ f \notin cancelled /\ find[f] \notin {"idle", "done"}
  /\ cancelled' = cancelled \cup {f}
  /\ UNCHANGED <<transport, ear, lockVars, find, searchVars, timer, closeVars,
                 wireVars>>

Stall(d) ==
  /\ d \in used \ stalled
  /\ stalled' = stalled \cup {d}
  /\ UNCHANGED <<transport, ear, lockVars, find, searchVars, timer, cancelled,
                 closeVars, used, broken>>

Break(d) ==
  /\ d \in used \ broken
  /\ broken' = broken \cup {d}
  /\ UNCHANGED <<transport, ear, lockVars, find, searchVars, timer, cancelled,
                 closeVars, used, stalled>>

Tick ==
  /\ ear' = IF ear = None \/ ear.age > MaxAge THEN ear ELSE [ear EXCEPT !.age = @ + 1]
  /\ timer' = [a \in Timed |-> IF timer[a] = 0 THEN 0 ELSE timer[a] - 1]
  /\ pollDue' = [f \in Finds |-> pollDue[f] \/ find[f] \in {"ring", "polling"}]
  /\ UNCHANGED <<transport, lockVars, find, link, wire, seen, bell, cancelled,
                 closeVars, wireVars>>

-----------------------------------------------------------------------------
FindStep(f) ==
  \/ Lock(f) \/ Register(f) \/ LinkChanged(f) \/ RequestStatus(f) \/ GiveUp(f)
  \/ SensorAnswered(f) \/ SensorSilent(f) \/ Start(f) \/ StartUnsent(f)
  \/ StartChecked(f) \/ RingEnds(f) \/ RingUnsafe(f) \/ Poll(f) \/ PollUnsent(f)
  \/ Stop(f) \/ NoStop(f) \/ Finish(f) \/ Release(f) \/ Written(f)

CloseStep(c) == FindStopped(c) \/ FindStuck(c) \/ CloseLink(c)

Environment ==
  \/ \E f \in Finds : Call(f) \/ Cancel(f) \/ WriteFails(f)
  \/ \E c \in Closes : CloseNow(c) \/ CloseCancels(c)
  \/ \E d \in Dials : Connect(d) \/ Stall(d) \/ Break(d)
  \/ LinkLost \/ RecordEarbuds

Next ==
  \/ \E f \in Finds : FindStep(f)
  \/ \E c \in Closes : CloseStep(c)
  \/ Environment
  \/ Tick

Spec == Init /\ [][Next]_vars

\* The runtime runs every goroutine that can run, time passes, and a write returns
\* on a link that takes data and on a broken one.  Go's select chooses at random
\* among the ready cases, so a case that is ready again and again is chosen in the end.
FairSpec ==
  /\ Spec
  /\ \A f \in Finds : /\ WF_vars(FindStep(f)) /\ SF_vars(RingEnds(f))
                     /\ WF_vars(WriteFails(f) /\ wire[f] \in broken)
  /\ \A c \in Closes : WF_vars(CloseStep(c))
  /\ WF_vars(Tick)

-----------------------------------------------------------------------------
(* Properties.                                                             *)

\* A search only ever starts the earbud that it was asked for: Send takes the
\* session's current link, and only connectMu keeps another device out of it
\* ("Keep reconnection/transport replacement out of the complete search sequence").
RingsAskedLink == \A f \in Finds : bell[f] \in {link[f], None}

\* No search returns with its earbud ringing on a link that is still up: whatever
\* ended it, STOP was written first.
NeverLeftRinging ==
  \A f \in Finds :
    bell[f] # None /\ bell[f] = transport => find[f] \notin {"finish", "release", "done"}

\* "Explicit close must leave the transport open until FIND OFF completes", unless
\* the grace period is over; a search that registers meanwhile does not slip by.
CloseWaitsForStop ==
  [][\A c \in Closes :
       close[c] = "closing" /\ close'[c] = "done" /\ transport # None
         => c \in expired \/ \A f \in Finds : bell[f] # transport]_vars

\* A START is only begun while the newest reading is recent and out of the ear, on
\* the link the search was asked for: a reading of an older link or an older search
\* cannot start it.
StartsOnFreshReading ==
  [][\A f \in Finds :
       find[f] # "starting" /\ find'[f] = "starting"
         => seen[f] /\ ear.wear = "out" /\ ear.age <= MaxAge /\ transport = link[f]]_vars

\* "Install stop before start: even a failed write may have reached the device": a
\* search returns with its earbud possibly ringing only when the link is broken.
FailedStartIsStopped ==
  \A f \in Finds : find[f] = "done" /\ bell[f] # None => bell[f] \in broken

Stuck(f) == find[f] \in Sending /\ wire[f] \in stalled \ broken

\* Every search returns, unless a write of some search blocks for ever.
FindReturns ==
  []<>(\A f \in Finds : find[f] \in {"idle", "done"} \/ \E g \in Finds : Stuck(g))

\* Close returns, even when a write never does: the grace period bounds the wait.
CloseReturns == \A c \in Closes : close[c] = "await" ~> close[c] = "done"

=============================================================================
