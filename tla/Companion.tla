----------------------------- MODULE Companion ------------------------------
(***************************************************************************)
(* The controller of the companion window (internal/ui/companion).  Calls  *)
(* of the window, of the tray and of a ticker become jobs of a bounded     *)
(* queue, which one worker runs.  A call that means the connected earbuds  *)
(* takes a token (their address and a generation) and its job checks it    *)
(* before it uses the link.                                                *)
(*                                                                         *)
(* Every call of a user is a one-shot actor; the ticker goes round, and a  *)
(* job of it is named Ticker.  Only jobs make links; links break at any    *)
(* time.  The event of a change of the link is read by the controller's    *)
(* event loop some time later, and an event that the channel evicted is    *)
(* one that stays unread.                                                  *)
(***************************************************************************)
EXTENDS Integers, Sequences, FiniteSets, Functions

CONSTANTS
  Sets,        \* calls of Feature, DualPeer or ResolveDual: a SET with its readback
  Connects,    \* calls of ConnectDevice, or of Connect where Target is NoMAC
  Disconnects,
  Finds,
  Window,      \* the calls that the window makes; the others are the tray's
  Ticker,
  AutoConnect, InitialDevice, \* the options of the program
  MACs,        \* the earbuds in reach
  NoMAC,
  Target,      \* the device that a Connect names
  None,        \* no job
  QueueLimit,  \* 8 in the code
  MaxLinks     \* bounds the links that are made

Users == Sets \cup Connects \cup Disconnects \cup Finds
Jobs == Users \cup {Ticker}

ASSUME CompanionAssumption ==
  /\ Target \in [Connects -> MACs \cup {NoMAC}] /\ NoMAC \notin MACs
  /\ AutoConnect \in BOOLEAN /\ InitialDevice \in MACs \cup {NoMAC}
  /\ Sets \cap (Connects \cup Disconnects \cup Finds) = {}
  /\ Connects \cap (Disconnects \cup Finds) = {} /\ Disconnects \cap Finds = {}
  /\ None \notin Jobs /\ Ticker \notin Users
  /\ Window \subseteq Users
  /\ QueueLimit \in Nat \ {0} /\ MaxLinks \in Nat

VARIABLES
  ctxDone,     \* the program shuts down
  pc,          \* where each call is, and then its job
  tick,        \* what the ticker last saw
  tickJob,     \* what the ticker's job does
  queue, running, pending, background,
  auto, target,
  findCancel,  \* the search that holds the slot
  cancelled,   \* the searches whose context is cancelled
  stopping,    \* the search that a Disconnect found in the slot
  job,         \* what a call and its job remember, see Job
  generation,
  link,        \* the link that is up, 0 for none
  macs,        \* the address behind each link so far
  device,      \* the address the session shows, kept after a disconnect
  unread       \* link events that the event loop has not read

tickVars == <<tick, tickJob>>
queueVars == <<queue, running, pending, background>>
wishVars == <<auto, target, ctxDone>>
findVars == <<findCancel, cancelled, stopping>>
linkVars == <<link, macs, device, unread, generation>>
rest == <<tickVars, queueVars, wishVars, findVars, linkVars>>
data == <<job, rest>>
vars == <<pc, data>>

\* A call runs in its caller's goroutine until its job is queued.
Calling == {"name", "goal", "token", "stamp", "slot", "cancel", "off", "submit", "undo"}
Running == {"check", "same", "compare", "write", "wait", "read", "ring", "ringing",
            "clear", "connect", "bind", "disconnect", "end"}

Job ==
  [goal : MACs \cup {NoMAC},                      \* the device it connects to
   mac : MACs \cup {NoMAC}, generation : Nat,     \* its token
   stood : Nat,       \* the link that was up when the generation was read
   lagging : BOOLEAN, \* events were unread when the job compared it
   reached : Nat,     \* the link the job used, 0 for none
   readback : Nat]    \* the link its follow-up used

NoJob == [goal |-> NoMAC, mac |-> NoMAC, generation |-> 0, stood |-> 0,
          lagging |-> FALSE, reached |-> 0, readback |-> 0]

\* The types; no queue overflows, and a link belongs to the device the session shows.
TypeOK ==
  /\ ctxDone \in BOOLEAN
  /\ pc \in [Jobs -> {"idle", "queued", "done"} \cup Calling \cup Running]
  /\ tick \in {"wait", "auto", "idle"} /\ tickJob \in {"connect", "refresh"}
  /\ queue \in Seq(Jobs) /\ Len(queue) <= QueueLimit
  /\ running \in Jobs \cup {None}
  /\ pending \in Nat /\ background \in 0 .. pending
  /\ auto \in BOOLEAN /\ target \in MACs \cup {NoMAC}
  /\ findCancel \in Finds \cup {None} /\ cancelled \subseteq Finds
  /\ stopping \in [Disconnects -> Finds \cup {None}]
  /\ job \in [Jobs -> Job]
  /\ \A j \in Jobs : {job[j].reached, job[j].readback, job[j].stood} \subseteq 0 .. Len(macs)
  /\ macs \in Seq(MACs) /\ Len(macs) <= MaxLinks
  /\ link \in 0 .. Len(macs) /\ (link # 0 => device = macs[link])
  /\ device \in MACs \cup {NoMAC}
  /\ unread \in Nat /\ generation \in Nat

Init ==
  /\ ctxDone = FALSE
  /\ pc = [j \in Jobs |-> "idle"]
  /\ tick = "wait" /\ tickJob = "connect"
  /\ queue = <<>> /\ running = None /\ pending = 0 /\ background = 0
  /\ auto = AutoConnect /\ target = InitialDevice
  /\ findCancel = None /\ cancelled = {}
  /\ stopping = [d \in Disconnects |-> None]
  /\ job = [j \in Jobs |-> NoJob]
  /\ link = 0 /\ macs = <<>> /\ device = NoMAC /\ unread = 0 /\ generation = 0

-----------------------------------------------------------------------------
(* The calls.  An operator named ...Mutant is a bug that could have been made  *)
(* in the definition below it, which a run catches.                           *)

Go(j, from, to) == pc[j] = from /\ pc' = [pc EXCEPT ![j] = to]

Move(j, from, to) == Go(j, from, to) /\ UNCHANGED data

\* The window makes one call at a time, each call of the tray has its goroutine.
Starts(u, kind, to) ==
  /\ u \in kind
  /\ u \in Window => \A w \in Window : pc[w] \notin Calling
  /\ Go(u, "idle", to)

\* SetAuto(true), then ConnectDevice or Connect.
Connect(c) ==
  /\ Starts(c, Connects, "name")
  /\ auto' = TRUE
  /\ UNCHANGED <<job, tickVars, queueVars, target, ctxDone, findVars, linkVars>>

NameTarget(c) ==
  /\ Go(c, "name", "goal")
  /\ target' = IF Target[c] = NoMAC THEN target ELSE Target[c]
  /\ UNCHANGED <<job, tickVars, queueVars, auto, ctxDone, findVars, linkVars>>

TakeGoal(j) ==
  /\ Go(j, "goal", "submit")
  /\ job' = [job EXCEPT ![j].goal = target]
  /\ UNCHANGED rest

\* Disconnect first calls StopFind, which reads the slot and cancels what it found.
Disconnect(d) ==
  /\ Starts(d, Disconnects, "cancel")
  /\ stopping' = [stopping EXCEPT ![d] = findCancel]
  /\ UNCHANGED <<job, tickVars, queueVars, wishVars, findCancel, cancelled, linkVars>>

StopFind(d) ==
  /\ Go(d, "cancel", "off")
  /\ cancelled' = cancelled \cup ({stopping[d]} \ {None})
  /\ stopping' = [stopping EXCEPT ![d] = None]
  /\ UNCHANGED <<job, tickVars, queueVars, wishVars, findCancel, linkVars>>

AutoOff(d) ==
  /\ Go(d, "off", "submit")
  /\ auto' = FALSE
  /\ UNCHANGED <<job, tickVars, queueVars, target, ctxDone, findVars, linkVars>>

\* Feature asks for a link before anything else.
Feature(s) ==
  /\ Starts(s, Sets, IF link # 0 THEN "token" ELSE "done")
  /\ UNCHANGED data

\* DualPeer and ResolveDual do not look first.
DualPeer(s) ==
  /\ Starts(s, Sets, "token")
  /\ UNCHANGED data

Find(f) ==
  /\ Starts(f, Finds, "token")
  /\ UNCHANGED data

\* token reads the address from a Snapshot, and then the generation.
TokenMAC(j) ==
  /\ Go(j, "token", "stamp")
  /\ job' = [job EXCEPT ![j].mac = device]
  /\ UNCHANGED rest

TokenGeneration(j) ==
  /\ Go(j, "stamp", IF j \in Finds THEN "slot" ELSE "submit")
  /\ job' = [job EXCEPT ![j].generation = generation, ![j].stood = link]
  /\ UNCHANGED rest

SlotFreeMutant == TRUE

SlotFree == findCancel = None

TakeSlot(f) ==
  /\ IF SlotFree
       THEN Go(f, "slot", "submit") /\ findCancel' = f
       ELSE Go(f, "slot", "done") /\ UNCHANGED findCancel
  /\ UNCHANGED <<job, tickVars, queueVars, wishVars, cancelled, stopping, linkVars>>

-----------------------------------------------------------------------------
(* submitWork: the context, the rule for background jobs, the counter and the *)
(* attempt to enqueue are one critical section.                              *)

IsBackground(j) == j = Ticker /\ tickJob = "refresh"

AdmitsMutant(j) == ~ctxDone

Admits(j) == ~ctxDone /\ (IsBackground(j) => pending = 0)

QueueFullMutant == Len(queue) = QueueLimit + 1

QueueFull == Len(queue) = QueueLimit

Accept(j) ==
  /\ Admits(j) /\ ~QueueFull
  /\ Go(j, "submit", "queued")
  /\ queue' = Append(queue, j)
  /\ pending' = pending + 1
  /\ background' = IF IsBackground(j) THEN background + 1 ELSE background
  /\ UNCHANGED <<job, tickVars, running, wishVars, findVars, linkVars>>

\* The pending count after a job that the full queue did not take.
AfterRefusalMutant == pending + 1

AfterRefusal == pending

\* What a call remembers ends with it or with its job.
Forget(j) == job' = [job EXCEPT ![j] = NoJob]

Rejected(j) ==
  CASE j \in Finds -> "undo"
    [] j = Ticker -> "idle"
    [] OTHER -> "done"

Refuse(j) ==
  /\ Admits(j) => QueueFull
  /\ Go(j, "submit", Rejected(j))
  /\ Forget(j)
  /\ pending' = IF Admits(j) THEN AfterRefusal ELSE pending
  /\ UNCHANGED <<tickVars, queue, running, background, wishVars, findVars, linkVars>>

\* clear, for a search that was not accepted and for one that ran.
ClearSlot(f) ==
  /\ findCancel' = None
  /\ cancelled' = cancelled \cup {f}
  /\ UNCHANGED stopping

Undo(f) ==
  /\ Go(f, "undo", "done")
  /\ ClearSlot(f)
  /\ UNCHANGED <<job, tickVars, queueVars, wishVars, linkVars>>

-----------------------------------------------------------------------------
(* The ticker.                                                             *)

Tick ==
  /\ tick = "wait" /\ pc[Ticker] \notin Calling
  /\ pending = 0
  /\ tick' = IF auto THEN "auto" ELSE "idle"
  /\ UNCHANGED <<pc, job, tickJob, queueVars, wishVars, findVars, linkVars>>

\* What it saw may be outdated by now.
TickConnects ==
  /\ tick = "auto" /\ link = 0
  /\ tick' = "wait" /\ tickJob' = "connect"
  /\ pc' = [pc EXCEPT ![Ticker] = "goal"]
  /\ UNCHANGED <<job, queueVars, wishVars, findVars, linkVars>>

TickLinked ==
  /\ tick = "auto" /\ link # 0
  /\ tick' = "idle"
  /\ UNCHANGED <<pc, job, tickJob, queueVars, wishVars, findVars, linkVars>>

TickRefreshes ==
  /\ tick = "idle" /\ link # 0
  /\ tick' = "wait" /\ tickJob' = "refresh"
  /\ pc' = [pc EXCEPT ![Ticker] = "token"]
  /\ UNCHANGED <<job, queueVars, wishVars, findVars, linkVars>>

TickIdles ==
  /\ tick = "idle" /\ link = 0
  /\ tick' = "wait"
  /\ UNCHANGED <<pc, job, tickJob, queueVars, wishVars, findVars, linkVars>>

-----------------------------------------------------------------------------
(* The worker and its jobs.                                                *)

First(j) ==
  CASE j \in Finds -> "check"
    [] j \in Connects \/ (j = Ticker /\ tickJob = "connect") -> "connect"
    [] j \in Disconnects -> "disconnect"
    [] OTHER -> "same"

WorkerFreeMutant == TRUE

\* The next job is taken when the last one is finished.
WorkerFree == running = None

Take(j) ==
  /\ WorkerFree /\ queue # <<>> /\ j = Head(queue)
  /\ ~ctxDone
  /\ queue' = Tail(queue) /\ running' = j
  /\ Go(j, "queued", First(j))
  /\ UNCHANGED <<job, tickVars, pending, background, wishVars, findVars, linkVars>>

\* A search gives its slot back before its job ends.
Out(j) == IF j \in Finds THEN "clear" ELSE "end"

CheckStopped(f) ==
  Move(f, "check", IF f \in cancelled \/ ctxDone THEN "clear" ELSE "same")

SameDeviceMutant(j) == link # 0

SameDevice(j) == link # 0 /\ device = job[j].mac

\* sameConnection: the Snapshot, and then the generation.
Same(j) ==
  Move(j, "same", IF SameDevice(j) THEN "compare" ELSE Out(j))

SameGenerationMutant(j) == TRUE

SameGeneration(j) == job[j].generation = generation

Use(j) ==
  CASE job[j].reached # 0 -> "read"
    [] j \in Finds -> "ring"
    [] OTHER -> "write"

Compare(j) ==
  /\ Go(j, "compare", IF SameGeneration(j) THEN Use(j) ELSE Out(j))
  /\ job' = [job EXCEPT ![j].lagging = IF job[j].reached = 0 THEN unread > 0 ELSE @]
  /\ UNCHANGED rest

\* Execute or Status: Send writes to the link that is up.  What follows is the
\* readback of a SET, and the GETs of a refresh where the model has any.
Write(j) ==
  /\ link # 0
  /\ \/ j \in Sets /\ Go(j, "write", "wait")
     \/ j = Ticker /\ \E next \in {"same", "end"} : Go(j, "write", next)
  /\ job' = [job EXCEPT ![j].reached = link]
  /\ UNCHANGED rest

UseFails(j) == \E from \in {"write", "read", "ring"} : Move(j, from, Out(j))

Wait(j) ==
  Move(j, "wait", "same") \/ (ctxDone /\ Move(j, "wait", "end"))

Read(j) ==
  /\ link # 0
  /\ Go(j, "read", "end")
  /\ job' = [job EXCEPT ![j].readback = link]
  /\ UNCHANGED rest

Ring(f) ==
  /\ link # 0
  /\ Go(f, "ring", "ringing")
  /\ job' = [job EXCEPT ![f].reached = link]
  /\ UNCHANGED rest

\* FindEarbud returns: see module Find.
RingEnds(f) ==
  Move(f, "ringing", "clear")

Clear(f) ==
  /\ Go(f, "clear", "end")
  /\ ClearSlot(f)
  /\ UNCHANGED <<job, tickVars, queueVars, wishVars, linkVars>>

\* Close reports a link that was up.
CloseLink ==
  /\ link' = 0
  /\ unread' = IF link # 0 THEN unread + 1 ELSE unread
  /\ UNCHANGED <<macs, device, generation>>

NewLink(mac) ==
  /\ Len(macs) < MaxLinks
  /\ macs' = Append(macs, mac) /\ link' = Len(macs) + 1
  /\ device' = mac
  /\ unread' = unread + 1
  /\ UNCHANGED generation

RunDisconnect(d) ==
  /\ Go(d, "disconnect", "end")
  /\ CloseLink
  /\ UNCHANGED <<job, tickVars, queueVars, wishVars, findVars>>

\* SwitchTo leaves the link alone when it is the one it wants.
SwitchTo(j) ==
  /\ job[j].goal # NoMAC
  /\ IF ctxDone \/ (link # 0 /\ device = job[j].goal)
       THEN Go(j, "connect", "end") /\ UNCHANGED linkVars
       ELSE Go(j, "connect", "bind") /\ CloseLink
  /\ UNCHANGED <<job, tickVars, queueVars, wishVars, findVars>>

Bind(j) ==
  /\ Go(j, "bind", "end")
  /\ NewLink(job[j].goal)
  /\ UNCHANGED <<job, tickVars, queueVars, wishVars, findVars>>

\* ConnectBest takes what it finds; Connect swaps the link without closing it.
ConnectBest(j) ==
  /\ job[j].goal = NoMAC
  /\ Go(j, "connect", "end")
  /\ \E mac \in MACs : IF link # 0 /\ device = mac THEN UNCHANGED linkVars ELSE NewLink(mac)
  /\ UNCHANGED <<job, tickVars, queueVars, wishVars, findVars>>

ConnectFails(j) ==
  Move(j, "bind", "end") \/ (job[j].goal = NoMAC /\ Move(j, "connect", "end"))

Finish(j) ==
  /\ Go(j, "end", IF j = Ticker THEN "idle" ELSE "done")
  /\ running' = None
  /\ Forget(j)
  /\ pending' = pending - 1
  /\ background' = IF IsBackground(j) THEN background - 1 ELSE background
  /\ UNCHANGED <<tickVars, queue, wishVars, findVars, linkVars>>

-----------------------------------------------------------------------------
(* The world.                                                              *)

LinkLost ==
  /\ link # 0
  /\ CloseLink
  /\ UNCHANGED <<pc, job, tickVars, queueVars, wishVars, findVars>>

ApplyEvent ==
  /\ unread > 0
  /\ unread' = unread - 1
  /\ generation' = generation + 1
  /\ UNCHANGED <<pc, job, tickVars, queueVars, wishVars, findVars, link, macs, device>>

Quit ==
  /\ ~ctxDone
  /\ ctxDone' = TRUE
  /\ UNCHANGED <<pc, job, tickVars, queueVars, auto, target, findVars, linkVars>>

-----------------------------------------------------------------------------
Call(u) == Connect(u) \/ Disconnect(u) \/ Feature(u) \/ DualPeer(u) \/ Find(u)

CallStep(j) ==
  \/ NameTarget(j) \/ TakeGoal(j) \/ StopFind(j) \/ AutoOff(j)
  \/ TokenMAC(j) \/ TokenGeneration(j) \/ TakeSlot(j)
  \/ Accept(j) \/ Refuse(j) \/ Undo(j)

TickStep == Tick \/ TickConnects \/ TickLinked \/ TickRefreshes \/ TickIdles

JobStep(j) ==
  \/ Take(j) \/ CheckStopped(j) \/ Same(j) \/ Compare(j)
  \/ Write(j) \/ UseFails(j) \/ Wait(j) \/ Read(j)
  \/ Ring(j) \/ RingEnds(j) \/ Clear(j)
  \/ RunDisconnect(j) \/ SwitchTo(j) \/ Bind(j) \/ ConnectBest(j) \/ ConnectFails(j)
  \/ Finish(j)

Next ==
  \/ \E u \in Users : Call(u)
  \/ \E j \in Jobs : CallStep(j) \/ JobStep(j)
  \/ TickStep \/ LinkLost \/ ApplyEvent \/ Quit

Spec == Init /\ [][Next]_vars

\* The calls of a job that the code sets no limit to: a write, FindEarbud, an open of the
\* node, a command that asks for a password.
Waits(j) ==
  \/ pc[j] \in {"write", "read", "ring", "ringing", "bind"}
  \/ pc[j] = "connect" /\ job[j].goal = NoMAC

WorkerWaits == running # None /\ Waits(running)

Calls == \E j \in Jobs : pc[j] \in Calling
TickGoesOn == tick # "wait" \/ (pc[Ticker] \notin Calling /\ pending = 0)
JobGoesOn == IF running = None THEN queue # <<>> /\ ~ctxDone ELSE ~Waits(running)

\* Only a CallStep takes a call from where it is, and only a JobStep a job.
Leaves(j, at) == pc[j] \in at /\ pc'[j] # pc[j]

\* The runtime runs every goroutine that can run, and ticks come again and again: weak
\* fairness of TickStep, of \E j \in Jobs : CallStep(j) and of \E j \in Jobs : ~Waits(j) /\
\* JobStep(j).  Nobody has to call, events may be late, and a call without a limit may never
\* return.  The actions and what enables them are written out, as TLC takes too long to
\* evaluate them.
FairSpec ==
  /\ Spec
  /\ []<>~TickGoesOn \/ []<><<TickStep>>_tick
  /\ []<>~Calls \/ []<><<\E j \in Jobs : Leaves(j, Calling)>>_pc
  /\ []<>~JobGoesOn \/
     []<><<\E j \in Jobs : ~Waits(j) /\ Leaves(j, Running \cup {"queued"})>>_pc

-----------------------------------------------------------------------------
(* Properties.                                                             *)

\* The counters agree with the jobs, whatever was refused, failed or cut short:
\* Busy disables the buttons, and pending decides what the ticker does.
CountersMatch ==
  LET outstanding == Range(queue) \cup ({running} \ {None}) IN
  /\ pending = Cardinality(outstanding)
  /\ background = Cardinality({j \in outstanding : IsBackground(j)})

\* A background job never waits behind a job of a user.
BackgroundYields ==
  \A i \in DOMAIN queue : IsBackground(queue[i]) => i = 1 /\ running = None

\* A job uses the earbuds its call meant, however long it was queued and whatever
\* was connected meanwhile.
ReachesAskedDevice ==
  \A j \in Jobs : job[j].reached # 0 => macs[job[j].reached] = job[j].mac

\* A job uses the very link that was up when its token was made, unless the event of
\* a change had not been read when it compared the generation.
ChangeNoticed ==
  \A j \in Jobs : job[j].reached # 0 /\ ~job[j].lagging => job[j].reached = job[j].stood

\* The follow-up of a request goes over the link of the request.
ReadbackOnSameLink ==
  \A j \in Jobs : job[j].readback # 0 => job[j].readback = job[j].reached

\* The slot is held by the search that is between taking it and giving it back, and
\* there is no other: a refused, stopped or failed search does not keep it.
SlotHeld ==
  \A f \in Finds :
    findCancel = f <=> pc[f] \in {"submit", "undo", "queued"} \cup (Running \ {"end"})

\* The buttons come back, unless the worker stays in a call that has no limit.
BusyEnds ==
  (pending > background ~> pending = background \/ ctxDone) \/ <>[]WorkerWaits

\* With auto on, a lost link is followed by an attempt to connect, unless the worker stays
\* in a call of an earlier job that has no limit.
ReconnectTried ==
  \/ auto /\ link = 0 ~>
       \/ ~auto \/ link # 0 \/ ctxDone
       \/ running # None /\ pc[running] \in {"connect", "bind"}
  \/ <>[]WorkerWaits

=============================================================================
