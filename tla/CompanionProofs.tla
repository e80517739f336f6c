--------------------------- MODULE CompanionProofs ---------------------------
(* What TLAPS proves about Companion, for every set of calls and earbuds, for  *)
(* every length of the queue and every number of links.                       *)
EXTENDS Companion, FiniteSetTheorems, TLAPS

-----------------------------------------------------------------------------
(* The queue as a set.                                                     *)

\* A job that is appended joins the jobs of the queue.
LEMMA RangeOfAppend ==
  ASSUME NEW S, NEW q \in Seq(S), NEW e \in S
  PROVE  Range(Append(q, e)) = Range(q) \cup {e}
<1>1. DOMAIN Append(q, e) = 1 .. Len(q) + 1 /\ DOMAIN q = 1 .. Len(q)
  OBVIOUS
<1>2. \A i \in 1 .. Len(q) : Append(q, e)[i] = q[i]
  OBVIOUS
<1>3. Append(q, e)[Len(q) + 1] = e
  OBVIOUS
<1>4. ASSUME NEW x \in Range(Append(q, e)) PROVE x \in Range(q) \cup {e}
  BY <1>1, <1>2, <1>3 DEF Range
<1>5. ASSUME NEW x \in Range(q) \cup {e} PROVE x \in Range(Append(q, e))
  BY <1>1, <1>2, <1>3 DEF Range
<1> QED
  BY <1>4, <1>5

\* A queue without repetitions loses its head and nothing else.
LEMMA RangeOfTail ==
  ASSUME NEW S, NEW q \in Seq(S), q # <<>>,
         \A i, k \in DOMAIN q : q[i] = q[k] => i = k
  PROVE  /\ Range(Tail(q)) = Range(q) \ {Head(q)}
         /\ \A i, k \in DOMAIN Tail(q) : Tail(q)[i] = Tail(q)[k] => i = k
<1>1. DOMAIN Tail(q) = 1 .. Len(q) - 1 /\ DOMAIN q = 1 .. Len(q) /\ Len(q) \in Nat \ {0}
  OBVIOUS
<1>2. \A i \in 1 .. Len(q) - 1 : Tail(q)[i] = q[i + 1]
  OBVIOUS
<1>3. Head(q) = q[1]
  OBVIOUS
<1>4. ASSUME NEW x \in Range(Tail(q)) PROVE x \in Range(q) \ {Head(q)}
  BY <1>1, <1>2, <1>3 DEF Range
<1>5. ASSUME NEW x \in Range(q) \ {Head(q)} PROVE x \in Range(Tail(q))
  <2>1. PICK i \in 2 .. Len(q) : x = q[i]
    BY <1>1, <1>3 DEF Range
  <2>2. i - 1 \in 1 .. Len(q) - 1 /\ Tail(q)[i - 1] = x
    BY <1>1, <1>2, <2>1
  <2> QED
    BY <1>1, <2>2 DEF Range
<1>6. \A i, k \in DOMAIN Tail(q) : Tail(q)[i] = Tail(q)[k] => i = k
  BY <1>1, <1>2
<1> QED
  BY <1>4, <1>5, <1>6
-----------------------------------------------------------------------------
(* The inductive invariant: types and where a call can be.                 *)

\* TypeOK without the counters, whose range depends on the queue.
Types ==
  /\ ctxDone \in BOOLEAN
  /\ pc \in [Jobs -> {"idle", "queued", "done"} \cup Calling \cup Running]
  /\ tick \in {"wait", "auto", "idle"} /\ tickJob \in {"connect", "refresh"}
  /\ queue \in Seq(Jobs) /\ Len(queue) <= QueueLimit
  /\ running \in Jobs \cup {None}
  /\ auto \in BOOLEAN /\ target \in MACs \cup {NoMAC}
  /\ findCancel \in Finds \cup {None} /\ cancelled \subseteq Finds
  /\ stopping \in [Disconnects -> Finds \cup {None}]
  /\ job \in [Jobs -> Job]
  /\ macs \in Seq(MACs) /\ Len(macs) <= MaxLinks
  /\ link \in 0 .. Len(macs) /\ (link # 0 => device = macs[link])
  /\ device \in MACs \cup {NoMAC}
  /\ unread \in Nat /\ generation \in Nat
  /\ \A j \in Jobs : pc[j] = "bind" => job[j].goal # NoMAC

\* Every kind of call goes through steps of its own.
Path(j) ==
  CASE j \in Sets -> {"idle", "token", "stamp", "submit", "queued", "same", "compare",
                      "write", "wait", "read", "end", "done"}
    [] j \in Connects -> {"idle", "name", "goal", "submit", "queued", "connect", "bind",
                          "end", "done"}
    [] j \in Disconnects -> {"idle", "cancel", "off", "submit", "queued", "disconnect",
                             "end", "done"}
    [] j \in Finds -> {"idle", "token", "stamp", "slot", "submit", "undo", "queued",
                       "check", "same", "compare", "ring", "ringing", "clear", "end",
                       "done"}
    [] j = Ticker /\ tickJob = "connect" -> {"idle", "goal", "submit", "queued",
                                             "connect", "bind", "end"}
    [] j = Ticker /\ tickJob = "refresh" -> {"idle", "token", "stamp", "submit",
                                             "queued", "same", "compare", "write",
                                             "read", "end"}

\* The ticker looks again only when its last job is over.
OnPath ==
  /\ \A j \in Jobs : pc[j] \in Path(j)
  /\ tick # "wait" => pc[Ticker] = "idle"

\* The queue holds the waiting jobs, each once, and the worker has the running one.
QueueHolds ==
  /\ \A i, k \in DOMAIN queue : queue[i] = queue[k] => i = k
  /\ \A j \in Jobs : pc[j] = "queued" <=> j \in Range(queue)
  /\ \A j \in Jobs : pc[j] \in Running <=> running = j

Outstanding == Range(queue) \cup ({running} \ {None})

\* What the counters count.  There is one ticker, so one background job at most.
Counted ==
  /\ IsFiniteSet(Outstanding) /\ pending = Cardinality(Outstanding)
  /\ background = IF Ticker \in Outstanding /\ tickJob = "refresh" THEN 1 ELSE 0

\* A job that passed sameConnection has the device it asked for, and keeps it: no
\* other job can make a link while it runs, and a lost link leaves the address.
KeepsDevice(j) ==
  /\ pc[j] \in {"compare", "write", "read", "ring"} => device = job[j].mac
  /\ pc[j] = "read" => job[j].reached # 0
  /\ j \in Finds /\ pc[j] \in {"same", "compare"} => job[j].reached = 0
  /\ job[j].reached # 0 =>
       /\ pc[j] \in {"wait", "same", "compare", "read", "ringing", "clear", "end"}
       /\ link \in {0, job[j].reached}
       /\ job[j].reached \in 1 .. Len(macs) /\ macs[job[j].reached] = job[j].mac
  /\ job[j].readback # 0 => pc[j] = "end" /\ job[j].readback = job[j].reached

\* Every change of the link is an unread event before it is a new generation.  So a
\* token that is still the newest, with nothing unread, is about the link that is up.
CountsEvents(j) ==
  /\ job[j].stood \in 0 .. Len(macs)
  /\ job[j].generation <= generation
  /\ job[j].generation = generation + unread => link = job[j].stood

\* The same for a job that compared its token and did not lag behind the events.
SawChanges(j) ==
  ~job[j].lagging =>
    /\ pc[j] \in {"write", "ring"} => link \in {0, job[j].stood}
    /\ job[j].reached # 0 => job[j].reached = job[j].stood

Tokens ==
  /\ generation + unread = 0 => link = 0
  /\ \A j \in Jobs : KeepsDevice(j) /\ CountsEvents(j) /\ SawChanges(j)

IInv ==
  /\ Types /\ OnPath /\ QueueHolds /\ Counted /\ BackgroundYields
  /\ Tokens /\ SlotHeld

-----------------------------------------------------------------------------
(* The types.                                                              *)

LEMMA TypesInit == Init => Types
<1> SUFFICES ASSUME Init PROVE Types
  OBVIOUS
<1>1. NoJob \in Job
  BY DEF NoJob, Job
<1>2. job \in [Jobs -> Job]
  BY <1>1 DEF Init
<1>3. queue \in Seq(Jobs) /\ Len(queue) <= QueueLimit
  BY CompanionAssumption DEF Init
<1>4. macs \in Seq(MACs) /\ Len(macs) <= MaxLinks /\ link \in 0 .. Len(macs)
  BY CompanionAssumption DEF Init
<1> QED
  BY <1>2, <1>3, <1>4, CompanionAssumption DEF Init, Types

\* What a step makes a job remember is of its type.
LEMMA Remembers ==
  ASSUME job \in [Jobs -> Job], NEW j \in Jobs
  PROVE  /\ \A m \in MACs \cup {NoMAC} :
              /\ [job EXCEPT ![j].goal = m] \in [Jobs -> Job]
              /\ [job EXCEPT ![j].mac = m] \in [Jobs -> Job]
         /\ \A m, n \in Nat :
              /\ [job EXCEPT ![j].generation = m, ![j].stood = n] \in [Jobs -> Job]
              /\ [job EXCEPT ![j].reached = n] \in [Jobs -> Job]
              /\ [job EXCEPT ![j].readback = n] \in [Jobs -> Job]
         /\ \A b \in BOOLEAN : [job EXCEPT ![j].lagging = b] \in [Jobs -> Job]
         /\ [job EXCEPT ![j] = NoJob] \in [Jobs -> Job]
<1>1. job[j] \in Job /\ NoJob \in Job
  BY DEF Job, NoJob
<1>2. ASSUME NEW m \in MACs \cup {NoMAC}
      PROVE  [job[j] EXCEPT !.goal = m] \in Job /\ [job[j] EXCEPT !.mac = m] \in Job
  BY <1>1 DEF Job
<1>3. ASSUME NEW m \in Nat, NEW n \in Nat
      PROVE  /\ [job[j] EXCEPT !.generation = m, !.stood = n] \in Job
             /\ [job[j] EXCEPT !.reached = n] \in Job
             /\ [job[j] EXCEPT !.readback = n] \in Job
  BY <1>1 DEF Job
<1>4. ASSUME NEW b \in BOOLEAN PROVE [job[j] EXCEPT !.lagging = b] \in Job
  BY <1>1 DEF Job
<1> QED
  BY <1>1, <1>2, <1>3, <1>4

\* Where the steps that choose lead.
LEMMA Targets ==
  ASSUME NEW j \in Jobs
  PROVE  /\ First(j) \in {"check", "connect", "disconnect", "same"}
         /\ Rejected(j) \in {"undo", "idle", "done"}
         /\ Out(j) \in {"clear", "end"}
         /\ Use(j) \in {"read", "ring", "write"}
BY DEF First, Rejected, Out, Use

\* A call stays on the path of its kind.
LEMMA Paths ==
  ASSUME OnPath, Types, NEW j \in Jobs
  PROVE  /\ pc[j] \in {"slot", "undo", "check", "ring", "ringing", "clear"} => j \in Finds
         /\ pc[j] \in {"cancel", "off", "disconnect"} => j \in Disconnects
         /\ pc[j] \in {"name"} => j \in Connects
         /\ pc[j] \in {"goal", "connect", "bind"} => j \in Connects \/ j = Ticker
BY CompanionAssumption DEF OnPath, Path, Types, Jobs, Users

\* One step of a caller keeps every variable in its type.
LEMMA CallTypes ==
  ASSUME Types, OnPath, NEW j \in Jobs, Call(j) \/ CallStep(j)
  PROVE  Types'
<1> USE CompanionAssumption DEF Types, Calling, Running, Go, Starts, data, rest, tickVars,
        queueVars, wishVars, findVars, linkVars
<1>1. CASE Connect(j)
  BY <1>1 DEF Connect
<1>2. CASE Disconnect(j)
  BY <1>2 DEF Disconnect
<1>3. CASE Feature(j)
  BY <1>3 DEF Feature
<1>4. CASE DualPeer(j) \/ Find(j)
  BY <1>4 DEF DualPeer, Find
<1>5. CASE NameTarget(j)
  BY <1>5, Paths DEF NameTarget
<1>6. CASE TakeGoal(j)
  <2>1. job' \in [Jobs -> Job]
    BY <1>6, Remembers DEF TakeGoal
  <2>2. pc[j] # "bind" /\ \A k \in Jobs \ {j} : job'[k] = job[k] /\ pc'[k] = pc[k]
    BY <1>6 DEF TakeGoal
  <2>3. \A k \in Jobs : pc'[k] = "bind" => job'[k].goal # NoMAC
    BY <1>6, <2>2 DEF TakeGoal
  <2> QED
    BY <1>6, <2>1, <2>3 DEF TakeGoal
<1>7. CASE StopFind(j)
  BY <1>7, Paths DEF StopFind
<1>8. CASE AutoOff(j)
  BY <1>8 DEF AutoOff
<1>9. CASE TokenMAC(j)
  <2>1. job' \in [Jobs -> Job]
    BY <1>9, Remembers DEF TokenMAC
  <2>2. pc[j] # "bind" /\ \A k \in Jobs \ {j} : job'[k] = job[k] /\ pc'[k] = pc[k]
    BY <1>9 DEF TokenMAC
  <2>3. \A k \in Jobs : pc'[k] = "bind" => job'[k].goal # NoMAC
    BY <1>9, <2>2 DEF TokenMAC
  <2> QED
    BY <1>9, <2>1, <2>3 DEF TokenMAC
<1>10. CASE TokenGeneration(j)
  <2>1. job' \in [Jobs -> Job]
    <3>1. link \in Nat /\ generation \in Nat
      OBVIOUS
    <3>2. job' = [job EXCEPT ![j].generation = generation, ![j].stood = link]
      BY <1>10 DEF TokenGeneration
    <3> QED
      BY <3>1, <3>2, Remembers
  <2>2. pc[j] # "bind" /\ \A k \in Jobs \ {j} : job'[k] = job[k] /\ pc'[k] = pc[k]
    BY <1>10 DEF TokenGeneration
  <2>3. \A k \in Jobs : pc'[k] = "bind" => job'[k].goal # NoMAC
    BY <1>10, <2>2 DEF TokenGeneration
  <2> QED
    BY <1>10, <2>1, <2>3 DEF TokenGeneration
<1>11. CASE TakeSlot(j)
  <2>1. j \in Finds /\ findCancel' \in Finds \cup {None}
    BY <1>11, Paths DEF TakeSlot
  <2>2. pc' = [pc EXCEPT ![j] = "submit"] \/ pc' = [pc EXCEPT ![j] = "done"]
    BY <1>11 DEF TakeSlot
  <2>3. /\ pc' \in [Jobs -> {"idle", "queued", "done"} \cup Calling \cup Running]
        /\ \A k \in Jobs : pc'[k] = "bind" => pc[k] = "bind"
    BY <2>2
  <2> QED
    BY <1>11, <2>1, <2>3 DEF TakeSlot
<1>12. CASE Accept(j)
  BY <1>12 DEF Accept, QueueFull
<1>13. CASE Refuse(j)
  <2>1. job' = [job EXCEPT ![j] = NoJob] /\ pc' = [pc EXCEPT ![j] = Rejected(j)]
    BY <1>13 DEF Refuse, Forget
  <2>2. job' \in [Jobs -> Job]
    BY <2>1, Remembers
  <2>3. pc' \in [Jobs -> {"idle", "queued", "done"} \cup Calling \cup Running]
    BY <2>1, Targets
  <2>4. \A k \in Jobs : pc'[k] = "bind" => pc[k] = "bind" /\ job'[k] = job[k]
    BY <2>1, Targets
  <2>5. pending' = pending
    BY <1>13 DEF Refuse, AfterRefusal
  <2> QED
    BY <1>13, <2>2, <2>3, <2>4, <2>5 DEF Refuse
<1>14. CASE Undo(j)
  BY <1>14, Paths DEF Undo, ClearSlot
<1> QED
  BY <1>1, <1>2, <1>3, <1>4, <1>5, <1>6, <1>7, <1>8, <1>9, <1>10, <1>11, <1>12,
     <1>13, <1>14 DEF Call, CallStep

\* A change of the link keeps its variables in their types.
LEMMA LinkTypes ==
  ASSUME Types
  PROVE  /\ CloseLink => /\ macs' \in Seq(MACs) /\ Len(macs') <= MaxLinks
                         /\ link' \in 0 .. Len(macs')
                         /\ link' # 0 => device' = macs'[link']
                         /\ device' \in MACs \cup {NoMAC}
                         /\ unread' \in Nat /\ generation' \in Nat
         /\ \A m \in MACs : NewLink(m) =>
              /\ macs' \in Seq(MACs) /\ Len(macs') <= MaxLinks
              /\ link' \in 0 .. Len(macs')
              /\ link' # 0 => device' = macs'[link']
              /\ device' \in MACs \cup {NoMAC}
              /\ unread' \in Nat /\ generation' \in Nat
<1>1. ASSUME CloseLink PROVE link' \in 0 .. Len(macs')
  BY <1>1 DEF CloseLink, Types
<1>2. ASSUME NEW m \in MACs, NewLink(m)
      PROVE  /\ macs' \in Seq(MACs) /\ Len(macs') = Len(macs) + 1
             /\ link' = Len(macs') /\ macs'[link'] = m
  BY <1>2, CompanionAssumption DEF NewLink, Types
<1>3. ASSUME NEW m \in MACs, NewLink(m) PROVE Len(macs') <= MaxLinks
  BY <1>2, <1>3, CompanionAssumption DEF NewLink, Types
<1> QED
  BY <1>1, <1>2, <1>3 DEF CloseLink, NewLink, Types

\* One step of a job keeps every variable in its type.
LEMMA JobTypes ==
  ASSUME Types, OnPath, NEW j \in Jobs, JobStep(j)
  PROVE  Types'
<1> USE CompanionAssumption DEF Types, Calling, Running, Go, Move, data, rest, tickVars,
        queueVars, wishVars, findVars, linkVars
<1>1. CASE Take(j)
  BY <1>1, Targets DEF Take
<1>2. CASE CheckStopped(j)
  BY <1>2 DEF CheckStopped
<1>3. CASE Same(j)
  BY <1>3, Targets DEF Same
<1>4. CASE Compare(j)
  <2> DEFINE b == IF job[j].reached = 0 THEN unread > 0 ELSE job[j].lagging
  <2>0. b \in BOOLEAN
    <3>1. job[j] \in Job /\ (unread > 0) \in BOOLEAN
      OBVIOUS
    <3>2. job[j].lagging \in BOOLEAN
      BY <3>1 DEF Job
    <3> QED
      BY <3>1, <3>2, Zenon
  <2>1. job' = [job EXCEPT ![j].lagging = b]
    BY <1>4 DEF Compare
  <2> HIDE DEF b
  <2>2. job' \in [Jobs -> Job]
    BY <2>0, <2>1, Remembers
  <2>3. \A k \in Jobs : job'[k].goal = job[k].goal
    BY <2>1 DEF Job
  <2> QED
    BY <1>4, <2>2, <2>3, Targets DEF Compare
<1>5. CASE Write(j)
  <2>1. link \in Nat /\ job' = [job EXCEPT ![j].reached = link]
    BY <1>5 DEF Write
  <2>2. job' \in [Jobs -> Job]
    BY <2>1, Remembers
  <2>3. \A k \in Jobs : job'[k].goal = job[k].goal
    BY <2>1 DEF Job
  <2> QED
    BY <1>5, <2>2, <2>3 DEF Write
<1>6. CASE UseFails(j)
  BY <1>6, Targets DEF UseFails
<1>7. CASE Wait(j)
  BY <1>7 DEF Wait
<1>8. CASE Read(j)
  <2>1. link \in Nat /\ job' = [job EXCEPT ![j].readback = link]
    BY <1>8 DEF Read
  <2>2. job' \in [Jobs -> Job]
    BY <2>1, Remembers
  <2>3. \A k \in Jobs : job'[k].goal = job[k].goal
    BY <2>1 DEF Job
  <2> QED
    BY <1>8, <2>2, <2>3 DEF Read
<1>9. CASE Ring(j)
  <2>1. link \in Nat /\ job' = [job EXCEPT ![j].reached = link]
    BY <1>9 DEF Ring
  <2>2. job' \in [Jobs -> Job]
    BY <2>1, Remembers
  <2>3. \A k \in Jobs : job'[k].goal = job[k].goal
    BY <2>1 DEF Job
  <2> QED
    BY <1>9, <2>2, <2>3 DEF Ring
<1>10. CASE RingEnds(j)
  BY <1>10 DEF RingEnds
<1>11. CASE Clear(j)
  BY <1>11, Paths DEF Clear, ClearSlot
<1>12. CASE RunDisconnect(j)
  BY <1>12, LinkTypes DEF RunDisconnect
<1>13. CASE SwitchTo(j)
  <2>1. CASE ctxDone \/ (link # 0 /\ device = job[j].goal)
    BY <1>13, <2>1 DEF SwitchTo
  <2>2. CASE ~(ctxDone \/ (link # 0 /\ device = job[j].goal))
    <3>1. job[j].goal # NoMAC /\ pc' = [pc EXCEPT ![j] = "bind"] /\ CloseLink
      BY <1>13, <2>2 DEF SwitchTo
    <3>2. \A k \in Jobs : pc'[k] = "bind" => job[k].goal # NoMAC
      BY <3>1
    <3> QED
      BY <1>13, <3>1, <3>2, LinkTypes DEF SwitchTo
  <2> QED
    BY <2>1, <2>2
<1>14. CASE Bind(j)
  <2>1. job[j].goal \in MACs
    BY <1>14 DEF Bind, Job
  <2> QED
    BY <1>14, <2>1, LinkTypes DEF Bind
<1>15. CASE ConnectBest(j)
  BY <1>15, LinkTypes DEF ConnectBest
<1>16. CASE ConnectFails(j)
  BY <1>16 DEF ConnectFails
<1>17. CASE Finish(j)
  <2>1. job' \in [Jobs -> Job]
    BY <1>17, Remembers DEF Finish, Forget
  <2>2. \A k \in Jobs : pc'[k] = "bind" => pc[k] = "bind" /\ job'[k] = job[k]
    BY <1>17 DEF Finish, Forget
  <2> QED
    BY <1>17, <2>1, <2>2 DEF Finish
<1> QED
  BY <1>1, <1>2, <1>3, <1>4, <1>5, <1>6, <1>7, <1>8, <1>9, <1>10, <1>11, <1>12,
     <1>13, <1>14, <1>15, <1>16, <1>17 DEF JobStep

\* So does every other step.
LEMMA TypesStep ==
  ASSUME Types, OnPath, [Next]_vars
  PROVE  Types'
<1> USE CompanionAssumption DEF Types, Calling, Running, data, rest, tickVars, queueVars,
        wishVars, findVars, linkVars
<1>1. CASE TickStep
  BY <1>1 DEF TickStep, Tick, TickConnects, TickLinked, TickRefreshes, TickIdles, Jobs
<1>2. CASE LinkLost
  BY <1>2, LinkTypes DEF LinkLost
<1>3. CASE ApplyEvent
  BY <1>3 DEF ApplyEvent
<1>4. CASE Quit
  BY <1>4 DEF Quit
<1>5. CASE UNCHANGED vars
  BY <1>5 DEF vars
<1> QED
  BY <1>1, <1>2, <1>3, <1>4, <1>5, CallTypes, JobTypes DEF Next, Jobs
-----------------------------------------------------------------------------
(* Where a call can be.                                                    *)

LEMMA CallOnPath ==
  ASSUME Types, OnPath, NEW j \in Jobs, Call(j) \/ CallStep(j)
  PROVE  OnPath'
<1> USE CompanionAssumption DEF OnPath, Path, Jobs, Users, Go, Starts, rest, tickVars
<1>1. tickJob \in {"connect", "refresh"} /\ pc \in [Jobs -> {"idle", "queued", "done"} \cup Calling \cup Running]
  BY DEF Types
<1>2. CASE Connect(j) \/ Disconnect(j)
  BY <1>1, <1>2 DEF Connect, Disconnect
<1>3. CASE Feature(j) \/ DualPeer(j) \/ Find(j)
  BY <1>1, <1>3 DEF Feature, DualPeer, Find, data
<1>4. CASE NameTarget(j) \/ TakeGoal(j)
  BY <1>1, <1>4 DEF NameTarget, TakeGoal
<1>5. CASE StopFind(j) \/ AutoOff(j)
  BY <1>1, <1>5 DEF StopFind, AutoOff
<1>6. CASE TokenMAC(j) \/ TokenGeneration(j)
  BY <1>1, <1>6 DEF TokenMAC, TokenGeneration
<1>7. CASE TakeSlot(j) \/ Undo(j)
  BY <1>1, <1>7 DEF TakeSlot, Undo
<1>8. CASE Accept(j)
  BY <1>1, <1>8 DEF Accept
<1>9. CASE Refuse(j)
  BY <1>1, <1>9 DEF Refuse, Rejected
<1> QED
  BY <1>2, <1>3, <1>4, <1>5, <1>6, <1>7, <1>8, <1>9 DEF Call, CallStep

LEMMA JobOnPath ==
  ASSUME Types, OnPath, Tokens, NEW j \in Jobs, JobStep(j)
  PROVE  OnPath'
<1> USE CompanionAssumption DEF OnPath, Path, Jobs, Users, Go, Move, rest, tickVars, data, Out
<1>1. tickJob \in {"connect", "refresh"} /\ pc \in [Jobs -> {"idle", "queued", "done"} \cup Calling \cup Running]
  BY DEF Types
<1>2. CASE Take(j)
  BY <1>1, <1>2 DEF Take, First
<1>3. CASE CheckStopped(j)
  BY <1>1, <1>3 DEF CheckStopped
<1>4. CASE Same(j)
  BY <1>1, <1>4 DEF Same
<1>5. CASE Compare(j)
  BY <1>1, <1>5 DEF Compare, Use, Tokens, KeepsDevice
<1>6. CASE Write(j)
  BY <1>1, <1>6 DEF Write
<1>7. CASE UseFails(j)
  BY <1>1, <1>7 DEF UseFails
<1>8. CASE Wait(j) \/ Read(j)
  BY <1>1, <1>8 DEF Wait, Read
<1>9. CASE Ring(j) \/ RingEnds(j) \/ Clear(j)
  BY <1>1, <1>9 DEF Ring, RingEnds, Clear
<1>10. CASE RunDisconnect(j)
  BY <1>1, <1>10 DEF RunDisconnect
<1>11. CASE SwitchTo(j) \/ Bind(j)
  BY <1>1, <1>11 DEF SwitchTo, Bind
<1>12. CASE ConnectBest(j) \/ ConnectFails(j)
  BY <1>1, <1>12 DEF ConnectBest, ConnectFails
<1>13. CASE Finish(j)
  BY <1>1, <1>13 DEF Finish
<1> QED
  BY <1>2, <1>3, <1>4, <1>5, <1>6, <1>7, <1>8, <1>9, <1>10, <1>11, <1>12, <1>13
     DEF JobStep

\* Nothing is queued or runs when the ticker looks, so its own job is over as well.
LEMMA TickerIdle ==
  ASSUME Types, OnPath, QueueHolds, Counted, Tick
  PROVE  pc[Ticker] = "idle"
<1>1. Outstanding = {}
  BY FS_EmptySet DEF Tick, Counted
<1>2. Ticker \in Jobs /\ Ticker # None
  BY CompanionAssumption DEF Jobs
<1>3. pc[Ticker] \notin {"queued"} \cup Running \cup Calling
  BY <1>1, <1>2 DEF QueueHolds, Outstanding, Tick
<1> QED
  BY <1>2, <1>3, CompanionAssumption DEF OnPath, Path, Types, Running, Calling, Jobs, Users

LEMMA OnPathStep ==
  ASSUME Types, OnPath, QueueHolds, Counted, Tokens, [Next]_vars
  PROVE  OnPath'
<1> USE CompanionAssumption DEF OnPath, Path, Jobs, Users
<1>1. pc \in [Jobs -> {"idle", "queued", "done"} \cup Calling \cup Running]
  BY DEF Types
<1>2. CASE Tick
  BY <1>1, <1>2, TickerIdle DEF Tick
<1>3. CASE TickConnects
  <2>1. tick' = "wait" /\ tickJob' = "connect"
    BY <1>3 DEF TickConnects
  <2>2. pc'[Ticker] = "goal" /\ \A k \in Jobs \ {Ticker} : pc'[k] = pc[k]
    BY <1>1, <1>3 DEF TickConnects
  <2> QED
    BY <2>1, <2>2
<1>4. CASE TickRefreshes
  <2>1. tick' = "wait" /\ tickJob' = "refresh"
    BY <1>4 DEF TickRefreshes
  <2>2. pc'[Ticker] = "token" /\ \A k \in Jobs \ {Ticker} : pc'[k] = pc[k]
    BY <1>1, <1>4 DEF TickRefreshes
  <2> QED
    BY <2>1, <2>2
<1>7. CASE TickLinked \/ TickIdles
  <2>1. UNCHANGED <<pc, tickJob>> /\ (tick' # "wait" => tick # "wait")
    BY <1>7 DEF TickLinked, TickIdles
  <2> QED
    BY <2>1
<1>5. CASE LinkLost \/ ApplyEvent \/ Quit
  BY <1>1, <1>5 DEF LinkLost, ApplyEvent, Quit, tickVars
<1>6. CASE UNCHANGED vars
  BY <1>1, <1>6 DEF vars, data, rest, tickVars
<1> QED
  BY <1>2, <1>3, <1>4, <1>5, <1>6, <1>7, CallOnPath, JobOnPath DEF Next, TickStep
-----------------------------------------------------------------------------
(* The queue, the worker and the counters.                                 *)

\* The steps that leave the queue alone: they move a call among the states outside
\* the queue, or the running job among those of the worker.  What the ticker's job does
\* is settled while there is none.
Outside == {"idle", "done"} \cup Calling

Quietly(j) ==
  /\ UNCHANGED queueVars
  /\ UNCHANGED tickJob \/ pc[Ticker] = "idle"
  /\ pc' = [pc EXCEPT ![j] = pc'[j]]
  /\ \/ pc[j] \in Outside /\ pc'[j] \in Outside
     \/ pc[j] \in Running /\ pc'[j] \in Running

LEMMA CallMoves ==
  ASSUME Types, OnPath, NEW j \in Jobs, Call(j) \/ CallStep(j), ~Accept(j)
  PROVE  Quietly(j)
<1> USE CompanionAssumption DEF Types, Quietly, Outside, Calling, Running, Go, Starts,
        data, rest, tickVars, queueVars
<1>1. CASE Connect(j) \/ Disconnect(j)
  BY <1>1 DEF Connect, Disconnect
<1>2. CASE Feature(j) \/ DualPeer(j) \/ Find(j)
  BY <1>2 DEF Feature, DualPeer, Find
<1>3. CASE NameTarget(j) \/ TakeGoal(j)
  BY <1>3 DEF NameTarget, TakeGoal
<1>4. CASE StopFind(j) \/ AutoOff(j)
  BY <1>4 DEF StopFind, AutoOff
<1>5. CASE TokenMAC(j) \/ TokenGeneration(j)
  BY <1>5 DEF TokenMAC, TokenGeneration
<1>6. CASE TakeSlot(j) \/ Undo(j)
  BY <1>6 DEF TakeSlot, Undo
<1>7. CASE Refuse(j)
  BY <1>7, Targets DEF Refuse, AfterRefusal
<1> QED
  BY <1>1, <1>2, <1>3, <1>4, <1>5, <1>6, <1>7 DEF Call, CallStep

LEMMA JobMoves ==
  ASSUME Types, OnPath, NEW j \in Jobs, JobStep(j), ~Take(j), ~Finish(j)
  PROVE  Quietly(j)
<1> USE CompanionAssumption DEF Types, Quietly, Outside, Calling, Running, Go, Move,
        data, rest, tickVars, queueVars
<1>1. CASE CheckStopped(j) \/ Same(j)
  BY <1>1, Targets DEF CheckStopped, Same
<1>2. CASE Compare(j)
  BY <1>2, Targets DEF Compare
<1>3. CASE Write(j)
  BY <1>3 DEF Write
<1>4. CASE UseFails(j)
  BY <1>4, Targets DEF UseFails
<1>5. CASE Wait(j) \/ Read(j)
  BY <1>5 DEF Wait, Read
<1>6. CASE Ring(j) \/ RingEnds(j) \/ Clear(j)
  BY <1>6 DEF Ring, RingEnds, Clear
<1>7. CASE RunDisconnect(j)
  BY <1>7 DEF RunDisconnect
<1>8. CASE SwitchTo(j) \/ Bind(j)
  BY <1>8 DEF SwitchTo, Bind
<1>9. CASE ConnectBest(j) \/ ConnectFails(j)
  BY <1>9 DEF ConnectBest, ConnectFails
<1> QED
  BY <1>1, <1>2, <1>3, <1>4, <1>5, <1>6, <1>7, <1>8, <1>9 DEF JobStep

\* What a step does to the queue.
LEMMA NextMoves ==
  ASSUME Types, OnPath, [Next]_vars
  PROVE  \/ \E j \in Jobs : Accept(j) \/ Take(j) \/ Finish(j) \/ Quietly(j)
         \/ UNCHANGED <<pc, queueVars, tickJob>>
<1>1. CASE Tick \/ TickLinked \/ TickIdles
  BY <1>1 DEF Tick, TickLinked, TickIdles, queueVars
<1>2. CASE TickConnects \/ TickRefreshes
  <2>1. Ticker \in Jobs /\ pc[Ticker] = "idle"
    BY <1>2 DEF Jobs, OnPath, TickConnects, TickRefreshes
  <2>2. Quietly(Ticker)
    BY <1>2, <2>1 DEF Types, TickConnects, TickRefreshes, Quietly, Outside, Calling, queueVars
  <2> QED
    BY <2>1, <2>2
<1>3. CASE LinkLost \/ ApplyEvent \/ Quit
  BY <1>3 DEF LinkLost, ApplyEvent, Quit, tickVars, queueVars
<1>4. CASE UNCHANGED vars
  BY <1>4 DEF vars, data, rest, tickVars, queueVars
<1> QED
  BY <1>1, <1>2, <1>3, <1>4, CallMoves, JobMoves DEF Next, TickStep, Jobs

LEMMA QueueStep ==
  ASSUME Types, OnPath, QueueHolds, [Next]_vars
  PROVE  QueueHolds'
<1>0. /\ pc \in [Jobs -> {"idle", "queued", "done"} \cup Calling \cup Running]
      /\ queue \in Seq(Jobs) /\ running \in Jobs \cup {None} /\ None \notin Jobs
  BY CompanionAssumption DEF Types
<1> USE <1>0 DEF QueueHolds, Go
<1>1. ASSUME NEW j \in Jobs, Accept(j) PROVE QueueHolds'
  <2>1. pc[j] = "submit" /\ j \notin Range(queue) /\ running # j
    BY <1>1 DEF Accept, Running
  <2>2. /\ queue' = Append(queue, j) /\ Range(queue') = Range(queue) \cup {j}
        /\ running' = running /\ pc' = [pc EXCEPT ![j] = "queued"]
    BY <1>1, RangeOfAppend DEF Accept
  <2>3. \A i, k \in DOMAIN queue' : queue'[i] = queue'[k] => i = k
    <3>1. /\ DOMAIN queue' = 1 .. Len(queue) + 1 /\ DOMAIN queue = 1 .. Len(queue)
          /\ queue'[Len(queue) + 1] = j /\ Len(queue) \in Nat
          /\ \A i \in 1 .. Len(queue) : queue'[i] = queue[i] /\ queue'[i] # j
      BY <2>1, <2>2 DEF Range
    <3> QED
      BY <3>1
  <2> QED
    BY <2>1, <2>2, <2>3 DEF Running
<1>2. ASSUME NEW j \in Jobs, Take(j) PROVE QueueHolds'
  <2>1. queue # <<>> /\ j = Head(queue) /\ queue' = Tail(queue) /\ running' = j
        /\ running = None
    BY <1>2 DEF Take, WorkerFree
  <2>2. /\ Range(queue') = Range(queue) \ {j}
        /\ \A i, k \in DOMAIN queue' : queue'[i] = queue'[k] => i = k
    BY <2>1, RangeOfTail
  <2>3. pc' = [pc EXCEPT ![j] = First(j)] /\ First(j) \in Running /\ First(j) # "queued"
    BY <1>2, Targets DEF Take, Running
  <2> QED
    BY <2>1, <2>2, <2>3
<1>3. ASSUME NEW j \in Jobs, Finish(j) PROVE QueueHolds'
  BY <1>3 DEF Finish, Running
<1>4. ASSUME NEW j \in Jobs, Quietly(j) PROVE QueueHolds'
  BY <1>4 DEF Quietly, Outside, Calling, Running, queueVars
<1>5. CASE UNCHANGED <<pc, queueVars, tickJob>>
  BY <1>5 DEF queueVars
<1> QED
  BY <1>1, <1>2, <1>3, <1>4, <1>5, NextMoves

LEMMA CountedStep ==
  ASSUME Types, OnPath, QueueHolds, Counted, [Next]_vars
  PROVE  Counted'
<1>0. /\ queue \in Seq(Jobs) /\ running \in Jobs \cup {None} /\ None \notin Jobs
      /\ tickJob \in {"connect", "refresh"} /\ Ticker \in Jobs
      /\ pc \in [Jobs -> {"idle", "queued", "done"} \cup Calling \cup Running]
  BY CompanionAssumption DEF Types, Jobs
<1>1. ASSUME NEW j \in Jobs, Accept(j) PROVE Counted'
  <2>1. j \notin Outstanding
    BY <1>0, <1>1 DEF Accept, Go, QueueHolds, Outstanding, Running
  <2>2. Outstanding' = Outstanding \cup {j}
    BY <1>0, <1>1, RangeOfAppend DEF Accept, Outstanding
  <2>3. IsFiniteSet(Outstanding') /\ Cardinality(Outstanding') = Cardinality(Outstanding) + 1
    BY <2>1, <2>2, FS_AddElement DEF Counted
  <2>4. pending' = Cardinality(Outstanding')
    BY <1>1, <2>3 DEF Accept, Counted
  <2>5. background' = IF Ticker \in Outstanding' /\ tickJob' = "refresh" THEN 1 ELSE 0
    BY <1>0, <1>1, <2>1, <2>2 DEF Accept, IsBackground, Counted, tickVars
  <2> QED
    BY <2>3, <2>4, <2>5 DEF Counted
<1>2. ASSUME NEW j \in Jobs, Take(j) PROVE Counted'
  <2>1. /\ running = None /\ running' = j /\ j = Head(queue)
        /\ queue # <<>> /\ queue' = Tail(queue)
    BY <1>2 DEF Take, WorkerFree
  <2>2. Range(queue') = Range(queue) \ {j}
    BY <1>0, <2>1, RangeOfTail DEF QueueHolds
  <2>3. pc[j] = "queued"
    BY <1>2 DEF Take, Go
  <2>4. j \in Range(queue)
    BY <2>3 DEF QueueHolds
  <2>5. Outstanding' = Outstanding
    BY <1>0, <2>1, <2>2, <2>4 DEF Outstanding
  <2> QED
    BY <1>2, <2>5 DEF Take, Counted, tickVars
<1>3. ASSUME NEW j \in Jobs, Finish(j) PROVE Counted'
  <2>1. running = j /\ j \notin Range(queue)
    BY <1>0, <1>3 DEF Finish, Go, QueueHolds, Running
  <2>2. Outstanding' = Outstanding \ {j} /\ j \in Outstanding
    BY <1>0, <1>3, <2>1 DEF Finish, Outstanding
  <2>3. IsFiniteSet(Outstanding') /\ Cardinality(Outstanding') = Cardinality(Outstanding) - 1
    BY <2>2, FS_RemoveElement DEF Counted
  <2>4. pending' = Cardinality(Outstanding')
    BY <1>3, <2>3 DEF Finish, Counted
  <2>5. background' = IF Ticker \in Outstanding' /\ tickJob' = "refresh" THEN 1 ELSE 0
    BY <1>0, <1>3, <2>2 DEF Finish, IsBackground, Counted, tickVars
  <2> QED
    BY <2>3, <2>4, <2>5 DEF Counted
<1>4. ASSUME NEW j \in Jobs, Quietly(j) PROVE Counted'
  <2>1. Outstanding' = Outstanding /\ pending' = pending /\ background' = background
    BY <1>4 DEF Quietly, queueVars, Outstanding
  <2>2. pc[Ticker] = "idle" => Ticker \notin Outstanding
    BY <1>0 DEF QueueHolds, Outstanding, Running
  <2> QED
    BY <1>4, <2>1, <2>2 DEF Quietly, Counted
<1>5. CASE UNCHANGED <<pc, queueVars, tickJob>>
  BY <1>5 DEF queueVars, Counted, Outstanding
<1> QED
  BY <1>1, <1>2, <1>3, <1>4, <1>5, NextMoves

LEMMA BackgroundStep ==
  ASSUME Types, OnPath, QueueHolds, Counted, BackgroundYields, [Next]_vars
  PROVE  BackgroundYields'
<1> SUFFICES ASSUME NEW i \in DOMAIN queue', queue'[i] = Ticker, tickJob' = "refresh"
             PROVE  i = 1 /\ running' = None
  BY DEF BackgroundYields, IsBackground
<1>1. /\ queue \in Seq(Jobs) /\ Ticker \in Jobs
      /\ DOMAIN queue = 1 .. Len(queue) /\ Len(queue) \in Nat
  BY DEF Types, Jobs
<1>2. ASSUME NEW k \in DOMAIN queue, queue[k] = Ticker, tickJob = "refresh"
      PROVE  k = 1 /\ running = None
  BY <1>2 DEF BackgroundYields, IsBackground
<1>3. ASSUME NEW j \in Jobs, Accept(j) PROVE i = 1 /\ running' = None
  <2>1. /\ DOMAIN queue' = 1 .. Len(queue) + 1
        /\ \A k \in DOMAIN queue : queue'[k] = queue[k]
        /\ queue'[Len(queue) + 1] = j
        /\ running' = running /\ tickJob' = tickJob
    BY <1>1, <1>3 DEF Accept, tickVars
  <2>2. CASE i \in DOMAIN queue
    BY <1>2, <2>1, <2>2
  <2>3. CASE i = Len(queue) + 1
    <3>1. Outstanding = {}
      BY <1>3, <2>1, <2>3, FS_EmptySet DEF Accept, Admits, IsBackground, Counted
    <3>2. Range(queue) = {} /\ running = None
      BY <3>1 DEF Outstanding
    <3>3. 1 \notin DOMAIN queue
      BY <3>2 DEF Range
    <3> QED
      BY <1>1, <2>1, <2>3, <3>2, <3>3
  <2> QED
    BY <1>1, <2>1, <2>2, <2>3
<1>4. ASSUME NEW j \in Jobs, Take(j) PROVE FALSE
  <2>1. queue # <<>> /\ queue' = Tail(queue) /\ tickJob' = tickJob
    BY <1>4 DEF Take, tickVars
  <2>2. i + 1 \in DOMAIN queue /\ queue'[i] = queue[i + 1] /\ i + 1 # 1
    BY <1>1, <2>1
  <2> QED
    BY <1>2, <2>1, <2>2
<1>5. ASSUME NEW j \in Jobs, Finish(j) PROVE i = 1 /\ running' = None
  BY <1>2, <1>5 DEF Finish, tickVars
<1>6. ASSUME NEW j \in Jobs, Quietly(j) PROVE i = 1 /\ running' = None
  <2>1. queue[i] = Ticker /\ i \in DOMAIN queue /\ running' = running
    BY <1>6 DEF Quietly, queueVars
  <2>2. pc[Ticker] = "queued"
    BY <1>1, <2>1 DEF QueueHolds, Range
  <2> QED
    BY <1>2, <1>6, <2>1, <2>2 DEF Quietly
<1>7. CASE UNCHANGED <<pc, queueVars, tickJob>>
  BY <1>2, <1>7 DEF queueVars
<1> QED
  BY <1>3, <1>4, <1>5, <1>6, <1>7, NextMoves

-----------------------------------------------------------------------------
(* The slot of the search.                                                 *)

\* The steps between taking the slot and giving it back.
Holding == {"submit", "undo", "queued"} \cup (Running \ {"end"})

LEMMA CallSlot ==
  ASSUME Types, OnPath, SlotHeld, NEW j \in Jobs, Call(j) \/ CallStep(j)
  PROVE  SlotHeld'
<1>0. /\ pc \in [Jobs -> {"idle", "queued", "done"} \cup Calling \cup Running]
      /\ Finds \subseteq Jobs /\ None \notin Jobs /\ Ticker \notin Finds
      /\ findCancel \in Finds \cup {None}
  BY CompanionAssumption DEF Types, Jobs, Users
<1>00. \A f \in Finds : findCancel = f <=> pc[f] \in Holding
  BY DEF SlotHeld, Holding
<1> SUFFICES \A f \in Finds : findCancel' = f <=> pc'[f] \in Holding
  BY DEF SlotHeld, Holding
<1> USE <1>0, <1>00 DEF Holding, Running, Go, Starts, findVars, data, rest
<1>1. CASE Connect(j) \/ Disconnect(j)
  BY <1>1 DEF Connect, Disconnect
<1>2. CASE Feature(j) \/ DualPeer(j) \/ Find(j)
  BY <1>2 DEF Feature, DualPeer, Find
<1>3. CASE NameTarget(j) \/ TakeGoal(j) \/ StopFind(j) \/ AutoOff(j)
  <2>1. j \notin Finds
    BY <1>3, CompanionAssumption DEF NameTarget, TakeGoal, StopFind, AutoOff, OnPath, Path, Jobs, Users
  <2> QED
    BY <1>3, <2>1 DEF NameTarget, TakeGoal, StopFind, AutoOff
<1>4. CASE TokenMAC(j) \/ TokenGeneration(j)
  BY <1>4, CompanionAssumption DEF TokenMAC, TokenGeneration
<1>5. CASE TakeSlot(j) \/ Undo(j)
  BY <1>5, Paths DEF TakeSlot, SlotFree, Undo, ClearSlot
<1>6. CASE Accept(j)
  BY <1>6 DEF Accept
<1>7. CASE Refuse(j)
  BY <1>7 DEF Refuse, Rejected
<1> QED
  BY <1>1, <1>2, <1>3, <1>4, <1>5, <1>6, <1>7 DEF Call, CallStep

LEMMA JobSlot ==
  ASSUME Types, OnPath, Tokens, SlotHeld, NEW j \in Jobs, JobStep(j)
  PROVE  SlotHeld'
<1>0. /\ pc \in [Jobs -> {"idle", "queued", "done"} \cup Calling \cup Running]
      /\ Finds \subseteq Jobs /\ None \notin Jobs /\ Ticker \notin Finds
      /\ findCancel \in Finds \cup {None}
  BY CompanionAssumption DEF Types, Jobs, Users
<1>00. \A f \in Finds : findCancel = f <=> pc[f] \in Holding
  BY DEF SlotHeld, Holding
<1> SUFFICES \A f \in Finds : findCancel' = f <=> pc'[f] \in Holding
  BY DEF SlotHeld, Holding
<1>1. /\ j \in Finds => pc[j] \notin {"write", "wait", "read", "connect", "bind", "disconnect"}
      /\ pc[j] = "clear" => j \in Finds
      /\ j \in Jobs \ Finds => pc[j] \notin {"check", "ring", "ringing", "clear"}
  BY <1>0, Paths, CompanionAssumption DEF OnPath, Path, Jobs, Users
<1> USE <1>0, <1>00, <1>1 DEF Holding, Running, Go, Move, Out, findVars, data, rest
<1>2. CASE Take(j)
  BY <1>2, Targets DEF Take
<1>3. CASE CheckStopped(j) \/ Same(j)
  BY <1>3 DEF CheckStopped, Same
<1>4. CASE Compare(j)
  BY <1>4, Targets DEF Compare
<1>5. CASE Write(j) \/ UseFails(j) \/ Wait(j) \/ Read(j)
  BY <1>5 DEF Write, UseFails, Wait, Read
<1>6. CASE Ring(j) \/ RingEnds(j)
  BY <1>6 DEF Ring, RingEnds
<1>7. CASE Clear(j)
  BY <1>7 DEF Clear, ClearSlot
<1>8. CASE RunDisconnect(j) \/ SwitchTo(j) \/ Bind(j)
  BY <1>8 DEF RunDisconnect, SwitchTo, Bind
<1>9. CASE ConnectBest(j) \/ ConnectFails(j)
  BY <1>9 DEF ConnectBest, ConnectFails
<1>10. CASE Finish(j)
  BY <1>10 DEF Finish
<1> QED
  BY <1>2, <1>3, <1>4, <1>5, <1>6, <1>7, <1>8, <1>9, <1>10 DEF JobStep

LEMMA SlotStep ==
  ASSUME Types, OnPath, Tokens, SlotHeld, [Next]_vars
  PROVE  SlotHeld'
<1>1. Finds \subseteq Jobs /\ Ticker \notin Finds /\ pc \in [Jobs -> {"idle", "queued", "done"} \cup Calling \cup Running]
  BY CompanionAssumption DEF Types, Jobs, Users
<1>2. CASE TickStep
  BY <1>1, <1>2 DEF TickStep, Tick, TickConnects, TickLinked, TickRefreshes, TickIdles,
     findVars, SlotHeld
<1>3. CASE LinkLost \/ ApplyEvent \/ Quit
  BY <1>3 DEF LinkLost, ApplyEvent, Quit, findVars, SlotHeld
<1>4. CASE UNCHANGED vars
  BY <1>4 DEF vars, data, rest, findVars, SlotHeld
<1> QED
  BY <1>2, <1>3, <1>4, CallSlot, JobSlot DEF Next, Jobs
-----------------------------------------------------------------------------
(* The tokens.                                                             *)

\* What a step of anybody else does to the link that job k stands on: nothing, a loss,
\* a new link made by another job, or an event that is read.
LinkMoves(k) ==
  \/ UNCHANGED linkVars
  \/ CloseLink
  \/ pc[k] \notin Running /\ \E m \in MACs : NewLink(m)
  \/ /\ unread > 0 /\ unread' = unread - 1 /\ generation' = generation + 1
     /\ UNCHANGED <<link, macs, device>>

\* A call or job that does not move itself keeps its token.
LEMMA OthersKeep ==
  ASSUME Types, Types', NEW k \in Jobs, LinkMoves(k),
         KeepsDevice(k), CountsEvents(k), SawChanges(k),
         job'[k] = job[k], pc'[k] = pc[k]
  PROVE  KeepsDevice(k)' /\ CountsEvents(k)' /\ SawChanges(k)'
<1>1. job[k] \in Job /\ macs \in Seq(MACs) /\ link \in 0 .. Len(macs)
      /\ unread \in Nat /\ generation \in Nat /\ Len(macs) \in Nat
  BY DEF Types
<1>2. job[k].stood \in Nat /\ job[k].generation \in Nat /\ job[k].reached \in Nat
  BY <1>1 DEF Job
<1> USE <1>1, <1>2 DEF KeepsDevice, CountsEvents, SawChanges, linkVars
<1>3. CASE UNCHANGED linkVars
  BY <1>3
<1>4. CASE CloseLink
  BY <1>4 DEF CloseLink
<1>5. ASSUME pc[k] \notin Running, NEW m \in MACs, NewLink(m)
      PROVE  KeepsDevice(k)' /\ CountsEvents(k)' /\ SawChanges(k)'
  <2>1. macs' = Append(macs, m) /\ Len(macs') = Len(macs) + 1 /\ unread' = unread + 1
        /\ generation' = generation
    BY <1>5 DEF NewLink
  <2> QED
    BY <1>5, <2>1 DEF Running
<1>6. CASE /\ unread > 0 /\ unread' = unread - 1 /\ generation' = generation + 1
           /\ UNCHANGED <<link, macs, device>>
  BY <1>6
<1> QED
  BY <1>3, <1>4, <1>5, <1>6 DEF LinkMoves

\* One step of a caller keeps every token.
LEMMA CallTokens ==
  ASSUME Types, Types', OnPath, Tokens, NEW j \in Jobs, Call(j) \/ CallStep(j)
  PROVE  Tokens'
<1>1. /\ UNCHANGED linkVars
      /\ pc[j] \notin Running /\ pc'[j] \notin Running
      /\ \A k \in Jobs \ {j} : pc'[k] = pc[k]
      /\ \/ UNCHANGED job
         \/ TakeGoal(j) \/ TokenMAC(j) \/ TokenGeneration(j) \/ Forget(j)
  <2> USE DEF Types, Running, Go, Starts, data, rest
  <2>1. CASE Connect(j) \/ Disconnect(j)
    BY <2>1 DEF Connect, Disconnect
  <2>2. CASE Feature(j) \/ DualPeer(j) \/ Find(j)
    BY <2>2 DEF Feature, DualPeer, Find
  <2>3. CASE NameTarget(j) \/ TakeGoal(j) \/ StopFind(j) \/ AutoOff(j)
    BY <2>3 DEF NameTarget, TakeGoal, StopFind, AutoOff
  <2>4. CASE TokenMAC(j) \/ TokenGeneration(j)
    BY <2>4 DEF TokenMAC, TokenGeneration
  <2>5. CASE TakeSlot(j) \/ Undo(j)
    BY <2>5 DEF TakeSlot, Undo
  <2>6. CASE Accept(j)
    BY <2>6 DEF Accept
  <2>7. CASE Refuse(j)
    BY <2>7, Targets DEF Refuse
  <2> QED
    BY <2>1, <2>2, <2>3, <2>4, <2>5, <2>6, <2>7 DEF Call, CallStep
<1>2. job[j] \in Job /\ job[j].reached = 0 /\ job[j].readback = 0
  BY <1>1 DEF Types, Tokens, KeepsDevice, Running
<1>3. ASSUME NEW k \in Jobs \ {j}
      PROVE  KeepsDevice(k)' /\ CountsEvents(k)' /\ SawChanges(k)'
  <2>1. job'[k] = job[k]
    BY <1>1, <1>3 DEF Types, TakeGoal, TokenMAC, TokenGeneration, Forget
  <2> QED
    BY <1>1, <1>3, <2>1, OthersKeep DEF Tokens, LinkMoves
<1>0. job \in [Jobs -> Job]
  BY DEF Types
<1>4. job'[j].reached = 0 /\ job'[j].readback = 0
  <2>1. CASE UNCHANGED job
    BY <1>2, <2>1
  <2>2. CASE TakeGoal(j)
    BY <1>0, <1>2, <2>2 DEF Job, TakeGoal
  <2>3. CASE TokenMAC(j)
    BY <1>0, <1>2, <2>3 DEF Job, TokenMAC
  <2>4. CASE TokenGeneration(j)
    BY <1>0, <1>2, <2>4 DEF Job, TokenGeneration
  <2>5. CASE Forget(j)
    BY <1>0, <2>5 DEF Forget, NoJob
  <2> QED
    BY <1>1, <2>1, <2>2, <2>3, <2>4, <2>5
<1>5. KeepsDevice(j)' /\ SawChanges(j)'
  BY <1>1, <1>4 DEF KeepsDevice, SawChanges, Running
<1>6. CountsEvents(j)'
  <2>1. CASE UNCHANGED job \/ TakeGoal(j) \/ TokenMAC(j)
    <3>1. job'[j].stood = job[j].stood /\ job'[j].generation = job[j].generation
      BY <1>0, <1>2, <2>1 DEF Job, TakeGoal, TokenMAC
    <3> QED
      BY <1>1, <3>1 DEF Tokens, CountsEvents, linkVars
  <2>2. CASE TokenGeneration(j)
    <3>1. job'[j].stood = link /\ job'[j].generation = generation
      BY <1>2, <2>2 DEF Types, Job, TokenGeneration
    <3> QED
      BY <1>1, <3>1 DEF CountsEvents, linkVars, Types
  <2>3. CASE Forget(j)
    <3>1. job'[j].stood = 0 /\ job'[j].generation = 0
      BY <1>2, <2>3 DEF Types, Forget, NoJob
    <3> QED
      BY <1>1, <3>1 DEF CountsEvents, Tokens, linkVars, Types
  <2> QED
    BY <1>1, <2>1, <2>2, <2>3
<1> QED
  BY <1>1, <1>3, <1>5, <1>6 DEF Tokens, linkVars

\* A change of the link is an event, so no token is taken for newer than it is.
LEMMA EventsKept ==
  ASSUME Types, Types', NEW k \in Jobs, CountsEvents(k),
         UNCHANGED linkVars \/ CloseLink \/ \E m \in MACs : NewLink(m),
         job'[k].stood = job[k].stood, job'[k].generation = job[k].generation
  PROVE  CountsEvents(k)'
<1>1. job[k] \in Job /\ macs \in Seq(MACs) /\ link \in 0 .. Len(macs)
      /\ unread \in Nat /\ generation \in Nat /\ Len(macs) \in Nat
  BY DEF Types
<1>2. job[k].stood \in Nat /\ job[k].generation \in Nat
  BY <1>1 DEF Job
<1> USE <1>1, <1>2 DEF CountsEvents
<1>3. CASE UNCHANGED linkVars
  BY <1>3 DEF linkVars
<1>4. CASE CloseLink
  BY <1>4 DEF CloseLink
<1>5. ASSUME NEW m \in MACs, NewLink(m) PROVE CountsEvents(k)'
  BY <1>5 DEF NewLink
<1> QED
  BY <1>3, <1>4, <1>5

\* The steps of a job that keep or forget what it remembers, and the others.
LEMMA JobMemory ==
  ASSUME Types, NEW j \in Jobs, JobStep(j)
  PROVE  /\ \A k \in Jobs \ {j} : pc'[k] = pc[k] /\ job'[k] = job[k]
         /\ \/ UNCHANGED linkVars
            \/ pc[j] \in Running /\ (CloseLink \/ \E m \in MACs : NewLink(m))
<1> USE DEF Types, Running, Go, Move, data, rest
<1>1. CASE Take(j)
  BY <1>1 DEF Take
<1>2. CASE CheckStopped(j) \/ Same(j)
  BY <1>2 DEF CheckStopped, Same
<1>3. CASE Compare(j)
  BY <1>3 DEF Compare
<1>4. CASE Write(j)
  BY <1>4 DEF Write
<1>5. CASE UseFails(j) \/ Wait(j)
  BY <1>5 DEF UseFails, Wait
<1>6. CASE Read(j) \/ Ring(j)
  BY <1>6 DEF Read, Ring
<1>7. CASE RingEnds(j) \/ Clear(j)
  BY <1>7 DEF RingEnds, Clear
<1>8. CASE RunDisconnect(j) \/ SwitchTo(j)
  BY <1>8 DEF RunDisconnect, SwitchTo
<1>9. CASE Bind(j)
  <2>1. job[j].goal \in MACs
    BY <1>9 DEF Bind, Job
  <2> QED
    BY <1>9, <2>1 DEF Bind
<1>10. CASE ConnectBest(j) \/ ConnectFails(j)
  BY <1>10 DEF ConnectBest, ConnectFails
<1>11. CASE Finish(j)
  BY <1>11 DEF Finish, Forget
<1> QED
  BY <1>1, <1>2, <1>3, <1>4, <1>5, <1>6, <1>7, <1>8, <1>9, <1>10, <1>11 DEF JobStep

\* One step of a job keeps its own token.
LEMMA JobKeepsOwn ==
  ASSUME Types, Types', OnPath, Tokens, NEW j \in Jobs, JobStep(j)
  PROVE  KeepsDevice(j)' /\ CountsEvents(j)' /\ SawChanges(j)'
<1>1. /\ job \in [Jobs -> Job] /\ job[j] \in Job
      /\ pc \in [Jobs -> {"idle", "queued", "done"} \cup Calling \cup Running]
      /\ link \in 0 .. Len(macs) /\ Len(macs) \in Nat /\ unread \in Nat
      /\ link # 0 => device = macs[link]
  BY DEF Types
<1>2. KeepsDevice(j) /\ CountsEvents(j) /\ SawChanges(j)
  BY DEF Tokens
<1>3. /\ j \in Finds => pc[j] \notin {"write", "wait", "read"}
      /\ pc[j] \in {"slot", "check", "ring", "ringing", "clear"} => j \in Finds
  BY Paths, CompanionAssumption DEF OnPath, Path, Jobs, Users
<1> USE <1>1, <1>2, <1>3 DEF Go, Move, KeepsDevice, SawChanges
<1>4. ASSUME UNCHANGED job, UNCHANGED linkVars
      PROVE  CountsEvents(j)'
  BY <1>4, EventsKept
<1>5. CASE Take(j)
  BY <1>4, <1>5 DEF Take, First, linkVars
<1>6. CASE CheckStopped(j)
  BY <1>4, <1>6 DEF CheckStopped, data, rest, linkVars
<1>7. CASE Same(j)
  BY <1>4, <1>7 DEF Same, SameDevice, Out, data, rest, linkVars
<1>8. CASE UseFails(j)
  BY <1>4, <1>8 DEF UseFails, Out, data, rest, linkVars
<1>9. CASE Wait(j)
  BY <1>4, <1>9 DEF Wait, data, rest, linkVars
<1>10. CASE RingEnds(j)
  BY <1>4, <1>10 DEF RingEnds, data, rest, linkVars
<1>11. CASE Clear(j)
  BY <1>4, <1>11 DEF Clear, linkVars
<1>12. CASE RunDisconnect(j) \/ SwitchTo(j) \/ Bind(j) \/ ConnectBest(j) \/ ConnectFails(j)
  <2>1. pc[j] \in {"disconnect", "connect", "bind"} /\ pc'[j] \in {"bind", "end"} /\ UNCHANGED job
    BY <1>12 DEF RunDisconnect, SwitchTo, Bind, ConnectBest, ConnectFails, data
  <2>2. UNCHANGED linkVars \/ CloseLink \/ \E m \in MACs : NewLink(m)
    BY JobMemory
  <2> QED
    BY <2>1, <2>2, EventsKept
<1>13. CASE Finish(j)
  <2>1. job'[j] = NoJob /\ pc'[j] \in {"idle", "done"} /\ UNCHANGED linkVars
    BY <1>13 DEF Finish, Forget
  <2>2. CountsEvents(j)'
    BY <2>1 DEF CountsEvents, NoJob, Tokens, linkVars, Types
  <2> QED
    BY <2>1, <2>2 DEF NoJob
<1>14. CASE Write(j) \/ Ring(j)
  <2>1. /\ job' = [job EXCEPT ![j].reached = link] /\ link # 0 /\ UNCHANGED linkVars
        /\ pc[j] \in {"write", "ring"} /\ pc'[j] \in {"wait", "same", "end", "ringing"}
        /\ j \in Finds => pc'[j] = "ringing"
    BY <1>14, CompanionAssumption DEF Write, Ring, rest, Jobs, Users
  <2>2. /\ job'[j].reached = link /\ job'[j].mac = job[j].mac
        /\ job'[j].lagging = job[j].lagging /\ job'[j].readback = job[j].readback
        /\ job'[j].stood = job[j].stood /\ job'[j].generation = job[j].generation
    BY <2>1 DEF Job
  <2>3. CountsEvents(j)'
    BY <2>1, <2>2, EventsKept
  <2> QED
    BY <2>1, <2>2, <2>3 DEF linkVars
<1>15. CASE Read(j)
  <2>1. /\ job' = [job EXCEPT ![j].readback = link] /\ link # 0 /\ UNCHANGED linkVars
        /\ pc[j] = "read" /\ pc'[j] = "end"
    BY <1>15 DEF Read, rest
  <2>2. /\ job'[j].readback = link /\ job'[j].reached = job[j].reached
        /\ job'[j].mac = job[j].mac /\ job'[j].lagging = job[j].lagging
        /\ job'[j].stood = job[j].stood /\ job'[j].generation = job[j].generation
    BY <2>1 DEF Job
  <2>3. CountsEvents(j)'
    BY <2>1, <2>2, EventsKept
  <2> QED
    BY <2>1, <2>2, <2>3 DEF linkVars
<1>16. CASE Compare(j)
  <2> DEFINE b == IF job[j].reached = 0 THEN unread > 0 ELSE job[j].lagging
  <2>1. /\ job' = [job EXCEPT ![j].lagging = b] /\ UNCHANGED linkVars
        /\ pc[j] = "compare"
        /\ pc'[j] = IF SameGeneration(j) THEN Use(j) ELSE Out(j)
    BY <1>16 DEF Compare, rest
  <2>2. /\ job'[j].lagging = b
        /\ job'[j].readback = job[j].readback /\ job'[j].reached = job[j].reached
        /\ job'[j].mac = job[j].mac
        /\ job'[j].stood = job[j].stood /\ job'[j].generation = job[j].generation
    BY <2>1 DEF Job
  <2>3. CountsEvents(j)'
    BY <2>1, <2>2, EventsKept
  <2>4. KeepsDevice(j)'
    BY <2>1, <2>2 DEF linkVars, Use, Out
  <2>5. ASSUME ~job'[j].lagging, pc'[j] \in {"write", "ring"} PROVE link = job[j].stood
    <3>1. job[j].generation = generation /\ job[j].reached = 0
      BY <2>1, <2>5 DEF SameGeneration, Use, Out
    <3>2. ~ (unread > 0)
      BY <2>2, <2>5, <3>1, Zenon
    <3>3. unread = 0 /\ generation \in Nat
      BY <3>2 DEF Types
    <3> QED
      BY <3>1, <3>3 DEF CountsEvents
  <2>6. ASSUME ~job'[j].lagging, job'[j].reached # 0 PROVE job'[j].reached = job'[j].stood
    BY <2>2, <2>6
  <2>7. SawChanges(j)'
    BY <2>1, <2>2, <2>5, <2>6 DEF linkVars
  <2> QED
    BY <2>3, <2>4, <2>7
<1> QED
  BY <1>5, <1>6, <1>7, <1>8, <1>9, <1>10, <1>11, <1>12, <1>13, <1>14, <1>15, <1>16
     DEF JobStep

LEMMA TokensStep ==
  ASSUME Types, Types', OnPath, QueueHolds, Tokens, [Next]_vars
  PROVE  Tokens'
<1>1. unread \in Nat /\ generation \in Nat /\ Ticker \in Jobs
  BY DEF Types, Jobs
<1>2. ASSUME NEW j \in Jobs, JobStep(j) PROVE Tokens'
  <2>1. ASSUME NEW k \in Jobs \ {j}
        PROVE  KeepsDevice(k)' /\ CountsEvents(k)' /\ SawChanges(k)'
    <3>1. pc[j] \in Running => pc[k] \notin Running
      BY DEF QueueHolds
    <3>2. LinkMoves(k)
      BY <1>2, <3>1, JobMemory DEF LinkMoves
    <3> QED
      BY <1>2, <3>2, JobMemory, OthersKeep DEF Tokens
  <2>2. generation' + unread' = 0 => link' = 0
    BY <1>1, <1>2, JobMemory DEF Tokens, linkVars, CloseLink, NewLink
  <2> QED
    BY <1>2, <2>1, <2>2, JobKeepsOwn DEF Tokens
<1>3. CASE UNCHANGED <<pc, job>> /\ \A k \in Jobs : LinkMoves(k)
  <2>1. ASSUME NEW k \in Jobs
        PROVE  KeepsDevice(k)' /\ CountsEvents(k)' /\ SawChanges(k)'
    BY <1>3, OthersKeep DEF Tokens
  <2>2. generation' + unread' = 0 => link' = 0
    BY <1>1, <1>3 DEF Tokens, LinkMoves, linkVars, CloseLink, NewLink
  <2> QED
    BY <2>1, <2>2 DEF Tokens
<1>4. CASE TickConnects \/ TickRefreshes
  <2>1. /\ pc[Ticker] = "idle" /\ pc'[Ticker] \in {"goal", "token"}
        /\ \A k \in Jobs \ {Ticker} : pc'[k] = pc[k]
        /\ UNCHANGED job /\ UNCHANGED linkVars
    BY <1>1, <1>4 DEF TickConnects, TickRefreshes, OnPath, Types
  <2>2. ASSUME NEW k \in Jobs \ {Ticker}
        PROVE  KeepsDevice(k)' /\ CountsEvents(k)' /\ SawChanges(k)'
    BY <2>1, OthersKeep DEF Tokens, LinkMoves
  <2>3. KeepsDevice(Ticker)' /\ SawChanges(Ticker)'
    BY <1>1, <2>1 DEF Tokens, KeepsDevice, SawChanges
  <2>4. CountsEvents(Ticker)'
    BY <1>1, <2>1, EventsKept DEF Tokens
  <2> QED
    BY <2>1, <2>2, <2>3, <2>4 DEF Tokens, linkVars
<1>5. CASE Tick \/ TickLinked \/ TickIdles
  BY <1>3, <1>5 DEF Tick, TickLinked, TickIdles, LinkMoves
<1>6. CASE LinkLost
  BY <1>3, <1>6 DEF LinkLost, LinkMoves
<1>7. CASE ApplyEvent
  BY <1>3, <1>7 DEF ApplyEvent, LinkMoves
<1>8. CASE Quit
  BY <1>3, <1>8 DEF Quit, LinkMoves
<1>9. CASE UNCHANGED vars
  BY <1>3, <1>9 DEF vars, data, rest, LinkMoves
<1> QED
  BY <1>2, <1>4, <1>5, <1>6, <1>7, <1>8, <1>9, CallTokens DEF Next, TickStep, Jobs
-----------------------------------------------------------------------------
(* The invariant and what follows from it.                                 *)

\* The inductive invariant holds in every reachable state.
LEMMA IInvHolds == Spec => []IInv
<1>1. Init => IInv
  <2> SUFFICES ASSUME Init PROVE IInv
    OBVIOUS
  <2>1. Types
    BY TypesInit
  <2>2. OnPath
    BY CompanionAssumption DEF Init, OnPath, Path, Jobs, Users
  <2>3. Range(queue) = {} /\ DOMAIN queue = {}
    BY DEF Init, Range
  <2>4. QueueHolds
    BY <2>3, CompanionAssumption DEF Init, QueueHolds, Running
  <2>5. Outstanding = {}
    BY <2>3 DEF Init, Outstanding
  <2>6. Counted
    BY <2>5, FS_EmptySet DEF Init, Counted
  <2>7. BackgroundYields
    BY <2>3 DEF BackgroundYields
  <2>8. Tokens
    BY DEF Init, Tokens, KeepsDevice, CountsEvents, SawChanges, NoJob
  <2>9. SlotHeld
    BY CompanionAssumption DEF Init, SlotHeld, Running, Jobs, Users
  <2> QED
    BY <2>1, <2>2, <2>4, <2>6, <2>7, <2>8, <2>9 DEF IInv
<1>2. IInv /\ [Next]_vars => IInv'
  BY TypesStep, OnPathStep, QueueStep, CountedStep, BackgroundStep, TokensStep, SlotStep
     DEF IInv
<1> QED
  BY <1>1, <1>2, PTL DEF Spec

\* The counters of IInv are those of the property.
LEMMA CountersAgree ==
  ASSUME IInv
  PROVE  CountersMatch /\ background \in 0 .. pending /\ pending \in Nat
<1> DEFINE B == {j \in Outstanding : IsBackground(j)}
<1>1. pending = Cardinality(Outstanding) /\ IsFiniteSet(Outstanding) /\ pending \in Nat
  BY FS_CardinalityType DEF IInv, Counted
<1>2. CASE Ticker \in Outstanding /\ tickJob = "refresh"
  <2>1. B = {Ticker} /\ Cardinality(B) = 1 /\ background = 1
    BY <1>2, FS_Singleton DEF IInv, Counted, IsBackground
  <2>2. pending # 0
    BY <1>1, <1>2, FS_EmptySet
  <2> QED
    BY <1>1, <2>1, <2>2 DEF CountersMatch, Outstanding
<1>3. CASE ~(Ticker \in Outstanding /\ tickJob = "refresh")
  <2>1. B = {} /\ Cardinality(B) = 0 /\ background = 0
    BY <1>3, FS_EmptySet DEF IInv, Counted, IsBackground
  <2> QED
    BY <1>1, <2>1 DEF CountersMatch, Outstanding
<1> QED
  BY <1>2, <1>3

\* Every variable of the controller always has its type; in particular the queue
\* never overflows and no counter goes below zero.
THEOREM TypeCorrect == Spec => []TypeOK
<1>1. IInv => TypeOK
  <2> SUFFICES ASSUME IInv PROVE TypeOK
    OBVIOUS
  <2>1. ASSUME NEW j \in Jobs
        PROVE  {job[j].reached, job[j].readback, job[j].stood} \subseteq 0 .. Len(macs)
    <3>1. macs \in Seq(MACs) /\ Len(macs) \in Nat /\ job[j] \in Job
      BY DEF IInv, Types
    <3>2. job[j].reached \in 0 .. Len(macs) /\ job[j].readback \in 0 .. Len(macs)
      BY <3>1 DEF IInv, Tokens, KeepsDevice
    <3> QED
      BY <3>2 DEF IInv, Tokens, CountsEvents
  <2> QED
    BY <2>1, CountersAgree DEF IInv, Types, TypeOK
<1> QED
  BY <1>1, IInvHolds, PTL

\* submitWork, the worker and every refusal keep Busy's two counters equal to the jobs
\* that are queued or run.
THEOREM CountersCorrect == Spec => []CountersMatch
<1>1. IInv => CountersMatch
  BY CountersAgree
<1> QED
  BY <1>1, IInvHolds, PTL

\* A refresh of the ticker is only ever first in the queue, with the worker free.
THEOREM TickerYields == Spec => []BackgroundYields
<1>1. IInv => BackgroundYields
  BY DEF IInv
<1> QED
  BY <1>1, IInvHolds, PTL

\* A job that was queued for one device never uses another one.
THEOREM AskedDeviceOnly == Spec => []ReachesAskedDevice
<1>1. IInv => ReachesAskedDevice
  BY DEF IInv, Tokens, KeepsDevice, ReachesAskedDevice
<1> QED
  BY <1>1, IInvHolds, PTL

\* A reconnection to the same device does not go unnoticed, unless its event was
\* still unread when the job compared its token.
THEOREM ReconnectionNoticed == Spec => []ChangeNoticed
<1>1. IInv => ChangeNoticed
  BY DEF IInv, Tokens, SawChanges, ChangeNoticed
<1> QED
  BY <1>1, IInvHolds, PTL

\* The readback of a SET or of a refresh goes over the link of its request.
THEOREM ReadbackStays == Spec => []ReadbackOnSameLink
<1>1. IInv => ReadbackOnSameLink
  BY DEF IInv, Tokens, KeepsDevice, ReadbackOnSameLink
<1> QED
  BY <1>1, IInvHolds, PTL

\* findCancel belongs to the one search between TakeSlot and clear.
THEOREM SlotCorrect == Spec => []SlotHeld
<1>1. IInv => SlotHeld
  BY DEF IInv
<1> QED
  BY <1>1, IInvHolds, PTL
=============================================================================
