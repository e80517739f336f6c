----------------------------- MODULE FindProofs -----------------------------
(* What TLAPS proves about Find, for every set of searches, Closes and       *)
(* connections and for every length of the timers.                          *)
EXTENDS Find, TLAPS

\* A write that goes on to "wait", "ring", "stop" or "finish".
LEMMA AfterSend ==
  ASSUME NEW pc \in Sending
  PROVE  /\ AfterSuccess[pc] \in {"wait", "ring", "finish"}
         /\ AfterError[pc] \in {"stop", "finish"}
         /\ AfterSuccess[pc] = "finish" => pc = "stopping"
         /\ AfterError[pc] = "finish" => pc \in {"asking", "stopping"}
         /\ AfterSuccess[pc] = "wait" => pc = "asking"
         /\ pc = "asking" => AfterSuccess[pc] = "wait" /\ AfterError[pc] = "finish"
BY DEF Sending, AfterSuccess, AfterError

\* One step keeps every variable in its type.
LEMMA TypeStep ==
  ASSUME TypeOK, [Next]_vars
  PROVE  TypeOK'
<1> USE FindAssumption DEF TypeOK, vars, lockVars, searchVars, closeVars, wireVars,
        Timed, Timers, Over, Sending, FindTo, CloseTo, Capture, TearDown, LeaveRing
<1>1. ASSUME NEW f \in Finds, Call(f) PROVE TypeOK'
  BY <1>1 DEF Call
<1>2. ASSUME NEW f \in Finds, Lock(f) PROVE TypeOK'
  BY <1>2 DEF Lock, LockConnect
<1>3. ASSUME NEW f \in Finds, Register(f) \/ LinkChanged(f) PROVE TypeOK'
  BY <1>3 DEF Register, LinkChanged
<1>4. ASSUME NEW f \in Finds, RequestStatus(f) \/ GiveUp(f) PROVE TypeOK'
  <2>1. CASE RequestStatus(f)
    BY <2>1 DEF RequestStatus
  <2>2. CASE GiveUp(f)
    BY <2>2 DEF GiveUp
  <2> QED
    BY <1>4, <2>1, <2>2
<1>5. ASSUME NEW f \in Finds, SensorAnswered(f) \/ SensorSilent(f) PROVE TypeOK'
  BY <1>5 DEF SensorAnswered, SensorSilent
<1>6. ASSUME NEW f \in Finds, Start(f) \/ StartUnsent(f) \/ StartChecked(f) PROVE TypeOK'
  BY <1>6 DEF Start, StartUnsent, StartChecked
<1>7. ASSUME NEW f \in Finds, RingEnds(f) \/ RingUnsafe(f) PROVE TypeOK'
  BY <1>7 DEF RingEnds, RingUnsafe
<1>8. ASSUME NEW f \in Finds, Poll(f) \/ PollUnsent(f) PROVE TypeOK'
  <2>1. CASE Poll(f)
    BY <2>1 DEF Poll
  <2>2. CASE PollUnsent(f)
    BY <2>2 DEF PollUnsent
  <2> QED
    BY <1>8, <2>1, <2>2
<1>9. ASSUME NEW f \in Finds, Stop(f) \/ NoStop(f) PROVE TypeOK'
  BY <1>9 DEF Stop, NoStop
<1>10. ASSUME NEW f \in Finds, Finish(f) \/ Release(f) PROVE TypeOK'
  BY <1>10 DEF Finish, Release
<1>11. ASSUME NEW f \in Finds, Written(f) PROVE TypeOK'
  BY <1>11, AfterSend DEF Written, Rings, SetTimer
<1>12. ASSUME NEW f \in Finds, WriteFails(f) PROVE TypeOK'
  BY <1>12, AfterSend DEF WriteFails, Rings
<1>13. ASSUME NEW c \in Closes, CloseNow(c) \/ CloseCancels(c) PROVE TypeOK'
  BY <1>13 DEF CloseNow, CloseCancels, FindOver
<1>14. ASSUME NEW c \in Closes, CloseStep(c) PROVE TypeOK'
  BY <1>14 DEF CloseStep, FindStopped, FindStuck, CloseLink
<1>15. ASSUME NEW d \in Dials, Connect(d) \/ Stall(d) \/ Break(d) PROVE TypeOK'
  BY <1>15 DEF Connect, Stall, Break
<1>16. CASE LinkLost \/ RecordEarbuds
  <2>1. CASE LinkLost
    BY <2>1 DEF LinkLost
  <2>2. CASE RecordEarbuds
    BY <2>2 DEF RecordEarbuds
  <2> QED
    BY <1>16, <2>1, <2>2
<1>17. ASSUME NEW f \in Finds, Cancel(f) PROVE TypeOK'
  BY <1>17 DEF Cancel
<1>18. CASE Tick
  BY <1>18 DEF Tick
<1>19. CASE UNCHANGED vars
  BY <1>19
<1>20. CASE \E f \in Finds : FindStep(f)
  BY <1>20, <1>2, <1>3, <1>4, <1>5, <1>6, <1>7, <1>8, <1>9, <1>10, <1>11 DEF FindStep
<1>21. CASE Environment
  BY <1>21, <1>1, <1>12, <1>13, <1>15, <1>16, <1>17 DEF Environment
<1> QED
  BY <1>14, <1>18, <1>19, <1>20, <1>21 DEF Next

\* Every variable of the search and of the closing always has its type.
THEOREM TypeCorrect == Spec => []TypeOK
<1>1. Init => TypeOK
  BY FindAssumption DEF Init, TypeOK, Timed, Timers, Sending, Over
<1> QED
  BY <1>1, TypeStep, PTL DEF Spec
-----------------------------------------------------------------------------
(* The inductive invariant.                                                *)

\* Where a search holds connectMu, and where it can also be heard by Close.
Registered == {"request", "wait", "start", "check", "ring", "stop", "finish"} \cup Sending
Inside     == Registered \cup {"register", "release"}

\* The states of a search that has not written START.
Quiet == {"idle", "lock", "register", "request", "asking", "wait", "start", "check"}

\* A search holds connectMu until it returns; while it does, the link it was asked
\* for can be lost but not replaced.
HoldsConnect ==
  \A f \in Finds :
    /\ find[f] \in Inside => connectMu = f
    /\ find[f] \in Inside \ {"register"} => transport \in {link[f], None}

\* So every frame of the search is written to the link it was asked for.
WritesAskedLink ==
  \A f \in Finds : find[f] \in Sending \cup {"check"} => wire[f] = link[f]

\* The earbud is silent before START, and after STOP or on another link.
BellFollows ==
  \A f \in Finds :
    /\ bell[f] \in {link[f], None}
    /\ find[f] \in Quiet => bell[f] = None
    /\ find[f] \in {"finish", "release", "done"} => bell[f] = None \/ bell[f] # transport

\* A link is never made again.
LinksAreUsed ==
  /\ transport \in used \cup {None}
  /\ \A f \in Finds : link[f] \in used \cup {None}

\* Close sees the search that may be ringing, and waits for it with findMu held.
CloseSeesSearch ==
  /\ \A f \in Finds : find[f] \in Registered => activeFind = f
  /\ \A c \in Closes :
       /\ close[c] \in {"await", "closing"} => findMu = c
       /\ close[c] = "closing" /\ c \notin expired => activeFind = None

\* START is only prepared after a reading that answers this search.
StartsAfterReading == \A f \in Finds : find[f] \in {"start", "check"} => seen[f]

IInv ==
  /\ TypeOK
  /\ HoldsConnect /\ WritesAskedLink /\ BellFollows /\ LinksAreUsed
  /\ CloseSeesSearch /\ StartsAfterReading

\* One step of a search keeps the inductive invariant.
LEMMA FindStepKeeps ==
  ASSUME IInv, TypeOK', NEW f \in Finds, FindStep(f)
  PROVE  IInv'
<1> USE FindAssumption DEF IInv, TypeOK, HoldsConnect, WritesAskedLink, BellFollows,
        LinksAreUsed, CloseSeesSearch, StartsAfterReading, Registered, Inside, Quiet,
        lockVars, searchVars, closeVars, wireVars,
        Over, Sending, FindTo, Capture, LeaveRing, Same
<1>1. CASE Lock(f)
  BY <1>1 DEF Lock, LockConnect
<1>2. CASE Register(f)
  BY <1>2 DEF Register, FindMuFree
<1>3. CASE LinkChanged(f)
  BY <1>3 DEF LinkChanged
<1>4. CASE RequestStatus(f)
  BY <1>4 DEF RequestStatus
<1>5. CASE GiveUp(f)
  BY <1>5 DEF GiveUp
<1>6. CASE SensorAnswered(f)
  BY <1>6 DEF SensorAnswered, Answered
<1>7. CASE SensorSilent(f)
  BY <1>7 DEF SensorSilent
<1>8. CASE Start(f)
  BY <1>8 DEF Start
<1>9. CASE StartUnsent(f)
  BY <1>9 DEF StartUnsent
<1>10. CASE StartChecked(f)
  BY <1>10 DEF StartChecked
<1>11. CASE RingEnds(f)
  BY <1>11 DEF RingEnds
<1>12. CASE RingUnsafe(f)
  BY <1>12 DEF RingUnsafe
<1>13. CASE Poll(f)
  BY <1>13 DEF Poll
<1>14. CASE PollUnsent(f)
  BY <1>14 DEF PollUnsent
<1>15. CASE Stop(f)
  BY <1>15 DEF Stop
<1>16. CASE NoStop(f)
  BY <1>16 DEF NoStop
<1>17. CASE Finish(f)
  BY <1>17 DEF Finish
<1>18. CASE Release(f)
  BY <1>18 DEF Release
<1>19. CASE Written(f)
  BY <1>19, AfterSend DEF Written, Rings
<1> QED
  BY <1>1, <1>2, <1>3, <1>4, <1>5, <1>6, <1>7, <1>8, <1>9, <1>10, <1>11, <1>12,
     <1>13, <1>14, <1>15, <1>16, <1>17, <1>18, <1>19 DEF FindStep

\* So does every other step: of Close, of the session, of the earbuds and of time.
LEMMA StepKeeps ==
  ASSUME IInv, [Next]_vars
  PROVE  IInv'
<1> USE FindAssumption DEF IInv, TypeOK, HoldsConnect, WritesAskedLink, BellFollows,
        LinksAreUsed, CloseSeesSearch, StartsAfterReading, Registered, Inside, Quiet,
        lockVars, searchVars, closeVars, wireVars,
        Over, Sending, FindTo, CloseTo, TearDown, FindMuFree, FindOver
<1>1. TypeOK'
  BY TypeStep DEF IInv
<1>2. ASSUME NEW f \in Finds, FindStep(f) PROVE IInv'
  BY <1>1, <1>2, FindStepKeeps
<1>3. ASSUME NEW f \in Finds, Call(f) PROVE IInv'
  BY <1>1, <1>3 DEF Call
<1>4. ASSUME NEW f \in Finds, Cancel(f) PROVE IInv'
  BY <1>1, <1>4 DEF Cancel
<1>5. ASSUME NEW f \in Finds, WriteFails(f) PROVE IInv'
  BY <1>1, <1>5, AfterSend DEF WriteFails, Rings
<1>6. ASSUME NEW c \in Closes, CloseNow(c) PROVE IInv'
  BY <1>1, <1>6 DEF CloseNow
<1>7. ASSUME NEW c \in Closes, CloseCancels(c) PROVE IInv'
  BY <1>1, <1>7 DEF CloseCancels
<1>8. ASSUME NEW c \in Closes, FindStopped(c) PROVE IInv'
  BY <1>1, <1>8 DEF FindStopped
<1>9. ASSUME NEW c \in Closes, FindStuck(c) PROVE IInv'
  BY <1>1, <1>9 DEF FindStuck
<1>10. ASSUME NEW c \in Closes, CloseLink(c) PROVE IInv'
  BY <1>1, <1>10 DEF CloseLink
<1>11. ASSUME NEW d \in Dials, Connect(d) PROVE IInv'
  BY <1>1, <1>11 DEF Connect, ConnectFree
<1>12. ASSUME NEW d \in Dials, Stall(d) \/ Break(d) PROVE IInv'
  BY <1>1, <1>12 DEF Stall, Break
<1>13. CASE LinkLost
  BY <1>1, <1>13 DEF LinkLost
<1>14. CASE RecordEarbuds
  BY <1>1, <1>14 DEF RecordEarbuds
<1>15. CASE Tick
  BY <1>1, <1>15 DEF Tick
<1>16. CASE UNCHANGED vars
  BY <1>1, <1>16 DEF vars
<1>17. CASE Environment
  BY <1>17, <1>3, <1>4, <1>5, <1>6, <1>7, <1>11, <1>12, <1>13, <1>14 DEF Environment
<1> QED
  BY <1>2, <1>8, <1>9, <1>10, <1>15, <1>16, <1>17 DEF Next, CloseStep

\* The inductive invariant holds in every reachable state.
LEMMA IInvHolds == Spec => []IInv
<1>1. Init => IInv
  <2> SUFFICES ASSUME Init PROVE IInv
    OBVIOUS
  <2>1. TypeOK
    BY FindAssumption DEF Init, TypeOK, Timed, Timers, Sending, Over
  <2> QED
    BY <2>1, FindAssumption DEF Init, IInv, HoldsConnect, WritesAskedLink, BellFollows,
       LinksAreUsed, CloseSeesSearch, StartsAfterReading, Registered, Inside, Quiet,
       Sending
<1> QED
  BY <1>1, StepKeeps, PTL DEF Spec
-----------------------------------------------------------------------------
(* What follows from it.                                                   *)

\* FindEarbud rings no device but the one that it was asked for, however the
\* connections and losses fall between its steps.
THEOREM RingsOnlyAsked == Spec => []RingsAskedLink
<1>1. IInv => RingsAskedLink
  BY DEF IInv, BellFollows, RingsAskedLink
<1> QED
  BY <1>1, IInvHolds, PTL

\* The deferred STOP of FindEarbud leaves no earbud ringing on a link that is up.
THEOREM StopsWhatItStarted == Spec => []NeverLeftRinging
<1>1. IInv => NeverLeftRinging
  BY DEF IInv, BellFollows, NeverLeftRinging
<1> QED
  BY <1>1, IInvHolds, PTL

\* A Close that did not run out of patience tears no link down under a ringing
\* earbud: it took stopFindLocked's wait, and no search registered meanwhile.
THEOREM CloseIsLast == Spec => CloseWaitsForStop
<1>1. ASSUME IInv, [Next]_vars, NEW c \in Closes, close[c] = "closing",
             transport # None, c \notin expired, NEW f \in Finds
      PROVE  bell[f] # transport
  <2> SUFFICES ASSUME bell[f] = transport PROVE FALSE
    OBVIOUS
  <2>1. find[f] \notin Quiet \cup {"finish", "release", "done"}
    BY <1>1 DEF IInv, BellFollows
  <2>2. find[f] \in Registered
    BY <1>1, <2>1 DEF IInv, TypeOK, Quiet, Registered, Sending, Over
  <2>3. activeFind = f /\ activeFind = None
    BY <1>1, <2>2 DEF IInv, CloseSeesSearch
  <2> QED
    BY <2>3, FindAssumption
<1>2. IInv /\ [Next]_vars =>
        [\A c \in Closes :
           close[c] = "closing" /\ close'[c] = "done" /\ transport # None
             => c \in expired \/ \A f \in Finds : bell[f] # transport]_vars
  BY <1>1
<1> QED
  BY <1>2, IInvHolds, PTL DEF Spec, CloseWaitsForStop

\* START is only ever begun on the reading that the search itself asked for, while
\* it is fresh and shows the earbud out of the ear, on the link it was asked for.
THEOREM StartsOnlyWhenSafe == Spec => StartsOnFreshReading
<1>1. ASSUME IInv, [Next]_vars, NEW f \in Finds,
             find[f] # "starting", find'[f] = "starting"
      PROVE  seen[f] /\ ear.wear = "out" /\ ear.age <= MaxAge /\ transport = link[f]
  <2>1. StartChecked(f) /\ Safe
    <3> USE <1>1 DEF IInv, TypeOK, FindTo, LeaveRing
    <3>1. \A g \in Finds : ~Written(g) /\ ~WriteFails(g)
      BY AfterSend DEF Written, WriteFails
    <3>2. UNCHANGED find => FALSE
      BY <1>1
    <3>3. CASE Environment \/ Tick \/ (\E c \in Closes : CloseStep(c)) \/ UNCHANGED vars
      BY <3>1, <3>2, <3>3 DEF Environment, Tick, CloseStep, Call, Cancel, CloseNow,
         CloseCancels, FindStopped, FindStuck, CloseLink, Connect, Stall, Break,
         LinkLost, RecordEarbuds, vars
    <3>4. CASE \E g \in Finds : FindStep(g)
      BY <3>1, <3>4 DEF FindStep, Lock, Register, LinkChanged, RequestStatus, GiveUp,
         SensorAnswered, SensorSilent, Start, StartUnsent, StartChecked, RingEnds,
         RingUnsafe, Poll, PollUnsent, Stop, NoStop, Finish, Release
    <3> QED
      BY <3>3, <3>4 DEF Next
  <2>2. find[f] = "check" /\ transport = wire[f]
    BY <1>1, <2>1 DEF StartChecked, FindTo, IInv, TypeOK
  <2> QED
    BY <1>1, <2>1, <2>2 DEF Safe, IInv, WritesAskedLink, StartsAfterReading
<1>2. IInv /\ [Next]_vars =>
        [\A f \in Finds :
           find[f] # "starting" /\ find'[f] = "starting"
             => seen[f] /\ ear.wear = "out" /\ ear.age <= MaxAge
                /\ transport = link[f]]_vars
  BY <1>1
<1> QED
  BY <1>2, IInvHolds, PTL DEF Spec, StartsOnFreshReading
=============================================================================
