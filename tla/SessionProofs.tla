--------------------------- MODULE SessionProofs ---------------------------
(* What TLAPS proves about Session, for every set of calls and addresses.  *)
EXTENDS Session, TLAPS

\* One step keeps every variable in its type.
LEMMA TypeStep ==
  ASSUME TypeOK, [Next]_vars
  PROVE  TypeOK'
<1> USE SessionAssumption DEF TypeOK, Actors, vars, linkVars, lockVars, dialVars,
        loopVars, sendVars, finVars, wireVars, eventVars, Current, ClearLiveState,
        Finalize, LockConnect, Handled, StillActive
<1>1. ASSUME NEW d \in Dials, Connect(d) PROVE TypeOK'
  BY <1>1 DEF Connect, DialTo
<1>2. ASSUME NEW d \in Dials, AlreadyLinked(d) PROVE TypeOK'
  BY <1>2 DEF AlreadyLinked, DialTo, Return
<1>3. ASSUME NEW d \in Dials, Open(d) PROVE TypeOK'
  BY <1>3 DEF Open, DialTo
<1>4. ASSUME NEW d \in Dials, OpenFails(d) PROVE TypeOK'
  BY <1>4 DEF OpenFails, DialTo, Return
<1>5. ASSUME NEW d \in Dials, Swap(d) PROVE TypeOK'
  BY <1>5 DEF Swap, DialTo, NoPending, ClearLiveState
<1>6. ASSUME NEW d \in Dials, Reset(d) PROVE TypeOK'
  BY <1>6 DEF Reset, DialTo, FSNs
<1>7. ASSUME NEW d \in Dials, Announce(d) PROVE TypeOK'
  BY <1>7 DEF Announce, DialTo, Return
<1>8. ASSUME NEW d \in Dials, LoopStart(d) PROVE TypeOK'
  BY <1>8 DEF LoopStart, LoopTo
<1>9. ASSUME NEW d \in Dials, Receive(d) PROVE TypeOK'
  <2>1. PICK p \in replies[d] : /\ packet' = [packet EXCEPT ![d] = p]
                               /\ replies' = [replies EXCEPT ![d] = @ \ {p}]
    BY <1>9 DEF Receive
  <2>2. p \in Packets /\ p # None
    OBVIOUS
  <2> QED
    BY <1>9, <2>1, <2>2 DEF Receive, LoopTo
<1>10. ASSUME NEW d \in Dials, ReadFails(d) PROVE TypeOK'
  BY <1>10 DEF ReadFails, LoopTo
<1>11. ASSUME NEW d \in Dials, Deliver(d) PROVE TypeOK'
  <2>1. CASE transport = d
    <3>1. /\ loop[d] = "deliver" /\ loop' = [loop EXCEPT ![d] = "match"]
          /\ rxMu' = d /\ UNCHANGED <<packet, related>>
      BY <1>11, <2>1 DEF Deliver, LoopTo
    <3>2. /\ UNCHANGED <<transport, device, live, closed, pending, fsn, connectMu, findMu, txMu>>
          /\ UNCHANGED <<dial, asked, target, send, sent, close, fin, owed, dead, replies, up, down>>
      BY <1>11 DEF Deliver
    <3>3. /\ loop' \in [Dials -> {"none", "start", "read", "deliver", "match", "record", "done"}]
          /\ \A k \in Dials : loop'[k] \in {"deliver", "match", "record"} =>
                               loop[k] \in {"deliver", "match", "record"}
      BY <3>1
    <3>4. \A k \in Dials : loop'[k] \in {"deliver", "match", "record"} => packet'[k] # None
      BY <3>1, <3>3
    <3>5. rxMu' \in Dials \cup {None} /\ UNCHANGED <<packet, related>>
      BY <3>1
    <3> QED
      BY <3>2, <3>3, <3>4, <3>5
  <2>2. CASE transport # d
    <3>1. /\ loop[d] = "deliver" /\ loop' = [loop EXCEPT ![d] = "done"]
          /\ rxMu' = None /\ packet' = [packet EXCEPT ![d] = None]
          /\ related' = [related EXCEPT ![d] = None]
      BY <1>11, <2>2 DEF Deliver, LoopTo
    <3>2. /\ UNCHANGED <<transport, device, live, closed, pending, fsn, connectMu, findMu, txMu>>
          /\ UNCHANGED <<dial, asked, target, send, sent, close, fin, owed, dead, replies, up, down>>
      BY <1>11 DEF Deliver
    <3>3. /\ loop' \in [Dials -> {"none", "start", "read", "deliver", "match", "record", "done"}]
          /\ packet' \in [Dials -> Packets \cup {None}]
          /\ related' \in [Dials -> Sends \cup {None}]
      BY <3>1
    <3>4. \A k \in Dials : loop'[k] \in {"deliver", "match", "record"} => packet'[k] # None
      BY <3>1
    <3>5. rxMu' \in Dials \cup {None}
      BY <3>1
    <3> QED
      BY <3>2, <3>3, <3>4, <3>5
  <2> QED
    BY <2>1, <2>2
<1>12. ASSUME NEW d \in Dials, BadFrame(d) PROVE TypeOK'
  BY <1>12 DEF BadFrame, LoopTo, Handled
<1>13. ASSUME NEW d \in Dials, MatchRequest(d) PROVE TypeOK'
  <2>1. packet[d] \in Packets /\ packet[d].fsn \in FSNs
    BY <1>13 DEF MatchRequest, LoopTo, Packets
  <2>2. pending' \in [FSNs -> Sends \cup {None}] /\ related' \in [Dials -> Sends \cup {None}]
    BY <1>13, <2>1 DEF MatchRequest
  <2> QED
    BY <1>13, <2>2 DEF MatchRequest, LoopTo
<1>14. ASSUME NEW d \in Dials, Record(d) PROVE TypeOK'
  BY <1>14 DEF Record, LoopTo, Handled
<1>15. ASSUME NEW d \in Dials, PeerGone(d) PROVE TypeOK'
  BY <1>15 DEF PeerGone, Dies
<1>16. ASSUME NEW d \in Dials, CloseTakesEffect(d) PROVE TypeOK'
  BY <1>16 DEF CloseTakesEffect, Dies
<1>17. ASSUME NEW s \in Sends, TakeFSN(s) PROVE TypeOK'
  <2>1. NextFSN \in FSNs
    BY DEF NextFSN, FSNs
  <2>2. sent' \in [Sends -> [link : Dials \cup {None}, fsn : FSNs]]
    BY <1>17, <2>1 DEF TakeFSN
  <2> QED
    BY <1>17, <2>1, <2>2 DEF TakeFSN, SendTo
<1>18. ASSUME NEW s \in Sends, NotConnected(s) PROVE TypeOK'
  BY <1>18 DEF NotConnected, SendTo
<1>19. ASSUME NEW s \in Sends, Register(s) PROVE TypeOK'
  BY <1>19 DEF Register, SendTo
<1>20. ASSUME NEW s \in Sends, CheckPasses(s) PROVE TypeOK'
  BY <1>20 DEF CheckPasses, SendTo
<1>21. ASSUME NEW s \in Sends, CheckFails(s) PROVE TypeOK'
  BY <1>21 DEF CheckFails, SendTo, Forget
<1>22. ASSUME NEW s \in Sends, Write(s) PROVE TypeOK'
  <2>1. [fsn |-> sent[s].fsn, req |-> s] \in Packets
    BY DEF Packets
  <2>2. PICK answers \in SUBSET {[fsn |-> sent[s].fsn, req |-> s]} :
               replies' = [replies EXCEPT ![sent[s].link] = @ \cup answers]
    BY <1>22 DEF Write
  <2>3. answers \subseteq Packets
    BY <2>1, <2>2
  <2>4. replies' \in [Dials -> SUBSET Packets]
    BY <2>2, <2>3
  <2> QED
    BY <1>22, <2>4 DEF Write
<1>23. ASSUME NEW s \in Sends, WriteFails(s) PROVE TypeOK'
  BY <1>23 DEF WriteFails, CanWrite
<1>24. ASSUME NEW s \in Sends, Written(s) PROVE TypeOK'
  <2>1. pending' \in [FSNs -> Sends \cup {None}]
    BY <1>24 DEF Written, Forget
  <2> QED
    BY <1>24, <2>1 DEF Written, SendTo
<1>25. ASSUME NEW s \in Sends, Failed(s) PROVE TypeOK'
  BY <1>25 DEF Failed, SendTo, Forget
<1>26. ASSUME NEW c \in Closes, Close(c) PROVE TypeOK'
  BY <1>26 DEF Close
<1>27. ASSUME NEW a \in Actors, TearDown(a) PROVE TypeOK'
  BY <1>27 DEF TearDown, NoPending
<1>28. ASSUME NEW a \in Actors, Stale(a) PROVE TypeOK'
  BY <1>28 DEF Stale, ReleaseFind
<1>29. ASSUME NEW a \in Actors, Report(a) PROVE TypeOK'
  BY <1>29 DEF Report, ReleaseFind
<1>30. ASSUME Rest \/ UNCHANGED vars PROVE TypeOK'
  BY <1>30 DEF Rest
<1>31. CASE \E d \in Dials : Connect(d) \/ DialStep(d) \/ PeerGone(d)
  BY <1>31, <1>1, <1>2, <1>3, <1>4, <1>5, <1>6, <1>7, <1>15 DEF DialStep
<1>32. CASE \E d \in Dials : LoopStep(d) \/ CloseTakesEffect(d)
  BY <1>32, <1>8, <1>9, <1>10, <1>11, <1>12, <1>13, <1>14, <1>16 DEF LoopStep
<1>33. CASE \E s \in Sends : TakeFSN(s) \/ SendStep(s)
  BY <1>33, <1>17, <1>18, <1>19, <1>20, <1>21, <1>22, <1>23, <1>24, <1>25 DEF SendStep
<1>34. CASE \E c \in Closes : Close(c)
  BY <1>34, <1>26
<1>35. CASE \E a \in Actors : FinStep(a)
  BY <1>35, <1>27, <1>28, <1>29 DEF FinStep
<1> QED
  BY <1>30, <1>31, <1>32, <1>33, <1>34, <1>35 DEF Next, System, Environment

\* Every variable of the session always has its type.
THEOREM TypeCorrect == Spec => []TypeOK
<1>1. Init => TypeOK
  BY SessionAssumption DEF Init, TypeOK, NoPending, FSNs, Actors
<1> QED
  BY <1>1, TypeStep, PTL DEF Spec
-----------------------------------------------------------------------------
(* The inductive invariant.                                                *)

\* rxMu is held exactly by a read loop that handles a packet, and then the loop's
\* transport is the current one: swap and tear-down wait for rxMu.  A transport has
\* no loop before its Connect has returned.
HandlerHoldsRx ==
  /\ \A d \in Dials : loop[d] \in {"match", "record"} => rxMu = d
  /\ rxMu # None => transport = rxMu /\ loop[rxMu] \in {"match", "record"}
  /\ \A d \in Dials : loop[d] # "none" => dial[d] = "done"

\* connectMu is held exactly by a Connect in progress, so no other call can link
\* the address that this one found free.
DialHoldsConnect ==
  /\ \A d \in Dials : Dialing(d) => connectMu = d
  /\ \A d \in Dials : dial[d] = "opened" => ~LinkedTo(asked[d])

\* Only links that were installed are current, owed or reported, never two of
\* these at once; an owed report is owed by one actor, which tears down once.
OneReporter ==
  /\ transport # None => Installed(transport) /\ transport \notin down
  /\ \A d \in Dials : d \in down \/ d \in up => Installed(d)
  /\ \A d \in Dials : dial[d] \in {"reset", "announce"} => d \notin up
  /\ \A a \in Actors : owed[a] # None =>
       /\ owed[a] # transport /\ owed[a] \notin down /\ Installed(owed[a])
       /\ fin[a] = None
  /\ \A a, b \in Actors : owed[a] # None /\ owed[a] = owed[b] => a = b
  /\ \A d \in Dials : loop[d] # "done" => fin[d] = None /\ owed[d] = None
  /\ \A s \in Sends : send[s] # "done" => fin[s] = None /\ owed[s] = None
  /\ \A c \in Closes : close[c] # "done" => fin[c] = None /\ owed[c] = None

IInv ==
  /\ TypeOK
  /\ HandlerHoldsRx
  /\ LiveStateOfCurrentLink
  /\ PendingOnCurrentLink
  /\ DialHoldsConnect
  /\ OneReporter

\* The steps that touch a mutex, a transport or a loop; the others are framed.
LEMMA HandlerStep ==
  ASSUME TypeOK, HandlerHoldsRx, [Next]_vars
  PROVE  HandlerHoldsRx'
<1> USE SessionAssumption DEF TypeOK, Actors, HandlerHoldsRx, vars, linkVars, lockVars,
        dialVars, loopVars, sendVars, finVars, wireVars, eventVars, Current,
        ClearLiveState, Finalize, LockConnect, Handled, StillActive
<1>1. ASSUME UNCHANGED <<loop, rxMu, transport, dial>> PROVE HandlerHoldsRx'
  BY <1>1
<1>2. ASSUME NEW d \in Dials, Connect(d) \/ AlreadyLinked(d) \/ Open(d) \/ OpenFails(d)
                              \/ Reset(d)
      PROVE  HandlerHoldsRx'
  BY <1>2 DEF Connect, AlreadyLinked, Open, OpenFails, Reset, DialTo
<1>3. ASSUME NEW d \in Dials, Swap(d) PROVE HandlerHoldsRx'
  BY <1>3 DEF Swap, DialTo
<1>4. ASSUME NEW d \in Dials, Announce(d) PROVE HandlerHoldsRx'
  BY <1>4 DEF Announce, DialTo
<1>5. ASSUME NEW d \in Dials, LoopStep(d) PROVE HandlerHoldsRx'
  <2>1. /\ dial' = dial /\ transport' = transport
        /\ loop[d] # "none"
        /\ \A e \in Dials \ {d} : loop'[e] = loop[e]
    BY <1>5 DEF LoopStep, LoopStart, Receive, ReadFails, Deliver, BadFrame,
       MatchRequest, Record, LoopTo
  <2>2. CASE LoopStart(d) \/ Receive(d) \/ ReadFails(d)
    <3>1. /\ rxMu' = rxMu
          /\ loop[d] \notin {"match", "record"} /\ loop'[d] \notin {"match", "record"}
      BY <2>2 DEF LoopStart, Receive, ReadFails, LoopTo
    <3> QED
      BY <2>1, <3>1
  <2>3. CASE Deliver(d)
    BY <2>1, <2>3 DEF Deliver, LoopTo
  <2>4. CASE MatchRequest(d)
    BY <2>1, <2>4 DEF MatchRequest, LoopTo
  <2>5. CASE BadFrame(d) \/ Record(d)
    <3>1. rxMu = d /\ rxMu' = None /\ loop'[d] = "read"
      BY <2>5 DEF BadFrame, Record, LoopTo
    <3> QED
      BY <2>1, <3>1
  <2> QED
    BY <1>5, <2>2, <2>3, <2>4, <2>5 DEF LoopStep
<1>6. ASSUME NEW d \in Dials, PeerGone(d) \/ CloseTakesEffect(d) PROVE HandlerHoldsRx'
  BY <1>1, <1>6 DEF PeerGone, CloseTakesEffect, Dies
<1>7. ASSUME NEW s \in Sends, TakeFSN(s) \/ SendStep(s) PROVE HandlerHoldsRx'
  BY <1>1, <1>7 DEF TakeFSN, SendStep, NotConnected, Register, CheckPasses, CheckFails,
     Write, WriteFails, Written, Failed
<1>8. ASSUME NEW c \in Closes, Close(c) PROVE HandlerHoldsRx'
  BY <1>1, <1>8 DEF Close
<1>9. ASSUME NEW a \in Actors, FinStep(a) PROVE HandlerHoldsRx'
  BY <1>9 DEF FinStep, TearDown, Stale, Report
<1> QED
  BY <1>1, <1>2, <1>3, <1>4, <1>5, <1>6, <1>7, <1>8, <1>9
     DEF Next, System, Environment, Rest, DialStep

\* The live state stays that of the current link.
LEMMA LiveStep ==
  ASSUME TypeOK, HandlerHoldsRx, LiveStateOfCurrentLink, [Next]_vars
  PROVE  LiveStateOfCurrentLink'
<1> USE SessionAssumption DEF TypeOK, Actors, HandlerHoldsRx, LiveStateOfCurrentLink, vars,
        linkVars, lockVars, dialVars, loopVars, sendVars, finVars, wireVars, eventVars, Current, ClearLiveState,
        Finalize, LockConnect, Handled, StillActive
<1>1. ASSUME UNCHANGED <<live, transport>> PROVE LiveStateOfCurrentLink'
  BY <1>1
<1>2. ASSUME NEW d \in Dials, Connect(d) \/ DialStep(d) PROVE LiveStateOfCurrentLink'
  BY <1>1, <1>2 DEF DialStep, Connect, AlreadyLinked, Open, OpenFails, Swap, Reset, Announce
<1>3. ASSUME NEW d \in Dials, Record(d) PROVE LiveStateOfCurrentLink'
  <2>1. rxMu = d /\ transport = d
    BY <1>3 DEF Record, LoopTo
  <2> QED
    BY <1>3, <2>1 DEF Record
<1>4. ASSUME NEW d \in Dials, LoopStep(d), ~Record(d) PROVE LiveStateOfCurrentLink'
  BY <1>1, <1>4 DEF LoopStep, LoopStart, Receive, ReadFails, Deliver, BadFrame, MatchRequest
<1>5. ASSUME NEW s \in Sends, TakeFSN(s) \/ SendStep(s) PROVE LiveStateOfCurrentLink'
  BY <1>1, <1>5 DEF TakeFSN, SendStep, NotConnected, Register, CheckPasses, CheckFails,
     Write, WriteFails, Written, Failed
<1>6. ASSUME NEW a \in Actors, FinStep(a) PROVE LiveStateOfCurrentLink'
  BY <1>6 DEF FinStep, TearDown, Stale, Report
<1>7. ASSUME \/ \E c \in Closes : Close(c)
             \/ \E d \in Dials : PeerGone(d) \/ CloseTakesEffect(d)
      PROVE  LiveStateOfCurrentLink'
  BY <1>1, <1>7 DEF Close, PeerGone, CloseTakesEffect, Dies
<1> QED
  BY <1>1, <1>2, <1>3, <1>4, <1>5, <1>6, <1>7 DEF Next, System, Environment, Rest

\* So does the table of pending requests.
LEMMA PendingStep ==
  ASSUME TypeOK, PendingOnCurrentLink, [Next]_vars
  PROVE  PendingOnCurrentLink'
<1> USE SessionAssumption DEF TypeOK, Actors, PendingOnCurrentLink, NoPending, vars, linkVars,
        lockVars, dialVars, loopVars, sendVars, finVars, wireVars, eventVars, Current, ClearLiveState,
        Finalize, LockConnect, Handled, StillActive
<1>1. ASSUME UNCHANGED <<pending, sent, transport>> PROVE PendingOnCurrentLink'
  BY <1>1
<1>2. ASSUME NEW d \in Dials, Connect(d) \/ DialStep(d) PROVE PendingOnCurrentLink'
  BY <1>1, <1>2 DEF DialStep, Connect, AlreadyLinked, Open, OpenFails, Swap, Reset, Announce
<1>3. ASSUME NEW d \in Dials, MatchRequest(d) PROVE PendingOnCurrentLink'
  BY <1>3 DEF MatchRequest
<1>4. ASSUME NEW d \in Dials, LoopStep(d), ~MatchRequest(d) PROVE PendingOnCurrentLink'
  BY <1>1, <1>4 DEF LoopStep, LoopStart, Receive, ReadFails, Deliver, BadFrame, Record
<1>5. ASSUME NEW s \in Sends, TakeFSN(s) PROVE PendingOnCurrentLink'
  BY <1>5 DEF TakeFSN
<1>6. ASSUME NEW s \in Sends, Register(s) PROVE PendingOnCurrentLink'
  BY <1>6 DEF Register
<1>7. ASSUME NEW s \in Sends, CheckFails(s) \/ Written(s) \/ Failed(s)
      PROVE  PendingOnCurrentLink'
  BY <1>7 DEF CheckFails, Written, Failed, Forget
<1>8. ASSUME NEW s \in Sends, NotConnected(s) \/ CheckPasses(s) \/ Write(s) \/ WriteFails(s)
      PROVE  PendingOnCurrentLink'
  BY <1>1, <1>8 DEF NotConnected, CheckPasses, Write, WriteFails
<1>9. ASSUME NEW a \in Actors, FinStep(a) PROVE PendingOnCurrentLink'
  BY <1>9 DEF FinStep, TearDown, Stale, Report
<1>10. ASSUME \/ \E c \in Closes : Close(c)
              \/ \E d \in Dials : PeerGone(d) \/ CloseTakesEffect(d)
       PROVE  PendingOnCurrentLink'
  BY <1>1, <1>10 DEF Close, PeerGone, CloseTakesEffect, Dies
<1> QED
  BY <1>1, <1>2, <1>3, <1>4, <1>5, <1>6, <1>7, <1>8, <1>9, <1>10
     DEF Next, System, Environment, Rest, SendStep

\* connectMu keeps a Connect's view of the link: only the owner installs one.
LEMMA ConnectStep ==
  ASSUME TypeOK, DialHoldsConnect, [Next]_vars
  PROVE  DialHoldsConnect'
<1> USE SessionAssumption DEF TypeOK, Actors, DialHoldsConnect, Dialing, LinkedTo, vars,
        linkVars, lockVars, dialVars, loopVars, sendVars, finVars, wireVars, eventVars, Current, ClearLiveState,
        Finalize, LockConnect, Handled, StillActive
<1>1. ASSUME UNCHANGED <<connectMu, dial, asked>>,
             UNCHANGED <<transport, device>> \/ transport' = None
      PROVE  DialHoldsConnect'
  BY <1>1
<1>2. ASSUME NEW d \in Dials, Connect(d) PROVE DialHoldsConnect'
  BY <1>2 DEF Connect, DialTo
<1>3. ASSUME NEW d \in Dials, AlreadyLinked(d) \/ OpenFails(d) \/ Announce(d)
      PROVE  DialHoldsConnect'
  BY <1>3 DEF AlreadyLinked, OpenFails, Announce, DialTo, Return
<1>4. ASSUME NEW d \in Dials, Open(d) PROVE DialHoldsConnect'
  BY <1>4 DEF Open, DialTo
<1>5. ASSUME NEW d \in Dials, Swap(d) \/ Reset(d) PROVE DialHoldsConnect'
  BY <1>5 DEF Swap, Reset, DialTo
<1>6. ASSUME NEW d \in Dials, LoopStep(d) \/ PeerGone(d) \/ CloseTakesEffect(d)
      PROVE  DialHoldsConnect'
  BY <1>1, <1>6 DEF LoopStep, LoopStart, Receive, ReadFails, Deliver, BadFrame,
     MatchRequest, Record, PeerGone, CloseTakesEffect, Dies
<1>7. ASSUME NEW s \in Sends, TakeFSN(s) \/ SendStep(s) PROVE DialHoldsConnect'
  BY <1>1, <1>7 DEF TakeFSN, SendStep, NotConnected, Register, CheckPasses, CheckFails,
     Write, WriteFails, Written, Failed
<1>8. ASSUME NEW c \in Closes, Close(c) PROVE DialHoldsConnect'
  BY <1>1, <1>8 DEF Close
<1>9. ASSUME NEW a \in Actors, FinStep(a) PROVE DialHoldsConnect'
  BY <1>1, <1>9 DEF FinStep, TearDown, Stale, Report
<1> QED
  BY <1>1, <1>2, <1>3, <1>4, <1>5, <1>6, <1>7, <1>8, <1>9
     DEF Next, System, Environment, Rest, DialStep

\* However many goroutines race in finalizeDisconnect, one owes the report.
LEMMA ReporterStep ==
  ASSUME TypeOK, OneReporter, HandlerHoldsRx, [Next]_vars
  PROVE  OneReporter'
<1> USE SessionAssumption DEF TypeOK, Actors, OneReporter, Installed, vars, linkVars,
        lockVars, dialVars, loopVars, sendVars, finVars, wireVars, eventVars, Current, ClearLiveState,
        Finalize, LockConnect, Handled, StillActive
<1>1. ASSUME UNCHANGED <<transport, dial, down, up, owed, fin, loop, send, close>>
      PROVE  OneReporter'
  BY <1>1
<1>2. ASSUME UNCHANGED <<transport, down, up, owed, fin, loop, send, close>>,
             \A k \in Dials : Installed(k)' <=> Installed(k),
             \A k \in Dials : dial'[k] \in {"reset", "announce"} => dial[k] \in {"reset", "announce"}
      PROVE  OneReporter'
  <2>1. transport \in Dials \cup {None} /\ \A a \in Actors : owed[a] \in Dials \cup {None}
    OBVIOUS
  <2> HIDE DEF TypeOK, Installed, Actors
  <2> QED
    BY <1>2, <2>1
<1>13. ASSUME NEW d \in Dials, Connect(d) \/ AlreadyLinked(d) \/ Open(d) \/ OpenFails(d)
                               \/ Reset(d)
       PROVE  OneReporter'
  <2>1. UNCHANGED <<transport, down, up, owed, fin, loop, send, close>>
    BY <1>13 DEF Connect, AlreadyLinked, Open, OpenFails, Reset
  <2>2. \/ dial[d] \in {"idle", "check"} /\ \E to \in {"check", "refused", "opened"} :
             dial' = [dial EXCEPT ![d] = to]
        \/ dial[d] = "reset" /\ dial' = [dial EXCEPT ![d] = "announce"]
    BY <1>13 DEF Connect, AlreadyLinked, Open, OpenFails, Reset, DialTo
  <2>3. \A k \in Dials : Installed(k)' <=> Installed(k)
    BY <2>2
  <2>4. \A k \in Dials : dial'[k] \in {"reset", "announce"} => dial[k] \in {"reset", "announce"}
    BY <2>2
  <2> HIDE DEF TypeOK, OneReporter, Installed
  <2> QED
    BY <1>2, <2>1, <2>3, <2>4
<1>12. ASSUME NEW d \in Dials, Swap(d) PROVE OneReporter'
  BY <1>12 DEF Swap, DialTo
<1>3. ASSUME NEW d \in Dials, Announce(d) PROVE OneReporter'
  BY <1>3 DEF Announce, DialTo, HandlerHoldsRx
<1>4. ASSUME NEW d \in Dials, LoopStep(d), ~ReadFails(d) PROVE OneReporter'
  BY <1>4 DEF LoopStep, LoopStart, Receive, Deliver, BadFrame, MatchRequest, Record, LoopTo
<1>5. ASSUME NEW d \in Dials, ReadFails(d) PROVE OneReporter'
  BY <1>5 DEF ReadFails, LoopTo
<1>6. ASSUME NEW s \in Sends, TakeFSN(s) \/ SendStep(s), ~Failed(s) PROVE OneReporter'
  BY <1>6 DEF TakeFSN, SendStep, NotConnected, Register, CheckPasses, CheckFails,
     Write, WriteFails, CanWrite, Written, SendTo
<1>7. ASSUME NEW s \in Sends, Failed(s) PROVE OneReporter'
  BY <1>7 DEF Failed, SendTo
<1>8. ASSUME NEW c \in Closes, Close(c) PROVE OneReporter'
  BY <1>8 DEF Close
<1>9. ASSUME NEW a \in Actors, TearDown(a) PROVE OneReporter'
  BY <1>9 DEF TearDown
<1>10. ASSUME NEW a \in Actors, Stale(a) \/ Report(a) PROVE OneReporter'
  BY <1>10 DEF Stale, Report
<1>11. ASSUME NEW d \in Dials, PeerGone(d) \/ CloseTakesEffect(d) PROVE OneReporter'
  BY <1>1, <1>11 DEF PeerGone, CloseTakesEffect, Dies
<1> QED
  BY <1>1, <1>2, <1>3, <1>4, <1>5, <1>6, <1>7, <1>8, <1>9, <1>10, <1>11, <1>12,
     <1>13 DEF Next, System, Environment, Rest, DialStep, FinStep

\* The invariant holds from the start and is kept by every step.
LEMMA InvariantHolds == Spec => []IInv
<1>1. Init => IInv
  <2> USE SessionAssumption DEF Init, Actors
  <2>1. Init => TypeOK
    BY DEF TypeOK, NoPending, FSNs
  <2>2. Init => HandlerHoldsRx /\ DialHoldsConnect
    BY DEF HandlerHoldsRx, DialHoldsConnect, Dialing
  <2>3. Init => LiveStateOfCurrentLink /\ PendingOnCurrentLink
    BY DEF LiveStateOfCurrentLink, PendingOnCurrentLink, NoPending
  <2>4. Init => OneReporter
    BY DEF OneReporter, Installed
  <2> QED
    BY <2>1, <2>2, <2>3, <2>4 DEF IInv
<1>2. IInv /\ [Next]_vars => IInv'
  BY TypeStep, HandlerStep, LiveStep, PendingStep, ConnectStep, ReporterStep DEF IInv
<1> QED
  BY <1>1, <1>2, PTL DEF Spec

-----------------------------------------------------------------------------
(* The results.                                                            *)

\* What Snapshot shows is never built from a packet of a replaced or closed link.
THEOREM LiveStateSafe == Spec => []LiveStateOfCurrentLink
<1>1. IInv => LiveStateOfCurrentLink
  BY DEF IInv
<1> QED
  BY <1>1, InvariantHolds, PTL

\* No request written to one link is pending while another is current.
THEOREM PendingSafe == Spec => []PendingOnCurrentLink
<1>1. IInv => PendingOnCurrentLink
  BY DEF IInv
<1> QED
  BY <1>1, InvariantHolds, PTL

\* No Connect replaces a live link to the address its caller asked for.
THEOREM ConnectIsIdempotent == Spec => IdempotentConnect
<1>1. ASSUME IInv, [Next]_vars, NEW d \in Dials, transport' = d, transport # d
      PROVE  ~LinkedTo(asked[d])
  <2> USE SessionAssumption DEF IInv, TypeOK, Actors, vars, linkVars, StillActive
  <2>1. Swap(d)
    <3>1. CASE \E e \in Dials : Swap(e)
      BY <1>1, <3>1 DEF Swap
    <3>2. CASE Environment \/ Rest \/ UNCHANGED vars
      BY <1>1, <3>2 DEF Environment, Rest, Connect, PeerGone, CloseTakesEffect, Dies,
         TakeFSN, Close
    <3>3. CASE \E e \in Dials : DialStep(e) /\ ~Swap(e)
      BY <1>1, <3>3 DEF DialStep, AlreadyLinked, Open, OpenFails, Reset, Announce
    <3>4. CASE \E e \in Dials : LoopStep(e)
      BY <1>1, <3>4 DEF LoopStep, LoopStart, Receive, ReadFails, Deliver, BadFrame,
         MatchRequest, Record
    <3>5. CASE \E s \in Sends : SendStep(s)
      BY <1>1, <3>5 DEF SendStep, NotConnected, Register, CheckPasses, CheckFails,
         Write, WriteFails, Written, Failed
    <3>6. CASE \E a \in Actors : FinStep(a)
      BY <1>1, <3>6 DEF FinStep, TearDown, Stale, Report
    <3> QED
      BY <1>1, <3>1, <3>2, <3>3, <3>4, <3>5, <3>6 DEF Next, System
  <2> QED
    BY <1>1, <2>1 DEF Swap, DialTo, DialHoldsConnect
<1>2. IInv /\ [Next]_vars =>
        [\A d \in Dials : transport' = d /\ transport # d => ~LinkedTo(asked[d])]_vars
  BY <1>1
<1> QED
  BY <1>2, InvariantHolds, PTL DEF Spec, IdempotentConnect

\* The session implements LinkLife: every step maps to a step on links or to none.
THEOREM ImplementsLinkLife == Spec => LinkLifeRefined
<1> USE SessionAssumption DEF Actors, Installed, Owing, linkVars, lockVars, dialVars,
        loopVars, sendVars, finVars, wireVars, eventVars, Life!vars, Current, ClearLiveState,
        Finalize, LockConnect, Handled, StillActive
<1>1. Init => Life!Init
  BY DEF Init, Life!Init
<1>2. ASSUME IInv, [Next]_vars PROVE [Life!Next]_(Life!vars)
  <2> USE <1>2 DEF IInv, TypeOK, OneReporter
  <2>1. ASSUME NEW d \in Dials, Swap(d) PROVE Life!Establish(d)
    BY <2>1 DEF Swap, DialTo, Life!Establish
  <2>2. ASSUME NEW d \in Dials, Announce(d) PROVE Life!AnnounceUp(d)
    BY <2>2 DEF Announce, DialTo, Life!AnnounceUp
  <2>3. ASSUME NEW a \in Actors, TearDown(a) PROVE Life!Drop
    <3>1. /\ transport # None /\ transport' = None
          /\ \A b \in Actors : owed'[b] = IF b = a THEN transport ELSE owed[b]
          /\ owed[a] = None
      BY <2>3 DEF TearDown
    <3>2. Owing' = Owing \cup {transport}
      BY <3>1
    <3> QED
      BY <2>3, <3>1, <3>2 DEF TearDown, Life!Drop
  <2>4. ASSUME NEW a \in Actors, NEW l \in Dials, owed[a] = l, Report(a)
        PROVE  Life!ReportDown(l)
    <3>1. \A b \in Actors : owed'[b] = IF b = a THEN None ELSE owed[b]
      BY <2>4 DEF Report
    <3>2. l \in Owing /\ Owing' = Owing \ {l}
      BY <2>4, <3>1 DEF Report
    <3> QED
      BY <2>4, <3>2 DEF Report, Life!ReportDown
  <2>5. ASSUME NEW d \in Dials, Connect(d) \/ AlreadyLinked(d) \/ Open(d) \/ OpenFails(d)
                                \/ Reset(d)
        PROVE  UNCHANGED Life!vars
    BY <2>5 DEF Connect, AlreadyLinked, Open, OpenFails, Reset, DialTo
  <2>6. ASSUME NEW d \in Dials, LoopStep(d) \/ PeerGone(d) \/ CloseTakesEffect(d)
        PROVE  UNCHANGED Life!vars
    BY <2>6 DEF LoopStep, LoopStart, Receive, ReadFails, Deliver, BadFrame,
       MatchRequest, Record, PeerGone, CloseTakesEffect, Dies
  <2>7. ASSUME NEW s \in Sends, TakeFSN(s) \/ SendStep(s) PROVE UNCHANGED Life!vars
    BY <2>7 DEF TakeFSN, SendStep, NotConnected, Register, CheckPasses, CheckFails,
       Write, WriteFails, Written, Failed
  <2>8. ASSUME (\E c \in Closes : Close(c)) \/ (\E a \in Actors : Stale(a))
               \/ UNCHANGED vars
        PROVE  UNCHANGED Life!vars
    BY <2>8 DEF Close, Stale, vars
  <2> HIDE DEF Life!vars
  <2>9. ASSUME NEW a \in Actors, Report(a) PROVE \E l \in Dials : owed[a] = l
    BY <2>9 DEF Report
  <2> HIDE <1>2 DEF IInv, TypeOK, OneReporter, Owing, Installed
  <2>10. ASSUME NEW d \in Dials, Connect(d) \/ DialStep(d) PROVE [Life!Next]_(Life!vars)
    BY <2>1, <2>2, <2>5, <2>10 DEF DialStep, Life!Next
  <2>11. ASSUME NEW a \in Actors, FinStep(a) PROVE [Life!Next]_(Life!vars)
    BY <2>3, <2>4, <2>8, <2>9, <2>11 DEF FinStep, Life!Next
  <2> QED
    BY <1>2, <2>6, <2>7, <2>8, <2>10, <2>11 DEF Next, System, Environment, Rest
<1> QED
  BY <1>1, <1>2, InvariantHolds, PTL DEF Spec, LinkLifeRefined, Life!Spec

=============================================================================
