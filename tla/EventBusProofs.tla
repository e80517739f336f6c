--------------------------- MODULE EventBusProofs ---------------------------
(* What TLAPS proves about EventBus: for any number of events and listeners  *)
(* and any capacity.                                                        *)
EXTENDS EventBus, TLAPS

\* Only a call that has made its change tells anyone.
ToldAfterChange ==
  \A p \in Publishes : (pub[p] # "idle" \/ told[p] # {}) => p \in changed

\* A listener that was served and has not looked since still has an event, or is
\* about to look, or one of the calls is between making room for its event and
\* putting it there: only that call may leave the channel empty, and it will not.
NewsPending ==
  \A p \in Publishes, l \in Listeners :
    l \in told[p] \ todo[p] /\ p \notin seen[l]
      => \/ chan[l] # <<>>
         \/ listener[l] \in {"look", "gone"}
         \/ \E q \in Publishes : pub[q] = "retry" /\ at[q] = l

IInv == TypeOK /\ ToldAfterChange /\ NewsPending

\* A channel that was just served has an event.
LEMMA AppendHasEvent ==
  ASSUME NEW s \in Seq(Publishes), NEW p \in Publishes
  PROVE  Append(s, p) # <<>>
<1>1. Len(Append(s, p)) = Len(s) + 1 /\ Len(s) \in Nat
  OBVIOUS
<1>2. Len(<<>>) = 0
  OBVIOUS
<1> QED
  BY <1>1, <1>2

\* A full channel has an event.
LEMMA FullHasEvent ==
  ASSUME TypeOK, NEW l \in Listeners, ~HasRoom(l)
  PROVE  chan[l] # <<>>
<1>1. chan[l] \in Seq(Publishes)
  BY DEF TypeOK
<1>2. Len(chan[l]) \in Nat /\ Len(chan[l]) >= 1
  BY <1>1, EventBusAssumption DEF HasRoom
<1> QED
  BY <1>2

\* A call that makes room or tries again is at one of the listeners it serves.
LEMMA AtListener ==
  ASSUME TypeOK, NEW p \in Publishes, pub[p] \in {"evict", "retry"}
  PROVE  at[p] \in Listeners /\ at[p] \in todo[p] /\ p \in Priority
BY DEF TypeOK

\* One step keeps every variable in its type and every channel within its capacity.
LEMMA TypeStep ==
  ASSUME TypeOK, [Next]_vars
  PROVE  TypeOK'
<1> USE EventBusAssumption DEF TypeOK, vars, pubVars, listenerVars
<1>1. ASSUME NEW p \in Publishes, Change(p) PROVE TypeOK'
  BY <1>1 DEF Change, PubTo
<1>2. ASSUME NEW p \in Publishes, Dispatch(p) PROVE TypeOK'
  BY <1>2 DEF Dispatch, PubTo
<1>3. ASSUME NEW p \in Publishes, NEW l \in Listeners, Put(p, l) PROVE TypeOK'
  <2>1. Append(chan[l], p) \in Seq(Publishes) /\ Len(Append(chan[l], p)) <= Capacity
    BY <1>3 DEF Put, HasRoom
  <2>2. chan' \in [Listeners -> Seq(Publishes)] /\ \A m \in Listeners : Len(chan'[m]) <= Capacity
    BY <1>3, <2>1 DEF Put
  <2>3. todo' \in [Publishes -> SUBSET Listeners]
    BY <1>3 DEF Put, Served
  <2> QED
    BY <1>3, <2>2, <2>3 DEF Put, Served
<1>4. ASSUME NEW p \in Publishes, NEW l \in Listeners, DropPlain(p, l) PROVE TypeOK'
  BY <1>4 DEF DropPlain, Served
<1>5. ASSUME NEW p \in Publishes, NEW l \in Listeners, Full(p, l) PROVE TypeOK'
  BY <1>5 DEF Full, PubTo, IsPriority
<1>6. ASSUME NEW p \in Publishes, Evict(p) PROVE TypeOK'
  <2>1. at[p] \in Listeners
    BY <1>6, AtListener DEF Evict, PubTo
  <2> DEFINE s == chan[at[p]]
             t == IF s = <<>> THEN s ELSE Tail(s)
  <2>2. t \in Seq(Publishes) /\ Len(t) <= Capacity
    BY <2>1
  <2>3. chan' = [chan EXCEPT ![at[p]] = t]
    BY <1>6, <2>1 DEF Evict
  <2> HIDE DEF t
  <2>4. chan' \in [Listeners -> Seq(Publishes)] /\ \A m \in Listeners : Len(chan'[m]) <= Capacity
    BY <2>1, <2>2, <2>3
  <2> QED
    BY <1>6, <2>4 DEF Evict, PubTo
<1>7. ASSUME NEW p \in Publishes, Retry(p) PROVE TypeOK'
  <2>1. at[p] \in Listeners
    BY <1>7, AtListener DEF Retry, PubTo
  <2> DEFINE s == chan[at[p]]
             t == IF HasRoom(at[p]) THEN Append(s, p) ELSE s
  <2>2. t \in Seq(Publishes) /\ Len(t) <= Capacity
    BY <2>1 DEF HasRoom
  <2>3. chan' = [chan EXCEPT ![at[p]] = t]
    BY <1>7, <2>1 DEF Retry, RetryPut
  <2> HIDE DEF t
  <2>4. chan' \in [Listeners -> Seq(Publishes)] /\ \A m \in Listeners : Len(chan'[m]) <= Capacity
    BY <2>1, <2>2, <2>3
  <2> QED
    BY <1>7, <2>4 DEF Retry, PubTo, Served
<1>8. ASSUME NEW l \in Listeners, Subscribe(l) PROVE TypeOK'
  BY <1>8 DEF Subscribe
<1>9. ASSUME NEW l \in Listeners, Receive(l) PROVE TypeOK'
  <2>1. Tail(chan[l]) \in Seq(Publishes) /\ Len(Tail(chan[l])) <= Capacity
    BY <1>9 DEF Receive
  <2>2. chan' \in [Listeners -> Seq(Publishes)] /\ \A m \in Listeners : Len(chan'[m]) <= Capacity
    BY <1>9, <2>1 DEF Receive
  <2> QED
    BY <1>9, <2>2 DEF Receive
<1>10. ASSUME NEW l \in Listeners, Look(l) PROVE TypeOK'
  BY <1>10 DEF Look
<1>11. ASSUME NEW l \in Listeners, Leave(l) PROVE TypeOK'
  BY <1>11 DEF Leave
<1>12. CASE UNCHANGED vars
  BY <1>12
<1> QED
  BY <1>1, <1>2, <1>3, <1>4, <1>5, <1>6, <1>7, <1>8, <1>9, <1>10, <1>11, <1>12
  DEF Next, PubStep, ListenStep

\* Every variable of the bus always has its type, and no channel overflows.
THEOREM TypeCorrect == Spec => []TypeOK
<1>1. Init => TypeOK
  BY EventBusAssumption DEF Init, TypeOK
<1> QED
  BY <1>1, TypeStep, PTL DEF Spec
-----------------------------------------------------------------------------

\* Telling follows the change in every step.
LEMMA ToldStep ==
  ASSUME TypeOK, ToldAfterChange, [Next]_vars
  PROVE  ToldAfterChange'
<1> USE DEF ToldAfterChange, TypeOK, vars, pubVars, listenerVars
<1>1. ASSUME NEW p \in Publishes, Change(p) PROVE ToldAfterChange'
  BY <1>1 DEF Change, PubTo
<1>2. ASSUME NEW p \in Publishes, Dispatch(p) PROVE ToldAfterChange'
  BY <1>2 DEF Dispatch, PubTo
<1>3. ASSUME NEW p \in Publishes, NEW l \in Listeners, Put(p, l) PROVE ToldAfterChange'
  BY <1>3 DEF Put
<1>4. ASSUME NEW p \in Publishes, NEW l \in Listeners, DropPlain(p, l) PROVE ToldAfterChange'
  BY <1>4 DEF DropPlain
<1>5. ASSUME NEW p \in Publishes, NEW l \in Listeners, Full(p, l) PROVE ToldAfterChange'
  BY <1>5 DEF Full, PubTo
<1>6. ASSUME NEW p \in Publishes, Evict(p) PROVE ToldAfterChange'
  BY <1>6 DEF Evict, PubTo
<1>7. ASSUME NEW p \in Publishes, Retry(p) PROVE ToldAfterChange'
  BY <1>7 DEF Retry, PubTo
<1>8. ASSUME NEW l \in Listeners, Subscribe(l) \/ Leave(l) \/ ListenStep(l) PROVE ToldAfterChange'
  BY <1>8 DEF Subscribe, Leave, ListenStep, Receive, Look
<1>9. CASE UNCHANGED vars
  BY <1>9
<1> QED
  BY <1>1, <1>2, <1>3, <1>4, <1>5, <1>6, <1>7, <1>8, <1>9 DEF Next, PubStep

\* No step leaves a listener without news it has not looked at.
LEMMA NewsStep ==
  ASSUME TypeOK, ToldAfterChange, NewsPending, [Next]_vars
  PROVE  NewsPending'
<1> USE DEF NewsPending, TypeOK, vars, pubVars, listenerVars
<1>1. ASSUME NEW p \in Publishes, Change(p) PROVE NewsPending'
  BY <1>1 DEF Change, PubTo
<1>2. ASSUME NEW p \in Publishes, Dispatch(p) PROVE NewsPending'
  BY <1>2 DEF Dispatch, PubTo
<1>3. ASSUME NEW p \in Publishes, NEW l \in Listeners, Put(p, l) PROVE NewsPending'
  <2>1. chan'[l] # <<>>
    BY <1>3 DEF Put
  <2>2. \A m \in Listeners \ {l} :
          chan'[m] = chan[m] /\ \A q \in Publishes : m \in todo'[q] <=> m \in todo[q]
    BY <1>3 DEF Put, Served
  <2> QED
    BY <1>3, <2>1, <2>2 DEF Put
<1>4. ASSUME NEW p \in Publishes, NEW l \in Listeners, DropPlain(p, l) PROVE NewsPending'
  <2>1. chan'[l] # <<>>
    BY <1>4, FullHasEvent DEF DropPlain
  <2>2. \A m \in Listeners \ {l} : \A q \in Publishes : m \in todo'[q] <=> m \in todo[q]
    BY <1>4 DEF DropPlain, Served
  <2> QED
    BY <1>4, <2>1, <2>2 DEF DropPlain
<1>5. ASSUME NEW p \in Publishes, NEW l \in Listeners, Full(p, l) PROVE NewsPending'
  BY <1>5 DEF Full, PubTo
<1>6. ASSUME NEW p \in Publishes, Evict(p) PROVE NewsPending'
  <2>1. at[p] \in Listeners /\ at' = at /\ pub'[p] = "retry"
    BY <1>6, AtListener DEF Evict, PubTo
  <2>2. \A m \in Listeners : m # at[p] => chan'[m] = chan[m]
    BY <1>6, <2>1 DEF Evict
  <2>3. \A q \in Publishes : pub[q] = "retry" => pub'[q] = "retry"
    BY <1>6 DEF Evict, PubTo
  <2> QED
    BY <1>6, <2>1, <2>2, <2>3 DEF Evict
<1>7. ASSUME NEW p \in Publishes, Retry(p) PROVE NewsPending'
  <2>1. at[p] \in Listeners
    BY <1>7, AtListener DEF Retry, PubTo
  <2>2. chan'[at[p]] # <<>>
    <3>1. CASE HasRoom(at[p])
      <4>1. chan'[at[p]] = Append(chan[at[p]], p) /\ chan[at[p]] \in Seq(Publishes)
        BY <1>7, <2>1, <3>1 DEF Retry, RetryPut
      <4>2. Append(chan[at[p]], p) # <<>>
        BY <4>1, AppendHasEvent
      <4> QED
        BY <4>1, <4>2
    <3>2. CASE ~HasRoom(at[p])
      <4>1. chan' = [chan EXCEPT ![at[p]] = chan[at[p]]]
        BY <1>7, <3>2 DEF Retry, RetryPut
      <4> QED
        BY <4>1, <2>1, <3>2, FullHasEvent
    <3> QED
      BY <3>1, <3>2
  <2>3. \A m \in Listeners \ {at[p]} :
          chan'[m] = chan[m] /\ \A q \in Publishes : m \in todo'[q] <=> m \in todo[q]
    BY <1>7, <2>1 DEF Retry, RetryPut, Served
  <2>4. \A q \in Publishes \ {p} : pub'[q] = pub[q] /\ at'[q] = at[q]
    BY <1>7 DEF Retry, PubTo
  <2> SUFFICES ASSUME NEW q \in Publishes, NEW m \in Listeners,
                      m \in told'[q] \ todo'[q], q \notin seen'[m]
               PROVE  \/ chan'[m] # <<>>
                      \/ listener'[m] \in {"look", "gone"}
                      \/ \E r \in Publishes : pub'[r] = "retry" /\ at'[r] = m
    OBVIOUS
  <2>5. told' = told /\ seen' = seen /\ listener' = listener
    BY <1>7 DEF Retry
  <2>6. CASE m = at[p]
    BY <2>2, <2>6
  <2>7. CASE m # at[p]
    <3>1. m \in told[q] \ todo[q] /\ q \notin seen[m] /\ chan'[m] = chan[m]
      BY <2>3, <2>5, <2>7
    <3>2. \A r \in Publishes : at[r] = m => r # p
      BY <2>7
    <3> QED
      BY <3>1, <3>2, <2>4, <2>5
  <2> QED
    BY <2>6, <2>7
<1>8. ASSUME NEW l \in Listeners, Subscribe(l) PROVE NewsPending'
  BY <1>8 DEF Subscribe
<1>9. ASSUME NEW l \in Listeners, Receive(l) PROVE NewsPending'
  BY <1>9 DEF Receive
<1>10. ASSUME NEW l \in Listeners, Look(l) PROVE NewsPending'
  BY <1>10 DEF Look, ToldAfterChange
<1>11. ASSUME NEW l \in Listeners, Leave(l) PROVE NewsPending'
  BY <1>11 DEF Leave
<1>12. CASE UNCHANGED vars
  BY <1>12
<1> QED
  BY <1>1, <1>2, <1>3, <1>4, <1>5, <1>6, <1>7, <1>8, <1>9, <1>10, <1>11, <1>12
  DEF Next, PubStep, ListenStep

\* When nobody is about to serve a listener, nobody is between making room for an
\* event of its own and putting it there.
LEMMA NewsSeen ==
  ASSUME TypeOK, NewsPending
  PROVE  NothingMissed
BY DEF TypeOK, NewsPending, NothingMissed

\* A listener waiting on an empty channel that nobody is about to fill has looked
\* at every change that publish found it subscribed for.
THEOREM NothingMissedSafe == Spec => []NothingMissed
<1>1. Init => IInv
  BY EventBusAssumption DEF Init, IInv, TypeOK, ToldAfterChange, NewsPending
<1>2. IInv /\ [Next]_vars => IInv'
  BY TypeStep, ToldStep, NewsStep DEF IInv
<1>3. IInv => NothingMissed
  BY NewsSeen DEF IInv
<1> QED
  BY <1>1, <1>2, <1>3, PTL DEF Spec
=============================================================================
