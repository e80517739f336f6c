------------------------------ MODULE EventBus ------------------------------
(***************************************************************************)
(* How the session tells its listeners (the window, the tray, the          *)
(* notifier) that something changed: publish and publishPriority of        *)
(* internal/session/events_publish.go, on one bounded channel per          *)
(* listener.  Nobody waits for a listener: a plain event is dropped when   *)
(* the channel is full, and a priority event takes the place of the oldest *)
(* one, in three steps between which other goroutines run.                 *)
(*                                                                         *)
(* An event is named after the call that publishes it, and that call first *)
(* made a change of its own to the session (under s.mu).  A listener that  *)
(* receives any event looks at a Snapshot, which shows every change made   *)
(* so far.                                                                 *)
(***************************************************************************)
EXTENDS Naturals, Sequences

CONSTANTS
  Publishes,  \* calls of publish, each with its event
  Priority,   \* those whose event is a priority one (isPriorityEvent)
  Listeners,
  Capacity,   \* of a listener's channel (256 in the code)
  None        \* no listener

ASSUME EventBusAssumption ==
  /\ Priority \subseteq Publishes
  /\ None \notin Listeners
  /\ Capacity \in Nat \ {0}

VARIABLES
  changed,    \* the calls whose change is made
  pub,        \* where each call is
  told,       \* the listeners it found subscribed
  todo,       \* those it has not served yet
  at,         \* the one whose full channel it makes room in
  subscribed,
  chan,       \* the channel of each listener, the oldest event first
  listener,   \* what each listener does
  seen        \* the changes its last Snapshot showed

pubVars == <<changed, pub, told, todo, at>>
listenerVars == <<subscribed, listener, seen>>
vars == <<pubVars, listenerVars, chan>>

\* The types; no channel overflows, and only a priority event waits for room.
TypeOK ==
  /\ changed \subseteq Publishes
  /\ pub \in [Publishes -> {"idle", "publish", "serve", "evict", "retry"}]
  /\ told \in [Publishes -> SUBSET Listeners]
  /\ todo \in [Publishes -> SUBSET Listeners]
  /\ at \in [Publishes -> Listeners \cup {None}]
  /\ subscribed \subseteq Listeners
  /\ chan \in [Listeners -> Seq(Publishes)]
  /\ listener \in [Listeners -> {"off", "wait", "look", "gone"}]
  /\ seen \in [Listeners -> SUBSET Publishes]
  /\ \A l \in Listeners : Len(chan[l]) <= Capacity
  /\ \A p \in Publishes : pub[p] \in {"evict", "retry"} => p \in Priority /\ at[p] \in todo[p]

Init ==
  /\ changed = {} /\ subscribed = {}
  /\ pub = [p \in Publishes |-> "idle"]
  /\ told = [p \in Publishes |-> {}] /\ todo = [p \in Publishes |-> {}]
  /\ at = [p \in Publishes |-> None]
  /\ chan = [l \in Listeners |-> <<>>]
  /\ listener = [l \in Listeners |-> "off"]
  /\ seen = [l \in Listeners |-> {}]

-----------------------------------------------------------------------------
(* publish.  An operator named ...Mutant is a bug that could have been made in *)
(* the definition below it, which the run catches.                            *)

PubTo(p, from, to) == pub[p] = from /\ pub' = [pub EXCEPT ![p] = to]

HasRoom(l) == Len(chan[l]) < Capacity

Served(p, l) == todo' = [todo EXCEPT ![p] = @ \ {l}]

Change(p) ==
  /\ PubTo(p, "idle", "publish")
  /\ changed' = changed \cup {p}
  /\ UNCHANGED <<told, todo, at, listenerVars, chan>>

\* dispatchToSubscribers copies the list of subscribers under s.mu.
Dispatch(p) ==
  /\ PubTo(p, "publish", "serve")
  /\ told' = [told EXCEPT ![p] = subscribed]
  /\ todo' = [todo EXCEPT ![p] = subscribed]
  /\ UNCHANGED <<changed, at, listenerVars, chan>>

Put(p, l) ==
  /\ pub[p] = "serve" /\ l \in todo[p]
  /\ HasRoom(l)
  /\ chan' = [chan EXCEPT ![l] = Append(@, p)]
  /\ Served(p, l)
  /\ UNCHANGED <<changed, pub, told, at, listenerVars>>

IsPriorityMutant(p) == TRUE

IsPriority(p) == p \in Priority

DropPlain(p, l) ==
  /\ pub[p] = "serve" /\ l \in todo[p]
  /\ ~HasRoom(l) /\ ~IsPriority(p)
  /\ Served(p, l)
  /\ UNCHANGED <<changed, pub, told, at, listenerVars, chan>>

\* publishPriority: the first attempt fails.
Full(p, l) ==
  /\ l \in todo[p]
  /\ ~HasRoom(l) /\ IsPriority(p)
  /\ PubTo(p, "serve", "evict")
  /\ at' = [at EXCEPT ![p] = l]
  /\ UNCHANGED <<changed, told, todo, listenerVars, chan>>

\* The oldest event goes, unless the listener emptied the channel meanwhile.
Evict(p) ==
  /\ PubTo(p, "evict", "retry")
  /\ chan' = [chan EXCEPT ![at[p]] = IF @ = <<>> THEN @ ELSE Tail(@)]
  /\ UNCHANGED <<changed, told, todo, at, listenerVars>>

RetryPutMutant(p) == UNCHANGED chan

\* The second and last attempt; another call may have taken the place.
RetryPut(p) ==
  chan' = [chan EXCEPT ![at[p]] = IF HasRoom(at[p]) THEN Append(@, p) ELSE @]

Retry(p) ==
  /\ PubTo(p, "retry", "serve")
  /\ RetryPut(p)
  /\ Served(p, at[p])
  /\ at' = [at EXCEPT ![p] = None]
  /\ UNCHANGED <<changed, told, listenerVars>>

-----------------------------------------------------------------------------
(* The listeners.                                                          *)

\* The tray looks at a Snapshot at once, the others wait for an event.
Subscribe(l) ==
  /\ listener[l] = "off"
  /\ subscribed' = subscribed \cup {l}
  /\ \E next \in {"look", "wait"} : listener' = [listener EXCEPT ![l] = next]
  /\ UNCHANGED <<pubVars, seen, chan>>

Receive(l) ==
  /\ listener[l] = "wait" /\ chan[l] # <<>>
  /\ listener' = [listener EXCEPT ![l] = "look"]
  /\ chan' = [chan EXCEPT ![l] = Tail(@)]
  /\ UNCHANGED <<pubVars, subscribed, seen>>

\* Snapshot shows the session as it is now, not as it was when the event was made.
Look(l) ==
  /\ listener[l] = "look"
  /\ listener' = [listener EXCEPT ![l] = "wait"]
  /\ seen' = [seen EXCEPT ![l] = changed]
  /\ UNCHANGED <<pubVars, subscribed, chan>>

\* Its context is cancelled; the session goes on publishing to it.
Leave(l) ==
  /\ listener[l] = "wait"
  /\ listener' = [listener EXCEPT ![l] = "gone"]
  /\ UNCHANGED <<pubVars, subscribed, seen, chan>>

-----------------------------------------------------------------------------
PubStep(p) ==
  \/ Dispatch(p) \/ Evict(p) \/ Retry(p)
  \/ \E l \in Listeners : Put(p, l) \/ DropPlain(p, l) \/ Full(p, l)

ListenStep(l) == Receive(l) \/ Look(l)

Next ==
  \/ \E p \in Publishes : Change(p) \/ PubStep(p)
  \/ \E l \in Listeners : Subscribe(l) \/ Leave(l) \/ ListenStep(l)

Spec == Init /\ [][Next]_vars

\* The runtime runs every goroutine that can run; nothing here blocks but an
\* empty channel.
FairSpec ==
  /\ Spec
  /\ \A p \in Publishes : WF_vars(PubStep(p))
  /\ \A l \in Listeners : WF_vars(ListenStep(l))

-----------------------------------------------------------------------------
(* Properties.                                                             *)

\* Events may be dropped, evicted and overtaken, but never the news that there is
\* one: a listener that waits on an empty channel, with nobody about to serve it,
\* has looked at every change it should have been told of.
NothingMissed ==
  \A l \in Listeners :
    listener[l] = "wait" /\ chan[l] = <<>> /\ (\A p \in Publishes : l \notin todo[p])
      => \A p \in Publishes : l \in told[p] => p \in seen[l]

\* What a listener shows catches up with every change, unless it is stopped.
ViewCatchesUp ==
  \A p \in Publishes, l \in Listeners :
    l \in told[p] ~> p \in seen[l] \/ listener[l] = "gone"

=============================================================================
