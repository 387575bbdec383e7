----------------------------- MODULE Correlator -----------------------------
(***************************************************************************)
(* internal/incident/correlator.go: alerts that fire close together are    *)
(* buffered per scope and handed to the pipeline as one incident when the  *)
(* bucket's timer runs out, or when the brain shuts down and drains.       *)
(*                                                                         *)
(* Concurrency.  Add runs in one goroutine per ingested alert; every       *)
(* bucket arms a time.AfterFunc timer whose callback runs flushKey in a    *)
(* goroutine of its own; Drain runs in main.  All of them take c.mu, so    *)
(* one action is one critical section, and the call of c.flush, made       *)
(* outside the lock, is an action of its own.                              *)
(*                                                                         *)
(* A bucket is named by the alert that opened it (an alert payload is      *)
(* added once, so the name is unique), and so is that bucket's timer.      *)
(* The debounce window is abstracted: an armed timer may run out at any    *)
(* later moment, which covers every window length and arrival rate.        *)
(***************************************************************************)
EXTENDS Integers, Sequences, Functions

CONSTANTS
  Alert,             \* payloads: records [id, cluster, node, namespace]
  MaxGroupSetting,   \* INCIDENT_MAX_GROUP as configured
  NoBucket           \* nil *bucket

ASSUME CorrelatorAssumption ==
  /\ MaxGroupSetting \in Int
  /\ NoBucket \notin Alert

VARIABLES
  buckets,      \* c.buckets: scope key -> bucket, NoBucket if absent
  alerts,       \* bucket -> its alerts, oldest first; <<>> before it is opened
  timer,        \* bucket -> state of its timer and of the timer's goroutine
  taken,        \* timer -> the bucket its flushKey holds, outside the lock
  drain,        \* "idle", "running", "done": main's call of Drain
  drainKeys,    \* keys Drain has collected and not visited yet
  drainTaken,   \* the bucket Drain's flushKey holds, outside the lock
  flushes       \* history: bucket -> number of completed c.flush calls on it

vars == <<buckets, alerts, timer, taken, drain, drainKeys, drainTaken, flushes>>

\* Correlator.New: a non-positive limit means 25.
maxGroup == IF MaxGroupSetting <= 0 THEN 25 ELSE MaxGroupSetting

\* groupKey: node-scoped alerts cluster by node, the others by namespace.
groupKey(p) ==
  IF p.node # "" THEN <<p.cluster, "node", p.node>>
                 ELSE <<p.cluster, "ns", p.namespace>>

Key == {groupKey(p) : p \in Alert}

TimerState == {"unset", "armed", "stopped", "fired", "flushing", "done"}

Mapped(b) == buckets[groupKey(b)] = b

\* Some flushKey has removed b from the map and not yet returned from c.flush.
InHand(b) ==
  \/ drainTaken = b
  \/ \E t \in Alert : timer[t] = "flushing" /\ taken[t] = b

Added(p) == \E b \in Alert : p \in Range(alerts[b])

Init ==
  /\ buckets = [k \in Key |-> NoBucket]
  /\ alerts = [b \in Alert |-> <<>>]
  /\ timer = [b \in Alert |-> "unset"]
  /\ taken = [t \in Alert |-> NoBucket]
  /\ drain = "idle"
  /\ drainKeys = {}
  /\ drainTaken = NoBucket
  /\ flushes = [b \in Alert |-> 0]

-----------------------------------------------------------------------------
\* Mutation: the size test is off by one.
HasRoom_OffByOne(k) ==
  buckets[k] # NoBucket /\ Len(alerts[buckets[k]]) <= maxGroup

\* Mutation: the size test compares with one less.
HasRoom_TooEarly(k) ==
  buckets[k] # NoBucket /\ Len(alerts[buckets[k]]) < maxGroup - 1

\* Key k has a bucket that is not full: Add's condition for not opening one.
HasRoom(k) ==
  buckets[k] # NoBucket /\ Len(alerts[buckets[k]]) < maxGroup

\* Mutation: the new bucket's timer is never armed.
AddOpens_NoTimer(p) ==
  /\ ~Added(p)
  /\ ~HasRoom(groupKey(p))
  /\ buckets' = [buckets EXCEPT ![groupKey(p)] = p]
  /\ alerts' = [alerts EXCEPT ![p] = <<p>>]
  /\ timer' = [timer EXCEPT ![p] = "done"]
  /\ UNCHANGED <<taken, drain, drainKeys, drainTaken, flushes>>

\* Add, when the key has no bucket or a full one: a new bucket takes the map
\* entry and arms its timer.
AddOpens(p) ==
  /\ ~Added(p)
  /\ ~HasRoom(groupKey(p))
  /\ buckets' = [buckets EXCEPT ![groupKey(p)] = p]
  /\ alerts' = [alerts EXCEPT ![p] = <<p>>]
  /\ timer' = [timer EXCEPT ![p] = "armed"]
  /\ UNCHANGED <<taken, drain, drainKeys, drainTaken, flushes>>

\* Add, when the key's bucket has room.
AddJoins(p) ==
  /\ ~Added(p)
  /\ HasRoom(groupKey(p))
  /\ alerts' = [alerts EXCEPT ![buckets[groupKey(p)]] = Append(@, p)]
  /\ UNCHANGED <<buckets, timer, taken, drain, drainKeys, drainTaken, flushes>>

\* The debounce window is over: the runtime starts the timer's goroutine.
TimerExpires(t) ==
  /\ timer[t] = "armed"
  /\ timer' = [timer EXCEPT ![t] = "fired"]
  /\ UNCHANGED <<buckets, alerts, taken, drain, drainKeys, drainTaken, flushes>>

\* Mutation: flushKey reads the bucket and leaves it in the map.
flushKey_NoDelete(k) == k \in Key /\ UNCHANGED buckets

\* The critical section of flushKey: the bucket leaves the map.
flushKey(k) == buckets' = [buckets EXCEPT ![k] = NoBucket]

\* flushKey in timer t's goroutine, up to the unlock and the nil check.  The
\* callback knows the key only: it takes whatever bucket the key has by now.
TimerTakes(t) ==
  LET k == groupKey(t) IN
  /\ timer[t] = "fired"
  /\ flushKey(k)
  /\ taken' = [taken EXCEPT ![t] = buckets[k]]
  /\ timer' = [timer EXCEPT ![t] = IF buckets[k] = NoBucket THEN "done"
                                                            ELSE "flushing"]
  /\ UNCHANGED <<alerts, drain, drainKeys, drainTaken, flushes>>

\* c.flush(b.alerts) returns in timer t's goroutine.
TimerFlushes(t) ==
  /\ timer[t] = "flushing"
  /\ flushes' = [flushes EXCEPT ![taken[t]] = @ + 1]
  /\ timer' = [timer EXCEPT ![t] = "done"]
  /\ taken' = [taken EXCEPT ![t] = NoBucket]
  /\ UNCHANGED <<buckets, alerts, drain, drainKeys, drainTaken>>
-----------------------------------------------------------------------------
\* Mutation: Drain only visits the keys whose timer it was too late to stop.
DrainBegins_OnlyFired ==
  /\ drain = "idle"
  /\ drain' = "running"
  /\ timer' = [b \in Alert |-> IF Mapped(b) /\ timer[b] = "armed"
                               THEN "stopped" ELSE timer[b]]
  /\ drainKeys' = {k \in Key : buckets[k] # NoBucket
                               /\ timer[buckets[k]] # "armed"}
  /\ UNCHANGED <<buckets, alerts, taken, drainTaken, flushes>>

\* Drain's critical section: stop the timer of every bucket in the map (a timer
\* that has already fired is past stopping) and collect the keys.
DrainBegins ==
  /\ drain = "idle"
  /\ drain' = "running"
  /\ timer' = [b \in Alert |-> IF Mapped(b) /\ timer[b] = "armed"
                               THEN "stopped" ELSE timer[b]]
  /\ drainKeys' = {k \in Key : buckets[k] # NoBucket}
  /\ UNCHANGED <<buckets, alerts, taken, drainTaken, flushes>>

\* flushKey(k) in Drain's loop, up to the unlock and the nil check.
DrainTakes(k) ==
  /\ drain = "running"
  /\ drainTaken = NoBucket
  /\ flushKey(k)
  /\ drainKeys' = drainKeys \ {k}
  /\ drainTaken' = buckets[k]
  /\ UNCHANGED <<alerts, timer, taken, drain, flushes>>

\* c.flush(b.alerts) returns in Drain's loop.
DrainFlushes ==
  /\ drainTaken # NoBucket
  /\ flushes' = [flushes EXCEPT ![drainTaken] = @ + 1]
  /\ drainTaken' = NoBucket
  /\ UNCHANGED <<buckets, alerts, timer, taken, drain, drainKeys>>

\* Drain returns.
DrainEnds ==
  /\ drain = "running"
  /\ drainKeys = {}
  /\ drainTaken = NoBucket
  /\ drain' = "done"
  /\ UNCHANGED <<buckets, alerts, timer, taken, drainKeys, drainTaken, flushes>>

DrainSteps ==
  \/ \E k \in drainKeys : DrainTakes(k)
  \/ DrainFlushes
  \/ DrainEnds

Next ==
  \/ \E p \in Alert : AddOpens(p) \/ AddJoins(p)
  \/ \E t \in Alert : TimerExpires(t) \/ TimerTakes(t) \/ TimerFlushes(t)
  \/ DrainBegins
  \/ DrainSteps

\* The Go runtime runs every expired timer and every runnable goroutine, and
\* c.flush is bounded by the pipeline's context deadline.  Nothing obliges an
\* alert to arrive or the brain to shut down.
Fairness ==
  /\ \A t \in Alert : WF_vars(TimerExpires(t) \/ TimerTakes(t) \/ TimerFlushes(t))
  /\ WF_vars(DrainSteps)

SafeSpec == Init /\ [][Next]_vars
Spec == SafeSpec /\ Fairness
-----------------------------------------------------------------------------
\* Every variable keeps its type, and a timer goroutine inside c.flush holds a
\* bucket, never nil (correlator.go:108).
TypeOK ==
  /\ buckets \in [Key -> Alert \cup {NoBucket}]
  /\ alerts \in [Alert -> Seq(Alert)]
  /\ timer \in [Alert -> TimerState]
  /\ taken \in [Alert -> Alert \cup {NoBucket}]
  /\ drain \in {"idle", "running", "done"}
  /\ drainKeys \in SUBSET Key
  /\ drainTaken \in Alert \cup {NoBucket}
  /\ flushes \in [Alert -> Nat]
  /\ \A t \in Alert : timer[t] = "flushing" => taken[t] \in Alert

\* "flush is invoked ... once per completed group" (correlator.go:44): however
\* Add, late timers and Drain interleave, no bucket is handed to c.flush twice
\* and no alert sits in two buckets or twice in one, so no alert is processed
\* twice.
FlushedAtMostOnce ==
  /\ \A b \in Alert : flushes[b] + (IF InHand(b) THEN 1 ELSE 0) <= 1
  /\ \A b, c \in Alert : \A i \in DOMAIN alerts[b], j \in DOMAIN alerts[c] :
       alerts[b][i] = alerts[c][j] => b = c /\ i = j

\* A group holds alerts of one scope only, at most maxGroup of them
\* (correlator.go:42-43 and groupKey).
GroupsAreScoped ==
  \A b \in Alert :
    /\ Len(alerts[b]) <= maxGroup
    /\ \A i \in DOMAIN alerts[b] : groupKey(alerts[b][i]) = groupKey(b)

\* A bucket that left the map without anyone taking it: unreachable in the
\* program, its alerts are gone.
Displaced(b) ==
  /\ timer[b] # "unset"
  /\ ~Mapped(b)
  /\ ~InHand(b)
  /\ flushes[b] = 0

\* The only way to lose a bucket is the map assignment in Add on a full one
\* (correlator.go:70-72): a bucket with room left is never displaced, whatever
\* timers and Drain do meanwhile.
OnlyFullGroupsDisplaced ==
  \A b \in Alert : Displaced(b) => Len(alerts[b]) = maxGroup

\* Every bucket in the map has somebody who will flush it: its own timer, still
\* armed or fired, or Drain, which stopped that timer and still has to visit the
\* key (correlator.go:88-101).
MappedBucketHasFlusher ==
  \A b \in Alert : Mapped(b) =>
    \/ timer[b] \in {"armed", "fired"}
    \/ /\ timer[b] = "stopped"
       /\ drain = "running"
       /\ groupKey(b) \in drainKeys

\* The slice flushKey passes to c.flush is read outside the lock
\* (correlator.go:107-115): no Add appends to a bucket once it has been taken.
TakenGroupsAreFrozen ==
  [][\A b \in Alert : InHand(b) \/ flushes[b] > 0 => alerts'[b] = alerts[b]]_vars

\* Every alert given to Add is still buffered, being flushed, or flushed
\* (correlator.go:42-45, 85-87: excess alerts open a fresh bucket, buffered
\* alerts are not lost).
NoAlertLost == \A b \in Alert : ~Displaced(b)

\* Every alert given to Add is eventually part of a completed c.flush call,
\* shutdown or not, unless its bucket was displaced.
EveryAlertFlushed ==
  \A p \in Alert :
    Added(p) ~> \E b \in Alert :
                  /\ p \in Range(alerts[b])
                  /\ flushes[b] = 1 \/ Displaced(b)

\* The promise of module IncidentGrouping: an alert is accepted by Add and
\* reported by the c.flush call that carries it.
Grouping ==
  INSTANCE IncidentGrouping WITH
    scopeOf <- [p \in Alert |-> groupKey(p)],
    MaxGroup <- maxGroup,
    pending <- {p \in Alert : \E b \in Alert :
                                flushes[b] = 0 /\ p \in Range(alerts[b])},
    incidents <- {alerts[b] : b \in {c \in Alert : flushes[c] > 0}}

\* Add, the timers and Drain together only ever do what IncidentGrouping allows.
ImplementsGrouping == Grouping!SafeSpec
=============================================================================
