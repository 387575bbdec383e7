--------------------------- MODULE Shutdown_proofs ---------------------------
(***************************************************************************)
(* Proofs about Correlator and about Shutdown, which implements it, for    *)
(* every set of alerts and every configured group size.                    *)
(***************************************************************************)
EXTENDS Shutdown, FiniteSetTheorems, TLAPS

\* The map entry of a key belongs to it, has been opened, and nobody has taken
\* or flushed it.
MappedIsFresh ==
  \A k \in Key : buckets[k] # NoBucket =>
    /\ groupKey(buckets[k]) = k
    /\ timer[buckets[k]] # "unset"
    /\ flushes[buckets[k]] = 0
    /\ ~InHand(buckets[k])

\* A bucket has alerts from the moment it is opened, its own name first.
OpenedByItsName ==
  \A b \in Alert : IF timer[b] = "unset"
                   THEN alerts[b] = <<>>
                   ELSE alerts[b] # <<>> /\ alerts[b][1] = b

\* A bucket in the hands of a flushKey was opened and is not flushed yet.
TakenIsFresh == \A b \in Alert : InHand(b) => flushes[b] = 0 /\ timer[b] # "unset"

\* No two calls of flushKey hold the same bucket.
OneTaker ==
  \A t \in Alert : timer[t] = "flushing" =>
    /\ taken[t] # drainTaken
    /\ \A u \in Alert : timer[u] = "flushing" /\ taken[u] = taken[t] => u = t

\* A bucket is flushed at most once, and only if it was opened.
FlushCount ==
  \A b \in Alert : flushes[b] \in {0, 1} /\ (flushes[b] = 1 => timer[b] # "unset")

\* No alert sits in two places.
OnePlace ==
  \A b, c \in Alert : \A i \in DOMAIN alerts[b], j \in DOMAIN alerts[c] :
    alerts[b][i] = alerts[c][j] => b = c /\ i = j

\* The inductive invariant.
IInv ==
  /\ TypeOK
  /\ MappedIsFresh
  /\ OpenedByItsName
  /\ TakenIsFresh
  /\ OneTaker
  /\ FlushCount
  /\ OnePlace
  /\ GroupsAreScoped
  /\ OnlyFullGroupsDisplaced
  /\ MappedBucketHasFlusher
-----------------------------------------------------------------------------
\* The group limit New settles on is positive, whatever the setting.
LEMMA maxGroupPositive == maxGroup \in Nat /\ maxGroup >= 1
BY CorrelatorAssumption DEF maxGroup

\* Every alert has a key.
LEMMA KeyOfAlert == \A p \in Alert : groupKey(p) \in Key
BY DEF Key

\* The initial state satisfies the inductive invariant.
LEMMA InitIInv == Init => IInv
<1> SUFFICES ASSUME Init PROVE IInv
  OBVIOUS
<1>1. TypeOK
  BY DEF Init, TypeOK, TimerState
<1>2. MappedIsFresh /\ OpenedByItsName /\ TakenIsFresh /\ OneTaker /\ FlushCount
  BY CorrelatorAssumption
  DEF Init, MappedIsFresh, OpenedByItsName, TakenIsFresh, OneTaker, FlushCount,
      InHand
<1>3. OnePlace /\ GroupsAreScoped
  BY maxGroupPositive DEF Init, OnePlace, GroupsAreScoped
<1>4. OnlyFullGroupsDisplaced
  BY DEF Init, OnlyFullGroupsDisplaced, Displaced
<1>5. MappedBucketHasFlusher
  BY KeyOfAlert, CorrelatorAssumption DEF Init, MappedBucketHasFlusher, Mapped
<1> QED
  BY <1>1, <1>2, <1>3, <1>4, <1>5 DEF IInv
-----------------------------------------------------------------------------
\* Add opening a bucket preserves the invariant.
LEMMA AddOpensIInv ==
  ASSUME IInv, NEW p \in Alert, AddOpens(p)
  PROVE  IInv'
<1> DEFINE k == groupKey(p)
<1> USE DEF IInv
<1>0. k \in Key
  BY KeyOfAlert
<1>1. timer[p] = "unset" /\ alerts[p] = <<>>
  <2> SUFFICES ASSUME alerts[p] # <<>>, alerts[p][1] = p PROVE FALSE
    BY DEF OpenedByItsName
  <2>1. 1 \in DOMAIN alerts[p]
    BY DEF TypeOK
  <2> QED
    BY <2>1 DEF AddOpens, Added, Range
<1>2. TypeOK'
  BY <1>0 DEF AddOpens, TypeOK, TimerState
<1>3. /\ buckets' = [buckets EXCEPT ![k] = p]
      /\ alerts' = [alerts EXCEPT ![p] = <<p>>]
      /\ timer' = [timer EXCEPT ![p] = "armed"]
      /\ UNCHANGED <<taken, drain, drainKeys, drainTaken, flushes>>
  BY DEF AddOpens
<1>4. \A b \in Alert : InHand(b)' <=> InHand(b)
  BY <1>1, <1>3 DEF InHand, TypeOK
<1>5. ~InHand(p) /\ flushes[p] = 0
  BY <1>1 DEF TakenIsFresh, FlushCount
<1>6. MappedIsFresh'
  BY <1>0, <1>1, <1>3, <1>4, <1>5, CorrelatorAssumption DEF MappedIsFresh, TypeOK
<1>7. OpenedByItsName'
  BY <1>1, <1>3 DEF OpenedByItsName, TypeOK
<1>8. TakenIsFresh'
  BY <1>3, <1>4 DEF TakenIsFresh, TypeOK
<1>9. OneTaker' /\ FlushCount'
  BY <1>3 DEF OneTaker, FlushCount, TypeOK
<1>10. OnePlace'
  <2>1. \A b \in Alert : \A i \in DOMAIN alerts[b] : alerts[b][i] # p
    BY DEF AddOpens, Added, Range
  <2>2. \A b \in Alert \ {p} : alerts'[b] = alerts[b]
    BY <1>3 DEF TypeOK
  <2>3. alerts'[p] = <<p>>
    BY <1>3 DEF TypeOK
  <2> QED
    BY <2>1, <2>2, <2>3 DEF OnePlace
<1>11. GroupsAreScoped'
  BY <1>3, maxGroupPositive DEF GroupsAreScoped, TypeOK
<1>12. OnlyFullGroupsDisplaced'
  <2> SUFFICES ASSUME NEW b \in Alert, Displaced(b)'
               PROVE  Len(alerts'[b]) = maxGroup
    BY DEF OnlyFullGroupsDisplaced
  <2>1. b # p
    BY <1>0, <1>3 DEF Displaced, Mapped, TypeOK
  <2>2. CASE Mapped(b)
    <3>1. groupKey(b) = k
      BY <2>2, <1>0, <1>3, KeyOfAlert DEF Displaced, Mapped, TypeOK
    <3>2. Len(alerts[b]) \in Nat /\ Len(alerts[b]) >= maxGroup
      BY <2>2, <3>1, CorrelatorAssumption, maxGroupPositive
      DEF AddOpens, HasRoom, Mapped, TypeOK
    <3> QED
      BY <2>1, <3>2, <1>3, maxGroupPositive DEF GroupsAreScoped, TypeOK
  <2>3. CASE ~Mapped(b)
    <3>1. Displaced(b)
      BY <2>1, <2>3, <1>3, <1>4 DEF Displaced, TypeOK
    <3> QED
      BY <2>1, <3>1, <1>3 DEF OnlyFullGroupsDisplaced, TypeOK
  <2> QED
    BY <2>2, <2>3
<1>13. MappedBucketHasFlusher'
  BY <1>0, <1>3, KeyOfAlert DEF MappedBucketHasFlusher, Mapped, TypeOK
<1> QED
  BY <1>2, <1>6, <1>7, <1>8, <1>9, <1>10, <1>11, <1>12, <1>13

\* Add joining a bucket preserves the invariant.
LEMMA AddJoinsIInv ==
  ASSUME IInv, NEW p \in Alert, AddJoins(p)
  PROVE  IInv'
<1> DEFINE b0 == buckets[groupKey(p)]
<1> USE DEF IInv
<1>1. /\ b0 \in Alert
      /\ groupKey(b0) = groupKey(p)
      /\ timer[b0] # "unset"
      /\ Mapped(b0)
      /\ Len(alerts[b0]) < maxGroup
  BY KeyOfAlert DEF AddJoins, HasRoom, MappedIsFresh, Mapped, TypeOK
<1>2. /\ alerts' = [alerts EXCEPT ![b0] = Append(alerts[b0], p)]
      /\ UNCHANGED <<buckets, timer, taken, drain, drainKeys, drainTaken, flushes>>
  BY DEF AddJoins
<1>3. TypeOK'
  BY <1>1, <1>2 DEF TypeOK
<1>4. \A b \in Alert : (InHand(b)' <=> InHand(b)) /\ (Mapped(b)' <=> Mapped(b))
  BY <1>2 DEF InHand, Mapped
<1>5. MappedIsFresh' /\ TakenIsFresh' /\ OneTaker' /\ FlushCount'
  BY <1>2 DEF MappedIsFresh, TakenIsFresh, OneTaker, FlushCount, InHand
<1>6. \A b \in Alert \ {b0} : alerts'[b] = alerts[b]
  BY <1>2 DEF TypeOK
<1>7. /\ alerts[b0] \in Seq(Alert)
      /\ alerts'[b0] = Append(alerts[b0], p)
  BY <1>1, <1>2 DEF TypeOK
<1>8. /\ Len(alerts'[b0]) = Len(alerts[b0]) + 1
      /\ \A i \in DOMAIN alerts'[b0] :
           \/ i \in DOMAIN alerts[b0] /\ alerts'[b0][i] = alerts[b0][i]
           \/ i = Len(alerts[b0]) + 1 /\ alerts'[b0][i] = p
  BY <1>7
<1>9. OpenedByItsName'
  <2>1. alerts[b0] # <<>> /\ alerts[b0][1] = b0
    BY <1>1 DEF OpenedByItsName
  <2>2. alerts'[b0] # <<>> /\ alerts'[b0][1] = b0
    BY <2>1, <1>7
  <2> QED
    BY <2>2, <1>2, <1>1, <1>6 DEF OpenedByItsName
<1>10. OnePlace'
  <2>1. \A b \in Alert : \A i \in DOMAIN alerts[b] : alerts[b][i] # p
    BY DEF AddJoins, Added, Range
  <2> QED
    BY <1>1, <2>1, <1>6, <1>8 DEF OnePlace
<1>11. GroupsAreScoped'
  <2>1. Len(alerts[b0]) \in Nat
    BY <1>7
  <2>2. Len(alerts'[b0]) <= maxGroup
    BY <2>1, <1>1, <1>8, maxGroupPositive
  <2> QED
    BY <2>2, <1>1, <1>6, <1>8 DEF GroupsAreScoped
<1>12. OnlyFullGroupsDisplaced'
  <2> SUFFICES ASSUME NEW b \in Alert, Displaced(b)'
               PROVE  Len(alerts'[b]) = maxGroup
    BY DEF OnlyFullGroupsDisplaced
  <2>1. Displaced(b) /\ b # b0
    BY <1>1, <1>2, <1>4 DEF Displaced
  <2> QED
    BY <2>1, <1>6 DEF OnlyFullGroupsDisplaced
<1>13. MappedBucketHasFlusher'
  BY <1>2, <1>4 DEF MappedBucketHasFlusher
<1> QED
  BY <1>3, <1>5, <1>9, <1>10, <1>11, <1>12, <1>13

\* A timer running out preserves the invariant.
LEMMA TimerExpiresIInv ==
  ASSUME IInv, NEW t \in Alert, TimerExpires(t)
  PROVE  IInv'
<1> USE DEF IInv
<1>1. /\ timer[t] = "armed"
      /\ timer' = [timer EXCEPT ![t] = "fired"]
      /\ UNCHANGED <<buckets, alerts, taken, drain, drainKeys, drainTaken, flushes>>
  BY DEF TimerExpires
<1>2. TypeOK'
  BY <1>1 DEF TypeOK, TimerState
<1>3. \A b \in Alert : /\ InHand(b)' <=> InHand(b)
                       /\ Mapped(b)' <=> Mapped(b)
                       /\ timer'[b] = "unset" <=> timer[b] = "unset"
                       /\ timer'[b] = "flushing" <=> timer[b] = "flushing"
  BY <1>1 DEF InHand, Mapped, TypeOK
<1>4. MappedIsFresh'
  BY <1>1, <1>3 DEF MappedIsFresh, TypeOK
<1>5. OpenedByItsName' /\ TakenIsFresh' /\ FlushCount'
  BY <1>1, <1>3 DEF OpenedByItsName, TakenIsFresh, FlushCount
<1>6. OneTaker'
  BY <1>1, <1>3 DEF OneTaker
<1>7. OnePlace' /\ GroupsAreScoped'
  BY <1>1 DEF OnePlace, GroupsAreScoped
<1>8. OnlyFullGroupsDisplaced'
  BY <1>1, <1>3 DEF OnlyFullGroupsDisplaced, Displaced
<1>9. MappedBucketHasFlusher'
  BY <1>1, <1>3 DEF MappedBucketHasFlusher, TypeOK
<1> QED
  BY <1>2, <1>4, <1>5, <1>6, <1>7, <1>8, <1>9

\* flushKey in a timer's goroutine preserves the invariant.
LEMMA TimerTakesIInv ==
  ASSUME IInv, NEW t \in Alert, TimerTakes(t)
  PROVE  IInv'
<1> DEFINE k == groupKey(t)
           b0 == buckets[k]
<1> USE DEF IInv
<1>0. k \in Key /\ b0 \in Alert \cup {NoBucket}
  BY KeyOfAlert DEF TypeOK
<1>1. /\ timer[t] = "fired"
      /\ buckets' = [buckets EXCEPT ![k] = NoBucket]
      /\ taken' = [taken EXCEPT ![t] = b0]
      /\ timer' = [timer EXCEPT ![t] = IF b0 = NoBucket THEN "done" ELSE "flushing"]
      /\ UNCHANGED <<alerts, drain, drainKeys, drainTaken, flushes>>
  BY DEF TimerTakes, flushKey
<1>2. TypeOK'
  BY <1>0, <1>1 DEF TypeOK, TimerState
<1>3. \A b \in Alert : InHand(b)' <=> InHand(b) \/ b = b0
  <2> TAKE b \in Alert
  <2>1. \A u \in Alert \ {t} : timer'[u] = timer[u] /\ taken'[u] = taken[u]
    BY <1>1 DEF TypeOK
  <2>2. timer'[t] = "flushing" /\ taken'[t] = b <=> b = b0
    BY <1>1, CorrelatorAssumption DEF TypeOK
  <2> QED
    BY <2>1, <2>2, <1>1 DEF InHand
<1>4. \A b \in Alert : Mapped(b)' <=> Mapped(b) /\ b # b0
  BY <1>0, <1>1, KeyOfAlert, CorrelatorAssumption DEF Mapped, MappedIsFresh, TypeOK
<1>5. \A b \in Alert : timer'[b] = "unset" <=> timer[b] = "unset"
  BY <1>1 DEF TypeOK
<1>6. b0 # NoBucket => /\ timer[b0] # "unset"
                       /\ flushes[b0] = 0
                       /\ ~InHand(b0)
  BY <1>0 DEF MappedIsFresh
<1>7. MappedIsFresh'
  BY <1>0, <1>1, <1>3, <1>5 DEF MappedIsFresh, TypeOK
<1>8. OpenedByItsName' /\ FlushCount'
  BY <1>1, <1>5 DEF OpenedByItsName, FlushCount
<1>9. TakenIsFresh'
  BY <1>1, <1>3, <1>5, <1>6, CorrelatorAssumption DEF TakenIsFresh
<1>10. OneTaker'
  BY <1>0, <1>1, <1>6, CorrelatorAssumption DEF OneTaker, InHand, TypeOK
<1>11. OnePlace' /\ GroupsAreScoped'
  BY <1>1 DEF OnePlace, GroupsAreScoped
<1>12. OnlyFullGroupsDisplaced'
  BY <1>1, <1>3, <1>4, <1>5 DEF OnlyFullGroupsDisplaced, Displaced
<1>13. MappedBucketHasFlusher'
  BY <1>0, <1>1, <1>4 DEF MappedBucketHasFlusher, Mapped, TypeOK
<1> QED
  BY <1>2, <1>7, <1>8, <1>9, <1>10, <1>11, <1>12, <1>13

\* The return of c.flush in a timer's goroutine preserves the invariant.
LEMMA TimerFlushesIInv ==
  ASSUME IInv, NEW t \in Alert, TimerFlushes(t)
  PROVE  IInv'
<1> DEFINE b0 == taken[t]
<1> USE DEF IInv
<1>1. /\ timer[t] = "flushing"
      /\ flushes' = [flushes EXCEPT ![b0] = flushes[b0] + 1]
      /\ timer' = [timer EXCEPT ![t] = "done"]
      /\ taken' = [taken EXCEPT ![t] = NoBucket]
      /\ UNCHANGED <<buckets, alerts, drain, drainKeys, drainTaken>>
  BY DEF TimerFlushes
<1>2. /\ b0 \in Alert
      /\ InHand(b0)
      /\ flushes[b0] = 0
      /\ timer[b0] # "unset"
      /\ ~Mapped(b0)
  BY <1>1, KeyOfAlert, CorrelatorAssumption
  DEF TypeOK, InHand, TakenIsFresh, MappedIsFresh, Mapped
<1>3. TypeOK'
  BY <1>1, <1>2 DEF TypeOK, TimerState
<1>4. \A b \in Alert : InHand(b)' <=> InHand(b) /\ b # b0
  BY <1>1, <1>2, CorrelatorAssumption DEF InHand, OneTaker, TypeOK
<1>5. \A b \in Alert : Mapped(b)' <=> Mapped(b)
  BY <1>1 DEF Mapped
<1>6. \A b \in Alert : timer'[b] = "unset" <=> timer[b] = "unset"
  BY <1>1 DEF TypeOK
<1>7. flushes'[b0] = 1 /\ \A b \in Alert \ {b0} : flushes'[b] = flushes[b]
  BY <1>1, <1>2 DEF TypeOK
<1>8. MappedIsFresh'
  BY <1>1, <1>2, <1>4, <1>6, <1>7 DEF MappedIsFresh, TypeOK
<1>9. OpenedByItsName' /\ TakenIsFresh' /\ FlushCount'
  BY <1>1, <1>2, <1>4, <1>6, <1>7
  DEF OpenedByItsName, TakenIsFresh, FlushCount
<1>10. OneTaker'
  BY <1>1 DEF OneTaker, TypeOK
<1>11. OnePlace' /\ GroupsAreScoped'
  BY <1>1 DEF OnePlace, GroupsAreScoped
<1>12. OnlyFullGroupsDisplaced'
  BY <1>1, <1>4, <1>5, <1>6, <1>7 DEF OnlyFullGroupsDisplaced, Displaced
<1>13. MappedBucketHasFlusher'
  BY <1>1, <1>5 DEF MappedBucketHasFlusher, TypeOK
<1> QED
  BY <1>3, <1>8, <1>9, <1>10, <1>11, <1>12, <1>13

\* Drain's critical section preserves the invariant.
LEMMA DrainBeginsIInv ==
  ASSUME IInv, DrainBegins
  PROVE  IInv'
<1> USE DEF IInv
<1>1. /\ drain = "idle"
      /\ drain' = "running"
      /\ timer' = [b \in Alert |-> IF Mapped(b) /\ timer[b] = "armed"
                                   THEN "stopped" ELSE timer[b]]
      /\ drainKeys' = {k \in Key : buckets[k] # NoBucket}
      /\ UNCHANGED <<buckets, alerts, taken, drainTaken, flushes>>
  BY DEF DrainBegins
<1>2. TypeOK'
  BY <1>1 DEF TypeOK, TimerState
<1>3. \A b \in Alert : /\ timer'[b] = "unset" <=> timer[b] = "unset"
                       /\ timer'[b] = "flushing" <=> timer[b] = "flushing"
  BY <1>1
<1>4. \A b \in Alert : /\ InHand(b)' <=> InHand(b)
                       /\ Mapped(b)' <=> Mapped(b)
  BY <1>1, <1>3 DEF InHand, Mapped
<1>5. MappedIsFresh'
  BY <1>1, <1>3, <1>4 DEF MappedIsFresh, TypeOK
<1>6. OpenedByItsName' /\ TakenIsFresh' /\ FlushCount'
  BY <1>1, <1>3, <1>4 DEF OpenedByItsName, TakenIsFresh, FlushCount
<1>7. OneTaker'
  BY <1>1, <1>3 DEF OneTaker
<1>8. OnePlace' /\ GroupsAreScoped'
  BY <1>1 DEF OnePlace, GroupsAreScoped
<1>9. OnlyFullGroupsDisplaced'
  BY <1>1, <1>3, <1>4 DEF OnlyFullGroupsDisplaced, Displaced
<1>10. MappedBucketHasFlusher'
  <2> SUFFICES ASSUME NEW b \in Alert, Mapped(b)
               PROVE  \/ timer'[b] \in {"armed", "fired"}
                      \/ /\ timer'[b] = "stopped"
                         /\ drain' = "running"
                         /\ groupKey(b) \in drainKeys'
    BY <1>4 DEF MappedBucketHasFlusher
  <2>1. groupKey(b) \in drainKeys'
    BY <1>1, KeyOfAlert, CorrelatorAssumption DEF Mapped
  <2>2. timer[b] \in {"armed", "fired"}
    BY <1>1 DEF MappedBucketHasFlusher
  <2> QED
    BY <1>1, <2>1, <2>2
<1> QED
  BY <1>2, <1>5, <1>6, <1>7, <1>8, <1>9, <1>10

\* flushKey in Drain's loop preserves the invariant.
LEMMA DrainTakesIInv ==
  ASSUME IInv, NEW k \in drainKeys, DrainTakes(k)
  PROVE  IInv'
<1> DEFINE b0 == buckets[k]
<1> USE DEF IInv
<1>0. k \in Key /\ b0 \in Alert \cup {NoBucket}
  BY DEF TypeOK
<1>1. /\ drain = "running"
      /\ drainTaken = NoBucket
      /\ buckets' = [buckets EXCEPT ![k] = NoBucket]
      /\ drainKeys' = drainKeys \ {k}
      /\ drainTaken' = b0
      /\ UNCHANGED <<alerts, timer, taken, drain, flushes>>
  BY DEF DrainTakes, flushKey
<1>2. TypeOK'
  BY <1>0, <1>1 DEF TypeOK
<1>3. \A b \in Alert : InHand(b)' <=> InHand(b) \/ b = b0
  BY <1>1, CorrelatorAssumption DEF InHand
<1>4. \A b \in Alert : Mapped(b)' <=> Mapped(b) /\ b # b0
  BY <1>0, <1>1, KeyOfAlert, CorrelatorAssumption DEF Mapped, MappedIsFresh, TypeOK
<1>5. b0 # NoBucket => /\ timer[b0] # "unset"
                       /\ flushes[b0] = 0
                       /\ ~InHand(b0)
  BY <1>0 DEF MappedIsFresh
<1>6. MappedIsFresh'
  BY <1>0, <1>1, <1>3 DEF MappedIsFresh, TypeOK
<1>7. OpenedByItsName' /\ FlushCount' /\ TakenIsFresh'
  BY <1>1, <1>3, <1>5, CorrelatorAssumption
  DEF OpenedByItsName, FlushCount, TakenIsFresh
<1>8. OneTaker'
  BY <1>0, <1>1, <1>5 DEF OneTaker, InHand
<1>9. OnePlace' /\ GroupsAreScoped'
  BY <1>1 DEF OnePlace, GroupsAreScoped
<1>10. OnlyFullGroupsDisplaced'
  BY <1>1, <1>3, <1>4 DEF OnlyFullGroupsDisplaced, Displaced
<1>11. MappedBucketHasFlusher'
  BY <1>0, <1>1, <1>4 DEF MappedBucketHasFlusher, Mapped, TypeOK
<1> QED
  BY <1>2, <1>6, <1>7, <1>8, <1>9, <1>10, <1>11

\* The return of c.flush in Drain's loop preserves the invariant.
LEMMA DrainFlushesIInv ==
  ASSUME IInv, DrainFlushes
  PROVE  IInv'
<1> DEFINE b0 == drainTaken
<1> USE DEF IInv
<1>1. /\ flushes' = [flushes EXCEPT ![b0] = flushes[b0] + 1]
      /\ drainTaken' = NoBucket
      /\ UNCHANGED <<buckets, alerts, timer, taken, drain, drainKeys>>
  BY DEF DrainFlushes
<1>2. /\ b0 \in Alert
      /\ InHand(b0)
      /\ flushes[b0] = 0
      /\ timer[b0] # "unset"
      /\ ~Mapped(b0)
  BY KeyOfAlert
  DEF DrainFlushes, InHand, TakenIsFresh, MappedIsFresh, Mapped, TypeOK
<1>3. TypeOK'
  BY <1>1, <1>2 DEF TypeOK
<1>4. \A b \in Alert : InHand(b)' <=> InHand(b) /\ b # b0
  BY <1>1, <1>2, CorrelatorAssumption DEF InHand, OneTaker
<1>5. flushes'[b0] = 1 /\ \A b \in Alert \ {b0} : flushes'[b] = flushes[b]
  BY <1>1, <1>2 DEF TypeOK
<1>6. MappedIsFresh'
  BY <1>1, <1>2, <1>4, <1>5 DEF MappedIsFresh, TypeOK
<1>7. OpenedByItsName' /\ TakenIsFresh' /\ FlushCount'
  BY <1>1, <1>2, <1>4, <1>5 DEF OpenedByItsName, TakenIsFresh, FlushCount
<1>8. OneTaker'
  BY <1>1, CorrelatorAssumption DEF OneTaker, TypeOK
<1>9. OnePlace' /\ GroupsAreScoped'
  BY <1>1 DEF OnePlace, GroupsAreScoped
<1>10. OnlyFullGroupsDisplaced'
  BY <1>1, <1>4, <1>5 DEF OnlyFullGroupsDisplaced, Displaced, Mapped
<1>11. MappedBucketHasFlusher'
  BY <1>1 DEF MappedBucketHasFlusher, Mapped
<1> QED
  BY <1>3, <1>6, <1>7, <1>8, <1>9, <1>10, <1>11
-----------------------------------------------------------------------------
\* Every step of the correlator preserves the inductive invariant.
THEOREM NextIInv == IInv /\ [Next]_vars => IInv'
<1> SUFFICES ASSUME IInv, [Next]_vars PROVE IInv'
  OBVIOUS
<1>1. ASSUME NEW p \in Alert, AddOpens(p) PROVE IInv'
  BY <1>1, AddOpensIInv
<1>2. ASSUME NEW p \in Alert, AddJoins(p) PROVE IInv'
  BY <1>2, AddJoinsIInv
<1>3. ASSUME NEW t \in Alert, TimerExpires(t) PROVE IInv'
  BY <1>3, TimerExpiresIInv
<1>4. ASSUME NEW t \in Alert, TimerTakes(t) PROVE IInv'
  BY <1>4, TimerTakesIInv
<1>5. ASSUME NEW t \in Alert, TimerFlushes(t) PROVE IInv'
  BY <1>5, TimerFlushesIInv
<1>6. CASE DrainBegins
  BY <1>6, DrainBeginsIInv
<1>7. ASSUME NEW k \in drainKeys, DrainTakes(k) PROVE IInv'
  BY <1>7, DrainTakesIInv
<1>8. CASE DrainFlushes
  BY <1>8, DrainFlushesIInv
<1>9. CASE DrainEnds
  <2>1. /\ drainKeys = {}
        /\ drain' = "done"
        /\ UNCHANGED <<buckets, alerts, timer, taken, drainKeys, drainTaken,
                       flushes>>
    BY <1>9 DEF DrainEnds
  <2>2. TypeOK' /\ MappedIsFresh' /\ OpenedByItsName' /\ TakenIsFresh'
    BY <2>1
    DEF IInv, TypeOK, MappedIsFresh, OpenedByItsName, TakenIsFresh, InHand
  <2>3. OneTaker' /\ FlushCount' /\ OnePlace' /\ GroupsAreScoped'
    <3>1. OneTaker' /\ FlushCount'
      BY <2>1 DEF IInv, OneTaker, FlushCount
    <3>2. OnePlace' /\ GroupsAreScoped'
      BY <2>1 DEF IInv, OnePlace, GroupsAreScoped
    <3> QED
      BY <3>1, <3>2
  <2>4. OnlyFullGroupsDisplaced' /\ MappedBucketHasFlusher'
    BY <2>1
    DEF IInv, OnlyFullGroupsDisplaced, Displaced, MappedBucketHasFlusher,
        Mapped, InHand
  <2> QED
    BY <2>2, <2>3, <2>4 DEF IInv
<1>10. CASE UNCHANGED vars
  <2>1. TypeOK' /\ MappedIsFresh' /\ OpenedByItsName' /\ TakenIsFresh'
    BY <1>10
    DEF vars, IInv, TypeOK, MappedIsFresh, OpenedByItsName, TakenIsFresh, InHand
  <2>2. OneTaker' /\ FlushCount' /\ OnePlace' /\ GroupsAreScoped'
    <3>1. OneTaker' /\ FlushCount'
      BY <1>10 DEF vars, IInv, OneTaker, FlushCount
    <3>2. OnePlace' /\ GroupsAreScoped'
      BY <1>10 DEF vars, IInv, OnePlace, GroupsAreScoped
    <3> QED
      BY <3>1, <3>2
  <2>3. OnlyFullGroupsDisplaced' /\ MappedBucketHasFlusher'
    BY <1>10
    DEF vars, IInv, OnlyFullGroupsDisplaced, Displaced, MappedBucketHasFlusher,
        Mapped, InHand
  <2> QED
    BY <2>1, <2>2, <2>3 DEF IInv
<1> QED
  BY <1>1, <1>2, <1>3, <1>4, <1>5, <1>6, <1>7, <1>8, <1>9, <1>10
  DEF Next, DrainSteps

\* The inductive invariant holds in every reachable state.
THEOREM Invariance == SafeSpec => []IInv
BY InitIInv, NextIInv, PTL DEF SafeSpec

\* Type correctness of the correlator.
THEOREM TypeCorrect == SafeSpec => []TypeOK
<1>1. IInv => TypeOK
  BY DEF IInv
<1> QED
  BY Invariance, <1>1, PTL

\* No bucket is handed to c.flush twice and no alert sits in two buckets, for
\* any number of alerts, scopes and interleavings of Add, timers and Drain.
THEOREM NeverFlushedTwice == SafeSpec => []FlushedAtMostOnce
<1>1. IInv => FlushedAtMostOnce
  BY DEF IInv, FlushedAtMostOnce, TakenIsFresh, FlushCount, OnePlace
<1> QED
  BY Invariance, <1>1, PTL

\* A group never mixes scopes nor exceeds the configured size.
THEOREM ScopedGroups == SafeSpec => []GroupsAreScoped
<1>1. IInv => GroupsAreScoped
  BY DEF IInv
<1> QED
  BY Invariance, <1>1, PTL

\* A bucket is lost only by Add on a full one: no interleaving of timers and
\* Drain loses a bucket with room.
THEOREM LossNeedsOverflow == SafeSpec => []OnlyFullGroupsDisplaced
<1>1. IInv => OnlyFullGroupsDisplaced
  BY DEF IInv
<1> QED
  BY Invariance, <1>1, PTL

\* Every buffered bucket has an armed or fired timer, or Drain on its way.
THEOREM FlusherExists == SafeSpec => []MappedBucketHasFlusher
<1>1. IInv => MappedBucketHasFlusher
  BY DEF IInv
<1> QED
  BY Invariance, <1>1, PTL
-----------------------------------------------------------------------------
\* Of all steps only Add changes a bucket's list, and only that of a bucket
\* that is being opened or is in the map.
LEMMA WhoChangesAlerts ==
  ASSUME IInv, [Next]_vars, NEW b \in Alert, alerts'[b] # alerts[b]
  PROVE  timer[b] = "unset" \/ Mapped(b)
<1>1. ASSUME NEW p \in Alert, AddOpens(p) PROVE timer[b] = "unset"
  <2>1. b = p
    BY <1>1 DEF AddOpens, IInv, TypeOK
  <2> SUFFICES ASSUME timer[p] # "unset" PROVE FALSE
    BY <2>1
  <2>2. 1 \in DOMAIN alerts[p] /\ alerts[p][1] = p
    BY DEF IInv, OpenedByItsName, TypeOK
  <2> QED
    BY <1>1, <2>2 DEF AddOpens, Added, Range
<1>2. ASSUME NEW p \in Alert, AddJoins(p) PROVE Mapped(b)
  <2>1. b = buckets[groupKey(p)]
    BY <1>2 DEF AddJoins, IInv, TypeOK
  <2> QED
    BY <2>1, KeyOfAlert, CorrelatorAssumption DEF IInv, MappedIsFresh, Mapped
<1> QED
  BY <1>1, <1>2
  DEF Next, vars, TimerExpires, TimerTakes, TimerFlushes, DrainBegins,
      DrainSteps, DrainTakes, DrainFlushes, DrainEnds

\* The slice c.flush reads outside the lock is never appended to.
THEOREM FrozenOnceTaken == SafeSpec => TakenGroupsAreFrozen
<1>1. ASSUME IInv, [Next]_vars, NEW b \in Alert, InHand(b) \/ flushes[b] > 0
      PROVE  alerts'[b] = alerts[b]
  <2>1. timer[b] # "unset" /\ ~Mapped(b)
    BY <1>1, KeyOfAlert, CorrelatorAssumption
    DEF IInv, TakenIsFresh, FlushCount, MappedIsFresh, Mapped
  <2> QED
    BY <1>1, <2>1, WhoChangesAlerts
<1>2. IInv /\ [Next]_vars =>
        [\A b \in Alert : InHand(b) \/ flushes[b] > 0 => alerts'[b] = alerts[b]]_vars
  BY <1>1
<1> QED
  BY Invariance, <1>2, PTL DEF SafeSpec, TakenGroupsAreFrozen
-----------------------------------------------------------------------------
\* The refinement mapping of Correlator!Grouping, by name.
Pending ==
  {p \in Alert : \E b \in Alert : flushes[b] = 0 /\ p \in Range(alerts[b])}

Incidents == {alerts[b] : b \in {c \in Alert : flushes[c] > 0}}

\* A step that adds p to an unflushed bucket, and touches nothing else of the
\* lists, is an Accept step.
LEMMA AddIsAccept ==
  ASSUME IInv, NEW p \in Alert, NEW b0 \in Alert, ~Added(p),
         alerts' \in [Alert -> Seq(Alert)],
         Range(alerts'[b0]) = Range(alerts[b0]) \cup {p},
         \A b \in Alert \ {b0} : alerts'[b] = alerts[b],
         flushes[b0] = 0,
         flushes' = flushes
  PROVE  Grouping!Accept(p)
<1>1. p \notin Pending
  BY DEF Pending, Added
<1>2. \A g \in Incidents : p \notin Range(g)
  BY DEF Incidents, Added
<1>3. Pending' = Pending \cup {p}
  <2>1. \A b \in Alert \ {b0} : Range(alerts'[b]) = Range(alerts[b])
    OBVIOUS
  <2> QED
    BY <2>1 DEF Pending
<1>4. Incidents' = Incidents
  <2>1. {c \in Alert : flushes'[c] > 0} = {c \in Alert : flushes[c] > 0}
    OBVIOUS
  <2>2. \A b \in {c \in Alert : flushes[c] > 0} : alerts'[b] = alerts[b]
    OBVIOUS
  <2> QED
    BY <2>1, <2>2, Zenon DEF Incidents
<1> QED
  BY <1>1, <1>2, <1>3, <1>4
  DEF Grouping!Accept, Grouping!Range, Range, Pending, Incidents

\* A step that counts one flush of an unflushed bucket is a Report step.
LEMMA FlushIsReport ==
  ASSUME IInv, NEW b0 \in Alert, flushes[b0] = 0, timer[b0] # "unset",
         flushes' = [flushes EXCEPT ![b0] = flushes[b0] + 1],
         alerts' = alerts
  PROVE  \E g \in Grouping!Lists(Pending) : Grouping!Report(g)
<1> DEFINE g == alerts[b0]
<1>1. g \in Seq(Alert) /\ g # <<>> /\ Len(g) <= maxGroup
  BY DEF IInv, TypeOK, OpenedByItsName, GroupsAreScoped
<1>2. Len(g) \in 1..maxGroup /\ g \in [1..Len(g) -> Pending]
  <2>1. \A i \in 1..Len(g) : g[i] \in Pending
    BY <1>1 DEF Pending, Range
  <2> QED
    BY <1>1, <2>1, maxGroupPositive
<1>3. g \in Grouping!Lists(Pending)
  BY <1>2 DEF Grouping!Lists
<1>4. \A i, j \in DOMAIN g :
        /\ g[i] = g[j] => i = j
        /\ [p \in Alert |-> groupKey(p)][g[i]] = [p \in Alert |-> groupKey(p)][g[j]]
  <2>1. \A i \in DOMAIN g : g[i] \in Alert /\ groupKey(g[i]) = groupKey(b0)
    BY <1>1 DEF IInv, GroupsAreScoped
  <2>2. \A i, j \in DOMAIN g : g[i] = g[j] => i = j
    BY DEF IInv, OnePlace
  <2> QED
    BY <2>1, <2>2
<1>5. flushes'[b0] = 1 /\ \A b \in Alert \ {b0} : flushes'[b] = flushes[b]
  BY DEF IInv, TypeOK
<1>6. Pending' = Pending \ Range(g)
  <2>1. \A b \in Alert \ {b0} : Range(alerts[b]) \cap Range(g) = {}
    BY DEF IInv, OnePlace, Range
  <2> QED
    BY <1>5, <2>1 DEF Pending
<1>7. Incidents' = Incidents \cup {g}
  <2>1. \A c \in Alert : flushes'[c] > 0 <=> flushes[c] > 0 \/ c = b0
    BY <1>5
  <2> QED
    BY <2>1 DEF Incidents
<1> HIDE DEF g
<1> QED
  BY <1>3, <1>4, <1>6, <1>7
  DEF Grouping!Report, Grouping!Range, Range, Pending, Incidents

\* The initial state maps to an initial state of the abstract specification.
LEMMA InitRefines == Init => Grouping!Init
<1> SUFFICES ASSUME Init PROVE Grouping!Init
  OBVIOUS
<1>1. Pending = {}
  BY DEF Init, Pending, Range
<1>2. Incidents = {}
  BY DEF Init, Incidents
<1> QED
  BY <1>1, <1>2 DEF Grouping!Init, Pending, Incidents

\* Every step maps to a step of the abstract specification or to a stutter.
LEMMA NextRefines ==
  ASSUME IInv, [Next]_vars
  PROVE  [Grouping!Next]_(Grouping!vars)
<1>1. ASSUME NEW p \in Alert, AddOpens(p) PROVE Grouping!Next
  <2>1. alerts' \in [Alert -> Seq(Alert)] /\ flushes' = flushes /\ ~Added(p)
    BY <1>1 DEF AddOpens, IInv, TypeOK
  <2>2. alerts[p] = <<>> /\ flushes[p] = 0
    <3>1. alerts[p] # <<>> /\ alerts[p] \in Seq(Alert) => 1 \in DOMAIN alerts[p]
      OBVIOUS
    <3> QED
      BY <2>1, <3>1
      DEF IInv, OpenedByItsName, FlushCount, TypeOK, Added, Range
  <2>3. alerts'[p] = <<p>> /\ \A b \in Alert \ {p} : alerts'[b] = alerts[b]
    BY <1>1 DEF AddOpens, IInv, TypeOK
  <2>4. Range(alerts'[p]) = Range(alerts[p]) \cup {p}
    BY <2>2, <2>3 DEF Range
  <2> QED
    BY <2>1, <2>2, <2>3, <2>4, AddIsAccept DEF Grouping!Next
<1>2. ASSUME NEW p \in Alert, AddJoins(p) PROVE Grouping!Next
  <2> DEFINE b0 == buckets[groupKey(p)]
  <2>1. b0 \in Alert /\ flushes[b0] = 0
    BY <1>2, KeyOfAlert DEF AddJoins, HasRoom, IInv, MappedIsFresh, TypeOK
  <2>2. alerts' \in [Alert -> Seq(Alert)] /\ flushes' = flushes /\ ~Added(p)
    BY <1>2, <2>1 DEF AddJoins, IInv, TypeOK
  <2>3. alerts[b0] \in Seq(Alert) /\ alerts'[b0] = Append(alerts[b0], p)
    BY <1>2, <2>1 DEF AddJoins, IInv, TypeOK
  <2>4. \A b \in Alert \ {b0} : alerts'[b] = alerts[b]
    BY <1>2, <2>1 DEF AddJoins, IInv, TypeOK
  <2>5. Range(alerts'[b0]) = Range(alerts[b0]) \cup {p}
    BY <2>3 DEF Range
  <2> HIDE DEF b0
  <2> QED
    BY <2>1, <2>2, <2>4, <2>5, AddIsAccept DEF Grouping!Next
<1>3. ASSUME NEW t \in Alert, TimerFlushes(t) PROVE Grouping!Next
  <2>1. taken[t] \in Alert /\ flushes[taken[t]] = 0 /\ timer[taken[t]] # "unset"
    BY <1>3 DEF TimerFlushes, IInv, TypeOK, TakenIsFresh, InHand
  <2>2. \E g \in Grouping!Lists(Pending) : Grouping!Report(g)
    BY <1>3, <2>1, FlushIsReport DEF TimerFlushes
  <2> QED
    BY <2>2 DEF Grouping!Next, Pending
<1>4. ASSUME DrainFlushes PROVE Grouping!Next
  <2>1. drainTaken \in Alert /\ flushes[drainTaken] = 0 /\ timer[drainTaken] # "unset"
    BY <1>4 DEF DrainFlushes, IInv, TypeOK, TakenIsFresh, InHand
  <2>2. \E g \in Grouping!Lists(Pending) : Grouping!Report(g)
    BY <1>4, <2>1, FlushIsReport DEF DrainFlushes
  <2> QED
    BY <2>2 DEF Grouping!Next, Pending
<1>5. ASSUME alerts' = alerts, flushes' = flushes PROVE UNCHANGED Grouping!vars
  <2>1. Pending' = Pending /\ Incidents' = Incidents
    BY <1>5 DEF Pending, Incidents
  <2> QED
    BY <2>1 DEF Grouping!vars, Pending, Incidents
<1> QED
  BY <1>1, <1>2, <1>3, <1>4, <1>5
  DEF Next, vars, TimerExpires, TimerTakes, DrainBegins, DrainSteps, DrainTakes,
      DrainEnds

\* The correlator implements the grouping it promises: every accepted alert is
\* in at most one incident, and every incident is a duplicate-free list of
\* accepted alerts of one scope within the size limit.
THEOREM Refinement == SafeSpec => ImplementsGrouping
BY Invariance, InitRefines, NextRefines, PTL
DEF SafeSpec, ImplementsGrouping, Grouping!SafeSpec
-----------------------------------------------------------------------------
(* Shutdown. *)

\* Main is past a point of the sequence.
PastSigned == {"closing grpc", "draining", "waiting", "clean", "timedout"}
PastGRPC == PastSigned \ {"closing grpc"}
PastDrain == PastGRPC \ {"draining"}

\* The goroutines that the WaitGroup counts.
Open == {p \in Alert : stage[p] \in {"queued", "direct"}}

ShutdownTypeOK ==
  /\ stage \in [Alert -> {"none", "request", "refused", "queued", "duplicate",
                          "buffered", "direct", "delivered"}]
  /\ main \in {"serving", "closing public", "closing signed", "failed"} \cup PastSigned
  /\ deadline \in BOOLEAN
  /\ waited \in BOOLEAN

\* The WaitGroup counts them.
Counted == IsFiniteSet(Open) /\ wg = Cardinality(Open)

\* A buffered alert is in a bucket.
BufferedIsAdded == \A p \in Alert : stage[p] = "buffered" => Added(p)

\* Before the deadline a transport that was closed has no request left.
ClosedIsQuiet ==
  ~deadline => /\ main \in PastSigned => ~Busy("signed")
               /\ main \in PastGRPC => ~Busy("grpc")

\* Before the deadline nothing is in processing once Wait has returned.
WaitedIsDone ==
  /\ main = "clean" => waited
  /\ waited => main \in PastDrain
  /\ waited /\ ~deadline => Open = {}

\* Drain has returned, and visited every key it collected.
DrainIsDone ==
  /\ main \in PastDrain => drain = "done"
  /\ drain = "done" => drainKeys = {} /\ drainTaken = NoBucket

\* A bucket in the map that has an alert from before Drain is one that Drain
\* still has to visit.
EarlyIsCollected ==
  drain # "idle" =>
    \A b \in Alert : Mapped(b) /\ ~(Range(alerts[b]) \subseteq late)
                       => groupKey(b) \in drainKeys

\* The inductive invariant of Shutdown.
SInv ==
  /\ IInv
  /\ ShutdownTypeOK
  /\ Counted
  /\ BufferedIsAdded
  /\ ClosedIsQuiet
  /\ WaitedIsDone
  /\ DrainIsDone
  /\ EarlyIsCollected
-----------------------------------------------------------------------------
\* For the correlator every step of Shutdown is one of its own, or none.
LEMMA StepIsCorrelators == [ShutdownNext]_allVars => [Next]_vars
<1> SUFFICES ASSUME [ShutdownNext]_allVars PROVE [Next]_vars
  OBVIOUS
<1>1. ASSUME NEW p \in Alert,
             RequestArrives(p) \/ RequestRejected(p) \/ Ingest(p) \/ ProcessDuplicate(p)
             \/ ProcessDirect(p) \/ DeliverDirect(p)
      PROVE  UNCHANGED vars
  BY <1>1 DEF RequestArrives, RequestRejected, Ingest, ProcessDuplicate, ProcessDirect, DeliverDirect
<1>2. ASSUME NEW p \in Alert, ProcessBuffers(p) \/ TimerStep(p) PROVE Next
  BY <1>2 DEF ProcessBuffers, TimerStep, Next
<1>3. CASE ServeFails \/ Signal \/ DeadlinePasses
  BY <1>3 DEF ServeFails, Signal, DeadlinePasses
<1>4. CASE PublicClosed \/ SignedClosed \/ GRPCClosed \/ WaitReturns \/ ExitClean \/ ExitTimedOut
  BY <1>4 DEF PublicClosed, SignedClosed, GRPCClosed, WaitReturns, ExitClean, ExitTimedOut
<1>5. CASE MainDrains
  BY <1>5 DEF MainDrains, Next
<1>6. CASE UNCHANGED allVars
  BY <1>6 DEF allVars
<1> QED
  BY <1>1, <1>2, <1>3, <1>4, <1>5, <1>6 DEF ShutdownNext, MainSteps

\* The composition implements its component: whatever is proved of the correlator
\* holds of it inside the brain, from the first request to the exit of main.
THEOREM ImplementsCorrelator == ShutdownSafeSpec => SafeSpec
<1>1. ShutdownInit => Init
  BY DEF ShutdownInit
<1> QED
  BY <1>1, StepIsCorrelators, PTL DEF ShutdownSafeSpec, SafeSpec

\* Appending to a bucket's list adds one alert.
LEMMA AppendAdds ==
  ASSUME NEW q \in Seq(Alert), NEW p \in Alert
  PROVE  Range(Append(q, p)) = Range(q) \cup {p}
<1>1. Append(q, p) \in Seq(Alert) /\ Len(Append(q, p)) = Len(q) + 1 /\ Append(q, p)[Len(q) + 1] = p
  OBVIOUS
<1>2. \A i \in 1..Len(q) : Append(q, p)[i] = q[i]
  OBVIOUS
<1>3. DOMAIN q = 1..Len(q) /\ DOMAIN Append(q, p) = 1..Len(q) + 1 /\ Len(q) \in Nat
  OBVIOUS
<1> DEFINE r == Append(q, p)
<1> HIDE DEF r
<1>4. \A i \in 1..Len(q) + 1 : i \in 1..Len(q) \/ i = Len(q) + 1
  BY <1>3
<1>5. \A i \in 1..Len(q) : i \in 1..Len(q) + 1
  BY <1>3
<1>6. Len(q) + 1 \in 1..Len(q) + 1
  BY <1>3
<1> QED
  BY <1>1, <1>2, <1>3, <1>4, <1>5, <1>6 DEF Range, r

\* No step of the correlator takes an alert out of a bucket.
LEMMA AddedStays ==
  ASSUME IInv, [Next]_vars, NEW b \in Alert
  PROVE  Range(alerts[b]) \subseteq Range(alerts'[b])
<1>1. ASSUME NEW p \in Alert, AddOpens(p) PROVE Range(alerts[b]) \subseteq Range(alerts'[b])
  <2>1. alerts[p] = <<>>
    <3> SUFFICES ASSUME alerts[p] # <<>> PROVE FALSE
      OBVIOUS
    <3>1. alerts[p] \in Seq(Alert) /\ alerts[p][1] = p
      BY DEF IInv, OpenedByItsName, TypeOK
    <3>2. 1 \in DOMAIN alerts[p]
      BY <3>1
    <3> QED
      BY <1>1, <3>1, <3>2 DEF AddOpens, Added, Range
  <2>2. b # p => alerts'[b] = alerts[b]
    BY <1>1 DEF AddOpens, IInv, TypeOK
  <2>3. Range(<<>>) = {}
    BY DEF Range
  <2> QED
    BY <2>1, <2>2, <2>3
<1>2. ASSUME NEW p \in Alert, AddJoins(p) PROVE Range(alerts[b]) \subseteq Range(alerts'[b])
  <2>1. alerts \in [Alert -> Seq(Alert)]
    BY DEF IInv, TypeOK
  <2>2. alerts'[b] = alerts[b] \/ alerts'[b] = Append(alerts[b], p)
    BY <1>2, <2>1 DEF AddJoins
  <2> QED
    BY <2>1, <2>2, AppendAdds
<1>3. ASSUME alerts' = alerts PROVE Range(alerts[b]) \subseteq Range(alerts'[b])
  BY <1>3
<1> QED
  BY <1>1, <1>2, <1>3 DEF Next, vars, TimerExpires, TimerTakes, TimerFlushes, DrainBegins,
     DrainSteps, DrainTakes, DrainFlushes, DrainEnds

\* The initial state satisfies the invariant.
LEMMA InitSInv == ShutdownInit => SInv
<1> SUFFICES ASSUME ShutdownInit PROVE SInv
  OBVIOUS
<1>1. Open = {}
  BY DEF ShutdownInit, Open
<1> QED
  BY <1>1, InitIInv, FS_EmptySet
  DEF ShutdownInit, SInv, ShutdownTypeOK, Counted, BufferedIsAdded, ClosedIsQuiet, WaitedIsDone,
      DrainIsDone, EarlyIsCollected, PastSigned, PastGRPC, PastDrain, Init

\* A goroutine is started or ends: the count follows.
LEMMA CountStep ==
  ASSUME Counted, ShutdownTypeOK, NEW p \in Alert, NEW to,
         stage' = [stage EXCEPT ![p] = to],
         wg' = wg + (IF to \in {"queued", "direct"} THEN 1 ELSE 0)
                  - (IF stage[p] \in {"queued", "direct"} THEN 1 ELSE 0)
  PROVE  Counted'
<1>0. wg \in Nat /\ IsFiniteSet(Open) /\ wg = Cardinality(Open)
  BY FS_CardinalityType DEF Counted
<1>1. p \in Open <=> stage[p] \in {"queued", "direct"}
  BY DEF Open
<1>2. CASE to \in {"queued", "direct"}
  <2>1. Open' = Open \cup {p}
    BY <1>2 DEF Open, ShutdownTypeOK
  <2>2. /\ IsFiniteSet(Open \cup {p})
        /\ Cardinality(Open \cup {p}) = IF p \in Open THEN wg ELSE wg + 1
    BY <1>0, FS_AddElement
  <2>3. wg' = IF p \in Open THEN wg ELSE wg + 1
    BY <1>0, <1>1, <1>2
  <2> QED
    BY <2>1, <2>2, <2>3 DEF Counted
<1>3. CASE to \notin {"queued", "direct"}
  <2>1. Open' = Open \ {p}
    BY <1>3 DEF Open, ShutdownTypeOK
  <2>2. /\ IsFiniteSet(Open \ {p})
        /\ Cardinality(Open \ {p}) = IF p \in Open THEN wg - 1 ELSE wg
    BY <1>0, FS_RemoveElement
  <2>3. wg' = IF p \in Open THEN wg - 1 ELSE wg
    BY <1>0, <1>1, <1>3
  <2> QED
    BY <2>1, <2>2, <2>3 DEF Counted
<1> QED
  BY <1>2, <1>3

\* Every step of the correlator keeps Drain's promise, as long as what is added
\* after Drain began is noted as late.
LEMMA CorrelatorStep ==
  ASSUME SInv, late \subseteq late',
         \/ \E p \in Alert : (AddOpens(p) \/ AddJoins(p)) /\ (drain = "idle" \/ p \in late')
         \/ \E t \in Alert : TimerExpires(t) \/ TimerTakes(t) \/ TimerFlushes(t)
         \/ DrainBegins \/ DrainSteps \/ UNCHANGED vars
  PROVE  EarlyIsCollected' /\ (drain' = "done" => drainKeys' = {} /\ drainTaken' = NoBucket)
<1> DEFINE Early(b) == Mapped(b) /\ ~(Range(alerts[b]) \subseteq late)
           Goal == EarlyIsCollected' /\ (drain' = "done" => drainKeys' = {} /\ drainTaken' = NoBucket)
<1>0. /\ IInv /\ TypeOK
      /\ drain # "idle" => \A b \in Alert : Early(b) => groupKey(b) \in drainKeys
      /\ drain = "done" => drainKeys = {} /\ drainTaken = NoBucket
  BY DEF SInv, IInv, DrainIsDone, EarlyIsCollected
<1>1. ASSUME UNCHANGED <<drain, drainKeys, drainTaken>>,
             drain # "idle" => \A b \in Alert : Early(b)' => Early(b)
      PROVE  Goal
  BY <1>0, <1>1 DEF EarlyIsCollected
<1>2. ASSUME NEW p \in Alert, AddOpens(p), drain = "idle" \/ p \in late' PROVE Goal
  <2>1. alerts \in [Alert -> Seq(Alert)] /\ buckets \in [Key -> Alert \cup {NoBucket}]
    BY <1>0 DEF TypeOK
  <2>2. alerts'[p] = <<p>> /\ Range(<<p>>) = {p}
    BY <1>2, <2>1 DEF AddOpens, Range
  <2>3. \A b \in Alert \ {p} : alerts'[b] = alerts[b] /\ (Mapped(b)' => Mapped(b))
    BY <1>2, <2>1, KeyOfAlert DEF AddOpens, Mapped
  <2>4. drain # "idle" => \A b \in Alert : Early(b)' => Early(b)
    BY <1>2, <2>2, <2>3
  <2>5. UNCHANGED <<drain, drainKeys, drainTaken>>
    BY <1>2 DEF AddOpens
  <2> QED
    BY <1>1, <2>4, <2>5
<1>3. ASSUME NEW p \in Alert, AddJoins(p), drain = "idle" \/ p \in late' PROVE Goal
  <2>1. alerts \in [Alert -> Seq(Alert)]
    BY <1>0 DEF TypeOK
  <2>2. \A b \in Alert : alerts'[b] = alerts[b] \/ alerts'[b] = Append(alerts[b], p)
    BY <1>3, <2>1 DEF AddJoins
  <2>3. \A b \in Alert : Range(alerts'[b]) \subseteq Range(alerts[b]) \cup {p}
    BY <2>1, <2>2, AppendAdds
  <2>4. \A b \in Alert : Mapped(b)' => Mapped(b)
    BY <1>3 DEF AddJoins, Mapped
  <2>5. drain # "idle" => \A b \in Alert : Early(b)' => Early(b)
    BY <1>3, <2>3, <2>4
  <2>6. UNCHANGED <<drain, drainKeys, drainTaken>>
    BY <1>3 DEF AddJoins
  <2> QED
    BY <1>1, <2>5, <2>6
<1>4. ASSUME NEW t \in Alert, TimerExpires(t) \/ TimerTakes(t) \/ TimerFlushes(t) PROVE Goal
  <2>1. UNCHANGED <<alerts, drain, drainKeys, drainTaken>>
    BY <1>4 DEF TimerExpires, TimerTakes, TimerFlushes
  <2>2. \A b \in Alert : Mapped(b)' => Mapped(b)
    BY <1>0, <1>4, KeyOfAlert, CorrelatorAssumption
    DEF TimerExpires, TimerTakes, TimerFlushes, flushKey, Mapped, TypeOK
  <2> QED
    BY <1>1, <2>1, <2>2
<1>5. CASE DrainBegins
  <2>1. /\ drainKeys' = {k \in Key : buckets[k] # NoBucket} /\ drain' = "running"
        /\ UNCHANGED buckets
    BY <1>5 DEF DrainBegins
  <2>2. \A b \in Alert : Mapped(b)' => groupKey(b) \in drainKeys'
    BY <2>1, KeyOfAlert, CorrelatorAssumption DEF Mapped
  <2> QED
    BY <2>1, <2>2 DEF EarlyIsCollected
<1>6. ASSUME NEW k \in drainKeys, DrainTakes(k) PROVE Goal
  <2>1. /\ drain = "running" /\ drain' = drain /\ drainKeys' = drainKeys \ {k}
        /\ UNCHANGED alerts /\ buckets' = [buckets EXCEPT ![k] = NoBucket]
    BY <1>6 DEF DrainTakes, flushKey
  <2>2. \A b \in Alert : Mapped(b)' => Mapped(b) /\ groupKey(b) # k
    BY <1>0, <2>1, KeyOfAlert, CorrelatorAssumption DEF Mapped, TypeOK
  <2>3. \A b \in Alert : Early(b)' => groupKey(b) \in drainKeys'
    BY <1>0, <2>1, <2>2
  <2> QED
    BY <2>1, <2>3 DEF EarlyIsCollected
<1>7. CASE DrainFlushes
  <2>1. UNCHANGED <<alerts, buckets, drain, drainKeys>> /\ drainTaken # NoBucket
    BY <1>7 DEF DrainFlushes
  <2>2. \A b \in Alert : Early(b)' => Early(b)
    BY <2>1 DEF Mapped
  <2> QED
    BY <1>0, <2>1, <2>2 DEF EarlyIsCollected
<1>8. CASE DrainEnds
  <2>1. UNCHANGED <<alerts, buckets, drainKeys, drainTaken>> /\ drain = "running"
        /\ drainKeys = {} /\ drainTaken = NoBucket
    BY <1>8 DEF DrainEnds
  <2>2. \A b \in Alert : Early(b)' => Early(b)
    BY <2>1 DEF Mapped
  <2> QED
    BY <1>0, <2>1, <2>2 DEF EarlyIsCollected
<1>9. CASE UNCHANGED vars
  <2>1. UNCHANGED <<alerts, buckets, drain, drainKeys, drainTaken>>
    BY <1>9 DEF vars
  <2>2. \A b \in Alert : Early(b)' => Early(b)
    BY <2>1 DEF Mapped
  <2> QED
    BY <1>1, <2>1, <2>2
<1> QED
  BY <1>2, <1>3, <1>4, <1>5, <1>6, <1>7, <1>8, <1>9 DEF DrainSteps

\* An alert moves on, and main does not.
LEMMA AlertStep ==
  ASSUME SInv, NEW p \in Alert, NEW to \in {"request", "refused", "queued", "duplicate", "buffered",
                                            "direct", "delivered"},
         stage' = [stage EXCEPT ![p] = to], UNCHANGED mainVars,
         wg' = wg + (IF to \in {"queued", "direct"} THEN 1 ELSE 0)
                  - (IF stage[p] \in {"queued", "direct"} THEN 1 ELSE 0),
         to = "request" => Listening(p.via),
         to \in {"queued", "direct"} => stage[p] \in {"request", "queued"}
  PROVE  ShutdownTypeOK' /\ Counted' /\ ClosedIsQuiet' /\ WaitedIsDone'
<1>0. UNCHANGED <<main, deadline, waited>>
  BY DEF mainVars
<1>1. ShutdownTypeOK'
  BY <1>0 DEF SInv, ShutdownTypeOK
<1>2. Counted'
  <2>1. Counted /\ ShutdownTypeOK
    BY DEF SInv
  <2> QED
    BY <2>1, CountStep
<1>3. \A q \in Alert : stage'[q] = IF q = p THEN to ELSE stage[q]
  BY DEF SInv, ShutdownTypeOK
<1>4. main \in PastSigned => ~(to = "request")
  BY DEF Listening, PastSigned
<1>5. main \in PastSigned => \A x \in {"signed", "grpc"} : Busy(x)' => Busy(x)
  BY <1>3, <1>4 DEF Busy
<1>6. ClosedIsQuiet'
  BY <1>0, <1>5 DEF SInv, ClosedIsQuiet, PastGRPC
<1>7. WaitedIsDone'
  <2>1. ASSUME waited, ~deadline PROVE Open' = {}
    <3>1. main \in PastDrain /\ Open = {}
      BY <2>1 DEF SInv, WaitedIsDone
    <3>2. ~Busy("signed") /\ ~Busy("grpc")
      BY <2>1, <3>1 DEF SInv, ClosedIsQuiet, PastDrain, PastGRPC
    <3>3. stage[p] \notin {"request", "queued"}
      BY <3>1, <3>2, ShutdownAssumption DEF Busy, Open
    <3> QED
      BY <1>3, <3>1, <3>3 DEF Open
  <2> QED
    BY <1>0, <2>1 DEF SInv, WaitedIsDone
<1> QED
  BY <1>1, <1>2, <1>6, <1>7

\* Every step of Shutdown preserves the invariant.
LEMMA NextSInv == SInv /\ [ShutdownNext]_allVars => SInv'
<1> SUFFICES ASSUME SInv, [ShutdownNext]_allVars PROVE SInv'
  OBVIOUS
<1>0. IInv' /\ [Next]_vars
  BY StepIsCorrelators, NextIInv DEF SInv
<1>a. \A b \in Alert : Range(alerts[b]) \subseteq Range(alerts'[b])
  BY <1>0, AddedStays DEF SInv
<1>b. wg \in Nat /\ wg = wg + 0 - 0
  BY FS_CardinalityType DEF SInv, Counted
<1>1. ASSUME UNCHANGED <<vars, late>>
      PROVE  EarlyIsCollected' /\ (drain' = "done" => drainKeys' = {} /\ drainTaken' = NoBucket)
  BY <1>1, CorrelatorStep
<1>2. ASSUME NEW p \in Alert,
             RequestArrives(p) \/ RequestRejected(p) \/ Ingest(p) \/ ProcessDuplicate(p)
             \/ ProcessDirect(p) \/ DeliverDirect(p)
      PROVE  SInv'
  <2>1. UNCHANGED <<vars, late, mainVars>>
    BY <1>2 DEF RequestArrives, RequestRejected, Ingest, ProcessDuplicate, ProcessDirect, DeliverDirect
  <2>2. PICK to \in {"request", "refused", "queued", "duplicate", "direct", "delivered"} :
          /\ stage' = [stage EXCEPT ![p] = to]
          /\ wg' = wg + (IF to \in {"queued", "direct"} THEN 1 ELSE 0)
                      - (IF stage[p] \in {"queued", "direct"} THEN 1 ELSE 0)
          /\ to = "request" => Listening(p.via)
          /\ to \in {"queued", "direct"} => stage[p] \in {"request", "queued"}
    <3>1. CASE RequestArrives(p)
      BY <1>b, <3>1 DEF RequestArrives
    <3>2. CASE RequestRejected(p)
      BY <1>b, <3>2 DEF RequestRejected
    <3>3. CASE Ingest(p)
      BY <1>b, <3>3 DEF Ingest
    <3>4. CASE ProcessDuplicate(p)
      BY <1>b, <3>4 DEF ProcessDuplicate
    <3>5. CASE ProcessDirect(p)
      BY <1>b, <3>5 DEF ProcessDirect
    <3>6. CASE DeliverDirect(p)
      BY <1>b, <3>6 DEF DeliverDirect
    <3> QED
      BY <1>2, <3>1, <3>2, <3>3, <3>4, <3>5, <3>6
  <2>3. ShutdownTypeOK' /\ Counted' /\ ClosedIsQuiet' /\ WaitedIsDone'
    BY <2>1, <2>2, AlertStep
  <2>4. BufferedIsAdded'
    <3>1. \A q \in Alert : stage'[q] = "buffered" => stage[q] = "buffered"
      BY <2>2 DEF SInv, ShutdownTypeOK
    <3> QED
      BY <1>a, <3>1 DEF SInv, BufferedIsAdded, Added
  <2>5. DrainIsDone' /\ EarlyIsCollected'
    BY <1>1, <2>1 DEF SInv, DrainIsDone, mainVars, vars
  <2> QED
    BY <1>0, <2>3, <2>4, <2>5 DEF SInv
<1>3. ASSUME NEW p \in Alert, ProcessBuffers(p) PROVE SInv'
  <2>1. /\ stage[p] = "queued" /\ stage' = [stage EXCEPT ![p] = "buffered"] /\ wg' = wg - 1
        /\ AddOpens(p) \/ AddJoins(p)
        /\ late' = IF drain = "idle" THEN late ELSE late \cup {p}
        /\ UNCHANGED mainVars /\ drain' = drain
    BY <1>3 DEF ProcessBuffers, AddOpens, AddJoins
  <2>2. ShutdownTypeOK' /\ Counted' /\ ClosedIsQuiet' /\ WaitedIsDone'
    <3>1. wg' = wg + 0 - 1
      BY <1>b, <2>1
    <3> QED
      BY <2>1, <3>1, AlertStep
  <2>3. Added(p)'
    <3>1. CASE AddOpens(p)
      <4>1. alerts'[p] = <<p>>
        BY <3>1 DEF AddOpens, SInv, IInv, TypeOK
      <4> QED
        BY <4>1 DEF Added, Range
    <3>2. CASE AddJoins(p)
      <4> DEFINE b0 == buckets[groupKey(p)]
      <4>1. b0 \in Alert /\ alerts[b0] \in Seq(Alert)
        BY <3>2, KeyOfAlert DEF AddJoins, HasRoom, SInv, IInv, TypeOK
      <4>2. alerts'[b0] = Append(alerts[b0], p)
        BY <3>2, <4>1 DEF AddJoins, SInv, IInv, TypeOK
      <4>3. p \in Range(alerts'[b0])
        BY <4>1, <4>2, AppendAdds
      <4> QED
        BY <4>1, <4>3 DEF Added
    <3> QED
      BY <2>1, <3>1, <3>2
  <2>4. BufferedIsAdded'
    <3>1. \A q \in Alert : q # p /\ stage'[q] = "buffered" => stage[q] = "buffered"
      BY <2>1 DEF SInv, ShutdownTypeOK
    <3> QED
      BY <1>a, <2>3, <3>1 DEF SInv, BufferedIsAdded, Added
  <2>5. EarlyIsCollected' /\ (drain' = "done" => drainKeys' = {} /\ drainTaken' = NoBucket)
    BY <2>1, CorrelatorStep
  <2>6. DrainIsDone'
    BY <2>1, <2>5 DEF SInv, DrainIsDone, mainVars
  <2> QED
    BY <1>0, <2>2, <2>4, <2>5, <2>6 DEF SInv
<1>c. ASSUME UNCHANGED <<stage, wg>> PROVE Counted' /\ BufferedIsAdded'
  <2>1. Open' = Open
    BY <1>c DEF Open
  <2> QED
    BY <1>a, <1>c, <2>1 DEF SInv, Counted, BufferedIsAdded, Added
<1>d. ASSUME UNCHANGED <<stage, mainVars>> PROVE ShutdownTypeOK' /\ ClosedIsQuiet' /\ WaitedIsDone'
  BY <1>d DEF SInv, ShutdownTypeOK, ClosedIsQuiet, WaitedIsDone, Busy, Open, mainVars
<1>4. ASSUME NEW t \in Alert, TimerStep(t) PROVE SInv'
  <2>1. UNCHANGED <<stage, wg, mainVars, late, drain>>
    BY <1>4 DEF TimerStep, TimerExpires, TimerTakes, TimerFlushes
  <2>2. EarlyIsCollected' /\ (drain' = "done" => drainKeys' = {} /\ drainTaken' = NoBucket)
    BY <1>4, <2>1, CorrelatorStep DEF TimerStep
  <2>3. DrainIsDone'
    BY <2>1, <2>2 DEF SInv, DrainIsDone, mainVars
  <2> QED
    BY <1>0, <1>c, <1>d, <2>1, <2>2, <2>3 DEF SInv
<1>5. CASE UNCHANGED allVars
  <2>1. UNCHANGED <<vars, stage, wg, mainVars, late>>
    BY <1>5 DEF allVars
  <2>2. DrainIsDone'
    BY <2>1 DEF SInv, DrainIsDone, mainVars, vars
  <2> QED
    BY <1>0, <1>1, <1>c, <1>d, <2>1, <2>2 DEF SInv
<1>6. ASSUME ServeFails \/ Signal \/ DeadlinePasses \/ PublicClosed \/ SignedClosed \/ GRPCClosed
             \/ WaitReturns \/ ExitClean \/ ExitTimedOut
      PROVE  SInv'
  <2>1. UNCHANGED <<vars, stage, wg, late>>
    BY <1>6 DEF ServeFails, Signal, DeadlinePasses, PublicClosed, SignedClosed, GRPCClosed,
       WaitReturns, ExitClean, ExitTimedOut
  <2>2. ShutdownTypeOK'
    BY <1>6, <2>1 DEF SInv, ShutdownTypeOK, PastSigned, ServeFails, Signal, DeadlinePasses, PublicClosed,
       SignedClosed, GRPCClosed, WaitReturns, ExitClean, ExitTimedOut
  <2>3. \A x \in {"signed", "grpc"} : Busy(x)' <=> Busy(x)
    BY <2>1 DEF Busy
  <2>4. ClosedIsQuiet'
    BY <1>6, <2>3 DEF SInv, ShutdownTypeOK, ClosedIsQuiet, PastSigned, PastGRPC, ServeFails, Signal,
       DeadlinePasses, PublicClosed, SignedClosed, GRPCClosed, WaitReturns, ExitClean, ExitTimedOut
  <2>5. WaitedIsDone'
    <3>1. Open' = Open
      BY <2>1 DEF Open
    <3>2. CASE WaitReturns
      <4>1. IsFiniteSet(Open) /\ Cardinality(Open) = 0
        BY <3>2 DEF SInv, Counted, WaitReturns
      <4>2. Open = {}
        BY <4>1, FS_EmptySet
      <4> QED
        BY <3>1, <3>2, <4>2 DEF WaitedIsDone, WaitReturns, PastDrain, PastGRPC, PastSigned
    <3>3. CASE ServeFails \/ Signal \/ PublicClosed \/ SignedClosed \/ GRPCClosed
      <4>1. waited' = waited /\ main' # "clean" /\ main \notin PastDrain
        BY <3>3 DEF ServeFails, Signal, PublicClosed, SignedClosed, GRPCClosed, PastSigned, PastGRPC,
                    PastDrain
      <4> QED
        BY <4>1 DEF SInv, WaitedIsDone
    <3>4. CASE DeadlinePasses
      BY <3>4 DEF SInv, WaitedIsDone, DeadlinePasses
    <3>5. CASE ExitClean \/ ExitTimedOut
      <4>1. UNCHANGED <<waited, deadline>> /\ main' \in PastDrain /\ (main' = "clean" => waited)
        BY <3>5 DEF ExitClean, ExitTimedOut, PastSigned, PastGRPC, PastDrain
      <4> QED
        BY <3>1, <4>1 DEF SInv, WaitedIsDone
    <3> QED
      BY <1>6, <3>2, <3>3, <3>4, <3>5
  <2>6. DrainIsDone'
    BY <1>6, <2>1 DEF SInv, DrainIsDone, PastSigned, PastGRPC, PastDrain, vars, ServeFails, Signal,
       DeadlinePasses, PublicClosed, SignedClosed, GRPCClosed, WaitReturns, ExitClean, ExitTimedOut
  <2> QED
    BY <1>0, <1>1, <1>c, <2>1, <2>2, <2>4, <2>5, <2>6 DEF SInv
<1>7. CASE MainDrains
  <2>1. /\ UNCHANGED <<stage, wg, deadline, waited, late>> /\ main = "draining"
        /\ main' = IF drain' = "done" THEN "waiting" ELSE main
        /\ DrainBegins \/ DrainSteps
    BY <1>7 DEF MainDrains
  <2>2. EarlyIsCollected' /\ (drain' = "done" => drainKeys' = {} /\ drainTaken' = NoBucket)
    BY <2>1, CorrelatorStep
  <2>3. ~waited
    BY <2>1 DEF SInv, WaitedIsDone, PastDrain
  <2>4. ShutdownTypeOK' /\ WaitedIsDone'
    BY <2>1, <2>3 DEF SInv, ShutdownTypeOK, WaitedIsDone, PastSigned, PastGRPC, PastDrain
  <2>5. ClosedIsQuiet'
    BY <2>1 DEF SInv, ClosedIsQuiet, Busy, PastSigned, PastGRPC
  <2>6. DrainIsDone'
    BY <2>1, <2>2 DEF DrainIsDone, PastSigned, PastGRPC, PastDrain
  <2> QED
    BY <1>0, <1>c, <2>1, <2>2, <2>4, <2>5, <2>6 DEF SInv
<1> QED
  BY <1>2, <1>3, <1>4, <1>5, <1>6, <1>7 DEF ShutdownNext, MainSteps

\* Every reachable state of Shutdown satisfies the invariant.
THEOREM ShutdownInvariance == ShutdownSafeSpec => []SInv
  BY InitSInv, NextSInv, PTL DEF ShutdownSafeSpec

\* main.go:352-353: when run reports "drained cleanly" before the deadline, every
\* acknowledged alert that is lost was added after Drain began, was in the hands
\* of a timer, or sat in a displaced bucket.
THEOREM CleanExitLosses == ShutdownSafeSpec => []CleanExitLossIsExplained
<1>1. SInv => CleanExitLossIsExplained
  <2> SUFFICES ASSUME SInv, main = "clean", ~deadline, NEW p \in Alert, Undelivered(p)
               PROVE  /\ stage[p] = "buffered"
                      /\ \/ p \in late
                         \/ \E b \in Alert : /\ p \in Range(alerts[b])
                                             /\ \/ Displaced(b)
                                                \/ \E t \in Alert : taken[t] = b
    BY DEF CleanExitLossIsExplained
  <2>1. waited /\ Open = {} /\ drain = "done" /\ drainKeys = {} /\ drainTaken = NoBucket
    BY DEF SInv, WaitedIsDone, DrainIsDone, PastSigned, PastGRPC, PastDrain
  <2>2. stage[p] = "buffered"
    BY <2>1 DEF Undelivered, Open
  <2>3. PICK b \in Alert : p \in Range(alerts[b])
    BY <2>2 DEF SInv, BufferedIsAdded, Added
  <2>4. flushes[b] = 0
    BY <2>1, <2>2, <2>3 DEF Undelivered
  <2>5. timer[b] # "unset"
    <3>1. Range(<<>>) = {}
      BY DEF Range
    <3> QED
      BY <2>3, <3>1 DEF SInv, IInv, OpenedByItsName
  <2>6. ASSUME p \notin late PROVE ~Mapped(b)
    BY <2>1, <2>3, <2>6 DEF SInv, EarlyIsCollected
  <2>7. ASSUME InHand(b) PROVE \E t \in Alert : taken[t] = b
    BY <2>1, <2>7, CorrelatorAssumption DEF InHand
  <2> QED
    BY <2>2, <2>3, <2>4, <2>5, <2>6, <2>7 DEF Displaced
<1> QED
  BY <1>1, ShutdownInvariance, PTL
=============================================================================
