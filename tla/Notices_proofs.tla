---------------------------- MODULE Notices_proofs ----------------------------
(***************************************************************************)
(* Proofs about Dedup and Notices, for every window and every story that   *)
(* AlertManager may tell.                                                  *)
(***************************************************************************)
EXTENDS Notices, WellFoundedInduction, TLAPS

Stage == {"sent to us", "locking", "fresh", "duplicate", "delivered", "lost"}

\* The stages of an arrival that Dedup has let through.
Passed == {"fresh", "delivered", "lost"}

\* The key of arrival a's marker.
mark(a) == key(payloadOf[a])

\* When a marker that is stored at time w expires.
Until(w) == IF Window = 0 THEN 0 ELSE w + Window

TypeOK ==
  /\ payloadOf \in Story
  /\ redis \in BOOLEAN
  /\ now \in Nat \ {0}
  /\ items \in [{mark(a) : a \in Arrival} -> Item \cup {NoItem}]
  /\ st \in [Arrival -> Stage]
  /\ seen \in [Arrival -> 0..now]
  /\ wrote \in [Arrival -> 0..now]
  /\ incident \in [Keys -> BOOLEAN]
  /\ overtook \in [Keys -> BOOLEAN]

\* An arrival that has not been to the store has no marker.
NotYet == \A a \in Arrival : st[a] \in {"sent to us", "locking"} => wrote[a] = 0

\* For a window after it was stored, a marker is in the store.
Marked ==
  \A a \in Arrival : wrote[a] # 0 /\ Covers(wrote[a], now) =>
    /\ items[mark(a)] # NoItem
    /\ IF Window = 0 THEN items[mark(a)].expiresAt = 0
                     ELSE items[mark(a)].expiresAt >= wrote[a] + Window

\* Every marker was stored for an arrival that was let through.
MarkHasWriter ==
  \A b \in Arrival : items[mark(b)] # NoItem =>
    \E a \in Arrival :
      /\ mark(a) = mark(b) /\ wrote[a] # 0 /\ st[a] \in Passed
      /\ items[mark(b)].expiresAt = Until(wrote[a])

\* A duplicate is a duplicate of something that was let through.
DuplicateHasOriginal ==
  \A b \in Arrival : st[b] = "duplicate" =>
    \E a \in Arrival \ {b} : SameNotice(a, b) /\ st[a] \in Passed

\* Unless a delivery overtook another one, what was sent before a delivered
\* arrival has been dealt with.
DeliveredInOrder ==
  \A a, b \in Arrival :
    /\ a < b /\ dedupKey(a) = dedupKey(b)
    /\ ~overtook[dedupKey(b)] /\ st[b] = "delivered"
    => Ended(a)

\* The incident is as the latest of the delivered arrivals says.
Latest(a) ==
  /\ st[a] = "delivered"
  /\ \A b \in Arrival : dedupKey(b) = dedupKey(a) /\ st[b] = "delivered" => b <= a
IncidentIsLatest ==
  \A a \in Arrival :
    /\ Latest(a) /\ ~overtook[dedupKey(a)]
    /\ \A b \in Arrival : dedupKey(b) = dedupKey(a) => st[b] # "lost"
    => incident[dedupKey(a)] = (payloadOf[a].status = "firing")

\* The inductive invariant.
IInv ==
  /\ TypeOK
  /\ NotYet
  /\ Marked
  /\ MarkHasWriter
  /\ OncePerWindow
  /\ DuplicateHasOriginal
  /\ DeliveredInOrder
  /\ IncidentIsLatest
-----------------------------------------------------------------------------
\* Two arrivals have the same marker if and only if they carry the same notice:
\* key and resolvedKey (dedup.go) neither merge notices nor split one.
LEMMA MarkIsNotice ==
  ASSUME TypeOK, NEW a \in Arrival, NEW b \in Arrival
  PROVE  mark(a) = mark(b) <=> SameNotice(a, b)
<1>1. payloadOf[a].status \in {"firing", "resolved"} /\ payloadOf[b].status \in {"firing", "resolved"}
  BY DedupAssumption DEF TypeOK, Arrival
<1>2. CASE payloadOf[a].status = "resolved" /\ payloadOf[b].status = "resolved"
  BY <1>2 DEF mark, key, SameNotice
<1>3. CASE payloadOf[a].status = "firing" /\ payloadOf[b].status = "firing"
  BY <1>3 DEF mark, key, SameNotice
<1>4. CASE payloadOf[a].status = "firing" /\ payloadOf[b].status = "resolved"
  BY <1>4 DEF mark, key, SameNotice
<1>5. CASE payloadOf[a].status = "resolved" /\ payloadOf[b].status = "firing"
  BY <1>5 DEF mark, key, SameNotice
<1> QED
  BY <1>1, <1>2, <1>3, <1>4, <1>5

\* The initial states satisfy the invariant.
LEMMA InitIInv == NoticesInit => IInv
<1> SUFFICES ASSUME NoticesInit PROVE IInv
  OBVIOUS
<1> USE DEF NoticesInit, Init, StoreInit
<1>1. TypeOK
  <2>1. 0 \in 0..now /\ now \in Nat \ {0}
    <3>1. now = 1
      OBVIOUS
    <3> HIDE DEF NoticesInit, Init, StoreInit
    <3> QED
      BY <3>1
  <2>2. items \in [{mark(a) : a \in Arrival} -> Item \cup {NoItem}]
    BY DEF mark
  <2> QED
    BY <2>1, <2>2 DEF TypeOK, Stage
<1>2. \A a \in Arrival : st[a] = "sent to us" /\ wrote[a] = 0 /\ items[mark(a)] = NoItem
  BY DEF mark
<1> QED
  BY <1>1, <1>2 DEF IInv, NotYet, Marked, MarkHasWriter, OncePerWindow, DuplicateHasOriginal,
                    DeliveredInOrder, IncidentIsLatest, Latest

\* A step that delivers nothing preserves what the invariant says of notices, if
\* arrivals that are let through stay so and new duplicates have an original.
LEMMA NoticeFrame ==
  ASSUME IInv, payloadOf' = payloadOf, overtook' = overtook,
         \A a \in Arrival : st'[a] = st[a] \/ (~Ended(a) /\ st'[a] # "delivered"),
         \A a \in Arrival : st[a] \in Passed => st'[a] \in Passed,
         \A b \in Arrival : st'[b] = "duplicate" =>
           st[b] = "duplicate" \/ \E a \in Arrival \ {b} : SameNotice(a, b) /\ st[a] \in Passed,
         \A k \in Keys : incident'[k] = incident[k]
                         \/ \E a \in Arrival : dedupKey(a) = k /\ st'[a] = "lost"
  PROVE  DuplicateHasOriginal' /\ DeliveredInOrder' /\ IncidentIsLatest'
<1> USE DEF IInv
<1>0. Arrival' = Arrival /\ \A a \in Arrival : dedupKey(a)' = dedupKey(a) /\ dedupKey(a) \in Keys
  BY DEF Arrival, dedupKey, Keys
<1>1. \A a, b \in Arrival : SameNotice(a, b)' <=> SameNotice(a, b)
  BY DEF SameNotice
<1>2. DuplicateHasOriginal'
  BY <1>0, <1>1 DEF DuplicateHasOriginal
<1>3. \A a \in Arrival : st'[a] = "delivered" <=> st[a] = "delivered"
  BY DEF Ended, Passed
<1>4. \A a \in Arrival : Ended(a) => Ended(a)'
  BY DEF Ended
<1>5. DeliveredInOrder'
  BY <1>0, <1>3, <1>4 DEF DeliveredInOrder
<1>6. \A a \in Arrival : Latest(a)' <=> Latest(a)
  BY <1>0, <1>3 DEF Latest
<1>7. \A a \in Arrival : st[a] = "lost" => st'[a] = "lost"
  BY DEF Ended
<1>8. IncidentIsLatest'
  <2> SUFFICES ASSUME NEW a \in Arrival, Latest(a), ~overtook[dedupKey(a)],
                      \A b \in Arrival : dedupKey(b) = dedupKey(a) => st'[b] # "lost"
               PROVE  incident'[dedupKey(a)] = (payloadOf[a].status = "firing")
    BY <1>0, <1>6 DEF IncidentIsLatest
  <2>1. incident'[dedupKey(a)] = incident[dedupKey(a)]
    BY <1>0
  <2>2. \A b \in Arrival : dedupKey(b) = dedupKey(a) => st[b] # "lost"
    BY <1>7
  <2> QED
    BY <2>1, <2>2 DEF IncidentIsLatest
<1> QED
  BY <1>2, <1>5, <1>8

\* A step that takes arrival a from stage to stage, without touching the store,
\* preserves the invariant, if it is no delivery.
LEMMA StageStep ==
  ASSUME IInv, NEW a \in Arrival, NEW p \in {"locking", "fresh", "duplicate", "lost"},
         ~Ended(a), st' = [st EXCEPT ![a] = p], seen' \in [Arrival -> 0..now],
         st[a] = "fresh" => p = "lost",
         p = "duplicate" =>
           \E b \in Arrival \ {a} : SameNotice(b, a) /\ st[b] \in Passed,
         UNCHANGED <<payloadOf, redis, now, items, wrote, overtook>>,
         incident' \in [Keys -> BOOLEAN],
         \A k \in Keys : incident'[k] = incident[k] \/ (k = dedupKey(a) /\ p = "lost")
  PROVE  IInv'
<1>0. TypeOK /\ NotYet /\ Marked /\ MarkHasWriter /\ OncePerWindow
  BY DEF IInv
<1>1. /\ Arrival' = Arrival /\ Keys' = Keys
      /\ \A b \in Arrival : mark(b)' = mark(b) /\ dedupKey(b)' = dedupKey(b)
      /\ \A b, c \in Arrival : SameNotice(b, c)' <=> SameNotice(b, c)
  BY DEF Arrival, mark, dedupKey, Keys, SameNotice
<1>2. st'[a] = p /\ \A b \in Arrival : b # a => st'[b] = st[b]
  BY <1>0 DEF TypeOK
<1>3. TypeOK'
  <2>1. st' \in [Arrival -> Stage]
    BY <1>0 DEF TypeOK, Stage
  <2>2. {mark(b) : b \in Arrival}' = {mark(b) : b \in Arrival}
    BY <1>1
  <2> QED
    BY <1>0, <1>1, <2>1, <2>2 DEF TypeOK
<1>4. NotYet'
  BY <1>0, <1>1, <1>2 DEF NotYet, TypeOK, Ended, Stage
<1>5. \A b \in Arrival : st[b] \in Passed => st'[b] \in Passed
  BY <1>2 DEF Passed, Ended
<1>6. Marked' /\ OncePerWindow'
  BY <1>0, <1>1 DEF Marked, OncePerWindow, Covers
<1>7. MarkHasWriter'
  BY <1>0, <1>1, <1>5 DEF MarkHasWriter, Until
<1>8. \A b \in Arrival : st'[b] = st[b] \/ (~Ended(b) /\ st'[b] # "delivered")
  BY <1>2
<1>9. \A k \in Keys : incident'[k] = incident[k]
                      \/ \E b \in Arrival : dedupKey(b) = k /\ st'[b] = "lost"
  BY <1>2
<1>10. \A b \in Arrival : st'[b] = "duplicate" =>
         st[b] = "duplicate" \/ \E c \in Arrival \ {b} : SameNotice(c, b) /\ st[c] \in Passed
  BY <1>2
<1> QED
  BY <1>3, <1>4, <1>5, <1>6, <1>7, <1>8, <1>9, <1>10, NoticeFrame DEF IInv

\* If SetNX, on the clock reading t, finds no marker, the window of every arrival
\* with that marker is over.
LEMMA NotLiveIsOver ==
  ASSUME IInv, NEW t \in 1..now, NEW a \in Arrival, NEW b \in Arrival,
         mark(a) = mark(b), ~Live(mark(b), t), wrote[a] # 0
  PROVE  Window # 0 /\ now > wrote[a] + Window
<1> USE DEF IInv
<1>1. wrote[a] \in Nat /\ now \in Nat /\ Window \in Nat /\ t <= now /\ t \in Nat
  BY DedupAssumption DEF TypeOK
<1>2. items[mark(a)] # NoItem => items[mark(a)].expiresAt \in Nat
  BY DEF TypeOK, Item
<1>3. SUFFICES ASSUME Covers(wrote[a], now) PROVE FALSE
  BY <1>1 DEF Covers
<1>4. /\ items[mark(a)] # NoItem
      /\ IF Window = 0 THEN items[mark(a)].expiresAt = 0
                       ELSE items[mark(a)].expiresAt >= wrote[a] + Window
  BY <1>3 DEF Marked
<1>5. items[mark(a)].expiresAt # 0 /\ t > items[mark(a)].expiresAt
  BY <1>4 DEF Live, expired
<1>6. Window # 0 /\ items[mark(a)].expiresAt >= wrote[a] + Window /\ now <= wrote[a] + Window
  BY <1>3, <1>4, <1>5 DEF Covers
<1> HIDE DEF IInv
<1> QED
  BY <1>1, <1>2, <1>4, <1>5, <1>6

\* The step in which SetNX, on the clock reading t, stores arrival a's marker.
Stores(a, t) ==
  /\ st[a] \in {"sent to us", "locking"}
  /\ SetNX(mark(a), 1, Window, t)
  /\ st' = [st EXCEPT ![a] = "fresh"]
  /\ seen' = [seen EXCEPT ![a] = 0]
  /\ wrote' = [wrote EXCEPT ![a] = now]
  /\ UNCHANGED <<payloadOf, redis, now, overtook, incident>>

\* That step preserves the invariant, whether SetNX's answer arrives or not.
LEMMA StoreStep ==
  ASSUME IInv, NEW t \in 1..now, NEW a \in Arrival, Stores(a, t)
  PROVE  IInv'
<1>0. TypeOK /\ NotYet /\ Marked /\ MarkHasWriter /\ OncePerWindow
  BY DEF IInv
<1>1. /\ Arrival' = Arrival /\ Keys' = Keys
      /\ \A b \in Arrival : mark(b)' = mark(b) /\ dedupKey(b)' = dedupKey(b)
      /\ \A b, c \in Arrival : SameNotice(b, c)' <=> SameNotice(b, c)
  BY DEF Stores, Arrival, mark, dedupKey, Keys, SameNotice
<1>2. now' = now /\ now \in Nat /\ now > 0 /\ Window \in Nat
  <2>1. now' = now
    BY DEF Stores
  <2>2. now \in Nat /\ now > 0 /\ Window \in Nat
    BY <1>0, DedupAssumption DEF TypeOK
  <2> QED
    BY <2>1, <2>2
<1>3. st'[a] = "fresh" /\ wrote'[a] = now /\ wrote[a] = 0
  BY <1>0 DEF Stores, TypeOK, NotYet
<1>4. \A b \in Arrival : b # a => st'[b] = st[b] /\ wrote'[b] = wrote[b]
  BY <1>0 DEF Stores, TypeOK
<1>5. items' = [items EXCEPT ![mark(a)] = [val |-> 1, expiresAt |-> Until(now)]]
  <2>1. expiry(Window) = Until(now)
    BY <1>2 DEF expiry, Until
  <2> QED
    BY <2>1 DEF Stores, SetNX, Set
<1>6. Until(now) \in Nat
  BY <1>2 DEF Until
<1>7. [val |-> 1, expiresAt |-> Until(now)] \in Item
  BY <1>6 DEF Item
<1>8. \A b \in Arrival : mark(b) \in DOMAIN items
  BY <1>0 DEF TypeOK
<1>9. /\ items'[mark(a)] = [val |-> 1, expiresAt |-> Until(now)] /\ items'[mark(a)] # NoItem
      /\ \A b \in Arrival : mark(b) # mark(a) => items'[mark(b)] = items[mark(b)]
  BY <1>5, <1>7, <1>8, StoreAssumption
<1>10. TypeOK'
  <2>1. items' \in [{mark(b) : b \in Arrival} -> Item \cup {NoItem}]
    BY <1>0, <1>5, <1>7 DEF TypeOK
  <2>2. {mark(b) : b \in Arrival}' = {mark(b) : b \in Arrival}
    BY <1>1
  <2>3. wrote' \in [Arrival -> 0..now] /\ seen' \in [Arrival -> 0..now]
    <3>1. now \in 0..now /\ 0 \in 0..now
      BY <1>2
    <3>2. wrote' = [wrote EXCEPT ![a] = now] /\ seen' = [seen EXCEPT ![a] = 0]
      BY DEF Stores
    <3> QED
      BY <1>0, <3>1, <3>2 DEF TypeOK
  <2>4. st' \in [Arrival -> Stage]
    BY <1>0 DEF Stores, TypeOK, Stage
  <2> QED
    BY <1>0, <1>1, <2>1, <2>2, <2>3, <2>4 DEF Stores, TypeOK
<1>11. NotYet'
  BY <1>0, <1>1, <1>3, <1>4 DEF NotYet
<1>12. ASSUME NEW b \in Arrival, mark(b) = mark(a), wrote[b] # 0
       PROVE  Window # 0 /\ now > wrote[b] + Window
  BY <1>12, NotLiveIsOver DEF Stores, SetNX
<1>13. Marked'
  <2> SUFFICES ASSUME NEW b \in Arrival, wrote'[b] # 0, Covers(wrote'[b], now)
               PROVE  /\ items'[mark(b)] # NoItem
                      /\ IF Window = 0 THEN items'[mark(b)].expiresAt = 0
                                       ELSE items'[mark(b)].expiresAt >= wrote'[b] + Window
    BY <1>1, <1>2 DEF Marked, Covers
  <2>1. CASE b = a
    BY <1>2, <1>3, <1>9, <2>1 DEF Until
  <2>2. CASE b # a /\ mark(b) = mark(a)
    <3>1. Window # 0 /\ now > wrote[b] + Window /\ wrote[b] \in Nat
      BY <1>0, <1>4, <1>12, <2>2 DEF TypeOK
    <3> QED
      BY <1>2, <1>4, <2>2, <3>1 DEF Covers
  <2>3. CASE mark(b) # mark(a)
    BY <1>0, <1>4, <1>9, <2>3 DEF Marked
  <2> QED
    BY <2>1, <2>2, <2>3
<1>14. \A b \in Arrival : st[b] \in Passed => st'[b] \in Passed /\ b # a
  BY <1>3, <1>4 DEF Stores, Passed
<1>15. MarkHasWriter'
  <2> SUFFICES ASSUME NEW b \in Arrival, items'[mark(b)] # NoItem
               PROVE  \E c \in Arrival :
                        /\ mark(c) = mark(b) /\ wrote'[c] # 0 /\ st'[c] \in Passed
                        /\ items'[mark(b)].expiresAt = Until(wrote'[c])
    BY <1>1 DEF MarkHasWriter, Until
  <2>1. CASE mark(b) = mark(a)
    BY <1>2, <1>3, <1>9, <2>1 DEF Passed
  <2>2. CASE mark(b) # mark(a)
    BY <1>0, <1>4, <1>9, <1>14, <2>2 DEF MarkHasWriter
  <2> QED
    BY <2>1, <2>2
<1>16. OncePerWindow'
  <2> SUFFICES ASSUME NEW b \in Arrival, NEW c \in Arrival, b # c, SameNotice(b, c),
                      wrote'[b] # 0, wrote'[c] # 0
               PROVE  ~Covers(wrote'[b], wrote'[c]) \/ ~Covers(wrote'[c], wrote'[b])
    BY <1>1 DEF OncePerWindow, Covers
  <2>1. mark(b) = mark(c)
    BY <1>0, MarkIsNotice
  <2>2. wrote[b] \in Nat /\ wrote[c] \in Nat
    BY <1>0 DEF TypeOK
  <2>3. CASE b = a
    BY <1>2, <1>3, <1>4, <1>12, <2>1, <2>2, <2>3 DEF Covers
  <2>4. CASE c = a
    BY <1>2, <1>3, <1>4, <1>12, <2>1, <2>2, <2>4 DEF Covers
  <2>5. CASE b # a /\ c # a
    BY <1>0, <1>4, <2>5 DEF OncePerWindow
  <2> QED
    BY <2>3, <2>4, <2>5
<1>17. overtook' = overtook /\ incident' = incident /\ payloadOf' = payloadOf
  BY DEF Stores
<1>18. \A b \in Arrival : st'[b] = st[b] \/ (~Ended(b) /\ st'[b] # "delivered")
  BY <1>3, <1>4 DEF Stores, Ended
<1>19. \A b \in Arrival : st'[b] = "duplicate" => st[b] = "duplicate"
  BY <1>3, <1>4
<1> QED
  BY <1>10, <1>11, <1>13, <1>14, <1>15, <1>16, <1>17, <1>18, <1>19, NoticeFrame DEF IInv

\* A delivery preserves the invariant: it is the latest, unless it overtakes.
LEMMA SendStep == ASSUME IInv, NEW a \in Arrival, Send(a) PROVE IInv'
<1>0. TypeOK /\ NotYet /\ Marked /\ MarkHasWriter /\ OncePerWindow
  BY DEF IInv
<1>1. /\ Arrival' = Arrival /\ Keys' = Keys /\ payloadOf' = payloadOf
      /\ \A b \in Arrival : mark(b)' = mark(b) /\ dedupKey(b)' = dedupKey(b) /\ dedupKey(b) \in Keys
      /\ \A b, c \in Arrival : SameNotice(b, c)' <=> SameNotice(b, c)
  BY DEF Send, Arrival, mark, dedupKey, Keys, SameNotice
<1>2. st[a] = "fresh" /\ st'[a] = "delivered" /\ \A b \in Arrival : b # a => st'[b] = st[b]
  BY <1>0 DEF Send, TypeOK
<1>3. UNCHANGED <<redis, now, items, seen, wrote>>
  BY DEF Send
<1>4. /\ incident' = [incident EXCEPT ![dedupKey(a)] = payloadOf[a].status # "resolved"]
      /\ overtook' = [overtook EXCEPT ![dedupKey(a)] = @ \/ \E b \in Earlier(a) : ~Ended(b)]
  BY DEF Send, buildPagerDutyEvent
<1>5. TypeOK'
  <2>1. st' \in [Arrival -> Stage]
    BY <1>0 DEF Send, TypeOK, Stage
  <2>2. {mark(b) : b \in Arrival}' = {mark(b) : b \in Arrival}
    BY <1>1
  <2>3. incident' \in [Keys -> BOOLEAN]
    BY <1>0, <1>4 DEF TypeOK
  <2>4. overtook' \in [Keys -> BOOLEAN]
    BY <1>0, <1>4 DEF TypeOK
  <2> QED
    BY <1>0, <1>1, <1>3, <2>1, <2>2, <2>3, <2>4 DEF TypeOK
<1>6. NotYet' /\ Marked' /\ OncePerWindow'
  BY <1>0, <1>1, <1>2, <1>3 DEF NotYet, Marked, OncePerWindow, Covers
<1>7. \A b \in Arrival : st[b] \in Passed => st'[b] \in Passed
  BY <1>2 DEF Passed
<1>8. MarkHasWriter'
  BY <1>0, <1>1, <1>3, <1>7 DEF MarkHasWriter, Until
<1>9. DuplicateHasOriginal'
  BY <1>1, <1>2, <1>7 DEF IInv, DuplicateHasOriginal
<1>10. \A b \in Arrival : Ended(b) => Ended(b)'
  BY <1>2 DEF Ended
<1>11. \A b \in Arrival : dedupKey(b) # dedupKey(a) =>
         /\ overtook'[dedupKey(b)] = overtook[dedupKey(b)]
         /\ incident'[dedupKey(b)] = incident[dedupKey(b)]
  BY <1>0, <1>1, <1>4 DEF TypeOK
<1>12. ~overtook'[dedupKey(a)] =>
         ~overtook[dedupKey(a)] /\ \A b \in Arrival : b < a /\ dedupKey(b) = dedupKey(a) => Ended(b)
  BY <1>0, <1>1, <1>4 DEF TypeOK, Earlier
<1>13. \A b \in Arrival : b \in Nat
  BY <1>0, NoticesAssumption DEF TypeOK, Arrival
<1>14. DeliveredInOrder'
  <2> SUFFICES ASSUME NEW b \in Arrival, NEW c \in Arrival, b < c, dedupKey(b) = dedupKey(c),
                      ~overtook'[dedupKey(c)], st'[c] = "delivered"
               PROVE  Ended(b)'
    BY <1>1 DEF DeliveredInOrder
  <2>1. CASE c = a
    BY <1>10, <1>12, <2>1
  <2>2. CASE c # a
    <3>1. ~overtook[dedupKey(c)] /\ st[c] = "delivered"
      BY <1>2, <1>11, <1>12, <2>2
    <3> QED
      BY <1>10, <3>1 DEF IInv, DeliveredInOrder
  <2> QED
    BY <2>1, <2>2
<1>15. IncidentIsLatest'
  <2> SUFFICES ASSUME NEW b \in Arrival, Latest(b)', ~overtook'[dedupKey(b)],
                      \A c \in Arrival : dedupKey(c) = dedupKey(b) => st'[c] # "lost"
               PROVE  incident'[dedupKey(b)] = (payloadOf[b].status = "firing")
    BY <1>1 DEF IncidentIsLatest
  <2>1. CASE dedupKey(b) # dedupKey(a)
    <3>1. Latest(b)
      BY <1>1, <1>2, <2>1 DEF Latest
    <3> QED
      BY <1>2, <1>11, <2>1, <3>1 DEF IInv, IncidentIsLatest
  <2>2. CASE dedupKey(b) = dedupKey(a)
    <3>1. ~Ended(a)
      BY <1>2 DEF Ended
    <3>2. a <= b /\ st'[b] = "delivered"
      BY <1>1, <1>2, <2>2 DEF Latest
    <3>3. b # a => st[b] = "delivered" /\ a < b
      BY <1>2, <1>13, <3>2
    <3>4. b = a
      BY <1>12, <2>2, <3>1, <3>3 DEF IInv, DeliveredInOrder
    <3>5. incident'[dedupKey(a)] = (payloadOf[a].status # "resolved")
      BY <1>0, <1>1, <1>4 DEF TypeOK
    <3>6. payloadOf[a].status \in {"firing", "resolved"}
      BY <1>0, DedupAssumption DEF TypeOK, Arrival
    <3> QED
      BY <3>4, <3>5, <3>6
  <2> QED
    BY <2>1, <2>2
<1> QED
  BY <1>5, <1>6, <1>8, <1>9, <1>14, <1>15 DEF IInv

\* The passing of time preserves the invariant.
LEMMA TickStep ==
  ASSUME IInv, Tick, UNCHANGED <<payloadOf, redis, incident, overtook>>
  PROVE  IInv'
<1>0. TypeOK /\ NotYet /\ Marked /\ MarkHasWriter /\ OncePerWindow
  BY DEF IInv
<1>1. /\ Arrival' = Arrival /\ Keys' = Keys
      /\ \A b \in Arrival : mark(b)' = mark(b) /\ dedupKey(b)' = dedupKey(b)
      /\ \A b, c \in Arrival : SameNotice(b, c)' <=> SameNotice(b, c)
  BY DEF Arrival, mark, dedupKey, Keys, SameNotice
<1>2. now \in Nat /\ now' = now + 1 /\ UNCHANGED <<items, st, seen, wrote>>
  BY <1>0 DEF TypeOK, Tick
<1>3. TypeOK'
  <2>1. now' \in Nat \ {0} /\ 0..now \subseteq 0..now'
    BY <1>2
  <2>2. {mark(b) : b \in Arrival}' = {mark(b) : b \in Arrival}
    BY <1>1
  <2>3. seen \in [Arrival -> 0..now'] /\ wrote \in [Arrival -> 0..now']
    BY <1>0, <2>1 DEF TypeOK
  <2> QED
    BY <1>0, <1>1, <1>2, <2>1, <2>2, <2>3 DEF TypeOK
<1>4. NotYet' /\ OncePerWindow'
  BY <1>0, <1>1, <1>2 DEF NotYet, OncePerWindow, Covers
<1>7. MarkHasWriter'
  BY <1>0, <1>1, <1>2 DEF MarkHasWriter, Until
<1>5. \A b \in Arrival : Covers(wrote[b], now') => Covers(wrote[b], now)
  BY <1>0, <1>2, DedupAssumption DEF Covers, TypeOK
<1>6. Marked'
  BY <1>0, <1>1, <1>2, <1>5 DEF Marked, Covers
<1> QED
  BY <1>2, <1>3, <1>4, <1>6, <1>7, NoticeFrame DEF IInv

\* A tick of the janitor preserves the invariant: it removes what has expired.
LEMMA JanitorStep ==
  ASSUME IInv, Janitor, UNCHANGED <<payloadOf, redis, incident, overtook>>
  PROVE  IInv'
<1>0. TypeOK /\ NotYet /\ Marked /\ MarkHasWriter /\ OncePerWindow
  BY DEF IInv
<1>1. /\ Arrival' = Arrival /\ Keys' = Keys
      /\ \A b \in Arrival : mark(b)' = mark(b) /\ dedupKey(b)' = dedupKey(b)
      /\ \A b, c \in Arrival : SameNotice(b, c)' <=> SameNotice(b, c)
  BY DEF Arrival, mark, dedupKey, Keys, SameNotice
<1>2. UNCHANGED <<now, st, seen, wrote>>
  BY DEF Janitor, janitor
<1>3. PICK t \in 1..now :
        items' = [k \in DOMAIN items |->
                    IF items[k] # NoItem /\ expired(items[k], t) THEN NoItem ELSE items[k]]
  BY DEF Janitor, janitor
<1>4. \A b \in Arrival :
        items'[mark(b)] = IF items[mark(b)] # NoItem /\ expired(items[mark(b)], t)
                          THEN NoItem ELSE items[mark(b)]
  BY <1>0, <1>3 DEF TypeOK
<1>5. TypeOK'
  <2>1. items' \in [{mark(b) : b \in Arrival} -> Item \cup {NoItem}]
    BY <1>0, <1>3 DEF TypeOK
  <2>2. {mark(b) : b \in Arrival}' = {mark(b) : b \in Arrival}
    BY <1>1
  <2> QED
    BY <1>0, <1>1, <1>2, <2>1, <2>2 DEF TypeOK
<1>6. NotYet' /\ OncePerWindow'
  BY <1>0, <1>1, <1>2 DEF NotYet, OncePerWindow, Covers
<1>7. MarkHasWriter'
  <2> SUFFICES ASSUME NEW b \in Arrival, items'[mark(b)] # NoItem
               PROVE  \E a \in Arrival :
                        /\ mark(a) = mark(b) /\ wrote[a] # 0 /\ st[a] \in Passed
                        /\ items'[mark(b)].expiresAt = Until(wrote[a])
    BY <1>1, <1>2 DEF MarkHasWriter, Until
  <2>1. items'[mark(b)] = items[mark(b)]
    BY <1>4
  <2> QED
    BY <1>0, <2>1 DEF MarkHasWriter
<1>8. Marked'
  <2> SUFFICES ASSUME NEW b \in Arrival, wrote[b] # 0, Covers(wrote[b], now)
               PROVE  ~expired(items[mark(b)], t)
    BY <1>0, <1>1, <1>2, <1>4 DEF Marked, Covers
  <2>1. /\ items[mark(b)] # NoItem
        /\ IF Window = 0 THEN items[mark(b)].expiresAt = 0
                         ELSE items[mark(b)].expiresAt >= wrote[b] + Window
    BY <1>0 DEF Marked
  <2>2. items[mark(b)].expiresAt \in Nat
    BY <1>0, <2>1 DEF TypeOK, Item
  <2>3. wrote[b] \in Nat /\ now \in Nat /\ Window \in Nat /\ t \in Nat /\ t <= now
    BY <1>0, DedupAssumption DEF TypeOK
  <2> QED
    BY <2>1, <2>2, <2>3 DEF expired, Covers
<1> QED
  BY <1>2, <1>5, <1>6, <1>7, <1>8, NoticeFrame DEF IInv

\* A restart preserves the invariant: with a shared store the markers stay and so
\* does their history, without one both are gone.
LEMMA RestartStep ==
  ASSUME IInv, Restart, UNCHANGED <<payloadOf, redis, incident, overtook>>
  PROVE  IInv'
<1>0. TypeOK /\ NotYet /\ Marked /\ MarkHasWriter /\ OncePerWindow
  BY DEF IInv
<1>1. /\ Arrival' = Arrival /\ Keys' = Keys
      /\ \A b \in Arrival : mark(b)' = mark(b) /\ dedupKey(b)' = dedupKey(b)
      /\ \A b, c \in Arrival : SameNotice(b, c)' <=> SameNotice(b, c)
  BY DEF Arrival, mark, dedupKey, Keys, SameNotice
<1>2. PICK lost \in SUBSET InProcess :
        st' = [b \in Arrival |-> IF b \in lost THEN "lost" ELSE st[b]]
  BY DEF Restart
<1>3. \A b \in Arrival : st'[b] = st[b] \/ (st[b] \in {"locking", "fresh"} /\ st'[b] = "lost")
  BY <1>2 DEF InProcess
<1>4. now' = now /\ \A b \in Arrival : wrote'[b] = IF redis THEN wrote[b] ELSE 0
  BY DEF Restart
<1>5. \A b \in Arrival : items'[mark(b)] = IF redis THEN items[mark(b)] ELSE NoItem
  BY <1>0 DEF Restart, StoreRestart, TypeOK
<1>6. TypeOK'
  <2>1. items' \in [{mark(b) : b \in Arrival} -> Item \cup {NoItem}]
    BY <1>0 DEF Restart, StoreRestart, TypeOK
  <2>2. {mark(b) : b \in Arrival}' = {mark(b) : b \in Arrival}
    BY <1>1
  <2>3. st' \in [Arrival -> Stage]
    BY <1>0, <1>2 DEF TypeOK, Stage
  <2>4. 0 \in 0..now
    BY <1>0 DEF TypeOK
  <2>5. wrote' \in [Arrival -> 0..now] /\ seen' \in [Arrival -> 0..now]
    BY <1>0, <2>4 DEF Restart, TypeOK
  <2> QED
    BY <1>0, <1>1, <1>4, <2>1, <2>2, <2>3, <2>5 DEF TypeOK
<1>7. NotYet'
  BY <1>0, <1>1, <1>3, <1>4 DEF NotYet
<1>8. Marked' /\ OncePerWindow'
  BY <1>0, <1>1, <1>4, <1>5 DEF Marked, OncePerWindow, Covers
<1>9. \A b \in Arrival : st[b] \in Passed => st'[b] \in Passed
  BY <1>3 DEF Passed
<1>10. MarkHasWriter'
  BY <1>0, <1>1, <1>4, <1>5, <1>9 DEF MarkHasWriter, Until
<1>11. \A b \in Arrival : st'[b] = st[b] \/ (~Ended(b) /\ st'[b] # "delivered")
  BY <1>3 DEF Ended
<1>12. \A b \in Arrival : st'[b] = "duplicate" => st[b] = "duplicate"
  BY <1>3
<1> QED
  BY <1>6, <1>7, <1>8, <1>9, <1>10, <1>11, <1>12, NoticeFrame DEF IInv

\* What SetNX finds, when it drops arrival b, was stored for another arrival with
\* the same notice, whose window is not over.
LEMMA FoundIsExplained ==
  ASSUME IInv, NEW b \in Arrival, NEW t \in 1..now, AtStore(b, t), Live(mark(b), t)
  PROVE  \E a \in Arrival \ {b} :
           /\ SameNotice(a, b) /\ wrote[a] # 0 /\ st[a] \in Passed
           /\ Covers(wrote[a], t)
<1> USE DEF IInv
<1>1. PICK a \in Arrival :
        /\ mark(a) = mark(b) /\ wrote[a] # 0 /\ st[a] \in Passed
        /\ items[mark(b)].expiresAt = Until(wrote[a])
  BY DEF Live, MarkHasWriter
<1>2. a # b
  BY <1>1 DEF AtStore, Passed
<1>3. SameNotice(a, b)
  BY <1>1, MarkIsNotice
<1>4. wrote[a] \in Nat /\ t \in Nat /\ Window \in Nat
  BY DedupAssumption DEF TypeOK
<1>5. Until(wrote[a]) = 0 \/ ~(t > Until(wrote[a]))
  BY <1>1 DEF Live, expired
<1>6. Covers(wrote[a], t)
  BY <1>4, <1>5 DEF Until, Covers
<1> QED
  BY <1>1, <1>2, <1>3, <1>6

\* Every step of an arrival up to the store's answer preserves the invariant.
LEMMA ProcessStep ==
  ASSUME IInv, NEW a \in Arrival, Process(a),
         UNCHANGED <<payloadOf, redis, incident, overtook>>
  PROVE  IInv'
<1>0. TypeOK /\ NotYet
  BY DEF IInv
<1>1. /\ incident' \in [Keys -> BOOLEAN] /\ \A k \in Keys : incident'[k] = incident[k]
      /\ now \in 0..now /\ 0 \in 0..now /\ now \in 1..now
  BY <1>0 DEF TypeOK
<1>2. \A t : AtStore(a, t) => st[a] \in {"sent to us", "locking"} /\ ~Ended(a)
  BY DEF AtStore, Ended
<1>3. CASE SetNXReadsClock(a)
  <2>1. seen' \in [Arrival -> 0..now] /\ ~Ended(a) /\ st[a] # "fresh"
    BY <1>0, <1>1, <1>3 DEF SetNXReadsClock, TypeOK, Ended
  <2> QED
    BY <1>1, <1>3, <2>1, StageStep DEF SetNXReadsClock
<1>4. CASE IsFresh(a)
  <2>1. PICK t \in 1..now : AtStore(a, t) /\ SetNX(key(payloadOf[a]), 1, ttl, t)
    BY <1>4 DEF IsFresh
  <2>2. Stores(a, t)
    BY <1>2, <1>4, <2>1 DEF Stores, IsFresh, mark, ttl
  <2> QED
    BY <2>2, StoreStep
<1>5. CASE IsDuplicate(a)
  <2>1. PICK t \in 1..now : AtStore(a, t) /\ SetNXFinds(key(payloadOf[a]), t)
    BY <1>5 DEF IsDuplicate
  <2>2. Live(mark(a), t) /\ UNCHANGED items
    BY <2>1 DEF SetNXFinds, mark
  <2>3. \E b \in Arrival \ {a} : SameNotice(b, a) /\ st[b] \in Passed
    BY <2>1, <2>2, FoundIsExplained
  <2>4. seen' \in [Arrival -> 0..now]
    BY <1>0, <1>1, <1>5 DEF IsDuplicate, TypeOK
  <2>5. st' = [st EXCEPT ![a] = "duplicate"] /\ UNCHANGED <<now, wrote>>
    BY <1>5 DEF IsDuplicate
  <2>6. ~Ended(a) /\ st[a] # "fresh"
    BY <1>2, <2>1
  <2> QED
    BY <1>1, <2>2, <2>3, <2>4, <2>5, <2>6, StageStep
<1>6. CASE FailsOpen(a)
  <2>1. ~Ended(a) /\ st[a] # "fresh" /\ wrote[a] = 0
    BY <1>0, <1>2, <1>6 DEF FailsOpen, NotYet
  <2>2. CASE items' = items
    <3>1. wrote' = wrote
      BY <1>0, <1>6, <2>1, <2>2 DEF FailsOpen, TypeOK
    <3>2. seen' \in [Arrival -> 0..now] /\ st' = [st EXCEPT ![a] = "fresh"] /\ now' = now
      BY <1>0, <1>1, <1>6 DEF FailsOpen, TypeOK
    <3> QED
      BY <1>1, <2>1, <2>2, <3>1, <3>2, StageStep
  <2>3. CASE items' # items
    <3>1. Stores(a, now)
      BY <1>2, <1>6, <2>3 DEF Stores, FailsOpen, SetNXFails, mark, ttl
    <3> QED
      BY <1>1, <3>1, StoreStep
  <2> QED
    BY <2>2, <2>3
<1> QED
  BY <1>3, <1>4, <1>5, <1>6 DEF Process

\* Every step preserves the invariant.
LEMMA NextIInv == IInv /\ [NoticesNext]_noticeVars => IInv'
<1> SUFFICES ASSUME IInv, [NoticesNext]_noticeVars PROVE IInv'
  OBVIOUS
<1>1. CASE Next /\ UNCHANGED <<incident, overtook>>
  BY <1>1, TickStep, RestartStep, JanitorStep, ProcessStep DEF Next
<1>2. ASSUME NEW a \in Arrival, Send(a) PROVE IInv'
  BY <1>2, SendStep
<1>3. ASSUME NEW a \in Arrival, SendFails(a) PROVE IInv'
  <2>0. TypeOK
    BY DEF IInv
  <2>1. ~Ended(a) /\ st[a] = "fresh" /\ st' = [st EXCEPT ![a] = "lost"]
    BY <1>3 DEF SendFails, Ended
  <2>2. UNCHANGED <<payloadOf, redis, now, items, seen, wrote, overtook>>
    BY <1>3 DEF SendFails
  <2>3. incident' \in [Keys -> BOOLEAN]
    BY <1>3, <2>0 DEF SendFails, buildPagerDutyEvent, TypeOK
  <2>4. \A k \in Keys : incident'[k] = incident[k] \/ k = dedupKey(a)
    BY <1>3, <2>0 DEF SendFails, buildPagerDutyEvent, TypeOK
  <2>5. seen' \in [Arrival -> 0..now]
    BY <2>0, <2>2 DEF TypeOK
  <2> QED
    BY <2>1, <2>2, <2>3, <2>4, <2>5, StageStep
<1>4. CASE UNCHANGED noticeVars
  <2> USE <1>4 DEF noticeVars, vars, IInv
  <2>1. TypeOK'
    BY DEF TypeOK, Arrival, mark, Keys, dedupKey
  <2>2. NotYet' /\ OncePerWindow'
    <3>1. UNCHANGED <<payloadOf, wrote, st>> /\ NotYet /\ OncePerWindow
      OBVIOUS
    <3>2. Arrival' = Arrival /\ \A a, b \in Arrival : SameNotice(a, b)' <=> SameNotice(a, b)
      BY <3>1 DEF Arrival, SameNotice
    <3> HIDE <1>4 DEF noticeVars, vars, IInv
    <3> QED
      BY <3>1, <3>2 DEF NotYet, OncePerWindow, Covers
  <2>3. Arrival' = Arrival /\ \A b \in Arrival : mark(b)' = mark(b)
    BY DEF Arrival, mark
  <2>4. Marked' /\ MarkHasWriter'
    <3>1. UNCHANGED <<items, wrote, st, now>> /\ Marked /\ MarkHasWriter
      OBVIOUS
    <3> HIDE <1>4 DEF noticeVars, vars, IInv
    <3> QED
      BY <2>3, <3>1 DEF Marked, Covers, MarkHasWriter, Until
  <2> QED
    BY <2>1, <2>2, <2>4, NoticeFrame
<1> QED
  BY <1>1, <1>2, <1>3, <1>4 DEF NoticesNext

\* Every reachable state satisfies the invariant.
THEOREM Invariance == NoticesSpec => []IInv
  BY InitIInv, NextIInv, PTL DEF NoticesSpec

\* dedup.go: as long as the store answers and lives, no two arrivals of one
\* notice get through within a window, however their goroutines interleave.
THEOREM NoticePassesOnce == NoticesSpec => []OncePerWindow
<1>1. IInv => OncePerWindow
  BY DEF IInv
<1> QED
  BY <1>1, Invariance, PTL

\* dedup.go: an alert is dropped only if another arrival of the same notice was
\* let through less than a window before, in this store's lifetime.
THEOREM DropsAreExplained == NoticesSpec => DropIsExplained
<1>1. IInv /\ [NoticesNext]_noticeVars =>
        [\A b \in Arrival :
           st'[b] = "duplicate" /\ st[b] # "duplicate"
             => \E a \in Arrival \ {b} :
                  /\ SameNotice(a, b)
                  /\ wrote[a] # 0 /\ Covers(wrote[a], IF redis THEN now ELSE seen[b])
                  /\ st[a] \in {"fresh", "delivered", "lost"}]_vars
  <2> SUFFICES ASSUME IInv, NoticesNext, NEW b \in Arrival,
                      st'[b] = "duplicate", st[b] # "duplicate"
               PROVE  \E a \in Arrival \ {b} :
                        /\ SameNotice(a, b)
                        /\ wrote[a] # 0 /\ Covers(wrote[a], IF redis THEN now ELSE seen[b])
                        /\ st[a] \in {"fresh", "delivered", "lost"}
    BY DEF noticeVars
  <2>0. st \in [Arrival -> Stage]
    BY DEF IInv, TypeOK
  <2>1. IsDuplicate(b)
    <3>1. \A a \in Arrival : ~Send(a) /\ ~SendFails(a)
      BY <2>0 DEF Send, SendFails
    <3>2. ~Tick /\ ~Janitor
      BY DEF Tick, Janitor
    <3>3. ~Restart
      BY DEF Restart
    <3>4. PICK a \in Arrival : Process(a)
      BY <3>1, <3>2, <3>3 DEF NoticesNext, Next
    <3>5. ~SetNXReadsClock(a) /\ ~IsFresh(a) /\ ~FailsOpen(a)
      BY <2>0 DEF SetNXReadsClock, IsFresh, FailsOpen
    <3>6. IsDuplicate(a)
      BY <3>4, <3>5 DEF Process
    <3>7. a = b
      BY <2>0, <3>6 DEF IsDuplicate
    <3> QED
      BY <3>6, <3>7
  <2>2. PICK t \in 1..now : AtStore(b, t) /\ Live(mark(b), t)
    BY <2>1 DEF IsDuplicate, SetNXFinds, mark
  <2>3. t = IF redis THEN now ELSE seen[b]
    BY <2>2 DEF AtStore
  <2> QED
    BY <2>2, <2>3, FoundIsExplained DEF Passed
<1> QED
  BY <1>1, Invariance, PTL DEF NoticesSpec, DropIsExplained
-----------------------------------------------------------------------------
\* Every nonempty set of natural numbers has a least element.
LEMMA LeastNumber ==
  ASSUME NEW S \in SUBSET Nat, S # {}
  PROVE  \E n \in S : \A m \in S : n <= m
<1> DEFINE R == {ss \in Nat \X Nat : ss[1] < ss[2]}
<1>1. IsWellFoundedOn(R, Nat)
  BY NatLessThanWellFounded DEF OpToRel
<1> HIDE DEF R
<1>2. PICK n \in S : \A m \in S : <<m, n>> \notin R
  BY <1>1, WFMin
<1>3. \A m \in S : ~(m < n)
  BY <1>2 DEF R
<1> QED
  BY <1>3

\* Every nonempty set of natural numbers that is bounded has a greatest element.
LEMMA GreatestNumber ==
  ASSUME NEW S \in SUBSET Nat, S # {}, NEW top \in Nat, \A m \in S : m <= top
  PROVE  \E n \in S : \A m \in S : m <= n
<1> DEFINE T == {top - m : m \in S}
<1>1. T \subseteq Nat /\ T # {}
  <2>1. \A m \in S : m \in Nat /\ top - m \in Nat
    OBVIOUS
  <2> QED
    BY <2>1
<1> HIDE DEF T
<1>2. PICK d \in T : \A e \in T : d <= e
  BY <1>1, LeastNumber
<1>3. PICK n \in S : d = top - n
  BY DEF T
<1>4. \A m \in S : top - n <= top - m
  BY <1>2, <1>3 DEF T
<1> QED
  BY <1>4

\* pagerduty.go over dedup.go: when all that AlertManager sent for an incident has
\* been dealt with, the incident is open or closed as the last arrival says, up to
\* the exceptions that IncidentFollowsAlert names.
THEOREM IncidentsFollow == NoticesSpec => []IncidentFollowsAlert
<1>1. IInv => IncidentFollowsAlert
  <2> SUFFICES ASSUME IInv, NEW last \in Arrival,
                      Earlier(last) \cup {last} = {a \in Arrival : dedupKey(a) = dedupKey(last)},
                      \A a \in Earlier(last) \cup {last} : st[a] \in {"duplicate", "delivered"},
                      ~overtook[dedupKey(last)],
                      \A a \in Earlier(last) \cup {last} : payloadOf[a].pod = payloadOf[last].pod,
                      ~(/\ payloadOf[last].status = "firing" /\ st[last] = "duplicate"
                        /\ \E a \in Earlier(last) \cup {last} : payloadOf[a].status = "resolved")
               PROVE  incident[dedupKey(last)] = (payloadOf[last].status = "firing")
    BY DEF IncidentFollowsAlert
  <2> DEFINE all == {a \in Arrival : dedupKey(a) = dedupKey(last)}
             D == {a \in all : st[a] = "delivered"}
  <2>1. Arrival \subseteq Nat /\ payloadOf \in Story
    BY NoticesAssumption DEF IInv, TypeOK, Arrival
  <2>2. \A a \in Arrival : payloadOf[a].status \in {"firing", "resolved"}
    BY <2>1, DedupAssumption DEF Arrival
  <2>3. \A a \in all : a <= last /\ st[a] \in {"duplicate", "delivered"}
                       /\ payloadOf[a].pod = payloadOf[last].pod
                       /\ payloadOf[a].alert = payloadOf[last].alert
    BY <2>1 DEF Earlier, dedupKey
  <2>4. ASSUME st[last] = "duplicate" PROVE \E a \in D : a # last /\ SameNotice(a, last)
    <3>1. PICK a \in Arrival \ {last} : SameNotice(a, last) /\ st[a] \in Passed
      BY <2>4 DEF IInv, DuplicateHasOriginal
    <3>2. dedupKey(a) = dedupKey(last)
      BY <3>1 DEF SameNotice, dedupKey
    <3> QED
      BY <3>1, <3>2, <2>3 DEF Passed
  <2>5. D # {}
    BY <2>3, <2>4
  <2>6. PICK g \in D : \A m \in D : m <= g
    <3>1. D \in SUBSET Nat /\ last \in Nat /\ \A m \in D : m <= last
      BY <2>1, <2>3
    <3> HIDE DEF D
    <3> QED
      BY <3>1, <2>5, GreatestNumber
  <2>7. Latest(g)
    BY <2>6 DEF Latest
  <2>8. incident[dedupKey(last)] = (payloadOf[g].status = "firing")
    <3>1. \A b \in Arrival : dedupKey(b) = dedupKey(g) => st[b] # "lost"
      BY <2>3
    <3> QED
      BY <3>1, <2>7 DEF IInv, IncidentIsLatest
  <2>9. payloadOf[g].status = payloadOf[last].status
    <3>1. CASE st[last] = "delivered"
      BY <3>1, <2>1, <2>3, <2>6
    <3>2. CASE st[last] = "duplicate" /\ payloadOf[last].status = "firing"
      BY <3>2, <2>2, <2>3
    <3>3. CASE st[last] = "duplicate" /\ payloadOf[last].status = "resolved"
      <4>1. PICK a \in D : a # last /\ SameNotice(a, last)
        BY <3>3, <2>4
      <4>2. a <= g /\ g <= last /\ g # last /\ a \in Nat /\ g \in Nat /\ last \in Nat
        BY <3>3, <2>1, <2>3, <2>6
      <4>3. payloadOf[a].status = "resolved" /\ payloadOf[a].firedAt = payloadOf[last].firedAt
        BY <3>3, <4>1 DEF SameNotice
      <4>4. CASE a < g
        <5>1. g < last
          BY <4>2
        <5> QED
          BY <2>1, <2>3, <3>3, <4>3, <4>4, <5>1, NoticesAssumption DEF Arrival
      <4> QED
        BY <4>2, <4>3, <4>4, <3>3
    <3> QED
      BY <3>1, <3>2, <3>3, <2>2, <2>3
  <2> QED
    BY <2>8, <2>9
<1> QED
  BY <1>1, Invariance, PTL
=============================================================================
