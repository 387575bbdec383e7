--------------------------- MODULE Transport_proofs ---------------------------
(***************************************************************************)
(* Proofs about ReplayGuard, for every set of requests, window and lag,    *)
(* and about Transport, for every set of messages, tenants and keys.       *)
(* Transport implements ReplayGuard, so that what is proved of the guard   *)
(* holds on both transports.                                               *)
(***************************************************************************)
EXTENDS Transport, SequenceTheorems, TLAPS

Keys == {nonceKey(r) : r \in Request}

\* A request inside Verify passed the window check at most Lag ago.
InVerifyIsFresh ==
  \A r \in InVerify :
    /\ checked[r] - reqOf[r].ts <= window /\ checked[r] - reqOf[r].ts >= -window
    /\ now <= checked[r] + Lag

\* No nonce is stored before the request reaches the store.
NotStoredYet ==
  \A r \in Request : pc[r] \in {"sent", "fresh", "locking"} => wrote[r] = 0

\* A stored nonce was stored at most Lag after its window check.
StoredIsFresh ==
  \A r \in Request : wrote[r] # 0 =>
    /\ checked[r] - reqOf[r].ts <= window /\ checked[r] - reqOf[r].ts >= -window
    /\ checked[r] <= wrote[r] /\ wrote[r] <= checked[r] + Lag

\* For two windows after a nonce is stored, the cache holds it.
CacheCovers ==
  \A r \in Request :
    wrote[r] # 0 /\ ~(now > wrote[r] + 2 * window) =>
      /\ items[nonceKey(r)] # NoItem
      /\ items[nonceKey(r)].expiresAt >= wrote[r] + 2 * window

\* Every cached nonce was stored by one of its sender's requests.
ItemHasWriter ==
  \A k \in Keys : items[k] # NoItem =>
    \E a \in Request :
      nonceKey(a) = k /\ wrote[a] # 0 /\ items[k].expiresAt = wrote[a] + 2 * window

\* The inductive invariant.
IInv ==
  /\ TypeOK
  /\ InVerifyIsFresh
  /\ NotStoredYet
  /\ StoredIsFresh
  /\ CacheCovers
  /\ ItemHasWriter
  /\ NonceSpacing
-----------------------------------------------------------------------------
\* The window is positive: NewReplayGuard replaces any other setting.
LEMMA WindowIsPositive == window \in Nat /\ window > 0
  BY ReplayAssumption DEF window

\* The key of a nonce tells senders and nonces apart.
LEMMA KeyIsInjective ==
  ASSUME NEW a \in Request, NEW b \in Request
  PROVE  nonceKey(a) = nonceKey(b)
           <=> reqOf[a].id = reqOf[b].id /\ reqOf[a].nonce = reqOf[b].nonce
  BY DEF nonceKey

\* The initial state satisfies the invariant.
LEMMA InitIInv == Init => IInv
<1> SUFFICES ASSUME Init PROVE IInv
  OBVIOUS
<1> USE DEF Init, StoreInit
<1>1. TypeOK
  <2>1. 0 \in 0..now /\ now \in Nat \ {0}
    OBVIOUS
  <2>2. items \in [{nonceKey(r) : r \in Request} -> Item \cup {NoItem}]
    OBVIOUS
  <2>3. \A k \in DOMAIN items : items[k] = NoItem
    OBVIOUS
  <2> QED
    BY <2>1, <2>2, <2>3 DEF TypeOK
<1>2. InVerifyIsFresh
  BY DEF InVerifyIsFresh, InVerify
<1>3. NotStoredYet /\ StoredIsFresh /\ CacheCovers /\ NonceSpacing
  BY DEF NotStoredYet, StoredIsFresh, CacheCovers, NonceSpacing, StoredTwice
<1>4. ItemHasWriter
  BY DEF ItemHasWriter, Keys
<1> QED
  BY <1>1, <1>2, <1>3, <1>4 DEF IInv

\* A step that touches neither the clock, the cache nor the stored nonces, and
\* brings no request into Verify, preserves the invariant.
LEMMA QuietStep ==
  ASSUME IInv,
         now' = now, items' = items, wrote' = wrote, checked' = checked,
         pc' \in [Request -> {"sent", "rejected", "fresh", "locking", "accepted",
                              "reused", "error", "lost"}],
         seen' \in [Request -> 0..now],
         InVerify' \subseteq InVerify,
         \A r \in Request : pc'[r] = "sent" => pc[r] = "sent"
  PROVE  IInv'
<1>1. TypeOK'
  BY DEF IInv, TypeOK
<1>2. InVerifyIsFresh'
  BY DEF IInv, InVerifyIsFresh
<1>4. NotStoredYet'
  BY DEF IInv, NotStoredYet, InVerify
<1>3. StoredIsFresh' /\ CacheCovers' /\ ItemHasWriter' /\ NonceSpacing'
  BY DEF IInv, StoredIsFresh, CacheCovers, ItemHasWriter, Keys, NonceSpacing,
         StoredTwice, nonceKey
<1> QED
  BY <1>1, <1>2, <1>3, <1>4 DEF IInv

\* The step in which SetNX stores r's nonce preserves the invariant.
LEMMA StoreStep ==
  ASSUME IInv,
         NEW r \in InVerify, NEW t \in 1..now, NEW x \in {"accepted", "error"},
         SetNX(nonceKey(r), 1, nonceTTL, t),
         now' = now, checked' = checked,
         wrote' = [wrote EXCEPT ![r] = now],
         pc' = [pc EXCEPT ![r] = x],
         seen' \in [Request -> 0..now]
  PROVE  IInv'
<1> DEFINE k0 == nonceKey(r)
           e0 == now + 2 * window
<1> USE WindowIsPositive
<1>0. r \in Request /\ k0 \in Keys
  BY DEF InVerify, Keys
<1>1. e0 \in Nat /\ e0 >= now /\ now \in Nat /\ now > 0 /\ t \in Nat /\ t <= now
  BY DEF IInv, TypeOK
<1>2. /\ items' = [items EXCEPT ![k0] = [val |-> 1, expiresAt |-> e0]]
      /\ ~Live(k0, t)
  <2>1. expiry(nonceTTL) = e0
    BY DEF expiry, nonceTTL
  <2> QED
    BY <2>1 DEF SetNX, Set
<1>3. items \in [Keys -> Item \cup {NoItem}]
  BY DEF IInv, TypeOK, Keys
<1>4. /\ items'[k0] = [val |-> 1, expiresAt |-> e0]
      /\ \A k \in Keys : k # k0 => items'[k] = items[k]
      /\ items' \in [Keys -> Item \cup {NoItem}]
  BY <1>0, <1>1, <1>2, <1>3 DEF Item
<1>5. items'[k0] # NoItem /\ items'[k0].expiresAt = e0
  BY <1>1, <1>4, StoreAssumption DEF Item
<1>6. wrote'[r] = now /\ \A a \in Request : a # r => wrote'[a] = wrote[a]
  BY <1>0 DEF IInv, TypeOK
<1>7. pc'[r] = x /\ \A a \in Request : a # r => pc'[a] = pc[a]
  BY <1>0 DEF IInv, TypeOK
<1>8. \A a \in Request : wrote[a] \in Nat /\ wrote[a] <= now
  BY <1>1 DEF IInv, TypeOK
<1> HIDE DEF k0, e0
\* Whoever stored the nonce before did so more than two windows ago.
<1>9. \A a \in Request : nonceKey(a) = k0 /\ wrote[a] # 0 => now > wrote[a] + 2 * window
  <2> SUFFICES ASSUME NEW a \in Request, nonceKey(a) = k0, wrote[a] # 0,
                      ~(now > wrote[a] + 2 * window)
               PROVE  FALSE
    OBVIOUS
  <2>1. items[k0] # NoItem /\ items[k0].expiresAt >= wrote[a] + 2 * window
    BY DEF IInv, CacheCovers
  <2>2. items[k0].expiresAt \in Nat
    BY <1>0, <1>3, <2>1 DEF Item
  <2>3. t > items[k0].expiresAt
    BY <1>2, <2>1 DEF Live, expired
  <2> QED
    BY <1>1, <1>8, <2>1, <2>2, <2>3
<1>10. TypeOK'
  <2>1. \A k \in Keys : items'[k] # NoItem => items'[k].expiresAt \in 1..(now + 2 * window)
    <3> SUFFICES ASSUME NEW k \in Keys, items'[k] # NoItem
                 PROVE  items'[k].expiresAt \in 1..(now + 2 * window)
      OBVIOUS
    <3>1. CASE k = k0
      BY <1>1, <1>5, <3>1 DEF e0
    <3>2. CASE k # k0
      BY <1>4, <3>2 DEF IInv, TypeOK, Keys
    <3> QED
      BY <3>1, <3>2
  <2>2. wrote' \in [Request -> 0..now] /\ checked' \in [Request -> 0..now]
    <3>1. wrote \in [Request -> 0..now] /\ checked \in [Request -> 0..now]
      BY DEF IInv, TypeOK
    <3>2. now \in 0..now
      BY <1>1
    <3> QED
      BY <3>1, <3>2
  <2>3. pc' \in [Request -> {"sent", "rejected", "fresh", "locking", "accepted",
                             "reused", "error", "lost"}]
    BY DEF IInv, TypeOK
  <2> QED
    BY <1>1, <1>4, <2>1, <2>2, <2>3 DEF TypeOK, Keys, nonceKey
<1>11. InVerifyIsFresh'
  <2>1. \A a \in InVerify' : a \in InVerify /\ a # r /\ a \in Request
    BY <1>7 DEF InVerify
  <2> QED
    BY <1>6, <2>1 DEF IInv, InVerifyIsFresh
<1>12. StoredIsFresh'
  <2> SUFFICES ASSUME NEW a \in Request, wrote'[a] # 0
               PROVE  /\ checked[a] - reqOf[a].ts <= window
                      /\ checked[a] - reqOf[a].ts >= -window
                      /\ checked[a] <= wrote'[a] /\ wrote'[a] <= checked[a] + Lag
    BY DEF StoredIsFresh
  <2>1. CASE a = r
    <3>1. /\ checked[r] - reqOf[r].ts <= window /\ checked[r] - reqOf[r].ts >= -window
          /\ now <= checked[r] + Lag
      BY DEF IInv, InVerifyIsFresh
    <3>2. checked[r] <= now
      BY <1>0, <1>1 DEF IInv, TypeOK
    <3> QED
      BY <1>6, <2>1, <3>1, <3>2
  <2>2. CASE a # r
    BY <1>6, <2>2 DEF IInv, StoredIsFresh
  <2> QED
    BY <2>1, <2>2
<1>13. CacheCovers'
  <2> SUFFICES ASSUME NEW a \in Request, wrote'[a] # 0, ~(now > wrote'[a] + 2 * window)
               PROVE  /\ items'[nonceKey(a)] # NoItem
                      /\ items'[nonceKey(a)].expiresAt >= wrote'[a] + 2 * window
    BY DEF CacheCovers, nonceKey
  <2>1. CASE a = r
    BY <1>1, <1>5, <1>6, <2>1 DEF k0, e0
  <2>2. CASE a # r
    <3>1. nonceKey(a) # k0
      BY <1>6, <1>9, <2>2
    <3>2. nonceKey(a) \in Keys
      BY DEF Keys
    <3> QED
      BY <1>4, <1>6, <2>2, <3>1, <3>2 DEF IInv, CacheCovers
  <2> QED
    BY <2>1, <2>2
<1>14. ItemHasWriter'
  <2> SUFFICES ASSUME NEW k \in Keys, items'[k] # NoItem
               PROVE  \E a \in Request :
                        /\ nonceKey(a) = k /\ wrote'[a] # 0
                        /\ items'[k].expiresAt = wrote'[a] + 2 * window
    BY DEF ItemHasWriter, Keys, nonceKey
  <2>1. CASE k = k0
    BY <1>0, <1>1, <1>5, <1>6, <2>1 DEF k0, e0
  <2>2. CASE k # k0
    <3>1. PICK a \in Request : nonceKey(a) = k /\ wrote[a] # 0
                               /\ items[k].expiresAt = wrote[a] + 2 * window
      BY <1>4, <2>2 DEF IInv, ItemHasWriter
    <3>2. a # r
      BY <2>2, <3>1 DEF k0
    <3> QED
      BY <1>4, <1>6, <2>2, <3>1, <3>2
  <2> QED
    BY <2>1, <2>2
<1>15. NonceSpacing'
  <2> SUFFICES ASSUME NEW a \in Request, NEW b \in Request, a # b,
                      reqOf[a].id = reqOf[b].id, reqOf[a].nonce = reqOf[b].nonce,
                      wrote'[a] # 0, wrote'[a] <= wrote'[b]
               PROVE  wrote'[b] > wrote'[a] + 2 * window
    BY DEF NonceSpacing, StoredTwice
  <2>1. nonceKey(a) = nonceKey(b)
    BY KeyIsInjective
  <2>2. CASE b = r
    BY <1>6, <1>9, <2>1, <2>2 DEF k0
  <2>3. CASE a = r
    <3>1. wrote[b] # 0 /\ nonceKey(b) = k0
      BY <1>1, <1>6, <2>1, <2>3 DEF k0
    <3>2. now > wrote[b] + 2 * window
      BY <1>9, <3>1
    <3> QED
      BY <1>1, <1>6, <1>8, <2>3, <3>2
  <2>4. CASE a # r /\ b # r
    BY <1>6, <2>4 DEF IInv, NonceSpacing, StoredTwice
  <2> QED
    BY <2>2, <2>3, <2>4
<1>16. NotStoredYet'
  BY <1>6, <1>7 DEF IInv, NotStoredYet
<1> QED
  BY <1>10, <1>11, <1>12, <1>13, <1>14, <1>15, <1>16 DEF IInv

\* The window check brings a fresh request into Verify.
LEMMA FreshStep ==
  ASSUME IInv, NEW r \in Request, VerifyFresh(r)
  PROVE  IInv'
<1> USE DEF VerifyFresh
<1>1. wrote[r] = 0
  BY DEF IInv, NotStoredYet
<1>2. now \in Nat /\ now \in 0..now /\ checked \in [Request -> 0..now]
  BY DEF IInv, TypeOK
<1>3. checked'[r] = now /\ \A a \in Request : a # r => checked'[a] = checked[a]
  BY <1>2
<1>4. pc \in [Request -> {"sent", "rejected", "fresh", "locking", "accepted",
                          "reused", "error", "lost"}]
  BY DEF IInv, TypeOK
<1>5. TypeOK'
  <2>1. checked' \in [Request -> 0..now]
    BY <1>2
  <2>2. pc' \in [Request -> {"sent", "rejected", "fresh", "locking", "accepted",
                             "reused", "error", "lost"}]
    BY <1>4
  <2> QED
    BY <2>1, <2>2 DEF IInv, TypeOK, nonceKey
<1>6. InVerifyIsFresh'
  <2> SUFFICES ASSUME NEW a \in InVerify'
               PROVE  /\ checked'[a] - reqOf[a].ts <= window
                      /\ checked'[a] - reqOf[a].ts >= -window
                      /\ now <= checked'[a] + Lag
    BY DEF InVerifyIsFresh
  <2>1. CASE a = r
    BY <1>2, <1>3, <2>1, ReplayAssumption DEF InWindow
  <2>2. CASE a # r
    BY <1>3, <1>4, <2>2 DEF IInv, InVerifyIsFresh, InVerify
  <2> QED
    BY <2>1, <2>2
<1>7. NotStoredYet'
  BY <1>1, <1>4 DEF IInv, NotStoredYet
<1>8. StoredIsFresh'
  BY <1>1, <1>3 DEF IInv, StoredIsFresh
<1>9. CacheCovers' /\ ItemHasWriter' /\ NonceSpacing'
  BY DEF IInv, CacheCovers, ItemHasWriter, Keys, NonceSpacing, StoredTwice, nonceKey
<1> QED
  BY <1>5, <1>6, <1>7, <1>8, <1>9 DEF IInv

\* The clock advances, but for no request in Verify beyond the lag.
LEMMA TickStep ==
  ASSUME IInv, Tick
  PROVE  IInv'
<1> USE WindowIsPositive, ReplayAssumption
<1>1. /\ now \in Nat \ {0} /\ now' = now + 1
      /\ UNCHANGED <<items, pc, checked, seen, wrote>>
  BY DEF Tick, IInv, TypeOK
<1>2. 0..now \subseteq 0..now' /\ now' \in Nat \ {0}
  BY <1>1
<1>3. TypeOK'
  <2>1. \A k \in DOMAIN items : items[k] # NoItem
          => items[k].expiresAt \in 1..(now' + 2 * window)
    BY <1>1 DEF IInv, TypeOK
  <2>2. /\ checked' \in [Request -> 0..now'] /\ seen' \in [Request -> 0..now']
        /\ wrote' \in [Request -> 0..now']
    BY <1>1, <1>2 DEF IInv, TypeOK
  <2> QED
    BY <1>1, <1>2, <2>1, <2>2 DEF IInv, TypeOK, nonceKey
<1>4. InVerifyIsFresh'
  <2>1. \A r \in InVerify : now' <= checked[r] + Lag
    BY <1>1 DEF Tick, IInv, TypeOK, InVerify
  <2> QED
    BY <1>1, <2>1 DEF IInv, InVerifyIsFresh, InVerify
<1>5. CacheCovers'
  <2>1. \A r \in Request : wrote[r] \in Nat
    BY <1>1 DEF IInv, TypeOK
  <2>2. \A r \in Request : ~(now' > wrote[r] + 2 * window) => ~(now > wrote[r] + 2 * window)
    BY <1>1, <2>1
  <2> QED
    BY <1>1, <2>2 DEF IInv, CacheCovers, nonceKey
<1>6. NotStoredYet' /\ StoredIsFresh' /\ ItemHasWriter' /\ NonceSpacing'
  BY <1>1 DEF IInv, NotStoredYet, StoredIsFresh, ItemHasWriter, Keys, NonceSpacing,
              StoredTwice, nonceKey
<1> QED
  BY <1>3, <1>4, <1>5, <1>6 DEF IInv

\* The janitor removes only nonces stored more than two windows ago.
LEMMA JanitorStep ==
  ASSUME IInv, Janitor
  PROVE  IInv'
<1> USE WindowIsPositive
<1>1. UNCHANGED <<now, pc, checked, seen, wrote>>
  BY DEF Janitor, janitor
<1>2. items \in [Keys -> Item \cup {NoItem}] /\ now \in Nat
  BY DEF IInv, TypeOK, Keys
<1>3. PICK t \in 1..now :
        items' = [k \in DOMAIN items |->
                    IF items[k] # NoItem /\ expired(items[k], t) THEN NoItem ELSE items[k]]
  BY DEF Janitor, janitor
<1>4. /\ items' \in [Keys -> Item \cup {NoItem}]
      /\ \A k \in Keys : items'[k] # NoItem => items'[k] = items[k] /\ items[k] # NoItem
  BY <1>2, <1>3
<1>5. TypeOK'
  <2>1. \A k \in Keys : items'[k] # NoItem => items'[k].expiresAt \in 1..(now + 2 * window)
    BY <1>4 DEF IInv, TypeOK, Keys
  <2> QED
    BY <1>1, <1>4, <2>1 DEF IInv, TypeOK, Keys, nonceKey
<1>6. CacheCovers'
  <2> SUFFICES ASSUME NEW r \in Request, wrote[r] # 0, ~(now > wrote[r] + 2 * window)
               PROVE  items'[nonceKey(r)] = items[nonceKey(r)]
    BY <1>1 DEF IInv, CacheCovers, nonceKey
  <2>1. /\ items[nonceKey(r)] # NoItem
        /\ items[nonceKey(r)].expiresAt >= wrote[r] + 2 * window
    BY DEF IInv, CacheCovers
  <2>2. nonceKey(r) \in Keys
    BY DEF Keys
  <2>3. items[nonceKey(r)].expiresAt \in Nat /\ wrote[r] \in Nat
    BY <1>2, <2>1, <2>2 DEF Item, IInv, TypeOK
  <2>4. ~expired(items[nonceKey(r)], t)
    BY <1>2, <2>1, <2>3 DEF expired
  <2> QED
    BY <1>2, <1>3, <2>2, <2>4
<1>7. ItemHasWriter'
  BY <1>1, <1>4 DEF IInv, ItemHasWriter, Keys, nonceKey
<1>8. InVerifyIsFresh' /\ NotStoredYet' /\ StoredIsFresh' /\ NonceSpacing'
  BY <1>1 DEF IInv, InVerifyIsFresh, InVerify, NotStoredYet, StoredIsFresh,
              NonceSpacing, StoredTwice
<1> QED
  BY <1>5, <1>6, <1>7, <1>8 DEF IInv

\* A restart of the process empties the in-memory store and leaves Redis alone.
LEMMA RestartStep ==
  ASSUME IInv, Restart
  PROVE  IInv'
<1> DEFINE Pc == {"sent", "rejected", "fresh", "locking", "accepted",
                  "reused", "error", "lost"}
<1>1. PICK lost \in SUBSET InVerify :
        /\ pc' = [r \in Request |-> IF r \in lost THEN "lost" ELSE pc[r]]
        /\ seen' = [r \in Request |-> IF r \in lost THEN 0 ELSE seen[r]]
  BY DEF Restart
<1>2. now' = now /\ checked' = checked /\ now \in Nat
  BY DEF Restart, IInv, TypeOK
<1>3. pc' \in [Request -> Pc] /\ seen' \in [Request -> 0..now]
  BY <1>1, <1>2 DEF IInv, TypeOK
<1>4. InVerify' \subseteq InVerify /\ \A r \in Request : pc'[r] = "sent" => pc[r] = "sent"
  BY <1>1 DEF InVerify
<1>5. CASE redis
  <2>1. items' = items /\ wrote' = wrote
    BY <1>5 DEF Restart, StoreRestart
  <2> QED
    BY <1>2, <1>3, <1>4, <2>1, QuietStep
<1>6. CASE ~redis
  <2>1. /\ items' = [k \in DOMAIN items |-> NoItem]
        /\ wrote' = [r \in Request |-> 0]
    BY <1>6 DEF Restart, StoreRestart
  <2>2. items' \in [Keys -> Item \cup {NoItem}] /\ \A k \in Keys : items'[k] = NoItem
    BY <2>1 DEF IInv, TypeOK, Keys
  <2>3. wrote' \in [Request -> 0..now] /\ \A r \in Request : wrote'[r] = 0
    BY <1>2, <2>1
  <2>4. TypeOK'
    BY <1>2, <1>3, <2>2, <2>3 DEF IInv, TypeOK, Keys, nonceKey
  <2>5. InVerifyIsFresh'
    BY <1>2, <1>4 DEF IInv, InVerifyIsFresh
  <2>6. NotStoredYet' /\ StoredIsFresh' /\ CacheCovers' /\ NonceSpacing'
    BY <2>3 DEF NotStoredYet, StoredIsFresh, CacheCovers, NonceSpacing, StoredTwice
  <2>7. ItemHasWriter'
    BY <2>2 DEF ItemHasWriter, Keys, nonceKey
  <2> QED
    BY <2>4, <2>5, <2>6, <2>7 DEF IInv
<1> QED
  BY <1>5, <1>6

\* A step of one request's Verify.
LEMMA VerifyStep ==
  ASSUME IInv, NEW r \in Request, VerifySteps(r)
  PROVE  IInv'
<1> DEFINE Pc == {"sent", "rejected", "fresh", "locking", "accepted",
                  "reused", "error", "lost"}
<1>1. pc \in [Request -> Pc] /\ seen \in [Request -> 0..now] /\ now \in Nat
      /\ 0 \in 0..now /\ now \in 0..now
  BY DEF IInv, TypeOK
<1>2. CASE VerifyRejects(r)
  <2>1. /\ pc' = [pc EXCEPT ![r] = "rejected"]
        /\ UNCHANGED <<now, items, checked, seen, wrote>>
    BY <1>2 DEF VerifyRejects
  <2>2. pc' \in [Request -> Pc] /\ InVerify' \subseteq InVerify
        /\ \A a \in Request : pc'[a] = "sent" => pc[a] = "sent"
    BY <1>1, <2>1 DEF InVerify
  <2> QED
    BY <1>1, <2>1, <2>2, QuietStep
<1>3. CASE VerifyFresh(r)
  BY <1>3, FreshStep
<1>4. CASE SetNXReadsClock(r)
  <2>1. /\ pc[r] = "fresh" /\ pc' = [pc EXCEPT ![r] = "locking"]
        /\ seen' = [seen EXCEPT ![r] = now]
        /\ UNCHANGED <<now, items, checked, wrote>>
    BY <1>4 DEF SetNXReadsClock
  <2>2. pc' \in [Request -> Pc] /\ InVerify' \subseteq InVerify
        /\ \A a \in Request : pc'[a] = "sent" => pc[a] = "sent"
    BY <1>1, <2>1 DEF InVerify
  <2>3. seen' \in [Request -> 0..now]
    BY <1>1, <2>1
  <2> QED
    BY <2>1, <2>2, <2>3, QuietStep
<1>5. CASE VerifyAccepts(r)
  <2>1. PICK t \in 1..now :
          /\ AtStore(r, t)
          /\ SetNX(nonceKey(r), 1, nonceTTL, t)
          /\ pc' = [pc EXCEPT ![r] = "accepted"]
          /\ seen' = [seen EXCEPT ![r] = 0]
          /\ wrote' = [wrote EXCEPT ![r] = now]
          /\ UNCHANGED <<now, checked>>
    BY <1>5 DEF VerifyAccepts
  <2>2. r \in InVerify
    BY <2>1 DEF AtStore, InVerify
  <2>3. seen' \in [Request -> 0..now]
    BY <1>1, <2>1
  <2> QED
    BY <2>1, <2>2, <2>3, StoreStep
<1>6. CASE VerifyReused(r)
  <2>1. /\ items' = items /\ pc' = [pc EXCEPT ![r] = "reused"]
        /\ seen' = [seen EXCEPT ![r] = 0]
        /\ UNCHANGED <<now, checked, wrote>>
    BY <1>6 DEF VerifyReused, SetNXFinds
  <2>2. pc' \in [Request -> Pc] /\ InVerify' \subseteq InVerify
        /\ \A a \in Request : pc'[a] = "sent" => pc[a] = "sent"
    BY <1>1, <2>1 DEF InVerify
  <2>3. seen' \in [Request -> 0..now]
    BY <1>1, <2>1
  <2> QED
    BY <2>1, <2>2, <2>3, QuietStep
<1>7. CASE VerifyErrs(r)
  <2>1. /\ AtStore(r, now) /\ SetNXFails(nonceKey(r), 1, nonceTTL)
        /\ pc' = [pc EXCEPT ![r] = "error"]
        /\ wrote' = [wrote EXCEPT ![r] = IF items' = items THEN 0 ELSE now]
        /\ UNCHANGED <<now, checked, seen>>
    BY <1>7 DEF VerifyErrs
  <2>2. r \in InVerify
    BY <2>1 DEF AtStore, InVerify
  <2>3. CASE items' = items
    <3>1. wrote' = wrote
      <4>1. wrote[r] = 0 /\ wrote \in [Request -> 0..now]
        BY <2>2 DEF IInv, NotStoredYet, InVerify, TypeOK
      <4> QED
        BY <2>1, <2>3, <4>1
    <3>2. pc' \in [Request -> Pc] /\ InVerify' \subseteq InVerify
          /\ \A a \in Request : pc'[a] = "sent" => pc[a] = "sent"
      BY <1>1, <2>1 DEF InVerify
    <3> QED
      BY <1>1, <2>1, <2>3, <3>1, <3>2, QuietStep
  <2>4. CASE items' # items
    <3>1. SetNX(nonceKey(r), 1, nonceTTL, now)
      BY <2>1, <2>4 DEF SetNXFails
    <3>2. now \in 1..now
      BY DEF IInv, TypeOK
    <3>3. wrote' = [wrote EXCEPT ![r] = now]
      BY <2>1, <2>4
    <3> QED
      BY <1>1, <2>1, <2>2, <3>1, <3>2, <3>3, StoreStep
  <2> QED
    BY <2>3, <2>4
<1> QED
  BY <1>2, <1>3, <1>4, <1>5, <1>6, <1>7 DEF VerifySteps
-----------------------------------------------------------------------------
\* Every step of the specification preserves the invariant.
THEOREM NextIInv == IInv /\ [Next]_vars => IInv'
<1> SUFFICES ASSUME IInv, [Next]_vars PROVE IInv'
  OBVIOUS
<1>1. CASE UNCHANGED vars
  BY <1>1 DEF vars, IInv, TypeOK, InVerifyIsFresh, InVerify, NotStoredYet, StoredIsFresh,
              CacheCovers, ItemHasWriter, Keys, NonceSpacing, StoredTwice, nonceKey
<1>2. CASE Next
  BY <1>2, TickStep, RestartStep, JanitorStep, VerifyStep DEF Next
<1> QED
  BY <1>1, <1>2

\* The inductive invariant holds throughout.
THEOREM Invariance == Spec => []IInv
  BY InitIInv, NextIInv, PTL DEF Spec

\* The variables keep their types, and every cached nonce has an expiry.
THEOREM TypeCorrect == Spec => []TypeOK
<1>1. IInv => TypeOK
  BY DEF IInv
<1> QED
  BY <1>1, Invariance, PTL

\* A nonce is stored again only after more than two windows.
THEOREM NoncesAreSpaced == Spec => []NonceSpacing
<1>1. IInv => NonceSpacing
  BY DEF IInv
<1> QED
  BY <1>1, Invariance, PTL

\* Spacing and the window check of the second arrival bound the first one's
\* clock reading.
LEMMA SpacingBoundsClock ==
  ASSUME IInv, NEW a \in Request, NEW b \in Request,
         StoredTwice(a, b), reqOf[a].ts = reqOf[b].ts
  PROVE  reqOf[a].ts - checked[a] > window - Lag
<1>1. wrote[b] > wrote[a] + 2 * window
  BY DEF IInv, NonceSpacing
<1>2. wrote[a] \in Nat /\ wrote[b] \in Nat /\ checked[a] \in Nat /\ checked[b] \in Nat
  <2>1. now \in Nat /\ wrote \in [Request -> 0..now] /\ checked \in [Request -> 0..now]
    BY DEF IInv, TypeOK
  <2> QED
    BY <2>1
<1>3. wrote[a] # 0 /\ wrote[b] # 0
  <2>1. wrote[a] # 0
    BY DEF StoredTwice
  <2>2. wrote[b] # 0
    BY <1>1, <1>2, WindowIsPositive
  <2> QED
    BY <2>1, <2>2
<1>4. /\ checked[a] <= wrote[a]
      /\ wrote[b] <= checked[b] + Lag
      /\ checked[b] - reqOf[b].ts <= window
  BY <1>3 DEF IInv, StoredIsFresh
<1> QED
  BY <1>1, <1>2, <1>4, WindowIsPositive, ReplayAssumption

\* One message is accepted twice only if its timestamp was ahead by more than
\* the window less the lag.
THEOREM SecondNeedsEarlyClock == Spec => []AcceptedOnce
<1>1. IInv => AcceptedOnce
  BY SpacingBoundsClock DEF AcceptedOnce
<1> QED
  BY <1>1, Invariance, PTL

\* No two arrivals of one message store its nonce in the same store.
NeverTwice ==
  \A a, b \in Request : StoredTwice(a, b) => reqOf[a].ts # reqOf[b].ts

\* Without lag between the window check and the store no message is accepted
\* twice, for the first arrival passed the window check too.
THEOREM AtMostOnceWithoutLag ==
  ASSUME Lag = 0
  PROVE  Spec => []NeverTwice
<1>1. IInv => NeverTwice
  <2> SUFFICES ASSUME IInv, NEW a \in Request, NEW b \in Request,
                      StoredTwice(a, b), reqOf[a].ts = reqOf[b].ts
               PROVE  FALSE
    BY DEF NeverTwice
  <2>1. reqOf[a].ts - checked[a] > window - Lag
    BY SpacingBoundsClock
  <2>2. checked[a] - reqOf[a].ts >= -window
    BY DEF IInv, StoredIsFresh, StoredTwice
  <2>3. checked[a] \in Nat /\ reqOf[a].ts \in Nat
    BY ReplayAssumption DEF IInv, TypeOK
  <2> QED
    BY <2>1, <2>2, <2>3, WindowIsPositive
<1> QED
  BY <1>1, Invariance, PTL

\* A nonce is refused as used only if its own sender stored it, at most two
\* windows before: in the step that refuses it the cache holds it.
THEOREM RefusedWasUsed == Spec => ReusedMeansUsed
<1> DEFINE A == \A b \in Request :
                  pc[b] # "reused" /\ pc'[b] = "reused" =>
                    \E a \in Request :
                      /\ reqOf[a].id = reqOf[b].id /\ reqOf[a].nonce = reqOf[b].nonce
                      /\ wrote[a] # 0
                      /\ (IF redis THEN now ELSE seen[b]) <= wrote[a] + 2 * window
<1>1. IInv /\ [Next]_vars => [A]_vars
  <2> SUFFICES ASSUME IInv, Next, NEW b \in Request, pc[b] # "reused", pc'[b] = "reused"
               PROVE  \E a \in Request :
                        /\ reqOf[a].id = reqOf[b].id /\ reqOf[a].nonce = reqOf[b].nonce
                        /\ wrote[a] # 0
                        /\ (IF redis THEN now ELSE seen[b]) <= wrote[a] + 2 * window
    OBVIOUS
  <2>1. VerifyReused(b)
    <3>1. pc \in [Request -> {"sent", "rejected", "fresh", "locking", "accepted",
                              "reused", "error", "lost"}]
      BY DEF IInv, TypeOK
    <3>2. ~(Tick \/ Restart \/ Janitor)
      BY <3>1 DEF Tick, Restart, Janitor, janitor
    <3>3. PICK r \in Request : VerifySteps(r)
      BY <3>2 DEF Next
    <3>4. r = b /\ VerifyReused(r)
      BY <3>1, <3>3 DEF VerifySteps, VerifyRejects, VerifyFresh, SetNXReadsClock,
                        VerifyAccepts, VerifyReused, VerifyErrs
    <3> QED
      BY <3>4
  <2>2. PICK t \in 1..now : AtStore(b, t) /\ Live(nonceKey(b), t)
    BY <2>1 DEF VerifyReused, SetNXFinds
  <2>3. t = IF redis THEN now ELSE seen[b]
    BY <2>2 DEF AtStore
  <2>4. nonceKey(b) \in Keys
    BY DEF Keys
  <2>5. PICK a \in Request : /\ nonceKey(a) = nonceKey(b) /\ wrote[a] # 0
                             /\ items[nonceKey(b)].expiresAt = wrote[a] + 2 * window
    BY <2>2, <2>4 DEF Live, IInv, ItemHasWriter
  <2>6. wrote[a] \in Nat /\ now \in Nat /\ t \in Nat
    BY DEF IInv, TypeOK
  <2>7. t <= wrote[a] + 2 * window
    BY <2>2, <2>5, <2>6, WindowIsPositive DEF Live, expired
  <2> QED
    BY <2>3, <2>5, <2>7, KeyIsInjective
<1> QED
  BY <1>1, Invariance, PTL DEF Spec, ReusedMeansUsed
-----------------------------------------------------------------------------
(* The way of a request. *)

\* r was authenticated: its message is intact and its leaf the vendor's, and its
\* tenant was active when it was looked up.
Authentic(r) ==
  /\ Intact(r)
  /\ m(r).leaf # NoCert /\ m(r).leaf.vendor /\ ident(r) # NoIdentity
  /\ saw[r] = "active"

\* What is known of a request, by where it is.
Way(r) ==
  /\ at[r] \in {"none", "connected"} => pc[r] = "sent"
  /\ at[r] = "connected" =>
       m(r).via = "grpc" /\ (m(r).leaf = NoCert \/ m(r).leaf.vendor)
  /\ at[r] = "verify" => ~Exempt(r)
  /\ at[r] \in {"verify", "verified", "handled"} /\ ~Exempt(r) => Authentic(r)
  /\ wrote[r] # 0 => Authentic(r)
  /\ at[r] = "handled" /\ m(r).path = "ingest" => m(r).body.plain = ident(r).cluster
  /\ at[r] \in {"verify", "verified"} /\ m(r).via = "signed" =>
       m(r).body.kid \in advertised

WayInv ==
  /\ scenario \in Scenario
  /\ tenants \in [Cluster -> {"active", "revoked", "deleted"}]
  /\ DOMAIN at = Request /\ DOMAIN answer = Request /\ DOMAIN saw = Request
  /\ \A r \in Request : Way(r)

\* The keys from the i-th to the j-th.
KidsFrom(i, j) == {Kid[k] : k \in i..j}

\* The file holds the keys from the lo-th to the hi-th, newest first.
FileHolds(lo, hi) ==
  /\ keyFile \in Seq(Range(Kid)) /\ Len(keyFile) = hi - lo + 1
  /\ \A j \in 1..Len(keyFile) : keyFile[j] = Kid[hi - j + 1]

\* The process holds the keys from the lo-th to the hi-th, and none later was
\* ever advertised.
SetHolds(lo, hi) ==
  /\ keys = [active |-> Kid[hi], all |-> KidsFrom(lo, hi)]
  /\ advertised \subseteq KidsFrom(1, hi)

\* r's sender was told that its key is unknown, which nobody changed.
ToldUnknown(r) ==
  answer[r] = <<400, "hpke_key_unknown">> /\ ~(Exempt(r) /\ ~Intact(r))

\* The key set is an earlier state of the file, and the file only advances:
\* a key that was reported unknown is older than all in the file.
Rotation(lo, hi, lo0, hi0) ==
  /\ lo0 <= lo /\ lo <= hi /\ lo0 <= hi0 /\ hi0 <= hi
  /\ FileHolds(lo, hi) /\ SetHolds(lo0, hi0)
  /\ \A r \in Request : ToldUnknown(r) => m(r).kid \in KidsFrom(1, lo - 1)

KeyInv == \E lo, hi, lo0, hi0 \in DOMAIN Kid : Rotation(lo, hi, lo0, hi0)
-----------------------------------------------------------------------------
(* Transport implements ReplayGuard. *)

\* Every step of the transports is a step of the replay guard or leaves it alone.
LEMMA GuardStep ==
  ASSUME scenario \in Scenario, [TransportNext]_transportVars
  PROVE  [Next]_vars /\ scenario' = scenario
<1>1. ASSUME NEW r \in scenario.requests, RequestStep(r)
      PROVE  [Next]_vars /\ scenario' = scenario
  <2>1. r \in Request
    BY <1>1, TransportAssumption
  <2>2. CASE Verify(r)
    BY <2>1, <2>2 DEF Verify, Next, envVars
  <2>3. CASE ~Verify(r)
    <3>1. UNCHANGED <<vars, envVars>>
      BY <1>1, <2>3
      DEF RequestStep, Handshake, InterceptorsExempt, AuthInterceptorRefuses,
          RevocationInterceptor, ReceiveRefuses, ReceiveExempt, AuthenticateRefuses,
          LookupTenant, OpenRequestFails, Handle
    <3> QED
      BY <3>1 DEF envVars
  <2> QED
    BY <2>2, <2>3
<1>2. CASE (Tick \/ Janitor) /\ UNCHANGED <<redis, wayVars, envVars>>
  BY <1>2 DEF Next, envVars
<1>3. CASE TransportRestart
  BY <1>3 DEF TransportRestart, Next
<1>4. CASE Advertise \/ (\E c \in Cluster : TenantsChange(c)) \/ KeyPrepended \/ KeyRemoved
  BY <1>4 DEF Advertise, TenantsChange, KeyPrepended, KeyRemoved
<1>5. CASE UNCHANGED transportVars
  BY <1>5 DEF transportVars, envVars
<1> QED
  BY <1>1, <1>2, <1>3, <1>4, <1>5 DEF TransportNext

\* What is proved of the replay guard holds on both transports: they only ever
\* use it as its specification says.
THEOREM ImplementsReplayGuard == TransportSpec => Spec
<1>1. TransportInit => Init /\ scenario \in Scenario
  BY DEF TransportInit
<1>2. scenario \in Scenario /\ [TransportNext]_transportVars => [Next]_vars /\ (scenario \in Scenario)'
  BY GuardStep
<1> QED
  BY <1>1, <1>2, PTL DEF TransportSpec, Spec
-----------------------------------------------------------------------------
(* The certificate and the signature. *)

\* The signature covers the whole message, the body through its digest: a
\* message whose signature verifies under a vendor leaf is as it was sent.
LEMMA SignedIsIntact ==
  ASSUME NEW r \in Request, m(r).via = "signed", Framed(m(r)),
         m(r).leaf # NoCert, m(r).leaf.vendor, VerifyRequest(m(r))
  PROVE  Intact(r)
<1>1. PICK s \in Sent : /\ s.via = "signed" /\ s.frame = "ok" /\ VerifyContentDigest(s)
                        /\ s.sig = m(r).sig /\ VerifyRequest(s)
  BY SignaturesAreMade
<1> DEFINE msg == m(r)
<1> HIDE DEF msg
<1>2. SignatureBase(s) = SignatureBase(msg)
  <2>1. s.sig.over = <<SignatureBase(s), s.sig.created, s.sig.keyid>>
    BY <1>1 DEF VerifyRequest
  <2>2. msg.sig.over = <<SignatureBase(msg), msg.sig.created, msg.sig.keyid>>
    BY DEF VerifyRequest, msg
  <2>3. s.sig = msg.sig
    BY <1>1 DEF msg
  <2> QED
    BY <2>1, <2>2, <2>3
<1>3. /\ s.path = msg.path /\ s.digest = msg.digest /\ s.ts = msg.ts
      /\ s.nonce = msg.nonce /\ s.leaf = msg.leaf /\ s.kid = msg.kid
  BY <1>2 DEF SignatureBase
<1>4. s.body = msg.body /\ s.frame = msg.frame /\ s.via = msg.via /\ s.sig = msg.sig
  BY <1>1, <1>3 DEF Framed, VerifyContentDigest, msg
<1>5. IsMessage(s) /\ IsMessage(msg)
  BY SignaturesAreMade DEF msg
<1>6. s = msg
  BY <1>3, <1>4, <1>5, Zenon DEF IsMessage
<1> QED
  BY <1>6 DEF Intact, msg

\* A path of two parts has one for the tenant and one for the cluster.
LEMMA PathOfTwo ==
  ASSUME NEW t \in Seq(STRING), NEW c \in Seq(STRING), t # <<>>, c # <<>>, Len(t \o c) = 2
  PROVE  t = <<(t \o c)[1]>> /\ c = <<(t \o c)[2]>>
<1>1. Len(t) \in Nat /\ Len(c) \in Nat /\ Len(t) # 0 /\ Len(c) # 0
  OBVIOUS
<1>2. /\ Len(t \o c) = Len(t) + Len(c)
      /\ \A i \in 1 .. Len(t) + Len(c) : (t \o c)[i] = IF i <= Len(t) THEN t[i] ELSE c[i - Len(t)]
  BY ConcatProperties, Zenon
<1>3. Len(t) = 1 /\ Len(c) = 1
  <2>1. \A a, b \in Nat : a # 0 /\ b # 0 /\ a + b = 2 => a = 1 /\ b = 1
    OBVIOUS
  <2>2. Len(t) + Len(c) = 2
    BY <1>2
  <2> QED
    BY <1>1, <2>1, <2>2, Zenon
<1>4. (t \o c)[1] = t[1] /\ (t \o c)[2] = c[1]
  <2>1. /\ (t \o c)[1] = IF 1 <= Len(t) THEN t[1] ELSE c[1 - Len(t)]
        /\ (t \o c)[2] = IF 2 <= Len(t) THEN t[2] ELSE c[2 - Len(t)]
    BY <1>2, <1>3
  <2> QED
    BY <1>3, <2>1
<1>5. t = <<t[1]>> /\ c = <<c[1]>>
  BY <1>3
<1> QED
  BY <1>4, <1>5

\* The identity read out of a vendor leaf, from its URI or its common name, is
\* the one that it was signed for.
LEMMA OwnerIsIdentity ==
  ASSUME NEW r \in Request, m(r).leaf # NoCert, m(r).leaf.vendor, ident(r) # NoIdentity
  PROVE  m(r).leaf.owner = ident(r)
<1> DEFINE leaf == m(r).leaf
           id == leaf.owner
<1>1. leaf = Sign(id, leaf.key, leaf.notAfter)
      /\ id \in [tenant : Seq(STRING), cluster : Seq(STRING) \ {<<>>}]
  BY LeavesAreSigned
<1>2. ident(r) = ExtractFromCert(leaf) /\ leaf # NoCert /\ ident(r) # NoIdentity
  BY DEF ident
<1>s. SUFFICES id = ident(r)
  OBVIOUS
<1> HIDE DEF leaf
<1> DEFINE t == id.tenant
           c == id.cluster
           n == leaf.notAfter
           k == leaf.key
<1>a. leaf = Sign(id, k, n)
  BY <1>1
<1> HIDE DEF id, n, k
<1>3. leaf.cn = c /\ leaf.uri = IF t = <<>> THEN NoURI ELSE t \o c
  BY <1>a DEF Sign
<1>4. t \in Seq(STRING) /\ c \in Seq(STRING) /\ c # <<>> /\ id = [tenant |-> t, cluster |-> c]
  BY <1>1
<1> HIDE DEF t, c
<1>5. CASE t = <<>>
  BY <1>2, <1>3, <1>4, <1>5 DEF ExtractFromCert
<1>6. CASE t # <<>>
  <2>0. t \o c \in Seq(STRING)
    BY <1>4, ConcatProperties, Zenon
  <2>1. leaf.uri = t \o c /\ leaf.uri # NoURI
    BY <1>3, <1>6, <2>0, TransportAssumption
  <2>2. ident(r) = parseSpiffePath(t \o c)
    BY <1>2, <2>1 DEF ExtractFromCert
  <2>3. Len(t \o c) = 2 /\ ident(r) = [tenant |-> <<(t \o c)[1]>>, cluster |-> <<(t \o c)[2]>>]
    BY <1>2, <2>2 DEF parseSpiffePath
  <2>4. t = <<(t \o c)[1]>> /\ c = <<(t \o c)[2]>>
    BY <1>4, <1>6, <2>3, PathOfTwo
  <2>5. ident(r) = [tenant |-> t, cluster |-> c]
    BY <2>3, <2>4, Zenon
  <2> QED
    BY <1>4, <2>5
<1> QED
  BY <1>5, <1>6
-----------------------------------------------------------------------------
(* Where a request is, and what that tells. *)

\* Before the first request nothing is asked of any.
LEMMA InitWay == TransportInit => WayInv
<1> SUFFICES ASSUME TransportInit PROVE WayInv
  OBVIOUS
<1>1. /\ scenario \in Scenario /\ tenants \in [Cluster -> {"active", "revoked", "deleted"}]
      /\ DOMAIN at = Request /\ DOMAIN answer = Request /\ DOMAIN saw = Request
      /\ \A r \in Request : at[r] = "none" /\ pc[r] = "sent" /\ wrote[r] = 0
  BY DEF TransportInit, Init
<1> QED
  BY <1>1 DEF WayInv, Way

\* What authenticate does with the tenant's state.
LEMMA LookupCases ==
  ASSUME NEW r, LookupTenant(r)
  PROVE  \/ Lookup(r) = "deleted" /\ Answers(r, <<403, "unknown_tenant">>)
         \/ Lookup(r) = "revoked" /\ Answers(r, <<403, "revoked">>)
         \/ Lookup(r) \notin {"deleted", "revoked"} /\ Proceeds(r, "verify")
<1>1. CASE Lookup(r) = "deleted"
  BY <1>1 DEF LookupTenant, Answers
<1>2. CASE Lookup(r) = "revoked"
  BY <1>2 DEF LookupTenant, Answers
<1>3. CASE Lookup(r) \notin {"deleted", "revoked"}
  BY <1>3 DEF LookupTenant, Proceeds
<1> QED
  BY <1>1, <1>2, <1>3

\* A step of r's goroutine leaves the other requests, and the environment, alone.
LEMMA OthersStay ==
  ASSUME IInv, WayInv, NEW r \in Request, RequestStep(r)
  PROVE  /\ UNCHANGED envVars
         /\ DOMAIN at' = Request /\ DOMAIN answer' = Request /\ DOMAIN saw' = Request
         /\ \A q \in Request \ {r} :
              /\ at'[q] = at[q] /\ answer'[q] = answer[q] /\ saw'[q] = saw[q]
              /\ pc'[q] = pc[q] /\ wrote'[q] = wrote[q]
<1>0. DOMAIN at = Request /\ DOMAIN answer = Request /\ DOMAIN saw = Request
      /\ DOMAIN pc = Request /\ DOMAIN wrote = Request
  BY DEF WayInv, IInv, TypeOK
<1>1. UNCHANGED envVars
  BY DEF RequestStep, Handshake, InterceptorsExempt, AuthInterceptorRefuses, RevocationInterceptor,
         ReceiveRefuses, ReceiveExempt, AuthenticateRefuses, LookupTenant, OpenRequestFails, Verify,
         Handle
<1>2. (\E a : at' = [at EXCEPT ![r] = a]) \/ at' = at
  <2>1. CASE \/ Handshake(r) \/ InterceptorsExempt(r) \/ AuthInterceptorRefuses(r)
             \/ RevocationInterceptor(r)
    BY <2>1 DEF Handshake, InterceptorsExempt, AuthInterceptorRefuses, RevocationInterceptor,
                Answers, Proceeds
  <2>2. CASE ReceiveRefuses(r) \/ ReceiveExempt(r) \/ AuthenticateRefuses(r) \/ OpenRequestFails(r)
    <3>1. CASE ReceiveRefuses(r) \/ ReceiveExempt(r)
      BY <3>1 DEF ReceiveRefuses, ReceiveExempt, Answers, Proceeds
    <3>2. CASE AuthenticateRefuses(r)
      BY <3>2 DEF AuthenticateRefuses, Answers
    <3>3. CASE OpenRequestFails(r)
      BY <3>3 DEF OpenRequestFails, Answers
    <3> QED
      BY <2>2, <3>1, <3>2, <3>3
  <2>3. CASE LookupTenant(r)
    BY <2>3, LookupCases DEF Answers, Proceeds
  <2>4. CASE Verify(r) \/ Handle(r)
    BY <2>4 DEF Verify, Handle, Answers, Proceeds
  <2> QED
    BY <2>1, <2>2, <2>3, <2>4 DEF RequestStep
<1>3. (\E a : answer' = [answer EXCEPT ![r] = a]) \/ answer' = answer
  <2>1. CASE \/ Handshake(r) \/ InterceptorsExempt(r) \/ AuthInterceptorRefuses(r)
             \/ RevocationInterceptor(r)
    BY <2>1 DEF Handshake, InterceptorsExempt, AuthInterceptorRefuses, RevocationInterceptor,
                Answers, Proceeds
  <2>2. CASE ReceiveRefuses(r) \/ ReceiveExempt(r) \/ AuthenticateRefuses(r) \/ OpenRequestFails(r)
    <3>1. CASE ReceiveRefuses(r) \/ ReceiveExempt(r)
      BY <3>1 DEF ReceiveRefuses, ReceiveExempt, Answers, Proceeds
    <3>2. CASE AuthenticateRefuses(r)
      BY <3>2 DEF AuthenticateRefuses, Answers
    <3>3. CASE OpenRequestFails(r)
      BY <3>3 DEF OpenRequestFails, Answers
    <3> QED
      BY <2>2, <3>1, <3>2, <3>3
  <2>3. CASE LookupTenant(r)
    BY <2>3, LookupCases DEF Answers, Proceeds
  <2>4. CASE Verify(r) \/ Handle(r)
    BY <2>4 DEF Verify, Handle, Answers, Proceeds
  <2> QED
    BY <2>1, <2>2, <2>3, <2>4 DEF RequestStep
<1>4. saw' = [saw EXCEPT ![r] = Lookup(r)] \/ saw' = saw
  BY DEF RequestStep, Handshake, InterceptorsExempt, AuthInterceptorRefuses, RevocationInterceptor,
         ReceiveRefuses, ReceiveExempt, AuthenticateRefuses, LookupTenant, OpenRequestFails, Verify,
         Handle
<1>5. UNCHANGED vars \/ VerifySteps(r)
  BY DEF RequestStep, Handshake, InterceptorsExempt, AuthInterceptorRefuses, RevocationInterceptor,
         ReceiveRefuses, ReceiveExempt, AuthenticateRefuses, LookupTenant, OpenRequestFails, Verify,
         Handle
<1>6. /\ (\E a : pc' = [pc EXCEPT ![r] = a]) \/ pc' = pc
      /\ (\E a : wrote' = [wrote EXCEPT ![r] = a]) \/ wrote' = wrote
  BY <1>5 DEF vars, VerifySteps, VerifyRejects, VerifyFresh, SetNXReadsClock, VerifyAccepts,
              VerifyReused, VerifyErrs
<1>7. /\ DOMAIN at' = Request /\ \A q \in Request \ {r} : at'[q] = at[q]
  BY <1>0, <1>2
<1>8. /\ DOMAIN answer' = Request /\ \A q \in Request \ {r} : answer'[q] = answer[q]
  BY <1>0, <1>3
<1>9. /\ DOMAIN saw' = Request /\ \A q \in Request \ {r} : saw'[q] = saw[q]
  BY <1>0, <1>4
<1>10. \A q \in Request \ {r} : pc'[q] = pc[q] /\ wrote'[q] = wrote[q]
  BY <1>0, <1>6
<1> QED
  BY <1>1, <1>7, <1>8, <1>9, <1>10

\* What a step does not touch stays known of a request.
LEMMA WayStays ==
  ASSUME NEW q \in Request, Way(q), at'[q] = at[q], saw'[q] = saw[q], pc'[q] = pc[q],
         wrote'[q] = wrote[q] \/ wrote'[q] = 0, advertised \subseteq advertised'
  PROVE  Way(q)'
<1>1. Authentic(q) => Authentic(q)'
  BY DEF Authentic
<1> QED
  BY <1>1 DEF Way

\* A request refused or dropped has at most its spent nonce to answer for.
LEMMA WayEnds ==
  ASSUME NEW q \in Request, Way(q), at'[q] \in {"answered", "refused", "dropped"},
         wrote'[q] = 0 \/ (saw'[q] = saw[q] /\ (wrote'[q] = wrote[q] \/ at[q] = "verify"))
  PROVE  Way(q)'
<1>1. saw'[q] = saw[q] /\ Authentic(q) => Authentic(q)'
  BY DEF Authentic
<1> QED
  BY <1>1 DEF Way

\* Every step of a request keeps what is known of it.
LEMMA WayRequest ==
  ASSUME IInv, WayInv, NEW r \in Request, RequestStep(r)
  PROVE  Way(r)'
<1>0. /\ DOMAIN at = Request /\ DOMAIN saw = Request /\ Way(r)
      /\ DOMAIN pc = Request /\ DOMAIN wrote = Request
      /\ pc[r] = "sent" => wrote[r] = 0
  BY DEF WayInv, IInv, TypeOK, NotStoredYet
<1>a. \A x : at' = [at EXCEPT ![r] = x] => at'[r] = x
  BY <1>0
<1>1. ASSUME at[r] \in {"none", "connected"}, UNCHANGED <<vars, saw>>, at'[r] = "answered"
      PROVE  Way(r)'
  BY <1>0, <1>1, WayEnds DEF vars
<1>2. CASE Handshake(r)
  <2>1. at[r] = "none" /\ m(r).via = "grpc" /\ UNCHANGED <<vars, saw>>
    BY <1>2 DEF Handshake
  <2>2. CASE m(r).leaf = NoCert \/ VerifyClientLeaf(m(r).leaf)
    <3>1. at'[r] = "connected" /\ (m(r).leaf = NoCert \/ m(r).leaf.vendor)
      BY <1>a, <1>2, <2>2 DEF Handshake, Proceeds, VerifyClientLeaf
    <3>2. pc'[r] = "sent" /\ wrote'[r] = 0
      BY <1>0, <2>1 DEF vars, Way
    <3> QED
      BY <2>1, <3>1, <3>2 DEF Way
  <2>3. CASE ~(m(r).leaf = NoCert \/ VerifyClientLeaf(m(r).leaf))
    BY <1>a, <1>1, <1>2, <2>1, <2>3 DEF Handshake, Answers
  <2> QED
    BY <2>2, <2>3
<1>3. CASE InterceptorsExempt(r) \/ ReceiveExempt(r)
  <2>1. /\ Exempt(r) /\ UNCHANGED <<vars, saw>> /\ at'[r] = "verified"
        /\ at[r] \in {"none", "connected"}
        /\ at[r] = "connected" \/ m(r).body.kid \in advertised
        /\ UNCHANGED advertised
    BY <1>a, <1>3 DEF InterceptorsExempt, ReceiveExempt, Reaches, Proceeds, envVars
  <2>2. pc'[r] = "sent" /\ wrote'[r] = 0
    BY <1>0, <2>1 DEF vars, Way
  <2>3. m(r).via = "signed" => m(r).body.kid \in advertised'
    BY <1>0, <2>1 DEF Way
  <2> QED
    BY <2>1, <2>2, <2>3 DEF Way, Exempt
<1>4. CASE AuthInterceptorRefuses(r) \/ ReceiveRefuses(r) \/ AuthenticateRefuses(r)
  BY <1>a, <1>1, <1>4 DEF AuthInterceptorRefuses, ReceiveRefuses, AuthenticateRefuses, Reaches, Answers
<1>5. CASE RevocationInterceptor(r) \/ LookupTenant(r)
  <2>1. /\ at[r] \in {"none", "connected"} /\ ~Exempt(r) /\ UNCHANGED <<vars, envVars>>
        /\ saw' = [saw EXCEPT ![r] = Lookup(r)]
    BY <1>5 DEF RevocationInterceptor, LookupTenant, Reaches
  <2>2. pc'[r] = "sent" /\ wrote'[r] = 0 /\ saw'[r] = Lookup(r) /\ UNCHANGED advertised
    BY <1>0, <2>1 DEF vars, Way, envVars
  <2>3. CASE at'[r] = "answered"
    BY <1>0, <2>2, <2>3, WayEnds
  <2>4. CASE at'[r] # "answered"
    <3>1. at'[r] = "verify" /\ (RevocationInterceptor(r) => saw'[r] = "active")
      BY <1>a, <1>5, <2>2, <2>4 DEF RevocationInterceptor, LookupTenant, Proceeds, Answers
    <3>2. CASE RevocationInterceptor(r)
      <4>1. m(r).via = "grpc" /\ ident(r) # NoIdentity /\ (m(r).leaf = NoCert \/ m(r).leaf.vendor)
        BY <1>0, <3>2 DEF RevocationInterceptor, Way
      <4>2. m(r).leaf # NoCert
        BY <4>1 DEF ident, ExtractFromCert
      <4>3. Intact(r)
        BY <4>1, SignaturesAreMade DEF Intact
      <4>4. Authentic(r)'
        BY <3>1, <3>2, <4>1, <4>2, <4>3 DEF Authentic
      <4> QED
        BY <2>1, <2>2, <3>1, <4>1, <4>4 DEF Way
    <3>3. CASE LookupTenant(r)
      <4>1. m(r).via = "signed" /\ Framed(m(r)) /\ CertError(m(r)) = "" /\ m(r).body.kid \in advertised
        BY <3>3 DEF LookupTenant, Reaches
      <4>2. /\ m(r).leaf # NoCert /\ m(r).leaf.vendor /\ VerifyRequest(m(r))
            /\ ident(r) # NoIdentity
        BY <4>1 DEF CertError, parseCertHeader, VerifyClientLeaf, ident
      <4>3. Intact(r)
        BY <4>1, <4>2, SignedIsIntact
      <4>4. saw'[r] = "active"
        <5>1. Lookup(r) \in {"active", "revoked", "deleted"}
          BY DEF Lookup, WayInv
        <5>2. Lookup(r) \notin {"revoked", "deleted"}
          BY <1>a, <2>4, <3>3, LookupCases DEF Answers
        <5> QED
          BY <2>2, <5>1, <5>2
      <4>5. Authentic(r)'
        BY <4>2, <4>3, <4>4 DEF Authentic
      <4> QED
        BY <2>1, <2>2, <3>1, <4>1, <4>5 DEF Way
    <3> QED
      BY <1>5, <3>2, <3>3
  <2> QED
    BY <2>3, <2>4
<1>6. CASE OpenRequestFails(r)
  BY <1>0, <1>a, <1>6, WayEnds DEF OpenRequestFails, Answers, vars
<1>7. CASE Verify(r)
  <2>1. at[r] = "verify" /\ UNCHANGED <<saw, envVars>> /\ Authentic(r) /\ ~Exempt(r)
    BY <1>0, <1>7 DEF Verify, Way
  <2>2. Authentic(r)' /\ UNCHANGED advertised
    BY <2>1 DEF Authentic, envVars
  <2>3. at'[r] \in {"answered", "verified", "verify"}
    BY <1>a, <1>7, <2>1 DEF Verify, Answers, Proceeds
  <2> QED
    BY <1>0, <2>1, <2>2, <2>3 DEF Way
<1>8. CASE Handle(r)
  <2>1. at[r] = "verified" /\ UNCHANGED <<vars, saw, envVars>>
    BY <1>8 DEF Handle
  <2>2. at'[r] \in {"handled", "refused"}
    BY <1>a, <1>8 DEF Handle
  <2>3. CASE at'[r] = "refused"
    BY <1>0, <2>1, <2>3, WayEnds DEF vars
  <2>4. CASE at'[r] = "handled"
    <3>1. m(r).path = "ingest" => m(r).body.plain = ident(r).cluster
      BY <1>a, <1>8, <2>4 DEF Handle, IngestCode
    <3>2. Authentic(r) => Authentic(r)'
      BY <2>1 DEF Authentic
    <3> QED
      BY <1>0, <2>1, <2>4, <3>1, <3>2 DEF Way, vars
  <2> QED
    BY <2>2, <2>3, <2>4
<1> QED
  BY <1>2, <1>3, <1>4, <1>5, <1>6, <1>7, <1>8 DEF RequestStep

\* A restart drops requests, and may forget nonces.
LEMMA WayRestart ==
  ASSUME IInv, WayInv, TransportRestart
  PROVE  WayInv'
<1>1. PICK gone \in SUBSET InFlight :
        /\ redis \/ gone = InFlight
        /\ \A r \in InVerify : r \in gone <=> pc'[r] = "lost"
        /\ at' = [r \in Request |-> IF r \in gone THEN "dropped" ELSE at[r]]
  BY DEF TransportRestart
<1>2. UNCHANGED <<answer, saw, scenario, tenants, advertised>> /\ Restart
  BY DEF TransportRestart
<1>3. \A r \in Request : wrote'[r] = wrote[r] \/ wrote'[r] = 0
  BY <1>2 DEF Restart, WayInv
<1>4. \A r \in Request : pc'[r] = pc[r] \/ (r \in InVerify /\ pc'[r] = "lost")
  BY <1>2 DEF Restart
<1>5. ASSUME NEW r \in Request PROVE Way(r)'
  <2>0. Way(r)
    BY DEF WayInv
  <2>1. CASE r \in gone
    <3>1. at'[r] = "dropped"
      BY <1>1, <2>1
    <3> QED
      BY <1>2, <1>3, <2>0, <3>1, WayEnds
  <2>2. CASE r \notin gone
    <3>1. at'[r] = at[r] /\ pc'[r] = pc[r]
      BY <1>1, <1>4, <2>2
    <3> QED
      BY <1>2, <1>3, <2>0, <3>1, WayStays
  <2> QED
    BY <2>1, <2>2
<1>6. DOMAIN at' = Request
  BY <1>1
<1> QED
  BY <1>2, <1>5, <1>6 DEF WayInv

\* Every step of the transports preserves it.
LEMMA NextWay == IInv /\ WayInv /\ [TransportNext]_transportVars => WayInv'
<1> SUFFICES ASSUME IInv, WayInv, [TransportNext]_transportVars PROVE WayInv'
  OBVIOUS
<1>1. ASSUME NEW r \in scenario.requests, RequestStep(r) PROVE WayInv'
  <2>1. r \in Request
    BY TransportAssumption DEF WayInv
  <2>2. /\ UNCHANGED <<scenario, tenants, advertised>>
        /\ DOMAIN at' = Request /\ DOMAIN answer' = Request /\ DOMAIN saw' = Request
        /\ \A q \in Request \ {r} : /\ at'[q] = at[q] /\ saw'[q] = saw[q]
                                    /\ pc'[q] = pc[q] /\ wrote'[q] = wrote[q]
    BY <1>1, <2>1, OthersStay DEF envVars
  <2>3. \A q \in Request \ {r} : Way(q)'
    BY <2>2, WayStays DEF WayInv
  <2>4. Way(r)'
    BY <1>1, <2>1, WayRequest
  <2> QED
    BY <2>2, <2>3, <2>4 DEF WayInv
<1>2. ASSUME UNCHANGED <<wayVars, scenario, pc, wrote>>, advertised \subseteq advertised',
             tenants' \in [Cluster -> {"active", "revoked", "deleted"}]
      PROVE  WayInv'
  <2>1. UNCHANGED <<at, answer, saw>>
    BY <1>2 DEF wayVars
  <2>2. \A q \in Request : Way(q)'
    BY <1>2, <2>1, WayStays DEF WayInv
  <2> QED
    BY <1>2, <2>1, <2>2 DEF WayInv
<1>3. CASE (Tick \/ Janitor) /\ UNCHANGED <<redis, wayVars, envVars>>
  BY <1>2, <1>3 DEF Tick, Janitor, envVars, WayInv
<1>4. CASE Advertise \/ KeyPrepended \/ KeyRemoved
  BY <1>2, <1>4 DEF Advertise, KeyPrepended, KeyRemoved, vars, WayInv
<1>5. CASE \E c \in Cluster : TenantsChange(c)
  BY <1>2, <1>5 DEF TenantsChange, vars, WayInv
<1>6. CASE UNCHANGED transportVars
  BY <1>2, <1>6 DEF transportVars, vars, envVars, WayInv
<1> QED
  BY <1>1, <1>3, <1>4, <1>5, <1>6, WayRestart DEF TransportNext

\* What is known of the requests stays so.
THEOREM WayInvariance == TransportSpec => [](IInv /\ WayInv)
<1>1. TransportSpec => []IInv
  BY ImplementsReplayGuard, Invariance, PTL
<1> QED
  BY <1>1, InitWay, NextWay, PTL DEF TransportSpec

\* server.go:191-194, main.go:245-255: a nonce is spent only by a message that
\* arrived as its collector sent it, from a tenant active when it was looked up.
THEOREM NoncesAreSpentByAuthentic == TransportSpec => []OnlyAuthenticSpendsNonce
<1>1. WayInv => OnlyAuthenticSpendsNonce
  BY DEF WayInv, Way, Authentic, OnlyAuthenticSpendsNonce
<1> QED
  BY <1>1, WayInvariance, PTL

\* handler.go:27-29: what a handler accepts came unchanged from the collector
\* that its leaf was signed for, and an ingested payload names that cluster.
THEOREM HandledIsSent == TransportSpec => []HandledAsSent
<1>1. WayInv => HandledAsSent
  <2> SUFFICES ASSUME WayInv, NEW r \in Request, at[r] = "handled", ~Exempt(r)
               PROVE  /\ Intact(r) /\ m(r).leaf.owner = ident(r)
                      /\ m(r).path = "ingest" => m(r).body.plain = m(r).leaf.owner.cluster
    BY DEF HandledAsSent
  <2>1. /\ Intact(r) /\ m(r).leaf # NoCert /\ m(r).leaf.vendor /\ ident(r) # NoIdentity
        /\ m(r).path = "ingest" => m(r).body.plain = ident(r).cluster
    BY DEF WayInv, Way, Authentic
  <2>2. m(r).leaf.owner = ident(r)
    BY <2>1, OwnerIsIdentity
  <2> QED
    BY <2>1, <2>2
<1> QED
  BY <1>1, WayInvariance, PTL

\* An intact signed message with a leaf and a timestamp passes the signature test.
LEMMA IntactVerifies ==
  ASSUME NEW r \in Request, Intact(r), m(r).via = "signed", m(r).leaf # NoCert, m(r).ts # BadTime
  PROVE  VerifyRequest(m(r)) /\ ParamsMatch(m(r))
  BY CollectorsSign DEF Intact

\* server.go:341-342: a refusal of an intact request with a trusted leaf has the
\* HTTP status of what the interceptor chain returns in the same situation.
THEOREM RefusalsAgree == TransportSpec => TransportsAgree
<1> DEFINE A == \A r \in scenario.requests :
                  /\ m(r).via = "signed" /\ ~Exempt(r) /\ Intact(r) /\ Framed(m(r))
                  /\ m(r).leaf # NoCert /\ m(r).ts # BadTime
                  /\ at[r] \in {"none", "verify"} /\ at'[r] = "answered"
                  /\ at[r] = "none" => VerifyClientLeaf(m(r).leaf)
                  => answer'[r][1] = grpcToHTTP(ChainCode(r, saw'[r]))[1]
<1>1. IInv /\ WayInv /\ [TransportNext]_transportVars => [A]_transportVars
  <2> SUFFICES ASSUME IInv, WayInv, TransportNext, NEW r \in scenario.requests,
                      m(r).via = "signed", ~Exempt(r), Intact(r), Framed(m(r)),
                      m(r).leaf # NoCert, m(r).ts # BadTime,
                      at[r] \in {"none", "verify"}, at'[r] = "answered",
                      at[r] = "none" => VerifyClientLeaf(m(r).leaf)
               PROVE  answer'[r][1] = grpcToHTTP(ChainCode(r, saw'[r]))[1]
    OBVIOUS
  <2>0. /\ r \in Request /\ scenario.requests \subseteq Request
        /\ DOMAIN at = Request /\ DOMAIN answer = Request /\ DOMAIN saw = Request /\ Way(r)
    BY TransportAssumption DEF WayInv
  <2>1. RequestStep(r)
    <3>1. at'[r] # at[r]
      OBVIOUS
    <3>2. ~TransportRestart
      BY <2>0, <3>1 DEF TransportRestart
    <3>3. ~UNCHANGED wayVars
      BY <3>1 DEF wayVars
    <3>4. PICK q \in scenario.requests : RequestStep(q)
      BY <3>2, <3>3 DEF TransportNext, Advertise, TenantsChange, KeyPrepended, KeyRemoved
    <3>5. q = r
      BY <2>0, <3>1, <3>4, OthersStay
    <3> QED
      BY <3>4, <3>5
  <2>2. \A x : Answers(r, x) => answer'[r] = x
    BY <2>0 DEF Answers
  <2>3. CASE AuthenticateRefuses(r)
    <3>1. CertError(m(r)) = "bad_cert" /\ ident(r) = NoIdentity
      <4>1. VerifyRequest(m(r)) /\ ParamsMatch(m(r))
        BY <2>0, IntactVerifies
      <4>2. parseCertHeader(m(r)) /\ VerifyClientLeaf(m(r).leaf) /\ CertError(m(r)) # ""
        BY <2>3 DEF AuthenticateRefuses, Reaches, parseCertHeader
      <4> QED
        BY <4>1, <4>2 DEF CertError, ident
    <3>2. answer'[r] = <<401, "bad_cert">>
      <4>1. Answers(r, <<401, "bad_cert">>)
        BY <2>3, <3>1 DEF AuthenticateRefuses
      <4> QED
        BY <2>0, <4>1 DEF Answers
    <3>3. ChainCode(r, saw'[r]) = "Unauthenticated"
      BY <3>1 DEF ChainCode
    <3> QED
      BY <3>2, <3>3 DEF grpcToHTTP
  <2>4. CASE LookupTenant(r)
    <3>1. ident(r) # NoIdentity
      BY <2>4 DEF LookupTenant, CertError, ident
    <3>2. saw'[r] = Lookup(r)
      BY <2>0, <2>4 DEF LookupTenant
    <3>3. /\ Lookup(r) \in {"deleted", "revoked"}
          /\ answer'[r] \in {<<403, "unknown_tenant">>, <<403, "revoked">>}
      <4>1. Proceeds(r, "verify") => at'[r] = "verify"
        BY <2>0 DEF Proceeds
      <4> QED
        BY <2>2, <2>4, <4>1, LookupCases
    <3>4. ChainCode(r, saw'[r]) = "PermissionDenied"
      BY <3>1, <3>2, <3>3 DEF ChainCode
    <3> QED
      BY <3>3, <3>4 DEF grpcToHTTP
  <2>5. CASE Verify(r)
    <3>1. ident(r) # NoIdentity /\ saw'[r] = "active"
      BY <2>0, <2>5 DEF Verify, Way, Authentic
    <3>2. answer'[r] = SignedReplayAnswer(r)
      BY <2>0, <2>2, <2>5 DEF Verify, Proceeds
    <3>3. ChainCode(r, saw'[r]) = IF Malformed(r) THEN "InvalidArgument" ELSE "Unauthenticated"
      BY <3>1 DEF ChainCode, ReplayInterceptorAnswer, Status
    <3> QED
      BY <3>2, <3>3 DEF grpcToHTTP, SignedReplayAnswer
  <2>6. ~(Handshake(r) \/ InterceptorsExempt(r) \/ AuthInterceptorRefuses(r) \/ RevocationInterceptor(r)
          \/ ReceiveRefuses(r) \/ ReceiveExempt(r) \/ OpenRequestFails(r) \/ Handle(r))
    BY DEF Handshake, InterceptorsExempt, AuthInterceptorRefuses, RevocationInterceptor, ReceiveRefuses,
           ReceiveExempt, OpenRequestFails, Handle
  <2> QED
    BY <2>1, <2>3, <2>4, <2>5, <2>6 DEF RequestStep
<1> QED
  BY <1>1, WayInvariance, PTL DEF TransportSpec, TransportsAgree
-----------------------------------------------------------------------------
(* Key rotation. *)

\* The keys are a sequence without repetition, and there is one.
LEMMA KidFacts ==
  /\ Kid \in Seq(Range(Kid)) /\ Len(Kid) \in Nat \ {0} /\ DOMAIN Kid = 1..Len(Kid)
  /\ \A i, j \in 1..Len(Kid) : Kid[i] = Kid[j] => i = j
<1>1. Kid \in Seq(Range(Kid)) /\ Kid # <<>>
  BY TransportAssumption
<1>2. DOMAIN Kid = 1..Len(Kid) /\ Len(Kid) \in Nat /\ Len(Kid) # 0
  BY <1>1
<1> QED
  BY <1>1, <1>2, TransportAssumption

\* The newest key of the file is the first, and the file holds nothing else.
LEMMA FileSet ==
  ASSUME NEW lo \in DOMAIN Kid, NEW hi \in DOMAIN Kid, lo <= hi, FileHolds(lo, hi)
  PROVE  keyFile # <<>> /\ Head(keyFile) = Kid[hi] /\ Range(keyFile) = KidsFrom(lo, hi)
<1>0. lo \in Nat /\ hi \in Nat
  BY KidFacts
<1>1. keyFile \in Seq(Range(Kid)) /\ Len(keyFile) = hi - lo + 1
      /\ \A j \in 1..(hi - lo + 1) : keyFile[j] = Kid[hi - j + 1]
  BY DEF FileHolds
<1>2. keyFile # <<>> /\ Head(keyFile) = keyFile[1] /\ DOMAIN keyFile = 1..(hi - lo + 1)
  BY <1>0, <1>1
<1>3. keyFile[1] = Kid[hi]
  <2>1. 1 \in 1..(hi - lo + 1) /\ hi - 1 + 1 = hi
    BY <1>0
  <2> QED
    BY <1>1, <2>1
<1>4. \A j \in 1..(hi - lo + 1) : hi - j + 1 \in lo..hi
  BY <1>0
<1>5. \A k \in lo..hi : hi - k + 1 \in 1..(hi - lo + 1) /\ hi - (hi - k + 1) + 1 = k
  BY <1>0
<1>6. \A x \in Range(keyFile) : x \in KidsFrom(lo, hi)
  BY <1>1, <1>2, <1>4 DEF Range, KidsFrom
<1>7. ASSUME NEW k \in lo..hi PROVE Kid[k] \in Range(keyFile)
  <2> DEFINE j == hi - k + 1
  <2>1. j \in 1..(hi - lo + 1) /\ hi - j + 1 = k
    BY <1>5
  <2> HIDE DEF j
  <2>2. keyFile[j] = Kid[k]
    BY <1>1, <2>1
  <2> QED
    BY <1>2, <2>1, <2>2 DEF Range
<1>8. \A x \in KidsFrom(lo, hi) : x \in Range(keyFile)
  BY <1>7 DEF KidsFrom
<1> QED
  BY <1>2, <1>3, <1>6, <1>8

\* A key older than the lo-th is none from the lo-th on.
LEMMA OlderIsOther ==
  ASSUME NEW lo \in DOMAIN Kid, NEW hi \in DOMAIN Kid, NEW x \in KidsFrom(1, lo - 1)
  PROVE  x \notin KidsFrom(lo, hi)
<1>0. lo \in Nat /\ hi \in Nat /\ lo <= Len(Kid) /\ hi <= Len(Kid) /\ Len(Kid) \in Nat
  BY KidFacts
<1> SUFFICES ASSUME x \in KidsFrom(lo, hi) PROVE FALSE
  OBVIOUS
<1>1. PICK i \in 1..(lo - 1) : x = Kid[i]
  BY DEF KidsFrom
<1>2. PICK k \in lo..hi : x = Kid[k]
  BY DEF KidsFrom
<1>3. i \in 1..Len(Kid) /\ k \in 1..Len(Kid) /\ i # k
  BY <1>0, KidFacts
<1> QED
  BY <1>1, <1>2, <1>3, KidFacts

\* An advertised key that the process does not hold is older than all it holds.
LEMMA UnknownIsOlder ==
  ASSUME NEW lo \in DOMAIN Kid, NEW hi \in DOMAIN Kid, NEW lo1 \in DOMAIN Kid, lo <= lo1,
         NEW x \in KidsFrom(1, hi), x \notin KidsFrom(lo, hi)
  PROVE  x \in KidsFrom(1, lo1 - 1)
<1>0. lo \in Nat /\ hi \in Nat /\ lo1 \in Nat
  BY KidFacts
<1>1. PICK i \in 1..hi : x = Kid[i]
  BY DEF KidsFrom
<1>2. i \notin lo..hi
  BY <1>1 DEF KidsFrom
<1>3. i \in 1..(lo1 - 1)
  BY <1>0, <1>2
<1> QED
  BY <1>1, <1>3 DEF KidsFrom

\* A sequence of one.
LEMMA SingletonSeq ==
  ASSUME NEW S, NEW e \in S
  PROVE  <<e>> \in Seq(S) /\ Len(<<e>>) = 1 /\ <<e>>[1] = e
  OBVIOUS

\* The file begins with the first key.
LEMMA InitKeys == TransportInit => KeyInv
<1> SUFFICES ASSUME TransportInit PROVE KeyInv
  OBVIOUS
<1>0. 1 \in DOMAIN Kid /\ Kid[1] \in Range(Kid)
  BY KidFacts DEF Range
<1>1. /\ keyFile = <<Kid[1]>> /\ keys = ParseHPKEKeys(keyFile) /\ advertised = {Kid[1]}
      /\ \A r \in Request : answer[r] = <<0, "">>
  BY DEF TransportInit, Status
<1>2. FileHolds(1, 1)
  <2>1. keyFile \in Seq(Range(Kid)) /\ Len(keyFile) = 1 /\ keyFile[1] = Kid[1]
    BY <1>0, <1>1, SingletonSeq
  <2>2. Len(keyFile) = 1 - 1 + 1
    BY <2>1
  <2>3. ASSUME NEW j \in 1..Len(keyFile) PROVE keyFile[j] = Kid[1 - j + 1]
    <3>1. j = 1 /\ 1 - j + 1 = 1
      BY <2>1
    <3> QED
      BY <2>1, <3>1
  <2> QED
    BY <2>1, <2>2, <2>3 DEF FileHolds
<1>3. Head(keyFile) = Kid[1] /\ Range(keyFile) = KidsFrom(1, 1)
  BY <1>0, <1>2, FileSet
<1>4. Kid[1] \in KidsFrom(1, 1)
  BY DEF KidsFrom
<1>5. SetHolds(1, 1)
  BY <1>1, <1>3, <1>4 DEF SetHolds, ParseHPKEKeys
<1>6. \A r \in Request : ~ToldUnknown(r)
  <2>1. \A r \in Request : answer[r][1] = 0
    <3>1. <<0, "">>[1] = 0
      OBVIOUS
    <3> QED
      BY <1>1, <3>1, Zenon
  <2>2. <<400, "hpke_key_unknown">>[1] = 400
    OBVIOUS
  <2> QED
    BY <2>1, <2>2 DEF ToldUnknown
<1>7. Rotation(1, 1, 1, 1)
  BY <1>2, <1>5, <1>6 DEF Rotation
<1> QED
  BY <1>0, <1>7 DEF KeyInv

\* Only OpenRequestFails tells a sender that its key is unknown.
LEMMA WhoTellsUnknown ==
  ASSUME WayInv, NEW r \in Request, RequestStep(r), answer'[r] # answer[r],
         answer'[r] = <<400, "hpke_key_unknown">>
  PROVE  OpenRequestFails(r) /\ m(r).kid \notin keys.all
<1> DEFINE unknown == <<400, "hpke_key_unknown">>
<1>0. DOMAIN answer = Request
  BY DEF WayInv
<1>1. \A x : Answers(r, x) => x = unknown
  BY <1>0 DEF Answers
<1>2. \A code : Status(code) # unknown /\ <<401, code>> # unknown /\ <<403, code>> # unknown
  <2>1. \A code : /\ <<0, code>>[1] = 0 /\ <<401, code>>[1] = 401 /\ <<403, code>>[1] = 403
                  /\ <<400, code>>[1] = 400
    OBVIOUS
  <2> QED
    BY <2>1 DEF Status
<1>3. \A code : code # "hpke_key_unknown" => <<400, code>> # unknown
  <2>1. \A code : <<400, code>>[2] = code
    OBVIOUS
  <2> QED
    BY <2>1
<1>4. \A code : grpcToHTTP(code) # unknown
  <2>1. \A code : grpcToHTTP(code)[2] \in {"", "bad_request", "unauthenticated", "forbidden", "internal"}
    BY DEF grpcToHTTP
  <2>2. unknown[2] = "hpke_key_unknown"
    OBVIOUS
  <2> QED
    BY <2>1, <2>2
<1>5. FrameError(m(r)) # unknown
  <2>1. FrameError(m(r))[2] \in {"bad_request", "bad_digest"}
    BY DEF FrameError
  <2>2. unknown[2] = "hpke_key_unknown"
    OBVIOUS
  <2> QED
    BY <2>1, <2>2
<1> HIDE DEF unknown
<1>b. /\ \A code : ~Answers(r, Status(code))
      /\ ~Answers(r, FrameError(m(r))) /\ ~Answers(r, <<401, CertError(m(r))>>)
      /\ ~Answers(r, <<403, "unknown_tenant">>) /\ ~Answers(r, <<403, "revoked">>)
  <2>1. ASSUME NEW x, x # unknown PROVE ~Answers(r, x)
    BY <1>1, <2>1
  <2>2. ~Answers(r, FrameError(m(r)))
    BY <1>5, <2>1
  <2>3. ASSUME NEW code
        PROVE  ~Answers(r, Status(code)) /\ ~Answers(r, <<401, code>>) /\ ~Answers(r, <<403, code>>)
    BY <1>2, <2>1
  <2>4. ~Answers(r, <<401, CertError(m(r))>>)
    <3> DEFINE x == <<401, CertError(m(r))>>
    <3>1. x # unknown
      BY <1>2
    <3> HIDE DEF x
    <3>2. ~Answers(r, x)
      BY <1>1, <3>1
    <3> QED
      BY <3>2 DEF x
  <2>5. ~Answers(r, <<403, "unknown_tenant">>)
    <3> DEFINE x == <<403, "unknown_tenant">>
    <3>1. x # unknown
      BY <1>2
    <3> HIDE DEF x
    <3>2. ~Answers(r, x)
      BY <1>1, <3>1
    <3> QED
      BY <3>2 DEF x
  <2>6. ~Answers(r, <<403, "revoked">>)
    <3> DEFINE x == <<403, "revoked">>
    <3>1. x # unknown
      BY <1>2
    <3> HIDE DEF x
    <3>2. ~Answers(r, x)
      BY <1>1, <3>1
    <3> QED
      BY <3>2 DEF x
  <2> QED
    BY <2>2, <2>3, <2>4, <2>5, <2>6
<1>c. \A stage : ~Proceeds(r, stage)
  BY DEF Proceeds
<1>6. ~(Handshake(r) \/ InterceptorsExempt(r) \/ AuthInterceptorRefuses(r) \/ RevocationInterceptor(r))
  <2>1. ~Handshake(r)
    BY <1>b, <1>c DEF Handshake
  <2>2. ~InterceptorsExempt(r) /\ ~AuthInterceptorRefuses(r)
    BY <1>b, <1>c DEF InterceptorsExempt, AuthInterceptorRefuses
  <2>3. ~RevocationInterceptor(r)
    BY <1>b, <1>c DEF RevocationInterceptor
  <2> QED
    BY <2>1, <2>2, <2>3
<1>7. ~(ReceiveRefuses(r) \/ ReceiveExempt(r) \/ AuthenticateRefuses(r))
  <2>1. ~ReceiveRefuses(r)
    BY <1>b DEF ReceiveRefuses
  <2>2. ~ReceiveExempt(r)
    BY <1>c DEF ReceiveExempt
  <2>3. ~AuthenticateRefuses(r)
    BY <1>b DEF AuthenticateRefuses
  <2> QED
    BY <2>1, <2>2, <2>3
<1>8. ~LookupTenant(r)
  BY <1>b, <1>c, LookupCases
<1>9. ~Verify(r)
  <2> SUFFICES ASSUME Verify(r) PROVE FALSE
    OBVIOUS
  <2>1. ReplayInterceptorAnswer(r) # unknown /\ SignedReplayAnswer(r) # unknown
    BY <1>2, <1>3 DEF ReplayInterceptorAnswer, SignedReplayAnswer
  <2>2. answer'[r] \in {ReplayInterceptorAnswer(r), SignedReplayAnswer(r)}
    BY <1>0 DEF Verify, Answers, Proceeds
  <2> QED
    BY <2>1, <2>2 DEF unknown
<1>10. ~Handle(r)
  <2> SUFFICES ASSUME Handle(r) PROVE FALSE
    OBVIOUS
  <2>1. PICK code : answer' = [answer EXCEPT ![r] = Told(r, code)]
    BY DEF Handle
  <2>2. Told(r, code) # unknown
    BY <1>2, <1>4 DEF Told
  <2> QED
    BY <1>0, <2>1, <2>2 DEF unknown
<1>11. OpenRequestFails(r)
  BY <1>6, <1>7, <1>8, <1>9, <1>10 DEF RequestStep
<1>12. m(r).kid \notin keys.all
  BY <1>1, <1>3, <1>11 DEF OpenRequestFails
<1> QED
  BY <1>11, <1>12

\* A request's step keeps the rotation: whom it tells that the key is unknown
\* sealed to a key older than the file.
LEMMA RequestKeys ==
  ASSUME IInv, WayInv, NEW r \in Request, RequestStep(r),
         NEW lo \in DOMAIN Kid, NEW hi \in DOMAIN Kid, NEW lo0 \in DOMAIN Kid, NEW hi0 \in DOMAIN Kid,
         Rotation(lo, hi, lo0, hi0)
  PROVE  Rotation(lo, hi, lo0, hi0)'
<1>1. UNCHANGED <<keyFile, keys, advertised>> /\ \A q \in Request \ {r} : answer'[q] = answer[q]
  BY OthersStay DEF envVars
<1>2. FileHolds(lo, hi)' /\ SetHolds(lo0, hi0)'
  BY <1>1 DEF Rotation, FileHolds, SetHolds
<1>3. \A q \in Request : answer'[q] = answer[q] /\ ToldUnknown(q)' => m(q).kid \in KidsFrom(1, lo - 1)
  BY DEF Rotation, ToldUnknown, Intact
<1>4. ASSUME answer'[r] # answer[r], ToldUnknown(r)'
      PROVE  m(r).kid \in KidsFrom(1, lo - 1)
  <2>1. OpenRequestFails(r) /\ m(r).kid \notin keys.all
    BY <1>4, WhoTellsUnknown DEF ToldUnknown
  <2>2. m(r).via = "signed" /\ at[r] = "verified" /\ Way(r)
    BY <2>1 DEF OpenRequestFails, WayInv
  <2>3. m(r).body.kid \in advertised
    BY <2>2 DEF Way
  <2>4. Intact(r)
    BY <1>4, <2>2 DEF ToldUnknown, Way, Authentic
  <2>5. m(r).kid = m(r).body.kid
    BY <2>2, <2>4, CollectorsSign DEF Intact
  <2>6. m(r).kid \in KidsFrom(1, hi0) /\ m(r).kid \notin KidsFrom(lo0, hi0) /\ lo0 <= lo
    BY <2>1, <2>3, <2>5 DEF Rotation, SetHolds
  <2> QED
    BY <2>6, UnknownIsOlder
<1>5. \A q \in Request : ToldUnknown(q)' => m(q).kid \in KidsFrom(1, lo - 1)
  BY <1>1, <1>3, <1>4
<1> QED
  BY <1>2, <1>5 DEF Rotation

\* The operator prepends the next key.
LEMMA PrependedKeys ==
  ASSUME NEW lo \in DOMAIN Kid, NEW hi \in DOMAIN Kid, lo <= hi, FileHolds(lo, hi), KeyPrepended
  PROVE  hi + 1 \in DOMAIN Kid /\ FileHolds(lo, hi + 1)'
<1>0. lo \in Nat /\ hi \in Nat /\ hi <= Len(Kid) /\ Len(Kid) \in Nat /\ Len(Kid) \in 1..Len(Kid)
  BY KidFacts
<1>1. Head(keyFile) = Kid[hi]
  BY FileSet
<1>2. PICK i \in DOMAIN Kid : Kid[i] = Head(keyFile) /\ keyFile' = <<Kid[i + 1]>> \o keyFile
  BY DEF KeyPrepended
<1>3. i = hi
  BY <1>1, <1>2, KidFacts
<1>4. hi # Len(Kid)
  BY <1>1 DEF KeyPrepended
<1>5. hi + 1 \in DOMAIN Kid /\ hi + 1 \in Nat
  BY <1>0, <1>4, KidFacts
<1> DEFINE new == Kid[hi + 1]
           S == Range(Kid)
<1>6. new \in S
  BY <1>5 DEF Range
<1>7. keyFile' = <<new>> \o keyFile
  BY <1>2, <1>3
<1>8. /\ keyFile \in Seq(S) /\ Len(keyFile) = hi - lo + 1
      /\ \A j \in 1..Len(keyFile) : keyFile[j] = Kid[hi - j + 1]
  BY DEF FileHolds
<1> HIDE DEF S, new
<1> DEFINE one == <<new>>
<1>9. one \in Seq(S) /\ Len(one) = 1 /\ one[1] = new
  BY <1>6, SingletonSeq
<1>a. keyFile' = one \o keyFile
  BY <1>7
<1> HIDE DEF one
<1>10. /\ keyFile' \in Seq(S) /\ Len(keyFile') = 1 + Len(keyFile)
       /\ \A j \in 1..1 + Len(keyFile) :
            keyFile'[j] = IF j <= 1 THEN one[j] ELSE keyFile[j - 1]
  <2>1. /\ one \o keyFile \in Seq(S) /\ Len(one \o keyFile) = Len(one) + Len(keyFile)
        /\ \A j \in 1..Len(one) + Len(keyFile) :
             (one \o keyFile)[j] = IF j <= Len(one) THEN one[j] ELSE keyFile[j - Len(one)]
    BY <1>8, <1>9, ConcatProperties, Zenon
  <2> QED
    BY <1>9, <1>a, <2>1, Zenon
<1>11. Len(keyFile') = (hi + 1) - lo + 1
  BY <1>0, <1>8, <1>9, <1>10
<1>12. ASSUME NEW j \in 1..Len(keyFile') PROVE keyFile'[j] = Kid[(hi + 1) - j + 1]
  <2>1. j \in Nat /\ j >= 1 /\ j <= (hi + 1) - lo + 1
    BY <1>0, <1>11
  <2>2. keyFile'[j] = IF j <= 1 THEN one[j] ELSE keyFile[j - 1]
    BY <1>10
  <2>3. CASE j = 1
    <3>1. (hi + 1) - j + 1 = hi + 1
      BY <1>0, <2>3
    <3>2. j <= 1
      BY <2>3
    <3> QED
      BY <1>9, <2>2, <2>3, <3>1, <3>2, Zenon DEF new
  <2>4. CASE j # 1
    <3>1. j - 1 \in 1..Len(keyFile) /\ hi - (j - 1) + 1 = (hi + 1) - j + 1 /\ ~(j <= 1)
      <4>1. Len(keyFile) = hi - lo + 1
        BY <1>8
      <4>2. j - 1 \in 1..(hi - lo + 1)
        BY <1>0, <2>1, <2>4
      <4>3. hi - (j - 1) + 1 = (hi + 1) - j + 1 /\ ~(j <= 1)
        BY <1>0, <2>1, <2>4
      <4> QED
        BY <4>1, <4>2, <4>3
    <3> QED
      BY <1>8, <2>2, <3>1
  <2> QED
    BY <2>3, <2>4
<1> QED
  BY <1>5, <1>10, <1>11, <1>12 DEF FileHolds, S

\* The first n elements of a sequence.
LEMMA PrefixSeq ==
  ASSUME NEW S, NEW s \in Seq(S), NEW n \in 1..Len(s)
  PROVE  /\ SubSeq(s, 1, n) \in Seq(S) /\ Len(SubSeq(s, 1, n)) = n
         /\ \A i \in 1..n : SubSeq(s, 1, n)[i] = s[i]
  OBVIOUS

\* The operator removes the oldest key.
LEMMA RemovedKeys ==
  ASSUME NEW lo \in DOMAIN Kid, NEW hi \in DOMAIN Kid, lo <= hi, FileHolds(lo, hi), KeyRemoved
  PROVE  lo + 1 \in DOMAIN Kid /\ lo + 1 <= hi /\ FileHolds(lo + 1, hi)'
<1>0. lo \in Nat \ {0} /\ hi \in Nat /\ hi <= Len(Kid) /\ Len(Kid) \in Nat
  BY KidFacts
<1>1. /\ keyFile \in Seq(Range(Kid)) /\ Len(keyFile) = hi - lo + 1
      /\ \A j \in 1..Len(keyFile) : keyFile[j] = Kid[hi - j + 1]
  BY DEF FileHolds
<1>2. Len(keyFile) > 1 /\ keyFile' = SubSeq(keyFile, 1, hi - lo)
  <2>1. Len(keyFile) - 1 = hi - lo
    BY <1>0, <1>1
  <2> QED
    BY <2>1 DEF KeyRemoved
<1>3. lo + 1 \in DOMAIN Kid /\ lo + 1 <= hi
  BY <1>0, <1>1, <1>2, KidFacts
<1> DEFINE n == hi - lo
<1>4. n \in Nat /\ 1 <= n /\ 1 \in Int /\ n \in Int /\ n - 1 + 1 = n
  BY <1>0, <1>3
<1>5. \A j \in 1..n : keyFile[j] \in Range(Kid) /\ keyFile[j] = Kid[hi - j + 1] /\ 1 + j - 1 = j
  <2>1. \A j \in 1..n : j \in 1..Len(keyFile) /\ 1 + j - 1 = j
    BY <1>0, <1>1
  <2> QED
    BY <1>1, <2>1
<1>6. keyFile' = SubSeq(keyFile, 1, n)
  BY <1>2
<1>6a. hi - (lo + 1) + 1 = n
  BY <1>0
<1>8. Len(keyFile) = n + 1
  BY <1>1
<1> HIDE DEF n
<1>7. /\ keyFile' \in Seq(Range(Kid)) /\ Len(keyFile') = n
      /\ \A j \in 1..n : keyFile'[j] = keyFile[j]
  <2>1. n \in 1..Len(keyFile)
    BY <1>1, <1>4, <1>8
  <2> QED
    BY <1>1, <1>6, <2>1, PrefixSeq
<1> QED
  BY <1>3, <1>5, <1>6a, <1>7 DEF FileHolds

\* A longer range holds the keys of a shorter one.
LEMMA KidsGrow ==
  ASSUME NEW i \in Nat, NEW j \in Nat, i <= j
  PROVE  KidsFrom(1, i) \subseteq KidsFrom(1, j) /\ KidsFrom(1, i - 1) \subseteq KidsFrom(1, j - 1)
<1>1. (\A k \in 1..i : k \in 1..j) /\ (\A k \in 1..(i - 1) : k \in 1..(j - 1))
  OBVIOUS
<1> QED
  BY <1>1 DEF KidsFrom

\* Every step of the transports, of the operator's too, keeps the rotation.
LEMMA NextKeys == IInv /\ WayInv /\ KeyInv /\ [TransportNext]_transportVars => KeyInv'
<1> SUFFICES ASSUME IInv, WayInv, KeyInv, [TransportNext]_transportVars PROVE KeyInv'
  OBVIOUS
<1>1. PICK lo \in DOMAIN Kid, hi \in DOMAIN Kid, lo0 \in DOMAIN Kid, hi0 \in DOMAIN Kid :
        Rotation(lo, hi, lo0, hi0)
  BY DEF KeyInv
<1>0. /\ lo \in Nat /\ hi \in Nat /\ lo0 \in Nat /\ hi0 \in Nat
      /\ lo + 1 \in Nat /\ hi + 1 \in Nat
  BY KidFacts
<1>a. /\ lo0 <= lo /\ lo <= hi /\ lo0 <= hi0 /\ hi0 <= hi
      /\ FileHolds(lo, hi) /\ SetHolds(lo0, hi0)
      /\ \A r \in Request : ToldUnknown(r) => m(r).kid \in KidsFrom(1, lo - 1)
  BY <1>1 DEF Rotation
<1>2. ASSUME NEW r \in scenario.requests, RequestStep(r) PROVE KeyInv'
  <2>1. r \in Request
    BY TransportAssumption DEF WayInv
  <2> QED
    <3>1. Rotation(lo, hi, lo0, hi0)'
      BY <1>1, <1>2, <2>1, RequestKeys
    <3> QED
      BY <3>1 DEF KeyInv
<1>3. UNCHANGED answer => \A r \in Request : ToldUnknown(r)' => ToldUnknown(r)
  BY DEF ToldUnknown, Intact
<1>4. CASE \/ (Tick \/ Janitor) /\ UNCHANGED <<redis, wayVars, envVars>>
           \/ \E c \in Cluster : TenantsChange(c)
           \/ UNCHANGED transportVars
  <2>1. UNCHANGED <<answer, keyFile, keys, advertised>>
    BY <1>4 DEF TenantsChange, transportVars, wayVars, envVars
  <2>2. FileHolds(lo, hi)' /\ SetHolds(lo0, hi0)'
    BY <1>a, <2>1 DEF FileHolds, SetHolds
  <2>3. Rotation(lo, hi, lo0, hi0)'
    BY <1>3, <1>a, <2>1, <2>2 DEF Rotation
  <2> QED
    BY <2>3 DEF KeyInv
<1>5. CASE Advertise
  <2>1. /\ UNCHANGED <<answer, keyFile, keys>> /\ advertised' = advertised \cup {Kid[hi0]}
    BY <1>5, <1>a DEF Advertise, wayVars, SetHolds
  <2>2. Kid[hi0] \in KidsFrom(1, hi0)
    <3>1. hi0 \in 1..hi0
      BY KidFacts
    <3> QED
      BY <3>1 DEF KidsFrom
  <2>3. FileHolds(lo, hi)' /\ SetHolds(lo0, hi0)'
    BY <1>a, <2>1, <2>2 DEF FileHolds, SetHolds
  <2>4. Rotation(lo, hi, lo0, hi0)'
    BY <1>3, <1>a, <2>1, <2>3 DEF Rotation
  <2> QED
    BY <2>4 DEF KeyInv
<1>6. CASE TransportRestart
  <2>1. UNCHANGED <<answer, keyFile, advertised>> /\ keys' = ParseHPKEKeys(keyFile)
    BY <1>6 DEF TransportRestart
  <2>2. keys' = [active |-> Kid[hi], all |-> KidsFrom(lo, hi)]
    BY <1>a, <2>1, FileSet DEF ParseHPKEKeys
  <2>3. FileHolds(lo, hi)'
    BY <1>a, <2>1 DEF FileHolds
  <2>4. SetHolds(lo, hi)'
    BY <1>0, <1>a, <2>1, <2>2, KidsGrow DEF SetHolds
  <2>5. Rotation(lo, hi, lo, hi)'
    BY <1>0, <1>3, <1>a, <2>1, <2>3, <2>4 DEF Rotation
  <2> QED
    BY <2>5 DEF KeyInv
<1>7. CASE KeyPrepended
  <2>1. UNCHANGED <<answer, keys, advertised>>
    BY <1>7 DEF KeyPrepended, wayVars
  <2>2. hi + 1 \in DOMAIN Kid /\ FileHolds(lo, hi + 1)'
    BY <1>7, <1>a, PrependedKeys
  <2>3. SetHolds(lo0, hi0)'
    BY <1>a, <2>1 DEF SetHolds
  <2>4. lo <= hi + 1 /\ hi0 <= hi + 1
    BY <1>0, <1>a
  <2>5. Rotation(lo, hi + 1, lo0, hi0)'
    BY <1>3, <1>a, <2>1, <2>2, <2>3, <2>4 DEF Rotation
  <2> QED
    BY <2>2, <2>5 DEF KeyInv
<1>8. CASE KeyRemoved
  <2>1. UNCHANGED <<answer, keys, advertised>>
    BY <1>8 DEF KeyRemoved, wayVars
  <2>2. lo + 1 \in DOMAIN Kid /\ lo + 1 <= hi /\ FileHolds(lo + 1, hi)'
    BY <1>8, <1>a, RemovedKeys
  <2>3. SetHolds(lo0, hi0)'
    BY <1>a, <2>1 DEF SetHolds
  <2>4. lo0 <= lo + 1 /\ lo <= lo + 1
    BY <1>0, <1>a
  <2>5. KidsFrom(1, lo - 1) \subseteq KidsFrom(1, (lo + 1) - 1)
    BY <1>0, <2>4, KidsGrow
  <2>6. Rotation(lo + 1, hi, lo0, hi0)'
    BY <1>3, <1>a, <2>1, <2>2, <2>3, <2>4, <2>5 DEF Rotation
  <2> QED
    BY <2>2, <2>6 DEF KeyInv
<1> QED
  BY <1>2, <1>4, <1>5, <1>6, <1>7, <1>8 DEF TransportNext

\* The keys only advance.
THEOREM KeyInvariance == TransportSpec => []KeyInv
  BY WayInvariance, InitKeys, NextKeys, PTL DEF TransportSpec

\* sealed.go:144-146: a collector that sealed to a key it was given hears
\* hpke_key_unknown only after the operator removed that key from the file.
THEOREM UnknownKeysWereRemoved == TransportSpec => []UnknownKeyWasRemoved
<1>1. KeyInv => UnknownKeyWasRemoved
  <2> SUFFICES ASSUME KeyInv, NEW r \in Request, ToldUnknown(r)
               PROVE  m(r).kid \notin Range(keyFile)
    BY DEF UnknownKeyWasRemoved, ToldUnknown
  <2>1. PICK lo \in DOMAIN Kid, hi \in DOMAIN Kid, lo0 \in DOMAIN Kid, hi0 \in DOMAIN Kid :
          Rotation(lo, hi, lo0, hi0)
    BY DEF KeyInv
  <2>2. lo <= hi /\ FileHolds(lo, hi) /\ m(r).kid \in KidsFrom(1, lo - 1)
    BY <2>1 DEF Rotation
  <2> QED
    BY <2>2, FileSet, OlderIsOther
<1> QED
  BY <1>1, KeyInvariance, PTL
=============================================================================
