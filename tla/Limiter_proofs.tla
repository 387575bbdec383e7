--------------------------- MODULE Limiter_proofs ---------------------------
(***************************************************************************)
(* Proofs about module Limiter, for every finite set of callers, every     *)
(* configuration of the limits and every resolution of the clock.          *)
(***************************************************************************)
EXTENDS Limiter, FiniteSetTheorems, TLAPS

\* Once a caller has looked its limiter up, it holds the tenant's limiter.
HoldsOwn ==
  \A c \in Caller : pc[c] # "idle" =>
    /\ held[c] \in Caller
    /\ held[c] = pool[tenantOf[c]]

\* A caller that has not looked anything up has created no limiter.
PoolIsUsed ==
  \A t \in Tenant : pool[t] # NoLimiter =>
    /\ pc[pool[t]] # "idle"
    /\ tenantOf[pool[t]] = t

\* The semaphores: no slot is unaccounted for, and no more than configured.
SlotsBounded == \A l \in Caller : slots[l] <= MaxConcurrent

\* The clock of a limiter is not ahead.
LastIsPast == \A l \in Caller : last[l] <= now

\* The bucket of tenant t pays for its grants: from any grant on, the calls
\* granted and the tokens left are covered by a burst and by the refill.
Paid ==
  \A t \in Tenant :
    IF pool[t] = NoLimiter
    THEN grants[t] = <<>>
    ELSE \A i \in DOMAIN grants[t] :
           /\ grants[t][i] <= last[pool[t]]
           /\ (Len(grants[t]) - i + 1) * Scale + tokens[pool[t]]
                <= maxTokens + (last[pool[t]] - grants[t][i]) * CallsPerMinute

\* The inductive invariant.
IInv ==
  /\ TypeOK
  /\ HoldsOwn
  /\ PoolIsUsed
  /\ SlotsMatchHolders
  /\ SlotsBounded
  /\ LastIsPast
  /\ Paid
  /\ RateCeiling
-----------------------------------------------------------------------------
\* The depth of the bucket is a whole positive number of tokens.
LEMMA maxTokensPositive == maxTokens \in Nat /\ maxTokens >= Scale
<1> DEFINE depth == IF Burst <= 0 THEN CallsPerMinute ELSE Burst
<1>1. depth \in Nat /\ depth >= 1 /\ Scale \in Nat
  BY LimiterAssumption
<1> HIDE DEF depth
<1>2. Scale * depth \in Nat /\ Scale * depth >= Scale
  BY <1>1
<1> QED
  BY <1>2 DEF maxTokens, depth

\* The set of holders is finite, and the holders' count is a natural number.
LEMMA HoldersFinite ==
  \A l : IsFiniteSet(Holders(l)) /\ Cardinality(Holders(l)) \in Nat
<1> TAKE l
<1>1. Holders(l) \subseteq Caller
  BY DEF Holders
<1> QED
  BY <1>1, LimiterAssumption, FS_Subset, FS_CardinalityType

\* Refills and prices are integers.
LEMMA ProductType ==
  ASSUME NEW x \in Int
  PROVE  x * CallsPerMinute \in Int /\ x * Scale \in Int
BY LimiterAssumption

\* Elapsed time distributes over the refill.
LEMMA RefillDistributes ==
  ASSUME NEW a \in Int, NEW b \in Int, NEW c \in Int
  PROVE  (a - b) * CallsPerMinute + (b - c) * CallsPerMinute
           = (a - c) * CallsPerMinute
BY LimiterAssumption

\* What Acquire's refill yields.
LEMMA RefilledBounds ==
  ASSUME IInv, NEW l \in Caller
  PROVE  /\ refilled(l) \in Nat
         /\ refilled(l) <= maxTokens
         /\ refilled(l) <= tokens[l] + (now - last[l]) * CallsPerMinute
<1>1. tokens[l] \in Nat /\ now - last[l] \in Nat
  BY DEF IInv, TypeOK, LastIsPast
<1>2. (now - last[l]) * CallsPerMinute \in Nat
  BY <1>1, LimiterAssumption
<1> QED
  BY <1>1, <1>2, maxTokensPositive DEF refilled

\* The initial state satisfies the inductive invariant.
LEMMA InitIInv == Init => IInv
<1> SUFFICES ASSUME Init PROVE IInv
  OBVIOUS
<1>1. TypeOK
  BY maxTokensPositive DEF Init, TypeOK
<1>2. HoldsOwn /\ PoolIsUsed /\ SlotsBounded /\ LastIsPast
  BY LimiterAssumption DEF Init, HoldsOwn, PoolIsUsed, SlotsBounded, LastIsPast
<1>3. SlotsMatchHolders
  <2>1. \A l \in Caller : Holders(l) = {}
    BY DEF Init, Holders
  <2> QED
    BY <2>1, FS_EmptySet DEF Init, SlotsMatchHolders
<1>4. Paid /\ RateCeiling
  BY DEF Init, Paid, RateCeiling
<1> QED
  BY <1>1, <1>2, <1>3, <1>4 DEF IInv
-----------------------------------------------------------------------------
\* Looking up the limiter on Acquire preserves the invariant.
LEMMA PoolAcquireIInv ==
  ASSUME IInv, NEW c \in Caller, PoolAcquire(c)
  PROVE  IInv'
<1> DEFINE t0 == tenantOf[c]
<1> USE DEF IInv
<1>0. t0 \in Tenant /\ pc[c] = "idle" /\ pc' = [pc EXCEPT ![c] = "found"]
      /\ UNCHANGED <<now, grants>>
  BY LimiterAssumption DEF PoolAcquire
<1>1. CASE pool[t0] # NoLimiter
  <2>1. /\ held' = [held EXCEPT ![c] = pool[t0]]
        /\ UNCHANGED <<pool, tokens, last, slots>>
    BY <1>1 DEF PoolAcquire, bucket
  <2>2. TypeOK'
    BY <1>0, <2>1 DEF TypeOK
  <2>3. HoldsOwn' /\ PoolIsUsed'
    <3>1. pool[t0] \in Caller /\ held'[c] = pool[t0]
      BY <1>0, <1>1, <2>1 DEF TypeOK
    <3>2. \A x \in Caller \ {c} : held'[x] = held[x] /\ pc'[x] = pc[x]
      BY <1>0, <2>1 DEF TypeOK
    <3>3. pc'[c] = "found"
      BY <1>0 DEF TypeOK
    <3>4. HoldsOwn'
      BY <2>1, <3>1, <3>2 DEF HoldsOwn
    <3>5. PoolIsUsed'
      BY <2>1, <3>2, <3>3 DEF PoolIsUsed, TypeOK
    <3> QED
      BY <3>4, <3>5
  <2>4. \A l \in Caller : Holders(l)' = Holders(l)
    BY <1>0, <2>1 DEF Holders, TypeOK
  <2>5. SlotsMatchHolders' /\ SlotsBounded' /\ LastIsPast'
    BY <1>0, <2>1, <2>4 DEF SlotsMatchHolders, SlotsBounded, LastIsPast
  <2>6. Paid' /\ RateCeiling'
    BY <1>0, <2>1 DEF Paid, RateCeiling
  <2> QED
    BY <2>2, <2>3, <2>5, <2>6
<1>2. CASE pool[t0] = NoLimiter
  <2>1. /\ held' = [held EXCEPT ![c] = c]
        /\ pool' = [pool EXCEPT ![t0] = c]
        /\ tokens' = [tokens EXCEPT ![c] = maxTokens]
        /\ last' = [last EXCEPT ![c] = now]
        /\ slots' = [slots EXCEPT ![c] = 0]
    BY <1>2 DEF PoolAcquire, bucket
  <2>2. TypeOK'
    BY <1>0, <2>1, maxTokensPositive DEF TypeOK
  <2>3. \A t \in Tenant : pool[t] # c
    BY <1>0, LimiterAssumption DEF PoolIsUsed
  <2>4. HoldsOwn' /\ PoolIsUsed'
    <3>1. /\ held'[c] = c
          /\ pool'[t0] = c
          /\ pc'[c] = "found"
          /\ \A x \in Caller \ {c} : held'[x] = held[x] /\ pc'[x] = pc[x]
          /\ \A t \in Tenant \ {t0} : pool'[t] = pool[t]
      BY <1>0, <2>1 DEF TypeOK
    <3>2. HoldsOwn'
      <4> SUFFICES ASSUME NEW x \in Caller, pc'[x] # "idle", x # c
                   PROVE  held'[x] \in Caller /\ held'[x] = pool'[tenantOf[x]]
        BY <3>1 DEF HoldsOwn
      <4>1. held[x] \in Caller /\ held[x] = pool[tenantOf[x]]
        BY <3>1 DEF HoldsOwn
      <4>2. tenantOf[x] \in Tenant \ {t0}
        BY <1>2, <4>1, LimiterAssumption
      <4> QED
        BY <3>1, <4>1, <4>2
    <3>3. PoolIsUsed'
      <4> SUFFICES ASSUME NEW t \in Tenant, pool'[t] # NoLimiter, t # t0
                   PROVE  pc'[pool'[t]] # "idle" /\ tenantOf[pool'[t]] = t
        BY <3>1 DEF PoolIsUsed
      <4>1. pool'[t] = pool[t] /\ pool[t] \in Caller \ {c}
        BY <2>3, <3>1 DEF TypeOK
      <4> QED
        BY <3>1, <4>1 DEF PoolIsUsed
    <3> QED
      BY <3>2, <3>3
  <2>5. \A l \in Caller : Holders(l)' = Holders(l)
    BY <1>0, <2>1 DEF Holders, TypeOK
  <2>6. Holders(c) = {}
    BY <2>3, LimiterAssumption DEF Holders, HoldsOwn
  <2>7. SlotsMatchHolders'
    BY <2>1, <2>5, <2>6, FS_EmptySet DEF SlotsMatchHolders, TypeOK
  <2>8. SlotsBounded' /\ LastIsPast'
    BY <1>0, <2>1, LimiterAssumption DEF SlotsBounded, LastIsPast, TypeOK
  <2>9. Paid'
    <3> SUFFICES ASSUME NEW t \in Tenant, pool'[t] # NoLimiter,
                        NEW i \in DOMAIN grants[t]
                 PROVE  /\ grants[t][i] <= last'[pool'[t]]
                        /\ (Len(grants[t]) - i + 1) * Scale + tokens'[pool'[t]]
                             <= maxTokens
                                  + (last'[pool'[t]] - grants[t][i]) * CallsPerMinute
      BY <1>0, <1>2, <2>1, LimiterAssumption DEF Paid, TypeOK
    <3>1. t # t0
      BY <1>2 DEF Paid
    <3>2. pool'[t] = pool[t] /\ pool[t] # c
      BY <2>1, <2>3, <3>1 DEF TypeOK
    <3>3. last'[pool[t]] = last[pool[t]] /\ tokens'[pool[t]] = tokens[pool[t]]
      BY <2>1, <3>2 DEF TypeOK
    <3> QED
      BY <3>2, <3>3 DEF Paid
  <2>10. RateCeiling'
    BY <1>0 DEF RateCeiling
  <2> QED
    BY <2>2, <2>4, <2>7, <2>8, <2>9, <2>10
<1> QED
  BY <1>1, <1>2

\* Taking a slot preserves the invariant.
LEMMA AcquireSlotIInv ==
  ASSUME IInv, NEW c \in Caller, AcquireSlot(c)
  PROVE  IInv'
<1> DEFINE l0 == held[c]
<1> USE DEF IInv
<1>1. /\ pc[c] = "found"
      /\ slots[l0] < MaxConcurrent
      /\ slots' = [slots EXCEPT ![l0] = slots[l0] + 1]
      /\ pc' = [pc EXCEPT ![c] = "slot"]
      /\ UNCHANGED <<now, pool, tokens, last, held, grants>>
  BY DEF AcquireSlot
<1>2. l0 \in Caller
  BY <1>1 DEF HoldsOwn
<1>3. TypeOK'
  BY <1>1, <1>2 DEF TypeOK
<1>4. HoldsOwn' /\ PoolIsUsed' /\ LastIsPast' /\ Paid' /\ RateCeiling'
  BY <1>1 DEF HoldsOwn, PoolIsUsed, LastIsPast, Paid, RateCeiling, TypeOK
<1>5. SlotsMatchHolders'
  <2>1. Holders(l0)' = Holders(l0) \cup {c} /\ c \notin Holders(l0)
    BY <1>1 DEF Holders, TypeOK
  <2>2. \A l \in Caller \ {l0} : Holders(l)' = Holders(l)
    BY <1>1 DEF Holders, TypeOK
  <2>3. Cardinality(Holders(l0)') = Cardinality(Holders(l0)) + 1
    BY <2>1, HoldersFinite, FS_AddElement
  <2> QED
    BY <1>1, <1>2, <2>2, <2>3 DEF SlotsMatchHolders, TypeOK
<1>6. SlotsBounded'
  BY <1>1, <1>2, LimiterAssumption DEF SlotsBounded, TypeOK
<1> QED
  BY <1>3, <1>4, <1>5, <1>6

\* Giving a slot back, on a refused Acquire or on Release, preserves the
\* invariant; there is a slot to give back.
LEMMA SlotReturnedIInv ==
  ASSUME IInv, NEW c \in Caller, AcquireGivesBack(c) \/ Release(c)
  PROVE  IInv'
<1> DEFINE l0 == held[c]
<1> USE DEF IInv
<1>1. /\ pc[c] \in {"giveback", "releasing"}
      /\ \/ pc' = [pc EXCEPT ![c] = "throttled"]
         \/ pc' = [pc EXCEPT ![c] = "done"]
      /\ UNCHANGED <<now, pool, tokens, last, held, grants>>
  BY DEF AcquireGivesBack, Release
<1>2. l0 \in Caller
  BY <1>1 DEF HoldsOwn
<1>3. c \in Holders(l0)
  BY <1>1 DEF Holders
<1>4. /\ Holders(l0)' = Holders(l0) \ {c}
      /\ \A l \in Caller \ {l0} : Holders(l)' = Holders(l)
  BY <1>1 DEF Holders, TypeOK
<1>5. Cardinality(Holders(l0)') = Cardinality(Holders(l0)) - 1
  BY <1>3, <1>4, HoldersFinite, FS_RemoveElement
<1>6. slots[l0] = Cardinality(Holders(l0)) /\ slots[l0] > 0
  <2>1. Cardinality(Holders(l0)) # 0
    BY <1>3, HoldersFinite, FS_EmptySet
  <2> QED
    BY <1>2, <2>1, HoldersFinite DEF SlotsMatchHolders
<1>7. slots' = [slots EXCEPT ![l0] = slots[l0] - 1]
  BY <1>2, <1>6 DEF AcquireGivesBack, Release, TypeOK
<1>8. TypeOK'
  <2>1. slots' \in [Caller -> Nat]
    BY <1>2, <1>6, <1>7 DEF TypeOK
  <2>2. pc' \in [Caller -> {"idle", "found", "slot", "giveback", "calling",
                           "releasing", "throttled", "done"}]
    BY <1>1 DEF TypeOK
  <2> QED
    BY <1>1, <2>1, <2>2 DEF TypeOK
<1>9. HoldsOwn' /\ PoolIsUsed' /\ LastIsPast' /\ Paid' /\ RateCeiling'
  BY <1>1 DEF HoldsOwn, PoolIsUsed, LastIsPast, Paid, RateCeiling, TypeOK
<1>10. SlotsMatchHolders'
  <2>1. slots'[l0] = slots[l0] - 1 /\ \A l \in Caller \ {l0} : slots'[l] = slots[l]
    BY <1>2, <1>7 DEF TypeOK
  <2> QED
    BY <1>1, <1>4, <1>5, <1>6, <2>1 DEF SlotsMatchHolders
<1>11. SlotsBounded'
  BY <1>2, <1>6, <1>7, LimiterAssumption DEF SlotsBounded, TypeOK
<1> QED
  BY <1>8, <1>9, <1>10, <1>11

\* Being refused a slot, and the end of an LLM call, preserve the invariant: a
\* caller that had a limiter finds the same one again.
LEMMA NoSlotOrCallEndsIInv ==
  ASSUME IInv, NEW c \in Caller, AcquireNoSlot(c) \/ PoolRelease(c)
  PROVE  IInv'
<1> USE DEF IInv
<1>1. /\ pc[c] \in {"found", "calling"}
      /\ held[c] \in Caller
      /\ held[c] = pool[tenantOf[c]]
  BY DEF AcquireNoSlot, PoolRelease, HoldsOwn
<1>2. held' = held /\ UNCHANGED <<now, pool, tokens, last, slots, grants>>
  BY <1>1, LimiterAssumption DEF AcquireNoSlot, PoolRelease, bucket, TypeOK
<1>3. \/ pc[c] = "found" /\ pc' = [pc EXCEPT ![c] = "throttled"]
      \/ pc[c] = "calling" /\ pc' = [pc EXCEPT ![c] = "releasing"]
  BY DEF AcquireNoSlot, PoolRelease
<1>4. TypeOK'
  <2>1. pc' \in [Caller -> {"idle", "found", "slot", "giveback", "calling",
                           "releasing", "throttled", "done"}]
    BY <1>3 DEF TypeOK
  <2> QED
    BY <1>2, <2>1 DEF TypeOK
<1>5. HoldsOwn' /\ PoolIsUsed'
  BY <1>2, <1>3 DEF HoldsOwn, PoolIsUsed, TypeOK
<1>6. \A l \in Caller : Holders(l)' = Holders(l)
  BY <1>2, <1>3 DEF Holders, TypeOK
<1>7. SlotsMatchHolders' /\ SlotsBounded' /\ LastIsPast'
  BY <1>2, <1>6 DEF SlotsMatchHolders, SlotsBounded, LastIsPast
<1>8. Paid' /\ RateCeiling'
  BY <1>2 DEF Paid, RateCeiling
<1> QED
  BY <1>4, <1>5, <1>7, <1>8

\* What the critical section of Acquire does to all but the tenant's account.
LEMMA TokenSection ==
  ASSUME IInv, NEW c \in Caller, AcquireToken(c) \/ AcquireNoToken(c)
  PROVE  /\ tenantOf[c] \in Tenant
         /\ held[c] \in Caller
         /\ held[c] = pool[tenantOf[c]]
         /\ last' = [last EXCEPT ![held[c]] = now]
         /\ tokens' \in [Caller -> Nat]
         /\ tokens'[held[c]] <= refilled(held[c])
         /\ \A l \in Caller \ {held[c]} : tokens'[l] = tokens[l] /\ last'[l] = last[l]
         /\ HoldsOwn' /\ PoolIsUsed' /\ SlotsMatchHolders' /\ SlotsBounded'
         /\ LastIsPast'
<1> DEFINE l0 == held[c]
<1> USE DEF IInv
<1>1. /\ pc[c] = "slot"
      /\ last' = [last EXCEPT ![l0] = now]
      /\ UNCHANGED <<now, pool, slots, held>>
      /\ \/ pc' = [pc EXCEPT ![c] = "calling"]
         \/ pc' = [pc EXCEPT ![c] = "giveback"]
  BY DEF AcquireToken, AcquireNoToken
<1>2. /\ tenantOf[c] \in Tenant
      /\ l0 \in Caller
      /\ l0 = pool[tenantOf[c]]
  BY <1>1, LimiterAssumption DEF HoldsOwn
<1>3. refilled(l0) \in Nat
  BY <1>2, RefilledBounds
<1>4. PICK v \in Nat : v <= refilled(l0) /\ tokens' = [tokens EXCEPT ![l0] = v]
  <2>1. CASE AcquireToken(c)
    <3>1. refilled(l0) - Scale \in Nat /\ refilled(l0) - Scale <= refilled(l0)
      BY <1>3, <2>1, LimiterAssumption DEF AcquireToken
    <3> QED
      BY <2>1, <3>1 DEF AcquireToken
  <2>2. CASE AcquireNoToken(c)
    <3>1. refilled(l0) <= refilled(l0)
      BY <1>3
    <3> QED
      BY <1>3, <2>2, <3>1 DEF AcquireNoToken
  <2> QED
    BY <2>1, <2>2
<1>5. /\ tokens' \in [Caller -> Nat]
      /\ tokens'[l0] <= refilled(l0)
      /\ \A l \in Caller \ {l0} : tokens'[l] = tokens[l]
  BY <1>2, <1>4 DEF TypeOK
<1>6. \A l \in Caller \ {l0} : last'[l] = last[l]
  BY <1>1 DEF TypeOK
<1>7. HoldsOwn' /\ PoolIsUsed'
  <2>1. \A d \in Caller : pc'[d] = "idle" <=> pc[d] = "idle"
    BY <1>1 DEF TypeOK
  <2>2. \A t \in Tenant : pool[t] # NoLimiter => pool[t] \in Caller
    BY <1>1 DEF TypeOK
  <2>3. HoldsOwn'
    BY <1>1, <2>1 DEF HoldsOwn
  <2> QED
    BY <1>1, <2>1, <2>2, <2>3 DEF PoolIsUsed
<1>8. SlotsMatchHolders' /\ SlotsBounded'
  <2>1. \A l \in Caller : Holders(l)' = Holders(l)
    BY <1>1 DEF Holders, TypeOK
  <2> QED
    BY <1>1, <2>1 DEF SlotsMatchHolders, SlotsBounded
<1>9. LastIsPast'
  BY <1>1, <1>2, <1>6 DEF LastIsPast, TypeOK
<1> QED
  BY <1>1, <1>2, <1>5, <1>6, <1>7, <1>8, <1>9

\* Counting one more call costs one more token.
LEMMA ScaleStep == \A k \in Int : (k + 1) * Scale = k * Scale + Scale
BY LimiterAssumption

\* The account of a tenant after a refill: from any grant on, a burst and the
\* refill up to now cover the calls granted and the refilled tokens.
LEMMA RefillIsPaid ==
  ASSUME IInv, NEW t \in Tenant, pool[t] # NoLimiter, NEW i \in DOMAIN grants[t]
  PROVE  /\ grants[t][i] \in Nat /\ grants[t][i] <= now
         /\ (Len(grants[t]) - i + 1) * Scale + refilled(pool[t])
              <= maxTokens + (now - grants[t][i]) * CallsPerMinute
<1> DEFINE l == pool[t]
           g == grants[t][i]
           paid == (Len(grants[t]) - i + 1) * Scale
           a == (last[l] - g) * CallsPerMinute
           b == (now - last[l]) * CallsPerMinute
           d == (now - g) * CallsPerMinute
<1>1. l \in Caller /\ i \in Nat /\ Len(grants[t]) \in Nat
  BY DEF IInv, TypeOK
<1>2. /\ now \in Nat /\ last[l] \in Nat /\ tokens[l] \in Nat /\ g \in Nat
      /\ last[l] <= now
  BY <1>1 DEF IInv, TypeOK, LastIsPast
<1>3. g <= last[l] /\ paid + tokens[l] <= maxTokens + a
  BY DEF IInv, Paid
<1>4. refilled(l) \in Nat /\ refilled(l) <= tokens[l] + b
  BY <1>1, RefilledBounds
<1>5. b + a = d
  <2>1. now \in Int /\ last[l] \in Int /\ g \in Int
    BY <1>2
  <2> HIDE DEF g, l
  <2> QED
    BY <2>1, RefillDistributes
<1>6. paid \in Int /\ a \in Int /\ b \in Int /\ d \in Int
  <2>1. /\ last[l] - g \in Int /\ now - last[l] \in Int /\ now - g \in Int
        /\ Len(grants[t]) - i + 1 \in Int
    BY <1>1, <1>2
  <2> HIDE DEF g, l
  <2> QED
    BY <2>1, ProductType
<1> HIDE DEF paid, a, b, d
<1>7. paid + refilled(l) <= maxTokens + d
  BY <1>2, <1>3, <1>4, <1>5, <1>6, maxTokensPositive
<1> QED
  BY <1>2, <1>3, <1>7 DEF paid, d

\* Being refused a token preserves the invariant.
LEMMA AcquireNoTokenIInv ==
  ASSUME IInv, NEW c \in Caller, AcquireNoToken(c)
  PROVE  IInv'
<1> DEFINE l0 == held[c]
           t0 == tenantOf[c]
<1>1. /\ t0 \in Tenant /\ l0 \in Caller /\ l0 = pool[t0]
      /\ tokens' \in [Caller -> Nat]
      /\ \A l \in Caller \ {l0} : tokens'[l] = tokens[l] /\ last'[l] = last[l]
      /\ HoldsOwn' /\ PoolIsUsed' /\ SlotsMatchHolders' /\ SlotsBounded'
      /\ LastIsPast'
  BY TokenSection
<1>2. /\ last'[l0] = now /\ last' \in [Caller -> Nat]
      /\ tokens'[l0] = refilled(l0)
      /\ pc' = [pc EXCEPT ![c] = "giveback"]
      /\ UNCHANGED <<now, pool, slots, held, grants>>
  BY <1>1 DEF AcquireNoToken, IInv, TypeOK
<1>3. refilled(l0) \in Nat /\ refilled(l0) <= maxTokens
  BY <1>1, RefilledBounds
<1>4. TypeOK'
  BY <1>1, <1>2, <1>3 DEF IInv, TypeOK
<1>5. Paid'
  <2> SUFFICES ASSUME NEW t \in Tenant, pool[t] # NoLimiter,
                      NEW i \in DOMAIN grants[t]
               PROVE  /\ grants[t][i] <= last'[pool[t]]
                      /\ (Len(grants[t]) - i + 1) * Scale + tokens'[pool[t]]
                           <= maxTokens + (last'[pool[t]] - grants[t][i]) * CallsPerMinute
    BY <1>2 DEF IInv, Paid
  <2>1. CASE t = t0
    BY <1>1, <1>2, <2>1, RefillIsPaid
  <2>2. CASE t # t0
    <3>1. pool[t] \in Caller \ {l0}
      BY <1>1, <2>2, LimiterAssumption DEF IInv, PoolIsUsed, TypeOK
    <3> QED
      BY <1>1, <3>1 DEF IInv, Paid
  <2> QED
    BY <2>1, <2>2
<1>6. RateCeiling'
  BY <1>2 DEF IInv, RateCeiling
<1> QED
  BY <1>1, <1>4, <1>5, <1>6 DEF IInv

\* What appending a time to a list of times yields.
LEMMA AppendTime ==
  ASSUME NEW s \in Seq(Nat), NEW x \in Nat, NEW g, g = Append(s, x),
         NEW n, n = Len(s)
  PROVE  /\ n \in Nat
         /\ Len(g) = n + 1
         /\ DOMAIN g = 1..(n + 1)
         /\ g[n + 1] = x
         /\ \A i \in 1..n : i \in DOMAIN s /\ g[i] = s[i]
         /\ \A i \in 1..(n + 1) : g[i] \in Nat
<1>1. /\ n \in Nat
      /\ Len(g) = n + 1
      /\ DOMAIN g = 1..(n + 1)
      /\ g[n + 1] = x
      /\ \A i \in 1..n : i \in DOMAIN s /\ g[i] = s[i]
  OBVIOUS
<1>2. \A i \in 1..n : s[i] \in Nat
  OBVIOUS
<1>3. \A i \in 1..(n + 1) : i \in 1..n \/ i = n + 1
  BY <1>1
<1> QED
  BY <1>1, <1>2, <1>3

\* A granted call preserves the invariant.
LEMMA AcquireTokenIInv ==
  ASSUME IInv, NEW c \in Caller, AcquireToken(c)
  PROVE  IInv'
<1> DEFINE l0 == held[c]
           t0 == tenantOf[c]
           n == Len(grants[t0])
<1>1. /\ t0 \in Tenant /\ l0 \in Caller /\ l0 = pool[t0]
      /\ tokens' \in [Caller -> Nat]
      /\ \A l \in Caller \ {l0} : tokens'[l] = tokens[l] /\ last'[l] = last[l]
      /\ HoldsOwn' /\ PoolIsUsed' /\ SlotsMatchHolders' /\ SlotsBounded'
      /\ LastIsPast'
  BY TokenSection
<1>2. /\ last'[l0] = now /\ last' \in [Caller -> Nat]
      /\ tokens'[l0] = refilled(l0) - Scale
      /\ pc' = [pc EXCEPT ![c] = "calling"]
      /\ UNCHANGED <<now, pool, slots, held>>
  BY <1>1 DEF AcquireToken, IInv, TypeOK
<1>3. /\ grants[t0] \in Seq(Nat) /\ n = Len(grants[t0]) /\ n \in Nat /\ now \in Nat
      /\ grants'[t0] = Append(grants[t0], now)
      /\ grants' \in [Tenant -> Seq(Nat)]
      /\ \A t \in Tenant \ {t0} : grants'[t] = grants[t]
  <2>1. /\ grants \in [Tenant -> Seq(Nat)] /\ now \in Nat
        /\ grants' = [grants EXCEPT ![t0] = Append(@, now)]
    BY DEF AcquireToken, IInv, TypeOK
  <2>2. grants[t0] \in Seq(Nat) /\ n \in Nat
    BY <1>1, <2>1
  <2>3. Append(grants[t0], now) \in Seq(Nat)
    BY <2>1, <2>2
  <2> HIDE DEF t0
  <2>4. /\ grants'[t0] = Append(grants[t0], now)
        /\ grants' \in [Tenant -> Seq(Nat)]
        /\ \A t \in Tenant \ {t0} : grants'[t] = grants[t]
    BY <1>1, <2>1, <2>3
  <2> QED
    BY <2>1, <2>2, <2>4
<1>4. /\ Len(grants'[t0]) = n + 1
      /\ DOMAIN grants'[t0] = 1..(n + 1)
      /\ grants'[t0][n + 1] = now
      /\ \A i \in 1..n : i \in DOMAIN grants[t0] /\ grants'[t0][i] = grants[t0][i]
      /\ \A i \in 1..(n + 1) : grants'[t0][i] \in Nat
  <2> DEFINE s0 == grants[t0]
             g0 == grants'[t0]
  <2>1. s0 \in Seq(Nat) /\ now \in Nat /\ g0 = Append(s0, now) /\ n = Len(s0)
    BY <1>3
  <2> HIDE DEF s0, g0, n
  <2>2. /\ Len(g0) = n + 1
        /\ DOMAIN g0 = 1..(n + 1)
        /\ g0[n + 1] = now
        /\ \A i \in 1..n : i \in DOMAIN s0 /\ g0[i] = s0[i]
        /\ \A i \in 1..(n + 1) : g0[i] \in Nat
    BY <2>1, AppendTime
  <2> QED
    BY <2>2 DEF s0, g0
<1>5. /\ refilled(l0) \in Nat /\ refilled(l0) <= maxTokens
      /\ Scale \in Nat /\ Scale > 0 /\ maxTokens \in Nat
  BY <1>1, RefilledBounds, LimiterAssumption, maxTokensPositive
<1> HIDE DEF l0, t0, n
<1>6. TypeOK'
  <2>1. tokens'[l0] <= maxTokens
    BY <1>2, <1>5
  <2>2. \A l \in Caller : tokens[l] <= maxTokens
    BY DEF IInv, TypeOK
  <2>3. \A l \in Caller : tokens'[l] <= maxTokens
    BY <1>1, <2>1, <2>2
  <2> QED
    BY <1>1, <1>2, <1>3, <2>3 DEF IInv, TypeOK
<1>7. pool[t0] # NoLimiter
  BY <1>1, LimiterAssumption
<1>8. ASSUME NEW i \in 1..(n + 1)
      PROVE  /\ grants'[t0][i] <= now
             /\ (n + 1 - i + 1) * Scale + tokens'[l0]
                  <= maxTokens + (now - grants'[t0][i]) * CallsPerMinute
  <2>1. CASE i \in 1..n
    <3> DEFINE k == n - i + 1
               d == (now - grants[t0][i]) * CallsPerMinute
    <3>1. /\ grants[t0][i] \in Nat /\ grants[t0][i] <= now
          /\ k * Scale + refilled(l0) <= maxTokens + d
      BY <1>1, <1>3, <1>4, <1>7, <2>1, RefillIsPaid
    <3>2. k \in Int /\ n + 1 - i + 1 = k + 1 /\ now - grants[t0][i] \in Int
      BY <1>3, <3>1
    <3>3. (k + 1) * Scale = k * Scale + Scale /\ k * Scale \in Int /\ d \in Int
      BY <3>2, ScaleStep, ProductType
    <3>4. (k + 1) * Scale + tokens'[l0] <= maxTokens + d
      <4> HIDE DEF k, d, l0
      <4> QED
        BY <1>2, <1>5, <3>1, <3>3
    <3> QED
      BY <1>4, <2>1, <3>1, <3>2, <3>4
  <2>2. CASE i = n + 1
    <3> DEFINE k == n + 1 - i + 1
               e == now - grants'[t0][i]
    <3>1. k = 1 /\ e = 0 /\ grants'[t0][i] <= now
      BY <1>3, <1>4, <2>2
    <3> HIDE DEF k, e
    <3>2. k * Scale = Scale /\ e * CallsPerMinute = 0
      BY <3>1, LimiterAssumption
    <3>3. k * Scale + tokens'[l0] <= maxTokens + e * CallsPerMinute
      BY <1>2, <1>5, <3>2
    <3> QED
      BY <3>1, <3>3 DEF k, e
  <2>3. i = n + 1 \/ i \in 1..n
    <3>1. n \in Nat
      BY <1>3
    <3> QED
      BY <3>1
  <2> QED
    BY <2>1, <2>2, <2>3, Zenon
<1>9. Paid'
  <2> SUFFICES ASSUME NEW t \in Tenant, pool[t] # NoLimiter,
                      NEW i \in DOMAIN grants'[t]
               PROVE  /\ grants'[t][i] <= last'[pool[t]]
                      /\ (Len(grants'[t]) - i + 1) * Scale + tokens'[pool[t]]
                           <= maxTokens + (last'[pool[t]] - grants'[t][i]) * CallsPerMinute
    BY <1>1, <1>2, <1>3, <1>7 DEF IInv, Paid
  <2>1. CASE t = t0
    <3>1. i \in 1..(n + 1) /\ pool[t] = l0
      BY <1>1, <1>4, <2>1
    <3>2. grants'[t0][i] <= now
      BY <1>8, <3>1
    <3> DEFINE k == n + 1 - i + 1
               e == now - grants'[t0][i]
    <3>3. /\ Len(grants'[t]) - i + 1 = k
          /\ last'[pool[t]] - grants'[t][i] = e
          /\ tokens'[pool[t]] = tokens'[l0]
          /\ grants'[t][i] <= last'[pool[t]]
      <4>1. /\ Len(grants'[t]) = n + 1
            /\ last'[pool[t]] = now
            /\ grants'[t][i] = grants'[t0][i]
            /\ tokens'[pool[t]] = tokens'[l0]
        BY <1>2, <1>4, <2>1, <3>1
      <4>2. Len(grants'[t]) - i + 1 = k
        <5>1. n \in Nat /\ i \in Nat
          BY <1>3, <3>1
        <5> QED
          BY <4>1, <5>1
      <4>3. last'[pool[t]] - grants'[t][i] = e
        BY <4>1, Zenon
      <4>4. grants'[t][i] <= last'[pool[t]]
        BY <3>2, <4>1, Zenon
      <4> QED
        BY <4>1, <4>2, <4>3, <4>4, Zenon
    <3>4. k * Scale + tokens'[l0] <= maxTokens + e * CallsPerMinute
      BY <1>8, <3>1
    <3>5. k \in Int /\ e \in Int
      <4>1. grants'[t0][i] \in Nat /\ i \in Nat /\ n \in Nat /\ now \in Nat
        BY <1>3, <1>4, <3>1
      <4> QED
        BY <4>1
    <3> HIDE DEF k, e
    <3> QED
      BY <3>3, <3>4, <3>5, LimiterAssumption
  <2>2. CASE t # t0
    <3>1. pool[t] \in Caller \ {l0}
      BY <1>1, <2>2, LimiterAssumption DEF IInv, PoolIsUsed, TypeOK
    <3> QED
      BY <1>1, <1>3, <2>2, <3>1 DEF IInv, Paid
  <2> QED
    BY <2>1, <2>2
<1>10. RateCeiling'
  <2> SUFFICES ASSUME NEW i \in 1..(n + 1), NEW j \in 1..(n + 1), i <= j
               PROVE  (j - i + 1) * Scale
                        <= maxTokens + (grants'[t0][j] - grants'[t0][i]) * CallsPerMinute
    BY <1>3, <1>4 DEF IInv, RateCeiling
  <2>1. CASE j = n + 1
    <3>0. n + 1 - i + 1 \in Int /\ now - grants'[t0][i] \in Int
      <4>1. n \in Nat /\ now \in Nat /\ i \in Int /\ grants'[t0][i] \in Nat
        BY <1>3, <1>4
      <4> QED
        BY <4>1
    <3>1. (n + 1 - i + 1) * Scale \in Int /\ (now - grants'[t0][i]) * CallsPerMinute \in Int
      BY <3>0, ProductType
    <3>2. tokens'[l0] \in Nat
      BY <1>1
    <3>3. (n + 1 - i + 1) * Scale <= maxTokens + (now - grants'[t0][i]) * CallsPerMinute
      BY <1>5, <1>8, <3>1, <3>2
    <3> DEFINE k == n + 1 - i + 1
               e == now - grants'[t0][i]
    <3>4. j - i + 1 = k /\ grants'[t0][j] - grants'[t0][i] = e
      BY <1>3, <1>4, <2>1
    <3>5. k * Scale <= maxTokens + e * CallsPerMinute
      BY <3>3
    <3>6. k \in Int /\ e \in Int
      BY <3>0, Zenon
    <3> HIDE DEF k, e
    <3> QED
      BY <3>4, <3>5, <3>6, LimiterAssumption
  <2>2. CASE j \in 1..n
    <3>1. i \in 1..n
      BY <1>3, <2>2
    <3> QED
      BY <1>1, <1>4, <2>2, <3>1 DEF IInv, RateCeiling
  <2>3. j = n + 1 \/ j \in 1..n
    <3>1. n \in Nat
      BY <1>3
    <3> QED
      BY <3>1
  <2> QED
    BY <2>1, <2>2, <2>3, Zenon
<1> QED
  BY <1>1, <1>6, <1>9, <1>10 DEF IInv
-----------------------------------------------------------------------------
\* Every step of the limiter preserves the inductive invariant.
THEOREM NextIInv == IInv /\ [Next]_vars => IInv'
<1> SUFFICES ASSUME IInv, [Next]_vars PROVE IInv'
  OBVIOUS
<1>1. CASE Tick
  <2>1. now' = now + 1 /\ UNCHANGED <<pool, tokens, last, slots, pc, held, grants>>
    BY <1>1 DEF Tick
  <2>2. TypeOK' /\ LastIsPast'
    BY <2>1 DEF IInv, TypeOK, LastIsPast
  <2>3. HoldsOwn' /\ PoolIsUsed' /\ SlotsBounded'
    BY <2>1 DEF IInv, HoldsOwn, PoolIsUsed, SlotsBounded
  <2>4. SlotsMatchHolders'
    <3>1. \A l \in Caller : Holders(l)' = Holders(l)
      BY <2>1 DEF Holders
    <3> QED
      BY <2>1, <3>1 DEF IInv, SlotsMatchHolders
  <2>5. Paid' /\ RateCeiling'
    BY <2>1 DEF IInv, Paid, RateCeiling
  <2> QED
    BY <2>2, <2>3, <2>4, <2>5 DEF IInv
<1>2. ASSUME NEW c \in Caller, PoolAcquire(c) PROVE IInv'
  BY <1>2, PoolAcquireIInv
<1>3. ASSUME NEW c \in Caller, AcquireSlot(c) PROVE IInv'
  BY <1>3, AcquireSlotIInv
<1>4. ASSUME NEW c \in Caller, AcquireNoSlot(c) \/ PoolRelease(c) PROVE IInv'
  BY <1>4, NoSlotOrCallEndsIInv
<1>5. ASSUME NEW c \in Caller, AcquireToken(c) PROVE IInv'
  BY <1>5, AcquireTokenIInv
<1>6. ASSUME NEW c \in Caller, AcquireNoToken(c) PROVE IInv'
  BY <1>6, AcquireNoTokenIInv
<1>7. ASSUME NEW c \in Caller, AcquireGivesBack(c) \/ Release(c) PROVE IInv'
  BY <1>7, SlotReturnedIInv
<1>8. CASE UNCHANGED vars
  <2>1. TypeOK' /\ LastIsPast' /\ HoldsOwn' /\ PoolIsUsed'
    BY <1>8 DEF vars, IInv, TypeOK, LastIsPast, HoldsOwn, PoolIsUsed
  <2>2. SlotsMatchHolders' /\ SlotsBounded' /\ Paid' /\ RateCeiling'
    BY <1>8
    DEF vars, IInv, SlotsMatchHolders, SlotsBounded, Holders, Paid, RateCeiling
  <2> QED
    BY <2>1, <2>2 DEF IInv
<1> QED
  BY <1>1, <1>2, <1>3, <1>4, <1>5, <1>6, <1>7, <1>8 DEF Next, AcquireSteps

\* The inductive invariant holds in every reachable state.
THEOREM Invariance == SafeSpec => []IInv
BY InitIInv, NextIInv, PTL DEF SafeSpec

\* Type correctness of the limiter; no bucket exceeds its depth.
THEOREM TypeCorrect == SafeSpec => []TypeOK
<1>1. IInv => TypeOK
  BY DEF IInv
<1> QED
  BY Invariance, <1>1, PTL

\* No slot leaks and none is returned twice, whatever the interleaving.
THEOREM NoSlotLeaks == SafeSpec => []SlotsMatchHolders
<1>1. IInv => SlotsMatchHolders
  BY DEF IInv
<1> QED
  BY Invariance, <1>1, PTL

\* No tenant ever has more than MaxConcurrent LLM calls in flight.
THEOREM ConcurrencyIsBounded == SafeSpec => []ConcurrencyCeiling
<1>1. ASSUME IInv PROVE ConcurrencyCeiling
  <2> SUFFICES ASSUME NEW t \in Tenant
               PROVE  Cardinality(InFlight(t)) <= MaxConcurrent
    BY DEF ConcurrencyCeiling
  <2>1. CASE InFlight(t) = {}
    BY <2>1, FS_EmptySet, LimiterAssumption
  <2>2. CASE InFlight(t) # {}
    <3>1. pool[t] \in Caller /\ InFlight(t) \subseteq Holders(pool[t])
      BY <1>1, <2>2 DEF InFlight, Holders, IInv, HoldsOwn
    <3>2. /\ Cardinality(InFlight(t)) <= Cardinality(Holders(pool[t]))
          /\ Cardinality(InFlight(t)) \in Nat
          /\ Cardinality(Holders(pool[t])) \in Nat
      BY <3>1, HoldersFinite, FS_Subset, FS_CardinalityType
    <3>3. Cardinality(Holders(pool[t])) <= MaxConcurrent
      BY <1>1, <3>1 DEF IInv, SlotsMatchHolders, SlotsBounded
    <3> QED
      BY <3>2, <3>3, LimiterAssumption
  <2> QED
    BY <2>1, <2>2
<1> QED
  BY Invariance, <1>1, PTL

\* The token bucket: between any two granted calls of a tenant there are at
\* most a burst plus the refill of the time between them, for every rate,
\* every burst and any number of concurrent callers.
THEOREM RateIsBounded == SafeSpec => []RateCeiling
<1>1. IInv => RateCeiling
  BY DEF IInv
<1> QED
  BY Invariance, <1>1, PTL
=============================================================================
