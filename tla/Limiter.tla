------------------------------- MODULE Limiter -------------------------------
(***************************************************************************)
(* internal/llmlimit/llmlimit.go: the cost backstop in front of the LLM.   *)
(* A Pool gives every tenant a Limiter, a token bucket and a semaphore.    *)
(*                                                                         *)
(* Concurrency.  A caller is the goroutine that evaluates one alert or     *)
(* incident (evaluate, evaluateIncident in internal/pipeline/pipeline.go): *)
(* it acquires once, calls the LLM, and releases once.  Pool.mu, the       *)
(* channel operations and Limiter.mu are separate critical sections, so    *)
(* each is an action and callers interleave between them.                  *)
(*                                                                         *)
(* Arithmetic.  A minute has Scale ticks of the clock, and tokens are      *)
(* counted in units of 1/Scale token, so that one tick refills exactly     *)
(* CallsPerMinute units; the code does the same sum in float64.            *)
(*                                                                         *)
(* A limiter is named by the caller whose Pool.bucket call created it.     *)
(* A non-positive CallsPerMinute or MaxConcurrent makes the pool nil and   *)
(* every Acquire succeed; that configuration is left out.                  *)
(***************************************************************************)
EXTENDS Integers, Sequences, FiniteSets

CONSTANTS
  Caller,
  Tenant,
  tenantOf,         \* [Caller -> Tenant]: payload.ClusterId
  CallsPerMinute,   \* LLM_MAX_CALLS_PER_MINUTE
  Burst,            \* LLM_BURST
  MaxConcurrent,    \* LLM_MAX_CONCURRENT
  Scale,            \* ticks of the clock in a minute
  MaxTime,          \* bound: the clock stops here
  NoLimiter         \* nil *Limiter

ASSUME LimiterAssumption ==
  /\ IsFiniteSet(Caller)
  /\ tenantOf \in [Caller -> Tenant]
  /\ CallsPerMinute \in Nat \ {0}
  /\ Burst \in Int
  /\ MaxConcurrent \in Nat \ {0}
  /\ Scale \in Nat \ {0}
  /\ NoLimiter \notin Caller

VARIABLES
  now,       \* the clock
  pool,      \* Pool.buckets: tenant -> limiter, NoLimiter if absent
  tokens,    \* limiter -> Limiter.tokens, in units
  last,      \* limiter -> Limiter.last
  slots,     \* limiter -> len(Limiter.concurrency)
  pc,        \* caller -> where it is
  held,      \* caller -> the limiter its last Pool.bucket call returned
  grants     \* history: tenant -> times of its granted calls, oldest first

vars == <<now, pool, tokens, last, slots, pc, held, grants>>

\* New: the depth of the token bucket, in units.
maxTokens == Scale * (IF Burst <= 0 THEN CallsPerMinute ELSE Burst)

\* The callers between taking a slot of limiter l and giving it back.
Holders(l) ==
  {c \in Caller : held[c] = l /\ pc[c] \in {"slot", "giveback", "calling", "releasing"}}

\* The callers of tenant t whose LLM call is in flight.
InFlight(t) == {c \in Caller : tenantOf[c] = t /\ pc[c] = "calling"}

Init ==
  /\ now = 0
  /\ pool = [t \in Tenant |-> NoLimiter]
  /\ tokens = [l \in Caller |-> 0]
  /\ last = [l \in Caller |-> 0]
  /\ slots = [l \in Caller |-> 0]
  /\ pc = [c \in Caller |-> "idle"]
  /\ held = [c \in Caller |-> NoLimiter]
  /\ grants = [t \in Tenant |-> <<>>]

Tick ==
  /\ now < MaxTime
  /\ now' = now + 1
  /\ UNCHANGED <<pool, tokens, last, slots, pc, held, grants>>
-----------------------------------------------------------------------------
\* Pool.bucket, called by c: the tenant's limiter, created full on first use.
bucket(c) ==
  IF pool[tenantOf[c]] # NoLimiter
  THEN /\ held' = [held EXCEPT ![c] = pool[tenantOf[c]]]
       /\ UNCHANGED <<pool, tokens, last, slots>>
  ELSE /\ held' = [held EXCEPT ![c] = c]
       /\ pool' = [pool EXCEPT ![tenantOf[c]] = c]
       /\ tokens' = [tokens EXCEPT ![c] = maxTokens]
       /\ last' = [last EXCEPT ![c] = now]
       /\ slots' = [slots EXCEPT ![c] = 0]

\* Pool.Acquire finds the tenant's limiter.
PoolAcquire(c) ==
  /\ pc[c] = "idle"
  /\ bucket(c)
  /\ pc' = [pc EXCEPT ![c] = "found"]
  /\ UNCHANGED <<now, grants>>

\* Mutation: the slot test is off by one.
AcquireSlot_OffByOne(c) ==
  /\ pc[c] = "found"
  /\ slots[held[c]] <= MaxConcurrent
  /\ slots' = [slots EXCEPT ![held[c]] = @ + 1]
  /\ pc' = [pc EXCEPT ![c] = "slot"]
  /\ UNCHANGED <<now, pool, tokens, last, held, grants>>

\* Limiter.Acquire: the send on the channel succeeds.
AcquireSlot(c) ==
  /\ pc[c] = "found"
  /\ slots[held[c]] < MaxConcurrent
  /\ slots' = [slots EXCEPT ![held[c]] = @ + 1]
  /\ pc' = [pc EXCEPT ![c] = "slot"]
  /\ UNCHANGED <<now, pool, tokens, last, held, grants>>

\* Limiter.Acquire: the channel is full, Acquire returns false.
AcquireNoSlot(c) ==
  /\ pc[c] = "found"
  /\ slots[held[c]] = MaxConcurrent
  /\ pc' = [pc EXCEPT ![c] = "throttled"]
  /\ UNCHANGED <<now, pool, tokens, last, slots, held, grants>>

\* The tokens of limiter l after Acquire's refill and cap.
refilled(l) ==
  LET refill == tokens[l] + (now - last[l]) * CallsPerMinute
  IN  IF refill > maxTokens THEN maxTokens ELSE refill

\* Mutation: last is not advanced, time is credited twice.
AcquireToken_StaleLast(c) ==
  /\ pc[c] = "slot"
  /\ refilled(held[c]) >= Scale
  /\ tokens' = [tokens EXCEPT ![held[c]] = refilled(held[c]) - Scale]
  /\ grants' = [grants EXCEPT ![tenantOf[c]] = Append(@, now)]
  /\ pc' = [pc EXCEPT ![c] = "calling"]
  /\ UNCHANGED <<now, pool, last, slots, held>>

\* Limiter.Acquire under l.mu, with a token left: Acquire returns true.
AcquireToken(c) ==
  /\ pc[c] = "slot"
  /\ refilled(held[c]) >= Scale
  /\ tokens' = [tokens EXCEPT ![held[c]] = refilled(held[c]) - Scale]
  /\ last' = [last EXCEPT ![held[c]] = now]
  /\ grants' = [grants EXCEPT ![tenantOf[c]] = Append(@, now)]
  /\ pc' = [pc EXCEPT ![c] = "calling"]
  /\ UNCHANGED <<now, pool, slots, held>>

\* Mutation: the slot is not given back.
AcquireNoToken_KeepsSlot(c) ==
  /\ pc[c] = "slot"
  /\ refilled(held[c]) < Scale
  /\ tokens' = [tokens EXCEPT ![held[c]] = refilled(held[c])]
  /\ last' = [last EXCEPT ![held[c]] = now]
  /\ pc' = [pc EXCEPT ![c] = "throttled"]
  /\ UNCHANGED <<now, pool, slots, held, grants>>

\* Limiter.Acquire under l.mu, without a token.
AcquireNoToken(c) ==
  /\ pc[c] = "slot"
  /\ refilled(held[c]) < Scale
  /\ tokens' = [tokens EXCEPT ![held[c]] = refilled(held[c])]
  /\ last' = [last EXCEPT ![held[c]] = now]
  /\ pc' = [pc EXCEPT ![c] = "giveback"]
  /\ UNCHANGED <<now, pool, slots, held, grants>>

\* Limiter.Acquire: the receive that gives the slot back blocks on an empty
\* channel; Acquire then returns false.
AcquireGivesBack(c) ==
  /\ pc[c] = "giveback"
  /\ slots[held[c]] > 0
  /\ slots' = [slots EXCEPT ![held[c]] = @ - 1]
  /\ pc' = [pc EXCEPT ![c] = "throttled"]
  /\ UNCHANGED <<now, pool, tokens, last, held, grants>>

\* The LLM call is over; the deferred Pool.Release looks the limiter up again.
PoolRelease(c) ==
  /\ pc[c] = "calling"
  /\ bucket(c)
  /\ pc' = [pc EXCEPT ![c] = "releasing"]
  /\ UNCHANGED <<now, grants>>

\* Mutation: the receive is not paired with one send.
Release_Twice(c) ==
  /\ pc[c] = "releasing"
  /\ slots' = [slots EXCEPT ![held[c]] = IF @ > 1 THEN @ - 2 ELSE 0]
  /\ pc' = [pc EXCEPT ![c] = "done"]
  /\ UNCHANGED <<now, pool, tokens, last, held, grants>>

\* Limiter.Release: a receive that does not block.
Release(c) ==
  /\ pc[c] = "releasing"
  /\ slots' = [slots EXCEPT ![held[c]] = IF @ > 0 THEN @ - 1 ELSE 0]
  /\ pc' = [pc EXCEPT ![c] = "done"]
  /\ UNCHANGED <<now, pool, tokens, last, held, grants>>

AcquireSteps(c) ==
  \/ AcquireSlot(c) \/ AcquireNoSlot(c)
  \/ AcquireToken(c) \/ AcquireNoToken(c) \/ AcquireGivesBack(c)

Next ==
  \/ Tick
  \/ \E c \in Caller :
       \/ PoolAcquire(c) \/ AcquireSteps(c)
       \/ PoolRelease(c) \/ Release(c)

\* A goroutine inside Acquire keeps running; an LLM call may last for ever.
Fairness == \A c \in Caller : WF_vars(AcquireSteps(c))

SafeSpec == Init /\ [][Next]_vars
Spec == SafeSpec /\ Fairness
-----------------------------------------------------------------------------
\* Every variable keeps its type, and no bucket holds more than its depth.
TypeOK ==
  /\ now \in Nat
  /\ pool \in [Tenant -> Caller \cup {NoLimiter}]
  /\ tokens \in [Caller -> Nat]
  /\ last \in [Caller -> Nat]
  /\ slots \in [Caller -> Nat]
  /\ pc \in [Caller -> {"idle", "found", "slot", "giveback", "calling",
                        "releasing", "throttled", "done"}]
  /\ held \in [Caller -> Caller \cup {NoLimiter}]
  /\ grants \in [Tenant -> Seq(Nat)]
  /\ \A l \in Caller : tokens[l] <= maxTokens

\* "maxConcurrent caps simultaneous in-flight calls" (llmlimit.go:38), for each
\* tenant and however acquires and releases interleave.
ConcurrencyCeiling ==
  \A t \in Tenant : Cardinality(InFlight(t)) <= MaxConcurrent

\* A slot is occupied exactly as long as somebody holds it: none leaks when the
\* rate ceiling refuses a call (llmlimit.go:85-90), and none is returned twice
\* or to another bucket, so a tenant's quota never shrinks nor grows.
SlotsMatchHolders ==
  \A l \in Caller : slots[l] = Cardinality(Holders(l))

\* "callsPerMinute is the sustained ceiling; burst is the maximum number of
\* calls allowed in an instantaneous spike" (llmlimit.go:36-38): from any
\* granted call of a tenant to any later one there are at most a burst plus
\* what the elapsed time refills.
RateCeiling ==
  \A t \in Tenant : \A i, j \in DOMAIN grants[t] :
    i <= j => (j - i + 1) * Scale
                <= maxTokens + (grants[t][j] - grants[t][i]) * CallsPerMinute

\* "It never blocks" (llmlimit.go:57): a caller that has found its limiter gets
\* its answer, although giving the slot back is a blocking receive.
AcquireReturns ==
  \A c \in Caller : pc[c] = "found" ~> pc[c] \in {"calling", "throttled"}
=============================================================================
