----------------------------- MODULE ReplayGuard -----------------------------
(***************************************************************************)
(* internal/auth/replay.go: Verify admits a request whose timestamp lies   *)
(* within the window and whose nonce its sender has not used before.  Both *)
(* transports call it (ReplayInterceptor in internal/grpcsrv, authenticate *)
(* in internal/signedsrv) from one goroutine per request.                  *)
(*                                                                         *)
(* A Request is one arrival: a message that a collector or the network     *)
(* sends twice is two requests with the same fields.  Verify reads the     *)
(* clock for the window check; the store reads it again for the nonce.     *)
(* The goroutine can be delayed between the two, by up to Lag ticks.       *)
(***************************************************************************)
EXTENDS Store

CONSTANTS
  Request,
  reqOf,           \* [Request -> [id, nonce, ts, wellFormed]]
  WindowSetting,   \* the configured window
  DefaultWindow,   \* five minutes
  Lag              \* bound: ticks from Verify's clock reading to the store's answer

ASSUME ReplayAssumption ==
  /\ \A r \in Request : reqOf[r].ts \in Nat /\ reqOf[r].wellFormed \in BOOLEAN
  /\ WindowSetting \in Int
  /\ DefaultWindow \in Nat \ {0}
  /\ Lag \in Nat

VARIABLES
  pc,        \* request -> where its Verify is, or what it returned
  checked,   \* request -> Verify's clock reading
  seen,      \* request -> Memory.SetNX's clock reading while it waits for m.mu
  wrote      \* history: request -> when SetNX stored its nonce in the present
             \* store, 0 if it did not

vars == <<redis, now, items, pc, checked, seen, wrote>>

\* NewReplayGuard
window == IF WindowSetting <= 0 THEN DefaultWindow ELSE WindowSetting

\* Mutation: the cache forgets after one window.
nonceTTL_OneWindow == window

nonceTTL == 2 * window

\* Mutation: the identity is left out of the key.
nonceKey_NoIdentity(r) == <<"nonce", reqOf[r].nonce>>

nonceKey(r) == <<reqOf[r].id, reqOf[r].nonce>>

Init ==
  /\ StoreInit({nonceKey(r) : r \in Request})
  /\ pc = [r \in Request |-> "sent"]
  /\ checked = [r \in Request |-> 0]
  /\ seen = [r \in Request |-> 0]
  /\ wrote = [r \in Request |-> 0]

\* The requests inside Verify that passed the window check.
InVerify == {r \in Request : pc[r] \in {"fresh", "locking"}}

\* Time passes, but no Verify takes longer than Lag.
Tick ==
  /\ now < MaxTime
  /\ \A r \in InVerify : now < checked[r] + Lag
  /\ now' = now + 1
  /\ UNCHANGED <<items, pc, checked, seen, wrote>>
-----------------------------------------------------------------------------
\* g.now().Sub(reqTime) lies in the window.
InWindow(r) == now - reqOf[r].ts <= window /\ now - reqOf[r].ts >= -window

\* Verify returns before it reaches the store: a missing or malformed timestamp
\* or nonce, or too much clock skew.
VerifyRejects(r) ==
  /\ pc[r] = "sent"
  /\ ~reqOf[r].wellFormed \/ ~InWindow(r)
  /\ pc' = [pc EXCEPT ![r] = "rejected"]
  /\ UNCHANGED <<now, items, checked, seen, wrote>>

\* The timestamp is fresh and the nonce well formed.
VerifyFresh(r) ==
  /\ pc[r] = "sent"
  /\ reqOf[r].wellFormed /\ InWindow(r)
  /\ pc' = [pc EXCEPT ![r] = "fresh"]
  /\ checked' = [checked EXCEPT ![r] = now]
  /\ UNCHANGED <<now, items, seen, wrote>>

\* Memory.SetNX reads the clock before it takes the lock.
SetNXReadsClock(r) ==
  /\ ~redis
  /\ pc[r] = "fresh"
  /\ pc' = [pc EXCEPT ![r] = "locking"]
  /\ seen' = [seen EXCEPT ![r] = now]
  /\ UNCHANGED <<now, items, checked, wrote>>

\* The store executes r's SetNX, on the clock reading t.
AtStore(r, t) ==
  IF redis THEN pc[r] = "fresh" /\ t = now ELSE pc[r] = "locking" /\ t = seen[r]

\* SetNX stores the nonce: Verify returns nil.
VerifyAccepts(r) ==
  \E t \in 1..now :
    /\ AtStore(r, t)
    /\ SetNX(nonceKey(r), 1, nonceTTL, t)
    /\ pc' = [pc EXCEPT ![r] = "accepted"]
    /\ seen' = [seen EXCEPT ![r] = 0]
    /\ wrote' = [wrote EXCEPT ![r] = now]
    /\ UNCHANGED <<now, checked>>

\* SetNX finds the nonce: ErrReplayNonceReused.
VerifyReused(r) ==
  \E t \in 1..now :
    /\ AtStore(r, t)
    /\ SetNXFinds(nonceKey(r), t)
    /\ pc' = [pc EXCEPT ![r] = "reused"]
    /\ seen' = [seen EXCEPT ![r] = 0]
    /\ UNCHANGED <<now, checked, wrote>>

\* SetNX returns an error, and so does Verify; the nonce may be stored.
VerifyErrs(r) ==
  /\ AtStore(r, now)
  /\ SetNXFails(nonceKey(r), 1, nonceTTL)
  /\ pc' = [pc EXCEPT ![r] = "error"]
  /\ wrote' = [wrote EXCEPT ![r] = IF items' = items THEN 0 ELSE now]
  /\ UNCHANGED <<now, checked, seen>>

\* A restart drops the requests the process was handling: all of them, or with
\* a shared store, those of one replica.
Restart ==
  /\ StoreRestart
  /\ wrote' = IF redis THEN wrote ELSE [r \in Request |-> 0]
  /\ \E lost \in SUBSET InVerify :
       /\ redis \/ lost = InVerify
       /\ pc' = [r \in Request |-> IF r \in lost THEN "lost" ELSE pc[r]]
       /\ seen' = [r \in Request |-> IF r \in lost THEN 0 ELSE seen[r]]
  /\ UNCHANGED <<now, checked>>

Janitor == janitor /\ UNCHANGED <<pc, checked, seen, wrote>>

VerifySteps(r) ==
  \/ VerifyRejects(r) \/ VerifyFresh(r) \/ SetNXReadsClock(r)
  \/ VerifyAccepts(r) \/ VerifyReused(r) \/ VerifyErrs(r)

Next ==
  /\ UNCHANGED redis
  /\ \/ Tick \/ Restart \/ Janitor
     \/ \E r \in Request : VerifySteps(r)

Spec == Init /\ [][Next]_vars
-----------------------------------------------------------------------------
\* Every variable keeps its type, and every cached nonce has an expiry, at most
\* two windows away: the cache does not grow for ever.
TypeOK ==
  /\ now \in Nat \ {0}
  /\ pc \in [Request -> {"sent", "rejected", "fresh", "locking", "accepted",
                         "reused", "error", "lost"}]
  /\ checked \in [Request -> 0..now]
  /\ seen \in [Request -> 0..now]
  /\ wrote \in [Request -> 0..now]
  /\ items \in [{nonceKey(r) : r \in Request} -> Item \cup {NoItem}]
  /\ \A k \in DOMAIN items :
       items[k] # NoItem => items[k].expiresAt \in 1..(now + 2 * window)

\* Requests a and b, in this order, both stored the same nonce of one sender.
StoredTwice(a, b) ==
  /\ wrote[a] # 0 /\ wrote[a] <= wrote[b]
  /\ a # b
  /\ reqOf[a].id = reqOf[b].id /\ reqOf[a].nonce = reqOf[b].nonce

\* "Nonces are cached for 2x the accepted clock-skew window" (SECURITY.md):
\* however requests, janitor and clock readings interleave, a nonce is accepted
\* again only when more than two windows have passed since it was stored.
NonceSpacing ==
  \A a, b \in Request : StoredTwice(a, b) => wrote[b] > wrote[a] + 2 * window

\* "The nonce cache TTL is 2x window so a captured request cannot be replayed
\* at the edge of expiry" (replay.go:62-63): of two arrivals of one message the
\* second is accepted only if the sender's clock ran ahead by more than the
\* window less the lag.  Without lag that is never.
AcceptedOnce ==
  \A a, b \in Request :
    StoredTwice(a, b) /\ reqOf[a].ts = reqOf[b].ts
      => reqOf[a].ts - checked[a] > window - Lag

\* "a malicious tenant cannot pre-burn nonces for another tenant"
\* (replay.go:85-86): a nonce is refused as used only if its own sender stored
\* it, at most two windows before the store read the clock.
ReusedMeansUsed ==
  [][\A b \in Request :
       pc[b] # "reused" /\ pc'[b] = "reused" =>
         \E a \in Request :
           /\ reqOf[a].id = reqOf[b].id /\ reqOf[a].nonce = reqOf[b].nonce
           /\ wrote[a] # 0
           /\ (IF redis THEN now ELSE seen[b]) <= wrote[a] + 2 * window]_vars
=============================================================================
