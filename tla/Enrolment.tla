------------------------------ MODULE Enrolment ------------------------------
(***************************************************************************)
(* internal/auth/bootstrap.go and renew.go: how one cluster gets its leaf  *)
(* certificates.  A bootstrap attempt presents the one-time token, claims  *)
(* a marker in the store and has its CSR signed; a renewal presents a leaf *)
(* that the transport's revocation check has admitted (internal/grpcsrv    *)
(* RevocationInterceptor, internal/signedsrv authenticate).                *)
(*                                                                         *)
(* Attempts run concurrently.  An attempt looks the cluster up in the      *)
(* tenants snapshot, which TenantsReloader replaces at any time, and acts  *)
(* on what it found while the snapshot moves on.  Clusters share nothing   *)
(* (the marker's key holds the cluster), so one cluster is modelled.       *)
(*                                                                         *)
(* Attempts in one process take h.mu around SetNX, so the store reads the  *)
(* clock and decides without another attempt in between: seen = now.       *)
(***************************************************************************)
EXTENDS Store

CONSTANTS
  Attempt,
  attOf,          \* [Attempt -> [kind, token, complete, csrOk]]
  Config,         \* the entries the tenants file may hold for the cluster
  FirstConfig,    \* the entry at start
  NoTenant,       \* the cluster is not in the file
  Day,            \* 24 hours, in ticks
  Lag             \* bound: ticks an attempt takes from its first lookup

ASSUME EnrolmentAssumption ==
  /\ \A a \in Attempt : /\ attOf[a].kind \in {"bootstrap", "renew"}
                        /\ attOf[a].complete \in BOOLEAN
                        /\ attOf[a].csrOk \in BOOLEAN
  /\ \A t \in Config \ {NoTenant} : t.revoked \in BOOLEAN /\ t.expiresAt \in Nat
  /\ FirstConfig \in Config
  /\ Day \in Nat \ {0}
  /\ Lag \in 0..Day

VARIABLES
  tenant,         \* the cluster's entry in the tenants snapshot
  refusedSince,   \* history: since when the snapshot refuses it, 0 if it does not
  pc,             \* attempt -> where it is, or how it ended
  got,            \* attempt -> the entry it looked up
  begun,          \* attempt -> when it did
  claimed         \* history: attempt -> when SetNX stored its marker in the
                  \* present store, 0 if it did not

vars == <<redis, now, items, tenant, refusedSince, pc, got, begun, claimed>>

\* usedKey of the cluster
usedKey == "bootstrap:used"

Refused(t) == IF t = NoTenant THEN TRUE ELSE t.revoked

Init ==
  /\ StoreInit({usedKey})
  /\ tenant = FirstConfig
  /\ refusedSince = IF Refused(FirstConfig) THEN now ELSE 0
  /\ pc = [a \in Attempt |-> "sent"]
  /\ got = [a \in Attempt |-> NoTenant]
  /\ begun = [a \in Attempt |-> 0]
  /\ claimed = [a \in Attempt |-> 0]

InProgress == {a \in Attempt : pc[a] \in {"admitted", "checked", "signing", "rollback"}}

\* Time passes, but no attempt takes longer than Lag.
Tick ==
  /\ now < MaxTime
  /\ \A a \in InProgress : now < begun[a] + Lag
  /\ now' = now + 1
  /\ UNCHANGED <<items, tenant, refusedSince, pc, got, begun, claimed>>

\* TenantsReloader swaps the snapshot.
Reload(t) ==
  /\ t # tenant
  /\ tenant' = t
  /\ refusedSince' = IF ~Refused(t) THEN 0
                     ELSE IF refusedSince # 0 THEN refusedSince ELSE now
  /\ UNCHANGED <<now, items, pc, got, begun, claimed>>

\* Attempt a goes on to, or ends with, p; nothing else changes.
Becomes(a, p) ==
  /\ pc' = [pc EXCEPT ![a] = p]
  /\ UNCHANGED <<now, items, tenant, refusedSince, got, begun, claimed>>
-----------------------------------------------------------------------------
\* BootstrapHandler.Issue's checks before it claims the token.
MayBootstrap(a) ==
  /\ attOf[a].complete
  /\ ~Refused(tenant)
  /\ tenant.expiresAt = 0 \/ now <= tenant.expiresAt
  /\ tenant.token = attOf[a].token

BootstrapRefuses(a) ==
  /\ attOf[a].kind = "bootstrap" /\ pc[a] = "sent"
  /\ ~MayBootstrap(a)
  /\ Becomes(a, "refused")

BootstrapChecks(a) ==
  /\ attOf[a].kind = "bootstrap" /\ pc[a] = "sent"
  /\ MayBootstrap(a)
  /\ pc' = [pc EXCEPT ![a] = "checked"]
  /\ got' = [got EXCEPT ![a] = tenant]
  /\ begun' = [begun EXCEPT ![a] = now]
  /\ UNCHANGED <<now, items, tenant, refusedSince, claimed>>

\* Mutation: always a day, however long the bootstrap window lasts.
ttl_Day(a) == Day

\* How long the marker lives: a day, or up to the end of the bootstrap window.
ttl(a) ==
  IF got[a].expiresAt # 0 /\ got[a].expiresAt - begun[a] > Day
  THEN got[a].expiresAt - begun[a] ELSE Day

\* SetNX stores the marker.
BootstrapClaims(a) ==
  /\ attOf[a].kind = "bootstrap" /\ pc[a] = "checked"
  /\ SetNX(usedKey, 1, ttl(a), now)
  /\ claimed' = [claimed EXCEPT ![a] = now]
  /\ pc' = [pc EXCEPT ![a] = "signing"]
  /\ UNCHANGED <<now, tenant, refusedSince, got, begun>>

\* SetNX finds the marker: ErrBootstrapUnauthorized.
BootstrapUsed(a) ==
  /\ attOf[a].kind = "bootstrap" /\ pc[a] = "checked"
  /\ SetNXFinds(usedKey, now)
  /\ Becomes(a, "used")

\* SetNX returns an error, ErrBootstrapInternal; the marker may be stored.
BootstrapErrs(a) ==
  /\ attOf[a].kind = "bootstrap" /\ pc[a] = "checked"
  /\ SetNXFails(usedKey, 1, ttl(a))
  /\ pc' = [pc EXCEPT ![a] = "error"]
  /\ claimed' = [claimed EXCEPT ![a] = IF items' = items THEN 0 ELSE now]
  /\ UNCHANGED <<now, tenant, refusedSince, got, begun>>

\* Sign rejects the CSR or fails; a bootstrap attempt then rolls back.
SignFails(a) ==
  /\ pc[a] = "signing"
  /\ Becomes(a, IF attOf[a].kind = "bootstrap" THEN "rollback" ELSE "bad request")

\* Sign mints the leaf.
SignIssues(a) ==
  /\ pc[a] = "signing"
  /\ attOf[a].csrOk
  /\ Becomes(a, "issued")

\* Mutation: a failed signing keeps the marker.
RollsBack_KeepsMarker(a) ==
  /\ pc[a] = "rollback"
  /\ Becomes(a, "bad request")

\* The marker is deleted; ErrBootstrapBadRequest.
RollsBack(a) ==
  /\ pc[a] = "rollback"
  /\ Delete(usedKey)
  /\ pc' = [pc EXCEPT ![a] = "bad request"]
  /\ UNCHANGED <<now, tenant, refusedSince, got, begun, claimed>>

\* Redis fails to delete the marker; the error is ignored.
RollbackFails(a) ==
  /\ redis
  /\ pc[a] = "rollback"
  /\ Becomes(a, "unreleased")
-----------------------------------------------------------------------------
\* Mutation: a renewal from a cluster that is not configured is admitted.
Admissible_Unknown == tenant = NoTenant \/ ~Refused(tenant)

\* The transports' revocation check: an unknown or revoked tenant is refused.
Admissible == ~Refused(tenant)

RenewalRefused(a) ==
  /\ attOf[a].kind = "renew" /\ pc[a] = "sent"
  /\ ~Admissible
  /\ Becomes(a, "refused")

RenewalAdmitted(a) ==
  /\ attOf[a].kind = "renew" /\ pc[a] = "sent"
  /\ Admissible
  /\ pc' = [pc EXCEPT ![a] = "admitted"]
  /\ begun' = [begun EXCEPT ![a] = now]
  /\ UNCHANGED <<now, items, tenant, refusedSince, got, claimed>>

\* RenewHandler.Issue looks the tenant up again: a revoked one is refused, a
\* missing one is not.
RenewChecks(a) ==
  /\ pc[a] = "admitted"
  /\ IF tenant # NoTenant /\ Refused(tenant) THEN Becomes(a, "refused")
     ELSE IF ~attOf[a].complete THEN Becomes(a, "bad request")
     ELSE Becomes(a, "signing")

\* A restart drops the attempts the process was handling: all of them, or with
\* a shared store, those of one replica.
Restart ==
  /\ StoreRestart
  /\ claimed' = IF redis THEN claimed ELSE [a \in Attempt |-> 0]
  /\ \E lost \in SUBSET InProgress :
       /\ redis \/ lost = InProgress
       /\ pc' = [a \in Attempt |-> IF a \in lost THEN "lost" ELSE pc[a]]
  /\ UNCHANGED <<now, tenant, refusedSince, got, begun>>

Janitor ==
  janitor /\ UNCHANGED <<tenant, refusedSince, pc, got, begun, claimed>>

BootstrapSteps(a) ==
  \/ BootstrapRefuses(a) \/ BootstrapChecks(a)
  \/ BootstrapClaims(a) \/ BootstrapUsed(a) \/ BootstrapErrs(a)
  \/ RollsBack(a) \/ RollbackFails(a)

RenewSteps(a) == RenewalRefused(a) \/ RenewalAdmitted(a) \/ RenewChecks(a)

Next ==
  /\ UNCHANGED redis
  /\ \/ Tick \/ Restart \/ Janitor
     \/ \E t \in Config : Reload(t)
     \/ \E a \in Attempt :
          BootstrapSteps(a) \/ RenewSteps(a) \/ SignFails(a) \/ SignIssues(a)

Spec == Init /\ [][Next]_vars
-----------------------------------------------------------------------------
\* Attempts a and b, in this order, both claimed the token and got a leaf.
IssuedTwice(a, b) ==
  /\ a # b
  /\ pc[a] = "issued" /\ pc[b] = "issued"
  /\ claimed[a] # 0 /\ claimed[a] <= claimed[b]

\* "The marker key lives for the remainder of the bootstrap window (or 24h if
\* no expiry set)" (bootstrap.go:182-184): although failed attempts delete the
\* marker without looking whose it is, a second leaf is minted only after a day
\* and after the window the first attempt saw.
OneLeafPerWindow ==
  \A a, b \in Attempt : IssuedTwice(a, b) =>
    claimed[b] > claimed[a] + Day /\ claimed[b] > got[a].expiresAt

\* "a transient signing failure doesn't burn the only bootstrap token"
\* (bootstrap.go:210-211): while the marker stands, some attempt got its leaf,
\* is on its way to it, or was cut off by a crash or by the store failing.
MarkerIsExplained ==
  Live(usedKey, now) =>
    \E a \in Attempt :
      /\ claimed[a] # 0
      /\ pc[a] \in {"signing", "rollback", "issued", "error", "unreleased", "lost"}

\* "a flag-flip to `revoked: true` then takes effect within one reloader poll
\* interval" (interceptors.go:81-84), and an unknown tenant counts as revoked:
\* no leaf is minted for a cluster that the snapshot has refused for longer
\* than one attempt takes.
NoLeafOnceRefused ==
  [][\A a \in Attempt :
       pc[a] # "issued" /\ pc'[a] = "issued" =>
         refusedSince = 0 \/ now <= refusedSince + Lag]_vars
=============================================================================
