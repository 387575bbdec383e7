--------------------------- MODULE Enrolment_proofs ---------------------------
(***************************************************************************)
(* Proofs about Enrolment, for every set of attempts, every content of the *)
(* tenants file, any length of a day and any lag up to a day.              *)
(***************************************************************************)
EXTENDS Enrolment, TLAPS

Stage == {"sent", "admitted", "checked", "signing", "rollback", "issued", "refused",
          "used", "error", "bad request", "unreleased", "lost"}

\* The stages at which an attempt may have left a marker behind.
Marking == {"signing", "rollback", "issued", "error", "unreleased", "lost"}

\* Attempt a claimed the token, and keeps it or has yet to give it back.
Holds(a) == claimed[a] # 0 /\ pc[a] \in {"signing", "rollback", "issued"}

\* Until when a's marker stands.
Until(a) == claimed[a] + ttl(a)

TypeOK ==
  /\ redis \in BOOLEAN
  /\ now \in Nat \ {0}
  /\ items \in [{usedKey} -> Item \cup {NoItem}]
  /\ tenant \in Config
  /\ refusedSince \in Nat
  /\ pc \in [Attempt -> Stage]
  /\ got \in [Attempt -> Config \cup {NoTenant}]
  /\ begun \in [Attempt -> Nat]
  /\ claimed \in [Attempt -> Nat]

\* How an attempt gets to its stage.
Stages ==
  \A a \in Attempt :
    /\ pc[a] = "admitted" => attOf[a].kind = "renew"
    /\ pc[a] \in {"checked", "rollback"} => attOf[a].kind = "bootstrap"
    /\ pc[a] \in {"signing", "rollback"} /\ attOf[a].kind = "bootstrap" => claimed[a] # 0
    /\ pc[a] = "checked" \/ Holds(a) => got[a] # NoTenant
    /\ claimed[a] # 0 =>
         /\ attOf[a].kind = "bootstrap" /\ pc[a] \notin {"sent", "checked"}
         /\ begun[a] <= claimed[a] /\ claimed[a] <= now

\* An attempt in progress was admitted at most Lag ago, and not by a snapshot
\* that refuses the cluster.
Hurry ==
  \A a \in InProgress :
    /\ begun[a] <= now /\ now <= begun[a] + Lag
    /\ refusedSince # 0 => begun[a] <= refusedSince

RefusalDated == (refusedSince = 0 <=> ~Refused(tenant)) /\ refusedSince <= now

\* Until it runs out, a holder's marker is in the store.
Covered ==
  \A a \in Attempt : Holds(a) /\ now <= Until(a) =>
    items[usedKey] # NoItem /\ Until(a) <= items[usedKey].expiresAt

\* Nobody claims the token before the marker of every holder has run out.
Spaced ==
  \A a, b \in Attempt :
    a # b /\ Holds(a) /\ Holds(b) /\ claimed[a] <= claimed[b] => Until(a) < claimed[b]

\* Every marker was left by an attempt that did not take it away.
MarkerHasOwner ==
  items[usedKey] # NoItem => \E a \in Attempt : claimed[a] # 0 /\ pc[a] \in Marking

\* The inductive invariant.
IInv ==
  /\ TypeOK
  /\ Stages
  /\ Hurry
  /\ RefusalDated
  /\ Covered
  /\ Spaced
  /\ MarkerHasOwner
-----------------------------------------------------------------------------
\* A marker lives a day or longer, and to the end of the window its attempt saw.
LEMMA MarkerTTL ==
  ASSUME TypeOK, NEW a \in Attempt, got[a] # NoTenant
  PROVE  /\ ttl(a) \in Nat /\ ttl(a) >= Day
         /\ got[a].expiresAt \in Nat /\ got[a].expiresAt <= begun[a] + ttl(a)
<1>1. got[a] \in Config \ {NoTenant} /\ begun[a] \in Nat /\ Day \in Nat
  BY EnrolmentAssumption DEF TypeOK
<1>2. got[a].expiresAt \in Nat
  BY <1>1, EnrolmentAssumption
<1> QED
  BY <1>1, <1>2 DEF ttl

\* The initial state satisfies the invariant.
LEMMA InitIInv == Init => IInv
<1> SUFFICES ASSUME Init PROVE IInv
  OBVIOUS
<1> USE DEF Init, StoreInit
<1>1. TypeOK
  BY EnrolmentAssumption DEF TypeOK, Stage
<1>2. Stages /\ Hurry /\ Covered /\ Spaced
  BY DEF Stages, Hurry, InProgress, Covered, Spaced, Holds
<1>3. RefusalDated
  BY DEF RefusalDated
<1>4. MarkerHasOwner
  BY DEF MarkerHasOwner
<1> QED
  BY <1>1, <1>2, <1>3, <1>4 DEF IInv

\* A step that only takes attempt a to stage p preserves the invariant, if it
\* neither admits a, nor makes a a holder, nor takes the marker's owner away.
LEMMA BecomesStep ==
  ASSUME IInv, NEW a \in Attempt, NEW p \in Stage \ {"sent", "admitted", "checked"},
         Becomes(a, p), redis' = redis,
         p \in {"signing", "rollback"} =>
           /\ a \in InProgress
           /\ attOf[a].kind = "bootstrap" => pc[a] = "signing",
         p = "rollback" => attOf[a].kind = "bootstrap",
         p = "issued" => pc[a] = "signing",
         claimed[a] # 0 /\ pc[a] \in Marking => p \in Marking
  PROVE  IInv'
<1> USE DEF IInv, Becomes
<1>1. TypeOK'
  BY DEF TypeOK
<1>2. \A b \in Attempt : b # a => pc'[b] = pc[b]
  BY DEF TypeOK
<1>3. pc'[a] = p
  BY DEF TypeOK
<1>4. \A b \in Attempt : Holds(b)' => Holds(b)
  BY <1>2, <1>3 DEF Holds, Stages, InProgress
<1>5. \A b \in Attempt : Until(b)' = Until(b)
  BY DEF Until, ttl
<1>6. Stages'
  BY <1>2, <1>3, <1>4 DEF Stages
<1>7. InProgress' \subseteq InProgress
  BY <1>2, <1>3 DEF InProgress
<1>8. Hurry' /\ RefusalDated'
  BY <1>7 DEF Hurry, RefusalDated
<1>9. Covered' /\ Spaced'
  BY <1>4, <1>5 DEF Covered, Spaced
<1>10. MarkerHasOwner'
  BY <1>2, <1>3 DEF MarkerHasOwner
<1> QED
  BY <1>1, <1>6, <1>8, <1>9, <1>10

\* A step that admits attempt a preserves the invariant: the cluster is not refused.
LEMMA AdmitStep ==
  ASSUME IInv, NEW a \in Attempt, NEW p \in {"admitted", "checked"},
         pc[a] = "sent", ~Refused(tenant),
         attOf[a].kind = (IF p = "checked" THEN "bootstrap" ELSE "renew"),
         pc' = [pc EXCEPT ![a] = p],
         begun' = [begun EXCEPT ![a] = now],
         got' = (IF p = "checked" THEN [got EXCEPT ![a] = tenant] ELSE got),
         UNCHANGED <<redis, now, items, tenant, refusedSince, claimed>>
  PROVE  IInv'
<1> USE DEF IInv
<1>1. TypeOK'
  BY DEF TypeOK, Stage
<1>2. \A b \in Attempt : b # a => pc'[b] = pc[b] /\ begun'[b] = begun[b] /\ got'[b] = got[b]
  BY DEF TypeOK
<1>3. pc'[a] = p /\ begun'[a] = now
  BY DEF TypeOK
<1>4. \A b \in Attempt : Holds(b)' => Holds(b) /\ b # a
  BY <1>2, <1>3 DEF Holds
<1>5. \A b \in Attempt : b # a => Until(b)' = Until(b)
  BY <1>2 DEF Until, ttl
<1>6. p = "checked" => got'[a] # NoTenant
  BY DEF TypeOK, Refused
<1>7. claimed[a] = 0
  BY DEF Stages, Holds, Stage
<1>8. Stages'
  BY <1>2, <1>3, <1>4, <1>6, <1>7 DEF Stages
<1>9. Hurry'
  BY <1>2, <1>3, EnrolmentAssumption DEF Hurry, InProgress, RefusalDated, TypeOK
<1>10. RefusalDated'
  BY DEF RefusalDated
<1>11. Covered' /\ Spaced'
  BY <1>4, <1>5 DEF Covered, Spaced
<1>12. MarkerHasOwner'
  BY <1>2, <1>3 DEF MarkerHasOwner, Marking
<1> QED
  BY <1>1, <1>8, <1>9, <1>10, <1>11, <1>12

\* If SetNX finds no marker, the marker of every holder has run out.
LEMMA NotLiveIsOver ==
  ASSUME IInv, ~Live(usedKey, now), NEW a \in Attempt, Holds(a)
  PROVE  Until(a) < now
<1> USE DEF IInv
<1>1. got[a] # NoTenant
  BY DEF Stages
<1>2. Until(a) \in Nat /\ now \in Nat
  BY <1>1, MarkerTTL DEF Until, TypeOK
<1>3. items[usedKey] # NoItem => items[usedKey].expiresAt \in Nat
  BY DEF TypeOK, Item
<1> QED
  BY <1>2, <1>3 DEF Covered, Live, expired

\* The step in which SetNX stores attempt a's marker preserves the invariant,
\* whether its answer arrives or not.
LEMMA ClaimStep ==
  ASSUME IInv, NEW a \in Attempt, NEW p \in {"signing", "error"},
         attOf[a].kind = "bootstrap", pc[a] = "checked",
         SetNX(usedKey, 1, ttl(a), now),
         claimed' = [claimed EXCEPT ![a] = now],
         pc' = [pc EXCEPT ![a] = p],
         UNCHANGED <<redis, now, tenant, refusedSince, got, begun>>
  PROVE  IInv'
<1> USE DEF IInv
<1>1. got[a] # NoTenant /\ a \in InProgress /\ now \in Nat /\ now > 0
  BY DEF Stages, InProgress, TypeOK
<1>2. ttl(a) \in Nat /\ ttl(a) > 0
  BY <1>1, MarkerTTL, EnrolmentAssumption
<1>3. items'[usedKey] = [val |-> 1, expiresAt |-> now + ttl(a)]
  BY <1>2 DEF SetNX, Set, expiry, TypeOK
<1>4. items'[usedKey] \in Item
  BY <1>1, <1>2, <1>3 DEF Item
<1>5. TypeOK'
  <2>1. items' \in [{usedKey} -> Item \cup {NoItem}]
    BY <1>3, <1>4 DEF SetNX, Set, TypeOK
  <2> QED
    BY <2>1 DEF TypeOK, Stage
<1>6. \A b \in Attempt : b # a => pc'[b] = pc[b] /\ claimed'[b] = claimed[b]
  BY DEF TypeOK
<1>7. pc'[a] = p /\ claimed'[a] = now
  BY DEF TypeOK
<1>8. \A b \in Attempt : b # a /\ Holds(b)' => Holds(b) /\ Until(b) < now
  BY <1>6, NotLiveIsOver DEF Holds, SetNX
<1>9. \A b \in Attempt : b # a => Until(b)' = Until(b)
  BY <1>6 DEF Until, ttl
<1>10. Until(a)' = now + ttl(a)
  BY <1>7 DEF Until, ttl
<1>11. Stages'
  <2> SUFFICES ASSUME NEW b \in Attempt PROVE Stages!(b)'
    BY DEF Stages
  <2>1. CASE b = a
    BY <2>1, <1>1, <1>7 DEF Stages, Holds, Hurry, TypeOK
  <2>2. CASE b # a
    BY <2>2, <1>6 DEF Stages, Holds
  <2> QED
    BY <2>1, <2>2
<1>12. Hurry'
  BY <1>1, <1>6, <1>7 DEF Hurry, InProgress
<1>13. RefusalDated'
  BY DEF RefusalDated
<1>14. Covered'
  <2> SUFFICES ASSUME NEW b \in Attempt, Holds(b)', now <= Until(b)'
               PROVE  items'[usedKey] # NoItem /\ Until(b)' <= items'[usedKey].expiresAt
    BY DEF Covered
  <2>1. b = a
    BY <1>8, <1>9, MarkerTTL DEF Until, Stages, TypeOK
  <2> QED
    BY <2>1, <1>3, <1>4, <1>10, <1>2, <1>1, StoreAssumption
<1>15. Spaced'
  <2> SUFFICES ASSUME NEW b \in Attempt, NEW c \in Attempt,
                      b # c, Holds(b)', Holds(c)', claimed'[b] <= claimed'[c]
               PROVE  Until(b)' < claimed'[c]
    BY DEF Spaced
  <2>1. CASE c = a
    BY <2>1, <1>7, <1>8, <1>9
  <2>2. CASE b = a
    <3>1. claimed[c] \in Nat /\ Until(c) < now /\ Until(c) = claimed[c] + ttl(c)
      BY <2>2, <1>8 DEF Until, TypeOK
    <3>2. ttl(c) \in Nat
      BY <2>2, <1>8, MarkerTTL DEF Stages
    <3> QED
      BY <3>1, <3>2, <2>2, <1>1, <1>6, <1>7
  <2>3. CASE b # a /\ c # a
    BY <2>3, <1>6, <1>8, <1>9 DEF Spaced
  <2> QED
    BY <2>1, <2>2, <2>3
<1>16. MarkerHasOwner'
  BY <1>1, <1>7 DEF MarkerHasOwner, Marking
<1> QED
  BY <1>5, <1>11, <1>12, <1>13, <1>14, <1>15, <1>16

\* The step in which a failed attempt deletes the marker, without looking whose it
\* is, preserves the invariant: the marker of every other holder has run out.
LEMMA RollbackStep ==
  ASSUME IInv, NEW a \in Attempt, RollsBack(a), redis' = redis
  PROVE  IInv'
<1> USE DEF IInv
<1>1. Holds(a) /\ got[a] # NoTenant /\ a \in InProgress
  BY DEF RollsBack, Stages, Holds, InProgress
<1>2. now <= Until(a)
  <2>1. now <= begun[a] + Lag /\ begun[a] <= claimed[a]
    BY <1>1 DEF Hurry, Stages, Holds
  <2>2. now \in Nat /\ begun[a] \in Nat /\ claimed[a] \in Nat /\ Lag \in Nat /\ Lag <= Day /\ Day \in Nat
    BY EnrolmentAssumption DEF TypeOK
  <2>3. ttl(a) \in Nat /\ ttl(a) >= Day
    BY <1>1, MarkerTTL
  <2> QED
    BY <2>1, <2>2, <2>3 DEF Until
<1>3. TypeOK'
  BY DEF RollsBack, Delete, TypeOK, Stage
<1>4. \A b \in Attempt : b # a => pc'[b] = pc[b]
  BY DEF RollsBack, TypeOK
<1>5. pc'[a] = "bad request" /\ items'[usedKey] = NoItem
  BY DEF RollsBack, Delete, TypeOK
<1>6. \A b \in Attempt : Holds(b)' => Holds(b) /\ b # a
  BY <1>4, <1>5 DEF RollsBack, Holds
<1>7. \A b \in Attempt : Until(b)' = Until(b)
  BY DEF RollsBack, Until, ttl
<1>8. Stages'
  BY <1>4, <1>5, <1>6 DEF RollsBack, Stages
<1>9. Hurry' /\ RefusalDated'
  BY <1>4, <1>5 DEF RollsBack, Hurry, RefusalDated, InProgress
<1>10. ASSUME NEW b \in Attempt, Holds(b), b # a PROVE Until(b) < now
  <2>1. claimed[a] \in Nat /\ claimed[b] \in Nat /\ now \in Nat
    BY DEF TypeOK
  <2>2. Until(a) \in Nat /\ Until(b) \in Nat
    BY <1>1, <1>10, <2>1, MarkerTTL DEF Until, Stages
  <2>3. claimed[a] <= now /\ claimed[b] <= now
    BY <1>1, <1>10 DEF Stages, Holds
  <2>4. claimed[a] <= claimed[b] => Until(a) < claimed[b]
    BY <1>1, <1>10 DEF Spaced
  <2>5. claimed[b] <= claimed[a] => Until(b) < claimed[a]
    BY <1>1, <1>10 DEF Spaced
  <2> QED
    BY <1>2, <2>1, <2>2, <2>3, <2>4, <2>5
<1>11. Covered'
  <2> SUFFICES ASSUME NEW b \in Attempt, Holds(b)', now <= Until(b)'
               PROVE  FALSE
    BY DEF RollsBack, Covered
  <2>1. Until(b) < now /\ now <= Until(b) /\ now \in Nat
    BY <1>6, <1>7, <1>10 DEF TypeOK
  <2>2. Until(b) \in Nat
    BY <1>6, MarkerTTL DEF Until, Stages, TypeOK
  <2> QED
    BY <2>1, <2>2
<1>12. Spaced'
  BY <1>6, <1>7 DEF RollsBack, Spaced
<1>13. MarkerHasOwner'
  BY <1>5 DEF MarkerHasOwner
<1> QED
  BY <1>3, <1>8, <1>9, <1>11, <1>12, <1>13

\* The passing of time preserves the invariant.
LEMMA TickStep == IInv /\ Tick /\ redis' = redis => IInv'
<1> SUFFICES ASSUME IInv, Tick, redis' = redis PROVE IInv'
  OBVIOUS
<1> USE DEF IInv, Tick
<1>1. TypeOK' /\ now \in Nat /\ now' = now + 1
  BY DEF TypeOK
<1>2. \A a \in Attempt : (Holds(a)' <=> Holds(a)) /\ Until(a)' = Until(a)
  BY DEF Holds, Until, ttl
<1>3. \A a \in Attempt : Holds(a) => Until(a) \in Nat
  BY MarkerTTL DEF Until, Stages, TypeOK
<1>4. Stages'
  BY <1>1, <1>2 DEF Stages, TypeOK
<1>5. Hurry'
  BY <1>1, EnrolmentAssumption DEF Hurry, InProgress, TypeOK
<1>6. RefusalDated'
  BY <1>1 DEF RefusalDated, TypeOK
<1>7. Covered'
  BY <1>1, <1>2, <1>3 DEF Covered
<1>8. Spaced' /\ MarkerHasOwner'
  BY <1>2 DEF Spaced, MarkerHasOwner
<1> QED
  BY <1>1, <1>4, <1>5, <1>6, <1>7, <1>8

\* A reload preserves the invariant: a cluster that an attempt in progress was
\* admitted for has been refused since that attempt began, or later.
LEMMA ReloadStep ==
  ASSUME IInv, NEW t \in Config, Reload(t), redis' = redis
  PROVE  IInv'
<1> USE DEF IInv, Reload
<1>1. TypeOK'
  BY DEF TypeOK
<1>2. \A a \in Attempt : (Holds(a)' <=> Holds(a)) /\ Until(a)' = Until(a)
  BY DEF Holds, Until, ttl
<1>3. Stages'
  BY <1>2 DEF Stages
<1>4. Hurry'
  BY DEF Hurry, InProgress, TypeOK
<1>5. RefusalDated'
  BY DEF RefusalDated, TypeOK, Refused
<1>6. Covered' /\ Spaced' /\ MarkerHasOwner'
  BY <1>2 DEF Covered, Spaced, MarkerHasOwner
<1> QED
  BY <1>1, <1>3, <1>4, <1>5, <1>6

\* A tick of the janitor preserves the invariant: it removes what has run out.
LEMMA JanitorStep == IInv /\ Janitor /\ redis' = redis => IInv'
<1> SUFFICES ASSUME IInv, Janitor, redis' = redis PROVE IInv'
  OBVIOUS
<1> USE DEF IInv
<1>1. PICK t \in 1..now :
        items' = [k \in DOMAIN items |->
                    IF items[k] # NoItem /\ expired(items[k], t) THEN NoItem ELSE items[k]]
  BY DEF Janitor, janitor
<1>2. UNCHANGED <<now, tenant, refusedSince, pc, got, begun, claimed>>
  BY DEF Janitor, janitor
<1>3. items'[usedKey] = IF items[usedKey] # NoItem /\ expired(items[usedKey], t)
                        THEN NoItem ELSE items[usedKey]
  BY <1>1 DEF TypeOK
<1>4. TypeOK'
  <2>1. items' \in [{usedKey} -> Item \cup {NoItem}]
    BY <1>1 DEF TypeOK
  <2> QED
    BY <1>2, <2>1 DEF TypeOK
<1>5. \A a \in Attempt : (Holds(a)' <=> Holds(a)) /\ Until(a)' = Until(a)
  BY <1>2 DEF Holds, Until, ttl
<1>6. Stages' /\ Hurry' /\ RefusalDated' /\ Spaced'
  BY <1>2, <1>5 DEF Stages, Hurry, InProgress, RefusalDated, Spaced
<1>7. Covered'
  <2> SUFFICES ASSUME NEW a \in Attempt, Holds(a), now <= Until(a)
               PROVE  items'[usedKey] # NoItem /\ Until(a) <= items'[usedKey].expiresAt
    BY <1>2, <1>5 DEF Covered
  <2>1. items[usedKey] # NoItem /\ Until(a) <= items[usedKey].expiresAt
    BY DEF Covered
  <2>2. items[usedKey].expiresAt \in Nat
    BY <2>1 DEF TypeOK, Item
  <2>3. Until(a) \in Nat /\ now \in Nat
    BY MarkerTTL DEF Until, Stages, TypeOK
  <2>4. ~expired(items[usedKey], t)
    BY <2>1, <2>2, <2>3 DEF expired
  <2> QED
    BY <1>3, <2>1, <2>4
<1>8. MarkerHasOwner'
  BY <1>2, <1>3 DEF MarkerHasOwner
<1> QED
  BY <1>4, <1>6, <1>7, <1>8

\* A restart preserves the invariant: with a shared store the markers and their
\* owners stay, without one both are gone.
LEMMA RestartStep == IInv /\ Restart /\ redis' = redis => IInv'
<1> SUFFICES ASSUME IInv, Restart, redis' = redis PROVE IInv'
  OBVIOUS
<1> USE DEF IInv
<1>1. PICK lost \in SUBSET InProgress :
        pc' = [a \in Attempt |-> IF a \in lost THEN "lost" ELSE pc[a]]
  BY DEF Restart
<1>2. UNCHANGED <<redis, now, tenant, refusedSince, got, begun>>
  BY DEF Restart
<1>3. \A a \in Attempt : pc'[a] = pc[a] \/ (a \in InProgress /\ pc'[a] = "lost")
  BY <1>1
<1>4. \A a \in Attempt : claimed'[a] = IF redis THEN claimed[a] ELSE 0
  BY DEF Restart
<1>5. items'[usedKey] = IF redis THEN items[usedKey] ELSE NoItem
  BY DEF Restart, StoreRestart, TypeOK
<1>6. TypeOK'
  <2>1. pc' \in [Attempt -> Stage]
    BY <1>1 DEF TypeOK, Stage
  <2>2. claimed' \in [Attempt -> Nat]
    BY DEF Restart, TypeOK
  <2>3. items' \in [{usedKey} -> Item \cup {NoItem}]
    BY DEF Restart, StoreRestart, TypeOK
  <2> QED
    BY <1>2, <2>1, <2>2, <2>3 DEF TypeOK
<1>7. \A a \in Attempt : Holds(a)' => redis /\ Holds(a) /\ claimed'[a] = claimed[a]
  BY <1>3, <1>4 DEF Holds
<1>8. \A a \in Attempt : claimed'[a] = claimed[a] => Until(a)' = Until(a)
  BY <1>2 DEF Until, ttl
<1>9. InProgress' \subseteq InProgress
  BY <1>3 DEF InProgress
<1>10. Hurry' /\ RefusalDated'
  BY <1>2, <1>9 DEF Hurry, RefusalDated
<1>11. Covered' /\ Spaced'
  BY <1>2, <1>5, <1>7, <1>8 DEF Covered, Spaced
<1>12. MarkerHasOwner'
  BY <1>3, <1>4, <1>5 DEF MarkerHasOwner, Marking
<1>13. Stages'
  <2>1. ~redis => \A a \in Attempt : pc'[a] \notin {"admitted", "checked", "signing", "rollback"}
    BY DEF Restart, InProgress
  <2> QED
    BY <1>2, <1>3, <1>4, <1>7, <2>1 DEF Stages
<1> QED
  BY <1>6, <1>10, <1>11, <1>12, <1>13

\* Every step of an attempt preserves the invariant.
LEMMA AttemptStep ==
  ASSUME IInv, NEW a \in Attempt, redis' = redis,
         BootstrapSteps(a) \/ RenewSteps(a) \/ SignFails(a) \/ SignIssues(a)
  PROVE  IInv'
<1> USE DEF Stage, Marking
<1>0. Stages
  BY DEF IInv
<1>1. CASE BootstrapRefuses(a)
  BY <1>1, BecomesStep DEF BootstrapRefuses
<1>2. CASE BootstrapChecks(a)
  BY <1>2, AdmitStep DEF BootstrapChecks, MayBootstrap
<1>3. CASE BootstrapClaims(a)
  BY <1>3, ClaimStep DEF BootstrapClaims
<1>4. CASE BootstrapUsed(a)
  BY <1>4, BecomesStep DEF BootstrapUsed
<1>5. CASE BootstrapErrs(a)
  <2>1. CASE items' = items
    <3>1. claimed[a] = 0 /\ claimed \in [Attempt -> Nat]
      BY <1>0, <1>5 DEF BootstrapErrs, Stages, IInv, TypeOK
    <3>2. claimed' = claimed
      BY <1>5, <2>1, <3>1 DEF BootstrapErrs
    <3>3. Becomes(a, "error")
      BY <1>5, <2>1, <3>2 DEF BootstrapErrs, Becomes
    <3> QED
      BY <1>5, <3>3, BecomesStep DEF BootstrapErrs
  <2>2. CASE items' # items
    <3>1. SetNX(usedKey, 1, ttl(a), now)
      BY <1>5, <2>2 DEF BootstrapErrs, SetNXFails
    <3> QED
      BY <1>5, <2>2, <3>1, ClaimStep DEF BootstrapErrs
  <2> QED
    BY <2>1, <2>2
<1>6. CASE RollsBack(a)
  BY <1>6, RollbackStep
<1>7. CASE RollbackFails(a)
  BY <1>7, BecomesStep DEF RollbackFails
<1>8. CASE RenewalRefused(a)
  BY <1>8, BecomesStep DEF RenewalRefused
<1>9. CASE RenewalAdmitted(a)
  BY <1>9, AdmitStep DEF RenewalAdmitted, Admissible
<1>10. CASE RenewChecks(a)
  <2>1. attOf[a].kind = "renew" /\ a \in InProgress /\ pc[a] \notin Marking
    BY <1>0, <1>10 DEF RenewChecks, Stages, InProgress
  <2>2. PICK p \in {"refused", "bad request", "signing"} : Becomes(a, p)
    BY <1>10 DEF RenewChecks
  <2> QED
    BY <2>1, <2>2, BecomesStep
<1>11. CASE SignFails(a)
  <2>1. a \in InProgress /\ pc[a] = "signing"
    BY <1>11 DEF SignFails, InProgress
  <2>2. CASE attOf[a].kind = "bootstrap"
    BY <1>11, <2>1, <2>2, BecomesStep DEF SignFails
  <2>3. CASE attOf[a].kind # "bootstrap"
    <3>1. claimed[a] = 0
      BY <1>0, <2>3 DEF Stages
    <3> QED
      BY <1>11, <2>1, <2>3, <3>1, BecomesStep DEF SignFails
  <2> QED
    BY <2>2, <2>3
<1>12. CASE SignIssues(a)
  BY <1>12, BecomesStep DEF SignIssues
<1> QED
  BY <1>1, <1>2, <1>3, <1>4, <1>5, <1>6, <1>7, <1>8, <1>9, <1>10, <1>11, <1>12
     DEF BootstrapSteps, RenewSteps

\* Every step preserves the invariant.
LEMMA NextIInv == IInv /\ [Next]_vars => IInv'
<1> SUFFICES ASSUME IInv, [Next]_vars PROVE IInv'
  OBVIOUS
<1>1. CASE Next
  BY <1>1, TickStep, RestartStep, JanitorStep, ReloadStep, AttemptStep DEF Next
<1>2. CASE UNCHANGED vars
  BY <1>2 DEF vars, IInv, TypeOK, Stages, Hurry, InProgress, RefusalDated, Covered, Spaced,
              MarkerHasOwner, Holds, Until, ttl
<1> QED
  BY <1>1, <1>2

\* Every reachable state satisfies the invariant.
THEOREM Invariance == Spec => []IInv
  BY InitIInv, NextIInv, PTL DEF Spec

\* Bootstrap (bootstrap.go) mints two leaves on one token only with a day and the
\* window the first attempt saw between them, however attempts, rollbacks,
\* restarts, reloads and store failures interleave.
THEOREM TokenMintsOneLeaf == Spec => []OneLeafPerWindow
<1>1. IInv => OneLeafPerWindow
  <2> SUFFICES ASSUME IInv, NEW a \in Attempt, NEW b \in Attempt, IssuedTwice(a, b)
               PROVE  claimed[b] > claimed[a] + Day /\ claimed[b] > got[a].expiresAt
    BY DEF OneLeafPerWindow
  <2> USE DEF IInv
  <2>1. claimed[a] \in Nat /\ claimed[b] \in Nat /\ claimed[a] <= claimed[b]
    BY DEF TypeOK, IssuedTwice
  <2>2. Holds(a) /\ Holds(b) /\ a # b
    BY <2>1 DEF IssuedTwice, Holds
  <2>3. Until(a) < claimed[b] /\ got[a] # NoTenant /\ begun[a] <= claimed[a]
    BY <2>1, <2>2 DEF Spaced, Stages, Holds
  <2>4. begun[a] \in Nat /\ Day \in Nat
    BY EnrolmentAssumption DEF TypeOK
  <2>5. /\ ttl(a) \in Nat /\ ttl(a) >= Day
        /\ got[a].expiresAt \in Nat /\ got[a].expiresAt <= begun[a] + ttl(a)
    BY <2>3, MarkerTTL
  <2>6. claimed[a] + ttl(a) < claimed[b]
    BY <2>3 DEF Until
  <2> HIDE DEF IInv
  <2> QED
    BY <2>1, <2>3, <2>4, <2>5, <2>6
<1> QED
  BY <1>1, Invariance, PTL

\* A marker that keeps the token from being used was left by an attempt that got
\* its leaf, is on its way to it, or was cut off by a crash or a store failure: the
\* rollback in bootstrap.go leaves none behind otherwise.
THEOREM MarkersAreExplained == Spec => []MarkerIsExplained
<1>1. IInv => MarkerIsExplained
  BY DEF IInv, MarkerHasOwner, MarkerIsExplained, Live, Marking
<1> QED
  BY <1>1, Invariance, PTL

\* No leaf is minted for a cluster that the snapshot (interceptors.go, renew.go,
\* bootstrap.go) has refused for longer than one attempt takes.
THEOREM RefusalStopsLeaves == Spec => NoLeafOnceRefused
<1>1. IInv /\ [Next]_vars =>
        [\A a \in Attempt :
           pc[a] # "issued" /\ pc'[a] = "issued" =>
             refusedSince = 0 \/ now <= refusedSince + Lag]_vars
  <2> SUFFICES ASSUME IInv, Next, NEW a \in Attempt, pc[a] # "issued", pc'[a] = "issued",
                      refusedSince # 0
               PROVE  now <= refusedSince + Lag
    OBVIOUS
  <2> USE DEF IInv
  <2>1. pc[a] = "signing"
    <3>1. ~UNCHANGED pc
      OBVIOUS
    <3>2. ~Tick /\ ~Janitor /\ \A t \in Config : ~Reload(t)
      BY <3>1 DEF Tick, Janitor, Reload
    <3>3. CASE Restart
      BY <3>3 DEF Restart
    <3>4. ASSUME NEW b \in Attempt,
                 BootstrapSteps(b) \/ RenewSteps(b) \/ SignFails(b) \/ SignIssues(b)
          PROVE  pc[a] = "signing"
      <4>1. PICK p \in Stage : pc' = [pc EXCEPT ![b] = p] /\ (p = "issued" => pc[b] = "signing")
        BY <3>4 DEF BootstrapSteps, RenewSteps, SignFails, SignIssues, BootstrapRefuses,
             BootstrapChecks, BootstrapClaims, BootstrapUsed, BootstrapErrs, RollsBack,
             RollbackFails, RenewalRefused, RenewalAdmitted, RenewChecks, Becomes, Stage
      <4> QED
        BY <4>1 DEF TypeOK
    <3> QED
      BY <3>2, <3>3, <3>4 DEF Next
  <2>2. now <= begun[a] + Lag /\ begun[a] <= refusedSince
    BY <2>1 DEF Hurry, InProgress
  <2>3. now \in Nat /\ begun[a] \in Nat /\ refusedSince \in Nat
    BY DEF TypeOK
  <2>4. Lag \in Nat
    BY EnrolmentAssumption
  <2> QED
    BY <2>2, <2>3, <2>4
<1> QED
  BY <1>1, Invariance, PTL DEF Spec, NoLeafOnceRefused
=============================================================================
