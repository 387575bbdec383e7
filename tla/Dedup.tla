-------------------------------- MODULE Dedup --------------------------------
(***************************************************************************)
(* internal/dedup/dedup.go and the head of Pipeline.Process: an alert that *)
(* was already seen within the window is dropped, firing alerts by what    *)
(* they are about, resolved ones by the firing episode as well.            *)
(*                                                                         *)
(* An Arrival is one ingested payload: AlertManager re-sends an alert      *)
(* with every change of its group, so several arrivals carry the same      *)
(* alert.  Each is processed by a goroutine of its own.  What becomes of   *)
(* an alert that is let through is in Notices and in Pipeline.             *)
(***************************************************************************)
EXTENDS Store

CONSTANTS
  Story,       \* what AlertManager may send: sequences of
               \* [alert, pod, status, firedAt]
  Window       \* the dedup window; 0: markers do not expire

ASSUME DedupAssumption ==
  /\ \A s \in Story : \A a \in DOMAIN s : s[a].status \in {"firing", "resolved"}
  /\ Window \in Nat

VARIABLES
  payloadOf, \* the story that is told; never changes
  st,       \* arrival -> where Process is with it, or how it ended
  seen,     \* arrival -> the clock reading that Memory.SetNX has taken, while it
            \* waits for m.mu; 0 otherwise
  wrote     \* history: arrival -> when SetNX stored its marker, 0 if it did not;
            \* the history ends with the in-memory store

vars == <<payloadOf, redis, now, items, st, seen, wrote>>

Arrival == DOMAIN payloadOf

\* Mutation: resolvedKey does not pin the firing timestamp.
key_NoFiredAt(p) == <<p.alert, p.pod, p.status>>

\* key and resolvedKey, with the prefixes that keep them apart.  The alert is
\* the cluster, alert name and namespace.
key(p) ==
  IF p.status = "resolved"
  THEN <<p.alert, p.pod, "resolved", p.firedAt>>
  ELSE <<p.alert, p.pod, "firing">>

Init ==
  /\ payloadOf \in Story
  /\ StoreInit({key(payloadOf[a]) : a \in Arrival})
  /\ st = [a \in Arrival |-> "sent to us"]
  /\ seen = [a \in Arrival |-> 0]
  /\ wrote = [a \in Arrival |-> 0]

Tick ==
  /\ now < MaxTime
  /\ now' = now + 1
  /\ UNCHANGED <<items, st, seen, wrote>>
-----------------------------------------------------------------------------
\* Memory.SetNX reads the clock before it takes the lock.
SetNXReadsClock(a) ==
  /\ ~redis
  /\ st[a] = "sent to us"
  /\ st' = [st EXCEPT ![a] = "locking"]
  /\ seen' = [seen EXCEPT ![a] = now]
  /\ UNCHANGED <<now, items, wrote>>

\* The store executes a's SetNX, on the clock reading t.
AtStore(a, t) ==
  IF redis THEN st[a] = "sent to us" /\ t = now ELSE st[a] = "locking" /\ t = seen[a]

ttl == Window

\* SetNX stores the marker: not a duplicate.
IsFresh(a) ==
  \E t \in 1..now :
    /\ AtStore(a, t)
    /\ SetNX(key(payloadOf[a]), 1, ttl, t)
    /\ st' = [st EXCEPT ![a] = "fresh"]
    /\ seen' = [seen EXCEPT ![a] = 0]
    /\ wrote' = [wrote EXCEPT ![a] = now]
    /\ UNCHANGED now

\* SetNX finds the marker: Process returns.
IsDuplicate(a) ==
  \E t \in 1..now :
    /\ AtStore(a, t)
    /\ SetNXFinds(key(payloadOf[a]), t)
    /\ st' = [st EXCEPT ![a] = "duplicate"]
    /\ seen' = [seen EXCEPT ![a] = 0]
    /\ UNCHANGED <<now, wrote>>

\* Mutation: a store error drops the alert.
FailsOpen_Drops(a) ==
  /\ AtStore(a, now)
  /\ SetNXFails(key(payloadOf[a]), 1, ttl)
  /\ st' = [st EXCEPT ![a] = "duplicate"]
  /\ seen' = [seen EXCEPT ![a] = 0]
  /\ wrote' = [wrote EXCEPT ![a] = IF items' = items THEN 0 ELSE now]
  /\ UNCHANGED now

\* SetNX returns an error: the alert goes on as if it were new; its marker may
\* be stored all the same.
FailsOpen(a) ==
  /\ AtStore(a, now)
  /\ SetNXFails(key(payloadOf[a]), 1, ttl)
  /\ st' = [st EXCEPT ![a] = "fresh"]
  /\ seen' = [seen EXCEPT ![a] = 0]
  /\ wrote' = [wrote EXCEPT ![a] = IF items' = items THEN 0 ELSE now]
  /\ UNCHANGED now

InProcess == {a \in Arrival : st[a] \in {"locking", "fresh"}}

\* A restart drops what the process was handling: all of it, or with a shared
\* store, what one replica was handling.
Restart ==
  /\ StoreRestart
  /\ wrote' = IF redis THEN wrote ELSE [a \in Arrival |-> 0]
  /\ seen' = [a \in Arrival |-> 0]
  /\ \E lost \in SUBSET InProcess :
       /\ redis \/ lost = InProcess
       /\ st' = [a \in Arrival |-> IF a \in lost THEN "lost" ELSE st[a]]
  /\ UNCHANGED now

Janitor == janitor /\ UNCHANGED <<st, seen, wrote>>

Process(a) ==
  SetNXReadsClock(a) \/ IsFresh(a) \/ IsDuplicate(a) \/ FailsOpen(a)

Next ==
  /\ UNCHANGED <<payloadOf, redis>>
  /\ \/ Tick \/ Restart \/ Janitor
     \/ \E a \in Arrival : Process(a)

Spec == Init /\ [][Next]_vars
-----------------------------------------------------------------------------
\* a and b would produce the same notification: the same alert firing, or the
\* end of the same firing episode.
SameNotice(a, b) ==
  /\ payloadOf[a].alert = payloadOf[b].alert /\ payloadOf[a].pod = payloadOf[b].pod
  /\ payloadOf[a].status = payloadOf[b].status
  /\ payloadOf[a].status = "resolved" => payloadOf[a].firedAt = payloadOf[b].firedAt

\* The window that began at time w still covers time t.
Covers(w, t) == Window = 0 \/ t <= w + Window

\* "dropping a real alert is worse than processing a duplicate"
\* (dedup.go:32-33): an alert is dropped only if another arrival of the same
\* notice was let through less than a window before, in this store's lifetime.
DropIsExplained ==
  [][\A b \in Arrival :
       st'[b] = "duplicate" /\ st[b] # "duplicate"
         => \E a \in Arrival \ {b} :
              /\ SameNotice(a, b)
              /\ wrote[a] # 0 /\ Covers(wrote[a], IF redis THEN now ELSE seen[b])
              /\ st[a] \in {"fresh", "delivered", "lost"}]_vars

\* "an atomic set-if-absent so concurrent duplicates resolve correctly"
\* (dedup.go:31-32): as long as the store answers and lives, no two arrivals of
\* one notice get through within a window, however their goroutines interleave.
OncePerWindow ==
  \A a, b \in Arrival :
    a # b /\ SameNotice(a, b) /\ wrote[a] # 0 /\ wrote[b] # 0
      => ~Covers(wrote[a], wrote[b]) \/ ~Covers(wrote[b], wrote[a])
=============================================================================
