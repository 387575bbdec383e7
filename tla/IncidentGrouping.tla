-------------------------- MODULE IncidentGrouping --------------------------
(***************************************************************************)
(* What incident correlation promises, without buckets, timers or locks:   *)
(* an accepted alert is reported in exactly one incident; an incident is a *)
(* non-empty list of accepted alerts of one scope, no longer than the      *)
(* configured maximum.  internal/incident/correlator.go (package comment   *)
(* and New) states the promise; module Correlator is the implementation.   *)
(***************************************************************************)
EXTENDS Integers, Sequences, Functions

CONSTANTS
  Alert,      \* the alert payloads
  scopeOf,    \* [Alert -> scope]: alerts of one scope may share an incident
  MaxGroup    \* the largest incident

VARIABLES
  pending,    \* accepted alerts that are in no incident yet
  incidents   \* the incidents reported so far

vars == <<pending, incidents>>

\* Lists of at least one and at most MaxGroup alerts of S.
Lists(S) == UNION {[1..n -> S] : n \in 1..MaxGroup}

Init ==
  /\ pending = {}
  /\ incidents = {}

\* An alert is accepted; it has not been accepted before.
Accept(p) ==
  /\ p \notin pending
  /\ \A g \in incidents : p \notin Range(g)
  /\ pending' = pending \cup {p}
  /\ UNCHANGED incidents

\* The pending alerts of list g become one incident.
Report(g) ==
  /\ \A i, j \in DOMAIN g : /\ g[i] = g[j] => i = j
                            /\ scopeOf[g[i]] = scopeOf[g[j]]
  /\ pending' = pending \ Range(g)
  /\ incidents' = incidents \cup {g}

Next ==
  \/ \E p \in Alert : Accept(p)
  \/ \E g \in Lists(pending) : Report(g)

SafeSpec == Init /\ [][Next]_vars
=============================================================================
