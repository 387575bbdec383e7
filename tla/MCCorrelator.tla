---------------------------- MODULE MCCorrelator ----------------------------
(***************************************************************************)
(* The instance of Correlator for TLC: three alerts of one namespace and   *)
(* one node-scoped alert of the same namespace, so that two keys are live  *)
(* at once and one of them sees several buckets.                           *)
(***************************************************************************)
EXTENDS Correlator

Ns(i) == [id |-> i, cluster |-> "c", node |-> "", namespace |-> "ns"]
Node(i) == [id |-> i, cluster |-> "c", node |-> "n", namespace |-> "ns"]

\* Three alerts of one scope and one of another.
MCAlertFour == {Ns(1), Ns(2), Ns(3), Node(4)}
=============================================================================
