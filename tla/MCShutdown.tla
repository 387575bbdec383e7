----------------------------- MODULE MCShutdown -----------------------------
(***************************************************************************)
(* Instances of Shutdown for TLC.                                          *)
(***************************************************************************)
EXTENDS Shutdown

Payload(i, s, x) ==
  [id |-> i, cluster |-> "c", node |-> "", namespace |-> "ns", status |-> s,
   via |-> x]

\* Three firing alerts of one scope and a resolved one.
MCAlert ==
  {Payload(1, "firing", "grpc"), Payload(2, "firing", "signed"),
   Payload(3, "firing", "grpc"), Payload(4, "resolved", "grpc")}
=============================================================================
