------------------------------ MODULE MCLimiter ------------------------------
(***************************************************************************)
(* Instances of Limiter for TLC: three callers of a busy tenant and one of *)
(* a quiet one.                                                            *)
(***************************************************************************)
EXTENDS Limiter

MCCaller == 1..4
MCTenant == {"busy", "quiet"}
MCTenantOf == [c \in MCCaller |-> IF c = 4 THEN "quiet" ELSE "busy"]
=============================================================================
