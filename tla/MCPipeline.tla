----------------------------- MODULE MCPipeline -----------------------------
(***************************************************************************)
(* Instances of Pipeline for TLC.  Jobs 1 and 2 are warnings of one kind   *)
(* for two pods, with similar signatures; job 3 is the critical form of    *)
(* that alert; job 4 is an incident that another warning began and that    *)
(* the critical form for the first pod joined; job 5 is the resolution of  *)
(* job 1's alert; job 6 is that alert when it fires anew; job 7 is an      *)
(* incident of two warnings, and job 8 the one that begins when the first  *)
(* of them is sent again after the dedup window.                           *)
(***************************************************************************)
EXTENDS Pipeline

A(n, p, s) ==
  [cluster |-> "c", name |-> n, ns |-> "ns", pod |-> p, severity |-> s, firedAt |-> 1,
   status |-> "firing"]

MCGroupOf ==
  << <<A("mem", "p1", "warning")>>,
     <<A("mem", "p2", "warning")>>,
     <<A("mem", "p3", "critical")>>,
     <<A("disk", "p1", "warning"), A("mem", "p1", "critical")>>,
     <<[A("mem", "p1", "warning") EXCEPT !.status = "resolved"]>>,
     <<[A("mem", "p1", "warning") EXCEPT !.firedAt = 2]>>,
     <<A("disk", "p1", "warning"), A("mem", "p1", "warning")>>,
     <<A("disk", "p1", "warning"), A("mem", "p2", "warning")>> >>

MCJob == {1, 2, 4, 5, 6, 7, 8}
MCTogether == {{1, 2}, {1, 6}, {1, 4}, {4, 5}, {7, 8}}
MCClicked == {7, 8}

MCCritical == {1, 3}
MCCriticalTogether == {{1, 3}}

MCSimilar == {<<A("mem", "p1", "warning"), A("mem", "p2", "warning")>>,
              <<A("mem", "p2", "warning"), A("mem", "p1", "warning")>>}

MCRules == << [match |-> [severity |-> "critical"], receivers |-> <<"pager", "chat">>],
              [match |-> [ns |-> "ns"], receivers |-> <<"gone", "mail">>] >>

MCNotifiers == {"pager", "chat", "mail"}
=============================================================================
