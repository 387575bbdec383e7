------------------------------- MODULE MCDedup -------------------------------
(***************************************************************************)
(* Instance of Notices for TLC.  In one story an alert fires and resolves  *)
(* twice, in one it ends firing, in one its resolution is sent again, and  *)
(* in one it fires for two pods and resolves for one of them.              *)
(***************************************************************************)
EXTENDS Notices

Payload(pod, status, t) == [alert |-> "a", pod |-> pod, status |-> status, firedAt |-> t]
Firing(pod, t) == Payload(pod, "firing", t)
Resolved(pod, t) == Payload(pod, "resolved", t)

MCStory ==
  {<<Firing(1, 1), Resolved(1, 1), Firing(1, 2), Resolved(1, 2)>>,
   <<Firing(1, 1), Resolved(1, 1), Firing(1, 2)>>,
   <<Firing(1, 1), Resolved(1, 1), Resolved(1, 1)>>,
   <<Firing(1, 1), Firing(2, 1), Resolved(2, 1)>>}
=============================================================================
