----------------------------- MODULE MCEnrolment -----------------------------
(***************************************************************************)
(* Instance of Enrolment for TLC: two bootstrap attempts and a renewal;    *)
(* the bootstrap window is longer than a day.  The bootstrap attempts are  *)
(* interchangeable.                                                        *)
(***************************************************************************)
EXTENDS Enrolment, TLC

CONSTANTS b1, b2, r1

Bootstrapping == [kind |-> "bootstrap", token |-> "old", complete |-> TRUE, csrOk |-> TRUE]
Renewal == [kind |-> "renew", token |-> "none", complete |-> TRUE, csrOk |-> TRUE]
Entry(t, e, r) == [token |-> t, expiresAt |-> e, revoked |-> r]

MCAttempt == {b1, b2, r1}
MCAttOf == [a \in MCAttempt |-> IF a = r1 THEN Renewal ELSE Bootstrapping]
Symmetry == Permutations({b1, b2})

\* The window ends at 4 or has no end; the tenant is revoked or removed.
MCConfig ==
  {Entry("old", 4, FALSE), Entry("old", 0, FALSE), Entry("old", 4, TRUE), NoTenant}
MCFirst == Entry("old", 4, FALSE)
=============================================================================
