-------------------------------- MODULE Notices --------------------------------
(***************************************************************************)
(* What a receiver that keeps state makes of the alerts Dedup lets         *)
(* through: the PagerDuty notifier of internal/notify/pagerduty.go opens   *)
(* an incident for a firing alert and closes it for a resolved one.        *)
(*                                                                         *)
(* Arrivals are numbered in the order in which AlertManager sends them.    *)
(* Between lookup and delivery a firing alert is grouped and evaluated, a  *)
(* resolved one is not (pipeline.go:86-116), so deliveries overtake each   *)
(* other.                                                                  *)
(***************************************************************************)
EXTENDS Dedup

\* AlertManager (external) does not send the end of an episode again once the
\* alert has fired anew.
ASSUME NoticesAssumption ==
  \A s \in Story :
    /\ DOMAIN s \subseteq Nat
    /\ \A a, b, c \in DOMAIN s :
         /\ a < b /\ b < c
         /\ s[a].alert = s[b].alert /\ s[b].alert = s[c].alert
         /\ s[a].pod = s[b].pod /\ s[b].pod = s[c].pod
         /\ s[a].status = "resolved" /\ s[c].status = "resolved"
         /\ s[a].firedAt = s[c].firedAt
         => s[b].status = "resolved"

VARIABLES
  incident,  \* dedup_key -> whether PagerDuty has an open incident for it
  overtook   \* history: dedup_key -> whether a delivery overtook an earlier one

noticeVars == <<vars, incident, overtook>>

\* The dedup_key of buildPagerDutyEvent: neither pod nor episode.
dedupKey(a) == payloadOf[a].alert

Keys == {dedupKey(a) : a \in Arrival}

NoticesInit ==
  /\ Init
  /\ incident = [k \in Keys |-> FALSE]
  /\ overtook = [k \in Keys |-> FALSE]

Ended(a) == st[a] \in {"duplicate", "delivered", "lost"}

\* Arrivals for the incident of a that were sent earlier.
Earlier(a) == {b \in Arrival : b < a /\ dedupKey(b) = dedupKey(a)}

\* The Events API executes a's event: "trigger", or "resolve" if msg.Resolved().
buildPagerDutyEvent(a) ==
  incident' = [incident EXCEPT ![dedupKey(a)] = payloadOf[a].status # "resolved"]

\* PagerDuty.Send, and the API accepts.
Send(a) ==
  /\ st[a] = "fresh"
  /\ buildPagerDutyEvent(a)
  /\ st' = [st EXCEPT ![a] = "delivered"]
  /\ overtook' = [overtook EXCEPT ![dedupKey(a)] = @ \/ \E b \in Earlier(a) : ~Ended(b)]
  /\ UNCHANGED <<payloadOf, redis, now, items, seen, wrote>>

\* PagerDuty.Send returns an error, which deliver only counts; the event may
\* have been executed all the same.
SendFails(a) ==
  /\ st[a] = "fresh"
  /\ buildPagerDutyEvent(a) \/ UNCHANGED incident
  /\ st' = [st EXCEPT ![a] = "lost"]
  /\ UNCHANGED <<payloadOf, redis, now, items, seen, wrote, overtook>>

NoticesNext ==
  \/ Next /\ UNCHANGED <<incident, overtook>>
  \/ \E a \in Arrival : Send(a) \/ SendFails(a)

NoticesSpec == NoticesInit /\ [][NoticesNext]_noticeVars
-----------------------------------------------------------------------------
\* The incident follows the alert: when all that AlertManager sent has been dealt
\* with, the incident is open or closed as the last arrival says.  The exceptions
\* are a delivery that failed or was lost in a restart, a delivery that overtook
\* an earlier one, two pods whose alerts share a dedup_key (pagerduty.go:70-74),
\* and an alert that fires again within the window of an earlier episode and is
\* dropped (dedup.go:89-98).  "Each firing episode gets exactly one resolved
\* notification" (dedup.go:100-101), so no incident stays open for a resolution
\* that was dropped.
IncidentFollowsAlert ==
  \A last \in Arrival :
    LET all == Earlier(last) \cup {last} IN
    /\ all = {a \in Arrival : dedupKey(a) = dedupKey(last)}
    /\ \A a \in all : st[a] \in {"duplicate", "delivered"}
    /\ ~overtook[dedupKey(last)]
    /\ \A a \in all : payloadOf[a].pod = payloadOf[last].pod
    => \/ incident[dedupKey(last)] = (payloadOf[last].status = "firing")
       \/ /\ payloadOf[last].status = "firing" /\ st[last] = "duplicate"
          /\ \E a \in all : payloadOf[a].status = "resolved"
=============================================================================
