------------------------------ MODULE Pipeline ------------------------------
(***************************************************************************)
(* internal/pipeline/pipeline.go from processSingle and processIncident    *)
(* on: a group of alerts is evaluated, perhaps silenced, recorded and      *)
(* delivered, with what it touches on the way (internal/llmcache,          *)
(* internal/silence, internal/history, internal/feedback,                  *)
(* internal/routing).                                                      *)
(*                                                                         *)
(* A Job is one group that leaves deduplication and correlation; every job *)
(* runs in a goroutine of its own, under a context that may expire at any  *)
(* time.  A store that is down fails an operation without effect.  Whether *)
(* the limiter grants a call (Limiter) and what evaluation returns         *)
(* (Evaluator) are choices here.                                           *)
(***************************************************************************)
EXTENDS Integers, Sequences, FiniteSets

CONSTANTS
  Job,
  groupOf,        \* [Job -> Seq of alerts]
  rules,          \* the routing rules, in order
  notifiers,      \* the receivers that were built
  allowed,        \* the silence allowlist; empty: any alert name
  similar,        \* pairs of alerts whose signatures are within the threshold
  Together,       \* bound: sets of jobs, one of which arrives
  Clicked,        \* bound: jobs whose feedback links are clicked
  None

ASSUME PipelineAssumption ==
  /\ \A j \in Job : /\ Len(groupOf[j]) \in Nat \ {0}
                    /\ DOMAIN groupOf[j] = 1..Len(groupOf[j])
  /\ DOMAIN rules \subseteq Nat
  /\ \A i \in DOMAIN rules : DOMAIN rules[i].receivers \subseteq Nat
  /\ \A w \in Together : w \subseteq Job /\ IsFiniteSet(w)
  /\ None \notin Job

VARIABLES
  redis,       \* the store is remote and may fail; never changes
  wave,        \* the jobs that arrive; never changes
  pc,          \* job -> where it is
  alive,       \* job -> its context has not expired
  analysis,    \* job -> the analysis it goes on with, or None
  link,        \* job -> 0, or its message carries feedback links and this is the
               \* n-th recording for its alert ID
  sent,        \* job -> the receivers tried so far, by their places in the route,
               \* and with what result
  cache,       \* cache key -> analysis: the exact layer
  vec,         \* cache key -> [alert, analysis]: the semantic layer
  silences,    \* the silences made, each with the job that made it
  incidents,   \* alert ID -> the job whose analysis and size are on record
  pending,     \* alert ID -> the job whose analysis is behind a feedback link
  click,       \* job -> [at, by]: ServeHTTP for a click on its links, and the job
               \* whose analysis it has read
  verdict      \* alert ID -> [on, by]: the verdict on record, given on the message
               \* of job on, and stored with the analysis of job by

fixed == <<redis, wave>>
clicks == <<click, verdict>>
shared == <<cache, vec, silences, incidents, pending, clicks>>
vars == <<fixed, pc, alive, analysis, link, sent, shared>>

severityRank(s) ==
  CASE s = "critical" -> 3 [] s = "warning" -> 2 [] s = "info" -> 1 [] OTHER -> 0

\* Mutation: the first alert of the group stands for it.
Representative_First == [j \in Job |-> groupOf[j][1]]

\* Representative: the first alert of the highest severity.
Representative ==
  [j \in Job |->
    LET g == groupOf[j]
        rank(i) == severityRank(g[i].severity)
    IN  g[CHOOSE i \in DOMAIN g :
            /\ \A k \in DOMAIN g : rank(k) <= rank(i)
            /\ \A k \in 1..i - 1 : rank(k) < rank(i)]]

single(j) == Len(groupOf[j]) = 1

\* processResolved handles it: such a job is one resolved alert.
resolved(j) == groupOf[j][1].status = "resolved"

\* CreateSilence compares without regard to case, severityRank does not.
critical(a) == a.severity \in {"critical", "Critical"}

\* An entry made for alert b is near enough to a; it always is to b itself.
near(b, a) == b = a \/ <<b, a>> \in similar

\* llmcache's key
key(a) == <<a.cluster, a.name, a.ns, a.pod>>

\* alertkey.ID
ID(a) == <<a.cluster, a.name, a.ns, a.pod, a.firedAt>>

\* What evaluating job j may return.  silence: the model asks for a silence, and
\* not with low confidence.
Analysis(j) == [of : {j}, silence : BOOLEAN]

Init ==
  /\ redis \in BOOLEAN /\ wave \in Together
  /\ pc = [j \in wave |-> "awaited"]
  /\ alive = [j \in wave |-> TRUE]
  /\ analysis = [j \in wave |-> None]
  /\ link = [j \in wave |-> 0]
  /\ sent = [j \in wave |-> <<>>]
  /\ cache = [k \in {key(Representative[j]) : j \in wave} |-> None]
  /\ vec = [k \in {key(Representative[j]) : j \in wave} |-> None]
  /\ silences = {}
  /\ incidents = [i \in {ID(Representative[j]) : j \in wave} |-> None]
  /\ pending = [i \in {ID(Representative[j]) : j \in wave} |-> None]
  /\ click = [j \in wave \cap Clicked |-> [at |-> "unclicked", by |-> None]]
  /\ verdict = [i \in {ID(Representative[j]) : j \in wave} |-> None]

Goto(j, where) == pc' = [pc EXCEPT ![j] = where]

\* processResolved, processSingle or processIncident is called.
Arrive(j) ==
  /\ pc[j] = "awaited"
  /\ Goto(j, IF resolved(j) THEN "deliver" ELSE "evaluate")
  /\ UNCHANGED <<fixed, alive, analysis, link, sent, shared>>

\* The job's context expires.
Expire(j) ==
  /\ pc[j] \notin {"awaited", "done"} /\ alive[j]
  /\ alive' = [alive EXCEPT ![j] = FALSE]
  /\ UNCHANGED <<fixed, pc, analysis, link, sent, shared>>

\* An operation on the store may fail.
StoreFails(j) == redis

\* An operation on the store may succeed: the in-memory one ignores the context.
StoreWorks(j) == alive[j] \/ ~redis
-----------------------------------------------------------------------------
\* Cache.Get: the exact layer answers.
ExactHit(j) ==
  LET k == key(Representative[j]) IN
  /\ pc[j] = "evaluate" /\ single(j)
  /\ StoreWorks(j) /\ cache[k] # None
  /\ analysis' = [analysis EXCEPT ![j] = cache[k]]
  /\ Goto(j, "silence")
  /\ UNCHANGED <<fixed, alive, link, sent, shared>>

\* Cache.Get: the exact layer misses, and a similar alert's analysis is reused.
\* Which of several that are similar is nearest is left open.
SemanticHit(j) ==
  LET a == Representative[j] IN
  /\ pc[j] = "evaluate" /\ single(j)
  /\ StoreWorks(j)
  /\ cache[key(a)] = None \/ StoreFails(j)
  /\ \E k \in DOMAIN cache :
       /\ vec[k] # None /\ near(vec[k].alert, a)
       /\ analysis' = [analysis EXCEPT ![j] = vec[k].analysis]
  /\ Goto(j, "silence")
  /\ UNCHANGED <<fixed, alive, link, sent, shared>>

\* Cache.Get misses; an incident does not ask the cache.
Miss(j) ==
  LET a == Representative[j] IN
  /\ pc[j] = "evaluate"
  /\ \/ ~single(j)
     \/ StoreFails(j)
     \/ /\ cache[key(a)] = None
        /\ \A k \in DOMAIN vec : vec[k] # None => ~near(vec[k].alert, a)
  /\ Goto(j, "acquire")
  /\ UNCHANGED <<fixed, alive, analysis, link, sent, shared>>

\* The limiter refuses, or Evaluate returns an error and the deferred Release
\* runs: the raw alert is delivered.
NoAnalysis(j) ==
  /\ pc[j] = "acquire"
  /\ Goto(j, "silence")
  /\ UNCHANGED <<fixed, alive, analysis, link, sent, shared>>

\* Mutation: an incident's analysis is cached as well.
LLMAnswers_CacheAll(j) ==
  /\ pc[j] = "acquire" /\ alive[j]
  /\ \E a \in Analysis(j) : analysis' = [analysis EXCEPT ![j] = a]
  /\ Goto(j, "cache")
  /\ UNCHANGED <<fixed, alive, link, sent, shared>>

\* The limiter grants the call, and Evaluate or EvaluateIncident returns an
\* analysis; the latter's is not cached.
LLMAnswers(j) ==
  /\ pc[j] = "acquire" /\ alive[j]
  /\ \E a \in Analysis(j) : analysis' = [analysis EXCEPT ![j] = a]
  /\ Goto(j, IF single(j) THEN "cache" ELSE "silence")
  /\ UNCHANGED <<fixed, alive, link, sent, shared>>

\* Cache.Set, each layer on its own.
CacheSet(j) ==
  LET a == Representative[j] IN
  /\ pc[j] = "cache"
  /\ \/ StoreWorks(j) /\ cache' = [cache EXCEPT ![key(a)] = analysis[j]]
     \/ StoreFails(j) /\ UNCHANGED cache
  /\ \/ StoreWorks(j) /\ vec' = [vec EXCEPT ![key(a)] = [alert |-> a, analysis |-> analysis[j]]]
     \/ StoreFails(j) /\ UNCHANGED vec
  /\ Goto(j, "silence")
  /\ UNCHANGED <<fixed, alive, analysis, link, sent, silences, incidents, pending, clicks>>

\* An entry of one layer expires.
Evict ==
  /\ \E k \in DOMAIN cache :
       \/ cache[k] # None /\ cache' = [cache EXCEPT ![k] = None] /\ UNCHANGED vec
       \/ vec[k] # None /\ vec' = [vec EXCEPT ![k] = None] /\ UNCHANGED cache
  /\ UNCHANGED <<fixed, pc, alive, analysis, link, sent, silences, incidents, pending, clicks>>
-----------------------------------------------------------------------------
\* maybeSilence and the guards of CreateSilence.
MaySilence(j) ==
  /\ analysis[j] # None /\ analysis[j].silence
  /\ ~critical(Representative[j])
  /\ allowed = {} \/ Representative[j].name \in allowed

\* AlertManager accepts the silence, on the alert's name and namespace.
Silences(j) ==
  LET a == Representative[j] IN
  /\ pc[j] = "silence"
  /\ MaySilence(j) /\ alive[j]
  /\ silences' = silences \cup {[name |-> a.name, ns |-> a.ns, by |-> j]}
  /\ Goto(j, "record")
  /\ UNCHANGED <<fixed, alive, analysis, link, sent, cache, vec, incidents, pending, clicks>>

\* Mutation: the job waits until AlertManager takes the silence.
NoSilence_Insists(j) ==
  /\ pc[j] = "silence" /\ ~MaySilence(j)
  /\ Goto(j, "record")
  /\ UNCHANGED <<fixed, alive, analysis, link, sent, shared>>

\* No silence is wanted or allowed, or AlertManager's API fails.
NoSilence(j) ==
  /\ pc[j] = "silence"
  /\ Goto(j, "record")
  /\ UNCHANGED <<fixed, alive, analysis, link, sent, shared>>

\* history.Record, or its failure, which is only logged.  No job reads the
\* record, so it is part of the step that follows.
Record(j) ==
  \/ StoreWorks(j) /\ incidents' = [incidents EXCEPT ![ID(Representative[j])] = j]
  \/ StoreFails(j) /\ UNCHANGED incidents

\* The number of the next recording for j's alert ID.
Nth(j) == 1 + Cardinality({k \in wave : link[k] # 0 /\ ID(Representative[k]) = ID(Representative[j])})

\* Mutation: the analysis recorded first for an alert stays.
attachFeedback_KeepsFirst(j) ==
  LET i == ID(Representative[j]) IN
  /\ pc[j] = "record" /\ Record(j)
  /\ \/ /\ analysis[j] # None /\ StoreWorks(j)
        /\ pending' = [pending EXCEPT ![i] = IF @ = None THEN j ELSE @]
        /\ link' = [link EXCEPT ![j] = Nth(j)]
     \/ /\ analysis[j] = None \/ StoreFails(j)
        /\ UNCHANGED <<pending, link>>
  /\ Goto(j, "deliver")
  /\ UNCHANGED <<fixed, alive, analysis, sent, cache, vec, silences, clicks>>

\* attachFeedback and feedback.Record, with links enabled.
attachFeedback(j) ==
  LET i == ID(Representative[j]) IN
  /\ pc[j] = "record" /\ Record(j)
  /\ \/ /\ analysis[j] # None /\ StoreWorks(j)
        /\ pending' = [pending EXCEPT ![i] = j]
        /\ link' = [link EXCEPT ![j] = Nth(j)]
     \/ /\ analysis[j] = None \/ StoreFails(j)
        /\ UNCHANGED <<pending, link>>
  /\ Goto(j, "deliver")
  /\ UNCHANGED <<fixed, alive, analysis, sent, cache, vec, silences, clicks>>
-----------------------------------------------------------------------------
\* Rule.Matches: the fields a rule names must be equal.
Matches(r, a) == \A f \in DOMAIN r.match : r.match[f] = a[f]

\* Route: the receivers of the first rule that matches.
Route(a) ==
  LET hits == {i \in DOMAIN rules : Matches(rules[i], a)}
  IN  IF hits = {} THEN <<>>
      ELSE rules[CHOOSE i \in hits : \A k \in hits : i <= k].receivers

\* The names that deliver ranges over.
targets == [j \in Job |-> Route(Representative[j])]

\* Those that were built: any other name is skipped.
Built(j) == {n \in DOMAIN targets[j] : targets[j][n] \in notifiers}

\* What deliver's loop has yet to come to.
Left(j) == {n \in Built(j) : \A i \in DOMAIN sent[j] : sent[j][i].at < n}

\* Mutation: delivery stops at the first receiver that fails.
Pending_StopsOnError(j) == Left(j) # {} /\ \A i \in DOMAIN sent[j] : sent[j][i].ok

\* deliver has another receiver to try.
Pending(j) == Left(j) # {}

\* deliver: one turn of its loop.  A failure is logged and the loop goes on.
Send(j) ==
  /\ pc[j] = "deliver" /\ Pending(j)
  /\ \E n \in Left(j), ok \in {FALSE, alive[j]} :
       /\ \A m \in Left(j) : n <= m
       /\ sent' = [sent EXCEPT ![j] = Append(@, [at |-> n, ok |-> ok])]
  /\ UNCHANGED <<fixed, pc, alive, analysis, link, shared>>

\* The job is done, and the deferred cancel ends its context.
Delivered(j) ==
  /\ pc[j] = "deliver" /\ ~Pending(j)
  /\ Goto(j, "done")
  /\ alive' = [alive EXCEPT ![j] = FALSE]
  /\ UNCHANGED <<fixed, analysis, link, sent, shared>>

-----------------------------------------------------------------------------
\* ServeHTTP: somebody clicks a link in the message of job j; Get finds what is
\* pending for the alert, whoever recorded it last; a failed Get is answered with an
\* error, a missing entry with "feedback link expired or unknown".
ClickReads(j) ==
  LET i == ID(Representative[j]) IN
  /\ click[j].at = "unclicked"
  /\ link[j] # 0 /\ \E n \in DOMAIN sent[j] : sent[j][n].ok
  /\ \/ click' = [click EXCEPT ![j] = [at |-> IF pending[i] = None THEN "unknown" ELSE "read",
                                       by |-> pending[i]]]
     \/ StoreFails(j) /\ click' = [click EXCEPT ![j].at = "answered"]
  /\ UNCHANGED <<fixed, pc, alive, analysis, link, sent, cache, vec, silences,
                 incidents, pending, verdict>>

\* ServeHTTP: Set stores the verdict, over any other for the alert, and the click
\* is answered; if Set fails the answer is the same.
ClickStores(j) ==
  LET i == ID(Representative[j]) IN
  /\ click[j].at = "read"
  /\ \/ verdict' = [verdict EXCEPT ![i] = [on |-> j, by |-> click[j].by]]
     \/ StoreFails(j) /\ UNCHANGED verdict
  /\ click' = [click EXCEPT ![j] = [at |-> "answered", by |-> None]]
  /\ UNCHANGED <<fixed, pc, alive, analysis, link, sent, cache, vec, silences,
                 incidents, pending>>

ServeHTTP == \E j \in DOMAIN click : ClickReads(j) \/ ClickStores(j)
-----------------------------------------------------------------------------
evaluate(j) ==
  \/ ExactHit(j) \/ SemanticHit(j) \/ Miss(j) \/ NoAnalysis(j)
  \/ LLMAnswers(j) \/ CacheSet(j)

process(j) ==
  \/ evaluate(j) \/ Silences(j) \/ NoSilence(j)
  \/ attachFeedback(j) \/ Send(j) \/ Delivered(j)

Next == Evict \/ ServeHTTP \/ \E j \in wave : Arrive(j) \/ process(j) \/ Expire(j)

Spec == Init /\ [][Next]_vars /\ WF_vars(\E j \in wave : process(j))
-----------------------------------------------------------------------------
\* Whatever evaluation, silencing and recording did, and whichever receivers
\* fail, a finished job has tried every receiver of its route once, in order.
EveryReceiverTried ==
  \A j \in wave : pc[j] = "done" =>
    /\ {sent[j][i].at : i \in DOMAIN sent[j]} = Built(j)
    /\ \A i, k \in DOMAIN sent[j] : i < k => sent[j][i].at < sent[j][k].at

\* "Incidents are not cached" (pipeline.go:215), and an analysis that is reused
\* was made for a single alert with the same key or a similar signature.
AnalysisBelongs ==
  \A j \in wave :
    LET b == Representative[analysis[j].of] IN
    analysis[j] # None /\ analysis[j].of # j
      => /\ single(j) /\ single(analysis[j].of)
         /\ key(b) = key(Representative[j]) \/ near(b, Representative[j])

\* No group with a critical alert in it causes a silence, whatever the model
\* wants: Representative hands the most severe alert to the guard.  The severity
\* must be spelt as severityRank spells it (correlator.go:145).
NoSilenceFromCriticalGroup ==
  \A s \in silences : \A i \in DOMAIN groupOf[s.by] :
    groupOf[s.by][i].severity # "critical"

\* "It resolves the pending analysis" (feedback.go:122-123): the verdict on record
\* for an alert is stored with an analysis of that alert which is the one the
\* operator saw, or one recorded later, never an older one and never none, even
\* if the alert is analysed again, or other links for it are clicked, between
\* message, click and answer; and no link in a delivered message is unknown.
VerdictFitsMessage ==
  /\ \A j \in DOMAIN click : click[j].at # "unknown"
  /\ \A i \in DOMAIN verdict : verdict[i] # None =>
       LET v == verdict[i] IN
       /\ ID(Representative[v.on]) = i /\ ID(Representative[v.by]) = i
       /\ analysis[v.by] # None
       /\ 0 < link[v.on] /\ link[v.on] <= link[v.by]

\* "Recording never blocks delivery" (history.go:7): every job that arrives is
\* finished, whatever fails on the way.  As finitely many jobs arrive, in the end
\* none is left unfinished.
EveryJobEnds == <>[](\A j \in wave : pc[j] \in {"awaited", "done"})

\* "Critical-severity alerts are NEVER silenced" (alertmanager.go:32): no
\* silence matches a critical alert.
CriticalNeverSilenced ==
  \A s \in silences, j \in wave : \A i \in DOMAIN groupOf[j] :
    critical(groupOf[j][i])
      => groupOf[j][i].name # s.name \/ groupOf[j][i].ns # s.ns
=============================================================================
