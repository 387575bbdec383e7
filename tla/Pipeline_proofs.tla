--------------------------- MODULE Pipeline_proofs ---------------------------
(***************************************************************************)
(* Proofs about Pipeline, for every set of jobs and alerts, every routing  *)
(* table and every relation of similarity.                                 *)
(***************************************************************************)
EXTENDS Pipeline, FiniteSetTheorems, WellFoundedInduction, TLAPS

Stage == {"awaited", "evaluate", "acquire", "cache", "silence", "record", "deliver", "done"}

\* The alert ID that job j records and links under.
id(j) == ID(Representative[j])

TypeOK ==
  /\ wave \in Together
  /\ pc \in [wave -> Stage]
  /\ alive \in [wave -> BOOLEAN]
  /\ analysis \in [wave -> [of : wave, silence : BOOLEAN] \cup {None}]
  /\ link \in [wave -> Nat]
  /\ sent \in [wave -> Seq([at : Nat, ok : BOOLEAN])]
  /\ DOMAIN cache = {key(Representative[j]) : j \in wave} /\ DOMAIN vec = DOMAIN cache
  /\ DOMAIN pending = {id(j) : j \in wave} /\ DOMAIN verdict = DOMAIN pending
  /\ click \in [wave \cap Clicked -> [at : {"unclicked", "unknown", "read", "answered"},
                                     by : wave \cup {None}]]

\* The receivers tried by job j are the first of those that were built, in order.
InOrder ==
  \A j \in wave :
    /\ \A i \in DOMAIN sent[j] : sent[j][i].at \in Built(j)
    /\ \A i, k \in DOMAIN sent[j] : i < k => sent[j][i].at < sent[j][k].at
    /\ \A n \in Built(j) : n \in Left(j) \/ \E i \in DOMAIN sent[j] : sent[j][i].at = n
    /\ pc[j] = "done" => Left(j) = {}

\* An analysis about to be cached is the job's own, and the job is no incident;
\* both layers hold analyses of single alerts, under those alerts' keys.
CachedBelongs ==
  /\ \A j \in wave : pc[j] = "cache" => single(j) /\ analysis[j] \in Analysis(j)
  /\ \A k \in DOMAIN cache : cache[k] # None =>
       /\ cache[k] \in [of : wave, silence : BOOLEAN]
       /\ single(cache[k].of) /\ key(Representative[cache[k].of]) = k
  /\ \A k \in DOMAIN vec : vec[k] # None =>
       /\ vec[k].analysis \in [of : wave, silence : BOOLEAN]
       /\ single(vec[k].analysis.of) /\ vec[k].alert = Representative[vec[k].analysis.of]

\* CreateSilence's guard has seen the representative of every job that silenced.
SilencerChecked == \A s \in silences : s.by \in wave /\ ~critical(Representative[s.by])

\* A job with links has an analysis, and one is pending for its alert.
LinkIsBacked ==
  \A j \in wave : link[j] # 0 =>
    analysis[j] # None /\ pc[j] \in {"deliver", "done"} /\ pending[id(j)] # None

\* Linked(j): the jobs with links for j's alert ID; their numbers do not exceed
\* their count.
Linked(j) == {k \in wave : link[k] # 0 /\ id(k) = id(j)}
Counted == \A j \in wave : link[j] <= Cardinality(Linked(j))

\* What is pending for an alert ID is the latest recording for it.
PendingIsLatest ==
  \A i \in DOMAIN pending : pending[i] # None =>
    /\ pending[i] \in wave /\ id(pending[i]) = i /\ link[pending[i]] # 0
    /\ \A k \in wave : id(k) = i => link[k] <= link[pending[i]]

\* A click in progress has read a recording as late as its message's.
ClickFits ==
  \A j \in DOMAIN click : click[j].at = "read" =>
    /\ click[j].by \in wave /\ id(click[j].by) = id(j)
    /\ 0 < link[j] /\ link[j] <= link[click[j].by]

\* A verdict on record names two jobs of its alert.
VerdictNames ==
  \A i \in DOMAIN verdict : verdict[i] # None => verdict[i].on \in wave /\ verdict[i].by \in wave

\* The inductive invariant.
IInv ==
  /\ TypeOK
  /\ InOrder
  /\ CachedBelongs
  /\ AnalysisBelongs
  /\ SilencerChecked
  /\ LinkIsBacked
  /\ Counted
  /\ PendingIsLatest
  /\ ClickFits
  /\ VerdictNames
  /\ VerdictFitsMessage
-----------------------------------------------------------------------------
\* A set of numbers that is not empty has a least one.
LEMMA LeastNumber ==
  ASSUME NEW T, T \subseteq Nat, T # {}
  PROVE  \E n \in T : \A m \in T : n <= m
<1> DEFINE R == {ss \in Nat \X Nat : ss[1] < ss[2]}
<1>1. IsWellFoundedOn(R, Nat)
  BY NatLessThanWellFounded DEF OpToRel
<1> HIDE DEF R
<1>2. PICK n \in T : \A m \in T : ~(<<m, n>> \in R)
  BY <1>1, WFMin
<1>3. \A m \in T : ~(m < n)
  BY <1>2 DEF R
<1> QED
  BY <1>3

\* Representative (correlator.go) returns an alert of the group, none of which
\* ranks higher.
LEMMA RepresentativeIsHighest ==
  ASSUME NEW j \in Job
  PROVE  \E r \in DOMAIN groupOf[j] :
           /\ Representative[j] = groupOf[j][r]
           /\ \A i \in DOMAIN groupOf[j] :
                severityRank(groupOf[j][i].severity) <= severityRank(groupOf[j][r].severity)
<1> DEFINE g == groupOf[j]
           rank(i) == severityRank(g[i].severity)
           top(i) == \A k \in DOMAIN g : rank(k) <= rank(i)
           first(i) == top(i) /\ \A k \in 1..i - 1 : rank(k) < rank(i)
<1>1. Len(g) \in Nat \ {0} /\ DOMAIN g = 1..Len(g)
  BY PipelineAssumption
<1>2. \A i : rank(i) \in 0..3
  BY DEF severityRank
<1> HIDE DEF rank
<1>3. \E i \in DOMAIN g : top(i)
  <2>1. 1 \in DOMAIN g
    BY <1>1
  <2> QED
    BY <1>2, <2>1
<1>4. PICK n \in {i \in DOMAIN g : top(i)} : \A m \in {i \in DOMAIN g : top(i)} : n <= m
  <2> HIDE DEF top
  <2>1. {i \in DOMAIN g : top(i)} \subseteq Nat /\ {i \in DOMAIN g : top(i)} # {}
    BY <1>1, <1>3
  <2> QED
    BY <2>1, LeastNumber
<1>5. \A k \in 1..n - 1 : k \in DOMAIN g /\ ~top(k)
  <2> HIDE DEF top
  <2> QED
    BY <1>1, <1>4
<1>6. first(n)
  BY <1>2, <1>4, <1>5
<1>7. Representative[j] = g[CHOOSE i \in DOMAIN g : first(i)]
  BY DEF Representative, rank
<1> DEFINE r == CHOOSE i \in DOMAIN g : first(i)
<1>8. r \in DOMAIN g /\ first(r)
  <2> HIDE DEF first
  <2>1. \E i \in DOMAIN g : first(i)
    BY <1>4, <1>6
  <2> QED
    BY <2>1
<1> HIDE DEF r
<1>9. r \in DOMAIN g /\ top(r) /\ Representative[j] = g[r]
  BY <1>7, <1>8 DEF r
<1> QED
  BY <1>9 DEF rank

\* If the representative is not critical, no alert of the group is, in
\* severityRank's spelling.
LEMMA CriticalIsRepresented ==
  ASSUME NEW j \in Job, ~critical(Representative[j]), NEW i \in DOMAIN groupOf[j]
  PROVE  groupOf[j][i].severity # "critical"
<1>1. PICK r \in DOMAIN groupOf[j] :
        /\ Representative[j] = groupOf[j][r]
        /\ severityRank(groupOf[j][i].severity) <= severityRank(groupOf[j][r].severity)
  BY RepresentativeIsHighest
<1> QED
  BY <1>1 DEF critical, severityRank

\* Route (routing.go) returns the receivers of a rule that matches and that no
\* matching rule precedes, or none if no rule matches.
LEMMA RouteIsFirstMatch ==
  ASSUME NEW a
  PROVE  \/ Route(a) = <<>> /\ \A i \in DOMAIN rules : ~Matches(rules[i], a)
         \/ \E i \in DOMAIN rules :
              /\ Route(a) = rules[i].receivers /\ Matches(rules[i], a)
              /\ \A k \in DOMAIN rules : k < i => ~Matches(rules[k], a)
<1> DEFINE hits == {i \in DOMAIN rules : Matches(rules[i], a)}
<1>1. CASE hits = {}
  BY <1>1 DEF Route
<1>2. CASE hits # {}
  <2> DEFINE c == CHOOSE i \in hits : \A k \in hits : i <= k
  <2>1. hits \subseteq Nat
    BY PipelineAssumption
  <2>2. \E i \in hits : \A k \in hits : i <= k
    <3> HIDE DEF hits
    <3> QED
      BY <1>2, <2>1, LeastNumber
  <2>3. c \in hits /\ \A k \in hits : c <= k
    <3> HIDE DEF hits
    <3> QED
      BY <2>2
  <2>4. Route(a) = rules[c].receivers
    BY <1>2 DEF Route
  <2> HIDE DEF c
  <2> QED
    BY <2>1, <2>3, <2>4
<1> QED
  BY <1>1, <1>2

\* The places of a route are numbers.
LEMMA BuiltArePlaces == ASSUME NEW j \in Job PROVE Built(j) \subseteq Nat
<1>1. Route(Representative[j]) = <<>>
      \/ \E i \in DOMAIN rules : Route(Representative[j]) = rules[i].receivers
  BY RouteIsFirstMatch
<1>2. DOMAIN Route(Representative[j]) \subseteq Nat
  BY <1>1, PipelineAssumption
<1> QED
  BY <1>2 DEF Built, targets
-----------------------------------------------------------------------------
\* The initial states satisfy the invariant.
LEMMA InitIInv == Init => IInv
<1> SUFFICES ASSUME Init PROVE IInv
  OBVIOUS
<1> USE DEF Init
<1>1. TypeOK
  BY DEF TypeOK, Stage, id
<1>2. InOrder
  <2>1. \A j \in wave : sent[j] = <<>> /\ pc[j] = "awaited"
    OBVIOUS
  <2>2. \A j \in wave : DOMAIN sent[j] = {}
    BY <2>1
  <2> QED
    BY <2>1, <2>2 DEF InOrder, Left
<1>3. CachedBelongs /\ AnalysisBelongs
  BY DEF CachedBelongs, AnalysisBelongs
<1>4. SilencerChecked /\ LinkIsBacked
  BY DEF SilencerChecked, LinkIsBacked
<1>5. Counted
  <2> SUFFICES ASSUME NEW j \in wave PROVE link[j] <= Cardinality(Linked(j))
    BY DEF Counted
  <2>1. Linked(j) = {} /\ link[j] = 0
    BY DEF Linked
  <2> QED
    BY <2>1, FS_EmptySet
<1>6. PendingIsLatest /\ ClickFits /\ VerdictNames
  BY DEF PendingIsLatest, ClickFits, VerdictNames, id
<1>7. VerdictFitsMessage
  BY DEF VerdictFitsMessage
<1> QED
  BY <1>1, <1>2, <1>3, <1>4, <1>5, <1>6, <1>7 DEF IInv

\* The parts of the invariant that are about feedback depend on these variables.
LEMMA FeedbackFrame ==
  ASSUME IInv, wave' = wave, link' = link, pending' = pending, click' = click,
         verdict' = verdict, pc' \in [wave -> Stage], TypeOK',
         \A j \in wave : link[j] # 0 =>
           analysis'[j] = analysis[j] /\ pc'[j] \in {"deliver", "done"}
  PROVE  LinkIsBacked' /\ Counted' /\ PendingIsLatest' /\ ClickFits' /\ VerdictNames'
         /\ VerdictFitsMessage'
<1> USE DEF IInv
<1>1. LinkIsBacked'
  BY DEF LinkIsBacked
<1>2. Counted'
  BY DEF Counted, Linked
<1>3. PendingIsLatest' /\ ClickFits' /\ VerdictNames'
  BY DEF PendingIsLatest, ClickFits, VerdictNames
<1>4. VerdictFitsMessage'
  <2>1. ASSUME NEW i \in DOMAIN verdict, verdict[i] # None
        PROVE  analysis'[verdict[i].by] = analysis[verdict[i].by]
    <3>1. verdict[i].on \in wave /\ verdict[i].by \in wave
      BY <2>1 DEF VerdictNames
    <3>2. 0 < link[verdict[i].on] /\ link[verdict[i].on] <= link[verdict[i].by]
      BY <2>1 DEF VerdictFitsMessage
    <3>3. link[verdict[i].on] \in Nat /\ link[verdict[i].by] \in Nat
      BY <3>1 DEF TypeOK
    <3> QED
      BY <3>1, <3>2, <3>3
  <2> QED
    BY <2>1 DEF VerdictFitsMessage
<1> QED
  BY <1>1, <1>2, <1>3, <1>4

\* A step that tries no receiver, and ends only jobs that have tried all,
\* preserves their order.
LEMMA OrderFrame ==
  ASSUME InOrder, wave' = wave, sent' = sent,
         \A k \in wave : pc'[k] = "done" => pc[k] = "done" \/ Left(k) = {}
  PROVE  InOrder'
<1> SUFFICES ASSUME NEW k \in wave PROVE InOrder!(k)'
  BY DEF InOrder
<1>1. Left(k)' = Left(k)
  BY DEF Left
<1>2. InOrder!(k)
  BY DEF InOrder
<1> QED
  BY <1>1, <1>2

\* A step that only takes job j to stage t, or its context away, preserves the
\* invariant, if it does not send an incident to the cache.
LEMMA QuietStep ==
  ASSUME IInv, NEW j \in wave, NEW t \in Stage,
         pc' = [pc EXCEPT ![j] = t], alive' \in [wave -> BOOLEAN],
         t = "cache" => pc[j] = "cache",
         t = "done" => Left(j) = {},
         pc[j] \in {"deliver", "done"} => t \in {"deliver", "done"},
         UNCHANGED <<fixed, analysis, link, sent, shared>>
  PROVE  IInv'
<1> USE DEF IInv, fixed, shared, clicks
<1>1. TypeOK'
  BY DEF TypeOK
<1>2. \A k \in wave : k # j => pc'[k] = pc[k]
  BY DEF TypeOK
<1>3. pc'[j] = t
  BY DEF TypeOK
<1>4. InOrder'
  BY <1>2, <1>3, OrderFrame
<1>5. CachedBelongs' /\ AnalysisBelongs' /\ SilencerChecked'
  BY <1>2, <1>3 DEF CachedBelongs, AnalysisBelongs, SilencerChecked
<1>6. \A k \in wave : link[k] # 0 => pc'[k] \in {"deliver", "done"}
  BY <1>2, <1>3 DEF LinkIsBacked
<1>7. pc' \in [wave -> Stage]
  BY DEF TypeOK
<1> QED
  BY <1>1, <1>4, <1>5, <1>6, <1>7, FeedbackFrame

\* A step that gives job j the analysis x preserves the invariant, if x belongs
\* to j, and is j's own and j no incident where it goes on to the cache.
LEMMA AnalysisStep ==
  ASSUME IInv, NEW j \in wave, NEW x \in [of : wave, silence : BOOLEAN],
         NEW t \in {"cache", "silence"},
         pc[j] \in {"evaluate", "acquire"},
         pc' = [pc EXCEPT ![j] = t],
         analysis' = [analysis EXCEPT ![j] = x],
         t = "cache" => single(j) /\ x \in Analysis(j),
         x.of # j =>
           /\ single(j) /\ single(x.of)
           /\ \/ key(Representative[x.of]) = key(Representative[j])
              \/ near(Representative[x.of], Representative[j]),
         UNCHANGED <<fixed, alive, link, sent, shared>>
  PROVE  IInv'
<1> USE DEF IInv, fixed, shared, clicks
<1>1. TypeOK'
  BY DEF TypeOK, Stage
<1>2. \A k \in wave : k # j => pc'[k] = pc[k] /\ analysis'[k] = analysis[k]
  BY DEF TypeOK
<1>3. pc'[j] = t /\ analysis'[j] = x
  BY DEF TypeOK
<1>4. InOrder'
  BY <1>2, <1>3, OrderFrame
<1>5. CachedBelongs'
  BY <1>2, <1>3 DEF CachedBelongs
<1>6. AnalysisBelongs'
  BY <1>2, <1>3 DEF AnalysisBelongs
<1>7. SilencerChecked'
  BY DEF SilencerChecked
<1>8. \A k \in wave : link[k] # 0 => k # j
  BY DEF LinkIsBacked
<1>9. \A k \in wave : link[k] # 0 => analysis'[k] = analysis[k] /\ pc'[k] \in {"deliver", "done"}
  BY <1>2, <1>8 DEF LinkIsBacked
<1>10. pc' \in [wave -> Stage]
  BY DEF TypeOK, Stage
<1> QED
  BY <1>1, <1>4, <1>5, <1>6, <1>7, <1>9, <1>10, FeedbackFrame

\* Writing and dropping cache entries preserves the invariant.
LEMMA CacheStep ==
  ASSUME IInv, pc' \in [wave -> Stage],
         \A k \in wave : pc'[k] = pc[k] \/ (pc[k] = "cache" /\ pc'[k] = "silence"),
         DOMAIN cache' = DOMAIN cache, DOMAIN vec' = DOMAIN vec,
         \A k \in DOMAIN cache :
           \/ cache'[k] \in {cache[k], None}
           \/ \E j \in wave : /\ pc[j] = "cache" /\ key(Representative[j]) = k
                              /\ cache'[k] = analysis[j],
         \A k \in DOMAIN vec :
           \/ vec'[k] \in {vec[k], None}
           \/ \E j \in wave : /\ pc[j] = "cache"
                              /\ vec'[k] = [alert |-> Representative[j], analysis |-> analysis[j]],
         UNCHANGED <<fixed, alive, analysis, link, sent, silences, pending, clicks>>
  PROVE  IInv'
<1> USE DEF IInv, fixed, clicks
<1>1. TypeOK'
  BY DEF TypeOK
<1>2. InOrder'
  BY OrderFrame
<1>3. \A j \in wave : analysis[j] \in [of : wave, silence : BOOLEAN] \cup {None}
  BY DEF TypeOK
<1>4. CachedBelongs'
  <2>1. \A j \in wave : pc'[j] = "cache" => single(j) /\ analysis'[j] \in Analysis(j)
    BY DEF CachedBelongs
  <2>2. \A k \in DOMAIN cache' : cache'[k] # None =>
          /\ cache'[k] \in [of : wave, silence : BOOLEAN]
          /\ single(cache'[k].of) /\ key(Representative[cache'[k].of]) = k
    BY <1>3 DEF CachedBelongs, Analysis
  <2>3. \A k \in DOMAIN vec' : vec'[k] # None =>
          /\ vec'[k].analysis \in [of : wave, silence : BOOLEAN]
          /\ single(vec'[k].analysis.of) /\ vec'[k].alert = Representative[vec'[k].analysis.of]
    <3> SUFFICES ASSUME NEW k \in DOMAIN vec, vec'[k] # None
                 PROVE  /\ vec'[k].analysis \in [of : wave, silence : BOOLEAN]
                        /\ single(vec'[k].analysis.of)
                        /\ vec'[k].alert = Representative[vec'[k].analysis.of]
      OBVIOUS
    <3>1. CASE vec'[k] = vec[k]
      BY <3>1 DEF CachedBelongs
    <3>2. CASE \E j \in wave : /\ pc[j] = "cache"
                               /\ vec'[k] = [alert |-> Representative[j], analysis |-> analysis[j]]
      BY <1>3, <3>2 DEF CachedBelongs, Analysis
    <3> QED
      BY <3>1, <3>2
  <2> QED
    BY <2>1, <2>2, <2>3 DEF CachedBelongs
<1>5. AnalysisBelongs' /\ SilencerChecked'
  BY DEF AnalysisBelongs, SilencerChecked
<1>6. \A k \in wave : link[k] # 0 => pc'[k] \in {"deliver", "done"}
  BY DEF LinkIsBacked
<1> QED
  BY <1>1, <1>2, <1>4, <1>5, <1>6, FeedbackFrame

\* Making a silence preserves the invariant: the guard has seen the representative.
LEMMA SilenceStep == ASSUME IInv, NEW j \in wave, Silences(j) PROVE IInv'
<1> USE DEF IInv, Silences, fixed, clicks
<1>1. TypeOK'
  BY DEF TypeOK, Stage, Goto
<1>2. \A k \in wave : k # j => pc'[k] = pc[k]
  BY DEF TypeOK, Goto
<1>3. pc'[j] = "record"
  BY DEF TypeOK, Goto
<1>4. InOrder'
  BY <1>2, <1>3, OrderFrame
<1>5. CachedBelongs' /\ AnalysisBelongs'
  BY <1>2, <1>3 DEF CachedBelongs, AnalysisBelongs
<1>6. SilencerChecked'
  <2>1. ~critical(Representative[j])
    BY DEF MaySilence
  <2>2. SilencerChecked /\ wave' = wave
    OBVIOUS
  <2>3. silences' = silences \cup {[name |-> Representative[j].name, ns |-> Representative[j].ns,
                                   by |-> j]}
    OBVIOUS
  <2> HIDE DEF IInv, Silences
  <2> QED
    BY <2>1, <2>2, <2>3 DEF SilencerChecked
<1>7. \A k \in wave : link[k] # 0 => pc'[k] \in {"deliver", "done"}
  BY <1>2 DEF LinkIsBacked
<1>8. pc' \in [wave -> Stage]
  BY DEF TypeOK, Stage, Goto
<1> QED
  BY <1>1, <1>4, <1>5, <1>6, <1>7, <1>8, FeedbackFrame

\* A turn of deliver's loop preserves the invariant.
LEMMA SendStep == ASSUME IInv, NEW j \in wave, Send(j) PROVE IInv'
<1> USE DEF IInv, fixed, shared, clicks
<1>1. PICK n \in Left(j), ok \in BOOLEAN :
        /\ \A m \in Left(j) : n <= m
        /\ sent' = [sent EXCEPT ![j] = Append(@, [at |-> n, ok |-> ok])]
  BY DEF Send, TypeOK
<1>2. UNCHANGED <<fixed, pc, alive, analysis, link, shared>> /\ pc[j] = "deliver"
  BY DEF Send
<1>3. wave \subseteq Job
  BY PipelineAssumption DEF TypeOK
<1>4. Built(j) \subseteq Nat /\ n \in Built(j) /\ n \in Nat
  BY <1>3, BuiltArePlaces DEF Left
<1>5. TypeOK'
  <2>1. sent[j] \in Seq([at : Nat, ok : BOOLEAN]) /\ [at |-> n, ok |-> ok] \in [at : Nat, ok : BOOLEAN]
    BY <1>4 DEF TypeOK
  <2>2. sent' \in [wave -> Seq([at : Nat, ok : BOOLEAN])]
    BY <1>1, <2>1 DEF TypeOK
  <2> QED
    BY <1>2, <2>2 DEF TypeOK
<1>6. \A k \in wave : k # j => sent'[k] = sent[k] /\ Left(k)' = Left(k)
  BY <1>1 DEF TypeOK, Left
<1>7. sent[j] \in Seq([at : Nat, ok : BOOLEAN])
  BY DEF TypeOK
<1>8. sent'[j] = Append(sent[j], [at |-> n, ok |-> ok])
  BY <1>1 DEF TypeOK
<1> DEFINE l == Len(sent[j])
<1>9. /\ l \in Nat /\ DOMAIN sent[j] = 1..l /\ DOMAIN sent'[j] = 1..l + 1
      /\ sent'[j][l + 1].at = n
      /\ \A i \in 1..l : sent'[j][i] = sent[j][i]
  BY <1>7, <1>8
<1> HIDE DEF l
<1>10. InOrder'
  <2> SUFFICES ASSUME NEW k \in wave PROVE InOrder!(k)'
    BY <1>2 DEF InOrder
  <2>1. CASE k # j
    <3>1. InOrder!(k)
      BY DEF InOrder
    <3> QED
      BY <1>2, <1>6, <2>1, <3>1
  <2>2. CASE k = j
    <3>1. \A i \in DOMAIN sent'[j] : sent'[j][i].at \in Built(j)
      BY <1>4, <1>9 DEF InOrder
    <3>2. \A i \in 1..l : sent[j][i].at < n
      BY <1>9 DEF Left
    <3>3. \A i, m \in DOMAIN sent'[j] : i < m => sent'[j][i].at < sent'[j][m].at
      BY <1>9, <3>2 DEF InOrder
    <3>4. ASSUME NEW m \in Built(j)
          PROVE  m \in Left(j)' \/ \E i \in DOMAIN sent'[j] : sent'[j][i].at = m
      <4>1. CASE m \in Left(j) /\ m # n
        <5>1. n < m
          BY <1>1, <1>4, <3>4, <4>1
        <5>2. \A i \in DOMAIN sent'[j] : sent'[j][i].at < m
          BY <1>9, <4>1, <5>1 DEF Left
        <5> QED
          BY <3>4, <5>2 DEF Left
      <4>2. CASE m = n
        BY <1>9, <4>2
      <4>3. CASE m \notin Left(j)
        BY <1>9, <3>4, <4>3 DEF InOrder
      <4> QED
        BY <4>1, <4>2, <4>3
    <3> QED
      BY <1>2, <2>2, <3>1, <3>3, <3>4
  <2> QED
    BY <2>1, <2>2
<1>11. CachedBelongs' /\ AnalysisBelongs' /\ SilencerChecked'
  BY <1>2 DEF CachedBelongs, AnalysisBelongs, SilencerChecked
<1>12. pc' \in [wave -> Stage] /\ \A k \in wave : link[k] # 0 => pc'[k] \in {"deliver", "done"}
  BY <1>2 DEF LinkIsBacked, TypeOK
<1> QED
  BY <1>2, <1>5, <1>10, <1>11, <1>12, FeedbackFrame

\* The jobs with links for one alert ID are finitely many.
LEMMA LinkedIsFinite ==
  ASSUME IInv, NEW j \in wave
  PROVE  IsFiniteSet(Linked(j)) /\ Cardinality(Linked(j)) \in Nat
<1>1. IsFiniteSet(wave)
  BY PipelineAssumption DEF IInv, TypeOK
<1>2. Linked(j) \subseteq wave
  BY DEF Linked
<1> QED
  BY <1>1, <1>2, FS_Subset, FS_CardinalityType

\* Recording job j's analysis behind its links preserves the invariant: j gets
\* the highest number of its alert ID, and becomes what is pending for it.
LEMMA LinkStep ==
  ASSUME IInv, NEW j \in wave, pc[j] = "record", analysis[j] # None,
         pending' = [pending EXCEPT ![id(j)] = j],
         link' = [link EXCEPT ![j] = Nth(j)],
         pc' = [pc EXCEPT ![j] = "deliver"],
         UNCHANGED <<fixed, alive, analysis, sent, cache, vec, silences, clicks>>
  PROVE  IInv'
<1> USE DEF IInv, fixed, clicks
<1>0. Nth(j) = 1 + Cardinality(Linked(j)) /\ Cardinality(Linked(j)) \in Nat
  BY LinkedIsFinite DEF Nth, Linked, id
<1> DEFINE c == Cardinality(Linked(j))
<1>1. TypeOK'
  <2>1. link' \in [wave -> Nat]
    BY <1>0 DEF TypeOK
  <2> QED
    BY <2>1 DEF TypeOK, Stage
<1>2. \A k \in wave : k # j => pc'[k] = pc[k] /\ link'[k] = link[k]
  BY DEF TypeOK
<1>3. pc'[j] = "deliver" /\ link'[j] = 1 + c /\ link[j] = 0
  BY <1>0 DEF TypeOK, LinkIsBacked
<1>4. \A i \in DOMAIN pending : pending'[i] = IF i = id(j) THEN j ELSE pending[i]
  BY DEF TypeOK
<1>5. j # None /\ \A k \in wave : link[k] \in Nat /\ id(k) \in DOMAIN pending
  BY PipelineAssumption DEF TypeOK
<1>6. InOrder'
  BY <1>2, <1>3, OrderFrame
<1>7. CachedBelongs' /\ AnalysisBelongs' /\ SilencerChecked'
  BY <1>2, <1>3 DEF CachedBelongs, AnalysisBelongs, SilencerChecked
<1>8. LinkIsBacked'
  BY <1>2, <1>3, <1>4, <1>5 DEF LinkIsBacked
<1>9. \A k \in wave : id(k) = id(j) => link[k] <= c
  <2>1. \A k \in wave : id(k) = id(j) => Linked(k) = Linked(j)
    BY DEF Linked
  <2> QED
    BY <2>1 DEF Counted
<1>10. Counted'
  <2> SUFFICES ASSUME NEW k \in wave PROVE link'[k] <= Cardinality(Linked(k)')
    BY DEF Counted
  <2>1. CASE id(k) = id(j)
    <3>1. Linked(k)' = Linked(j) \cup {j} /\ j \notin Linked(j)
      BY <1>0, <1>2, <1>3, <2>1 DEF Linked
    <3>2. Cardinality(Linked(k)') = c + 1
      BY <3>1, LinkedIsFinite, FS_AddElement
    <3> QED
      BY <1>0, <1>2, <1>3, <1>5, <1>9, <2>1, <3>2
  <2>2. CASE id(k) # id(j)
    <3>1. Linked(k)' = Linked(k)
      BY <1>2, <2>2 DEF Linked
    <3> QED
      BY <1>2, <2>2, <3>1 DEF Counted
  <2> QED
    BY <2>1, <2>2
<1>11. PendingIsLatest'
  <2> SUFFICES ASSUME NEW i \in DOMAIN pending, pending'[i] # None
               PROVE  /\ pending'[i] \in wave /\ id(pending'[i]) = i /\ link'[pending'[i]] # 0
                      /\ \A k \in wave : id(k) = i => link'[k] <= link'[pending'[i]]
    BY DEF PendingIsLatest, TypeOK
  <2>1. CASE i = id(j)
    BY <1>0, <1>2, <1>3, <1>4, <1>5, <1>9, <2>1
  <2>2. CASE i # id(j)
    BY <1>2, <1>4, <2>2 DEF PendingIsLatest
  <2> QED
    BY <2>1, <2>2
<1>12. \A k, m \in wave : 0 < link[k] /\ link[k] <= link[m] => link'[k] = link[k] /\ link'[m] = link[m]
  BY <1>2, <1>3, <1>5
<1>13. ClickFits'
  BY <1>12 DEF ClickFits, TypeOK
<1>14. VerdictNames'
  BY DEF VerdictNames
<1>15. VerdictFitsMessage'
  BY <1>12 DEF VerdictFitsMessage, VerdictNames
<1> QED
  BY <1>1, <1>6, <1>7, <1>8, <1>10, <1>11, <1>13, <1>14, <1>15

\* A click's first step preserves the invariant: what it reads is pending.
LEMMA ClickReadsStep == ASSUME IInv, NEW j \in DOMAIN click, ClickReads(j) PROVE IInv'
<1> USE DEF IInv, ClickReads, fixed
<1>1. j \in wave /\ id(j) \in DOMAIN pending
  BY DEF TypeOK
<1>2. pending[id(j)] # None /\ link[j] \in Nat /\ link[j] # 0
  BY <1>1 DEF LinkIsBacked, TypeOK
<1>3. \A k \in DOMAIN click : k # j => click'[k] = click[k]
  OBVIOUS
<1>4. DOMAIN click' = DOMAIN click
  OBVIOUS
<1>5. click'[j].at = "answered" \/ click'[j] = [at |-> "read", by |-> pending[id(j)]]
  <2>1. \/ click' = [click EXCEPT ![j] = [at |-> "read", by |-> pending[id(j)]]]
        \/ click' = [click EXCEPT ![j].at = "answered"]
    BY <1>2 DEF id
  <2> QED
    BY <1>1, <2>1 DEF TypeOK
<1>6. TypeOK'
  <2>1. pending[id(j)] \in wave
    BY <1>1, <1>2 DEF PendingIsLatest
  <2>2. \/ click' = [click EXCEPT ![j] = [at |-> "read", by |-> pending[id(j)]]]
        \/ click' = [click EXCEPT ![j].at = "answered"]
    BY <1>2 DEF id
  <2>3. click' \in [wave \cap Clicked -> [at : {"unclicked", "unknown", "read", "answered"},
                                         by : wave \cup {None}]]
    <3>1. click \in [wave \cap Clicked -> [at : {"unclicked", "unknown", "read", "answered"},
                                          by : wave \cup {None}]]
      BY DEF TypeOK
    <3>2. [at |-> "read", by |-> pending[id(j)]]
             \in [at : {"unclicked", "unknown", "read", "answered"}, by : wave \cup {None}]
      BY <2>1
    <3> HIDE DEF ClickReads, IInv, fixed
    <3>3. CASE click' = [click EXCEPT ![j] = [at |-> "read", by |-> pending[id(j)]]]
      BY <3>1, <3>2, <3>3
    <3>4. CASE click' = [click EXCEPT ![j].at = "answered"]
      BY <3>1, <3>4
    <3> QED
      BY <2>2, <3>3, <3>4
  <2> QED
    BY <2>3 DEF TypeOK
<1>7. InOrder'
  BY OrderFrame
<1>8. CachedBelongs' /\ AnalysisBelongs' /\ SilencerChecked'
  BY DEF CachedBelongs, AnalysisBelongs, SilencerChecked
<1>9. LinkIsBacked' /\ Counted' /\ PendingIsLatest' /\ VerdictNames'
  BY DEF LinkIsBacked, Counted, Linked, PendingIsLatest, VerdictNames
<1>10. ClickFits'
  <2> SUFFICES ASSUME NEW k \in DOMAIN click, click'[k].at = "read"
               PROVE  /\ click'[k].by \in wave /\ id(click'[k].by) = id(k)
                      /\ 0 < link[k] /\ link[k] <= link[click'[k].by]
    BY <1>4 DEF ClickFits
  <2>1. CASE k # j
    BY <1>3, <2>1 DEF ClickFits
  <2>2. CASE k = j
    <3>1. click'[j].by = pending[id(j)]
      BY <1>5, <2>2
    <3>2. /\ pending[id(j)] \in wave /\ id(pending[id(j)]) = id(j)
          /\ link[j] <= link[pending[id(j)]]
      BY <1>1, <1>2 DEF PendingIsLatest
    <3> QED
      BY <1>2, <2>2, <3>1, <3>2
  <2> QED
    BY <2>1, <2>2
<1>11. VerdictFitsMessage'
  BY <1>3, <1>4, <1>5 DEF VerdictFitsMessage
<1> QED
  BY <1>6, <1>7, <1>8, <1>9, <1>10, <1>11

\* A click's second step preserves the invariant: it stores what the first read.
LEMMA ClickStoresStep == ASSUME IInv, NEW j \in DOMAIN click, ClickStores(j) PROVE IInv'
<1> USE DEF IInv, ClickStores, fixed
<1>1. j \in wave /\ id(j) \in DOMAIN verdict
  BY DEF TypeOK
<1>2. /\ click[j].by \in wave /\ id(click[j].by) = id(j)
      /\ 0 < link[j] /\ link[j] <= link[click[j].by]
  BY DEF ClickFits
<1>3. \A k \in DOMAIN click : k # j => click'[k] = click[k]
  OBVIOUS
<1>4. DOMAIN click' = DOMAIN click /\ click'[j].at = "answered"
  OBVIOUS
<1>5. /\ DOMAIN verdict' = DOMAIN verdict
      /\ \A i \in DOMAIN verdict :
           \/ verdict'[i] = verdict[i]
           \/ i = id(j) /\ verdict'[i] = [on |-> j, by |-> click[j].by]
  <2>1. verdict' = verdict \/ verdict' = [verdict EXCEPT ![id(j)] = [on |-> j, by |-> click[j].by]]
    BY DEF id
  <2> QED
    BY <1>1, <2>1
<1>6. TypeOK'
  BY <1>4, <1>5 DEF TypeOK
<1>7. InOrder'
  BY OrderFrame
<1>8. CachedBelongs' /\ AnalysisBelongs' /\ SilencerChecked'
  BY DEF CachedBelongs, AnalysisBelongs, SilencerChecked
<1>9. LinkIsBacked' /\ Counted' /\ PendingIsLatest'
  BY DEF LinkIsBacked, Counted, Linked, PendingIsLatest
<1>10. ClickFits'
  BY <1>3, <1>4 DEF ClickFits
<1>11. VerdictNames'
  BY <1>1, <1>2, <1>5 DEF VerdictNames
<1>12. analysis[click[j].by] # None
  <2>1. link[j] \in Nat /\ link[click[j].by] \in Nat
    BY <1>1, <1>2 DEF TypeOK
  <2>2. link[click[j].by] # 0
    BY <1>2, <2>1
  <2> QED
    BY <1>2, <2>2 DEF LinkIsBacked
<1>13. \A k \in DOMAIN click' : click'[k].at # "unknown"
  BY <1>3, <1>4 DEF VerdictFitsMessage
<1>14. \A i \in DOMAIN verdict' : verdict'[i] # None =>
         LET v == verdict'[i] IN
         /\ ID(Representative[v.on]) = i /\ ID(Representative[v.by]) = i
         /\ analysis[v.by] # None
         /\ 0 < link[v.on] /\ link[v.on] <= link[v.by]
  BY <1>1, <1>2, <1>5, <1>12 DEF VerdictFitsMessage, id
<1>15. VerdictFitsMessage'
  BY <1>13, <1>14 DEF VerdictFitsMessage
<1> QED
  BY <1>6, <1>7, <1>8, <1>9, <1>10, <1>11, <1>15

\* Cache.Set, whichever layers it reaches, preserves the invariant.
LEMMA CacheSetStep == ASSUME IInv, NEW j \in wave, CacheSet(j) PROVE IInv'
<1> DEFINE k0 == key(Representative[j])
           e == [alert |-> Representative[j], analysis |-> analysis[j]]
<1>0. TypeOK
  BY DEF IInv
<1>1. pc' \in [wave -> Stage] /\ \A k \in wave : pc'[k] = pc[k] \/ (pc[k] = "cache" /\ pc'[k] = "silence")
  BY <1>0 DEF TypeOK, CacheSet, Goto, Stage
<1>2. cache' = cache \/ cache' = [cache EXCEPT ![k0] = analysis[j]]
  BY DEF CacheSet
<1>3. vec' = vec \/ vec' = [vec EXCEPT ![k0] = e]
  BY DEF CacheSet
<1>4. UNCHANGED <<fixed, alive, analysis, link, sent, silences, pending, clicks>> /\ pc[j] = "cache"
  BY DEF CacheSet
<1> HIDE DEF e
<1>5. /\ DOMAIN cache' = DOMAIN cache
      /\ \A k \in DOMAIN cache : cache'[k] = cache[k] \/ (k0 = k /\ cache'[k] = analysis[j])
  BY <1>2
<1>6. /\ DOMAIN vec' = DOMAIN vec
      /\ \A k \in DOMAIN vec : vec'[k] = vec[k] \/ vec'[k] = e
  BY <1>3
<1>7. \A k \in DOMAIN cache :
        \/ cache'[k] \in {cache[k], None}
        \/ \E m \in wave : /\ pc[m] = "cache" /\ key(Representative[m]) = k
                           /\ cache'[k] = analysis[m]
  BY <1>4, <1>5
<1>8. \A k \in DOMAIN vec :
        \/ vec'[k] \in {vec[k], None}
        \/ \E m \in wave : /\ pc[m] = "cache"
                           /\ vec'[k] = [alert |-> Representative[m], analysis |-> analysis[m]]
  BY <1>4, <1>6 DEF e
<1> QED
  BY <1>1, <1>4, <1>5, <1>6, <1>7, <1>8, CacheStep

\* The expiry of a cache entry preserves the invariant.
LEMMA EvictStep == ASSUME IInv, Evict PROVE IInv'
<1>0. TypeOK
  BY DEF IInv
<1>1. pc' \in [wave -> Stage] /\ \A k \in wave : pc'[k] = pc[k]
  BY <1>0 DEF TypeOK, Evict
<1>2. UNCHANGED <<fixed, alive, analysis, link, sent, silences, pending, clicks>>
  BY DEF Evict
<1>3. /\ DOMAIN cache' = DOMAIN cache /\ DOMAIN vec' = DOMAIN vec
      /\ \A k \in DOMAIN cache : cache'[k] \in {cache[k], None}
      /\ \A k \in DOMAIN vec : vec'[k] \in {vec[k], None}
  BY DEF Evict
<1> QED
  BY <1>1, <1>2, <1>3, CacheStep

\* Every step of a job preserves the invariant.
LEMMA JobStep ==
  ASSUME IInv, NEW j \in wave, Arrive(j) \/ process(j) \/ Expire(j)
  PROVE  IInv'
<1>0. TypeOK /\ CachedBelongs
  BY DEF IInv
<1>1. \A t \in Stage : Goto(j, t) => pc' = [pc EXCEPT ![j] = t]
  BY DEF Goto
<1>2. CASE Arrive(j)
  BY <1>0, <1>1, <1>2, QuietStep DEF Arrive, Stage, TypeOK
<1>3. CASE Expire(j)
  <2>1. pc' = [pc EXCEPT ![j] = pc[j]] /\ alive' \in [wave -> BOOLEAN]
    BY <1>0, <1>3 DEF Expire, TypeOK
  <2>2. pc[j] \in Stage /\ pc[j] # "done"
    BY <1>0, <1>3 DEF Expire, TypeOK
  <2> QED
    BY <1>3, <2>1, <2>2, QuietStep DEF Expire
<1>4. CASE ExactHit(j)
  <2> DEFINE x == cache[key(Representative[j])]
  <2>1. key(Representative[j]) \in DOMAIN cache
    BY <1>0 DEF TypeOK
  <2>2. x \in [of : wave, silence : BOOLEAN] /\ single(x.of)
        /\ key(Representative[x.of]) = key(Representative[j]) /\ single(j)
    BY <1>0, <1>4, <2>1 DEF ExactHit, CachedBelongs
  <2>3. /\ analysis' = [analysis EXCEPT ![j] = x] /\ pc[j] = "evaluate"
        /\ pc' = [pc EXCEPT ![j] = "silence"]
        /\ UNCHANGED <<fixed, alive, link, sent, shared>>
    BY <1>4 DEF ExactHit, Goto
  <2> HIDE DEF x
  <2> QED
    BY <2>2, <2>3, AnalysisStep
<1>5. CASE SemanticHit(j)
  <2>1. PICK k \in DOMAIN cache : /\ vec[k] # None /\ near(vec[k].alert, Representative[j])
                                  /\ analysis' = [analysis EXCEPT ![j] = vec[k].analysis]
    BY <1>5 DEF SemanticHit
  <2> DEFINE x == vec[k].analysis
  <2>2. x \in [of : wave, silence : BOOLEAN] /\ single(x.of)
        /\ near(Representative[x.of], Representative[j]) /\ single(j)
    BY <1>0, <1>5, <2>1 DEF SemanticHit, CachedBelongs, TypeOK
  <2>3. /\ pc[j] = "evaluate" /\ pc' = [pc EXCEPT ![j] = "silence"]
        /\ UNCHANGED <<fixed, alive, link, sent, shared>>
    BY <1>5 DEF SemanticHit, Goto
  <2>4. analysis' = [analysis EXCEPT ![j] = x]
    BY <2>1
  <2> HIDE DEF x
  <2> QED
    BY <2>2, <2>3, <2>4, AnalysisStep
<1>6. CASE Miss(j)
  BY <1>0, <1>1, <1>6, QuietStep DEF Miss, Stage, TypeOK
<1>7. CASE NoAnalysis(j)
  BY <1>0, <1>1, <1>7, QuietStep DEF NoAnalysis, Stage, TypeOK
<1>8. CASE LLMAnswers(j)
  <2>1. PICK x \in Analysis(j) : analysis' = [analysis EXCEPT ![j] = x]
    BY <1>8 DEF LLMAnswers
  <2>2. PICK t \in {"cache", "silence"} : pc' = [pc EXCEPT ![j] = t] /\ (t = "cache" => single(j))
    BY <1>8 DEF LLMAnswers, Goto
  <2>3. x \in [of : wave, silence : BOOLEAN] /\ x.of = j
    BY DEF Analysis
  <2>4. pc[j] = "acquire" /\ UNCHANGED <<fixed, alive, link, sent, shared>>
    BY <1>8 DEF LLMAnswers
  <2> QED
    BY <2>1, <2>2, <2>3, <2>4, AnalysisStep
<1>9. CASE CacheSet(j)
  BY <1>9, CacheSetStep
<1>10. CASE Silences(j)
  BY <1>10, SilenceStep
<1>11. CASE NoSilence(j)
  BY <1>0, <1>1, <1>11, QuietStep DEF NoSilence, Stage, TypeOK
<1>12. CASE attachFeedback(j)
  <2>1. /\ pc[j] = "record" /\ pc' = [pc EXCEPT ![j] = "deliver"]
        /\ UNCHANGED <<fixed, alive, analysis, sent, cache, vec, silences, clicks>>
    BY <1>12 DEF attachFeedback, Goto
  <2>2. CASE UNCHANGED <<pending, link>>
    <3>1. TypeOK'
      BY <1>0, <2>1, <2>2 DEF TypeOK, Stage, fixed, clicks
    <3>2. \A k \in wave : pc'[k] = pc[k] \/ (pc[k] = "record" /\ pc'[k] = "deliver")
      BY <1>0, <2>1 DEF TypeOK
    <3>4. InOrder'
      BY <2>1, <3>2, OrderFrame DEF IInv, fixed
    <3>5. CachedBelongs' /\ AnalysisBelongs' /\ SilencerChecked'
      BY <2>1, <3>2 DEF IInv, CachedBelongs, AnalysisBelongs, SilencerChecked, fixed
    <3>6. pc' \in [wave -> Stage] /\ \A k \in wave : link[k] # 0 => pc'[k] \in {"deliver", "done"}
      BY <1>0, <2>1, <3>2 DEF IInv, LinkIsBacked, TypeOK, Stage
    <3> QED
      BY <2>1, <2>2, <3>1, <3>4, <3>5, <3>6, FeedbackFrame DEF IInv, fixed, clicks
  <2>3. CASE /\ analysis[j] # None
             /\ pending' = [pending EXCEPT ![id(j)] = j]
             /\ link' = [link EXCEPT ![j] = Nth(j)]
    BY <2>1, <2>3, LinkStep
  <2> QED
    BY <1>12, <2>2, <2>3 DEF attachFeedback, id
<1>13. CASE Send(j)
  BY <1>13, SendStep
<1>14. CASE Delivered(j)
  <2>1. alive' \in [wave -> BOOLEAN] /\ Left(j) = {} /\ pc[j] = "deliver"
    BY <1>0, <1>14 DEF Delivered, TypeOK, Pending
  <2> QED
    BY <1>1, <1>14, <2>1, QuietStep DEF Delivered, Stage
<1> QED
  BY <1>2, <1>3, <1>4, <1>5, <1>6, <1>7, <1>8, <1>9, <1>10, <1>11, <1>12, <1>13, <1>14
     DEF process, evaluate

\* Every step preserves the invariant.
LEMMA NextIInv == IInv /\ [Next]_vars => IInv'
<1> SUFFICES ASSUME IInv, [Next]_vars PROVE IInv'
  OBVIOUS
<1>1. CASE Next
  BY <1>1, EvictStep, ClickReadsStep, ClickStoresStep, JobStep DEF Next, ServeHTTP
<1>2. CASE UNCHANGED vars
  <2> USE <1>2 DEF vars, fixed, shared, clicks, IInv
  <2>1. TypeOK' /\ CachedBelongs' /\ AnalysisBelongs' /\ SilencerChecked'
    BY DEF TypeOK, CachedBelongs, AnalysisBelongs, SilencerChecked
  <2>3. InOrder'
    BY OrderFrame
  <2>4. pc' \in [wave -> Stage] /\ \A k \in wave : link[k] # 0 => pc'[k] \in {"deliver", "done"}
    BY DEF LinkIsBacked, TypeOK
  <2> QED
    BY <2>1, <2>3, <2>4, FeedbackFrame
<1> QED
  BY <1>1, <1>2

\* Every reachable state satisfies the invariant.
THEOREM Invariance == Spec => []IInv
  BY InitIInv, NextIInv, PTL DEF Spec

\* deliver (pipeline.go): a finished job has tried every receiver of its route
\* that was built, once and in order, whatever failed before or on the way.
THEOREM DeliveryIsComplete == Spec => []EveryReceiverTried
<1>1. IInv => EveryReceiverTried
  <2> SUFFICES ASSUME IInv, NEW j \in wave, pc[j] = "done"
               PROVE  /\ {sent[j][i].at : i \in DOMAIN sent[j]} = Built(j)
                      /\ \A i, k \in DOMAIN sent[j] : i < k => sent[j][i].at < sent[j][k].at
    BY DEF EveryReceiverTried
  <2>1. /\ \A i \in DOMAIN sent[j] : sent[j][i].at \in Built(j)
        /\ \A i, k \in DOMAIN sent[j] : i < k => sent[j][i].at < sent[j][k].at
        /\ \A n \in Built(j) : \E i \in DOMAIN sent[j] : sent[j][i].at = n
    BY DEF IInv, InOrder
  <2> QED
    BY <2>1
<1> QED
  BY <1>1, Invariance, PTL

\* llmcache and evaluate (pipeline.go): a reused analysis was made for a single
\* alert with the same key or a similar signature, and incidents neither give
\* nor take one.
THEOREM ReuseBelongs == Spec => []AnalysisBelongs
<1>1. IInv => AnalysisBelongs
  BY DEF IInv
<1> QED
  BY <1>1, Invariance, PTL

\* maybeSilence (pipeline.go) with Representative (correlator.go): no group with
\* a critical alert in it causes a silence, whatever its members and their order.
THEOREM CriticalGroupNeverSilences == Spec => []NoSilenceFromCriticalGroup
<1>1. IInv => NoSilenceFromCriticalGroup
  <2> SUFFICES ASSUME IInv, NEW s \in silences, NEW i \in DOMAIN groupOf[s.by]
               PROVE  groupOf[s.by][i].severity # "critical"
    BY DEF NoSilenceFromCriticalGroup
  <2>1. s.by \in Job /\ ~critical(Representative[s.by])
    BY PipelineAssumption DEF IInv, TypeOK, SilencerChecked
  <2> QED
    BY <2>1, CriticalIsRepresented
<1> QED
  BY <1>1, Invariance, PTL

\* feedback.go: a stored verdict carries an analysis of its alert that is the one
\* in the clicked message or was recorded later, and no delivered link is unknown.
THEOREM VerdictsFit == Spec => []VerdictFitsMessage
<1>1. IInv => VerdictFitsMessage
  BY DEF IInv
<1> QED
  BY <1>1, Invariance, PTL
=============================================================================
