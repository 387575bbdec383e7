------------------------------ MODULE Evaluator ------------------------------
(***************************************************************************)
(* internal/evaluator: Evaluator.run asks a provider for an analysis,      *)
(* validates the answer, asks again with a correction, and degrades to raw *)
(* delivery; the provider's complete retries the transport with backoff    *)
(* (anthropic.go, openai.go).  An openai provider in mode auto switches    *)
(* from JSON Schema requests to json-object ones for good, once the        *)
(* endpoint has rejected a schema.                                         *)
(*                                                                         *)
(* A Call is one invocation of run, by a goroutine of the pipeline.  Its   *)
(* context is the pipeline's own, which expires Deadline seconds after it  *)
(* was made; notifications are sent under the same context afterwards.     *)
(* A request is answered, or fails, at once or as late as it may.          *)
(***************************************************************************)
EXTENDS Integers

CONSTANTS
  Call,
  MaxRetries,   \* LLM_MAX_RETRIES
  Timeout,      \* LLM_TIMEOUT
  Deadline,     \* of the pipeline's context
  Answer        \* the answers the model may give

ASSUME EvaluatorAssumption ==
  /\ MaxRetries \in Nat /\ Timeout \in Nat \ {0} /\ Deadline \in Nat \ {0}

VARIABLES
  provider,     \* LLM_PROVIDER, which never changes
  setting,      \* LLM_SCHEMA_MODE, which never changes
  downgraded,   \* openAIProvider.downgraded
  pc,           \* call -> where it is
  retry,        \* call -> run's attempt: how many corrections it has asked for
  attempt,      \* call -> complete's attempt
  t,            \* call -> seconds since the pipeline's context was made
  until,        \* call -> when complete's own context expires
  mode,         \* call -> the mode of its last request
  result        \* call -> what run returned

config == <<provider, setting>>

vars == <<config, downgraded, pc, retry, attempt, t, until, mode, result>>

openai == provider = "openai-compatible"

\* Mutation: the downgrade is not reported.
structured_Optimistic == ~openai \/ setting \in {"schema", "auto"}

\* structured
structured == ~openai \/ (setting \in {"schema", "auto"} /\ ~downgraded)

\* effectiveMode
effectiveMode ==
  IF setting = "json-object" \/ (setting = "auto" /\ downgraded)
  THEN "json-object" ELSE "schema"

Min2(a, b) == IF a < b THEN a ELSE b

\* Mutation: complete sets no bound of its own.
completeBound_None(c) == Deadline

\* anthropicProvider.complete bounds all its attempts together.
completeBound(c) == IF openai THEN Deadline ELSE Min2(Deadline, t[c] + Timeout)

\* The http client of the openai provider bounds each request.
requestBound(c) == IF openai THEN Min2(until[c], t[c] + Timeout) ELSE until[c]

\* New: an openai provider in mode auto may have been downgraded by preflight.
Init ==
  /\ provider \in {"anthropic", "openai-compatible"}
  /\ setting \in {"schema", "json-object", "auto"}
  /\ \/ downgraded = FALSE
     \/ openai /\ setting = "auto" /\ downgraded = TRUE
  /\ pc = [c \in Call |-> "run"]
  /\ retry = [c \in Call |-> 0]
  /\ attempt = [c \in Call |-> 0]
  /\ t = [c \in Call |-> 0]
  /\ until = [c \in Call |-> 0]
  /\ mode = [c \in Call |-> effectiveMode]
  /\ result = [c \in Call |-> "none"]
-----------------------------------------------------------------------------
\* run calls complete, with the prompt or a correction of it, and complete
\* sends its first request.
Complete(c) ==
  /\ pc[c] = "run"
  /\ pc' = [pc EXCEPT ![c] = "request"]
  /\ attempt' = [attempt EXCEPT ![c] = 0]
  /\ until' = [until EXCEPT ![c] = completeBound(c)]
  /\ mode' = [mode EXCEPT ![c] = effectiveMode]
  /\ UNCHANGED <<config, downgraded, retry, t, result>>

\* An answer arrives at once, or just before the request's time is up.
AnsweredAt(c) ==
  /\ t[c] < requestBound(c)
  /\ \E e \in {t[c], requestBound(c) - 1} : t' = [t EXCEPT ![c] = e]

Returns(c, r) ==
  /\ pc' = [pc EXCEPT ![c] = "returned"]
  /\ result' = [result EXCEPT ![c] = r]

\* decodeAndValidate
decodeAndValidate(a) ==
  /\ a.json
  /\ a.severity \in {"critical", "warning", "info"}
  /\ ~a.blank
  /\ a.confidence \in {"high", "medium", "low"}
  /\ a.grounding \in {"stated", "inferred"}

\* A valid answer: run returns the analysis.
AnswersValid(c) ==
  /\ pc[c] = "request"
  /\ \E a \in Answer : decodeAndValidate(a)
  /\ AnsweredAt(c)
  /\ Returns(c, "analysis")
  /\ UNCHANGED <<config, downgraded, retry, attempt, until, mode>>

\* An answer that fails validation: a correction is asked for, or run degrades.
AnswersInvalid(c) ==
  /\ pc[c] = "request"
  /\ \E a \in Answer : ~decodeAndValidate(a)
  /\ AnsweredAt(c)
  /\ \/ /\ retry[c] < MaxRetries
        /\ retry' = [retry EXCEPT ![c] = retry[c] + 1]
        /\ pc' = [pc EXCEPT ![c] = "run"]
        /\ UNCHANGED result
     \/ /\ retry[c] = MaxRetries
        /\ Returns(c, "degraded")
        /\ UNCHANGED retry
  /\ UNCHANGED <<config, downgraded, attempt, until, mode>>

\* complete has no answer from this attempt: it backs off, or gives up.
AttemptFails(c) ==
  \/ /\ attempt[c] < 2
     /\ pc' = [pc EXCEPT ![c] = "backoff"]
     /\ UNCHANGED result
  \/ /\ attempt[c] = 2
     /\ Returns(c, "error")

\* The request fails: the network, a timeout, a status, an undecodable body.
RequestFails(c) ==
  /\ pc[c] = "request"
  /\ \E e \in {t[c], requestBound(c)} : t' = [t EXCEPT ![c] = e]
  /\ AttemptFails(c)
  /\ UNCHANGED <<config, downgraded, retry, attempt, until, mode>>

\* downgrade, called in mode auto.
downgrade == downgraded' = IF setting = "auto" THEN TRUE ELSE downgraded

\* schemaRejected: a client error whose body mentions the schema.
SchemaRejected(c) ==
  /\ openai
  /\ pc[c] = "request"
  /\ AnsweredAt(c)
  /\ AttemptFails(c)
  /\ downgrade
  /\ UNCHANGED <<config, retry, attempt, until, mode>>

\* Anthropic answers without the forced tool call: not retried.
NoToolCall(c) ==
  /\ ~openai
  /\ pc[c] = "request"
  /\ AnsweredAt(c)
  /\ Returns(c, "error")
  /\ UNCHANGED <<config, downgraded, retry, attempt, until, mode>>

\* 1 << attempt
backoff(c) == IF attempt[c] = 0 THEN 2 ELSE 4

\* Mutation: the backoff does not watch the context.
BackoffExpires_Never(c) == FALSE /\ UNCHANGED vars

\* The context expires during the backoff.
BackoffExpires(c) ==
  /\ pc[c] = "backoff"
  /\ t[c] + backoff(c) >= until[c]
  /\ t' = [t EXCEPT ![c] = until[c]]
  /\ Returns(c, "error")
  /\ UNCHANGED <<config, downgraded, retry, attempt, until, mode>>

\* The backoff is over, and the next request is sent.
Retries(c) ==
  /\ pc[c] = "backoff"
  /\ t[c] + backoff(c) <= until[c]
  /\ t' = [t EXCEPT ![c] = t[c] + backoff(c)]
  /\ pc' = [pc EXCEPT ![c] = "request"]
  /\ attempt' = [attempt EXCEPT ![c] = attempt[c] + 1]
  /\ mode' = [mode EXCEPT ![c] = effectiveMode]
  /\ UNCHANGED <<config, downgraded, retry, until, result>>

run(c) ==
  \/ Complete(c) \/ AnswersValid(c) \/ AnswersInvalid(c) \/ RequestFails(c)
  \/ SchemaRejected(c) \/ NoToolCall(c) \/ BackoffExpires(c) \/ Retries(c)

Next == \E c \in Call : run(c)

Spec == Init /\ [][Next]_vars /\ \A c \in Call : WF_vars(run(c))
-----------------------------------------------------------------------------
TypeOK ==
  /\ downgraded \in BOOLEAN /\ (downgraded => openai /\ setting = "auto")
  /\ pc \in [Call -> {"run", "request", "backoff", "returned"}]
  /\ retry \in [Call -> 0..MaxRetries]
  /\ attempt \in [Call -> 0..2]
  /\ t \in [Call -> 0..Deadline]
  /\ until \in [Call -> 0..Deadline]
  /\ mode \in [Call -> {"schema", "json-object"}]
  /\ result \in [Call -> {"none", "analysis", "degraded", "error"}]

\* "each Claude call is bounded by `LLM_TIMEOUT`" (README.md:55): when run
\* returns from the anthropic provider, whatever the model did, the context under
\* which the alert is then delivered has time left.
DeadlineLeft ==
  ~openai => \A c \in Call : pc[c] = "returned" => t[c] < Deadline

\* "LLM never blocks delivery" (README.md:55), with either provider.
NeverBlocksDelivery ==
  \A c \in Call : pc[c] = "returned" => t[c] < Deadline

\* "structured() can honestly report best-effort" (openai.go:63-64): while the
\* provider says that its output is schema-checked, no request of any call that
\* is under way went out without the schema.
StructuredIsHonest ==
  openai /\ structured => \A c \in Call : mode[c] = "schema"

\* run ends, with an analysis or without one.
EvaluationEnds == \A c \in Call : <>(pc[c] = "returned")
=============================================================================
