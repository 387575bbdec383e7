--------------------------- MODULE Evaluator_proofs ---------------------------
(***************************************************************************)
(* What holds of evaluations for any number of calls and any configured    *)
(* times: how long run takes with the anthropic provider, and the honesty  *)
(* of structured with the openai one.                                      *)
(***************************************************************************)
EXTENDS Evaluator, TLAPS

\* What n calls of complete may take together.
Budget(n) == n * Timeout

\* Budget is a multiple of the timeout.
LEMMA BudgetFacts ==
  /\ Budget(0) = 0
  /\ \A n \in Nat : Budget(n) \in Nat
  /\ \A n \in Nat : Budget(n + 1) = Budget(n) + Timeout
BY EvaluatorAssumption, Z3 DEF Budget

\* More calls take no less time.
LEMMA BudgetMonotone ==
  ASSUME NEW m \in Nat, NEW n \in Nat, m <= n PROVE Budget(m) <= Budget(n)
<1> DEFINE d == n - m
<1>1. d \in Nat /\ n = m + d
  OBVIOUS
<1>2. d * Timeout \in Nat
  BY <1>1, EvaluatorAssumption
<1>3. (m + d) * Timeout = m * Timeout + d * Timeout
  BY <1>1, EvaluatorAssumption, Z3
<1>4. m * Timeout \in Nat
  BY EvaluatorAssumption
<1> QED
  BY <1>1, <1>2, <1>3, <1>4 DEF Budget

Active(c) == pc[c] \in {"request", "backoff"}

\* Under the anthropic provider the n-th call of complete ends within n times
\* the timeout.  A call that is under way has not outlived its own context.
IInv ==
  /\ TypeOK
  /\ StructuredIsHonest
  /\ \A c \in Call :
       /\ Active(c) => t[c] <= until[c]
       /\ pc[c] = "backoff" => attempt[c] < 2
       /\ ~openai => /\ pc[c] = "run" => t[c] <= Budget(retry[c])
                     /\ Active(c) => until[c] <= Budget(retry[c] + 1)
                     /\ pc[c] = "returned" => t[c] <= Budget(retry[c] + 1)

\* The invariant holds when no call has begun.
LEMMA InitIInv == Init => IInv
<1> SUFFICES ASSUME Init PROVE IInv
  OBVIOUS
<1> USE EvaluatorAssumption
<1>0. downgraded \in BOOLEAN /\ (downgraded => openai /\ setting = "auto")
  <2>1. CASE downgraded = FALSE
    BY <2>1
  <2>2. CASE openai /\ setting = "auto" /\ downgraded = TRUE
    BY <2>2
  <2> QED
    BY <2>1, <2>2 DEF Init
<1>1. TypeOK
  BY <1>0 DEF Init, TypeOK, effectiveMode
<1>2. StructuredIsHonest
  BY DEF Init, StructuredIsHonest, structured, effectiveMode
<1> QED
  BY <1>1, <1>2, BudgetFacts DEF Init, IInv, Active

\* The bounds of a call that is about to begin or of a request that is made.
LEMMA Bounds ==
  ASSUME TypeOK, NEW c \in Call
  PROVE  /\ completeBound(c) \in 0..Deadline /\ t[c] <= completeBound(c)
         /\ ~openai => completeBound(c) <= t[c] + Timeout
         /\ requestBound(c) \in 0..Deadline /\ requestBound(c) <= until[c]
         /\ t[c] <= until[c] => t[c] <= requestBound(c)
BY EvaluatorAssumption DEF TypeOK, completeBound, requestBound, Min2

\* One step: complete starts with a fresh bound, a request ends within its own,
\* and a backoff that would end later is cut off.
LEMMA NextIInv == IInv /\ [Next]_vars => IInv'
<1> SUFFICES ASSUME IInv, [Next]_vars PROVE IInv'
  OBVIOUS
<1> USE EvaluatorAssumption
<1>t. TypeOK
  BY DEF IInv
<1>u. provider' = provider /\ setting' = setting
  BY DEF Next, run, vars, config, Complete, AnswersValid, AnswersInvalid, RequestFails,
     SchemaRejected, NoToolCall, BackoffExpires, Retries
<1>o. openai' <=> openai
  BY <1>u DEF openai
<1>1. ASSUME NEW c \in Call, Complete(c) PROVE IInv'
  <2>1. TypeOK'
    BY <1>1, <1>t, <1>u, <1>o, Bounds DEF Complete, TypeOK, effectiveMode
  <2>2. StructuredIsHonest'
    BY <1>1, <1>t, <1>u, <1>o DEF IInv, Complete, TypeOK, StructuredIsHonest, structured, effectiveMode
  <2>3. retry[c] \in Nat /\ t[c] \in Nat /\ Budget(retry[c]) \in Nat
    BY <1>t, <1>u, <1>o, BudgetFacts DEF TypeOK
  <2>4. until'[c] = completeBound(c) /\ t' = t /\ retry' = retry /\ pc[c] = "run"
    BY <1>1, <1>t, <1>u, <1>o DEF Complete, TypeOK
  <2>5. ~openai => until'[c] <= Budget(retry[c] + 1)
    BY <2>3, <2>4, <1>t, <1>u, <1>o, Bounds, BudgetFacts DEF IInv
  <2>6. t[c] <= until'[c]
    BY <2>4, <1>t, <1>u, <1>o, Bounds
  <2> QED
    BY <1>1, <1>t, <1>u, <1>o, <2>1, <2>2, <2>4, <2>5, <2>6 DEF IInv, Complete, TypeOK, Active
<1>2. ASSUME NEW c \in Call, run(c), ~Complete(c), ~Retries(c) PROVE IInv'
  <2>1. Active(c) /\ t[c] <= until[c] /\ until' = until
    BY <1>2 DEF IInv, run, Active, AnswersValid, AnswersInvalid, RequestFails,
       SchemaRejected, NoToolCall, BackoffExpires
  <2>2. PICK e \in 0..Deadline :
          t' = [t EXCEPT ![c] = e] /\ e <= until[c] /\ (pc'[c] = "run" => e <= until[c])
    BY <1>2, <1>t, <1>u, <1>o, <2>1, Bounds DEF run, TypeOK, AnswersValid, AnswersInvalid, RequestFails,
       SchemaRejected, NoToolCall, BackoffExpires, AnsweredAt
  <2>3. /\ \A d \in Call \ {c} : pc'[d] = pc[d] /\ retry'[d] = retry[d]
        /\ attempt' = attempt /\ mode' = mode
        /\ \/ retry' = retry /\ pc'[c] \in {"backoff", "returned"}
           \/ retry'[c] = retry[c] + 1 /\ retry[c] < MaxRetries /\ pc'[c] = "run"
        /\ pc'[c] = "backoff" => attempt[c] < 2
        /\ pc' \in [Call -> {"run", "request", "backoff", "returned"}]
        /\ retry' \in [Call -> 0..MaxRetries]
        /\ result' \in [Call -> {"none", "analysis", "degraded", "error"}]
    BY <1>2, <1>t, <1>u, <1>o DEF run, TypeOK, AnswersValid, AnswersInvalid, RequestFails,
       SchemaRejected, NoToolCall, BackoffExpires, AttemptFails, Returns
  <2>4. downgraded' \in BOOLEAN /\ (downgraded' => openai' /\ setting' = "auto")
        /\ (downgraded => downgraded')
    <3>1. CASE openai /\ setting = "auto" /\ downgraded' = TRUE
      BY <3>1, <1>u, <1>o
    <3>2. CASE downgraded' = downgraded
      BY <3>2, <1>t, <1>u, <1>o DEF TypeOK
    <3> QED
      BY <1>2, <3>1, <3>2 DEF run, AnswersValid, AnswersInvalid, RequestFails,
         SchemaRejected, NoToolCall, BackoffExpires, downgrade
  <2>5. TypeOK'
    BY <1>t, <1>u, <1>o, <2>1, <2>2, <2>3, <2>4 DEF TypeOK
  <2>6. StructuredIsHonest'
    BY <1>u, <1>o, <2>3, <2>4 DEF IInv, StructuredIsHonest, structured
  <2>7. t'[c] <= until'[c] /\ \A d \in Call \ {c} : t'[d] = t[d]
    BY <1>t, <1>u, <1>o, <2>1, <2>2 DEF TypeOK
  <2>8. ~openai => until[c] <= Budget(retry[c] + 1)
    BY <2>1 DEF IInv
  <2>9. t'[c] \in Int /\ until[c] \in Int /\ Budget(retry[c] + 1) \in Int
    BY <1>t, <1>u, <1>o, <2>5, BudgetFacts DEF TypeOK
  <2>10. ~openai => t'[c] <= Budget(retry[c] + 1)
    BY <2>1, <2>7, <2>8, <2>9
  <2> QED
    BY <1>o, <2>1, <2>3, <2>5, <2>6, <2>7, <2>8, <2>10 DEF IInv, Active
<1>3. ASSUME NEW c \in Call, Retries(c) PROVE IInv'
  <2>0. t[c] + backoff(c) \in 0..Deadline
    BY <1>3, <1>t, <1>u, <1>o DEF Retries, TypeOK, backoff
  <2>a. attempt[c] + 1 \in 0..2
    BY <1>3, <1>t, <1>u, <1>o DEF IInv, TypeOK, Retries
  <2>1. TypeOK'
    BY <1>3, <1>t, <1>u, <1>o, <2>0, <2>a DEF Retries, TypeOK, effectiveMode
  <2>2. StructuredIsHonest'
    BY <1>3, <1>t, <1>u, <1>o DEF IInv, Retries, TypeOK, StructuredIsHonest, structured, effectiveMode
  <2> QED
    BY <1>3, <1>t, <1>u, <1>o, <2>1, <2>2 DEF IInv, Retries, TypeOK, Active
<1>4. CASE UNCHANGED vars
  BY <1>4, <1>u, <1>o DEF vars, IInv, TypeOK, StructuredIsHonest, structured, Active
<1> QED
  BY <1>1, <1>2, <1>3, <1>4 DEF Next

\* Every reachable state satisfies the invariant.
LEMMA Invariance == Spec => []IInv
BY InitIInv, NextIInv, PTL DEF Spec

\* Every variable keeps its type; in particular no call outlives the pipeline's
\* context and only an openai provider in mode auto is ever downgraded.
THEOREM TypeCorrect == Spec => []TypeOK
<1>1. IInv => TypeOK
  BY DEF IInv
<1> QED
  BY Invariance, <1>1, PTL

\* With the anthropic provider, evaluation leaves time for delivery whenever
\* LLM_TIMEOUT times one more than LLM_MAX_RETRIES is less than the deadline.
THEOREM AnthropicLeavesTime ==
  ASSUME (MaxRetries + 1) * Timeout < Deadline
  PROVE  Spec => []DeadlineLeft
<1>1. IInv => DeadlineLeft
  <2> SUFFICES ASSUME IInv, ~openai, NEW c \in Call, pc[c] = "returned" PROVE t[c] < Deadline
    BY DEF DeadlineLeft
  <2>1. retry[c] \in 0..MaxRetries /\ t[c] \in Nat
    BY DEF IInv, TypeOK
  <2>2. t[c] <= Budget(retry[c] + 1)
    BY DEF IInv
  <2>3. Budget(retry[c] + 1) <= Budget(MaxRetries + 1)
    BY <2>1, BudgetMonotone, EvaluatorAssumption
  <2>4. Budget(MaxRetries + 1) < Deadline
    BY DEF Budget
  <2>5. Budget(retry[c] + 1) \in Nat /\ Budget(MaxRetries + 1) \in Nat
    BY <2>1, BudgetFacts, EvaluatorAssumption
  <2> QED
    BY <2>1, <2>2, <2>3, <2>4, <2>5, EvaluatorAssumption
<1> QED
  BY Invariance, <1>1, PTL

\* structured never claims a schema while a request without one is under way,
\* for any number of concurrent calls.
THEOREM HonestStructured == Spec => []StructuredIsHonest
<1>1. IInv => StructuredIsHonest
  BY DEF IInv
<1> QED
  BY Invariance, <1>1, PTL
=============================================================================
