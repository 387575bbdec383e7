------------------------------ MODULE Shutdown ------------------------------
(***************************************************************************)
(* The life of an accepted alert across a graceful shutdown: the ingest    *)
(* handler's goroutines and WaitGroup (internal/ingest/handler.go), the    *)
(* entry point of the pipeline (Process in internal/pipeline/pipeline.go), *)
(* the correlator (module Correlator) and the shutdown sequence at the end *)
(* of run (cmd/muthur/main.go).                                            *)
(*                                                                         *)
(* An alert's field via is the transport its request uses, "signed" or     *)
(* "grpc".  The verdict of the deduplicator is a free choice here.  What   *)
(* the pipeline does with one alert or one incident (evaluate, record,     *)
(* deliver) is one step, at whose end the notification has been sent; an   *)
(* exit before that step loses it.                                         *)
(***************************************************************************)
EXTENDS Correlator

CONSTANT
  Enabled            \* CorrelationConfig.Enabled

ASSUME ShutdownAssumption ==
  /\ Enabled \in BOOLEAN
  /\ \A p \in Alert : p.via \in {"signed", "grpc"}

VARIABLES
  stage,      \* alert -> where its request or its goroutine is
  wg,         \* counter of the handler's WaitGroup
  main,       \* program counter of run, from the serving select on
  deadline,   \* shCtx, the 30 s shutdown context, has expired
  waited,     \* ingestH.Wait has returned and done is closed
  late        \* history: alerts added to the correlator after Drain began

mainVars == <<main, deadline, waited>>
allVars == <<vars, stage, wg, mainVars, late>>

Exited == main \in {"failed", "clean", "timedout"}

\* Process: resolved alerts bypass correlation, and so does everything when it
\* is disabled.
Bypasses(p) == p.status = "resolved" \/ ~Enabled

\* The listener of transport x is open: run closes them one after the other.
Listening(x) ==
  \/ main \in {"serving", "closing public"}
  \/ main = "closing signed" /\ x = "grpc"

\* A handler of transport x is running.
Busy(x) == \E p \in Alert : stage[p] = "request" /\ p.via = x

ShutdownInit ==
  /\ Init
  /\ stage = [p \in Alert |-> "none"]
  /\ wg = 0
  /\ main = "serving"
  /\ deadline = FALSE
  /\ waited = FALSE
  /\ late = {}
-----------------------------------------------------------------------------
(* The transports and the ingest handler. *)

\* A listener accepts the request that carries p; its handler starts.
RequestArrives(p) ==
  /\ Listening(p.via)
  /\ stage[p] = "none"
  /\ stage' = [stage EXCEPT ![p] = "request"]
  /\ UNCHANGED <<vars, wg, mainVars, late>>

\* The request fails before or in Ingest: not authenticated, replayed, or the
\* payload names another cluster.
RequestRejected(p) ==
  /\ ~Exited
  /\ stage[p] = "request"
  /\ stage' = [stage EXCEPT ![p] = "refused"]
  /\ UNCHANGED <<vars, wg, mainVars, late>>

\* Handler.Ingest: wg.Add(1), start the goroutine, acknowledge the request.
Ingest(p) ==
  /\ ~Exited
  /\ stage[p] = "request"
  /\ stage' = [stage EXCEPT ![p] = "queued"]
  /\ wg' = wg + 1
  /\ UNCHANGED <<vars, mainVars, late>>
-----------------------------------------------------------------------------
(* Pipeline.Process in the alert's goroutine; wg.Done is its last step. *)

\* IsDuplicate or IsDuplicateResolved: the alert is dropped.
ProcessDuplicate(p) ==
  /\ ~Exited
  /\ stage[p] = "queued"
  /\ stage' = [stage EXCEPT ![p] = "duplicate"]
  /\ wg' = wg - 1
  /\ UNCHANGED <<vars, mainVars, late>>

\* correlator.Add: the goroutine ends, the alert stays in its bucket.
ProcessBuffers(p) ==
  /\ ~Exited
  /\ stage[p] = "queued"
  /\ ~Bypasses(p)
  /\ AddOpens(p) \/ AddJoins(p)
  /\ stage' = [stage EXCEPT ![p] = "buffered"]
  /\ wg' = wg - 1
  /\ late' = IF drain = "idle" THEN late ELSE late \cup {p}
  /\ UNCHANGED mainVars

\* processResolved or processSingle begins.
ProcessDirect(p) ==
  /\ ~Exited
  /\ stage[p] = "queued"
  /\ Bypasses(p)
  /\ stage' = [stage EXCEPT ![p] = "direct"]
  /\ UNCHANGED <<vars, wg, mainVars, late>>

\* processResolved or processSingle returns, the alert having been delivered.
DeliverDirect(p) ==
  /\ ~Exited
  /\ stage[p] = "direct"
  /\ stage' = [stage EXCEPT ![p] = "delivered"]
  /\ wg' = wg - 1
  /\ UNCHANGED <<vars, mainVars, late>>

\* The timers of the correlator.
TimerStep(t) ==
  /\ ~Exited
  /\ TimerExpires(t) \/ TimerTakes(t) \/ TimerFlushes(t)
  /\ UNCHANGED <<stage, wg, mainVars, late>>
-----------------------------------------------------------------------------
(* The end of run. *)

\* A listener fails: run returns at once, without draining.
ServeFails ==
  /\ main = "serving"
  /\ main' = "failed"
  /\ UNCHANGED <<vars, stage, wg, deadline, waited, late>>

\* SIGTERM or SIGINT: the select returns, shCtx starts, the public server's
\* Shutdown is called.
Signal ==
  /\ main = "serving"
  /\ main' = "closing public"
  /\ UNCHANGED <<vars, stage, wg, deadline, waited, late>>

\* shCtx expires.
DeadlinePasses ==
  /\ main \in {"closing public", "closing signed", "closing grpc", "draining",
               "waiting"}
  /\ ~deadline
  /\ deadline' = TRUE
  /\ UNCHANGED <<vars, stage, wg, main, waited, late>>

\* The public server's Shutdown returns, when its requests (none of them an
\* alert) are over or shCtx expires; the signed server's Shutdown is called.
PublicClosed ==
  /\ main = "closing public"
  /\ main' = "closing signed"
  /\ UNCHANGED <<vars, stage, wg, deadline, waited, late>>

\* The signed server's Shutdown returns, when none of its requests is being
\* handled or shCtx expires; GracefulStop is called.
SignedClosed ==
  /\ main = "closing signed"
  /\ deadline \/ ~Busy("signed")
  /\ main' = "closing grpc"
  /\ UNCHANGED <<vars, stage, wg, deadline, waited, late>>

\* Mutation: GracefulStop is awaited without the shutdown context.
GRPCClosed_NoDeadline ==
  /\ main = "closing grpc"
  /\ ~Busy("grpc")
  /\ main' = "draining"
  /\ UNCHANGED <<vars, stage, wg, deadline, waited, late>>

\* GracefulStop returns, or shCtx expires and Stop is called.
GRPCClosed ==
  /\ main = "closing grpc"
  /\ deadline \/ ~Busy("grpc")
  /\ main' = "draining"
  /\ UNCHANGED <<vars, stage, wg, deadline, waited, late>>

\* pipe.Drain(), step by step; it ignores shCtx.
MainDrains ==
  /\ main = "draining"
  /\ DrainBegins \/ DrainSteps
  /\ main' = IF drain' = "done" THEN "waiting" ELSE main
  /\ UNCHANGED <<stage, wg, deadline, waited, late>>

\* Mutation: the waiting goroutine does not look at the WaitGroup.
WaitReturns_TooEarly ==
  /\ main = "waiting"
  /\ ~waited
  /\ waited' = TRUE
  /\ UNCHANGED <<vars, stage, wg, main, deadline, late>>

\* ingestH.Wait() returns in its goroutine, which closes done.
WaitReturns ==
  /\ main = "waiting"
  /\ ~waited
  /\ wg = 0
  /\ waited' = TRUE
  /\ UNCHANGED <<vars, stage, wg, main, deadline, late>>

\* The last select: "drained cleanly".
ExitClean ==
  /\ main = "waiting"
  /\ waited
  /\ main' = "clean"
  /\ UNCHANGED <<vars, stage, wg, deadline, waited, late>>

\* The last select: "drain timed out, exiting with in-flight work".
ExitTimedOut ==
  /\ main = "waiting"
  /\ deadline
  /\ main' = "timedout"
  /\ UNCHANGED <<vars, stage, wg, deadline, waited, late>>

MainSteps ==
  \/ PublicClosed
  \/ SignedClosed
  \/ GRPCClosed
  \/ MainDrains
  \/ WaitReturns
  \/ ExitClean
  \/ ExitTimedOut

ShutdownNext ==
  \/ \E p \in Alert : \/ RequestArrives(p) \/ RequestRejected(p) \/ Ingest(p)
                      \/ ProcessDuplicate(p) \/ ProcessBuffers(p)
                      \/ ProcessDirect(p) \/ DeliverDirect(p)
                      \/ TimerStep(p)
  \/ ServeFails
  \/ Signal
  \/ DeadlinePasses
  \/ MainSteps

\* main and the shutdown context make progress; a request may hang on its
\* client for ever (no server sets a read timeout), and no goroutine of
\* the pipeline is assumed to finish.
ShutdownFairness ==
  /\ WF_allVars(MainSteps)
  /\ WF_allVars(DeadlinePasses)

ShutdownSafeSpec == ShutdownInit /\ [][ShutdownNext]_allVars
ShutdownSpec == ShutdownSafeSpec /\ ShutdownFairness
-----------------------------------------------------------------------------
\* The alert has been acknowledged to the collector, is no duplicate, and has
\* not been part of a finished delivery.
Undelivered(p) ==
  \/ stage[p] \in {"queued", "direct"}
  \/ /\ stage[p] = "buffered"
     /\ \A b \in Alert : p \in Range(alerts[b]) => flushes[b] = 0

\* "Stop accepting new requests ..., flush buffered incidents, then wait for
\* in-flight processing to drain" (main.go:352-353).  What the sequence guarantees
\* when run reports "drained cleanly" within the deadline: an acknowledged alert
\* that is lost all the same was added after Drain began, was in the hands of a
\* timer goroutine, which nobody waits for, or sat in a displaced bucket.
\* Anything else that was buffered, queued or in direct processing has been
\* delivered.
CleanExitLossIsExplained ==
  main = "clean" /\ ~deadline =>
    \A p \in Alert : Undelivered(p) =>
      /\ stage[p] = "buffered"
      /\ \/ p \in late
         \/ \E b \in Alert : /\ p \in Range(alerts[b])
                             /\ \/ Displaced(b)
                                \/ \E t \in Alert : taken[t] = b

\* Shutdown terminates: neither a hanging request, nor alerts that keep arriving
\* in the correlator, nor a goroutine that never finishes keeps main from
\* returning (main.go:349-382).
ShutdownTerminates == main = "closing public" ~> Exited
=============================================================================
