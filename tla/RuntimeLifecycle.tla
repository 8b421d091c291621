-------------------------- MODULE RuntimeLifecycle --------------------------
(***************************************************************************)
(* The process from start to exit: the steps of BuildRuntime, each of      *)
(* which may fail and release what earlier ones opened, the requests       *)
(* served, and the shutdown against those still in flight.                 *)
(***************************************************************************)
EXTENDS Naturals, Sequences, FiniteSets

CONSTANTS
  Requests,   \* the requests clients may send
  PoolSize    \* connections the pool may hold

ASSUME LifecycleAssumption == IsFiniteSet(Requests) /\ PoolSize \in Nat \ {0}

VARIABLES
  pc,         \* the main goroutine: a step of the start, or of what follows
  otel,       \* is telemetry enabled
  held,       \* the resources open
  signalled,  \* has SIGTERM or SIGINT come
  listening,  \* does the server accept requests
  expired,    \* has the grace period ended
  failed,     \* has a step of the shutdown, or the server, returned an error
  req,        \* each request: its place, or how it ended
  conn,       \* the requests with a connection of the pool
  hung,       \* does the database no longer answer
  exit        \* the exit code

vars == <<pc, otel, held, signalled, listening, expired, failed, req, conn, hung, exit>>

\* BuildRuntime's steps, after main's config.Load.
Steps == <<"config", "mode lock", "logger", "resource", "trace exporter", "sampler",
           "metric exporter", "pool", "migrate", "collector", "repositories", "capabilities",
           "metrics", "adapters", "chaos", "provenance", "services">>
OTelSteps == {"resource", "trace exporter", "sampler", "metric exporter"}
Telemetry == {"trace exporter", "tracer", "meter"}
Resources == Telemetry \cup {"pool", "collector"}

\* What a step that succeeds opens.
Opens(step) ==
  CASE step = "trace exporter" -> {"trace exporter"}
    [] step = "sampler" -> {"tracer"}
    [] step = "metric exporter" -> {"meter"}
    [] step \in {"pool", "collector"} -> {step}
    [] OTHER -> {}

\* What the SDK's shutdowns close: with a context that has ended, the tracer's
\* returns before its span processor, and with it the exporter, is shut down; the
\* meter's closes all the same.
Closes(over) == IF over THEN {"meter"} ELSE Telemetry

\* Mutant: the branch of a late step forgets the collector.
ReleasesKeepingCollector(step) == Closes(signalled) \cup {"pool"}

\* What the branch of a step that fails releases: nothing is left to release
\* before the exporter exists, SetupOTel cleans up after itself, and the later
\* branches close the collector, the pool and the telemetry.  The context they
\* pass is the signal's.  An exporter shut down by itself closes in any case.
Releases(step) ==
  CASE step \in {"config", "mode lock", "logger", "resource", "trace exporter"} -> {}
    [] step = "sampler" -> {"trace exporter"}
    [] step = "metric exporter" -> {"trace exporter"} \cup (Closes(signalled) \cap {"tracer"})
    [] step = "pool" -> Closes(signalled)
    [] step \in {"migrate", "collector"} -> Closes(signalled) \cup {"pool"}
    [] OTHER -> Closes(signalled) \cup {"pool", "collector"}

\* A request looks its key up, reads a receipt (a replay, or a GET), saves the
\* receipt of a structural failure, or runs its adapter, saves the receipt,
\* records the key and rereads the key's row after a conflict.  It is answered with
\* a receipt or with an error of the database's.
OnCallersContext == {"lookup", "find", "structural"}
OnBackground == {"save", "record", "recheck"}
Statement == OnCallersContext \cup OnBackground
Outcome == {"none", "running", "answered", "hung up", "unsaved", "killed", "cut"} \cup Statement
Open == {r \in Requests : req[r] \in Statement \cup {"running"}}

Init ==
  /\ pc = "config" /\ otel \in BOOLEAN /\ held = {} /\ exit = "none"
  /\ signalled = FALSE /\ listening = FALSE /\ expired = FALSE /\ failed = FALSE /\ hung = FALSE
  /\ req = [r \in Requests |-> "none"] /\ conn = {}

-----------------------------------------------------------------------------
(* Start *)

Runs(step) == pc = step /\ (step = "migrate" => ~hung)

\* The step after the i-th: telemetry's own are skipped when it is disabled.
After(i) ==
  IF i = Len(Steps) THEN "listen"
  ELSE IF ~otel /\ Steps[i + 1] \in OTelSteps THEN "pool" ELSE Steps[i + 1]

StepSucceeds(i) ==
  /\ Runs(Steps[i])
  /\ held' = held \cup Opens(Steps[i])
  /\ pc' = After(i)
  /\ UNCHANGED <<otel, signalled, listening, expired, failed, req, conn, hung, exit>>

StepFails(i) ==
  /\ Runs(Steps[i])
  /\ held' = held \ Releases(Steps[i])
  /\ pc' = "exited" /\ exit' = "1"
  /\ UNCHANGED <<otel, signalled, listening, expired, failed, req, conn, hung>>

\* The goroutine that serves; a signal may already have come.
Listen ==
  /\ pc = "listen"
  /\ pc' = "serve" /\ listening' = TRUE
  /\ UNCHANGED <<otel, held, signalled, expired, failed, req, conn, hung, exit>>

-----------------------------------------------------------------------------
(* Requests *)

\* A key to look up, a receipt to read, or neither.
Accept(r) ==
  /\ listening /\ req[r] = "none"
  /\ \E place \in {"lookup", "find", "structural", "running"} : req' = [req EXCEPT ![r] = place]
  /\ UNCHANGED <<pc, otel, held, signalled, listening, expired, failed, conn, hung, exit>>

\* The adapter has returned and the receipt is to be saved.
AdapterReturns(r) ==
  /\ req[r] = "running" /\ pc # "exited"
  /\ req' = [req EXCEPT ![r] = "save"]
  /\ UNCHANGED <<pc, otel, held, signalled, listening, expired, failed, conn, hung, exit>>

\* What follows a statement that the pool, once closed, refuses: a lookup's error
\* is a miss, a receipt that cannot be saved is lost, the key's row is best effort.
AfterRefusal(place) ==
  CASE place = "lookup" -> {"running", "structural"}
    [] place \in {"structural", "save"} -> {"unsaved"}
    [] OTHER -> {"answered"}

\* A connection of the pool, or, once pool.Close has begun, a refusal.
Acquire(r) ==
  /\ req[r] \in Statement /\ r \notin conn /\ pc # "exited"
  /\ Cardinality(conn) < PoolSize
  /\ \/ /\ pc # "close pool"
        /\ conn' = conn \cup {r} /\ UNCHANGED req
     \/ /\ pc = "close pool"
        /\ \E place \in AfterRefusal(req[r]) : req' = [req EXCEPT ![r] = place]
        /\ UNCHANGED conn
  /\ UNCHANGED <<pc, otel, held, signalled, listening, expired, failed, hung, exit>>

\* What follows a statement that has returned.
AfterStatement(place) ==
  CASE place = "lookup" -> {"find", "running", "structural"}
    [] place = "save" -> {"record", "answered"}
    [] place = "record" -> {"recheck", "answered"}
    [] OTHER -> {"answered"}

\* No statement has a deadline of its own: a database that hangs keeps it.
StatementReturns(r) ==
  /\ r \in conn /\ ~hung /\ pc # "exited"
  /\ conn' = conn \ {r}
  /\ \E place \in AfterStatement(req[r]) : req' = [req EXCEPT ![r] = place]
  /\ UNCHANGED <<pc, otel, held, signalled, listening, expired, failed, hung, exit>>

\* The client hangs up.  The caller's context ends a statement on it, hung or not;
\* after a lookup the adapter is still run, or a structural failure not saved.
Interrupted(r) ==
  /\ req[r] \in OnCallersContext /\ pc # "exited"
  /\ conn' = conn \ {r}
  /\ \E place \in {"hung up"} \cup IF req[r] = "lookup" THEN {"running"} ELSE {} :
       req' = [req EXCEPT ![r] = place]
  /\ UNCHANGED <<pc, otel, held, signalled, listening, expired, failed, hung, exit>>

DatabaseHangs ==
  /\ ~hung /\ hung' = TRUE
  /\ UNCHANGED <<pc, otel, held, signalled, listening, expired, failed, req, conn, exit>>

-----------------------------------------------------------------------------
(* Shutdown *)

\* Only the first signal counts, and it is noticed at the select.
Signal ==
  /\ ~signalled /\ pc # "exited" /\ signalled' = TRUE
  /\ UNCHANGED <<pc, otel, held, listening, expired, failed, req, conn, hung, exit>>

\* The select of run: Shutdown begins and the listener is closed at once.
SignalNoticed ==
  /\ pc = "serve" /\ signalled
  /\ pc' = "drain" /\ listening' = FALSE
  /\ UNCHANGED <<otel, held, signalled, expired, failed, req, conn, hung, exit>>

ServerFails ==
  /\ pc = "serve"
  /\ pc' = "drain" /\ listening' = FALSE /\ failed' = TRUE
  /\ UNCHANGED <<otel, held, signalled, expired, req, conn, hung, exit>>

\* Mutant: the handlers in flight are not waited for.
DrainedAtOnce == TRUE

\* server.Shutdown waits for the handlers.
Drained == Open = {}

\* The timer of the context that the steps of the shutdown share.
GraceEnds ==
  /\ pc \in {"drain", "close collector", "close telemetry"} /\ ~expired
  /\ expired' = TRUE
  /\ UNCHANGED <<pc, otel, held, signalled, listening, failed, req, conn, hung, exit>>

DrainEnds ==
  /\ pc = "drain" /\ Drained
  /\ pc' = "close collector"
  /\ UNCHANGED <<otel, held, signalled, listening, expired, failed, req, conn, hung, exit>>

\* Mutant: the drain has no deadline.
DrainExpiresNever == FALSE /\ UNCHANGED vars

\* Shutdown polls: handlers may have ended since it last looked.
DrainExpires ==
  /\ pc = "drain" /\ expired
  /\ pc' = "close collector" /\ failed' = TRUE
  /\ UNCHANGED <<otel, held, signalled, listening, expired, req, conn, hung, exit>>

\* Both may fail; the sequence goes on.  A context that has ended fails the
\* tracer's shutdown before it flushes or closes anything.
CloseCollector ==
  /\ pc = "close collector"
  /\ pc' = "close telemetry" /\ held' = held \ {"collector"}
  /\ failed' \in {failed, TRUE}
  /\ UNCHANGED <<otel, signalled, listening, expired, req, conn, hung, exit>>

CloseTelemetry ==
  /\ pc = "close telemetry"
  /\ pc' = "close pool" /\ held' = held \ Closes(expired)
  /\ failed' \in IF otel /\ expired THEN {TRUE} ELSE {failed, TRUE}
  /\ UNCHANGED <<otel, signalled, listening, expired, req, conn, hung, exit>>

\* pool.Close waits, without a deadline, for every connection in use.
Closable == conn = {}

\* The pool is closed, the process exits and whatever still runs ends with it.
ClosePool ==
  /\ pc = "close pool" /\ Closable
  /\ held' = held \ {"pool"}
  /\ pc' = "exited" /\ exit' = IF failed THEN "1" ELSE "0"
  /\ req' = [r \in Requests |-> IF r \in conn THEN "cut"
                              ELSE IF r \in Open THEN "killed" ELSE req[r]]
  /\ conn' = {}
  /\ UNCHANGED <<otel, signalled, listening, expired, failed, hung>>

Main ==
  \/ \E i \in DOMAIN Steps : StepSucceeds(i) \/ StepFails(i)
  \/ Listen \/ SignalNoticed \/ ServerFails \/ DrainEnds \/ DrainExpires
  \/ CloseCollector \/ CloseTelemetry \/ ClosePool

Next ==
  \/ Main \/ Signal \/ DatabaseHangs \/ GraceEnds
  \/ \E r \in Requests : \/ Accept(r) \/ AdapterReturns(r) \/ Acquire(r)
                         \/ StatementReturns(r) \/ Interrupted(r)

\* The main goroutine and the timer of the grace period are scheduled, and a
\* database that has not hung answers.  An adapter need not return.
Fairness ==
  /\ \A i \in DOMAIN Steps : WF_vars(StepSucceeds(i) \/ StepFails(i))
  /\ WF_vars(Listen) /\ WF_vars(SignalNoticed) /\ WF_vars(GraceEnds) /\ WF_vars(DrainEnds \/ DrainExpires)
  /\ WF_vars(CloseCollector) /\ WF_vars(CloseTelemetry) /\ WF_vars(ClosePool)
  /\ \A r \in Requests : WF_vars(StatementReturns(r))

Spec == Init /\ [][Next]_vars /\ Fairness

-----------------------------------------------------------------------------
(* Properties *)

\* Every way out of the process, a failure at any step of the start included,
\* leaves neither the callback nor the pool nor the meter open.  Spans that are not
\* flushed, with the tracer and its exporter open, mean that the context for the
\* clean-up had ended, by a signal during the start or by the end of the grace
\* period, and the exit code is then 1.  The callback that reads the pool's
\* statistics is never registered over a pool that is gone.
NothingLeftOpen ==
  /\ pc = "exited" => held \subseteq {"trace exporter", "tracer"}
  /\ pc = "exited" /\ held # {} => exit = "1" /\ IF failed THEN expired ELSE signalled
  /\ "collector" \in held => "pool" \in held

\* Shutdown costs an accepted request its receipt or its answer only once the
\* grace period is over, and then the exit code says so: an exit with 0 has
\* answered every client that waited.  Even then a statement that has its
\* connection is not cut short.
LostOnlyAfterGrace ==
  /\ \A r \in Requests : req[r] \in {"unsaved", "killed"} => expired /\ exit # "0"
  /\ \A r \in Requests : req[r] # "cut"
  /\ exit = "0" => \A r \in Requests : req[r] \in {"none", "answered", "hung up"}

\* The only way a signalled process does not exit: the database hangs during the
\* migrations, or with a statement in a connection that pool.Close waits for.
Stuck == hung /\ (pc = "migrate" \/ (pc = "close pool" /\ conn # {}))

\* A signal, even one during the start, ends the process whatever the adapters
\* do, unless it is stuck on the database for good.
SignalEndsProcess == <>signalled => (<>(pc = "exited") \/ <>[]Stuck)
=============================================================================
