----------------------- MODULE RuntimeLifecycleProofs -----------------------
(***************************************************************************)
(* Proofs about RuntimeLifecycle, for any set of requests and any size of  *)
(* the pool: Orderly is an inductive invariant, and the two invariants     *)
(* that TLC checks on an instance follow from it.                          *)
(***************************************************************************)
EXTENDS RuntimeLifecycle, TLAPS

\* The places of the start, by what may be open when they are reached.
Early == {"config", "mode lock", "logger", "resource", "trace exporter"}
Late == {"repositories", "capabilities", "metrics", "adapters", "chaos", "provenance", "services"}
Serving == {"listen", "serve", "drain", "close collector"}
Closing == {"close collector", "close telemetry", "close pool"}
Places == Early \cup {"sampler", "metric exporter", "pool", "migrate", "collector"} \cup Late
            \cup Serving \cup Closing \cup {"exited"}

LifecycleTyped ==
  /\ pc \in Places /\ otel \in BOOLEAN /\ held \subseteq Resources
  /\ signalled \in BOOLEAN /\ listening \in BOOLEAN /\ expired \in BOOLEAN /\ failed \in BOOLEAN
  /\ req \in [Requests -> Outcome] /\ conn \subseteq Requests
  /\ hung \in BOOLEAN /\ exit \in {"none", "0", "1"}

\* Each place of the start bounds what is open there by what the branch of a
\* failure at that place releases, and the shutdown by what it has yet to close;
\* after a clean-up with a context that had ended, spans and exporter are left.
Unflushed == {"trace exporter", "tracer"}
HeldInOrder ==
  /\ pc \in Early => held = {}
  /\ pc = "sampler" => held \subseteq {"trace exporter"}
  /\ pc = "metric exporter" => held \subseteq {"trace exporter", "tracer"}
  /\ pc = "pool" => held \subseteq Telemetry
  /\ pc \in {"migrate", "collector"} => held \subseteq Telemetry \cup {"pool"}
  /\ pc \in {"migrate", "collector"} \cup Late \cup Serving => "pool" \in held
  /\ pc = "close telemetry" => "collector" \notin held
  /\ pc \in OTelSteps \/ held \cap Telemetry # {} => otel
  /\ pc = "close pool" => held \subseteq {"pool"} \cup Unflushed
  /\ pc = "close pool" /\ held \cap Unflushed # {} => expired /\ failed
  /\ pc = "exited" => held \subseteq Unflushed
  /\ pc = "exited" /\ held # {} => exit = "1" /\ IF failed THEN expired ELSE signalled

\* Requests come in only while main waits in its select; the shutdown goes on
\* with requests open only when the grace period has expired, which is an error
\* that the exit code reports.
DrainedInOrder ==
  /\ listening => pc = "serve"
  /\ pc \notin {"drain", "exited"} \cup Closing => ~failed /\ ~expired
  /\ pc \in Closing /\ ~(expired /\ failed) =>
       \A r \in Requests : req[r] \notin Statement \cup {"running", "unsaved"}
  /\ \A r \in Requests : /\ req[r] = "unsaved" => pc \in {"close pool", "exited"}
                         /\ req[r] = "killed" => pc = "exited"
  /\ \A r \in conn : req[r] \in Statement
  /\ exit = "none" <=> pc # "exited"
  /\ exit = "0" => ~failed

Orderly == LifecycleTyped /\ HeldInOrder /\ DrainedInOrder /\ LostOnlyAfterGrace

LEMMA OrderlyInit == Init => Orderly
  BY DEF Init, Orderly, LifecycleTyped, HeldInOrder, DrainedInOrder, LostOnlyAfterGrace, Places,
         Early, Late, Serving, Closing, Resources, Telemetry, OTelSteps, Unflushed, Outcome

-----------------------------------------------------------------------------
(* The start *)

\* BuildRuntime's steps by number.
LEMMA Schedule ==
  /\ DOMAIN Steps = 1 .. 17 /\ Len(Steps) = 17
  /\ Steps[1] = "config" /\ Steps[2] = "mode lock" /\ Steps[3] = "logger"
  /\ Steps[4] = "resource" /\ Steps[5] = "trace exporter" /\ Steps[6] = "sampler"
  /\ Steps[7] = "metric exporter" /\ Steps[8] = "pool" /\ Steps[9] = "migrate"
  /\ Steps[10] = "collector" /\ Steps[11] = "repositories" /\ Steps[12] = "capabilities"
  /\ Steps[13] = "metrics" /\ Steps[14] = "adapters" /\ Steps[15] = "chaos"
  /\ Steps[16] = "provenance" /\ Steps[17] = "services"
  BY DEF Steps

\* Where a step that succeeds leads.
LEMMA Follows ==
  ASSUME NEW i \in DOMAIN Steps
  PROVE  /\ Steps[i] \in Early \cup {"sampler", "metric exporter", "pool", "migrate", "collector"} \cup Late
         /\ Steps[i] \in Early \ {"trace exporter"} => After(i) \in Early \cup {"pool"}
         /\ Steps[i] = "trace exporter" => After(i) \in {"sampler", "pool"}
         /\ Steps[i] = "sampler" => After(i) \in {"metric exporter", "pool"}
         /\ Steps[i] = "metric exporter" => After(i) = "pool"
         /\ Steps[i] = "pool" => After(i) = "migrate"
         /\ Steps[i] = "migrate" => After(i) = "collector"
         /\ Steps[i] = "collector" => After(i) \in Late
         /\ Steps[i] \in Late => After(i) \in Late \cup {"listen"}
         /\ After(i) \in OTelSteps => otel
<1>1. i \in 1 .. 17
  BY Schedule
<1>2. i = 17 => After(i) = "listen"
  BY Schedule DEF After
<1>3. i # 17 => After(i) \in {"pool", Steps[i + 1]}
  BY Schedule DEF After
<1>4. i # 17 /\ Steps[i + 1] \notin OTelSteps => After(i) = Steps[i + 1]
  BY Schedule DEF After
<1>5. \/ i = 1 \/ i = 2 \/ i = 3 \/ i = 4 \/ i = 5 \/ i = 6 \/ i = 7 \/ i = 8 \/ i = 9
      \/ i = 10 \/ i = 11 \/ i = 12 \/ i = 13 \/ i = 14 \/ i = 15 \/ i = 16 \/ i = 17
  BY <1>1
<1>6. i = 1 => Steps[i] = "config" /\ After(i) = "mode lock"
  <2>1. i = 1 => Steps[i + 1] = Steps[2]
    OBVIOUS
  <2> QED
    BY <2>1, <1>4, Schedule DEF OTelSteps
<1>7. i = 2 => Steps[i] = "mode lock" /\ After(i) = "logger"
  <2>1. i = 2 => Steps[i + 1] = Steps[3]
    OBVIOUS
  <2> QED
    BY <2>1, <1>4, Schedule DEF OTelSteps
<1>8. i = 3 => Steps[i] = "logger" /\ After(i) \in {"pool", "resource"}
  <2>1. i = 3 => Steps[i + 1] = Steps[4]
    OBVIOUS
  <2> QED
    BY <2>1, <1>3, Schedule
<1>9. i = 4 => Steps[i] = "resource" /\ After(i) \in {"pool", "trace exporter"}
  <2>1. i = 4 => Steps[i + 1] = Steps[5]
    OBVIOUS
  <2> QED
    BY <2>1, <1>3, Schedule
<1>10. i = 5 => Steps[i] = "trace exporter" /\ After(i) \in {"pool", "sampler"}
  <2>1. i = 5 => Steps[i + 1] = Steps[6]
    OBVIOUS
  <2> QED
    BY <2>1, <1>3, Schedule
<1>11. i = 6 => Steps[i] = "sampler" /\ After(i) \in {"pool", "metric exporter"}
  <2>1. i = 6 => Steps[i + 1] = Steps[7]
    OBVIOUS
  <2> QED
    BY <2>1, <1>3, Schedule
<1>12. i = 7 => Steps[i] = "metric exporter" /\ After(i) = "pool"
  <2>1. i = 7 => Steps[i + 1] = Steps[8]
    OBVIOUS
  <2> QED
    BY <2>1, <1>4, Schedule DEF OTelSteps
<1>13. i = 8 => Steps[i] = "pool" /\ After(i) = "migrate"
  <2>1. i = 8 => Steps[i + 1] = Steps[9]
    OBVIOUS
  <2> QED
    BY <2>1, <1>4, Schedule DEF OTelSteps
<1>14. i = 9 => Steps[i] = "migrate" /\ After(i) = "collector"
  <2>1. i = 9 => Steps[i + 1] = Steps[10]
    OBVIOUS
  <2> QED
    BY <2>1, <1>4, Schedule DEF OTelSteps
<1>15. i = 10 => Steps[i] = "collector" /\ After(i) = "repositories"
  <2>1. i = 10 => Steps[i + 1] = Steps[11]
    OBVIOUS
  <2> QED
    BY <2>1, <1>4, Schedule DEF OTelSteps
<1>16. i = 11 => Steps[i] = "repositories" /\ After(i) = "capabilities"
  <2>1. i = 11 => Steps[i + 1] = Steps[12]
    OBVIOUS
  <2> QED
    BY <2>1, <1>4, Schedule DEF OTelSteps
<1>17. i = 12 => Steps[i] = "capabilities" /\ After(i) = "metrics"
  <2>1. i = 12 => Steps[i + 1] = Steps[13]
    OBVIOUS
  <2> QED
    BY <2>1, <1>4, Schedule DEF OTelSteps
<1>18. i = 13 => Steps[i] = "metrics" /\ After(i) = "adapters"
  <2>1. i = 13 => Steps[i + 1] = Steps[14]
    OBVIOUS
  <2> QED
    BY <2>1, <1>4, Schedule DEF OTelSteps
<1>19. i = 14 => Steps[i] = "adapters" /\ After(i) = "chaos"
  <2>1. i = 14 => Steps[i + 1] = Steps[15]
    OBVIOUS
  <2> QED
    BY <2>1, <1>4, Schedule DEF OTelSteps
<1>20. i = 15 => Steps[i] = "chaos" /\ After(i) = "provenance"
  <2>1. i = 15 => Steps[i + 1] = Steps[16]
    OBVIOUS
  <2> QED
    BY <2>1, <1>4, Schedule DEF OTelSteps
<1>21. i = 16 => Steps[i] = "provenance" /\ After(i) = "services"
  <2>1. i = 16 => Steps[i + 1] = Steps[17]
    OBVIOUS
  <2> QED
    BY <2>1, <1>4, Schedule DEF OTelSteps
<1>22. i = 17 => Steps[i] = "services" /\ After(i) = "listen"
  BY <1>2, Schedule
<1>23. After(i) \in OTelSteps => otel
  BY DEF After, OTelSteps
<1> QED
  BY <1>23, <1>5, <1>6, <1>7, <1>8, <1>9, <1>10, <1>11, <1>12, <1>13, <1>14, <1>15, <1>16, <1>17, <1>18,
     <1>19, <1>20, <1>21, <1>22 DEF Early, Late

\* A step that succeeds opens no more than the next place allows for.
LEMMA StepSucceedsKeeps ==
  ASSUME Orderly, NEW i \in DOMAIN Steps, StepSucceeds(i)
  PROVE  Orderly'
<1>1. /\ pc = Steps[i] /\ pc' = After(i) /\ held' = held \cup Opens(Steps[i])
      /\ UNCHANGED <<otel, signalled, listening, expired, failed, req, conn, hung, exit>>
  BY DEF StepSucceeds, Runs
<1>2. /\ pc \in Early \cup {"sampler", "metric exporter", "pool", "migrate", "collector"} \cup Late
      /\ pc' \in Early \cup {"sampler", "metric exporter", "pool", "migrate", "collector"} \cup Late
                   \cup {"listen"}
  BY <1>1, Follows DEF Early, Late
<1>3. LifecycleTyped'
  BY <1>1, <1>2 DEF Orderly, LifecycleTyped, Places, Opens, Resources, Telemetry, Serving
<1>4. pc' \in OTelSteps \/ held' \cap Telemetry # {} => otel'
  BY <1>1, Follows DEF Orderly, HeldInOrder, Opens, OTelSteps, Telemetry
<1>5. HeldInOrder'
  <2>1. CASE pc \in Early \ {"trace exporter"}
    <3>1. held' = {} /\ pc' \in Early \cup {"pool"}
      BY <1>1, <2>1, Follows DEF Orderly, HeldInOrder, Opens, Early
    <3> QED
      BY <1>4, <3>1 DEF HeldInOrder, Early, Late, Serving
  <2>2. CASE pc = "trace exporter"
    <3>1. held' = {"trace exporter"} /\ pc' \in {"sampler", "pool"}
      BY <1>1, <2>2, Follows DEF Orderly, HeldInOrder, Opens, Early
    <3> QED
      BY <1>4, <3>1 DEF HeldInOrder, Early, Late, Serving, Telemetry
  <2>3. CASE pc = "sampler"
    <3>1. held' \subseteq {"trace exporter", "tracer"} /\ pc' \in {"metric exporter", "pool"}
      BY <1>1, <2>3, Follows DEF Orderly, HeldInOrder, Opens
    <3> QED
      BY <1>4, <3>1 DEF HeldInOrder, Early, Late, Serving, Telemetry
  <2>4. CASE pc = "metric exporter"
    <3>1. held' \subseteq Telemetry /\ pc' = "pool"
      BY <1>1, <2>4, Follows DEF Orderly, HeldInOrder, Opens, Telemetry
    <3> QED
      BY <1>4, <3>1 DEF HeldInOrder, Early, Late, Serving
  <2>5. CASE pc = "pool"
    <3>1. held' \subseteq Telemetry \cup {"pool"} /\ "pool" \in held' /\ pc' = "migrate"
      BY <1>1, <2>5, Follows DEF Orderly, HeldInOrder, Opens
    <3> QED
      BY <1>4, <3>1 DEF HeldInOrder, Early, Late, Serving
  <2>6. CASE pc = "migrate"
    <3>1. held' \subseteq Telemetry \cup {"pool"} /\ "pool" \in held' /\ pc' = "collector"
      BY <1>1, <2>6, Follows DEF Orderly, HeldInOrder, Opens
    <3> QED
      BY <1>4, <3>1 DEF HeldInOrder, Early, Late, Serving
  <2>7. CASE pc = "collector" \/ pc \in Late
    <3>1. "pool" \in held' /\ pc' \in Late \cup {"listen"}
      BY <1>1, <2>7, Follows DEF Orderly, HeldInOrder, Late
    <3> QED
      BY <1>4, <3>1 DEF HeldInOrder, Early, Late, Serving
  <2> QED
    BY <1>2, <2>1, <2>2, <2>3, <2>4, <2>5, <2>6, <2>7
<1>6. DrainedInOrder' /\ LostOnlyAfterGrace'
  BY <1>1, <1>2 DEF Orderly, DrainedInOrder, LostOnlyAfterGrace, Closing, Early, Late
<1> QED
  BY <1>3, <1>5, <1>6 DEF Orderly

\* The branch of a step that fails releases all that is open there, or, once a
\* signal has come, all but the tracer and its exporter.
LEMMA StepFailsKeeps ==
  ASSUME Orderly, NEW i \in DOMAIN Steps, StepFails(i)
  PROVE  Orderly'
<1>1. /\ pc = Steps[i] /\ pc' = "exited" /\ exit' = "1" /\ held' = held \ Releases(Steps[i])
      /\ UNCHANGED <<otel, signalled, listening, expired, failed, req, conn, hung>>
  BY DEF StepFails, Runs
<1>2. pc \in Early \cup {"sampler", "metric exporter", "pool", "migrate", "collector"} \cup Late
  BY <1>1, Follows
<1>3. held' \subseteq Unflushed /\ (~signalled => held' = {})
  BY <1>1, <1>2 DEF Orderly, LifecycleTyped, HeldInOrder, Releases, Closes, Unflushed, Early, Late,
                    Resources, Telemetry
<1>4. ~failed
  BY <1>2 DEF Orderly, DrainedInOrder, Early, Late, Closing
<1>5. held' \cap Telemetry # {} => otel'
  BY <1>1 DEF Orderly, HeldInOrder
<1>6. LifecycleTyped'
  BY <1>1, <1>3 DEF Orderly, LifecycleTyped, Places, Resources, Telemetry, Unflushed
<1>7. HeldInOrder'
  BY <1>1, <1>3, <1>4, <1>5 DEF Orderly, LifecycleTyped, HeldInOrder, OTelSteps, Early, Late, Serving
<1>8. DrainedInOrder'
  BY <1>1, <1>2 DEF Orderly, DrainedInOrder, Closing, Early, Late
<1>9. LostOnlyAfterGrace'
  BY <1>1 DEF Orderly, LostOnlyAfterGrace
<1> QED
  BY <1>6, <1>7, <1>8, <1>9 DEF Orderly

-----------------------------------------------------------------------------
(* Requests *)

\* What a step of a request does to it.
LEMMA RequestMoves ==
  ASSUME Orderly, NEW r \in Requests,
         Accept(r) \/ AdapterReturns(r) \/ Acquire(r) \/ StatementReturns(r) \/ Interrupted(r)
  PROVE  /\ UNCHANGED <<pc, otel, held, signalled, listening, expired, failed, hung, exit>>
         /\ pc # "exited" /\ conn' \subseteq Requests
         /\ \E place \in Outcome \ {"none", "killed", "cut"} :
              /\ req' = [req EXCEPT ![r] = place]
              /\ place \in Statement \cup {"running", "unsaved"} =>
                   listening \/ req[r] \in Statement \cup {"running"}
              /\ place = "unsaved" => pc = "close pool"
<1>1. CASE Accept(r)
  BY <1>1 DEF Accept, Orderly, LifecycleTyped, DrainedInOrder, Outcome, Statement, OnCallersContext
<1>2. CASE AdapterReturns(r)
  <2>1. "save" \in Statement /\ "save" \in Outcome \ {"none", "killed", "cut"}
    BY DEF Outcome, Statement, OnBackground
  <2> QED
    BY <1>2, <2>1 DEF AdapterReturns, Orderly, LifecycleTyped
<1>3. CASE Acquire(r)
  <2>1. CASE UNCHANGED req
    <3>1. req' = [req EXCEPT ![r] = req[r]] /\ req[r] \in Statement
      BY <1>3, <2>1 DEF Acquire, Orderly, LifecycleTyped
    <3> QED
      BY <1>3, <3>1 DEF Acquire, Orderly, LifecycleTyped, Outcome, Statement, OnCallersContext,
                        OnBackground
  <2>2. CASE pc = "close pool"
    BY <1>3, <2>2 DEF Acquire, AfterRefusal, Orderly, LifecycleTyped, Outcome, Statement,
                      OnCallersContext
  <2> QED
    BY <1>3, <2>1, <2>2 DEF Acquire
<1>4. CASE StatementReturns(r)
  <2>1. req[r] \in Statement
    BY <1>4 DEF StatementReturns, Orderly, DrainedInOrder
  <2> QED
    BY <1>4, <2>1 DEF StatementReturns, AfterStatement, Orderly, LifecycleTyped, Outcome, Statement,
                      OnCallersContext, OnBackground
<1>5. CASE Interrupted(r)
  BY <1>5 DEF Interrupted, Orderly, LifecycleTyped, Outcome, Statement, OnCallersContext
<1> QED
  BY <1>1, <1>2, <1>3, <1>4, <1>5

\* A request that is taken in or moves on: the place of main, what is open and
\* the verdict of the shutdown stay as they are.
LEMMA RequestKeeps ==
  ASSUME Orderly, NEW r \in Requests,
         Accept(r) \/ AdapterReturns(r) \/ Acquire(r) \/ StatementReturns(r) \/ Interrupted(r)
  PROVE  Orderly'
<1>1. /\ UNCHANGED <<pc, otel, held, signalled, listening, expired, failed, hung, exit>>
      /\ pc # "exited" /\ conn' \subseteq Requests
  BY RequestMoves
<1>2. PICK place \in Outcome \ {"none", "killed", "cut"} :
        /\ req' = [req EXCEPT ![r] = place]
        /\ place \in Statement \cup {"running", "unsaved"} =>
             listening \/ req[r] \in Statement \cup {"running"}
        /\ place = "unsaved" => pc = "close pool"
  BY RequestMoves
<1>3. LifecycleTyped'
  <2>1. req' \in [Requests -> Outcome]
    BY <1>2 DEF Orderly, LifecycleTyped
  <2> QED
    BY <1>1, <2>1, Zenon DEF Orderly, LifecycleTyped
<1>4. HeldInOrder'
  BY <1>1, Zenon DEF Orderly, HeldInOrder
<1>5. ASSUME NEW q \in Requests
      PROVE  /\ q # r => req'[q] = req[q]
             /\ req'[r] = place
  BY <1>2 DEF Orderly, LifecycleTyped
<1>6. \A q \in conn' : req'[q] \in Statement
  <2>1. \A q \in conn' : q = r \/ q \in conn
    BY DEF Accept, AdapterReturns, Acquire, StatementReturns, Interrupted
  <2>2. r \in conn' => req'[r] \in Statement
    <3>1. "none" \notin Statement /\ "running" \notin Statement
      BY DEF Statement, OnCallersContext, OnBackground
    <3>2. r \in conn => req[r] \in Statement
      BY DEF Orderly, DrainedInOrder
    <3>3. CASE Accept(r) \/ AdapterReturns(r)
      BY <3>1, <3>2, <3>3 DEF Accept, AdapterReturns
    <3>4. CASE Acquire(r)
      BY <3>4 DEF Acquire
    <3>5. CASE StatementReturns(r) \/ Interrupted(r)
      BY <3>5 DEF StatementReturns, Interrupted
    <3> QED
      BY <3>3, <3>4, <3>5
  <2> QED
    BY <1>1, <1>5, <2>1, <2>2 DEF Orderly, DrainedInOrder
<1>7. pc \in Closing /\ ~(expired /\ failed) =>
        \A q \in Requests : req'[q] \notin Statement \cup {"running", "unsaved"}
  BY <1>2, <1>5 DEF Orderly, DrainedInOrder, Closing
<1>8. DrainedInOrder'
  <2>1. \A q \in Requests : /\ req'[q] = "unsaved" => pc \in {"close pool", "exited"}
                            /\ req'[q] = "killed" => pc = "exited"
    BY <1>2, <1>5 DEF Orderly, DrainedInOrder
  <2> QED
    BY <1>1, <1>6, <1>7, <2>1, Zenon DEF Orderly, DrainedInOrder
<1>9. LostOnlyAfterGrace'
  <2>1. ASSUME NEW q \in Requests
        PROVE  /\ req'[q] \in {"unsaved", "killed"} => expired
               /\ req'[q] # "cut"
    <3>1. CASE q # r
      BY <1>5, <3>1 DEF Orderly, LostOnlyAfterGrace
    <3>2. CASE q = r
      <4>1. place = "unsaved" => pc = "close pool" /\ req[r] \in Statement \cup {"running"}
        BY <1>2 DEF Orderly, DrainedInOrder
      <4> QED
        BY <1>2, <1>5, <3>2, <4>1 DEF Orderly, DrainedInOrder, Closing
    <3> QED
      BY <3>1, <3>2
  <2>2. exit = "none"
    BY <1>1 DEF Orderly, DrainedInOrder
  <2> QED
    BY <1>1, <2>1, <2>2 DEF LostOnlyAfterGrace
<1> QED
  BY <1>3, <1>4, <1>8, <1>9 DEF Orderly

-----------------------------------------------------------------------------
(* Serving and shutdown *)

\* The timer and the steps of main that change neither requests nor exit code.
LEMMA MainKeeps ==
  ASSUME Orderly, Listen \/ SignalNoticed \/ ServerFails \/ DrainEnds \/ DrainExpires
                  \/ CloseCollector \/ CloseTelemetry \/ GraceEnds
  PROVE  Orderly'
<1>1. CASE Listen
  BY <1>1 DEF Listen, Orderly, LifecycleTyped, HeldInOrder, DrainedInOrder, LostOnlyAfterGrace,
              Places, Early, Late, Serving, Closing, OTelSteps, Unflushed
<1>2. CASE SignalNoticed
  BY <1>2 DEF SignalNoticed, Orderly, LifecycleTyped, HeldInOrder, DrainedInOrder,
              LostOnlyAfterGrace, Places, Early, Late, Serving, Closing, OTelSteps, Unflushed
<1>3. CASE ServerFails
  BY <1>3 DEF ServerFails, Orderly, LifecycleTyped, HeldInOrder, DrainedInOrder,
              LostOnlyAfterGrace, Places, Early, Late, Serving, Closing, OTelSteps, Unflushed
<1>4. CASE DrainEnds
  BY <1>4 DEF DrainEnds, Drained, Open, Orderly, LifecycleTyped, HeldInOrder, DrainedInOrder,
              LostOnlyAfterGrace, Places, Early, Late, Serving, Closing, OTelSteps, Unflushed
<1>5. CASE DrainExpires
  BY <1>5 DEF DrainExpires, Orderly, LifecycleTyped, HeldInOrder, DrainedInOrder,
              LostOnlyAfterGrace, Places, Early, Late, Serving, Closing, OTelSteps, Unflushed
<1>6. CASE CloseCollector
  BY <1>6 DEF CloseCollector, Orderly, LifecycleTyped, HeldInOrder, DrainedInOrder,
              LostOnlyAfterGrace, Places, Early, Late, Serving, Closing, OTelSteps, Unflushed
<1>7. CASE CloseTelemetry
  BY <1>7 DEF CloseTelemetry, Orderly, LifecycleTyped, HeldInOrder, DrainedInOrder,
              LostOnlyAfterGrace, Places, Early, Late, Serving, Closing, OTelSteps, Unflushed,
              Resources, Telemetry, Closes
<1>8. CASE GraceEnds
  BY <1>8 DEF GraceEnds, Orderly, LifecycleTyped, HeldInOrder, DrainedInOrder,
              LostOnlyAfterGrace, Places, Early, Late, Serving, Closing, OTelSteps, Unflushed
<1> QED
  BY <1>1, <1>2, <1>3, <1>4, <1>5, <1>6, <1>7, <1>8

\* pool.Close returns with no statement in a connection: none is cut short; what
\* is killed was open, hence past an expired grace period.
LEMMA ClosePoolKeeps ==
  ASSUME Orderly, ClosePool
  PROVE  Orderly'
<1>1. /\ pc = "close pool" /\ pc' = "exited" /\ held' = held \ {"pool"}
      /\ exit' = IF failed THEN "1" ELSE "0"
      /\ conn' = {} /\ UNCHANGED <<otel, signalled, listening, expired, failed, hung>>
  BY DEF ClosePool
<1>2. ASSUME NEW r \in Requests
      PROVE  req'[r] = IF req[r] \in Statement \cup {"running"} THEN "killed" ELSE req[r]
  BY DEF ClosePool, Closable, Open
<1>3. req' \in [Requests -> Outcome]
  BY DEF ClosePool, Orderly, LifecycleTyped, Outcome
<1>4. LifecycleTyped'
  BY <1>1, <1>3 DEF Orderly, LifecycleTyped, Places
<1>5. HeldInOrder'
  BY <1>1 DEF Orderly, LifecycleTyped, HeldInOrder, Unflushed, OTelSteps, Early, Late, Serving
<1>6. DrainedInOrder'
  BY <1>1 DEF Orderly, LifecycleTyped, DrainedInOrder, Closing
<1>7. LostOnlyAfterGrace'
  <2>1. ASSUME NEW r \in Requests
        PROVE  /\ req'[r] \in {"unsaved", "killed"} => expired /\ failed
               /\ req'[r] # "cut"
    BY <1>1, <1>2 DEF Orderly, DrainedInOrder, LostOnlyAfterGrace, Closing
  <2>2. ASSUME NEW r \in Requests, ~failed
        PROVE  req'[r] \in {"none", "answered", "hung up"}
    <3>1. req[r] \in Outcome \ (Statement \cup {"running", "unsaved"})
      BY <1>1, <2>2 DEF Orderly, LifecycleTyped, DrainedInOrder, Closing
    <3>2. req'[r] = req[r]
      BY <1>2, <3>1
    <3> QED
      BY <2>1, <2>2, <3>1, <3>2 DEF Outcome
  <2> QED
    BY <1>1, <2>1, <2>2 DEF LostOnlyAfterGrace
<1> QED
  BY <1>4, <1>5, <1>6, <1>7 DEF Orderly

LEMMA OrderlyStep == Orderly /\ [Next]_vars => Orderly'
<1> SUFFICES ASSUME Orderly, [Next]_vars
             PROVE  Orderly'
  OBVIOUS
<1>1. CASE Main
  BY <1>1, StepSucceedsKeeps, StepFailsKeeps, MainKeeps, ClosePoolKeeps DEF Main
<1>2. CASE Signal \/ DatabaseHangs \/ UNCHANGED vars
  <2>1. /\ UNCHANGED <<pc, otel, held, listening, expired, failed, req, conn, exit>>
        /\ signalled' = signalled \/ signalled' = TRUE
        /\ signalled => signalled'
        /\ hung' = hung \/ hung' = TRUE
    BY <1>2 DEF Signal, DatabaseHangs, vars
  <2>2. LifecycleTyped'
    BY <2>1, Zenon DEF Orderly, LifecycleTyped
  <2>3. HeldInOrder'
    BY <2>1, Zenon DEF Orderly, HeldInOrder
  <2>4. DrainedInOrder'
    BY <2>1, Zenon DEF Orderly, DrainedInOrder
  <2>5. LostOnlyAfterGrace'
    BY <2>1, Zenon DEF Orderly, LostOnlyAfterGrace
  <2> QED
    BY <2>2, <2>3, <2>4, <2>5 DEF Orderly
<1>3. CASE \E r \in Requests : \/ Accept(r) \/ AdapterReturns(r) \/ Acquire(r)
                                \/ StatementReturns(r) \/ Interrupted(r)
  BY <1>3, RequestKeeps
<1>4. CASE GraceEnds
  BY <1>4, MainKeeps
<1> QED
  BY <1>1, <1>2, <1>3, <1>4 DEF Next

\* The inductive invariant of the process: what is open at each place of the
\* start and of the shutdown, and which requests may be left there.
THEOREM AlwaysOrderly == Spec => []Orderly
  BY OrderlyInit, OrderlyStep, PTL DEF Spec

\* Whichever of BuildRuntime's steps fails, and however the shutdown goes, the
\* process leaves no meter, callback or pool open; it leaves spans unflushed only
\* when the context of the clean-up had ended, and then exits with 1; the pool's
\* callback is never registered without the pool.
THEOREM NothingIsLeftOpen == Spec => []NothingLeftOpen
<1>1. Orderly => NothingLeftOpen
  BY DEF Orderly, LifecycleTyped, HeldInOrder, NothingLeftOpen, Places, Early, Late, Serving, Closing,
         Telemetry, Unflushed
<1> QED
  BY <1>1, AlwaysOrderly, PTL

\* For any number of requests and connections, a request loses its receipt to
\* the shutdown only after the grace period, and then the exit code is not 0.
THEOREM NothingLostBeforeGrace == Spec => []LostOnlyAfterGrace
<1>1. Orderly => LostOnlyAfterGrace
  BY DEF Orderly
<1> QED
  BY <1>1, AlwaysOrderly, PTL
=============================================================================
