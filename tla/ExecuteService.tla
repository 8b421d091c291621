--------------------------- MODULE ExecuteService ---------------------------
(***************************************************************************)
(* The execution flow of runtime-adapters: ExecuteService.Execute with the *)
(* concurrency limiter it enters through, the PostgreSQL receipt and       *)
(* idempotency tables it reads and writes, and the HTTP status its caller  *)
(* is given.  Every Execute call is a process; a retry by the caller is    *)
(* another call, with the same idempotency key.                            *)
(***************************************************************************)
EXTENDS Naturals, FiniteSets, FiniteSetsExt

CONSTANTS
  Request,         \* the Execute calls that may be made
  Key, NoKey,      \* idempotency keys, and the absence of one
  KeyOf,           \* the key each call carries
  Capability,      \* canonical capability names
  CapOf,           \* the capability each call asks for
  Registry,        \* capabilities in the CapabilityRegistry
  Wired,           \* capabilities whose adapter is in the adapter map
  Budget,          \* timeout budget of each call
  DefaultTimeout,  \* default timeout of each capability
  MaxTimeout,      \* runtime cap on timeouts; 0 is "no cap"
  MaxConcurrent,   \* slots of the limiter
  MaxCrashes,      \* bound on process crashes
  MaxExpiries,     \* bound on idempotency windows that run out
  Faults,          \* the failures this instance lets happen
  RawOutcome,      \* what adapters may come back with
  CallerErr        \* how a caller's context may end

CtxErr == {"none", "canceled", "deadline"}
Raw == {"success", "failure", "partial", "invalid", "aborted", "panic", "structural"}
FaultKind == {"lookup_error", "lookup_panic", "find_error", "idgen",
              "normalizer", "save_error", "save_ack_lost", "record_error"}

ASSUME KeyAssumption == NoKey \notin Key /\ KeyOf \in [Request -> Key \cup {NoKey}]
ASSUME CapabilityAssumption ==
  /\ CapOf \in [Request -> Capability]
  /\ Registry \subseteq Capability /\ Wired \subseteq Capability
ASSUME TimeoutAssumption ==
  /\ Budget \in [Request -> Nat] /\ DefaultTimeout \in [Capability -> Nat]
  /\ MaxTimeout \in Nat
ASSUME BoundAssumption ==
  /\ IsFiniteSet(Request)
  /\ MaxConcurrent \in Nat \ {0} /\ MaxCrashes \in Nat /\ MaxExpiries \in Nat
  /\ Faults \subseteq FaultKind /\ RawOutcome \subseteq Raw
  /\ CallerErr \subseteq CtxErr \ {"none"}

VARIABLES
  (* the process: lost in a crash *)
  pc,        \* where each call is
  slots,     \* occupied slots of the limiter channel
  callerErr, \* Err() of the caller's context
  execErr,   \* Err() of the execution context derived from it
  lr,        \* result of the idempotency lookup
  raw,       \* what the adapter returned
  result,    \* the ExecutionResult built for the call
  ret,       \* what Execute returns
  active,    \* gauge execution.active
  count,     \* the metric counters
  (* the database: survives a crash *)
  receipts,  \* table execution_receipts
  idem,      \* table idempotency_keys
  nextID,    \* receipt ids handed out so far
  (* environment bounds and history *)
  crashes, expiries,
  ran,       \* was the call's adapter invoked
  arrival,   \* state of the call's key row when the call came in
  recorded   \* what Record did for the call

processVars == <<pc, slots, callerErr, execErr, lr, raw, result, ret, active, count>>
dbVars      == <<receipts, idem, nextID>>
historyVars == <<crashes, expiries, ran, arrival, recorded>>
vars == <<processVars, dbVars, historyVars>>

-----------------------------------------------------------------------------
(* Values *)

PC == {"idle", "lookup", "replay", "resolve", "structural", "running",
       "returned", "persist", "record", "release", "done", "lost"}

\* Between TryAcquire and the deferred Release.
Inside == PC \ {"idle", "done", "lost"}

Status == {"success", "failure", "timeout", "cancelled", "partial"}
ErrorClass == {"none", "validation_failure", "capability_unknown", "external_failure",
               "timeout", "cancelled", "normalization_failure", "adapter_internal_error"}
Result == [status : Status, class : ErrorClass]
NoResult == [status |-> "none", class |-> "none"]
Failure(class) == [status |-> "failure", class |-> class]

Receipt == [id : Nat, req : Request, status : Status, class : ErrorClass]

ReturnKind == {"none", "receipt", "rejected", "bad_envelope", "persist_failed",
               "build_failed", "find_failed"}
\* rid: the receipt returned.  wraps: the context error the Go error wraps.
NoReturn == [kind |-> "none", rid |-> 0, wraps |-> "none"]
ReceiptReturned(id) == [NoReturn EXCEPT !.kind = "receipt", !.rid = id]
ErrorReturned(kind, ctxErr) == [NoReturn EXCEPT !.kind = kind, !.wraps = ctxErr]

Counter == {"rejects", "persist_failures", "adapter_panics", "executions"}

NoRow == [state |-> "absent", rid |-> 0]
KeyRow(r) == IF KeyOf[r] = NoKey THEN NoRow ELSE idem[KeyOf[r]]

-----------------------------------------------------------------------------
Init ==
  /\ pc = [r \in Request |-> "idle"]
  /\ slots = 0
  /\ callerErr = [r \in Request |-> "none"]
  /\ execErr = [r \in Request |-> "none"]
  /\ lr = [r \in Request |-> [outcome |-> "none", rid |-> 0]]
  /\ raw = [r \in Request |-> "none"]
  /\ result = [r \in Request |-> NoResult]
  /\ ret = [r \in Request |-> NoReturn]
  /\ active = 0
  /\ count = [c \in Counter |-> 0]
  /\ receipts = {}
  /\ idem = [k \in Key |-> NoRow]
  /\ nextID = 1
  /\ crashes = 0 /\ expiries = 0
  /\ ran = [r \in Request |-> FALSE]
  /\ arrival = [r \in Request |-> "none"]
  /\ recorded = [r \in Request |-> "none"]

-----------------------------------------------------------------------------
(* Entering and leaving: HTTP decoding, the limiter, the deferred release *)

Goto(r, label) == pc' = [pc EXCEPT ![r] = label]
Bump(c) == count' = [count EXCEPT ![c] = @ + 1]

\* The body of Execute returns v; the deferred calls are still to run.
Return(r, v) == Goto(r, "release") /\ ret' = [ret EXCEPT ![r] = v]

\* The HTTP handler refuses a body it cannot decode or validate: 400 or 413.
RejectEnvelope(r) ==
  /\ pc[r] = "idle"
  /\ Goto(r, "done")
  /\ ret' = [ret EXCEPT ![r] = ErrorReturned("bad_envelope", "none")]
  /\ UNCHANGED <<slots, callerErr, execErr, lr, raw, result, active, count, dbVars, historyVars>>

\* Mutant: one call more than the limiter has slots for.
SlotFreeOffByOne == slots <= MaxConcurrent

\* The send on the buffered slots channel succeeds.
SlotFree == slots < MaxConcurrent

\* TryAcquire: take a slot or be refused, never wait.
TryAcquire(r) ==
  /\ pc[r] = "idle"
  /\ arrival' = [arrival EXCEPT ![r] = KeyRow(r).state]
  /\ \/ /\ SlotFree
        /\ slots' = slots + 1
        /\ Goto(r, IF KeyOf[r] = NoKey THEN "resolve" ELSE "lookup")
        /\ UNCHANGED <<ret, count>>
     \/ /\ ~SlotFree
        /\ Goto(r, "done")
        /\ ret' = [ret EXCEPT ![r] = ErrorReturned("rejected", "none")]
        /\ Bump("rejects")
        /\ UNCHANGED slots
  /\ UNCHANGED <<callerErr, execErr, lr, raw, result, active, dbVars, crashes, expiries, ran, recorded>>

\* Mutant: a path that released its slot runs the deferred Release as well.
ReleaseTwice(r) ==
  /\ pc[r] = "release"
  /\ Goto(r, "done")
  /\ active' = IF ran[r] THEN active - 1 ELSE active
  /\ slots' = slots - 2
  /\ UNCHANGED <<callerErr, execErr, lr, raw, result, ret, count, dbVars, historyVars>>

\* The deferred calls, in order: ExecutionActive -1 if the call was
\* dispatched, cancel(), limiter.Release(); then the caller has its answer.
Release(r) ==
  /\ pc[r] = "release"
  /\ Goto(r, "done")
  /\ active' = IF ran[r] THEN active - 1 ELSE active
  /\ slots' = slots - 1
  /\ UNCHANGED <<callerErr, execErr, lr, raw, result, ret, count, dbVars, historyVars>>

-----------------------------------------------------------------------------
(* Step 2: idempotency lookup and replay *)

\* Mutant: only successes are replayed.
LookupOutcomeSuccessOnly(r) ==
  IF callerErr[r] = "none" /\ KeyRow(r).state = "live"
     /\ \E rec \in receipts : rec.id = KeyRow(r).rid /\ rec.status = "success"
  THEN {"hit"} ELSE {"miss"}

\* IdempotencyStorePG.Lookup: a row counts while its window is open.  With a
\* context that is already done the query fails.
LookupOutcome(r) ==
  (IF callerErr[r] # "none" THEN {"error"}
   ELSE IF KeyRow(r).state = "live" THEN {"hit"} ELSE {"miss"})
  \cup (IF "lookup_error" \in Faults THEN {"error"} ELSE {})
  \cup (IF "lookup_panic" \in Faults THEN {"panic"} ELSE {})

\* A panic ends in a structural failure; an error is treated like a miss.
Lookup(r) ==
  /\ pc[r] = "lookup"
  /\ \E o \in LookupOutcome(r) :
       /\ lr' = [lr EXCEPT ![r] = [outcome |-> o,
                                   rid |-> IF o = "hit" THEN KeyRow(r).rid ELSE 0]]
       /\ Goto(r, CASE o = "hit"   -> "replay"
                    [] o = "panic" -> "structural"
                    [] OTHER       -> "resolve")
       /\ result' = IF o = "panic"
                    THEN [result EXCEPT ![r] = Failure("adapter_internal_error")]
                    ELSE result
  /\ UNCHANGED <<slots, callerErr, execErr, raw, ret, active, count, dbVars, historyVars>>

\* Mutant: the receipt is not selected by its id.
ReplayAnyReceipt(r) ==
  /\ pc[r] = "replay"
  /\ \E rec \in receipts : Return(r, ReceiptReturned(rec.id))
  /\ UNCHANGED <<slots, callerErr, execErr, lr, raw, result, active, count, dbVars, historyVars>>

\* receipts.FindByID on the caller's context; its panic is the HTTP
\* middleware's to recover, as a 500.
Replay(r) ==
  /\ pc[r] = "replay"
  /\ \/ /\ callerErr[r] = "none"
        /\ \E rec \in receipts : rec.id = lr[r].rid /\ Return(r, ReceiptReturned(rec.id))
     \/ /\ callerErr[r] # "none" \/ "find_error" \in Faults
        /\ Return(r, ErrorReturned("find_failed", callerErr[r]))
  /\ UNCHANGED <<slots, callerErr, execErr, lr, raw, result, active, count, dbVars, historyVars>>

-----------------------------------------------------------------------------
(* Steps 3-7: resolution and dispatch *)

\* Smallest positive duration; 0 when there is none.
minDuration(ds) == LET caps == {d \in ds : d > 0} IN IF caps = {} THEN 0 ELSE Min(caps)

EffectiveTimeout(r) == minDuration({Budget[r], DefaultTimeout[CapOf[r]], MaxTimeout})

\* The structural failures of steps 3, 4, 5 and 7, in the code's order.
Rejections(r) ==
  IF CapOf[r] \notin Registry    THEN {"capability_unknown"}
  ELSE IF EffectiveTimeout(r) <= 0 THEN {"validation_failure"}
  ELSE (IF CapOf[r] \notin Wired THEN {"capability_unknown"} ELSE {})
       \cup (IF "idgen" \in Faults THEN {"adapter_internal_error"} ELSE {})

Dispatchable(r) == CapOf[r] \in Registry \cap Wired /\ EffectiveTimeout(r) > 0

RejectResolution(r) ==
  /\ pc[r] = "resolve"
  /\ \E class \in Rejections(r) : result' = [result EXCEPT ![r] = Failure(class)]
  /\ Goto(r, "structural")
  /\ UNCHANGED <<slots, callerErr, execErr, lr, raw, ret, active, count, dbVars, historyVars>>

\* context.WithTimeout inherits the caller's error; the adapter is called
\* whether or not the context is already done.
Dispatch(r) ==
  /\ pc[r] = "resolve" /\ Dispatchable(r)
  /\ Goto(r, "running")
  /\ execErr' = [execErr EXCEPT ![r] = callerErr[r]]
  /\ active' = active + 1
  /\ ran' = [ran EXCEPT ![r] = TRUE]
  /\ UNCHANGED <<slots, callerErr, lr, raw, result, ret, count, dbVars,
                 crashes, expiries, arrival, recorded>>

-----------------------------------------------------------------------------
(* Step 7: the adapter runs, and the contexts end *)

\* The execution context is live from dispatch to the deferred cancel().
ExecCtxOpen(r) == pc[r] \in {"running", "returned"}

\* The client disconnects, or its own deadline passes.  From step 9 on nothing
\* reads the caller's context any more.
CallerDone(r) ==
  /\ pc[r] \in {"lookup", "replay", "resolve", "structural", "running", "returned"}
  /\ callerErr[r] = "none"
  /\ \E e \in CallerErr :
       /\ callerErr' = [callerErr EXCEPT ![r] = e]
       /\ execErr' = IF ExecCtxOpen(r) /\ execErr[r] = "none"
                     THEN [execErr EXCEPT ![r] = e] ELSE execErr
  /\ UNCHANGED <<pc, slots, lr, raw, result, ret, active, count, dbVars, historyVars>>

\* Mutant: the timer is only armed once the adapter has returned.
TimeoutArmedLate(r) ==
  /\ pc[r] = "returned" /\ execErr[r] = "none"
  /\ execErr' = [execErr EXCEPT ![r] = "deadline"]
  /\ UNCHANGED <<pc, slots, callerErr, lr, raw, result, ret, active, count, dbVars, historyVars>>

\* The effective timeout passes.
Timeout(r) ==
  /\ ExecCtxOpen(r) /\ execErr[r] = "none"
  /\ execErr' = [execErr EXCEPT ![r] = "deadline"]
  /\ UNCHANGED <<pc, slots, callerErr, lr, raw, result, ret, active, count, dbVars, historyVars>>

\* Mutant: SafeExecute without its recover; the panic unwinds Execute.
AdapterReturnPanicEscapes(r) ==
  /\ pc[r] = "running"
  /\ \E o \in RawOutcome :
       /\ raw' = [raw EXCEPT ![r] = o]
       /\ Goto(r, IF o = "panic" THEN "release" ELSE "returned")
  /\ UNCHANGED <<slots, callerErr, execErr, lr, result, ret, active, count, dbVars, historyVars>>

\* SafeExecute: a raw outcome, a recovered panic, or a Go error without one.
\* An adapter reports an aborted run only when its context is done.
AdapterReturn(r) ==
  /\ pc[r] = "running"
  /\ \E o \in RawOutcome : /\ o = "aborted" => execErr[r] # "none"
                           /\ raw' = [raw EXCEPT ![r] = o]
  /\ Goto(r, "returned")
  /\ UNCHANGED <<slots, callerErr, execErr, lr, result, ret, active, count, dbVars, historyVars>>

-----------------------------------------------------------------------------
(* Steps 7b-8: classification *)

ctxOutcomeFor(e) == IF e = "deadline" THEN [status |-> "timeout", class |-> "timeout"]
                                      ELSE [status |-> "cancelled", class |-> "cancelled"]

\* What the registered normalizers make of an adapter's raw outcome: the
\* adapter did its work, refused the payload, or failed wholly or in part.
Normalize(o) ==
  CASE o = "success" -> [status |-> "success", class |-> "none"]
    [] o = "invalid" -> Failure("validation_failure")
    [] OTHER         -> [status |-> o, class |-> "external_failure"]

\* Mutant: asks the caller's context instead of the execution's.
ClassifiedByCallerCtx(r) ==
  IF callerErr[r] # "none" THEN {ctxOutcomeFor(callerErr[r])}
  ELSE IF execErr[r] # "none" THEN {ctxOutcomeFor(execErr[r])}
  ELSE IF raw[r] \in {"panic", "structural"} THEN {Failure("adapter_internal_error")}
  ELSE {Normalize(raw[r])}

ClassifiedResults(r) ==
  IF execErr[r] # "none" THEN {ctxOutcomeFor(execErr[r])}
  ELSE IF raw[r] \in {"panic", "structural"} THEN {Failure("adapter_internal_error")}
  ELSE {Normalize(raw[r])}
       \cup (IF "normalizer" \in Faults THEN {Failure("normalization_failure")} ELSE {})

\* Mutant: counts a panic that the context's outcome overrides.
ClassifyCountsMaskedPanics(r) ==
  /\ pc[r] = "returned"
  /\ \E res \in ClassifiedResults(r) : result' = [result EXCEPT ![r] = res]
  /\ IF raw[r] = "panic" THEN Bump("adapter_panics") ELSE UNCHANGED count
  /\ Goto(r, "persist")
  /\ UNCHANGED <<slots, callerErr, execErr, lr, raw, ret, active, dbVars, historyVars>>

\* A finished context overrides whatever the adapter returned.
Classify(r) ==
  /\ pc[r] = "returned"
  /\ \E res \in ClassifiedResults(r) : result' = [result EXCEPT ![r] = res]
  /\ IF execErr[r] = "none" /\ raw[r] = "panic" THEN Bump("adapter_panics") ELSE UNCHANGED count
  /\ Goto(r, "persist")
  /\ UNCHANGED <<slots, callerErr, execErr, lr, raw, ret, active, dbVars, historyVars>>

-----------------------------------------------------------------------------
(* Steps 9-11: receipt, persistence, idempotency record *)

\* ReceiptRepositoryPG.Save inserts one row under a fresh id.
Insert(r) ==
  receipts' = receipts \cup {[id |-> nextID, req |-> r,
                              status |-> result[r].status, class |-> result[r].class]}

\* What an INSERT on a context with error e can come to: done and
\* acknowledged, not done, or done with the acknowledgement lost.
SaveOutcome(e) ==
  (IF e = "none" THEN {"ok"} ELSE {"error", "ack_lost"})
  \cup (IF "save_error" \in Faults THEN {"error"} ELSE {})
  \cup (IF "save_ack_lost" \in Faults THEN {"ack_lost"} ELSE {})

\* Mutant: the error is logged, and the flow goes on as if it had been saved.
SaveFailedSwallowed(r, e) ==
  /\ Goto(r, "record") /\ ret' = [ret EXCEPT ![r] = ReceiptReturned(nextID)]
  /\ Bump("persist_failures")

\* "persistence failed; side effect may have occurred": an error of the driver
\* wraps the context's, the one made of a recovered panic wraps nothing.
SaveFailed(r, e) ==
  /\ \E w \in {e, "none"} : Return(r, ErrorReturned("persist_failed", w))
  /\ Bump("persist_failures")

\* Save on a context with error e; onSaved is how the flow goes on.
Save(r, e, onSaved) ==
  /\ nextID' = nextID + 1
  /\ \E o \in SaveOutcome(e) :
       /\ IF o = "error" THEN UNCHANGED receipts ELSE Insert(r)
       /\ IF o = "ok" THEN onSaved ELSE SaveFailed(r, e)

\* The identifier generator yields an id NewHandleID / NewReceiptID rejects.
BuildFails(r) ==
  /\ pc[r] \in {"structural", "persist"} /\ "idgen" \in Faults
  /\ Return(r, ErrorReturned("build_failed", "none"))
  /\ UNCHANGED <<slots, callerErr, execErr, lr, raw, result, active, count, dbVars, historyVars>>

\* persistStructural: saved on the caller's context, key never recorded.
PersistStructural(r) ==
  /\ pc[r] = "structural"
  /\ Save(r, callerErr[r], Return(r, ReceiptReturned(nextID)) /\ Bump("executions"))
  /\ UNCHANGED <<slots, callerErr, execErr, lr, raw, result, active, idem, historyVars>>

\* Mutant: the receipt is saved on the caller's context.
PersistOnCallerCtx(r) ==
  /\ pc[r] = "persist"
  /\ Save(r, callerErr[r], Goto(r, "record")
                           /\ ret' = [ret EXCEPT ![r] = ReceiptReturned(nextID)]
                           /\ UNCHANGED count)
  /\ UNCHANGED <<slots, callerErr, execErr, lr, raw, result, active, idem, historyVars>>

\* Step 10 saves on a background context: the caller going away cannot stop it.
Persist(r) ==
  /\ pc[r] = "persist"
  /\ Save(r, "none", Goto(r, "record")
                     /\ ret' = [ret EXCEPT ![r] = ReceiptReturned(nextID)]
                     /\ UNCHANGED count)
  /\ UNCHANGED <<slots, callerErr, execErr, lr, raw, result, active, idem, historyVars>>

\* Mutant: ON CONFLICT DO UPDATE.
RecordUpserts(r) ==
  /\ pc[r] = "record"
  /\ recorded' = [recorded EXCEPT ![r] = IF KeyOf[r] = NoKey THEN "none" ELSE "inserted"]
  /\ idem' = IF KeyOf[r] = NoKey THEN idem
             ELSE [idem EXCEPT ![KeyOf[r]] = [state |-> "live", rid |-> ret[r].rid]]
  /\ Bump("executions")
  /\ Goto(r, "release")
  /\ UNCHANGED <<slots, callerErr, execErr, lr, raw, result, ret, active, receipts, nextID,
                 crashes, expiries, ran, arrival>>

\* Step 10b: INSERT ... ON CONFLICT DO NOTHING, whose error is dropped; the
\* row of an expired key is still a conflict.  Step 11 counts the execution.
Record(r) ==
  /\ pc[r] = "record"
  /\ \E o \in (IF KeyOf[r] = NoKey THEN {"none"}
               ELSE {IF KeyRow(r).state = "absent" THEN "inserted" ELSE "conflict"}
                    \cup (IF "record_error" \in Faults THEN {"error"} ELSE {})) :
       /\ recorded' = [recorded EXCEPT ![r] = o]
       /\ idem' = IF o = "inserted"
                  THEN [idem EXCEPT ![KeyOf[r]] = [state |-> "live", rid |-> ret[r].rid]]
                  ELSE idem
  /\ Bump("executions")
  /\ Goto(r, "release")
  /\ UNCHANGED <<slots, callerErr, execErr, lr, raw, result, ret, active, receipts, nextID,
                 crashes, expiries, ran, arrival>>

-----------------------------------------------------------------------------
(* Environment: windows run out, the process dies *)

\* expires_at passes; nothing ever deletes or replaces the row.
Expire(k) ==
  /\ idem[k].state = "live" /\ expiries < MaxExpiries
  /\ idem' = [idem EXCEPT ![k].state = "expired"]
  /\ expiries' = expiries + 1
  /\ UNCHANGED <<processVars, receipts, nextID, crashes, ran, arrival, recorded>>

\* The process dies and is restarted: calls in flight get no answer.
Crash ==
  /\ crashes < MaxCrashes
  /\ crashes' = crashes + 1
  /\ pc' = [r \in Request |-> IF pc[r] \in Inside THEN "lost" ELSE pc[r]]
  /\ slots' = 0 /\ active' = 0
  /\ count' = [c \in Counter |-> 0]
  /\ UNCHANGED <<callerErr, execErr, lr, raw, result, ret, dbVars, expiries, ran, arrival, recorded>>

-----------------------------------------------------------------------------
\* The steps of the service itself.
Step(r) == \/ TryAcquire(r) \/ Lookup(r) \/ Replay(r) \/ RejectResolution(r)
           \/ Dispatch(r) \/ Classify(r) \/ BuildFails(r) \/ PersistStructural(r)
           \/ Persist(r) \/ Record(r) \/ Release(r)

Next ==
  \/ \E r \in Request : Step(r) \/ RejectEnvelope(r) \/ AdapterReturn(r)
                        \/ CallerDone(r) \/ Timeout(r)
  \/ \E k \in Key : Expire(k)
  \/ Crash

Spec == Init /\ [][Next]_vars

\* A call that is inside moves on, a context's timer fires, and an adapter
\* whose context is done returns.  Nothing obliges an adapter with a live
\* context to return, a caller to call, or a client to stay.
Fairness ==
  \A r \in Request :
    /\ WF_vars(pc[r] # "idle" /\ Step(r))
    /\ WF_vars(Timeout(r))
    /\ WF_vars(execErr[r] # "none" /\ AdapterReturn(r))

LiveSpec == Spec /\ Fairness

-----------------------------------------------------------------------------
(* Properties *)

\* Every variable keeps its type; in particular the limiter and the gauge
\* never go below zero, whichever of the exits of Execute is taken.
TypeOK ==
  /\ pc \in [Request -> PC]
  /\ slots \in Nat /\ active \in Nat
  /\ callerErr \in [Request -> CtxErr] /\ execErr \in [Request -> CtxErr]
  /\ lr \in [Request -> [outcome : {"none", "hit", "miss", "error", "panic"}, rid : Nat]]
  /\ raw \in [Request -> Raw \cup {"none"}]
  /\ result \in [Request -> Result \cup {NoResult}]
  /\ ret \in [Request -> [kind : ReturnKind, rid : Nat, wraps : CtxErr]]
  /\ count \in [Counter -> Nat]
  /\ receipts \subseteq Receipt
  /\ idem \in [Key -> [state : {"absent", "live", "expired"}, rid : Nat]]
  /\ nextID \in Nat \ {0}
  /\ crashes \in 0..MaxCrashes /\ expiries \in 0..MaxExpiries
  /\ ran \in [Request -> BOOLEAN]
  /\ arrival \in [Request -> {"none", "absent", "live", "expired"}]
  /\ recorded \in [Request -> {"none", "inserted", "conflict", "error"}]

InFlight == {r \in Request : pc[r] \in Inside}
Dispatched == {r \in InFlight : ran[r]}

\* The limiter holds exactly one slot for each call between TryAcquire and
\* Release, never more than its capacity, and execution.active counts exactly
\* the calls that were dispatched (I22, R14): no exit leaks a slot.
LimiterExact ==
  /\ slots = Cardinality(InFlight)
  /\ slots <= MaxConcurrent
  /\ active = Cardinality(Dispatched)

\* The receipt that call r may be answered with.
Answerable(r, rec) ==
  \/ rec.req = r
  \/ ~ran[r] /\ KeyOf[r] # NoKey /\ KeyOf[rec.req] = KeyOf[r]

\* A receipt handed to a caller is in the table (I13), and it is either the
\* caller's own or, when the caller's adapter did not run, one made under the
\* caller's idempotency key (D6.4).
AnswerAudited ==
  \A r \in Request : pc[r] = "done" /\ ret[r].kind = "receipt" =>
    \E rec \in receipts : rec.id = ret[r].rid /\ Answerable(r, rec)

\* A call whose adapter ran is never answered as if nothing had happened: its
\* receipt is stored, or the caller was given the error that says a side
\* effect may have occurred (R7), or the error of a receipt that could not be
\* assembled.
EffectAccounted ==
  \A r \in Request : pc[r] = "done" /\ ran[r] =>
    \/ \E rec \in receipts : rec.req = r
    \/ ret[r].kind \in {"persist_failed", "build_failed"}

\* Every row of idempotency_keys points to a stored receipt of a call that
\* carried that key and whose adapter ran: replay can never answer with
\* another key's receipt or with one that does not exist.
KeyRowSound ==
  \A k \in Key : idem[k].state # "absent" =>
    \E rec \in receipts : rec.id = idem[k].rid /\ KeyOf[rec.req] = k /\ ran[rec.req]

\* A call that comes in while its key's row is live does not run the adapter
\* unless the row expires first or the lookup itself failed (D2.5, D6.4).
ReplayHonoured ==
  \A r \in Request :
    arrival[r] = "live" /\ KeyRow(r).state = "live" /\ lr[r].outcome # "error" => ~ran[r]

\* The verdict res agrees with what became of call r.
Truthful(r, res) ==
  /\ res.status = "success" => raw[r] = "success"
  /\ res.status = "partial" => raw[r] = "partial"
  /\ res.status = "timeout" => execErr[r] = "deadline"
  /\ res.status = "cancelled" => execErr[r] = "canceled"
  /\ res.class = "capability_unknown" => ~ran[r]
  /\ res.class = "validation_failure" => ~ran[r] \/ raw[r] = "invalid"

\* What a stored receipt says is what happened: success only for an adapter
\* that succeeded, timeout and cancelled only for a context that ended that
\* way, capability_unknown only if no adapter ran, validation_failure only if
\* none ran or it refused the payload; and a call has at most one receipt, as
\* no id has two.
ReceiptTruthful ==
  \A rec \in receipts :
    /\ Truthful(rec.req, rec)
    /\ \A other \in receipts : other.id = rec.id \/ other.req = rec.req => other = rec

\* The HTTP status of the answer to a finished call.
HTTPStatus(r) ==
  CASE ret[r].kind = "receipt"      -> 200
    [] ret[r].kind = "bad_envelope" -> 400
    [] ret[r].kind = "rejected"     -> 503
    [] ret[r].kind \in {"persist_failed", "find_failed"} /\ ret[r].wraps # "none" -> 499
    [] OTHER -> 500

\* A status that tells the client its call did not happen is only given when
\* the adapter did not run: 503 is marked retryable, 499 is "cancelled" and
\* 400 asks for a corrected request.
RefusalMeansNotRun ==
  \A r \in Request : pc[r] = "done" /\ HTTPStatus(r) \in {400, 499, 503} => ~ran[r]

\* Where a call is tells what has been done for it.
Progress ==
  \A r \in Request :
    /\ pc[r] \in {"idle", "lookup", "replay", "resolve", "structural"} => ~ran[r]
    /\ pc[r] \in {"running", "returned", "persist", "record"} => ran[r]
    /\ pc[r] = "lookup" => KeyOf[r] # NoKey
    /\ pc[r] = "returned" => raw[r] \in Raw /\ (raw[r] = "aborted" => execErr[r] # "none")
    /\ pc[r] \in {"structural", "persist"} => result[r] \in Result /\ Truthful(r, result[r])

\* Receipts have ids that were handed out, and come from calls past step 10.
Ledger ==
  \A rec \in receipts :
    rec.id < nextID /\ pc[rec.req] \in {"record", "release", "done", "lost"}

\* What call r holds when it is about to answer, and what it then answers.
Supported(r) ==
  /\ pc[r] = "replay" => \E rec \in receipts : rec.id = lr[r].rid /\ Answerable(r, rec)
  /\ pc[r] = "record" =>
       ret[r].kind = "receipt" /\ \E rec \in receipts : rec.id = ret[r].rid /\ rec.req = r
  /\ pc[r] \in {"release", "done"} /\ ret[r].kind = "receipt" =>
       \E rec \in receipts : rec.id = ret[r].rid /\ Answerable(r, rec)
  /\ pc[r] \in {"record", "release", "done"} /\ ran[r] =>
       ret[r].kind \in {"receipt", "persist_failed", "build_failed"} /\ ret[r].wraps = "none"
Answers == \A r \in Request : Supported(r)

\* A key that was taken when a call came in stays taken, and while its window
\* is open the call is not about to be dispatched.
Replays ==
  \A r \in Request : arrival[r] = "live" =>
    /\ KeyRow(r).state # "absent"
    /\ KeyRow(r).state = "live" /\ lr[r].outcome # "error" => pc[r] # "resolve" /\ ~ran[r]

\* The inductive invariant from which AnswerAudited, EffectAccounted,
\* RefusalMeansNotRun and ReplayHonoured follow: every exit of Execute leaves
\* the limiter, the tables and the pending answer consistent with each other.
Consistent ==
  /\ TypeOK /\ LimiterExact
  /\ Progress /\ Ledger /\ Answers /\ Replays
  /\ KeyRowSound /\ ReceiptTruthful

\* As long as the process has not been restarted its counters are exact:
\* one reject, persist failure or execution per call that ended that way,
\* whichever path it took, and one adapter panic per call whose receipt blames it.
MetricsExact == crashes = 0 =>
  LET Calls(P(_)) == Cardinality({r \in Request : P(r)})
  IN /\ count["rejects"] = Calls(LAMBDA r : ret[r].kind = "rejected")
     /\ count["persist_failures"] = Calls(LAMBDA r : ret[r].kind = "persist_failed")
     /\ count["executions"] = Calls(LAMBDA r : /\ pc[r] \in {"release", "done"}
                                              /\ ret[r].kind = "receipt"
                                              /\ lr[r].outcome # "hit")
     /\ count["adapter_panics"] = Calls(LAMBDA r : /\ raw[r] = "panic"
                                                  /\ result[r].class = "adapter_internal_error")

\* Receipts are only ever added, and the first receipt recorded for a key
\* stays the key's receipt (I2, R2; first writer wins).
Immutable ==
  [][/\ receipts \subseteq receipts'
     /\ \A k \in Key : idem[k].state # "absent" =>
          idem'[k].rid = idem[k].rid /\ idem'[k].state \in {idem[k].state, "expired"}]_vars

\* What the service shows of its state to a reader of AuditedRuntime.
AuditAnswer(r) ==
  IF pc[r] # "done" THEN [kind |-> "none"]
  ELSE CASE ret[r].kind = "receipt" ->
              [kind |-> "receipt",
               of |-> (CHOOSE rec \in receipts : rec.id = ret[r].rid).req]
         [] ret[r].kind \in {"rejected", "bad_envelope"} -> [kind |-> "refused"]
         [] OTHER -> [kind |-> "failed"]

Audited == INSTANCE AuditedRuntime WITH
  Call <- Request,
  phase <- [r \in Request |-> CASE pc[r] = "done" -> "answered"
                                 [] pc[r] = "lost" -> "abandoned"
                                 [] OTHER -> IF ran[r] THEN "executed" ELSE "open"],
  ledger <- {rec.req : rec \in receipts},
  executed <- {r \in Request : ran[r]},
  answer <- [r \in Request |-> AuditAnswer(r)]

\* The flow of Execute, with its failures and crashes, implements the audit
\* contract of AuditedRuntime: persisted before answered, invoked at most
\* once, replayed only under the same key (I13, I21, R2, R6, R7).
ImplementsAuditedRuntime == Audited!Spec

\* Every call that got a slot is answered, unless the process dies: the
\* effective timeout bounds an adapter that only returns when its context ends.
Answered == \A r \in Request : pc[r] \in Inside ~> pc[r] \in {"done", "lost"}
=============================================================================
