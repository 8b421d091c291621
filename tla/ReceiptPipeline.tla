-------------------------- MODULE ReceiptPipeline --------------------------
(***************************************************************************)
(* One execution from start-up to the receipt its caller reads back: the   *)
(* start with or without fault injection, a request over HTTP or through   *)
(* the SDK, the adapter's run against its context, the result, the row     *)
(* saved and the receipt rebuilt from it.  ExecuteService has the calls'   *)
(* concurrency and idempotency; here the contents are followed.            *)
(***************************************************************************)
EXTENDS ChaosInjection

CONSTANTS
  Catalog,        \* the capabilities registered, each with an adapter
  MaxTimeout,     \* the service's cap on a timeout
  SdkMaxTimeout,  \* the SDK client's cap on a timeout
  Environments,   \* the settings a runtime may be started with
  Calls,          \* the inputs a caller may send
  Latency,        \* what a latency fault waits
  Start, Tick, End,  \* the clock's first instant, its step and its bound
  Responses,      \* what a server may answer
  ExitCodes, OutputSizes  \* how a process may end

Capabilities == [adapter : STRING, name : Seq(STRING), version : STRING, default : Int]

ASSUME PipelineAssumption ==
  /\ Catalog \subseteq Capabilities
  /\ \A c \in Catalog : c \in NewCapability(c.adapter, c.name, c.version, c.default)
  /\ MaxTimeout \in Nat \ {0} /\ SdkMaxTimeout \in Nat \ {0} /\ Tick \in Nat \ {0}
  /\ Start \in Nat /\ Start >= Ms /\ Latency \in Nat /\ End \in Nat

\* What Go's types make sure of in an input; only a payload of http.request is
\* decoded into integers.  deadline is that of the context a caller of the SDK
\* brings, 0 without one; the HTTP server sets none.
ASSUME CallAssumption == \A in \in Calls :
  /\ in.front \in {"http", "sdk"} /\ in.ms \in Int64 /\ in.submitted \in Int
  /\ in.cap \in Capabilities /\ (in.flaw # "capability_name" => in.cap.name # <<>>)
  /\ in.payload.decodes \in BOOLEAN /\ in.payload.nul \in BOOLEAN /\ in.nul \in BOOLEAN
  /\ Canonical(in.cap).path = <<"http", "request">> =>
       in.payload.maxBody \in Int64 /\ in.payload.maxRedirects \in Int64
  /\ Canonical(in.cap).path = <<"filesystem", "write_file">> => in.payload.createDirs \in BOOLEAN
  /\ in.deadline \in Nat /\ (in.front = "http" => in.deadline = 0)

ASSUME OutsideAssumption ==
  /\ Responses \subseteq [status : Int, size : Nat, arrives : Nat, headers : Nat]
  /\ \A r \in Responses : r.arrives <= r.size
  /\ OutputSizes \subseteq Nat

VARIABLES
  env,       \* the settings
  profile,   \* the fault profile in force
  now,       \* the clock
  pc,        \* where the execution is
  call,      \* the input received
  x,         \* the execution: see Idle
  row,       \* the receipt's row in the database
  answer,    \* what the caller got
  got,       \* what GetReceipt returned
  acted,     \* has a process been started, a request sent or a tree touched
  store      \* the database: "ok", "refused" the row or stored it "unacknowledged"

vars == <<env, profile, now, pc, call, x, row, answer, got, acted, store>>
setting == <<env, profile>>
outside == <<row, answer, got, store>>

Nothing == [of |-> "nothing"]
Error == [of |-> "error"]
Refused == [of |-> "refused"]
Unreadable == [of |-> "unreadable"]

Idle == [req |-> Nothing, structural |-> FALSE, handle |-> Nothing, effective |-> 0, ctx |-> "none",
         started |-> 0, fault |-> NoFault, via |-> 0, resp |-> Nothing, raw |-> Nothing,
         receipt |-> Nothing]

Paths == {Canonical(c).path : c \in Catalog}
Path == Canonical(x.handle.cap).path

Init ==
  /\ env \in Environments /\ profile = NoProfile /\ now = Start /\ pc = "boot"
  /\ call = Nothing /\ x = Idle /\ acted = FALSE
  /\ row = Nothing /\ answer = Nothing /\ got = Nothing /\ store = "ok"

\* LoadConfig and MaybeWrapAdaptersWithChaos; a refusal ends the start.
Boot ==
  /\ pc = "boot"
  /\ \/ \E p \in MaybeWrap(env, Paths) : profile' = p /\ pc' = "idle"
     \/ MaybeWrap(env, Paths) = {} /\ pc' = "aborted" /\ UNCHANGED profile
  /\ UNCHANGED <<env, now, call, x, outside, acted>>

-----------------------------------------------------------------------------
(* Submission *)

\* The HTTP handler: the whole body, nothing after it, no cap on the timeout.
Decode(in) ==
  IF in.flaw \in {"too_large", "trailing"} THEN {} ELSE UnmarshalRequest(in, now)

\* The SDK: its own caps, an empty key means none, its clock stamps the request.
Build(in) ==
  IF in.flaw \in {"too_large", "content_type"} THEN {}
  ELSE UNION {NewExecutionRequest(in, d, k, now) :
                d \in NewTimeoutBudget(in.ms, SdkMaxTimeout),
                k \in IF in.key = "empty" THEN {NoKey} ELSE NewIdempotencyKey(in.key)}

Received(in) == IF in.front = "http" THEN Decode(in) ELSE Build(in)

Submit(in) ==
  /\ pc = "idle"
  /\ call' = in
  /\ \/ \E req \in Received(in) :
          /\ x' = [x EXCEPT !.req = req]
          /\ pc' = "resolve" /\ UNCHANGED answer
     \/ Received(in) = {} /\ answer' = Refused /\ pc' = "done" /\ UNCHANGED x
  /\ UNCHANGED <<setting, now, row, got, store, acted>>

-----------------------------------------------------------------------------
(* Resolution and dispatch *)

\* Mutant: the largest of the three.
minDurationLargest(ds) == CHOOSE d \in ds : \A e \in ds : e <= d

\* The smallest of the positive durations, 0 without any.
minDuration(ds) ==
  LET positive == {d \in ds : d > 0}
  IN IF positive = {} THEN 0 ELSE CHOOSE d \in positive : \A e \in positive : d <= e

Lookup(req) == {c \in Catalog : Canonical(c) = Canonical(req.cap)}

\* The pseudo-handle of a call that reaches no adapter.
PersistStructural(class) ==
  LET handle == NewExecutionHandle([x.req.cap EXCEPT !.default = Second], now)
      result == Failure(DefaultRetryHint(class), class, now)
  IN \E r \in NewExecutionReceipt(x.req, handle, result,
                                  mustBuildTimings(x.req.submitted, now, now), now) :
       /\ x' = [x EXCEPT !.receipt = r, !.structural = TRUE, !.handle = handle]
       /\ pc' = "persist"

\* Steps 3 to 6: capability, timeout, handle and the context of the run.
Resolve ==
  /\ pc = "resolve"
  /\ \/ Lookup(x.req) = {} /\ PersistStructural("capability_unknown")
     \/ \E cap \in Lookup(x.req) :
          LET effective == minDuration({x.req.budget, cap.default, MaxTimeout})
          IN IF effective <= 0 THEN PersistStructural("validation_failure")
             ELSE /\ x' = [x EXCEPT !.handle = NewExecutionHandle(cap, now),
                                    !.effective = effective]
                  /\ pc' = "dispatch"
  /\ UNCHANGED <<setting, now, call, outside, acted>>

Structural == [of |-> "structural"]
Panic == [of |-> "panic"]

\* The decorator: a fault of the profile takes the adapter's place.
Dispatch ==
  /\ pc = "dispatch"
  /\ LET fault == For(profile, Path)
         y == [x EXCEPT !.started = now, !.fault = fault]
         Returns(raw) == x' = [y EXCEPT !.raw = raw] /\ pc' = "returned"
     IN CASE fault = NoFault -> x' = y /\ pc' = "adapter"
          [] fault.kind = "latency" -> x' = y /\ pc' = "latency"
          [] fault.kind = "hang_until_cancel" -> x' = y /\ pc' = "hang"
          [] fault.kind = "inject_panic" -> Returns(Panic)
          [] fault.kind = "persist_failure" -> Returns(Structural)
          [] OTHER -> \/ \E raw \in SyntheticOutcome(Path, x.req.payload, fault) : Returns(raw)
                      \/ SyntheticOutcome(Path, x.req.payload, fault) = {} /\ Returns(Structural)
  /\ UNCHANGED <<setting, now, call, outside, acted>>

LatencyOver ==
  /\ pc = "latency" /\ now >= x.started + Latency
  /\ pc' = "adapter" /\ UNCHANGED <<setting, now, call, x, outside, acted>>

\* latency or hang_until_cancel sees the context end: an error, no outcome.
Interrupted ==
  /\ pc \in {"latency", "hang"} /\ x.ctx # "none"
  /\ x' = [x EXCEPT !.raw = Structural] /\ pc' = "returned"
  /\ UNCHANGED <<setting, now, call, outside, acted>>

-----------------------------------------------------------------------------
(* The adapters *)

Return(raw) == x' = [x EXCEPT !.raw = raw] /\ pc' = "returned"

\* The process starts, or the system refuses it (a NUL in an argument always).
ShellStart ==
  /\ pc = "adapter" /\ Path = <<"shell", "exec">>
  /\ LET p == x.req.payload
     IN \/ \E raw \in ShellRefuses(p, x.ctx) : Return(raw) /\ UNCHANGED acted
        \/ ShellRefuses(p, x.ctx) = {} /\ Return(ShellReturns(p, FALSE, 0, 0, x.ctx)) /\ UNCHANGED acted
        \/ /\ ShellRefuses(p, x.ctx) = {} /\ ~p.nul
           /\ acted' = TRUE /\ pc' = "process" /\ UNCHANGED x
  /\ UNCHANGED <<setting, now, call, outside>>

ShellEnd ==
  /\ pc = "process"
  /\ \E code \in ExitCodes, out \in OutputSizes :
       Return(ShellReturns(x.req.payload, TRUE, code, out, x.ctx))
  /\ UNCHANGED <<setting, now, call, outside, acted>>

HttpStart ==
  /\ pc = "adapter" /\ Path = <<"http", "request">>
  /\ LET refusal == HttpRefuses(x.req.payload, x.ctx)
     IN \/ \E raw \in refusal : Return(raw)
        \/ refusal = {} /\ pc' = "exchange" /\ UNCHANGED x
  /\ UNCHANGED <<setting, now, call, outside, acted>>

\* The request goes out, or client.Do fails before.
HttpSend ==
  /\ pc = "exchange"
  /\ \/ x' = [x EXCEPT !.via = @ + 1] /\ acted' = TRUE /\ pc' = "sent"
     \/ Return(DoFails(x.ctx, FALSE)) /\ UNCHANGED acted
  /\ UNCHANGED <<setting, now, call, outside>>

\* A redirect, a response, or no answer; the error may quote what the server sent.
HttpReceive ==
  /\ pc = "sent"
  /\ \/ IF CheckRedirect(x.req.payload, x.via) THEN pc' = "exchange" /\ UNCHANGED x
        ELSE Return(DoFails(x.ctx, FALSE))
     \/ \E resp \in Responses :
          /\ x' = [x EXCEPT !.resp = resp, !.raw = ReadBody(x.req.payload, resp, x.via)]
          /\ pc' = "returned"
     \/ \E nul \in BOOLEAN : Return(DoFails(x.ctx, nul))
  /\ UNCHANGED <<setting, now, call, outside, acted>>

\* write_file with create_dirs makes the directories before it checks the path
\* and its context.
MakesParents ==
  Path = <<"filesystem", "write_file">> /\ x.req.payload.decodes /\ x.req.payload.createDirs

\* The git and filesystem adapters: any outcome, see GitAdapter and FilesystemAdapter;
\* the text of git's may quote a remote or a repository.
OtherRun ==
  /\ pc = "adapter" /\ Path[1] \in {"git", "filesystem"}
  /\ \E validation, runErr, nul \in BOOLEAN :
       LET refused == validation \/ ~x.req.payload.decodes
       IN /\ refused => ~runErr
          /\ nul => Path[1] = "git"
          /\ Return([of |-> "other", ctxErr |-> x.ctx, runErr |-> runErr, validation |-> refused,
                     nul |-> nul])
          /\ acted' \in IF refused THEN {FALSE, MakesParents}
                        ELSE IF x.ctx = "none" THEN {TRUE} ELSE BOOLEAN
  /\ UNCHANGED <<setting, now, call, outside>>

OtherNormalize(r) ==
  LET result == IF r.ctxErr # "none" THEN CtxResult(r.ctxErr, now)
                ELSE IF r.validation THEN Failure("non_retryable", "validation_failure", now)
                ELSE IF r.runErr THEN Failure("unknown", "external_failure", now)
                ELSE Success(now)
  IN NewExecutionResult([result EXCEPT !.nul = r.nul])

Normalize(raw) ==
  CASE raw.of = "shell" -> ShellNormalize(raw, now)
    [] raw.of = "http" -> HttpNormalize(raw, now)
    [] OTHER -> OtherNormalize(raw)

-----------------------------------------------------------------------------
(* The result, its row and its answer *)

\* Steps 7b and 8: the context overrides the adapter, a failing normalizer
\* leaves a result of its own.
Classified ==
  IF x.ctx # "none" THEN CtxResult(x.ctx, now)
  ELSE IF x.raw \in {Structural, Panic}
  THEN Failure("non_retryable", "adapter_internal_error", now)
  ELSE IF Normalize(x.raw) = {} THEN Failure("non_retryable", "normalization_failure", now)
  ELSE CHOOSE r \in Normalize(x.raw) : TRUE

Classify ==
  /\ pc = "returned"
  /\ \E r \in NewExecutionReceipt(x.req, x.handle, Classified,
                                  mustBuildTimings(x.req.submitted, x.started, now), now) :
       x' = [x EXCEPT !.receipt = r]
  /\ pc' = "persist"
  /\ UNCHANGED <<setting, now, call, outside, acted>>

\* A NUL in a string of the request or the result.
HasNul(r) == r.req.payload.nul \/ r.req.nul \/ r.result.nul

\* A jsonb column keeps the value of a document, not its layout, and refuses
\* a NUL in a string.
Jsonb(w) == IF HasNul(w) THEN {} ELSE {[w EXCEPT !.req.payload.layout = "normal"]}

\* Mutant: the caller's context on both paths.
SaveCtxOverAlways == x.ctx # "none"

\* Save's context: the caller's on the structural path, none on the other.
SaveCtxOver == x.structural /\ x.ctx # "none"

Saved == UNION {Jsonb(w) : w \in MarshalReceipt(WithPersistedAt(x.receipt, now))}

\* Save: the row is stored, and told of or not; it is refused by the code or the
\* database's rules; or the database fails before it has the row.
Persist ==
  /\ pc = "persist"
  /\ \/ /\ ~PersistFault(profile) /\ ~SaveCtxOver
        /\ \E w \in Saved : row' = w
        /\ \/ answer' = WithPersistedAt(x.receipt, now) /\ UNCHANGED store
           \/ answer' = Error /\ store' = "unacknowledged"
     \/ /\ PersistFault(profile) \/ SaveCtxOver \/ Saved = {}
        /\ answer' = Error /\ UNCHANGED <<row, store>>
     \/ answer' = Error /\ store' = "refused" /\ UNCHANGED row
  /\ pc' = "done"
  /\ UNCHANGED <<setting, now, call, x, got, acted>>

\* GetReceipt, with or without the streams.
GetReceipt(streams) ==
  /\ pc = "done" /\ row # Nothing /\ got = Nothing
  /\ LET receipts == UnmarshalReceipt(row, now)
     IN \/ \E r \in receipts : got' = IF streams THEN r ELSE StripStreams(r)
        \/ receipts = {} /\ got' = Unreadable
  /\ UNCHANGED <<setting, now, pc, call, x, row, answer, store, acted>>

-----------------------------------------------------------------------------
(* Time and the caller *)

TimePasses ==
  /\ pc \notin {"boot", "aborted", "idle"} /\ got = Nothing /\ now + Tick <= End
  /\ now' = now + Tick
  /\ UNCHANGED <<setting, pc, call, x, outside, acted>>

InFlight == pc \notin {"boot", "aborted", "idle", "done"} /\ x.ctx = "none"

\* The deadline of the run, or the earlier one of the context the caller brought.
Expired(t) ==
  \/ x.effective > 0 /\ t >= x.handle.started + x.effective
  \/ call.deadline # 0 /\ t >= call.deadline

Deadline ==
  /\ InFlight /\ Expired(now)
  /\ x' = [x EXCEPT !.ctx = "deadline"]
  /\ UNCHANGED <<setting, now, pc, call, outside, acted>>

Cancel ==
  /\ InFlight /\ x' = [x EXCEPT !.ctx = "cancelled"]
  /\ UNCHANGED <<setting, now, pc, call, outside, acted>>

Next ==
  \/ Boot \/ (\E in \in Calls : Submit(in)) \/ Resolve \/ Dispatch \/ LatencyOver \/ Interrupted
  \/ ShellStart \/ ShellEnd \/ HttpStart \/ HttpSend \/ HttpReceive \/ OtherRun
  \/ Classify \/ Persist \/ (\E s \in BOOLEAN : GetReceipt(s))
  \/ TimePasses \/ Deadline \/ Cancel

Spec == Init /\ [][Next]_vars

-----------------------------------------------------------------------------
(* Properties *)

Told == answer \notin {Nothing, Error, Refused}

\* What GetReceipt rebuilds from the row is what the caller was answered, or would
\* have been had the database's acknowledgement not been lost, to the millisecond:
\* the dotted name of the capability, the wrapped budget and every instant survive
\* MarshalJSON, the jsonb column and UnmarshalJSON.  Only the payload's layout and,
\* when asked for, the streams differ; and a submitted_at in the millisecond of the
\* zero time is read as the time of reading.
ReadsBack ==
  got # Nothing =>
    /\ got # Unreadable
    /\ InMs(x.req.submitted) # NoTime =>
       LET sent == IF Told THEN answer ELSE WithPersistedAt(x.receipt, got.persisted)
           kept == IF got.result.stdout = NoStream THEN StripStreams(sent) ELSE sent
       IN MarshalReceipt(got) =
            {[w EXCEPT !.req.payload.layout = "normal"] : w \in MarshalReceipt(kept)}

\* However large the milliseconds asked for, and though their product may wrap,
\* a run gets no more than was asked, than its capability's default and than the
\* service's maximum; a timeout is told only once that much time, or the deadline
\* of the caller's own context, has passed; and the SDK lets a budget over its cap
\* through only when the product wraps.
NeverLongerThanAsked ==
  /\ x.effective > 0 =>
       x.effective <= call.ms * Ms /\ x.effective <= MaxTimeout /\ x.effective <= x.handle.cap.default
  /\ Told /\ answer.result.status = "timeout" =>
       \/ answer.timings.completed >= answer.handle.started + x.effective
       \/ call.deadline # 0 /\ answer.timings.completed >= call.deadline
  /\ x.req # Nothing /\ call.front = "sdk" /\ call.ms * Ms > SdkMaxTimeout =>
       call.ms * Ms >= 2^(Width - 1)

\* A call past validation is answered with a saved receipt even when it was
\* cancelled or timed out, and a receipt nobody was told of is stored only when the
\* database's acknowledgement was lost.  A call is left with an error only by an
\* injected persistence fault, a database that refuses the row or does not
\* acknowledge it, a NUL in a string of the request or the result, a submitted_at
\* outside the years 0 to 9999, or its context's end before any adapter ran.
ReceiptKept ==
  /\ Told => row # Nothing
  /\ row # Nothing => Told \/ store = "unacknowledged"
  /\ answer = Error =>
       \/ PersistFault(profile) \/ store # "ok" \/ HasNul(x.receipt)
       \/ x.req.submitted \notin FirstInstant .. LastInstant
       \/ (x.structural /\ x.ctx # "none")

\* Production injects nothing.  Elsewhere a fault other than latency keeps the
\* real adapter from acting; what ValidateProfileSupport let through never ends
\* as a structural error, save persist_failure under an adapter; and an imitation
\* succeeds only as the profile's exit code or the caller's statuses ask for.
InjectionContained ==
  /\ env.runtime = "production" => profile = NoProfile
  /\ x.fault.kind \notin {"none", "latency"} => ~acted
  /\ x.receipt # Nothing /\ x.receipt.result.class = "adapter_internal_error" =>
       x.fault.kind \in {"inject_panic", "persist_failure"}
  /\ x.receipt # Nothing /\ x.receipt.result.status = "success"
       /\ x.fault.kind \notin {"none", "latency"} =>
       \/ x.fault.kind = "process_exit" /\ x.fault.arg = 0
       \/ x.fault.kind = "auth_failure" /\ 401 \in x.req.payload.expected

\* A receipt says what was done: a refused payload or unknown capability left
\* nothing started, sent or touched, save the directories a write_file was asked
\* to make; a success did act, unless the caller counts -1, the
\* code of a process that never started, as one; and only an answer whose headers
\* outgrow the metadata is a normalization failure, after the server acted.
EffectTold ==
  x.receipt # Nothing =>
    LET result == x.receipt.result
    IN /\ result.class = "capability_unknown" => ~acted
       /\ result.class = "validation_failure" => ~acted \/ MakesParents
       /\ result.status = "success" =>
            \/ acted \/ x.fault.kind \notin {"none", "latency"}
            \/ Path = <<"shell", "exec">> /\ -1 \in x.req.payload.exitSuccess
       /\ result.class = "normalization_failure" =>
            acted /\ x.resp # Nothing /\ x.resp.headers >= MaxAdapterMeta

\* The receipt's instants are in order, unless the caller's own submitted_at is
\* ahead of the clock: mustBuildTimings takes it for one.
TimesInOrder ==
  Told => /\ answer.timings.started <= answer.timings.completed
          /\ answer.timings.completed <= answer.persisted
          /\ answer.timings.submitted <= answer.timings.started
               \/ (call.front = "http" /\ call.submitted > Start)

\* The HTTP adapter sends no more requests than its redirect limit, keeps no
\* more of a body than its limit and counts all of it, unless the limit plus
\* one wraps or the connection ends while the rest is counted.
HttpWithinLimits ==
  /\ x.via > 0 => x.via <= RedirectLimit(x.req.payload)
  /\ x.resp # Nothing /\ ~x.raw.runErr =>
       /\ x.raw.body <= BodyLimit(x.req.payload)
       /\ x.raw.total = x.resp.size
            \/ BodyLimit(x.req.payload) + 1 >= 2^(Width - 1)
            \/ (x.raw.truncated /\ x.resp.arrives < x.resp.size)
=============================================================================
