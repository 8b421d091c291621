--------------------------- MODULE ExecutionDomain ---------------------------
(***************************************************************************)
(* The execution domain: requests, handles, results and receipts, the      *)
(* conditions their constructors check and what their JSON keeps of them.  *)
(* A constructor that can fail yields a set: what it built, or nothing.    *)
(* Instants and durations are in the clock's smallest unit; JSON carries   *)
(* some of them in milliseconds.  A string is named for what the code sees *)
(* in it: "empty", "malformed".                                            *)
(***************************************************************************)
EXTENDS Integers, Sequences

CONSTANTS
  Width,              \* bits of Go's int64
  Ms,                 \* clock units in a millisecond
  MaxAdapterMeta,     \* bound on the bytes of adapter_meta
  InlineStreamLimit,  \* bytes of a stream a receipt carries
  FirstInstant, LastInstant  \* what encoding/json can write: years 0 to 9999

ASSUME WidthAssumption == Width \in Nat \ {0, 1} /\ Ms \in Nat \ {0}
\* What the proofs use of exponentiation, which their provers know nothing of.
ASSUME PowerAssumption == 2^(Width - 1) \in Nat \ {0} /\ 2^Width = 2 * 2^(Width - 1)
ASSUME LimitAssumption ==
  /\ MaxAdapterMeta \in Nat \ {0} /\ InlineStreamLimit \in Nat \ {0}
  /\ FirstInstant \in Int /\ LastInstant \in Int

\* The values of an int64.
Int64 == -(2^(Width - 1)) .. 2^(Width - 1) - 1

\* Go's signed arithmetic: what is left of x in Width bits.
Signed(x) == ((x + 2^(Width - 1)) % 2^Width) - 2^(Width - 1)

\* Duration.Milliseconds: integer division, towards zero.
Milliseconds(d) == IF d >= 0 THEN d \div Ms ELSE -((-d) \div Ms)

\* An instant as the millisecond formats of the wire leave it.
InMs(t) == (t \div Ms) * Ms

\* time.Second, which stands for the default timeout of a handle read back.
Second == 1000 * Ms

NoKey == "no key"
NoTime == 0   \* the zero time, in year 1

-----------------------------------------------------------------------------
(* Capabilities.  A name is the sequence of its dotted parts. *)

NewCapability(adapter, name, version, default) ==
  IF Len(name) > 0 /\ default > 0
  THEN {[adapter |-> adapter, name |-> name, version |-> version, default |-> default]}
  ELSE {}

Canonical(c) == [path |-> <<c.adapter>> \o c.name, version |-> c.version]

-----------------------------------------------------------------------------
(* Requests *)

\* The multiplication comes before the comparison with the maximum.
NewTimeoutBudget(ms, max) ==
  {d \in {Signed(ms * Ms)} : ms > 0 /\ (max > 0 => d <= max)}

NewIdempotencyKey(key) == {key} \ {"empty", "malformed"}

\* flaw names the one field of the input that is ill-formed, if one is; nul says
\* whether an actor_id, task_id or workflow_run_id, of which only the length is
\* checked, holds a NUL.
NewExecutionRequest(in, budget, key, submitted) ==
  IF /\ in.flaw \notin {"correlation_id", "adapter_id", "capability_name", "payload",
                        "metadata_id", "retry_attempt"}
     /\ Milliseconds(budget) > 0
  THEN {[cap |-> in.cap, payload |-> in.payload, budget |-> budget, key |-> key,
         submitted |-> submitted, nul |-> in.nul]}
  ELSE {}

\* submitted_at comes with the request; the clock is read without it, and for the
\* zero time.
UnmarshalRequest(w, now) ==
  IF w.flaw \in {"malformed_json", "submitted_at"} THEN {}
  ELSE UNION {NewExecutionRequest(w, d, k, IF w.submitted = NoTime THEN now ELSE w.submitted) :
                d \in NewTimeoutBudget(w.ms, 0),
                k \in IF w.key = NoKey THEN {NoKey} ELSE NewIdempotencyKey(w.key)}

MarshalRequest(r) ==
  [cap |-> r.cap, payload |-> r.payload, ms |-> Milliseconds(r.budget), key |-> r.key,
   submitted |-> InMs(r.submitted), nul |-> r.nul, flaw |-> "none"]

-----------------------------------------------------------------------------
(* Handles *)

NewExecutionHandle(cap, now) == [cap |-> cap, started |-> now]

MarshalHandle(h) ==
  [adapter |-> h.cap.adapter, capability |-> Canonical(h.cap), started |-> InMs(h.started)]

\* Mutant: the name is taken to be what follows the last dot.
UnmarshalHandleLastDot(w) ==
  LET path == w.capability.path
  IN {[cap |-> c, started |-> w.started] :
        c \in NewCapability(w.adapter, <<path[Len(path)]>>, w.capability.version, Second)}

\* The canonical name is cut at its first dot; the registry's timeout is lost.
UnmarshalHandle(w) ==
  {[cap |-> c, started |-> w.started] :
     c \in NewCapability(w.adapter, Tail(w.capability.path), w.capability.version, Second)}

-----------------------------------------------------------------------------
(* Results *)

NoStream == [mode |-> "none", kept |-> 0, size |-> 0]
NoExit == 999   \* no exit code

NewStreamRef(data, total) ==
  IF data > total \/ total < 0 THEN {}
  ELSE IF total <= InlineStreamLimit
  THEN {[mode |-> "inline", kept |-> data, size |-> total]}
  ELSE {[mode |-> "truncated", size |-> total,
         kept |-> IF data < InlineStreamLimit THEN data ELSE InlineStreamLimit]}

\* A result without streams, exit code and metadata.  Durations are left out;
\* nul says whether its text, where it quotes another system's, holds a NUL.
PlainResult(status, hint, class, now) ==
  [status |-> status, hint |-> hint, class |-> class, message |-> status # "success",
   stdout |-> NoStream, exit |-> NoExit, meta |-> 0, bytes |-> 0, completed |-> now,
   nul |-> FALSE]

Success(now) == PlainResult("success", "non_retryable", "none", now)
Failure(hint, class, now) == PlainResult("failure", hint, class, now)

\* The result of a context that ended; ctx is "deadline" or "cancelled".
CtxResult(ctx, now) ==
  IF ctx = "deadline" THEN PlainResult("timeout", "retryable", "timeout", now)
  ELSE PlainResult("cancelled", "non_retryable", "cancelled", now)

DefaultRetryHint(class) ==
  IF class \in {"timeout", "interrupted"} THEN "retryable"
  ELSE IF class = "external_failure" THEN "unknown" ELSE "non_retryable"

NewExecutionResult(r) ==
  IF /\ r.status = "success" => r.class = "none" /\ ~r.message
     /\ r.status = "timeout" => r.class = "timeout"
     /\ r.status = "cancelled" => r.class = "cancelled"
     /\ r.status \in {"failure", "partial"} => r.class # "none" /\ r.message
     /\ r.meta <= MaxAdapterMeta /\ r.bytes >= 0
  THEN {r} ELSE {}

StripStreams(r) == [r EXCEPT !.result.stdout = NoStream]

-----------------------------------------------------------------------------
(* Receipts *)

\* Mutant: two of the instants are passed in each other's place.
mustBuildTimingsSwapped(submitted, started, completed) ==
  [submitted |-> submitted, started |-> completed, completed |-> started]

\* The instants are taken as they come, in order or not.
mustBuildTimings(submitted, started, completed) ==
  [submitted |-> submitted, started |-> started, completed |-> completed]

NewExecutionReceipt(req, handle, result, timings, now) ==
  IF timings.submitted # NoTime
  THEN {[req |-> req, handle |-> handle, result |-> result, timings |-> timings,
         created |-> now, persisted |-> NoTime]}
  ELSE {}

WithPersistedAt(r, now) == [r EXCEPT !.persisted = now]

\* Results and timings keep their instants whole, the others lose the fraction
\* of the millisecond.  Only the former can be outside the years that are written.
MarshalReceipt(r) ==
  IF r.timings.submitted \notin FirstInstant .. LastInstant THEN {}
  ELSE {[r EXCEPT !.req = MarshalRequest(@), !.handle = MarshalHandle(@),
                  !.created = InMs(@), !.persisted = InMs(@)]}

UnmarshalReceipt(w, now) ==
  {[w EXCEPT !.req = q, !.handle = h] :
     q \in UnmarshalRequest(w.req, now), h \in UnmarshalHandle(w.handle)}
=============================================================================
