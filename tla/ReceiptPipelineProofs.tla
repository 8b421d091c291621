----------------------- MODULE ReceiptPipelineProofs -----------------------
(***************************************************************************)
(* Theorems about ReceiptPipeline, for every catalog, width of the         *)
(* integers, set of inputs, settings, responses and clock.                 *)
(***************************************************************************)
EXTENDS ReceiptPipeline, TLAPS

\* The constants, as the leaves below use them.
LEMMA Constants ==
  /\ MaxTimeout \in Nat \ {0} /\ SdkMaxTimeout \in Nat \ {0} /\ Tick \in Nat \ {0}
  /\ Ms \in Nat \ {0} /\ Start \in Nat /\ Start >= Ms
BY PipelineAssumption, WidthAssumption

-----------------------------------------------------------------------------
(* Arithmetic of Width bits *)

\* The product of a timeout wraps downwards only: it never gains.
LEMMA SignedNeverGains ==
  ASSUME NEW n \in Nat
  PROVE  Signed(n) \in Int64 /\ Signed(n) <= n
<1> DEFINE h == 2^(Width - 1)
<1>1. h \in Nat \ {0} /\ 2^Width = 2 * h
  BY PowerAssumption
<1> HIDE DEF h
<1>2. (n + h) % (2 * h) \in 0 .. 2 * h - 1 /\ (n + h) % (2 * h) <= n + h
  BY <1>1
<1>3. Signed(n) = ((n + h) % (2 * h)) - h /\ Int64 = -h .. h - 1
  BY <1>1 DEF Signed, Int64, h
<1> QED
  BY <1>1, <1>2, <1>3

\* Below the sign bit nothing is lost.
LEMMA SignedKeepsSmall ==
  ASSUME NEW n \in Nat, n < 2^(Width - 1)
  PROVE  Signed(n) = n
<1> DEFINE h == 2^(Width - 1)
<1>1. h \in Nat \ {0} /\ 2^Width = 2 * h /\ n < h
  BY PowerAssumption
<1> HIDE DEF h
<1>2. (n + h) % (2 * h) = n + h
  BY <1>1
<1>3. Signed(n) = ((n + h) % (2 * h)) - h
  BY <1>1 DEF Signed, h
<1> QED
  BY <1>1, <1>2, <1>3

\* What is left of an instant after the wire stays so.
LEMMA InMsStable ==
  ASSUME NEW t \in Int
  PROVE  InMs(t) \in Int /\ InMs(InMs(t)) = InMs(t)
<1>1. Ms \in Nat \ {0}
  BY WidthAssumption
<1>2. t \div Ms \in Int
  BY <1>1
<1>3. ((t \div Ms) * Ms) \div Ms = t \div Ms
  BY <1>1, <1>2
<1> QED
  BY <1>1, <1>2, <1>3 DEF InMs

\* A positive budget of whole milliseconds survives the wire.
LEMMA BudgetRoundTrip ==
  ASSUME NEW d \in Int64, Milliseconds(d) > 0
  PROVE  LET m == Milliseconds(d)
             e == Signed(m * Ms)
         IN m \in Nat /\ e \in Int64 /\ Milliseconds(e) = m /\ NewTimeoutBudget(m, 0) = {e}
<1> DEFINE m == Milliseconds(d)
           e == Signed(m * Ms)
<1>1. Ms \in Nat \ {0} /\ 2^(Width - 1) \in Nat \ {0}
  BY WidthAssumption, PowerAssumption
<1>2. d \in Int /\ d < 2^(Width - 1)
  BY <1>1 DEF Int64
<1>3. d > 0 /\ m = d \div Ms
  <2>1. CASE d >= 0
    <3>1. m = d \div Ms
      BY <2>1 DEF Milliseconds
    <3>2. d # 0
      <4>1. 0 \div Ms = 0
        BY <1>1
      <4> QED
        BY <3>1, <4>1
    <3> QED
      BY <1>2, <2>1, <3>1, <3>2
  <2>2. CASE d < 0
    <3>1. m = -((-d) \div Ms) /\ (-d) \div Ms \in Nat
      BY <1>1, <1>2, <2>2 DEF Milliseconds
    <3> QED
      BY <3>1
  <2> QED
    BY <1>2, <2>1, <2>2
<1>4. m \in Nat /\ m * Ms \in Nat /\ m * Ms <= d
  BY <1>1, <1>2, <1>3
<1>5. e = m * Ms
  BY <1>1, <1>2, <1>4, SignedKeepsSmall
<1>6. e \in Int64
  BY <1>4, SignedNeverGains
<1>7. Milliseconds(e) = m
  <2>1. (m * Ms) \div Ms = m
    BY <1>1, <1>4
  <2> QED
    BY <1>4, <1>5, <2>1 DEF Milliseconds
<1>8. NewTimeoutBudget(m, 0) = {e}
  BY DEF NewTimeoutBudget
<1> QED
  BY <1>4, <1>6, <1>7, <1>8

-----------------------------------------------------------------------------
(* Requests *)

\* What a decoder lets through, of the input in.
Accepted(in, q) ==
  /\ q = [cap |-> in.cap, payload |-> in.payload, budget |-> q.budget, key |-> q.key,
          submitted |-> q.submitted, nul |-> in.nul]
  /\ in.cap.name # <<>>
  /\ q.budget \in Int64 /\ q.budget > 0 /\ Milliseconds(q.budget) > 0 /\ q.budget <= in.ms * Ms
  /\ q.key \notin {"empty", "malformed"}
  /\ q.submitted \in Int /\ q.submitted # NoTime
  /\ in.front = "sdk" /\ in.ms * Ms > SdkMaxTimeout => in.ms * Ms >= 2^(Width - 1)

\* submitted is not past t, unless the caller made it so.
Punctual(in, submitted, t) ==
  submitted <= t \/ (in.front = "http" /\ in.submitted > Start)

\* A budget that its constructor accepts is positive, whatever wrapped.
LEMMA PositiveBudget ==
  ASSUME NEW d \in Int64, Milliseconds(d) > 0
  PROVE  d > 0
<1>1. Ms \in Nat \ {0} /\ d \in Int
  BY WidthAssumption, PowerAssumption DEF Int64
<1>2. CASE d < 0
  <2>1. Milliseconds(d) = -((-d) \div Ms) /\ (-d) \div Ms \in Nat
    BY <1>1, <1>2 DEF Milliseconds
  <2> QED
    BY <2>1
<1>3. CASE d = 0
  <2>1. Milliseconds(d) = 0 \div Ms /\ 0 \div Ms = 0
    BY <1>1, <1>3 DEF Milliseconds
  <2> QED
    BY <2>1
<1> QED
  BY <1>1, <1>2, <1>3

\* And it is no longer than what was asked for.
LEMMA BudgetBounded ==
  ASSUME NEW ms \in Int64, NEW max \in Nat, NEW d \in NewTimeoutBudget(ms, max)
  PROVE  /\ d \in Int64 /\ d <= ms * Ms
         /\ max > 0 /\ ms * Ms > max => ms * Ms >= 2^(Width - 1)
<1>1. /\ d = Signed(ms * Ms) /\ ms > 0 /\ (max > 0 => d <= max)
      /\ Ms \in Nat \ {0} /\ 2^(Width - 1) \in Nat /\ ms \in Int
  BY WidthAssumption, PowerAssumption DEF NewTimeoutBudget, Int64
<1>2. ms * Ms \in Nat
  BY <1>1
<1>3. d \in Int64 /\ d <= ms * Ms
  BY <1>1, <1>2, SignedNeverGains
<1>4. ASSUME max > 0, ms * Ms > max, ~(ms * Ms >= 2^(Width - 1))
      PROVE  FALSE
  BY <1>1, <1>2, <1>4, SignedKeepsSmall
<1> QED
  BY <1>3, <1>4

LEMMA BuiltIsAccepted ==
  ASSUME NEW in \in Calls, NEW max \in Nat, NEW d \in NewTimeoutBudget(in.ms, max),
         NEW k, k \notin {"empty", "malformed"}, NEW t \in Int, t # NoTime,
         in.front = "sdk" => max = SdkMaxTimeout /\ max > 0,
         NEW q \in NewExecutionRequest(in, d, k, t)
  PROVE  Accepted(in, q) /\ q.submitted = t
<1>1. /\ q = [cap |-> in.cap, payload |-> in.payload, budget |-> d, key |-> k, submitted |-> t,
              nul |-> in.nul]
      /\ in.flaw # "capability_name" /\ Milliseconds(d) > 0
  BY DEF NewExecutionRequest
<1>2. in.ms \in Int64 /\ in.cap.name # <<>>
  BY <1>1, CallAssumption
<1>3. /\ d \in Int64 /\ d <= in.ms * Ms
      /\ max > 0 /\ in.ms * Ms > max => in.ms * Ms >= 2^(Width - 1)
  BY <1>2, BudgetBounded
<1>4. d > 0
  BY <1>1, <1>3, PositiveBudget
<1>5. in.front = "sdk" /\ in.ms * Ms > SdkMaxTimeout => in.ms * Ms >= 2^(Width - 1)
  BY <1>3
<1>6. q.budget = d /\ q.key = k /\ q.submitted = t
  BY <1>1
<1> QED
  BY <1>1, <1>2, <1>3, <1>4, <1>5, <1>6 DEF Accepted

LEMMA BuiltFrom ==
  ASSUME NEW in, NEW q, q \in Build(in)
  PROVE  \E d, k :
           /\ d \in NewTimeoutBudget(in.ms, SdkMaxTimeout)
           /\ k \in IF in.key = "empty" THEN {NoKey} ELSE NewIdempotencyKey(in.key)
           /\ q \in NewExecutionRequest(in, d, k, now)
BY DEF Build

\* Whatever the HTTP decoder or the SDK accept is an acceptable request.
LEMMA ReceivedIsAccepted ==
  ASSUME NEW in \in Calls, now \in Nat, now >= Start, NEW q \in Received(in)
  PROVE  Accepted(in, q) /\ Punctual(in, q.submitted, now)
<1>1. now # NoTime /\ Start \in Nat
  BY Constants DEF NoTime
<1>2. NoKey \notin {"empty", "malformed"}
  BY DEF NoKey
<1>3. in.front \in {"http", "sdk"} /\ in.submitted \in Int
  BY CallAssumption
<1>4. CASE in.front = "http"
  <2> DEFINE t == IF in.submitted = NoTime THEN now ELSE in.submitted
  <2>1. PICK d, k :
          /\ d \in NewTimeoutBudget(in.ms, 0)
          /\ k \in IF in.key = NoKey THEN {NoKey} ELSE NewIdempotencyKey(in.key)
          /\ q \in NewExecutionRequest(in, d, k, t)
    BY <1>4 DEF Received, Decode, UnmarshalRequest
  <2>2. k \notin {"empty", "malformed"}
    BY <1>2, <2>1 DEF NewIdempotencyKey
  <2>3. t \in Int /\ t # NoTime
    BY <1>1, <1>3
  <2>4. Accepted(in, q) /\ q.submitted = t
    BY <1>4, <2>1, <2>2, <2>3, BuiltIsAccepted
  <2> QED
    BY <1>1, <1>3, <1>4, <2>4 DEF Punctual
<1>5. CASE in.front = "sdk"
  <2>0. q \in Build(in)
    BY <1>5 DEF Received
  <2>1. PICK d, k :
          /\ d \in NewTimeoutBudget(in.ms, SdkMaxTimeout)
          /\ k \in IF in.key = "empty" THEN {NoKey} ELSE NewIdempotencyKey(in.key)
          /\ q \in NewExecutionRequest(in, d, k, now)
    BY <2>0, BuiltFrom
  <2>2. k \notin {"empty", "malformed"}
    BY <1>2, <2>1 DEF NewIdempotencyKey
  <2>3. SdkMaxTimeout \in Nat /\ SdkMaxTimeout > 0 /\ now \in Int
    BY Constants
  <2>4. Accepted(in, q) /\ q.submitted = now
    BY <1>1, <2>1, <2>2, <2>3, BuiltIsAccepted
  <2> QED
    BY <2>4 DEF Punctual
<1> QED
  BY <1>3, <1>4, <1>5

\* The smallest of three durations, all of them positive, is one of them and no
\* larger than the others.
LEMMA MinDurationIsLeast ==
  ASSUME NEW a \in Nat \ {0}, NEW b \in Nat \ {0}, NEW c \in Nat \ {0}
  PROVE  LET m == minDuration({a, b, c})
         IN m \in Nat \ {0} /\ m <= a /\ m <= b /\ m <= c
<1> DEFINE S == {a, b, c}
           Least(d) == \A e \in S : d <= e
<1>1. {d \in S : d > 0} = S /\ S # {}
  OBVIOUS
<1>2. minDuration(S) = CHOOSE d \in S : Least(d)
  BY <1>1 DEF minDuration
<1>3. \E d \in S : Least(d)
  <2>1. CASE a <= b /\ a <= c
    BY <2>1
  <2>2. CASE b <= a /\ b <= c
    BY <2>2
  <2>3. CASE c <= a /\ c <= b
    BY <2>3
  <2> QED
    BY <2>1, <2>2, <2>3
<1>4. minDuration(S) \in S /\ Least(minDuration(S))
  BY <1>2, <1>3
<1> QED
  BY <1>4

-----------------------------------------------------------------------------
(* The invariant *)

Fields == {"req", "structural", "handle", "effective", "ctx", "started", "fault", "via", "resp",
           "raw", "receipt"}
Shaped(y) == y = [f \in Fields |-> y[f]]
Same(y, z, F) == \A f \in Fields \ F : z[f] = y[f]
Fresh(F) == \A f \in F : x[f] = Idle[f]

Contexts == {"none", "deadline", "cancelled"}
Early == {"boot", "aborted", "idle"}
Working == {"adapter", "process", "exchange", "sent"}
Places == Early \cup Working \cup
          {"resolve", "dispatch", "latency", "hang", "returned", "persist", "done"}

Typed ==
  /\ pc \in Places /\ acted \in BOOLEAN /\ now \in Nat /\ now >= Start
  /\ Shaped(x)
  /\ x.structural \in BOOLEAN /\ x.ctx \in Contexts
  /\ x.effective \in Nat /\ x.started \in Nat /\ x.via \in Nat

\* A call is followed from the moment it is accepted; before, and when it was
\* refused, there is nothing of it.
Asked ==
  /\ pc # "done" => answer = Nothing /\ row = Nothing /\ got = Nothing
  /\ x.req = Nothing => /\ x = Idle /\ ~acted /\ row = Nothing /\ got = Nothing
                        /\ pc \in Early \/ (pc = "done" /\ answer = Refused)
  /\ x.req # Nothing => /\ pc \notin Early /\ answer # Refused /\ call \in Calls
                        /\ Accepted(call, x.req) /\ Punctual(call, x.req.submitted, now)

\* What each place has not set yet.
Staged ==
  /\ pc = "resolve" => Fresh(Fields \ {"req", "ctx"})
  /\ pc = "dispatch" => Fresh(Fields \ {"req", "ctx", "handle", "effective"})
  /\ pc \in {"latency", "hang", "adapter", "process"} =>
       Fresh({"structural", "via", "resp", "raw", "receipt"})
  /\ pc \in {"exchange", "sent"} => Fresh({"structural", "resp", "raw", "receipt"})
  /\ pc = "returned" => Fresh({"structural", "receipt"})
  /\ pc \in {"resolve", "dispatch", "latency", "hang", "adapter"} => ~acted
  /\ x.structural => /\ Fresh({"effective", "started", "fault", "via", "resp", "raw"}) /\ ~acted
                     /\ pc \in {"persist", "done"}

\* The handle, and the time of a run on an adapter.
Handled ==
  /\ x.req # Nothing /\ pc # "resolve" =>
       /\ x.handle = [cap |-> x.handle.cap, started |-> x.handle.started]
       /\ x.handle.cap \in Capabilities /\ Canonical(x.handle.cap) = Canonical(x.req.cap)
       /\ x.handle.started \in Nat
  /\ x.req # Nothing /\ pc # "resolve" /\ ~x.structural =>
       /\ x.effective > 0 /\ x.effective <= x.req.budget /\ x.effective <= MaxTimeout
       /\ x.effective <= x.handle.cap.default
  /\ x.ctx = "deadline" => Expired(now)

Dispatched == x.req # Nothing /\ pc \notin {"resolve", "dispatch"} /\ ~x.structural

\* What the two validators of a profile leave.
Supported(kind, path) ==
  /\ kind \in AllFaultKinds
  /\ kind \in DecoratorNative \cup {"persist_failure"} \cup SupportedChaosFaults(path)

Genuine == x.fault.kind \in {"none", "latency"}

Injected ==
  /\ \A c \in DOMAIN profile.adapters : Supported(profile.adapters[c].kind, c)
  /\ env.runtime = "production" => profile = NoProfile
  /\ ~Dispatched => x.fault = NoFault
  /\ Dispatched => /\ x.fault = NoFault \/ Supported(x.fault.kind, Path)
                   /\ x.started <= now /\ Punctual(call, x.req.submitted, x.started)
  /\ pc \in Working \/ acted => Genuine
  /\ pc = "latency" => x.fault.kind = "latency"
  /\ pc = "hang" => x.fault.kind = "hang_until_cancel"

Exchanged ==
  /\ pc = "process" => Path = <<"shell", "exec">> /\ acted
  /\ pc \in {"exchange", "sent"} => Path = <<"http", "request">>
  /\ pc = "exchange" => x.via < RedirectLimit(x.req.payload)
  /\ pc = "sent" => acted
  /\ x.via > 0 => x.via <= RedirectLimit(x.req.payload)
  /\ x.resp # Nothing => /\ x.resp \in Responses /\ acted /\ Path = <<"http", "request">>
                         /\ x.raw = ReadBody(x.req.payload, x.resp, x.via)

\* What a success may rest on: the adapter acted, or the caller or the profile
\* asked for it.
Earned ==
  \/ acted
  \/ Genuine /\ Path = <<"shell", "exec">> /\ -1 \in x.req.payload.exitSuccess
  \/ x.fault.kind = "process_exit" /\ x.fault.arg = 0
  \/ x.fault.kind = "auth_failure" /\ 401 \in x.req.payload.expected

\* What an adapter, or its imitation, returned with its context live.
ShellSound(r) ==
  /\ r.ctxErr = "none" /\ r.validation \in BOOLEAN /\ r.out \in Nat
  /\ r.validation => ~acted
  /\ ~r.validation /\ r.exit \in r.exitSuccess => Earned

HttpSound(r) ==
  /\ r.ctxErr = "none" /\ r.validation \in BOOLEAN /\ r.runErr \in BOOLEAN
  /\ r.headers \in Nat /\ r.total \in Nat
  /\ r.validation => ~acted
  /\ r.headers >= MaxAdapterMeta => acted /\ x.resp # Nothing /\ x.resp.headers = r.headers
  /\ ~r.validation /\ ~r.runErr /\ r.status \in (IF r.expected = {} THEN 200 .. 299 ELSE r.expected)
       => Earned

OtherSound(r) ==
  /\ r.ctxErr = "none" /\ r.validation \in BOOLEAN /\ r.runErr \in BOOLEAN
  /\ r.validation => ~acted \/ MakesParents
  /\ ~r.validation /\ ~r.runErr => Earned

Sound(r) ==
  \/ r.of = "shell" /\ ShellSound(r)
  \/ r.of = "http" /\ HttpSound(r)
  \/ r.of = "other" /\ OtherSound(r)

Returned ==
  pc = "returned" /\ x.ctx = "none" =>
    \/ x.raw = Structural /\ x.fault.kind = "persist_failure"
    \/ x.raw = Panic /\ x.fault.kind = "inject_panic"
    \/ Sound(x.raw)

\* What the result of a receipt says is so.
ResultFields ==
  {"status", "hint", "class", "message", "stdout", "exit", "meta", "bytes", "completed", "nul"}

Judged(r) ==
  /\ r = [f \in ResultFields |-> r[f]]
  /\ r.class = "capability_unknown" => ~acted
  /\ r.class = "validation_failure" => ~acted \/ MakesParents
  /\ r.class = "adapter_internal_error" => x.fault.kind \in {"inject_panic", "persist_failure"}
  /\ r.class = "normalization_failure" =>
       acted /\ x.resp # Nothing /\ x.resp.headers >= MaxAdapterMeta
  /\ r.status = "success" => Earned
  /\ r.status = "timeout" => x.ctx = "deadline"

Reported ==
  /\ x.receipt # Nothing <=> x.req # Nothing /\ pc \in {"persist", "done"}
  /\ x.receipt # Nothing =>
       LET r == x.receipt
           t == r.timings
       IN /\ r = [req |-> x.req, handle |-> x.handle, result |-> r.result, timings |-> t,
                  created |-> r.created, persisted |-> NoTime]
          /\ t = [submitted |-> x.req.submitted, started |-> t.started, completed |-> t.completed]
          /\ t.started \in Nat /\ t.completed \in Nat /\ r.created \in Nat
          /\ t.started <= t.completed /\ t.completed <= now
          /\ Punctual(call, x.req.submitted, t.started)
          /\ Judged(r.result)
          /\ r.result.status = "timeout" => Expired(t.completed)

\* What became of the receipt.
Excused ==
  \/ PersistFault(profile) \/ store # "ok" \/ HasNul(x.receipt)
  \/ x.req.submitted \notin FirstInstant .. LastInstant \/ (x.structural /\ x.ctx # "none")

Delivered ==
  pc = "done" /\ x.req # Nothing =>
    \/ answer = Error /\ row = Nothing /\ got = Nothing /\ Excused
    \/ \E t \in Nat :
         /\ x.receipt.timings.completed <= t
         /\ \/ answer = WithPersistedAt(x.receipt, t)
            \/ answer = Error /\ store = "unacknowledged"
         /\ row \in UNION {Jsonb(w) : w \in MarshalReceipt(WithPersistedAt(x.receipt, t))}

IInv ==
  /\ Typed /\ Asked /\ Staged /\ Handled /\ Injected /\ Exchanged /\ Returned /\ Reported
  /\ Delivered /\ ReadsBack

-----------------------------------------------------------------------------
(* What an update of x leaves alone *)

LEMMA SetOne ==
  ASSUME NEW y, NEW z, NEW v, Shaped(y)
  PROVE  /\ z = [y EXCEPT !.req = v] => Shaped(z) /\ z.req = v /\ Same(y, z, {"req"})
         /\ z = [y EXCEPT !.raw = v] => Shaped(z) /\ z.raw = v /\ Same(y, z, {"raw"})
         /\ z = [y EXCEPT !.ctx = v] => Shaped(z) /\ z.ctx = v /\ Same(y, z, {"ctx"})
         /\ z = [y EXCEPT !.via = v] => Shaped(z) /\ z.via = v /\ Same(y, z, {"via"})
         /\ z = [y EXCEPT !.receipt = v] => Shaped(z) /\ z.receipt = v /\ Same(y, z, {"receipt"})
<1>1. z = [y EXCEPT !.req = v] => Shaped(z) /\ z.req = v /\ Same(y, z, {"req"})
  BY DEF Shaped, Fields, Same
<1>2. z = [y EXCEPT !.raw = v] => Shaped(z) /\ z.raw = v /\ Same(y, z, {"raw"})
  BY DEF Shaped, Fields, Same
<1>3. z = [y EXCEPT !.ctx = v] => Shaped(z) /\ z.ctx = v /\ Same(y, z, {"ctx"})
  BY DEF Shaped, Fields, Same
<1>4. z = [y EXCEPT !.via = v] => Shaped(z) /\ z.via = v /\ Same(y, z, {"via"})
  BY DEF Shaped, Fields, Same
<1>5. z = [y EXCEPT !.receipt = v] => Shaped(z) /\ z.receipt = v /\ Same(y, z, {"receipt"})
  BY DEF Shaped, Fields, Same
<1> QED
  BY <1>1, <1>2, <1>3, <1>4, <1>5

LEMMA IdleFields ==
  /\ Shaped(Idle)
  /\ Idle.req = Nothing /\ Idle.structural = FALSE /\ Idle.handle = Nothing /\ Idle.effective = 0
  /\ Idle.ctx = "none" /\ Idle.started = 0 /\ Idle.fault = NoFault /\ Idle.via = 0
  /\ Idle.resp = Nothing /\ Idle.raw = Nothing /\ Idle.receipt = Nothing
BY DEF Idle, Shaped, Fields

LEMMA Distinct ==
  /\ Nothing # Error /\ Nothing # Refused /\ Nothing # Unreadable /\ Error # Refused
  /\ NoFault.kind = "none"
BY DEF Nothing, Error, Refused, Unreadable, NoFault

LEMMA AcceptedIsSomething ==
  ASSUME NEW in, NEW q, Accepted(in, q)
  PROVE  q # Nothing
<1>1. DOMAIN q = {"cap", "payload", "budget", "key", "submitted", "nul"}
  BY DEF Accepted
<1>2. DOMAIN Nothing = {"of"}
  BY DEF Nothing
<1> QED
  BY <1>1, <1>2

-----------------------------------------------------------------------------
(* The start *)

\* Before the start there is nothing of the call.
LEMMA InitIInv == Init => IInv
<1> SUFFICES ASSUME Init PROVE IInv
  OBVIOUS
<1> USE IdleFields, Distinct, Constants
<1>1. x = Idle /\ pc = "boot" /\ now = Start /\ ~acted /\ acted \in BOOLEAN
  BY DEF Init
<1>2. answer = Nothing /\ row = Nothing /\ got = Nothing /\ profile = NoProfile
  BY DEF Init
<1>3. Typed
  <2>1. pc \in Places /\ now \in Nat /\ now >= Start
    BY <1>1 DEF Places, Early
  <2>2. Shaped(x) /\ x.structural \in BOOLEAN /\ x.ctx \in Contexts
    BY <1>1 DEF Contexts
  <2>3. x.effective \in Nat /\ x.started \in Nat /\ x.via \in Nat
    BY <1>1
  <2> QED
    BY <1>1, <2>1, <2>2, <2>3 DEF Typed
<1>4. Asked
  BY <1>1, <1>2 DEF Asked, Early
<1>5. Staged /\ Handled
  BY <1>1 DEF Staged, Handled
<1>6. Injected
  <2>1. DOMAIN profile.adapters = {}
    BY <1>2 DEF NoProfile
  <2>2. ~Dispatched /\ Genuine
    BY <1>1 DEF Dispatched, Genuine
  <2> QED
    BY <1>1, <1>2, <2>1, <2>2 DEF Injected
<1>7. Exchanged /\ Returned
  BY <1>1 DEF Exchanged, Returned
<1>8. Reported /\ Delivered
  BY <1>1 DEF Reported, Delivered
<1>9. ReadsBack
  BY <1>2 DEF ReadsBack
<1> QED
  BY <1>3, <1>4, <1>5, <1>6, <1>7, <1>8, <1>9 DEF IInv

LEMMA NotYetDone ==
  ASSUME Asked', pc' # "done"
  PROVE  Delivered' /\ ReadsBack'
BY DEF Asked, Delivered, ReadsBack

\* Every fault of a profile that a start accepts is one its decorator or its
\* adapter knows.
LEMMA WrappedIsSupported ==
  ASSUME NEW e, NEW catalog, NEW p, p \in MaybeWrap(e, catalog)
  PROVE  /\ \A c \in DOMAIN p.adapters : Supported(p.adapters[c].kind, c)
         /\ e.runtime = "production" => p = NoProfile
<1>1. p \in LoadConfig(e, catalog) /\ ValidateProfileSupport(p)
  BY DEF MaybeWrap
<1>2. CASE ~e.enabled
  <2>1. p = NoProfile
    BY <1>1, <1>2 DEF LoadConfig
  <2>2. DOMAIN p.adapters = {}
    BY <2>1 DEF NoProfile
  <2> QED
    BY <2>1, <2>2
<1>3. CASE e.enabled
  <2>1. e.runtime # "production" /\ p \in parseProfile(e.profile, catalog)
    BY <1>1, <1>3 DEF LoadConfig, LoadProfile
  <2>2. /\ p = [adapters |-> e.profile.adapters, persist |-> e.profile.persist]
        /\ \A c \in DOMAIN e.profile.adapters : e.profile.adapters[c].kind \in AllFaultKinds
    BY <2>1 DEF parseProfile
  <2>3. p.adapters = e.profile.adapters
    BY <2>2
  <2> HIDE DEF Supported
  <2>4. \A c \in DOMAIN p.adapters : p.adapters[c].kind \in AllFaultKinds
    BY <2>2, <2>3
  <2>5. \A c \in DOMAIN p.adapters :
          p.adapters[c].kind \in DecoratorNative \cup {"persist_failure"} \cup SupportedChaosFaults(c)
    BY <1>1 DEF ValidateProfileSupport
  <2> QED
    BY <2>1, <2>4, <2>5 DEF Supported
<1> QED
  BY <1>2, <1>3

\* A start leaves a profile that both validators have let through.
LEMMA BootStep ==
  ASSUME IInv, Boot
  PROVE  IInv'
<1> USE IdleFields, Distinct
<1>1. /\ pc = "boot" /\ pc' \in {"idle", "aborted"}
      /\ UNCHANGED <<env, now, call, x, row, answer, got, store, acted>>
  BY DEF Boot, outside
<1>2. x.req = Nothing /\ x = Idle
  BY <1>1 DEF IInv, Asked, Early
<1>3. Typed'
  BY <1>1 DEF IInv, Typed, Places, Early, Contexts
<1>4. Asked'
  BY <1>1, <1>2 DEF IInv, Asked, Early
<1>5. Staged' /\ Handled'
  <2>1. x' = Idle
    BY <1>1, <1>2
  <2> QED
    BY <1>1, <2>1 DEF Staged, Handled
<1>6. Injected'
  <2>1. /\ \A c \in DOMAIN profile'.adapters : Supported(profile'.adapters[c].kind, c)
        /\ env.runtime = "production" => profile' = NoProfile
    <3>1. CASE profile' \in MaybeWrap(env, Paths)
      BY <3>1, WrappedIsSupported
    <3>2. CASE profile' = profile
      BY <3>2 DEF IInv, Injected
    <3> QED
      BY <3>1, <3>2 DEF Boot
  <2>2. ~Dispatched' /\ Genuine' /\ x'.fault = NoFault
    BY <1>1, <1>2 DEF Dispatched, Genuine
  <2> QED
    BY <1>1, <2>1, <2>2 DEF Injected
<1>7. Exchanged' /\ Returned' /\ Reported'
  <2>1. x' = Idle
    BY <1>1, <1>2
  <2> QED
    BY <1>1, <2>1 DEF Exchanged, Returned, Reported
<1>8. Delivered' /\ ReadsBack'
  BY <1>1, <1>4, NotYetDone
<1> QED
  BY <1>3, <1>4, <1>5, <1>6, <1>7, <1>8 DEF IInv

\* What a front hands on is an acceptable request of its input.
LEMMA SubmitStep ==
  ASSUME IInv, NEW in \in Calls, Submit(in)
  PROVE  IInv'
<1> USE IdleFields, Distinct
<1>1. /\ pc = "idle" /\ call' = in
      /\ UNCHANGED <<env, profile, now, row, got, store, acted>>
  BY DEF Submit, setting
<1>2. x.req = Nothing /\ x = Idle /\ ~acted /\ answer = Nothing /\ row = Nothing /\ got = Nothing
  BY <1>1 DEF IInv, Asked, Early
<1>3. CASE /\ Received(in) = {} /\ answer' = Refused /\ pc' = "done" /\ UNCHANGED x
  <2>1. Typed'
    BY <1>1, <1>3 DEF IInv, Typed, Places
  <2>2. x' = Idle /\ ~Dispatched' /\ Genuine'
    BY <1>2, <1>3 DEF Dispatched, Genuine
  <2>3. Asked'
    BY <1>1, <1>2, <1>3, <2>2 DEF Asked
  <2>4. Staged' /\ Handled' /\ Exchanged' /\ Returned' /\ Reported'
    BY <1>3, <2>2 DEF Staged, Handled, Exchanged, Returned, Reported
  <2>5. Injected'
    BY <1>1, <1>3, <2>2 DEF IInv, Injected, Working
  <2>6. Delivered'
    BY <2>2 DEF Delivered
  <2>7. ReadsBack'
    BY <1>1, <1>2 DEF ReadsBack
  <2> QED
    BY <2>1, <2>3, <2>4, <2>5, <2>6, <2>7 DEF IInv
<1>4. ASSUME NEW q \in Received(in), x' = [x EXCEPT !.req = q], pc' = "resolve", answer' = answer
      PROVE  IInv'
  <2>1. Shaped(x') /\ x'.req = q /\ Same(x, x', {"req"})
    BY <1>4, SetOne DEF IInv, Typed
  <2>2. now \in Nat /\ now >= Start /\ Accepted(in, q) /\ Punctual(in, q.submitted, now)
    BY ReceivedIsAccepted DEF IInv, Typed
  <2>3. q # Nothing
    BY <2>2, AcceptedIsSomething
  <2>4. /\ x'.structural = FALSE /\ x'.handle = Nothing /\ x'.effective = 0 /\ x'.ctx = "none"
        /\ x'.started = 0 /\ x'.fault = NoFault /\ x'.via = 0 /\ x'.resp = Nothing
        /\ x'.raw = Nothing /\ x'.receipt = Nothing
    BY <1>2, <2>1 DEF Same, Fields
  <2>5. Typed'
    <3>1. x'.effective \in Nat /\ x'.started \in Nat /\ x'.via \in Nat
      BY <2>4
    <3>2. pc' \in Places /\ x'.structural \in BOOLEAN /\ x'.ctx \in Contexts
      BY <1>4, <2>4 DEF Places, Contexts
    <3>3. acted' \in BOOLEAN /\ now' \in Nat /\ now' >= Start
      BY <1>1 DEF IInv, Typed
    <3> QED
      BY <2>1, <3>1, <3>2, <3>3 DEF Typed
  <2>6. Asked'
    BY <1>1, <1>2, <1>4, <2>1, <2>2, <2>3 DEF Asked, Early
  <2>7. Staged' /\ Handled'
    <3>1. \A f \in Fields \ {"req", "ctx"} : x'[f] = Idle[f]
      BY <1>2, <2>1 DEF Same
    <3> QED
      BY <1>1, <1>2, <1>4, <2>4, <3>1 DEF Staged, Handled, Fresh
  <2>8. Injected'
    <3>1. ~Dispatched' /\ Genuine'
      BY <1>4, <2>4 DEF Dispatched, Genuine
    <3> QED
      BY <1>1, <1>4, <2>4, <3>1 DEF IInv, Injected, Working
  <2>9. Exchanged' /\ Returned' /\ Reported'
    BY <1>4, <2>4 DEF Exchanged, Returned, Reported
  <2>10. Delivered' /\ ReadsBack'
    BY <1>4, <2>6, NotYetDone
  <2> QED
    BY <2>5, <2>6, <2>7, <2>8, <2>9, <2>10 DEF IInv
<1> QED
  BY <1>3, <1>4 DEF Submit

-----------------------------------------------------------------------------
(* Time and the caller *)

\* The clock only moves on: what was in order stays so.
LEMMA TimeStep ==
  ASSUME IInv, TimePasses
  PROVE  IInv'
<1>1. /\ now' = now + Tick
      /\ UNCHANGED <<env, profile, pc, call, x, row, answer, got, store, acted>>
  BY DEF TimePasses, setting, outside
<1>2. now \in Nat /\ now' \in Nat /\ now <= now' /\ now >= Start /\ Start \in Nat
  BY <1>1, Constants DEF IInv, Typed
<1>3. Typed'
  BY <1>1, <1>2 DEF IInv, Typed
<1>4. Asked'
  <2>1. x.req # Nothing => Punctual(call, x.req.submitted, now')
    <3>1. x.req # Nothing => x.req.submitted \in Int /\ Punctual(call, x.req.submitted, now)
      BY DEF IInv, Asked, Accepted
    <3> QED
      BY <1>2, <3>1 DEF Punctual
  <2> QED
    BY <1>1, <2>1 DEF IInv, Asked
<1>5. Staged' /\ Exchanged' /\ Returned'
  <2>1. Staged'
    BY <1>1 DEF IInv, Staged, Fresh
  <2>2. Exchanged'
    BY <1>1 DEF IInv, Exchanged, Path
  <2>3. Returned'
    BY <1>1 DEF IInv, Returned, Sound, ShellSound, HttpSound, OtherSound, Earned, Genuine, Path, MakesParents
  <2> QED
    BY <2>1, <2>2, <2>3
<1>6. Handled'
  <2>1. x.ctx = "deadline" => Expired(now)'
    <3> SUFFICES ASSUME x.ctx = "deadline" PROVE Expired(now)'
      OBVIOUS
    <3>1. Expired(now) /\ x.effective \in Nat
      BY DEF IInv, Handled, Typed
    <3>2. CASE x.effective > 0 /\ now >= x.handle.started + x.effective
      <4>1. x.effective # 0
        BY <3>1, <3>2
      <4>2. x.req # Nothing /\ pc # "resolve"
        BY <4>1, IdleFields DEF IInv, Asked, Staged, Fresh, Fields
      <4>3. x.handle.started \in Nat
        BY <4>2 DEF IInv, Handled
      <4>4. now' >= x.handle.started + x.effective
        BY <1>2, <3>1, <3>2, <4>3
      <4> QED
        BY <1>1, <3>2, <4>4 DEF Expired
    <3>3. CASE call.deadline # 0 /\ now >= call.deadline
      <4>1. x.req # Nothing
        BY IdleFields DEF IInv, Asked
      <4>2. call.deadline \in Nat
        BY <4>1, CallAssumption DEF IInv, Asked
      <4>3. now' >= call.deadline
        BY <1>2, <3>3, <4>2
      <4> QED
        BY <1>1, <3>3, <4>3 DEF Expired
    <3> QED
      BY <3>1, <3>2, <3>3 DEF Expired
  <2> QED
    BY <1>1, <2>1 DEF IInv, Handled
<1>7. Injected'
  <2>1. Dispatched' <=> Dispatched
    BY <1>1 DEF Dispatched
  <2>2. Dispatched => x.started <= now'
    BY <1>2 DEF IInv, Injected, Typed
  <2> QED
    BY <1>1, <2>1, <2>2 DEF IInv, Injected, Genuine, Path
<1>8. Reported'
  <2>1. x.receipt # Nothing => x.receipt.timings.completed <= now'
    BY <1>2 DEF IInv, Reported
  <2>2. \A r : Judged(r)' <=> Judged(r)
    BY <1>1 DEF Judged, Earned, Genuine, Path, MakesParents
  <2>3. \A t : Expired(t)' <=> Expired(t)
    BY <1>1 DEF Expired
  <2> QED
    BY <1>1, <2>1, <2>2, <2>3 DEF IInv, Reported
<1>9. Delivered'
  BY <1>1 DEF IInv, Delivered, Excused
<1>10. ReadsBack'
  BY <1>1 DEF IInv, ReadsBack, Told
<1> QED
  BY <1>3, <1>4, <1>5, <1>6, <1>7, <1>8, <1>9, <1>10 DEF IInv

\* A context that ends, by its deadline or its caller, changes no place.
LEMMA CtxStep ==
  ASSUME IInv, Deadline \/ Cancel
  PROVE  IInv'
<1> USE IdleFields
<1>1. /\ InFlight
      /\ UNCHANGED <<env, profile, now, pc, call, row, answer, got, store, acted>>
  BY DEF Deadline, Cancel, setting, outside
<1>2. PICK c \in {"deadline", "cancelled"} :
        /\ x' = [x EXCEPT !.ctx = c]
        /\ c = "deadline" => Expired(now)
  BY DEF Deadline, Cancel
<1>3. Shaped(x') /\ x'.ctx = c /\ Same(x, x', {"ctx"})
  BY <1>2, SetOne DEF IInv, Typed
<1>4. /\ x'.req = x.req /\ x'.structural = x.structural /\ x'.handle = x.handle
      /\ x'.effective = x.effective /\ x'.started = x.started /\ x'.fault = x.fault
      /\ x'.via = x.via /\ x'.resp = x.resp /\ x'.raw = x.raw /\ x'.receipt = x.receipt
  BY <1>3 DEF Same, Fields
<1>5. x.ctx = "none" /\ pc \notin Early /\ pc # "done" /\ x.req # Nothing
  BY <1>1 DEF InFlight, IInv, Asked, Early
<1>6. Typed'
  BY <1>1, <1>2, <1>3, <1>4 DEF IInv, Typed, Contexts
<1>7. Asked'
  BY <1>1, <1>4, <1>5 DEF IInv, Asked
<1>8. Staged'
  <2>1. \A F \in SUBSET (Fields \ {"ctx"}) : Fresh(F)' <=> Fresh(F)
    BY <1>3 DEF Fresh, Same
  <2>2. /\ Fields \ {"req", "ctx"} \in SUBSET (Fields \ {"ctx"})
        /\ Fields \ {"req", "ctx", "handle", "effective"} \in SUBSET (Fields \ {"ctx"})
        /\ {"structural", "via", "resp", "raw", "receipt"} \in SUBSET (Fields \ {"ctx"})
        /\ {"structural", "resp", "raw", "receipt"} \in SUBSET (Fields \ {"ctx"})
        /\ {"structural", "receipt"} \in SUBSET (Fields \ {"ctx"})
        /\ {"effective", "started", "fault", "via", "resp", "raw"} \in SUBSET (Fields \ {"ctx"})
    BY DEF Fields
  <2> QED
    BY <1>1, <1>4, <2>1, <2>2 DEF IInv, Staged
<1>9. Handled'
  BY <1>1, <1>2, <1>3, <1>4 DEF IInv, Handled, Expired
<1>10. Injected'
  BY <1>1, <1>4 DEF IInv, Injected, Dispatched, Genuine, Path
<1>11. Exchanged'
  BY <1>1, <1>4 DEF IInv, Exchanged, Path
<1>12. Returned'
  BY <1>2, <1>3 DEF Returned
<1>13. Reported'
  <2>1. \A r : Judged(r) => Judged(r)'
    BY <1>1, <1>4, <1>5 DEF Judged, Earned, Genuine, Path, MakesParents
  <2>2. \A t : Expired(t)' <=> Expired(t)
    BY <1>1, <1>4 DEF Expired
  <2> QED
    BY <1>1, <1>4, <2>1, <2>2 DEF IInv, Reported
<1>14. Delivered' /\ ReadsBack'
  BY <1>1, <1>5, <1>7, NotYetDone
<1> QED
  BY <1>6, <1>7, <1>8, <1>9, <1>10, <1>11, <1>12, <1>13, <1>14 DEF IInv

-----------------------------------------------------------------------------
(* What the adapters and their imitations return *)

ImitatesSoundly == ~acted => \A raw \in SyntheticOutcome(Path, x.req.payload, x.fault) : Sound(raw)

\* An imitated outcome is a success only where the profile asks for one.
LEMMA SyntheticSound == ImitatesSoundly
<1> SUFFICES ASSUME ~acted, NEW raw, raw \in SyntheticOutcome(Path, x.req.payload, x.fault)
             PROVE  Sound(raw)
  BY DEF ImitatesSoundly
<1> DEFINE p == x.req.payload
           f == x.fault
<1>1. /\ f.kind \in SupportedChaosFaults(Path)
      /\ raw = CASE Path[1] = "shell" -> ShellSynthetic(f)
                 [] Path[1] = "http" -> HttpSynthetic(p, f)
                 [] OTHER -> OtherSynthetic
  BY DEF SyntheticOutcome
<1>2. CASE Path[1] = "shell"
  <2>1. raw = ShellSynthetic(f)
    BY <1>1, <1>2
  <2>2. f.kind \in {"process_signal", "process_exit"}
    <3>1. Path # <<"git", "clone">> /\ Path # <<"http", "request">>
          /\ Path # <<"filesystem", "read_file">> /\ Path # <<"filesystem", "write_file">>
      BY <1>2
    <3> QED
      BY <1>1, <3>1 DEF SupportedChaosFaults, ShellFaults, GitFaults, HttpFaults, FilesystemFaults
  <2>3. /\ raw.of = "shell" /\ raw.validation = FALSE /\ raw.ctxErr = "none" /\ raw.out = 0
        /\ raw.exitSuccess = {0}
        /\ raw.exit = IF f.kind = "process_signal" THEN -1
                      ELSE IF f.arg # NoExit THEN f.arg ELSE 137
    BY <2>1 DEF ShellSynthetic, ShellRaw
  <2>4. raw.exit = 0 => f.kind = "process_exit" /\ f.arg = 0
    BY <2>2, <2>3
  <2>5. raw.out \in Nat /\ (raw.exit \in raw.exitSuccess => Earned)
    BY <2>3, <2>4 DEF Earned
  <2>6. ShellSound(raw)
    BY <2>3, <2>5, Zenon DEF ShellSound
  <2> QED
    BY <2>3, <2>6 DEF Sound
<1>3. CASE Path[1] = "http"
  <2>1. raw = HttpSynthetic(p, f)
    BY <1>1, <1>3
  <2>2. CASE f.kind = "auth_failure"
    <3> DEFINE expected == IF p.expected # {} THEN p.expected ELSE {200}
    <3>1. raw = [HttpRaw EXCEPT !.status = 401, !.expected = expected]
      BY <2>1, <2>2 DEF HttpSynthetic
    <3> HIDE DEF expected
    <3>2. /\ raw.of = "http" /\ raw.ctxErr = "none" /\ raw.validation = FALSE
          /\ raw.runErr = FALSE /\ raw.status = 401 /\ raw.headers = 0 /\ raw.total = 0
          /\ raw.expected = expected
      BY <3>1 DEF HttpRaw
    <3> USE DEF expected
    <3>3. raw.status \in (IF raw.expected = {} THEN 200 .. 299 ELSE raw.expected) =>
            401 \in p.expected
      BY <3>2
    <3>4. ~(raw.headers >= MaxAdapterMeta)
      BY <3>2, LimitAssumption
    <3>5. raw.headers \in Nat /\ raw.total \in Nat
      BY <3>2
    <3>6. HttpSound(raw)
      BY <2>2, <3>2, <3>3, <3>4, <3>5, Zenon DEF HttpSound, Earned
    <3> QED
      BY <3>2, <3>6 DEF Sound
  <2>3. CASE f.kind # "auth_failure"
    <3>2. /\ raw.of = "http" /\ raw.ctxErr = "none" /\ raw.validation = FALSE
          /\ raw.runErr = TRUE /\ raw.headers = 0 /\ raw.total = 0
      BY <2>1, <2>3 DEF HttpSynthetic, HttpRaw
    <3>3. ~(raw.headers >= MaxAdapterMeta) /\ raw.headers \in Nat /\ raw.total \in Nat
      BY <3>2, LimitAssumption
    <3>4. HttpSound(raw)
      BY <3>2, <3>3, Zenon DEF HttpSound
    <3> QED
      BY <3>2, <3>4 DEF Sound
  <2> QED
    BY <2>2, <2>3
<1>4. CASE Path[1] # "shell" /\ Path[1] # "http"
  <2>1. raw.of = "other" /\ raw.ctxErr = "none" /\ raw.validation = FALSE /\ raw.runErr = TRUE
    BY <1>1, <1>4 DEF OtherSynthetic
  <2> QED
    BY <2>1 DEF Sound, OtherSound
<1> QED
  BY <1>2, <1>3, <1>4

ShellRefusesSoundly == ~acted => \A raw \in ShellRefuses(x.req.payload, "none") : Sound(raw)

LEMMA ShellRefusesSound == ShellRefusesSoundly
<1> SUFFICES ASSUME ~acted, NEW raw, raw \in ShellRefuses(x.req.payload, "none")
             PROVE  Sound(raw)
  BY DEF ShellRefusesSoundly
<1>1. raw.of = "shell" /\ raw.ctxErr = "none" /\ raw.validation = TRUE /\ raw.out = 0
  BY DEF ShellRefuses, ShellRaw
<1>2. raw.out \in Nat
  BY <1>1
<1> QED
  BY <1>1, <1>2, Zenon DEF Sound, ShellSound

\* A process that never started succeeds only for a caller who expects -1.
LEMMA ShellReturnsSound ==
  Genuine /\ Path = <<"shell", "exec">> =>
    \A started \in BOOLEAN, out \in Nat : \A code :
      (started => acted) => Sound(ShellReturns(x.req.payload, started, code, out, "none"))
<1> SUFFICES ASSUME Genuine, Path = <<"shell", "exec">>, NEW started \in BOOLEAN, NEW code,
                    NEW out \in Nat, started => acted
             PROVE  Sound(ShellReturns(x.req.payload, started, code, out, "none"))
  OBVIOUS
<1> DEFINE p == x.req.payload
           codes == IF p.exitSuccess = {} THEN {0} ELSE p.exitSuccess
           exit == IF started THEN code ELSE -1
           raw == ShellReturns(p, started, code, out, "none")
<1>1. raw = [ShellRaw EXCEPT !.exit = exit, !.out = out, !.ctxErr = "none", !.exitSuccess = codes]
  BY DEF ShellReturns, exitCodeFrom
<1> HIDE DEF raw, exit, codes
<1>2. /\ raw.of = "shell" /\ raw.ctxErr = "none" /\ raw.validation = FALSE /\ raw.out = out
      /\ raw.exit = exit /\ raw.exitSuccess = codes
  BY <1>1 DEF ShellRaw
<1>3. raw.exit \in raw.exitSuccess => acted \/ -1 \in p.exitSuccess
  BY <1>2 DEF exit, codes
<1>4. ShellSound(raw)
  BY <1>2, <1>3 DEF ShellSound, Earned
<1> QED
  BY <1>2, <1>4 DEF Sound, raw

HttpRefusesSoundly == ~acted => \A raw \in HttpRefuses(x.req.payload, "none") : Sound(raw)

LEMMA HttpRefusesSound == HttpRefusesSoundly
<1> SUFFICES ASSUME ~acted, NEW raw, raw \in HttpRefuses(x.req.payload, "none")
             PROVE  Sound(raw)
  BY DEF HttpRefusesSoundly
<1>2. /\ raw.of = "http" /\ raw.ctxErr = "none" /\ raw.validation = TRUE /\ raw.runErr = FALSE
      /\ raw.headers = 0 /\ raw.total = 0
  BY DEF HttpRefuses, HttpRaw
<1>3. ~(raw.headers >= MaxAdapterMeta) /\ raw.headers \in Nat /\ raw.total \in Nat
  BY <1>2, LimitAssumption
<1> QED
  BY <1>2, <1>3, Zenon DEF Sound, HttpSound

FailsSoundly == \A nul : Sound(DoFails("none", nul))

LEMMA DoFailsSound == FailsSoundly
<1> SUFFICES ASSUME NEW nul PROVE Sound(DoFails("none", nul))
  BY DEF FailsSoundly
<1> DEFINE raw == DoFails("none", nul)
<1>2. /\ raw.of = "http" /\ raw.ctxErr = "none" /\ raw.validation = FALSE /\ raw.runErr = TRUE
      /\ raw.headers = 0 /\ raw.total = 0
  BY DEF DoFails, HttpRaw
<1> HIDE DEF raw
<1>3. ~(raw.headers >= MaxAdapterMeta) /\ raw.headers \in Nat /\ raw.total \in Nat
  BY <1>2, LimitAssumption
<1> QED
  BY <1>2, <1>3, Zenon DEF Sound, HttpSound, raw

\* The body that is kept is within the limit, and all of it is counted, unless
\* the limit plus one wraps or the connection ends early.
BodyKept(r, p, resp) ==
  /\ r.of = "http" /\ r.ctxErr = "none" /\ r.validation = FALSE /\ r.runErr \in BOOLEAN
  /\ r.headers \in Nat /\ r.total \in Nat
  /\ r.headers = 0 \/ r.headers = resp.headers
  /\ r.runErr = FALSE =>
       /\ r.body <= BodyLimit(p)
       /\ \/ r.total = resp.size \/ BodyLimit(p) + 1 >= 2^(Width - 1)
          \/ r.truncated /\ resp.arrives < resp.size

LEMMA ReadBodyWithinLimits ==
  ASSUME NEW p, NEW resp, NEW via, resp \in Responses, p.maxBody \in Int64
  PROVE  BodyKept(ReadBody(p, resp, via), p, resp)
<1> DEFINE m == BodyLimit(p)
           limit == Signed(m + 1)
           read == IF limit <= 0 THEN 0 ELSE IF resp.arrives < limit THEN resp.arrives ELSE limit
           broken == resp.arrives < resp.size /\ resp.arrives < limit
           seen == [HttpRaw EXCEPT !.status = resp.status, !.redirects = via - 1]
           r == ReadBody(p, resp, via)
           tr == read > m
           body == IF read > m THEN m ELSE read
           total == IF read > m THEN m + 1 + (resp.arrives - read) ELSE read
<1>1. m \in Nat /\ m >= 1
  <2>1. MaxBodyBytes \in Int /\ MaxBodyBytes > 0 /\ p.maxBody \in Int
    BY HttpAssumption, PowerAssumption DEF Int64
  <2> QED
    BY <2>1 DEF BodyLimit
<1>2. limit \in Int /\ limit <= m + 1 /\ (m + 1 < 2^(Width - 1) => limit = m + 1)
  <2> HIDE DEF m
  <2>1. m + 1 \in Nat
    BY <1>1
  <2>2. Signed(m + 1) \in Int64 /\ Signed(m + 1) <= m + 1
    BY <2>1, SignedNeverGains
  <2>3. m + 1 < 2^(Width - 1) => Signed(m + 1) = m + 1
    BY <2>1, SignedKeepsSmall
  <2> QED
    BY <2>2, <2>3, PowerAssumption DEF Int64
<1>3. /\ resp.size \in Nat /\ resp.arrives \in Nat /\ resp.headers \in Nat
      /\ resp.arrives <= resp.size /\ 2^(Width - 1) \in Nat
  BY OutsideAssumption, PowerAssumption
<1>4. r = IF broken THEN [seen EXCEPT !.runErr = TRUE]
          ELSE [seen EXCEPT !.headers = resp.headers, !.expected = p.expected, !.truncated = tr,
                            !.body = body, !.total = total]
  BY DEF ReadBody
<1> HIDE DEF m, limit, r
<1>5. CASE broken
  <2>1. r = [[HttpRaw EXCEPT !.status = resp.status, !.redirects = via - 1] EXCEPT !.runErr = TRUE]
    BY <1>4, <1>5
  <2>2. /\ r.of = "http" /\ r.ctxErr = "none" /\ r.validation = FALSE /\ r.runErr = TRUE
        /\ r.headers = 0 /\ r.total = 0
    BY <2>1 DEF HttpRaw
  <2>3. r.headers \in Nat /\ r.total \in Nat
    BY <2>2
  <2> QED
    BY <2>2, <2>3, Zenon DEF r, BodyKept
<1>6. CASE ~broken
  <2>1. body <= m /\ total \in Nat
    BY <1>1, <1>2, <1>3
  <2>2. \/ total = resp.size \/ m + 1 >= 2^(Width - 1)
        \/ tr /\ resp.arrives < resp.size
    BY <1>1, <1>2, <1>3, <1>6
  <2>3. tr \in BOOLEAN
    OBVIOUS
  <2> HIDE DEF body, total, tr
  <2>4. /\ r.of = "http" /\ r.ctxErr = "none" /\ r.validation = FALSE /\ r.runErr = FALSE
        /\ r.headers = resp.headers /\ r.total = total /\ r.body = body /\ r.truncated = tr
    BY <1>4, <1>6 DEF HttpRaw
  <2>5. r.headers \in Nat /\ r.total \in Nat /\ r.body <= m
    BY <1>3, <2>1, <2>4
  <2>6. \/ r.total = resp.size \/ m + 1 >= 2^(Width - 1)
        \/ r.truncated /\ resp.arrives < resp.size
    BY <2>2, <2>4, Zenon
  <2> QED
    BY <2>4, <2>5, <2>6, Zenon DEF r, m, BodyKept
<1> QED
  BY <1>5, <1>6

\* A payload of http.request has limits of its own.
LEMMA HttpPayload ==
  ASSUME IInv, x.req # Nothing, pc # "resolve", Path = <<"http", "request">>
  PROVE  /\ x.req.payload.maxBody \in Int64
         /\ RedirectLimit(x.req.payload) \in Nat \ {0}
<1>1. Canonical(x.req.cap).path = <<"http", "request">>
  BY DEF IInv, Handled, Path
<1>2. call \in Calls /\ x.req.cap = call.cap /\ x.req.payload = call.payload
  BY DEF IInv, Asked, Accepted
<1>3. x.req.payload.maxBody \in Int64 /\ x.req.payload.maxRedirects \in Int64
  BY <1>1, <1>2, CallAssumption
<1>4. x.req.payload.maxRedirects \in Int
  BY <1>3, PowerAssumption DEF Int64
<1> QED
  BY <1>3, <1>4, HttpAssumption DEF RedirectLimit

\* An answer is taken for a success only after the request was sent.
ReadsSoundly ==
  x.resp \in Responses /\ x.req.payload.maxBody \in Int64 /\ acted =>
    Sound(ReadBody(x.req.payload, x.resp, x.via))

LEMMA ReadBodySound == ReadsSoundly
<1> SUFFICES ASSUME x.resp \in Responses, x.req.payload.maxBody \in Int64, acted
             PROVE  Sound(ReadBody(x.req.payload, x.resp, x.via))
  BY DEF ReadsSoundly
<1> DEFINE r == ReadBody(x.req.payload, x.resp, x.via)
<1>1. /\ r.of = "http" /\ r.ctxErr = "none" /\ r.validation = FALSE /\ r.runErr \in BOOLEAN
      /\ r.headers \in Nat /\ r.total \in Nat
      /\ r.headers = 0 \/ r.headers = x.resp.headers
  <2>1. BodyKept(r, x.req.payload, x.resp)
    BY ReadBodyWithinLimits, Zenon
  <2> HIDE DEF r
  <2> QED
    BY <2>1 DEF BodyKept
<1> HIDE DEF r
<1>2. r.headers >= MaxAdapterMeta => r.headers = x.resp.headers
  BY <1>1, LimitAssumption
<1>3. x.resp # Nothing
  <2>1. DOMAIN x.resp = {"status", "size", "arrives", "headers"}
    BY OutsideAssumption
  <2>2. DOMAIN Nothing = {"of"}
    BY DEF Nothing
  <2> QED
    BY <2>1, <2>2
<1>4. Earned
  BY DEF Earned
<1> QED
  BY <1>1, <1>2, <1>3, <1>4, Zenon DEF Sound, HttpSound, r

-----------------------------------------------------------------------------
(* The run *)

Running == Working \cup {"latency", "hang"}

\* What a step of a run cannot disturb.
Framed ==
  Typed /\ Asked /\ Handled /\ Injected /\ Reported /\ Delivered /\ ReadsBack

LEMMA RunKeeps ==
  ASSUME IInv, pc \in Running, pc' \in Working \cup {"returned"},
         UNCHANGED <<setting, now, call, outside>>,
         Shaped(x'), Same(x, x', {"raw", "resp", "via"}), x'.via \in Nat, acted' \in BOOLEAN,
         pc' \in Working \/ acted' => Genuine
  PROVE  /\ Framed'
         /\ x'.req = x.req /\ x'.handle = x.handle /\ x'.fault = x.fault /\ x'.ctx = x.ctx
         /\ x'.structural = FALSE /\ x'.receipt = Nothing
         /\ x.req # Nothing /\ x.structural = FALSE /\ x.receipt = Nothing
<1> USE IdleFields
<1>1. UNCHANGED <<env, profile, now, call, row, answer, got, store>>
  BY DEF setting, outside
<1>2. /\ x'.req = x.req /\ x'.structural = x.structural /\ x'.handle = x.handle
      /\ x'.effective = x.effective /\ x'.ctx = x.ctx /\ x'.started = x.started
      /\ x'.fault = x.fault /\ x'.receipt = x.receipt
  BY DEF Same, Fields
<1>3. pc \notin Early /\ pc \notin {"done", "resolve", "dispatch", "persist"}
  BY DEF Running, Working, Early
<1>4. pc' \notin Early /\ pc' \notin {"done", "resolve", "dispatch", "persist", "latency", "hang"}
  BY DEF Working, Early
<1>5. x.req # Nothing
  BY <1>3 DEF IInv, Asked
<1>6. x.structural = FALSE /\ x.receipt = Nothing
  BY DEF IInv, Staged, Fresh, Running, Working
<1>7. Typed'
  <2>1. pc' \in Places
    BY DEF Places
  <2> QED
    BY <1>1, <1>2, <2>1 DEF IInv, Typed
<1>8. Asked'
  BY <1>1, <1>2, <1>3, <1>4, <1>5 DEF IInv, Asked
<1>9. Handled'
  <2>1. Expired(now)' <=> Expired(now)
    BY <1>1, <1>2 DEF Expired
  <2> QED
    BY <1>1, <1>2, <1>3, <1>5, <2>1 DEF IInv, Handled
<1>10. Injected'
  <2>1. Dispatched /\ Dispatched'
    BY <1>2, <1>3, <1>4, <1>5, <1>6 DEF Dispatched
  <2>2. Path' = Path
    BY <1>2 DEF Path
  <2>3. Genuine' <=> Genuine
    BY <1>2 DEF Genuine
  <2> QED
    BY <1>1, <1>2, <1>4, <2>1, <2>2, <2>3 DEF IInv, Injected
<1>11. Reported'
  BY <1>2, <1>4, <1>6 DEF Reported
<1>12. Delivered' /\ ReadsBack'
  BY <1>4, <1>8, NotYetDone
<1> QED
  BY <1>2, <1>5, <1>6, <1>7, <1>8, <1>9, <1>10, <1>11, <1>12 DEF Framed

\* An adapter, or its decorator, returns.
LEMMA ReturnKeeps ==
  ASSUME IInv, pc \in Running, NEW raw, Return(raw), UNCHANGED <<setting, now, call, outside>>,
         acted' \in BOOLEAN, acted' => Genuine, x.resp = Nothing, x.ctx = "none" => Returned'
  PROVE  IInv'
<1>1. x' = [x EXCEPT !.raw = raw] /\ pc' = "returned"
  BY DEF Return
<1>2. Shaped(x') /\ x'.raw = raw /\ Same(x, x', {"raw"})
  BY <1>1, SetOne DEF IInv, Typed
<1>3. x'.via = x.via /\ x'.resp = x.resp /\ Same(x, x', {"raw", "resp", "via"})
  BY <1>2 DEF Same, Fields
<1>4. x'.via \in Nat /\ pc' \in Working \cup {"returned"} /\ pc' \notin Working
  BY <1>1, <1>3 DEF IInv, Typed, Working
<1>5. /\ Framed'
      /\ x'.req = x.req /\ x'.handle = x.handle /\ x'.ctx = x.ctx
      /\ x'.structural = FALSE /\ x'.receipt = Nothing
  BY <1>2, <1>3, <1>4, RunKeeps
<1>6. Staged'
  BY <1>1, <1>5, IdleFields DEF Staged, Fresh
<1>7. Exchanged'
  BY <1>1, <1>3, <1>5 DEF IInv, Exchanged
<1>8. Returned'
  BY <1>5 DEF Returned
<1> QED
  BY <1>5, <1>6, <1>7, <1>8 DEF Framed, IInv

LEMMA InterruptedStep ==
  ASSUME IInv, Interrupted
  PROVE  IInv'
<1>1. /\ pc \in {"latency", "hang"} /\ x.ctx # "none" /\ Return(Structural)
      /\ UNCHANGED <<setting, now, call, outside>> /\ acted' = acted
  BY DEF Interrupted, Return
<1>2. pc \in Running /\ acted \in BOOLEAN /\ ~acted
  BY <1>1 DEF Running, IInv, Typed, Staged
<1>3. x.resp = Nothing
  BY <1>1, IdleFields DEF IInv, Staged, Fresh
<1> QED
  BY <1>1, <1>2, <1>3, ReturnKeeps

LEMMA LatencyOverStep ==
  ASSUME IInv, LatencyOver
  PROVE  IInv'
<1>1. /\ pc = "latency" /\ pc' = "adapter" /\ x' = x /\ acted' = acted
      /\ UNCHANGED <<setting, now, call, outside>>
  BY DEF LatencyOver
<1>2. /\ pc \in Running /\ pc' \in Working /\ acted \in BOOLEAN /\ ~acted /\ Genuine
      /\ Shaped(x) /\ x.via \in Nat
  BY <1>1 DEF Running, Working, IInv, Typed, Staged, Injected, Genuine
<1>3. Same(x, x', {"raw", "resp", "via"})
  BY <1>1 DEF Same
<1>4. Framed'
  BY <1>1, <1>2, <1>3, RunKeeps
<1>5. Staged'
  BY <1>1, <1>2 DEF IInv, Staged, Fresh
<1>6. Exchanged' /\ Returned'
  BY <1>1 DEF IInv, Exchanged, Returned, Path
<1> QED
  BY <1>4, <1>5, <1>6 DEF Framed, IInv

LEMMA ReturnFields ==
  ASSUME IInv, NEW raw, Return(raw)
  PROVE  /\ pc' = "returned" /\ x'.raw = raw /\ x'.req = x.req /\ x'.ctx = x.ctx
         /\ x'.resp = x.resp /\ x'.via = x.via /\ Path' = Path /\ (Genuine' <=> Genuine)
<1>1. x' = [x EXCEPT !.raw = raw] /\ pc' = "returned"
  BY DEF Return
<1>2. x'.raw = raw /\ Same(x, x', {"raw"})
  BY <1>1, SetOne DEF IInv, Typed
<1>3. /\ x'.req = x.req /\ x'.ctx = x.ctx /\ x'.resp = x.resp /\ x'.via = x.via
      /\ x'.handle = x.handle /\ x'.fault = x.fault
  BY <1>2 DEF Same, Fields
<1> QED
  BY <1>1, <1>2, <1>3 DEF Path, Genuine

LEMMA SoundReturned ==
  ASSUME NEW raw, Sound(raw)', x'.raw = raw
  PROVE  Returned'
BY DEF Returned, Sound, ShellSound, HttpSound, OtherSound

LEMMA ShellStartStep ==
  ASSUME IInv, ShellStart
  PROVE  IInv'
<1>0. ShellRefusesSoundly'
  BY ShellRefusesSound, PTL
<1> DEFINE p == x.req.payload
<1>1. /\ pc = "adapter" /\ Path = <<"shell", "exec">>
      /\ UNCHANGED <<setting, now, call, outside>>
  BY DEF ShellStart
<1>2. /\ pc \in Running /\ pc \in Working /\ acted \in BOOLEAN /\ ~acted /\ Genuine
      /\ Shaped(x) /\ x.via \in Nat
  BY <1>1 DEF Running, Working, IInv, Typed, Staged, Injected
<1>3. x.resp = Nothing
  BY <1>1, IdleFields DEF IInv, Staged, Fresh
<1>4. ASSUME NEW raw \in ShellRefuses(p, x.ctx), Return(raw), acted' = acted
      PROVE  IInv'
  <2>1. x'.raw = raw /\ x'.req = x.req
    BY <1>4, ReturnFields
  <2>3. x.ctx = "none" => Sound(raw)'
    BY <1>0, <1>2, <1>4, <2>1 DEF ShellRefusesSoundly
  <2>4. x.ctx = "none" => Returned'
    BY <2>1, <2>3, SoundReturned
  <2> QED
    BY <1>1, <1>2, <1>3, <1>4, <2>4, ReturnKeeps
<1>5. ASSUME Return(ShellReturns(p, FALSE, 0, 0, x.ctx)), acted' = acted
      PROVE  IInv'
  <2>0. PICK raw : raw = ShellReturns(p, FALSE, 0, 0, x.ctx)
    OBVIOUS
  <2>1. x'.raw = raw /\ x'.req = x.req /\ Path' = Path /\ Genuine'
    BY <1>2, <1>5, <2>0, ReturnFields
  <2>2. (Genuine /\ Path = <<"shell", "exec">> =>
           \A started \in BOOLEAN, out \in Nat : \A code :
             (started => acted) =>
               Sound(ShellReturns(x.req.payload, started, code, out, "none")))'
    BY ShellReturnsSound, PTL
  <2>3. x.ctx = "none" => Sound(raw)'
    <3>1. FALSE \in BOOLEAN /\ 0 \in Nat
      OBVIOUS
    <3> QED
      BY <1>1, <2>0, <2>1, <2>2, <3>1, Zenon
  <2>4. x.ctx = "none" => Returned'
    BY <2>1, <2>3, SoundReturned
  <2> QED
    BY <1>1, <1>2, <1>3, <1>5, <2>0, <2>4, ReturnKeeps
<1>6. ASSUME acted' = TRUE, pc' = "process", x' = x
      PROVE  IInv'
  <2>1. Same(x, x', {"raw", "resp", "via"}) /\ pc' \in Working
    BY <1>6 DEF Same, Working
  <2>2. Framed' /\ x.structural = FALSE
    BY <1>1, <1>2, <1>6, <2>1, RunKeeps
  <2>3. Staged'
    BY <1>1, <1>6, <2>2 DEF IInv, Staged, Fresh
  <2>4. Exchanged' /\ Returned'
    BY <1>1, <1>3, <1>6 DEF IInv, Exchanged, Returned, Path
  <2> QED
    BY <2>2, <2>3, <2>4 DEF Framed, IInv
<1> QED
  BY <1>4, <1>5, <1>6 DEF ShellStart

LEMMA ShellEndStep ==
  ASSUME IInv, ShellEnd
  PROVE  IInv'
<1>1. /\ pc = "process" /\ Path = <<"shell", "exec">> /\ acted /\ acted' = acted
      /\ UNCHANGED <<setting, now, call, outside>>
  BY DEF ShellEnd, IInv, Exchanged
<1>2. pc \in Running /\ acted \in BOOLEAN /\ Genuine
  BY <1>1 DEF Running, Working, IInv, Typed, Injected
<1>3. x.resp = Nothing
  BY <1>1, IdleFields DEF IInv, Staged, Fresh
<1>4. PICK code, out, raw :
        /\ out \in OutputSizes /\ raw = ShellReturns(x.req.payload, TRUE, code, out, x.ctx)
        /\ Return(raw)
  BY DEF ShellEnd
<1>5. out \in Nat
  BY <1>4, OutsideAssumption
<1>6. x'.raw = raw /\ x'.req = x.req /\ Path' = Path /\ Genuine'
  BY <1>2, <1>4, ReturnFields
<1>7. (Genuine /\ Path = <<"shell", "exec">> =>
         \A started \in BOOLEAN, o \in Nat : \A c :
           (started => acted) => Sound(ShellReturns(x.req.payload, started, c, o, "none")))'
  BY ShellReturnsSound, PTL
<1>8. x.ctx = "none" => Sound(raw)'
  BY <1>1, <1>4, <1>5, <1>6, <1>7
<1>9. x.ctx = "none" => Returned'
  BY <1>6, <1>8, SoundReturned
<1> QED
  BY <1>1, <1>2, <1>3, <1>4, <1>9, ReturnKeeps

LEMMA HttpStartStep ==
  ASSUME IInv, HttpStart
  PROVE  IInv'
<1>0. HttpRefusesSoundly'
  BY HttpRefusesSound, PTL
<1> DEFINE p == x.req.payload
<1>1. /\ pc = "adapter" /\ Path = <<"http", "request">> /\ acted' = acted
      /\ UNCHANGED <<setting, now, call, outside>>
  BY DEF HttpStart
<1>2. /\ pc \in Running /\ pc \in Working /\ acted \in BOOLEAN /\ ~acted /\ Genuine
      /\ Shaped(x) /\ x.via \in Nat
  BY <1>1 DEF Running, Working, IInv, Typed, Staged, Injected
<1>3. x.resp = Nothing /\ x.via = 0
  BY <1>1, IdleFields DEF IInv, Staged, Fresh
<1>4. ASSUME NEW raw, raw \in HttpRefuses(p, x.ctx), Return(raw)
      PROVE  IInv'
  <2>1. x'.raw = raw /\ x'.req = x.req
    BY <1>4, ReturnFields
  <2>2. x.ctx = "none" => Sound(raw)'
    BY <1>0, <1>1, <1>2, <1>4, <2>1 DEF HttpRefusesSoundly
  <2>3. x.ctx = "none" => Returned'
    BY <2>1, <2>2, SoundReturned
  <2> QED
    BY <1>1, <1>2, <1>3, <1>4, <2>3, ReturnKeeps
<1>5. ASSUME pc' = "exchange", x' = x
      PROVE  IInv'
  <2>1. Same(x, x', {"raw", "resp", "via"}) /\ pc' \in Working
    BY <1>5 DEF Same, Working
  <2>2. Framed' /\ x.structural = FALSE /\ x.req # Nothing
    BY <1>1, <1>2, <1>5, <2>1, RunKeeps
  <2>3. Staged'
    BY <1>1, <1>5, <2>2 DEF IInv, Staged, Fresh
  <2>4. x.via < RedirectLimit(x.req.payload)
    <3>1. RedirectLimit(x.req.payload) \in Nat \ {0}
      BY <1>1, <2>2, HttpPayload
    <3> QED
      BY <1>3, <3>1
  <2>5. Exchanged' /\ Returned'
    BY <1>1, <1>3, <1>5, <2>4 DEF IInv, Exchanged, Returned, Path
  <2> QED
    BY <2>2, <2>3, <2>5 DEF Framed, IInv
<1> QED
  BY <1>4, <1>5 DEF HttpStart

\* client.Do fails: the run returns, whatever the context.
LEMMA DoFailsStep ==
  ASSUME IInv, pc \in {"exchange", "sent"}, NEW nul, Return(DoFails(x.ctx, nul)), acted' = acted,
         UNCHANGED <<setting, now, call, outside>>
  PROVE  IInv'
<1>0. FailsSoundly'
  BY DoFailsSound, PTL
<1>1. Sound(DoFails("none", nul))'
  BY <1>0 DEF FailsSoundly
<1>2. PICK raw : raw = DoFails(x.ctx, nul)
  OBVIOUS
<1>3. pc \in Running /\ acted \in BOOLEAN /\ Genuine
  BY DEF Running, Working, IInv, Typed, Injected
<1>4. x.resp = Nothing
  BY IdleFields DEF IInv, Staged, Fresh
<1>5. x'.raw = raw
  BY <1>2, ReturnFields
<1>6. x.ctx = "none" => Returned'
  <2>1. x.ctx = "none" => Sound(raw)'
    BY <1>1, <1>2
  <2> QED
    BY <1>5, <2>1, SoundReturned
<1> QED
  BY <1>2, <1>3, <1>4, <1>6, ReturnKeeps

LEMMA HttpSendStep ==
  ASSUME IInv, HttpSend
  PROVE  IInv'
<1>1. pc = "exchange" /\ UNCHANGED <<setting, now, call, outside>>
  BY DEF HttpSend
<1>2. /\ pc \in Running /\ Genuine /\ Shaped(x) /\ x.via \in Nat
      /\ Path = <<"http", "request">> /\ x.via < RedirectLimit(x.req.payload)
  BY <1>1 DEF Running, Working, IInv, Typed, Injected, Exchanged
<1>3. CASE x' = [x EXCEPT !.via = @ + 1] /\ acted' = TRUE /\ pc' = "sent"
  <2>1. Shaped(x') /\ x'.via = x.via + 1 /\ Same(x, x', {"via"})
    <3>1. PICK v : v = x.via + 1
      OBVIOUS
    <3>2. x' = [x EXCEPT !.via = v]
      BY <1>3, <3>1
    <3>3. Shaped(x)
      BY <1>2
    <3> QED
      BY <3>1, <3>2, <3>3, SetOne
  <2>2. /\ Same(x, x', {"raw", "resp", "via"}) /\ x'.via \in Nat
        /\ x'.raw = x.raw /\ x'.resp = x.resp
    BY <1>2, <2>1 DEF Same, Fields
  <2>3. pc' \in Working
    BY <1>3 DEF Working
  <2>4. /\ Framed' /\ x'.req = x.req /\ x'.handle = x.handle /\ x'.structural = FALSE
        /\ x'.receipt = Nothing /\ x.req # Nothing
    BY <1>1, <1>2, <1>3, <2>1, <2>2, <2>3, RunKeeps
  <2>5. x.raw = Nothing /\ x.resp = Nothing
    BY <1>1, IdleFields DEF IInv, Staged, Fresh
  <2>6. Staged'
    BY <1>3, <2>2, <2>4, <2>5, IdleFields DEF Staged, Fresh
  <2>7. x'.via <= RedirectLimit(x'.req.payload)
    <3>1. RedirectLimit(x.req.payload) \in Nat
      BY <1>1, <1>2, <2>4, HttpPayload
    <3> QED
      BY <1>2, <2>1, <2>4, <3>1
  <2>8. Exchanged' /\ Returned'
    BY <1>2, <1>3, <2>2, <2>4, <2>5, <2>7 DEF Exchanged, Returned, Path
  <2> QED
    BY <2>4, <2>6, <2>8 DEF Framed, IInv
<1>4. CASE Return(DoFails(x.ctx, FALSE)) /\ acted' = acted
  BY <1>1, <1>4, DoFailsStep
<1> QED
  BY <1>3, <1>4 DEF HttpSend

LEMMA HttpReceiveStep ==
  ASSUME IInv, HttpReceive
  PROVE  IInv'
<1>0. ReadsSoundly'
  BY ReadBodySound, PTL
<1>1. pc = "sent" /\ acted' = acted /\ UNCHANGED <<setting, now, call, outside>>
  BY DEF HttpReceive
<1>2. /\ pc \in Running /\ pc \in Working /\ Genuine /\ Shaped(x) /\ x.via \in Nat
      /\ Path = <<"http", "request">> /\ acted /\ acted \in BOOLEAN
  BY <1>1 DEF Running, Working, IInv, Typed, Injected, Exchanged
<1>3. CASE CheckRedirect(x.req.payload, x.via) /\ pc' = "exchange" /\ x' = x
  <2>1. Same(x, x', {"raw", "resp", "via"}) /\ pc' \in Working
    BY <1>3 DEF Same, Working
  <2>2. Framed' /\ x.structural = FALSE
    BY <1>1, <1>2, <1>3, <2>1, RunKeeps
  <2>3. Staged'
    BY <1>1, <1>3, <2>2 DEF IInv, Staged, Fresh
  <2>4. Exchanged' /\ Returned'
    BY <1>1, <1>2, <1>3 DEF IInv, Exchanged, Returned, Path, CheckRedirect
  <2> QED
    BY <2>2, <2>3, <2>4 DEF Framed, IInv
<1>4. CASE \E nul \in BOOLEAN : Return(DoFails(x.ctx, nul))
  BY <1>1, <1>4, DoFailsStep
<1>5. ASSUME NEW resp \in Responses,
             x' = [x EXCEPT !.resp = resp, !.raw = ReadBody(x.req.payload, resp, x.via)],
             pc' = "returned"
      PROVE  IInv'
  <2>0. PICK raw : raw = ReadBody(x.req.payload, resp, x.via)
    OBVIOUS
  <2>1. Shaped(x') /\ x'.resp = resp /\ x'.raw = raw /\ Same(x, x', {"resp", "raw"})
    <3>1. x' = [x EXCEPT !.resp = resp, !.raw = raw]
      BY <1>5, <2>0
    <3>2. Shaped(x)
      BY <1>2
    <3> QED
      BY <3>1, <3>2 DEF Shaped, Same, Fields
  <2>2. Same(x, x', {"raw", "resp", "via"}) /\ x'.via = x.via
    BY <2>1 DEF Same, Fields
  <2>3. pc' \in Working \cup {"returned"} /\ pc' \notin Working
    BY <1>5 DEF Working
  <2>4. /\ Framed' /\ x'.req = x.req /\ x'.handle = x.handle /\ x'.structural = FALSE
        /\ x'.receipt = Nothing /\ x.req # Nothing
    BY <1>1, <1>2, <2>1, <2>2, <2>3, RunKeeps
  <2>5. Staged'
    BY <1>5, <2>4, IdleFields DEF Staged, Fresh
  <2>6. Exchanged'
    BY <1>1, <1>2, <1>5, <2>0, <2>1, <2>2, <2>4 DEF IInv, Exchanged, Path
  <2>7. x.req.payload.maxBody \in Int64
    BY <1>1, <1>2, <2>4, HttpPayload
  <2>8. Sound(raw)'
    BY <1>0, <1>1, <1>2, <2>0, <2>1, <2>2, <2>4, <2>7 DEF ReadsSoundly
  <2>9. Returned'
    BY <2>1, <2>8, SoundReturned
  <2> QED
    BY <2>4, <2>5, <2>6, <2>9 DEF Framed, IInv
<1> QED
  BY <1>3, <1>4, <1>5 DEF HttpReceive

LEMMA OtherRunStep ==
  ASSUME IInv, OtherRun
  PROVE  IInv'
<1>1. /\ pc = "adapter" /\ Path[1] \in {"git", "filesystem"}
      /\ UNCHANGED <<setting, now, call, outside>>
  BY DEF OtherRun
<1>2. pc \in Running /\ Genuine /\ x.req # Nothing
  BY <1>1 DEF Running, Working, Early, IInv, Injected, Asked
<1>3. x.resp = Nothing
  BY <1>1, IdleFields DEF IInv, Staged, Fresh
<1>4. x.req.payload.decodes \in BOOLEAN
  <2>1. call \in Calls /\ x.req.payload = call.payload
    BY <1>2 DEF IInv, Asked, Accepted
  <2> QED
    BY <2>1, CallAssumption
<1>5. PICK validation, runErr, nul, raw :
        /\ validation \in BOOLEAN /\ runErr \in BOOLEAN /\ nul \in BOOLEAN
        /\ raw = [of |-> "other", ctxErr |-> x.ctx, runErr |-> runErr,
                  validation |-> validation \/ ~x.req.payload.decodes, nul |-> nul]
        /\ Return(raw)
        /\ acted' \in IF validation \/ ~x.req.payload.decodes THEN {FALSE, MakesParents}
                      ELSE IF x.ctx = "none" THEN {TRUE} ELSE BOOLEAN
  <2>1. PICK validation, runErr, nul \in BOOLEAN :
          /\ Return([of |-> "other", ctxErr |-> x.ctx, runErr |-> runErr,
                     validation |-> validation \/ ~x.req.payload.decodes, nul |-> nul])
          /\ acted' \in IF validation \/ ~x.req.payload.decodes THEN {FALSE, MakesParents}
                        ELSE IF x.ctx = "none" THEN {TRUE} ELSE BOOLEAN
    BY Zenon DEF OtherRun
  <2> QED
    BY <2>1, Zenon
<1>6. x'.raw = raw
  BY <1>5, ReturnFields
<1>9. MakesParents' <=> MakesParents
  BY <1>5, SetOne DEF Return, IInv, Typed, Same, Fields, MakesParents, Path
<1>7. ASSUME x.ctx = "none"
      PROVE  Returned'
  <2> DEFINE v == validation \/ ~x.req.payload.decodes
  <2>1. v \in BOOLEAN
    OBVIOUS
  <2>2. (~v => acted') /\ (v => ~acted' \/ MakesParents')
    BY <1>5, <1>7, <1>9
  <2> HIDE DEF v
  <2>3. raw.of = "other" /\ raw.ctxErr = "none" /\ raw.runErr = runErr /\ raw.validation = v
    BY <1>5, <1>7 DEF v
  <2>4. ~v => Earned'
    BY <2>2 DEF Earned
  <2>5. OtherSound(raw)'
    BY <1>5, <2>1, <2>2, <2>3, <2>4, Zenon DEF OtherSound
  <2>6. Sound(raw)'
    BY <2>3, <2>5, Zenon DEF Sound
  <2> QED
    BY <1>6, <2>6, SoundReturned
<1>8. acted' \in BOOLEAN
  BY <1>5 DEF MakesParents
<1> QED
  BY <1>1, <1>2, <1>3, <1>5, <1>7, <1>8, ReturnKeeps

\* What the decorator may do with the profile's fault: the cases of Dispatch.
Dispatches(fault, raw) ==
  \/ raw = Nothing /\ fault = NoFault /\ pc' = "adapter"
  \/ raw = Nothing /\ fault.kind = "latency" /\ pc' = "latency"
  \/ raw = Nothing /\ fault.kind = "hang_until_cancel" /\ pc' = "hang"
  \/ /\ pc' = "returned"
     /\ \/ raw = Panic /\ fault.kind = "inject_panic"
        \/ raw = Structural /\ fault.kind = "persist_failure"
        \/ raw \in SyntheticOutcome(Path, x.req.payload, fault)

Started(fault, raw) ==
  /\ Shaped(x') /\ x'.started = now /\ x'.fault = fault /\ x'.raw = raw
  /\ Same(x, x', {"started", "fault", "raw"})

LEMMA DispatchCases ==
  ASSUME IInv, Dispatch
  PROVE  \E fault, raw :
           /\ fault = NoFault \/ Supported(fault.kind, Path)
           /\ Dispatches(fault, raw) /\ Started(fault, raw)
<1>1. PICK fault : fault = For(profile, Path)
  OBVIOUS
<1>2. fault = NoFault \/ Supported(fault.kind, Path)
  BY <1>1 DEF For, IInv, Injected
<1>3. NoFault.kind = "none"
  BY Distinct
<1> DEFINE y == [x EXCEPT !.started = now, !.fault = fault]
           Returns(raw) == x' = [y EXCEPT !.raw = raw] /\ pc' = "returned"
           Plain(v) == x' = y /\ pc' = v
           S == SyntheticOutcome(Path, x.req.payload, fault)
<1>4. Shaped(x) /\ x.raw = Nothing
  BY IdleFields DEF Dispatch, IInv, Typed, Staged, Fresh, Fields
<1>5. ASSUME x' = y
      PROVE  Started(fault, Nothing)
  BY <1>4, <1>5 DEF Started, Shaped, Same, Fields
<1>6. ASSUME NEW raw, Returns(raw)
      PROVE  Started(fault, raw)
  BY <1>4, <1>6 DEF Started, Shaped, Same, Fields
<1>7. CASE fault = NoFault \/ fault.kind \in {"latency", "hang_until_cancel"}
  <2>1. \/ fault = NoFault /\ Plain("adapter")
        \/ fault.kind = "latency" /\ Plain("latency")
        \/ fault.kind = "hang_until_cancel" /\ Plain("hang")
    BY <1>1, <1>3, <1>7 DEF Dispatch
  <2>2. Dispatches(fault, Nothing)
    BY <2>1, Zenon DEF Dispatches
  <2>3. Started(fault, Nothing)
    BY <1>5, <2>1, Zenon
  <2> QED
    BY <1>2, <2>2, <2>3, Zenon
<1>8. CASE fault.kind \in {"inject_panic", "persist_failure"}
  <2>1. \/ fault.kind = "inject_panic" /\ Returns(Panic)
        \/ fault.kind = "persist_failure" /\ Returns(Structural)
    BY <1>1, <1>3, <1>8 DEF Dispatch
  <2>2. CASE fault.kind = "inject_panic" /\ Returns(Panic)
    <3>1. Dispatches(fault, Panic) /\ Started(fault, Panic)
      BY <1>6, <2>2, Zenon DEF Dispatches
    <3> QED
      BY <1>2, <3>1, Zenon
  <2>3. CASE fault.kind = "persist_failure" /\ Returns(Structural)
    <3>1. Dispatches(fault, Structural) /\ Started(fault, Structural)
      BY <1>6, <2>3, Zenon DEF Dispatches
    <3> QED
      BY <1>2, <3>1, Zenon
  <2> QED
    BY <2>1, <2>2, <2>3
<1>9. CASE ~(fault = NoFault \/ fault.kind \in {"latency", "hang_until_cancel"}
             \/ fault.kind \in {"inject_panic", "persist_failure"})
  <2>1. (\E raw \in S : Returns(raw)) \/ (S = {} /\ Returns(Structural))
    BY <1>1, <1>9 DEF Dispatch
  <2>2. fault.kind \in SupportedChaosFaults(Path)
    BY <1>2, <1>9 DEF Supported, DecoratorNative
  <2>3. S # {}
    BY <2>2 DEF SyntheticOutcome
  <2>4. PICK raw : raw \in S /\ Returns(raw)
    BY <2>1, <2>3, Zenon
  <2>5. Dispatches(fault, raw)
    BY <2>4, Zenon DEF Dispatches
  <2> QED
    BY <1>2, <1>6, <2>4, <2>5, Zenon
<1> QED
  BY <1>7, <1>8, <1>9

\* A run begins with its effective timeout set, or its decorator returns at once.
LEMMA DispatchStep ==
  ASSUME IInv, Dispatch
  PROVE  IInv'
<1>0. ImitatesSoundly'
  BY SyntheticSound, PTL
<1> USE IdleFields
<1>1. /\ pc = "dispatch" /\ acted' = acted
      /\ UNCHANGED <<env, profile, now, call, row, answer, got, store>>
  BY DEF Dispatch, setting, outside
<1>2. x.req # Nothing /\ ~acted /\ acted \in BOOLEAN /\ now \in Nat
  BY <1>1 DEF IInv, Asked, Early, Staged, Typed
<1>3. x.structural = FALSE /\ x.via = 0 /\ x.resp = Nothing /\ x.receipt = Nothing
  BY <1>1 DEF IInv, Staged, Fresh, Fields
<1>4. PICK fault, raw :
        /\ fault = NoFault \/ Supported(fault.kind, Path)
        /\ Dispatches(fault, raw) /\ Started(fault, raw)
  BY DispatchCases
<1>5. /\ x'.req = x.req /\ x'.structural = FALSE /\ x'.handle = x.handle
      /\ x'.effective = x.effective /\ x'.ctx = x.ctx /\ x'.via = 0 /\ x'.resp = Nothing
      /\ x'.receipt = Nothing
  BY <1>3, <1>4 DEF Started, Same, Fields
<1>6. Shaped(x') /\ x'.started = now /\ x'.fault = fault /\ x'.raw = raw
  BY <1>4 DEF Started
<1>7. /\ pc' \in {"adapter", "latency", "hang", "returned"}
      /\ pc' = "adapter" => fault = NoFault /\ raw = Nothing
      /\ pc' = "latency" => fault.kind = "latency" /\ raw = Nothing
      /\ pc' = "hang" => fault.kind = "hang_until_cancel" /\ raw = Nothing
      /\ pc' = "returned" => \/ raw = Panic /\ fault.kind = "inject_panic"
                             \/ raw = Structural /\ fault.kind = "persist_failure"
                             \/ raw \in SyntheticOutcome(Path, x.req.payload, fault)
  BY <1>4 DEF Dispatches
<1>8. Path' = Path
  BY <1>5 DEF Path
<1>9. Typed'
  <2>1. x'.effective \in Nat /\ x'.started \in Nat /\ x'.via \in Nat
    BY <1>2, <1>5, <1>6 DEF IInv, Typed
  <2>2. pc' \in Places /\ x'.structural \in BOOLEAN /\ x'.ctx \in Contexts
    BY <1>5, <1>7 DEF IInv, Typed, Places, Working
  <2> QED
    BY <1>1, <1>6, <2>1, <2>2 DEF IInv, Typed
<1>10. Asked'
  BY <1>1, <1>2, <1>5, <1>7 DEF IInv, Asked, Early
<1>11. Staged'
  BY <1>1, <1>2, <1>5, <1>6, <1>7 DEF Staged, Fresh
<1>12. Handled'
  <2>1. Expired(now)' <=> Expired(now)
    BY <1>1, <1>5 DEF Expired
  <2> QED
    BY <1>1, <1>2, <1>3, <1>5, <1>7, <2>1 DEF IInv, Handled
<1>13. Injected'
  <2>1. Punctual(call', x'.req.submitted, x'.started)
    BY <1>1, <1>2, <1>5, <1>6 DEF IInv, Asked
  <2>2. x'.started <= now'
    BY <1>1, <1>2, <1>6
  <2>3. Dispatched'
    BY <1>2, <1>5, <1>7 DEF Dispatched
  <2>4. pc' \in Working \/ acted' => Genuine'
    BY <1>1, <1>2, <1>6, <1>7, Distinct DEF Working, Genuine
  <2> QED
    BY <1>1, <1>4, <1>6, <1>7, <1>8, <2>1, <2>2, <2>3, <2>4 DEF IInv, Injected
<1>14. Exchanged' /\ Reported'
  BY <1>5, <1>7 DEF Exchanged, Reported
<1>15. Returned'
  <2>1. ASSUME raw \in SyntheticOutcome(Path, x.req.payload, fault)
        PROVE  Returned'
    <3>1. Sound(raw)'
      BY <1>0, <1>1, <1>2, <1>5, <1>6, <1>8, <2>1 DEF ImitatesSoundly
    <3> QED
      BY <1>6, <3>1, SoundReturned
  <2> QED
    BY <1>6, <1>7, <2>1 DEF Returned
<1>16. Delivered' /\ ReadsBack'
  BY <1>7, <1>10, NotYetDone
<1> QED
  BY <1>9, <1>10, <1>11, <1>12, <1>13, <1>14, <1>15, <1>16 DEF IInv

-----------------------------------------------------------------------------
(* Resolution and the receipt *)

LEMMA PlainFields ==
  ASSUME NEW status, NEW hint, NEW class, NEW t, NEW r, r = PlainResult(status, hint, class, t)
  PROVE  /\ r = [f \in ResultFields |-> r[f]]
         /\ r.status = status /\ r.class = class /\ r.stdout = NoStream /\ r.meta = 0 /\ r.bytes = 0
         /\ r.message = (status # "success")
BY DEF PlainResult, ResultFields

LEMMA ReceiptFields ==
  ASSUME NEW q, NEW h, NEW res, NEW a, NEW b, NEW c, NEW t, NEW r,
         r \in NewExecutionReceipt(q, h, res, mustBuildTimings(a, b, c), t)
  PROVE  r = [req |-> q, handle |-> h, result |-> res,
              timings |-> [submitted |-> a, started |-> b, completed |-> c],
              created |-> t, persisted |-> NoTime]
BY DEF NewExecutionReceipt, mustBuildTimings

LEMMA ReportedFrom ==
  ASSUME NEW res, NEW b \in Nat, NEW c \in Nat, NEW q, NEW h,
         x'.receipt = [req |-> q, handle |-> h, result |-> res,
                       timings |-> [submitted |-> q.submitted, started |-> b, completed |-> c],
                       created |-> c, persisted |-> NoTime],
         x'.req = q, x'.handle = h, q # Nothing, pc' = "persist", b <= c, c <= now',
         Punctual(call', q.submitted, b), Judged(res)',
         res.status = "timeout" =>
           \/ x'.effective > 0 /\ c >= x'.handle.started + x'.effective
           \/ call'.deadline # 0 /\ c >= call'.deadline
  PROVE  Reported'
<1> DEFINE r == x'.receipt
           t == [submitted |-> q.submitted, started |-> b, completed |-> c]
<1>1. r # Nothing
  <2>1. DOMAIN r = {"req", "handle", "result", "timings", "created", "persisted"}
    OBVIOUS
  <2>2. DOMAIN Nothing = {"of"}
    BY DEF Nothing
  <2> QED
    BY <2>1, <2>2
<1>2. /\ r.req = q /\ r.handle = h /\ r.result = res /\ r.timings = t /\ r.created = c
      /\ r.persisted = NoTime
  OBVIOUS
<1>3. r = [req |-> q, handle |-> h, result |-> r.result, timings |-> r.timings,
           created |-> r.created, persisted |-> NoTime]
  BY <1>2
<1>4. t.submitted = q.submitted /\ t.started = b /\ t.completed = c
  OBVIOUS
<1>5. t = [submitted |-> q.submitted, started |-> t.started, completed |-> t.completed]
  BY <1>4
<1> HIDE DEF r, t
<1>6. Judged(x.receipt.result)'
  BY <1>2 DEF r, Judged
<1> QED
  BY <1>1, <1>2, <1>3, <1>4, <1>5, <1>6 DEF Reported, Expired, r

\* The pseudo-handle has the canonical name of the capability asked for.
LEMMA PseudoHandle ==
  ASSUME NEW c \in Capabilities
  PROVE  LET d == [c EXCEPT !.default = Second]
         IN d \in Capabilities /\ Canonical(d) = Canonical(c)
<1> DEFINE d == [c EXCEPT !.default = Second]
<1>1. Second \in Int
  BY WidthAssumption DEF Second
<1>2. d \in Capabilities /\ d.adapter = c.adapter /\ d.name = c.name /\ d.version = c.version
  BY <1>1 DEF Capabilities
<1> HIDE DEF d
<1> QED
  BY <1>2 DEF Canonical, d

LEMMA StructuralReceipt ==
  ASSUME NEW class, PersistStructural(class)
  PROVE  \E handle, result, r :
           /\ handle = NewExecutionHandle([x.req.cap EXCEPT !.default = Second], now)
           /\ result = Failure(DefaultRetryHint(class), class, now)
           /\ r \in NewExecutionReceipt(x.req, handle, result,
                                        mustBuildTimings(x.req.submitted, now, now), now)
           /\ x' = [x EXCEPT !.receipt = r, !.structural = TRUE, !.handle = handle]
           /\ pc' = "persist"
BY Zenon DEF PersistStructural

\* The structural receipt, saved on the caller's context.
LEMMA PersistStructuralStep ==
  ASSUME IInv, pc = "resolve", NEW class, class \in {"capability_unknown", "validation_failure"},
         PersistStructural(class), UNCHANGED <<setting, now, call, outside, acted>>
  PROVE  IInv'
<1> USE IdleFields
<1>1. UNCHANGED <<env, profile, now, call, row, answer, got, store, acted>>
  BY DEF setting, outside
<1>2. /\ x.req # Nothing /\ ~acted /\ acted \in BOOLEAN /\ now \in Nat /\ Shaped(x) /\ call \in Calls
      /\ Accepted(call, x.req) /\ Punctual(call, x.req.submitted, now)
  BY DEF IInv, Asked, Early, Staged, Typed
<1>3. /\ x.effective = 0 /\ x.started = 0 /\ x.fault = NoFault /\ x.via = 0 /\ x.resp = Nothing
      /\ x.raw = Nothing
  BY DEF IInv, Staged, Fresh, Fields
<1>4. x.ctx = "deadline" => call.deadline # 0 /\ now >= call.deadline
  <2>1. ~(x.effective > 0)
    BY <1>3
  <2> QED
    BY <2>1 DEF IInv, Handled, Expired
<1>5. PICK handle, result, r :
        /\ handle = NewExecutionHandle([x.req.cap EXCEPT !.default = Second], now)
        /\ result = Failure(DefaultRetryHint(class), class, now)
        /\ r \in NewExecutionReceipt(x.req, handle, result,
                                     mustBuildTimings(x.req.submitted, now, now), now)
        /\ x' = [x EXCEPT !.receipt = r, !.structural = TRUE, !.handle = handle]
        /\ pc' = "persist"
  BY StructuralReceipt, ZenonT(60)
<1>0. PICK cap :
        /\ cap = [x.req.cap EXCEPT !.default = Second]
        /\ handle = [cap |-> cap, started |-> now]
        /\ result = PlainResult("failure", DefaultRetryHint(class), class, now)
  BY <1>5, Zenon DEF NewExecutionHandle, Failure
<1>6. /\ Shaped(x') /\ x'.receipt = r /\ x'.structural = TRUE /\ x'.handle = handle
      /\ Same(x, x', {"receipt", "structural", "handle"})
  <2>1. x' = [x EXCEPT !.receipt = r, !.structural = TRUE, !.handle = handle]
    BY <1>5
  <2> QED
    BY <1>2, <2>1 DEF Shaped, Same, Fields
<1>7. /\ x'.req = x.req /\ x'.effective = 0 /\ x'.started = 0 /\ x'.fault = NoFault
      /\ x'.via = 0 /\ x'.resp = Nothing /\ x'.raw = Nothing /\ x'.ctx = x.ctx
  BY <1>3, <1>6 DEF Same, Fields
<1>8. Typed'
  <2>1. x'.effective \in Nat /\ x'.started \in Nat /\ x'.via \in Nat
    BY <1>7
  <2>2. pc' \in Places /\ x'.structural \in BOOLEAN /\ x'.ctx \in Contexts
    BY <1>5, <1>6, <1>7 DEF IInv, Typed, Places
  <2> QED
    BY <1>1, <1>6, <2>1, <2>2 DEF IInv, Typed
<1>9. Asked'
  BY <1>1, <1>2, <1>5, <1>7 DEF IInv, Asked, Early
<1>10. Staged'
  BY <1>1, <1>2, <1>5, <1>6, <1>7 DEF Staged, Fresh
<1>11. Handled'
  <2>1. x.req.cap \in Capabilities
    BY <1>2, CallAssumption DEF Accepted
  <2>2. cap \in Capabilities /\ Canonical(cap) = Canonical(x.req.cap)
    BY <1>0, <2>1, PseudoHandle
  <2>3. handle.cap = cap /\ handle.started = now /\ handle = [cap |-> handle.cap, started |-> handle.started]
    BY <1>0
  <2> QED
    BY <1>1, <1>2, <1>4, <1>6, <1>7, <2>2, <2>3 DEF Handled, Expired
<1>12. ~Dispatched' /\ Genuine'
  BY <1>6, <1>7, Distinct DEF Dispatched, Genuine
<1>13. Injected'
  BY <1>1, <1>2, <1>5, <1>7, <1>12 DEF IInv, Injected
<1>14. Exchanged' /\ Returned'
  BY <1>5, <1>7 DEF Exchanged, Returned
<1>15. Reported'
  <2>1. /\ result = [f \in ResultFields |-> result[f]]
        /\ result.status = "failure" /\ result.class = class
    BY <1>0, PlainFields
  <2>2. Judged(result)'
    <3>0. result.status = "failure" /\ result.class = class
      BY <2>1
    <3>1. /\ result.class # "adapter_internal_error" /\ result.class # "normalization_failure"
          /\ result.status # "success" /\ result.status # "timeout"
      BY <3>0
    <3>2. ~acted'
      BY <1>1, <1>2
    <3> QED
      BY <2>1, <3>1, <3>2, Zenon DEF Judged
  <2>3. r = [req |-> x.req, handle |-> handle, result |-> result,
             timings |-> [submitted |-> x.req.submitted, started |-> now, completed |-> now],
             created |-> now, persisted |-> NoTime]
    BY <1>5, ReceiptFields
  <2> QED
    BY <1>1, <1>2, <1>5, <1>6, <1>7, <2>1, <2>2, <2>3, ReportedFrom
<1>16. Delivered' /\ ReadsBack'
  BY <1>5, <1>9, NotYetDone
<1> QED
  BY <1>8, <1>9, <1>10, <1>11, <1>13, <1>14, <1>15, <1>16 DEF IInv

\* A request without a handle ends with the pseudo-handle's receipt.
LEMMA ResolveStep ==
  ASSUME IInv, Resolve
  PROVE  IInv'
<1> USE IdleFields
<1>1. /\ pc = "resolve" /\ UNCHANGED <<setting, now, call, outside, acted>>
      /\ UNCHANGED <<env, profile, now, call, row, answer, got, store, acted>>
  BY DEF Resolve, setting, outside
<1>2. /\ x.req # Nothing /\ ~acted /\ now \in Nat /\ Shaped(x) /\ call \in Calls
      /\ Accepted(call, x.req)
  BY <1>1 DEF IInv, Asked, Early, Staged, Typed
<1>3. /\ x.structural = FALSE /\ x.started = 0 /\ x.fault = NoFault /\ x.via = 0
      /\ x.resp = Nothing /\ x.raw = Nothing /\ x.receipt = Nothing /\ x.effective = 0
  BY <1>1 DEF IInv, Staged, Fresh, Fields
<1>4. CASE PersistStructural("capability_unknown") \/ PersistStructural("validation_failure")
  BY <1>1, <1>4, PersistStructuralStep
<1>5. ASSUME NEW cap, cap \in Lookup(x.req), NEW effective,
             effective = minDuration({x.req.budget, cap.default, MaxTimeout}),
             x' = [x EXCEPT !.handle = NewExecutionHandle(cap, now), !.effective = effective],
             pc' = "dispatch"
      PROVE  IInv'
  <2>1. /\ cap \in Capabilities /\ cap.default \in Nat \ {0}
        /\ Canonical(cap) = Canonical(x.req.cap)
    BY <1>5, PipelineAssumption DEF Lookup, NewCapability, Capabilities
  <2>2. x.req.budget \in Nat \ {0} /\ MaxTimeout \in Nat \ {0}
    BY <1>2, PowerAssumption, Constants DEF Accepted, Int64
  <2>3. /\ effective \in Nat \ {0} /\ effective <= x.req.budget /\ effective <= cap.default
        /\ effective <= MaxTimeout
    BY <1>5, <2>1, <2>2, MinDurationIsLeast
  <2>4. PICK handle : handle = [cap |-> cap, started |-> now]
    OBVIOUS
  <2>5. /\ Shaped(x') /\ x'.handle = handle /\ x'.effective = effective
        /\ Same(x, x', {"handle", "effective"})
    <3>1. x' = [x EXCEPT !.handle = handle, !.effective = effective]
      BY <1>5, <2>4 DEF NewExecutionHandle
    <3> QED
      BY <1>2, <3>1 DEF Shaped, Same, Fields
  <2>6. /\ x'.req = x.req /\ x'.structural = FALSE /\ x'.started = 0 /\ x'.fault = NoFault
        /\ x'.via = 0 /\ x'.resp = Nothing /\ x'.raw = Nothing /\ x'.receipt = Nothing
        /\ x'.ctx = x.ctx
    BY <1>3, <2>5 DEF Same, Fields
  <2>7. Typed'
    <3>1. x'.effective \in Nat /\ x'.started \in Nat /\ x'.via \in Nat
      BY <2>3, <2>5, <2>6
    <3>2. pc' \in Places /\ x'.structural \in BOOLEAN /\ x'.ctx \in Contexts
      BY <1>5, <2>6 DEF IInv, Typed, Places
    <3> QED
      BY <1>1, <2>5, <3>1, <3>2 DEF IInv, Typed
  <2>8. Asked'
    BY <1>1, <1>2, <1>5, <2>6 DEF IInv, Asked, Early
  <2>9. Staged'
    <3>1. Fresh(Fields \ {"req", "ctx", "handle", "effective"})'
      BY <1>1, <2>5 DEF IInv, Staged, Fresh, Same
    <3> QED
      BY <1>1, <1>2, <1>5, <2>6, <3>1 DEF Staged
  <2>10. Handled'
    <3>1. handle.cap = cap /\ handle.started = now /\ handle = [cap |-> handle.cap, started |-> handle.started]
      BY <2>4
    <3>2. x.ctx = "deadline" => call.deadline # 0 /\ now >= call.deadline
      <4>1. ~(x.effective > 0)
        BY <1>3
      <4> QED
        BY <4>1 DEF IInv, Handled, Expired
    <3> QED
      BY <1>1, <1>2, <2>1, <2>3, <2>5, <2>6, <3>1, <3>2 DEF Handled, Expired
  <2>11. ~Dispatched' /\ Genuine'
    BY <1>5, <2>6, Distinct DEF Dispatched, Genuine
  <2>12. Injected'
    BY <1>1, <1>2, <1>5, <2>6, <2>11 DEF IInv, Injected
  <2>13. Exchanged' /\ Returned' /\ Reported'
    BY <1>5, <2>6 DEF Exchanged, Returned, Reported
  <2>14. Delivered' /\ ReadsBack'
    BY <1>5, <2>8, NotYetDone
  <2> QED
    BY <2>7, <2>8, <2>9, <2>10, <2>12, <2>13, <2>14 DEF IInv
<1> QED
  BY <1>4, <1>5 DEF Resolve

-----------------------------------------------------------------------------
(* The result *)

WellFormed(r) ==
  /\ r = [f \in ResultFields |-> r[f]]
  /\ r.bytes \in Nat
  /\ \/ r.status = "success" /\ r.class = "none" /\ r.message = FALSE
     \/ r.status = "failure" /\ r.class # "none" /\ r.message = TRUE

LEMMA PlainIsWellFormed ==
  ASSUME NEW hint, NEW class, class # "none", NEW t
  PROVE  /\ WellFormed(Success(t)) /\ Success(t).status = "success" /\ Success(t).class = "none"
         /\ Success(t).meta = 0
         /\ WellFormed(Failure(hint, class, t)) /\ Failure(hint, class, t).status = "failure"
         /\ Failure(hint, class, t).class = class /\ Failure(hint, class, t).meta = 0
<1>1. PICK r, s : r = Success(t) /\ s = Failure(hint, class, t)
  OBVIOUS
<1>2. /\ r = [f \in ResultFields |-> r[f]]
      /\ r.status = "success" /\ r.class = "none" /\ r.meta = 0 /\ r.bytes = 0
      /\ r.message = FALSE
  BY <1>1 DEF Success, PlainResult, ResultFields
<1>3. /\ s = [f \in ResultFields |-> s[f]]
      /\ s.status = "failure" /\ s.class = class /\ s.meta = 0 /\ s.bytes = 0
      /\ s.message = TRUE
  BY <1>1 DEF Failure, PlainResult, ResultFields
<1>4. WellFormed(r)
  <2>1. r.bytes \in Nat
    BY <1>2
  <2> QED
    BY <1>2, <2>1, Zenon DEF WellFormed
<1>5. WellFormed(s)
  <2>1. s.bytes \in Nat
    BY <1>3
  <2> QED
    BY <1>3, <2>1, Zenon DEF WellFormed
<1> QED
  BY <1>1, <1>2, <1>3, <1>4, <1>5, Zenon

\* The streams, the exit code, the metadata and the text do not change what a
\* result says.
Streamed(r, s, e, b) == [r EXCEPT !.stdout = s, !.exit = e, !.bytes = b]
Described(r, s, m, b) == [r EXCEPT !.stdout = s, !.meta = m, !.bytes = b]

Quoting(r, nul) == [r EXCEPT !.nul = nul]

LEMMA QuotingIsWellFormed ==
  ASSUME NEW r, NEW nul, NEW z, WellFormed(r), z = Quoting(r, nul)
  PROVE  WellFormed(z) /\ z.status = r.status /\ z.class = r.class /\ z.meta = r.meta
<1>1. r = [f \in ResultFields |-> r[f]]
  BY DEF WellFormed
<1>2. /\ z = [f \in ResultFields |-> z[f]] /\ z.status = r.status /\ z.class = r.class
      /\ z.message = r.message /\ z.bytes = r.bytes /\ z.meta = r.meta
  BY <1>1 DEF ResultFields, Quoting
<1>3. WellFormed(z)
  BY <1>2, Zenon DEF WellFormed
<1> QED
  BY <1>2, <1>3

LEMMA StreamedIsWellFormed ==
  ASSUME NEW r, NEW s, NEW e, NEW b, NEW z, WellFormed(r), b \in Nat, z = Streamed(r, s, e, b)
  PROVE  WellFormed(z) /\ z.status = r.status /\ z.class = r.class /\ z.meta = r.meta
<1>1. r = [f \in ResultFields |-> r[f]]
  BY DEF WellFormed
<1>2. /\ z = [f \in ResultFields |-> z[f]] /\ z.status = r.status /\ z.class = r.class
      /\ z.message = r.message /\ z.bytes = b /\ z.meta = r.meta
  BY <1>1 DEF ResultFields, Streamed
<1>3. WellFormed(z)
  BY <1>2, Zenon DEF WellFormed
<1> QED
  BY <1>2, <1>3

LEMMA DescribedIsWellFormed ==
  ASSUME NEW r, NEW s, NEW m, NEW b, NEW z, WellFormed(r), b \in Nat, z = Described(r, s, m, b)
  PROVE  WellFormed(z) /\ z.status = r.status /\ z.class = r.class /\ z.meta = m
<1>1. r = [f \in ResultFields |-> r[f]]
  BY DEF WellFormed
<1>2. /\ z = [f \in ResultFields |-> z[f]] /\ z.status = r.status /\ z.class = r.class
      /\ z.message = r.message /\ z.bytes = b /\ z.meta = m
  BY <1>1 DEF ResultFields, Described
<1>3. WellFormed(z)
  BY <1>2, Zenon DEF WellFormed
<1> QED
  BY <1>2, <1>3

\* Only too much metadata makes the constructor refuse such a result.
LEMMA NewResult ==
  ASSUME NEW r, WellFormed(r)
  PROVE  /\ r.meta <= MaxAdapterMeta => NewExecutionResult(r) = {r}
         /\ ~(r.meta <= MaxAdapterMeta) => NewExecutionResult(r) = {}
<1>1. r.bytes >= 0
  BY DEF WellFormed
<1>2. /\ r.status = "success" => r.class = "none" /\ ~r.message
      /\ r.status # "timeout" /\ r.status # "cancelled" /\ r.status # "partial"
      /\ r.status = "failure" => r.class # "none" /\ r.message
  BY DEF WellFormed
<1>3. r.meta <= MaxAdapterMeta => NewExecutionResult(r) = {r}
  BY <1>1, <1>2 DEF NewExecutionResult
<1>4. ~(r.meta <= MaxAdapterMeta) => NewExecutionResult(r) = {}
  BY DEF NewExecutionResult
<1> QED
  BY <1>3, <1>4

LEMMA WellFormedIsJudged ==
  ASSUME NEW r, WellFormed(r),
         \/ r.status = "success" /\ Earned
         \/ r.status = "failure" /\ r.class = "external_failure"
         \/ r.status = "failure" /\ r.class = "validation_failure" /\ (~acted \/ MakesParents)
  PROVE  Judged(r)
<1>1. r = [f \in ResultFields |-> r[f]]
  BY DEF WellFormed
<1>2. r.status = "success" => r.class = "none"
  BY DEF WellFormed
<1>3. /\ r.class # "adapter_internal_error" /\ r.class # "normalization_failure"
      /\ r.class # "capability_unknown" /\ r.status # "timeout"
      /\ r.class = "validation_failure" => ~acted \/ MakesParents
      /\ r.status = "success" => Earned
  BY <1>2
<1> QED
  BY <1>1, <1>3, Zenon DEF Judged

LEMMA ShellJudged ==
  ASSUME NEW r, ShellSound(r), NEW t
  PROVE  \E res : ShellNormalize(r, t) = {res} /\ Judged(res)
<1>1. r.ctxErr = "none" /\ r.out \in Nat
  BY DEF ShellSound
<1>2. /\ r.validation => ~acted
      /\ ~r.validation /\ r.exit \in r.exitSuccess => Earned
  BY DEF ShellSound
<1>3. MaxAdapterMeta \in Nat
  BY LimitAssumption
<1> DEFINE s == CHOOSE s \in NewStreamRef(r.out, r.out) : TRUE
           With(res) == [res EXCEPT !.stdout = s, !.exit = r.exit, !.bytes = r.out]
<1>4. CASE r.validation
  <2>1. PICK res : res = Failure("non_retryable", "validation_failure", t)
    OBVIOUS
  <2>2. ShellNormalize(r, t) = NewExecutionResult(res)
    BY <1>1, <1>4, <2>1 DEF ShellNormalize
  <2>3. WellFormed(res) /\ res.status = "failure" /\ res.class = "validation_failure" /\ res.meta = 0
    BY <2>1, PlainIsWellFormed
  <2>4. Judged(res)
    BY <1>2, <1>4, <2>3, WellFormedIsJudged
  <2>5. NewExecutionResult(res) = {res}
    BY <1>3, <2>3, NewResult
  <2> QED
    BY <2>2, <2>4, <2>5
<1>5. CASE ~r.validation /\ r.exit \in r.exitSuccess
  <2>1. PICK base, res : base = Success(t) /\ res = With(base)
    OBVIOUS
  <2>2. ShellNormalize(r, t) = NewExecutionResult(res)
    BY <1>1, <1>5, <2>1 DEF ShellNormalize
  <2>3. WellFormed(base) /\ base.status = "success" /\ base.meta = 0
    BY <2>1, PlainIsWellFormed
  <2> HIDE DEF s
  <2>4. PICK e, n : e = r.exit /\ n = r.out /\ n \in Nat
    BY <1>1
  <2>5. res = Streamed(base, s, e, n)
    BY <2>1, <2>4 DEF Streamed
  <2>6. WellFormed(res) /\ res.status = "success" /\ res.meta = 0
    BY <2>3, <2>4, <2>5, StreamedIsWellFormed
  <2>7. Judged(res)
    BY <1>2, <1>5, <2>6, WellFormedIsJudged
  <2>8. NewExecutionResult(res) = {res}
    BY <1>3, <2>6, NewResult
  <2> QED
    BY <2>2, <2>7, <2>8
<1>6. CASE ~r.validation /\ r.exit \notin r.exitSuccess
  <2>1. PICK base, res : base = Failure("unknown", "external_failure", t) /\ res = With(base)
    OBVIOUS
  <2>2. ShellNormalize(r, t) = NewExecutionResult(res)
    BY <1>1, <1>6, <2>1 DEF ShellNormalize
  <2>3. WellFormed(base) /\ base.status = "failure" /\ base.class = "external_failure" /\ base.meta = 0
    BY <2>1, PlainIsWellFormed
  <2> HIDE DEF s
  <2>4. PICK e, n : e = r.exit /\ n = r.out /\ n \in Nat
    BY <1>1
  <2>5. res = Streamed(base, s, e, n)
    BY <2>1, <2>4 DEF Streamed
  <2>6. WellFormed(res) /\ res.status = "failure" /\ res.class = "external_failure" /\ res.meta = 0
    BY <2>3, <2>4, <2>5, StreamedIsWellFormed
  <2>7. Judged(res)
    BY <2>6, WellFormedIsJudged
  <2>8. NewExecutionResult(res) = {res}
    BY <1>3, <2>6, NewResult
  <2> QED
    BY <2>2, <2>7, <2>8
<1> QED
  BY <1>4, <1>5, <1>6

LEMMA OtherJudged ==
  ASSUME NEW r, OtherSound(r)
  PROVE  \E res : OtherNormalize(r) = {res} /\ Judged(res)
<1>1. r.ctxErr = "none"
  BY DEF OtherSound
<1>2. /\ r.validation => ~acted \/ MakesParents
      /\ ~r.validation /\ ~r.runErr => Earned
  BY DEF OtherSound
<1>3. MaxAdapterMeta \in Nat
  BY LimitAssumption
<1>4. PICK base, res :
        /\ OtherNormalize(r) = NewExecutionResult(res)
        /\ res = Quoting(base, r.nul)
        /\ \/ r.validation /\ base = Failure("non_retryable", "validation_failure", now)
           \/ ~r.validation /\ r.runErr /\ base = Failure("unknown", "external_failure", now)
           \/ ~r.validation /\ ~r.runErr /\ base = Success(now)
  BY <1>1, Zenon DEF OtherNormalize, Quoting
<1>8. /\ WellFormed(base) /\ base.meta = 0
      /\ \/ r.validation /\ base.status = "failure" /\ base.class = "validation_failure"
         \/ base.status = "failure" /\ base.class = "external_failure"
         \/ ~r.validation /\ ~r.runErr /\ base.status = "success"
  BY <1>4, PlainIsWellFormed
<1>5. /\ WellFormed(res) /\ res.meta = 0
      /\ \/ r.validation /\ res.status = "failure" /\ res.class = "validation_failure"
         \/ res.status = "failure" /\ res.class = "external_failure"
         \/ ~r.validation /\ ~r.runErr /\ res.status = "success"
  <2>1. WellFormed(res) /\ res.status = base.status /\ res.class = base.class /\ res.meta = base.meta
    BY <1>4, <1>8, QuotingIsWellFormed
  <2> QED
    BY <1>8, <2>1
<1>6. Judged(res)
  BY <1>2, <1>5, WellFormedIsJudged
<1>7. NewExecutionResult(res) = {res}
  BY <1>3, <1>5, NewResult
<1> QED
  BY <1>4, <1>6, <1>7

\* Only an answer whose headers outgrow the metadata has no result.
LEMMA HttpJudged ==
  ASSUME NEW r, HttpSound(r), NEW t
  PROVE  \/ \E res : HttpNormalize(r, t) = {res} /\ Judged(res)
         \/ HttpNormalize(r, t) = {} /\ acted /\ x.resp # Nothing /\ x.resp.headers >= MaxAdapterMeta
<1> DEFINE expected == IF r.expected = {} THEN 200 .. 299 ELSE r.expected
<1>1. r.ctxErr = "none" /\ r.total \in Nat /\ r.headers \in Nat
  BY DEF HttpSound
<1>2. /\ r.validation => ~acted
      /\ ~r.validation /\ ~r.runErr /\ r.status \in expected => Earned
  BY DEF HttpSound
<1>3. r.headers >= MaxAdapterMeta => acted /\ x.resp # Nothing /\ x.resp.headers = r.headers
  BY DEF HttpSound
<1>4. MaxAdapterMeta \in Nat
  BY LimitAssumption
<1>5. CASE r.validation \/ r.runErr
  <2>1. PICK base, res :
          /\ HttpNormalize(r, t) = NewExecutionResult(res)
          /\ \/ /\ r.validation /\ base = Failure("non_retryable", "validation_failure", t)
                /\ res = base
             \/ base = Failure("unknown", "external_failure", t) /\ res = Quoting(base, r.nul)
    BY <1>1, <1>5 DEF HttpNormalize, Quoting
  <2>5. /\ WellFormed(base) /\ base.meta = 0
        /\ \/ r.validation /\ base.status = "failure" /\ base.class = "validation_failure"
                /\ res = base
           \/ /\ base.status = "failure" /\ base.class = "external_failure"
              /\ res = Quoting(base, r.nul)
    BY <2>1, PlainIsWellFormed
  <2>2. /\ WellFormed(res) /\ res.meta = 0
        /\ \/ r.validation /\ res.status = "failure" /\ res.class = "validation_failure"
           \/ res.status = "failure" /\ res.class = "external_failure"
    BY <2>5, QuotingIsWellFormed
  <2>3. Judged(res)
    BY <1>2, <2>2, WellFormedIsJudged
  <2>4. NewExecutionResult(res) = {res}
    BY <1>4, <2>2, NewResult
  <2> QED
    BY <2>1, <2>3, <2>4
<1>6. CASE ~r.validation /\ ~r.runErr
  <2> DEFINE s == CHOOSE s \in NewStreamRef(r.body, r.total) : TRUE
             hint == IF r.status \in 500 .. 599 THEN "retryable" ELSE "unknown"
             With(b) == [b EXCEPT !.stdout = s, !.meta = 1 + r.headers, !.bytes = r.total]
  <2>1. PICK base, res :
          /\ HttpNormalize(r, t) = NewExecutionResult(res)
          /\ res = With(base)
          /\ \/ r.status \in expected /\ base = Success(t)
             \/ base = Failure(hint, "external_failure", t)
    BY <1>1, <1>6, ZenonT(60) DEF HttpNormalize
  <2>2. PICK m : m = 1 + r.headers
    OBVIOUS
  <2> HIDE DEF s, hint
  <2>3. /\ WellFormed(base) /\ base.meta = 0
        /\ \/ r.status \in expected /\ base.status = "success"
           \/ base.status = "failure" /\ base.class = "external_failure"
    BY <2>1, PlainIsWellFormed
  <2>4. PICK n : n = r.total /\ n \in Nat
    BY <1>1
  <2>5. /\ WellFormed(res) /\ res.status = base.status /\ res.class = base.class
        /\ res.meta = 1 + r.headers
    <3>1. res = Described(base, s, m, n)
      BY <2>1, <2>2, <2>4 DEF Described
    <3>2. WellFormed(res) /\ res.status = base.status /\ res.class = base.class /\ res.meta = m
      BY <2>3, <2>4, <3>1, DescribedIsWellFormed
    <3> QED
      BY <2>2, <3>2
  <2>6. Judged(res)
    <3>1. \/ res.status = "success" /\ Earned
          \/ res.status = "failure" /\ res.class = "external_failure"
      BY <1>2, <1>6, <2>3, <2>5, Zenon
    <3> QED
      BY <2>5, <3>1, WellFormedIsJudged
  <2>7. CASE res.meta <= MaxAdapterMeta
    BY <2>1, <2>5, <2>6, <2>7, NewResult
  <2>8. CASE ~(res.meta <= MaxAdapterMeta)
    <3>1. r.headers >= MaxAdapterMeta
      BY <1>1, <1>4, <2>5, <2>8
    <3> QED
      BY <1>3, <2>1, <2>5, <2>8, <3>1, NewResult
  <2> QED
    BY <2>7, <2>8
<1> QED
  BY <1>5, <1>6

\* What a normalizer makes of a sound outcome is so.
LEMMA NormalizedIsJudged ==
  ASSUME NEW raw, Sound(raw)
  PROVE  \/ \E res : Normalize(raw) = {res} /\ Judged(res)
         \/ Normalize(raw) = {} /\ acted /\ x.resp # Nothing /\ x.resp.headers >= MaxAdapterMeta
<1>1. CASE raw.of = "shell" /\ ShellSound(raw)
  <2>1. Normalize(raw) = ShellNormalize(raw, now)
    BY <1>1 DEF Normalize
  <2> QED
    BY <1>1, <2>1, ShellJudged
<1>2. CASE raw.of = "http" /\ HttpSound(raw)
  <2>1. Normalize(raw) = HttpNormalize(raw, now)
    BY <1>2 DEF Normalize
  <2> QED
    BY <1>2, <2>1, HttpJudged, Zenon
<1>3. CASE raw.of = "other" /\ OtherSound(raw)
  <2>1. Normalize(raw) = OtherNormalize(raw)
    BY <1>3 DEF Normalize
  <2> QED
    BY <1>3, <2>1, OtherJudged
<1> QED
  BY <1>1, <1>2, <1>3 DEF Sound

LEMMA PlainIsJudged ==
  ASSUME NEW status, NEW hint, NEW class, NEW t,
         \/ status = "failure" /\ class = "adapter_internal_error"
              /\ x.fault.kind \in {"inject_panic", "persist_failure"}
         \/ status = "failure" /\ class = "normalization_failure"
              /\ acted /\ x.resp # Nothing /\ x.resp.headers >= MaxAdapterMeta
         \/ status = "timeout" /\ class = "timeout" /\ x.ctx = "deadline"
         \/ status = "cancelled" /\ class = "cancelled"
  PROVE  Judged(PlainResult(status, hint, class, t))
<1>1. PICK r : r = PlainResult(status, hint, class, t)
  OBVIOUS
<1>2. r = [f \in ResultFields |-> r[f]] /\ r.status = status /\ r.class = class
  BY <1>1, PlainFields
<1>3. /\ status # "success" /\ class \notin {"validation_failure", "capability_unknown"}
      /\ class = "adapter_internal_error" => x.fault.kind \in {"inject_panic", "persist_failure"}
      /\ class = "normalization_failure" =>
           acted /\ x.resp # Nothing /\ x.resp.headers >= MaxAdapterMeta
      /\ status = "timeout" => x.ctx = "deadline"
  OBVIOUS
<1>4. Judged(r)
  BY <1>2, <1>3, Zenon DEF Judged
<1> QED
  BY <1>1, <1>4

\* What the service makes of a run is so.
LEMMA ClassifiedIsJudged ==
  ASSUME IInv, pc = "returned"
  PROVE  Judged(Classified)
<1>1. x.ctx \in {"none", "deadline", "cancelled"}
  BY DEF IInv, Typed, Contexts
<1>2. CASE x.ctx = "deadline"
  <2>1. Classified = PlainResult("timeout", "retryable", "timeout", now)
    BY <1>2 DEF Classified, CtxResult
  <2> QED
    BY <1>2, <2>1, PlainIsJudged
<1>3. CASE x.ctx = "cancelled"
  <2>1. Classified = PlainResult("cancelled", "non_retryable", "cancelled", now)
    BY <1>3 DEF Classified, CtxResult
  <2> QED
    BY <2>1, PlainIsJudged
<1>4. CASE x.ctx = "none"
  <2>1. CASE x.raw \in {Structural, Panic}
    <3>1. Classified = PlainResult("failure", "non_retryable", "adapter_internal_error", now)
      BY <1>4, <2>1 DEF Classified, Failure
    <3>2. ~Sound(x.raw)
      BY <2>1 DEF Sound, Structural, Panic
    <3>3. x.fault.kind \in {"inject_panic", "persist_failure"}
      BY <1>4, <3>2 DEF IInv, Returned
    <3> QED
      BY <3>1, <3>3, PlainIsJudged
  <2>2. CASE x.raw \notin {Structural, Panic}
    <3>1. Sound(x.raw)
      BY <1>4, <2>2 DEF IInv, Returned
    <3>2. CASE /\ Normalize(x.raw) = {} /\ acted /\ x.resp # Nothing
               /\ x.resp.headers >= MaxAdapterMeta
      <4>1. Classified = PlainResult("failure", "non_retryable", "normalization_failure", now)
        BY <1>4, <2>2, <3>2 DEF Classified, Failure
      <4> QED
        BY <3>2, <4>1, PlainIsJudged
    <3>3. CASE \E res : Normalize(x.raw) = {res} /\ Judged(res)
      <4>1. PICK res : Normalize(x.raw) = {res} /\ Judged(res)
        BY <3>3
      <4>2. Classified = CHOOSE r \in {res} : TRUE
        BY <1>4, <2>2, <4>1 DEF Classified
      <4>3. Classified = res
        BY <4>2
      <4> QED
        BY <4>1, <4>3
    <3> QED
      BY <3>1, <3>2, <3>3, NormalizedIsJudged
  <2> QED
    BY <2>1, <2>2
<1> QED
  BY <1>1, <1>2, <1>3, <1>4

\* The result of the call, and its instants.
LEMMA ClassifyStep ==
  ASSUME IInv, Classify
  PROVE  IInv'
<1> USE IdleFields
<1>1. /\ pc = "returned" /\ pc' = "persist"
      /\ UNCHANGED <<env, profile, now, call, row, answer, got, store, acted>>
  BY DEF Classify, setting, outside
<1>2. PICK res, r :
        /\ res = Classified
        /\ r \in NewExecutionReceipt(x.req, x.handle, res,
                                     mustBuildTimings(x.req.submitted, x.started, now), now)
        /\ x' = [x EXCEPT !.receipt = r]
  BY Zenon DEF Classify
<1>3. Shaped(x') /\ x'.receipt = r /\ Same(x, x', {"receipt"})
  BY <1>2, SetOne DEF IInv, Typed
<1>4. /\ x'.req = x.req /\ x'.structural = x.structural /\ x'.handle = x.handle
      /\ x'.effective = x.effective /\ x'.ctx = x.ctx /\ x'.started = x.started
      /\ x'.fault = x.fault /\ x'.via = x.via /\ x'.resp = x.resp /\ x'.raw = x.raw
  BY <1>3 DEF Same, Fields
<1>5. x.req # Nothing /\ x.structural = FALSE /\ now \in Nat /\ x.started \in Nat
  BY <1>1 DEF IInv, Asked, Early, Staged, Fresh, Typed
<1>6. Typed'
  BY <1>1, <1>3, <1>4 DEF IInv, Typed, Places
<1>7. Asked'
  BY <1>1, <1>4, <1>5 DEF IInv, Asked, Early
<1>8. Staged'
  BY <1>1, <1>4, <1>5 DEF Staged
<1>9. Handled'
  <2>1. Expired(now)' <=> Expired(now)
    BY <1>1, <1>4 DEF Expired
  <2> QED
    BY <1>1, <1>4, <1>5, <2>1 DEF IInv, Handled
<1>10. Dispatched /\ Dispatched' /\ Path' = Path /\ (Genuine' <=> Genuine)
  BY <1>1, <1>4, <1>5 DEF Dispatched, Path, Genuine
<1>11. Injected'
  BY <1>1, <1>4, <1>10 DEF IInv, Injected, Working
<1>12. Exchanged' /\ Returned'
  BY <1>1, <1>4, <1>10 DEF IInv, Exchanged, Returned
<1>13. Reported'
  <2>1. Judged(res)
    BY <1>1, <1>2, ClassifiedIsJudged
  <2>2. Earned => Earned'
    BY <1>1, <1>4, <1>10 DEF Earned
  <2>7. MakesParents' <=> MakesParents
    BY <1>4, <1>10 DEF MakesParents
  <2>3. Judged(res)'
    BY <1>1, <1>4, <2>1, <2>2, <2>7 DEF Judged
  <2>4. res.status = "timeout" =>
          \/ x'.effective > 0 /\ now >= x'.handle.started + x'.effective
          \/ call'.deadline # 0 /\ now >= call'.deadline
    BY <1>1, <1>4, <2>1 DEF Judged, IInv, Handled, Expired
  <2>5. r = [req |-> x.req, handle |-> x.handle, result |-> res,
             timings |-> [submitted |-> x.req.submitted, started |-> x.started, completed |-> now],
             created |-> now, persisted |-> NoTime]
    BY <1>2, ReceiptFields
  <2>6. x.started <= now /\ Punctual(call, x.req.submitted, x.started)
    BY <1>10 DEF IInv, Injected
  <2> QED
    BY <1>1, <1>3, <1>4, <1>5, <2>3, <2>4, <2>5, <2>6, ReportedFrom
<1>14. Delivered' /\ ReadsBack'
  BY <1>1, <1>7, NotYetDone
<1> QED
  BY <1>6, <1>7, <1>8, <1>9, <1>11, <1>12, <1>13, <1>14 DEF IInv

-----------------------------------------------------------------------------
(* The row *)

Rec(q, h, res, tm, c, p) ==
  [req |-> q, handle |-> h, result |-> res, timings |-> tm, created |-> c, persisted |-> p]

LEMMA RecFields ==
  ASSUME NEW q, NEW h, NEW res, NEW tm, NEW c, NEW p, NEW r, r = Rec(q, h, res, tm, c, p)
  PROVE  /\ r.req = q /\ r.handle = h /\ r.result = res /\ r.timings = tm /\ r.created = c
         /\ r.persisted = p
         /\ r \notin {Nothing, Error, Refused, Unreadable}
<1>1. /\ r.req = q /\ r.handle = h /\ r.result = res /\ r.timings = tm /\ r.created = c
      /\ r.persisted = p
  BY DEF Rec
<1>2. DOMAIN r = {"req", "handle", "result", "timings", "created", "persisted"}
  BY DEF Rec
<1>3. \A y \in {Nothing, Error, Refused, Unreadable} : DOMAIN y = {"of"}
  BY DEF Nothing, Error, Refused, Unreadable
<1> QED
  BY <1>1, <1>2, <1>3

LEMMA MarshalRec ==
  ASSUME NEW q, NEW h, NEW res, NEW tm, NEW c, NEW p
  PROVE  MarshalReceipt(Rec(q, h, res, tm, c, p)) =
           IF tm.submitted \notin FirstInstant .. LastInstant THEN {}
           ELSE {Rec(MarshalRequest(q), MarshalHandle(h), res, tm, InMs(c), InMs(p))}
<1>1. PICK r : r = Rec(q, h, res, tm, c, p)
  OBVIOUS
<1>2. PICK mq, mh, mc, mp :
        mq = MarshalRequest(q) /\ mh = MarshalHandle(h) /\ mc = InMs(c) /\ mp = InMs(p)
  OBVIOUS
<1>3. /\ r.req = q /\ r.handle = h /\ r.timings = tm /\ r.created = c /\ r.persisted = p
  BY <1>1, RecFields
<1>4. MarshalReceipt(r) =
        IF tm.submitted \notin FirstInstant .. LastInstant THEN {}
        ELSE {[r EXCEPT !.req = mq, !.handle = mh, !.created = mc, !.persisted = mp]}
  BY <1>2, <1>3 DEF MarshalReceipt
<1>5. [r EXCEPT !.req = mq, !.handle = mh, !.created = mc, !.persisted = mp]
        = Rec(mq, mh, res, tm, mc, mp)
  <2>1. PICK a : a = [r EXCEPT !.req = mq]
    OBVIOUS
  <2>2. a = Rec(mq, h, res, tm, c, p)
    BY <1>1, <2>1 DEF Rec
  <2>3. PICK b : b = [a EXCEPT !.handle = mh]
    OBVIOUS
  <2>4. b = Rec(mq, mh, res, tm, c, p)
    BY <2>2, <2>3 DEF Rec
  <2>5. PICK d : d = [b EXCEPT !.created = mc]
    OBVIOUS
  <2>6. d = Rec(mq, mh, res, tm, mc, p)
    BY <2>4, <2>5 DEF Rec
  <2>7. [d EXCEPT !.persisted = mp] = Rec(mq, mh, res, tm, mc, mp)
    BY <2>6 DEF Rec
  <2>8. [r EXCEPT !.req = mq, !.handle = mh, !.created = mc, !.persisted = mp]
          = [d EXCEPT !.persisted = mp]
    BY <2>1, <2>3, <2>5
  <2> QED
    BY <2>7, <2>8
<1> QED
  BY <1>1, <1>2, <1>4, <1>5

\* The layout of a wire form, as jsonb leaves it.
LEMMA NormalRec ==
  ASSUME NEW q, NEW h, NEW res, NEW tm, NEW c, NEW p, NEW w, w = Rec(q, h, res, tm, c, p)
  PROVE  [w EXCEPT !.req.payload.layout = "normal"]
           = Rec([q EXCEPT !.payload.layout = "normal"], h, res, tm, c, p)
<1>1. w.req = q
  BY RecFields
<1>2. PICK n : n = [q EXCEPT !.payload.layout = "normal"]
  OBVIOUS
<1>3. [w EXCEPT !.req.payload.layout = "normal"] = [w EXCEPT !.req = n]
  BY <1>1, <1>2
<1>4. [w EXCEPT !.req = n] = Rec(n, h, res, tm, c, p)
  BY DEF Rec
<1> QED
  BY <1>2, <1>3, <1>4

\* A row, when there is one, is the receipt's wire form in the layout of jsonb.
LEMMA JsonbRec ==
  ASSUME NEW q, NEW h, NEW res, NEW tm, NEW c, NEW p
  PROVE  Jsonb(Rec(q, h, res, tm, c, p)) =
           IF q.payload.nul \/ q.nul \/ res.nul THEN {}
           ELSE {Rec([q EXCEPT !.payload.layout = "normal"], h, res, tm, c, p)}
<1>1. PICK r : r = Rec(q, h, res, tm, c, p)
  OBVIOUS
<1>2. r.req = q /\ r.result = res
  BY <1>1, RecFields
<1>3. [r EXCEPT !.req.payload.layout = "normal"]
        = Rec([q EXCEPT !.payload.layout = "normal"], h, res, tm, c, p)
  BY <1>1, NormalRec
<1>4. HasNul(r) <=> q.payload.nul \/ q.nul \/ res.nul
  BY <1>2 DEF HasNul
<1> QED
  BY <1>1, <1>3, <1>4 DEF Jsonb

\* Without a NUL there is a row.
LEMMA JsonbKeeps ==
  ASSUME NEW q, NEW h, NEW res, NEW tm, NEW c, NEW p, ~(q.payload.nul \/ q.nul \/ res.nul)
  PROVE  Jsonb(Rec(q, h, res, tm, c, p)) # {}
<1>1. PICK r : r = Rec(q, h, res, tm, c, p)
  OBVIOUS
<1>2. r.req = q /\ r.result = res
  BY <1>1, RecFields
<1>3. ~HasNul(r)
  BY <1>2 DEF HasNul
<1> QED
  BY <1>1, <1>3 DEF Jsonb

LEMMA StripRec ==
  ASSUME NEW q, NEW h, NEW res, NEW tm, NEW c, NEW p
  PROVE  StripStreams(Rec(q, h, res, tm, c, p)) =
           Rec(q, h, [res EXCEPT !.stdout = NoStream], tm, c, p)
<1>1. PICK r : r = Rec(q, h, res, tm, c, p)
  OBVIOUS
<1>2. r.result = res
  BY <1>1, RecFields
<1>0. PICK n : n = [res EXCEPT !.stdout = NoStream]
  OBVIOUS
<1>3. StripStreams(r) = [r EXCEPT !.result = n]
  <2>1. StripStreams(r) = [r EXCEPT !.result = [r.result EXCEPT !.stdout = NoStream]]
    BY DEF StripStreams
  <2> QED
    BY <1>0, <1>2, <2>1
<1>5. [r EXCEPT !.result = n] = Rec(q, h, n, tm, c, p)
  BY <1>1 DEF Rec
<1> QED
  BY <1>0, <1>1, <1>3, <1>5

\* The receipt and the answer made of it, in one piece.
LEMMA ReceiptIsRec ==
  ASSUME IInv, x.receipt # Nothing
  PROVE  /\ x.receipt = Rec(x.req, x.handle, x.receipt.result, x.receipt.timings, x.receipt.created, NoTime)
         /\ x.receipt.timings.submitted = x.req.submitted
         /\ x.receipt.timings.completed \in Nat /\ x.receipt.timings.completed <= now
         /\ x.receipt.created \in Nat
         /\ x.receipt.result = [f \in ResultFields |-> x.receipt.result[f]]
<1>1. x.receipt = Rec(x.req, x.handle, x.receipt.result, x.receipt.timings, x.receipt.created, NoTime)
  BY DEF IInv, Reported, Rec
<1>2. x.receipt.timings.submitted = x.req.submitted
  <2>1. x.receipt.timings = [submitted |-> x.req.submitted, started |-> x.receipt.timings.started,
                             completed |-> x.receipt.timings.completed]
    BY DEF IInv, Reported
  <2> QED
    BY <2>1
<1>3. /\ x.receipt.timings.completed \in Nat /\ x.receipt.timings.completed <= now
      /\ x.receipt.created \in Nat /\ Judged(x.receipt.result)
  BY DEF IInv, Reported
<1>4. x.receipt.result = [f \in ResultFields |-> x.receipt.result[f]]
  BY <1>3 DEF Judged
<1> QED
  BY <1>1, <1>2, <1>3, <1>4

LEMMA PersistedRec ==
  ASSUME NEW q, NEW h, NEW res, NEW tm, NEW c, NEW p, NEW t, NEW r, r = Rec(q, h, res, tm, c, p)
  PROVE  [r EXCEPT !.persisted = t] = Rec(q, h, res, tm, c, t)
BY DEF Rec

\* Nothing is saved only of a NUL or of an instant that JSON does not write.
LEMMA NothingSaved ==
  ASSUME NEW q, NEW h, NEW res, NEW tm, NEW c, NEW p,
         UNION {Jsonb(w) : w \in MarshalReceipt(Rec(q, h, res, tm, c, p))} = {}
  PROVE  q.payload.nul \/ q.nul \/ res.nul \/ tm.submitted \notin FirstInstant .. LastInstant
<1> SUFFICES ASSUME tm.submitted \in FirstInstant .. LastInstant
             PROVE  q.payload.nul \/ q.nul \/ res.nul
  OBVIOUS
<1>1. PICK mq, w : mq = MarshalRequest(q) /\ w = Rec(mq, MarshalHandle(h), res, tm, InMs(c), InMs(p))
  OBVIOUS
<1>2. MarshalReceipt(Rec(q, h, res, tm, c, p)) = {w}
  BY <1>1, MarshalRec
<1>3. Jsonb(w) = {}
  BY <1>2
<1>4. mq.payload.nul \/ mq.nul \/ res.nul
  <2>1. PICK mh, mc, mp : mh = MarshalHandle(h) /\ mc = InMs(c) /\ mp = InMs(p)
    OBVIOUS
  <2>2. w = Rec(mq, mh, res, tm, mc, mp)
    BY <1>1, <2>1
  <2>4. ~(mq.payload.nul \/ mq.nul \/ res.nul) => Jsonb(Rec(mq, mh, res, tm, mc, mp)) # {}
    BY JsonbKeeps
  <2> QED
    BY <1>3, <2>2, <2>4
<1>5. mq.payload = q.payload /\ mq.nul = q.nul
  BY <1>1 DEF MarshalRequest
<1> QED
  BY <1>4, <1>5

\* The receipt is stored, or there is a reason why not.
LEMMA PersistStep ==
  ASSUME IInv, Persist
  PROVE  IInv'
<1>1. /\ pc = "persist" /\ pc' = "done"
      /\ UNCHANGED <<env, profile, now, call, x, got, acted>>
  BY DEF Persist, setting
<1>2. /\ x.req # Nothing /\ x.receipt # Nothing /\ now \in Nat /\ row = Nothing /\ got = Nothing
  BY <1>1 DEF IInv, Asked, Early, Typed, Reported
<1>3. Typed'
  BY <1>1 DEF IInv, Typed, Places
<1>4. Staged' /\ Exchanged' /\ Returned'
  <2>1. Staged'
    BY <1>1 DEF IInv, Staged, Fresh
  <2>2. Exchanged' /\ Returned'
    BY <1>1 DEF IInv, Exchanged, Returned, Path
  <2> QED
    BY <2>1, <2>2
<1>21. \A t : Expired(t)' <=> Expired(t)
  BY <1>1 DEF Expired
<1>5. Handled'
  BY <1>1, <1>21 DEF IInv, Handled
<1>6. Injected'
  BY <1>1 DEF IInv, Injected, Dispatched, Genuine, Path, Working
<1>7. Reported'
  <2>1. \A r : Judged(r)' <=> Judged(r)
    BY <1>1 DEF Judged, Earned, Genuine, Path, MakesParents
  <2> QED
    BY <1>1, <1>21, <2>1 DEF IInv, Reported
<1>8. ReadsBack'
  BY <1>1, <1>2 DEF ReadsBack
<1>9. ASSUME answer' # Refused
      PROVE  Asked'
  BY <1>1, <1>2, <1>9 DEF IInv, Asked, Early
<1>10. PICK r : r = x.receipt
  OBVIOUS
<1>11. /\ r = Rec(x.req, x.handle, r.result, r.timings, r.created, NoTime)
       /\ r.timings.submitted = x.req.submitted /\ r.timings.completed \in Nat
       /\ r.timings.completed <= now
  BY <1>2, <1>10, ReceiptIsRec
<1>12. PICK a : a = WithPersistedAt(r, now)
  OBVIOUS
<1>13. a = Rec(x.req, x.handle, r.result, r.timings, r.created, now)
  BY <1>11, <1>12, PersistedRec DEF WithPersistedAt
<1>14. CASE /\ row' \in Saved
            /\ answer' = a \/ (answer' = Error /\ store' = "unacknowledged")
  <2>1. a # Refused
    BY <1>13, RecFields
  <2>2. PICK t \in Nat : t = now
    BY <1>2
  <2>3. row' \in UNION {Jsonb(w) : w \in MarshalReceipt(WithPersistedAt(x.receipt, t))}
    BY <1>14, <2>2 DEF Saved
  <2>4. Delivered'
    <3>1. x'.receipt = x.receipt
      BY <1>1
    <3>2. /\ x'.receipt.timings.completed <= t
          /\ \/ answer' = WithPersistedAt(x'.receipt, t)
             \/ answer' = Error /\ store' = "unacknowledged"
          /\ row' \in UNION {Jsonb(w) : w \in MarshalReceipt(WithPersistedAt(x'.receipt, t))}
      BY <1>10, <1>11, <1>12, <1>14, <2>2, <2>3, <3>1
    <3> QED
      BY <2>2, <3>2 DEF Delivered
  <2>5. Asked'
    BY <1>9, <1>14, <2>1, Distinct
  <2> QED
    BY <1>3, <1>4, <1>5, <1>6, <1>7, <1>8, <2>4, <2>5 DEF IInv
<1>15. CASE answer' = Error /\ row' = row /\ Excused'
  <2>1. Delivered'
    BY <1>1, <1>2, <1>15 DEF Delivered
  <2>2. Asked'
    BY <1>9, <1>15, Distinct
  <2> QED
    BY <1>3, <1>4, <1>5, <1>6, <1>7, <1>8, <2>1, <2>2 DEF IInv
<1>16. SaveCtxOver => x.structural /\ x.ctx # "none"
  BY DEF SaveCtxOver
<1>17. Saved = {} => HasNul(x.receipt) \/ x.req.submitted \notin FirstInstant .. LastInstant
  <2> SUFFICES ASSUME Saved = {}
               PROVE  HasNul(x.receipt) \/ x.req.submitted \notin FirstInstant .. LastInstant
    OBVIOUS
  <2>1. UNION {Jsonb(w) : w \in MarshalReceipt(a)} = {}
    BY <1>10, <1>12 DEF Saved
  <2>2. x.req.payload.nul \/ x.req.nul \/ r.result.nul \/ x.req.submitted \notin FirstInstant .. LastInstant
    BY <1>11, <1>13, <2>1, NothingSaved
  <2>3. r.req = x.req
    BY <1>11, RecFields
  <2> QED
    BY <1>10, <2>2, <2>3 DEF HasNul
<1>18. CASE /\ PersistFault(profile) \/ SaveCtxOver \/ Saved = {}
            /\ answer' = Error /\ UNCHANGED <<row, store>>
  <2>1. Excused'
    BY <1>1, <1>16, <1>17, <1>18 DEF Excused
  <2> QED
    BY <1>15, <1>18, <2>1
<1>19. CASE answer' = Error /\ store' = "refused" /\ row' = row
  <2>1. Excused'
    BY <1>19 DEF Excused
  <2> QED
    BY <1>15, <1>19, <2>1
<1>20. CASE /\ \E w \in Saved : row' = w
            /\ \/ answer' = WithPersistedAt(x.receipt, now)
               \/ answer' = Error /\ store' = "unacknowledged"
  BY <1>10, <1>12, <1>14, <1>20
<1> QED
  BY <1>18, <1>19, <1>20 DEF Persist

-----------------------------------------------------------------------------
(* The receipt read back *)

Normal(p) == [p EXCEPT !.layout = "normal"]

\* The request of a row, and what it is read as.
WireRequest(q) ==
  [cap |-> q.cap, payload |-> Normal(q.payload), ms |-> Milliseconds(q.budget), key |-> q.key,
   submitted |-> InMs(q.submitted), nul |-> q.nul, flaw |-> "none"]

LEMMA NormalRequest ==
  ASSUME NEW q
  PROVE  [MarshalRequest(q) EXCEPT !.payload.layout = "normal"] = WireRequest(q)
<1>1. PICK m, p : m = MarshalRequest(q) /\ p = Normal(q.payload)
  OBVIOUS
<1>2. m.payload = q.payload
  BY <1>1 DEF MarshalRequest
<1>3. [m EXCEPT !.payload.layout = "normal"] = [m EXCEPT !.payload = p]
  BY <1>1, <1>2 DEF Normal
<1>4. [m EXCEPT !.payload = p] = WireRequest(q)
  BY <1>1 DEF MarshalRequest, WireRequest
<1> QED
  BY <1>1, <1>3, <1>4

\* A request survives the wire, unless its instant is the zero time's.
LEMMA RequestRoundTrip ==
  ASSUME NEW in, NEW q, Accepted(in, q), NEW t
  PROVE  \E r : /\ UnmarshalRequest(WireRequest(q), t) = {r}
                /\ InMs(q.submitted) # NoTime => MarshalRequest(r) = WireRequest(q)
<1> DEFINE w == WireRequest(q)
           m == Milliseconds(q.budget)
           e == Signed(m * Ms)
           s == IF w.submitted = NoTime THEN t ELSE w.submitted
           r == [cap |-> q.cap, payload |-> Normal(q.payload), budget |-> e, key |-> q.key,
                 submitted |-> s, nul |-> q.nul]
<1>1. /\ q.budget \in Int64 /\ m > 0 /\ q.key \notin {"empty", "malformed"} /\ q.submitted \in Int
  BY DEF Accepted
<1>2. m \in Nat /\ e \in Int64 /\ Milliseconds(e) = m /\ NewTimeoutBudget(m, 0) = {e}
  BY <1>1, BudgetRoundTrip
<1>3. /\ w.cap = q.cap /\ w.payload = Normal(q.payload) /\ w.ms = m /\ w.key = q.key
      /\ w.submitted = InMs(q.submitted) /\ w.flaw = "none" /\ w.nul = q.nul
  BY DEF WireRequest
<1> HIDE DEF w, m, e
<1>4. (IF w.key = NoKey THEN {NoKey} ELSE NewIdempotencyKey(w.key)) = {q.key}
  BY <1>1, <1>3 DEF NewIdempotencyKey
<1>5. NewExecutionRequest(w, e, q.key, s) = {r}
  BY <1>1, <1>2, <1>3 DEF NewExecutionRequest
<1>6. UnmarshalRequest(w, t) = UNION {NewExecutionRequest(w, d, k, s) : d \in {e}, k \in {q.key}}
  BY <1>2, <1>3, <1>4 DEF UnmarshalRequest
<1>7. UnmarshalRequest(w, t) = {r}
  BY <1>5, <1>6
<1>8. ASSUME InMs(q.submitted) # NoTime
      PROVE  MarshalRequest(r) = w
  <2>1. s = InMs(q.submitted) /\ InMs(s) = InMs(q.submitted)
    BY <1>1, <1>3, <1>8, InMsStable
  <2> HIDE DEF s
  <2>2. MarshalRequest(r) = [cap |-> q.cap, payload |-> Normal(q.payload), ms |-> m, key |-> q.key,
                             submitted |-> InMs(q.submitted), nul |-> q.nul, flaw |-> "none"]
    BY <1>2, <2>1 DEF MarshalRequest
  <2> QED
    BY <2>2 DEF WireRequest, w, m
<1> QED
  BY <1>7, <1>8 DEF w

LEMMA CanonicalName ==
  ASSUME NEW c \in Capabilities, NEW d \in Capabilities, Canonical(c) = Canonical(d), d.name # <<>>
  PROVE  c.name # <<>>
<1>1. c.name \in Seq(STRING) /\ d.name \in Seq(STRING) /\ c.adapter \in STRING /\ d.adapter \in STRING
  BY DEF Capabilities
<1>2. <<c.adapter>> \o c.name = <<d.adapter>> \o d.name
  BY DEF Canonical
<1>3. Len(<<c.adapter>> \o c.name) = 1 + Len(c.name) /\ Len(<<d.adapter>> \o d.name) = 1 + Len(d.name)
  BY <1>1
<1>4. Len(d.name) # 0
  BY <1>1
<1>5. Len(c.name) # 0
  BY <1>1, <1>2, <1>3, <1>4
<1> QED
  BY <1>1, <1>5

\* A handle does, dots in the capability's name included.
LEMMA HandleRoundTrip ==
  ASSUME NEW h, h.cap \in Capabilities, h.cap.name # <<>>, h.started \in Int
  PROVE  \E g : UnmarshalHandle(MarshalHandle(h)) = {g} /\ MarshalHandle(g) = MarshalHandle(h)
<1> DEFINE w == MarshalHandle(h)
           c == [adapter |-> h.cap.adapter, name |-> h.cap.name, version |-> h.cap.version,
                 default |-> Second]
           g == [cap |-> c, started |-> InMs(h.started)]
<1>1. h.cap.name \in Seq(STRING) /\ h.cap.adapter \in STRING
  BY DEF Capabilities
<1>2. /\ w.adapter = h.cap.adapter /\ w.capability = Canonical(h.cap)
      /\ w.started = InMs(h.started)
  BY DEF MarshalHandle
<1>3. w.capability.path = <<h.cap.adapter>> \o h.cap.name /\ w.capability.version = h.cap.version
  BY <1>2 DEF Canonical
<1>4. Tail(<<h.cap.adapter>> \o h.cap.name) = h.cap.name /\ Len(h.cap.name) > 0
  BY <1>1
<1>5. Second > 0
  BY WidthAssumption DEF Second
<1> HIDE DEF w
<1>6. NewCapability(w.adapter, Tail(w.capability.path), w.capability.version, Second) = {c}
  BY <1>2, <1>3, <1>4, <1>5 DEF NewCapability
<1>7. UnmarshalHandle(w) = {g}
  BY <1>2, <1>6 DEF UnmarshalHandle
<1>8. MarshalHandle(g) = MarshalHandle(h)
  <2>1. Canonical(c) = Canonical(h.cap) /\ c.adapter = h.cap.adapter
    BY DEF Canonical
  <2>2. InMs(InMs(h.started)) = InMs(h.started)
    BY InMsStable
  <2> HIDE DEF c
  <2> QED
    BY <2>1, <2>2 DEF MarshalHandle
<1> QED
  BY <1>7, <1>8 DEF w

\* A receipt is read back field by field.
LEMMA UnmarshalRec ==
  ASSUME NEW q, NEW h, NEW res, NEW tm, NEW c, NEW p, NEW t, NEW r, NEW g, NEW w,
         w = Rec(q, h, res, tm, c, p), UnmarshalRequest(q, t) = {r}, UnmarshalHandle(h) = {g}
  PROVE  UnmarshalReceipt(w, t) = {Rec(r, g, res, tm, c, p)}
<1>1. w.req = q /\ w.handle = h
  BY RecFields
<1>2. UnmarshalReceipt(w, t) = {[w EXCEPT !.req = r, !.handle = g]}
  <2> DEFINE F(a, b) == [w EXCEPT !.req = a, !.handle = b]
  <2>1. UnmarshalReceipt(w, t) =
          {F(a, b) : a \in UnmarshalRequest(w.req, t), b \in UnmarshalHandle(w.handle)}
    BY DEF UnmarshalReceipt
  <2> HIDE DEF F
  <2>2. UnmarshalRequest(w.req, t) = {r} /\ UnmarshalHandle(w.handle) = {g}
    BY <1>1
  <2>3. UnmarshalReceipt(w, t) = {F(r, g)}
    BY <2>1, <2>2
  <2> QED
    BY <2>3 DEF F
<1>3. PICK a : a = [w EXCEPT !.req = r]
  OBVIOUS
<1>4. a = Rec(r, h, res, tm, c, p)
  BY <1>3 DEF Rec
<1>5. [a EXCEPT !.handle = g] = Rec(r, g, res, tm, c, p)
  BY <1>4 DEF Rec
<1>6. [w EXCEPT !.req = r, !.handle = g] = [a EXCEPT !.handle = g]
  BY <1>3
<1> QED
  BY <1>2, <1>5, <1>6

\* The wire forms of the receipt and of what is read back agree.
LEMMA WireForms ==
  ASSUME NEW q, NEW h, NEW res, NEW tm, NEW c, NEW p, tm.submitted \in FirstInstant .. LastInstant
  PROVE  {[w EXCEPT !.req.payload.layout = "normal"] : w \in MarshalReceipt(Rec(q, h, res, tm, c, p))}
           = {Rec(WireRequest(q), MarshalHandle(h), res, tm, InMs(c), InMs(p))}
<1>1. PICK mq, mh, mc, mp :
        mq = MarshalRequest(q) /\ mh = MarshalHandle(h) /\ mc = InMs(c) /\ mp = InMs(p)
  OBVIOUS
<1>2. PICK z : z = Rec(mq, mh, res, tm, mc, mp)
  OBVIOUS
<1>3. MarshalReceipt(Rec(q, h, res, tm, c, p)) = {z}
  BY <1>1, <1>2, MarshalRec
<1>4. [z EXCEPT !.req.payload.layout = "normal"]
        = Rec([mq EXCEPT !.payload.layout = "normal"], mh, res, tm, mc, mp)
  BY <1>2, NormalRec
<1>5. [mq EXCEPT !.payload.layout = "normal"] = WireRequest(q)
  BY <1>1, NormalRequest
<1>6. {[w EXCEPT !.req.payload.layout = "normal"] : w \in {z}}
        = {[z EXCEPT !.req.payload.layout = "normal"]}
  OBVIOUS
<1>7. [z EXCEPT !.req.payload.layout = "normal"] = Rec(WireRequest(q), mh, res, tm, mc, mp)
  BY <1>4, <1>5
<1>8. {[w EXCEPT !.req.payload.layout = "normal"] : w \in MarshalReceipt(Rec(q, h, res, tm, c, p))}
        = {[z EXCEPT !.req.payload.layout = "normal"]}
  BY <1>3, <1>6
<1> QED
  BY <1>1, <1>7, <1>8

LEMMA ReadForms ==
  ASSUME NEW q, NEW h, NEW res, NEW tm, NEW c \in Int, NEW p \in Int, NEW r, NEW g,
         tm.submitted \in FirstInstant .. LastInstant,
         MarshalRequest(r) = WireRequest(q), MarshalHandle(g) = MarshalHandle(h)
  PROVE  MarshalReceipt(Rec(r, g, res, tm, InMs(c), InMs(p)))
           = {Rec(WireRequest(q), MarshalHandle(h), res, tm, InMs(c), InMs(p))}
<1>1. PICK mc, mp : mc = InMs(c) /\ mp = InMs(p)
  OBVIOUS
<1>2. InMs(mc) = mc /\ InMs(mp) = mp
  BY <1>1, InMsStable
<1>3. MarshalReceipt(Rec(r, g, res, tm, mc, mp))
        = {Rec(MarshalRequest(r), MarshalHandle(g), res, tm, InMs(mc), InMs(mp))}
  BY MarshalRec
<1> QED
  BY <1>1, <1>2, <1>3

LEMMA StrippedResult ==
  ASSUME NEW res, res = [f \in ResultFields |-> res[f]]
  PROVE  /\ [res EXCEPT !.stdout = NoStream].stdout = NoStream
         /\ res.stdout = NoStream => [res EXCEPT !.stdout = NoStream] = res
BY DEF ResultFields

\* When there is a row: the row, and the answer unless its acknowledgement was
\* lost, in one piece.
Answered(res, tm, c, p) ==
  /\ x.req # Nothing /\ pc = "done" /\ x.receipt # Nothing
  /\ res = [f \in ResultFields |-> res[f]] /\ c \in Int /\ p \in Int
  /\ tm = x.receipt.timings /\ tm.submitted = x.req.submitted
  /\ res = x.receipt.result /\ c = x.receipt.created /\ tm.completed <= p
  /\ tm.submitted \in FirstInstant .. LastInstant
  /\ \/ answer = Rec(x.req, x.handle, res, tm, c, p)
     \/ answer = Error /\ store = "unacknowledged"
  /\ row = Rec(WireRequest(x.req), MarshalHandle(x.handle), res, tm, InMs(c), InMs(p))

LEMMA ToldRow ==
  ASSUME IInv, Told \/ row # Nothing
  PROVE  \E res, tm, c, p : Answered(res, tm, c, p)
<1>1. pc = "done" /\ x.req # Nothing
  BY DEF IInv, Asked, Told, Early
<1>2. x.receipt # Nothing
  BY <1>1 DEF IInv, Reported
<1>0. PICK p \in Nat :
        /\ x.receipt.timings.completed <= p
        /\ \/ answer = WithPersistedAt(x.receipt, p)
           \/ answer = Error /\ store = "unacknowledged"
        /\ row \in UNION {Jsonb(w) : w \in MarshalReceipt(WithPersistedAt(x.receipt, p))}
  BY <1>1 DEF IInv, Delivered, Told
<1>3. PICK a :
        /\ a = [x.receipt EXCEPT !.persisted = p]
        /\ p \in Nat /\ x.receipt.timings.completed <= p
        /\ answer = a \/ (answer = Error /\ store = "unacknowledged")
        /\ row \in UNION {Jsonb(w) : w \in MarshalReceipt(a)}
  BY <1>0 DEF WithPersistedAt
<1>4. PICK r, res, tm, c :
        r = x.receipt /\ res = r.result /\ tm = r.timings /\ c = r.created
  OBVIOUS
<1>5. /\ r = Rec(x.req, x.handle, res, tm, c, NoTime)
      /\ tm.submitted = x.req.submitted /\ c \in Nat
      /\ res = [f \in ResultFields |-> res[f]]
  BY <1>2, <1>4, ReceiptIsRec
<1>6. a = Rec(x.req, x.handle, res, tm, c, p)
  <2>1. a = [r EXCEPT !.persisted = p]
    BY <1>3, <1>4, Zenon
  <2>2. [Rec(x.req, x.handle, res, tm, c, NoTime) EXCEPT !.persisted = p]
          = Rec(x.req, x.handle, res, tm, c, p)
    BY PersistedRec
  <2>3. r = Rec(x.req, x.handle, res, tm, c, NoTime)
    BY <1>5, Zenon
  <2> QED
    BY <2>1, <2>2, <2>3, Zenon
<1>7. PICK mq, mh, mc, mp, w :
        /\ mq = MarshalRequest(x.req) /\ mh = MarshalHandle(x.handle)
        /\ mc = InMs(c) /\ mp = InMs(p)
        /\ w = Rec(mq, mh, res, tm, mc, mp)
  OBVIOUS
<1>8. MarshalReceipt(a) = IF tm.submitted \notin FirstInstant .. LastInstant THEN {} ELSE {w}
  BY <1>6, <1>7, MarshalRec
<1>9. tm.submitted \in FirstInstant .. LastInstant /\ row \in Jsonb(w)
  BY <1>3, <1>8
<1>10. Jsonb(w) = IF mq.payload.nul \/ mq.nul \/ res.nul THEN {}
                  ELSE {Rec([mq EXCEPT !.payload.layout = "normal"], mh, res, tm, mc, mp)}
  <2>1. Jsonb(Rec(mq, mh, res, tm, mc, mp)) =
          IF mq.payload.nul \/ mq.nul \/ res.nul THEN {}
          ELSE {Rec([mq EXCEPT !.payload.layout = "normal"], mh, res, tm, mc, mp)}
    BY JsonbRec
  <2> QED
    BY <1>7, <2>1
<1>11. row = Rec([mq EXCEPT !.payload.layout = "normal"], mh, res, tm, mc, mp)
  BY <1>9, <1>10
<1>12. [mq EXCEPT !.payload.layout = "normal"] = WireRequest(x.req)
  BY <1>7, NormalRequest
<1>13. row = Rec(WireRequest(x.req), MarshalHandle(x.handle), res, tm, InMs(c), InMs(p))
  BY <1>7, <1>11, <1>12
<1>14. c \in Int /\ p \in Int /\ tm.completed <= p
  <2>1. c \in Nat
    BY <1>5, Zenon
  <2>2. p \in Nat
    BY <1>3, Zenon
  <2>3. tm.completed <= p
    BY <1>3, <1>4, Zenon
  <2> QED
    BY <2>1, <2>2, <2>3
<1> QED
  BY <1>1, <1>2, <1>3, <1>4, <1>5, <1>6, <1>9, <1>13, <1>14, Zenon DEF Answered

\* What is read back is what was, or was to be, answered.
LEMMA GetReceiptStep ==
  ASSUME IInv, NEW streams \in BOOLEAN, GetReceipt(streams)
  PROVE  IInv'
<1>1. /\ pc = "done" /\ row # Nothing
      /\ UNCHANGED <<env, profile, now, pc, call, x, row, answer, store, acted>>
  BY DEF GetReceipt, setting
<1>2. PICK q, h : q = x.req /\ h = x.handle
  OBVIOUS
<1>0. PICK res, tm, c, p : Answered(res, tm, c, p)
  BY <1>1, ToldRow
<1>3. /\ x.req # Nothing /\ res = [f \in ResultFields |-> res[f]] /\ c \in Int /\ p \in Int
      /\ tm.submitted \in FirstInstant .. LastInstant
      /\ answer = Rec(q, h, res, tm, c, p) \/ answer = Error
      /\ row = Rec(WireRequest(q), MarshalHandle(h), res, tm, InMs(c), InMs(p))
  BY <1>0, <1>2 DEF Answered
<1>4. Accepted(call, q) /\ h.cap \in Capabilities /\ h.started \in Int /\ h.cap.name # <<>>
  <2>1. /\ Accepted(call, q) /\ call \in Calls /\ h.cap \in Capabilities /\ h.started \in Nat
        /\ Canonical(h.cap) = Canonical(q.cap)
    BY <1>1, <1>2, <1>3 DEF IInv, Asked, Handled
  <2>2. q.cap = call.cap /\ call.cap \in Capabilities /\ call.cap.name # <<>>
    BY <2>1, CallAssumption DEF Accepted
  <2> QED
    BY <2>1, <2>2, CanonicalName
<1>5. PICK r : /\ UnmarshalRequest(WireRequest(q), now) = {r}
               /\ InMs(q.submitted) # NoTime => MarshalRequest(r) = WireRequest(q)
  BY <1>4, RequestRoundTrip
<1>6. PICK g : UnmarshalHandle(MarshalHandle(h)) = {g} /\ MarshalHandle(g) = MarshalHandle(h)
  BY <1>4, HandleRoundTrip
<1>7. PICK back, mc, mp :
        mc = InMs(c) /\ mp = InMs(p) /\ back = Rec(r, g, res, tm, mc, mp)
  OBVIOUS
<1>8. UnmarshalReceipt(row, now) = {back}
  BY <1>3, <1>5, <1>6, <1>7, UnmarshalRec
<1>9. got' = IF streams THEN back ELSE StripStreams(back)
  BY <1>8 DEF GetReceipt
<1>10. PICK bare : bare = [res EXCEPT !.stdout = NoStream]
  OBVIOUS
<1>11. bare.stdout = NoStream /\ (res.stdout = NoStream => bare = res)
  BY <1>3, <1>10, StrippedResult
<1>23. StripStreams(back) = Rec(r, g, bare, tm, mc, mp)
  BY <1>7, <1>10, StripRec
<1>24. got'.persisted = mp
  BY <1>7, <1>9, <1>23, RecFields
<1>25. PICK sent : sent = IF Told' THEN answer' ELSE WithPersistedAt(x'.receipt, got'.persisted)
  OBVIOUS
<1>26. PICK t \in Int : sent = Rec(q, h, res, tm, c, t) /\ InMs(t) = mp
  <2>1. CASE answer = Rec(q, h, res, tm, c, p)
    <3>1. Told'
      BY <1>1, <2>1, RecFields DEF Told
    <3> QED
      BY <1>1, <1>3, <1>7, <1>25, <2>1, <3>1
  <2>2. CASE answer = Error
    <3>1. sent = WithPersistedAt(x.receipt, mp)
      BY <1>1, <1>24, <1>25, <2>2 DEF Told
    <3>2. PICK u : u = x.receipt /\ u = Rec(q, h, res, tm, u.created, NoTime) /\ u.created = c
      BY <1>0, <1>2, ReceiptIsRec DEF Answered
    <3>3. sent = Rec(q, h, res, tm, c, mp)
      BY <3>1, <3>2, PersistedRec DEF WithPersistedAt
    <3>4. mp \in Int /\ InMs(mp) = mp
      BY <1>3, <1>7, InMsStable
    <3> QED
      BY <3>3, <3>4
  <2> QED
    BY <1>3, <2>1, <2>2
<1>12. StripStreams(back) = Rec(r, g, bare, tm, mc, mp) /\ StripStreams(sent) = Rec(q, h, bare, tm, c, t)
  BY <1>23, <1>10, <1>26, StripRec
<1>13. PICK it :
         /\ got' = Rec(r, g, it, tm, mc, mp)
         /\ (IF got'.result.stdout = NoStream THEN StripStreams(sent) ELSE sent)
              = Rec(q, h, it, tm, c, t)
  <2>1. CASE streams
    <3>1. got' = Rec(r, g, res, tm, mc, mp) /\ got'.result = res
      BY <1>7, <1>9, <2>1, RecFields
    <3>2. (IF res.stdout = NoStream THEN StripStreams(sent) ELSE sent) = Rec(q, h, res, tm, c, t)
      BY <1>11, <1>12, <1>26
    <3> QED
      BY <3>1, <3>2
  <2>2. CASE ~streams
    <3>1. got' = Rec(r, g, bare, tm, mc, mp) /\ got'.result = bare
      BY <1>9, <1>12, <2>2, RecFields
    <3> QED
      BY <1>11, <1>12, <3>1
  <2> QED
    BY <2>1, <2>2
<1>14. got' \notin {Nothing, Unreadable}
  BY <1>13, RecFields
<1>16. ReadsBack'
  <2>1. ASSUME InMs(q.submitted) # NoTime
        PROVE  MarshalReceipt(got') =
                 {[w EXCEPT !.req.payload.layout = "normal"] :
                    w \in MarshalReceipt(Rec(q, h, it, tm, c, t))}
    <3>1. MarshalReceipt(got') = {Rec(WireRequest(q), MarshalHandle(h), it, tm, mc, mp)}
      BY <1>3, <1>5, <1>6, <1>7, <1>13, <2>1, ReadForms
    <3>2. {[w EXCEPT !.req.payload.layout = "normal"] :
             w \in MarshalReceipt(Rec(q, h, it, tm, c, t))}
            = {Rec(WireRequest(q), MarshalHandle(h), it, tm, mc, mp)}
      <4>1. {[w EXCEPT !.req.payload.layout = "normal"] :
               w \in MarshalReceipt(Rec(q, h, it, tm, c, t))}
              = {Rec(WireRequest(q), MarshalHandle(h), it, tm, InMs(c), InMs(t))}
        BY <1>3, WireForms
      <4> QED
        BY <1>7, <1>26, <4>1, Zenon
    <3> QED
      BY <3>1, <3>2
  <2> QED
    BY <1>1, <1>2, <1>13, <1>14, <1>25, <2>1 DEF ReadsBack
<1>17. Typed' /\ Asked'
  BY <1>1, <1>3 DEF IInv, Typed, Asked
<1>27. \A at : Expired(at)' <=> Expired(at)
  BY <1>1 DEF Expired
<1>18. Staged' /\ Handled'
  BY <1>1, <1>27 DEF IInv, Staged, Handled, Fresh
<1>19. Injected'
  BY <1>1 DEF IInv, Injected, Dispatched, Genuine, Path
<1>20. Exchanged' /\ Returned'
  BY <1>1 DEF IInv, Exchanged, Returned, Path
<1>21. Reported'
  <2>1. \A z : Judged(z)' <=> Judged(z)
    BY <1>1 DEF Judged, Earned, Genuine, Path, MakesParents
  <2> QED
    BY <1>1, <1>27, <2>1 DEF IInv, Reported
<1>22. Delivered'
  BY <1>1 DEF IInv, Delivered
<1> QED
  BY <1>16, <1>17, <1>18, <1>19, <1>20, <1>21, <1>22 DEF IInv

-----------------------------------------------------------------------------
(* The theorems *)

LEMMA StutterStep ==
  ASSUME IInv, UNCHANGED vars
  PROVE  IInv'
<1>1. UNCHANGED <<env, profile, now, pc, call, x, row, answer, got, acted, store>>
  BY DEF vars
<1>7. \A t : Expired(t)' <=> Expired(t)
  BY <1>1 DEF Expired
<1>2. Typed' /\ Asked' /\ Staged' /\ Handled'
  BY <1>1, <1>7 DEF IInv, Typed, Asked, Staged, Handled, Fresh
<1>3. Injected' /\ Exchanged'
  BY <1>1 DEF IInv, Injected, Exchanged, Dispatched, Genuine, Path
<1>4. Returned'
  <2>2. (Earned' <=> Earned) /\ (MakesParents' <=> MakesParents)
    BY <1>1 DEF Earned, Genuine, Path, MakesParents
  <2>3. \A r : (ShellSound(r)' <=> ShellSound(r)) /\ (OtherSound(r)' <=> OtherSound(r))
    BY <1>1, <2>2 DEF ShellSound, OtherSound
  <2>4. \A r : HttpSound(r)' <=> HttpSound(r)
    BY <1>1, <2>2 DEF HttpSound
  <2>1. \A r : Sound(r)' <=> Sound(r)
    BY <2>3, <2>4 DEF Sound
  <2> QED
    BY <1>1, <2>1 DEF IInv, Returned, Path
<1>5. Reported'
  <2>1. \A r : Judged(r)' <=> Judged(r)
    BY <1>1 DEF Judged, Earned, Genuine, Path, MakesParents
  <2> QED
    BY <1>1, <1>7, <2>1 DEF IInv, Reported
<1>6. Delivered' /\ ReadsBack'
  BY <1>1 DEF IInv, Delivered, Excused, ReadsBack, Told
<1> QED
  BY <1>2, <1>3, <1>4, <1>5, <1>6 DEF IInv

\* The invariant is inductive.
LEMMA NextIInv == IInv /\ [Next]_vars => IInv'
<1> SUFFICES ASSUME IInv, [Next]_vars PROVE IInv'
  OBVIOUS
<1>1. CASE Boot
  BY <1>1, BootStep
<1>2. CASE \E in \in Calls : Submit(in)
  BY <1>2, SubmitStep
<1>3. CASE Resolve
  BY <1>3, ResolveStep
<1>4. CASE Dispatch
  BY <1>4, DispatchStep
<1>5. CASE LatencyOver \/ Interrupted
  BY <1>5, LatencyOverStep, InterruptedStep
<1>6. CASE ShellStart \/ ShellEnd
  BY <1>6, ShellStartStep, ShellEndStep
<1>7. CASE HttpStart \/ HttpSend \/ HttpReceive
  BY <1>7, HttpStartStep, HttpSendStep, HttpReceiveStep
<1>8. CASE OtherRun
  BY <1>8, OtherRunStep
<1>9. CASE Classify
  BY <1>9, ClassifyStep
<1>10. CASE Persist
  BY <1>10, PersistStep
<1>11. CASE \E s \in BOOLEAN : GetReceipt(s)
  BY <1>11, GetReceiptStep
<1>12. CASE TimePasses
  BY <1>12, TimeStep
<1>13. CASE Deadline \/ Cancel
  BY <1>13, CtxStep
<1>14. CASE UNCHANGED vars
  BY <1>14, StutterStep
<1> QED
  BY <1>1, <1>2, <1>3, <1>4, <1>5, <1>6, <1>7, <1>8, <1>9, <1>10, <1>11, <1>12, <1>13, <1>14
  DEF Next

LEMMA AlwaysIInv == Spec => []IInv
BY InitIInv, NextIInv, PTL DEF Spec

\* GetReceipt gives back what the caller was answered: UnmarshalJSON of
\* MarshalJSON, through the jsonb column, loses the layout of the payload and
\* the fractions of a millisecond, for every catalog, budget and width of the
\* integers; a submitted_at in the zero time's millisecond is the exception.
THEOREM ReceiptsReadBack == Spec => []ReadsBack
<1>1. IInv => ReadsBack
  BY DEF IInv
<1> QED
  BY <1>1, AlwaysIInv, PTL

\* Whatever is asked, a run gets no more than that, than its capability's default
\* and than the service's maximum, though the product with a millisecond wraps;
\* and no timeout is told before that time or the deadline the caller brought.
THEOREM RunsAreBounded == Spec => []NeverLongerThanAsked
<1>1. ASSUME IInv PROVE NeverLongerThanAsked
  <2>1. ASSUME x.effective > 0
        PROVE  /\ x.effective <= call.ms * Ms /\ x.effective <= MaxTimeout
               /\ x.effective <= x.handle.cap.default
    <3>1. x.effective \in Nat /\ x.effective # 0
      BY <1>1, <2>1 DEF IInv, Typed
    <3>2. x.req # Nothing /\ pc # "resolve" /\ ~x.structural
      BY <1>1, <3>1, IdleFields DEF IInv, Asked, Staged, Fresh, Fields
    <3>3. /\ x.effective <= x.req.budget /\ x.effective <= MaxTimeout
          /\ x.effective <= x.handle.cap.default
      BY <1>1, <3>2 DEF IInv, Handled
    <3>4. call.ms \in Int /\ Ms \in Int /\ x.req.budget \in Int /\ x.req.budget <= call.ms * Ms
      BY <1>1, <3>2, CallAssumption, WidthAssumption, PowerAssumption
      DEF IInv, Asked, Accepted, Int64
    <3>5. x.effective <= call.ms * Ms
      BY <3>1, <3>3, <3>4
    <3> QED
      BY <3>3, <3>5
  <2>2. ASSUME Told, answer.result.status = "timeout"
        PROVE  \/ answer.timings.completed >= answer.handle.started + x.effective
               \/ call.deadline # 0 /\ answer.timings.completed >= call.deadline
    <3>1. PICK res, tm, c, p : Answered(res, tm, c, p)
      BY <1>1, <2>2, ToldRow
    <3>2. answer.result = res /\ answer.timings = tm /\ answer.handle = x.handle
      BY <2>2, <3>1, RecFields DEF Answered, Told
    <3>3. res.status = "timeout" => Expired(tm.completed)
      BY <1>1, <3>1 DEF Answered, IInv, Reported
    <3> QED
      BY <2>2, <3>2, <3>3 DEF Expired
  <2>3. ASSUME x.req # Nothing, call.front = "sdk", call.ms * Ms > SdkMaxTimeout
        PROVE  call.ms * Ms >= 2^(Width - 1)
    BY <1>1, <2>3 DEF IInv, Asked, Accepted
  <2> QED
    BY <2>1, <2>2, <2>3 DEF NeverLongerThanAsked
<1> QED
  BY <1>1, AlwaysIInv, PTL

\* Every call past validation is answered with a receipt that was saved, but for
\* the reasons ReceiptKept names; a timeout or a cancellation during the run is
\* none of them.  A receipt is stored behind an error only when the database's
\* acknowledgement was lost.
THEOREM ReceiptsAreKept == Spec => []ReceiptKept
<1>1. ASSUME IInv PROVE ReceiptKept
  <2>1. ASSUME Told \/ row # Nothing
        PROVE  /\ row # Nothing
               /\ Told \/ (answer = Error /\ store = "unacknowledged")
    <3>1. PICK res, tm, c, p : Answered(res, tm, c, p)
      BY <1>1, <2>1, ToldRow
    <3>2. row # Nothing
      BY <3>1, RecFields DEF Answered
    <3>3. answer = Rec(x.req, x.handle, res, tm, c, p) => Told
      BY RecFields DEF Told
    <3> QED
      BY <3>1, <3>2, <3>3 DEF Answered
  <2>2. ASSUME answer = Error
        PROVE  Excused
    <3>1. pc = "done" /\ x.req # Nothing
      BY <1>1, <2>2, Distinct DEF IInv, Asked, Early
    <3>2. CASE row # Nothing
      <4>1. ~Told
        BY <2>2 DEF Told
      <4>2. store = "unacknowledged"
        BY <2>1, <3>2, <4>1
      <4> QED
        BY <4>2 DEF Excused
    <3>3. CASE row = Nothing
      <4>1. ASSUME NEW t \in Nat,
                   row \in UNION {Jsonb(w) : w \in MarshalReceipt(WithPersistedAt(x.receipt, t))},
                   answer = WithPersistedAt(x.receipt, t)
            PROVE  FALSE
        <5>1. x.receipt # Nothing
          BY <1>1, <3>1 DEF IInv, Reported
        <5>2. PICK r : r = x.receipt
          OBVIOUS
        <5>3. r = Rec(x.req, x.handle, r.result, r.timings, r.created, NoTime)
          BY <1>1, <5>1, <5>2, ReceiptIsRec
        <5>4. answer = Rec(x.req, x.handle, r.result, r.timings, r.created, t)
          BY <4>1, <5>2, <5>3, PersistedRec DEF WithPersistedAt
        <5> QED
          BY <2>2, <5>4, RecFields
      <4>2. store = "unacknowledged" => Excused
        BY DEF Excused
      <4> QED
        BY <1>1, <3>1, <4>1, <4>2 DEF IInv, Delivered
    <3> QED
      BY <3>2, <3>3
  <2> QED
    BY <2>1, <2>2 DEF ReceiptKept, Excused
<1> QED
  BY <1>1, AlwaysIInv, PTL

\* Fault injection stays within its profile and out of production, and an
\* injected fault never lets the real adapter act behind it.
THEOREM InjectionsAreContained == Spec => []InjectionContained
<1>1. ASSUME IInv PROVE InjectionContained
  <2>1. env.runtime = "production" => profile = NoProfile
    BY <1>1 DEF IInv, Injected
  <2>2. x.fault.kind \notin {"none", "latency"} => ~acted
    BY <1>1 DEF IInv, Injected, Genuine
  <2>3. x.receipt # Nothing => Judged(x.receipt.result)
    BY <1>1 DEF IInv, Reported
  <2>4. x.receipt # Nothing /\ x.receipt.result.class = "adapter_internal_error" =>
          x.fault.kind \in {"inject_panic", "persist_failure"}
    BY <2>3 DEF Judged
  <2>5. ASSUME x.receipt # Nothing, x.receipt.result.status = "success",
               x.fault.kind \notin {"none", "latency"}
        PROVE  \/ x.fault.kind = "process_exit" /\ x.fault.arg = 0
               \/ x.fault.kind = "auth_failure" /\ 401 \in x.req.payload.expected
    <3>1. Earned /\ ~acted /\ ~Genuine
      BY <2>2, <2>3, <2>5 DEF Judged, Genuine
    <3> QED
      BY <3>1 DEF Earned
  <2> QED
    BY <2>1, <2>2, <2>4, <2>5 DEF InjectionContained
<1> QED
  BY <1>1, AlwaysIInv, PTL

\* A refusal was refused before anything was done, but for the directories a
\* write_file was asked to make; a success was done, and a normalization failure
\* can only follow an answer with too many headers.
THEOREM EffectsAreTold == Spec => []EffectTold
<1>1. ASSUME IInv PROVE EffectTold
  <2> SUFFICES ASSUME x.receipt # Nothing
               PROVE  LET result == x.receipt.result
                      IN /\ result.class = "capability_unknown" => ~acted
                         /\ result.class = "validation_failure" => ~acted \/ MakesParents
                         /\ result.status = "success" =>
                              \/ acted \/ x.fault.kind \notin {"none", "latency"}
                              \/ Path = <<"shell", "exec">> /\ -1 \in x.req.payload.exitSuccess
                         /\ result.class = "normalization_failure" =>
                              acted /\ x.resp # Nothing /\ x.resp.headers >= MaxAdapterMeta
    BY DEF EffectTold
  <2> DEFINE result == x.receipt.result
  <2>1. Judged(result)
    BY <1>1 DEF IInv, Reported
  <2> HIDE DEF result
  <2>2. /\ result.class = "capability_unknown" => ~acted
        /\ result.class = "validation_failure" => ~acted \/ MakesParents
        /\ result.class = "normalization_failure" =>
             acted /\ x.resp # Nothing /\ x.resp.headers >= MaxAdapterMeta
    BY <2>1 DEF Judged
  <2>3. result.status = "success" => Earned
    BY <2>1 DEF Judged
  <2>4. Earned => \/ acted \/ x.fault.kind \notin {"none", "latency"}
                  \/ Path = <<"shell", "exec">> /\ -1 \in x.req.payload.exitSuccess
    BY DEF Earned
  <2> QED
    BY <2>2, <2>3, <2>4, Zenon DEF result
<1> QED
  BY <1>1, AlwaysIInv, PTL

\* A receipt that is told has its instants in order, whatever the clock did
\* between the steps, unless the caller's own submitted_at was ahead of it.
THEOREM InstantsAreInOrder == Spec => []TimesInOrder
<1>1. ASSUME IInv PROVE TimesInOrder
  <2> SUFFICES ASSUME Told
               PROVE  /\ answer.timings.started <= answer.timings.completed
                      /\ answer.timings.completed <= answer.persisted
                      /\ answer.timings.submitted <= answer.timings.started
                           \/ (call.front = "http" /\ call.submitted > Start)
    BY DEF TimesInOrder
  <2>1. PICK res, tm, c, p : Answered(res, tm, c, p)
    BY <1>1, ToldRow
  <2>2. answer.timings = tm /\ answer.persisted = p
    BY <2>1, RecFields DEF Answered, Told
  <2>3. tm.started <= tm.completed /\ Punctual(call, tm.submitted, tm.started)
    BY <1>1, <2>1 DEF Answered, IInv, Reported
  <2> QED
    BY <2>1, <2>2, <2>3 DEF Answered, Punctual
<1> QED
  BY <1>1, AlwaysIInv, PTL

\* The HTTP adapter follows no more redirects than its limit and keeps no more of
\* a body than its limit, though the limit plus one may wrap.
THEOREM HttpIsWithinLimits == Spec => []HttpWithinLimits
<1>1. ASSUME IInv PROVE HttpWithinLimits
  <2>1. x.via > 0 => x.via <= RedirectLimit(x.req.payload)
    BY <1>1 DEF IInv, Exchanged
  <2>2. ASSUME x.resp # Nothing, ~x.raw.runErr
        PROVE  /\ x.raw.body <= BodyLimit(x.req.payload)
               /\ \/ x.raw.total = x.resp.size
                  \/ BodyLimit(x.req.payload) + 1 >= 2^(Width - 1)
                  \/ x.raw.truncated /\ x.resp.arrives < x.resp.size
    <3>1. PICK q, s, r, v :
            q = x.req.payload /\ s = x.resp /\ r = x.raw /\ v = x.via
      OBVIOUS
    <3>2. s \in Responses /\ acted /\ Path = <<"http", "request">> /\ r = ReadBody(q, s, v)
      BY <1>1, <2>2, <3>1 DEF IInv, Exchanged
    <3>3. x.req # Nothing /\ pc # "resolve"
      BY <1>1, <3>2 DEF IInv, Asked, Staged
    <3>4. q.maxBody \in Int64
      BY <1>1, <3>1, <3>2, <3>3, HttpPayload
    <3>5. BodyKept(r, q, s)
      BY <3>2, <3>4, ReadBodyWithinLimits
    <3>6. r.runErr = FALSE
      BY <2>2, <3>1, <3>5 DEF BodyKept
    <3>7. /\ r.body <= BodyLimit(q)
          /\ \/ r.total = s.size \/ BodyLimit(q) + 1 >= 2^(Width - 1)
             \/ r.truncated /\ s.arrives < s.size
      BY <3>5, <3>6, Zenon DEF BodyKept
    <3> QED
      BY <3>1, <3>7, Zenon
  <2> QED
    BY <2>1, <2>2, Zenon DEF HttpWithinLimits
<1> QED
  BY <1>1, AlwaysIInv, PTL
=============================================================================
