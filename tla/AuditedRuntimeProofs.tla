------------------------ MODULE AuditedRuntimeProofs ------------------------
(***************************************************************************)
(* Proofs that ExecuteService implements AuditedRuntime and that its       *)
(* counters are exact, for every value of the constants.  Both need to     *)
(* know more of a call than Consistent says: what it holds before it has   *)
(* an answer, and whose receipt it answers with.  Traced says it.          *)
(***************************************************************************)
EXTENDS ExecuteServiceProofs

\* A receipt with this id, made for an execution under r's key.
ReplayOf(r, id) ==
  \E rec \in receipts : rec.id = id /\ KeyOf[rec.req] = KeyOf[r] /\ ran[rec.req]
\* A receipt with this id, made for r itself.
OwnReceipt(r, id) == \E rec \in receipts : rec.id = id /\ rec.req = r

BeforeReturn == {"idle", "lookup", "replay", "resolve", "structural", "running", "returned", "persist"}

\* What a call holds on its way: nothing to return before it returns, no result
\* before it is classified, no outcome before the adapter is back.  A call whose
\* key was found has neither run nor left a receipt, and answers with the receipt
\* it found; any other answers with its own.
Traced(r) ==
  /\ pc[r] \in BeforeReturn => ret[r].kind = "none"
  /\ pc[r] = "record" => ret[r].kind = "receipt" /\ OwnReceipt(r, ret[r].rid)
  /\ pc[r] = "release" => ret[r].kind \in {"receipt", "persist_failed", "build_failed", "find_failed"}
  /\ pc[r] \in BeforeReturn \ {"structural", "persist"} => result[r] = NoResult
  /\ pc[r] \in BeforeReturn \ {"returned", "persist"} => raw[r] = "none"
  /\ pc[r] = "replay" => lr[r].outcome = "hit" /\ ReplayOf(r, lr[r].rid)
  /\ pc[r] \in (BeforeReturn \ {"replay"}) \cup {"record"} => lr[r].outcome # "hit"
  /\ lr[r].outcome = "hit" =>
       KeyOf[r] # NoKey /\ ~ran[r] /\ \A rec \in receipts : rec.req # r
  /\ pc[r] \in {"release", "done"} /\ ret[r].kind = "receipt" =>
       IF lr[r].outcome = "hit" THEN ReplayOf(r, ret[r].rid) ELSE OwnReceipt(r, ret[r].rid)

AllTraced == \A r \in Request : Traced(r)

-----------------------------------------------------------------------------
(* Calls change nothing of each other *)

\* A step that call r takes, or that its adapter, caller or timer takes for it.
StepOf(r) == Step(r) \/ RejectEnvelope(r) \/ AdapterReturn(r) \/ CallerDone(r) \/ Timeout(r)

\* Such a step leaves the other calls alone; it adds at most a receipt of r.
LEMMA StepLocal ==
  ASSUME TypeOK, NEW r \in Request, StepOf(r)
  PROVE  /\ \A q \in Request \ {r} : /\ pc'[q] = pc[q] /\ ret'[q] = ret[q] /\ result'[q] = result[q]
                                     /\ raw'[q] = raw[q] /\ lr'[q] = lr[q] /\ ran'[q] = ran[q]
         /\ \A q \in Request : ran[q] => ran'[q]
         /\ receipts' = receipts \/ Insert(r)
         /\ crashes' = crashes
<1> USE DEF TypeOK
<1>1. CASE PersistStructural(r)
  BY <1>1, PersistStructuralCases DEF Return, Goto, historyVars
<1>2. CASE Persist(r)
  BY <1>2, PersistCases DEF Return, Goto, historyVars
<1>3. CASE TryAcquire(r)
  BY <1>3 DEF TryAcquire, Goto, dbVars
<1>4. CASE Lookup(r) \/ Replay(r)
  BY <1>4 DEF Lookup, Replay, Return, Goto, dbVars, historyVars
<1>5. CASE RejectResolution(r) \/ Dispatch(r) \/ Classify(r) \/ BuildFails(r)
  BY <1>5, SMTT(30) DEF RejectResolution, Dispatch, Classify, BuildFails, Return, Goto, dbVars, historyVars
<1>6. CASE Record(r) \/ Release(r) \/ RejectEnvelope(r)
  BY <1>6 DEF Record, Release, RejectEnvelope, Goto, dbVars, historyVars
<1>7. CASE AdapterReturn(r) \/ CallerDone(r) \/ Timeout(r)
  BY <1>7 DEF AdapterReturn, CallerDone, Timeout, Goto, dbVars, historyVars
<1> QED
  BY <1>1, <1>2, <1>3, <1>4, <1>5, <1>6, <1>7 DEF StepOf, Step

\* What is known of receipts stays known.
LEMMA ReceiptsStay ==
  ASSUME TypeOK, NEW r \in Request, StepOf(r), NEW q \in Request, NEW id
  PROVE  /\ ReplayOf(q, id) => \E rec \in receipts' : /\ rec.id = id /\ KeyOf[rec.req] = KeyOf[q]
                                                      /\ ran'[rec.req]
         /\ OwnReceipt(q, id) => \E rec \in receipts' : rec.id = id /\ rec.req = q
<1>1. receipts \subseteq receipts' /\ \A p \in Request : ran[p] => ran'[p]
  BY StepLocal DEF Insert
<1>2. \A rec \in receipts : rec.req \in Request
  BY DEF TypeOK, Receipt
<1> QED
  BY <1>1, <1>2 DEF ReplayOf, OwnReceipt

\* A step of r leaves what is known of the other calls true.
LEMMA TracedOthers ==
  ASSUME TypeOK, NEW r \in Request, StepOf(r), NEW q \in Request \ {r}, Traced(q)
  PROVE  Traced(q)'
<1>1. /\ pc'[q] = pc[q] /\ ret'[q] = ret[q] /\ result'[q] = result[q]
      /\ raw'[q] = raw[q] /\ lr'[q] = lr[q] /\ ran'[q] = ran[q]
  BY StepLocal
<1>2. \A rec \in receipts' : rec.req = q => rec \in receipts
  BY StepLocal DEF Insert
<1>3. /\ \A id : ReplayOf(q, id) => ReplayOf(q, id)'
      /\ \A id : OwnReceipt(q, id) => OwnReceipt(q, id)'
  BY ReceiptsStay DEF ReplayOf, OwnReceipt
<1> QED
  BY <1>1, <1>2, <1>3 DEF Traced

-----------------------------------------------------------------------------
(* A call's own steps *)

\* An id just handed out is the new receipt's alone.
LEMMA Inserted ==
  ASSUME NEW r \in Request, Insert(r)
  PROVE  \E rec \in receipts' : rec.id = nextID /\ rec.req = r
<1> DEFINE new == [id |-> nextID, req |-> r, status |-> result[r].status, class |-> result[r].class]
<1>1. new \in receipts' /\ new.id = nextID /\ new.req = r
  BY DEF Insert
<1> QED
  BY <1>1

\* What Execute returns, field by field.
LEMMA ReturnFields ==
  /\ \A id : ReceiptReturned(id).kind = "receipt" /\ ReceiptReturned(id).rid = id
  /\ \A kind, e : ErrorReturned(kind, e).kind = kind
  BY DEF ReceiptReturned, ErrorReturned, NoReturn

\* The call that saves its receipt answers with it.
LEMMA TracedPersist ==
  ASSUME TypeOK, Progress, NEW r \in Request, Traced(r), Persist(r) \/ PersistStructural(r)
  PROVE  Traced(r)'
<1>1. pc[r] \in {"persist", "structural"} /\ lr[r].outcome # "hit" /\ lr' = lr
  BY PersistCases, PersistStructuralCases DEF Traced, BeforeReturn
<1>2. /\ pc'[r] \in {"record", "release"}
      /\ pc'[r] = "record" => ret'[r].kind = "receipt"
      /\ ret'[r].kind \in {"receipt", "persist_failed"}
      /\ ret'[r].kind = "receipt" => Insert(r) /\ ret'[r].rid = nextID
  BY PersistCases, PersistStructuralCases, ReturnFields DEF Return, Goto, TypeOK
<1>3. ret'[r].kind = "receipt" => OwnReceipt(r, ret[r].rid)'
  BY <1>2, Inserted DEF OwnReceipt
<1> QED
  BY <1>1, <1>2, <1>3 DEF Traced, BeforeReturn

\* A hit carries the id of a receipt stored under the same key.
LEMMA TracedLookup ==
  ASSUME TypeOK, Progress, Ledger, KeyRowSound, NEW r \in Request, Traced(r), Lookup(r)
  PROVE  Traced(r)'
<1>1. /\ pc[r] = "lookup" /\ KeyOf[r] # NoKey /\ ~ran[r]
      /\ \A rec \in receipts : rec.req # r
  BY DEF Lookup, Progress, Ledger
<1>2. PICK o \in LookupOutcome(r) :
        /\ lr'[r] = [outcome |-> o, rid |-> IF o = "hit" THEN KeyRow(r).rid ELSE 0]
        /\ pc'[r] = CASE o = "hit" -> "replay" [] o = "panic" -> "structural" [] OTHER -> "resolve"
        /\ result' = IF o = "panic" THEN [result EXCEPT ![r] = Failure("adapter_internal_error")]
                     ELSE result
  BY DEF Lookup, Goto, TypeOK
<1>3. UNCHANGED <<ret, raw, ran, receipts>>
  BY DEF Lookup, dbVars, historyVars
<1>4. CASE o = "hit"
  <2>1. KeyRow(r).state = "live" /\ KeyRow(r) = idem[KeyOf[r]] /\ KeyOf[r] \in Key
    BY <1>1, <1>4, KeyAssumption DEF LookupOutcome, KeyRow
  <2>2. ReplayOf(r, KeyRow(r).rid)
    BY <2>1 DEF KeyRowSound, ReplayOf
  <2>3. lr'[r].outcome = "hit" /\ lr'[r].rid = KeyRow(r).rid /\ pc'[r] = "replay" /\ result' = result
    BY <1>2, <1>4
  <2>4. ReplayOf(r, lr[r].rid)'
    BY <2>2, <2>3, <1>3 DEF ReplayOf
  <2> QED
    BY <1>1, <1>3, <2>3, <2>4 DEF Traced, BeforeReturn
<1>5. CASE o # "hit"
  <2>1. lr'[r].outcome # "hit" /\ pc'[r] \in {"structural", "resolve"}
        /\ (pc'[r] = "resolve" => result' = result)
    BY <1>2, <1>5
  <2> QED
    BY <1>1, <1>3, <2>1 DEF Traced, BeforeReturn
<1> QED
  BY <1>4, <1>5

LEMMA TracedReplay ==
  ASSUME TypeOK, NEW r \in Request, Traced(r), Replay(r)
  PROVE  Traced(r)'
<1>1. /\ pc[r] = "replay" /\ pc'[r] = "release"
      /\ \/ ret'[r].kind = "receipt" /\ ret'[r].rid = lr[r].rid
         \/ ret'[r].kind = "find_failed"
      /\ UNCHANGED <<lr, raw, result, receipts, ran>>
  BY ReturnFields DEF Replay, Return, Goto, TypeOK, dbVars, historyVars
<1>2. ret'[r].kind = "receipt" => ReplayOf(r, ret[r].rid)'
  BY <1>1 DEF Traced, ReplayOf
<1> QED
  BY <1>1, <1>2 DEF Traced, BeforeReturn

\* Every step of r keeps what is known of r.
LEMMA TracedSelf ==
  ASSUME Consistent, NEW r \in Request, Traced(r), StepOf(r)
  PROVE  Traced(r)'
<1>1. TypeOK /\ Progress /\ Ledger /\ KeyRowSound
  BY DEF Consistent
<1>2. CASE Persist(r) \/ PersistStructural(r)
  BY <1>1, <1>2, TracedPersist
<1>3. CASE Lookup(r)
  BY <1>1, <1>3, TracedLookup
<1>4. CASE Replay(r)
  BY <1>1, <1>4, TracedReplay
<1>5. CASE TryAcquire(r)
  <2>1. /\ pc[r] = "idle" /\ pc'[r] \in {"resolve", "lookup", "done"}
        /\ IF pc'[r] = "done" THEN ret'[r].kind = "rejected" ELSE ret' = ret
        /\ UNCHANGED <<lr, raw, result, receipts, ran>>
    BY <1>1, <1>5, ReturnFields DEF TryAcquire, Goto, TypeOK, dbVars
  <2> QED
    BY <2>1 DEF Traced, BeforeReturn
<1>6. CASE RejectEnvelope(r)
  <2>1. /\ pc[r] = "idle" /\ pc'[r] = "done" /\ ret'[r].kind = "bad_envelope"
        /\ UNCHANGED <<lr, raw, result, receipts, ran>>
    BY <1>1, <1>6, ReturnFields DEF RejectEnvelope, Goto, TypeOK, dbVars, historyVars
  <2> QED
    BY <2>1 DEF Traced, BeforeReturn
<1>7. CASE RejectResolution(r)
  BY <1>1, <1>7 DEF RejectResolution, Traced, BeforeReturn, Goto, TypeOK, dbVars, historyVars
<1>8. CASE Dispatch(r)
  BY <1>1, <1>8 DEF Dispatch, Traced, BeforeReturn, Goto, TypeOK, dbVars
<1>9. CASE Classify(r)
  BY <1>1, <1>9 DEF Classify, Traced, BeforeReturn, Goto, TypeOK, dbVars, historyVars
<1>10. CASE BuildFails(r)
  BY <1>1, <1>10 DEF BuildFails, Traced, BeforeReturn, Return, Goto, TypeOK, ErrorReturned, NoReturn,
                     dbVars, historyVars
<1>11. CASE Record(r)
  BY <1>1, <1>11 DEF Record, Traced, BeforeReturn, Goto, TypeOK, OwnReceipt, ReplayOf
<1>12. CASE Release(r)
  BY <1>1, <1>12 DEF Release, Traced, BeforeReturn, Goto, TypeOK, OwnReceipt, ReplayOf, dbVars,
                     historyVars
<1>13. CASE AdapterReturn(r)
  BY <1>1, <1>13 DEF AdapterReturn, Traced, BeforeReturn, Goto, TypeOK, dbVars, historyVars
<1>14. CASE CallerDone(r) \/ Timeout(r)
  BY <1>1, <1>14 DEF CallerDone, Timeout, Traced, dbVars, historyVars, OwnReceipt, ReplayOf
<1> QED
  BY <1>2, <1>3, <1>4, <1>5, <1>6, <1>7, <1>8, <1>9, <1>10, <1>11, <1>12, <1>13, <1>14
     DEF StepOf, Step

\* Windows running out and crashes end no trace.
LEMMA TracedEnvironment ==
  ASSUME TypeOK, AllTraced, Crash \/ (\E k \in Key : Expire(k)) \/ UNCHANGED vars
  PROVE  AllTraced'
<1>1. /\ UNCHANGED <<ret, result, raw, lr, ran, receipts>>
      /\ \A r \in Request : pc'[r] = pc[r] \/ pc'[r] = "lost"
  BY DEF Crash, Expire, vars, processVars, dbVars, historyVars, TypeOK
<1> QED
  BY <1>1 DEF AllTraced, Traced, BeforeReturn, ReplayOf, OwnReceipt

LEMMA TracedStep == Consistent /\ AllTraced /\ [Next]_vars => AllTraced'
<1> SUFFICES ASSUME Consistent, AllTraced, [Next]_vars
             PROVE  AllTraced'
  OBVIOUS
<1>1. TypeOK
  BY DEF Consistent
<1>2. ASSUME NEW r \in Request, StepOf(r) PROVE AllTraced'
  BY <1>1, <1>2, TracedSelf, TracedOthers DEF AllTraced
<1>3. CASE Crash \/ (\E k \in Key : Expire(k)) \/ UNCHANGED vars
  BY <1>1, <1>3, TracedEnvironment
<1> QED
  BY <1>2, <1>3 DEF Next, StepOf

\* In every reachable state each call holds what its place in Execute says.
THEOREM CallsAreTraced == Spec => []AllTraced
<1>1. Init => AllTraced
  BY DEF Init, AllTraced, Traced, BeforeReturn, NoReturn, ReplayOf, OwnReceipt
<1> QED
  BY <1>1, TracedStep, Consistency, PTL DEF Spec

-----------------------------------------------------------------------------
(* The counters *)

\* Is r one of the calls that counter c has counted?
Tallied(c, r) ==
  CASE c = "rejects" -> ret[r].kind = "rejected"
    [] c = "persist_failures" -> ret[r].kind = "persist_failed"
    [] c = "executions" -> /\ pc[r] \in {"release", "done"} /\ ret[r].kind = "receipt"
                           /\ lr[r].outcome # "hit"
    [] c = "adapter_panics" -> raw[r] = "panic" /\ result[r].class = "adapter_internal_error"
Tally(c) == {r \in Request : Tallied(c, r)}
CountersExact == crashes = 0 => \A c \in Counter : count[c] = Cardinality(Tally(c))

\* MetricsExact, counter by counter.
LEMMA CountersAreMetrics == CountersExact <=> MetricsExact
  BY DEF CountersExact, MetricsExact, Tally, Tallied, Counter

\* A set that differs from S at most in r has the matching number of members.
LEMMA OneMore ==
  ASSUME NEW S \in SUBSET Request, NEW T \in SUBSET Request, NEW r \in Request, NEW m \in Nat,
         \A q \in Request \ {r} : q \in S <=> q \in T,
         \/ (r \in S <=> r \in T) /\ m = Cardinality(S)
         \/ r \notin S /\ r \in T /\ m = Cardinality(S) + 1
  PROVE  m = Cardinality(T)
<1>1. CASE (r \in S <=> r \in T) /\ m = Cardinality(S)
  <2>1. S = T
    BY <1>1
  <2> QED
    BY <1>1, <2>1
<1>2. CASE r \notin S /\ r \in T /\ m = Cardinality(S) + 1
  <2>1. T = S \cup {r}
    BY <1>2
  <2>2. IsFiniteSet(S)
    BY FiniteCalls
  <2> QED
    BY <1>2, <2>1, <2>2, FS_AddElement
<1> QED
  BY <1>1, <1>2

\* The counter moves with the call, by one and once.
Moves(c, r) ==
  \/ (Tallied(c, r)' <=> Tallied(c, r)) /\ count'[c] = count[c]
  \/ ~Tallied(c, r) /\ Tallied(c, r)' /\ count'[c] = count[c] + 1

LEMMA MovesPersist ==
  ASSUME TypeOK, NEW r \in Request, Traced(r), Persist(r) \/ PersistStructural(r), NEW c \in Counter
  PROVE  Moves(c, r)
<1>1. /\ pc[r] \in {"persist", "structural"} /\ lr[r].outcome # "hit" /\ ret[r].kind = "none"
      /\ UNCHANGED <<lr, raw, result>>
  BY PersistCases, PersistStructuralCases DEF Traced, BeforeReturn
<1>2. \/ pc'[r] = "record" /\ ret'[r].kind = "receipt" /\ count' = count
      \/ pc'[r] = "release" /\ ret'[r].kind = "receipt" /\ Bump("executions")
      \/ pc'[r] = "release" /\ ret'[r].kind = "persist_failed" /\ Bump("persist_failures")
  BY PersistCases, PersistStructuralCases, ReturnFields DEF Return, Goto, TypeOK
<1>3. CASE pc'[r] = "record" /\ ret'[r].kind = "receipt" /\ count' = count
  BY <1>1, <1>3 DEF Moves, Tallied, Counter
<1>4. CASE pc'[r] = "release" /\ ret'[r].kind = "receipt" /\ Bump("executions")
  BY <1>1, <1>4 DEF Moves, Tallied, Counter, Bump, TypeOK
<1>5. CASE pc'[r] = "release" /\ ret'[r].kind = "persist_failed" /\ Bump("persist_failures")
  BY <1>1, <1>5 DEF Moves, Tallied, Counter, Bump, TypeOK
<1> QED
  BY <1>2, <1>3, <1>4, <1>5

\* The panic is counted when, and only when, the result blames the adapter.
LEMMA MovesClassify ==
  ASSUME TypeOK, NEW r \in Request, Traced(r), Classify(r), NEW c \in Counter
  PROVE  Moves(c, r)
<1>1. /\ pc[r] = "returned" /\ pc'[r] = "persist" /\ UNCHANGED <<lr, raw, ret>>
      /\ result[r].class = "none" /\ ret[r].kind = "none"
  BY DEF Classify, Goto, Traced, BeforeReturn, NoResult, TypeOK
<1>2. raw[r] = "panic" => (result'[r].class = "adapter_internal_error" <=> execErr[r] = "none")
  <2>1. PICK res \in ClassifiedResults(r) : result' = [result EXCEPT ![r] = res]
    BY DEF Classify
  <2>2. raw[r] = "panic" => (res.class = "adapter_internal_error" <=> execErr[r] = "none")
    BY DEF ClassifiedResults, ctxOutcomeFor, Failure
  <2> QED
    BY <2>1, <2>2 DEF TypeOK
<1>3. IF execErr[r] = "none" /\ raw[r] = "panic" THEN Bump("adapter_panics") ELSE count' = count
  BY DEF Classify
<1>4. CASE c = "adapter_panics"
  <2>1. ~Tallied(c, r)
    BY <1>1, <1>4 DEF Tallied
  <2>2. Tallied(c, r)' <=> execErr[r] = "none" /\ raw[r] = "panic"
    BY <1>1, <1>2, <1>4 DEF Tallied
  <2>3. IF execErr[r] = "none" /\ raw[r] = "panic" THEN count'[c] = count[c] + 1 ELSE count'[c] = count[c]
    BY <1>3, <1>4 DEF Bump, TypeOK, Counter
  <2> QED
    BY <2>1, <2>2, <2>3 DEF Moves
<1>5. CASE c # "adapter_panics"
  <2>1. Tallied(c, r)' <=> Tallied(c, r)
    BY <1>1, <1>5 DEF Tallied, Counter
  <2>2. count'[c] = count[c]
    BY <1>3, <1>5 DEF Bump, TypeOK, Counter
  <2> QED
    BY <2>1, <2>2 DEF Moves
<1> QED
  BY <1>4, <1>5

\* Whichever step r takes, a counter moves when r joins those it counts.
LEMMA MovesStep ==
  ASSUME TypeOK, NEW r \in Request, Traced(r), StepOf(r), NEW c \in Counter
  PROVE  Moves(c, r)
<1>1. CASE Persist(r) \/ PersistStructural(r)
  BY <1>1, MovesPersist
<1>2. CASE Classify(r)
  BY <1>2, MovesClassify
<1>3. CASE TryAcquire(r)
  <2>1. /\ pc[r] = "idle" /\ ret[r].kind = "none" /\ UNCHANGED <<lr, raw, result>>
        /\ \/ pc'[r] \in {"resolve", "lookup"} /\ UNCHANGED <<ret, count>>
           \/ pc'[r] = "done" /\ ret'[r].kind = "rejected" /\ Bump("rejects")
    BY <1>3, ReturnFields DEF TryAcquire, Goto, TypeOK, Traced, BeforeReturn
  <2> QED
    BY <2>1, ZenonT(60) DEF Moves, Tallied, Counter, Bump, TypeOK
<1>4. CASE Lookup(r)
  <2>1. /\ pc[r] = "lookup" /\ raw[r] = "none" /\ pc'[r] \in {"replay", "structural", "resolve"}
        /\ UNCHANGED <<ret, raw, count>>
    BY <1>4 DEF Lookup, Goto, TypeOK, Traced, BeforeReturn
  <2> QED
    BY <2>1 DEF Moves, Tallied, Counter
<1>5. CASE Replay(r)
  <2>1. /\ pc[r] = "replay" /\ lr[r].outcome = "hit" /\ ret[r].kind = "none"
        /\ ret'[r].kind \in {"receipt", "find_failed"} /\ UNCHANGED <<lr, raw, result, count>>
    BY <1>5, ReturnFields DEF Replay, Return, Goto, TypeOK, Traced, BeforeReturn
  <2> QED
    BY <2>1 DEF Moves, Tallied, Counter
<1>6. CASE RejectResolution(r) \/ Dispatch(r) \/ AdapterReturn(r)
  <2>1. /\ pc[r] \in {"resolve", "running"} /\ pc'[r] \in {"structural", "running", "returned"}
        /\ (raw[r] = "none" /\ raw' = raw) \/ (result[r].class = "none" /\ result' = result)
        /\ raw[r] = "none" /\ UNCHANGED <<ret, lr, count>>
    BY <1>6 DEF RejectResolution, Dispatch, AdapterReturn, Goto, TypeOK, Traced, BeforeReturn, NoResult
  <2> QED
    BY <2>1 DEF Moves, Tallied, Counter
<1>7. CASE BuildFails(r)
  <2>1. /\ pc[r] \in {"structural", "persist"} /\ pc'[r] = "release" /\ ret[r].kind = "none"
        /\ ret'[r].kind = "build_failed" /\ UNCHANGED <<lr, raw, result, count>>
    BY <1>7, ReturnFields DEF BuildFails, Return, Goto, TypeOK, Traced, BeforeReturn
  <2> QED
    BY <2>1 DEF Moves, Tallied, Counter
<1>8. CASE Record(r)
  <2>1. /\ pc[r] = "record" /\ pc'[r] = "release" /\ ret[r].kind = "receipt"
        /\ lr[r].outcome # "hit" /\ Bump("executions") /\ UNCHANGED <<ret, lr, raw, result>>
    BY <1>8 DEF Record, Goto, TypeOK, Traced
  <2> QED
    BY <2>1 DEF Moves, Tallied, Counter, Bump, TypeOK
<1>9. CASE Release(r) \/ CallerDone(r) \/ Timeout(r)
  <2>1. /\ pc'[r] \in {"release", "done"} <=> pc[r] \in {"release", "done"}
        /\ UNCHANGED <<ret, lr, raw, result, count>>
    BY <1>9 DEF Release, CallerDone, Timeout, Goto, TypeOK
  <2> QED
    BY <2>1 DEF Moves, Tallied, Counter
<1>10. CASE RejectEnvelope(r)
  <2>1. /\ pc[r] = "idle" /\ ret[r].kind = "none" /\ ret'[r].kind = "bad_envelope"
        /\ UNCHANGED <<lr, raw, result, count>>
    BY <1>10, ReturnFields DEF RejectEnvelope, Goto, TypeOK, Traced, BeforeReturn
  <2> QED
    BY <2>1 DEF Moves, Tallied, Counter
<1> QED
  BY <1>1, <1>2, <1>3, <1>4, <1>5, <1>6, <1>7, <1>8, <1>9, <1>10 DEF StepOf, Step

\* Hence every step, a crash included, keeps the counters exact.
LEMMA CountersStep ==
  ASSUME TypeOK, AllTraced, CountersExact, NEW r \in Request, StepOf(r)
  PROVE  CountersExact'
<1> SUFFICES ASSUME crashes' = 0, NEW c \in Counter
             PROVE  count'[c] = Cardinality(Tally(c)')
  BY DEF CountersExact
<1>1. count[c] = Cardinality(Tally(c)) /\ count[c] \in Nat
  BY StepLocal DEF CountersExact, TypeOK
<1>2. Moves(c, r)
  BY MovesStep DEF AllTraced
<1>3. \A q \in Request \ {r} : Tallied(c, q)' <=> Tallied(c, q)
  BY StepLocal DEF Tallied, Counter
<1>4. /\ Tally(c) \in SUBSET Request /\ Tally(c)' \in SUBSET Request
      /\ \A q \in Request : /\ q \in Tally(c) <=> Tallied(c, q)
                            /\ q \in Tally(c)' <=> Tallied(c, q)'
  BY DEF Tally
<1>5. /\ count'[c] \in Nat
      /\ \/ (r \in Tally(c) <=> r \in Tally(c)') /\ count'[c] = Cardinality(Tally(c))
         \/ r \notin Tally(c) /\ r \in Tally(c)' /\ count'[c] = Cardinality(Tally(c)) + 1
  BY <1>1, <1>2, <1>4 DEF Moves
<1>6. \A q \in Request \ {r} : q \in Tally(c) <=> q \in Tally(c)'
  BY <1>3, <1>4
<1> QED
  BY <1>4, <1>5, <1>6, OneMore

\* As long as the process lives, each counter is the number of calls that ended
\* the way it counts, for any number of calls and on every path.
THEOREM CountersAreExact == Spec => []MetricsExact
<1>1. Init => CountersExact
  <2> SUFFICES ASSUME Init, NEW c \in Counter PROVE count[c] = Cardinality(Tally(c))
    BY DEF CountersExact
  <2>1. Tally(c) = {} /\ count[c] = 0
    BY DEF Init, Tally, Tallied, Counter, NoReturn
  <2> QED
    BY <2>1, FS_EmptySet
<1>2. Consistent /\ AllTraced /\ CountersExact /\ [Next]_vars => CountersExact'
  <2> SUFFICES ASSUME Consistent, AllTraced, CountersExact, [Next]_vars
               PROVE  CountersExact'
    OBVIOUS
  <2>1. TypeOK
    BY DEF Consistent
  <2>2. ASSUME NEW r \in Request, StepOf(r) PROVE CountersExact'
    BY <2>1, <2>2, CountersStep
  <2>3. CASE Crash
    BY <2>1, <2>3 DEF Crash, CountersExact, TypeOK
  <2>4. CASE (\E k \in Key : Expire(k)) \/ UNCHANGED vars
    <3>1. UNCHANGED <<pc, ret, raw, result, lr, count, crashes>>
      BY <2>4 DEF Expire, vars, processVars, historyVars
    <3> QED
      BY <3>1 DEF CountersExact, Tally, Tallied
  <2> QED
    BY <2>2, <2>3, <2>4 DEF Next, StepOf
<1>3. Spec => []CountersExact
  BY <1>1, <1>2, Consistency, CallsAreTraced, PTL DEF Spec
<1> QED
  BY <1>3, CountersAreMetrics, PTL

-----------------------------------------------------------------------------
(* The refinement: the mapping, pointwise *)

Phase(r) == CASE pc[r] = "done" -> "answered"
              [] pc[r] = "lost" -> "abandoned"
              [] OTHER -> IF ran[r] THEN "executed" ELSE "open"
AuditLedger == {rec.req : rec \in receipts}
Executed == {r \in Request : ran[r]}

\* Nothing of call q changes to a reader of AuditedRuntime.
SameToReader(q) == Phase(q)' = Phase(q) /\ AuditAnswer(q)' = AuditAnswer(q)

\* The receipt an id names.
LEMMA Named ==
  ASSUME NEW R, \A x, y \in R : x.id = y.id => x = y, NEW rec \in R
  PROVE  (CHOOSE x \in R : x.id = rec.id) = rec
<1>1. \E x \in R : x.id = rec.id
  OBVIOUS
<1>2. (CHOOSE x \in R : x.id = rec.id) \in R /\ (CHOOSE x \in R : x.id = rec.id).id = rec.id
  BY <1>1
<1> QED
  BY <1>2

\* The caller of a finished call was told of a receipt by its id; receipts that
\* come later do not change which one that is.
LEMMA AnswerStays ==
  ASSUME Consistent, Consistent', NEW q \in Request, Traced(q), receipts \subseteq receipts',
         pc[q] = "done", pc'[q] = "done", ret'[q] = ret[q]
  PROVE  AuditAnswer(q)' = AuditAnswer(q)
<1>1. CASE ret[q].kind = "receipt"
  <2>1. PICK rec \in receipts : rec.id = ret[q].rid
    BY <1>1 DEF Traced, ReplayOf, OwnReceipt
  <2>2. /\ \A x, y \in receipts : x.id = y.id => x = y
        /\ \A x, y \in receipts' : x.id = y.id => x = y
    BY DEF Consistent, ReceiptTruthful
  <2>3. (CHOOSE x \in receipts : x.id = rec.id) = rec
    BY <2>2, Named
  <2>4. (CHOOSE x \in receipts' : x.id = rec.id) = rec
    BY <2>2, Named
  <2>5. AuditAnswer(q) = [kind |-> "receipt", of |-> rec.req]
    BY <1>1, <2>1, <2>3 DEF AuditAnswer
  <2>6. AuditAnswer(q)' = [kind |-> "receipt", of |-> rec.req]
    BY <1>1, <2>1, <2>4 DEF AuditAnswer
  <2> QED
    BY <2>5, <2>6
<1>2. CASE ret[q].kind # "receipt"
  BY <1>2 DEF AuditAnswer
<1> QED
  BY <1>1, <1>2

\* A step of r is not seen at any other call.
LEMMA OthersSame ==
  ASSUME Consistent, Consistent', AllTraced, NEW r \in Request, StepOf(r), NEW q \in Request \ {r}
  PROVE  SameToReader(q)
<1>1. /\ pc'[q] = pc[q] /\ ret'[q] = ret[q] /\ ran'[q] = ran[q] /\ receipts \subseteq receipts'
  BY StepLocal DEF Consistent, Insert
<1>2. Phase(q)' = Phase(q)
  BY <1>1 DEF Phase
<1>3. CASE pc[q] = "done"
  BY <1>1, <1>2, <1>3, AnswerStays DEF AllTraced, SameToReader
<1>4. CASE pc[q] # "done"
  BY <1>1, <1>2, <1>4 DEF AuditAnswer, SameToReader
<1> QED
  BY <1>3, <1>4

-----------------------------------------------------------------------------
(* From the mapping, pointwise, to the steps of AuditedRuntime *)

LEMMA ReaderSeesNothing ==
  ASSUME \A q \in Request : SameToReader(q), AuditLedger' = AuditLedger, Executed' = Executed
  PROVE  UNCHANGED Audited!vars
  BY DEF SameToReader, Phase, AuditLedger, Executed, Audited!vars

LEMMA ReaderSeesInvoke ==
  ASSUME NEW r \in Request, \A q \in Request \ {r} : SameToReader(q),
         Phase(r) = "open", r \notin AuditLedger, Phase(r)' = "executed",
         AuditAnswer(r)' = AuditAnswer(r), AuditLedger' = AuditLedger, Executed' = Executed \cup {r}
  PROVE  Audited!Invoke(r)
  BY DEF SameToReader, Phase, AuditLedger, Executed, Audited!Invoke

LEMMA ReaderSeesAudit ==
  ASSUME NEW r \in Request, \A q \in Request : SameToReader(q),
         Phase(r) \in {"open", "executed"}, r \notin AuditLedger,
         AuditLedger' = AuditLedger \cup {r}, Executed' = Executed
  PROVE  Audited!Audit(r)
  BY DEF SameToReader, Phase, AuditLedger, Executed, Audited!Audit

LEMMA ReaderSeesAnswer ==
  ASSUME NEW r \in Request, \A q \in Request \ {r} : SameToReader(q),
         Phase(r) \in {"open", "executed"}, Phase(r)' = "answered",
         AuditLedger' = AuditLedger, Executed' = Executed, NEW a, AuditAnswer(r)' = a
  PROVE  Audited!Answer(r, a)
  BY DEF SameToReader, Phase, AuditLedger, Executed, Audited!Answer

-----------------------------------------------------------------------------
(* Every step of a call is one of these *)

\* The ledger and the executed calls change only with the tables and with ran.
LEMMA SameTables ==
  ASSUME UNCHANGED <<receipts, ran>>
  PROVE  AuditLedger' = AuditLedger /\ Executed' = Executed
  BY DEF AuditLedger, Executed

\* A call that has not saved has no entry in the ledger.
LEMMA NotInLedger ==
  ASSUME Ledger, NEW r \in Request, pc[r] \notin {"record", "release", "done", "lost"}
  PROVE  r \notin AuditLedger
  BY DEF Ledger, AuditLedger

\* The steps that a reader does not see: the call stays open or executed.
LEMMA HiddenStep ==
  ASSUME Consistent, Consistent', AllTraced, NEW r \in Request,
         \/ Lookup(r) \/ Replay(r) \/ RejectResolution(r) \/ Classify(r) \/ BuildFails(r) \/ Record(r)
         \/ AdapterReturn(r) \/ CallerDone(r) \/ Timeout(r)
  PROVE  UNCHANGED Audited!vars
<1>1. StepOf(r)
  BY DEF StepOf, Step
<1>2. /\ pc[r] \notin {"done", "lost"} /\ pc'[r] \notin {"done", "lost"} /\ UNCHANGED <<receipts, ran>>
  BY DEF Lookup, Replay, RejectResolution, Classify, BuildFails, Record, AdapterReturn, CallerDone,
         Timeout, ExecCtxOpen, Return, Goto, dbVars, historyVars, Consistent, TypeOK
<1>3. SameToReader(r)
  BY <1>2 DEF SameToReader, Phase, AuditAnswer
<1> QED
  BY <1>1, <1>2, <1>3, OthersSame, SameTables, ReaderSeesNothing

\* The adapter is invoked where Dispatch lets it run.
LEMMA DispatchInvokes ==
  ASSUME Consistent, Consistent', AllTraced, NEW r \in Request, Dispatch(r)
  PROVE  Audited!Invoke(r)
<1>1. /\ StepOf(r) /\ pc[r] = "resolve" /\ ~ran[r] /\ pc'[r] = "running"
      /\ ran' = [ran EXCEPT ![r] = TRUE] /\ receipts' = receipts
  BY DEF StepOf, Step, Dispatch, Goto, dbVars, Consistent, TypeOK, Progress
<1>2. ran'[r] = TRUE /\ Executed' = Executed \cup {r}
  BY <1>1 DEF Executed, Consistent, TypeOK
<1>3. AuditLedger' = AuditLedger /\ r \notin AuditLedger
  BY <1>1, NotInLedger DEF AuditLedger, Consistent
<1>4. Phase(r) = "open" /\ Phase(r)' = "executed" /\ AuditAnswer(r)' = AuditAnswer(r)
  BY <1>1, <1>2 DEF Phase, AuditAnswer
<1> QED
  BY <1>1, <1>2, <1>3, <1>4, OthersSame, ReaderSeesInvoke

\* A row that is stored is an audit, acknowledged or not.
LEMMA PersistAudits ==
  ASSUME Consistent, Consistent', AllTraced, NEW r \in Request, Persist(r) \/ PersistStructural(r)
  PROVE  Audited!Audit(r) \/ UNCHANGED Audited!vars
<1>1. /\ StepOf(r) /\ pc[r] \in {"persist", "structural"} /\ pc'[r] \in {"record", "release"}
      /\ ran' = ran /\ (receipts' = receipts \/ Insert(r))
  BY PersistCases, PersistStructuralCases
     DEF StepOf, Step, Return, Goto, historyVars, Consistent, TypeOK
<1>2. \A q \in Request : SameToReader(q)
  <2>1. SameToReader(r)
    BY <1>1 DEF SameToReader, Phase, AuditAnswer
  <2> QED
    BY <1>1, <2>1, OthersSame
<1>3. Phase(r) \in {"open", "executed"} /\ r \notin AuditLedger /\ Executed' = Executed
  BY <1>1, NotInLedger DEF Phase, Executed, Consistent
<1>4. CASE receipts' = receipts
  BY <1>1, <1>2, <1>4, SameTables, ReaderSeesNothing
<1>5. CASE Insert(r)
  <2> DEFINE new == [id |-> nextID, req |-> r, status |-> result[r].status, class |-> result[r].class]
  <2>1. AuditLedger' = AuditLedger \cup {r}
    <3>1. receipts' = receipts \cup {new} /\ new.req = r
      BY <1>5 DEF Insert
    <3> HIDE DEF new
    <3> QED
      BY <3>1 DEF AuditLedger
  <2> QED
    BY <1>2, <1>3, <2>1, ReaderSeesAudit
<1> QED
  BY <1>1, <1>4, <1>5

\* A call that is turned away has not run and has no receipt.
LEMMA RefusalAnswers ==
  ASSUME Consistent, Consistent', AllTraced, NEW r \in Request,
         RejectEnvelope(r) \/ (TryAcquire(r) /\ pc'[r] = "done")
  PROVE  Audited!AnswerRefused(r)
<1>1. /\ StepOf(r) /\ pc[r] = "idle" /\ pc'[r] = "done" /\ UNCHANGED <<receipts, ran>>
      /\ ret'[r].kind \in {"rejected", "bad_envelope"} /\ ~ran[r]
  BY ReturnFields
     DEF StepOf, Step, RejectEnvelope, TryAcquire, Goto, dbVars, historyVars, Consistent, TypeOK, Progress
<1>2. Phase(r) = "open" /\ Phase(r)' = "answered" /\ AuditAnswer(r)' = [kind |-> "refused"]
  BY <1>1 DEF Phase, AuditAnswer
<1>3. r \notin AuditLedger
  BY <1>1, NotInLedger DEF Consistent
<1>4. Audited!Answer(r, [kind |-> "refused"])
  BY <1>1, <1>2, OthersSame, SameTables, ReaderSeesAnswer
<1> QED
  BY <1>2, <1>3, <1>4 DEF Audited!AnswerRefused, Audited!Refused, Phase, AuditLedger

\* The answer leaves with the deferred release: the call's own receipt, the one
\* that was found under its key, or an error.
LEMMA ReleaseAnswers ==
  ASSUME Consistent, Consistent', AllTraced, NEW r \in Request, Release(r)
  PROVE  \/ Audited!AnswerOwn(r) \/ Audited!AnswerFailed(r)
         \/ \E d \in Request : Audited!AnswerReplay(r, d)
<1>1. /\ StepOf(r) /\ pc[r] = "release" /\ pc'[r] = "done" /\ UNCHANGED <<receipts, ran, ret>>
      /\ ret[r].kind \in {"receipt", "persist_failed", "build_failed", "find_failed"}
  BY DEF StepOf, Step, Release, Goto, dbVars, historyVars, Consistent, TypeOK, AllTraced, Traced
<1>2. Phase(r) \in {"open", "executed"} /\ Phase(r)' = "answered" /\ (~ran[r] => Phase(r) = "open")
  BY <1>1 DEF Phase
<1>3. ASSUME NEW a, AuditAnswer(r)' = a PROVE Audited!Answer(r, a)
  BY <1>1, <1>2, <1>3, OthersSame, SameTables, ReaderSeesAnswer
<1>4. CASE ret[r].kind # "receipt"
  <2>1. AuditAnswer(r)' = [kind |-> "failed"]
    BY <1>1, <1>4 DEF AuditAnswer
  <2> QED
    BY <1>3, <2>1 DEF Audited!AnswerFailed, Audited!Failed
<1>5. ASSUME ret[r].kind = "receipt", NEW rec \in receipts, rec.id = ret[r].rid
      PROVE  AuditAnswer(r)' = [kind |-> "receipt", of |-> rec.req]
  <2>1. (CHOOSE x \in receipts : x.id = rec.id) = rec
    BY Named DEF Consistent, ReceiptTruthful
  <2> QED
    BY <1>1, <1>5, <2>1 DEF AuditAnswer
<1>6. CASE ret[r].kind = "receipt" /\ lr[r].outcome # "hit"
  <2>1. PICK rec \in receipts : rec.id = ret[r].rid /\ rec.req = r
    BY <1>1, <1>6 DEF AllTraced, Traced, OwnReceipt
  <2>2. AuditAnswer(r)' = [kind |-> "receipt", of |-> r]
    BY <1>5, <1>6, <2>1
  <2>3. r \in AuditLedger
    BY <2>1 DEF AuditLedger
  <2> QED
    BY <1>3, <2>2, <2>3 DEF Audited!AnswerOwn, Audited!ReceiptOf, AuditLedger
<1>7. CASE ret[r].kind = "receipt" /\ lr[r].outcome = "hit"
  <2>1. PICK rec \in receipts : rec.id = ret[r].rid /\ KeyOf[rec.req] = KeyOf[r] /\ ran[rec.req]
    BY <1>1, <1>7 DEF AllTraced, Traced, ReplayOf
  <2>2. KeyOf[r] # NoKey /\ ~ran[r] /\ r \notin AuditLedger
    BY <1>7 DEF AllTraced, Traced, AuditLedger
  <2>3. AuditAnswer(r)' = [kind |-> "receipt", of |-> rec.req]
    BY <1>5, <1>7, <2>1
  <2>4. rec.req \in Request /\ rec.req \in AuditLedger \cap Executed
    BY <2>1 DEF AuditLedger, Executed, Consistent, TypeOK, Receipt
  <2>5. Audited!AnswerReplay(r, rec.req)
    BY <1>2, <1>3, <2>1, <2>2, <2>3, <2>4
       DEF Audited!AnswerReplay, Audited!ReceiptOf, Phase, AuditLedger, Executed
  <2> QED
    BY <2>4, <2>5
<1> QED
  BY <1>4, <1>6, <1>7

\* A crash abandons the calls that are inside, and no other.
LEMMA CrashAbandons ==
  ASSUME Consistent, Consistent', AllTraced, Crash,
         NEW S \in SUBSET Request, S = InFlight
  PROVE  Audited!Abandon(S)
<1>1. /\ UNCHANGED <<receipts, ran, ret>>
      /\ \A q \in Request : pc'[q] = IF q \in S THEN "lost" ELSE pc[q]
  BY DEF Crash, dbVars, InFlight
<1>2. \A q \in S : Phase(q) \in {"open", "executed"} /\ Phase(q)' = "abandoned"
  BY <1>1 DEF InFlight, Inside, Phase
<1>3. \A q \in Request : AuditAnswer(q)' = AuditAnswer(q)
  <2> SUFFICES ASSUME NEW q \in Request PROVE AuditAnswer(q)' = AuditAnswer(q)
    OBVIOUS
  <2>1. pc'[q] = "done" <=> pc[q] = "done"
    BY <1>1 DEF InFlight, Inside
  <2> QED
    BY <1>1, <2>1 DEF AuditAnswer
<1>4. \A q \in Request \ S : Phase(q)' = Phase(q)
  BY <1>1 DEF Phase
<1>5. AuditLedger' = AuditLedger /\ Executed' = Executed
  BY <1>1, SameTables
<1> QED
  BY <1>2, <1>3, <1>4, <1>5 DEF Audited!Abandon, Phase, AuditLedger, Executed

\* Every step of ExecuteService is a step of AuditedRuntime, or none.
LEMMA AuditStep == Consistent /\ Consistent' /\ AllTraced /\ [Next]_vars => [Audited!Next]_(Audited!vars)
<1> SUFFICES ASSUME Consistent, Consistent', AllTraced, [Next]_vars
             PROVE  Audited!Next \/ UNCHANGED Audited!vars
  OBVIOUS
<1>1. ASSUME NEW r \in Request, TryAcquire(r), pc'[r] # "done"
      PROVE  UNCHANGED Audited!vars
  <2>1. /\ StepOf(r) /\ pc[r] = "idle" /\ pc'[r] \in {"resolve", "lookup"} /\ UNCHANGED <<receipts, ran>>
    BY <1>1 DEF StepOf, Step, TryAcquire, Goto, dbVars, Consistent, TypeOK
  <2>2. SameToReader(r)
    BY <2>1 DEF SameToReader, Phase, AuditAnswer
  <2> QED
    BY <2>1, <2>2, OthersSame, SameTables, ReaderSeesNothing
<1>2. CASE (\E k \in Key : Expire(k)) \/ UNCHANGED vars
  <2>1. UNCHANGED <<pc, ran, ret, receipts>>
    BY <1>2 DEF Expire, vars, processVars, dbVars, historyVars
  <2>2. \A q \in Request : SameToReader(q)
    BY <2>1 DEF SameToReader, Phase, AuditAnswer
  <2> QED
    BY <2>1, <2>2, SameTables, ReaderSeesNothing
<1>3. CASE Crash
  <2>1. PICK S \in SUBSET Request : S = InFlight
    BY DEF InFlight
  <2>2. Audited!Abandon(S)
    BY <1>3, <2>1, CrashAbandons
  <2> QED
    BY <2>2 DEF Audited!Next
<1>4. ASSUME NEW r \in Request, StepOf(r)
      PROVE  Audited!Next \/ UNCHANGED Audited!vars
  BY <1>1, <1>4, HiddenStep, DispatchInvokes, PersistAudits, RefusalAnswers, ReleaseAnswers
     DEF StepOf, Step, Audited!Next
<1> QED
  BY <1>2, <1>3, <1>4 DEF Next, StepOf

\* The execution flow, with its failures and crashes, is an implementation of
\* the audit contract for every number of calls, keys and slots and every set of
\* faults: each of its steps is one step of AuditedRuntime, or none.
THEOREM ContractIsImplemented == Spec => ImplementsAuditedRuntime
<1>1. Init => Audited!Init
  BY DEF Init, Audited!Init, Audited!None, AuditAnswer
<1> QED
  BY <1>1, AuditStep, Consistency, CallsAreTraced, PTL DEF Spec, ImplementsAuditedRuntime, Audited!Spec
=============================================================================
