------------------------ MODULE ExecuteServiceProofs ------------------------
(***************************************************************************)
(* Invariants of ExecuteService, for every set of calls, every assignment  *)
(* of keys and capabilities, every limiter capacity and every fault set.   *)
(***************************************************************************)
EXTENDS ExecuteService, FiniteSetTheorems, TLAPS

(* Type correctness *)

LEMMA InitType == Init => TypeOK
  BY KeyAssumption, BoundAssumption
  DEF Init, TypeOK, PC, CtxErr, Raw, NoResult, NoReturn, ReturnKind, NoRow, Counter

USE DEF Goto, Bump, Return, TypeOK, processVars, dbVars, historyVars

\* The row a call finds under its key has the type of a row.
LEMMA KeyRowType ==
  ASSUME NEW r \in Request, TypeOK
  PROVE  KeyRow(r) \in [state : {"absent", "live", "expired"}, rid : Nat]
  BY KeyAssumption DEF KeyRow, NoRow

\* What Execute hands back has the type of a return value.
LEMMA ReturnType ==
  /\ \A kind \in ReturnKind, e \in CtxErr :
       ErrorReturned(kind, e) \in [kind : ReturnKind, rid : Nat, wraps : CtxErr]
  /\ \A id \in Nat : ReceiptReturned(id) \in [kind : ReturnKind, rid : Nat, wraps : CtxErr]
  BY DEF ErrorReturned, ReceiptReturned, NoReturn, ReturnKind, CtxErr

LEMMA TypeTryAcquire == ASSUME NEW r \in Request, TypeOK, TryAcquire(r) PROVE TypeOK'
  <1>1. KeyRow(r).state \in {"absent", "live", "expired"}
    BY KeyRowType
  <1>2. ErrorReturned("rejected", "none") \in [kind : ReturnKind, rid : Nat, wraps : CtxErr]
    BY ReturnType DEF ReturnKind, CtxErr
  <1>3. arrival' \in [Request -> {"none", "absent", "live", "expired"}]
    BY <1>1 DEF TryAcquire
  <1>4. CASE SlotFree
    BY <1>3, <1>4 DEF TryAcquire, PC
  <1>5. CASE ~SlotFree
    <2>1. ret' \in [Request -> [kind : ReturnKind, rid : Nat, wraps : CtxErr]]
      BY <1>2, <1>5 DEF TryAcquire
    <2> QED
      BY <1>3, <1>5, <2>1, SMTT(30) DEF TryAcquire, PC, Counter
  <1> QED
    BY <1>4, <1>5

LEMMA TypeRejectEnvelope == ASSUME NEW r \in Request, TypeOK, RejectEnvelope(r) PROVE TypeOK'
  BY DEF RejectEnvelope, ErrorReturned, NoReturn, ReturnKind, CtxErr, PC

LEMMA TypeLookup == ASSUME NEW r \in Request, TypeOK, Lookup(r) PROVE TypeOK'
  <1>1. PICK o \in LookupOutcome(r) :
          /\ lr' = [lr EXCEPT ![r] = [outcome |-> o,
                                      rid |-> IF o = "hit" THEN KeyRow(r).rid ELSE 0]]
          /\ Goto(r, CASE o = "hit" -> "replay" [] o = "panic" -> "structural" [] OTHER -> "resolve")
          /\ result' = IF o = "panic"
                       THEN [result EXCEPT ![r] = Failure("adapter_internal_error")]
                       ELSE result
    BY DEF Lookup
  <1>2. o \in {"hit", "miss", "error", "panic"}
    BY DEF LookupOutcome
  <1>3. KeyRow(r).rid \in Nat
    BY KeyRowType
  <1>4. Failure("adapter_internal_error") \in Result
    BY DEF Failure, Result, Status, ErrorClass
  <1>5. lr' \in [Request -> [outcome : {"none", "hit", "miss", "error", "panic"}, rid : Nat]]
    BY <1>1, <1>2, <1>3
  <1>6. pc' \in [Request -> PC]
    BY <1>1, <1>2 DEF PC
  <1>7. result' \in [Request -> Result \cup {NoResult}]
    BY <1>1, <1>4
  <1> QED
    BY <1>5, <1>6, <1>7 DEF Lookup

LEMMA TypeReplay == ASSUME NEW r \in Request, TypeOK, Replay(r) PROVE TypeOK'
  <1>1. PICK v \in [kind : ReturnKind, rid : Nat, wraps : CtxErr] : Return(r, v)
    BY ReturnType DEF Replay, Receipt, ReturnKind
  <1> QED
    BY <1>1 DEF Replay, PC

LEMMA TypeRejectResolution == ASSUME NEW r \in Request, TypeOK, RejectResolution(r) PROVE TypeOK'
  BY DEF RejectResolution, Rejections, PC, Failure, Result, Status, ErrorClass

LEMMA TypeDispatch == ASSUME NEW r \in Request, TypeOK, Dispatch(r) PROVE TypeOK'
  BY DEF Dispatch, PC

LEMMA TypeCallerDone == ASSUME NEW r \in Request, TypeOK, CallerDone(r) PROVE TypeOK'
  BY BoundAssumption DEF CallerDone, CtxErr

LEMMA TypeTimeout == ASSUME NEW r \in Request, TypeOK, Timeout(r) PROVE TypeOK'
  BY DEF Timeout, CtxErr

LEMMA TypeAdapterReturn == ASSUME NEW r \in Request, TypeOK, AdapterReturn(r) PROVE TypeOK'
  BY BoundAssumption DEF AdapterReturn, PC

LEMMA TypeBuildFails == ASSUME NEW r \in Request, TypeOK, BuildFails(r) PROVE TypeOK'
  BY DEF BuildFails, ErrorReturned, NoReturn, ReturnKind, CtxErr, PC

LEMMA TypeRecord == ASSUME NEW r \in Request, TypeOK, Record(r) PROVE TypeOK'
  <1>1. recorded' \in [Request -> {"none", "inserted", "conflict", "error"}]
    BY DEF Record
  <1>2. ret[r].rid \in Nat
    OBVIOUS
  <1>3. idem' \in [Key -> [state : {"absent", "live", "expired"}, rid : Nat]]
    <2>1. CASE KeyOf[r] = NoKey
      BY <2>1 DEF Record
    <2>2. CASE KeyOf[r] # NoKey
      <3>1. KeyOf[r] \in Key
        BY <2>2, KeyAssumption
      <3> QED
        BY <3>1, <1>2 DEF Record
    <2> QED
      BY <2>1, <2>2
  <1> QED
    BY <1>1, <1>3 DEF Record, PC, Counter

\* The receipt Save writes has the type of a receipt once a result is there.
LEMMA TypeInsert ==
  ASSUME NEW r \in Request, TypeOK, result[r] \in Result, Insert(r)
  PROVE  receipts' \subseteq Receipt
  BY DEF Insert, Receipt, Result

\* Classification always arrives at a result that the code can represent,
\* because an adapter that gave up did so on a context that had ended.
LEMMA TypeClassified ==
  ASSUME NEW r \in Request, TypeOK, Progress, pc[r] = "returned",
         NEW res \in ClassifiedResults(r)
  PROVE  res \in Result
  <1>1. raw[r] \in Raw /\ (raw[r] = "aborted" => execErr[r] # "none")
    BY DEF Progress
  <1>2. CASE execErr[r] # "none"
    BY <1>2 DEF ClassifiedResults, ctxOutcomeFor, Result, Status, ErrorClass
  <1>3. CASE execErr[r] = "none"
    BY <1>1, <1>3
    DEF ClassifiedResults, Failure, Normalize, Raw, Result, Status, ErrorClass
  <1> QED
    BY <1>2, <1>3

LEMMA TypeClassify == ASSUME NEW r \in Request, TypeOK, Progress, Classify(r) PROVE TypeOK'
  <1>1. PICK res \in ClassifiedResults(r) : result' = [result EXCEPT ![r] = res]
    BY DEF Classify
  <1>2. result' \in [Request -> Result \cup {NoResult}]
    BY <1>1, TypeClassified DEF Classify
  <1>3. count' \in [Counter -> Nat]
    BY DEF Classify, Counter
  <1> QED
    BY <1>2, <1>3 DEF Classify, PC

\* The two ways out of step 10: saved, with the receipt as the answer, or
\* failed, with or without the row in the table.
LEMMA PersistCases ==
  ASSUME NEW r \in Request, Persist(r)
  PROVE  /\ nextID' = nextID + 1 /\ pc[r] = "persist"
         /\ UNCHANGED <<slots, callerErr, execErr, lr, raw, result, active, idem, historyVars>>
         /\ \/ /\ Insert(r) /\ Goto(r, "record")
               /\ ret' = [ret EXCEPT ![r] = ReceiptReturned(nextID)]
               /\ count' = count
            \/ /\ receipts' = receipts \/ Insert(r)
               /\ Return(r, ErrorReturned("persist_failed", "none")) /\ Bump("persist_failures")
  BY DEF Persist, Save, SaveOutcome, SaveFailed

\* The same for persistStructural, on the caller's context.
LEMMA PersistStructuralCases ==
  ASSUME NEW r \in Request, PersistStructural(r)
  PROVE  /\ nextID' = nextID + 1 /\ pc[r] = "structural"
         /\ UNCHANGED <<slots, callerErr, execErr, lr, raw, result, active, idem, historyVars>>
         /\ \/ Insert(r) /\ Return(r, ReceiptReturned(nextID)) /\ Bump("executions")
            \/ /\ receipts' = receipts \/ Insert(r)
               /\ \E w \in {callerErr[r], "none"} : Return(r, ErrorReturned("persist_failed", w))
               /\ Bump("persist_failures")
  BY DEF PersistStructural, Save, SaveOutcome, SaveFailed

LEMMA TypePersistStructural ==
  ASSUME NEW r \in Request, TypeOK, Progress, PersistStructural(r) PROVE TypeOK'
  <1>1. result[r] \in Result
    BY DEF Progress, PersistStructural
  <1>2. receipts' \subseteq Receipt
    BY <1>1, PersistStructuralCases, TypeInsert, ZenonT(60)
  <1>3. /\ ReceiptReturned(nextID) \in [kind : ReturnKind, rid : Nat, wraps : CtxErr]
        /\ \A w \in {callerErr[r], "none"} :
             ErrorReturned("persist_failed", w) \in [kind : ReturnKind, rid : Nat, wraps : CtxErr]
    <2>1. "persist_failed" \in ReturnKind /\ {callerErr[r], "none"} \subseteq CtxErr
      BY DEF ReturnKind, CtxErr
    <2> QED
      BY <2>1, ReturnType
  <1>4. ret' \in [Request -> [kind : ReturnKind, rid : Nat, wraps : CtxErr]]
    <2>1. PICK v \in [kind : ReturnKind, rid : Nat, wraps : CtxErr] : ret' = [ret EXCEPT ![r] = v]
      BY <1>3, PersistStructuralCases
    <2> QED
      BY <2>1
  <1>5. count' \in [Counter -> Nat]
    BY PersistStructuralCases DEF Counter
  <1>6. pc' \in [Request -> PC]
    BY PersistStructuralCases DEF PC
  <1> QED
    BY <1>2, <1>4, <1>5, <1>6, PersistStructuralCases

LEMMA TypePersist ==
  ASSUME NEW r \in Request, TypeOK, Progress, Persist(r) PROVE TypeOK'
  <1>1. result[r] \in Result
    BY DEF Progress, Persist
  <1>2. receipts' \subseteq Receipt
    BY <1>1, PersistCases, TypeInsert
  <1>3. /\ ReceiptReturned(nextID) \in [kind : ReturnKind, rid : Nat, wraps : CtxErr]
        /\ ErrorReturned("persist_failed", "none") \in [kind : ReturnKind, rid : Nat, wraps : CtxErr]
    BY ReturnType DEF ReturnKind, CtxErr
  <1>4. ret' \in [Request -> [kind : ReturnKind, rid : Nat, wraps : CtxErr]]
    <2>1. PICK v \in [kind : ReturnKind, rid : Nat, wraps : CtxErr] : ret' = [ret EXCEPT ![r] = v]
      BY <1>3, PersistCases
    <2> QED
      BY <2>1
  <1>5. count' \in [Counter -> Nat]
    BY PersistCases DEF Counter
  <1>6. pc' \in [Request -> PC]
    BY PersistCases, ZenonT(60) DEF PC
  <1> QED
    BY <1>2, <1>4, <1>5, <1>6, PersistCases

\* Each call inside holds a slot, and a dispatched one counts in the gauge:
\* the deferred calls find both above zero.
LEMMA HeldByCaller ==
  ASSUME NEW r \in Request, TypeOK, LimiterExact, pc[r] \in Inside
  PROVE  /\ IsFiniteSet(InFlight) /\ IsFiniteSet(Dispatched)
         /\ slots >= 1 /\ (ran[r] => active >= 1)
  <1>1. IsFiniteSet(InFlight) /\ IsFiniteSet(Dispatched)
    <2>1. InFlight \in SUBSET Request /\ Dispatched \in SUBSET Request
      BY DEF InFlight, Dispatched
    <2>2. \A S \in SUBSET Request : IsFiniteSet(S)
      BY FS_Subset, BoundAssumption
    <2> QED
      BY <2>1, <2>2
  <1>2. r \in InFlight /\ (ran[r] => r \in Dispatched)
    BY DEF InFlight, Dispatched
  <1>3. Cardinality(InFlight) # 0 /\ (ran[r] => Cardinality(Dispatched) # 0)
    BY <1>1, <1>2, FS_EmptySet
  <1> QED
    BY <1>1, <1>3 DEF LimiterExact

LEMMA TypeRelease == ASSUME NEW r \in Request, TypeOK, LimiterExact, Release(r) PROVE TypeOK'
  <1>1. slots >= 1 /\ (ran[r] => active >= 1)
    BY HeldByCaller DEF Release, Inside, PC
  <1>2. slots' \in Nat /\ active' \in Nat
    BY <1>1 DEF Release
  <1> QED
    BY <1>2 DEF Release, PC

LEMMA TypeExpire == ASSUME NEW k \in Key, TypeOK, Expire(k) PROVE TypeOK'
  BY BoundAssumption, SMTT(30) DEF Expire

LEMMA TypeCrash == ASSUME TypeOK, Crash PROVE TypeOK'
  BY BoundAssumption DEF Crash, PC, Counter

\* Every step keeps the types.
LEMMA TypeStep ==
  ASSUME TypeOK, LimiterExact, Progress, [Next]_vars
  PROVE  TypeOK'
  <1>1. ASSUME NEW r \in Request, Step(r) PROVE TypeOK'
    BY <1>1, TypeTryAcquire, TypeLookup, TypeReplay, TypeRejectResolution, TypeDispatch,
       TypeClassify, TypeBuildFails, TypePersistStructural, TypePersist, TypeRecord, TypeRelease
    DEF Step
  <1>2. ASSUME NEW r \in Request,
               RejectEnvelope(r) \/ AdapterReturn(r) \/ CallerDone(r) \/ Timeout(r)
        PROVE  TypeOK'
    BY <1>2, TypeRejectEnvelope, TypeAdapterReturn, TypeCallerDone, TypeTimeout
  <1>3. CASE UNCHANGED vars
    BY <1>3 DEF vars
  <1> QED
    BY <1>1, <1>2, <1>3, TypeExpire, TypeCrash DEF Next

-----------------------------------------------------------------------------
(* The limiter: one slot per call inside, one unit of the gauge per dispatch *)

LEMMA FiniteCalls == \A S \in SUBSET Request : IsFiniteSet(S) /\ Cardinality(S) \in Nat
  BY FS_Subset, FS_CardinalityType, BoundAssumption

\* A step that moves calls about inside Execute keeps the count.
LEMMA LimiterFrame ==
  ASSUME LimiterExact, slots' = slots, active' = active, ran' = ran,
         \A q \in Request : pc'[q] \in Inside <=> pc[q] \in Inside
  PROVE  LimiterExact'
  <1>1. InFlight' = InFlight
    BY DEF InFlight
  <1>2. Dispatched' = Dispatched
    BY <1>1 DEF Dispatched
  <1> QED
    BY <1>1, <1>2 DEF LimiterExact

LEMMA LimiterTryAcquire ==
  ASSUME NEW r \in Request, TypeOK, LimiterExact, Progress, TryAcquire(r)
  PROVE  LimiterExact'
  <1>1. CASE ~SlotFree
    <2>1. slots' = slots /\ active' = active /\ ran' = ran /\ pc' = [pc EXCEPT ![r] = "done"]
      BY <1>1 DEF TryAcquire
    <2>2. pc[r] = "idle"
      BY DEF TryAcquire
    <2> QED
      BY <2>1, <2>2, LimiterFrame DEF Inside, PC
  <1>2. CASE SlotFree
    <2>1. /\ slots' = slots + 1 /\ active' = active /\ ran' = ran
          /\ pc[r] = "idle" /\ ~ran[r]
          /\ \E l \in {"resolve", "lookup"} : pc' = [pc EXCEPT ![r] = l]
      BY <1>2 DEF TryAcquire, Progress
    <2>2. InFlight' = InFlight \cup {r} /\ r \notin InFlight
      BY <2>1 DEF InFlight, Inside, PC
    <2>3. Dispatched' = Dispatched
      BY <2>1, <2>2 DEF Dispatched
    <2>4. IsFiniteSet(InFlight)
      BY FiniteCalls DEF InFlight
    <2>5. Cardinality(InFlight') = Cardinality(InFlight) + 1
      BY <2>2, <2>4, FS_AddElement
    <2> QED
      BY <1>2, <2>1, <2>3, <2>5, BoundAssumption DEF LimiterExact, SlotFree
  <1> QED
    BY <1>1, <1>2

LEMMA LimiterRelease ==
  ASSUME NEW r \in Request, TypeOK, LimiterExact, Release(r)
  PROVE  LimiterExact'
  <1>1. /\ slots' = slots - 1 /\ ran' = ran /\ pc[r] = "release"
        /\ pc' = [pc EXCEPT ![r] = "done"]
        /\ active' = IF ran[r] THEN active - 1 ELSE active
    BY DEF Release
  <1>2. InFlight' = InFlight \ {r} /\ r \in InFlight
    BY <1>1 DEF InFlight, Inside, PC
  <1>3. Dispatched' = Dispatched \ {r} /\ (r \in Dispatched <=> ran[r])
    BY <1>1, <1>2 DEF Dispatched
  <1>4. IsFiniteSet(InFlight) /\ IsFiniteSet(Dispatched)
    BY FiniteCalls DEF InFlight, Dispatched
  <1>5. Cardinality(InFlight') = Cardinality(InFlight) - 1
    BY <1>2, <1>4, FS_RemoveElement
  <1>6. Cardinality(Dispatched') = IF ran[r] THEN Cardinality(Dispatched) - 1
                                             ELSE Cardinality(Dispatched)
    BY <1>3, <1>4, FS_RemoveElement
  <1> QED
    BY <1>1, <1>5, <1>6, BoundAssumption DEF LimiterExact

LEMMA LimiterDispatch ==
  ASSUME NEW r \in Request, TypeOK, LimiterExact, Progress, Dispatch(r)
  PROVE  LimiterExact'
  <1>1. /\ slots' = slots /\ active' = active + 1 /\ ran' = [ran EXCEPT ![r] = TRUE]
        /\ pc[r] = "resolve" /\ ~ran[r] /\ pc' = [pc EXCEPT ![r] = "running"]
    BY DEF Dispatch, Progress
  <1>2. InFlight' = InFlight /\ r \in InFlight
    BY <1>1 DEF InFlight, Inside, PC
  <1>3. Dispatched' = Dispatched \cup {r} /\ r \notin Dispatched
    BY <1>1, <1>2 DEF Dispatched
  <1>4. IsFiniteSet(Dispatched)
    BY FiniteCalls DEF InFlight, Dispatched
  <1>5. Cardinality(Dispatched') = Cardinality(Dispatched) + 1
    BY <1>3, <1>4, FS_AddElement
  <1> QED
    BY <1>1, <1>2, <1>5 DEF LimiterExact

LEMMA LimiterCrash ==
  ASSUME TypeOK, Crash
  PROVE  LimiterExact'
  <1>1. InFlight' = {}
    BY DEF Crash, InFlight, Inside, PC
  <1>2. Dispatched' = {}
    BY <1>1 DEF Dispatched
  <1> QED
    BY <1>1, <1>2, FS_EmptySet, BoundAssumption DEF Crash, LimiterExact

\* Every step keeps the limiter exact.
LEMMA LimiterStep ==
  ASSUME TypeOK, LimiterExact, Progress, [Next]_vars
  PROVE  LimiterExact'
  <1>1. ASSUME NEW r \in Request, Step(r) PROVE LimiterExact'
    <2>1. CASE Lookup(r)
      <3>1. slots' = slots /\ active' = active /\ ran' = ran /\ pc[r] = "lookup"
        BY <2>1 DEF Lookup
      <3>2. \E l \in {"replay", "structural", "resolve"} : pc' = [pc EXCEPT ![r] = l]
        BY <2>1 DEF Lookup
      <3> QED
        BY <3>1, <3>2, LimiterFrame DEF Inside, PC
    <2>2. CASE Replay(r)
      BY <2>2, LimiterFrame DEF Replay, Inside, PC
    <2>3. CASE RejectResolution(r)
      BY <2>3, LimiterFrame DEF RejectResolution, Inside, PC
    <2>4. CASE Classify(r)
      BY <2>4, LimiterFrame DEF Classify, Inside, PC
    <2>5. CASE BuildFails(r)
      BY <2>5, LimiterFrame DEF BuildFails, Inside, PC
    <2>6. CASE PersistStructural(r)
      BY <2>6, PersistStructuralCases, LimiterFrame DEF Inside, PC
    <2>7. CASE Persist(r)
      BY <2>7, PersistCases, LimiterFrame DEF Inside, PC
    <2>8. CASE Record(r)
      BY <2>8, LimiterFrame DEF Record, Inside, PC
    <2> QED
      BY <1>1, <2>1, <2>2, <2>3, <2>4, <2>5, <2>6, <2>7, <2>8,
         LimiterTryAcquire, LimiterDispatch, LimiterRelease DEF Step
  <1>2. ASSUME NEW r \in Request, RejectEnvelope(r) PROVE LimiterExact'
    BY <1>2, LimiterFrame DEF RejectEnvelope, Inside, PC
  <1>3. ASSUME NEW r \in Request, AdapterReturn(r) PROVE LimiterExact'
    BY <1>3, LimiterFrame DEF AdapterReturn, Inside, PC
  <1>4. ASSUME NEW r \in Request, CallerDone(r) \/ Timeout(r) PROVE LimiterExact'
    BY <1>4, LimiterFrame DEF CallerDone, Timeout
  <1>5. ASSUME NEW k \in Key, Expire(k) PROVE LimiterExact'
    BY <1>5, LimiterFrame DEF Expire
  <1>6. CASE UNCHANGED vars
    BY <1>6, LimiterFrame DEF vars
  <1> QED
    BY <1>1, <1>2, <1>3, <1>4, <1>5, <1>6, LimiterCrash DEF Next

-----------------------------------------------------------------------------
(* Where a call is tells what has been done for it *)

LEMMA ClassifiedTruthful ==
  ASSUME NEW r \in Request, TypeOK, Progress, pc[r] = "returned",
         NEW res \in ClassifiedResults(r)
  PROVE  Truthful(r, res)
  <1>1. execErr[r] \in {"none", "canceled", "deadline"}
    BY DEF CtxErr
  <1>2. CASE execErr[r] # "none"
    BY <1>1, <1>2 DEF ClassifiedResults, ctxOutcomeFor, Truthful
  <1>3. CASE execErr[r] = "none"
    BY <1>3 DEF ClassifiedResults, Failure, Normalize, Truthful, Progress, Raw
  <1> QED
    BY <1>2, <1>3

\* Every step keeps a call's place and its history in agreement.
LEMMA ProgressStep ==
  ASSUME TypeOK, Progress, [Next]_vars
  PROVE  Progress'
  <1>1. ASSUME NEW r \in Request, TryAcquire(r) PROVE Progress'
    BY <1>1 DEF TryAcquire, Progress, Truthful
  <1>2. ASSUME NEW r \in Request, Lookup(r) PROVE Progress'
    BY <1>2 DEF Lookup, LookupOutcome, Progress, Truthful, Failure, Result, Status, ErrorClass
  <1>3. ASSUME NEW r \in Request, Replay(r) PROVE Progress'
    BY <1>3 DEF Replay, Progress, Truthful
  <1>4. ASSUME NEW r \in Request, RejectResolution(r) PROVE Progress'
    BY <1>4 DEF RejectResolution, Rejections, Progress, Truthful, Failure, Result, Status, ErrorClass
  <1>5. ASSUME NEW r \in Request, Dispatch(r) PROVE Progress'
    BY <1>5 DEF Dispatch, Progress, Truthful
  <1>6. ASSUME NEW r \in Request, Classify(r) PROVE Progress'
    <2>1. PICK res \in ClassifiedResults(r) : result' = [result EXCEPT ![r] = res]
      BY <1>6 DEF Classify
    <2>2. res \in Result /\ Truthful(r, res)
      BY <1>6, TypeClassified, ClassifiedTruthful DEF Classify
    <2> QED
      BY <1>6, <2>1, <2>2 DEF Classify, Progress, Truthful
  <1>7. ASSUME NEW r \in Request, BuildFails(r) PROVE Progress'
    BY <1>7 DEF BuildFails, Progress, Truthful
  <1>8. ASSUME NEW r \in Request, PersistStructural(r) PROVE Progress'
    BY <1>8, PersistStructuralCases DEF Progress, Truthful
  <1>9. ASSUME NEW r \in Request, Persist(r) PROVE Progress'
    BY <1>9, PersistCases DEF Progress, Truthful
  <1>10. ASSUME NEW r \in Request, Record(r) \/ Release(r) PROVE Progress'
    BY <1>10 DEF Record, Release, Progress, Truthful
  <1>11. ASSUME NEW r \in Request, RejectEnvelope(r) PROVE Progress'
    BY <1>11 DEF RejectEnvelope, Progress, Truthful
  <1>12. ASSUME NEW r \in Request, AdapterReturn(r) PROVE Progress'
    BY <1>12, BoundAssumption DEF AdapterReturn, Progress, Truthful
  <1>13. ASSUME NEW r \in Request, CallerDone(r) PROVE Progress'
    BY <1>13, BoundAssumption DEF CallerDone, ExecCtxOpen, Progress, Truthful
  <1>14. ASSUME NEW r \in Request, Timeout(r) PROVE Progress'
    BY <1>14 DEF Timeout, ExecCtxOpen, Progress, Truthful
  <1>15. ASSUME NEW k \in Key, Expire(k) PROVE Progress'
    BY <1>15 DEF Expire, Progress, Truthful
  <1>16. CASE Crash
    BY <1>16 DEF Crash, Progress, Truthful, Inside, PC
  <1>17. CASE UNCHANGED vars
    BY <1>17 DEF vars, Progress, Truthful
  <1> QED
    BY <1>1, <1>2, <1>3, <1>4, <1>5, <1>6, <1>7, <1>8, <1>9, <1>10, <1>11, <1>12, <1>13,
       <1>14, <1>15, <1>16, <1>17 DEF Next, Step

-----------------------------------------------------------------------------
(* The receipts table *)

\* Save under a fresh id: what the table holds afterwards.
LEMMA InsertKeeps ==
  ASSUME NEW r \in Request, TypeOK, Ledger, ReceiptTruthful, Insert(r),
         nextID' = nextID + 1, Truthful(r, result[r]), pc[r] \in {"structural", "persist"},
         pc' = [pc EXCEPT ![r] = "record"] \/ pc' = [pc EXCEPT ![r] = "release"],
         UNCHANGED <<raw, execErr, ran>>
  PROVE  Ledger' /\ ReceiptTruthful'
  <1> DEFINE new == [id |-> nextID, req |-> r, status |-> result[r].status, class |-> result[r].class]
  <1>1. receipts' = receipts \cup {new}
    BY DEF Insert
  <1>2. \A rec \in receipts : rec.id < nextID /\ rec.id \in Nat /\ rec.req # r /\ rec.req \in Request
    BY DEF Ledger, Receipt
  <1>3. Ledger'
    <2>1. \A rec \in receipts : rec.id < nextID' /\ pc'[rec.req] = pc[rec.req]
      BY <1>2
    <2>2. new.id < nextID' /\ pc'[new.req] \in {"record", "release"}
      OBVIOUS
    <2> QED
      BY <1>1, <2>1, <2>2 DEF Ledger
  <1>4. \A rec \in receipts' : Truthful(rec.req, rec)'
    BY <1>1, <1>2 DEF ReceiptTruthful, Truthful
  <1>5. \A rec, other \in receipts' : other.id = rec.id \/ other.req = rec.req => other = rec
    BY <1>1, <1>2 DEF ReceiptTruthful
  <1> QED
    BY <1>3, <1>4, <1>5 DEF ReceiptTruthful

\* A step that saves nothing keeps the table: it only changes what a receipt
\* speaks of for calls that have none yet.
LEMMA TableFrame ==
  ASSUME TypeOK, Ledger, ReceiptTruthful, UNCHANGED receipts, nextID' >= nextID, nextID' \in Nat,
         \A q \in Request : pc[q] \in {"record", "release", "done", "lost"} =>
           /\ pc'[q] \in {"record", "release", "done", "lost"}
           /\ raw'[q] = raw[q] /\ execErr'[q] = execErr[q] /\ ran'[q] = ran[q]
  PROVE  Ledger' /\ ReceiptTruthful'
  <1>1. \A rec \in receipts : rec.req \in Request /\ rec.id \in Nat
    BY DEF Receipt
  <1>2. Ledger'
    BY <1>1 DEF Ledger
  <1>3. \A rec \in receipts' : Truthful(rec.req, rec)'
    BY <1>1 DEF Ledger, ReceiptTruthful, Truthful
  <1> QED
    BY <1>2, <1>3 DEF ReceiptTruthful

LEMMA TableStep ==
  ASSUME TypeOK, Progress, Ledger, ReceiptTruthful, [Next]_vars
  PROVE  Ledger' /\ ReceiptTruthful'
  <1>1. ASSUME NEW r \in Request, TryAcquire(r) PROVE Ledger' /\ ReceiptTruthful'
    BY <1>1, TableFrame DEF TryAcquire
  <1>2. ASSUME NEW r \in Request, Lookup(r) PROVE Ledger' /\ ReceiptTruthful'
    BY <1>2, TableFrame DEF Lookup
  <1>3. ASSUME NEW r \in Request, Replay(r) PROVE Ledger' /\ ReceiptTruthful'
    BY <1>3, TableFrame DEF Replay
  <1>4. ASSUME NEW r \in Request, RejectResolution(r) PROVE Ledger' /\ ReceiptTruthful'
    BY <1>4, TableFrame DEF RejectResolution
  <1>5. ASSUME NEW r \in Request, Dispatch(r) PROVE Ledger' /\ ReceiptTruthful'
    BY <1>5, TableFrame DEF Dispatch
  <1>6. ASSUME NEW r \in Request, Classify(r) PROVE Ledger' /\ ReceiptTruthful'
    BY <1>6, TableFrame DEF Classify
  <1>7. ASSUME NEW r \in Request, BuildFails(r) PROVE Ledger' /\ ReceiptTruthful'
    BY <1>7, TableFrame DEF BuildFails
  <1>8. ASSUME NEW r \in Request, PersistStructural(r) PROVE Ledger' /\ ReceiptTruthful'
    <2>1. /\ nextID' = nextID + 1 /\ pc[r] = "structural" /\ pc' = [pc EXCEPT ![r] = "release"]
          /\ UNCHANGED <<raw, execErr, ran>> /\ (receipts' = receipts \/ Insert(r))
      BY <1>8, PersistStructuralCases
    <2>2. Truthful(r, result[r])
      BY <2>1 DEF Progress
    <2>3. CASE Insert(r)
      BY <2>1, <2>2, <2>3, InsertKeeps
    <2>4. CASE receipts' = receipts
      BY <2>1, <2>4, TableFrame
    <2> QED
      BY <2>1, <2>3, <2>4
  <1>9. ASSUME NEW r \in Request, Persist(r) PROVE Ledger' /\ ReceiptTruthful'
    <2>1. /\ nextID' = nextID + 1 /\ pc[r] = "persist"
          /\ pc' = [pc EXCEPT ![r] = "record"] \/ pc' = [pc EXCEPT ![r] = "release"]
          /\ UNCHANGED <<raw, execErr, ran>> /\ (receipts' = receipts \/ Insert(r))
      BY <1>9, PersistCases
    <2>2. Truthful(r, result[r])
      BY <2>1 DEF Progress
    <2>3. CASE Insert(r)
      BY <2>1, <2>2, <2>3, InsertKeeps
    <2>4. CASE receipts' = receipts
      BY <2>1, <2>4, TableFrame
    <2> QED
      BY <2>1, <2>3, <2>4
  <1>10. ASSUME NEW r \in Request, Record(r) \/ Release(r) PROVE Ledger' /\ ReceiptTruthful'
    BY <1>10, TableFrame DEF Record, Release
  <1>11. ASSUME NEW r \in Request, RejectEnvelope(r) PROVE Ledger' /\ ReceiptTruthful'
    BY <1>11, TableFrame DEF RejectEnvelope
  <1>12. ASSUME NEW r \in Request, AdapterReturn(r) PROVE Ledger' /\ ReceiptTruthful'
    BY <1>12, TableFrame DEF AdapterReturn
  <1>13. ASSUME NEW r \in Request, CallerDone(r) PROVE Ledger' /\ ReceiptTruthful'
    BY <1>13, TableFrame DEF CallerDone, ExecCtxOpen
  <1>14. ASSUME NEW r \in Request, Timeout(r) PROVE Ledger' /\ ReceiptTruthful'
    BY <1>14, TableFrame DEF Timeout, ExecCtxOpen
  <1>15. ASSUME NEW k \in Key, Expire(k) PROVE Ledger' /\ ReceiptTruthful'
    BY <1>15, TableFrame DEF Expire
  <1>16. CASE Crash
    BY <1>16, TableFrame DEF Crash, Inside, PC
  <1>17. CASE UNCHANGED vars
    BY <1>17, TableFrame DEF vars
  <1> QED
    BY <1>1, <1>2, <1>3, <1>4, <1>5, <1>6, <1>7, <1>8, <1>9, <1>10, <1>11, <1>12, <1>13,
       <1>14, <1>15, <1>16, <1>17 DEF Next, Step

-----------------------------------------------------------------------------
(* The idempotency table *)

\* Receipts are never removed or changed, and only Record and Expire write keys.
LEMMA KeyRowFrame ==
  ASSUME TypeOK, KeyRowSound, receipts \subseteq receipts', idem' = idem,
         \A q \in Request : ran[q] => ran'[q]
  PROVE  KeyRowSound'
  <1>1. \A rec \in receipts : rec.req \in Request
    BY DEF Receipt
  <1> QED
    BY <1>1 DEF KeyRowSound

LEMMA KeyRowRecord ==
  ASSUME NEW r \in Request, TypeOK, Progress, Answers, KeyRowSound, Record(r)
  PROVE  KeyRowSound'
  <1>1. PICK rec \in receipts : rec.id = ret[r].rid /\ rec.req = r
    BY DEF Answers, Supported, Record
  <1>2. ran[r] /\ UNCHANGED <<receipts, ran>>
    BY DEF Progress, Record
  <1>3. \/ idem' = idem
        \/ /\ KeyOf[r] \in Key
           /\ idem' = [idem EXCEPT ![KeyOf[r]] = [state |-> "live", rid |-> ret[r].rid]]
    BY KeyAssumption DEF Record
  <1>4. CASE idem' = idem
    BY <1>2, <1>4, KeyRowFrame
  <1>5. CASE KeyOf[r] \in Key /\ idem' = [idem EXCEPT ![KeyOf[r]] = [state |-> "live", rid |-> ret[r].rid]]
    <2> SUFFICES ASSUME NEW k \in Key, idem'[k].state # "absent"
                 PROVE  \E s \in receipts : s.id = idem'[k].rid /\ KeyOf[s.req] = k /\ ran[s.req]
      BY <1>2 DEF KeyRowSound
    <2>1. CASE k = KeyOf[r]
      BY <1>1, <1>2, <1>5, <2>1
    <2>2. CASE k # KeyOf[r]
      BY <1>5, <2>2 DEF KeyRowSound
    <2> QED
      BY <2>1, <2>2
  <1> QED
    BY <1>3, <1>4, <1>5

LEMMA KeyRowStep ==
  ASSUME TypeOK, Progress, Answers, KeyRowSound, [Next]_vars
  PROVE  KeyRowSound'
  <1>1. ASSUME NEW r \in Request,
               \/ TryAcquire(r) \/ Lookup(r) \/ Replay(r) \/ RejectResolution(r) \/ Dispatch(r)
               \/ Classify(r) \/ BuildFails(r) \/ Release(r) \/ RejectEnvelope(r)
               \/ AdapterReturn(r) \/ CallerDone(r) \/ Timeout(r)
        PROVE  KeyRowSound'
    BY <1>1, KeyRowFrame
    DEF TryAcquire, Lookup, Replay, RejectResolution, Dispatch, Classify, BuildFails, Release,
        RejectEnvelope, AdapterReturn, CallerDone, Timeout
  <1>2. ASSUME NEW r \in Request, PersistStructural(r) PROVE KeyRowSound'
    BY <1>2, PersistStructuralCases, KeyRowFrame DEF Insert
  <1>3. ASSUME NEW r \in Request, Persist(r) PROVE KeyRowSound'
    BY <1>3, PersistCases, KeyRowFrame DEF Insert
  <1>4. ASSUME NEW k \in Key, Expire(k) PROVE KeyRowSound'
    <2>1. /\ UNCHANGED <<receipts, ran>> /\ idem[k].state = "live"
          /\ \A j \in Key : idem'[j].rid = idem[j].rid /\ (j # k => idem'[j].state = idem[j].state)
      BY <1>4 DEF Expire
    <2> QED
      BY <2>1 DEF KeyRowSound
  <1>5. CASE Crash
    BY <1>5, KeyRowFrame DEF Crash
  <1>6. CASE UNCHANGED vars
    BY <1>6, KeyRowFrame DEF vars
  <1> QED
    BY <1>1, <1>2, <1>3, <1>4, <1>5, <1>6, KeyRowRecord DEF Next, Step

\* A key that is taken stays taken, and an expired one never comes back to life.
LEMMA KeyRowMonotone ==
  ASSUME NEW r \in Request, TypeOK, [Next]_vars
  PROVE  /\ KeyRow(r).state # "absent" => KeyRow(r)'.state # "absent" /\ KeyRow(r)'.rid = KeyRow(r).rid
         /\ KeyRow(r).state # "absent" /\ KeyRow(r)'.state = "live" => KeyRow(r).state = "live"
  <1>1. CASE idem' = idem
    BY <1>1 DEF KeyRow, NoRow
  <1>2. ASSUME NEW k \in Key, Expire(k)
        PROVE  /\ KeyRow(r).state # "absent" => KeyRow(r)'.state # "absent" /\ KeyRow(r)'.rid = KeyRow(r).rid
               /\ KeyRow(r).state # "absent" /\ KeyRow(r)'.state = "live" => KeyRow(r).state = "live"
    BY <1>2, KeyAssumption DEF Expire, KeyRow, NoRow
  <1>3. ASSUME NEW q \in Request, Record(q), idem' # idem
        PROVE  /\ KeyRow(r).state # "absent" => KeyRow(r)'.state # "absent" /\ KeyRow(r)'.rid = KeyRow(r).rid
               /\ KeyRow(r).state # "absent" /\ KeyRow(r)'.state = "live" => KeyRow(r).state = "live"
    <2>1. /\ KeyRow(q).state = "absent" /\ KeyOf[q] # NoKey
          /\ idem' = [idem EXCEPT ![KeyOf[q]] = [state |-> "live", rid |-> ret[q].rid]]
      BY <1>3 DEF Record
    <2> QED
      BY <2>1, KeyAssumption DEF KeyRow, NoRow
  <1>4. \/ idem' = idem \/ (\E k \in Key : Expire(k)) \/ (\E q \in Request : Record(q))
    BY PersistStructuralCases, PersistCases
    DEF Next, Step, TryAcquire, Lookup, Replay, RejectResolution, Dispatch, Classify, BuildFails,
        Release, RejectEnvelope, AdapterReturn, CallerDone, Timeout, Crash, vars
  <1> QED
    BY <1>1, <1>2, <1>3, <1>4

LEMMA ReplaysStep ==
  ASSUME TypeOK, Progress, Replays, [Next]_vars
  PROVE  Replays'
  <1> SUFFICES ASSUME NEW q \in Request, arrival'[q] = "live"
               PROVE  /\ KeyRow(q)'.state # "absent"
                      /\ KeyRow(q)'.state = "live" /\ lr'[q].outcome # "error" =>
                           pc'[q] # "resolve" /\ ~ran'[q]
    BY DEF Replays
  <1>1. ASSUME arrival[q] = "live", pc'[q] = "resolve" => pc[q] = "resolve",
               ran'[q] => ran[q] \/ pc[q] = "resolve", lr'[q].outcome = lr[q].outcome
        PROVE  /\ KeyRow(q)'.state # "absent"
               /\ KeyRow(q)'.state = "live" /\ lr'[q].outcome # "error" =>
                    pc'[q] # "resolve" /\ ~ran'[q]
    BY <1>1, KeyRowMonotone DEF Replays
  <1> DEFINE Goal == /\ KeyRow(q)'.state # "absent"
                     /\ KeyRow(q)'.state = "live" /\ lr'[q].outcome # "error" =>
                          pc'[q] # "resolve" /\ ~ran'[q]
  <1>2. ASSUME NEW r \in Request, TryAcquire(r) PROVE Goal
    <2>1. CASE r # q
      BY <1>1, <1>2, <2>1 DEF TryAcquire
    <2>2. CASE r = q
      <3>1. KeyRow(q)' = KeyRow(q) /\ KeyRow(q).state = "live" /\ ran'[q] = ran[q] /\ ~ran[q]
        BY <1>2, <2>2 DEF TryAcquire, KeyRow, Progress
      <3>2. KeyOf[q] # NoKey
        BY <3>1 DEF KeyRow, NoRow
      <3>3. pc'[q] # "resolve"
        BY <1>2, <2>2, <3>2 DEF TryAcquire
      <3> QED
        BY <3>1, <3>3
    <2> QED
      BY <2>1, <2>2
  <1>3. ASSUME NEW r \in Request, Lookup(r) PROVE Goal
    <2>1. CASE r # q
      BY <1>1, <1>3, <2>1 DEF Lookup
    <2>2. CASE r = q
      <3>1. arrival[q] = "live" /\ ran'[q] = ran[q] /\ ~ran[q] /\ KeyRow(q)' = KeyRow(q)
        BY <1>3, <2>2 DEF Lookup, Progress, KeyRow
      <3>2. KeyRow(q).state # "absent"
        BY <3>1 DEF Replays
      <3>3. PICK o \in LookupOutcome(q) :
              /\ lr'[q].outcome = o
              /\ pc'[q] = CASE o = "hit" -> "replay" [] o = "panic" -> "structural" [] OTHER -> "resolve"
        BY <1>3, <2>2 DEF Lookup
      <3>4. KeyRow(q).state = "live" => o \in {"hit", "error", "panic"}
        BY <3>3 DEF LookupOutcome
      <3> QED
        BY <3>1, <3>2, <3>3, <3>4
    <2> QED
      BY <2>1, <2>2
  <1>4. ASSUME NEW r \in Request,
               \/ Replay(r) \/ RejectResolution(r) \/ Dispatch(r)
               \/ Classify(r) \/ BuildFails(r) \/ Record(r) \/ Release(r) \/ RejectEnvelope(r)
               \/ AdapterReturn(r) \/ CallerDone(r) \/ Timeout(r)
        PROVE  Goal
    BY <1>1, <1>4
    DEF Replay, RejectResolution, Dispatch, Classify, BuildFails, Record, Release,
        RejectEnvelope, AdapterReturn, CallerDone, Timeout
  <1>5. ASSUME NEW r \in Request, PersistStructural(r) PROVE Goal
    BY <1>1, <1>5, PersistStructuralCases
  <1>6. ASSUME NEW r \in Request, Persist(r) PROVE Goal
    BY <1>1, <1>6, PersistCases
  <1>7. ASSUME NEW k \in Key, Expire(k) PROVE Goal
    BY <1>1, <1>7 DEF Expire
  <1>8. CASE Crash
    BY <1>1, <1>8 DEF Crash
  <1>9. CASE UNCHANGED vars
    BY <1>1, <1>9 DEF vars
  <1> QED
    BY <1>2, <1>3, <1>4, <1>5, <1>6, <1>7, <1>8, <1>9 DEF Next, Step

-----------------------------------------------------------------------------
(* The answers *)

\* A step that leaves call q where it is, and receipts in the table, leaves
\* its answer supported.
LEMMA AnswerFrame ==
  ASSUME NEW q \in Request, Supported(q), receipts \subseteq receipts',
         pc'[q] = pc[q], ret'[q] = ret[q], lr'[q] = lr[q], ran'[q] = ran[q]
  PROVE  Supported(q)'
  BY DEF Supported, Answerable

\* A call that is not at one of its last steps has nothing to support.
LEMMA NothingToSupport ==
  ASSUME NEW q \in Request, pc'[q] \notin {"replay", "record", "release", "done"}
  PROVE  Supported(q)'
  BY DEF Supported

\* An error given to a call whose adapter did not run needs no support either.
LEMMA ErrorSupported ==
  ASSUME NEW q \in Request, NEW kind, NEW e, kind # "receipt", ~ran'[q],
         ret'[q] = ErrorReturned(kind, e), pc'[q] \in {"release", "done"}
  PROVE  Supported(q)'
  <1>1. ret'[q].kind = kind
    BY DEF ErrorReturned, NoReturn
  <1> QED
    BY <1>1 DEF Supported

LEMMA AnswersTryAcquire ==
  ASSUME NEW r \in Request, TypeOK, Progress, Supported(r), TryAcquire(r)
  PROVE  Supported(r)'
  <1>1. ~ran'[r]
    BY DEF TryAcquire, Progress
  <1>2. CASE SlotFree
    BY <1>2, NothingToSupport DEF TryAcquire
  <1>3. CASE ~SlotFree
    <2>1. ret'[r] = ErrorReturned("rejected", "none") /\ pc'[r] = "done"
      BY <1>3 DEF TryAcquire
    <2> QED
      BY <1>1, <2>1, ErrorSupported
  <1> QED
    BY <1>2, <1>3

LEMMA AnswersLookup ==
  ASSUME NEW r \in Request, TypeOK, Progress, KeyRowSound, Lookup(r)
  PROVE  Supported(r)'
  <1>1. receipts' = receipts /\ ran' = ran /\ ~ran[r] /\ KeyOf[r] # NoKey
    BY DEF Lookup, Progress
  <1>2. KeyOf[r] \in Key /\ KeyRow(r) = idem[KeyOf[r]]
    BY <1>1, KeyAssumption DEF KeyRow
  <1>3. PICK o \in LookupOutcome(r) :
          /\ lr'[r].rid = IF o = "hit" THEN KeyRow(r).rid ELSE 0
          /\ pc'[r] = CASE o = "hit" -> "replay" [] o = "panic" -> "structural" [] OTHER -> "resolve"
    BY DEF Lookup
  <1>4. CASE o # "hit"
    BY <1>3, <1>4, NothingToSupport
  <1>5. CASE o = "hit"
    <2>1. KeyRow(r).state = "live"
      BY <1>5, <1>3 DEF LookupOutcome
    <2> DEFINE k == KeyOf[r]
    <2>2. k \in Key /\ idem[k].state # "absent" /\ KeyRow(r).rid = idem[k].rid
      BY <1>2, <2>1
    <2>3. \E rec \in receipts : rec.id = idem[k].rid /\ KeyOf[rec.req] = k
      <3> HIDE DEF k
      <3> QED
        BY <2>2 DEF KeyRowSound
    <2>4. PICK rec \in receipts : rec.id = KeyRow(r).rid /\ KeyOf[rec.req] = KeyOf[r]
      BY <2>2, <2>3
    <2>5. pc'[r] = "replay" /\ lr'[r].rid = rec.id /\ Answerable(r, rec)'
      BY <1>1, <1>3, <1>5, <2>4 DEF Answerable
    <2> QED
      BY <1>1, <2>4, <2>5 DEF Supported
  <1> QED
    BY <1>4, <1>5

LEMMA AnswersReplay ==
  ASSUME NEW r \in Request, TypeOK, Progress, Supported(r), Replay(r)
  PROVE  Supported(r)'
  <1>1. pc[r] = "replay" /\ ~ran[r] /\ pc'[r] = "release" /\ UNCHANGED <<receipts, ran, lr>>
    BY DEF Replay, Progress
  <1>2. \/ ret'[r] = ReceiptReturned(lr[r].rid)
        \/ ret'[r] = ErrorReturned("find_failed", callerErr[r])
    BY DEF Replay
  <1>3. PICK rec \in receipts : rec.id = lr[r].rid /\ Answerable(r, rec)
    BY <1>1 DEF Supported
  <1>4. CASE ret'[r] = ErrorReturned("find_failed", callerErr[r])
    BY <1>1, <1>4, ErrorSupported
  <1>5. CASE ret'[r] = ReceiptReturned(lr[r].rid)
    <2>1. ret'[r].rid = rec.id /\ Answerable(r, rec)'
      BY <1>1, <1>3, <1>5 DEF ReceiptReturned, NoReturn, Answerable
    <2> QED
      BY <1>1, <1>3, <2>1 DEF Supported
  <1> QED
    BY <1>2, <1>4, <1>5

\* The receipt Save inserted supports the call that saved it.
LEMMA InsertSupports ==
  ASSUME NEW r \in Request, Insert(r)
  PROVE  /\ receipts \subseteq receipts'
         /\ \E rec \in receipts' : rec.id = nextID /\ rec.req = r
  <1> DEFINE new == [id |-> nextID, req |-> r, status |-> result[r].status, class |-> result[r].class]
  <1>1. receipts' = receipts \cup {new}
    BY DEF Insert
  <1>2. new.id = nextID /\ new.req = r
    OBVIOUS
  <1> HIDE DEF new
  <1> QED
    BY <1>1, <1>2

LEMMA AnswersPersistStructural ==
  ASSUME NEW r \in Request, TypeOK, Progress, PersistStructural(r)
  PROVE  Supported(r)'
  <1>1. pc'[r] = "release" /\ ~ran'[r]
    BY PersistStructuralCases DEF Progress
  <1>2. CASE \E w \in {callerErr[r], "none"} : ret'[r] = ErrorReturned("persist_failed", w)
    BY <1>1, <1>2, ErrorSupported
  <1>3. CASE Insert(r) /\ ret'[r] = ReceiptReturned(nextID)
    <2>1. PICK rec \in receipts' : rec.id = nextID /\ rec.req = r
      BY <1>3, InsertSupports
    <2>2. ret'[r].rid = nextID
      BY <1>3 DEF ReceiptReturned, NoReturn
    <2> QED
      BY <1>1, <2>1, <2>2 DEF Supported, Answerable
  <1> QED
    BY <1>2, <1>3, PersistStructuralCases

LEMMA AnswersPersist ==
  ASSUME NEW r \in Request, TypeOK, Progress, Persist(r)
  PROVE  Supported(r)'
  <1>1. CASE pc'[r] = "release" /\ ret'[r] = ErrorReturned("persist_failed", "none")
    BY <1>1 DEF Supported, ErrorReturned, NoReturn
  <1>2. CASE Insert(r) /\ pc'[r] = "record" /\ ret'[r] = ReceiptReturned(nextID)
    <2>1. PICK rec \in receipts' : rec.id = nextID /\ rec.req = r
      BY <1>2, InsertSupports
    <2>2. ret'[r].rid = nextID /\ ret'[r].kind = "receipt" /\ ret'[r].wraps = "none"
      BY <1>2 DEF ReceiptReturned, NoReturn
    <2> QED
      BY <1>2, <2>1, <2>2 DEF Supported
  <1> QED
    BY <1>1, <1>2, PersistCases

LEMMA AnswersStep ==
  ASSUME TypeOK, Progress, Answers, KeyRowSound, [Next]_vars
  PROVE  Answers'
  <1> SUFFICES ASSUME NEW q \in Request, Supported(q) PROVE Supported(q)'
    BY DEF Answers
  <1>1. ASSUME NEW r \in Request, TryAcquire(r) PROVE Supported(q)'
    BY <1>1, AnswersTryAcquire, AnswerFrame DEF TryAcquire
  <1>2. ASSUME NEW r \in Request, Lookup(r) PROVE Supported(q)'
    BY <1>2, AnswersLookup, AnswerFrame, ZenonT(60) DEF Lookup
  <1>3. ASSUME NEW r \in Request, Replay(r) PROVE Supported(q)'
    BY <1>3, AnswersReplay, AnswerFrame DEF Replay
  <1>4. ASSUME NEW r \in Request, RejectResolution(r) \/ AdapterReturn(r) \/ Classify(r)
        PROVE  Supported(q)'
    BY <1>4, AnswerFrame, NothingToSupport DEF RejectResolution, AdapterReturn, Classify
  <1>5. ASSUME NEW r \in Request, Dispatch(r) PROVE Supported(q)'
    BY <1>5, AnswerFrame, NothingToSupport DEF Dispatch
  <1>6. ASSUME NEW r \in Request, BuildFails(r) PROVE Supported(q)'
    <2>1. CASE q # r
      BY <1>6, <2>1, AnswerFrame DEF BuildFails
    <2>2. CASE q = r
      <3>1. pc'[q] = "release" /\ ret'[q] = ErrorReturned("build_failed", "none")
        BY <1>6, <2>2 DEF BuildFails
      <3> QED
        BY <3>1 DEF Supported, ErrorReturned, NoReturn
    <2> QED
      BY <2>1, <2>2
  <1>7. ASSUME NEW r \in Request, PersistStructural(r) PROVE Supported(q)'
    <2>1. receipts \subseteq receipts'
      BY <1>7, PersistStructuralCases, InsertSupports
    <2>2. q # r => pc'[q] = pc[q] /\ ret'[q] = ret[q] /\ lr'[q] = lr[q] /\ ran'[q] = ran[q]
      BY <1>7, PersistStructuralCases
    <2> QED
      BY <1>7, <2>1, <2>2, AnswersPersistStructural, AnswerFrame
  <1>8. ASSUME NEW r \in Request, Persist(r) PROVE Supported(q)'
    <2>1. receipts \subseteq receipts'
      BY <1>8, PersistCases, InsertSupports
    <2>2. q # r => pc'[q] = pc[q] /\ ret'[q] = ret[q] /\ lr'[q] = lr[q] /\ ran'[q] = ran[q]
      BY <1>8, PersistCases
    <2> QED
      BY <1>8, <2>1, <2>2, AnswersPersist, AnswerFrame
  <1>9. ASSUME NEW r \in Request, Record(r) PROVE Supported(q)'
    BY <1>9, AnswerFrame DEF Record, Supported, Answerable
  <1>10. ASSUME NEW r \in Request, Release(r) PROVE Supported(q)'
    BY <1>10, AnswerFrame DEF Release, Supported, Answerable
  <1>11. ASSUME NEW r \in Request, RejectEnvelope(r) PROVE Supported(q)'
    <2>1. CASE q # r
      BY <1>11, <2>1, AnswerFrame DEF RejectEnvelope
    <2>2. CASE q = r
      BY <1>11, <2>2, ErrorSupported DEF RejectEnvelope, Progress
    <2> QED
      BY <2>1, <2>2
  <1>12. ASSUME NEW r \in Request, CallerDone(r) \/ Timeout(r) PROVE Supported(q)'
    BY <1>12, AnswerFrame DEF CallerDone, Timeout
  <1>13. ASSUME NEW k \in Key, Expire(k) PROVE Supported(q)'
    BY <1>13, AnswerFrame DEF Expire
  <1>14. CASE Crash
    <2>1. CASE pc[q] \in Inside
      BY <1>14, <2>1, NothingToSupport DEF Crash
    <2>2. CASE pc[q] \notin Inside
      BY <1>14, <2>2, AnswerFrame DEF Crash
    <2> QED
      BY <2>1, <2>2
  <1>15. CASE UNCHANGED vars
    BY <1>15, AnswerFrame DEF vars
  <1> QED
    BY <1>1, <1>2, <1>3, <1>4, <1>5, <1>6, <1>7, <1>8, <1>9, <1>10, <1>11, <1>12, <1>13, <1>14, <1>15
    DEF Next, Step

-----------------------------------------------------------------------------
(* The theorems *)

LEMMA InitConsistent == Init => Consistent
  <1> SUFFICES ASSUME Init PROVE Consistent
    OBVIOUS
  <1>1. TypeOK
    BY InitType
  <1>2. LimiterExact
    <2>1. InFlight = {} /\ Dispatched = {}
      BY DEF Init, InFlight, Dispatched, Inside
    <2> QED
      BY <2>1, FS_EmptySet, BoundAssumption DEF Init, LimiterExact
  <1>3. Progress /\ Ledger /\ Answers /\ Replays
    BY DEF Init, Progress, Ledger, Answers, Supported, Replays
  <1>4. KeyRowSound /\ ReceiptTruthful
    BY DEF Init, KeyRowSound, ReceiptTruthful, NoRow
  <1> QED
    BY <1>1, <1>2, <1>3, <1>4 DEF Consistent

\* Whatever the interleaving of calls, adapters, timeouts, disconnects, store
\* failures and crashes, the limiter, the two tables and the pending answers
\* of Execute stay consistent with each other.
THEOREM Consistency == Spec => []Consistent
  <1>1. Consistent /\ [Next]_vars => Consistent'
    BY TypeStep, LimiterStep, ProgressStep, TableStep, AnswersStep, ReplaysStep, KeyRowStep
    DEF Consistent
  <1> QED
    BY <1>1, InitConsistent, PTL DEF Spec

\* Every variable keeps its type; the limiter and the gauge never go below zero.
THEOREM TypeCorrect == Spec => []TypeOK
  <1>1. Consistent => TypeOK
    BY DEF Consistent
  <1> QED
    BY <1>1, Consistency, PTL

\* No exit of Execute leaks or double-releases a slot, for any capacity and
\* any number of calls.
THEOREM LimiterIsExact == Spec => []LimiterExact
  <1>1. Consistent => LimiterExact
    BY DEF Consistent
  <1> QED
    BY <1>1, Consistency, PTL

\* A receipt handed to a caller is stored, and is the caller's own or one made
\* under its key.
THEOREM AnswersAreAudited == Spec => []AnswerAudited
  <1>1. Consistent => AnswerAudited
    BY DEF Consistent, Answers, Supported, AnswerAudited
  <1> QED
    BY <1>1, Consistency, PTL

\* A call whose adapter ran has its receipt stored or was given an error that
\* says so.
THEOREM EffectsAreAccounted == Spec => []EffectAccounted
  <1>1. Consistent => EffectAccounted
    BY DEF Consistent, Answers, Supported, Answerable, EffectAccounted
  <1> QED
    BY <1>1, Consistency, PTL

\* No status that denies the execution is given to a call whose adapter ran.
THEOREM RefusalsAreHonest == Spec => []RefusalMeansNotRun
  <1>1. Consistent => RefusalMeansNotRun
    BY DEF Consistent, Answers, Supported, RefusalMeansNotRun, HTTPStatus
  <1> QED
    BY <1>1, Consistency, PTL

\* A key row always leads to the stored receipt of an execution under that key.
THEOREM KeyRowsAreSound == Spec => []KeyRowSound
  <1>1. Consistent => KeyRowSound
    BY DEF Consistent
  <1> QED
    BY <1>1, Consistency, PTL

\* A call that finds its key's window open does not run the adapter.
THEOREM ReplaysAreHonoured == Spec => []ReplayHonoured
  <1>1. Consistent => ReplayHonoured
    BY DEF Consistent, Replays, ReplayHonoured
  <1> QED
    BY <1>1, Consistency, PTL

\* Stored receipts tell what happened, one per call and one per id.
THEOREM ReceiptsAreTruthful == Spec => []ReceiptTruthful
  <1>1. Consistent => ReceiptTruthful
    BY DEF Consistent
  <1> QED
    BY <1>1, Consistency, PTL

\* Receipts are only added and a key keeps its first receipt: no step updates
\* or deletes a row, those of failing and crashing calls included.
THEOREM TablesAreImmutable == Spec => Immutable
  <1>1. TypeOK /\ [Next]_vars =>
          [/\ receipts \subseteq receipts'
           /\ \A k \in Key : idem[k].state # "absent" =>
                idem'[k].rid = idem[k].rid /\ idem'[k].state \in {idem[k].state, "expired"}]_vars
    <2> SUFFICES ASSUME TypeOK, Next
                 PROVE  /\ receipts \subseteq receipts'
                        /\ \A k \in Key : idem[k].state # "absent" =>
                             idem'[k].rid = idem[k].rid /\ idem'[k].state \in {idem[k].state, "expired"}
      OBVIOUS
    <2>1. ASSUME NEW j \in Key, Expire(j)
          PROVE  /\ receipts' = receipts
                 /\ \A k \in Key : idem'[k].rid = idem[k].rid /\ idem'[k].state \in {idem[k].state, "expired"}
      BY <2>1 DEF Expire
    <2>2. ASSUME NEW r \in Request, Record(r)
          PROVE  /\ receipts' = receipts
                 /\ \A k \in Key : idem[k].state # "absent" => idem'[k] = idem[k]
      BY <2>2, KeyAssumption DEF Record, KeyRow, NoRow
    <2>3. \/ receipts \subseteq receipts' /\ idem' = idem
          \/ (\E k \in Key : Expire(k)) \/ (\E q \in Request : Record(q))
      BY PersistStructuralCases, PersistCases
      DEF Next, Step, TryAcquire, Lookup, Replay, RejectResolution, Dispatch, Classify, BuildFails,
          Release, RejectEnvelope, AdapterReturn, CallerDone, Timeout, Crash, Insert
    <2> QED
      BY <2>1, <2>2, <2>3
  <1> QED
    BY <1>1, TypeCorrect, PTL DEF Spec, Immutable
=============================================================================
