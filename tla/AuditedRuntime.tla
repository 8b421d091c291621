--------------------------- MODULE AuditedRuntime ---------------------------
(***************************************************************************)
(* What the runtime promises its callers, without how: an adapter is       *)
(* invoked at most once per call and never after the call was answered or  *)
(* audited; a receipt given as an answer is already in the ledger, and it  *)
(* is the call's own or that of an execution under the same idempotency    *)
(* key, in which case nothing is executed for the call; a call that is     *)
(* refused has not been executed.                                          *)
(***************************************************************************)
CONSTANTS Call, NoKey, KeyOf

VARIABLES
  phase,   \* "open", "executed", "answered" or "abandoned"
  ledger,  \* the calls that have a receipt
  executed,\* the calls whose adapter was invoked
  answer   \* what the caller of an answered call was told

None    == [kind |-> "none"]
Refused == [kind |-> "refused"]
Failed  == [kind |-> "failed"]
ReceiptOf(c) == [kind |-> "receipt", of |-> c]

Init ==
  /\ phase = [c \in Call |-> "open"]
  /\ ledger = {} /\ executed = {}
  /\ answer = [c \in Call |-> None]

Invoke(c) ==
  /\ phase[c] = "open" /\ c \notin ledger
  /\ phase' = [phase EXCEPT ![c] = "executed"]
  /\ executed' = executed \cup {c}
  /\ UNCHANGED <<ledger, answer>>

Audit(c) ==
  /\ phase[c] \in {"open", "executed"} /\ c \notin ledger
  /\ ledger' = ledger \cup {c}
  /\ UNCHANGED <<phase, executed, answer>>

Answer(c, a) ==
  /\ phase[c] \in {"open", "executed"}
  /\ phase' = [phase EXCEPT ![c] = "answered"]
  /\ answer' = [answer EXCEPT ![c] = a]
  /\ UNCHANGED <<ledger, executed>>

AnswerOwn(c) == c \in ledger /\ Answer(c, ReceiptOf(c))

AnswerReplay(c, d) ==
  /\ phase[c] = "open" /\ c \notin ledger
  /\ d \in ledger \cap executed /\ KeyOf[c] # NoKey /\ KeyOf[d] = KeyOf[c]
  /\ Answer(c, ReceiptOf(d))

AnswerRefused(c) == phase[c] = "open" /\ c \notin ledger /\ Answer(c, Refused)

AnswerFailed(c) == Answer(c, Failed)

\* Calls whose process died are never answered.
Abandon(S) ==
  /\ \A c \in S : phase[c] \in {"open", "executed"}
  /\ phase' = [c \in Call |-> IF c \in S THEN "abandoned" ELSE phase[c]]
  /\ UNCHANGED <<ledger, executed, answer>>

Next ==
  \/ \E c \in Call : Invoke(c) \/ Audit(c) \/ AnswerOwn(c) \/ AnswerRefused(c) \/ AnswerFailed(c)
  \/ \E c, d \in Call : AnswerReplay(c, d)
  \/ \E S \in SUBSET Call : Abandon(S)

vars == <<phase, ledger, executed, answer>>
Spec == Init /\ [][Next]_vars
=============================================================================
