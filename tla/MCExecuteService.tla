-------------------------- MODULE MCExecuteService --------------------------
(***************************************************************************)
(* Small instances of ExecuteService: calls a and b carry the same         *)
(* idempotency key, c has none.  Two capabilities: one that is wired, and  *)
(* one whose adapter is missing.                                           *)
(***************************************************************************)
EXTENDS ExecuteService

CONSTANTS a, b, c, k1

MCKeyOf == [r \in Request |-> IF r = c THEN NoKey ELSE k1]
MCCapability == {"shell.exec@v1", "git.ghost@v1"}
\* Every call can be dispatched.
MCCapOf == [r \in Request |-> "shell.exec@v1"]
\* Call b asks for the capability without an adapter.
MCCapOfGhost == [r \in Request |-> IF r = b THEN "git.ghost@v1" ELSE "shell.exec@v1"]
MCBudget == [r \in Request |-> 2]
MCDefaultTimeout == [x \in Capability |-> 1]

-----------------------------------------------------------------------------
(* Statements of the documents that the code does not keep.  Each is the   *)
(* one property of a run in which nothing fails.                           *)

\* Phase 1 design 2.5: a second call with the same key within the window is
\* not executed.  Lookup and Record are not one step: two calls that overlap
\* both miss and both run.
SameKeyRunsOnce ==
  \A r, s \in Request :
    KeyOf[r] # NoKey /\ KeyOf[r] = KeyOf[s] /\ ran[r] /\ ran[s] /\ expiries = 0 => r = s

\* Phase 1 design 6.5: a key caches every terminal status.  A call answered
\* with a receipt has its key recorded; persistStructural never records it.
KeyCachesEveryStatus ==
  \A r \in Request :
    pc[r] = "done" /\ KeyOf[r] # NoKey /\ ret[r].kind = "receipt" => KeyRow(r).state # "absent"

\* The port's comment: Record conflicts only in a race.  A call that finds the
\* expired row of its key conflicts without any other call being in flight.
ConflictOnlyInRace ==
  \A r \in Request : recorded[r] = "conflict" => arrival[r] = "absent"
=============================================================================
