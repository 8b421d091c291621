------------------------- MODULE MCLinearLifecycle -------------------------
(***************************************************************************)
(* Small instances of LinearLifecycle.  POSTs f1 and f2 are firing         *)
(* notifications of group g1, z1 resolves g1, h1 fires for group g2.       *)
(***************************************************************************)
EXTENDS LinearLifecycle, TLC

CONSTANTS f1, f2, z1, h1, g1, g2

MCGroupOf == [r \in Request |-> IF r = h1 THEN g2 ELSE g1]
MCStatusOf == [r \in Request |-> IF r = z1 THEN "resolved" ELSE "firing"]
MCSeverityOf == [r \in Request |-> "critical"]
MCCapabilityOf == [r \in Request |-> NoCapability]
\* Any POST may come at any time, repeated or not.
MCNoRetry == [r \in Request |-> NoRequest]
\* f2 is only sent as a retry of f1.
MCRetryOf == [r \in Request |-> IF r = f2 /\ f1 \in Request THEN f1 ELSE NoRequest]

\* Without retries, f1 and f2 are alike.
MCFirings == Permutations({f1, f2})

-----------------------------------------------------------------------------
(* A statement of the design that the code does not keep. *)

\* Design 7.5.5: a second attempt finds the issue of the first and updates it
\* instead of creating a duplicate.  A create that the first attempt gave up on
\* may take effect after the second has looked.
RetryCreatesNoDuplicate ==
  \A r \in Request : RetryOf[r] # NoRequest =>
    ~ \E i, j \in DOMAIN issues : /\ i # j /\ issues[i].open /\ issues[j].open
                                 /\ r \in issues[i].written /\ RetryOf[r] \in issues[j].written
=============================================================================
