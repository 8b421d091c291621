---------------------------- MODULE ShellAdapter ----------------------------
(***************************************************************************)
(* shell.exec@v1: what Adapter.Execute returns before it starts a process, *)
(* what it returns when cmd.Run does, and how the result is classified.    *)
(* A context error is "none", "deadline" or "cancelled".                   *)
(***************************************************************************)
EXTENDS ExecutionDomain

ShellRaw == [of |-> "shell", validation |-> FALSE, ctxErr |-> "none", exit |-> 0, out |-> 0,
             exitSuccess |-> {}]

resolveCommand(command) == command \notin {"empty", "missing"}
resolveWorkingDir(dir) == dir \notin {"relative", "outside"}

\* Empty when the payload is acceptable and a process is to be started.
ShellRefuses(p, ctx) ==
  IF ctx # "none" THEN {[ShellRaw EXCEPT !.ctxErr = ctx]}
  ELSE IF p.decodes /\ resolveCommand(p.command) /\ resolveWorkingDir(p.dir) THEN {}
  ELSE {[ShellRaw EXCEPT !.validation = TRUE]}

\* Mutant: a process that never started has the code of one that succeeded.
exitCodeFromZero(started, code) == IF started THEN code ELSE 0

\* A process that never started has no code: -1, as one that was killed.
exitCodeFrom(started, code) == IF started THEN code ELSE -1

\* cmd.Run has returned; the context is looked at afterwards.
ShellReturns(p, started, code, out, ctx) ==
  [ShellRaw EXCEPT !.exit = exitCodeFrom(started, code), !.out = out, !.ctxErr = ctx,
                   !.exitSuccess = IF p.exitSuccess = {} THEN {0} ELSE p.exitSuccess]

\* The context error first, then validation, then the exit code.
ShellNormalize(r, now) ==
  LET WithStreams(res) ==
        [res EXCEPT !.stdout = CHOOSE s \in NewStreamRef(r.out, r.out) : TRUE,
                    !.exit = r.exit, !.bytes = r.out]
  IN NewExecutionResult(
       IF r.ctxErr # "none" THEN WithStreams(CtxResult(r.ctxErr, now))
       ELSE IF r.validation THEN Failure("non_retryable", "validation_failure", now)
       ELSE IF r.exit \in r.exitSuccess THEN WithStreams(Success(now))
       ELSE WithStreams(Failure("unknown", "external_failure", now)))
=============================================================================
