--------------------------- MODULE ChaosInjection ---------------------------
(***************************************************************************)
(* Fault injection: which profile a start-up accepts, and what the         *)
(* decorators around the adapters and the receipt repository do with it.   *)
(* A capability is named by its canonical path; all of them are at v1.     *)
(***************************************************************************)
EXTENDS ShellAdapter, HttpRequestAdapter

DecoratorNative == {"latency", "hang_until_cancel", "inject_panic"}

AllFaultKinds ==
  DecoratorNative \cup
  {"connection_reset", "eio", "enospc", "permission_denied", "remote_unreachable",
   "auth_failure", "process_signal", "process_exit", "slow_body", "redirect_loop",
   "tls_handshake_fail", "persist_failure"}

NoFault == [kind |-> "none", timing |-> "empty", arg |-> NoExit]
NoProfile == [adapters |-> <<>>, persist |-> "none"]

\* What each adapter declares it can imitate.
ShellFaults(path) == IF path = <<"shell", "exec">> THEN {"process_signal", "process_exit"} ELSE {}

GitFaults(path) == IF path = <<"git", "clone">> THEN {"remote_unreachable", "auth_failure"} ELSE {}

FilesystemFaults(path) ==
  CASE path = <<"filesystem", "read_file">> -> {"eio", "permission_denied"}
    [] path = <<"filesystem", "write_file">> -> {"eio", "enospc", "permission_denied"}
    [] OTHER -> {}

HttpFaults(path) ==
  IF path # <<"http", "request">> THEN {}
  ELSE {"connection_reset", "slow_body", "redirect_loop", "tls_handshake_fail",
        "auth_failure", "remote_unreachable"}

SupportedChaosFaults(path) ==
  ShellFaults(path) \cup GitFaults(path) \cup FilesystemFaults(path) \cup HttpFaults(path)

-----------------------------------------------------------------------------
(* Start-up *)

\* A raw profile names the capabilities it disturbs, in the catalog or not.
\* The kind of the persistence fault only has to exist.
parseProfile(raw, catalog) ==
  IF /\ raw.version = 1 /\ raw.name # "empty" /\ raw.expected
     /\ \A c \in DOMAIN raw.adapters :
          /\ c \in catalog
          /\ raw.adapters[c].kind \in AllFaultKinds
          /\ raw.adapters[c].timing \in {"empty", "pre_dispatch", "post_dispatch"}
     /\ raw.persist \in AllFaultKinds \cup {"none"}
  THEN {[adapters |-> raw.adapters, persist |-> raw.persist]}
  ELSE {}

\* file says where the path leads, cleaned and with its links followed.
LoadProfile(file, raw, catalog) ==
  IF file \in {"parent traversal", "outside", "link to outside", "missing"} THEN {}
  ELSE parseProfile(raw, catalog)

LoadConfig(env, catalog) ==
  IF ~env.enabled THEN {NoProfile}
  ELSE IF env.runtime = "production" \/ env.file = "empty" THEN {}
  ELSE LoadProfile(env.file, env.profile, catalog)

\* Mutant: the faults are not compared with what the adapters declare.
ValidateProfileSupportNever(profile) == TRUE

\* A persistence fault listed under an adapter is passed over.
ValidateProfileSupport(profile) ==
  \A c \in DOMAIN profile.adapters :
    profile.adapters[c].kind \in
      DecoratorNative \cup {"persist_failure"} \cup SupportedChaosFaults(c)

\* What the runtime starts with; nothing when it refuses to start.
MaybeWrap(env, catalog) == {p \in LoadConfig(env, catalog) : ValidateProfileSupport(p)}

-----------------------------------------------------------------------------
(* Run time.  Neither timing nor match is looked at to choose a fault. *)

For(profile, path) ==
  IF path \in DOMAIN profile.adapters THEN profile.adapters[path] ELSE NoFault

PersistFault(profile) == profile.persist # "none"

\* The exit code of the profile, if it gives one (arg), is the imitation's,
\* even 0; the caller's exit_success is not looked at.
ShellSynthetic(fault) ==
  [ShellRaw EXCEPT
     !.exitSuccess = {0},
     !.exit = IF fault.kind = "process_signal" THEN -1
              ELSE IF fault.arg # NoExit THEN fault.arg ELSE 137]

\* The statuses the caller expects decide what the imitated 401 counts as.
HttpSynthetic(p, fault) ==
  CASE fault.kind = "auth_failure" ->
         [HttpRaw EXCEPT !.status = 401,
                         !.expected = IF p.expected # {} THEN p.expected ELSE {200}]
    [] fault.kind = "redirect_loop" ->
         [HttpRaw EXCEPT !.runErr = TRUE, !.redirects = MaxRedirects + 1]
    [] OTHER -> [HttpRaw EXCEPT !.runErr = TRUE]

\* The imitations of the git and filesystem adapters only fail.
OtherSynthetic ==
  [of |-> "other", validation |-> FALSE, ctxErr |-> "none", runErr |-> TRUE, nul |-> FALSE]

SyntheticOutcome(path, p, fault) ==
  IF fault.kind \notin SupportedChaosFaults(path) THEN {}
  ELSE {CASE path[1] = "shell" -> ShellSynthetic(fault)
          [] path[1] = "http" -> HttpSynthetic(p, fault)
          [] OTHER -> OtherSynthetic}
=============================================================================
