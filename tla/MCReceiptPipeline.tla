------------------------- MODULE MCReceiptPipeline -------------------------
(* An instance of ReceiptPipeline: eight-bit arithmetic, a millisecond of ten
   clock units, and the inputs each condition of the code tells apart. *)
EXTENDS ReceiptPipeline, TLC

Cap(adapter, name, default) ==
  [adapter |-> adapter, name |-> name, version |-> "v1", default |-> default]

MCCatalog == {Cap("shell", <<"exec">>, 20), Cap("http", <<"request">>, 10),
              Cap("git", <<"worktree", "create">>, 15), Cap("filesystem", <<"write_file">>, 10)}

Profile(adapters, persist) ==
  [version |-> 1, name |-> "p", expected |-> TRUE, adapters |-> adapters, persist |-> persist]
On(path, kind) == (path :> [kind |-> kind, timing |-> "empty", arg |-> NoExit])
ShellPath == <<"shell", "exec">>
HttpPath == <<"http", "request">>
WritePath == <<"filesystem", "write_file">>
WorktreePath == <<"git", "worktree", "create">>

Env(runtime, p) == [enabled |-> TRUE, runtime |-> runtime, file |-> "inside", profile |-> p]
Plain == Profile(<<>>, "none")

MCEnvironments ==
  {[Env("staging", Plain) EXCEPT !.enabled = FALSE], Env("production", Profile(On(ShellPath, "latency"), "none")),
   [Env("production", Plain) EXCEPT !.enabled = FALSE]}
  \cup {[Env("staging", Plain) EXCEPT !.file = f] : f \in {"empty", "outside", "link to outside", "missing"}}
  \cup {Env("staging", Profile(a, "none")) :
          a \in {On(ShellPath, k) : k \in {"latency", "hang_until_cancel", "process_signal", "process_exit",
                                          "persist_failure", "eio", "unheard of"}}
                \cup {On(HttpPath, k) : k \in {"auth_failure", "redirect_loop", "inject_panic"}}
                \cup {On(WorktreePath, "remote_unreachable"), On(WritePath, "enospc"),
                      On(<<"git", "push">>, "latency"),
                      ShellPath :> [kind |-> "process_exit", timing |-> "post_dispatch", arg |-> 0],
                      ShellPath :> [kind |-> "latency", timing |-> "later", arg |-> NoExit]}}
  \cup {Env("staging", Profile(<<>>, k)) : k \in {"persist_failure", "latency", "unheard of"}}
  \cup {Env("staging", [Plain EXCEPT !.version = 2]), Env("staging", [Plain EXCEPT !.expected = FALSE])}

Shell(exitSuccess) == [decodes |-> TRUE, command |-> "tool", dir |-> "empty", exitSuccess |-> exitSuccess,
                       nul |-> FALSE, layout |-> "raw"]
Http(expected) == [decodes |-> TRUE, method |-> "GET", url |-> "public", maxBody |-> 0, maxRedirects |-> 0,
                   expected |-> expected, nul |-> FALSE, layout |-> "raw"]
Other(nul) == [decodes |-> TRUE, nul |-> nul, layout |-> "raw"]
Write(createDirs) == [decodes |-> TRUE, createDirs |-> createDirs, nul |-> FALSE, layout |-> "raw"]

Call(front, adapter, name, payload) ==
  [front |-> front, cap |-> Cap(adapter, name, 0), payload |-> payload, ms |-> 1,
   key |-> IF front = "http" THEN NoKey ELSE "empty", submitted |-> NoTime, flaw |-> "none", nul |-> FALSE,
   deadline |-> 0]
ShellCall(front) == Call(front, "shell", <<"exec">>, Shell({}))
HttpCall(p) == Call("http", "http", <<"request">>, p)

MCCalls ==
  {[ShellCall(f) EXCEPT !.ms = ms] : f \in {"http", "sdk"}, ms \in {0, 1, 3, 4, 13, 26, 27, 127}}
  \cup {[ShellCall(f) EXCEPT !.flaw = w] : f \in {"http", "sdk"},
          w \in {"too_large", "trailing", "content_type", "malformed_json", "submitted_at", "payload", "retry_attempt"}}
  \cup {[ShellCall(f) EXCEPT !.key = k] : f \in {"http", "sdk"}, k \in {"empty", "k", "malformed"}}
  \cup {[ShellCall("http") EXCEPT !.submitted = t] : t \in {-21, -5, 5, 11, 25, 99}}
  \cup {[ShellCall("http") EXCEPT !.payload = p] :
          p \in {Shell({1}), Shell({-1}), [Shell({}) EXCEPT !.nul = TRUE], [Shell({}) EXCEPT !.decodes = FALSE],
                 [Shell({}) EXCEPT !.command = "missing"], [Shell({}) EXCEPT !.dir = "outside"]}}
  \cup {HttpCall(p) :
          p \in {Http({}), Http({401}), [Http({}) EXCEPT !.url = "private"], [Http({}) EXCEPT !.method = "empty"],
                 [Http({}) EXCEPT !.maxBody = 1], [Http({}) EXCEPT !.maxBody = 127],
                 [Http({}) EXCEPT !.maxRedirects = 1]}}
  \cup {Call("sdk", "git", <<"worktree", "create">>, Other(n)) : n \in BOOLEAN}
  \cup {[Call("sdk", a, n, Other(FALSE)) EXCEPT !.deadline = 14, !.ms = 3] :
          <<a, n>> \in {<<"git", <<"worktree", "create">>>>, <<"git", <<"push">>>>}}
  \cup {[ShellCall(f) EXCEPT !.nul = TRUE] : f \in {"http", "sdk"}}
  \cup {[ShellCall("sdk") EXCEPT !.deadline = 30, !.ms = 3]}
  \cup {Call("http", "filesystem", <<"write_file">>, Write(d)) : d \in BOOLEAN}
  \cup {Call("http", "git", <<"push">>, Other(FALSE)),
        Call("http", "git", <<"worktree", "create">>, [Other(FALSE) EXCEPT !.decodes = FALSE])}

MCExitCodes == {-1, 0, 1}
MCFirstInstant == -20

MCResponses ==
  {[status |-> s, size |-> n, arrives |-> n, headers |-> 1] : s \in {200, 401, 503}, n \in {0, 2, 4}}
  \cup {[status |-> 200, size |-> 5, arrives |-> a, headers |-> 1] : a \in {1, 4}}
  \cup {[status |-> 200, size |-> 2, arrives |-> 2, headers |-> 4]}
=============================================================================
