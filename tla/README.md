# TLA+ development for sophia-runtime-adapters

This directory holds TLA+ models of the parts of `sophia-runtime-adapters` that keep state across
calls, the TLC configurations that check them on small instances, and TLAPS proofs of the main
safety results for every instance. Paths are relative to the repository; line numbers are those
of the commit the models were written from. `PROJECT.json` maps every definition to its lines.

## 1. The system

The runtime executes *capabilities* (`shell.exec@v1`, `git.commit@v1`, `filesystem.write_file@v1`,
...) for callers. One HTTP or SDK call is one `ExecuteService.Execute`: it takes a slot of a
limiter, looks its idempotency key up, resolves the capability, runs an adapter under a timeout,
classifies what came back, saves a receipt in PostgreSQL, records the key, and answers. Beside it
a second binary, `linear-webhook-adapter`, turns Alertmanager notifications into Linear issues.

### Inventory

| Part | State | Operations | Talks to | What is hard | Correct when |
|---|---|---|---|---|---|
| execution flow (`application/services/execute_service.go`, `structural.go`) | the call's context, result, answer | `Execute`, `persistStructural` | limiter, both tables, adapter, metrics | a dozen exits, recovered panics, two contexts that can end at any moment, a crash between any two steps | the answer, the tables and what really happened agree (`AnswerAudited`, `EffectAccounted`, `ReceiptTruthful`, `RefusalMeansNotRun`, `MetricsExact`, `Answered`) |
| concurrency limiter (`concurrency.go`) | a buffered channel | `TryAcquire`, `Release` | execution flow | leak or double release on one of the exits | occupied slots = calls inside (`LimiterExact`) |
| receipt repository (`pg/receipt_repository.go`) | table `execution_receipts` | `Save`, `FindByID`, list | PostgreSQL | lost acknowledgement | append-only (`Immutable`) |
| idempotency store (`pg/idempotency_store.go`) | table `idempotency_keys` | `Lookup`, `Record` | PostgreSQL | the key is not reserved while the adapter runs; rows expire and stay | a row points to a stored receipt of its key; an open window is honoured (`KeyRowSound`, `ReplayHonoured`) |
| HTTP execute handler (`http/execute_handler.go`) | none | decode, map errors to statuses | execution flow | which status after which failure | a "nothing happened" status is true (`RefusalMeansNotRun`) |
| Linear lifecycle, client, webhook handler (`integrations/linear`) | none of its own; everything is in Linear | firing, resolved | Linear over GraphQL | overlapping POSTs, calls that take effect late or whose answer is lost, retries | `OneOpenIssue`, `ClosedIsExplained`, `OKMeansDone`, `LabelsExist`, `CommentsInPlace`, `ResolvedClears`, `Answered` |
| filesystem adapter (`adapters/outbound/filesystem`) | files, temporary files | `read_file`, `write_file` | the operating system | look-then-rename against other calls, clean-up after a failed step, a size taken before the read | `WriteIsAtomic`, `NoTempLeft`, `NoBlindOverwrite`, `ReadIsComplete` |
| git adapter (`adapters/outbound/git`) | repositories: index, HEAD, files | `clone`, `worktree.create`, `commit`, `status`, `diff` | go-git, the same tree | no lock on index or HEAD, clean-up that removes a directory others use, staging path by path | `FailedWorktreeLeavesNothing`, `NothingLostButToARace`, `CommitKept`, `CommitTakesOnlyItsOwn`, `PartialFetchedOrFound` |
| shell and httpreq adapters (`adapters/outbound/shell`, `httpreq`) | processes, remote services | `exec`; `request` | the operating system, servers | exit code of a process that never started; limits at their boundaries; headers that outgrow the metadata | `EffectTold`, `HttpWithinLimits` |
| entities, value objects (`domain/execution`) | none | constructors, JSON | everything | a product that wraps before it is compared, names and instants through JSON and back | `NeverLongerThanAsked`, `ReadsBack`, `TimesInOrder` |
| HTTP decoding, SDK, receipt row, `GetReceipt` | the row | `Execute`, `GetReceipt` | execution flow, PostgreSQL | inputs every decoder accepts and the database does not | `ReceiptKept`, `ReadsBack` |
| chaos injection (`infrastructure/chaos`) | one loaded profile | parse, validate, wrap | adapters, repository | two validators that each rely on the other | `InjectionContained` |
| bootstrap, shutdown (`bootstrap/wire.go`, `cmd/runtime-adapters/main.go`) | server, pool, exporters, callback | seventeen steps of the start, `Shutdown` | everything | a different clean-up per failing step; draining against closing | `NothingLeftOpen`, `LostOnlyAfterGrace`, `SignalEndsProcess` |
| Grafana webhook, router and middleware, configuration parsing, exporters | none, or start-up only | I/O, parsing | | | not modelled, see section 8 |

## 2. The modules

| Module | What it is |
|---|---|
| `ExecuteService` | `Execute` with limiter, tables, contexts, metrics and HTTP status. One process per call. |
| `AuditedRuntime` | What a caller may rely on, as an abstract specification; `ExecuteService` instantiates it under a refinement mapping (`Audited`). |
| `MCExecuteService` | Instances of `ExecuteService` and the statements of the documents that the code does not keep. |
| `ExecuteServiceProofs` | Theorems about `ExecuteService`. |
| `AuditedRuntimeProofs` | That it implements `AuditedRuntime`, and that its counters are exact. |
| `LinearLifecycle` | The webhook adapter and, as external, Linear. One process per POST. |
| `MCLinearLifecycle` | Its instances, and one statement of the design that the code does not keep. |
| `LinearLifecycleProofs` | Theorems about `LinearLifecycle`. |
| `WorkspaceTree` | The directory tree and the calls on it: state, dispatch, crash. |
| `FilesystemAdapter`, `GitAdapter` | The operations of the two adapters on that tree, one process per call, and their normalizers. |
| `Workspace` | The two composed, each call ending as `Execute` classifies it. Properties. |
| `MCWorkspace` | Its instance. |
| `WorkspaceProofs` | Theorems about it: what each step comes to, the types, the files. |
| `RepositoryProofs` | Its theorems about repositories, and about what one call may take from another. |
| `ExecutionDomain` | Requests, handles, results, receipts: constructors and JSON as operators. |
| `ShellAdapter`, `HttpRequestAdapter` | What the two adapters return and how it is normalized, as operators. |
| `ChaosInjection` | Which profile a start accepts, what each decorator and adapter then does. |
| `ReceiptPipeline` | One execution from the start of the runtime to the receipt read back, over the four modules above. |
| `MCReceiptPipeline` | Its instance: settings, inputs, responses. |
| `ReceiptPipelineProofs` | Theorems about it. |
| `RuntimeLifecycle` | The process from start to exit, with requests in flight. |
| `RuntimeLifecycleProofs` | Theorems about it. |

The modules cut the system along its interfaces. `ExecuteService` sees an adapter as the set of raw
outcomes it can come back with; `Workspace` and `ReceiptPipeline` say which outcomes those are and
what they leave behind, and take from `ExecuteService` only that a context which has ended overrides
the outcome (step 7b). `RuntimeLifecycle` sees a request as its adapter running, or a statement of it
waiting for a connection or holding one.

### ExecuteService

Variables come in three groups, by what a crash does to them. *Process* variables are what the Go
process holds: where each call is (`pc`), occupied slots, the error of the caller's context and of
the execution context derived from it, the result of the lookup, the raw outcome, the result, the
return value, the gauge and the counters. *Database* variables are the two tables and the ids
handed out. *History* variables bound the environment (`crashes`, `expiries`) or record what the
properties need (`ran`, `arrival`, `recorded`).

| Action | Code |
|---|---|
| `RejectEnvelope`, `TryAcquire`, `Release` | body refused before `Execute`; the limiter and its deferred release with the gauge |
| `Lookup`, `Replay` | step 2: the window, a lookup error counts as a miss, a panic in it is recovered; `FindByID` of a hit |
| `RejectResolution`, `PersistStructural` | unknown capability, missing adapter, no timeout; `persistStructural` saves and does not record the key |
| `Dispatch`, `AdapterReturn` | effective timeout, execution context, adapter run with its panic recovered |
| `CallerDone`, `Timeout` | a context ends; the caller's end reaches the execution context |
| `Classify`, `BuildFails` | context error overrides the outcome, normalizer, structural errors, panic counter; receipt id or construction fails |
| `Persist`, `Record` | `Save` on a background context: stored, refused, or stored with the acknowledgement lost; `ON CONFLICT DO NOTHING`, errors logged |
| `Expire`, `Crash` | a window runs out (the row stays); the process dies and its memory with it |

Abstractions: payloads, output and timestamps are left out; an adapter is the set of raw outcomes
it can come back with; durations are natural numbers of which only the minimum and zero matter
(`EffectiveTimeout`); a receipt is its id, its call, status and error class. A retry by a caller is
another call with the same key. Every database statement is one step; it is atomic in PostgreSQL,
and nothing in the code makes two of them one transaction.

### LinearLifecycle

`pc` is the Linear call a POST is about to make; `target`, `aged`, `todo`, `err` are the handler's
locals; `issues`, `comments`, `labels` are Linear's; `late` holds mutations whose client has given
up and which Linear may still carry out. One action per call of the GraphQL client:
`FindIssuesByLabel`, the three calls of `EnsureLabelByName` (`FindLabel`, `IssueLabelCreate`,
`RequeryLabel`), `CreateIssue`, `UpdateIssue`, `AddComment`, `ArchiveIssue`. `Mutate` is the one
place that says how a call can go: it takes effect and is answered; it is refused; it takes effect
and the answer is lost or does not decode; the client gives up first. `Answers` is the error
class of `do()`, as the status the handler maps it to (500 or 502).

Abstractions: titles and bodies are the POST that rendered them, and an issue keeps the POSTs whose
text was put there (`written`); `DedupLabel`, a truncated
hash of the group key, is taken to be free of collisions; Linear is taken to hide an archived issue
from the query for open ones and to keep label names unique in a team.

### WorkspaceTree, FilesystemAdapter, GitAdapter, Workspace

Every adapter call runs on its own goroutine and nothing locks the tree, so each system call, and
each point at which go-git reads or writes the index or HEAD, is a step. The disk is `dirs`, `file`,
`tmp` and `repo` (who made a repository, its index with who staged each entry, HEAD's tree and
history); it survives `Crash`. A call has `pc`, `op`, `ctx` and `mem`, what it has read and not yet
used. A file's content is who wrote it, whether all of it is there, and its length. `met`, `landed`
and `stuck` are history: which calls overlapped, whose effect reached the tree, which clean-up failed.

| Actions | Code |
|---|---|
| `WriteMkdir`, `WriteLook`, `WriteCreate`, `WriteFill`, `WriteRename` | `write.go`: parents made before the path check; overwrite=false; `O_EXCL` temporary; write, fsync, close; rename; removal on each failure |
| `ReadResolve`, `ReadOpen`, `ReadAll`, `Grow` | `read.go`: the size is taken at open, the limit plus one wraps; another program may append |
| `CloneLook`, `PlainInit`, `PlainFetch`, `CloneCheckout` | `clone.go` around go-git's `PlainClone`, which leaves what it made when it cannot initialise, and later clears a directory it found empty or absent, if it can |
| `WorktreeLook`, `WorktreeBase`, `WorktreeCheckout`, `WorktreeUndo` | `worktree_create.go` with its `RemoveAll` |
| `CommitOpen`, `AddRead`, `AddAll`, `AddWrite`, `CommitBuild`, `CommitLand` | `commit.go`: staging path by path, tree and commit, HEAD |
| `StatusRun`, `DiffRun` | `status.go`, `diff.go` |
| `Refuse`, `CtxEnd`, `Answer` | payload checks, the context, normalizer and step 7b |

go-git is external: that `Add` and `Commit` read and later write without a lock, and what
`PlainClone` removes when it fails, is modelled from how the adapter uses it. The files of the model
are none of the upstream's: those that a checkout of go-git writes, in place and not atomically, are
left out, so `WriteIsAtomic` is about what `write_file` writes.

### ExecutionDomain, the adapters, ChaosInjection, ReceiptPipeline

A constructor that can fail is an operator whose value is a set: what it built, or nothing. Integers
have a width (`Signed`), durations and instants are in units of which several make a millisecond,
so that truncation shows; a capability's name is the sequence of its dotted parts; a payload is what the checks of
its adapter tell apart. `ReceiptPipeline` follows one call with `pc` and the record `x`:
`Boot` (settings and profile), `Submit` (HTTP decoder or SDK), `Resolve`, `Dispatch` (with the
decorators), `LatencyOver`, `Interrupted`, `ShellStart`/`ShellEnd`, `HttpStart`/`HttpSend`/
`HttpReceive`, `OtherRun` (git and filesystem, any outcome), `Classify`, `Persist`, `GetReceipt`;
`TimePasses`, `Deadline` and `Cancel` come at any moment. `Deadline` is that of the run or, earlier, that
of the context a caller of the SDK brings (`sdk.go:129`); `Classified` tells both as a timeout.
`Persist` stores the row and tells of it, stores it and loses the acknowledgement, or does not store it
(`store`). A NUL may be in the payload, in an id of the request's metadata, or in the text of a result
that quotes a server or a remote (`HasNul`). `OtherRun` has acted when it was not refused and its
context has not ended, may have when its context ended, and a refused `write_file` may have made its
parents (`MakesParents`). A panic of a real adapter is in `ExecuteService`; here only an injected one is.
External: a `jsonb` column keeps a document's value and not its layout, and refuses a NUL in a string;
`encoding/json` writes no year outside 0 to 9999.

### RuntimeLifecycle

`pc` is the main goroutine: the seventeen steps of `BuildRuntime` in order (those of `SetupOTel`
skipped when telemetry is off), then listen, serve, drain, close collector, close telemetry, close
pool, exited. `held` is what is open; `Opens` and `Releases` say what a step opens and what its
failing branch releases. `StepSucceeds`, `StepFails`, `Listen`, `SignalNoticed`, `ServerFails`,
`DrainEnds`, `DrainExpires`, `CloseCollector`, `CloseTelemetry`, `ClosePool` are main's;
`Accept`, `AdapterReturns`, `Acquire`, `StatementReturns` and `Interrupted` (its client hangs up) a
request's; `Signal`, `DatabaseHangs` and `GraceEnds`, the timer of the shutdown's context, come from
outside. Each statement of a request takes a connection (`conn`): the lookup of the key, the reading of
a receipt, for a replay or a GET, and the save of a structural failure on the caller's context; the
save, the key's `Record` and its second look on a background one. None has a deadline of its own; the
readiness probe has one of two seconds and is left out. External: pgxpool's `Close` refuses new
statements and waits for those that have a connection; net/http's `Shutdown` stops accepting at once
and polls the handlers until its context ends; the OTel SDK's tracer, shut down with a context that has
ended, returns before its span processor and exporter are (`Closes`), its meter closes all the same.

## 3. Runs

| Run | Instance | Shows | States |
|---|---|---|---|
| `execute_faults` | two calls with one key, capacity 2, all store, id and normalizer faults, panics, a client that may disconnect, one crash, one expiry | `TypeOK`, `AnswerAudited`, `EffectAccounted`, `KeyRowSound`, `RefusalMeansNotRun`, `MetricsExact`, `Immutable` | 1.5 M |
| `execute_outcomes` | one wired and one unwired capability, all seven raw outcomes, both ways a context can end, one crash | `ReceiptTruthful`; `Answered` under `LiveSpec` | 0.2 M |
| `execute_three` | three calls, two with one key, capacity 2, one expiry | `LimiterExact`, `ReplayHonoured`, `ImplementsAuditedRuntime` | 0.6 M |
| `claim_same_key`, `claim_replay_everything`, `claim_conflict` | two calls, nothing fails | violations, section 6 | small |
| `linear_faults` | two firing POSTs and a resolved one of one group, 5xx and late calls, one crash, time 0..1 | `TypeOK`, `OneOpenIssue`, `ClosedIsExplained`, `OKMeansDone`, `CommentsInPlace`, `ResolvedClears` | 2.9 M |
| `linear_live` | firing POSTs of two groups that share labels; 4xx, lost answers, clients hanging up | `LabelsExist`; `Answered` under `LiveSpec` | 11 k |
| `claim_retry_duplicate` | a POST and its retry, late calls | violation, section 6 | small |
| `workspace` | every pair of seventeen operations of which one writes, on three directories and four files, and three calls where a third matters; I/O, removal and git faults, a deadline, one crash, a file that grows | `TypeOK`, `WriteIsAtomic`, `NoTempLeft`, `NoBlindOverwrite`, `FailedWorktreeLeavesNothing`, `NothingLostButToARace`, `CommitKept`, `CommitTakesOnlyItsOwn`, `PartialFetchedOrFound`, `ReadIsComplete` | 1.3 M |
| `receipt_pipeline` | 27 settings of the runtime, about sixty inputs over HTTP and the SDK, twelve responses, three exit codes | `ReadsBack`, `NeverLongerThanAsked`, `ReceiptKept`, `InjectionContained`, `EffectTold`, `TimesInOrder`, `HttpWithinLimits` | 4.5 M |
| `runtime_lifecycle` | three requests over two connections, telemetry on or off, any step failing, a signal at any time, a database that may hang | `NothingLeftOpen`, `LostOnlyAfterGrace`; `SignalEndsProcess` under `Fairness` | 226 k |

**Bounds.** Calls and POSTs are made once each, so instances end; deadlock is therefore not
checked. Two calls with one key are the smallest case of every race on a key; a third call is
needed to have a call refused while two are inside, and to have a winner, a loser and a replay of
one key. One crash is enough to meet every pair of consecutive steps with a restart, since a
restarted process holds nothing of the old one. One expiry lets a key be fresh, live and expired in
one behaviour. In `linear_faults` two firing POSTs stand for a notification and its repetition, and
the resolved one comes before, between, during or after; `RecommentMinInterval = 1` with a clock up
to 1 gives issues that are too young and old enough. The two firing POSTs are alike and are
declared symmetric; the calls of `ExecuteService` are not (they differ in key or capability).

In `workspace` a race needs two calls, of which one writes, and every such pair of operations is tried. Two scenarios have a
third: a commit can only take in what a failed commit left once the file exists again, and a clone
can only undo a commit in its directory once there is a file to commit. Calls `c1` and `c2` may be
swapped and are symmetric. Files are two long, the inline limit is
two and a file may grow to three, so a stream is inline, truncated, or longer than its size; a read asks
for less than the file, for more, and for the largest int, here 9.
In `receipt_pipeline` arithmetic has eight bits and a millisecond ten units: budgets of 1, 3, 4, 13,
26, 27 and 127 ms give a product below the SDK's cap, at and above it, wrapped into a negative one
and wrapped into a short positive one. Times 12 to 33 in steps of 7 cross a millisecond, the latency
and each of the timeouts 10, 15 and 20; a caller's own deadline falls before and after them. Body, header and metadata sizes lie on both sides of their
limits. Three requests over two connections let one wait for a connection while two save.

**Fairness.** `ExecuteService`: a call that is inside the service takes its next step (a goroutine
runs, a database statement ends), a timer that was armed fires, an adapter whose context is done
returns. Nothing is assumed of an adapter whose context is live, of a caller, or of a client. That
a database statement ends is an assumption about PostgreSQL and the network: `Save` and `Record` run
on `context.Background()` without a deadline (hazard at `execute_service.go:375`).
`LinearLifecycle`: the HTTP client's timeout of 10 s ends every call, with or without an answer;
nothing is assumed of calls that are late.
`RuntimeLifecycle`: the main goroutine and the timer of the grace period are scheduled, and a
database that has not hung ends the statement it has. Adapters need not return, requests need not
arrive, and the server need not fail. What is left without a deadline is in the property itself
(`Stuck`): migrations, and a statement that `pool.Close` waits for, on a database that hangs.

## 4. What is proved

All theorems hold for every value of the constants that satisfies the assumptions named in the
modules; TLC evaluates each of them on the instances above. They give the constants their types
(`KeyAssumption`, `CapabilityAssumption`, `TimeoutAssumption`, `BoundAssumption`; `RequestAssumption`,
`ClockAssumption`, `FaultAssumption`; `LifecycleAssumption`; `TreeAssumption`, `OperationAssumption`,
`ScenarioAssumption`, `WorkspaceBounds`; `WidthAssumption`, `LimitAssumption`, `HttpAssumption`,
`PipelineAssumption`, `OutsideAssumption`) and leave the rest open: any number of calls (finitely many,
for the counting), keys, slots, crashes, files, directories, inputs, responses, connections, and any
set of faults. A few say more than a type. `OperationAssumption` has the paths of a commit inside its
repository. `CallAssumption` of `WorkspaceTree` keeps two marks out of the names of the calls, that of
`ReceiptPipeline` says what Go's types make sure of in an input. `PipelineAssumption` has every capability
of the catalog built by `NewCapability`, and a clock past the zero time. `PowerAssumption` is
arithmetic: the provers know nothing of exponentiation, so what the proofs use of 2^Width is stated.

**ExecuteServiceProofs.** `Consistency` proves the inductive invariant `Consistent`; `TypeCorrect`,
`LimiterIsExact`, `AnswersAreAudited`, `EffectsAreAccounted`, `RefusalsAreHonest`,
`KeyRowsAreSound`, `ReplaysAreHonoured`, `ReceiptsAreTruthful` follow from it, and
`TablesAreImmutable` from the shape of every step. Why the strengthening is needed: the properties
speak of answers that were given, so the invariant must say what a call holds while it is on its
way to an answer. `Progress` ties each place in `Execute` to whether the adapter ran and to a
truthful pending result; `Ledger` says that receipts have ids already handed out and belong to
calls past `Save`, so that a new receipt is new; `Supported` says what backs the answer a call is
about to give (for a replay: the receipt it looked up is stored and is of its key); `Replays`
carries "the row was live when the call came in" through `Expire`. `LimiterExact` needs counting:
`Cardinality` of the calls inside changes by one with every acquire and release.

**AuditedRuntimeProofs.** `ContractIsImplemented` is the refinement, `CountersAreExact` the metrics.
`Consistent` is not enough for either. An answer is an id, and the abstract ledger holds calls: to map
the answer, one must know whose receipt the id names, and that receipts which come later do not change
that. A counter moves in the step that returns, and must be the number of calls that have returned so:
one must know that a call has returned nothing before. `Traced` says what a call holds at each place,
and whose receipt it answers with; `CallsAreTraced` proves it. The counters then follow from one fact
about sets: each step changes the set of calls that a counter counts by at most the call that takes it.
The refinement goes through the mapping call by call: a dispatch is `Invoke`, a row that is stored is
`Audit`, acknowledged or not, the deferred release (or a refusal) is `Answer`, a crash is `Abandon` of
the calls inside, and every other step is none.

**LinearLifecycleProofs.** `AlwaysCoherent` proves `Coherent`; `LinearTyped`, `OneOpenIssueHolds`,
`ClosedIsExplainedHolds`, `CommentsInPlaceHolds` follow. `OneOpenIssue` alone is
not inductive: a POST on its way to a create, or a create its client has given up on, will open an
issue later. `OneWriter` says that, in a group whose firing POSTs have not overlapped, there is at
most one of these, and no open issue while there is one. `BranchSound` and `LateSound` say that the
place of a POST, and a mutation under way, determine the issue they are about; they make
`ClosedIsExplained` and `CommentsInPlace` inductive, because an archive is only sent for an issue
that has its comment. The proof rests on three lemmas about Linear: a mutation only adds
(`ApplyEffect`, `CommentEffect`), what was established about an issue stays so (`Stable`), and only a
create opens an issue, in the group of its POST (`OpenAfter`).
`LabelsAlwaysExist` needs `Labelled`: a POST past `EnsureLabelByName`, and a create whose client has
given up, name labels that the team has already, and labels are never removed. `ResolvedAlwaysClears`
needs `Solitary`: where the POSTs of a group have not overlapped, one runs at a time, without a late
create beside it, and a resolved one that has found an issue has found all that is open. `OneWriter`
does not say this, because it lets firing and resolved POSTs overlap. `OKMeansDoneHolds` is a theorem
about the step that answers, and needs `Standing`: POSTs of a group that are handled together have met,
an archive that is under way belongs to a POST that was answered 502, an issue is of one group only;
so whoever closes the issue between a firing POST's query and its update is one of the two the
property names (`StillStands`).

**WorkspaceProofs, RepositoryProofs.** Each action is first reduced to what it changes (the lemmas
named `...Effect`): a step is one call's, and leaves the other calls' data alone. `Core` is inductive:
the types with those of the calls' own data (`Typed`), which adapter a place belongs to (`Labelled`),
that calls which run together have met (`Meeting`), where a temporary file is and when it is whole
(`Temps`), that a file is the whole version of a write that succeeded (`Versions`), that a reader's view
is of such a version (`Views`). `WritesAreAtomic`, `TempsAreRemoved` and `ReadsAreComplete` follow: only
a rename puts a file in place, and only once it is filled; a `RemoveAll` of another call takes temporary
files and makes none.

What calls may take from each other is in `RepositoryProofs`. `Claims`: what a call found absent or
empty can only have been filled by calls it has met; hence `OverwritesOnlyRaces` and `RemovesOnlyRaces`.
`Makers`: a repository belongs to the clone that made it, and one of a `worktree.create` that has
returned is there only if that succeeded or could not remove it; hence `FailedWorktreesAreUndone`.
`Fetches` ties the outcome of a clone to its fetch and to what it found (`PartialIsFetchedOrFound`).
The commits rest on one argument: whoever takes a step while an uncontended commit runs has met it,
and so does not write to its repository. `Staging` follows the paths from the payload into the index
and the tree, `History` keeps the commit in HEAD's log and in every log that was read from it since,
`Stagers` and `Leftovers` say who staged what the index has and HEAD has not, `Told` that success means
that HEAD was set. `CommitsAreKept` and `CommitsTakeTheirOwn` follow. An earlier form of both properties
counted only commits as contenders; its proof failed on a clone that clears the directory in which a
commit runs, the instance now has that scenario, and both name every call that writes to the repository.

**ReceiptPipelineProofs.** `IInv` follows the call. `Asked`: from the moment it is accepted, its request
is one the front's checks let through. `Staged`: what each place has not set yet. `Handled`: the handle
and the effective timeout, which is positive and the least of three (`SignedNeverGains`: a wrapped product
is never larger than the product); a deadline that was seen has passed (`Expired`). `Injected`: what the
two validators leave of a profile. `Exchanged`: where a process or an exchange is, and the redirects so far. `Returned`: a raw outcome is sound, that is,
a success is earned by having acted or was asked for by the caller or the profile. `Reported`: what the
result says is so. `Delivered`: the row is the wire form of the answer, told of or not, or there is one of the
named reasons why there is none. `ReadsBack` is then kept by `GetReceipt`, from lemmas on the wire
(`BudgetRoundTrip`, `RequestRoundTrip`, `HandleRoundTrip`, `UnmarshalRec`): reading back what was written
and writing it again gives the same document. Three properties (`ReadsBack`, `ReceiptKept`, `EffectTold`)
turned out to be too strong in the attempt, each by an input that the code accepts; section 6 has them.

**RuntimeLifecycleProofs.** `AlwaysOrderly` proves `Orderly`, from which `NothingIsLeftOpen` and
`NothingLostBeforeGrace` follow. "Everything is closed at the exit" is not inductive: it depends on
what was open at the step that failed. `HeldInOrder` bounds what is open at each place of the start
by what the branch of a failure there releases, and at each place of the shutdown by what is still to
be closed; the proof then goes through the seventeen steps (`Schedule`, `Follows`).
`DrainedInOrder` says that nothing is accepted outside the select, that the shutdown goes on with
requests open only past the grace period, and that this is an error the exit code reports. Spans left
unflushed are followed back to the end of the context that the clean-up was given.

## 5. Only model-checked

Every invariant and action property of the passing runs, and the refinement, is proved. Liveness
(`Answered` of both modules, `SignalEndsProcess`) is outside the prover and stays with TLC, on the
instances of section 3; so do the four runs that end with a counterexample.

## 6. Disagreements between documents and code

Each is a run that TLC ends with a counterexample; the quotations are in `PROJECT.json`.

1. `claim_same_key`: within the window a key is not executed twice (phase 1 design, line 146).
   Lookup and Record are separate and nothing reserves the key: two overlapping calls both run.
   What does hold is `ReplayHonoured`: a call that comes in while the row is live does not run.
2. `claim_replay_everything`: a key caches every terminal status (line 587). `persistStructural`
   answers with a receipt and never records the key.
3. `claim_conflict`: Record conflicts only in a race (port comment). A row whose window has run out
   is never removed, so every later call with that key conflicts, alone as it may be, and the key
   never deduplicates again.
4. `claim_retry_duplicate`: a second attempt finds the issue of the first (phase 2C.4 design, line
   729). A create that timed out may take effect after the retry's query.

Seen while modelling, without a run of their own: R13 (`docs/rules.md:105`) promises a receipt for
every execution, requests that the HTTP decoder refuses get none; a resolved POST that failed between
comment and archive comments again when it is retried (`lifecycle.go:154`);
`RecommentMinInterval` is compared with the age of the issue, not of the last comment
(`lifecycle.go:128`, comment at line 37); the counter `idempotency.replays` is declared and never
moved; a context that ends right after the adapter's success turns it into a timeout
(`execute_service.go:244`), which `ReceiptTruthful` allows because the context did end.

Seen while modelling the other parts; the properties of section 3 state exactly how far each goes:

- A budget that wraps passes the SDK's cap, since the product is taken before it is compared
  (`timeout_budget.go:23`); `minDuration` still keeps the run short (`NeverLongerThanAsked`).
- A request with a NUL in its payload or an id of its metadata, or a `submitted_at` outside the years 0 to
  9999, is accepted, acted on, and then has no receipt; nor has a call whose error quotes a NUL that a
  server sent. A row whose acknowledgement is lost is stored, and its caller is told of an error
  (`ReceiptKept`). The structural path saves on the caller's context
  (`execute_service.go:524`), the other on a background one.
- A `submitted_at` in the millisecond of the zero time is written as the zero time and read back as the
  moment of reading (`request.go:258`); every other request is read back as it was (`ReadsBack`).
- `exit_success` may hold -1, which is also the code of a process that never started
  (`shell/adapter.go:121`): such a call succeeds without having run anything (`EffectTold`). A
  `write_file` with `create_dirs` makes the directories before it refuses the path (`write.go:34`), so a
  `validation_failure` does not mean that nothing was touched.
- `mustBuildTimings` speaks of "already-ordered times" (`structural.go:115`); over HTTP `submitted_at`
  is the caller's and may be ahead of the clock (`TimesInOrder`).
- `persist_failure` under `adapters` is accepted: the parser and `ValidateProfileSupport`
  (`validate_support.go:39`) each leave it to the other (`InjectionContained`). A profile's timing is
  checked and never used. An injected `process_exit` of 0 is a success that did nothing.
- A failing `worktree.create` or `clone` can remove what an overlapping call made
  (`NothingLostButToARace`); a failed commit leaves its staged paths for the next one
  (`CommitTakesOnlyItsOwn`); a commit can be lost to another commit,
  a clone or a `worktree.create` that overlaps it in its repository (`CommitKept`); a failed clone
  is partial if its directory is there, whoever made it, go-git itself included when its initialisation
  or its clean-up fails (`PartialFetchedOrFound`).
- `SetupOTel` says "On error the global providers are NOT modified" (`otel.go:43`); the tracer
  provider is set before the metric exporter is made (`otel.go:80`).
- The shutdown's telemetry step "flushes any spans/metrics generated during the handler drain"
  (`wire.go:310`) with the context of the drain: when the drain has used it up, the SDK flushes no span
  and leaves the exporter open; the process exits with 1. A start that fails after a signal does the
  same (`NothingLeftOpen`).
- `pool.Close` comes "last — by now no handler needs it" (`wire.go:312`); past the grace period it waits,
  without a deadline, for every statement in flight (`SignalEndsProcess`).
- The largest body size loses its body, and the largest read limit its content: the limit plus one
  wraps (`request.go:76`, `read.go:51`; `HttpWithinLimits`, `ReadIsComplete`).
- The log mirror's file is never closed (`obs/log/logger.go:40`), `MaxPayloadBytes` of the configuration
  (`load.go:51`) is not what the handler and the SDK use.

## 7. Hazards

`PROJECT.json` lists, at their lines, the orders and failures a test would hardly reach, with the
properties that cover them. Two have no property. `cmd.Run` waits for the output pipes, and no
`WaitDelay` is set, so a grandchild that keeps one open holds a call past its deadline: the code
bounds nothing there, and `Answered` takes an adapter whose context is done to return. The Grafana
webhook posts annotations again when Alertmanager repeats a group: it keeps nothing that would tell a
repetition. A firing alert can be acknowledged on an issue that was
archived between its query and its update; `OKMeansDone` says that this takes a resolved POST about the
same issue that overlapped it, or one that had given up on its archive, and TLC finds both.

## 8. Not modelled

- HTTP router and middleware: request ids, spans, access logs, and a panic turned into a 500, without
  state that two requests share.
- Grafana annotations webhook: a loop over the alerts of one POST that keeps no state.
- Configuration: only that it succeeds or refuses to start, and the chaos settings. The parsing of
  each variable is left out, and so are the checks of the webhook binary's environment.
- Migrations: a step that ends with the database. The schema is what the tables are.
- Read endpoints other than `GetReceipt`: they read the registry or ping the pool.
- Exporters, log handlers and the pool collector's readings are I/O; the counters that `Execute` moves
  and the life of the exporters are modelled.
- Of the entities: provenance, artifacts and the syntax of ids, on which nothing branches. Of the
  adapters: environment and stdin of a process, file modes, checksums, commit messages, diffs, and
  what a URL resolves to, which is an input.

## 9. Plan

No invariant, action property or refinement is left to prove. What could still be added:

1. Theorems that join the modules: that the outcomes `Workspace` and `ReceiptPipeline` end with are among
   the raw outcomes that `ExecuteService` takes an adapter to have.
2. The counting of `AuditedRuntimeProofs` (`OneMore`) and that of the limiter are one argument and could
   share a lemma.
