---------------------------- MODULE WorkspaceTree ----------------------------
(***************************************************************************)
(* The directory tree that the filesystem and git adapters work on, and    *)
(* the calls under way on it.  Every adapter call runs on a goroutine of   *)
(* its own and nothing locks the tree, so each system call, and each       *)
(* operation of go-git that reads and later writes, is a step.             *)
(***************************************************************************)
EXTENDS Naturals, FiniteSets, Sequences

CONSTANTS
  Call,            \* the adapter calls that may be made
  Dir, File,       \* directories, and the files that can be in them
  DirOf,           \* the directory of each file
  InitDirs,        \* directories that exist at first
  InitFiles,       \* files that exist at first
  InitRepos,       \* directories that hold a repository at first
  FsRoots,         \* directories within AllowedFilesystemRoots
  GitRoots,        \* directories within AllowedWorkingDirs
  SSHAgent,        \* is ssh-agent authentication enabled in git.Config
  Operation,       \* what a call may ask for
  Scenario,        \* who asks for what, NoOp for a call that is not made
  Faults,          \* the failures this instance lets happen
  CtxEnds,         \* how the execution context of a call may end
  FileLen,         \* length of a file as it is written
  Growing,         \* files that another program appends to
  MaxLen,          \* bound on the length a file grows to in place
  MaxInt,          \* the largest int
  InlineStreamLimit,
  MaxCrashes       \* bound on process crashes

FaultKind == {"io", "remove", "git"}

WriteOp    == [cap : {"write_file"}, file : File, overwrite : BOOLEAN, createDirs : BOOLEAN]
ReadOp     == [cap : {"read_file"}, file : File, max : 1 .. MaxInt]
CloneOp    == [cap : {"clone"}, dir : Dir, auth : {"none", "ssh-agent", "password"}, ref : BOOLEAN]
WorktreeOp == [cap : {"worktree.create"}, dir : Dir, upstream : Dir, branch : BOOLEAN]
CommitOp   == [cap : {"commit"}, dir : Dir, paths : Seq(File), allowEmpty : BOOLEAN]
StatusOp   == [cap : {"status"}, dir : Dir]
DiffOp     == [cap : {"diff"}, dir : Dir, max : 1 .. MaxInt]
NoOp       == [cap |-> "none"]  \* A max of 0 or less stands for the default.

ASSUME TreeAssumption ==
  /\ DirOf \in [File -> Dir] /\ FsRoots \subseteq Dir /\ GitRoots \subseteq Dir
  /\ InitDirs \subseteq Dir /\ InitRepos \subseteq InitDirs
  /\ Growing \subseteq File /\ InitFiles \subseteq {f \in File : DirOf[f] \in InitDirs}
ASSUME OperationAssumption ==
  /\ \A o \in Operation : \/ o \in WriteOp \/ o \in ReadOp \/ o \in CloneOp
                          \/ o \in WorktreeOp \/ o \in CommitOp \/ o \in StatusOp \/ o \in DiffOp
  /\ \A o \in Operation : o.cap = "commit" =>
       \A i \in DOMAIN o.paths : DirOf[o.paths[i]] = o.dir
ASSUME ScenarioAssumption == Scenario \subseteq [Call -> Operation \cup {NoOp}]
\* Two marks that no call is named: of what nobody and of what no call wrote.
ASSUME CallAssumption == "none" \notin Call /\ "outside" \notin Call /\ IsFiniteSet(Call)
ASSUME WorkspaceBounds ==
  /\ SSHAgent \in BOOLEAN /\ Faults \subseteq FaultKind
  /\ CtxEnds \subseteq {"canceled", "deadline"}
  /\ MaxInt \in Nat /\ MaxLen \in 1 .. MaxInt /\ FileLen \in 1 .. MaxLen /\ InlineStreamLimit \in Nat \ {0}
  /\ MaxCrashes \in Nat

VARIABLES
  (* the disk: survives a crash *)
  dirs,      \* directories that exist
  file,      \* contents of each file
  tmp,       \* the temporary file of each write_file call
  repo,      \* the repository in each directory
  (* the calls *)
  pc, op,
  ctx,       \* Err() of the call's execution context
  mem,       \* what the call has read and not yet used
  raw,       \* the adapter's raw outcome
  ans,       \* the ExecutionResult made of it
  (* history and bounds *)
  met,       \* calls that were under way at a time when this one was
  landed,    \* calls whose effect is or was in the tree
  stuck,     \* calls that left behind what was to be removed
  crashes

diskVars == <<dirs, file, tmp, repo>>
callVars == <<pc, op, ctx, mem, raw, ans>>
historyVars == <<met, landed, stuck, crashes>>
vars == <<diskVars, callVars, historyVars>>

-----------------------------------------------------------------------------
(* Values *)

\* Who wrote a file, whether all of it is there, and how long it is now.
NoFile == [by |-> "none", whole |-> TRUE, len |-> 0]
Written(c, whole) == [by |-> c, whole |-> whole, len |-> FileLen]
NoFiles == [f \in File |-> NoFile]

\* index: what is staged.  stager: who staged it.  tree, log: HEAD's files and
\* the commits it can reach.
NoRepo == [by |-> "none", ready |-> FALSE, index |-> NoFiles,
           stager |-> [f \in File |-> "none"], tree |-> NoFiles, log |-> {}]
NewRepo(c, ready) == [NoRepo EXCEPT !.by = c, !.ready = ready]

NoMem == [view |-> NoFile, total |-> 0, todo |-> <<>>, fresh |-> "none", copy |-> NoRepo,
          delta |-> {}]

\* err: which of ctxErr, validation and runErr is set.  The rest are the
\* fields of the raw types that the normalizers look at.
NoRaw == [err |-> "none", data |-> 0, total |-> 0, path |-> FALSE, fetchOK |-> FALSE,
          checkoutOK |-> FALSE, head |-> FALSE, ref |-> FALSE]
Failed(kind) == [NoRaw EXCEPT !.err = kind]

NoAnswer == [status |-> "none", hint |-> "none", class |-> "none", artifacts |-> {}, stream |-> "none"]
Outcome(status, hint, class) ==
  [NoAnswer EXCEPT !.status = status, !.hint = hint, !.class = class]
Success(artifacts, stream) ==
  [NoAnswer EXCEPT !.status = "success", !.hint = "non_retryable", !.artifacts = artifacts,
                   !.stream = stream]

Running(c) == pc[c] \notin {"idle", "done", "lost"}
Goto(c, label) == pc' = [pc EXCEPT ![c] = label]
Remember(c, m) == mem' = [mem EXCEPT ![c] = m]

\* os.ReadDir(d) finds an entry: a file, a temporary file or a repository.
NonEmpty(d) ==
  /\ d \in dirs
  /\ \/ \E f \in File : DirOf[f] = d /\ file[f] # NoFile
     \/ \E c \in Call : tmp[c].state # "none" /\ tmp[c].dir = d
     \/ repo[d] # NoRepo

NoTmp == [state |-> "none", dir |-> "none"]

\* os.RemoveAll(d), and go-git's removal of what it finds in d; gone is
\* whether d itself goes.
Emptied(d, gone) ==
  /\ dirs' = IF gone THEN dirs \ {d} ELSE dirs
  /\ file' = [f \in File |-> IF DirOf[f] = d THEN NoFile ELSE file[f]]
  /\ tmp' = [c \in Call |-> IF tmp[c].dir = d THEN NoTmp ELSE tmp[c]]
  /\ repo' = [repo EXCEPT ![d] = NoRepo]

-----------------------------------------------------------------------------
Init ==
  /\ dirs = InitDirs
  /\ file = [f \in File |-> IF f \in InitFiles THEN Written("outside", TRUE) ELSE NoFile]
  /\ tmp = [c \in Call |-> NoTmp]
  /\ repo = [d \in Dir |-> IF d \in InitRepos THEN NewRepo("outside", TRUE) ELSE NoRepo]
  /\ pc = [c \in Call |-> "idle"] /\ op \in Scenario
  /\ ctx = [c \in Call |-> "none"] /\ mem = [c \in Call |-> NoMem]
  /\ raw = [c \in Call |-> NoRaw] /\ ans = [c \in Call |-> NoAnswer]
  /\ met = [c \in Call |-> {}] /\ landed = {} /\ stuck = {} /\ crashes = 0

\* A call is dispatched to its adapter.
Begin(c) ==
  /\ pc[c] = "idle" /\ op[c] # NoOp
  /\ Goto(c, "start")
  /\ met' = [b \in Call |-> IF b = c THEN {x \in Call : Running(x)}
                            ELSE IF Running(b) THEN met[b] \cup {c} ELSE met[b]]
  /\ UNCHANGED <<diskVars, op, ctx, mem, raw, ans, landed, stuck, crashes>>

\* The budget runs out, or the caller goes away.
CtxEnd(c, e) ==
  /\ Running(c) /\ ctx[c] = "none"
  /\ ctx' = [ctx EXCEPT ![c] = e]
  /\ UNCHANGED <<diskVars, pc, op, mem, raw, ans, historyVars>>

\* The adapter returns r.
Return(c, r) == Goto(c, "returned") /\ raw' = [raw EXCEPT ![c] = r]

\* Execute of either adapter: a finished context, or a payload that does not
\* decode or lacks a required field.
Refuse(c) ==
  /\ pc[c] = "start"
  /\ Return(c, Failed(IF ctx[c] # "none" THEN ctx[c] ELSE "validation"))
  /\ UNCHANGED <<diskVars, op, ctx, mem, ans, historyVars>>

\* The process dies: its calls with it, the disk stays as it is.
Crash ==
  /\ crashes < MaxCrashes /\ \E c \in Call : Running(c)
  /\ crashes' = crashes + 1
  /\ pc' = [c \in Call |-> IF Running(c) THEN "lost" ELSE pc[c]]
  /\ UNCHANGED <<diskVars, op, ctx, mem, raw, ans, met, landed, stuck>>

\* The first three priorities of every normalizer of both adapters.
NormalizeError(r) ==
  CASE r.err = "deadline"   -> Outcome("timeout", "retryable", "timeout")
    [] r.err = "canceled"   -> Outcome("cancelled", "non_retryable", "cancelled")
    [] r.err = "validation" -> Outcome("failure", "non_retryable", "validation_failure")
    [] r.err = "run"        -> Outcome("failure", "unknown", "external_failure")
=============================================================================
