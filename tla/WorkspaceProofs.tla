--------------------------- MODULE WorkspaceProofs ---------------------------
(***************************************************************************)
(* Proofs about the filesystem and git adapters on one tree, for any       *)
(* number of calls, files and directories and every set of faults: types,  *)
(* what each step comes to, and the files.  RepositoryProofs goes on with  *)
(* the repositories.                                                       *)
(***************************************************************************)
EXTENDS Workspace, TLAPS

-----------------------------------------------------------------------------
(* The inductive invariant *)

Memory == [view : Content, total : Nat, todo : Seq(File),
           fresh : {"none", "absent", "empty", "used"}, copy : Repo, delta : SUBSET File]
RawErr == {"none", "canceled", "deadline", "validation", "run"}
RawOutcome == [err : RawErr, data : Nat, total : Nat, path : BOOLEAN, fetchOK : BOOLEAN,
               checkoutOK : BOOLEAN, head : BOOLEAN, ref : BOOLEAN]

\* What TypeOK does not say of the calls' own data.
Typed ==
  /\ TypeOK /\ op \in Scenario
  /\ mem \in [Call -> Memory] /\ raw \in [Call -> RawOutcome] /\ ans = [c \in Call |-> ans[c]]
  /\ \A c \in Call : pc[c] # "done" => ans[c] = NoAnswer

\* Which adapter a call is in.
Labelled ==
  \A c \in Call :
    /\ op[c] = NoOp => pc[c] = "idle"
    /\ pc[c] \in {"look", "create", "fill", "rename"} => op[c].cap = "write_file"
    /\ pc[c] \in {"open", "read"} => op[c].cap = "read_file"
    /\ pc[c] \in {"init", "fetch", "checkout"} => op[c].cap \in Cloning
    /\ pc[c] \in {"base", "undo", "undoCheckout"} => op[c].cap = "worktree.create"
    /\ pc[c] \in {"add", "all", "added", "build", "land"} => op[c].cap = "commit"

\* Two calls that run at the same time have met.
Meeting ==
  /\ \A b, c \in Call : Running(b) /\ Running(c) /\ b # c => b \in met[c]
  /\ \A c \in Call : pc[c] = "idle" => met[c] = {}

\* A temporary file is in its target's directory, and whole before the rename.
Temps ==
  \A c \in Call : tmp[c] # NoTmp =>
    /\ op[c].cap = "write_file" /\ tmp[c].dir = DirOf[Target(c)]
    /\ tmp[c].state # "none"
    /\ pc[c] \in {"fill", "rename", "lost"} \/ c \in stuck
    /\ pc[c] = "rename" => tmp[c].state = "whole"

\* A file that is there was written, all of it, by a write that succeeded.
Versions ==
  \A f \in File :
    /\ file[f].whole /\ (file[f].by = "none" => file[f] = NoFile)
    /\ \A c \in Call : file[f].by = c =>
         /\ op[c].cap = "write_file" /\ Target(c) = f
         /\ pc[c] \in {"returned", "done", "lost"} /\ raw[c].err = "none"
         /\ pc[c] = "done" => ans[c].status # "failure"

\* A reader's view is of a version that is complete, and grows with it.
Views ==
  \A c \in Call :
    /\ pc[c] = "read" =>
         /\ mem[c].view.by # "none"
         /\ \A b \in Call : mem[c].view.by = b => pc[b] \in {"returned", "done", "lost"}
         /\ mem[c].view.by = file[Target(c)].by => mem[c].view.len = file[Target(c)].len
         /\ mem[c].view.len >= mem[c].total
    /\ pc[c] = "returned" /\ op[c].cap = "read_file" /\ raw[c].err = "none" =>
         /\ raw[c].data <= mem[c].view.len /\ raw[c].total = mem[c].total
         /\ op[c].max # MaxInt => raw[c].data >= Least(mem[c].total, op[c].max)

Core == Typed /\ Labelled /\ Meeting /\ Temps /\ Versions /\ Views

-----------------------------------------------------------------------------
(* What an operation asks for, and what a step leaves alone *)

\* What the fields of an operation range over, capability by capability.
LEMMA OpFields ==
  ASSUME op \in Scenario, NEW c \in Call
  PROVE  /\ op[c] = NoOp \/ op[c] \in Operation
         /\ op[c] = NoOp => op[c].cap = "none"
         /\ op[c].cap = "write_file" =>
              op[c].file \in File /\ op[c].overwrite \in BOOLEAN /\ op[c].createDirs \in BOOLEAN
         /\ op[c].cap = "read_file" => op[c].file \in File /\ op[c].max \in Nat
         /\ op[c].cap \in Cloning \cup {"commit", "status", "diff"} => op[c].dir \in Dir
         /\ op[c].cap = "worktree.create" => op[c].upstream \in Dir
         /\ op[c].cap = "commit" => op[c].paths \in Seq(File)
         /\ op[c].cap = "diff" => op[c].max \in Nat
         /\ op[c] # NoOp => op[c].cap \in {"write_file", "read_file", "clone", "worktree.create",
                                           "commit", "status", "diff"}
<1>1. op[c] = NoOp \/ op[c] \in Operation
  BY ScenarioAssumption
<1>2. CASE op[c] = NoOp
  BY <1>2 DEF NoOp, Cloning
<1>3. CASE op[c] \in Operation
  <2>1. \/ op[c] \in WriteOp \/ op[c] \in ReadOp \/ op[c] \in CloneOp
        \/ op[c] \in WorktreeOp \/ op[c] \in CommitOp \/ op[c] \in StatusOp \/ op[c] \in DiffOp
    BY <1>3, OperationAssumption
  <2>2. op[c].cap # "none"
    BY <2>1 DEF WriteOp, ReadOp, CloneOp, WorktreeOp, CommitOp, StatusOp, DiffOp
  <2>3. op[c] # NoOp
    BY <2>2 DEF NoOp
  <2>4. 1 .. MaxInt \subseteq Nat
    BY WorkspaceBounds
  <2> QED
    BY <1>3, <2>1, <2>3, <2>4
       DEF WriteOp, ReadOp, CloneOp, WorktreeOp, CommitOp, StatusOp, DiffOp, Cloning
<1> QED
  BY <1>1, <1>2, <1>3

\* g is f, except perhaps at c.
Update(f, g, c) == g = [f EXCEPT ![c] = g[c]] /\ \A b \in Call \ {c} : g[b] = f[b]

LEMMA Updated ==
  ASSUME NEW f, f = [c \in Call |-> f[c]], NEW c \in Call
  PROVE  Update(f, f, c) /\ \A v : Update(f, [f EXCEPT ![c] = v], c)
  BY DEF Update

\* A step of call c: the other calls, the operations, the contexts and who met
\* whom stay as they are.
Own(c) ==
  /\ Running(c) /\ pc'[c] \in PC \ {"idle", "lost"}
  /\ UNCHANGED <<op, ctx, met, crashes>>
  /\ Update(pc, pc', c) /\ Update(mem, mem', c) /\ Update(raw, raw', c) /\ Update(ans, ans', c)

\* Steps that only read the tree and keep nothing of it, and those that keep it.
Asking(c) == \/ Refuse(c) \/ WriteLook(c) \/ ReadResolve(c) \/ ReadAll(c)
             \/ CloneLook(c) \/ CloneCheckout(c) \/ WorktreeLook(c) \/ WorktreeBase(c)
             \/ WorktreeCheckout(c) \/ StatusRun(c) \/ DiffRun(c)
Reading(c) == ReadOpen(c) \/ CommitOpen(c) \/ AddRead(c) \/ AddAll(c) \/ CommitBuild(c)
Writing(c) == \/ WriteMkdir(c) \/ WriteCreate(c) \/ WriteFill(c) \/ WriteRename(c)
              \/ PlainInit(c) \/ PlainFetch(c) \/ WorktreeUndo(c) \/ AddWrite(c) \/ CommitLand(c)
AdapterStep(c) == Answer(c) \/ Asking(c) \/ Reading(c) \/ Writing(c)

\* A step is an adapter's, or one of the few that are no call's own.
LEMMA NextCases ==
  ASSUME [Next]_vars
  PROVE  \/ \E c \in Call : AdapterStep(c) \/ Begin(c) \/ \E e \in CtxEnds : CtxEnd(c, e)
         \/ \E f \in File : Grow(f)
         \/ Crash \/ UNCHANGED vars
  BY DEF Next, AdapterStep, Asking, Reading, Writing, FilesystemStep, WriteStep, ReadStep, GitStep,
         CloneStep, WorktreeStep, CommitStep

LEMMA ReturnOwn ==
  ASSUME Typed, NEW c \in Call, NEW r, Return(c, r)
  PROVE  /\ pc'[c] = "returned" /\ raw'[c] = r
         /\ Update(pc, pc', c) /\ Update(raw, raw', c)
  BY Updated DEF Return, Goto, Typed, TypeOK

LEMMA GotoOwn ==
  ASSUME Typed, NEW c \in Call, NEW l, Goto(c, l)
  PROVE  pc'[c] = l /\ Update(pc, pc', c)
  BY Updated DEF Goto, Typed, TypeOK

LEMMA RememberOwn ==
  ASSUME Typed, NEW c \in Call, NEW m, Remember(c, m)
  PROVE  mem'[c] = m /\ Update(mem, mem', c)
  BY Updated DEF Remember, Typed

LEMMA SameOwn ==
  ASSUME Typed, NEW c \in Call
  PROVE  /\ pc' = pc => Update(pc, pc', c)
         /\ mem' = mem => Update(mem, mem', c)
         /\ raw' = raw => Update(raw, raw', c)
         /\ ans' = ans => Update(ans, ans', c)
  BY Updated DEF Typed, TypeOK

LEMMA CloneErrOwn ==
  ASSUME Typed, NEW c \in Call, CloneErr(c)
  PROVE  /\ op[c].cap = "clone" =>
              pc'[c] = "returned" /\ raw'[c] = [Failed(CtxOr(c, "run")) EXCEPT !.path = TRUE]
         /\ op[c].cap # "clone" => pc'[c] = "undo" /\ raw'[c] = raw[c]
         /\ Update(pc, pc', c) /\ Update(raw, raw', c)
  BY ReturnOwn, GotoOwn, SameOwn DEF CloneErr

LEMMA AskingOwn ==
  ASSUME Typed, NEW c \in Call, Asking(c)
  PROVE  Own(c) /\ UNCHANGED <<diskVars, landed, stuck, mem, ans>>
<1> USE ReturnOwn, GotoOwn, SameOwn DEF Own, Running, PC, historyVars
<1>1. CASE Refuse(c) \/ WriteLook(c) \/ ReadResolve(c) \/ ReadAll(c)
  BY <1>1 DEF Refuse, WriteLook, ReadResolve, ReadAll
<1>2. CASE CloneLook(c) \/ CloneCheckout(c) \/ WorktreeLook(c)
  BY <1>2 DEF CloneLook, CloneCheckout, WorktreeLook, At, Starting
<1>3. CASE WorktreeBase(c) \/ WorktreeCheckout(c)
  BY <1>3 DEF WorktreeBase, WorktreeCheckout, At
<1>4. CASE StatusRun(c) \/ DiffRun(c)
  BY <1>4 DEF StatusRun, DiffRun, Starting, At
<1> QED
  BY <1>1, <1>2, <1>3, <1>4 DEF Asking

LEMMA ReadingOwn ==
  ASSUME Typed, NEW c \in Call, Reading(c)
  PROVE  Own(c) /\ UNCHANGED <<diskVars, landed, stuck, ans>>
<1> USE ReturnOwn, GotoOwn, RememberOwn, SameOwn DEF Own, Running, PC, historyVars
<1>1. CASE ReadOpen(c) \/ CommitOpen(c)
  BY <1>1 DEF ReadOpen, CommitOpen, Starting, At
<1>2. CASE AddRead(c) \/ AddAll(c)
  BY <1>2 DEF AddRead, AddAll, At
<1>3. CASE CommitBuild(c)
  BY <1>3 DEF CommitBuild, At
<1> QED
  BY <1>1, <1>2, <1>3 DEF Reading

LEMMA WritingOwn ==
  ASSUME Typed, NEW c \in Call, Writing(c)
  PROVE  Own(c) /\ UNCHANGED ans
<1> USE ReturnOwn, GotoOwn, RememberOwn, SameOwn DEF Own, Running, PC, historyVars
<1>1. CASE WriteMkdir(c) \/ WriteCreate(c)
  BY <1>1 DEF WriteMkdir, WriteCreate
<1>2. CASE WriteFill(c) \/ WriteRename(c)
  BY <1>2 DEF WriteFill, WriteRename
<1>3. CASE PlainInit(c)
  <2>1. CASE repo[Dest(c)] # NoRepo
    BY <1>3, <2>1, CloneErrOwn DEF PlainInit
  <2>2. CASE repo[Dest(c)] = NoRepo /\ CloneErr(c)
    BY <1>3, <2>2, CloneErrOwn DEF PlainInit
  <2>3. CASE repo[Dest(c)] = NoRepo /\ ~CloneErr(c)
    <3>1. /\ pc[c] = "init" /\ Goto(c, "fetch") /\ UNCHANGED <<raw, op, ctx, met, crashes, ans>>
          /\ \E m : Remember(c, m)
      BY <1>3, <2>3 DEF PlainInit
    <3> QED
      BY <3>1
  <2> QED
    BY <2>1, <2>2, <2>3
<1>6. CASE PlainFetch(c)
  <2>1. CASE CloneErr(c)
    BY <1>6, <2>1, CloneErrOwn DEF PlainFetch
  <2>2. CASE Goto(c, "checkout") /\ UNCHANGED raw
    BY <1>6, <2>2 DEF PlainFetch
  <2> QED
    BY <1>6, <2>1, <2>2 DEF PlainFetch
<1>4. CASE WorktreeUndo(c)
  BY <1>4 DEF WorktreeUndo
<1>5. CASE AddWrite(c) \/ CommitLand(c)
  BY <1>5 DEF AddWrite, CommitLand
<1> QED
  BY <1>1, <1>2, <1>3, <1>4, <1>5, <1>6 DEF Writing

LEMMA AnswerOwn ==
  ASSUME Typed, NEW c \in Call, Answer(c)
  PROVE  /\ Own(c) /\ UNCHANGED <<diskVars, landed, stuck, mem, raw>>
         /\ pc[c] = "returned" /\ pc'[c] = "done"
         /\ ans' = [ans EXCEPT ![c] = ans'[c]]
         /\ ans'[c] = IF ctx[c] # "none" THEN NormalizeError(Failed(ctx[c])) ELSE Normalize(c)
<1>1. ans' = [ans EXCEPT ![c] = IF ctx[c] # "none" THEN NormalizeError(Failed(ctx[c]))
                                ELSE Normalize(c)]
  BY DEF Answer
<1> HIDE DEF Normalize, NormalizeError, Failed
<1>2. Update(ans, ans', c)
  BY <1>1, Updated DEF Typed
<1> QED
  BY <1>1, <1>2, GotoOwn, SameOwn DEF Own, Running, PC, historyVars, Answer, Typed

\* Every step of an adapter is a step of one call.
LEMMA StepOwn ==
  ASSUME Typed, NEW c \in Call, AdapterStep(c)
  PROVE  Own(c)
  BY AskingOwn, ReadingOwn, WritingOwn, AnswerOwn DEF AdapterStep

\* The other steps: a call begins, a context ends, a file grows, a crash, or
\* nothing happens.  None of them changes the disk but for a file's length.
LEMMA BeginEffect ==
  ASSUME Typed, NEW c \in Call, Begin(c)
  PROVE  /\ pc[c] = "idle" /\ op[c] # NoOp /\ pc' = [pc EXCEPT ![c] = "start"]
         /\ UNCHANGED <<diskVars, op, ctx, mem, raw, ans, landed, stuck, crashes>>
         /\ met' \in [Call -> SUBSET Call] /\ \A b \in Call : met[b] \subseteq met'[b] \/ b = c
         /\ \A b \in Call \ {c} : met'[b] = IF Running(b) THEN met[b] \cup {c} ELSE met[b]
         /\ met'[c] = {x \in Call : Running(x)}
  BY DEF Begin, Goto, Typed, TypeOK

-----------------------------------------------------------------------------
(* What each step that writes to the tree, or remembers it, comes to *)

\* The call returns the error e.
Errs(c, e) == pc'[c] = "returned" /\ raw'[c] = Failed(e)

LEMMA FailedErr ==
  ASSUME NEW e
  PROVE  Failed(e).err = e /\ ~Failed(e).fetchOK /\ ~Failed(e).checkoutOK
         /\ ~Failed(e).head /\ ~Failed(e).ref
  BY DEF Failed, NoRaw

LEMMA WriteMkdirEffect ==
  ASSUME Typed, NEW c \in Call, WriteMkdir(c)
  PROVE  /\ Own(c) /\ pc[c] = "start" /\ op[c].cap = "write_file"
         /\ UNCHANGED <<file, tmp, repo, mem, ans, landed, stuck>>
         /\ \/ dirs' = dirs \cup {DirOf[Target(c)]} /\ pc'[c] = "look" /\ raw' = raw
            \/ UNCHANGED dirs /\ Errs(c, "run")
  BY WritingOwn, ReturnOwn, GotoOwn DEF Writing, WriteMkdir, Errs, historyVars

LEMMA WriteCreateEffect ==
  ASSUME Typed, NEW c \in Call, WriteCreate(c)
  PROVE  /\ Own(c) /\ pc[c] = "create"
         /\ UNCHANGED <<dirs, file, repo, mem, ans, landed, stuck>>
         /\ \/ /\ DirOf[Target(c)] \in dirs /\ pc'[c] = "fill" /\ raw' = raw
               /\ tmp' = [tmp EXCEPT ![c] = [state |-> "part", dir |-> DirOf[Target(c)]]]
            \/ UNCHANGED tmp /\ Errs(c, "run")
  BY WritingOwn, ReturnOwn, GotoOwn DEF Writing, WriteCreate, Errs, historyVars

LEMMA WriteFillEffect ==
  ASSUME Typed, NEW c \in Call, WriteFill(c)
  PROVE  /\ Own(c) /\ pc[c] = "fill"
         /\ UNCHANGED <<dirs, file, repo, mem, ans, landed>>
         /\ \/ /\ tmp' = [tmp EXCEPT ![c].state = IF @ = "part" THEN "whole" ELSE @]
               /\ pc'[c] = "rename" /\ raw' = raw /\ UNCHANGED stuck
            \/ DropTmp(c) /\ Errs(c, "run")
  BY WritingOwn, ReturnOwn, GotoOwn DEF Writing, WriteFill, Errs

LEMMA WriteRenameEffect ==
  ASSUME Typed, NEW c \in Call, WriteRename(c)
  PROVE  /\ Own(c) /\ pc[c] = "rename" /\ pc'[c] = "returned"
         /\ UNCHANGED <<dirs, repo, mem, ans>>
         /\ \/ /\ tmp[c] # NoTmp /\ tmp' = [tmp EXCEPT ![c] = NoTmp]
               /\ file' = [file EXCEPT ![Target(c)] = Written(c, tmp[c].state = "whole")]
               /\ landed' = landed \cup {c} /\ raw'[c].err = "none" /\ UNCHANGED stuck
            \/ DropTmp(c) /\ Errs(c, "run") /\ UNCHANGED <<file, landed>>
<1>1. [NoRaw EXCEPT !.path = TRUE].err = "none"
  BY DEF NoRaw
<1> QED
  BY <1>1, WritingOwn, ReturnOwn DEF Writing, WriteRename, Errs

LEMMA PlainInitEffect ==
  ASSUME Typed, NEW c \in Call, PlainInit(c)
  PROVE  /\ Own(c) /\ pc[c] = "init"
         /\ UNCHANGED <<file, tmp, ans, landed>>
         /\ \/ repo[Dest(c)] # NoRepo /\ CloneErr(c) /\ UNCHANGED <<dirs, repo, mem, stuck>>
            \/ /\ repo[Dest(c)] = NoRepo
               /\ \E v \in {"absent", "used", "empty"} :
                    /\ mem' = [mem EXCEPT ![c] = [mem[c] EXCEPT !.fresh = v]]
                    /\ v = "absent" => Dest(c) \notin dirs
               /\ \/ /\ pc'[c] = "fetch" /\ raw' = raw /\ UNCHANGED stuck
                     /\ dirs' = dirs \cup {Dest(c)}
                     /\ repo' = [repo EXCEPT ![Dest(c)] = NewRepo(c, FALSE)]
                  \/ /\ CloneErr(c) /\ LeftBehind(c) /\ dirs' \in {dirs, dirs \cup {Dest(c)}}
                     /\ \/ UNCHANGED repo
                        \/ /\ Dest(c) \in dirs'
                           /\ repo' = [repo EXCEPT ![Dest(c)] = NewRepo(c, FALSE)]
<1>1. Own(c) /\ pc[c] = "init" /\ UNCHANGED <<file, tmp, ans, landed>>
  BY WritingOwn DEF Writing, PlainInit, historyVars
<1>2. CASE repo[Dest(c)] # NoRepo
  BY <1>1, <1>2 DEF PlainInit
<1>3. CASE repo[Dest(c)] = NoRepo
  <2>1. \E v \in {"absent", "used", "empty"} :
          /\ mem' = [mem EXCEPT ![c] = [mem[c] EXCEPT !.fresh = v]]
          /\ v = "absent" => Dest(c) \notin dirs
    BY <1>3 DEF PlainInit, Remember
  <2>2. \/ /\ Goto(c, "fetch") /\ UNCHANGED <<raw, stuck>>
           /\ dirs' = dirs \cup {Dest(c)}
           /\ repo' = [repo EXCEPT ![Dest(c)] = NewRepo(c, FALSE)]
        \/ /\ CloneErr(c) /\ LeftBehind(c) /\ dirs' \in {dirs, dirs \cup {Dest(c)}}
           /\ \/ UNCHANGED repo
              \/ Dest(c) \in dirs' /\ repo' = [repo EXCEPT ![Dest(c)] = NewRepo(c, FALSE)]
    BY <1>3 DEF PlainInit
  <2> QED
    BY <1>1, <1>3, <2>1, <2>2, GotoOwn
<1> QED
  BY <1>2, <1>3

LEMMA PlainFetchEffect ==
  ASSUME Typed, NEW c \in Call, PlainFetch(c)
  PROVE  /\ Own(c) /\ pc[c] = "fetch" /\ UNCHANGED <<mem, ans>>
         /\ \/ /\ dirs' = dirs \cup {Dest(c)} /\ landed' = landed \cup {c}
               /\ repo' = [repo EXCEPT ![Dest(c)] = NewRepo(c, TRUE)]
               /\ pc'[c] = "checkout" /\ UNCHANGED <<file, tmp, raw, stuck>>
            \/ /\ CloneErr(c) /\ UNCHANGED landed
               /\ \/ mem[c].fresh = "used" /\ UNCHANGED <<diskVars, stuck>>
                  \/ /\ mem[c].fresh # "used" /\ UNCHANGED stuck
                     /\ Emptied(Dest(c), mem[c].fresh = "absent")
                  \/ /\ mem[c].fresh # "used" /\ LeftBehind(c)
                     /\ UNCHANGED diskVars \/ Emptied(Dest(c), FALSE)
<1>1. Own(c) /\ pc[c] = "fetch" /\ UNCHANGED <<mem, ans>>
  BY WritingOwn DEF Writing, PlainFetch
<1>2. CASE CloneErr(c) /\ UNCHANGED landed /\ CloneCleanUp(c)
  BY <1>1, <1>2 DEF CloneCleanUp
<1>3. CASE /\ dirs' = dirs \cup {Dest(c)} /\ landed' = landed \cup {c}
           /\ repo' = [repo EXCEPT ![Dest(c)] = NewRepo(c, TRUE)]
           /\ Goto(c, "checkout") /\ UNCHANGED <<file, tmp, raw, stuck>>
  BY <1>1, <1>3, GotoOwn
<1> QED
  BY <1>2, <1>3 DEF PlainFetch

\* Whatever a clone leaves behind, only what it is itself becomes stuck.
LEMMA LeftBehindStuck ==
  ASSUME NEW c \in Call, LeftBehind(c)
  PROVE  /\ stuck \subseteq stuck' /\ stuck' \subseteq stuck \cup {c}
         /\ op[c].cap = "clone" => c \in stuck'
         /\ op[c].cap # "clone" => stuck' = stuck
  BY DEF LeftBehind

LEMMA WorktreeUndoEffect ==
  ASSUME Typed, NEW c \in Call, WorktreeUndo(c)
  PROVE  /\ Own(c) /\ pc[c] \in {"undo", "undoCheckout"}
         /\ \E e \in {"run", ctx[c]} \ {"none"} : Errs(c, e)
         /\ UNCHANGED <<mem, ans, landed>>
         /\ \/ Emptied(Dest(c), TRUE) /\ UNCHANGED stuck
            \/ stuck' = stuck \cup {c} /\ UNCHANGED diskVars
<1>1. /\ Own(c) /\ pc[c] \in {"undo", "undoCheckout"} /\ UNCHANGED <<mem, ans, landed>>
      /\ \/ Emptied(Dest(c), TRUE) /\ UNCHANGED stuck
         \/ stuck' = stuck \cup {c} /\ UNCHANGED diskVars
  BY WritingOwn DEF Writing, WorktreeUndo
<1>2. Return(c, Failed(IF pc[c] = "undo" THEN CtxOr(c, "run") ELSE "run"))
  BY DEF WorktreeUndo
<1>3. pc'[c] = "returned" /\ raw'[c] = Failed(IF pc[c] = "undo" THEN CtxOr(c, "run") ELSE "run")
  BY <1>2 DEF Return, Goto, Typed, TypeOK
<1> QED
  BY <1>1, <1>3 DEF CtxOr, Errs

LEMMA ReadOpenEffect ==
  ASSUME Typed, NEW c \in Call, ReadOpen(c)
  PROVE  /\ pc[c] = "open"
         /\ \/ \E e : (e = "run" \/ (e = ctx[c] /\ e # "none")) /\ Errs(c, e) /\ UNCHANGED mem
            \/ /\ file[Target(c)] # NoFile /\ pc'[c] = "read" /\ raw' = raw
               /\ mem' = [mem EXCEPT ![c] = [mem[c] EXCEPT !.view = file[Target(c)],
                                                          !.total = file[Target(c)].len]]
  BY ReturnOwn, GotoOwn DEF ReadOpen, Remember, Errs

LEMMA CommitOpenEffect ==
  ASSUME Typed, NEW c \in Call, CommitOpen(c)
  PROVE  /\ pc[c] = "start" /\ op[c].cap = "commit"
         /\ \/ \E e \in {"run", "validation"} : Errs(c, e) /\ UNCHANGED mem
            \/ /\ pc'[c] = IF op[c].paths = <<>> THEN "all" ELSE "add"
               /\ raw' = raw
               /\ mem' = [mem EXCEPT ![c] = [mem[c] EXCEPT !.todo = op[c].paths]]
  BY ReturnOwn, GotoOwn DEF CommitOpen, Remember, Errs, Starting, At

LEMMA AddReadEffect ==
  ASSUME Typed, NEW c \in Call, AddRead(c)
  PROVE  /\ pc[c] = "add" /\ op[c].cap = "commit" /\ mem[c].todo # <<>>
         /\ \/ Errs(c, "run") /\ UNCHANGED mem
            \/ /\ repo[Dest(c)] # NoRepo /\ pc'[c] = "added" /\ raw' = raw
               /\ mem' = [mem EXCEPT ![c] =
                    [mem[c] EXCEPT !.copy = Staged(repo[Dest(c)], {Head(mem[c].todo)}, c)]]
  BY ReturnOwn, GotoOwn DEF AddRead, Remember, Errs, At

LEMMA AddAllEffect ==
  ASSUME Typed, NEW c \in Call, AddAll(c)
  PROVE  /\ pc[c] = "all" /\ op[c].cap = "commit"
         /\ \/ Errs(c, "run") /\ UNCHANGED mem
            \/ /\ repo[Dest(c)] # NoRepo /\ pc'[c] = "added" /\ raw' = raw
               /\ \E fs \in SUBSET File :
                    mem' = [mem EXCEPT ![c] = [mem[c] EXCEPT !.copy = Staged(repo[Dest(c)], fs, c)]]
<1> DEFINE r == repo[Dest(c)]
           Here == {f \in File : DirOf[f] = Dest(c)}
<1>1. pc[c] = "all" /\ op[c].cap = "commit"
  BY DEF AddAll, At
<1>2. CASE Return(c, Failed("run")) /\ UNCHANGED mem
  BY <1>1, <1>2, ReturnOwn DEF Errs
<1>3. CASE /\ r # NoRepo /\ Goto(c, "added") /\ UNCHANGED raw
           /\ \E fs \in {{f \in Here : file[f] # r.index[f]},
                         {f \in Here : file[f] # r.index[f] /\ r.index[f] # NoFile}} :
                Remember(c, [mem[c] EXCEPT !.copy = Staged(r, fs, c)])
  <2>1. PICK fs \in {{f \in Here : file[f] # r.index[f]},
                     {f \in Here : file[f] # r.index[f] /\ r.index[f] # NoFile}} :
               Remember(c, [mem[c] EXCEPT !.copy = Staged(r, fs, c)])
    BY <1>3
  <2>2. fs \in SUBSET File
    OBVIOUS
  <2> QED
    BY <1>1, <1>3, <2>1, <2>2, GotoOwn DEF Remember
<1> QED
  BY <1>2, <1>3 DEF AddAll

LEMMA AddWriteEffect ==
  ASSUME Typed, NEW c \in Call, AddWrite(c)
  PROVE  /\ Own(c) /\ pc[c] = "added" /\ UNCHANGED <<dirs, file, tmp, ans, landed, stuck>>
         /\ \/ Errs(c, "run") /\ UNCHANGED <<repo, mem>>
            \/ /\ repo[Dest(c)] # NoRepo /\ raw' = raw
               /\ repo' = [repo EXCEPT ![Dest(c)].index = mem[c].copy.index,
                                       ![Dest(c)].stager = mem[c].copy.stager]
               /\ mem' = [mem EXCEPT ![c] =
                    [mem[c] EXCEPT !.todo = IF @ = <<>> THEN @ ELSE Tail(@), !.copy = NoRepo]]
               /\ pc'[c] = IF Len(mem[c].todo) > 1 THEN "add" ELSE "build"
<1>1. Own(c) /\ pc[c] = "added" /\ UNCHANGED <<dirs, file, tmp, ans, landed, stuck>>
  BY WritingOwn DEF Writing, AddWrite, historyVars
<1>2. CASE repo[Dest(c)] = NoRepo
  BY <1>1, <1>2, ReturnOwn DEF AddWrite, Errs
<1>3. CASE repo[Dest(c)] # NoRepo
  BY <1>1, <1>3, GotoOwn DEF AddWrite, Remember
<1> QED
  BY <1>2, <1>3

LEMMA CommitBuildEffect ==
  ASSUME Typed, NEW c \in Call, CommitBuild(c)
  PROVE  /\ pc[c] = "build" /\ op[c].cap = "commit"
         /\ \/ Errs(c, "run") /\ UNCHANGED mem
            \/ /\ repo[Dest(c)] # NoRepo /\ pc'[c] = "land" /\ raw' = raw
               /\ mem' = [mem EXCEPT ![c] =
                    [mem[c] EXCEPT !.copy = [repo[Dest(c)] EXCEPT !.tree = repo[Dest(c)].index,
                                                                  !.log = @ \cup {c}],
                                   !.delta = Changed(repo[Dest(c)])]]
  BY ReturnOwn, GotoOwn DEF CommitBuild, Remember, Errs, At

LEMMA CommitLandEffect ==
  ASSUME Typed, NEW c \in Call, CommitLand(c)
  PROVE  /\ Own(c) /\ pc[c] = "land" /\ pc'[c] = "returned"
         /\ UNCHANGED <<dirs, file, tmp, mem, ans, stuck>>
         /\ \/ Errs(c, "run") /\ UNCHANGED <<repo, landed>>
            \/ /\ repo[Dest(c)] # NoRepo /\ raw'[c].err = "none" /\ landed' = landed \cup {c}
               /\ repo' = [repo EXCEPT ![Dest(c)].tree = mem[c].copy.tree,
                                       ![Dest(c)].log = mem[c].copy.log]
<1>1. [NoRaw EXCEPT !.head = TRUE, !.ref = TRUE].err = "none"
  BY DEF NoRaw
<1> QED
  BY <1>1, WritingOwn, ReturnOwn DEF Writing, CommitLand, Errs

-----------------------------------------------------------------------------
(* Which adapter a call is in, and who has met whom *)

\* A call stays within the labels of its adapter.
LEMMA LabelledStep ==
  ASSUME Typed, Labelled, NEW c \in Call, AdapterStep(c)
  PROVE  Labelled'
<1>1. Own(c)
  BY StepOwn
<1> SUFFICES /\ op[c] # NoOp
             /\ pc'[c] \in {"look", "create", "fill", "rename"} => op[c].cap = "write_file"
             /\ pc'[c] \in {"open", "read"} => op[c].cap = "read_file"
             /\ pc'[c] \in {"init", "fetch", "checkout"} => op[c].cap \in Cloning
             /\ pc'[c] \in {"base", "undo", "undoCheckout"} => op[c].cap = "worktree.create"
             /\ pc'[c] \in {"add", "all", "added", "build", "land"} => op[c].cap = "commit"
  BY <1>1 DEF Own, Labelled, Update
<1>2. op[c] # NoOp
  BY <1>1 DEF Own, Running, Labelled
<1> USE ReturnOwn, GotoOwn DEF Labelled, Cloning
<1>3. CASE Answer(c)
  BY <1>2, <1>3, AnswerOwn
<1>4. CASE Refuse(c) \/ WriteLook(c) \/ ReadResolve(c) \/ ReadAll(c)
  BY <1>2, <1>4 DEF Refuse, WriteLook, ReadResolve, ReadAll
<1>5. CASE CloneLook(c) \/ CloneCheckout(c) \/ WorktreeLook(c)
  BY <1>2, <1>5 DEF CloneLook, CloneCheckout, WorktreeLook, At, Starting
<1>6. CASE WorktreeBase(c) \/ WorktreeCheckout(c) \/ StatusRun(c) \/ DiffRun(c)
  BY <1>2, <1>6 DEF WorktreeBase, WorktreeCheckout, At, StatusRun, DiffRun, Starting
<1>7. CASE ReadOpen(c) \/ CommitOpen(c) \/ AddRead(c) \/ AddAll(c) \/ CommitBuild(c)
  BY <1>2, <1>7, ReadOpenEffect, CommitOpenEffect, AddReadEffect, AddAllEffect, CommitBuildEffect, ZenonT(60)
     DEF Errs
<1>8. CASE WriteMkdir(c) \/ WriteCreate(c) \/ WriteFill(c) \/ WriteRename(c)
  BY <1>2, <1>8, WriteMkdirEffect, WriteCreateEffect, WriteFillEffect, WriteRenameEffect DEF Errs
<1>9. CASE PlainInit(c) \/ PlainFetch(c)
  <2>1. \/ CloneErr(c) /\ pc[c] \in {"init", "fetch"}
        \/ pc[c] = "init" /\ pc'[c] = "fetch"
        \/ pc[c] = "fetch" /\ pc'[c] = "checkout"
    BY <1>9, PlainInitEffect, PlainFetchEffect
  <2> QED
    BY <1>2, <2>1, CloneErrOwn
<1>10. CASE WorktreeUndo(c) \/ AddWrite(c) \/ CommitLand(c)
  BY <1>2, <1>10, WorktreeUndoEffect, AddWriteEffect, CommitLandEffect DEF Errs
<1> QED
  BY <1>3, <1>4, <1>5, <1>6, <1>7, <1>8, <1>9, <1>10 DEF AdapterStep, Asking, Reading, Writing

\* No step of an adapter begins a call, so nobody new is met.
LEMMA MeetingStep ==
  ASSUME Typed, Meeting, NEW c \in Call, AdapterStep(c)
  PROVE  Meeting'
  BY StepOwn DEF Own, Meeting, Running, Update

-----------------------------------------------------------------------------
(* Types *)

DiskTyped ==
  /\ \A f \in File : file[f] # NoFile => DirOf[f] \in dirs
  /\ \A c \in Call : tmp[c] # NoTmp => tmp[c].dir \in dirs
  /\ \A d \in Dir : repo[d] # NoRepo => d \in dirs
  /\ dirs \subseteq Dir /\ file \in [File -> Content] /\ repo \in [Dir -> Repo]
  /\ tmp \in [Call -> [state : {"none", "part", "whole"}, dir : Dir \cup {"none"}]]
CallTyped ==
  /\ pc \in [Call -> PC] /\ ctx \in [Call -> CtxEnds \cup {"none"}]
  /\ met \in [Call -> SUBSET Call] /\ landed \subseteq Call /\ stuck \subseteq Call
  /\ op \in Scenario
MemTyped == mem \in [Call -> Memory]
RawTyped == raw \in [Call -> RawOutcome]
AnsTyped == ans = [c \in Call |-> ans[c]] /\ \A c \in Call : pc[c] # "done" => ans[c] = NoAnswer

\* Typed, split by what a step can disturb.
LEMMA TypedParts == Typed <=> DiskTyped /\ CallTyped /\ MemTyped /\ RawTyped /\ AnsTyped
<1>1. Typed => DiskTyped /\ CallTyped /\ MemTyped /\ RawTyped /\ AnsTyped
  BY DEF Typed, TypeOK, DiskTyped, CallTyped, MemTyped, RawTyped, AnsTyped
<1>2. op \in Scenario => \A c \in Call : op[c] \in Operation \cup {NoOp}
  BY OpFields
<1>3. MemTyped => \A c \in Call : /\ mem[c].view \in Content /\ mem[c].copy \in Repo
                                  /\ mem[c].delta \subseteq File
  BY DEF MemTyped, Memory
<1>4. DiskTyped /\ CallTyped /\ MemTyped /\ RawTyped /\ AnsTyped => Typed
  BY <1>2, <1>3 DEF Typed, TypeOK, DiskTyped, CallTyped, MemTyped, RawTyped, AnsTyped
<1> QED
  BY <1>1, <1>4

LEMMA Values ==
  /\ NoFile \in Content /\ NoFiles \in [File -> Content] /\ NoRepo \in Repo
  /\ \A c \in Writer, b \in BOOLEAN : Written(c, b) \in Content /\ NewRepo(c, b) \in Repo
  /\ NoMem \in Memory
<1>1. NoFile \in Content /\ \A c \in Writer, b \in BOOLEAN : Written(c, b) \in Content
  BY WorkspaceBounds DEF NoFile, Content, Writer, Written
<1>2. NoFiles \in [File -> Content]
  BY <1>1 DEF NoFiles
<1>3. NoRepo \in Repo /\ \A c \in Writer, b \in BOOLEAN : NewRepo(c, b) \in Repo
  BY <1>2 DEF NoRepo, Repo, NewRepo, Writer
<1>4. NoMem \in Memory
  <2>1. <<>> \in Seq(File)
    OBVIOUS
  <2> HIDE DEF Content, Repo, NoFile, NoRepo
  <2> QED
    BY <1>1, <1>3, <2>1 DEF NoMem, Memory
<1> QED
  BY <1>1, <1>2, <1>3, <1>4

LEMMA RepoFields ==
  ASSUME NEW r \in Repo
  PROVE  /\ r.by \in Writer /\ r.ready \in BOOLEAN /\ r.index \in [File -> Content]
         /\ r.stager \in [File -> Writer] /\ r.tree \in [File -> Content] /\ r.log \in SUBSET Call
  BY DEF Repo

\* The fields of a repository after each of the writes.
LEMMA StagedFields ==
  ASSUME Typed, NEW r \in Repo, NEW fs \in SUBSET File, NEW c \in Call
  PROVE  /\ Staged(r, fs, c) \in Repo
         /\ Staged(r, fs, c).by = r.by /\ Staged(r, fs, c).tree = r.tree
         /\ \A f \in File :
              /\ Staged(r, fs, c).index[f] = IF f \in fs THEN file[f] ELSE r.index[f]
              /\ Staged(r, fs, c).stager[f] = IF f \in fs THEN c ELSE r.stager[f]
<1> DEFINE ix == [f \in File |-> IF f \in fs THEN file[f] ELSE r.index[f]]
           st == [f \in File |-> IF f \in fs THEN c ELSE r.stager[f]]
<1>1. ix \in [File -> Content] /\ st \in [File -> Writer]
  BY RepoFields DEF Typed, TypeOK, Writer
<1>2. /\ \A f \in File : ix[f] = (IF f \in fs THEN file[f] ELSE r.index[f])
      /\ \A f \in File : st[f] = (IF f \in fs THEN c ELSE r.stager[f])
  OBVIOUS
<1>3. Staged(r, fs, c) = [r EXCEPT !.index = ix, !.stager = st]
  BY DEF Staged
<1> HIDE DEF ix, st
<1>4. /\ Staged(r, fs, c) \in Repo /\ Staged(r, fs, c).index = ix /\ Staged(r, fs, c).stager = st
      /\ Staged(r, fs, c).by = r.by /\ Staged(r, fs, c).tree = r.tree
  BY <1>1, <1>3 DEF Repo
<1> QED
  BY <1>2, <1>4

LEMMA AddedFields ==
  ASSUME NEW r \in Repo, NEW m \in Repo
  PROVE  LET n == [r EXCEPT !.index = m.index, !.stager = m.stager] IN
         /\ n \in Repo /\ n.by = r.by /\ n.tree = r.tree /\ n.log = r.log /\ n.ready = r.ready
         /\ n.index = m.index /\ n.stager = m.stager
  BY DEF Repo

LEMMA LandedFields ==
  ASSUME NEW r \in Repo, NEW m \in Repo
  PROVE  LET n == [r EXCEPT !.tree = m.tree, !.log = m.log] IN
         /\ n \in Repo /\ n.by = r.by /\ n.index = r.index /\ n.stager = r.stager
         /\ n.ready = r.ready /\ n.tree = m.tree /\ n.log = m.log
  BY DEF Repo

LEMMA BuiltFields ==
  ASSUME NEW r \in Repo, NEW c \in Call
  PROVE  LET n == [r EXCEPT !.tree = r.index, !.log = @ \cup {c}] IN
         /\ n \in Repo /\ n.by = r.by /\ n.index = r.index /\ n.stager = r.stager
         /\ n.tree = r.index /\ n.log = r.log \cup {c}
  BY DEF Repo

LEMMA NoRepoFields ==
  /\ NoRepo.by = "none" /\ NoRepo.ready = FALSE /\ NoRepo.log = {}
  /\ \A f \in File : /\ NoRepo.index[f] = NoFile /\ NoRepo.tree[f] = NoFile
                     /\ NoRepo.stager[f] = "none"
  /\ \A c, b : LET n == NewRepo(c, b) IN
       /\ n.by = c /\ n.ready = b /\ n.log = {}
       /\ \A f \in File : n.index[f] = NoFile /\ n.tree[f] = NoFile /\ n.stager[f] = "none"
  BY DEF NoRepo, NewRepo, NoFiles

\* The repository in d becomes n.
LEMMA RepoBecomes ==
  ASSUME Typed, NEW d \in Dir, NEW n \in Repo, repo' = [repo EXCEPT ![d] = n]
  PROVE  /\ repo' \in [Dir -> Repo] /\ repo'[d] = n
         /\ \A e \in Dir \ {d} : repo'[e] = repo[e]
  BY DEF Typed, TypeOK

LEMMA AddWriteRepo ==
  ASSUME Typed, NEW d \in Dir, NEW m \in Repo,
         repo' = [repo EXCEPT ![d].index = m.index, ![d].stager = m.stager]
  PROVE  /\ repo' \in [Dir -> Repo]
         /\ \A e \in Dir \ {d} : repo'[e] = repo[e]
         /\ repo'[d].by = repo[d].by /\ repo'[d].tree = repo[d].tree
         /\ repo'[d].log = repo[d].log /\ repo'[d].ready = repo[d].ready
         /\ repo'[d].index = m.index /\ repo'[d].stager = m.stager
<1> DEFINE n == [repo[d] EXCEPT !.index = m.index, !.stager = m.stager]
<1>1. repo' = [repo EXCEPT ![d] = n]
  BY DEF Typed, TypeOK
<1>2. repo[d] \in Repo
  BY DEF Typed, TypeOK
<1>3. /\ n \in Repo /\ n.by = repo[d].by /\ n.tree = repo[d].tree /\ n.log = repo[d].log
      /\ n.ready = repo[d].ready /\ n.index = m.index /\ n.stager = m.stager
  BY <1>2, AddedFields
<1> HIDE DEF n
<1> QED
  BY <1>1, <1>3, RepoBecomes

LEMMA CommitLandRepo ==
  ASSUME Typed, NEW d \in Dir, NEW m \in Repo,
         repo' = [repo EXCEPT ![d].tree = m.tree, ![d].log = m.log]
  PROVE  /\ repo' \in [Dir -> Repo]
         /\ \A e \in Dir \ {d} : repo'[e] = repo[e]
         /\ repo'[d].by = repo[d].by /\ repo'[d].tree = m.tree
         /\ repo'[d].log = m.log /\ repo'[d].ready = repo[d].ready
         /\ repo'[d].index = repo[d].index /\ repo'[d].stager = repo[d].stager
<1> DEFINE n == [repo[d] EXCEPT !.tree = m.tree, !.log = m.log]
<1>1. repo' = [repo EXCEPT ![d] = n]
  BY DEF Typed, TypeOK
<1>2. repo[d] \in Repo
  BY DEF Typed, TypeOK
<1>3. /\ n \in Repo /\ n.by = repo[d].by /\ n.tree = m.tree /\ n.log = m.log
      /\ n.ready = repo[d].ready /\ n.index = repo[d].index /\ n.stager = repo[d].stager
  BY <1>2, LandedFields
<1> HIDE DEF n
<1> QED
  BY <1>1, <1>3, RepoBecomes

LEMMA NewRepoRepo ==
  ASSUME Typed, NEW d \in Dir, NEW c \in Call, NEW b \in BOOLEAN,
         repo' = [repo EXCEPT ![d] = NewRepo(c, b)]
  PROVE  /\ repo' \in [Dir -> Repo] /\ repo'[d] = NewRepo(c, b)
         /\ \A e \in Dir \ {d} : repo'[e] = repo[e]
  BY Values, RepoBecomes DEF Writer

\* RemoveAll of a directory takes its files, its repository and its temporary files.
LEMMA EmptiedDisk ==
  ASSUME Typed, NEW d \in Dir, NEW gone \in BOOLEAN, Emptied(d, gone)
  PROVE  /\ dirs' = IF gone THEN dirs \ {d} ELSE dirs
         /\ repo' \in [Dir -> Repo] /\ repo'[d] = NoRepo
         /\ \A e \in Dir \ {d} : repo'[e] = repo[e]
         /\ file' \in [File -> Content]
         /\ \A f \in File : file'[f] = IF DirOf[f] = d THEN NoFile ELSE file[f]
         /\ tmp' \in [Call -> [state : {"none", "part", "whole"}, dir : Dir \cup {"none"}]]
         /\ \A c \in Call : tmp'[c] = IF tmp[c].dir = d THEN NoTmp ELSE tmp[c]
<1>1. NoTmp \in [state : {"none", "part", "whole"}, dir : Dir \cup {"none"}]
  BY DEF NoTmp
<1> HIDE DEF NoTmp
<1>2. repo' = [repo EXCEPT ![d] = NoRepo] /\ dirs' = IF gone THEN dirs \ {d} ELSE dirs
  BY DEF Emptied
<1>3. /\ file' = [f \in File |-> IF DirOf[f] = d THEN NoFile ELSE file[f]]
      /\ tmp' = [c \in Call |-> IF tmp[c].dir = d THEN NoTmp ELSE tmp[c]]
  BY DEF Emptied
<1>4. /\ file' \in [File -> Content]
      /\ \A f \in File : file'[f] = IF DirOf[f] = d THEN NoFile ELSE file[f]
  BY <1>3, Values DEF Typed, TypeOK
<1>5. /\ tmp' \in [Call -> [state : {"none", "part", "whole"}, dir : Dir \cup {"none"}]]
      /\ \A c \in Call : tmp'[c] = IF tmp[c].dir = d THEN NoTmp ELSE tmp[c]
  BY <1>1, <1>3 DEF Typed, TypeOK
<1> QED
  BY <1>2, <1>4, <1>5, Values, RepoBecomes

LEMMA EmptiedTyped ==
  ASSUME Typed, NEW d \in Dir, NEW gone \in BOOLEAN, Emptied(d, gone)
  PROVE  DiskTyped'
<1>1. DiskTyped
  BY TypedParts
<1> QED
  BY <1>1, EmptiedDisk DEF DiskTyped

LEMMA DropTmpDisk ==
  ASSUME Typed, NEW c \in Call, DropTmp(c)
  PROVE  /\ tmp' \in [Call -> [state : {"none", "part", "whole"}, dir : Dir \cup {"none"}]]
         /\ \A b \in Call \ {c} : tmp'[b] = tmp[b]
         /\ \/ tmp'[c] = NoTmp /\ stuck' = stuck
            \/ tmp' = tmp /\ stuck' = stuck \cup {c}
<1>1. NoTmp \in [state : {"none", "part", "whole"}, dir : Dir \cup {"none"}]
  BY DEF NoTmp
<1> QED
  BY <1>1 DEF DropTmp, Typed, TypeOK

LEMMA RawValues ==
  /\ NoRaw \in RawOutcome /\ NoRaw.err = "none" /\ \A e \in RawErr : Failed(e) \in RawOutcome
  /\ \A e \in RawErr : LET r == [Failed(e) EXCEPT !.path = TRUE] IN
       r \in RawOutcome /\ r.err = e /\ ~r.fetchOK /\ ~r.checkoutOK /\ ~r.head /\ ~r.ref
  BY DEF NoRaw, RawOutcome, Failed, RawErr

\* An error that the call returns.
Fails(c) == \E e \in RawErr \ {"none"} : Errs(c, e)

LEMMA FailsRaw ==
  ASSUME NEW c \in Call, Fails(c)
  PROVE  /\ pc'[c] = "returned" /\ raw'[c] \in RawOutcome /\ raw'[c].err # "none"
         /\ ~raw'[c].fetchOK /\ ~raw'[c].checkoutOK /\ ~raw'[c].head /\ ~raw'[c].ref
  BY RawValues, FailedErr DEF Fails, Errs

LEMMA CtxErrors ==
  ASSUME Typed, NEW c \in Call
  PROVE  ctx[c] # "none" => ctx[c] \in {"canceled", "deadline"} /\ ctx[c] \in RawErr \ {"none"}
  BY WorkspaceBounds DEF Typed, TypeOK, RawErr

LEMMA ErrsFails ==
  ASSUME Typed, NEW c \in Call
  PROVE  /\ Errs(c, "run") \/ Errs(c, "validation") => Fails(c)
         /\ ctx[c] # "none" /\ Errs(c, ctx[c]) => Fails(c)
  BY CtxErrors DEF Fails, RawErr

LEMMA RefuseEffect ==
  ASSUME Typed, NEW c \in Call, Refuse(c)
  PROVE  pc[c] = "start" /\ Fails(c)
<1>1. pc[c] = "start" /\ Errs(c, IF ctx[c] # "none" THEN ctx[c] ELSE "validation")
  BY ReturnOwn DEF Refuse, Errs
<1> QED
  BY <1>1, ErrsFails

LEMMA WriteLookEffect ==
  ASSUME Typed, NEW c \in Call, WriteLook(c)
  PROVE  /\ op[c].cap = "write_file" /\ pc[c] \in {"look", "start"}
         /\ Fails(c) \/ (pc'[c] = "create" /\ raw' = raw /\ ~WriteRefused(c))
<1>1. op[c].cap = "write_file" /\ pc[c] \in {"look", "start"}
  BY DEF WriteLook
<1>2. CASE WriteRefused(c)
  BY <1>1, <1>2, ReturnOwn, ErrsFails DEF WriteLook, Errs
<1>3. CASE ~WriteRefused(c) /\ ctx[c] # "none"
  BY <1>1, <1>3, ReturnOwn, ErrsFails DEF WriteLook, Errs
<1>4. CASE ~WriteRefused(c) /\ ctx[c] = "none"
  BY <1>1, <1>4, GotoOwn DEF WriteLook
<1> QED
  BY <1>2, <1>3, <1>4

LEMMA ReadResolveEffect ==
  ASSUME Typed, NEW c \in Call, ReadResolve(c)
  PROVE  /\ op[c].cap = "read_file" /\ pc[c] = "start"
         /\ Fails(c) \/ (pc'[c] = "open" /\ raw' = raw)
  BY ReturnOwn, GotoOwn, ErrsFails DEF ReadResolve, Errs

LEMMA ReadAllEffect ==
  ASSUME Typed, Labelled, NEW c \in Call, ReadAll(c)
  PROVE  /\ op[c].cap = "read_file" /\ pc[c] = "read" /\ pc'[c] = "returned"
         /\ raw'[c] \in RawOutcome
         /\ \/ Fails(c)
            \/ /\ raw'[c].data <= mem[c].view.len /\ raw'[c].total = mem[c].total
               /\ op[c].max # MaxInt /\ mem[c].view.len >= mem[c].total =>
                    raw'[c].data >= Least(mem[c].total, op[c].max)
<1>1. op[c].cap = "read_file" /\ pc[c] = "read" /\ op[c].max \in Nat
  BY OpFields DEF ReadAll, Labelled, Typed
<1>2. mem[c].view.len \in Nat /\ mem[c].total \in Nat
  <2>1. mem[c] \in Memory
    BY DEF Typed
  <2>2. mem[c].view \in Content /\ mem[c].total \in Nat
    BY <2>1 DEF Memory
  <2> QED
    BY <2>2, WorkspaceBounds DEF Content
<1> DEFINE n == mem[c].view.len
           k == Least(Least(n, ReadLimit(op[c].max)), op[c].max)
           r == [NoRaw EXCEPT !.data = k, !.total = mem[c].total]
<1>3. CASE Return(c, Failed("run"))
  BY <1>1, <1>3, ReturnOwn, ErrsFails, FailsRaw DEF Errs
<1>4. CASE Return(c, r)
  <2>1. /\ k \in Nat /\ k <= n
        /\ op[c].max # MaxInt /\ n >= mem[c].total => k >= Least(mem[c].total, op[c].max)
    BY <1>1, <1>2 DEF Least, ReadLimit
  <2>2. r \in RawOutcome /\ r.data = k /\ r.total = mem[c].total
    <3> HIDE DEF k
    <3> QED
      BY <1>2, <2>1 DEF NoRaw, RawOutcome, RawErr
  <2>3. pc'[c] = "returned" /\ raw'[c] = r
    BY <1>4 DEF Return, Goto, Typed, TypeOK
  <2> QED
    BY <1>1, <2>1, <2>2, <2>3
<1> QED
  BY <1>3, <1>4 DEF ReadAll

LEMMA LookEffect ==
  ASSUME Typed, NEW c \in Call, CloneLook(c) \/ WorktreeLook(c)
  PROVE  /\ pc[c] = "start" /\ op[c].cap \in Cloning
         /\ \/ Fails(c)
            \/ /\ raw' = raw /\ ~NonEmpty(Dest(c))
               /\ op[c].cap = "clone" /\ pc'[c] = "init"
            \/ /\ raw' = raw /\ ~NonEmpty(Dest(c))
               /\ op[c].cap = "worktree.create" /\ pc'[c] = "base"
<1>1. CASE CloneLook(c)
  BY <1>1, ReturnOwn, GotoOwn, ErrsFails DEF CloneLook, Errs, Starting, At, Cloning
<1>2. CASE WorktreeLook(c)
  BY <1>2, ReturnOwn, GotoOwn, ErrsFails DEF WorktreeLook, WorktreeRefused, Errs, Starting, At, Cloning
<1> QED
  BY <1>1, <1>2

LEMMA CloneCheckoutEffect ==
  ASSUME Typed, NEW c \in Call, CloneCheckout(c)
  PROVE  /\ pc[c] = "checkout" /\ op[c].cap = "clone" /\ pc'[c] = "returned"
         /\ raw'[c] \in RawOutcome /\ raw'[c].fetchOK
         /\ raw'[c].err = "none" => raw'[c].checkoutOK
<1> DEFINE r2 == [Cloned EXCEPT !.err = "run", !.checkoutOK = FALSE, !.head = FALSE, !.ref = FALSE]
           r3 == [Cloned EXCEPT !.err = "run", !.checkoutOK = FALSE]
           Fine(r) == r \in RawOutcome /\ r.fetchOK /\ (r.err = "none" => r.checkoutOK)
<1>1. Fine(Cloned) /\ Fine(r2) /\ Fine(r3)
  <2>1. Fine(Cloned)
    BY DEF Cloned, NoRaw, RawOutcome, RawErr
  <2>2. Fine(r2)
    BY DEF Cloned, NoRaw, RawOutcome, RawErr
  <2>3. Fine(r3)
    BY DEF Cloned, NoRaw, RawOutcome, RawErr
  <2> QED
    BY <2>1, <2>2, <2>3
<1>2. Return(c, Cloned) \/ Return(c, r2) \/ Return(c, r3)
  BY DEF CloneCheckout
<1> HIDE DEF r2, r3
<1>3. pc'[c] = "returned" /\ raw'[c] \in {Cloned, r2, r3}
  BY <1>2, ReturnOwn
<1> QED
  BY <1>1, <1>3 DEF CloneCheckout, At

LEMMA WorktreeBaseEffect ==
  ASSUME Typed, NEW c \in Call, WorktreeBase(c)
  PROVE  pc[c] = "base" /\ (Fails(c) \/ (pc'[c] = "init" /\ raw' = raw))
  BY ReturnOwn, GotoOwn, ErrsFails DEF WorktreeBase, Errs

LEMMA WorktreeCheckoutEffect ==
  ASSUME Typed, NEW c \in Call, WorktreeCheckout(c)
  PROVE  /\ pc[c] = "checkout" /\ op[c].cap = "worktree.create"
         /\ \/ pc'[c] = "returned" /\ raw'[c] \in RawOutcome /\ raw'[c].err = "none"
            \/ pc'[c] = "undoCheckout" /\ raw' = raw
<1> DEFINE r == [NoRaw EXCEPT !.path = TRUE, !.head = TRUE, !.ref = op[c].branch]
<1>1. pc[c] = "checkout" /\ op[c].cap = "worktree.create"
  BY DEF WorktreeCheckout, At
<1>2. op[c].branch \in BOOLEAN
  <2>1. op[c] \in Operation
    BY <1>1, OpFields DEF NoOp, Typed
  <2> QED
    BY <1>1, <2>1, OperationAssumption
       DEF WriteOp, ReadOp, CloneOp, WorktreeOp, CommitOp, StatusOp, DiffOp
<1>3. r \in RawOutcome /\ r.err = "none"
  BY <1>2 DEF NoRaw, RawOutcome, RawErr
<1>4. Return(c, r) \/ (Goto(c, "undoCheckout") /\ UNCHANGED raw)
  BY DEF WorktreeCheckout
<1>5. CASE Return(c, r)
  BY <1>1, <1>3, <1>5 DEF Return, Goto, Typed, TypeOK
<1> QED
  BY <1>1, <1>4, <1>5, GotoOwn

LEMMA ReportEffect ==
  ASSUME Typed, NEW c \in Call, StatusRun(c) \/ DiffRun(c)
  PROVE  /\ pc[c] = "start" /\ op[c].cap \in {"status", "diff"}
         /\ pc'[c] = "returned" /\ raw'[c] \in RawOutcome
<1>1. pc[c] = "start" /\ op[c].cap \in {"status", "diff"}
  BY DEF StatusRun, DiffRun, Starting, At
<1>2. CASE Fails(c)
  BY <1>1, <1>2, FailsRaw
<1>3. CASE StatusRun(c) /\ ~Fails(c)
  <2>1. Return(c, [NoRaw EXCEPT !.head = TRUE])
    BY <1>3, ReturnOwn, ErrsFails DEF StatusRun, Errs
  <2>2. [NoRaw EXCEPT !.head = TRUE] \in RawOutcome
    BY DEF NoRaw, RawOutcome, RawErr
  <2> QED
    BY <1>1, <2>1, <2>2, ReturnOwn
<1>4. CASE DiffRun(c) /\ ~Fails(c)
  <2> DEFINE k == IF FileLen > op[c].max THEN op[c].max ELSE FileLen
             r == [NoRaw EXCEPT !.total = FileLen, !.data = k]
  <2>1. Return(c, r)
    BY <1>4, ReturnOwn, ErrsFails DEF DiffRun, Errs
  <2>2. FileLen \in Nat /\ k \in Nat
    BY <1>4, OpFields, WorkspaceBounds DEF DiffRun, Starting, At, Typed
  <2>3. r \in RawOutcome
    <3> HIDE DEF k
    <3> QED
      BY <2>2 DEF NoRaw, RawOutcome, RawErr
  <2> QED
    BY <1>1, <2>1, <2>3 DEF Return, Goto, Typed, TypeOK
<1> QED
  BY <1>2, <1>3, <1>4

\* How a call's error, and its label, can change in one step.
LEMMA RawTypedStep ==
  ASSUME Typed, Labelled, NEW c \in Call, AdapterStep(c)
  PROVE  RawTyped'
<1>1. Own(c) /\ raw \in [Call -> RawOutcome]
  BY StepOwn DEF Typed
<1> SUFFICES raw'[c] \in RawOutcome
  BY <1>1 DEF Own, Update, RawTyped
<1>2. CASE raw'[c] = raw[c] \/ Fails(c)
  BY <1>1, <1>2, FailsRaw
<1>3. CASE Asking(c)
  BY <1>2, <1>3, RefuseEffect, WriteLookEffect, ReadResolveEffect, ReadAllEffect, LookEffect,
     CloneCheckoutEffect, WorktreeBaseEffect, WorktreeCheckoutEffect, ReportEffect DEF Asking
<1>4. CASE Reading(c)
  BY <1>2, <1>4, ReadOpenEffect, CommitOpenEffect, AddReadEffect, AddAllEffect, CommitBuildEffect,
     ErrsFails DEF Reading
<1>5. CASE CloneErr(c)
  <2>1. CtxOr(c, "run") \in RawErr
    BY CtxErrors DEF CtxOr, RawErr
  <2> QED
    BY <1>1, <1>5, <2>1, CloneErrOwn, RawValues
<1>6. CASE WriteMkdir(c) \/ WriteCreate(c) \/ WriteFill(c) \/ AddWrite(c)
  BY <1>2, <1>6, WriteMkdirEffect, WriteCreateEffect, WriteFillEffect, AddWriteEffect, ErrsFails
<1>7. CASE PlainInit(c) \/ PlainFetch(c)
  BY <1>2, <1>5, <1>7, PlainInitEffect, PlainFetchEffect
<1>8. CASE WorktreeUndo(c)
  BY <1>2, <1>8, WorktreeUndoEffect, ErrsFails
<1>9. CASE WriteRename(c)
  <2>1. Fails(c) \/ Return(c, [NoRaw EXCEPT !.path = TRUE])
    BY <1>9, ErrsFails, ReturnOwn DEF WriteRename, Errs
  <2>2. [NoRaw EXCEPT !.path = TRUE] \in RawOutcome
    BY DEF NoRaw, RawOutcome, RawErr
  <2> QED
    BY <1>2, <2>1, <2>2, ReturnOwn
<1>10. CASE CommitLand(c)
  <2>1. Fails(c) \/ Return(c, [NoRaw EXCEPT !.head = TRUE, !.ref = TRUE])
    BY <1>10, ErrsFails, ReturnOwn DEF CommitLand, Errs
  <2>2. [NoRaw EXCEPT !.head = TRUE, !.ref = TRUE] \in RawOutcome
    BY DEF NoRaw, RawOutcome, RawErr
  <2> QED
    BY <1>2, <2>1, <2>2, ReturnOwn
<1>11. CASE Answer(c)
  BY <1>2, <1>11, AnswerOwn
<1> QED
  BY <1>3, <1>4, <1>6, <1>7, <1>8, <1>9, <1>10, <1>11 DEF AdapterStep, Writing

LEMMA AnsTypedStep ==
  ASSUME Typed, NEW c \in Call, AdapterStep(c)
  PROVE  AnsTyped'
<1>1. Own(c) /\ AnsTyped
  BY StepOwn, TypedParts
<1>2. \A b \in Call : b # c => ans'[b] = ans[b] /\ pc'[b] = pc[b]
  BY <1>1 DEF Own, Update
<1>3. ans' = [b \in Call |-> ans'[b]]
  BY <1>1 DEF Own, Update, AnsTyped
<1>4. pc'[c] # "done" => ans'[c] = NoAnswer
  <2>1. CASE Answer(c)
    BY <2>1, AnswerOwn
  <2>2. CASE ~Answer(c)
    <3>1. ans' = ans /\ pc[c] # "done"
      BY <1>1, <2>2, AskingOwn, ReadingOwn, WritingOwn DEF AdapterStep, Own, Running
    <3> QED
      BY <1>1, <3>1 DEF AnsTyped
  <2> QED
    BY <2>1, <2>2
<1> QED
  BY <1>1, <1>2, <1>3, <1>4 DEF AnsTyped

LEMMA CallTypedStep ==
  ASSUME Typed, NEW c \in Call, AdapterStep(c)
  PROVE  CallTyped'
<1>1. Own(c) /\ CallTyped
  BY StepOwn, TypedParts
<1>2. landed' \subseteq Call /\ stuck' \subseteq Call
  <2>1. landed' \subseteq landed \cup {c} /\ stuck' \subseteq stuck \cup {c}
    BY AskingOwn, ReadingOwn, AnswerOwn, WriteMkdirEffect, WriteCreateEffect, WriteFillEffect,
       WriteRenameEffect, DropTmpDisk, PlainInitEffect, PlainFetchEffect, WorktreeUndoEffect,
       AddWriteEffect, CommitLandEffect, LeftBehindStuck DEF AdapterStep, Writing
  <2> QED
    BY <1>1, <2>1 DEF CallTyped
<1> QED
  BY <1>1, <1>2 DEF CallTyped, Own, Update

LEMMA MemTypedStep ==
  ASSUME Typed, Labelled, NEW c \in Call, AdapterStep(c)
  PROVE  MemTyped'
<1>1. Own(c) /\ mem \in [Call -> Memory]
  BY StepOwn DEF Typed
<1>2. /\ repo \in [Dir -> Repo] /\ file \in [File -> Content]
  BY DEF Typed, TypeOK
<1>0. mem[c] \in Memory
  BY <1>1
<1> SUFFICES mem'[c] \in Memory
  BY <1>1 DEF Own, Update, MemTyped
<1>3. CASE mem' = mem
  BY <1>0, <1>3
<1>4. CASE ReadOpen(c)
  <2>1. Target(c) \in File
    BY <1>4, OpFields, ReadOpenEffect DEF Labelled, Typed, Target
  <2>2. file[Target(c)] \in Content /\ file[Target(c)].len \in Nat
    BY <1>2, <2>1, WorkspaceBounds DEF Content
  <2>3. mem' = mem \/ mem'[c] = [mem[c] EXCEPT !.view = file[Target(c)], !.total = file[Target(c)].len]
    BY <1>1, <1>4, ReadOpenEffect
  <2> QED
    BY <1>0, <1>3, <2>2, <2>3 DEF Memory
<1>5. CASE PlainInit(c)
  <2>1. mem' = mem \/ \E v \in {"absent", "used", "empty"} : mem'[c] = [mem[c] EXCEPT !.fresh = v]
    BY <1>1, <1>5, PlainInitEffect
  <2> QED
    BY <1>0, <1>3, <2>1 DEF Memory
<1>6. CASE CommitOpen(c)
  <2>1. mem' = mem \/ mem'[c] = [mem[c] EXCEPT !.todo = op[c].paths]
    BY <1>1, <1>6, CommitOpenEffect
  <2>2. op[c].paths \in Seq(File)
    BY <1>6, CommitOpenEffect, OpFields DEF Typed
  <2> QED
    BY <1>0, <1>3, <2>1, <2>2 DEF Memory
<1>7. ASSUME op[c].cap = "commit" PROVE repo[Dest(c)] \in Repo
  BY <1>2, <1>7, OpFields DEF Typed, Dest
<1>8. CASE AddRead(c)
  <2>1. mem[c].todo # <<>> /\ mem[c].todo \in Seq(File) /\ op[c].cap = "commit"
    BY <1>1, <1>8, AddReadEffect DEF Memory
  <2>2. {Head(mem[c].todo)} \in SUBSET File
    BY <2>1
  <2>3. Staged(repo[Dest(c)], {Head(mem[c].todo)}, c) \in Repo
    BY <1>7, <2>1, <2>2, StagedFields, ZenonT(60)
  <2>4. \/ mem' = mem
        \/ mem'[c] = [mem[c] EXCEPT !.copy = Staged(repo[Dest(c)], {Head(mem[c].todo)}, c)]
    BY <1>1, <1>8, AddReadEffect
  <2> QED
    BY <1>0, <1>3, <2>3, <2>4 DEF Memory
<1>9. CASE AddAll(c)
  <2>1. \A fs \in SUBSET File : Staged(repo[Dest(c)], fs, c) \in Repo
    BY <1>7, <1>9, StagedFields, AddAllEffect
  <2>2. \/ mem' = mem
        \/ \E fs \in SUBSET File : mem'[c] = [mem[c] EXCEPT !.copy = Staged(repo[Dest(c)], fs, c)]
    BY <1>1, <1>9, AddAllEffect
  <2> QED
    BY <1>0, <1>3, <2>1, <2>2 DEF Memory
<1>10. CASE AddWrite(c)
  <2> DEFINE rest == IF mem[c].todo = <<>> THEN mem[c].todo ELSE Tail(mem[c].todo)
  <2>1. rest \in Seq(File)
    BY <1>1 DEF Memory
  <2>2. mem' = mem \/ mem'[c] = [mem[c] EXCEPT !.todo = rest, !.copy = NoRepo]
    BY <1>1, <1>10, AddWriteEffect, ZenonT(60) DEF Memory
  <2> QED
    BY <1>0, <1>3, <2>1, <2>2, Values DEF Memory
<1>11. CASE CommitBuild(c)
  <2> DEFINE built == [repo[Dest(c)] EXCEPT !.tree = repo[Dest(c)].index, !.log = @ \cup {c}]
  <2>1. built \in Repo
    BY <1>7, <1>11, BuiltFields, CommitBuildEffect
  <2>2. Changed(repo[Dest(c)]) \in SUBSET File
    BY DEF Changed
  <2>3. \/ mem' = mem
        \/ mem'[c] = [mem[c] EXCEPT !.copy = built, !.delta = Changed(repo[Dest(c)])]
    BY <1>1, <1>11, CommitBuildEffect
  <2> HIDE DEF built
  <2> QED
    BY <1>0, <1>3, <2>1, <2>2, <2>3 DEF Memory
<1> QED
  BY <1>3, <1>4, <1>5, <1>6, <1>8, <1>9, <1>10, <1>11, AskingOwn, AnswerOwn, WriteMkdirEffect,
     WriteCreateEffect, WriteFillEffect, WriteRenameEffect, PlainFetchEffect, WorktreeUndoEffect,
     CommitLandEffect DEF AdapterStep, Writing, Reading

LEMMA DirOfCall ==
  ASSUME Typed, NEW c \in Call
  PROVE  /\ op[c].cap = "write_file" => Target(c) \in File /\ DirOf[Target(c)] \in Dir
         /\ op[c].cap = "read_file" => Target(c) \in File
         /\ op[c].cap \in Cloning \cup {"commit"} => Dest(c) \in Dir
  BY OpFields, TreeAssumption DEF Typed, Target, Dest

\* Whatever a step does to the disk, what exists is in a directory that exists.
LEMMA DiskTypedStep ==
  ASSUME Core, NEW c \in Call, AdapterStep(c)
  PROVE  DiskTyped'
<1> DEFINE Tmp == [state : {"none", "part", "whole"}, dir : Dir \cup {"none"}]
<1>1. Typed /\ Labelled /\ DiskTyped /\ Temps
  BY TypedParts DEF Core
<1>2. CASE UNCHANGED diskVars
  BY <1>1, <1>2 DEF DiskTyped, diskVars
<1>3. CASE Answer(c) \/ Asking(c) \/ Reading(c)
  BY <1>1, <1>2, <1>3, AnswerOwn, AskingOwn, ReadingOwn
<1>4. CASE WriteMkdir(c)
  <2>1. UNCHANGED <<file, tmp, repo>> /\ dirs \subseteq dirs' /\ dirs' \subseteq Dir
    BY <1>1, <1>4, WriteMkdirEffect, DirOfCall DEF DiskTyped
  <2> QED
    BY <1>1, <2>1 DEF DiskTyped
<1>5. CASE WriteCreate(c)
  <2>1. op[c].cap = "write_file" /\ DirOf[Target(c)] \in Dir /\ UNCHANGED <<dirs, file, repo>>
    BY <1>1, <1>5, WriteCreateEffect, DirOfCall DEF Labelled
  <2>2. [state |-> "part", dir |-> DirOf[Target(c)]] \in Tmp
    BY <2>1
  <2>3. tmp' \in [Call -> Tmp] /\ \A b \in Call : tmp'[b] = tmp[b] \/ tmp'[b].dir \in dirs
    BY <1>1, <1>5, <2>2, WriteCreateEffect DEF DiskTyped
  <2> QED
    BY <1>1, <2>1, <2>3 DEF DiskTyped
<1>6. CASE WriteFill(c)
  <2>1. UNCHANGED <<dirs, file, repo>>
    BY <1>1, <1>6, WriteFillEffect
  <2>2. CASE DropTmp(c)
    BY <1>1, <2>1, <2>2, DropTmpDisk DEF DiskTyped
  <2>3. CASE tmp' = [tmp EXCEPT ![c].state = IF @ = "part" THEN "whole" ELSE @]
    <3>1. tmp' \in [Call -> Tmp] /\ \A b \in Call \ {c} : tmp'[b] = tmp[b]
      BY <1>1, <2>3 DEF DiskTyped
    <3>2. tmp'[c].dir = tmp[c].dir /\ (tmp[c] = NoTmp => tmp'[c] = NoTmp)
      BY <1>1, <2>3 DEF DiskTyped, NoTmp
    <3> QED
      BY <1>1, <2>1, <3>1, <3>2 DEF DiskTyped
  <2> QED
    BY <1>1, <1>6, <2>2, <2>3, WriteFillEffect
<1>7. CASE WriteRename(c)
  <2>1. op[c].cap = "write_file" /\ Target(c) \in File /\ UNCHANGED <<dirs, repo>>
    BY <1>1, <1>7, WriteRenameEffect, DirOfCall DEF Labelled
  <2>2. CASE DropTmp(c) /\ UNCHANGED file
    BY <1>1, <2>1, <2>2, DropTmpDisk DEF DiskTyped
  <2>3. CASE /\ tmp[c] # NoTmp /\ tmp' = [tmp EXCEPT ![c] = NoTmp]
             /\ file' = [file EXCEPT ![Target(c)] = Written(c, tmp[c].state = "whole")]
    <3>1. NoTmp \in Tmp
      BY DEF NoTmp
    <3>2. tmp' \in [Call -> Tmp] /\ \A b \in Call : tmp'[b] = tmp[b] \/ tmp'[b] = NoTmp
      BY <1>1, <2>3, <3>1 DEF DiskTyped
    <3>3. Written(c, tmp[c].state = "whole") \in Content
      BY Values DEF Writer
    <3>4. file' \in [File -> Content] /\ \A f \in File \ {Target(c)} : file'[f] = file[f]
      BY <1>1, <2>1, <2>3, <3>3 DEF DiskTyped
    <3>5. DirOf[Target(c)] \in dirs
      BY <1>1, <2>3 DEF DiskTyped, Temps
    <3> QED
      BY <1>1, <2>1, <3>2, <3>4, <3>5 DEF DiskTyped
  <2> QED
    BY <1>1, <1>7, <2>2, <2>3, WriteRenameEffect
<1>8. CASE PlainInit(c)
  <2>1. Dest(c) \in Dir /\ UNCHANGED <<file, tmp>>
    BY <1>1, <1>8, PlainInitEffect, DirOfCall DEF Labelled
  <2>2. CASE UNCHANGED <<dirs, repo>>
    BY <1>2, <2>1, <2>2 DEF diskVars
  <2>3. CASE /\ dirs' \in {dirs, dirs \cup {Dest(c)}} /\ Dest(c) \in dirs'
             /\ repo' = [repo EXCEPT ![Dest(c)] = NewRepo(c, FALSE)]
    BY <1>1, <2>1, <2>3, NewRepoRepo DEF DiskTyped
  <2>4. CASE dirs' \in {dirs, dirs \cup {Dest(c)}} /\ UNCHANGED repo
    BY <1>1, <2>1, <2>4 DEF DiskTyped
  <2> QED
    BY <1>1, <1>8, <2>2, <2>3, <2>4, PlainInitEffect
<1>9. CASE PlainFetch(c)
  <2>1. Dest(c) \in Dir
    BY <1>1, <1>9, PlainFetchEffect, DirOfCall DEF Labelled
  <2>2. CASE /\ dirs' = dirs \cup {Dest(c)} /\ UNCHANGED <<file, tmp>>
             /\ repo' = [repo EXCEPT ![Dest(c)] = NewRepo(c, TRUE)]
    BY <1>1, <2>1, <2>2, NewRepoRepo DEF DiskTyped
  <2>3. CASE Emptied(Dest(c), mem[c].fresh = "absent") \/ Emptied(Dest(c), FALSE)
    BY <1>1, <2>1, <2>3, EmptiedTyped
  <2> QED
    BY <1>1, <1>2, <1>9, <2>2, <2>3, PlainFetchEffect
<1>10. CASE WorktreeUndo(c)
  <2>1. Dest(c) \in Dir
    BY <1>1, <1>10, WorktreeUndoEffect, DirOfCall DEF Labelled, Cloning
  <2> QED
    BY <1>1, <1>2, <1>10, <2>1, WorktreeUndoEffect, EmptiedTyped
<1>11. ASSUME AddWrite(c) \/ CommitLand(c)
       PROVE  Dest(c) \in Dir /\ mem[c].copy \in Repo /\ UNCHANGED <<dirs, file, tmp>>
  BY <1>1, <1>11, AddWriteEffect, CommitLandEffect, DirOfCall DEF Labelled, Typed, TypeOK
<1>12. CASE AddWrite(c)
  <2>1. UNCHANGED repo \/ (/\ repo[Dest(c)] # NoRepo /\ repo' \in [Dir -> Repo]
                            /\ \A e \in Dir \ {Dest(c)} : repo'[e] = repo[e])
    BY <1>1, <1>11, <1>12, AddWriteEffect, AddWriteRepo
  <2> QED
    BY <1>1, <1>2, <1>11, <1>12, <2>1 DEF DiskTyped, diskVars
<1>13. CASE CommitLand(c)
  <2>1. UNCHANGED repo \/ (/\ repo[Dest(c)] # NoRepo /\ repo' \in [Dir -> Repo]
                            /\ \A e \in Dir \ {Dest(c)} : repo'[e] = repo[e])
    BY <1>1, <1>11, <1>13, CommitLandEffect, CommitLandRepo, ZenonT(60)
  <2> QED
    BY <1>1, <1>2, <1>11, <1>13, <2>1 DEF DiskTyped, diskVars
<1> QED
  BY <1>3, <1>4, <1>5, <1>6, <1>7, <1>8, <1>9, <1>10, <1>12, <1>13 DEF AdapterStep, Writing

LEMMA TypedStep ==
  ASSUME Core, NEW c \in Call, AdapterStep(c)
  PROVE  Typed' /\ Labelled' /\ Meeting'
<1>1. Typed /\ Labelled /\ Meeting
  BY DEF Core
<1>2. DiskTyped' /\ CallTyped' /\ MemTyped' /\ RawTyped' /\ AnsTyped'
  BY <1>1, DiskTypedStep, CallTypedStep, MemTypedStep, RawTypedStep, AnsTypedStep
<1>3. Typed'
  BY <1>2, TypedParts, PTL
<1> QED
  BY <1>1, <1>3, LabelledStep, MeetingStep

-----------------------------------------------------------------------------
(* Files: what a step of a call does to them *)

\* A file changes by the rename of a write that succeeds, or goes with its directory.
LEMMA FileStep ==
  ASSUME Core, NEW c \in Call, AdapterStep(c)
  PROVE  \/ file' = file
         \/ /\ op[c].cap = "write_file" /\ Target(c) \in File
            /\ pc[c] = "rename" /\ pc'[c] = "returned" /\ raw'[c].err = "none" /\ mem' = mem
            /\ file'[Target(c)].by = c /\ file'[Target(c)].whole
            /\ \A f \in File \ {Target(c)} : file'[f] = file[f]
         \/ /\ op[c].cap \in Cloning /\ Dest(c) \in Dir /\ mem' = mem
            /\ pc[c] \in {"fetch", "undo", "undoCheckout"}
            /\ \A f \in File : file'[f] = IF DirOf[f] = Dest(c) THEN NoFile ELSE file[f]
<1>1. Typed /\ Labelled /\ Temps
  BY DEF Core
<1>2. CASE Answer(c) \/ Asking(c) \/ Reading(c)
  BY <1>1, <1>2, AnswerOwn, AskingOwn, ReadingOwn DEF diskVars
<1>3. CASE WriteMkdir(c) \/ WriteCreate(c) \/ WriteFill(c) \/ PlainInit(c) \/ AddWrite(c) \/ CommitLand(c)
  BY <1>1, <1>3, WriteMkdirEffect, WriteCreateEffect, WriteFillEffect, PlainInitEffect,
     AddWriteEffect, CommitLandEffect
<1>4. CASE WriteRename(c)
  <2>1. /\ op[c].cap = "write_file" /\ Target(c) \in File
        /\ pc[c] = "rename" /\ pc'[c] = "returned" /\ mem' = mem
    BY <1>1, <1>4, WriteRenameEffect, DirOfCall DEF Labelled
  <2>2. CASE file' = file
    BY <2>2
  <2>3. CASE file' # file
    <3>1. /\ file' = [file EXCEPT ![Target(c)] = Written(c, tmp[c].state = "whole")]
          /\ tmp[c] # NoTmp /\ raw'[c].err = "none"
      BY <1>1, <1>4, <2>3, WriteRenameEffect
    <3>2. tmp[c].state = "whole"
      BY <1>1, <2>1, <3>1 DEF Temps
    <3>3. Written(c, tmp[c].state = "whole").by = c /\ Written(c, tmp[c].state = "whole").whole
      BY <3>2 DEF Written
    <3>4. file \in [File -> Content]
      BY <1>1 DEF Typed, TypeOK
    <3> QED
      BY <2>1, <3>1, <3>3, <3>4
  <2> QED
    BY <2>2, <2>3
<1>5. CASE PlainFetch(c)
  <2>1. op[c].cap \in Cloning /\ Dest(c) \in Dir /\ pc[c] = "fetch" /\ mem' = mem
    BY <1>1, <1>5, PlainFetchEffect, DirOfCall DEF Labelled
  <2>2. file' = file \/ Emptied(Dest(c), mem[c].fresh = "absent") \/ Emptied(Dest(c), FALSE)
    BY <1>1, <1>5, PlainFetchEffect DEF diskVars
  <2> QED
    BY <1>1, <2>1, <2>2, EmptiedDisk
<1>6. CASE WorktreeUndo(c)
  <2>1. /\ op[c].cap \in Cloning /\ Dest(c) \in Dir /\ pc[c] \in {"undo", "undoCheckout"}
        /\ mem' = mem
    BY <1>1, <1>6, WorktreeUndoEffect, DirOfCall DEF Labelled, Cloning
  <2>2. file' = file \/ Emptied(Dest(c), TRUE)
    BY <1>1, <1>6, WorktreeUndoEffect DEF diskVars
  <2> QED
    BY <1>1, <2>1, <2>2, EmptiedDisk
<1> QED
  BY <1>2, <1>3, <1>4, <1>5, <1>6 DEF AdapterStep, Writing

\* A temporary file is made, filled and removed by its own call, or removed with
\* its directory.
LEMMA TempStep ==
  ASSUME Core, NEW c \in Call, AdapterStep(c)
  PROVE  /\ \A b \in Call \ {c} : tmp'[b] \in {tmp[b], NoTmp}
         /\ stuck \subseteq stuck'
         /\ \/ tmp'[c] = NoTmp
            \/ tmp'[c] = tmp[c] /\ pc[c] \notin {"fill", "rename"} /\ pc'[c] \notin {"fill", "rename"}
            \/ tmp'[c] = tmp[c] /\ c \in stuck' /\ pc'[c] = "returned"
            \/ /\ pc'[c] = "fill" /\ op[c].cap = "write_file"
               /\ tmp'[c].dir = DirOf[Target(c)] /\ tmp'[c].state = "part"
            \/ /\ pc[c] = "fill" /\ pc'[c] = "rename" /\ tmp[c] # NoTmp
               /\ tmp'[c].dir = tmp[c].dir /\ tmp'[c].state = "whole"
<1>1. Typed /\ Labelled /\ Temps
  BY DEF Core
<1>2. tmp \in [Call -> [state : {"none", "part", "whole"}, dir : Dir \cup {"none"}]]
  BY <1>1 DEF Typed, TypeOK
<1>3. CASE Answer(c) \/ Reading(c)
  BY <1>1, <1>3, AnswerOwn, ReadingOwn, ReadOpenEffect, CommitOpenEffect, AddReadEffect,
     AddAllEffect, CommitBuildEffect, ZenonT(60) DEF Errs, Reading, diskVars
<1>4. CASE Asking(c)
  BY <1>1, <1>4, AskingOwn, RefuseEffect, WriteLookEffect, ReadResolveEffect, ReadAllEffect,
     LookEffect, CloneCheckoutEffect, WorktreeBaseEffect, WorktreeCheckoutEffect, ReportEffect,
     FailsRaw DEF Asking, diskVars
<1>5. CASE WriteMkdir(c) \/ AddWrite(c) \/ CommitLand(c)
  BY <1>1, <1>5, WriteMkdirEffect, AddWriteEffect, CommitLandEffect DEF Errs
<1>6. CASE WriteCreate(c)
  BY <1>1, <1>2, <1>6, WriteCreateEffect DEF Errs, Labelled
<1>7. CASE WriteFill(c)
  <2>1. CASE DropTmp(c) /\ Errs(c, "run")
    BY <1>1, <2>1, DropTmpDisk DEF Errs
  <2>2. CASE /\ tmp' = [tmp EXCEPT ![c].state = IF @ = "part" THEN "whole" ELSE @]
             /\ pc'[c] = "rename" /\ UNCHANGED stuck
    <3>1. pc[c] = "fill"
      BY <1>1, <1>7, WriteFillEffect
    <3>2. CASE tmp[c] = NoTmp
      BY <1>2, <2>2, <3>2 DEF NoTmp
    <3>3. CASE tmp[c] # NoTmp
      <4>1. tmp[c].state \in {"part", "whole"}
        BY <1>1, <1>2, <3>3 DEF Temps
      <4> QED
        BY <1>2, <2>2, <3>1, <3>3, <4>1
    <3> QED
      BY <3>2, <3>3
  <2> QED
    BY <1>1, <1>7, <2>1, <2>2, WriteFillEffect
<1>8. CASE WriteRename(c)
  BY <1>1, <1>2, <1>8, WriteRenameEffect, DropTmpDisk DEF Errs
<1>9. CASE PlainInit(c)
  <2>1. /\ UNCHANGED tmp /\ stuck \subseteq stuck'
        /\ pc[c] = "init" /\ (pc'[c] = "fetch" \/ CloneErr(c))
    BY <1>1, <1>9, PlainInitEffect, LeftBehindStuck
  <2> QED
    BY <1>1, <2>1, CloneErrOwn
<1>10. CASE PlainFetch(c)
  <2>1. /\ stuck \subseteq stuck' /\ pc[c] = "fetch" /\ (pc'[c] = "checkout" \/ CloneErr(c))
        /\ tmp' = tmp \/ Emptied(Dest(c), mem[c].fresh = "absent") \/ Emptied(Dest(c), FALSE)
    BY <1>1, <1>10, PlainFetchEffect, LeftBehindStuck DEF diskVars
  <2>2. Dest(c) \in Dir
    BY <1>1, <2>1, DirOfCall DEF Labelled
  <2>3. \A b \in Call : tmp'[b] \in {tmp[b], NoTmp}
    BY <1>1, <2>1, <2>2, EmptiedDisk
  <2> QED
    BY <1>1, <2>1, <2>3, CloneErrOwn
<1>11. CASE WorktreeUndo(c)
  <2>1. /\ stuck \subseteq stuck' /\ pc[c] \in {"undo", "undoCheckout"} /\ pc'[c] = "returned"
        /\ tmp' = tmp \/ Emptied(Dest(c), TRUE)
    BY <1>1, <1>11, WorktreeUndoEffect DEF diskVars, Errs
  <2>2. Dest(c) \in Dir
    BY <1>1, <2>1, DirOfCall DEF Labelled, Cloning
  <2>3. \A b \in Call : tmp'[b] \in {tmp[b], NoTmp}
    BY <1>1, <2>1, <2>2, EmptiedDisk
  <2> QED
    BY <2>1, <2>3
<1> QED
  BY <1>3, <1>4, <1>5, <1>6, <1>7, <1>8, <1>9, <1>10, <1>11 DEF AdapterStep, Writing

\* A temporary file stays tied to the place of its call.
LEMMA TempsStep ==
  ASSUME Core, NEW c \in Call, AdapterStep(c)
  PROVE  Temps'
<1>1. Typed /\ Own(c) /\ Temps
  BY StepOwn DEF Core
<1>2. pc'[c] # "idle" /\ op' = op /\ \A b \in Call \ {c} : pc'[b] = pc[b]
  BY <1>1 DEF Own, Update
<1>3. \A b \in Call \ {c} : tmp'[b] \in {tmp[b], NoTmp} /\ (b \in stuck => b \in stuck')
  BY TempStep
<1>4. ASSUME tmp'[c] # NoTmp
      PROVE  /\ op[c].cap = "write_file" /\ tmp'[c].dir = DirOf[Target(c)]
             /\ tmp'[c].state # "none"
             /\ pc'[c] \in {"fill", "rename", "lost"} \/ c \in stuck'
             /\ pc'[c] = "rename" => tmp'[c].state = "whole"
  <2>1. CASE tmp'[c] = tmp[c] /\ pc[c] \notin {"fill", "rename"} /\ pc'[c] \notin {"fill", "rename"}
    BY <1>1, <1>4, <2>1, TempStep DEF Temps, Own, Running
  <2>2. CASE tmp'[c] = tmp[c] /\ c \in stuck' /\ pc'[c] = "returned"
    BY <1>1, <1>4, <2>2 DEF Temps
  <2>3. CASE /\ pc'[c] = "fill" /\ op[c].cap = "write_file"
             /\ tmp'[c].dir = DirOf[Target(c)] /\ tmp'[c].state = "part"
    BY <2>3
  <2>4. CASE /\ pc[c] = "fill" /\ pc'[c] = "rename" /\ tmp[c] # NoTmp
             /\ tmp'[c].dir = tmp[c].dir /\ tmp'[c].state = "whole"
    BY <1>1, <2>4 DEF Temps
  <2> QED
    BY <1>4, <2>1, <2>2, <2>3, <2>4, TempStep
<1>5. \A b \in Call : (Target(b))' = Target(b)
  BY <1>2 DEF Target
<1> QED
  BY <1>1, <1>2, <1>3, <1>4, <1>5 DEF Temps

-----------------------------------------------------------------------------
(* Answers *)

LEMMA OutcomeFields ==
  /\ \A s, h, k : Outcome(s, h, k).status = s /\ Outcome(s, h, k).stream = "none"
  /\ \A a, t : Success(a, t).status = "success" /\ Success(a, t).stream = t
  /\ \A s, h, k, a : LET o == [Outcome(s, h, k) EXCEPT !.artifacts = a] IN
       o.status = s /\ o.stream = "none"
  BY DEF Outcome, Success, NoAnswer

\* A call that returned an error is not answered with success.
LEMMA ErrorAnswer ==
  ASSUME NEW r, r.err \in RawErr \ {"none"}
  PROVE  /\ NormalizeError(r).stream = "none"
         /\ NormalizeError(r).status \in {"timeout", "cancelled", "failure"}
         /\ r.err \in {"canceled", "deadline"} => NormalizeError(r).status \in {"timeout", "cancelled"}
  BY OutcomeFields DEF NormalizeError, RawErr

LEMMA ReturnedStep ==
  ASSUME Typed, Labelled, NEW c \in Call, AdapterStep(c), pc[c] = "returned"
  PROVE  Answer(c)
<1>1. ~Asking(c)
  BY RefuseEffect, WriteLookEffect, ReadResolveEffect, ReadAllEffect, LookEffect,
     CloneCheckoutEffect, WorktreeBaseEffect, WorktreeCheckoutEffect, ReportEffect DEF Asking
<1>2. ~Reading(c)
  BY ReadOpenEffect, CommitOpenEffect, AddReadEffect, AddAllEffect, CommitBuildEffect DEF Reading
<1>3. ~Writing(c)
  BY WriteMkdirEffect, WriteCreateEffect, WriteFillEffect, WriteRenameEffect, PlainInitEffect,
     PlainFetchEffect, WorktreeUndoEffect, AddWriteEffect, CommitLandEffect DEF Writing
<1> QED
  BY <1>1, <1>2, <1>3 DEF AdapterStep

\* The step by which a call comes to a label.
LEMMA Arrives ==
  ASSUME Typed, Labelled, NEW c \in Call, AdapterStep(c)
  PROVE  /\ pc'[c] = "create" => WriteLook(c)
         /\ pc'[c] = "fill" => WriteCreate(c)
         /\ pc'[c] = "rename" => WriteFill(c)
         /\ pc'[c] = "read" => ReadOpen(c)
         /\ pc'[c] = "base" => WorktreeLook(c)
         /\ pc'[c] = "init" => CloneLook(c) \/ WorktreeBase(c)
         /\ pc'[c] = "fetch" => PlainInit(c)
         /\ pc'[c] = "checkout" => PlainFetch(c)
         /\ pc'[c] = "undo" => PlainInit(c) \/ PlainFetch(c)
         /\ pc'[c] = "undoCheckout" => WorktreeCheckout(c)
         /\ pc'[c] = "add" => CommitOpen(c) \/ AddWrite(c)
         /\ pc'[c] = "all" => CommitOpen(c)
         /\ pc'[c] = "added" => AddRead(c) \/ AddAll(c)
         /\ pc'[c] = "build" => AddWrite(c)
         /\ pc'[c] = "land" => CommitBuild(c)
         /\ pc'[c] = "done" => Answer(c)
<1>1. CASE Fails(c)
  BY <1>1, FailsRaw
<1>2. CASE Answer(c)
  BY <1>2, AnswerOwn
<1>3. CASE Refuse(c) \/ WriteLook(c) \/ ReadResolve(c) \/ ReadAll(c) \/ StatusRun(c) \/ DiffRun(c)
  BY <1>1, <1>3, RefuseEffect, WriteLookEffect, ReadResolveEffect, ReadAllEffect, ReportEffect
<1>4. CASE CloneLook(c) \/ WorktreeLook(c)
  <2>1. CASE CloneLook(c)
    <3>1. op[c].cap = "clone"
      BY <2>1 DEF CloneLook, Starting, At
    <3> QED
      BY <1>1, <2>1, <3>1, LookEffect
  <2>2. CASE WorktreeLook(c)
    <3>1. op[c].cap = "worktree.create"
      BY <2>2 DEF WorktreeLook, Starting, At
    <3> QED
      BY <1>1, <2>2, <3>1, LookEffect
  <2> QED
    BY <1>4, <2>1, <2>2
<1>5. CASE CloneCheckout(c) \/ WorktreeBase(c) \/ WorktreeCheckout(c)
  BY <1>1, <1>5, CloneCheckoutEffect, WorktreeBaseEffect, WorktreeCheckoutEffect
<1>6. CASE Reading(c)
  <2>1. CASE ReadOpen(c)
    BY <1>1, <2>1, ReadOpenEffect, ErrsFails
  <2>2. CASE CommitOpen(c)
    BY <1>1, <2>2, CommitOpenEffect, ErrsFails
  <2>3. CASE AddRead(c) \/ AddAll(c) \/ CommitBuild(c)
    BY <1>1, <2>3, AddReadEffect, AddAllEffect, CommitBuildEffect, ErrsFails
  <2> QED
    BY <1>6, <2>1, <2>2, <2>3 DEF Reading
<1>7. CASE WriteMkdir(c) \/ WriteCreate(c) \/ WriteFill(c) \/ WriteRename(c)
  BY <1>1, <1>7, WriteMkdirEffect, WriteCreateEffect, WriteFillEffect, WriteRenameEffect, ErrsFails
<1>8. CASE PlainInit(c) \/ PlainFetch(c)
  BY <1>8, PlainInitEffect, PlainFetchEffect, CloneErrOwn
<1>9. CASE WorktreeUndo(c) \/ AddWrite(c) \/ CommitLand(c)
  BY <1>1, <1>9, WorktreeUndoEffect, AddWriteEffect, CommitLandEffect, ErrsFails DEF Errs
<1> QED
  BY <1>2, <1>3, <1>4, <1>5, <1>6, <1>7, <1>8, <1>9 DEF AdapterStep, Asking, Writing

\* The steps by which a call returns without an error.
LEMMA Succeeds ==
  ASSUME Typed, Labelled, NEW c \in Call, AdapterStep(c), pc'[c] = "returned", raw'[c].err = "none"
  PROVE  \/ op[c].cap = "write_file" /\ WriteRename(c)
         \/ op[c].cap = "read_file" /\ ReadAll(c)
         \/ op[c].cap = "clone" /\ CloneCheckout(c)
         \/ op[c].cap = "worktree.create" /\ WorktreeCheckout(c)
         \/ op[c].cap = "commit" /\ CommitLand(c)
         \/ op[c].cap \in {"status", "diff"} /\ (StatusRun(c) \/ DiffRun(c))
<1>1. ~Fails(c)
  BY FailsRaw
<1>2. CASE Asking(c)
  BY <1>1, <1>2, RefuseEffect, WriteLookEffect, ReadResolveEffect, ReadAllEffect, LookEffect,
     CloneCheckoutEffect, WorktreeBaseEffect, WorktreeCheckoutEffect, ReportEffect DEF Asking
<1>3. CASE Reading(c)
  <2>1. CASE ReadOpen(c)
    BY <1>1, <2>1, ReadOpenEffect, ErrsFails
  <2>2. CASE CommitOpen(c)
    BY <1>1, <2>2, CommitOpenEffect, ErrsFails
  <2>3. CASE AddRead(c) \/ AddAll(c) \/ CommitBuild(c)
    BY <1>1, <2>3, AddReadEffect, AddAllEffect, CommitBuildEffect, ErrsFails
  <2> QED
    BY <1>3, <2>1, <2>2, <2>3 DEF Reading
<1>4. ~CloneErr(c)
  <2>1. CtxOr(c, "run") \in RawErr \ {"none"}
    BY CtxErrors DEF CtxOr, RawErr
  <2> QED
    BY <2>1, CloneErrOwn, RawValues
<1>5. CASE PlainInit(c) \/ PlainFetch(c)
  BY <1>4, <1>5, PlainInitEffect, PlainFetchEffect
<1>6. CASE WriteMkdir(c) \/ WriteCreate(c) \/ WriteFill(c) \/ WriteRename(c)
  BY <1>1, <1>6, WriteMkdirEffect, WriteCreateEffect, WriteFillEffect, WriteRenameEffect, ErrsFails
     DEF Labelled
<1>7. CASE WorktreeUndo(c) \/ AddWrite(c) \/ CommitLand(c)
  BY <1>1, <1>7, WorktreeUndoEffect, AddWriteEffect, CommitLandEffect, ErrsFails DEF Labelled
<1>8. CASE Answer(c)
  BY <1>8, AnswerOwn
<1> QED
  BY <1>2, <1>3, <1>5, <1>6, <1>7, <1>8 DEF AdapterStep, Writing

\* What the answer to each capability can be.
LEMMA AnswerOf ==
  ASSUME Typed, Labelled, NEW c \in Call, Answer(c)
  PROVE  /\ ctx[c] # "none" =>
              ans'[c].status \in {"timeout", "cancelled"} /\ ans'[c].stream = "none"
         /\ op[c].cap # "clone" /\ raw[c].err # "none" =>
              ans'[c].status \in {"timeout", "cancelled", "failure"} /\ ans'[c].stream = "none"
         /\ op[c].cap # "clone" /\ raw[c].err = "none" =>
              ans'[c].status \in {"success", "timeout", "cancelled"}
         /\ op[c].cap = "read_file" /\ ans'[c].stream = "empty" =>
              raw[c].err = "none" /\ raw[c].data > raw[c].total
         /\ op[c].cap # "read_file" => ans'[c].stream # "empty"
         /\ op[c].cap = "clone" /\ ans'[c].status = "partial" =>
              /\ raw[c].err \in {"none", "run"} /\ ~raw[c].checkoutOK
              /\ Dest(c) \in dirs \/ raw[c].head \/ raw[c].ref
<1>1. /\ raw[c].err \in RawErr /\ op[c] # NoOp
      /\ ans'[c] = IF ctx[c] # "none" THEN NormalizeError(Failed(ctx[c])) ELSE Normalize(c)
  BY AnswerOwn DEF Typed, RawOutcome, Labelled
<1>2. CASE ctx[c] # "none"
  <2>1. Failed(ctx[c]).err \in {"canceled", "deadline"} \cap (RawErr \ {"none"})
    BY <1>2, CtxErrors, FailedErr
  <2>2. /\ NormalizeError(Failed(ctx[c])).status \in {"timeout", "cancelled"}
        /\ NormalizeError(Failed(ctx[c])).stream = "none"
    BY <2>1, ErrorAnswer
  <2> QED
    BY <1>1, <1>2, <2>2
<1>3. CASE ctx[c] = "none" /\ op[c].cap # "clone" /\ raw[c].err # "none"
  <2>1. Normalize(c) = NormalizeError(raw[c])
    BY <1>1, <1>3, OpFields DEF Normalize, NormalizeRead, NormalizeWrite, NormalizeWorktreeCreate,
       NormalizeCommit, NormalizeStatus, NormalizeDiff, Typed
  <2> QED
    BY <1>1, <1>3, <2>1, ErrorAnswer
<1>4. CASE ctx[c] = "none" /\ op[c].cap # "clone" /\ raw[c].err = "none"
  <2>1. CASE op[c].cap = "read_file"
    <3>1. Normalize(c) = Success({}, StreamOf(raw[c].data, raw[c].total))
      BY <1>4, <2>1 DEF Normalize, NormalizeRead
    <3>2. StreamOf(raw[c].data, raw[c].total) = "empty" => raw[c].data > raw[c].total
      BY DEF StreamOf
    <3> QED
      BY <1>1, <1>4, <2>1, <3>1, <3>2, OutcomeFields
  <2>2. CASE op[c].cap # "read_file"
    <3>1. \E a, t : t # "empty" /\ Normalize(c) = Success(a, t)
      BY <1>1, <1>4, <2>2, OpFields DEF Normalize, NormalizeWrite, NormalizeWorktreeCreate,
         NormalizeCommit, NormalizeStatus, NormalizeDiff, Typed
    <3> QED
      BY <1>1, <1>4, <2>2, <3>1, OutcomeFields
  <2> QED
    BY <2>1, <2>2
<1>5. CASE ctx[c] = "none" /\ op[c].cap = "clone"
  <2>1. ans'[c] = NormalizeClone(raw[c], Dest(c) \in dirs)
    BY <1>1, <1>5 DEF Normalize
  <2>2. CASE raw[c].err \in {"canceled", "deadline", "validation"}
    <3>1. ans'[c] = NormalizeError(raw[c])
      BY <2>1, <2>2 DEF NormalizeClone
    <3> QED
      BY <1>1, <1>5, <2>2, <3>1, ErrorAnswer
  <2>3. CASE raw[c].err \notin {"canceled", "deadline", "validation"}
    <3> DEFINE arts == CloneArtifacts(raw[c], Dest(c) \in dirs)
               status == Classify(arts # {}, ~raw[c].checkoutOK)
    <3>1. ans'[c] = IF status = "success" THEN Success(arts, "none")
                    ELSE [Outcome(status, "unknown", "external_failure") EXCEPT !.artifacts = arts]
      BY <2>1, <2>3 DEF NormalizeClone
    <3>2. status = "partial" => ~raw[c].checkoutOK /\ arts # {}
      BY DEF Classify
    <3>3. arts # {} => Dest(c) \in dirs \/ raw[c].head \/ raw[c].ref
      BY DEF CloneArtifacts
    <3> HIDE DEF arts, status
    <3>4. ans'[c].status \in {status, "success"} /\ ans'[c].stream = "none"
      BY <3>1, OutcomeFields
    <3> QED
      BY <1>1, <1>5, <2>3, <3>2, <3>3, <3>4 DEF RawErr
  <2> QED
    BY <2>2, <2>3
<1> QED
  BY <1>2, <1>3, <1>4, <1>5

-----------------------------------------------------------------------------
(* Versions and views *)

\* What a finished call was told does not change, but for its answer.
LEMMA FinishedStays ==
  ASSUME Core, NEW c \in Call, AdapterStep(c), NEW b \in Call, pc[b] \in {"returned", "done", "lost"}
  PROVE  /\ pc'[b] \in {"returned", "done", "lost"} /\ raw'[b] = raw[b] /\ mem'[b] = mem[b]
         /\ (pc'[b] = pc[b] /\ ans'[b] = ans[b]) \/ (b = c /\ Answer(c) /\ pc'[b] = "done")
<1>1. Typed /\ Labelled /\ Own(c)
  BY StepOwn DEF Core
<1>2. CASE b # c
  BY <1>1, <1>2 DEF Own, Update
<1>3. CASE b = c
  BY <1>1, <1>3, ReturnedStep, AnswerOwn DEF Own, Running
<1> QED
  BY <1>2, <1>3

\* Every file stays a whole version of a write that has not failed.
LEMMA VersionsStep ==
  ASSUME Core, NEW c \in Call, AdapterStep(c)
  PROVE  Versions'
<1>1. Typed /\ Labelled /\ Own(c) /\ Versions /\ Typed'
  BY StepOwn, TypedStep DEF Core
<1>2. op' = op /\ \A b \in Call : (Target(b))' = Target(b)
  BY <1>1 DEF Own, Target
<1>3. ASSUME NEW b \in Call, NEW f \in File, file[f].by = b
      PROVE  /\ op[b].cap = "write_file" /\ Target(b) = f
             /\ pc'[b] \in {"returned", "done", "lost"} /\ raw'[b].err = "none"
             /\ pc'[b] = "done" => ans'[b].status # "failure"
  <2>1. /\ op[b].cap = "write_file" /\ Target(b) = f
        /\ pc[b] \in {"returned", "done", "lost"} /\ raw[b].err = "none"
        /\ pc[b] = "done" => ans[b].status # "failure"
    BY <1>1, <1>3 DEF Versions
  <2>2. Answer(b) => ans'[b].status # "failure"
    BY <1>1, <2>1, AnswerOf
  <2> QED
    BY <2>1, <2>2, FinishedStays
<1>4. CASE file' = file
  BY <1>1, <1>2, <1>3, <1>4 DEF Versions
<1>5. CASE /\ op[c].cap = "write_file" /\ Target(c) \in File
           /\ pc[c] = "rename" /\ pc'[c] = "returned" /\ raw'[c].err = "none"
           /\ file'[Target(c)].by = c /\ file'[Target(c)].whole
           /\ \A f \in File \ {Target(c)} : file'[f] = file[f]
  <2>1. c # "none"
    BY CallAssumption
  <2> QED
    BY <1>1, <1>2, <1>3, <1>5, <2>1 DEF Versions
<1>6. CASE \A f \in File : file'[f] = IF DirOf[f] = Dest(c) THEN NoFile ELSE file[f]
  <2>1. NoFile.by = "none" /\ NoFile.whole /\ "none" \notin Call
    BY CallAssumption DEF NoFile
  <2> QED
    BY <1>1, <1>2, <1>3, <1>6, <2>1 DEF Versions
<1> QED
  BY <1>4, <1>5, <1>6, FileStep

\* Every reader's view stays one of a whole version.
LEMMA ViewsStep ==
  ASSUME Core, NEW c \in Call, AdapterStep(c)
  PROVE  Views'
<1>1. Typed /\ Labelled /\ Own(c) /\ Versions /\ Views
  BY StepOwn DEF Core
<1>2. op' = op /\ \A b \in Call : (Target(b))' = Target(b)
  BY <1>1 DEF Own, Target
<1>3. ASSUME NEW b \in Call, pc'[b] = "read"
      PROVE  /\ mem'[b].view.by # "none"
             /\ \A x \in Call : mem'[b].view.by = x => pc'[x] \in {"returned", "done", "lost"}
             /\ mem'[b].view.by = file'[Target(b)].by => mem'[b].view.len = file'[Target(b)].len
             /\ mem'[b].view.len >= mem'[b].total
  <2>1. CASE pc[b] = "read" /\ mem'[b] = mem[b] /\ b # c
    <3>1. /\ mem[b].view.by # "none"
          /\ \A x \in Call : mem[b].view.by = x => pc[x] \in {"returned", "done", "lost"}
          /\ mem[b].view.by = file[Target(b)].by => mem[b].view.len = file[Target(b)].len
          /\ mem[b].view.len >= mem[b].total
      BY <1>1, <2>1 DEF Views
    <3>2. Target(b) \in File
      BY <1>1, <2>1, DirOfCall DEF Labelled
    <3>3. \/ file'[Target(b)] = file[Target(b)] \/ file'[Target(b)].by = "none"
          \/ file'[Target(b)].by = c /\ pc[c] = "rename"
      <4>1. NoFile.by = "none"
        BY DEF NoFile
      <4> QED
        BY <3>2, <4>1, FileStep
    <3> QED
      BY <2>1, <3>1, <3>3, FinishedStays
  <2>2. CASE b = c
    <3>1. ReadOpen(c)
      BY <1>1, <1>3, <2>2, Arrives
    <3>2. Target(c) \in File
      BY <1>1, <3>1, ReadOpenEffect, DirOfCall DEF Labelled
    <3>3. /\ file[Target(c)] # NoFile /\ UNCHANGED file
          /\ mem' = [mem EXCEPT ![c] = [mem[c] EXCEPT !.view = file[Target(c)],
                                                      !.total = file[Target(c)].len]]
      BY <1>1, <1>3, <2>2, <3>1, ReadOpenEffect, ReadingOwn DEF Reading, diskVars, Errs
    <3>4. mem'[c].view = file[Target(c)] /\ mem'[c].total = file[Target(c)].len
      BY <1>1, <3>3 DEF Typed, Memory
    <3>6. file[Target(c)].len >= file[Target(c)].len
      <4>1. file[Target(c)] \in Content
        BY <1>1, <3>2 DEF Typed, TypeOK
      <4> QED
        BY <4>1, WorkspaceBounds DEF Content
    <3>5. /\ file[Target(c)].by # "none"
          /\ \A x \in Call : file[Target(c)].by = x => pc[x] \in {"returned", "done", "lost"}
      BY <1>1, <3>2, <3>3 DEF Versions
    <3> QED
      BY <2>2, <3>3, <3>4, <3>5, <3>6, FinishedStays
  <2> QED
    BY <1>1, <1>3, <2>1, <2>2 DEF Own, Update
<1>4. ASSUME NEW b \in Call, pc'[b] = "returned", op[b].cap = "read_file", raw'[b].err = "none"
      PROVE  /\ raw'[b].data <= mem'[b].view.len /\ raw'[b].total = mem'[b].total
             /\ op[b].max # MaxInt => raw'[b].data >= Least(mem'[b].total, op[b].max)
  <2>1. CASE b # c
    BY <1>1, <1>4, <2>1 DEF Views, Own, Update
  <2>2. CASE b = c
    <3>1. ~Fails(c)
      BY <1>4, <2>2, FailsRaw
    <3>2. ReadAll(c)
      BY <1>1, <1>4, <2>2, Succeeds
    <3>3. mem' = mem
      BY <1>1, <3>2, AskingOwn DEF Asking
    <3>4. mem[c].view.len >= mem[c].total
      BY <1>1, <3>2, ReadAllEffect DEF Views
    <3> QED
      BY <1>1, <2>2, <3>1, <3>2, <3>3, <3>4, ReadAllEffect
  <2> QED
    BY <2>1, <2>2
<1> QED
  BY <1>2, <1>3, <1>4 DEF Views

-----------------------------------------------------------------------------
(* Steps that are of no call's own: one begins, its context ends, a crash *)

Calm ==
  /\ UNCHANGED <<diskVars, op, mem, raw, ans, landed, stuck>>
  /\ CallTyped' /\ Meeting'
  /\ \A b \in Call :
       /\ \/ pc'[b] = pc[b]
          \/ pc[b] = "idle" /\ pc'[b] = "start" /\ op[b] # NoOp
          \/ Running(b) /\ pc'[b] = "lost"
       /\ met[b] \subseteq met'[b]

LEMMA CalmSteps ==
  ASSUME Core,
         \/ \E c \in Call : Begin(c) \/ \E e \in CtxEnds : CtxEnd(c, e)
         \/ Crash \/ UNCHANGED vars
  PROVE  Calm
<1>1. Typed /\ CallTyped /\ Meeting
  BY TypedParts DEF Core
<1>2. ASSUME NEW c \in Call, Begin(c) PROVE Calm
  <2>1. met[c] = {} /\ pc' \in [Call -> PC] /\ pc'[c] = "start" /\ \A b \in Call \ {c} : pc'[b] = pc[b]
    BY <1>1, <1>2, BeginEffect DEF Meeting, CallTyped, PC
  <2>2. CallTyped'
    BY <1>1, <1>2, <2>1, BeginEffect DEF CallTyped
  <2>3. Meeting'
    <3>1. \A b \in Call : pc'[b] = "idle" => b # c /\ pc[b] = "idle" /\ met'[b] = {}
      BY <1>1, <1>2, <2>1, BeginEffect DEF Meeting, Running
    <3>2. ASSUME NEW b \in Call, NEW x \in Call, b # x, Running(b)', Running(x)'
          PROVE  b \in met'[x]
      <4>1. (b # c => Running(b)) /\ (x # c => Running(x))
        BY <2>1, <3>2 DEF Running
      <4>2. CASE x = c
        BY <1>1, <1>2, <3>2, <4>1, <4>2, BeginEffect
      <4>3. CASE x # c
        <5>1. met'[x] = met[x] \cup {c}
          BY <1>1, <1>2, <4>1, <4>3, BeginEffect
        <5> QED
          BY <1>1, <3>2, <4>1, <4>3, <5>1 DEF Meeting
      <4> QED
        BY <4>2, <4>3
    <3> QED
      BY <3>1, <3>2 DEF Meeting
  <2> QED
    BY <1>1, <1>2, <2>1, <2>2, <2>3, BeginEffect DEF Calm
<1>3. ASSUME NEW c \in Call, NEW e \in CtxEnds, CtxEnd(c, e) PROVE Calm
  <2>1. UNCHANGED <<diskVars, pc, op, mem, raw, ans, met, landed, stuck>>
    BY <1>3 DEF CtxEnd, historyVars
  <2>2. CallTyped'
    BY <1>1, <1>3, <2>1 DEF CtxEnd, CallTyped
  <2> QED
    BY <1>1, <2>1, <2>2 DEF Calm, Meeting, Running
<1>4. CASE Crash
  <2>1. /\ UNCHANGED <<diskVars, op, ctx, mem, raw, ans, met, landed, stuck>>
        /\ pc' = [c \in Call |-> IF Running(c) THEN "lost" ELSE pc[c]]
    BY <1>4 DEF Crash
  <2>2. CallTyped'
    <3>1. pc' \in [Call -> PC]
      BY <1>1, <2>1 DEF CallTyped, PC
    <3> QED
      BY <1>1, <2>1, <3>1 DEF CallTyped
  <2>3. Meeting'
    BY <1>1, <2>1 DEF Meeting, Running
  <2> QED
    BY <1>1, <2>1, <2>2, <2>3 DEF Calm
<1>5. CASE UNCHANGED vars
  <2>1. UNCHANGED <<diskVars, pc, op, ctx, mem, raw, ans, met, landed, stuck>>
    BY <1>5 DEF vars, callVars, historyVars
  <2> QED
    BY <1>1, <2>1 DEF Calm, Meeting, Running, CallTyped
<1> QED
  BY <1>2, <1>3, <1>4, <1>5

\* A call that begins, a context that ends and a crash keep the invariant.
LEMMA CalmCore ==
  ASSUME Core, Calm
  PROVE  Core'
<1>1. Typed /\ Labelled /\ Temps /\ Versions /\ Views
  BY DEF Core
<1>2. DiskTyped /\ MemTyped /\ RawTyped /\ AnsTyped
  BY <1>1, TypedParts
<1>3. \A b \in Call : pc'[b] = "done" <=> pc[b] = "done"
  BY DEF Calm, Running
<1>4. Typed'
  <2>1. DiskTyped' /\ MemTyped' /\ RawTyped' /\ AnsTyped' /\ CallTyped'
    BY <1>2, <1>3 DEF Calm, diskVars, DiskTyped, MemTyped, RawTyped, AnsTyped
  <2> QED
    BY <2>1, TypedParts, PTL
<1>5. Labelled'
  BY <1>1 DEF Calm, Labelled, Running
<1>6. Temps'
  BY <1>1 DEF Calm, Temps, Running, diskVars, Target
<1>7. Versions'
  BY <1>1, <1>3 DEF Calm, Versions, Running, diskVars, Target
<1>8. Views'
  BY <1>1 DEF Calm, Views, Running, diskVars, Target
<1> QED
  BY <1>4, <1>5, <1>6, <1>7, <1>8 DEF Core, Calm

\* A file that grows keeps its writer, and only those reading it notice.
LEMMA GrowEffect ==
  ASSUME Core, NEW f \in File, Grow(f)
  PROVE  /\ UNCHANGED <<dirs, tmp, repo, pc, op, ctx, raw, ans, met, landed, stuck>>
         /\ file' \in [File -> Content] /\ file[f] # NoFile /\ file'[f] # NoFile
         /\ file'[f].by = file[f].by /\ file'[f].whole = file[f].whole
         /\ file'[f].len = file[f].len + 1
         /\ \A g \in File \ {f} : file'[g] = file[g]
         /\ mem' \in [Call -> Memory]
         /\ \A c \in Call :
              /\ mem'[c].copy = mem[c].copy /\ mem'[c].todo = mem[c].todo
              /\ mem'[c].fresh = mem[c].fresh /\ mem'[c].delta = mem[c].delta
              /\ mem'[c].total = mem[c].total
              /\ pc[c] # "read" => mem'[c] = mem[c]
              /\ pc[c] = "read" =>
                   /\ mem'[c].view.by = mem[c].view.by
                   /\ mem'[c].view.len = IF Target(c) = f /\ mem[c].view.by = file[f].by
                                         THEN mem[c].view.len + 1 ELSE mem[c].view.len
<1>1. Typed /\ Labelled /\ Versions /\ Views
  BY DEF Core
<1>2. file \in [File -> Content] /\ file[f] \in Content /\ mem \in [Call -> Memory]
  BY <1>1 DEF Typed, TypeOK
<1>3. UNCHANGED <<dirs, tmp, repo, pc, op, ctx, raw, ans, met, landed, stuck>>
  BY DEF Grow, historyVars
<1>4. file[f] # NoFile /\ file[f].len < MaxLen /\ file' = [file EXCEPT ![f].len = @ + 1]
  BY DEF Grow
<1>5. MaxLen \in Nat
  BY WorkspaceBounds
<1> DEFINE n == [file[f] EXCEPT !.len = @ + 1]
<1>6. n \in Content /\ n.by = file[f].by /\ n.whole = file[f].whole /\ n.len = file[f].len + 1
  BY <1>2, <1>4, <1>5 DEF Content
<1>7. file' = [file EXCEPT ![f] = n]
  BY <1>2, <1>4
<1> HIDE DEF n
<1>8. /\ file' \in [File -> Content] /\ file'[f] = n /\ \A g \in File \ {f} : file'[g] = file[g]
  BY <1>2, <1>6, <1>7
<1>9. n # NoFile
  BY <1>1, <1>4, <1>6 DEF Versions, NoFile
<1>10. ASSUME NEW c \in Call, pc[c] = "read", Target(c) = f, mem[c].view.by = file[f].by
       PROVE  LET k == [mem[c] EXCEPT !.view.len = @ + 1] IN
              /\ k \in Memory /\ k.copy = mem[c].copy /\ k.todo = mem[c].todo
              /\ k.fresh = mem[c].fresh /\ k.delta = mem[c].delta /\ k.total = mem[c].total
              /\ k.view.by = mem[c].view.by /\ k.view.len = mem[c].view.len + 1
  <2>1. mem[c] \in Memory /\ mem[c].view \in Content
    BY <1>2 DEF Memory
  <2>2. mem[c].view.len = file[f].len
    BY <1>1, <1>10 DEF Views
  <2> DEFINE v == [mem[c].view EXCEPT !.len = @ + 1]
  <2>3. v \in Content /\ v.by = mem[c].view.by /\ v.len = mem[c].view.len + 1
    BY <1>4, <1>5, <2>1, <2>2 DEF Content
  <2>4. [mem[c] EXCEPT !.view.len = @ + 1] = [mem[c] EXCEPT !.view = v]
    BY <2>1 DEF Memory
  <2> HIDE DEF v
  <2>5. LET k == [mem[c] EXCEPT !.view = v] IN
        /\ k \in Memory /\ k.copy = mem[c].copy /\ k.todo = mem[c].todo
        /\ k.fresh = mem[c].fresh /\ k.delta = mem[c].delta /\ k.total = mem[c].total
        /\ k.view = v
    BY <2>1, <2>3 DEF Memory
  <2> QED
    BY <2>3, <2>4, <2>5
<1>11. mem' = [c \in Call |->
         IF pc[c] = "read" /\ Target(c) = f /\ mem[c].view.by = file[f].by
         THEN [mem[c] EXCEPT !.view.len = @ + 1] ELSE mem[c]]
  BY DEF Grow
<1>12. /\ mem' \in [Call -> Memory]
       /\ \A c \in Call :
              /\ mem'[c].copy = mem[c].copy /\ mem'[c].todo = mem[c].todo
              /\ mem'[c].fresh = mem[c].fresh /\ mem'[c].delta = mem[c].delta
              /\ mem'[c].total = mem[c].total
              /\ pc[c] # "read" => mem'[c] = mem[c]
              /\ pc[c] = "read" =>
                   /\ mem'[c].view.by = mem[c].view.by
                   /\ mem'[c].view.len = IF Target(c) = f /\ mem[c].view.by = file[f].by
                                         THEN mem[c].view.len + 1 ELSE mem[c].view.len
  BY <1>2, <1>10, <1>11
<1> QED
  BY <1>3, <1>4, <1>6, <1>8, <1>9, <1>12

LEMMA GrowCore ==
  ASSUME Core, NEW f \in File, Grow(f)
  PROVE  Core'
<1>1. Typed /\ Labelled /\ Meeting /\ Temps /\ Versions /\ Views
  BY DEF Core
<1>2. DiskTyped /\ CallTyped /\ MemTyped /\ RawTyped /\ AnsTyped
  BY <1>1, TypedParts
<1>3. Typed'
  <2>1. DiskTyped'
    BY <1>2, GrowEffect DEF DiskTyped
  <2>2. MemTyped' /\ RawTyped' /\ AnsTyped' /\ CallTyped'
    BY <1>2, GrowEffect DEF MemTyped, RawTyped, AnsTyped, CallTyped
  <2> QED
    BY <2>1, <2>2, TypedParts, PTL
<1>4. UNCHANGED <<pc, op, tmp, stuck, met, raw, ans>> /\ \A c \in Call : (Target(c))' = Target(c)
  BY GrowEffect DEF Target
<1>5. Labelled' /\ Meeting' /\ Temps'
  BY <1>1, <1>4 DEF Labelled, Meeting, Temps, Running
<1>6. Versions'
  BY <1>1, <1>4, GrowEffect DEF Versions
<1>7. Views'
  <2>1. ASSUME NEW c \in Call, pc[c] = "read"
        PROVE  /\ mem'[c].view.by # "none"
               /\ \A b \in Call : mem'[c].view.by = b => pc[b] \in {"returned", "done", "lost"}
               /\ mem'[c].view.by = file'[Target(c)].by =>
                    mem'[c].view.len = file'[Target(c)].len
               /\ mem'[c].view.len >= mem'[c].total
    <3>1. Target(c) \in File
      BY <1>1, <2>1, DirOfCall DEF Labelled
    <3>2. mem[c].view.len \in Nat /\ mem[c].total \in Nat
      <4>1. mem[c].view \in Content /\ mem[c].total \in Nat
        BY <1>1 DEF Typed, Memory
      <4> QED
        BY <4>1, WorkspaceBounds DEF Content
    <3>3. mem'[c].view.len >= mem'[c].total
      BY <1>1, <2>1, <3>2, GrowEffect DEF Views
    <3> QED
      BY <1>1, <2>1, <3>1, <3>3, GrowEffect DEF Views
  <2> QED
    BY <1>1, <1>4, <2>1, GrowEffect DEF Views
<1> QED
  BY <1>3, <1>5, <1>6, <1>7 DEF Core

LEMMA InitCore == Init => Core
<1> SUFFICES ASSUME Init PROVE Core
  OBVIOUS
<1>1. DiskTyped
  <2>1. /\ \A f \in File : file[f] = IF f \in InitFiles THEN Written("outside", TRUE) ELSE NoFile
        /\ \A d \in Dir : repo[d] = IF d \in InitRepos THEN NewRepo("outside", TRUE) ELSE NoRepo
        /\ \A c \in Call : tmp[c] = NoTmp
        /\ dirs = InitDirs
    BY DEF Init
  <2>2. file \in [File -> Content] /\ repo \in [Dir -> Repo]
    BY Values DEF Init, Writer
  <2>3. tmp \in [Call -> [state : {"none", "part", "whole"}, dir : Dir \cup {"none"}]]
    BY DEF Init, NoTmp
  <2> QED
    BY <2>1, <2>2, <2>3, TreeAssumption DEF DiskTyped
<1>2. CallTyped /\ MemTyped
  BY Values DEF Init, CallTyped, PC, MemTyped
<1>3. RawTyped
  BY RawValues DEF Init, RawTyped
<1>4. AnsTyped
  BY DEF Init, AnsTyped
<1>5. Typed
  BY <1>1, <1>2, <1>3, <1>4, TypedParts
<1>6. \A c \in Call : pc[c] = "idle" /\ met[c] = {} /\ tmp[c] = NoTmp
  BY DEF Init
<1>7. Labelled /\ Meeting /\ Temps /\ Views
  BY <1>6 DEF Labelled, Meeting, Temps, Views, Running
<1>8. Versions
  <2>1. \A f \in File : file[f] = NoFile \/ file[f] = Written("outside", TRUE)
    BY DEF Init
  <2>2. /\ NoFile.by = "none" /\ NoFile.whole
        /\ Written("outside", TRUE).by = "outside" /\ Written("outside", TRUE).whole
    BY DEF NoFile, Written
  <2> QED
    BY <2>1, <2>2, CallAssumption DEF Versions
<1> QED
  BY <1>5, <1>7, <1>8 DEF Core

\* The invariant is inductive.
LEMMA CoreNext == Core /\ [Next]_vars => Core'
<1> SUFFICES ASSUME Core, [Next]_vars PROVE Core'
  OBVIOUS
<1>1. ASSUME NEW c \in Call, AdapterStep(c) PROVE Core'
  BY <1>1, TypedStep, TempsStep, VersionsStep, ViewsStep DEF Core
<1> QED
  BY <1>1, NextCases, CalmSteps, CalmCore, GrowCore

\* The invariant that the adapters' types, temporary files and versions rest on.
LEMMA CoreAlways == Spec => []Core
  BY InitCore, CoreNext, PTL DEF Spec

\* Whatever exists is in a directory that exists, and everything has its type,
\* whichever calls run, fail or die, and in whatever order.
THEOREM TypeCorrect == Spec => []TypeOK
<1>1. Core => TypeOK
  BY DEF Core, Typed
<1> QED
  BY <1>1, CoreAlways, PTL

\* "Never partial" (D8.4): the target of write_file holds all of one version at
\* every moment, and never that of a write that was answered with a failure.
THEOREM WritesAreAtomic == Spec => []WriteIsAtomic
<1>1. Core => WriteIsAtomic
  BY DEF Core, Versions, WriteIsAtomic
<1> QED
  BY <1>1, CoreAlways, PTL

\* writeFile leaves no temporary file behind, but for a crash or a removal that
\* failed, whatever other calls do to the directory meanwhile.
THEOREM TempsAreRemoved == Spec => []NoTempLeft
<1>1. Core => NoTempLeft
  BY DEF Core, Temps, NoTempLeft, Running
<1> QED
  BY <1>1, CoreAlways, PTL

\* A read that has been answered keeps what it saw.
LEMMA ReadsNext == Core /\ ReadIsComplete /\ [Next]_vars => ReadIsComplete'
<1> DEFINE Complete(b) == \/ ans[b].stream # "empty" /\ raw[b].data >= Least(mem[b].total, op[b].max)
                          \/ mem[b].view.len > mem[b].total
                          \/ op[b].max = MaxInt
<1> SUFFICES ASSUME Core, ReadIsComplete, [Next]_vars, NEW b \in Call,
                    op'[b].cap = "read_file", ans'[b].status = "success"
             PROVE  Complete(b)'
  BY DEF ReadIsComplete
<1>1. Typed /\ Labelled /\ Views
  BY DEF Core
<1>2. ASSUME ans[b].status = "success", op[b].cap = "read_file" PROVE pc[b] = "done" /\ Complete(b)
  BY <1>1, <1>2 DEF Typed, NoAnswer, ReadIsComplete
<1>3. ASSUME NEW c \in Call, AdapterStep(c) PROVE Complete(b)'
  <2>1. op' = op
    BY <1>1, <1>3, StepOwn DEF Own
  <2>2. CASE ans'[b] = ans[b]
    BY <1>2, <1>3, <2>1, <2>2, FinishedStays
  <2>3. CASE ans'[b] # ans[b]
    <3>1. b = c /\ Answer(c)
      BY <1>1, <1>3, <2>3, StepOwn, AskingOwn, ReadingOwn, WritingOwn DEF Own, Update, AdapterStep
    <3>2. /\ op[c].cap = "read_file" /\ pc[c] = "returned" /\ mem' = mem /\ raw' = raw
      BY <1>1, <2>1, <3>1, AnswerOwn
    <3>3. raw[c].err = "none" /\ (ans'[c].stream = "empty" => raw[c].data > raw[c].total)
      BY <1>1, <3>1, <3>2, AnswerOf
    <3>4. /\ raw[c].data <= mem[c].view.len /\ raw[c].total = mem[c].total
          /\ op[c].max # MaxInt => raw[c].data >= Least(mem[c].total, op[c].max)
      BY <1>1, <3>2, <3>3 DEF Views
    <3>5. mem[c] \in Memory /\ raw[c] \in RawOutcome
      BY <1>1 DEF Typed
    <3>6. mem[c].view \in Content /\ mem[c].total \in Nat /\ raw[c].data \in Nat
      BY <3>5 DEF Memory, RawOutcome
    <3>7. mem[c].view.len \in Nat
      BY <3>6, WorkspaceBounds DEF Content
    <3>8. ans'[c].stream = "empty" => mem[c].view.len > mem[c].total
      BY <3>3, <3>4, <3>6, <3>7
    <3> QED
      BY <2>1, <3>1, <3>2, <3>4, <3>8
  <2> QED
    BY <2>2, <2>3
<1>4. ASSUME NEW f \in File, Grow(f) PROVE Complete(b)'
  BY <1>2, <1>4, GrowEffect
<1>5. ASSUME Calm PROVE Complete(b)'
  BY <1>2, <1>5 DEF Calm
<1> QED
  BY <1>3, <1>4, <1>5, NextCases, CalmSteps

\* A successful read_file has all that the file held when it was opened, or as
\* much as it asked for, unless the file grew while it was read (NormalizeRead
\* drops the error of NewStreamRef) or its limit was the largest int (int64(max)+1
\* wraps).
THEOREM ReadsAreComplete == Spec => []ReadIsComplete
<1>1. Init => ReadIsComplete
  BY DEF Init, ReadIsComplete, NoAnswer
<1> QED
  BY <1>1, CoreAlways, ReadsNext, PTL DEF Spec
=============================================================================
