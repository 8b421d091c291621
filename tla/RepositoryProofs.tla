-------------------------- MODULE RepositoryProofs --------------------------
(***************************************************************************)
(* Proofs about the repositories on the tree: what clone, worktree.create  *)
(* and commit may take from each other, and what they promise when they    *)
(* do not meet.                                                            *)
(***************************************************************************)
EXTENDS WorkspaceProofs, SequenceTheorems

-----------------------------------------------------------------------------
(* The inductive invariant *)

\* What a call found absent or empty, only calls that it met can have filled.
Claims ==
  \A c \in Call :
    /\ pc[c] \in {"create", "fill", "rename"} /\ ~op[c].overwrite =>
         file[Target(c)].by \in met[c] \cup {"none"}
    /\ pc[c] \in {"init", "base", "fetch", "checkout", "undo", "undoCheckout"} =>
         /\ \A f \in File : DirOf[f] = Dest(c) => file[f].by \in met[c] \cup {"none"}
         /\ repo[Dest(c)].by \in met[c] \cup {c, "none"}
    /\ pc[c] \in {"init", "base"} => repo[Dest(c)].by # c

\* A repository is of the clone that made it, and of a worktree.create that has
\* returned only if that succeeded or could not remove it.
Makers ==
  \A d \in Dir :
    /\ repo[d].by = "none" => repo[d] = NoRepo
    /\ \A c \in Call : repo[d].by = c =>
         /\ op[c].cap \in Cloning /\ Dest(c) = d
         /\ pc[c] \in {"fetch", "checkout", "undo", "undoCheckout", "returned", "done", "lost"}
         /\ op[c].cap = "worktree.create" /\ c \notin stuck =>
              /\ pc[c] \in {"returned", "done"} => raw[c].err = "none"
              /\ pc[c] = "done" => ans[c].status \in {"success", "timeout", "cancelled"}

\* A clone that met nobody and failed to fetch left its directory absent, if
\* that is how it found it and go-git could clean up.
Fetches ==
  \A c \in Call : op[c].cap = "clone" =>
    /\ pc[c] = "fetch" => mem[c].fresh # "none"
    /\ pc[c] = "returned" =>
         /\ raw[c].head \/ raw[c].ref \/ raw[c].checkoutOK => raw[c].fetchOK
         /\ raw[c].err = "none" => raw[c].checkoutOK
         /\ raw[c].err = "run" /\ ~raw[c].fetchOK /\ met[c] = {} =>
              mem[c].fresh \in {"empty", "used"} \/ Dest(c) \notin dirs \/ c \in stuck

\* Who staged an entry of the index in directory d, if a call did.
StagedIn(r, d) ==
  \A f \in File, b \in Call : r.stager[f] = b =>
    op[b].cap = "commit" /\ Dest(b) = d /\ pc[b] # "idle"

Committed(c) == op[c].cap = "commit" /\ pc[c] \in {"returned", "done"} /\ raw[c].err = "none"

Stagers ==
  /\ \A d \in Dir : StagedIn(repo[d], d)
  /\ \A c \in Call : op[c].cap = "commit" =>
       /\ StagedIn(mem[c].copy, Dest(c))
       /\ pc[c] \in {"returned", "done", "lost"} \/ c \notin landed
       /\ pc[c] = "returned" /\ raw[c].err = "none" => c \in landed

\* f comes after the first n of what is left to stage.
Ahead(s, n, f) == \E j \in DOMAIN s : j > n /\ s[j] = f
Asked(c) == {op[c].paths[i] : i \in DOMAIN op[c].paths}

\* A commit that is alone in its repository stages one path after another, and
\* builds its tree from an index that holds them all.
Staging ==
  \A c \in Call : op[c].cap = "commit" /\ ~Contended(c) =>
    /\ pc[c] \in {"add", "build"} =>
         \A f \in Asked(c) : repo[Dest(c)].stager[f] = c \/ Ahead(mem[c].todo, 0, f)
    /\ pc[c] = "added" =>
         \A f \in Asked(c) : mem[c].copy.stager[f] = c \/ Ahead(mem[c].todo, 1, f)
    /\ pc[c] = "all" => Asked(c) = {}
    /\ pc[c] = "build" => mem[c].todo = <<>>
    /\ pc[c] = "land" \/ Committed(c) => \A f \in Asked(c) : mem[c].copy.stager[f] = c

\* The repository that a commit which was alone went to is not made again, and
\* the commit is in its log and in every log that was read from it since.
History ==
  \A c \in Call : op[c].cap = "commit" /\ ~Contended(c) =>
    /\ pc[c] = "land" \/ Committed(c) =>
         /\ mem[c].copy.by # "none" /\ c \in mem[c].copy.log
         /\ \A x \in Call : mem[c].copy.by = x => pc[x] \in {"done", "lost"}
    /\ Committed(c) /\ SameRepo(c) =>
         /\ c \in repo[Dest(c)].log
         /\ \A b \in Call : b # c /\ pc[b] = "land" /\ Dest(b) = Dest(c) => c \in mem[b].copy.log

\* Where no commit was contended, what the index has and HEAD has not was
\* staged by calls that have not committed.
Pending(index, tree, stager) == \A f \in File : index[f] # tree[f] => stager[f] \in Call \ landed
Leftovers ==
  /\ \A d \in Dir : Serial(d) => Pending(repo[d].index, repo[d].tree, repo[d].stager)
  /\ \A c \in Call : op[c].cap = "commit" /\ Serial(Dest(c)) =>
       /\ pc[c] = "added" =>
            Pending(mem[c].copy.index, repo[Dest(c)].tree, mem[c].copy.stager)
       /\ pc[c] = "land" => repo[Dest(c)].index = mem[c].copy.tree
       /\ pc[c] = "land" \/ c \in landed =>
            \A f \in mem[c].delta : LET s == mem[c].copy.stager[f] IN
              s # c => s \in Call \ landed /\ pc[s] \in {"done", "lost"}

\* A commit is answered with success only after its last step.
Told == \A c \in Call : op[c].cap = "commit" /\ ans[c].status = "success" => Committed(c)

Base == Core /\ Claims /\ Makers
Commits == Stagers /\ Staging /\ History /\ Leftovers /\ Told

-----------------------------------------------------------------------------
(* What a step of call c does to the repository in its directory *)

Makes(c) ==
  /\ op[c].cap \in Cloning /\ pc[c] \in {"init", "fetch"}
  /\ pc'[c] \in {"fetch", "checkout", "undo"} \/ (pc'[c] = "returned" /\ op[c].cap = "clone")
  /\ \E b \in BOOLEAN : repo'[Dest(c)] = NewRepo(c, b)
Clears(c) ==
  /\ op[c].cap \in Cloning /\ pc[c] \in {"fetch", "undo", "undoCheckout"}
  /\ repo'[Dest(c)] = NoRepo
Indexes(c) ==
  /\ op[c].cap = "commit" /\ pc[c] = "added" /\ repo[Dest(c)] # NoRepo
  /\ repo'[Dest(c)].by = repo[Dest(c)].by /\ repo'[Dest(c)].tree = repo[Dest(c)].tree
  /\ repo'[Dest(c)].log = repo[Dest(c)].log
  /\ repo'[Dest(c)].index = mem[c].copy.index /\ repo'[Dest(c)].stager = mem[c].copy.stager
Lands(c) ==
  /\ op[c].cap = "commit" /\ pc[c] = "land" /\ repo[Dest(c)] # NoRepo
  /\ pc'[c] = "returned" /\ raw'[c].err = "none" /\ landed' = landed \cup {c} /\ mem' = mem
  /\ repo'[Dest(c)].by = repo[Dest(c)].by /\ repo'[Dest(c)].tree = mem[c].copy.tree
  /\ repo'[Dest(c)].log = mem[c].copy.log
  /\ repo'[Dest(c)].index = repo[Dest(c)].index /\ repo'[Dest(c)].stager = repo[Dest(c)].stager

\* A step of c changes the repository in c's directory, in one of these ways, and
\* no other.
LEMMA RepoStep ==
  ASSUME Core, NEW c \in Call, AdapterStep(c)
  PROVE  \/ repo' = repo
         \/ /\ Dest(c) \in Dir /\ \A d \in Dir \ {Dest(c)} : repo'[d] = repo[d]
            /\ Makes(c) \/ Clears(c) \/ Indexes(c) \/ Lands(c)
<1>1. Typed /\ Labelled
  BY DEF Core
<1>2. CASE Answer(c) \/ Asking(c) \/ Reading(c)
  BY <1>1, <1>2, AnswerOwn, AskingOwn, ReadingOwn DEF diskVars
<1>3. CASE WriteMkdir(c) \/ WriteCreate(c) \/ WriteFill(c) \/ WriteRename(c)
  BY <1>1, <1>3, WriteMkdirEffect, WriteCreateEffect, WriteFillEffect, WriteRenameEffect
<1>4. CASE PlainInit(c)
  <2>1. op[c].cap \in Cloning /\ Dest(c) \in Dir /\ pc[c] = "init"
    BY <1>1, <1>4, PlainInitEffect, DirOfCall DEF Labelled
  <2>2. CASE repo' # repo
    <3>1. /\ pc'[c] = "fetch" \/ CloneErr(c)
          /\ repo' = [repo EXCEPT ![Dest(c)] = NewRepo(c, FALSE)]
      BY <1>1, <1>4, <2>2, PlainInitEffect
    <3>2. pc'[c] \in {"fetch", "undo"} \/ (pc'[c] = "returned" /\ op[c].cap = "clone")
      BY <1>1, <3>1, CloneErrOwn
    <3> QED
      BY <1>1, <2>1, <3>1, <3>2, NewRepoRepo DEF Makes
  <2> QED
    BY <2>2
<1>5. CASE PlainFetch(c)
  <2>1. op[c].cap \in Cloning /\ Dest(c) \in Dir /\ pc[c] = "fetch"
    BY <1>1, <1>5, PlainFetchEffect, DirOfCall DEF Labelled
  <2>2. CASE pc'[c] = "checkout" /\ repo' = [repo EXCEPT ![Dest(c)] = NewRepo(c, TRUE)]
    BY <1>1, <2>1, <2>2, NewRepoRepo DEF Makes
  <2>3. CASE Emptied(Dest(c), mem[c].fresh = "absent") \/ Emptied(Dest(c), FALSE)
    BY <1>1, <2>1, <2>3, EmptiedDisk DEF Clears
  <2> QED
    BY <1>1, <1>5, <2>2, <2>3, PlainFetchEffect DEF diskVars
<1>6. CASE WorktreeUndo(c)
  <2>1. op[c].cap \in Cloning /\ Dest(c) \in Dir /\ pc[c] \in {"undo", "undoCheckout"}
    BY <1>1, <1>6, WorktreeUndoEffect, DirOfCall DEF Labelled, Cloning
  <2>2. CASE Emptied(Dest(c), TRUE)
    BY <1>1, <2>1, <2>2, EmptiedDisk DEF Clears
  <2> QED
    BY <1>1, <1>6, <2>2, WorktreeUndoEffect DEF diskVars
<1>7. ASSUME AddWrite(c) \/ CommitLand(c)
      PROVE  op[c].cap = "commit" /\ Dest(c) \in Dir /\ mem[c].copy \in Repo
  BY <1>1, <1>7, AddWriteEffect, CommitLandEffect, DirOfCall DEF Labelled, Typed, TypeOK
<1>8. CASE AddWrite(c) /\ repo' # repo
  <2>1. /\ pc[c] = "added" /\ repo[Dest(c)] # NoRepo
        /\ repo' = [repo EXCEPT ![Dest(c)].index = mem[c].copy.index,
                                ![Dest(c)].stager = mem[c].copy.stager]
    BY <1>1, <1>8, AddWriteEffect
  <2> QED
    BY <1>1, <1>7, <1>8, <2>1, AddWriteRepo DEF Indexes
<1>9. CASE CommitLand(c) /\ repo' # repo
  <2>1. /\ pc[c] = "land" /\ repo[Dest(c)] # NoRepo /\ pc'[c] = "returned"
        /\ raw'[c].err = "none" /\ landed' = landed \cup {c} /\ mem' = mem
        /\ repo' = [repo EXCEPT ![Dest(c)].tree = mem[c].copy.tree,
                                ![Dest(c)].log = mem[c].copy.log]
    BY <1>1, <1>9, CommitLandEffect
  <2> QED
    BY <1>1, <1>7, <1>9, <2>1, CommitLandRepo DEF Lands
<1> QED
  BY <1>2, <1>3, <1>4, <1>5, <1>6, <1>8, <1>9 DEF AdapterStep, Writing

\* Who becomes the writer of a file, or the maker of a repository, runs.
LEMMA WhoWrote ==
  ASSUME Core, Makers, NEW c \in Call, AdapterStep(c)
  PROVE  /\ \A f \in File : file'[f].by \in {file[f].by, "none", c}
         /\ \A d \in Dir : repo'[d].by \in {repo[d].by, "none", c}
<1>1. NoFile.by = "none" /\ NoRepo.by = "none" /\ \A b : NewRepo(c, b).by = c
  BY NoRepoFields DEF NoFile
<1>2. \A f \in File : file'[f].by \in {file[f].by, "none", c}
  BY <1>1, FileStep
<1>3. \A d \in Dir : repo'[d].by \in {repo[d].by, "none", c}
  BY <1>1, RepoStep DEF Makes, Clears, Indexes, Lands
<1> QED
  BY <1>2, <1>3

\* Effects stay, a step adds its own call's, and a commit's comes with HEAD.
LEMMA LandedStep ==
  ASSUME Core, NEW c \in Call, AdapterStep(c)
  PROVE  /\ stuck \subseteq stuck' /\ landed \subseteq landed' /\ landed' \subseteq landed \cup {c}
         /\ op[c].cap = "commit" => landed' = landed \/ Lands(c)
         /\ op[c].cap = "commit" /\ pc'[c] = "returned" /\ raw'[c].err = "none" => Lands(c)
<1>1. Typed /\ Labelled
  BY DEF Core
<1>2. stuck \subseteq stuck'
  BY TempStep
<1>3. CASE Answer(c) \/ Asking(c) \/ Reading(c)
  <2>1. landed' = landed
    BY <1>1, <1>3, AnswerOwn, AskingOwn, ReadingOwn
  <2>2. ~CommitLand(c)
    <3>1. CASE Answer(c)
      BY <1>1, <3>1, AnswerOwn, CommitLandEffect
    <3>2. CASE Asking(c)
      BY <1>1, <3>2, CommitLandEffect, RefuseEffect, WriteLookEffect, ReadResolveEffect,
         ReadAllEffect, LookEffect, CloneCheckoutEffect, WorktreeBaseEffect,
         WorktreeCheckoutEffect, ReportEffect, ZenonT(60) DEF Asking
    <3>3. CASE Reading(c)
      BY <1>1, <3>3, CommitLandEffect, ReadOpenEffect, CommitOpenEffect, AddReadEffect,
         AddAllEffect, CommitBuildEffect DEF Reading
    <3> QED
      BY <1>3, <3>1, <3>2, <3>3
  <2> QED
    BY <1>1, <1>2, <2>1, <2>2, Succeeds
<1>4. CASE CommitLand(c)
  <2>1. op[c].cap = "commit" /\ Dest(c) \in Dir /\ mem[c].copy \in Repo /\ pc[c] = "land"
    BY <1>1, <1>4, CommitLandEffect, DirOfCall DEF Labelled, Typed, TypeOK
  <2>2. CASE Errs(c, "run") /\ UNCHANGED <<repo, landed>>
    <3>1. raw'[c].err # "none"
      BY <1>1, <2>2, ErrsFails, FailsRaw
    <3> QED
      BY <1>2, <2>1, <2>2, <3>1
  <2>3. CASE raw'[c].err = "none" /\ landed' = landed \cup {c}
    <3>1. ~Errs(c, "run")
      BY <1>1, <2>3, ErrsFails, FailsRaw
    <3>2. /\ repo[Dest(c)] # NoRepo /\ pc'[c] = "returned" /\ mem' = mem
          /\ repo' = [repo EXCEPT ![Dest(c)].tree = mem[c].copy.tree,
                                  ![Dest(c)].log = mem[c].copy.log]
      BY <1>1, <1>4, <3>1, CommitLandEffect
    <3>3. Lands(c)
      BY <1>1, <2>1, <2>3, <3>2, CommitLandRepo DEF Lands
    <3> QED
      BY <1>2, <2>3, <3>3
  <2> QED
    BY <1>1, <1>4, <2>2, <2>3, CommitLandEffect
<1>5. CASE WriteRename(c) \/ PlainFetch(c)
  <2>1. op[c].cap # "commit"
    BY <1>1, <1>5, WriteRenameEffect, PlainFetchEffect DEF Labelled, Cloning
  <2> QED
    BY <1>1, <1>2, <1>5, <2>1, WriteRenameEffect, PlainFetchEffect
<1>6. CASE WriteMkdir(c) \/ WriteCreate(c) \/ WriteFill(c) \/ PlainInit(c) \/ WorktreeUndo(c) \/ AddWrite(c)
  <2>1. landed' = landed /\ pc[c] # "land"
    BY <1>1, <1>6, WriteMkdirEffect, WriteCreateEffect, WriteFillEffect, PlainInitEffect,
       WorktreeUndoEffect, AddWriteEffect
  <2> QED
    BY <1>1, <1>2, <2>1, Succeeds, CommitLandEffect
<1> QED
  BY <1>3, <1>4, <1>5, <1>6 DEF AdapterStep, Writing

\* The step by which a call leaves a label.
LEMMA Departs ==
  ASSUME Typed, Labelled, NEW c \in Call, AdapterStep(c)
  PROVE  /\ pc[c] = "init" => PlainInit(c)
         /\ pc[c] = "base" => WorktreeBase(c)
         /\ pc[c] = "fetch" => PlainFetch(c)
         /\ pc[c] = "checkout" => CloneCheckout(c) \/ WorktreeCheckout(c)
         /\ pc[c] \in {"undo", "undoCheckout"} => WorktreeUndo(c)
         /\ pc[c] = "returned" => Answer(c)
<1>1. CASE Asking(c)
  BY <1>1, RefuseEffect, WriteLookEffect, ReadResolveEffect, ReadAllEffect, LookEffect,
     CloneCheckoutEffect, WorktreeBaseEffect, WorktreeCheckoutEffect, ReportEffect DEF Asking
<1>2. CASE Reading(c)
  BY <1>2, ReadOpenEffect, CommitOpenEffect, AddReadEffect, AddAllEffect, CommitBuildEffect
     DEF Reading
<1>3. CASE WriteMkdir(c) \/ WriteCreate(c) \/ WriteFill(c) \/ WriteRename(c)
  BY <1>3, WriteMkdirEffect, WriteCreateEffect, WriteFillEffect, WriteRenameEffect
<1>4. CASE PlainInit(c) \/ PlainFetch(c) \/ WorktreeUndo(c) \/ AddWrite(c) \/ CommitLand(c)
  BY <1>4, PlainInitEffect, PlainFetchEffect, WorktreeUndoEffect, AddWriteEffect, CommitLandEffect
<1>5. CASE Answer(c)
  BY <1>5, AnswerOwn
<1> QED
  BY <1>1, <1>2, <1>3, <1>4, <1>5 DEF AdapterStep, Writing

\* Where a clone or a worktree.create that holds a repository can go.
LEMMA MakerMoves ==
  ASSUME Core, NEW c \in Call, AdapterStep(c), op[c].cap \in Cloning,
         pc[c] \in {"fetch", "checkout", "undo", "undoCheckout", "returned"}
  PROVE  /\ pc'[c] \in {"checkout", "undo", "undoCheckout", "returned", "done"}
         /\ op[c].cap = "worktree.create" /\ pc'[c] = "returned" =>
              \/ raw'[c].err = "none"
              \/ c \in stuck'
              \/ Emptied(Dest(c), TRUE)
<1>1. Typed /\ Labelled
  BY DEF Core
<1>2. CASE pc[c] = "fetch"
  BY <1>1, <1>2, Departs, PlainFetchEffect, CloneErrOwn
<1>3. CASE pc[c] = "checkout"
  BY <1>1, <1>3, Departs, CloneCheckoutEffect, WorktreeCheckoutEffect
<1>4. CASE pc[c] \in {"undo", "undoCheckout"}
  BY <1>1, <1>4, Departs, WorktreeUndoEffect DEF Errs
<1>5. CASE pc[c] = "returned"
  BY <1>1, <1>5, Departs, AnswerOwn
<1> QED
  BY <1>2, <1>3, <1>4, <1>5

\* An entry of the directory is somebody's.
LEMMA EmptyDir ==
  ASSUME Typed, NEW d \in Dir, ~NonEmpty(d)
  PROVE  repo[d] = NoRepo /\ \A f \in File : DirOf[f] = d => file[f] = NoFile
  BY DEF NonEmpty, Typed, TypeOK

-----------------------------------------------------------------------------
(* Steps that are not of an adapter: calls come and die, files grow *)

Quiet ==
  /\ UNCHANGED <<dirs, repo, op, raw, ans, landed, stuck>>
  /\ \A f \in File : file'[f].by = file[f].by
  /\ \A c \in Call :
       /\ mem'[c].copy = mem[c].copy /\ mem'[c].todo = mem[c].todo
       /\ mem'[c].fresh = mem[c].fresh /\ mem'[c].delta = mem[c].delta
       /\ \/ pc'[c] = pc[c]
          \/ pc[c] = "idle" /\ pc'[c] = "start" /\ op[c] # NoOp
          \/ Running(c) /\ pc'[c] = "lost"
       /\ met[c] \subseteq met'[c]

LEMMA QuietOrStep ==
  ASSUME Core, [Next]_vars
  PROVE  Quiet \/ \E c \in Call : AdapterStep(c)
<1>1. ASSUME Calm PROVE Quiet
  BY <1>1 DEF Calm, Quiet, diskVars
<1>2. ASSUME NEW f \in File, Grow(f) PROVE Quiet
  BY <1>2, GrowEffect DEF Quiet
<1> QED
  BY <1>1, <1>2, NextCases, CalmSteps

-----------------------------------------------------------------------------
(* Who made a repository *)

\* A worktree.create that fails takes what it made with it.
LEMMA MakersStep ==
  ASSUME Core, Makers, NEW c \in Call, AdapterStep(c)
  PROVE  Makers'
<1>1. Typed /\ Labelled /\ Own(c)
  BY StepOwn DEF Core
<1>2. op' = op /\ \A b \in Call : (Dest(b))' = Dest(b)
  BY <1>1 DEF Own, Dest
<1>3. NoRepo.by = "none" /\ "none" \notin Call /\ \A b : NewRepo(c, b).by = c
  BY NoRepoFields, CallAssumption
<1>4. ASSUME NEW d \in Dir, repo'[d].by = "none" PROVE repo'[d] = NoRepo
  BY <1>3, <1>4, RepoStep DEF Makers, Makes, Clears, Indexes, Lands
<1>5. ASSUME NEW d \in Dir, NEW b \in Call, repo'[d].by = b
      PROVE  /\ op[b].cap \in Cloning /\ Dest(b) = d
             /\ pc'[b] \in {"fetch", "checkout", "undo", "undoCheckout", "returned", "done", "lost"}
             /\ op[b].cap = "worktree.create" /\ b \notin stuck' =>
                  /\ pc'[b] \in {"returned", "done"} => raw'[b].err = "none"
                  /\ pc'[b] = "done" => ans'[b].status \in {"success", "timeout", "cancelled"}
  <2>1. CASE repo[d].by # b
    <3>1. Makes(c) /\ d = Dest(c) /\ b = c
      BY <1>3, <1>5, <2>1, RepoStep DEF Makes, Clears, Indexes, Lands
    <3> QED
      BY <3>1 DEF Makes
  <2>2. CASE repo[d].by = b
    <3>1. /\ op[b].cap \in Cloning /\ Dest(b) = d
          /\ pc[b] \in {"fetch", "checkout", "undo", "undoCheckout", "returned", "done", "lost"}
          /\ op[b].cap = "worktree.create" /\ b \notin stuck =>
               /\ pc[b] \in {"returned", "done"} => raw[b].err = "none"
               /\ pc[b] = "done" => ans[b].status \in {"success", "timeout", "cancelled"}
      BY <2>2 DEF Makers
    <3>2. stuck \subseteq stuck'
      BY TempStep
    <3>3. CASE b # c
      BY <1>1, <3>1, <3>2, <3>3 DEF Own, Update
    <3>4. CASE b = c
      <4>1. pc[c] \in {"fetch", "checkout", "undo", "undoCheckout", "returned"}
        BY <1>1, <3>1, <3>4 DEF Own, Running
      <4>2. pc'[c] \in {"checkout", "undo", "undoCheckout", "returned", "done"}
        BY <3>1, <3>4, <4>1, MakerMoves
      <4>3. ~Emptied(Dest(c), TRUE)
        <5>1. Dest(c) \in Dir /\ repo'[Dest(c)] # NoRepo
          BY <1>3, <1>5, <3>1, <3>4
        <5> QED
          BY <1>1, <5>1, EmptiedDisk
      <4>4. CASE pc'[c] = "done"
        <5>1. Answer(c)
          BY <1>1, <4>4, Arrives
        <5>2. raw' = raw /\ pc[c] = "returned"
          BY <1>1, <5>1, AnswerOwn
        <5>3. op[c].cap = "worktree.create" /\ raw[c].err = "none" =>
                ans'[c].status \in {"success", "timeout", "cancelled"}
          BY <1>1, <5>1, AnswerOf
        <5> QED
          BY <3>1, <3>2, <3>4, <4>2, <5>2, <5>3
      <4>5. CASE pc'[c] # "done"
        BY <3>1, <3>4, <4>1, <4>2, <4>3, <4>5, MakerMoves
      <4> QED
        BY <4>4, <4>5
    <3> QED
      BY <3>3, <3>4
  <2> QED
    BY <2>1, <2>2
<1> QED
  BY <1>2, <1>4, <1>5 DEF Makers

LEMMA MakersQuiet ==
  ASSUME Makers, Quiet
  PROVE  Makers'
<1>1. \A b \in Call : (Dest(b))' = Dest(b)
  BY DEF Quiet, Dest
<1> QED
  BY <1>1 DEF Makers, Quiet, Running

-----------------------------------------------------------------------------
(* What a call found empty, and what became of it *)

\* What appears in a directory that a call has found empty is of a call it met.
LEMMA ClaimsStep ==
  ASSUME Core, Makers, Claims, NEW c \in Call, AdapterStep(c)
  PROVE  Claims'
<1>1. Typed /\ Labelled /\ Own(c) /\ Meeting
  BY StepOwn DEF Core
<1>2. op' = op /\ met' = met /\ \A b \in Call : (Dest(b))' = Dest(b) /\ (Target(b))' = Target(b)
  BY <1>1 DEF Own, Dest, Target
<1>3. NoRepo.by = "none" /\ NoFile.by = "none" /\ "none" \notin Call
  BY NoRepoFields, CallAssumption DEF NoFile
<1>4. ASSUME NEW b \in Call, b # c, pc[b] = pc'[b],
             pc[b] \in {"create", "fill", "rename"} => op[b].cap = "write_file",
             pc[b] \in {"init", "base", "fetch", "checkout", "undo", "undoCheckout"} =>
               op[b].cap \in Cloning
      PROVE  /\ pc'[b] \in {"create", "fill", "rename"} /\ ~op[b].overwrite =>
                  file'[Target(b)].by \in met[b] \cup {"none"}
             /\ pc'[b] \in {"init", "base", "fetch", "checkout", "undo", "undoCheckout"} =>
                  /\ \A f \in File : DirOf[f] = Dest(b) => file'[f].by \in met[b] \cup {"none"}
                  /\ repo'[Dest(b)].by \in met[b] \cup {b, "none"}
             /\ pc'[b] \in {"init", "base"} => repo'[Dest(b)].by # b
  <2>1. Running(b) => c \in met[b]
    BY <1>1, <1>4 DEF Meeting, Own
  <2>2. /\ \A f \in File : file'[f].by \in {file[f].by, "none", c}
        /\ \A d \in Dir : repo'[d].by \in {repo[d].by, "none", c}
    BY WhoWrote
  <2>3. op[b].cap = "write_file" => Target(b) \in File
    BY <1>1, DirOfCall
  <2>4. op[b].cap \in Cloning => Dest(b) \in Dir
    BY <1>1, DirOfCall
  <2>5. ASSUME pc'[b] \in {"create", "fill", "rename"}, ~op[b].overwrite
        PROVE  file'[Target(b)].by \in met[b] \cup {"none"}
    BY <1>4, <2>1, <2>2, <2>3, <2>5 DEF Claims, Running
  <2>6. ASSUME pc'[b] \in {"init", "base", "fetch", "checkout", "undo", "undoCheckout"}
        PROVE  /\ \A f \in File : DirOf[f] = Dest(b) => file'[f].by \in met[b] \cup {"none"}
               /\ repo'[Dest(b)].by \in met[b] \cup {b, "none"}
    BY <1>4, <2>1, <2>2, <2>4, <2>6 DEF Claims, Running
  <2>7. ASSUME pc'[b] \in {"init", "base"}
        PROVE  repo'[Dest(b)].by # b
    BY <1>3, <1>4, <2>2, <2>4, <2>7 DEF Claims
  <2> QED
    BY <2>5, <2>6, <2>7
<1>5. ASSUME pc'[c] \in {"create", "fill", "rename"}, ~op[c].overwrite
      PROVE  file'[Target(c)].by \in met[c] \cup {"none"}
  <2>1. CASE pc'[c] = "create"
    <3>1. WriteLook(c)
      BY <1>1, <2>1, Arrives
    <3>2. file[Target(c)] = NoFile
      BY <1>1, <1>5, <2>1, <3>1, WriteLookEffect, FailsRaw DEF WriteRefused
    <3> QED
      BY <1>1, <1>3, <3>1, <3>2, AskingOwn DEF Asking, diskVars
  <2>2. CASE pc'[c] = "fill"
    BY <1>1, <1>5, <2>2, Arrives, WriteCreateEffect DEF Claims
  <2>3. CASE pc'[c] = "rename"
    BY <1>1, <1>5, <2>3, Arrives, WriteFillEffect DEF Claims
  <2> QED
    BY <1>5, <2>1, <2>2, <2>3
<1>6. ASSUME pc'[c] \in {"init", "base", "fetch", "checkout", "undo", "undoCheckout"}
      PROVE  /\ \A f \in File : DirOf[f] = Dest(c) => file'[f].by \in met[c] \cup {"none"}
             /\ repo'[Dest(c)].by \in met[c] \cup {c, "none"}
             /\ pc'[c] \in {"init", "base"} => repo'[Dest(c)].by # c
  <2>1. Dest(c) \in Dir
    <3>1. op[c].cap \in Cloning
      BY <1>1, <1>6, LabelledStep DEF Labelled, Own, Cloning
    <3> QED
      BY <1>1, <3>1, DirOfCall
  <2>2. CASE CloneLook(c) \/ WorktreeLook(c)
    <3>1. ~NonEmpty(Dest(c))
      BY <1>1, <1>6, <2>2, LookEffect, FailsRaw
    <3>2. UNCHANGED <<file, repo>>
      BY <1>1, <2>2, AskingOwn DEF Asking, diskVars
    <3> QED
      BY <1>1, <1>3, <2>1, <3>1, <3>2, EmptyDir
  <2>3. CASE WorktreeBase(c) \/ WorktreeCheckout(c)
    <3>1. UNCHANGED <<file, repo>>
      BY <1>1, <2>3, AskingOwn DEF Asking, diskVars
    <3>2. pc[c] \in {"base", "checkout"} /\ (pc'[c] \in {"init", "base"} => pc[c] = "base")
      BY <1>1, <2>3, WorktreeBaseEffect, WorktreeCheckoutEffect
    <3> QED
      BY <3>1, <3>2 DEF Claims
  <2>4. CASE PlainInit(c) \/ PlainFetch(c)
    <3>1. pc[c] \in {"init", "fetch"} /\ pc'[c] \notin {"init", "base"}
      BY <1>1, <2>4, PlainInitEffect, PlainFetchEffect, CloneErrOwn
    <3>2. \A f \in File : file'[f].by \in {file[f].by, "none", c}
      BY WhoWrote
    <3>3. \A d \in Dir : repo'[d].by \in {repo[d].by, "none", c}
      BY WhoWrote
    <3>4. \A f \in File : file'[f].by \in {file[f].by, "none"}
      BY <1>3, <3>1, FileStep
    <3> QED
      BY <2>1, <3>1, <3>3, <3>4 DEF Claims
  <2> QED
    BY <1>1, <1>6, <2>2, <2>3, <2>4, Arrives
<1>7. \A b \in Call \ {c} : /\ pc'[b] = pc[b]
                            /\ pc[b] \in {"create", "fill", "rename"} => op[b].cap = "write_file"
                            /\ pc[b] \in {"init", "base", "fetch", "checkout", "undo", "undoCheckout"} =>
                                 op[b].cap \in Cloning
  BY <1>1 DEF Own, Update, Labelled, Cloning
<1> QED
  BY <1>2, <1>4, <1>5, <1>6, <1>7 DEF Claims

LEMMA ClaimsQuiet ==
  ASSUME Core, Claims, Quiet
  PROVE  Claims'
<1>1. \A b \in Call : (Dest(b))' = Dest(b) /\ (Target(b))' = Target(b)
  BY DEF Quiet, Dest, Target
<1>2. \A b \in Call : /\ pc[b] \in {"create", "fill", "rename"} => Target(b) \in File
  BY DirOfCall DEF Core, Labelled
<1> QED
  BY <1>1, <1>2 DEF Claims, Quiet, Running

LEMMA BaseInit == Init => Base
<1> SUFFICES ASSUME Init PROVE Claims /\ Makers
  BY InitCore DEF Base
<1>1. Claims
  BY DEF Init, Claims
<1>2. \A d \in Dir : repo[d] = NoRepo \/ repo[d] = NewRepo("outside", TRUE)
  BY DEF Init
<1>3. NoRepo.by = "none" /\ NewRepo("outside", TRUE).by = "outside"
  BY NoRepoFields
<1>4. Makers
  BY <1>2, <1>3, CallAssumption DEF Makers
<1> QED
  BY <1>1, <1>4

\* Claims and Makers are inductive together with Core.
LEMMA BaseNext == Base /\ [Next]_vars => Base'
<1> SUFFICES ASSUME Base, [Next]_vars PROVE Base'
  OBVIOUS
<1>1. Core'
  BY CoreNext DEF Base
<1>2. CASE Quiet
  BY <1>1, <1>2, MakersQuiet, ClaimsQuiet DEF Base
<1>3. ASSUME NEW c \in Call, AdapterStep(c) PROVE Base'
  BY <1>1, <1>3, MakersStep, ClaimsStep DEF Base
<1> QED
  BY <1>2, <1>3, QuietOrStep DEF Base

LEMMA BaseAlways == Spec => []Base
  BY BaseInit, BaseNext, PTL DEF Spec

\* write_file with overwrite=false looks first and renames steps later, with no
\* lock: it replaces nothing but what a call that overlapped it has put there.
THEOREM OverwritesOnlyRaces == Spec => NoBlindOverwrite
<1>1. ASSUME Base, [Next]_vars, NEW c \in Call, NEW f \in File,
             file'[f].by = c, file[f].by \notin {c, "none"}, ~op[c].overwrite
      PROVE  file[f].by \in met[c]
  <2>1. ~Quiet
    BY <1>1 DEF Quiet
  <2>2. PICK x \in Call : AdapterStep(x)
    BY <1>1, <2>1, QuietOrStep DEF Base
  <2>3. c # "none" /\ NoFile.by = "none"
    BY CallAssumption DEF NoFile
  <2>4. x = c /\ Target(c) = f /\ pc[c] = "rename"
    BY <1>1, <2>2, <2>3, FileStep DEF Base
  <2> QED
    BY <1>1, <2>4 DEF Base, Claims
<1>2. Base /\ [Next]_vars =>
        [\A c \in Call, f \in File :
           file'[f].by = c /\ file[f].by \notin {c, "none"} /\ ~op[c].overwrite =>
             file[f].by \in met[c]]_vars
  BY <1>1
<1> QED
  BY <1>2, BaseAlways, PTL DEF Spec, NoBlindOverwrite

\* What a failing clone or worktree.create removes besides its own was put
\* there while it ran: it had found the directory empty.
THEOREM RemovesOnlyRaces == Spec => NothingLostButToARace
<1>1. NoFile.by = "none" /\ NoRepo.by = "none" /\ ~NoRepo.ready /\ "none" \notin Call
  BY NoRepoFields, CallAssumption DEF NoFile
<1>2. ASSUME Base, [Next]_vars, NEW d \in Dir, NEW f \in File,
             DirOf[f] = d, file[f] # NoFile, file'[f] = NoFile
      PROVE  \E c \in Call : /\ op[c].cap \in Cloning /\ Dest(c) = d /\ Running(c)
                             /\ file[f].by \in met[c]
  <2>1. file[f].by # "none"
    BY <1>2 DEF Base, Core, Versions
  <2>2. PICK c \in Call : AdapterStep(c)
    BY <1>1, <1>2, <2>1, QuietOrStep DEF Base, Quiet
  <2>3. /\ op[c].cap \in Cloning /\ Dest(c) = d
        /\ pc[c] \in {"fetch", "undo", "undoCheckout"}
    BY <1>1, <1>2, <2>2, FileStep DEF Base
  <2> QED
    BY <1>2, <2>1, <2>3 DEF Base, Claims, Running
<1>3. ASSUME Base, [Next]_vars, NEW d \in Dir, repo[d].ready, repo'[d] = NoRepo
      PROVE  \E c \in Call : /\ op[c].cap \in Cloning /\ Dest(c) = d /\ Running(c)
                             /\ repo[d].by \in met[c] \cup {c}
  <2>1. repo[d] # NoRepo /\ repo[d].by # "none"
    BY <1>1, <1>3 DEF Base, Makers
  <2>2. PICK c \in Call : AdapterStep(c)
    BY <1>3, <2>1, QuietOrStep DEF Base, Quiet
  <2>3. Clears(c) /\ Dest(c) = d
    <3>1. \A b : NewRepo(c, b).by = c
      BY NoRepoFields
    <3> QED
      BY <1>1, <1>3, <2>1, <2>2, <3>1, RepoStep DEF Base, Makes, Indexes, Lands
  <2> QED
    BY <1>3, <2>1, <2>3 DEF Base, Claims, Clears, Running
<1>4. Base /\ [Next]_vars =>
        [\A d \in Dir :
           /\ \A f \in File : DirOf[f] = d /\ file[f] # NoFile /\ file'[f] = NoFile =>
                \E c \in Call : /\ op[c].cap \in Cloning /\ Dest(c) = d /\ Running(c)
                                /\ file[f].by \in met[c]
           /\ repo[d].ready /\ repo'[d] = NoRepo =>
                \E c \in Call : /\ op[c].cap \in Cloning /\ Dest(c) = d /\ Running(c)
                                /\ repo[d].by \in met[c] \cup {c}]_vars
  BY <1>2, <1>3
<1> QED
  BY <1>4, BaseAlways, PTL DEF Spec, NothingLostButToARace

\* "No partial state is left behind": what worktree.create cloned outlives the
\* call only if it succeeded, was cut short by the budget after it had, died
\* with the process, or could not be removed.
THEOREM FailedWorktreesAreUndone == Spec => []FailedWorktreeLeavesNothing
<1>1. Base => FailedWorktreeLeavesNothing
  BY DEF Base, Makers, FailedWorktreeLeavesNothing
<1> QED
  BY <1>1, BaseAlways, PTL

-----------------------------------------------------------------------------
(* Partial clones *)

LEMMA CloneSteps ==
  ASSUME Typed, Labelled, NEW c \in Call, AdapterStep(c), op[c].cap = "clone"
  PROVE  \/ Answer(c) \/ Refuse(c) \/ CloneLook(c) \/ PlainInit(c) \/ PlainFetch(c)
         \/ CloneCheckout(c)
<1>1. CASE Asking(c)
  BY <1>1, WriteLookEffect, ReadResolveEffect, ReadAllEffect, WorktreeBaseEffect,
     WorktreeCheckoutEffect, ReportEffect DEF Asking, Labelled, WorktreeLook, Starting, At
<1>2. CASE Reading(c)
  BY <1>2, ReadOpenEffect, CommitOpenEffect, AddReadEffect, AddAllEffect, CommitBuildEffect
     DEF Reading, Labelled
<1>3. CASE Writing(c)
  BY <1>3, WriteMkdirEffect, WriteCreateEffect, WriteFillEffect, WriteRenameEffect,
     WorktreeUndoEffect, AddWriteEffect, CommitLandEffect DEF Writing, Labelled
<1> QED
  BY <1>1, <1>2, <1>3 DEF AdapterStep

\* What a clone that returns says of its fetch, and what it leaves.
FetchTold(r, alone, fresh, exists, left) ==
  /\ r.head \/ r.ref \/ r.checkoutOK => r.fetchOK
  /\ r.err = "none" => r.checkoutOK
  /\ r.err = "run" /\ ~r.fetchOK /\ alone => fresh \in {"empty", "used"} \/ ~exists \/ left

\* Whichever step a clone returns at, its outcome tells of its fetch.
LEMMA CloneReturns ==
  ASSUME Base, Fetches, NEW c \in Call, AdapterStep(c), op[c].cap = "clone", pc'[c] = "returned"
  PROVE  FetchTold(raw'[c], met[c] = {}, mem'[c].fresh, Dest(c) \in dirs', c \in stuck')
<1>1. Typed /\ Labelled /\ Own(c)
  BY StepOwn DEF Base, Core
<1>2. CASE Refuse(c) \/ CloneLook(c)
  <2>1. \E e : e # "run" /\ e # "none" /\ raw'[c] = Failed(e)
    <3>1. CASE Refuse(c)
      <4>1. raw'[c] = Failed(IF ctx[c] # "none" THEN ctx[c] ELSE "validation")
        BY <1>1, <3>1, ReturnOwn DEF Refuse
      <4> QED
        BY <1>1, <4>1, CtxErrors
    <3>2. CASE CloneLook(c)
      <4>1. Return(c, Failed("validation"))
        BY <1>1, <3>2, GotoOwn DEF CloneLook
      <4> QED
        BY <1>1, <4>1, ReturnOwn
    <3> QED
      BY <1>2, <3>1, <3>2
  <2> QED
    BY <2>1, FailedErr DEF FetchTold
<1>3. CASE CloneCheckout(c)
  BY <1>1, <1>3, CloneCheckoutEffect DEF FetchTold
<1>4. ASSUME CloneErr(c)
      PROVE  /\ ~raw'[c].fetchOK /\ ~raw'[c].checkoutOK /\ ~raw'[c].head /\ ~raw'[c].ref
             /\ raw'[c].err # "none"
  <2>1. CtxOr(c, "run") \in RawErr \ {"none"}
    BY <1>1, CtxErrors DEF CtxOr, RawErr
  <2>2. raw'[c] = [Failed(CtxOr(c, "run")) EXCEPT !.path = TRUE]
    BY <1>1, <1>4, CloneErrOwn
  <2> QED
    BY <2>1, <2>2, RawValues
<1>8. CASE PlainInit(c) /\ repo[Dest(c)] = NoRepo
  <2>1. CloneErr(c) /\ LeftBehind(c)
    BY <1>1, <1>8, PlainInitEffect
  <2> QED
    BY <1>4, <2>1, LeftBehindStuck DEF FetchTold
<1>5. CASE PlainInit(c) /\ repo[Dest(c)] # NoRepo
  <2>1. pc[c] = "init" /\ repo[Dest(c)] # NoRepo /\ CloneErr(c)
    BY <1>1, <1>5, PlainInitEffect
  <2>2. Dest(c) \in Dir
    BY <1>1, DirOfCall DEF Cloning
  <2>3. repo[Dest(c)].by # c /\ repo[Dest(c)].by # "none"
    BY <2>1, <2>2 DEF Base, Claims, Makers
  <2>4. met[c] # {}
    BY <2>1, <2>3 DEF Base, Claims
  <2> QED
    BY <1>4, <2>1, <2>4 DEF FetchTold
<1>6. CASE PlainFetch(c)
  <2>1. pc[c] = "fetch" /\ CloneErr(c) /\ mem' = mem
    BY <1>1, <1>6, PlainFetchEffect
  <2>2. mem[c].fresh \in {"absent", "empty", "used"}
    <3>1. mem[c] \in Memory
      BY <1>1 DEF Typed
    <3>2. mem[c].fresh \in {"none", "absent", "empty", "used"}
      BY <3>1 DEF Memory
    <3> QED
      BY <2>1, <3>2 DEF Fetches
  <2>4. CASE LeftBehind(c)
    BY <1>4, <2>1, <2>4, LeftBehindStuck DEF FetchTold
  <2>3. CASE mem[c].fresh = "absent" /\ ~LeftBehind(c)
    <3>1. Emptied(Dest(c), TRUE)
      BY <1>1, <1>6, <2>1, <2>3, PlainFetchEffect
    <3>2. dirs' = dirs \ {Dest(c)}
      BY <3>1 DEF Emptied
    <3> QED
      BY <1>4, <2>1, <3>2 DEF FetchTold
  <2> QED
    BY <1>4, <2>1, <2>2, <2>3, <2>4 DEF FetchTold
<1>7. ~Answer(c)
  BY <1>1, AnswerOwn
<1> QED
  BY <1>1, <1>2, <1>3, <1>5, <1>6, <1>7, <1>8, CloneSteps

\* A clone that failed to fetch into an absent directory has left none.
LEMMA FetchesStep ==
  ASSUME Base, Fetches, NEW c \in Call, AdapterStep(c)
  PROVE  Fetches'
<1>1. Typed /\ Labelled /\ Own(c) /\ Meeting
  BY StepOwn DEF Base, Core
<1>2. op' = op /\ met' = met /\ \A b \in Call : (Dest(b))' = Dest(b)
  BY <1>1 DEF Own, Dest
<1>3. ASSUME NEW b \in Call, op[b].cap = "clone", pc'[b] = "fetch"
      PROVE  mem'[b].fresh # "none"
  <2>1. CASE b # c
    BY <1>1, <1>3, <2>1 DEF Own, Update, Fetches
  <2>2. CASE b = c
    <3>1. PlainInit(c)
      BY <1>1, <1>3, <2>2, Arrives
    <3>2. \E v \in {"absent", "used", "empty"} : mem' = [mem EXCEPT ![c] = [mem[c] EXCEPT !.fresh = v]]
      BY <1>1, <1>3, <2>2, <3>1, PlainInitEffect, CloneErrOwn
    <3>3. mem[c] \in Memory /\ mem \in [Call -> Memory]
      BY <1>1 DEF Typed
    <3> QED
      BY <2>2, <3>2, <3>3 DEF Memory
  <2> QED
    BY <2>1, <2>2
<1>4. ASSUME NEW b \in Call, op[b].cap = "clone", pc'[b] = "returned"
      PROVE  FetchTold(raw'[b], met[b] = {}, mem'[b].fresh, Dest(b) \in dirs', b \in stuck')
  <2>1. CASE b # c
    <3>1. pc[b] = "returned" /\ raw'[b] = raw[b]
      BY <1>1, <1>4, <2>1 DEF Own, Update
    <3>2. met[b] # {}
      BY <1>1, <2>1, <3>1 DEF Own, Meeting, Running
    <3> QED
      BY <1>4, <3>1, <3>2 DEF Fetches, FetchTold
  <2>2. CASE b = c
    BY <1>4, <2>2, CloneReturns
  <2> QED
    BY <2>1, <2>2
<1> QED
  BY <1>2, <1>3, <1>4 DEF Fetches, FetchTold

LEMMA FetchesQuiet ==
  ASSUME Fetches, Quiet
  PROVE  Fetches'
<1>1. \A b \in Call : (Dest(b))' = Dest(b)
  BY DEF Quiet, Dest
<1>2. \A b \in Call : met'[b] = {} => met[b] = {}
  BY DEF Quiet
<1> QED
  BY <1>1, <1>2 DEF Fetches, Quiet, Running

\* A clone becomes partial with its answer, on what it has fetched or found.
LEMMA PartialNext ==
  Base /\ Fetches /\ PartialFetchedOrFound /\ [Next]_vars => PartialFetchedOrFound'
<1> SUFFICES ASSUME Base, Fetches, PartialFetchedOrFound, [Next]_vars,
                    NEW b \in Call, ans'[b].status = "partial"
             PROVE  \/ raw'[b].fetchOK \/ mem'[b].fresh \in {"empty", "used"} \/ met'[b] # {}
                    \/ b \in stuck'
  BY DEF PartialFetchedOrFound
<1>1. Core /\ Typed /\ Labelled
  BY DEF Base, Core
<1>2. ASSUME ans[b].status = "partial"
      PROVE  /\ pc[b] = "done"
             /\ raw[b].fetchOK \/ mem[b].fresh \in {"empty", "used"} \/ met[b] # {} \/ b \in stuck
  BY <1>1, <1>2 DEF Typed, NoAnswer, PartialFetchedOrFound
<1>3. ASSUME NEW c \in Call, AdapterStep(c)
      PROVE  \/ raw'[b].fetchOK \/ mem'[b].fresh \in {"empty", "used"} \/ met'[b] # {}
             \/ b \in stuck'
  <2>1. met' = met /\ stuck \subseteq stuck'
    BY <1>1, <1>3, StepOwn, TempStep DEF Own
  <2>2. CASE ans'[b] = ans[b]
    BY <1>1, <1>2, <1>3, <2>1, <2>2, FinishedStays
  <2>3. CASE ans'[b] # ans[b]
    <3>1. b = c /\ Answer(c)
      BY <1>1, <1>3, <2>3, StepOwn, AskingOwn, ReadingOwn, WritingOwn DEF Own, Update, AdapterStep
    <3>2. pc[c] = "returned" /\ UNCHANGED <<mem, raw>>
      BY <1>1, <3>1, AnswerOwn
    <3>3. /\ op[c].cap = "clone" /\ raw[c].err \in {"none", "run"} /\ ~raw[c].checkoutOK
          /\ Dest(c) \in dirs \/ raw[c].head \/ raw[c].ref
      BY <1>1, <3>1, AnswerOf
    <3> QED
      BY <2>1, <3>1, <3>2, <3>3 DEF Fetches
  <2> QED
    BY <2>2, <2>3
<1>4. ASSUME Quiet
      PROVE  \/ raw'[b].fetchOK \/ mem'[b].fresh \in {"empty", "used"} \/ met'[b] # {}
             \/ b \in stuck'
  BY <1>2, <1>4 DEF Quiet
<1> QED
  BY <1>1, <1>3, <1>4, QuietOrStep

LEMMA FetchesNext == Base /\ Fetches /\ [Next]_vars => Fetches'
  BY FetchesStep, FetchesQuiet, QuietOrStep DEF Base

LEMMA FetchesAlways == Spec => []Fetches
<1>1. Init => Fetches
  BY DEF Init, Fetches
<1> QED
  BY <1>1, BaseAlways, FetchesNext, PTL DEF Spec

\* A clone that is told to be partial has fetched, or its directory was there
\* before it, or another call was at work, or go-git failed to initialise the
\* repository or to remove what it had made, and left it there.
THEOREM PartialIsFetchedOrFound == Spec => []PartialFetchedOrFound
<1>1. Init => PartialFetchedOrFound
  BY DEF Init, PartialFetchedOrFound, NoAnswer
<1> QED
  BY <1>1, BaseAlways, FetchesAlways, PartialNext, PTL DEF Spec

-----------------------------------------------------------------------------
(* The steps of a commit *)

LEMMA CommitSteps ==
  ASSUME Typed, Labelled, NEW c \in Call, AdapterStep(c), op[c].cap = "commit"
  PROVE  \/ Answer(c) \/ Refuse(c) \/ CommitOpen(c) \/ AddRead(c) \/ AddAll(c)
         \/ AddWrite(c) \/ CommitBuild(c) \/ CommitLand(c)
<1>1. CASE Asking(c)
  BY <1>1, WriteLookEffect, ReadResolveEffect, ReadAllEffect, LookEffect, CloneCheckoutEffect,
     WorktreeBaseEffect, WorktreeCheckoutEffect, ReportEffect DEF Asking, Labelled, Cloning
<1>2. CASE Reading(c)
  BY <1>2, ReadOpenEffect DEF Reading, Labelled
<1>3. CASE Writing(c)
  BY <1>3, WriteMkdirEffect, WriteCreateEffect, WriteFillEffect, WriteRenameEffect,
     PlainInitEffect, PlainFetchEffect, WorktreeUndoEffect DEF Writing, Labelled, Cloning
<1> QED
  BY <1>1, <1>2, <1>3 DEF AdapterStep

\* CommitOpen takes the paths it is asked for.
LEMMA Opens ==
  ASSUME Core, NEW c \in Call, CommitOpen(c)
  PROVE  /\ UNCHANGED repo /\ mem'[c].copy = mem[c].copy /\ mem'[c].delta = mem[c].delta
         /\ pc'[c] \in {"add", "all"} => mem'[c].todo = op[c].paths
         /\ pc'[c] = "all" => op[c].paths = <<>>
         /\ pc'[c] \in {"add", "all", "returned"}
<1>1. Typed /\ mem \in [Call -> Memory] /\ mem[c] \in Memory
  BY DEF Core, Typed
<1>2. UNCHANGED repo
  BY <1>1, ReadingOwn DEF Reading, diskVars
<1>3. CASE pc'[c] = "returned"
  <2>1. mem' = mem \/ mem' = [mem EXCEPT ![c] = [mem[c] EXCEPT !.todo = op[c].paths]]
    BY <1>1, CommitOpenEffect
  <2> QED
    BY <1>1, <1>2, <1>3, <2>1 DEF Memory
<1>4. CASE pc'[c] # "returned"
  <2>1. /\ pc'[c] = IF op[c].paths = <<>> THEN "all" ELSE "add"
        /\ mem' = [mem EXCEPT ![c] = [mem[c] EXCEPT !.todo = op[c].paths]]
    BY <1>1, <1>4, CommitOpenEffect DEF Errs
  <2> QED
    BY <1>1, <1>2, <2>1 DEF Memory
<1> QED
  BY <1>3, <1>4

\* A step to "added" reads the index and stages some files in the copy.
LEMMA Stages ==
  ASSUME Core, NEW c \in Call, AdapterStep(c), pc'[c] = "added"
  PROVE  /\ op[c].cap = "commit" /\ pc[c] \in {"add", "all"} /\ Dest(c) \in Dir
         /\ repo[Dest(c)] # NoRepo /\ UNCHANGED <<repo, landed>>
         /\ mem'[c].todo = mem[c].todo /\ mem'[c].delta = mem[c].delta
         /\ \E fs \in SUBSET File :
              /\ mem'[c].copy = Staged(repo[Dest(c)], fs, c)
              /\ pc[c] = "add" => mem[c].todo # <<>> /\ Head(mem[c].todo) \in fs
<1>1. Typed /\ Labelled /\ mem \in [Call -> Memory] /\ mem[c] \in Memory
  BY DEF Core, Typed
<1>2. AddRead(c) \/ AddAll(c)
  BY <1>1, Arrives
<1>3. /\ op[c].cap = "commit" /\ pc[c] \in {"add", "all"} /\ Dest(c) \in Dir
      /\ UNCHANGED <<repo, landed>>
  BY <1>1, <1>2, AddReadEffect, AddAllEffect, DirOfCall, ReadingOwn DEF Reading, diskVars
<1>4. CASE AddRead(c)
  <2>1. /\ pc[c] = "add" /\ mem[c].todo # <<>> /\ repo[Dest(c)] # NoRepo
        /\ mem' = [mem EXCEPT ![c] =
             [mem[c] EXCEPT !.copy = Staged(repo[Dest(c)], {Head(mem[c].todo)}, c)]]
    BY <1>1, <1>4, AddReadEffect DEF Errs
  <2>2. {Head(mem[c].todo)} \in SUBSET File
    BY <1>1, <2>1 DEF Memory
  <2>3. /\ mem'[c].copy = Staged(repo[Dest(c)], {Head(mem[c].todo)}, c)
        /\ mem'[c].todo = mem[c].todo /\ mem'[c].delta = mem[c].delta
    BY <1>1, <2>1 DEF Memory
  <2> QED
    BY <1>3, <2>1, <2>2, <2>3
<1>5. CASE AddAll(c)
  <2>1. PICK fs \in SUBSET File :
          mem' = [mem EXCEPT ![c] = [mem[c] EXCEPT !.copy = Staged(repo[Dest(c)], fs, c)]]
    BY <1>1, <1>5, AddAllEffect DEF Errs
  <2>2. pc[c] = "all" /\ repo[Dest(c)] # NoRepo
    BY <1>1, <1>5, AddAllEffect DEF Errs
  <2>3. /\ mem'[c].copy = Staged(repo[Dest(c)], fs, c)
        /\ mem'[c].todo = mem[c].todo /\ mem'[c].delta = mem[c].delta
    BY <1>1, <2>1 DEF Memory
  <2> QED
    BY <1>3, <2>2, <2>3
<1> QED
  BY <1>2, <1>4, <1>5

\* AddWrite, if it does not fail, goes on to the next path or to the commit.
LEMMA Writes ==
  ASSUME Core, NEW c \in Call, AddWrite(c), pc'[c] # "returned"
  PROVE  /\ Indexes(c) /\ UNCHANGED landed /\ mem'[c].copy = NoRepo /\ mem'[c].delta = mem[c].delta
         /\ mem'[c].todo = IF mem[c].todo = <<>> THEN <<>> ELSE Tail(mem[c].todo)
         /\ pc'[c] = IF Len(mem[c].todo) > 1 THEN "add" ELSE "build"
<1>1. Typed /\ Labelled /\ mem \in [Call -> Memory] /\ mem[c] \in Memory
  BY DEF Core, Typed
<1>2. /\ pc[c] = "added" /\ UNCHANGED landed /\ repo[Dest(c)] # NoRepo
      /\ repo' = [repo EXCEPT ![Dest(c)].index = mem[c].copy.index,
                              ![Dest(c)].stager = mem[c].copy.stager]
      /\ mem' = [mem EXCEPT ![c] =
           [mem[c] EXCEPT !.todo = IF @ = <<>> THEN @ ELSE Tail(@), !.copy = NoRepo]]
      /\ pc'[c] = IF Len(mem[c].todo) > 1 THEN "add" ELSE "build"
  BY <1>1, AddWriteEffect DEF Errs
<1>3. op[c].cap = "commit" /\ Dest(c) \in Dir /\ mem[c].copy \in Repo
  BY <1>1, <1>2, DirOfCall DEF Labelled, Typed, TypeOK
<1>4. Indexes(c)
  BY <1>1, <1>2, <1>3, AddWriteRepo DEF Indexes
<1>5. /\ mem'[c].copy = NoRepo /\ mem'[c].delta = mem[c].delta
      /\ mem'[c].todo = IF mem[c].todo = <<>> THEN <<>> ELSE Tail(mem[c].todo)
  BY <1>1, <1>2 DEF Memory
<1> QED
  BY <1>2, <1>4, <1>5

\* CommitBuild makes a tree of the index, and a log that ends with c.
LEMMA Builds ==
  ASSUME Core, NEW c \in Call, AdapterStep(c), pc'[c] = "land"
  PROVE  /\ op[c].cap = "commit" /\ pc[c] = "build" /\ Dest(c) \in Dir /\ repo[Dest(c)] # NoRepo
         /\ UNCHANGED <<repo, landed>>
         /\ mem'[c].copy.by = repo[Dest(c)].by /\ mem'[c].copy.stager = repo[Dest(c)].stager
         /\ mem'[c].copy.tree = repo[Dest(c)].index
         /\ mem'[c].copy.log = repo[Dest(c)].log \cup {c}
         /\ mem'[c].delta = Changed(repo[Dest(c)])
<1>1. Typed /\ Labelled /\ mem \in [Call -> Memory] /\ mem[c] \in Memory
  BY DEF Core, Typed
<1>2. CommitBuild(c)
  BY <1>1, Arrives
<1>3. /\ op[c].cap = "commit" /\ pc[c] = "build" /\ Dest(c) \in Dir /\ repo[Dest(c)] # NoRepo
      /\ UNCHANGED <<repo, landed>>
      /\ mem' = [mem EXCEPT ![c] =
           [mem[c] EXCEPT !.copy = [repo[Dest(c)] EXCEPT !.tree = repo[Dest(c)].index,
                                                         !.log = @ \cup {c}],
                          !.delta = Changed(repo[Dest(c)])]]
  BY <1>1, <1>2, CommitBuildEffect, DirOfCall, ReadingOwn DEF Reading, diskVars, Errs
<1> DEFINE n == [repo[Dest(c)] EXCEPT !.tree = repo[Dest(c)].index, !.log = @ \cup {c}]
           g == Changed(repo[Dest(c)])
<1>4. repo[Dest(c)] \in Repo
  BY <1>1, <1>3 DEF Typed, TypeOK
<1>5. /\ n.by = repo[Dest(c)].by /\ n.stager = repo[Dest(c)].stager
      /\ n.tree = repo[Dest(c)].index /\ n.log = repo[Dest(c)].log \cup {c}
  BY <1>4, BuiltFields
<1> HIDE DEF n, g
<1>6. mem' = [mem EXCEPT ![c] = [mem[c] EXCEPT !.copy = n, !.delta = g]]
  BY <1>3 DEF n, g
<1>7. mem'[c].copy = n /\ mem'[c].delta = g
  BY <1>1, <1>6 DEF Memory
<1> QED
  BY <1>3, <1>5, <1>7 DEF g

\* Otherwise the copy and the changes found are kept.
LEMMA Keeps ==
  ASSUME Core, NEW c \in Call, AdapterStep(c), op[c].cap = "commit",
         pc'[c] \notin {"added", "build", "land"}, pc'[c] = "add" => pc[c] # "added"
  PROVE  mem'[c].copy = mem[c].copy /\ mem'[c].delta = mem[c].delta
<1>1. Typed /\ Labelled
  BY DEF Core
<1>2. CASE Answer(c) \/ Refuse(c) \/ CommitLand(c)
  BY <1>1, <1>2, AnswerOwn, AskingOwn, CommitLandEffect DEF Asking
<1>3. CASE CommitOpen(c)
  BY <1>3, Opens
<1>4. CASE AddRead(c) \/ AddAll(c) \/ CommitBuild(c)
  <2>1. mem' = mem
    BY <1>1, <1>4, AddReadEffect, AddAllEffect, CommitBuildEffect
  <2> QED
    BY <2>1
<1>5. CASE AddWrite(c)
  <2>1. pc[c] = "added"
    BY <1>1, <1>5, AddWriteEffect
  <2>2. pc'[c] = "returned"
    BY <1>5, <2>1, Writes
  <2>3. mem' = mem
    BY <1>1, <1>5, <2>2, AddWriteEffect
  <2> QED
    BY <2>3
<1> QED
  BY <1>1, <1>2, <1>3, <1>4, <1>5, CommitSteps

\* What a commit that is alone works on, nobody else changes.
LEMMA Alone ==
  ASSUME Core, NEW c \in Call, AdapterStep(c),
         NEW b \in Call, b # c, op[b].cap = "commit", ~Contended(b), Running(b)
  PROVE  repo'[Dest(b)] = repo[Dest(b)] /\ ~WritesRepo(c, Dest(b))
<1>1. Typed /\ Own(c) /\ Meeting
  BY StepOwn DEF Core
<1>2. Dest(b) \in Dir
  BY <1>1, DirOfCall
<1>3. ~WritesRepo(c, Dest(b))
  BY <1>1 DEF Own, Meeting, Contended
<1> QED
  BY <1>2, <1>3, RepoStep DEF WritesRepo, Makes, Clears, Indexes, Lands

\* No step of an adapter makes a commit contended.
LEMMA SameContention ==
  ASSUME Core, NEW c \in Call, AdapterStep(c)
  PROVE  /\ op' = op /\ \A b \in Call : (Dest(b))' = Dest(b) /\ (Asked(b))' = Asked(b)
         /\ \A b \in Call : (Contended(b))' <=> Contended(b)
         /\ \A d \in Dir : (Serial(d))' <=> Serial(d)
<1>1. op' = op /\ met' = met
  BY StepOwn DEF Core, Own
<1>2. \A b \in Call : (Dest(b))' = Dest(b) /\ (Asked(b))' = Asked(b)
  BY <1>1 DEF Dest, Asked
<1>3. \A b \in Call : (Contended(b))' <=> Contended(b)
  BY <1>1 DEF Contended, WritesRepo, Dest
<1>4. \A d \in Dir : (Serial(d))' <=> Serial(d)
  BY <1>1 DEF Serial, Contended, WritesRepo, Dest
<1> QED
  BY <1>1, <1>2, <1>3, <1>4

\* A call that begins can only add to the contention.
LEMMA MoreContention ==
  ASSUME Core, Quiet
  PROVE  /\ op' = op /\ \A b \in Call : (Dest(b))' = Dest(b) /\ (Asked(b))' = Asked(b)
         /\ \A b \in Call : Contended(b) => (Contended(b))'
         /\ \A d \in Dir : (Serial(d))' => Serial(d)
<1>1. op' = op /\ \A b \in Call : met[b] \subseteq met'[b]
  BY DEF Quiet
<1>2. \A b \in Call : (Dest(b))' = Dest(b) /\ (Asked(b))' = Asked(b)
  BY <1>1 DEF Dest, Asked
<1>3. \A b \in Call : Contended(b) => (Contended(b))'
  BY <1>1 DEF Contended, WritesRepo, Dest
<1>4. \A d \in Dir : (Serial(d))' => Serial(d)
  BY <1>1 DEF Serial, Contended, WritesRepo, Dest
<1> QED
  BY <1>1, <1>2, <1>3, <1>4

-----------------------------------------------------------------------------
(* Who staged what *)

\* An entry of the index keeps the name of the call that staged it.
LEMMA StagersStep ==
  ASSUME Core, Stagers, NEW c \in Call, AdapterStep(c)
  PROVE  Stagers'
<1>1. Typed /\ Labelled /\ Own(c)
  BY StepOwn DEF Core
<1>2. op' = op /\ \A b \in Call : (Dest(b))' = Dest(b) /\ (pc[b] # "idle" => pc'[b] # "idle")
  BY <1>1, SameContention DEF Own, Update
<1>3. "none" \notin Call /\ \A f \in File : /\ NoRepo.stager[f] = "none"
                                            /\ \A b : NewRepo(c, b).stager[f] = "none"
  BY NoRepoFields, CallAssumption
<1>4. ASSUME NEW d \in Dir, NEW f \in File, NEW b \in Call, repo'[d].stager[f] = b
      PROVE  op[b].cap = "commit" /\ Dest(b) = d /\ pc'[b] # "idle"
  <2>1. CASE repo[d].stager[f] = b
    BY <1>2, <2>1 DEF Stagers, StagedIn
  <2>2. CASE repo[d].stager[f] # b
    <3>1. Indexes(c) /\ d = Dest(c)
      BY <1>3, <1>4, <2>2, RepoStep DEF Makes, Clears, Lands
    <3>2. mem[c].copy.stager[f] = b /\ op[c].cap = "commit"
      BY <1>4, <3>1 DEF Indexes
    <3> QED
      BY <1>2, <3>1, <3>2 DEF Stagers, StagedIn
  <2> QED
    BY <2>1, <2>2
<1>5. ASSUME NEW x \in Call, op[x].cap = "commit", NEW f \in File, NEW b \in Call,
             mem'[x].copy.stager[f] = b
      PROVE  op[b].cap = "commit" /\ Dest(b) = Dest(x) /\ pc'[b] # "idle"
  <2>1. CASE mem'[x].copy = mem[x].copy
    BY <1>2, <1>5, <2>1 DEF Stagers, StagedIn
  <2>2. CASE mem'[x].copy # mem[x].copy
    <3>1. x = c
      BY <1>1, <2>2 DEF Own, Update
    <3>2. CASE pc'[c] = "added"
      <4>1. PICK fs \in SUBSET File : mem'[c].copy = Staged(repo[Dest(c)], fs, c)
        BY <3>2, Stages
      <4>2. Dest(c) \in Dir /\ repo[Dest(c)] \in Repo
        BY <1>1, <3>2, Stages DEF Typed, TypeOK
      <4>3. b = c \/ repo[Dest(c)].stager[f] = b
        BY <1>1, <1>5, <3>1, <4>1, <4>2, StagedFields
      <4> QED
        BY <1>1, <1>2, <1>5, <3>1, <4>2, <4>3 DEF Stagers, StagedIn, Own, Running
    <3>3. CASE pc'[c] = "land"
      BY <1>2, <1>5, <3>1, <3>3, Builds DEF Stagers, StagedIn
    <3>4. CASE pc'[c] = "build" \/ (pc'[c] = "add" /\ pc[c] = "added")
      <4>1. AddWrite(c)
        BY <1>1, <3>4, Arrives, CommitOpenEffect
      <4>2. mem'[c].copy = NoRepo
        BY <3>4, <4>1, Writes
      <4> QED
        BY <1>3, <1>5, <3>1, <4>2
    <3> QED
      BY <1>5, <2>2, <3>1, <3>2, <3>3, <3>4, Keeps
  <2> QED
    BY <2>1, <2>2
<1>6. ASSUME NEW x \in Call, op[x].cap = "commit"
      PROVE  /\ pc'[x] \in {"returned", "done", "lost"} \/ x \notin landed'
             /\ pc'[x] = "returned" /\ raw'[x].err = "none" => x \in landed'
  <2>1. CASE x # c
    BY <1>1, <1>6, <2>1, LandedStep DEF Stagers, Own, Update
  <2>2. CASE x = c
    <3>1. CASE c \in landed
      <4>1. pc[c] \in {"returned", "done", "lost"}
        BY <1>6, <2>2, <3>1 DEF Stagers
      <4> QED
        BY <2>2, <3>1, <4>1, FinishedStays, LandedStep
    <3>2. CASE c \notin landed
      BY <1>6, <2>2, <3>2, LandedStep DEF Lands
    <3> QED
      BY <3>1, <3>2
  <2> QED
    BY <2>1, <2>2
<1> QED
  BY <1>2, <1>4, <1>5, <1>6 DEF Stagers, StagedIn

LEMMA StagersQuiet ==
  ASSUME Core, Stagers, Quiet
  PROVE  Stagers'
<1>1. op' = op /\ \A b \in Call : (Dest(b))' = Dest(b) /\ (pc[b] # "idle" => pc'[b] # "idle")
  BY MoreContention DEF Quiet
<1> QED
  BY <1>1 DEF Stagers, StagedIn, Quiet, Running

-----------------------------------------------------------------------------
(* A commit that is alone *)

\* What is left to stage is the next path and those after it.
LEMMA AheadHead ==
  ASSUME NEW s \in Seq(File), s # <<>>, NEW f, Ahead(s, 0, f)
  PROVE  f = Head(s) \/ Ahead(s, 1, f)
<1>1. PICK j \in DOMAIN s : s[j] = f
  BY DEF Ahead
<1>2. j \in Nat /\ j >= 1 /\ Head(s) = s[1]
  BY <1>1
<1> QED
  BY <1>1, <1>2 DEF Ahead

LEMMA AheadTail ==
  ASSUME NEW s \in Seq(File), NEW f, Ahead(s, 1, f)
  PROVE  s # <<>> /\ Ahead(Tail(s), 0, f)
<1>1. PICK j \in DOMAIN s : j > 1 /\ s[j] = f
  BY DEF Ahead
<1>2. j \in Nat /\ j <= Len(s) /\ s # <<>> /\ j - 1 \in 1 .. Len(s) - 1
  BY <1>1
<1>3. Tail(s)[j - 1] = f /\ j - 1 \in DOMAIN Tail(s) /\ j - 1 > 0
  BY <1>1, <1>2
<1> QED
  BY <1>2, <1>3 DEF Ahead

\* A commit that is alone has in the index what it has staged.
LEMMA StagingStep ==
  ASSUME Core, Staging, NEW c \in Call, AdapterStep(c)
  PROVE  Staging'
<1>1. Typed /\ Labelled /\ Own(c)
  BY StepOwn DEF Core
<1>2. mem \in [Call -> Memory] /\ mem[c] \in Memory /\ mem[c].todo \in Seq(File)
  BY <1>1 DEF Typed, Memory
<1> SUFFICES ASSUME NEW b \in Call, op[b].cap = "commit", ~Contended(b)
             PROVE  /\ pc'[b] \in {"add", "build"} =>
                         \A f \in Asked(b) :
                           repo'[Dest(b)].stager[f] = b \/ Ahead(mem'[b].todo, 0, f)
                    /\ pc'[b] = "added" =>
                         \A f \in Asked(b) :
                           mem'[b].copy.stager[f] = b \/ Ahead(mem'[b].todo, 1, f)
                    /\ pc'[b] = "all" => Asked(b) = {}
                    /\ pc'[b] = "build" => mem'[b].todo = <<>>
                    /\ pc'[b] = "land" \/ (pc'[b] \in {"returned", "done"} /\ raw'[b].err = "none") =>
                         \A f \in Asked(b) : mem'[b].copy.stager[f] = b
  BY SameContention DEF Staging, Committed
<1>3. CASE b # c
  <2>1. pc'[b] = pc[b] /\ mem'[b] = mem[b] /\ raw'[b] = raw[b]
    BY <1>1, <1>3 DEF Own, Update
  <2>2. pc[b] \in {"add", "build"} => repo'[Dest(b)] = repo[Dest(b)]
    BY <1>3, Alone DEF Running
  <2> QED
    BY <2>1, <2>2 DEF Staging, Committed
<1>4. CASE b = c
  <2>1. ASSUME pc'[c] \in {"add", "all"}, CommitOpen(c)
        PROVE  /\ \A f \in Asked(c) : Ahead(mem'[c].todo, 0, f)
               /\ pc'[c] = "all" => Asked(c) = {}
    <3>1. mem'[c].todo = op[c].paths /\ op[c].paths \in Seq(File)
      BY <1>1, <1>4, <2>1, Opens, OpFields DEF Typed
    <3>2. ASSUME NEW f \in Asked(c) PROVE Ahead(mem'[c].todo, 0, f)
      <4>1. PICK i \in DOMAIN op[c].paths : f = op[c].paths[i]
        BY DEF Asked
      <4>2. i > 0
        BY <3>1
      <4> QED
        BY <3>1, <4>1, <4>2 DEF Ahead
    <3>3. pc'[c] = "all" => Asked(c) = {}
      BY <2>1, Opens DEF Asked
    <3> QED
      BY <3>2, <3>3
  <2>2. ASSUME pc'[c] \in {"add", "build"}, AddWrite(c)
        PROVE  /\ \A f \in Asked(c) : repo'[Dest(c)].stager[f] = c \/ Ahead(mem'[c].todo, 0, f)
               /\ pc'[c] = "build" => mem'[c].todo = <<>>
    <3>1. /\ pc[c] = "added" /\ repo'[Dest(c)].stager = mem[c].copy.stager
          /\ mem'[c].todo = IF mem[c].todo = <<>> THEN <<>> ELSE Tail(mem[c].todo)
          /\ pc'[c] = IF Len(mem[c].todo) > 1 THEN "add" ELSE "build"
      BY <2>2, Writes DEF Indexes
    <3>2. \A f \in Asked(c) : mem[c].copy.stager[f] = c \/ Ahead(mem[c].todo, 1, f)
      BY <1>4, <3>1 DEF Staging
    <3>3. \A f \in Asked(c) : repo'[Dest(c)].stager[f] = c \/ Ahead(mem'[c].todo, 0, f)
      BY <1>2, <3>1, <3>2, AheadTail
    <3>4. pc'[c] = "build" => mem'[c].todo = <<>>
      <4>1. Len(mem[c].todo) = 1 => Tail(mem[c].todo) = <<>>
        <5>1. ASSUME NEW s \in Seq(File), Len(s) = 1 PROVE Tail(s) = <<>>
          <6>1. s # <<>>
            <7>1. Len(<<>>) = 0
              OBVIOUS
            <7>2. Len(s) # Len(<<>>)
              BY <5>1, <7>1
            <7> QED
              BY <7>2, Zenon
          <6>2. Tail(s) \in Seq(File) /\ Len(Tail(s)) = 0
            BY <5>1, <6>1, HeadTailProperties
          <6> QED
            BY <6>2, EmptySeq
        <5> QED
          BY <1>2, <5>1
      <4>2. mem[c].todo # <<>> => Len(mem[c].todo) \in Nat /\ Len(mem[c].todo) >= 1
        BY <1>2
      <4> QED
        BY <3>1, <4>1, <4>2
    <3> QED
      BY <3>3, <3>4
  <2>3. ASSUME pc'[c] = "added"
        PROVE  \A f \in Asked(c) : mem'[c].copy.stager[f] = c \/ Ahead(mem'[c].todo, 1, f)
    <3>1. PICK fs \in SUBSET File :
            /\ mem'[c].copy = Staged(repo[Dest(c)], fs, c)
            /\ pc[c] = "add" => mem[c].todo # <<>> /\ Head(mem[c].todo) \in fs
      BY <2>3, Stages
    <3>2. Dest(c) \in Dir /\ pc[c] \in {"add", "all"} /\ mem'[c].todo = mem[c].todo
      BY <2>3, Stages
    <3>3. repo[Dest(c)] \in Repo
      BY <1>1, <3>2 DEF Typed, TypeOK
    <3>4. CASE pc[c] = "all"
      BY <1>4, <3>4 DEF Staging
    <3>5. CASE pc[c] = "add"
      <4>1. ASSUME NEW f \in Asked(c)
            PROVE  mem'[c].copy.stager[f] = c \/ Ahead(mem'[c].todo, 1, f)
        <5>1. f \in File
          BY <1>1, <1>4, <4>1, OpFields DEF Asked, Typed
        <5>2. repo[Dest(c)].stager[f] = c \/ Ahead(mem[c].todo, 0, f)
          BY <1>4, <3>5, <4>1 DEF Staging
        <5>3. mem'[c].copy.stager[f] = IF f \in fs THEN c ELSE repo[Dest(c)].stager[f]
          BY <1>1, <3>1, <3>3, <5>1, StagedFields
        <5> QED
          BY <1>2, <3>1, <3>2, <3>5, <5>2, <5>3, AheadHead
      <4> QED
        BY <4>1
    <3> QED
      BY <3>2, <3>4, <3>5
  <2>4. ASSUME pc'[c] = "land"
        PROVE  \A f \in Asked(c) : mem'[c].copy.stager[f] = c
    <3>1. pc[c] = "build" /\ mem'[c].copy.stager = repo[Dest(c)].stager
      BY <2>4, Builds
    <3> QED
      BY <1>4, <3>1 DEF Staging, Ahead
  <2>5. ASSUME pc'[c] \in {"returned", "done"}, raw'[c].err = "none"
        PROVE  \A f \in Asked(c) : mem'[c].copy.stager[f] = c
    <3>1. mem'[c].copy = mem[c].copy
      BY <1>4, <2>5, Keeps
    <3>2. CASE pc'[c] = "returned"
      BY <1>4, <2>5, <3>1, <3>2, LandedStep DEF Staging, Lands
    <3>3. CASE pc'[c] = "done"
      BY <1>1, <1>4, <2>5, <3>1, <3>3, Arrives, AnswerOwn DEF Staging, Committed
    <3> QED
      BY <2>5, <3>2, <3>3
  <2> QED
    BY <1>1, <1>4, <2>1, <2>2, <2>3, <2>4, <2>5, Arrives
<1> QED
  BY <1>3, <1>4

LEMMA StagingQuiet ==
  ASSUME Core, Staging, Quiet
  PROVE  Staging'
<1>1. /\ op' = op /\ \A b \in Call : (Dest(b))' = Dest(b) /\ (Asked(b))' = Asked(b)
      /\ \A b \in Call : ~(Contended(b))' => ~Contended(b)
  BY MoreContention
<1> SUFFICES ASSUME NEW b \in Call, op[b].cap = "commit", ~Contended(b)
             PROVE  /\ pc'[b] \in {"add", "build"} =>
                         \A f \in Asked(b) :
                           repo'[Dest(b)].stager[f] = b \/ Ahead(mem'[b].todo, 0, f)
                    /\ pc'[b] = "added" =>
                         \A f \in Asked(b) :
                           mem'[b].copy.stager[f] = b \/ Ahead(mem'[b].todo, 1, f)
                    /\ pc'[b] = "all" => Asked(b) = {}
                    /\ pc'[b] = "build" => mem'[b].todo = <<>>
                    /\ pc'[b] = "land" \/ (pc'[b] \in {"returned", "done"} /\ raw'[b].err = "none") =>
                         \A f \in Asked(b) : mem'[b].copy.stager[f] = b
  BY <1>1 DEF Staging, Committed
<1> QED
  BY DEF Staging, Committed, Quiet

-----------------------------------------------------------------------------
(* What is kept of a commit that was alone *)

\* Whoever steps while an uncontended commit runs does not write its repository.
LEMMA NobodyElse ==
  ASSUME Meeting, NEW c \in Call, Running(c), ~Contended(c),
         NEW x \in Call, x # c, WritesRepo(x, Dest(c))
  PROVE  ~Running(x)
  BY DEF Meeting, Contended

LEMMA OverStays ==
  ASSUME Core, NEW c \in Call, AdapterStep(c), NEW x \in Call, pc[x] \in {"done", "lost"}
  PROVE  pc'[x] \in {"done", "lost"} /\ x # c
  BY StepOwn DEF Core, Own, Update, Running

\* Nothing takes a commit that was alone out of the history.
LEMMA HistoryStep ==
  ASSUME Base, History, NEW c \in Call, AdapterStep(c)
  PROVE  History'
<1>1. Core /\ Typed /\ Labelled /\ Own(c) /\ Meeting
  BY StepOwn DEF Base, Core
<1>2. NoRepo.by = "none" /\ \A b : NewRepo(c, b).by = c
  BY NoRepoFields
<1>3. \A b \in Call : (Committed(b))' <=>
        op[b].cap = "commit" /\ pc'[b] \in {"returned", "done"} /\ raw'[b].err = "none"
  BY <1>1 DEF Committed, Own
<1> SUFFICES ASSUME NEW b \in Call, op[b].cap = "commit", ~Contended(b)
             PROVE  /\ pc'[b] = "land" \/ (Committed(b))' =>
                         /\ mem'[b].copy.by # "none" /\ b \in mem'[b].copy.log
                         /\ \A x \in Call : mem'[b].copy.by = x => pc'[x] \in {"done", "lost"}
                    /\ (Committed(b))' /\ repo'[Dest(b)].by = mem'[b].copy.by =>
                         /\ b \in repo'[Dest(b)].log
                         /\ \A x \in Call : x # b /\ pc'[x] = "land" /\ Dest(x) = Dest(b) =>
                              b \in mem'[x].copy.log
  BY <1>1, SameContention DEF History, SameRepo
<1>4. Dest(b) \in Dir
  BY <1>1, DirOfCall
<1>5. ASSUME (Committed(b))', b # c \/ pc'[b] = "done" PROVE Committed(b) /\ mem'[b] = mem[b]
  <2>1. CASE b # c
    BY <1>1, <1>3, <1>5, <2>1 DEF Own, Update, Committed
  <2>2. CASE b = c /\ pc'[b] = "done"
    BY <1>1, <1>3, <1>5, <2>2, Arrives, AnswerOwn DEF Committed
  <2> QED
    BY <1>5, <2>1, <2>2
<1>6. ASSUME (Committed(b))', b = c, pc'[b] # "done" PROVE Lands(c)
  BY <1>1, <1>3, <1>6, LandedStep
<1>7. ASSUME pc'[b] = "land" \/ (Committed(b))'
      PROVE  /\ mem'[b].copy.by # "none" /\ b \in mem'[b].copy.log
             /\ \A x \in Call : mem'[b].copy.by = x => pc'[x] \in {"done", "lost"}
  <2>1. CASE b = c /\ pc'[b] = "land"
    <3>1. /\ pc[c] = "build" /\ repo[Dest(c)] # NoRepo
          /\ mem'[c].copy.by = repo[Dest(c)].by /\ mem'[c].copy.log = repo[Dest(c)].log \cup {c}
      BY <1>1, <2>1, Builds
    <3>2. repo[Dest(c)].by # "none"
      BY <1>4, <2>1, <3>1 DEF Base, Makers
    <3>3. ASSUME NEW x \in Call, repo[Dest(c)].by = x PROVE pc'[x] \in {"done", "lost"}
      <4>1. /\ op[x].cap \in Cloning /\ Dest(x) = Dest(c)
            /\ pc[x] \in {"fetch", "checkout", "undo", "undoCheckout", "returned", "done", "lost"}
        BY <1>4, <2>1, <3>3 DEF Base, Makers
      <4>2. x # c /\ WritesRepo(x, Dest(c))
        BY <2>1, <4>1 DEF WritesRepo, Cloning
      <4>3. ~Running(x)
        BY <1>1, <2>1, <3>1, <4>2, NobodyElse DEF Running
      <4> QED
        BY <1>1, <4>1, <4>3, OverStays DEF Running
    <3> QED
      BY <2>1, <3>1, <3>2, <3>3
  <2>2. CASE (pc[b] = "land" \/ Committed(b)) /\ mem'[b] = mem[b]
    <3>1. /\ mem[b].copy.by # "none" /\ b \in mem[b].copy.log
          /\ \A x \in Call : mem[b].copy.by = x => pc[x] \in {"done", "lost"}
      BY <2>2 DEF History
    <3> QED
      BY <1>1, <2>2, <3>1, OverStays
  <2>3. CASE Lands(c) /\ b = c
    <3>1. pc[b] = "land" /\ mem'[b] = mem[b]
      BY <2>3 DEF Lands
    <3> QED
      BY <2>2, <3>1
  <2>4. CASE b # c /\ pc'[b] = "land"
    <3>1. pc[b] = "land" /\ mem'[b] = mem[b]
      BY <1>1, <2>4 DEF Own, Update
    <3> QED
      BY <2>2, <3>1
  <2> QED
    BY <1>5, <1>6, <1>7, <2>1, <2>2, <2>3, <2>4
<1>8. ASSUME (Committed(b))', repo'[Dest(b)].by = mem'[b].copy.by
      PROVE  /\ b \in repo'[Dest(b)].log
             /\ \A x \in Call : x # b /\ pc'[x] = "land" /\ Dest(x) = Dest(b) =>
                  b \in mem'[x].copy.log
  <2>1. CASE Lands(c) /\ b = c
    <3>1. b \in repo'[Dest(b)].log
      <4>1. repo'[Dest(c)].log = mem[c].copy.log /\ pc[c] = "land"
        BY <2>1 DEF Lands
      <4> QED
        BY <2>1, <4>1 DEF History
    <3>2. ASSUME NEW x \in Call, x # b, pc'[x] = "land", Dest(x) = Dest(b) PROVE FALSE
      <4>1. pc[x] = "land" /\ op[x].cap = "commit"
        BY <1>1, <2>1, <3>2 DEF Own, Update, Labelled
      <4>2. Running(x) /\ Running(b) /\ WritesRepo(x, Dest(b))
        BY <2>1, <3>2, <4>1 DEF Running, WritesRepo, Lands
      <4> QED
        BY <1>1, <3>2, <4>2, NobodyElse
    <3> QED
      BY <3>1, <3>2
  <2>2. CASE Committed(b) /\ mem'[b] = mem[b]
    <3>1. mem[b].copy.by # "none" /\ \A x \in Call : mem[b].copy.by = x => pc[x] \in {"done", "lost"}
      BY <2>2 DEF History
    <3>2. mem[b].copy.by # c
      BY <1>1, <3>1, OverStays
    <3>3. repo'[Dest(b)].by \notin {"none", c}
      BY <1>8, <2>2, <3>1, <3>2
    <3>4. \/ repo'[Dest(b)] = repo[Dest(b)]
          \/ Dest(c) = Dest(b) /\ (Indexes(c) \/ Lands(c))
      BY <1>1, <1>2, <1>4, <3>3, RepoStep DEF Makes, Clears
    <3>5. repo'[Dest(b)].by = repo[Dest(b)].by
      BY <3>4 DEF Indexes, Lands
    <3>6. /\ b \in repo[Dest(b)].log
          /\ \A x \in Call : x # b /\ pc[x] = "land" /\ Dest(x) = Dest(b) => b \in mem[x].copy.log
      BY <1>8, <2>2, <3>5 DEF History, SameRepo
    <3>7. b \in repo'[Dest(b)].log
      <4>1. CASE Dest(c) = Dest(b) /\ Lands(c)
        <5>1. pc[c] = "land" /\ repo'[Dest(b)].log = mem[c].copy.log
          BY <4>1 DEF Lands
        <5>2. c # b
          BY <2>2, <5>1 DEF Committed
        <5> QED
          BY <3>6, <4>1, <5>1, <5>2
      <4> QED
        BY <3>4, <3>6, <4>1 DEF Indexes
    <3>8. ASSUME NEW x \in Call, x # b, pc'[x] = "land", Dest(x) = Dest(b)
          PROVE  b \in mem'[x].copy.log
      <4>1. CASE x # c
        BY <1>1, <3>6, <3>8, <4>1 DEF Own, Update
      <4>2. CASE x = c
        BY <1>1, <3>6, <3>8, <4>2, Builds
      <4> QED
        BY <4>1, <4>2
    <3> QED
      BY <3>7, <3>8
  <2> QED
    BY <1>5, <1>6, <1>8, <2>1, <2>2
<1> QED
  BY <1>7, <1>8

LEMMA HistoryQuiet ==
  ASSUME Core, History, Quiet
  PROVE  History'
<1>1. /\ op' = op /\ \A b \in Call : (Dest(b))' = Dest(b)
      /\ \A b \in Call : ~(Contended(b))' => ~Contended(b)
  BY MoreContention
<1>2. \A b \in Call : /\ (Committed(b))' => Committed(b)
                      /\ pc'[b] = "land" => pc[b] = "land"
                      /\ pc[b] \in {"done", "lost"} => pc'[b] \in {"done", "lost"}
                      /\ mem'[b].copy = mem[b].copy
                      /\ (SameRepo(b))' <=> SameRepo(b)
  <2>1. ASSUME NEW b \in Call PROVE (SameRepo(b))' <=> SameRepo(b)
    BY <1>1 DEF SameRepo, Quiet
  <2>2. \A b \in Call : (Committed(b))' => Committed(b)
    BY <1>1 DEF Committed, Quiet
  <2> QED
    BY <2>1, <2>2 DEF Quiet, Running, Committed
<1> QED
  BY <1>1, <1>2 DEF History, Quiet

-----------------------------------------------------------------------------
(* What a commit takes in *)

\* What one commit has taken in is not left in the index for another.
LEMMA LeftoversStep ==
  ASSUME Base, Stagers, Leftovers, NEW c \in Call, AdapterStep(c)
  PROVE  Leftovers'
<1>1. Core /\ Typed /\ Labelled /\ Own(c) /\ Meeting
  BY StepOwn DEF Base, Core
<1>2. \A f \in File :
        /\ NoRepo.index[f] = NoRepo.tree[f]
        /\ \A b : NewRepo(c, b).index[f] = NewRepo(c, b).tree[f]
  BY NoRepoFields
<1>3. landed \subseteq landed' /\ landed' \subseteq landed \cup {c}
  BY <1>1, LandedStep
<1>4. \A d \in Dir : repo[d] \in Repo
  BY <1>1 DEF Typed, TypeOK
<1>5. ASSUME NEW d \in Dir, Serial(d), NEW f \in File, repo'[d].index[f] # repo'[d].tree[f]
      PROVE  repo'[d].stager[f] \in Call \ landed'
  <2>1. CASE Lands(c) /\ Dest(c) = d
    <3>1. /\ op[c].cap = "commit" /\ pc[c] = "land"
          /\ repo'[d].tree = mem[c].copy.tree /\ repo'[d].index = repo[d].index
      BY <2>1 DEF Lands
    <3>2. repo[d].index = mem[c].copy.tree
      BY <1>5, <2>1, <3>1 DEF Leftovers
    <3> QED
      BY <1>5, <3>1, <3>2
  <2>2. ASSUME NEW s \in Call \ landed, op[s].cap = "commit", Dest(s) = d, ~(Lands(c) /\ Dest(c) = d)
        PROVE  s \notin landed'
    BY <1>1, <1>3, <2>2, LandedStep
  <2>3. CASE Indexes(c) /\ Dest(c) = d
    <3>1. /\ op[c].cap = "commit" /\ pc[c] = "added"
          /\ repo'[d].tree = repo[d].tree /\ repo'[d].index = mem[c].copy.index
          /\ repo'[d].stager = mem[c].copy.stager
      BY <2>3 DEF Indexes
    <3>2. mem[c].copy.stager[f] \in Call \ landed
      BY <1>5, <2>3, <3>1 DEF Leftovers, Pending
    <3>3. op[mem[c].copy.stager[f]].cap = "commit" /\ Dest(mem[c].copy.stager[f]) = d
      BY <2>3, <3>1, <3>2 DEF Stagers, StagedIn
    <3>4. ~Lands(c)
      BY <3>1 DEF Lands
    <3> QED
      BY <2>2, <3>1, <3>2, <3>3, <3>4
  <2>4. CASE repo'[d] = repo[d] /\ ~(Lands(c) /\ Dest(c) = d)
    <3>1. repo[d].stager[f] \in Call \ landed
      BY <1>5, <2>4 DEF Leftovers, Pending
    <3>2. op[repo[d].stager[f]].cap = "commit" /\ Dest(repo[d].stager[f]) = d
      BY <3>1 DEF Stagers, StagedIn
    <3> QED
      BY <2>2, <2>4, <3>1, <3>2
  <2> QED
    BY <1>1, <1>2, <1>5, <2>1, <2>3, <2>4, RepoStep DEF Makes, Clears
<1>6. ASSUME NEW b \in Call, op[b].cap = "commit", Serial(Dest(b))
      PROVE  /\ pc'[b] = "added" => \A f \in File :
                  mem'[b].copy.index[f] # repo'[Dest(b)].tree[f] =>
                    mem'[b].copy.stager[f] \in Call \ landed'
             /\ pc'[b] = "land" => repo'[Dest(b)].index = mem'[b].copy.tree
             /\ pc'[b] = "land" \/ b \in landed' =>
                  \A f \in mem'[b].delta : mem'[b].copy.stager[f] # b =>
                    /\ mem'[b].copy.stager[f] \in Call \ landed'
                    /\ pc'[mem'[b].copy.stager[f]] \in {"done", "lost"}
  <2>1. Dest(b) \in Dir /\ ~Contended(b)
    BY <1>1, <1>6, DirOfCall DEF Serial
  <2>2. pc[b] \in {"add", "all", "added", "build", "land"} => b \notin landed /\ Running(b)
    BY <1>6 DEF Stagers, Running
  <2>3. ASSUME mem'[b].copy = mem[b].copy, mem'[b].delta = mem[b].delta,
               pc[b] = "land" \/ b \in landed,
               NEW f \in mem'[b].delta, mem'[b].copy.stager[f] # b
        PROVE  /\ mem'[b].copy.stager[f] \in Call \ landed'
               /\ pc'[mem'[b].copy.stager[f]] \in {"done", "lost"}
    <3>1. /\ mem[b].copy.stager[f] \in Call \ landed
          /\ pc[mem[b].copy.stager[f]] \in {"done", "lost"}
      BY <1>6, <2>3 DEF Leftovers
    <3> QED
      BY <1>1, <1>3, <2>3, <3>1, OverStays
  <2>4. CASE b # c
    <3>1. pc'[b] = pc[b] /\ mem'[b] = mem[b] /\ (b \in landed' => b \in landed)
      BY <1>1, <1>3, <2>4 DEF Own, Update
    <3>2. pc[b] \in {"added", "land"} => repo'[Dest(b)] = repo[Dest(b)] /\ ~WritesRepo(c, Dest(b))
      BY <1>1, <1>6, <2>1, <2>2, <2>4, Alone
    <3>3. ASSUME pc[b] = "added", NEW f \in File, mem[b].copy.index[f] # repo[Dest(b)].tree[f]
          PROVE  mem[b].copy.stager[f] \in Call \ landed'
      <4>1. mem[b].copy.stager[f] \in Call \ landed
        BY <1>6, <3>3 DEF Leftovers, Pending
      <4>2. op[mem[b].copy.stager[f]].cap = "commit" /\ Dest(mem[b].copy.stager[f]) = Dest(b)
        BY <1>6, <4>1 DEF Stagers, StagedIn
      <4>3. mem[b].copy.stager[f] # c
        BY <3>2, <3>3, <4>2 DEF WritesRepo
      <4> QED
        BY <1>3, <4>1, <4>3
    <3>4. pc[b] = "land" => repo[Dest(b)].index = mem[b].copy.tree
      BY <1>6 DEF Leftovers
    <3> QED
      BY <2>3, <3>1, <3>2, <3>3, <3>4
  <2>5. CASE b = c
    <3>1. ASSUME pc'[c] = "added", NEW f \in File,
                 mem'[c].copy.index[f] # repo'[Dest(c)].tree[f]
          PROVE  mem'[c].copy.stager[f] \in Call \ landed'
      <4>1. PICK fs \in SUBSET File : mem'[c].copy = Staged(repo[Dest(c)], fs, c)
        BY <1>1, <3>1, Stages
      <4>2. pc[c] \in {"add", "all"} /\ UNCHANGED <<repo, landed>>
        BY <1>1, <3>1, Stages
      <4>3. /\ mem'[c].copy.index[f] = IF f \in fs THEN file[f] ELSE repo[Dest(c)].index[f]
            /\ mem'[c].copy.stager[f] = IF f \in fs THEN c ELSE repo[Dest(c)].stager[f]
        BY <1>1, <1>4, <2>1, <2>5, <4>1, StagedFields
      <4>4. c \notin landed
        BY <2>2, <2>5, <4>2
      <4>5. repo[Dest(c)].index[f] # repo[Dest(c)].tree[f] =>
              repo[Dest(c)].stager[f] \in Call \ landed
        BY <1>6, <2>1, <2>5 DEF Leftovers, Pending
      <4> QED
        BY <3>1, <4>2, <4>3, <4>4, <4>5
    <3>2. ASSUME pc'[c] = "land" PROVE repo'[Dest(c)].index = mem'[c].copy.tree
      BY <1>1, <3>2, Builds
    <3>3. ASSUME pc'[c] = "land", NEW f \in mem'[c].delta, mem'[c].copy.stager[f] # c
          PROVE  /\ mem'[c].copy.stager[f] \in Call \ landed'
                 /\ pc'[mem'[c].copy.stager[f]] \in {"done", "lost"}
      <4>1. /\ pc[c] = "build" /\ UNCHANGED <<repo, landed>>
            /\ mem'[c].copy.stager = repo[Dest(c)].stager /\ mem'[c].delta = Changed(repo[Dest(c)])
        BY <1>1, <3>3, Builds
      <4>2. f \in File /\ repo[Dest(c)].stager[f] \in Call \ landed
        BY <1>6, <2>1, <2>5, <3>3, <4>1 DEF Leftovers, Pending, Changed
      <4> DEFINE s == repo[Dest(c)].stager[f]
      <4>3. s \in Call /\ s # c /\ op[s].cap = "commit" /\ Dest(s) = Dest(c) /\ pc[s] # "idle"
        BY <2>1, <2>5, <3>3, <4>1, <4>2 DEF Stagers, StagedIn
      <4> HIDE DEF s
      <4>4. ~Running(s)
        <5>1. WritesRepo(s, Dest(c))
          BY <4>3 DEF WritesRepo
        <5> QED
          BY <1>1, <2>1, <2>2, <2>5, <4>1, <4>3, <5>1, NobodyElse
      <4>5. pc[s] \in {"done", "lost"}
        BY <4>3, <4>4 DEF Running
      <4>6. pc'[s] \in {"done", "lost"}
        BY <1>1, <4>3, <4>5, OverStays
      <4> QED
        BY <4>1, <4>2, <4>6 DEF s
    <3>4. ASSUME c \in landed', pc'[c] # "land"
          PROVE  /\ mem'[c].copy = mem[c].copy /\ mem'[c].delta = mem[c].delta
                 /\ pc[c] = "land" \/ c \in landed
      <4>1. pc[c] = "land" \/ c \in landed
        BY <1>1, <1>6, <2>5, <3>4, LandedStep DEF Lands
      <4>2. pc[c] \in {"land", "returned", "done", "lost"}
        BY <1>6, <2>5, <4>1 DEF Stagers
      <4>3. pc'[c] \in {"returned", "done", "lost"}
        <5>1. CASE pc[c] = "land"
          <6>1. CommitLand(c)
            BY <1>1, <1>6, <2>5, <5>1, CommitSteps, AnswerOwn, RefuseEffect, CommitOpenEffect,
               AddReadEffect, AddAllEffect, AddWriteEffect, CommitBuildEffect
          <6> QED
            BY <1>1, <6>1, CommitLandEffect
        <5> QED
          BY <1>1, <4>2, <5>1, FinishedStays
      <4> QED
        BY <1>1, <1>6, <2>5, <4>1, <4>3, Keeps
    <3> QED
      BY <2>3, <2>5, <3>1, <3>2, <3>3, <3>4
  <2> QED
    BY <2>4, <2>5
<1>7. /\ op' = op /\ \A b \in Call : (Dest(b))' = Dest(b)
      /\ \A d \in Dir : (Serial(d))' <=> Serial(d)
      /\ \A b \in Call : op[b].cap = "commit" => Dest(b) \in Dir
  BY <1>1, SameContention, DirOfCall
<1>8. \A b \in Call : op[b].cap = "commit" => ((Serial(Dest(b)))' => Serial(Dest(b)))
  BY <1>1, StepOwn DEF Own, Serial, Contended, WritesRepo, Dest
<1> QED
  BY <1>5, <1>6, <1>7, <1>8 DEF Leftovers, Pending

LEMMA LeftoversQuiet ==
  ASSUME Core, Leftovers, Quiet
  PROVE  Leftovers'
<1>1. /\ op' = op /\ \A b \in Call : (Dest(b))' = Dest(b)
      /\ \A d \in Dir : (Serial(d))' => Serial(d)
  BY MoreContention
<1>2. \A b \in Call : op[b].cap = "commit" => ((Serial(Dest(b)))' => Serial(Dest(b)))
  BY DEF Quiet, Serial, Contended, WritesRepo, Dest
<1>3. /\ UNCHANGED <<repo, landed>>
      /\ \A b \in Call : /\ mem'[b].copy = mem[b].copy /\ mem'[b].delta = mem[b].delta
                         /\ pc'[b] \in {"added", "land"} => pc[b] = pc'[b]
                         /\ pc[b] \in {"done", "lost"} => pc'[b] \in {"done", "lost"}
  BY DEF Quiet, Running
<1>4. ASSUME NEW d \in Dir, (Serial(d))', NEW f \in File,
             repo'[d].index[f] # repo'[d].tree[f]
      PROVE  repo'[d].stager[f] \in Call \ landed'
  BY <1>1, <1>3, <1>4 DEF Leftovers, Pending
<1>5. ASSUME NEW b \in Call, op[b].cap = "commit", (Serial(Dest(b)))'
      PROVE  /\ pc'[b] = "added" => \A f \in File :
                  mem'[b].copy.index[f] # repo'[Dest(b)].tree[f] =>
                    mem'[b].copy.stager[f] \in Call \ landed'
             /\ pc'[b] = "land" => repo'[Dest(b)].index = mem'[b].copy.tree
             /\ pc'[b] = "land" \/ b \in landed' =>
                  \A f \in mem'[b].delta : mem'[b].copy.stager[f] # b =>
                    /\ mem'[b].copy.stager[f] \in Call \ landed'
                    /\ pc'[mem'[b].copy.stager[f]] \in {"done", "lost"}
  BY <1>2, <1>3, <1>5 DEF Leftovers, Pending
<1> QED
  BY <1>1, <1>3, <1>4, <1>5 DEF Leftovers, Pending

-----------------------------------------------------------------------------
(* The invariant, and the two promises of git.commit *)

LEMMA ToldStep ==
  ASSUME Core, Told, NEW c \in Call, AdapterStep(c)
  PROVE  Told'
<1>1. Typed /\ Labelled /\ Own(c)
  BY StepOwn DEF Core
<1>2. op' = op
  BY <1>1 DEF Own
<1> SUFFICES ASSUME NEW b \in Call, op[b].cap = "commit", ans'[b].status = "success"
             PROVE  pc'[b] \in {"returned", "done"} /\ raw'[b].err = "none"
  BY <1>2 DEF Told, Committed
<1>3. CASE ans'[b] = ans[b]
  <2>1. pc[b] = "done" /\ raw[b].err = "none"
    BY <1>1, <1>3 DEF Told, Committed, Typed, NoAnswer
  <2> QED
    BY <1>1, <2>1, FinishedStays
<1>4. CASE ans'[b] # ans[b]
  <2>1. b = c /\ Answer(c)
    BY <1>1, <1>4, AskingOwn, ReadingOwn, WritingOwn DEF Own, Update, AdapterStep
  <2>2. pc'[c] = "done" /\ raw' = raw
    BY <1>1, <2>1, AnswerOwn
  <2>3. raw[c].err = "none"
    BY <1>1, <2>1, AnswerOf
  <2> QED
    BY <2>1, <2>2, <2>3
<1> QED
  BY <1>3, <1>4

LEMMA ToldQuiet ==
  ASSUME Core, Told, Quiet
  PROVE  Told'
<1>1. ASSUME NEW b \in Call, op[b].cap = "commit", ans[b].status = "success"
      PROVE  pc[b] = "done" /\ raw[b].err = "none"
  BY <1>1 DEF Core, Typed, NoAnswer, Told, Committed
<1> QED
  BY <1>1 DEF Told, Committed, Quiet, Running

LEMMA CommitsInit == Init => Commits
<1> SUFFICES ASSUME Init PROVE Commits
  OBVIOUS
<1>1. \A c \in Call : /\ pc[c] = "idle" /\ mem[c] = NoMem /\ ans[c] = NoAnswer /\ c \notin landed
  BY DEF Init
<1>2. \A d \in Dir : repo[d] = NoRepo \/ repo[d] = NewRepo("outside", TRUE)
  BY DEF Init
<1>3. NoMem.copy = NoRepo /\ NoAnswer.status = "none" /\ "none" \notin Call
  BY CallAssumption DEF NoMem, NoAnswer
<1>4. /\ \A f \in File : NoRepo.stager[f] = "none" /\ NoRepo.index[f] = NoRepo.tree[f]
      /\ \A f \in File : LET n == NewRepo("outside", TRUE) IN
           n.stager[f] = "none" /\ n.index[f] = n.tree[f]
  BY DEF NewRepo, NoRepo, NoFiles
<1>5. Stagers
  <2>1. \A d \in Dir, f \in File : repo[d].stager[f] = "none"
    BY <1>2, <1>4
  <2>2. \A c \in Call, f \in File : mem[c].copy.stager[f] = "none"
    BY <1>1, <1>3, <1>4
  <2> QED
    BY <1>1, <1>3, <2>1, <2>2 DEF Stagers, StagedIn
<1>6. Staging /\ History /\ Told
  <2>1. \A c \in Call : ~Committed(c) /\ ans[c].status # "success"
    BY <1>1, <1>3 DEF Committed
  <2> QED
    BY <1>1, <2>1 DEF Staging, History, Told
<1>7. Leftovers
  BY <1>1, <1>2, <1>4 DEF Leftovers, Pending
<1> QED
  BY <1>5, <1>6, <1>7 DEF Commits

\* The parts about commits are inductive together with Base.
LEMMA CommitsNext == Base /\ Commits /\ [Next]_vars => Commits'
<1> SUFFICES ASSUME Base, Commits, [Next]_vars PROVE Commits'
  OBVIOUS
<1>1. Core /\ Stagers /\ Staging /\ History /\ Leftovers /\ Told
  BY DEF Base, Commits
<1>2. CASE Quiet
  BY <1>1, <1>2, StagersQuiet, StagingQuiet, HistoryQuiet, LeftoversQuiet, ToldQuiet DEF Commits
<1>3. ASSUME NEW c \in Call, AdapterStep(c) PROVE Commits'
  BY <1>1, <1>3, StagersStep, StagingStep, HistoryStep, LeftoversStep, ToldStep DEF Commits
<1> QED
  BY <1>1, <1>2, <1>3, QuietOrStep

LEMMA CommitsAlways == Spec => []Commits
  BY BaseAlways, CommitsInit, CommitsNext, PTL DEF Spec

\* A commit that is answered with success holds every path it was asked for,
\* and stays in the history of its repository, if no other call was writing to
\* that repository while it ran: whatever runs before or after it.
THEOREM CommitsAreKept == Spec => []CommitKept
<1>1. Core /\ Commits => CommitKept
  <2> SUFFICES ASSUME Commits, NEW c \in Call, op[c].cap = "commit", ans[c].status = "success",
                      ~Contended(c)
               PROVE  /\ \A i \in DOMAIN op[c].paths : mem[c].copy.stager[op[c].paths[i]] = c
                      /\ SameRepo(c) => c \in repo[Dest(c)].log
    BY DEF CommitKept
  <2>1. Committed(c)
    BY DEF Commits, Told
  <2>2. \A f \in Asked(c) : mem[c].copy.stager[f] = c
    BY <2>1 DEF Commits, Staging
  <2>3. SameRepo(c) => c \in repo[Dest(c)].log
    BY <2>1 DEF Commits, History
  <2> QED
    BY <2>2, <2>3 DEF Asked
<1> QED
  BY <1>1, CoreAlways, CommitsAlways, PTL

\* In a repository to which calls write one at a time, a commit takes in what it
\* staged itself and what commits that failed or died had staged: never a
\* change that another commit has already taken in.
THEOREM CommitsTakeTheirOwn == Spec => []CommitTakesOnlyItsOwn
<1>1. Core /\ Commits => CommitTakesOnlyItsOwn
  BY DEF Commits, Leftovers, CommitTakesOnlyItsOwn
<1> QED
  BY <1>1, CoreAlways, CommitsAlways, PTL
=============================================================================
