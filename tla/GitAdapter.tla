----------------------------- MODULE GitAdapter -----------------------------
(***************************************************************************)
(* git.clone, worktree.create, commit, status and diff, over go-git.  What *)
(* go-git does inside one call is modelled from how the adapter uses it:   *)
(* PlainClone refuses a directory that holds a repository, leaves what it  *)
(* made when it cannot initialise one, and after a later failure empties a *)
(* directory it found empty or absent, whatever comes of it; Add and       *)
(* Commit read the index or HEAD, and write it back later, without a lock. *)
(***************************************************************************)
EXTENDS WorkspaceTree

Dest(c) == op[c].dir
At(c, cap, label) == op[c].cap = cap /\ pc[c] = label
Starting(c, cap) == At(c, cap, "start") /\ ctx[c] = "none"
CtxOr(c, kind) == IF ctx[c] # "none" THEN ctx[c] ELSE kind
Cloning == {"clone", "worktree.create"}

\* resolvePath: no symbolic link is followed.
InGitRoots(d) == d \in GitRoots

buildAuth(mode) == mode = "none" \/ (mode = "ssh-agent" /\ SSHAgent)

-----------------------------------------------------------------------------
(* go-git: PlainCloneContext *)

\* An error of PlainCloneContext: clone returns it, worktree.create cleans up.
CloneErr(c) ==
  IF op[c].cap = "clone" THEN Return(c, [Failed(CtxOr(c, "run")) EXCEPT !.path = TRUE])
  ELSE Goto(c, "undo") /\ UNCHANGED raw

\* A clone that go-git failed leaves its destination as it is by then;
\* worktree.create removes it itself.
LeftBehind(c) == stuck' = IF op[c].cap = "clone" THEN stuck \cup {c} ELSE stuck

\* The directory, then .git, HEAD and the configuration.  Whatever has been made
\* when one of them fails stays; a .git without HEAD counts as none.
PlainInit(c) ==
  /\ pc[c] = "init"
  /\ LET d == Dest(c) IN
     IF repo[d] # NoRepo THEN CloneErr(c) /\ UNCHANGED <<dirs, repo, mem, stuck>>
     ELSE /\ Remember(c, [mem[c] EXCEPT !.fresh =
               IF d \notin dirs THEN "absent" ELSE IF NonEmpty(d) THEN "used" ELSE "empty"])
          /\ \/ /\ dirs' = dirs \cup {d} /\ repo' = [repo EXCEPT ![d] = NewRepo(c, FALSE)]
                /\ Goto(c, "fetch") /\ UNCHANGED <<raw, stuck>>
             \/ /\ "git" \in Faults /\ dirs' \in {dirs, dirs \cup {d}}
                /\ \/ UNCHANGED repo
                   \/ d \in dirs' /\ repo' = [repo EXCEPT ![d] = NewRepo(c, FALSE)]
                /\ CloneErr(c) /\ LeftBehind(c)
  /\ UNCHANGED <<file, tmp, op, ctx, ans, met, landed, crashes>>

\* What PlainClone removes after a failure, the error of which nobody reads.
CloneCleanUp(c) ==
  IF mem[c].fresh = "used" THEN UNCHANGED <<diskVars, stuck>>
  ELSE \/ Emptied(Dest(c), mem[c].fresh = "absent") /\ UNCHANGED stuck
       \/ /\ "remove" \in Faults /\ LeftBehind(c)
          /\ UNCHANGED diskVars \/ Emptied(Dest(c), FALSE)

\* Fetch and the first checkout.  Objects are written by name, so that the
\* clone can go on after another call has removed the directory under it.  The
\* files modelled are none of the upstream's: those that checkout writes, in
\* place, are not among them.
PlainFetch(c) ==
  /\ pc[c] = "fetch"
  /\ LET d == Dest(c) IN
     \/ /\ dirs' = dirs \cup {d} /\ repo' = [repo EXCEPT ![d] = NewRepo(c, TRUE)]
        /\ landed' = landed \cup {c}
        /\ Goto(c, "checkout") /\ UNCHANGED <<file, tmp, raw, stuck>>
     \/ /\ ctx[c] # "none" \/ "git" \in Faults
        /\ CloneCleanUp(c) /\ CloneErr(c) /\ UNCHANGED landed
  /\ UNCHANGED <<op, ctx, mem, ans, met, crashes>>

-----------------------------------------------------------------------------
(* git.clone *)

CloneLook(c) ==
  /\ Starting(c, "clone")
  /\ IF ~InGitRoots(Dest(c)) \/ NonEmpty(Dest(c)) \/ ~buildAuth(op[c].auth)
     THEN Return(c, Failed("validation"))
     ELSE Goto(c, "init") /\ UNCHANGED raw
  /\ UNCHANGED <<diskVars, op, ctx, mem, ans, historyVars>>

Cloned == [NoRaw EXCEPT !.path = TRUE, !.fetchOK = TRUE, !.checkoutOK = TRUE,
                        !.head = TRUE, !.ref = TRUE]

\* HEAD is read, and a requested ref that is not the default checked out.
CloneCheckout(c) ==
  /\ At(c, "clone", "checkout")
  /\ \/ repo[Dest(c)] # NoRepo /\ Return(c, Cloned)
     \/ /\ repo[Dest(c)] = NoRepo \/ "git" \in Faults
        /\ Return(c, [Cloned EXCEPT !.err = "run", !.checkoutOK = FALSE, !.head = FALSE, !.ref = FALSE])
     \/ /\ op[c].ref /\ "git" \in Faults
        /\ Return(c, [Cloned EXCEPT !.err = "run", !.checkoutOK = FALSE])
  /\ UNCHANGED <<diskVars, op, ctx, mem, ans, historyVars>>

-----------------------------------------------------------------------------
(* git.worktree.create *)

\* Mutant: a destination that has something in it is not refused.
WorktreeRefusedOutsideOnly(c) == ~InGitRoots(Dest(c)) \/ ~InGitRoots(op[c].upstream)

WorktreeRefused(c) ==
  ~InGitRoots(Dest(c)) \/ ~InGitRoots(op[c].upstream) \/ NonEmpty(Dest(c))

WorktreeLook(c) ==
  /\ Starting(c, "worktree.create")
  /\ IF WorktreeRefused(c) THEN Return(c, Failed("validation"))
     ELSE Goto(c, "base") /\ UNCHANGED raw
  /\ UNCHANGED <<diskVars, op, ctx, mem, ans, historyVars>>

\* The upstream is opened and base_ref resolved before anything is cloned.
WorktreeBase(c) ==
  /\ pc[c] = "base"
  /\ IF ctx[c] # "none" THEN Return(c, Failed(ctx[c]))
     ELSE IF repo[op[c].upstream] = NoRepo THEN Return(c, Failed("run"))
     ELSE \/ repo[op[c].upstream].ready /\ Goto(c, "init") /\ UNCHANGED raw
          \/ Return(c, Failed("validation"))
  /\ UNCHANGED <<diskVars, op, ctx, mem, ans, historyVars>>

WorktreeCheckout(c) ==
  /\ At(c, "worktree.create", "checkout")
  /\ \/ /\ repo[Dest(c)] # NoRepo
        /\ Return(c, [NoRaw EXCEPT !.path = TRUE, !.head = TRUE, !.ref = op[c].branch])
     \/ /\ repo[Dest(c)] = NoRepo \/ "git" \in Faults
        /\ Goto(c, "undoCheckout") /\ UNCHANGED raw
  /\ UNCHANGED <<diskVars, op, ctx, mem, ans, historyVars>>

\* Mutant: a failed clone is left where it is.
WorktreeUndoKeeps(c) ==
  /\ pc[c] \in {"undo", "undoCheckout"}
  /\ UNCHANGED <<diskVars, stuck>>
  /\ Return(c, Failed(CtxOr(c, "run")))
  /\ UNCHANGED <<op, ctx, mem, ans, met, landed, crashes>>

\* os.RemoveAll(dest), whose error nobody reads.  Only a failed clone asks for
\* the context's error; after a failed checkout it is an external failure.
WorktreeUndo(c) ==
  /\ pc[c] \in {"undo", "undoCheckout"}
  /\ \/ Emptied(Dest(c), TRUE) /\ UNCHANGED stuck
     \/ "remove" \in Faults /\ stuck' = stuck \cup {c} /\ UNCHANGED diskVars
  /\ Return(c, Failed(IF pc[c] = "undo" THEN CtxOr(c, "run") ELSE "run"))
  /\ UNCHANGED <<op, ctx, mem, ans, met, landed, crashes>>

-----------------------------------------------------------------------------
(* git.commit *)

CommitOpen(c) ==
  /\ Starting(c, "commit")
  /\ IF ~InGitRoots(Dest(c)) THEN Return(c, Failed("validation")) /\ UNCHANGED mem
     ELSE IF repo[Dest(c)] = NoRepo THEN Return(c, Failed("run")) /\ UNCHANGED mem
     ELSE /\ Remember(c, [mem[c] EXCEPT !.todo = op[c].paths])
          /\ Goto(c, IF op[c].paths = <<>> THEN "all" ELSE "add") /\ UNCHANGED raw
  /\ UNCHANGED <<diskVars, op, ctx, ans, historyVars>>

\* The index r with the files of fs as they are in the working tree.
Staged(r, fs, c) ==
  [r EXCEPT !.index = [f \in File |-> IF f \in fs THEN file[f] ELSE r.index[f]],
            !.stager = [f \in File |-> IF f \in fs THEN c ELSE r.stager[f]]]

\* Worktree.Add reads the index; a path neither on disk nor staged is an error.
AddRead(c) ==
  /\ At(c, "commit", "add") /\ mem[c].todo # <<>>
  /\ LET r == repo[Dest(c)]  f == Head(mem[c].todo) IN
     \/ /\ r # NoRepo /\ (file[f] # NoFile \/ r.index[f] # NoFile)
        /\ Remember(c, [mem[c] EXCEPT !.copy = Staged(r, {f}, c)])
        /\ Goto(c, "added") /\ UNCHANGED raw
     \/ /\ r = NoRepo \/ (file[f] = NoFile /\ r.index[f] = NoFile) \/ "git" \in Faults
        /\ Return(c, Failed("run")) /\ UNCHANGED mem
  /\ UNCHANGED <<diskVars, op, ctx, ans, historyVars>>

\* AddWithOptions{All}: the tracked files, or every file, of the working tree.
AddAll(c) ==
  /\ At(c, "commit", "all")
  /\ LET r == repo[Dest(c)]
         Here == {f \in File : DirOf[f] = Dest(c)} IN
     \/ /\ r # NoRepo
        /\ \E fs \in {{f \in Here : file[f] # r.index[f]},
                      {f \in Here : file[f] # r.index[f] /\ r.index[f] # NoFile}} :
             Remember(c, [mem[c] EXCEPT !.copy = Staged(r, fs, c)])
        /\ Goto(c, "added") /\ UNCHANGED raw
     \/ /\ r = NoRepo \/ "git" \in Faults
        /\ Return(c, Failed("run")) /\ UNCHANGED mem
  /\ UNCHANGED <<diskVars, op, ctx, ans, historyVars>>

\* Mutant: the last path is left out.
AddWriteStopsEarly(c) ==
  /\ pc[c] = "added" /\ repo[Dest(c)] # NoRepo
  /\ repo' = [repo EXCEPT ![Dest(c)].index = mem[c].copy.index,
                          ![Dest(c)].stager = mem[c].copy.stager]
  /\ Goto(c, IF Len(mem[c].todo) > 2 THEN "add" ELSE "build")
  /\ UNCHANGED <<dirs, file, tmp, op, ctx, mem, raw, ans, historyVars>>

\* The index is written back as it was read, with the added paths.
AddWrite(c) ==
  /\ pc[c] = "added"
  /\ IF repo[Dest(c)] = NoRepo THEN Return(c, Failed("run")) /\ UNCHANGED <<repo, mem>>
     ELSE /\ repo' = [repo EXCEPT ![Dest(c)].index = mem[c].copy.index,
                                  ![Dest(c)].stager = mem[c].copy.stager]
          /\ Remember(c, [mem[c] EXCEPT !.todo = IF @ = <<>> THEN @ ELSE Tail(@), !.copy = NoRepo])
          /\ Goto(c, IF Len(mem[c].todo) > 1 THEN "add" ELSE "build") /\ UNCHANGED raw
  /\ UNCHANGED <<dirs, file, tmp, op, ctx, ans, historyVars>>

Changed(r) == {f \in File : r.index[f] # r.tree[f]}

\* Worktree.Commit makes a tree of the index and a commit on HEAD.
CommitBuild(c) ==
  /\ At(c, "commit", "build")
  /\ LET r == repo[Dest(c)] IN
     \/ /\ r # NoRepo /\ (Changed(r) # {} \/ op[c].allowEmpty)
        /\ Remember(c, [mem[c] EXCEPT !.copy = [r EXCEPT !.tree = r.index, !.log = @ \cup {c}],
                                      !.delta = Changed(r)])
        /\ Goto(c, "land") /\ UNCHANGED raw
     \/ /\ r = NoRepo \/ (Changed(r) = {} /\ ~op[c].allowEmpty) \/ "git" \in Faults
        /\ Return(c, Failed("run")) /\ UNCHANGED mem
  /\ UNCHANGED <<diskVars, op, ctx, ans, historyVars>>

\* Mutant: the commit is made and HEAD not moved.
CommitLandDetached(c) ==
  /\ pc[c] = "land"
  /\ landed' = landed \cup {c}
  /\ Return(c, [NoRaw EXCEPT !.head = TRUE, !.ref = TRUE])
  /\ UNCHANGED <<diskVars, op, ctx, mem, ans, met, stuck, crashes>>

\* HEAD is set to the new commit, whatever it is by now.
CommitLand(c) ==
  /\ pc[c] = "land"
  /\ IF repo[Dest(c)] = NoRepo THEN Return(c, Failed("run")) /\ UNCHANGED <<repo, landed>>
     ELSE /\ repo' = [repo EXCEPT ![Dest(c)].tree = mem[c].copy.tree,
                                  ![Dest(c)].log = mem[c].copy.log]
          /\ landed' = landed \cup {c}
          /\ Return(c, [NoRaw EXCEPT !.head = TRUE, !.ref = TRUE])
  /\ UNCHANGED <<dirs, file, tmp, op, ctx, mem, ans, met, stuck, crashes>>

-----------------------------------------------------------------------------
(* git.status and git.diff read only *)

\* Status asks for HEAD, which a repository still being cloned does not have.
StatusRun(c) ==
  /\ Starting(c, "status")
  /\ IF ~InGitRoots(Dest(c)) THEN Return(c, Failed("validation"))
     ELSE \/ repo[Dest(c)].ready /\ Return(c, [NoRaw EXCEPT !.head = TRUE])
          \/ (~repo[Dest(c)].ready \/ "git" \in Faults) /\ Return(c, Failed("run"))
  /\ UNCHANGED <<diskVars, op, ctx, mem, ans, historyVars>>

\* The patch is cut to max bytes; its length before that is reported.
DiffRun(c) ==
  /\ Starting(c, "diff")
  /\ IF ~InGitRoots(Dest(c)) THEN Return(c, Failed("validation"))
     ELSE \/ repo[Dest(c)].ready
             /\ Return(c, [NoRaw EXCEPT !.total = FileLen,
                            !.data = IF FileLen > op[c].max THEN op[c].max ELSE FileLen])
          \/ (~repo[Dest(c)].ready \/ "git" \in Faults) /\ Return(c, Failed("run"))
  /\ UNCHANGED <<diskVars, op, ctx, mem, ans, historyVars>>

-----------------------------------------------------------------------------
(* The normalizers *)

NormalizeStatus(r) == IF r.err # "none" THEN NormalizeError(r) ELSE Success({}, "none")

NormalizeDiff(r) ==
  IF r.err # "none" THEN NormalizeError(r)
  ELSE Success({}, IF r.total > InlineStreamLimit THEN "truncated" ELSE "inline")

NormalizeCommit(r) ==
  IF r.err # "none" THEN NormalizeError(r)
  ELSE Success({"git_commit"} \cup (IF r.ref THEN {"git_ref"} ELSE {}), "none")

NormalizeWorktreeCreate(r) ==
  IF r.err # "none" THEN NormalizeError(r)
  ELSE Success({"directory", "git_commit"} \cup (IF r.ref THEN {"git_ref"} ELSE {}), "none")

\* D4.6: success, partial or failure of a call that may be partial.
Classify(hasArtifacts, uncompleted) ==
  IF ~uncompleted THEN "success" ELSE IF hasArtifacts THEN "partial" ELSE "failure"

\* Mutant: the artifacts of a clone are what it says it made.
CloneArtifactsUnchecked(r, exists) ==
  (IF r.path THEN {"directory"} ELSE {})
  \cup (IF r.head THEN {"git_commit"} ELSE {}) \cup (IF r.ref THEN {"git_ref"} ELSE {})

\* The directory is an artifact when it is there by the time of normalizing.
CloneArtifacts(r, exists) ==
  (IF r.path /\ (r.fetchOK \/ r.err = "run") /\ exists THEN {"directory"} ELSE {})
  \cup (IF r.head THEN {"git_commit"} ELSE {}) \cup (IF r.ref THEN {"git_ref"} ELSE {})

NormalizeClone(r, exists) ==
  IF r.err \in {"canceled", "deadline", "validation"} THEN NormalizeError(r)
  ELSE LET arts == CloneArtifacts(r, exists)
           status == Classify(arts # {}, ~r.checkoutOK) IN
       IF status = "success" THEN Success(arts, "none")
       ELSE [Outcome(status, "unknown", "external_failure") EXCEPT !.artifacts = arts]

CloneStep(c) == CloneLook(c) \/ PlainInit(c) \/ PlainFetch(c) \/ CloneCheckout(c)
WorktreeStep(c) == WorktreeLook(c) \/ WorktreeBase(c) \/ WorktreeCheckout(c) \/ WorktreeUndo(c)
CommitStep(c) == \/ CommitOpen(c) \/ AddRead(c) \/ AddAll(c) \/ AddWrite(c)
                 \/ CommitBuild(c) \/ CommitLand(c)
GitStep(c) == CloneStep(c) \/ WorktreeStep(c) \/ CommitStep(c) \/ StatusRun(c) \/ DiffRun(c)
=============================================================================
