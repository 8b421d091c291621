------------------------------ MODULE Workspace ------------------------------
(***************************************************************************)
(* The filesystem and git adapters on one tree: calls of both, in any      *)
(* order and overlapping, each ending as ExecuteService classifies it.     *)
(***************************************************************************)
EXTENDS FilesystemAdapter, GitAdapter

\* The normalizer registered for the capability of call c.
Normalize(c) ==
  CASE op[c].cap = "read_file"       -> NormalizeRead(raw[c])
    [] op[c].cap = "write_file"      -> NormalizeWrite(raw[c])
    [] op[c].cap = "clone"           -> NormalizeClone(raw[c], Dest(c) \in dirs)
    [] op[c].cap = "worktree.create" -> NormalizeWorktreeCreate(raw[c])
    [] op[c].cap = "commit"          -> NormalizeCommit(raw[c])
    [] op[c].cap = "status"          -> NormalizeStatus(raw[c])
    [] op[c].cap = "diff"            -> NormalizeDiff(raw[c])

\* Step 7b of Execute: a context that has ended overrides the raw outcome.
Answer(c) ==
  /\ pc[c] = "returned"
  /\ ans' = [ans EXCEPT ![c] = IF ctx[c] # "none" THEN NormalizeError(Failed(ctx[c]))
                               ELSE Normalize(c)]
  /\ Goto(c, "done")
  /\ UNCHANGED <<diskVars, op, ctx, mem, raw, historyVars>>

Next ==
  \/ \E c \in Call : \/ Begin(c) \/ Refuse(c) \/ Answer(c)
                     \/ FilesystemStep(c) \/ GitStep(c)
                     \/ \E e \in CtxEnds : CtxEnd(c, e)
  \/ \E f \in File : Grow(f)
  \/ Crash

Spec == Init /\ [][Next]_vars

-----------------------------------------------------------------------------
(* Properties *)

PC == {"idle", "start", "look", "create", "fill", "rename", "open", "read", "init", "fetch",
       "checkout", "base", "undo", "undoCheckout", "add", "all", "added", "build", "land",
       "returned", "done", "lost"}
Writer == Call \cup {"outside", "none"}
Content == [by : Writer, whole : BOOLEAN, len : 0 .. MaxLen]
Repo == [by : Writer, ready : BOOLEAN, index : [File -> Content], stager : [File -> Writer],
         tree : [File -> Content], log : SUBSET Call]

\* The tree is a tree: whatever exists is in a directory that exists.
TypeOK ==
  /\ \A f \in File : file[f] # NoFile => DirOf[f] \in dirs
  /\ \A c \in Call : tmp[c] # NoTmp => tmp[c].dir \in dirs
  /\ \A d \in Dir : repo[d] # NoRepo => d \in dirs
  /\ dirs \subseteq Dir /\ file \in [File -> Content] /\ repo \in [Dir -> Repo]
  /\ tmp \in [Call -> [state : {"none", "part", "whole"}, dir : Dir \cup {"none"}]]
  /\ pc \in [Call -> PC] /\ \A c \in Call : op[c] \in Operation \cup {NoOp}
  /\ ctx \in [Call -> CtxEnds \cup {"none"}]
  /\ \A c \in Call : mem[c].view \in Content /\ mem[c].copy \in Repo /\ mem[c].delta \subseteq File
  /\ met \in [Call -> SUBSET Call] /\ landed \subseteq Call /\ stuck \subseteq Call

\* D8.4, "never partial": a target holds all of one version, and a write that
\* is answered with a failure is not what it holds.  (One answered with a
\* timeout may be: step 7b overrides a rename that was in time.)
WriteIsAtomic ==
  /\ \A f \in File : file[f].whole
  /\ \A f \in File, c \in Call : file[f].by = c /\ pc[c] = "done" => ans[c].status # "failure"

\* Every way out of writeFile removes its temporary file.  What is left behind
\* is of a write under way, of a crash, or could not be removed.
NoTempLeft ==
  \A c \in Call : tmp[c] # NoTmp => Running(c) \/ pc[c] = "lost" \/ c \in stuck

\* overwrite=false looks for the target and renames over it steps later: the
\* only file it can replace is one that came in between, from a call that
\* overlapped it.
NoBlindOverwrite ==
  [][\A c \in Call, f \in File :
       file'[f].by = c /\ file[f].by \notin {c, "none"} /\ ~op[c].overwrite =>
         file[f].by \in met[c]]_vars

\* worktree.create and clone clear their destination when they fail.  A file or
\* a finished clone that goes this way is of a call that overlapped the one
\* that failed, which had found the destination empty.
NothingLostButToARace ==
  [][\A d \in Dir :
       /\ \A f \in File : DirOf[f] = d /\ file[f] # NoFile /\ file'[f] = NoFile =>
            \E c \in Call : /\ op[c].cap \in Cloning /\ Dest(c) = d /\ Running(c)
                            /\ file[f].by \in met[c]
       /\ repo[d].ready /\ repo'[d] = NoRepo =>
            \E c \in Call : /\ op[c].cap \in Cloning /\ Dest(c) = d /\ Running(c)
                            /\ repo[d].by \in met[c] \cup {c}]_vars

\* "On any failure the destination is removed and no partial state is left
\* behind": the repository a worktree.create made is there only while the call
\* runs, once it has succeeded, after a crash, or if it could not be removed.
FailedWorktreeLeavesNothing ==
  \A d \in Dir, c \in Call :
    repo[d].by = c /\ op[c].cap = "worktree.create" /\ pc[c] = "done" /\ c \notin stuck =>
      raw[c].err = "none" /\ ans[c].status \in {"success", "timeout", "cancelled"}

\* Call b writes to the repository in d, or makes or removes it.
WritesRepo(b, d) == op[b].cap \in Cloning \cup {"commit"} /\ Dest(b) = d
\* c shared its repository, for some of its time, with such a call.
Contended(c) == \E b \in met[c] : WritesRepo(b, Dest(c))
SameRepo(c) == repo[Dest(c)].by = mem[c].copy.by
\* No commit to the repository in d was contended so far.
Serial(d) == \A c \in Call : op[c].cap = "commit" /\ Dest(c) = d => ~Contended(c)

\* A commit that is answered with success holds every path it was asked for and
\* stays reachable from HEAD, unless a commit or a clone was under way in the
\* same directory at the same time: neither the index nor HEAD is locked, and
\* the end of a clone replaces both.
CommitKept ==
  \A c \in Call :
    op[c].cap = "commit" /\ ans[c].status = "success" /\ ~Contended(c) =>
      /\ \A i \in DOMAIN op[c].paths : mem[c].copy.stager[op[c].paths[i]] = c
      /\ SameRepo(c) => c \in repo[Dest(c)].log

\* Where no commit was contended, what else a commit takes in was staged by one
\* that failed or died after staging: "nothing changes" does not hold of the
\* index.  (An index that a contended commit writes back can undo, in whichever
\* commit comes next, what others have committed.)
CommitTakesOnlyItsOwn ==
  \A c \in Call : c \in landed /\ op[c].cap = "commit" /\ Serial(Dest(c)) =>
    \A f \in mem[c].delta : mem[c].copy.stager[f] \in {c} \cup (Call \ landed)

\* A clone is partial when its fetch succeeded; also when it failed and the
\* directory is there all the same, because it was before, because another call
\* made it, or because go-git left it: its initialisation or its clean-up failed.
PartialFetchedOrFound ==
  \A c \in Call : ans[c].status = "partial" =>
    raw[c].fetchOK \/ mem[c].fresh \in {"empty", "used"} \/ met[c] # {} \/ c \in stuck

\* A successful read comes back with all that the file held when it was opened,
\* or as much as it asked for, unless the file grew between the Stat and the end
\* of the read, as NormalizeRead drops the error, or it asked for the largest int.
ReadIsComplete ==
  \A c \in Call : op[c].cap = "read_file" /\ ans[c].status = "success" =>
    \/ ans[c].stream # "empty" /\ raw[c].data >= Least(mem[c].total, op[c].max)
    \/ mem[c].view.len > mem[c].total
    \/ op[c].max = MaxInt
=============================================================================
