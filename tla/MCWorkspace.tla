---------------------------- MODULE MCWorkspace ----------------------------
(***************************************************************************)
(* A workspace of three directories: a repository with the files f and g   *)
(* in it, a destination for clones with the file h, and a directory        *)
(* outside the allowed roots with the file x.                              *)
(***************************************************************************)
EXTENDS Workspace, TLC

CONSTANTS c1, c2, c3

MCDir == {"repo", "dest", "outside"}
MCFile == {"f", "g", "h", "x"}
MCDirOf == [i \in MCFile |-> CASE i \in {"f", "g"} -> "repo" [] i = "h" -> "dest"
                               [] i = "x" -> "outside"]

Write(f, overwrite, createDirs) ==
  [cap |-> "write_file", file |-> f, overwrite |-> overwrite, createDirs |-> createDirs]
Commit(d, paths, allowEmpty) ==
  [cap |-> "commit", dir |-> d, paths |-> paths, allowEmpty |-> allowEmpty]
Clone(auth, ref) == [cap |-> "clone", dir |-> "dest", auth |-> auth, ref |-> ref]
Read(f, max) == [cap |-> "read_file", file |-> f, max |-> max]
Status == [cap |-> "status", dir |-> "dest"]
Diff == [cap |-> "diff", dir |-> "repo", max |-> 1]
Worktree == [cap |-> "worktree.create", dir |-> "dest", upstream |-> "repo", branch |-> TRUE]

Writes == {Write("f", TRUE, FALSE), Write("g", FALSE, FALSE), Write("h", FALSE, TRUE),
           Write("x", TRUE, TRUE)}
Reads == {Read("f", 1), Read("f", 8), Read("f", MaxInt), Read("h", 2), Diff}
Clones == {Clone("none", TRUE), Clone("ssh-agent", FALSE), Worktree}
Commits == {Commit("repo", <<"f", "g">>, FALSE), Commit("repo", <<>>, FALSE),
            Commit("repo", <<"g">>, FALSE),
            Commit("dest", <<"h">>, TRUE)}
Writing == Writes \cup Clones \cup Commits
MCOperation == Writing \cup Reads \cup {Status, Write("h", FALSE, FALSE)}

\* Any two operations of which one writes, and three calls where a third one
\* matters.  Calls c1 and c2 can be swapped.
MCScenario ==
  {(c1 :> o @@ c2 :> p @@ c3 :> NoOp) : o \in Writing, p \in MCOperation}
  \cup {(c1 :> Commit("repo", <<"g">>, FALSE) @@ c2 :> Commit("repo", <<"g">>, FALSE)
         @@ c3 :> Write("g", FALSE, FALSE)),
        (c1 :> Clone("none", TRUE) @@ c2 :> Commit("dest", <<"h">>, TRUE)
         @@ c3 :> Write("h", FALSE, FALSE))}
MCSymmetry == Permutations({c1, c2})
=============================================================================
