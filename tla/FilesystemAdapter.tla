-------------------------- MODULE FilesystemAdapter --------------------------
(***************************************************************************)
(* filesystem.read_file and filesystem.write_file.  A write goes through a *)
(* temporary file next to its target, under a random name, and a rename.   *)
(***************************************************************************)
EXTENDS WorkspaceTree

Target(c) == op[c].file

\* checkInRoots of the target's directory: a directory that does not exist is
\* looked up by its unresolved name.
InFsRoots(c) == DirOf[Target(c)] \in FsRoots

-----------------------------------------------------------------------------
(* write_file *)

\* create_dirs: the parents are made before the path is checked.
WriteMkdir(c) ==
  /\ pc[c] = "start" /\ op[c].cap = "write_file" /\ ctx[c] = "none" /\ op[c].createDirs
  /\ \/ dirs' = dirs \cup {DirOf[Target(c)]} /\ Goto(c, "look") /\ UNCHANGED raw
     \/ "io" \in Faults /\ Return(c, Failed("run")) /\ UNCHANGED dirs
  /\ UNCHANGED <<file, tmp, repo, op, ctx, mem, ans, historyVars>>

\* Mutant: overwrite=false is not looked at.
WriteRefusedIgnoresTarget(c) == ~InFsRoots(c)

\* resolveTargetPath refuses the path, or overwrite=false finds a file.
WriteRefused(c) == ~InFsRoots(c) \/ (~op[c].overwrite /\ file[Target(c)] # NoFile)

WriteLook(c) ==
  /\ op[c].cap = "write_file"
  /\ \/ pc[c] = "look"
     \/ pc[c] = "start" /\ ctx[c] = "none" /\ ~op[c].createDirs
  /\ IF WriteRefused(c) THEN Return(c, Failed("validation"))
     ELSE IF ctx[c] # "none" THEN Return(c, Failed(ctx[c]))
     ELSE Goto(c, "create") /\ UNCHANGED raw
  /\ UNCHANGED <<diskVars, op, ctx, mem, ans, historyVars>>

\* Mutant: the temporary file is put in a directory nobody made.
WriteCreateAnywhere(c) ==
  /\ pc[c] = "create"
  /\ tmp' = [tmp EXCEPT ![c] = [state |-> "part", dir |-> DirOf[Target(c)]]]
  /\ Goto(c, "fill")
  /\ UNCHANGED <<dirs, file, repo, op, ctx, mem, raw, ans, historyVars>>

\* The temporary file: O_CREATE|O_EXCL under a name of its own.
WriteCreate(c) ==
  /\ pc[c] = "create"
  /\ LET d == DirOf[Target(c)] IN
     \/ /\ d \in dirs
        /\ tmp' = [tmp EXCEPT ![c] = [state |-> "part", dir |-> d]]
        /\ Goto(c, "fill") /\ UNCHANGED raw
     \/ /\ d \notin dirs \/ "io" \in Faults
        /\ Return(c, Failed("run")) /\ UNCHANGED tmp
  /\ UNCHANGED <<dirs, file, repo, op, ctx, mem, ans, historyVars>>

\* Mutant: a failed write leaves its temporary file.
DropTmpKeeps(c) == UNCHANGED <<tmp, stuck>>

\* os.Remove of the temporary file, whose own error nobody reads.
DropTmp(c) ==
  \/ tmp' = [tmp EXCEPT ![c] = NoTmp] /\ UNCHANGED stuck
  \/ "remove" \in Faults /\ stuck' = stuck \cup {c} /\ UNCHANGED tmp

\* Mutant: the error of Write is not looked at.
WriteFillUnchecked(c) ==
  /\ pc[c] = "fill" /\ Goto(c, "rename") /\ UNCHANGED raw
  /\ \/ tmp' = [tmp EXCEPT ![c].state = IF @ = "part" THEN "whole" ELSE @]
     \/ "io" \in Faults /\ UNCHANGED tmp
  /\ UNCHANGED <<dirs, file, repo, op, ctx, mem, ans, historyVars>>

\* Write, Sync and Close.  They succeed on a file that has been unlinked too.
WriteFill(c) ==
  /\ pc[c] = "fill"
  /\ \/ /\ tmp' = [tmp EXCEPT ![c].state = IF @ = "part" THEN "whole" ELSE @]
        /\ Goto(c, "rename") /\ UNCHANGED <<raw, stuck>>
     \/ "io" \in Faults /\ DropTmp(c) /\ Return(c, Failed("run"))
  /\ UNCHANGED <<dirs, file, repo, op, ctx, mem, ans, met, landed, crashes>>

\* The rename is the one step at which the target changes.
WriteRename(c) ==
  /\ pc[c] = "rename"
  /\ \/ /\ tmp[c] # NoTmp
        /\ file' = [file EXCEPT ![Target(c)] = Written(c, tmp[c].state = "whole")]
        /\ tmp' = [tmp EXCEPT ![c] = NoTmp]
        /\ landed' = landed \cup {c}
        /\ Return(c, [NoRaw EXCEPT !.path = TRUE]) /\ UNCHANGED stuck
     \/ /\ tmp[c] = NoTmp \/ "io" \in Faults
        /\ DropTmp(c) /\ Return(c, Failed("run")) /\ UNCHANGED <<file, landed>>
  /\ UNCHANGED <<dirs, repo, op, ctx, mem, ans, met, crashes>>

-----------------------------------------------------------------------------
(* read_file *)

\* resolveExistingPath: EvalSymlinks fails on a file that is not there.
ReadResolve(c) ==
  /\ pc[c] = "start" /\ op[c].cap = "read_file" /\ ctx[c] = "none"
  /\ IF file[Target(c)] = NoFile \/ ~InFsRoots(c) THEN Return(c, Failed("validation"))
     ELSE Goto(c, "open") /\ UNCHANGED raw
  /\ UNCHANGED <<diskVars, op, ctx, mem, ans, historyVars>>

\* Open, and the size of what was opened.
ReadOpen(c) ==
  /\ pc[c] = "open"
  /\ LET content == file[Target(c)] IN
     \/ ctx[c] # "none" /\ Return(c, Failed(ctx[c])) /\ UNCHANGED mem
     \/ /\ ctx[c] = "none" /\ content # NoFile
        /\ Remember(c, [mem[c] EXCEPT !.view = content, !.total = content.len])
        /\ Goto(c, "read") /\ UNCHANGED raw
     \/ /\ ctx[c] = "none" /\ (content = NoFile \/ "io" \in Faults)
        /\ Return(c, Failed("run")) /\ UNCHANGED mem
  /\ UNCHANGED <<diskVars, op, ctx, ans, historyVars>>

\* int64(maxBytes)+1: the largest int wraps, and LimitReader reads nothing.
ReadLimit(max) == IF max = MaxInt THEN 0 ELSE max + 1

Least(m, n) == IF m < n THEN m ELSE n

\* io.ReadAll of at most ReadLimit bytes, of which max are kept.
ReadAll(c) ==
  /\ pc[c] = "read"
  /\ \/ Return(c, [NoRaw EXCEPT !.total = mem[c].total,
          !.data = Least(Least(mem[c].view.len, ReadLimit(op[c].max)), op[c].max)])
     \/ "io" \in Faults /\ Return(c, Failed("run"))
  /\ UNCHANGED <<diskVars, op, ctx, mem, ans, historyVars>>

\* Another program appends to a file in place; whoever has it open sees it.
Grow(f) ==
  /\ f \in Growing /\ file[f] # NoFile /\ file[f].len < MaxLen
  /\ file' = [file EXCEPT ![f].len = @ + 1]
  /\ mem' = [c \in Call |->
       IF pc[c] = "read" /\ Target(c) = f /\ mem[c].view.by = file[f].by
       THEN [mem[c] EXCEPT !.view.len = @ + 1] ELSE mem[c]]
  /\ UNCHANGED <<dirs, tmp, repo, pc, op, ctx, raw, ans, historyVars>>

-----------------------------------------------------------------------------
(* The normalizers *)

\* Mutant: data as long as the stream is taken for too long.
StreamOfStrict(data, total) == IF data >= total THEN "empty"
                               ELSE IF total > InlineStreamLimit THEN "truncated" ELSE "inline"

\* NewStreamRef; its error is dropped and leaves an empty reference.
StreamOf(data, total) == IF data > total THEN "empty"
                         ELSE IF total > InlineStreamLimit THEN "truncated" ELSE "inline"

NormalizeRead(r) ==
  IF r.err # "none" THEN NormalizeError(r) ELSE Success({}, StreamOf(r.data, r.total))

NormalizeWrite(r) ==
  IF r.err # "none" THEN NormalizeError(r) ELSE Success({"file"}, "none")

WriteStep(c) == WriteMkdir(c) \/ WriteLook(c) \/ WriteCreate(c) \/ WriteFill(c) \/ WriteRename(c)
ReadStep(c) == ReadResolve(c) \/ ReadOpen(c) \/ ReadAll(c)
FilesystemStep(c) == WriteStep(c) \/ ReadStep(c)
=============================================================================
