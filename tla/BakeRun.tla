------------------------------- MODULE BakeRun -------------------------------
(***************************************************************************)
(* `baretag bake-into`: bakeMain (src/cmd/baretag/bake.go), bake.Run and   *)
(* VerifyAgainst (src/internal/bake) over a file system of directory       *)
(* entries and inodes.  Several processes may bake at once; every system   *)
(* call is a step, every call may fail, a write may stop half way, and a   *)
(* process may be killed anywhere.                                         *)
(***************************************************************************)
EXTENDS IsoImage

CONSTANTS
  Paths,      \* file names, all inside existing directories
  OldInodes,  \* files there may be before anything runs
  NoInode,    \* "no such file"
  Disks,      \* what the file system may look like at the start
  Jobs        \* the command lines the processes may be started with

Job == [input : Paths, output : Paths, force : BOOLEAN, kargs : BOOLEAN]

\* A process creates at most two inodes: in cloneFile and in copyBytes.
Inodes == OldInodes \cup (Bakers \X {1, 2})

Disk == [entry    : [Paths -> OldInodes \cup {NoInode}],
         content  : [OldInodes -> Images],
         writable : [Paths -> BOOLEAN]]  \* may the directory entry be changed

ASSUME BakeAssumption ==
  /\ NoInode \notin Inodes
  /\ OldInodes \cap (Bakers \X {1, 2}) = {}
  /\ Disks \subseteq Disk
  /\ \A disk \in Disks : \A i \in OldInodes :
       /\ disk.content[i].ign.by \notin Bakers
       /\ disk.content[i].ign.by \in Owners => LauncherFindsPayload(disk.content[i])
  /\ Jobs \subseteq [Bakers -> Job]

VARIABLES
  job,       \* the command line of each process
  writable,  \* whether a path may be created or unlinked
  dir,       \* directory entries
  data,      \* contents of the inodes
  pc,        \* where each process is
  source,    \* the inode the copy reads
  target,    \* the inode the process writes
  end,       \* im.size when the output was opened, in tail cells
  area,      \* the bootloader config SetKernelArgs has reached
  line,      \* the command line SetKernelArgs writes
  report,    \* whether Verify's own checks passed
  missed     \* whether Stat failed on an output that was there (only recorded:
             \* no step reads it)

vars == <<job, writable, dir, data, pc, source, target, end, area, line, report, missed>>

Copying == {"remove", "cloneOpen", "cloneCreate", "clone", "copyOpen",
            "copyCreate", "copyFirst", "copyRest", "copySync"}
Patching == {"open", "checkArea", "header", "payload", "truncate",
             "embed", "readArgs", "writeArgs", "result", "cleanup"}
Verifying == {"verify", "compare"}
Working == {"resolve", "checkInput", "checkOutput"} \cup Copying \cup Patching \cup Verifying
Final == {"ok", "rejected", "unverified", "failed", "killed"}

input(p) == job[p].input
output(p) == job[p].output

Init ==
  /\ job \in Jobs
  /\ \E disk \in Disks :
       /\ writable = disk.writable
       /\ dir = disk.entry
       /\ data = [i \in Inodes |-> IF i \in OldInodes THEN disk.content[i] ELSE EmptyFile]
  /\ pc = [p \in Bakers |-> "resolve"]
  /\ source = [p \in Bakers |-> NoInode]
  /\ target = [p \in Bakers |-> NoInode]
  /\ end = [p \in Bakers |-> 0]
  /\ area = [p \in Bakers |-> 1]
  /\ line = [p \in Bakers |-> {}]
  /\ report = [p \in Bakers |-> FALSE]
  /\ missed = [p \in Bakers |-> FALSE]

Goto(p, label) == pc' = [pc EXCEPT ![p] = label]
At(p, label) == pc[p] = label

Image(p) == data[target[p]]
Write(p, img) == data' = [data EXCEPT ![target[p]] = img]

-----------------------------------------------------------------------------
(* Before anything is written. *)

\* resolveBinary: no usable linux/amd64 build is found, or one is.
ResolveBinary(p) ==
  /\ At(p, "resolve")
  /\ Goto(p, "checkInput") \/ Goto(p, "failed")
  /\ UNCHANGED <<job, writable, dir, data, source, target, end, area, line, report, missed>>

CheckInput(p) ==
  /\ At(p, "checkInput")
  /\ \/ dir[input(p)] # NoInode /\ Goto(p, "checkOutput")
     \/ Goto(p, "failed")
  /\ UNCHANGED <<job, writable, dir, data, source, target, end, area, line, report, missed>>

\* Mutant: an existing output is never a reason to stop.
CheckOutputNever(p) ==
  /\ At(p, "checkOutput")
  /\ Goto(p, "remove") \/ Goto(p, "failed")
  /\ UNCHANGED <<job, writable, dir, data, source, target, end, area, line, report, missed>>

\* The existence of the output is looked at once, here.  Only a Stat that
\* succeeds is a reason to stop: one that fails goes on like one that finds
\* nothing, whatever is there.
CheckOutput(p) ==
  /\ At(p, "checkOutput")
  /\ \/ /\ dir[output(p)] = NoInode \/ job[p].force
        /\ Goto(p, "remove") /\ UNCHANGED missed
     \/ /\ dir[output(p)] # NoInode /\ ~job[p].force
        /\ Goto(p, "remove") /\ missed' = [missed EXCEPT ![p] = TRUE]
     \/ Goto(p, "failed") /\ UNCHANGED missed
  /\ UNCHANGED <<job, writable, dir, data, source, target, end, area, line, report>>

-----------------------------------------------------------------------------
(* copyFile. *)

\* Mutant: the old output is not removed, only truncated.
UnlinkNothing(p) == UNCHANGED dir

\* os.Remove, whose error nobody looks at.
Unlink(p) ==
  dir' = IF writable[output(p)] THEN [dir EXCEPT ![output(p)] = NoInode] ELSE dir

\* os.Create: truncates what is there, else makes the process's n-th inode.
Create(p, n) ==
  LET old == dir[output(p)]
      new == IF old # NoInode THEN old ELSE <<p, n>>
  IN  /\ old # NoInode \/ writable[output(p)]
      /\ dir' = [dir EXCEPT ![output(p)] = new]
      /\ data' = [data EXCEPT ![new] = EmptyFile]
      /\ target' = [target EXCEPT ![p] = new]

RemoveOld(p) ==
  /\ At(p, "remove")
  /\ Unlink(p)
  /\ Goto(p, "cloneOpen")
  /\ UNCHANGED <<job, writable, data, source, target, end, area, line, report, missed>>

OpenSource(p) ==
  /\ dir[input(p)] # NoInode
  /\ source' = [source EXCEPT ![p] = dir[input(p)]]

CloneOpen(p) ==
  /\ At(p, "cloneOpen")
  /\ \/ OpenSource(p) /\ Goto(p, "cloneCreate")
     \/ UNCHANGED source /\ Goto(p, "copyOpen")
  /\ UNCHANGED <<job, writable, dir, data, target, end, area, line, report, missed>>

CloneCreate(p) ==
  /\ At(p, "cloneCreate")
  /\ \/ Create(p, 1) /\ Goto(p, "clone")
     \/ UNCHANGED <<dir, data, target>> /\ Goto(p, "copyOpen")
  /\ UNCHANGED <<job, writable, source, end, area, line, report, missed>>

\* FICLONE shares the whole file at once.  Where it is not supported the new
\* file is removed and the bytes are copied.
Clone(p) ==
  /\ At(p, "clone")
  /\ \/ Write(p, data[source[p]]) /\ UNCHANGED dir /\ Goto(p, "open")
     \/ Write(p, data[source[p]]) /\ UNCHANGED dir /\ Goto(p, "copyOpen")  \* Close failed
     \/ Unlink(p) /\ UNCHANGED data /\ Goto(p, "copyOpen")
  /\ UNCHANGED <<job, writable, source, target, end, area, line, report, missed>>

CopyOpen(p) ==
  /\ At(p, "copyOpen")
  /\ \/ OpenSource(p) /\ Goto(p, "copyCreate")
     \/ UNCHANGED source /\ Goto(p, "failed")
  /\ UNCHANGED <<job, writable, dir, data, target, end, area, line, report, missed>>

CopyCreate(p) ==
  /\ At(p, "copyCreate")
  /\ \/ Create(p, 2) /\ Goto(p, "copyFirst")
     \/ UNCHANGED <<dir, data, target>> /\ Goto(p, "failed")
  /\ UNCHANGED <<job, writable, source, end, area, line, report, missed>>

\* io.Copy, in two portions.  Its errors, and those of Sync and Close, return
\* before Run has deferred the removal of the output.
CopyFirst(p) ==
  /\ At(p, "copyFirst")
  /\ \/ /\ \E part \in Prefixes(data[source[p]]) : Write(p, part)
        /\ Goto(p, "copyRest")
     \/ UNCHANGED data /\ Goto(p, "failed")
  /\ UNCHANGED <<job, writable, dir, source, target, end, area, line, report, missed>>

CopyRest(p) ==
  /\ At(p, "copyRest")
  /\ \/ Write(p, data[source[p]]) /\ Goto(p, "copySync")
     \/ UNCHANGED data /\ Goto(p, "failed")
  /\ UNCHANGED <<job, writable, dir, source, target, end, area, line, report, missed>>

CopySync(p) ==
  /\ At(p, "copySync")
  /\ Goto(p, "open") \/ Goto(p, "failed")
  /\ UNCHANGED <<job, writable, dir, data, source, target, end, area, line, report, missed>>

-----------------------------------------------------------------------------
(* Patching the copy.  From here on every error runs the deferred removal. *)

\* Mutant: the end of the image is taken to be one sector early.
OpenForWriteShort(p) ==
  /\ At(p, "open")
  /\ \/ /\ dir[output(p)] # NoInode
        /\ TRUE \in CanOpen(data[dir[output(p)]])
        /\ target' = [target EXCEPT ![p] = dir[output(p)]]
        /\ end' = [end EXCEPT ![p] = Len(data[dir[output(p)]].tail) - 1]
        /\ Goto(p, "checkArea")
     \/ UNCHANGED <<target, end>> /\ Goto(p, "cleanup")
  /\ UNCHANGED <<job, writable, dir, data, source, area, line, report, missed>>

\* iso.OpenForWrite opens whatever the output path names now.
OpenForWrite(p) ==
  /\ At(p, "open")
  /\ \/ /\ dir[output(p)] # NoInode
        /\ TRUE \in CanOpen(data[dir[output(p)]])
        /\ target' = [target EXCEPT ![p] = dir[output(p)]]
        /\ end' = [end EXCEPT ![p] = Len(data[dir[output(p)]].tail)]
        /\ Goto(p, "checkArea")
     \/ UNCHANGED <<target, end>> /\ Goto(p, "cleanup")
  /\ UNCHANGED <<job, writable, dir, data, source, area, line, report, missed>>

CheckArea(p) ==
  /\ At(p, "checkArea")
  /\ \/ TRUE \in FindsIgnitionArea(Image(p)) /\ Goto(p, "header")
     \/ Goto(p, "cleanup")
  /\ UNCHANGED <<job, writable, dir, data, source, target, end, area, line, report, missed>>

\* Mutant: a failed write returns without the deferred removal.
WriteStepFails(p, label, done, torn, next) ==
  /\ At(p, label)
  /\ \/ Write(p, done) /\ Goto(p, next)
     \/ (Write(p, torn) \/ UNCHANGED data) /\ Goto(p, "failed")

\* A WriteAt that succeeds goes on to the next step, one that fails may have
\* written some of its bytes.
WriteStep(p, label, done, torn, next) ==
  /\ At(p, label)
  /\ \/ Write(p, done) /\ Goto(p, next)
     \/ (Write(p, torn) \/ UNCHANGED data) /\ Goto(p, "cleanup")

TornHeader(p) ==
  [Image(p) EXCEPT !.tail = WriteCell(Image(p).tail, end[p] + 1, TornCell)]
TornPayload(p) ==
  [Image(p) EXCEPT !.tail = WriteCell(Image(p).tail, end[p] + 2, TornCell)]
TornArea(p) == [Image(p) EXCEPT !.ign = TornConfig]
TornArgs(p) == WithArgs(Image(p), area[p], {})

WriteHeader(p) ==
  /\ WriteStep(p, "header", WithHeader(Image(p), end[p], p), TornHeader(p), "payload")
  /\ UNCHANGED <<job, writable, dir, source, target, end, area, line, report, missed>>

WritePayload(p) ==
  /\ WriteStep(p, "payload", WithPayload(Image(p), end[p], p), TornPayload(p), "truncate")
  /\ UNCHANGED <<job, writable, dir, source, target, end, area, line, report, missed>>

Truncate(p) ==
  /\ At(p, "truncate")
  /\ \/ Write(p, WithLength(Image(p), end[p])) /\ Goto(p, "embed")
     \/ UNCHANGED data /\ Goto(p, "cleanup")
  /\ UNCHANGED <<job, writable, dir, source, target, end, area, line, report, missed>>

\* The config may also turn out not to fit, which writes nothing.
EmbedIgnition(p) ==
  /\ WriteStep(p, "embed", WithConfig(Image(p), end[p], p), TornArea(p), "readArgs")
  /\ UNCHANGED <<job, writable, dir, source, target, end, area, line, report, missed>>

\* AppendKernelArgs: nothing to do without --karg, else the current command
\* line is read from the first bootloader config and extended.
ReadArgs(p) ==
  /\ At(p, "readArgs")
  /\ \/ ~job[p].kargs /\ UNCHANGED line /\ Goto(p, "result")
     \/ /\ job[p].kargs /\ TRUE \in FindsKargs(Image(p))
        /\ line' = [line EXCEPT ![p] = KernelArgs(Image(p)) \cup {p}]
        /\ Goto(p, "writeArgs")
     \/ job[p].kargs /\ UNCHANGED line /\ Goto(p, "cleanup")
  /\ UNCHANGED <<job, writable, dir, data, source, target, end, area, report, missed>>

\* SetKernelArgs, one bootloader config at a time.
WriteArgs(p) ==
  /\ At(p, "writeArgs") /\ area[p] \in Areas
  /\ \/ /\ Write(p, WithArgs(Image(p), area[p], line[p]))
        /\ area' = [area EXCEPT ![p] = area[p] + 1]
        /\ UNCHANGED pc
     \/ /\ Write(p, TornArgs(p)) \/ UNCHANGED data
        /\ UNCHANGED area
        /\ Goto(p, "cleanup")
  /\ UNCHANGED <<job, writable, dir, source, target, end, line, report, missed>>

ArgsWritten(p) ==
  /\ At(p, "writeArgs") /\ area[p] \notin Areas
  /\ Goto(p, "result")
  /\ UNCHANGED <<job, writable, dir, data, source, target, end, area, line, report, missed>>

\* The Ignition area is looked up once more, for the report; then Run returns.
Succeed(p) ==
  /\ At(p, "result")
  /\ \/ TRUE \in FindsIgnitionArea(Image(p)) /\ Goto(p, "verify")
     \/ Goto(p, "cleanup")
  /\ UNCHANGED <<job, writable, dir, data, source, target, end, area, line, report, missed>>

\* Mutant: the deferred function removes nothing.
CleanupForgotten(p) ==
  /\ At(p, "cleanup")
  /\ Goto(p, "failed")
  /\ UNCHANGED <<job, writable, dir, data, source, target, end, area, line, report, missed>>

\* The deferred os.Remove of the output path.
Cleanup(p) ==
  /\ At(p, "cleanup")
  /\ Unlink(p)
  /\ Goto(p, "failed")
  /\ UNCHANGED <<job, writable, data, source, target, end, area, line, report, missed>>

-----------------------------------------------------------------------------
(* bakeMain verifies what Run wrote, opening both files by name again.  The *)
(* outcome is named for its cause: "rejected" when a check failed on what   *)
(* was read, "unverified" when something could not be read, whether the     *)
(* code returns that error or lists it among the failed checks.  Either way *)
(* bakeMain returns an error, and the output is kept.                       *)

Verify(p) ==
  /\ At(p, "verify")
  /\ \/ /\ dir[output(p)] # NoInode
        /\ TRUE \in CanOpen(data[dir[output(p)]])
        /\ \E ok \in Verdicts(data[dir[output(p)]]) : report' = [report EXCEPT ![p] = ok]
        /\ Goto(p, "compare")
     \/ UNCHANGED report /\ Goto(p, "unverified")
  /\ UNCHANGED <<job, writable, dir, data, source, target, end, area, line, missed>>

Compare(p) ==
  /\ At(p, "compare")
  /\ \/ /\ dir[output(p)] # NoInode /\ dir[input(p)] # NoInode
        /\ \E untouched \in Accepted(data[dir[output(p)]], data[dir[input(p)]]) :
             Goto(p, IF report[p] /\ untouched THEN "ok" ELSE "rejected")
     \/ Goto(p, "unverified")
  /\ UNCHANGED <<job, writable, dir, data, source, target, end, area, line, report, missed>>

-----------------------------------------------------------------------------
(* A signal or a crash of the process.  Nothing deferred runs; a write that  *)
(* was under way may be left half done.                                      *)

Kill(p) ==
  /\ pc[p] \in Working
  /\ \/ UNCHANGED data
     \/ At(p, "header") /\ Write(p, TornHeader(p))
     \/ At(p, "payload") /\ Write(p, TornPayload(p))
     \/ At(p, "embed") /\ Write(p, TornArea(p))
     \/ At(p, "writeArgs") /\ area[p] \in Areas /\ Write(p, TornArgs(p))
  /\ Goto(p, "killed")
  /\ UNCHANGED <<job, writable, dir, source, target, end, area, line, report, missed>>

Bake(p) ==
  \/ ResolveBinary(p) \/ CheckInput(p) \/ CheckOutput(p)
  \/ RemoveOld(p) \/ CloneOpen(p) \/ CloneCreate(p) \/ Clone(p)
  \/ CopyOpen(p) \/ CopyCreate(p) \/ CopyFirst(p) \/ CopyRest(p) \/ CopySync(p)
  \/ OpenForWrite(p) \/ CheckArea(p)
  \/ WriteHeader(p) \/ WritePayload(p) \/ Truncate(p)
  \/ EmbedIgnition(p) \/ ReadArgs(p) \/ WriteArgs(p) \/ ArgsWritten(p)
  \/ Succeed(p) \/ Cleanup(p) \/ Verify(p) \/ Compare(p)

Next == \E p \in Bakers : Bake(p) \/ Kill(p)

Spec == Init /\ [][Next]_vars

-----------------------------------------------------------------------------
(* Properties. *)

TypeOK ==
  /\ job \in [Bakers -> Job]
  /\ writable \in [Paths -> BOOLEAN]
  /\ dir \in [Paths -> Inodes \cup {NoInode}]
  /\ data \in [Inodes -> Images]
  /\ pc \in [Bakers -> Working \cup Final]
  /\ source \in [Bakers -> Inodes \cup {NoInode}]
  /\ target \in [Bakers -> Inodes \cup {NoInode}]
  /\ end \in [Bakers -> Nat]
  /\ area \in [Bakers -> Nat]
  /\ line \in [Bakers -> SUBSET (Owners \cup {Stock})]
  /\ report \in [Bakers -> BOOLEAN]
  /\ missed \in [Bakers -> BOOLEAN]

\* The processes keep out of each other's way: nobody's output is anybody's
\* input or another one's output, and the outputs may be replaced.
Apart ==
  \A p \in Bakers :
    /\ writable[output(p)]
    /\ \A q \in Bakers : output(q) # input(p) /\ (q # p => output(q) # output(p))

Outputs == {output(p) : p \in Bakers}

\* What a finished bake promises about an image: as much of the original as
\* there was, nothing of it changed, the payload of p behind it, a launcher
\* pointing there, and the extra arguments in every bootloader config.
Baked(p, img, original) ==
  /\ Untouched(img, original)
  /\ img.ign.by = p /\ img.ign.skip = Len(original.tail) + 2
  /\ LauncherFindsPayload(img)
  /\ TrailerComplete(img, Len(original.tail) + 1)
  /\ job[p].kargs => \A a \in Areas : p \in img.kargs[a]

Published(p) == pc[p] \in Verifying \cup {"ok", "rejected", "unverified"}

\* When Run has returned without an error, the output path names an image that
\* is the input plus the complete patch, whatever the other processes did and
\* wherever they failed or were killed.
PublishedIsBaked ==
  Apart => \A p \in Bakers : Published(p) =>
    /\ dir[output(p)] = target[p] /\ target[p] \in Inodes
    /\ dir[input(p)] # NoInode
    /\ Baked(p, Image(p), data[dir[input(p)]])

\* An image whose Ignition area installs a launcher has the payload where that
\* launcher reads it, also after a crash between any two writes, because the
\* trailer is written first.  The one image it is not true of is an incomplete
\* copy of an input that was baked before, with that bake's launcher in it.
LauncherNeverDangles ==
  Apart => \A i \in Inodes :
    data[i].ign.by \in Owners /\ ~LauncherFindsPayload(data[i]) =>
      /\ data[i].ign.by \notin Bakers
      /\ \E p \in Bakers : /\ pc[p] \in {"copyRest", "failed", "killed"}
                            /\ dir[output(p)] = i
                            /\ data[i] \in Prefixes(data[dir[input(p)]])

\* An error after the copy leaves no image with part of the patch in it: what
\* a failed run leaves at the output path is what was there before, nothing,
\* or an unpatched (perhaps incomplete) copy of the input.
ErrorLeavesNoPatch ==
  Apart => \A p \in Bakers :
    pc[p] = "failed" /\ dir[output(p)] \notin OldInodes \cup {NoInode} =>
      LET original == data[dir[input(p)]]
      IN  data[dir[output(p)]] \in {EmptyFile, original} \cup Prefixes(original)

\* A bake passes its own verification: what Run writes and what Verify reads
\* back agree.  Three reasons are left to be rejected: the original would have
\* been, or was not whole; the payload is one ReadTrailer does not find; two
\* areas that were both written lie too close together to be told apart.
VerifierAccepts ==
  Apart => \A p \in Bakers :
    pc[p] = "rejected" =>
      LET original == data[dir[input(p)]]
      IN  \/ original.base \notin Intact \/ ~original.whole
          \/ p \in Unfindable
          \/ job[p].kargs /\ original.base \in Close

\* No step touches a file that is no output, its content included, even when
\* the output was a hard link to it.
OthersKept ==
  [][Apart => \A x \in Paths \ Outputs :
       /\ dir'[x] = dir[x]
       /\ dir[x] # NoInode => data'[dir[x]] = data[dir[x]]]_vars

\* Whoever goes past an old file at its output is able to remove it.  Where it is
\* not, its os.Create truncates the file, and every hard link to it with it.
Replaceable ==
  \A p \in Bakers : job[p].force \/ missed[p] => writable[output(p)]

\* A file that was at the output path before the run stays there, unless one of
\* the runs that write to that path was given --force, or its Stat failed.
ForceNeeded ==
  [][Replaceable => \A x \in Outputs :
       /\ \A p \in Bakers : output(p) = x => ~job[p].force /\ ~missed[p]
       /\ dir[x] \in OldInodes
       => dir'[x] = dir[x] /\ data'[dir[x]] = data[dir[x]]]_vars

(* Claims of the code and its documentation that hold only in part.         *)

\* bake.go:82: a half written ISO is worse than none, so an error leaves none.
ErrorLeavesNothing ==
  \A p \in Bakers :
    pc[p] = "failed" => dir[output(p)] \in OldInodes \cup {NoInode}

\* README.md:66: an existing output is rejected without --force.  So no run without
\* it takes a finished image away, also one that looked before that was there.
FinishedRejected ==
  (\A p \in Bakers : ~job[p].force /\ ~missed[p]) =>
    \A p \in Bakers : pc[p] = "ok" => dir[output(p)] = target[p]

=============================================================================
