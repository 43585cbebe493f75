----------------------------- MODULE BakeProofs -----------------------------
(***************************************************************************)
(* What holds of BakeRun for any number of processes, paths, images and    *)
(* bootloader configs: type correctness; what a success leaves, and what   *)
(* no bake touches; no image with part of the patch at the output path     *)
(* after an error; no launcher without its payload, but in a copy that was *)
(* never finished; no old file lost unless --force was given or Stat       *)
(* failed; when a bake is accepted by its own verification; and, all in    *)
(* all, that BakeRun implements BakePromise.                               *)
(*                                                                         *)
(* The inductive invariant SafeInv says, for each process and each program *)
(* counter, which inode its output path names and exactly what is in it,   *)
(* as a function of the original image.                                    *)
(***************************************************************************)
EXTENDS BakeRefinement, TLAPS, SequenceTheorems

LEMMA SeqFromRange ==
  ASSUME NEW S, NEW n \in Nat, NEW f \in [1..n -> S]
  PROVE  f \in Seq(S) /\ Len(f) = n
  OBVIOUS

LEMMA WriteCellFacts ==
  ASSUME NEW tail \in Seq(Cells), NEW i \in Nat \ {0}, NEW cell \in Cells
  PROVE  /\ WriteCell(tail, i, cell) \in Seq(Cells)
         /\ Len(WriteCell(tail, i, cell)) = Larger(i, Len(tail))
         /\ \A k \in 1..Larger(i, Len(tail)) :
              WriteCell(tail, i, cell)[k] =
                IF k = i THEN cell ELSE IF k <= Len(tail) THEN tail[k] ELSE Zero
<1>1. Larger(i, Len(tail)) \in Nat /\ Zero \in Cells
  BY DEF Larger, Zero, Cells, Writers
<1>2. WriteCell(tail, i, cell) \in [1..Larger(i, Len(tail)) -> Cells]
  BY <1>1 DEF WriteCell
<1>3. QED
  BY <1>1, <1>2, SeqFromRange DEF WriteCell

LEMMA ResizeFacts ==
  ASSUME NEW tail \in Seq(Cells), NEW n \in Nat
  PROVE  /\ Resize(tail, n) \in Seq(Cells)
         /\ Len(Resize(tail, n)) = n
         /\ \A k \in 1..n : Resize(tail, n)[k] = IF k <= Len(tail) THEN tail[k] ELSE Zero
<1>1. Zero \in Cells
  BY DEF Zero, Cells, Writers
<1>2. Resize(tail, n) \in [1..n -> Cells]
  BY <1>1 DEF Resize
<1>3. QED
  BY <1>2, SeqFromRange DEF Resize

-----------------------------------------------------------------------------
(* What each write of a bake makes of an image stays an image. *)

LEMMA EmptyFileTyped == EmptyFile \in Images
<1>1. [a \in Areas |-> {}] \in [Areas -> SUBSET (Owners \cup {Stock})]
  OBVIOUS
<1>2. <<>> \in Seq(Cells)
  OBVIOUS
<1>3. QED
  BY <1>1, <1>2 DEF EmptyFile, Images, Blank, Configs, Writers

LEMMA ImageWrites ==
  ASSUME NEW img \in Images, NEW e \in Nat, NEW p \in Bakers
  PROVE  /\ WithHeader(img, e, p) \in Images
         /\ WithPayload(img, e, p) \in Images
         /\ WithLength(img, e) \in Images
         /\ WithConfig(img, e, p) \in Images
         /\ [img EXCEPT !.tail = WriteCell(img.tail, e + 1, TornCell)] \in Images
         /\ [img EXCEPT !.tail = WriteCell(img.tail, e + 2, TornCell)] \in Images
         /\ [img EXCEPT !.ign = TornConfig] \in Images
         /\ EmptyFile \in Images
<1>1. /\ <<"header", p>> \in Cells /\ <<"payload", p>> \in Cells /\ TornCell \in Cells
      /\ TornConfig \in Configs /\ Blank \in Configs
      /\ [by |-> p, skip |-> e + 2] \in Configs
  BY DEF Cells, Writers, Owners, TornCell, TornConfig, Blank, Configs
<1>2. img.tail \in Seq(Cells) /\ e + 1 \in Nat \ {0} /\ e + 2 \in Nat \ {0} /\ e + 2 \in Nat
  BY DEF Images
<1>3. /\ WriteCell(img.tail, e + 1, <<"header", p>>) \in Seq(Cells)
      /\ WriteCell(img.tail, e + 2, <<"payload", p>>) \in Seq(Cells)
      /\ WriteCell(img.tail, e + 1, TornCell) \in Seq(Cells)
      /\ WriteCell(img.tail, e + 2, TornCell) \in Seq(Cells)
      /\ Resize(img.tail, e + 2) \in Seq(Cells)
  BY <1>1, <1>2, WriteCellFacts, ResizeFacts
<1>4. EmptyFile \in Images
  BY EmptyFileTyped
<1>5. QED
  BY <1>1, <1>3, <1>4
     DEF WithHeader, WithPayload, WithLength, WithConfig, Images

\* What there is of an image half way through its copy: no more of the trailer,
\* and no other config in the Ignition area, than the image has.
LEMMA PrefixFacts ==
  ASSUME NEW img \in Images, NEW part \in Prefixes(img)
  PROVE  /\ part \in Images
         /\ part.ign \in {Blank, TornConfig, img.ign}
         /\ Len(part.tail) <= Len(img.tail)
<1>1. /\ img.tail \in Seq(Cells) /\ Len(img.tail) \in Nat /\ img.ign \in Configs
      /\ img.kargs \in [Areas -> SUBSET (Owners \cup {Stock})]
  BY DEF Images
<1>2. Blank \in Configs /\ TornConfig \in Configs
  BY DEF Blank, TornConfig, Configs, Writers
<1>3. CASE part \in HalfBase(img)
  <2>1. PICK config \in Partial(img.ign), copied \in SUBSET Areas :
          part = Half(img, config, copied)
    BY <1>3 DEF HalfBase
  <2>2. config \in {Blank, TornConfig, img.ign}
    BY DEF Partial
  <2>3. [a \in Areas |-> IF a \in copied THEN img.kargs[a] ELSE {}]
          \in [Areas -> SUBSET (Owners \cup {Stock})]
    <3>1. \A a \in Areas : (IF a \in copied THEN img.kargs[a] ELSE {}) \subseteq Owners \cup {Stock}
      BY <1>1
    <3>2. QED
      BY <3>1
  <2>4. <<>> \in Seq(Cells) /\ Len(<<>>) = 0
    OBVIOUS
  <2>5. part \in Images /\ part.ign = config /\ part.tail = <<>>
    BY <1>1, <1>2, <2>1, <2>2, <2>3, <2>4 DEF Half, Images
  <2>6. QED
    BY <1>1, <2>2, <2>4, <2>5
<1>4. CASE part \in HalfTail(img)
  <2>1. PICK n \in 0..(Len(img.tail) - 1), cut \in {<<>>, <<TornCell>>} :
          part = [img EXCEPT !.tail = SubSeq(img.tail, 1, n) \o cut]
    BY <1>4 DEF HalfTail
  <2>2. cut \in Seq(Cells) /\ Len(cut) \in Nat /\ Len(cut) <= 1
    <3>1. TornCell \in Cells
      BY DEF TornCell, Cells, Writers
    <3> HIDE DEF TornCell, Cells
    <3>2. CASE cut = <<>>
      BY <3>2
    <3>3. CASE cut = <<TornCell>>
      BY <3>1, <3>3
    <3>4. QED
      BY <3>2, <3>3
  <2>3. SubSeq(img.tail, 1, n) \in Seq(Cells) /\ Len(SubSeq(img.tail, 1, n)) = n
    BY <1>1
  <2>4. /\ SubSeq(img.tail, 1, n) \o cut \in Seq(Cells)
        /\ Len(SubSeq(img.tail, 1, n) \o cut) <= Len(img.tail)
    <3> HIDE DEF Cells
    <3>1. SubSeq(img.tail, 1, n) \o cut \in Seq(Cells)
      BY <2>2, <2>3
    <3>2. Len(SubSeq(img.tail, 1, n) \o cut) = n + Len(cut)
      BY <2>2, <2>3
    <3>3. n + Len(cut) <= Len(img.tail)
      BY <1>1, <2>2
    <3>4. QED
      BY <3>1, <3>2, <3>3
  <2> HIDE DEF TornCell
  <2>5. part \in Images /\ part.ign = img.ign /\ part.tail = SubSeq(img.tail, 1, n) \o cut
    BY <2>1, <2>4 DEF Images
  <2>6. QED
    BY <2>4, <2>5
<1>5. QED
  BY <1>3, <1>4 DEF Prefixes

LEMMA ArgWrites ==
  ASSUME NEW img \in Images, NEW a \in Areas, NEW args \in SUBSET (Owners \cup {Stock})
  PROVE  WithArgs(img, a, args) \in Images
BY DEF WithArgs, Images

-----------------------------------------------------------------------------
(* Type correctness.  A process reads and writes only files it has opened.  *)

Reading == {"cloneCreate", "clone", "copyCreate", "copyFirst", "copyRest"}
Opened == {"checkArea", "header", "payload", "truncate", "embed",
           "readArgs", "writeArgs", "result"}

OpenFiles ==
  \A p \in Bakers :
    /\ pc[p] \in Reading => source[p] \in Inodes
    /\ pc[p] \in {"clone", "copyFirst", "copyRest"} \cup Opened => target[p] \in Inodes

TypeInv == TypeOK /\ OpenFiles

Labels == Working \cup Final

LEMMA InitTyped == Init => TypeInv
<1> SUFFICES ASSUME Init PROVE TypeInv
  OBVIOUS
<1> USE BakeAssumption
<1>1. job \in [Bakers -> Job]
  BY DEF Init
<1>2. PICK disk \in Disks :
        /\ writable = disk.writable
        /\ dir = disk.entry
        /\ data = [i \in Inodes |-> IF i \in OldInodes THEN disk.content[i] ELSE EmptyFile]
  BY DEF Init
<1>3. disk \in Disk
  BY <1>2
<1>4. EmptyFile \in Images
  BY EmptyFileTyped
<1>5. data \in [Inodes -> Images]
  BY <1>2, <1>3, <1>4 DEF Disk
<1>6. dir \in [Paths -> Inodes \cup {NoInode}] /\ writable \in [Paths -> BOOLEAN]
  BY <1>2, <1>3 DEF Disk, Inodes
<1>7. QED
  BY <1>1, <1>5, <1>6
     DEF Init, TypeInv, TypeOK, OpenFiles, Working, Final, Reading, Opened

\* What one process does to the variables that are its own.
LEMMA WriteTyped ==
  ASSUME TypeInv, NEW p \in Bakers, NEW img, Write(p, img),
         target[p] \in Inodes => img \in Images
  PROVE  data' \in [Inodes -> Images]
BY DEF TypeInv, TypeOK, Write

LEMMA CreateTyped ==
  ASSUME TypeInv, NEW p \in Bakers, NEW n \in {1, 2}, Create(p, n)
  PROVE  /\ dir' \in [Paths -> Inodes \cup {NoInode}]
         /\ data' \in [Inodes -> Images]
         /\ target' \in [Bakers -> Inodes \cup {NoInode}]
         /\ target'[p] \in Inodes
         /\ \A q \in Bakers \ {p} : target'[q] = target[q]
<1>1. EmptyFile \in Images
  BY EmptyFileTyped
<1> DEFINE old == dir[output(p)]
           new == IF old # NoInode THEN old ELSE <<p, n>>
<1>2. output(p) \in Paths /\ old \in Inodes \cup {NoInode} /\ new \in Inodes
  BY DEF TypeInv, TypeOK, Job, output, Inodes
<1>3. /\ dir' = [dir EXCEPT ![output(p)] = new]
      /\ data' = [data EXCEPT ![new] = EmptyFile]
      /\ target' = [target EXCEPT ![p] = new]
  BY DEF Create
<1> HIDE DEF old, new
<1>4. QED
  BY <1>1, <1>2, <1>3 DEF TypeInv, TypeOK

LEMMA NextTyped == TypeInv /\ [Next]_vars => TypeInv'
<1> SUFFICES ASSUME TypeInv, [Next]_vars PROVE TypeInv'
  OBVIOUS
<1> USE DEF TypeInv
<1>1. CASE UNCHANGED vars
  BY <1>1 DEF vars, TypeOK, OpenFiles
<1>2. ASSUME NEW p \in Bakers, Bake(p) \/ Kill(p)
      PROVE  TypeInv'
  <2> DEFINE
    img == Image(p)
    e == end[p]
  <2> HIDE DEF img, e
  <2>1. CASE ResolveBinary(p)
    BY <2>1 DEF ResolveBinary, TypeOK, OpenFiles, Goto, At, Working, Final, Reading, Opened
  <2>2. CASE CheckInput(p)
    BY <2>2 DEF CheckInput, TypeOK, OpenFiles, Goto, At, Working, Final, Reading, Opened
  <2>3. CASE CheckOutput(p)
    BY <2>3 DEF CheckOutput, TypeOK, OpenFiles, Goto, At, Working, Copying, Final, Reading, Opened
  <2>4. CASE RemoveOld(p)
    BY <2>4 DEF RemoveOld, Unlink, TypeOK, OpenFiles, Goto, At, Working, Copying, Final, Reading, Opened
  <2>5. CASE CloneOpen(p)
    BY <2>5, ZenonT(60) DEF CloneOpen, OpenSource, TypeOK, OpenFiles, Goto, At, Working, Copying, Final, Reading, Opened,
                input, Job
  <2>6. CASE CloneCreate(p)
    <3>1. CASE Create(p, 1) /\ Goto(p, "clone")
      BY <2>6, <3>1, CreateTyped
         DEF CloneCreate, TypeOK, OpenFiles, Goto, At, Working, Copying, Final, Reading, Opened
    <3>2. CASE UNCHANGED <<dir, data, target>> /\ Goto(p, "copyOpen")
      BY <2>6, <3>2 DEF CloneCreate, TypeOK, OpenFiles, Goto, At, Working, Copying, Final, Reading, Opened
    <3>3. QED
      BY <2>6, <3>1, <3>2 DEF CloneCreate
  <2>7. CASE Clone(p)
    <3>1. data[source[p]] \in Images
      BY <2>7 DEF Clone, TypeOK, OpenFiles, At, Reading
    <3>2. data' \in [Inodes -> Images]
      BY <2>7, <3>1, WriteTyped DEF Clone, TypeOK
    <3>3. dir' \in [Paths -> Inodes \cup {NoInode}]
      BY <2>7 DEF Clone, Unlink, TypeOK
    <3>4. QED
      BY <2>7, <3>2, <3>3
         DEF Clone, TypeOK, OpenFiles, Goto, At, Working, Copying, Patching, Final, Reading, Opened
  <2>8. CASE CopyOpen(p)
    BY <2>8, ZenonT(60) DEF CopyOpen, OpenSource, TypeOK, OpenFiles, Goto, At, Working, Copying, Final, Reading, Opened,
                input, Job
  <2>9. CASE CopyCreate(p)
    <3>1. CASE Create(p, 2) /\ Goto(p, "copyFirst")
      BY <2>9, <3>1, CreateTyped
         DEF CopyCreate, TypeOK, OpenFiles, Goto, At, Working, Copying, Final, Reading, Opened
    <3>2. CASE UNCHANGED <<dir, data, target>> /\ Goto(p, "failed")
      BY <2>9, <3>2 DEF CopyCreate, TypeOK, OpenFiles, Goto, At, Working, Copying, Final, Reading, Opened
    <3>3. QED
      BY <2>9, <3>1, <3>2 DEF CopyCreate
  <2>10. CASE CopyFirst(p)
    <3>1. \A part \in Prefixes(data[source[p]]) : part \in Images
      BY <2>10, PrefixFacts DEF CopyFirst, TypeOK, OpenFiles, At, Reading
    <3>2. data' \in [Inodes -> Images]
      BY <2>10, <3>1, WriteTyped DEF CopyFirst, TypeOK
    <3>3. QED
      BY <2>10, <3>2 DEF CopyFirst, TypeOK, OpenFiles, Goto, At, Working, Copying, Final, Reading, Opened
  <2>11. CASE CopyRest(p)
    <3>1. data[source[p]] \in Images
      BY <2>11 DEF CopyRest, TypeOK, OpenFiles, At, Reading
    <3>2. data' \in [Inodes -> Images]
      BY <2>11, <3>1, WriteTyped DEF CopyRest, TypeOK
    <3>3. QED
      BY <2>11, <3>2 DEF CopyRest, TypeOK, OpenFiles, Goto, At, Working, Copying, Final, Reading, Opened
  <2>12. CASE CopySync(p)
    BY <2>12 DEF CopySync, TypeOK, OpenFiles, Goto, At, Working, Copying, Patching, Final, Reading, Opened
  <2>13. CASE OpenForWrite(p)
    <3>1. CASE dir[output(p)] # NoInode /\ target' = [target EXCEPT ![p] = dir[output(p)]]
               /\ end' = [end EXCEPT ![p] = Len(data[dir[output(p)]].tail)]
               /\ Goto(p, "checkArea")
      <4>1. dir[output(p)] \in Inodes
        BY <3>1 DEF TypeOK, output, Job
      <4>2. Len(data[dir[output(p)]].tail) \in Nat
        BY <4>1 DEF TypeOK, Images
      <4>3. QED
        BY <2>13, <3>1, <4>1, <4>2
           DEF OpenForWrite, TypeOK, OpenFiles, Goto, At, Working, Patching, Final, Reading, Opened
    <3>2. CASE UNCHANGED <<target, end>> /\ Goto(p, "cleanup")
      BY <2>13, <3>2
         DEF OpenForWrite, TypeOK, OpenFiles, Goto, At, Working, Patching, Final, Reading, Opened
    <3>3. QED
      BY <2>13, <3>1, <3>2 DEF OpenForWrite
  <2>14. CASE CheckArea(p)
    BY <2>14 DEF CheckArea, TypeOK, OpenFiles, Goto, At, Working, Patching, Final, Reading, Opened
  <2>15. /\ pc[p] \in Opened => img \in Images
         /\ e \in Nat
    BY DEF img, e, Image, TypeOK, OpenFiles
  <2>16. CASE WriteHeader(p)
    <3>1. WithHeader(img, e, p) \in Images /\ TornHeader(p) \in Images
      BY <2>15, <2>16, ImageWrites DEF WriteHeader, WriteStep, At, Opened, TornHeader, img, e
    <3>2. data' \in [Inodes -> Images]
      BY <2>16, <3>1, WriteTyped DEF WriteHeader, WriteStep, TypeOK, img, e
    <3>3. QED
      BY <2>16, <3>2
         DEF WriteHeader, WriteStep, TypeOK, OpenFiles, Goto, At, Working, Patching, Final, Reading, Opened
  <2>17. CASE WritePayload(p)
    <3>1. WithPayload(img, e, p) \in Images /\ TornPayload(p) \in Images
      BY <2>15, <2>17, ImageWrites DEF WritePayload, WriteStep, At, Opened, TornPayload, img, e
    <3>2. data' \in [Inodes -> Images]
      BY <2>17, <3>1, WriteTyped DEF WritePayload, WriteStep, TypeOK, img, e
    <3>3. QED
      BY <2>17, <3>2
         DEF WritePayload, WriteStep, TypeOK, OpenFiles, Goto, At, Working, Patching, Final, Reading, Opened
  <2>18. CASE Truncate(p)
    <3>1. WithLength(img, e) \in Images
      BY <2>15, <2>18, ImageWrites DEF Truncate, At, Opened
    <3>2. data' \in [Inodes -> Images]
      BY <2>18, <3>1, WriteTyped DEF Truncate, TypeOK, img, e
    <3>3. QED
      BY <2>18, <3>2
         DEF Truncate, TypeOK, OpenFiles, Goto, At, Working, Patching, Final, Reading, Opened
  <2>19. CASE EmbedIgnition(p)
    <3>1. WithConfig(img, e, p) \in Images /\ TornArea(p) \in Images
      BY <2>15, <2>19, ImageWrites DEF EmbedIgnition, WriteStep, At, Opened, TornArea, img, e
    <3>2. data' \in [Inodes -> Images]
      BY <2>19, <3>1, WriteTyped DEF EmbedIgnition, WriteStep, TypeOK, img, e
    <3>3. QED
      BY <2>19, <3>2
         DEF EmbedIgnition, WriteStep, TypeOK, OpenFiles, Goto, At, Working, Patching, Final, Reading, Opened
  <2>20. CASE ReadArgs(p)
    <3>1. KernelArgs(Image(p)) \in SUBSET (Owners \cup {Stock})
      BY <2>15, <2>20, IsoAssumption
         DEF ReadArgs, At, Opened, KernelArgs, Images, Areas, img
    <3>2. line' \in [Bakers -> SUBSET (Owners \cup {Stock})]
      <4>1. KernelArgs(Image(p)) \cup {p} \in SUBSET (Owners \cup {Stock})
        BY <3>1 DEF Owners
      <4>2. QED
        BY <2>20, <4>1 DEF ReadArgs, TypeOK
    <3>3. QED
      BY <2>20, <3>2, ZenonT(60) DEF ReadArgs, TypeOK, OpenFiles, Goto, At, Working, Patching, Final, Reading, Opened
  <2>21. CASE WriteArgs(p)
    <3>1. WithArgs(img, area[p], line[p]) \in Images /\ TornArgs(p) \in Images
      BY <2>15, <2>21, ArgWrites DEF WriteArgs, At, Opened, TornArgs, TypeOK, img
    <3>2. data' \in [Inodes -> Images]
      BY <2>21, <3>1, WriteTyped DEF WriteArgs, TypeOK, img
    <3>3. area' \in [Bakers -> Nat]
      BY <2>21 DEF WriteArgs, TypeOK
    <3>4. QED
      BY <2>21, <3>2, <3>3
         DEF WriteArgs, TypeOK, OpenFiles, Goto, At, Working, Patching, Final, Reading, Opened
  <2>22. CASE ArgsWritten(p)
    BY <2>22 DEF ArgsWritten, TypeOK, OpenFiles, Goto, At, Working, Patching, Final, Reading, Opened
  <2>23. CASE Succeed(p)
    BY <2>23
       DEF Succeed, TypeOK, OpenFiles, Goto, At, Working, Patching, Verifying, Final, Reading, Opened
  <2>24. CASE Cleanup(p)
    BY <2>24
       DEF Cleanup, Unlink, TypeOK, OpenFiles, Goto, At, Working, Patching, Final, Reading, Opened
  <2>25. CASE Verify(p)
    <3>1. Verdicts(data[dir[output(p)]]) \subseteq BOOLEAN
      BY DEF Verdicts
    <3>2. report' \in [Bakers -> BOOLEAN]
      BY <2>25, <3>1 DEF Verify, TypeOK
    <3>3. QED
      BY <2>25, <3>2, ZenonT(60)
         DEF Verify, TypeOK, OpenFiles, Goto, At, Working, Verifying, Final, Reading, Opened
  <2>26. CASE Compare(p)
    BY <2>26 DEF Compare, TypeOK, OpenFiles, Goto, At, Working, Verifying, Final, Reading, Opened
  <2>27. CASE Kill(p)
    <3>1. /\ At(p, "header") => TornHeader(p) \in Images
          /\ At(p, "payload") => TornPayload(p) \in Images
          /\ At(p, "embed") => TornArea(p) \in Images
      BY <2>15, ImageWrites DEF At, Opened, TornHeader, TornPayload, TornArea, img, e
    <3>2. At(p, "writeArgs") /\ area[p] \in Areas => TornArgs(p) \in Images
      BY <2>15, ArgWrites DEF At, Opened, TornArgs, img
    <3>3. data' \in [Inodes -> Images]
      BY <2>27, <3>1, <3>2, WriteTyped DEF Kill, TypeOK
    <3>4. QED
      BY <2>27, <3>3 DEF Kill, TypeOK, OpenFiles, Goto, Final, Reading, Opened
  <2>28. QED
    BY <1>2, <2>1, <2>2, <2>3, <2>4, <2>5, <2>6, <2>7, <2>8, <2>9, <2>10, <2>11, <2>12,
       <2>13, <2>14, <2>16, <2>17, <2>18, <2>19, <2>20, <2>21, <2>22, <2>23, <2>24,
       <2>25, <2>26, <2>27 DEF Bake
<1>3. QED
  BY <1>1, <1>2 DEF Next

\* Every behaviour is well typed, and no step reads or writes through a file
\* that has not been opened.
THEOREM BakeTypeCorrect == Spec => []TypeOK
<1>1. TypeInv => TypeOK
  BY DEF TypeInv
<1>2. QED
  BY InitTyped, NextTyped, <1>1, PTL DEF Spec

-----------------------------------------------------------------------------
(* Where each process is, and what it has written. *)

Mine(p) == {p} \X {1, 2}

PublishedLabels == Verifying \cup {"ok", "rejected", "unverified"}

\* The labels at which the output path names the inode being written.
Holding == {"clone", "copyFirst", "copyRest", "copySync", "open"} \cup Opened \cup PublishedLabels

Before == {"resolve", "checkInput", "checkOutput", "remove"}

\* The labels at which the input is known to exist.
Sourced == Reading \cup {"copySync"} \cup Patching \cup PublishedLabels

\* Nothing has touched the loop of SetKernelArgs yet.
Unlooped == Before \cup Copying \cup {"open", "checkArea", "header", "payload", "truncate",
                                      "embed", "readArgs"}

original(p) == data[dir[input(p)]]

Trailed(o, p) ==
  WithLength(WithPayload(WithHeader(o, Len(o.tail), p), Len(o.tail), p), Len(o.tail))
Configured(o, p) == WithConfig(Trailed(o, p), Len(o.tail), p)

\* Where the output path of p leads, and where its input.
Entry(p) ==
  /\ dir[input(p)] \in OldInodes \cup {NoInode}
  /\ dir[output(p)] \in OldInodes \cup {NoInode} \cup Mine(p)
  /\ pc[p] \in Before => dir[output(p)] \in OldInodes \cup {NoInode}
  /\ pc[p] \in {"cloneOpen", "cloneCreate"} => dir[output(p)] = NoInode
  /\ pc[p] \in {"copyOpen", "copyCreate", "cleanup"} => dir[output(p)] \in Mine(p) \cup {NoInode}
  /\ pc[p] \in Holding => target[p] \in Mine(p) /\ dir[output(p)] = target[p]
  /\ pc[p] \in Sourced => dir[input(p)] \in OldInodes
  /\ pc[p] \in Reading \cup {"copySync"} => source[p] = dir[input(p)]

\* What the inode holds at each step of the copy and of the patch.
Progress(p) ==
  LET o == original(p)
      img == Image(p)
  IN  /\ pc[p] \in {"copySync", "open", "checkArea", "header"} => img = o
      /\ pc[p] = "copyFirst" => img = EmptyFile
      /\ pc[p] = "copyRest" => img \in Prefixes(o)
      /\ pc[p] \in Opened => end[p] = Len(o.tail)
      /\ pc[p] = "payload" => img = WithHeader(o, Len(o.tail), p)
      /\ pc[p] = "truncate" => img = WithPayload(WithHeader(o, Len(o.tail), p), Len(o.tail), p)
      /\ pc[p] = "embed" => img = Trailed(o, p)
      /\ pc[p] = "readArgs" => img = Configured(o, p)
      /\ pc[p] \in {"writeArgs", "result"} \cup PublishedLabels =>
           img = [Configured(o, p) EXCEPT !.kargs = img.kargs]

\* SetKernelArgs has extended every bootloader config it has passed.
Looped(p) ==
  /\ pc[p] \in Unlooped => area[p] = 1
  /\ area[p] \in Nat \ {0}
  /\ pc[p] = "writeArgs" =>
       p \in line[p] /\ \A a \in Areas : a < area[p] => p \in Image(p).kargs[a]
  /\ pc[p] \in {"result"} \cup PublishedLabels /\ job[p].kargs =>
       \A a \in Areas : p \in Image(p).kargs[a]

SafeInv ==
  /\ TypeInv
  /\ Apart =>
       /\ \A x \in Paths \ Outputs : dir[x] \in OldInodes \cup {NoInode}
       /\ \A p \in Bakers : Entry(p) /\ Progress(p) /\ Looped(p)

-----------------------------------------------------------------------------
LEMMA InitSafe == Init => SafeInv
<1> SUFFICES ASSUME Init PROVE SafeInv
  OBVIOUS
<1>1. TypeInv
  BY InitTyped
<1>2. \A x \in Paths : dir[x] \in OldInodes \cup {NoInode}
  BY BakeAssumption DEF Init, Disk
<1>3. ASSUME NEW p \in Bakers
      PROVE  Entry(p) /\ Progress(p) /\ Looped(p)
  <2>1. pc[p] = "resolve" /\ area[p] = 1 /\ input(p) \in Paths /\ output(p) \in Paths
    BY <1>1 DEF Init, TypeInv, TypeOK, Job, input, output
  <2>2. QED
    BY <1>2, <2>1
       DEF Entry, Progress, Looped, Before, Holding, Sourced, Reading, Opened, Patching,
           PublishedLabels, Verifying, Unlooped
<1>4. QED
  BY <1>1, <1>2, <1>3 DEF SafeInv

\* No step moves a process to other paths.
LEMMA JobsStay ==
  ASSUME NEW p \in Bakers, Bake(p) \/ Kill(p)
  PROVE  job' = job /\ writable' = writable
BY DEF Bake, Kill, ResolveBinary, CheckInput, CheckOutput, RemoveOld, CloneOpen, CloneCreate,
       Clone, CopyOpen, CopyCreate, CopyFirst, CopyRest, CopySync, OpenForWrite, CheckArea,
       WriteHeader, WritePayload, Truncate, EmbedIgnition, ReadArgs, WriteArgs, ArgsWritten,
       Succeed, Cleanup, Verify, Compare

\* A step of one process changes its own output entry, its own inodes and its
\* own control, and nothing else.
LEMMA Frame ==
  ASSUME SafeInv, Apart, NEW p \in Bakers, Bake(p) \/ Kill(p)
  PROVE  /\ job' = job /\ writable' = writable
         /\ \A x \in Paths \ {output(p)} : dir'[x] = dir[x]
         /\ \A i \in Inodes \ Mine(p) : data'[i] = data[i]
         /\ \A q \in Bakers \ {p} :
              /\ pc'[q] = pc[q] /\ source'[q] = source[q] /\ target'[q] = target[q]
              /\ end'[q] = end[q] /\ area'[q] = area[q] /\ line'[q] = line[q]
<1>1. job' = job /\ writable' = writable
  BY JobsStay
<1>2. \A x \in Paths \ {output(p)} : dir'[x] = dir[x]
  BY DEF SafeInv, TypeInv, TypeOK,
         Bake, Kill, ResolveBinary, CheckInput, CheckOutput, RemoveOld, CloneOpen, CloneCreate,
         Clone, CopyOpen, CopyCreate, CopyFirst, CopyRest, CopySync, OpenForWrite, CheckArea,
         WriteHeader, WritePayload, Truncate, EmbedIgnition, ReadArgs, WriteArgs, ArgsWritten,
         Succeed, Cleanup, Verify, Compare, Unlink, Create
<1>3. \A i \in Inodes \ Mine(p) : data'[i] = data[i]
  <2>1. Entry(p)
    BY DEF SafeInv
  <2>2. ASSUME NEW img, Write(p, img), pc[p] \in Holding
        PROVE  \A i \in Inodes \ Mine(p) : data'[i] = data[i]
    BY <2>1, <2>2 DEF Write, Entry, SafeInv, TypeInv, TypeOK
  <2>3. ASSUME NEW n \in {1, 2}, Create(p, n), pc[p] \in {"cloneCreate", "copyCreate"}
        PROVE  \A i \in Inodes \ Mine(p) : data'[i] = data[i]
    BY <2>1, <2>3, BakeAssumption DEF Create, Entry, SafeInv, TypeInv, TypeOK, Mine, Inodes
  <2>4. CASE UNCHANGED data
    BY <2>4
  <2>5. ASSUME data' # data
        PROVE  \/ \E img : Write(p, img) /\ pc[p] \in Holding
               \/ \E n \in {1, 2} : Create(p, n) /\ pc[p] \in {"cloneCreate", "copyCreate"}
    BY <2>5
       DEF At, Holding, Opened,
           Bake, Kill, ResolveBinary, CheckInput, CheckOutput, RemoveOld, CloneOpen, CloneCreate,
           Clone, CopyOpen, CopyCreate, CopyFirst, CopyRest, CopySync, OpenForWrite, CheckArea,
           WriteHeader, WritePayload, Truncate, EmbedIgnition, ReadArgs, WriteArgs, ArgsWritten,
           Succeed, Cleanup, Verify, Compare, WriteStep
  <2>6. QED
    BY <2>2, <2>3, <2>4, <2>5
<1>4. ASSUME NEW q \in Bakers \ {p}
      PROVE  /\ pc'[q] = pc[q] /\ source'[q] = source[q] /\ target'[q] = target[q]
             /\ end'[q] = end[q] /\ area'[q] = area[q] /\ line'[q] = line[q]
  BY DEF SafeInv, TypeInv, TypeOK, Goto, OpenSource, Create,
         Bake, Kill, ResolveBinary, CheckInput, CheckOutput, RemoveOld, CloneOpen, CloneCreate,
         Clone, CopyOpen, CopyCreate, CopyFirst, CopyRest, CopySync, OpenForWrite, CheckArea,
         WriteHeader, WritePayload, Truncate, EmbedIgnition, ReadArgs, WriteArgs, ArgsWritten,
         Succeed, Cleanup, Verify, Compare, WriteStep
<1>5. QED
  BY <1>1, <1>2, <1>3, <1>4

\* What holds of a process survives the steps of the others.
LEMMA OthersSafe ==
  ASSUME SafeInv, Apart, NEW p \in Bakers, Bake(p) \/ Kill(p), NEW q \in Bakers \ {p}
  PROVE  Entry(q)' /\ Progress(q)' /\ Looped(q)'
<1>1. Entry(q) /\ Progress(q) /\ Looped(q)
  BY DEF SafeInv
<1>2. /\ input(q) \in Paths \ {output(p)} /\ output(q) \in Paths \ {output(p)}
  BY DEF Apart, SafeInv, TypeInv, TypeOK, Job, input, output
<1>3. /\ input(q)' = input(q) /\ output(q)' = output(q) /\ job'[q] = job[q]
      /\ dir'[input(q)] = dir[input(q)] /\ dir'[output(q)] = dir[output(q)]
      /\ pc'[q] = pc[q] /\ source'[q] = source[q] /\ target'[q] = target[q]
      /\ end'[q] = end[q] /\ area'[q] = area[q] /\ line'[q] = line[q]
  BY <1>2, Frame DEF input, output
<1>4. \A i \in OldInodes \cup Mine(q) : data'[i] = data[i]
  BY Frame, BakeAssumption DEF Mine, Inodes
<1>5. pc[q] \in Sourced => original(q)' = original(q)
  BY <1>1, <1>3, <1>4 DEF Entry, original
<1>6. pc[q] \in Holding => Image(q)' = Image(q)
  BY <1>1, <1>3, <1>4 DEF Entry, Image
<1>7. Entry(q)'
  BY <1>1, <1>3 DEF Entry
<1>8. Progress(q)'
  <2> DEFINE o == original(q)
             img == Image(q)
  <2>1. CASE pc[q] \in Sourced /\ pc[q] \in Holding
    <3>1. original(q)' = o /\ Image(q)' = img
      BY <2>1, <1>5, <1>6
    <3>2. QED
      BY <1>1, <1>3, <3>1 DEF Progress
  <2>2. CASE ~(pc[q] \in Sourced /\ pc[q] \in Holding)
    BY <1>3, <2>2
       DEF Progress, Sourced, Holding, Opened, Reading, Patching, PublishedLabels, Verifying
  <2>3. QED
    BY <2>1, <2>2
<1>9. Looped(q)'
  <2>1. CASE pc[q] \in Holding
    BY <1>1, <1>3, <1>6, <2>1 DEF Looped
  <2>2. CASE pc[q] \notin Holding
    BY <1>1, <1>3, <2>2 DEF Looped, Holding, Opened, PublishedLabels
  <2>3. QED
    BY <2>1, <2>2
<1>10. QED
  BY <1>7, <1>8, <1>9

\* The input of a process stays what it is while the process runs.
LEMMA OriginalStays ==
  ASSUME SafeInv, Apart, NEW p \in Bakers, Bake(p) \/ Kill(p)
  PROVE  /\ input(p)' = input(p) /\ output(p)' = output(p) /\ job'[p] = job[p]
         /\ input(p) \in Paths /\ output(p) \in Paths /\ input(p) # output(p)
         /\ writable[output(p)]
         /\ dir'[input(p)] = dir[input(p)]
         /\ dir[input(p)] \in OldInodes =>
              original(p)' = original(p) /\ original(p) \in Images
<1>1. /\ input(p) \in Paths /\ output(p) \in Paths /\ input(p) # output(p)
      /\ writable[output(p)]
  BY DEF Apart, SafeInv, TypeInv, TypeOK, Job, input, output
<1>2. /\ input(p)' = input(p) /\ output(p)' = output(p) /\ job'[p] = job[p]
      /\ dir'[input(p)] = dir[input(p)]
  BY <1>1, Frame DEF input, output
<1>3. \A i \in OldInodes : i \in Inodes \ Mine(p)
  BY BakeAssumption DEF Mine, Inodes
<1>4. dir[input(p)] \in OldInodes => original(p)' = original(p) /\ original(p) \in Images
  BY <1>2, <1>3, Frame DEF original, SafeInv, TypeInv, TypeOK
<1>5. QED
  BY <1>1, <1>2, <1>4

\* Each step leaves the output path at what its next label expects.
LEMMA EntryStep ==
  ASSUME SafeInv, Apart, NEW p \in Bakers, Bake(p) \/ Kill(p)
  PROVE  Entry(p)'
<1>1. Entry(p) /\ TypeOK
  BY DEF SafeInv, TypeInv
<1>2. /\ input(p)' = input(p) /\ output(p)' = output(p)
      /\ input(p) \in Paths /\ output(p) \in Paths /\ input(p) # output(p)
      /\ writable[output(p)]
      /\ dir'[input(p)] = dir[input(p)]
  BY OriginalStays
<1>3. NoInode \notin OldInodes /\ NoInode \notin Mine(p) /\ OldInodes \cap Mine(p) = {}
  BY BakeAssumption DEF Mine, Inodes
<1>4. <<p, 1>> \in Mine(p) /\ <<p, 2>> \in Mine(p)
  BY DEF Mine
<1> HIDE DEF Mine
<1> USE DEF Entry, TypeOK, At, Goto, Before, Holding, Sourced, Reading, Opened, Patching,
            PublishedLabels, Verifying
<1>5. CASE ResolveBinary(p)
  BY <1>5, <1>1, <1>2, <1>3, <1>4 DEF ResolveBinary
<1>6. CASE CheckInput(p)
  BY <1>6, <1>1, <1>2, <1>3, <1>4 DEF CheckInput
<1>7. CASE CheckOutput(p)
  BY <1>7, <1>1, <1>2, <1>3, <1>4 DEF CheckOutput
<1>8. CASE RemoveOld(p)
  BY <1>8, <1>1, <1>2, <1>3, <1>4 DEF RemoveOld, Unlink
<1>9. CASE CloneOpen(p)
  BY <1>9, <1>1, <1>2, <1>3, <1>4 DEF CloneOpen, OpenSource
<1>10. CASE CloneCreate(p)
  BY <1>10, <1>1, <1>2, <1>3, <1>4 DEF CloneCreate, Create
<1>11. CASE Clone(p)
  BY <1>11, <1>1, <1>2, <1>3, <1>4 DEF Clone, Unlink, Write
<1>12. CASE CopyOpen(p)
  BY <1>12, <1>1, <1>2, <1>3, <1>4 DEF CopyOpen, OpenSource
<1>13. CASE CopyCreate(p)
  BY <1>13, <1>1, <1>2, <1>3, <1>4 DEF CopyCreate, Create
<1>14. CASE CopyFirst(p)
  BY <1>14, <1>1, <1>2, <1>3, <1>4 DEF CopyFirst
<1>15. CASE CopyRest(p)
  BY <1>15, <1>1, <1>2, <1>3, <1>4 DEF CopyRest
<1>16. CASE CopySync(p)
  BY <1>16, <1>1, <1>2, <1>3, <1>4 DEF CopySync
<1>17. CASE OpenForWrite(p)
  BY <1>17, <1>1, <1>2, <1>3, <1>4, ZenonT(60) DEF OpenForWrite
<1>18. CASE CheckArea(p)
  BY <1>18, <1>1, <1>2, <1>3, <1>4 DEF CheckArea
<1>19. CASE WriteHeader(p)
  BY <1>19, <1>1, <1>2, <1>3, <1>4 DEF WriteHeader, WriteStep
<1>20. CASE WritePayload(p)
  BY <1>20, <1>1, <1>2, <1>3, <1>4 DEF WritePayload, WriteStep
<1>21. CASE Truncate(p)
  BY <1>21, <1>1, <1>2, <1>3, <1>4 DEF Truncate
<1>22. CASE EmbedIgnition(p)
  BY <1>22, <1>1, <1>2, <1>3, <1>4 DEF EmbedIgnition, WriteStep
<1>23. CASE ReadArgs(p)
  BY <1>23, <1>1, <1>2, <1>3, <1>4, ZenonT(60) DEF ReadArgs
<1>24. CASE WriteArgs(p)
  BY <1>24, <1>1, <1>2, <1>3, <1>4 DEF WriteArgs
<1>25. CASE ArgsWritten(p)
  BY <1>25, <1>1, <1>2, <1>3, <1>4 DEF ArgsWritten
<1>26. CASE Succeed(p)
  BY <1>26, <1>1, <1>2, <1>3, <1>4 DEF Succeed
<1>27. CASE Cleanup(p)
  BY <1>27, <1>1, <1>2, <1>3, <1>4 DEF Cleanup, Unlink
<1>28. CASE Verify(p)
  BY <1>28, <1>1, <1>2, <1>3, <1>4 DEF Verify
<1>29. CASE Compare(p)
  BY <1>29, <1>1, <1>2, <1>3, <1>4 DEF Compare
<1>30. CASE Kill(p)
  BY <1>30, <1>1, <1>2, <1>3, <1>4 DEF Kill, Final
<1>31. QED
  BY <1>5, <1>6, <1>7, <1>8, <1>9, <1>10, <1>11, <1>12, <1>13, <1>14, <1>15, <1>16, <1>17, <1>18,
     <1>19, <1>20, <1>21, <1>22, <1>23, <1>24, <1>25, <1>26, <1>27, <1>28, <1>29, <1>30 DEF Bake

LEMMA WriteImage ==
  ASSUME SafeInv, Apart, NEW p \in Bakers, NEW img,
         pc[p] \in Holding, Write(p, img), UNCHANGED target
  PROVE  Image(p)' = img
<1>1. target[p] \in Inodes
  BY DEF SafeInv, Entry, Mine, Inodes
<1>2. QED
  BY <1>1 DEF Write, Image, SafeInv, TypeInv, TypeOK

\* Each step leaves the image in the form its next label expects.
LEMMA ProgressStep ==
  ASSUME SafeInv, Apart, NEW p \in Bakers, Bake(p) \/ Kill(p)
  PROVE  Progress(p)'
<1>1. Entry(p) /\ Progress(p) /\ TypeOK /\ OpenFiles
  BY DEF SafeInv, TypeInv
<1>2. /\ dir[input(p)] \in OldInodes => original(p)' = original(p) /\ original(p) \in Images
      /\ input(p) # output(p)
  BY OriginalStays
<1>3. ASSUME NEW img, Write(p, img), pc[p] \in Holding, target' = target
      PROVE  Image(p)' = img
  BY <1>3, WriteImage
<1>4. ASSUME data' = data, target' = target
      PROVE  Image(p)' = Image(p)
  BY <1>4 DEF Image
<1> DEFINE o == original(p)
<1>5. pc[p] \in Sourced => original(p)' = o /\ o \in Images /\ dir[input(p)] \in OldInodes
  BY <1>1, <1>2 DEF Entry
<1>6. pc[p] \in Reading \cup {"copySync"} => data[source[p]] = o
  BY <1>1 DEF Entry, original
<1> HIDE DEF o
<1> USE DEF Progress, At, Goto, Before, Holding, Sourced, Reading, Opened, Patching,
            PublishedLabels, Verifying, TypeOK
<1>7. CASE ResolveBinary(p)
  BY <1>7, <1>1, <1>3, <1>4, <1>5, <1>6 DEF ResolveBinary, o
<1>8. CASE CheckInput(p)
  BY <1>8, <1>1, <1>3, <1>4, <1>5, <1>6 DEF CheckInput, o
<1>9. CASE CheckOutput(p)
  BY <1>9, <1>1, <1>3, <1>4, <1>5, <1>6 DEF CheckOutput, o
<1>10. CASE RemoveOld(p)
  BY <1>10, <1>1, <1>3, <1>4, <1>5, <1>6 DEF RemoveOld, Unlink, o
<1>11. CASE CloneOpen(p)
  BY <1>11, <1>1, <1>3, <1>4, <1>5, <1>6 DEF CloneOpen, OpenSource, o
<1>12. CASE CloneCreate(p)
  BY <1>12, <1>1, <1>3, <1>4, <1>5, <1>6 DEF CloneCreate, o
<1>13. CASE Clone(p)
  BY <1>13, <1>1, <1>3, <1>4, <1>5, <1>6 DEF Clone, Unlink, o
<1>14. CASE CopyOpen(p)
  BY <1>14, <1>1, <1>3, <1>4, <1>5, <1>6 DEF CopyOpen, OpenSource, o
<1>15. CASE CopyCreate(p)
  <2>1. CASE Create(p, 2) /\ Goto(p, "copyFirst")
    <3>1. target'[p] \in Inodes /\ data'[target'[p]] = EmptyFile
      BY <2>1, <1>1 DEF Create, Inodes, Entry, Mine
    <3>2. QED
      BY <1>15, <2>1, <3>1, <1>1 DEF CopyCreate, Image
  <2>2. CASE Goto(p, "failed")
    BY <2>2, <1>1
  <2>3. QED
    BY <1>15, <2>1, <2>2 DEF CopyCreate
<1>16. CASE CopyFirst(p)
  <2>1. CASE Goto(p, "copyRest")
    <3>1. PICK part \in Prefixes(data[source[p]]) : Write(p, part)
      BY <1>16, <2>1, <1>1 DEF CopyFirst
    <3>2. Image(p)' = part /\ part \in Prefixes(o) /\ original(p)' = o
      BY <1>16, <3>1, <1>3, <1>5, <1>6 DEF CopyFirst
    <3>3. QED
      BY <2>1, <3>2, <1>1
  <2>2. CASE Goto(p, "failed")
    BY <2>2, <1>1
  <2>3. QED
    BY <1>16, <2>1, <2>2 DEF CopyFirst
<1>17. CASE CopyRest(p)
  BY <1>17, <1>1, <1>3, <1>4, <1>5, <1>6 DEF CopyRest, o
<1>18. CASE CopySync(p)
  BY <1>18, <1>1, <1>3, <1>4, <1>5, <1>6 DEF CopySync, o
<1>19. CASE OpenForWrite(p)
  <2>1. CASE /\ Goto(p, "checkArea")
             /\ target' = [target EXCEPT ![p] = dir[output(p)]]
             /\ end' = [end EXCEPT ![p] = Len(data[dir[output(p)]].tail)]
    <3>1. Image(p) = o /\ dir[output(p)] = target[p]
      BY <1>19, <1>1 DEF OpenForWrite, Entry, o
    <3>2. target' = target /\ data' = data
      BY <1>19, <2>1, <3>1, <1>1 DEF OpenForWrite
    <3>3. end'[p] = Len(o.tail) /\ Image(p)' = o
      BY <2>1, <3>1, <3>2, <1>1, <1>4 DEF Image
    <3>4. original(p)' = o
      BY <1>19, <1>5 DEF OpenForWrite
    <3>5. QED
      BY <2>1, <3>3, <3>4, <1>1
  <2>2. CASE Goto(p, "cleanup")
    BY <2>2, <1>1
  <2>3. QED
    BY <1>19, <2>1, <2>2 DEF OpenForWrite
<1>20. CASE CheckArea(p)
  BY <1>20, <1>1, <1>3, <1>4, <1>5, <1>6 DEF CheckArea, o
<1>21. CASE WriteHeader(p)
  BY <1>21, <1>1, <1>3, <1>4, <1>5, <1>6 DEF WriteHeader, WriteStep, o
<1>22. CASE WritePayload(p)
  BY <1>22, <1>1, <1>3, <1>4, <1>5, <1>6 DEF WritePayload, WriteStep, o
<1>23. CASE Truncate(p)
  BY <1>23, <1>1, <1>3, <1>4, <1>5, <1>6 DEF Truncate, Trailed, o
<1>24. CASE EmbedIgnition(p)
  BY <1>24, <1>1, <1>3, <1>4, <1>5, <1>6 DEF EmbedIgnition, WriteStep, Configured, o
<1>25. CASE ReadArgs(p)
  <2>1. Image(p)' = Configured(o, p) /\ original(p)' = o /\ Image(p) \in Images
    BY <1>25, <1>1, <1>4, <1>5 DEF ReadArgs, OpenFiles, o, Image
  <2>2. Image(p)' = Image(p)
    BY <1>25, <1>4 DEF ReadArgs
  <2>3. Image(p)' = [Configured(o, p) EXCEPT !.kargs = Image(p)'.kargs]
    BY <2>1, <2>2 DEF Images
  <2>4. QED
    BY <1>25, <2>1, <2>3, <1>1 DEF ReadArgs, o
<1>26. CASE WriteArgs(p)
  <2>1. CASE Write(p, WithArgs(Image(p), area[p], line[p])) /\ UNCHANGED pc
    <3>1. Image(p)' = WithArgs(Image(p), area[p], line[p]) /\ original(p)' = o
      BY <1>26, <2>1, <1>3, <1>5 DEF WriteArgs
    <3>2. Image(p) = [Configured(o, p) EXCEPT !.kargs = Image(p).kargs] /\ Image(p) \in Images
      BY <1>26, <1>1 DEF WriteArgs, o, OpenFiles, Image
    <3>3. Image(p)' = [Configured(o, p) EXCEPT !.kargs = Image(p)'.kargs]
      BY <3>1, <3>2 DEF WithArgs, Images
    <3>4. QED
      BY <1>26, <2>1, <3>1, <3>3, <1>1 DEF WriteArgs, o
  <2>2. CASE Goto(p, "cleanup")
    BY <2>2, <1>1
  <2>3. QED
    BY <1>26, <2>1, <2>2 DEF WriteArgs
<1>27. CASE ArgsWritten(p)
  BY <1>27, <1>1, <1>3, <1>4, <1>5, <1>6 DEF ArgsWritten, o
<1>28. CASE Succeed(p)
  BY <1>28, <1>1, <1>3, <1>4, <1>5, <1>6 DEF Succeed, o
<1>29. CASE Cleanup(p)
  BY <1>29, <1>1, <1>3, <1>4, <1>5, <1>6 DEF Cleanup, Unlink, o
<1>30. CASE Verify(p)
  BY <1>30, <1>1, <1>3, <1>4, <1>5, <1>6 DEF Verify, o
<1>31. CASE Compare(p)
  BY <1>31, <1>1, <1>3, <1>4, <1>5, <1>6 DEF Compare, o
<1>32. CASE Kill(p)
  BY <1>32, <1>1, <1>3, <1>4, <1>5, <1>6 DEF Kill, Final, o
<1>33. QED
  BY <1>7, <1>8, <1>9, <1>10, <1>11, <1>12, <1>13, <1>14, <1>15, <1>16, <1>17, <1>18, <1>19, <1>20,
     <1>21, <1>22, <1>23, <1>24, <1>25, <1>26, <1>27, <1>28, <1>29, <1>30, <1>31, <1>32 DEF Bake

\* Each step keeps the account of the bootloader configs done so far.
LEMMA LoopedStep ==
  ASSUME SafeInv, Apart, NEW p \in Bakers, Bake(p) \/ Kill(p)
  PROVE  Looped(p)'
<1>1. Entry(p) /\ Looped(p) /\ TypeOK /\ OpenFiles
  BY DEF SafeInv, TypeInv
<1>2. job'[p] = job[p]
  BY OriginalStays
<1>3. ASSUME NEW img, Write(p, img), pc[p] \in Holding, target' = target
      PROVE  Image(p)' = img
  BY <1>3, WriteImage
<1>4. ASSUME data' = data, target' = target
      PROVE  Image(p)' = Image(p)
  BY <1>4 DEF Image
<1> USE DEF Looped, At, Goto, Before, Holding, Opened, Patching, PublishedLabels, Verifying,
            Copying, Unlooped, TypeOK
<1>5. CASE ResolveBinary(p)
  BY <1>5, <1>1, <1>2, <1>4 DEF ResolveBinary
<1>6. CASE CheckInput(p)
  BY <1>6, <1>1, <1>2, <1>4 DEF CheckInput
<1>7. CASE CheckOutput(p)
  BY <1>7, <1>1, <1>2, <1>4 DEF CheckOutput
<1>8. CASE RemoveOld(p)
  BY <1>8, <1>1, <1>2, <1>4 DEF RemoveOld
<1>9. CASE CloneOpen(p)
  BY <1>9, <1>1, <1>2, <1>4 DEF CloneOpen
<1>10. CASE CloneCreate(p)
  BY <1>10, <1>1, <1>2, <1>4 DEF CloneCreate
<1>11. CASE Clone(p)
  BY <1>11, <1>1, <1>2, <1>4 DEF Clone
<1>12. CASE CopyOpen(p)
  BY <1>12, <1>1, <1>2, <1>4 DEF CopyOpen
<1>13. CASE CopyCreate(p)
  BY <1>13, <1>1, <1>2, <1>4 DEF CopyCreate
<1>14. CASE CopyFirst(p)
  BY <1>14, <1>1, <1>2, <1>4 DEF CopyFirst
<1>15. CASE CopyRest(p)
  BY <1>15, <1>1, <1>2, <1>4 DEF CopyRest
<1>16. CASE CopySync(p)
  BY <1>16, <1>1, <1>2, <1>4 DEF CopySync
<1>17. CASE OpenForWrite(p)
  BY <1>17, <1>1, <1>2, <1>4 DEF OpenForWrite
<1>18. CASE CheckArea(p)
  BY <1>18, <1>1, <1>2, <1>4, ZenonT(60) DEF CheckArea
<1>19. CASE WriteHeader(p)
  BY <1>19, <1>1, <1>2, <1>4 DEF WriteHeader, WriteStep
<1>20. CASE WritePayload(p)
  BY <1>20, <1>1, <1>2, <1>4 DEF WritePayload, WriteStep
<1>21. CASE Truncate(p)
  BY <1>21, <1>1, <1>2, <1>4 DEF Truncate
<1>22. CASE EmbedIgnition(p)
  BY <1>22, <1>1, <1>2, <1>4 DEF EmbedIgnition, WriteStep
<1>23. CASE ReadArgs(p)
  <2>1. area[p] = 1 /\ \A a \in Areas : ~(a < 1)
    BY <1>23, <1>1 DEF ReadArgs, Areas
  <2>2. Image(p)' = Image(p) /\ area' = area
    BY <1>23, <1>4 DEF ReadArgs
  <2>3. CASE ~job[p].kargs /\ UNCHANGED line /\ Goto(p, "result")
    BY <2>3, <2>2, <2>1, <1>1, <1>2
  <2>4. CASE /\ job[p].kargs
             /\ line' = [line EXCEPT ![p] = KernelArgs(Image(p)) \cup {p}]
             /\ Goto(p, "writeArgs")
    BY <2>4, <2>2, <2>1, <1>1, <1>2
  <2>5. CASE job[p].kargs /\ UNCHANGED line /\ Goto(p, "cleanup")
    BY <2>5, <2>2, <2>1, <1>1, <1>2
  <2>6. QED
    BY <1>23, <2>3, <2>4, <2>5 DEF ReadArgs
<1>24. CASE WriteArgs(p)
  <2>1. CASE /\ Write(p, WithArgs(Image(p), area[p], line[p]))
             /\ area' = [area EXCEPT ![p] = area[p] + 1]
             /\ UNCHANGED pc
    <3>1. Image(p)' = WithArgs(Image(p), area[p], line[p]) /\ Image(p) \in Images
      BY <1>24, <2>1, <1>1, <1>3 DEF WriteArgs, OpenFiles, Image
    <3>2. \A a \in Areas : Image(p)'.kargs[a] = IF a = area[p] THEN line[p] ELSE Image(p).kargs[a]
      BY <3>1 DEF WithArgs, Images
    <3>3. p \in line[p] /\ \A a \in Areas : a < area[p] => p \in Image(p).kargs[a]
      BY <1>24, <1>1 DEF WriteArgs
    <3>4. area'[p] = area[p] + 1 /\ area[p] \in Nat \ {0} /\ line' = line /\ Areas \subseteq Nat
      BY <1>24, <2>1, <1>1 DEF WriteArgs, Areas
    <3>5. ASSUME NEW a \in Areas, a < area[p] + 1
          PROVE  p \in Image(p)'.kargs[a]
      <4>1. a = area[p] \/ a < area[p]
        BY <3>4, <3>5
      <4>2. QED
        BY <3>2, <3>3, <4>1
    <3>6. QED
      BY <1>24, <2>1, <3>3, <3>4, <3>5, <1>1 DEF WriteArgs
  <2>2. CASE UNCHANGED area /\ Goto(p, "cleanup")
    BY <2>2, <1>1
  <2>3. QED
    BY <1>24, <2>1, <2>2 DEF WriteArgs
<1>25. CASE ArgsWritten(p)
  <2>1. \A a \in Areas : a < area[p]
    BY <1>25, <1>1, IsoAssumption DEF ArgsWritten, Areas
  <2>2. QED
    BY <1>25, <2>1, <1>1, <1>2, <1>4 DEF ArgsWritten
<1>26. CASE Succeed(p)
  BY <1>26, <1>1, <1>2, <1>4, ZenonT(60) DEF Succeed
<1>27. CASE Cleanup(p)
  BY <1>27, <1>1, <1>2, <1>4 DEF Cleanup
<1>28. CASE Verify(p)
  BY <1>28, <1>1, <1>2, <1>4, ZenonT(60) DEF Verify
<1>29. CASE Compare(p)
  BY <1>29, <1>1, <1>2, <1>4 DEF Compare
<1>30. CASE Kill(p)
  BY <1>30, <1>1, <1>2, <1>4 DEF Kill, Final, Working
<1>31. QED
  BY <1>5, <1>6, <1>7, <1>8, <1>9, <1>10, <1>11, <1>12, <1>13, <1>14, <1>15, <1>16, <1>17, <1>18,
     <1>19, <1>20, <1>21, <1>22, <1>23, <1>24, <1>25, <1>26, <1>27, <1>28, <1>29, <1>30 DEF Bake

LEMMA NextSafe == SafeInv /\ [Next]_vars => SafeInv'
<1> SUFFICES ASSUME SafeInv, [Next]_vars PROVE SafeInv'
  OBVIOUS
<1>1. TypeInv'
  BY NextTyped DEF SafeInv
<1>2. CASE UNCHANGED vars
  <2>1. /\ job' = job /\ writable' = writable /\ dir' = dir /\ data' = data /\ pc' = pc
        /\ source' = source /\ target' = target /\ end' = end /\ area' = area /\ line' = line
    BY <1>2 DEF vars
  <2>2. Apart' = Apart /\ Outputs' = Outputs
    BY <2>1 DEF Apart, Outputs, input, output
  <2>3. ASSUME NEW p \in Bakers
        PROVE  /\ Entry(p) => Entry(p)'
               /\ Progress(p) => Progress(p)'
               /\ Looped(p) => Looped(p)'
    <3>1. input(p)' = input(p) /\ output(p)' = output(p) /\ Image(p)' = Image(p)
      BY <2>1 DEF input, output, Image
    <3>2. original(p)' = original(p)
      BY <2>1, <3>1 DEF original
    <3>3. QED
      BY <2>1, <3>1, <3>2 DEF Entry, Progress, Looped
  <2>4. QED
    BY <1>1, <2>1, <2>2, <2>3 DEF SafeInv
<1>3. ASSUME NEW p \in Bakers, Bake(p) \/ Kill(p), Apart'
      PROVE  /\ \A x \in Paths \ Outputs' : dir'[x] \in OldInodes \cup {NoInode}
             /\ \A q \in Bakers : Entry(q)' /\ Progress(q)' /\ Looped(q)'
  <2>1. job' = job /\ writable' = writable
    BY <1>3, JobsStay
  <2>2. Apart /\ Outputs' = Outputs
    BY <1>3, <2>1 DEF Apart, Outputs, input, output
  <2>3. \A x \in Paths \ Outputs : dir'[x] \in OldInodes \cup {NoInode}
    BY <1>3, <2>2, Frame DEF SafeInv, Outputs
  <2>4. Entry(p)' /\ Progress(p)' /\ Looped(p)'
    BY <1>3, <2>2, EntryStep, ProgressStep, LoopedStep
  <2>5. ASSUME NEW q \in Bakers \ {p}
        PROVE  Entry(q)' /\ Progress(q)' /\ Looped(q)'
    BY <1>3, <2>2, OthersSafe
  <2>6. QED
    BY <2>2, <2>3, <2>4, <2>5
<1>4. QED
  BY <1>1, <1>2, <1>3 DEF Next, SafeInv

\* u is s with one more cell, at position i.
Appended(u, s, cell, i) ==
  /\ u \in Seq(Cells) /\ Len(u) = i
  /\ \A k \in 1..Len(s) : u[k] = s[k]
  /\ u[i] = cell

\* Writing a cell right behind the end appends it.
LEMMA AppendCell ==
  ASSUME NEW tail \in Seq(Cells), NEW cell \in Cells, NEW i \in Nat \ {0}, i = Len(tail) + 1
  PROVE  Appended(WriteCell(tail, i, cell), tail, cell, i)
<1>1. Larger(i, Len(tail)) = i
  BY DEF Larger
<1>2. WriteCell(tail, i, cell) =
        [k \in 1..i |-> IF k = i THEN cell ELSE IF k <= Len(tail) THEN tail[k] ELSE Zero]
  BY <1>1 DEF WriteCell
<1>3. /\ WriteCell(tail, i, cell) \in Seq(Cells)
      /\ Len(WriteCell(tail, i, cell)) = Larger(i, Len(tail))
  BY WriteCellFacts
<1>4. \A k \in 1..Len(tail) : WriteCell(tail, i, cell)[k] = tail[k]
  BY <1>2
<1>5. WriteCell(tail, i, cell)[i] = cell
  BY <1>2
<1>6. QED
  BY <1>1, <1>3, <1>4, <1>5 DEF Appended

\* The three writes of AppendTrailer append a header and a payload.
LEMMA TrailerTail ==
  ASSUME NEW s \in Seq(Cells), NEW hdr \in Cells, NEW pay \in Cells,
         NEW i \in Nat \ {0}, i = Len(s) + 1, NEW j \in Nat \ {0}, j = i + 1
  PROVE  LET t == Resize(WriteCell(WriteCell(s, i, hdr), j, pay), j)
         IN  /\ Len(t) = j
             /\ \A k \in 1..Len(s) : t[k] = s[k]
             /\ t[i] = hdr /\ t[j] = pay
<1> DEFINE h == WriteCell(s, i, hdr)
           w == WriteCell(h, j, pay)
           t == Resize(w, j)
<1>1. Appended(h, s, hdr, i)
  BY AppendCell
<1> HIDE DEF h
<1>2. h \in Seq(Cells) /\ j = Len(h) + 1
  BY <1>1 DEF Appended
<1>3. Appended(w, h, pay, j)
  BY <1>2, AppendCell
<1> HIDE DEF w
<1>4. w \in Seq(Cells) /\ j \in Nat
  BY <1>3 DEF Appended
<1>5. Len(t) = j /\ \A k \in 1..j : t[k] = IF k <= Len(w) THEN w[k] ELSE Zero
  BY <1>4, ResizeFacts
<1> HIDE DEF t
<1>6. /\ Len(t) = j
      /\ \A k \in 1..Len(s) : t[k] = s[k]
      /\ t[i] = hdr /\ t[j] = pay
  BY <1>1, <1>3, <1>5 DEF Appended
<1>7. QED
  BY <1>6 DEF t, w, h

\* The form a finished bake has makes it a baked image.
LEMMA ConfiguredIsBaked ==
  ASSUME NEW o \in Images, NEW p \in Bakers, NEW img,
         img = [Configured(o, p) EXCEPT !.kargs = img.kargs],
         job[p].kargs => \A a \in Areas : p \in img.kargs[a]
  PROVE  Baked(p, img, o)
<1> DEFINE hdr == <<"header", p>>
           pay == <<"payload", p>>
<1>1. /\ o.tail \in Seq(Cells) /\ Len(o.tail) \in Nat
      /\ hdr \in Cells /\ pay \in Cells
  BY DEF Images, Cells, Writers, Owners
<1>2. PICK i \in Nat \ {0}, j \in Nat \ {0} :
        i = Len(o.tail) + 1 /\ j = Len(o.tail) + 2 /\ j = i + 1
  <2>1. /\ Len(o.tail) + 1 \in Nat \ {0} /\ Len(o.tail) + 2 \in Nat \ {0}
        /\ Len(o.tail) + 2 = (Len(o.tail) + 1) + 1
    BY <1>1
  <2>2. QED
    BY <2>1
<1>3. /\ img.base = o.base /\ img.whole = o.whole
      /\ img.ign = [by |-> p, skip |-> j]
      /\ img.tail = Resize(WriteCell(WriteCell(o.tail, i, hdr), j, pay), j)
  BY <1>2 DEF Configured, WithConfig, Trailed, WithLength, WithPayload, WithHeader, Images
<1> HIDE DEF hdr, pay
<1>6. /\ Len(img.tail) = j
      /\ \A k \in 1..Len(o.tail) : img.tail[k] = o.tail[k]
      /\ img.tail[i] = hdr /\ img.tail[j] = pay
  BY <1>1, <1>2, <1>3, TrailerTail
<1>7. Untouched(img, o)
  BY <1>1, <1>2, <1>3, <1>6 DEF Untouched
<1>8. LauncherFindsPayload(img)
  BY <1>1, <1>2, <1>3, <1>6 DEF LauncherFindsPayload, pay
<1>9. TrailerComplete(img, i)
  <2>1. hdr[1] = "header" /\ hdr[2] = p /\ pay[1] = "payload" /\ pay = <<"payload", p>>
    BY DEF hdr, pay
  <2>2. i \in Headers(img) /\ j \notin Headers(img) /\ Headers(img) \subseteq 1..j
    BY <1>1, <1>2, <1>6, <2>1 DEF Headers
  <2>3. QED
    BY <1>1, <1>2, <1>6, <2>1, <2>2 DEF TrailerComplete
<1>10. QED
  BY <1>2, <1>3, <1>7, <1>8, <1>9 DEF Baked

-----------------------------------------------------------------------------
\* Whatever Run reports as written is the input with the complete patch.
THEOREM SuccessIsBaked == Spec => []PublishedIsBaked
<1>1. SafeInv => PublishedIsBaked
  <2> SUFFICES ASSUME SafeInv, Apart, NEW p \in Bakers, Published(p)
               PROVE  /\ dir[output(p)] = target[p] /\ target[p] \in Inodes
                      /\ dir[input(p)] # NoInode
                      /\ Baked(p, Image(p), original(p))
    BY DEF PublishedIsBaked, original
  <2>1. pc[p] \in PublishedLabels /\ pc[p] \in Holding /\ pc[p] \in Sourced
    BY DEF Published, PublishedLabels, Holding, Sourced
  <2>2. /\ dir[output(p)] = target[p] /\ target[p] \in Mine(p)
        /\ dir[input(p)] \in OldInodes
    BY <2>1 DEF SafeInv, Entry
  <2>3. original(p) \in Images
    BY <2>2 DEF SafeInv, TypeInv, TypeOK, original, Inodes
  <2>4. /\ Image(p) = [Configured(original(p), p) EXCEPT !.kargs = Image(p).kargs]
        /\ job[p].kargs => \A a \in Areas : p \in Image(p).kargs[a]
    BY <2>1 DEF SafeInv, Progress, Looped
  <2>5. Baked(p, Image(p), original(p))
    BY <2>3, <2>4, ConfiguredIsBaked
  <2>6. QED
    BY <2>2, <2>5, BakeAssumption DEF Mine, Inodes
<1>2. QED
  BY InitSafe, NextSafe, <1>1, PTL DEF Spec

\* No step of a bake touches a file that is not an output.
THEOREM OtherFilesKept == Spec => OthersKept
<1>1. SafeInv /\ [Next]_vars =>
        [Apart => \A x \in Paths \ Outputs :
           /\ dir'[x] = dir[x]
           /\ dir[x] # NoInode => data'[dir[x]] = data[dir[x]]]_vars
  <2> SUFFICES ASSUME SafeInv, Next, Apart, NEW x \in Paths \ Outputs
               PROVE  /\ dir'[x] = dir[x]
                      /\ dir[x] # NoInode => data'[dir[x]] = data[dir[x]]
    OBVIOUS
  <2>1. PICK p \in Bakers : Bake(p) \/ Kill(p)
    BY DEF Next
  <2>2. dir'[x] = dir[x]
    BY <2>1, Frame DEF Outputs
  <2>3. dir[x] \in OldInodes \cup {NoInode}
    BY DEF SafeInv
  <2>4. OldInodes \subseteq Inodes \ Mine(p)
    BY BakeAssumption DEF Mine, Inodes
  <2>5. QED
    BY <2>1, <2>2, <2>3, <2>4, Frame
<1>2. QED
  BY InitSafe, NextSafe, <1>1, PTL DEF Spec, OthersKept

-----------------------------------------------------------------------------
(* What the outcomes mean.  Most of it needs the account of the contents   *)
(* that SafeInv keeps.                                                     *)

\* What a copy of an image that has not been patched may hold.
Copies(o) == {EmptyFile, o} \cup Prefixes(o)

\* Before the deferred removal is in force, an image of its own at the output
\* path of a process holds a part of the copy at most.
Left(p) ==
  pc[p] \in {"copyOpen", "copyCreate", "failed"} /\ dir[output(p)] \in Mine(p) =>
    /\ dir[input(p)] \in OldInodes
    /\ data[dir[output(p)]] \in Copies(original(p))

LeftInv == SafeInv /\ (Apart => \A p \in Bakers : Left(p))

LEMMA LeftStep ==
  ASSUME SafeInv, Apart, NEW p \in Bakers, Left(p), Bake(p) \/ Kill(p)
  PROVE  Left(p)'
<1>1. Entry(p) /\ Progress(p) /\ TypeOK
  BY DEF SafeInv, TypeInv
<1>2. /\ input(p)' = input(p) /\ output(p)' = output(p)
      /\ output(p) \in Paths /\ writable[output(p)]
      /\ dir'[input(p)] = dir[input(p)]
      /\ dir[input(p)] \in OldInodes => original(p)' = original(p)
  BY OriginalStays
<1>3. NoInode \notin Mine(p) /\ OldInodes \cap Mine(p) = {}
  BY BakeAssumption DEF Mine, Inodes
<1> DEFINE Part(img) == img \in Copies(original(p))
<1> USE DEF Copies
\* Where nothing of its own is there.
<1>5. ASSUME dir'[output(p)] \notin Mine(p) PROVE Left(p)'
  BY <1>2, <1>5 DEF Left, Mine
\* Where the copy fails with part of it written.
<1>6. ASSUME UNCHANGED <<dir, data>>, pc[p] \in Holding, pc[p] \in Sourced, Part(Image(p))
      PROVE  Left(p)'
  BY <1>1, <1>2, <1>6 DEF Left, Entry, Image, original
\* Where the label is none of the three.
<1>7. ASSUME pc'[p] \notin {"copyOpen", "copyCreate", "failed"} PROVE Left(p)'
  BY <1>7 DEF Left
<1>8. dir[output(p)] \in OldInodes \cup {NoInode} => dir[output(p)] \notin Mine(p)
  BY <1>3
<1> HIDE DEF Mine
<1>9. CASE ResolveBinary(p) \/ CheckInput(p) \/ CheckOutput(p)
  BY <1>9, <1>1, <1>5, <1>8
     DEF ResolveBinary, CheckInput, CheckOutput, At, Entry, Before
<1>10. CASE RemoveOld(p)
  BY <1>10, <1>1, <1>7 DEF RemoveOld, Goto, TypeOK
<1>11. CASE CloneOpen(p)
  BY <1>11, <1>1, <1>5, <1>8 DEF CloneOpen, At, Entry
<1>12. CASE CloneCreate(p)
  BY <1>12, <1>1, <1>5, <1>7, <1>8 DEF CloneCreate, At, Goto, Entry, TypeOK
<1>13. CASE Clone(p)
  <2>1. pc[p] \in Holding /\ pc[p] \in Sourced /\ pc[p] \in Reading
    BY <1>13 DEF Clone, At, Holding, Sourced, Reading
  <2>2. CASE Write(p, data[source[p]]) /\ UNCHANGED dir /\ Goto(p, "open")
    BY <2>2, <1>1, <1>7 DEF Goto, TypeOK
  <2>3. CASE Write(p, data[source[p]]) /\ UNCHANGED dir /\ Goto(p, "copyOpen")
    <3>1. dir[input(p)] \in OldInodes /\ data[source[p]] = original(p)
          /\ dir[output(p)] = target[p] /\ target[p] \in Inodes
      BY <2>1, <1>1 DEF Entry, original, Mine, Inodes
    <3>2. data'[target[p]] = original(p)
      BY <2>3, <3>1, <1>1 DEF Write, TypeOK
    <3>3. QED
      BY <2>3, <3>1, <3>2, <1>2 DEF Left
  <2>4. CASE Unlink(p)
    <3>1. dir'[output(p)] = NoInode
      BY <2>4, <1>1, <1>2 DEF Unlink, TypeOK
    <3>2. QED
      BY <3>1, <1>3, <1>5
  <2>5. QED
    BY <1>13, <2>2, <2>3, <2>4 DEF Clone
<1>14. CASE CopyOpen(p)
  BY <1>14, <1>2 DEF CopyOpen, At, Left, Mine
<1>15. CASE CopyCreate(p)
  <2>1. CASE Goto(p, "copyFirst")
    BY <2>1, <1>1, <1>7 DEF Goto, TypeOK
  <2>2. CASE UNCHANGED <<dir, data, target>>
    BY <2>2, <1>15, <1>2 DEF CopyCreate, At, Left, Mine
  <2>3. QED
    BY <1>15, <2>1, <2>2 DEF CopyCreate
<1>16. CASE CopyFirst(p)
  <2>1. Image(p) = EmptyFile /\ pc[p] \in Holding /\ pc[p] \in Sourced
    BY <1>16, <1>1 DEF CopyFirst, At, Progress, Holding, Sourced, Reading
  <2>2. CASE Goto(p, "copyRest")
    BY <2>2, <1>1, <1>7 DEF Goto, TypeOK
  <2>3. CASE UNCHANGED data
    BY <2>3, <2>1, <1>16, <1>6 DEF CopyFirst
  <2>4. QED
    BY <1>16, <2>2, <2>3 DEF CopyFirst
<1>17. CASE CopyRest(p)
  <2>1. Image(p) \in Prefixes(original(p)) /\ pc[p] \in Holding /\ pc[p] \in Sourced
    BY <1>17, <1>1 DEF CopyRest, At, Progress, Holding, Sourced, Reading
  <2>2. CASE Goto(p, "copySync")
    BY <2>2, <1>1, <1>7 DEF Goto, TypeOK
  <2>3. CASE UNCHANGED data
    BY <2>3, <2>1, <1>17, <1>6 DEF CopyRest
  <2>4. QED
    BY <1>17, <2>2, <2>3 DEF CopyRest
<1>18. CASE CopySync(p)
  <2>1. Image(p) = original(p) /\ pc[p] \in Holding /\ pc[p] \in Sourced
    BY <1>18, <1>1 DEF CopySync, At, Progress, Holding, Sourced
  <2>2. QED
    BY <2>1, <1>18, <1>6 DEF CopySync
<1>19. CASE Cleanup(p)
  <2>1. dir'[output(p)] = NoInode
    BY <1>19, <1>1, <1>2 DEF Cleanup, Unlink, TypeOK
  <2>2. QED
    BY <2>1, <1>3, <1>5
<1>20. CASE OpenForWrite(p) \/ CheckArea(p) \/ ReadArgs(p) \/ ArgsWritten(p) \/ Succeed(p)
  BY <1>20, <1>1, <1>7
     DEF OpenForWrite, CheckArea, ReadArgs, ArgsWritten, Succeed, Goto, TypeOK
<1>21. CASE WriteHeader(p) \/ WritePayload(p) \/ Truncate(p) \/ EmbedIgnition(p)
  BY <1>21, <1>1, <1>7
     DEF WriteHeader, WritePayload, Truncate, EmbedIgnition, WriteStep, Goto, TypeOK
<1>22. CASE WriteArgs(p)
  BY <1>22, <1>1, <1>7 DEF WriteArgs, Goto, At, TypeOK
<1>23. CASE Verify(p) \/ Compare(p) \/ Kill(p)
  BY <1>23, <1>1, <1>7 DEF Verify, Compare, Kill, Goto, TypeOK
<1>24. QED
  BY <1>9, <1>10, <1>11, <1>12, <1>13, <1>14, <1>15, <1>16, <1>17, <1>18, <1>19, <1>20,
     <1>21, <1>22, <1>23 DEF Bake

\* What a process left is not touched by the others.
LEMMA LeftOthers ==
  ASSUME SafeInv, Apart, NEW p \in Bakers, Bake(p) \/ Kill(p),
         NEW q \in Bakers \ {p}, Left(q)
  PROVE  Left(q)'
<1>1. /\ input(q) \in Paths \ {output(p)} /\ output(q) \in Paths \ {output(p)}
  BY DEF Apart, SafeInv, TypeInv, TypeOK, Job, input, output
<1>2. /\ input(q)' = input(q) /\ output(q)' = output(q) /\ pc'[q] = pc[q]
      /\ dir'[input(q)] = dir[input(q)] /\ dir'[output(q)] = dir[output(q)]
  BY <1>1, Frame DEF input, output
<1>3. \A i \in OldInodes \cup Mine(q) : data'[i] = data[i]
  BY Frame, BakeAssumption DEF Mine, Inodes
<1>4. QED
  BY <1>2, <1>3 DEF Left, original, Mine

LEMMA LeftNext == LeftInv /\ [Next]_vars => LeftInv'
<1> SUFFICES ASSUME LeftInv, [Next]_vars PROVE LeftInv'
  OBVIOUS
<1>1. SafeInv /\ SafeInv'
  BY NextSafe DEF LeftInv
<1>2. CASE UNCHANGED vars
  BY <1>1, <1>2 DEF LeftInv, Left, Apart, vars, input, output, original, Mine
<1>3. ASSUME NEW p \in Bakers, Bake(p) \/ Kill(p), Apart', NEW q \in Bakers
      PROVE  Left(q)'
  <2>1. job' = job /\ writable' = writable
    BY <1>3, JobsStay
  <2>2. Apart
    BY <1>3, <2>1 DEF Apart, input, output
  <2>3. Left(p) /\ Left(q)
    BY <2>2 DEF LeftInv
  <2>4. QED
    BY <1>1, <1>3, <2>2, <2>3, LeftStep, LeftOthers
<1>4. QED
  BY <1>1, <1>2, <1>3 DEF LeftInv, Next

\* An error after the copy leaves no image with part of the patch in it: what
\* a failed run leaves at the output path is what was there before, nothing,
\* or an unpatched (perhaps incomplete) copy of the input (bake.go:79-99).
THEOREM FailureLeavesNoPatch == Spec => []ErrorLeavesNoPatch
<1>1. Init => LeftInv
  BY InitSafe DEF LeftInv, Left, Init
<1>2. LeftInv => ErrorLeavesNoPatch
  <2> SUFFICES ASSUME LeftInv, Apart, NEW p \in Bakers, pc[p] = "failed",
                      dir[output(p)] \notin OldInodes \cup {NoInode}
               PROVE  data[dir[output(p)]] \in Copies(original(p))
    BY DEF ErrorLeavesNoPatch, original, Copies
  <2>1. dir[output(p)] \in Mine(p)
    BY DEF LeftInv, SafeInv, Entry
  <2>2. QED
    BY <2>1 DEF LeftInv, Left
<1>3. QED
  BY <1>1, LeftNext, <1>2, PTL DEF Spec

-----------------------------------------------------------------------------
(* The launcher and its payload. *)

\* An image whose launcher, if there is one, finds its payload.
Sound(img) == img.ign.by \in Owners => LauncherFindsPayload(img)

\* The files there are to begin with are sound, and no bake of this run made
\* them.
OldSound == \A i \in OldInodes : Sound(data[i]) /\ data[i].ign.by \notin Bakers

\* Inode i is a copy that p has not finished, or never will.
HalfCopy(p, i) ==
  /\ pc[p] \in {"copyRest", "failed", "killed"}
  /\ dir[output(p)] = i /\ dir[input(p)] \in OldInodes
  /\ data[i] \in Prefixes(original(p)) /\ data[i].ign.by \notin Bakers

\* Whatever else a process has made is sound.
OwnSound(p) == \A i \in Mine(p) : Sound(data[i]) \/ HalfCopy(p, i)

SoundInv == SafeInv /\ (Apart => OldSound /\ \A p \in Bakers : OwnSound(p))

\* Nothing written behind the end of an image reaches what its launcher reads.
LEMMA SoundBehind ==
  ASSUME NEW img \in Images, Sound(img), NEW i \in Nat, i > Len(img.tail), NEW cell \in Cells
  PROVE  /\ [img EXCEPT !.tail = WriteCell(img.tail, i, cell)] \in Images
         /\ Len(WriteCell(img.tail, i, cell)) = i
         /\ Sound([img EXCEPT !.tail = WriteCell(img.tail, i, cell)])
<1> DEFINE t == WriteCell(img.tail, i, cell)
           new == [img EXCEPT !.tail = t]
<1>1. img.tail \in Seq(Cells) /\ Len(img.tail) \in Nat /\ i \in Nat \ {0}
  BY DEF Images
<1>2. Larger(i, Len(img.tail)) = i
  BY <1>1 DEF Larger
<1>3. /\ t \in Seq(Cells) /\ Len(t) = i
      /\ \A k \in 1..i : t[k] = IF k = i THEN cell ELSE IF k <= Len(img.tail) THEN img.tail[k] ELSE Zero
  <2>1. t \in Seq(Cells) /\ Len(t) = i
    BY <1>1, <1>2, WriteCellFacts
  <2>2. t = [k \in 1..i |-> IF k = i THEN cell ELSE IF k <= Len(img.tail) THEN img.tail[k] ELSE Zero]
    BY <1>2 DEF WriteCell
  <2>3. QED
    BY <2>1, <2>2
<1> HIDE DEF t
<1>4. new \in Images /\ new.tail = t /\ new.ign = img.ign
  BY <1>3 DEF Images
<1>5. \A k \in 1..Len(img.tail) : t[k] = img.tail[k] /\ k \in 1..i
  BY <1>1, <1>3
<1>6. Sound(new)
  BY <1>3, <1>4, <1>5 DEF Sound, LauncherFindsPayload
<1>7. QED
  BY <1>3, <1>4, <1>6 DEF t

\* The length of the image after each write of AppendTrailer.
LEMMA TrailedFacts ==
  ASSUME NEW o \in Images, Sound(o), NEW p \in Bakers
  PROVE  LET e == Len(o.tail)
             h == WithHeader(o, e, p)
             w == WithPayload(h, e, p)
         IN  /\ h \in Images /\ Len(h.tail) = e + 1 /\ Sound(h)
             /\ w \in Images /\ Len(w.tail) = e + 2 /\ Sound(w)
             /\ WithLength(w, e) \in Images /\ Sound(WithLength(w, e))
             /\ Sound(Configured(o, p))
<1> DEFINE e == Len(o.tail)
           hdr == <<"header", p>>
           pay == <<"payload", p>>
           h == WithHeader(o, e, p)
           w == WithPayload(h, e, p)
           t == WithLength(w, e)
<1>1. e \in Nat /\ o.tail \in Seq(Cells) /\ hdr \in Cells /\ pay \in Cells
  BY DEF Images, Cells, Writers, Owners
<1>2. h \in Images /\ h.tail = WriteCell(o.tail, e + 1, hdr) /\ Len(h.tail) = e + 1 /\ Sound(h)
  <2>1. e + 1 \in Nat /\ e + 1 > Len(o.tail)
    BY <1>1
  <2>2. h = [o EXCEPT !.tail = WriteCell(o.tail, e + 1, hdr)]
    BY DEF WithHeader
  <2>3. h.tail = WriteCell(o.tail, e + 1, hdr)
    BY <2>2 DEF Images
  <2> HIDE DEF h, e, hdr
  <2>4. LET u == WriteCell(o.tail, e + 1, hdr)
        IN  [o EXCEPT !.tail = u] \in Images /\ Len(u) = e + 1 /\ Sound([o EXCEPT !.tail = u])
    BY <1>1, <2>1, SoundBehind
  <2>5. QED
    BY <2>2, <2>3, <2>4
<1>3. w \in Images /\ w.tail = WriteCell(h.tail, e + 2, pay) /\ Len(w.tail) = e + 2 /\ Sound(w)
  <2> HIDE DEF h
  <2>1. e + 2 \in Nat /\ e + 2 > Len(h.tail)
    BY <1>1, <1>2
  <2>2. w = [h EXCEPT !.tail = WriteCell(h.tail, e + 2, pay)]
    BY DEF WithPayload
  <2> HIDE DEF w
  <2>3. w.tail = WriteCell(h.tail, e + 2, pay)
    <3>1. DOMAIN h = DOMAIN o /\ "tail" \in DOMAIN h
      BY <1>2 DEF Images
    <3>2. PICK t2 : t2 = WriteCell(h.tail, e + 2, pay)
      OBVIOUS
    <3>3. w = [h EXCEPT !.tail = t2]
      BY <2>2, <3>2
    <3>4. QED
      BY <3>1, <3>2, <3>3
  <2> HIDE DEF e, pay
  <2>4. LET u == WriteCell(h.tail, e + 2, pay)
        IN  [h EXCEPT !.tail = u] \in Images /\ Len(u) = e + 2 /\ Sound([h EXCEPT !.tail = u])
    BY <1>1, <1>2, <2>1, SoundBehind
  <2>5. QED
    BY <2>2, <2>3, <2>4
<1>4. t \in Images /\ t.tail = Resize(w.tail, e + 2) /\ Sound(t)
  <2> HIDE DEF w
  <2>1. t = [w EXCEPT !.tail = Resize(w.tail, e + 2)]
    BY DEF WithLength
  <2>2. /\ Resize(w.tail, e + 2) \in Seq(Cells) /\ Len(Resize(w.tail, e + 2)) = e + 2
        /\ \A k \in 1..(e + 2) : Resize(w.tail, e + 2)[k] = w.tail[k]
    <3>1. w.tail \in Seq(Cells) /\ e + 2 \in Nat
      BY <1>1, <1>3 DEF Images
    <3>2. /\ Resize(w.tail, e + 2) \in Seq(Cells) /\ Len(Resize(w.tail, e + 2)) = e + 2
          /\ \A k \in 1..(e + 2) :
               Resize(w.tail, e + 2)[k] = IF k <= Len(w.tail) THEN w.tail[k] ELSE Zero
      BY <3>1, ResizeFacts
    <3>3. \A k \in 1..(e + 2) : k <= Len(w.tail)
      BY <1>3, <3>1
    <3>4. QED
      BY <3>2, <3>3
  <2>3. t \in Images /\ t.tail = Resize(w.tail, e + 2) /\ t.ign = w.ign
    BY <2>1, <2>2, <1>3 DEF Images
  <2>4. Sound(t)
    BY <1>1, <1>3, <2>2, <2>3 DEF Sound, LauncherFindsPayload
  <2>5. QED
    BY <2>3, <2>4
<1>5. Sound(Configured(o, p))
  <2>1. Configured(o, p) = [t EXCEPT !.ign = [by |-> p, skip |-> e + 2]]
    BY DEF Configured, WithConfig, Trailed
  <2>2. PICK i \in Nat \ {0}, j \in Nat \ {0} : i = e + 1 /\ j = e + 2 /\ j = i + 1
    BY <1>1
  <2>3. t.tail = Resize(WriteCell(WriteCell(o.tail, i, hdr), j, pay), j)
    BY <1>2, <1>3, <1>4, <2>2
  <2>4. Len(t.tail) = j /\ t.tail[j] = pay
    <3>1. i = Len(o.tail) + 1
      BY <2>2
    <3> HIDE DEF hdr, pay, t, h, w
    <3>2. QED
      BY <1>1, <2>2, <2>3, <3>1, TrailerTail
  <2> HIDE DEF t
  <2>5. /\ Configured(o, p).tail = t.tail
        /\ Configured(o, p).ign = [by |-> p, skip |-> j]
    BY <1>4, <2>1, <2>2 DEF Images
  <2>6. QED
    BY <2>2, <2>4, <2>5 DEF Sound, LauncherFindsPayload
<1>6. QED
  BY <1>2, <1>3, <1>4, <1>5

LEMMA SoundStep ==
  ASSUME SafeInv, Apart, OldSound, NEW p \in Bakers, OwnSound(p), Bake(p) \/ Kill(p)
  PROVE  OwnSound(p)'
<1>1. Entry(p) /\ Progress(p) /\ TypeOK /\ Mine(p) \subseteq Inodes
  BY DEF SafeInv, TypeInv, Mine, Inodes
<1> DEFINE Done == \A i \in Mine(p) : Sound(data'[i])
           o == original(p)
<1>0. Done => OwnSound(p)'
  BY DEF OwnSound, Sound, LauncherFindsPayload, Mine
\* A write of a sound image, or of none, where all there is is sound.
<1>2. ASSUME NEW img, Write(p, img), Sound(img), \A i \in Mine(p) : Sound(data[i]) PROVE Done
  BY <1>1, <1>2 DEF Write, TypeOK
<1>3. ASSUME data' = data, \A i \in Mine(p) : Sound(data[i]) PROVE Done
  BY <1>3
<1>4. Nobody \notin Owners /\ Torn \notin Owners
  BY OwnerAssumption DEF Owners
<1>5. Sound(EmptyFile)
  BY <1>4 DEF Sound, EmptyFile, Blank
<1>6. /\ pc[p] \in Sourced =>
           o \in Images /\ Sound(o) /\ o.ign.by \notin Bakers /\ Len(o.tail) \in Nat
      /\ pc[p] \in Holding => target[p] \in Mine(p) /\ Image(p) \in Images
  BY <1>1 DEF Entry, Image, original, TypeOK, Inodes, Images, OldSound
<1>7. pc[p] \in Reading => data[source[p]] = o /\ dir[input(p)] \in OldInodes
  BY <1>1 DEF Entry, original, Reading, Sourced
<1>8. pc[p] \in Reading => Sound(data[source[p]])
  BY <1>6, <1>7 DEF Sourced
\* The copy, which may stop half way.
<1>9. CASE CopyFirst(p)
  <2>1. /\ pc[p] = "copyFirst" /\ pc[p] \in Sourced /\ data[source[p]] = o
        /\ \A i \in Mine(p) : Sound(data[i])
        /\ target[p] \in Mine(p) /\ dir[output(p)] = target[p] /\ dir[input(p)] \in OldInodes
    BY <1>1, <1>7, <1>9 DEF CopyFirst, At, OwnSound, HalfCopy, Reading, Sourced, Entry, Holding
  <2>2. CASE UNCHANGED data
    BY <1>0, <1>3, <2>1, <2>2
  <2>3. CASE (\E part \in Prefixes(o) : Write(p, part)) /\ Goto(p, "copyRest")
    <3>1. PICK part \in Prefixes(o) : Write(p, part)
      BY <2>3
    <3>2. /\ data'[target[p]] = part
          /\ \A i \in Mine(p) : i # target[p] => data'[i] = data[i]
      BY <1>1, <2>1, <3>1 DEF Write, TypeOK
    <3>3. part.ign.by \notin Bakers
      BY <1>6, <2>1, PrefixFacts, OwnerAssumption DEF Blank, TornConfig
    <3>4. pc'[p] = "copyRest" /\ dir' = dir /\ job' = job
      BY <1>1, <1>9, <2>3 DEF CopyFirst, Goto, TypeOK
    <3>5. original(p)' = o
      BY <2>1, OriginalStays
    <3>6. HalfCopy(p, target[p])'
      BY <2>1, <3>2, <3>3, <3>4, <3>5, <1>9 DEF HalfCopy, output, input, CopyFirst
    <3>7. ASSUME NEW i \in Mine(p), i # target[p]
          PROVE  Sound(data'[i])
      BY <2>1, <3>2, <3>7
    <3>8. QED
      BY <3>6, <3>7, <1>9 DEF OwnSound, Sound, LauncherFindsPayload, CopyFirst, Mine
  <2>4. QED
    BY <1>9, <2>1, <2>2, <2>3 DEF CopyFirst
<1>10. CASE CopyRest(p)
  <2>1. /\ pc[p] = "copyRest" /\ pc[p] \in Sourced /\ data[source[p]] = o /\ Sound(o)
        /\ target[p] \in Mine(p) /\ dir[output(p)] = target[p]
    BY <1>1, <1>6, <1>7, <1>10 DEF CopyRest, At, Reading, Sourced, Entry, Holding
  <2>2. CASE Write(p, data[source[p]])
    <3>1. /\ data'[target[p]] = o
          /\ \A i \in Mine(p) : i # target[p] => data'[i] = data[i]
      BY <1>1, <2>1, <2>2 DEF Write, TypeOK
    <3>2. \A i \in Mine(p) : i # target[p] => Sound(data[i])
      BY <2>1 DEF OwnSound, HalfCopy
    <3>3. QED
      BY <1>0, <2>1, <3>1, <3>2
  <2>3. CASE UNCHANGED data /\ Goto(p, "failed")
    <3>1. pc'[p] = "failed" /\ dir' = dir /\ original(p)' = o /\ output(p)' = output(p)
          /\ input(p)' = input(p) /\ dir[input(p)] \in OldInodes
      BY <1>1, <1>10, <2>1, <2>3, OriginalStays DEF CopyRest, Goto, TypeOK, Entry
    <3>2. QED
      BY <2>1, <2>3, <3>1 DEF OwnSound, HalfCopy, Sound, LauncherFindsPayload, Mine
  <2>4. QED
    BY <1>10, <2>2, <2>3 DEF CopyRest
<1>11. CASE Kill(p) /\ pc[p] = "copyRest"
  <2>1. data' = data /\ dir' = dir /\ pc'[p] = "killed"
    BY <1>1, <1>11 DEF Kill, At, Goto, TypeOK
  <2>2. original(p)' = o /\ output(p)' = output(p) /\ input(p)' = input(p)
        /\ dir[input(p)] \in OldInodes
    BY <1>1, <1>11, OriginalStays DEF Entry, Sourced, Reading
  <2>3. QED
    BY <1>11, <2>1, <2>2 DEF OwnSound, HalfCopy, Sound, LauncherFindsPayload, Mine
\* Everywhere else all that the process has made so far is sound.
<1> SUFFICES ASSUME ~CopyFirst(p), ~CopyRest(p), ~(Kill(p) /\ pc[p] = "copyRest")
             PROVE  Done
  BY <1>0, <1>9, <1>10, <1>11
<1>12. \A i \in Mine(p) : Sound(data[i])
  <2>1. pc[p] \notin {"copyRest", "failed", "killed"}
    BY DEF Bake, Kill, ResolveBinary, CheckInput, CheckOutput, RemoveOld, CloneOpen, CloneCreate,
           Clone, CopyOpen, CopyCreate, CopySync, OpenForWrite, CheckArea,
           WriteHeader, WritePayload, Truncate, EmbedIgnition, ReadArgs, WriteArgs, ArgsWritten,
           Succeed, Cleanup, Verify, Compare, WriteStep, At, Working, Copying, Patching, Verifying
  <2>2. QED
    BY <2>1 DEF OwnSound, HalfCopy
<1>27. pc[p] \in Holding => Sound(Image(p))
  BY <1>6, <1>12 DEF Image
<1>28. CASE CloneCreate(p) \/ CopyCreate(p)
  <2>1. ASSUME NEW n \in {1, 2}, Create(p, n) PROVE Done
    BY <1>1, <1>5, <1>12, <2>1 DEF Create, TypeOK
  <2>2. QED
    BY <1>3, <1>12, <2>1, <1>28 DEF CloneCreate, CopyCreate
<1>29. CASE Clone(p)
  BY <1>2, <1>3, <1>8, <1>12, <1>29 DEF Clone, At, Reading
<1> HIDE DEF o
<1>13. TornCell \in Cells
  BY DEF TornCell, Cells, Writers
\* The images that AppendTrailer and EmbedIgnition write, and their halves.
<1>14. ASSUME pc[p] = "header"
       PROVE  Sound(WithHeader(Image(p), end[p], p)) /\ Sound(TornHeader(p))
  <2>1. Image(p) = o /\ end[p] = Len(o.tail) /\ o \in Images /\ Sound(o) /\ Len(o.tail) \in Nat
    BY <1>1, <1>6, <1>14 DEF Progress, Holding, Sourced, Opened, Patching, o
  <2>2. QED
    <3>1. end[p] + 1 \in Nat /\ end[p] + 1 > Len(Image(p).tail)
      BY <2>1
    <3>2. Sound(TornHeader(p))
      BY <2>1, <3>1, <1>13, SoundBehind DEF TornHeader
    <3>3. Sound(WithHeader(Image(p), end[p], p))
      BY <2>1, TrailedFacts
    <3>4. QED
      BY <3>2, <3>3
<1>15. ASSUME pc[p] = "payload"
       PROVE  Sound(WithPayload(Image(p), end[p], p)) /\ Sound(TornPayload(p))
  <2>1. Image(p) = WithHeader(o, Len(o.tail), p) /\ end[p] = Len(o.tail) /\ o \in Images /\ Sound(o)
        /\ Len(o.tail) \in Nat
    BY <1>1, <1>6, <1>15 DEF Progress, Holding, Sourced, Opened, Patching, o
  <2>2. Image(p) \in Images /\ Sound(Image(p)) /\ Len(Image(p).tail) = end[p] + 1
    BY <2>1, TrailedFacts
  <2>3. Sound(WithPayload(Image(p), end[p], p))
    BY <2>1, TrailedFacts
  <2>4. Sound(TornPayload(p))
    <3>1. end[p] + 2 \in Nat /\ end[p] + 2 > Len(Image(p).tail)
      BY <2>1, <2>2
    <3>2. QED
      BY <2>2, <3>1, <1>13, SoundBehind DEF TornPayload
  <2>5. QED
    BY <2>3, <2>4
<1>16. ASSUME pc[p] = "truncate" PROVE Sound(WithLength(Image(p), end[p]))
  BY <1>1, <1>6, <1>16, TrailedFacts DEF Progress, Holding, Sourced, Opened, Patching, o
<1>17. ASSUME pc[p] = "embed"
       PROVE  Sound(WithConfig(Image(p), end[p], p)) /\ Sound(TornArea(p))
  <2>1. Image(p) = Trailed(o, p) /\ end[p] = Len(o.tail) /\ o \in Images /\ Sound(o)
        /\ Image(p) \in Images
    BY <1>1, <1>6, <1>17 DEF Progress, Holding, Sourced, Opened, Patching, o
  <2>2. Sound(WithConfig(Image(p), end[p], p))
    BY <2>1, TrailedFacts DEF Configured
  <2>3. Sound(TornArea(p))
    BY <2>1, <1>4 DEF TornArea, TornConfig, Sound, Images
  <2>4. QED
    BY <2>2, <2>3
<1>18. ASSUME NEW args, pc[p] = "writeArgs" PROVE Sound(WithArgs(Image(p), area[p], args))
  <2>1. Image(p) \in Images /\ Sound(Image(p))
    BY <1>6, <1>18, <1>27 DEF Holding, Sourced, Opened, Patching
  <2>2. QED
    BY <2>1 DEF WithArgs, Sound, LauncherFindsPayload, Images
<1>19. CASE WriteHeader(p)
  BY <1>2, <1>3, <1>12, <1>14, <1>19 DEF WriteHeader, WriteStep, At
<1>20. CASE WritePayload(p)
  BY <1>2, <1>3, <1>12, <1>15, <1>20 DEF WritePayload, WriteStep, At
<1>21. CASE Truncate(p)
  BY <1>2, <1>3, <1>12, <1>16, <1>21 DEF Truncate, At
<1>22. CASE EmbedIgnition(p)
  BY <1>2, <1>3, <1>12, <1>17, <1>22 DEF EmbedIgnition, WriteStep, At
<1>23. CASE WriteArgs(p)
  BY <1>2, <1>3, <1>12, <1>18, <1>23 DEF WriteArgs, TornArgs, At
<1>24. CASE Kill(p)
  BY <1>2, <1>3, <1>12, <1>14, <1>15, <1>17, <1>18, <1>24 DEF Kill, TornArgs, At
<1>25. CASE \/ ResolveBinary(p) \/ CheckInput(p) \/ CheckOutput(p) \/ RemoveOld(p)
            \/ CloneOpen(p) \/ CopyOpen(p) \/ CopySync(p) \/ OpenForWrite(p) \/ CheckArea(p)
            \/ ReadArgs(p) \/ ArgsWritten(p) \/ Succeed(p) \/ Cleanup(p) \/ Verify(p) \/ Compare(p)
  BY <1>3, <1>12, <1>25
     DEF ResolveBinary, CheckInput, CheckOutput, RemoveOld, CloneOpen, CopyOpen, CopySync,
         OpenForWrite, CheckArea, ReadArgs, ArgsWritten, Succeed, Cleanup, Verify, Compare
<1>26. QED
  BY <1>19, <1>20, <1>21, <1>22, <1>23, <1>24, <1>25, <1>28, <1>29 DEF Bake

\* What a process has made is not touched by the others.
LEMMA SoundOthers ==
  ASSUME SafeInv, Apart, NEW p \in Bakers, Bake(p) \/ Kill(p),
         NEW q \in Bakers \ {p}, OwnSound(q)
  PROVE  OwnSound(q)'
<1>1. /\ input(q) \in Paths \ {output(p)} /\ output(q) \in Paths \ {output(p)}
  BY DEF Apart, SafeInv, TypeInv, TypeOK, Job, input, output
<1>2. /\ input(q)' = input(q) /\ output(q)' = output(q) /\ pc'[q] = pc[q]
      /\ dir'[input(q)] = dir[input(q)] /\ dir'[output(q)] = dir[output(q)]
  BY <1>1, Frame DEF input, output
<1>3. \A i \in OldInodes \cup Mine(q) : data'[i] = data[i]
  BY Frame, BakeAssumption DEF Mine, Inodes
<1>4. ASSUME NEW i \in Mine(q), HalfCopy(q, i)
      PROVE  HalfCopy(q, i)'
  BY <1>2, <1>3, <1>4 DEF HalfCopy, original
<1>5. \A i \in Mine(q) : Sound(data[i]) => Sound(data[i])'
  BY <1>3 DEF Sound, LauncherFindsPayload
<1>6. QED
  BY <1>4, <1>5 DEF OwnSound, Mine

LEMMA SoundInit == Init => SoundInv
<1> SUFFICES ASSUME Init PROVE OldSound /\ \A p \in Bakers : OwnSound(p)
  BY InitSafe DEF SoundInv
<1>1. Sound(EmptyFile)
  BY OwnerAssumption DEF Sound, EmptyFile, Blank, Owners
<1>2. OldSound
  BY BakeAssumption DEF Init, Sound, Disk, OldSound, Inodes
<1>3. ASSUME NEW p \in Bakers PROVE OwnSound(p)
  BY <1>1, BakeAssumption DEF Init, OwnSound, Mine, Inodes
<1>4. QED
  BY <1>2, <1>3

LEMMA SoundNext == SoundInv /\ [Next]_vars => SoundInv'
<1> SUFFICES ASSUME SoundInv, [Next]_vars, Apart'
             PROVE  OldSound' /\ \A q \in Bakers : OwnSound(q)'
  BY NextSafe DEF SoundInv
<1>1. CASE UNCHANGED vars
  BY <1>1
     DEF vars, SoundInv, Apart, OldSound, OwnSound, HalfCopy, Sound, LauncherFindsPayload,
         original, Mine, input, output
<1>2. ASSUME NEW p \in Bakers, Bake(p) \/ Kill(p)
      PROVE  OldSound' /\ \A q \in Bakers : OwnSound(q)'
  <2>1. Apart /\ SafeInv
    BY <1>2, JobsStay DEF Apart, input, output, SoundInv
  <2>2. OldSound /\ \A q \in Bakers : OwnSound(q)
    BY <2>1 DEF SoundInv
  <2>3. \A i \in OldInodes : data'[i] = data[i]
    BY <1>2, <2>1, Frame, BakeAssumption DEF Mine, Inodes
  <2>4. OldSound'
    BY <2>2, <2>3 DEF OldSound, Sound, LauncherFindsPayload
  <2>5. QED
    BY <1>2, <2>1, <2>2, <2>4, SoundStep, SoundOthers
<1>3. QED
  BY <1>1, <1>2 DEF Next

\* An image whose Ignition area installs a launcher has the payload where that
\* launcher reads it, also after a crash between any two writes, because the
\* trailer is written first (bake.go:101-113).  The one exception is an earlier
\* bake's launcher in a copy that io.Copy has not finished (bake.go:191).
THEOREM NoLauncherDangles == Spec => []LauncherNeverDangles
<1>1. SoundInv => LauncherNeverDangles
  <2> SUFFICES ASSUME SoundInv, Apart, NEW i \in Inodes, ~Sound(data[i])
               PROVE  /\ data[i].ign.by \notin Bakers
                      /\ \E p \in Bakers : /\ pc[p] \in {"copyRest", "failed", "killed"}
                                            /\ dir[output(p)] = i
                                            /\ data[i] \in Prefixes(original(p))
    BY DEF LauncherNeverDangles, Sound, original
  <2>1. i \notin OldInodes
    BY DEF SoundInv, OldSound
  <2>2. PICK p \in Bakers : i \in Mine(p)
    BY <2>1 DEF Inodes, Mine
  <2>3. HalfCopy(p, i)
    BY <2>2 DEF SoundInv, OwnSound
  <2>4. QED
    BY <2>3 DEF HalfCopy
<1>2. QED
  BY SoundInit, SoundNext, <1>1, PTL DEF Spec

-----------------------------------------------------------------------------
(* Run and Verify agree. *)

\* An image that Verify finds nothing wrong with has the label of its release in
\* its kernel command line.
Labelled(img) == img.base \in Intact => Stock \in KernelArgs(img)

\* The reasons to be rejected for all that.
Doubtful(p) ==
  \/ original(p).base \notin Intact \/ ~original(p).whole
  \/ p \in Unfindable
  \/ job[p].kargs /\ original(p).base \in Close

\* The files there are to begin with are images as they were released or as a
\* bake left them: no write of their command lines has stopped half way.
Released == \A i \in OldInodes : Labelled(data[i])

\* What the verification of p will find, and what it has found.
Acceptable(p) ==
  /\ pc[p] \in {"writeArgs", "result"} \cup PublishedLabels => Labelled(Image(p))
  /\ pc[p] = "writeArgs" =>
       job[p].kargs /\ (Image(p).base \in Intact => Stock \in line[p])
  /\ pc[p] \in {"result"} \cup PublishedLabels /\ ~job[p].kargs =>
       Image(p).kargs = original(p).kargs
  /\ pc[p] = "compare" /\ Image(p).base \in Intact /\ Image(p).whole
       /\ p \notin Unfindable => report[p]
  /\ pc[p] = "rejected" => Doubtful(p)

AcceptInv == SafeInv /\ (Apart => Released /\ \A p \in Bakers : Acceptable(p))

\* A finished bake passes the checks of Verify.
LEMMA BakedPasses ==
  ASSUME NEW p \in Bakers \ Unfindable, NEW img, NEW o \in Images, Baked(p, img, o),
         img.base \in Intact, img.whole, Labelled(img)
  PROVE  Verdicts(img) = {TRUE}
<1> DEFINE i == Len(o.tail) + 1
<1>1. /\ i \in Nat \ {0} /\ Len(o.tail) + 2 = i + 1
      /\ img.ign.by = p /\ img.ign.skip = i + 1
  BY DEF Baked, Images
<1>2. TrailerComplete(img, i) /\ LauncherFindsPayload(img)
  BY DEF Baked
<1> HIDE DEF i
<1>3. i \in 1..Len(img.tail) /\ img.tail[i + 1] = <<"payload", p>>
  BY <1>1, <1>2 DEF TrailerComplete, Headers, LauncherFindsPayload
<1>4. img.tail[i + 1] = <<"payload", img.tail[i][2]>>
  BY <1>2 DEF TrailerComplete
<1>5. img.tail[i][2] = p
  BY <1>3, <1>4
<1>6. TrailerAt(img, i) /\ img.ign.by \in Owners
  BY <1>1, <1>2, <1>5 DEF TrailerAt, Owners
<1>7. VerifyOK(img)
  BY <1>1, <1>3, <1>6 DEF VerifyOK, Labelled
<1>8. QED
  BY <1>7 DEF Verdicts

\* VerifyAgainst accepts it unless two areas were written that lie too close.
LEMMA BakedAccepted ==
  ASSUME NEW img, NEW o, Untouched(img, o), NEW kargs \in BOOLEAN,
         ~kargs => img.kargs = o.kargs, ~(kargs /\ o.base \in Close)
  PROVE  Accepted(img, o) = {TRUE}
<1>1. img.base = o.base
  BY DEF Untouched
<1>2. CASE kargs
  BY <1>1, <1>2 DEF Accepted
<1>3. CASE ~kargs
  <2>1. Changed(img, o) \subseteq {0}
    BY <1>3 DEF Changed
  <2>2. QED
    BY <2>1 DEF Accepted
<1>4. QED
  BY <1>2, <1>3

\* What a bake writes at each bootloader config keeps the label.
LEMMA ArgsLabelled ==
  ASSUME NEW img \in Images, NEW a \in Areas, NEW args, Labelled(img),
         img.base \in Intact => Stock \in args
  PROVE  Labelled(WithArgs(img, a, args)) /\ WithArgs(img, a, args).base = img.base
<1>1. /\ WithArgs(img, a, args).base = img.base
      /\ WithArgs(img, a, args).kargs = [img.kargs EXCEPT ![a] = args]
      /\ img.kargs \in [Areas -> SUBSET (Owners \cup {Stock})]
  BY DEF WithArgs, Images
<1>2. CASE NumAreas = 0
  BY <1>1, <1>2 DEF Labelled, KernelArgs
<1>3. CASE NumAreas # 0
  <2>1. 1 \in Areas
    BY <1>3, IsoAssumption DEF Areas
  <2>2. WithArgs(img, a, args).kargs[1] = IF a = 1 THEN args ELSE img.kargs[1]
    BY <1>1, <2>1
  <2>3. QED
    BY <1>1, <1>3, <2>2 DEF Labelled, KernelArgs
<1>4. QED
  BY <1>2, <1>3

\* The images Run is done with, as the verification finds them.
LEMMA PublishedFacts ==
  ASSUME SafeInv, Apart, NEW p \in Bakers, pc[p] \in {"result"} \cup PublishedLabels
  PROVE  /\ dir[output(p)] = target[p] /\ dir[input(p)] \in OldInodes
         /\ original(p) \in Images /\ Baked(p, Image(p), original(p))
<1>1. pc[p] \in Holding /\ pc[p] \in Sourced
  BY DEF PublishedLabels, Holding, Sourced, Opened, Patching
<1>2. dir[output(p)] = target[p] /\ dir[input(p)] \in OldInodes
  BY <1>1 DEF SafeInv, Entry
<1>3. original(p) \in Images
  BY <1>2 DEF SafeInv, TypeInv, TypeOK, original, Inodes
<1>4. /\ Image(p) = [Configured(original(p), p) EXCEPT !.kargs = Image(p).kargs]
      /\ job[p].kargs => \A a \in Areas : p \in Image(p).kargs[a]
  BY DEF SafeInv, Progress, Looped
<1>5. QED
  BY <1>2, <1>3, <1>4, ConfiguredIsBaked

LEMMA AcceptStep ==
  ASSUME SafeInv, Apart, Released, NEW p \in Bakers, Acceptable(p), Bake(p) \/ Kill(p)
  PROVE  Acceptable(p)'
<1>1. Entry(p) /\ Progress(p) /\ TypeOK /\ OpenFiles
  BY DEF SafeInv, TypeInv
<1>2. /\ dir[input(p)] \in OldInodes => original(p)' = original(p) /\ original(p) \in Images
      /\ job'[p] = job[p]
  BY OriginalStays
<1> DEFINE Checked == {"writeArgs", "result"} \cup PublishedLabels
\* Only from the command line on is there anything to show.
<1>3. ASSUME pc'[p] \notin Checked PROVE Acceptable(p)'
  BY <1>3 DEF Acceptable, PublishedLabels, Verifying
<1>4. ASSUME NEW label, Goto(p, label) PROVE pc'[p] = label
  BY <1>1, <1>4 DEF Goto, TypeOK
<1>5. ASSUME data' = data, target' = target PROVE Image(p)' = Image(p)
  BY <1>5 DEF Image
<1>6. CASE \/ ResolveBinary(p) \/ CheckInput(p) \/ CheckOutput(p) \/ RemoveOld(p)
           \/ CloneOpen(p) \/ CloneCreate(p) \/ Clone(p) \/ CopyOpen(p) \/ CopyCreate(p)
           \/ CopyFirst(p) \/ CopyRest(p) \/ CopySync(p) \/ OpenForWrite(p) \/ CheckArea(p)
           \/ WriteHeader(p) \/ WritePayload(p) \/ Truncate(p) \/ EmbedIgnition(p)
           \/ Cleanup(p) \/ Kill(p)
  <2>1. pc'[p] \in (Working \cup Final) \ Checked
    BY <1>4, <1>6
       DEF ResolveBinary, CheckInput, CheckOutput, RemoveOld, CloneOpen, CloneCreate, Clone,
           CopyOpen, CopyCreate, CopyFirst, CopyRest, CopySync, OpenForWrite, CheckArea,
           WriteHeader, WritePayload, Truncate, EmbedIgnition, WriteStep, Cleanup, Kill,
           PublishedLabels, Verifying, Working, Copying, Patching, Final
  <2>2. QED
    BY <2>1, <1>3
<1>7. CASE ReadArgs(p)
  <2>1. /\ Image(p) = Configured(original(p), p) /\ dir[input(p)] \in OldInodes
        /\ original(p) \in Images /\ Labelled(original(p))
    BY <1>1, <1>2, <1>7
       DEF ReadArgs, At, Progress, Entry, Sourced, Patching, Released, original
  <2>2. Image(p).base = original(p).base /\ Image(p).kargs = original(p).kargs
    BY <2>1 DEF Configured, WithConfig, Trailed, WithLength, WithPayload, WithHeader, Images
  <2>3. Labelled(Image(p)) /\ Image(p)' = Image(p) /\ original(p)' = original(p)
    BY <2>1, <2>2, <1>2, <1>5, <1>7 DEF Labelled, KernelArgs, ReadArgs
  <2>4. pc'[p] = "writeArgs" => job[p].kargs /\ line'[p] = KernelArgs(Image(p)) \cup {p}
    BY <1>1, <1>4, <1>7 DEF ReadArgs, TypeOK
  <2>5. pc'[p] \in {"result", "writeArgs", "cleanup"}
    BY <1>4, <1>7 DEF ReadArgs
  <2>6. QED
    BY <2>2, <2>3, <2>4, <2>5, <1>2 DEF Acceptable, Labelled, PublishedLabels, Verifying
<1>8. CASE WriteArgs(p)
  <2>1. CASE Write(p, WithArgs(Image(p), area[p], line[p])) /\ UNCHANGED pc
    <3>1. Image(p)' = WithArgs(Image(p), area[p], line[p])
      BY <1>8, <2>1, WriteImage DEF WriteArgs, At, Holding, Opened
    <3>2. Image(p) \in Images /\ area[p] \in Areas /\ pc[p] = "writeArgs"
      BY <1>1, <1>8 DEF WriteArgs, At, OpenFiles, Opened, TypeOK, Image
    <3>3. Labelled(Image(p)) /\ job[p].kargs /\ (Image(p).base \in Intact => Stock \in line[p])
      BY <3>2 DEF Acceptable
    <3>4. Labelled(Image(p)') /\ Image(p)'.base = Image(p).base
      BY <3>1, <3>2, <3>3, ArgsLabelled
    <3>5. line' = line /\ pc' = pc
      BY <1>8, <2>1 DEF WriteArgs
    <3>6. QED
      BY <3>2, <3>3, <3>4, <3>5, <1>2 DEF Acceptable, Labelled, KernelArgs, PublishedLabels, Verifying
  <2>2. CASE Goto(p, "cleanup")
    BY <2>2, <1>3, <1>4 DEF PublishedLabels, Verifying
  <2>3. QED
    BY <1>8, <2>1, <2>2 DEF WriteArgs
\* What is read stays.
<1>13. ASSUME pc[p] \in Checked, data' = data, target' = target
       PROVE  Image(p)' = Image(p) /\ original(p)' = original(p) /\ Labelled(Image(p))
  <2>1. dir[input(p)] \in OldInodes
    BY <1>1, <1>13 DEF Entry, Sourced, Patching, PublishedLabels
  <2>2. QED
    BY <2>1, <1>2, <1>5, <1>13 DEF Acceptable
<1>9. CASE ArgsWritten(p)
  <2>1. /\ Labelled(Image(p)) /\ Image(p)' = Image(p) /\ original(p)' = original(p)
        /\ pc'[p] = "result" /\ job[p].kargs
    BY <1>4, <1>9, <1>13 DEF ArgsWritten, At, Acceptable
  <2>2. QED
    BY <2>1, <1>2 DEF Acceptable, Labelled, KernelArgs, PublishedLabels, Verifying
<1>14. CASE Succeed(p)
  <2>1. /\ Labelled(Image(p)) /\ Image(p)' = Image(p) /\ original(p)' = original(p)
        /\ pc'[p] \in {"verify", "cleanup"}
        /\ ~job[p].kargs => Image(p).kargs = original(p).kargs
    BY <1>4, <1>13, <1>14 DEF Succeed, At, Acceptable
  <2>2. QED
    BY <2>1, <1>2 DEF Acceptable, Labelled, KernelArgs, PublishedLabels, Verifying
<1>10. CASE Verify(p)
  <2>1. /\ pc[p] \in PublishedLabels /\ Labelled(Image(p)) /\ Image(p)' = Image(p)
        /\ original(p)' = original(p) /\ pc'[p] \in {"compare", "unverified"}
        /\ ~job[p].kargs => Image(p).kargs = original(p).kargs
    BY <1>4, <1>10, <1>13 DEF Verify, At, Acceptable, PublishedLabels, Verifying
  <2>2. pc'[p] = "compare" => report'[p] \in Verdicts(data[dir[output(p)]])
    BY <1>1, <1>4, <1>10 DEF Verify, TypeOK
  <2>3. Image(p).base \in Intact /\ Image(p).whole /\ p \notin Unfindable =>
          Verdicts(data[dir[output(p)]]) = {TRUE}
    BY <2>1, PublishedFacts, BakedPasses DEF Image
  <2>4. pc'[p] = "compare" /\ Image(p)'.base \in Intact /\ Image(p)'.whole
          /\ p \notin Unfindable => report'[p]
    <3>1. pc'[p] = "compare" /\ Image(p).base \in Intact /\ Image(p).whole
            /\ p \notin Unfindable => report'[p] \in {TRUE}
      BY <2>2, <2>3, Zenon
    <3>2. QED
      BY <2>1, <3>1, Zenon
  <2>5. Labelled(Image(p))' /\ (~job'[p].kargs => Image(p)'.kargs = original(p)'.kargs)
    BY <2>1, <1>2 DEF Labelled, KernelArgs
  <2>6. pc'[p] # "writeArgs" /\ pc'[p] # "rejected"
    BY <2>1
  <2>7. QED
    BY <2>4, <2>5, <2>6, Zenon DEF Acceptable
<1>11. CASE Compare(p)
  <2>1. /\ pc[p] = "compare" /\ Labelled(Image(p)) /\ Image(p)' = Image(p)
        /\ original(p)' = original(p) /\ pc'[p] \in {"ok", "rejected", "unverified"}
        /\ ~job[p].kargs => Image(p).kargs = original(p).kargs
    BY <1>4, <1>11, <1>13 DEF Compare, At, Acceptable, PublishedLabels, Verifying
  <2>2. /\ dir[output(p)] = target[p]
        /\ Untouched(Image(p), original(p))
        /\ Image(p).base = original(p).base /\ Image(p).whole = original(p).whole
    BY <2>1, PublishedFacts DEF Baked, Untouched, PublishedLabels, Verifying
  <2>3. ASSUME pc'[p] = "rejected", ~Doubtful(p) PROVE FALSE
    <3>1. PICK untouched \in Accepted(Image(p), original(p)) :
            Goto(p, IF report[p] /\ untouched THEN "ok" ELSE "rejected")
      BY <2>2, <2>3, <1>4, <1>11 DEF Compare, Image, original
    <3>2. job[p].kargs \in BOOLEAN
      BY <1>1 DEF TypeOK, Job
    <3>3. Accepted(Image(p), original(p)) = {TRUE}
      BY <2>1, <2>2, <2>3, <3>2, BakedAccepted DEF Doubtful
    <3>4. report[p]
      BY <2>1, <2>2, <2>3 DEF Doubtful, Acceptable
    <3>5. QED
      BY <2>3, <3>1, <3>3, <3>4, <1>4
  <2>4. Doubtful(p)' <=> Doubtful(p)
    BY <2>1, <1>2 DEF Doubtful
  <2>5. QED
    BY <2>1, <2>3, <2>4, <1>2 DEF Acceptable, Labelled, KernelArgs
<1>12. QED
  BY <1>6, <1>7, <1>8, <1>9, <1>10, <1>11, <1>14 DEF Bake

\* The image, the findings and the verdict of a process are its own.
LEMMA AcceptOthers ==
  ASSUME SafeInv, Apart, NEW p \in Bakers, Bake(p) \/ Kill(p),
         NEW q \in Bakers \ {p}, Acceptable(q)
  PROVE  Acceptable(q)'
<1>1. /\ input(q) \in Paths \ {output(p)} /\ output(q) \in Paths \ {output(p)}
  BY DEF Apart, SafeInv, TypeInv, TypeOK, Job, input, output
<1>2. /\ input(q)' = input(q) /\ pc'[q] = pc[q] /\ line'[q] = line[q] /\ target'[q] = target[q]
      /\ dir'[input(q)] = dir[input(q)] /\ job'[q] = job[q]
  BY <1>1, Frame DEF input
<1>3. report'[q] = report[q]
  BY DEF SafeInv, TypeInv, TypeOK,
         Bake, Kill, ResolveBinary, CheckInput, CheckOutput, RemoveOld, CloneOpen, CloneCreate,
         Clone, CopyOpen, CopyCreate, CopyFirst, CopyRest, CopySync, OpenForWrite, CheckArea,
         WriteHeader, WritePayload, Truncate, EmbedIgnition, ReadArgs, WriteArgs, ArgsWritten,
         Succeed, Cleanup, Verify, Compare
<1>4. \A i \in OldInodes \cup Mine(q) : data'[i] = data[i]
  BY Frame, BakeAssumption DEF Mine, Inodes
<1>5. pc[q] \in {"writeArgs", "result"} \cup PublishedLabels =>
        Image(q)' = Image(q) /\ original(q)' = original(q)
  <2>1. pc[q] \in {"writeArgs", "result"} \cup PublishedLabels =>
          pc[q] \in Holding /\ pc[q] \in Sourced
    BY DEF PublishedLabels, Holding, Sourced, Opened, Patching
  <2>2. QED
    BY <1>2, <1>4, <2>1 DEF SafeInv, Entry, Image, original
<1>6. CASE pc[q] \in {"writeArgs", "result"} \cup PublishedLabels
  BY <1>2, <1>3, <1>5, <1>6 DEF Acceptable, Doubtful, Labelled, KernelArgs
<1>7. CASE pc[q] \notin {"writeArgs", "result"} \cup PublishedLabels
  BY <1>2, <1>7 DEF Acceptable, PublishedLabels, Verifying
<1>8. QED
  BY <1>6, <1>7

LEMMA AcceptNext == AcceptInv /\ [Next]_vars => AcceptInv'
<1> SUFFICES ASSUME AcceptInv, [Next]_vars PROVE AcceptInv'
  OBVIOUS
<1>1. SafeInv /\ SafeInv'
  BY NextSafe DEF AcceptInv
<1>2. CASE UNCHANGED vars
  BY <1>1, <1>2
     DEF AcceptInv, Released, Acceptable, Doubtful, Labelled, KernelArgs, Image, Apart, vars, input, output,
         original
<1>3. ASSUME NEW p \in Bakers, Bake(p) \/ Kill(p), Apart'
      PROVE  Released' /\ \A q \in Bakers : Acceptable(q)'
  <2>1. Apart
    BY <1>3, JobsStay DEF Apart, input, output
  <2>2. Released /\ \A q \in Bakers : Acceptable(q)
    BY <2>1 DEF AcceptInv
  <2>3. \A i \in OldInodes : data'[i] = data[i]
    BY <1>1, <1>3, <2>1, Frame, BakeAssumption DEF Mine, Inodes
  <2>4. Released'
    BY <2>2, <2>3 DEF Released, Labelled, KernelArgs
  <2>5. QED
    BY <1>1, <1>3, <2>1, <2>2, <2>4, AcceptStep, AcceptOthers
<1>4. QED
  BY <1>1, <1>2, <1>3 DEF AcceptInv, Next

\* A bake passes its own verification: what Run writes and what Verify and
\* VerifyAgainst read back agree (bake.go:60-138, verify.go:43-252).  It may be
\* rejected only for an original that is not whole or that Verify finds at fault,
\* a payload that ReadTrailer's walk does not find (trailer.go:97), or, with
\* --karg, areas less than 4096 bytes apart (verify.go:243).
THEOREM OwnBakesAccepted == Spec /\ Released => []VerifierAccepts
<1>1. Init /\ Released => AcceptInv
  BY InitSafe DEF AcceptInv, Acceptable, Init, PublishedLabels, Verifying
<1>2. AcceptInv => VerifierAccepts
  BY DEF AcceptInv, Acceptable, Doubtful, VerifierAccepts, original
<1>3. QED
  BY <1>1, AcceptNext, <1>2, PTL DEF Spec

-----------------------------------------------------------------------------
(* What was at an output path before.  The processes need not keep apart:  *)
(* they may race for one path, and one may read what another writes.       *)

\* Past copyFile's os.Remove.
Cleared == (Copying \ {"remove"}) \cup Patching \cup Verifying

\* What lets a process past an old file: --force, or a Stat that failed on it.
Passes(p) == job[p].force \/ missed[p]

\* A process that has passed the removal, or that may do so without either, has
\* no old file at its output path, and it never writes to one.
OldSpared(p) ==
  /\ pc[p] \in Cleared => dir[output(p)] \notin OldInodes
  /\ pc[p] = "remove" /\ ~Passes(p) => dir[output(p)] \notin OldInodes
  /\ target[p] \notin OldInodes

ForceInv == TypeInv /\ (Replaceable => \A p \in Bakers : OldSpared(p))

\* The old files keep what they hold; a path stops naming one only where a
\* process that passes it removes it, and no path comes to name another.
LEMMA OldFilesKept ==
  ASSUME TypeInv, Replaceable, NEW p \in Bakers, OldSpared(p), Bake(p) \/ Kill(p)
  PROVE  /\ \A i \in OldInodes : data'[i] = data[i]
         /\ \A x \in Paths : dir'[x] \in OldInodes => dir'[x] = dir[x]
         /\ \A x \in Paths : dir[x] \in OldInodes /\ dir'[x] # dir[x] =>
              x = output(p) /\ Passes(p)
<1>1. TypeOK /\ output(p) \in Paths
  BY DEF TypeInv, TypeOK, Job, output
<1>2. NoInode \notin OldInodes /\ OldInodes \subseteq Inodes
      /\ <<p, 1>> \notin OldInodes /\ <<p, 2>> \notin OldInodes
  BY BakeAssumption DEF Inodes
<1> DEFINE Goal == /\ \A i \in OldInodes : data'[i] = data[i]
                   /\ \A x \in Paths : dir'[x] \in OldInodes => dir'[x] = dir[x]
                   /\ \A x \in Paths : dir[x] \in OldInodes /\ dir'[x] # dir[x] =>
                        x = output(p) /\ Passes(p)
<1>3. CASE dir' = dir /\ data' = data
  BY <1>3
<1>4. ASSUME NEW img, Write(p, img), dir' = dir PROVE Goal
  BY <1>1, <1>2, <1>4 DEF Write, OldSpared, TypeOK
<1>5. ASSUME NEW n \in {1, 2}, Create(p, n), pc[p] \in {"cloneCreate", "copyCreate"} PROVE Goal
  <2>1. dir[output(p)] \notin OldInodes
    BY <1>5 DEF OldSpared, Cleared, Copying
  <2>2. QED
    BY <1>1, <1>2, <1>5, <2>1 DEF Create, TypeOK
<1>6. ASSUME Unlink(p), data' = data, pc[p] \in {"remove", "clone", "cleanup"} PROVE Goal
  <2>1. dir[output(p)] \in OldInodes => Passes(p)
    BY <1>6 DEF OldSpared, Cleared, Copying, Patching
  <2>2. QED
    BY <1>1, <1>2, <1>6, <2>1 DEF Unlink, TypeOK
<1>7. CASE ResolveBinary(p) \/ CheckInput(p) \/ CheckOutput(p) \/ CloneOpen(p) \/ CopyOpen(p)
           \/ CopySync(p) \/ OpenForWrite(p) \/ CheckArea(p) \/ ReadArgs(p) \/ ArgsWritten(p)
           \/ Succeed(p) \/ Verify(p) \/ Compare(p)
  BY <1>3, <1>7
     DEF ResolveBinary, CheckInput, CheckOutput, CloneOpen, CopyOpen, CopySync, OpenForWrite,
         CheckArea, ReadArgs, ArgsWritten, Succeed, Verify, Compare
<1>8. CASE RemoveOld(p) \/ Cleanup(p)
  BY <1>6, <1>8 DEF RemoveOld, Cleanup, At
<1>9. CASE CloneCreate(p) \/ CopyCreate(p)
  BY <1>3, <1>5, <1>9 DEF CloneCreate, CopyCreate, At
<1>10. CASE Clone(p)
  BY <1>4, <1>6, <1>10 DEF Clone, At
<1>11. CASE CopyFirst(p) \/ CopyRest(p) \/ Truncate(p) \/ WriteArgs(p)
  BY <1>3, <1>4, <1>11 DEF CopyFirst, CopyRest, Truncate, WriteArgs
<1>12. CASE WriteHeader(p) \/ WritePayload(p) \/ EmbedIgnition(p)
  BY <1>3, <1>4, <1>12 DEF WriteHeader, WritePayload, EmbedIgnition, WriteStep
<1>13. CASE Kill(p)
  BY <1>3, <1>4, <1>13 DEF Kill
<1>14. QED
  BY <1>7, <1>8, <1>9, <1>10, <1>11, <1>12, <1>13 DEF Bake

\* A Stat that failed is not forgotten.
LEMMA MissedStays ==
  ASSUME TypeInv, NEW p \in Bakers, Bake(p) \/ Kill(p)
  PROVE  /\ \A q \in Bakers : missed[q] => missed'[q]
         /\ \A q \in Bakers \ {p} : missed'[q] = missed[q]
<1>1. missed \in [Bakers -> BOOLEAN]
  BY DEF TypeInv, TypeOK
<1>2. CASE CheckOutput(p)
  BY <1>1, <1>2 DEF CheckOutput
<1>3. CASE ~CheckOutput(p)
  <2>1. missed' = missed
    BY <1>3
       DEF Bake, Kill, ResolveBinary, CheckInput, RemoveOld, CloneOpen, CloneCreate,
           Clone, CopyOpen, CopyCreate, CopyFirst, CopyRest, CopySync, OpenForWrite, CheckArea,
           WriteHeader, WritePayload, Truncate, EmbedIgnition, ReadArgs, WriteArgs, ArgsWritten,
           Succeed, Cleanup, Verify, Compare
  <2>2. QED
    BY <2>1
<1>4. QED
  BY <1>2, <1>3

LEMMA SparedStep ==
  ASSUME TypeInv, Replaceable, NEW p \in Bakers, OldSpared(p), Bake(p) \/ Kill(p)
  PROVE  OldSpared(p)'
<1>1. TypeOK /\ output(p) \in Paths /\ output(p)' = output(p) /\ job' = job
  BY JobsStay DEF TypeInv, TypeOK, Job, output
<1>2. NoInode \notin OldInodes /\ <<p, 1>> \notin OldInodes /\ <<p, 2>> \notin OldInodes
  BY BakeAssumption DEF Inodes
<1>3. dir[output(p)] \notin OldInodes => dir'[output(p)] \notin OldInodes
  BY <1>1, OldFilesKept
<1>17. missed \in [Bakers -> BOOLEAN] /\ (missed[p] => missed'[p])
  BY MissedStays DEF TypeInv, TypeOK
<1> USE DEF OldSpared, Passes, Goto, At, Cleared, Copying, Patching, Verifying, TypeOK
<1>4. CASE ResolveBinary(p) \/ CheckInput(p)
  BY <1>1, <1>3, <1>4, <1>17 DEF ResolveBinary, CheckInput
<1>5. CASE CheckOutput(p)
  BY <1>1, <1>2, <1>3, <1>5, <1>17 DEF CheckOutput
<1>6. CASE RemoveOld(p)
  <2>1. dir'[output(p)] \notin OldInodes
    BY <1>1, <1>2, <1>3, <1>6, <1>17 DEF RemoveOld, Unlink, Replaceable
  <2>2. QED
    BY <1>1, <1>6, <2>1 DEF RemoveOld
<1>7. CASE CloneOpen(p) \/ CopyOpen(p)
  BY <1>1, <1>3, <1>7, <1>17 DEF CloneOpen, CopyOpen
<1>8. CASE CloneCreate(p) \/ CopyCreate(p)
  BY <1>1, <1>2, <1>3, <1>8, <1>17 DEF CloneCreate, CopyCreate, Create
<1>9. CASE Clone(p) \/ CopyFirst(p) \/ CopyRest(p) \/ CopySync(p)
  BY <1>1, <1>3, <1>9, <1>17 DEF Clone, CopyFirst, CopyRest, CopySync
<1>10. CASE OpenForWrite(p)
  BY <1>1, <1>3, <1>10, <1>17 DEF OpenForWrite
<1>11. CASE CheckArea(p) \/ Truncate(p) \/ ReadArgs(p)
  BY <1>1, <1>3, <1>11, <1>17 DEF CheckArea, Truncate, ReadArgs
<1>12. CASE WriteHeader(p) \/ WritePayload(p) \/ EmbedIgnition(p)
  BY <1>1, <1>3, <1>12, <1>17 DEF WriteHeader, WritePayload, EmbedIgnition, WriteStep
<1>13. CASE WriteArgs(p) \/ ArgsWritten(p) \/ Succeed(p) \/ Cleanup(p)
  BY <1>1, <1>3, <1>13, <1>17 DEF WriteArgs, ArgsWritten, Succeed, Cleanup
<1>14. CASE Verify(p) \/ Compare(p)
  BY <1>1, <1>3, <1>14, <1>17 DEF Verify, Compare
<1>15. CASE Kill(p)
  BY <1>1, <1>3, <1>15, <1>17 DEF Kill
<1>16. QED
  BY <1>4, <1>5, <1>6, <1>7, <1>8, <1>9, <1>10, <1>11, <1>12, <1>13, <1>14, <1>15 DEF Bake

LEMMA ForceNext == ForceInv /\ [Next]_vars => ForceInv'
<1> SUFFICES ASSUME ForceInv, [Next]_vars PROVE ForceInv'
  OBVIOUS
<1>1. TypeInv /\ TypeInv'
  BY NextTyped DEF ForceInv
<1>2. CASE UNCHANGED vars
  BY <1>1, <1>2 DEF ForceInv, Replaceable, OldSpared, Passes, vars, output
<1>3. ASSUME NEW p \in Bakers, Bake(p) \/ Kill(p), Replaceable', NEW q \in Bakers
      PROVE  OldSpared(q)'
  <2>1. Replaceable /\ job' = job
    BY <1>1, <1>3, JobsStay, MissedStays DEF Replaceable, output
  <2>2. OldSpared(p) /\ OldSpared(q)
    BY <2>1 DEF ForceInv
  <2>3. CASE q = p
    BY <1>1, <1>3, <2>1, <2>2, <2>3, SparedStep
  <2>4. CASE q # p
    <3>1. pc'[q] = pc[q] /\ target'[q] = target[q]
      BY <1>1, <1>3, <2>4
         DEF TypeInv, TypeOK, Goto, OpenSource, Create,
             Bake, Kill, ResolveBinary, CheckInput, CheckOutput, RemoveOld, CloneOpen, CloneCreate,
             Clone, CopyOpen, CopyCreate, CopyFirst, CopyRest, CopySync, OpenForWrite, CheckArea,
             WriteHeader, WritePayload, Truncate, EmbedIgnition, ReadArgs, WriteArgs, ArgsWritten,
             Succeed, Cleanup, Verify, Compare, WriteStep
    <3>2. output(q) \in Paths /\ output(q)' = output(q) /\ missed'[q] = missed[q]
      BY <1>1, <1>3, <2>1, <2>4, MissedStays DEF TypeInv, TypeOK, Job, output
    <3>3. dir[output(q)] \notin OldInodes => dir'[output(q)] \notin OldInodes
      BY <1>1, <1>3, <2>1, <2>2, <3>2, OldFilesKept
    <3>4. QED
      BY <2>1, <2>2, <3>1, <3>2, <3>3 DEF OldSpared, Passes
  <2>5. QED
    BY <2>3, <2>4
<1>4. QED
  BY <1>1, <1>2, <1>3 DEF ForceInv, Next

\* A file that was at an output path before stays there, content included,
\* unless a bake of that path was given --force or its Stat failed (bake.go:158):
\* however many processes bake, and also when they race for one path
\* (bake.go:65-72, clone_linux.go).
THEOREM OldOutputKept == Spec => ForceNeeded
<1>1. Init => ForceInv
  BY InitTyped, BakeAssumption
     DEF Init, ForceInv, OldSpared, Cleared, Copying, Patching, Verifying, Inodes
<1>2. ForceInv /\ [Next]_vars =>
        [Replaceable => \A x \in Outputs :
           /\ \A p \in Bakers : output(p) = x => ~job[p].force /\ ~missed[p]
           /\ dir[x] \in OldInodes
           => dir'[x] = dir[x] /\ data'[dir[x]] = data[dir[x]]]_vars
  <2> SUFFICES ASSUME ForceInv, Replaceable, Next, NEW x \in Outputs,
                      \A p \in Bakers : output(p) = x => ~job[p].force /\ ~missed[p],
                      dir[x] \in OldInodes
               PROVE  dir'[x] = dir[x] /\ data'[dir[x]] = data[dir[x]]
    OBVIOUS
  <2>1. PICK p \in Bakers : Bake(p) \/ Kill(p)
    BY DEF Next
  <2>2. x \in Paths
    BY DEF ForceInv, TypeInv, TypeOK, Outputs, Job, output
  <2>3. QED
    BY <2>1, <2>2, OldFilesKept DEF ForceInv, Passes
<1>3. QED
  BY <1>1, ForceNext, <1>2, PTL DEF Spec, ForceNeeded

-----------------------------------------------------------------------------
(* BakeRun implements BakePromise.  Each step of a process that keeps apart *)
(* is a step of its own phase and artefact, or a stutter; it leaves those   *)
(* of the others alone.                                                     *)

\* Which phase each label belongs to.
LEMMA Phases ==
  /\ \A l \in Before : phaseOf(l) = "checking"
  /\ \A l \in Copying \ {"remove"} : phaseOf(l) = "copying"
  /\ \A l \in Patching : phaseOf(l) = "patching"
  /\ \A l \in PublishedLabels : phaseOf(l) = "published"
  /\ phaseOf("failed") = "failed" /\ phaseOf("killed") = "killed"
BY DEF phaseOf, Before, Copying, Patching, PublishedLabels, Verifying

\* An original, or a part of one, is not its own baked form: nothing lies where
\* the launcher of that form reads.
LEMMA CopyNotBaked ==
  ASSUME NEW o \in Images, NEW p \in Bakers, NEW img \in Copies(o)
  PROVE  ~(img.ign.by = p /\ img.ign.skip = Len(o.tail) + 2 /\ LauncherFindsPayload(img))
<1>1. Nobody # p /\ p \in Owners /\ Len(o.tail) \in Nat
  BY OwnerAssumption DEF Owners, Images
<1>2. CASE img = EmptyFile
  BY <1>1, <1>2 DEF EmptyFile, Blank
<1>3. CASE img = o \/ img \in Prefixes(o)
  <2>1. img \in Images /\ Len(img.tail) <= Len(o.tail) /\ Len(img.tail) \in Nat
    BY <1>1, <1>3, PrefixFacts DEF Images
  <2>2. QED
    BY <1>1, <2>1 DEF LauncherFindsPayload
<1>4. QED
  BY <1>2, <1>3 DEF Copies

-----------------------------------------------------------------------------
(* The artefact at the output path. *)

\* What is at the output path, before and after a step of its own process.
LEMMA ArtefactSeen ==
  ASSUME SafeInv, Apart, NEW p \in Bakers, Bake(p) \/ Kill(p)
  PROVE  /\ dir[output(p)] = NoInode => artefactOf(p) = "absent"
         /\ dir'[output(p)] = NoInode => artefactOf(p)' = "absent"
         /\ dir[output(p)] \in Mine(p) => artefactOf(p) \in {"debris", "baked"}
         /\ dir'[output(p)] \in Mine(p) => artefactOf(p)' \in {"debris", "baked"}
         /\ /\ dir'[output(p)] \in Mine(p)
            /\ data'[dir'[output(p)]] \in Copies(original(p))
            => artefactOf(p)' = "debris"
         /\ /\ dir' = dir
            /\ dir[output(p)] # NoInode => data'[dir[output(p)]] = data[dir[output(p)]]
            => artefactOf(p)' = artefactOf(p)
<1>1. Entry(p) /\ Entry(p)' /\ TypeOK
  BY EntryStep DEF SafeInv, TypeInv
<1>2. /\ input(p)' = input(p) /\ output(p)' = output(p) /\ job'[p] = job[p]
      /\ dir'[input(p)] = dir[input(p)]
      /\ dir[input(p)] \in OldInodes =>
           original(p)' = original(p) /\ original(p) \in Images
  BY <1>1, OriginalStays
<1>3. NoInode \notin Mine(p) /\ OldInodes \cap Mine(p) = {}
  BY BakeAssumption DEF Mine, Inodes
<1> HIDE DEF Mine
<1>4. dir[input(p)] \in OldInodes \cup {NoInode} /\ NoInode \notin OldInodes
  BY <1>1, BakeAssumption DEF Entry, Inodes
<1>5. /\ dir[output(p)] = NoInode => artefactOf(p) = "absent"
      /\ dir'[output(p)] = NoInode => artefactOf(p)' = "absent"
  BY <1>2, <1>4 DEF artefactOf
<1>6. /\ dir[output(p)] \in Mine(p) => artefactOf(p) \in {"debris", "baked"}
      /\ dir'[output(p)] \in Mine(p) => artefactOf(p)' \in {"debris", "baked"}
  BY <1>2, <1>3 DEF artefactOf
<1>7. ASSUME dir'[output(p)] \in Mine(p),
             data'[dir'[output(p)]] \in Copies(original(p))
      PROVE  artefactOf(p)' = "debris"
  <2>1. CASE dir[input(p)] = NoInode
    BY <2>1, <1>2, <1>3, <1>7 DEF artefactOf
  <2>2. CASE dir[input(p)] \in OldInodes
    <3>1. original(p) \in Images /\ original(p)' = original(p)
      BY <2>2, <1>2
    <3>2. ~Baked(p, data[dir[output(p)]], original(p))'
      BY <3>1, <1>2, <1>7, CopyNotBaked DEF Baked
    <3>3. QED
      BY <3>2, <1>2, <1>3, <1>7 DEF artefactOf, original
  <2>3. QED
    BY <1>4, <2>1, <2>2
<1>8. ASSUME dir' = dir,
             dir[output(p)] # NoInode => data'[dir[output(p)]] = data[dir[output(p)]]
      PROVE  artefactOf(p)' = artefactOf(p)
  BY <1>2, <1>4, <1>8 DEF artefactOf, original, Baked
<1>9. QED
  BY <1>5, <1>6, <1>7, <1>8

\* The artefact and the phase of the others.
LEMMA OthersMapped ==
  ASSUME SafeInv, Apart, NEW p \in Bakers, Bake(p) \/ Kill(p), NEW q \in Bakers \ {p}
  PROVE  pc'[q] = pc[q] /\ artefactOf(q)' = artefactOf(q)
<1>1. /\ input(q) \in Paths \ {output(p)} /\ output(q) \in Paths \ {output(p)}
  BY DEF Apart, SafeInv, TypeInv, TypeOK, Job, input, output
<1>2. /\ input(q)' = input(q) /\ output(q)' = output(q) /\ pc'[q] = pc[q] /\ job'[q] = job[q]
      /\ dir'[input(q)] = dir[input(q)] /\ dir'[output(q)] = dir[output(q)]
  BY <1>1, Frame DEF input, output
<1>3. \A i \in OldInodes \cup Mine(q) : data'[i] = data[i]
  BY Frame, BakeAssumption DEF Mine, Inodes
<1>4. /\ dir[input(q)] \in OldInodes \cup {NoInode}
      /\ dir[output(q)] \in OldInodes \cup {NoInode} \cup Mine(q)
  BY DEF SafeInv, Entry
<1>5. QED
  BY <1>2, <1>3, <1>4 DEF artefactOf, Baked

\* A step that moves p to a phase and an artefact is that step of the promise.
LEMMA MovesOne ==
  ASSUME SafeInv, Apart, NEW p \in Bakers, Bake(p) \/ Kill(p)
  PROVE  /\ Promise!Becomes(p, phaseOf(pc'[p]), artefactOf(p)')
         /\ phaseOf(pc'[p]) = phaseOf(pc[p]) /\ artefactOf(p)' = artefactOf(p)
            => UNCHANGED Promise!vars
<1>1. \A q \in Bakers \ {p} : pc'[q] = pc[q] /\ artefactOf(q)' = artefactOf(q)
  BY OthersMapped
<1>2. QED
  BY <1>1 DEF Promise!Becomes, Promise!vars

-----------------------------------------------------------------------------
(* Each step.  "Keeps" says that the step leaves the file at the output     *)
(* path alone, "Mine" that it is a file of the process.                     *)

LEMMA StepImplements ==
  ASSUME SafeInv, Apart, NEW p \in Bakers, Bake(p) \/ Kill(p)
  PROVE  Promise!Next \/ UNCHANGED Promise!vars
<1>1. SafeInv /\ TypeOK /\ Entry(p) /\ Progress(p) /\ OpenFiles
  BY DEF SafeInv, TypeInv
<1>2. /\ output(p)' = output(p) /\ output(p) \in Paths /\ writable[output(p)]
      /\ pc[p] \in Labels
  BY <1>1, OriginalStays DEF TypeOK, Labels
<1>3. NoInode \notin Mine(p) /\ OldInodes \cap Mine(p) = {} /\ Mine(p) \subseteq Inodes
      /\ <<p, 1>> \in Mine(p) /\ <<p, 2>> \in Mine(p)
  BY BakeAssumption DEF Mine, Inodes
<1> HIDE DEF Mine
<1> DEFINE phase(q) == phaseOf(pc[q])
           Step(ph, art) == phaseOf(pc'[p]) = ph /\ artefactOf(p)' = art
           Keeps == artefactOf(p)' = artefactOf(p)
\* The steps of the promise, by what they need.
<1> USE MovesOne
<1>4. ASSUME phaseOf(pc'[p]) = phase(p), Keeps PROVE UNCHANGED Promise!vars
  BY <1>1, <1>4
<1>5. ASSUME phase(p) = "checking", phaseOf(pc'[p]) = "failed", Keeps PROVE Promise!Next
  BY <1>1, <1>5 DEF Promise!Next, Promise!Refuse
<1>6. ASSUME phase(p) = "checking", Step("copying", "absent") PROVE Promise!Next
  BY <1>1, <1>6 DEF Promise!Next, Promise!Clear
<1>7. ASSUME phase(p) = "copying", Step("copying", "absent") \/ Step("copying", "debris")
      PROVE  Promise!Next
  BY <1>1, <1>7 DEF Promise!Next, Promise!Copy
<1>8. ASSUME phase(p) = "copying", phaseOf(pc'[p]) = "failed", Keeps PROVE Promise!Next
  BY <1>1, <1>8 DEF Promise!Next, Promise!FailCopy
<1>9. ASSUME phase(p) \in {"copying", "patching"}, artefactOf(p) # "absent",
             Step("patching", "debris") \/ Step("patching", "baked")
      PROVE  Promise!Next
  BY <1>1, <1>9 DEF Promise!Next, Promise!Patch
<1>10. ASSUME phase(p) = "patching", Step("failed", "absent") PROVE Promise!Next
  BY <1>1, <1>10 DEF Promise!Next, Promise!FailPatch
<1>11. ASSUME phase(p) = "patching", artefactOf(p) = "baked", Step("published", "baked")
       PROVE  Promise!Next
  BY <1>1, <1>11 DEF Promise!Next, Promise!Publish
<1>12. ASSUME phase(p) \in {"checking", "copying", "patching", "published"},
              phaseOf(pc'[p]) = "killed",
              Keeps \/ (phase(p) = "patching" /\ artefactOf(p)' \in {"debris", "baked"})
       PROVE  Promise!Next
  BY <1>1, <1>12 DEF Promise!Next, Promise!Kill
<1> HIDE MovesOne
\* What a step does to the artefact.
<1>13. ASSUME dir' = dir, data' = data PROVE Keeps
  BY <1>13, ArtefactSeen
<1>14. ASSUME NEW label, Goto(p, label) PROVE pc'[p] = label
  BY <1>1, <1>14 DEF Goto, TypeOK
<1>15. ASSUME Unlink(p) PROVE artefactOf(p)' = "absent"
  <2>1. dir'[output(p)] = NoInode
    BY <1>1, <1>2, <1>15 DEF Unlink, TypeOK
  <2>2. QED
    BY <2>1, ArtefactSeen
<1>16. ASSUME NEW n \in {1, 2}, Create(p, n), pc[p] \in {"cloneCreate", "copyCreate"}
       PROVE  artefactOf(p)' = "debris"
  <2>1. dir[output(p)] \in Mine(p) \cup {NoInode}
    BY <1>1, <1>16 DEF Entry
  <2>2. dir'[output(p)] \in Mine(p) /\ data'[dir'[output(p)]] = EmptyFile
    BY <2>1, <1>1, <1>2, <1>3, <1>16 DEF Create, TypeOK
  <2>3. EmptyFile \in Copies(original(p))
    BY DEF Copies
  <2>4. QED
    BY <2>2, <2>3, ArtefactSeen
<1>17. ASSUME pc[p] \in Holding PROVE artefactOf(p) \in {"debris", "baked"}
  <2>1. dir[output(p)] \in Mine(p)
    BY <1>1, <1>17 DEF Entry
  <2>2. QED
    BY <2>1, ArtefactSeen
<1>18. ASSUME NEW img, Write(p, img), dir' = dir, pc[p] \in Holding
       PROVE  /\ artefactOf(p)' \in {"debris", "baked"}
              /\ img \in Copies(original(p)) => artefactOf(p)' = "debris"
  <2>1. dir[output(p)] \in Mine(p) /\ dir[output(p)] = target[p]
    BY <1>1, <1>18 DEF Entry
  <2>2. dir'[output(p)] \in Mine(p) /\ data'[dir'[output(p)]] = img
    BY <2>1, <1>1, <1>3, <1>18 DEF Write, TypeOK
  <2>3. QED
    BY <2>2, ArtefactSeen
<1>19. pc[p] \in Reading => data[source[p]] = original(p)
  BY <1>1 DEF Entry, original
\* Before the copy.
<1>20. CASE ResolveBinary(p) \/ CheckInput(p) \/ CheckOutput(p)
  <2>1. /\ pc[p] \in Before /\ Keeps
        /\ pc'[p] \in {"checkInput", "checkOutput", "remove", "failed"}
    BY <1>20, <1>13, <1>14 DEF ResolveBinary, CheckInput, CheckOutput, At, Before
  <2>2. phase(p) = "checking" /\ phaseOf(pc'[p]) \in {"checking", "failed"}
    BY <2>1, Phases DEF Before
  <2>3. QED
    BY <2>1, <2>2, <1>4, <1>5
<1>21. CASE RemoveOld(p)
  <2>1. pc[p] = "remove" /\ pc'[p] = "cloneOpen" /\ artefactOf(p)' = "absent"
    BY <1>21, <1>14, <1>15 DEF RemoveOld, At
  <2>2. QED
    BY <2>1, <1>6, Phases DEF Before, Copying
\* The copy.
<1>22. CASE CloneOpen(p) \/ CopyOpen(p)
  <2>1. /\ pc[p] \in Copying \ {"remove"} /\ Keeps
        /\ pc'[p] \in Copying \ {"remove"} \/ pc'[p] = "failed"
    BY <1>22, <1>13, <1>14 DEF CloneOpen, CopyOpen, At, Copying
  <2>2. QED
    BY <2>1, <1>4, <1>8, Phases
<1>23. CASE CloneCreate(p) \/ CopyCreate(p)
  <2>1. /\ pc[p] \in Copying \ {"remove"}
        /\ \/ pc'[p] \in Copying \ {"remove"} /\ artefactOf(p)' = "debris"
           \/ (pc'[p] \in Copying \ {"remove"} \/ pc'[p] = "failed") /\ Keeps
    BY <1>23, <1>13, <1>14, <1>16 DEF CloneCreate, CopyCreate, At, Copying
  <2>2. QED
    BY <2>1, <1>4, <1>7, <1>8, Phases
<1>24. CASE Clone(p)
  <2>1. pc[p] = "clone" /\ pc[p] \in Copying \ {"remove"} /\ pc[p] \in Holding
        /\ data[source[p]] = original(p)
    BY <1>24, <1>19 DEF Clone, At, Copying, Holding, Reading
  <2>2. CASE Write(p, data[source[p]]) /\ UNCHANGED dir /\ Goto(p, "open")
    <3>1. pc'[p] \in Patching /\ artefactOf(p)' \in {"debris", "baked"}
      BY <2>1, <2>2, <1>14, <1>18 DEF Patching
    <3>2. QED
      BY <2>1, <3>1, <1>9, <1>17, Phases
  <2>3. CASE Write(p, data[source[p]]) /\ UNCHANGED dir /\ Goto(p, "copyOpen")
    <3>1. original(p) \in Copies(original(p))
      BY DEF Copies
    <3>2. pc'[p] \in Copying \ {"remove"} /\ artefactOf(p)' = "debris"
      BY <2>1, <2>3, <3>1, <1>14, <1>18 DEF Copying
    <3>3. QED
      BY <2>1, <3>2, <1>7, Phases
  <2>4. CASE Unlink(p) /\ Goto(p, "copyOpen")
    <3>1. pc'[p] \in Copying \ {"remove"} /\ artefactOf(p)' = "absent"
      BY <2>4, <1>14, <1>15 DEF Copying
    <3>2. QED
      BY <2>1, <3>1, <1>7, Phases
  <2>5. QED
    BY <1>24, <2>2, <2>3, <2>4 DEF Clone
<1>25. CASE CopyFirst(p) \/ CopyRest(p)
  <2>1. pc[p] \in Copying \ {"remove"} /\ pc[p] \in Holding /\ data[source[p]] = original(p)
    BY <1>25, <1>19 DEF CopyFirst, CopyRest, At, Copying, Holding, Reading
  <2>2. ASSUME NEW img \in Copies(original(p)), Write(p, img), UNCHANGED dir,
               Goto(p, "copyRest") \/ Goto(p, "copySync")
        PROVE  pc'[p] \in Copying \ {"remove"} /\ artefactOf(p)' = "debris"
    BY <2>1, <2>2, <1>14, <1>18 DEF Copying
  <2>3. CASE UNCHANGED <<dir, data>> /\ Goto(p, "failed")
    <3>1. pc'[p] = "failed" /\ Keeps
      BY <2>3, <1>13, <1>14
    <3>2. QED
      BY <2>1, <3>1, <1>8, Phases
  <2>4. /\ \A part \in Prefixes(original(p)) : part \in Copies(original(p))
        /\ original(p) \in Copies(original(p))
    BY DEF Copies
  <2>5. \/ \E img \in Copies(original(p)) :
             Write(p, img) /\ (Goto(p, "copyRest") \/ Goto(p, "copySync"))
        \/ UNCHANGED data /\ Goto(p, "failed")
    BY <2>1, <2>4, <1>25 DEF CopyFirst, CopyRest
  <2>6. UNCHANGED dir
    BY <1>25 DEF CopyFirst, CopyRest
  <2>7. QED
    BY <2>1, <2>2, <2>3, <2>5, <2>6, <1>7, Phases
<1>26. CASE CopySync(p)
  <2>1. pc[p] \in Copying \ {"remove"} /\ pc[p] \in Holding /\ Keeps
        /\ pc'[p] \in Patching \cup {"failed"}
    BY <1>26, <1>13, <1>14 DEF CopySync, At, Copying, Holding, Patching
  <2>2. artefactOf(p) \in {"debris", "baked"}
    BY <2>1, <1>17
  <2>3. QED
    BY <2>1, <2>2, <1>8, <1>9, Phases
\* The patch.
<1>27. CASE OpenForWrite(p) \/ CheckArea(p) \/ ReadArgs(p) \/ ArgsWritten(p)
  <2>1. pc[p] \in Patching /\ pc'[p] \in Patching /\ Keeps
    BY <1>27, <1>13, <1>14
       DEF OpenForWrite, CheckArea, ReadArgs, ArgsWritten, At, Patching
  <2>2. QED
    BY <2>1, <1>4, Phases
<1>28. CASE WriteHeader(p) \/ WritePayload(p) \/ Truncate(p) \/ EmbedIgnition(p) \/ WriteArgs(p)
  <2>1. /\ pc[p] \in Patching /\ pc[p] \in Holding /\ pc'[p] \in Patching /\ dir' = dir
    BY <1>28, <1>14
       DEF WriteHeader, WritePayload, Truncate, EmbedIgnition, WriteArgs, WriteStep, At,
           Patching, Holding, Opened
  <2>2. data' = data \/ \E img : Write(p, img)
    BY <1>28
       DEF WriteHeader, WritePayload, Truncate, EmbedIgnition, WriteArgs, WriteStep
  <2>3. Keeps \/ artefactOf(p)' \in {"debris", "baked"}
    BY <2>1, <2>2, <1>13, <1>18
  <2>4. QED
    BY <2>1, <2>3, <1>4, <1>9, <1>17, Phases
<1>29. CASE Succeed(p)
  <2>1. pc[p] = "result" /\ pc[p] \in Patching /\ pc'[p] \in {"verify", "cleanup"} /\ Keeps
    BY <1>29, <1>13, <1>14 DEF Succeed, At, Patching
  <2>2. artefactOf(p) = "baked"
    <3>1. /\ dir[input(p)] \in OldInodes /\ dir[output(p)] = target[p] /\ target[p] \in Mine(p)
          /\ Image(p) = [Configured(original(p), p) EXCEPT !.kargs = Image(p).kargs]
          /\ job[p].kargs => \A a \in Areas : p \in Image(p).kargs[a]
      BY <2>1, <1>1
         DEF SafeInv, Entry, Progress, Looped, Sourced, Holding, Opened, Patching
    <3>2. Baked(p, Image(p), original(p))
      BY <3>1, <1>1, ConfiguredIsBaked DEF TypeOK, original, Inodes
    <3>3. QED
      BY <3>1, <3>2, <1>3, BakeAssumption DEF artefactOf, original, Image, Inodes
  <2>3. QED
    BY <2>1, <2>2, <1>4, <1>11, Phases DEF PublishedLabels, Verifying, Patching
<1>30. CASE Cleanup(p)
  <2>1. pc[p] \in Patching /\ pc'[p] = "failed" /\ artefactOf(p)' = "absent"
    BY <1>30, <1>14, <1>15 DEF Cleanup, At, Patching
  <2>2. QED
    BY <2>1, <1>10, Phases
\* After it.
<1>31. CASE Verify(p) \/ Compare(p)
  <2>1. pc[p] \in PublishedLabels /\ pc'[p] \in PublishedLabels /\ Keeps
    BY <1>31, <1>13, <1>14 DEF Verify, Compare, At, PublishedLabels, Verifying
  <2>2. QED
    BY <2>1, <1>4, Phases
<1>32. CASE Kill(p)
  <2>1. pc[p] \in Working /\ pc'[p] = "killed" /\ dir' = dir
    BY <1>32, <1>14 DEF Kill
  <2>2. \/ data' = data
        \/ pc[p] \in Patching /\ pc[p] \in Holding /\ \E img : Write(p, img)
    BY <1>32 DEF Kill, At, Patching, Holding, Opened
  <2>3. Keeps \/ (pc[p] \in Patching /\ artefactOf(p)' \in {"debris", "baked"})
    BY <2>1, <2>2, <1>13, <1>18
  <2>4. phase(p) \in {"checking", "copying", "patching", "published"}
    BY <2>1, Phases DEF Working, Before, Copying, PublishedLabels
  <2>5. QED
    BY <2>1, <2>3, <2>4, <1>12, Phases
<1>33. QED
  BY <1>20, <1>21, <1>22, <1>23, <1>24, <1>25, <1>26, <1>27, <1>28, <1>29, <1>30, <1>31,
     <1>32 DEF Bake

-----------------------------------------------------------------------------
\* Processes that keep apart implement the promise: a refused bake changes
\* nothing, a failed patch leaves nothing, and success is reported only of a
\* complete image that stays, however the processes are interleaved and
\* wherever they fail or are killed (bake.go:60-138).
THEOREM RunKeepsItsPromise == Spec /\ Apart => ImplementsPromise
<1>1. Init => Promise!Init
  <2> SUFFICES ASSUME Init PROVE Promise!Init
    OBVIOUS
  <2>1. ASSUME NEW p \in Bakers PROVE phaseOf(pc[p]) = "checking"
    BY Phases DEF Init, Before
  <2>2. ASSUME NEW p \in Bakers PROVE artefactOf(p) \in {"absent", "previous"}
    <3>1. dir[output(p)] \in OldInodes \cup {NoInode}
      BY BakeAssumption DEF Init, Disk, Job, output
    <3>2. QED
      BY <3>1, BakeAssumption DEF artefactOf, Inodes
  <2>3. QED
    BY <2>1, <2>2 DEF Promise!Init
<1>2. Apart /\ [Next]_vars => Apart'
  <2> SUFFICES ASSUME Apart, [Next]_vars PROVE Apart'
    OBVIOUS
  <2>1. job' = job /\ writable' = writable
    BY JobsStay DEF Next, vars
  <2>2. QED
    BY <2>1 DEF Apart, input, output
<1>3. SafeInv /\ Apart /\ [Next]_vars => [Promise!Next]_Promise!vars
  <2> SUFFICES ASSUME SafeInv, Apart, [Next]_vars PROVE [Promise!Next]_Promise!vars
    OBVIOUS
  <2>1. CASE UNCHANGED vars
    BY <2>1 DEF vars, Promise!vars, artefactOf, Baked, input, output
  <2>2. CASE Next
    BY <2>2, StepImplements DEF Next
  <2>3. QED
    BY <2>1, <2>2
<1>4. Spec => []SafeInv
  BY InitSafe, NextSafe, PTL DEF Spec
<1>5. QED
  BY <1>1, <1>2, <1>3, <1>4, PTL DEF Spec, ImplementsPromise, Promise!Spec

=============================================================================
