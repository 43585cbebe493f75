---------------------------- MODULE PartitionGrow ----------------------------
(***************************************************************************)
(* Adding a file to an isohybrid image (src/internal/iso/patch.go) and     *)
(* keeping its partition tables in step (src/internal/iso/hybrid.go).      *)
(*                                                                         *)
(* The image is a sequence of the 512 byte blocks its MBR and GPT count    *)
(* in, numbered from zero; a block is written whole or not at all, a       *)
(* longer write may stop behind any of its blocks.  A checksum is the      *)
(* contents it was computed from.                                          *)
(***************************************************************************)
EXTENDS Naturals, Sequences

CONSTANTS
  Files,         \* the files that may be added
  Lengths,       \* their lengths, in sectors
  SectorBlocks,  \* blocks in a sector (SectorSize / blockSize)
  Reserved,      \* gptReservedBlocks: the header and the array of the backup
  MbrMax,        \* the longest partition an MBR entry can hold
  Volumes,       \* lengths the volume may have at first, in sectors
  ArrayLengths,  \* blocks the GPT entry array may have, 0 for no GPT at all
  Slacks,        \* unused blocks between the volume and the backup GPT
  Payloads       \* blocks that follow the image the tables describe

ASSUME GrowAssumption ==
  /\ Lengths \subseteq Nat /\ Slacks \subseteq Nat /\ Payloads \subseteq Nat
  /\ SectorBlocks \in Nat \ {0} /\ Reserved \in Nat \ {0}
  /\ MbrMax \in Nat
  /\ ArrayLengths \subseteq Nat
  /\ Volumes \subseteq Nat
  /\ \A v \in Volumes, n \in ArrayLengths : v * SectorBlocks > n + 2

VARIABLES
  volume,      \* the length of the volume as it was released, in sectors
  arrayBlocks, \* entryCount * entrySize, in blocks
  trees,       \* the directory trees the image has
  size,        \* of the file, in blocks
  block,       \* what each block holds
  mbr,         \* whether block 0 is signed, and its first partition
  listed,      \* the records added to each root directory
  space,       \* the length of the volume each descriptor declares
  pc,
  doing,       \* the record of the file that is being added
  total,       \* totalBlocks, as resize computed it
  called, added,  \* files AddFile was called for, records of its successes
  outcome,     \* of the latest AddFile
  history      \* "blind": hasGPT could not read the header that is there;
               \* "same end": the new tables end where the old ones did

layout == <<volume, arrayBlocks, trees>>
tables == <<listed, space>>
log == <<called, added, outcome>>
vars == <<layout, size, block, mbr, tables, pc, doing, total, log, history>>

gptHeaderLBA == 1
Zero == <<"zero">>
Iso == <<"iso">>
Payload == <<"payload">>
FileCell(f, k) == <<"file", f, k>>
ArrayCell(k, end) == <<"array", k, end>>   \* end: of the entry that covers the volume
HeadCell(head) == <<"head", head>>

Array(end) == [k \in 1..arrayBlocks |-> ArrayCell(k, end)]

Nothing == [file |-> "none", at |-> 0, sectors |-> 0]
Records == [file : Files, at : Nat, sectors : Lengths]

\* Both copies of the header for an image of n blocks; seal records the
\* contents of the array as its checksum.
Primary(n, end) ==
  [my |-> gptHeaderLBA, alternate |-> n - 1, lastUsable |-> n - 2 - arrayBlocks,
   entries |-> 2, sum |-> end]
Backup(n, end) ==
  [Primary(n, end) EXCEPT !.my = n - 1, !.alternate = gptHeaderLBA,
                          !.entries = n - 1 - arrayBlocks]

\* An image is a whole number of sectors.
RoundedUp(n) ==
  IF n % SectorBlocks = 0 THEN n ELSE n + (SectorBlocks - (n % SectorBlocks))

-----------------------------------------------------------------------------
\* What an image of n blocks, the tables included, holds when it is released.
Released(n, b) ==
  LET end == volume * SectorBlocks - 1
      gpt == arrayBlocks > 0
  IN  IF gpt /\ b = gptHeaderLBA THEN HeadCell(Primary(n, end))
      ELSE IF gpt /\ b \in 2..(arrayBlocks + 1) THEN ArrayCell(b - 1, end)
      ELSE IF b <= end THEN Iso
      ELSE IF gpt /\ b = n - 1 THEN HeadCell(Backup(n, end))
      ELSE IF gpt /\ b \in (n - 1 - arrayBlocks)..(n - 2)
           THEN ArrayCell(b - (n - 1 - arrayBlocks) + 1, end)
      ELSE IF b < n THEN Zero ELSE Payload

Init ==
  /\ volume \in Volumes /\ arrayBlocks \in ArrayLengths
  /\ trees \in {{"primary"}, {"primary", "joliet"}}
  /\ \E slack \in Slacks, payload \in Payloads :
       LET backup == IF arrayBlocks > 0 THEN arrayBlocks + 1 ELSE 0
           n == RoundedUp(volume * SectorBlocks + slack + backup)
       IN  /\ size = n + payload
           /\ block = [b \in 0..(n + payload - 1) |-> Released(n, b)]
           /\ total = n
           /\ n <= MbrMax   \* or no entry could say how long the image is
           /\ mbr \in [signed : BOOLEAN, start : {0, 1}, count : {n}]
  /\ listed = [t \in trees |-> {}]
  /\ space = [t \in trees |-> volume]
  /\ pc = "idle" /\ doing = Nothing
  /\ called = {} /\ added = {} /\ outcome = "none"
  /\ history = {}

-----------------------------------------------------------------------------
(* Writing.  WriteAt extends the file where it has to. *)

Written(from, cells) ==
  LET end == IF cells = <<>> THEN 0 ELSE from + Len(cells)
      n == IF end > size THEN end ELSE size
  IN  /\ size' = n
      /\ block' = [b \in 0..(n - 1) |->
                     IF b >= from /\ b < from + Len(cells) THEN cells[b - from + 1]
                     ELSE IF b < size THEN block[b] ELSE Zero]

\* AddFile returns an error; what has been written stays.
Fail ==
  /\ pc' = "idle" /\ outcome' = "error"
  /\ UNCHANGED <<called, added>>

Succeed ==
  /\ pc' = "idle" /\ outcome' = "ok"
  /\ added' = added \cup {doing}
  /\ UNCHANGED called

Goto(label) == pc' = label /\ UNCHANGED log

Write(from, cells, next) ==
  \/ Written(from, cells) /\ next
  \/ \E k \in 0..(Len(cells) - 1) : Written(from, SubSeq(cells, 1, k)) /\ Fail

-----------------------------------------------------------------------------
(* AddFile. *)

\* Mutant: the length of the volume is not kept up to date in the Image.
AddFileStale(f, sectors) ==
  /\ pc = "idle" /\ f \notin called
  /\ called' = called \cup {f}
  /\ doing' = [file |-> f, at |-> volume, sectors |-> sectors]
  /\ outcome' = "none"
  /\ pc' = "data"
  /\ UNCHANGED <<layout, size, block, mbr, tables, total, added, history>>

AddFile(f, sectors) ==
  /\ pc = "idle" /\ f \notin called
  /\ called' = called \cup {f}
  /\ doing' = [file |-> f, at |-> space["primary"], sectors |-> sectors]
  /\ outcome' = "none"
  /\ pc' = "data"
  /\ UNCHANGED <<layout, size, block, mbr, tables, total, added, history>>

\* The padding, and the backup GPT that is there, are written over.
WriteData ==
  /\ pc = "data"
  /\ Write(doing.at * SectorBlocks,
           [k \in 1..(doing.sectors * SectorBlocks) |-> FileCell(doing.file, k)],
           Goto("primary"))
  /\ UNCHANGED <<layout, mbr, tables, doing, total, history>>

\* The steps of AddFile that follow one another, in the trees the image has.
AfterRecord(t) ==
  IF t = "primary" /\ "joliet" \in trees THEN "joliet" ELSE "primary size"
AfterSize(t) ==
  IF t = "primary" /\ "joliet" \in trees THEN "joliet size" ELSE "resize"

\* A directory may be full, and a write may fail: before the record, or behind
\* it, for the whole sector is written.
InsertRecord(t) ==
  /\ pc = t
  /\ \/ /\ listed' = [listed EXCEPT ![t] = @ \cup {doing}]
        /\ Goto(AfterRecord(t)) \/ Fail
     \/ Fail /\ UNCHANGED listed
  /\ UNCHANGED <<layout, size, block, mbr, space, doing, total, history>>

\* The descriptor, and the copy of it in the Image, which are the same from
\* then on.
SetVolumeSpaceSize(t) ==
  /\ pc = (IF t = "primary" THEN "primary size" ELSE "joliet size")
  /\ \/ /\ space' = [space EXCEPT ![t] = doing.at + doing.sectors]
        /\ Goto(AfterSize(t))
     \/ Fail /\ UNCHANGED space
  /\ UNCHANGED <<layout, size, block, mbr, listed, doing, total, history>>

-----------------------------------------------------------------------------
(* resize. *)

HasGPT == gptHeaderLBA < size /\ block[gptHeaderLBA][1] = "head"

Truncated(n) ==
  /\ size' = n
  /\ block' = [b \in 0..(n - 1) |-> IF b < size THEN block[b] ELSE Zero]

IsoBlocks == space["primary"] * SectorBlocks

\* Mutant: nothing is reserved for the backup.
TruncateTight ==
  /\ pc = "resize"
  /\ total' = RoundedUp(IsoBlocks)
  /\ Truncated(total') /\ Goto("mbr")
  /\ UNCHANGED <<layout, mbr, tables, doing, history>>

\* hasGPT takes a failed read for an image without a GPT.
Truncate ==
  /\ pc = "resize"
  /\ \E seen \in {HasGPT, FALSE} :
       /\ total' = RoundedUp(IsoBlocks + (IF seen THEN Reserved ELSE 0))
       /\ history' = history \cup IF HasGPT # seen THEN {"blind"} ELSE {}
  /\ \/ Truncated(total') /\ Goto("mbr")
     \/ Fail /\ UNCHANGED <<size, block>>
  /\ UNCHANGED <<layout, mbr, tables, doing>>

\* Mutant: the count is not checked against what the entry can hold.
GrowMBRUnchecked ==
  /\ pc = "mbr"
  /\ mbr' = IF mbr.signed /\ mbr.start = 0 THEN [mbr EXCEPT !.count = total] ELSE mbr
  /\ Goto("array")
  /\ UNCHANGED <<layout, size, block, tables, doing, total, history>>

\* Only the partition that starts at block zero is the image itself.
GrowMBR ==
  /\ pc = "mbr"
  /\ LET grows == mbr.signed /\ mbr.count # 0 /\ mbr.start = 0
     IN  \/ /\ grows => total <= MbrMax
            /\ mbr' = IF grows THEN [mbr EXCEPT !.count = total] ELSE mbr
            /\ Goto("array")
         \/ Fail /\ UNCHANGED mbr
  /\ UNCHANGED <<layout, size, block, tables, doing, total, history>>

-----------------------------------------------------------------------------
(* growGPT.  An image without a GPT is done.  A read that fails, and a header *)
(* that is refused, are a first write that fails.                             *)

LastBlock == IsoBlocks - 1
Gpt == block[gptHeaderLBA][2]

NoGPT ==
  /\ pc = "array" /\ ~HasGPT
  /\ Succeed \/ Fail
  /\ UNCHANGED <<layout, size, block, mbr, tables, doing, total, history>>

WriteEntries ==
  /\ pc = "array" /\ HasGPT
  /\ Write(Gpt.entries, Array(LastBlock), Goto("head"))
  /\ UNCHANGED <<layout, mbr, tables, doing, total, history>>

\* Mutant: the primary header goes on naming the old backup.
WriteHeaderStale ==
  /\ pc = "head"
  /\ Write(gptHeaderLBA,
           <<HeadCell([Primary(total, LastBlock) EXCEPT !.alternate = Gpt.alternate])>>,
           Goto("backup array"))
  /\ UNCHANGED <<layout, mbr, tables, doing, total, history>>

WriteHeader ==
  /\ pc = "head"
  /\ Write(gptHeaderLBA, <<HeadCell(Primary(total, LastBlock))>>, Goto("backup array"))
  /\ history' = history \cup IF Gpt.alternate = total - 1 THEN {"same end"} ELSE {}
  /\ UNCHANGED <<layout, mbr, tables, doing, total>>

WriteBackupEntries ==
  /\ pc = "backup array"
  /\ Write(total - 1 - arrayBlocks, Array(LastBlock), Goto("backup head"))
  /\ UNCHANGED <<layout, mbr, tables, doing, total, history>>

WriteBackupHeader ==
  /\ pc = "backup head"
  /\ Write(total - 1, <<HeadCell(Backup(total, LastBlock))>>, Succeed)
  /\ UNCHANGED <<layout, mbr, tables, doing, total, history>>

-----------------------------------------------------------------------------
Next ==
  \/ \E f \in Files, n \in Lengths : AddFile(f, n)
  \/ WriteData
  \/ \E t \in trees : InsertRecord(t) \/ SetVolumeSpaceSize(t)
  \/ Truncate
  \/ GrowMBR
  \/ NoGPT
  \/ WriteEntries \/ WriteHeader \/ WriteBackupEntries \/ WriteBackupHeader

Spec == Init /\ [][Next]_vars

-----------------------------------------------------------------------------
(* ValidatePartitions and readGPT. *)

IsHead(b) == b < size /\ block[b][1] = "head"

\* Mutant: the checksum of the array is not looked at.
SealedAnyhow(head) == head.entries + arrayBlocks <= size

\* The entry array is in the file and is the one the header was sealed with.
Sealed(head) ==
  /\ head.entries + arrayBlocks <= size
  /\ \A k \in 1..arrayBlocks : block[head.entries + k - 1] = ArrayCell(k, head.sum)

ValidatePartitions ==
  mbr.signed /\ IsHead(gptHeaderLBA) =>
    /\ Sealed(Gpt)
    /\ IsHead(Gpt.alternate)
    /\ LET backup == block[Gpt.alternate][2]
       IN  /\ Sealed(backup)
           /\ backup.alternate = gptHeaderLBA
           /\ Gpt.lastUsable < backup.entries
    /\ mbr.count # 0 /\ mbr.start = 0 => mbr.count = Gpt.alternate + 1

-----------------------------------------------------------------------------
(* Properties. *)

Kinds == {"zero", "iso", "payload", "file", "array", "head"}
Steps == {"idle", "data", "primary", "joliet", "primary size", "joliet size", "resize",
          "mbr", "array", "head", "backup array", "backup head"}

TypeOK ==
  /\ volume \in Volumes /\ arrayBlocks \in ArrayLengths
  /\ "primary" \in trees /\ trees \subseteq {"primary", "joliet"}
  /\ size \in Nat /\ DOMAIN block = 0..(size - 1)
  /\ \A b \in 0..(size - 1) : block[b][1] \in Kinds
  /\ mbr \in [signed : BOOLEAN, start : {0, 1}, count : 0..MbrMax]
  /\ space \in [trees -> Nat]
  /\ \A t \in trees : listed[t] \subseteq Records
  /\ pc \in Steps /\ doing \in Records \cup {Nothing} /\ total \in Nat
  /\ called \subseteq Files /\ added \subseteq Records
  /\ outcome \in {"none", "ok", "error"} /\ history \subseteq {"blind", "same end"}

\* The backup GPT is no longer than the space that is kept for it.
BackupFits == arrayBlocks < Reserved /\ "blind" \notin history

\* What AddFile leaves behind when it succeeds: every descriptor declares the
\* volume with the new file, the tables pass their own check, the partition
\* ends with the volume, and the image ends with the backup.
GrownConsistently ==
  pc = "idle" /\ outcome = "ok" /\ BackupFits =>
    /\ ValidatePartitions
    /\ \A t \in trees : space[t] = doing.at + doing.sectors
    /\ size = total /\ size >= IsoBlocks
    /\ HasGPT => /\ Gpt.sum = LastBlock /\ LastBlock <= Gpt.lastUsable
                 /\ Gpt.alternate = size - 1
                 /\ block[size - 1][2].sum = LastBlock

\* A file that was added keeps its data and its record in every tree, whatever
\* is added, or fails to be added, after it.
AddedKept ==
  BackupFits =>
    \A r \in added :
      /\ \A k \in 1..(r.sectors * SectorBlocks) :
           LET b == r.at * SectorBlocks + k - 1
           IN  b < size /\ block[b] = FileCell(r.file, k)
      /\ \A t \in trees : r \in listed[t]

\* The blocks of the original volume, its primary GPT apart, are never written.
OriginalKept ==
  BackupFits =>
    \A b \in (arrayBlocks + 2)..(volume * SectorBlocks - 1) : b < size /\ block[b] = Iso

\* Tables that pass the check agree, also in an image that was left half way: a
\* machine that prefers the backup sees the same partitions.  An old backup is
\* taken for the new one only where it has the place of the new one.
ValidatedAgree ==
  mbr.signed /\ HasGPT /\ ValidatePartitions /\ "same end" \notin history =>
    LET backup == block[Gpt.alternate][2]
    IN  /\ Gpt.lastUsable = backup.lastUsable
        /\ \A k \in 0..(arrayBlocks - 1) :
             block[Gpt.entries + k] = block[backup.entries + k]

\* With the array the reserve is meant for, no header but the two that belong
\* there is left in an image a file was added to.
NoStaleBackup ==
  pc = "idle" /\ outcome = "ok" /\ BackupFits /\ arrayBlocks + 1 = Reserved =>
    \A b \in 0..(size - 1) : IsHead(b) => b \in {gptHeaderLBA, size - 1}

=============================================================================
