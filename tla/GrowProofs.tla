----------------------------- MODULE GrowProofs -----------------------------
(***************************************************************************)
(* Proofs about PartitionGrow, for every length of sector, volume, file,   *)
(* entry array, slack and reserve.  First: AddFile leaves the original     *)
(* volume alone.  Then, on top of it, what AddFile leaves in the image     *)
(* besides the volume: the files it added, the two partition tables and    *)
(* their headers.                                                          *)
(***************************************************************************)
EXTENDS PartitionGrow, TLAPS

USE DEF Zero, Iso, Payload, FileCell, ArrayCell, HeadCell, gptHeaderLBA

Growing == {"mbr", "array", "head", "backup array", "backup head"}
InGPT == {"head", "backup array", "backup head"}

-----------------------------------------------------------------------------
(* The volume: its invariant. *)

VolumeEnd == volume * SectorBlocks

ShapeOK ==
  /\ volume \in Nat /\ arrayBlocks \in Nat /\ VolumeEnd \in Nat
  /\ VolumeEnd > arrayBlocks + 2
  /\ "primary" \in trees /\ trees \subseteq {"primary", "joliet"}
  /\ size \in Nat /\ total \in Nat

\* Files go behind the original volume.
BehindVolume ==
  /\ space \in [trees -> Nat] /\ \A t \in trees : space[t] >= volume
  /\ doing.at \in Nat /\ doing.sectors \in Nat
  /\ pc # "idle" => doing.at >= volume

\* The header stays where it is and goes on naming its own array.
HeaderKept ==
  /\ size > 2
  /\ arrayBlocks > 0 => block[1][1] = "head" /\ block[1][2].entries = 2
  /\ arrayBlocks = 0 => block[1][1] # "head"

\* The image ends behind the volume, by the reserve at least, if hasGPT saw
\* the header.
RoomForBackup ==
  /\ pc \in Growing => total >= VolumeEnd
  /\ pc \in InGPT => arrayBlocks > 0
  /\ pc \in Growing /\ arrayBlocks > 0 /\ "blind" \notin history =>
       total >= VolumeEnd + Reserved

VolumeKept ==
  BackupFits =>
    /\ size >= VolumeEnd
    /\ \A b \in (arrayBlocks + 2)..(VolumeEnd - 1) : block[b] = Iso

GrowInv == ShapeOK /\ BehindVolume /\ HeaderKept /\ RoomForBackup /\ VolumeKept

-----------------------------------------------------------------------------
(* Arithmetic. *)

\* A longer run of sectors is a longer run of blocks.
LEMMA Scaled ==
  ASSUME NEW m \in Nat, NEW n \in Nat, NEW k \in Nat, m >= n
  PROVE  m * k \in Nat /\ n * k \in Nat /\ m * k >= n * k
  OBVIOUS

\* Rounding up to a whole number of sectors never shortens.
LEMMA RoundedUpGrows ==
  ASSUME NEW n \in Nat
  PROVE  RoundedUp(n) \in Nat /\ RoundedUp(n) >= n
<1>1. n % SectorBlocks \in 0..(SectorBlocks - 1)
  BY GrowAssumption
<1> QED BY <1>1, GrowAssumption DEF RoundedUp

\* A write changes the blocks it covers and no others, and cuts nothing off.
LEMMA WrittenElsewhere ==
  ASSUME NEW from \in Nat, NEW cells, Len(cells) \in Nat, size \in Nat,
         Written(from, cells)
  PROVE  /\ size' \in Nat /\ size' >= size
         /\ \A b \in 0..(size - 1) :
              ~(from <= b /\ b < from + Len(cells)) => block'[b] = block[b]
         /\ \A b \in 0..(size' - 1) :
              from <= b /\ b < from + Len(cells) => block'[b] = cells[b - from + 1]
  BY DEF Written

\* A write of nothing.
LEMMA WrittenNothing ==
  ASSUME NEW from \in Nat, size \in Nat, Written(from, <<>>)
  PROVE  size' = size /\ \A b \in 0..(size - 1) : block'[b] = block[b]
<1>1. Len(<<>>) = 0
  OBVIOUS
<1>2. size' = size
  BY DEF Written
<1>3. \A b \in 0..(size - 1) : block'[b] = block[b]
  BY <1>1, <1>2 DEF Written
<1> QED BY <1>2, <1>3

\* What a write that spares the volume and the header leaves in place.
LEMMA WriteOutside ==
  ASSUME ShapeOK, HeaderKept, VolumeKept,
         NEW from \in Nat, NEW cells, Len(cells) \in Nat, Written(from, cells),
         volume' = volume, arrayBlocks' = arrayBlocks, history' = history, from > 1,
         BackupFits => from >= VolumeEnd \/ from + Len(cells) <= arrayBlocks + 2
  PROVE  HeaderKept' /\ VolumeKept' /\ size' \in Nat
<1>1. /\ size' \in Nat /\ size' >= size
      /\ \A b \in 0..(size - 1) :
           ~(from <= b /\ b < from + Len(cells)) => block'[b] = block[b]
  BY WrittenElsewhere DEF ShapeOK
<1>2. block'[1] = block[1]
  BY <1>1 DEF HeaderKept, ShapeOK
<1>3. HeaderKept'
  BY <1>1, <1>2 DEF HeaderKept, ShapeOK
<1>4. VolumeKept'
  <2> SUFFICES ASSUME BackupFits
               PROVE  /\ size' >= VolumeEnd
                      /\ \A b \in (arrayBlocks + 2)..(VolumeEnd - 1) : block'[b] = Iso
    BY DEF VolumeKept, BackupFits, VolumeEnd
  <2>1. size' >= VolumeEnd
    BY <1>1 DEF VolumeKept, ShapeOK
  <2>2. ASSUME NEW b \in (arrayBlocks + 2)..(VolumeEnd - 1)
        PROVE  block'[b] = Iso
    <3>1. b \in 0..(size - 1) /\ ~(from <= b /\ b < from + Len(cells))
      BY DEF VolumeKept, ShapeOK
    <3>2. block[b] = Iso
      BY DEF VolumeKept
    <3> QED BY <1>1, <3>1, <3>2
  <2> QED BY <2>1, <2>2
<1> QED BY <1>1, <1>3, <1>4

\* The same of one that may stop on its way.
LEMMA PartialWrite ==
  ASSUME ShapeOK, HeaderKept, VolumeKept,
         NEW from \in Nat, NEW S, NEW cells \in Seq(S),
         NEW k \in 0..(Len(cells) - 1), Written(from, SubSeq(cells, 1, k)),
         volume' = volume, arrayBlocks' = arrayBlocks, history' = history, from > 1,
         BackupFits => from >= VolumeEnd \/ from + Len(cells) <= arrayBlocks + 2
  PROVE  HeaderKept' /\ VolumeKept' /\ size' \in Nat
<1>1. Len(cells) \in Nat /\ k \in Nat /\ k < Len(cells)
  OBVIOUS
<1>2. Len(SubSeq(cells, 1, k)) = k
  BY <1>1
<1> DEFINE part == SubSeq(cells, 1, k)
<1>3. Len(part) \in Nat /\ Len(part) <= Len(cells) /\ Written(from, part)
  BY <1>1, <1>2
<1>4. BackupFits => from >= VolumeEnd \/ from + Len(part) <= arrayBlocks + 2
  BY <1>1, <1>3 DEF ShapeOK
<1> HIDE DEF part
<1> QED BY <1>3, <1>4, WriteOutside

-----------------------------------------------------------------------------
(* The first state and every step. *)

LEMMA GrowInit == Init => GrowInv
<1> SUFFICES ASSUME Init PROVE GrowInv
  OBVIOUS
<1>1. /\ volume \in Nat /\ arrayBlocks \in Nat
      /\ volume * SectorBlocks > arrayBlocks + 2
      /\ volume * SectorBlocks \in Nat
  BY GrowAssumption DEF Init
<1>2. PICK slack \in Slacks, payload \in Payloads :
        LET backup == IF arrayBlocks > 0 THEN arrayBlocks + 1 ELSE 0
            n == RoundedUp(volume * SectorBlocks + slack + backup)
        IN  /\ size = n + payload
            /\ block = [b \in 0..(n + payload - 1) |-> Released(n, b)]
            /\ total = n
  BY DEF Init
<1> DEFINE backup == IF arrayBlocks > 0 THEN arrayBlocks + 1 ELSE 0
           n == RoundedUp(volume * SectorBlocks + slack + backup)
<1>3. /\ slack \in Nat /\ payload \in Nat /\ backup \in Nat
      /\ volume * SectorBlocks + slack + backup \in Nat
  BY <1>1, GrowAssumption
<1>4. n \in Nat /\ n >= volume * SectorBlocks + slack + backup
  BY <1>3, RoundedUpGrows
<1>5. /\ size = n + payload /\ total = n
      /\ \A b \in 0..(n + payload - 1) : block[b] = Released(n, b)
  BY <1>2
<1> HIDE DEF n
<1>6. ShapeOK
  <2>1. "primary" \in trees /\ trees \subseteq {"primary", "joliet"}
    BY DEF Init
  <2>2. size \in Nat /\ total \in Nat
    BY <1>3, <1>4, <1>5
  <2> QED BY <1>1, <2>1, <2>2 DEF ShapeOK, VolumeEnd
<1>7. BehindVolume
  BY <1>1 DEF BehindVolume, Init, Nothing
<1>8. HeaderKept
  <2>1. size > 2 /\ block[1] = Released(n, 1)
    BY <1>1, <1>3, <1>4, <1>5
  <2>2. CASE arrayBlocks > 0
    BY <2>1, <2>2 DEF HeaderKept, Released, Primary
  <2>3. CASE arrayBlocks = 0
    BY <2>1, <2>3, <1>1 DEF HeaderKept, Released
  <2> QED BY <2>2, <2>3, <1>1
<1>9. RoomForBackup
  BY DEF RoomForBackup, Growing, InGPT, Init
<1>10. VolumeKept
  <2>1. ASSUME NEW b \in (arrayBlocks + 2)..(VolumeEnd - 1)
        PROVE  block[b] = Iso
    <3>1. b \in 0..(n + payload - 1)
      BY <1>1, <1>3, <1>4 DEF VolumeEnd
    <3>2. Released(n, b) = Iso
      BY <1>1 DEF Released, VolumeEnd
    <3> QED BY <1>5, <3>1, <3>2
  <2> QED BY <2>1, <1>1, <1>3, <1>4, <1>5 DEF VolumeKept, VolumeEnd
<1> QED BY <1>6, <1>7, <1>8, <1>9, <1>10 DEF GrowInv

LEMMA GrowStep == GrowInv /\ [Next]_vars => GrowInv'
<1> SUFFICES ASSUME GrowInv, [Next]_vars PROVE GrowInv'
  OBVIOUS
<1> USE DEF GrowInv
<1>1. ASSUME NEW f \in Files, NEW n \in Lengths, AddFile(f, n)
      PROVE  GrowInv'
  <2>1. UNCHANGED <<layout, size, block, tables, total, history>> /\ pc' = "data"
    BY <1>1 DEF AddFile
  <2>2. doing'.at = space["primary"] /\ doing'.sectors = n
    BY <1>1 DEF AddFile
  <2>3. ShapeOK'
    BY <2>1 DEF ShapeOK, layout, VolumeEnd
  <2>4. BehindVolume'
    BY <2>1, <2>2, GrowAssumption DEF BehindVolume, ShapeOK, layout, tables
  <2>5. HeaderKept'
    BY <2>1 DEF HeaderKept, layout
  <2>6. RoomForBackup'
    BY <2>1 DEF RoomForBackup, Growing, InGPT
  <2>7. VolumeKept'
    BY <2>1 DEF VolumeKept, BackupFits, layout, VolumeEnd
  <2> QED BY <2>3, <2>4, <2>5, <2>6, <2>7
<1>2. CASE WriteData
  <2> DEFINE from == doing.at * SectorBlocks
             len == doing.sectors * SectorBlocks
             cells == [k \in 1..len |-> FileCell(doing.file, k)]
  <2>1. UNCHANGED <<layout, tables, doing, total, history>> /\ pc' \in {"idle", "primary"}
    BY <1>2 DEF WriteData, Write, Goto, Fail
  <2>2. from \in Nat /\ from >= VolumeEnd /\ from > 1
    <3>1. doing.at \in Nat /\ volume \in Nat /\ SectorBlocks \in Nat /\ doing.at >= volume
      BY <1>2, GrowAssumption DEF WriteData, BehindVolume, ShapeOK
    <3>2. /\ doing.at * SectorBlocks \in Nat /\ volume * SectorBlocks \in Nat
          /\ doing.at * SectorBlocks >= volume * SectorBlocks
      BY <3>1, Scaled
    <3>3. volume * SectorBlocks > arrayBlocks + 2 /\ arrayBlocks \in Nat
      BY DEF ShapeOK, VolumeEnd
    <3> QED BY <3>2, <3>3 DEF VolumeEnd
  <2>3. len \in Nat
    BY Scaled, GrowAssumption DEF BehindVolume
  <2> DEFINE S == {FileCell(doing.file, k) : k \in 1..len}
  <2>4. cells \in Seq(S) /\ Len(cells) = len
    BY <2>3
  <2>5. \/ Written(from, cells)
        \/ \E k \in 0..(Len(cells) - 1) : Written(from, SubSeq(cells, 1, k))
    BY <1>2 DEF WriteData, Write
  <2> HIDE DEF from, cells, S, len
  <2>6. volume' = volume /\ arrayBlocks' = arrayBlocks /\ history' = history
    BY <2>1 DEF layout
  <2>7. HeaderKept' /\ VolumeKept' /\ size' \in Nat
    BY <2>2, <2>3, <2>4, <2>5, <2>6, WriteOutside, PartialWrite
  <2>8. ShapeOK'
    BY <2>1, <2>7 DEF ShapeOK, layout, VolumeEnd
  <2>9. BehindVolume'
    BY <2>1, <1>2 DEF BehindVolume, layout, tables, WriteData
  <2>10. RoomForBackup'
    BY <2>1 DEF RoomForBackup, Growing, InGPT
  <2> QED BY <2>7, <2>8, <2>9, <2>10
<1>3. ASSUME NEW t \in trees, InsertRecord(t)
      PROVE  GrowInv'
  <2>1. /\ UNCHANGED <<layout, size, block, space, doing, total, history>>
        /\ pc # "idle" /\ pc' \notin Growing
    BY <1>3 DEF InsertRecord, Goto, Fail, AfterRecord, Growing, ShapeOK
  <2>2. ShapeOK' /\ HeaderKept' /\ VolumeKept'
    BY <2>1 DEF ShapeOK, HeaderKept, VolumeKept, BackupFits, VolumeEnd, layout
  <2>3. BehindVolume'
    BY <2>1 DEF BehindVolume, layout
  <2>4. RoomForBackup'
    BY <2>1 DEF RoomForBackup, Growing, InGPT
  <2> QED BY <2>2, <2>3, <2>4
<1>4. ASSUME NEW t \in trees, SetVolumeSpaceSize(t)
      PROVE  GrowInv'
  <2>1. /\ UNCHANGED <<layout, size, block, doing, total, history>>
        /\ pc # "idle" /\ pc' \notin Growing
        /\ space' \in {space, [space EXCEPT ![t] = doing.at + doing.sectors]}
    BY <1>4 DEF SetVolumeSpaceSize, Goto, Fail, AfterSize, Growing
  <2>2. ShapeOK' /\ HeaderKept' /\ VolumeKept'
    BY <2>1 DEF ShapeOK, HeaderKept, VolumeKept, BackupFits, VolumeEnd, layout
  <2>3. BehindVolume'
    BY <2>1 DEF BehindVolume, ShapeOK, layout
  <2>4. RoomForBackup'
    BY <2>1 DEF RoomForBackup, Growing, InGPT
  <2> QED BY <2>2, <2>3, <2>4
<1>5. CASE Truncate
  <2>1. UNCHANGED <<layout, tables, doing>> /\ pc = "resize" /\ pc' \in {"idle", "mbr"}
    BY <1>5 DEF Truncate, Goto, Fail
  <2>2. IsoBlocks \in Nat /\ IsoBlocks >= VolumeEnd
    BY Scaled, GrowAssumption DEF IsoBlocks, BehindVolume, ShapeOK, VolumeEnd
  <2>3. /\ total' \in Nat /\ total' >= VolumeEnd
        /\ arrayBlocks > 0 /\ "blind" \notin history' => total' >= VolumeEnd + Reserved
        /\ history \subseteq history'
    <3>1. PICK seen \in {HasGPT, FALSE} :
            /\ total' = RoundedUp(IsoBlocks + (IF seen THEN Reserved ELSE 0))
            /\ history' = history \cup IF HasGPT # seen THEN {"blind"} ELSE {}
      BY <1>5 DEF Truncate
    <3>2. total' \in Nat /\ total' >= IsoBlocks + (IF seen THEN Reserved ELSE 0)
      BY <2>2, <3>1, RoundedUpGrows, GrowAssumption
    <3>3. arrayBlocks > 0 <=> HasGPT
      BY DEF HasGPT, HeaderKept, ShapeOK
    <3>4. total' \in Nat /\ total' >= VolumeEnd
      BY <2>2, <3>2, GrowAssumption DEF ShapeOK
    <3>5. arrayBlocks > 0 /\ "blind" \notin history' => total' >= VolumeEnd + Reserved
      BY <2>2, <3>1, <3>2, <3>3, GrowAssumption DEF ShapeOK
    <3>6. history \subseteq history'
      BY <3>1
    <3> QED BY <3>4, <3>5, <3>6
  <2>4. PICK n : n = total'
    OBVIOUS
  <2>5. n \in Nat /\ n >= VolumeEnd
    BY <2>3, <2>4
  <2>6. \/ size' = n /\ \A b \in 0..(n - 1) : b < size => block'[b] = block[b]
        \/ UNCHANGED <<size, block>>
    BY <1>5, <2>4 DEF Truncate, Truncated
  <2>7. ShapeOK'
    BY <2>1, <2>4, <2>5, <2>6 DEF ShapeOK, layout, VolumeEnd
  <2>8. BehindVolume'
    BY <2>1 DEF BehindVolume, layout, tables
  <2>9. HeaderKept'
    <3>1. n > 2 /\ size > 2 /\ size \in Nat
      BY <2>5 DEF HeaderKept, ShapeOK
    <3>2. size' > 2 /\ block'[1] = block[1]
      BY <2>5, <2>6, <3>1
    <3> QED BY <2>1, <3>2 DEF HeaderKept, layout
  <2>10. RoomForBackup'
    BY <2>1, <2>3 DEF RoomForBackup, Growing, InGPT, VolumeEnd, layout
  <2>11. VolumeKept'
    <3> SUFFICES ASSUME BackupFits'
                 PROVE  /\ size' >= VolumeEnd
                        /\ \A b \in (arrayBlocks + 2)..(VolumeEnd - 1) : block'[b] = Iso
      BY <2>1 DEF VolumeKept, VolumeEnd, layout
    <3>1. BackupFits
      BY <2>1, <2>3 DEF BackupFits, layout
    <3>2. /\ size >= VolumeEnd
          /\ \A b \in (arrayBlocks + 2)..(VolumeEnd - 1) : block[b] = Iso
      BY <3>1 DEF VolumeKept
    <3>3. CASE UNCHANGED <<size, block>>
      BY <3>2, <3>3
    <3>4. CASE size' = n /\ \A b \in 0..(n - 1) : b < size => block'[b] = block[b]
      <4>1. ASSUME NEW b \in (arrayBlocks + 2)..(VolumeEnd - 1)
            PROVE  b \in 0..(n - 1) /\ b < size
        BY <2>5, <3>2 DEF ShapeOK
      <4> QED BY <2>5, <3>2, <3>4, <4>1
    <3> QED BY <2>6, <3>3, <3>4
  <2> QED BY <2>7, <2>8, <2>9, <2>10, <2>11
<1>6. CASE GrowMBR
  <2>1. /\ UNCHANGED <<layout, size, block, tables, doing, total, history>>
        /\ pc = "mbr" /\ pc' \in {"idle", "array"}
    BY <1>6 DEF GrowMBR, Goto, Fail
  <2>2. ShapeOK' /\ HeaderKept' /\ VolumeKept'
    BY <2>1 DEF ShapeOK, HeaderKept, VolumeKept, BackupFits, VolumeEnd, layout
  <2>3. BehindVolume'
    BY <2>1 DEF BehindVolume, layout, tables
  <2>4. RoomForBackup'
    BY <2>1 DEF RoomForBackup, Growing, InGPT, VolumeEnd, layout
  <2> QED BY <2>2, <2>3, <2>4
<1>7. CASE NoGPT
  <2>1. /\ UNCHANGED <<layout, size, block, tables, doing, total, history>>
        /\ pc' = "idle"
    BY <1>7 DEF NoGPT, Succeed, Fail
  <2>2. ShapeOK' /\ HeaderKept' /\ VolumeKept'
    BY <2>1 DEF ShapeOK, HeaderKept, VolumeKept, BackupFits, VolumeEnd, layout
  <2>3. BehindVolume'
    BY <2>1 DEF BehindVolume, layout, tables
  <2>4. RoomForBackup'
    BY <2>1 DEF RoomForBackup, Growing, InGPT
  <2> QED BY <2>2, <2>3, <2>4
<1>8. CASE WriteEntries
  <2> DEFINE from == Gpt.entries
             cells == Array(LastBlock)
  <2>1. /\ UNCHANGED <<layout, tables, doing, total, history>>
        /\ pc = "array" /\ pc' \in {"idle", "head"}
    BY <1>8 DEF WriteEntries, Write, Goto, Fail
  <2>0. arrayBlocks > 0
    BY <1>8 DEF WriteEntries, HasGPT, HeaderKept, ShapeOK
  <2>2. /\ from \in Nat /\ from > 1
        /\ BackupFits => from >= VolumeEnd \/ from + arrayBlocks <= arrayBlocks + 2
    BY <2>0 DEF Gpt, HeaderKept, ShapeOK
  <2>3. Len(cells) = arrayBlocks /\ \E S : cells \in Seq(S)
    <3>1. cells \in Seq({ArrayCell(k, LastBlock) : k \in 1..arrayBlocks})
      BY DEF Array, ShapeOK
    <3>2. Len(cells) = arrayBlocks
      BY DEF Array, ShapeOK
    <3> QED BY <3>1, <3>2
  <2>4. \/ Written(from, cells)
        \/ \E k \in 0..(Len(cells) - 1) : Written(from, SubSeq(cells, 1, k))
    BY <1>8 DEF WriteEntries, Write
  <2> HIDE DEF from, cells
  <2>5. volume' = volume /\ arrayBlocks' = arrayBlocks /\ history' = history
    BY <2>1 DEF layout
  <2>6. PICK S : cells \in Seq(S)
    BY <2>3
  <2>7. HeaderKept' /\ VolumeKept' /\ size' \in Nat
    BY <2>2, <2>3, <2>4, <2>5, <2>6, WriteOutside, PartialWrite
  <2>8. ShapeOK'
    BY <2>1, <2>7 DEF ShapeOK, layout, VolumeEnd
  <2>9. BehindVolume'
    BY <2>1 DEF BehindVolume, layout, tables
  <2>10. RoomForBackup'
    BY <2>1, <2>0 DEF RoomForBackup, Growing, InGPT, VolumeEnd, layout
  <2> QED BY <2>7, <2>8, <2>9, <2>10
<1>9. CASE WriteHeader
  <2> DEFINE cells == <<HeadCell(Primary(total, LastBlock))>>
  <2>1. UNCHANGED <<layout, tables, doing, total>> /\ pc = "head" /\ pc' \in {"idle", "backup array"}
    BY <1>9 DEF WriteHeader, Write, Goto, Fail
  <2>2. BackupFits' <=> BackupFits
    BY <1>9 DEF WriteHeader, BackupFits, layout
  <2>3. arrayBlocks > 0
    BY <2>1 DEF RoomForBackup, InGPT
  <2>4. \/ Written(1, cells)
        \/ \E k \in 0..0 : Written(1, SubSeq(cells, 1, k))
    <3>1. Len(cells) - 1 = 0
      OBVIOUS
    <3>2. \/ Written(1, cells)
          \/ \E k \in 0..(Len(cells) - 1) : Written(1, SubSeq(cells, 1, k))
      BY <1>9 DEF WriteHeader, Write, gptHeaderLBA
    <3> HIDE DEF cells
    <3> QED BY <3>1, <3>2
  <2>5. ASSUME Written(1, cells)
        PROVE  HeaderKept' /\ VolumeKept' /\ ShapeOK'
    <3>1. /\ size' = size
          /\ block' = [b \in 0..(size - 1) |-> IF b = 1 THEN cells[1] ELSE block[b]]
      <4>1. Len(cells) = 1 /\ cells # <<>>
        OBVIOUS
      <4> HIDE DEF cells
      <4>2. size \in Nat /\ size > 2
        BY DEF HeaderKept, ShapeOK
      <4>3. size' = size
        BY <2>5, <4>1, <4>2 DEF Written
      <4> QED BY <2>5, <4>1, <4>2, <4>3 DEF Written
    <3>2. block'[1][1] = "head" /\ block'[1][2].entries = 2
      BY <3>1 DEF HeaderKept, ShapeOK, Primary
    <3>3. ASSUME NEW b \in (arrayBlocks + 2)..(VolumeEnd - 1), b < size
          PROVE  block'[b] = block[b]
      <4>1. b \in 0..(size - 1) /\ b # 1
        BY <3>3 DEF ShapeOK
      <4> QED BY <3>1, <4>1
    <3>4. HeaderKept'
      BY <2>1, <2>3, <3>1, <3>2 DEF HeaderKept, layout
    <3>5. VolumeKept'
      <4>1. ASSUME BackupFits, NEW b \in (arrayBlocks + 2)..(VolumeEnd - 1)
            PROVE  block'[b] = Iso
        BY <3>3, <4>1 DEF VolumeKept, ShapeOK
      <4> QED BY <2>1, <2>2, <3>1, <4>1 DEF VolumeKept, VolumeEnd, layout
    <3>6. ShapeOK'
      BY <2>1, <3>1 DEF ShapeOK, VolumeEnd, layout
    <3> QED BY <3>4, <3>5, <3>6
  <2>6. ASSUME \E k \in 0..0 : Written(1, SubSeq(cells, 1, k))
        PROVE  HeaderKept' /\ VolumeKept' /\ ShapeOK'
    <3>1. PICK k \in 0..0 : Written(1, SubSeq(cells, 1, k))
      BY <2>6
    <3>2. SubSeq(cells, 1, k) = <<>>
      OBVIOUS
    <3>3. Written(1, <<>>)
      BY <3>1, <3>2
    <3>4. size' = size /\ \A b \in 0..(size - 1) : block'[b] = block[b]
      BY <3>3, WrittenNothing DEF ShapeOK
    <3>5. block'[1] = block[1]
      BY <3>4 DEF HeaderKept, ShapeOK
    <3>6. HeaderKept'
      BY <2>1, <3>4, <3>5 DEF HeaderKept, layout
    <3>7. VolumeKept'
      <4>1. ASSUME BackupFits, NEW b \in (arrayBlocks + 2)..(VolumeEnd - 1)
            PROVE  block'[b] = Iso
        <5>1. b \in 0..(size - 1)
          BY <4>1 DEF VolumeKept, ShapeOK
        <5> QED BY <3>4, <4>1, <5>1 DEF VolumeKept
      <4> QED BY <2>1, <2>2, <3>4, <4>1 DEF VolumeKept, VolumeEnd, layout
    <3>8. ShapeOK'
      BY <2>1, <3>4 DEF ShapeOK, VolumeEnd, layout
    <3> QED BY <3>6, <3>7, <3>8
  <2>7. HeaderKept' /\ VolumeKept' /\ ShapeOK'
    BY <2>4, <2>5, <2>6
  <2>8. BehindVolume'
    BY <2>1 DEF BehindVolume, layout, tables
  <2>9. RoomForBackup'
    BY <1>9, <2>1, <2>3 DEF WriteHeader, RoomForBackup, Growing, InGPT, VolumeEnd, layout
  <2> QED BY <2>7, <2>8, <2>9
<1>10. CASE WriteBackupEntries
  <2> DEFINE from == total - 1 - arrayBlocks
             cells == Array(LastBlock)
  <2>1. /\ UNCHANGED <<layout, tables, doing, total, history>>
        /\ pc = "backup array" /\ pc' \in {"idle", "backup head"}
    BY <1>10 DEF WriteBackupEntries, Write, Goto, Fail
  <2>2. /\ from \in Nat /\ from > 1
        /\ BackupFits => from >= VolumeEnd
    <3>1. total \in Nat /\ total >= VolumeEnd /\ arrayBlocks > 0
      BY <2>1 DEF RoomForBackup, Growing, InGPT, ShapeOK
    <3>2. BackupFits => arrayBlocks < Reserved /\ total >= VolumeEnd + Reserved
      BY <2>1, <3>1 DEF RoomForBackup, Growing, BackupFits
    <3> QED BY <3>1, <3>2, GrowAssumption DEF ShapeOK
  <2>3. Len(cells) = arrayBlocks /\ \E S : cells \in Seq(S)
    <3>1. cells \in Seq({ArrayCell(k, LastBlock) : k \in 1..arrayBlocks})
      BY DEF Array, ShapeOK
    <3>2. Len(cells) = arrayBlocks
      BY DEF Array, ShapeOK
    <3> QED BY <3>1, <3>2
  <2>4. \/ Written(from, cells)
        \/ \E k \in 0..(Len(cells) - 1) : Written(from, SubSeq(cells, 1, k))
    BY <1>10 DEF WriteBackupEntries, Write
  <2> HIDE DEF from, cells
  <2>5. volume' = volume /\ arrayBlocks' = arrayBlocks /\ history' = history
    BY <2>1 DEF layout
  <2>6. PICK S : cells \in Seq(S)
    BY <2>3
  <2>7. HeaderKept' /\ VolumeKept' /\ size' \in Nat
    BY <2>2, <2>3, <2>4, <2>5, <2>6, WriteOutside, PartialWrite
  <2>8. ShapeOK'
    BY <2>1, <2>7 DEF ShapeOK, layout, VolumeEnd
  <2>9. BehindVolume'
    BY <2>1 DEF BehindVolume, layout, tables
  <2>10. RoomForBackup'
    BY <2>1 DEF RoomForBackup, Growing, InGPT, VolumeEnd, layout
  <2> QED BY <2>7, <2>8, <2>9, <2>10
<1>11. CASE WriteBackupHeader
  <2> DEFINE from == total - 1
             cells == <<HeadCell(Backup(total, LastBlock))>>
  <2>1. /\ UNCHANGED <<layout, tables, doing, total, history>>
        /\ pc = "backup head" /\ pc' \in {"idle", "idle"}
    BY <1>11 DEF WriteBackupHeader, Write, Goto, Fail, Succeed
  <2>2. /\ from \in Nat /\ from > 1
        /\ BackupFits => from >= VolumeEnd
    <3>1. total \in Nat /\ total >= VolumeEnd /\ arrayBlocks > 0
      BY <2>1 DEF RoomForBackup, Growing, InGPT, ShapeOK
    <3>2. BackupFits => arrayBlocks < Reserved /\ total >= VolumeEnd + Reserved
      BY <2>1, <3>1 DEF RoomForBackup, Growing, BackupFits
    <3> QED BY <3>1, <3>2, GrowAssumption DEF ShapeOK
  <2>3. Len(cells) = 1 /\ \E S : cells \in Seq(S)
    <3>1. cells \in Seq({HeadCell(Backup(total, LastBlock))}) /\ Len(cells) = 1
      OBVIOUS
    <3> QED BY <3>1
  <2>4. \/ Written(from, cells)
        \/ \E k \in 0..(Len(cells) - 1) : Written(from, SubSeq(cells, 1, k))
    BY <1>11 DEF WriteBackupHeader, Write
  <2> HIDE DEF from, cells
  <2>5. volume' = volume /\ arrayBlocks' = arrayBlocks /\ history' = history
    BY <2>1 DEF layout
  <2>6. PICK S : cells \in Seq(S)
    BY <2>3
  <2>7. HeaderKept' /\ VolumeKept' /\ size' \in Nat
    BY <2>2, <2>3, <2>4, <2>5, <2>6, WriteOutside, PartialWrite
  <2>8. ShapeOK'
    BY <2>1, <2>7 DEF ShapeOK, layout, VolumeEnd
  <2>9. BehindVolume'
    BY <2>1 DEF BehindVolume, layout, tables
  <2>10. RoomForBackup'
    BY <2>1 DEF RoomForBackup, Growing, InGPT, VolumeEnd, layout
  <2> QED BY <2>7, <2>8, <2>9, <2>10
<1>12. CASE UNCHANGED vars
  BY <1>12 DEF vars, layout, tables, ShapeOK, BehindVolume, HeaderKept, RoomForBackup,
               VolumeKept, BackupFits, VolumeEnd
<1> QED
  BY <1>1, <1>2, <1>3, <1>4, <1>5, <1>6, <1>7, <1>8, <1>9, <1>10, <1>11, <1>12 DEF Next

-----------------------------------------------------------------------------
\* Whatever is added, and wherever an addition stops, the blocks of the
\* original volume behind its GPT are what they were, provided the entry array
\* fits the reserve and hasGPT could read the header.
THEOREM OriginalAlwaysKept == Spec => []OriginalKept
<1>1. GrowInv => OriginalKept
  BY DEF GrowInv, ShapeOK, VolumeKept, OriginalKept, VolumeEnd
<1> QED BY <1>1, GrowInit, GrowStep, PTL DEF Spec

-----------------------------------------------------------------------------
(* The files and the tables: their invariant. *)

Done == pc = "idle" /\ outcome = "ok"

\* Where the file lies behind the volume the primary descriptor declares, where
\* its data is written as well, and where the volume has come to include it.
Placing == {"data", "primary", "joliet", "primary size"}
Stored == {"primary", "joliet", "primary size"}
Recorded == {"joliet size", "resize"} \cup Growing
Declared == {"resize"} \cup Growing

\* What AddFile has done for the file it is adding.
Progress ==
  /\ outcome = "ok" => pc = "idle"
  /\ pc \in {"joliet", "joliet size"} => "joliet" \in trees
  /\ pc # "idle" \/ Done => doing \in Records
  /\ pc \in Placing => doing.at = space["primary"]
  /\ pc \in Recorded \/ Done => space["primary"] = doing.at + doing.sectors
  /\ pc \in Declared \/ Done => \A t \in trees : space[t] = doing.at + doing.sectors
  /\ pc \in {"joliet", "primary size"} \cup Recorded => doing \in listed["primary"]
  /\ pc \in {"primary size"} \cup Recorded /\ "joliet" \in trees => doing \in listed["joliet"]

\* What was added lies within the volume, and every directory lists it.
AddedPlaced ==
  \A r \in added : /\ r.at >= volume /\ r.at + r.sectors <= space["primary"]
                   /\ \A t \in trees : r \in listed[t]

\* The image ends where resize says, and there is room for the backup unless
\* there is none or hasGPT did not see it.
Sized ==
  pc \in Growing \/ Done =>
    /\ size = total
    /\ \/ total = RoundedUp(IsoBlocks + Reserved)
       \/ total = RoundedUp(IsoBlocks) /\ (arrayBlocks = 0 \/ "blind" \in history)

PlaceInv == Progress /\ AddedPlaced /\ Sized

Data(r) ==
  \A k \in 1..(r.sectors * SectorBlocks) :
    LET b == r.at * SectorBlocks + k - 1
    IN  b < size /\ block[b] = FileCell(r.file, k)

\* The data of what was added, and of what is being added, is in place.
DataInv ==
  /\ pc \in Stored => Data(doing)
  /\ BackupFits => /\ pc \in Recorded => Data(doing)
                   /\ \A r \in added : Data(r)

\* How far the tables have been brought up to date.
TablesInv ==
  /\ pc \in Growing \ {"mbr"} \/ Done =>
       (mbr.signed /\ mbr.count # 0 /\ mbr.start = 0 => mbr.count = total)
  /\ pc \in {"backup array", "backup head"} \/ (Done /\ arrayBlocks > 0) =>
       block[1] = HeadCell(Primary(total, LastBlock))
  /\ BackupFits =>
       /\ pc \in InGPT \/ Done =>
            \A k \in 1..arrayBlocks : block[k + 1] = ArrayCell(k, LastBlock)
       /\ pc = "backup head" \/ Done =>
            \A k \in 1..arrayBlocks :
              block[total - 2 - arrayBlocks + k] = ArrayCell(k, LastBlock)
       /\ Done /\ arrayBlocks > 0 => block[total - 1] = HeadCell(Backup(total, LastBlock))

\* A header behind the array.
BackupAt(b) == 2 <= b /\ b < size /\ block[b][1] = "head"

\* The primary header names the end of the image it was written for, and so
\* does every backup; no backup lies behind the one it names.  One that is not
\* the one it names was left by an image that was no longer than this one will be.
\* A backup at the end of the volume and the one the primary header names were
\* sealed with the array the header was sealed with.
HeadsInv ==
  /\ arrayBlocks > 0 => \E n \in Nat, e \in Nat : n > 2 /\ block[1] = HeadCell(Primary(n, e))
  /\ \A b \in Nat : BackupAt(b) =>
       /\ arrayBlocks > 0
       /\ \E e \in Nat : block[b] = HeadCell(Backup(b + 1, e))
       /\ b <= Gpt.alternate
       /\ b # Gpt.alternate => Gpt.alternate < RoundedUp(IsoBlocks + Reserved)
       /\ b = LastBlock => block[b] = HeadCell(Backup(b + 1, LastBlock))
       /\ b = Gpt.alternate /\ "same end" \notin history =>
            block[b] = HeadCell(Backup(b + 1, Gpt.sum))

Multiple(n) == \E q \in Nat : n = q * SectorBlocks

\* Every backup ends a whole number of sectors that holds the volume; once the
\* new backup array is written, no old header is left before it.
StaleInv ==
  /\ "blind" \notin history => \A b \in Nat : BackupAt(b) => b > LastBlock /\ Multiple(b + 1)
  /\ (pc = "backup head" \/ Done) /\ BackupFits /\ arrayBlocks + 1 = Reserved =>
       \A b \in Nat : BackupAt(b) => b = total - 1
-----------------------------------------------------------------------------
(* What a step does to the blocks. *)

\* The first m cells of a write are in place, and nothing else has changed.
Part(from, cells, m) ==
  /\ size' = IF m > 0 /\ from + m > size THEN from + m ELSE size
  /\ DOMAIN block' = 0..(size' - 1)
  /\ \A b \in 0..(size' - 1) :
       block'[b] = IF from <= b /\ b < from + m THEN cells[b - from + 1]
                   ELSE IF b < size THEN block[b] ELSE Zero

LEMMA WholeWritten ==
  ASSUME NEW from \in Nat, NEW S, NEW cells \in Seq(S), size \in Nat, Written(from, cells)
  PROVE  Part(from, cells, Len(cells))
<1>1. Len(cells) \in Nat /\ (cells = <<>> <=> Len(cells) = 0)
  OBVIOUS
<1>2. size' = IF Len(cells) > 0 /\ from + Len(cells) > size THEN from + Len(cells) ELSE size
  BY <1>1 DEF Written
<1>3. block' = [b \in 0..(size' - 1) |->
                  IF b >= from /\ b < from + Len(cells) THEN cells[b - from + 1]
                  ELSE IF b < size THEN block[b] ELSE Zero]
  BY <1>1, <1>2 DEF Written
<1> QED BY <1>1, <1>2, <1>3 DEF Part

LEMMA PartWritten ==
  ASSUME NEW from \in Nat, NEW S, NEW cells \in Seq(S), size \in Nat,
         NEW m \in 0..(Len(cells) - 1), Written(from, SubSeq(cells, 1, m))
  PROVE  Part(from, cells, m)
<1> DEFINE part == SubSeq(cells, 1, m)
<1>1. /\ part \in Seq(S) /\ Len(part) = m /\ Written(from, part)
      /\ \A k \in 1..m : part[k] = cells[k]
  OBVIOUS
<1>2. Part(from, part, m)
  <2> HIDE DEF part
  <2> QED BY <1>1, WholeWritten
<1>3. \A b \in 0..(size' - 1) :
        from <= b /\ b < from + m => part[b - from + 1] = cells[b - from + 1]
  BY <1>1
<1> HIDE DEF part
<1> QED BY <1>2, <1>3 DEF Part

\* A write that goes through, or stops behind some of its cells.
LEMMA SomeWritten ==
  ASSUME NEW from \in Nat, NEW S, NEW cells \in Seq(S), size \in Nat,
         NEW whole \in BOOLEAN,
         \/ whole /\ Written(from, cells)
         \/ ~whole /\ \E k \in 0..(Len(cells) - 1) : Written(from, SubSeq(cells, 1, k))
  PROVE  \E m \in 0..Len(cells) : (whole => m = Len(cells)) /\ Part(from, cells, m)
<1>1. Len(cells) \in Nat
  OBVIOUS
<1>2. CASE whole /\ Written(from, cells)
  BY <1>1, <1>2, WholeWritten
<1>3. CASE ~whole /\ \E k \in 0..(Len(cells) - 1) : Written(from, SubSeq(cells, 1, k))
  <2>1. PICK k \in 0..(Len(cells) - 1) : Written(from, SubSeq(cells, 1, k))
    BY <1>3
  <2>2. Part(from, cells, k)
    BY <2>1, PartWritten
  <2> QED BY <1>1, <1>3, <2>2
<1> QED BY <1>2, <1>3

-----------------------------------------------------------------------------
(* The actions that write, each with the part of it that was written. *)

Volume == space["primary"]

LEMMA Blocks ==
  ASSUME GrowInv
  PROVE  /\ volume \in Nat /\ arrayBlocks \in Nat /\ size \in Nat /\ total \in Nat
         /\ Volume \in Nat /\ doing.at \in Nat /\ doing.sectors \in Nat
         /\ doing.at * SectorBlocks \in Nat /\ doing.sectors * SectorBlocks \in Nat
         /\ VolumeEnd \in Nat /\ VolumeEnd > arrayBlocks + 2
         /\ IsoBlocks \in Nat /\ IsoBlocks >= VolumeEnd
         /\ pc # "idle" => doing.at * SectorBlocks >= VolumeEnd
         /\ arrayBlocks > 0 <=> HasGPT
<1>1. /\ volume \in Nat /\ arrayBlocks \in Nat /\ size \in Nat /\ total \in Nat
      /\ Volume \in Nat /\ Volume >= volume /\ doing.at \in Nat /\ doing.sectors \in Nat
      /\ pc # "idle" => doing.at >= volume
      /\ SectorBlocks \in Nat /\ VolumeEnd \in Nat /\ VolumeEnd > arrayBlocks + 2
  BY GrowAssumption DEF GrowInv, ShapeOK, BehindVolume, Volume
<1>2. IsoBlocks \in Nat /\ IsoBlocks >= VolumeEnd
  BY <1>1, Scaled DEF IsoBlocks, VolumeEnd, Volume
<1>3. doing.at * SectorBlocks \in Nat /\ doing.sectors * SectorBlocks \in Nat
  BY <1>1, Scaled
<1>4. pc # "idle" => doing.at * SectorBlocks >= VolumeEnd
  BY <1>1, Scaled DEF VolumeEnd
<1>5. arrayBlocks > 0 <=> HasGPT
  BY DEF GrowInv, ShapeOK, HeaderKept, HasGPT
<1> QED BY <1>1, <1>2, <1>3, <1>4, <1>5

\* An error, which changes nothing else.
Failed == pc' = "idle" /\ outcome' = "error" /\ UNCHANGED <<called, added>>

LEMMA DataEffect ==
  ASSUME GrowInv, WriteData
  PROVE  /\ pc = "data" /\ UNCHANGED <<layout, mbr, tables, doing, total, history>>
         /\ \E m \in 0..(doing.sectors * SectorBlocks) :
              LET from == doing.at * SectorBlocks
              IN  /\ size' = IF m > 0 /\ from + m > size THEN from + m ELSE size
                  /\ DOMAIN block' = 0..(size' - 1)
                  /\ \A b \in 0..(size' - 1) :
                       block'[b] = IF from <= b /\ b < from + m
                                   THEN FileCell(doing.file, b - from + 1)
                                   ELSE IF b < size THEN block[b] ELSE Zero
                  /\ \/ Failed
                     \/ m = doing.sectors * SectorBlocks /\ Goto("primary")
<1> DEFINE from == doing.at * SectorBlocks
           len == doing.sectors * SectorBlocks
           cells == [k \in 1..len |-> FileCell(doing.file, k)]
           S == {FileCell(doing.file, k) : k \in 1..len}
<1>1. from \in Nat /\ len \in Nat /\ size \in Nat
  BY Blocks
<1>2. cells \in Seq(S) /\ Len(cells) = len /\ \A k \in 1..len : cells[k] = FileCell(doing.file, k)
  BY <1>1
<1>3. PICK whole \in BOOLEAN :
        \/ whole /\ Written(from, cells) /\ Goto("primary")
        \/ ~whole /\ Failed /\ \E k \in 0..(Len(cells) - 1) : Written(from, SubSeq(cells, 1, k))
  BY DEF WriteData, Write, Fail, Failed
<1> HIDE DEF cells, S, from, len
<1>4. PICK m \in 0..Len(cells) : (whole => m = Len(cells)) /\ Part(from, cells, m)
  BY <1>1, <1>2, <1>3, SomeWritten
<1>5. \A b \in 0..(size' - 1) :
        from <= b /\ b < from + m => cells[b - from + 1] = FileCell(doing.file, b - from + 1)
  <2> SUFFICES ASSUME NEW b \in 0..(size' - 1), from <= b, b < from + m
               PROVE  cells[b - from + 1] = FileCell(doing.file, b - from + 1)
    OBVIOUS
  <2>1. m \in Nat /\ m <= len
    BY <1>2
  <2>2. b - from + 1 \in 1..len
    BY <2>1, <1>1, <1>2
  <2> QED BY <2>2, <1>2
<1>6. \A b \in 0..(size' - 1) :
        block'[b] = IF from <= b /\ b < from + m
                    THEN FileCell(doing.file, b - from + 1)
                    ELSE IF b < size THEN block[b] ELSE Zero
  BY <1>4, <1>5 DEF Part
<1>7. Failed \/ (m = len /\ Goto("primary"))
  BY <1>2, <1>3, <1>4
<1>8. m \in 0..len
  BY <1>2
<1>9. pc = "data" /\ UNCHANGED <<layout, mbr, tables, doing, total, history>>
  BY DEF WriteData
<1>10. size' = (IF m > 0 /\ from + m > size THEN from + m ELSE size) /\ DOMAIN block' = 0..(size' - 1)
  BY <1>4 DEF Part
<1> QED BY <1>6, <1>7, <1>8, <1>9, <1>10 DEF from, len

\* From resize on the image ends behind the volume and all its tables.
LEMMA RoomToGrow ==
  ASSUME GrowInv, Sized, pc \in Growing \/ Done
  PROVE  /\ size = total /\ total > arrayBlocks + 2
         /\ total >= IsoBlocks
         /\ pc \in InGPT => arrayBlocks > 0
         /\ arrayBlocks > 0 /\ "blind" \notin history => total >= IsoBlocks + Reserved
<1>1. IsoBlocks \in Nat /\ IsoBlocks + Reserved \in Nat /\ Reserved \in Nat
  BY Blocks, GrowAssumption
<1>2. /\ RoundedUp(IsoBlocks) \in Nat /\ RoundedUp(IsoBlocks) >= IsoBlocks
      /\ RoundedUp(IsoBlocks + Reserved) \in Nat
      /\ RoundedUp(IsoBlocks + Reserved) >= IsoBlocks + Reserved
  BY <1>1, RoundedUpGrows
<1>3. /\ arrayBlocks \in Nat /\ total \in Nat /\ VolumeEnd \in Nat
      /\ VolumeEnd > arrayBlocks + 2 /\ IsoBlocks >= VolumeEnd
  BY Blocks
<1>4. size = total /\ total >= IsoBlocks
      /\ (arrayBlocks > 0 /\ "blind" \notin history => total >= IsoBlocks + Reserved)
  <2>1. CASE total = RoundedUp(IsoBlocks + Reserved)
    <3> HIDE DEF IsoBlocks
    <3> QED BY <2>1, <1>1, <1>2 DEF Sized
  <2>2. CASE total = RoundedUp(IsoBlocks) /\ (arrayBlocks = 0 \/ "blind" \in history)
    <3> HIDE DEF IsoBlocks
    <3> QED BY <2>2, <1>1, <1>2 DEF Sized
  <2> QED BY <2>1, <2>2 DEF Sized
<1>5. pc \in InGPT => arrayBlocks > 0
  BY DEF GrowInv, RoomForBackup
<1> QED BY <1>1, <1>3, <1>4, <1>5

\* An entry array that was written, or a part of it.
ArrayAt(from, m) ==
  /\ size' = size /\ DOMAIN block' = 0..(size - 1)
  /\ \A b \in 0..(size - 1) :
       block'[b] = IF from <= b /\ b < from + m THEN ArrayCell(b - from + 1, LastBlock)
                   ELSE block[b]

LEMMA ArrayWritten ==
  ASSUME NEW from \in Nat, size \in Nat, arrayBlocks \in Nat, from + arrayBlocks <= size,
         NEW whole \in BOOLEAN,
         \/ whole /\ Written(from, Array(LastBlock))
         \/ ~whole /\ \E k \in 0..(Len(Array(LastBlock)) - 1) :
                         Written(from, SubSeq(Array(LastBlock), 1, k))
  PROVE  \E m \in 0..arrayBlocks : (whole => m = arrayBlocks) /\ ArrayAt(from, m)
<1> DEFINE cells == Array(LastBlock)
           S == {ArrayCell(k, LastBlock) : k \in 1..arrayBlocks}
<1>1. /\ cells \in Seq(S) /\ Len(cells) = arrayBlocks
      /\ \A k \in 1..arrayBlocks : cells[k] = ArrayCell(k, LastBlock)
  BY DEF Array
<1>2. \/ whole /\ Written(from, cells)
      \/ ~whole /\ \E k \in 0..(Len(cells) - 1) : Written(from, SubSeq(cells, 1, k))
  OBVIOUS
<1> HIDE DEF cells, S
<1>3. PICK m \in 0..Len(cells) : (whole => m = Len(cells)) /\ Part(from, cells, m)
  BY <1>1, <1>2, SomeWritten
<1>4. size' = size /\ m \in 0..arrayBlocks
  BY <1>1, <1>3 DEF Part
<1>5. \A b \in 0..(size - 1) :
        from <= b /\ b < from + m => cells[b - from + 1] = ArrayCell(b - from + 1, LastBlock)
  <2> SUFFICES ASSUME NEW b \in 0..(size - 1), from <= b, b < from + m
               PROVE  cells[b - from + 1] = ArrayCell(b - from + 1, LastBlock)
    OBVIOUS
  <2>1. b - from + 1 \in 1..arrayBlocks
    BY <1>1
  <2> QED BY <2>1, <1>1
<1>6. ArrayAt(from, m)
  <2>1. DOMAIN block' = 0..(size - 1)
    BY <1>3, <1>4 DEF Part
  <2>2. ASSUME NEW b \in 0..(size - 1)
        PROVE  block'[b] = IF from <= b /\ b < from + m
                           THEN ArrayCell(b - from + 1, LastBlock) ELSE block[b]
    <3>1. block'[b] = IF from <= b /\ b < from + m THEN cells[b - from + 1] ELSE block[b]
      BY <1>3, <1>4 DEF Part
    <3>2. CASE from <= b /\ b < from + m
      BY <3>1, <3>2, <1>4, <1>5
    <3>3. CASE ~(from <= b /\ b < from + m)
      BY <3>1, <3>3
    <3> QED BY <3>2, <3>3
  <2> QED BY <1>4, <2>1, <2>2 DEF ArrayAt
<1> QED BY <1>1, <1>3, <1>4, <1>6

LEMMA EntriesEffect ==
  ASSUME GrowInv, Sized, WriteEntries
  PROVE  /\ pc = "array" /\ UNCHANGED <<layout, mbr, tables, doing, total, history>>
         /\ arrayBlocks > 0
         /\ \E m \in 0..arrayBlocks :
              /\ ArrayAt(2, m)
              /\ Failed \/ (m = arrayBlocks /\ Goto("head"))
<1>1. pc = "array" /\ HasGPT /\ UNCHANGED <<layout, mbr, tables, doing, total, history>>
  BY DEF WriteEntries
<1>2. arrayBlocks > 0 /\ arrayBlocks \in Nat /\ size \in Nat
  BY <1>1, Blocks
<1>3. Gpt.entries = 2
  BY <1>2 DEF GrowInv, HeaderKept, Gpt
<1>4. size > arrayBlocks + 2
  BY <1>1, RoomToGrow DEF Growing
<1>5. PICK whole \in BOOLEAN :
        \/ whole /\ Written(2, Array(LastBlock)) /\ Goto("head")
        \/ /\ ~whole /\ Failed
           /\ \E k \in 0..(Len(Array(LastBlock)) - 1) : Written(2, SubSeq(Array(LastBlock), 1, k))
  BY <1>3 DEF WriteEntries, Write, Fail, Failed
<1>6. PICK m \in 0..arrayBlocks : (whole => m = arrayBlocks) /\ ArrayAt(2, m)
  BY <1>2, <1>4, <1>5, ArrayWritten
<1> QED BY <1>1, <1>2, <1>5, <1>6

LEMMA BackupEntriesEffect ==
  ASSUME GrowInv, Sized, WriteBackupEntries
  PROVE  /\ pc = "backup array" /\ UNCHANGED <<layout, mbr, tables, doing, total, history>>
         /\ \E m \in 0..arrayBlocks :
              /\ ArrayAt(total - 1 - arrayBlocks, m)
              /\ Failed \/ (m = arrayBlocks /\ Goto("backup head"))
<1> DEFINE from == total - 1 - arrayBlocks
<1>1. /\ pc = "backup array"
      /\ UNCHANGED <<layout, mbr, tables, doing, total, history>>
  BY DEF WriteBackupEntries
<1>2. arrayBlocks \in Nat /\ size \in Nat /\ total \in Nat
  BY Blocks
<1>3. size = total /\ total > arrayBlocks + 2
  BY <1>1, RoomToGrow DEF Growing
<1>4. from \in Nat /\ from + arrayBlocks <= size
  BY <1>2, <1>3
<1>5. PICK whole \in BOOLEAN :
        \/ whole /\ Written(from, Array(LastBlock)) /\ Goto("backup head")
        \/ /\ ~whole /\ Failed
           /\ \E k \in 0..(Len(Array(LastBlock)) - 1) :
                Written(from, SubSeq(Array(LastBlock), 1, k))
  BY DEF WriteBackupEntries, Write, Fail, Failed
<1> HIDE DEF from
<1>6. PICK m \in 0..arrayBlocks : (whole => m = arrayBlocks) /\ ArrayAt(from, m)
  BY <1>2, <1>4, <1>5, ArrayWritten
<1> QED BY <1>1, <1>5, <1>6 DEF from

\* A block that is written, or is not.
BlockAt(at, cell, whole) ==
  /\ size' = size /\ DOMAIN block' = 0..(size - 1)
  /\ \A b \in 0..(size - 1) : block'[b] = IF whole /\ b = at THEN cell ELSE block[b]

LEMMA BlockWritten ==
  ASSUME NEW at \in Nat, NEW cell, size \in Nat, at < size, NEW whole \in BOOLEAN,
         \/ whole /\ Written(at, <<cell>>)
         \/ ~whole /\ \E k \in 0..(Len(<<cell>>) - 1) : Written(at, SubSeq(<<cell>>, 1, k))
  PROVE  BlockAt(at, cell, whole)
<1> DEFINE cells == <<cell>>
<1>1. cells \in Seq({cell}) /\ Len(cells) = 1 /\ cells[1] = cell
  OBVIOUS
<1>2. \/ whole /\ Written(at, cells)
      \/ ~whole /\ \E k \in 0..(Len(cells) - 1) : Written(at, SubSeq(cells, 1, k))
  OBVIOUS
<1> HIDE DEF cells
<1>3. CASE whole
  <2>1. Part(at, cells, 1)
    BY <1>1, <1>2, <1>3, WholeWritten
  <2> QED BY <2>1, <1>1, <1>3 DEF Part, BlockAt
<1>4. CASE ~whole
  <2>1. PICK k \in 0..(Len(cells) - 1) : Written(at, SubSeq(cells, 1, k))
    BY <1>2, <1>4
  <2>2. k = 0
    BY <1>1
  <2>3. Part(at, cells, 0)
    BY <2>1, <2>2, <1>1, PartWritten
  <2> QED BY <2>3, <1>4 DEF Part, BlockAt
<1> QED BY <1>3, <1>4

LEMMA HeaderEffect ==
  ASSUME GrowInv, Sized, WriteHeader
  PROVE  /\ pc = "head" /\ UNCHANGED <<layout, mbr, tables, doing, total>>
         /\ history' = history \cup IF Gpt.alternate = total - 1 THEN {"same end"} ELSE {}
         /\ \E whole \in BOOLEAN :
              /\ BlockAt(1, HeadCell(Primary(total, LastBlock)), whole)
              /\ \/ ~whole /\ Failed
                 \/ whole /\ Goto("backup array")
<1>1. /\ pc = "head" /\ UNCHANGED <<layout, mbr, tables, doing, total>>
      /\ history' = history \cup IF Gpt.alternate = total - 1 THEN {"same end"} ELSE {}
  BY DEF WriteHeader
<1> DEFINE cell == HeadCell(Primary(total, LastBlock))
<1>2. PICK whole \in BOOLEAN :
        \/ whole /\ Written(1, <<cell>>) /\ Goto("backup array")
        \/ /\ ~whole /\ Failed
           /\ \E k \in 0..(Len(<<cell>>) - 1) : Written(1, SubSeq(<<cell>>, 1, k))
  BY DEF WriteHeader, Write, Fail, Failed
<1>3. 1 < size /\ size \in Nat
  BY DEF GrowInv, HeaderKept, ShapeOK
<1> HIDE DEF cell
<1>4. BlockAt(1, cell, whole)
  BY <1>2, <1>3, BlockWritten
<1> QED BY <1>1, <1>2, <1>4 DEF cell

LEMMA BackupHeaderEffect ==
  ASSUME GrowInv, Sized, WriteBackupHeader
  PROVE  /\ pc = "backup head" /\ UNCHANGED <<layout, mbr, tables, doing, total, history>>
         /\ \E whole \in BOOLEAN :
              /\ BlockAt(total - 1, HeadCell(Backup(total, LastBlock)), whole)
              /\ \/ ~whole /\ Failed
                 \/ whole /\ Succeed
<1>1. /\ pc = "backup head"
      /\ UNCHANGED <<layout, mbr, tables, doing, total, history>>
  BY DEF WriteBackupHeader
<1> DEFINE cell == HeadCell(Backup(total, LastBlock))
           at == total - 1
<1>2. PICK whole \in BOOLEAN :
        \/ whole /\ Written(at, <<cell>>) /\ Succeed
        \/ /\ ~whole /\ Failed
           /\ \E k \in 0..(Len(<<cell>>) - 1) : Written(at, SubSeq(<<cell>>, 1, k))
  BY DEF WriteBackupHeader, Write, Fail, Failed
<1>3. at \in Nat /\ at < size /\ size \in Nat
  <2>1. arrayBlocks \in Nat /\ size \in Nat /\ total \in Nat
    BY Blocks
  <2>2. size = total /\ total > arrayBlocks + 2
    BY <1>1, RoomToGrow DEF Growing
  <2> QED BY <2>1, <2>2
<1> HIDE DEF cell, at
<1>4. BlockAt(at, cell, whole)
  BY <1>2, <1>3, BlockWritten
<1> QED BY <1>1, <1>2, <1>4 DEF cell, at

LEMMA TruncateEffect ==
  ASSUME GrowInv, Truncate
  PROVE  /\ pc = "resize" /\ UNCHANGED <<layout, mbr, tables, doing>>
         /\ \/ /\ total' = RoundedUp(IsoBlocks + Reserved) /\ arrayBlocks > 0
               /\ history' = history
            \/ /\ total' = RoundedUp(IsoBlocks) /\ arrayBlocks = 0 /\ history' = history
            \/ /\ total' = RoundedUp(IsoBlocks)
               /\ history' = history \cup {"blind"}
         /\ \/ Failed /\ UNCHANGED <<size, block>>
            \/ /\ Goto("mbr") /\ size' = total' /\ DOMAIN block' = 0..(size' - 1)
               /\ \A b \in 0..(size' - 1) :
                    block'[b] = IF b < size THEN block[b] ELSE Zero
<1>1. pc = "resize" /\ UNCHANGED <<layout, mbr, tables, doing>>
  BY DEF Truncate
<1>2. PICK seen \in {HasGPT, FALSE} :
        /\ total' = RoundedUp(IsoBlocks + (IF seen THEN Reserved ELSE 0))
        /\ history' = history \cup IF HasGPT # seen THEN {"blind"} ELSE {}
  BY DEF Truncate
<1>3. IsoBlocks + 0 = IsoBlocks /\ arrayBlocks \in Nat /\ (arrayBlocks > 0 <=> HasGPT)
  BY Blocks
<1>4. \/ /\ total' = RoundedUp(IsoBlocks + Reserved) /\ arrayBlocks > 0
         /\ history' = history
      \/ /\ total' = RoundedUp(IsoBlocks) /\ arrayBlocks = 0 /\ history' = history
      \/ /\ total' = RoundedUp(IsoBlocks)
         /\ history' = history \cup {"blind"}
  <2>1. HasGPT \in BOOLEAN
    BY DEF HasGPT
  <2>2. CASE seen = HasGPT /\ HasGPT
    BY <1>2, <1>3, <2>2
  <2>3. CASE seen = HasGPT /\ ~HasGPT
    BY <1>2, <1>3, <2>1, <2>3
  <2>4. CASE ~seen /\ HasGPT
    BY <1>2, <1>3, <2>4
  <2> QED BY <1>2, <2>1, <2>2, <2>3, <2>4
<1>5. \/ Failed /\ UNCHANGED <<size, block>>
      \/ Goto("mbr") /\ Truncated(total')
  BY DEF Truncate, Fail, Failed
<1>6. Truncated(total') => /\ size' = total' /\ DOMAIN block' = 0..(size' - 1)
                           /\ \A b \in 0..(size' - 1) :
                                block'[b] = IF b < size THEN block[b] ELSE Zero
  BY DEF Truncated
<1> QED BY <1>1, <1>4, <1>5, <1>6

-----------------------------------------------------------------------------
(* Types, and how far AddFile has come. *)

BlocksTyped ==
  /\ size \in Nat /\ DOMAIN block = 0..(size - 1)
  /\ \A b \in 0..(size - 1) : block[b][1] \in Kinds

RestTyped ==
  /\ volume \in Volumes /\ arrayBlocks \in ArrayLengths
  /\ "primary" \in trees /\ trees \subseteq {"primary", "joliet"}
  /\ mbr \in [signed : BOOLEAN, start : {0, 1}, count : 0..MbrMax]
  /\ space \in [trees -> Nat]
  /\ \A t \in trees : listed[t] \subseteq Records
  /\ pc \in Steps /\ doing \in Records \cup {Nothing} /\ total \in Nat
  /\ called \subseteq Files /\ added \subseteq Records
  /\ outcome \in {"none", "ok", "error"} /\ history \subseteq {"blind", "same end"}

\* Every directory is there to be listed in.
Domains == DOMAIN listed = trees

LEMMA Typed == TypeOK <=> BlocksTyped /\ RestTyped
  BY DEF TypeOK, BlocksTyped, RestTyped

LEMMA TypeInit == Init => TypeOK /\ Domains
<1> SUFFICES ASSUME Init PROVE TypeOK /\ Domains
  OBVIOUS
<1>1. GrowInv
  BY GrowInit
<1>2. PICK slack \in Slacks, payload \in Payloads :
        LET backup == IF arrayBlocks > 0 THEN arrayBlocks + 1 ELSE 0
            n == RoundedUp(volume * SectorBlocks + slack + backup)
        IN  /\ size = n + payload
            /\ block = [b \in 0..(n + payload - 1) |-> Released(n, b)]
            /\ total = n
            /\ n <= MbrMax
            /\ mbr \in [signed : BOOLEAN, start : {0, 1}, count : {n}]
  BY DEF Init
<1> DEFINE backup == IF arrayBlocks > 0 THEN arrayBlocks + 1 ELSE 0
           n == RoundedUp(volume * SectorBlocks + slack + backup)
<1>3. /\ size = n + payload /\ total = n /\ n <= MbrMax
      /\ block = [b \in 0..(n + payload - 1) |-> Released(n, b)]
      /\ mbr \in [signed : BOOLEAN, start : {0, 1}, count : {n}]
  BY <1>2
<1> HIDE DEF n
<1>4. size \in Nat /\ n \in Nat /\ payload \in Nat
  BY <1>1, <1>3, Blocks, GrowAssumption
<1>5. BlocksTyped
  <2>1. DOMAIN block = 0..(size - 1)
    BY <1>3, <1>4
  <2>2. ASSUME NEW b \in 0..(size - 1)
        PROVE  block[b][1] \in Kinds
    <3>1. block[b] = Released(n, b)
      BY <1>3, <1>4
    <3>2. Released(n, b)[1] \in Kinds
      BY DEF Released, Kinds
    <3> QED BY <3>1, <3>2
  <2> QED BY <1>4, <2>1, <2>2 DEF BlocksTyped
<1>6. mbr \in [signed : BOOLEAN, start : {0, 1}, count : 0..MbrMax]
  BY <1>3, <1>4, GrowAssumption
<1>7. space \in [trees -> Nat]
  BY <1>1 DEF GrowInv, BehindVolume
<1>8. RestTyped
  BY <1>3, <1>4, <1>6, <1>7 DEF Init, RestTyped, Steps
<1> QED BY <1>5, <1>8, Typed DEF Init, Domains

LEMMA ArrayTyped ==
  ASSUME BlocksTyped, NEW from \in Nat, NEW m \in Nat, ArrayAt(from, m)
  PROVE  BlocksTyped'
<1>1. size' = size /\ DOMAIN block' = 0..(size - 1)
  BY DEF ArrayAt
<1>2. ASSUME NEW b \in 0..(size - 1)
      PROVE  block'[b][1] \in Kinds
  <2>1. block'[b] = ArrayCell(b - from + 1, LastBlock) \/ block'[b] = block[b]
    BY DEF ArrayAt
  <2> QED BY <2>1 DEF BlocksTyped, Kinds
<1> QED BY <1>1, <1>2 DEF BlocksTyped

LEMMA BlockTyped ==
  ASSUME BlocksTyped, NEW at, NEW h, NEW whole, BlockAt(at, HeadCell(h), whole)
  PROVE  BlocksTyped'
<1>1. size' = size /\ DOMAIN block' = 0..(size - 1)
  BY DEF BlockAt
<1>2. ASSUME NEW b \in 0..(size - 1)
      PROVE  block'[b][1] \in Kinds
  <2>1. block'[b] = HeadCell(h) \/ block'[b] = block[b]
    BY DEF BlockAt
  <2> QED BY <2>1 DEF BlocksTyped, Kinds
<1> QED BY <1>1, <1>2 DEF BlocksTyped

LEMMA TypeStep ==
  ASSUME GrowInv, TypeOK, Domains, PlaceInv, [Next]_vars
  PROVE  TypeOK' /\ Domains'
<1>1. GrowInv'
  BY GrowStep
<1>2. size' \in Nat /\ total' \in Nat /\ space' \in [trees' -> Nat]
  BY <1>1 DEF GrowInv, ShapeOK, BehindVolume
<1>3. BlocksTyped /\ RestTyped /\ Sized /\ Progress
  BY Typed DEF PlaceInv
<1>4. BlocksTyped'
  <2>1. CASE UNCHANGED <<size, block>>
    BY <2>1, <1>3 DEF BlocksTyped
  <2>2. CASE WriteData
    <3>1. DOMAIN block' = 0..(size' - 1)
      BY <2>2, DataEffect
    <3>2. ASSUME NEW b \in 0..(size' - 1)
          PROVE  block'[b][1] \in Kinds
      <4>1. \/ \E k : block'[b] = FileCell(doing.file, k)
            \/ b < size /\ block'[b] = block[b]
            \/ block'[b] = Zero
        BY <2>2, DataEffect
      <4>2. CASE b < size /\ block'[b] = block[b]
        <5>1. b \in 0..(size - 1)
          BY <1>2, <1>3, <4>2 DEF BlocksTyped
        <5> QED BY <1>3, <4>2, <5>1 DEF BlocksTyped
      <4> QED BY <4>1, <4>2 DEF Kinds
    <3> QED BY <1>2, <3>1, <3>2 DEF BlocksTyped
  <2>3. CASE Truncate
    <3>1. CASE UNCHANGED <<size, block>>
      BY <1>3, <3>1 DEF BlocksTyped
    <3>2. CASE ~UNCHANGED <<size, block>>
      <4>1. /\ DOMAIN block' = 0..(size' - 1)
            /\ \A b \in 0..(size' - 1) : block'[b] = IF b < size THEN block[b] ELSE Zero
        BY <2>3, <3>2, TruncateEffect
      <4>2. ASSUME NEW b \in 0..(size' - 1)
            PROVE  block'[b][1] \in Kinds
        <5>1. CASE b < size
          <6>1. b \in 0..(size - 1)
            BY <1>2, <1>3, <5>1 DEF BlocksTyped
          <6> QED BY <1>3, <4>1, <5>1, <6>1 DEF BlocksTyped
        <5>2. CASE ~(b < size)
          BY <4>1, <5>2 DEF Kinds
        <5> QED BY <5>1, <5>2
      <4> QED BY <1>2, <4>1, <4>2 DEF BlocksTyped
    <3> QED BY <3>1, <3>2
  <2>4. CASE WriteEntries
    <3>1. PICK m \in 0..arrayBlocks : ArrayAt(2, m)
      BY <1>3, <2>4, EntriesEffect
    <3>2. m \in Nat
      BY <1>3, <2>4, EntriesEffect, Blocks
    <3> QED BY <1>3, <3>1, <3>2, ArrayTyped
  <2>5. CASE WriteHeader
    <3>1. PICK whole \in BOOLEAN :
            BlockAt(1, HeadCell(Primary(total, LastBlock)), whole)
      BY <1>3, <2>5, HeaderEffect
    <3> QED BY <1>3, <3>1, BlockTyped
  <2>6. CASE WriteBackupEntries
    <3>1. PICK m \in 0..arrayBlocks : ArrayAt(total - 1 - arrayBlocks, m)
      BY <1>3, <2>6, BackupEntriesEffect
    <3>2. arrayBlocks \in Nat /\ total \in Nat
      BY Blocks
    <3>3. total > arrayBlocks + 2
      BY <1>3, <2>6, RoomToGrow DEF Growing, WriteBackupEntries
    <3>4. m \in Nat /\ total - 1 - arrayBlocks \in Nat
      BY <3>2, <3>3
    <3> QED BY <1>3, <3>1, <3>4, ArrayTyped
  <2>7. CASE WriteBackupHeader
    <3>1. PICK whole \in BOOLEAN :
            BlockAt(total - 1, HeadCell(Backup(total, LastBlock)), whole)
      BY <1>3, <2>7, BackupHeaderEffect
    <3> QED BY <1>3, <3>1, BlockTyped
  <2> QED
    BY <2>1, <2>2, <2>3, <2>4, <2>5, <2>6, <2>7
    DEF Next, vars, AddFile, InsertRecord, SetVolumeSpaceSize, GrowMBR, NoGPT
<1>5. RestTyped' /\ Domains'
  <2> USE DEF RestTyped, Steps, layout, tables, log, Domains
  <2>1. ASSUME NEW f \in Files, NEW n \in Lengths, AddFile(f, n)
        PROVE  RestTyped' /\ Domains'
    <3>1. doing' \in Records
      BY <1>1, <1>3, <2>1, GrowAssumption DEF AddFile, Records, GrowInv, BehindVolume
    <3> QED BY <1>2, <1>3, <2>1, <3>1 DEF AddFile
  <2>2. CASE WriteData
    BY <1>2, <1>3, <2>2, DataEffect DEF Failed, Goto
  <2>3. ASSUME NEW t \in trees, InsertRecord(t)
        PROVE  RestTyped' /\ Domains'
    <3>1. doing \in Records /\ pc # "idle"
      BY <1>3, <2>3 DEF InsertRecord, Progress
    <3>2. \A s \in trees : listed'[s] \subseteq Records
      <4>1. CASE UNCHANGED listed
        BY <1>3, <4>1
      <4>2. CASE listed' = [listed EXCEPT ![t] = @ \cup {doing}]
        BY <1>3, <3>1, <4>2
      <4> QED BY <2>3, <4>1, <4>2 DEF InsertRecord
    <3>3. Domains'
      BY <2>3 DEF InsertRecord
    <3>4. /\ UNCHANGED <<layout, mbr, space, doing, total, history, called, added>>
          /\ pc' \in Steps /\ outcome' \in {"none", "ok", "error"}
      BY <1>3, <2>3 DEF InsertRecord, Goto, Fail, AfterRecord
    <3> QED BY <1>2, <1>3, <3>2, <3>3, <3>4
  <2>4. ASSUME NEW t \in trees, SetVolumeSpaceSize(t)
        PROVE  RestTyped' /\ Domains'
    <3>1. /\ UNCHANGED <<layout, mbr, listed, doing, total, history, called, added>>
          /\ pc' \in Steps /\ outcome' \in {"none", "ok", "error"}
      BY <1>3, <2>4 DEF SetVolumeSpaceSize, Goto, Fail, AfterSize
    <3> QED BY <1>2, <1>3, <3>1
  <2>5. CASE Truncate
    BY <1>2, <1>3, <2>5, TruncateEffect DEF Failed, Goto
  <2>6. CASE GrowMBR
    <3>1. mbr' \in [signed : BOOLEAN, start : {0, 1}, count : 0..MbrMax]
      <4>1. CASE mbr' = mbr
        BY <1>3, <4>1
      <4>2. CASE total <= MbrMax /\ mbr' = [mbr EXCEPT !.count = total]
        <5>1. total \in Nat /\ MbrMax \in Nat
          BY Blocks, GrowAssumption
        <5>2. total \in 0..MbrMax
          BY <4>2, <5>1
        <5> QED BY <1>3, <4>2, <5>2
      <4> QED BY <2>6, <4>1, <4>2 DEF GrowMBR
    <3> QED BY <1>2, <1>3, <2>6, <3>1 DEF GrowMBR, Goto, Fail
  <2>7. CASE NoGPT
    <3>1. doing \in Records /\ pc # "idle"
      BY <1>3, <2>7 DEF NoGPT, Progress
    <3> QED BY <1>2, <1>3, <2>7, <3>1 DEF NoGPT, Succeed, Fail
  <2>8. CASE WriteEntries
    BY <1>2, <1>3, <2>8, EntriesEffect DEF Failed, Goto
  <2>9. CASE WriteHeader
    BY <1>2, <1>3, <2>9, HeaderEffect DEF Failed, Goto
  <2>10. CASE WriteBackupEntries
    BY <1>2, <1>3, <2>10, BackupEntriesEffect DEF Failed, Goto
  <2>11. CASE WriteBackupHeader
    <3>1. doing \in Records /\ pc # "idle"
      BY <1>3, <2>11 DEF WriteBackupHeader, Progress
    <3> QED BY <1>2, <1>3, <2>11, <3>1, BackupHeaderEffect DEF Succeed, Failed
  <2>12. CASE UNCHANGED vars
    BY <1>2, <1>3, <2>12 DEF vars
  <2> QED
    BY <2>1, <2>2, <2>3, <2>4, <2>5, <2>6, <2>7, <2>8, <2>9, <2>10, <2>11, <2>12 DEF Next
<1> QED BY <1>4, <1>5, Typed DEF TypeOK, BlocksTyped, RestTyped

LEMMA PlaceInit == Init => PlaceInv
  BY DEF Init, PlaceInv, Progress, AddedPlaced, Sized, Done, Placing, Recorded, Declared, Growing

LEMMA PlaceStep ==
  ASSUME GrowInv, TypeOK, Domains, PlaceInv, [Next]_vars
  PROVE  PlaceInv'
<1> USE DEF Placing, Recorded, Declared, Growing, Done
<1>1. RestTyped /\ Progress /\ AddedPlaced /\ Sized
  BY Typed DEF PlaceInv
\* An error leaves the tables as they are.
<1>2. ASSUME Failed, UNCHANGED <<layout, tables, doing>>
      PROVE  PlaceInv'
  BY <1>1, <1>2 DEF Failed, layout, tables, PlaceInv, Progress, AddedPlaced, Sized
\* So does a write that goes through before the last one.
<1>3. ASSUME UNCHANGED <<layout, tables, doing, total, history, log>>, size' = size,
             \/ pc = "mbr" /\ pc' = "array"
             \/ pc = "array" /\ pc' = "head"
             \/ pc = "backup array" /\ pc' = "backup head"
      PROVE  PlaceInv'
  <2>1. Progress' /\ AddedPlaced'
    BY <1>1, <1>3 DEF layout, tables, log, Progress, AddedPlaced
  <2>2. IsoBlocks' = IsoBlocks /\ RoundedUp(IsoBlocks)' = RoundedUp(IsoBlocks)
        /\ RoundedUp(IsoBlocks + Reserved)' = RoundedUp(IsoBlocks + Reserved)
    BY <1>3 DEF tables, IsoBlocks, RoundedUp
  <2>3. Sized'
    BY <1>1, <1>3, <2>2 DEF layout, log, Sized, Progress
  <2> QED BY <2>1, <2>3 DEF PlaceInv
\* A success adds what lies within the volume and is listed.
<1>4. ASSUME UNCHANGED <<layout, tables, doing, total, history>>, size' = size, Succeed,
             pc \in Growing
      PROVE  PlaceInv'
  <2>1. Progress'
    BY <1>1, <1>4 DEF layout, tables, Progress, Succeed
  <2>2. doing \in Records /\ doing.at >= volume /\ doing.at \in Nat /\ doing.sectors \in Nat
    BY <1>1, <1>4 DEF Progress, GrowInv, BehindVolume
  <2>3. doing.at + doing.sectors = space["primary"] /\ \A t \in trees : doing \in listed[t]
    BY <1>1, <1>4 DEF Progress, RestTyped
  <2>4. AddedPlaced'
    <3> SUFFICES ASSUME NEW r \in added \cup {doing}
                 PROVE  /\ r.at >= volume /\ r.at + r.sectors <= space["primary"]
                        /\ \A t \in trees : r \in listed[t]
      BY <1>4 DEF layout, tables, AddedPlaced, Succeed
    <3>1. CASE r = doing
      BY <2>2, <2>3, <3>1
    <3> QED BY <1>1, <3>1 DEF AddedPlaced
  <2>5. IsoBlocks' = IsoBlocks /\ RoundedUp(IsoBlocks)' = RoundedUp(IsoBlocks)
        /\ RoundedUp(IsoBlocks + Reserved)' = RoundedUp(IsoBlocks + Reserved)
    BY <1>4 DEF tables, IsoBlocks, RoundedUp
  <2>6. Sized'
    BY <1>1, <1>4, <2>5 DEF layout, Sized
  <2> QED BY <2>1, <2>4, <2>6 DEF PlaceInv
<1>5. ASSUME NEW f \in Files, NEW n \in Lengths, AddFile(f, n)
      PROVE  PlaceInv'
  <2>1. /\ UNCHANGED <<layout, tables, added>> /\ pc' = "data" /\ outcome' = "none"
        /\ doing' = [file |-> f, at |-> space["primary"], sectors |-> n]
    BY <1>5 DEF AddFile
  <2>2. doing' \in Records
    BY <1>1, <2>1, GrowAssumption DEF Records, RestTyped
  <2> QED
    BY <1>1, <2>1, <2>2 DEF layout, tables, PlaceInv, Progress, AddedPlaced, Sized
<1>6. CASE WriteData
  <2>1. /\ pc = "data" /\ UNCHANGED <<layout, tables, doing, total, history>>
        /\ Failed \/ Goto("primary")
    BY <1>6, DataEffect
  <2>2. CASE Goto("primary")
    BY <1>1, <2>1, <2>2
    DEF Goto, log, layout, tables, PlaceInv, Progress, AddedPlaced, Sized
  <2> QED BY <1>2, <2>1, <2>2
<1>7. ASSUME NEW t \in trees, InsertRecord(t)
      PROVE  PlaceInv'
  <2>1. /\ pc = t /\ UNCHANGED <<layout, space, doing>>
        /\ \/ Failed /\ UNCHANGED listed
           \/ /\ listed' = [listed EXCEPT ![t] = @ \cup {doing}]
              /\ Goto(AfterRecord(t)) \/ Failed
    BY <1>7 DEF InsertRecord, Fail, Failed
  <2>2. CASE Failed /\ UNCHANGED listed
    BY <1>2, <2>1, <2>2 DEF tables
  <2>3. CASE listed' = [listed EXCEPT ![t] = @ \cup {doing}] /\ Goto(AfterRecord(t))
    <3>1. /\ \A s \in trees : listed[s] \subseteq listed'[s]
          /\ doing \in listed'[t] /\ DOMAIN listed = trees
      BY <2>3 DEF Domains
    <3>2. pc' \in {"joliet", "primary size"} /\ outcome' = outcome /\ added' = added
      BY <1>1, <2>3 DEF AfterRecord, Goto, log
    <3>3. AddedPlaced'
      BY <1>1, <2>1, <3>1, <3>2 DEF AddedPlaced, layout
    <3>4. Sized'
      BY <1>1, <2>1, <3>2 DEF Sized, Progress
    <3>5. CASE t = "primary"
      <4>1. pc' = IF "joliet" \in trees THEN "joliet" ELSE "primary size"
        BY <2>3, <3>5 DEF AfterRecord, Goto
      <4>2. Progress'
        BY <1>1, <2>1, <3>1, <3>2, <3>5, <4>1 DEF Progress, layout
      <4> QED BY <3>3, <3>4, <4>2 DEF PlaceInv
    <3>6. CASE t = "joliet"
      <4>1. pc' = "primary size"
        BY <2>3, <3>6 DEF AfterRecord, Goto
      <4>2. Progress'
        BY <1>1, <2>1, <3>1, <3>2, <3>6, <4>1 DEF Progress, layout, RestTyped
      <4> QED BY <3>3, <3>4, <4>2 DEF PlaceInv
    <3> QED BY <1>1, <3>5, <3>6 DEF RestTyped
  \* The record is listed all the same.
  <2>4. CASE listed' = [listed EXCEPT ![t] = @ \cup {doing}] /\ Failed
    <3>1. \A s \in trees : listed[s] \subseteq listed'[s]
      BY <2>4 DEF Domains
    <3>2. pc' = "idle" /\ outcome' = "error" /\ added' = added
      BY <2>4 DEF Failed
    <3>3. AddedPlaced'
      BY <1>1, <2>1, <3>1, <3>2 DEF AddedPlaced, layout
    <3>4. Progress' /\ Sized'
      BY <1>1, <2>1, <3>2 DEF Sized, Progress
    <3> QED BY <3>3, <3>4 DEF PlaceInv
  <2> QED BY <2>1, <2>2, <2>3, <2>4
<1>8. ASSUME NEW t \in trees, SetVolumeSpaceSize(t)
      PROVE  PlaceInv'
  <2>1. /\ pc = (IF t = "primary" THEN "primary size" ELSE "joliet size")
        /\ UNCHANGED <<layout, listed, doing>>
        /\ \/ Failed /\ UNCHANGED space
           \/ /\ space' = [space EXCEPT ![t] = doing.at + doing.sectors] /\ Goto(AfterSize(t))
    BY <1>8 DEF SetVolumeSpaceSize, Fail, Failed
  <2>2. CASE Failed /\ UNCHANGED space
    BY <1>2, <2>1, <2>2 DEF tables
  <2>3. CASE space' = [space EXCEPT ![t] = doing.at + doing.sectors] /\ Goto(AfterSize(t))
    <3>1. /\ outcome' = outcome /\ added' = added /\ pc' = AfterSize(t)
          /\ doing.at \in Nat /\ doing.sectors \in Nat /\ space["primary"] \in Nat
          /\ space \in [trees -> Nat] /\ "primary" \in trees
      BY <1>1, <2>3 DEF Goto, log, GrowInv, BehindVolume, RestTyped
    <3>2. space'["primary"] = doing.at + doing.sectors /\ space'["primary"] >= space["primary"]
      <4>1. CASE t = "primary"
        <5>1. pc = "primary size"
          BY <2>1, <4>1
        <5>2. doing.at = space["primary"]
          BY <1>1, <5>1 DEF Progress
        <5>3. space'["primary"] = doing.at + doing.sectors
          BY <2>3, <3>1, <4>1
        <5> QED BY <3>1, <5>2, <5>3
      <4>2. CASE t # "primary"
        <5>1. t = "joliet" /\ pc = "joliet size"
          BY <1>1, <2>1, <4>2 DEF RestTyped
        <5>2. space'["primary"] = space["primary"]
          BY <2>3, <3>1, <4>2
        <5>3. space["primary"] = doing.at + doing.sectors
          BY <1>1, <5>1 DEF Progress
        <5> QED BY <3>1, <5>2, <5>3
      <4> QED BY <4>1, <4>2
    <3>3. AddedPlaced'
      <4> SUFFICES ASSUME NEW r \in added
                   PROVE  /\ r.at >= volume /\ r.at + r.sectors <= space'["primary"]
                          /\ \A s \in trees : r \in listed[s]
        BY <2>1, <3>1 DEF AddedPlaced, layout
      <4>1. r.at \in Nat /\ r.sectors \in Nat
        BY <1>1, GrowAssumption DEF RestTyped, Records
      <4> QED BY <1>1, <3>1, <3>2, <4>1 DEF AddedPlaced
    <3>4. Sized'
      BY <1>1, <2>1, <3>1 DEF Sized, Progress, AfterSize
    <3>5. CASE t = "primary"
      <4>1. pc' = IF "joliet" \in trees THEN "joliet size" ELSE "resize"
        BY <3>1, <3>5 DEF AfterSize
      <4>2. "joliet" \notin trees => \A s \in trees : s = "primary"
        BY <1>1 DEF RestTyped
      <4>3. Progress'
        BY <1>1, <2>1, <3>1, <3>2, <3>5, <4>1, <4>2 DEF Progress, layout
      <4> QED BY <3>3, <3>4, <4>3 DEF PlaceInv
    <3>6. CASE t = "joliet"
      <4>1. pc' = "resize"
        BY <3>1, <3>6 DEF AfterSize
      <4>2. \A s \in trees : space'[s] = doing.at + doing.sectors
        BY <1>1, <2>3, <3>1, <3>2, <3>6 DEF RestTyped
      <4>3. Progress'
        BY <1>1, <2>1, <3>1, <3>2, <3>6, <4>1, <4>2 DEF Progress, layout
      <4> QED BY <3>3, <3>4, <4>3 DEF PlaceInv
    <3> QED BY <1>1, <3>5, <3>6 DEF RestTyped
  <2> QED BY <2>1, <2>2, <2>3
<1>9. CASE Truncate
  <2>1. pc = "resize" /\ UNCHANGED <<layout, tables, doing>>
    BY <1>9, TruncateEffect
  <2>2. CASE Failed
    BY <1>2, <2>1, <2>2
  <2>3. CASE Goto("mbr") /\ size' = total'
    <3>1. Progress' /\ AddedPlaced'
      BY <1>1, <2>1, <2>3 DEF Goto, log, layout, tables, Progress, AddedPlaced
    <3>2. /\ RoundedUp(IsoBlocks)' = RoundedUp(IsoBlocks)
          /\ RoundedUp(IsoBlocks + Reserved)' = RoundedUp(IsoBlocks + Reserved)
      BY <2>1 DEF tables, IsoBlocks, RoundedUp
    <3>3. Sized'
      BY <1>9, <2>1, <2>3, <3>2, TruncateEffect DEF Sized, layout
    <3> QED BY <3>1, <3>3 DEF PlaceInv
  <2> QED BY <1>9, <2>2, <2>3, TruncateEffect
<1>10. CASE GrowMBR
  <2>1. /\ pc = "mbr" /\ UNCHANGED <<layout, size, tables, doing, total, history>>
        /\ Failed \/ Goto("array")
    BY <1>10 DEF GrowMBR, Fail, Failed
  <2> QED BY <1>2, <1>3, <2>1 DEF Goto
<1>11. CASE NoGPT
  <2>1. /\ pc = "array" /\ UNCHANGED <<layout, size, tables, doing, total, history>>
        /\ Failed \/ Succeed
    BY <1>11 DEF NoGPT, Fail, Failed
  <2> QED BY <1>2, <1>4, <2>1
<1>12. CASE WriteEntries
  <2>1. /\ pc = "array" /\ UNCHANGED <<layout, tables, doing, total, history>> /\ size' = size
        /\ Failed \/ Goto("head")
    BY <1>1, <1>12, EntriesEffect DEF ArrayAt
  <2> QED BY <1>2, <1>3, <2>1 DEF Goto
<1>13. CASE WriteHeader
  <2>1. /\ pc = "head" /\ UNCHANGED <<layout, tables, doing, total>> /\ size' = size
        /\ history' = history \cup IF Gpt.alternate = total - 1 THEN {"same end"} ELSE {}
        /\ Failed \/ Goto("backup array")
    BY <1>1, <1>13, HeaderEffect DEF BlockAt
  <2>2. CASE Goto("backup array")
    <3>1. Progress' /\ AddedPlaced'
      BY <1>1, <2>1, <2>2 DEF layout, tables, log, Goto, Progress, AddedPlaced
    <3>2. /\ RoundedUp(IsoBlocks)' = RoundedUp(IsoBlocks)
          /\ RoundedUp(IsoBlocks + Reserved)' = RoundedUp(IsoBlocks + Reserved)
      BY <2>1 DEF tables, IsoBlocks, RoundedUp
    <3>3. Sized'
      BY <1>1, <2>1, <3>2 DEF layout, Sized
    <3> QED BY <3>1, <3>3 DEF PlaceInv
  <2> QED BY <1>2, <2>1, <2>2
<1>14. CASE WriteBackupEntries
  <2>1. /\ pc = "backup array" /\ UNCHANGED <<layout, tables, doing, total, history>>
        /\ size' = size
        /\ Failed \/ Goto("backup head")
    BY <1>1, <1>14, BackupEntriesEffect DEF ArrayAt
  <2> QED BY <1>2, <1>3, <2>1 DEF Goto
<1>15. CASE WriteBackupHeader
  <2>1. /\ pc = "backup head" /\ UNCHANGED <<layout, tables, doing, total, history>>
        /\ size' = size
        /\ Failed \/ Succeed
    BY <1>1, <1>15, BackupHeaderEffect DEF BlockAt
  <2> QED BY <1>2, <1>4, <2>1
<1>16. CASE UNCHANGED vars
  BY <1>1, <1>16
  DEF vars, layout, tables, log, PlaceInv, Progress, AddedPlaced, Sized, IsoBlocks, RoundedUp
<1> QED
  BY <1>5, <1>6, <1>7, <1>8, <1>9, <1>10, <1>11, <1>12, <1>13, <1>14, <1>15, <1>16 DEF Next

-----------------------------------------------------------------------------
(* The data of the files. *)

LEMMA Distributed ==
  ASSUME NEW m \in Nat, NEW n \in Nat, NEW k \in Nat
  PROVE  (m + n) * k = m * k + n * k
  OBVIOUS

\* A file within the volume has its blocks between the original volume and the
\* end of the one there is now.
LEMMA FileBlocks ==
  ASSUME GrowInv, NEW r \in Records, r.at >= volume, r.at + r.sectors <= space["primary"]
  PROVE  /\ r.at * SectorBlocks \in Nat /\ r.sectors * SectorBlocks \in Nat
         /\ r.at * SectorBlocks >= VolumeEnd
         /\ r.at * SectorBlocks + r.sectors * SectorBlocks <= IsoBlocks
<1>1. /\ r.at \in Nat /\ r.sectors \in Nat /\ SectorBlocks \in Nat /\ volume \in Nat
      /\ space["primary"] \in Nat
  BY Blocks, GrowAssumption DEF Records, Volume
<1>2. r.at * SectorBlocks \in Nat /\ r.at * SectorBlocks >= VolumeEnd
  BY <1>1, Scaled DEF VolumeEnd
<1>3. r.sectors * SectorBlocks \in Nat
  BY <1>1, Scaled
<1>4. (r.at + r.sectors) * SectorBlocks <= IsoBlocks
  <2>1. r.at + r.sectors \in Nat
    BY <1>1
  <2> QED BY <1>1, <2>1, Scaled DEF IsoBlocks
<1>5. (r.at + r.sectors) * SectorBlocks = r.at * SectorBlocks + r.sectors * SectorBlocks
  BY <1>1, Distributed
<1> QED BY <1>2, <1>3, <1>4, <1>5

\* The blocks of the files are left alone.
Spared ==
  \A b \in VolumeEnd..(IsoBlocks - 1) : b < size => b < size' /\ block'[b] = block[b]

LEMMA DataStays ==
  ASSUME GrowInv, NEW r \in Records, r.at >= volume, r.at + r.sectors <= space["primary"],
         Spared, Data(r)
  PROVE  Data(r)'
<1>1. /\ r.at * SectorBlocks \in Nat /\ r.sectors * SectorBlocks \in Nat
      /\ r.at * SectorBlocks >= VolumeEnd
      /\ r.at * SectorBlocks + r.sectors * SectorBlocks <= IsoBlocks
      /\ VolumeEnd \in Nat /\ IsoBlocks \in Nat
  BY FileBlocks, Blocks
<1> DEFINE from == r.at * SectorBlocks
           len == r.sectors * SectorBlocks
<1>2. \A k \in 1..len : from + k - 1 < size /\ block[from + k - 1] = FileCell(r.file, k)
  BY DEF Data
<1> HIDE DEF from, len
<1>3. ASSUME NEW k \in 1..len
      PROVE  from + k - 1 < size' /\ block'[from + k - 1] = FileCell(r.file, k)
  <2>1. from + k - 1 \in VolumeEnd..(IsoBlocks - 1)
    BY <1>1 DEF from, len
  <2> QED BY <1>2, <2>1 DEF Spared
<1> QED BY <1>3 DEF Data, from, len

\* What is in place stays there through a step that spares the files and adds
\* none but the one it worked on.
LEMMA DataFrame ==
  ASSUME GrowInv, TypeOK, PlaceInv, DataInv,
         doing' = doing, BackupFits' => BackupFits,
         pc \in Recorded, pc' \in Recorded \cup {"idle"},
         BackupFits => Spared, added' \subseteq added \cup {doing}
  PROVE  DataInv'
<1>1. /\ doing \in Records /\ doing.at >= volume
      /\ doing.at + doing.sectors <= space["primary"]
  <2>1. doing \in Records /\ space["primary"] = doing.at + doing.sectors /\ doing.at >= volume
    BY DEF PlaceInv, Progress, Recorded, Growing, GrowInv, BehindVolume
  <2>2. doing.at + doing.sectors \in Nat
    BY Blocks
  <2> QED BY <2>1, <2>2
<1>2. PICK d : d = doing
  OBVIOUS
<1>3. /\ d \in Records /\ d.at >= volume /\ d.at + d.sectors <= space["primary"]
      /\ Data(d) <=> Data(doing)
  BY <1>1, <1>2 DEF Data
<1>4. Data(d)' <=> Data(doing)'
  BY <1>2 DEF Data
<1>5. \A r \in added : r \in Records /\ r.at >= volume /\ r.at + r.sectors <= space["primary"]
  BY DEF PlaceInv, AddedPlaced, TypeOK
<1>6. ASSUME BackupFits
      PROVE  Data(d)' /\ \A r \in added : Data(r)'
  <2>1. Data(d)
    BY <1>3, <1>6 DEF DataInv
  <2>2. \A r \in added : Data(r)
    BY <1>6 DEF DataInv
  <2>3. Data(d)'
    BY <1>3, <1>6, <2>1, DataStays
  <2>4. ASSUME NEW r \in added
        PROVE  Data(r)'
    BY <1>5, <1>6, <2>2, DataStays
  <2> QED BY <2>3, <2>4
<1>7. pc' \notin Stored
  BY DEF Stored, Recorded, Growing
<1> QED BY <1>2, <1>4, <1>6, <1>7 DEF DataInv

LEMMA DataInit == Init => DataInv
  BY DEF Init, DataInv, Stored, Recorded, Growing

LEMMA DataStep ==
  ASSUME GrowInv, TypeOK, PlaceInv, DataInv, [Next]_vars
  PROVE  DataInv'
<1> USE DEF Stored, Recorded, Growing
<1>1. Sized /\ Progress
  BY DEF PlaceInv
<1>2. /\ VolumeEnd \in Nat /\ VolumeEnd > arrayBlocks + 2 /\ arrayBlocks \in Nat
      /\ IsoBlocks \in Nat /\ IsoBlocks >= VolumeEnd /\ size \in Nat
      /\ Reserved \in Nat /\ total \in Nat
  BY Blocks, GrowAssumption
\* A step that touches no block and leaves the file in the stage it had reached.
<1>3. ASSUME UNCHANGED <<size, block, layout, history, doing>>, added' = added,
             \/ pc' = "idle"
             \/ pc \in Stored /\ pc' \in Stored \cup Recorded
             \/ pc \in Recorded /\ pc' \in Recorded
             \/ pc' = pc
      PROVE  DataInv'
  BY <1>3 DEF DataInv, Data, BackupFits, layout
<1>4. ASSUME NEW f \in Files, NEW n \in Lengths, AddFile(f, n)
      PROVE  DataInv'
  BY <1>4 DEF AddFile, DataInv, Data, BackupFits, layout
<1>5. CASE WriteData
  <2> DEFINE from == doing.at * SectorBlocks
             len == doing.sectors * SectorBlocks
  <2>1. /\ pc = "data" /\ UNCHANGED <<layout, mbr, tables, doing, total, history>>
        /\ pc' \in {"idle", "primary"} /\ added' = added
    BY <1>5, DataEffect DEF Failed, Goto, log
  <2>2. from = IsoBlocks /\ from \in Nat /\ len \in Nat
    BY <1>1, <2>1, Blocks DEF Progress, Placing, IsoBlocks
  <2>3. PICK m \in 0..len :
          /\ size' = IF m > 0 /\ from + m > size THEN from + m ELSE size
          /\ \A b \in 0..(size' - 1) :
               block'[b] = IF from <= b /\ b < from + m
                           THEN FileCell(doing.file, b - from + 1)
                           ELSE IF b < size THEN block[b] ELSE Zero
          /\ Failed \/ m = len
    BY <1>5, DataEffect
  <2> HIDE DEF from, len
  <2>7. PICK n : n = size'
    OBVIOUS
  <2>8. /\ n \in Nat /\ n >= size /\ (m > 0 => n >= from + m)
        /\ \A b \in 0..(n - 1) :
             block'[b] = IF from <= b /\ b < from + m
                         THEN FileCell(doing.file, b - from + 1)
                         ELSE IF b < size THEN block[b] ELSE Zero
    BY <1>2, <2>2, <2>3, <2>7
  <2>4. Spared
    <3> SUFFICES ASSUME NEW b \in VolumeEnd..(IsoBlocks - 1), b < size
                 PROVE  b < size' /\ block'[b] = block[b]
      BY DEF Spared
    <3>1. b \in Nat /\ b < from /\ m \in Nat
      BY <1>2, <2>2
    <3>2. b < n /\ b \in 0..(n - 1)
      BY <1>2, <2>8, <3>1
    <3>3. ~(from <= b /\ b < from + m)
      BY <2>2, <3>1
    <3> QED BY <2>7, <2>8, <3>2, <3>3
  <2>5. BackupFits' => \A r \in added' : Data(r)'
    <3> SUFFICES ASSUME BackupFits, NEW r \in added
                 PROVE  Data(r)'
      BY <2>1 DEF BackupFits, layout
    <3>1. r \in Records /\ r.at >= volume /\ r.at + r.sectors <= space["primary"] /\ Data(r)
      BY DEF PlaceInv, AddedPlaced, TypeOK, DataInv
    <3> QED BY <2>4, <3>1, DataStays
  <2>6. pc' = "primary" => Data(doing)'
    <3> SUFFICES ASSUME pc' = "primary", NEW k \in 1..len
                 PROVE  /\ from + k - 1 < size'
                        /\ block'[from + k - 1] = FileCell(doing.file, k)
      BY <2>1 DEF Data, from, len
    <3>1. m = len
      BY <2>3 DEF Failed
    <3>2. from + k - 1 < n
      BY <2>2, <2>8, <3>1
    <3>3. from + k - 1 \in 0..(n - 1) /\ (from + k - 1) - from + 1 = k
      BY <2>2, <2>8, <3>2
    <3>4. from <= from + k - 1 /\ from + k - 1 < from + m
      BY <2>2, <3>1
    <3> QED BY <2>7, <2>8, <3>2, <3>3, <3>4
  <2> QED BY <2>1, <2>5, <2>6 DEF DataInv
<1>6. ASSUME NEW t \in trees, InsertRecord(t)
      PROVE  DataInv'
  <2>1. /\ UNCHANGED <<size, block, layout, history, doing>> /\ added' = added
        /\ pc \in {"primary", "joliet"} /\ pc' \in {"idle", "joliet", "primary size"}
    BY <1>6 DEF InsertRecord, Fail, Goto, AfterRecord, log, TypeOK
  <2> QED BY <1>3, <2>1
<1>7. ASSUME NEW t \in trees, SetVolumeSpaceSize(t)
      PROVE  DataInv'
  <2>1. /\ UNCHANGED <<size, block, layout, history, doing>> /\ added' = added
        /\ pc \in {"primary size", "joliet size"} /\ pc' \in {"idle", "joliet size", "resize"}
    BY <1>7 DEF SetVolumeSpaceSize, Fail, Goto, AfterSize, log, TypeOK
  <2> QED BY <1>3, <2>1
<1>8. CASE Truncate
  <2>1. /\ pc = "resize" /\ UNCHANGED <<layout, mbr, tables, doing>>
        /\ pc' \in {"idle", "mbr"} /\ added' = added /\ history \subseteq history'
    BY <1>8, TruncateEffect DEF Failed, Goto, log
  <2>2. total' \in Nat /\ total' >= IsoBlocks
    <3>1. total' \in {RoundedUp(IsoBlocks), RoundedUp(IsoBlocks + Reserved)}
      BY <1>8, TruncateEffect
    <3>2. RoundedUp(IsoBlocks) \in Nat /\ RoundedUp(IsoBlocks) >= IsoBlocks
      BY <1>2, RoundedUpGrows
    <3>3. /\ RoundedUp(IsoBlocks + Reserved) \in Nat
          /\ RoundedUp(IsoBlocks + Reserved) >= IsoBlocks + Reserved
      BY <1>2, RoundedUpGrows
    <3> QED BY <1>2, <3>1, <3>2, <3>3
  <2>3. Spared
    <3>1. \/ UNCHANGED <<size, block>>
          \/ /\ size' = total'
             /\ \A b \in 0..(size' - 1) : block'[b] = IF b < size THEN block[b] ELSE Zero
      BY <1>8, TruncateEffect
    <3> SUFFICES ASSUME NEW b \in VolumeEnd..(IsoBlocks - 1), b < size
                 PROVE  b < size' /\ block'[b] = block[b]
      BY DEF Spared
    <3>2. PICK n : n = total'
      OBVIOUS
    <3>3. n \in Nat /\ n >= IsoBlocks
      BY <2>2, <3>2
    <3>4. b < n /\ b \in 0..(n - 1)
      BY <1>2, <3>3
    <3> QED BY <3>1, <3>2, <3>4
  <2>4. BackupFits' => BackupFits
    BY <2>1 DEF BackupFits, layout
  <2> QED BY <2>1, <2>3, <2>4, DataFrame
<1>9. CASE GrowMBR
  <2>1. /\ UNCHANGED <<size, block, layout, history, doing>> /\ added' = added
        /\ pc = "mbr" /\ pc' \in {"idle", "array"}
    BY <1>9 DEF GrowMBR, Fail, Goto, log
  <2> QED BY <1>3, <2>1
<1>10. CASE NoGPT
  <2>1. /\ UNCHANGED <<size, block, layout, history, doing>>
        /\ added' \subseteq added \cup {doing} /\ pc = "array" /\ pc' = "idle"
    BY <1>10 DEF NoGPT, Fail, Succeed
  <2> QED BY <2>1, DataFrame DEF Spared, BackupFits, layout
\* A write of the tables, before the files or behind them.
<1>11. ASSUME UNCHANGED <<layout, doing>>, BackupFits' => BackupFits,
              pc \in Growing, pc' \in Growing \cup {"idle"},
              added' \subseteq added \cup {doing}, size' = size,
              NEW from \in Nat, NEW to \in Nat,
              \A b \in 0..(size - 1) : ~(from <= b /\ b < to) => block'[b] = block[b],
              to <= arrayBlocks + 2 \/ (BackupFits => from >= IsoBlocks)
       PROVE  DataInv'
  <2>1. ASSUME BackupFits
        PROVE  Spared
    <3> SUFFICES ASSUME NEW b \in VolumeEnd..(IsoBlocks - 1), b < size
                 PROVE  block'[b] = block[b]
      BY <1>11 DEF Spared
    <3>1. to <= arrayBlocks + 2 \/ from >= IsoBlocks
      BY <1>11, <2>1
    <3>2. b \in 0..(size - 1) /\ ~(from <= b /\ b < to)
      BY <1>2, <3>1
    <3> QED BY <1>11, <3>2
  <2> QED BY <1>11, <2>1, DataFrame
<1>12. CASE WriteEntries
  <2>1. PICK m \in 0..arrayBlocks : ArrayAt(2, m)
    BY <1>1, <1>12, EntriesEffect
  <2> DEFINE from == 2
             to == 2 + m
  <2>2. /\ UNCHANGED <<layout, doing>> /\ history' = history /\ added' = added
        /\ pc = "array" /\ pc' \in {"idle", "head"}
    BY <1>1, <1>12, EntriesEffect DEF Failed, Goto, log
  <2>3. /\ size' = size /\ from \in Nat /\ to \in Nat /\ to <= arrayBlocks + 2
        /\ \A b \in 0..(size - 1) : ~(from <= b /\ b < to) => block'[b] = block[b]
    BY <1>2, <2>1 DEF ArrayAt
  <2> HIDE DEF from, to
  <2>4. BackupFits' => BackupFits
    BY <2>2 DEF BackupFits, layout
  <2> QED BY <1>11, <2>2, <2>3, <2>4
<1>13. CASE WriteHeader
  <2>1. PICK whole \in BOOLEAN : BlockAt(1, HeadCell(Primary(total, LastBlock)), whole)
    BY <1>1, <1>13, HeaderEffect
  <2>2. /\ UNCHANGED <<layout, doing>> /\ history \subseteq history' /\ added' = added
        /\ pc = "head" /\ pc' \in {"idle", "backup array"}
    BY <1>1, <1>13, HeaderEffect DEF Failed, Goto, log
  <2> DEFINE from == 1
             to == 2
  <2>3. /\ size' = size /\ from \in Nat /\ to \in Nat /\ to <= arrayBlocks + 2
        /\ \A b \in 0..(size - 1) : ~(from <= b /\ b < to) => block'[b] = block[b]
    BY <1>2, <2>1 DEF BlockAt
  <2> HIDE DEF from, to
  <2>4. BackupFits' => BackupFits
    BY <2>2 DEF BackupFits, layout
  <2> QED BY <1>11, <2>2, <2>3, <2>4
<1>14. CASE WriteBackupEntries
  <2> DEFINE from == total - 1 - arrayBlocks
  <2>1. PICK m \in 0..arrayBlocks : ArrayAt(from, m)
    BY <1>1, <1>14, BackupEntriesEffect
  <2>2. /\ UNCHANGED <<layout, doing>> /\ history' = history /\ added' = added
        /\ pc = "backup array" /\ pc' \in {"idle", "backup head"}
    BY <1>1, <1>14, BackupEntriesEffect DEF Failed, Goto, log
  <2>3. /\ total > arrayBlocks + 2 /\ arrayBlocks > 0
        /\ arrayBlocks > 0 /\ "blind" \notin history => total >= IsoBlocks + Reserved
    BY <1>1, <2>2, RoomToGrow DEF InGPT
  <2>4. from \in Nat /\ from + m \in Nat /\ (BackupFits => from >= IsoBlocks)
    BY <1>2, <2>3 DEF BackupFits
  <2> HIDE DEF from
  <2>5. /\ size' = size
        /\ \A b \in 0..(size - 1) : ~(from <= b /\ b < from + m) => block'[b] = block[b]
    BY <2>1 DEF ArrayAt
  <2>6. BackupFits' => BackupFits
    BY <2>2 DEF BackupFits, layout
  <2> QED BY <1>11, <2>2, <2>4, <2>5, <2>6
<1>15. CASE WriteBackupHeader
  <2> DEFINE from == total - 1
  <2>1. PICK whole \in BOOLEAN : BlockAt(from, HeadCell(Backup(total, LastBlock)), whole)
    BY <1>1, <1>15, BackupHeaderEffect
  <2>2. /\ UNCHANGED <<layout, doing>> /\ history' = history
        /\ added' \subseteq added \cup {doing} /\ pc = "backup head" /\ pc' = "idle"
    BY <1>1, <1>15, BackupHeaderEffect DEF Failed, Succeed
  <2>3. /\ total > arrayBlocks + 2 /\ arrayBlocks > 0
        /\ arrayBlocks > 0 /\ "blind" \notin history => total >= IsoBlocks + Reserved
    BY <1>1, <2>2, RoomToGrow DEF InGPT
  <2>4. from \in Nat /\ from + 1 \in Nat /\ (BackupFits => from >= IsoBlocks)
    BY <1>2, <2>3 DEF BackupFits
  <2> HIDE DEF from
  <2>5. /\ size' = size
        /\ \A b \in 0..(size - 1) : ~(from <= b /\ b < from + 1) => block'[b] = block[b]
    BY <2>1, <2>4 DEF BlockAt
  <2>6. BackupFits' => BackupFits
    BY <2>2 DEF BackupFits, layout
  <2> QED BY <1>11, <2>2, <2>4, <2>5, <2>6
<1>16. CASE UNCHANGED vars
  BY <1>3, <1>16 DEF vars, log
<1> QED
  BY <1>4, <1>5, <1>6, <1>7, <1>8, <1>9, <1>10, <1>12, <1>13, <1>14, <1>15, <1>16 DEF Next

-----------------------------------------------------------------------------
(* The tables. *)

LEMMA TablesInit == Init => TablesInv
  BY DEF Init, TablesInv, Done, Growing, InGPT

\* The entries the new tables are made of do not change while they are written.
LEMMA SameTables ==
  ASSUME UNCHANGED <<layout, tables, total>>
  PROVE  /\ LastBlock' = LastBlock
         /\ Primary(total, LastBlock)' = Primary(total, LastBlock)
         /\ Backup(total, LastBlock)' = Backup(total, LastBlock)
  BY DEF layout, tables, LastBlock, IsoBlocks, Primary, Backup

LEMMA TablesStep ==
  ASSUME GrowInv, TypeOK, PlaceInv, TablesInv, [Next]_vars
  PROVE  TablesInv'
<1> USE DEF Growing, InGPT, Done
<1>1. Sized /\ Progress
  BY DEF PlaceInv
<1>2. /\ VolumeEnd \in Nat /\ VolumeEnd > arrayBlocks + 2 /\ arrayBlocks \in Nat
      /\ IsoBlocks \in Nat /\ IsoBlocks >= VolumeEnd /\ size \in Nat
      /\ Reserved \in Nat /\ total \in Nat
  BY Blocks, GrowAssumption
\* Nothing is said of an image whose tables are not being written.
<1>3. ASSUME pc' \notin Growing \/ pc' = "mbr", pc' = "idle" => outcome' # "ok"
      PROVE  TablesInv'
  BY <1>3 DEF TablesInv
<1>4. ASSUME Failed
      PROVE  TablesInv'
  BY <1>3, <1>4 DEF Failed
<1>5. ASSUME NEW f \in Files, NEW n \in Lengths, AddFile(f, n)
      PROVE  TablesInv'
  BY <1>3, <1>5 DEF AddFile
<1>6. CASE WriteData
  BY <1>3, <1>4, <1>6, DataEffect DEF Goto
<1>7. ASSUME NEW t \in trees, InsertRecord(t)
      PROVE  TablesInv'
  BY <1>3, <1>4, <1>7 DEF InsertRecord, Fail, Failed, Goto, AfterRecord
<1>8. ASSUME NEW t \in trees, SetVolumeSpaceSize(t)
      PROVE  TablesInv'
  BY <1>3, <1>4, <1>8 DEF SetVolumeSpaceSize, Fail, Failed, Goto, AfterSize
<1>9. CASE Truncate
  BY <1>3, <1>4, <1>9, TruncateEffect DEF Goto
<1>10. CASE GrowMBR
  <2>1. CASE Goto("array")
    <3>1. mbr' = (IF mbr.signed /\ mbr.count # 0 /\ mbr.start = 0
                  THEN [mbr EXCEPT !.count = total] ELSE mbr)
          /\ total' = total
      BY <1>10, <2>1 DEF GrowMBR, Fail, Goto
    <3>2. mbr \in [signed : BOOLEAN, start : {0, 1}, count : 0..MbrMax]
      BY DEF TypeOK
    <3>3. mbr'.signed /\ mbr'.count # 0 /\ mbr'.start = 0 => mbr'.count = total'
      BY <3>1, <3>2
    <3> QED BY <2>1, <3>3 DEF TablesInv, Goto
  <2> QED BY <1>4, <1>10, <2>1 DEF GrowMBR, Fail, Failed
<1>11. CASE NoGPT
  <2>1. CASE Succeed
    <3>1. /\ arrayBlocks = 0 /\ UNCHANGED <<layout, mbr, total>> /\ pc' = "idle"
          /\ pc = "array"
      BY <1>2, <1>11, <2>1, Blocks DEF NoGPT, Succeed
    <3> QED BY <3>1 DEF TablesInv, layout
  <2> QED BY <1>4, <1>11, <2>1 DEF NoGPT, Fail, Failed
<1>12. CASE WriteEntries
  <2>1. CASE ~Failed
    <3>1. /\ pc = "array" /\ pc' = "head" /\ UNCHANGED <<layout, mbr, tables, total, history>>
          /\ ArrayAt(2, arrayBlocks)
      BY <1>1, <1>12, <2>1, EntriesEffect DEF Goto
    <3>2. size > arrayBlocks + 2 /\ LastBlock' = LastBlock
      BY <1>1, <3>1, RoomToGrow, SameTables
    <3>3. ASSUME NEW k \in 1..arrayBlocks
          PROVE  block'[k + 1] = ArrayCell(k, LastBlock)
      <4>1. /\ k + 1 \in 0..(size - 1) /\ 2 <= k + 1 /\ k + 1 < 2 + arrayBlocks
            /\ (k + 1) - 2 + 1 = k
        BY <1>2, <3>2
      <4>2. block'[k + 1] = ArrayCell((k + 1) - 2 + 1, LastBlock)
        BY <3>1, <4>1 DEF ArrayAt
      <4> QED BY <4>1, <4>2
    <3> QED BY <3>1, <3>2, <3>3 DEF TablesInv, layout
  <2> QED BY <1>4, <2>1
<1>13. CASE WriteHeader
  <2>1. CASE ~Failed
    <3>1. /\ pc = "head" /\ pc' = "backup array" /\ UNCHANGED <<layout, mbr, tables, total>>
          /\ history \subseteq history'
          /\ BlockAt(1, HeadCell(Primary(total, LastBlock)), TRUE)
      BY <1>1, <1>13, <2>1, HeaderEffect DEF Goto
    <3>2. size > arrayBlocks + 2 /\ LastBlock' = LastBlock
          /\ Primary(total, LastBlock)' = Primary(total, LastBlock)
      BY <1>1, <3>1, RoomToGrow, SameTables
    <3>3. block'[1] = HeadCell(Primary(total, LastBlock))
      <4>1. 1 \in 0..(size - 1)
        BY <1>2, <3>2
      <4> QED BY <3>1, <4>1 DEF BlockAt
    <3>4. ASSUME NEW k \in 1..arrayBlocks
          PROVE  block'[k + 1] = block[k + 1]
      <4>1. k + 1 \in 0..(size - 1) /\ k + 1 # 1
        BY <1>2, <3>2
      <4> QED BY <3>1, <4>1 DEF BlockAt
    <3>5. BackupFits' => BackupFits
      BY <3>1 DEF BackupFits, layout
    <3> QED BY <3>1, <3>2, <3>3, <3>4, <3>5 DEF TablesInv, layout
  <2> QED BY <1>4, <2>1
<1>14. CASE WriteBackupEntries
  <2>1. CASE ~Failed
    <3> DEFINE from == total - 1 - arrayBlocks
    <3>1. /\ pc = "backup array" /\ pc' = "backup head"
          /\ UNCHANGED <<layout, mbr, tables, total, history>>
          /\ ArrayAt(from, arrayBlocks)
      BY <1>1, <1>14, <2>1, BackupEntriesEffect DEF Goto
    <3>2. /\ size = total /\ total > arrayBlocks + 2 /\ LastBlock' = LastBlock
          /\ Primary(total, LastBlock)' = Primary(total, LastBlock)
          /\ arrayBlocks > 0 /\ "blind" \notin history => total >= IsoBlocks + Reserved
          /\ arrayBlocks > 0
      BY <1>1, <3>1, RoomToGrow, SameTables
    <3>3. from \in Nat /\ from > 1 /\ from + arrayBlocks = total - 1
      BY <1>2, <3>2
    <3>4. BackupFits => from > arrayBlocks + 1
      BY <1>2, <3>2 DEF BackupFits
    <3>5. total - 2 - arrayBlocks = from - 1
      BY <1>2, <3>2
    <3> HIDE DEF from
    <3>6. block'[1] = block[1]
      <4>1. 1 \in 0..(size - 1) /\ ~(from <= 1)
        BY <1>2, <3>2, <3>3
      <4> QED BY <3>1, <4>1 DEF ArrayAt
    <3>7. ASSUME BackupFits, NEW k \in 1..arrayBlocks
          PROVE  block'[k + 1] = block[k + 1]
      <4>1. k + 1 \in 0..(size - 1) /\ ~(from <= k + 1)
        BY <1>2, <3>2, <3>3, <3>4, <3>7
      <4> QED BY <3>1, <4>1 DEF ArrayAt
    <3>8. ASSUME NEW k \in 1..arrayBlocks
          PROVE  block'[from - 1 + k] = ArrayCell(k, LastBlock)
      <4>1. /\ from - 1 + k \in 0..(size - 1) /\ from <= from - 1 + k
            /\ from - 1 + k < from + arrayBlocks
            /\ (from - 1 + k) - from + 1 = k
        BY <1>2, <3>2, <3>3
      <4>2. block'[from - 1 + k] = ArrayCell((from - 1 + k) - from + 1, LastBlock)
        BY <3>1, <4>1 DEF ArrayAt
      <4> QED BY <4>1, <4>2
    <3>9. (total - 2 - arrayBlocks)' = from - 1
      BY <3>1, <3>5 DEF layout
    <3>10. BackupFits' => BackupFits
      BY <3>1 DEF BackupFits, layout
    <3>11. arrayBlocks' = arrayBlocks /\ mbr' = mbr /\ total' = total
      BY <3>1 DEF layout
    <3>12. /\ mbr.signed /\ mbr.count # 0 /\ mbr.start = 0 => mbr.count = total
           /\ block[1] = HeadCell(Primary(total, LastBlock))
           /\ BackupFits => \A k \in 1..arrayBlocks : block[k + 1] = ArrayCell(k, LastBlock)
      BY <3>1 DEF TablesInv
    <3> QED
      BY <3>1, <3>2, <3>6, <3>7, <3>8, <3>9, <3>10, <3>11, <3>12 DEF TablesInv
  <2> QED BY <1>4, <2>1
<1>15. CASE WriteBackupHeader
  <2>1. CASE ~Failed
    <3>1. /\ pc = "backup head" /\ pc' = "idle" /\ outcome' = "ok"
          /\ UNCHANGED <<layout, mbr, tables, total, history>>
          /\ BlockAt(total - 1, HeadCell(Backup(total, LastBlock)), TRUE)
      BY <1>1, <1>15, <2>1, BackupHeaderEffect DEF Succeed
    <3>2. /\ size = total /\ total > arrayBlocks + 2 /\ LastBlock' = LastBlock
          /\ Primary(total, LastBlock)' = Primary(total, LastBlock)
          /\ Backup(total, LastBlock)' = Backup(total, LastBlock)
      BY <1>1, <3>1, RoomToGrow, SameTables
    <3>3. block'[1] = block[1]
      <4>1. 1 \in 0..(size - 1) /\ 1 # total - 1
        BY <1>2, <3>2
      <4> QED BY <3>1, <4>1 DEF BlockAt
    <3>4. ASSUME NEW k \in 1..arrayBlocks
          PROVE  /\ block'[k + 1] = block[k + 1]
                 /\ block'[total - 2 - arrayBlocks + k] = block[total - 2 - arrayBlocks + k]
      <4>1. k + 1 \in 0..(size - 1) /\ k + 1 # total - 1
        BY <1>2, <3>2
      <4>2. /\ total - 2 - arrayBlocks + k \in 0..(size - 1)
            /\ total - 2 - arrayBlocks + k # total - 1
        BY <1>2, <3>2
      <4> QED BY <3>1, <4>1, <4>2 DEF BlockAt
    <3>5. block'[total - 1] = HeadCell(Backup(total, LastBlock))
      <4>1. total - 1 \in 0..(size - 1)
        BY <1>2, <3>2
      <4> QED BY <3>1, <4>1 DEF BlockAt
    <3>6. BackupFits' => BackupFits
      BY <3>1 DEF BackupFits, layout
    <3>7. arrayBlocks' = arrayBlocks /\ mbr' = mbr /\ total' = total
      BY <3>1 DEF layout
    <3>8. /\ mbr.signed /\ mbr.count # 0 /\ mbr.start = 0 => mbr.count = total
          /\ block[1] = HeadCell(Primary(total, LastBlock))
          /\ BackupFits =>
               \A k \in 1..arrayBlocks :
                 /\ block[k + 1] = ArrayCell(k, LastBlock)
                 /\ block[total - 2 - arrayBlocks + k] = ArrayCell(k, LastBlock)
      BY <3>1 DEF TablesInv
    <3> QED BY <3>1, <3>2, <3>3, <3>4, <3>5, <3>6, <3>7, <3>8 DEF TablesInv
  <2> QED BY <1>4, <2>1
<1>16. CASE UNCHANGED vars
  <2>1. UNCHANGED <<layout, tables, total>>
    BY <1>16 DEF vars
  <2> QED BY <1>16, <2>1, SameTables DEF vars, layout, log, TablesInv, BackupFits
<1> QED
  BY <1>5, <1>6, <1>7, <1>8, <1>9, <1>10, <1>11, <1>12, <1>13, <1>14, <1>15, <1>16 DEF Next

LEMMA ConsistentThen ==
  ASSUME GrowInv, TypeOK, PlaceInv, TablesInv
  PROVE  GrownConsistently
<1> SUFFICES ASSUME Done, BackupFits
             PROVE  /\ ValidatePartitions
                    /\ \A t \in trees : space[t] = doing.at + doing.sectors
                    /\ size = total /\ size >= IsoBlocks
                    /\ HasGPT => /\ Gpt.sum = LastBlock /\ LastBlock <= Gpt.lastUsable
                                 /\ Gpt.alternate = size - 1
                                 /\ block[size - 1][2].sum = LastBlock
  BY DEF GrownConsistently, Done
<1>1. \A t \in trees : space[t] = doing.at + doing.sectors
  BY DEF PlaceInv, Progress
<1>2. /\ arrayBlocks \in Nat /\ IsoBlocks \in Nat /\ IsoBlocks > arrayBlocks + 2
      /\ total \in Nat /\ Reserved \in Nat /\ (arrayBlocks > 0 <=> HasGPT)
  BY Blocks, GrowAssumption
<1>3. /\ size = total /\ total >= IsoBlocks
      /\ arrayBlocks > 0 => total >= IsoBlocks + Reserved
  BY RoomToGrow DEF PlaceInv, BackupFits
<1>4. arrayBlocks < Reserved
  BY DEF BackupFits
<1>5. mbr.signed /\ mbr.count # 0 /\ mbr.start = 0 => mbr.count = total
  BY DEF TablesInv
<1>6. CASE arrayBlocks = 0
  <2>1. ~IsHead(1) /\ ~HasGPT
    BY <1>2, <1>6 DEF IsHead, HasGPT
  <2> QED BY <1>1, <1>3, <2>1 DEF ValidatePartitions
<1>7. CASE arrayBlocks > 0
  <2> DEFINE from == total - 1 - arrayBlocks
  <2>1. /\ block[1] = HeadCell(Primary(total, LastBlock))
        /\ block[total - 1] = HeadCell(Backup(total, LastBlock))
        /\ \A k \in 1..arrayBlocks : block[k + 1] = ArrayCell(k, LastBlock)
        /\ \A k \in 1..arrayBlocks :
             block[total - 2 - arrayBlocks + k] = ArrayCell(k, LastBlock)
    BY <1>7 DEF TablesInv
  <2>2. /\ Gpt.entries = 2 /\ Gpt.sum = LastBlock /\ Gpt.alternate = total - 1
        /\ Gpt.lastUsable = total - 2 - arrayBlocks
    BY <2>1 DEF Gpt, Primary
  <2>3. LET backup == block[total - 1][2]
        IN  /\ backup.entries = from /\ backup.sum = LastBlock
            /\ backup.alternate = 1
    <3>1. block[total - 1][2] = Backup(total, LastBlock)
      BY <2>1
    <3>2. /\ Backup(total, LastBlock).entries = from
          /\ Backup(total, LastBlock).sum = LastBlock
          /\ Backup(total, LastBlock).alternate = 1
      BY DEF Primary, Backup
    <3> QED BY <3>1, <3>2
  <2>4. from \in Nat /\ from + arrayBlocks <= size /\ total - 2 - arrayBlocks < from
        /\ 2 + arrayBlocks <= size /\ LastBlock <= total - 2 - arrayBlocks
        /\ total - 1 < size
    BY <1>2, <1>3, <1>4, <1>7 DEF LastBlock
  <2>5. Sealed(Gpt)
    <3>1. ASSUME NEW k \in 1..arrayBlocks
          PROVE  block[2 + k - 1] = ArrayCell(k, LastBlock)
      <4>1. 2 + k - 1 = k + 1
        OBVIOUS
      <4> QED BY <2>1, <4>1
    <3> QED BY <2>2, <2>4, <3>1 DEF Sealed
  <2>6. Sealed(block[total - 1][2])
    <3>1. ASSUME NEW k \in 1..arrayBlocks
          PROVE  block[from + k - 1] = ArrayCell(k, LastBlock)
      <4>1. from + k - 1 = total - 2 - arrayBlocks + k
        BY <1>2
      <4> QED BY <2>1, <4>1
    <3> HIDE DEF from
    <3> QED BY <2>3, <2>4, <3>1 DEF Sealed
  <2>7. IsHead(total - 1)
    BY <2>1, <2>4 DEF IsHead
  <2>8. total - 1 + 1 = total
    BY <1>2
  <2>9. ValidatePartitions
    <3> HIDE DEF from
    <3> QED BY <1>5, <2>2, <2>3, <2>4, <2>5, <2>6, <2>7, <2>8 DEF ValidatePartitions
  <2> QED BY <1>1, <1>3, <2>2, <2>3, <2>4, <2>9
<1> QED BY <1>2, <1>6, <1>7

-----------------------------------------------------------------------------
(* Whole numbers of sectors. *)

LEMMA NextMultiple ==
  ASSUME NEW p \in Nat, NEW q \in Nat, NEW k \in Nat, p * k < q * k
  PROVE  p * k + k <= q * k
<1>1. p < q
  BY Scaled
<1>2. q >= p + 1 /\ p + 1 \in Nat
  BY <1>1
<1>3. q * k >= (p + 1) * k
  BY <1>2, Scaled
<1>4. (p + 1) * k = p * k + k
  OBVIOUS
<1> QED BY <1>3, <1>4

\* The quotient and the remainder.
LEMMA Quotient ==
  ASSUME NEW n \in Nat
  PROVE  /\ n % SectorBlocks \in 0..(SectorBlocks - 1)
         /\ n \div SectorBlocks \in Nat
         /\ n = (n \div SectorBlocks) * SectorBlocks + (n % SectorBlocks)
  BY GrowAssumption

LEMMA RoundedUpIs ==
  ASSUME NEW n \in Nat
  PROVE  /\ RoundedUp(n) \in Nat /\ n <= RoundedUp(n) /\ RoundedUp(n) < n + SectorBlocks
         /\ Multiple(RoundedUp(n))
<1> DEFINE q == n \div SectorBlocks
           r == n % SectorBlocks
<1>1. /\ r \in 0..(SectorBlocks - 1) /\ q \in Nat /\ n = q * SectorBlocks + r
      /\ SectorBlocks \in Nat /\ SectorBlocks > 0 /\ q * SectorBlocks \in Nat
  BY Quotient, GrowAssumption
<1>2. RoundedUp(n) = IF r = 0 THEN n ELSE n + (SectorBlocks - r)
  BY DEF RoundedUp
<1> HIDE DEF q, r
<1>3. CASE r = 0
  BY <1>1, <1>2, <1>3 DEF Multiple
<1>4. CASE r # 0
  <2>1. (q + 1) * SectorBlocks = q * SectorBlocks + SectorBlocks /\ q + 1 \in Nat
    BY <1>1
  <2>2. RoundedUp(n) = q * SectorBlocks + SectorBlocks
    BY <1>1, <1>2, <1>4
  <2>3. RoundedUp(n) \in Nat /\ n <= RoundedUp(n) /\ RoundedUp(n) < n + SectorBlocks
    BY <1>1, <1>4, <2>2
  <2> QED BY <2>1, <2>2, <2>3 DEF Multiple
<1> QED BY <1>3, <1>4

\* A multiple lies a whole sector beyond every smaller one.
LEMMA MultiplesApart ==
  ASSUME NEW m \in Nat, NEW n \in Nat, Multiple(m), Multiple(n), m < n
  PROVE  m + SectorBlocks <= n
<1>1. PICK p \in Nat : m = p * SectorBlocks
  BY DEF Multiple
<1>2. PICK q \in Nat : n = q * SectorBlocks
  BY DEF Multiple
<1> QED BY <1>1, <1>2, NextMultiple, GrowAssumption

LEMMA RoundedMultiple ==
  ASSUME NEW n \in Nat, Multiple(n)
  PROVE  RoundedUp(n) = n
<1>1. /\ RoundedUp(n) \in Nat /\ n <= RoundedUp(n) /\ RoundedUp(n) < n + SectorBlocks
      /\ Multiple(RoundedUp(n)) /\ SectorBlocks \in Nat
  BY RoundedUpIs, GrowAssumption
<1>2. n < RoundedUp(n) => n + SectorBlocks <= RoundedUp(n)
  BY <1>1, MultiplesApart
<1> QED BY <1>1, <1>2

LEMMA RoundedMonotone ==
  ASSUME NEW m \in Nat, NEW n \in Nat, m <= n
  PROVE  RoundedUp(m) <= RoundedUp(n)
<1>1. /\ RoundedUp(n) \in Nat /\ n <= RoundedUp(n) /\ Multiple(RoundedUp(n))
      /\ RoundedUp(m) \in Nat /\ RoundedUp(m) < m + SectorBlocks /\ Multiple(RoundedUp(m))
      /\ SectorBlocks \in Nat
  BY RoundedUpIs, GrowAssumption
<1>2. RoundedUp(n) < RoundedUp(m) => RoundedUp(n) + SectorBlocks <= RoundedUp(m)
  BY <1>1, MultiplesApart
<1> QED BY <1>1, <1>2

-----------------------------------------------------------------------------
(* The headers. *)

LEMMA IsoMultiple ==
  ASSUME GrowInv
  PROVE  /\ Multiple(IsoBlocks) /\ IsoBlocks \in Nat
         /\ RoundedUp(IsoBlocks) = IsoBlocks
         /\ RoundedUp(IsoBlocks + Reserved) \in Nat
         /\ RoundedUp(IsoBlocks + Reserved) >= IsoBlocks + Reserved
         /\ LastBlock \in Nat /\ LastBlock > arrayBlocks + 1 /\ arrayBlocks \in Nat
<1>1. /\ IsoBlocks \in Nat /\ IsoBlocks > arrayBlocks + 2 /\ arrayBlocks \in Nat
      /\ Volume \in Nat /\ Reserved \in Nat
  BY Blocks, GrowAssumption
<1>2. Multiple(IsoBlocks)
  BY <1>1 DEF Multiple, IsoBlocks, Volume
<1>3. RoundedUp(IsoBlocks) = IsoBlocks
  BY <1>1, <1>2, RoundedMultiple
<1>4. /\ RoundedUp(IsoBlocks + Reserved) \in Nat
      /\ RoundedUp(IsoBlocks + Reserved) >= IsoBlocks + Reserved
  BY <1>1, RoundedUpIs
<1>5. LastBlock \in Nat /\ LastBlock > arrayBlocks + 1
  BY <1>1 DEF LastBlock
<1> QED BY <1>1, <1>2, <1>3, <1>4, <1>5

LEMMA SameHeads ==
  ASSUME arrayBlocks' = arrayBlocks
  PROVE  /\ \A n, e : Primary(n, e)' = Primary(n, e)
         /\ \A n, e : Backup(n, e)' = Backup(n, e)
  BY DEF Primary, Backup

\* No header but those that were there.
NoNewHeads == \A b \in Nat : BackupAt(b)' => BackupAt(b) /\ block'[b] = block[b]

LEMMA HeadsFrame ==
  ASSUME HeadsInv, NoNewHeads, arrayBlocks' = arrayBlocks, block'[1] = block[1],
         "same end" \in history => "same end" \in history', space' = space
  PROVE  HeadsInv'
<1>1. Gpt' = Gpt
  BY DEF Gpt
<1>2. LastBlock' = LastBlock /\ RoundedUp(IsoBlocks + Reserved)' = RoundedUp(IsoBlocks + Reserved)
  BY DEF LastBlock, IsoBlocks, RoundedUp
<1>3. /\ \A n, e : Primary(n, e)' = Primary(n, e)
      /\ \A n, e : Backup(n, e)' = Backup(n, e)
  BY SameHeads
<1>4. (arrayBlocks > 0 => \E n \in Nat, e \in Nat : n > 2 /\ block[1] = HeadCell(Primary(n, e)))'
  BY <1>3 DEF HeadsInv
<1>5. ASSUME NEW b \in Nat, BackupAt(b)'
      PROVE  /\ arrayBlocks' > 0
             /\ \E e \in Nat : block'[b] = HeadCell(Backup(b + 1, e))
             /\ b <= Gpt.alternate
             /\ b # Gpt.alternate => Gpt.alternate < RoundedUp(IsoBlocks + Reserved)
             /\ b = LastBlock => block'[b] = HeadCell(Backup(b + 1, LastBlock))
             /\ b = Gpt.alternate /\ "same end" \notin history' =>
                  block'[b] = HeadCell(Backup(b + 1, Gpt.sum))
  <2>1. BackupAt(b) /\ block'[b] = block[b]
    BY <1>5 DEF NoNewHeads
  <2> QED BY <2>1 DEF HeadsInv
<1> QED BY <1>1, <1>2, <1>3, <1>4, <1>5 DEF HeadsInv

LEMMA HeadsInit == Init => HeadsInv /\ StaleInv
<1> SUFFICES ASSUME Init PROVE HeadsInv /\ StaleInv
  OBVIOUS
<1>1. PICK slack \in Slacks, payload \in Payloads :
        LET backup == IF arrayBlocks > 0 THEN arrayBlocks + 1 ELSE 0
            n == RoundedUp(volume * SectorBlocks + slack + backup)
        IN  /\ size = n + payload
            /\ block = [b \in 0..(n + payload - 1) |-> Released(n, b)]
  BY DEF Init
<1> DEFINE backup == IF arrayBlocks > 0 THEN arrayBlocks + 1 ELSE 0
           n == RoundedUp(volume * SectorBlocks + slack + backup)
           end == volume * SectorBlocks - 1
<1>2. GrowInv
  BY GrowInit
<1>3. /\ arrayBlocks \in Nat /\ slack \in Nat /\ payload \in Nat
      /\ VolumeEnd \in Nat /\ VolumeEnd > arrayBlocks + 2
      /\ VolumeEnd = volume * SectorBlocks
  BY <1>2, Blocks, GrowAssumption DEF VolumeEnd
<1>4. VolumeEnd + slack + backup \in Nat
  BY <1>3
<1>5. n \in Nat /\ n >= VolumeEnd + slack + backup /\ Multiple(n)
  BY <1>3, <1>4, RoundedUpIs
<1>6. LastBlock = end /\ end \in Nat /\ end = VolumeEnd - 1
  BY <1>3 DEF LastBlock, IsoBlocks, Init
<1>11. size = n + payload /\ block = [b \in 0..(n + payload - 1) |-> Released(n, b)]
  BY <1>1
<1> HIDE DEF n, end
<1>7. size = n + payload /\ \A b \in 0..(size - 1) : block[b] = Released(n, b)
  BY <1>3, <1>5, <1>11
<1>8. arrayBlocks > 0 => n > 2 /\ block[1] = HeadCell(Primary(n, end))
  <2> SUFFICES ASSUME arrayBlocks > 0
               PROVE  n > 2 /\ block[1] = HeadCell(Primary(n, end))
    OBVIOUS
  <2>1. 1 \in 0..(size - 1) /\ n > 2
    BY <1>3, <1>5, <1>7
  <2>2. Released(n, 1) = HeadCell(Primary(n, end))
    BY DEF Released, end
  <2> QED BY <1>7, <2>1, <2>2
<1>9. ASSUME NEW b \in Nat, BackupAt(b)
      PROVE  arrayBlocks > 0 /\ b = n - 1 /\ block[b] = HeadCell(Backup(n, end))
  <2>1. b \in 2..(size - 1) /\ b \in 0..(size - 1) /\ Released(n, b)[1] = "head"
    BY <1>7, <1>9 DEF BackupAt
  <2>2. arrayBlocks > 0 /\ b = n - 1 /\ Released(n, b) = HeadCell(Backup(n, end))
    BY <2>1 DEF Released, end
  <2> QED BY <1>7, <2>1, <2>2
<1>10. ASSUME NEW b \in Nat, BackupAt(b)
       PROVE  /\ arrayBlocks > 0
              /\ \E e \in Nat : block[b] = HeadCell(Backup(b + 1, e))
              /\ b <= Gpt.alternate
              /\ b # Gpt.alternate => Gpt.alternate < RoundedUp(IsoBlocks + Reserved)
              /\ b = LastBlock => block[b] = HeadCell(Backup(b + 1, LastBlock))
              /\ b = Gpt.alternate /\ "same end" \notin history =>
                   block[b] = HeadCell(Backup(b + 1, Gpt.sum))
  <2>1. arrayBlocks > 0 /\ b = n - 1 /\ block[b] = HeadCell(Backup(n, end)) /\ b + 1 = n
    BY <1>5, <1>9, <1>10
  <2>2. Gpt.alternate = n - 1 /\ Gpt.sum = end
    BY <1>8, <2>1 DEF Gpt, Primary
  <2>3. b \in Nat /\ b <= b
    OBVIOUS
  <2> QED BY <1>6, <2>1, <2>2, <2>3
<1>12. ASSUME NEW b \in Nat, BackupAt(b)
       PROVE  b > LastBlock /\ Multiple(b + 1)
  <2>1. arrayBlocks > 0 /\ b = n - 1
    BY <1>9, <1>12
  <2>2. b + 1 = n /\ b > LastBlock
    BY <1>3, <1>5, <1>6, <2>1
  <2> QED BY <1>5, <2>2
<1>13. StaleInv
  BY <1>12 DEF StaleInv, Done, Init
<1> QED BY <1>5, <1>6, <1>8, <1>10, <1>13 DEF HeadsInv

\* The volume grows over the data of the file, where there is no header.
LEMMA HeadsGrown ==
  ASSUME GrowInv, TypeOK, PlaceInv, DataInv, HeadsInv,
         NEW t \in trees, SetVolumeSpaceSize(t)
  PROVE  HeadsInv'
<1>1. /\ UNCHANGED <<layout, size, block, history>> /\ Progress /\ GrowInv'
      /\ space \in [trees -> Nat] /\ "primary" \in trees
  BY GrowStep DEF SetVolumeSpaceSize, PlaceInv, TypeOK, Next
<1>2. NoNewHeads /\ arrayBlocks' = arrayBlocks /\ block'[1] = block[1]
  BY <1>1 DEF NoNewHeads, BackupAt, layout
<1>3. CASE space' = space
  BY <1>1, <1>2, <1>3, HeadsFrame
<1>4. CASE space' # space
  <2>1. /\ space' = [space EXCEPT ![t] = doing.at + doing.sectors]
        /\ pc = (IF t = "primary" THEN "primary size" ELSE "joliet size")
    BY <1>4 DEF SetVolumeSpaceSize
  <2>2. CASE t # "primary"
    <3>1. IsoBlocks' = IsoBlocks
      BY <1>1, <2>1, <2>2 DEF IsoBlocks
    <3>2. /\ LastBlock' = LastBlock /\ Gpt' = Gpt /\ history' = history
          /\ RoundedUp(IsoBlocks + Reserved)' = RoundedUp(IsoBlocks + Reserved)
          /\ \A n, e : Primary(n, e)' = Primary(n, e)
          /\ \A n, e : Backup(n, e)' = Backup(n, e)
          /\ \A b \in Nat : BackupAt(b)' = BackupAt(b)
      BY <1>1, <1>2, <3>1, SameHeads DEF LastBlock, Gpt, RoundedUp, BackupAt
    <3> QED BY <1>1, <1>2, <3>2 DEF HeadsInv
  <2>3. CASE t = "primary"
    <3>1. /\ pc = "primary size" /\ doing.at = space["primary"]
          /\ space'["primary"] = doing.at + doing.sectors
          /\ Data(doing)
      BY <1>1, <2>1, <2>3 DEF Progress, Placing, DataInv, Stored
    <3>2. /\ doing.at \in Nat /\ doing.sectors \in Nat /\ IsoBlocks \in Nat
          /\ IsoBlocks = doing.at * SectorBlocks
          /\ doing.sectors * SectorBlocks \in Nat /\ SectorBlocks \in Nat
          /\ Reserved \in Nat
      BY <3>1, Blocks, GrowAssumption DEF IsoBlocks
    <3>3. IsoBlocks' = IsoBlocks + doing.sectors * SectorBlocks
      <4>1. (doing.at + doing.sectors) * SectorBlocks
              = doing.at * SectorBlocks + doing.sectors * SectorBlocks
        BY <3>2, Distributed
      <4>2. IsoBlocks' = space'["primary"] * SectorBlocks
        BY DEF IsoBlocks
      <4> QED BY <3>1, <3>2, <4>1, <4>2
    <3> DEFINE len == doing.sectors * SectorBlocks
    <3>4. PICK new : new = IsoBlocks'
      OBVIOUS
    <3>5. new = IsoBlocks + len /\ new \in Nat /\ new >= IsoBlocks /\ len \in Nat
      BY <3>2, <3>3, <3>4
    <3>6. RoundedUp(IsoBlocks + Reserved) <= RoundedUp(new + Reserved)
      <4>1. IsoBlocks + Reserved \in Nat /\ new + Reserved \in Nat
            /\ IsoBlocks + Reserved <= new + Reserved
        BY <3>2, <3>5
      <4> HIDE DEF IsoBlocks, len
      <4> QED BY <4>1, RoundedMonotone
    <3>7. RoundedUp(IsoBlocks + Reserved)' = RoundedUp(new + Reserved) /\ LastBlock' = new - 1
      BY <3>4 DEF RoundedUp, LastBlock
    <3>8. ~BackupAt(new - 1) \/ new = IsoBlocks
      <4>1. CASE len > 0
        <5>1. len \in 1..len
          BY <3>5, <4>1
        <5>2. block[doing.at * SectorBlocks + len - 1] = FileCell(doing.file, len)
          BY <3>1, <5>1 DEF Data
        <5>3. doing.at * SectorBlocks + len - 1 = new - 1
          BY <3>2, <3>5
        <5>4. block[new - 1][1] = "file"
          BY <5>2, <5>3
        <5> QED BY <5>4 DEF BackupAt
      <4>2. CASE len = 0
        BY <3>2, <3>5, <4>2
      <4> QED BY <3>5, <4>1, <4>2
    <3>9. /\ Gpt' = Gpt /\ history' = history /\ block' = block /\ arrayBlocks' = arrayBlocks
          /\ \A n, e : Primary(n, e)' = Primary(n, e)
          /\ \A n, e : Backup(n, e)' = Backup(n, e)
          /\ \A b \in Nat : BackupAt(b)' = BackupAt(b)
      BY <1>1, <1>2, SameHeads DEF Gpt, BackupAt
    <3>10. \A b \in Nat : BackupAt(b) => arrayBlocks > 0
      BY DEF HeadsInv
    <3>11. arrayBlocks > 0 => Gpt.alternate \in Nat
      <4> SUFFICES ASSUME arrayBlocks > 0 PROVE Gpt.alternate \in Nat
        OBVIOUS
      <4>1. PICK n \in Nat, e \in Nat : n > 2 /\ block[1] = HeadCell(Primary(n, e))
        BY DEF HeadsInv
      <4>2. Gpt.alternate = n - 1
        BY <4>1 DEF Gpt, Primary
      <4> QED BY <4>1, <4>2
    <3>12. RoundedUp(IsoBlocks + Reserved) \in Nat /\ RoundedUp(new + Reserved) \in Nat
      BY <3>2, <3>5, RoundedUpIs
    <3>13. ASSUME NEW b \in Nat, BackupAt(b)
           PROVE  /\ arrayBlocks > 0
                  /\ \E e \in Nat : block[b] = HeadCell(Backup(b + 1, e))
                  /\ b <= Gpt.alternate
                  /\ b # Gpt.alternate => Gpt.alternate < RoundedUp(new + Reserved)
                  /\ b = new - 1 => block[b] = HeadCell(Backup(b + 1, new - 1))
                  /\ b = Gpt.alternate /\ "same end" \notin history =>
                       block[b] = HeadCell(Backup(b + 1, Gpt.sum))
      <4> HIDE DEF IsoBlocks, len, Gpt, BackupAt
      <4>1. b # Gpt.alternate => Gpt.alternate < RoundedUp(IsoBlocks + Reserved)
        BY <3>13 DEF HeadsInv
      <4>2. b # Gpt.alternate => Gpt.alternate < RoundedUp(new + Reserved)
        BY <3>6, <3>10, <3>11, <3>12, <3>13, <4>1
      <4>3. b = new - 1 => block[b] = HeadCell(Backup(b + 1, new - 1))
        BY <3>8, <3>13 DEF HeadsInv, LastBlock
      <4> QED BY <3>13, <4>2, <4>3 DEF HeadsInv
    <3> HIDE DEF IsoBlocks, len, Gpt, BackupAt
    <3>14. (arrayBlocks > 0 => \E n \in Nat, e \in Nat : n > 2 /\ block[1] = HeadCell(Primary(n, e)))'
      BY <3>9 DEF HeadsInv
    <3> QED BY <3>7, <3>9, <3>13, <3>14 DEF HeadsInv
  <2> QED BY <2>2, <2>3
<1> QED BY <1>3, <1>4

\* The new primary header names the end of the image.  A header that is there
\* already is the one the old header named, or ends the volume.
LEMMA HeadsRenamed ==
  ASSUME GrowInv, TypeOK, PlaceInv, HeadsInv, WriteHeader, ~Failed
  PROVE  HeadsInv'
<1>1. /\ pc = "head" /\ UNCHANGED <<layout, tables, total>> /\ Sized
      /\ history' = history \cup IF Gpt.alternate = total - 1 THEN {"same end"} ELSE {}
      /\ BlockAt(1, HeadCell(Primary(total, LastBlock)), TRUE)
  BY HeaderEffect DEF PlaceInv
<1>2. size = total /\ total > arrayBlocks + 2 /\ arrayBlocks > 0
  BY <1>1, RoomToGrow DEF Growing, InGPT
<1>3. /\ arrayBlocks \in Nat /\ total \in Nat /\ size \in Nat /\ Reserved \in Nat
      /\ IsoBlocks \in Nat
  BY Blocks, GrowAssumption
<1>4. /\ LastBlock' = LastBlock /\ arrayBlocks' = arrayBlocks
      /\ RoundedUp(IsoBlocks + Reserved)' = RoundedUp(IsoBlocks + Reserved)
      /\ \A n, e : Primary(n, e)' = Primary(n, e)
      /\ \A n, e : Backup(n, e)' = Backup(n, e)
  BY <1>1, SameHeads DEF layout, tables, LastBlock, IsoBlocks, RoundedUp
<1>5. block'[1] = HeadCell(Primary(total, LastBlock))
  <2>1. 1 \in 0..(size - 1)
    BY <1>2, <1>3
  <2> QED BY <1>1, <2>1 DEF BlockAt
<1>6. Gpt'.alternate = total - 1 /\ Gpt'.sum = LastBlock
  BY <1>5 DEF Gpt, Primary
<1>7. ASSUME NEW b \in Nat, BackupAt(b)'
      PROVE  BackupAt(b) /\ block'[b] = block[b] /\ b <= total - 1
  <2>3. size' = size
    BY <1>1 DEF BlockAt
  <2>4. 2 <= b /\ b < size /\ block'[b][1] = "head"
    BY <1>7, <2>3 DEF BackupAt
  <2>1. b # 1 /\ b \in 0..(size - 1)
    BY <1>3, <2>4
  <2>2. block'[b] = block[b]
    BY <1>1, <2>1 DEF BlockAt
  <2> QED BY <1>2, <1>3, <2>1, <2>2, <2>4 DEF BackupAt
<1>8. total <= RoundedUp(IsoBlocks + Reserved) /\ LastBlock \in Nat
      /\ (total = RoundedUp(IsoBlocks + Reserved) \/ total - 1 = LastBlock)
  <2>1. /\ RoundedUp(IsoBlocks) = IsoBlocks /\ RoundedUp(IsoBlocks + Reserved) \in Nat
        /\ RoundedUp(IsoBlocks + Reserved) >= IsoBlocks + Reserved /\ LastBlock \in Nat
    BY IsoMultiple
  <2>2. total = RoundedUp(IsoBlocks + Reserved) \/ total = IsoBlocks
    BY <1>1, <2>1 DEF Sized, Growing
  <2> QED BY <1>3, <2>1, <2>2 DEF LastBlock
<1>9. ASSUME NEW b \in Nat, BackupAt(b)'
      PROVE  /\ \E e \in Nat : block'[b] = HeadCell(Backup(b + 1, e))
             /\ b <= total - 1
             /\ b # total - 1 => total - 1 < RoundedUp(IsoBlocks + Reserved)
             /\ b = LastBlock => block'[b] = HeadCell(Backup(b + 1, LastBlock))
             /\ b = total - 1 /\ "same end" \notin history' =>
                  block'[b] = HeadCell(Backup(b + 1, LastBlock))
  <2>1. BackupAt(b) /\ block'[b] = block[b] /\ b <= total - 1
    BY <1>7, <1>9
  <2>2. /\ \E e \in Nat : block[b] = HeadCell(Backup(b + 1, e))
        /\ b <= Gpt.alternate
        /\ b # Gpt.alternate => Gpt.alternate < RoundedUp(IsoBlocks + Reserved)
        /\ b = LastBlock => block[b] = HeadCell(Backup(b + 1, LastBlock))
    BY <2>1 DEF HeadsInv
  <2>3. Gpt.alternate \in Nat
    <3>1. PICK n \in Nat, e \in Nat : n > 2 /\ block[1] = HeadCell(Primary(n, e))
      BY <1>2 DEF HeadsInv
    <3>2. Gpt.alternate = n - 1
      BY <3>1 DEF Gpt, Primary
    <3> QED BY <3>1, <3>2
  <2>4. RoundedUp(IsoBlocks + Reserved) \in Nat
    BY IsoMultiple
  <2>5. total - 1 < RoundedUp(IsoBlocks + Reserved)
    BY <1>3, <1>8, <2>4
  <2>6. ASSUME b = total - 1, "same end" \notin history'
        PROVE  b = LastBlock
    <3>1. b # Gpt.alternate
      BY <1>1, <2>6
    <3>2. b <= Gpt.alternate /\ Gpt.alternate < RoundedUp(IsoBlocks + Reserved)
      BY <2>2, <3>1
    <3> DEFINE alternate == Gpt.alternate
               end == RoundedUp(IsoBlocks + Reserved)
    <3>3. /\ alternate \in Nat /\ end \in Nat /\ b <= alternate /\ alternate < end
          /\ b # alternate
          /\ total = end \/ total - 1 = LastBlock
      BY <1>8, <2>3, <2>4, <3>1, <3>2
    <3> HIDE DEF alternate, end
    <3>6. b < alternate
      BY <3>3
    <3>4. total - 1 < alternate
      BY <2>6, <3>6
    <3>5. total # end
      BY <1>3, <3>3, <3>4
    <3> QED BY <2>6, <3>3, <3>5
  <2> QED BY <2>1, <2>2, <2>5, <2>6
<1>10. (arrayBlocks > 0 => \E n \in Nat, e \in Nat : n > 2 /\ block[1] = HeadCell(Primary(n, e)))'
  <2>1. total > 2 /\ total \in Nat /\ LastBlock \in Nat
    BY <1>2, <1>3, <1>8
  <2>2. block'[1] = HeadCell(Primary(total, LastBlock))
    BY <1>5
  <2>3. \E n \in Nat, e \in Nat : n > 2 /\ block'[1] = HeadCell(Primary(n, e))
    BY <2>1, <2>2
  <2> QED BY <1>4, <2>3
<1> QED BY <1>2, <1>4, <1>6, <1>9, <1>10 DEF HeadsInv

\* The new backup is the one the new primary header names.
LEMMA HeadsAdded ==
  ASSUME GrowInv, TypeOK, PlaceInv, TablesInv, HeadsInv, WriteBackupHeader, ~Failed
  PROVE  HeadsInv'
<1>1. /\ pc = "backup head" /\ UNCHANGED <<layout, tables, total, history>> /\ Sized
      /\ BlockAt(total - 1, HeadCell(Backup(total, LastBlock)), TRUE)
  BY BackupHeaderEffect DEF PlaceInv
<1>2. size = total /\ total > arrayBlocks + 2 /\ arrayBlocks > 0
  BY <1>1, RoomToGrow DEF Growing, InGPT
<1>3. /\ arrayBlocks \in Nat /\ total \in Nat /\ size \in Nat /\ LastBlock \in Nat
  BY Blocks, IsoMultiple
<1>4. /\ LastBlock' = LastBlock /\ arrayBlocks' = arrayBlocks
      /\ RoundedUp(IsoBlocks + Reserved)' = RoundedUp(IsoBlocks + Reserved)
      /\ \A n, e : Primary(n, e)' = Primary(n, e)
      /\ \A n, e : Backup(n, e)' = Backup(n, e)
  BY <1>1, SameHeads DEF layout, tables, LastBlock, IsoBlocks, RoundedUp
<1>5. block[1] = HeadCell(Primary(total, LastBlock)) /\ block'[1] = block[1]
  <2>1. 1 \in 0..(size - 1) /\ 1 # total - 1
    BY <1>2, <1>3
  <2> QED BY <1>1, <2>1 DEF BlockAt, TablesInv
<1>6. /\ Gpt.alternate = total - 1 /\ Gpt.sum = LastBlock /\ Gpt' = Gpt
  BY <1>5 DEF Gpt, Primary
<1>7. ASSUME NEW b \in Nat, BackupAt(b)'
      PROVE  /\ b \in 0..(size - 1)
             /\ IF b = total - 1 THEN block'[b] = HeadCell(Backup(b + 1, LastBlock))
                ELSE BackupAt(b) /\ block'[b] = block[b]
  <2>4. size' = size
    BY <1>1 DEF BlockAt
  <2>5. 2 <= b /\ b < size /\ block'[b][1] = "head"
    BY <1>7, <2>4 DEF BackupAt
  <2>1. b \in 0..(size - 1)
    BY <1>3, <2>5
  <2>2. CASE b = total - 1
    <3>1. b + 1 = total
      BY <1>3, <2>2
    <3> QED BY <1>1, <2>1, <2>2, <3>1 DEF BlockAt
  <2>3. CASE b # total - 1
    BY <1>1, <2>1, <2>3, <2>5 DEF BlockAt, BackupAt
  <2> QED BY <2>2, <2>3
<1>8. ASSUME NEW b \in Nat, BackupAt(b)'
      PROVE  /\ \E e \in Nat : block'[b] = HeadCell(Backup(b + 1, e))
             /\ b <= total - 1
             /\ b # total - 1 => total - 1 < RoundedUp(IsoBlocks + Reserved)
             /\ b = LastBlock => block'[b] = HeadCell(Backup(b + 1, LastBlock))
             /\ b = total - 1 /\ "same end" \notin history' =>
                  block'[b] = HeadCell(Backup(b + 1, LastBlock))
  <2>1. b <= total - 1
    BY <1>2, <1>3, <1>7, <1>8
  <2>2. CASE b = total - 1
    <3>1. block'[b] = HeadCell(Backup(b + 1, LastBlock))
      BY <1>7, <1>8, <2>2
    <3> QED BY <1>3, <2>1, <2>2, <3>1
  <2>3. CASE b # total - 1
    <3>1. BackupAt(b) /\ block'[b] = block[b]
      BY <1>7, <1>8, <2>3
    <3>2. /\ \E e \in Nat : block[b] = HeadCell(Backup(b + 1, e))
          /\ b # Gpt.alternate => Gpt.alternate < RoundedUp(IsoBlocks + Reserved)
          /\ b = LastBlock => block[b] = HeadCell(Backup(b + 1, LastBlock))
      BY <3>1 DEF HeadsInv
    <3> QED BY <1>6, <2>1, <2>3, <3>1, <3>2
  <2> QED BY <2>2, <2>3
<1>9. (arrayBlocks > 0 => \E n \in Nat, e \in Nat : n > 2 /\ block[1] = HeadCell(Primary(n, e)))'
  <2>1. total > 2 /\ total \in Nat /\ LastBlock \in Nat
    BY <1>2, <1>3
  <2>2. block'[1] = HeadCell(Primary(total, LastBlock))
    BY <1>5
  <2>3. \E n \in Nat, e \in Nat : n > 2 /\ block'[1] = HeadCell(Primary(n, e))
    BY <2>1, <2>2
  <2> QED BY <1>4, <2>3
<1> QED BY <1>2, <1>4, <1>6, <1>8, <1>9 DEF HeadsInv

\* Blocks that are written are no headers.
LEMMA NoHeadWritten ==
  ASSUME GrowInv, PlaceInv, [Next]_vars, ~(WriteHeader /\ ~Failed), ~(WriteBackupHeader /\ ~Failed)
  PROVE  NoNewHeads /\ block'[1] = block[1]
<1>1. Sized /\ GrowInv'
  BY GrowStep DEF PlaceInv
<1>2. /\ arrayBlocks \in Nat /\ size \in Nat /\ size > 2 /\ size' \in Nat /\ size' > 2
      /\ total \in Nat
  BY <1>1 DEF GrowInv, ShapeOK, HeaderKept
<1>3. PICK n : n = size'
  OBVIOUS
<1>14. n \in Nat /\ n > 2
  BY <1>2, <1>3
<1>4. n \in Nat /\ n > 2 /\ 1 \in 0..(n - 1) /\ 1 \in 0..(size - 1)
  BY <1>2, <1>14
<1>5. CASE UNCHANGED <<size, block>>
  BY <1>5 DEF NoNewHeads, BackupAt
\* It is enough that a block holds what it held or something else than a header.
<1>6. ASSUME \A b \in 0..(n - 1) :
               block'[b][1] # "head" \/ (b < size /\ block'[b] = block[b])
      PROVE  NoNewHeads
  <2> SUFFICES ASSUME NEW b \in Nat, BackupAt(b)'
               PROVE  BackupAt(b) /\ block'[b] = block[b]
    BY DEF NoNewHeads
  <2>3. 2 <= b /\ b < n /\ block'[b][1] = "head"
    BY <1>3 DEF BackupAt
  <2>1. 2 <= b /\ b \in 0..(n - 1) /\ block'[b][1] = "head"
    BY <1>14, <2>3
  <2>2. b < size /\ block'[b] = block[b]
    BY <1>6, <2>1
  <2> QED BY <1>2, <2>1, <2>2 DEF BackupAt
<1>7. CASE WriteData
  <2>1. pc = "data" /\ doing.at * SectorBlocks > 1 /\ doing.at * SectorBlocks \in Nat
    BY <1>7, Blocks DEF WriteData
  <2> DEFINE from == doing.at * SectorBlocks
  <2>2. PICK m \in 0..(doing.sectors * SectorBlocks) :
          \A b \in 0..(n - 1) :
             block'[b] = IF from <= b /\ b < from + m
                         THEN FileCell(doing.file, b - from + 1)
                         ELSE IF b < size THEN block[b] ELSE Zero
    BY <1>3, <1>7, DataEffect
  <2>5. from \in Nat /\ ~(from <= 1)
    BY <2>1
  <2> HIDE DEF from
  <2>3. block'[1] = block[1]
    <3>1. 1 < size
      BY <1>2
    <3> QED BY <1>4, <2>2, <2>5, <3>1
  <2>4. ASSUME NEW b \in 0..(n - 1)
        PROVE  block'[b][1] # "head" \/ (b < size /\ block'[b] = block[b])
    <3>1. \/ \E k : block'[b] = FileCell(doing.file, k)
          \/ b < size /\ block'[b] = block[b]
          \/ block'[b] = Zero
      BY <2>2
    <3> QED BY <3>1
  <2> QED BY <1>6, <2>3, <2>4
<1>8. CASE Truncate
  <2>1. CASE ~UNCHANGED <<size, block>>
    <3>1. \A b \in 0..(n - 1) : block'[b] = IF b < size THEN block[b] ELSE Zero
      BY <1>3, <1>8, <2>1, TruncateEffect
    <3>2. block'[1] = block[1]
      BY <1>2, <1>4, <3>1
    <3>3. \A b \in 0..(n - 1) : block'[b][1] # "head" \/ (b < size /\ block'[b] = block[b])
      BY <3>1
    <3> QED BY <1>6, <3>2, <3>3
  <2> QED BY <1>5, <2>1
\* An array lies behind the header.
<1>9. ASSUME NEW from \in Nat, from > 1, NEW m \in Nat, ArrayAt(from, m)
      PROVE  NoNewHeads /\ block'[1] = block[1]
  <2>1. n = size /\ \A b \in 0..(n - 1) :
          block'[b] = IF from <= b /\ b < from + m THEN ArrayCell(b - from + 1, LastBlock)
                      ELSE block[b]
    BY <1>3, <1>9 DEF ArrayAt
  <2>2. block'[1] = block[1]
    <3>1. ~(from <= 1)
      BY <1>9
    <3> QED BY <1>4, <2>1, <3>1
  <2>3. ASSUME NEW b \in 0..(n - 1)
        PROVE  block'[b][1] # "head" \/ (b < size /\ block'[b] = block[b])
    <3>1. \/ \E k : block'[b] = ArrayCell(k, LastBlock)
          \/ block'[b] = block[b]
      BY <2>1
    <3>2. b < size
      BY <1>2, <2>1
    <3> QED BY <3>1, <3>2
  <2> QED BY <1>6, <2>2, <2>3
<1>10. CASE WriteEntries
  BY <1>1, <1>2, <1>9, <1>10, EntriesEffect
<1>11. CASE WriteBackupEntries
  <2> DEFINE from == total - 1 - arrayBlocks
  <2>1. pc = "backup array"
    BY <1>11 DEF WriteBackupEntries
  <2>2. total > arrayBlocks + 2
    BY <1>1, <2>1, RoomToGrow DEF Growing
  <2>3. from \in Nat /\ from > 1
    BY <1>2, <2>2
  <2>4. PICK m \in 0..arrayBlocks : ArrayAt(from, m)
    BY <1>1, <1>11, BackupEntriesEffect
  <2> HIDE DEF from
  <2> QED BY <1>2, <1>9, <2>3, <2>4
<1>12. CASE WriteHeader
  <2>1. BlockAt(1, HeadCell(Primary(total, LastBlock)), FALSE)
    BY <1>1, <1>12, HeaderEffect DEF Failed, Goto
  <2>2. n = size /\ \A b \in 0..(size - 1) : block'[b] = block[b]
    BY <1>3, <2>1 DEF BlockAt
  <2> QED BY <1>4, <1>6, <2>2
<1>13. CASE WriteBackupHeader
  <2>1. BlockAt(total - 1, HeadCell(Backup(total, LastBlock)), FALSE)
    BY <1>1, <1>13, BackupHeaderEffect DEF Failed, Succeed
  <2>2. n = size /\ \A b \in 0..(size - 1) : block'[b] = block[b]
    BY <1>3, <2>1 DEF BlockAt
  <2> QED BY <1>4, <1>6, <2>2
<1> QED
  BY <1>5, <1>7, <1>8, <1>10, <1>11, <1>12, <1>13
  DEF Next, vars, AddFile, InsertRecord, SetVolumeSpaceSize, GrowMBR, NoGPT

LEMMA HeadsStep ==
  ASSUME GrowInv, TypeOK, PlaceInv, DataInv, TablesInv, HeadsInv, [Next]_vars
  PROVE  HeadsInv'
<1>1. CASE WriteHeader /\ ~Failed
  BY <1>1, HeadsRenamed
<1>2. CASE WriteBackupHeader /\ ~Failed
  BY <1>2, HeadsAdded
<1>3. CASE \E t \in trees : SetVolumeSpaceSize(t)
  BY <1>3, HeadsGrown
<1>4. CASE /\ ~(WriteHeader /\ ~Failed) /\ ~(WriteBackupHeader /\ ~Failed)
           /\ ~\E t \in trees : SetVolumeSpaceSize(t)
  <2>1. NoNewHeads /\ block'[1] = block[1]
    BY <1>4, NoHeadWritten
  <2>2. arrayBlocks' = arrayBlocks /\ space' = space
    BY <1>4 DEF Next, vars, layout, tables, AddFile, WriteData, InsertRecord, Truncate, GrowMBR,
                NoGPT, WriteEntries, WriteHeader, WriteBackupEntries, WriteBackupHeader
  <2>3. "same end" \in history => "same end" \in history'
    BY DEF Next, vars, AddFile, WriteData, InsertRecord, SetVolumeSpaceSize, Truncate, GrowMBR,
           NoGPT, WriteEntries, WriteHeader, WriteBackupEntries, WriteBackupHeader
  <2> QED BY <2>1, <2>2, <2>3, HeadsFrame
<1> QED BY <1>1, <1>2, <1>3, <1>4

LEMMA AgreedThen ==
  ASSUME GrowInv, HeadsInv
  PROVE  ValidatedAgree
<1> DEFINE Valid == mbr.signed /\ HasGPT /\ ValidatePartitions /\ "same end" \notin history
<1> SUFFICES ASSUME Valid
             PROVE  LET backup == block[Gpt.alternate][2]
                    IN  /\ Gpt.lastUsable = backup.lastUsable
                        /\ \A k \in 0..(arrayBlocks - 1) :
                             block[Gpt.entries + k] = block[backup.entries + k]
  BY DEF ValidatedAgree
<1>0. /\ HasGPT /\ "same end" \notin history
      /\ Sealed(Gpt) /\ IsHead(Gpt.alternate) /\ Sealed(block[Gpt.alternate][2])
  BY DEF ValidatePartitions, HasGPT, IsHead
<1> HIDE DEF Valid
<1> DEFINE at == Gpt.alternate
           backup == block[at][2]
<1>1. arrayBlocks > 0 /\ arrayBlocks \in Nat
  BY <1>0, Blocks
<1>2. PICK n \in Nat, e \in Nat : n > 2 /\ block[1] = HeadCell(Primary(n, e))
  BY <1>1 DEF HeadsInv
<1>3. /\ Gpt.alternate = n - 1 /\ Gpt.lastUsable = n - 2 - arrayBlocks
      /\ Gpt.entries = 2 /\ Gpt.sum = e
  BY <1>2 DEF Gpt, Primary
<1>5. Sealed(Gpt) /\ IsHead(at) /\ Sealed(backup)
  BY <1>0
<1> HIDE DEF backup, at
<1>6. at \in Nat /\ at >= 2 /\ at + 1 = n
  BY <1>2, <1>3 DEF at
<1>7. BackupAt(at)
  BY <1>5, <1>6 DEF IsHead, BackupAt
<1>8. block[at] = HeadCell(Backup(n, e))
  <2>1. block[at] = HeadCell(Backup(at + 1, Gpt.sum))
    BY <1>0, <1>6, <1>7 DEF HeadsInv, at
  <2> QED BY <1>3, <1>6, <2>1
<1>9. backup = Backup(n, e)
  BY <1>8 DEF backup
<1>10. backup.lastUsable = n - 2 - arrayBlocks /\ backup.sum = e
       /\ backup.entries = n - 1 - arrayBlocks
  <2>1. /\ Backup(n, e).lastUsable = n - 2 - arrayBlocks /\ Backup(n, e).sum = e
        /\ Backup(n, e).entries = n - 1 - arrayBlocks
    BY DEF Backup, Primary
  <2> QED BY <1>9, <2>1
<1>11. ASSUME NEW k \in 0..(arrayBlocks - 1)
       PROVE  block[Gpt.entries + k] = block[backup.entries + k]
  <2>1. k + 1 \in 1..arrayBlocks
    BY <1>1
  <2>2. /\ block[Gpt.entries + (k + 1) - 1] = ArrayCell(k + 1, e)
        /\ block[backup.entries + (k + 1) - 1] = ArrayCell(k + 1, e)
    BY <1>3, <1>5, <1>10, <2>1 DEF Sealed
  <2>3. Gpt.entries + (k + 1) - 1 = Gpt.entries + k
    BY <1>3
  <2>4. PICK first : first = backup.entries
    OBVIOUS
  <2>5. first = n - 1 - arrayBlocks
    BY <1>10, <2>4
  <2>6. first + (k + 1) - 1 = first + k
    BY <1>1, <1>2, <2>5
  <2> QED BY <2>2, <2>3, <2>4, <2>6
<1>12. Gpt.lastUsable = backup.lastUsable
  BY <1>3, <1>10
<1> QED BY <1>11, <1>12 DEF backup, at

-----------------------------------------------------------------------------
(* Old backups. *)

LEMMA StaleStep ==
  ASSUME GrowInv, TypeOK, PlaceInv, DataInv, HeadsInv, HeadsInv', StaleInv, [Next]_vars
  PROVE  StaleInv'
<1>1. Sized /\ Progress
  BY DEF PlaceInv
<1>2. /\ arrayBlocks \in Nat /\ size \in Nat /\ total \in Nat /\ Reserved \in Nat
      /\ IsoBlocks \in Nat /\ SectorBlocks \in Nat /\ SectorBlocks > 0
      /\ IsoBlocks + Reserved \in Nat
      /\ LastBlock = IsoBlocks - 1 /\ IsoBlocks > 2
  BY Blocks, GrowAssumption DEF LastBlock
<1>3. "blind" \in history => "blind" \in history'
  BY DEF Next, vars, AddFile, WriteData, InsertRecord, SetVolumeSpaceSize, Truncate, GrowMBR,
         NoGPT, WriteEntries, WriteHeader, WriteBackupEntries, WriteBackupHeader
\* No backup lies within the volume.
<1>4. "blind" \notin history' => \A b \in Nat : BackupAt(b)' => b > LastBlock' /\ Multiple(b + 1)
  <2> SUFFICES ASSUME "blind" \notin history, NEW b \in Nat, BackupAt(b)'
               PROVE  b > LastBlock' /\ Multiple(b + 1)
    BY <1>3
  <2>1. \A a \in Nat : BackupAt(a) => a > LastBlock /\ Multiple(a + 1)
    BY DEF StaleInv
  <2>2. CASE \E t \in trees : SetVolumeSpaceSize(t)
    <3>1. PICK t \in trees : SetVolumeSpaceSize(t)
      BY <2>2
    <3>2. BackupAt(b) /\ block' = block /\ space \in [trees -> Nat] /\ "primary" \in trees
      BY <3>1 DEF SetVolumeSpaceSize, BackupAt, TypeOK
    <3>3. CASE IsoBlocks' = IsoBlocks
      BY <2>1, <3>2, <3>3 DEF LastBlock
    <3>4. CASE IsoBlocks' # IsoBlocks
      <4>1. t = "primary" /\ space' = [space EXCEPT ![t] = doing.at + doing.sectors]
        BY <3>1, <3>2, <3>4 DEF SetVolumeSpaceSize, IsoBlocks
      <4>2. /\ pc = "primary size" /\ doing.at = space["primary"] /\ Data(doing)
            /\ space'["primary"] = doing.at + doing.sectors
        BY <1>1, <3>1, <3>2, <4>1
        DEF SetVolumeSpaceSize, Progress, Placing, DataInv, Stored
      <4> DEFINE len == doing.sectors * SectorBlocks
      <4>3. /\ doing.at \in Nat /\ doing.sectors \in Nat /\ len \in Nat
            /\ IsoBlocks = doing.at * SectorBlocks
        BY <4>2, Blocks DEF IsoBlocks
      <4>4. IsoBlocks' = IsoBlocks + len
        <5>1. (doing.at + doing.sectors) * SectorBlocks
                = doing.at * SectorBlocks + doing.sectors * SectorBlocks
          BY <1>2, <4>3, Distributed
        <5>2. IsoBlocks' = space'["primary"] * SectorBlocks
          BY DEF IsoBlocks
        <5> QED BY <4>2, <4>3, <5>1, <5>2
      <4>5. LastBlock' = IsoBlocks + len - 1
        <5>1. PICK n : n = IsoBlocks'
          OBVIOUS
        <5>2. LastBlock' = n - 1
          BY <5>1 DEF LastBlock
        <5>3. n = IsoBlocks + len
          BY <4>4, <5>1
        <5>4. n - 1 = IsoBlocks + len - 1
          BY <1>2, <4>3, <5>3
        <5> HIDE DEF len
        <5> QED BY <5>2, <5>4
      <4>6. b >= IsoBlocks /\ Multiple(b + 1)
        BY <1>2, <2>1, <3>2
      <4>7. ASSUME b < IsoBlocks + len
            PROVE  FALSE
        <5>1. b - IsoBlocks + 1 \in 1..len
          BY <1>2, <4>3, <4>6, <4>7
        <5>2. doing.at * SectorBlocks + (b - IsoBlocks + 1) - 1 = b
          BY <1>2, <4>3, <4>6
        <5>3. block[doing.at * SectorBlocks + (b - IsoBlocks + 1) - 1]
                = FileCell(doing.file, b - IsoBlocks + 1)
          BY <4>2, <5>1 DEF Data
        <5>4. block[b][1] = "file"
          BY <5>2, <5>3
        <5> QED BY <3>2, <5>4 DEF BackupAt
      <4>8. b > IsoBlocks + len - 1
        BY <1>2, <4>3, <4>6, <4>7
      <4> QED BY <4>5, <4>6, <4>8
    <3> QED BY <3>3, <3>4
  <2>3. CASE ~\E t \in trees : SetVolumeSpaceSize(t)
    <3>1. LastBlock' = LastBlock
      BY <2>3 DEF Next, vars, layout, tables, AddFile, WriteData, InsertRecord, Truncate,
                  GrowMBR, NoGPT, WriteEntries, WriteHeader, WriteBackupEntries,
                  WriteBackupHeader, LastBlock, IsoBlocks
    <3>2. CASE BackupAt(b)
      BY <2>1, <3>1, <3>2
    <3>3. CASE ~BackupAt(b)
      <4>1. WriteHeader \/ WriteBackupHeader
        BY <3>3, NoHeadWritten DEF NoNewHeads
      <4>2. ~WriteHeader
        <5> SUFFICES ASSUME WriteHeader PROVE FALSE
          OBVIOUS
        <5>1. PICK whole \in BOOLEAN :
                BlockAt(1, HeadCell(Primary(total, LastBlock)), whole)
          BY <1>1, HeaderEffect
        <5>2. size' = size
          BY <5>1 DEF BlockAt
        <5>3. 2 <= b /\ b < size
          BY <5>2 DEF BackupAt
        <5>4. b \in 0..(size - 1) /\ b # 1
          BY <1>2, <5>3
        <5>5. block'[b] = block[b]
          BY <5>1, <5>4 DEF BlockAt
        <5> QED BY <3>3, <5>2, <5>5 DEF BackupAt
      <4>3. PICK whole \in BOOLEAN :
              BlockAt(total - 1, HeadCell(Backup(total, LastBlock)), whole)
        BY <1>1, <4>1, <4>2, BackupHeaderEffect
      <4>4. b = total - 1
        <5>1. size' = size
          BY <4>3 DEF BlockAt
        <5>2. 2 <= b /\ b < size
          BY <5>1 DEF BackupAt
        <5>3. b \in 0..(size - 1)
          BY <1>2, <5>2
        <5>4. b # total - 1 => block'[b] = block[b]
          BY <4>3, <5>3 DEF BlockAt
        <5> QED BY <3>3, <5>1, <5>4 DEF BackupAt
      <4>5. pc = "backup head"
        BY <4>1, <4>2 DEF WriteBackupHeader
      <4>6. arrayBlocks # 0
        <5>1. arrayBlocks > 0
          BY <4>5 DEF GrowInv, RoomForBackup, InGPT
        <5> QED BY <1>2, <5>1
      <4>7. total = RoundedUp(IsoBlocks + Reserved)
        BY <1>1, <4>5, <4>6 DEF Sized, Growing, InGPT
      <4>8. Multiple(total) /\ total >= IsoBlocks + Reserved
        <5> HIDE DEF IsoBlocks
        <5> QED BY <1>2, <4>7, RoundedUpIs
      <4>9. b + 1 = total /\ b > LastBlock
        BY <1>2, <4>4, <4>8, GrowAssumption
      <4> QED BY <3>1, <4>8, <4>9
    <3> QED BY <3>2, <3>3
  <2> QED BY <2>2, <2>3
\* The new backup array covers the place of every header but the last.
<1>5. (pc' = "backup head" \/ Done') /\ BackupFits' /\ arrayBlocks' + 1 = Reserved =>
        \A b \in Nat : BackupAt(b)' => b = total' - 1
  <2>2. arrayBlocks' = arrayBlocks
    BY DEF Next, vars, layout, AddFile, WriteData, InsertRecord, SetVolumeSpaceSize, Truncate,
           GrowMBR, NoGPT, WriteEntries, WriteHeader, WriteBackupEntries, WriteBackupHeader
  <2> DEFINE After == pc' = "backup head" \/ Done'
             Full == arrayBlocks + 1 = Reserved
  <2> SUFFICES ASSUME After, BackupFits', Full, NEW b \in Nat, BackupAt(b)'
               PROVE  b = total' - 1
    BY <2>2
  <2>9. pc' = "backup head" \/ Done'
    OBVIOUS
  <2>10. arrayBlocks + 1 = Reserved
    OBVIOUS
  <2> HIDE DEF After, Full
  <2>1. arrayBlocks > 0
    BY <2>2 DEF HeadsInv
  <2>3. BackupFits
    BY <1>3, <2>2 DEF BackupFits
  <2>4. CASE WriteBackupEntries
    <3> DEFINE from == total - 1 - arrayBlocks
    <3>1. /\ pc = "backup array" /\ total' = total
          /\ ArrayAt(from, arrayBlocks)
      BY <1>1, <2>4, <2>9, BackupEntriesEffect DEF Failed, Done
    <3>2. size = total /\ total > arrayBlocks + 2
      BY <1>1, <3>1, RoomToGrow DEF Growing
    <3>3. size' = size
      BY <3>1 DEF ArrayAt
    <3>4. 2 <= b /\ b < size /\ block'[b][1] = "head"
      BY <3>3 DEF BackupAt
    <3>5. b \in 0..(size - 1)
      BY <1>2, <3>4
    <3>6. ~(from <= b /\ b < from + arrayBlocks)
      <4> SUFFICES ASSUME from <= b /\ b < from + arrayBlocks
                   PROVE  FALSE
        OBVIOUS
      <4>1. block'[b] = ArrayCell(b - from + 1, LastBlock)
        BY <3>1, <3>5 DEF ArrayAt
      <4> QED BY <3>4, <4>1
    <3>7. block'[b] = block[b]
      BY <3>1, <3>5, <3>6 DEF ArrayAt
    <3>8. b > LastBlock /\ Multiple(b + 1)
      BY <2>3, <3>4, <3>7 DEF StaleInv, BackupFits, BackupAt
    <3>9. IsoBlocks + SectorBlocks <= b + 1
      <4>1. IsoBlocks < b + 1 /\ b + 1 \in Nat /\ Multiple(IsoBlocks)
        BY <1>2, <3>8, IsoMultiple
      <4> HIDE DEF IsoBlocks
      <4> QED BY <1>2, <3>8, <4>1, MultiplesApart
    <3>10. total < IsoBlocks + Reserved + SectorBlocks
      <4>1. total = RoundedUp(IsoBlocks + Reserved)
        <5>1. arrayBlocks # 0
          BY <1>2, <2>1
        <5> QED BY <1>1, <2>3, <3>1, <5>1 DEF Sized, Growing, InGPT, BackupFits
      <4> HIDE DEF IsoBlocks
      <4> QED BY <1>2, <4>1, RoundedUpIs
    <3>11. from <= b
      BY <1>2, <2>10, <3>2, <3>9, <3>10
    <3>12. b = total - 1
      BY <1>2, <3>2, <3>4, <3>6, <3>11
    <3> QED BY <3>1, <3>12
  <2>5. CASE WriteBackupHeader
    <3>1. PICK whole \in BOOLEAN :
            BlockAt(total - 1, HeadCell(Backup(total, LastBlock)), whole)
      BY <1>1, <2>5, BackupHeaderEffect
    <3>2. pc = "backup head" /\ total' = total
      BY <2>5 DEF WriteBackupHeader
    <3>3. size' = size
      BY <3>1 DEF BlockAt
    <3>4. 2 <= b /\ b < size
      BY <3>3 DEF BackupAt
    <3>5. b \in 0..(size - 1)
      BY <1>2, <3>4
    <3>6. b # total - 1 => BackupAt(b)
      BY <3>1, <3>3, <3>5 DEF BlockAt, BackupAt
    <3> QED BY <2>3, <2>10, <3>2, <3>6 DEF StaleInv
  <2>6. CASE UNCHANGED vars
    BY <2>3, <2>6, <2>9, <2>10 DEF vars, log, StaleInv, BackupAt, Done
  <2>7. ~NoGPT
    BY <2>1, <2>2, Blocks DEF NoGPT
  <2>8. \/ WriteBackupEntries \/ WriteBackupHeader \/ UNCHANGED vars
    BY <1>1, <2>7, <2>9, TruncateEffect, DataEffect, EntriesEffect, HeaderEffect
    DEF Next, AddFile, WriteData, InsertRecord, SetVolumeSpaceSize, Truncate, GrowMBR,
        WriteEntries, WriteHeader, Write, Goto, Fail, log, Failed, Done, AfterRecord, AfterSize,
        Progress
  <2> QED BY <2>4, <2>5, <2>6, <2>8
<1> QED BY <1>4, <1>5 DEF StaleInv, Multiple


-----------------------------------------------------------------------------
\* Nothing is written over the first block.
StartKept == block[0] = Iso

LEMMA StartInit == Init => StartKept
<1> SUFFICES ASSUME Init PROVE StartKept
  OBVIOUS
<1>1. PICK n \in Nat, payload \in Nat :
        /\ size = n + payload
        /\ block = [b \in 0..(n + payload - 1) |-> Released(n, b)]
  <2>1. PICK slack \in Slacks, payload \in Payloads :
          LET backup == IF arrayBlocks > 0 THEN arrayBlocks + 1 ELSE 0
              n == RoundedUp(volume * SectorBlocks + slack + backup)
          IN  /\ size = n + payload
              /\ block = [b \in 0..(n + payload - 1) |-> Released(n, b)]
    BY DEF Init
  <2> DEFINE backup == IF arrayBlocks > 0 THEN arrayBlocks + 1 ELSE 0
  <2>2. GrowInv
    BY GrowInit
  <2>3. /\ slack \in Nat /\ payload \in Nat /\ arrayBlocks \in Nat
        /\ volume * SectorBlocks \in Nat
    BY <2>2, Blocks, GrowAssumption DEF VolumeEnd
  <2>4. volume * SectorBlocks + slack + backup \in Nat
    BY <2>3
  <2>5. RoundedUp(volume * SectorBlocks + slack + backup) \in Nat
    BY <2>4, RoundedUpIs
  <2> QED BY <2>1, <2>3, <2>5
<1>2. size > 2 /\ VolumeEnd \in Nat /\ VolumeEnd > 2 /\ arrayBlocks \in Nat
      /\ VolumeEnd = volume * SectorBlocks
  BY GrowInit, Blocks DEF GrowInv, HeaderKept, VolumeEnd
<1>3. 0 \in 0..(n + payload - 1)
  BY <1>1, <1>2
<1>4. 0 <= volume * SectorBlocks - 1 /\ 0 \notin 2..(arrayBlocks + 1)
  BY <1>2
<1>5. Released(n, 0) = Iso
  BY <1>4 DEF Released
<1> QED BY <1>1, <1>3, <1>5 DEF StartKept

LEMMA StartStep ==
  ASSUME GrowInv, PlaceInv, StartKept, [Next]_vars
  PROVE  StartKept'
<1>1. Sized /\ GrowInv'
  BY GrowStep DEF PlaceInv
<1>2. /\ arrayBlocks \in Nat /\ size \in Nat /\ size > 2 /\ size' \in Nat /\ size' > 2
      /\ total \in Nat
  BY <1>1 DEF GrowInv, ShapeOK, HeaderKept
<1>3. PICK n : n = size'
  OBVIOUS
<1>4. n \in Nat /\ n > 2
  BY <1>2, <1>3
<1>5. 0 \in 0..(n - 1) /\ 0 \in 0..(size - 1) /\ 0 < size
  BY <1>2, <1>4
<1>6. CASE WriteData
  <2> DEFINE from == doing.at * SectorBlocks
  <2>1. from \in Nat /\ from > 0
    BY <1>6, Blocks DEF WriteData
  <2>2. PICK m \in 0..(doing.sectors * SectorBlocks) :
          \A b \in 0..(n - 1) :
             block'[b] = IF from <= b /\ b < from + m
                         THEN FileCell(doing.file, b - from + 1)
                         ELSE IF b < size THEN block[b] ELSE Zero
    BY <1>3, <1>6, DataEffect
  <2> HIDE DEF from
  <2>3. ~(from <= 0)
    BY <2>1
  <2> QED BY <1>5, <2>2, <2>3 DEF StartKept
<1>7. CASE Truncate
  <2>1. CASE UNCHANGED block
    BY <2>1 DEF StartKept
  <2>2. CASE ~UNCHANGED block
    <3>1. \A b \in 0..(n - 1) : block'[b] = IF b < size THEN block[b] ELSE Zero
      BY <1>3, <1>7, <2>2, TruncateEffect
    <3> QED BY <1>5, <3>1 DEF StartKept
  <2> QED BY <2>1, <2>2
<1>8. ASSUME NEW from \in Nat, from > 0, NEW m \in Nat, ArrayAt(from, m)
      PROVE  StartKept'
  <2>1. ~(from <= 0)
    BY <1>8
  <2> QED BY <1>5, <1>8, <2>1 DEF ArrayAt, StartKept
<1>9. CASE WriteEntries
  BY <1>1, <1>2, <1>8, <1>9, EntriesEffect
<1>10. CASE WriteBackupEntries
  <2> DEFINE from == total - 1 - arrayBlocks
  <2>1. pc = "backup array"
    BY <1>10 DEF WriteBackupEntries
  <2>2. total > arrayBlocks + 2
    BY <1>1, <2>1, RoomToGrow DEF Growing
  <2>3. from \in Nat /\ from > 0
    BY <1>2, <2>2
  <2>4. PICK m \in 0..arrayBlocks : ArrayAt(from, m)
    BY <1>1, <1>10, BackupEntriesEffect
  <2> HIDE DEF from
  <2> QED BY <1>2, <1>8, <2>3, <2>4
<1>11. CASE WriteHeader
  <2>1. PICK whole \in BOOLEAN : BlockAt(1, HeadCell(Primary(total, LastBlock)), whole)
    BY <1>1, <1>11, HeaderEffect
  <2> QED BY <1>5, <2>1 DEF BlockAt, StartKept
<1>12. CASE WriteBackupHeader
  <2>1. PICK whole \in BOOLEAN :
          BlockAt(total - 1, HeadCell(Backup(total, LastBlock)), whole)
    BY <1>1, <1>12, BackupHeaderEffect
  <2>2. pc = "backup head"
    BY <1>12 DEF WriteBackupHeader
  <2>3. total > arrayBlocks + 2
    BY <1>1, <2>2, RoomToGrow DEF Growing
  <2>4. 0 # total - 1
    BY <1>2, <2>3
  <2> QED BY <1>5, <2>1, <2>4 DEF BlockAt, StartKept
<1> QED
  BY <1>6, <1>7, <1>9, <1>10, <1>11, <1>12
  DEF Next, vars, AddFile, InsertRecord, SetVolumeSpaceSize, GrowMBR, NoGPT, StartKept

LEMMA NoneLeftThen ==
  ASSUME GrowInv, PlaceInv, StaleInv, StartKept
  PROVE  NoStaleBackup
<1> SUFFICES ASSUME Done, BackupFits, arrayBlocks + 1 = Reserved,
                    NEW b \in 0..(size - 1), IsHead(b)
             PROVE  b \in {gptHeaderLBA, size - 1}
  BY DEF NoStaleBackup, Done
<1>1. b \in Nat /\ b < size /\ block[b][1] = "head"
  BY Blocks DEF IsHead
<1>2. size = total
  BY DEF PlaceInv, Sized
<1>3. b # 0
  BY <1>1 DEF StartKept
<1>4. CASE 2 <= b
  BY <1>1, <1>2, <1>4 DEF StaleInv, BackupAt
<1> QED BY <1>1, <1>3, <1>4

-----------------------------------------------------------------------------
(* The theorems. *)

TablesKept ==
  /\ GrowInv /\ TypeOK /\ Domains /\ PlaceInv /\ DataInv
  /\ TablesInv /\ HeadsInv /\ StaleInv /\ StartKept

LEMMA KeptAlways == Spec => []TablesKept
<1>1. Init => TablesKept
  BY GrowInit, TypeInit, PlaceInit, DataInit, TablesInit, HeadsInit, StartInit DEF TablesKept
<1>2. TablesKept /\ [Next]_vars => TablesKept'
  <2> SUFFICES ASSUME TablesKept, [Next]_vars PROVE TablesKept'
    OBVIOUS
  <2>1. GrowInv'
    BY GrowStep DEF TablesKept
  <2>2. TypeOK' /\ Domains'
    BY TypeStep DEF TablesKept
  <2>3. PlaceInv'
    BY PlaceStep DEF TablesKept
  <2>4. DataInv'
    BY DataStep DEF TablesKept
  <2>5. TablesInv'
    BY TablesStep DEF TablesKept
  <2>6. HeadsInv'
    BY HeadsStep DEF TablesKept
  <2>7. StaleInv'
    BY <2>6, StaleStep DEF TablesKept
  <2>8. StartKept'
    BY StartStep DEF TablesKept
  <2> QED BY <2>1, <2>2, <2>3, <2>4, <2>5, <2>6, <2>7, <2>8 DEF TablesKept
<1> QED BY <1>1, <1>2, PTL DEF Spec

\* AddFile keeps to its steps, and the count of the MBR's partition, a field of
\* 32 bits that growMBR checks, never overflows.
THEOREM GrowTypeCorrect == Spec => []TypeOK
<1>1. TablesKept => TypeOK
  BY DEF TablesKept
<1> QED BY <1>1, KeptAlways, PTL

\* A file that AddFile has added keeps its data, and its record in every
\* directory, through whatever is added or fails to be added after it: the next
\* file goes behind the volume that includes this one, and the new tables behind
\* that, as long as resize sees the GPT and the backup is no longer than its
\* reserve.
THEOREM AddedFilesKept == Spec => []AddedKept
<1>1. TablesKept => AddedKept
  BY DEF TablesKept, AddedKept, DataInv, Data, PlaceInv, AddedPlaced
<1> QED BY <1>1, KeptAlways, PTL

\* When AddFile succeeds the descriptors, the MBR, both copies of the GPT and
\* the end of the file agree on the image that holds the new file.
THEOREM SuccessIsConsistent == Spec => []GrownConsistently
<1>1. TablesKept => GrownConsistently
  BY ConsistentThen DEF TablesKept
<1> QED BY <1>1, KeptAlways, PTL

\* Whatever failed half way, tables that ValidatePartitions accepts describe the
\* same partitions in both copies, unless the new backup took the place of the
\* old one: a header vouches for its array, a primary for the place of its backup,
\* and no old backup lies at the place the new primary names.
THEOREM ValidTablesAgree == Spec => []ValidatedAgree
<1>1. TablesKept => ValidatedAgree
  BY AgreedThen DEF TablesKept
<1> QED BY <1>1, KeptAlways, PTL

\* With an array of the length gptReservedBlocks is meant for, success leaves no
\* header but the primary and the backup at the end: an old one would end a
\* sector, behind the volume, and the array of the new backup covers every such
\* place but the last.
THEOREM NoOldBackupLeft == Spec => []NoStaleBackup
<1>1. TablesKept => NoStaleBackup
  BY NoneLeftThen DEF TablesKept
<1> QED BY <1>1, KeptAlways, PTL
=============================================================================
