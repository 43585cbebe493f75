----------------------------- MODULE ImageBytes -----------------------------
(***************************************************************************)
(* The bytes that baking writes into an image and that the boot and the    *)
(* verification read back (src/internal/iso: trailer.go, kargs.go,         *)
(* ignition.go).  IsoImage says who wrote an area; this module says what   *)
(* is in it: sector arithmetic, terminators, padding and checksums.        *)
(*                                                                         *)
(* An image is a function from positions, counted from 0, to bytes.  A     *)
(* byte stands for whatever the code reads at once: a character of the     *)
(* command line or one argument, a number of the header, a checksum.       *)
(***************************************************************************)
EXTENDS Integers, SequencesExt

CONSTANTS
  Sector,      \* SectorSize
  Walk,        \* how far ReadTrailer walks back, 4096 sectors
  MagicByte,   \* what a trailer header begins with
  VersionByte, \* the version of the trailer
  GzipByte,    \* what a compressed archive begins with
  LabelByte,   \* the argument coreos.liveiso= with the label of the volume
  NL, SP       \* a newline, a space

\* The header has a place for its four numbers.
ASSUME ByteAssumption ==
  /\ Sector \in Nat /\ Sector >= 4 /\ Walk \in Nat
  /\ {MagicByte, VersionByte, GzipByte, LabelByte, NL, SP} \subseteq Nat
  /\ LabelByte # SP

Bytes == Nat
ImagesOf(n) == [0..(n - 1) -> Bytes]

Size(img) == Cardinality(DOMAIN img)

Sectors(n) == (n + Sector - 1) \div Sector

\* One WriteAt: it grows the file when it ends behind it.
Written(img, at, bytes) ==
  [p \in DOMAIN img \cup at..(at + Len(bytes) - 1) |->
     IF p \in at..(at + Len(bytes) - 1) THEN bytes[p - at + 1] ELSE img[p]]

ReadAt(img, at, n) == [k \in 1..n |-> img[at + k - 1]]

Zeros(n) == [k \in 1..n |-> 0]
Filled(bytes, n, pad) == [k \in 1..n |-> IF k <= Len(bytes) THEN bytes[k] ELSE pad]

\* The checksum: payloads of one length that differ in one byte never share it.
Sum(payload) ==
  LET upTo[k \in 0..Len(payload)] ==
        IF k = 0 THEN 0 ELSE (251 * upTo[k - 1] + payload[k]) % 8388593
  IN  upTo[Len(payload)]

-----------------------------------------------------------------------------
(* The trailer. *)

\* Mutant: the header takes the place of what the last sector holds.
AppendTrailerRoundedDown(img, payload) ==
  LET start  == Size(img) \div Sector
      header == Filled(<<MagicByte, VersionByte, Len(payload), Sum(payload)>>, Sector, 0)
      body   == Filled(payload, Sectors(Len(payload)) * Sector, 0)
  IN  Written(img, start * Sector, header \o body)

\* The length of an image is always a multiple of a sector after this, and
\* whatever WriteAt skips in front of the header is zero.
AppendTrailer(img, payload) ==
  LET start  == Sectors(Size(img))
      header == Filled(<<MagicByte, VersionByte, Len(payload), Sum(payload)>>, Sector, 0)
      body   == Filled(payload, Sectors(Len(payload)) * Sector, 0)
  IN  Written(img, Size(img), Zeros(start * Sector - Size(img)) \o header \o body)

PayloadSector(img) == Sectors(Size(img)) + 1

NoTrailer == [found |-> FALSE, sector |-> 0, payload |-> <<>>]

\* What stands behind the last header that the walk back from the end meets.
ReadTrailer(img) ==
  LET sectors == Size(img) \div Sector
      heads   == {s \in 0..(sectors - 1) : s > sectors - Walk /\ img[s * Sector] = MagicByte}
      head    == CHOOSE s \in heads : \A t \in heads : t <= s
      field(k) == img[head * Sector + k]
      from    == (head + 1) * Sector
  IN  IF heads = {} \/ field(1) # VersionByte \/ from + field(2) > Size(img)
      THEN NoTrailer
      ELSE LET payload == ReadAt(img, from, field(2))
           IN  IF Sum(payload) # field(3) THEN NoTrailer
               ELSE [found |-> TRUE, sector |-> head + 1, payload |-> payload]

-----------------------------------------------------------------------------
(* The Ignition area, described by [at, len]: an archive whose launcher    *)
(* was told a sector, and zeros.                                           *)

Archive(sector) == <<GzipByte, sector>>

FitsArea(area) == Len(Archive(0)) <= area.len

EmbedIgnition(img, area, sector) ==
  Written(img, area.at, Filled(Archive(sector), area.len, 0))

LauncherReads(img, area, sector) ==
  img[area.at] = GzipByte /\ img[area.at + 1] = sector

-----------------------------------------------------------------------------
(* The kernel command line: kargs.json is a record [size, default, files], *)
(* a file of it [at, room, pad, end]: where its area begins, how many      *)
(* bytes of the file are left there, the padding and the terminator.       *)

Before(bytes, stop) ==
  LET stops == {k \in DOMAIN bytes : bytes[k] = stop}
  IN  IF stops = {} THEN bytes
      ELSE SubSeq(bytes, 1, (CHOOSE k \in stops : \A j \in stops : k <= j) - 1)

TrimRight(bytes) ==
  LET keep == {k \in 0..Len(bytes) : \A j \in (k + 1)..Len(bytes) : bytes[j] = SP}
  IN  SubSeq(bytes, 1, CHOOSE k \in keep : \A j \in keep : k <= j)

KernelArgs(img, info) ==
  IF info.files = <<>> THEN info.default
  ELSE TrimRight(Before(ReadAt(img, info.files[1].at, info.size), NL))

\* Mutant: every config ends its command line with a newline.
ArgsRegionNewline(args, info, file) ==
  Filled(args \o <<NL>>, info.size, file.pad)

ArgsRegion(args, info, file) ==
  Filled(args \o <<file.end>>, info.size, file.pad)

Area(info, k) == info.files[k].at..(info.files[k].at + info.size - 1)

\* The regions written one after the other, up to the one of the last file.
WrittenTo(img, info, last, args) ==
  [p \in DOMAIN img |->
     LET ks == {k \in 1..last : p \in Area(info, k)}
         k  == CHOOSE top \in ks : \A j \in ks : j <= top
     IN  IF ks = {} THEN img[p]
         ELSE ArgsRegion(args, info, info.files[k])[p - info.files[k].at + 1]]

Misfits(info) == {k \in DOMAIN info.files : info.files[k].room < info.size}

\* File by file; the first whose area runs past its end is an error, and the
\* files before it are written then.
SetKernelArgs(img, info, args) ==
  IF info.files = <<>> THEN [ok |-> TRUE, img |-> img]
  ELSE IF Len(args) + 1 > info.size THEN [ok |-> FALSE, img |-> img]
  ELSE IF Misfits(info) = {}
  THEN [ok |-> TRUE, img |-> WrittenTo(img, info, Len(info.files), args)]
  ELSE LET misfit == CHOOSE k \in Misfits(info) : \A j \in Misfits(info) : k <= j
       IN  [ok |-> FALSE, img |-> WrittenTo(img, info, misfit - 1, args)]

AppendKernelArgs(img, info, extra) ==
  IF extra = <<>> THEN [ok |-> TRUE, img |-> img]
  ELSE SetKernelArgs(img, info, KernelArgs(img, info) \o <<SP>> \o extra)

\* What the bootloader takes from a config: all up to the terminator there.
BootArgs(img, info, file) ==
  TrimRight(Before(ReadAt(img, file.at, info.size), file.end))

\* The regions a bake may write: where an area is and how long.
Allowed(areas) ==
  {[at |-> areas.ign.at, len |-> areas.ign.len]}
    \cup {[at |-> areas.kargs.files[k].at, len |-> areas.kargs.size] : k \in DOMAIN areas.kargs.files}
=============================================================================
