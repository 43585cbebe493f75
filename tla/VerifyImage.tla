---------------------------- MODULE VerifyImage -----------------------------
(***************************************************************************)
(* An image is patched (bake.go), something may happen to it on its way,   *)
(* and it is compared with an original (verify.go, VerifyAgainst).  The    *)
(* comparison goes chunk by chunk through one pair of buffers, and merges  *)
(* differences that lie close together before it asks where they are.      *)
(***************************************************************************)
EXTENDS ImageBytes

CONSTANTS
  Originals,   \* released images: bytes, and what igninfo.json and kargs.json say
  Payloads,    \* compressed binaries
  Extras,      \* the arguments of --karg
  Chunk,       \* how much is compared at once, 1 << 20
  Near,        \* differences closer than this are one region, 4096
  Damaging,    \* bytes that damage puts into an image
  MaxDamage    \* how often an image is damaged

ASSUME CompareAssumption ==
  /\ Chunk \in Nat \ {0} /\ Near \in Nat \ {0} /\ MaxDamage \in Nat
  /\ Payloads \cup Extras \subseteq Seq(Bytes) /\ Damaging \subseteq Bytes
  /\ \A o \in Originals :
       /\ \E m \in {Size(o.bytes)} : m \in Nat /\ o.bytes \in ImagesOf(m)
       /\ \A a \in Allowed(o) : a.at \in Nat /\ a.len \in Nat

\* What holds of a released image: its areas lie in it, and apart, and the
\* arguments it boots with name the label of its volume.
ASSUME ReleasedAssumption ==
  \A o \in Originals :
    LET files == o.kargs.files
        Apart(a, m, b, n) == a + m <= b \/ b + n <= a
    IN  /\ files \in Seq([at : Nat, room : Nat, pad : Bytes, end : Bytes])
        /\ o.kargs.size \in Nat /\ o.kargs.default \in Seq(Bytes)
        /\ \A a \in Allowed(o) : a.at + a.len <= Size(o.bytes)
        /\ \A k \in DOMAIN files :
             /\ Apart(o.ign.at, o.ign.len, files[k].at, o.kargs.size)
             /\ files[k].end # SP
        /\ \A j, k \in DOMAIN files :
             j # k => Apart(files[j].at, o.kargs.size, files[k].at, o.kargs.size)
        /\ LabelByte \in ToSet(KernelArgs(o.bytes, o.kargs))

VARIABLES
  source,   \* the released image that is baked
  payload, extra,
  image,    \* the image baked
  damaged,  \* how often it was damaged
  pc,
  against,  \* the original it is compared with
  off, n, i,  \* where the chunk begins, how much was read, where the scan is
  bufB,       \* the buffer for the image, which outlives a chunk
  out,        \* changedRegions so far
  untouched,  \* the check "the original image is untouched"
  verified    \* the other checks

baking == <<source, payload, extra>>
buffers == <<off, n, i, bufB, out>>
verdict == <<untouched, verified>>
vars == <<baking, image, damaged, pc, against, buffers, verdict>>

Init ==
  /\ source \in Originals /\ payload \in Payloads /\ extra \in Extras
  /\ image = source.bytes
  /\ damaged = 0 /\ pc = "trailer"
  /\ against = source
  /\ off = 0 /\ n = 0 /\ i = 0
  /\ bufB = [k \in 0..(Chunk - 1) |-> 0] /\ out = <<>>
  /\ untouched = "unknown" /\ verified = "unknown"

-----------------------------------------------------------------------------
(* bake.go: append, embed, set the arguments.  A bake that fails removes   *)
(* its output (BakeRun), so nothing follows "failed".                      *)

WriteTrailer ==
  /\ pc = "trailer"
  /\ image' = AppendTrailer(image, payload)
  /\ pc' = "ignition"
  /\ UNCHANGED <<baking, damaged, against, buffers, verdict>>

WriteIgnition ==
  /\ pc = "ignition"
  /\ IF FitsArea(source.ign)
     THEN /\ image' = EmbedIgnition(image, source.ign, PayloadSector(source.bytes))
          /\ pc' = "kargs"
     ELSE /\ pc' = "failed"
          /\ UNCHANGED image
  /\ UNCHANGED <<baking, damaged, against, buffers, verdict>>

WriteKargs ==
  /\ pc = "kargs"
  /\ LET done == AppendKernelArgs(image, source.kargs, extra)
     IN  /\ image' = done.img
         /\ pc' = IF done.ok THEN "baked" ELSE "failed"
  /\ UNCHANGED <<baking, damaged, against, buffers, verdict>>

-----------------------------------------------------------------------------
(* On its way: a byte is changed, or the end is missing.  The descriptors  *)
(* and directories, which lead to the areas, are in front of them and stay *)
(* readable; without them VerifyAgainst ends with an error.                *)

Damage ==
  /\ pc = "baked" /\ damaged < MaxDamage
  /\ \/ \E p \in DOMAIN image, b \in Damaging :
          image' = [image EXCEPT ![p] = b]
     \/ \E length \in 1..(Size(image) - 1) :
          /\ \A a \in Allowed(source) : a.at + a.len <= length
          /\ image' = [p \in 0..(length - 1) |-> image[p]]
  /\ damaged' = damaged + 1
  /\ UNCHANGED <<baking, pc, against, buffers, verdict>>

-----------------------------------------------------------------------------
(* verify.go.  bufA holds exactly the bytes of the original between off    *)
(* and off + n; what is behind n is never looked at.                       *)

\* Verify: the label in the arguments, the trailer with its checksum, and a
\* launcher that reads where the payload is.
VerifyOK ==
  LET trailer == ReadTrailer(image)
  IN  /\ LabelByte \in ToSet(KernelArgs(image, source.kargs))
      /\ trailer.found
      /\ LauncherReads(image, source.ign, trailer.sector)

StartCompare ==
  /\ pc = "baked"
  /\ verified' = IF VerifyOK THEN "yes" ELSE "no"
  /\ against' \in Originals
  /\ pc' = "read"
  /\ UNCHANGED <<baking, image, damaged, buffers, untouched>>

Smaller(a, b) == IF a < b THEN a ELSE b

\* A chunk of the original, and as much of the image as there is.  The end of
\* the image is an error only where nothing at all is left of it.
ReadChunk ==
  /\ pc = "read" /\ off < Size(against.bytes)
  /\ IF off < Size(image)
     THEN /\ n' = Smaller(Chunk, Size(against.bytes) - off)
          /\ bufB' = [k \in 0..(Chunk - 1) |->
                        IF k < n' /\ off + k < Size(image) THEN image[off + k] ELSE bufB[k]]
          /\ i' = 0 /\ pc' = "scan"
          /\ UNCHANGED untouched
     ELSE /\ untouched' = "no" /\ pc' = "judged"
          /\ UNCHANGED <<n, i, bufB>>
  /\ UNCHANGED <<baking, image, damaged, against, off, out, verified>>

Differ(k) == against.bytes[off + k] # bufB[k]

Skip ==
  /\ pc = "scan" /\ i < n /\ ~Differ(i)
  /\ i' = i + 1
  /\ UNCHANGED <<baking, image, damaged, pc, against, off, n, bufB, out, verdict>>

\* Mutant: a difference is merged with the one before it, however far away.
ExtendedAlways(regions, from, to) ==
  IF Len(regions) > 0
  THEN [regions EXCEPT ![Len(regions)].to = to]
  ELSE Append(regions, [from |-> from, to |-> to])

Extended(regions, from, to) ==
  IF Len(regions) > 0 /\ from - regions[Len(regions)].to < Near
  THEN [regions EXCEPT ![Len(regions)].to = to]
  ELSE Append(regions, [from |-> from, to |-> to])

\* Mutant: the end of the run is counted as part of it.
DifferenceInclusive ==
  /\ pc = "scan" /\ i < n /\ Differ(i)
  /\ \E j \in (i + 1)..n :
       /\ \A k \in i..(j - 1) : Differ(k)
       /\ IF j = n THEN TRUE ELSE ~Differ(j)
       /\ out' = Extended(out, off + i, off + j + 1)
       /\ i' = j
  /\ UNCHANGED <<baking, image, damaged, pc, against, off, n, bufB, verdict>>

\* A run of differences as long as it goes within the chunk.
Difference ==
  /\ pc = "scan" /\ i < n /\ Differ(i)
  /\ \E j \in (i + 1)..n :
       /\ \A k \in i..(j - 1) : Differ(k)
       /\ IF j = n THEN TRUE ELSE ~Differ(j)
       /\ out' = Extended(out, off + i, off + j)
       /\ i' = j
  /\ UNCHANGED <<baking, image, damaged, pc, against, off, n, bufB, verdict>>

NextChunk ==
  /\ pc = "scan" /\ i = n
  /\ off' = off + Chunk
  /\ pc' = "read"
  /\ UNCHANGED <<baking, image, damaged, against, n, i, bufB, out, verdict>>

\* Mutant: a change that overlaps an area passes.
WithinTouching(region, areas) ==
  \E a \in Allowed(areas) : region.to > a.at /\ region.from < a.at + a.len

Within(region, areas) ==
  \E a \in Allowed(areas) : region.from >= a.at /\ region.to <= a.at + a.len

Judge ==
  /\ pc = "read" /\ off >= Size(against.bytes)
  /\ untouched' = IF \A k \in DOMAIN out : Within(out[k], source) THEN "yes" ELSE "no"
  /\ pc' = "judged"
  /\ UNCHANGED <<baking, image, damaged, against, buffers, verified>>

Next ==
  \/ WriteTrailer \/ WriteIgnition \/ WriteKargs
  \/ Damage
  \/ StartCompare \/ ReadChunk \/ Skip \/ Difference \/ NextChunk \/ Judge

Spec == Init /\ [][Next]_vars

-----------------------------------------------------------------------------
(* Properties. *)

\* Every variable has its type: regions end inside the original, and a scan
\* stays inside what was read of it.
TypeOK ==
  /\ source \in Originals /\ payload \in Payloads /\ extra \in Extras /\ against \in Originals
  /\ image \in ImagesOf(Size(image))
  /\ damaged \in 0..MaxDamage
  /\ pc \in {"trailer", "ignition", "kargs", "baked", "failed", "read", "scan", "judged"}
  /\ off \in Nat /\ n \in 0..Chunk /\ i \in 0..n
  /\ bufB \in ImagesOf(Chunk)
  /\ out \in Seq([from : Nat, to : 0..Size(against.bytes)])
  /\ untouched \in {"unknown", "yes", "no"} /\ verified \in {"unknown", "yes", "no"}

DiffersAt(p) == image[p] # against.bytes[p]

\* The check "the original image is untouched" (verify.go:130) is as strong as
\* it says: when it passes, and the image is at least as long as the original,
\* no byte of the original differs outside the areas a bake may write.  Chunks,
\* stale buffers and merged regions hide nothing.
AcceptedIsUntouched ==
  untouched = "yes" /\ Size(image) >= Size(against.bytes) =>
    \A p \in DOMAIN against.bytes :
      DiffersAt(p) => \E a \in Allowed(source) : p \in a.at..(a.at + a.len - 1)

Findable ==
  /\ Sectors(Len(payload)) + 1 < Walk
  /\ \A k \in DOMAIN payload : (k - 1) % Sector = 0 => payload[k] # MagicByte

\* ReadTrailer (trailer.go:91) finds the payload that AppendTrailer wrote, at
\* the sector the launcher was given, whatever length the image had and
\* whatever trailer it had before, unless the payload is longer than the walk
\* back from the end or a sector of it looks like a header.
TrailerReadBack ==
  pc \in {"baked", "read", "scan", "judged"} /\ damaged = 0 /\ Findable =>
    /\ ReadTrailer(image) =
         [found |-> TRUE, sector |-> PayloadSector(source.bytes), payload |-> payload]
    /\ LauncherReads(image, source.ign, ReadTrailer(image).sector)

Files == DOMAIN source.kargs.files
OwnArgs(k) == BootArgs(source.bytes, source.kargs, source.kargs.files[k])

\* KernelArgs reads the first config and knows one terminator.
Uniform ==
  /\ \A k \in Files : OwnArgs(k) = OwnArgs(1)
  /\ Files # {} => source.kargs.files[1].end = NL

\* Nothing checks the arguments: one that holds a terminator is cut off there,
\* and a blank at their end is lost.
Plain ==
  /\ \A k \in Files : source.kargs.files[k].end \notin ToSet(extra)
  /\ extra # <<>> => extra[Len(extra)] # SP

\* AppendKernelArgs (kargs.go:53) adds the arguments to what every bootloader
\* config had, and to all of them, when the configs agree to begin with.
ArgsAppended ==
  pc = "baked" /\ damaged = 0 /\ Uniform /\ Plain =>
    \A k \in Files :
      BootArgs(image, source.kargs, source.kargs.files[k]) =
        IF extra = <<>> THEN OwnArgs(k) ELSE OwnArgs(k) \o <<SP>> \o extra

AreasApart ==
  \A a, b \in Allowed(source) : a.at < b.at => a.at + a.len + Near <= b.at

\* A bake that nothing happened to passes every check against the image it was
\* made from, whatever the arguments and the terminators are, when the areas are
\* further apart than what is merged.
UndamagedAccepted ==
  pc = "judged" /\ damaged = 0 /\ against = source =>
    \/ ~Findable \/ ~AreasApart
    \/ untouched = "yes" /\ verified = "yes"

=============================================================================
