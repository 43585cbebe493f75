---------------------------- MODULE VerifyProofs ----------------------------
(***************************************************************************)
(* Baking, damage and the comparison, for every size of sector and chunk   *)
(* and for all images, payloads and arguments.  CompareInv follows the     *)
(* scan: a difference that was passed is in a region.  WrittenInv and      *)
(* ArgsInv say what a bake has written so far, from which follow what the  *)
(* readers take out of the image, and with CleanInv that it is accepted.   *)
(***************************************************************************)
EXTENDS VerifyImage, TLAPS, FiniteSetTheorems

-----------------------------------------------------------------------------
(* Every image has a length. *)

LEMMA OriginalFacts ==
  ASSUME NEW o \in Originals
  PROVE  /\ Size(o.bytes) \in Nat
         /\ DOMAIN o.bytes = 0..(Size(o.bytes) - 1)
         /\ IsFiniteSet(DOMAIN o.bytes)
         /\ \A a \in Allowed(o) : a.at \in Nat /\ a.len \in Nat
<1>1. Size(o.bytes) \in Nat /\ o.bytes \in ImagesOf(Size(o.bytes))
  BY CompareAssumption
<1>2. DOMAIN o.bytes = 0..(Size(o.bytes) - 1)
  BY <1>1 DEF ImagesOf
<1>3. IsFiniteSet(0..(Size(o.bytes) - 1))
  BY <1>1, FS_Interval
<1>4. QED
  BY <1>1, <1>2, <1>3, CompareAssumption

LEMMA SizeIsNat ==
  ASSUME NEW img, IsFiniteSet(DOMAIN img)
  PROVE  Size(img) \in Nat
  BY FS_CardinalityType DEF Size

Finite == IsFiniteSet(DOMAIN image)

LEMMA WrittenFinite ==
  ASSUME NEW img, IsFiniteSet(DOMAIN img), NEW at \in Int, NEW bytes, Len(bytes) \in Nat
  PROVE  IsFiniteSet(DOMAIN Written(img, at, bytes))
<1>1. IsFiniteSet(at..(at + Len(bytes) - 1))
  BY FS_Interval
<1>2. IsFiniteSet(DOMAIN img \cup at..(at + Len(bytes) - 1))
  BY <1>1, FS_Union
<1>3. QED
  BY <1>2 DEF Written

LEMMA SeqFromRange ==
  ASSUME NEW S, NEW len \in Nat, NEW f \in [1..len -> S]
  PROVE  f \in Seq(S) /\ Len(f) \in Nat
  OBVIOUS

LEMMA TupleLength ==
  ASSUME NEW len \in Int, NEW f, DOMAIN f = 1..len, f = [k \in 1..len |-> f[k]]
  PROVE  f \in Seq({f[k] : k \in 1..len}) /\ Len(f) \in Nat
<1> DEFINE S == {f[k] : k \in 1..len}
<1>1. f \in [1..len -> S]
  OBVIOUS
<1> HIDE DEF S
<1>2. CASE len \in Nat
  BY <1>1, <1>2, SeqFromRange
<1>3. CASE len \notin Nat
  <2>1. 1..len = 1..0
    BY <1>3
  <2>2. f \in [1..0 -> S]
    BY <2>1, <1>1
  <2>3. QED
    BY <2>2, SeqFromRange DEF S
<1>4. QED
  BY <1>2, <1>3 DEF S

LEMMA FilledLength ==
  ASSUME NEW bytes, NEW len \in Int, NEW pad
  PROVE  \E S : Filled(bytes, len, pad) \in Seq(S) /\ Len(Filled(bytes, len, pad)) \in Nat
<1>1. /\ DOMAIN Filled(bytes, len, pad) = 1..len
      /\ Filled(bytes, len, pad) = [k \in 1..len |-> Filled(bytes, len, pad)[k]]
  BY DEF Filled
<1>2. QED
  BY <1>1, TupleLength

LEMMA ZerosLength ==
  ASSUME NEW len \in Int
  PROVE  \E S : Zeros(len) \in Seq(S) /\ Len(Zeros(len)) \in Nat
<1>1. /\ DOMAIN Zeros(len) = 1..len
      /\ Zeros(len) = [k \in 1..len |-> Zeros(len)[k]]
  BY DEF Zeros
<1>2. QED
  BY <1>1, TupleLength

LEMMA ConcatLength ==
  ASSUME NEW s, NEW t, \E S : s \in Seq(S), \E T : t \in Seq(T)
  PROVE  (\E U : s \o t \in Seq(U)) /\ Len(s \o t) \in Nat
<1>1. PICK S : s \in Seq(S)
  OBVIOUS
<1>2. PICK T : t \in Seq(T)
  OBVIOUS
<1>3. s \in Seq(S \cup T) /\ t \in Seq(S \cup T)
  BY <1>1, <1>2
<1>4. s \o t \in Seq(S \cup T)
  BY <1>3
<1>5. QED
  BY <1>4

LEMMA SectorsIsInt ==
  ASSUME NEW len \in Nat
  PROVE  Sectors(len) \in Int
  BY ByteAssumption DEF Sectors

\* Each of the three writes of a bake leaves an image with a length.
LEMMA PatchFinite ==
  ASSUME Finite, source \in Originals, payload \in Payloads
  PROVE  /\ IsFiniteSet(DOMAIN AppendTrailer(image, payload))
         /\ IsFiniteSet(DOMAIN EmbedIgnition(image, source.ign, PayloadSector(source.bytes)))
         /\ IsFiniteSet(DOMAIN AppendKernelArgs(image, source.kargs, extra).img)
<1>1. Size(image) \in Nat /\ Len(payload) \in Nat /\ Sector \in Nat
  BY SizeIsNat, CompareAssumption, ByteAssumption DEF Finite
<1>2. Sectors(Size(image)) \in Int /\ Sectors(Len(payload)) \in Int
  BY <1>1, SectorsIsInt
<1>3. IsFiniteSet(DOMAIN AppendTrailer(image, payload))
  <2> DEFINE start  == Sectors(Size(image))
             gap    == Zeros(start * Sector - Size(image))
             header == Filled(<<MagicByte, VersionByte, Len(payload), Sum(payload)>>, Sector, 0)
             body   == Filled(payload, Sectors(Len(payload)) * Sector, 0)
  <2>1. start * Sector - Size(image) \in Int /\ Sectors(Len(payload)) * Sector \in Int
    BY <1>1, <1>2
  <2>2. \E S : gap \in Seq(S)
    BY <2>1, ZerosLength
  <2>3. \E S : header \in Seq(S)
    BY <1>1, FilledLength
  <2>4. \E S : body \in Seq(S)
    BY <2>1, FilledLength
  <2> HIDE DEF gap, header, body
  <2>5. \E S : gap \o header \in Seq(S)
    BY <2>2, <2>3, ConcatLength
  <2>6. Len((gap \o header) \o body) \in Nat
    BY <2>5, <2>4, ConcatLength
  <2>7. AppendTrailer(image, payload) = Written(image, Size(image), (gap \o header) \o body)
    BY DEF AppendTrailer, gap, header, body
  <2>8. QED
    BY <1>1, <2>6, <2>7, WrittenFinite DEF Finite
<1>4. IsFiniteSet(DOMAIN EmbedIgnition(image, source.ign, PayloadSector(source.bytes)))
  <2>1. [at |-> source.ign.at, len |-> source.ign.len] \in Allowed(source)
    BY DEF Allowed
  <2>2. source.ign.at \in Nat /\ source.ign.len \in Nat
    BY <2>1, OriginalFacts
  <2>3. Len(Filled(Archive(PayloadSector(source.bytes)), source.ign.len, 0)) \in Nat
    BY <2>2, FilledLength
  <2>4. QED
    BY <2>2, <2>3, WrittenFinite DEF EmbedIgnition, Finite
<1>5. IsFiniteSet(DOMAIN AppendKernelArgs(image, source.kargs, extra).img)
  BY DEF AppendKernelArgs, SetKernelArgs, WrittenTo, Finite
<1>6. QED
  BY <1>3, <1>4, <1>5

-----------------------------------------------------------------------------
(* The comparison: a difference that has been passed is in some region.    *)

Long == Size(image) >= Size(against.bytes)

Baking == {"trailer", "ignition", "kargs", "baked", "failed"}

Shapes ==
  /\ source \in Originals /\ payload \in Payloads /\ against \in Originals
  /\ Finite
  /\ off \in Nat /\ n \in Nat /\ i \in Nat
  /\ out \in Seq([from : Nat, to : Nat])
  /\ pc \in Baking => off = 0 /\ out = <<>>
  /\ untouched # "unknown" => pc = "judged"

\* What is in the buffer while it is scanned.
Buffered ==
  pc = "scan" =>
    /\ i <= n /\ off < Size(against.bytes)
    /\ n = Smaller(Chunk, Size(against.bytes) - off)
    /\ Long => \A k \in 0..(n - 1) : bufB[k] = image[off + k]

Passed == IF pc = "scan" THEN off + i ELSE off

CoveredTo(x) ==
  \A p \in DOMAIN against.bytes :
    p < x /\ DiffersAt(p) => \E r \in DOMAIN out : out[r].from <= p /\ p < out[r].to

Covering ==
  pc \in {"read", "scan"} =>
    /\ \A r \in DOMAIN out : out[r].from <= out[r].to /\ out[r].to <= Passed
    /\ Long => CoveredTo(Passed)

CompareInv == Shapes /\ Buffered /\ Covering /\ AcceptedIsUntouched

LEMMA InitInv == Init => CompareInv
<1> SUFFICES ASSUME Init PROVE CompareInv
  OBVIOUS
<1>1. Finite
  BY OriginalFacts DEF Init, Finite
<1>2. out \in Seq([from : Nat, to : Nat])
  BY DEF Init
<1>3. QED
  BY <1>1, <1>2 DEF Init, CompareInv, Shapes, Baking, Buffered, Covering, AcceptedIsUntouched

LEMMA StutterInv == CompareInv /\ UNCHANGED vars => CompareInv'
  BY DEF CompareInv, Shapes, Finite, Buffered, Covering, Passed, CoveredTo, Long, DiffersAt,
         AcceptedIsUntouched, vars, baking, buffers, verdict

\* While it is baked and on its way nothing is compared yet.
LEMMA BakeInv ==
  ASSUME CompareInv, WriteTrailer \/ WriteIgnition \/ WriteKargs \/ Damage
  PROVE  CompareInv'
<1>1. /\ pc \in Baking /\ pc' \in Baking
      /\ UNCHANGED <<baking, against, buffers, verdict>>
  BY DEF WriteTrailer, WriteIgnition, WriteKargs, Damage, Baking, buffers
<1>2. Finite'
  <2>1. Finite /\ source \in Originals /\ payload \in Payloads
    BY DEF CompareInv, Shapes
  <2>2. CASE WriteTrailer \/ WriteIgnition \/ WriteKargs
    BY <2>1, <2>2, PatchFinite DEF WriteTrailer, WriteIgnition, WriteKargs, Finite
  <2>3. CASE Damage
    <3>1. CASE \E p \in DOMAIN image, b \in Damaging : image' = [image EXCEPT ![p] = b]
      <4>1. DOMAIN image' = DOMAIN image
        BY <3>1
      <4>2. QED
        BY <4>1, <2>1 DEF Finite
    <3>2. CASE \E length \in 1..(Size(image) - 1) :
                 image' = [p \in 0..(length - 1) |-> image[p]]
      <4>1. PICK length \in 1..(Size(image) - 1) : image' = [p \in 0..(length - 1) |-> image[p]]
        BY <3>2
      <4>2. length \in Int
        BY <4>1, <2>1, SizeIsNat DEF Finite
      <4>3. DOMAIN image' = 0..(length - 1)
        BY <4>1
      <4>4. IsFiniteSet(0..(length - 1))
        BY <4>2, FS_Interval
      <4>5. QED
        BY <4>3, <4>4 DEF Finite
    <3>3. QED
      BY <2>3, <3>1, <3>2 DEF Damage
  <2>4. QED
    BY <2>2, <2>3
<1>3. Shapes'
  BY <1>1, <1>2 DEF CompareInv, Shapes, Baking, baking, buffers, verdict
<1>4. untouched' = "unknown"
  BY <1>1 DEF CompareInv, Shapes, Baking, verdict
<1>5. QED
  BY <1>1, <1>3, <1>4 DEF CompareInv, Buffered, Covering, AcceptedIsUntouched, Baking

LEMMA StartInv ==
  ASSUME CompareInv, StartCompare
  PROVE  CompareInv'
<1>1. off = 0 /\ out = <<>> /\ untouched = "unknown"
  BY DEF CompareInv, Shapes, StartCompare, Baking
<1>2. Shapes'
  BY <1>1 DEF CompareInv, Shapes, Finite, StartCompare, Baking, baking, buffers
<1>3. Covering'
  <2>1. against' \in Originals
    BY DEF StartCompare
  <2>2. \A p \in DOMAIN against'.bytes : p >= 0
    BY <2>1, OriginalFacts
  <2>3. off' = 0 /\ out' = <<>> /\ pc' = "read"
    BY <1>1 DEF StartCompare, buffers
  <2>4. CoveredTo(Passed)'
    BY <2>2, <2>3, <2>1, OriginalFacts DEF CoveredTo, Passed
  <2>5. QED
    BY <2>3, <2>4 DEF Covering, Passed
<1>4. QED
  BY <1>1, <1>2, <1>3 DEF StartCompare, CompareInv, Buffered, AcceptedIsUntouched

\* The facts about lengths that the rest of the comparison uses.
LEMMA Lengths ==
  ASSUME CompareInv
  PROVE  /\ Size(image) \in Nat /\ Size(against.bytes) \in Nat
         /\ DOMAIN against.bytes = 0..(Size(against.bytes) - 1)
         /\ Chunk \in Nat /\ Chunk > 0 /\ Near \in Nat
         /\ off \in Nat /\ n \in Nat /\ i \in Nat
         /\ out \in Seq([from : Nat, to : Nat])
  BY SizeIsNat, OriginalFacts, CompareAssumption DEF CompareInv, Shapes, Finite

LEMMA OutFacts ==
  ASSUME NEW regions \in Seq([from : Nat, to : Nat]), NEW r \in DOMAIN regions
  PROVE  /\ regions[r] \in [from : Nat, to : Nat]
         /\ regions[r].from \in Nat /\ regions[r].to \in Nat
<1> DEFINE T == [from : Nat, to : Nat]
<1>1. ASSUME NEW seq \in Seq(T), NEW k \in DOMAIN seq PROVE seq[k] \in T
  <2> HIDE DEF T
  <2>1. QED
    BY <1>1
<1>2. regions[r] \in T
  BY <1>1
<1>3. QED
  BY <1>2

LEMMA ReadInv ==
  ASSUME CompareInv, ReadChunk
  PROVE  CompareInv'
<1>0. /\ Size(image) \in Nat /\ Size(against.bytes) \in Nat
      /\ DOMAIN against.bytes = 0..(Size(against.bytes) - 1)
      /\ Chunk \in Nat /\ Chunk > 0 /\ Near \in Nat
      /\ off \in Nat /\ n \in Nat /\ i \in Nat
      /\ out \in Seq([from : Nat, to : Nat])
  BY Lengths
<1> USE <1>0
<1>1. pc = "read" /\ untouched = "unknown"
  BY DEF ReadChunk, CompareInv, Shapes
<1>2. CASE off < Size(image)
  <2>1. /\ n' = Smaller(Chunk, Size(against.bytes) - off)
        /\ bufB' = [k \in 0..(Chunk - 1) |->
                      IF k < n' /\ off + k < Size(image) THEN image[off + k] ELSE bufB[k]]
        /\ i' = 0 /\ pc' = "scan" /\ off < Size(against.bytes)
        /\ UNCHANGED <<baking, image, damaged, against, off, out, verdict>>
    BY <1>2 DEF ReadChunk, verdict
  <2>2. n' \in Nat /\ n' <= Chunk /\ off + n' <= Size(against.bytes)
    BY <2>1 DEF Smaller
  <2>3. Shapes'
    BY <2>1, <2>2, <1>1 DEF CompareInv, Shapes, Finite, Baking, baking, verdict
  <2>4. Buffered'
    <3>1. Long => \A k \in 0..(n' - 1) : bufB'[k] = image[off + k]
      <4>1. PICK m \in Nat : m = n'
        BY <2>2
      <4>2. m <= Chunk /\ off + m <= Size(against.bytes)
        BY <2>2, <4>1
      <4>3. /\ bufB' = [k \in 0..(Chunk - 1) |->
                          IF k < m /\ off + k < Size(image) THEN image[off + k] ELSE bufB[k]]
        BY <2>1, <4>1
      <4>4. ASSUME Long, NEW k \in 0..(m - 1)
            PROVE  bufB'[k] = image[off + k]
        <5>1. Size(image) >= Size(against.bytes)
          BY <4>4 DEF Long
        <5>2. k \in 0..(Chunk - 1) /\ k < m /\ off + k < Size(image)
          BY <5>1, <4>2
        <5>3. QED
          BY <4>3, <5>2
      <4>5. QED
        BY <4>1, <4>4
    <3>2. QED
      BY <2>1, <2>2, <3>1 DEF Buffered, Long
  <2>5. Covering'
    BY <2>1, <1>1 DEF CompareInv, Covering, CoveredTo, Passed, DiffersAt, Long
  <2>6. QED
    BY <2>1, <2>3, <2>4, <2>5, <1>1 DEF CompareInv, AcceptedIsUntouched, verdict
<1>3. CASE ~(off < Size(image))
  <2>1. /\ untouched' = "no" /\ pc' = "judged"
        /\ UNCHANGED <<baking, image, damaged, against, off, out, n, i, bufB>>
    BY <1>3 DEF ReadChunk
  <2>2. Shapes'
    BY <2>1 DEF CompareInv, Shapes, Finite, Baking, baking
  <2>3. QED
    BY <2>1, <2>2 DEF CompareInv, Buffered, Covering, AcceptedIsUntouched
<1>4. QED
  BY <1>2, <1>3

LEMMA SkipInv ==
  ASSUME CompareInv, Skip
  PROVE  CompareInv'
<1>0. /\ Size(image) \in Nat /\ Size(against.bytes) \in Nat
      /\ DOMAIN against.bytes = 0..(Size(against.bytes) - 1)
      /\ Chunk \in Nat /\ Chunk > 0 /\ Near \in Nat
      /\ off \in Nat /\ n \in Nat /\ i \in Nat
      /\ out \in Seq([from : Nat, to : Nat])
  BY Lengths
<1> USE <1>0
<1>1. /\ pc = "scan" /\ pc' = "scan" /\ i < n /\ ~Differ(i) /\ i' = i + 1
      /\ UNCHANGED <<baking, image, damaged, against, off, n, bufB, out, verdict>>
  BY DEF Skip
<1>2. Shapes' /\ Buffered'
  BY <1>1 DEF CompareInv, Shapes, Finite, Buffered, Baking, baking, verdict, Long
<1>3. Covering'
  <2>1. ASSUME Long PROVE CoveredTo(off + i + 1)
    <3>1. i \in 0..(n - 1)
      BY <1>1
    <3>2. bufB[i] = image[off + i]
      BY <1>1, <2>1, <3>1 DEF CompareInv, Buffered
    <3>3. ~DiffersAt(off + i)
      BY <1>1, <3>2 DEF Differ, DiffersAt
    <3>4. CoveredTo(off + i)
      BY <1>1, <2>1 DEF CompareInv, Covering, Passed
    <3>5. ASSUME NEW p \in DOMAIN against.bytes, p < off + i + 1, DiffersAt(p)
          PROVE  p < off + i
      <4>1. p \in Nat
        OBVIOUS
      <4>2. p # off + i
        BY <3>3, <3>5
      <4>3. QED
        BY <4>1, <4>2, <3>5
    <3>6. QED
      BY <3>4, <3>5 DEF CoveredTo
  <2>2. \A r \in DOMAIN out : out[r].from <= out[r].to /\ out[r].to <= off + i
    BY <1>1 DEF CompareInv, Covering, Passed
  <2>3. \A r \in DOMAIN out : out[r].from <= out[r].to /\ out[r].to <= off + i + 1
    BY <2>2, OutFacts
  <2>4. /\ Passed' = off + i + 1 /\ out' = out
        /\ Long' <=> Long
    BY <1>1 DEF Passed, verdict, Long
  <2>5. CoveredTo(off + i + 1) => CoveredTo(Passed)'
    BY <1>1, <2>4 DEF CoveredTo, DiffersAt
  <2>6. QED
    BY <1>1, <2>1, <2>3, <2>4, <2>5 DEF Covering
<1>4. QED
  BY <1>1, <1>2, <1>3 DEF CompareInv, Shapes, AcceptedIsUntouched, verdict

\* A region that is extended or added loses no position that was in one.
LEMMA ExtendedFacts ==
  ASSUME NEW regions \in Seq([from : Nat, to : Nat]), NEW from \in Nat, NEW to \in Nat,
         from < to, \A r \in DOMAIN regions : regions[r].from <= regions[r].to /\ regions[r].to <= from, Near \in Nat
  PROVE  /\ Extended(regions, from, to) \in Seq([from : Nat, to : Nat])
         /\ \A r \in DOMAIN Extended(regions, from, to) :
              /\ Extended(regions, from, to)[r].from <= Extended(regions, from, to)[r].to
              /\ Extended(regions, from, to)[r].to <= to
         /\ \A p \in Nat :
              (p \in from..(to - 1) \/ \E r \in DOMAIN regions : regions[r].from <= p /\ p < regions[r].to)
              => \E r \in DOMAIN Extended(regions, from, to) :
                   Extended(regions, from, to)[r].from <= p /\ p < Extended(regions, from, to)[r].to
<1> DEFINE new == Extended(regions, from, to)
           last == Len(regions)
<1>1. CASE last > 0 /\ from - regions[last].to < Near
  <2>1. new = [regions EXCEPT ![last].to = to]
    BY <1>1 DEF Extended
  <2>2. last \in DOMAIN regions /\ last \in 1..Len(regions)
    BY <1>1
  <2>3. regions[last] \in [from : Nat, to : Nat]
    BY <2>2, OutFacts
  <2>4. [regions[last] EXCEPT !.to = to] \in [from : Nat, to : Nat]
    BY <2>3
  <2>5. new = [regions EXCEPT ![last] = [regions[last] EXCEPT !.to = to]]
    BY <2>1
  <2>6. /\ DOMAIN new = DOMAIN regions /\ new \in Seq([from : Nat, to : Nat])
        /\ \A r \in DOMAIN regions : r # last => new[r] = regions[r]
        /\ new[last].from = regions[last].from /\ new[last].to = to
    <3> DEFINE T == [from : Nat, to : Nat]
               v == [regions[last] EXCEPT !.to = to]
    <3>1. v.from = regions[last].from /\ v.to = to
      BY <2>3
    <3> HIDE DEF T, v
    <3>2. regions \in Seq(T) /\ v \in T /\ new = [regions EXCEPT ![last] = v]
      BY <2>4, <2>5 DEF T, v
    <3> HIDE DEF new
    <3>3. /\ DOMAIN new = DOMAIN regions /\ new \in Seq(T) /\ new[last] = v
          /\ \A r \in DOMAIN regions : r # last => new[r] = regions[r]
      BY <3>2, <2>2
    <3>4. QED
      BY <3>1, <3>3 DEF T
  <2>7. /\ regions[last].to <= from /\ regions[last].from <= from
        /\ regions[last].from \in Nat /\ regions[last].to \in Nat
    BY <2>2, OutFacts
  <2> HIDE DEF new
  <2>8. \A r \in DOMAIN new : new[r].from <= new[r].to /\ new[r].to <= to
    <3> SUFFICES ASSUME NEW r \in DOMAIN new
                 PROVE  new[r].from <= new[r].to /\ new[r].to <= to
      OBVIOUS
    <3>1. CASE r = last
      <4>1. new[last].from = regions[last].from /\ new[last].to = to
        BY <2>6
      <4>2. QED
        BY <3>1, <4>1, <2>7
    <3>2. CASE r # last
      <4>1. r \in DOMAIN regions /\ new[r] = regions[r]
        BY <3>2, <2>6
      <4>2. QED
        BY <4>1, OutFacts
    <3>3. QED
      BY <3>1, <3>2
  <2>9. ASSUME NEW p \in Nat,
               p \in from..(to - 1) \/ \E r \in DOMAIN regions : regions[r].from <= p /\ p < regions[r].to
        PROVE  \E r \in DOMAIN new : new[r].from <= p /\ p < new[r].to
    <3>1. CASE p \in from..(to - 1)
      <4>1. regions[last].from <= p /\ p < to
        BY <3>1, <2>7
      <4>2. last \in DOMAIN new /\ new[last].from <= p /\ p < new[last].to
        BY <4>1, <2>2, <2>6
      <4>3. QED
        BY <4>2
    <3>2. CASE \E r \in DOMAIN regions : regions[r].from <= p /\ p < regions[r].to
      <4>1. PICK r \in DOMAIN regions : regions[r].from <= p /\ p < regions[r].to
        BY <3>2
      <4>2. CASE r = last
        BY <4>1, <4>2, <2>2, <2>6, <2>7
      <4>3. CASE r # last
        BY <4>1, <4>3, <2>6
      <4>4. QED
        BY <4>2, <4>3
    <3>3. QED
      BY <2>9, <3>1, <3>2
  <2>10. QED
    BY <2>6, <2>8, <2>9 DEF new
<1>2. CASE ~(last > 0 /\ from - regions[last].to < Near)
  <2>1. new = Append(regions, [from |-> from, to |-> to])
    BY <1>2 DEF Extended
  <2>2. /\ new \in Seq([from : Nat, to : Nat])
        /\ \A r \in DOMAIN regions : r \in DOMAIN new /\ new[r] = regions[r]
        /\ last + 1 \in DOMAIN new /\ new[last + 1] = [from |-> from, to |-> to]
        /\ DOMAIN new = DOMAIN regions \cup {last + 1}
    BY <2>1
  <2> HIDE DEF new
  <2>3. ASSUME NEW r \in DOMAIN new
        PROVE  new[r].from <= new[r].to /\ new[r].to <= to
    <3>1. CASE r \in DOMAIN regions
      BY <3>1, <2>2, OutFacts
    <3>2. CASE r = last + 1
      BY <3>2, <2>2
    <3>3. QED
      BY <2>2, <3>1, <3>2
  <2>4. ASSUME NEW p \in Nat, p \in from..(to - 1)
        PROVE  new[last + 1].from <= p /\ p < new[last + 1].to
    BY <2>2, <2>4
  <2>5. QED
    BY <2>2, <2>3, <2>4 DEF new
<1>3. QED
  BY <1>1, <1>2

LEMMA DifferenceInv ==
  ASSUME CompareInv, Difference
  PROVE  CompareInv'
<1>0. /\ Size(image) \in Nat /\ Size(against.bytes) \in Nat
      /\ DOMAIN against.bytes = 0..(Size(against.bytes) - 1)
      /\ Chunk \in Nat /\ Chunk > 0 /\ Near \in Nat
      /\ off \in Nat /\ n \in Nat /\ i \in Nat
      /\ out \in Seq([from : Nat, to : Nat])
  BY Lengths
<1> USE <1>0
<1>1. PICK j \in (i + 1)..n :
        /\ \A k \in i..(j - 1) : Differ(k)
        /\ out' = Extended(out, off + i, off + j)
        /\ i' = j
  BY DEF Difference
<1>2. /\ pc = "scan" /\ pc' = "scan" /\ i < n
      /\ UNCHANGED <<baking, image, damaged, against, off, n, bufB, verdict>>
  BY DEF Difference
<1>3. /\ out' \in Seq([from : Nat, to : Nat])
      /\ \A r \in DOMAIN out' : out'[r].from <= out'[r].to /\ out'[r].to <= off + j
      /\ \A p \in Nat :
           (p \in (off + i)..(off + j - 1) \/ \E r \in DOMAIN out : out[r].from <= p /\ p < out[r].to)
           => \E r \in DOMAIN out' : out'[r].from <= p /\ p < out'[r].to
  <2>1. off + i \in Nat /\ off + j \in Nat /\ off + i < off + j
    BY <1>1
  <2>2. \A r \in DOMAIN out : out[r].from <= out[r].to /\ out[r].to <= off + i
    BY <1>2 DEF CompareInv, Covering, Passed
  <2> DEFINE new == Extended(out, off + i, off + j)
  <2>3. /\ new \in Seq([from : Nat, to : Nat])
        /\ \A r \in DOMAIN new : new[r].from <= new[r].to /\ new[r].to <= off + j
        /\ \A p \in Nat :
             (p \in (off + i)..(off + j - 1) \/ \E r \in DOMAIN out : out[r].from <= p /\ p < out[r].to)
             => \E r \in DOMAIN new : new[r].from <= p /\ p < new[r].to
    <3> DEFINE f == off + i
               t == off + j
    <3>1. /\ f \in Nat /\ t \in Nat /\ f < t /\ Near \in Nat
          /\ \A r \in DOMAIN out : out[r].from <= out[r].to /\ out[r].to <= f
      BY <2>1, <2>2
    <3>2. out \in Seq([from : Nat, to : Nat])
      OBVIOUS
    <3> HIDE DEF f, t, new
    <3>3. /\ Extended(out, f, t) \in Seq([from : Nat, to : Nat])
          /\ \A r \in DOMAIN Extended(out, f, t) :
               Extended(out, f, t)[r].from <= Extended(out, f, t)[r].to /\ Extended(out, f, t)[r].to <= t
          /\ \A p \in Nat :
               (p \in f..(t - 1) \/ \E r \in DOMAIN out : out[r].from <= p /\ p < out[r].to)
               => \E r \in DOMAIN Extended(out, f, t) :
                    Extended(out, f, t)[r].from <= p /\ p < Extended(out, f, t)[r].to
      BY <3>1, <3>2, ExtendedFacts
    <3>4. new = Extended(out, f, t) /\ f = off + i /\ t = off + j
      BY DEF new, f, t
    <3>5. QED
      BY <3>3, <3>4
  <2>4. out' = new
    BY <1>1
  <2> HIDE DEF new
  <2>5. QED
    BY <2>3, <2>4
<1>4. Shapes' /\ Buffered'
  BY <1>1, <1>2, <1>3 DEF CompareInv, Shapes, Finite, Buffered, Baking, baking, verdict, Long
<1>5. Covering'
  <2>1. ASSUME Long, NEW p \in DOMAIN against.bytes, p < off + j, DiffersAt(p)
        PROVE  \E r \in DOMAIN out' : out'[r].from <= p /\ p < out'[r].to
    <3>1. p \in Nat
      OBVIOUS
    <3>2. CASE p < off + i
      <4>1. CoveredTo(off + i)
        BY <1>2, <2>1 DEF CompareInv, Covering, Passed
      <4>2. \E r \in DOMAIN out : out[r].from <= p /\ p < out[r].to
        BY <4>1, <3>2, <2>1 DEF CoveredTo
      <4>3. QED
        BY <4>2, <3>1, <1>3
    <3>3. CASE ~(p < off + i)
      <4>1. p \in (off + i)..(off + j - 1)
        BY <3>1, <3>3, <2>1, <1>1
      <4>2. QED
        BY <4>1, <3>1, <1>3
    <3>4. QED
      BY <3>2, <3>3
  <2>2. Passed' = off + j /\ (Long' <=> Long)
    BY <1>1, <1>2 DEF Passed, Long
  <2>3. Long => CoveredTo(Passed)'
    BY <1>2, <2>1, <2>2 DEF CoveredTo, DiffersAt
  <2>4. QED
    BY <1>2, <1>3, <2>2, <2>3 DEF Covering
<1>6. QED
  BY <1>2, <1>4, <1>5 DEF CompareInv, Shapes, AcceptedIsUntouched, verdict

LEMMA NextChunkInv ==
  ASSUME CompareInv, NextChunk
  PROVE  CompareInv'
<1>0. /\ Size(image) \in Nat /\ Size(against.bytes) \in Nat
      /\ DOMAIN against.bytes = 0..(Size(against.bytes) - 1)
      /\ Chunk \in Nat /\ Chunk > 0 /\ Near \in Nat
      /\ off \in Nat /\ n \in Nat /\ i \in Nat
      /\ out \in Seq([from : Nat, to : Nat])
  BY Lengths
<1> USE <1>0
<1>1. /\ pc = "scan" /\ pc' = "read" /\ i = n /\ off' = off + Chunk
      /\ UNCHANGED <<baking, image, damaged, against, n, i, bufB, out, verdict>>
  BY DEF NextChunk
<1>2. Shapes' /\ Buffered'
  BY <1>1 DEF CompareInv, Shapes, Finite, Buffered, Baking, baking, verdict
<1>3. off + i <= off + Chunk /\ (off + i < off + Chunk => off + i = Size(against.bytes))
  BY <1>1 DEF CompareInv, Buffered, Smaller
<1>4. Covering'
  <2>1. \A r \in DOMAIN out : out[r].from <= out[r].to /\ out[r].to <= off + i
    BY <1>1 DEF CompareInv, Covering, Passed
  <2>2. \A r \in DOMAIN out : out[r].from <= out[r].to /\ out[r].to <= off + Chunk
    BY <2>1, <1>3, OutFacts
  <2>3. ASSUME Long PROVE CoveredTo(off + Chunk)
    <3>1. CoveredTo(off + i)
      BY <1>1, <2>3 DEF CompareInv, Covering, Passed
    <3>2. \A p \in DOMAIN against.bytes : p < off + Chunk => p < off + i
      BY <1>3
    <3>3. QED
      BY <3>1, <3>2 DEF CoveredTo
  <2>4. Passed' = off + Chunk /\ (Long' <=> Long) /\ out' = out
    BY <1>1 DEF Passed, Long
  <2>5. CoveredTo(off + Chunk) => CoveredTo(Passed)'
    BY <1>1, <2>4 DEF CoveredTo, DiffersAt
  <2>6. QED
    BY <1>1, <2>2, <2>3, <2>4, <2>5 DEF Covering
<1>5. QED
  BY <1>1, <1>2, <1>4 DEF CompareInv, Shapes, AcceptedIsUntouched, verdict

LEMMA JudgeInv ==
  ASSUME CompareInv, Judge
  PROVE  CompareInv'
<1>0. /\ Size(image) \in Nat /\ Size(against.bytes) \in Nat
      /\ DOMAIN against.bytes = 0..(Size(against.bytes) - 1)
      /\ Chunk \in Nat /\ Chunk > 0 /\ Near \in Nat
      /\ off \in Nat /\ n \in Nat /\ i \in Nat
      /\ out \in Seq([from : Nat, to : Nat])
  BY Lengths
<1> USE <1>0
<1>1. /\ pc = "read" /\ pc' = "judged" /\ off >= Size(against.bytes)
      /\ untouched' = "yes" => \A k \in DOMAIN out : Within(out[k], source)
      /\ UNCHANGED <<baking, image, damaged, against, buffers, verified>>
  BY DEF Judge
<1>2. Shapes' /\ Buffered' /\ Covering'
  BY <1>1 DEF CompareInv, Shapes, Finite, Buffered, Covering, Baking, baking, buffers
<1>3. AcceptedIsUntouched'
  <2>1. ASSUME untouched' = "yes", Long, NEW p \in DOMAIN against.bytes, DiffersAt(p)
        PROVE  \E a \in Allowed(source) : p \in a.at..(a.at + a.len - 1)
    <3>1. p \in Nat /\ p < off
      BY <1>1
    <3>2. CoveredTo(off)
      BY <1>1, <2>1 DEF CompareInv, Covering, Passed
    <3>3. PICK r \in DOMAIN out : out[r].from <= p /\ p < out[r].to
      BY <3>1, <3>2, <2>1 DEF CoveredTo
    <3>4. PICK a \in Allowed(source) : out[r].from >= a.at /\ out[r].to <= a.at + a.len
      BY <1>1, <2>1, <3>3 DEF Within
    <3>5. a.at \in Nat /\ a.len \in Nat
      BY <3>4, OriginalFacts DEF CompareInv, Shapes
    <3>6. out[r].from \in Nat /\ out[r].to \in Nat
      BY <3>3, OutFacts
    <3>7. p \in a.at..(a.at + a.len - 1)
      <4> DEFINE at == a.at
                 len == a.len
                 from == out[r].from
                 to == out[r].to
      <4>1. at \in Nat /\ len \in Nat /\ from \in Nat /\ to \in Nat /\ p \in Nat
        BY <3>1, <3>5, <3>6
      <4>2. from >= at /\ to <= at + len /\ from <= p /\ p < to
        BY <3>3, <3>4
      <4> HIDE DEF at, len, from, to
      <4>3. p \in at..(at + len - 1)
        BY <4>1, <4>2
      <4>4. QED
        BY <4>3 DEF at, len
    <3>8. QED
      BY <3>4, <3>7
  <2>2. QED
    BY <1>1, <2>1 DEF AcceptedIsUntouched, Long, DiffersAt, baking
<1>4. QED
  BY <1>2, <1>3 DEF CompareInv

LEMMA AlwaysCompared == Spec => []CompareInv
<1>1. Init => CompareInv
  BY InitInv
<1>2. CompareInv /\ [Next]_vars => CompareInv'
  BY BakeInv, StartInv, ReadInv, SkipInv, DifferenceInv, NextChunkInv, JudgeInv, StutterInv DEF Next
<1>3. QED
  BY <1>1, <1>2, PTL DEF Spec

\* AcceptedIsUntouched, which says that the check "the original image is
\* untouched" (verify.go:130) hides no difference outside the areas a bake may
\* write, holds for every size of chunk, every distance at which differences
\* are merged, and all images, areas and damage.
THEOREM UntouchedIsMeant == Spec => []AcceptedIsUntouched
<1>1. CompareInv => AcceptedIsUntouched
  BY DEF CompareInv
<1>2. QED
  BY <1>1, AlwaysCompared, PTL

-----------------------------------------------------------------------------
(* Sector arithmetic. *)

LEMMA DivFacts ==
  ASSUME NEW a \in Nat, NEW b \in Nat, b > 0
  PROVE  a \div b \in Nat /\ b * (a \div b) <= a /\ a < b * (a \div b) + b
  OBVIOUS

LEMMA MultipleDiv ==
  ASSUME NEW a \in Nat, NEW b \in Nat, b > 0
  PROVE  (a * b) \div b = a /\ (a * b) % b = 0
  OBVIOUS

\* The number of sectors that len bytes take, the last one only begun.
LEMMA SectorsFacts ==
  ASSUME NEW len \in Nat
  PROVE  /\ Sectors(len) \in Nat
         /\ Sectors(len) * Sector \in Nat
         /\ len <= Sectors(len) * Sector
         /\ Sectors(len) * Sector < len + Sector
<1>1. Sector \in Nat /\ Sector >= 4
  BY ByteAssumption
<1> DEFINE a == len + Sector - 1
           q == a \div Sector
<1>2. a \in Nat
  BY <1>1
<1>3. q \in Nat /\ Sector * q <= a /\ a < Sector * q + Sector
  <2> HIDE DEF a
  <2>1. QED
    BY <1>1, <1>2, DivFacts
<1>4. Sectors(len) = q
  BY DEF Sectors
<1> HIDE DEF q
<1>5. q * Sector = Sector * q
  BY <1>1, <1>3
<1>6. Sector * q \in Nat
  BY <1>1, <1>3
<1>7. QED
  BY <1>1, <1>3, <1>4, <1>5, <1>6

-----------------------------------------------------------------------------
(* What a write leaves and what it puts there. *)

LEMMA JoinedAt ==
  ASSUME NEW S, NEW s \in Seq(S), NEW t \in Seq(S), NEW u \in Seq(S)
  PROVE  /\ (s \o t) \o u \in Seq(S)
         /\ Len((s \o t) \o u) = Len(s) + Len(t) + Len(u)
         /\ \A k \in 1..Len(t) : ((s \o t) \o u)[Len(s) + k] = t[k]
         /\ \A k \in 1..Len(u) : ((s \o t) \o u)[Len(s) + Len(t) + k] = u[k]
<1>1. s \o t \in Seq(S) /\ Len(s \o t) = Len(s) + Len(t)
  OBVIOUS
<1>2. \A k \in 1..Len(t) : (s \o t)[Len(s) + k] = t[k]
  OBVIOUS
<1> DEFINE st == s \o t
<1>3. st \in Seq(S)
  BY <1>1
<1> HIDE DEF st
<1>4. st \o u \in Seq(S) /\ Len(st \o u) = Len(st) + Len(u)
  BY <1>3
<1>5. \A k \in 1..Len(st) : (st \o u)[k] = st[k]
  BY <1>3
<1>6. \A k \in 1..Len(u) : (st \o u)[Len(st) + k] = u[k]
  BY <1>3
<1>7. \A k \in 1..Len(t) : Len(s) + k \in 1..Len(st)
  BY <1>1 DEF st
<1>8. QED
  BY <1>1, <1>2, <1>4, <1>5, <1>6, <1>7 DEF st

LEMMA FilledFacts ==
  ASSUME NEW T, NEW bytes \in Seq(T), NEW e \in Nat, NEW pad
  PROVE  /\ \E S : Filled(bytes, e, pad) \in Seq(S)
         /\ Len(Filled(bytes, e, pad)) = e
         /\ \A k \in 1..e : Filled(bytes, e, pad)[k] = IF k <= Len(bytes) THEN bytes[k] ELSE pad
<1> DEFINE f == Filled(bytes, e, pad)
           S == {f[k] : k \in 1..e}
<1>1. /\ f = [k \in 1..e |-> f[k]]
      /\ DOMAIN f = 1..e
      /\ \A k \in 1..e : f[k] = IF k <= Len(bytes) THEN bytes[k] ELSE pad
  BY DEF Filled
<1>2. f \in [1..e -> S]
  BY <1>1
<1> HIDE DEF f, S
<1>3. f \in Seq(S) /\ Len(f) \in Nat
  BY <1>2, SeqFromRange
<1>4. Len(f) = e
  BY <1>3, <1>1
<1>5. QED
  BY <1>1, <1>3, <1>4 DEF f, S

LEMMA ZerosFacts ==
  ASSUME NEW e \in Nat
  PROVE  Zeros(e) \in Seq({0}) /\ Len(Zeros(e)) = e
<1>1. Zeros(e) \in [1..e -> {0}] /\ DOMAIN Zeros(e) = 1..e
  BY DEF Zeros
<1>2. Zeros(e) \in Seq({0})
  BY <1>1, SeqFromRange
<1>3. QED
  BY <1>1, <1>2

-----------------------------------------------------------------------------
(* The trailer: what AppendTrailer puts behind an image of so many bytes,  *)
(* and that ReadTrailer finds it.                                          *)

Trailed(img, size, bytes) ==
  LET head == Sectors(size) * Sector
      room == Sectors(Len(bytes)) * Sector
  IN  /\ DOMAIN img = 0..(head + Sector + room - 1)
      /\ img[head] = MagicByte /\ img[head + 1] = VersionByte
      /\ img[head + 2] = Len(bytes) /\ img[head + 3] = Sum(bytes)
      /\ \A k \in 1..Len(bytes) : img[head + Sector + k - 1] = bytes[k]

LEMMA AppendTrailed ==
  ASSUME NEW img, NEW size \in Nat, Size(img) = size, DOMAIN img = 0..(size - 1),
         NEW bytes \in Seq(Bytes)
  PROVE  Trailed(AppendTrailer(img, bytes), size, bytes)
<1> DEFINE head   == Sectors(size) * Sector
           room   == Sectors(Len(bytes)) * Sector
           gap    == Zeros(head - size)
           fields == <<MagicByte, VersionByte, Len(bytes), Sum(bytes)>>
           header == Filled(fields, Sector, 0)
           body   == Filled(bytes, room, 0)
           all    == (gap \o header) \o body
           new    == Written(img, size, all)
<1>1. /\ Sector \in Nat /\ Sector >= 4
      /\ head \in Nat /\ size <= head
      /\ room \in Nat /\ Len(bytes) <= room
  <2> HIDE DEF gap, fields, header, body, all, new
  <2>1. Len(bytes) \in Nat
    OBVIOUS
  <2>2. QED
    BY <2>1, ByteAssumption, SectorsFacts
<1>2. new = AppendTrailer(img, bytes)
  BY DEF AppendTrailer
<1> HIDE DEF head, room
<1>3. gap \in Seq({0}) /\ Len(gap) = head - size
  <2>1. head - size \in Nat
    BY <1>1
  <2>2. QED
    BY <2>1, ZerosFacts
<1>4. /\ \E S : header \in Seq(S)
      /\ Len(header) = Sector
      /\ header[1] = MagicByte /\ header[2] = VersionByte
      /\ header[3] = Len(bytes) /\ header[4] = Sum(bytes)
  <2>1. /\ \E S : header \in Seq(S)
        /\ Len(header) = Sector
        /\ \A k \in 1..Sector : header[k] = IF k <= Len(fields) THEN fields[k] ELSE 0
    <3> HIDE DEF fields, header
    <3>1. Sector \in Nat
      BY <1>1
    <3>2. fields \in Seq({MagicByte, VersionByte, Len(bytes), Sum(bytes)})
      BY DEF fields
    <3>3. /\ \E S : Filled(fields, Sector, 0) \in Seq(S)
          /\ Len(Filled(fields, Sector, 0)) = Sector
          /\ \A k \in 1..Sector :
               Filled(fields, Sector, 0)[k] = IF k <= Len(fields) THEN fields[k] ELSE 0
      BY <3>1, <3>2, FilledFacts
    <3>4. QED
      BY <3>3 DEF header
  <2>2. Len(fields) = 4 /\ \A k \in 1..4 : k \in 1..Sector
    BY <1>1
  <2>3. \A k \in 1..4 : header[k] = fields[k]
    <3> HIDE DEF header, fields
    <3>1. QED
      BY <2>1, <2>2
  <2>4. /\ header[1] = fields[1] /\ header[2] = fields[2]
        /\ header[3] = fields[3] /\ header[4] = fields[4]
    BY <2>3
  <2>5. /\ fields[1] = MagicByte /\ fields[2] = VersionByte
        /\ fields[3] = Len(bytes) /\ fields[4] = Sum(bytes)
    OBVIOUS
  <2> HIDE DEF header, fields
  <2>6. QED
    BY <2>1, <2>4, <2>5
<1>5. /\ \E S : body \in Seq(S)
      /\ Len(body) = room
      /\ \A k \in 1..Len(bytes) : body[k] = bytes[k]
  <2>1. /\ \E S : body \in Seq(S)
        /\ Len(body) = room
        /\ \A k \in 1..room : body[k] = IF k <= Len(bytes) THEN bytes[k] ELSE 0
    <3>1. room \in Nat
      BY <1>1
    <3>2. QED
      BY <3>1, FilledFacts
  <2>2. \A k \in 1..Len(bytes) : k \in 1..room /\ k <= Len(bytes)
    BY <1>1
  <2> HIDE DEF body
  <2>3. QED
    BY <2>1, <2>2
<1> HIDE DEF gap, fields, header, body
<1>6. /\ \E S : all \in Seq(S)
      /\ Len(all) = head - size + Sector + room
      /\ \A k \in 1..Sector : all[head - size + k] = header[k]
      /\ \A k \in 1..room : all[head - size + Sector + k] = body[k]
  <2>1. PICK S : header \in Seq(S)
    BY <1>4
  <2>2. PICK T : body \in Seq(T)
    BY <1>5
  <2> DEFINE U == {0} \cup S \cup T
  <2>3. gap \in Seq(U) /\ header \in Seq(U) /\ body \in Seq(U)
    BY <1>3, <2>1, <2>2
  <2> HIDE DEF U
  <2>4. /\ all \in Seq(U)
        /\ Len(all) = Len(gap) + Len(header) + Len(body)
        /\ \A k \in 1..Len(header) : all[Len(gap) + k] = header[k]
        /\ \A k \in 1..Len(body) : all[Len(gap) + Len(header) + k] = body[k]
    BY <2>3, JoinedAt
  <2>5. QED
    BY <2>4, <1>3, <1>4, <1>5
<1> HIDE DEF all
<1>7. Len(all) \in Nat
  BY <1>1, <1>6
<1>8. /\ DOMAIN new = 0..(size - 1) \cup size..(size + Len(all) - 1)
      /\ \A p \in size..(size + Len(all) - 1) : new[p] = all[p - size + 1]
  BY <1>7 DEF Written
<1> HIDE DEF new
<1>9. DOMAIN new = 0..(head + Sector + room - 1)
  <2>1. size + Len(all) - 1 = head + Sector + room - 1
    BY <1>1, <1>6
  <2>2. 0..(size - 1) \cup size..(head + Sector + room - 1) = 0..(head + Sector + room - 1)
    BY <1>1
  <2>3. QED
    BY <1>8, <2>1, <2>2
<1>10. \A k \in 1..Sector : new[head + k - 1] = header[k]
  <2>1. ASSUME NEW k \in 1..Sector PROVE new[head + k - 1] = header[k]
    <3>1. /\ head + k - 1 \in size..(size + Len(all) - 1)
          /\ (head + k - 1) - size + 1 = head - size + k
      BY <1>1, <1>6
    <3>2. new[head + k - 1] = all[(head + k - 1) - size + 1]
      BY <1>8, <3>1
    <3>3. QED
      BY <1>6, <3>1, <3>2
  <2>2. QED
    BY <2>1
<1>11. \A k \in 1..Len(bytes) : new[head + Sector + k - 1] = bytes[k]
  <2>1. ASSUME NEW k \in 1..Len(bytes) PROVE new[head + Sector + k - 1] = bytes[k]
    <3>1. k \in 1..room
      BY <1>1
    <3>2. /\ head + Sector + k - 1 \in size..(size + Len(all) - 1)
          /\ (head + Sector + k - 1) - size + 1 = head - size + Sector + k
      BY <1>1, <1>6, <3>1
    <3>3. new[head + Sector + k - 1] = all[(head + Sector + k - 1) - size + 1]
      BY <1>8, <3>2
    <3>4. all[head - size + Sector + k] = body[k] /\ body[k] = bytes[k]
      BY <1>5, <1>6, <3>1
    <3>5. QED
      BY <3>2, <3>3, <3>4
  <2>2. QED
    BY <2>1
<1>12. /\ new[head] = MagicByte /\ new[head + 1] = VersionByte
       /\ new[head + 2] = Len(bytes) /\ new[head + 3] = Sum(bytes)
  <2>1. 1 \in 1..Sector /\ 2 \in 1..Sector /\ 3 \in 1..Sector /\ 4 \in 1..Sector
    BY <1>1
  <2>2. head + 1 - 1 = head /\ head + 2 - 1 = head + 1 /\ head + 3 - 1 = head + 2
        /\ head + 4 - 1 = head + 3
    BY <1>1
  <2>3. /\ new[head + 1 - 1] = header[1] /\ new[head + 2 - 1] = header[2]
        /\ new[head + 3 - 1] = header[3] /\ new[head + 4 - 1] = header[4]
    BY <1>10, <2>1
  <2>4. QED
    BY <2>2, <2>3, <1>4
<1>13. QED
  BY <1>2, <1>9, <1>11, <1>12 DEF Trailed, head, room

\* A write in front of the trailer keeps it.
LEMMA TrailerKept ==
  ASSUME NEW img, NEW new, NEW size \in Nat, NEW bytes \in Seq(Bytes),
         Trailed(img, size, bytes), DOMAIN new = DOMAIN img,
         \A p \in DOMAIN img : p >= size => new[p] = img[p]
  PROVE  Trailed(new, size, bytes)
<1> DEFINE head == Sectors(size) * Sector
           room == Sectors(Len(bytes)) * Sector
<1>1. /\ Sector \in Nat /\ Sector >= 4
      /\ head \in Nat /\ size <= head
      /\ room \in Nat /\ Len(bytes) <= room
  BY ByteAssumption, SectorsFacts
<1>2. /\ DOMAIN img = 0..(head + Sector + room - 1)
      /\ img[head] = MagicByte /\ img[head + 1] = VersionByte
      /\ img[head + 2] = Len(bytes) /\ img[head + 3] = Sum(bytes)
      /\ \A k \in 1..Len(bytes) : img[head + Sector + k - 1] = bytes[k]
  BY DEF Trailed
<1> HIDE DEF head, room
<1>3. \A p \in head..(head + Sector + room - 1) : new[p] = img[p]
  BY <1>1, <1>2
<1>4. /\ {head, head + 1, head + 2, head + 3} \subseteq head..(head + Sector + room - 1)
      /\ \A k \in 1..Len(bytes) : head + Sector + k - 1 \in head..(head + Sector + room - 1)
  BY <1>1
<1>5. /\ new[head] = MagicByte /\ new[head + 1] = VersionByte
      /\ new[head + 2] = Len(bytes) /\ new[head + 3] = Sum(bytes)
      /\ \A k \in 1..Len(bytes) : new[head + Sector + k - 1] = bytes[k]
  BY <1>2, <1>3, <1>4
<1>6. QED
  BY <1>2, <1>5 DEF Trailed, head, room

LEMMA SizeOfInterval ==
  ASSUME NEW img, NEW e \in Nat, DOMAIN img = 0..(e - 1)
  PROVE  Size(img) = e
<1>1. Cardinality(0..(e - 1)) = IF 0 > e - 1 THEN 0 ELSE (e - 1) - 0 + 1
  BY FS_Interval
<1>2. QED
  BY <1>1 DEF Size

\* Where the header is, as a sector, and where each sector of the payload is.
LEMMA ReadTrailed ==
  ASSUME NEW img, NEW size \in Nat, NEW bytes \in Seq(Bytes),
         Trailed(img, size, bytes),
         Sectors(Len(bytes)) + 1 < Walk,
         \A k \in DOMAIN bytes : (k - 1) % Sector = 0 => bytes[k] # MagicByte
  PROVE  ReadTrailer(img) =
           [found |-> TRUE, sector |-> Sectors(size) + 1, payload |-> bytes]
<1> DEFINE start  == Sectors(size)
           blocks == Sectors(Len(bytes))
           head   == start * Sector
           room   == blocks * Sector
           end    == (start + 1 + blocks) * Sector
<1>1. /\ Sector \in Nat /\ Sector >= 4 /\ Walk \in Nat
      /\ Len(bytes) \in Nat
  BY ByteAssumption
<1>2. /\ start \in Nat /\ blocks \in Nat
      /\ head \in Nat /\ room \in Nat
      /\ Len(bytes) <= room /\ room < Len(bytes) + Sector
  BY <1>1, SectorsFacts
<1>3. blocks + 1 < Walk
  OBVIOUS
<1>4. /\ DOMAIN img = 0..(head + Sector + room - 1)
      /\ img[head] = MagicByte /\ img[head + 1] = VersionByte
      /\ img[head + 2] = Len(bytes) /\ img[head + 3] = Sum(bytes)
      /\ \A k \in 1..Len(bytes) : img[head + Sector + k - 1] = bytes[k]
  BY DEF Trailed
<1> HIDE DEF start, blocks
<1>5. end = head + Sector + room /\ end \in Nat
  BY <1>1, <1>2
<1>6. Size(img) = end
  <2> HIDE DEF head, room, end
  <2>1. DOMAIN img = 0..(end - 1)
    BY <1>1, <1>2, <1>4, <1>5
  <2>2. QED
    BY <1>5, <2>1, SizeOfInterval
<1>7. end \div Sector = start + 1 + blocks
  <2>1. start + 1 + blocks \in Nat
    BY <1>2
  <2>2. QED
    BY <1>1, <2>1, MultipleDiv
<1> DEFINE sectors == Size(img) \div Sector
           heads   == {s \in 0..(sectors - 1) : s > sectors - Walk /\ img[s * Sector] = MagicByte}
<1>8. sectors = start + 1 + blocks
  BY <1>6, <1>7
<1>9. start \in heads
  <2>1. start \in 0..(sectors - 1) /\ start > sectors - Walk
    BY <1>1, <1>2, <1>3, <1>8
  <2>2. QED
    BY <1>4, <2>1
<1>10. ASSUME NEW s \in heads PROVE s <= start
  <2>1. s \in Nat /\ s <= start + blocks /\ img[s * Sector] = MagicByte
    BY <1>2, <1>8
  <2>2. SUFFICES ASSUME s > start PROVE FALSE
    BY <1>2, <2>1
  <2> DEFINE j == s - (start + 1)
             k == j * Sector + 1
  <2>3. j \in Nat /\ j + 1 <= blocks /\ s = start + 1 + j
    BY <1>2, <2>1, <2>2
  <2> HIDE DEF j
  <2>4. j * Sector \in Nat /\ (j + 1) * Sector <= room /\ (j + 1) * Sector = j * Sector + Sector
    BY <1>1, <1>2, <2>3
  <2>5. s * Sector = head + Sector + j * Sector
    BY <1>1, <1>2, <2>3
  <2>6. k \in 1..Len(bytes) /\ head + Sector + k - 1 = s * Sector
    <3> HIDE DEF head, room
    <3>1. QED
      BY <1>1, <1>2, <2>4, <2>5
  <2>7. (k - 1) % Sector = 0
    <3>1. k - 1 = j * Sector
      BY <2>4
    <3>2. (j * Sector) % Sector = 0
      <4>1. j \in Nat /\ Sector \in Nat /\ Sector > 0
        BY <1>1, <2>3
      <4> HIDE <1>4, <1>8, <1>9
      <4>2. QED
        BY <4>1, MultipleDiv
    <3>3. QED
      BY <3>1, <3>2
  <2> HIDE DEF k
  <2>8. bytes[k] # MagicByte /\ img[head + Sector + k - 1] = bytes[k]
    <3>1. bytes[k] # MagicByte
      BY <1>1, <2>6, <2>7
    <3>2. img[head + Sector + k - 1] = bytes[k]
      BY <1>4, <2>6
    <3>3. QED
      BY <3>1, <3>2
  <2>9. QED
    BY <2>1, <2>6, <2>8
<1> HIDE DEF heads, sectors
<1>11. (CHOOSE s \in heads : \A t \in heads : t <= s) = start
  <2>1. \A t \in heads : t \in Nat
    BY <1>8, <1>2 DEF heads
  <2>2. ASSUME NEW s \in heads, \A t \in heads : t <= s PROVE s = start
    BY <1>2, <1>9, <1>10, <2>1, <2>2
  <2>3. start \in heads /\ \A t \in heads : t <= start
    BY <1>9, <1>10
  <2>4. QED
    BY <2>2, <2>3
<1>12. head + 1 = start * Sector + 1 /\ (start + 1) * Sector = head + Sector
  BY <1>1, <1>2
<1>13. ReadAt(img, head + Sector, Len(bytes)) = bytes
  <2>1. bytes = [k \in 1..Len(bytes) |-> bytes[k]]
    OBVIOUS
  <2>2. \A k \in 1..Len(bytes) : img[head + Sector + k - 1] = bytes[k]
    BY <1>4
  <2> HIDE DEF head
  <2>3. QED
    BY <2>1, <2>2 DEF ReadAt
<1>14. ~(head + Sector + Len(bytes) > Size(img))
  <2> HIDE DEF head, room, end
  <2>1. QED
    BY <1>1, <1>2, <1>5, <1>6
<1>15. QED
  <2>1. heads # {}
    BY <1>9
  <2>2. ReadTrailer(img) =
          IF heads = {} \/ img[start * Sector + 1] # VersionByte
             \/ (start + 1) * Sector + img[start * Sector + 2] > Size(img)
          THEN NoTrailer
          ELSE IF Sum(ReadAt(img, (start + 1) * Sector, img[start * Sector + 2])) # img[start * Sector + 3]
               THEN NoTrailer
               ELSE [found |-> TRUE, sector |-> start + 1,
                     payload |-> ReadAt(img, (start + 1) * Sector, img[start * Sector + 2])]
    BY <1>11 DEF ReadTrailer, heads, sectors
  <2>3. /\ img[start * Sector + 1] = VersionByte /\ img[start * Sector + 2] = Len(bytes)
        /\ img[start * Sector + 3] = Sum(bytes)
    BY <1>4
  <2>4. QED
    BY <2>1, <2>2, <2>3, <1>12, <1>13, <1>14 DEF start

-----------------------------------------------------------------------------
(* Where the areas of a released image are.                                *)

IgnArea(o) == o.ign.at..(o.ign.at + o.ign.len - 1)

InKargs(o, p) == \E k \in DOMAIN o.kargs.files : p \in Area(o.kargs, k)

LEMMA FileFacts ==
  ASSUME NEW o \in Originals, NEW k \in DOMAIN o.kargs.files
  PROVE  /\ o.kargs.files[k] \in [at : Nat, room : Nat, pad : Bytes, end : Bytes]
         /\ o.kargs.files[k].at \in Nat /\ o.kargs.files[k].room \in Nat
         /\ o.kargs.files[k].pad \in Bytes /\ o.kargs.files[k].end \in Bytes
         /\ o.kargs.files[k].at + o.kargs.size <= Size(o.bytes)
         /\ \/ o.ign.at + o.ign.len <= o.kargs.files[k].at
            \/ o.kargs.files[k].at + o.kargs.size <= o.ign.at
         /\ o.kargs.files[k].end # SP
<1> DEFINE T == [at : Nat, room : Nat, pad : Bytes, end : Bytes]
           f == o.kargs.files
<1>1. f \in Seq(T)
  BY ReleasedAssumption
<1>2. f[k] \in T
  <2> HIDE DEF T
  <2>1. QED
    BY <1>1
<1>3. [at |-> f[k].at, len |-> o.kargs.size] \in Allowed(o)
  BY DEF Allowed
<1>4. f[k].at + o.kargs.size <= Size(o.bytes)
  BY <1>3, ReleasedAssumption
<1>5. /\ o.ign.at + o.ign.len <= f[k].at \/ f[k].at + o.kargs.size <= o.ign.at
      /\ f[k].end # SP
  BY ReleasedAssumption
<1>6. QED
  BY <1>2, <1>4, <1>5

LEMMA AreaFacts ==
  ASSUME NEW o \in Originals
  PROVE  /\ Size(o.bytes) \in Nat /\ DOMAIN o.bytes = 0..(Size(o.bytes) - 1)
         /\ o.ign.at \in Nat /\ o.ign.len \in Nat /\ o.ign.at + o.ign.len <= Size(o.bytes)
         /\ o.kargs.size \in Nat
         /\ Len(o.kargs.files) \in Nat /\ DOMAIN o.kargs.files = 1..Len(o.kargs.files)
         /\ \A p \in IgnArea(o) : p \in Nat /\ p < Size(o.bytes)
         /\ \A p : InKargs(o, p) => p \in Nat /\ p < Size(o.bytes) /\ p \notin IgnArea(o)
<1>1. [at |-> o.ign.at, len |-> o.ign.len] \in Allowed(o)
  BY DEF Allowed
<1>2. o.ign.at + o.ign.len <= Size(o.bytes)
  BY <1>1, ReleasedAssumption
<1>3. /\ Size(o.bytes) \in Nat /\ DOMAIN o.bytes = 0..(Size(o.bytes) - 1)
      /\ o.ign.at \in Nat /\ o.ign.len \in Nat
  BY <1>1, OriginalFacts
<1>4. o.kargs.size \in Nat
  BY ReleasedAssumption
<1>5. Len(o.kargs.files) \in Nat /\ DOMAIN o.kargs.files = 1..Len(o.kargs.files)
  <2>1. \E T : o.kargs.files \in Seq(T)
    BY ReleasedAssumption
  <2>2. QED
    BY <2>1
<1>6. \A p \in IgnArea(o) : p \in Nat /\ p < Size(o.bytes)
  BY <1>2, <1>3 DEF IgnArea
<1>7. ASSUME NEW p, InKargs(o, p)
      PROVE  p \in Nat /\ p < Size(o.bytes) /\ p \notin IgnArea(o)
  <2>1. PICK k \in DOMAIN o.kargs.files : p \in Area(o.kargs, k)
    BY <1>7 DEF InKargs
  <2>2. PICK at \in Nat : at = o.kargs.files[k].at
    BY FileFacts
  <2>3. /\ at + o.kargs.size <= Size(o.bytes)
        /\ o.ign.at + o.ign.len <= at \/ at + o.kargs.size <= o.ign.at
    BY <2>2, FileFacts
  <2>4. p \in at..(at + o.kargs.size - 1)
    BY <2>1, <2>2 DEF Area
  <2> DEFINE size == o.kargs.size
             from == o.ign.at
             len  == o.ign.len
             end  == Size(o.bytes)
  <2>5. /\ size \in Nat /\ from \in Nat /\ len \in Nat /\ end \in Nat
        /\ at + size <= end /\ (from + len <= at \/ at + size <= from)
        /\ p \in at..(at + size - 1)
    BY <1>3, <1>4, <2>3, <2>4
  <2> HIDE DEF size, from, len, end
  <2>6. p \in Nat /\ p < end /\ p \notin from..(from + len - 1)
    BY <2>2, <2>5
  <2>7. QED
    BY <2>6 DEF from, len, end, IgnArea
<1>8. QED
  BY <1>2, <1>3, <1>4, <1>5, <1>6, <1>7

-----------------------------------------------------------------------------
(* What the writes to the areas leave alone, and what they put there.      *)

LEMMA IgnitionWrite ==
  ASSUME NEW o \in Originals, NEW img, NEW s \in Nat,
         IgnArea(o) \subseteq DOMAIN img, FitsArea(o.ign)
  PROVE  LET new == EmbedIgnition(img, o.ign, s)
         IN  /\ DOMAIN new = DOMAIN img
             /\ \A p \in DOMAIN img : p \notin IgnArea(o) => new[p] = img[p]
             /\ LauncherReads(new, o.ign, s)
<1> DEFINE all == Filled(Archive(s), o.ign.len, 0)
           new == Written(img, o.ign.at, all)
<1>1. o.ign.at \in Nat /\ o.ign.len \in Nat
  BY AreaFacts
<1>2. Archive(s) = <<GzipByte, s>> /\ Archive(s) \in Seq(Nat) /\ Len(Archive(s)) = 2
  BY ByteAssumption DEF Archive
<1>3. o.ign.len >= 2
  BY DEF FitsArea, Archive
<1>4. /\ \E S : all \in Seq(S)
      /\ Len(all) = o.ign.len
      /\ \A k \in 1..o.ign.len : all[k] = IF k <= Len(Archive(s)) THEN Archive(s)[k] ELSE 0
  <2> DEFINE cells == Archive(s)
  <2>1. cells \in Seq(Nat)
    BY <1>2
  <2> HIDE DEF cells
  <2>2. /\ \E S : Filled(cells, o.ign.len, 0) \in Seq(S)
        /\ Len(Filled(cells, o.ign.len, 0)) = o.ign.len
        /\ \A k \in 1..o.ign.len :
             Filled(cells, o.ign.len, 0)[k] = IF k <= Len(cells) THEN cells[k] ELSE 0
    BY <1>1, <2>1, FilledFacts
  <2>3. QED
    BY <2>2 DEF cells
<1>5. all[1] = GzipByte /\ all[2] = s
  <2>1. 1 \in 1..o.ign.len /\ 2 \in 1..o.ign.len
    BY <1>1, <1>3
  <2>2. all[1] = Archive(s)[1] /\ all[2] = Archive(s)[2]
    BY <1>2, <1>4, <2>1
  <2>3. Archive(s)[1] = GzipByte /\ Archive(s)[2] = s
    BY <1>2
  <2>4. QED
    BY <2>2, <2>3
<1> HIDE DEF all
<1>6. /\ DOMAIN new = DOMAIN img \cup IgnArea(o)
      /\ \A p \in IgnArea(o) : new[p] = all[p - o.ign.at + 1]
      /\ \A p \in DOMAIN img : p \notin IgnArea(o) => new[p] = img[p]
  BY <1>1, <1>4 DEF Written, IgnArea
<1>7. /\ o.ign.at \in IgnArea(o) /\ o.ign.at + 1 \in IgnArea(o)
      /\ o.ign.at - o.ign.at + 1 = 1 /\ (o.ign.at + 1) - o.ign.at + 1 = 2
  BY <1>1, <1>3 DEF IgnArea
<1>8. new[o.ign.at] = GzipByte /\ new[o.ign.at + 1] = s
  BY <1>5, <1>6, <1>7
<1>9. QED
  BY <1>6, <1>8 DEF EmbedIgnition, LauncherReads, all

LEMMA ArgsWrite ==
  ASSUME NEW o \in Originals, NEW info, info = o.kargs, NEW img, NEW args,
         NEW done, done = AppendKernelArgs(img, info, args), done.ok,
         NEW new, new = done.img
  PROVE  /\ DOMAIN new = DOMAIN img
         /\ \A p \in DOMAIN img : ~InKargs(o, p) => new[p] = img[p]
<1> DEFINE full == KernelArgs(img, info) \o <<SP>> \o args
<1>1. Len(info.files) \in Nat /\ DOMAIN info.files = 1..Len(info.files)
  BY AreaFacts
<1>2. ASSUME NEW last, 1..last \subseteq DOMAIN info.files
      PROVE  LET w == WrittenTo(img, info, last, full)
             IN  /\ DOMAIN w = DOMAIN img
                 /\ \A p \in DOMAIN img : ~InKargs(o, p) => w[p] = img[p]
  <2> HIDE DEF full
  <2>1. \A p : ~InKargs(o, p) => {k \in 1..last : p \in Area(info, k)} = {}
    BY <1>2 DEF InKargs
  <2>2. QED
    BY <2>1 DEF WrittenTo
<1> HIDE DEF full
<1>3. 1..Len(info.files) \subseteq DOMAIN info.files
  BY <1>1
<1>4. new \in {img, WrittenTo(img, info, Len(info.files), full)}
  BY DEF AppendKernelArgs, SetKernelArgs, full
<1>5. QED
  BY <1>2, <1>3, <1>4

LEMMA AppendKeeps ==
  ASSUME NEW img, NEW size \in Nat, Size(img) = size, DOMAIN img = 0..(size - 1), NEW bytes
  PROVE  \A p \in DOMAIN img : AppendTrailer(img, bytes)[p] = img[p]
<1> DEFINE all == Zeros(Sectors(size) * Sector - size)
                    \o Filled(<<MagicByte, VersionByte, Len(bytes), Sum(bytes)>>, Sector, 0)
                    \o Filled(bytes, Sectors(Len(bytes)) * Sector, 0)
<1>1. AppendTrailer(img, bytes) = Written(img, size, all)
  BY DEF AppendTrailer
<1> HIDE DEF all
<1>2. \A p \in DOMAIN img : p \notin size..(size + Len(all) - 1)
  OBVIOUS
<1>3. QED
  BY <1>1, <1>2 DEF Written

-----------------------------------------------------------------------------
(* What an image holds at each step of a bake, as long as nothing has      *)
(* happened to it.                                                         *)

Done == {"baked", "read", "scan", "judged"}

Original(p) == image[p] = source.bytes[p]

WrittenInv ==
  /\ source \in Originals /\ payload \in Payloads
  /\ damaged \in Nat
  /\ pc = "trailer" => image = source.bytes
  /\ damaged = 0 =>
       /\ pc \in {"ignition", "kargs"} \cup Done => Trailed(image, Size(source.bytes), payload)
       /\ pc \in {"kargs"} \cup Done =>
            FitsArea(source.ign) /\ LauncherReads(image, source.ign, PayloadSector(source.bytes))
       /\ pc = "ignition" => \A p \in DOMAIN source.bytes : Original(p)
       /\ pc = "kargs" => \A p \in DOMAIN source.bytes : p \notin IgnArea(source) => Original(p)
       /\ pc \in Done => \A p \in DOMAIN source.bytes :
            p \notin IgnArea(source) /\ ~InKargs(source, p) => Original(p)

LEMMA TrailedSize ==
  ASSUME NEW img, NEW size \in Nat, NEW bytes \in Seq(Bytes), Trailed(img, size, bytes)
  PROVE  /\ 0..(size - 1) \subseteq DOMAIN img
         /\ Size(img) \in Nat /\ Size(img) > size
         /\ DOMAIN img = 0..(Size(img) - 1)
<1> DEFINE head == Sectors(size) * Sector
           room == Sectors(Len(bytes)) * Sector
           end  == head + Sector + room
<1>1. Len(bytes) \in Nat
  OBVIOUS
<1>2. /\ Sector \in Nat /\ Sector >= 4
      /\ head \in Nat /\ size <= head /\ room \in Nat
  BY <1>1, ByteAssumption, SectorsFacts
<1>3. DOMAIN img = 0..(head + Sector + room - 1)
  BY DEF Trailed
<1> HIDE DEF head, room
<1>4. end \in Nat /\ size < end /\ DOMAIN img = 0..(end - 1)
  BY <1>2, <1>3
<1> HIDE DEF end
<1>5. Size(img) = end
  BY <1>4, SizeOfInterval
<1>6. QED
  BY <1>4, <1>5

LEMMA InitWritten == Init => WrittenInv
  BY CompareAssumption DEF Init, WrittenInv, Done

LEMMA WriteTrailerWritten ==
  ASSUME WrittenInv, WriteTrailer
  PROVE  WrittenInv'
<1>1. /\ source \in Originals /\ payload \in Payloads /\ damaged \in Nat
      /\ image = source.bytes
      /\ image' = AppendTrailer(image, payload) /\ pc' = "ignition"
      /\ UNCHANGED <<source, payload, damaged>>
  BY DEF WrittenInv, WriteTrailer, baking
<1>2. payload \in Seq(Bytes)
  BY <1>1, CompareAssumption
<1>3. Size(source.bytes) \in Nat /\ DOMAIN source.bytes = 0..(Size(source.bytes) - 1)
  BY <1>1, AreaFacts
<1>4. Trailed(AppendTrailer(source.bytes, payload), Size(source.bytes), payload)
  BY <1>2, <1>3, AppendTrailed
<1>5. \A p \in DOMAIN source.bytes : AppendTrailer(source.bytes, payload)[p] = source.bytes[p]
  BY <1>3, AppendKeeps
<1>6. QED
  BY <1>1, <1>4, <1>5 DEF WrittenInv, Original, Done

LEMMA WriteIgnitionWritten ==
  ASSUME WrittenInv, WriteIgnition
  PROVE  WrittenInv'
<1>1. /\ source \in Originals /\ payload \in Payloads /\ damaged \in Nat
      /\ pc = "ignition" /\ UNCHANGED <<source, payload, damaged>>
  BY DEF WrittenInv, WriteIgnition, baking
<1>2. CASE ~FitsArea(source.ign) \/ damaged # 0
  BY <1>1, <1>2 DEF WrittenInv, WriteIgnition, Done
<1>3. CASE FitsArea(source.ign) /\ damaged = 0
  <2>1. /\ image' = EmbedIgnition(image, source.ign, PayloadSector(source.bytes))
        /\ pc' = "kargs"
    BY <1>3 DEF WriteIgnition
  <2>2. payload \in Seq(Bytes)
    BY <1>1, CompareAssumption
  <2>3. /\ Size(source.bytes) \in Nat /\ DOMAIN source.bytes = 0..(Size(source.bytes) - 1)
        /\ \A p \in IgnArea(source) : p \in Nat /\ p < Size(source.bytes)
    BY <1>1, AreaFacts
  <2>4. /\ Trailed(image, Size(source.bytes), payload)
        /\ \A p \in DOMAIN source.bytes : Original(p)
    BY <1>1, <1>3 DEF WrittenInv
  <2>5. DOMAIN source.bytes \subseteq DOMAIN image
    BY <2>2, <2>3, <2>4, TrailedSize
  <2>6. IgnArea(source) \subseteq DOMAIN image
    BY <2>3, <2>5
  <2>7. PayloadSector(source.bytes) \in Nat
    <3> DEFINE size == Size(source.bytes)
    <3>1. size \in Nat /\ PayloadSector(source.bytes) = Sectors(size) + 1
      BY <2>3 DEF PayloadSector
    <3> HIDE DEF size
    <3>2. Sectors(size) \in Nat
      BY <3>1, SectorsFacts
    <3>3. QED
      BY <3>1, <3>2
  <2>8. /\ DOMAIN image' = DOMAIN image
        /\ \A p \in DOMAIN image : p \notin IgnArea(source) => image'[p] = image[p]
        /\ LauncherReads(image', source.ign, PayloadSector(source.bytes))
    BY <1>1, <1>3, <2>1, <2>6, <2>7, IgnitionWrite
  <2>9. \A p \in DOMAIN image : p >= Size(source.bytes) => image'[p] = image[p]
    BY <2>3, <2>8
  <2>10. Trailed(image', Size(source.bytes), payload)
    BY <2>2, <2>3, <2>4, <2>8, <2>9, TrailerKept
  <2>11. \A p \in DOMAIN source.bytes : p \notin IgnArea(source) => image'[p] = source.bytes[p]
    BY <2>4, <2>5, <2>8 DEF Original
  <2>12. QED
    BY <1>1, <1>3, <2>1, <2>8, <2>10, <2>11 DEF WrittenInv, Original, Done
<1>4. QED
  BY <1>2, <1>3

LEMMA WriteKargsWritten ==
  ASSUME WrittenInv, WriteKargs
  PROVE  WrittenInv'
<1> DEFINE done == AppendKernelArgs(image, source.kargs, extra)
<1>1. /\ source \in Originals /\ payload \in Payloads /\ damaged \in Nat
      /\ pc = "kargs" /\ UNCHANGED <<source, payload, damaged>>
      /\ image' = done.img /\ pc' = IF done.ok THEN "baked" ELSE "failed"
  BY DEF WrittenInv, WriteKargs, baking
<1> HIDE DEF done
<1>2. CASE ~done.ok \/ damaged # 0
  BY <1>1, <1>2 DEF WrittenInv, Done
<1>3. CASE done.ok /\ damaged = 0
  <2>1. payload \in Seq(Bytes)
    BY <1>1, CompareAssumption
  <2>2. /\ Size(source.bytes) \in Nat /\ DOMAIN source.bytes = 0..(Size(source.bytes) - 1)
        /\ \A p \in IgnArea(source) : p \in Nat /\ p < Size(source.bytes)
        /\ \A p : InKargs(source, p) => p \in Nat /\ p < Size(source.bytes) /\ p \notin IgnArea(source)
    BY <1>1, AreaFacts
  <2>3. /\ Trailed(image, Size(source.bytes), payload)
        /\ FitsArea(source.ign) /\ LauncherReads(image, source.ign, PayloadSector(source.bytes))
        /\ \A p \in DOMAIN source.bytes : p \notin IgnArea(source) => Original(p)
    BY <1>1, <1>3 DEF WrittenInv
  <2>4. DOMAIN source.bytes \subseteq DOMAIN image
    BY <2>1, <2>2, <2>3, TrailedSize
  <2>5. /\ DOMAIN image' = DOMAIN image
        /\ \A p \in DOMAIN image : ~InKargs(source, p) => image'[p] = image[p]
    <3>1. PICK info : info = source.kargs
      OBVIOUS
    <3>2. PICK new : new = image'
      OBVIOUS
    <3>3. done = AppendKernelArgs(image, info, extra)
      BY <3>1 DEF done
    <3>4. DOMAIN new = DOMAIN image /\ \A p \in DOMAIN image : ~InKargs(source, p) => new[p] = image[p]
      BY <1>1, <1>3, <3>1, <3>2, <3>3, ArgsWrite
    <3>5. QED
      BY <3>2, <3>4
  <2>6. \A p \in DOMAIN image : p >= Size(source.bytes) => image'[p] = image[p]
    BY <2>2, <2>5
  <2>7. Trailed(image', Size(source.bytes), payload)
    BY <2>1, <2>2, <2>3, <2>5, <2>6, TrailerKept
  <2>8. \A p \in DOMAIN source.bytes :
          p \notin IgnArea(source) /\ ~InKargs(source, p) => image'[p] = source.bytes[p]
    BY <2>3, <2>4, <2>5 DEF Original
  <2>9. LauncherReads(image', source.ign, PayloadSector(source.bytes))
    <3>1. source.ign.at \in Nat /\ source.ign.len \in Nat /\ source.ign.len >= 2
      BY <1>1, <2>3, AreaFacts DEF FitsArea, Archive
    <3>2. source.ign.at \in IgnArea(source) /\ source.ign.at + 1 \in IgnArea(source)
      BY <3>1 DEF IgnArea
    <3>3. /\ source.ign.at \in DOMAIN image /\ source.ign.at + 1 \in DOMAIN image
          /\ ~InKargs(source, source.ign.at) /\ ~InKargs(source, source.ign.at + 1)
      BY <2>2, <2>4, <3>2
    <3>4. QED
      BY <2>3, <2>5, <3>3 DEF LauncherReads
  <2>10. QED
    BY <1>1, <1>3, <2>3, <2>7, <2>8, <2>9 DEF WrittenInv, Original, Done
<1>4. QED
  BY <1>2, <1>3

\* Damage is counted, and the comparison writes nothing.
LEMMA OtherWritten ==
  ASSUME WrittenInv,
         Damage \/ StartCompare \/ ReadChunk \/ Skip \/ Difference \/ NextChunk \/ Judge
           \/ UNCHANGED vars
  PROVE  WrittenInv'
<1>1. CASE Damage
  <2>1. /\ damaged' = damaged + 1 /\ pc = "baked" /\ pc' = "baked"
        /\ UNCHANGED <<source, payload>>
    BY <1>1 DEF Damage, baking
  <2>2. damaged' \in Nat /\ damaged' # 0
    BY <2>1 DEF WrittenInv
  <2>3. QED
    BY <2>1, <2>2 DEF WrittenInv
<1>2. CASE StartCompare \/ ReadChunk \/ Skip \/ Difference \/ NextChunk \/ Judge
  <2>1. /\ pc \in Done /\ pc' \in Done
        /\ UNCHANGED <<source, payload, image, damaged>>
    BY <1>2 DEF StartCompare, ReadChunk, Skip, Difference, NextChunk, Judge, Done, baking
  <2>2. QED
    BY <2>1 DEF WrittenInv, Original, Done
<1>3. CASE UNCHANGED vars
  BY <1>3 DEF WrittenInv, Original, vars, baking
<1>4. QED
  BY <1>1, <1>2, <1>3

LEMMA AlwaysWritten == Spec => []WrittenInv
<1>1. WrittenInv /\ [Next]_vars => WrittenInv'
  BY WriteTrailerWritten, WriteIgnitionWritten, WriteKargsWritten, OtherWritten DEF Next
<1>2. QED
  BY InitWritten, <1>1, PTL DEF Spec

LEMMA WrittenIsReadBack == WrittenInv => TrailerReadBack
<1> SUFFICES ASSUME WrittenInv, pc \in Done, damaged = 0, Findable
             PROVE  /\ ReadTrailer(image) =
                         [found |-> TRUE, sector |-> PayloadSector(source.bytes), payload |-> payload]
                    /\ LauncherReads(image, source.ign, ReadTrailer(image).sector)
  BY DEF TrailerReadBack, Done
<1>1. source \in Originals /\ payload \in Payloads
  BY DEF WrittenInv
<1>2. PICK size \in Nat : size = Size(source.bytes)
  BY <1>1, AreaFacts
<1>3. payload \in Seq(Bytes)
  BY <1>1, CompareAssumption
<1>4. /\ Trailed(image, size, payload)
      /\ LauncherReads(image, source.ign, PayloadSector(source.bytes))
  BY <1>2 DEF WrittenInv
<1>5. /\ Sectors(Len(payload)) + 1 < Walk
      /\ \A k \in DOMAIN payload : (k - 1) % Sector = 0 => payload[k] # MagicByte
  BY DEF Findable
<1>6. ReadTrailer(image) = [found |-> TRUE, sector |-> Sectors(size) + 1, payload |-> payload]
  BY <1>3, <1>4, <1>5, ReadTrailed
<1>7. PayloadSector(source.bytes) = Sectors(size) + 1
  BY <1>2 DEF PayloadSector
<1>8. QED
  BY <1>4, <1>6, <1>7

\* TrailerReadBack, that ReadTrailer (trailer.go:91) finds the payload that
\* AppendTrailer wrote at the sector the launcher was told, holds for every
\* size of sector, image and payload, and whatever the image held before.
THEOREM PayloadIsReadBack == Spec => []TrailerReadBack
  BY AlwaysWritten, WrittenIsReadBack, PTL

-----------------------------------------------------------------------------
(* Command lines: up to a terminator, without blanks at the end.           *)

\* A set of numbers has a least one: else the numbers below all of it, which
\* are finitely many, could be mapped to their successors, a one-to-one
\* function that misses 0.
LEMMA LeastElement ==
  ASSUME NEW S \in SUBSET Nat, S # {}
  PROVE  \E m \in S : \A k \in S : m <= k
<1> SUFFICES ASSUME \A m \in S : \E k \in S : k < m PROVE FALSE
  OBVIOUS
<1> DEFINE L == {e \in Nat : \A k \in S : e < k}
           succ == [e \in L |-> e + 1]
<1>1. 0 \in L
  OBVIOUS
<1>2. ASSUME NEW e \in L PROVE e + 1 \in L
  <2>1. e + 1 \notin S
    BY <1>2
  <2>2. QED
    BY <2>1, <1>2
<1>3. IsFiniteSet(L)
  <2>1. PICK s \in S : TRUE
    OBVIOUS
  <2>2. L \in SUBSET Nat /\ \A e \in L : e <= s
    BY <2>1
  <2>3. s \in Nat
    OBVIOUS
  <2> HIDE DEF L
  <2>4. QED
    BY <2>2, <2>3, FS_BoundedSetOfNaturals
<1>4. L \subseteq Nat
  OBVIOUS
<1> HIDE DEF L
<1>5. succ \in Injection(L, L)
  BY <1>2, <1>4 DEF Injection, IsInjective
<1>6. succ \in Surjection(L, L)
  BY <1>3, <1>5, FS_Injection
<1>7. PICK e \in L : succ[e] = 0
  BY <1>1, <1>6 DEF Surjection
<1>8. succ[e] = e + 1 /\ e \in Nat
  BY <1>4
<1> HIDE DEF succ
<1>9. QED
  BY <1>7, <1>8

LEMMA PrefixFacts ==
  ASSUME NEW T, NEW s \in Seq(T), NEW e \in 0..Len(s)
  PROVE  /\ SubSeq(s, 1, e) \in Seq(T) /\ Len(SubSeq(s, 1, e)) = e
         /\ \A k \in 1..e : SubSeq(s, 1, e)[k] = s[k]
  OBVIOUS

\* What Before returns is free of the terminator.
LEMMA BeforeFacts ==
  ASSUME NEW T, NEW s \in Seq(T), NEW stop
  PROVE  \E e \in 0..Len(s) :
           /\ Before(s, stop) = SubSeq(s, 1, e)
           /\ \A k \in 1..e : s[k] # stop
           /\ e < Len(s) => s[e + 1] = stop
<1> DEFINE stops == {k \in DOMAIN s : s[k] = stop}
           first == CHOOSE k \in stops : \A j \in stops : k <= j
<1>1. CASE stops = {}
  <2>1. Before(s, stop) = s
    BY <1>1 DEF Before
  <2> DEFINE e == Len(s)
  <2>2. s = SubSeq(s, 1, e) /\ e \in 0..Len(s) /\ ~(e < Len(s))
    OBVIOUS
  <2>3. \A k \in 1..e : s[k] # stop
    BY <1>1
  <2> HIDE DEF e
  <2>4. QED
    BY <2>1, <2>2, <2>3
<1>2. CASE stops # {}
  <2>1. stops \in SUBSET Nat
    OBVIOUS
  <2> HIDE DEF stops
  <2>2. \E m \in stops : \A k \in stops : m <= k
    BY <1>2, <2>1, LeastElement
  <2>3. first \in stops /\ \A j \in stops : first <= j
    BY <2>2
  <2>4. Before(s, stop) = SubSeq(s, 1, first - 1)
    BY <1>2 DEF Before, stops
  <2> HIDE DEF first
  <2>5. first \in 1..Len(s) /\ s[first] = stop
    BY <2>3 DEF stops
  <2>6. \A k \in 1..(first - 1) : s[k] # stop
    <3>1. ASSUME NEW k \in 1..(first - 1), s[k] = stop PROVE FALSE
      BY <2>3, <2>5, <3>1 DEF stops
    <3>2. QED
      BY <3>1
  <2>7. first - 1 \in 0..Len(s) /\ (first - 1) + 1 = first
    BY <2>5
  <2>8. QED
    BY <2>4, <2>5, <2>6, <2>7
<1>3. QED
  BY <1>1, <1>2

LEMMA BeforeIs ==
  ASSUME NEW T, NEW s \in Seq(T), NEW stop, NEW e \in Nat, e < Len(s),
         s[e + 1] = stop, \A k \in 1..e : s[k] # stop
  PROVE  Before(s, stop) = SubSeq(s, 1, e)
<1>1. PICK m \in 0..Len(s) :
        /\ Before(s, stop) = SubSeq(s, 1, m)
        /\ \A k \in 1..m : s[k] # stop
        /\ m < Len(s) => s[m + 1] = stop
  BY BeforeFacts
<1>2. ~(m > e)
  <2>1. SUFFICES ASSUME m > e PROVE FALSE
    OBVIOUS
  <2>2. e + 1 \in 1..m
    BY <1>1, <2>1
  <2>3. QED
    BY <1>1, <2>2
<1>3. ~(m < e)
  <2>1. SUFFICES ASSUME m < e PROVE FALSE
    OBVIOUS
  <2>2. m + 1 \in 1..e /\ m < Len(s)
    BY <1>1, <2>1
  <2>3. QED
    BY <1>1, <2>2
<1>4. QED
  BY <1>1, <1>2, <1>3

LEMMA TrimFacts ==
  ASSUME NEW T, NEW s \in Seq(T)
  PROVE  \E e \in 0..Len(s) :
           /\ TrimRight(s) = SubSeq(s, 1, e)
           /\ \A j \in (e + 1)..Len(s) : s[j] = SP
           /\ e > 0 => s[e] # SP
<1> DEFINE keep == {k \in 0..Len(s) : \A j \in (k + 1)..Len(s) : s[j] = SP}
           e == CHOOSE k \in keep : \A j \in keep : k <= j
<1>1. Len(s) \in keep
  OBVIOUS
<1>2. keep \in SUBSET Nat
  OBVIOUS
<1>3. TrimRight(s) = SubSeq(s, 1, e)
  BY DEF TrimRight
<1>4. e \in keep /\ \A j \in keep : e <= j
  <2> HIDE DEF keep
  <2>1. \E m \in keep : \A k \in keep : m <= k
    BY <1>1, <1>2, LeastElement
  <2>2. QED
    BY <2>1
<1> HIDE DEF e
<1>5. e \in 0..Len(s) /\ \A j \in (e + 1)..Len(s) : s[j] = SP
  BY <1>4
<1>6. ASSUME e > 0 PROVE s[e] # SP
  <2>1. SUFFICES ASSUME s[e] = SP PROVE FALSE
    OBVIOUS
  <2>2. \A j \in e..Len(s) : j = e \/ j \in (e + 1)..Len(s)
    BY <1>5
  <2>3. e - 1 \in 0..Len(s) /\ (e - 1) + 1 = e
    BY <1>5, <1>6
  <2>4. \A j \in ((e - 1) + 1)..Len(s) : s[j] = SP
    BY <1>5, <2>1, <2>2, <2>3
  <2>5. e - 1 \in keep
    BY <2>3, <2>4
  <2>6. QED
    BY <1>4, <1>5, <2>5
<1>7. QED
  BY <1>3, <1>5, <1>6

LEMMA TrimIs ==
  ASSUME NEW T, NEW s \in Seq(T), s # <<>>, s[Len(s)] # SP
  PROVE  TrimRight(s) = s
<1>1. PICK e \in 0..Len(s) :
        /\ TrimRight(s) = SubSeq(s, 1, e)
        /\ \A j \in (e + 1)..Len(s) : s[j] = SP
  BY TrimFacts
<1>2. e = Len(s)
  BY <1>1
<1>3. SubSeq(s, 1, Len(s)) = s
  OBVIOUS
<1>4. QED
  BY <1>1, <1>2, <1>3

\* A command line that is read is a part of the area, without terminator, that
\* nothing but blanks follows up to the first one.
LEMMA LineFacts ==
  ASSUME NEW T, NEW s \in Seq(T), NEW stop
  PROVE  \E e \in 0..Len(s) :
           /\ TrimRight(Before(s, stop)) = SubSeq(s, 1, e)
           /\ \A k \in 1..e : s[k] # stop
           /\ \A j \in (e + 1)..Len(s) :
                s[j] = SP \/ \E k \in 1..j : s[k] = stop
<1>1. PICK m \in 0..Len(s) :
        /\ Before(s, stop) = SubSeq(s, 1, m)
        /\ \A k \in 1..m : s[k] # stop
        /\ m < Len(s) => s[m + 1] = stop
  BY BeforeFacts
<1> DEFINE line == SubSeq(s, 1, m)
<1>2. line \in Seq(T) /\ Len(line) = m /\ \A k \in 1..m : line[k] = s[k]
  BY PrefixFacts
<1>3. ASSUME NEW e \in 0..m PROVE SubSeq(line, 1, e) = SubSeq(s, 1, e)
  BY <1>1
<1> HIDE DEF line
<1>4. PICK e \in 0..Len(line) :
        /\ TrimRight(line) = SubSeq(line, 1, e)
        /\ \A j \in (e + 1)..Len(line) : line[j] = SP
  BY <1>2, TrimFacts
<1>5. TrimRight(Before(s, stop)) = SubSeq(s, 1, e)
  BY <1>1, <1>2, <1>3, <1>4 DEF line
<1>6. ASSUME NEW j \in (e + 1)..Len(s), s[j] # SP
      PROVE  \E k \in 1..j : s[k] = stop
  <2>1. j > m
    <3>1. SUFFICES ASSUME j <= m PROVE FALSE
      BY <1>6
    <3>2. j \in (e + 1)..Len(line) /\ j \in 1..m
      BY <1>2, <1>4, <1>6, <3>1
    <3>3. QED
      BY <1>2, <1>4, <1>6, <3>2
  <2>2. m + 1 \in 1..j /\ m < Len(s)
    BY <1>1, <2>1
  <2>3. QED
    BY <1>1, <2>2
<1>7. e \in 0..Len(s) /\ \A k \in 1..e : s[k] # stop
  BY <1>1, <1>2, <1>4
<1>8. QED
  BY <1>5, <1>6, <1>7

LEMMA ReadAtFacts ==
  ASSUME NEW T, NEW img, NEW at \in Nat, NEW e \in Nat,
         \A p \in at..(at + e - 1) : img[p] \in T
  PROVE  /\ ReadAt(img, at, e) \in Seq(T)
         /\ Len(ReadAt(img, at, e)) = e
         /\ \A k \in 1..e : ReadAt(img, at, e)[k] = img[at + k - 1]
<1> DEFINE r == ReadAt(img, at, e)
<1>1. r = [k \in 1..e |-> img[at + k - 1]]
  BY DEF ReadAt
<1>2. \A k \in 1..e : at + k - 1 \in at..(at + e - 1)
  OBVIOUS
<1>3. r \in [1..e -> T] /\ DOMAIN r = 1..e
  BY <1>1, <1>2
<1> HIDE DEF r
<1>4. r \in Seq(T) /\ Len(r) \in Nat
  BY <1>3, SeqFromRange
<1>5. Len(r) = e
  BY <1>3, <1>4
<1>6. QED
  BY <1>1, <1>4, <1>5 DEF r

LEMMA ReadAtSame ==
  ASSUME NEW a, NEW b, NEW at \in Nat, NEW e \in Nat,
         \A p \in at..(at + e - 1) : a[p] = b[p]
  PROVE  ReadAt(a, at, e) = ReadAt(b, at, e)
<1>1. \A k \in 1..e : at + k - 1 \in at..(at + e - 1)
  OBVIOUS
<1>2. \A k \in 1..e : a[at + k - 1] = b[at + k - 1]
  BY <1>1
<1>3. QED
  BY <1>2 DEF ReadAt

\* The first area is in the image, and so is every other one.
LEMMA AreaBytes ==
  ASSUME NEW o \in Originals, NEW k \in DOMAIN o.kargs.files
  PROVE  /\ Area(o.kargs, k) \subseteq DOMAIN o.bytes
         /\ \A p \in Area(o.kargs, k) : o.bytes[p] \in Bytes /\ InKargs(o, p)
<1>1. \A p \in Area(o.kargs, k) : InKargs(o, p)
  BY DEF InKargs
<1>2. \A p \in Area(o.kargs, k) : p \in DOMAIN o.bytes
  BY <1>1, AreaFacts
<1>3. o.bytes \in [DOMAIN o.bytes -> Bytes]
  BY CompareAssumption DEF ImagesOf
<1>4. QED
  BY <1>1, <1>2, <1>3

LEMMA SameArguments ==
  ASSUME NEW o \in Originals, NEW img,
         \A p \in DOMAIN o.bytes : InKargs(o, p) => img[p] = o.bytes[p]
  PROVE  /\ KernelArgs(img, o.kargs) = KernelArgs(o.bytes, o.kargs)
         /\ \A k \in DOMAIN o.kargs.files :
              ReadAt(img, o.kargs.files[k].at, o.kargs.size)
                = ReadAt(o.bytes, o.kargs.files[k].at, o.kargs.size)
<1>1. ASSUME NEW k \in DOMAIN o.kargs.files
      PROVE  ReadAt(img, o.kargs.files[k].at, o.kargs.size)
               = ReadAt(o.bytes, o.kargs.files[k].at, o.kargs.size)
  <2>1. PICK at \in Nat : at = o.kargs.files[k].at
    BY FileFacts
  <2>2. PICK size \in Nat : size = o.kargs.size
    BY AreaFacts
  <2>3. \A p \in at..(at + size - 1) : img[p] = o.bytes[p]
    BY <2>1, <2>2, AreaBytes DEF Area
  <2>4. PICK bytes : bytes = o.bytes
    OBVIOUS
  <2>5. ReadAt(img, at, size) = ReadAt(bytes, at, size)
    BY <2>3, <2>4, ReadAtSame
  <2>6. QED
    BY <2>1, <2>2, <2>4, <2>5
<1>2. o.kargs.files # <<>> => 1 \in DOMAIN o.kargs.files
  <2>1. PICK files : files = o.kargs.files
    OBVIOUS
  <2>2. \E T : files \in Seq(T)
    BY <2>1, ReleasedAssumption
  <2>3. QED
    BY <2>1, <2>2
<1>3. QED
  BY <1>1, <1>2 DEF KernelArgs

-----------------------------------------------------------------------------
(* What WriteKargs puts into each area.                                    *)

\* Areas are apart, so that no later region takes the place of an earlier one.
Placed(o, img, args) ==
  LET done == AppendKernelArgs(img, o.kargs, args)
      full == KernelArgs(img, o.kargs) \o <<SP>> \o args
  IN  args # <<>> /\ done.ok =>
        \A k \in DOMAIN o.kargs.files :
          /\ ~(Len(full) + 1 > o.kargs.size)
          /\ \A p \in Area(o.kargs, k) : p \in DOMAIN img =>
               done.img[p] = ArgsRegion(full, o.kargs, o.kargs.files[k])[p - o.kargs.files[k].at + 1]

LEMMA ArgsPlaced ==
  ASSUME NEW o \in Originals, NEW img, NEW args
  PROVE  Placed(o, img, args)
<1> DEFINE info == o.kargs
           done == AppendKernelArgs(img, info, args)
           new  == done.img
           full == KernelArgs(img, info) \o <<SP>> \o args
<1> SUFFICES ASSUME args # <<>>, done.ok, NEW k \in DOMAIN info.files
             PROVE  /\ ~(Len(full) + 1 > info.size)
                    /\ \A p \in Area(info, k) : p \in DOMAIN img =>
                         new[p] = ArgsRegion(full, info, info.files[k])[p - info.files[k].at + 1]
  BY DEF Placed
<1> HIDE DEF full, done
<1>1. Len(info.files) \in Nat /\ DOMAIN info.files = 1..Len(info.files)
  BY AreaFacts
<1>2. info.files # <<>>
  BY <1>1
<1>3. done = SetKernelArgs(img, info, full)
  BY DEF AppendKernelArgs, done, full
<1>4. /\ ~(Len(full) + 1 > info.size)
      /\ new = WrittenTo(img, info, Len(info.files), full)
  BY <1>2, <1>3 DEF SetKernelArgs
<1>5. ASSUME NEW p \in Area(info, k), NEW j \in DOMAIN info.files, p \in Area(info, j)
      PROVE  j = k
  <2>1. SUFFICES ASSUME j # k PROVE FALSE
    OBVIOUS
  <2>2. PICK atj \in Nat : atj = info.files[j].at
    BY FileFacts
  <2>3. PICK atk \in Nat : atk = info.files[k].at
    BY FileFacts
  <2>4. PICK size \in Nat : size = info.size
    BY AreaFacts
  <2>5. atj + size <= atk \/ atk + size <= atj
    BY <2>1, <2>2, <2>3, <2>4, ReleasedAssumption
  <2>6. p \in atj..(atj + size - 1) /\ p \in atk..(atk + size - 1)
    BY <1>5, <2>2, <2>3, <2>4 DEF Area
  <2>7. QED
    BY <2>5, <2>6
<1>6. ASSUME NEW p \in Area(info, k), p \in DOMAIN img
      PROVE  new[p] = ArgsRegion(full, info, info.files[k])[p - info.files[k].at + 1]
  <2> DEFINE ks  == {j \in 1..Len(info.files) : p \in Area(info, j)}
             top == CHOOSE t \in ks : \A j \in ks : j <= t
  <2>1. ks = {k}
    BY <1>1, <1>5, <1>6
  <2>2. k \in Nat
    BY <1>1
  <2>3. top = k /\ ks # {}
    <3> HIDE DEF ks
    <3>1. QED
      BY <2>1, <2>2
  <2>4. new[p] = IF ks = {} THEN img[p]
                 ELSE ArgsRegion(full, info, info.files[top])[p - info.files[top].at + 1]
    BY <1>4, <1>6 DEF WrittenTo
  <2> HIDE DEF ks, top
  <2>5. QED
    BY <2>3, <2>4
<1>7. QED
  BY <1>4, <1>6

NewArgs == KernelArgs(source.bytes, source.kargs) \o <<SP>> \o extra

RegionAt(k, p) ==
  ArgsRegion(NewArgs, source.kargs, source.kargs.files[k])[p - source.kargs.files[k].at + 1]

ArgsInv ==
  /\ WrittenInv
  /\ extra \in Extras
  /\ damaged = 0 /\ pc \in Done =>
       \A k \in Files :
         IF extra = <<>> THEN \A p \in Area(source.kargs, k) : Original(p)
         ELSE /\ ~(Len(NewArgs) + 1 > source.kargs.size)
              /\ \A p \in Area(source.kargs, k) : image[p] = RegionAt(k, p)

LEMMA InitArgs == Init => ArgsInv
  BY InitWritten DEF Init, ArgsInv, Done

LEMMA WriteKargsArgs ==
  ASSUME ArgsInv, WriteKargs
  PROVE  ArgsInv'
<1> DEFINE done == AppendKernelArgs(image, source.kargs, extra)
<1>1. /\ source \in Originals /\ payload \in Payloads /\ extra \in Extras
      /\ pc = "kargs" /\ UNCHANGED <<source, payload, extra, damaged>>
      /\ image' = done.img /\ pc' = IF done.ok THEN "baked" ELSE "failed"
  BY DEF ArgsInv, WrittenInv, WriteKargs, baking
<1>2. WrittenInv'
  BY WriteKargsWritten DEF ArgsInv
<1> HIDE DEF done
<1>3. CASE ~done.ok \/ damaged # 0
  BY <1>1, <1>2, <1>3 DEF ArgsInv, Done
<1>4. CASE done.ok /\ damaged = 0
  <2>1. /\ Trailed(image, Size(source.bytes), payload)
        /\ \A p \in DOMAIN source.bytes : p \notin IgnArea(source) => Original(p)
    BY <1>1, <1>4 DEF ArgsInv, WrittenInv
  <2>2. DOMAIN source.bytes \subseteq DOMAIN image
    <3>1. payload \in Seq(Bytes)
      BY <1>1, CompareAssumption
    <3>2. QED
      BY <1>1, <2>1, <3>1, AreaFacts, TrailedSize
  <2>3. \A p \in DOMAIN source.bytes : InKargs(source, p) => image[p] = source.bytes[p]
    BY <1>1, <2>1, AreaFacts DEF Original
  <2>4. KernelArgs(image, source.kargs) = KernelArgs(source.bytes, source.kargs)
    BY <1>1, <2>3, SameArguments
  <2>5. PICK new : new = image'
    OBVIOUS
  <2>6. Placed(source, image, extra)
    BY <1>1, ArgsPlaced
  <2>7. /\ new = AppendKernelArgs(image, source.kargs, extra).img
        /\ AppendKernelArgs(image, source.kargs, extra).ok
    BY <1>1, <1>4, <2>5 DEF done
  <2>8. extra # <<>> =>
          \A k \in DOMAIN source.kargs.files :
            /\ ~(Len(NewArgs) + 1 > source.kargs.size)
            /\ \A p \in Area(source.kargs, k) : p \in DOMAIN image => new[p] = RegionAt(k, p)
    BY <2>4, <2>6, <2>7 DEF Placed, NewArgs, RegionAt
  <2>9. ASSUME NEW k \in Files
        PROVE  IF extra = <<>> THEN \A p \in Area(source.kargs, k) : new[p] = source.bytes[p]
               ELSE /\ ~(Len(NewArgs) + 1 > source.kargs.size)
                    /\ \A p \in Area(source.kargs, k) : new[p] = RegionAt(k, p)
    <3>1. k \in DOMAIN source.kargs.files
      BY DEF Files
    <3>2. \A p \in Area(source.kargs, k) : p \in DOMAIN source.bytes /\ InKargs(source, p)
      BY <1>1, <3>1, AreaBytes
    <3>3. CASE extra = <<>>
      <4>1. new = image
        BY <2>7, <3>3 DEF AppendKernelArgs
      <4>2. QED
        BY <3>2, <3>3, <4>1, <2>3
    <3>4. CASE extra # <<>>
      BY <2>2, <2>8, <3>1, <3>2, <3>4
    <3>5. QED
      BY <3>3, <3>4
  <2>10. QED
    BY <1>1, <1>2, <2>5, <2>9 DEF ArgsInv, Original, RegionAt, NewArgs, Files
<1>5. QED
  BY <1>3, <1>4

LEMMA OtherArgs ==
  ASSUME ArgsInv,
         \/ WriteTrailer \/ WriteIgnition \/ Damage
         \/ StartCompare \/ ReadChunk \/ Skip \/ Difference \/ NextChunk \/ Judge
         \/ UNCHANGED vars
  PROVE  ArgsInv'
<1>1. WrittenInv'
  BY WriteTrailerWritten, WriteIgnitionWritten, OtherWritten DEF ArgsInv
<1>2. CASE WriteTrailer \/ WriteIgnition
  BY <1>1, <1>2 DEF ArgsInv, WriteTrailer, WriteIgnition, Done, baking
<1>3. CASE Damage
  <2>1. damaged' = damaged + 1 /\ UNCHANGED extra /\ damaged \in Nat
    BY <1>3 DEF Damage, ArgsInv, WrittenInv, baking
  <2>2. damaged' # 0
    BY <2>1
  <2>3. QED
    BY <1>1, <2>1, <2>2 DEF ArgsInv
<1>4. CASE StartCompare \/ ReadChunk \/ Skip \/ Difference \/ NextChunk \/ Judge
  <2>1. pc \in Done /\ UNCHANGED <<source, extra, image, damaged>>
    BY <1>4 DEF StartCompare, ReadChunk, Skip, Difference, NextChunk, Judge, Done, baking
  <2>2. QED
    BY <1>1, <2>1 DEF ArgsInv, Original, RegionAt, NewArgs, Files
<1>5. CASE UNCHANGED vars
  BY <1>1, <1>5 DEF ArgsInv, Original, RegionAt, NewArgs, Files, vars, baking
<1>6. QED
  BY <1>2, <1>3, <1>4, <1>5

LEMMA AlwaysArgs == Spec => []ArgsInv
<1>1. ArgsInv /\ [Next]_vars => ArgsInv'
  BY WriteKargsArgs, OtherArgs DEF Next
<1>2. QED
  BY InitArgs, <1>1, PTL DEF Spec

-----------------------------------------------------------------------------
(* What is read from an area that was written.                             *)

RegionOf(full, size, pad, end) == Filled(full \o <<end>>, size, pad)

HoldsLine(full, size, pad, end) ==
  LET region == RegionOf(full, size, pad, end)
  IN  Len(full) + 1 <= size =>
        /\ region \in Seq(Bytes) /\ Len(region) = size
        /\ \A j \in 1..Len(full) : region[j] = full[j]
        /\ region[Len(full) + 1] = end

LEMMA RegionFacts ==
  ASSUME NEW full \in Seq(Bytes), NEW size \in Nat, NEW pad \in Bytes, NEW end \in Bytes
  PROVE  HoldsLine(full, size, pad, end)
<1> DEFINE region == RegionOf(full, size, pad, end)
<1> SUFFICES ASSUME Len(full) + 1 <= size
             PROVE  /\ region \in Seq(Bytes) /\ Len(region) = size
                    /\ \A j \in 1..Len(full) : region[j] = full[j]
                    /\ region[Len(full) + 1] = end
  BY DEF HoldsLine
<1> DEFINE line == full \o <<end>>
<1>1. line \in Seq(Bytes) /\ Len(line) = Len(full) + 1
  OBVIOUS
<1>2. /\ \A j \in 1..Len(full) : line[j] = full[j]
      /\ line[Len(full) + 1] = end
      /\ \A j \in 1..Len(line) : line[j] \in Bytes
  OBVIOUS
<1> HIDE DEF line, region
<1>3. region = [k \in 1..size |-> IF k <= Len(line) THEN line[k] ELSE pad]
  BY DEF RegionOf, Filled, line, region
<1>4. region \in [1..size -> Bytes] /\ DOMAIN region = 1..size
  BY <1>1, <1>2, <1>3
<1>5. region \in Seq(Bytes) /\ Len(region) \in Nat
  BY <1>4, SeqFromRange
<1>6. Len(region) = size
  BY <1>4, <1>5
<1>7. \A j \in 1..Len(line) : region[j] = line[j]
  BY <1>1, <1>3
<1>8. QED
  BY <1>1, <1>2, <1>5, <1>6, <1>7

ReadsBack(full, size, pad, end) ==
  (/\ Len(full) + 1 <= size
   /\ \A j \in 1..Len(full) : full[j] # end
   /\ full # <<>> /\ full[Len(full)] # SP) =>
     TrimRight(Before(RegionOf(full, size, pad, end), end)) = full

LEMMA LineReadBack ==
  ASSUME NEW full \in Seq(Bytes), NEW size \in Nat, NEW pad \in Bytes, NEW end \in Bytes
  PROVE  ReadsBack(full, size, pad, end)
<1> SUFFICES ASSUME Len(full) + 1 <= size,
                    \A j \in 1..Len(full) : full[j] # end,
                    full # <<>>, full[Len(full)] # SP
             PROVE  TrimRight(Before(RegionOf(full, size, pad, end), end)) = full
  BY DEF ReadsBack
<1> DEFINE region == RegionOf(full, size, pad, end)
<1>1. /\ region \in Seq(Bytes) /\ Len(region) = size
      /\ \A j \in 1..Len(full) : region[j] = full[j]
      /\ region[Len(full) + 1] = end
  BY RegionFacts DEF HoldsLine
<1> HIDE DEF region
<1>2. Len(full) \in Nat
  OBVIOUS
<1>3. Before(region, end) = SubSeq(region, 1, Len(full))
  <2>1. PICK e \in Nat : e = Len(full)
    BY <1>2
  <2>2. /\ e < Len(region) /\ region[e + 1] = end
        /\ \A k \in 1..e : region[k] # end
    BY <1>1, <2>1
  <2>3. Before(region, end) = SubSeq(region, 1, e)
    <3> HIDE <1>2
    <3>1. QED
      BY <1>1, <2>2, BeforeIs
  <2>4. QED
    BY <2>1, <2>3
<1>4. SubSeq(region, 1, Len(full)) = full
  <2>1. Len(full) \in 0..Len(region)
    BY <1>1, <1>2
  <2> DEFINE part == SubSeq(region, 1, Len(full))
  <2>2. /\ part \in Seq(Bytes) /\ Len(part) = Len(full)
        /\ \A j \in 1..Len(full) : part[j] = region[j]
    BY <1>1, <2>1, PrefixFacts
  <2> HIDE DEF part
  <2>3. QED
    BY <1>1, <2>2 DEF part
<1>5. QED
  BY <1>3, <1>4, TrimIs DEF region

\* The line the image had: what AppendKernelArgs begins with.
LEMMA OwnLine ==
  ASSUME NEW o \in Originals, NEW k \in DOMAIN o.kargs.files, NEW stop
  PROVE  \E line \in Seq(Bytes) :
           /\ line = TrimRight(Before(ReadAt(o.bytes, o.kargs.files[k].at, o.kargs.size), stop))
           /\ \A j \in 1..Len(line) : line[j] # stop
<1>1. PICK at \in Nat : at = o.kargs.files[k].at
  BY FileFacts
<1>2. PICK size \in Nat : size = o.kargs.size
  BY AreaFacts
<1>3. PICK bytes : bytes = o.bytes
  OBVIOUS
<1>4. \A p \in at..(at + size - 1) : bytes[p] \in Bytes
  BY <1>1, <1>2, <1>3, AreaBytes DEF Area
<1>5. PICK s : s = ReadAt(bytes, at, size)
  OBVIOUS
<1>6. s \in Seq(Bytes)
  BY <1>4, <1>5, ReadAtFacts
<1>7. PICK e \in 0..Len(s) :
        /\ TrimRight(Before(s, stop)) = SubSeq(s, 1, e)
        /\ \A j \in 1..e : s[j] # stop
  BY <1>6, LineFacts
<1>8. PICK line : line = SubSeq(s, 1, e)
  OBVIOUS
<1>9. line \in Seq(Bytes) /\ Len(line) = e /\ \A j \in 1..e : line[j] = s[j]
  BY <1>6, <1>7, <1>8, PrefixFacts
<1>10. \A j \in 1..Len(line) : line[j] # stop
  BY <1>7, <1>9
<1>11. line = TrimRight(Before(ReadAt(o.bytes, o.kargs.files[k].at, o.kargs.size), stop))
  BY <1>1, <1>2, <1>3, <1>5, <1>7, <1>8
<1>12. QED
  BY <1>9, <1>10, <1>11

LEMMA OneIsFirst ==
  ASSUME NEW o \in Originals, NEW k \in DOMAIN o.kargs.files
  PROVE  1 \in DOMAIN o.kargs.files /\ o.kargs.files # <<>>
<1>1. PICK files : files = o.kargs.files
  OBVIOUS
<1>2. \E T : files \in Seq(T)
  BY <1>1, ReleasedAssumption
<1>3. 1 \in DOMAIN files /\ files # <<>>
  BY <1>1, <1>2
<1>4. QED
  BY <1>1, <1>3

LEMMA ArgsAreAppended == ArgsInv => ArgsAppended
<1> SUFFICES ASSUME ArgsInv, pc = "baked", damaged = 0, Uniform, Plain, NEW k \in Files
             PROVE  BootArgs(image, source.kargs, source.kargs.files[k]) =
                      IF extra = <<>> THEN OwnArgs(k) ELSE OwnArgs(k) \o <<SP>> \o extra
  BY DEF ArgsAppended
<1>1. source \in Originals /\ extra \in Seq(Bytes) /\ k \in DOMAIN source.kargs.files
  BY CompareAssumption DEF ArgsInv, WrittenInv, Files
<1>2. PICK file : file = source.kargs.files[k]
  OBVIOUS
<1>3. PICK at \in Nat, end \in Bytes, pad \in Bytes :
        at = file.at /\ end = file.end /\ pad = file.pad /\ end # SP
  BY <1>1, <1>2, FileFacts
<1>4. PICK size \in Nat : size = source.kargs.size
  BY <1>1, AreaFacts
<1>5. Area(source.kargs, k) = at..(at + size - 1)
  BY <1>2, <1>3, <1>4 DEF Area
<1>6. BootArgs(image, source.kargs, source.kargs.files[k])
        = TrimRight(Before(ReadAt(image, at, size), end))
  BY <1>2, <1>3, <1>4 DEF BootArgs
<1>7. PICK own \in Seq(Bytes) :
        /\ own = TrimRight(Before(ReadAt(source.bytes, source.kargs.files[k].at, source.kargs.size), end))
        /\ \A j \in 1..Len(own) : own[j] # end
  BY <1>1, OwnLine
<1>8. own = OwnArgs(k) /\ own = TrimRight(Before(ReadAt(source.bytes, at, size), end))
  BY <1>2, <1>3, <1>4, <1>7 DEF OwnArgs, BootArgs
<1>9. CASE extra = <<>>
  <2>1. \A p \in at..(at + size - 1) : image[p] = source.bytes[p]
    BY <1>5, <1>9 DEF ArgsInv, Done, Original
  <2>2. PICK bytes : bytes = source.bytes
    OBVIOUS
  <2>3. ReadAt(image, at, size) = ReadAt(bytes, at, size)
    BY <2>1, <2>2, ReadAtSame
  <2>4. QED
    BY <1>6, <1>8, <1>9, <2>2, <2>3
<1>10. CASE extra # <<>>
  <2>1. KernelArgs(source.bytes, source.kargs) = own
    <3>1. source.kargs.files # <<>> /\ 1 \in DOMAIN source.kargs.files
      BY <1>1, OneIsFirst
    <3>2. OwnArgs(k) = OwnArgs(1) /\ source.kargs.files[1].end = NL
      BY <1>1 DEF Uniform, Files
    <3>3. KernelArgs(source.bytes, source.kargs) = OwnArgs(1)
      BY <3>1, <3>2 DEF KernelArgs, OwnArgs, BootArgs
    <3>4. QED
      BY <1>8, <3>2, <3>3
  <2>2. PICK full : full = own \o <<SP>> \o extra
    OBVIOUS
  <2>3. full = NewArgs
    BY <2>1, <2>2 DEF NewArgs
  <2>4. SP \in Bytes
    BY ByteAssumption DEF Bytes
  <2>5. /\ full \in Seq(Bytes) /\ Len(full) = Len(own) + 1 + Len(extra)
        /\ Len(extra) > 0
        /\ \A j \in 1..Len(own) : full[j] = own[j]
        /\ full[Len(own) + 1] = SP
        /\ \A j \in 1..Len(extra) : full[Len(own) + 1 + j] = extra[j]
    <3> HIDE DEF Bytes
    <3>1. <<SP>> \in Seq(Bytes) /\ Len(<<SP>>) = 1 /\ <<SP>>[1] = SP
      BY <2>4
    <3>2. PICK sp : sp = <<SP>>
      OBVIOUS
    <3>3. /\ (own \o sp) \o extra \in Seq(Bytes)
          /\ Len((own \o sp) \o extra) = Len(own) + Len(sp) + Len(extra)
          /\ \A j \in 1..Len(sp) : ((own \o sp) \o extra)[Len(own) + j] = sp[j]
          /\ \A j \in 1..Len(extra) : ((own \o sp) \o extra)[Len(own) + Len(sp) + j] = extra[j]
      BY <1>1, <3>1, <3>2, JoinedAt
    <3>4. full = (own \o sp) \o extra
      BY <2>2, <3>2
    <3>5. \A j \in 1..Len(own) : ((own \o sp) \o extra)[j] = own[j]
      BY <1>1, <3>1, <3>2
    <3>6. Len(extra) > 0
      BY <1>1, <1>10
    <3>7. QED
      BY <3>1, <3>2, <3>3, <3>4, <3>5, <3>6
  <2>6. Len(full) + 1 <= size
    <3>1. ~(Len(full) + 1 > size)
      BY <1>1, <1>4, <1>10, <2>3 DEF ArgsInv, Done, Files
    <3>2. QED
      BY <2>5, <3>1
  <2>7. PICK region : region = RegionOf(full, size, pad, end)
    OBVIOUS
  <2>8. /\ region \in Seq(Bytes) /\ Len(region) = size
    <3>1. HoldsLine(full, size, pad, end)
      BY <1>3, <2>5, <2>6, RegionFacts
    <3>2. QED
      BY <2>6, <2>7, <3>1 DEF HoldsLine
  <2>9. \A p \in at..(at + size - 1) : image[p] = region[p - at + 1]
    <3>1. region = ArgsRegion(NewArgs, source.kargs, source.kargs.files[k])
      BY <1>2, <1>3, <1>4, <2>3, <2>7 DEF ArgsRegion, RegionOf
    <3>2. \A p \in Area(source.kargs, k) : image[p] = RegionAt(k, p)
      BY <1>1, <1>10 DEF ArgsInv, Done, Files
    <3>3. QED
      BY <1>2, <1>3, <1>5, <3>1, <3>2 DEF RegionAt
  <2>10. ReadAt(image, at, size) = region
    <3>1. \A j \in 1..size : at + j - 1 \in at..(at + size - 1) /\ (at + j - 1) - at + 1 = j
      OBVIOUS
    <3>2. \A j \in 1..size : image[at + j - 1] = region[j]
      BY <2>9, <3>1
    <3>3. region = [j \in 1..size |-> region[j]]
      BY <2>8
    <3>4. QED
      BY <3>2, <3>3 DEF ReadAt
  <2>11. \A j \in 1..Len(full) : full[j] # end
    <3>1. \A j \in 1..Len(extra) : extra[j] # end
      BY <1>1, <1>2, <1>3 DEF Plain, Files, ToSet
    <3>2. PICK m \in Nat, rest \in Nat : m = Len(own) /\ rest = Len(extra)
      BY <1>1, <1>7
    <3>3. Len(full) = m + 1 + rest
      BY <2>5, <3>2
    <3>4. SUFFICES ASSUME NEW j \in 1..(m + 1 + rest) PROVE full[j] # end
      BY <3>3
    <3>5. CASE j <= m
      <4>1. j \in 1..m
        BY <3>5
      <4>2. full[j] = own[j] /\ own[j] # end
        BY <1>7, <2>5, <3>2, <4>1
      <4>3. QED
        BY <4>2
    <3>6. CASE j = m + 1
      <4>1. full[j] = SP
        BY <2>5, <3>2, <3>6
      <4>2. QED
        BY <1>3, <4>1
    <3>7. CASE j > m + 1
      <4>1. PICK q \in 1..rest : j = m + 1 + q
        <5>1. j - (m + 1) \in 1..rest /\ j = m + 1 + (j - (m + 1))
          BY <3>7
        <5>2. QED
          BY <5>1
      <4>2. full[j] = extra[q] /\ extra[q] # end
        BY <2>5, <3>1, <3>2, <4>1
      <4>3. QED
        BY <4>2
    <3>8. QED
      BY <3>5, <3>6, <3>7
  <2>12. full # <<>> /\ full[Len(full)] # SP
    <3>1. Len(extra) \in 1..Len(extra) /\ Len(own) \in Nat
      BY <1>1, <2>5
    <3>2. full[Len(full)] = extra[Len(extra)]
      BY <2>5, <3>1
    <3>3. extra[Len(extra)] # SP
      BY <1>10 DEF Plain
    <3>4. QED
      BY <2>5, <3>1, <3>2, <3>3
  <2>13. TrimRight(Before(region, end)) = full
    BY <1>3, <2>5, <2>6, <2>7, <2>11, <2>12, LineReadBack DEF ReadsBack
  <2>14. QED
    BY <1>6, <1>8, <1>10, <2>2, <2>10, <2>13
<1>11. QED
  BY <1>9, <1>10

\* ArgsAppended, that AppendKernelArgs (kargs.go:53) adds the arguments to what
\* every bootloader config had, holds for every image, area and argument.
THEOREM ArgumentsAreAppended == Spec => []ArgsAppended
  BY AlwaysArgs, ArgsAreAppended, PTL

-----------------------------------------------------------------------------
(* A bake that nothing happened to is accepted.                            *)

\* The label stays in the arguments: it is in what the image had, in front of
\* every terminator, and no blank.
LEMMA LabelKept ==
  ASSUME ArgsInv, pc \in Done, damaged = 0
  PROVE  LabelByte \in ToSet(KernelArgs(image, source.kargs))
<1>1. /\ source \in Originals /\ extra \in Seq(Bytes)
      /\ LabelByte \in ToSet(KernelArgs(source.bytes, source.kargs))
  BY CompareAssumption, ReleasedAssumption DEF ArgsInv, WrittenInv
<1>2. CASE source.kargs.files = <<>>
  BY <1>1, <1>2 DEF KernelArgs
<1>3. CASE source.kargs.files # <<>> /\ extra = <<>>
  <2>1. \A p \in DOMAIN source.bytes : InKargs(source, p) => image[p] = source.bytes[p]
    BY <1>3 DEF ArgsInv, InKargs, Files, Original
  <2>2. KernelArgs(image, source.kargs) = KernelArgs(source.bytes, source.kargs)
    BY <1>1, <2>1, SameArguments
  <2>3. QED
    BY <1>1, <2>2
<1>4. CASE source.kargs.files # <<>> /\ extra # <<>>
  <2>1. 1 \in DOMAIN source.kargs.files
    <3>1. Len(source.kargs.files) \in Nat /\ DOMAIN source.kargs.files = 1..Len(source.kargs.files)
      BY <1>1, AreaFacts
    <3>2. \E T : source.kargs.files \in Seq(T)
      BY <1>1, ReleasedAssumption
    <3>3. QED
      BY <1>4, <3>1, <3>2
  <2>2. PICK file : file = source.kargs.files[1]
    OBVIOUS
  <2>3. PICK at \in Nat, end \in Bytes, pad \in Bytes :
          at = file.at /\ end = file.end /\ pad = file.pad
    BY <1>1, <2>1, <2>2, FileFacts
  <2>4. PICK size \in Nat : size = source.kargs.size
    BY <1>1, AreaFacts
  <2>5. PICK own \in Seq(Bytes) :
          /\ own = TrimRight(Before(ReadAt(source.bytes, source.kargs.files[1].at, source.kargs.size), NL))
          /\ \A j \in 1..Len(own) : own[j] # NL
    BY <1>1, <2>1, OwnLine
  <2>6. own = KernelArgs(source.bytes, source.kargs)
    BY <1>4, <2>5 DEF KernelArgs
  <2>7. PICK m \in 1..Len(own) : own[m] = LabelByte
    BY <1>1, <2>5, <2>6 DEF ToSet
  <2>8. PICK full : full = NewArgs
    OBVIOUS
  <2>9. /\ full \in Seq(Bytes) /\ Len(full) >= Len(own)
        /\ \A j \in 1..Len(own) : full[j] = own[j]
    <3>1. SP \in Bytes
      BY ByteAssumption DEF Bytes
    <3>2. full = own \o <<SP>> \o extra
      BY <2>6, <2>8 DEF NewArgs
    <3> HIDE DEF Bytes
    <3>3. QED
      BY <1>1, <3>1, <3>2
  <2>10. /\ Len(full) + 1 <= size
         /\ \A p \in Area(source.kargs, 1) : image[p] = RegionAt(1, p)
    <3>1. ~(Len(full) + 1 > size) /\ \A p \in Area(source.kargs, 1) : image[p] = RegionAt(1, p)
      BY <1>4, <2>1, <2>4, <2>8 DEF ArgsInv, Files
    <3>2. QED
      BY <2>4, <2>9, <3>1
  <2>11. PICK region : region = RegionOf(full, size, pad, end)
    OBVIOUS
  <2>12. /\ region \in Seq(Bytes) /\ Len(region) = size
         /\ \A j \in 1..Len(full) : region[j] = full[j]
    <3>1. HoldsLine(full, size, pad, end)
      BY <2>3, <2>4, <2>9, RegionFacts
    <3>2. QED
      BY <2>10, <2>11, <3>1 DEF HoldsLine
  <2>13. ReadAt(image, at, size) = region
    <3>1. region = ArgsRegion(NewArgs, source.kargs, source.kargs.files[1])
      BY <2>2, <2>3, <2>4, <2>8, <2>11 DEF ArgsRegion, RegionOf
    <3>2. \A p \in at..(at + size - 1) : image[p] = region[p - at + 1]
      BY <2>2, <2>3, <2>4, <2>10, <3>1 DEF RegionAt, Area
    <3>3. \A j \in 1..size : at + j - 1 \in at..(at + size - 1) /\ (at + j - 1) - at + 1 = j
      OBVIOUS
    <3>4. \A j \in 1..size : image[at + j - 1] = region[j]
      BY <3>2, <3>3
    <3>5. region = [j \in 1..size |-> region[j]]
      BY <2>12
    <3>6. QED
      BY <3>4, <3>5 DEF ReadAt
  <2>14. KernelArgs(image, source.kargs) = TrimRight(Before(region, NL))
    BY <1>4, <2>2, <2>3, <2>4, <2>13 DEF KernelArgs
  <2>15. PICK last \in 0..Len(region) :
           /\ TrimRight(Before(region, NL)) = SubSeq(region, 1, last)
           /\ \A j \in (last + 1)..Len(region) :
                region[j] = SP \/ \E k \in 1..j : region[k] = NL
    <3>1. region \in Seq(Bytes)
      BY <2>12
    <3>2. QED
      BY <3>1, LineFacts
  <2>16. region[m] = LabelByte /\ \A k \in 1..m : region[k] # NL
    <3>1. Len(own) \in Nat /\ Len(full) \in Nat
      BY <2>5, <2>9
    <3>2. \A k \in 1..m : k \in 1..Len(own) /\ k \in 1..Len(full)
      BY <2>7, <2>9, <3>1
    <3>3. \A k \in 1..m : region[k] = own[k]
      BY <2>9, <2>12, <3>2
    <3>4. m \in 1..m
      BY <2>7
    <3>5. QED
      BY <2>5, <2>7, <3>2, <3>3, <3>4
  <2>17. m \in 1..last
    <3>1. m \in 1..Len(region)
      BY <2>7, <2>9, <2>10, <2>12
    <3>2. m \notin (last + 1)..Len(region)
      BY <2>15, <2>16, ByteAssumption
    <3>3. QED
      BY <2>15, <3>1, <3>2
  <2>18. PICK line : line = SubSeq(region, 1, last)
    OBVIOUS
  <2>19. line \in Seq(Bytes) /\ Len(line) = last /\ line[m] = LabelByte
    BY <2>12, <2>15, <2>16, <2>17, <2>18, PrefixFacts
  <2>20. LabelByte \in ToSet(line)
    BY <2>17, <2>19 DEF ToSet
  <2>21. QED
    BY <2>14, <2>15, <2>18, <2>20
<1>5. QED
  BY <1>2, <1>3, <1>4

LEMMA BakedIsVerified ==
  ASSUME ArgsInv, pc \in Done, damaged = 0, Findable
  PROVE  VerifyOK
<1>1. LabelByte \in ToSet(KernelArgs(image, source.kargs))
  BY LabelKept
<1>2. /\ ReadTrailer(image) =
            [found |-> TRUE, sector |-> PayloadSector(source.bytes), payload |-> payload]
      /\ LauncherReads(image, source.ign, ReadTrailer(image).sector)
  BY WrittenIsReadBack DEF ArgsInv, TrailerReadBack, Done
<1>3. QED
  BY <1>1, <1>2 DEF VerifyOK

\* Two areas that hold anything are one, or further apart than what is merged.
AreasSplit ==
  \A a, b \in Allowed(source) : a.len > 0 /\ b.len > 0 =>
    a = b \/ a.at + a.len + Near <= b.at \/ b.at + b.len + Near <= a.at

LEMMA ApartIsSplit ==
  ASSUME source \in Originals, AreasApart
  PROVE  AreasSplit
<1> SUFFICES ASSUME NEW a \in Allowed(source), NEW b \in Allowed(source),
                    a.len > 0, b.len > 0, a.at = b.at
             PROVE  a = b
  BY OriginalFacts DEF AreasSplit, AreasApart
<1>1. PICK ign : ign = [at |-> source.ign.at, len |-> source.ign.len]
  OBVIOUS
<1>2. ASSUME NEW c \in Allowed(source), c # ign
      PROVE  \E k \in DOMAIN source.kargs.files :
               c = [at |-> source.kargs.files[k].at, len |-> source.kargs.size]
  BY <1>1, <1>2 DEF Allowed
<1>3. ASSUME NEW c \in Allowed(source), c # ign
      PROVE  ign.at + ign.len <= c.at \/ c.at + c.len <= ign.at
  <2>1. PICK k \in DOMAIN source.kargs.files :
          c = [at |-> source.kargs.files[k].at, len |-> source.kargs.size]
    BY <1>2, <1>3
  <2>2. QED
    BY <1>1, <2>1, FileFacts
<1>4. /\ a.at \in Nat /\ a.len \in Nat /\ b.at \in Nat /\ b.len \in Nat
      /\ ign.at \in Nat /\ ign.len \in Nat
  BY <1>1, OriginalFacts, AreaFacts
<1>5. CASE a = ign
  BY <1>3, <1>4, <1>5
<1>6. CASE b = ign
  BY <1>3, <1>4, <1>6
<1>7. CASE a # ign /\ b # ign
  BY <1>2, <1>7
<1>8. QED
  BY <1>5, <1>6, <1>7

\* Regions that hold something, each of them in one area.
Proper(regions) ==
  \A r \in DOMAIN regions : regions[r].from < regions[r].to /\ Within(regions[r], source)

\* A run of differences that are all in areas is in one of them: what follows
\* an area is in none.
LEMMA RunIsWithin ==
  ASSUME source \in Originals, AreasSplit,
         NEW from \in Nat, NEW to \in Nat, from < to,
         \A p \in from..(to - 1) : \E a \in Allowed(source) : p \in a.at..(a.at + a.len - 1)
  PROVE  \E a \in Allowed(source) : a.len > 0 /\ from >= a.at /\ to <= a.at + a.len
<1>1. PICK a \in Allowed(source) : from \in a.at..(a.at + a.len - 1)
  BY DEF AreasSplit
<1>2. PICK at \in Nat, len \in Nat : at = a.at /\ len = a.len
  BY OriginalFacts
<1>3. from >= at /\ from < at + len /\ len > 0
  BY <1>1, <1>2
<1>4. to <= at + len
  <2>1. SUFFICES ASSUME to > at + len PROVE FALSE
    BY <1>2
  <2>2. at + len \in from..(to - 1)
    BY <1>2, <1>3, <2>1
  <2>3. PICK b \in Allowed(source) : at + len \in b.at..(b.at + b.len - 1)
    BY <2>2
  <2>4. PICK bat \in Nat, blen \in Nat : bat = b.at /\ blen = b.len
    BY OriginalFacts
  <2>5. bat <= at + len /\ at + len < bat + blen /\ blen > 0
    BY <1>2, <1>3, <2>3, <2>4
  <2>6. a = b \/ at + len + Near <= bat \/ bat + blen + Near <= at
    BY <1>2, <1>3, <2>4, <2>5 DEF AreasSplit
  <2>7. a # b
    BY <1>2, <2>4, <2>5
  <2>8. Near \in Nat /\ Near > 0
    BY CompareAssumption
  <2>9. QED
    BY <1>2, <2>4, <2>5, <2>6, <2>7, <2>8
<1>5. QED
  BY <1>2, <1>3, <1>4

\* Two regions that are merged are in the same area.
StaysProper(regions, from, to) ==
  (/\ Proper(regions)
   /\ \A r \in DOMAIN regions : regions[r].to <= from
   /\ \E a \in Allowed(source) : a.len > 0 /\ from >= a.at /\ to <= a.at + a.len)
  => Proper(Extended(regions, from, to))

LEMMA ExtendedProper ==
  ASSUME source \in Originals, AreasSplit,
         NEW regions \in Seq([from : Nat, to : Nat]), NEW from \in Nat, NEW to \in Nat, from < to
  PROVE  StaysProper(regions, from, to)
<1> DEFINE new  == Extended(regions, from, to)
           last == Len(regions)
<1> SUFFICES ASSUME Proper(regions),
                    \A r \in DOMAIN regions : regions[r].to <= from,
                    NEW a \in Allowed(source), a.len > 0, from >= a.at, to <= a.at + a.len
             PROVE  Proper(new)
  BY DEF StaysProper
<1>1. PICK at \in Nat, len \in Nat : at = a.at /\ len = a.len
  BY OriginalFacts
<1>2. Near \in Nat
  BY CompareAssumption
<1>3. CASE last > 0 /\ from - regions[last].to < Near
  <2>1. last \in DOMAIN regions
    BY <1>3
  <2>2. PICK rf \in Nat, rt \in Nat : rf = regions[last].from /\ rt = regions[last].to
    BY <2>1, OutFacts
  <2>3. rf < rt /\ rt <= from /\ from - rt < Near
    BY <1>3, <2>1, <2>2 DEF Proper
  <2>4. PICK b \in Allowed(source) : rf >= b.at /\ rt <= b.at + b.len
    BY <2>1, <2>2 DEF Proper, Within
  <2>5. PICK bat \in Nat, blen \in Nat : bat = b.at /\ blen = b.len
    BY OriginalFacts
  <2>6. blen > 0 /\ rf >= bat /\ rt <= bat + blen
    <3>1. rf >= bat /\ rt <= bat + blen
      BY <2>4, <2>5
    <3>2. rf < rt
      BY <2>3
    <3>3. QED
      BY <3>1, <3>2
  <2>7. a = b
    <3>1. a = b \/ at + len + Near <= bat \/ bat + blen + Near <= at
      BY <1>1, <2>5, <2>6 DEF AreasSplit
    <3>2. from >= at /\ to <= at + len
      BY <1>1
    <3>3. ~(at + len + Near <= bat)
      BY <1>2, <2>3, <2>6, <3>2
    <3>4. ~(bat + blen + Near <= at)
      BY <1>2, <2>3, <2>6, <3>2
    <3>5. QED
      BY <3>1, <3>3, <3>4
  <2>8. PICK merged : merged = [regions[last] EXCEPT !.to = to]
    OBVIOUS
  <2>9. merged.from = rf /\ merged.to = to
    <3>1. regions[last] \in [from : Nat, to : Nat]
      BY <2>1, OutFacts
    <3>2. QED
      BY <2>2, <2>8, <3>1
  <2>10. merged.from < merged.to /\ Within(merged, source)
    <3>1. rf < to
      BY <2>2, <2>3
    <3>2. merged.from >= a.at /\ merged.to <= a.at + a.len
      BY <2>4, <2>7, <2>9
    <3>3. QED
      BY <2>9, <3>1, <3>2 DEF Within
  <2>11. new = [regions EXCEPT ![last] = merged]
    BY <1>3, <2>8 DEF Extended
  <2> HIDE DEF new, last
  <2>12. /\ DOMAIN new = DOMAIN regions
         /\ \A r \in DOMAIN new : new[r] = merged \/ new[r] = regions[r]
    BY <2>1, <2>11
  <2>13. QED
    BY <2>10, <2>12 DEF Proper
<1>4. CASE ~(last > 0 /\ from - regions[last].to < Near)
  <2>1. PICK added : added = [from |-> from, to |-> to]
    OBVIOUS
  <2>2. added.from < added.to /\ Within(added, source)
    BY <2>1 DEF Within
  <2>3. new = Append(regions, added)
    BY <1>4, <2>1 DEF Extended
  <2>4. /\ DOMAIN new = DOMAIN regions \cup {last + 1}
        /\ \A r \in DOMAIN new : new[r] = added \/ (r \in DOMAIN regions /\ new[r] = regions[r])
    BY <2>3
  <2> HIDE DEF new, last
  <2>5. QED
    BY <2>2, <2>4 DEF Proper
<1>5. QED
  BY <1>3, <1>4

\* Only a bake's own writes are differences, while nothing happens to it.
LEMMA DifferencesInAreas ==
  ASSUME WrittenInv, pc \in Done, damaged = 0,
         NEW p \in DOMAIN source.bytes, image[p] # source.bytes[p]
  PROVE  \E a \in Allowed(source) : p \in a.at..(a.at + a.len - 1)
<1>1. p \in IgnArea(source) \/ InKargs(source, p)
  BY DEF WrittenInv, Original
<1>2. CASE p \in IgnArea(source)
  <2>1. PICK a : a = [at |-> source.ign.at, len |-> source.ign.len]
    OBVIOUS
  <2>2. a \in Allowed(source) /\ p \in a.at..(a.at + a.len - 1)
    BY <1>2, <2>1 DEF Allowed, IgnArea
  <2>3. QED
    BY <2>2
<1>3. CASE InKargs(source, p)
  <2>1. PICK k \in DOMAIN source.kargs.files : p \in Area(source.kargs, k)
    BY <1>3 DEF InKargs
  <2>2. PICK a : a = [at |-> source.kargs.files[k].at, len |-> source.kargs.size]
    OBVIOUS
  <2>3. a \in Allowed(source) /\ p \in a.at..(a.at + a.len - 1)
    BY <2>1, <2>2 DEF Allowed, Area
  <2>4. QED
    BY <2>3
<1>4. QED
  BY <1>1, <1>2, <1>3

Comparing == {"read", "scan", "judged"}

CleanInv ==
  pc \in Comparing /\ damaged = 0 =>
    /\ Findable => verified = "yes"
    /\ against = source /\ AreasApart => Proper(out) /\ (pc = "judged" => untouched = "yes")

LEMMA InitClean == Init => CleanInv
  BY DEF Init, CleanInv, Comparing

LEMMA BakeClean ==
  ASSUME CleanInv, WriteTrailer \/ WriteIgnition \/ WriteKargs \/ Damage
  PROVE  CleanInv'
  BY DEF WriteTrailer, WriteIgnition, WriteKargs, Damage, CleanInv, Comparing

LEMMA StartClean ==
  ASSUME CompareInv, ArgsInv, StartCompare
  PROVE  CleanInv'
<1>1. /\ pc = "baked" /\ pc' = "read"
      /\ verified' = IF VerifyOK THEN "yes" ELSE "no"
      /\ UNCHANGED <<source, payload, extra, image, damaged, out>>
  BY DEF StartCompare, baking, buffers
<1>2. damaged = 0 /\ Findable => verified' = "yes"
  BY <1>1, BakedIsVerified DEF Done
<1>3. Findable' <=> Findable
  BY <1>1 DEF Findable
<1>4. out = <<>>
  BY <1>1 DEF CompareInv, Shapes, Baking
<1>5. Proper(out)'
  BY <1>1, <1>4 DEF Proper
<1>6. QED
  BY <1>1, <1>2, <1>3, <1>5 DEF CleanInv

\* The image is longer than what it was made from.
LEMMA ReadClean ==
  ASSUME CompareInv, ArgsInv, CleanInv, ReadChunk
  PROVE  CleanInv'
<1>1. /\ pc = "read" /\ pc' \in {"scan", "judged"} /\ off < Size(against.bytes)
      /\ pc' = "judged" => ~(off < Size(image))
      /\ UNCHANGED <<source, payload, image, damaged, against, off, out, verified>>
  BY DEF ReadChunk, baking
<1>2. ASSUME damaged = 0, against = source PROVE pc' # "judged"
  <2>1. Trailed(image, Size(source.bytes), payload) /\ source \in Originals /\ payload \in Seq(Bytes)
    BY <1>1, <1>2, CompareAssumption DEF ArgsInv, WrittenInv, Done
  <2>2. PICK size \in Nat : size = Size(source.bytes)
    BY <2>1, AreaFacts
  <2>3. Size(image) \in Nat /\ Size(image) > size
    BY <2>1, <2>2, TrailedSize
  <2>4. off \in Nat /\ off < size
    BY <1>1, <1>2, <2>2 DEF CompareInv, Shapes
  <2>5. QED
    BY <1>1, <2>3, <2>4
<1>3. /\ Findable' <=> Findable
      /\ AreasApart' <=> AreasApart
      /\ Proper(out)' <=> Proper(out)
  BY <1>1 DEF Findable, AreasApart, Proper
<1>4. QED
  BY <1>1, <1>2, <1>3 DEF CleanInv, Comparing

LEMMA StepClean ==
  ASSUME CleanInv, Skip \/ NextChunk \/ UNCHANGED vars
  PROVE  CleanInv'
<1>1. /\ pc' \in Comparing => pc \in Comparing
      /\ pc' = "judged" => pc = "judged"
      /\ UNCHANGED <<source, payload, damaged, against, out, verified, untouched>>
  BY DEF Skip, NextChunk, Comparing, vars, baking, buffers, verdict
<1>2. /\ Findable' <=> Findable
      /\ AreasApart' <=> AreasApart
      /\ Proper(out)' <=> Proper(out)
  BY <1>1 DEF Findable, AreasApart, Proper
<1>3. QED
  BY <1>1, <1>2 DEF CleanInv

LEMMA DifferenceClean ==
  ASSUME CompareInv, ArgsInv, CleanInv, Difference
  PROVE  CleanInv'
<1>1. PICK j \in (i + 1)..n :
        /\ \A k \in i..(j - 1) : Differ(k)
        /\ out' = Extended(out, off + i, off + j)
  BY DEF Difference
<1>2. /\ pc = "scan" /\ pc' = "scan"
      /\ UNCHANGED <<source, payload, image, damaged, against, verified>>
  BY DEF Difference, baking, verdict
<1>3. /\ Findable' <=> Findable
      /\ AreasApart' <=> AreasApart
  BY <1>2 DEF Findable, AreasApart
<1>4. ASSUME damaged = 0, against = source, AreasApart
      PROVE  Proper(Extended(out, off + i, off + j))
  <2>1. /\ source \in Originals /\ payload \in Seq(Bytes) /\ AreasSplit
        /\ WrittenInv /\ Proper(out)
    BY <1>2, <1>4, ApartIsSplit, CompareAssumption DEF ArgsInv, WrittenInv, CleanInv, Comparing
  <2>2. /\ off \in Nat /\ n \in Nat /\ i \in Nat /\ i < j /\ j <= n
        /\ out \in Seq([from : Nat, to : Nat])
        /\ \A r \in DOMAIN out : out[r].to <= off + i
    BY <1>1, <1>2 DEF CompareInv, Shapes, Covering, Passed
  <2>3. PICK size \in Nat : size = Size(source.bytes) /\ DOMAIN source.bytes = 0..(size - 1)
    BY <2>1, AreaFacts
  <2>4. off < size /\ n = Smaller(Chunk, size - off) /\ Chunk \in Nat
    BY <1>2, <1>4, <2>3, CompareAssumption DEF CompareInv, Buffered
  <2>5. off + n <= size
    BY <2>2, <2>3, <2>4 DEF Smaller
  <2>6. Long
    <3>1. Trailed(image, size, payload)
      BY <1>2, <1>4, <2>1, <2>3 DEF WrittenInv, Done
    <3>2. Size(image) \in Nat /\ Size(image) > size
      BY <2>1, <3>1, TrailedSize
    <3>3. QED
      BY <1>4, <2>3, <3>2 DEF Long
  <2>7. \A k \in 0..(n - 1) : bufB[k] = image[off + k]
    BY <1>2, <2>6 DEF CompareInv, Buffered
  <2>8. PICK from \in Nat, to \in Nat : from = off + i /\ to = off + j
    BY <1>1, <2>2
  <2>9. ASSUME NEW p \in from..(to - 1)
        PROVE  \E a \in Allowed(source) : p \in a.at..(a.at + a.len - 1)
    <3>1. p - off \in i..(j - 1) /\ p - off \in 0..(n - 1) /\ off + (p - off) = p
      BY <1>1, <2>2, <2>8
    <3>2. p \in DOMAIN source.bytes
      BY <1>1, <2>2, <2>3, <2>5, <2>8
    <3>3. image[p] # source.bytes[p]
      BY <1>1, <1>4, <2>7, <3>1 DEF Differ
    <3>4. QED
      BY <1>2, <1>4, <2>1, <3>2, <3>3, DifferencesInAreas DEF Done
  <2>10. from < to
    BY <1>1, <2>2, <2>8
  <2>11. \E a \in Allowed(source) : a.len > 0 /\ from >= a.at /\ to <= a.at + a.len
    BY <2>1, <2>9, <2>10, RunIsWithin
  <2>12. StaysProper(out, from, to)
    BY <2>1, <2>2, <2>10, ExtendedProper
  <2>13. Proper(Extended(out, from, to))
    BY <2>1, <2>2, <2>8, <2>11, <2>12 DEF StaysProper
  <2>14. QED
    BY <2>8, <2>13
<1>5. Proper(Extended(out, off + i, off + j)) => Proper(out)'
  BY <1>1, <1>2 DEF Proper
<1>6. QED
  BY <1>2, <1>3, <1>4, <1>5 DEF CleanInv, Comparing

LEMMA JudgeClean ==
  ASSUME CleanInv, Judge
  PROVE  CleanInv'
<1>1. /\ pc = "read" /\ pc' = "judged"
      /\ untouched' = IF \A k \in DOMAIN out : Within(out[k], source) THEN "yes" ELSE "no"
      /\ UNCHANGED <<source, payload, damaged, against, out, verified>>
  BY DEF Judge, baking, buffers
<1>2. Proper(out) => untouched' = "yes"
  BY <1>1 DEF Proper
<1>3. /\ Findable' <=> Findable
      /\ AreasApart' <=> AreasApart
      /\ Proper(out)' <=> Proper(out)
  BY <1>1 DEF Findable, AreasApart, Proper
<1>4. QED
  BY <1>1, <1>2, <1>3 DEF CleanInv, Comparing

\* UndamagedAccepted, that a bake passes every check of VerifyAgainst
\* (verify.go:134) against the image it was made from, holds for every chunk,
\* every distance at which differences are merged, and every released image,
\* payload and argument.
THEOREM CleanBakesAccepted == Spec => []UndamagedAccepted
<1>1. CompareInv /\ ArgsInv /\ CleanInv /\ [Next]_vars => CleanInv'
  BY BakeClean, StartClean, ReadClean, StepClean, DifferenceClean, JudgeClean DEF Next
<1>2. CleanInv => UndamagedAccepted
  BY DEF CleanInv, UndamagedAccepted, Comparing
<1>3. QED
  BY InitClean, AlwaysCompared, AlwaysArgs, <1>1, <1>2, PTL DEF Spec

-----------------------------------------------------------------------------
(* Types: every byte of an image is one, after every write.                *)

\* Induction, over the set of the numbers that have the property.
LEMMA Closed ==
  ASSUME NEW S, 0 \in S, \A k \in Nat : k \in S => k + 1 \in S
  PROVE  Nat \subseteq S
<1> SUFFICES ASSUME Nat \ S # {} PROVE FALSE
  OBVIOUS
<1> DEFINE Rest == Nat \ S
<1>1. Rest \in SUBSET Nat /\ Rest # {}
  OBVIOUS
<1> HIDE DEF Rest
<1>2. PICK m \in Rest : \A k \in Rest : m <= k
  BY <1>1, LeastElement
<1> USE DEF Rest
<1>3. m \in Nat /\ m \notin S /\ m # 0
  OBVIOUS
<1>4. m - 1 \in Nat /\ ~(m <= m - 1)
  BY <1>3
<1>5. m - 1 \in S
  BY <1>2, <1>4
<1>6. (m - 1) + 1 \in S /\ (m - 1) + 1 = m
  BY <1>3, <1>4, <1>5
<1>7. QED
  BY <1>3, <1>6

NextSum(sum, byte) == (251 * sum + byte) % 8388593

LEMMA NextSumIsNat ==
  ASSUME NEW sum \in Nat, NEW byte \in Nat
  PROVE  NextSum(sum, byte) \in Nat
BY SMTT(30) DEF NextSum

SumUpTo(bytes) ==
  CHOOSE f : f = [k \in 0..Len(bytes) |->
                    IF k = 0 THEN 0 ELSE NextSum(f[k - 1], bytes[k])]

\* The list of the sums so far, given with its end; that there is one, and
\* with it that the checksum is a number, is shown a byte at a time.
Sums(bytes, e) ==
  {f \in [0..e -> Nat] :
     \A k \in 0..e : f[k] = IF k = 0 THEN 0 ELSE NextSum(f[k - 1], bytes[k])}

LEMMA SumsExist ==
  ASSUME NEW bytes \in Seq(Bytes)
  PROVE  Sums(bytes, Len(bytes)) # {}
<1> DEFINE S == {e \in Nat : e <= Len(bytes) => Sums(bytes, e) # {}}
<1>1. 0 \in S
  <2> DEFINE f == [k \in 0..0 |-> 0]
  <2>1. f \in Sums(bytes, 0)
    BY DEF Sums
  <2>2. QED
    BY <2>1
<1>2. ASSUME NEW e \in Nat, e \in S PROVE e + 1 \in S
  <2> SUFFICES ASSUME e + 1 <= Len(bytes) PROVE Sums(bytes, e + 1) # {}
    OBVIOUS
  <2>1. PICK f \in Sums(bytes, e) : TRUE
    BY <1>2
  <2>2. /\ f \in [0..e -> Nat]
        /\ \A k \in 0..e : f[k] = IF k = 0 THEN 0 ELSE NextSum(f[k - 1], bytes[k])
    BY DEF Sums
  <2> DEFINE sum == NextSum(f[e], bytes[e + 1])
             g == [k \in 0..(e + 1) |-> IF k = e + 1 THEN sum ELSE f[k]]
  <2>3. sum \in Nat
    <3>1. f[e] \in Nat /\ bytes[e + 1] \in Nat
      BY <2>2 DEF Bytes
    <3>2. QED
      BY <3>1, NextSumIsNat
  <2> HIDE DEF sum
  <2>4. \A k \in 0..(e + 1) : k # e + 1 => k \in 0..e
    OBVIOUS
  <2>5. g \in [0..(e + 1) -> Nat]
    BY <2>2, <2>3, <2>4
  <2>6. ASSUME NEW k \in 0..(e + 1)
        PROVE  g[k] = IF k = 0 THEN 0 ELSE NextSum(g[k - 1], bytes[k])
    <3>1. CASE k = e + 1
      <4>1. k # 0 /\ k - 1 = e /\ e # e + 1 /\ e \in 0..(e + 1)
        BY <3>1
      <4>2. g[k] = sum /\ g[e] = f[e]
        BY <3>1, <4>1
      <4>3. sum = NextSum(g[k - 1], bytes[k])
        BY <3>1, <4>1, <4>2 DEF sum
      <4> HIDE DEF g
      <4>4. QED
        BY <4>1, <4>2, <4>3
    <3>2. CASE k # e + 1
      <4>1. k \in 0..e /\ (k # 0 => k - 1 \in 0..(e + 1) /\ k - 1 # e + 1)
        BY <3>2
      <4>2. g[k] = f[k] /\ (k # 0 => g[k - 1] = f[k - 1])
        BY <3>2, <4>1
      <4> HIDE DEF g
      <4>3. f[k] = IF k = 0 THEN 0 ELSE NextSum(f[k - 1], bytes[k])
        BY <2>2, <4>1
      <4>4. QED
        BY <4>2, <4>3
    <3>3. QED
      BY <3>1, <3>2
  <2> HIDE DEF g
  <2>7. g \in Sums(bytes, e + 1)
    BY <2>5, <2>6 DEF Sums
  <2>8. QED
    BY <2>7
<1>3. Len(bytes) \in S
  <2> HIDE DEF S
  <2>1. Nat \subseteq S
    BY <1>1, <1>2, Closed
  <2>2. QED
    BY <2>1
<1>4. QED
  BY <1>3

LEMMA SumIsNat ==
  ASSUME NEW bytes \in Seq(Bytes)
  PROVE  Sum(bytes) \in Nat
<1> DEFINE N == Len(bytes)
           Step(f) == [k \in 0..N |-> IF k = 0 THEN 0 ELSE NextSum(f[k - 1], bytes[k])]
<1>1. PICK f \in Sums(bytes, N) : TRUE
  BY SumsExist
<1>2. /\ f = [k \in 0..N |-> f[k]]
      /\ \A k \in 0..N : f[k] = Step(f)[k]
  BY DEF Sums
<1>3. Step(f) = [k \in 0..N |-> Step(f)[k]]
  OBVIOUS
<1>4. f = Step(f)
  <2> HIDE DEF Step
  <2>1. QED
    BY <1>2, <1>3
<1>5. SumUpTo(bytes) = Step(SumUpTo(bytes))
  <2>1. SumUpTo(bytes) = CHOOSE g : g = Step(g)
    BY DEF SumUpTo
  <2>2. \E g : g = Step(g)
    BY <1>4
  <2> HIDE DEF Step
  <2>3. QED
    BY <2>1, <2>2
<1>6. Sum(bytes) = SumUpTo(bytes)[N]
  BY SMTT(30) DEF Sum, SumUpTo, NextSum
<1> DEFINE S == {k \in Nat : k <= N => SumUpTo(bytes)[k] \in Nat}
<1>7. 0 \in S
  BY <1>5
<1>8. ASSUME NEW k \in Nat, k \in S PROVE k + 1 \in S
  <2> SUFFICES ASSUME k + 1 <= N PROVE SumUpTo(bytes)[k + 1] \in Nat
    OBVIOUS
  <2>1. k + 1 \in 0..N /\ k + 1 # 0 /\ (k + 1) - 1 = k
    OBVIOUS
  <2>2. SumUpTo(bytes)[k] \in Nat /\ bytes[k + 1] \in Nat
    BY <1>8 DEF Bytes
  <2>3. SumUpTo(bytes)[k + 1] = NextSum(SumUpTo(bytes)[k], bytes[k + 1])
    BY <1>5, <2>1
  <2>4. QED
    BY <2>2, <2>3, NextSumIsNat
<1>9. N \in S
  <2> HIDE DEF S
  <2>1. Nat \subseteq S
    BY <1>7, <1>8, Closed
  <2>2. QED
    BY <2>1
<1>10. QED
  BY <1>6, <1>9

LEMMA GreatestElement ==
  ASSUME NEW e \in Nat, NEW S \in SUBSET (1..e), S # {}
  PROVE  \E m \in S : \A k \in S : k <= m
<1> DEFINE Back == {e - k : k \in S}
<1>1. \A k \in S : k \in 1..e /\ e - k \in Nat
  OBVIOUS
<1>2. Back \in SUBSET Nat /\ Back # {}
  BY <1>1
<1>3. PICK b \in Back : \A k \in Back : b <= k
  <2> HIDE DEF Back
  <2>1. QED
    BY <1>2, LeastElement
<1>4. PICK m \in S : b = e - m
  OBVIOUS
<1>5. \A k \in S : e - m <= e - k
  BY <1>3, <1>4
<1>6. \A k \in S : k <= m
  BY <1>1, <1>5
<1>7. QED
  BY <1>6

LEMMA WrittenTyped ==
  ASSUME NEW size \in Nat, NEW img \in [0..(size - 1) -> Bytes],
         NEW at \in Nat, at <= size, NEW bytes \in Seq(Bytes)
  PROVE  \E e \in Nat : e >= size /\ Written(img, at, bytes) \in [0..(e - 1) -> Bytes]
<1> DEFINE last == at + Len(bytes)
           e == IF last > size THEN last ELSE size
           new == Written(img, at, bytes)
<1>1. Len(bytes) \in Nat /\ last \in Nat /\ e \in Nat /\ e >= size
  OBVIOUS
<1>2. 0..(size - 1) \cup at..(at + Len(bytes) - 1) = 0..(e - 1)
  BY <1>1
<1>3. DOMAIN img = 0..(size - 1)
  OBVIOUS
<1>4. new = [p \in 0..(e - 1) |->
               IF p \in at..(at + Len(bytes) - 1) THEN bytes[p - at + 1] ELSE img[p]]
  BY <1>2, <1>3 DEF Written
<1>5. ASSUME NEW p \in 0..(e - 1)
      PROVE  (IF p \in at..(at + Len(bytes) - 1) THEN bytes[p - at + 1] ELSE img[p]) \in Bytes
  <2>1. CASE p \in at..(at + Len(bytes) - 1)
    <3>1. p - at + 1 \in 1..Len(bytes)
      BY <1>1, <2>1
    <3>2. bytes[p - at + 1] \in Bytes
      BY <3>1
    <3>3. QED
      BY <2>1, <3>2
  <2>2. CASE p \notin at..(at + Len(bytes) - 1)
    <3>1. p \in 0..(size - 1)
      BY <1>2, <2>2
    <3>2. img[p] \in Bytes
      BY <3>1
    <3>3. QED
      BY <2>2, <3>2
  <2>3. QED
    BY <2>1, <2>2
<1> HIDE DEF e
<1>6. new \in [0..(e - 1) -> Bytes]
  BY <1>4, <1>5
<1>7. QED
  BY <1>1, <1>6 DEF e

LEMMA FilledTyped ==
  ASSUME NEW bytes \in Seq(Bytes), NEW e \in Nat, NEW pad \in Bytes
  PROVE  Filled(bytes, e, pad) \in Seq(Bytes) /\ Len(Filled(bytes, e, pad)) = e
<1>1. \A k \in 1..e : (IF k <= Len(bytes) THEN bytes[k] ELSE pad) \in Bytes
  OBVIOUS
<1>2. Filled(bytes, e, pad) \in [1..e -> Bytes]
  BY <1>1 DEF Filled
<1>3. Filled(bytes, e, pad) \in Seq(Bytes)
  BY <1>2, SeqFromRange
<1>4. QED
  BY <1>3, FilledFacts

LEMMA TrailerTyped ==
  ASSUME NEW size \in Nat, NEW img \in [0..(size - 1) -> Bytes], NEW bytes \in Seq(Bytes)
  PROVE  \E e \in Nat : e >= size /\ AppendTrailer(img, bytes) \in [0..(e - 1) -> Bytes]
<1> DEFINE head == <<MagicByte, VersionByte, Len(bytes), Sum(bytes)>>
           gap == Zeros(Sectors(size) * Sector - size)
           header == Filled(head, Sector, 0)
           body == Filled(bytes, Sectors(Len(bytes)) * Sector, 0)
<1>1. Size(img) = size
  BY SizeOfInterval
<1>2. Sector \in Nat /\ Len(bytes) \in Nat /\ 0 \in Bytes
  BY ByteAssumption DEF Bytes
<1>3. Sectors(size) * Sector \in Nat /\ size <= Sectors(size) * Sector
      /\ Sectors(Len(bytes)) * Sector \in Nat
  BY <1>2, SectorsFacts
<1>4. head \in Seq(Bytes)
  <2>1. MagicByte \in Bytes /\ VersionByte \in Bytes /\ Len(bytes) \in Bytes /\ Sum(bytes) \in Bytes
    BY <1>2, ByteAssumption, SumIsNat DEF Bytes
  <2>2. QED
    BY <2>1
<1>5. gap \in Seq(Bytes)
  <2>1. Sectors(size) * Sector - size \in Nat
    BY <1>3
  <2>2. gap \in Seq({0})
    BY <2>1, ZerosFacts
  <2> HIDE DEF gap
  <2>3. QED
    BY <1>2, <2>2
<1> HIDE DEF head
<1>6. header \in Seq(Bytes) /\ body \in Seq(Bytes)
  BY <1>2, <1>3, <1>4, FilledTyped
<1>7. AppendTrailer(img, bytes) = Written(img, size, (gap \o header) \o body)
  BY <1>1 DEF AppendTrailer, head
<1> HIDE DEF gap, header, body
<1> DEFINE all == (gap \o header) \o body
<1>8. all \in Seq(Bytes)
  BY <1>5, <1>6
<1> HIDE DEF all
<1>9. \E e \in Nat : e >= size /\ Written(img, size, all) \in [0..(e - 1) -> Bytes]
  <2>1. size <= size
    OBVIOUS
  <2>2. QED
    BY <1>8, <2>1, WrittenTyped
<1>10. QED
  BY <1>7, <1>9 DEF all

LEMMA IgnitionTyped ==
  ASSUME NEW o \in Originals, NEW size \in Nat, NEW img \in [0..(size - 1) -> Bytes],
         o.ign.at + o.ign.len <= size
  PROVE  \E e \in Nat : /\ e >= size
                        /\ EmbedIgnition(img, o.ign, PayloadSector(o.bytes)) \in [0..(e - 1) -> Bytes]
<1> DEFINE s == PayloadSector(o.bytes)
           area == Filled(Archive(s), o.ign.len, 0)
<1>1. o.ign.at \in Nat /\ o.ign.len \in Nat /\ Size(o.bytes) \in Nat
  BY AreaFacts
<1>2. s \in Nat
  <2> DEFINE own == Size(o.bytes)
  <2>1. own \in Nat /\ s = Sectors(own) + 1
    BY <1>1 DEF PayloadSector
  <2> HIDE DEF own
  <2>2. Sectors(own) \in Nat
    BY <2>1, SectorsFacts
  <2> HIDE DEF s
  <2>3. QED
    BY <2>1, <2>2
<1> HIDE DEF s
<1>3. Archive(s) \in Seq(Bytes) /\ 0 \in Bytes
  BY <1>2, ByteAssumption DEF Archive, Bytes
<1>4. area \in Seq(Bytes)
  BY <1>1, <1>3, FilledTyped
<1> HIDE DEF area
<1>5. o.ign.at <= size
  BY <1>1
<1>6. EmbedIgnition(img, o.ign, s) = Written(img, o.ign.at, area)
  BY DEF EmbedIgnition, area
<1>7. \E e \in Nat : e >= size /\ Written(img, o.ign.at, area) \in [0..(e - 1) -> Bytes]
  <2>1. PICK at \in Nat : at = o.ign.at
    BY <1>1
  <2>2. QED
    BY <1>4, <1>5, <2>1, WrittenTyped
<1>8. QED
  BY <1>6, <1>7 DEF s

LEMMA ArgsTyped ==
  ASSUME NEW o \in Originals, NEW size \in Nat, NEW img \in [0..(size - 1) -> Bytes],
         \A k \in DOMAIN o.kargs.files : o.kargs.files[k].at + o.kargs.size <= size,
         NEW args \in Seq(Bytes)
  PROVE  AppendKernelArgs(img, o.kargs, args).img \in [0..(size - 1) -> Bytes]
<1> DEFINE own == KernelArgs(img, o.kargs)
           full == own \o <<SP>> \o args
<1>1. /\ o.kargs.size \in Nat /\ o.kargs.default \in Seq(Bytes)
      /\ Len(o.kargs.files) \in Nat /\ DOMAIN o.kargs.files = 1..Len(o.kargs.files)
  BY AreaFacts, ReleasedAssumption
<1>2. own \in Seq(Bytes)
  <2>1. CASE o.kargs.files = <<>>
    BY <1>1, <2>1 DEF KernelArgs
  <2>2. CASE o.kargs.files # <<>>
    <3> DEFINE at == o.kargs.files[1].at
               area == ReadAt(img, at, o.kargs.size)
    <3>1. 1 \in DOMAIN o.kargs.files
      <4>1. \E T : o.kargs.files \in Seq(T)
        BY ReleasedAssumption
      <4>2. QED
        BY <1>1, <2>2, <4>1
    <3>2. at \in Nat /\ at + o.kargs.size <= size
      BY <3>1, FileFacts
    <3>3. \A p \in at..(at + o.kargs.size - 1) : img[p] \in Bytes
      <4> DEFINE len == o.kargs.size
      <4> HIDE DEF at, len
      <4>1. len \in Nat
        BY <1>1 DEF len
      <4>2. \A p \in at..(at + len - 1) : p \in 0..(size - 1)
        BY <3>2, <4>1 DEF len
      <4>3. QED
        BY <4>2 DEF len
    <3>4. area \in Seq(Bytes)
      BY <1>1, <3>2, <3>3, ReadAtFacts
    <3> HIDE DEF area
    <3>5. PICK e \in 0..Len(area) : TrimRight(Before(area, NL)) = SubSeq(area, 1, e)
      BY <3>4, LineFacts
    <3>6. SubSeq(area, 1, e) \in Seq(Bytes)
      BY <3>4, PrefixFacts
    <3>7. own = TrimRight(Before(area, NL))
      BY <2>2 DEF KernelArgs, area
    <3>8. QED
      BY <3>5, <3>6, <3>7
  <2>3. QED
    BY <2>1, <2>2
<1> HIDE DEF own
<1>3. full \in Seq(Bytes)
  <2>1. <<SP>> \in Seq(Bytes)
    BY ByteAssumption DEF Bytes
  <2>2. QED
    BY <1>2, <2>1
<1> HIDE DEF full
<1>4. ASSUME NEW last \in Nat, last <= Len(o.kargs.files)
      PROVE  WrittenTo(img, o.kargs, last, full) \in [0..(size - 1) -> Bytes]
  <2> DEFINE ks(p) == {k \in 1..last : p \in Area(o.kargs, k)}
             top(p) == CHOOSE t \in ks(p) : \A j \in ks(p) : j <= t
             cell(p) == IF ks(p) = {} THEN img[p]
                        ELSE ArgsRegion(full, o.kargs, o.kargs.files[top(p)])
                               [p - o.kargs.files[top(p)].at + 1]
  <2>1. WrittenTo(img, o.kargs, last, full) = [p \in 0..(size - 1) |-> cell(p)]
    <3>1. DOMAIN img = 0..(size - 1)
      OBVIOUS
    <3>2. QED
      BY <3>1 DEF WrittenTo
  <2>2. ASSUME NEW p \in 0..(size - 1) PROVE cell(p) \in Bytes
    <3>1. CASE ks(p) = {}
      BY <3>1
    <3>2. CASE ks(p) # {}
      <4>1. top(p) \in ks(p)
        <5>1. ks(p) \subseteq 1..last /\ ks(p) # {}
          BY <3>2
        <5> DEFINE K == ks(p)
        <5> HIDE DEF ks
        <5>2. \E t \in ks(p) : \A j \in ks(p) : j <= t
          BY <5>1, GreatestElement
        <5>3. QED
          BY <5>2
      <4>2. PICK k \in 1..last : k = top(p) /\ p \in Area(o.kargs, k)
        BY <4>1
      <4>3. k \in DOMAIN o.kargs.files
        BY <1>1, <1>4
      <4> DEFINE file == o.kargs.files[k]
                 region == ArgsRegion(full, o.kargs, file)
      <4>4. file.at \in Nat /\ file.pad \in Bytes /\ file.end \in Bytes
        BY <4>3, FileFacts
      <4>5. p \in file.at..(file.at + o.kargs.size - 1)
        BY <4>2 DEF Area
      <4> HIDE DEF file, top, ks
      <4>6. full \o <<file.end>> \in Seq(Bytes)
        BY <1>3, <4>4
      <4>7. region \in Seq(Bytes) /\ Len(region) = o.kargs.size
        BY <1>1, <4>4, <4>6, FilledTyped DEF ArgsRegion
      <4>8. p - file.at + 1 \in 1..o.kargs.size
        BY <1>1, <4>4, <4>5
      <4> HIDE DEF region
      <4>9. region[p - file.at + 1] \in Bytes
        BY <4>7, <4>8
      <4>10. cell(p) = region[p - file.at + 1]
        BY <3>2, <4>2 DEF file, region
      <4>11. QED
        BY <4>9, <4>10
    <3>3. QED
      BY <3>1, <3>2
  <2> HIDE DEF cell
  <2>3. QED
    BY <2>1, <2>2
<1>5. CASE Misfits(o.kargs) = {} \/ args = <<>> \/ o.kargs.files = <<>> \/ Len(full) + 1 > o.kargs.size
  <2>1. AppendKernelArgs(img, o.kargs, args).img
          \in {img, WrittenTo(img, o.kargs, Len(o.kargs.files), full)}
    BY <1>5 DEF AppendKernelArgs, SetKernelArgs, full, own
  <2>2. WrittenTo(img, o.kargs, Len(o.kargs.files), full) \in [0..(size - 1) -> Bytes]
    BY <1>1, <1>4
  <2>3. QED
    BY <2>1, <2>2
<1>6. CASE ~(Misfits(o.kargs) = {} \/ args = <<>> \/ o.kargs.files = <<>> \/ Len(full) + 1 > o.kargs.size)
  <2> DEFINE misfit == CHOOSE k \in Misfits(o.kargs) : \A j \in Misfits(o.kargs) : k <= j
  <2>1. AppendKernelArgs(img, o.kargs, args).img = WrittenTo(img, o.kargs, misfit - 1, full)
    BY <1>6 DEF AppendKernelArgs, SetKernelArgs, full, own
  <2>2. Misfits(o.kargs) \subseteq 1..Len(o.kargs.files) /\ Misfits(o.kargs) # {}
    BY <1>1, <1>6 DEF Misfits
  <2>3. \E k \in Misfits(o.kargs) : \A j \in Misfits(o.kargs) : k <= j
    <3> DEFINE M == Misfits(o.kargs)
    <3>1. M \in SUBSET Nat /\ M # {}
      BY <1>1, <2>2
    <3> HIDE DEF M
    <3>2. \E k \in M : \A j \in M : k <= j
      BY <3>1, LeastElement
    <3>3. QED
      BY <3>2 DEF M
  <2>4. misfit \in 1..Len(o.kargs.files)
    BY <2>2, <2>3
  <2> HIDE DEF misfit
  <2>5. misfit - 1 \in Nat /\ misfit - 1 <= Len(o.kargs.files)
    BY <1>1, <2>4
  <2>6. QED
    BY <1>4, <2>1, <2>5
<1>7. QED
  BY <1>5, <1>6

Regions(o) == [from : Nat, to : 0..Size(o.bytes)]

\* The areas are never cut off, whatever else is missing of an image.
ImageTyped ==
  \E size \in Nat :
    /\ image \in [0..(size - 1) -> Bytes]
    /\ \A a \in Allowed(source) : a.at + a.len <= size

ScanTyped ==
  /\ off \in Nat /\ n \in 0..Chunk /\ i \in 0..n
  /\ bufB \in [0..(Chunk - 1) -> Bytes]
  /\ out \in Seq(Regions(against))

Chosen ==
  /\ source \in Originals /\ payload \in Payloads /\ extra \in Extras /\ against \in Originals
  /\ damaged \in 0..MaxDamage
  /\ pc \in Baking \cup {"read", "scan", "judged"}
  /\ untouched \in {"unknown", "yes", "no"} /\ verified \in {"unknown", "yes", "no"}

TypedInv == Chosen /\ ImageTyped /\ ScanTyped

LEMMA InitTyped == Init => TypedInv
<1> SUFFICES ASSUME Init PROVE TypedInv
  OBVIOUS
<1>1. Chosen
  BY CompareAssumption DEF Init, Chosen, Baking
<1>2. ImageTyped
  <2>1. image = source.bytes /\ source \in Originals
    BY DEF Init
  <2>2. /\ Size(source.bytes) \in Nat
        /\ source.bytes \in [0..(Size(source.bytes) - 1) -> Bytes]
    BY <2>1, CompareAssumption DEF ImagesOf
  <2>3. \A a \in Allowed(source) : a.at + a.len <= Size(source.bytes)
    BY <2>1, ReleasedAssumption
  <2>4. QED
    BY <2>1, <2>2, <2>3 DEF ImageTyped
<1>3. ScanTyped
  <2>1. off = 0 /\ n = 0 /\ i = 0 /\ bufB = [k \in 0..(Chunk - 1) |-> 0] /\ out = <<>>
    BY DEF Init
  <2>2. out \in Seq(Regions(against))
    BY <2>1
  <2>3. QED
    BY <2>1, <2>2, CompareAssumption DEF ScanTyped, Bytes
<1>4. QED
  BY <1>1, <1>2, <1>3 DEF TypedInv

LEMMA AllowedFacts ==
  ASSUME NEW o \in Originals, NEW size \in Nat, \A a \in Allowed(o) : a.at + a.len <= size
  PROVE  /\ o.ign.at + o.ign.len <= size
         /\ \A k \in DOMAIN o.kargs.files : o.kargs.files[k].at + o.kargs.size <= size
<1>1. [at |-> o.ign.at, len |-> o.ign.len] \in Allowed(o)
  BY DEF Allowed
<1>2. \A k \in DOMAIN o.kargs.files :
        [at |-> o.kargs.files[k].at, len |-> o.kargs.size] \in Allowed(o)
  BY DEF Allowed
<1>3. QED
  BY <1>1, <1>2

\* An image that becomes longer, or stays as long, keeps its areas.
LEMMA ImageGrown ==
  ASSUME ImageTyped, source \in Originals, source' = source,
         NEW size \in Nat, \A a \in Allowed(source) : a.at + a.len <= size,
         NEW e \in Nat, e >= size, image' \in [0..(e - 1) -> Bytes]
  PROVE  ImageTyped'
<1>1. ASSUME NEW a \in Allowed(source) PROVE a.at + a.len <= e
  BY OriginalFacts
<1>2. QED
  BY <1>1 DEF ImageTyped

LEMMA BakeTyped ==
  ASSUME TypedInv, WriteTrailer \/ WriteIgnition \/ WriteKargs
  PROVE  TypedInv'
<1>1. /\ UNCHANGED <<source, payload, extra, damaged, against, off, n, i, bufB, out, untouched, verified>>
      /\ pc' \in Baking
  BY DEF WriteTrailer, WriteIgnition, WriteKargs, baking, buffers, verdict, Baking
<1>2. Chosen' /\ ScanTyped'
  BY <1>1 DEF TypedInv, Chosen, ScanTyped
<1>3. source \in Originals /\ payload \in Seq(Bytes) /\ extra \in Seq(Bytes)
  BY CompareAssumption DEF TypedInv, Chosen
<1>4. PICK size \in Nat :
        /\ image \in [0..(size - 1) -> Bytes]
        /\ \A a \in Allowed(source) : a.at + a.len <= size
  BY DEF TypedInv, ImageTyped
<1>5. /\ source.ign.at + source.ign.len <= size
      /\ \A k \in DOMAIN source.kargs.files : source.kargs.files[k].at + source.kargs.size <= size
  BY <1>3, <1>4, AllowedFacts
<1>6. \E e \in Nat : e >= size /\ image' \in [0..(e - 1) -> Bytes]
  <2>1. CASE WriteTrailer
    <3>1. \E e \in Nat : e >= size /\ AppendTrailer(image, payload) \in [0..(e - 1) -> Bytes]
      BY <1>3, <1>4, TrailerTyped
    <3>2. image' = AppendTrailer(image, payload)
      BY <2>1 DEF WriteTrailer
    <3>3. QED
      BY <3>1, <3>2
  <2>2. CASE WriteIgnition
    <3>1. CASE FitsArea(source.ign)
      <4>1. \E e \in Nat :
              /\ e >= size
              /\ EmbedIgnition(image, source.ign, PayloadSector(source.bytes)) \in [0..(e - 1) -> Bytes]
        BY <1>3, <1>4, <1>5, IgnitionTyped
      <4>2. image' = EmbedIgnition(image, source.ign, PayloadSector(source.bytes))
        BY <2>2, <3>1 DEF WriteIgnition
      <4>3. QED
        BY <4>1, <4>2
    <3>2. CASE ~FitsArea(source.ign)
      BY <1>4, <2>2, <3>2 DEF WriteIgnition
    <3>3. QED
      BY <3>1, <3>2
  <2>3. CASE WriteKargs
    <3>1. image' = AppendKernelArgs(image, source.kargs, extra).img
      BY <2>3 DEF WriteKargs
    <3>2. image' \in [0..(size - 1) -> Bytes]
      BY <1>3, <1>4, <1>5, <3>1, ArgsTyped
    <3>3. QED
      BY <3>2
  <2>4. QED
    BY <2>1, <2>2, <2>3
<1>7. ImageTyped'
  BY <1>1, <1>3, <1>4, <1>6, ImageGrown DEF TypedInv
<1>8. QED
  BY <1>2, <1>7 DEF TypedInv

LEMMA DamageTyped ==
  ASSUME TypedInv, Damage
  PROVE  TypedInv'
<1>1. /\ UNCHANGED <<source, payload, extra, against, off, n, i, bufB, out, untouched, verified, pc>>
      /\ damaged < MaxDamage /\ damaged' = damaged + 1
  BY DEF Damage, baking, buffers, verdict
<1>2. Chosen' /\ ScanTyped'
  BY <1>1, CompareAssumption DEF TypedInv, Chosen, ScanTyped
<1>3. PICK size \in Nat :
        /\ image \in [0..(size - 1) -> Bytes]
        /\ \A a \in Allowed(source) : a.at + a.len <= size
  BY DEF TypedInv, ImageTyped
<1>4. ImageTyped'
  <2>1. CASE \E p \in DOMAIN image, b \in Damaging : image' = [image EXCEPT ![p] = b]
    <3>1. PICK p \in DOMAIN image, b \in Damaging : image' = [image EXCEPT ![p] = b]
      BY <2>1
    <3>2. b \in Bytes
      BY CompareAssumption
    <3>3. image' \in [0..(size - 1) -> Bytes]
      BY <1>3, <3>1, <3>2
    <3>4. QED
      BY <1>1, <1>3, <3>3 DEF ImageTyped
  <2>2. CASE \E length \in 1..(Size(image) - 1) :
               /\ \A a \in Allowed(source) : a.at + a.len <= length
               /\ image' = [p \in 0..(length - 1) |-> image[p]]
    <3>1. PICK length \in 1..(Size(image) - 1) :
            /\ \A a \in Allowed(source) : a.at + a.len <= length
            /\ image' = [p \in 0..(length - 1) |-> image[p]]
      BY <2>2
    <3>2. Size(image) = size
      BY <1>3, SizeOfInterval
    <3>3. length \in Nat /\ \A p \in 0..(length - 1) : p \in 0..(size - 1)
      BY <3>1, <3>2
    <3>4. image' \in [0..(length - 1) -> Bytes]
      BY <1>3, <3>1, <3>3
    <3>5. QED
      BY <1>1, <3>1, <3>3, <3>4 DEF ImageTyped
  <2>3. QED
    BY <2>1, <2>2 DEF Damage
<1>5. QED
  BY <1>2, <1>4 DEF TypedInv

LEMMA StartTyped ==
  ASSUME CompareInv, TypedInv, StartCompare
  PROVE  TypedInv'
<1>1. /\ UNCHANGED <<source, payload, extra, image, damaged, off, n, i, bufB, out, untouched>>
      /\ against' \in Originals /\ pc' = "read" /\ verified' \in {"yes", "no"} /\ pc \in Baking
  BY DEF StartCompare, baking, buffers, Baking
<1>2. out' = <<>>
  BY <1>1 DEF CompareInv, Shapes
<1>3. out' \in Seq(Regions(against'))
  BY <1>2
<1>4. QED
  BY <1>1, <1>3 DEF TypedInv, Chosen, ImageTyped, ScanTyped

LEMMA ReadTyped ==
  ASSUME CompareInv, TypedInv, ReadChunk
  PROVE  TypedInv'
<1>1. /\ UNCHANGED <<source, payload, extra, image, damaged, against, off, out, verified>>
      /\ pc' \in {"scan", "judged"} /\ untouched' \in {untouched, "no"}
      /\ off < Size(against.bytes)
  BY DEF ReadChunk, baking
<1>2. Chosen' /\ ImageTyped'
  BY <1>1 DEF TypedInv, Chosen, ImageTyped
<1>3. n' \in 0..Chunk /\ i' \in 0..n' /\ bufB' \in [0..(Chunk - 1) -> Bytes]
  <2>1. CASE off < Size(image)
    <3> DEFINE m == Smaller(Chunk, Size(against.bytes) - off)
    <3>1. /\ n' = m /\ i' = 0
          /\ bufB' = [k \in 0..(Chunk - 1) |->
                        IF k < m /\ off + k < Size(image) THEN image[off + k] ELSE bufB[k]]
      BY <2>1 DEF ReadChunk
    <3>2. m \in 0..Chunk
      BY <1>1, Lengths DEF Smaller
    <3> HIDE DEF m
    <3>3. PICK size \in Nat : image \in [0..(size - 1) -> Bytes]
      BY DEF TypedInv, ImageTyped
    <3>4. Size(image) = size /\ off \in Nat /\ Chunk \in Nat /\ bufB \in [0..(Chunk - 1) -> Bytes]
      BY <3>3, SizeOfInterval, Lengths DEF TypedInv, ScanTyped
    <3>5. ASSUME NEW k \in 0..(Chunk - 1)
          PROVE  (IF k < m /\ off + k < Size(image) THEN image[off + k] ELSE bufB[k]) \in Bytes
      <4>1. bufB[k] \in Bytes
        BY <3>4
      <4>2. off + k < Size(image) => off + k \in 0..(size - 1)
        BY <3>4
      <4>3. off + k < Size(image) => image[off + k] \in Bytes
        BY <3>3, <4>2
      <4>4. QED
        BY <4>1, <4>3
    <3>6. bufB' \in [0..(Chunk - 1) -> Bytes]
      BY <3>1, <3>5
    <3>7. QED
      BY <3>1, <3>2, <3>6
  <2>2. CASE ~(off < Size(image))
    BY <2>2 DEF ReadChunk, TypedInv, ScanTyped
  <2>3. QED
    BY <2>1, <2>2
<1>4. ScanTyped'
  BY <1>1, <1>3 DEF TypedInv, ScanTyped
<1>5. QED
  BY <1>2, <1>4 DEF TypedInv

LEMMA ExtendedTyped ==
  ASSUME NEW end \in Nat, NEW regions \in Seq([from : Nat, to : 0..end]),
         NEW from \in Nat, NEW to \in 0..end
  PROVE  Extended(regions, from, to) \in Seq([from : Nat, to : 0..end])
<1> DEFINE T == [from : Nat, to : 0..end]
           last == Len(regions)
<1>1. CASE last > 0 /\ from - regions[last].to < Near
  <2>1. Extended(regions, from, to) = [regions EXCEPT ![last] = [regions[last] EXCEPT !.to = to]]
    BY <1>1 DEF Extended
  <2>2. last \in DOMAIN regions
    BY <1>1
  <2>3. regions[last] \in T
    <3> HIDE DEF T
    <3>1. regions \in Seq(T)
      BY DEF T
    <3>2. QED
      BY <2>2, <3>1
  <2> DEFINE v == [regions[last] EXCEPT !.to = to]
  <2>4. v \in T
    BY <2>3
  <2>5. regions \in Seq(T)
    OBVIOUS
  <2> HIDE DEF T, v, last
  <2>6. [regions EXCEPT ![last] = v] \in Seq(T)
    BY <2>2, <2>4, <2>5
  <2>7. QED
    BY <2>1, <2>6 DEF T, v
<1>2. CASE ~(last > 0 /\ from - regions[last].to < Near)
  <2> DEFINE v == [from |-> from, to |-> to]
  <2>1. Extended(regions, from, to) = Append(regions, v)
    BY <1>2 DEF Extended
  <2>2. v \in T /\ regions \in Seq(T)
    OBVIOUS
  <2> HIDE DEF T, v, last
  <2>3. Append(regions, v) \in Seq(T)
    BY <2>2
  <2>4. QED
    BY <2>1, <2>3 DEF T, v
<1>3. QED
  BY <1>1, <1>2

LEMMA DifferenceTyped ==
  ASSUME CompareInv, TypedInv, Difference
  PROVE  TypedInv'
<1>1. PICK j \in (i + 1)..n : out' = Extended(out, off + i, off + j) /\ i' = j
  BY DEF Difference
<1>2. /\ UNCHANGED <<source, payload, extra, image, damaged, pc, against, off, n, bufB, untouched, verified>>
      /\ pc = "scan"
  BY DEF Difference, baking, verdict
<1>3. /\ off \in Nat /\ n \in Nat /\ i \in Nat /\ Size(against.bytes) \in Nat
      /\ n = Smaller(Chunk, Size(against.bytes) - off) /\ Chunk \in Nat
      /\ off < Size(against.bytes)
  BY <1>2, Lengths DEF CompareInv, Buffered
<1>4. off + n <= Size(against.bytes)
  BY <1>3 DEF Smaller
<1> DEFINE end == Size(against.bytes)
<1>5. off + i \in Nat /\ off + j \in 0..end /\ j \in 0..n
  <2> HIDE DEF end
  <2>1. end \in Nat /\ off + n <= end
    BY <1>3, <1>4 DEF end
  <2>2. QED
    BY <1>3, <2>1
<1>6. out \in Seq([from : Nat, to : 0..end]) /\ end \in Nat
  BY <1>3 DEF TypedInv, ScanTyped, Regions
<1> HIDE DEF end
<1>7. out' \in Seq([from : Nat, to : 0..end])
  BY <1>1, <1>5, <1>6, ExtendedTyped
<1>8. ScanTyped'
  <2>1. out' \in Seq(Regions(against'))
    BY <1>2, <1>7 DEF Regions, end
  <2>2. QED
    BY <1>1, <1>2, <1>5, <2>1 DEF TypedInv, ScanTyped
<1>9. QED
  BY <1>2, <1>8 DEF TypedInv, Chosen, ImageTyped

LEMMA OtherTyped ==
  ASSUME CompareInv, TypedInv, Skip \/ NextChunk \/ Judge \/ UNCHANGED vars
  PROVE  TypedInv'
<1>1. /\ UNCHANGED <<source, payload, extra, image, damaged, against, n, bufB, out, verified>>
      /\ pc' \in {pc, "read", "judged"} /\ untouched' \in {untouched, "yes", "no"}
  BY DEF Skip, NextChunk, Judge, vars, baking, buffers, verdict
<1>2. off' \in Nat /\ i' \in 0..n
  <2>1. off \in Nat /\ i \in 0..n /\ n \in Nat /\ Chunk \in Nat
    BY Lengths DEF TypedInv, ScanTyped
  <2>2. off' \in {off, off + Chunk} /\ (i' = i \/ (i < n /\ i' = i + 1))
    BY DEF Skip, NextChunk, Judge, vars, buffers
  <2>3. QED
    BY <2>1, <2>2
<1>3. QED
  BY <1>1, <1>2 DEF TypedInv, Chosen, ImageTyped, ScanTyped

\* Every byte of an image is one after every write, a checksum included; the
\* scan stays inside what was read, and regions end inside the original.
THEOREM VerifyTypeCorrect == Spec => []TypeOK
<1>1. CompareInv /\ TypedInv /\ [Next]_vars => TypedInv'
  BY BakeTyped, DamageTyped, StartTyped, ReadTyped, DifferenceTyped, OtherTyped DEF Next
<1>2. TypedInv => TypeOK
  <2> SUFFICES ASSUME TypedInv PROVE TypeOK
    OBVIOUS
  <2>1. image \in ImagesOf(Size(image))
    <3>1. PICK size \in Nat : image \in [0..(size - 1) -> Bytes]
      BY DEF TypedInv, ImageTyped
    <3>2. Size(image) = size
      BY <3>1, SizeOfInterval
    <3>3. QED
      BY <3>1, <3>2 DEF ImagesOf
  <2>2. QED
    BY <2>1 DEF TypedInv, Chosen, ScanTyped, Regions, Baking, TypeOK, ImagesOf
<1>3. QED
  BY InitTyped, AlwaysCompared, <1>1, <1>2, PTL DEF Spec

=============================================================================
