------------------------------ MODULE IsoImage ------------------------------
(***************************************************************************)
(* A CoreOS live ISO as baking sees it (src/internal/iso): the bytes of    *)
(* the original image, the two regions inside it that may be written (the  *)
(* Ignition embed area, one kernel argument area per bootloader config),   *)
(* and what follows the original, where the payload travels as a trailer.  *)
(*                                                                         *)
(* Bytes are abstracted to who wrote them.  The tail is a sequence of      *)
(* cells; a header and a payload take one cell each, so that offsets,      *)
(* overlaps and truncation keep their meaning.  A write that stopped half  *)
(* way leaves "torn" bytes.                                                *)
(***************************************************************************)
EXTENDS Naturals, Sequences

CONSTANTS
  Isos,       \* identities of original images
  Parseable,  \* those with a volume descriptor set (readDescriptors accepts)
  CoreOS,     \* those with coreos/igninfo.json and the file it names
  WithKargs,  \* those with a coreos/kargs.json
  Intact,     \* those whose label, command line, Joliet tree and partition
              \* tables pass Verify
  Close,      \* those with two writable areas less than 4096 bytes apart
  NumAreas,   \* how many bootloader configs kargs.json lists
  Bakers,     \* who may bake in this run
  Earlier,    \* whoever baked before
  Unfindable, \* whose payload ReadTrailer does not find: more than 4094 sectors
              \* of it, or a sector of it begins like a header
  Nobody,     \* the owner of bytes no bake wrote
  Torn        \* the owner of bytes a write left half done

ASSUME IsoAssumption ==
  /\ CoreOS \subseteq Parseable /\ Parseable \subseteq Isos
  /\ Intact \subseteq WithKargs /\ WithKargs \subseteq CoreOS
  /\ Close \subseteq Isos
  /\ NumAreas \in Nat

ASSUME OwnerAssumption ==
  /\ Earlier \notin Bakers /\ Nobody \notin Bakers /\ Torn \notin Bakers
  /\ Earlier # Nobody /\ Earlier # Torn /\ Nobody # Torn

Owners == Bakers \cup {Earlier}

ASSUME PayloadAssumption == Unfindable \subseteq Owners

Writers == Owners \cup {Nobody, Torn}

NoIso == "no iso"     \* the base of a file that holds nothing yet
Stock == "stock"      \* the command line the image was released with

Areas == 1..NumAreas

Cells == {"header", "payload", "zero", "torn"} \X Writers
Zero == <<"zero", Nobody>>
TornCell == <<"torn", Torn>>

\* ign is what the Ignition area holds: the config of an owner and the sector
\* its launcher was told to read from (skip, as a position in the tail).
Configs == [by : Writers, skip : Nat]
Blank == [by |-> Nobody, skip |-> 0]
TornConfig == [by |-> Torn, skip |-> 0]

Images == [base  : Isos \cup {NoIso},
           whole : BOOLEAN,                  \* every byte of the base is there
           ign   : Configs,
           kargs : [Areas -> SUBSET (Owners \cup {Stock})],
           tail  : Seq(Cells)]

Pristine(iso) ==
  [base |-> iso, whole |-> TRUE, ign |-> Blank,
   kargs |-> [a \in Areas |-> IF iso \in WithKargs THEN {Stock} ELSE {}],
   tail |-> <<>>]

\* The same image as an earlier bake left it.
Rebaked(iso) ==
  [Pristine(iso) EXCEPT !.ign  = [by |-> Earlier, skip |-> 2],
                        !.tail = << <<"header", Earlier>>, <<"payload", Earlier>> >>]

EmptyFile ==
  [base |-> NoIso, whole |-> FALSE, ign |-> Blank,
   kargs |-> [a \in Areas |-> {}], tail |-> <<>>]

\* What io.Copy has written when it is somewhere in the middle.  The areas lie
\* inside the base in an order that is not modelled, so that any of them may
\* have been copied, as a whole or in part, when the base has not.
Partial(config) ==
  IF config = Blank THEN {Blank} ELSE {Blank, TornConfig, config}
Half(img, config, copied) ==
  [img EXCEPT !.whole = FALSE, !.ign = config, !.tail = <<>>,
              !.kargs = [a \in Areas |-> IF a \in copied THEN img.kargs[a] ELSE {}]]
HalfBase(img) ==
  {Half(img, config, copied) : config \in Partial(img.ign), copied \in SUBSET Areas}
HalfTail(img) ==
  {[img EXCEPT !.tail = SubSeq(img.tail, 1, n) \o cut] :
     n \in 0..(Len(img.tail) - 1), cut \in {<<>>, <<TornCell>>}}
Prefixes(img) == HalfBase(img) \cup HalfTail(img)

-----------------------------------------------------------------------------
(* Reading.  A prefix of an image may or may not reach far enough for the  *)
(* descriptors and for the files that are looked up: both are possible.    *)

CanOpen(img) ==
  IF img.base \notin Parseable THEN {FALSE}
  ELSE IF img.whole THEN {TRUE} ELSE BOOLEAN

FindsIgnitionArea(img) ==
  IF img.base \notin CoreOS THEN {FALSE}
  ELSE IF img.whole THEN {TRUE} ELSE BOOLEAN

FindsKargs(img) ==
  IF img.base \notin WithKargs THEN {FALSE}
  ELSE IF img.whole THEN {TRUE} ELSE BOOLEAN

\* KernelArgs reads the first bootloader config only, and falls back on the
\* default when kargs.json lists none.
KernelArgs(img) == IF NumAreas = 0 THEN {Stock} ELSE img.kargs[1]

Headers(img) == {i \in 1..Len(img.tail) : img.tail[i][1] = "header"}

\* The last header, with its payload behind it in full.
TrailerComplete(img, i) ==
  /\ i \in Headers(img)
  /\ \A j \in Headers(img) : j <= i
  /\ i + 1 <= Len(img.tail)
  /\ img.tail[i + 1] = <<"payload", img.tail[i][2]>>

\* Mutant: the walk starts at the front and stops at the first header.
TrailerAtFirst(img, i) ==
  /\ i \in Headers(img)
  /\ \A j \in Headers(img) : i <= j
  /\ i + 1 <= Len(img.tail)
  /\ img.tail[i + 1] = <<"payload", img.tail[i][2]>>
  /\ img.tail[i][2] \notin Unfindable

\* ReadTrailer walks back from the end over at most 4095 sectors, and takes the
\* first one that begins like a header.
TrailerAt(img, i) ==
  TrailerComplete(img, i) /\ img.tail[i][2] \notin Unfindable

\* What the launcher of the config in the Ignition area finds when it reads
\* the payload off the medium and checks it (files/baretag-boot, extract).
LauncherFindsPayload(img) ==
  /\ img.ign.skip \in 1..Len(img.tail)
  /\ img.tail[img.ign.skip] = <<"payload", img.ign.by>>

-----------------------------------------------------------------------------
(* Writing. *)

Larger(m, n) == IF m >= n THEN m ELSE n

\* WriteAt at a position that may lie past the end: the gap reads as zeros.
WriteCell(tail, i, cell) ==
  [k \in 1..Larger(i, Len(tail)) |->
     IF k = i THEN cell
     ELSE IF k <= Len(tail) THEN tail[k] ELSE Zero]

\* ftruncate, which also extends.
Resize(tail, n) ==
  [k \in 1..n |-> IF k <= Len(tail) THEN tail[k] ELSE Zero]

\* Mutant: the launcher is installed before the payload it reads.
WithHeaderAndConfig(img, end, owner) ==
  [img EXCEPT !.tail = WriteCell(img.tail, end + 1, <<"header", owner>>),
              !.ign = [by |-> owner, skip |-> end + 2]]

\* AppendTrailer: a header where the image ended when it was opened, the
\* payload in the next sector, and the file cut or grown to end there.
WithHeader(img, end, owner) ==
  [img EXCEPT !.tail = WriteCell(img.tail, end + 1, <<"header", owner>>)]
WithPayload(img, end, owner) ==
  [img EXCEPT !.tail = WriteCell(img.tail, end + 2, <<"payload", owner>>)]
WithLength(img, end) ==
  [img EXCEPT !.tail = Resize(img.tail, end + 2)]

\* Mutant: the launcher is pointed at the header instead of the payload.
WithConfigAtHeader(img, end, owner) ==
  [img EXCEPT !.ign = [by |-> owner, skip |-> end + 1]]

\* EmbedIgnition replaces the whole area, zeroes included.
WithConfig(img, end, owner) ==
  [img EXCEPT !.ign = [by |-> owner, skip |-> end + 2]]

\* SetKernelArgs writes one area completely, padding included.
WithArgs(img, area, args) ==
  [img EXCEPT !.kargs = [img.kargs EXCEPT ![area] = args]]

-----------------------------------------------------------------------------
(* Verify and VerifyAgainst (src/internal/bake/verify.go). *)

\* Every check of Verify that depends on what a bake writes.  The others belong
\* to the base: it is Intact or not.
VerifyOK(img) ==
  /\ img.base \in Intact
  /\ Stock \in KernelArgs(img)
  /\ \E i \in 1..Len(img.tail) : TrailerAt(img, i) /\ img.ign.skip = i + 1
  /\ img.ign.by \in Owners

\* Of an image that is not whole the checks may also have lost what they read.
Verdicts(img) ==
  IF ~VerifyOK(img) THEN {FALSE} ELSE IF img.whole THEN {TRUE} ELSE BOOLEAN

\* Nothing within the length of the original differs outside the Ignition
\* and kernel argument areas.
Untouched(img, original) ==
  /\ img.base = original.base /\ img.whole = original.whole
  /\ Len(original.tail) <= Len(img.tail)
  /\ \A k \in 1..Len(original.tail) : img.tail[k] = original.tail[k]

\* The areas that differ; the Ignition area counts as area 0.
Changed(img, original) ==
  {x \in Areas \cup {0} :
     IF x = 0 THEN img.ign # original.ign ELSE img.kargs[x] # original.kargs[x]}

\* What VerifyAgainst may say.  changedRegions joins differences less than 4096
\* bytes apart: over two areas that close the joined region lies in neither.
Accepted(img, original) ==
  IF ~Untouched(img, original) THEN {FALSE}
  ELSE IF img.base \in Close /\ \E x, y \in Changed(img, original) : x # y
       THEN BOOLEAN ELSE {TRUE}

=============================================================================
