# Baretag, specified in TLA+

Baretag reads what a server is made of, draws it on the console with a QR code,
and can be baked into a CoreOS live ISO so that booting the ISO does this on
every machine. This directory holds TLA+ models of the parts of it that are hard
to test, the TLC configurations that check them on small instances, and proofs
for the parts where an instance is not enough.

## Inventory

| component | state | operations | interacts with |
|---|---|---|---|
| **bake** (`cmd/baretag/bake.go`, `internal/bake/bake.go`, `clone_*.go`) | files and directory entries, the open image, the deferred removal | `resolveBinary`, `checkInput`, `checkOutput`, `copyFile` (`cloneFile`, `copyBytes`), patching, `Verify` | the file system; other bakes; image patching |
| **image patching** (`internal/iso`: trailer, kargs, ignition, iso9660) | the bytes of the image, its length when it was opened | `AppendTrailer`, `EmbedIgnition`, `AppendKernelArgs`, and the readers `ReadTrailer`, `ReadIgnition`, `KernelArgs` | called by bake, verification; its result is read at boot |
| **verification** (`internal/bake/verify.go`) | none, two files | `Verify`, `VerifyAgainst`, `changedRegions` | image patching |
| **adding a file** (`internal/iso/patch.go`, `hybrid.go`) | directories, volume descriptors, MBR, two GPT copies | `AddFile`, `resize`, `growMBR`, `growGPT`, `ValidatePartitions` | not called by bake; verification validates |
| **payload** (`internal/payload/payload.go`, `cmd/baretag/decode.go`) | the parts scanned so far | `Split`, `join`, `Decode`, `decodeMain` | the symbols on the screen, a scanner, a technician |
| **wire format** (`internal/payload/wire.go`) | none | `toWire`, `trimTrailing`, `toInventory` | payload, inventory |
| **LLDP listening** (`internal/lldp`, `applyNeighbours`) | one goroutine and socket per live interface, a mutex, a map, a deadline | `Listen`, `listenOne`, `Parse` | the kernel, the switches, the clock |
| **inventory** (`internal/inventory`) | the inventory being filled in | `collectNICs`, `collectDisks`, `applyDMI`, `applySystem` | sysfs, udev, LLDP listening |
| **layout** (`cmd/baretag/main.go`, `internal/render`) | the best arrangement so far | `compose`, `tryLayout`, `fitPayload`, `allFit` | payload, inventory, the console |
| **boot service** (`internal/bake/files`) | the run directory, the issue file | `find_device`, `extract`, `main` | systemd, the medium, baretag |
| **mockup** (`cmd/mockup`) | none | draws the picture of the documentation | |

What is hard in it: a bake is a long sequence of system calls, each of which may
fail or be the last one, on files that other processes see; the launcher that
ends up in an image and the payload it reads are written separately; the
verification reads with one buffer, in chunks, and merges what it finds; the parts
of a payload travel through a person; the listeners race a deadline, the switch
and each other; devices come and go while the inventory is read, and udev lags
behind them; every login of a boot waits for a binary that may hang. What makes each part correct:

* bake: a reported success is a complete image; a failure leaves none that is half
  patched, and no write of a patch installs a launcher without its payload, wherever it
  is cut off; nothing but the output is touched.
* image patching and verification: what is written is what the boot and the
  verification read, whatever was appended before.
* payload: decoding gives what one machine said, or an error.
* LLDP: a neighbour belongs to its interface, none that was heard is lost, and
  collecting an inventory ends.
* layout: the most complete arrangement that fits is drawn, and the search ends.
* adding a file: the two partition tables and the volume agree after it.
* inventory: a device that stays is reported as it is; nothing is reported that
  was never there; what was collected decodes to itself.
* boot service: only the binary that was baked is executed, a login shows a whole
  banner or none, and there is always a login.

## Plan

The modules below were written in this order, each with its run first and its
theorems after:

1. `IsoImage`, `BakeRun`: the whole of `bake-into`, with the abstract
   `BakePromise` it implements (`BakeRefinement`).
2. `PayloadChunks`, `ScanSession`: splitting, scanning and decoding.
3. `LldpListen`: the concurrent part of the inventory.
4. `PartitionGrow`: adding a file, with an error between any two writes.
5. `ImageBytes`, `VerifyImage`: what baking writes byte by byte, and the
   comparison that judges it.
6. `WireFormat`, `InventoryCollect`: collecting, and the rows it is sent as.
7. `Layout`: the search for what the console holds.
8. `BootService`: the boot of the medium that was baked.

What is left: the reading of ISO directories and descriptors;
the size of the console (`geometry`).

## Modules

| module | role |
|---|---|
| `IsoImage` | an image as baking sees it: readers and writers as operators |
| `BakeRun` | the state machine of `bake-into`, one action per system call |
| `BakePromise` | what a bake promises: a phase and an artefact per process |
| `BakeRefinement` | the refinement mapping from `BakeRun` to `BakePromise` |
| `BakeProofs` | what a success, an error and a crash leave, what no bake touches, the verification of a bake, `--force`, the refinement |
| `ImageBytes` | the bytes of an image, and the readers and writers of its parts |
| `VerifyImage` | baking, damage, and the comparison chunk by chunk |
| `VerifyProofs` | what baking writes is read back and accepted, and what is accepted differs only where it may |
| `PayloadChunks` | `Split`, `join` and `Decode` as operators |
| `ScanSession` | machines with symbols on their screens, scans, `decode` |
| `ScanProofs` | what comes out of scans in any order, with gaps, repetitions and strangers |
| `WireFormat` | rows of cells: `toWire`, `trimTrailing`, `toInventory` |
| `InventoryCollect` | the collection, file by file, beside a changing machine |
| `InventoryProofs` | what stays is reported as it is, nothing of what was never there, and all of it decodes |
| `LldpListen` | `Listen`, its goroutines, the links and the clock |
| `LldpProofs` | its safety properties, for any number of interfaces |
| `Layout` | `compose`, `tryLayout`, `fitPayload` as a search |
| `LayoutProofs` | what is drawn fits, and nothing better would have |
| `BootService` | the unit, its launcher, the banner and the login |
| `BootProofs` | what is executed, and what a login shows |
| `PartitionGrow` | `AddFile`, the partition tables and their validation |
| `GrowProofs` | the released volume is never written, added files stay, the tables agree, no old header is left |
| `MCBake`, `MCVerify`, `MCScan`, `MCInventory`, `MCLldp`, `MCLayout`, `MCBoot`, `MCGrow` | the constants of the runs |

### IsoImage and BakeRun

An image is a record: the identity of the original (`base`) and whether all of
it is there (`whole`), who wrote the Ignition area and which sector its launcher
reads (`ign`), the arguments in each bootloader config (`kargs`), and a sequence
of cells behind the original (`tail`). A header and a payload take one cell each:
the arithmetic in sectors is reduced to positions, which keep what can overlap,
dangle or be cut off. Bytes are known by their writer; a write that stopped half
way leaves `Torn` ones. A reader of an incomplete image may or may not find what
it looks for, so `CanOpen`, `FindsIgnitionArea`, `FindsKargs` and `Verdicts` are
sets of answers.

What `io.Copy` has written in the middle is one of the `Prefixes`. The areas lie
inside the original in an order the model does not fix, so a part of the base
(`HalfBase`) may have any of them, whole or in part, and no tail; a part of the
tail (`HalfTail`) has all of the base. A copy of an image that was baked before
therefore has that bake's launcher long before its payload. Three constants say what
the verification depends on besides the patch: `Intact` (label, command line,
Joliet and partition tables pass), `Unfindable` (whose payload is beyond
`ReadTrailer`'s walk, or has a sector like a header) and `Close` (two areas less than
4096 bytes apart, which `changedRegions` may report as one). `Accepted` is what
`VerifyAgainst` may then say.

Files are inodes with names (`dir`, `data`), so that unlinking, truncating, hard
links and two names of one file behave as they do. `pc` is the system call a
process is about to make. Each action is one call with all its outcomes:
`Create` truncates or makes an inode, a failed `FICLONE` removes the new file
and falls back to copying, `io.Copy` goes in two portions, `WriteStep` is a
`WriteAt` that succeeds or fails with some of its bytes written and then runs the
deferred removal. `CheckOutput` stops only when `Stat` succeeds: one that fails goes
on as if nothing were there, and `missed`, which no step reads, records that
something was. `Kill` may happen anywhere and runs nothing. `Verify` and
`Compare` open both files by name again, as `VerifyAgainst` does.

Most properties are stated for processes that keep `Apart`: nobody's output is
another one's output or anybody's input, and the output may be replaced. The
documentation asks for separate input and output paths; without it a bake over
its own input with `--force` removes it. Without write permission on the directory
the old file is truncated in place: `ForceNeeded` is for runs that can remove what
they go past (`Replaceable`).

### ImageBytes and VerifyImage

`IsoImage` knows an area by who wrote it; `ImageBytes` says what is in it. An
image is a function from positions to bytes, and each writer a new function:
`AppendTrailer` pads to a sector, `EmbedIgnition` fills its area with an archive
and zeros, `SetKernelArgs` writes arguments, terminator and padding into one
config after the other. The readers are separate operators, as they are in the
code: `ReadTrailer` walks back from the end over at most `Walk` sectors,
`KernelArgs` reads the first config up to a newline, whatever terminator the
image declares, and `BootArgs` is what the bootloader takes. A byte stands for
whatever is compared at once: an argument, a field of the header, a checksum,
which is the sum of the payload.

`VerifyImage` bakes one of several originals, changes at most one byte of the
result or cuts its end off, and then runs `Verify` and the loop of
`changedRegions` against one of the originals: `ReadChunk` keeps what the buffer
held where the image ends inside a chunk, `Difference` extends the last region
when it is `Near`, `Judge` asks of every region whether it is within an area.

### PayloadChunks and ScanSession

A payload is a short sequence of symbols. `"{"` starts JSON, `"Q"` the packed
form, a blank is the one other symbol the code treats specially (`TrimSpace`).
`Decode` accepts what is a well formed object, or a packed payload that some
machine made, since anything else fails its checksum. A scan is any symbol of
any screen; `RunDecode` hands over everything scanned. `sort.Slice` promises nothing
of the order among chunks with the same index, so `SortedByIndex` is the set of the
orders there may be, and `Join` and `Decode` are sets of outcomes.

### WireFormat and InventoryCollect

On the wire a device is a row of cells, a string or a number each, without the
blank ones at its end, and is read back by position. Texts are values: a
sequence of words where the code splits at blanks or commas.

The machine of `InventoryCollect` has a device, or nobody, behind each name; a
device is what its files in sysfs hold, its addresses, and the links and the
database entry that udev makes of it some time later (`Udev`). The collector
reads the directory (`todo` has the places of its entries in the order they sort),
looks up addresses or links for all names at once, and then
each attribute of each entry from one source after the other (`ReadAttribute`,
`Sources`), until one is `Enough`; a device may be unplugged, plugged in or
renamed between any two of these reads. `InterfaceAddrs` keeps the addresses that
are neither link-local nor loopback (`Local`). `fails` says which of the two
directories and whose addresses cannot be read; each is looked up once, so that it is
settled at the start. A `by-id` directory that cannot be read is that of devices
without links. The vendor and the model of a disk are read in one step. The addresses
come from the machine itself even when `Options.Root` points elsewhere (`nic.go:135`),
which is a machine of its own here. `ApplyDMI` and `ApplySystem` read a board
that stays the same and are one step each. What `ApplyNeighbours` hears is any
neighbour for any live link; `LldpListen` says which. `touched` and `ever` are
history variables.

### LldpListen

Each live interface has a goroutine with a `pc`, a socket (closed, open to every
link, or bound), the frames queued in it, the receive timeout it computed and
when its receive gives up. `mu` is `lock`, the map is `out`. The kernel delivers
a frame to each socket that is bound to the link or not bound yet, which is how
packet sockets behave. Time is counted in ticks of which `TicksPerMicro` make a
microsecond, because a timeout is handed to the kernel in microseconds and zero
means none. Parsing is reduced to whether a frame says something useful
(`Nothing` stands for one that does not). `strays` is a history variable. In the
program `run` passes no duration on, so the listeners are reached only by other
callers of `Collect`: `Callers` says which are considered.

### Layout

A report is the number of its lines and the width of the widest one, a payload
its length in bytes in each encoding, a symbol its version; the capacities are
those of the forty versions at level L. One step is one attempt to encode a
payload in a number of parts, so the state is the position of three nested
loops (`plan`, `cand`, `parts`) and what would be drawn if nothing fits (`best`).
`BestDrawn` says what the search is for without mentioning loops: no plan that
`Preferred` puts before the one drawn would have fitted.

### BootService

systemd skips the unit, starts it, lets it become active or lets its timer
expire anywhere; agetty waits for that and prints the banner, again after every
logout; an operator may restart the unit. The launcher goes command by command,
each of which may fail and end the script (`set -e`); the binary may draw, fail or
never return. A file is what was baked, something else, or half of something
(`torn`), which is what a redirection leaves between opening a file and filling
it. `blkid` may answer with any medium of the right label.

### PartitionGrow

The image is a function from block numbers to what a block holds: a part of
the volume, a part of an added file, a part of an entry array (with the end of
the volume it names), a GPT header (with the numbers it declares and the array it
was sealed with, which stands for its checksum), zeros, or a payload that follows.
The MBR, the root directories and the descriptors are variables of their own. `pc`
is the write that `AddFile` makes next; each write may stop behind any of its
blocks, and `AddFile` then returns an error, for a directory also when the record
is in it. A second file may be added after a
success or an error. `Image.pvd.spaceSize` is always what the descriptor on the
medium says, so the model has one variable for both.

Two things in the code limit what holds, and the properties name them.
`gptReservedBlocks` is 33, which suits an array of 128 entries of 128 bytes. The
array of the backup is as long as the header of the image says it is: with a
longer one (common tools make 248 entries) `growGPT` computes a place for it in
front of the end of the volume, and writes it over the file that was just added
(`hybrid.go:154`). `BackupFits` excludes this, and the case in which `hasGPT`
takes an unreadable header for none and reserves nothing. And
`ValidatePartitions` never compares the two copies: where the new tables end on
the same block as the old ones, an addition that stops behind the primary header
leaves an old backup that passes (`"same end"`).

## Runs

| run | instance | checks | shows |
|---|---|---|---|
| `bake` | two processes over three paths and two old files: the input is a CoreOS image, one without argument areas, an ISO of another kind, no ISO, or an earlier bake whose areas are close together; hard links, an output that cannot be created; two bootloader configs. `p1` does not force and may give `--karg`, `p2` forces and has a payload that is not found | `TypeOK`, `PublishedIsBaked`, `LauncherNeverDangles`, `ErrorLeavesNoPatch`, `VerifierAccepts`, `OthersKept`, `ForceNeeded`, `ImplementsPromise` | every interleaving of two bakes with every failure of every call and a kill anywhere, and that they implement the abstract promise |
| `bake_debris` | one process | `ErrorLeavesNothing` violated | an error of the copy leaves part of an ISO |
| `bake_race` | two processes, one output, no `--force` | `FinishedRejected` violated | a finished output is removed by a run that looked before it was there |
| `verify` | eight originals, four payloads, five sets of arguments; a byte changed or the end cut; any of the originals to compare with | `TypeOK`, `AcceptedIsUntouched`, `TrailerReadBack`, `ArgsAppended`, `UndamagedAccepted` | what baking writes is read back, the comparison accepts it and nothing else |
| `scan` | two machines, six pairs of payloads, up to four parts and four scans | `TypeOK`, `OwnPayloadOrError`, `IncompleteRefused`, `UnevenNeverMixed`, `CompleteDecodes` | order, gaps, repetitions, two machines |
| `scan_blank` | two parts, two scans | `BlanksSurvive` violated | a blank at the end of a part is lost |
| `inventory` | three interfaces and three disks by name, seven devices, two changes, two boards, two sets of options, four lookups that fail or none | `UntouchedAsItIs`, `NoStrangers`, `DecodedIsCollected` | collecting while devices come and go and udev lags |
| `lldp` | two interfaces, one frame per link, two ticks | `TypeOK`, `WrongOnlyBeforeBind`, `OneWriter`, `EveryAnswerReported`, `ResultIsFinal`, `ReturnsUnlessCutShort` | races of listeners, frames, signals, failures and the deadline |
| `lldp_hang` | the same, without frames | `Returns` violated | a receive without a timeout |
| `layout` | five machines, seven consoles, twenty-eight sets of flags, real capacities | `TypeOK`, `FitsUnlessSaid`, `BestDrawn`, `EventuallyDrawn` | what is drawn fits, nothing better would have, and the search ends with a drawing, or with an error when a payload is too large for any symbol |
| `boot` | three media (the right one, a torn copy, another build) under any of two labels, two starts | `ExecutedIsOwn`, `BannerBeforeLogin`, `LoginEventually` | failures, hangs, the timer and a restart |
| `grow` | two files of up to two sectors, an image of four sectors with or without a GPT, a signed MBR, Joliet, slack and a payload behind it | `TypeOK`, `GrownConsistently`, `AddedKept`, `OriginalKept`, `ValidatedAgree`, `NoStaleBackup` | tables, directories and volume agree, or the error shows |

### Bounds

* `bake`: one process creates at most two inodes, so three paths and two old files
  cover every relation of input, output and a file that is neither. Two
  bootloader configs are the least of which one can be written and the other not.
  One process that forces and one that does not, with one payload that is found and one
  that is not, keep it at 330,000 states.
  Two processes suffice for the races, which are pairwise; the theorems hold for
  any number.
* `verify`: a sector is 4 positions, a chunk 8, `Near` 2 and the walk 4 sectors
  instead of 2048, 2^20, 4096 and 4096. The relations are kept: areas straddle
  chunks, lie closer together than `Near` or further apart, the end falls inside a
  chunk and on its border, and there is a payload that exceeds the walk and one
  that contains a header. One change (`MaxDamage`) is enough for each property,
  which speaks of single bytes; the theorems have no bound.
* `scan`: four parts and four scans give a missing, a repeated and a misplaced part
  at once, and repeated parts in either order. A short payload split into more parts than it can fill
  stands for a long one split into very many.
* `inventory`: two changes (`MaxChanges`) are a replacement, or an exchange of one
  device for another under the same name; the drives publish their serial in
  different places, one of them only through udev. One interface has a link-local
  address between two others, one nothing else. `MCFailures` takes away nothing, the
  addresses of a software interface, or one of the two directories: 1.9 million states.
* `lldp`: one frame per link (`MaxFrames`) is enough for a useful or a useless one on
  each side of a bind; two ticks (`Wait`) are a deadline with one instant that can be
  expressed in microseconds and one that cannot. `MaxClock` lets time run past the
  deadline; a timeout due later falls due at the end.
* `layout`: the machines reach from one that fits everywhere to one that no symbol
  holds, the consoles from 20 by 10 to 400 by 220; nothing is scaled.
* `boot`: two starts (`MaxStarts`) are a boot and a restart over what it left.
* `grow`: a sector is two blocks and the reserve three instead of four and 33; arrays
  of one, two and four blocks are shorter than, equal to and longer than what is
  reserved, and the end is rounded up to a sector as with the real numbers (under
  which the same properties hold of one file). `MbrMax` is small enough for an image
  that does not fit.

`CHECK_DEADLOCK FALSE` is set where the system stops: a bake, a collection, a
comparison, a search and adding the files there are all end. A scanning session
and a boot go on, and are checked for deadlock.

### Fairness

* `LldpListen`: the Go scheduler runs each goroutine that can run (`WF` of
  `Goroutine(i)` and `Collect`) and time passes (`WF` of `Tick`). Nothing is assumed
  of switches, signals and failures; in particular an interrupted receive is never
  counted on to end a wait.
* `Layout`: `compose` is one loop in one goroutine (`WF` of `Next`).
* `BootService`: systemd does what is due, its timer included, and starts agetty
  (`WF` of `Systemd` and of `Getty`). Nothing is assumed of the launcher or the
  binary: that there is a login rests on `TimeoutStartSec` alone.

The other properties are safety and need none.

### What else the code does

Where code and documentation disagree and a run shows it, the run is in the table
above. The same modules show the following, which the properties name as
conditions or which follow from reading an action beside the comment it models:

* `bake.go:158` rejects an existing output only if `Stat` succeeds on it: whatever
  else it says stands for `--force` (`missed` in `ForceNeeded`). With `--force`, an
  output that is the input is removed before it is copied (`bake.go:173`, outside
  `Apart`).
* A copy of an input that was baked before, killed or out of space before its end, has
  the old launcher and not the payload it reads: `LauncherNeverDangles` allows this
  image, and only at the output of a run that has not succeeded.
* `--lldp` does nothing: `main.go:141` calls `Collect` without the duration, against
  `main.go:90` and `README.md:326` (`OptionsOf`).
* The check "the original image is untouched" (`verify.go:130`) passes for an
  output that is cut short inside a chunk when the chunk before it happens to end
  in the same bytes: the buffer of the output is not cleared (`verify.go:230`).
  `AcceptedIsUntouched` has the length of the image as a condition.
* A payload of 4095 sectors or more is written but not found from the end, and so is one
  with a sector that begins like a header (`Findable`); `KernelArgs` reads the first
  config, which all of them are then given, and knows one terminator (`Uniform`); an argument with a terminator in it is
  cut off there, and blanks at its end are lost (`Plain`); areas closer together than 4096 bytes
  are reported as one region outside both (`AreasApart`). In `VerifierAccepts` these are
  `Unfindable` and `Close`.
* `trailer.go:118` allocates what the header says before it is compared with the
  image, so a damaged length may end the program. `kargs.go:72` with no configs in
  the image drops the arguments without an error.
* The second scan of the last part is accepted although `join` promises "exactly
  once"; a payload split into very many parts may give fewer than the headers say
  and then never decodes (`FullSplit`); plain parts of two machines split the same
  way join into a text of neither.
* `decode.go:38` shows a paste that is no payload, but `wire.go:189` has failed before.
* A socket receives from every link until it is bound (`listen_linux.go:53`, `61`):
  `WrongOnlyBeforeBind` allows the neighbour of another link in that moment.
* A plan that cannot be encoded at all ends `compose` with an error (`main.go:276`)
  although `main.go:218` says it gives ground in a deliberate order, and a later,
  smaller plan would fit (`EventuallyDrawn` has it as an alternative). When a report leaves no rows, the
  first plain candidate is kept rather than the densest (`main.go:285`).
* A head of the full report or a footer wider than the console wraps, and is not
  counted as two rows (`FitsUnlessSaid`).
* go-qrcode mixes modes within a symbol, so that the version of one depends on what is
  in it as well as on its length; the capacities are those of one mode, and no property
  is about what lies between.
* A banner whose writing is cut off is shown as it is (`cut` in `BannerBeforeLogin`).
* `disk.go:245` says the first prefix that matches is the one to trust; the order of
  the directory decides between prefixes. `disk.go:131` says "naa." is dropped from a
  name; only a prefix with a blank behind it is.

## Proofs

`BakeProofs` proves, for every set of processes, paths, disks and images:

* `BakeTypeCorrect`. `TypeOK` is not inductive: a write needs its target to be an
  existing inode. `TypeInv` adds `OpenFiles`, which says what a process holds open
  at each label, and is preserved action by action.
* `SuccessIsBaked`: `PublishedIsBaked` always holds. The invariant `SafeInv`
  says, for processes that keep apart, three things of each: `Entry`, who its
  output path and its inodes belong to; `Progress`, what its image looks like at
  each label compared with the original; `Looped`, which bootloader configs are
  done. A step of a process re-establishes them for itself (`EntryStep`,
  `ProgressStep`, `LoopedStep`) and, since it writes only its own path and
  inodes, keeps them for the others (`Frame`, `OthersSafe`, `OriginalStays`).
  That the finished image has its trailer where the launcher reads it is a fact
  about sequences (`AppendCell`, `TrailerTail`, `ConfiguredIsBaked`).
* `OtherFilesKept`: `OthersKept`, from the same invariant.

and of the outcomes:

* `FailureLeavesNoPatch`: `ErrorLeavesNoPatch`. `LeftInv` says what is at the output
  path of a process that has failed: nothing, what was there, or a copy without a
  patch. It is disturbed only by the step that fails, which `SafeInv` describes.
* `NoLauncherDangles`: `LauncherNeverDangles`, which is about every moment and so
  about every crash. `SoundInv` says that every old image is sound, its launcher
  reading a whole payload, and that whatever a process has made is sound or a
  `HalfCopy`, one of the prefixes of its original at its output. `Sound` is
  kept by each write because the trailer goes behind the end (`SoundBehind`) and the
  launcher is only written once the trailer is there (`TrailedFacts`); a half copy is
  never patched.
* `OwnBakesAccepted`: `VerifierAccepts`. `AcceptInv` says that an image has the
  label of its release in its arguments from the moment its lines are written, and
  that the verification finds a finished bake in order, or is `Doubtful` of it for one
  of the reasons that `VerifierAccepts` names: an original that is not whole or not
  `Intact`, a payload that is `Unfindable`, areas that are `Close` and were both
  written. It has the hypothesis `Released`: in the files there are to begin with, no write of a command line has
  stopped half way. A released image has its label, every bake keeps it, and an image
  with a torn line would be refused rightly.
* `OldOutputKept`: `ForceNeeded`, also for processes that race for one path or read
  what another writes. `ForceInv` says that whoever is past `os.Remove`, or came to it
  without `--force` and with a `Stat` that told the truth, has no old file at its path
  and holds none open. `Replaceable` is part of the property: otherwise `os.Create`
  truncates the old file, and every hard link to it with it.
* `RunKeepsItsPromise`: `ImplementsPromise`, the refinement, for processes that keep
  apart (`Apart`, as in the properties: nobody's output is anybody's input or
  another one's output). Two bakes of one path have no order `BakePromise` could
  name. Each action of `BakeRun` is shown to be a step of the phase and artefact of
  its process, or a stutter (`ArtefactSeen`, `CopyNotBaked`), and to leave those of
  the others alone.

`VerifyProofs` proves `UntouchedIsMeant`: `AcceptedIsUntouched`, for every image,
damage, chunk and merging distance. The invariant `CompareInv` has three parts:
`Shapes`, the types, with images that have a length; `Buffered`, that the buffer
holds the bytes of the image as long as the image is not shorter; `Covering`, that
every difference the scan has passed lies in a region and no region reaches further
than the scan. Merging keeps what was covered, and a region within an area has its
differences there. Three more theorems are about what a bake has written, as long as
nothing happened to it:

* `PayloadIsReadBack`: `TrailerReadBack`. `WrittenInv` says of the image at each label
  that it is `Trailed`, from which step on the launcher reads the payload's sector, and
  that the rest is as it was outside the areas written so far. The walk back stops at
  the header because `Findable` payloads have no sector that looks like one
  (`AppendTrailed`, `ReadTrailed`).
* `ArgumentsAreAppended`: `ArgsAppended`. `ArgsInv` adds what each argument area holds,
  which rests on the areas being apart (`ArgsPlaced`). What is read from it is a fact
  about first terminators and last blanks (`LineFacts`, `LineReadBack`). That a set of
  numbers has a least one is proved without induction: else the numbers below all of
  it, which are finitely many, would be mapped to their successors, one to one but not
  onto (`LeastElement`).
* `CleanBakesAccepted`: `UndamagedAccepted`, from the three invariants above and
  `CleanInv`. Every difference lies in an area (`DifferencesInAreas`); what follows an
  area is in none, so a run of differences lies in one (`RunIsWithin`); two regions that
  are merged are in the same one (`ExtendedProper`). The label stays in front of the
  first terminator whatever is appended (`LabelKept`), so `Verify` finds it.

`VerifyTypeCorrect` is `TypeOK`, for which `TypedInv` adds that baking leaves every
area within the image: only then does each write begin where the image has bytes, so
that it leaves one without holes (`WrittenTyped`). A checksum is computed a byte at a
time, and that it is a number is shown so as well (`SumsExist`, `SumIsNat`).

`LayoutProofs` proves five theorems about the search, for every machine, console,
capacity and combination of flags. `SearchInv` adds to `TypeOK` what has been
`RuledOut` (no plan before the one that is tried fits in any way, and of its own
encodings and numbers of symbols none before the current one) and `Kept` (what is
kept fits only if the search has stopped at it). From it `NothingBetterFits` and
`QuietDrawingFits`, which are `BestDrawn` and `FitsUnlessSaid`, need that the list of
plans is in the order of preference, whichever of detail and completeness comes first
(`PlansFacts`); `LayoutTypeCorrect` is `TypeOK`. Two more are what `EventuallyDrawn` says
but for the scheduling: `SearchEnds`, that every step makes `ToTry` less, the number of
attempts that are left (`WithinPlan`: less is behind the search than the plan has), and
`ErrorsAreTooLarge`, that an error means a payload too large for any symbol. That the
loops go on is left to the run.

`LldpProofs` proves six theorems for any number of interfaces, frames and ticks:
`LldpTypeCorrect` (`TypeOK`; `Clocks` bounds the timeouts, which are cut to
microseconds, and the times at which a receive gives up),
`MapHasOneWriter` (from `WriterInv`: the lock is held by whoever is between
`mu.Lock` and `mu.Unlock`), `EveryAnswerIsReported` (from `ReportInv`: a goroutine
that is done has put what it heard into the map, and nobody else did),
`WrongOnlyFromStrays` (from `OriginInv`: a queued frame is of the socket's own link
or a stray) and `NothingHeardLater`, an action property: once `Listen` has returned,
`Shape` leaves no goroutine that could move. The sixth, `OnlyTheLastMicrosecondHangs`,
says what `ReturnsUnlessCutShort` excepts: a receive is without a timeout only while
less than a microsecond of the wait is left (`LateInv`: since the timeout was cut to
zero, time has only passed; any other sum of clock and timeout is a time that comes).

`InventoryProofs` proves three theorems about a collection, for any names, devices,
options and number of changes. `Shape` says of a state what the code takes for
granted: the row that is read is that of the first entry left, and each row has the
name of an entry of its own walk.

* `RowsSpeakOfWhatWasThere`: `NoStrangers`. `Seen` says the same of everything a row
  is made from, the row that is half read, the addresses and links that were looked up
  before and the links udev has not yet taken away, and `ever` only grows.
* `StayingDevicesAsTheyAre`: `UntouchedAsItIs`, whatever cannot be looked up. `Kept` is about the names under which
  nothing came or went: udev's links are those of the device (`Stays`), what was looked
  up is its own (`Looked`), the row being read is right as far as it has come
  (`RowKept`), and an entry has no row before its turn, and the one it deserves after
  that (`Accounts`). Of the serial, `RowKept` says that the sources before the current
  one are `Ruled` out; the first that says something then gives the best serial there
  is (`FirstIdentifies`), and if none does there is none (`NoneIdentifies`).
* `CollectedIsDecoded`: `DecodedIsCollected`. Every row has the fields of its kind
  (`Shape`), its addresses are those of a device or none (`Seen`), and its state, once
  it was read, is not empty (`StateSaid`): `toNIC` would take an empty one for
  `unknown`. What `trimTrailing` cuts off is what a missing cell is read as
  (`TrimFacts`, `CellFacts`). That splitting at commas undoes joining is shown an
  address at a time, and within an address a token at a time (`FieldRead`,
  `SplitJoined`).

`ScanProofs` proves the five properties of `ScanSession`, for any machines and
payloads, any number of parts and of scans, and whatever order the sort leaves equal
indexes in. The invariant `ScanInv` says that a result is one of those decoding what
was scanned may give (`ResultMeant`); the rest is about the operators:

* `SplitFacts` is the arithmetic of the sizes: every chunk there is begins within the
  text, and as many as were asked for reach its end. `SplitWhole` follows: joined,
  those are the text (`PiecesJoined`).
* `KindOfPart`: a screen that was not split gives a text that trimming does not
  empty, a screen that was gives chunks with their place and the total of the screen.
* `JoinedChunks`: a text made of chunks is made of one chunk for each place, all of one
  total, and nothing else was scanned. With it `NeverMixed`, `MissingIsRefused` and
  `OwnOrNothing`.
* `InOrder`: indexes in order that leave none out are each in their own place. With it
  `AllPartsDecode`.

The library's induction theorems take an operator and cannot be used; `Closed`, here
and in `VerifyProofs` and `InventoryProofs`, is induction over a set of numbers, from a
least element of its complement.

`BootProofs` proves `ExecutesOnlyItsOwn` (from `LauncherInv`: what each file holds at
each command) and `LoginsSeeWholeBanners` (from `BannerInv`: a torn banner is being
written or was cut short).

`GrowProofs` proves `OriginalAlwaysKept`: `OriginalKept` always holds,
for every length of sector, volume, array, slack, file and reserve. The invariant
`GrowInv` adds what the writes rely on: files go behind the volume
(`BehindVolume`), the primary header goes on naming the array behind it
(`HeaderKept`), and from `Truncate` on the image ends far enough behind the
volume for the backup (`RoomForBackup`). That a write which spares both leaves
them alone, also when it stops half way, is `WriteOutside` and `PartialWrite`.

On top of it are the other five properties of `PartitionGrow`. First each action that writes gets a lemma that says which
blocks hold what afterwards, whether the write went through or stopped (`DataEffect`,
`EntriesEffect`, `HeaderEffect`, `BackupEntriesEffect`, `BackupHeaderEffect`,
`TruncateEffect`). The invariant `TablesKept` joins to `GrowInv`:

* `PlaceInv`: what `AddFile` has done at each of its steps (`Progress`), that added
  files lie within the volume and are listed (`AddedPlaced`), and where the image
  ends (`Sized`).
* `DataInv`: the data of what was added is in place, and of what is being added from
  the moment it is written. It holds because the next file begins where the volume
  that includes this one ends, and the tables behind that. With it `AddedFilesKept`.
* `TablesInv`: how far the MBR, both headers and both arrays have been brought up to
  date. With it `SuccessIsConsistent`.
* `HeadsInv`: the primary header, and every header behind it, names the length of the
  image it was written for; none lies behind the backup the primary names; one that
  is there, or at the end of the volume, was sealed with the same array, unless the
  new tables end where the old ones did. With it `ValidTablesAgree`: a header that
  passes was sealed with the array it names, and both copies with one array.
* `StaleInv`: a backup lies behind the volume and ends a whole number of sectors. The
  new tables begin less than a sector and a reserve before the end, so an old header
  in front of them could only be in the array that was just written, or is the last
  block. `StartKept` says the first block is none. With both `NoOldBackupLeft`.

`GrowTypeCorrect` says that the partition count stays within the 32 bits of an MBR
entry, which `growMBR` checks before it writes. Images that are longer than an entry
can say are not in `Init`.

The proofs rest on the named assumptions on the constants: the kinds of image are
nested sets, the owners are distinct, inodes of processes are not old ones, old
images with a launcher have the payload it reads; images, payloads, arguments and
damage are made of bytes, images and areas have lengths, a
released image has its areas inside it and apart, no blank for a terminator, and its
label in its arguments (`ReleasedAssumption`); a sector holds the four numbers of the header;
a volume has room for its own partition table; no interface is called like a state
of a socket or of the lock; names of interfaces and disks are distinct, sysfs has an
address for every interface and a size for every disk, addresses that are reported are
neither empty nor have a comma in them, and nobody is no device.

Every safety property that a passing run checks is so stated by a theorem. Checked by
TLC only: that something happens at all (`EventuallyDrawn`, `ReturnsUnlessCutShort`,
`LoginEventually`), since fairness and `ENABLED` are beyond the prover.

## Not modelled

A power failure (there is no sync after patching, and the model has no page
cache); directories made by `MkdirAll`; what `CheckELF`, gzip, base32, JSON and
cpio do inside; how directories and descriptors of an ISO are found and laid out;
the fields of an LLDP frame; how symbols and tables are drawn, and how the size of
the console is found; macOS and other systems, beyond which way `cloneFile` goes
there; `mockup`, which draws a picture for the documentation.
