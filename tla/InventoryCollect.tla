-------------------------- MODULE InventoryCollect --------------------------
(***************************************************************************)
(* How the inventory of a machine is collected (internal/inventory): the   *)
(* interfaces, then the disks, each device attribute by attribute and each *)
(* attribute from the first file that has it, while devices come and go    *)
(* and udev follows with the links that name them.                         *)
(*                                                                         *)
(* One step of the collector reads one file or one directory.  Names sort  *)
(* as they do in Names, which is also the order of os.ReadDir.             *)
(***************************************************************************)
EXTENDS WireFormat, TLC

CONSTANTS
  NicNames, DiskNames, \* sequences of device names, in the order they sort
  Virtual,     \* names that looksVirtual recognises
  Skipped,     \* names that skipBlock recognises
  NvmeNames,   \* names that begin with nvme
  Devices,     \* [kind, files, links, addrs, udev]
  Local,       \* addresses that are link-local or loopback
  AtStart,     \* which device is behind which name when the collection starts
  Boards,      \* what DMI, the kernel and /proc say of a machine: [file -> text]
  Hypervisors, \* the vendors and products that are virtual: [text -> name]
  Settings,    \* Options: [allNICs, allDisks, useUdev, lldp]
  Failures,    \* what cannot be looked up: [dirs, addrs]
  Neighbours,  \* what a switch says: [switch, port]
  Placeholders,\* texts that firmware vendors leave in fields
  MaxChanges   \* devices that come or go during a collection

Nobody == [kind |-> "nobody"]
Walks == {"nics", "disks"}
NamesOf(walk) == IF walk = "nics" THEN NicNames ELSE DiskNames
Names == {NicNames[i] : i \in DOMAIN NicNames} \cup {DiskNames[i] : i \in DOMAIN DiskNames}
KindOf(n) == IF \E i \in DOMAIN NicNames : NicNames[i] = n THEN "nics" ELSE "disks"

VARIABLES
  occupant, \* the device behind each name
  linked,   \* the device that udev made links for
  changes,  \* how many have come or gone
  touched,  \* under which names (history)
  ever,     \* devices that were behind each name since the start (history)
  board, opts,
  fails,    \* directories and interfaces whose lookup ends in an error: as
            \* each is looked up once, it is settled at the start
  pc,       \* "nics", "addrs", "disks", "links", "wwns", "entry", "read", ...
  walk,     \* whether interfaces or disks are collected
  todo,     \* which entries of the directory are still to be looked at
  field, source, \* which attribute is read, and from which of its sources
  row,      \* the device that is being read
  addrs, byID, wwnByID, \* what was looked up before the first entry
  inv

world == <<occupant, linked, changes, touched, ever>>
given == <<board, opts, fails>>
lookups == <<addrs, byID, wwnByID>>
vars == <<world, given, pc, walk, todo, field, source, row, lookups, inv>>

-----------------------------------------------------------------------------
(* Reading. *)

meaningful(text) == text # Empty /\ text \notin Placeholders

File(n, file) ==
  IF occupant[n] # Nobody /\ file \in DOMAIN occupant[n].files
  THEN occupant[n].files[file] ELSE Empty

\* Of the vendor and the model, which are read together here; an ATA drive has
\* the name of its bus for a vendor, in either case.
diskModel(n) ==
  LET vendor == File(n, "device/vendor")
      model  == File(n, "device/model")
  IN  IF vendor \notin {Empty, <<"ATA">>} /\ model # Empty THEN vendor \o model ELSE model

\* Mutant: link-local and loopback addresses are reported as well.
RoutableAll(d) == d.addrs

Routable(d) == SelectSeq(d.addrs, LAMBDA a : a \notin Local)

Least(S) == CHOOSE i \in S : \A k \in S : i <= k

\* Of a sequence, the first at one of the indices.
First(good, seq) == IF good = {} THEN Empty ELSE seq[Least(good)]

byIDPrefixes == <<"nvme-eui.", "nvme-", "ata-", "scsi-", "usb-", "mmc-", "virtio-">>
SerialPrefixes == {byIDPrefixes[i] : i \in DOMAIN byIDPrefixes}
WwnPrefixes == {"nvme-eui.", "wwn-"}

\* Links come in the order their names sort.  The first one counts, or the
\* first that says something; links of a device that is gone are passed over.
linksByID(n, prefixes) ==
  LET links  == IF linked[n] = Nobody \/ occupant[n] = Nobody THEN <<>> ELSE linked[n].links
      tails  == [i \in DOMAIN links |-> links[i].tail]
      wanted == {i \in DOMAIN links : links[i].prefix \in prefixes}
      said   == {i \in wanted : meaningful(tails[i])}
  IN  First(IF said = {} THEN wanted ELSE said, tails)

\* The attributes of a row in the order they are read, each with its sources.
Fields(w) == IF w = "nics" THEN <<"mac", "state", "speed", "pci">>
             ELSE <<"size", "model", "serial", "type", "wwn">>
Sources(f) ==
  CASE f = "mac"    -> <<"address">>
    [] f = "state"  -> <<"operstate">>
    [] f = "speed"  -> <<"speed">>
    [] f = "pci"    -> <<"device/uevent", "device">>
    [] f = "size"   -> <<"size">>
    [] f = "model"  -> <<"device/model", "device/name">>
    [] f = "serial" -> <<"device/serial", "serial", "device/vpd_pg80", "by-id",
                         "device/wwid", "wwid", "udevadm">>
    [] f = "type"   -> <<"queue/rotational">>
    [] f = "wwn"    -> <<"wwid", "device/wwid", "by-id">>

Lookup(n, f, file) ==
  CASE file = "by-id" -> IF f = "wwn" THEN wwnByID[n] ELSE byID[n]
    [] file = "udevadm" -> IF opts.useUdev /\ linked[n] # Nobody THEN linked[n].udev ELSE Empty
    [] f = "model" /\ file = "device/model" -> diskModel(n)
    [] OTHER -> File(n, file)

\* Mutant: a placeholder ends the search as well.
EnoughNonEmpty(f, text) == text # Empty

\* Whether a source is the last one that is asked.
Enough(f, text) ==
  IF f \in {"serial", "wwn"} THEN meaningful(text) ELSE text # Empty

\* What a text that was read, or the last of them, makes of the attribute.  Of
\* a world wide name in sysfs the last word is kept.
Value(n, f, file, text) ==
  CASE f = "state" /\ text = Empty -> <<"unknown">>
    [] f \in {"speed", "size"} /\ text \in {Empty, <<"-1">>} -> Zero
    [] f = "type" -> IF n \in NvmeNames THEN <<"nvme">>
                     ELSE IF text = <<"0">> THEN <<"ssd">>
                     ELSE IF text = <<"1">> THEN <<"hdd">> ELSE Empty
    [] f \in {"serial", "wwn"} /\ ~meaningful(text) -> Empty
    [] f = "wwn" /\ file # "by-id" /\ meaningful(text) -> <<text[Len(text)]>>
    [] OTHER -> text

\* Mutant: addresses are kept from one interface to the next.
BlankNICKept(n) ==
  [name |-> <<n>>, mac |-> Empty, speed |-> Zero, state |-> Empty,
   ips |-> IF addrs[n] = <<>> /\ inv.nics # <<>> THEN inv.nics[Len(inv.nics)].ips ELSE addrs[n],
   pci |-> Empty, switch |-> Empty, port |-> Empty]

BlankNIC(n) ==
  [name |-> <<n>>, mac |-> Empty, speed |-> Zero, state |-> Empty, ips |-> addrs[n],
   pci |-> Empty, switch |-> Empty, port |-> Empty]

BlankDisk(n) ==
  [name |-> <<n>>, size |-> Zero, serial |-> Empty, model |-> Empty, type |-> Empty, wwn |-> Empty]

-----------------------------------------------------------------------------
(* The machine. *)

MayFit(n, d) == d.kind = KindOf(n)

\* A name stands for a place in one of the two directories.
ASSUME NamesAssumption ==
  /\ NicNames \in Seq(STRING) /\ DiskNames \in Seq(STRING)
  /\ \A i, k \in DOMAIN NicNames : NicNames[i] = NicNames[k] => i = k
  /\ \A i, k \in DOMAIN DiskNames : DiskNames[i] = DiskNames[k] => i = k
  /\ \A i \in DOMAIN NicNames, k \in DOMAIN DiskNames : NicNames[i] # DiskNames[k]

\* sysfs has an address for every interface, and for every disk how many
\* sectors it has.
ASSUME DeviceAssumption ==
  /\ Nobody \notin Devices
  /\ \A d \in Devices :
       /\ d.kind = "nics" => "address" \in DOMAIN d.files
       /\ d.kind = "disks" => /\ "size" \in DOMAIN d.files
                              /\ d.files["size"] \notin {Empty, <<"-1">>}
       /\ d.links \in Seq([prefix : STRING, tail : Seq(STRING)])
       /\ Routable(d) \in Seq(Addresses)

ASSUME InventoryAssumption ==
  \A here \in AtStart :
    /\ here \in [Names -> Devices \cup {Nobody}]
    /\ \A n \in Names : here[n] # Nobody =>
         MayFit(n, here[n]) /\ \A m \in Names \ {n} : here[m] # here[n]

Init ==
  /\ occupant \in AtStart
  /\ linked = occupant \* baretag.service waits for udev to settle
  /\ changes = 0 /\ touched = {}
  /\ ever = [n \in Names |-> {occupant[n]} \ {Nobody}]
  /\ board \in Boards /\ opts \in Settings /\ fails \in Failures
  /\ pc = "readdir" /\ walk = "nics" /\ todo = {} /\ field = 1 /\ source = 1
  /\ row = <<>>
  /\ addrs = [n \in Names |-> <<>>]
  /\ byID = [n \in Names |-> Empty] /\ wwnByID = [n \in Names |-> Empty]
  /\ inv = [facts |-> <<>>, nics |-> <<>>, disks |-> <<>>]

Unplug(n) ==
  /\ pc # "done" /\ changes < MaxChanges /\ occupant[n] # Nobody
  /\ occupant' = [occupant EXCEPT ![n] = Nobody]
  /\ changes' = changes + 1 /\ touched' = touched \cup {n}
  /\ UNCHANGED <<linked, ever, given, pc, walk, todo, field, source, row, lookups, inv>>

\* Also an interface that is renamed, after it is gone under its old name.
Plug(n) ==
  /\ pc # "done" /\ changes < MaxChanges /\ occupant[n] = Nobody
  /\ \E d \in Devices :
       /\ MayFit(n, d) /\ \A m \in Names : occupant[m] # d
       /\ occupant' = [occupant EXCEPT ![n] = d]
       /\ ever' = [ever EXCEPT ![n] = @ \cup {d}]
  /\ changes' = changes + 1 /\ touched' = touched \cup {n}
  /\ UNCHANGED <<linked, given, pc, walk, todo, field, source, row, lookups, inv>>

Udev(n) ==
  /\ pc # "done" /\ linked[n] # occupant[n]
  /\ linked' = [linked EXCEPT ![n] = occupant[n]]
  /\ UNCHANGED <<occupant, changes, touched, ever, given, pc, walk, todo, field, source, row, lookups, inv>>

-----------------------------------------------------------------------------
(* The collector. *)

\* Without its directory a walk has no rows, and looks nothing else up.
ReadDir ==
  /\ pc = "readdir"
  /\ IF walk \in fails.dirs
     THEN todo' = {} /\ pc' = "entry"
     ELSE /\ todo' = {i \in DOMAIN NamesOf(walk) : occupant[NamesOf(walk)[i]] # Nobody}
          /\ pc' = IF walk = "nics" THEN "addrs" ELSE "links"
  /\ UNCHANGED <<world, given, walk, field, source, row, lookups, inv>>

\* Addresses are kept by name, and were those of whoever had it.  An interface
\* that does not say its addresses has none, like all of them when the kernel
\* does not list them.
InterfaceAddrs ==
  /\ pc = "addrs"
  /\ addrs' = [n \in Names |-> IF occupant[n] = Nobody \/ n \in fails.addrs THEN <<>>
                                ELSE Routable(occupant[n])]
  /\ pc' = "entry"
  /\ UNCHANGED <<world, given, walk, todo, field, source, row, byID, wwnByID, inv>>

LinksByID ==
  /\ pc = "links"
  /\ byID' = [n \in Names |-> linksByID(n, SerialPrefixes)]
  /\ pc' = "wwns"
  /\ UNCHANGED <<world, given, walk, todo, field, source, row, addrs, wwnByID, inv>>

WwnsByID ==
  /\ pc = "wwns"
  /\ wwnByID' = [n \in Names |-> linksByID(n, WwnPrefixes)]
  /\ pc' = "entry"
  /\ UNCHANGED <<world, given, walk, todo, field, source, row, addrs, byID, inv>>

\* An interface without hardware behind it, or a name of a disk that is none.
Passed(n) ==
  IF walk = "nics"
  THEN /\ ~opts.allNICs
       /\ occupant[n] = Nobody \/ "device" \notin DOMAIN occupant[n].files
       /\ n \in Virtual \/ addrs[n] = <<>>
  ELSE ~opts.allDisks /\ n \in Skipped

\* The entry that comes first among those left, and the others.
Current == NamesOf(walk)[Least(todo)]
Others == todo \ {Least(todo)}

NextEntry ==
  /\ pc = "entry" /\ todo # {}
  /\ IF Passed(Current)
     THEN todo' = Others /\ UNCHANGED <<pc, field, source, row>>
     ELSE /\ row' = IF walk = "nics" THEN BlankNIC(Current) ELSE BlankDisk(Current)
          /\ field' = 1 /\ source' = 1 /\ pc' = "read"
          /\ UNCHANGED todo
  /\ UNCHANGED <<world, given, walk, lookups, inv>>

Finish(r) ==
  /\ inv' = [inv EXCEPT ![walk] = Append(@, r)]
  /\ row' = <<>> /\ todo' = Others /\ pc' = "entry"

\* One source of one attribute is read.
ReadAttribute ==
  /\ pc = "read"
  /\ LET n    == Current
         f    == Fields(walk)[field]
         file == Sources(f)[source]
         text == Lookup(n, f, file)
         read == [row EXCEPT ![f] = Value(n, f, file, text)]
     IN  IF ~Enough(f, text) /\ source < Len(Sources(f))
         THEN source' = source + 1 /\ UNCHANGED <<pc, todo, field, row, inv>>
         ELSE /\ source' = 1
              /\ IF f = "size" /\ read.size = Zero /\ ~opts.allDisks
                 THEN \* an empty slot
                      /\ row' = <<>> /\ todo' = Others /\ pc' = "entry"
                      /\ UNCHANGED <<field, inv>>
                 ELSE IF field < Len(Fields(walk))
                 THEN row' = read /\ field' = field + 1 /\ UNCHANGED <<pc, todo, inv>>
                 ELSE Finish(read) /\ UNCHANGED field
  /\ UNCHANGED <<world, given, walk, lookups>>

EndOfWalk ==
  /\ pc = "entry" /\ todo = {}
  /\ IF walk = "nics" THEN walk' = "disks" /\ pc' = "readdir"
                      ELSE pc' = "dmi" /\ UNCHANGED walk
  /\ UNCHANGED <<world, given, todo, field, source, row, lookups, inv>>

-----------------------------------------------------------------------------
(* Facts about the machine as a whole. *)

SerialSources == <<<<"chassis_serial">>, <<"product_serial">>, <<"board_serial">>>>
AssetSources == <<<<"chassis_asset_tag">>, <<"board_asset_tag">>>>
VendorSources == <<<<"sys_vendor">>, <<"product_name">>, <<"board_vendor">>>>

Known(file) == IF file \in DOMAIN board THEN board[file] ELSE Empty
OrEmpty(text) == IF meaningful(text) THEN text ELSE Empty
FirstMeaningful(sources) ==
  First({i \in DOMAIN sources : meaningful(Known(sources[i]))}, sources)

ApplyDMI ==
  /\ pc = "dmi"
  /\ LET serial == FirstMeaningful(SerialSources)
     IN  inv' = [inv EXCEPT !.facts =
           [serial |-> Known(serial), serial_source |-> serial,
            asset_tag |-> Known(FirstMeaningful(AssetSources)),
            vendor |-> OrEmpty(Known(<<"sys_vendor">>)),
            product |-> OrEmpty(Known(<<"product_name">>)),
            uuid |-> OrEmpty(Known(<<"product_uuid">>)),
            bios_version |-> OrEmpty(Known(<<"bios_version">>))]]
  /\ pc' = "system"
  /\ UNCHANGED <<world, given, walk, todo, field, source, row, lookups>>

\* The first of the three DMI names that a hypervisor is known by, unless the
\* kernel says what it runs on.
hypervisor ==
  LET named == First({i \in DOMAIN VendorSources :
                        Known(VendorSources[i]) \in DOMAIN Hypervisors}, VendorSources)
  IN  IF Known(<<"hypervisor/type">>) # Empty THEN Known(<<"hypervisor/type">>)
      ELSE IF named = Empty THEN Empty ELSE Hypervisors[Known(named)]

\* A count of nothing is looked up elsewhere.
cpuCount ==
  IF Known(<<"cpu/present">>) # Empty THEN Known(<<"cpu/present">>)
  ELSE Known(<<"cpuinfo/processors">>)

tpmVersion ==
  IF <<"tpm_version_major">> \in DOMAIN board
  THEN IF Known(<<"tpm_version_major">>) = <<"2">> THEN <<"2.0">> ELSE Known(<<"tpm_version_major">>)
  ELSE IF <<"tpm/device">> \in DOMAIN board THEN <<"1.2">> ELSE Empty

\* A number that is zero is Empty here, as it is on the wire.
ApplySystem ==
  /\ pc = "system"
  /\ inv' = [inv EXCEPT !.facts = @ @@
       [arch |-> <<"x86_64">>, cpus |-> cpuCount,
        cpu_model |-> Known(<<"cpuinfo/model">>), memory |-> Known(<<"meminfo">>),
        firmware |-> IF <<"efi">> \in DOMAIN board THEN <<"uefi">> ELSE <<"bios">>,
        virtual |-> hypervisor, tpm |-> tpmVersion]]
  /\ pc' = "neighbours"
  /\ UNCHANGED <<world, given, walk, todo, field, source, row, lookups>>

\* What Listen returns is the matter of LldpListen: here a neighbour on every
\* link that is up, or none.
ApplyNeighbours ==
  /\ pc = "neighbours"
  /\ LET live == {i \in DOMAIN inv.nics : opts.lldp /\ inv.nics[i].state = <<"up">>}
     IN  \E heard \in SUBSET live : \E said \in [heard -> Neighbours] :
           inv' = [inv EXCEPT !.nics = [i \in DOMAIN @ |->
             IF i \in heard
             THEN [@[i] EXCEPT !.switch = said[i].switch, !.port = said[i].port]
             ELSE @[i]]]
  /\ pc' = "done"
  /\ UNCHANGED <<world, given, walk, todo, field, source, row, lookups>>

Collector ==
  \/ ReadDir \/ InterfaceAddrs \/ LinksByID \/ WwnsByID \/ NextEntry
  \/ ReadAttribute \/ EndOfWalk \/ ApplyDMI \/ ApplySystem \/ ApplyNeighbours

Next == Collector \/ \E n \in Names : Unplug(n) \/ Plug(n) \/ Udev(n)

Spec == Init /\ [][Next]_vars

-----------------------------------------------------------------------------
(* Properties. *)

Rows(n) == {inv.nics[i] : i \in {k \in DOMAIN inv.nics : inv.nics[k].name = <<n>>}}
             \cup {inv.disks[i] : i \in {k \in DOMAIN inv.disks : inv.disks[k].name = <<n>>}}

Texts(d, files) == {d.files[f] : f \in files \cap DOMAIN d.files}
Tails(d, prefixes) == {d.links[i].tail : i \in {k \in DOMAIN d.links : d.links[k].prefix \in prefixes}}
Serials(d) == {t \in Texts(d, {"device/serial", "serial", "device/vpd_pg80"})
                     \cup Tails(d, SerialPrefixes) : meaningful(t)}
WorldWide(d) == {t \in Texts(d, {"wwid", "device/wwid"}) : meaningful(t)}
Udevs(d) == {t \in {d.udev} : opts.useUdev /\ meaningful(t)}

\* A serial that names the drive before one that only tells it from others.
Identified(r, d) ==
  IF Serials(d) # {} THEN r.serial \in Serials(d)
  ELSE IF WorldWide(d) # {} THEN r.serial \in WorldWide(d)
  ELSE IF Udevs(d) # {} THEN r.serial \in Udevs(d) ELSE r.serial = Empty

\* The addresses worth knowing, and what can be learnt of them under a name.
Lasting(d) == SelectSeq(d.addrs, LAMBDA a : a \notin Local)
Learnt(n, d) == IF n \in fails.addrs THEN <<>> ELSE Lasting(d)

Reportable(n, d) ==
  /\ KindOf(n) \notin fails.dirs
  /\ IF KindOf(n) = "nics"
     THEN opts.allNICs \/ "device" \in DOMAIN d.files \/ (n \notin Virtual /\ Learnt(n, d) # <<>>)
     ELSE opts.allDisks \/ (n \notin Skipped /\ d.files["size"] # Zero)

Described(n, r, d) ==
  IF d.kind = "nics"
  THEN r.ips = Learnt(n, d) /\ r.mac = d.files["address"] /\ r.state # Empty
  ELSE r.size = d.files["size"] /\ Identified(r, d)

\* A device that stays where it is for the whole collection is reported as it
\* is, once, whatever comes and goes beside it and whatever the row before it
\* said, with the addresses that are neither link-local nor loopback, or none
\* when they could not be learnt; what is not there, in a directory that could
\* not be read, or not worth a row, has none (disk.go:59-99, nic.go:63-110,
\* 129-155).
UntouchedAsItIs ==
  pc = "done" => \A n \in Names \ touched :
    IF occupant[n] # Nobody /\ Reportable(n, occupant[n])
    THEN Cardinality(Rows(n)) = 1 /\ \A r \in Rows(n) : Described(n, r, occupant[n])
    ELSE Rows(n) = {}

\* A row may mix devices that followed each other under one name, also by a
\* link or an address that was looked up before; it never says anything of a
\* device that was never there (disk.go:66-97, 226).
NoStrangers ==
  \A n \in Names : \A r \in Rows(n) :
    IF KindOf(n) = "nics"
    THEN /\ r.mac = Empty \/ \E d \in ever[n] : r.mac = d.files["address"]
         /\ r.ips = <<>> \/ \E d \in ever[n] : r.ips = Lasting(d)
    ELSE /\ r.size = Zero \/ \E d \in ever[n] : r.size = d.files["size"]
         /\ r.serial = Empty \/ \E d \in ever[n] :
              r.serial \in Serials(d) \cup WorldWide(d) \cup Udevs(d)

\* What minimal leaves out.
Reduced(minimal) ==
  [facts |-> [k \in DOMAIN inv.facts |-> Unless(minimal /\ k \in Descriptive, inv.facts[k])],
   nics  |-> [i \in DOMAIN inv.nics |-> [inv.nics[i] EXCEPT !.pci = Unless(minimal, @)]],
   disks |-> [i \in DOMAIN inv.disks |->
                [inv.disks[i] EXCEPT !.model = Unless(minimal, @), !.wwn = Unless(minimal, @)]]]

\* Whatever was collected, also of devices that went away half read, decodes
\* to itself: no cell moves to the place of another when rows are cut short
\* (wire.go:47-63, 118-197).
DecodedIsCollected ==
  pc = "done" => \A minimal \in BOOLEAN :
    toInventory(toWire(inv, minimal), DOMAIN inv.facts) = Reduced(minimal)
=============================================================================
