----------------------------- MODULE WireFormat -----------------------------
(***************************************************************************)
(* What the QR code carries (internal/payload/wire.go): the facts of the   *)
(* machine under short keys, and a row of cells for every device, read     *)
(* back by position.                                                       *)
(*                                                                         *)
(* A text is a sequence of tokens, <<>> the empty one.  A number is a      *)
(* text as well; a cell says which of the two it holds.                    *)
(***************************************************************************)
EXTENDS Naturals, SequencesExt

Empty == <<>>
Zero == <<"0">>

Cell(type, value) == [type |-> type, value |-> value]

\* An address is never empty, and has no comma in it.
Addresses == {a \in Seq(STRING) : a # Empty /\ \A i \in DOMAIN a : a[i] # ","}

\* strings.Join and strings.Split with a comma.
Joined(texts) ==
  LET upTo[k \in 0..Len(texts)] ==
        IF k = 0 THEN Empty
        ELSE IF k = 1 THEN texts[1] ELSE (upTo[k - 1] \o <<",">>) \o texts[k]
  IN  upTo[Len(texts)]

SplitAtCommas(text) ==
  LET upTo[k \in 0..Len(text)] ==
        IF k = 0 THEN <<Empty>>
        ELSE IF text[k] = "," THEN Append(upTo[k - 1], Empty)
        ELSE [upTo[k - 1] EXCEPT ![Len(upTo[k - 1])] = Append(@, text[k])]
  IN  upTo[Len(text)]

\* A size is an int64, which the code does not look for: a zero one stays.
Blank(cell) == cell \in {Cell("string", Empty), Cell("int", Zero)}

trimTrailing(row) ==
  LET kept == {i \in DOMAIN row : ~Blank(row[i])} \cup {1}
  IN  SubSeq(row, 1, CHOOSE i \in kept : \A k \in kept : k <= i)

Unless(minimal, text) == IF minimal THEN Empty ELSE text

\* Mutant: what is not wanted is removed rather than blanked.
NicRowShorter(nic, minimal) ==
  <<Cell("string", nic.name), Cell("string", nic.mac), Cell("int", nic.speed),
    Cell("string", nic.state), Cell("string", Joined(nic.ips))>>
  \o (IF minimal THEN <<>> ELSE <<Cell("string", nic.pci)>>)
  \o <<Cell("string", nic.switch), Cell("string", nic.port)>>

NicRow(nic, minimal) ==
  <<Cell("string", nic.name), Cell("string", nic.mac), Cell("int", nic.speed),
    Cell("string", nic.state), Cell("string", Joined(nic.ips)),
    Cell("string", Unless(minimal, nic.pci)),
    Cell("string", nic.switch), Cell("string", nic.port)>>

DiskRow(disk, minimal) ==
  <<Cell("string", disk.name), Cell("int64", disk.size), Cell("string", disk.serial),
    Cell("string", Unless(minimal, disk.model)), Cell("string", disk.type),
    Cell("string", Unless(minimal, disk.wwn))>>

\* Facts that describe, rather than identify, the machine.
Descriptive == {"serial_source", "vendor", "product", "uuid", "bios_version", "cpu_model", "tpm"}

\* An empty fact is left out, and reads back as an empty one.
toWire(inv, minimal) ==
  [facts |-> LET sent == {k \in DOMAIN inv.facts :
                            inv.facts[k] # Empty /\ ~(minimal /\ k \in Descriptive)}
             IN  [k \in sent |-> inv.facts[k]],
   n |-> [i \in DOMAIN inv.nics |-> trimTrailing(NicRow(inv.nics[i], minimal))],
   d |-> [i \in DOMAIN inv.disks |-> trimTrailing(DiskRow(inv.disks[i], minimal))]]

\* JSON has one kind of number.
ThroughJSON(row) ==
  [i \in DOMAIN row |-> [row[i] EXCEPT !.type = IF @ = "string" THEN @ ELSE "float64"]]

str(row, i) ==
  IF i \in DOMAIN row /\ row[i].type = "string" THEN row[i].value ELSE Empty
num(row, i) ==
  IF i \in DOMAIN row /\ row[i].type # "string" THEN row[i].value ELSE Zero

toNIC(row) ==
  [name |-> str(row, 1), mac |-> str(row, 2), speed |-> num(row, 3),
   state |-> IF str(row, 4) = Empty THEN <<"unknown">> ELSE str(row, 4),
   ips |-> IF str(row, 5) = Empty THEN <<>> ELSE SplitAtCommas(str(row, 5)), pci |-> str(row, 6),
   switch |-> str(row, 7), port |-> str(row, 8)]

toDisk(row) ==
  [name |-> str(row, 1), size |-> num(row, 2), serial |-> str(row, 3),
   model |-> str(row, 4), type |-> str(row, 5), wwn |-> str(row, 6)]

toInventory(w, keys) ==
  [facts |-> [k \in keys |-> IF k \in DOMAIN w.facts THEN w.facts[k] ELSE Empty],
   nics  |-> [i \in DOMAIN w.n |-> toNIC(ThroughJSON(w.n[i]))],
   disks |-> [i \in DOMAIN w.d |-> toDisk(ThroughJSON(w.d[i]))]]
=============================================================================
