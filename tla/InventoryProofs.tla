-------------------------- MODULE InventoryProofs --------------------------
(***************************************************************************)
(* What the collection says of a machine while its devices come and go,    *)
(* for any names, devices, boards, options and number of changes.          *)
(***************************************************************************)
EXTENDS InventoryCollect, TLAPS, FiniteSetTheorems

-----------------------------------------------------------------------------
(* The first of several. *)

\* A set of numbers has a least one: else the numbers below all of it, which
\* are finitely many, could be mapped to their successors, a one-to-one
\* function that misses 0.
LEMMA LeastElement ==
  ASSUME NEW S \in SUBSET Nat, S # {}
  PROVE  \E m \in S : \A k \in S : m <= k
<1> SUFFICES ASSUME \A m \in S : \E k \in S : k < m PROVE FALSE
  OBVIOUS
<1> DEFINE L == {e \in Nat : \A k \in S : e < k}
           succ == [e \in L |-> e + 1]
<1>1. 0 \in L
  OBVIOUS
<1>2. ASSUME NEW e \in L PROVE e + 1 \in L
  <2>1. e + 1 \notin S
    BY <1>2
  <2>2. QED
    BY <2>1, <1>2
<1>3. IsFiniteSet(L)
  <2>1. PICK s \in S : TRUE
    OBVIOUS
  <2>2. L \in SUBSET Nat /\ \A e \in L : e <= s
    BY <2>1
  <2>3. s \in Nat
    OBVIOUS
  <2> HIDE DEF L
  <2>4. QED
    BY <2>2, <2>3, FS_BoundedSetOfNaturals
<1>4. L \subseteq Nat
  OBVIOUS
<1> HIDE DEF L
<1>5. succ \in Injection(L, L)
  BY <1>2, <1>4 DEF Injection, IsInjective
<1>6. succ \in Surjection(L, L)
  BY <1>3, <1>5, FS_Injection
<1>7. PICK e \in L : succ[e] = 0
  BY <1>1, <1>6 DEF Surjection
<1>8. succ[e] = e + 1 /\ e \in Nat
  BY <1>4
<1> HIDE DEF succ
<1>9. QED
  BY <1>7, <1>8

LEMMA LeastFacts ==
  ASSUME NEW S \in SUBSET Nat, S # {}
  PROVE  Least(S) \in S
  BY LeastElement DEF Least

LEMMA FirstFacts ==
  ASSUME NEW good \in SUBSET Nat, NEW seq
  PROVE  /\ good = {} => First(good, seq) = Empty
         /\ good # {} => \E e \in good : First(good, seq) = seq[e]
  BY LeastFacts DEF First

LEMMA NamesFacts ==
  ASSUME NEW w \in Walks
  PROVE  /\ DOMAIN NamesOf(w) \subseteq Nat
         /\ \A k \in DOMAIN NamesOf(w) : NamesOf(w)[k] \in Names /\ KindOf(NamesOf(w)[k]) = w
         /\ \A j, k \in DOMAIN NamesOf(w) : NamesOf(w)[j] = NamesOf(w)[k] => j = k
<1>1. DOMAIN NicNames \subseteq Nat /\ DOMAIN DiskNames \subseteq Nat
  BY NamesAssumption
<1>2. \A k \in DOMAIN NamesOf(w) : NamesOf(w)[k] \in Names
  BY DEF NamesOf, Names, Walks
<1>3. \A k \in DOMAIN NamesOf(w) : KindOf(NamesOf(w)[k]) = w
  BY NamesAssumption DEF NamesOf, KindOf, Walks
<1>4. QED
  BY <1>1, <1>2, <1>3, NamesAssumption DEF NamesOf, Walks

LEMMA DistinctWalks ==
  ASSUME NEW v \in Walks, NEW w \in Walks, NEW j \in DOMAIN NamesOf(v), NEW k \in DOMAIN NamesOf(w),
         NamesOf(v)[j] = NamesOf(w)[k]
  PROVE  v = w /\ j = k
  BY NamesFacts

-----------------------------------------------------------------------------
(* The shape of a state. *)

NicShape(r) ==
  r = [name |-> r.name, mac |-> r.mac, speed |-> r.speed, state |-> r.state, ips |-> r.ips,
       pci |-> r.pci, switch |-> r.switch, port |-> r.port]
DiskShape(r) ==
  r = [name |-> r.name, size |-> r.size, serial |-> r.serial, model |-> r.model,
       type |-> r.type, wwn |-> r.wwn]
Shaped(w, r) == IF w = "nics" THEN NicShape(r) ELSE DiskShape(r)

Later == {"dmi", "system", "neighbours", "done"}
Labels == {"readdir", "addrs", "links", "wwns", "entry", "read"} \cup Later

RowsShape(w) ==
  /\ \E S : inv[w] \in Seq(S)
  /\ \A k \in DOMAIN inv[w] :
       /\ Shaped(w, inv[w][k])
       /\ \E e \in DOMAIN NamesOf(w) : inv[w][k].name = <<NamesOf(w)[e]>>

ReadShape ==
  /\ todo # {}
  /\ field \in DOMAIN Fields(walk) /\ source \in DOMAIN Sources(Fields(walk)[field])
  /\ Shaped(walk, row) /\ row.name = <<Current>>

Shape ==
  /\ walk \in Walks /\ pc \in Labels
  /\ todo \subseteq DOMAIN NamesOf(walk)
  /\ walk \in fails.dirs => todo = {}
  /\ pc = "addrs" => walk = "nics"
  /\ pc \in {"links", "wwns"} \cup Later => walk = "disks"
  /\ pc \in Later => todo = {}
  /\ pc = "read" => ReadShape
  /\ inv = [facts |-> inv.facts, nics |-> inv.nics, disks |-> inv.disks]
  /\ \A w \in Walks : RowsShape(w)

LEMMA CurrentFacts ==
  ASSUME walk \in Walks, todo \subseteq DOMAIN NamesOf(walk), todo # {}
  PROVE  /\ Least(todo) \in todo /\ Least(todo) \in DOMAIN NamesOf(walk)
         /\ Current = NamesOf(walk)[Least(todo)]
         /\ Current \in Names /\ KindOf(Current) = walk
  BY NamesFacts, LeastFacts DEF Current

LEMMA InitShape == Init => Shape
<1> SUFFICES ASSUME Init PROVE Shape
  OBVIOUS
<1>1. /\ walk = "nics" /\ pc = "readdir" /\ todo = {}
      /\ inv = [facts |-> <<>>, nics |-> <<>>, disks |-> <<>>]
  BY DEF Init
<1>2. <<>> \in Seq({}) /\ DOMAIN <<>> = {}
  OBVIOUS
<1>3. \A w \in Walks : inv[w] = <<>>
  BY <1>1 DEF Walks
<1>4. \A w \in Walks : RowsShape(w)
  BY <1>2, <1>3 DEF RowsShape
<1>5. QED
  BY <1>1, <1>4 DEF Shape, Walks, Labels, Later

\* What is around the collector changes nothing of its own.
LEMMA WorldShape ==
  ASSUME Shape, UNCHANGED <<fails, pc, walk, todo, field, source, row, inv>>
  PROVE  Shape'
  BY DEF Shape, RowsShape, ReadShape, Current

\* Between the entries the rows stay as they are.
LEMMA WalkShape ==
  ASSUME Shape, ReadDir \/ InterfaceAddrs \/ LinksByID \/ WwnsByID \/ EndOfWalk
  PROVE  Shape'
<1>1. UNCHANGED <<inv, fails>> /\ pc' # "read"
  BY DEF ReadDir, InterfaceAddrs, LinksByID, WwnsByID, EndOfWalk, Shape, Walks, given
<1>2. /\ inv' = [facts |-> inv'.facts, nics |-> inv'.nics, disks |-> inv'.disks]
      /\ \A w \in Walks : RowsShape(w)'
  BY <1>1 DEF Shape, RowsShape
<1>3. CASE ReadDir
  <2>1. todo' \subseteq DOMAIN NamesOf(walk')
    BY <1>3 DEF ReadDir
  <2>2. QED
    BY <1>1, <1>2, <1>3, <2>1 DEF ReadDir, Shape, Walks, Labels, Later
<1>4. CASE InterfaceAddrs \/ LinksByID \/ WwnsByID
  BY <1>1, <1>2, <1>4 DEF InterfaceAddrs, LinksByID, WwnsByID, Shape, Walks, Labels, Later
<1>5. CASE EndOfWalk
  BY <1>1, <1>2, <1>5 DEF EndOfWalk, Shape, Walks, Labels, Later
<1>6. QED
  BY <1>3, <1>4, <1>5

LEMMA NextEntryShape ==
  ASSUME Shape, NextEntry
  PROVE  Shape'
<1>1. /\ pc = "entry" /\ todo # {} /\ UNCHANGED <<walk, inv, fails>> /\ walk \in Walks
      /\ todo \subseteq DOMAIN NamesOf(walk)
  BY DEF NextEntry, Shape, given
<1>2. \A w \in Walks : RowsShape(w)'
  BY <1>1 DEF Shape, RowsShape
<1>3. CASE Passed(Current)
  BY <1>1, <1>2, <1>3 DEF NextEntry, Others, Shape, Labels, Later
<1>4. CASE ~Passed(Current)
  <2>1. /\ row' = IF walk = "nics" THEN BlankNIC(Current) ELSE BlankDisk(Current)
        /\ field' = 1 /\ source' = 1 /\ pc' = "read" /\ UNCHANGED todo
    BY <1>4 DEF NextEntry
  <2>2. Shaped(walk, row') /\ row'.name = <<Current>>
    BY <2>1 DEF Shaped, NicShape, DiskShape, BlankNIC, BlankDisk
  <2>3. 1 \in DOMAIN Fields(walk) /\ 1 \in DOMAIN Sources(Fields(walk)[1])
    BY <1>1 DEF Fields, Sources, Walks
  <2>4. ReadShape'
    BY <1>1, <2>1, <2>2, <2>3 DEF ReadShape, Current, Shaped
  <2>5. QED
    BY <1>1, <1>2, <2>1, <2>4 DEF Shape, Labels, Later
<1>5. QED
  BY <1>3, <1>4

-----------------------------------------------------------------------------
(* Reading an attribute: what the row is afterwards, and which of four     *)
(* things happens to it.                                                   *)

Attr == Fields(walk)[field]
From == Sources(Attr)[source]
Text == Lookup(Current, Attr, From)
Read == [row EXCEPT ![Attr] = Value(Current, Attr, From, Text)]

EmptySlot == Attr = "size" /\ Read.size = Zero /\ ~opts.allDisks

Asks == /\ ~Enough(Attr, Text) /\ source < Len(Sources(Attr))
        /\ source' = source + 1 /\ UNCHANGED <<pc, todo, field, row, inv>>
Answers == Enough(Attr, Text) \/ ~(source < Len(Sources(Attr)))
Drops == /\ Answers /\ EmptySlot
         /\ row' = <<>> /\ todo' = Others /\ pc' = "entry" /\ UNCHANGED <<field, inv>>
Continues == /\ Answers /\ ~EmptySlot /\ field < Len(Fields(walk))
             /\ row' = Read /\ field' = field + 1 /\ source' = 1 /\ UNCHANGED <<pc, todo, inv>>
Ends == /\ Answers /\ ~EmptySlot /\ ~(field < Len(Fields(walk)))
        /\ inv' = [inv EXCEPT ![walk] = Append(@, Read)]
        /\ row' = <<>> /\ todo' = Others /\ pc' = "entry" /\ UNCHANGED field

LEMMA ReadCases ==
  ASSUME ReadAttribute
  PROVE  /\ pc = "read" /\ UNCHANGED <<world, given, walk, lookups>>
         /\ Asks \/ Drops \/ Continues \/ Ends
  BY DEF ReadAttribute, Asks, Drops, Continues, Ends, Answers, EmptySlot, Finish,
         Attr, From, Text, Read

\* The attributes, one by one.
NicAttrs == {"mac", "state", "speed", "pci"}
DiskAttrs == {"size", "model", "serial", "type", "wwn"}

LEMMA AttrFacts ==
  ASSUME walk \in Walks, field \in DOMAIN Fields(walk)
  PROVE  /\ field \in Nat
         /\ walk = "nics" =>
              /\ field \in {1, 2, 3, 4}
              /\ field = 1 <=> Attr = "mac"
              /\ field = 2 <=> Attr = "state"
              /\ field = 3 <=> Attr = "speed"
              /\ field = 4 <=> Attr = "pci"
              /\ Attr \in NicAttrs
         /\ walk = "disks" =>
              /\ field \in {1, 2, 3, 4, 5}
              /\ field = 1 <=> Attr = "size"
              /\ field = 2 <=> Attr = "model"
              /\ field = 3 <=> Attr = "serial"
              /\ field = 4 <=> Attr = "type"
              /\ field = 5 <=> Attr = "wwn"
              /\ Attr \in DiskAttrs
         /\ walk = "nics" => Len(Fields(walk)) = 4
         /\ walk = "disks" => Len(Fields(walk)) = 5
<1>1. CASE walk = "nics"
  <2>1. Fields(walk) = <<"mac", "state", "speed", "pci">>
    BY <1>1 DEF Fields
  <2>2. field \in {1, 2, 3, 4}
    BY <2>1
  <2>3. QED
    <3>1. CASE field = 1
      BY <1>1, <2>1, <3>1 DEF Attr, NicAttrs
    <3>2. CASE field = 2
      BY <1>1, <2>1, <3>2 DEF Attr, NicAttrs
    <3>3. CASE field = 3
      BY <1>1, <2>1, <3>3 DEF Attr, NicAttrs
    <3>4. CASE field = 4
      BY <1>1, <2>1, <3>4 DEF Attr, NicAttrs
    <3>5. QED
      BY <2>2, <3>1, <3>2, <3>3, <3>4
<1>2. CASE walk = "disks"
  <2>1. Fields(walk) = <<"size", "model", "serial", "type", "wwn">>
    BY <1>2 DEF Fields
  <2>2. field \in {1, 2, 3, 4, 5}
    BY <2>1
  <2>3. QED
    <3>1. CASE field = 1
      BY <1>2, <2>1, <3>1 DEF Attr, DiskAttrs
    <3>2. CASE field = 2
      BY <1>2, <2>1, <3>2 DEF Attr, DiskAttrs
    <3>3. CASE field = 3
      BY <1>2, <2>1, <3>3 DEF Attr, DiskAttrs
    <3>4. CASE field = 4
      BY <1>2, <2>1, <3>4 DEF Attr, DiskAttrs
    <3>5. CASE field = 5
      BY <1>2, <2>1, <3>5 DEF Attr, DiskAttrs
    <3>6. QED
      BY <2>2, <3>1, <3>2, <3>3, <3>4, <3>5
<1>3. QED
  BY <1>1, <1>2 DEF Walks

LEMMA SourcesFacts ==
  ASSUME NEW f \in NicAttrs \cup DiskAttrs
  PROVE  Len(Sources(f)) \in Nat /\ DOMAIN Sources(f) = 1..Len(Sources(f))
<1>1. CASE f = "mac"
  BY <1>1 DEF Sources
<1>2. CASE f = "state"
  BY <1>2 DEF Sources
<1>3. CASE f = "speed"
  BY <1>3 DEF Sources
<1>4. CASE f = "pci"
  BY <1>4 DEF Sources
<1>5. CASE f = "size"
  BY <1>5 DEF Sources
<1>6. CASE f = "model"
  BY <1>6 DEF Sources
<1>7. CASE f = "serial"
  BY <1>7 DEF Sources
<1>8. CASE f = "type"
  BY <1>8 DEF Sources
<1>9. CASE f = "wwn"
  BY <1>9 DEF Sources
<1>10. QED
  BY <1>1, <1>2, <1>3, <1>4, <1>5, <1>6, <1>7, <1>8, <1>9 DEF NicAttrs, DiskAttrs

LEMMA ReadShaped ==
  ASSUME walk \in Walks, ReadShape
  PROVE  /\ Shaped(walk, Read) /\ Read.name = row.name
         /\ Read[Attr] = Value(Current, Attr, From, Text)
         /\ walk = "nics" =>
              /\ Attr # "mac" => Read.mac = row.mac
              /\ Attr # "state" => Read.state = row.state
              /\ Read.ips = row.ips
         /\ walk = "disks" =>
              /\ Attr # "size" => Read.size = row.size
              /\ Attr # "serial" => Read.serial = row.serial
<1>1. PICK v : v = Value(Current, Attr, From, Text)
  OBVIOUS
<1>2. PICK f : f = Attr
  OBVIOUS
<1>3. Read = [row EXCEPT ![f] = v]
  BY <1>1, <1>2 DEF Read
<1>4. CASE walk = "nics"
  <2>1. NicShape(row)
    BY <1>4 DEF ReadShape, Shaped
  <2>2. f \in NicAttrs
    BY <1>2, <1>4, AttrFacts DEF ReadShape, NicAttrs
  <2>3. PICK r : r = Read
    OBVIOUS
  <2>4. /\ NicShape(r) /\ r.name = row.name /\ r[f] = v /\ r.ips = row.ips
        /\ f # "mac" => r.mac = row.mac
        /\ f # "state" => r.state = row.state
    BY <1>3, <2>1, <2>2, <2>3 DEF NicShape, NicAttrs
  <2>5. QED
    BY <1>1, <1>2, <1>4, <2>3, <2>4 DEF Shaped
<1>5. CASE walk = "disks"
  <2>1. DiskShape(row)
    BY <1>5 DEF ReadShape, Shaped
  <2>2. f \in DiskAttrs
    BY <1>2, <1>5, AttrFacts DEF ReadShape, DiskAttrs
  <2>3. PICK r : r = Read
    OBVIOUS
  <2>4. /\ DiskShape(r) /\ r.name = row.name /\ r[f] = v
        /\ f # "size" => r.size = row.size
        /\ f # "serial" => r.serial = row.serial
    BY <1>3, <2>1, <2>2, <2>3 DEF DiskShape, DiskAttrs
  <2>5. QED
    BY <1>1, <1>2, <1>5, <2>3, <2>4 DEF Shaped
<1>6. QED
  BY <1>4, <1>5 DEF Walks

LEMMA AppendFacts ==
  ASSUME NEW q, \E S : q \in Seq(S), NEW r
  PROVE  /\ \E S : Append(q, r) \in Seq(S)
         /\ DOMAIN Append(q, r) = DOMAIN q \cup {Len(q) + 1} /\ Len(q) + 1 \notin DOMAIN q
         /\ \A k \in DOMAIN q : Append(q, r)[k] = q[k]
         /\ Append(q, r)[Len(q) + 1] = r
<1>1. PICK S : q \in Seq(S)
  OBVIOUS
<1>2. PICK T : T = S \cup {r}
  OBVIOUS
<1>3. q \in Seq(T) /\ r \in T
  BY <1>1, <1>2
<1>4. QED
  BY <1>3

\* What a step that finishes a row makes of the rows.
LEMMA EndsFacts ==
  ASSUME Shape, pc = "read", Ends
  PROVE  /\ inv' = [inv EXCEPT ![walk] = Append(@, Read)]
         /\ inv'[walk] = Append(inv[walk], Read)
         /\ \A w \in Walks \ {walk} : inv'[w] = inv[w]
         /\ inv' = [facts |-> inv'.facts, nics |-> inv'.nics, disks |-> inv'.disks]
         /\ inv'.facts = inv.facts
<1>1. PICK q : q = Append(inv[walk], Read)
  OBVIOUS
<1>2. inv' = [inv EXCEPT ![walk] = q]
  BY <1>1 DEF Ends
<1>3. walk \in Walks /\ inv = [facts |-> inv.facts, nics |-> inv.nics, disks |-> inv.disks]
  BY DEF Shape
<1>4. QED
  BY <1>1, <1>2, <1>3 DEF Walks

LEMMA ReadAttributeShape ==
  ASSUME Shape, ReadAttribute
  PROVE  Shape'
<1>1. /\ pc = "read" /\ UNCHANGED walk /\ walk \in Walks /\ ReadShape
      /\ todo \subseteq DOMAIN NamesOf(walk) /\ todo # {}
      /\ walk \notin fails.dirs /\ UNCHANGED fails
      /\ Asks \/ Drops \/ Continues \/ Ends
  BY ReadCases DEF Shape, ReadShape, given
<1>2. CASE Asks
  <2>1. UNCHANGED <<pc, todo, field, row, inv>> /\ source' = source + 1
        /\ source < Len(Sources(Attr))
    BY <1>2 DEF Asks
  <2>2. source \in DOMAIN Sources(Attr)
    BY <1>1 DEF ReadShape, Attr
  <2>3. Len(Sources(Attr)) \in Nat /\ DOMAIN Sources(Attr) = 1..Len(Sources(Attr))
    <3>1. Attr \in NicAttrs \cup DiskAttrs
      BY <1>1, AttrFacts DEF ReadShape, Walks
    <3>2. QED
      BY <3>1, SourcesFacts
  <2>4. source + 1 \in DOMAIN Sources(Attr)
    BY <2>1, <2>2, <2>3
  <2>5. ReadShape'
    BY <1>1, <2>1, <2>4 DEF ReadShape, Attr, Current, Shaped
  <2>6. QED
    BY <1>1, <2>1, <2>5 DEF Shape, RowsShape
<1>3. CASE Drops
  <2>1. todo' = Others /\ pc' = "entry" /\ UNCHANGED inv
    BY <1>3 DEF Drops
  <2>2. QED
    BY <1>1, <2>1 DEF Shape, RowsShape, Others, Labels, Later
<1>4. CASE Continues
  <2>1. /\ UNCHANGED <<pc, todo, inv>> /\ row' = Read /\ field' = field + 1 /\ source' = 1
        /\ field < Len(Fields(walk))
    BY <1>4 DEF Continues
  <2>2. field + 1 \in DOMAIN Fields(walk)
    BY <1>1, <2>1, AttrFacts DEF ReadShape, Fields, Walks
  <2>3. 1 \in DOMAIN Sources(Fields(walk)[field + 1])
    BY <1>1, <2>2 DEF Fields, Sources, Walks
  <2>4. Shaped(walk, Read) /\ Read.name = <<Current>>
    BY <1>1, ReadShaped DEF ReadShape
  <2>5. ReadShape'
    BY <1>1, <2>1, <2>2, <2>3, <2>4 DEF ReadShape, Current, Shaped
  <2>6. QED
    BY <1>1, <2>1, <2>5 DEF Shape, RowsShape
<1>5. CASE Ends
  <2>1. todo' = Others /\ pc' = "entry"
    BY <1>5 DEF Ends
  <2>2. Shaped(walk, Read) /\ Read.name = <<Current>>
    BY <1>1, ReadShaped DEF ReadShape
  <2>3. PICK e \in DOMAIN NamesOf(walk) : Current = NamesOf(walk)[e]
    BY <1>1, CurrentFacts
  <2>4. PICK r : r = Read
    OBVIOUS
  <2>5. PICK q : q = inv[walk]
    OBVIOUS
  <2>6. RowsShape(walk)
    BY <1>1 DEF Shape
  <2>7. /\ \E S : q \in Seq(S)
        /\ \A k \in DOMAIN q : /\ Shaped(walk, q[k])
                               /\ \E j \in DOMAIN NamesOf(walk) : q[k].name = <<NamesOf(walk)[j]>>
    BY <2>5, <2>6 DEF RowsShape
  <2>8. inv'[walk] = Append(q, r)
    BY <1>1, <1>5, <2>4, <2>5, EndsFacts
  <2>9. /\ \E S : Append(q, r) \in Seq(S)
        /\ DOMAIN Append(q, r) = DOMAIN q \cup {Len(q) + 1}
        /\ \A k \in DOMAIN q : Append(q, r)[k] = q[k]
        /\ Append(q, r)[Len(q) + 1] = r
    BY <2>7, AppendFacts
  <2>10. Shaped(walk, r) /\ r.name = <<NamesOf(walk)[e]>> /\ e \in DOMAIN NamesOf(walk)
    BY <2>2, <2>3, <2>4
  <2>11. \A k \in DOMAIN Append(q, r) :
           /\ Shaped(walk, Append(q, r)[k])
           /\ \E j \in DOMAIN NamesOf(walk) : Append(q, r)[k].name = <<NamesOf(walk)[j]>>
    BY <2>7, <2>9, <2>10
  <2>12. /\ \E S : inv'[walk] \in Seq(S)
         /\ \A k \in DOMAIN inv'[walk] :
           /\ Shaped(walk, inv'[walk][k])
           /\ \E j \in DOMAIN NamesOf(walk) : inv'[walk][k].name = <<NamesOf(walk)[j]>>
    BY <2>8, <2>9, <2>11
  <2>13. RowsShape(walk)'
    BY <1>1, <2>12 DEF RowsShape
  <2>14. ASSUME NEW w \in Walks \ {walk} PROVE RowsShape(w)'
    <3>1. RowsShape(w)
      BY <1>1 DEF Shape
    <3>2. inv'[w] = inv[w]
      BY <1>1, <1>5, EndsFacts
    <3>3. QED
      BY <3>1, <3>2 DEF RowsShape
  <2>15. inv' = [facts |-> inv'.facts, nics |-> inv'.nics, disks |-> inv'.disks]
    BY <1>1, <1>5, EndsFacts
  <2>16. QED
    BY <1>1, <2>1, <2>13, <2>14, <2>15 DEF Shape, Others, Labels, Later
<1>6. QED
  BY <1>1, <1>2, <1>3, <1>4, <1>5

\* The facts are no rows.
LEMMA FactsShape ==
  ASSUME Shape, ApplyDMI \/ ApplySystem
  PROVE  Shape' /\ inv'.nics = inv.nics /\ inv'.disks = inv.disks
<1>1. /\ pc \in {"dmi", "system"} /\ pc' \in {"system", "neighbours"} /\ UNCHANGED <<walk, todo>>
      /\ \E x : inv' = [inv EXCEPT !.facts = x]
  BY DEF ApplyDMI, ApplySystem
<1>2. inv = [facts |-> inv.facts, nics |-> inv.nics, disks |-> inv.disks]
  BY DEF Shape
<1>3. /\ inv' = [facts |-> inv'.facts, nics |-> inv'.nics, disks |-> inv'.disks]
      /\ inv'.nics = inv.nics /\ inv'.disks = inv.disks
  BY <1>1, <1>2
<1>4. \A w \in Walks : inv'[w] = inv[w]
  BY <1>3 DEF Walks
<1>5. \A w \in Walks : RowsShape(w)'
  BY <1>4 DEF Shape, RowsShape
<1>6. QED
  BY <1>1, <1>3, <1>5 DEF Shape, Labels, Later

\* A neighbour adds to a row what a switch said, and nothing else.
LEMMA NeighboursShape ==
  ASSUME Shape, ApplyNeighbours
  PROVE  /\ Shape' /\ inv'.disks = inv.disks /\ DOMAIN inv'.nics = DOMAIN inv.nics
         /\ \A k \in DOMAIN inv.nics :
              /\ inv'.nics[k].name = inv.nics[k].name /\ inv'.nics[k].mac = inv.nics[k].mac
              /\ inv'.nics[k].ips = inv.nics[k].ips /\ inv'.nics[k].state = inv.nics[k].state
<1>1. /\ pc = "neighbours" /\ pc' = "done" /\ UNCHANGED <<walk, todo>>
      /\ inv = [facts |-> inv.facts, nics |-> inv.nics, disks |-> inv.disks]
      /\ RowsShape("nics") /\ RowsShape("disks")
  BY DEF Shape, ApplyNeighbours, Walks
<1> DEFINE Told(heard, said) ==
             inv' = [inv EXCEPT !.nics = [i \in DOMAIN @ |->
               IF i \in heard THEN [@[i] EXCEPT !.switch = said[i].switch, !.port = said[i].port]
               ELSE @[i]]]
<1>2. PICK heard, said : Told(heard, said)
  <2>1. \E heard \in SUBSET {i \in DOMAIN inv.nics : opts.lldp /\ inv.nics[i].state = <<"up">>} :
          \E said \in [heard -> Neighbours] : Told(heard, said)
    BY DEF ApplyNeighbours
  <2> HIDE DEF Told
  <2>2. QED
    BY <2>1
<1>3. PICK q : q = [i \in DOMAIN inv.nics |->
          IF i \in heard THEN [inv.nics[i] EXCEPT !.switch = said[i].switch, !.port = said[i].port]
          ELSE inv.nics[i]]
  OBVIOUS
<1>4. inv' = [inv EXCEPT !.nics = q]
  BY <1>2, <1>3
<1>5. /\ inv'.nics = q /\ inv'.disks = inv.disks
      /\ inv' = [facts |-> inv'.facts, nics |-> inv'.nics, disks |-> inv'.disks]
  BY <1>1, <1>4
<1>6. DOMAIN q = DOMAIN inv.nics
  BY <1>3
<1>7. ASSUME NEW k \in DOMAIN inv.nics
      PROVE  /\ NicShape(q[k]) /\ q[k].name = inv.nics[k].name /\ q[k].mac = inv.nics[k].mac
             /\ q[k].ips = inv.nics[k].ips /\ q[k].state = inv.nics[k].state
  <2>1. PICK r : r = inv.nics[k]
    OBVIOUS
  <2>2. NicShape(r)
    BY <1>1, <2>1 DEF RowsShape, Shaped
  <2>3. PICK x, y : q[k] = r \/ q[k] = [r EXCEPT !.switch = x, !.port = y]
    BY <1>3, <2>1
  <2>4. PICK p : p = q[k]
    OBVIOUS
  <2>5. p = r \/ p = [r EXCEPT !.switch = x, !.port = y]
    BY <2>3, <2>4
  <2>6. /\ NicShape(p) /\ p.name = r.name /\ p.mac = r.mac
        /\ p.ips = r.ips /\ p.state = r.state
    BY <2>2, <2>5 DEF NicShape
  <2>7. QED
    BY <2>1, <2>4, <2>6
<1>8. \E S : q \in Seq(S)
  <2>1. PICK n \in Nat : DOMAIN inv.nics = 1..n
    BY <1>1 DEF RowsShape
  <2>2. q \in Seq({q[k] : k \in DOMAIN q})
    <3>1. PICK T : T = {q[k] : k \in DOMAIN q}
      OBVIOUS
    <3>2. q \in [1..n -> T]
      <4>1. q = [k \in 1..n |-> q[k]]
        BY <1>3, <2>1
      <4>2. \A k \in 1..n : q[k] \in T
        BY <3>1, <4>1
      <4>3. QED
        BY <4>1, <4>2
    <3>3. QED
      BY <3>1, <3>2
  <2>3. QED
    BY <2>2
<1>9. RowsShape("nics")'
  <2>1. \A k \in DOMAIN q : /\ Shaped("nics", q[k])
                            /\ \E e \in DOMAIN NamesOf("nics") : q[k].name = <<NamesOf("nics")[e]>>
    BY <1>1, <1>6, <1>7 DEF RowsShape, Shaped
  <2>2. QED
    BY <1>5, <1>8, <2>1 DEF RowsShape
<1>10. RowsShape("disks")'
  BY <1>1, <1>5 DEF RowsShape
<1>11. Shape'
  BY <1>1, <1>5, <1>9, <1>10 DEF Shape, Walks, Labels, Later
<1>12. QED
  BY <1>5, <1>6, <1>7, <1>11

LEMMA NextShape == Shape /\ [Next]_vars => Shape'
<1> SUFFICES ASSUME Shape, [Next]_vars PROVE Shape'
  OBVIOUS
<1>1. CASE \E n \in Names : Unplug(n) \/ Plug(n) \/ Udev(n)
  BY <1>1, WorldShape DEF Unplug, Plug, Udev, given
<1>2. CASE UNCHANGED vars
  BY <1>2, WorldShape DEF vars, given
<1>3. QED
  BY <1>1, <1>2, WalkShape, NextEntryShape, ReadAttributeShape, FactsShape, NeighboursShape
     DEF Next, Collector

LEMMA AlwaysShape == Spec => []Shape
  BY InitShape, NextShape, PTL DEF Spec

-----------------------------------------------------------------------------
(* Nothing is said of a device that was never there. *)

SeenText(S, use, t) ==
  \E d \in S : t \in Serials(d) \cup WorldWide(d) \cup {u \in {d.udev} : use /\ meaningful(u)}

\* The devices of S are all that a row speaks of.
SeenRow(n, S, use, r) ==
  IF KindOf(n) = "nics"
  THEN /\ r.mac = Empty \/ \E d \in S : r.mac = d.files["address"]
       /\ r.ips = <<>> \/ \E d \in S : r.ips = Routable(d)
  ELSE /\ r.size = Zero \/ \E d \in S : r.size = d.files["size"]
       /\ r.serial = Empty \/ SeenText(S, use, r.serial)

WorldSeen ==
  /\ occupant \in [Names -> Devices \cup {Nobody}] /\ linked \in [Names -> Devices \cup {Nobody}]
  /\ ever \in [Names -> SUBSET Devices]
  /\ \A n \in Names : occupant[n] \in ever[n] \cup {Nobody} /\ linked[n] \in ever[n] \cup {Nobody}

LookupsSeen ==
  \A n \in Names :
    /\ addrs[n] = <<>> \/ \E d \in ever[n] : addrs[n] = Routable(d)
    /\ byID[n] = Empty \/ \E d \in ever[n] : byID[n] \in Tails(d, SerialPrefixes)

ReadSeen == pc = "read" => SeenRow(Current, ever[Current], opts.useUdev, row)
RowsSeen ==
  \A w \in Walks, n \in Names : \A k \in DOMAIN inv[w] :
    inv[w][k].name = <<n>> => SeenRow(n, ever[n], opts.useUdev, inv[w][k])

Seen == WorldSeen /\ LookupsSeen /\ ReadSeen /\ RowsSeen

LEMMA SeenGrows ==
  ASSUME NEW n, NEW S, NEW T, S \subseteq T, NEW use, NEW r, SeenRow(n, S, use, r)
  PROVE  SeenRow(n, T, use, r)
  BY DEF SeenRow, SeenText

\* A row is judged by four of its fields at most.
LEMMA SeenAlike ==
  ASSUME NEW n, NEW S, NEW use, NEW r, NEW q, SeenRow(n, S, use, r),
         KindOf(n) = "nics" => q.mac = r.mac /\ q.ips = r.ips,
         KindOf(n) # "nics" => q.size = r.size /\ q.serial = r.serial
  PROVE  SeenRow(n, S, use, q)
  BY DEF SeenRow

LEMMA InitSeen == Init => Seen
<1> SUFFICES ASSUME Init PROVE Seen
  OBVIOUS
<1>1. /\ occupant \in AtStart /\ linked = occupant /\ ever = [n \in Names |-> {occupant[n]} \ {Nobody}]
      /\ pc = "readdir" /\ inv = [facts |-> <<>>, nics |-> <<>>, disks |-> <<>>]
      /\ addrs = [n \in Names |-> <<>>] /\ byID = [n \in Names |-> Empty]
  BY DEF Init
<1>2. occupant \in [Names -> Devices \cup {Nobody}]
  BY <1>1, InventoryAssumption
<1>3. WorldSeen
  BY <1>1, <1>2 DEF WorldSeen
<1>4. LookupsSeen
  BY <1>1 DEF LookupsSeen
<1>5. \A w \in Walks : inv[w] = <<>> /\ DOMAIN inv[w] = {}
  BY <1>1 DEF Walks
<1>6. QED
  BY <1>1, <1>3, <1>4, <1>5 DEF Seen, ReadSeen, RowsSeen

\* Devices come and go, and what was there once stays remembered.
LEMMA WorldSeenStep ==
  ASSUME WorldSeen, [Next]_vars
  PROVE  /\ WorldSeen' /\ UNCHANGED <<opts, fails>> /\ \A n \in Names : ever[n] \subseteq ever'[n]
<1>1. ASSUME NEW n \in Names, Unplug(n)
      PROVE  /\ WorldSeen' /\ UNCHANGED <<opts, fails>> /\ \A m \in Names : ever[m] \subseteq ever'[m]
  BY <1>1 DEF Unplug, WorldSeen, given
<1>2. ASSUME NEW n \in Names, Plug(n)
      PROVE  /\ WorldSeen' /\ UNCHANGED <<opts, fails>> /\ \A m \in Names : ever[m] \subseteq ever'[m]
  <2>1. PICK d \in Devices : /\ occupant' = [occupant EXCEPT ![n] = d]
                             /\ ever' = [ever EXCEPT ![n] = @ \cup {d}]
    BY <1>2 DEF Plug
  <2>2. UNCHANGED <<linked, opts, fails>>
    BY <1>2 DEF Plug, given
  <2>3. QED
    BY <2>1, <2>2 DEF WorldSeen
<1>3. ASSUME NEW n \in Names, Udev(n)
      PROVE  /\ WorldSeen' /\ UNCHANGED <<opts, fails>> /\ \A m \in Names : ever[m] \subseteq ever'[m]
  BY <1>3 DEF Udev, WorldSeen, given
<1>4. CASE UNCHANGED <<world, given>>
  BY <1>4 DEF WorldSeen, world, given
<1>5. QED
  BY <1>1, <1>2, <1>3, <1>4 DEF Next, Collector, vars, ReadDir, InterfaceAddrs, LinksByID, WwnsByID,
     NextEntry, ReadAttribute, EndOfWalk, ApplyDMI, ApplySystem, ApplyNeighbours

\* The link that counts among those of a device.
LinkOf(links, prefixes) ==
  LET tails  == [i \in DOMAIN links |-> links[i].tail]
      wanted == {i \in DOMAIN links : links[i].prefix \in prefixes}
      said   == {i \in wanted : meaningful(tails[i])}
  IN  First(IF said = {} THEN wanted ELSE said, tails)

LEMMA LinkFacts ==
  ASSUME NEW d \in Devices, NEW prefixes
  PROVE  /\ \/ LinkOf(d.links, prefixes) = Empty
            \/ LinkOf(d.links, prefixes) \in Tails(d, prefixes)
         /\ (\E t \in Tails(d, prefixes) : meaningful(t)) => meaningful(LinkOf(d.links, prefixes))
<1> DEFINE tails == [i \in DOMAIN d.links |-> d.links[i].tail]
           wanted == {i \in DOMAIN d.links : d.links[i].prefix \in prefixes}
           said == {i \in wanted : meaningful(tails[i])}
<1>1. LinkOf(d.links, prefixes) = First(IF said = {} THEN wanted ELSE said, tails)
  BY DEF LinkOf
<1>2. d.links \in Seq([prefix : STRING, tail : Seq(STRING)])
  BY DeviceAssumption
<1>3. DOMAIN d.links \subseteq Nat
  BY <1>2
<1>4. wanted \subseteq Nat /\ said \subseteq Nat /\ said \subseteq wanted
  BY <1>3
<1>5. Tails(d, prefixes) = {tails[i] : i \in wanted}
  BY DEF Tails
<1>6. (\E t \in Tails(d, prefixes) : meaningful(t)) => said # {}
  BY <1>5
<1>7. \A i \in said : meaningful(tails[i])
  OBVIOUS
<1> HIDE DEF tails, wanted, said
<1>8. QED
  BY <1>1, <1>4, <1>5, <1>6, <1>7, FirstFacts

LEMMA NoLinks ==
  ASSUME NEW prefixes
  PROVE  LinkOf(<<>>, prefixes) = Empty
  BY FirstFacts DEF LinkOf

LEMMA LinksFacts ==
  ASSUME NEW n, NEW prefixes
  PROVE  linksByID(n, prefixes) =
           LinkOf(IF linked[n] = Nobody \/ occupant[n] = Nobody THEN <<>> ELSE linked[n].links, prefixes)
  BY DEF linksByID, LinkOf

LEMMA LookupsSeenStep ==
  ASSUME WorldSeen, LookupsSeen, [Next]_vars
  PROVE  LookupsSeen'
<1>1. \A n \in Names : ever[n] \subseteq ever'[n]
  BY WorldSeenStep
<1>2. CASE UNCHANGED <<addrs, byID>>
  BY <1>1, <1>2 DEF LookupsSeen
<1>3. CASE InterfaceAddrs
  <2>1. /\ UNCHANGED <<ever, byID>>
        /\ addrs' = [n \in Names |-> IF occupant[n] = Nobody \/ n \in fails.addrs THEN <<>>
                                      ELSE Routable(occupant[n])]
    BY <1>3 DEF InterfaceAddrs, world
  <2>2. QED
    BY <2>1 DEF LookupsSeen, WorldSeen
<1>4. CASE LinksByID
  <2>1. UNCHANGED <<ever, addrs>> /\ byID' = [n \in Names |-> linksByID(n, SerialPrefixes)]
    BY <1>4 DEF LinksByID, world
  <2>2. ASSUME NEW n \in Names
        PROVE  \/ linksByID(n, SerialPrefixes) = Empty
               \/ \E d \in ever[n] : linksByID(n, SerialPrefixes) \in Tails(d, SerialPrefixes)
    <3>1. CASE linked[n] = Nobody \/ occupant[n] = Nobody
      BY <3>1, LinksFacts, NoLinks
    <3>2. CASE ~(linked[n] = Nobody \/ occupant[n] = Nobody)
      <4>1. linked[n] \in ever[n] /\ linked[n] \in Devices
        BY <3>2 DEF WorldSeen
      <4>2. linksByID(n, SerialPrefixes) = LinkOf(linked[n].links, SerialPrefixes)
        BY <3>2, LinksFacts
      <4>3. QED
        BY <4>1, <4>2, LinkFacts
    <3>3. QED
      BY <3>1, <3>2
  <2>3. QED
    BY <2>1, <2>2 DEF LookupsSeen
<1>5. QED
  BY <1>2, <1>3, <1>4 DEF Next, Collector, vars, lookups, ReadDir, WwnsByID, NextEntry,
     ReadAttribute, EndOfWalk, ApplyDMI, ApplySystem, ApplyNeighbours, Unplug, Plug, Udev

LEMMA ValueFacts ==
  ASSUME NEW n, NEW file, NEW t
  PROVE  /\ Value(n, "mac", file, t) = t
         /\ Value(n, "size", file, t) = IF t \in {Empty, <<"-1">>} THEN Zero ELSE t
         /\ Value(n, "serial", file, t) = IF meaningful(t) THEN t ELSE Empty
         /\ Value(n, "state", file, t) = IF t = Empty THEN <<"unknown">> ELSE t
  BY DEF Value

LEMMA FileFacts ==
  ASSUME WorldSeen, NEW n \in Names, NEW file, File(n, file) # Empty
  PROVE  /\ occupant[n] \in ever[n] /\ file \in DOMAIN occupant[n].files
         /\ File(n, file) = occupant[n].files[file]
  BY DEF File, WorldSeen

\* Every source of a serial speaks of a device that was there.
LEMMA SerialSeen ==
  ASSUME WorldSeen, LookupsSeen, NEW n \in Names, NEW k \in DOMAIN Sources("serial"),
         NEW t, t = Lookup(n, "serial", Sources("serial")[k]), meaningful(t)
  PROVE  SeenText(ever[n], opts.useUdev, t)
<1>1. PICK file : file = Sources("serial")[k]
  OBVIOUS
<1>2. file \in {"device/serial", "serial", "device/vpd_pg80", "by-id", "device/wwid", "wwid", "udevadm"}
  BY <1>1 DEF Sources
<1>3. t # Empty
  BY DEF meaningful
<1>4. CASE file = "by-id"
  <2>1. t = byID[n]
    BY <1>1, <1>4 DEF Lookup
  <2>2. PICK d \in ever[n] : t \in Tails(d, SerialPrefixes)
    BY <1>3, <2>1 DEF LookupsSeen
  <2>3. QED
    BY <2>2 DEF SeenText, Serials
<1>5. CASE file = "udevadm"
  <2>1. opts.useUdev /\ linked[n] # Nobody /\ t = linked[n].udev
    BY <1>1, <1>3, <1>5 DEF Lookup
  <2>2. linked[n] \in ever[n]
    BY <2>1 DEF WorldSeen
  <2>3. QED
    BY <2>1, <2>2 DEF SeenText
<1>6. CASE file \notin {"by-id", "udevadm"}
  <2>1. t = File(n, file)
    BY <1>1, <1>6 DEF Lookup
  <2>2. PICK d : d = occupant[n]
    OBVIOUS
  <2>3. d \in ever[n] /\ file \in DOMAIN d.files /\ t = d.files[file]
    BY <1>3, <2>1, <2>2, FileFacts
  <2>4. t \in Texts(d, {"device/serial", "serial", "device/vpd_pg80"})
        \/ t \in Texts(d, {"wwid", "device/wwid"})
    BY <1>2, <1>6, <2>3 DEF Texts
  <2>5. QED
    BY <2>3, <2>4 DEF SeenText, Serials, WorldWide
<1>7. QED
  BY <1>4, <1>5, <1>6

LEMMA ReadIsSeen ==
  ASSUME Shape, WorldSeen, LookupsSeen, ReadSeen, pc = "read"
  PROVE  SeenRow(Current, ever[Current], opts.useUdev, Read)
<1>1. /\ walk \in Walks /\ ReadShape /\ field \in DOMAIN Fields(walk)
      /\ Current \in Names /\ KindOf(Current) = walk
  BY CurrentFacts DEF Shape, ReadShape
<1>2. SeenRow(Current, ever[Current], opts.useUdev, row)
  BY DEF ReadSeen
<1>3. PICK t : t = Text
  OBVIOUS
<1>4. PICK r : r = Read
  OBVIOUS
<1>5. PICK n : n = Current
  OBVIOUS
<1>6. CASE walk = "nics"
  <2>1. (Attr # "mac" => r.mac = row.mac) /\ r.ips = row.ips
    BY <1>1, <1>4, <1>6, ReadShaped
  <2>2. CASE Attr = "mac"
    <3>1. source \in DOMAIN Sources("mac")
      BY <1>1, <2>2 DEF ReadShape, Attr
    <3>2. From = "address"
      BY <2>2, <3>1 DEF From, Sources
    <3>3. t = File(n, "address")
      BY <1>3, <1>5, <2>2, <3>2 DEF Text, Lookup
    <3>4. r.mac = t
      BY <1>1, <1>3, <1>4, <2>2, ReadShaped, ValueFacts
    <3>5. t = Empty \/ \E d \in ever[n] : t = d.files["address"]
      BY <1>1, <1>5, <3>3, FileFacts
    <3>6. QED
      BY <1>1, <1>2, <1>4, <1>5, <1>6, <2>1, <3>4, <3>5 DEF SeenRow
  <2>3. QED
    BY <1>1, <1>2, <1>4, <1>6, <2>1, <2>2, SeenAlike
<1>7. CASE walk = "disks"
  <2>1. (Attr # "size" => r.size = row.size) /\ (Attr # "serial" => r.serial = row.serial)
    BY <1>1, <1>4, <1>7, ReadShaped
  <2>2. CASE Attr = "size"
    <3>1. source \in DOMAIN Sources("size")
      BY <1>1, <2>2 DEF ReadShape, Attr
    <3>2. From = "size"
      BY <2>2, <3>1 DEF From, Sources
    <3>3. t = File(n, "size")
      BY <1>3, <1>5, <2>2, <3>2 DEF Text, Lookup
    <3>4. r.size = IF t \in {Empty, <<"-1">>} THEN Zero ELSE t
      BY <1>1, <1>3, <1>4, <2>2, ReadShaped, ValueFacts
    <3>5. t = Empty \/ \E d \in ever[n] : t = d.files["size"]
      BY <1>1, <1>5, <3>3, FileFacts
    <3>6. r.size = Zero \/ \E d \in ever[n] : r.size = d.files["size"]
      BY <3>4, <3>5
    <3>7. r.serial = row.serial
      BY <2>1, <2>2
    <3>8. QED
      BY <1>1, <1>2, <1>4, <1>5, <1>7, <3>6, <3>7 DEF SeenRow
  <2>3. CASE Attr = "serial"
    <3>1. source \in DOMAIN Sources("serial")
      BY <1>1, <2>3 DEF ReadShape, Attr
    <3>2. t = Lookup(n, "serial", Sources("serial")[source])
      BY <1>3, <1>5, <2>3 DEF Text, From
    <3>3. r.serial = IF meaningful(t) THEN t ELSE Empty
      BY <1>1, <1>3, <1>4, <2>3, ReadShaped, ValueFacts
    <3>4. r.serial = Empty \/ SeenText(ever[n], opts.useUdev, r.serial)
      BY <1>1, <1>5, <3>1, <3>2, <3>3, SerialSeen
    <3>5. r.size = row.size
      BY <2>1, <2>3
    <3>6. QED
      BY <1>1, <1>2, <1>4, <1>5, <1>7, <3>4, <3>5 DEF SeenRow
  <2>4. QED
    BY <1>1, <1>2, <1>4, <1>7, <2>1, <2>2, <2>3, SeenAlike
<1>8. QED
  BY <1>1, <1>6, <1>7 DEF Walks

\* A row begins with nothing but its name and the addresses of that name.
LEMMA BlankIsSeen ==
  ASSUME LookupsSeen, NEW n \in Names, NEW use
  PROVE  /\ KindOf(n) = "nics" => SeenRow(n, ever[n], use, BlankNIC(n))
         /\ KindOf(n) # "nics" => SeenRow(n, ever[n], use, BlankDisk(n))
  BY DEF SeenRow, BlankNIC, BlankDisk, LookupsSeen

LEMMA ReadSeenStep ==
  ASSUME Shape, WorldSeen, LookupsSeen, ReadSeen, [Next]_vars
  PROVE  ReadSeen'
<1>1. UNCHANGED <<opts, fails>> /\ \A n \in Names : ever[n] \subseteq ever'[n]
  BY WorldSeenStep
<1> SUFFICES ASSUME pc' = "read" PROVE SeenRow(Current', ever'[Current'], opts.useUdev, row')
  BY <1>1 DEF ReadSeen
<1>2. CASE UNCHANGED <<pc, walk, todo, row>>
  <2>1. Current' = Current /\ pc = "read"
    BY <1>2 DEF Current
  <2>2. SeenRow(Current, ever[Current], opts.useUdev, row) /\ Current \in Names
    BY <2>1, CurrentFacts DEF ReadSeen, Shape, ReadShape
  <2>3. QED
    BY <1>1, <1>2, <2>1, <2>2, SeenGrows
<1>3. CASE NextEntry
  <2>1. /\ pc = "entry" /\ todo # {} /\ UNCHANGED <<ever, walk>>
        /\ row' = IF walk = "nics" THEN BlankNIC(Current) ELSE BlankDisk(Current)
        /\ UNCHANGED todo
    BY <1>3 DEF NextEntry, world
  <2>2. Current \in Names /\ KindOf(Current) = walk
    BY <2>1, CurrentFacts DEF Shape
  <2>3. Current' = Current
    BY <2>1 DEF Current
  <2>4. QED
    BY <2>1, <2>2, <2>3, BlankIsSeen
<1>4. CASE ReadAttribute
  <2>1. pc = "read" /\ UNCHANGED <<world, walk>> /\ (Asks \/ Drops \/ Continues \/ Ends)
    BY <1>4, ReadCases
  <2>2. CASE Asks
    BY <1>2, <2>1, <2>2 DEF Asks
  <2>3. CASE Continues
    <3>1. row' = Read /\ UNCHANGED todo
      BY <2>3 DEF Continues
    <3>2. Current' = Current /\ UNCHANGED ever
      BY <2>1, <3>1 DEF Current, world
    <3>3. QED
      BY <2>1, <3>1, <3>2, ReadIsSeen
  <2>4. QED
    BY <2>1, <2>2, <2>3 DEF Drops, Ends
<1>5. CASE UNCHANGED vars \/ \E n \in Names : Unplug(n) \/ Plug(n) \/ Udev(n)
  BY <1>2, <1>5 DEF vars, Unplug, Plug, Udev
<1>6. ASSUME ReadDir \/ InterfaceAddrs \/ LinksByID \/ WwnsByID \/ EndOfWalk
             \/ ApplyDMI \/ ApplySystem \/ ApplyNeighbours
      PROVE  FALSE
  BY <1>6 DEF ReadDir, InterfaceAddrs, LinksByID, WwnsByID, EndOfWalk, ApplyDMI, ApplySystem,
     ApplyNeighbours
<1>7. QED
  BY <1>3, <1>4, <1>5, <1>6 DEF Next, Collector

LEMMA RowsSeenStep ==
  ASSUME Shape, Shape', WorldSeen, LookupsSeen, ReadSeen, RowsSeen, [Next]_vars
  PROVE  RowsSeen'
<1>1. UNCHANGED <<opts, fails>> /\ \A n \in Names : ever[n] \subseteq ever'[n]
  BY WorldSeenStep
<1>2. CASE inv'.nics = inv.nics /\ inv'.disks = inv.disks
  <2>1. \A w \in Walks : inv'[w] = inv[w]
    BY <1>2 DEF Walks
  <2>2. QED
    BY <1>1, <2>1, SeenGrows DEF RowsSeen
<1>3. CASE ReadAttribute
  <2>1. pc = "read" /\ UNCHANGED ever /\ (Asks \/ Drops \/ Continues \/ Ends)
    BY <1>3, ReadCases DEF world
  <2>2. CASE Ends
    <3>1. /\ inv'[walk] = Append(inv[walk], Read)
          /\ \A w \in Walks \ {walk} : inv'[w] = inv[w]
      BY <2>1, <2>2, EndsFacts
    <3>2. Read.name = <<Current>>
      BY <2>1, ReadShaped DEF Shape, ReadShape
    <3>3. SeenRow(Current, ever[Current], opts.useUdev, Read)
      BY <2>1, ReadIsSeen
    <3>4. \E S : inv[walk] \in Seq(S)
      BY DEF Shape, RowsShape
    <3>5. PICK r : r = Read
      OBVIOUS
    <3>6. /\ DOMAIN Append(inv[walk], r) = DOMAIN inv[walk] \cup {Len(inv[walk]) + 1}
          /\ \A k \in DOMAIN inv[walk] : Append(inv[walk], r)[k] = inv[walk][k]
          /\ Append(inv[walk], r)[Len(inv[walk]) + 1] = r
      BY <3>4, AppendFacts
    <3>7. \A n \in Names : r.name = <<n>> => SeenRow(n, ever[n], opts.useUdev, r)
      BY <3>2, <3>3, <3>5
    <3>8. walk \in Walks
      BY DEF Shape
    <3>9. ASSUME NEW w \in Walks, NEW n \in Names, NEW k \in DOMAIN inv'[w], inv'[w][k].name = <<n>>
          PROVE  SeenRow(n, ever[n], opts.useUdev, inv'[w][k])
      <4>1. CASE w # walk
        BY <3>1, <3>9, <4>1 DEF RowsSeen
      <4>2. CASE w = walk
        BY <3>1, <3>5, <3>6, <3>7, <3>8, <3>9, <4>2 DEF RowsSeen
      <4>3. QED
        BY <4>1, <4>2
    <3>10. QED
      BY <1>1, <2>1, <3>9 DEF RowsSeen
  <2>3. CASE ~Ends
    BY <1>2, <2>1, <2>3 DEF Asks, Drops, Continues
  <2>4. QED
    BY <2>2, <2>3
<1>4. CASE ApplyNeighbours
  <2>1. /\ inv'.disks = inv.disks /\ DOMAIN inv'.nics = DOMAIN inv.nics
        /\ \A k \in DOMAIN inv.nics :
             /\ inv'.nics[k].name = inv.nics[k].name /\ inv'.nics[k].mac = inv.nics[k].mac
             /\ inv'.nics[k].ips = inv.nics[k].ips
    BY <1>4, NeighboursShape
  <2>2. UNCHANGED ever
    BY <1>4 DEF ApplyNeighbours, world
  <2>3. ASSUME NEW w \in Walks, NEW n \in Names, NEW k \in DOMAIN inv'[w], inv'[w][k].name = <<n>>
        PROVE  SeenRow(n, ever[n], opts.useUdev, inv'[w][k])
    <3>1. CASE w = "disks"
      BY <2>1, <2>3, <3>1 DEF RowsSeen, Walks
    <3>2. CASE w = "nics"
      <4>1. /\ k \in DOMAIN inv.nics /\ inv.nics[k].name = <<n>>
            /\ inv'[w][k].mac = inv.nics[k].mac /\ inv'[w][k].ips = inv.nics[k].ips
        BY <2>1, <2>3, <3>2
      <4>2. PICK e \in DOMAIN NamesOf("nics") : inv.nics[k].name = <<NamesOf("nics")[e]>>
        BY <4>1 DEF Shape, RowsShape, Walks
      <4>3. KindOf(n) = "nics"
        BY <4>1, <4>2, NamesFacts DEF Walks
      <4>4. SeenRow(n, ever[n], opts.useUdev, inv.nics[k])
        BY <4>1 DEF RowsSeen, Walks
      <4>5. QED
        BY <4>1, <4>3, <4>4, SeenAlike
    <3>3. QED
      BY <3>1, <3>2 DEF Walks
  <2>4. QED
    BY <1>1, <2>2, <2>3 DEF RowsSeen
<1>5. QED
  BY <1>2, <1>3, <1>4, FactsShape DEF Next, Collector, vars, ReadDir, InterfaceAddrs, LinksByID,
     WwnsByID, NextEntry, EndOfWalk, Unplug, Plug, Udev

LEMMA AlwaysSeen == Spec => []Seen
<1>1. Shape /\ Shape' /\ Seen /\ [Next]_vars => Seen'
  BY WorldSeenStep, LookupsSeenStep, ReadSeenStep, RowsSeenStep DEF Seen
<1>2. QED
  BY InitSeen, <1>1, AlwaysShape, PTL DEF Spec

LEMMA LastingFacts == \A d : Lasting(d) = Routable(d)
  BY DEF Lasting, Routable

LEMMA SeenIsNoStranger == Shape /\ Seen => NoStrangers
<1> SUFFICES ASSUME Shape, Seen PROVE NoStrangers
  OBVIOUS
<1>1. ASSUME NEW n \in Names, NEW r \in Rows(n)
      PROVE  SeenRow(n, ever[n], opts.useUdev, r)
  <2>1. PICK w \in Walks : \E k \in DOMAIN inv[w] : r = inv[w][k] /\ inv[w][k].name = <<n>>
    BY DEF Rows, Walks
  <2>2. QED
    BY <2>1 DEF Seen, RowsSeen
<1>2. \A n \in Names : \A r \in Rows(n) : SeenRow(n, ever[n], opts.useUdev, r)
  BY <1>1
<1>3. \A d : {u \in {d.udev} : opts.useUdev /\ meaningful(u)} = Udevs(d)
  BY DEF Udevs
<1>4. QED
  BY <1>2, <1>3, LastingFacts DEF NoStrangers, SeenRow, SeenText

\* A row speaks of devices that were behind its name since the collection
\* began and of no others, also when they follow each other between two files
\* that are read, and the addresses and links were looked up before
\* (disk.go:66-97, 226).
THEOREM RowsSpeakOfWhatWasThere == Spec => []NoStrangers
  BY AlwaysShape, AlwaysSeen, SeenIsNoStranger, PTL

-----------------------------------------------------------------------------
(* What stays where it is, is reported as it is.  Of the world around the  *)
(* collector, what a device makes of its row is a matter of constants.     *)

LearntOf(u, n, d) == IF n \in u.addrs THEN <<>> ELSE Routable(d)

Worth(o, u, n, d) ==
  /\ KindOf(n) \notin u.dirs
  /\ IF KindOf(n) = "nics"
     THEN o.allNICs \/ "device" \in DOMAIN d.files \/ (n \notin Virtual /\ LearntOf(u, n, d) # <<>>)
     ELSE o.allDisks \/ (n \notin Skipped /\ d.files["size"] # Zero)

UdevOf(o, d) == {t \in {d.udev} : o.useUdev /\ meaningful(t)}
Ident(o, serial, d) ==
  IF Serials(d) # {} THEN serial \in Serials(d)
  ELSE IF WorldWide(d) # {} THEN serial \in WorldWide(d)
  ELSE IF UdevOf(o, d) # {} THEN serial \in UdevOf(o, d) ELSE serial = Empty

Desc(o, u, n, r, d) ==
  IF d.kind = "nics"
  THEN r.ips = LearntOf(u, n, d) /\ r.mac = d.files["address"] /\ r.state # Empty
  ELSE r.size = d.files["size"] /\ Ident(o, r.serial, d)

\* What a source of the serial says of a device that is there and linked.
Says(o, d, file) ==
  IF file = "by-id" THEN LinkOf(d.links, SerialPrefixes)
  ELSE IF file = "udevadm" THEN IF o.useUdev THEN d.udev ELSE Empty
  ELSE IF file \in DOMAIN d.files THEN d.files[file] ELSE Empty

\* The sources before s say nothing.
Ruled(o, d, s) ==
  \A j \in DOMAIN Sources("serial") : j < s => ~meaningful(Says(o, d, Sources("serial")[j]))

LEMMA SerialSources7 ==
  /\ DOMAIN Sources("serial") = 1..7
  /\ Sources("serial")[1] = "device/serial" /\ Sources("serial")[2] = "serial"
  /\ Sources("serial")[3] = "device/vpd_pg80" /\ Sources("serial")[4] = "by-id"
  /\ Sources("serial")[5] = "device/wwid" /\ Sources("serial")[6] = "wwid"
  /\ Sources("serial")[7] = "udevadm"
  BY DEF Sources

\* Four sources without a serial: the device has none.
LEMMA NoSerials ==
  ASSUME NEW o, NEW d \in Devices, NEW s \in Nat, s > 4, Ruled(o, d, s)
  PROVE  Serials(d) = {}
<1>1. ASSUME NEW t \in Texts(d, {"device/serial", "serial", "device/vpd_pg80"}) PROVE ~meaningful(t)
  <2>1. PICK file \in {"device/serial", "serial", "device/vpd_pg80"} :
          file \in DOMAIN d.files /\ t = d.files[file]
    BY <1>1 DEF Texts
  <2>2. t = Says(o, d, file)
    BY <2>1 DEF Says
  <2>3. PICK j \in {1, 2, 3} : file = Sources("serial")[j]
    BY SerialSources7
  <2>4. QED
    BY <2>2, <2>3, SerialSources7 DEF Ruled
<1>2. ~meaningful(LinkOf(d.links, SerialPrefixes))
  <2>1. Says(o, d, Sources("serial")[4]) = LinkOf(d.links, SerialPrefixes)
    BY SerialSources7 DEF Says
  <2>2. QED
    BY <2>1, SerialSources7 DEF Ruled
<1>3. \A t \in Tails(d, SerialPrefixes) : ~meaningful(t)
  BY <1>2, LinkFacts
<1>4. QED
  BY <1>1, <1>3 DEF Serials

LEMMA NoWorldWide ==
  ASSUME NEW o, NEW d \in Devices, NEW s \in Nat, s > 6, Ruled(o, d, s)
  PROVE  WorldWide(d) = {}
<1>1. ASSUME NEW t \in Texts(d, {"wwid", "device/wwid"}) PROVE ~meaningful(t)
  <2>1. PICK file \in {"wwid", "device/wwid"} : file \in DOMAIN d.files /\ t = d.files[file]
    BY <1>1 DEF Texts
  <2>2. t = Says(o, d, file)
    BY <2>1 DEF Says
  <2>3. PICK j \in {5, 6} : file = Sources("serial")[j]
    BY SerialSources7
  <2>4. QED
    BY <2>2, <2>3, SerialSources7 DEF Ruled
<1>2. QED
  BY <1>1 DEF WorldWide

\* The first source that says something gives the best serial there is.
LEMMA FirstIdentifies ==
  ASSUME NEW o, NEW d \in Devices, NEW s \in DOMAIN Sources("serial"), Ruled(o, d, s),
         NEW t, t = Says(o, d, Sources("serial")[s]), meaningful(t)
  PROVE  Ident(o, t, d)
<1>1. t # Empty
  BY DEF meaningful
<1>2. PICK file : file = Sources("serial")[s]
  OBVIOUS
<1>3. s \in 1..7
  BY SerialSources7
<1>4. CASE s \in {1, 2, 3}
  <2>1. file \in {"device/serial", "serial", "device/vpd_pg80"}
    BY <1>2, <1>4, SerialSources7
  <2>2. file \in DOMAIN d.files /\ t = d.files[file]
    BY <1>1, <1>2, <2>1 DEF Says
  <2>3. t \in Serials(d)
    BY <2>1, <2>2 DEF Serials, Texts
  <2>4. QED
    BY <2>3 DEF Ident
<1>5. CASE s = 4
  <2>1. t = LinkOf(d.links, SerialPrefixes)
    BY <1>5, SerialSources7 DEF Says
  <2>2. t \in Serials(d)
    BY <1>1, <2>1, LinkFacts DEF Serials
  <2>3. QED
    BY <2>2 DEF Ident
<1>6. CASE s \in {5, 6}
  <2>1. file \in {"wwid", "device/wwid"}
    BY <1>2, <1>6, SerialSources7
  <2>2. file \in DOMAIN d.files /\ t = d.files[file]
    BY <1>1, <1>2, <2>1 DEF Says
  <2>3. t \in WorldWide(d)
    BY <2>1, <2>2 DEF WorldWide, Texts
  <2>4. Serials(d) = {}
    BY <1>6, NoSerials
  <2>5. QED
    BY <2>3, <2>4 DEF Ident
<1>7. CASE s = 7
  <2>1. o.useUdev /\ t = d.udev
    BY <1>1, <1>7, SerialSources7 DEF Says
  <2>2. t \in UdevOf(o, d)
    BY <2>1 DEF UdevOf
  <2>3. Serials(d) = {} /\ WorldWide(d) = {}
    BY <1>7, NoSerials, NoWorldWide
  <2>4. QED
    BY <2>2, <2>3 DEF Ident
<1>8. QED
  BY <1>3, <1>4, <1>5, <1>6, <1>7

\* When none of them does, there is none.
LEMMA NoneIdentifies ==
  ASSUME NEW o, NEW d \in Devices, Ruled(o, d, 8)
  PROVE  Ident(o, Empty, d)
<1>1. Serials(d) = {} /\ WorldWide(d) = {}
  BY NoSerials, NoWorldWide
<1>2. ~meaningful(Says(o, d, "udevadm"))
  BY SerialSources7 DEF Ruled
<1>3. UdevOf(o, d) = {}
  BY <1>2 DEF UdevOf, Says
<1>4. QED
  BY <1>1, <1>3 DEF Ident

-----------------------------------------------------------------------------
(* The names under which nothing came or went.  *)

Still == Names \ touched

Stays ==
  /\ \A n \in Still : linked[n] = occupant[n]
  /\ \A n \in Names : occupant[n] # Nobody => occupant[n].kind = KindOf(n)

AddrsOf(u, n, d) == IF d = Nobody THEN <<>> ELSE LearntOf(u, n, d)
SerialLink(d) == IF d = Nobody THEN Empty ELSE LinkOf(d.links, SerialPrefixes)

AddrsLooked == ~(walk = "nics" /\ pc \in {"readdir", "addrs"})
LinksLooked == walk = "disks" /\ pc \notin {"readdir", "links"}

Looked ==
  \A n \in Still :
    /\ AddrsLooked /\ "nics" \notin fails.dirs => addrs[n] = AddrsOf(fails, n, occupant[n])
    /\ LinksLooked /\ "disks" \notin fails.dirs => byID[n] = SerialLink(occupant[n])

LEMMA InitStays == Init => Stays /\ Looked
<1> SUFFICES ASSUME Init PROVE Stays /\ Looked
  OBVIOUS
<1>1. occupant \in AtStart /\ linked = occupant /\ pc = "readdir" /\ walk = "nics"
  BY DEF Init
<1>2. \A n \in Names : occupant[n] # Nobody => MayFit(n, occupant[n])
  BY <1>1, InventoryAssumption
<1>3. QED
  BY <1>1, <1>2 DEF Stays, Still, MayFit, Looked, AddrsLooked, LinksLooked

LEMMA StaysStep ==
  ASSUME WorldSeen, Stays, [Next]_vars
  PROVE  /\ Stays' /\ Still' \subseteq Still
         /\ \A n \in Still' : occupant'[n] = occupant[n] /\ linked'[n] = linked[n]
<1>1. ASSUME NEW n \in Names, Unplug(n)
      PROVE  /\ Stays' /\ Still' \subseteq Still
             /\ \A m \in Still' : occupant'[m] = occupant[m] /\ linked'[m] = linked[m]
  <2>1. occupant' = [occupant EXCEPT ![n] = Nobody] /\ touched' = touched \cup {n} /\ UNCHANGED linked
    BY <1>1 DEF Unplug
  <2>2. QED
    BY <2>1 DEF WorldSeen, Stays, Still
<1>2. ASSUME NEW n \in Names, Plug(n)
      PROVE  /\ Stays' /\ Still' \subseteq Still
             /\ \A m \in Still' : occupant'[m] = occupant[m] /\ linked'[m] = linked[m]
  <2>1. PICK d \in Devices : occupant' = [occupant EXCEPT ![n] = d] /\ MayFit(n, d)
    BY <1>2 DEF Plug
  <2>2. touched' = touched \cup {n} /\ UNCHANGED linked
    BY <1>2 DEF Plug
  <2>3. QED
    BY <2>1, <2>2 DEF WorldSeen, Stays, Still, MayFit
<1>3. ASSUME NEW n \in Names, Udev(n)
      PROVE  /\ Stays' /\ Still' \subseteq Still
             /\ \A m \in Still' : occupant'[m] = occupant[m] /\ linked'[m] = linked[m]
  <2>1. /\ linked[n] # occupant[n] /\ linked' = [linked EXCEPT ![n] = occupant[n]]
        /\ UNCHANGED <<occupant, touched>>
    BY <1>3 DEF Udev
  <2>2. QED
    BY <2>1 DEF WorldSeen, Stays, Still
<1>4. CASE UNCHANGED world
  BY <1>4 DEF Stays, Still, world
<1>5. QED
  BY <1>1, <1>2, <1>3, <1>4 DEF Next, Collector, vars, ReadDir, InterfaceAddrs, LinksByID, WwnsByID,
     NextEntry, ReadAttribute, EndOfWalk, ApplyDMI, ApplySystem, ApplyNeighbours

LEMMA LookedStep ==
  ASSUME Shape, WorldSeen, Stays, Looked, [Next]_vars
  PROVE  Looked'
<1>1. /\ Still' \subseteq Still /\ Still \subseteq Names
      /\ \A n \in Still' : occupant'[n] = occupant[n]
      /\ UNCHANGED fails
  BY StaysStep, WorldSeenStep DEF Still
<1>2. CASE UNCHANGED <<addrs, byID>> /\ (AddrsLooked' => AddrsLooked) /\ (LinksLooked' => LinksLooked)
  BY <1>1, <1>2 DEF Looked
<1>3. CASE InterfaceAddrs
  <2>1. /\ addrs' = [n \in Names |-> IF occupant[n] = Nobody \/ n \in fails.addrs THEN <<>>
                                      ELSE Routable(occupant[n])]
        /\ walk' = "nics"
    BY <1>3 DEF InterfaceAddrs, Shape
  <2>2. QED
    BY <1>1, <2>1 DEF Looked, LinksLooked, AddrsOf, LearntOf
<1>4. CASE LinksByID
  <2>1. /\ byID' = [n \in Names |-> linksByID(n, SerialPrefixes)] /\ UNCHANGED addrs
        /\ walk = "disks"
    BY <1>4 DEF LinksByID, Shape
  <2>2. ASSUME NEW n \in Still PROVE linksByID(n, SerialPrefixes) = SerialLink(occupant[n])
    <3>1. linked[n] = occupant[n]
      BY DEF Stays
    <3>2. QED
      BY <3>1, LinksFacts, NoLinks DEF SerialLink
  <2>3. "nics" \notin fails.dirs => \A n \in Still : addrs[n] = AddrsOf(fails, n, occupant[n])
    BY <2>1 DEF Looked, AddrsLooked
  <2>4. QED
    BY <1>1, <2>1, <2>2, <2>3 DEF Looked
<1>10. CASE ReadDir
  <2>1. pc = "readdir" /\ UNCHANGED <<walk, addrs, byID>>
    BY <1>10 DEF ReadDir, lookups
  <2>2. CASE walk \in fails.dirs
    BY <1>1, <2>1, <2>2 DEF Looked, AddrsLooked, LinksLooked
  <2>3. CASE walk \notin fails.dirs
    <3>1. (AddrsLooked' => AddrsLooked) /\ (LinksLooked' => LinksLooked)
      BY <1>10, <2>1, <2>3 DEF ReadDir, AddrsLooked, LinksLooked, Shape, Walks
    <3>2. QED
      BY <1>2, <2>1, <3>1
  <2>4. QED
    BY <2>2, <2>3
<1>5. CASE WwnsByID \/ EndOfWalk
  BY <1>2, <1>5 DEF WwnsByID, EndOfWalk, AddrsLooked, LinksLooked, Shape, Walks, lookups
<1>6. CASE NextEntry \/ ReadAttribute
  <2>1. pc \in {"entry", "read"} /\ pc' \in {"entry", "read"} /\ UNCHANGED <<walk, lookups>>
    BY <1>6, ReadCases DEF NextEntry, Asks, Drops, Continues, Ends
  <2>2. QED
    BY <1>2, <2>1 DEF AddrsLooked, LinksLooked, lookups
<1>7. CASE ApplyDMI \/ ApplySystem \/ ApplyNeighbours
  BY <1>2, <1>7 DEF ApplyDMI, ApplySystem, ApplyNeighbours, AddrsLooked, LinksLooked, lookups
<1>8. CASE UNCHANGED vars \/ \E n \in Names : Unplug(n) \/ Plug(n) \/ Udev(n)
  BY <1>2, <1>8 DEF vars, Unplug, Plug, Udev, AddrsLooked, LinksLooked, lookups
<1>9. QED
  BY <1>3, <1>4, <1>5, <1>6, <1>7, <1>8, <1>10 DEF Next, Collector

-----------------------------------------------------------------------------
(* The row of a device that stays where it is.                             *)

\* How far a row has come before attribute f is read from source s.
RowKept(o, u, n, d, f, s, r) ==
  IF KindOf(n) = "nics"
  THEN /\ Worth(o, u, n, d) /\ r.ips = LearntOf(u, n, d)
       /\ f > 1 => r.mac = d.files["address"]
       /\ f > 2 => r.state # Empty
  ELSE /\ o.allDisks \/ n \notin Skipped
       /\ f > 1 => Worth(o, u, n, d) /\ r.size = d.files["size"]
       /\ f = 3 => Ruled(o, d, s)
       /\ f > 3 => Ident(o, r.serial, d)

ReadKept ==
  pc = "read" /\ Current \in Still =>
    RowKept(opts, fails, Current, occupant[Current], field, source, row)

NoRow(rows, n) == \A k \in DOMAIN rows : rows[k].name # <<n>>
OneRow(o, u, rows, n, d) ==
  \E k \in DOMAIN rows :
    /\ rows[k].name = <<n>> /\ Desc(o, u, n, rows[k], d)
    /\ \A j \in DOMAIN rows : rows[j].name = <<n>> => j = k

\* What is to be said of a device in the end.
Accounted(o, u, n, d, rows) ==
  IF d # Nobody /\ Worth(o, u, n, d) THEN OneRow(o, u, rows, n, d) ELSE NoRow(rows, n)

Waiting(w) == (w = walk /\ pc = "readdir") \/ (w = "disks" /\ walk = "nics")
Pending(w, e) == w = walk /\ e \in todo /\ pc # "readdir"

\* A device has no row before it is its turn.
Accounts ==
  \A w \in Walks : \A e \in DOMAIN NamesOf(w) :
    NamesOf(w)[e] \in Still =>
      /\ Waiting(w) => NoRow(inv[w], NamesOf(w)[e])
      /\ Pending(w, e) => NoRow(inv[w], NamesOf(w)[e]) /\ occupant[NamesOf(w)[e]] # Nobody
      /\ ~Waiting(w) /\ ~Pending(w, e) =>
           Accounted(opts, fails, NamesOf(w)[e], occupant[NamesOf(w)[e]], inv[w])

Kept == Stays /\ Looked /\ ReadKept /\ Accounts

\* The entry whose turn it is, when nothing came or went under its name.
LEMMA TurnFacts ==
  ASSUME Shape, WorldSeen, Kept, pc \in {"entry", "read"}, todo # {}, Current \in Still
  PROVE  /\ walk \in Walks /\ Current \in Names /\ KindOf(Current) = walk
         /\ occupant[Current] \in Devices /\ occupant[Current] # Nobody
         /\ occupant[Current].kind = walk
         /\ linked[Current] = occupant[Current]
         /\ walk \notin fails.dirs
         /\ walk = "nics" => addrs[Current] = LearntOf(fails, Current, occupant[Current])
         /\ walk = "disks" => byID[Current] = LinkOf(occupant[Current].links, SerialPrefixes)
         /\ NoRow(inv[walk], Current)
<1>1. /\ walk \in Walks /\ Current \in Names /\ KindOf(Current) = walk
      /\ Least(todo) \in todo /\ Least(todo) \in DOMAIN NamesOf(walk)
      /\ Current = NamesOf(walk)[Least(todo)]
  BY CurrentFacts DEF Shape
<1>2. Pending(walk, Least(todo))
  BY <1>1 DEF Pending
<1>3. occupant[Current] # Nobody
  BY <1>1, <1>2 DEF Kept, Accounts
<1>4. NoRow(inv[walk], Current)
  BY <1>1, <1>2 DEF Kept, Accounts
<1>5. occupant[Current] \in Devices
  BY <1>1, <1>3 DEF WorldSeen
<1>6. occupant[Current].kind = walk /\ linked[Current] = occupant[Current]
  BY <1>1, <1>3 DEF Kept, Stays
<1>7. AddrsLooked /\ (walk = "disks" => LinksLooked)
  BY DEF AddrsLooked, LinksLooked
<1>10. walk \notin fails.dirs
  BY DEF Shape
<1>8. /\ walk = "nics" => addrs[Current] = AddrsOf(fails, Current, occupant[Current])
      /\ (walk = "disks" => byID[Current] = SerialLink(occupant[Current]))
  BY <1>7, <1>10 DEF Kept, Looked
<1>9. QED
  BY <1>1, <1>3, <1>4, <1>5, <1>6, <1>8, <1>10 DEF AddrsOf, SerialLink

\* An entry is passed over only when it is not worth a row.
LEMMA PassedFacts ==
  ASSUME Shape, WorldSeen, Kept, pc = "entry", todo # {}, Current \in Still
  PROVE  /\ Passed(Current) => ~Worth(opts, fails, Current, occupant[Current])
         /\ ~Passed(Current) =>
              RowKept(opts, fails, Current, occupant[Current], 1, 1,
                      IF walk = "nics" THEN BlankNIC(Current) ELSE BlankDisk(Current))
<1>1. /\ walk \in Walks /\ KindOf(Current) = walk /\ occupant[Current] # Nobody
      /\ walk \notin fails.dirs
      /\ walk = "nics" => addrs[Current] = LearntOf(fails, Current, occupant[Current])
  BY TurnFacts
<1>2. CASE walk = "nics"
  BY <1>1, <1>2 DEF Passed, Worth, RowKept, BlankNIC
<1>3. CASE walk = "disks"
  BY <1>1, <1>3 DEF Passed, Worth, RowKept, BlankDisk
<1>4. QED
  BY <1>1, <1>2, <1>3 DEF Walks

LEMMA NicAnswer ==
  ASSUME Shape, WorldSeen, Kept, pc = "read", Current \in Still, walk = "nics",
         NEW d, d = occupant[Current]
  PROVE  RowKept(opts, fails, Current, d, field + 1, 1, Read)
<1>1. ReadShape /\ todo # {} /\ field \in DOMAIN Fields(walk)
  BY DEF Shape, ReadShape
<1>2. /\ KindOf(Current) = "nics" /\ Current \in Names /\ d \in Devices /\ d # Nobody /\ d.kind = "nics"
  BY <1>1, TurnFacts
<1>3. RowKept(opts, fails, Current, d, field, source, row)
  BY DEF Kept, ReadKept
<1>4. PICK r : r = Read
  OBVIOUS
<1>5. PICK f : f = field
  OBVIOUS
<1>6. /\ f \in {1, 2, 3, 4} /\ (f = 1 <=> Attr = "mac") /\ (f = 2 <=> Attr = "state")
  BY <1>1, <1>5, AttrFacts DEF Walks
<1>7. /\ r.ips = row.ips /\ (Attr # "mac" => r.mac = row.mac) /\ (Attr # "state" => r.state = row.state)
  BY <1>1, <1>4, ReadShaped DEF Walks
<1>8. CASE Attr = "mac"
  <2>1. source \in DOMAIN Sources("mac")
    BY <1>1, <1>8 DEF ReadShape, Attr
  <2>2. From = "address"
    BY <1>8, <2>1 DEF From, Sources
  <2>3. Text = File(Current, "address")
    BY <1>8, <2>2 DEF Text, Lookup
  <2>4. "address" \in DOMAIN d.files
    BY <1>2, DeviceAssumption
  <2>5. Text = d.files["address"]
    BY <1>2, <2>3, <2>4 DEF File
  <2>6. r.mac = Text
    BY <1>1, <1>4, <1>8, ReadShaped, ValueFacts DEF Walks
  <2>7. QED
    BY <1>2, <1>3, <1>4, <1>5, <1>6, <1>7, <1>8, <2>5, <2>6 DEF RowKept
<1>9. CASE Attr = "state"
  <2>1. r.state = IF Text = Empty THEN <<"unknown">> ELSE Text
    BY <1>1, <1>4, <1>9, ReadShaped, ValueFacts DEF Walks
  <2>2. <<"unknown">> # Empty
    BY DEF Empty
  <2>3. r.state # Empty
    BY <2>1, <2>2
  <2>4. QED
    BY <1>2, <1>3, <1>4, <1>5, <1>6, <1>7, <1>9, <2>3 DEF RowKept
<1>10. CASE Attr \notin {"mac", "state"}
  BY <1>2, <1>3, <1>4, <1>5, <1>6, <1>7, <1>10 DEF RowKept
<1>11. QED
  BY <1>8, <1>9, <1>10

\* What is read of a device that stays, is what it says.
LEMMA SaysFacts ==
  ASSUME Shape, WorldSeen, Kept, pc = "read", Current \in Still, walk = "disks", NEW file
  PROVE  Lookup(Current, "serial", file) = Says(opts, occupant[Current], file)
<1>1. todo # {}
  BY DEF Shape, ReadShape
<1>2. PICK d : d = occupant[Current]
  OBVIOUS
<1>3. /\ d # Nobody /\ linked[Current] = d
      /\ byID[Current] = LinkOf(d.links, SerialPrefixes)
  BY <1>1, <1>2, TurnFacts
<1>4. File(Current, file) = IF file \in DOMAIN d.files THEN d.files[file] ELSE Empty
  BY <1>2, <1>3 DEF File
<1>5. CASE file = "by-id"
  BY <1>2, <1>3, <1>5 DEF Lookup, Says
<1>6. CASE file = "udevadm"
  BY <1>2, <1>3, <1>6 DEF Lookup, Says
<1>7. CASE file \notin {"by-id", "udevadm"}
  BY <1>2, <1>4, <1>7 DEF Lookup, Says
<1>8. QED
  BY <1>5, <1>6, <1>7

LEMMA SerialAnswer ==
  ASSUME Shape, WorldSeen, Kept, pc = "read", Current \in Still, walk = "disks",
         Attr = "serial", NEW d, d = occupant[Current]
  PROVE  /\ source \in 1..7 /\ Ruled(opts, d, source)
         /\ ~Enough(Attr, Text) => Ruled(opts, d, source + 1)
         /\ Answers => Ident(opts, Read.serial, d)
<1>1. ReadShape /\ todo # {} /\ field \in DOMAIN Fields(walk)
  BY DEF Shape, ReadShape
<1>2. KindOf(Current) = "disks" /\ d \in Devices
  BY <1>1, TurnFacts
<1>3. field = 3
  BY <1>1, AttrFacts DEF Walks
<1>4. Ruled(opts, d, source)
  BY <1>2, <1>3 DEF Kept, ReadKept, RowKept
<1>5. source \in DOMAIN Sources("serial") /\ source \in 1..7
  BY <1>1, SerialSources7 DEF ReadShape, Attr
<1>6. PICK t : t = Text
  OBVIOUS
<1>7. t = Says(opts, d, Sources("serial")[source])
  BY <1>6, SaysFacts DEF Text, From
<1>8. Enough(Attr, Text) = meaningful(t)
  BY <1>6 DEF Enough
<1>9. ~meaningful(t) => Ruled(opts, d, source + 1)
  <2>1. ASSUME ~meaningful(t), NEW j \in DOMAIN Sources("serial"), j < source + 1
        PROVE  ~meaningful(Says(opts, d, Sources("serial")[j]))
    <3>1. j \in 1..7
      BY SerialSources7
    <3>2. CASE j = source
      BY <1>7, <2>1, <3>2
    <3>3. CASE j < source
      BY <1>4, <3>3 DEF Ruled
    <3>4. QED
      BY <1>5, <2>1, <3>1, <3>2, <3>3
  <2>2. QED
    BY <2>1 DEF Ruled
<1>10. Read.serial = IF meaningful(t) THEN t ELSE Empty
  BY <1>1, <1>6, ReadShaped, ValueFacts DEF Walks
<1>11. ASSUME Answers PROVE Ident(opts, Read.serial, d)
  <2>1. CASE meaningful(t)
    BY <1>2, <1>4, <1>5, <1>7, <1>10, <2>1, FirstIdentifies
  <2>2. CASE ~meaningful(t)
    <3>1. ~(source < Len(Sources("serial")))
      BY <1>8, <1>11, <2>2 DEF Answers
    <3>2. Len(Sources("serial")) = 7
      BY DEF Sources
    <3>3. ~(source < 7)
      BY <3>1, <3>2
    <3>4. source \in 1..7
      BY <1>5
    <3>5. source + 1 = 8
      BY <3>3, <3>4
    <3>6. Ruled(opts, d, 8)
      BY <1>9, <2>2, <3>5
    <3>7. QED
      BY <1>2, <1>10, <2>2, <3>6, NoneIdentifies
  <2>3. QED
    BY <2>1, <2>2
<1>12. QED
  BY <1>4, <1>5, <1>8, <1>9, <1>11

LEMMA DiskAnswer ==
  ASSUME Shape, WorldSeen, Kept, pc = "read", Current \in Still, walk = "disks", Answers,
         NEW d, d = occupant[Current]
  PROVE  /\ EmptySlot => ~Worth(opts, fails, Current, d)
         /\ ~EmptySlot => RowKept(opts, fails, Current, d, field + 1, 1, Read)
<1>1. ReadShape /\ todo # {} /\ field \in DOMAIN Fields(walk)
  BY DEF Shape, ReadShape
<1>2. /\ KindOf(Current) = "disks" /\ Current \in Names /\ d \in Devices /\ d # Nobody
      /\ d.kind = "disks" /\ "disks" \notin fails.dirs
  BY <1>1, TurnFacts
<1>3. RowKept(opts, fails, Current, d, field, source, row)
  BY DEF Kept, ReadKept
<1>4. PICK r : r = Read
  OBVIOUS
<1>5. PICK f : f = field
  OBVIOUS
<1>6. /\ f \in {1, 2, 3, 4, 5} /\ (f = 1 <=> Attr = "size") /\ (f = 3 <=> Attr = "serial")
  BY <1>1, <1>5, AttrFacts DEF Walks
<1>7. /\ Attr # "size" => r.size = row.size
      /\ Attr # "serial" => r.serial = row.serial
  BY <1>1, <1>4, ReadShaped DEF Walks
<1>8. Ruled(opts, d, 1)
  BY SerialSources7 DEF Ruled
<1>9. CASE Attr = "size"
  <2>1. source \in DOMAIN Sources("size")
    BY <1>1, <1>9 DEF ReadShape, Attr
  <2>2. From = "size"
    BY <1>9, <2>1 DEF From, Sources
  <2>3. Text = File(Current, "size")
    BY <1>9, <2>2 DEF Text, Lookup
  <2>4. "size" \in DOMAIN d.files /\ d.files["size"] \notin {Empty, <<"-1">>}
    BY <1>2, DeviceAssumption
  <2>5. Text = d.files["size"]
    BY <1>2, <2>3, <2>4 DEF File
  <2>6. r.size = d.files["size"]
    BY <1>1, <1>4, <1>9, <2>4, <2>5, ReadShaped, ValueFacts DEF Walks
  <2>7. f = 1 /\ (opts.allDisks \/ Current \notin Skipped)
    BY <1>2, <1>3, <1>6, <1>9 DEF RowKept
  <2>8. EmptySlot <=> d.files["size"] = Zero /\ ~opts.allDisks
    BY <1>4, <1>9, <2>6 DEF EmptySlot
  <2>9. Worth(opts, fails, Current, d) <=> ~EmptySlot
    BY <1>2, <2>7, <2>8 DEF Worth
  <2>10. QED
    BY <1>2, <1>4, <1>5, <2>6, <2>7, <2>9 DEF RowKept
<1>10. CASE Attr = "serial"
  <2>1. Ident(opts, r.serial, d)
    BY <1>4, <1>10, SerialAnswer
  <2>2. ~EmptySlot
    BY <1>10 DEF EmptySlot
  <2>3. QED
    BY <1>2, <1>3, <1>4, <1>5, <1>6, <1>7, <1>10, <2>1, <2>2 DEF RowKept
<1>11. CASE Attr \notin {"size", "serial"}
  <2>1. ~EmptySlot
    BY <1>11 DEF EmptySlot
  <2>2. QED
    BY <1>2, <1>3, <1>4, <1>5, <1>6, <1>7, <1>8, <1>11, <2>1 DEF RowKept
<1>12. QED
  BY <1>9, <1>10, <1>11

\* Another source is asked only when this one says nothing.
LEMMA AskKept ==
  ASSUME Shape, WorldSeen, Kept, pc = "read", Current \in Still, ~Enough(Attr, Text),
         NEW d, d = occupant[Current]
  PROVE  RowKept(opts, fails, Current, d, field, source + 1, row)
<1>1. /\ todo # {} /\ walk \in Walks /\ field \in DOMAIN Fields(walk)
  BY DEF Shape, ReadShape
<1>2. RowKept(opts, fails, Current, d, field, source, row)
  BY DEF Kept, ReadKept
<1>3. KindOf(Current) = walk
  BY <1>1, TurnFacts
<1>4. CASE walk = "nics"
  BY <1>2, <1>3, <1>4 DEF RowKept
<1>5. CASE walk = "disks"
  <2>1. field = 3 => Ruled(opts, d, source + 1)
    BY <1>1, <1>5, AttrFacts, SerialAnswer
  <2>2. QED
    BY <1>2, <1>3, <1>5, <2>1 DEF RowKept
<1>6. QED
  BY <1>1, <1>4, <1>5 DEF Walks

LEMMA AnswerKept ==
  ASSUME Shape, WorldSeen, Kept, pc = "read", Current \in Still, Answers,
         NEW d, d = occupant[Current]
  PROVE  /\ EmptySlot => ~Worth(opts, fails, Current, d)
         /\ ~EmptySlot => RowKept(opts, fails, Current, d, field + 1, 1, Read)
<1>1. CASE walk = "nics"
  <2>1. Attr \in NicAttrs
    BY <1>1, AttrFacts DEF Shape, ReadShape
  <2>2. ~EmptySlot
    BY <2>1 DEF EmptySlot, NicAttrs
  <2>3. QED
    BY <1>1, <2>2, NicAnswer
<1>2. CASE walk = "disks"
  BY <1>2, DiskAnswer
<1>3. QED
  BY <1>1, <1>2 DEF Shape, Walks

\* The last attribute completes the description.
LEMMA LastKept ==
  ASSUME Shape, WorldSeen, Kept, pc = "read", Current \in Still, Answers, ~EmptySlot,
         ~(field < Len(Fields(walk))), NEW d, d = occupant[Current]
  PROVE  Worth(opts, fails, Current, d) /\ Desc(opts, fails, Current, Read, d)
<1>1. RowKept(opts, fails, Current, d, field + 1, 1, Read)
  BY AnswerKept
<1>2. /\ todo # {} /\ walk \in Walks /\ field \in DOMAIN Fields(walk)
  BY DEF Shape, ReadShape
<1>3. KindOf(Current) = walk /\ d.kind = walk
  BY <1>2, TurnFacts
<1>4. CASE walk = "nics"
  <2>1. Len(Fields(walk)) = 4 /\ field \in {1, 2, 3, 4}
    BY <1>2, <1>4, AttrFacts
  <2>2. field = 4
    BY <2>1
  <2>3. QED
    BY <1>1, <1>3, <1>4, <2>2 DEF RowKept, Desc
<1>5. CASE walk = "disks"
  <2>1. Len(Fields(walk)) = 5 /\ field \in {1, 2, 3, 4, 5}
    BY <1>2, <1>5, AttrFacts
  <2>2. field = 5
    BY <2>1
  <2>3. QED
    BY <1>1, <1>3, <1>5, <2>2 DEF RowKept, Desc
<1>6. QED
  BY <1>2, <1>4, <1>5 DEF Walks

LEMMA ReadKeptStep ==
  ASSUME Shape, WorldSeen, Kept, [Next]_vars
  PROVE  ReadKept'
<1>1. UNCHANGED <<opts, fails>> /\ Still' \subseteq Still /\ \A n \in Still' : occupant'[n] = occupant[n]
  BY WorldSeenStep, StaysStep DEF Kept
<1> SUFFICES ASSUME pc' = "read", Current' \in Still'
             PROVE  RowKept(opts, fails, Current', occupant'[Current'], field', source', row')
  BY <1>1 DEF ReadKept
<1>2. CASE UNCHANGED <<pc, walk, todo, field, source, row>>
  <2>1. Current' = Current /\ pc = "read"
    BY <1>2 DEF Current
  <2>2. RowKept(opts, fails, Current, occupant[Current], field, source, row)
    BY <1>1, <2>1 DEF Kept, ReadKept
  <2>3. QED
    BY <1>1, <1>2, <2>1, <2>2
<1>3. CASE NextEntry
  <2>1. /\ pc = "entry" /\ todo # {} /\ UNCHANGED <<walk, todo>> /\ ~Passed(Current)
        /\ row' = IF walk = "nics" THEN BlankNIC(Current) ELSE BlankDisk(Current)
        /\ field' = 1 /\ source' = 1
    BY <1>3 DEF NextEntry
  <2>2. Current' = Current
    BY <2>1 DEF Current
  <2>3. QED
    BY <1>1, <2>1, <2>2, PassedFacts
<1>4. CASE ReadAttribute
  <2>1. pc = "read" /\ UNCHANGED walk /\ (Asks \/ Drops \/ Continues \/ Ends)
    BY <1>4, ReadCases
  <2>2. CASE Asks
    <3>1. /\ ~Enough(Attr, Text) /\ source' = source + 1 /\ UNCHANGED <<todo, field, row>>
      BY <2>2 DEF Asks
    <3>2. Current' = Current
      BY <2>1, <3>1 DEF Current
    <3>3. QED
      BY <1>1, <2>1, <3>1, <3>2, AskKept
  <2>3. CASE Continues
    <3>1. /\ Answers /\ ~EmptySlot /\ row' = Read /\ field' = field + 1 /\ source' = 1
          /\ UNCHANGED todo
      BY <2>3 DEF Continues
    <3>2. Current' = Current
      BY <2>1, <3>1 DEF Current
    <3>3. QED
      BY <1>1, <2>1, <3>1, <3>2, AnswerKept
  <2>4. QED
    BY <2>1, <2>2, <2>3 DEF Drops, Ends
<1>5. CASE UNCHANGED vars \/ \E n \in Names : Unplug(n) \/ Plug(n) \/ Udev(n)
  BY <1>2, <1>5 DEF vars, Unplug, Plug, Udev
<1>6. ASSUME ReadDir \/ InterfaceAddrs \/ LinksByID \/ WwnsByID \/ EndOfWalk
             \/ ApplyDMI \/ ApplySystem \/ ApplyNeighbours
      PROVE  FALSE
  BY <1>6 DEF ReadDir, InterfaceAddrs, LinksByID, WwnsByID, EndOfWalk, ApplyDMI, ApplySystem,
     ApplyNeighbours
<1>7. QED
  BY <1>3, <1>4, <1>5, <1>6 DEF Next, Collector

-----------------------------------------------------------------------------
(* Who has a row.                                                          *)

LEMMA InitAccounts == Init => ReadKept /\ Accounts
<1> SUFFICES ASSUME Init PROVE ReadKept /\ Accounts
  OBVIOUS
<1>1. /\ pc = "readdir" /\ walk = "nics"
      /\ inv = [facts |-> <<>>, nics |-> <<>>, disks |-> <<>>]
  BY DEF Init
<1>2. \A w \in Walks : inv[w] = <<>> /\ DOMAIN inv[w] = {} /\ Waiting(w)
  BY <1>1 DEF Walks, Waiting
<1>3. QED
  BY <1>1, <1>2 DEF ReadKept, Accounts, Pending, NoRow

\* A row more is a row of the name it says.
LEMMA AppendAccounted ==
  ASSUME NEW rows, \E S : rows \in Seq(S), NEW r, NEW o, NEW u, NEW n, NEW d
  PROVE  /\ NoRow(rows, n) /\ r.name = <<n>> /\ Desc(o, u, n, r, d) => OneRow(o, u, Append(rows, r), n, d)
         /\ NoRow(rows, n) /\ r.name # <<n>> => NoRow(Append(rows, r), n)
         /\ OneRow(o, u, rows, n, d) /\ r.name # <<n>> => OneRow(o, u, Append(rows, r), n, d)
<1>1. /\ DOMAIN Append(rows, r) = DOMAIN rows \cup {Len(rows) + 1} /\ Len(rows) + 1 \notin DOMAIN rows
      /\ \A k \in DOMAIN rows : Append(rows, r)[k] = rows[k]
      /\ Append(rows, r)[Len(rows) + 1] = r
  BY AppendFacts
<1>2. PICK more, last : more = Append(rows, r) /\ last = Len(rows) + 1
  OBVIOUS
<1>3. /\ DOMAIN more = DOMAIN rows \cup {last} /\ last \notin DOMAIN rows
      /\ \A k \in DOMAIN rows : more[k] = rows[k]
      /\ more[last] = r
  BY <1>1, <1>2
<1>4. ASSUME NoRow(rows, n), r.name = <<n>>, Desc(o, u, n, r, d) PROVE OneRow(o, u, more, n, d)
  BY <1>3, <1>4 DEF NoRow, OneRow
<1>5. ASSUME NoRow(rows, n), r.name # <<n>> PROVE NoRow(more, n)
  BY <1>3, <1>5 DEF NoRow
<1>6. ASSUME OneRow(o, u, rows, n, d), r.name # <<n>> PROVE OneRow(o, u, more, n, d)
  BY <1>3, <1>6 DEF OneRow
<1>7. QED
  BY <1>2, <1>4, <1>5, <1>6

\* What does not touch name and description leaves the account as it is.
LEMMA AlikeAccounted ==
  ASSUME NEW p, NEW q, DOMAIN q = DOMAIN p,
         \A k \in DOMAIN p : q[k].name = p[k].name /\ q[k].mac = p[k].mac
                             /\ q[k].ips = p[k].ips /\ q[k].state = p[k].state,
         NEW o, NEW u, NEW n, NEW d, d # Nobody => d.kind = "nics"
  PROVE  /\ NoRow(p, n) => NoRow(q, n)
         /\ Accounted(o, u, n, d, p) => Accounted(o, u, n, d, q)
  BY DEF Accounted, NoRow, OneRow, Desc

LEMMA SameAccounts ==
  ASSUME Shape, WorldSeen, Kept, [Next]_vars,
         \A w \in Walks : inv'[w] = inv[w] /\ (Waiting(w)' <=> Waiting(w)),
         \A w \in Walks : \A e \in DOMAIN NamesOf(w) : Pending(w, e)' <=> Pending(w, e)
  PROVE  Accounts'
<1>1. /\ UNCHANGED <<opts, fails>> /\ Still' \subseteq Still
      /\ \A n \in Still' : occupant'[n] = occupant[n]
  BY WorldSeenStep, StaysStep DEF Kept
<1>2. QED
  BY <1>1 DEF Kept, Accounts

LEMMA ReadDirAccounts ==
  ASSUME Shape, WorldSeen, Kept, ReadDir
  PROVE  Accounts'
<1>1. /\ walk \in Walks /\ pc = "readdir" /\ pc' # "readdir" /\ UNCHANGED <<walk, inv, occupant, touched, opts, fails>>
      /\ \/ todo' = {i \in DOMAIN NamesOf(walk) : occupant[NamesOf(walk)[i]] # Nobody}
         \/ walk \in fails.dirs /\ todo' = {}
  BY DEF ReadDir, Shape, world, given
<1> SUFFICES ASSUME NEW w \in Walks, NEW e \in DOMAIN NamesOf(w), NamesOf(w)[e] \in Still
             PROVE  /\ Waiting(w)' => NoRow(inv[w], NamesOf(w)[e])
                    /\ Pending(w, e)' => NoRow(inv[w], NamesOf(w)[e]) /\ occupant[NamesOf(w)[e]] # Nobody
                    /\ ~Waiting(w)' /\ ~Pending(w, e)' =>
                         Accounted(opts, fails, NamesOf(w)[e], occupant[NamesOf(w)[e]], inv[w])
  BY <1>1 DEF Accounts, Still
<1>2. CASE w = walk
  <2>1. NoRow(inv[w], NamesOf(w)[e])
    BY <1>1, <1>2 DEF Kept, Accounts, Waiting
  <2>2. QED
    <3>1. KindOf(NamesOf(w)[e]) = w
      BY NamesFacts
    <3>2. CASE todo' = {i \in DOMAIN NamesOf(walk) : occupant[NamesOf(walk)[i]] # Nobody}
      BY <1>1, <1>2, <2>1, <3>2 DEF Pending, Accounted
    <3>3. CASE walk \in fails.dirs /\ todo' = {}
      BY <1>1, <1>2, <2>1, <3>1, <3>3 DEF Pending, Accounted, Worth
    <3>4. QED
      BY <1>1, <3>2, <3>3
<1>3. CASE w # walk
  <2>1. (Waiting(w)' <=> Waiting(w)) /\ ~Pending(w, e) /\ ~Pending(w, e)'
    BY <1>1, <1>3 DEF Waiting, Pending
  <2>2. QED
    BY <2>1 DEF Kept, Accounts
<1>4. QED
  BY <1>2, <1>3

\* An entry is done with, and its account is final.
LEMMA DoneAccounts ==
  ASSUME Shape, WorldSeen, Kept, pc \in {"entry", "read"}, pc' = "entry", todo # {},
         UNCHANGED <<walk, occupant, touched, opts, fails>>, todo' = Others,
         \A w \in Walks \ {walk} : inv'[w] = inv[w],
         \A n \in Names \ {Current} : \A d :
           /\ NoRow(inv[walk], n) => NoRow(inv'[walk], n)
           /\ Accounted(opts, fails, n, d, inv[walk]) => Accounted(opts, fails, n, d, inv'[walk]),
         Current \in Still => Accounted(opts, fails, Current, occupant[Current], inv'[walk])
  PROVE  Accounts'
<1>1. /\ walk \in Walks /\ Current \in Names /\ KindOf(Current) = walk
      /\ Least(todo) \in todo /\ Least(todo) \in DOMAIN NamesOf(walk)
      /\ Current = NamesOf(walk)[Least(todo)]
  BY CurrentFacts DEF Shape
<1> SUFFICES ASSUME NEW w \in Walks, NEW e \in DOMAIN NamesOf(w), NamesOf(w)[e] \in Still
             PROVE  /\ Waiting(w)' => NoRow(inv'[w], NamesOf(w)[e])
                    /\ Pending(w, e)' => NoRow(inv'[w], NamesOf(w)[e]) /\ occupant[NamesOf(w)[e]] # Nobody
                    /\ ~Waiting(w)' /\ ~Pending(w, e)' =>
                         Accounted(opts, fails, NamesOf(w)[e], occupant[NamesOf(w)[e]], inv'[w])
  BY DEF Accounts, Still
<1>2. Waiting(w)' <=> Waiting(w)
  BY DEF Waiting
<1>3. CASE w # walk
  <2>1. ~Pending(w, e) /\ ~Pending(w, e)' /\ inv'[w] = inv[w]
    BY <1>3 DEF Pending
  <2>2. QED
    BY <1>2, <2>1 DEF Kept, Accounts
<1>4. CASE w = walk /\ e = Least(todo)
  <2>1. ~Pending(w, e)' /\ ~Waiting(w)
    BY <1>1, <1>4 DEF Pending, Waiting, Others, Walks
  <2>2. QED
    BY <1>1, <1>2, <1>4, <2>1
<1>5. CASE w = walk /\ e # Least(todo)
  <2>1. Pending(w, e)' <=> Pending(w, e)
    BY <1>5 DEF Pending, Others
  <2>2. NamesOf(w)[e] \in Names \ {Current}
    BY <1>1, <1>5, NamesFacts
  <2>3. QED
    BY <1>2, <1>5, <2>1, <2>2 DEF Kept, Accounts
<1>6. QED
  BY <1>3, <1>4, <1>5

LEMMA NextEntryAccounts ==
  ASSUME Shape, WorldSeen, Kept, [Next]_vars, NextEntry
  PROVE  Accounts'
<1>1. /\ pc = "entry" /\ todo # {} /\ UNCHANGED <<walk, occupant, touched, opts, fails, inv>>
  BY DEF NextEntry, world, given
<1>2. CASE Passed(Current)
  <2>1. todo' = Others /\ pc' = "entry"
    BY <1>1, <1>2 DEF NextEntry
  <2>2. ASSUME Current \in Still
        PROVE  Accounted(opts, fails, Current, occupant[Current], inv[walk])
    BY <1>1, <1>2, <2>2, PassedFacts, TurnFacts DEF Accounted
  <2>3. QED
    BY <1>1, <2>1, <2>2, DoneAccounts
<1>3. CASE ~Passed(Current)
  <2>1. UNCHANGED todo /\ pc' = "read"
    BY <1>3 DEF NextEntry
  <2>2. QED
    BY <1>1, <2>1, SameAccounts DEF Waiting, Pending
<1>4. QED
  BY <1>2, <1>3

LEMMA ReadAttributeAccounts ==
  ASSUME Shape, WorldSeen, Kept, [Next]_vars, ReadAttribute
  PROVE  Accounts'
<1>1. /\ pc = "read" /\ todo # {} /\ UNCHANGED <<walk, occupant, touched, opts, fails>>
      /\ walk \in Walks /\ ReadShape
      /\ Asks \/ Drops \/ Continues \/ Ends
  BY ReadCases DEF Shape, ReadShape, world, given
<1>2. CASE Asks \/ Continues
  <2>1. UNCHANGED <<pc, todo, inv>>
    BY <1>2 DEF Asks, Continues
  <2>2. QED
    BY <1>1, <2>1, SameAccounts DEF Waiting, Pending
<1>3. CASE Drops
  <2>1. Answers /\ EmptySlot /\ todo' = Others /\ pc' = "entry" /\ UNCHANGED inv
    BY <1>3 DEF Drops
  <2>2. ASSUME Current \in Still
        PROVE  Accounted(opts, fails, Current, occupant[Current], inv[walk])
    BY <1>1, <2>1, <2>2, AnswerKept, TurnFacts DEF Accounted
  <2>3. QED
    BY <1>1, <2>1, <2>2, DoneAccounts
<1>4. CASE Ends
  <2>1. /\ Answers /\ ~EmptySlot /\ ~(field < Len(Fields(walk)))
        /\ todo' = Others /\ pc' = "entry"
    BY <1>4 DEF Ends
  <2>2. /\ inv'[walk] = Append(inv[walk], Read)
        /\ \A w \in Walks \ {walk} : inv'[w] = inv[w]
    BY <1>1, <1>4, EndsFacts
  <2>3. PICK r : r = Read
    OBVIOUS
  <2>4. r.name = <<Current>>
    BY <1>1, <2>3, ReadShaped DEF ReadShape
  <2>5. PICK rows : rows = inv[walk]
    OBVIOUS
  <2>6. \E S : rows \in Seq(S)
    BY <1>1, <2>5 DEF Shape, RowsShape
  <2>7. ASSUME Current \in Still
        PROVE  Accounted(opts, fails, Current, occupant[Current], Append(rows, r))
    <3>1. Worth(opts, fails, Current, occupant[Current]) /\ Desc(opts, fails, Current, r, occupant[Current])
      BY <1>1, <2>1, <2>3, <2>7, LastKept
    <3>2. NoRow(rows, Current) /\ occupant[Current] # Nobody
      BY <1>1, <2>5, <2>7, TurnFacts
    <3>3. OneRow(opts, fails, Append(rows, r), Current, occupant[Current])
      BY <2>4, <2>6, <3>1, <3>2, AppendAccounted
    <3>4. QED
      BY <3>1, <3>2, <3>3 DEF Accounted
  <2>8. ASSUME NEW n \in Names \ {Current}, NEW d
        PROVE  /\ NoRow(rows, n) => NoRow(Append(rows, r), n)
               /\ Accounted(opts, fails, n, d, rows) => Accounted(opts, fails, n, d, Append(rows, r))
    <3>1. r.name # <<n>>
      BY <2>4, <2>8
    <3>2. QED
      BY <2>6, <3>1, AppendAccounted DEF Accounted
  <2>9. inv'[walk] = Append(rows, r)
    BY <2>2, <2>3, <2>5
  <2>10. QED
    BY <1>1, <2>1, <2>2, <2>5, <2>7, <2>8, <2>9, DoneAccounts
<1>5. QED
  BY <1>1, <1>2, <1>3, <1>4

LEMMA NeighboursAccounts ==
  ASSUME Shape, WorldSeen, Kept, ApplyNeighbours
  PROVE  Accounts'
<1>1. /\ pc = "neighbours" /\ pc' = "done" /\ UNCHANGED <<walk, todo, occupant, touched, opts, fails>>
      /\ walk = "disks" /\ todo = {}
  BY DEF Shape, ApplyNeighbours, world, given, Later
<1>2. /\ inv'.disks = inv.disks /\ DOMAIN inv'.nics = DOMAIN inv.nics
      /\ \A k \in DOMAIN inv.nics :
           /\ inv'.nics[k].name = inv.nics[k].name /\ inv'.nics[k].mac = inv.nics[k].mac
           /\ inv'.nics[k].ips = inv.nics[k].ips /\ inv'.nics[k].state = inv.nics[k].state
  BY NeighboursShape
<1>3. PICK p, q : p = inv.nics /\ q = inv'.nics
  OBVIOUS
<1> SUFFICES ASSUME NEW w \in Walks, NEW e \in DOMAIN NamesOf(w), NamesOf(w)[e] \in Still
             PROVE  /\ ~Waiting(w)' /\ ~Pending(w, e)'
                    /\ Accounted(opts, fails, NamesOf(w)[e], occupant[NamesOf(w)[e]], inv'[w])
  BY <1>1 DEF Accounts, Still
<1>4. ~Waiting(w)' /\ ~Pending(w, e)' /\ ~Waiting(w) /\ ~Pending(w, e)
  BY <1>1 DEF Waiting, Pending
<1>5. Accounted(opts, fails, NamesOf(w)[e], occupant[NamesOf(w)[e]], inv[w])
  BY <1>4 DEF Kept, Accounts
<1>6. CASE w = "disks"
  BY <1>2, <1>4, <1>5, <1>6
<1>7. CASE w = "nics"
  <2>1. PICK n, d : n = NamesOf(w)[e] /\ d = occupant[NamesOf(w)[e]]
    OBVIOUS
  <2>2. n \in Names /\ KindOf(n) = "nics"
    BY <1>7, <2>1, NamesFacts
  <2>3. d # Nobody => d.kind = "nics"
    BY <2>1, <2>2 DEF Kept, Stays
  <2>4. Accounted(opts, fails, n, d, p)
    BY <1>3, <1>5, <1>7, <2>1
  <2>5. /\ DOMAIN q = DOMAIN p
        /\ \A k \in DOMAIN p : q[k].name = p[k].name /\ q[k].mac = p[k].mac
                               /\ q[k].ips = p[k].ips /\ q[k].state = p[k].state
    BY <1>2, <1>3
  <2>6. Accounted(opts, fails, n, d, q)
    BY <2>3, <2>4, <2>5, AlikeAccounted
  <2>7. QED
    BY <1>3, <1>4, <1>7, <2>1, <2>6
<1>8. QED
  BY <1>6, <1>7 DEF Walks

LEMMA AccountsStep ==
  ASSUME Shape, WorldSeen, Kept, [Next]_vars
  PROVE  Accounts'
<1>1. CASE UNCHANGED <<walk, todo, inv>> /\ (pc' = pc \/ (pc # "readdir" /\ pc' # "readdir"))
  BY <1>1, SameAccounts DEF Waiting, Pending
<1>2. CASE InterfaceAddrs \/ LinksByID \/ WwnsByID
  BY <1>1, <1>2 DEF InterfaceAddrs, LinksByID, WwnsByID
<1>3. CASE EndOfWalk
  <2>1. /\ pc = "entry" /\ todo = {} /\ UNCHANGED <<todo, inv>> /\ walk \in Walks
        /\ walk = "nics" => walk' = "disks" /\ pc' = "readdir"
        /\ walk = "disks" => walk' = "disks" /\ pc' = "dmi"
    BY <1>3 DEF EndOfWalk, Shape, Walks
  <2>2. \A w \in Walks : Waiting(w)' <=> Waiting(w)
    BY <2>1 DEF Waiting, Walks
  <2>3. \A w \in Walks : \A e \in DOMAIN NamesOf(w) : ~Pending(w, e)' /\ ~Pending(w, e)
    BY <2>1 DEF Pending
  <2>4. QED
    BY <2>1, <2>2, <2>3, SameAccounts
<1>4. CASE ApplyDMI \/ ApplySystem
  <2>1. \A w \in Walks : inv'[w] = inv[w]
    BY <1>4, FactsShape DEF Walks
  <2>2. UNCHANGED <<walk, todo>> /\ pc # "readdir" /\ pc' # "readdir"
    BY <1>4 DEF ApplyDMI, ApplySystem
  <2>3. QED
    BY <2>1, <2>2, SameAccounts DEF Waiting, Pending
<1>5. CASE UNCHANGED vars \/ \E n \in Names : Unplug(n) \/ Plug(n) \/ Udev(n)
  BY <1>1, <1>5 DEF vars, Unplug, Plug, Udev
<1>6. QED
  BY <1>2, <1>3, <1>4, <1>5, ReadDirAccounts, NextEntryAccounts, ReadAttributeAccounts,
     NeighboursAccounts DEF Next, Collector

LEMMA AlwaysKept == Spec => []Kept
<1>1. Init => Kept
  BY InitStays, InitAccounts DEF Kept
<1>2. Shape /\ WorldSeen /\ Kept /\ [Next]_vars => Kept'
  BY StaysStep, LookedStep, ReadKeptStep, AccountsStep DEF Kept
<1>3. Seen => WorldSeen
  BY DEF Seen
<1>4. QED
  BY <1>1, <1>2, <1>3, AlwaysShape, AlwaysSeen, PTL DEF Spec

\* The rows of a name are all among those of its kind.
LEMMA RowsFacts ==
  ASSUME Shape, NEW w \in Walks, NEW e \in DOMAIN NamesOf(w)
  PROVE  Rows(NamesOf(w)[e]) =
           {inv[w][k] : k \in {j \in DOMAIN inv[w] : inv[w][j].name = <<NamesOf(w)[e]>>}}
<1>1. ASSUME NEW v \in Walks, NEW j \in DOMAIN inv[v], inv[v][j].name = <<NamesOf(w)[e]>>
      PROVE  v = w
  <2>1. PICK i \in DOMAIN NamesOf(v) : inv[v][j].name = <<NamesOf(v)[i]>>
    BY DEF Shape, RowsShape
  <2>2. NamesOf(v)[i] = NamesOf(w)[e]
    BY <1>1, <2>1
  <2>3. QED
    BY <2>2, DistinctWalks
<1>2. CASE w = "nics"
  <2>1. {inv.disks[k] : k \in {j \in DOMAIN inv.disks : inv.disks[j].name = <<NamesOf(w)[e]>>}} = {}
    BY <1>1, <1>2 DEF Walks
  <2>2. QED
    BY <1>2, <2>1 DEF Rows
<1>3. CASE w = "disks"
  <2>1. {inv.nics[k] : k \in {j \in DOMAIN inv.nics : inv.nics[j].name = <<NamesOf(w)[e]>>}} = {}
    BY <1>1, <1>3 DEF Walks
  <2>2. QED
    BY <1>3, <2>1 DEF Rows
<1>4. QED
  BY <1>2, <1>3 DEF Walks

LEMMA WorthFacts ==
  ASSUME NEW n, NEW r, NEW d
  PROVE  /\ Reportable(n, d) <=> Worth(opts, fails, n, d)
         /\ Described(n, r, d) <=> Desc(opts, fails, n, r, d)
<1>1. Udevs(d) = UdevOf(opts, d) /\ Learnt(n, d) = LearntOf(fails, n, d)
  BY LastingFacts DEF Udevs, UdevOf, Learnt, LearntOf
<1>2. Identified(r, d) <=> Ident(opts, r.serial, d)
  BY <1>1 DEF Identified, Ident
<1>3. QED
  BY <1>1, <1>2 DEF Reportable, Worth, Described, Desc

LEMMA KeptIsAsItIs == Shape /\ WorldSeen /\ Kept => UntouchedAsItIs
<1> SUFFICES ASSUME Shape, Kept, pc = "done", NEW n \in Names \ touched
             PROVE  IF occupant[n] # Nobody /\ Reportable(n, occupant[n])
                    THEN Cardinality(Rows(n)) = 1 /\ \A r \in Rows(n) : Described(n, r, occupant[n])
                    ELSE Rows(n) = {}
  BY DEF UntouchedAsItIs
<1>1. PICK w \in Walks : \E e \in DOMAIN NamesOf(w) : n = NamesOf(w)[e]
  BY DEF Names, NamesOf, Walks
<1>2. PICK e \in DOMAIN NamesOf(w) : n = NamesOf(w)[e]
  BY <1>1
<1>3. walk = "disks" /\ todo = {}
  BY DEF Shape, Later
<1>4. ~Waiting(w) /\ ~Pending(w, e)
  BY <1>3 DEF Waiting, Pending
<1>5. Accounted(opts, fails, n, occupant[n], inv[w])
  BY <1>2, <1>4 DEF Kept, Accounts, Still
<1>6. PICK rows, d : rows = inv[w] /\ d = occupant[n]
  OBVIOUS
<1>7. Rows(n) = {rows[k] : k \in {j \in DOMAIN rows : rows[j].name = <<n>>}}
  BY <1>2, <1>6, RowsFacts
<1>8. CASE d # Nobody /\ Reportable(n, d)
  <2>1. OneRow(opts, fails, rows, n, d)
    BY <1>5, <1>6, <1>8, WorthFacts DEF Accounted
  <2>2. PICK k \in DOMAIN rows : /\ rows[k].name = <<n>> /\ Desc(opts, fails, n, rows[k], d)
                                /\ \A j \in DOMAIN rows : rows[j].name = <<n>> => j = k
    BY <2>1 DEF OneRow
  <2>3. Rows(n) = {rows[k]}
    BY <1>7, <2>2
  <2>4. Cardinality(Rows(n)) = 1
    BY <2>3, FS_Singleton
  <2>5. Described(n, rows[k], d)
    BY <2>2, WorthFacts
  <2>6. QED
    BY <1>6, <1>8, <2>3, <2>4, <2>5
<1>9. CASE ~(d # Nobody /\ Reportable(n, d))
  <2>1. NoRow(rows, n)
    BY <1>5, <1>6, <1>9, WorthFacts DEF Accounted
  <2>2. Rows(n) = {}
    BY <1>7, <2>1 DEF NoRow
  <2>3. QED
    BY <1>6, <1>9, <2>2
<1>10. QED
  BY <1>8, <1>9

\* A device that stays behind its name for the whole collection has exactly
\* one row, with its own size and best serial, or its addresses that are neither
\* link-local nor loopback as far as they could be learnt; or none if it is not
\* worth one, whatever comes and goes beside it (disk.go:59-99, nic.go:63-153).
THEOREM StayingDevicesAsTheyAre == Spec => []UntouchedAsItIs
<1>1. Seen => WorldSeen
  BY DEF Seen
<1>2. QED
  BY <1>1, AlwaysShape, AlwaysSeen, AlwaysKept, KeptIsAsItIs, PTL

-----------------------------------------------------------------------------
(* Joined addresses are split where they were joined. *)

\* Induction, over the set of the numbers that have the property.
LEMMA Closed ==
  ASSUME NEW S, 0 \in S, \A k \in Nat : k \in S => k + 1 \in S
  PROVE  Nat \subseteq S
<1> SUFFICES ASSUME Nat \ S # {} PROVE FALSE
  OBVIOUS
<1> DEFINE Rest == Nat \ S
<1>1. Rest \in SUBSET Nat /\ Rest # {}
  OBVIOUS
<1> HIDE DEF Rest
<1>2. PICK m \in Rest : \A k \in Rest : m <= k
  BY <1>1, LeastElement
<1> USE DEF Rest
<1>3. m \in Nat /\ m \notin S /\ m # 0
  OBVIOUS
<1>4. m - 1 \in Nat /\ ~(m <= m - 1)
  BY <1>3
<1>5. m - 1 \in S
  BY <1>2, <1>4
<1>6. (m - 1) + 1 \in S /\ (m - 1) + 1 = m
  BY <1>3, <1>4, <1>5
<1>7. QED
  BY <1>3, <1>6

\* A list whose entries each follow from the one before: there is one, and
\* each of its entries is of the kind the steps keep.
Follows(f, e, first, step) ==
  f[0] = first /\ \A k \in 1..e : f[k] = step[<<k, f[k - 1]>>]

WhileTyped(f, e, D, step) == \A k \in 1..e : f[k - 1] \in D => f[k] = step[<<k, f[k - 1]>>]

LEMMA ListExists ==
  ASSUME NEW D, NEW first \in D, NEW step \in [Nat \X D -> D], NEW e \in Nat
  PROVE  \E f \in [0..e -> D] : Follows(f, e, first, step)
<1> DEFINE S == {j \in Nat : \E f \in [0..j -> D] : Follows(f, j, first, step)}
<1>1. 0 \in S
  <2> DEFINE f == [k \in 0..0 |-> first]
  <2>1. f \in [0..0 -> D] /\ Follows(f, 0, first, step)
    BY DEF Follows
  <2>2. QED
    BY <2>1
<1>2. ASSUME NEW j \in Nat, j \in S PROVE j + 1 \in S
  <2>1. PICK f \in [0..j -> D] : Follows(f, j, first, step)
    BY <1>2
  <2> DEFINE g == [k \in 0..(j + 1) |-> IF k = j + 1 THEN step[<<j + 1, f[j]>>] ELSE f[k]]
  <2>2. f[j] \in D /\ step[<<j + 1, f[j]>>] \in D
    OBVIOUS
  <2>3. \A k \in 0..(j + 1) : k # j + 1 => k \in 0..j
    OBVIOUS
  <2>4. g \in [0..(j + 1) -> D]
    BY <2>2, <2>3
  <2>5. g[0] = first
    BY <2>1, 0 # j + 1, 0 \in 0..(j + 1) DEF Follows
  <2>6. ASSUME NEW k \in 1..(j + 1) PROVE g[k] = step[<<k, g[k - 1]>>]
    <3>1. k - 1 \in 0..(j + 1) /\ k - 1 # j + 1 /\ k \in 0..(j + 1)
      OBVIOUS
    <3>2. g[k - 1] = f[k - 1]
      BY <3>1
    <3>3. CASE k = j + 1
      <4>1. k - 1 = j /\ g[k] = step[<<j + 1, f[j]>>]
        BY <3>1, <3>3
      <4> HIDE DEF g
      <4>2. QED
        BY <3>2, <3>3, <4>1
    <3>4. CASE k # j + 1
      <4>1. k \in 1..j /\ g[k] = f[k]
        BY <3>1, <3>4
      <4> HIDE DEF g
      <4>2. QED
        BY <2>1, <3>2, <4>1 DEF Follows
    <3>5. QED
      BY <3>3, <3>4
  <2> HIDE DEF g
  <2>7. Follows(g, j + 1, first, step)
    BY <2>5, <2>6 DEF Follows
  <2>8. QED
    BY <2>4, <2>7
<1>3. e \in S
  <2> HIDE DEF S
  <2>1. QED
    BY <1>1, <1>2, Closed
<1>4. QED
  BY <1>3

LEMMA ListTyped ==
  ASSUME NEW D, NEW first \in D, NEW step \in [Nat \X D -> D], NEW e \in Nat, NEW f,
         f[0] = first, WhileTyped(f, e, D, step)
  PROVE  \A k \in 0..e : f[k] \in D
<1> DEFINE S == {k \in Nat : k <= e => f[k] \in D}
<1>1. 0 \in S
  OBVIOUS
<1>2. ASSUME NEW k \in Nat, k \in S PROVE k + 1 \in S
  <2> SUFFICES ASSUME k + 1 <= e PROVE f[k + 1] \in D
    OBVIOUS
  <2>1. k + 1 \in 1..e /\ (k + 1) - 1 = k /\ f[k] \in D
    BY <1>2
  <2>2. f[k + 1] = step[<<k + 1, f[k]>>]
    BY <2>1 DEF WhileTyped
  <2>3. QED
    BY <2>1, <2>2
<1>3. ASSUME NEW k \in 0..e PROVE f[k] \in D
  <2> HIDE DEF S
  <2>1. k \in S
    BY <1>1, <1>2, Closed
  <2>2. QED
    BY <2>1 DEF S
<1>4. QED
  BY <1>3

\* What a text is that was joined from two.
MadeOf(u, s, c, t) ==
  /\ Len(u) = Len(s) + 1 + Len(t)
  /\ \A k \in 1..Len(s) : u[k] = s[k]
  /\ u[Len(s) + 1] = c
  /\ \A k \in 1..Len(t) : u[Len(s) + 1 + k] = t[k]

LEMMA BetweenFacts ==
  ASSUME NEW T, NEW s \in Seq(T), NEW t \in Seq(T), NEW c \in T
  PROVE  /\ (s \o <<c>>) \o t \in Seq(T)
         /\ MadeOf((s \o <<c>>) \o t, s, c, t)
<1> DEFINE u == s \o <<c>>
<1>1. u \in Seq(T) /\ Len(u) = Len(s) + 1 /\ u[Len(s) + 1] = c
  OBVIOUS
<1>2. \A k \in 1..Len(s) : u[k] = s[k]
  OBVIOUS
<1> HIDE DEF u
<1>3. u \o t \in Seq(T) /\ Len(u \o t) = Len(u) + Len(t)
  BY <1>1
<1>4. \A k \in 1..Len(u) : (u \o t)[k] = u[k]
  BY <1>1
<1>5. \A k \in 1..Len(t) : (u \o t)[Len(u) + k] = t[k]
  BY <1>1
<1>6. QED
  BY <1>1, <1>2, <1>3, <1>4, <1>5 DEF u, MadeOf

\* A string that is written out is not in STRING for the provers.
Tokens == STRING \cup {","}

JoinedUpTo(texts) ==
  CHOOSE f : f = [k \in 0..Len(texts) |->
                    IF k = 0 THEN Empty
                    ELSE IF k = 1 THEN texts[1] ELSE (f[k - 1] \o <<",">>) \o texts[k]]

LEMMA JoinedFacts ==
  ASSUME NEW texts \in Seq(Seq(Tokens))
  PROVE  /\ Joined(texts) = JoinedUpTo(texts)[Len(texts)]
         /\ \A k \in 0..Len(texts) :
              /\ JoinedUpTo(texts)[k] \in Seq(Tokens)
              /\ JoinedUpTo(texts)[k] =
                   IF k = 0 THEN Empty
                   ELSE IF k = 1 THEN texts[1] ELSE (JoinedUpTo(texts)[k - 1] \o <<",">>) \o texts[k]
<1> DEFINE N == Len(texts)
           D == Seq(Tokens)
           Step(f) == [k \in 0..N |->
                         IF k = 0 THEN Empty
                         ELSE IF k = 1 THEN texts[1] ELSE (f[k - 1] \o <<",">>) \o texts[k]]
           step == [p \in Nat \X D |->
                      IF p[1] \notin 1..N THEN Empty
                      ELSE IF p[1] = 1 THEN texts[1] ELSE (p[2] \o <<",">>) \o texts[p[1]]]
<1>1. Empty \in D /\ N \in Nat
  BY DEF Empty
<1>2. step \in [Nat \X D -> D]
  <2>1. ASSUME NEW x \in D, NEW y \in D PROVE (x \o <<",">>) \o y \in D
    <3>1. "," \in Tokens
      BY DEF Tokens
    <3>2. QED
      BY <3>1, BetweenFacts
  <2>2. texts \in Seq(D)
    OBVIOUS
  <2> HIDE DEF D
  <2>3. \A k \in 1..N : texts[k] \in D /\ texts[1] \in D
    BY <2>2
  <2>4. QED
    BY <1>1, <2>1, <2>3
<1>3. \A k \in 1..N : \A x \in D :
        step[<<k, x>>] = IF k = 1 THEN texts[1] ELSE (x \o <<",">>) \o texts[k]
  <2> HIDE DEF D
  <2> SUFFICES ASSUME NEW k \in 1..N, NEW x \in D
               PROVE  step[<<k, x>>] = IF k = 1 THEN texts[1] ELSE (x \o <<",">>) \o texts[k]
    OBVIOUS
  <2>1. <<k, x>> \in Nat \X D /\ <<k, x>>[1] = k /\ <<k, x>>[2] = x
    BY <1>1
  <2>2. QED
    BY <2>1
<1> HIDE DEF D, step
<1>4. PICK f \in [0..N -> D] : Follows(f, N, Empty, step)
  BY <1>1, <1>2, ListExists
<1>5. f = Step(f)
  <2>1. \A k \in 0..N : f[k] = Step(f)[k]
    <3> TAKE k \in 0..N
    <3>1. CASE k = 0
      BY <1>4, <3>1 DEF Follows
    <3>2. CASE k # 0
      <4>1. k \in 1..N /\ k - 1 \in 0..N
        BY <1>1, <3>2
      <4>3. f[k - 1] \in D
        BY <4>1
      <4>2. f[k] = IF k = 1 THEN texts[1] ELSE (f[k - 1] \o <<",">>) \o texts[k]
        BY <1>3, <1>4, <4>1, <4>3 DEF Follows
      <4>4. QED
        BY <3>2, <4>2
    <3>3. QED
      BY <3>1, <3>2
  <2>2. Step(f) = [k \in 0..N |-> Step(f)[k]] /\ f = [k \in 0..N |-> f[k]]
    OBVIOUS
  <2> HIDE DEF Step
  <2>3. QED
    BY <2>1, <2>2
<1>6. JoinedUpTo(texts) = Step(JoinedUpTo(texts))
  <2>1. JoinedUpTo(texts) = CHOOSE g : g = Step(g)
    BY DEF JoinedUpTo
  <2>2. \E g : g = Step(g)
    BY <1>5
  <2> HIDE DEF Step
  <2>3. QED
    BY <2>1, <2>2
<1>7. PICK g : g = JoinedUpTo(texts)
  OBVIOUS
<1> HIDE DEF N
<1>8. \A k \in 0..N : g[k] = IF k = 0 THEN Empty
                            ELSE IF k = 1 THEN texts[1] ELSE (g[k - 1] \o <<",">>) \o texts[k]
  BY <1>6, <1>7
<1>9. \A k \in 0..N : g[k] \in D
  <2>1. WhileTyped(g, N, D, step)
    <3> SUFFICES ASSUME NEW k \in 1..N, g[k - 1] \in D PROVE g[k] = step[<<k, g[k - 1]>>]
      BY DEF WhileTyped
    <3>1. k \in 0..N /\ k # 0
      BY <1>1
    <3>2. QED
      BY <1>3, <1>8, <3>1
  <2>2. g[0] = Empty
    <3>1. 0 \in 0..N
      BY <1>1
    <3>2. QED
      BY <1>8, <3>1
  <2> HIDE DEF Step
  <2>3. QED
    BY <1>1, <1>2, <2>1, <2>2, ListTyped
<1>10. Joined(texts) = g[N]
  BY <1>7 DEF Joined, JoinedUpTo, N
<1>11. QED
  BY <1>7, <1>8, <1>9, <1>10 DEF D, N

LEMMA SeqWider ==
  ASSUME NEW S, NEW T, S \subseteq T, NEW s \in Seq(S)
  PROVE  s \in Seq(T)
<1>1. PICK len \in Nat : len = Len(s)
  OBVIOUS
<1>2. s \in [1..len -> S]
  BY <1>1
<1>3. s \in [1..len -> T]
  BY <1>2
<1>4. QED
  BY <1>3

LEMMA BeginningFacts ==
  ASSUME NEW T, NEW t \in Seq(T)
  PROVE  /\ SubSeq(t, 1, 0) = <<>>
         /\ SubSeq(t, 1, Len(t)) = t
         /\ \A k \in 0..(Len(t) - 1) :
              SubSeq(t, 1, k) \in Seq(T) /\ Append(SubSeq(t, 1, k), t[k + 1]) = SubSeq(t, 1, k + 1)
<1>1. SubSeq(t, 1, 0) = <<>>
  OBVIOUS
<1>2. SubSeq(t, 1, Len(t)) = t
  OBVIOUS
<1>3. ASSUME NEW k \in 0..(Len(t) - 1)
      PROVE  SubSeq(t, 1, k) \in Seq(T) /\ Append(SubSeq(t, 1, k), t[k + 1]) = SubSeq(t, 1, k + 1)
  <2> DEFINE a == SubSeq(t, 1, k)
             b == SubSeq(t, 1, k + 1)
             c == t[k + 1]
  <2>1. k \in Nat /\ k + 1 \in 1..Len(t) /\ k <= Len(t)
    OBVIOUS
  <2>2. a \in Seq(T) /\ Len(a) = k /\ \A j \in 1..k : a[j] = t[j]
    BY <2>1
  <2>3. b \in Seq(T) /\ Len(b) = k + 1 /\ \A j \in 1..(k + 1) : b[j] = t[j]
    BY <2>1
  <2>4. c \in T
    BY <2>1
  <2>5. b[k + 1] = c /\ \A j \in 1..k : b[j] = a[j]
    BY <2>1, <2>2, <2>3
  <2> HIDE DEF a, b, c
  <2>6. Append(a, c) = b
    BY <2>1, <2>2, <2>3, <2>4, <2>5
  <2>7. QED
    BY <2>2, <2>6 DEF a, b, c
<1>4. QED
  BY <1>1, <1>2, <1>3

LEMMA LastFacts ==
  ASSUME NEW T, NEW q \in Seq(T), NEW a \in T, NEW b \in T
  PROVE  /\ Append(q, a) \in Seq(T) /\ Append(q, a) # <<>>
         /\ Append(q, a)[Len(Append(q, a))] = a
         /\ [Append(q, a) EXCEPT ![Len(Append(q, a))] = b] = Append(q, b)
<1>1. Append(q, a) \in Seq(T) /\ Len(Append(q, a)) = Len(q) + 1 /\ Append(q, a)[Len(q) + 1] = a
  OBVIOUS
<1>2. Append(q, a) # <<>>
  BY <1>1
<1> DEFINE new == [Append(q, a) EXCEPT ![Len(q) + 1] = b]
<1>3. new = Append(q, b)
  <2>1. new \in Seq(T) /\ Len(new) = Len(q) + 1 /\ new[Len(q) + 1] = b
    BY <1>1
  <2>2. ASSUME NEW k \in 1..Len(q) PROVE new[k] = q[k]
    <3>1. k # Len(q) + 1 /\ k \in 1..(Len(q) + 1) /\ Append(q, a)[k] = q[k]
      OBVIOUS
    <3>2. DOMAIN Append(q, a) = 1..(Len(q) + 1)
      BY <1>1
    <3>3. QED
      BY <3>1, <3>2
  <2> HIDE DEF new
  <2>3. QED
    BY <2>1, <2>2
<1>4. QED
  BY <1>1, <1>2, <1>3

SplitUpTo(text) ==
  CHOOSE f : f = [k \in 0..Len(text) |->
                    IF k = 0 THEN <<Empty>>
                    ELSE IF text[k] = "," THEN Append(f[k - 1], Empty)
                    ELSE [f[k - 1] EXCEPT ![Len(f[k - 1])] = Append(@, text[k])]]

\* A token that is no comma goes on with the last field.
LEMMA GoneOn ==
  ASSUME NEW T, NEW q \in Seq(Seq(T)), q # <<>>, NEW c \in T
  PROVE  /\ [q EXCEPT ![Len(q)] = Append(@, c)] \in Seq(Seq(T))
         /\ [q EXCEPT ![Len(q)] = Append(@, c)] # <<>>
<1> DEFINE F == Seq(T)
           v == Append(q[Len(q)], c)
<1>1. q \in Seq(F)
  OBVIOUS
<1>2. Len(q) \in DOMAIN q
  BY <1>1
<1>3. q[Len(q)] \in F
  <2> HIDE DEF F
  <2>1. QED
    BY <1>1, <1>2
<1>4. v \in F
  BY <1>3
<1>5. [q EXCEPT ![Len(q)] = Append(@, c)] = [q EXCEPT ![Len(q)] = v]
  OBVIOUS
<1> HIDE DEF F, v
<1>6. [q EXCEPT ![Len(q)] = v] \in Seq(F) /\ DOMAIN [q EXCEPT ![Len(q)] = v] = DOMAIN q
  BY <1>1, <1>2, <1>4
<1>7. DOMAIN q # {}
  BY <1>2
<1>8. [q EXCEPT ![Len(q)] = v] # <<>>
  BY <1>6, <1>7
<1>9. QED
  BY <1>5, <1>6, <1>8 DEF F

LEMMA SplitFacts ==
  ASSUME NEW text \in Seq(Tokens)
  PROVE  /\ SplitAtCommas(text) = SplitUpTo(text)[Len(text)]
         /\ SplitUpTo(text)[0] = <<Empty>>
         /\ \A k \in 1..Len(text) :
              SplitUpTo(text)[k] =
                IF text[k] = "," THEN Append(SplitUpTo(text)[k - 1], Empty)
                ELSE [SplitUpTo(text)[k - 1] EXCEPT
                        ![Len(SplitUpTo(text)[k - 1])] = Append(@, text[k])]
<1> DEFINE N == Len(text)
           D == Seq(Seq(Tokens)) \ {<<>>}
           Put(q, c) == IF c = "," THEN Append(q, Empty)
                        ELSE [q EXCEPT ![Len(q)] = Append(@, c)]
           Step(f) == [k \in 0..N |-> IF k = 0 THEN <<Empty>> ELSE Put(f[k - 1], text[k])]
           step == [p \in Nat \X D |-> IF p[1] \notin 1..N THEN <<Empty>> ELSE Put(p[2], text[p[1]])]
<1>1. <<Empty>> \in D /\ N \in Nat
  BY DEF Empty
<1>2. step \in [Nat \X D -> D]
  <2>1. ASSUME NEW q \in D, NEW c \in Tokens PROVE Put(q, c) \in D
    <3>1. q \in Seq(Seq(Tokens)) /\ q # <<>>
      OBVIOUS
    <3>2. CASE c = ","
      <4>1. Put(q, c) = Append(q, Empty)
        BY <3>2
      <4>2. Empty \in Seq(Tokens)
        BY DEF Empty
      <4>3. Append(q, Empty) \in D
        BY <3>1, <4>2, LastFacts
      <4>4. QED
        BY <4>1, <4>3
    <3>3. CASE c # ","
      <4>1. Put(q, c) = [q EXCEPT ![Len(q)] = Append(@, c)]
        BY <3>3
      <4>2. PICK r : r = [q EXCEPT ![Len(q)] = Append(@, c)]
        OBVIOUS
      <4>3. r \in Seq(Seq(Tokens)) /\ r # <<>>
        BY <3>1, <4>2, GoneOn
      <4>4. Put(q, c) = r
        BY <4>1, <4>2
      <4> HIDE DEF Put
      <4>5. QED
        BY <4>3, <4>4
    <3>4. QED
      BY <3>2, <3>3
  <2>2. \A k \in 1..N : text[k] \in Tokens
    OBVIOUS
  <2> HIDE DEF D, Put
  <2>3. QED
    BY <1>1, <2>1, <2>2
<1>3. \A k \in 1..N : \A x \in D : step[<<k, x>>] = Put(x, text[k])
  <2> HIDE DEF D, Put
  <2> SUFFICES ASSUME NEW k \in 1..N, NEW x \in D
               PROVE  step[<<k, x>>] = Put(x, text[k])
    OBVIOUS
  <2>1. <<k, x>> \in Nat \X D /\ <<k, x>>[1] = k /\ <<k, x>>[2] = x
    BY <1>1
  <2>2. QED
    BY <2>1
<1> HIDE DEF D, Put, step
<1>4. PICK f \in [0..N -> D] : Follows(f, N, <<Empty>>, step)
  BY <1>1, <1>2, ListExists
<1>5. f = Step(f)
  <2>1. \A k \in 0..N : f[k] = Step(f)[k]
    <3> TAKE k \in 0..N
    <3>1. CASE k = 0
      BY <1>4, <3>1 DEF Follows
    <3>2. CASE k # 0
      <4>1. k \in 1..N /\ k - 1 \in 0..N
        BY <1>1, <3>2
      <4>2. f[k - 1] \in D
        BY <4>1
      <4>3. f[k] = Put(f[k - 1], text[k])
        BY <1>3, <1>4, <4>1, <4>2 DEF Follows
      <4>4. QED
        BY <3>2, <4>3
    <3>3. QED
      BY <3>1, <3>2
  <2>2. Step(f) = [k \in 0..N |-> Step(f)[k]] /\ f = [k \in 0..N |-> f[k]]
    OBVIOUS
  <2> HIDE DEF Step
  <2>3. QED
    BY <2>1, <2>2
<1>6. SplitUpTo(text) = Step(SplitUpTo(text))
  <2>1. SplitUpTo(text) = CHOOSE g : g = Step(g)
    BY DEF SplitUpTo, Put
  <2>2. \E g : g = Step(g)
    BY <1>5
  <2> HIDE DEF Step
  <2>3. QED
    BY <2>1, <2>2
<1>7. PICK g : g = SplitUpTo(text)
  OBVIOUS
<1>8. \A k \in 0..N : g[k] = IF k = 0 THEN <<Empty>> ELSE Put(g[k - 1], text[k])
  BY <1>6, <1>7
<1>9. SplitAtCommas(text) = g[N]
  BY <1>7 DEF SplitAtCommas, SplitUpTo
<1>10. g[0] = <<Empty>>
  <2>1. 0 \in 0..N
    BY <1>1
  <2>2. QED
    BY <1>8, <2>1
<1>11. ASSUME NEW k \in 1..N PROVE g[k] = Put(g[k - 1], text[k])
  <2>1. k \in 0..N /\ k # 0
    BY <1>1
  <2>2. QED
    BY <1>8, <2>1
<1>12. QED
  BY <1>7, <1>9, <1>10, <1>11 DEF Put

Prefix(s, t) == Len(s) <= Len(t) /\ \A k \in 1..Len(s) : t[k] = s[k]

LEMMA WithinText ==
  ASSUME NEW p \in Nat, NEW k \in Nat, NEW len \in Nat, NEW end \in Nat,
         p + len <= end, k + 1 <= len
  PROVE  /\ p + (k + 1) \in 1..end /\ (p + (k + 1)) - 1 = p + k
         /\ k + 1 \in 1..len /\ k \in 0..(len - 1) /\ k <= len
  OBVIOUS

\* The tokens of t follow the first p of text.
LiesAt(t, text, p) == p + Len(t) <= Len(text) /\ \A k \in 1..Len(t) : text[p + k] = t[k]

\* An address is read back as the field that began when it began.
LEMMA FieldRead ==
  ASSUME NEW text \in Seq(Tokens), NEW p \in Nat, NEW t \in Addresses,
         LiesAt(t, text, p),
         NEW fields \in Seq(Seq(Tokens)), SplitUpTo(text)[p] = Append(fields, Empty)
  PROVE  SplitUpTo(text)[p + Len(t)] = Append(fields, t)
<1>1. PICK L \in Nat : /\ L = Len(t) /\ t \in Seq(Tokens) /\ p + L <= Len(text)
                       /\ \A k \in 1..L : t[k] # "," /\ t[k] \in Tokens /\ text[p + k] = t[k]
  <2>1. t \in Seq(STRING) /\ \A k \in DOMAIN t : t[k] # ","
    BY DEF Addresses
  <2>2. t \in Seq(Tokens)
    BY <2>1, SeqWider DEF Tokens
  <2>3. Len(t) \in Nat /\ DOMAIN t = 1..Len(t) /\ \A k \in 1..Len(t) : t[k] \in Tokens
    BY <2>2
  <2>4. QED
    BY <2>1, <2>2, <2>3 DEF LiesAt
<1>2. PICK G : G = SplitUpTo(text)
  OBVIOUS
<1>3. PICK F : F = Seq(Tokens)
  OBVIOUS
<1>4. PICK N \in Nat : N = Len(text)
  OBVIOUS
<1>5. /\ G[p] = Append(fields, Empty) /\ fields \in Seq(F) /\ Empty \in F
      /\ \A k \in 1..N : G[k] = IF text[k] = "," THEN Append(G[k - 1], Empty)
                                ELSE [G[k - 1] EXCEPT ![Len(G[k - 1])] = Append(@, text[k])]
  <2>1. Empty \in F
    BY <1>3 DEF Empty
  <2>2. \A k \in 1..Len(text) :
              SplitUpTo(text)[k] =
                IF text[k] = "," THEN Append(SplitUpTo(text)[k - 1], Empty)
                ELSE [SplitUpTo(text)[k - 1] EXCEPT
                        ![Len(SplitUpTo(text)[k - 1])] = Append(@, text[k])]
    BY SplitFacts
  <2>3. QED
    BY <1>2, <1>3, <1>4, <2>1, <2>2
<1>6. /\ SubSeq(t, 1, 0) = <<>> /\ SubSeq(t, 1, L) = t
      /\ \A k \in 0..(L - 1) : /\ SubSeq(t, 1, k) \in F /\ SubSeq(t, 1, k + 1) \in F
                               /\ Append(SubSeq(t, 1, k), t[k + 1]) = SubSeq(t, 1, k + 1)
  <2>1. \A k \in 0..(L - 1) : k + 1 \in 0..(L - 1) \/ k + 1 = L
    OBVIOUS
  <2>2. QED
    BY <1>1, <1>3, <2>1, BeginningFacts
<1> DEFINE S == {k \in Nat : k <= L => G[p + k] = Append(fields, SubSeq(t, 1, k))}
<1>7. 0 \in S
  <2>1. p + 0 = p /\ G[p] = Append(fields, SubSeq(t, 1, 0))
    <3>1. Empty = SubSeq(t, 1, 0) /\ p + 0 = p
      BY <1>6 DEF Empty
    <3>2. G[p] = Append(fields, Empty)
      BY <1>5
    <3>3. QED
      BY <3>1, <3>2
  <2>2. G[p + 0] = Append(fields, SubSeq(t, 1, 0))
    BY <2>1
  <2>3. QED
    BY <2>2
<1>8. ASSUME NEW k \in Nat, k \in S PROVE k + 1 \in S
  <2> SUFFICES ASSUME k + 1 <= L PROVE G[p + (k + 1)] = Append(fields, SubSeq(t, 1, k + 1))
    OBVIOUS
  <2>1. PICK a : a = SubSeq(t, 1, k)
    OBVIOUS
  <2>2. PICK b : b = SubSeq(t, 1, k + 1)
    OBVIOUS
  <2>3. PICK c : c = t[k + 1]
    OBVIOUS
  <2>4. k + 1 \in 1..L /\ k \in 0..(L - 1) /\ k <= L
    BY <1>1, <1>4, WithinText
  <2>5. G[p + k] = Append(fields, a)
    BY <1>8, <2>1, <2>4
  <2> HIDE DEF S
  <2>6. a \in F /\ b \in F /\ Append(a, c) = b /\ c # "," /\ text[p + (k + 1)] = c
    BY <1>1, <1>6, <2>1, <2>2, <2>3, <2>4
  <2>7. p + (k + 1) \in 1..N /\ (p + (k + 1)) - 1 = p + k
    BY <1>1, <1>4, WithinText
  <2>8. PICK q : q = Append(fields, a)
    OBVIOUS
  <2>9. G[p + (k + 1)] = [q EXCEPT ![Len(q)] = Append(q[Len(q)], c)]
    <3>1. PICK j \in 1..N : j = p + (k + 1) /\ j - 1 = p + k
      BY <2>7
    <3>2. G[j - 1] = q /\ text[j] = c
      BY <2>5, <2>6, <2>8, <3>1
    <3>3. G[j] = [G[j - 1] EXCEPT ![Len(G[j - 1])] = Append(@, text[j])]
      BY <1>5, <2>6, <3>2
    <3>4. QED
      BY <3>1, <3>2, <3>3
  <2>10. q[Len(q)] = a /\ [q EXCEPT ![Len(q)] = b] = Append(fields, b)
    <3>1. fields \in Seq(F) /\ a \in F /\ b \in F
      BY <1>5, <2>6
    <3>2. /\ Append(fields, a)[Len(Append(fields, a))] = a
          /\ [Append(fields, a) EXCEPT ![Len(Append(fields, a))] = b] = Append(fields, b)
      BY <3>1, LastFacts
    <3>3. QED
      BY <2>8, <3>2
  <2>11. QED
    BY <2>2, <2>6, <2>9, <2>10
<1>9. L \in S
  <2> HIDE DEF S
  <2>1. QED
    BY <1>7, <1>8, Closed
<1>10. G[p + L] = Append(fields, SubSeq(t, 1, L))
  BY <1>9
<1> HIDE DEF S
<1>11. QED
  BY <1>1, <1>2, <1>6, <1>10

LEMMA PrefixFacts ==
  ASSUME NEW T, NEW s \in Seq(T), NEW t \in Seq(T), NEW u \in Seq(T),
         Prefix(s, t), Prefix(t, u)
  PROVE  Prefix(s, u)
<1>1. Len(s) \in Nat /\ Len(t) \in Nat /\ Len(u) \in Nat /\ Len(s) <= Len(t) /\ Len(t) <= Len(u)
  BY DEF Prefix
<1>2. \A k \in 1..Len(s) : k \in 1..Len(t)
  BY <1>1
<1>3. \A k \in 1..Len(s) : u[k] = s[k]
  BY <1>2 DEF Prefix
<1>4. QED
  BY <1>1, <1>3 DEF Prefix

LEMMA JoinGrows ==
  ASSUME NEW texts \in Seq(Seq(Tokens)), NEW j \in 0..Len(texts)
  PROVE  Prefix(JoinedUpTo(texts)[j], Joined(texts))
<1> DEFINE N == Len(texts)
           J == JoinedUpTo(texts)
<1>1. N \in Nat /\ j \in Nat /\ j <= N
  OBVIOUS
<1> DEFINE S == {d \in Nat : j + d <= N => Prefix(J[j], J[j + d])}
<1>2. \A k \in 0..N : J[k] \in Seq(Tokens)
  BY JoinedFacts
<1>3. \A k \in 1..N : Prefix(J[k - 1], J[k])
  <2> TAKE k \in 1..N
  <2>1. k - 1 \in 0..N /\ k \in 0..N /\ k # 0
    BY <1>1
  <2>2. PICK s : s = J[k - 1]
    OBVIOUS
  <2>3. s \in Seq(Tokens)
    BY <1>2, <2>1, <2>2
  <2>4. CASE k = 1
    <3>0. 0 \in 0..N /\ k - 1 = 0
      BY <1>1, <2>4
    <3>1. s = <<>>
      BY <2>2, <3>0, JoinedFacts DEF Empty
    <3>2. Len(J[k]) \in Nat
      BY <1>2, <2>1
    <3> HIDE DEF J
    <3>3. QED
      BY <2>2, <3>1, <3>2 DEF Prefix
  <2>5. CASE k # 1
    <3>1. "," \in Tokens
      BY DEF Tokens
    <3>2. PICK t \in Seq(Tokens) : t = texts[k]
      <4>1. PICK D : D = Seq(Tokens)
        OBVIOUS
      <4>2. texts \in Seq(D)
        BY <4>1
      <4>3. texts[k] \in D
        BY <4>2
      <4>4. QED
        BY <4>1, <4>3
    <3>3. J[k] = (s \o <<",">>) \o t
      BY <2>1, <2>2, <2>5, <3>2, JoinedFacts
    <3> HIDE DEF J
    <3>4. Prefix(s, (s \o <<",">>) \o t)
      <4>1. Len(s) \in Nat /\ Len(t) \in Nat
        BY <2>3, <3>2
      <4>2. MadeOf((s \o <<",">>) \o t, s, ",", t)
        BY <2>3, <3>1, <3>2, BetweenFacts
      <4>3. PICK u : u = (s \o <<",">>) \o t
        OBVIOUS
      <4>4. Len(u) = Len(s) + 1 + Len(t) /\ \A i \in 1..Len(s) : u[i] = s[i]
        BY <4>2, <4>3 DEF MadeOf
      <4>5. Len(s) <= Len(u)
        BY <4>1, <4>4
      <4>6. QED
        BY <4>3, <4>4, <4>5 DEF Prefix
    <3>5. QED
      BY <2>2, <3>3, <3>4
  <2>6. QED
    BY <2>4, <2>5
<1> HIDE DEF J, N
<1>4. 0 \in S
  <2>1. J[j] \in Seq(Tokens) /\ j + 0 = j
    BY <1>1, <1>2
  <2>2. Prefix(J[j], J[j])
    BY <2>1 DEF Prefix
  <2>3. QED
    BY <2>1, <2>2
<1>5. ASSUME NEW d \in Nat, d \in S PROVE d + 1 \in S
  <2> SUFFICES ASSUME j + (d + 1) <= N PROVE Prefix(J[j], J[j + (d + 1)])
    OBVIOUS
  <2>1. /\ j + (d + 1) \in 1..N /\ (j + (d + 1)) - 1 = j + d /\ j + d <= N
        /\ j \in 0..N /\ j + d \in 0..N /\ j + (d + 1) \in 0..N
    BY <1>1
  <2>2. Prefix(J[j], J[j + d])
    BY <1>5, <2>1
  <2>3. Prefix(J[j + d], J[j + (d + 1)])
    BY <1>3, <2>1
  <2>4. QED
    BY <1>2, <2>1, <2>2, <2>3, PrefixFacts
<1>6. N - j \in S
  <2> HIDE DEF S
  <2>1. N - j \in Nat
    BY <1>1
  <2>2. QED
    BY <1>4, <1>5, <2>1, Closed
<1>7. Prefix(J[j], J[N])
  BY <1>1, <1>6, j + (N - j) = N
<1>8. QED
  BY <1>7, JoinedFacts DEF J, N

LEMMA AddressesText ==
  ASSUME NEW texts \in Seq(Addresses)
  PROVE  texts \in Seq(Seq(Tokens)) /\ \A k \in 1..Len(texts) : texts[k] \in Addresses
<1>1. Addresses \subseteq Seq(Tokens)
  <2> SUFFICES ASSUME NEW a \in Addresses PROVE a \in Seq(Tokens)
    OBVIOUS
  <2>1. a \in Seq(STRING)
    BY DEF Addresses
  <2>2. QED
    BY <2>1, SeqWider DEF Tokens
<1>2. PICK A : A = Addresses
  OBVIOUS
<1>3. texts \in Seq(A)
  BY <1>2
<1>4. \A k \in 1..Len(texts) : texts[k] \in A
  BY <1>3
<1>5. QED
  BY <1>1, <1>2, <1>3, <1>4, SeqWider

\* What was joined is split into what it was joined from.
LEMMA SplitJoined ==
  ASSUME NEW texts \in Seq(Addresses), texts # <<>>
  PROVE  Joined(texts) # Empty /\ SplitAtCommas(Joined(texts)) = texts
<1>1. PICK D : D = Seq(Tokens) /\ \A x \in D : x \in Seq(Tokens) /\ Len(x) \in Nat
  OBVIOUS
<1>2. PICK N \in Nat : N = Len(texts)
  OBVIOUS
<1>3. N >= 1
  BY <1>2
<1>4. texts \in Seq(D) /\ \A k \in 1..N : texts[k] \in Addresses /\ texts[k] \in D
  <2>1. texts \in Seq(D) /\ \A k \in 1..N : texts[k] \in Addresses
    BY <1>1, <1>2, AddressesText
  <2>2. QED
    BY <1>2, <2>1
<1>5. PICK text : text = Joined(texts)
  OBVIOUS
<1>6. PICK J : J = JoinedUpTo(texts)
  OBVIOUS
<1>7. /\ text = J[N] /\ J[1] = texts[1]
      /\ \A k \in 0..N : J[k] \in D
      /\ \A k \in 2..N : J[k] = (J[k - 1] \o <<",">>) \o texts[k]
  <2>1. \A k \in 0..N :
          /\ J[k] \in D
          /\ J[k] = IF k = 0 THEN Empty
                    ELSE IF k = 1 THEN texts[1] ELSE (J[k - 1] \o <<",">>) \o texts[k]
    BY <1>1, <1>2, <1>4, <1>6, JoinedFacts
  <2>2. text = J[N]
    BY <1>1, <1>2, <1>4, <1>5, <1>6, JoinedFacts
  <2>3. 1 \in 0..N /\ \A k \in 2..N : k \in 0..N /\ k # 0 /\ k # 1
    BY <1>2, <1>3
  <2>4. QED
    BY <2>1, <2>2, <2>3
<1>8. text \in D /\ \A k \in 0..N : Prefix(J[k], text)
  <2>1. \A k \in 0..N : Prefix(J[k], text)
    BY <1>1, <1>2, <1>4, <1>5, <1>6, JoinGrows
  <2>2. N \in 0..N
    BY <1>2
  <2>3. QED
    BY <1>7, <2>1, <2>2
<1>9. PICK G : G = SplitUpTo(text)
  OBVIOUS
<1>10. SplitAtCommas(text) = G[Len(text)] /\ G[0] = <<Empty>>
  BY <1>1, <1>8, <1>9, SplitFacts
<1>11. text # Empty
  <2>1. 1 \in 0..N /\ 1 \in 1..N
    BY <1>3
  <2>2. Prefix(texts[1], text) /\ texts[1] \in Addresses /\ texts[1] \in D
    BY <1>4, <1>7, <1>8, <2>1
  <2>3. PICK a \in Seq(Tokens) : a = texts[1] /\ a # <<>>
    BY <1>1, <2>2 DEF Addresses, Empty
  <2>4. Len(a) \in Nat /\ Len(a) # 0
    BY <2>3
  <2>5. Len(text) # 0
    BY <1>1, <1>8, <2>2, <2>3, <2>4 DEF Prefix
  <2>6. QED
    BY <1>1, <1>8, <2>5 DEF Empty
<1> DEFINE S == {k \in Nat : k + 1 <= N => G[Len(J[k + 1])] = SubSeq(texts, 1, k + 1)}
<1>12. 0 \in S
  <2>1. PICK a : a = texts[1]
    OBVIOUS
  <2>2. a \in Addresses /\ a \in D /\ J[1] = a /\ Prefix(a, text)
    <3>1. 1 \in 0..N /\ 1 \in 1..N
      BY <1>3
    <3>2. QED
      BY <1>4, <1>7, <1>8, <2>1, <3>1
  <2>3. Len(a) \in Nat /\ Len(text) \in Nat
    BY <1>1, <1>8, <2>2
  <2>4. LiesAt(a, text, 0)
    <3>1. Len(a) <= Len(text) /\ \A k \in 1..Len(a) : text[k] = a[k]
      BY <2>2 DEF Prefix
    <3>2. \A k \in 1..Len(a) : 0 + k = k
      OBVIOUS
    <3>3. QED
      BY <2>3, <3>1, <3>2 DEF LiesAt
  <2>5. <<>> \in Seq(Seq(Tokens)) /\ G[0] = Append(<<>>, Empty)
    BY <1>10
  <2>6. G[0 + Len(a)] = Append(<<>>, a)
    <3>1. text \in Seq(Tokens) /\ a \in Addresses /\ 0 \in Nat
      BY <1>1, <1>8, <2>2
    <3>2. SplitUpTo(text)[0] = Append(<<>>, Empty)
      BY <1>9, <2>5
    <3>3. SplitUpTo(text)[0 + Len(a)] = Append(<<>>, a)
      BY <2>4, <2>5, <3>1, <3>2, FieldRead
    <3>4. QED
      BY <1>9, <3>3
  <2>7. Append(<<>>, a) = SubSeq(texts, 1, 1)
    BY <1>2, <1>3, <1>4, <2>1
  <2>8. QED
    BY <2>2, <2>3, <2>6, <2>7
<1>13. ASSUME NEW k \in Nat, k \in S PROVE k + 1 \in S
  <2> SUFFICES ASSUME (k + 1) + 1 <= N
               PROVE  G[Len(J[(k + 1) + 1])] = SubSeq(texts, 1, (k + 1) + 1)
    OBVIOUS
  <2>1. PICK i \in 1..N : i = k + 1 /\ i + 1 \in 2..N /\ i + 1 \in 1..N /\ (i + 1) - 1 = i
                          /\ i \in 0..N /\ i + 1 \in 0..N /\ i \in 0..(N - 1)
    BY <1>2
  <2>2. G[Len(J[i])] = SubSeq(texts, 1, i)
    BY <1>13, <2>1
  <2> HIDE DEF S
  <2>3. PICK s : s = J[i]
    OBVIOUS
  <2>4. PICK t : t = texts[i + 1]
    OBVIOUS
  <2>5. PICK u : u = J[i + 1]
    OBVIOUS
  <2>6. s \in D /\ u \in D /\ t \in D /\ t \in Addresses /\ Prefix(u, text) /\ u = (s \o <<",">>) \o t
    BY <1>4, <1>7, <1>8, <2>1, <2>3, <2>4, <2>5
  <2>7. PICK p \in Nat : p = Len(s)
    BY <1>1, <2>6
  <2>8. PICK len \in Nat, end \in Nat : len = Len(t) /\ end = Len(text)
    BY <1>1, <1>8, <2>6
  <2>9. /\ Len(u) = (p + 1) + len /\ (p + 1) + len <= end
        /\ text[p + 1] = "," /\ \A j \in 1..len : text[(p + 1) + j] = t[j]
    <3>1. Len(u) = (p + 1) + len /\ u[p + 1] = "," /\ \A j \in 1..len : u[(p + 1) + j] = t[j]
      <4>1. "," \in Tokens /\ s \in Seq(Tokens) /\ t \in Seq(Tokens)
        BY <1>1, <2>6 DEF Tokens
      <4>2. MadeOf(u, s, ",", t)
        BY <2>6, <4>1, BetweenFacts
      <4>3. QED
        BY <2>7, <2>8, <4>2 DEF MadeOf
    <3>2. Len(u) <= end /\ \A j \in 1..Len(u) : text[j] = u[j]
      BY <2>6, <2>8 DEF Prefix
    <3>3. p + 1 \in 1..((p + 1) + len) /\ \A j \in 1..len : (p + 1) + j \in 1..((p + 1) + len)
      <4>1. p \in Nat /\ len \in Nat
        OBVIOUS
      <4>2. QED
        BY <4>1
    <3>4. QED
      BY <3>1, <3>2, <3>3
  <2>10. PICK fields : fields = SubSeq(texts, 1, i)
    OBVIOUS
  <2>11. fields \in Seq(D) /\ Append(fields, t) = SubSeq(texts, 1, i + 1)
    BY <1>2, <1>4, <2>1, <2>4, <2>10, BeginningFacts
  <2>12. G[p + 1] = Append(fields, Empty)
    <3>1. p + 1 \in 1..Len(text) /\ (p + 1) - 1 = p
      <4>1. p \in Nat /\ len \in Nat /\ end \in Nat /\ (p + 1) + len <= end
        BY <2>9
      <4>2. p + 1 \in 1..end /\ (p + 1) - 1 = p
        BY <4>1
      <4>3. QED
        BY <2>8, <4>2
    <3>2. G[p] = fields
      BY <2>2, <2>3, <2>7, <2>10
    <3>3. text \in Seq(Tokens) /\ text[p + 1] = ","
      BY <1>1, <1>8, <2>9
    <3>4. SplitUpTo(text)[p + 1] = Append(SplitUpTo(text)[(p + 1) - 1], Empty)
      BY <3>1, <3>3, SplitFacts
    <3>5. QED
      BY <1>9, <3>1, <3>2, <3>4
  <2>13. p + 1 \in Nat
    BY <2>7
  <2>14. LiesAt(t, text, p + 1)
    BY <2>8, <2>9 DEF LiesAt
  <2>15. G[(p + 1) + Len(t)] = Append(fields, t)
    <3>1. text \in Seq(Tokens) /\ fields \in Seq(Seq(Tokens)) /\ t \in Addresses
      BY <1>1, <1>8, <2>6, <2>11
    <3>2. SplitUpTo(text)[p + 1] = Append(fields, Empty)
      BY <1>9, <2>12
    <3>3. SplitUpTo(text)[(p + 1) + Len(t)] = Append(fields, t)
      BY <2>13, <2>14, <3>1, <3>2, FieldRead
    <3>4. QED
      BY <1>9, <3>3
  <2>16. QED
    BY <2>1, <2>5, <2>8, <2>9, <2>11, <2>15
<1>14. PICK k \in Nat : N = k + 1
  BY <1>2, <1>3, N - 1 \in Nat
<1>15. k \in S
  <2> HIDE DEF S
  <2>1. QED
    BY <1>12, <1>13, Closed
<1>16. G[Len(J[N])] = SubSeq(texts, 1, N)
  BY <1>14, <1>15
<1>17. SubSeq(texts, 1, N) = texts
  BY <1>2, <1>4, BeginningFacts
<1> HIDE DEF S
<1>18. QED
  BY <1>5, <1>7, <1>10, <1>11, <1>16, <1>17

-----------------------------------------------------------------------------
(* A row that was cut short is read back by position. *)

LEMMA GreatestElement ==
  ASSUME NEW e \in Nat, NEW S \in SUBSET (1..e), S # {}
  PROVE  \E m \in S : \A k \in S : k <= m
<1> DEFINE Back == {e - k : k \in S}
<1>1. \A k \in S : k \in 1..e /\ e - k \in Nat
  OBVIOUS
<1>2. Back \in SUBSET Nat /\ Back # {}
  BY <1>1
<1>3. PICK b \in Back : \A k \in Back : b <= k
  <2> HIDE DEF Back
  <2>1. QED
    BY <1>2, LeastElement
<1>4. PICK m \in S : b = e - m
  OBVIOUS
<1>5. \A k \in S : e - m <= e - k
  BY <1>3, <1>4
<1>6. \A k \in S : k <= m
  BY <1>1, <1>5
<1>7. QED
  BY <1>6

\* What is cut off says nothing.
LEMMA TrimFacts ==
  ASSUME NEW S, NEW cells \in Seq(S), Len(cells) >= 1
  PROVE  \E m \in 1..Len(cells) :
           /\ trimTrailing(cells) = SubSeq(cells, 1, m)
           /\ \A i \in 1..Len(cells) : i > m => Blank(cells[i])
<1> DEFINE kept == {i \in DOMAIN cells : ~Blank(cells[i])} \cup {1}
<1>1. PICK e \in Nat : e = Len(cells) /\ DOMAIN cells = 1..e /\ e >= 1
  OBVIOUS
<1>2. kept \in SUBSET (1..e) /\ kept # {} /\ \A i \in 1..e : i \notin kept => Blank(cells[i])
  BY <1>1
<1>3. trimTrailing(cells) = SubSeq(cells, 1, CHOOSE i \in kept : \A k \in kept : k <= i)
  BY DEF trimTrailing
<1> HIDE DEF kept
<1>4. PICK m : m = CHOOSE i \in kept : \A k \in kept : k <= i
  OBVIOUS
<1>5. m \in kept /\ \A k \in kept : k <= m
  BY <1>2, <1>4, GreatestElement
<1>6. m \in 1..e /\ \A i \in 1..e : i > m => i \notin kept
  BY <1>2, <1>5
<1>7. QED
  BY <1>1, <1>2, <1>3, <1>4, <1>6

LEMMA CellFacts ==
  ASSUME NEW S, NEW cells \in Seq(S), NEW i \in 1..Len(cells), NEW v
  PROVE  /\ cells[i] = Cell("string", v) => str(ThroughJSON(trimTrailing(cells)), i) = v
         /\ cells[i] \in {Cell("int", v), Cell("int64", v)} =>
              num(ThroughJSON(trimTrailing(cells)), i) = v
<1>1. PICK e \in Nat : e = Len(cells) /\ e >= 1 /\ i \in 1..e
  OBVIOUS
<1>2. PICK m \in 1..e : /\ trimTrailing(cells) = SubSeq(cells, 1, m)
                        /\ \A k \in 1..e : k > m => Blank(cells[k])
  BY <1>1, TrimFacts
<1>3. PICK w : w = trimTrailing(cells)
  OBVIOUS
<1>4. DOMAIN w = 1..m /\ \A k \in 1..m : w[k] = cells[k]
  BY <1>1, <1>2, <1>3
<1>5. PICK read : read = ThroughJSON(w)
  OBVIOUS
<1>6. /\ DOMAIN read = 1..m
      /\ i \in 1..m => read[i] = [cells[i] EXCEPT !.type = IF @ = "string" THEN @ ELSE "float64"]
  BY <1>4, <1>5 DEF ThroughJSON
<1>7. CASE i \in 1..m
  <2>1. PICK c : c = cells[i]
    OBVIOUS
  <2>2. c = Cell("string", v) => read[i].type = "string" /\ read[i].value = v
    BY <1>6, <1>7, <2>1 DEF Cell
  <2>3. c \in {Cell("int", v), Cell("int64", v)} => read[i].type = "float64" /\ read[i].value = v
    BY <1>6, <1>7, <2>1 DEF Cell
  <2>4. QED
    BY <1>3, <1>5, <1>6, <1>7, <2>1, <2>2, <2>3 DEF str, num
<1>8. CASE i \notin 1..m
  <2>1. Blank(cells[i])
    BY <1>1, <1>2, <1>8
  <2>2. str(read, i) = Empty /\ num(read, i) = Zero
    BY <1>6, <1>8 DEF str, num
  <2>3. cells[i] = Cell("string", v) => v = Empty
    BY <2>1 DEF Blank, Cell
  <2>4. cells[i] \in {Cell("int", v), Cell("int64", v)} => v = Zero
    BY <2>1 DEF Blank, Cell
  <2>5. QED
    BY <1>3, <1>5, <2>2, <2>3, <2>4
<1>9. QED
  BY <1>7, <1>8

LEMMA NothingJoined == Joined(<<>>) = Empty
<1>1. PICK texts : texts = <<>>
  OBVIOUS
<1>2. texts \in Seq(Seq(Tokens)) /\ Len(texts) = 0 /\ 0 \in 0..0
  BY <1>1
<1>3. Joined(texts) = JoinedUpTo(texts)[0] /\ JoinedUpTo(texts)[0] = Empty
  BY <1>2, JoinedFacts
<1>4. QED
  BY <1>1, <1>3

LEMMA NicRead ==
  ASSUME NEW nic, NicShape(nic), nic.ips \in Seq(Addresses), nic.state # Empty, NEW minimal \in BOOLEAN
  PROVE  toNIC(ThroughJSON(trimTrailing(NicRow(nic, minimal)))) =
           [nic EXCEPT !.pci = Unless(minimal, @)]
<1>1. PICK cells : cells = NicRow(nic, minimal)
  OBVIOUS
<1>2. PICK ips : ips = Joined(nic.ips)
  OBVIOUS
<1>3. PICK pci : pci = Unless(minimal, nic.pci)
  OBVIOUS
<1>4. cells = <<Cell("string", nic.name), Cell("string", nic.mac), Cell("int", nic.speed),
               Cell("string", nic.state), Cell("string", ips), Cell("string", pci),
               Cell("string", nic.switch), Cell("string", nic.port)>>
  BY <1>1, <1>2, <1>3 DEF NicRow
<1>5. /\ cells[1] = Cell("string", nic.name) /\ cells[2] = Cell("string", nic.mac)
      /\ cells[3] = Cell("int", nic.speed) /\ cells[4] = Cell("string", nic.state)
      /\ cells[5] = Cell("string", ips) /\ cells[6] = Cell("string", pci)
      /\ cells[7] = Cell("string", nic.switch) /\ cells[8] = Cell("string", nic.port)
  BY <1>4
<1>6. PICK S : cells \in Seq(S) /\ Len(cells) = 8
  <2>1. cells \in Seq({Cell("string", nic.name), Cell("string", nic.mac), Cell("int", nic.speed),
               Cell("string", nic.state), Cell("string", ips), Cell("string", pci),
               Cell("string", nic.switch), Cell("string", nic.port)})
    BY <1>4
  <2>2. Len(cells) = 8
    BY <1>4
  <2>3. QED
    BY <2>1, <2>2
<1>7. PICK read : read = ThroughJSON(trimTrailing(cells))
  OBVIOUS
<1>8. ASSUME NEW i \in 1..8, NEW v
      PROVE  /\ cells[i] = Cell("string", v) => str(read, i) = v
             /\ cells[i] = Cell("int", v) => num(read, i) = v
  <2>1. i \in 1..Len(cells)
    BY <1>6
  <2>2. /\ cells[i] = Cell("string", v) => str(ThroughJSON(trimTrailing(cells)), i) = v
        /\ cells[i] \in {Cell("int", v), Cell("int64", v)} =>
             num(ThroughJSON(trimTrailing(cells)), i) = v
    BY <1>6, <2>1, CellFacts
  <2>3. QED
    BY <1>7, <2>2
<1>9. /\ str(read, 1) = nic.name /\ str(read, 2) = nic.mac /\ num(read, 3) = nic.speed
      /\ str(read, 4) = nic.state /\ str(read, 5) = ips /\ str(read, 6) = pci
      /\ str(read, 7) = nic.switch /\ str(read, 8) = nic.port
  BY <1>5, <1>8
<1>10. (IF str(read, 5) = Empty THEN <<>> ELSE SplitAtCommas(str(read, 5))) = nic.ips
  <2>1. CASE nic.ips = <<>>
    <3>1. ips = Empty
      BY <1>2, <2>1, NothingJoined
    <3>2. QED
      BY <1>9, <2>1, <3>1
  <2>2. CASE nic.ips # <<>>
    BY <1>2, <1>9, <2>2, SplitJoined
  <2>3. QED
    BY <2>1, <2>2
<1>11. toNIC(read) = [name |-> nic.name, mac |-> nic.mac, speed |-> nic.speed, state |-> nic.state,
                      ips |-> nic.ips, pci |-> pci, switch |-> nic.switch, port |-> nic.port]
  BY <1>9, <1>10 DEF toNIC
<1>12. [nic EXCEPT !.pci = pci] =
         [name |-> nic.name, mac |-> nic.mac, speed |-> nic.speed, state |-> nic.state,
          ips |-> nic.ips, pci |-> pci, switch |-> nic.switch, port |-> nic.port]
  BY DEF NicShape
<1>13. [nic EXCEPT !.pci = Unless(minimal, @)] = [nic EXCEPT !.pci = pci]
  BY <1>3
<1>14. QED
  BY <1>1, <1>7, <1>11, <1>12, <1>13

LEMMA DiskRead ==
  ASSUME NEW disk, DiskShape(disk), NEW minimal \in BOOLEAN
  PROVE  toDisk(ThroughJSON(trimTrailing(DiskRow(disk, minimal)))) =
           [disk EXCEPT !.model = Unless(minimal, @), !.wwn = Unless(minimal, @)]
<1>1. PICK cells : cells = DiskRow(disk, minimal)
  OBVIOUS
<1>2. PICK model : model = Unless(minimal, disk.model)
  OBVIOUS
<1>3. PICK wwn : wwn = Unless(minimal, disk.wwn)
  OBVIOUS
<1>4. cells = <<Cell("string", disk.name), Cell("int64", disk.size), Cell("string", disk.serial),
                Cell("string", model), Cell("string", disk.type), Cell("string", wwn)>>
  BY <1>1, <1>2, <1>3 DEF DiskRow
<1>5. /\ cells[1] = Cell("string", disk.name) /\ cells[2] = Cell("int64", disk.size)
      /\ cells[3] = Cell("string", disk.serial) /\ cells[4] = Cell("string", model)
      /\ cells[5] = Cell("string", disk.type) /\ cells[6] = Cell("string", wwn)
  BY <1>4
<1>6. PICK S : cells \in Seq(S) /\ Len(cells) = 6
  <2>1. cells \in Seq({Cell("string", disk.name), Cell("int64", disk.size), Cell("string", disk.serial),
                Cell("string", model), Cell("string", disk.type), Cell("string", wwn)})
    BY <1>4
  <2>2. Len(cells) = 6
    BY <1>4
  <2>3. QED
    BY <2>1, <2>2
<1>7. PICK read : read = ThroughJSON(trimTrailing(cells))
  OBVIOUS
<1>8. ASSUME NEW i \in 1..6, NEW v
      PROVE  /\ cells[i] = Cell("string", v) => str(read, i) = v
             /\ cells[i] = Cell("int64", v) => num(read, i) = v
  <2>1. i \in 1..Len(cells)
    BY <1>6
  <2>2. /\ cells[i] = Cell("string", v) => str(ThroughJSON(trimTrailing(cells)), i) = v
        /\ cells[i] \in {Cell("int", v), Cell("int64", v)} =>
             num(ThroughJSON(trimTrailing(cells)), i) = v
    BY <1>6, <2>1, CellFacts
  <2>3. QED
    BY <1>7, <2>2
<1>9. /\ str(read, 1) = disk.name /\ num(read, 2) = disk.size /\ str(read, 3) = disk.serial
      /\ str(read, 4) = model /\ str(read, 5) = disk.type /\ str(read, 6) = wwn
  BY <1>5, <1>8
<1>10. toDisk(read) = [name |-> disk.name, size |-> disk.size, serial |-> disk.serial,
                       model |-> model, type |-> disk.type, wwn |-> wwn]
  BY <1>9 DEF toDisk
<1>11. [disk EXCEPT !.model = Unless(minimal, @), !.wwn = Unless(minimal, @)] =
         [name |-> disk.name, size |-> disk.size, serial |-> disk.serial,
          model |-> model, type |-> disk.type, wwn |-> wwn]
  <2>1. PICK half : half = [disk EXCEPT !.model = model]
    OBVIOUS
  <2>2. half = [name |-> disk.name, size |-> disk.size, serial |-> disk.serial,
                model |-> model, type |-> disk.type, wwn |-> disk.wwn]
    BY <2>1 DEF DiskShape
  <2>3. [half EXCEPT !.wwn = wwn] =
          [name |-> disk.name, size |-> disk.size, serial |-> disk.serial,
           model |-> model, type |-> disk.type, wwn |-> wwn]
    BY <2>2
  <2>4. [disk EXCEPT !.model = Unless(minimal, @), !.wwn = Unless(minimal, @)] =
          [half EXCEPT !.wwn = wwn]
    BY <1>2, <1>3, <2>1, <2>2
  <2>5. QED
    BY <2>3, <2>4
<1>12. QED
  BY <1>1, <1>7, <1>10, <1>11

-----------------------------------------------------------------------------
(* What is collected can be read back. *)

\* A state that was read is never empty: toNIC takes an empty one for
\* unknown.
StateSaid ==
  /\ pc = "read" /\ walk = "nics" /\ field > 2 => row.state # Empty
  /\ \A k \in DOMAIN inv.nics : inv.nics[k].state # Empty

LEMMA ReadStateSaid ==
  ASSUME Shape, StateSaid, pc = "read", walk = "nics", field > 1
  PROVE  Read.state # Empty
<1>1. ReadShape /\ walk \in Walks
  BY DEF Shape
<1>2. field \in {1, 2, 3, 4} /\ (field = 2 <=> Attr = "state")
  BY <1>1, AttrFacts DEF ReadShape
<1>3. CASE field = 2
  <2>1. Attr = "state" /\ Read[Attr] = Value(Current, Attr, From, Text)
    BY <1>1, <1>2, <1>3, ReadShaped
  <2>2. Read.state = Value(Current, "state", From, Text)
    BY <2>1
  <2>3. Value(Current, "state", From, Text) = IF Text = Empty THEN <<"unknown">> ELSE Text
    BY ValueFacts
  <2>4. <<"unknown">> # Empty
    BY DEF Empty
  <2>5. QED
    BY <2>2, <2>3, <2>4
<1>4. CASE field # 2
  <2>1. Read.state = row.state
    BY <1>1, <1>2, <1>4, ReadShaped
  <2>2. field > 2
    BY <1>2, <1>4
  <2>3. QED
    BY <2>1, <2>2 DEF StateSaid
<1>5. QED
  BY <1>3, <1>4

LEMMA StateSaidStep ==
  ASSUME Shape, StateSaid, [Next]_vars
  PROVE  StateSaid'
<1>1. CASE UNCHANGED <<pc, walk, field, row, inv>>
  BY <1>1 DEF StateSaid
<1>2. CASE inv'.nics = inv.nics /\ pc' # "read"
  BY <1>2 DEF StateSaid
<1>3. CASE NextEntry
  <2>1. UNCHANGED inv /\ pc = "entry" /\ (pc' = pc \/ field' = 1)
    BY <1>3 DEF NextEntry
  <2>2. ~(field' > 2) \/ pc' # "read"
    BY <2>1
  <2>3. QED
    BY <2>1, <2>2 DEF StateSaid
<1>4. CASE ReadAttribute
  <2>1. pc = "read" /\ UNCHANGED walk /\ (Asks \/ Drops \/ Continues \/ Ends) /\ ReadShape
        /\ walk \in Walks
    BY <1>4, ReadCases DEF Shape
  <2>2. CASE Asks
    BY <1>1, <2>1, <2>2 DEF Asks
  <2>3. CASE Drops
    BY <1>2, <2>1, <2>3 DEF Drops
  <2>4. CASE Continues
    <3>1. row' = Read /\ field' = field + 1 /\ UNCHANGED inv
      BY <2>4 DEF Continues
    <3>2. ASSUME walk = "nics", field' > 2 PROVE Read.state # Empty
      <4>1. field \in Nat
        BY <2>1, AttrFacts DEF ReadShape
      <4>2. field > 1
        BY <3>1, <3>2, <4>1
      <4>3. QED
        BY <2>1, <3>2, <4>2, ReadStateSaid
    <3>3. QED
      BY <2>1, <3>1, <3>2 DEF StateSaid
  <2>5. CASE Ends
    <3>1. pc' = "entry" /\ inv'[walk] = Append(inv[walk], Read)
          /\ \A w \in Walks \ {walk} : inv'[w] = inv[w]
      BY <2>1, <2>5, EndsFacts DEF Ends
    <3>2. CASE walk = "disks"
      <4>1. inv'.nics = inv.nics
        BY <3>1, <3>2 DEF Walks
      <4>2. QED
        BY <1>2, <3>1, <4>1
    <3>3. CASE walk = "nics"
      <4>1. Read.state # Empty
        <5>1. field = 4
          <6>1. field \in {1, 2, 3, 4} /\ Len(Fields(walk)) = 4
            BY <2>1, <3>3, AttrFacts DEF ReadShape
          <6>2. QED
            BY <2>5, <6>1 DEF Ends
        <5>2. QED
          BY <2>1, <3>3, <5>1, ReadStateSaid
      <4>2. PICK r : r = Read
        OBVIOUS
      <4>3. \E S : inv.nics \in Seq(S)
        BY DEF Shape, RowsShape, Walks
      <4>4. inv'.nics = Append(inv.nics, r)
        BY <3>1, <3>3, <4>2
      <4>5. /\ DOMAIN Append(inv.nics, r) = DOMAIN inv.nics \cup {Len(inv.nics) + 1}
            /\ \A k \in DOMAIN inv.nics : Append(inv.nics, r)[k] = inv.nics[k]
            /\ Append(inv.nics, r)[Len(inv.nics) + 1] = r
        BY <4>3, AppendFacts
      <4>6. QED
        BY <3>1, <4>1, <4>2, <4>4, <4>5 DEF StateSaid
    <3>4. QED
      BY <2>1, <3>2, <3>3 DEF Walks
  <2>6. QED
    BY <2>1, <2>2, <2>3, <2>4, <2>5
<1>5. CASE ApplyNeighbours
  <2>1. /\ DOMAIN inv'.nics = DOMAIN inv.nics /\ pc' = "done"
        /\ \A k \in DOMAIN inv.nics : inv'.nics[k].state = inv.nics[k].state
    BY <1>5, NeighboursShape DEF ApplyNeighbours
  <2>2. QED
    BY <2>1 DEF StateSaid
<1>6. CASE ApplyDMI \/ ApplySystem
  <2>1. inv'.nics = inv.nics /\ pc' # "read"
    BY <1>6, FactsShape DEF ApplyDMI, ApplySystem
  <2>2. QED
    BY <1>2, <2>1
<1>7. CASE ReadDir \/ InterfaceAddrs \/ LinksByID \/ WwnsByID \/ EndOfWalk
  <2>1. inv' = inv /\ pc' # "read"
    BY <1>7 DEF ReadDir, InterfaceAddrs, LinksByID, WwnsByID, EndOfWalk
  <2>2. QED
    BY <1>2, <2>1
<1>8. CASE UNCHANGED vars \/ \E n \in Names : Unplug(n) \/ Plug(n) \/ Udev(n)
  BY <1>1, <1>8 DEF vars, Unplug, Plug, Udev
<1>9. QED
  BY <1>3, <1>4, <1>5, <1>6, <1>7, <1>8 DEF Next, Collector

LEMMA AlwaysSaid == Spec => []StateSaid
<1>1. Init => StateSaid
  BY DEF Init, StateSaid
<1>2. Shape /\ StateSaid /\ [Next]_vars => StateSaid'
  BY StateSaidStep
<1>3. QED
  BY <1>1, <1>2, AlwaysShape, PTL DEF Spec

\* The addresses of a row are those of a device, or none.
LEMMA RowsReadable ==
  ASSUME Shape, Seen, StateSaid
  PROVE  /\ \A k \in DOMAIN inv.nics :
              /\ NicShape(inv.nics[k]) /\ inv.nics[k].ips \in Seq(Addresses)
              /\ inv.nics[k].state # Empty
         /\ \A k \in DOMAIN inv.disks : DiskShape(inv.disks[k])
<1>1. ASSUME NEW k \in DOMAIN inv.nics
      PROVE  /\ NicShape(inv.nics[k]) /\ inv.nics[k].ips \in Seq(Addresses)
             /\ inv.nics[k].state # Empty
  <2>1. PICK e \in DOMAIN NamesOf("nics") : inv.nics[k].name = <<NamesOf("nics")[e]>>
    BY DEF Shape, RowsShape, Walks
  <2>2. PICK n \in Names : n = NamesOf("nics")[e] /\ KindOf(n) = "nics"
    BY NamesFacts DEF Walks
  <2>3. SeenRow(n, ever[n], opts.useUdev, inv.nics[k])
    BY <2>1, <2>2 DEF Seen, RowsSeen, Walks
  <2>4. inv.nics[k].ips = <<>> \/ \E d \in Devices : inv.nics[k].ips = Routable(d)
    BY <2>2, <2>3 DEF SeenRow, Seen, WorldSeen
  <2>5. inv.nics[k].ips \in Seq(Addresses)
    <3>1. PICK A : A = Seq(Addresses)
      OBVIOUS
    <3>2. \A d \in Devices : Routable(d) \in A
      BY <3>1, DeviceAssumption
    <3>3. <<>> \in A
      BY <3>1
    <3>4. QED
      BY <2>4, <3>1, <3>2, <3>3
  <2>6. QED
    BY <2>5 DEF Shape, RowsShape, Shaped, StateSaid, Walks
<1>2. QED
  BY <1>1 DEF Shape, RowsShape, Shaped, Walks

LEMMA ReadBack ==
  ASSUME Shape, Seen, StateSaid, NEW minimal \in BOOLEAN
  PROVE  toInventory(toWire(inv, minimal), DOMAIN inv.facts) = Reduced(minimal)
<1>1. PICK w : w = toWire(inv, minimal)
  OBVIOUS
<1>2. w.n = [i \in DOMAIN inv.nics |-> trimTrailing(NicRow(inv.nics[i], minimal))]
  BY <1>1 DEF toWire
<1>3. w.d = [i \in DOMAIN inv.disks |-> trimTrailing(DiskRow(inv.disks[i], minimal))]
  BY <1>1 DEF toWire
<1>4. [i \in DOMAIN w.n |-> toNIC(ThroughJSON(w.n[i]))] =
        [i \in DOMAIN inv.nics |-> [inv.nics[i] EXCEPT !.pci = Unless(minimal, @)]]
  <2>1. \A i \in DOMAIN inv.nics :
          toNIC(ThroughJSON(trimTrailing(NicRow(inv.nics[i], minimal)))) =
            [inv.nics[i] EXCEPT !.pci = Unless(minimal, @)]
    BY RowsReadable, NicRead
  <2>2. DOMAIN w.n = DOMAIN inv.nics
        /\ \A i \in DOMAIN inv.nics : w.n[i] = trimTrailing(NicRow(inv.nics[i], minimal))
    BY <1>2
  <2>3. QED
    BY <2>1, <2>2
<1>5. [i \in DOMAIN w.d |-> toDisk(ThroughJSON(w.d[i]))] =
        [i \in DOMAIN inv.disks |->
           [inv.disks[i] EXCEPT !.model = Unless(minimal, @), !.wwn = Unless(minimal, @)]]
  <2>1. \A i \in DOMAIN inv.disks :
          toDisk(ThroughJSON(trimTrailing(DiskRow(inv.disks[i], minimal)))) =
            [inv.disks[i] EXCEPT !.model = Unless(minimal, @), !.wwn = Unless(minimal, @)]
    BY RowsReadable, DiskRead
  <2>2. DOMAIN w.d = DOMAIN inv.disks
        /\ \A i \in DOMAIN inv.disks : w.d[i] = trimTrailing(DiskRow(inv.disks[i], minimal))
    BY <1>3
  <2>3. QED
    BY <2>1, <2>2
<1>6. [k \in DOMAIN inv.facts |-> IF k \in DOMAIN w.facts THEN w.facts[k] ELSE Empty] =
        [k \in DOMAIN inv.facts |-> Unless(minimal /\ k \in Descriptive, inv.facts[k])]
  <2> DEFINE sent == {k \in DOMAIN inv.facts :
                        inv.facts[k] # Empty /\ ~(minimal /\ k \in Descriptive)}
  <2>1. w.facts = [k \in sent |-> inv.facts[k]]
    BY <1>1 DEF toWire
  <2>2. ASSUME NEW k \in DOMAIN inv.facts
        PROVE  (IF k \in DOMAIN w.facts THEN w.facts[k] ELSE Empty) =
                 Unless(minimal /\ k \in Descriptive, inv.facts[k])
    <3>1. CASE k \in sent
      BY <2>1, <3>1 DEF Unless
    <3>2. CASE k \notin sent
      BY <2>1, <3>2 DEF Unless
    <3>3. QED
      BY <3>1, <3>2
  <2> HIDE DEF sent
  <2>3. QED
    BY <2>2
<1>7. QED
  BY <1>1, <1>4, <1>5, <1>6 DEF toInventory, Reduced

\* The screen tells of a machine what was collected from it, and of no row a
\* cell that belongs to another place, however the row was cut short
\* (wire.go:47-63, 118-197).
THEOREM CollectedIsDecoded == Spec => []DecodedIsCollected
<1>1. Shape /\ Seen /\ StateSaid => DecodedIsCollected
  BY ReadBack DEF DecodedIsCollected
<1>2. QED
  BY <1>1, AlwaysShape, AlwaysSeen, AlwaysSaid, PTL

=============================================================================
