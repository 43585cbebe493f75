--------------------------- MODULE PayloadChunks ----------------------------
(***************************************************************************)
(* Splitting a payload over several QR symbols and joining what a scanner  *)
(* read back (Split, join and Decode of src/internal/payload/payload.go).  *)
(*                                                                         *)
(* A payload is a sequence of symbols: the first tells the two encodings   *)
(* apart, "{" for plain JSON, "Q" for the packed form; a blank is the only *)
(* other character the code treats specially.  A scanned part is a record: *)
(* index 0 is text without a chunk header.                                 *)
(***************************************************************************)
EXTENDS Integers, SequencesExt, FiniteSetsExt

Blank == "_"

Part(i, n, body) == [index |-> i, total |-> n, body |-> body]

\* ceil(len(s) / n)
ChunkSize(s, n) == (Len(s) + n - 1) \div n

\* Mutant: the loop goes on behind the end.
SplitPastEnd(s, n) ==
  IF n <= 1 THEN <<Part(0, 0, s)>>
  ELSE LET size == ChunkSize(s, n)
       IN  [i \in 1..n |->
              Part(i, n, SubSeq(s, (i - 1) * size + 1, Min({i * size, Len(s)})))]

\* The loop stops at the first chunk that would start behind the end, but every
\* header says n.
Split(s, n) ==
  IF n <= 1 THEN <<Part(0, 0, s)>>
  ELSE LET size == ChunkSize(s, n)
           count == Max({0} \cup {i \in 1..n : (i - 1) * size < Len(s)})
       IN  [i \in 1..count |->
              Part(i, n, SubSeq(s, (i - 1) * size + 1, Min({i * size, Len(s)})))]

-----------------------------------------------------------------------------
(* join *)

\* strings.TrimSpace on a scanned part; the chunk header keeps it from
\* reaching the front of a chunk's body.
TrimRight(s) ==
  SubSeq(s, 1, Max({0} \cup {i \in 1..Len(s) : s[i] # Blank}))
TrimLeft(s) ==
  SubSeq(s, Min({Len(s) + 1} \cup {i \in 1..Len(s) : s[i] # Blank}), Len(s))
TrimSpace(p) ==
  [p EXCEPT !.body = IF p.index = 0 THEN TrimLeft(TrimRight(p.body)) ELSE TrimRight(p.body)]

IsChunk(p) == p.index > 0
IsText(p) == p.index = 0 /\ p.body # <<>>

\* Mutant: the chunks are not sorted, and nobody notices.
ScanOrder(parts, at) == {[k \in 1..Cardinality(at) |-> [parts[k] EXCEPT !.index = k]]}

\* sort.Slice by index: it promises nothing of the order among equal indexes.
SortedByIndex(parts, at) ==
  LET orders == {order \in [1..Cardinality(at) -> at] :
                   /\ IsInjective(order)
                   /\ \A i, j \in DOMAIN order :
                        i < j => parts[order[i]].index <= parts[order[j]].index}
  IN  {[k \in 1..Cardinality(at) |-> parts[order[k]]] : order \in orders}

Failed == [ok |-> FALSE, text |-> <<>>]
Got(text) == [ok |-> TRUE, text |-> text]

\* The bodies one behind the other.
Bodies(parts) ==
  LET upTo[k \in 0..Len(parts)] == IF k = 0 THEN <<>> ELSE upTo[k - 1] \o parts[k].body
  IN  upTo[Len(parts)]

\* Mutant: as many chunks as expected are enough.
CompleteByCount(sorted, total) == total <= Len(sorted)

\* Mutant: a chunk is missing only when its place is taken by an earlier one.
CompleteOneSided(sorted, total) ==
  /\ total <= Len(sorted)
  /\ \A want \in 1..total : sorted[want].index >= want

\* Only the first total chunks of the sorted list are looked at.
Complete(sorted, total) ==
  /\ total <= Len(sorted)
  /\ \A want \in 1..total : sorted[want].index = want

Reassembled(sorted, total) ==
  IF Complete(sorted, total) THEN Got(Bodies(SubSeq(sorted, 1, total))) ELSE Failed

\* Mutant: the totals of the chunks are not compared.
JoinAnyTotal(scanned) ==
  LET parts == [k \in 1..Len(scanned) |-> TrimSpace(scanned[k])]
      chunkAt == {k \in DOMAIN parts : IsChunk(parts[k])}
      textAt == {k \in DOMAIN parts : IsText(parts[k])}
  IN  IF chunkAt = {} THEN {Got(Bodies(parts))}
      ELSE IF textAt # {} THEN {Failed}
      ELSE {Reassembled(sorted, parts[Max(chunkAt)].total) : sorted \in SortedByIndex(parts, chunkAt)}

\* What may come of it.  What is neither chunk nor text is empty, and adds
\* nothing.
Join(scanned) ==
  LET parts == [k \in 1..Len(scanned) |-> TrimSpace(scanned[k])]
      chunkAt == {k \in DOMAIN parts : IsChunk(parts[k])}
      textAt == {k \in DOMAIN parts : IsText(parts[k])}
      totals == {parts[k].total : k \in chunkAt}
  IN  IF chunkAt = {} THEN {Got(Bodies(parts))}
      ELSE IF textAt # {} \/ \E t, u \in totals : t # u THEN {Failed}
      ELSE {Reassembled(sorted, total) : sorted \in SortedByIndex(parts, chunkAt), total \in totals}

-----------------------------------------------------------------------------
(* Decode *)

\* A JSON object, as far as json.Unmarshal can tell.
WellFormed(text) ==
  /\ Len(text) >= 2 /\ text[1] = "{" /\ text[Len(text)] = "}"
  /\ \A k \in 2..(Len(text) - 1) : text[k] \notin {"{", "}", "Q"}

\* A packed payload unpacks only when its gzip stream, checksum included, is
\* one that was made from an inventory: a member of genuine.
Unpacked(joined, genuine) ==
  CASE ~joined.ok -> Failed
    [] joined.text # <<>> /\ joined.text[1] = "Q" ->
         IF joined.text \in genuine THEN joined ELSE Failed
    [] OTHER -> IF WellFormed(joined.text) THEN joined ELSE Failed

Decode(scanned, genuine) == {Unpacked(joined, genuine) : joined \in Join(scanned)}

=============================================================================
