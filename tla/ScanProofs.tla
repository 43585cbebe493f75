----------------------------- MODULE ScanProofs -----------------------------
(***************************************************************************)
(* What comes out of a scan session, for any machines and payloads, any    *)
(* number of parts and of scans.                                           *)
(***************************************************************************)
EXTENDS ScanSession, TLAPS, FiniteSetTheorems

-----------------------------------------------------------------------------
(* Numbers. *)

\* A set of numbers has a least one: else the numbers below all of it, which
\* are finitely many, could be mapped to their successors, a one-to-one
\* function that misses 0.
LEMMA LeastElement ==
  ASSUME NEW S \in SUBSET Nat, S # {}
  PROVE  \E m \in S : \A k \in S : m <= k
<1> SUFFICES ASSUME \A m \in S : \E k \in S : k < m PROVE FALSE
  OBVIOUS
<1> DEFINE L == {e \in Nat : \A k \in S : e < k}
           succ == [e \in L |-> e + 1]
<1>1. 0 \in L
  OBVIOUS
<1>2. ASSUME NEW e \in L PROVE e + 1 \in L
  <2>1. e + 1 \notin S
    BY <1>2
  <2>2. QED
    BY <2>1, <1>2
<1>3. IsFiniteSet(L)
  <2>1. PICK s \in S : TRUE
    OBVIOUS
  <2>2. L \in SUBSET Nat /\ \A e \in L : e <= s
    BY <2>1
  <2>3. s \in Nat
    OBVIOUS
  <2> HIDE DEF L
  <2>4. QED
    BY <2>2, <2>3, FS_BoundedSetOfNaturals
<1>4. L \subseteq Nat
  OBVIOUS
<1> HIDE DEF L
<1>5. succ \in Injection(L, L)
  BY <1>2, <1>4 DEF Injection, IsInjective
<1>6. succ \in Surjection(L, L)
  BY <1>3, <1>5, FS_Injection
<1>7. PICK e \in L : succ[e] = 0
  BY <1>1, <1>6 DEF Surjection
<1>8. succ[e] = e + 1 /\ e \in Nat
  BY <1>4
<1> HIDE DEF succ
<1>9. QED
  BY <1>7, <1>8

\* Induction, over the set of the numbers that have the property.
LEMMA Closed ==
  ASSUME NEW S, 0 \in S, \A k \in Nat : k \in S => k + 1 \in S
  PROVE  Nat \subseteq S
<1> SUFFICES ASSUME Nat \ S # {} PROVE FALSE
  OBVIOUS
<1> DEFINE Rest == Nat \ S
<1>1. Rest \in SUBSET Nat /\ Rest # {}
  OBVIOUS
<1> HIDE DEF Rest
<1>2. PICK m \in Rest : \A k \in Rest : m <= k
  BY <1>1, LeastElement
<1> USE DEF Rest
<1>3. m \in Nat /\ m \notin S /\ m # 0
  OBVIOUS
<1>4. m - 1 \in Nat /\ ~(m <= m - 1)
  BY <1>3
<1>5. m - 1 \in S
  BY <1>2, <1>4
<1>6. (m - 1) + 1 \in S /\ (m - 1) + 1 = m
  BY <1>3, <1>4, <1>5
<1>7. QED
  BY <1>3, <1>6

\* The greatest of a set of numbers up to n.
LEMMA MaxFacts ==
  ASSUME NEW n \in Nat, NEW S \in SUBSET (0..n), S # {}
  PROVE  Max(S) \in S /\ \A e \in S : e <= Max(S)
<1> DEFINE Back == {n - e : e \in S}
<1>1. Back \in SUBSET Nat /\ Back # {}
  <2>1. \A e \in S : e \in 0..n
    OBVIOUS
  <2>2. \A e \in S : n - e \in Nat
    BY <2>1
  <2>3. QED
    BY <2>2
<1>2. PICK b \in Back : \A k \in Back : b <= k
  <2> HIDE DEF Back
  <2>1. QED
    BY <1>1, LeastElement
<1>3. PICK e \in S : b = n - e
  OBVIOUS
<1>4. \A d \in S : n - e <= n - d
  BY <1>2, <1>3
<1>5. \A d \in S : e >= d
  BY <1>4
<1>6. QED
  BY <1>3, <1>5 DEF Max

LEMMA MinFacts ==
  ASSUME NEW S \in SUBSET Nat, S # {}
  PROVE  Min(S) \in S /\ \A e \in S : Min(S) <= e
<1>1. PICK m \in S : \A k \in S : m <= k
  BY LeastElement
<1>2. QED
  BY <1>1 DEF Min

LEMMA MinOfTwo ==
  ASSUME NEW a \in Nat, NEW b \in Nat
  PROVE  Min({a, b}) = IF a <= b THEN a ELSE b
<1>1. {a, b} \in SUBSET Nat /\ {a, b} # {}
  OBVIOUS
<1>2. Min({a, b}) \in {a, b} /\ Min({a, b}) <= a /\ Min({a, b}) <= b
  BY <1>1, MinFacts
<1>3. QED
  BY <1>2

LEMMA Quotient ==
  ASSUME NEW n \in Nat, n > 0, NEW a \in Nat
  PROVE  a \div n \in Nat /\ n * (a \div n) <= a /\ a < n * ((a \div n) + 1)
  OBVIOUS

LEMMA Products ==
  ASSUME NEW i \in Nat, NEW j \in Nat, NEW s \in Nat, i <= j
  PROVE  i * s \in Nat /\ i * s <= j * s
  OBVIOUS

-----------------------------------------------------------------------------
(* Pieces. *)

UpTo(parts) ==
  CHOOSE f : f = [k \in 0..Len(parts) |-> IF k = 0 THEN <<>> ELSE f[k - 1] \o parts[k].body]

LEMMA BodiesUpTo ==
  ASSUME NEW parts
  PROVE  Bodies(parts) = UpTo(parts)[Len(parts)]
  BY Zenon DEF Bodies, UpTo

\* A list that starts empty and grows by the bodies ends as Bodies.
LEMMA BodiesJoined ==
  ASSUME NEW parts, Len(parts) \in Nat, NEW g,
         g = [k \in 0..Len(parts) |-> g[k]],
         g[0] = <<>>,
         \A k \in 1..Len(parts) : g[k] = g[k - 1] \o parts[k].body
  PROVE  Bodies(parts) = g[Len(parts)]
<1> DEFINE N == Len(parts)
           Step(f) == [k \in 0..N |-> IF k = 0 THEN <<>> ELSE f[k - 1] \o parts[k].body]
<1>1. g = Step(g)
  <2>1. ASSUME NEW k \in 0..N PROVE g[k] = Step(g)[k]
    <3>1. CASE k = 0
      BY <3>1
    <3>2. CASE k # 0
      <4>1. k \in 1..Len(parts)
        BY <3>2
      <4>2. g[k] = g[k - 1] \o parts[k].body
        BY <4>1
      <4>3. QED
        BY <3>2, <4>2
    <3>3. QED
      BY <3>1, <3>2
  <2> HIDE DEF N
  <2>2. DOMAIN Step(g) = 0..N /\ Step(g) = [k \in 0..N |-> Step(g)[k]]
    OBVIOUS
  <2>3. g = [k \in 0..N |-> g[k]]
    BY DEF N
  <2> HIDE DEF Step
  <2>4. QED
    BY <2>1, <2>2, <2>3
<1>2. UpTo(parts) = Step(UpTo(parts))
  <2>1. \E f : f = Step(f)
    BY <1>1
  <2>2. UpTo(parts) = CHOOSE f : f = Step(f)
    BY DEF UpTo
  <2> HIDE DEF Step
  <2>3. QED
    BY <2>1, <2>2
<1> DEFINE S == {k \in Nat : k <= N => UpTo(parts)[k] = g[k]}
<1>3. 0 \in S
  <2>1. UpTo(parts)[0] = <<>>
    BY <1>2
  <2>2. QED
    BY <2>1
<1>4. ASSUME NEW k \in Nat, k \in S PROVE k + 1 \in S
  <2> SUFFICES ASSUME k + 1 <= N PROVE UpTo(parts)[k + 1] = g[k + 1]
    OBVIOUS
  <2>1. k + 1 \in 1..N /\ k + 1 \in 0..N /\ k + 1 # 0 /\ (k + 1) - 1 = k
    OBVIOUS
  <2>2. UpTo(parts)[k] = g[k]
    BY <1>4
  <2>3. UpTo(parts)[k + 1] = UpTo(parts)[k] \o parts[k + 1].body
    BY <1>2, <2>1
  <2>4. g[k + 1] = g[k] \o parts[k + 1].body
    BY <2>1
  <2>5. QED
    BY <2>2, <2>3, <2>4
<1>5. N \in S
  <2> HIDE DEF S
  <2>1. Nat \subseteq S
    BY <1>3, <1>4, Closed
  <2>2. QED
    BY <2>1
<1>6. QED
  BY <1>5, BodiesUpTo

LEMMA TwoPieces ==
  ASSUME NEW S, NEW s \in Seq(S), NEW a \in 0..Len(s), NEW b \in 0..Len(s), a <= b
  PROVE  SubSeq(s, 1, a) \o SubSeq(s, a + 1, b) = SubSeq(s, 1, b)
  OBVIOUS

\* Pieces cut at ever greater ends, one behind the other, are what was cut.
LEMMA PiecesJoined ==
  ASSUME NEW S, NEW s \in Seq(S), NEW parts, Len(parts) \in Nat,
         NEW E \in [0..Len(parts) -> 0..Len(s)],
         E[0] = 0, E[Len(parts)] = Len(s),
         \A k \in 1..Len(parts) :
           E[k - 1] <= E[k] /\ parts[k].body = SubSeq(s, E[k - 1] + 1, E[k])
  PROVE  Bodies(parts) = s
<1> DEFINE N == Len(parts)
           g == [k \in 0..N |-> SubSeq(s, 1, E[k])]
<1>1. g = [k \in 0..N |-> g[k]] /\ g[0] = <<>>
  OBVIOUS
<1>2. ASSUME NEW k \in 1..N PROVE g[k] = g[k - 1] \o parts[k].body
  <2>1. k - 1 \in 0..N /\ k \in 0..N
    OBVIOUS
  <2>2. E[k - 1] \in 0..Len(s) /\ E[k] \in 0..Len(s) /\ E[k - 1] <= E[k]
    BY <2>1
  <2>3. SubSeq(s, 1, E[k - 1]) \o SubSeq(s, E[k - 1] + 1, E[k]) = SubSeq(s, 1, E[k])
    BY <2>2, TwoPieces
  <2>4. QED
    BY <2>1, <2>3
<1>3. g[N] = s
  OBVIOUS
<1> HIDE DEF g
<1>4. QED
  BY <1>1, <1>2, <1>3, BodiesJoined

-----------------------------------------------------------------------------
(* Splitting. *)

LEMMA PartFields ==
  ASSUME NEW i, NEW n, NEW body
  PROVE  /\ Part(i, n, body).index = i
         /\ Part(i, n, body).total = n
         /\ Part(i, n, body).body = body
         /\ DOMAIN Part(i, n, body) = {"index", "total", "body"}
  BY DEF Part

LEMMA SizeFacts ==
  ASSUME NEW s \in Seq(STRING), s # <<>>, NEW n \in Nat, n > 1
  PROVE  /\ ChunkSize(s, n) \in Nat \ {0}
         /\ Len(s) <= n * ChunkSize(s, n)
<1> DEFINE L == Len(s)
           q == (L + n - 1) \div n
<1>1. L \in Nat /\ L >= 1 /\ L + n - 1 \in Nat /\ n > 0
  OBVIOUS
<1>2. q \in Nat /\ n * q <= L + n - 1 /\ L + n - 1 < n * (q + 1)
  <2> DEFINE a == L + n - 1
  <2>1. a \in Nat
    BY <1>1
  <2> HIDE DEF a
  <2>2. a \div n \in Nat /\ n * (a \div n) <= a /\ a < n * ((a \div n) + 1)
    BY <1>1, <2>1, Quotient
  <2>3. QED
    BY <2>2 DEF a
<1> HIDE DEF q, L
<1>3. n * (q + 1) = n * q + n /\ n * q \in Nat
  BY <1>2
<1>4. L <= n * q
  BY <1>1, <1>2, <1>3
<1>5. q # 0
  <2> SUFFICES ASSUME q = 0 PROVE FALSE
    OBVIOUS
  <2>1. n * q = 0
    OBVIOUS
  <2>2. QED
    BY <1>1, <1>4, <2>1
<1>6. ChunkSize(s, n) = q
  BY DEF q, L, ChunkSize
<1>7. QED
  BY <1>2, <1>4, <1>5, <1>6 DEF L

LEMMA SplitFacts ==
  ASSUME NEW s \in Seq(STRING), s # <<>>, NEW n \in Nat, n > 1
  PROVE  \E size \in Nat \ {0}, count \in 1..n :
           /\ Len(s) <= n * size
           /\ \A i \in 1..count : (i - 1) * size \in Nat /\ (i - 1) * size < Len(s)
           /\ Split(s, n) =
                [i \in 1..count |->
                   Part(i, n, SubSeq(s, (i - 1) * size + 1, Min({i * size, Len(s)})))]
<1> DEFINE size == ChunkSize(s, n)
           starts == {i \in 1..n : (i - 1) * size < Len(s)}
           count == Max({0} \cup starts)
<1>1. size \in Nat \ {0} /\ Len(s) <= n * size
  BY SizeFacts
<1>2. Split(s, n) =
        [i \in 1..count |->
           Part(i, n, SubSeq(s, (i - 1) * size + 1, Min({i * size, Len(s)})))]
  BY DEF Split
<1>3. Len(s) \in Nat /\ Len(s) > 0
  OBVIOUS
<1> HIDE DEF size
<1>4. 1 \in starts
  BY <1>1, <1>3
<1>5. starts \subseteq 1..n /\ \A i \in starts : (i - 1) * size < Len(s)
  OBVIOUS
<1> HIDE DEF starts
<1>6. {0} \cup starts \in SUBSET (0..n) /\ {0} \cup starts # {}
  BY <1>5
<1>7. count \in {0} \cup starts /\ \A e \in {0} \cup starts : e <= count
  BY <1>6, MaxFacts
<1> HIDE DEF count
<1>8. count \in starts /\ count \in 1..n
  <2>1. 1 <= count
    BY <1>4, <1>7
  <2>2. QED
    BY <1>5, <1>7, <2>1
<1>9. ASSUME NEW i \in 1..count PROVE (i - 1) * size \in Nat /\ (i - 1) * size < Len(s)
  <2>1. i - 1 \in Nat /\ count - 1 \in Nat /\ i - 1 <= count - 1
    BY <1>8
  <2> DEFINE a == i - 1
             b == count - 1
  <2>2. a * size \in Nat /\ b * size \in Nat /\ a * size <= b * size
    <3> HIDE DEF a, b
    <3>1. QED
      BY <1>1, <2>1, Products DEF a, b
  <2>3. b * size < Len(s)
    BY <1>5, <1>8
  <2> HIDE DEF a, b
  <2>4. a * size < Len(s)
    BY <1>3, <2>2, <2>3
  <2>5. QED
    BY <2>2, <2>4 DEF a
<1>10. QED
  BY <1>1, <1>2, <1>8, <1>9

\* As many parts as were asked for are the whole.
LEMMA SplitWhole ==
  ASSUME NEW s \in Seq(STRING), s # <<>>, NEW n \in Nat \ {0}, Len(Split(s, n)) = n
  PROVE  Bodies(Split(s, n)) = s
<1>1. CASE n = 1
  <2> DEFINE parts == <<Part(0, 0, s)>>
             E == [k \in 0..1 |-> IF k = 0 THEN 0 ELSE Len(s)]
  <2>1. Split(s, n) = parts
    BY <1>1 DEF Split
  <2>2. Len(parts) = 1 /\ parts[1].body = s
    BY DEF Part
  <2>3. E \in [0..1 -> 0..Len(s)] /\ E[0] = 0 /\ E[1] = Len(s)
    OBVIOUS
  <2>4. SubSeq(s, 1, Len(s)) = s
    OBVIOUS
  <2> HIDE DEF E, parts
  <2>5. \A k \in 1..1 : E[k - 1] <= E[k] /\ parts[k].body = SubSeq(s, E[k - 1] + 1, E[k])
    BY <2>2, <2>3, <2>4
  <2>6. Len(parts) \in Nat /\ E \in [0..Len(parts) -> 0..Len(s)] /\ E[Len(parts)] = Len(s)
    BY <2>2, <2>3
  <2>7. \A k \in 1..Len(parts) : E[k - 1] <= E[k] /\ parts[k].body = SubSeq(s, E[k - 1] + 1, E[k])
    BY <2>2, <2>5
  <2>8. Bodies(parts) = s
    BY <2>3, <2>6, <2>7, PiecesJoined
  <2>9. QED
    BY <2>1, <2>8
<1>2. CASE n > 1
  <2>1. PICK size \in Nat \ {0}, count \in 1..n :
           /\ Len(s) <= n * size
           /\ \A i \in 1..count : (i - 1) * size \in Nat /\ (i - 1) * size < Len(s)
           /\ Split(s, n) =
                [i \in 1..count |->
                   Part(i, n, SubSeq(s, (i - 1) * size + 1, Min({i * size, Len(s)})))]
    BY <1>2, SplitFacts
  <2> DEFINE parts == Split(s, n)
             L == Len(s)
             E == [k \in 0..n |-> Min({k * size, L})]
  <2>2. count = n
    <3>1. Len(parts) = count
      BY <2>1
    <3>2. QED
      BY <3>1
  <2>3. L \in Nat
    OBVIOUS
  <2>4. ASSUME NEW k \in 1..n
        PROVE  parts[k].body = SubSeq(s, (k - 1) * size + 1, Min({k * size, L}))
    <3>1. parts[k] = Part(k, n, SubSeq(s, (k - 1) * size + 1, Min({k * size, L})))
      BY <2>1, <2>2
    <3> DEFINE body == SubSeq(s, (k - 1) * size + 1, Min({k * size, L}))
    <3>2. parts[k] = Part(k, n, body)
      BY <3>1
    <3> HIDE DEF parts, body
    <3>3. parts[k].body = body
      BY <3>2, PartFields
    <3>4. QED
      BY <3>3 DEF body
  <2>5. ASSUME NEW k \in 0..n
        PROVE  E[k] \in 0..L /\ E[k] = IF k * size <= L THEN k * size ELSE L
    <3>1. k * size \in Nat
      OBVIOUS
    <3>2. Min({k * size, L}) = IF k * size <= L THEN k * size ELSE L
      BY <2>3, <3>1, MinOfTwo
    <3> DEFINE c == k * size
    <3> HIDE DEF c, L
    <3>3. (IF c <= L THEN c ELSE L) \in 0..L
      BY <2>3, <3>1 DEF c
    <3>4. QED
      BY <3>2, <3>3 DEF c
  <2>6. \A i \in 1..n : (i - 1) * size \in Nat /\ (i - 1) * size < L
    BY <2>1, <2>2
  <2> HIDE DEF parts, L
  <2>7. E = [k \in 0..n |-> E[k]]
    OBVIOUS
  <2> HIDE DEF E
  <2>8. E \in [0..n -> 0..L]
    BY <2>5, <2>7
  <2>9. E[0] = 0
    BY <2>3, <2>5
  <2>10. E[n] = L
    <3>1. n * size \in Nat /\ L <= n * size
      BY <2>1 DEF L
    <3>2. E[n] = IF n * size <= L THEN n * size ELSE L
      BY <2>5
    <3>3. QED
      BY <2>3, <3>1, <3>2
  <2>11. ASSUME NEW k \in 1..n
         PROVE  E[k - 1] <= E[k] /\ parts[k].body = SubSeq(s, E[k - 1] + 1, E[k])
    <3> DEFINE j == k - 1
    <3>1. j \in Nat /\ j \in 0..n /\ k \in 0..n /\ j <= k
      OBVIOUS
    <3>2. j * size \in Nat /\ j * size < L
      BY <2>6
    <3>3. parts[k].body = SubSeq(s, j * size + 1, Min({k * size, L}))
      BY <2>4
    <3>4. Min({k * size, L}) = E[k]
      BY <3>1 DEF E
    <3> HIDE DEF j
    <3>5. E[j] = IF j * size <= L THEN j * size ELSE L
      BY <2>5, <3>1
    <3>6. E[j] = j * size
      BY <2>3, <3>2, <3>5
    <3>7. j * size <= k * size /\ k * size \in Nat
      BY <3>1, Products
    <3>8. E[k] = IF k * size <= L THEN k * size ELSE L
      BY <2>5, <3>1
    <3>9. E[j] <= E[k]
      BY <2>3, <3>2, <3>6, <3>7, <3>8
    <3>10. QED
      BY <3>3, <3>4, <3>6, <3>9 DEF j
  <2>12. Len(parts) = n
    BY DEF parts
  <2>13. Bodies(parts) = s
    BY <2>8, <2>9, <2>10, <2>11, <2>12, PiecesJoined DEF L
  <2>14. QED
    BY <2>13 DEF parts
<1>3. QED
  BY <1>1, <1>2

-----------------------------------------------------------------------------
(* Trimming. *)

\* A text whose first symbol is not a blank does not become empty.
LEMMA TrimmedText ==
  ASSUME NEW s \in Seq(STRING), s # <<>>, s[1] # Blank
  PROVE  TrimLeft(TrimRight(s)) # <<>>
<1> DEFINE marks == {i \in 1..Len(s) : s[i] # Blank}
           e == Max({0} \cup marks)
           r == SubSeq(s, 1, e)
<1>1. Len(s) \in Nat /\ 1 \in marks /\ marks \subseteq 1..Len(s)
  OBVIOUS
<1>2. e \in 1..Len(s)
  <2> HIDE DEF marks
  <2>1. {0} \cup marks \in SUBSET (0..Len(s)) /\ {0} \cup marks # {}
    BY <1>1
  <2>2. e \in {0} \cup marks /\ \A d \in {0} \cup marks : d <= e
    BY <1>1, <2>1, MaxFacts
  <2> HIDE DEF e
  <2>3. 1 <= e
    BY <1>1, <2>2
  <2>4. QED
    BY <1>1, <2>2, <2>3
<1>3. TrimRight(s) = r
  BY DEF TrimRight
<1> HIDE DEF e
<1>4. r \in Seq(STRING) /\ Len(r) = e /\ r[1] = s[1]
  BY <1>2
<1> HIDE DEF r, marks
<1> DEFINE kept == {Len(r) + 1} \cup {i \in 1..Len(r) : r[i] # Blank}
<1>5. kept \in SUBSET Nat /\ kept # {} /\ 1 \in kept /\ \A i \in kept : 1 <= i
  BY <1>2, <1>4
<1>6. TrimLeft(r) = SubSeq(r, Min(kept), Len(r))
  BY DEF TrimLeft
<1>7. Min(kept) = 1
  <2> HIDE DEF kept
  <2>1. Min(kept) \in kept /\ Min(kept) <= 1
    BY <1>5, MinFacts
  <2>2. Min(kept) \in Nat /\ 1 <= Min(kept)
    BY <1>5, <2>1
  <2>3. QED
    BY <2>1, <2>2
<1>8. SubSeq(r, 1, Len(r)) = r
  BY <1>4
<1>9. r # <<>>
  BY <1>2, <1>4
<1>10. QED
  BY <1>3, <1>6, <1>7, <1>8, <1>9

-----------------------------------------------------------------------------
(* The screens. *)

ScreensTyped ==
  /\ payload \in Payloads
  /\ split \in [Machines -> 1..MaxParts]

LEMMA PayloadFacts ==
  ASSUME ScreensTyped, NEW m \in Machines
  PROVE  /\ payload[m] \in Seq(STRING) /\ payload[m] # <<>> /\ payload[m][1] # Blank
         /\ payload[m][1] = "Q" \/ WellFormed(payload[m])
<1>1. /\ payload[m] \in Seq(STRING) /\ payload[m] # <<>>
      /\ payload[m][1] = "Q" \/ WellFormed(payload[m])
  BY ScanAssumption DEF ScreensTyped
<1>2. WellFormed(payload[m]) => payload[m][1] = "{"
  BY DEF WellFormed
<1>3. "Q" # Blank /\ "{" # Blank
  BY DEF Blank
<1>4. QED
  BY <1>1, <1>2, <1>3

LEMMA WholeShown ==
  ASSUME ScreensTyped, NEW m \in Machines, split[m] = 1
  PROVE  Len(Shown(m)) = 1 /\ Shown(m)[1] = Part(0, 0, payload[m])
  BY DEF Shown, Split

LEMMA SplitShown ==
  ASSUME ScreensTyped, NEW m \in Machines, split[m] > 1
  PROVE  /\ Len(Shown(m)) \in 1..split[m]
         /\ Shown(m) = [i \in 1..Len(Shown(m)) |-> Shown(m)[i]]
         /\ \A i \in 1..Len(Shown(m)) :
              \E body : body # <<>> /\ Shown(m)[i] = Part(i, split[m], body)
<1> DEFINE s == payload[m]
           n == split[m]
<1>1. s \in Seq(STRING) /\ s # <<>>
  BY PayloadFacts
<1>2. n \in Nat /\ n > 1
  BY ScanAssumption DEF ScreensTyped
<1>3. Shown(m) = Split(s, n)
  BY DEF Shown
<1> HIDE DEF s, n
<1>4. PICK size \in Nat \ {0}, count \in 1..n :
         /\ \A i \in 1..count : (i - 1) * size \in Nat /\ (i - 1) * size < Len(s)
         /\ Split(s, n) =
              [i \in 1..count |->
                 Part(i, n, SubSeq(s, (i - 1) * size + 1, Min({i * size, Len(s)})))]
  BY <1>1, <1>2, SplitFacts
<1>5. Len(Split(s, n)) = count /\ Split(s, n) = [i \in 1..count |-> Split(s, n)[i]]
  BY <1>4
<1>6. ASSUME NEW i \in 1..count
      PROVE  \E body : body # <<>> /\ Split(s, n)[i] = Part(i, n, body)
  <2> DEFINE j == i - 1
             a == j * size
             e == Min({i * size, Len(s)})
  <2>1. a \in Nat /\ a < Len(s)
    BY <1>4
  <2>2. Split(s, n)[i] = Part(i, n, SubSeq(s, a + 1, e))
    BY <1>4
  <2>3. i \in Nat /\ Len(s) \in Nat
    BY <1>1
  <2>4. i * size \in Nat /\ a < i * size
    <3>1. i * size = j * size + size
      BY <2>3
    <3> HIDE DEF j
    <3>2. QED
      BY <2>1, <3>1
  <2>5. e = IF i * size <= Len(s) THEN i * size ELSE Len(s)
    BY <2>3, <2>4, MinOfTwo
  <2> DEFINE c == i * size
  <2> HIDE DEF a, e, c
  <2>6. e \in Nat /\ a + 1 <= e /\ e <= Len(s)
    BY <2>1, <2>3, <2>4, <2>5 DEF c
  <2>7. SubSeq(s, a + 1, e) # <<>>
    BY <1>1, <2>1, <2>6
  <2>8. QED
    BY <2>2, <2>7
<1>7. QED
  BY <1>3, <1>5, <1>6 DEF n

LEMMA TrimmedPart ==
  ASSUME NEW i, NEW n, NEW body
  PROVE  TrimSpace(Part(i, n, body)) =
           Part(i, n, IF i = 0 THEN TrimLeft(TrimRight(body)) ELSE TrimRight(body))
  BY DEF TrimSpace, Part

-----------------------------------------------------------------------------
(* What was scanned. *)

ScansTyped ==
  /\ scans \in Seq(Machines \X Nat)
  /\ \A k \in 1..Len(scans) : scans[k][2] \in 1..Len(Shown(scans[k][1]))

\* The parts as join looks at them.
Parts == [k \in 1..Len(Scanned) |-> TrimSpace(Scanned[k])]
ChunkAt == {k \in DOMAIN Parts : IsChunk(Parts[k])}
TextAt == {k \in DOMAIN Parts : IsText(Parts[k])}
Totals == {Parts[k].total : k \in ChunkAt}

LEMMA ScanFacts ==
  ASSUME ScansTyped, NEW k \in 1..Len(scans)
  PROVE  scans[k][1] \in Machines /\ scans[k][2] \in Nat
<1>1. scans[k] \in Machines \X Nat
  BY DEF ScansTyped
<1>2. QED
  BY <1>1

LEMMA PartsFacts ==
  ASSUME ScansTyped
  PROVE  /\ Len(scans) \in Nat
         /\ DOMAIN Parts = 1..Len(scans) /\ Len(Parts) = Len(scans)
         /\ \A k \in 1..Len(scans) : Parts[k] = TrimSpace(Shown(scans[k][1])[scans[k][2]])
<1>1. Len(scans) \in Nat
  BY DEF ScansTyped
<1>2. Len(Scanned) = Len(scans)
  BY <1>1 DEF Scanned
<1>3. DOMAIN Parts = 1..Len(scans) /\ Len(Parts) = Len(scans)
  BY <1>1, <1>2 DEF Parts
<1>4. ASSUME NEW k \in 1..Len(scans)
      PROVE  Parts[k] = TrimSpace(Shown(scans[k][1])[scans[k][2]])
  <2>1. Scanned[k] = Shown(scans[k][1])[scans[k][2]]
    BY DEF Scanned
  <2>2. Parts[k] = TrimSpace(Scanned[k])
    BY <1>2 DEF Parts
  <2>3. QED
    BY <2>1, <2>2
<1>5. QED
  BY <1>1, <1>3, <1>4

\* A part of a screen that was not split is text, a part of one that was is a
\* chunk with the place and the total of the screen.
LEMMA KindOfPart ==
  ASSUME ScreensTyped, ScansTyped, NEW k \in 1..Len(scans)
  PROVE  LET m == scans[k][1]
         IN  /\ split[m] = 1 => k \in TextAt /\ k \notin ChunkAt
             /\ split[m] > 1 => /\ k \in ChunkAt /\ k \notin TextAt
                                /\ Parts[k].index = scans[k][2]
                                /\ Parts[k].total = split[m]
<1> DEFINE m == scans[k][1]
           i == scans[k][2]
<1>1. m \in Machines /\ i \in 1..Len(Shown(m))
  BY ScanFacts DEF ScansTyped
<1>2. k \in DOMAIN Parts /\ Parts[k] = TrimSpace(Shown(m)[i])
  BY PartsFacts
<1> HIDE DEF m, i
<1>3. CASE split[m] = 1
  <2> DEFINE last == Len(Shown(m))
  <2>1. i = 1 /\ Shown(m)[i] = Part(0, 0, payload[m])
    <3>1. last = 1 /\ Shown(m)[1] = Part(0, 0, payload[m])
      BY <1>1, <1>3, WholeShown
    <3>2. i \in 1..last
      BY <1>1
    <3> HIDE DEF last
    <3>3. i = 1
      BY <3>1, <3>2
    <3>4. QED
      BY <3>1, <3>3
  <2>2. Parts[k] = Part(0, 0, TrimLeft(TrimRight(payload[m])))
    BY <1>2, <2>1, TrimmedPart
  <2>3. TrimLeft(TrimRight(payload[m])) # <<>>
    BY <1>1, PayloadFacts, TrimmedText
  <2>4. Parts[k].index = 0 /\ Parts[k].body # <<>>
    BY <2>2, <2>3, PartFields
  <2>5. QED
    BY <1>2, <1>3, <2>4 DEF TextAt, ChunkAt, IsText, IsChunk, m
<1>4. CASE split[m] > 1
  <2>1. PICK body : Shown(m)[i] = Part(i, split[m], body)
    BY <1>1, <1>4, SplitShown
  <2>2. i \in Nat /\ i > 0
    BY <1>1, <1>4, SplitShown
  <2>3. Parts[k] = Part(i, split[m], TrimRight(body))
    BY <1>2, <2>1, <2>2, TrimmedPart
  <2>4. Parts[k].index = i /\ Parts[k].total = split[m]
    BY <2>3, PartFields
  <2>5. QED
    BY <1>2, <1>4, <2>2, <2>4 DEF TextAt, ChunkAt, IsText, IsChunk, m, i
<1>5. QED
  BY <1>3, <1>4 DEF m

LEMMA JoinOfParts ==
  Join(Scanned) =
    IF ChunkAt = {} THEN {Got(Bodies(Parts))}
    ELSE IF TextAt # {} \/ \E t, u \in Totals : t # u THEN {Failed}
    ELSE {Reassembled(sorted, total) : sorted \in SortedByIndex(Parts, ChunkAt), total \in Totals}
  BY DEF Join, Parts, ChunkAt, TextAt, Totals

\* Joining succeeds on text alone, or on the chunks of one total.
LEMMA JoinFacts ==
  ASSUME NEW joined \in Join(Scanned)
  PROVE  \/ joined = Failed
         \/ ChunkAt = {} /\ joined = Got(Bodies(Parts))
         \/ /\ ChunkAt # {} /\ TextAt = {}
            /\ \A j, k \in ChunkAt : Parts[j].total = Parts[k].total
            /\ \E sorted \in SortedByIndex(Parts, ChunkAt), k \in ChunkAt :
                 /\ Complete(sorted, Parts[k].total)
                 /\ joined = Got(Bodies(SubSeq(sorted, 1, Parts[k].total)))
<1>1. Join(Scanned) =
        IF ChunkAt = {} THEN {Got(Bodies(Parts))}
        ELSE IF TextAt # {} \/ \E t, u \in Totals : t # u THEN {Failed}
        ELSE {Reassembled(sorted, total) : sorted \in SortedByIndex(Parts, ChunkAt), total \in Totals}
  BY JoinOfParts
<1>2. CASE ChunkAt = {}
  BY <1>1, <1>2
<1>3. CASE ChunkAt # {} /\ (TextAt # {} \/ \E t, u \in Totals : t # u)
  <2>1. Join(Scanned) = {Failed}
    BY <1>1, <1>3
  <2>2. QED
    BY <2>1
<1>4. CASE ChunkAt # {} /\ TextAt = {} /\ ~\E t, u \in Totals : t # u
  <2>1. PICK sorted \in SortedByIndex(Parts, ChunkAt), total \in Totals :
          joined = Reassembled(sorted, total)
    BY <1>1, <1>4
  <2>2. PICK k \in ChunkAt : total = Parts[k].total
    BY DEF Totals
  <2>3. \A i, j \in ChunkAt : Parts[i].total = Parts[j].total
    BY <1>4 DEF Totals
  <2>4. CASE Complete(sorted, total)
    <3>1. joined = Got(Bodies(SubSeq(sorted, 1, total)))
      BY <2>1, <2>4 DEF Reassembled
    <3>2. QED
      BY <1>4, <2>2, <2>3, <2>4, <3>1
  <2>5. CASE ~Complete(sorted, total)
    BY <2>1, <2>5 DEF Reassembled
  <2>6. QED
    BY <2>4, <2>5
<1>5. QED
  BY <1>2, <1>3, <1>4

LEMMA DecodeFacts ==
  ASSUME NEW r \in Decode(Scanned, Genuine)
  PROVE  \/ r = Failed
         \/ r \in Join(Scanned) /\ r.ok /\ r.text # <<>> /\ r # Failed
<1>1. PICK joined \in Join(Scanned) : r = Unpacked(joined, Genuine)
  BY DEF Decode
<1>2. joined = Failed \/ \E text : joined = Got(text)
  BY JoinFacts
<1>3. Failed.ok = FALSE /\ \A text : Got(text).ok = TRUE /\ Got(text).text = text /\ Got(text) # Failed
  BY DEF Failed, Got
<1>4. CASE ~joined.ok
  <2>1. joined = Failed /\ joined.text = <<>>
    BY <1>2, <1>3, <1>4 DEF Failed
  <2>2. r = Failed
    BY <1>1, <1>4, <2>1 DEF Unpacked
  <2>3. QED
    BY <2>2
<1>5. CASE joined.ok /\ joined.text # <<>> /\ joined.text[1] = "Q"
  <2>1. r = IF joined.text \in Genuine THEN joined ELSE Failed
    BY <1>1, <1>5 DEF Unpacked
  <2>2. QED
    BY <1>2, <1>3, <1>5, <2>1
<1>6. CASE joined.ok /\ ~(joined.text # <<>> /\ joined.text[1] = "Q")
  <2>1. r = IF WellFormed(joined.text) THEN joined ELSE Failed
    BY <1>1, <1>6 DEF Unpacked
  <2>2. WellFormed(joined.text) => joined.text # <<>>
    <3>1. Len(<<>>) = 0
      OBVIOUS
    <3>2. WellFormed(joined.text) => Len(joined.text) >= 2
      BY DEF WellFormed
    <3>3. QED
      BY <3>1, <3>2
  <2>3. QED
    BY <1>2, <1>3, <1>6, <2>1, <2>2
<1>7. QED
  BY <1>4, <1>5, <1>6

-----------------------------------------------------------------------------
(* The invariant: a result is what decoding what was scanned may give. *)

ResultMeant == result = NoResult \/ (scans # <<>> /\ result \in Decode(Scanned, Genuine))

ScanInv ==
  /\ ScreensTyped
  /\ ScansTyped
  /\ ResultMeant

LEMMA ScanInvHolds == Spec => []ScanInv
<1>1. Init => ScanInv
  <2> SUFFICES ASSUME Init PROVE ScanInv
    OBVIOUS
  <2>1. scans \in Seq(Machines \X Nat) /\ Len(scans) = 0
    BY DEF Init
  <2>2. QED
    BY <2>1 DEF Init, ScanInv, ScreensTyped, ScansTyped, ResultMeant
<1>2. ScanInv /\ [Next]_vars => ScanInv'
  <2> SUFFICES ASSUME ScanInv, [Next]_vars PROVE ScanInv'
    OBVIOUS
  <2> USE DEF ScanInv
  <2>1. ASSUME NEW m \in Machines, NEW i \in 1..MaxParts, Scan(m, i) PROVE ScanInv'
    <3>1. /\ i \in 1..Len(Shown(m)) /\ scans' = Append(scans, <<m, i>>)
          /\ result' = NoResult /\ payload' = payload /\ split' = split
      BY <2>1 DEF Scan
    <3>2. ScreensTyped' /\ ResultMeant'
      BY <3>1 DEF ScreensTyped, ResultMeant
    <3>3. scans \in Seq(Machines \X Nat) /\ Len(scans) \in Nat /\ <<m, i>> \in Machines \X Nat
      BY DEF ScansTyped
    <3>4. scans' \in Seq(Machines \X Nat) /\ Len(scans') = Len(scans) + 1
      BY <3>1, <3>3
    <3>5. ASSUME NEW k \in 1..Len(scans')
          PROVE  scans'[k][2] \in 1..Len(Split(payload[scans'[k][1]], split[scans'[k][1]]))
      <4>1. CASE k = Len(scans) + 1
        <5>1. scans'[k] = <<m, i>>
          BY <3>1, <3>3, <4>1
        <5>2. scans'[k][1] = m /\ scans'[k][2] = i
          BY <5>1
        <5>3. QED
          BY <3>1, <5>2 DEF Shown
      <4>2. CASE k # Len(scans) + 1
        <5>1. k \in 1..Len(scans)
          BY <3>3, <3>4, <4>2
        <5>2. scans'[k] = scans[k]
          BY <3>1, <3>3, <5>1
        <5>3. scans[k][2] \in 1..Len(Split(payload[scans[k][1]], split[scans[k][1]]))
          BY <5>1 DEF ScansTyped, Shown
        <5>4. QED
          BY <5>2, <5>3
      <4>3. QED
        BY <4>1, <4>2
    <3>6. ScansTyped'
      BY <3>1, <3>4, <3>5 DEF ScansTyped, Shown
    <3>7. QED
      BY <3>2, <3>6
  <2>2. CASE RunDecode
    <3>1. /\ scans # <<>> /\ result' \in Decode(Scanned, Genuine)
          /\ payload' = payload /\ split' = split /\ scans' = scans
      BY <2>2 DEF RunDecode
    <3>2. Scanned' = Scanned /\ Genuine' = Genuine
      BY <3>1 DEF Scanned, Genuine, Shown
    <3>3. ScreensTyped' /\ ScansTyped'
      BY <3>1 DEF ScreensTyped, ScansTyped, Shown
    <3>4. QED
      BY <3>1, <3>2, <3>3 DEF ResultMeant
  <2>3. CASE StartOver
    <3>1. scans' = <<>> /\ result' = NoResult /\ payload' = payload /\ split' = split
      BY <2>3 DEF StartOver
    <3>2. scans' \in Seq(Machines \X Nat) /\ Len(scans') = 0
      BY <3>1
    <3>3. QED
      BY <3>1, <3>2 DEF ScreensTyped, ScansTyped, ResultMeant
  <2>4. CASE UNCHANGED vars
    <3>1. payload' = payload /\ split' = split /\ scans' = scans /\ result' = result
      BY <2>4 DEF vars
    <3>2. Scanned' = Scanned /\ Genuine' = Genuine
      BY <3>1 DEF Scanned, Genuine, Shown
    <3>3. QED
      BY <3>1, <3>2 DEF ScreensTyped, ScansTyped, ResultMeant, Shown
  <2>5. QED
    BY <2>1, <2>2, <2>3, <2>4 DEF Next
<1>3. QED
  BY <1>1, <1>2, PTL DEF Spec

LEMMA ResultFacts ==
  ASSUME ResultMeant
  PROVE  /\ result.ok => /\ scans # <<>> /\ result.text # <<>> /\ result \in Join(Scanned)
                         /\ result # Failed
         /\ ~result.ok => result \in {NoResult, Failed}
<1>1. NoResult.ok = FALSE /\ Failed.ok = FALSE
  BY DEF NoResult, Failed
<1>2. CASE result = NoResult
  BY <1>1, <1>2
<1>3. CASE scans # <<>> /\ result \in Decode(Scanned, Genuine)
  BY <1>1, <1>3, DecodeFacts
<1>4. QED
  BY <1>2, <1>3 DEF ResultMeant

\* Every part of every screen carries something, and a result is a text or a
\* plain error.
THEOREM ScanTypeCorrect == Spec => []TypeOK
<1>1. ScanInv => TypeOK
  <2> SUFFICES ASSUME ScanInv PROVE TypeOK
    OBVIOUS
  <2> USE DEF ScanInv
  <2>1. \A k \in 1..Len(scans) :
          scans[k][1] \in Machines /\ scans[k][2] \in 1..Len(Shown(scans[k][1]))
    BY ScanFacts DEF ScansTyped
  <2>2. ASSUME NEW m \in Machines, NEW i \in 1..Len(Shown(m)) PROVE Shown(m)[i].body # <<>>
    <3>1. split[m] \in Nat /\ split[m] >= 1
      BY ScanAssumption DEF ScreensTyped
    <3>2. CASE split[m] = 1
      <4>1. i = 1 /\ Shown(m)[1] = Part(0, 0, payload[m])
        BY <3>2, WholeShown
      <4>2. QED
        BY <4>1, PartFields, PayloadFacts
    <3>3. CASE split[m] > 1
      <4>1. PICK body : body # <<>> /\ Shown(m)[i] = Part(i, split[m], body)
        BY <3>3, SplitShown
      <4>2. QED
        BY <4>1, PartFields
    <3>4. QED
      BY <3>1, <3>2, <3>3
  <2>3. result \in {NoResult, Failed} \/ (result.ok /\ result.text # <<>>)
    BY ResultFacts
  <2>4. QED
    BY <2>1, <2>2, <2>3 DEF TypeOK, ScreensTyped
<1>2. QED
  BY <1>1, ScanInvHolds, PTL

-----------------------------------------------------------------------------
(* What may come out. *)

LEMMA SortedFacts ==
  ASSUME NEW parts, NEW at, IsFiniteSet(at), NEW sorted \in SortedByIndex(parts, at)
  PROVE  /\ Cardinality(at) \in Nat
         /\ \E order \in [1..Cardinality(at) -> at] :
              /\ IsInjective(order)
              /\ \A i, j \in 1..Cardinality(at) :
                   i < j => parts[order[i]].index <= parts[order[j]].index
              /\ sorted = [k \in 1..Cardinality(at) |-> parts[order[k]]]
<1>1. Cardinality(at) \in Nat
  BY FS_CardinalityType
<1>2. PICK order \in [1..Cardinality(at) -> at] :
        /\ IsInjective(order)
        /\ \A i, j \in DOMAIN order : i < j => parts[order[i]].index <= parts[order[j]].index
        /\ sorted = [k \in 1..Cardinality(at) |-> parts[order[k]]]
  BY DEF SortedByIndex
<1>3. DOMAIN order = 1..Cardinality(at)
  OBVIOUS
<1>4. QED
  BY <1>1, <1>2, <1>3

LEMMA ChunkAtFinite ==
  ASSUME ScansTyped
  PROVE  ChunkAt \subseteq 1..Len(scans) /\ IsFiniteSet(ChunkAt)
<1>1. Len(scans) \in Nat /\ ChunkAt \subseteq 1..Len(scans)
  BY PartsFacts DEF ChunkAt
<1>2. IsFiniteSet(1..Len(scans))
  BY <1>1, FS_Interval
<1>3. QED
  BY <1>1, <1>2, FS_Subset

\* A text made of chunks is made of one chunk for each place, all of one total,
\* and nothing but chunks of that total was scanned.
LEMMA JoinedChunks ==
  ASSUME ScanInv, result.ok, ChunkAt # {}
  PROVE  \E n \in Nat, sorted \in Seq({Parts[k] : k \in 1..Len(scans)}) :
           /\ \A k \in 1..Len(scans) : split[scans[k][1]] = n
           /\ n > 1 /\ n <= Len(sorted)
           /\ \A want \in 1..n :
                \E k \in 1..Len(scans) : scans[k][2] = want /\ sorted[want] = Parts[k]
           /\ result = Got(Bodies(SubSeq(sorted, 1, n)))
<1> USE DEF ScanInv
<1> DEFINE Some == {Parts[k] : k \in 1..Len(scans)}
<1>1. PICK sorted \in SortedByIndex(Parts, ChunkAt), first \in ChunkAt :
        /\ TextAt = {}
        /\ \A j, k \in ChunkAt : Parts[j].total = Parts[k].total
        /\ Complete(sorted, Parts[first].total)
        /\ result = Got(Bodies(SubSeq(sorted, 1, Parts[first].total)))
  <2>1. result \in Join(Scanned) /\ result # Failed
    BY ResultFacts
  <2>2. QED
    BY <2>1, JoinFacts
<1> DEFINE n == Parts[first].total
<1>2. ChunkAt \subseteq 1..Len(scans) /\ IsFiniteSet(ChunkAt)
  BY ChunkAtFinite
<1>3. PICK order \in [1..Cardinality(ChunkAt) -> ChunkAt] :
        sorted = [k \in 1..Cardinality(ChunkAt) |-> Parts[order[k]]]
  BY <1>2, SortedFacts
<1>4. Cardinality(ChunkAt) \in Nat
  BY <1>2, FS_CardinalityType
<1>5. Len(sorted) = Cardinality(ChunkAt) /\ sorted \in Seq(Some)
  <2>1. \A k \in 1..Cardinality(ChunkAt) : Parts[order[k]] \in Some
    BY <1>2, <1>3
  <2> HIDE DEF Some
  <2>2. QED
    BY <1>3, <1>4, <2>1
<1>6. ASSUME NEW k \in 1..Len(scans)
      PROVE  /\ split[scans[k][1]] = n /\ n > 1 /\ n \in Nat
             /\ k \in ChunkAt /\ Parts[k].index = scans[k][2]
  <2>1. scans[k][1] \in Machines
    BY ScanFacts
  <2>2. split[scans[k][1]] \in Nat /\ split[scans[k][1]] >= 1
    BY <2>1, ScanAssumption DEF ScreensTyped
  <2>3. split[scans[k][1]] # 1
    BY <1>1, KindOfPart
  <2>4. split[scans[k][1]] > 1
    BY <2>2, <2>3
  <2>5. /\ k \in ChunkAt /\ Parts[k].index = scans[k][2]
        /\ Parts[k].total = split[scans[k][1]]
    BY <2>4, KindOfPart
  <2>6. Parts[k].total = Parts[first].total
    BY <1>1, <2>5
  <2>7. QED
    BY <2>2, <2>4, <2>5, <2>6
<1>7. first \in 1..Len(scans)
  BY <1>2
<1>8. n \in Nat /\ n > 1
  BY <1>6, <1>7
<1>9. n <= Len(sorted) /\ \A want \in 1..n : sorted[want].index = want
  BY <1>1 DEF Complete
<1>10. ASSUME NEW want \in 1..n
       PROVE  \E k \in 1..Len(scans) : scans[k][2] = want /\ sorted[want] = Parts[k]
  <2>1. want \in 1..Cardinality(ChunkAt)
    BY <1>4, <1>5, <1>8, <1>9
  <2>2. order[want] \in 1..Len(scans) /\ sorted[want] = Parts[order[want]]
    BY <1>2, <1>3, <2>1
  <2>3. scans[order[want]][2] = want
    BY <1>6, <1>9, <2>2
  <2>4. QED
    BY <2>2, <2>3
<1>11. result = Got(Bodies(SubSeq(sorted, 1, n)))
  BY <1>1
<1> HIDE DEF n, Some
<1>12. \A k \in 1..Len(scans) : split[scans[k][1]] = n
  BY <1>6
<1>13. QED
  BY <1>5, <1>8, <1>9, <1>10, <1>11, <1>12 DEF Some

\* Parts of machines that were split differently are never joined.
THEOREM NeverMixed == Spec => []UnevenNeverMixed
<1>1. ScanInv => UnevenNeverMixed
  <2> SUFFICES ASSUME ScanInv, result.ok, NEW a \in Machines, NEW b \in Machines,
                      Seen(a) # {}, Seen(b) # {}, split[a] > 1 \/ split[b] > 1
               PROVE  split[a] = split[b]
    BY DEF UnevenNeverMixed
  <2> USE DEF ScanInv
  <2>1. PICK j \in 1..Len(scans) : scans[j][1] = a
    BY DEF Seen
  <2>2. PICK k \in 1..Len(scans) : scans[k][1] = b
    BY DEF Seen
  <2>3. ChunkAt # {}
    BY <2>1, <2>2, KindOfPart
  <2>4. PICK n \in Nat : \A i \in 1..Len(scans) : split[scans[i][1]] = n
    BY <2>3, JoinedChunks
  <2>5. QED
    BY <2>1, <2>2, <2>4
<1>2. QED
  BY <1>1, ScanInvHolds, PTL

\* A text came out only if every position was scanned on some screen that was
\* split: with one part missing everywhere decoding fails, whatever was scanned
\* twice or on another machine.
THEOREM MissingIsRefused == Spec => []IncompleteRefused
<1>1. ScanInv => IncompleteRefused
  <2> SUFFICES ASSUME ScanInv, result.ok, \A m \in Machines : split[m] > 1
               PROVE  \E n \in 2..MaxParts : UNION {Seen(m) : m \in Machines} = 1..n
    BY DEF IncompleteRefused
  <2> USE DEF ScanInv
  <2>1. Len(scans) \in Nat /\ scans # <<>>
    BY ResultFacts, PartsFacts
  <2>2. 1 \in 1..Len(scans)
    BY <2>1 DEF ScansTyped
  <2>3. 1 \in ChunkAt
    BY <2>2, ScanFacts, KindOfPart
  <2>4. PICK n \in Nat :
          /\ n > 1
          /\ \A k \in 1..Len(scans) : split[scans[k][1]] = n
          /\ \A want \in 1..n : \E k \in 1..Len(scans) : scans[k][2] = want
    BY <2>3, JoinedChunks
  <2>5. n \in 2..MaxParts
    <3>1. scans[1][1] \in Machines
      BY <2>2, ScanFacts
    <3>2. split[scans[1][1]] = n /\ split[scans[1][1]] \in 1..MaxParts
      BY <2>2, <2>4, <3>1 DEF ScreensTyped
    <3>3. QED
      BY <2>4, <3>2, ScanAssumption
  <2>6. ASSUME NEW k \in 1..Len(scans)
        PROVE  scans[k][1] \in Machines /\ scans[k][2] \in 1..n
    <3>1. scans[k][1] \in Machines /\ scans[k][2] \in 1..Len(Shown(scans[k][1]))
      BY ScanFacts DEF ScansTyped
    <3>2. split[scans[k][1]] = n
      BY <2>4
    <3>3. Len(Shown(scans[k][1])) \in 1..n
      BY <2>4, <3>1, <3>2, SplitShown
    <3>4. QED
      BY <3>1, <3>3
  <2>7. UNION {Seen(m) : m \in Machines} \subseteq 1..n
    BY <2>6 DEF Seen
  <2>8. 1..n \subseteq UNION {Seen(m) : m \in Machines}
    <3> SUFFICES ASSUME NEW want \in 1..n PROVE \E m \in Machines : want \in Seen(m)
      OBVIOUS
    <3>1. PICK k \in 1..Len(scans) : scans[k][2] = want
      BY <2>4
    <3>2. want \in Seen(scans[k][1])
      BY <3>1 DEF Seen
    <3>3. QED
      BY <2>6, <3>2
  <2>9. QED
    BY <2>5, <2>7, <2>8
<1>2. QED
  BY <1>1, ScanInvHolds, PTL

\* Scans of one split screen, in any order, with gaps and repetitions, give the
\* payload of that machine or an error, never a text that is neither.
THEOREM OwnOrNothing == Spec => []OwnPayloadOrError
<1>1. ScanInv => OwnPayloadOrError
  <2> SUFFICES ASSUME ScanInv, NEW m \in Machines,
                      result.ok, Only(m), NoBlankEnds(m), split[m] > 1
               PROVE  result.text = payload[m]
    BY DEF OwnPayloadOrError
  <2> USE DEF ScanInv
  <2> DEFINE Some == {Parts[k] : k \in 1..Len(scans)}
  <2>1. 1 \in 1..Len(scans)
    BY ResultFacts, PartsFacts DEF ScansTyped
  <2>2. \A k \in 1..Len(scans) : scans[k][1] = m
    BY DEF Only
  <2>3. 1 \in ChunkAt
    BY <2>1, <2>2, KindOfPart
  <2>4. PICK n \in Nat, sorted \in Seq(Some) :
          /\ \A k \in 1..Len(scans) : split[scans[k][1]] = n
          /\ n > 1 /\ n <= Len(sorted)
          /\ \A want \in 1..n :
               \E k \in 1..Len(scans) : scans[k][2] = want /\ sorted[want] = Parts[k]
          /\ result = Got(Bodies(SubSeq(sorted, 1, n)))
    BY <2>3, JoinedChunks
  <2> HIDE DEF Some
  <2>5. split[m] = n
    BY <2>1, <2>2, <2>4
  <2>6. ASSUME NEW want \in 1..n
        PROVE  want <= Len(Shown(m)) /\ sorted[want] = Shown(m)[want]
    <3>1. PICK k \in 1..Len(scans) : scans[k][2] = want /\ sorted[want] = Parts[k]
      BY <2>4
    <3>2. want \in 1..Len(Shown(m))
      BY <2>2, <3>1 DEF ScansTyped
    <3>3. Parts[k] = TrimSpace(Shown(m)[want])
      BY <2>2, <3>1, PartsFacts
    <3>4. TrimSpace(Shown(m)[want]) = Shown(m)[want]
      BY <3>2 DEF NoBlankEnds
    <3>5. QED
      BY <3>1, <3>2, <3>3, <3>4
  <2>7. Len(Shown(m)) = n /\ Shown(m) = [i \in 1..n |-> Shown(m)[i]]
    <3>1. Len(Shown(m)) \in 1..n /\ Shown(m) = [i \in 1..Len(Shown(m)) |-> Shown(m)[i]]
      BY <2>5, SplitShown
    <3>2. n <= Len(Shown(m))
      BY <2>4, <2>6
    <3>3. Len(Shown(m)) = n
      BY <3>1, <3>2
    <3>4. QED
      BY <3>1, <3>3
  <2>8. SubSeq(sorted, 1, n) = Shown(m)
    <3>1. SubSeq(sorted, 1, n) = [i \in 1..n |-> sorted[i]]
      BY <2>4
    <3>2. QED
      BY <2>6, <2>7, <3>1
  <2>9. Bodies(Shown(m)) = payload[m]
    BY <2>4, <2>5, <2>7, PayloadFacts, SplitWhole DEF Shown
  <2>10. QED
    BY <2>4, <2>8, <2>9 DEF Got
<1>2. QED
  BY <1>1, ScanInvHolds, PTL

-----------------------------------------------------------------------------
(* Every part once. *)

\* Strictly rising numbers up to n, n of them, are each in their own place.
LEMMA Rising ==
  ASSUME NEW n \in Nat, NEW g \in [1..n -> 1..n],
         \A i, j \in 1..n : i < j => g[i] < g[j]
  PROVE  \A k \in 1..n : g[k] = k
<1>1. \A k \in 1..n : g[k] \in Nat /\ 1 <= g[k] /\ g[k] <= n
  <2>1. SUFFICES ASSUME NEW k \in 1..n PROVE g[k] \in Nat /\ 1 <= g[k] /\ g[k] <= n
    OBVIOUS
  <2>2. g[k] \in 1..n
    OBVIOUS
  <2>3. QED
    BY <2>2
<1> DEFINE Up == {k \in Nat : k \in 1..n => k <= g[k]}
           Down == {d \in Nat : d < n => g[n - d] <= n - d}
<1>2. Nat \subseteq Up
  <2>1. 0 \in Up
    OBVIOUS
  <2>2. ASSUME NEW k \in Nat, k \in Up PROVE k + 1 \in Up
    <3> SUFFICES ASSUME k + 1 \in 1..n PROVE k + 1 <= g[k + 1]
      OBVIOUS
    <3>1. g[k + 1] \in Nat /\ 1 <= g[k + 1]
      BY <1>1
    <3>2. CASE k = 0
      BY <3>1, <3>2
    <3>3. CASE k # 0
      <4>1. k \in 1..n /\ k < k + 1
        BY <3>3
      <4>2. k <= g[k] /\ g[k] \in Nat
        BY <1>1, <2>2, <4>1
      <4>3. g[k] < g[k + 1]
        BY <4>1
      <4>4. QED
        BY <3>1, <4>2, <4>3
    <3>4. QED
      BY <3>2, <3>3
  <2> HIDE DEF Up
  <2>3. QED
    BY <2>1, <2>2, Closed
<1>3. Nat \subseteq Down
  <2>1. 0 \in Down
    <3> SUFFICES ASSUME 0 < n PROVE g[n - 0] <= n - 0
      OBVIOUS
    <3>1. n - 0 = n /\ n \in 1..n
      OBVIOUS
    <3>2. QED
      BY <1>1, <3>1
  <2>2. ASSUME NEW d \in Nat, d \in Down PROVE d + 1 \in Down
    <3> SUFFICES ASSUME d + 1 < n PROVE g[n - (d + 1)] <= n - (d + 1)
      OBVIOUS
    <3> DEFINE i == n - (d + 1)
               j == n - d
    <3>1. i \in 1..n /\ j \in 1..n /\ i < j /\ j = i + 1 /\ d < n
      OBVIOUS
    <3>2. g[j] <= j
      BY <2>2, <3>1
    <3> HIDE DEF i, j
    <3>3. g[i] < g[j] /\ g[i] \in Nat /\ g[j] \in Nat
      BY <1>1, <3>1
    <3>4. g[i] <= i
      BY <3>1, <3>2, <3>3
    <3>5. QED
      BY <3>4 DEF i
  <2> HIDE DEF Down
  <2>3. QED
    BY <2>1, <2>2, Closed
<1>4. SUFFICES ASSUME NEW k \in 1..n PROVE g[k] = k
  OBVIOUS
<1>5. k \in Nat /\ n - k \in Nat /\ n - k < n /\ n - (n - k) = k
  OBVIOUS
<1>6. k \in Up /\ n - k \in Down
  BY <1>2, <1>3, <1>5
<1>7. k <= g[k] /\ g[k] <= k /\ g[k] \in Nat
  BY <1>1, <1>5, <1>6
<1>8. QED
  BY <1>5, <1>7

\* Numbers in order that leave none out are each in their own place.
LEMMA InOrder ==
  ASSUME NEW n \in Nat, NEW g \in [1..n -> 1..n],
         \A w \in 1..n : \E k \in 1..n : g[k] = w,
         \A i, j \in 1..n : i < j => g[i] <= g[j]
  PROVE  \A k \in 1..n : g[k] = k
<1>1. g \in Surjection(1..n, 1..n)
  BY DEF Surjection
<1>2. g \in Injection(1..n, 1..n)
  BY <1>1, FS_Interval, FS_SurjSameCardinalityImpliesInj
<1>3. ASSUME NEW i \in 1..n, NEW j \in 1..n, i < j PROVE g[i] < g[j]
  <2>1. g[i] # g[j]
    BY <1>2, <1>3 DEF Injection, IsInjective
  <2>2. g[i] \in 1..n /\ g[j] \in 1..n
    OBVIOUS
  <2>3. g[i] <= g[j]
    BY <1>3
  <2>4. QED
    BY <2>1, <2>2, <2>3
<1>4. QED
  BY <1>3, Rising

LEMMA OwnUnpacks ==
  ASSUME ScreensTyped, NEW m \in Machines
  PROVE  Unpacked(Got(payload[m]), Genuine) = Got(payload[m])
<1>1. Got(payload[m]).ok = TRUE /\ Got(payload[m]).text = payload[m]
  BY DEF Got
<1>2. payload[m] \in Genuine /\ payload[m] # <<>>
  BY PayloadFacts DEF Genuine
<1>3. CASE payload[m][1] = "Q"
  BY <1>1, <1>2, <1>3 DEF Unpacked
<1>4. CASE payload[m][1] # "Q"
  <2>1. WellFormed(payload[m])
    BY <1>4, PayloadFacts
  <2>2. QED
    BY <1>1, <1>4, <2>1 DEF Unpacked
<1>5. QED
  BY <1>3, <1>4

\* Every part of one screen scanned once, in whatever order, decodes to what
\* the machine encoded.
THEOREM AllPartsDecode == Spec => []CompleteDecodes
<1>1. ScanInv => CompleteDecodes
  <2> SUFFICES ASSUME ScanInv, NEW m \in Machines,
                      Decoded, EachOnce(m), FullSplit(m), NoBlankEnds(m)
               PROVE  result = Got(payload[m])
    BY DEF CompleteDecodes
  <2> USE DEF ScanInv
  <2> DEFINE n == split[m]
  <2>1. n \in Nat /\ n >= 1
    BY ScanAssumption DEF ScreensTyped
  <2>2. Len(scans) = n /\ Len(Shown(m)) = n /\ DOMAIN Parts = 1..n /\ Len(Parts) = n
    BY PartsFacts DEF EachOnce, FullSplit
  <2>3. Bodies(Shown(m)) = payload[m]
    BY <2>1, <2>2, PayloadFacts, SplitWhole DEF Shown
  <2>4. ASSUME NEW k \in 1..n
        PROVE  /\ scans[k][1] = m /\ scans[k][2] \in 1..n
               /\ Parts[k] = Shown(m)[scans[k][2]]
    <3>1. scans[k][1] = m /\ scans[k][2] \in 1..n
      BY <2>2 DEF EachOnce, Only, ScansTyped
    <3>2. Parts[k] = TrimSpace(Shown(m)[scans[k][2]])
      BY <2>2, <3>1, PartsFacts
    <3>3. QED
      BY <2>2, <3>1, <3>2 DEF NoBlankEnds
  <2>5. ASSUME NEW joined \in Join(Scanned) PROVE joined = Got(payload[m])
    <3>1. CASE n = 1
      <4>1. ChunkAt = {}
        <5>1. 1 \notin ChunkAt
          BY <2>2, <2>4, <3>1, KindOfPart
        <5>2. ChunkAt \subseteq 1..1
          BY <2>2, <3>1, ChunkAtFinite
        <5>3. QED
          BY <5>1, <5>2
      <4>2. joined = Got(Bodies(Parts))
        BY <4>1, JoinOfParts
      <4>3. Parts = Shown(m)
        <5>1. Shown(m) = <<Part(0, 0, payload[m])>>
          BY <3>1 DEF Shown, Split
        <5>2. Parts = [k \in 1..1 |-> Parts[k]]
          BY <2>2, <3>1 DEF Parts
        <5>3. Parts[1] = Shown(m)[1]
          BY <2>4, <3>1
        <5>4. Shown(m) = [k \in 1..1 |-> Shown(m)[k]]
          BY <5>1
        <5>5. QED
          BY <5>2, <5>3, <5>4
      <4>4. QED
        BY <2>3, <4>2, <4>3
    <3>2. CASE n > 1
      <4>1. ASSUME NEW k \in 1..n
            PROVE  /\ k \in ChunkAt /\ k \notin TextAt
                   /\ Parts[k].index = scans[k][2] /\ Parts[k].total = n
        BY <2>2, <2>4, <3>2, KindOfPart
      <4>2. ChunkAt = 1..n /\ TextAt = {}
        <5>1. ChunkAt \subseteq 1..n /\ TextAt \subseteq 1..n
          BY <2>2, ChunkAtFinite DEF TextAt
        <5>2. QED
          BY <4>1, <5>1
      <4>3. Totals = {n}
        <5>1. 1 \in 1..n
          BY <2>1
        <5> HIDE DEF n
        <5>2. QED
          BY <4>1, <4>2, <5>1 DEF Totals
      <4>4. ChunkAt # {}
        BY <2>1, <4>2
      <4>5. PICK sorted \in SortedByIndex(Parts, ChunkAt) : joined = Reassembled(sorted, n)
        BY <4>2, <4>3, <4>4, JoinOfParts
      <4>6. Cardinality(ChunkAt) = n /\ IsFiniteSet(ChunkAt)
        BY <2>1, <4>2, FS_Interval
      <4>7. PICK order \in [1..n -> 1..n] :
              /\ IsInjective(order)
              /\ \A i, j \in 1..n : i < j => Parts[order[i]].index <= Parts[order[j]].index
              /\ sorted = [k \in 1..n |-> Parts[order[k]]]
        BY <4>2, <4>6, SortedFacts
      <4>8. order \in Surjection(1..n, 1..n)
        <5>1. order \in Injection(1..n, 1..n)
          BY <4>7 DEF Injection
        <5>2. QED
          BY <4>2, <4>6, <5>1, FS_Injection
      <4> DEFINE g == [k \in 1..n |-> scans[order[k]][2]]
      <4> HIDE DEF n
      <4>9. g \in [1..n -> 1..n]
        BY <2>4
      <4>10. ASSUME NEW w \in 1..n PROVE \E k \in 1..n : g[k] = w
        <5>1. w \in Seen(m)
          BY <2>2 DEF EachOnce
        <5>2. PICK j \in 1..n : scans[j][2] = w
          BY <2>2, <5>1 DEF Seen
        <5>3. PICK k \in 1..n : order[k] = j
          BY <4>8 DEF Surjection
        <5>4. QED
          BY <5>2, <5>3
      <4>11. \A i, j \in 1..n : i < j => g[i] <= g[j]
        BY <4>1, <4>7
      <4>12. \A k \in 1..n : g[k] = k
        <5> HIDE DEF g
        <5>1. QED
          BY <2>1, <4>9, <4>10, <4>11, InOrder
      <4>13. ASSUME NEW k \in 1..n PROVE sorted[k] = Shown(m)[k] /\ sorted[k].index = k
        <5>1. order[k] \in 1..n /\ scans[order[k]][2] = k /\ sorted[k] = Parts[order[k]]
          BY <4>7, <4>12
        <5>2. Parts[order[k]] = Shown(m)[k] /\ Parts[order[k]].index = k
          BY <2>4, <4>1, <5>1
        <5>3. QED
          BY <5>1, <5>2
      <4>14. Shown(m) = [k \in 1..n |-> Shown(m)[k]]
        BY <2>2, <3>2, SplitShown DEF n
      <4>15. sorted = [k \in 1..n |-> sorted[k]]
        BY <4>7
      <4>16. sorted = Shown(m)
        BY <4>13, <4>14, <4>15
      <4>17. Len(sorted) = n /\ Complete(sorted, n)
        BY <2>1, <2>2, <4>13, <4>16 DEF Complete
      <4>18. SubSeq(sorted, 1, n) = sorted
        <5> DEFINE Some == {sorted[k] : k \in 1..n}
        <5>1. \A k \in 1..n : sorted[k] \in Some
          OBVIOUS
        <5> HIDE DEF Some
        <5>2. sorted \in Seq(Some)
          BY <2>1, <4>15, <5>1
        <5>3. QED
          BY <2>1, <4>17, <5>2
      <4>19. QED
        BY <2>3, <4>5, <4>16, <4>17, <4>18 DEF Reassembled
    <3>3. QED
      BY <2>1, <3>1, <3>2
  <2>6. result \in Decode(Scanned, Genuine)
    BY DEF ResultMeant, Decoded
  <2>7. PICK joined \in Join(Scanned) : result = Unpacked(joined, Genuine)
    BY <2>6 DEF Decode
  <2>8. result = Unpacked(Got(payload[m]), Genuine)
    BY <2>5, <2>7
  <2>9. QED
    BY <2>8, OwnUnpacks
<1>2. QED
  BY <1>1, ScanInvHolds, PTL
=============================================================================
