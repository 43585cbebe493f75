---------------------------- MODULE LayoutProofs ----------------------------
(***************************************************************************)
(* What Layout draws, for every machine, console and combination of flags. *)
(* The inductive invariant says what the search has ruled out so far: the  *)
(* plans before the one that is tried, the encodings before its current    *)
(* one, and fewer symbols.                                                 *)
(***************************************************************************)
EXTENDS Layout, TLAPS, FiniteSetTheorems

LEMMA SeqFromRange ==
  ASSUME NEW S, NEW n \in Nat, NEW f \in [1..n -> S]
  PROVE  f \in Seq(S) /\ Len(f) = n /\ DOMAIN f = 1..n
  OBVIOUS

LEMMA DivNat ==
  ASSUME NEW a \in Nat, NEW b \in Nat \ {0}
  PROVE  a \div b \in Nat /\ (a >= b => a \div b >= 1)
  OBVIOUS

-----------------------------------------------------------------------------
(* The lists the search goes through. *)

Plan == [minimal : BOOLEAN, layout : {"full", "compact", "qr"}]

LEMMA CandidatesTyped ==
  ASSUME cfg \in Configs
  PROVE  /\ Candidates \in Seq(Kinds) /\ Len(Candidates) \in {1, 2}
         /\ \A c \in 1..Len(Candidates) : Candidates[c] \in Kinds
<1>1. cfg.format \in {"auto", "plain", "packed"}
  BY LayoutAssumption DEF Kinds
<1>2. CASE cfg.format = "auto"
  BY <1>2 DEF Candidates, Kinds
<1>3. CASE cfg.format # "auto"
  BY <1>1, <1>3 DEF Candidates, Kinds
<1>4. QED
  BY <1>2, <1>3


\* A list of layouts or of payloads is one value or all of them, the most
\* preferred one first.
LEMMA LayoutsFacts ==
  ASSUME cfg \in Configs
  PROVE  /\ Len(Layouts) \in {1, 3}
         /\ \A k \in 1..Len(Layouts) : Layouts[k] \in {"full", "compact", "qr"}
         /\ \A i, j \in 1..Len(Layouts) :
              /\ Detail[Layouts[i]] > Detail[Layouts[j]] => i < j
              /\ Layouts[i] = Layouts[j] => i = j
<1>1. cfg.layout \in {"auto", "full", "compact", "qr"}
  BY LayoutAssumption
<1>2. CASE cfg.layout = "auto"
  <2>1. Layouts = <<"full", "compact", "qr">>
    BY <1>2 DEF Layouts, LayoutNames
  <2>2. /\ Layouts[1] = "full" /\ Layouts[2] = "compact" /\ Layouts[3] = "qr"
        /\ Len(Layouts) = 3
    BY <2>1
  <2>3. \A k \in 1..3 : k = 1 \/ k = 2 \/ k = 3
    OBVIOUS
  <2>4. QED
    BY <2>2, <2>3 DEF Detail
<1>3. CASE cfg.layout # "auto"
  <2>1. Layouts = <<cfg.layout>> /\ Len(Layouts) = 1
    BY <1>3 DEF Layouts
  <2>2. Layouts[1] = cfg.layout /\ \A k \in 1..Len(Layouts) : k = 1
    BY <2>1
  <2>3. QED
    BY <1>1, <1>3, <2>1, <2>2 DEF Detail
<1>4. QED
  BY <1>2, <1>3

LEMMA PayloadsFacts ==
  ASSUME cfg \in Configs
  PROVE  /\ Len(Payloads) \in {1, 2}
         /\ \A k \in 1..Len(Payloads) : Payloads[k] \in BOOLEAN
         /\ \A i, j \in 1..Len(Payloads) :
              /\ ~Payloads[i] /\ Payloads[j] => i < j
              /\ Payloads[i] = Payloads[j] => i = j
<1>1. CASE cfg.minimal
  <2>1. Len(Payloads) = 1 /\ Payloads[1] = TRUE
    BY <1>1 DEF Payloads
  <2>2. \A k \in 1..Len(Payloads) : k = 1
    BY <2>1
  <2>3. QED
    BY <2>1, <2>2
<1>2. CASE ~cfg.minimal
  <2>1. Len(Payloads) = 2 /\ Payloads[1] = FALSE /\ Payloads[2] = TRUE
    BY <1>2 DEF Payloads
  <2>2. \A k \in 1..Len(Payloads) : k = 1 \/ k = 2
    BY <2>1
  <2>3. \A i, j \in 1..Len(Payloads) : ~Payloads[i] /\ Payloads[j] => i = 1 /\ j = 2
    BY <2>1, <2>2
  <2>4. \A k \in 1..Len(Payloads) : Payloads[k] \in BOOLEAN
    BY <2>1, <2>2
  <2>5. \A i, j \in 1..Len(Payloads) : Payloads[i] = Payloads[j] => i = j
    BY <2>1, <2>2
  <2>6. Len(Payloads) \in {1, 2} /\ 1 < 2
    BY <2>1
  <2>7. QED
    BY <2>3, <2>4, <2>5, <2>6
<1>3. QED
  BY <1>1, <1>2

\* Two nested loops over a inner and b outer values.
LEMMA Nested ==
  ASSUME NEW a \in {1, 2, 3}, NEW b \in {1, 2, 3}, NEW k \in 1..(a * b), NEW q \in 1..(a * b)
  PROVE  /\ ((k - 1) \div a) + 1 \in 1..b /\ ((k - 1) % a) + 1 \in 1..a
         /\ ((q - 1) \div a) + 1 < ((k - 1) \div a) + 1 => q < k
         /\ /\ ((q - 1) \div a) + 1 = ((k - 1) \div a) + 1
            /\ ((q - 1) % a) + 1 < ((k - 1) % a) + 1
            => q < k
<1>1. CASE a = 1
  BY <1>1
<1>2. CASE a = 2
  BY <1>2
<1>3. CASE a = 3
  BY <1>3
<1>4. QED
  BY <1>1, <1>2, <1>3

LEMMA PlansFacts ==
  ASSUME cfg \in Configs
  PROVE  /\ Len(Plans) \in Nat \ {0} /\ DOMAIN Plans = 1..Len(Plans)
         /\ \A k \in 1..Len(Plans) : Plans[k] \in Plan
         /\ \A q, k \in 1..Len(Plans) : Preferred(Plans[q], Plans[k]) => q < k
<1> DEFINE nl == Len(Layouts)
           np == Len(Payloads)
           o(k) == ((k - 1) \div nl) + 1
           i(k) == ((k - 1) % nl) + 1
           oo(k) == ((k - 1) \div np) + 1
           ii(k) == ((k - 1) % np) + 1
<1>1. nl \in {1, 3} /\ np \in {1, 2} /\ nl * np \in Nat \ {0} /\ nl * np = np * nl
  <2>1. nl \in {1, 3} /\ np \in {1, 2}
    BY LayoutsFacts, PayloadsFacts
  <2>2. QED
    BY <2>1
<1>2. \A k, q \in 1..(nl * np) :
        /\ o(k) \in 1..np /\ i(k) \in 1..nl
        /\ o(q) < o(k) => q < k
        /\ o(q) = o(k) /\ i(q) < i(k) => q < k
  BY <1>1, Nested
<1>3. \A k, q \in 1..(nl * np) :
        /\ oo(k) \in 1..nl /\ ii(k) \in 1..np
        /\ oo(q) < oo(k) => q < k
        /\ oo(q) = oo(k) /\ ii(q) < ii(k) => q < k
  BY <1>1, Nested
<1>4. Plans = [k \in 1..(nl * np) |->
                 IF cfg.prefer = "payload"
                 THEN [minimal |-> Payloads[o(k)], layout |-> Layouts[i(k)]]
                 ELSE [minimal |-> Payloads[ii(k)], layout |-> Layouts[oo(k)]]]
  BY DEF Plans
<1> DEFINE L == Layouts
           P == Payloads
<1>5. /\ \A k \in 1..nl : L[k] \in {"full", "compact", "qr"}
      /\ \A x, y \in 1..nl : /\ Detail[L[x]] > Detail[L[y]] => x < y
                             /\ L[x] = L[y] => x = y
      /\ \A k \in 1..np : P[k] \in BOOLEAN
      /\ \A x, y \in 1..np : /\ ~P[x] /\ P[y] => x < y
                             /\ P[x] = P[y] => x = y
  BY LayoutsFacts, PayloadsFacts
<1> HIDE DEF nl, np, o, i, oo, ii, L, P
<1>6. \A k \in 1..(nl * np) : Plans[k] \in Plan
  BY <1>2, <1>3, <1>4, <1>5 DEF Plan, L, P
<1>7. Plans \in [1..(nl * np) -> Plan]
  BY <1>4, <1>6
<1>8. Len(Plans) = nl * np /\ DOMAIN Plans = 1..(nl * np)
  BY <1>1, <1>7, SeqFromRange
<1>9. ASSUME NEW q \in 1..(nl * np), NEW k \in 1..(nl * np), Preferred(Plans[q], Plans[k])
      PROVE  q < k
  <2>1. CASE cfg.prefer = "payload"
    <3>1. /\ Plans[q].minimal = P[o(q)] /\ Plans[q].layout = L[i(q)]
          /\ Plans[k].minimal = P[o(k)] /\ Plans[k].layout = L[i(k)]
      BY <1>4, <2>1 DEF L, P
    <3>2. CASE ~P[o(q)] /\ P[o(k)]
      BY <1>2, <1>5, <3>2
    <3>3. CASE P[o(q)] = P[o(k)] /\ Detail[L[i(q)]] > Detail[L[i(k)]]
      BY <1>2, <1>5, <3>3
    <3>4. QED
      BY <1>9, <2>1, <3>1, <3>2, <3>3 DEF Preferred
  <2>2. CASE cfg.prefer # "payload"
    <3>1. /\ Plans[q].minimal = P[ii(q)] /\ Plans[q].layout = L[oo(q)]
          /\ Plans[k].minimal = P[ii(k)] /\ Plans[k].layout = L[oo(k)]
      BY <1>4, <2>2 DEF L, P
    <3>2. CASE Detail[L[oo(q)]] > Detail[L[oo(k)]]
      BY <1>3, <1>5, <3>2
    <3>3. CASE L[oo(q)] = L[oo(k)] /\ ~P[ii(q)] /\ P[ii(k)]
      BY <1>3, <1>5, <3>3
    <3>4. QED
      BY <1>9, <2>2, <3>1, <3>2, <3>3 DEF Preferred
  <2>3. QED
    BY <2>1, <2>2
<1>10. QED
  BY <1>1, <1>6, <1>8, <1>9

-----------------------------------------------------------------------------
(* The search. *)

\* The machine, the console and the flags are read once.
LEMMA GivenStays ==
  ASSUME UNCHANGED given
  PROVE  /\ Plans' = Plans /\ Candidates' = Candidates /\ cfg' = cfg /\ console' = console
         /\ \A pl, kind, p :
              /\ Symbols(kind, pl.minimal, p)' = Symbols(kind, pl.minimal, p)
              /\ Encodes(kind, pl.minimal, p)' = Encodes(kind, pl.minimal, p)
              /\ Budget(pl.layout)' = Budget(pl.layout)
              /\ Holds(pl, kind, p)' = Holds(pl, kind, p)
         /\ \A pl : FitsSomehow(pl)' = FitsSomehow(pl)
<1>1. machine' = machine /\ console' = console /\ cfg' = cfg
  BY DEF given
<1>2. Plans' = Plans /\ Candidates' = Candidates
  BY <1>1 DEF Plans, Candidates, Layouts, Payloads
<1>3. ASSUME NEW pl, NEW kind, NEW p
      PROVE  /\ Symbols(kind, pl.minimal, p)' = Symbols(kind, pl.minimal, p)
             /\ Encodes(kind, pl.minimal, p)' = Encodes(kind, pl.minimal, p)
  BY <1>1 DEF Symbols, Encodes, Count, PartSize, LastSize, Bytes
<1>4. ASSUME NEW pl PROVE Budget(pl.layout)' = Budget(pl.layout)
  BY <1>1 DEF Budget, Lines, Separator, FooterLine
<1>5. ASSUME NEW pl, NEW kind, NEW p
      PROVE  Holds(pl, kind, p)' = Holds(pl, kind, p)
  BY <1>1, <1>3, <1>4 DEF Holds, AllFit
<1>6. ASSUME NEW pl PROVE FitsSomehow(pl)' = FitsSomehow(pl)
  BY <1>1, <1>2, <1>5 DEF FitsSomehow
<1>7. QED
  BY <1>1, <1>2, <1>3, <1>4, <1>5, <1>6

\* The rows of a report and those that are left for symbols.
LEMMA BudgetTyped ==
  ASSUME TypeOK, NEW name \in {"full", "compact", "qr"}
  PROVE  /\ Lines(name) \in Nat \ {0} /\ Separator(name) \in {0, 1} /\ FooterLine \in {0, 1}
         /\ console.rows \in Nat /\ console.cols \in Nat
         /\ Budget(name) \in Int
<1>1. /\ machine.fields \in Nat /\ machine.nics \in Nat /\ machine.disks \in Nat
      /\ machine.sys \in BOOLEAN
      /\ console.rows \in Nat /\ console.cols \in Nat
  BY LayoutAssumption DEF TypeOK
<1>2. TableLines(machine.nics) \in Nat /\ TableLines(machine.disks) \in Nat
  BY <1>1 DEF TableLines
<1>3. Lines(name) \in Nat \ {0}
  BY <1>1, <1>2 DEF Lines
<1>4. Separator(name) \in {0, 1} /\ FooterLine \in {0, 1}
  BY DEF Separator, FooterLine
<1>5. Budget(name) \in Int
  BY <1>1, <1>3, <1>4 DEF Budget
<1>6. QED
  BY <1>1, <1>3, <1>4, <1>5

\* A payload in p parts.
LEMMA SymbolsTyped ==
  ASSUME TypeOK, NEW kind \in Kinds, NEW minimal \in BOOLEAN, NEW p \in Nat \ {0}
  PROVE  /\ Symbols(kind, minimal, p).count \in Nat
         /\ Symbols(kind, minimal, p).first \in Nat /\ Symbols(kind, minimal, p).last \in Nat
         /\ p = 1 => Symbols(kind, minimal, p).count = 1
<1>1. Bytes(kind, minimal) \in Nat \ {0}
  BY LayoutAssumption DEF TypeOK, Bytes
<1>2. PartSize(kind, minimal, p) \in Nat \ {0}
  <2>1. /\ Bytes(kind, minimal) + p - 1 \in Nat /\ Bytes(kind, minimal) + p - 1 >= p
    BY <1>1
  <2>2. (Bytes(kind, minimal) + p - 1) \div p \in Nat
        /\ (Bytes(kind, minimal) + p - 1) \div p >= 1
    BY <2>1, DivNat
  <2>3. QED
    BY <2>2 DEF PartSize
<1>3. Count(kind, minimal, p) \in Nat /\ (p = 1 => Count(kind, minimal, p) = 1)
  <2>1. CASE p = 1
    BY <2>1 DEF Count
  <2>2. CASE p # 1
    <3>1. Bytes(kind, minimal) + PartSize(kind, minimal, p) - 1 \in Nat
      BY <1>1, <1>2
    <3>2. QED
      BY <1>2, <2>2, <3>1, DivNat DEF Count
  <2>3. QED
    BY <2>1, <2>2
<1>4. ASSUME NEW n PROVE Version(kind, n) \in Nat
  <2> DEFINE S == {v \in 1..Len(Capacity[kind]) : Capacity[kind][v] < n}
  <2>1. Len(Capacity[kind]) \in Nat
    BY LayoutAssumption
  <2>2. IsFiniteSet(1..Len(Capacity[kind]))
    BY <2>1, FS_Interval
  <2>3. IsFiniteSet(S)
    BY <2>2, FS_Subset
  <2>4. Cardinality(S) \in Nat
    BY <2>3, FS_CardinalityType
  <2>5. QED
    BY <2>4 DEF Version
<1>5. QED
  BY <1>3, <1>4 DEF Symbols

\* The rows and columns of symbols.
LEMMA SizesTyped ==
  ASSUME NEW s, s.count \in Nat, s.first \in Nat, s.last \in Nat
  PROVE  /\ Cols(s.first) \in Nat /\ Cols(s.last) \in Nat /\ SymbolRows(s) \in Int
<1>1. Cols(s.first) \in Nat /\ Cols(s.last) \in Nat
  <2>1. Quiet \in Nat
    BY LayoutAssumption
  <2>2. QED
    BY <2>1 DEF Cols
<1>2. Rows(s.first) \in Nat /\ Rows(s.last) \in Nat
  BY <1>1 DEF Rows
<1>3. QED
  BY <1>1, <1>2 DEF SymbolRows

\* What has been tried so far does not fit.
RuledOut ==
  /\ \A q \in 1..Len(Plans) : q < plan => ~FitsSomehow(Plans[q])
  /\ plan <= Len(Plans) =>
       \A c \in 1..Len(Candidates), p \in 1..cfg.parts :
         c < cand \/ (c = cand /\ p < parts) => ~Holds(Plans[plan], Candidates[c], p)

\* What is kept fits only if it is what the search has stopped at.
Kept ==
  /\ Drawn /\ ~best.ok => plan > Len(Plans)
  /\ best.ok =>
       /\ Drawn /\ plan <= Len(Plans) /\ cand <= Len(Candidates) /\ parts <= cfg.parts
       /\ best = Arranged(plan, Candidates[cand], parts, TRUE)
       /\ Holds(Plans[plan], Candidates[cand], parts)

SearchInv == TypeOK /\ RuledOut /\ Kept

LEMMA SearchInit == Init => SearchInv
<1> SUFFICES ASSUME Init PROVE SearchInv
  OBVIOUS
<1>1. /\ Len(Plans) \in Nat \ {0} /\ Len(Candidates) \in {1, 2} /\ cfg.parts \in Nat
  BY PlansFacts, CandidatesTyped, LayoutAssumption DEF Init
<1>2. QED
  BY <1>1 DEF Init, SearchInv, TypeOK, RuledOut, Kept, NoLayout, Drawn

LEMMA SearchNext == SearchInv /\ [Next]_vars => SearchInv'
<1> SUFFICES ASSUME SearchInv, [Next]_vars PROVE SearchInv'
  OBVIOUS
<1>1. UNCHANGED given
  BY DEF Next, vars, Draw, Overflowing, TooLarge, NextCandidate, LastResort, DrawAnyway
<1>2. /\ Plans' = Plans /\ Candidates' = Candidates /\ cfg' = cfg /\ given' = given
      /\ \A pl, kind, p : Holds(pl, kind, p)' = Holds(pl, kind, p)
      /\ \A pl : FitsSomehow(pl)' = FitsSomehow(pl)
      /\ machine' \in Machines /\ console' \in Consoles /\ cfg' \in Configs
  BY <1>1, GivenStays DEF SearchInv, TypeOK, given
<1>3. /\ Len(Plans) \in Nat \ {0} /\ DOMAIN Plans = 1..Len(Plans)
      /\ Len(Candidates) \in {1, 2} /\ DOMAIN Candidates = 1..Len(Candidates)
      /\ cfg.parts \in Nat
      /\ plan \in Nat /\ cand \in Nat /\ parts \in Nat
  BY PlansFacts, CandidatesTyped, LayoutAssumption DEF SearchInv, TypeOK
<1>4. ASSUME NEW k, NEW kind, NEW p, NEW ok \in BOOLEAN
      PROVE  Arranged(k, kind, p, ok)' = Arranged(k, kind, p, ok)
  <2>1. \A x : Symbols(kind, x, p)' = Symbols(kind, x, p)
    <3> TAKE x
    <3> DEFINE pl == [minimal |-> x]
    <3>1. Symbols(kind, pl.minimal, p)' = Symbols(kind, pl.minimal, p)
      BY <1>1, GivenStays
    <3>2. QED
      BY <3>1
  <2>2. QED
    BY <1>2, <2>1 DEF Arranged
<1>14. plan # 0
  BY <1>3 DEF SearchInv, TypeOK
<1>5. CASE UNCHANGED vars
  <2>1. TypeOK'
    BY <1>5, <1>2, <1>4 DEF vars, SearchInv, TypeOK
  <2>2. RuledOut'
    BY <1>5, <1>2, <1>4 DEF vars, SearchInv, RuledOut
  <2>3. Kept'
    BY <1>5, <1>2, <1>4 DEF vars, SearchInv, Kept, Drawn
  <2>4. QED
    BY <2>1, <2>2, <2>3 DEF SearchInv
\* Where the search goes on.
<1>6. ASSUME plan <= Len(Plans), ~FitsSomehow(Plans[plan]), NextPlan,
             status = "trying", status' = "trying",
             best'.plan = plan, best'.ok = FALSE, best' # NoLayout
      PROVE  SearchInv'
  <2>1. TypeOK'
    <3>1. /\ plan' \in 1..(Len(Plans) + 1) /\ cand' \in 1..(Len(Candidates) + 1)
          /\ parts' \in 1..(cfg.parts + 1) /\ best'.plan \in 0..plan'
      BY <1>3, <1>6 DEF NextPlan, SearchInv, TypeOK
    <3>2. best'.ok \in BOOLEAN
      BY <1>6
    <3>3. best'.plan # 0 /\ best' # NoLayout
      BY <1>6, <1>14
    <3>4. QED
      BY <1>2, <1>6, <3>1, <3>2, <3>3 DEF TypeOK
  <2>2. RuledOut'
    <3>1. \A q \in 1..Len(Plans) : q < plan + 1 => ~FitsSomehow(Plans[q])
      <4>1. \A q \in 1..Len(Plans) : q < plan + 1 => q < plan \/ q = plan
        BY <1>3
      <4>2. QED
        BY <4>1, <1>6 DEF SearchInv, RuledOut
    <3>2. \A c \in 1..Len(Candidates), p \in 1..cfg.parts : ~(c < 1 \/ (c = 1 /\ p < 1))
      BY <1>3
    <3>3. QED
      BY <1>2, <1>6, <3>1, <3>2 DEF NextPlan, RuledOut
  <2>3. Kept'
    BY <1>6, <1>2 DEF Kept, Drawn
  <2>4. QED
    BY <2>1, <2>2, <2>3 DEF SearchInv
<1>7. CASE Draw
  <2>1. /\ best' = Arranged(plan, Candidates[cand], parts, TRUE) /\ status' = "drawn"
        /\ plan' = plan /\ cand' = cand /\ parts' = parts
        /\ plan <= Len(Plans) /\ cand <= Len(Candidates) /\ parts <= cfg.parts
    BY <1>7 DEF Draw, Trying
  <2>2. Holds(Plans[plan], Candidates[cand], parts)
    BY <1>7 DEF Draw, Fitting, Holds
  <2>3. best'.plan = plan /\ best'.ok = TRUE /\ best' # NoLayout
    <3>1. best'.plan = plan
      BY <2>1, <1>14 DEF Arranged, NoLayout
    <3>2. best'.ok = TRUE
      BY <2>1, <1>14 DEF Arranged, NoLayout
    <3>3. best' # NoLayout
      BY <2>1, <1>14 DEF Arranged, NoLayout
    <3>4. QED
      BY <3>1, <3>2, <3>3
  <2>4. TypeOK'
    <3>1. /\ plan' = plan /\ cand' = cand /\ parts' = parts /\ status' = "drawn"
          /\ best'.plan = plan /\ best'.ok \in BOOLEAN /\ best'.plan # 0 /\ best' # NoLayout
      BY <1>14, <2>1, <2>3
    <3>2. plan \in 0..plan
      BY <1>3
    <3>3. QED
      BY <1>2, <3>1, <3>2 DEF SearchInv, TypeOK
  <2>5. RuledOut'
    BY <1>2, <2>1 DEF SearchInv, RuledOut
  <2>6. Kept'
    BY <1>2, <1>4, <2>1, <2>2, <2>3 DEF Kept, Drawn
  <2>7. QED
    BY <2>4, <2>5, <2>6 DEF SearchInv
<1>8. CASE Overflowing
  <2>1. /\ plan <= Len(Plans) /\ Budget(Plans[plan].layout) <= 0 /\ NextPlan
        /\ best' = Arranged(plan, Candidates[cand], parts, FALSE)
        /\ status = "trying" /\ status' = "trying"
    BY <1>8 DEF Overflowing, Trying
  <2>2. ~FitsSomehow(Plans[plan])
    <3>1. Plans[plan].layout \in {"full", "compact", "qr"}
      BY <1>3, <2>1, PlansFacts DEF SearchInv, TypeOK, Plan
    <3>2. ~(Budget(Plans[plan].layout) > 0)
      BY <2>1, <3>1, BudgetTyped DEF SearchInv
    <3>3. QED
      BY <3>2 DEF FitsSomehow, Holds
  <2>3. best'.plan = plan /\ best'.ok = FALSE /\ best' # NoLayout
    <3>1. best'.plan = plan
      BY <2>1, <1>14 DEF Arranged, NoLayout
    <3>2. best'.ok = FALSE
      BY <2>1, <1>14 DEF Arranged, NoLayout
    <3>3. best' # NoLayout
      BY <2>1, <1>14 DEF Arranged, NoLayout
    <3>4. QED
      BY <3>1, <3>2, <3>3
  <2>4. QED
    BY <2>1, <2>2, <2>3, <1>6
<1>9. CASE TooLarge
  <2>1. /\ plan <= Len(Plans) /\ cand <= Len(Candidates) /\ parts <= cfg.parts
        /\ plan' = plan /\ cand' = cand /\ parts' = parts + 1 /\ best' = best
        /\ status = "trying" /\ status' = "trying"
    BY <1>9 DEF TooLarge, Trying
  <2>2. ~Holds(Plans[plan], Candidates[cand], parts)
    BY <1>9 DEF TooLarge, Fitting, Holds
  <2>3. TypeOK'
    BY <1>2, <1>3, <2>1 DEF SearchInv, TypeOK
  <2>4. RuledOut'
    <3>1. \A c \in 1..Len(Candidates), p \in 1..cfg.parts :
            c < cand \/ (c = cand /\ p < parts + 1) =>
              c < cand \/ (c = cand /\ p < parts) \/ (c = cand /\ p = parts)
      BY <1>3
    <3>2. \A c \in 1..Len(Candidates), p \in 1..cfg.parts :
            c < cand \/ (c = cand /\ p < parts + 1) => ~Holds(Plans[plan], Candidates[c], p)
      BY <2>1, <2>2, <3>1 DEF SearchInv, RuledOut
    <3>3. QED
      BY <1>2, <2>1, <3>2 DEF SearchInv, RuledOut
  <2>5. Kept'
    BY <2>1 DEF SearchInv, Kept, Drawn
  <2>6. QED
    BY <2>3, <2>4, <2>5 DEF SearchInv
<1>10. CASE NextCandidate
  <2>1. /\ plan <= Len(Plans) /\ cand <= Len(Candidates) /\ parts > cfg.parts
        /\ plan' = plan /\ cand' = cand + 1 /\ parts' = 1 /\ best' = best
        /\ status = "trying" /\ status' = "trying"
    BY <1>10 DEF NextCandidate, Trying
  <2>2. TypeOK'
    BY <1>2, <1>3, <2>1 DEF SearchInv, TypeOK
  <2>3. RuledOut'
    <3>1. \A c \in 1..Len(Candidates), p \in 1..cfg.parts :
            c < cand + 1 \/ (c = cand + 1 /\ p < 1) => c < cand \/ (c = cand /\ p < parts)
      BY <1>3, <2>1
    <3>2. QED
      BY <1>2, <2>1, <3>1 DEF SearchInv, RuledOut
  <2>4. Kept'
    BY <2>1 DEF SearchInv, Kept, Drawn
  <2>5. QED
    BY <2>2, <2>3, <2>4 DEF SearchInv
<1>11. CASE LastResort
  <2>1. plan <= Len(Plans) /\ cand > Len(Candidates) /\ status = "trying"
    BY <1>11 DEF LastResort, Trying
  <2>2. ~FitsSomehow(Plans[plan])
    <3>1. \A c \in 1..Len(Candidates) : c < cand
      BY <1>3, <2>1
    <3>2. QED
      BY <1>3, <2>1, <3>1 DEF SearchInv, RuledOut, FitsSomehow
  <2>3. CASE /\ best' = Arranged(plan, Candidates[Len(Candidates)], 1, FALSE)
             /\ NextPlan /\ UNCHANGED status
    <3>1. best'.plan = plan /\ best'.ok = FALSE /\ best' # NoLayout
      <4>1. best'.plan = plan
        BY <2>3, <1>14 DEF Arranged, NoLayout
      <4>2. best'.ok = FALSE
        BY <2>3, <1>14 DEF Arranged, NoLayout
      <4>3. best' # NoLayout
        BY <2>3, <1>14 DEF Arranged, NoLayout
      <4>4. QED
        BY <4>1, <4>2, <4>3
    <3>2. QED
      BY <2>1, <2>2, <2>3, <3>1, <1>6
  <2>4. CASE status' = "error" /\ UNCHANGED <<plan, cand, parts, best>>
    <3>1. ~best.ok
      BY <2>1 DEF SearchInv, Kept, Drawn
    <3>2. TypeOK' /\ RuledOut' /\ Kept'
      BY <1>2, <2>4, <3>1 DEF SearchInv, TypeOK, RuledOut, Kept, Drawn
    <3>3. QED
      BY <3>2 DEF SearchInv
  <2>5. QED
    BY <1>11, <2>3, <2>4 DEF LastResort
<1>12. CASE DrawAnyway
  <2>1. /\ plan > Len(Plans) /\ status = "trying" /\ status' = "drawn"
        /\ UNCHANGED <<plan, cand, parts, best>>
    BY <1>12 DEF DrawAnyway
  <2>2. ~best.ok
    BY <2>1 DEF SearchInv, Kept, Drawn
  <2>3. TypeOK' /\ RuledOut' /\ Kept'
    BY <1>2, <2>1, <2>2 DEF SearchInv, TypeOK, RuledOut, Kept, Drawn
  <2>4. QED
    BY <2>3 DEF SearchInv
<1>13. QED
  BY <1>5, <1>7, <1>8, <1>9, <1>10, <1>11, <1>12 DEF Next

-----------------------------------------------------------------------------
\* Every variable has its type, and what is kept for drawing is a plan that was
\* tried (main.go:243-343).
THEOREM LayoutTypeCorrect == Spec => []TypeOK
<1>1. SearchInv => TypeOK
  BY DEF SearchInv
<1>2. QED
  BY SearchInit, SearchNext, <1>1, PTL DEF Spec

\* What is drawn is the best of what fits: no plan that is preferred to it
\* fits, in its plan no encoding that comes first does, nor fewer symbols, and
\* it overflows only if nothing fits at all (main.go:243-343).
THEOREM NothingBetterFits == Spec => []BestDrawn
<1>1. SearchInv => BestDrawn
  <2> SUFFICES ASSUME SearchInv, Drawn PROVE BestDrawn
    BY DEF BestDrawn
  <2>1. /\ DOMAIN Plans = 1..Len(Plans) /\ Len(Plans) \in Nat
        /\ \A q, k \in 1..Len(Plans) : Preferred(Plans[q], Plans[k]) => q < k
        /\ Len(Candidates) \in Nat
        /\ plan \in Nat /\ plan # 0 /\ cand \in Nat
    BY PlansFacts, CandidatesTyped DEF SearchInv, TypeOK
  <2>2. ASSUME best.ok
        PROVE  /\ best.plan = plan /\ best.parts = parts
               /\ plan \in 1..Len(Plans) /\ cand \in 1..Len(Candidates)
    BY <2>1, <2>2 DEF SearchInv, Kept, Arranged, TypeOK
  <2>3. ASSUME NEW q \in DOMAIN Plans, ~best.ok \/ Preferred(Plans[q], Plans[best.plan])
        PROVE  ~FitsSomehow(Plans[q])
    <3>1. q < plan
      <4>1. CASE best.ok
        BY <2>1, <2>2, <2>3, <4>1
      <4>2. CASE ~best.ok
        BY <2>1, <4>2 DEF SearchInv, Kept
      <4>3. QED
        BY <4>1, <4>2
    <3>2. QED
      BY <2>1, <3>1 DEF SearchInv, RuledOut
  <2>4. ASSUME best.ok, NEW c \in 1..cand, NEW p \in 1..cfg.parts, c < cand \/ p < best.parts
        PROVE  ~Holds(Plans[best.plan], Candidates[c], p)
    <3>1. c \in 1..Len(Candidates) /\ (c < cand \/ (c = cand /\ p < parts))
      BY <2>1, <2>2, <2>4
    <3>2. plan <= Len(Plans)
      BY <2>2, <2>4
    <3>3. QED
      BY <2>2, <2>4, <3>1, <3>2 DEF SearchInv, RuledOut
  <2>5. QED
    BY <2>3, <2>4 DEF BestDrawn
<1>2. QED
  BY SearchInit, SearchNext, <1>1, PTL DEF Spec

\* Whenever the drawing does not warn, it fits: rows of the report, separator,
\* captions, symbols and footer together (main.go:311-325).
THEOREM QuietDrawingFits == Spec => []FitsUnlessSaid
<1>1. SearchInv => FitsUnlessSaid
  <2> SUFFICES ASSUME SearchInv, best.ok
               PROVE  /\ DrawnRows <= console.rows
                      /\ (cfg.footer => Footer <= console.cols) => DrawnCols <= console.cols
    BY DEF FitsUnlessSaid
  <2> DEFINE name == Plans[plan].layout
             s == Symbols(Candidates[cand], Plans[plan].minimal, parts)
  <2>1. /\ plan \in 1..Len(Plans) /\ cand \in 1..Len(Candidates)
        /\ parts \in Nat \ {0}
    BY PlansFacts, CandidatesTyped, LayoutAssumption DEF SearchInv, Kept, TypeOK
  <2>2. /\ name \in {"full", "compact", "qr"} /\ Plans[plan].minimal \in BOOLEAN
        /\ Candidates[cand] \in Kinds
    BY <2>1, PlansFacts, CandidatesTyped DEF SearchInv, TypeOK, Plan
  <2>3. best.plan = plan /\ best.symbols = s
    BY DEF SearchInv, Kept, Arranged
  <2>4. /\ Budget(name) > 0
        /\ Cols(s.first) <= console.cols /\ Cols(s.last) <= console.cols
        /\ Budget(name) <= 0 \/ SymbolRows(s) + (IF parts > 1 THEN s.count ELSE 0) <= Budget(name)
    BY DEF SearchInv, Kept, Holds, AllFit
  <2>5. s.count \in Nat /\ s.first \in Nat /\ s.last \in Nat /\ (parts = 1 => s.count = 1)
    BY <2>1, <2>2, SymbolsTyped DEF SearchInv
  <2> HIDE DEF s, name
  <2>6. Cols(s.first) \in Nat /\ Cols(s.last) \in Nat /\ SymbolRows(s) \in Int
    BY <2>5, SizesTyped
  <2>7. /\ Lines(name) \in Nat /\ Separator(name) \in {0, 1} /\ FooterLine \in {0, 1}
        /\ console.rows \in Nat /\ console.cols \in Nat /\ Budget(name) \in Int
        /\ Budget(name) = console.rows - Lines(name) - FooterLine - Separator(name)
    BY <2>2, BudgetTyped DEF SearchInv, Budget
  <2>8. DrawnRows <= console.rows
    <3> DEFINE captions == IF s.count > 1 THEN s.count ELSE 0
               room == IF parts > 1 THEN s.count ELSE 0
               rows == SymbolRows(s)
    <3>1. captions <= room /\ captions \in Nat /\ room \in Nat
      BY <2>1, <2>5
    <3>2. DrawnRows = Lines(name) + Separator(name) + captions + rows + FooterLine + 0
      BY <2>3 DEF DrawnRows, name
    <3>3. rows + room <= Budget(name) /\ rows \in Int
      BY <2>4, <2>6, <2>7
    <3> HIDE DEF captions, room, rows
    <3>4. Lines(name) + Separator(name) + captions + rows + FooterLine <= console.rows
      BY <2>7, <3>1, <3>3
    <3>5. QED
      BY <2>7, <3>1, <3>2, <3>3, <3>4
  <2>9. ASSUME cfg.footer => Footer <= console.cols PROVE DrawnCols <= console.cols
    <3>1. Footer \in Nat
      BY LayoutAssumption
    <3>2. QED
      BY <2>3, <2>4, <2>6, <2>7, <2>9, <3>1 DEF DrawnCols, Larger
  <2>10. QED
    BY <2>8, <2>9
<1>2. QED
  BY SearchInit, SearchNext, <1>1, PTL DEF Spec

-----------------------------------------------------------------------------
(* The search is finite. *)

\* What is left to try: encodings, the attempts of each, and the last resort of
\* each plan.
PerEncoding == cfg.parts + 1
PerPlan == (Len(Candidates) + 1) * PerEncoding
ToTry ==
  IF status = "trying"
  THEN (Len(Plans) + 2 - plan) * PerPlan - (cand - 1) * PerEncoding - (parts - 1)
  ELSE 0

\* In the plan that is tried, less is behind the search than the plan has.
LEMMA WithinPlan ==
  ASSUME NEW c \in Nat, NEW encodings \in Nat, NEW most \in Nat, NEW p \in Nat,
         1 <= c, c <= encodings + 1, 1 <= p, p <= most + 1
  PROVE  /\ (c - 1) * (most + 1) + (p - 1) < (encodings + 1) * (most + 1)
         /\ (c - 1) * (most + 1) \in Nat /\ (encodings + 1) * (most + 1) \in Nat
<1>1. PICK d \in Nat : encodings + 1 = c + d
  <2>1. encodings + 1 - c \in Nat /\ encodings + 1 = c + (encodings + 1 - c)
    OBVIOUS
  <2>2. QED
    BY <2>1
<1>2. PICK w \in Nat, b \in Nat : w = most + 1 /\ b = c - 1 /\ c = b + 1
  OBVIOUS
<1>3. (encodings + 1) * w = b * w + w + d * w
  BY <1>1, <1>2
<1>4. d * w \in Nat /\ b * w \in Nat /\ p - 1 < w
  BY <1>1, <1>2
<1>5. QED
  BY <1>2, <1>3, <1>4

LEMMA OneLess ==
  ASSUME NEW left \in Nat, NEW w \in Nat
  PROVE  (left + 1) * w = left * w + w /\ left * w \in Nat
  OBVIOUS

LEMMA ToTryFacts ==
  ASSUME TypeOK
  PROVE  /\ ToTry \in Nat
         /\ status = "trying" => ToTry > 0
         /\ PerPlan \in Nat /\ PerEncoding \in Nat \ {0}
         /\ (cand - 1) * PerEncoding \in Nat
         /\ (cand - 1) * PerEncoding + (parts - 1) < PerPlan
<1>1. /\ Len(Plans) \in Nat \ {0} /\ Len(Candidates) \in {1, 2} /\ cfg.parts \in Nat
      /\ plan \in Nat /\ plan <= Len(Plans) + 1
      /\ cand \in Nat /\ 1 <= cand /\ cand <= Len(Candidates) + 1
      /\ parts \in Nat /\ 1 <= parts /\ parts <= cfg.parts + 1
  BY PlansFacts, CandidatesTyped, LayoutAssumption DEF TypeOK
<1>2. /\ (cand - 1) * PerEncoding + (parts - 1) < PerPlan
      /\ (cand - 1) * PerEncoding \in Nat /\ PerPlan \in Nat /\ PerEncoding \in Nat \ {0}
  <2>1. PICK encodings \in Nat, most \in Nat : encodings = Len(Candidates) /\ most = cfg.parts
    BY <1>1
  <2>2. /\ (cand - 1) * (most + 1) + (parts - 1) < (encodings + 1) * (most + 1)
        /\ (cand - 1) * (most + 1) \in Nat /\ (encodings + 1) * (most + 1) \in Nat
    BY <1>1, <2>1, WithinPlan
  <2>3. PerEncoding = most + 1 /\ PerPlan = (encodings + 1) * (most + 1)
    BY <2>1 DEF PerEncoding, PerPlan
  <2>4. QED
    BY <2>2, <2>3
<1>3. PICK left \in Nat : Len(Plans) + 2 - plan = left + 1
  <2>1. Len(Plans) + 1 - plan \in Nat /\ Len(Plans) + 2 - plan = (Len(Plans) + 1 - plan) + 1
    BY <1>1
  <2>2. QED
    BY <2>1
<1>4. (left + 1) * PerPlan = left * PerPlan + PerPlan /\ left * PerPlan \in Nat
  BY <1>2, OneLess
<1>5. CASE status = "trying"
  <2>1. PICK ahead \in Nat, whole \in Nat, behind \in Nat :
          ahead = left * PerPlan /\ whole = PerPlan /\ behind = (cand - 1) * PerEncoding
    BY <1>2, <1>4
  <2>2. ToTry = (ahead + whole) - behind - (parts - 1)
    BY <1>3, <1>4, <1>5, <2>1 DEF ToTry
  <2>3. behind + (parts - 1) < whole
    BY <1>2, <2>1
  <2>4. ToTry \in Nat /\ ToTry > 0
    BY <1>1, <2>2, <2>3
  <2>5. QED
    BY <1>2, <2>4
<1>6. CASE status # "trying"
  <2>1. ToTry = 0
    BY <1>6 DEF ToTry
  <2>2. QED
    BY <1>2, <1>6, <2>1
<1>7. QED
  BY <1>5, <1>6

LEMMA SearchStep ==
  ASSUME TypeOK, Next
  PROVE  ToTry' \in Nat /\ ToTry' < ToTry
<1>1. /\ ToTry \in Nat /\ (status = "trying" => ToTry > 0)
      /\ PerPlan \in Nat /\ PerEncoding \in Nat \ {0}
      /\ (cand - 1) * PerEncoding \in Nat
      /\ (cand - 1) * PerEncoding + (parts - 1) < PerPlan
  BY ToTryFacts
<1>2. UNCHANGED given /\ status = "trying"
  BY DEF Next, Draw, Overflowing, TooLarge, NextCandidate, LastResort, DrawAnyway, Trying
<1>3. Len(Plans)' = Len(Plans) /\ PerEncoding' = PerEncoding /\ PerPlan' = PerPlan
  BY <1>2, GivenStays DEF PerEncoding, PerPlan
<1>4. /\ Len(Plans) \in Nat /\ cfg.parts \in Nat
      /\ plan \in Nat /\ cand \in Nat /\ parts \in Nat /\ plan <= Len(Plans) + 1
  BY PlansFacts, LayoutAssumption DEF TypeOK
<1>5. CASE status' # "trying"
  BY <1>1, <1>2, <1>5 DEF ToTry
<1>6. CASE status' = "trying" /\ NextPlan
  <2>1. PICK left \in Nat : Len(Plans) + 2 - plan = left + 1
    <3>1. Len(Plans) + 1 - plan \in Nat /\ Len(Plans) + 2 - plan = (Len(Plans) + 1 - plan) + 1
      BY <1>4
    <3>2. QED
      BY <3>1
  <2>2. (left + 1) * PerPlan = left * PerPlan + PerPlan /\ left * PerPlan \in Nat
    BY <1>1, <2>1, OneLess
  <2>3. PICK ahead \in Nat, whole \in Nat, behind \in Nat :
          ahead = left * PerPlan /\ whole = PerPlan /\ behind = (cand - 1) * PerEncoding
    BY <1>1, <2>2
  <2>4. ToTry = (ahead + whole) - behind - (parts - 1)
    BY <1>2, <2>1, <2>2, <2>3 DEF ToTry
  <2>5. behind + (parts - 1) < whole
    BY <1>1, <2>3
  <2>6. ToTry' = left * PerPlan
    <3>1. Len(Plans)' + 2 - plan' = left
      BY <1>3, <1>4, <1>6, <2>1 DEF NextPlan
    <3>2. cand' - 1 = 0 /\ parts' - 1 = 0
      BY <1>6 DEF NextPlan
    <3>3. 0 * PerEncoding = 0
      BY <1>1
    <3>4. ToTry' = (Len(Plans)' + 2 - plan') * PerPlan - (cand' - 1) * PerEncoding - (parts' - 1)
      BY <1>3, <1>6 DEF ToTry
    <3>5. QED
      BY <2>2, <3>1, <3>2, <3>3, <3>4
  <2>7. ToTry' = ahead
    BY <2>3, <2>6
  <2>8. QED
    BY <1>4, <2>4, <2>5, <2>7
<1>7. CASE /\ status' = "trying" /\ plan' = plan
           /\ (cand' - 1) * PerEncoding + parts' = (cand - 1) * PerEncoding + parts + 1
           /\ cand' \in Nat /\ parts' \in Nat
  <2>1. PICK here \in Int : here = (Len(Plans) + 2 - plan) * PerPlan
    BY <1>1, <1>4
  <2>2. PICK was \in Nat : was = (cand - 1) * PerEncoding
    BY <1>1
  <2>3. PICK is \in Int : is = (cand' - 1) * PerEncoding
    <3>1. PerEncoding \in Int /\ cand' - 1 \in Int
      BY <1>1, <1>7
    <3>2. PICK x \in Int, y \in Int : x = PerEncoding /\ y = cand' - 1
      BY <3>1
    <3>3. y * x \in Int
      OBVIOUS
    <3>4. QED
      BY <3>2, <3>3
  <2>4. ToTry = here - was - (parts - 1)
    BY <1>2, <2>1, <2>2 DEF ToTry
  <2>5. ToTry' = here - is - (parts' - 1)
    BY <1>3, <1>7, <2>1, <2>3 DEF ToTry
  <2>6. is + parts' = was + parts + 1
    BY <1>7, <2>2, <2>3
  <2>7. PICK total \in Nat, late \in Nat : total = ToTry /\ late = parts'
    BY <1>1, <1>7
  <2>8. total > 0 /\ total = here - was - (parts - 1) /\ is + late = was + parts + 1
    BY <1>1, <1>2, <2>4, <2>6, <2>7
  <2>9. here - is - (late - 1) = total - 1
    BY <1>4, <2>8
  <2>10. ToTry' = total - 1
    BY <2>5, <2>7, <2>9
  <2>11. QED
    BY <2>7, <2>8, <2>10
<1>8. CASE Draw \/ DrawAnyway
  BY <1>5, <1>8 DEF Draw, DrawAnyway
<1>9. CASE Overflowing \/ LastResort
  <2>1. status' # "trying" \/ (status' = "trying" /\ NextPlan)
    BY <1>2, <1>9 DEF Overflowing, LastResort
  <2>2. QED
    BY <1>5, <1>6, <2>1
<1>10. CASE TooLarge
  BY <1>1, <1>2, <1>4, <1>7, <1>10 DEF TooLarge
<1>11. CASE NextCandidate
  <2>1. /\ status' = "trying" /\ plan' = plan /\ cand' = cand + 1 /\ parts' = 1
        /\ parts = PerEncoding
    BY <1>2, <1>4, <1>11 DEF NextCandidate, TypeOK, PerEncoding
  <2>2. PICK b \in Int, w \in Nat : b = cand - 1 /\ w = PerEncoding /\ cand' - 1 = b + 1
    BY <1>1, <1>4, <2>1
  <2>3. (b + 1) * w = b * w + w
    BY <2>2
  <2>4. (cand' - 1) * PerEncoding + parts' = (cand - 1) * PerEncoding + parts + 1
    <3>1. b * w \in Int
      BY <2>2
    <3>2. QED
      BY <2>1, <2>2, <2>3, <3>1
  <2>5. QED
    BY <1>4, <1>7, <2>1, <2>4
<1>12. QED
  BY <1>8, <1>9, <1>10, <1>11 DEF Next

\* Every attempt leaves less to try, and what there was to try at first is fixed
\* by the lists of plans and encodings and by --max-parts: the loops of
\* main.go:274-285 and 417-428 end, and none of them tries anything twice.
THEOREM SearchEnds == Spec => [][ToTry' \in Nat /\ ToTry' < ToTry]_vars
<1>1. SearchInv /\ [Next]_vars => [ToTry' \in Nat /\ ToTry' < ToTry]_vars
  BY SearchStep DEF SearchInv
<1>2. QED
  BY SearchInit, SearchNext, <1>1, PTL DEF Spec

\* An error says that the last encoding of some plan has no symbol for its
\* payload (main.go:429-433); SearchEnds and this are what EventuallyDrawn says
\* beyond that the loops go on.
RefusedIfTooLarge ==
  status = "error" =>
    \E k \in DOMAIN Plans : ~Encodes(Candidates[Len(Candidates)], Plans[k].minimal, 1)

\* A payload that can be encoded is never answered with an error, whatever the
\* console and the flags (main.go:429-434).
THEOREM ErrorsAreTooLarge == Spec => []RefusedIfTooLarge
<1>1. Init => RefusedIfTooLarge
  BY DEF Init, RefusedIfTooLarge
<1>2. SearchInv /\ RefusedIfTooLarge /\ [Next]_vars => RefusedIfTooLarge'
  <2> SUFFICES ASSUME SearchInv, RefusedIfTooLarge, [Next]_vars, status' = "error"
               PROVE  \E k \in DOMAIN Plans' : ~Encodes(Candidates[Len(Candidates)], Plans[k].minimal, 1)'
    BY DEF RefusedIfTooLarge
  <2>1. UNCHANGED given
    BY DEF Next, vars, Draw, Overflowing, TooLarge, NextCandidate, LastResort, DrawAnyway
  <2>2. PICK k \in DOMAIN Plans : ~Encodes(Candidates[Len(Candidates)], Plans[k].minimal, 1)
    <3>1. CASE status = "error"
      BY <3>1 DEF RefusedIfTooLarge
    <3>2. CASE status # "error"
      <4>1. LastResort
        BY <3>2 DEF Next, vars, Draw, Overflowing, TooLarge, NextCandidate, DrawAnyway
      <4>2. plan <= Len(Plans) /\ ~Encodes(Candidates[Len(Candidates)], Plans[plan].minimal, 1)
        BY <3>2, <4>1 DEF LastResort, Trying
      <4>3. plan \in DOMAIN Plans
        BY <4>2, PlansFacts DEF SearchInv, TypeOK
      <4>4. QED
        BY <4>2, <4>3
    <3>3. QED
      BY <3>1, <3>2
  <2>3. Plans' = Plans /\ Candidates' = Candidates
    BY <2>1, GivenStays
  <2>4. Encodes(Candidates[Len(Candidates)], Plans[k].minimal, 1)' =
          Encodes(Candidates[Len(Candidates)], Plans[k].minimal, 1)
    BY <2>1, <2>3 DEF given, Encodes, PartSize, Bytes
  <2>5. QED
    BY <2>2, <2>3, <2>4
<1>3. QED
  BY SearchInit, SearchNext, <1>1, <1>2, PTL DEF Spec
=============================================================================
