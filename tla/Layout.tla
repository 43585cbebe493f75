------------------------------- MODULE Layout -------------------------------
(***************************************************************************)
(* What is drawn on the console (cmd/baretag/main.go: compose, tryLayout,  *)
(* fitPayload).  A plan is a report and a payload; for every plan the      *)
(* payload is tried in each encoding and in a growing number of symbols    *)
(* until what is drawn fits.  One step is one attempt to encode.           *)
(*                                                                         *)
(* A report is how many lines it has and how wide the widest one is, a     *)
(* payload how many bytes it has, a symbol its version.                    *)
(***************************************************************************)
EXTENDS Integers, Sequences, FiniteSets

CONSTANTS
  Machines,  \* [fields, wide, sys, nics, disks, bytes]: see Lines, Width, Bytes
  Consoles,  \* [cols, rows] after geometry took the reserve off
  Configs,   \* the flags: [format, layout, minimal, prefer, parts, footer]
  Capacity,  \* bytes that a version of a symbol holds, for each encoding
  Tag,       \* length of the header of a part
  Quiet,     \* --quiet-zone
  Footer     \* width of the line below the symbols

Kinds == {"plain", "packed"}
LayoutNames == <<"full", "compact", "qr">>

ASSUME LayoutAssumption ==
  /\ Tag \in Nat /\ Quiet \in Nat /\ Footer \in Nat
  /\ \A kind \in Kinds :
       /\ Len(Capacity[kind]) \in Nat \ {0}
       /\ \A v \in 1..Len(Capacity[kind]) : Capacity[kind][v] \in Nat
       /\ \A v \in 2..Len(Capacity[kind]) : Capacity[kind][v - 1] < Capacity[kind][v]
  /\ \A c \in Consoles : c.cols \in Nat \ {0} /\ c.rows \in Nat \ {0}
  /\ \A m \in Machines :
       /\ {m.fields, m.wide, m.nics, m.disks} \subseteq Nat /\ m.sys \in BOOLEAN
       /\ \A kind \in Kinds, minimal \in BOOLEAN : m.bytes[kind][minimal] \in Nat \ {0}
  /\ \A f \in Configs :
       /\ f.format \in {"auto"} \cup Kinds
       /\ f.layout \in {"auto", "full", "compact", "qr"}
       /\ f.prefer \in {"payload", "table"}
       /\ f.minimal \in BOOLEAN /\ f.footer \in BOOLEAN /\ f.parts \in Nat

VARIABLES
  machine, console, cfg,
  plan,     \* the plan that is tried
  cand,     \* the encoding of it that is tried
  parts,    \* in how many symbols
  best,     \* the layout that is drawn if nothing fits
  status    \* "trying", "drawn" or "error"

given == <<machine, console, cfg>>
vars == <<given, plan, cand, parts, best, status>>

-----------------------------------------------------------------------------
(* Reports (internal/render/table.go).                                     *)

TableLines(n) == IF n = 0 THEN 1 ELSE n + 1

Lines(name) ==
  CASE name = "full"    -> 3 + machine.fields + 2 + TableLines(machine.nics)
                             + 2 + TableLines(machine.disks)
    [] name = "compact" -> 1 + (IF machine.sys THEN 1 ELSE 0) + machine.nics + machine.disks
    [] name = "qr"      -> 1

\* Tables, and everything in the smaller reports, are cut to the width of the
\* console; the head of the full report is not, and is 40 wide at least.
Width(name) ==
  IF name # "full" THEN console.cols
  ELSE CHOOSE w \in {40, machine.wide, console.cols} : \A x \in {40, machine.wide, console.cols} : x <= w

Separator(name) == IF Lines(name) > 1 THEN 1 ELSE 0
FooterLine == IF cfg.footer THEN 1 ELSE 0

\* The rows that are left for symbols.
Budget(name) == console.rows - Lines(name) - FooterLine - Separator(name)

-----------------------------------------------------------------------------
(* Symbols (internal/render/qr.go, encodeParts).                           *)

Cols(v) == 17 + 4 * v + 2 * Quiet
Rows(v) == (Cols(v) + 1) \div 2

\* A version holds more than the one before it; the first that is enough is taken.
Largest(kind) == Capacity[kind][Len(Capacity[kind])]
Version(kind, n) ==
  1 + Cardinality({v \in 1..Len(Capacity[kind]) : Capacity[kind][v] < n})

Bytes(kind, minimal) == machine.bytes[kind][minimal]

\* Split makes parts of one size, of which the last may be shorter, and may
\* make fewer than it was asked for.
PartSize(kind, minimal, p) == (Bytes(kind, minimal) + p - 1) \div p
Count(kind, minimal, p) ==
  IF p = 1 THEN 1
  ELSE (Bytes(kind, minimal) + PartSize(kind, minimal, p) - 1) \div PartSize(kind, minimal, p)
LastSize(kind, minimal, p) ==
  Bytes(kind, minimal) - (Count(kind, minimal, p) - 1) * PartSize(kind, minimal, p)
Header(p) == IF p > 1 THEN Tag ELSE 0

Encodes(kind, minimal, p) ==
  PartSize(kind, minimal, p) + Header(p) <= Largest(kind)

Symbols(kind, minimal, p) ==
  [count |-> Count(kind, minimal, p),
   first |-> Version(kind, PartSize(kind, minimal, p) + Header(p)),
   last  |-> Version(kind, LastSize(kind, minimal, p) + Header(p))]

SymbolRows(s) == (s.count - 1) * Rows(s.first) + Rows(s.last)

\* Mutant: the captions of the parts are not counted.
AllFitUncaptioned(s, p, budget) ==
  /\ Cols(s.first) <= console.cols /\ Cols(s.last) <= console.cols
  /\ budget <= 0 \/ SymbolRows(s) <= budget

\* Without a budget any number of rows fits, a convention of allFit.
AllFit(s, p, budget) ==
  /\ Cols(s.first) <= console.cols /\ Cols(s.last) <= console.cols
  /\ budget <= 0 \/ SymbolRows(s) + (IF p > 1 THEN s.count ELSE 0) <= budget

-----------------------------------------------------------------------------
(* Plans.                                                                  *)

Layouts == IF cfg.layout = "auto" THEN LayoutNames ELSE <<cfg.layout>>
Payloads == IF cfg.minimal THEN <<TRUE>> ELSE <<FALSE, TRUE>>

\* Mutant: the report gives way before the payload does, whatever was asked.
PlansTableFirst ==
  [k \in 1..(Len(Layouts) * Len(Payloads)) |->
     [minimal |-> Payloads[((k - 1) % Len(Payloads)) + 1],
      layout  |-> Layouts[((k - 1) \div Len(Payloads)) + 1]]]

\* Two nested loops, the outer one over what is to be kept.
Plans ==
  [k \in 1..(Len(Layouts) * Len(Payloads)) |->
     IF cfg.prefer = "payload"
     THEN [minimal |-> Payloads[((k - 1) \div Len(Layouts)) + 1],
           layout  |-> Layouts[((k - 1) % Len(Layouts)) + 1]]
     ELSE [minimal |-> Payloads[((k - 1) % Len(Payloads)) + 1],
           layout  |-> Layouts[((k - 1) \div Len(Payloads)) + 1]]]

Candidates == IF cfg.format = "auto" THEN <<"plain", "packed">> ELSE <<cfg.format>>

NoLayout == [plan |-> 0, kind |-> "none", parts |-> 0,
             symbols |-> [count |-> 0, first |-> 0, last |-> 0], ok |-> FALSE]

\* Mutant: the plan after the one that was tried is noted.
ArrangedLater(k, kind, p, ok) ==
  [plan |-> k + 1, kind |-> kind, parts |-> p,
   symbols |-> Symbols(kind, Plans[k].minimal, p), ok |-> ok]

Arranged(k, kind, p, ok) ==
  [plan |-> k, kind |-> kind, parts |-> p,
   symbols |-> Symbols(kind, Plans[k].minimal, p), ok |-> ok]

Init ==
  /\ machine \in Machines /\ console \in Consoles /\ cfg \in Configs
  /\ plan = 1 /\ cand = 1 /\ parts = 1
  /\ best = NoLayout /\ status = "trying"

Trying == status = "trying" /\ plan <= Len(Plans)

Fitting ==
  LET kind == Candidates[cand]
  IN  /\ Encodes(kind, Plans[plan].minimal, parts)
      /\ AllFit(Symbols(kind, Plans[plan].minimal, parts), parts, Budget(Plans[plan].layout))

NextPlan ==
  plan' = plan + 1 /\ cand' = 1 /\ parts' = 1

\* It fits, and there is room: this is what is drawn.
Draw ==
  /\ Trying /\ cand <= Len(Candidates) /\ parts <= cfg.parts
  /\ Fitting /\ Budget(Plans[plan].layout) > 0
  /\ best' = Arranged(plan, Candidates[cand], parts, TRUE)
  /\ status' = "drawn"
  /\ UNCHANGED <<given, plan, cand, parts>>

\* It fits only because the report left nothing to fit into.
Overflowing ==
  /\ Trying /\ cand <= Len(Candidates) /\ parts <= cfg.parts
  /\ Fitting /\ Budget(Plans[plan].layout) <= 0
  /\ best' = Arranged(plan, Candidates[cand], parts, FALSE)
  /\ NextPlan
  /\ UNCHANGED <<given, status>>

TooLarge ==
  /\ Trying /\ cand <= Len(Candidates) /\ parts <= cfg.parts
  /\ ~Fitting
  /\ parts' = parts + 1
  /\ UNCHANGED <<given, plan, cand, best, status>>

NextCandidate ==
  /\ Trying /\ cand <= Len(Candidates) /\ parts > cfg.parts
  /\ cand' = cand + 1 /\ parts' = 1
  /\ UNCHANGED <<given, plan, best, status>>

\* Mutant: the first encoding instead of the last.
LastResortPlain ==
  /\ Trying /\ cand > Len(Candidates)
  /\ LET kind == Candidates[1]
     IN  IF Encodes(kind, Plans[plan].minimal, 1)
         THEN /\ best' = Arranged(plan, kind, 1, FALSE)
              /\ NextPlan
              /\ UNCHANGED status
         ELSE /\ status' = "error"
              /\ UNCHANGED <<plan, cand, parts, best>>
  /\ UNCHANGED given

\* Nothing fits this plan: one symbol of the last encoding, if there is one.
LastResort ==
  /\ Trying /\ cand > Len(Candidates)
  /\ LET kind == Candidates[Len(Candidates)]
     IN  IF Encodes(kind, Plans[plan].minimal, 1)
         THEN /\ best' = Arranged(plan, kind, 1, FALSE)
              /\ NextPlan
              /\ UNCHANGED status
         ELSE /\ status' = "error"
              /\ UNCHANGED <<plan, cand, parts, best>>
  /\ UNCHANGED given

DrawAnyway ==
  /\ status = "trying" /\ plan > Len(Plans)
  /\ status' = "drawn"
  /\ UNCHANGED <<given, plan, cand, parts, best>>

Next ==
  Draw \/ Overflowing \/ TooLarge \/ NextCandidate \/ LastResort \/ DrawAnyway

\* compose is one loop in one goroutine.
Spec == Init /\ [][Next]_vars /\ WF_vars(Next)

-----------------------------------------------------------------------------
(* Properties. *)

\* Every variable has its type, and what is kept for drawing is a plan that was
\* tried.
TypeOK ==
  /\ machine \in Machines /\ console \in Consoles /\ cfg \in Configs
  /\ plan \in 1..(Len(Plans) + 1)
  /\ cand \in 1..(Len(Candidates) + 1) /\ parts \in 1..(cfg.parts + 1)
  /\ status \in {"trying", "drawn", "error"}
  /\ best.plan \in 0..plan /\ best.ok \in BOOLEAN
  /\ (best.plan = 0) <=> (best = NoLayout)

Drawn == status = "drawn"

\* What layout.render writes, in rows: report, separator, captions, symbols,
\* footer, warning.
DrawnRows ==
  LET name == Plans[best.plan].layout
      captions == IF best.symbols.count > 1 THEN best.symbols.count ELSE 0
  IN  Lines(name) + Separator(name) + captions + SymbolRows(best.symbols) + FooterLine
        + (IF best.ok THEN 0 ELSE 1)

Larger(a, b) == IF a < b THEN b ELSE a

DrawnCols ==
  Larger(Larger(Cols(best.symbols.first), Cols(best.symbols.last)),
         IF cfg.footer THEN Footer ELSE 0)

\* Whenever the drawing does not warn, it fits (main.go:311-325): rows of the
\* report, separator, captions, symbols and footer together.  A head of the
\* full report or a footer wider than the console wraps and is not counted.
FitsUnlessSaid ==
  Drawn /\ best.ok /\ Width(Plans[best.plan].layout) <= console.cols =>
    /\ DrawnRows <= console.rows
    /\ (cfg.footer => Footer <= console.cols) => DrawnCols <= console.cols

\* A payload in p symbols of a kind under a report: what the console holds.
Holds(pl, kind, p) ==
  /\ Budget(pl.layout) > 0
  /\ Encodes(kind, pl.minimal, p)
  /\ AllFit(Symbols(kind, pl.minimal, p), p, Budget(pl.layout))

FitsSomehow(pl) ==
  \E c \in DOMAIN Candidates, p \in 1..cfg.parts : Holds(pl, Candidates[c], p)

Detail == [full |-> 3, compact |-> 2, qr |-> 1]

\* The policy of main.go:243-248 as an order.
Preferred(a, b) ==
  LET fuller   == ~a.minimal /\ b.minimal
      detailed == Detail[a.layout] > Detail[b.layout]
  IN  IF cfg.prefer = "payload"
      THEN fuller \/ (a.minimal = b.minimal /\ detailed)
      ELSE detailed \/ (a.layout = b.layout /\ fuller)

\* What is drawn is the best of what fits: no plan that is preferred to it
\* fits, in its plan no encoding that comes first does, nor fewer symbols, and
\* it overflows only if nothing fits at all.
BestDrawn ==
  Drawn =>
    /\ \A q \in DOMAIN Plans :
         ~best.ok \/ Preferred(Plans[q], Plans[best.plan]) => ~FitsSomehow(Plans[q])
    /\ best.ok =>
         \A c \in 1..cand, p \in 1..cfg.parts :
           c < cand \/ p < best.parts => ~Holds(Plans[best.plan], Candidates[c], p)

\* The search ends, and with a drawing whenever every payload can be encoded.
EventuallyDrawn ==
  <>(\/ Drawn
     \/ /\ status = "error"
        /\ \E k \in DOMAIN Plans :
             ~Encodes(Candidates[Len(Candidates)], Plans[k].minimal, 1))

=============================================================================
