------------------------------ MODULE MCLayout ------------------------------
EXTENDS Layout

\* What the forty versions hold at level L, as bytes and in the alphabet of the
\* packed form.
MCCapacity ==
  [plain  |-> <<17, 32, 53, 78, 106, 134, 154, 192, 230, 271,
                321, 367, 425, 458, 520, 586, 644, 718, 792, 858,
                929, 1003, 1091, 1171, 1273, 1367, 1465, 1528, 1628, 1732,
                1840, 1952, 2068, 2188, 2303, 2431, 2563, 2699, 2809, 2953>>,
   packed |-> <<25, 47, 77, 114, 154, 195, 224, 279, 335, 395,
                468, 535, 619, 667, 758, 854, 938, 1046, 1153, 1249,
                1352, 1460, 1588, 1704, 1853, 1990, 2132, 2223, 2369, 2520,
                2677, 2840, 3009, 3183, 3351, 3537, 3729, 3927, 4087, 4296>>]

Of(full, less) == [minimal \in BOOLEAN |-> IF minimal THEN less ELSE full]

Shape(fields, wide, sys, nics, disks, plain, packed) ==
  [fields |-> fields, wide |-> wide, sys |-> sys, nics |-> nics, disks |-> disks,
   bytes |-> [plain |-> plain, packed |-> packed]]

\* From a machine that says nothing of itself to one with more devices than any
\* symbol holds; one whose processor has a long name.
MCMachines ==
  { Shape(3, 30, FALSE, 0, 0, Of(90, 60), Of(150, 130)),
    Shape(8, 70, TRUE, 1, 1, Of(420, 260), Of(440, 330)),
    Shape(8, 95, TRUE, 2, 2, Of(600, 380), Of(560, 430)),
    Shape(8, 70, TRUE, 8, 24, Of(2900, 1700), Of(1500, 1100)),
    Shape(8, 70, TRUE, 40, 190, Of(17000, 11800), Of(7600, 4200)) }

\* Text consoles, frame buffers, a wide terminal, and two that are too small.
MCConsoles ==
  { [cols |-> c[1], rows |-> c[2]] :
      c \in {<<80, 25>>, <<80, 60>>, <<100, 37>>, <<128, 48>>, <<400, 220>>,
             <<20, 10>>, <<34, 37>>} }

Flags(formats, layouts, minimal, prefer, most, footer) ==
  [format : formats, layout : layouts, minimal : minimal, prefer : prefer,
   parts : most, footer : footer]

MCConfigs ==
  Flags({"auto", "plain", "packed"}, {"auto"}, {FALSE}, {"payload", "table"}, {1, 4}, BOOLEAN)
    \cup Flags({"auto"}, {"full", "qr"}, BOOLEAN, {"table"}, {3}, {TRUE})
=============================================================================
