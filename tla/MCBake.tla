------------------------------- MODULE MCBake --------------------------------
(***************************************************************************)
(* Instances of BakeRun for TLC: three paths, two files there beforehand,  *)
(* one or two processes.                                                   *)
(***************************************************************************)
EXTENDS BakeRefinement, TLC

CONSTANTS p1, p2, a, b, c, f, g,   \* processes, paths, inodes
          coreos, near, bare, plain, junk \* original images

MCIsos == {coreos, near, bare, plain, junk}
MCParseable == {coreos, near, bare, plain}
MCCoreOS == {coreos, near, bare}
MCWithKargs == {coreos, near}
MCIntact == {coreos, near}
MCClose == {near}

Contents == {Pristine(i) : i \in MCIsos \ {near}} \cup {Rebaked(near)}

\* The input at a; at b nothing or another file, at c nothing or a hard link to
\* the input; b may be a new name in a directory that cannot be written.
MCDisks ==
  LET Laid(old, older, img, w) ==
        [entry    |-> (a :> f) @@ (b :> old) @@ (c :> older),
         content  |-> (f :> img) @@ (g :> Pristine(coreos)),
         writable |-> (a :> TRUE) @@ (b :> w) @@ (c :> TRUE)]
  IN  {Laid(d[1], older, img, d[2]) :
         d \in {<<NoInode, TRUE>>, <<NoInode, FALSE>>, <<g, TRUE>>},
         older \in {NoInode, f}, img \in Contents}

CommandLine(in, outs) ==
  {[input |-> in, output |-> o, force |-> fo, kargs |-> k] :
     o \in outs, fo \in BOOLEAN, k \in BOOLEAN}

\* Two processes, the same input: p1 writes b and never forces, p2 writes c
\* and always does.
JobsOfTwo ==
  {j \in [{p1, p2} -> CommandLine(a, {b, c})] :
     j[p1].output = b /\ ~j[p1].force /\ j[p2].output = c /\ j[p2].force /\ ~j[p2].kargs}
\* One process, onto another path.
JobsApart == [{p1} -> CommandLine(a, {b})]
\* Two processes, the same input and the same output, neither forced.
JobsShared ==
  {j \in [{p1, p2} -> CommandLine(a, {b})] :
     \A p \in {p1, p2} : ~j[p].force /\ ~j[p].kargs}
=============================================================================
