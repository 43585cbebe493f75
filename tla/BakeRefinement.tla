--------------------------- MODULE BakeRefinement ---------------------------
(***************************************************************************)
(* BakeRun implements BakePromise when the processes are apart: the phase  *)
(* is read off the program counter, the artefact off the output path.      *)
(***************************************************************************)
EXTENDS BakeRun

phaseOf(label) ==
  CASE label \in {"resolve", "checkInput", "checkOutput", "remove"} -> "checking"
    [] label \in Copying \ {"remove"} -> "copying"
    [] label \in Patching -> "patching"
    [] label \in Verifying \cup {"ok", "rejected", "unverified"} -> "published"
    [] OTHER -> label

artefactOf(p) ==
  LET i == dir[output(p)]
  IN  CASE i = NoInode -> "absent"
        [] i \in OldInodes -> "previous"
        [] i \notin OldInodes \cup {NoInode} /\ dir[input(p)] # NoInode
             /\ Baked(p, data[i], data[dir[input(p)]]) -> "baked"
        [] OTHER -> "debris"

Promise == INSTANCE BakePromise
  WITH phase <- [p \in Bakers |-> phaseOf(pc[p])],
       artefact <- [p \in Bakers |-> artefactOf(p)]

\* Run as its callers see it: a refused bake changes nothing, a failed patch
\* leaves nothing, and success is reported only of a baked artefact that stays.
ImplementsPromise == Promise!Spec

=============================================================================
