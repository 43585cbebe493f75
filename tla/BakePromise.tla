---------------------------- MODULE BakePromise -----------------------------
(***************************************************************************)
(* What a caller may rely on when it runs `baretag bake-into`, without     *)
(* copies, regions or inodes: what happens to the artefact at the output   *)
(* path while the command goes through its phases.                         *)
(***************************************************************************)
CONSTANT Bakers

VARIABLES phase,    \* how far the command of each process has got
          artefact  \* what its output path names

vars == <<phase, artefact>>

Artefacts == {"absent", "previous", "debris", "baked"}

Init ==
  /\ phase = [p \in Bakers |-> "checking"]
  /\ artefact \in [Bakers -> {"absent", "previous"}]

Becomes(p, ph, art) ==
  /\ phase' = [phase EXCEPT ![p] = ph]
  /\ artefact' = [artefact EXCEPT ![p] = art]

\* Refused: nothing has been touched.
Refuse(p) == phase[p] = "checking" /\ Becomes(p, "failed", artefact[p])

\* Whatever was there goes away before the copy starts.
Clear(p) == phase[p] = "checking" /\ Becomes(p, "copying", "absent")

\* The copy appears, and may disappear again (clone, then plain copy).
Copy(p) ==
  /\ phase[p] = "copying"
  /\ \E art \in {"absent", "debris"} : Becomes(p, "copying", art)

\* A failed copy leaves what it has written.
FailCopy(p) == phase[p] = "copying" /\ Becomes(p, "failed", artefact[p])

Patch(p) ==
  /\ phase[p] \in {"copying", "patching"} /\ artefact[p] # "absent"
  /\ \E art \in {"debris", "baked"} : Becomes(p, "patching", art)

\* A failed patch takes the artefact away.
FailPatch(p) == phase[p] = "patching" /\ Becomes(p, "failed", "absent")

\* Only a baked artefact is published, and nothing later takes it back.
Publish(p) ==
  phase[p] = "patching" /\ artefact[p] = "baked" /\ Becomes(p, "published", "baked")

\* A kill may interrupt a write.
Kill(p) ==
  /\ phase[p] \in {"checking", "copying", "patching", "published"}
  /\ \E art \in {artefact[p]} \cup (IF phase[p] = "patching" THEN {"debris", "baked"} ELSE {}) :
       Becomes(p, "killed", art)

Next ==
  \E p \in Bakers :
    Refuse(p) \/ Clear(p) \/ Copy(p) \/ FailCopy(p) \/ Patch(p)
    \/ FailPatch(p) \/ Publish(p) \/ Kill(p)

Spec == Init /\ [][Next]_vars

=============================================================================
