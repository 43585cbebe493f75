------------------------------- MODULE MCScan --------------------------------
(***************************************************************************)
(* Instances of ScanSession for TLC: two machines, payloads of four or     *)
(* five symbols, at most four parts and four scans.                        *)
(***************************************************************************)
EXTENDS ScanSession, TLC

CONSTANTS m1, m2

MCMachines == {m1, m2}

Plain == {<<"{", "x", "y", "}">>, <<"{", "x", "_", "y", "}">>}
Packed == {<<"Q", "u", "v", "w">>}

\* A second machine that says the same kind of thing, or is packed.
MCPayloads ==
  {(m1 :> s) @@ (m2 :> t) : s \in Plain \cup Packed, t \in {<<"{", "z", "y", "}">>, <<"Q", "u", "s", "t">>}}

Twin(S) == {(m1 :> s) @@ (m2 :> s) : s \in S}
PlainOnly == Twin(Plain)
=============================================================================
