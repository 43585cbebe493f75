---------------------------- MODULE ScanSession -----------------------------
(***************************************************************************)
(* The scan workflow: machines show their payload as one or several QR     *)
(* symbols, a technician scans symbols in any order, misses some, scans    *)
(* some twice or walks on to the next machine, and hands everything to     *)
(* `baretag decode` (src/cmd/baretag/decode.go), perhaps repeatedly.       *)
(***************************************************************************)
EXTENDS PayloadChunks

CONSTANTS
  Machines,   \* the machines in the rack
  Payloads,   \* what they may have to say: a set of assignments to Machines
  MaxParts,   \* --max-parts, bounds how many symbols a payload is split into
  MaxScans    \* how many scans are handed to one decode

ASSUME ScanAssumption ==
  /\ MaxParts \in Nat \ {0} /\ MaxScans \in Nat
  /\ \A f \in Payloads :
       /\ DOMAIN f = Machines
       \* an inventory is packed or it is a JSON object
       /\ \A m \in Machines : /\ f[m] \in Seq(STRING) /\ f[m] # <<>>
                              /\ f[m][1] = "Q" \/ WellFormed(f[m])

VARIABLES
  payload,  \* what each machine encodes
  split,    \* into how many parts
  scans,    \* what was scanned so far: <<machine, position on its screen>>
  result    \* what the last decode printed, or that there was none

vars == <<payload, split, scans, result>>

NoResult == [ok |-> FALSE, text |-> <<"none">>]

Shown(m) == Split(payload[m], split[m])
Scanned == [k \in 1..Len(scans) |-> Shown(scans[k][1])[scans[k][2]]]
Genuine == {payload[m] : m \in Machines}

Init ==
  /\ payload \in Payloads
  /\ split \in [Machines -> 1..MaxParts]
  /\ scans = <<>>
  /\ result = NoResult

\* One more symbol, any symbol on any screen, also one that was scanned before.
Scan(m, i) ==
  /\ Len(scans) < MaxScans
  /\ i \in 1..Len(Shown(m))
  /\ scans' = Append(scans, <<m, i>>)
  /\ result' = NoResult
  /\ UNCHANGED <<payload, split>>

RunDecode ==
  /\ scans # <<>> /\ result = NoResult
  /\ result' \in Decode(Scanned, Genuine)
  /\ UNCHANGED <<payload, split, scans>>

\* A new session on the same machines.
StartOver ==
  /\ result # NoResult
  /\ scans' = <<>> /\ result' = NoResult
  /\ UNCHANGED <<payload, split>>

Next ==
  \/ \E m \in Machines : \E i \in 1..MaxParts : Scan(m, i)
  \/ RunDecode
  \/ StartOver

Spec == Init /\ [][Next]_vars

-----------------------------------------------------------------------------
(* Properties. *)

\* Every part of every screen carries something, and a result is a text or a
\* plain error.
TypeOK ==
  /\ payload \in Payloads
  /\ split \in [Machines -> 1..MaxParts]
  /\ \A k \in 1..Len(scans) :
       scans[k][1] \in Machines /\ scans[k][2] \in 1..Len(Shown(scans[k][1]))
  /\ \A m \in Machines : \A i \in 1..Len(Shown(m)) : Shown(m)[i].body # <<>>
  /\ result \in {NoResult, Failed} \/ (result.ok /\ result.text # <<>>)

Only(m) == \A k \in 1..Len(scans) : scans[k][1] = m
Seen(m) == {scans[k][2] : k \in {j \in 1..Len(scans) : scans[j][1] = m}}
Decoded == result # NoResult

\* No chunk of the payload ends in a blank.
NoBlankEnds(m) ==
  \A i \in 1..Len(Shown(m)) : TrimSpace(Shown(m)[i]) = Shown(m)[i]

\* There are as many chunks as their headers say.
FullSplit(m) == Len(Shown(m)) = split[m]

EachOnce(m) ==
  Only(m) /\ Len(scans) = Len(Shown(m)) /\ Seen(m) = 1..Len(Shown(m))

\* Scans of one split screen, in any order, with gaps and repetitions, give the
\* payload of that machine or an error, never a text that is neither.
OwnPayloadOrError ==
  \A m \in Machines :
    result.ok /\ Only(m) /\ NoBlankEnds(m) /\ split[m] > 1 => result.text = payload[m]

\* A text came out only if every position was scanned on some screen that was
\* split: with one part missing everywhere decoding fails, whatever was scanned
\* twice or on another machine.
IncompleteRefused ==
  result.ok /\ (\A m \in Machines : split[m] > 1) =>
    \E n \in 2..MaxParts : UNION {Seen(m) : m \in Machines} = 1..n

\* Parts of machines that were split differently are never joined.
UnevenNeverMixed ==
  result.ok => \A m1, m2 \in Machines :
    Seen(m1) # {} /\ Seen(m2) # {} /\ (split[m1] > 1 \/ split[m2] > 1) => split[m1] = split[m2]

\* Every part of one screen scanned once, in whatever order, decodes to what
\* the machine encoded.
CompleteDecodes ==
  \A m \in Machines :
    Decoded /\ EachOnce(m) /\ FullSplit(m) /\ NoBlankEnds(m) => result = Got(payload[m])

(* Claims of the documentation that hold only in part.                      *)

\* payload.go:70: the parts can be scanned in any order and reassembled, also
\* when a part ends in a blank.
BlanksSurvive ==
  \A m \in Machines : Decoded /\ EachOnce(m) /\ FullSplit(m) => result = Got(payload[m])

=============================================================================
