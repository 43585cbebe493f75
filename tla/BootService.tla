---------------------------- MODULE BootService ----------------------------
(***************************************************************************)
(* A boot of the baked medium: systemd starts baretag.service before any   *)
(* login, its launcher baretag-boot takes the binary off the medium and    *)
(* runs it, and agetty prints the banner that it wrote.                    *)
(*                                                                         *)
(* A file is "none", "own" (what was baked), "other" or "torn" (half of    *)
(* something).  Time is left out: a start may be cut off wherever it is.   *)
(***************************************************************************)
EXTENDS Naturals, FiniteSets

CONSTANTS
  Media,    \* block devices
  Labels,   \* labels of volumes
  Content,  \* what the sectors of the payload hold, on each medium
  MaxStarts \* how often the unit is started

Files == {"none", "own", "other", "torn"}

ASSUME BootAssumption ==
  Content \in [Media -> Files] /\ MaxStarts \in Nat \ {0}

VARIABLES
  live,      \* whether /run/ostree-live exists
  cmdline,   \* the label that the command line names, or "none"
  label,     \* the label of each medium
  unit,      \* "waiting", "skipped", "pre", "start", "active" or "failed"
  starts,
  pc,        \* what the launcher does next
  dev, raw, gz, installed, executable,
  issue,     \* the banner
  cut,       \* whether writing it was ever cut short (history)
  login,     \* whether agetty has started
  first, shown \* the banner at the first and at the last login prompt

medium == <<live, cmdline, label>>
files == <<dev, raw, gz, installed, executable>>
banner == <<issue, cut>>
console == <<login, first, shown>>
vars == <<medium, unit, starts, pc, files, banner, console>>

Init ==
  /\ live \in BOOLEAN
  /\ cmdline \in Labels \cup {"none"} /\ label \in [Media -> Labels]
  /\ unit = "waiting" /\ starts = 0 /\ pc = "idle"
  /\ dev = "none" /\ raw = "none" /\ gz = "none" /\ installed = "none"
  /\ executable = FALSE
  /\ issue = "none" /\ cut = FALSE
  /\ login = FALSE /\ first = "none" /\ shown = "none"

-----------------------------------------------------------------------------
(* systemd. *)

Condition ==
  /\ unit = "waiting" /\ ~live
  /\ unit' = "skipped"
  /\ UNCHANGED <<medium, starts, pc, files, banner, console>>

\* At boot, or when an operator restarts the unit.
Start ==
  /\ \/ unit = "waiting" /\ live
     \/ unit \in {"active", "failed"} /\ login
  /\ starts < MaxStarts
  /\ unit' = "pre" /\ starts' = starts + 1
  /\ UNCHANGED <<medium, pc, files, banner, console>>

\* nm-online gives up by itself, and whatever it says is ignored.
StartPre ==
  /\ unit = "pre"
  /\ unit' = "start" /\ pc' = "find"
  /\ UNCHANGED <<medium, starts, files, banner, console>>

\* set -e: the script ends with the first command that fails.
Fail == unit' = "failed" /\ pc' = "idle"

Writing == pc = "issue write"

\* Mutant: without TimeoutStartSec a oneshot unit may start for ever.
TimeoutNever == unit = "start" /\ UNCHANGED vars

Timeout ==
  /\ unit = "start"
  /\ Fail
  /\ cut' = (cut \/ Writing)
  /\ UNCHANGED <<medium, starts, files, issue, console>>

\* Mutant: the unit is not ordered before the login.
GettyUnordered ==
  /\ ~login
  /\ login' = TRUE /\ first' = issue /\ shown' = issue
  /\ UNCHANGED <<medium, unit, starts, pc, files, banner>>

\* Before=: the login waits until the start is over, however it ended.
Getty ==
  /\ ~login /\ unit \in {"skipped", "active", "failed"}
  /\ login' = TRUE /\ first' = issue /\ shown' = issue
  /\ UNCHANGED <<medium, unit, starts, pc, files, banner>>

\* Someone logs out: the prompt and the banner are printed anew.
Respawn ==
  /\ login /\ shown' = issue
  /\ UNCHANGED <<medium, unit, starts, pc, files, banner, login, first>>

-----------------------------------------------------------------------------
(* baretag-boot. *)

Step(from, to) == unit = "start" /\ pc = from /\ pc' = to /\ UNCHANGED unit
Stop(from) == unit = "start" /\ pc = from /\ Fail

\* blkid answers with any medium of the label.
FindDevice ==
  /\ \/ /\ Step("find", "dd")
        /\ \E d \in Media : label[d] = cmdline /\ dev' = d
     \/ Stop("find") /\ UNCHANGED dev
  /\ UNCHANGED <<medium, starts, raw, gz, installed, executable, banner, console>>

\* dd reads what is there; an error, or a full /run, ends the script.
Dd ==
  /\ \/ Step("dd", "head") /\ raw' = Content[dev]
     \/ Stop("dd") /\ raw' = "torn"
  /\ UNCHANGED <<medium, starts, dev, gz, installed, executable, banner, console>>

\* The sectors are cut to the length of the payload.
Head ==
  /\ \/ Step("head", "check") /\ gz' = raw /\ raw' = "none"
     \/ Stop("head") /\ gz' = "torn" /\ UNCHANGED raw
  /\ UNCHANGED <<medium, starts, dev, installed, executable, banner, console>>

\* Mutant: the checksum is not compared.
CheckNothing ==
  /\ Step("check", "unpack")
  /\ UNCHANGED <<medium, starts, files, banner, console>>

Check ==
  /\ IF gz = "own" THEN Step("check", "unpack") ELSE Stop("check")
  /\ UNCHANGED <<medium, starts, files, banner, console>>

\* The shell empties the file before gunzip begins to write it, unless somebody
\* is running it.
Unpack ==
  /\ \/ Step("unpack", "unpacked") /\ installed' = "torn"
     \/ Stop("unpack") /\ UNCHANGED installed
  /\ UNCHANGED <<medium, starts, dev, raw, gz, executable, banner, console>>

Unpacked ==
  /\ \/ Step("unpacked", "chmod") /\ installed' = gz /\ gz' = "none"
     \/ Stop("unpacked") /\ UNCHANGED <<installed, gz>>
  /\ UNCHANGED <<medium, starts, dev, raw, executable, banner, console>>

Chmod ==
  /\ Step("chmod", "run") /\ executable' = TRUE
  /\ UNCHANGED <<medium, starts, dev, raw, gz, installed, banner, console>>

\* The binary draws to its standard output, fails or never returns.
Run ==
  /\ Step("run", "issue") \/ Stop("run") \/ Step("run", "hung")
  /\ UNCHANGED <<medium, starts, files, banner, console>>

\* writeIssue: the banner is emptied, then written.
WriteIssue ==
  /\ Step("issue", "issue write") /\ issue' = "torn"
  /\ UNCHANGED <<medium, starts, files, cut, console>>

WrittenIssue ==
  /\ \/ Step("issue write", "report") /\ issue' = "own" /\ UNCHANGED cut
     \/ Stop("issue write") /\ cut' = TRUE /\ UNCHANGED issue
  /\ UNCHANGED <<medium, starts, files, console>>

\* The full report and the facts, whose failures are logged, and the console.
Report ==
  /\ Step("report", "done") \/ Step("report", "hung")
  /\ UNCHANGED <<medium, starts, files, banner, console>>

Done ==
  /\ unit = "start" /\ pc = "done"
  /\ unit' = "active" /\ pc' = "idle"
  /\ UNCHANGED <<medium, starts, files, banner, console>>

Launcher ==
  \/ FindDevice \/ Dd \/ Head \/ Check \/ Unpack \/ Unpacked \/ Chmod
  \/ Run \/ WriteIssue \/ WrittenIssue \/ Report \/ Done

Systemd == Condition \/ Start \/ StartPre \/ Timeout

Next == Launcher \/ Systemd \/ Getty \/ Respawn

\* systemd does what is due, the timer of a start among it; agetty is started
\* as soon as it may be.  Nothing is assumed of the launcher or the binary.
Spec == Init /\ [][Next]_vars /\ WF_vars(Systemd) /\ WF_vars(Getty)

-----------------------------------------------------------------------------
(* Properties. *)

\* Whatever medium answered to the label and whatever an earlier start left
\* half unpacked, what is executed is the binary that was baked
\* (baretag-boot:53-79).
ExecutedIsOwn ==
  pc \in {"run", "issue", "issue write", "report", "done"} =>
    installed = "own" /\ executable

\* The first login shows the whole banner if the unit came up, and half of one
\* only if writing it was cut short; later ones, only then or while the unit
\* is started once more (baretag.service:12-17, main.go:524-537).
BannerBeforeLogin ==
  /\ login /\ unit = "active" /\ starts = 1 => first = "own"
  /\ first = "torn" => cut
  /\ shown = "torn" => cut \/ starts > 1

\* The machine can be logged in to, whatever the medium, the launcher and the
\* binary do (baretag.service:22-26).
LoginEventually == <>login
=============================================================================
