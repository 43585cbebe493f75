----------------------------- MODULE BootProofs -----------------------------
(***************************************************************************)
(* What is executed and what a login shows, for every set of media, labels *)
(* and contents, and for every number of restarts.                         *)
(***************************************************************************)
EXTENDS BootService, TLAPS

\* The launcher runs nothing that it has not unpacked from the payload whose
\* checksum it compared.
LauncherInv ==
  /\ pc \in {"unpack", "unpacked"} => gz = "own"
  /\ pc = "chmod" => installed = "own"
  /\ ExecutedIsOwn

\* A start that an agetty could see half way is not the first one, and what a
\* start leaves of the banner follows from how it ended.
BannerInv ==
  /\ starts \in Nat
  /\ unit = "waiting" => starts = 0 /\ ~login
  /\ unit \notin {"waiting", "skipped"} => starts > 0
  /\ login /\ unit \in {"pre", "start"} => starts > 1
  /\ pc \in {"report", "done"} => issue = "own"
  /\ unit = "active" => issue = "own"
  /\ issue = "torn" => cut \/ (unit = "start" /\ pc = "issue write")
  /\ BannerBeforeLogin

-----------------------------------------------------------------------------
(* The launcher. *)

LEMMA LauncherInit == Init => LauncherInv
BY DEF Init, LauncherInv, ExecutedIsOwn

\* No step of systemd, of a login or of the launcher gets to the binary past
\* the checksum.
LEMMA LauncherStep == LauncherInv /\ [Next]_vars => LauncherInv'
<1> USE DEF LauncherInv, ExecutedIsOwn, files, banner, console, medium, Step, Stop, Fail
<1> SUFFICES ASSUME LauncherInv, [Next]_vars PROVE LauncherInv'
  OBVIOUS
<1>1. CASE FindDevice \/ Dd \/ Head
  BY <1>1 DEF FindDevice, Dd, Head
<1>2. CASE Check
  BY <1>2 DEF Check
<1>3. CASE Unpack
  BY <1>3 DEF Unpack
<1>4. CASE Unpacked
  BY <1>4 DEF Unpacked
<1>5. CASE Chmod
  BY <1>5 DEF Chmod
<1>6. CASE Run \/ WriteIssue \/ WrittenIssue
  BY <1>6 DEF Run, WriteIssue, WrittenIssue
<1>7. CASE Report \/ Done
  BY <1>7 DEF Report, Done
<1>8. CASE Condition \/ Start \/ StartPre \/ Timeout
  BY <1>8 DEF Condition, Start, StartPre, Timeout
<1>9. CASE Getty \/ Respawn
  BY <1>9 DEF Getty, Respawn
<1>10. CASE UNCHANGED vars
  BY <1>10 DEF vars
<1>11. QED
  BY <1>1, <1>2, <1>3, <1>4, <1>5, <1>6, <1>7, <1>8, <1>9, <1>10
     DEF Next, Launcher, Systemd

\* Whatever medium answered to the label and whatever an earlier start left
\* half unpacked, what is executed is the binary that was baked
\* (baretag-boot:53-79).
THEOREM ExecutesOnlyItsOwn == Spec => []ExecutedIsOwn
<1>1. LauncherInv => ExecutedIsOwn
  BY DEF LauncherInv
<1>2. QED
  BY LauncherInit, LauncherStep, <1>1, PTL DEF Spec

-----------------------------------------------------------------------------
(* The banner. *)

LEMMA BannerInit == Init => BannerInv
BY DEF Init, BannerInv, BannerBeforeLogin

\* A login is ordered behind the first start, so that it can see a banner half
\* written only if the start was cut off there, or during a restart.
LEMMA BannerStep == BannerInv /\ [Next]_vars => BannerInv'
<1> SUFFICES ASSUME BannerInv, [Next]_vars PROVE BannerInv'
  OBVIOUS
<1> DEFINE Seen == UNCHANGED <<starts, issue, cut, login, first, shown>>
           Moved(from, to) == /\ unit = "start" /\ pc = from
                              /\ \/ unit' = "start" /\ pc' \in to
                                 \/ unit' = "failed" /\ pc' = "idle"
<1>1. ASSUME NEW from \in {"find", "dd", "head", "check", "unpack", "unpacked", "chmod"},
             Moved(from, {"dd", "head", "check", "unpack", "unpacked", "chmod", "run"}), Seen
      PROVE  BannerInv'
  BY <1>1 DEF BannerInv, BannerBeforeLogin
<1>2. CASE FindDevice
  <2>1. Moved("find", {"dd"}) /\ Seen
    BY <1>2 DEF FindDevice, Step, Stop, Fail, banner, console
  <2>2. QED
    BY <2>1, <1>1
<1>3. CASE Dd
  <2>1. Moved("dd", {"head"}) /\ Seen
    BY <1>3 DEF Dd, Step, Stop, Fail, banner, console
  <2>2. QED
    BY <2>1, <1>1
<1>4. CASE Head
  <2>1. Moved("head", {"check"}) /\ Seen
    BY <1>4 DEF Head, Step, Stop, Fail, banner, console
  <2>2. QED
    BY <2>1, <1>1
<1>5. CASE Check
  <2>1. Moved("check", {"unpack"}) /\ Seen
    BY <1>5 DEF Check, Step, Stop, Fail, banner, console
  <2>2. QED
    BY <2>1, <1>1
<1>6. CASE Unpack
  <2>1. Moved("unpack", {"unpacked"}) /\ Seen
    BY <1>6 DEF Unpack, Step, Stop, Fail, banner, console
  <2>2. QED
    BY <2>1, <1>1
<1>7. CASE Unpacked
  <2>1. Moved("unpacked", {"chmod"}) /\ Seen
    BY <1>7 DEF Unpacked, Step, Stop, Fail, banner, console
  <2>2. QED
    BY <2>1, <1>1
<1>8. CASE Chmod
  <2>1. Moved("chmod", {"run"}) /\ Seen
    BY <1>8 DEF Chmod, Step, banner, console
  <2>2. QED
    BY <2>1, <1>1
<1>9. CASE Run
  <2>1. Moved("run", {"issue", "hung"}) /\ Seen
    BY <1>9 DEF Run, Step, Stop, Fail, banner, console
  <2>2. QED
    BY <2>1 DEF BannerInv, BannerBeforeLogin
<1>10. CASE Report
  <2>1. Moved("report", {"done", "hung"}) /\ Seen
    BY <1>10 DEF Report, Step, banner, console
  <2>2. QED
    BY <2>1 DEF BannerInv, BannerBeforeLogin
<1>11. CASE WriteIssue
  BY <1>11 DEF WriteIssue, Step, console, BannerInv, BannerBeforeLogin
<1>12. CASE WrittenIssue
  BY <1>12 DEF WrittenIssue, Step, Stop, Fail, console, BannerInv, BannerBeforeLogin
<1>13. CASE Done
  BY <1>13 DEF Done, banner, console, BannerInv, BannerBeforeLogin
<1>14. CASE Condition
  BY <1>14 DEF Condition, banner, console, BannerInv, BannerBeforeLogin
<1>15. CASE Start
  <2>1. /\ unit' = "pre" /\ starts' = starts + 1
        /\ UNCHANGED <<pc, issue, cut, login, first, shown>>
    BY <1>15 DEF Start, banner, console
  <2>2. CASE unit = "waiting"
    BY <2>1, <2>2 DEF BannerInv, BannerBeforeLogin
  <2>3. CASE unit \in {"active", "failed"}
    <3>1. starts \in Nat /\ starts > 0
      BY <2>3 DEF BannerInv
    <3>2. starts' \in Nat /\ starts' > 1 /\ starts' > 0
      BY <2>1, <3>1
    <3>3. issue = "torn" => cut
      BY <2>3 DEF BannerInv
    <3>4. QED
      BY <2>1, <3>1, <3>2, <3>3 DEF BannerInv, BannerBeforeLogin
  <2>4. QED
    BY <2>2, <2>3, <1>15 DEF Start
<1>16. CASE StartPre
  BY <1>16 DEF StartPre, banner, console, BannerInv, BannerBeforeLogin
<1>17. CASE Timeout
  BY <1>17 DEF Timeout, Fail, Writing, console, BannerInv, BannerBeforeLogin
<1>18. CASE Getty
  BY <1>18 DEF Getty, banner, BannerInv, BannerBeforeLogin
<1>19. CASE Respawn
  BY <1>19 DEF Respawn, banner, BannerInv, BannerBeforeLogin
<1>20. CASE UNCHANGED vars
  BY <1>20 DEF vars, banner, console, BannerInv, BannerBeforeLogin
<1>21. QED
  BY <1>2, <1>3, <1>4, <1>5, <1>6, <1>7, <1>8, <1>9, <1>10, <1>11, <1>12, <1>13,
     <1>14, <1>15, <1>16, <1>17, <1>18, <1>19, <1>20
     DEF Next, Launcher, Systemd

\* The first login shows the whole banner if the unit came up, and half of one
\* only if writing it was cut short; later ones, only then or while the unit
\* is started once more (baretag.service:12-17, main.go:524-537).
THEOREM LoginsSeeWholeBanners == Spec => []BannerBeforeLogin
<1>1. BannerInv => BannerBeforeLogin
  BY DEF BannerInv
<1>2. QED
  BY BannerInit, BannerStep, <1>1, PTL DEF Spec
=============================================================================
