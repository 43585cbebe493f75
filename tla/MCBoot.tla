------------------------------- MODULE MCBoot -------------------------------
(* The medium that was booted, one whose end is missing and one that was    *)
(* baked with another binary, under any labels.                             *)
EXTENDS BootService

MCContent == [m \in Media |->
  CASE m = "usb" -> "own" [] m = "copy" -> "torn" [] m = "cd" -> "other"]
=============================================================================
