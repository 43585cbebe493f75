------------------------------- MODULE MCGrow --------------------------------
(***************************************************************************)
(* An instance of PartitionGrow for TLC: two files, sectors of two blocks, *)
(* a reserve of three (the header, and two blocks for the array), arrays   *)
(* that are shorter, as long and longer than that.                         *)
(***************************************************************************)
EXTENDS PartitionGrow

CONSTANTS f1, f2
=============================================================================
