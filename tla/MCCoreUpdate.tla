---------------------------- MODULE MCCoreUpdate ----------------------------
(***************************************************************************)
(* CoreUpdate for TLC.  The constants are given in the .cfg files; every   *)
(* bound is on the environment (failures, crashes, replacements and user   *)
(* commands), so no constraint cuts a session short.                       *)
(***************************************************************************)
EXTENDS CoreUpdate
=============================================================================
