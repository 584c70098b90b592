---------------------------- MODULE MCCgroupJob ----------------------------
(***************************************************************************)
(* Instances of CgroupJob for TLC: two spawns into one job.                *)
(***************************************************************************)
EXTENDS CgroupJob

CONSTANTS s1, s2

=============================================================================
