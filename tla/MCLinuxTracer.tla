---------------------------- MODULE MCLinuxTracer ----------------------------
(* Instances of LinuxTracer for TLC; the constants are in the .cfg files.  *)
EXTENDS LinuxTracer

BothValues == BOOLEAN
===============================================================================
