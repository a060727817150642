--------------------------- MODULE MCWindowsTracer ---------------------------
(* Instances of WindowsTracer for TLC; the constants are in the .cfg files. *)
EXTENDS WindowsTracer
===============================================================================
