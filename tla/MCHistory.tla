------------------------------ MODULE MCHistory ------------------------------
(* Instances of History for TLC; the constants are in the .cfg files.      *)
EXTENDS History
===============================================================================
