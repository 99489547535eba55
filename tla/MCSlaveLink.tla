----------------------------- MODULE MCSlaveLink -----------------------------
(* A small instance of SlaveLink for TLC; the values are in the .cfg files.  *)
EXTENDS SlaveLink
=============================================================================
