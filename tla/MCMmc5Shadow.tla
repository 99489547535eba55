---------------------------- MODULE MCMmc5Shadow ----------------------------
(* A small instance of Mmc5Shadow for TLC.  The dividers alternate between   *)
(* 2 and 3 cycles, frames end after 4: one or two of them fall into a frame,  *)
(* and a frame may end on a divider or beside it.                            *)
EXTENDS Mmc5Shadow
=============================================================================
