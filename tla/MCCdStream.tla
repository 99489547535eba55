----------------------------- MODULE MCCdStream -----------------------------
(* A small instance of CdStream for TLC: a disc of LastFad + 1 sectors, read   *)
(* through a partition that is smaller than the disc.                          *)
EXTENDS CdStream
=============================================================================
