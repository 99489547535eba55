----------------------------- MODULE MCFdsShadow -----------------------------
(* Small instances of FdsShadow for TLC.  Frames of 4 cycles drift against an  *)
(* envelope clock of 3; the levels run from 0 to 3 with a cap of 2.            *)
EXTENDS FdsShadow

EnvSong == [uses |-> {"env", "gate", "speed", "read"}, behind |-> 1]
WaveSong == [uses |-> {"protect", "read"}, behind |-> 2]
EnvSongs == {EnvSong}
BothSongs == {EnvSong, WaveSong}
=============================================================================
