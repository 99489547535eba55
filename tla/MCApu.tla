------------------------------- MODULE MCApu -------------------------------
EXTENDS Apu

\* Bytes of two bits: up up, up down, down down.
MCRom == <<<<1, 1>>, <<1, 0>>, <<0, 0>>>>

\* Songs that use one part of the unit, with the registers all parts share.
DmcSong == [uses |-> {"rate", "length", "enable", "dmc"}, accesses |-> 3]
PcmSong == [uses |-> {"level", "start", "enable", "dmc"}, accesses |-> 3]
TriSong == [uses |-> {"linear", "trihigh", "trilow", "enable", "tri"}, accesses |-> 3]
PulseSong == [uses |-> {"volume", "high", "enable", "p0"}, accesses |-> 3]
SweepSong == [uses |-> {"sweep", "low", "high", "enable", "p0"}, accesses |-> 3]
NoiseSong == [uses |-> {"volume", "noiselength", "enable", "noise"}, accesses |-> 3]
ClockSong == [uses |-> {"noiselength", "enable", "noise", "sequencer"}, accesses |-> 3]
MCSongs == {DmcSong, PcmSong, TriSong, PulseSong, SweepSong, NoiseSong, ClockSong}
StopSongs == {[uses |-> {"rate", "enable", "dmc"}, accesses |-> 4]}
============================================================================
