------------------------------ MODULE MCVoices -------------------------------
(* A small sound processor: 3 levels of a saw's wave, a register of 3 bits for
   the noise, bytes of 2 or (N163) 3 bits, and songs that use few registers. *)
EXTENDS SlaveVoices

Song(chip, voice, uses, w, f) ==
    [chip |-> chip, voice |-> voice, uses |-> uses, writes |-> w, frames |-> f]

MCSongs ==
    {Song("vrc6", "saw", {"period", "rate"}, 3, 2),
     Song("vrc6", "p0", {"period", "duty"}, 2, 2),
     Song("sun5b", "none", {"tone", "noise", "mixer"}, 2, 4),
     Song("sun5b", "none", {"volume", "shape", "envelope"}, 2, 4),
     Song("n163", "none", {"cell"}, 3, 3)}

MCPairSongs == {Song("vrc6", "p0", {"period"}, 2, 2)}

MCMixers == {{<<"noise", w>> : w \in Tones}, {<<"tone", 0>>, <<"noise", 1>>, <<"noise", 2>>},
             {<<"tone", 0>>, <<"noise", 0>>}}
MCNamcoAddresses == WaveCells \cup {<<0, 7>>, <<1, 0>>, <<1, 2>>, <<1, 4>>, <<1, 6>>}
=============================================================================
