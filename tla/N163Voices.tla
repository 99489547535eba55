----------------------------- MODULE N163Voices ------------------------------
(***************************************************************************)
(* The Namco 163 of src/n163.c: channels that take turns, one each 15      *)
(* cycles.  One memory is waveform and registers; the code keeps it as     *)
(* waveform and, decoded at each write, as channels.                       *)
(***************************************************************************)
EXTENDS Resampler

CONSTANTS
    NamcoCycles,    \* 15: cycles of a step
    NamcoStamp,     \* 2^16, the range of a timestamp
    NamcoScale, NamcoFull,  \* resamp_scale, 2^21
    NamcoByte,      \* 256
    TopChannel,     \* 7
    VolRange,       \* 16: a register holds the volume, above it the channels in use
    WaveCells       \* addresses below 0x40

\* An address is a cell, or a channel's register.
NamcoRegs == 0..7
NamcoChannels == 0..TopChannel
Cells == WaveCells \cup (NamcoChannels \X NamcoRegs)
Bytes == 0 .. NamcoByte - 1
Phase == NamcoByte * NamcoByte * NamcoByte

ASSUME NamcoAssumption ==
    /\ NamcoCycles \in Nat \ {0} /\ NamcoStamp \in Nat \ {0}
    /\ NamcoScale \in Nat \ {0} /\ NamcoFull \in Nat
    /\ NamcoScale < NamcoFull /\ NamcoFull <= (Ring - 1) * NamcoScale
    /\ NamcoByte \in Nat /\ NamcoByte >= 4 /\ NamcoByte % 4 = 0
    /\ TopChannel \in Nat /\ VolRange \in Nat \ {0}

\* A cell nobody has written is played as 0, which no byte stands for.
Unwritten == -1

PowerNamco ==
    [wf |-> [a \in Cells |-> Unwritten],
     ch |-> [c \in NamcoChannels |-> [ph |-> 0, inc |-> 0, length |-> 0, offs |-> 0, volume |-> 0]],
     counter |-> 0, limit |-> 1, divider |-> 0, prev |-> 0, out |-> PowerResampler]

-----------------------------------------------------------------------------
(* n163_run() *)

PlayChannel(c) ==
    LET ph == (c.ph + c.inc) % Phase
    IN [c EXCEPT !.ph = IF ph >= c.length THEN ph - c.length ELSE ph]

NamcoStep(s) ==
    [s EXCEPT !.divider = @ - NamcoCycles,
              !.ch[s.counter] = PlayChannel(@),
              !.counter = IF @ + 1 >= s.limit THEN 0 ELSE @ + 1,
              !.out = Resample(@, NamcoScale, NamcoFull)]

RunNamco(s0, t) ==
    LET s == [s0 EXCEPT !.divider = @ + ((t - s0.prev) % NamcoStamp), !.prev = t]
        steps == IF s.divider < 0 THEN 0 ELSE (s.divider \div NamcoCycles) + 1
        F[n \in 0..steps] == IF n = 0 THEN s ELSE NamcoStep(F[n - 1])
    IN F[steps]

-----------------------------------------------------------------------------
(* n163_write() *)

\* The byte of a phase or an increment that counts units of 1, Mid or High.
Mid == NamcoByte
High == NamcoByte * NamcoByte
SetByte(v, unit, b) == v + (b - ((v \div unit) % NamcoByte)) * unit

\* (0x100 - (data & 0xFC)) << 24, in 32 bits: 0 for the longest.
Length(b) == ((NamcoByte - 4 * (b \div 4)) * NamcoByte * NamcoByte) % Phase

Decode(c, reg, b) ==
    CASE reg = 0 -> [c EXCEPT !.inc = SetByte(@, 1, b)]
      [] reg = 1 -> [c EXCEPT !.ph = SetByte(@, 1, b)]
      [] reg = 2 -> [c EXCEPT !.inc = SetByte(@, Mid, b)]
      [] reg = 3 -> [c EXCEPT !.ph = SetByte(@, Mid, b)]
      [] reg = 4 -> [c EXCEPT !.inc = SetByte(@, High, b % 4), !.length = Length(b)]
      [] reg = 5 -> [c EXCEPT !.ph = SetByte(@, High, b)]
      [] reg = 6 -> [c EXCEPT !.offs = b]
      [] reg = 7 -> [c EXCEPT !.volume = b % VolRange]

\* How many channels take turns, from the last byte of the memory.
Limit(b) == 1 + ((b \div VolRange) % (TopChannel + 1))

SetCell(s, a, b) ==
    IF a \in WaveCells THEN [s EXCEPT !.wf[a] = b]
    ELSE [s EXCEPT !.wf[a] = b, !.ch[a[1]] = Decode(@, a[2], b),
                   !.limit = IF a = <<0, 7>> THEN Limit(b) ELSE @]

NamcoFrame(s, t) == [s EXCEPT !.prev = @ - t]

-----------------------------------------------------------------------------
\* What a register says, an unwritten one being 0.
Reg(s, c, reg) == IF s.wf[<<c, reg>>] = Unwritten THEN 0 ELSE s.wf[<<c, reg>>]

\* The channels are what the memory says, whatever the order of the writes.
NamcoAsWritten(s) ==
    /\ \A c \in NamcoChannels :
        /\ s.ch[c].inc = Reg(s, c, 0) + NamcoByte * (Reg(s, c, 2) + NamcoByte * (Reg(s, c, 4) % 4))
        /\ s.ch[c].length = Length(Reg(s, c, 4))
        /\ s.ch[c].offs = Reg(s, c, 6) /\ s.ch[c].volume = Reg(s, c, 7) % VolRange
    /\ s.limit = Limit(Reg(s, 0, 7)) /\ s.counter \in NamcoChannels
=============================================================================
