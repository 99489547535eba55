------------------------------ MODULE Resampler ------------------------------
(***************************************************************************)
(* The resampling that sun5b.c and n163.c do after each sample of the chip *)
(* (fds.c too): the sample goes into a ring of 64, and whenever a divider  *)
(* overflows, 40 of them from source_pos on are weighted into one sample   *)
(* for the sound processor.  Position and divider are exact fractions of   *)
(* the same ratio, kept in four integers that are advanced separately.     *)
(***************************************************************************)
EXTENDS Integers

CONSTANTS
    Ring,       \* 64 samples in buf
    Lead,       \* 40, the taps of the filter
    Phases,     \* 256 positions between two samples
    SampleRing, \* 0x800 samples in exchip_buffer
    Latency     \* 8

ASSUME ResamplerAssumption ==
    /\ Ring \in Nat \ {0} /\ Lead \in 0 .. Ring - 1 /\ Phases \in Nat \ {0}
    /\ SampleRing \in Nat \ {0} /\ Latency \in 0..SampleRing

Resamplers ==
    [div : Nat, pos : 0 .. Phases * Ring - 1, frac : Nat,
     buf : 0 .. Ring - 1, offs : 0 .. SampleRing - 1]

\* What the slave entries set before their loop.
PowerResampler ==
    [div |-> 0, pos |-> 0, frac |-> 0, buf |-> Lead, offs |-> (SampleRing - Latency) % SampleRing]

\* Mutant: the carry of the fraction is lost.
EmitWithoutCarry(r, scale, full) ==
    LET frac == r.frac + ((Phases * full) % scale)
    IN [r EXCEPT !.offs = (@ + 1) % SampleRing,
                 !.frac = frac % scale,
                 !.pos = (@ + ((Phases * full) \div scale)) % (Phases * Ring)]

\* How far the source moves on for a sample of the sound processor, with the carry
\* of its fraction, and what is left of that.
Carry(frac, scale, full) == IF frac + ((Phases * full) % scale) >= scale THEN 1 ELSE 0
Way(frac, scale, full) == ((Phases * full) \div scale) + Carry(frac, scale, full)
Rest(frac, scale, full) == frac + ((Phases * full) % scale) - Carry(frac, scale, full) * scale

\* A sample for the sound processor.
Emit(r, scale, full) ==
    [r EXCEPT !.offs = (@ + 1) % SampleRing,
              !.frac = Rest(@, scale, full),
              !.pos = (@ + Way(r.frac, scale, full)) % (Phases * Ring)]

\* A sample of the chip is stored; the divider overflows at `full`.
Resample(r, scale, full) ==
    LET div == r.div + scale
        stored == [r EXCEPT !.buf = (@ + 1) % Ring]
    IN IF div < full THEN [stored EXCEPT !.div = div]
       ELSE Emit([stored EXCEPT !.div = div - full], scale, full)

-----------------------------------------------------------------------------
\* How far the source is behind the last sample stored, in phases.
Lag(r) == (Phases * (r.buf - Lead) - r.pos) % (Phases * Ring)

\* The source neither runs ahead of the samples that have been stored nor falls
\* behind them: its distance is exactly what the divider has left over.
WindowExact(r, scale) == Lag(r) * scale = Phases * r.div + r.frac

\* n samples of the chip have given as many samples as the ratio says.
OnTime(r, scale, full, n) ==
    r.offs = ((n * scale) \div full + SampleRing - Latency) % SampleRing
=============================================================================
