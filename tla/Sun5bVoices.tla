----------------------------- MODULE Sun5bVoices -----------------------------
(***************************************************************************)
(* The Sunsoft 5B of src/sun5b.c: three tones and a noise that gate three  *)
(* volumes, each a fixed one or the envelope's.  A register never changes  *)
(* the sound directly; the code keeps pointers to volumes, a table of the  *)
(* gates and, for the envelope, a counter with the values at which it      *)
(* stops or turns.                                                         *)
(***************************************************************************)
EXTENDS Resampler, Sequences

CONSTANTS
    SunCycles,      \* 16: cycles of a step
    Stamp,          \* 2^16, the range of a timestamp
    SunScale, SunFull,      \* resamp_scale, 2^32
    EnvTop,         \* 0x1F
    LfsrLen, LfsrTap,       \* 17, 14
    LowByte         \* 256, values of a period's low byte

Tones == 0..2
Env == 3            \* the index of the envelope in volumes
EnvRange == 2 * (EnvTop + 1)

ASSUME SunAssumption ==
    /\ SunCycles \in Nat \ {0} /\ Stamp \in Nat \ {0}
    /\ SunScale \in Nat \ {0} /\ SunFull \in Nat
    /\ SunScale < SunFull /\ SunFull <= (Ring - 1) * SunScale
    /\ EnvTop \in Nat \ {0} /\ LfsrLen \in Nat /\ LfsrTap \in 1..LfsrLen
    /\ LowByte \in Nat \ {0}

\* db_lut: the table is mirrored, its two lowest levels are silent.
Db(level) == LET l == level % (EnvTop + 1) IN IF l < 2 THEN 0 ELSE l

\* Register 13: continue, attack, alternate, hold.
Shapes == [cont : BOOLEAN, att : BOOLEAN, alt : BOOLEAN, hold : BOOLEAN]
Decay == [cont |-> FALSE, att |-> FALSE, alt |-> FALSE, hold |-> FALSE]

\* The table of sun5b_slave_entry(): the level to stop at and the level to turn
\* at, -1 for never.
StopAt(shape) ==
    CASE ~shape.cont -> IF shape.att THEN EnvTop + 1 ELSE 0
      [] shape.cont /\ ~shape.hold -> -1
      [] OTHER -> IF shape.att THEN IF shape.alt THEN EnvTop + 1 ELSE EnvTop
                               ELSE IF shape.alt THEN EnvRange - 1 ELSE 0

TurnAt(shape) ==
    IF shape.cont /\ shape.alt /\ ~shape.hold
    THEN IF shape.att THEN EnvTop + 1 ELSE EnvRange - 1 ELSE -1

PowerSun ==
    [tone |-> [w \in Tones |-> [div |-> 0, period |-> 0, up |-> FALSE]],
     noise |-> [div |-> 0, period |-> 0, up |-> FALSE,
                lfsr |-> [i \in 1..LfsrLen |-> i = 1]],
     off |-> {},    \* noise_tone_disable
     volumes |-> [i \in 0..Env |-> 0], ptr |-> [w \in Tones |-> w],
     env |-> [level |-> 0, div |-> 0, period |-> 0, inc |-> 0, stop |-> 0, turn |-> 0],
     prev |-> 0, out |-> PowerResampler,
     \* for the properties: what the registers say, and how often the envelope
     \* was clocked since its shape was written
     fixed |-> [w \in Tones |-> 0], enveloped |-> {}, shape |-> Decay, clocks |-> EnvTop + 1]

-----------------------------------------------------------------------------
(* sun5b_run(): a step. *)

\* The table lut and volume_ptrs: what voice w adds to the sample.
Heard(s, w) ==
    IF /\ s.tone[w].up \/ <<"tone", w>> \in s.off
       /\ s.noise.up \/ <<"noise", w>> \in s.off
    THEN s.volumes[s.ptr[w]] ELSE 0

ClockTone(v) ==
    IF v.div + 1 >= v.period THEN [v EXCEPT !.div = 0, !.up = ~@] ELSE [v EXCEPT !.div = @ + 1]

\* At every second count only; the new bit of the register is the noise.
ClockNoise(v) ==
    LET div == v.div + 1
        bit == v.lfsr[LfsrLen] # v.lfsr[LfsrTap]
    IN IF div % 2 = 1 \/ div < v.period THEN [v EXCEPT !.div = div]
       ELSE [v EXCEPT !.div = 0, !.up = bit,
                      !.lfsr = [i \in 1..LfsrLen |-> IF i = 1 THEN bit ELSE @[i - 1]]]

\* The level of the envelope after a clock: it stops, or turns and goes back.
Advance(e) ==
    LET level == (e.level + e.inc) % EnvRange
    IN CASE e.level = e.stop -> e
         [] e.level # e.stop /\ level # e.turn -> [e EXCEPT !.level = level]
         [] OTHER -> [e EXCEPT !.level = EnvRange - 1 - level, !.inc = -@,
                               !.turn = EnvRange + EnvTop - @]

\* Clocks are counted round a whole wave once the first two ramps are over.
CountClock(n) == IF n + 1 < 2 * EnvRange THEN n + 1 ELSE n + 1 - EnvRange

ClockEnv(s) ==
    IF s.env.div + 1 < s.env.period THEN [s EXCEPT !.env.div = @ + 1]
    ELSE LET e == Advance(s.env)
         IN [s EXCEPT !.env = [e EXCEPT !.div = 0],
                      !.volumes[Env] = IF s.env.level = s.env.stop THEN @ ELSE Db(e.level),
                      !.clocks = CountClock(@)]

SunStep(s) ==
    ClockEnv([s EXCEPT !.out = Resample(@, SunScale, SunFull),
                       !.tone = [w \in Tones |-> ClockTone(@[w])],
                       !.noise = ClockNoise(@)])

RunSun(s, t) ==
    LET steps == ((t - s.prev) % Stamp) \div SunCycles
        F[n \in 0..steps] == IF n = 0 THEN s ELSE SunStep(F[n - 1])
    IN [F[steps] EXCEPT !.prev = @ + steps * SunCycles]

-----------------------------------------------------------------------------
(* sun5b_write(), and the end of a frame. *)

SetTone(s, w, high, v) ==
    [s EXCEPT !.tone[w].period = IF high THEN (@ % LowByte) + v * LowByte
                                 ELSE (@ \div LowByte) * LowByte + v]

SetNoise(s, v) == [s EXCEPT !.noise.period = 2 * (IF v = 0 THEN 1 ELSE v)]

SetMixer(s, off) == [s EXCEPT !.off = off]

SetSunVolume(s, w, v, enveloped) ==
    [s EXCEPT !.ptr[w] = IF enveloped THEN Env ELSE w, !.volumes[w] = Db(2 * v + 1),
              !.fixed[w] = v, !.enveloped = IF enveloped THEN @ \cup {w} ELSE @ \ {w}]

SetEnvPeriod(s, high, v) ==
    [s EXCEPT !.env.period = IF high THEN (@ % LowByte) + v * LowByte
                             ELSE (@ \div LowByte) * LowByte + v]

SetShape(s, shape) ==
    LET level == IF shape.att THEN 0 ELSE EnvTop
    IN [s EXCEPT !.env = [level |-> level, div |-> 0, period |-> s.env.period,
                          inc |-> IF shape.att THEN 1 ELSE -1,
                          stop |-> StopAt(shape), turn |-> TurnAt(shape)],
                 !.volumes[Env] = Db(level), !.shape = shape, !.clocks = 0]

SunFrame(s, t) == [s EXCEPT !.prev = @ - t]

-----------------------------------------------------------------------------
\* The envelope of the chip as it is documented: ramps of EnvTop + 1 levels; the
\* first rises with attack; without continue silence follows, with hold the last
\* level or, with alternate, its opposite; else ramps follow, every second one
\* turned round with alternate.
Envelope(shape, n) ==
    LET ramp == n \div (EnvTop + 1)
        place == n % (EnvTop + 1)
        rising == IF shape.alt /\ ramp % 2 = 1 THEN ~shape.att ELSE shape.att
    IN IF ramp > 0 /\ ~shape.cont THEN 0
       ELSE IF ramp > 0 /\ shape.hold THEN IF shape.att # shape.alt THEN EnvTop ELSE 0
       ELSE IF rising THEN place ELSE EnvTop - place

\* Each open voice adds what its registers say, the envelope's level being that of
\* the documented shape.
SunAsWritten(s) ==
    \A w \in Tones :
        Heard(s, w) =
            IF \/ ~s.tone[w].up /\ <<"tone", w>> \notin s.off
               \/ ~s.noise.up /\ <<"noise", w>> \notin s.off THEN 0
            ELSE IF w \in s.enveloped THEN Db(Envelope(s.shape, s.clocks))
            ELSE Db(2 * s.fixed[w] + 1)
=============================================================================
