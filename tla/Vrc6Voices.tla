------------------------------ MODULE Vrc6Voices -----------------------------
(***************************************************************************)
(* The VRC6 of src/vrc6.c, which is run at the rate of the output: two     *)
(* pulses and a saw, each with a period in two registers.  A period is     *)
(* turned into an increment and a waveform at once or, to keep halves of a *)
(* period from being heard, after the present sample.  The saw's           *)
(* accumulator is predicted for all its parts whenever its rate changes.   *)
(***************************************************************************)
EXTENDS Integers

CONSTANTS
    VrcScale, Sample,   \* timestamp_scale, and the time of a sample in its units
    VrcRing,            \* 0x800 samples in exchip_buffer
    VrcByte,            \* 256, values of a period's low byte
    Parts, PartLen,     \* 7 parts of 585 units in a wave of the saw
    PhaseRange,         \* 4096, what the saw's phase counts to
    SawDividend,
    AccRange            \* 256, values of the saw's accumulator

Pulses == {"p0", "p1"}
Voices == Pulses \cup {"saw"}
WaveLen == Parts * PartLen

ASSUME VrcAssumption ==
    /\ VrcScale \in Nat \ {0} /\ Sample \in Nat \ {0} /\ Sample % 2 = 0
    /\ VrcRing \in Nat /\ VrcRing > 1 /\ VrcByte \in Nat \ {0}
    /\ Parts \in Nat /\ Parts > 1 /\ PartLen \in Nat \ {0}
    /\ PhaseRange \in Nat /\ PhaseRange > WaveLen /\ PhaseRange \div 2 <= WaveLen
    /\ SawDividend \in Nat /\ AccRange \in Nat \ {0}

\* No period has been worked out yet: the increment is 0.
NoPeriod == -1
Fxp == Sample * VrcRing     \* 2^32: times of samples with their fractions

PowerVrc ==
    [on |-> {}, period |-> [v \in Voices |-> 0],
     cur |-> [v \in Voices |-> NoPeriod],   \* the period ph_inc and wf were made of
     mode |-> [p \in Pulses |-> FALSE],     \* bit 3 of pulse_duty
     flat |-> [p \in Pulses |-> FALSE],     \* wf is pulse_constant
     delay |-> {}, changed |-> [v \in Voices |-> 0],
     ph |-> 0, volume |-> 0, pending |-> FALSE,
     accum |-> [i \in 1 .. Parts - 1 |-> 0], target |-> [i \in 1 .. Parts - 1 |-> 0],
     base |-> 0, offs |-> 0,     \* sample_offs, prev_sample_time
     \* for the properties: the level of an accumulator that adds at each part, and
     \* the periods voices were heard with in the samples of the last run
     level |-> 0, heard |-> {}]

-----------------------------------------------------------------------------
(* Periods. *)

\* pulse_duty_changed()
DutyChanged(s, p) == [s EXCEPT !.flat[p] = s.mode[p]]

\* pulse_period_changed(), saw_period_changed(): for a pulse the waveform is one of
\* the duty cycle, whatever the mode.
PeriodChanged(s, v) ==
    [s EXCEPT !.cur[v] = s.period[v],
              !.flat = [p \in Pulses |-> IF p = v THEN FALSE ELSE @[p]]]

\* ph_inc[2], 0 if the division overflows: its quotient has a sign.
SawInc(period) ==
    LET q == SawDividend \div (2 * (period + 1))
    IN IF period = NoPeriod \/ q >= PhaseRange \div 2 THEN 0 ELSE q

Part(ph) == ph \div PartLen

\* Mutant: the parts that are over are predicted anew as well.
ApplyVolumeAll(s) ==
    IF ~s.pending THEN s
    ELSE [s EXCEPT !.pending = FALSE,
                   !.target = [i \in DOMAIN @ |-> (i * s.volume) % AccRange],
                   !.accum = [i \in DOMAIN @ |-> (i * s.volume) % AccRange]]

\* vrc6_run(): the new volume counts for the parts ahead, and for all of the waves
\* to come.
ApplyVolume(s) ==
    LET c == Part(s.ph)
        before == IF c > 0 THEN s.accum[c] ELSE 0
    IN IF ~s.pending THEN s
       ELSE [s EXCEPT !.pending = FALSE,
                      !.target = [i \in DOMAIN @ |-> (i * s.volume) % AccRange],
                      !.accum = [i \in DOMAIN @ |->
                          IF i <= c THEN @[i] ELSE (before + (i - c) * s.volume) % AccRange]]

\* saw_sample(): at the end of the wave the saw starts with the target.
MoveSaw(s) ==
    LET sum == s.ph + SawInc(s.cur["saw"])
        wraps == sum >= WaveLen
        ph == IF wraps THEN sum - WaveLen ELSE sum
    IN [s EXCEPT !.ph = ph,
                 !.accum = IF wraps THEN s.target ELSE @,
                 !.level = IF wraps THEN (Part(ph) * s.volume) % AccRange
                           ELSE (@ + (Part(ph) - Part(s.ph)) * s.volume) % AccRange]

\* The delayed changes, after the sample.
ApplyDelayed(s) ==
    [s EXCEPT !.cur = [v \in Voices |-> IF v \in s.delay THEN s.period[v] ELSE @[v]],
              !.flat = [p \in Pulses |-> IF p \in s.delay THEN FALSE ELSE @[p]],
              !.delay = {}]

PlaySample(s) ==
    LET played == [s EXCEPT !.heard = @ \cup {s.cur[v] : v \in s.on}]
    IN [ApplyDelayed(MoveSaw(played)) EXCEPT !.offs = (@ + 1) % VrcRing]

\* sample_time_fxp
FxpTime(s, t) == (t * VrcScale + s.base) % Fxp

RunVrc(s0, t) ==
    LET s == [ApplyVolume(s0) EXCEPT !.heard = {}]
        rounds == ((FxpTime(s, t) \div Sample) - s.offs) % VrcRing
        F[n \in 0..rounds] == IF n = 0 THEN s ELSE PlaySample(F[n - 1])
    IN F[rounds]

-----------------------------------------------------------------------------
(* The registers, written at x = sample_time_fxp. *)

\* Late in a sample, and not soon after another change, a change waits for the next
\* sample; one that follows a waiting change waits with it.
Change(s, v, x) ==
    IF x % Sample >= Sample \div 2 /\ (x - s.changed[v]) % Fxp > Sample \div 2
    THEN [s EXCEPT !.delay = @ \cup {v}]
    ELSE IF v \in s.delay THEN s ELSE PeriodChanged(s, v)

\* $9000, $A000
SetDuty(s, p, mode) == DutyChanged([s EXCEPT !.mode[p] = mode], p)

\* Mutant: the saw's time is not noted either.
SetLowUnnoted(s, v, x, b) ==
    LET period == (s.period[v] \div VrcByte) * VrcByte + b
    IN IF period = s.period[v] THEN s ELSE Change([s EXCEPT !.period[v] = period], v, x)

\* $9001, $A001, $B001: the time of the change is noted for the saw only.
SetLow(s, v, x, b) ==
    LET period == (s.period[v] \div VrcByte) * VrcByte + b
        new == Change([s EXCEPT !.period[v] = period], v, x)
    IN IF period = s.period[v] THEN s
       ELSE IF v = "saw" THEN [new EXCEPT !.changed[v] = x] ELSE new

\* A voice that is switched on starts at once, the saw with its first part.
SwitchOn(s, v, x) ==
    LET new == [PeriodChanged(s, v) EXCEPT !.on = @ \cup {v}, !.delay = @ \ {v},
                                           !.changed[v] = x]
    IN IF v # "saw" THEN new
       ELSE [new EXCEPT !.ph = @ % PartLen, !.accum = s.target, !.level = 0]

\* $9002, $A002, $B002
SetHigh(s, v, x, h, on) ==
    LET period == (s.period[v] % VrcByte) + h * VrcByte
        new == [s EXCEPT !.period[v] = period]
    IN IF on /\ v \notin s.on THEN SwitchOn(new, v, x)
       ELSE LET set == [new EXCEPT !.on = IF on THEN @ ELSE @ \ {v}]
            IN IF period = s.period[v] THEN set
               ELSE [Change(set, v, x) EXCEPT !.changed[v] = x]

\* $B000
SetSawRate(s, volume) == [s EXCEPT !.volume = volume, !.pending = TRUE]

\* SLAVECMD_FRAME: times go on from sample_offs, and changes long ago stay so.
VrcFrame(s, t) ==
    LET x == FxpTime(s, t)
    IN [s EXCEPT !.base = (@ + t * VrcScale) % Fxp,
                 !.changed = [v \in Voices |-> IF (x - @[v]) % Fxp >= Sample
                                               THEN (x - Sample) % Fxp ELSE @[v]]]

-----------------------------------------------------------------------------
\* What the saw adds in its present part.
SawLevel(s) == IF Part(s.ph) = 0 THEN 0 ELSE s.accum[Part(s.ph)]

\* The predicted levels are those of an accumulator that adds its rate at each part
\* and starts again with each wave, and the period in force is the one written,
\* unless it waits for the end of the sample.
VrcAsWritten(s) ==
    /\ SawLevel(s) = s.level
    /\ \A v \in Voices : v \in s.on /\ v \notin s.delay => s.cur[v] = s.period[v]
=============================================================================
