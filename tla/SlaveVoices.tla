----------------------------- MODULE SlaveVoices -----------------------------
(***************************************************************************)
(* What the slave plays: the loop of the chip a song uses takes commands   *)
(* with the cycle they belong to, runs the chip up to it and applies the   *)
(* command.  Times start again with each frame.                            *)
(***************************************************************************)
EXTENDS Vrc6Voices, Sun5bVoices, N163Voices, FiniteSets

CONSTANTS
    Songs,      \* a song: its chip, the VRC6 voice and the registers it uses, and
                \* (bounds of the model) its writes and frames
    Gaps,       \* cycles between two commands
    FrameMin, FrameMax,     \* cycles of a frame
    \* what songs write
    PeriodBytes, VrcVolumes, TonePeriods, SunVolumes, NoisePeriods, EnvPeriods, Mixers,
    NamcoAddresses, NamcoBytes,
    PairGap,    \* the halves of a VRC6 period are written within this time
    PairRest    \* and two periods at least that far apart

VARIABLES
    song,
    at, frames,     \* the timestamp of the last command in its frame
    clock,          \* cycles since the song began
    writes,
    vrc, sun, namco,    \* the chips
    \* how the song writes VRC6 periods: whether the second half of one is missing,
    \* the cycles since the last half, the periods written in full, and those of
    \* others that a sample was played with
    half, since, whole, torn

chips == <<vrc, sun, namco>>
pairs == <<half, since, whole>>
vars == <<song, at, frames, clock, writes, chips, pairs, torn>>

ASSUME VoicesAssumption ==
    /\ Gaps \subseteq Nat \ {0} /\ FrameMin \in Nat \ {0} /\ FrameMax \in FrameMin .. Stamp - SunCycles
    /\ FrameMax < NamcoStamp /\ FrameMax * VrcScale < Sample * (VrcRing - 1)
    /\ PairGap \in Nat /\ PairRest \in Nat
    /\ PairGap * VrcScale <= Sample \div 2 /\ PairRest * VrcScale > Sample \div 2

\* Registers and cells hold bytes.
ASSUME BytesAssumption ==
    /\ PeriodBytes \subseteq Nat /\ VrcVolumes \subseteq Nat /\ SunVolumes \subseteq Nat
    /\ WaveCells \cap (NamcoChannels \X NamcoRegs) = {}
    /\ NamcoAddresses \subseteq Cells /\ NamcoBytes \subseteq Bytes

\* A song uses registers of its own chip.
ASSUME SongsAssumption ==
    \A f \in Songs :
        /\ f.chip \in {"vrc6", "sun5b", "n163"}
        /\ f.chip = "vrc6" => f.voice \in Voices /\ f.uses \subseteq {"duty", "rate", "period"}
        /\ f.chip = "sun5b" =>
              f.uses \subseteq {"tone", "noise", "mixer", "volume", "envelope", "shape"}
        /\ f.chip = "n163" => f.uses \subseteq {"cell"}

Init ==
    /\ song \in Songs
    /\ at = 0 /\ frames = 0 /\ clock = 0 /\ writes = 0
    /\ vrc = PowerVrc /\ sun = PowerSun /\ namco = PowerNamco
    /\ half = FALSE /\ since = PairRest + 1 /\ whole = {0} /\ torn = {}

-----------------------------------------------------------------------------
\* The next command comes d cycles later.
Later(d) ==
    /\ at + d <= FrameMax
    /\ at' = at + d
    /\ clock' = clock + d
    /\ UNCHANGED <<song, frames>>

\* A write to a register of the song's.
Writes(reg) == reg \in song.uses /\ writes < song.writes /\ writes' = writes + 1

-----------------------------------------------------------------------------
(* The VRC6. *)

\* Between the halves of a period there is time for the other half.
Wait(d) ==
    /\ half => since + d < PairGap
    /\ since' = IF since + d > PairRest THEN PairRest + 1 ELSE since + d
    /\ UNCHANGED <<half, whole>>

\* The chip after it was run up to a command and changed by it.
Vrc(new) ==
    /\ vrc' = new
    /\ torn' = torn \cup (new.heard \ whole)
    /\ UNCHANGED <<sun, namco>>

WriteDuty ==
    \E d \in Gaps, mode \in BOOLEAN :
        /\ Later(d) /\ Writes("duty") /\ Wait(d) /\ ~half
        /\ Vrc(SetDuty(RunVrc(vrc, at + d), song.voice, mode))

WriteSawRate ==
    \E d \in Gaps, volume \in VrcVolumes :
        /\ Later(d) /\ Writes("rate") /\ Wait(d) /\ ~half
        /\ Vrc(SetSawRate(RunVrc(vrc, at + d), volume))

\* A period is written low byte first.
BeginPeriod ==
    \E d \in Gaps, b \in PeriodBytes :
        /\ Later(d) /\ Writes("period")
        /\ ~half /\ since + d > PairRest
        /\ half' = TRUE /\ since' = 0 /\ UNCHANGED whole
        /\ Vrc(SetLow(RunVrc(vrc, at + d), song.voice, FxpTime(vrc, at + d), b))

EndPeriod ==
    \E d \in Gaps, h \in PeriodBytes, on \in BOOLEAN :
        /\ Later(d)
        /\ half /\ since + d <= PairGap
        /\ half' = FALSE /\ since' = 0
        /\ Vrc(SetHigh(RunVrc(vrc, at + d), song.voice, FxpTime(vrc, at + d), h, on))
        /\ whole' = whole \cup {vrc'.period[song.voice]}
        /\ UNCHANGED writes

-----------------------------------------------------------------------------
(* The Sunsoft 5B and the Namco 163. *)

Sun(d, reg, new) ==
    /\ Later(d) /\ Writes(reg)
    /\ sun' = new
    /\ UNCHANGED <<vrc, namco, pairs, torn>>

WriteTone ==
    \E d \in Gaps, w \in Tones, high \in BOOLEAN, v \in TonePeriods :
        Sun(d, "tone", SetTone(RunSun(sun, at + d), w, high, v))

WriteNoise == \E d \in Gaps, v \in NoisePeriods : Sun(d, "noise", SetNoise(RunSun(sun, at + d), v))

WriteMixer == \E d \in Gaps, off \in Mixers : Sun(d, "mixer", SetMixer(RunSun(sun, at + d), off))

WriteSunVolume ==
    \E d \in Gaps, w \in Tones, v \in SunVolumes, enveloped \in BOOLEAN :
        Sun(d, "volume", SetSunVolume(RunSun(sun, at + d), w, v, enveloped))

WriteEnvPeriod ==
    \E d \in Gaps, high \in BOOLEAN, v \in EnvPeriods :
        Sun(d, "envelope", SetEnvPeriod(RunSun(sun, at + d), high, v))

WriteShape == \E d \in Gaps, shape \in Shapes : Sun(d, "shape", SetShape(RunSun(sun, at + d), shape))

WriteCell ==
    \E d \in Gaps, a \in NamcoAddresses, b \in NamcoBytes :
        /\ Later(d) /\ Writes("cell")
        /\ namco' = SetCell(RunNamco(namco, at + d), a, b)
        /\ UNCHANGED <<vrc, sun, pairs, torn>>

-----------------------------------------------------------------------------
(* What every chip's loop does with the commands that are no writes. *)

\* SLAVECMD_FORCE_UPDATE: the chip is run, nothing else.
ForceUpdate ==
    \E d \in Gaps :
        /\ Later(d) /\ Wait(d) /\ UNCHANGED writes
        /\ CASE song.chip = "vrc6" -> Vrc(RunVrc(vrc, at + d))
             [] song.chip = "sun5b" -> sun' = RunSun(sun, at + d) /\ UNCHANGED <<vrc, namco, torn>>
             [] song.chip = "n163" -> namco' = RunNamco(namco, at + d) /\ UNCHANGED <<vrc, sun, torn>>

\* SLAVECMD_FRAME: the chip is run, and its time starts again.
Frame ==
    \E d \in Gaps \cup {0} :
        /\ frames < song.frames /\ at + d \in FrameMin..FrameMax
        /\ at' = 0 /\ frames' = frames + 1 /\ clock' = clock + d
        /\ Wait(d) /\ UNCHANGED <<song, writes>>
        /\ CASE song.chip = "vrc6" -> Vrc(VrcFrame(RunVrc(vrc, at + d), at + d))
             [] song.chip = "sun5b" ->
                    sun' = SunFrame(RunSun(sun, at + d), at + d) /\ UNCHANGED <<vrc, namco, torn>>
             [] song.chip = "n163" ->
                    namco' = NamcoFrame(RunNamco(namco, at + d), at + d) /\ UNCHANGED <<vrc, sun, torn>>

Next ==
    \/ WriteDuty \/ WriteSawRate \/ BeginPeriod \/ EndPeriod
    \/ WriteTone \/ WriteNoise \/ WriteMixer \/ WriteSunVolume \/ WriteEnvPeriod \/ WriteShape
    \/ WriteCell
    \/ ForceUpdate \/ Frame

Spec == Init /\ [][Next]_vars

-----------------------------------------------------------------------------
\* Steps the chip's generator has made in `clock` cycles.
SunSteps == clock \div SunCycles
NamcoSteps == IF clock = 0 THEN 0 ELSE (clock \div NamcoCycles) + 1

\* However the cycles are cut into commands and frames, the sound processor has got
\* exactly the samples that belong to them: no chip loses time by rounding, neither
\* vrc6.c with its fixed-point times nor the dividers of sun5b.c and n163.c.
SamplesOnTime ==
    /\ song.chip = "vrc6" => vrc.offs = ((clock * VrcScale) \div Sample) % VrcRing
    /\ OnTime(sun.out, SunScale, SunFull, IF song.chip = "sun5b" THEN SunSteps ELSE 0)
    /\ OnTime(namco.out, NamcoScale, NamcoFull, IF song.chip = "n163" THEN NamcoSteps ELSE 0)

\* The resampling filter always reads the samples of the moment it computes: its
\* source, advanced by an integer and a fraction with a carry of its own, is behind
\* the chip by what is left in the divider.
SourceFollows ==
    /\ WindowExact(sun.out, SunScale)
    /\ WindowExact(namco.out, NamcoScale)

\* Neither samples nor the place they are made from drift against the clock, in
\* however long a song.
Resampled == SamplesOnTime /\ SourceFollows

\* What is played is what the registers say, though the code keeps it in another
\* form that was worked out when a register was written: predicted levels of the
\* saw, stop and turn values of the envelope, decoded channels.
VoicesAsWritten == VrcAsWritten(vrc) /\ SunAsWritten(sun) /\ NamcoAsWritten(namco)

\* The saw is never heard with half of a new period (the purpose of the delays in
\* vrc6.c).
SawWhole == song.voice = "saw" => torn = {}

\* The same for the pulses (vrc6.c 25).
PulseWhole == song.voice \in Pulses => torn = {}
=============================================================================
