-------------------------------- MODULE Apu --------------------------------
(***************************************************************************)
(* The 2A03 sound unit of src/apu.c.  The code is lazy: nothing happens    *)
(* between two accesses of the 6502, and each access first catches up, on  *)
(* three separate schedules - the frame counter with the triangle's        *)
(* delayed period (update_fc_body, update_triangle_period), the DMC        *)
(* (dmc_update) and the output FIFO, which merges what falls into one      *)
(* sample (sync_apu, sync_pcm).  $4015 is read without catching up with    *)
(* the DMC unless dmc_end_timestamp, a prediction, has passed.             *)
(*                                                                         *)
(* The state of the unit is a record, its functions are operators from     *)
(* record to record.  Two records follow the same accesses: `lazy` as the  *)
(* code does, `eager` brought up to date in every cycle.  The properties   *)
(* compare them.                                                           *)
(***************************************************************************)
EXTENDS Integers, FiniteSets, Sequences

CONSTANTS
    FcPeriod,       \* frame_counter.period, in half cycles
    TriDelay,       \* 100: cycles until a new triangle period is played
    Lengths,        \* length_table
    EnvTop,         \* 0xF
    EnvPeriods,     \* envelope periods (and constant volumes) the song writes
    SweepPeriods,
    Mults, MultUnit,    \* sweep_mult_table without its signs; 0x100
    FreqLow,        \* 256: values of a period's low byte
    FreqTop,        \* 2047
    FreqMin,        \* 8: shorter periods are silent
    LowBytes, HighBits,   \* what the song writes to period registers
    LinearCounts,   \* what the song writes to $4008
    DmcPeriods,     \* dmc.period_table
    DmcLengths,     \* (start_length << 4) + 1
    DmcStarts,      \* start addresses the song writes
    AddrTop, AddrBase,    \* 0xFFFF and 0x8000: where addr_counter wraps to
    Bits,           \* 8 bits in a byte
    Rom,            \* Rom[a][i]: the i-th bit of the byte at a
    PcmTop,         \* 0x7F
    PcmLevels,      \* what the song writes to $4011
    SampleLen, Slots,     \* cycles per sample, samples in cfifo
    FrameMin, FrameMax,   \* cycles between two calls of apu_frame()
    Never,          \* (uint32)-1, a time that never comes
    MaxFrames,      \* bound of the model: frames of a song
    Songs           \* a song: the registers and channels it uses, and (a bound of
                    \* the model) how often it accesses them

Pulses == {"p0", "p1"}
Envs == Pulses \cup {"noise"}
Channels == Envs \cup {"tri"}

ASSUME ApuAssumption ==
    /\ FcPeriod \in Nat \ {0, 1} /\ TriDelay \in Nat \ {0}
    /\ Lengths \subseteq Nat \ {0} /\ EnvTop \in Nat /\ EnvPeriods \subseteq 0..EnvTop
    /\ DmcPeriods \subseteq Nat \ {0} /\ DmcLengths \subseteq Nat \ {0}
    /\ FrameMin \in Nat \ {0} /\ Never \in Nat /\ FrameMax \in FrameMin..(Never \div 2)
    /\ SampleLen \in Nat \ {0} /\ Slots \in Nat \ {0} /\ SampleLen * Slots > FrameMax

\* What registers hold: a period's two bytes fill its range, a sweep adds all or at
\* most half of the period, addresses are those of ROM.
ASSUME RegistersAssumption ==
    /\ SweepPeriods \subseteq Nat /\ LinearCounts \subseteq Nat
    /\ MultUnit \in Nat \ {0} /\ \A m \in Mults : m \in Nat /\ (m = MultUnit \/ 2 * m <= MultUnit)
    /\ FreqLow \in Nat \ {0} /\ FreqTop \in Nat /\ FreqMin \in Nat \ {0}
    /\ \E n \in 1 .. FreqTop + 1 : FreqTop + 1 = n * FreqLow /\ HighBits \subseteq 0..n - 1
    /\ LowBytes \subseteq 0..FreqLow - 1
    /\ AddrBase \in Nat /\ AddrTop \in Nat /\ AddrBase <= AddrTop /\ DmcStarts \subseteq AddrBase..AddrTop
    /\ Bits \in Nat \ {0} /\ PcmTop \in Nat /\ PcmLevels \subseteq 0..PcmTop
    /\ \E p \in DmcPeriods : \A q \in DmcPeriods : q <= p
    /\ \E l \in DmcLengths : \A k \in DmcLengths : l <= k
    /\ MaxFrames \in Nat /\ \A s \in Songs : s.accesses \in Nat

\* Times are far from their 32 bits: the longest sample, started at the end of a
\* frame, is over before Never.
ASSUME TimesAssumption ==
    \A p \in DmcPeriods, l \in DmcLengths : FrameMax + p * (l * Bits + 1) < Never

VARIABLES
    now,    \* cycles since the last apu_frame()
    lazy,   \* the unit as the code keeps it
    eager,  \* the same unit, caught up with in every cycle
    song,
    accesses,   \* how many accesses it has made
    frames      \* and how many frames it has played

vars == <<now, lazy, eager, song, accesses, frames>>

-----------------------------------------------------------------------------
(* apu_init() and apu_power(). *)

PowerOn ==
    [on |-> {}, enable |-> {}, len |-> [c \in Channels |-> 0],
     env |-> [e \in Envs |-> [period |-> 0, divider |-> 0, level |-> 0,
                              const |-> FALSE, loop |-> FALSE, reload |-> FALSE]],
     sweep |-> [p \in Pulses |-> [period |-> 0, divider |-> 0, on |-> FALSE,
                                  neg |-> FALSE, mult |-> MultUnit, reload |-> FALSE]],
     tri |-> [period |-> 0, halt |-> FALSE, count |-> 0, ll |-> 0,
              reload |-> FALSE, delay |-> 0, since |-> 0],
     fc |-> [next |-> 0, divider |-> 1, seq |-> 0, five |-> FALSE, quiet |-> FALSE],
     dmc |-> [next |-> Never, end |-> Never, bit |-> 0, bytes |-> 0, addr |-> AddrBase,
              cur |-> AddrBase, loop |-> FALSE, irq |-> FALSE,
              period |-> CHOOSE p \in DmcPeriods : \A q \in DmcPeriods : q <= p,
              start |-> AddrBase, length |-> CHOOSE l \in DmcLengths : \A k \in DmcLengths : l <= k,
              pcm |-> 0],
     \* stuff.fifo_cache: what each channel would play; volumes beside periods
     freq |-> [p \in Pulses |-> 0], triFreq |-> 0, vol |-> [e \in Envs |-> 0],
     \* stuff.fifo_pending, fifo_pending_sample_time, cfifo_pending
     fifo |-> [pending |-> [c \in Channels |-> <<0, 0>>], sample |-> 0, carry |-> {},
               last |-> <<>>],   \* the entry written last, with its sample
     out |-> [sample |-> 0, delta |-> 0],    \* prev_pcm_sample_time, prev_pcm_delta
     offs |-> 0,
     \* the debug timestamps of sync_apu() and sync_pcm(), and the lines whose
     \* assert failed
     synced |-> 0, pcmSynced |-> 0, failed |-> {},
     \* for the properties: the sum of the deltas in closed slots of cfifo, the
     \* phase resets a song asked for and cfifo does not hold yet, and whether
     \* the DMC was given another rate while it drained after a stop
     sum |-> 0, owed |-> {}, slowed |-> FALSE]

-----------------------------------------------------------------------------
(* The output: one entry per sample. *)

\* An assert of the code that does not hold ends the program.
Check(s, ok, line) == IF ok THEN s ELSE [s EXCEPT !.failed = @ \cup {line}]

SampleTime(s, t) == ((t + s.offs) \div SampleLen) % Slots

\* What is added to a period by a sweep, (period * sweep_mult) >> 8.
SweepDelta(f, mult) == (f * mult) \div MultUnit

\* w and x of sync_apu(): silent when off, too short, or swept beyond the top.
Pulse(s, p) ==
    IF \/ p \notin s.on
       \/ s.freq[p] < FreqMin
       \/ ~s.sweep[p].neg /\ s.freq[p] + SweepDelta(s.freq[p], s.sweep[p].mult) > FreqTop
    THEN <<0, 0>> ELSE <<s.freq[p], s.vol[p]>>

Mix(s) ==
    [c \in Channels |->
        CASE c \in Pulses -> Pulse(s, c)
          [] c = "tri" -> <<s.triFreq, 0>>
          [] OTHER -> <<0, IF "noise" \in s.on THEN s.vol["noise"] ELSE 0>>]

\* sync_apu(): closes the entry of an earlier sample, then renews the pending one.
SyncApu(s0, t) ==
    LET s == Check(s0, t >= s0.synced, 221)
        sample == SampleTime(s, t)
        flushed == IF sample = s.fifo.sample THEN s
                   ELSE [s EXCEPT !.owed = @ \ {<<p, s.fifo.sample>> : p \in s.fifo.carry},
                                  !.fifo.carry = {}, !.fifo.sample = sample,
                                  !.fifo.last = <<s.fifo.sample, s.fifo.pending>>]
    IN [flushed EXCEPT !.fifo.pending = Mix(s), !.synced = t]

\* PCM levels and their differences are kept in bytes.
PcmMod == 2 * (PcmTop + 1)

\* Mutant: two changes in one sample overwrite each other.
SyncPcmOverwrites(s, t, pcm) ==
    LET sample == SampleTime(s, t)
    IN [s EXCEPT !.out = [sample |-> sample, delta |-> (pcm - s.dmc.pcm + 2 * (PcmTop + 1)) % (2 * (PcmTop + 1))],
                 !.sum = IF sample = s.out.sample THEN @
                         ELSE (@ + s.out.delta) % (2 * (PcmTop + 1)),
                 !.dmc.pcm = pcm, !.pcmSynced = t]

\* sync_pcm(): the difference to the last level goes into the sample's slot,
\* added to what the slot already holds.
SyncPcm(s0, t, pcm) ==
    LET s == Check(s0, t >= s0.pcmSynced, 510)
        sample == SampleTime(s, t)
        same == sample = s.out.sample
        step == pcm - s.dmc.pcm + PcmMod
    IN [s EXCEPT !.out = [sample |-> sample,
                          delta |-> (IF same THEN step + @.delta ELSE step) % PcmMod],
                 !.sum = IF same THEN @ ELSE (@ + s.out.delta) % PcmMod,
                 !.dmc.pcm = pcm, !.pcmSynced = t]

-----------------------------------------------------------------------------
(* The frame counter. *)

\* update_fifocache_volume()
CacheVolume(s, e) ==
    [s EXCEPT !.vol[e] = IF s.env[e].const THEN s.env[e].period ELSE s.env[e].level]

\* Mutant: a level at zero is counted down too.
ClockEnvelopeBelow(v) ==
    CASE v.reload -> [v EXCEPT !.level = EnvTop, !.divider = v.period, !.reload = FALSE]
      [] ~v.reload /\ v.divider > 0 -> [v EXCEPT !.divider = @ - 1]
      [] OTHER -> [v EXCEPT !.divider = v.period, !.level = @ - 1]

ClockEnvelope(v) ==
    CASE v.reload -> [v EXCEPT !.level = EnvTop, !.divider = v.period, !.reload = FALSE]
      [] ~v.reload /\ v.divider > 0 -> [v EXCEPT !.divider = @ - 1]
      [] OTHER -> [v EXCEPT !.divider = v.period,
                            !.level = IF @ > 0 THEN @ - 1 ELSE IF v.loop THEN EnvTop ELSE 0]

ClockEnvelopes(s) ==
    LET env == [e \in Envs |-> ClockEnvelope(s.env[e])]
    IN [s EXCEPT !.env = env,
                 !.vol = [e \in Envs |-> IF env[e].const THEN env[e].period ELSE env[e].level]]

ClockLinear(s) ==
    LET v == s.tri
        ll == IF v.reload THEN v.count ELSE IF v.ll > 0 THEN v.ll - 1 ELSE 0
    IN [s EXCEPT !.tri.ll = ll,
                 !.tri.delay = IF (v.ll = 0) # (ll = 0) THEN TriDelay ELSE @,
                 !.tri.reload = IF v.halt THEN @ ELSE FALSE]

\* A length counter stands still while its channel's loop (halt) bit is set.
Halted(s, c) == IF c = "tri" THEN s.tri.halt ELSE s.env[c].loop

\* Mutant: the triangle is not told that its length counter has ended.
ClockLengthsSilently(s) ==
    LET counts == {c \in Channels : ~Halted(s, c) /\ s.len[c] > 0}
    IN [s EXCEPT !.len = [c \in Channels |-> IF c \in counts THEN @[c] - 1 ELSE @[c]],
                 !.on = {c \in @ : c \in counts => s.len[c] > 1}]

ClockLengths(s) ==
    LET counts == {c \in Channels : ~Halted(s, c) /\ s.len[c] > 0}
        ends == {c \in counts : s.len[c] = 1}
    IN [s EXCEPT !.len = [c \in Channels |-> IF c \in counts THEN @[c] - 1 ELSE @[c]],
                 !.on = @ \ ends,
                 !.tri.delay = IF "tri" \in ends THEN TriDelay ELSE @]

\* The new period of a sweep that is due; pulse 0 subtracts one more.
Swept(s, p) ==
    LET f == s.freq[p]
        delta == SweepDelta(f, s.sweep[p].mult)
    IN IF ~s.sweep[p].on \/ f < FreqMin THEN f
       ELSE IF s.sweep[p].neg THEN f - delta - (IF p = "p0" THEN 1 ELSE 0)
       ELSE IF f + delta <= FreqTop THEN f + delta ELSE f

ClockSweeps(s) ==
    LET due(p) == s.sweep[p].divider = 0
    IN [s EXCEPT
          !.freq = [p \in Pulses |-> IF due(p) THEN Swept(s, p) ELSE @[p]],
          !.sweep = [p \in Pulses |->
              [s.sweep[p] EXCEPT !.divider = IF due(p) \/ s.sweep[p].reload
                                             THEN s.sweep[p].period ELSE @ - 1,
                                 !.reload = FALSE]]]

\* `frame_counter.divider += period; fc_next_timestamp += divider >> 1; divider &= 1`
AddPeriod(fc) ==
    [fc EXCEPT !.next = @ + (fc.divider + FcPeriod) \div 2,
               !.divider = (@ + FcPeriod) % 2]

\* clock_fc_sequencer()
ClockSequencer(s, t) ==
    LET quarter == ClockLinear(ClockEnvelopes(s))
        half == IF s.fc.seq % 2 = 0 THEN ClockSweeps(ClockLengths(quarter)) ELSE quarter
        last == s.fc.seq = 3
        irq == last /\ ~s.fc.five /\ ~s.fc.quiet
        fc == IF last /\ s.fc.five THEN AddPeriod(half.fc) ELSE half.fc
    IN SyncApu([half EXCEPT !.on = IF irq THEN @ \cup {"fcirq"} ELSE @,
                            !.fc = [fc EXCEPT !.seq = (@ + 1) % 4]], t)

\* Mutant: the period takes effect when it is noticed, not when it was due.
UpdateTriangleLate(s, t) ==
    LET delay == s.tri.delay - (t - s.tri.since)
        heard == "tri" \in s.on /\ s.tri.ll > 0
        passed == [s EXCEPT !.tri.delay = delay, !.tri.since = t]
    IN IF s.tri.delay <= 0 THEN [s EXCEPT !.tri.since = t]
       ELSE IF delay > 0 THEN passed
       ELSE SyncApu([passed EXCEPT !.triFreq = IF heard THEN s.tri.period ELSE 0], t)

\* update_triangle_period(): a period written some time ago takes effect, at the
\* moment it was due.
UpdateTriangle(s0, t) ==
    LET s == Check(s0, t >= s0.tri.since, 460)
        delay == s.tri.delay - (t - s.tri.since)
        heard == "tri" \in s.on /\ s.tri.ll > 0
        passed == [s EXCEPT !.tri.delay = delay]
    IN [IF s.tri.delay <= 0 THEN s
        ELSE IF delay > 0 THEN passed
        ELSE SyncApu([passed EXCEPT !.triFreq = IF heard THEN s.tri.period ELSE 0], t + delay)
        EXCEPT !.tri.since = t]

\* The do-while loop of update_fc_body().
ClockDue(s) ==
    LET clocked == ClockSequencer(UpdateTriangle(s, s.fc.next), s.fc.next)
    IN [clocked EXCEPT !.fc = AddPeriod(@)]

UpdateFc(s, t) ==
    LET rounds == t - s.fc.next + 1   \* enough, as each takes a cycle at least
        F[n \in 0..rounds] ==
            IF n = 0 THEN s
            ELSE LET r == F[n - 1] IN IF t >= r.fc.next THEN ClockDue(r) ELSE r
    IN IF t >= s.fc.next THEN UpdateTriangle(F[rounds], t) ELSE s

-----------------------------------------------------------------------------
(* The DMC.  dmc.next is next_timestamp and, in the loop, its copy dnts. *)

\* Mutant: the bits that are left of the present byte are forgotten.
RecalcEndBytes(s) ==
    IF s.dmc.next = Never \/ s.dmc.bytes = 0 THEN s
    ELSE [s EXCEPT !.dmc.end = s.dmc.next + (s.dmc.bytes - 1) * Bits * s.dmc.period,
                   !.slowed = FALSE]

\* recalc_dmc_end_timestamp()
RecalcEnd(s) ==
    IF s.dmc.next = Never \/ s.dmc.bytes = 0 THEN s
    ELSE [s EXCEPT !.dmc.end = s.dmc.next + ((s.dmc.bytes - 1) * Bits + s.dmc.bit) * s.dmc.period,
                   !.slowed = FALSE]

\* dmc_start()
DmcStart(s, t) ==
    RecalcEnd([s EXCEPT !.dmc.addr = s.dmc.start, !.dmc.bytes = s.dmc.length,
                        !.dmc.next = IF @ = Never THEN t + s.dmc.period \div 2 ELSE @])

\* The last byte of a sample that does not loop has been fetched at t.
DmcEnded(s0, t) ==
    LET s == Check(s0, s0.dmc.end = t, 586)
    IN [s EXCEPT !.on = (@ \ {"dmc"}) \cup (IF s.dmc.irq THEN {"dmcirq"} ELSE {}),
                 !.dmc.end = Never]

Fetch(s, t) ==
    LET fetched == [s EXCEPT !.dmc.cur = s.dmc.addr,
                             !.dmc.addr = IF @ = AddrTop THEN AddrBase ELSE @ + 1,
                             !.dmc.bytes = @ - 1, !.dmc.bit = Bits]
    IN IF fetched.dmc.bytes > 0 THEN fetched
       ELSE IF s.dmc.loop THEN DmcStart(fetched, t) ELSE DmcEnded(fetched, t)

\* One bit goes to the level, unless that would leave its range.
Shift(s, t) ==
    LET level == s.dmc.pcm + (IF Rom[s.dmc.cur][Bits - s.dmc.bit + 1] = 1 THEN 1 ELSE -1)
        heard == IF level \in 0..PcmTop THEN SyncPcm(s, t, level) ELSE s
    IN [heard EXCEPT !.dmc.bit = @ - 1]

\* A round of the loop of dmc_update_body().
DmcDue(s) ==
    LET t == s.dmc.next
        d == [s EXCEPT !.dmc.next = @ + s.dmc.period]
    IN IF d.dmc.bit > 0 THEN Shift(d, t)
       ELSE IF d.dmc.bytes > 0 THEN Shift(Fetch(d, t), t)
       ELSE IF d.dmc.loop /\ "dmc" \in d.enable THEN Shift(Fetch(DmcStart(d, t), t), t)
       ELSE [d EXCEPT !.dmc.next = Never, !.dmc.end = Never, !.slowed = FALSE]

UpdateDmc(s, t) ==
    LET rounds == t - s.dmc.next + 1
        F[n \in 0..rounds] ==
            IF n = 0 THEN s
            ELSE LET r == F[n - 1] IN IF t >= r.dmc.next THEN DmcDue(r) ELSE r
    IN IF t >= s.dmc.next THEN F[rounds] ELSE s

-----------------------------------------------------------------------------
(* What the program calls.  Each operator is the state after the call at t. *)

\* What apu_write() does before it looks at the address.
CatchUp(s, t) == UpdateTriangle(UpdateFc(s, t), t)

\* $4000, $4004, $400C
SetVolume(s, t, e, period, const, loop) ==
    LET env == [s.env[e] EXCEPT !.period = period, !.const = const, !.loop = loop]
    IN SyncApu(CacheVolume([s EXCEPT !.env[e] = env], e), t)

\* $4001, $4005
SetSweep(s, t, p, period, enable, neg, mult) ==
    LET sweep == [s.sweep[p] EXCEPT !.period = period, !.on = enable /\ mult < MultUnit,
                                    !.neg = neg, !.mult = mult, !.reload = TRUE]
    IN SyncApu([s EXCEPT !.sweep[p] = sweep], t)

\* $4002, $4006
SetLow(s, t, p, v) ==
    SyncApu([s EXCEPT !.freq[p] = (@ \div FreqLow) * FreqLow + v], t)

\* Writes to $4003, $4007, $400B and $400F load the length counter of a channel
\* that is enabled.
LoadLength(s, c, length) ==
    IF c \in s.enable THEN [s EXCEPT !.len[c] = length, !.on = @ \cup {c}] ELSE s

\* $4003, $4007: the phase reset belongs to the sample of this write.
SetHigh(s, t, p, v, length) ==
    LET low == [s EXCEPT !.freq[p] = (@ % FreqLow) + v * FreqLow]
        loaded == SyncApu([LoadLength(low, p, length) EXCEPT !.env[p].reload = TRUE], t)
    IN [loaded EXCEPT !.fifo.carry = @ \cup {p},
                      !.owed = @ \cup {<<p, SampleTime(s, t)>>}]

\* $4008
SetLinear(s, halt, count) == [s EXCEPT !.tri.halt = halt, !.tri.count = count]

\* $400A, $400B
SetTriLow(s, v) ==
    [s EXCEPT !.tri.period = (@ \div FreqLow) * FreqLow + v, !.tri.delay = TriDelay]

SetTriHigh(s, v, length) ==
    [LoadLength(s, "tri", length) EXCEPT
        !.tri.period = (@ % FreqLow) + v * FreqLow,
        !.tri.delay = TriDelay, !.tri.reload = TRUE]

\* $400F
SetNoiseLength(s, t, length) ==
    SyncApu([LoadLength(s, "noise", length) EXCEPT !.env["noise"].reload = TRUE], t)

\* $4010.  `slowed`: another rate, while a prediction is left of a sample that
\* was stopped.
SetRate(s0, t, period, loop, irq) ==
    LET s == UpdateDmc(s0, t)
    IN RecalcEnd([s EXCEPT !.dmc.period = period, !.dmc.loop = loop, !.dmc.irq = irq,
                           !.on = IF irq /\ ~loop THEN @ ELSE @ \ {"dmcirq"},
                           !.slowed = @ \/ /\ s.dmc.bytes = 0 /\ s.dmc.end # Never
                                           /\ period # s.dmc.period])

\* $4011, $4012, $4013
SetLevel(s, t, level) == SyncPcm(UpdateDmc(s, t), t, level)
SetStart(s, t, start) == [UpdateDmc(s, t) EXCEPT !.dmc.start = start]
SetLength(s, t, length) == [UpdateDmc(s, t) EXCEPT !.dmc.length = length]

\* Mutant: the output learns of a channel switched off at the next access.
SetEnableUnsynced(s0, t, enable) ==
    LET s == UpdateDmc(s0, t)
        cut == [s EXCEPT !.len = [c \in Channels |-> IF c \in enable THEN @[c] ELSE 0],
                         !.tri.delay = IF "tri" \notin enable /\ s.len["tri"] > 0
                                       THEN TriDelay ELSE @,
                         !.enable = enable]
        dmc == IF "dmc" \notin enable THEN [cut EXCEPT !.dmc.bytes = 0]
               ELSE IF cut.dmc.bytes = 0 THEN DmcStart(cut, t) ELSE cut
        on == IF "dmc" \in enable THEN dmc.on \cup {"dmc"} ELSE dmc.on
    IN [dmc EXCEPT !.on = on \cap ({"fcirq"} \cup enable)]

\* $4015
SetEnable(s0, t, enable) ==
    LET s == UpdateDmc(s0, t)
        cut == [s EXCEPT !.len = [c \in Channels |-> IF c \in enable THEN @[c] ELSE 0],
                         !.tri.delay = IF "tri" \notin enable /\ s.len["tri"] > 0
                                       THEN TriDelay ELSE @,
                         !.enable = enable]
        dmc == IF "dmc" \notin enable THEN [cut EXCEPT !.dmc.bytes = 0]
               ELSE IF cut.dmc.bytes = 0 THEN DmcStart(cut, t) ELSE cut
        on == IF "dmc" \in enable THEN dmc.on \cup {"dmc"} ELSE dmc.on
    IN SyncApu([dmc EXCEPT !.on = on \cap ({"fcirq"} \cup enable)], t)

\* $4017
SetSequencer(s, t, five, quiet) ==
    LET reset == [s EXCEPT !.fc.seq = 0]
        clocked == IF five THEN ClockSequencer(reset, t) ELSE reset
    IN [clocked EXCEPT !.fc = [next |-> t + (FcPeriod + 1) \div 2,
                               divider |-> (FcPeriod + 1) % 2,
                               seq |-> @.seq, five |-> five, quiet |-> quiet]]

\* Mutant: the end of a sample is noticed a cycle late.
BeforeReadAfterEnd(s, t) ==
    LET clocked == UpdateFc(s, t)
    IN IF t > clocked.dmc.end THEN UpdateDmc(clocked, t) ELSE clocked

\* $4015: what apu_read_4015() (and its fast path in s6502.S) catches up with
\* before it returns the status and clears the frame interrupt.
BeforeRead(s, t) ==
    LET clocked == UpdateFc(s, t)
    IN IF t >= clocked.dmc.end THEN UpdateDmc(clocked, t) ELSE clocked

AfterRead(s, t) == [BeforeRead(s, t) EXCEPT !.on = @ \ {"fcirq"}]

\* apu_force_update()
ForceUpdate(s, t) ==
    LET dmc == UpdateDmc(CatchUp(s, t), t)
    IN SyncApu(SyncPcm(dmc, t, dmc.dmc.pcm), t)

\* What apu_frame() asserts before it moves each time.
Inspected(s0, t) ==
    LET s1 == Check(s0, s0.fc.next >= t, 992)
        s2 == Check(s1, s1.tri.since >= t, 995)
        s3 == Check(s2, s2.dmc.next # Never => s2.dmc.next >= t, 1000)
        s4 == Check(s3, s3.dmc.end # Never => s3.dmc.next # Never, 1006)
    IN Check(s4, s4.dmc.end # Never => s4.dmc.end >= t, 1007)

\* apu_frame(): time starts again from zero.  The wait for the sound processor
\* changes nothing here.
Rebase(s0, t) ==
    LET s == Inspected(s0, t)
        sooner(x) == IF x = Never THEN Never ELSE x - t
    IN [s EXCEPT !.offs = (@ + t) % (SampleLen * Slots),
                 !.fc.next = @ - t, !.tri.since = @ - t,
                 !.dmc.next = sooner(@), !.dmc.end = sooner(@),
                 !.synced = @ - t, !.pcmSynced = @ - t]

-----------------------------------------------------------------------------
(* Every access takes a cycle of the 6502; `eager` then catches up at once. *)

Running == lazy.failed = {} /\ eager.failed = {}

Prompt(s, t) == UpdateDmc(CatchUp(s, t), t)

\* Op is the effect of the access of this cycle.
Cycle(Op(_)) ==
    /\ Running
    /\ now < FrameMax
    /\ now' = now + 1
    /\ lazy' = Op(lazy)
    /\ eager' = Prompt(Op(eager), now + 1)
    /\ UNCHANGED <<song, frames>>

Idle == Cycle(LAMBDA s : s) /\ UNCHANGED accesses

Access(Op(_)) ==
    /\ accesses < song.accesses
    /\ accesses' = accesses + 1
    /\ Cycle(Op)

\* A write of the 6502, Op being what the register's case does.
Write(register, Op(_)) ==
    /\ register \in song.uses
    /\ Access(LAMBDA s : Op(CatchUp(s, now)))

WriteVolume ==
    \E e \in Envs \cap song.uses, period \in EnvPeriods, const, loop \in BOOLEAN :
        Write("volume", LAMBDA s : SetVolume(s, now, e, period, const, loop))

WriteSweep ==
    \E p \in Pulses \cap song.uses, period \in SweepPeriods, enable, neg \in BOOLEAN, mult \in Mults :
        Write("sweep", LAMBDA s : SetSweep(s, now, p, period, enable, neg, mult))

WriteLow ==
    \E p \in Pulses \cap song.uses, v \in LowBytes : Write("low", LAMBDA s : SetLow(s, now, p, v))

WriteHigh ==
    \E p \in Pulses \cap song.uses, v \in HighBits, length \in Lengths :
        Write("high", LAMBDA s : SetHigh(s, now, p, v, length))

WriteLinear ==
    \E halt \in BOOLEAN, count \in LinearCounts :
        Write("linear", LAMBDA s : SetLinear(s, halt, count))

WriteTriLow == \E v \in LowBytes : Write("trilow", LAMBDA s : SetTriLow(s, v))

WriteTriHigh ==
    \E v \in HighBits, length \in Lengths :
        Write("trihigh", LAMBDA s : SetTriHigh(s, v, length))

WriteNoiseLength ==
    \E length \in Lengths : Write("noiselength", LAMBDA s : SetNoiseLength(s, now, length))

WriteRate ==
    \E period \in DmcPeriods, loop, irq \in BOOLEAN :
        Write("rate", LAMBDA s : SetRate(s, now, period, loop, irq))

WriteLevel == \E level \in PcmLevels : Write("level", LAMBDA s : SetLevel(s, now, level))

WriteStart == \E start \in DmcStarts : Write("start", LAMBDA s : SetStart(s, now, start))

WriteLength ==
    \E length \in DmcLengths : Write("length", LAMBDA s : SetLength(s, now, length))

WriteEnable ==
    \E enable \in SUBSET ((Channels \cup {"dmc"}) \cap song.uses) :
        Write("enable", LAMBDA s : SetEnable(s, now, enable))

WriteSequencer ==
    \E five, quiet \in BOOLEAN :
        Write("sequencer", LAMBDA s : SetSequencer(s, now, five, quiet))

ReadStatus == Access(LAMBDA s : AfterRead(s, now))

\* The first of the two halves of a frame ends with apu_force_update().
HalfFrame ==
    /\ Running
    /\ now = FrameMin \div 2
    /\ lazy' = ForceUpdate(lazy, now)
    /\ eager' = ForceUpdate(eager, now)
    /\ UNCHANGED <<now, song, accesses, frames>>

EndFrame ==
    /\ Running
    /\ now >= FrameMin
    /\ frames < MaxFrames
    /\ now' = 0
    /\ frames' = frames + 1
    /\ lazy' = Rebase(ForceUpdate(lazy, now), now)
    /\ eager' = Rebase(ForceUpdate(eager, now), now)
    /\ UNCHANGED <<song, accesses>>

\* emu_init() for another song.
NewSong ==
    /\ Running
    /\ now = 0
    /\ lazy' = PowerOn
    /\ eager' = Prompt(PowerOn, 0)
    /\ song' \in Songs
    /\ accesses' = 0
    /\ frames' = 0
    /\ UNCHANGED now

Init ==
    /\ now = 0
    /\ lazy = PowerOn
    /\ eager = Prompt(PowerOn, 0)
    /\ song \in Songs
    /\ accesses = 0
    /\ frames = 0

Next ==
    \/ Idle \/ ReadStatus \/ HalfFrame \/ EndFrame \/ NewSong
    \/ WriteVolume \/ WriteSweep \/ WriteLow \/ WriteHigh
    \/ WriteLinear \/ WriteTriLow \/ WriteTriHigh \/ WriteNoiseLength
    \/ WriteRate \/ WriteLevel \/ WriteStart \/ WriteLength
    \/ WriteEnable \/ WriteSequencer

Spec == Init /\ [][Next]_vars

-----------------------------------------------------------------------------
(* Properties. *)

UpTo(S) == UNION {0..n : n \in S \cup {0}}

\* Every field of a unit in the range its register gives it.
EnvUnits == [period : 0..EnvTop, divider : 0..EnvTop, level : 0..EnvTop,
             const : BOOLEAN, loop : BOOLEAN, reload : BOOLEAN]
SweepUnits == [period : Nat, divider : Nat, on : BOOLEAN, neg : BOOLEAN,
               mult : 0..MultUnit, reload : BOOLEAN]
TriUnits == [period : 0..FreqTop, halt : BOOLEAN, count : Nat, ll : Nat, reload : BOOLEAN,
             delay : Int, since : Int]
FcUnits == [next : Int, divider : {0, 1}, seq : 0..3, five : BOOLEAN, quiet : BOOLEAN]
DmcUnits == [next : Int, end : Int, bit : 0..Bits, bytes : UpTo(DmcLengths),
             addr : AddrBase..AddrTop, cur : AddrBase..AddrTop, loop : BOOLEAN, irq : BOOLEAN,
             period : DmcPeriods, start : AddrBase..AddrTop, length : DmcLengths, pcm : 0..PcmTop]
Sounds == [Channels -> (0..FreqTop) \X (0..EnvTop)]
Samples == 0 .. Slots - 1
FifoUnits == [pending : Sounds, sample : Samples, carry : SUBSET Pulses,
              last : {<<>>} \cup (Samples \X Sounds)]
OutUnits == [sample : Samples, delta : 0 .. PcmMod - 1]

Units ==
    [on : SUBSET (Channels \cup {"dmc", "fcirq", "dmcirq"}), enable : SUBSET (Channels \cup {"dmc"}),
     len : [Channels -> UpTo(Lengths)],
     env : [Envs -> EnvUnits], sweep : [Pulses -> SweepUnits], tri : TriUnits, fc : FcUnits,
     dmc : DmcUnits, freq : [Pulses -> 0..FreqTop], triFreq : 0..FreqTop, vol : [Envs -> 0..EnvTop],
     fifo : FifoUnits, out : OutUnits,
     offs : 0 .. SampleLen * Slots - 1, synced : Int, pcmSynced : Int, failed : SUBSET Nat,
     sum : 0 .. PcmMod - 1, owed : SUBSET (Pulses \X Samples), slowed : BOOLEAN]

TypeOK ==
    /\ now \in 0..FrameMax /\ frames \in 0..MaxFrames
    /\ song \in Songs /\ accesses \in 0..song.accesses
    /\ lazy \in Units /\ eager \in Units

\* None of the asserts of apu.c (221, 460, 510 and 586 with APU_DEBUG; 992 to 1007
\* always) fails: the lazy schedules never run backwards, the end of a sample is the
\* predicted one, and at the end of a frame every schedule lies ahead.  The one
\* exception is the rate that changes while a stopped sample drains.
AssertsHold == lazy.failed # {} => lazy.slowed

\* What a read of $4015 would return now is the status of a unit that was never
\* behind: skipping dmc_update() before dmc_end_timestamp loses nothing.
StatusIsPrompt == Running => BeforeRead(lazy, now).on = eager.on

\* An expired delay of the triangle is left at some value below 1.
Settled(s) == [s EXCEPT !.tri.delay = IF @ > 0 THEN @ ELSE 0]

\* Being lazy is unobservable: brought up to date, the unit is in every part, its
\* output included, what it would be had it been kept up to date.
LazyIsExact ==
    Running => Settled(ForceUpdate(lazy, now)) = Settled(ForceUpdate(eager, now))

\* The status bits of $4015 and the length counters, changed at separate places, say
\* the same of every channel; a channel that is not enabled is silent.
LengthsAndStatus(s) ==
    \A c \in Channels : /\ c \in s.on <=> s.len[c] > 0
                        /\ c \in s.on => c \in s.enable

\* Once its delay has passed the triangle plays the period last written if both its
\* counters run, and stands still if not: each change of either is followed by
\* another delay.
TriangleSettled(s) ==
    s.tri.delay <= 0 =>
        s.triFreq = IF s.len["tri"] > 0 /\ s.tri.ll > 0 THEN s.tri.period ELSE 0

\* What hangs on the length counters - status, enabled channels, the triangle - is
\* never out of step with them.
CountersAgree == LengthsAndStatus(lazy) /\ TriangleSettled(lazy)

\* What each channel should give, from envelopes and length counters.
Volume(s, e) == IF s.env[e].const THEN s.env[e].period ELSE s.env[e].level

Sound(s) ==
    [c \in Channels |->
        IF c = "tri" THEN <<s.triFreq, 0>>
        ELSE IF s.len[c] = 0 THEN <<0, 0>>
        ELSE IF c = "noise" THEN <<0, Volume(s, c)>>
        ELSE IF s.freq[c] < FreqMin THEN <<0, 0>>
        ELSE IF ~s.sweep[c].neg /\ s.freq[c] + SweepDelta(s.freq[c], s.sweep[c].mult) > FreqTop
        THEN <<0, 0>> ELSE <<s.freq[c], Volume(s, c)>>]

\* The entry of the output FIFO under construction, made of cached copies of the
\* registers, is never behind them, whichever access or clock changed them.
FifoCurrent == lazy.fifo.pending = Sound(lazy)

\* The sound processor adds up the deltas of the slots of cfifo: their sum is always
\* the DMC's level, also when several changes fall into one sample.
DeltasAddUp(s) == (s.sum + s.out.delta) % PcmMod = s.dmc.pcm

\* A phase reset reaches the slot of the sample in which $4003 or $4007 was written,
\* neither an earlier nor a later one ("AFTER sync_apu()").
ResetsInPlace(s) == s.owed = {<<p, s.fifo.sample>> : p \in s.fifo.carry}

\* What only the slots of cfifo hold - differences and phase resets - is neither
\* lost, doubled nor put into another sample.
SlotsExact == DeltasAddUp(lazy) /\ ResetsInPlace(lazy)

\* The assert of apu.c 1007 alone: dmc_end_timestamp is not passed at the end of a
\* frame.
EndIsAhead == 1007 \notin lazy.failed
=============================================================================
