------------------------------ MODULE ApuProofs ------------------------------
(***************************************************************************)
(* What is proved of Apu, for every value of its constants: the types, and *)
(* the three invariants about copies the code keeps beside what they are   *)
(* copies of (CountersAgree, FifoCurrent, SlotsExact).  The inductive      *)
(* invariant says the same of both units, and what they rest on: the       *)
(* cached volumes are those of the envelopes, and a sweep that is on never *)
(* adds more than half of the period.  Most operators keep a unit "Good";  *)
(* the parts of clock_fc_sequencer() only keep it "Base" until its last    *)
(* call, sync_apu(), renews the pending entry.                             *)
(*                                                                         *)
(* Then AssertsHold, by a second invariant, Kept: while no assert has      *)
(* failed a unit is Timely (the frame counter's schedules in order, the    *)
(* DMC's predicted end in agreement with its rounds), and one has failed   *)
(* only after the rate changed while a stopped sample drained.             *)
(*                                                                         *)
(* Then what being lazy may not show, StatusIsPrompt and LazyIsExact, by a *)
(* third invariant, Twins: brought up to date, the frame counter's part of *)
(* the two units is alike, and so is the DMC's.  The lemmas behind it say  *)
(* of every call that it makes alike units alike, that it concerns one of  *)
(* the parts only, and that catching up twice is as good as once.          *)
(***************************************************************************)
EXTENDS Apu, NatFacts

\* stuff.fifo_cache holds the volume an envelope gives.
Cached(s) == \A e \in Envs : s.vol[e] = Volume(s, e)

\* SetSweep() leaves a sweep on only with a shift.
SweepsFit(s) == \A p \in Pulses : s.sweep[p].on => 2 * s.sweep[p].mult <= MultUnit

Current(s) == s.fifo.pending = Sound(s)

Base(s) ==
    /\ s \in Units
    /\ LengthsAndStatus(s)
    /\ TriangleSettled(s)
    /\ DeltasAddUp(s)
    /\ ResetsInPlace(s)
    /\ Cached(s)
    /\ SweepsFit(s)

Good(s) == Base(s) /\ Current(s)

-----------------------------------------------------------------------------
(* A unit is a record of twenty fields: an EXCEPT of one is in Units if    *)
(* its fields are in their ranges.                                         *)

Fields(r) ==
    /\ r.on \in SUBSET (Channels \cup {"dmc", "fcirq", "dmcirq"})
    /\ r.enable \in SUBSET (Channels \cup {"dmc"})
    /\ r.len \in [Channels -> UpTo(Lengths)]
    /\ r.env \in [Envs -> EnvUnits] /\ r.sweep \in [Pulses -> SweepUnits]
    /\ r.tri \in TriUnits /\ r.fc \in FcUnits /\ r.dmc \in DmcUnits
    /\ r.freq \in [Pulses -> 0..FreqTop] /\ r.triFreq \in 0..FreqTop
    /\ r.vol \in [Envs -> 0..EnvTop] /\ r.fifo \in FifoUnits /\ r.out \in OutUnits
    /\ r.offs \in 0 .. SampleLen * Slots - 1 /\ r.synced \in Int /\ r.pcmSynced \in Int
    /\ r.failed \in SUBSET Nat /\ r.sum \in 0 .. PcmMod - 1
    /\ r.owed \in SUBSET (Pulses \X Samples) /\ r.slowed \in BOOLEAN

Names == {"on", "enable", "len", "env", "sweep", "tri", "fc", "dmc", "freq", "triFreq",
          "vol", "fifo", "out", "offs", "synced", "pcmSynced", "failed", "sum", "owed", "slowed"}

Like(r, s) == DOMAIN r = DOMAIN s /\ r = [x \in DOMAIN r |-> r[x]]

\* Only the fields in S have changed.
Keeps(r, s, S) == \A x \in Names \ S : r[x] = s[x]

LEMMA NeverIsTime == Never \in Nat /\ Never \in Int
BY ApuAssumption

LEMMA UnitFields ==
    ASSUME NEW s \in Units
    PROVE  Fields(s)
BY DEF Units, Fields

LEMMA UnitNames ==
    ASSUME NEW s \in Units
    PROVE  \A x \in Names : x \in DOMAIN s
BY DEF Units, Names

LEMMA UnitIntro ==
    ASSUME NEW s \in Units, NEW r, Like(r, s), Fields(r)
    PROVE  r \in Units
BY DEF Like, Fields, Units

LEMMA Unpack ==
    ASSUME NEW s, Base(s)
    PROVE  s \in Units /\ Fields(s) /\ \A x \in Names : x \in DOMAIN s
BY UnitFields, UnitNames DEF Base

\* What the invariants do not look at.
LEMMA AsideGood ==
    ASSUME NEW s, Base(s), NEW r \in Units,
           Keeps(r, s, {"on", "fc", "dmc", "offs", "synced", "pcmSynced", "failed", "slowed"}),
           r.on \cap Channels = s.on \cap Channels, r.dmc.pcm = s.dmc.pcm
    PROVE  Base(r) /\ (Good(s) => Good(r))
<1>1. /\ r.len = s.len /\ r.enable = s.enable /\ r.tri = s.tri /\ r.triFreq = s.triFreq
      /\ r.sum = s.sum /\ r.out = s.out /\ r.owed = s.owed /\ r.fifo = s.fifo
      /\ r.vol = s.vol /\ r.env = s.env /\ r.sweep = s.sweep /\ r.freq = s.freq
  BY DEF Keeps, Names
<1>2. \A c \in Channels : c \in r.on <=> c \in s.on
  BY SMTT(30)
<1>. QED
  BY <1>1, <1>2 DEF Base, Good, Current, LengthsAndStatus, TriangleSettled, DeltasAddUp,
     ResetsInPlace, Cached, SweepsFit, Sound, Volume

-----------------------------------------------------------------------------
(* The output. *)

LEMMA CheckBase ==
    ASSUME NEW s, Base(s), NEW ok, NEW line \in Nat
    PROVE  LET r == Check(s, ok, line)
           IN Base(r) /\ (Good(s) => Good(r)) /\ Keeps(r, s, {"failed"})
<1>. DEFINE r == [s EXCEPT !.failed = @ \cup {line}]
<1>u. s \in Units /\ Fields(s) /\ \A x \in Names : x \in DOMAIN s
  BY UnitFields, UnitNames DEF Base
<1>1. r \in Units
  <2>1. Like(r, s)
    BY DEF Like
  <2>2. Fields(r)
    BY <1>u DEF Fields, Names
  <2>. QED
    BY <1>u, <2>1, <2>2, UnitIntro
<1>2. Base(r) /\ (Good(s) => Good(r))
  BY <1>1, <1>u DEF Names, Base, Good, Current, LengthsAndStatus, TriangleSettled, DeltasAddUp,
     ResetsInPlace, Cached, SweepsFit, Sound, Volume
<1>3. Keeps(r, s, {"failed"}) /\ Keeps(s, s, {"failed"})
  BY <1>u DEF Names, Keeps
<1>. QED
  BY <1>2, <1>3 DEF Check

LEMMA SampleTimeType ==
    ASSUME NEW s, Fields(s), NEW t \in Int
    PROVE  SampleTime(s, t) \in Samples
<1>1. SampleLen \in Nat \ {0} /\ Slots \in Nat \ {0}
  BY ApuAssumption
<1>2. s.offs \in Int
  <2>1. SampleLen * Slots \in Int
    BY <1>1
  <2>. QED
    BY <2>1 DEF Fields
<1>3. (t + s.offs) \div SampleLen \in Int
  BY SMTT(30), <1>1, <1>2, DivMod
<1>. QED
  BY <1>1, <1>3, DivMod DEF SampleTime, Samples

LEMMA MixIsSound ==
    ASSUME NEW s, Fields(s), LengthsAndStatus(s), Cached(s)
    PROVE  Mix(s) \in Sounds /\ Mix(s) = Sound(s)
<1>0. EnvTop \in Nat /\ FreqTop \in Nat /\ UpTo(Lengths) \subseteq Nat
  BY ApuAssumption, RegistersAssumption DEF UpTo
<1>1. \A c \in Channels : Mix(s)[c] \in (0..FreqTop) \X (0..EnvTop)
  BY <1>0 DEF Mix, Pulse, Fields, Channels, Envs, Pulses
<1>2. \A c \in Channels : Mix(s)[c] = Sound(s)[c]
  <2>1. \A c \in Channels : c \notin s.on <=> s.len[c] = 0
    BY <1>0 DEF Fields, LengthsAndStatus
  <2>. QED
    BY <2>1 DEF Mix, Pulse, Sound, Cached, Channels, Envs, Pulses
<1>. QED
  BY <1>1, <1>2 DEF Mix, Sound, Sounds

LEMMA SyncApuGood ==
    ASSUME NEW s0, Base(s0), NEW t \in Int
    PROVE  LET r == SyncApu(s0, t)
           IN Good(r) /\ Keeps(r, s0, {"owed", "fifo", "synced", "failed"}) /\ r.fifo.sample = SampleTime(s0, t)
<1>. DEFINE s == Check(s0, t >= s0.synced, 221)
            sample == SampleTime(s, t)
            flushed == [s EXCEPT !.owed = @ \ {<<p, s.fifo.sample>> : p \in s.fifo.carry},
                                 !.fifo.carry = {}, !.fifo.sample = sample,
                                 !.fifo.last = <<s.fifo.sample, s.fifo.pending>>]
            next == IF sample = s.fifo.sample THEN s ELSE flushed
            mix == Mix(s)
            r == [next EXCEPT !.fifo.pending = mix, !.synced = t]
<1>1. Base(s) /\ Keeps(s, s0, {"failed"})
  BY CheckBase
<1>2. sample = SampleTime(s0, t)
  BY <1>1 DEF SampleTime, Keeps, Names
<1>. HIDE DEF s
<1>u. s \in Units /\ Fields(s) /\ \A x \in Names : x \in DOMAIN s
  BY <1>1, UnitFields, UnitNames DEF Base
<1>3. sample \in Samples
  BY <1>u, SampleTimeType
<1>4. mix \in Sounds /\ mix = Sound(s)
  BY <1>1, <1>u, MixIsSound DEF Base
<1>. HIDE DEF sample, mix
<1>5. flushed \in Units /\ r \in Units
  <2>1. Like(flushed, s)
    BY DEF Like
  <2>2. Fields(flushed)
    BY <1>u, <1>3 DEF Fields, Names, FifoUnits
  <2>3. flushed \in Units
    BY <1>u, <2>1, <2>2, UnitIntro
  <2>. HIDE DEF flushed
  <2>4. next \in Units /\ Fields(next) /\ \A x \in Names : x \in DOMAIN next
    BY <1>u, <2>2, <2>3, UnitNames
  <2>. HIDE DEF next
  <2>5. Like(r, next)
    BY DEF Like
  <2>6. Fields(r)
    BY <1>3, <1>4, <2>4 DEF Fields, Names, FifoUnits
  <2>. QED
    BY <2>3, <2>4, <2>5, <2>6, UnitIntro
<1>6. Keeps(r, s, {"owed", "fifo", "synced"}) /\ r.fifo.sample = sample /\ r.fifo.pending = mix
  <2>1. Keeps(r, s, {"owed", "fifo", "synced"})
    BY <1>u DEF Keeps, Names
  <2>2. next.fifo \in FifoUnits /\ next.fifo.sample = sample
    BY <1>u, <1>5, UnitFields DEF Names, Fields, FifoUnits
  <2>3. "fifo" \in DOMAIN next
    BY <1>u, <1>5, UnitNames DEF Names
  <2>. HIDE DEF next
  <2>4. r.fifo = [next.fifo EXCEPT !.pending = mix]
    BY <2>3
  <2>. QED
    BY <2>1, <2>2, <2>4 DEF FifoUnits
<1>7. ResetsInPlace(r)
  BY <1>1, <1>u DEF ResetsInPlace, Names, Fields, FifoUnits, Base
<1>. HIDE DEF r
<1>8. Sound(r) = Sound(s)
  BY <1>6 DEF Sound, Keeps, Names, Volume
<1>9. Good(r)
  BY <1>1, <1>4, <1>5, <1>6, <1>7, <1>8 DEF Keeps, Names, Base, Good, Current, LengthsAndStatus,
     TriangleSettled, DeltasAddUp, Cached, SweepsFit, Volume
<1>10. Keeps(r, s0, {"owed", "fifo", "synced", "failed"})
  BY <1>1, <1>6 DEF Keeps
<1>11. r = SyncApu(s0, t)
  BY DEF r, SyncApu, s, sample, mix
<1>. QED
  BY <1>2, <1>6, <1>9, <1>10, <1>11

LEMMA SinceGood ==
    ASSUME NEW s, Base(s), NEW t \in Int
    PROVE  LET r == [s EXCEPT !.tri.since = t] IN Base(r) /\ (Good(s) => Good(r))
<1>. DEFINE r == [s EXCEPT !.tri.since = t]
<1>u. s \in Units /\ Fields(s) /\ \A x \in Names : x \in DOMAIN s
  BY Unpack
<1>1. Like(r, s)
  BY DEF Like
<1>2. Fields(r)
  BY <1>u DEF Fields, Names, TriUnits
<1>3. r \in Units
  BY <1>u, <1>1, <1>2, UnitIntro
<1>4. Keeps(r, s, {"tri"}) /\ r.tri.delay = s.tri.delay /\ r.tri.ll = s.tri.ll /\ r.tri.period = s.tri.period
  BY <1>u DEF Fields, Names, TriUnits, Keeps
<1>. HIDE DEF r
<1>5. Base(r) /\ (Good(s) => Good(r))
  BY <1>3, <1>4 DEF Keeps, Names, Base, Good, Current, LengthsAndStatus, TriangleSettled, DeltasAddUp,
     ResetsInPlace, Cached, SweepsFit, Sound, Volume
<1>. QED
  BY <1>5 DEF r

LEMMA UpdateTriangleGood ==
    ASSUME NEW s0, Base(s0), NEW t \in Int
    PROVE  LET r == UpdateTriangle(s0, t) IN Base(r) /\ (Good(s0) => Good(r))
<1>. DEFINE s == Check(s0, t >= s0.tri.since, 460)
            delay == s.tri.delay - (t - s.tri.since)
            heard == "tri" \in s.on /\ s.tri.ll > 0
            passed == [s EXCEPT !.tri.delay = delay]
            due == [passed EXCEPT !.triFreq = IF heard THEN s.tri.period ELSE 0]
            body == IF s.tri.delay <= 0 THEN s ELSE IF delay > 0 THEN passed ELSE SyncApu(due, t + delay)
<1>b. UpdateTriangle(s0, t) = [body EXCEPT !.tri.since = t]
  BY DEF UpdateTriangle
<1>1. Base(s) /\ (Good(s0) => Good(s))
  BY CheckBase
<1>. HIDE DEF s
<1>u. s \in Units /\ Fields(s) /\ \A x \in Names : x \in DOMAIN s
  BY <1>1, Unpack
<1>0. delay \in Int
  BY <1>u DEF Fields, TriUnits
<1>. HIDE DEF delay
<1>2. CASE s.tri.delay <= 0
  <2>1. body = s
    BY <1>2
  <2>. HIDE DEF body
  <2>. QED
    BY <1>1, <1>b, <2>1, SinceGood
<1>3. CASE ~(s.tri.delay <= 0) /\ delay > 0
  <2>1. body = passed
    BY <1>3
  <2>. HIDE DEF body
  <2>2. Like(passed, s)
    BY DEF Like
  <2>3. Fields(passed)
    BY <1>0, <1>u DEF Fields, Names, TriUnits
  <2>4. passed \in Units
    BY <1>u, <2>2, <2>3, UnitIntro
  <2>5. Keeps(passed, s, {"tri"}) /\ passed.tri.delay = delay
    BY <1>u DEF Fields, Names, TriUnits, Keeps
  <2>. HIDE DEF passed
  <2>6. Base(passed) /\ (Good(s) => Good(passed))
    <3>1. TriangleSettled(passed)
      BY <1>0, <1>3, <2>5 DEF TriangleSettled
    <3>2. LengthsAndStatus(passed) /\ Cached(passed) /\ SweepsFit(passed)
      BY <1>1, <2>5 DEF Base, Keeps, Names, LengthsAndStatus, Cached, SweepsFit, Volume
    <3>3. DeltasAddUp(passed) /\ ResetsInPlace(passed)
      BY <1>1, <2>5 DEF Base, Keeps, Names, DeltasAddUp, ResetsInPlace
    <3>4. Sound(passed) = Sound(s) /\ passed.fifo = s.fifo
      BY <2>5 DEF Keeps, Names, Sound, Volume
    <3>. QED
      BY <1>1, <2>4, <3>1, <3>2, <3>3, <3>4 DEF Base, Good, Current
  <2>. QED
    BY <1>1, <1>b, <2>1, <2>6, SinceGood
<1>4. CASE ~(s.tri.delay <= 0) /\ ~(delay > 0)
  <2>1. body = SyncApu(due, t + delay)
    BY <1>4
  <2>. HIDE DEF body
  <2>2. Like(due, s)
    BY DEF Like
  <2>0. FreqTop \in Nat
    BY RegistersAssumption
  <2>3. Fields(due)
    BY <1>0, <1>u, <2>0 DEF Fields, Names, TriUnits
  <2>4. due \in Units
    BY <1>u, <2>2, <2>3, UnitIntro
  <2>5. /\ Keeps(due, s, {"tri", "triFreq"}) /\ due.tri.ll = s.tri.ll /\ due.tri.period = s.tri.period
        /\ due.triFreq = IF heard THEN s.tri.period ELSE 0
    BY <1>u DEF Fields, Names, TriUnits, Keeps
  <2>. HIDE DEF due
  <2>6. heard <=> s.len["tri"] > 0 /\ s.tri.ll > 0
    BY <1>1 DEF Base, LengthsAndStatus, Channels
  <2>7. Base(due)
    BY <1>1, <2>4, <2>5, <2>6 DEF Keeps, Names, Base, LengthsAndStatus, TriangleSettled,
       DeltasAddUp, ResetsInPlace, Cached, SweepsFit, Volume
  <2>8. Good(SyncApu(due, t + delay))
    BY <1>0, <2>7, SyncApuGood
  <2>. QED
    BY <1>b, <2>1, <2>8, SinceGood DEF Good
<1>. QED
  BY <1>2, <1>3, <1>4

-----------------------------------------------------------------------------
(* The frame counter. *)

LEMMA ClockEnvelopeType ==
    ASSUME NEW v \in EnvUnits
    PROVE  ClockEnvelope(v) \in EnvUnits
<1>0. EnvTop \in Nat
  BY ApuAssumption
<1>1. CASE v.reload
  <2>1. ClockEnvelope(v) = [v EXCEPT !.level = EnvTop, !.divider = v.period, !.reload = FALSE]
    BY <1>1 DEF ClockEnvelope
  <2>2. EnvTop \in 0..EnvTop /\ FALSE \in BOOLEAN /\ v.period \in 0..EnvTop
    BY <1>0 DEF EnvUnits
  <2>. QED
    BY <2>1, <2>2 DEF EnvUnits
<1>2. CASE ~v.reload /\ v.divider > 0
  BY <1>0, <1>2 DEF ClockEnvelope, EnvUnits
<1>3. CASE ~v.reload /\ ~(v.divider > 0)
  <2>. DEFINE level == IF v.level > 0 THEN v.level - 1 ELSE IF v.loop THEN EnvTop ELSE 0
  <2>1. ClockEnvelope(v) = [v EXCEPT !.divider = v.period, !.level = level]
    BY <1>3 DEF ClockEnvelope
  <2>2. level \in 0..EnvTop
    BY <1>0 DEF EnvUnits
  <2>. HIDE DEF level
  <2>. QED
    BY <2>1, <2>2 DEF EnvUnits
<1>. QED
  BY <1>1, <1>2, <1>3 DEF EnvUnits

LEMMA ClockEnvelopesBase ==
    ASSUME NEW s, Base(s)
    PROVE  LET r == ClockEnvelopes(s)
           IN Base(r) /\ Keeps(r, s, {"env", "vol"})
<1>. DEFINE env == [e \in Envs |-> ClockEnvelope(s.env[e])]
            vol == [e \in Envs |-> IF env[e].const THEN env[e].period ELSE env[e].level]
            r == [s EXCEPT !.env = env, !.vol = vol]
<1>u. s \in Units /\ Fields(s) /\ \A x \in Names : x \in DOMAIN s
  BY Unpack
<1>1. Like(r, s)
  BY DEF Like
<1>2. env \in [Envs -> EnvUnits]
  BY <1>u, ClockEnvelopeType DEF Fields
<1>. HIDE DEF env
<1>3. vol \in [Envs -> 0..EnvTop]
  BY <1>2 DEF EnvUnits
<1>4. vol = [e \in Envs |-> IF env[e].const THEN env[e].period ELSE env[e].level]
  OBVIOUS
<1>. HIDE DEF vol
<1>5. Fields(r)
  BY <1>u, <1>2, <1>3 DEF Fields, Names
<1>6. r \in Units
  BY <1>u, <1>1, <1>5, UnitIntro
<1>7. Keeps(r, s, {"env", "vol"}) /\ r.env = env /\ r.vol = vol
  BY <1>u DEF Names, Keeps
<1>r. r = ClockEnvelopes(s)
  BY DEF ClockEnvelopes, env, vol
<1>. HIDE DEF r
<1>8. Cached(r)
  BY <1>4, <1>7 DEF Cached, Volume
<1>9. Base(r)
  BY <1>6, <1>7, <1>8 DEF Keeps, Names, Base, LengthsAndStatus, TriangleSettled, DeltasAddUp,
     ResetsInPlace, SweepsFit
<1>. QED
  BY <1>7, <1>9, <1>r

LEMMA ClockLinearBase ==
    ASSUME NEW s, Base(s)
    PROVE  LET r == ClockLinear(s)
           IN Base(r) /\ Keeps(r, s, {"tri"})
<1>. DEFINE v == s.tri
            ll == IF v.reload THEN v.count ELSE IF v.ll > 0 THEN v.ll - 1 ELSE 0
            delay == IF (v.ll = 0) # (ll = 0) THEN TriDelay ELSE s.tri.delay
            reload == IF v.halt THEN s.tri.reload ELSE FALSE
            r == [s EXCEPT !.tri.ll = ll, !.tri.delay = delay, !.tri.reload = reload]
<1>u. s \in Units /\ Fields(s) /\ \A x \in Names : x \in DOMAIN s
  BY Unpack
<1>0. TriDelay \in Nat \ {0}
  BY ApuAssumption
<1>r. r = ClockLinear(s)
  BY DEF ClockLinear
<1>1. Like(r, s)
  BY DEF Like
<1>2. ll \in Nat /\ delay \in Int /\ reload \in BOOLEAN
  <2>1. v.count \in Nat /\ v.ll \in Nat /\ v.delay \in Int /\ v.reload \in BOOLEAN
    BY <1>u DEF Fields, TriUnits
  <2>. HIDE DEF v
  <2>2. ll \in Nat
    BY <2>1
  <2>. HIDE DEF ll
  <2>3. delay \in Int
    BY <1>0, <2>1, <2>2 DEF v
  <2>4. reload \in BOOLEAN
    BY <2>1 DEF v
  <2>. QED
    BY <2>2, <2>3, <2>4
<1>3. (delay <= 0 => (s.tri.delay <= 0 /\ (ll > 0 <=> s.tri.ll > 0)))
  BY <1>u, <1>0, <1>2 DEF Fields, TriUnits
<1>. HIDE DEF ll, delay, reload
<1>5. Fields(r)
  BY <1>u, <1>2 DEF Fields, Names, TriUnits
<1>6. r \in Units
  BY <1>u, <1>1, <1>5, UnitIntro
<1>7. Keeps(r, s, {"tri"}) /\ r.tri.period = s.tri.period /\ r.tri.ll = ll /\ r.tri.delay = delay
  BY <1>u DEF Names, Keeps, Fields, TriUnits
<1>. HIDE DEF r
<1>9. Base(r)
  BY <1>3, <1>6, <1>7 DEF Keeps, Names, Base, LengthsAndStatus, TriangleSettled, DeltasAddUp,
     ResetsInPlace, SweepsFit, Cached, Volume
<1>. QED
  BY <1>7, <1>9, <1>r

LEMMA CountDown ==
    ASSUME NEW S, S \subseteq Nat, NEW n \in UpTo(S), n > 0
    PROVE  n - 1 \in UpTo(S)
BY DEF UpTo

LEMMA ClockLengthsBase ==
    ASSUME NEW s, Base(s)
    PROVE  LET r == ClockLengths(s)
           IN Base(r) /\ Keeps(r, s, {"len", "on", "tri"})
<1>. DEFINE counts == {c \in Channels : ~Halted(s, c) /\ s.len[c] > 0}
            ends == {c \in counts : s.len[c] = 1}
            len == [c \in Channels |-> IF c \in counts THEN s.len[c] - 1 ELSE s.len[c]]
            on == s.on \ ends
            delay == IF "tri" \in ends THEN TriDelay ELSE s.tri.delay
            r == [s EXCEPT !.len = len, !.on = on, !.tri.delay = delay]
<1>u. s \in Units /\ Fields(s) /\ \A x \in Names : x \in DOMAIN s
  BY Unpack
<1>0. TriDelay \in Nat \ {0} /\ Lengths \subseteq Nat /\ UpTo(Lengths) \subseteq Nat
  BY ApuAssumption DEF UpTo
<1>r. r = ClockLengths(s)
  BY DEF ClockLengths
<1>1. Like(r, s)
  BY DEF Like
<1>2. len \in [Channels -> UpTo(Lengths)] /\ delay \in Int
        /\ on \in SUBSET (Channels \cup {"dmc", "fcirq", "dmcirq"})
  <2>1. \A c \in Channels : len[c] \in UpTo(Lengths)
    BY <1>0, <1>u, CountDown DEF Fields
  <2>. QED
    BY <1>u, <1>0, <2>1 DEF Fields, TriUnits
<1>3. \A c \in Channels : /\ c \in on <=> c \in s.on /\ ~(c \in counts /\ s.len[c] = 1)
                          /\ len[c] > 0 <=> s.len[c] > 0 /\ ~(c \in counts /\ s.len[c] = 1)
  BY <1>u, <1>0 DEF Fields
<1>3a. \A c \in Channels : c \in on => c \in s.on
  OBVIOUS
<1>4. delay <= 0 => s.tri.delay <= 0 /\ (len["tri"] > 0 <=> s.len["tri"] > 0)
  BY <1>u, <1>0 DEF Fields, TriUnits, Channels
<1>. HIDE DEF len, on, delay, counts
<1>5. Fields(r)
  BY <1>u, <1>2 DEF Fields, Names, TriUnits
<1>6. r \in Units
  BY <1>u, <1>1, <1>5, UnitIntro
<1>7. /\ Keeps(r, s, {"len", "on", "tri"}) /\ r.tri.period = s.tri.period /\ r.tri.ll = s.tri.ll
      /\ r.tri.delay = delay /\ r.len = len /\ r.on = on
  BY <1>u DEF Names, Keeps, Fields, TriUnits
<1>. HIDE DEF r
<1>8. LengthsAndStatus(r)
  BY <1>3, <1>3a, <1>7 DEF Keeps, Names, Base, LengthsAndStatus
<1>9. Base(r)
  BY <1>4, <1>6, <1>7, <1>8 DEF Keeps, Names, Base, TriangleSettled, DeltasAddUp,
     ResetsInPlace, SweepsFit, Cached, Volume
<1>. QED
  BY <1>7, <1>9, <1>r

\* A sweep that is on subtracts less than the period, and never adds beyond the top.
LEMMA SweptType ==
    ASSUME NEW s, Fields(s), SweepsFit(s), NEW p \in Pulses
    PROVE  Swept(s, p) \in 0..FreqTop
<1>. DEFINE f == s.freq[p]
            m == s.sweep[p].mult
            delta == (f * m) \div MultUnit
<1>1. /\ FreqTop \in Nat /\ FreqMin \in Nat \ {0} /\ MultUnit \in Nat \ {0}
      /\ f \in 0..FreqTop /\ m \in 0..MultUnit
      /\ s.sweep[p].on => 2 * m <= MultUnit
  BY RegistersAssumption DEF Fields, SweepUnits, SweepsFit
<1>d. SweepDelta(f, m) = delta
  BY DEF SweepDelta
<1>2. CASE ~s.sweep[p].on \/ f < FreqMin
  <2>1. Swept(s, p) = f
    BY <1>2 DEF Swept
  <2>. QED
    BY <1>1, <2>1
<1>3. CASE s.sweep[p].on /\ ~(f < FreqMin)
  <2>. HIDE DEF f, m
  <2>1. f * m \in Nat /\ 2 * (f * m) <= f * MultUnit
    <3>1. f \in Nat /\ m \in Nat /\ 2 * m <= MultUnit /\ MultUnit - 2 * m \in Nat
      BY <1>1, <1>3
    <3>2. f * (MultUnit - 2 * m) \in Nat
      BY <3>1
    <3>3. f * (MultUnit - 2 * m) = f * MultUnit - 2 * (f * m)
      BY <1>1
    <3>4. f * m \in Nat /\ f * MultUnit \in Int
      BY <1>1, <3>1
    <3>. QED
      BY <3>2, <3>3, <3>4
  <2>2. /\ f * m = MultUnit * delta + ((f * m) % MultUnit)
        /\ delta \in Int /\ (f * m) % MultUnit \in 0 .. MultUnit - 1
    BY <1>1, <2>1, DivMod
  <2>3. delta \in Nat /\ 2 * delta <= f
    <3>. HIDE DEF delta
    <3>. DEFINE x == f * m
                r == x % MultUnit
    <3>. HIDE DEF x, r
    <3>1. x \in Nat /\ 2 * x <= f * MultUnit /\ x = MultUnit * delta + r /\ delta \in Int /\ r \in 0 .. MultUnit - 1
      BY <2>1, <2>2 DEF x, r
    <3>2. MultUnit * (2 * delta) <= MultUnit * f
      BY <1>1, <3>1
    <3>3. 2 * delta <= f
      BY <1>1, <3>1, <3>2
    <3>4. MultUnit * delta > -MultUnit
      BY <1>1, <3>1
    <3>5. delta > -1
      BY <1>1, <3>1, <3>4
    <3>. QED
      BY <3>1, <3>3, <3>5
  <2>. HIDE DEF delta
  <2>4. \/ Swept(s, p) = f - delta - (IF p = "p0" THEN 1 ELSE 0)
        \/ Swept(s, p) = f + delta /\ f + delta <= FreqTop
        \/ Swept(s, p) = f
    BY <1>d DEF Swept, f, m
  <2>. QED
    BY <1>1, <1>3, <2>3, <2>4
<1>. QED
  BY <1>1, <1>2, <1>3 DEF Fields, SweepUnits

LEMMA ClockSweepsBase ==
    ASSUME NEW s, Base(s)
    PROVE  LET r == ClockSweeps(s)
           IN Base(r) /\ Keeps(r, s, {"freq", "sweep"})
<1>. DEFINE due(p) == s.sweep[p].divider = 0
            freq == [p \in Pulses |-> IF due(p) THEN Swept(s, p) ELSE s.freq[p]]
            sweep == [p \in Pulses |->
              [s.sweep[p] EXCEPT !.divider = IF due(p) \/ s.sweep[p].reload
                                       THEN s.sweep[p].period ELSE @ - 1,
                           !.reload = FALSE]]
            r == [s EXCEPT !.freq = freq, !.sweep = sweep]
<1>u. s \in Units /\ Fields(s) /\ \A x \in Names : x \in DOMAIN s
  BY Unpack
<1>r. r = ClockSweeps(s)
  BY DEF ClockSweeps
<1>1. Like(r, s)
  BY DEF Like
<1>2. freq \in [Pulses -> 0..FreqTop]
  <2>1. \A p \in Pulses : freq[p] \in 0..FreqTop
    BY <1>u, SweptType DEF Fields, Base
  <2>. QED
    BY <2>1
<1>3. sweep \in [Pulses -> SweepUnits]
  <2>1. ASSUME NEW p \in Pulses PROVE sweep[p] \in SweepUnits
    <3>. DEFINE v == s.sweep[p]
                divider == IF due(p) \/ s.sweep[p].reload THEN s.sweep[p].period ELSE v.divider - 1
    <3>1. v \in SweepUnits
      BY <1>u DEF Fields
    <3>2. divider \in Nat
      BY <3>1 DEF SweepUnits
    <3>3. sweep[p] = [v EXCEPT !.divider = divider, !.reload = FALSE]
      OBVIOUS
    <3>. HIDE DEF v, divider, sweep
    <3>. QED
      BY <3>1, <3>2, <3>3 DEF SweepUnits
  <2>. QED
    BY <2>1
<1>4. \A p \in Pulses : sweep[p].on = s.sweep[p].on /\ sweep[p].mult = s.sweep[p].mult
  BY <1>u DEF Fields, SweepUnits
<1>. HIDE DEF freq, sweep
<1>5. Fields(r)
  BY <1>u, <1>2, <1>3 DEF Fields, Names
<1>6. r \in Units
  BY <1>u, <1>1, <1>5, UnitIntro
<1>7. Keeps(r, s, {"freq", "sweep"}) /\ r.sweep = sweep
  BY <1>u DEF Names, Keeps
<1>. HIDE DEF r
<1>8. SweepsFit(r)
  BY <1>4, <1>7 DEF Base, SweepsFit
<1>9. Base(r)
  BY <1>6, <1>7, <1>8 DEF Keeps, Names, Base, LengthsAndStatus, TriangleSettled, DeltasAddUp,
     ResetsInPlace, Cached, Volume
<1>. QED
  BY <1>7, <1>9, <1>r

LEMMA AddPeriodType ==
    ASSUME NEW fc \in FcUnits
    PROVE  AddPeriod(fc) \in FcUnits
<1>. DEFINE d == fc.divider + FcPeriod
<1>1. d \in Nat
  BY ApuAssumption DEF FcUnits
<1>2. AddPeriod(fc) = [fc EXCEPT !.next = fc.next + (d \div 2), !.divider = d % 2]
  BY DEF AddPeriod
<1>3. d \div 2 \in Int /\ d % 2 \in {0, 1}
  BY <1>1
<1>4. fc.next + (d \div 2) \in Int
  BY <1>3 DEF FcUnits
<1>. HIDE DEF d
<1>. QED
  BY <1>2, <1>3, <1>4 DEF FcUnits

LEMMA ClockSequencerGood ==
    ASSUME NEW s, Base(s), NEW t \in Int
    PROVE  Good(ClockSequencer(s, t))
<1>. DEFINE quarter == ClockLinear(ClockEnvelopes(s))
            half == IF s.fc.seq % 2 = 0 THEN ClockSweeps(ClockLengths(quarter)) ELSE quarter
            last == s.fc.seq = 3
            irq == last /\ ~s.fc.five /\ ~s.fc.quiet
            fc == IF last /\ s.fc.five THEN AddPeriod(half.fc) ELSE half.fc
            on == IF irq THEN half.on \cup {"fcirq"} ELSE half.on
            seq == (fc.seq + 1) % 4
            r == [half EXCEPT !.on = on, !.fc = [fc EXCEPT !.seq = seq]]
<1>1. Base(quarter)
  BY ClockEnvelopesBase, ClockLinearBase
<1>2. Base(half)
  BY <1>1, ClockLengthsBase, ClockSweepsBase
<1>r. ClockSequencer(s, t) = SyncApu(r, t)
  BY DEF ClockSequencer
<1>. HIDE DEF half, quarter
<1>u. half \in Units /\ Fields(half) /\ \A x \in Names : x \in DOMAIN half
  BY <1>2, Unpack
<1>3. fc \in FcUnits
  BY <1>u, AddPeriodType DEF Fields
<1>4. on \in SUBSET (Channels \cup {"dmc", "fcirq", "dmcirq"}) /\ on \cap Channels = half.on \cap Channels
  BY <1>u DEF Fields, Channels, Envs, Pulses
<1>. HIDE DEF fc, on
<1>5. seq \in 0..3
  BY <1>3 DEF FcUnits
<1>. HIDE DEF seq
<1>6. [fc EXCEPT !.seq = seq] \in FcUnits
  BY <1>3, <1>5 DEF FcUnits
<1>7. Like(r, half)
  BY DEF Like
<1>8. Fields(r)
  BY <1>u, <1>4, <1>6 DEF Fields, Names
<1>9. r \in Units
  BY <1>u, <1>7, <1>8, UnitIntro
<1>10. Keeps(r, half, {"on", "fc"}) /\ r.on = on /\ r.dmc = half.dmc
  BY <1>u DEF Keeps, Names
<1>. HIDE DEF r
<1>11. Base(r)
  <2>1. Keeps(r, half, {"on", "fc", "dmc", "offs", "synced", "pcmSynced", "failed", "slowed"})
    BY <1>10 DEF Keeps
  <2>. QED
    BY <1>2, <1>4, <1>9, <1>10, <2>1, AsideGood
<1>. QED
  BY <1>r, <1>11, SyncApuGood

LEMMA ClockDueGood ==
    ASSUME NEW s, Good(s)
    PROVE  Good(ClockDue(s))
<1>. DEFINE clocked == ClockSequencer(UpdateTriangle(s, s.fc.next), s.fc.next)
            fc == AddPeriod(clocked.fc)
            r == [clocked EXCEPT !.fc = fc]
<1>0. s.fc.next \in Int
  BY Unpack DEF Good, Fields, FcUnits
<1>1. Good(clocked)
  BY <1>0, UpdateTriangleGood, ClockSequencerGood DEF Good
<1>r. ClockDue(s) = r
  BY DEF ClockDue
<1>. HIDE DEF clocked
<1>u. clocked \in Units /\ Fields(clocked) /\ \A x \in Names : x \in DOMAIN clocked
  BY <1>1, Unpack DEF Good
<1>2. fc \in FcUnits
  BY <1>u, AddPeriodType DEF Fields
<1>. HIDE DEF fc
<1>3. Like(r, clocked)
  BY DEF Like
<1>4. Fields(r)
  BY <1>u, <1>2 DEF Fields, Names
<1>5. r \in Units
  BY <1>u, <1>3, <1>4, UnitIntro
<1>6. Keeps(r, clocked, {"fc"}) /\ r.on = clocked.on /\ r.dmc = clocked.dmc
  BY <1>u DEF Keeps, Names
<1>. HIDE DEF r
<1>7. Keeps(r, clocked, {"on", "fc", "dmc", "offs", "synced", "pcmSynced", "failed", "slowed"})
  BY <1>6 DEF Keeps
<1>. QED
  BY <1>1, <1>r, <1>5, <1>6, <1>7, AsideGood DEF Good

GoodUnits == {u \in Units : Good(u)}

LEMMA GoodIsIn ==
    ASSUME NEW s
    PROVE  Good(s) <=> s \in GoodUnits
BY DEF Good, Base, GoodUnits

\* The do-while loop of update_fc_body(), round by round: every unit on the way is good.
LEMMA FcRounds ==
    ASSUME NEW s, Good(s), NEW t \in Int, t >= s.fc.next
    PROVE  LET m == t - s.fc.next + 1
           IN \E g : /\ g[0] = s /\ \A n \in 0..m : Good(g[n])
                     /\ \A n \in 1..m : g[n] = IF t >= g[n - 1].fc.next THEN ClockDue(g[n - 1]) ELSE g[n - 1]
                     /\ UpdateFc(s, t) = UpdateTriangle(g[m], t)
<1>. DEFINE rounds == t - s.fc.next + 1
            Body(G, n) == IF n = 0 THEN s
                          ELSE LET r == G[n - 1] IN IF t >= r.fc.next THEN ClockDue(r) ELSE r
            F == CHOOSE G : G = [n \in 0..rounds |-> Body(G, n)]
            step == [r \in GoodUnits |-> IF t >= r.fc.next THEN ClockDue(r) ELSE r]
<1>1. rounds \in Nat
  BY Unpack DEF Good, Fields, FcUnits
<1>2. step \in [GoodUnits -> GoodUnits]
  <2>1. \A r \in GoodUnits : step[r] \in GoodUnits
    BY GoodIsIn, ClockDueGood
  <2>. QED
    BY <2>1
<1>3. s \in GoodUnits
  BY GoodIsIn
<1>4. UpdateFc(s, t) = UpdateTriangle(F[rounds], t)
  BY DEF UpdateFc, rounds
<1>. HIDE DEF rounds
<1>5. PICK g : IsRun(g, GoodUnits, step, s, rounds)
  <2>. HIDE DEF step
  <2>. QED
    BY <1>1, <1>2, <1>3, Rounds
<1>6. g = [n \in 0..rounds |-> Body(g, n)]
  <2>1. ASSUME NEW n \in 0..rounds PROVE g[n] = Body(g, n)
    <3>1. CASE n = 0
      BY <1>5, <3>1 DEF IsRun
    <3>2. CASE n # 0
      <4>1. n - 1 \in 0..rounds /\ n \in 1..rounds
        BY <1>1, <3>2
      <4>. QED
        BY <1>5, <3>2, <4>1 DEF IsRun
    <3>. QED
      BY <3>1, <3>2
  <2>. HIDE DEF Body
  <2>. QED
    BY <1>5, <2>1 DEF IsRun
<1>7. F = [n \in 0..rounds |-> Body(F, n)]
  <2>. HIDE DEF Body
  <2>. QED
    BY <1>6
<1>. HIDE DEF F
<1>8. /\ F[0] = s
      /\ \A n \in 1..rounds : F[n] = IF t >= F[n - 1].fc.next THEN ClockDue(F[n - 1]) ELSE F[n - 1]
  BY <1>1, <1>7
<1>9. \A n \in 0..rounds : Good(F[n])
  <2>. DEFINE S == {n \in 0..rounds : Good(F[n])}
  <2>1. 0 \in S
    BY <1>1, <1>8
  <2>2. ASSUME NEW n \in 0..rounds, n # 0, n - 1 \in S PROVE n \in S
    BY <1>1, <1>8, <2>2, ClockDueGood
  <2>3. 0..rounds \subseteq S
    <3>. HIDE DEF S
    <3>. QED
      BY <1>1, <2>1, <2>2, UpToBound
  <2>. QED
    BY <2>3
<1>. QED
  BY <1>4, <1>8, <1>9 DEF rounds

LEMMA UpdateFcGood ==
    ASSUME NEW s, Good(s), NEW t \in Int
    PROVE  Good(UpdateFc(s, t))
<1>1. CASE t >= s.fc.next
  <2>. DEFINE m == t - s.fc.next + 1
  <2>0. m \in 0..m
    BY <1>1, Unpack DEF Good, Fields, FcUnits
  <2>1. \E g : Good(g[m]) /\ UpdateFc(s, t) = UpdateTriangle(g[m], t)
    BY <1>1, <2>0, FcRounds
  <2>. QED
    BY <2>1, UpdateTriangleGood DEF Good
<1>2. CASE ~(t >= s.fc.next)
  BY <1>2 DEF UpdateFc
<1>. QED
  BY <1>1, <1>2

-----------------------------------------------------------------------------
(* The DMC. *)

\* The arithmetic of sync_pcm(): M is PcmMod, p the level, q the new one.
Adds(M, p, q, sum, delta) ==
    /\ (sum + ((q - p + M + delta) % M)) % M = q
    /\ (((sum + delta) % M) + ((q - p + M) % M)) % M = q

LEMMA DeltaAdds ==
    ASSUME NEW M \in Nat \ {0}, NEW p \in 0 .. M - 1, NEW q \in 0 .. M - 1,
           NEW sum \in Int, NEW delta \in Int, (sum + delta) % M = p
    PROVE  Adds(M, p, q, sum, delta)
<1>1. sum + delta = M * ((sum + delta) \div M) + p /\ (sum + delta) \div M \in Int
  BY DivMod
<1>. DEFINE k == (sum + delta) \div M
<1>. HIDE DEF k
<1>2. k \in Int /\ sum + delta = M * k + p
  BY <1>1 DEF k
<1>3. q % M = q
  BY ModSmall
<1>4. (sum + ((q - p + M + delta) % M)) % M = q
  <2>1. q - p + M + delta \in Int /\ k + 1 \in Int
    BY <1>2
  <2>2. (sum + ((q - p + M + delta) % M)) % M = (sum + (q - p + M + delta)) % M
    BY <2>1, ModAdd
  <2>3. sum + (q - p + M + delta) = q + M * (k + 1)
    BY <1>2
  <2>0. q \in Int
    OBVIOUS
  <2>4. (q + M * (k + 1)) % M = q % M
    BY <2>0, <2>1, ModShift, Zenon
  <2>. QED
    BY <1>3, <2>2, <2>3, <2>4
<1>5. (p + ((q - p + M) % M)) % M = q
  <2>1. q - p + M \in Int /\ p \in Int
    OBVIOUS
  <2>2. (p + ((q - p + M) % M)) % M = (p + (q - p + M)) % M
    BY <2>1, ModAdd
  <2>3. p + (q - p + M) = q + M * 1
    OBVIOUS
  <2>0. q \in Int /\ 1 \in Int
    OBVIOUS
  <2>4. (q + M * 1) % M = q % M
    BY <2>0, ModShift, Zenon
  <2>. QED
    BY <1>3, <2>2, <2>3, <2>4
<1>. QED
  BY <1>4, <1>5 DEF Adds

LEMMA SyncPcmGood ==
    ASSUME NEW s0, Base(s0), NEW t \in Int, NEW pcm \in 0..PcmTop
    PROVE  LET r == SyncPcm(s0, t, pcm)
           IN /\ Base(r) /\ (Good(s0) => Good(r))
              /\ Keeps(r, s0, {"out", "sum", "dmc", "pcmSynced", "failed"})
              /\ r.dmc = [s0.dmc EXCEPT !.pcm = pcm]
<1>. DEFINE s == Check(s0, t >= s0.pcmSynced, 510)
            sample == SampleTime(s, t)
            same == sample = s.out.sample
            step == pcm - s.dmc.pcm + PcmMod
            delta == (IF same THEN step + s.out.delta ELSE step) % PcmMod
            sum == IF same THEN s.sum ELSE (s.sum + s.out.delta) % PcmMod
            out == [sample |-> sample, delta |-> delta]
            r == [s EXCEPT !.out = out, !.sum = sum, !.dmc.pcm = pcm, !.pcmSynced = t]
<1>1. Base(s) /\ (Good(s0) => Good(s)) /\ Keeps(s, s0, {"failed"})
  BY CheckBase
<1>r. r = SyncPcm(s0, t, pcm)
  BY DEF SyncPcm
<1>. HIDE DEF s
<1>u. s \in Units /\ Fields(s) /\ \A x \in Names : x \in DOMAIN s
  BY <1>1, Unpack
<1>2. PcmTop \in Nat /\ PcmMod \in Nat \ {0} /\ PcmTop <= PcmMod - 1
  BY RegistersAssumption DEF PcmMod
<1>3. sample \in Samples
  BY <1>u, SampleTimeType
<1>4. s.sum \in 0 .. PcmMod - 1 /\ s.out.delta \in 0 .. PcmMod - 1 /\ s.dmc.pcm \in 0..PcmTop
  BY <1>u DEF Fields, OutUnits, DmcUnits
<1>5. delta \in 0 .. PcmMod - 1 /\ sum \in 0 .. PcmMod - 1
  <2>1. (IF same THEN step + s.out.delta ELSE step) \in Int /\ s.sum + s.out.delta \in Int
    BY <1>2, <1>4
  <2>. QED
    BY <1>2, <1>4, <2>1, DivMod
<1>6. (sum + delta) % PcmMod = pcm
  <2>1. (s.sum + s.out.delta) % PcmMod = s.dmc.pcm
    BY <1>1 DEF Base, DeltasAddUp
  <2>2. /\ (s.sum + ((pcm - s.dmc.pcm + PcmMod + s.out.delta) % PcmMod)) % PcmMod = pcm
        /\ (((s.sum + s.out.delta) % PcmMod) + ((pcm - s.dmc.pcm + PcmMod) % PcmMod)) % PcmMod = pcm
    <3>1. s.sum \in Int /\ s.out.delta \in Int /\ PcmMod \in Nat \ {0}
      BY <1>2, <1>4
    <3>2. s.dmc.pcm \in 0 .. PcmMod - 1
      BY <1>2, <1>4
    <3>3. pcm \in 0 .. PcmMod - 1
      BY <1>2
    <3>. DEFINE a == s.sum
                b == s.out.delta
                c == s.dmc.pcm
                M == PcmMod
    <3>4. a \in Int /\ b \in Int /\ M \in Nat \ {0} /\ c \in 0 .. M - 1 /\ pcm \in 0 .. M - 1 /\ (a + b) % M = c
      BY <2>1, <3>1, <3>2, <3>3
    <3>5. Adds(M, c, pcm, a, b)
      <4>. HIDE DEF a, b, c, M
      <4>. QED
        BY <3>4, DeltaAdds
    <3>. QED
      BY <3>5 DEF Adds
  <2>3. CASE same
    BY <2>2, <2>3
  <2>4. CASE ~same
    BY <2>2, <2>4
  <2>. QED
    BY <2>3, <2>4
<1>. HIDE DEF sample, delta, sum
<1>7. Like(r, s)
  BY DEF Like
<1>8. Fields(r)
  <2>1. out \in OutUnits
    BY <1>3, <1>5 DEF OutUnits
  <2>2. [s.dmc EXCEPT !.pcm = pcm] \in DmcUnits
    BY <1>u DEF Fields, DmcUnits
  <2>. QED
    BY <1>u, <1>5, <2>1, <2>2 DEF Fields, Names
<1>9. r \in Units
  BY <1>u, <1>7, <1>8, UnitIntro
<1>10. /\ Keeps(r, s, {"out", "sum", "dmc", "pcmSynced"})
       /\ r.dmc = [s.dmc EXCEPT !.pcm = pcm] /\ r.sum = sum /\ r.out = out
  BY <1>u DEF Keeps, Names
<1>11. r.dmc.pcm = pcm /\ r.out.delta = delta
  BY <1>10, <1>u DEF Fields, DmcUnits
<1>. HIDE DEF r
<1>12. DeltasAddUp(r)
  BY <1>6, <1>10, <1>11 DEF DeltasAddUp
<1>13. Base(r) /\ (Good(s) => Good(r))
  <2>1. /\ r.len = s.len /\ r.on = s.on /\ r.enable = s.enable /\ r.tri = s.tri
        /\ r.triFreq = s.triFreq /\ r.owed = s.owed /\ r.fifo = s.fifo /\ r.vol = s.vol
        /\ r.env = s.env /\ r.sweep = s.sweep /\ r.freq = s.freq
    BY <1>10 DEF Keeps, Names
  <2>. QED
    BY <1>1, <1>9, <1>12, <2>1 DEF Base, Good, Current, LengthsAndStatus,
       TriangleSettled, ResetsInPlace, Cached, SweepsFit, Volume, Sound
<1>14. Keeps(r, s0, {"out", "sum", "dmc", "pcmSynced", "failed"})
  BY <1>1, <1>10 DEF Keeps
<1>15. s.dmc = s0.dmc
  BY <1>1 DEF Keeps, Names
<1>. QED
  BY <1>1, <1>10, <1>13, <1>14, <1>15, <1>r

\* Whatever the DMC's registers become, the level aside.
LEMMA DmcGood ==
    ASSUME NEW s, Base(s), NEW r, Like(r, s), r.dmc \in DmcUnits, r.dmc.pcm = s.dmc.pcm,
           Keeps(r, s, {"dmc", "slowed", "on", "failed"}), r.slowed \in BOOLEAN, r.failed \in SUBSET Nat,
           r.on \in SUBSET (Channels \cup {"dmc", "fcirq", "dmcirq"}),
           r.on \cap Channels = s.on \cap Channels
    PROVE  Base(r) /\ (Good(s) => Good(r))
<1>u. s \in Units /\ Fields(s)
  BY Unpack
<1>1. Fields(r)
  BY <1>u DEF Keeps, Names, Fields
<1>2. r \in Units
  BY <1>1, <1>u, UnitIntro
<1>3. Keeps(r, s, {"on", "fc", "dmc", "offs", "synced", "pcmSynced", "failed", "slowed"})
  BY DEF Keeps
<1>. QED
  BY <1>2, <1>3, AsideGood

LEMMA DmcNumbers ==
    ASSUME NEW d \in DmcUnits
    PROVE  /\ d.next \in Int /\ d.end \in Int /\ d.bit \in Nat /\ d.bytes \in Nat
           /\ d.period \in Nat \ {0} /\ d.length \in Nat \ {0} /\ d.pcm \in Nat
           /\ d.length \in UpTo(DmcLengths)
<1>1. Bits \in Nat /\ PcmTop \in Nat
  BY RegistersAssumption
<1>2. DmcPeriods \subseteq Nat \ {0} /\ DmcLengths \subseteq Nat \ {0}
  BY ApuAssumption
<1>3. UpTo(DmcLengths) \subseteq Nat /\ DmcLengths \subseteq UpTo(DmcLengths)
  BY <1>2 DEF UpTo
<1>4. /\ d.next \in Int /\ d.end \in Int /\ d.bit \in 0..Bits /\ d.bytes \in UpTo(DmcLengths)
      /\ d.period \in DmcPeriods /\ d.length \in DmcLengths /\ d.pcm \in 0..PcmTop
  BY DEF DmcUnits
<1>5. d.bit \in Nat /\ d.pcm \in Nat
  BY <1>1, <1>4
<1>6. d.period \in Nat \ {0} /\ d.length \in Nat \ {0}
  BY <1>2, <1>4
<1>7. d.bytes \in Nat /\ d.length \in UpTo(DmcLengths)
  BY <1>3, <1>4
<1>. QED
  BY <1>4, <1>5, <1>6, <1>7

\* The calls that only set the DMC's registers: on any unit, as $4015 makes them
\* between two other changes.
LEMMA RecalcEndUnits ==
    ASSUME NEW s \in Units
    PROVE  LET r == RecalcEnd(s)
           IN /\ r \in Units /\ Keeps(r, s, {"dmc", "slowed"})
              /\ \A x \in {"bit", "bytes", "loop", "pcm", "next"} : r.dmc[x] = s.dmc[x]
<1>. DEFINE end == s.dmc.next + ((s.dmc.bytes - 1) * Bits + s.dmc.bit) * s.dmc.period
            r == [s EXCEPT !.dmc.end = end, !.slowed = FALSE]
<1>u. Fields(s) /\ \A x \in Names : x \in DOMAIN s
  BY UnitFields, UnitNames
<1>1. end \in Int
  <2>1. /\ s.dmc.next \in Int /\ s.dmc.bytes - 1 \in Int /\ Bits \in Int
        /\ s.dmc.bit \in Int /\ s.dmc.period \in Int
    BY <1>u, DmcNumbers, RegistersAssumption DEF Fields
  <2>2. (s.dmc.bytes - 1) * Bits + s.dmc.bit \in Int
    BY <2>1
  <2>. QED
    BY <2>1, <2>2
<1>. HIDE DEF end
<1>2. Like(r, s)
  BY DEF Like
<1>3. [s.dmc EXCEPT !.end = end] \in DmcUnits
  BY <1>1, <1>u DEF Fields, DmcUnits
<1>4. /\ Keeps(r, s, {"dmc", "slowed"}) /\ r.dmc = [s.dmc EXCEPT !.end = end] /\ r.slowed = FALSE
  BY <1>u DEF Keeps, Names
<1>5. \A x \in {"bit", "bytes", "loop", "pcm", "next"} : r.dmc[x] = s.dmc[x]
  BY <1>u, <1>4 DEF Fields, DmcUnits
<1>6. r \in Units
  <2>. HIDE DEF r
  <2>1. Fields(r)
    BY <1>u, <1>3, <1>4 DEF Fields, Keeps, Names
  <2>. QED
    BY <1>2, <2>1, UnitIntro
<1>7. RecalcEnd(s) = s \/ RecalcEnd(s) = r
  BY DEF RecalcEnd, end
<1>. HIDE DEF r
<1>. QED
  BY <1>4, <1>5, <1>6, <1>7 DEF Keeps

LEMMA RecalcEndSame ==
    ASSUME NEW r \in Units, NEW s \in Units, r.dmc = s.dmc, r.slowed = s.slowed
    PROVE  RecalcEnd(r).dmc = RecalcEnd(s).dmc /\ RecalcEnd(r).slowed = RecalcEnd(s).slowed
<1>. DEFINE end(d) == d.next + ((d.bytes - 1) * Bits + d.bit) * d.period
            q(v) == [v EXCEPT !.dmc.end = end(v.dmc), !.slowed = FALSE]
            idle(d) == d.next = Never \/ d.bytes = 0
<1>1. ASSUME NEW v \in Units
      PROVE  /\ RecalcEnd(v) = IF idle(v.dmc) THEN v ELSE q(v)
             /\ q(v).dmc = [v.dmc EXCEPT !.end = end(v.dmc)] /\ q(v).slowed = FALSE
  <2>1. \A x \in Names : x \in DOMAIN v
    BY <1>1, UnitNames
  <2>2. RecalcEnd(v) = IF idle(v.dmc) THEN v ELSE q(v)
    BY DEF RecalcEnd
  <2>. HIDE DEF end
  <2>. QED
    BY <2>1, <2>2 DEF Names
<1>. HIDE DEF q, end, idle
<1>. QED
  BY <1>1

LEMMA DmcStartUnits ==
    ASSUME NEW s \in Units, NEW t \in Int
    PROVE  LET r == DmcStart(s, t)
           IN /\ r \in Units /\ Keeps(r, s, {"dmc", "slowed"})
              /\ r.dmc.bit = s.dmc.bit /\ r.dmc.bytes > 0 /\ r.dmc.pcm = s.dmc.pcm
<1>. DEFINE next == IF s.dmc.next = Never THEN t + s.dmc.period \div 2 ELSE s.dmc.next
            q == [s EXCEPT !.dmc.addr = s.dmc.start, !.dmc.bytes = s.dmc.length, !.dmc.next = next]
            d == [s.dmc EXCEPT !.addr = s.dmc.start, !.bytes = s.dmc.length, !.next = next]
<1>u. Fields(s) /\ \A x \in Names : x \in DOMAIN s
  BY UnitFields, UnitNames
<1>1. next \in Int
  <2>1. s.dmc.next \in Int /\ s.dmc.period \in Int
    BY <1>u, DmcNumbers DEF Fields
  <2>. QED
    BY <2>1
<1>r. DmcStart(s, t) = RecalcEnd(q)
  BY DEF DmcStart
<1>. HIDE DEF next
<1>2. Like(q, s)
  BY DEF Like
<1>3. /\ d \in DmcUnits /\ d.pcm = s.dmc.pcm /\ d.bit = s.dmc.bit
      /\ d.bytes = s.dmc.length /\ s.dmc.length > 0
  <2>1. s.dmc \in DmcUnits /\ s.dmc.length \in UpTo(DmcLengths) /\ s.dmc.length > 0
    BY <1>u, DmcNumbers DEF Fields
  <2>. QED
    BY <1>1, <2>1 DEF DmcUnits
<1>4. Keeps(q, s, {"dmc"}) /\ q.dmc = d
  BY <1>u DEF Keeps, Names, Fields, DmcUnits
<1>. HIDE DEF q, d
<1>5. q \in Units
  <2>1. Fields(q)
    BY <1>u, <1>3, <1>4 DEF Fields, Keeps, Names
  <2>. QED
    BY <1>2, <2>1, UnitIntro
<1>. QED
  BY <1>r, <1>3, <1>4, <1>5, RecalcEndUnits DEF Keeps

LEMMA DmcStartSame ==
    ASSUME NEW r \in Units, NEW s \in Units, r.dmc = s.dmc, r.slowed = s.slowed, NEW t \in Int
    PROVE  DmcStart(r, t).dmc = DmcStart(s, t).dmc /\ DmcStart(r, t).slowed = DmcStart(s, t).slowed
<1>. DEFINE next(v) == IF v.dmc.next = Never THEN t + v.dmc.period \div 2 ELSE v.dmc.next
            q(v) == [v EXCEPT !.dmc.addr = v.dmc.start, !.dmc.bytes = v.dmc.length, !.dmc.next = next(v)]
            d(v) == [v.dmc EXCEPT !.addr = v.dmc.start, !.bytes = v.dmc.length, !.next = next(v)]
<1>1. ASSUME NEW v \in Units
      PROVE  DmcStart(v, t) = RecalcEnd(q(v)) /\ q(v) \in Units /\ q(v).dmc = d(v) /\ q(v).slowed = v.slowed
  <2>u. Fields(v) /\ \A x \in Names : x \in DOMAIN v
    BY <1>1, UnitFields, UnitNames
  <2>1. next(v) \in Int
    <3>1. v.dmc.next \in Int /\ v.dmc.period \in Int
      BY <2>u, DmcNumbers DEF Fields
    <3>. QED
      BY <3>1
  <2>2. DmcStart(v, t) = RecalcEnd(q(v))
    BY DEF DmcStart
  <2>. HIDE DEF next
  <2>3. Like(q(v), v)
    BY DEF Like
  <2>4. d(v) \in DmcUnits
    <3>1. v.dmc \in DmcUnits /\ v.dmc.length \in UpTo(DmcLengths)
      BY <2>u, DmcNumbers DEF Fields
    <3>. QED
      BY <2>1, <3>1 DEF DmcUnits
  <2>5. Keeps(q(v), v, {"dmc"}) /\ q(v).dmc = d(v)
    BY <2>u DEF Keeps, Names, Fields, DmcUnits
  <2>. HIDE DEF q, d
  <2>6. q(v) \in Units
    <3>1. Fields(q(v))
      BY <2>u, <2>4, <2>5 DEF Fields, Keeps, Names
    <3>. QED
      BY <1>1, <2>3, <3>1, UnitIntro
  <2>7. q(v).slowed = v.slowed
    BY <2>5 DEF Keeps, Names
  <2>. QED
    BY <2>2, <2>5, <2>6, <2>7
<1>2. d(r) = d(s)
  OBVIOUS
<1>. HIDE DEF q, d
<1>3. q(r) \in Units /\ q(s) \in Units /\ q(r).dmc = q(s).dmc /\ q(r).slowed = q(s).slowed
  BY <1>1, <1>2
<1>4. DmcStart(r, t) = RecalcEnd(q(r)) /\ DmcStart(s, t) = RecalcEnd(q(s))
  BY <1>1
<1>. QED
  BY <1>3, <1>4, RecalcEndSame

LEMMA RecalcEndGood ==
    ASSUME NEW s, Base(s)
    PROVE  LET r == RecalcEnd(s) IN Base(r) /\ (Good(s) => Good(r))
<1>. DEFINE r == RecalcEnd(s)
<1>1. r \in Units /\ Keeps(r, s, {"dmc", "slowed"}) /\ r.dmc.pcm = s.dmc.pcm
  BY Unpack, RecalcEndUnits
<1>. HIDE DEF r
<1>2. r.on = s.on /\ Keeps(r, s, {"on", "fc", "dmc", "offs", "synced", "pcmSynced", "failed", "slowed"})
  BY <1>1 DEF Keeps, Names
<1>3. Base(r) /\ (Good(s) => Good(r))
  BY <1>1, <1>2, AsideGood
<1>. QED
  BY <1>3 DEF r

LEMMA DmcStartGood ==
    ASSUME NEW s, Base(s), NEW t \in Int
    PROVE  LET r == DmcStart(s, t)
           IN Base(r) /\ (Good(s) => Good(r)) /\ r.dmc.bit = s.dmc.bit /\ r.dmc.bytes > 0
<1>. DEFINE r == DmcStart(s, t)
<1>1. /\ r \in Units /\ Keeps(r, s, {"dmc", "slowed"}) /\ r.dmc.pcm = s.dmc.pcm
      /\ r.dmc.bit = s.dmc.bit /\ r.dmc.bytes > 0
  BY Unpack, DmcStartUnits
<1>. HIDE DEF r
<1>2. r.on = s.on /\ Keeps(r, s, {"on", "fc", "dmc", "offs", "synced", "pcmSynced", "failed", "slowed"})
  BY <1>1 DEF Keeps, Names
<1>3. Base(r) /\ (Good(s) => Good(r))
  BY <1>1, <1>2, AsideGood
<1>. QED
  BY <1>1, <1>3 DEF r

LEMMA DmcEndedGood ==
    ASSUME NEW s0, Base(s0), NEW t \in Int
    PROVE  LET r == DmcEnded(s0, t)
           IN /\ Base(r) /\ (Good(s0) => Good(r)) /\ Keeps(r, s0, {"dmc", "on", "failed"})
              /\ r.dmc.bit = s0.dmc.bit
<1>. DEFINE s == Check(s0, s0.dmc.end = t, 586)
            on == (s.on \ {"dmc"}) \cup (IF s.dmc.irq THEN {"dmcirq"} ELSE {})
            r == [s EXCEPT !.on = on, !.dmc.end = Never]
<1>1. Base(s) /\ (Good(s0) => Good(s)) /\ Keeps(s, s0, {"failed"})
  BY CheckBase
<1>r. r = DmcEnded(s0, t)
  BY DEF DmcEnded
<1>. HIDE DEF s
<1>u. s \in Units /\ Fields(s) /\ \A x \in Names : x \in DOMAIN s
  BY <1>1, Unpack
<1>2. Like(r, s)
  BY DEF Like
<1>3. [s.dmc EXCEPT !.end = Never] \in DmcUnits
  BY <1>u, NeverIsTime DEF Fields, DmcUnits
<1>4. on \in SUBSET (Channels \cup {"dmc", "fcirq", "dmcirq"}) /\ on \cap Channels = s.on \cap Channels
  BY <1>u DEF Fields, Channels, Envs, Pulses
<1>. HIDE DEF on
<1>5. /\ Keeps(r, s, {"dmc", "on"}) /\ r.dmc = [s.dmc EXCEPT !.end = Never] /\ r.slowed = s.slowed
      /\ r.on = on /\ r.failed = s.failed
  BY <1>u DEF Keeps, Names
<1>6. r.dmc.pcm = s.dmc.pcm /\ r.dmc.bit = s.dmc.bit
  BY <1>5, <1>u DEF Fields, DmcUnits
<1>. HIDE DEF r
<1>7. Base(r) /\ (Good(s) => Good(r))
  <2>1. Keeps(r, s, {"dmc", "slowed", "on", "failed"})
    BY <1>5 DEF Keeps
  <2>. QED
    BY <1>1, <1>u, <1>2, <1>3, <1>4, <1>5, <1>6, <2>1, DmcGood DEF Fields
<1>8. s.dmc = s0.dmc
  BY <1>1 DEF Keeps, Names
<1>9. Keeps(r, s0, {"dmc", "on", "failed"})
  BY <1>1, <1>5 DEF Keeps
<1>. QED
  BY <1>1, <1>6, <1>7, <1>8, <1>9, <1>r

\* A byte is fetched.
Fetched(s) ==
    [s EXCEPT !.dmc.cur = s.dmc.addr, !.dmc.addr = IF @ = AddrTop THEN AddrBase ELSE @ + 1,
              !.dmc.bytes = @ - 1, !.dmc.bit = Bits]

FetchedDmc(d) ==
    [d EXCEPT !.cur = d.addr, !.addr = IF @ = AddrTop THEN AddrBase ELSE @ + 1,
              !.bytes = @ - 1, !.bit = Bits]

LEMMA FetchedMakes ==
    ASSUME NEW s, Base(s), s.dmc.bytes > 0
    PROVE  LET q == Fetched(s)
           IN /\ Base(q) /\ (Good(s) => Good(q)) /\ Keeps(q, s, {"dmc"}) /\ q.dmc = FetchedDmc(s.dmc)
              /\ q.dmc.bytes = s.dmc.bytes - 1 /\ q.dmc.bit = Bits /\ q.dmc.pcm = s.dmc.pcm
              /\ \A t : Fetch(s, t) = IF q.dmc.bytes > 0 THEN q
                                      ELSE IF s.dmc.loop THEN DmcStart(q, t) ELSE DmcEnded(q, t)
<1>. DEFINE addr == IF s.dmc.addr = AddrTop THEN AddrBase ELSE s.dmc.addr + 1
            bytes == s.dmc.bytes - 1
            q == Fetched(s)
            d == FetchedDmc(s.dmc)
<1>u. s \in Units /\ Fields(s) /\ \A x \in Names : x \in DOMAIN s
  BY Unpack
<1>r. \A t : Fetch(s, t) = IF q.dmc.bytes > 0 THEN q
                          ELSE IF s.dmc.loop THEN DmcStart(q, t) ELSE DmcEnded(q, t)
  BY DEF Fetch, Fetched
<1>q. q = [s EXCEPT !.dmc.cur = s.dmc.addr, !.dmc.addr = addr, !.dmc.bytes = bytes, !.dmc.bit = Bits]
  BY DEF Fetched
<1>d. d = [s.dmc EXCEPT !.cur = s.dmc.addr, !.addr = addr, !.bytes = bytes, !.bit = Bits]
  BY DEF FetchedDmc
<1>. HIDE DEF q, d
<1>1. Like(q, s)
  BY <1>q DEF Like
<1>2. addr \in AddrBase..AddrTop
  BY SMTT(30), <1>u, RegistersAssumption DEF Fields, DmcUnits
<1>3. bytes \in UpTo(DmcLengths)
  BY <1>u, ApuAssumption, CountDown DEF Fields, DmcUnits
<1>4. Bits \in 0..Bits
  BY RegistersAssumption
<1>n. bytes = s.dmc.bytes - 1
  OBVIOUS
<1>. HIDE DEF addr, bytes
<1>5. d \in DmcUnits /\ d.pcm = s.dmc.pcm /\ d.bit = Bits /\ d.bytes = bytes
  BY <1>d, <1>2, <1>3, <1>4, <1>u DEF Fields, DmcUnits
<1>6. /\ Keeps(q, s, {"dmc"}) /\ q.dmc = d /\ q.slowed = s.slowed
      /\ q.on = s.on /\ q.failed = s.failed
  BY <1>d, <1>q, <1>u DEF Keeps, Names, Fields, DmcUnits
<1>7. Base(q) /\ (Good(s) => Good(q))
  <2>1. Keeps(q, s, {"dmc", "slowed", "on", "failed"})
    BY <1>6 DEF Keeps
  <2>. QED
    BY <1>u, <1>1, <1>5, <1>6, <2>1, DmcGood DEF Fields
<1>. QED
  BY <1>n, <1>r, <1>5, <1>6, <1>7 DEF q, d

LEMMA FetchGood ==
    ASSUME NEW s, Base(s), NEW t \in Int, s.dmc.bytes > 0
    PROVE  LET r == Fetch(s, t)
           IN Base(r) /\ (Good(s) => Good(r)) /\ r.dmc.bit = Bits
<1>. DEFINE q == Fetched(s)
<1>1. /\ Base(q) /\ (Good(s) => Good(q)) /\ q.dmc.bit = Bits
      /\ Fetch(s, t) = IF q.dmc.bytes > 0 THEN q ELSE IF s.dmc.loop THEN DmcStart(q, t) ELSE DmcEnded(q, t)
  BY FetchedMakes
<1>. HIDE DEF q
<1>. QED
  BY <1>1, DmcStartGood, DmcEndedGood

LEMMA ShiftGood ==
    ASSUME NEW s, Base(s), NEW t \in Int, s.dmc.bit > 0
    PROVE  LET r == Shift(s, t)
           IN Base(r) /\ (Good(s) => Good(r))
<1>. DEFINE level == s.dmc.pcm + (IF Rom[s.dmc.cur][Bits - s.dmc.bit + 1] = 1 THEN 1 ELSE -1)
            heard == IF level \in 0..PcmTop THEN SyncPcm(s, t, level) ELSE s
            r == [heard EXCEPT !.dmc.bit = @ - 1]
<1>r. r = Shift(s, t)
  BY DEF Shift
<1>1. /\ Base(heard) /\ (Good(s) => Good(heard))
      /\ heard.dmc = s.dmc \/ \E l \in 0..PcmTop : heard.dmc = [s.dmc EXCEPT !.pcm = l]
  <2>. HIDE DEF level
  <2>1. CASE level \in 0..PcmTop
    <3>1. heard = SyncPcm(s, t, level)
      BY <2>1
    <3>. HIDE DEF heard
    <3>2. Base(heard) /\ (Good(s) => Good(heard)) /\ heard.dmc = [s.dmc EXCEPT !.pcm = level]
      BY <2>1, <3>1, SyncPcmGood
    <3>. QED
      BY <2>1, <3>2
  <2>2. CASE level \notin 0..PcmTop
    BY <2>2
  <2>. QED
    BY <2>1, <2>2
<1>. HIDE DEF heard
<1>u. heard \in Units /\ Fields(heard) /\ \A x \in Names : x \in DOMAIN heard
  BY <1>1, Unpack
<1>2. heard.dmc.bit = s.dmc.bit
  BY <1>1, Unpack DEF Fields, DmcUnits
<1>3. Like(r, heard)
  BY DEF Like
<1>4. heard.dmc.bit - 1 \in 0..Bits
  BY <1>u, <1>2, RegistersAssumption DEF Fields, DmcUnits
<1>5. /\ Keeps(r, heard, {"dmc"}) /\ r.dmc = [heard.dmc EXCEPT !.bit = heard.dmc.bit - 1]
      /\ r.slowed = heard.slowed /\ r.on = heard.on /\ r.failed = heard.failed
  BY <1>u DEF Keeps, Names
<1>6. r.dmc \in DmcUnits /\ r.dmc.pcm = heard.dmc.pcm
  BY <1>4, <1>5, <1>u DEF Fields, DmcUnits
<1>. HIDE DEF r
<1>7. Base(r) /\ (Good(heard) => Good(r))
  <2>1. Keeps(r, heard, {"dmc", "slowed", "on", "failed"})
    BY <1>5 DEF Keeps
  <2>. QED
    BY <1>u, <1>1, <1>3, <1>5, <1>6, <2>1, DmcGood DEF Fields
<1>. QED
  BY <1>r, <1>1, <1>7

LEMMA DmcDueGood ==
    ASSUME NEW s, Good(s)
    PROVE  Good(DmcDue(s))
<1>. DEFINE t == s.dmc.next
            next == s.dmc.next + s.dmc.period
            d == [s EXCEPT !.dmc.next = next]
            stop == [d EXCEPT !.dmc.next = Never, !.dmc.end = Never, !.slowed = FALSE]
<1>r. DmcDue(s) = IF d.dmc.bit > 0 THEN Shift(d, t)
                  ELSE IF d.dmc.bytes > 0 THEN Shift(Fetch(d, t), t)
                  ELSE IF d.dmc.loop /\ "dmc" \in d.enable THEN Shift(Fetch(DmcStart(d, t), t), t)
                  ELSE stop
  BY DEF DmcDue
<1>u. s \in Units /\ Fields(s) /\ \A x \in Names : x \in DOMAIN s
  BY Unpack DEF Good
<1>1. t \in Int /\ next \in Int
  BY <1>u, DmcNumbers DEF Fields
<1>. HIDE DEF t, next
<1>2. Good(d)
  <2>1. Like(d, s)
    BY DEF Like
  <2>2. [s.dmc EXCEPT !.next = next] \in DmcUnits /\ [s.dmc EXCEPT !.next = next].pcm = s.dmc.pcm
    BY <1>1, <1>u DEF Fields, DmcUnits
  <2>3. /\ Keeps(d, s, {"dmc", "slowed", "on", "failed"}) /\ d.dmc = [s.dmc EXCEPT !.next = next]
        /\ d.slowed = s.slowed /\ d.on = s.on /\ d.failed = s.failed
    BY <1>u DEF Keeps, Names
  <2>. HIDE DEF d
  <2>. QED
    BY <1>u, <2>1, <2>2, <2>3, DmcGood DEF Fields, Good
<1>. HIDE DEF d
<1>v. d \in Units /\ Fields(d) /\ \A x \in Names : x \in DOMAIN d
  BY <1>2, Unpack DEF Good
<1>b. Bits > 0
  BY RegistersAssumption
<1>3. CASE d.dmc.bit > 0
  <2>. HIDE DEF stop
  <2>. QED
    BY <1>r, <1>1, <1>2, <1>3, ShiftGood DEF Good
<1>4. CASE ~(d.dmc.bit > 0) /\ d.dmc.bytes > 0
  <2>. HIDE DEF stop
  <2>1. Good(Fetch(d, t)) /\ Fetch(d, t).dmc.bit > 0
    BY <1>1, <1>2, <1>4, <1>b, FetchGood DEF Good
  <2>2. Good(Shift(Fetch(d, t), t))
    BY <1>1, <2>1, ShiftGood DEF Good
  <2>. QED
    BY <1>r, <1>4, <2>2
<1>5. CASE ~(d.dmc.bit > 0) /\ ~(d.dmc.bytes > 0) /\ d.dmc.loop /\ "dmc" \in d.enable
  <2>. HIDE DEF stop
  <2>1. Good(DmcStart(d, t)) /\ DmcStart(d, t).dmc.bytes > 0
    BY <1>1, <1>2, DmcStartGood DEF Good
  <2>2. Good(Fetch(DmcStart(d, t), t)) /\ Fetch(DmcStart(d, t), t).dmc.bit > 0
    BY <1>1, <1>b, <2>1, FetchGood DEF Good
  <2>3. Good(Shift(Fetch(DmcStart(d, t), t), t))
    BY <1>1, <2>2, ShiftGood DEF Good
  <2>. QED
    BY <1>r, <1>5, <2>3
<1>6. Good(stop)
  <2>1. Like(stop, d)
    BY DEF Like
  <2>0. Never \in Int
    BY NeverIsTime
  <2>2. /\ [d.dmc EXCEPT !.next = Never, !.end = Never] \in DmcUnits
        /\ [d.dmc EXCEPT !.next = Never, !.end = Never].pcm = d.dmc.pcm
    BY <1>v, <2>0 DEF Fields, DmcUnits
  <2>3. /\ Keeps(stop, d, {"dmc", "slowed", "on", "failed"}) /\ stop.dmc = [d.dmc EXCEPT !.next = Never, !.end = Never]
        /\ stop.slowed = FALSE /\ stop.on = d.on /\ stop.failed = d.failed
    BY <1>v DEF Keeps, Names
  <2>. HIDE DEF stop
  <2>. QED
    BY <1>2, <1>v, <2>1, <2>2, <2>3, DmcGood DEF Fields, Good
<1>. HIDE DEF stop
<1>. QED
  BY <1>r, <1>3, <1>4, <1>5, <1>6

\* The loop of dmc_update_body(), round by round: every unit on the way is good.
LEMMA DmcRounds ==
    ASSUME NEW s, Good(s), NEW t \in Int, t >= s.dmc.next
    PROVE  LET m == t - s.dmc.next + 1
           IN \E g : /\ g[0] = s /\ \A n \in 0..m : Good(g[n])
                     /\ \A n \in 1..m : g[n] = IF t >= g[n - 1].dmc.next THEN DmcDue(g[n - 1]) ELSE g[n - 1]
                     /\ UpdateDmc(s, t) = g[m]
<1>. DEFINE rounds == t - s.dmc.next + 1
            Body(G, n) == IF n = 0 THEN s
                          ELSE LET r == G[n - 1] IN IF t >= r.dmc.next THEN DmcDue(r) ELSE r
            F == CHOOSE G : G = [n \in 0..rounds |-> Body(G, n)]
            step == [r \in GoodUnits |-> IF t >= r.dmc.next THEN DmcDue(r) ELSE r]
<1>1. rounds \in Nat
  BY Unpack, DmcNumbers DEF Good, Fields
<1>2. step \in [GoodUnits -> GoodUnits]
  <2>1. \A r \in GoodUnits : step[r] \in GoodUnits
    BY GoodIsIn, DmcDueGood
  <2>. QED
    BY <2>1
<1>3. s \in GoodUnits
  BY GoodIsIn
<1>4. UpdateDmc(s, t) = F[rounds]
  BY DEF UpdateDmc, rounds
<1>. HIDE DEF rounds
<1>5. PICK g : IsRun(g, GoodUnits, step, s, rounds)
  <2>. HIDE DEF step
  <2>. QED
    BY <1>1, <1>2, <1>3, Rounds
<1>6. g = [n \in 0..rounds |-> Body(g, n)]
  <2>1. ASSUME NEW n \in 0..rounds PROVE g[n] = Body(g, n)
    <3>1. CASE n = 0
      BY <1>5, <3>1 DEF IsRun
    <3>2. CASE n # 0
      <4>1. n - 1 \in 0..rounds /\ n \in 1..rounds
        BY <1>1, <3>2
      <4>. QED
        BY <1>5, <3>2, <4>1 DEF IsRun
    <3>. QED
      BY <3>1, <3>2
  <2>. HIDE DEF Body
  <2>. QED
    BY <1>5, <2>1 DEF IsRun
<1>7. F = [n \in 0..rounds |-> Body(F, n)]
  <2>. HIDE DEF Body
  <2>. QED
    BY <1>6
<1>. HIDE DEF F
<1>8. /\ F[0] = s
      /\ \A n \in 1..rounds : F[n] = IF t >= F[n - 1].dmc.next THEN DmcDue(F[n - 1]) ELSE F[n - 1]
  BY <1>1, <1>7
<1>9. \A n \in 0..rounds : Good(F[n])
  <2>. DEFINE S == {n \in 0..rounds : Good(F[n])}
  <2>1. 0 \in S
    BY <1>1, <1>8
  <2>2. ASSUME NEW n \in 0..rounds, n # 0, n - 1 \in S PROVE n \in S
    BY <1>1, <1>8, <2>2, DmcDueGood
  <2>3. 0..rounds \subseteq S
    <3>. HIDE DEF S
    <3>. QED
      BY <1>1, <2>1, <2>2, UpToBound
  <2>. QED
    BY <2>3
<1>. QED
  BY <1>4, <1>8, <1>9 DEF rounds

LEMMA UpdateDmcGood ==
    ASSUME NEW s, Good(s), NEW t \in Int
    PROVE  Good(UpdateDmc(s, t))
<1>1. CASE t >= s.dmc.next
  <2>. DEFINE m == t - s.dmc.next + 1
  <2>0. m \in 0..m
    BY <1>1, Unpack, DmcNumbers DEF Good, Fields
  <2>1. \E g : Good(g[m]) /\ UpdateDmc(s, t) = g[m]
    BY <1>1, <2>0, DmcRounds
  <2>. QED
    BY <2>1
<1>2. CASE ~(t >= s.dmc.next)
  BY <1>2 DEF UpdateDmc
<1>. QED
  BY <1>1, <1>2

-----------------------------------------------------------------------------
(* The registers. *)

LEMMA CatchUpGood ==
    ASSUME NEW s, Good(s), NEW t \in Int
    PROVE  Good(CatchUp(s, t))
BY UpdateFcGood, UpdateTriangleGood DEF CatchUp, Good

LEMMA SetVolumeGood ==
    ASSUME NEW s, Good(s), NEW t \in Int, NEW e \in Envs, NEW period \in EnvPeriods,
           NEW const \in BOOLEAN, NEW loop \in BOOLEAN
    PROVE  Good(SetVolume(s, t, e, period, const, loop))
<1>. DEFINE env == [s.env[e] EXCEPT !.period = period, !.const = const, !.loop = loop]
            q == [s EXCEPT !.env[e] = env]
            vol == IF q.env[e].const THEN q.env[e].period ELSE q.env[e].level
            r == [q EXCEPT !.vol[e] = vol]
<1>u. s \in Units /\ Fields(s) /\ \A x \in Names : x \in DOMAIN s
  BY Unpack DEF Good
<1>r. SetVolume(s, t, e, period, const, loop) = SyncApu(r, t)
  BY DEF SetVolume, CacheVolume
<1>1. env \in EnvUnits
  <2>1. s.env[e] \in EnvUnits /\ period \in 0..EnvTop
    BY <1>u, ApuAssumption DEF Fields
  <2>. QED
    BY <2>1 DEF EnvUnits
<1>. HIDE DEF env
<1>2. q.env[e] = env /\ q.vol = s.vol
  BY <1>u DEF Names, Fields
<1>3. vol \in 0..EnvTop /\ vol = IF env.const THEN env.period ELSE env.level
  BY <1>1, <1>2 DEF EnvUnits
<1>. HIDE DEF vol
<1>4. Like(r, s)
  BY DEF Like
<1>5. /\ Keeps(r, s, {"env", "vol"}) /\ r.env = [s.env EXCEPT ![e] = env]
      /\ r.vol = [s.vol EXCEPT ![e] = vol]
  BY <1>u DEF Keeps, Names
<1>. HIDE DEF r, q
<1>6. r \in Units
  <2>1. r.env \in [Envs -> EnvUnits] /\ r.vol \in [Envs -> 0..EnvTop]
    BY <1>1, <1>3, <1>5, <1>u DEF Fields
  <2>2. Fields(r)
    BY <1>u, <1>5, <2>1 DEF Fields, Keeps, Names
  <2>. QED
    BY <1>u, <1>4, <2>2, UnitIntro
<1>7. Cached(r)
  BY <1>3, <1>5, <1>u DEF Cached, Volume, Good, Base, Fields
<1>8. Base(r)
  BY <1>5, <1>6, <1>7 DEF Keeps, Names, Good, Base, LengthsAndStatus, TriangleSettled, DeltasAddUp,
     ResetsInPlace, SweepsFit
<1>. QED
  BY <1>r, <1>8, SyncApuGood

LEMMA SetSweepGood ==
    ASSUME NEW s, Good(s), NEW t \in Int, NEW p \in Pulses, NEW period \in SweepPeriods,
           NEW enable \in BOOLEAN, NEW neg \in BOOLEAN, NEW mult \in Mults
    PROVE  Good(SetSweep(s, t, p, period, enable, neg, mult))
<1>. DEFINE on == enable /\ mult < MultUnit
            sweep == [s.sweep[p] EXCEPT !.period = period, !.on = on, !.neg = neg, !.mult = mult,
                                        !.reload = TRUE]
            r == [s EXCEPT !.sweep[p] = sweep]
<1>u. s \in Units /\ Fields(s) /\ \A x \in Names : x \in DOMAIN s
  BY Unpack DEF Good
<1>r. SetSweep(s, t, p, period, enable, neg, mult) = SyncApu(r, t)
  BY DEF SetSweep
<1>0. /\ MultUnit \in Nat /\ period \in Nat /\ mult \in Nat
      /\ mult = MultUnit \/ 2 * mult <= MultUnit
  BY RegistersAssumption
<1>1. mult \in 0..MultUnit /\ on \in BOOLEAN /\ (on => 2 * mult <= MultUnit)
  BY <1>0
<1>. HIDE DEF on
<1>2. sweep \in SweepUnits /\ sweep.on = on /\ sweep.mult = mult
  <2>1. s.sweep[p] \in SweepUnits
    BY <1>u DEF Fields
  <2>. QED
    BY <1>0, <1>1, <2>1 DEF SweepUnits
<1>. HIDE DEF sweep
<1>4. Like(r, s)
  BY DEF Like
<1>5. Keeps(r, s, {"sweep"}) /\ r.sweep = [s.sweep EXCEPT ![p] = sweep]
  BY <1>u DEF Keeps, Names
<1>. HIDE DEF r
<1>6. r \in Units
  <2>1. r.sweep \in [Pulses -> SweepUnits]
    BY <1>2, <1>5, <1>u DEF Fields
  <2>2. Fields(r)
    BY <1>u, <1>5, <2>1 DEF Fields, Keeps, Names
  <2>. QED
    BY <1>u, <1>4, <2>2, UnitIntro
<1>7. SweepsFit(r)
  BY <1>1, <1>2, <1>5, <1>u DEF SweepsFit, Good, Base, Fields
<1>8. Base(r)
  BY <1>5, <1>6, <1>7 DEF Keeps, Names, Good, Base, LengthsAndStatus, TriangleSettled, DeltasAddUp,
     ResetsInPlace, Cached, Volume
<1>. QED
  BY <1>r, <1>8, SyncApuGood

\* A period's two bytes.
LEMMA PeriodBytes ==
    ASSUME NEW f \in 0..FreqTop
    PROVE  /\ \A v \in LowBytes : (f \div FreqLow) * FreqLow + v \in 0..FreqTop
           /\ \A v \in HighBits : (f % FreqLow) + v * FreqLow \in 0..FreqTop
<1>. DEFINE q == f \div FreqLow
            r == f % FreqLow
            L == FreqLow
            top == FreqTop
<1>1. PICK n \in 1 .. top + 1 : top + 1 = n * L /\ HighBits \subseteq 0..n - 1
  BY RegistersAssumption
<1>2. L \in Nat \ {0} /\ top \in Nat /\ LowBytes \subseteq 0..L - 1 /\ f \in 0..top
  BY RegistersAssumption
<1>3. f = L * q + r /\ q \in Int /\ r \in 0..L - 1
  BY <1>2, DivMod
<1>. HIDE DEF q, r, L, top
<1>4. q \in 0..n - 1
  <2>1. L * q < L * n
    BY <1>1, <1>2, <1>3
  <2>2. q < n
    BY <1>1, <1>2, <1>3, <2>1
  <2>3. L * q > -L
    BY <1>1, <1>2, <1>3
  <2>4. q > -1
    BY <1>2, <1>3, <2>3
  <2>. QED
    BY <1>1, <1>3, <2>2, <2>4
<1>5. ASSUME NEW a \in 0..n - 1, NEW b \in 0..L - 1 PROVE a * L + b \in 0..top
  <2>1. a * L \in Nat /\ a * L <= (n - 1) * L
    BY <1>1, <1>2
  <2>2. (n - 1) * L = n * L - L /\ (n - 1) * L \in Int
    BY <1>1, <1>2
  <2>. QED
    BY <1>1, <1>2, <2>1, <2>2
<1>6. \A v \in LowBytes : q * L + v \in 0..top
  BY <1>2, <1>4, <1>5
<1>7. \A v \in HighBits : r + v * L \in 0..top
  <2>1. ASSUME NEW v \in HighBits PROVE r + v * L \in 0..top
    <3>1. v \in 0..n - 1 /\ v * L + r \in 0..top
      BY <1>1, <1>3, <1>5
    <3>2. v * L \in Int /\ r \in Int
      BY <1>2, <1>3, <3>1
    <3>. QED
      BY <3>1, <3>2
  <2>. QED
    BY <2>1
<1>. QED
  BY <1>6, <1>7 DEF q, r, L, top

LEMMA FreqBase ==
    ASSUME NEW s, Base(s), NEW p \in Pulses, NEW f \in 0..FreqTop
    PROVE  LET r == [s EXCEPT !.freq[p] = f]
           IN Base(r) /\ Keeps(r, s, {"freq"})
<1>. DEFINE r == [s EXCEPT !.freq[p] = f]
<1>u. s \in Units /\ Fields(s) /\ \A x \in Names : x \in DOMAIN s
  BY Unpack
<1>1. Like(r, s)
  BY DEF Like
<1>2. Keeps(r, s, {"freq"}) /\ r.freq = [s.freq EXCEPT ![p] = f]
  BY <1>u DEF Keeps, Names
<1>3. Fields(r)
  BY <1>u DEF Fields, Names
<1>4. r \in Units
  BY <1>u, <1>1, <1>3, UnitIntro
<1>. HIDE DEF r
<1>5. Base(r)
  BY <1>2, <1>4 DEF Keeps, Names, Base, LengthsAndStatus, TriangleSettled, DeltasAddUp,
     ResetsInPlace, Cached, SweepsFit, Volume
<1>. QED
  BY <1>2, <1>5 DEF r

LEMMA SetLowGood ==
    ASSUME NEW s, Good(s), NEW t \in Int, NEW p \in Pulses, NEW v \in LowBytes
    PROVE  Good(SetLow(s, t, p, v))
<1>1. (s.freq[p] \div FreqLow) * FreqLow + v \in 0..FreqTop
  BY Unpack, PeriodBytes DEF Good, Fields
<1>2. SetLow(s, t, p, v) = SyncApu([s EXCEPT !.freq[p] = (s.freq[p] \div FreqLow) * FreqLow + v], t)
  BY DEF SetLow
<1>. QED
  BY <1>1, <1>2, FreqBase, SyncApuGood DEF Good

\* Writes that load a length counter start an envelope or, for the triangle, a
\* delay; the first is no concern of the invariants.
LEMMA LoadLengthBase ==
    ASSUME NEW s, Base(s), NEW c \in Envs, NEW length \in Lengths
    PROVE  LET r == [LoadLength(s, c, length) EXCEPT !.env[c].reload = TRUE]
           IN Base(r) /\ Keeps(r, s, {"len", "on", "env"})
<1>. DEFINE len == IF c \in s.enable THEN [s.len EXCEPT ![c] = length] ELSE s.len
            on == IF c \in s.enable THEN s.on \cup {c} ELSE s.on
            q == LoadLength(s, c, length)
            env == [q.env EXCEPT ![c].reload = TRUE]
            r == [q EXCEPT !.env[c].reload = TRUE]
<1>u. s \in Units /\ Fields(s) /\ \A x \in Names : x \in DOMAIN s
  BY Unpack
<1>0. length \in UpTo(Lengths) /\ length > 0 /\ c \in Channels /\ c # "tri"
  BY ApuAssumption DEF UpTo, Channels, Envs, Pulses
<1>1. /\ Like(q, s) /\ Keeps(q, s, {"len", "on"}) /\ q.len = len /\ q.on = on
      /\ \A x \in Names : x \in DOMAIN q
  <2>1. CASE c \in s.enable
    <3>1. q = [s EXCEPT !.len[c] = length, !.on = s.on \cup {c}]
      BY <2>1 DEF LoadLength
    <3>. HIDE DEF q
    <3>. QED
      BY <1>u, <2>1, <3>1 DEF Like, Keeps, Names
  <2>2. CASE c \notin s.enable
    <3>1. q = s
      BY <2>2 DEF LoadLength
    <3>2. Like(s, s)
      BY <1>u DEF Like, Units
    <3>. HIDE DEF q
    <3>. QED
      BY <1>u, <2>2, <3>1, <3>2 DEF Keeps, Names
  <2>. QED
    BY <2>1, <2>2
<1>. HIDE DEF q
<1>2. /\ len \in [Channels -> UpTo(Lengths)] /\ on \in SUBSET (Channels \cup {"dmc", "fcirq", "dmcirq"})
  BY <1>u, <1>0 DEF Fields
<1>3. q.env = s.env /\ q.tri = s.tri
  BY <1>1 DEF Keeps, Names
<1>4. env \in [Envs -> EnvUnits]
  <2>1. \A e \in Envs : env[e] \in EnvUnits
    BY <1>3, <1>u DEF Fields, EnvUnits
  <2>. QED
    BY <1>3, <1>u, <2>1 DEF Fields
<1>5. \A e \in Envs : env[e].const = s.env[e].const /\ env[e].period = s.env[e].period /\ env[e].level = s.env[e].level
  BY <1>3, <1>u DEF Fields, EnvUnits
<1>6. Like(r, s)
  BY <1>1 DEF Like
<1>7. Keeps(r, q, {"env"}) /\ r.env = env
  BY <1>1 DEF Keeps, Names
<1>8. Keeps(r, s, {"len", "on", "env"}) /\ r.len = len /\ r.on = on
  BY <1>1, <1>7 DEF Keeps, Names
<1>9. \A x \in Channels : /\ x \in on <=> len[x] > 0
                          /\ x \in on => x \in s.enable
  BY <1>u, <1>0 DEF Fields, Base, LengthsAndStatus
<1>10. len["tri"] = s.len["tri"]
  BY <1>0
<1>. HIDE DEF r, len, on, env
<1>11. r \in Units
  <2>1. Fields(r)
    BY <1>u, <1>2, <1>4, <1>7, <1>8 DEF Fields, Keeps, Names
  <2>. QED
    BY <1>u, <1>6, <2>1, UnitIntro
<1>12. LengthsAndStatus(r) /\ TriangleSettled(r)
  <2>1. r.enable = s.enable /\ r.tri = s.tri /\ r.triFreq = s.triFreq
    BY <1>8 DEF Keeps, Names
  <2>2. LengthsAndStatus(r)
    BY <1>8, <1>9, <2>1, Zenon DEF LengthsAndStatus
  <2>3. TriangleSettled(r)
    BY <1>8, <1>10, <2>1 DEF TriangleSettled, Base
  <2>. QED
    BY <2>2, <2>3
<1>13. Cached(r)
  BY <1>5, <1>7, <1>8 DEF Cached, Volume, Base, Keeps, Names
<1>14. Base(r)
  BY <1>8, <1>11, <1>12, <1>13 DEF Keeps, Names, Base, DeltasAddUp, ResetsInPlace, SweepsFit
<1>. QED
  BY <1>8, <1>14 DEF r, q

LEMMA SetHighGood ==
    ASSUME NEW s, Good(s), NEW t \in Int, NEW p \in Pulses, NEW v \in HighBits, NEW length \in Lengths
    PROVE  Good(SetHigh(s, t, p, v, length))
<1>. DEFINE f == (s.freq[p] % FreqLow) + v * FreqLow
            low == [s EXCEPT !.freq[p] = f]
            q == [LoadLength(low, p, length) EXCEPT !.env[p].reload = TRUE]
            loaded == SyncApu(q, t)
            sample == SampleTime(s, t)
            r == [loaded EXCEPT !.fifo.carry = loaded.fifo.carry \cup {p},
                                !.owed = loaded.owed \cup {<<p, sample>>}]
<1>r. SetHigh(s, t, p, v, length) = r
  BY DEF SetHigh
<1>1. f \in 0..FreqTop
  BY Unpack, PeriodBytes DEF Good, Fields
<1>. HIDE DEF f
<1>2. Base(low) /\ Keeps(low, s, {"freq"})
  BY <1>1, FreqBase DEF Good
<1>. HIDE DEF low
<1>3. Base(q) /\ Keeps(q, low, {"len", "on", "env"})
  BY <1>2, LoadLengthBase DEF Envs
<1>. HIDE DEF q
<1>4. Good(loaded) /\ loaded.fifo.sample = SampleTime(q, t)
  BY <1>3, SyncApuGood
<1>5. loaded.fifo.sample = sample
  <2>1. q.offs = s.offs
    BY <1>2, <1>3 DEF Keeps, Names
  <2>. QED
    BY <1>4, <2>1 DEF SampleTime
<1>6. sample \in Samples
  BY Unpack, SampleTimeType DEF Good
<1>. HIDE DEF loaded, sample
<1>u. loaded \in Units /\ Fields(loaded) /\ \A x \in Names : x \in DOMAIN loaded
  BY <1>4, Unpack DEF Good
<1>7. Like(r, loaded)
  BY DEF Like
<1>8. /\ Keeps(r, loaded, {"fifo", "owed"})
      /\ r.fifo = [loaded.fifo EXCEPT !.carry = loaded.fifo.carry \cup {p}]
      /\ r.owed = loaded.owed \cup {<<p, sample>>}
  BY <1>u DEF Keeps, Names
<1>. HIDE DEF r
<1>9. /\ r.fifo \in FifoUnits /\ r.fifo.pending = loaded.fifo.pending /\ r.fifo.sample = sample
      /\ r.fifo.carry = loaded.fifo.carry \cup {p}
  <2>. DEFINE carry == loaded.fifo.carry \cup {p}
  <2>1. loaded.fifo \in FifoUnits
    BY <1>u DEF Fields
  <2>2. carry \in SUBSET Pulses
    BY <2>1 DEF FifoUnits
  <2>3. r.fifo = [loaded.fifo EXCEPT !.carry = carry]
    BY <1>8
  <2>. HIDE DEF carry
  <2>4. /\ r.fifo \in FifoUnits /\ r.fifo.pending = loaded.fifo.pending
        /\ r.fifo.sample = loaded.fifo.sample /\ r.fifo.carry = carry
    BY <2>1, <2>2, <2>3 DEF FifoUnits
  <2>. QED
    BY <1>5, <2>4 DEF carry
<1>10. r \in Units
  <2>1. r.owed \in SUBSET (Pulses \X Samples)
    BY <1>6, <1>8, <1>u DEF Fields
  <2>2. Fields(r)
    BY <1>u, <1>8, <1>9, <2>1 DEF Fields, Keeps, Names
  <2>. QED
    BY <1>u, <1>7, <2>2, UnitIntro
<1>11. ResetsInPlace(r)
  BY <1>4, <1>5, <1>8, <1>9 DEF ResetsInPlace, Good, Base
<1>12. /\ r.len = loaded.len /\ r.on = loaded.on /\ r.enable = loaded.enable /\ r.tri = loaded.tri
       /\ r.triFreq = loaded.triFreq /\ r.vol = loaded.vol /\ r.env = loaded.env
       /\ r.sweep = loaded.sweep /\ r.freq = loaded.freq /\ r.sum = loaded.sum
       /\ r.out = loaded.out /\ r.dmc = loaded.dmc
  BY <1>8 DEF Keeps, Names
<1>13. Base(r)
  BY SMTT(30), <1>4, <1>10, <1>11, <1>12 DEF Good, Base, LengthsAndStatus,
     TriangleSettled, DeltasAddUp, Cached, SweepsFit, Volume
<1>14. Current(r)
  BY <1>4, <1>9, <1>12 DEF Good, Current, Sound, Volume
<1>. QED
  BY <1>r, <1>13, <1>14 DEF Good

LEMMA SetNoiseLengthGood ==
    ASSUME NEW s, Good(s), NEW t \in Int, NEW length \in Lengths
    PROVE  Good(SetNoiseLength(s, t, length))
BY LoadLengthBase, SyncApuGood DEF SetNoiseLength, Good, Envs

LEMMA TriBase ==
    ASSUME NEW s, Good(s), NEW r, Like(r, s), Keeps(r, s, {"tri", "len", "on"}), r.tri \in TriUnits,
           r.len \in [Channels -> UpTo(Lengths)],
           r.on \in SUBSET (Channels \cup {"dmc", "fcirq", "dmcirq"}),
           LengthsAndStatus(r), \A e \in Envs : r.len[e] = s.len[e],
           TriangleSettled(r)
    PROVE  Good(r)
<1>u. s \in Units /\ Fields(s)
  BY Unpack DEF Good
<1>1. r \in Units
  <2>1. Fields(r)
    BY <1>u DEF Fields, Keeps, Names
  <2>. QED
    BY <1>u, <2>1, UnitIntro
<1>2. /\ r.triFreq = s.triFreq /\ r.vol = s.vol /\ r.env = s.env /\ r.sweep = s.sweep
      /\ r.freq = s.freq /\ r.sum = s.sum /\ r.out = s.out /\ r.dmc = s.dmc /\ r.owed = s.owed
      /\ r.fifo = s.fifo
  BY DEF Keeps, Names
<1>3. Sound(r) = Sound(s)
  BY <1>2 DEF Sound, Volume, Channels
<1>. QED
  BY <1>1, <1>2, <1>3 DEF Good, Base, Current, DeltasAddUp, ResetsInPlace, Cached, SweepsFit, Volume

LEMMA SetLinearGood ==
    ASSUME NEW s, Good(s), NEW halt \in BOOLEAN, NEW count \in LinearCounts
    PROVE  Good(SetLinear(s, halt, count))
<1>. DEFINE r == [s EXCEPT !.tri.halt = halt, !.tri.count = count]
<1>u. s \in Units /\ Fields(s) /\ \A x \in Names : x \in DOMAIN s
  BY Unpack DEF Good
<1>r. SetLinear(s, halt, count) = r
  BY DEF SetLinear
<1>1. Like(r, s)
  BY DEF Like
<1>2. Keeps(r, s, {"tri"}) /\ r.tri = [s.tri EXCEPT !.halt = halt, !.count = count]
  BY <1>u DEF Keeps, Names
<1>3. /\ r.tri \in TriUnits /\ r.tri.delay = s.tri.delay /\ r.tri.ll = s.tri.ll
      /\ r.tri.period = s.tri.period
  <2>1. s.tri \in TriUnits /\ count \in Nat
    BY <1>u, RegistersAssumption DEF Fields
  <2>. HIDE DEF r
  <2>. QED
    BY <1>2, <2>1 DEF TriUnits
<1>. HIDE DEF r
<1>4. r.len = s.len /\ r.on = s.on /\ r.enable = s.enable /\ r.triFreq = s.triFreq
  BY <1>2 DEF Keeps, Names
<1>5. LengthsAndStatus(r) /\ TriangleSettled(r)
  BY <1>3, <1>4 DEF LengthsAndStatus, TriangleSettled, Good, Base
<1>6. Keeps(r, s, {"tri", "len", "on"})
  BY <1>2 DEF Keeps
<1>. QED
  BY <1>r, <1>u, <1>1, <1>3, <1>4, <1>5, <1>6, TriBase DEF Fields

LEMMA SetTriLowGood ==
    ASSUME NEW s, Good(s), NEW v \in LowBytes
    PROVE  Good(SetTriLow(s, v))
<1>. DEFINE period == (s.tri.period \div FreqLow) * FreqLow + v
            r == [s EXCEPT !.tri.period = period, !.tri.delay = TriDelay]
<1>u. s \in Units /\ Fields(s) /\ \A x \in Names : x \in DOMAIN s
  BY Unpack DEF Good
<1>r. SetTriLow(s, v) = r
  BY DEF SetTriLow
<1>0. period \in 0..FreqTop /\ TriDelay \in Nat \ {0}
  BY <1>u, PeriodBytes, ApuAssumption DEF Fields, TriUnits
<1>. HIDE DEF period
<1>1. Like(r, s)
  BY DEF Like
<1>2. Keeps(r, s, {"tri"}) /\ r.tri = [s.tri EXCEPT !.period = period, !.delay = TriDelay]
  BY <1>u DEF Keeps, Names
<1>3. r.tri \in TriUnits /\ r.tri.delay > 0
  <2>1. s.tri \in TriUnits
    BY <1>u DEF Fields
  <2>2. TriDelay \in Int /\ TriDelay > 0
    BY <1>0
  <2>. HIDE DEF r
  <2>. QED
    BY <1>0, <1>2, <2>1, <2>2 DEF TriUnits
<1>. HIDE DEF r
<1>4. r.len = s.len /\ r.on = s.on /\ r.enable = s.enable
  BY <1>2 DEF Keeps, Names
<1>5. LengthsAndStatus(r)
  BY <1>4 DEF LengthsAndStatus, Good, Base
<1>6. TriangleSettled(r)
  BY <1>3 DEF TriangleSettled, TriUnits
<1>7. Keeps(r, s, {"tri", "len", "on"})
  BY <1>2 DEF Keeps
<1>. QED
  BY <1>r, <1>u, <1>1, <1>3, <1>4, <1>5, <1>6, <1>7, TriBase DEF Fields

LEMMA SetTriHighGood ==
    ASSUME NEW s, Good(s), NEW v \in HighBits, NEW length \in Lengths
    PROVE  Good(SetTriHigh(s, v, length))
<1>. DEFINE q == LoadLength(s, "tri", length)
            len == IF "tri" \in s.enable THEN [s.len EXCEPT !["tri"] = length] ELSE s.len
            on == IF "tri" \in s.enable THEN s.on \cup {"tri"} ELSE s.on
            period == (q.tri.period % FreqLow) + v * FreqLow
            tri == [q.tri EXCEPT !.period = period, !.delay = TriDelay, !.reload = TRUE]
            r == [q EXCEPT !.tri.period = period, !.tri.delay = TriDelay, !.tri.reload = TRUE]
<1>u. s \in Units /\ Fields(s) /\ \A x \in Names : x \in DOMAIN s
  BY Unpack DEF Good
<1>r. SetTriHigh(s, v, length) = r
  BY DEF SetTriHigh
<1>0. /\ length \in UpTo(Lengths) /\ length > 0 /\ "tri" \in Channels /\ "tri" \notin Envs
      /\ TriDelay \in Nat \ {0}
  BY ApuAssumption DEF UpTo, Channels, Envs, Pulses
<1>1. /\ Like(q, s) /\ Keeps(q, s, {"len", "on"}) /\ q.len = len /\ q.on = on
      /\ \A x \in Names : x \in DOMAIN q
  <2>1. CASE "tri" \in s.enable
    <3>1. q = [s EXCEPT !.len["tri"] = length, !.on = s.on \cup {"tri"}]
      BY <2>1 DEF LoadLength
    <3>. HIDE DEF q
    <3>. QED
      BY <1>u, <2>1, <3>1 DEF Like, Keeps, Names
  <2>2. CASE "tri" \notin s.enable
    <3>1. q = s
      BY <2>2 DEF LoadLength
    <3>2. Like(s, s)
      BY <1>u DEF Like, Units
    <3>. HIDE DEF q
    <3>. QED
      BY <1>u, <2>2, <3>1, <3>2 DEF Keeps, Names
  <2>. QED
    BY <2>1, <2>2
<1>. HIDE DEF q
<1>2. q.tri = s.tri
  BY <1>1 DEF Keeps, Names
<1>3. period \in 0..FreqTop
  BY <1>2, <1>u, PeriodBytes DEF Fields, TriUnits
<1>. HIDE DEF period
<1>4. tri \in TriUnits /\ tri.delay > 0
  <2>1. q.tri \in TriUnits
    BY <1>2, <1>u DEF Fields
  <2>2. TriDelay \in Int /\ TriDelay > 0
    BY <1>0
  <2>. QED
    BY <1>3, <2>1, <2>2 DEF TriUnits
<1>5. Like(r, s)
  BY <1>1 DEF Like
<1>6. Keeps(r, q, {"tri"}) /\ r.tri = tri
  BY <1>1 DEF Keeps, Names
<1>7. Keeps(r, s, {"tri", "len", "on"}) /\ r.len = len /\ r.on = on /\ r.enable = s.enable
  BY <1>1, <1>6 DEF Keeps, Names
<1>8. /\ len \in [Channels -> UpTo(Lengths)] /\ on \in SUBSET (Channels \cup {"dmc", "fcirq", "dmcirq"})
      /\ \A e \in Envs : len[e] = s.len[e]
  BY <1>u, <1>0 DEF Fields, Channels
<1>9. \A x \in Channels : /\ x \in on <=> len[x] > 0
                          /\ x \in on => x \in s.enable
  BY <1>u, <1>0 DEF Fields, Good, Base, LengthsAndStatus
<1>. HIDE DEF r, len, on, tri
<1>10. LengthsAndStatus(r)
  BY <1>7, <1>9, Zenon DEF LengthsAndStatus
<1>11. TriangleSettled(r)
  BY <1>4, <1>6 DEF TriangleSettled, TriUnits
<1>. QED
  BY <1>r, <1>4, <1>5, <1>6, <1>7, <1>8, <1>10, <1>11, TriBase

\* $4010 without its first and last call.
Rated(s, period, loop, irq) ==
    [s EXCEPT !.dmc.period = period, !.dmc.loop = loop, !.dmc.irq = irq,
              !.on = IF irq /\ ~loop THEN @ ELSE @ \ {"dmcirq"},
              !.slowed = @ \/ /\ s.dmc.bytes = 0 /\ s.dmc.end # Never
                              /\ period # s.dmc.period]

IsRated(r, s, period, loop, irq) ==
    /\ Base(r) /\ Keeps(r, s, {"dmc", "slowed", "on"})
    /\ r.dmc = [s.dmc EXCEPT !.period = period, !.loop = loop, !.irq = irq]
    /\ r.on = IF irq /\ ~loop THEN s.on ELSE s.on \ {"dmcirq"}
    /\ r.slowed = (s.slowed \/ /\ s.dmc.bytes = 0 /\ s.dmc.end # Never
                               /\ period # s.dmc.period)

LEMMA RatedMakes ==
    ASSUME NEW s, Base(s), NEW period \in DmcPeriods, NEW loop \in BOOLEAN, NEW irq \in BOOLEAN
    PROVE  LET r == Rated(s, period, loop, irq)
           IN IsRated(r, s, period, loop, irq) /\ (Good(s) => Good(r))
<1>. DEFINE on == IF irq /\ ~loop THEN s.on ELSE s.on \ {"dmcirq"}
            slowed == s.slowed \/ /\ s.dmc.bytes = 0 /\ s.dmc.end # Never
                                  /\ period # s.dmc.period
            r == Rated(s, period, loop, irq)
<1>r. r = [s EXCEPT !.dmc.period = period, !.dmc.loop = loop, !.dmc.irq = irq, !.on = on, !.slowed = slowed]
  BY DEF Rated
<1>u. s \in Units /\ Fields(s) /\ \A x \in Names : x \in DOMAIN s
  BY Unpack
<1>2. /\ slowed \in BOOLEAN /\ on \in SUBSET (Channels \cup {"dmc", "fcirq", "dmcirq"})
      /\ on \cap Channels = s.on \cap Channels
  BY <1>u DEF Fields, Channels, Envs, Pulses
<1>. HIDE DEF on, slowed, r
<1>3. Like(r, s)
  BY <1>r DEF Like
<1>4. /\ Keeps(r, s, {"dmc", "slowed", "on", "failed"})
      /\ r.dmc = [s.dmc EXCEPT !.period = period, !.loop = loop, !.irq = irq]
      /\ r.on = on /\ r.slowed = slowed /\ r.failed = s.failed /\ Keeps(r, s, {"dmc", "slowed", "on"})
  BY <1>r, <1>u DEF Keeps, Names
<1>5. r.dmc \in DmcUnits /\ r.dmc.pcm = s.dmc.pcm
  <2>1. s.dmc \in DmcUnits
    BY <1>u DEF Fields
  <2>. QED
    BY <1>4, <2>1 DEF DmcUnits
<1>6. Base(r) /\ (Good(s) => Good(r))
  BY <1>u, <1>2, <1>3, <1>4, <1>5, DmcGood DEF Fields
<1>. QED
  BY <1>4, <1>6 DEF IsRated, r, on, slowed

LEMMA SetRateGood ==
    ASSUME NEW s0, Good(s0), NEW t \in Int, NEW period \in DmcPeriods, NEW loop \in BOOLEAN,
           NEW irq \in BOOLEAN
    PROVE  Good(SetRate(s0, t, period, loop, irq))
<1>. DEFINE s == UpdateDmc(s0, t)
<1>1. Good(s) /\ Base(s)
  BY UpdateDmcGood DEF Good
<1>2. SetRate(s0, t, period, loop, irq) = RecalcEnd(Rated(s, period, loop, irq))
  BY DEF SetRate, Rated
<1>. HIDE DEF s
<1>3. Good(Rated(s, period, loop, irq))
  BY <1>1, RatedMakes
<1>. QED
  BY <1>2, <1>3, RecalcEndGood DEF Good

LEMMA SetLevelGood ==
    ASSUME NEW s, Good(s), NEW t \in Int, NEW level \in PcmLevels
    PROVE  Good(SetLevel(s, t, level))
<1>1. level \in 0..PcmTop
  BY RegistersAssumption
<1>2. Good(UpdateDmc(s, t))
  BY UpdateDmcGood
<1>. QED
  BY <1>1, <1>2, SyncPcmGood DEF SetLevel, Good

LEMMA SetStartLengthGood ==
    ASSUME NEW s0, Good(s0), NEW t \in Int
    PROVE  /\ \A start \in DmcStarts : Good(SetStart(s0, t, start))
           /\ \A length \in DmcLengths : Good(SetLength(s0, t, length))
<1>. DEFINE s == UpdateDmc(s0, t)
            a(start) == [s EXCEPT !.dmc.start = start]
            b(length) == [s EXCEPT !.dmc.length = length]
<1>r. \A x : SetStart(s0, t, x) = a(x) /\ SetLength(s0, t, x) = b(x)
  BY DEF SetStart, SetLength
<1>1. Good(s)
  BY UpdateDmcGood
<1>. HIDE DEF s
<1>u. s \in Units /\ Fields(s) /\ \A x \in Names : x \in DOMAIN s
  BY <1>1, Unpack DEF Good
<1>d. s.dmc \in DmcUnits
  BY <1>u DEF Fields
<1>2. ASSUME NEW r, Like(r, s), Keeps(r, s, {"dmc"}), r.dmc \in DmcUnits, r.dmc.pcm = s.dmc.pcm
      PROVE  Good(r)
  <2>1. r.slowed = s.slowed /\ r.on = s.on /\ r.failed = s.failed
    BY <1>2 DEF Keeps, Names
  <2>2. Keeps(r, s, {"dmc", "slowed", "on", "failed"})
    BY <1>2 DEF Keeps
  <2>. QED
    BY <1>1, <1>2, <1>u, <2>1, <2>2, DmcGood DEF Fields, Good
<1>3. ASSUME NEW start \in DmcStarts PROVE Good(a(start))
  <2>. DEFINE r == a(start)
  <2>1. Like(r, s)
    BY DEF Like
  <2>2. Keeps(r, s, {"dmc"}) /\ r.dmc = [s.dmc EXCEPT !.start = start]
    BY <1>u DEF Keeps, Names
  <2>3. start \in AddrBase..AddrTop
    BY RegistersAssumption
  <2>. HIDE DEF r
  <2>4. r.dmc \in DmcUnits /\ r.dmc.pcm = s.dmc.pcm
    BY <1>d, <2>2, <2>3 DEF DmcUnits
  <2>5. Good(r)
    BY <1>2, <2>1, <2>2, <2>4
  <2>. QED
    BY <2>5 DEF r
<1>4. ASSUME NEW length \in DmcLengths PROVE Good(b(length))
  <2>. DEFINE r == b(length)
  <2>1. Like(r, s)
    BY DEF Like
  <2>2. Keeps(r, s, {"dmc"}) /\ r.dmc = [s.dmc EXCEPT !.length = length]
    BY <1>u DEF Keeps, Names
  <2>. HIDE DEF r
  <2>4. r.dmc \in DmcUnits /\ r.dmc.pcm = s.dmc.pcm
    BY <1>d, <2>2 DEF DmcUnits
  <2>5. Good(r)
    BY <1>2, <2>1, <2>2, <2>4
  <2>. QED
    BY <2>5 DEF r
<1>. QED
  BY <1>r, <1>3, <1>4

Enabled(q, s, t, enable) ==
    /\ Keeps(q, s, {"len", "tri", "enable", "dmc", "slowed", "on"})
    /\ q.len = [c \in Channels |-> IF c \in enable THEN s.len[c] ELSE 0] /\ q.enable = enable
    /\ q.tri = [s.tri EXCEPT !.delay = IF "tri" \notin enable /\ s.len["tri"] > 0 THEN TriDelay ELSE @]
    /\ q.on = (IF "dmc" \in enable THEN s.on \cup {"dmc"} ELSE s.on) \cap ({"fcirq"} \cup enable)
    /\ q.dmc = IF "dmc" \notin enable THEN [s.dmc EXCEPT !.bytes = 0]
               ELSE IF s.dmc.bytes = 0 THEN DmcStart(s, t).dmc ELSE s.dmc
    /\ q.slowed = IF "dmc" \in enable /\ s.dmc.bytes = 0 THEN DmcStart(s, t).slowed ELSE s.slowed

LEMMA SetEnableMakes ==
    ASSUME NEW s0, Good(s0), NEW t \in Int, NEW enable \in SUBSET (Channels \cup {"dmc"})
    PROVE  \E r : SetEnable(s0, t, enable) = SyncApu(r, t) /\ Base(r) /\ Enabled(r, UpdateDmc(s0, t), t, enable)
<1>. DEFINE s == UpdateDmc(s0, t)
            len == [c \in Channels |-> IF c \in enable THEN s.len[c] ELSE 0]
            delay == IF "tri" \notin enable /\ s.len["tri"] > 0 THEN TriDelay ELSE s.tri.delay
            cut == [s EXCEPT !.len = len, !.tri.delay = delay, !.enable = enable]
            stop == [cut EXCEPT !.dmc.bytes = 0]
            dmc == IF "dmc" \notin enable THEN stop
                   ELSE IF cut.dmc.bytes = 0 THEN DmcStart(cut, t) ELSE cut
            on == (IF "dmc" \in enable THEN dmc.on \cup {"dmc"} ELSE dmc.on) \cap ({"fcirq"} \cup enable)
            r == [dmc EXCEPT !.on = on]
<1>r. SetEnable(s0, t, enable) = SyncApu(r, t)
  BY DEF SetEnable
<1>1. Good(s)
  BY UpdateDmcGood
<1>. HIDE DEF s
<1>u. s \in Units /\ Fields(s) /\ \A x \in Names : x \in DOMAIN s
  BY <1>1, Unpack DEF Good
<1>0. TriDelay \in Nat \ {0} /\ 0 \in UpTo(Lengths) /\ 0 \in UpTo(DmcLengths)
  BY ApuAssumption DEF UpTo
<1>2. len \in [Channels -> UpTo(Lengths)] /\ delay \in Int
  BY <1>0, <1>u DEF Fields, TriUnits
<1>3. /\ delay <= 0 => s.tri.delay <= 0 /\ (len["tri"] > 0 <=> s.len["tri"] > 0)
      /\ \A c \in Channels : len[c] > 0 <=> s.len[c] > 0 /\ c \in enable
  BY <1>0, <1>u DEF Fields, TriUnits, Channels
<1>l. len = [c \in Channels |-> IF c \in enable THEN s.len[c] ELSE 0]
  OBVIOUS
<1>d. delay = IF "tri" \notin enable /\ s.len["tri"] > 0 THEN TriDelay ELSE s.tri.delay
  OBVIOUS
<1>. HIDE DEF len, delay
<1>4. Like(cut, s) /\ Like(stop, s)
  BY DEF Like
<1>5. /\ Keeps(cut, s, {"len", "tri", "enable"}) /\ cut.len = len /\ cut.enable = enable
      /\ cut.tri = [s.tri EXCEPT !.delay = delay] /\ \A x \in Names : x \in DOMAIN cut
  BY <1>u DEF Keeps, Names
<1>6. cut \in Units
  <2>1. cut.tri \in TriUnits
    BY <1>2, <1>5, <1>u DEF Fields, TriUnits
  <2>. HIDE DEF cut
  <2>2. Fields(cut)
    BY <1>u, <1>2, <1>5, <2>1 DEF Fields, Keeps, Names
  <2>. QED
    BY <1>u, <1>4, <2>2, UnitIntro
<1>. HIDE DEF cut
<1>c. cut.dmc = s.dmc /\ cut.slowed = s.slowed
  BY <1>5 DEF Keeps, Names
<1>7. Keeps(stop, cut, {"dmc"}) /\ stop.dmc = [cut.dmc EXCEPT !.bytes = 0]
  BY <1>5 DEF Keeps, Names
<1>8. stop \in Units /\ stop.dmc.pcm = cut.dmc.pcm
  <2>1. Fields(cut)
    BY <1>6, UnitFields
  <2>2. stop.dmc \in DmcUnits /\ stop.dmc.pcm = cut.dmc.pcm
    BY <1>0, <1>7, <2>1 DEF Fields, DmcUnits
  <2>. HIDE DEF stop
  <2>3. Fields(stop)
    BY <1>7, <2>1, <2>2 DEF Fields, Keeps, Names
  <2>. QED
    BY <1>4, <1>u, <2>2, <2>3, UnitIntro
<1>. HIDE DEF stop
<1>9. /\ dmc \in Units /\ Keeps(dmc, cut, {"dmc", "slowed"}) /\ dmc.dmc.pcm = cut.dmc.pcm
      /\ dmc.dmc = IF "dmc" \notin enable THEN [s.dmc EXCEPT !.bytes = 0]
                   ELSE IF s.dmc.bytes = 0 THEN DmcStart(s, t).dmc ELSE s.dmc
      /\ dmc.slowed = IF "dmc" \in enable /\ s.dmc.bytes = 0 THEN DmcStart(s, t).slowed ELSE s.slowed
  <2>0. DmcStart(cut, t).dmc = DmcStart(s, t).dmc /\ DmcStart(cut, t).slowed = DmcStart(s, t).slowed
    BY <1>6, <1>c, <1>u, DmcStartSame
  <2>1. CASE "dmc" \notin enable
    <3>1. dmc = stop /\ stop.slowed = s.slowed /\ Keeps(stop, cut, {"dmc", "slowed"})
      BY <1>7, <1>c, <2>1 DEF Keeps, Names
    <3>. HIDE DEF dmc
    <3>. QED
      BY <1>7, <1>8, <1>c, <2>1, <3>1
  <2>2. CASE "dmc" \in enable /\ cut.dmc.bytes = 0
    BY <1>6, <1>c, <2>0, <2>2, DmcStartUnits
  <2>3. CASE "dmc" \in enable /\ cut.dmc.bytes # 0
    BY <1>6, <1>c, <2>3 DEF Keeps
  <2>. QED
    BY <2>1, <2>2, <2>3
<1>. HIDE DEF dmc
<1>10. Keeps(dmc, s, {"len", "tri", "enable", "dmc", "slowed"}) /\ dmc.tri = cut.tri
       /\ dmc.len = len /\ dmc.enable = enable /\ dmc.dmc.pcm = s.dmc.pcm /\ dmc.on = s.on
  BY <1>5, <1>9 DEF Keeps, Names
<1>v. Fields(dmc) /\ \A x \in Names : x \in DOMAIN dmc
  BY <1>9, UnitFields, UnitNames
<1>11. /\ on \in SUBSET (Channels \cup {"dmc", "fcirq", "dmcirq"})
       /\ \A c \in Channels : c \in on <=> c \in s.on /\ c \in enable
       /\ on = (IF "dmc" \in enable THEN s.on \cup {"dmc"} ELSE s.on) \cap ({"fcirq"} \cup enable)
  BY <1>10, <1>v DEF Fields, Channels, Envs, Pulses
<1>. HIDE DEF on
<1>12. Like(r, dmc) /\ Keeps(r, dmc, {"on"}) /\ r.on = on
  BY <1>v DEF Like, Keeps, Names
<1>. HIDE DEF r
<1>13. r \in Units
  <2>1. Fields(r)
    BY <1>11, <1>12, <1>v DEF Fields, Keeps, Names
  <2>. QED
    BY <1>9, <1>12, <2>1, UnitIntro
<1>14. /\ r.len = len /\ r.enable = enable /\ r.tri = [s.tri EXCEPT !.delay = delay]
       /\ r.dmc.pcm = s.dmc.pcm /\ r.dmc = dmc.dmc /\ r.slowed = dmc.slowed
       /\ r.triFreq = s.triFreq /\ r.vol = s.vol /\ r.env = s.env /\ r.sweep = s.sweep
       /\ r.freq = s.freq /\ r.sum = s.sum /\ r.out = s.out /\ r.owed = s.owed /\ r.fifo = s.fifo
  BY <1>5, <1>10, <1>12 DEF Keeps, Names
<1>15. LengthsAndStatus(r)
  <2>1. \A c \in Channels : c \in s.on <=> s.len[c] > 0
    BY <1>1 DEF Good, Base, LengthsAndStatus
  <2>. QED
    BY <1>3, <1>11, <1>12, <1>14, <2>1 DEF LengthsAndStatus
<1>16. TriangleSettled(r)
  <2>1. r.tri.delay = delay /\ r.tri.ll = s.tri.ll /\ r.tri.period = s.tri.period
    BY <1>14, <1>u DEF Fields, TriUnits
  <2>. QED
    BY <1>1, <1>3, <1>14, <2>1 DEF TriangleSettled, Good, Base
<1>17. Base(r)
  BY <1>1, <1>13, <1>14, <1>15, <1>16 DEF Good, Base, DeltasAddUp, ResetsInPlace, Cached, SweepsFit, Volume
<1>18. Keeps(r, s, {"len", "tri", "enable", "dmc", "slowed", "on"})
  BY <1>10, <1>12 DEF Keeps
<1>19. Enabled(r, s, t, enable)
  BY <1>9, <1>11, <1>12, <1>14, <1>18, <1>l, <1>d DEF Enabled
<1>. QED
  BY <1>r, <1>17, <1>19 DEF s

LEMMA SetEnableGood ==
    ASSUME NEW s0, Good(s0), NEW t \in Int, NEW enable \in SUBSET (Channels \cup {"dmc"})
    PROVE  Good(SetEnable(s0, t, enable))
<1>1. PICK r : SetEnable(s0, t, enable) = SyncApu(r, t) /\ Base(r)
  BY SetEnableMakes
<1>. QED
  BY <1>1, SyncApuGood

LEMMA SetSequencerGood ==
    ASSUME NEW s, Good(s), NEW t \in Int, NEW five \in BOOLEAN, NEW quiet \in BOOLEAN
    PROVE  Good(SetSequencer(s, t, five, quiet))
<1>. DEFINE reset == [s EXCEPT !.fc.seq = 0]
            clocked == IF five THEN ClockSequencer(reset, t) ELSE reset
            fc == [next |-> t + (FcPeriod + 1) \div 2, divider |-> (FcPeriod + 1) % 2,
                   seq |-> clocked.fc.seq, five |-> five, quiet |-> quiet]
            r == [clocked EXCEPT !.fc = fc]
<1>r. SetSequencer(s, t, five, quiet) = r
  BY DEF SetSequencer
<1>1. ASSUME NEW u, Good(u), NEW f \in FcUnits, NEW w, w = [u EXCEPT !.fc = f] PROVE Good(w)
  <2>u. u \in Units /\ Fields(u) /\ \A x \in Names : x \in DOMAIN u
    BY <1>1, Unpack DEF Good
  <2>1. Like(w, u)
    BY <1>1 DEF Like
  <2>2. Keeps(w, u, {"fc"}) /\ w.fc = f
    BY <1>1, <2>u DEF Keeps, Names
  <2>3. w \in Units
    <3>1. Fields(w)
      BY <2>2, <2>u DEF Fields, Keeps, Names
    <3>. QED
      BY <2>u, <2>1, <3>1, UnitIntro
  <2>4. /\ Keeps(w, u, {"on", "fc", "dmc", "offs", "synced", "pcmSynced", "failed", "slowed"})
        /\ w.on = u.on /\ w.dmc = u.dmc
    BY <2>2 DEF Keeps, Names
  <2>. QED
    BY <1>1, <2>3, <2>4, AsideGood DEF Good
<1>2. Good(reset)
  <2>1. s.fc \in FcUnits
    BY Unpack DEF Good, Fields
  <2>2. [s.fc EXCEPT !.seq = 0] \in FcUnits
    BY <2>1 DEF FcUnits
  <2>3. reset = [s EXCEPT !.fc = [s.fc EXCEPT !.seq = 0]]
    OBVIOUS
  <2>. QED
    BY <1>1, <2>2, <2>3
<1>. HIDE DEF reset
<1>3. Good(clocked)
  BY <1>2, ClockSequencerGood DEF Good
<1>. HIDE DEF clocked
<1>4. fc \in FcUnits
  <2>1. clocked.fc.seq \in 0..3
    BY <1>3, Unpack DEF Good, Fields, FcUnits
  <2>2. t + (FcPeriod + 1) \div 2 \in Int /\ (FcPeriod + 1) % 2 \in {0, 1}
    BY ApuAssumption
  <2>. QED
    BY <2>1, <2>2 DEF FcUnits
<1>. HIDE DEF fc
<1>5. Good(r)
  BY <1>1, <1>3, <1>4
<1>. QED
  BY <1>r, <1>5

LEMMA AfterReadGood ==
    ASSUME NEW s, Good(s), NEW t \in Int
    PROVE  Good(AfterRead(s, t))
<1>. DEFINE q == BeforeRead(s, t)
            on == q.on \ {"fcirq"}
            r == [q EXCEPT !.on = on]
<1>r. AfterRead(s, t) = r
  BY DEF AfterRead
<1>1. Good(q)
  <2>1. Good(UpdateFc(s, t)) /\ Good(UpdateDmc(UpdateFc(s, t), t))
    BY UpdateFcGood, UpdateDmcGood
  <2>. QED
    BY <2>1 DEF BeforeRead
<1>. HIDE DEF q
<1>u. q \in Units /\ Fields(q) /\ \A x \in Names : x \in DOMAIN q
  BY <1>1, Unpack DEF Good
<1>2. /\ on \in SUBSET (Channels \cup {"dmc", "fcirq", "dmcirq"})
      /\ on \cap Channels = q.on \cap Channels
  BY <1>u DEF Fields, Channels, Envs, Pulses
<1>. HIDE DEF on
<1>3. Like(r, q) /\ Keeps(r, q, {"on"}) /\ r.on = on
  BY <1>u DEF Like, Keeps, Names
<1>. HIDE DEF r
<1>4. r \in Units
  <2>1. Fields(r)
    BY <1>2, <1>3, <1>u DEF Fields, Keeps, Names
  <2>. QED
    BY <1>u, <1>3, <2>1, UnitIntro
<1>5. /\ Keeps(r, q, {"on", "fc", "dmc", "offs", "synced", "pcmSynced", "failed", "slowed"})
      /\ r.dmc = q.dmc
  BY <1>3 DEF Keeps, Names
<1>. QED
  BY <1>r, <1>1, <1>2, <1>3, <1>4, <1>5, AsideGood DEF Good

LEMMA ForceUpdateGood ==
    ASSUME NEW s, Good(s), NEW t \in Int
    PROVE  Good(ForceUpdate(s, t))
<1>. DEFINE dmc == UpdateDmc(CatchUp(s, t), t)
<1>1. Good(dmc)
  BY CatchUpGood, UpdateDmcGood
<1>2. ForceUpdate(s, t) = SyncApu(SyncPcm(dmc, t, dmc.dmc.pcm), t)
  BY DEF ForceUpdate
<1>. HIDE DEF dmc
<1>3. dmc.dmc.pcm \in 0..PcmTop
  BY <1>1, Unpack DEF Good, Fields, DmcUnits
<1>4. Base(SyncPcm(dmc, t, dmc.dmc.pcm))
  BY <1>1, <1>3, SyncPcmGood DEF Good
<1>. QED
  BY <1>2, <1>4, SyncApuGood

LEMMA InspectedGood ==
    ASSUME NEW s0, Good(s0), NEW t \in Int
    PROVE  Good(Inspected(s0, t))
<1>. DEFINE s1 == Check(s0, s0.fc.next >= t, 992)
            s2 == Check(s1, s1.tri.since >= t, 995)
            s3 == Check(s2, s2.dmc.next # Never => s2.dmc.next >= t, 1000)
            s4 == Check(s3, s3.dmc.end # Never => s3.dmc.next # Never, 1006)
            s5 == Check(s4, s4.dmc.end # Never => s4.dmc.end >= t, 1007)
<1>r. Inspected(s0, t) = s5
  BY DEF Inspected
<1>1. Good(s1)
  BY CheckBase DEF Good
<1>. HIDE DEF s1
<1>2. Good(s2)
  BY <1>1, CheckBase DEF Good
<1>. HIDE DEF s2
<1>3. Good(s3)
  BY <1>2, CheckBase DEF Good
<1>. HIDE DEF s3
<1>4. Good(s4)
  BY <1>3, CheckBase DEF Good
<1>. HIDE DEF s4
<1>5. Good(s5)
  BY <1>4, CheckBase DEF Good
<1>. QED
  BY <1>r, <1>5

LEMMA RebaseGood ==
    ASSUME NEW s0, Good(s0), NEW t \in Int
    PROVE  Good(Rebase(s0, t))
<1>. DEFINE s == Inspected(s0, t)
            sooner(x) == IF x = Never THEN Never ELSE x - t
            offs == (s.offs + t) % (SampleLen * Slots)
            r == [s EXCEPT !.offs = offs, !.fc.next = s.fc.next - t, !.tri.since = s.tri.since - t,
                           !.dmc.next = sooner(s.dmc.next), !.dmc.end = sooner(s.dmc.end),
                           !.synced = s.synced - t, !.pcmSynced = s.pcmSynced - t]
<1>r. Rebase(s0, t) = r
  BY DEF Rebase
<1>5. Good(s)
  BY InspectedGood
<1>. HIDE DEF s
<1>u. s \in Units /\ Fields(s) /\ \A x \in Names : x \in DOMAIN s
  BY <1>5, Unpack DEF Good
<1>6. offs \in 0 .. SampleLen * Slots - 1
  <2>1. SampleLen \in Nat \ {0} /\ Slots \in Nat \ {0}
    BY ApuAssumption
  <2>2. SampleLen * Slots \in Nat \ {0}
    BY <2>1
  <2>3. s.offs + t \in Int
    BY <1>u, <2>2 DEF Fields
  <2>. QED
    BY <2>2, <2>3, DivMod
<1>7. sooner(s.dmc.next) \in Int /\ sooner(s.dmc.end) \in Int
  BY <1>u, NeverIsTime DEF Fields, DmcUnits
<1>. DEFINE n == sooner(s.dmc.next)
            e == sooner(s.dmc.end)
            d == [s.dmc EXCEPT !.next = n, !.end = e]
<1>. HIDE DEF offs
<1>8. Like(r, s)
  BY DEF Like
<1>9. /\ Keeps(r, s, {"offs", "fc", "tri", "dmc", "synced", "pcmSynced"}) /\ r.offs = offs
      /\ r.fc = [s.fc EXCEPT !.next = s.fc.next - t] /\ r.tri = [s.tri EXCEPT !.since = s.tri.since - t]
      /\ r.dmc = d /\ r.synced = s.synced - t /\ r.pcmSynced = s.pcmSynced - t
  BY <1>u DEF Keeps, Names
<1>10. d \in DmcUnits /\ d.pcm = s.dmc.pcm
  <2>1. s.dmc \in DmcUnits /\ n \in Int /\ e \in Int
    BY <1>7, <1>u DEF Fields
  <2>. HIDE DEF n, e
  <2>. QED
    BY <2>1 DEF DmcUnits
<1>. HIDE DEF r, d
<1>11. r.fc \in FcUnits
  BY <1>9, <1>u DEF Fields, FcUnits
<1>12. r.tri \in TriUnits /\ r.tri.delay = s.tri.delay /\ r.tri.ll = s.tri.ll /\ r.tri.period = s.tri.period
  BY <1>9, <1>u DEF Fields, TriUnits
<1>13. r \in Units
  <2>1. r.synced \in Int /\ r.pcmSynced \in Int
    BY <1>9, <1>u DEF Fields
  <2>2. Fields(r)
    BY <1>6, <1>9, <1>10, <1>11, <1>12, <1>u, <2>1 DEF Fields, Keeps, Names
  <2>. QED
    BY <1>u, <1>8, <2>2, UnitIntro
<1>14. /\ r.len = s.len /\ r.on = s.on /\ r.enable = s.enable
       /\ r.triFreq = s.triFreq /\ r.vol = s.vol /\ r.env = s.env /\ r.sweep = s.sweep
       /\ r.freq = s.freq /\ r.sum = s.sum /\ r.out = s.out /\ r.owed = s.owed /\ r.fifo = s.fifo
  BY <1>9 DEF Keeps, Names
<1>. QED
  BY <1>r, <1>5, <1>9, <1>10, <1>12, <1>13, <1>14 DEF Good, Base, Current, LengthsAndStatus, TriangleSettled,
     DeltasAddUp, ResetsInPlace, Cached, SweepsFit, Volume, Sound

LEMMA PowerOnGood == Good(PowerOn)
<1>0. /\ EnvTop \in Nat /\ SampleLen \in Nat \ {0} /\ Slots \in Nat \ {0} /\ SampleLen * Slots \in Nat \ {0}
      /\ 0 \in UpTo(Lengths) /\ 0 \in UpTo(DmcLengths)
  BY ApuAssumption DEF UpTo
<1>1. /\ MultUnit \in Nat \ {0} /\ FreqTop \in Nat /\ AddrBase \in AddrBase..AddrTop /\ Bits \in Nat
      /\ PcmTop \in Nat /\ PcmMod \in Nat \ {0} /\ Never \in Int
  BY RegistersAssumption, NeverIsTime DEF PcmMod
<1>. DEFINE period == CHOOSE p \in DmcPeriods : \A q \in DmcPeriods : q <= p
            length == CHOOSE l \in DmcLengths : \A k \in DmcLengths : l <= k
<1>2. period \in DmcPeriods /\ length \in DmcLengths
  BY RegistersAssumption
<1>. DEFINE r == PowerOn
<1>3. /\ r.on = {} /\ r.enable = {} /\ r.len = [c \in Channels |-> 0]
      /\ r.triFreq = 0 /\ r.sum = 0 /\ r.owed = {} /\ r.vol = [e \in Envs |-> 0]
      /\ r.fifo.carry = {} /\ r.fifo.pending = [c \in Channels |-> <<0, 0>>]
      /\ r.out.delta = 0 /\ r.dmc.pcm = 0 /\ r.tri.ll = 0
      /\ \A e \in Envs : ~r.env[e].const /\ r.env[e].level = 0
      /\ \A p \in Pulses : ~r.sweep[p].on
  BY DEF PowerOn
<1>4. r \in Units
  <2>1. /\ r.env \in [Envs -> EnvUnits] /\ r.sweep \in [Pulses -> SweepUnits]
        /\ r.tri \in TriUnits /\ r.fc \in FcUnits
    BY <1>0, <1>1 DEF PowerOn, EnvUnits, SweepUnits, TriUnits, FcUnits
  <2>2. r.dmc \in DmcUnits
    <3>1. r.dmc = [next |-> Never, end |-> Never, bit |-> 0, bytes |-> 0, addr |-> AddrBase,
                   cur |-> AddrBase, loop |-> FALSE, irq |-> FALSE, period |-> period,
                   start |-> AddrBase, length |-> length, pcm |-> 0]
      BY DEF PowerOn
    <3>. HIDE DEF r, period, length
    <3>. QED
      BY <1>0, <1>1, <1>2, <3>1 DEF DmcUnits
  <2>3. r.fifo \in FifoUnits /\ r.out \in OutUnits
    BY <1>0, <1>1 DEF PowerOn, FifoUnits, OutUnits, Samples, Sounds
  <2>4. /\ r.freq \in [Pulses -> 0..FreqTop] /\ r.triFreq \in 0..FreqTop /\ r.vol \in [Envs -> 0..EnvTop]
        /\ r.offs \in 0 .. SampleLen * Slots - 1 /\ r.synced \in Int /\ r.pcmSynced \in Int
        /\ r.failed \in SUBSET Nat /\ r.sum \in 0 .. PcmMod - 1
        /\ r.owed \in SUBSET (Pulses \X Samples) /\ r.slowed \in BOOLEAN
        /\ r.len \in [Channels -> UpTo(Lengths)] /\ r.on \in SUBSET (Channels \cup {"dmc", "fcirq", "dmcirq"})
        /\ r.enable \in SUBSET (Channels \cup {"dmc"})
    BY <1>0, <1>1 DEF PowerOn
  <2>. QED
    BY <2>1, <2>2, <2>3, <2>4 DEF PowerOn, Units
<1>. HIDE DEF r
<1>5. LengthsAndStatus(r) /\ TriangleSettled(r) /\ ResetsInPlace(r) /\ Cached(r) /\ SweepsFit(r)
  BY <1>3 DEF LengthsAndStatus, TriangleSettled, ResetsInPlace, Cached, SweepsFit, Volume, Channels
<1>6. DeltasAddUp(r)
  <2>1. 0 % PcmMod = 0
    BY <1>1, ModSmall
  <2>. QED
    BY <1>3, <2>1 DEF DeltasAddUp
<1>7. Current(r)
  BY <1>3 DEF Current, Sound
<1>. QED
  BY <1>4, <1>5, <1>6, <1>7 DEF Good, Base, r

-----------------------------------------------------------------------------
(* The specification. *)

Counted ==
    /\ now \in 0..FrameMax /\ frames \in 0..MaxFrames
    /\ song \in Songs /\ accesses \in 0..song.accesses

IInv == Counted /\ Good(lazy) /\ Good(eager)

LEMMA PromptGood ==
    ASSUME NEW s, Good(s), NEW t \in Int
    PROVE  Good(Prompt(s, t))
BY CatchUpGood, UpdateDmcGood DEF Prompt

LEMMA InitIInv == Init => IInv
<1>1. FrameMax \in Nat /\ MaxFrames \in Nat /\ \A s \in Songs : s.accesses \in Nat
  BY ApuAssumption, RegistersAssumption
<1>. QED
  BY <1>1, PowerOnGood, PromptGood DEF Init, IInv, Counted

LEMMA NextIInv == IInv /\ [Next]_vars => IInv'
<1>. SUFFICES ASSUME IInv, [Next]_vars PROVE IInv'
  OBVIOUS
<1>0. /\ FrameMin \in Nat /\ FrameMax \in Nat /\ MaxFrames \in Nat
      /\ \A s \in Songs : s.accesses \in Nat
  BY ApuAssumption, RegistersAssumption
<1>1. now \in Int /\ now + 1 \in Int /\ Good(lazy) /\ Good(eager)
  BY <1>0 DEF IInv, Counted
<1>2. Good(CatchUp(lazy, now)) /\ Good(CatchUp(eager, now))
  BY <1>1, CatchUpGood
<1>3. ASSUME NEW a, NEW b, Good(a), Good(b), now < FrameMax, now' = now + 1, song' = song, frames' = frames,
             accesses' = accesses \/ (accesses < song.accesses /\ accesses' = accesses + 1),
             lazy' = a, eager' = Prompt(b, now + 1)
      PROVE  IInv'
  <2>1. Counted'
    BY <1>0, <1>3 DEF IInv, Counted
  <2>2. Good(Prompt(b, now + 1))
    BY <1>1, <1>3, PromptGood
  <2>. QED
    BY <1>3, <2>1, <2>2 DEF IInv
<1>4. CASE Idle
  <2>1. /\ now < FrameMax /\ now' = now + 1 /\ song' = song /\ frames' = frames /\ accesses' = accesses
        /\ lazy' = lazy /\ eager' = Prompt(eager, now + 1)
    BY <1>4 DEF Idle, Cycle
  <2>2. Counted'
    BY <1>0, <2>1 DEF IInv, Counted
  <2>3. Good(Prompt(eager, now + 1))
    BY <1>1, PromptGood
  <2>. QED
    BY <1>1, <2>1, <2>2, <2>3 DEF IInv
<1>5. CASE ReadStatus
  <2>1. Good(AfterRead(lazy, now)) /\ Good(AfterRead(eager, now))
    BY <1>1, AfterReadGood
  <2>. QED
    BY <1>3, <1>5, <2>1 DEF ReadStatus, Access, Cycle
<1>6. CASE WriteVolume
  BY <1>1, <1>2, <1>3, <1>6, SetVolumeGood DEF WriteVolume, Write, Access, Cycle
<1>7. CASE WriteSweep
  BY <1>1, <1>2, <1>3, <1>7, SetSweepGood DEF WriteSweep, Write, Access, Cycle
<1>8. CASE WriteLow
  BY <1>1, <1>2, <1>3, <1>8, SetLowGood DEF WriteLow, Write, Access, Cycle
<1>9. CASE WriteHigh
  BY <1>1, <1>2, <1>3, <1>9, SetHighGood DEF WriteHigh, Write, Access, Cycle
<1>10. CASE WriteLinear
  BY <1>1, <1>2, <1>3, <1>10, SetLinearGood DEF WriteLinear, Write, Access, Cycle
<1>11. CASE WriteTriLow
  BY <1>1, <1>2, <1>3, <1>11, SetTriLowGood DEF WriteTriLow, Write, Access, Cycle
<1>12. CASE WriteTriHigh
  BY <1>1, <1>2, <1>3, <1>12, SetTriHighGood DEF WriteTriHigh, Write, Access, Cycle
<1>13. CASE WriteNoiseLength
  BY <1>1, <1>2, <1>3, <1>13, SetNoiseLengthGood DEF WriteNoiseLength, Write, Access, Cycle
<1>14. CASE WriteRate
  BY <1>1, <1>2, <1>3, <1>14, SetRateGood DEF WriteRate, Write, Access, Cycle
<1>15. CASE WriteLevel
  BY <1>1, <1>2, <1>3, <1>15, SetLevelGood DEF WriteLevel, Write, Access, Cycle
<1>16. CASE WriteStart
  BY <1>1, <1>2, <1>3, <1>16, SetStartLengthGood DEF WriteStart, Write, Access, Cycle
<1>17. CASE WriteLength
  BY <1>1, <1>2, <1>3, <1>17, SetStartLengthGood DEF WriteLength, Write, Access, Cycle
<1>18. CASE WriteEnable
  BY <1>1, <1>2, <1>3, <1>18, SetEnableGood DEF WriteEnable, Write, Access, Cycle
<1>19. CASE WriteSequencer
  BY <1>1, <1>2, <1>3, <1>19, SetSequencerGood DEF WriteSequencer, Write, Access, Cycle
<1>20. CASE HalfFrame
  BY <1>1, <1>20, ForceUpdateGood DEF HalfFrame, IInv, Counted
<1>21. CASE EndFrame
  <2>1. Good(Rebase(ForceUpdate(lazy, now), now)) /\ Good(Rebase(ForceUpdate(eager, now), now))
    BY <1>1, ForceUpdateGood, RebaseGood
  <2>. QED
    BY <1>0, <1>21, <2>1 DEF EndFrame, IInv, Counted
<1>22. CASE NewSong
  BY <1>0, <1>22, PowerOnGood, PromptGood DEF NewSong, IInv, Counted
<1>23. CASE UNCHANGED vars
  BY <1>23 DEF vars, IInv, Counted
<1>. QED
  BY <1>4, <1>5, <1>6, <1>7, <1>8, <1>9, <1>10, <1>11, <1>12, <1>13, <1>14, <1>15, <1>16, <1>17, <1>18, <1>19, <1>20, <1>21, <1>22, <1>23 DEF Next

THEOREM Inductive == Spec => []IInv
BY InitIInv, NextIInv, PTL DEF Spec

\* The registers, counters and schedules of both units stay in their ranges.
THEOREM Types == Spec => []TypeOK
<1>1. IInv => TypeOK
  BY DEF IInv, Counted, TypeOK, Good, Base
<1>. QED
  BY <1>1, Inductive, PTL

\* Status bits, enabled channels and the triangle agree with the length counters.
THEOREM Counters == Spec => []CountersAgree
<1>1. IInv => CountersAgree
  BY DEF IInv, CountersAgree, Good, Base
<1>. QED
  BY <1>1, Inductive, PTL

\* The pending entry of the output FIFO is what the registers give.
THEOREM Fifo == Spec => []FifoCurrent
<1>1. IInv => FifoCurrent
  BY DEF IInv, FifoCurrent, Good, Current
<1>. QED
  BY <1>1, Inductive, PTL

\* No difference of the DMC's level and no phase reset is lost, doubled or moved.
THEOREM OutputSlots == Spec => []SlotsExact
<1>1. IInv => SlotsExact
  BY DEF IInv, SlotsExact, Good, Base
<1>. QED
  BY <1>1, Inductive, PTL

-----------------------------------------------------------------------------
(* Time: the frame counter's part of a call keeps its schedules in order.  *)

\* What the frame counter's part of a call does to the DMC, and the other way round.
SameDmc(r, s) == r.dmc = s.dmc /\ r.pcmSynced = s.pcmSynced /\ r.slowed = s.slowed
SameFc(r, s) == r.fc = s.fc /\ r.tri = s.tri /\ r.synced = s.synced

\* The frame counter's schedules are in order.
InOrder(s) == s.synced <= s.tri.since /\ s.tri.since <= s.fc.next

LEMMA TimesAreNumbers ==
    ASSUME NEW s, Base(s)
    PROVE  /\ s.synced \in Int /\ s.pcmSynced \in Int /\ s.tri.since \in Int /\ s.fc.next \in Int
           /\ s.tri.delay \in Int /\ s.fc \in FcUnits /\ s.dmc \in DmcUnits
BY Unpack DEF Fields, TriUnits, FcUnits

LEMMA SyncApuTimes ==
    ASSUME NEW s, \A x \in Names : x \in DOMAIN s, s.synced \in Int, NEW t \in Int, s.synced <= t
    PROVE  LET r == SyncApu(s, t)
           IN /\ r.synced = t /\ r.failed = s.failed /\ r.fc = s.fc /\ r.tri = s.tri
              /\ SameDmc(r, s) /\ \A x \in Names : x \in DOMAIN r
<1>. DEFINE sample(q) == SampleTime(q, t)
            closed(q) == [q EXCEPT !.owed = @ \ {<<p, q.fifo.sample>> : p \in q.fifo.carry},
                                   !.fifo.carry = {}, !.fifo.sample = sample(q),
                                   !.fifo.last = <<q.fifo.sample, q.fifo.pending>>]
            flushed(q) == IF sample(q) = q.fifo.sample THEN q ELSE closed(q)
            r(q) == [flushed(q) EXCEPT !.fifo.pending = Mix(q), !.synced = t]
<1>1. Check(s, t >= s.synced, 221) = s
  BY DEF Check
<1>2. SyncApu(s, t) = r(s)
  <2>1. SyncApu(s, t) = r(Check(s, t >= s.synced, 221))
    BY DEF SyncApu
  <2>. HIDE DEF r
  <2>. QED
    BY <1>1, <2>1
<1>3. /\ \A x \in Names : x \in DOMAIN closed(s)
      /\ closed(s).failed = s.failed /\ closed(s).fc = s.fc /\ closed(s).tri = s.tri /\ SameDmc(closed(s), s)
  BY DEF Names, SameDmc
<1>. HIDE DEF closed
<1>4. /\ \A x \in Names : x \in DOMAIN flushed(s)
      /\ flushed(s).failed = s.failed /\ flushed(s).fc = s.fc /\ flushed(s).tri = s.tri /\ SameDmc(flushed(s), s)
  BY <1>3 DEF SameDmc
<1>. HIDE DEF flushed
<1>5. /\ r(s).synced = t /\ r(s).failed = flushed(s).failed /\ r(s).fc = flushed(s).fc /\ r(s).tri = flushed(s).tri
      /\ SameDmc(r(s), flushed(s)) /\ \A x \in Names : x \in DOMAIN r(s)
  BY <1>4 DEF Names, SameDmc
<1>. QED
  BY <1>2, <1>4, <1>5 DEF SameDmc

LEMMA UpdateTriangleTimes ==
    ASSUME NEW s, Base(s), NEW t \in Int, s.synced <= s.tri.since, s.tri.since <= t
    PROVE  LET r == UpdateTriangle(s, t)
           IN /\ r.tri.since = t /\ r.synced <= t /\ r.failed = s.failed /\ r.fc = s.fc
              /\ SameDmc(r, s)
<1>. DEFINE delay(q) == q.tri.delay - (t - q.tri.since)
            heard(q) == "tri" \in q.on /\ q.tri.ll > 0
            passed(q) == [q EXCEPT !.tri.delay = delay(q)]
            due(q) == [passed(q) EXCEPT !.triFreq = IF heard(q) THEN q.tri.period ELSE 0]
            body(q) == IF q.tri.delay <= 0 THEN q
                       ELSE IF delay(q) > 0 THEN passed(q) ELSE SyncApu(due(q), t + delay(q))
            r == [body(s) EXCEPT !.tri.since = t]
<1>u. s \in Units /\ Fields(s) /\ \A x \in Names : x \in DOMAIN s
  BY Unpack
<1>n. s.synced \in Int /\ s.tri.since \in Int /\ s.tri.delay \in Int /\ delay(s) \in Int
  BY TimesAreNumbers
<1>1. Check(s, t >= s.tri.since, 460) = s
  BY <1>n DEF Check
<1>2. UpdateTriangle(s, t) = r
  <2>1. UpdateTriangle(s, t) = [body(Check(s, t >= s.tri.since, 460)) EXCEPT !.tri.since = t]
    BY DEF UpdateTriangle
  <2>. HIDE DEF body
  <2>. QED
    BY <1>1, <2>1
<1>d. ~(s.tri.delay <= 0) /\ ~(delay(s) > 0) => s.synced <= t + delay(s) /\ t + delay(s) <= t
  BY <1>n
<1>s. "since" \in DOMAIN s.tri
  BY <1>u DEF Fields, TriUnits
<1>. HIDE DEF delay
<1>3. /\ \A x \in Names : x \in DOMAIN passed(s)
      /\ passed(s).failed = s.failed /\ passed(s).fc = s.fc /\ SameDmc(passed(s), s)
      /\ passed(s).synced = s.synced /\ "since" \in DOMAIN passed(s).tri
  BY <1>u, <1>s DEF Names, SameDmc
<1>. HIDE DEF passed
<1>4. /\ \A x \in Names : x \in DOMAIN due(s)
      /\ due(s).failed = s.failed /\ due(s).fc = s.fc /\ SameDmc(due(s), s)
      /\ due(s).synced = s.synced /\ "since" \in DOMAIN due(s).tri
  BY <1>3 DEF Names, SameDmc
<1>. HIDE DEF due
<1>5. /\ \A x \in Names : x \in DOMAIN body(s)
      /\ body(s).failed = s.failed /\ body(s).fc = s.fc /\ SameDmc(body(s), s) /\ body(s).synced <= t
      /\ "since" \in DOMAIN body(s).tri
  <2>1. CASE s.tri.delay <= 0
    BY <1>s, <1>u, <1>n, <2>1 DEF SameDmc
  <2>2. CASE ~(s.tri.delay <= 0) /\ delay(s) > 0
    BY <1>3, <1>n, <2>2
  <2>3. CASE ~(s.tri.delay <= 0) /\ ~(delay(s) > 0)
    <3>1. t + delay(s) \in Int /\ s.synced <= t + delay(s) /\ t + delay(s) <= t
      BY <1>n, <1>d, <2>3
    <3>2. body(s) = SyncApu(due(s), t + delay(s))
      BY <2>3
    <3>. HIDE DEF body
    <3>. QED
      BY <1>4, <1>n, <3>1, <3>2, SyncApuTimes DEF SameDmc
  <2>. QED
    BY <2>1, <2>2, <2>3
<1>. HIDE DEF body
<1>6. /\ r.tri.since = t /\ r.synced = body(s).synced /\ r.failed = body(s).failed
      /\ r.fc = body(s).fc /\ SameDmc(r, body(s))
  BY <1>5 DEF Names, SameDmc
<1>. QED
  BY <1>2, <1>5, <1>6 DEF SameDmc
LEMMA ClocksKeepSince ==
    ASSUME NEW s, Base(s)
    PROVE  /\ ClockLinear(s).tri.since = s.tri.since
           /\ ClockLengths(s).tri.since = s.tri.since
<1>u. /\ Fields(s) /\ \A x \in Names : x \in DOMAIN s
      /\ "since" \in DOMAIN s.tri
  BY Unpack DEF Fields, TriUnits
<1>1. ASSUME NEW a, NEW b, NEW c
      PROVE  [s EXCEPT !.len = a, !.on = b, !.tri.delay = c].tri.since = s.tri.since
  BY <1>u DEF Names
<1>a. ASSUME NEW q, NEW a, NEW b, NEW c,
             q = [s EXCEPT !.tri.ll = a, !.tri.delay = b, !.tri.reload = c]
      PROVE  q.tri.since = s.tri.since
  BY <1>a, <1>u DEF Names
<1>2. ClockLinear(s).tri.since = s.tri.since
  <2>. DEFINE ll == IF s.tri.reload THEN s.tri.count ELSE IF s.tri.ll > 0 THEN s.tri.ll - 1 ELSE 0
              delay == IF (s.tri.ll = 0) # (ll = 0) THEN TriDelay ELSE s.tri.delay
              reload == IF s.tri.halt THEN s.tri.reload ELSE FALSE
  <2>1. ClockLinear(s) = [s EXCEPT !.tri.ll = ll, !.tri.delay = delay, !.tri.reload = reload]
    BY DEF ClockLinear
  <2>. HIDE DEF ll, delay, reload
  <2>. QED
    BY ZenonT(30), <1>a, <2>1
<1>3. ClockLengths(s).tri.since = s.tri.since
  BY <1>1 DEF ClockLengths
<1>. QED
  BY <1>2, <1>3

LEMMA AddPeriodLater ==
    ASSUME NEW fc \in FcUnits
    PROVE  AddPeriod(fc).next >= fc.next + 1
<1>. DEFINE d == fc.divider + FcPeriod
<1>1. d \in Nat /\ d >= 2
  BY ApuAssumption DEF FcUnits
<1>2. d \div 2 \in Int /\ d \div 2 >= 1
  BY <1>1
<1>3. AddPeriod(fc).next = fc.next + d \div 2
  BY DEF AddPeriod, FcUnits
<1>. HIDE DEF d
<1>. QED
  BY <1>2, <1>3 DEF FcUnits

LEMMA ClockSequencerTimes ==
    ASSUME NEW s, Base(s), NEW t \in Int, s.synced <= t
    PROVE  LET r == ClockSequencer(s, t)
           IN /\ r.synced = t /\ r.tri.since = s.tri.since /\ r.fc.next >= s.fc.next
              /\ r.failed = s.failed /\ SameDmc(r, s)
<1>. DEFINE quarter == ClockLinear(ClockEnvelopes(s))
            lengths == ClockLengths(quarter)
            half == IF s.fc.seq % 2 = 0 THEN ClockSweeps(lengths) ELSE quarter
            last == s.fc.seq = 3
            irq == last /\ ~s.fc.five /\ ~s.fc.quiet
            fc == IF last /\ s.fc.five THEN AddPeriod(half.fc) ELSE half.fc
            on == IF irq THEN half.on \cup {"fcirq"} ELSE half.on
            seq == (fc.seq + 1) % 4
            r == [half EXCEPT !.on = on, !.fc = [fc EXCEPT !.seq = seq]]
            Aside(q, p) == q.synced = p.synced /\ q.tri.since = p.tri.since /\ q.fc = p.fc
                           /\ q.failed = p.failed /\ SameDmc(q, p)
<1>r. ClockSequencer(s, t) = SyncApu(r, t)
  BY DEF ClockSequencer
<1>1. Base(ClockEnvelopes(s)) /\ Aside(ClockEnvelopes(s), s)
  BY ClockEnvelopesBase DEF Keeps, Names, SameDmc
<1>2. Base(quarter) /\ Aside(quarter, s)
  BY <1>1, ClockLinearBase, ClocksKeepSince DEF Keeps, Names, SameDmc
<1>. HIDE DEF quarter
<1>3. Base(lengths) /\ Aside(lengths, s)
  BY <1>2, ClockLengthsBase, ClocksKeepSince DEF Keeps, Names, SameDmc
<1>. HIDE DEF lengths
<1>4. Base(half) /\ Aside(half, s)
  BY <1>2, <1>3, ClockSweepsBase DEF Keeps, Names, SameDmc
<1>. HIDE DEF half
<1>u. /\ \A x \in Names : x \in DOMAIN half
      /\ half.synced \in Int /\ half.fc \in FcUnits
  BY <1>4, Unpack, TimesAreNumbers
<1>5. fc \in FcUnits /\ fc.next >= half.fc.next
  BY <1>u, AddPeriodType, AddPeriodLater DEF FcUnits
<1>. HIDE DEF fc, on
<1>6. [fc EXCEPT !.seq = seq].next = fc.next
  BY <1>5 DEF FcUnits
<1>7. /\ r.synced = half.synced /\ r.tri = half.tri /\ r.fc = [fc EXCEPT !.seq = seq]
      /\ r.failed = half.failed /\ SameDmc(r, half) /\ \A x \in Names : x \in DOMAIN r
  BY <1>u DEF Names, SameDmc
<1>. HIDE DEF r
<1>8. r.synced \in Int /\ r.synced <= t
  BY <1>4, <1>7, <1>u
<1>9. /\ SyncApu(r, t).synced = t /\ SyncApu(r, t).failed = r.failed /\ SyncApu(r, t).fc = r.fc
      /\ SyncApu(r, t).tri = r.tri /\ SameDmc(SyncApu(r, t), r)
  BY <1>7, <1>8, SyncApuTimes
<1>. QED
  BY <1>r, <1>4, <1>5, <1>6, <1>7, <1>9 DEF SameDmc

LEMMA ClockDueTimes ==
    ASSUME NEW s, Good(s), InOrder(s)
    PROVE  LET r == ClockDue(s)
           IN /\ InOrder(r) /\ r.tri.since = s.fc.next /\ r.fc.next >= s.fc.next + 1
              /\ r.failed = s.failed /\ SameDmc(r, s)
<1>. DEFINE t == s.fc.next
            q == UpdateTriangle(s, t)
            clocked == ClockSequencer(q, t)
            fc == AddPeriod(clocked.fc)
            r == [clocked EXCEPT !.fc = fc]
<1>r. ClockDue(s) = r
  BY DEF ClockDue
<1>n. s.synced \in Int /\ s.tri.since \in Int /\ t \in Int
  BY TimesAreNumbers DEF Good
<1>. HIDE DEF t
<1>1. /\ Base(q) /\ q.tri.since = t /\ q.synced <= t /\ q.failed = s.failed /\ q.fc = s.fc
      /\ SameDmc(q, s)
  BY <1>n, UpdateTriangleGood, UpdateTriangleTimes DEF Good, InOrder, t
<1>. HIDE DEF q
<1>2. /\ Base(clocked) /\ clocked.synced = t /\ clocked.tri.since = t /\ clocked.fc.next >= t
      /\ clocked.failed = s.failed /\ SameDmc(clocked, s)
  BY <1>n, <1>1, ClockSequencerGood, ClockSequencerTimes DEF Good, SameDmc, t
<1>. HIDE DEF clocked
<1>3. fc.next >= clocked.fc.next + 1 /\ fc.next \in Int /\ clocked.fc.next \in Int
  BY <1>2, TimesAreNumbers, AddPeriodType, AddPeriodLater DEF FcUnits
<1>. HIDE DEF fc
<1>4. /\ r.fc = fc /\ r.synced = t /\ r.tri = clocked.tri /\ r.failed = s.failed /\ SameDmc(r, s)
  BY <1>2, Unpack DEF Names, SameDmc
<1>. HIDE DEF r
<1>5. r.fc.next >= t + 1 /\ r.fc.next \in Int
  BY <1>n, <1>2, <1>3, <1>4
<1>. QED
  BY <1>n, <1>r, <1>2, <1>4, <1>5 DEF InOrder, t

LEMMA UpdateFcTimes ==
    ASSUME NEW s, Good(s), NEW t \in Int, InOrder(s), s.tri.since <= t
    PROVE  LET r == UpdateFc(s, t)
           IN /\ InOrder(r) /\ r.tri.since <= t /\ r.fc.next > t /\ r.failed = s.failed
              /\ SameDmc(r, s)
<1>n. s.fc.next \in Int
  BY TimesAreNumbers DEF Good
<1>1. CASE t >= s.fc.next
  <2>. DEFINE m == t - s.fc.next + 1
              Ahead(q) == InOrder(q) /\ q.tri.since <= t /\ q.failed = s.failed /\ SameDmc(q, s)
  <2>0. m \in Nat
    BY <1>1, <1>n
  <2>1. PICK g : /\ g[0] = s /\ \A n \in 0..m : Good(g[n])
                 /\ \A n \in 1..m : g[n] = IF t >= g[n - 1].fc.next THEN ClockDue(g[n - 1]) ELSE g[n - 1]
                 /\ UpdateFc(s, t) = UpdateTriangle(g[m], t)
    BY <1>1, FcRounds
  <2>. DEFINE S == {n \in 0..m : Ahead(g[n]) /\ (g[n].fc.next > t \/ g[n].fc.next >= s.fc.next + n)}
  <2>2. 0 \in S
    BY <1>n, <2>0, <2>1 DEF SameDmc
  <2>3. ASSUME NEW n \in 0..m, n # 0, n - 1 \in S PROVE n \in S
    <3>. DEFINE q == g[n - 1]
    <3>1. n \in 1..m /\ n - 1 \in 0..m /\ n - 1 \in Int
      BY <2>0, <2>3
    <3>2. Good(q) /\ Ahead(q) /\ (q.fc.next > t \/ q.fc.next >= s.fc.next + (n - 1)) /\ q.fc.next \in Int
      BY <2>1, <2>3, <3>1, TimesAreNumbers DEF Good
    <3>3. g[n] = (IF t >= q.fc.next THEN ClockDue(q) ELSE q)
      BY <2>1, <3>1
    <3>. HIDE DEF q
    <3>4. CASE ~(t >= q.fc.next)
      <4>1. g[n] = q /\ q.fc.next > t
        BY <1>n, <3>2, <3>3, <3>4
      <4>. QED
        BY <3>2, <4>1
    <3>5. CASE t >= q.fc.next
      <4>1. /\ g[n] = ClockDue(q) /\ InOrder(ClockDue(q)) /\ ClockDue(q).tri.since = q.fc.next
            /\ ClockDue(q).fc.next >= q.fc.next + 1 /\ ClockDue(q).failed = q.failed /\ SameDmc(ClockDue(q), q)
        BY <3>2, <3>3, <3>5, ClockDueTimes
      <4>2. Ahead(g[n])
        BY <3>2, <3>5, <4>1 DEF SameDmc
      <4>3. g[n].fc.next \in Int /\ g[n].fc.next >= q.fc.next + 1
        BY <2>1, <4>1, TimesAreNumbers DEF Good
      <4>4. g[n].fc.next >= s.fc.next + n
        BY <1>n, <3>1, <3>2, <3>5, <4>3
      <4>. QED
        BY <4>2, <4>4
    <3>. QED
      BY <3>4, <3>5
  <2>4. m \in S
    <3>1. 0..m \subseteq S
      <4>. HIDE DEF S
      <4>. QED
        BY <2>0, <2>2, <2>3, UpToBound
    <3>. QED
      BY <2>0, <3>1
  <2>. DEFINE q == g[m]
  <2>5. Good(q) /\ Ahead(q) /\ q.fc.next > t /\ q.fc.next \in Int
    <3>1. Good(q) /\ Ahead(q) /\ (q.fc.next > t \/ q.fc.next >= s.fc.next + m)
      BY <2>0, <2>1, <2>4
    <3>2. q.fc.next \in Int
      BY <3>1, TimesAreNumbers DEF Good
    <3>. HIDE DEF q
    <3>. QED
      BY <1>n, <3>1, <3>2
  <2>. HIDE DEF q
  <2>6. q.synced \in Int /\ q.tri.since \in Int
    BY <2>5, TimesAreNumbers DEF Good
  <2>7. /\ UpdateTriangle(q, t).tri.since = t /\ UpdateTriangle(q, t).synced <= t
        /\ UpdateTriangle(q, t).failed = q.failed /\ UpdateTriangle(q, t).fc = q.fc
        /\ SameDmc(UpdateTriangle(q, t), q)
    BY <2>5, UpdateTriangleTimes DEF Good, InOrder
  <2>8. UpdateFc(s, t) = UpdateTriangle(q, t)
    BY <2>1 DEF q
  <2>. DEFINE r == UpdateTriangle(q, t)
  <2>. HIDE DEF r
  <2>9. /\ r.tri.since = t /\ r.synced <= t /\ r.failed = s.failed /\ r.fc = q.fc
        /\ SameDmc(r, s)
    BY <2>5, <2>7 DEF r, SameDmc
  <2>10. InOrder(r) /\ r.fc.next > t
    BY <2>5, <2>9 DEF InOrder
  <2>. QED
    BY <2>8, <2>9, <2>10 DEF r
<1>2. CASE ~(t >= s.fc.next)
  <2>1. UpdateFc(s, t) = s
    BY <1>2 DEF UpdateFc
  <2>2. s.fc.next > t
    BY <1>2, <1>n
  <2>. QED
    BY <2>1, <2>2 DEF SameDmc
<1>. QED
  BY <1>1, <1>2

LEMMA CatchUpTimes ==
    ASSUME NEW s, Good(s), NEW t \in Int, InOrder(s), s.tri.since <= t
    PROVE  LET r == CatchUp(s, t)
           IN /\ InOrder(r) /\ r.tri.since = t /\ r.fc.next > t /\ r.failed = s.failed
              /\ SameDmc(r, s)
<1>. DEFINE q == UpdateFc(s, t)
<1>1. /\ Good(q) /\ InOrder(q) /\ q.tri.since <= t /\ q.fc.next > t /\ q.failed = s.failed
      /\ SameDmc(q, s)
  BY UpdateFcGood, UpdateFcTimes
<1>2. CatchUp(s, t) = UpdateTriangle(q, t)
  BY DEF CatchUp
<1>. HIDE DEF q
<1>3. /\ UpdateTriangle(q, t).tri.since = t /\ UpdateTriangle(q, t).synced <= t
      /\ UpdateTriangle(q, t).failed = q.failed /\ UpdateTriangle(q, t).fc = q.fc
      /\ SameDmc(UpdateTriangle(q, t), q)
  BY <1>1, UpdateTriangleTimes DEF Good, InOrder
<1>4. q.fc.next \in Int
  BY <1>1, TimesAreNumbers DEF Good
<1>. QED
  BY <1>1, <1>2, <1>3, <1>4 DEF InOrder, SameDmc

-----------------------------------------------------------------------------
(* The DMC's part: dmc_end_timestamp, a prediction, agrees with the rounds  *)
(* of dmc_update_body(), and none of its times is near Never.               *)

\* The longest period, and how many bits are left to be played.
Slowest == CHOOSE p \in DmcPeriods : \A q \in DmcPeriods : q <= p
Left(bytes, bit) == (bytes - 1) * Bits + bit
Predicted(d) == d.next + Left(d.bytes, d.bit) * d.period

\* dmc_end_timestamp is the end of the sample, of one that loops the end of this or
\* the next round, and at least the end of the last byte when it was stopped.
Predicts(d, slowed) ==
    /\ d.end <= Never /\ (d.end # Never => d.next # Never)
    /\ d.bytes > 0 => /\ d.next # Never /\ d.end # Never /\ ~slowed
                      /\ d.end >= Predicted(d) /\ (~d.loop => d.end = Predicted(d))
    /\ d.end # Never /\ d.bytes = 0 /\ ~slowed => d.end >= d.next + d.bit * d.period

OnTime(s, t) ==
    /\ s.pcmSynced <= t
    /\ s.dmc.next # Never => s.pcmSynced <= s.dmc.next /\ s.dmc.next <= t + Slowest
    /\ Predicts(s.dmc, s.slowed)

LEMMA Products ==
    ASSUME NEW a \in Nat, NEW b \in Nat, NEW c \in Nat, NEW d \in Nat, a <= b, c <= d
    PROVE  a * c \in Nat /\ b * d \in Nat /\ a * c <= b * d
<1>1. a * c \in Nat /\ b * d \in Nat /\ b * c \in Nat
  OBVIOUS
<1>2. b * c = a * c + (b - a) * c /\ (b - a) * c \in Nat
  OBVIOUS
<1>3. b * d = b * c + b * (d - c) /\ b * (d - c) \in Nat
  OBVIOUS
<1>. QED
  BY <1>1, <1>2, <1>3

LEMMA LeftFacts ==
    ASSUME NEW bytes \in Int, NEW bit \in Int
    PROVE  /\ Left(bytes, bit) \in Int
           /\ Left(bytes, bit - 1) = Left(bytes, bit) - 1
           /\ Left(bytes - 1, Bits) = Left(bytes, 0)
           /\ bytes > 0 => Left(bytes, bit) >= bit
           /\ Left(1, bit) = bit
<1>0. Bits \in Nat \ {0}
  BY RegistersAssumption
<1>1. (bytes - 1) * Bits \in Int /\ ((bytes - 1) - 1) * Bits = (bytes - 1) * Bits - Bits
  BY <1>0
<1>2. bytes > 0 => (bytes - 1) * Bits \in Nat
  BY <1>0
<1>. QED
  BY <1>0, <1>1, <1>2 DEF Left

\* One period later one bit less is left.
LEMMA NextBit ==
    ASSUME NEW n \in Int, NEW p \in Int, NEW k \in Int
    PROVE  /\ k * p \in Int /\ (k - 1) * p \in Int
           /\ (n + p) + (k - 1) * p = n + k * p
OBVIOUS

LEMMA SlowestFacts == Slowest \in DmcPeriods /\ Slowest \in Nat \ {0} /\ \A q \in DmcPeriods : q <= Slowest
BY RegistersAssumption, ApuAssumption DEF Slowest

\* No time of the DMC reaches Never.
LEMMA Room ==
    ASSUME NEW t \in Nat, t <= FrameMax, NEW next \in Int, next <= t + Slowest,
           NEW p \in DmcPeriods, NEW bytes \in UpTo(DmcLengths), bytes > 0, NEW bit \in 0..Bits
    PROVE  next < Never /\ next + Left(bytes, bit) * p < Never
<1>0. /\ Bits \in Nat \ {0} /\ DmcPeriods \subseteq Nat \ {0} /\ DmcLengths \subseteq Nat \ {0}
      /\ FrameMax \in Nat /\ Never \in Nat
  BY ApuAssumption, RegistersAssumption, NeverIsTime
<1>1. PICK l \in DmcLengths : bytes \in 1..l
  BY <1>0 DEF UpTo
<1>. DEFINE k == Left(bytes, bit)
            all == l * Bits
            S == Slowest
<1>2. S \in Nat /\ p \in Nat /\ p <= S
  BY <1>0, SlowestFacts
<1>3. k \in Nat /\ all \in Nat /\ k <= all
  <2>1. l \in Nat /\ bytes \in Nat /\ bit \in Nat /\ bytes - 1 \in Nat /\ l - 1 \in Nat /\ bytes - 1 <= l - 1
    BY <1>0, <1>1
  <2>2. (bytes - 1) * Bits <= (l - 1) * Bits
    BY <1>0, <2>1, Products
  <2>3. (l - 1) * Bits = l * Bits - Bits /\ l * Bits \in Nat /\ (bytes - 1) * Bits \in Nat
    BY <1>0, <2>1
  <2>. QED
    BY <1>0, <2>1, <2>2, <2>3 DEF Left
<1>4. FrameMax + S * (all + 1) < Never
  BY SlowestFacts, TimesAssumption
<1>. HIDE DEF k, all, S
<1>5. k * p \in Nat /\ all * S \in Nat /\ k * p <= all * S
  BY <1>2, <1>3, Products
<1>6. S * (all + 1) = all * S + S
  BY <1>2, <1>3
<1>. QED
  BY <1>0, <1>2, <1>4, <1>5, <1>6 DEF k, S

LEMMA SyncPcmTimes ==
    ASSUME NEW s, \A x \in Names : x \in DOMAIN s, s.pcmSynced \in Int, NEW t \in Int, s.pcmSynced <= t,
           NEW pcm
    PROVE  LET r == SyncPcm(s, t, pcm)
           IN /\ r.pcmSynced = t /\ r.failed = s.failed /\ r.dmc = [s.dmc EXCEPT !.pcm = pcm]
              /\ r.slowed = s.slowed /\ SameFc(r, s) /\ \A x \in Names : x \in DOMAIN r
<1>. DEFINE same(q) == SampleTime(q, t) = q.out.sample
            step(q) == pcm - q.dmc.pcm + PcmMod
            out(q) == [sample |-> SampleTime(q, t),
                       delta |-> (IF same(q) THEN step(q) + q.out.delta ELSE step(q)) % PcmMod]
            sum(q) == IF same(q) THEN q.sum ELSE (q.sum + q.out.delta) % PcmMod
            r(q) == [q EXCEPT !.out = out(q), !.sum = sum(q), !.dmc.pcm = pcm, !.pcmSynced = t]
<1>1. Check(s, t >= s.pcmSynced, 510) = s
  BY DEF Check
<1>2. SyncPcm(s, t, pcm) = r(s)
  <2>1. SyncPcm(s, t, pcm) = r(Check(s, t >= s.pcmSynced, 510))
    BY DEF SyncPcm
  <2>. HIDE DEF r
  <2>. QED
    BY <1>1, <2>1
<1>. HIDE DEF out, sum
<1>3. /\ r(s).pcmSynced = t /\ r(s).failed = s.failed /\ r(s).dmc = [s.dmc EXCEPT !.pcm = pcm]
      /\ r(s).slowed = s.slowed /\ SameFc(r(s), s) /\ \A x \in Names : x \in DOMAIN r(s)
  BY DEF Names, SameFc
<1>. QED
  BY <1>2, <1>3

\* What of the DMC the schedule depends on, the parts in S excepted.
Timing == {"next", "end", "bit", "bytes", "period", "loop", "length"}
Holds(d, c, S) == \A x \in Timing \ S : d[x] = c[x]

\* The call touches neither the frame counter nor the output's time.
Only(r, s) == r.pcmSynced = s.pcmSynced /\ r.failed = s.failed /\ SameFc(r, s)

LEMMA RecalcEndTimes ==
    ASSUME NEW s \in Units, s.dmc.next # Never, s.dmc.bytes # 0
    PROVE  LET r == RecalcEnd(s)
           IN /\ Holds(r.dmc, s.dmc, {"end"}) /\ r.dmc.end = Predicted(s.dmc) /\ r.slowed = FALSE
              /\ Only(r, s)
<1>. DEFINE end == s.dmc.next + ((s.dmc.bytes - 1) * Bits + s.dmc.bit) * s.dmc.period
            r == [s EXCEPT !.dmc.end = end, !.slowed = FALSE]
<1>u. Fields(s) /\ \A x \in Names : x \in DOMAIN s
  BY UnitFields, UnitNames
<1>1. RecalcEnd(s) = r
  BY DEF RecalcEnd
<1>2. end = Predicted(s.dmc)
  BY DEF Predicted, Left
<1>. HIDE DEF end
<1>3. r.dmc = [s.dmc EXCEPT !.end = end] /\ r.slowed = FALSE /\ Only(r, s)
  BY <1>u DEF Names, Only, SameFc
<1>. HIDE DEF r
<1>4. Holds(r.dmc, s.dmc, {"end"}) /\ r.dmc.end = end
  BY <1>3, <1>u DEF Fields, DmcUnits, Holds, Timing
<1>. QED
  BY <1>1, <1>2, <1>3, <1>4

LEMMA DmcStartTimes ==
    ASSUME NEW s \in Units, NEW t \in Int, NEW next \in Int, next # Never,
           s.dmc.next = Never => next = t + s.dmc.period \div 2,
           s.dmc.next # Never => next = s.dmc.next
    PROVE  LET r == DmcStart(s, t)
           IN /\ Holds(r.dmc, s.dmc, {"next", "end", "bytes"})
              /\ r.dmc.next = next /\ r.dmc.bytes = s.dmc.length
              /\ r.dmc.end = next + Left(s.dmc.length, s.dmc.bit) * s.dmc.period
              /\ r.slowed = FALSE /\ Only(r, s)
<1>. DEFINE q == [s EXCEPT !.dmc.addr = s.dmc.start, !.dmc.bytes = s.dmc.length, !.dmc.next = next]
            d == [s.dmc EXCEPT !.addr = s.dmc.start, !.bytes = s.dmc.length, !.next = next]
<1>u. Fields(s) /\ \A x \in Names : x \in DOMAIN s
  BY UnitFields, UnitNames
<1>1. DmcStart(s, t) = RecalcEnd(q)
  BY DEF DmcStart
<1>2. Like(q, s)
  BY DEF Like
<1>3. /\ d \in DmcUnits /\ Holds(d, s.dmc, {"next", "bytes"}) /\ d.next = next
      /\ d.bytes = s.dmc.length /\ s.dmc.length # 0
  <2>1. s.dmc \in DmcUnits /\ s.dmc.length \in UpTo(DmcLengths) /\ s.dmc.length # 0
    BY <1>u, DmcNumbers DEF Fields
  <2>. QED
    BY <2>1 DEF DmcUnits, Holds, Timing
<1>4. Keeps(q, s, {"dmc"}) /\ q.dmc = d
  BY <1>u DEF Keeps, Names, Fields, DmcUnits
<1>. HIDE DEF q, d
<1>5. q \in Units
  <2>1. Fields(q)
    BY <1>u, <1>3, <1>4 DEF Fields, Keeps, Names
  <2>. QED
    BY <1>2, <2>1, UnitIntro
<1>. DEFINE r == RecalcEnd(q)
<1>6. /\ Holds(r.dmc, q.dmc, {"end"}) /\ r.dmc.end = Predicted(q.dmc) /\ r.slowed = FALSE
      /\ Only(r, q)
  BY <1>3, <1>4, <1>5, RecalcEndTimes
<1>. HIDE DEF r
<1>7. Only(q, s)
  BY <1>4 DEF Keeps, Names, Only, SameFc
<1>8. Holds(r.dmc, s.dmc, {"next", "end", "bytes"}) /\ r.dmc.next = next /\ r.dmc.bytes = s.dmc.length
  BY <1>3, <1>4, <1>6 DEF Holds, Timing
<1>9. Predicted(q.dmc) = next + Left(s.dmc.length, s.dmc.bit) * s.dmc.period
  BY <1>3, <1>4 DEF Predicted, Holds, Timing
<1>. QED
  BY <1>1, <1>6, <1>7, <1>8, <1>9 DEF r, Only, SameFc

LEMMA DmcRestartTimes ==
    ASSUME NEW s \in Units, NEW t \in Int, s.dmc.next # Never
    PROVE  LET r == DmcStart(s, t)
           IN /\ Holds(r.dmc, s.dmc, {"end", "bytes"}) /\ r.dmc.bytes = s.dmc.length
              /\ r.dmc.end = s.dmc.next + Left(s.dmc.length, s.dmc.bit) * s.dmc.period
              /\ r.slowed = FALSE /\ Only(r, s)
<1>. DEFINE r == DmcStart(s, t)
<1>1. s.dmc.next \in Int
  BY UnitFields, DmcNumbers DEF Fields
<1>2. /\ Holds(r.dmc, s.dmc, {"next", "end", "bytes"})
      /\ r.dmc.next = s.dmc.next /\ r.dmc.bytes = s.dmc.length
      /\ r.dmc.end = s.dmc.next + Left(s.dmc.length, s.dmc.bit) * s.dmc.period
      /\ r.slowed = FALSE /\ Only(r, s)
  BY <1>1, DmcStartTimes
<1>. HIDE DEF r
<1>3. Holds(r.dmc, s.dmc, {"end", "bytes"})
  BY <1>2 DEF Holds, Timing
<1>. QED
  BY <1>2, <1>3 DEF r

LEMMA DmcEndedTimes ==
    ASSUME NEW s, Base(s), NEW t \in Int, s.dmc.end = t
    PROVE  LET r == DmcEnded(s, t)
           IN /\ Holds(r.dmc, s.dmc, {"end"}) /\ r.dmc.end = Never /\ r.slowed = s.slowed /\ Only(r, s)
<1>. DEFINE on(q) == (q.on \ {"dmc"}) \cup (IF q.dmc.irq THEN {"dmcirq"} ELSE {})
            r(q) == [q EXCEPT !.on = on(q), !.dmc.end = Never]
<1>u. Fields(s) /\ \A x \in Names : x \in DOMAIN s
  BY Unpack
<1>1. Check(s, s.dmc.end = t, 586) = s
  BY DEF Check
<1>2. DmcEnded(s, t) = r(s)
  <2>1. DmcEnded(s, t) = r(Check(s, s.dmc.end = t, 586))
    BY DEF DmcEnded
  <2>. HIDE DEF r
  <2>. QED
    BY <1>1, <2>1
<1>. HIDE DEF on
<1>3. r(s).dmc = [s.dmc EXCEPT !.end = Never] /\ r(s).slowed = s.slowed /\ Only(r(s), s)
  BY <1>u DEF Names, Only, SameFc
<1>. HIDE DEF r
<1>4. Holds(r(s).dmc, s.dmc, {"end"}) /\ r(s).dmc.end = Never
  BY <1>3, <1>u DEF Fields, DmcUnits, Holds, Timing
<1>. QED
  BY <1>2, <1>3, <1>4

LEMMA FetchTimes ==
    ASSUME NEW s, Base(s), NEW t \in Int, s.dmc.bytes > 0, s.dmc.next # Never,
           s.dmc.bytes = 1 /\ ~s.dmc.loop => s.dmc.end = t
    PROVE  LET r == Fetch(s, t)
           IN /\ Only(r, s) /\ Holds(r.dmc, s.dmc, {"bit", "bytes", "end"}) /\ r.dmc.bit = Bits
              /\ s.dmc.bytes > 1 => r.dmc.bytes = s.dmc.bytes - 1 /\ r.dmc.end = s.dmc.end
                                    /\ r.slowed = s.slowed
              /\ s.dmc.bytes = 1 /\ s.dmc.loop =>
                    /\ r.dmc.bytes = s.dmc.length /\ r.slowed = FALSE
                    /\ r.dmc.end = s.dmc.next + Left(s.dmc.length, Bits) * s.dmc.period
              /\ s.dmc.bytes = 1 /\ ~s.dmc.loop =>
                    r.dmc.bytes = 0 /\ r.dmc.end = Never /\ r.slowed = s.slowed
<1>. DEFINE q == Fetched(s)
            d == FetchedDmc(s.dmc)
            bytes == s.dmc.bytes - 1
<1>u. s \in Units /\ Fields(s) /\ s.dmc.bytes \in Nat /\ s.dmc.next \in Int
  BY Unpack, DmcNumbers DEF Fields
<1>n. bytes = s.dmc.bytes - 1
  OBVIOUS
<1>6. /\ Base(q) /\ Keeps(q, s, {"dmc"}) /\ q.dmc = d /\ q.dmc.bytes = bytes /\ q.dmc.bit = Bits
      /\ Fetch(s, t) = IF q.dmc.bytes > 0 THEN q ELSE IF s.dmc.loop THEN DmcStart(q, t) ELSE DmcEnded(q, t)
  BY FetchedMakes
<1>r. Fetch(s, t) = IF q.dmc.bytes > 0 THEN q ELSE IF s.dmc.loop THEN DmcStart(q, t) ELSE DmcEnded(q, t)
  BY <1>6
<1>5. Holds(d, s.dmc, {"bit", "bytes"})
  BY <1>u DEF FetchedDmc, Fields, DmcUnits, Holds, Timing
<1>. HIDE DEF q, d, bytes
<1>7. Base(q) /\ Only(q, s) /\ q.slowed = s.slowed
  BY <1>6 DEF Keeps, Names, Only, SameFc
<1>8. /\ q.dmc.bytes = bytes /\ q.dmc.next = s.dmc.next /\ q.dmc.length = s.dmc.length /\ q.dmc.bit = Bits
      /\ q.dmc.period = s.dmc.period /\ q.dmc.end = s.dmc.end /\ q.dmc.loop = s.dmc.loop
  BY <1>5, <1>6 DEF Holds, Timing
<1>9. CASE s.dmc.bytes > 1
  <2>1. Fetch(s, t) = q
    BY <1>n, <1>r, <1>u, <1>8, <1>9
  <2>2. Holds(q.dmc, s.dmc, {"bit", "bytes", "end"})
    BY <1>5, <1>6 DEF Holds
  <2>3. ~(s.dmc.bytes = 1)
    BY <1>u, <1>9
  <2>4. /\ Only(q, s) /\ q.dmc.bit = Bits /\ q.dmc.bytes = s.dmc.bytes - 1 /\ q.dmc.end = s.dmc.end
        /\ q.slowed = s.slowed
    BY <1>n, <1>6, <1>7, <1>8
  <2>. QED
    BY <2>1, <2>2, <2>3, <2>4
<1>10. CASE s.dmc.bytes = 1 /\ s.dmc.loop
  <2>. DEFINE r == DmcStart(q, t)
  <2>1. Fetch(s, t) = r
    BY <1>n, <1>r, <1>8, <1>10
  <2>2. /\ Holds(r.dmc, q.dmc, {"next", "end", "bytes"}) /\ r.dmc.next = s.dmc.next /\ r.dmc.bytes = q.dmc.length
        /\ r.dmc.end = s.dmc.next + Left(q.dmc.length, q.dmc.bit) * q.dmc.period
        /\ r.slowed = FALSE /\ Only(r, q)
    <3>1. q \in Units
      BY <1>7, Unpack
    <3>. QED
      BY <1>u, <1>8, <3>1, DmcStartTimes
  <2>. HIDE DEF r
  <2>3. Holds(r.dmc, s.dmc, {"bit", "bytes", "end"}) /\ r.dmc.bit = Bits
    BY <1>5, <1>6, <2>2 DEF Holds, Timing
  <2>4. Only(r, s)
    BY <1>7, <2>2 DEF Only, SameFc
  <2>. QED
    BY <1>8, <1>10, <2>1, <2>2, <2>3, <2>4
<1>11. CASE s.dmc.bytes = 1 /\ ~s.dmc.loop
  <2>. DEFINE r == DmcEnded(q, t)
  <2>1. Fetch(s, t) = r
    BY <1>n, <1>r, <1>8, <1>11
  <2>2. Holds(r.dmc, q.dmc, {"end"}) /\ r.dmc.end = Never /\ r.slowed = q.slowed /\ Only(r, q)
    BY <1>7, <1>8, <1>11, DmcEndedTimes
  <2>. HIDE DEF r
  <2>3. Holds(r.dmc, s.dmc, {"bit", "bytes", "end"}) /\ r.dmc.bit = Bits /\ r.dmc.bytes = 0
    BY <1>n, <1>5, <1>6, <1>11, <2>2 DEF Holds, Timing
  <2>4. Only(r, s)
    BY <1>7, <2>2 DEF Only, SameFc
  <2>. QED
    BY <1>7, <1>11, <2>1, <2>2, <2>3, <2>4
<1>12. s.dmc.bytes > 1 \/ s.dmc.bytes = 1
  BY <1>u
<1>. QED
  BY <1>9, <1>10, <1>11, <1>12

LEMMA ShiftTimes ==
    ASSUME NEW s, Base(s), NEW t \in Int, s.pcmSynced <= t
    PROVE  LET r == Shift(s, t)
           IN /\ Holds(r.dmc, s.dmc, {"bit"}) /\ r.dmc.bit = s.dmc.bit - 1 /\ r.slowed = s.slowed
              /\ r.pcmSynced \in {s.pcmSynced, t} /\ r.failed = s.failed /\ SameFc(r, s)
<1>. DEFINE level == s.dmc.pcm + (IF Rom[s.dmc.cur][Bits - s.dmc.bit + 1] = 1 THEN 1 ELSE -1)
            heard == IF level \in 0..PcmTop THEN SyncPcm(s, t, level) ELSE s
            r == [heard EXCEPT !.dmc.bit = @ - 1]
<1>u. Fields(s) /\ (\A x \in Names : x \in DOMAIN s) /\ s.pcmSynced \in Int
  BY Unpack, TimesAreNumbers
<1>r. Shift(s, t) = r
  BY DEF Shift
<1>1. /\ heard.pcmSynced \in {s.pcmSynced, t} /\ heard.failed = s.failed /\ heard.slowed = s.slowed
      /\ SameFc(heard, s) /\ \A x \in Names : x \in DOMAIN heard
      /\ heard.dmc = s.dmc \/ heard.dmc = [s.dmc EXCEPT !.pcm = level]
  <2>. HIDE DEF level
  <2>1. CASE level \in 0..PcmTop
    <3>1. heard = SyncPcm(s, t, level)
      BY <2>1
    <3>. HIDE DEF heard
    <3>. QED
      BY <1>u, <3>1, SyncPcmTimes
  <2>2. CASE level \notin 0..PcmTop
    BY <1>u, <2>2 DEF SameFc
  <2>. QED
    BY <2>1, <2>2
<1>. HIDE DEF heard, level
<1>2. Holds(heard.dmc, s.dmc, {}) /\ \A x \in Timing : x \in DOMAIN heard.dmc
  BY <1>1, <1>u DEF Fields, DmcUnits, Holds, Timing
<1>3. /\ r.dmc = [heard.dmc EXCEPT !.bit = heard.dmc.bit - 1] /\ r.slowed = heard.slowed
      /\ r.pcmSynced = heard.pcmSynced /\ r.failed = heard.failed /\ SameFc(r, heard)
  BY <1>1 DEF Names, SameFc
<1>. HIDE DEF r
<1>4. Holds(r.dmc, s.dmc, {"bit"}) /\ r.dmc.bit = s.dmc.bit - 1
  BY <1>2, <1>3 DEF Holds, Timing
<1>. QED
  BY <1>r, <1>1, <1>3, <1>4 DEF SameFc

LEMMA NextRoom ==
    ASSUME NEW t \in Nat, t <= FrameMax
    PROVE  t + Slowest < Never /\ t < Never
<1>0. /\ Bits \in Nat \ {0} /\ DmcLengths \subseteq Nat \ {0} /\ FrameMax \in Nat /\ Slowest \in Nat \ {0}
  BY ApuAssumption, RegistersAssumption, SlowestFacts, NeverIsTime
<1>1. PICK l \in DmcLengths : TRUE
  BY RegistersAssumption
<1>. DEFINE k == l * Bits
            S == Slowest
<1>2. FrameMax + S * (k + 1) < Never
  BY <1>1, SlowestFacts, TimesAssumption
<1>3. k \in Nat /\ S \in Nat
  BY <1>0, <1>1
<1>. HIDE DEF k, S
<1>4. S * (k + 1) = S * k + S /\ S * k \in Nat
  BY <1>3
<1>. QED
  BY <1>0, <1>2, <1>3, <1>4, NeverIsTime DEF S

\* The numbers of a DMC, with the bound on its next bit.
LEMMA DmcRanges ==
    ASSUME NEW s, Base(s)
    PROVE  /\ s.pcmSynced \in Int /\ s.dmc.next \in Int /\ s.dmc.end \in Int /\ s.dmc.bytes \in Nat
           /\ s.dmc.bit \in Nat /\ s.dmc.bit \in 0..Bits /\ s.dmc.bytes \in UpTo(DmcLengths)
           /\ s.dmc.period \in DmcPeriods /\ s.dmc.period \in Nat \ {0} /\ s.dmc.period <= Slowest
           /\ s.dmc.length \in DmcLengths /\ s.dmc.length \in Nat \ {0} /\ s.dmc.length \in UpTo(DmcLengths)
           /\ s.slowed \in BOOLEAN /\ s.dmc.loop \in BOOLEAN
<1>1. Fields(s) /\ s.dmc \in DmcUnits
  BY Unpack DEF Fields
<1>2. /\ s.dmc.bytes \in UpTo(DmcLengths) /\ s.dmc.bit \in 0..Bits /\ s.dmc.period \in DmcPeriods
      /\ s.dmc.length \in DmcLengths /\ s.dmc.loop \in BOOLEAN
  BY <1>1 DEF DmcUnits
<1>. QED
  BY <1>1, <1>2, DmcNumbers, SlowestFacts DEF Fields

\* A round of the loop of dmc_update_body().
LEMMA DmcDueTimes ==
    ASSUME NEW s, Good(s), NEW t \in Nat, t <= FrameMax, OnTime(s, t), s.dmc.next <= t
    PROVE  LET r == DmcDue(s)
           IN /\ OnTime(r, t) /\ r.dmc.next >= s.dmc.next + 1 /\ r.failed = s.failed /\ SameFc(r, s)
<1>. DEFINE n == s.dmc.next
            p == s.dmc.period
            bit == s.dmc.bit
            bytes == s.dmc.bytes
            length == s.dmc.length
            next == n + p
            d == [s EXCEPT !.dmc.next = next]
            stop == [d EXCEPT !.dmc.next = Never, !.dmc.end = Never, !.slowed = FALSE]
            k == Left(bytes, bit)
<1>r. DmcDue(s) = IF d.dmc.bit > 0 THEN Shift(d, n)
                  ELSE IF d.dmc.bytes > 0 THEN Shift(Fetch(d, n), n)
                  ELSE IF d.dmc.loop /\ "dmc" \in d.enable THEN Shift(Fetch(DmcStart(d, n), n), n)
                  ELSE stop
  BY DEF DmcDue
<1>u. s \in Units /\ Fields(s) /\ \A x \in Names : x \in DOMAIN s
  BY Unpack DEF Good
<1>n. /\ s.pcmSynced \in Int /\ n \in Int /\ s.dmc.end \in Int /\ bytes \in Nat
      /\ bit \in Nat /\ bit \in 0..Bits /\ bytes \in UpTo(DmcLengths)
      /\ p \in DmcPeriods /\ p \in Nat \ {0} /\ p <= Slowest
      /\ length \in DmcLengths /\ length \in Nat \ {0} /\ length \in UpTo(DmcLengths)
      /\ s.slowed \in BOOLEAN /\ s.dmc.loop \in BOOLEAN
  BY DmcRanges DEF Good
<1>b. Bits \in Nat \ {0} /\ Bits \in 0..Bits /\ Slowest \in Nat /\ Never \in Int
  BY RegistersAssumption, SlowestFacts, NeverIsTime
<1>1. next \in Int /\ next <= t + Slowest /\ next < Never /\ next >= n + 1 /\ n # Never /\ n < Never /\ n <= t
  BY <1>n, <1>b, NextRoom
<1>2. s.pcmSynced <= n /\ Predicts(s.dmc, s.slowed)
  BY <1>1 DEF OnTime
<1>i. n \in Int /\ p \in Int /\ bit \in Int /\ bytes \in Int /\ length \in Int /\ Bits \in Int
  BY <1>n, <1>b
<1>3. /\ k \in Int /\ k * p \in Int /\ next + (k - 1) * p = n + k * p
      /\ bit * p \in Int /\ next + (bit - 1) * p = n + bit * p
  <2>. HIDE DEF n, p, bit, bytes
  <2>1. k \in Int
    BY <1>i, LeftFacts
  <2>. HIDE DEF k
  <2>. QED
    BY <1>i, <2>1, NextBit
<1>4. Good(d)
  <2>. HIDE DEF next
  <2>1. Like(d, s)
    BY DEF Like
  <2>2. [s.dmc EXCEPT !.next = next] \in DmcUnits /\ [s.dmc EXCEPT !.next = next].pcm = s.dmc.pcm
    BY <1>1, <1>u DEF Fields, DmcUnits
  <2>3. /\ Keeps(d, s, {"dmc", "slowed", "on", "failed"}) /\ d.dmc = [s.dmc EXCEPT !.next = next]
        /\ d.slowed = s.slowed /\ d.on = s.on /\ d.failed = s.failed
    BY <1>u DEF Keeps, Names
  <2>. HIDE DEF d
  <2>. QED
    BY <1>u, <2>1, <2>2, <2>3, DmcGood DEF Fields, Good
<1>5. /\ Holds(d.dmc, s.dmc, {"next"}) /\ d.dmc.next = next /\ d.slowed = s.slowed /\ Only(d, s)
  <2>. HIDE DEF next
  <2>1. d.dmc = [s.dmc EXCEPT !.next = next] /\ d.slowed = s.slowed /\ Only(d, s)
    BY <1>u DEF Names, Only, SameFc
  <2>. HIDE DEF d
  <2>. QED
    BY <2>1, <1>u DEF Fields, DmcUnits, Holds, Timing
<1>v. \A x \in Names : x \in DOMAIN d
  BY <1>4, Unpack DEF Good
<1>6. /\ d.dmc.bit = bit /\ d.dmc.bytes = bytes /\ d.dmc.loop = s.dmc.loop /\ d.dmc.length = length
      /\ d.dmc.period = p /\ d.dmc.end = s.dmc.end /\ d.pcmSynced = s.pcmSynced
  BY <1>5 DEF Holds, Timing, Only
<1>q. DmcDue(s) = IF bit > 0 THEN Shift(d, n)
                  ELSE IF bytes > 0 THEN Shift(Fetch(d, n), n)
                  ELSE IF s.dmc.loop /\ "dmc" \in d.enable THEN Shift(Fetch(DmcStart(d, n), n), n)
                  ELSE stop
  BY <1>r, <1>6
<1>. HIDE DEF stop, n, p, bit, bytes, length
\* What the bit played last leaves, whatever was done before it.
<1>7. ASSUME NEW q, Base(q), Only(q, d), q.dmc.next = next, q.dmc.period = p,
             NEW r, r = Shift(q, n)
      PROVE  /\ r.dmc.next = next /\ r.dmc.period = p /\ r.dmc.bit = q.dmc.bit - 1
             /\ r.dmc.end = q.dmc.end /\ r.dmc.bytes = q.dmc.bytes /\ r.dmc.loop = q.dmc.loop
             /\ r.slowed = q.slowed
             /\ r.failed = s.failed /\ SameFc(r, s)
             /\ r.pcmSynced <= t /\ (Predicts(r.dmc, r.slowed) => OnTime(r, t))
  <2>1. q.pcmSynced = s.pcmSynced /\ q.failed = s.failed /\ SameFc(q, s)
    BY <1>5, <1>7 DEF Only, SameFc
  <2>2. /\ Holds(r.dmc, q.dmc, {"bit"}) /\ r.dmc.bit = q.dmc.bit - 1 /\ r.slowed = q.slowed
        /\ r.pcmSynced \in {q.pcmSynced, n} /\ r.failed = q.failed /\ SameFc(r, q)
    BY <1>2, <1>7, <1>n, <2>1, ShiftTimes
  <2>3. r.dmc.next = next /\ r.dmc.period = p /\ r.dmc.end = q.dmc.end /\ r.dmc.bytes = q.dmc.bytes
        /\ r.dmc.loop = q.dmc.loop
    BY <1>7, <2>2 DEF Holds, Timing
  <2>4. r.pcmSynced <= n /\ r.pcmSynced \in Int
    BY <1>2, <1>n, <2>1, <2>2
  <2>5. r.pcmSynced <= t /\ r.pcmSynced <= next
    BY <1>1, <1>n, <2>4
  <2>. HIDE DEF next
  <2>. QED
    BY <1>1, <2>1, <2>2, <2>3, <2>5 DEF OnTime, SameFc
<1>. HIDE DEF d
<1>8. CASE bit > 0
  <2>. DEFINE r == Shift(d, n)
  <2>1. /\ r.dmc.next = next /\ r.dmc.period = p /\ r.dmc.bit = bit - 1
        /\ r.dmc.end = s.dmc.end /\ r.dmc.bytes = bytes /\ r.dmc.loop = s.dmc.loop
        /\ r.slowed = s.slowed /\ r.failed = s.failed /\ SameFc(r, s)
        /\ r.pcmSynced <= t /\ (Predicts(r.dmc, r.slowed) => OnTime(r, t))
    <3>1. Base(d) /\ Only(d, d)
      BY <1>4 DEF Good, Only, SameFc
    <3>. QED
      BY <1>5, <1>6, <1>7, <3>1
  <2>2. DmcDue(s) = r
    BY <1>q, <1>8
  <2>. HIDE DEF r
  <2>3. Predicted(r.dmc) = Predicted(s.dmc) /\ r.dmc.next + r.dmc.bit * r.dmc.period = n + bit * p
    <3>1. Left(bytes, bit - 1) = k - 1
      BY <1>i, LeftFacts
    <3>. HIDE DEF k, next
    <3>2. Predicted(r.dmc) = next + (k - 1) * p
      BY <2>1, <3>1 DEF Predicted
    <3>3. Predicted(s.dmc) = n + k * p
      BY DEF Predicted, k, n, p, bit, bytes
    <3>4. r.dmc.next + r.dmc.bit * r.dmc.period = next + (bit - 1) * p
      BY <2>1
    <3>. QED
      BY <1>3, <3>2, <3>3, <3>4
  <2>4. r.dmc.next # Never
    BY <1>1, <2>1
  <2>5. Predicts(r.dmc, r.slowed)
    <3>. HIDE DEF next
    <3>. QED
      BY <1>1, <1>2, <2>1, <2>3, <2>4 DEF Predicts, n, p, bit, bytes
  <2>. QED
    BY <1>1, <2>1, <2>2, <2>5 DEF n
\* A unit that has just been started again plays its first bit.
<1>9. ASSUME NEW q, Base(q), Only(q, d), q.dmc.next = next, q.dmc.period = p, q.dmc.loop, q.slowed = FALSE,
             q.dmc.bytes = length, q.dmc.bit = Bits, q.dmc.end = next + Left(length, Bits) * p,
             NEW r, r = Shift(q, n)
      PROVE  /\ OnTime(r, t) /\ r.dmc.next = next /\ r.failed = s.failed /\ SameFc(r, s)
  <2>1. /\ r.dmc.next = next /\ r.dmc.period = p /\ r.dmc.bit = Bits - 1
        /\ r.dmc.end = next + Left(length, Bits) * p /\ r.dmc.bytes = length /\ r.dmc.loop
        /\ ~r.slowed /\ r.failed = s.failed /\ SameFc(r, s)
        /\ r.pcmSynced <= t /\ (Predicts(r.dmc, r.slowed) => OnTime(r, t))
    BY <1>7, <1>9
  <2>. DEFINE l == Left(length, Bits)
  <2>2. Left(length, Bits - 1) = l - 1 /\ l \in Int
    BY <1>i, LeftFacts
  <2>3. next + l * p < Never
    BY <1>n, <1>b, <1>1, Room
  <2>. HIDE DEF l
  <2>4. next + (l - 1) * p = n + l * p /\ l * p \in Int
    BY <1>i, <2>2, NextBit
  <2>. DEFINE e == l * p
  <2>5. Predicted(r.dmc) = n + e /\ r.dmc.end = next + e
    BY <2>1, <2>2, <2>4 DEF Predicted, l
  <2>6. e \in Int /\ next + e < Never
    BY <2>3, <2>4
  <2>. HIDE DEF e
  <2>7. r.dmc.end >= Predicted(r.dmc) /\ r.dmc.end < Never /\ r.dmc.next # Never /\ r.dmc.bytes # 0
        /\ r.dmc.end # Never /\ r.dmc.end <= Never
    BY <1>n, <1>b, <1>1, <2>1, <2>5, <2>6
  <2>8. Predicts(r.dmc, r.slowed)
    BY <2>1, <2>7 DEF Predicts
  <2>. QED
    BY <2>1, <2>8
<1>10. CASE ~(bit > 0) /\ bytes > 0
  <2>. DEFINE q == Fetch(d, n)
              r == Shift(q, n)
  <2>0. bit = 0 /\ Base(q)
    BY <1>4, <1>6, <1>10, <1>n, FetchGood DEF Good
  <2>1. DmcDue(s) = r
    BY <1>q, <1>10
  <2>2. bytes = 1 /\ ~s.dmc.loop => s.dmc.end = n
    <3>1. bytes = 1 => Predicted(s.dmc) = n
      <4>1. Left(1, 0) = 0 /\ 0 * p = 0
        BY <1>i, LeftFacts
      <4>. QED
        BY <1>i, <2>0, <4>1 DEF Predicted, n, p, bit, bytes
    <3>. QED
      BY <1>2, <1>10, <3>1 DEF Predicts, bytes
  <2>3. /\ Only(q, d) /\ Holds(q.dmc, d.dmc, {"bit", "bytes", "end"}) /\ q.dmc.bit = Bits
        /\ bytes > 1 => q.dmc.bytes = bytes - 1 /\ q.dmc.end = s.dmc.end /\ q.slowed = s.slowed
        /\ bytes = 1 /\ s.dmc.loop => q.dmc.bytes = length /\ q.slowed = FALSE
                                      /\ q.dmc.end = next + Left(length, Bits) * p
        /\ bytes = 1 /\ ~s.dmc.loop => q.dmc.bytes = 0 /\ q.dmc.end = Never /\ q.slowed = s.slowed
    <3>1. d.dmc.next # Never /\ d.dmc.next = next /\ Base(d)
      BY <1>1, <1>4, <1>5 DEF Good
    <3>. HIDE DEF next
    <3>2. /\ Only(q, d) /\ Holds(q.dmc, d.dmc, {"bit", "bytes", "end"}) /\ q.dmc.bit = Bits
          /\ d.dmc.bytes > 1 => q.dmc.bytes = d.dmc.bytes - 1 /\ q.dmc.end = d.dmc.end /\ q.slowed = d.slowed
          /\ d.dmc.bytes = 1 /\ d.dmc.loop =>
                /\ q.dmc.bytes = d.dmc.length /\ q.slowed = FALSE
                /\ q.dmc.end = d.dmc.next + Left(d.dmc.length, Bits) * d.dmc.period
          /\ d.dmc.bytes = 1 /\ ~d.dmc.loop => q.dmc.bytes = 0 /\ q.dmc.end = Never /\ q.slowed = d.slowed
      <4>1. /\ d.dmc.bytes > 0 /\ n \in Int
            /\ d.dmc.bytes = 1 /\ ~d.dmc.loop => d.dmc.end = n
        BY <1>i, <1>6, <1>10, <2>2
      <4>. QED
        BY <3>1, <4>1, FetchTimes, Zenon
    <3>. HIDE DEF q
    <3>. QED
      BY <1>5, <1>6, <3>1, <3>2
  <2>4. q.dmc.next = next /\ q.dmc.period = p /\ q.dmc.loop = s.dmc.loop
    BY <1>5, <1>6, <2>3 DEF Holds, Timing
  <2>. HIDE DEF q
  <2>5. CASE bytes = 1 /\ s.dmc.loop
    <3>1. /\ OnTime(r, t) /\ r.dmc.next = next /\ r.failed = s.failed /\ SameFc(r, s)
      BY <1>9, <2>0, <2>3, <2>4, <2>5
    <3>. QED
      BY <1>1, <2>1, <3>1 DEF n
  <2>6. /\ r.dmc.next = next /\ r.dmc.period = p /\ r.dmc.bit = Bits - 1
        /\ r.dmc.end = q.dmc.end /\ r.dmc.bytes = q.dmc.bytes /\ r.dmc.loop = q.dmc.loop
        /\ r.slowed = q.slowed /\ r.failed = s.failed /\ SameFc(r, s)
        /\ r.pcmSynced <= t /\ (Predicts(r.dmc, r.slowed) => OnTime(r, t))
    BY <1>7, <2>0, <2>3, <2>4
  <2>. HIDE DEF r
  <2>7. CASE bytes = 1 /\ ~s.dmc.loop
    <3>1. Predicts(r.dmc, r.slowed)
      BY <1>b, <2>3, <2>6, <2>7 DEF Predicts
    <3>. QED
      BY <1>1, <2>1, <2>6, <3>1 DEF n
  <2>8. CASE bytes > 1
    <3>1. Left(bytes - 1, Bits - 1) = k - 1
      <4>1. bytes - 1 \in Int /\ bytes \in Int /\ Bits \in Int
        BY <1>n, <1>b
      <4>2. Left(bytes - 1, Bits - 1) = Left(bytes - 1, Bits) - 1 /\ Left(bytes - 1, Bits) = Left(bytes, 0)
        BY <4>1, LeftFacts
      <4>. QED
        BY <2>0, <4>2
    <3>2. Predicted(s.dmc) = n + k * p
      BY DEF Predicted, n, p, bit, bytes
    <3>. HIDE DEF k, next
    <3>3. Predicted(r.dmc) = next + (k - 1) * p
      BY <2>3, <2>6, <2>8, <3>1 DEF Predicted
    <3>4. Predicted(r.dmc) = Predicted(s.dmc)
      BY <1>3, <3>2, <3>3
    <3>5. r.dmc.bytes > 0 /\ r.dmc.bytes # 0 /\ r.dmc.next # Never
      BY <1>1, <1>n, <2>3, <2>6, <2>8
    <3>6. Predicts(r.dmc, r.slowed)
      BY <1>2, <1>10, <2>3, <2>4, <2>6, <2>8, <3>4, <3>5 DEF Predicts, bytes
    <3>. QED
      BY <1>1, <2>1, <2>6, <3>6 DEF n
  <2>9. bytes = 1 \/ bytes > 1
    BY <1>n, <1>10
  <2>. QED
    BY <2>5, <2>7, <2>8, <2>9
<1>11. CASE ~(bit > 0) /\ ~(bytes > 0) /\ s.dmc.loop /\ "dmc" \in d.enable
  <2>. DEFINE v == DmcStart(d, n)
              q == Fetch(v, n)
              r == Shift(q, n)
  <2>0. bit = 0 /\ DmcDue(s) = r
    BY <1>n, <1>q, <1>11
  <2>1. Base(v)
    BY <1>4, <1>n, DmcStartGood DEF Good
  <2>2. /\ Holds(v.dmc, d.dmc, {"next", "end", "bytes"}) /\ v.dmc.next = next /\ v.dmc.bytes = length
        /\ v.dmc.end = next + Left(length, bit) * p /\ v.slowed = FALSE /\ Only(v, d)
    <3>1. d \in Units /\ d.dmc.next = next /\ next # Never /\ next \in Int
      BY <1>1, <1>4, <1>5, Unpack DEF Good
    <3>. HIDE DEF next
    <3>2. /\ Holds(v.dmc, d.dmc, {"end", "bytes"}) /\ v.dmc.bytes = d.dmc.length
          /\ v.dmc.end = d.dmc.next + Left(d.dmc.length, d.dmc.bit) * d.dmc.period
          /\ v.slowed = FALSE /\ Only(v, d)
      BY <1>i, <3>1, DmcRestartTimes
    <3>. HIDE DEF v
    <3>3. Holds(v.dmc, d.dmc, {"next", "end", "bytes"}) /\ v.dmc.next = d.dmc.next
      BY <3>2 DEF Holds, Timing
    <3>. QED
      BY <1>6, <3>1, <3>2, <3>3
  <2>. HIDE DEF v
  <2>3. /\ v.dmc.period = p /\ v.dmc.loop = s.dmc.loop /\ v.dmc.length = length /\ v.dmc.bit = 0
    BY <1>6, <2>0, <2>2 DEF Holds, Timing
  <2>4. /\ Only(q, v) /\ Holds(q.dmc, v.dmc, {"bit", "bytes", "end"}) /\ q.dmc.bit = Bits
        /\ length > 1 => q.dmc.bytes = length - 1 /\ q.dmc.end = v.dmc.end /\ q.slowed = v.slowed
        /\ length = 1 => q.dmc.bytes = length /\ q.slowed = FALSE
                         /\ q.dmc.end = next + Left(length, Bits) * p
    <3>1. v.dmc.next # Never /\ v.dmc.bytes > 0 /\ v.dmc.next = next
      BY <1>1, <1>n, <2>2
    <3>. HIDE DEF next
    <3>2. /\ Only(q, v) /\ Holds(q.dmc, v.dmc, {"bit", "bytes", "end"}) /\ q.dmc.bit = Bits
          /\ v.dmc.bytes > 1 => q.dmc.bytes = v.dmc.bytes - 1 /\ q.dmc.end = v.dmc.end /\ q.slowed = v.slowed
          /\ v.dmc.bytes = 1 /\ v.dmc.loop =>
                /\ q.dmc.bytes = v.dmc.length /\ q.slowed = FALSE
                /\ q.dmc.end = v.dmc.next + Left(v.dmc.length, Bits) * v.dmc.period
      BY <1>i, <1>11, <2>1, <2>3, <3>1, FetchTimes
    <3>. HIDE DEF q
    <3>. QED
      BY <1>11, <2>2, <2>3, <3>1, <3>2
  <2>5. Base(q) /\ Only(q, d)
    <3>1. v.dmc.bytes > 0
      BY <1>n, <2>2
    <3>. QED
      BY <1>n, <2>1, <2>2, <2>4, <3>1, FetchGood DEF Only, SameFc
  <2>. HIDE DEF q
  <2>6. q.dmc.next = next /\ q.dmc.period = p /\ q.dmc.loop
    BY <1>11, <2>2, <2>3, <2>4 DEF Holds, Timing
  <2>7. CASE length = 1
    <3>1. /\ OnTime(r, t) /\ r.dmc.next = next /\ r.failed = s.failed /\ SameFc(r, s)
      BY <1>9, <2>4, <2>5, <2>6, <2>7
    <3>. QED
      BY <1>1, <2>0, <3>1 DEF n
  <2>8. CASE length > 1
    <3>1. /\ r.dmc.next = next /\ r.dmc.period = p /\ r.dmc.bit = Bits - 1
          /\ r.dmc.end = v.dmc.end /\ r.dmc.bytes = length - 1 /\ r.dmc.loop
          /\ ~r.slowed /\ r.failed = s.failed /\ SameFc(r, s)
          /\ r.pcmSynced <= t /\ (Predicts(r.dmc, r.slowed) => OnTime(r, t))
      BY <1>7, <2>2, <2>4, <2>5, <2>6, <2>8
    <3>. HIDE DEF r
    <3>. DEFINE l == Left(length, 0)
    <3>2. Left(length - 1, Bits - 1) = l - 1 /\ l \in Int
      <4>1. length - 1 \in Int /\ length \in Int /\ Bits \in Int
        BY <1>n, <1>b
      <4>2. /\ Left(length - 1, Bits - 1) = Left(length - 1, Bits) - 1
            /\ Left(length - 1, Bits) = Left(length, 0) /\ Left(length, 0) \in Int
        BY <4>1, LeftFacts
      <4>. QED
        BY <4>2
    <3>3. next + l * p < Never
      <4>1. 0 \in 0..Bits
        BY <1>b
      <4>. QED
        BY <1>n, <1>1, <4>1, Room
    <3>. HIDE DEF l
    <3>4. next + (l - 1) * p = n + l * p /\ l * p \in Int
      BY <1>i, <3>2, NextBit
    <3>. DEFINE e == l * p
    <3>5. Predicted(r.dmc) = n + e /\ r.dmc.end = next + e
      BY <2>0, <2>2, <3>1, <3>2, <3>4 DEF Predicted, l
    <3>6. e \in Int /\ next + e < Never
      BY <3>3, <3>4
    <3>. HIDE DEF e
    <3>7. /\ r.dmc.end >= Predicted(r.dmc) /\ r.dmc.next # Never /\ r.dmc.bytes # 0
          /\ r.dmc.end # Never /\ r.dmc.end <= Never
      BY <1>n, <1>b, <1>1, <2>8, <3>1, <3>5, <3>6
    <3>8. Predicts(r.dmc, r.slowed)
      BY <3>1, <3>7 DEF Predicts
    <3>. QED
      BY <1>1, <2>0, <3>1, <3>8 DEF n
  <2>9. length = 1 \/ length > 1
    BY <1>n
  <2>. QED
    BY <2>7, <2>8, <2>9
<1>12. CASE ~(bit > 0) /\ ~(bytes > 0) /\ ~(s.dmc.loop /\ "dmc" \in d.enable)
  <2>1. DmcDue(s) = stop
    BY <1>q, <1>12
  <2>2. d.dmc \in DmcUnits
    BY <1>4, Unpack DEF Good, Fields
  <2>3. /\ stop.dmc = [d.dmc EXCEPT !.next = Never, !.end = Never] /\ stop.slowed = FALSE /\ Only(stop, d)
    BY <1>v DEF stop, Names, Only, SameFc
  <2>4. stop.dmc.next = Never /\ stop.dmc.end = Never /\ stop.dmc.bytes = d.dmc.bytes
    BY <2>2, <2>3 DEF DmcUnits
  <2>5. stop.dmc.bytes = 0 /\ stop.pcmSynced = s.pcmSynced /\ stop.failed = s.failed /\ SameFc(stop, s)
    BY <1>5, <1>6, <1>n, <1>12, <2>3, <2>4 DEF Only, SameFc
  <2>6. Predicts(stop.dmc, stop.slowed)
    BY <1>b, <2>4, <2>5 DEF Predicts
  <2>7. stop.pcmSynced <= t
    BY <2>5 DEF OnTime
  <2>8. OnTime(stop, t)
    BY <2>4, <2>6, <2>7 DEF OnTime
  <2>. QED
    <3>1. stop.dmc.next >= n + 1
      BY <1>1, <1>b, <1>i, <2>4
    <3>. QED
      BY <2>1, <2>5, <2>8, <3>1 DEF n
<1>. QED
  BY <1>8, <1>10, <1>11, <1>12

LEMMA UpdateDmcTimes ==
    ASSUME NEW s, Good(s), NEW t \in Nat, t <= FrameMax, OnTime(s, t)
    PROVE  LET r == UpdateDmc(s, t)
           IN OnTime(r, t) /\ r.dmc.next > t /\ r.failed = s.failed /\ SameFc(r, s)
<1>n. s.dmc.next \in Int /\ t < Never /\ Never \in Int
  BY DmcRanges, NextRoom, NeverIsTime DEF Good
<1>1. CASE t >= s.dmc.next
  <2>. DEFINE m == t - s.dmc.next + 1
              Ahead(q) == OnTime(q, t) /\ q.failed = s.failed /\ SameFc(q, s)
  <2>0. m \in Nat
    BY <1>1, <1>n
  <2>1. PICK g : /\ g[0] = s /\ \A n \in 0..m : Good(g[n])
                 /\ \A n \in 1..m : g[n] = IF t >= g[n - 1].dmc.next THEN DmcDue(g[n - 1]) ELSE g[n - 1]
                 /\ UpdateDmc(s, t) = g[m]
    BY <1>1, DmcRounds
  <2>. DEFINE S == {n \in 0..m : Ahead(g[n]) /\ (g[n].dmc.next > t \/ g[n].dmc.next >= s.dmc.next + n)}
  <2>2. 0 \in S
    BY <1>n, <2>0, <2>1 DEF SameFc
  <2>3. ASSUME NEW n \in 0..m, n # 0, n - 1 \in S PROVE n \in S
    <3>. DEFINE q == g[n - 1]
    <3>1. n \in 1..m /\ n - 1 \in 0..m /\ n - 1 \in Int
      BY <2>0, <2>3
    <3>2. Good(q) /\ Ahead(q) /\ (q.dmc.next > t \/ q.dmc.next >= s.dmc.next + (n - 1)) /\ q.dmc.next \in Int
      BY <2>1, <2>3, <3>1, DmcRanges DEF Good
    <3>3. g[n] = (IF t >= q.dmc.next THEN DmcDue(q) ELSE q)
      BY <2>1, <3>1
    <3>. HIDE DEF q
    <3>4. CASE ~(t >= q.dmc.next)
      <4>1. g[n] = q /\ q.dmc.next > t
        BY <1>n, <3>2, <3>3, <3>4
      <4>. QED
        BY <3>2, <4>1
    <3>5. CASE t >= q.dmc.next
      <4>1. /\ g[n] = DmcDue(q) /\ OnTime(DmcDue(q), t) /\ DmcDue(q).dmc.next >= q.dmc.next + 1
            /\ DmcDue(q).failed = q.failed /\ SameFc(DmcDue(q), q)
        BY <3>2, <3>3, <3>5, DmcDueTimes
      <4>2. Ahead(g[n])
        BY <3>2, <4>1 DEF SameFc
      <4>3. g[n].dmc.next \in Int /\ g[n].dmc.next >= q.dmc.next + 1
        BY <2>1, <4>1, DmcRanges DEF Good
      <4>4. g[n].dmc.next >= s.dmc.next + n
        BY <1>n, <3>1, <3>2, <3>5, <4>3
      <4>. QED
        BY <4>2, <4>4
    <3>. QED
      BY <3>4, <3>5
  <2>4. m \in S
    <3>1. 0..m \subseteq S
      <4>. HIDE DEF S
      <4>. QED
        BY <2>0, <2>2, <2>3, UpToBound
    <3>. QED
      BY <2>0, <3>1
  <2>. DEFINE q == g[m]
  <2>5. Good(q) /\ Ahead(q) /\ (q.dmc.next > t \/ q.dmc.next >= s.dmc.next + m)
    BY <2>0, <2>1, <2>4
  <2>6. UpdateDmc(s, t) = q
    BY <2>1
  <2>. HIDE DEF q
  <2>7. q.dmc.next \in Int
    BY <2>5, DmcRanges DEF Good
  <2>8. q.dmc.next > t
    BY <1>n, <2>5, <2>7
  <2>. QED
    BY <2>5, <2>6, <2>8
<1>2. CASE ~(t >= s.dmc.next)
  <2>1. UpdateDmc(s, t) = s
    BY <1>2 DEF UpdateDmc
  <2>2. s.dmc.next > t
    BY <1>2, <1>n
  <2>. QED
    BY <2>1, <2>2 DEF SameFc
<1>. QED
  BY <1>1, <1>2

-----------------------------------------------------------------------------
(* Both parts: a unit is Timely between calls, Caught after apu_write()'s   *)
(* first calls.                                                             *)

\* No assert has failed, and the schedules allow none to fail: at any time, and
\* after update_fc() and update_triangle_period().
Timely(s, t) == InOrder(s) /\ s.tri.since <= t /\ OnTime(s, t) /\ s.failed = {}
Caught(s, t) == InOrder(s) /\ s.tri.since = t /\ s.fc.next > t /\ OnTime(s, t) /\ s.failed = {}

\* The call changes nothing that has to do with time.
Untimed(r, s) ==
    /\ r.synced = s.synced /\ r.tri.since = s.tri.since /\ r.fc.next = s.fc.next /\ r.failed = s.failed
    /\ Holds(r.dmc, s.dmc, {"length"}) /\ r.pcmSynced = s.pcmSynced /\ r.slowed = s.slowed

LEMMA UntimedTimely ==
    ASSUME NEW s, NEW r, NEW t, Untimed(r, s)
    PROVE  /\ OnTime(s, t) => OnTime(r, t)
           /\ Timely(s, t) => Timely(r, t)
           /\ Caught(s, t) => Caught(r, t)
<1>1. /\ r.dmc.next = s.dmc.next /\ r.dmc.end = s.dmc.end /\ r.dmc.bit = s.dmc.bit /\ r.dmc.bytes = s.dmc.bytes
      /\ r.dmc.period = s.dmc.period /\ r.dmc.loop = s.dmc.loop /\ r.pcmSynced = s.pcmSynced
      /\ r.slowed = s.slowed
  BY DEF Untimed, Holds, Timing
<1>2. Predicted(r.dmc) = Predicted(s.dmc) /\ r.dmc.bit * r.dmc.period = s.dmc.bit * s.dmc.period
  BY <1>1 DEF Predicted
<1>3. Predicts(s.dmc, s.slowed) => Predicts(r.dmc, r.slowed)
  BY <1>1, <1>2 DEF Predicts
<1>4. OnTime(s, t) => OnTime(r, t)
  BY <1>1, <1>3 DEF OnTime
<1>. QED
  BY <1>4 DEF Untimed, Timely, Caught, InOrder

LEMMA LaterTimely ==
    ASSUME NEW s, Good(s), NEW t \in Int, NEW u \in Int, t <= u, Timely(s, t)
    PROVE  Timely(s, u)
<1>1. s.tri.since \in Int /\ s.pcmSynced \in Int /\ s.dmc.next \in Int /\ Slowest \in Int
  BY TimesAreNumbers, DmcRanges, SlowestFacts DEF Good
<1>. QED
  BY <1>1 DEF Timely, OnTime

LEMMA CaughtTimely ==
    ASSUME NEW s, NEW t \in Int, Caught(s, t)
    PROVE  Timely(s, t)
BY DEF Caught, Timely

LEMMA CatchUpTimely ==
    ASSUME NEW s, Good(s), NEW t \in Int, Timely(s, t)
    PROVE  Caught(CatchUp(s, t), t)
<1>1. /\ InOrder(CatchUp(s, t)) /\ CatchUp(s, t).tri.since = t /\ CatchUp(s, t).fc.next > t
      /\ CatchUp(s, t).failed = s.failed /\ SameDmc(CatchUp(s, t), s)
  BY CatchUpTimes DEF Timely
<1>. QED
  BY <1>1 DEF Caught, Timely, OnTime, SameDmc

\* sync_apu() at the end of a call.
LEMMA SyncedCaught ==
    ASSUME NEW q, \A x \in Names : x \in DOMAIN q, q.synced \in Int, NEW t \in Int, Caught(q, t)
    PROVE  LET r == SyncApu(q, t)
           IN Caught(r, t) /\ r.synced = t /\ SameDmc(r, q)
<1>. DEFINE r == SyncApu(q, t)
<1>1. q.synced <= t
  BY DEF Caught, InOrder
<1>2. r.synced = t /\ r.failed = q.failed /\ r.fc = q.fc /\ r.tri = q.tri /\ SameDmc(r, q)
  BY <1>1, SyncApuTimes
<1>. HIDE DEF r
<1>3. OnTime(r, t)
  BY <1>2 DEF Caught, OnTime, SameDmc
<1>4. t <= r.fc.next /\ r.synced <= r.tri.since /\ r.tri.since <= r.fc.next
  BY <1>1, <1>2 DEF Caught, InOrder
<1>5. Caught(r, t)
  BY <1>2, <1>3, <1>4 DEF Caught, InOrder
<1>. QED
  BY <1>2, <1>5 DEF r

LEMMA SyncedTimely ==
    ASSUME NEW s, Base(s), NEW t \in Int, Caught(s, t), NEW q, \A x \in Names : x \in DOMAIN q,
           Untimed(q, s)
    PROVE  Caught(SyncApu(q, t), t)
<1>1. q.synced \in Int
  BY TimesAreNumbers DEF Untimed
<1>2. Caught(q, t)
  BY UntimedTimely
<1>. QED
  BY <1>1, <1>2, SyncedCaught

-----------------------------------------------------------------------------
(* The registers. *)

\* Registers that have nothing to do with time.
Asides == {"on", "enable", "len", "env", "sweep", "freq", "triFreq", "vol", "fifo", "owed"}

LEMMA AsideUntimed ==
    ASSUME NEW s, NEW r, Keeps(r, s, Asides)
    PROVE  Untimed(r, s)
BY DEF Keeps, Names, Asides, Untimed, Holds

LEMMA AsideTimely ==
    ASSUME NEW s, Base(s), NEW t \in Int, Caught(s, t), NEW q, \A x \in Names : x \in DOMAIN q,
           Keeps(q, s, Asides)
    PROVE  Caught(SyncApu(q, t), t)
BY AsideUntimed, SyncedTimely

LEMMA SetVolumeTimes ==
    ASSUME NEW s, Good(s), NEW t \in Int, Caught(s, t), NEW e, NEW period, NEW const, NEW loop
    PROVE  Caught(SetVolume(s, t, e, period, const, loop), t)
<1>. DEFINE env == [s.env[e] EXCEPT !.period = period, !.const = const, !.loop = loop]
            q == [s EXCEPT !.env[e] = env]
            vol == IF q.env[e].const THEN q.env[e].period ELSE q.env[e].level
            r == [q EXCEPT !.vol[e] = vol]
<1>u. \A x \in Names : x \in DOMAIN s
  BY Unpack DEF Good
<1>1. SetVolume(s, t, e, period, const, loop) = SyncApu(r, t)
  BY DEF SetVolume, CacheVolume
<1>. HIDE DEF env, vol
<1>2. Keeps(r, s, Asides) /\ \A x \in Names : x \in DOMAIN r
  BY <1>u DEF Keeps, Names, Asides
<1>. QED
  BY <1>1, <1>2, AsideTimely DEF Good

LEMMA SetSweepTimes ==
    ASSUME NEW s, Good(s), NEW t \in Int, Caught(s, t), NEW p, NEW period, NEW enable, NEW neg, NEW mult
    PROVE  Caught(SetSweep(s, t, p, period, enable, neg, mult), t)
<1>. DEFINE sweep == [s.sweep[p] EXCEPT !.period = period, !.on = enable /\ mult < MultUnit,
                                        !.neg = neg, !.mult = mult, !.reload = TRUE]
            r == [s EXCEPT !.sweep[p] = sweep]
<1>u. \A x \in Names : x \in DOMAIN s
  BY Unpack DEF Good
<1>1. SetSweep(s, t, p, period, enable, neg, mult) = SyncApu(r, t)
  BY DEF SetSweep
<1>. HIDE DEF sweep
<1>2. Keeps(r, s, Asides) /\ \A x \in Names : x \in DOMAIN r
  BY <1>u DEF Keeps, Names, Asides
<1>. QED
  BY <1>1, <1>2, AsideTimely DEF Good

LEMMA SetLowTimes ==
    ASSUME NEW s, Good(s), NEW t \in Int, Caught(s, t), NEW p, NEW v
    PROVE  Caught(SetLow(s, t, p, v), t)
<1>. DEFINE f == (s.freq[p] \div FreqLow) * FreqLow + v
            r == [s EXCEPT !.freq[p] = f]
<1>u. \A x \in Names : x \in DOMAIN s
  BY Unpack DEF Good
<1>1. SetLow(s, t, p, v) = SyncApu(r, t)
  BY DEF SetLow
<1>. HIDE DEF f
<1>2. Keeps(r, s, Asides) /\ \A x \in Names : x \in DOMAIN r
  BY <1>u DEF Keeps, Names, Asides
<1>. QED
  BY <1>1, <1>2, AsideTimely DEF Good

\* Loading a length counter; of the triangle, too.
LEMMA LoadLengthAside ==
    ASSUME NEW s, Good(s), NEW c, NEW length
    PROVE  Keeps(LoadLength(s, c, length), s, Asides) /\ \A x \in Names : x \in DOMAIN LoadLength(s, c, length)
<1>u. \A x \in Names : x \in DOMAIN s
  BY Unpack DEF Good
<1>1. CASE c \in s.enable
  BY <1>1, <1>u DEF LoadLength, Keeps, Names, Asides
<1>2. CASE c \notin s.enable
  BY <1>2, <1>u DEF LoadLength, Keeps
<1>. QED
  BY <1>1, <1>2

LEMMA SetHighTimes ==
    ASSUME NEW s, Good(s), NEW t \in Int, Caught(s, t), NEW p \in Pulses, NEW v \in HighBits, NEW length
    PROVE  Caught(SetHigh(s, t, p, v, length), t)
<1>. DEFINE f == (s.freq[p] % FreqLow) + v * FreqLow
            low == [s EXCEPT !.freq[p] = f]
            load == LoadLength(low, p, length)
            q == [load EXCEPT !.env[p].reload = TRUE]
            loaded == SyncApu(q, t)
            sample == SampleTime(s, t)
            r == [loaded EXCEPT !.fifo.carry = loaded.fifo.carry \cup {p},
                                !.owed = loaded.owed \cup {<<p, sample>>}]
<1>u. \A x \in Names : x \in DOMAIN s
  BY Unpack DEF Good
<1>r. SetHigh(s, t, p, v, length) = r
  BY DEF SetHigh
<1>. HIDE DEF f
<1>1. Keeps(low, s, Asides) /\ \A x \in Names : x \in DOMAIN low
  BY <1>u DEF Keeps, Names, Asides
<1>. HIDE DEF low
<1>2. Keeps(load, low, Asides) /\ \A x \in Names : x \in DOMAIN load
  <2>1. CASE p \in low.enable
    BY <1>1, <2>1 DEF LoadLength, Keeps, Names, Asides
  <2>2. CASE p \notin low.enable
    BY <1>1, <2>2 DEF LoadLength, Keeps
  <2>. QED
    BY <2>1, <2>2
<1>. HIDE DEF load
<1>3. Keeps(q, load, Asides) /\ \A x \in Names : x \in DOMAIN q
  BY <1>2 DEF Keeps, Names, Asides
<1>. HIDE DEF q
<1>4. Keeps(q, s, Asides)
  BY <1>1, <1>2, <1>3 DEF Keeps
<1>5. Caught(loaded, t) /\ \A x \in Names : x \in DOMAIN loaded
  <2>1. s.synced \in Int /\ s.synced <= t /\ q.synced = s.synced
    BY <1>4, TimesAreNumbers DEF Good, Caught, InOrder, Keeps, Names, Asides
  <2>. QED
    BY <1>3, <1>4, <2>1, AsideTimely, SyncApuTimes DEF Good
<1>. HIDE DEF loaded
<1>6. Keeps(r, loaded, Asides)
  BY <1>5 DEF Keeps, Names, Asides
<1>. HIDE DEF r
<1>. QED
  BY <1>r, <1>5, <1>6, AsideUntimed, UntimedTimely

LEMMA SetNoiseLengthTimes ==
    ASSUME NEW s, Good(s), NEW t \in Int, Caught(s, t), NEW length
    PROVE  Caught(SetNoiseLength(s, t, length), t)
<1>. DEFINE load == LoadLength(s, "noise", length)
            r == [load EXCEPT !.env["noise"].reload = TRUE]
<1>1. SetNoiseLength(s, t, length) = SyncApu(r, t)
  BY DEF SetNoiseLength
<1>2. Keeps(load, s, Asides) /\ \A x \in Names : x \in DOMAIN load
  BY LoadLengthAside
<1>. HIDE DEF load
<1>3. Keeps(r, load, Asides) /\ \A x \in Names : x \in DOMAIN r
  BY <1>2 DEF Keeps, Names, Asides
<1>. HIDE DEF r
<1>4. Keeps(r, s, Asides)
  BY <1>2, <1>3 DEF Keeps
<1>. QED
  BY <1>1, <1>3, <1>4, AsideTimely DEF Good

\* The triangle's registers.
LEMMA TriTimes ==
    ASSUME NEW s, Good(s), NEW t, Caught(s, t), NEW halt, NEW count, NEW v, NEW length
    PROVE  /\ Caught(SetLinear(s, halt, count), t) /\ Caught(SetTriLow(s, v), t)
           /\ Caught(SetTriHigh(s, v, length), t)
<1>u. s.tri \in TriUnits /\ \A x \in Names : x \in DOMAIN s
  BY Unpack DEF Good, Fields
<1>1. ASSUME NEW q, Keeps(q, s, Asides), NEW r, Keeps(r, q, {"tri"}), r.tri.since = q.tri.since
      PROVE  Caught(r, t)
  <2>1. Untimed(q, s)
    BY <1>1, AsideUntimed
  <2>2. Untimed(r, q)
    BY <1>1 DEF Keeps, Names, Untimed, Holds
  <2>. QED
    BY <2>1, <2>2, UntimedTimely
<1>2. Keeps(s, s, Asides)
  BY DEF Keeps
<1>3. Caught(SetLinear(s, halt, count), t)
  <2>. DEFINE r == [s EXCEPT !.tri.halt = halt, !.tri.count = count]
  <2>1. SetLinear(s, halt, count) = r
    BY DEF SetLinear
  <2>2. Keeps(r, s, {"tri"}) /\ r.tri.since = s.tri.since
    BY <1>u DEF Keeps, Names, TriUnits
  <2>. HIDE DEF r
  <2>. QED
    BY <1>1, <1>2, <2>1, <2>2
<1>4. Caught(SetTriLow(s, v), t)
  <2>. DEFINE p == (s.tri.period \div FreqLow) * FreqLow + v
              r == [s EXCEPT !.tri.period = p, !.tri.delay = TriDelay]
  <2>1. SetTriLow(s, v) = r
    BY DEF SetTriLow
  <2>. HIDE DEF p
  <2>2. Keeps(r, s, {"tri"}) /\ r.tri.since = s.tri.since
    BY <1>u DEF Keeps, Names, TriUnits
  <2>. HIDE DEF r
  <2>. QED
    BY <1>1, <1>2, <2>1, <2>2
<1>5. Caught(SetTriHigh(s, v, length), t)
  <2>. DEFINE q == LoadLength(s, "tri", length)
              p == (q.tri.period % FreqLow) + v * FreqLow
              r == [q EXCEPT !.tri.period = p, !.tri.delay = TriDelay, !.tri.reload = TRUE]
  <2>1. SetTriHigh(s, v, length) = r
    BY DEF SetTriHigh
  <2>2. Keeps(q, s, Asides) /\ \A x \in Names : x \in DOMAIN q
    BY LoadLengthAside
  <2>. HIDE DEF p, q
  <2>3. q.tri \in TriUnits
    BY <1>u, <2>2 DEF Keeps, Names, Asides
  <2>4. Keeps(r, q, {"tri"}) /\ r.tri.since = q.tri.since
    BY <2>2, <2>3 DEF Keeps, Names, TriUnits
  <2>. HIDE DEF r
  <2>. QED
    BY <1>1, <2>1, <2>2, <2>4
<1>. QED
  BY <1>3, <1>4, <1>5

-----------------------------------------------------------------------------
(* The DMC's registers. *)

LEMMA UpdatedCaught ==
    ASSUME NEW s, Good(s), NEW t \in Nat, t <= FrameMax, Caught(s, t)
    PROVE  LET r == UpdateDmc(s, t)
           IN Good(r) /\ Caught(r, t) /\ r.dmc.next > t
<1>. DEFINE r == UpdateDmc(s, t)
<1>1. Good(r) /\ OnTime(r, t) /\ r.dmc.next > t /\ r.failed = s.failed /\ SameFc(r, s)
  BY UpdateDmcGood, UpdateDmcTimes DEF Caught
<1>. HIDE DEF r
<1>2. Caught(r, t)
  BY <1>1 DEF Caught, InOrder, SameFc
<1>. QED
  BY <1>1, <1>2 DEF r

\* A call that gives the DMC another schedule.
LEMMA DmcCaught ==
    ASSUME NEW s, NEW t, Caught(s, t), NEW r, Only(r, s), Predicts(r.dmc, r.slowed),
           r.dmc.next # Never => s.pcmSynced <= r.dmc.next /\ r.dmc.next <= t + Slowest
    PROVE  Caught(r, t)
BY DEF Only, SameFc, Caught, InOrder, OnTime

\* RecalcEnd() after another period.
LEMMA RecalcEndCaught ==
    ASSUME NEW s, Base(s), NEW t \in Nat, t <= FrameMax, Caught(s, t), NEW r, r \in Units, Only(r, s),
           Holds(r.dmc, s.dmc, {"period", "loop"}),
           r.slowed = (s.slowed \/ (s.dmc.bytes = 0 /\ s.dmc.end # Never /\ r.dmc.period # s.dmc.period))
    PROVE  Caught(RecalcEnd(r), t)
<1>n. /\ s.dmc.next \in Int /\ s.dmc.bytes \in Nat /\ s.dmc.bytes \in UpTo(DmcLengths)
      /\ s.dmc.bit \in 0..Bits /\ s.dmc.bit \in Int /\ Never \in Int
  BY DmcRanges, NeverIsTime
<1>p. r.dmc.period \in DmcPeriods
  BY UnitFields DEF Fields, DmcUnits
<1>1. /\ r.dmc.next = s.dmc.next /\ r.dmc.end = s.dmc.end /\ r.dmc.bit = s.dmc.bit
      /\ r.dmc.bytes = s.dmc.bytes
  BY DEF Holds, Timing
<1>2. /\ Predicts(s.dmc, s.slowed)
      /\ s.dmc.next # Never => s.pcmSynced <= s.dmc.next /\ s.dmc.next <= t + Slowest
  BY DEF Caught, OnTime
<1>3. CASE s.dmc.next # Never /\ s.dmc.bytes # 0
  <2>. DEFINE q == RecalcEnd(r)
  <2>1. /\ Holds(q.dmc, r.dmc, {"end"}) /\ q.dmc.end = Predicted(r.dmc) /\ q.slowed = FALSE
        /\ Only(q, r)
    BY <1>1, <1>3, RecalcEndTimes
  <2>. HIDE DEF q
  <2>2. /\ q.dmc.next = s.dmc.next /\ q.dmc.bit = s.dmc.bit /\ q.dmc.bytes = s.dmc.bytes
        /\ q.dmc.period = r.dmc.period
    BY <1>1, <2>1 DEF Holds, Timing
  <2>3. q.dmc.end = Predicted(q.dmc)
    BY <1>1, <2>1, <2>2 DEF Predicted
  <2>. DEFINE e == s.dmc.next + Left(s.dmc.bytes, s.dmc.bit) * r.dmc.period
  <2>4. e < Never /\ e \in Int
    <3>1. s.dmc.bytes > 0 /\ s.dmc.next <= t + Slowest
      BY <1>n, <1>2, <1>3
    <3>2. e < Never
      BY <1>n, <1>p, <3>1, Room
    <3>3. s.dmc.bytes \in Int /\ r.dmc.period \in Int
      <4>1. DmcPeriods \subseteq Nat
        BY ApuAssumption
      <4>2. r.dmc.period \in Nat
        BY <1>p, <4>1
      <4>. QED
        BY <1>n, <4>2
    <3>4. Left(s.dmc.bytes, s.dmc.bit) \in Int
      BY <1>n, <3>3, LeftFacts
    <3>. QED
      BY <1>n, <3>2, <3>3, <3>4
  <2>5. q.dmc.end = e
    BY <1>1, <2>1 DEF Predicted
  <2>. HIDE DEF e
  <2>6. q.dmc.end # Never /\ q.dmc.end <= Never /\ q.dmc.end >= Predicted(q.dmc)
    BY <1>n, <2>3, <2>4, <2>5
  <2>7. Predicts(q.dmc, q.slowed)
    BY <1>3, <2>1, <2>2, <2>3, <2>6 DEF Predicts
  <2>8. Only(q, s)
    BY <2>1 DEF Only, SameFc
  <2>9. Caught(q, t)
    BY <1>2, <2>2, <2>7, <2>8, DmcCaught
  <2>. QED
    BY <2>9 DEF q
<1>4. CASE s.dmc.next = Never \/ s.dmc.bytes = 0
  <2>1. RecalcEnd(r) = r
    BY <1>1, <1>4 DEF RecalcEnd
  <2>2. s.dmc.bytes = 0
    BY <1>n, <1>2, <1>4 DEF Predicts
  <2>3. ~(s.dmc.bytes > 0)
    BY <2>2
  <2>4. s.dmc.end # Never /\ ~r.slowed => r.dmc.end >= r.dmc.next + r.dmc.bit * r.dmc.period
    <3>1. s.dmc.end # Never /\ ~r.slowed => r.dmc.period = s.dmc.period /\ ~s.slowed
      BY <2>2
    <3>. QED
      BY <1>1, <1>2, <2>2, <3>1 DEF Predicts
  <2>5. Predicts(r.dmc, r.slowed)
    BY <1>1, <1>2, <2>3, <2>4 DEF Predicts
  <2>. QED
    BY <1>1, <1>2, <2>1, <2>5, DmcCaught
<1>. QED
  BY <1>3, <1>4

LEMMA SetRateTimes ==
    ASSUME NEW s0, Good(s0), NEW t \in Nat, t <= FrameMax, Caught(s0, t),
           NEW period \in DmcPeriods, NEW loop \in BOOLEAN, NEW irq \in BOOLEAN
    PROVE  Caught(SetRate(s0, t, period, loop, irq), t)
<1>. DEFINE s == UpdateDmc(s0, t)
            on == IF irq /\ ~loop THEN s.on ELSE s.on \ {"dmcirq"}
            slowed == s.slowed \/ /\ s.dmc.bytes = 0 /\ s.dmc.end # Never
                                  /\ period # s.dmc.period
            r == [s EXCEPT !.dmc.period = period, !.dmc.loop = loop, !.dmc.irq = irq, !.on = on,
                           !.slowed = slowed]
<1>r. SetRate(s0, t, period, loop, irq) = RecalcEnd(r)
  BY DEF SetRate
<1>1. Good(s) /\ Caught(s, t)
  BY UpdatedCaught
<1>. HIDE DEF s
<1>u. s \in Units /\ Fields(s) /\ \A x \in Names : x \in DOMAIN s
  BY <1>1, Unpack DEF Good
<1>2. /\ slowed \in BOOLEAN /\ on \in SUBSET (Channels \cup {"dmc", "fcirq", "dmcirq"})
      /\ on \cap Channels = s.on \cap Channels
  BY <1>u DEF Fields, Channels, Envs, Pulses
<1>s. slowed = (s.slowed \/ (s.dmc.bytes = 0 /\ s.dmc.end # Never /\ period # s.dmc.period))
  OBVIOUS
<1>. HIDE DEF on, slowed
<1>3. Like(r, s)
  BY DEF Like
<1>4. /\ Keeps(r, s, {"dmc", "slowed", "on", "failed"})
      /\ r.dmc = [s.dmc EXCEPT !.period = period, !.loop = loop, !.irq = irq]
      /\ r.on = on /\ r.slowed = slowed /\ r.failed = s.failed
  BY <1>u DEF Keeps, Names
<1>. HIDE DEF r
<1>5. /\ r.dmc \in DmcUnits /\ r.dmc.pcm = s.dmc.pcm /\ r.dmc.period = period
      /\ Holds(r.dmc, s.dmc, {"period", "loop"})
  <2>1. s.dmc \in DmcUnits
    BY <1>u DEF Fields
  <2>. QED
    BY <1>4, <2>1 DEF DmcUnits, Holds, Timing
<1>6. Good(r)
  BY <1>1, <1>u, <1>2, <1>3, <1>4, <1>5, DmcGood DEF Fields, Good
<1>7. Only(r, s)
  BY <1>4 DEF Keeps, Names, Only, SameFc
<1>8. r \in Units
  BY <1>6, Unpack DEF Good
<1>9. r.slowed = (s.slowed \/ (s.dmc.bytes = 0 /\ s.dmc.end # Never /\ r.dmc.period # s.dmc.period))
  BY <1>s, <1>4, <1>5
<1>10. Caught(RecalcEnd(r), t)
  BY <1>1, <1>5, <1>7, <1>8, <1>9, RecalcEndCaught DEF Good
<1>. QED
  BY <1>r, <1>10

LEMMA SetLevelTimes ==
    ASSUME NEW s0, Good(s0), NEW t \in Nat, t <= FrameMax, Caught(s0, t), NEW level
    PROVE  LET r == SetLevel(s0, t, level)
           IN Caught(r, t) /\ r.pcmSynced = t /\ r.dmc.next > t
<1>. DEFINE s == UpdateDmc(s0, t)
            r == SyncPcm(s, t, level)
<1>r. SetLevel(s0, t, level) = r
  BY DEF SetLevel
<1>1. Good(s) /\ Caught(s, t) /\ s.dmc.next > t
  BY UpdatedCaught
<1>. HIDE DEF s
<1>u. Fields(s) /\ (\A x \in Names : x \in DOMAIN s) /\ s.pcmSynced \in Int /\ s.pcmSynced <= t
      /\ s.dmc.next \in Int
  BY <1>1, Unpack, DmcRanges DEF Good, Caught, OnTime
<1>2. /\ r.pcmSynced = t /\ r.failed = s.failed /\ r.dmc = [s.dmc EXCEPT !.pcm = level]
      /\ r.slowed = s.slowed /\ SameFc(r, s)
  BY <1>u, SyncPcmTimes
<1>. HIDE DEF r
<1>3. Holds(r.dmc, s.dmc, {})
  BY <1>2, <1>u DEF Fields, DmcUnits, Holds, Timing
<1>4. /\ r.dmc.next = s.dmc.next /\ r.dmc.end = s.dmc.end /\ r.dmc.bit = s.dmc.bit /\ r.dmc.bytes = s.dmc.bytes
      /\ r.dmc.period = s.dmc.period /\ r.dmc.loop = s.dmc.loop
  BY <1>3 DEF Holds, Timing
<1>5. Predicts(r.dmc, r.slowed)
  <2>1. Predicted(r.dmc) = Predicted(s.dmc) /\ r.dmc.bit * r.dmc.period = s.dmc.bit * s.dmc.period
    BY <1>4 DEF Predicted
  <2>. QED
    BY <1>1, <1>2, <1>4, <2>1 DEF Caught, OnTime, Predicts
<1>6. t <= r.dmc.next
  BY <1>1, <1>4, <1>u
<1>7. OnTime(r, t)
  BY <1>1, <1>2, <1>4, <1>5, <1>6 DEF Caught, OnTime
<1>8. Caught(r, t)
  BY <1>1, <1>2, <1>7 DEF Caught, InOrder, SameFc
<1>. QED
  BY <1>r, <1>1, <1>2, <1>4, <1>8

LEMMA SetStartLengthTimes ==
    ASSUME NEW s0, Good(s0), NEW t \in Nat, t <= FrameMax, Caught(s0, t), NEW x
    PROVE  Caught(SetStart(s0, t, x), t) /\ Caught(SetLength(s0, t, x), t)
<1>. DEFINE s == UpdateDmc(s0, t)
            a == [s EXCEPT !.dmc.start = x]
            b == [s EXCEPT !.dmc.length = x]
<1>r. SetStart(s0, t, x) = a /\ SetLength(s0, t, x) = b
  BY DEF SetStart, SetLength
<1>1. Good(s) /\ Caught(s, t)
  BY UpdatedCaught
<1>. HIDE DEF s
<1>u. s.dmc \in DmcUnits /\ \A n \in Names : n \in DOMAIN s
  BY <1>1, Unpack DEF Good, Fields
<1>2. ASSUME NEW r, Keeps(r, s, {"dmc"}), Holds(r.dmc, s.dmc, {"length"}) PROVE Caught(r, t)
  <2>1. Untimed(r, s)
    BY <1>2 DEF Keeps, Names, Untimed
  <2>. QED
    BY <1>1, <2>1, UntimedTimely
<1>3. Keeps(a, s, {"dmc"}) /\ a.dmc = [s.dmc EXCEPT !.start = x]
  BY <1>u DEF Keeps, Names
<1>4. Keeps(b, s, {"dmc"}) /\ b.dmc = [s.dmc EXCEPT !.length = x]
  BY <1>u DEF Keeps, Names
<1>. HIDE DEF a, b
<1>5. Holds(a.dmc, s.dmc, {"length"}) /\ Holds(b.dmc, s.dmc, {"length"})
  BY <1>u, <1>3, <1>4 DEF DmcUnits, Holds, Timing
<1>. QED
  BY <1>r, <1>2, <1>3, <1>4, <1>5

LEMMA SetEnableTimes ==
    ASSUME NEW s0, Good(s0), NEW t \in Nat, t <= FrameMax, Caught(s0, t),
           NEW enable \in SUBSET (Channels \cup {"dmc"})
    PROVE  Caught(SetEnable(s0, t, enable), t)
<1>. DEFINE s == UpdateDmc(s0, t)
            len == [c \in Channels |-> IF c \in enable THEN s.len[c] ELSE 0]
            delay == IF "tri" \notin enable /\ s.len["tri"] > 0 THEN TriDelay ELSE s.tri.delay
            cut == [s EXCEPT !.len = len, !.tri.delay = delay, !.enable = enable]
            stop == [cut EXCEPT !.dmc.bytes = 0]
            dmc == IF "dmc" \notin enable THEN stop
                   ELSE IF cut.dmc.bytes = 0 THEN DmcStart(cut, t) ELSE cut
            on == (IF "dmc" \in enable THEN dmc.on \cup {"dmc"} ELSE dmc.on) \cap ({"fcirq"} \cup enable)
            r == [dmc EXCEPT !.on = on]
<1>r. SetEnable(s0, t, enable) = SyncApu(r, t)
  BY DEF SetEnable
<1>1. Good(s) /\ Caught(s, t)
  BY UpdatedCaught
<1>. HIDE DEF s
<1>u. s \in Units /\ Fields(s) /\ \A x \in Names : x \in DOMAIN s
  BY <1>1, Unpack DEF Good
<1>n. /\ s.dmc.next \in Int /\ s.dmc.end \in Int /\ s.dmc.bytes \in Nat
      /\ s.dmc.bit \in Nat /\ s.dmc.bit \in 0..Bits /\ s.pcmSynced \in Int
      /\ s.dmc.period \in DmcPeriods /\ s.dmc.period \in Nat \ {0} /\ s.dmc.period <= Slowest
      /\ s.dmc.length \in DmcLengths /\ s.dmc.length \in Nat \ {0} /\ s.dmc.length \in UpTo(DmcLengths)
      /\ Slowest \in Nat /\ Never \in Int
  BY <1>1, DmcRanges, SlowestFacts, NeverIsTime DEF Good
<1>2. len \in [Channels -> UpTo(Lengths)] /\ delay \in Int
  BY ApuAssumption, <1>u DEF Fields, TriUnits, UpTo
<1>. HIDE DEF len, delay
<1>3. /\ Keeps(cut, s, {"len", "tri", "enable"}) /\ cut.len = len /\ cut.enable = enable
      /\ cut.tri = [s.tri EXCEPT !.delay = delay] /\ \A x \in Names : x \in DOMAIN cut
  BY <1>u DEF Keeps, Names
<1>4. Like(cut, s)
  BY DEF Like
<1>. HIDE DEF cut
<1>5. cut \in Units /\ cut.tri.since = s.tri.since
  <2>1. cut.tri \in TriUnits /\ cut.tri.since = s.tri.since
    BY <1>2, <1>3, <1>u DEF Fields, TriUnits
  <2>2. Fields(cut)
    BY <1>u, <1>2, <1>3, <2>1 DEF Fields, Keeps, Names
  <2>. QED
    BY <1>u, <1>4, <2>1, <2>2, UnitIntro
<1>6. /\ Caught(cut, t) /\ cut.dmc = s.dmc /\ cut.slowed = s.slowed /\ cut.synced = s.synced
      /\ cut.pcmSynced = s.pcmSynced
  <2>1. /\ cut.synced = s.synced /\ cut.fc = s.fc /\ cut.failed = s.failed /\ cut.dmc = s.dmc
        /\ cut.pcmSynced = s.pcmSynced /\ cut.slowed = s.slowed
    BY <1>3 DEF Keeps, Names
  <2>2. Untimed(cut, s)
    BY <1>5, <2>1 DEF Untimed, Holds
  <2>. QED
    BY <1>1, <2>1, <2>2, UntimedTimely
<1>7. /\ Predicts(s.dmc, s.slowed) /\ s.pcmSynced <= t
      /\ s.dmc.next # Never => s.pcmSynced <= s.dmc.next /\ s.dmc.next <= t + Slowest
  BY <1>1 DEF Caught, OnTime
<1>. DEFINE Done(q) == Caught(q, t) /\ q.synced = s.synced /\ \A x \in Names : x \in DOMAIN q
<1>8. ASSUME "dmc" \notin enable PROVE Done(dmc)
  <2>1. dmc = stop
    BY <1>8
  <2>2. Only(stop, cut) /\ stop.dmc = [cut.dmc EXCEPT !.bytes = 0] /\ stop.slowed = cut.slowed
    BY <1>3 DEF Only, SameFc, Names
  <2>. HIDE DEF stop, dmc
  <2>3. /\ stop.dmc.next = s.dmc.next /\ stop.dmc.end = s.dmc.end /\ stop.dmc.bit = s.dmc.bit
        /\ stop.dmc.bytes = 0 /\ stop.dmc.period = s.dmc.period
    BY <1>6, <1>u, <2>2 DEF Fields, DmcUnits
  <2>. DEFINE played == s.dmc.bit * s.dmc.period
  <2>4. s.dmc.end # Never /\ ~s.slowed => s.dmc.end >= s.dmc.next + played
    <3>1. CASE s.dmc.bytes = 0
      BY <1>7, <3>1 DEF Predicts
    <3>2. CASE s.dmc.bytes > 0
      <4>. DEFINE k == Left(s.dmc.bytes, s.dmc.bit)
                  left == k * s.dmc.period
      <4>1. s.dmc.bytes \in Int /\ s.dmc.bit \in Int
        BY <1>n
      <4>2. k \in Int /\ k >= s.dmc.bit
        BY <3>2, <4>1, LeftFacts
      <4>3. Predicted(s.dmc) = s.dmc.next + left
        BY DEF Predicted
      <4>. HIDE DEF k
      <4>4. k \in Nat
        BY <1>n, <4>2
      <4>5. left \in Nat /\ played \in Nat /\ played <= left
        BY <1>n, <4>2, <4>4, Products
      <4>6. s.dmc.end >= Predicted(s.dmc)
        BY <1>7, <3>2 DEF Predicts
      <4>. HIDE DEF left, played
      <4>. QED
        BY <1>n, <4>3, <4>5, <4>6
    <3>3. s.dmc.bytes = 0 \/ s.dmc.bytes > 0
      BY <1>n
    <3>. QED
      BY <3>1, <3>2, <3>3
  <2>5. Predicts(stop.dmc, stop.slowed)
    <3>1. ~(stop.dmc.bytes > 0)
      BY <2>3
    <3>. QED
      BY <1>6, <1>7, <2>2, <2>3, <2>4, <3>1 DEF Predicts
  <2>6. Caught(stop, t)
    BY <1>6, <1>7, <2>2, <2>3, <2>5, DmcCaught
  <2>7. \A x \in Names : x \in DOMAIN stop
    BY <1>3 DEF stop
  <2>8. stop.synced = cut.synced
    BY <2>2 DEF Only, SameFc
  <2>. QED
    BY <1>6, <2>1, <2>6, <2>7, <2>8
<1>9. ASSUME "dmc" \in enable, cut.dmc.bytes = 0 PROVE Done(dmc)
  <2>. DEFINE q == DmcStart(cut, t)
              half == s.dmc.period \div 2
              next == IF s.dmc.next = Never THEN t + half ELSE s.dmc.next
              e == next + Left(s.dmc.length, s.dmc.bit) * s.dmc.period
  <2>1. dmc = q
    BY <1>9
  <2>. HIDE DEF dmc
  <2>2. half \in Nat /\ half <= Slowest
    BY <1>n
  <2>. HIDE DEF half
  <2>3. next \in Int /\ next <= t + Slowest /\ s.pcmSynced <= next
    BY <1>n, <1>7, <2>2
  <2>4. next < Never /\ e < Never
    <3>1. s.dmc.length > 0
      BY <1>n
    <3>. HIDE DEF next
    <3>. QED
      BY <1>n, <2>3, <3>1, Room
  <2>5. next # Never /\ e \in Int
    <3>1. s.dmc.length \in Int /\ s.dmc.bit \in Int /\ s.dmc.period \in Int
      BY <1>n
    <3>2. Left(s.dmc.length, s.dmc.bit) \in Int
      BY <3>1, LeftFacts
    <3>. HIDE DEF next
    <3>. QED
      BY <1>n, <2>3, <2>4, <3>1, <3>2
  <2>6. /\ cut.dmc.next = Never => next = t + cut.dmc.period \div 2
        /\ cut.dmc.next # Never => next = cut.dmc.next
    BY <1>6 DEF half
  <2>. HIDE DEF next
  <2>7. /\ Holds(q.dmc, cut.dmc, {"next", "end", "bytes"}) /\ q.dmc.next = next /\ q.dmc.bytes = cut.dmc.length
        /\ q.dmc.end = next + Left(cut.dmc.length, cut.dmc.bit) * cut.dmc.period
        /\ q.slowed = FALSE /\ Only(q, cut)
    <3>1. cut \in Units /\ t \in Int /\ next \in Int /\ next # Never
      BY <1>5, <2>3, <2>5
    <3>. QED
      BY ZenonT(30), <2>6, <3>1, DmcStartTimes
  <2>8. q \in Units
    BY <1>5, DmcStartUnits
  <2>. HIDE DEF q
  <2>9. /\ q.dmc.end = e /\ q.dmc.bytes = s.dmc.length /\ q.dmc.bit = s.dmc.bit /\ q.dmc.period = s.dmc.period
    BY <1>6, <2>7 DEF Holds, Timing
  <2>10. Predicted(q.dmc) = e
    BY <2>7, <2>9 DEF Predicted
  <2>. HIDE DEF e
  <2>11. q.dmc.end <= Never /\ q.dmc.end # Never /\ q.dmc.end >= Predicted(q.dmc) /\ q.dmc.bytes # 0
    BY <1>n, <2>4, <2>5, <2>9, <2>10
  <2>12. Predicts(q.dmc, q.slowed)
    BY <2>5, <2>7, <2>9, <2>10, <2>11 DEF Predicts
  <2>13. Caught(q, t)
    BY <1>6, <2>3, <2>7, <2>12, DmcCaught
  <2>14. q.synced = s.synced /\ \A x \in Names : x \in DOMAIN q
    BY <1>6, <2>7, <2>8, UnitNames DEF Only, SameFc
  <2>. QED
    BY <2>1, <2>13, <2>14
<1>10. ASSUME "dmc" \in enable, cut.dmc.bytes # 0 PROVE Done(dmc)
  BY <1>3, <1>6, <1>10
<1>11. Done(dmc)
  BY <1>8, <1>9, <1>10
<1>. HIDE DEF dmc, on
<1>12. Keeps(r, dmc, Asides) /\ \A x \in Names : x \in DOMAIN r
  BY <1>11 DEF Keeps, Names, Asides
<1>. HIDE DEF r
<1>13. Caught(r, t)
  BY <1>11, <1>12, AsideUntimed, UntimedTimely
<1>14. r.synced \in Int
  BY <1>11, <1>12, <1>u DEF Keeps, Names, Asides, Fields
<1>. QED
  BY <1>r, <1>12, <1>13, <1>14, SyncedCaught

LEMMA SetSequencerTimes ==
    ASSUME NEW s, Good(s), NEW t \in Int, Caught(s, t), NEW five, NEW quiet
    PROVE  Caught(SetSequencer(s, t, five, quiet), t)
<1>. DEFINE reset == [s EXCEPT !.fc.seq = 0]
            clocked == IF five THEN ClockSequencer(reset, t) ELSE reset
            next == t + (FcPeriod + 1) \div 2
            fc == [next |-> next, divider |-> (FcPeriod + 1) % 2,
                   seq |-> clocked.fc.seq, five |-> five, quiet |-> quiet]
            r == [clocked EXCEPT !.fc = fc]
<1>r. SetSequencer(s, t, five, quiet) = r
  BY DEF SetSequencer
<1>u. s \in Units /\ Fields(s) /\ (\A x \in Names : x \in DOMAIN s) /\ s.synced \in Int
  BY Unpack DEF Good, Fields
<1>1. next > t /\ next \in Int
  <2>1. (FcPeriod + 1) \div 2 \in Int /\ (FcPeriod + 1) \div 2 >= 1
    BY ApuAssumption
  <2>. QED
    BY <2>1
<1>. HIDE DEF next
<1>2. Base(reset) /\ Keeps(reset, s, {"fc"}) /\ \A x \in Names : x \in DOMAIN reset
  <2>1. [s.fc EXCEPT !.seq = 0] \in FcUnits
    BY <1>u DEF Fields, FcUnits
  <2>2. Keeps(reset, s, {"fc"}) /\ reset.fc = [s.fc EXCEPT !.seq = 0] /\ Like(reset, s)
    BY <1>u DEF Keeps, Names, Like
  <2>. HIDE DEF reset
  <2>3. reset \in Units
    <3>1. Fields(reset)
      BY <1>u, <2>1, <2>2 DEF Fields, Keeps, Names
    <3>. QED
      BY <1>u, <2>2, <3>1, UnitIntro
  <2>4. /\ Keeps(reset, s, {"on", "fc", "dmc", "offs", "synced", "pcmSynced", "failed", "slowed"})
        /\ reset.on = s.on /\ reset.dmc = s.dmc
    BY <2>2 DEF Keeps, Names
  <2>5. Good(reset)
    BY <2>3, <2>4, AsideGood DEF Good
  <2>. QED
    BY <2>2, <2>3, <2>5, UnitNames DEF Good
<1>. HIDE DEF reset
<1>3. /\ reset.synced = s.synced /\ reset.tri = s.tri /\ reset.failed = s.failed /\ SameDmc(reset, s)
  BY <1>2 DEF Keeps, Names, SameDmc
<1>4. s.synced <= t /\ s.tri.since = t
  BY DEF Caught, InOrder
<1>5. /\ clocked.synced <= t /\ clocked.tri.since = t /\ clocked.failed = s.failed /\ SameDmc(clocked, s)
      /\ \A x \in Names : x \in DOMAIN clocked
  <2>1. CASE five
    <3>. DEFINE q == ClockSequencer(reset, t)
    <3>1. clocked = q
      BY <2>1
    <3>2. q.synced = t /\ q.tri.since = reset.tri.since /\ q.failed = reset.failed /\ SameDmc(q, reset)
      BY <1>2, <1>3, <1>4, ClockSequencerTimes
    <3>3. \A x \in Names : x \in DOMAIN q
      BY <1>2, ClockSequencerGood, Unpack DEF Good
    <3>. HIDE DEF q, clocked
    <3>4. t <= t
      OBVIOUS
    <3>. QED
      BY <1>3, <1>4, <3>1, <3>2, <3>3, <3>4 DEF SameDmc
  <2>2. CASE ~five
    BY <1>2, <1>3, <1>4, <2>2
  <2>. QED
    BY <2>1, <2>2
<1>. HIDE DEF clocked
<1>6. fc.next = next
  OBVIOUS
<1>. HIDE DEF fc
<1>7. /\ r.fc = fc /\ r.synced = clocked.synced /\ r.tri = clocked.tri /\ r.failed = clocked.failed
      /\ SameDmc(r, clocked)
  BY <1>5 DEF Names, SameDmc
<1>. HIDE DEF r
<1>8. t <= next
  BY <1>1
<1>9. OnTime(r, t)
  BY <1>5, <1>7 DEF SameDmc, Caught, OnTime
<1>10. Caught(r, t)
  BY <1>1, <1>5, <1>6, <1>7, <1>8, <1>9 DEF Caught, InOrder
<1>. QED
  BY <1>r, <1>10

LEMMA AfterReadTimes ==
    ASSUME NEW s, Good(s), NEW t \in Nat, t <= FrameMax, Timely(s, t)
    PROVE  Timely(AfterRead(s, t), t)
<1>. DEFINE c == UpdateFc(s, t)
            d == UpdateDmc(c, t)
            q == BeforeRead(s, t)
            on == q.on \ {"fcirq"}
            r == [q EXCEPT !.on = on]
<1>r. AfterRead(s, t) = r
  BY DEF AfterRead
<1>1. Good(c) /\ Timely(c, t)
  <2>1. /\ Good(c) /\ InOrder(c) /\ c.tri.since <= t /\ c.failed = s.failed /\ SameDmc(c, s)
    BY UpdateFcGood, UpdateFcTimes DEF Timely
  <2>. HIDE DEF c
  <2>. QED
    BY <2>1 DEF Timely, OnTime, SameDmc
<1>2. Good(d) /\ Timely(d, t)
  <2>. HIDE DEF c
  <2>1. Good(d) /\ OnTime(d, t) /\ d.failed = c.failed /\ SameFc(d, c)
    BY <1>1, UpdateDmcGood, UpdateDmcTimes DEF Timely
  <2>. HIDE DEF d
  <2>. QED
    BY <1>1, <2>1 DEF Timely, InOrder, SameFc
<1>3. q = c \/ q = d
  BY DEF BeforeRead
<1>. HIDE DEF c, d, q
<1>4. Good(q) /\ Timely(q, t)
  BY <1>1, <1>2, <1>3
<1>. HIDE DEF on
<1>5. Keeps(r, q, Asides)
  BY <1>4, Unpack DEF Good, Keeps, Names, Asides
<1>. HIDE DEF r
<1>. QED
  BY <1>r, <1>4, <1>5, AsideUntimed, UntimedTimely

\* Everything is brought up to t.
Forced(s, t) == Caught(s, t) /\ s.synced = t /\ s.pcmSynced = t /\ s.dmc.next > t

LEMMA ForceUpdateTimes ==
    ASSUME NEW s, Good(s), NEW t \in Nat, t <= FrameMax, Timely(s, t)
    PROVE  Forced(ForceUpdate(s, t), t)
<1>. DEFINE c == CatchUp(s, t)
            d == UpdateDmc(c, t)
            pcm == d.dmc.pcm
            q == SetLevel(c, t, pcm)
            r == SyncApu(q, t)
<1>1. ForceUpdate(s, t) = r
  BY DEF ForceUpdate, SetLevel
<1>2. Good(c) /\ Caught(c, t)
  BY CatchUpGood, CatchUpTimely
<1>. HIDE DEF c
<1>3. Good(d) /\ pcm \in 0..PcmTop
  BY <1>2, UpdateDmcGood, Unpack DEF Good, Fields, DmcUnits
<1>4. Base(q)
  <2>1. SetLevel(c, t, pcm) = SyncPcm(d, t, pcm)
    BY DEF SetLevel
  <2>. HIDE DEF d, pcm
  <2>2. t \in Int /\ Base(d)
    BY <1>3 DEF Good
  <2>3. Base(SyncPcm(d, t, pcm))
    BY <1>3, <2>2, SyncPcmGood
  <2>. QED
    BY <2>1, <2>3
<1>. HIDE DEF d, pcm
<1>5. Caught(q, t) /\ q.pcmSynced = t /\ q.dmc.next > t
  BY <1>2, SetLevelTimes
<1>6. q.synced \in Int /\ \A x \in Names : x \in DOMAIN q
  BY <1>4, Unpack, TimesAreNumbers
<1>. HIDE DEF q
<1>7. Caught(r, t) /\ r.synced = t /\ SameDmc(r, q)
  BY <1>5, <1>6, SyncedCaught
<1>. HIDE DEF r
<1>. QED
  BY <1>1, <1>5, <1>7 DEF Forced, SameDmc

\* Nothing has failed yet and all is in time, or the period was changed while a
\* stopped sample drained.
Punctual(s, t) == (s.failed = {} => Timely(s, t)) /\ (s.failed # {} => s.slowed)

LEMMA RebaseTimes ==
    ASSUME NEW s0, Good(s0), NEW t \in Nat, t <= FrameMax, Forced(s0, t)
    PROVE  Punctual(Rebase(s0, t), 0)
<1>. DEFINE sooner(x) == IF x = Never THEN Never ELSE x - t
            offs(s) == (s.offs + t) % (SampleLen * Slots)
            r(s) == [s EXCEPT !.offs = offs(s), !.fc.next = s.fc.next - t, !.tri.since = s.tri.since - t,
                              !.dmc.next = sooner(s.dmc.next), !.dmc.end = sooner(s.dmc.end),
                              !.synced = s.synced - t, !.pcmSynced = s.pcmSynced - t]
            inTime == s0.dmc.end # Never => s0.dmc.end >= t
            s1 == Check(s0, s0.fc.next >= t, 992)
            s2 == Check(s1, s1.tri.since >= t, 995)
            s3 == Check(s2, s2.dmc.next # Never => s2.dmc.next >= t, 1000)
            s4 == Check(s3, s3.dmc.end # Never => s3.dmc.next # Never, 1006)
            s5 == Check(s4, s4.dmc.end # Never => s4.dmc.end >= t, 1007)
            last == Check(s0, inTime, 1007)
<1>n. /\ s0.fc.next \in Int /\ s0.dmc.next \in Int /\ s0.dmc.end \in Int /\ s0.dmc.bytes \in Nat
      /\ s0.dmc.bit \in Nat /\ s0.dmc.period \in Nat \ {0} /\ s0.slowed \in BOOLEAN
      /\ Slowest \in Nat /\ Never \in Int /\ t + Slowest < Never
  BY DmcRanges, TimesAreNumbers, SlowestFacts, NextRoom, NeverIsTime DEF Good
<1>1. /\ s0.synced = t /\ s0.tri.since = t /\ s0.fc.next > t /\ s0.failed = {} /\ s0.pcmSynced = t
      /\ s0.dmc.next > t /\ (s0.dmc.next # Never => s0.dmc.next <= t + Slowest)
      /\ Predicts(s0.dmc, s0.slowed)
  BY DEF Forced, Caught, OnTime
<1>a. s0.fc.next >= t /\ s0.tri.since >= t /\ s0.dmc.next >= t
  BY <1>n, <1>1
<1>b. Rebase(s0, t) = r(Inspected(s0, t))
  BY DEF Rebase
<1>. HIDE DEF r
<1>2. Rebase(s0, t) = r(last)
  <2>1. Inspected(s0, t) = s5
    BY DEF Inspected
  <2>2. s1 = s0
    BY <1>a DEF Check
  <2>. HIDE DEF s1
  <2>3. s2 = s0
    <3>1. s1.tri.since >= t
      BY <1>a, <2>2
    <3>. QED
      BY <2>2, <3>1 DEF Check
  <2>. HIDE DEF s2
  <2>4. s3 = s0
    <3>1. s2.dmc.next >= t
      BY <1>a, <2>3
    <3>. QED
      BY <2>3, <3>1 DEF Check
  <2>. HIDE DEF s3
  <2>5. s4 = s0
    <3>1. s3.dmc.end # Never => s3.dmc.next # Never
      BY <1>1, <2>4 DEF Predicts
    <3>. QED
      BY <2>4, <3>1 DEF Check
  <2>. HIDE DEF s4
  <2>. QED
    BY <1>b, <2>1, <2>5
<1>u. Fields(s0) /\ \A x \in Names : x \in DOMAIN s0
  BY Unpack DEF Good
<1>3. ASSUME NEW s, Fields(s), \A x \in Names : x \in DOMAIN s
      PROVE  /\ r(s).failed = s.failed /\ r(s).slowed = s.slowed
             /\ r(s).fc = [s.fc EXCEPT !.next = s.fc.next - t]
             /\ r(s).tri = [s.tri EXCEPT !.since = s.tri.since - t]
             /\ r(s).dmc = [s.dmc EXCEPT !.next = sooner(s.dmc.next), !.end = sooner(s.dmc.end)]
             /\ r(s).synced = s.synced - t /\ r(s).pcmSynced = s.pcmSynced - t
  <2>. HIDE DEF offs
  <2>. QED
    BY <1>3 DEF r, Names
<1>. HIDE DEF r
\* The end of a sample lies ahead, unless the rate was changed.
<1>4. ~s0.slowed => inTime
  <2>1. SUFFICES ASSUME ~s0.slowed, s0.dmc.end # Never PROVE s0.dmc.end >= t
    OBVIOUS
  <2>2. CASE s0.dmc.bytes > 0
    <3>. DEFINE k == Left(s0.dmc.bytes, s0.dmc.bit)
                left == k * s0.dmc.period
    <3>1. s0.dmc.bytes \in Int /\ s0.dmc.bit \in Int
      BY <1>n
    <3>2. k \in Int /\ k >= s0.dmc.bit
      BY <2>2, <3>1, LeftFacts
    <3>3. Predicted(s0.dmc) = s0.dmc.next + left
      BY DEF Predicted
    <3>. HIDE DEF k
    <3>4. k \in Nat
      BY <1>n, <3>2
    <3>5. left \in Nat
      BY <1>n, <3>4
    <3>6. s0.dmc.end >= Predicted(s0.dmc)
      BY <1>1, <2>2 DEF Predicts
    <3>. HIDE DEF left
    <3>. QED
      BY <1>n, <1>1, <3>3, <3>5, <3>6
  <2>3. CASE s0.dmc.bytes = 0
    <3>. DEFINE left == s0.dmc.bit * s0.dmc.period
    <3>1. left \in Nat
      BY <1>n
    <3>2. s0.dmc.end >= s0.dmc.next + left
      BY <1>1, <2>1, <2>3 DEF Predicts
    <3>. HIDE DEF left
    <3>. QED
      BY <1>n, <1>1, <3>1, <3>2
  <2>4. s0.dmc.bytes > 0 \/ s0.dmc.bytes = 0
    BY <1>n
  <2>. QED
    BY <2>2, <2>3, <2>4
<1>5. CASE ~inTime
  <2>. DEFINE q == [s0 EXCEPT !.failed = s0.failed \cup {1007}]
  <2>1. last = q
    BY <1>5 DEF Check
  <2>2. Fields(q) /\ \A x \in Names : x \in DOMAIN q
    BY <1>u DEF Fields, Names
  <2>3. q.failed # {} /\ q.slowed = s0.slowed
    BY <1>u DEF Names
  <2>. HIDE DEF q, last, inTime
  <2>4. r(q).failed # {} /\ r(q).slowed
    BY <1>n, <1>3, <1>4, <1>5, <2>2, <2>3
  <2>. QED
    BY <1>2, <2>1, <2>4 DEF Punctual
<1>6. CASE inTime
  <2>. DEFINE q == r(s0)
              n == sooner(s0.dmc.next)
              e == sooner(s0.dmc.end)
  <2>1. Rebase(s0, t) = q
    BY <1>2, <1>6 DEF Check
  <2>2. /\ q.failed = {} /\ q.slowed = s0.slowed
        /\ q.fc = [s0.fc EXCEPT !.next = s0.fc.next - t] /\ q.tri = [s0.tri EXCEPT !.since = t - t]
        /\ q.dmc = [s0.dmc EXCEPT !.next = n, !.end = e] /\ q.synced = t - t /\ q.pcmSynced = t - t
    BY <1>1, <1>3, <1>u
  <2>. HIDE DEF q
  <2>3. /\ q.fc.next = s0.fc.next - t /\ q.tri.since = 0 /\ q.synced = 0 /\ q.pcmSynced = 0
    <3>1. t - t = 0
      OBVIOUS
    <3>. QED
      BY <1>u, <2>2, <3>1 DEF Fields, FcUnits, TriUnits
  <2>. HIDE DEF n, e
  <2>4. /\ q.dmc.next = n /\ q.dmc.end = e /\ q.dmc.bit = s0.dmc.bit /\ q.dmc.bytes = s0.dmc.bytes
        /\ q.dmc.period = s0.dmc.period /\ q.dmc.loop = s0.dmc.loop
    BY <1>u, <2>2 DEF Fields, DmcUnits
  <2>5. InOrder(q)
    <3>1. q.fc.next >= 0
      BY <1>n, <1>1, <2>3
    <3>. QED
      BY <2>3, <3>1 DEF InOrder
  <2>6. /\ s0.dmc.next = Never => n = Never
        /\ s0.dmc.next # Never => n = s0.dmc.next - t /\ n # Never /\ 0 <= n /\ n <= Slowest
    BY <1>n, <1>1 DEF n
  <2>7. /\ s0.dmc.end = Never => e = Never
        /\ s0.dmc.end # Never => e = s0.dmc.end - t /\ e # Never
        /\ e <= Never
    BY <1>n, <1>1, <1>6 DEF e, Predicts
  <2>. DEFINE left == Left(s0.dmc.bytes, s0.dmc.bit) * s0.dmc.period
              played == s0.dmc.bit * s0.dmc.period
  <2>8. left \in Int /\ played \in Int
    <3>1. s0.dmc.bytes \in Int /\ s0.dmc.bit \in Int /\ s0.dmc.period \in Int
      BY <1>n
    <3>2. Left(s0.dmc.bytes, s0.dmc.bit) \in Int
      BY <3>1, LeftFacts
    <3>. QED
      BY <3>1, <3>2
  <2>9. Predicted(q.dmc) = n + left /\ Predicted(s0.dmc) = s0.dmc.next + left
    BY <2>4 DEF Predicted
  <2>10. Predicts(q.dmc, q.slowed)
    <3>1. s0.dmc.bytes > 0 => /\ n # Never /\ e # Never /\ ~s0.slowed
                              /\ e >= n + left /\ (~s0.dmc.loop => e = n + left)
      <4>1. s0.dmc.bytes > 0 => /\ s0.dmc.next # Never /\ s0.dmc.end # Never /\ ~s0.slowed
                                /\ s0.dmc.end >= s0.dmc.next + left
                                /\ (~s0.dmc.loop => s0.dmc.end = s0.dmc.next + left)
        BY <1>1, <2>9 DEF Predicts
      <4>. HIDE DEF left
      <4>2. s0.dmc.end >= s0.dmc.next + left => s0.dmc.end - t >= (s0.dmc.next - t) + left
        BY <1>n, <2>8
      <4>3. s0.dmc.end = s0.dmc.next + left => s0.dmc.end - t = (s0.dmc.next - t) + left
        BY <1>n, <2>8
      <4>. QED
        BY <2>6, <2>7, <4>1, <4>2, <4>3
    <3>2. e # Never /\ s0.dmc.bytes = 0 /\ ~s0.slowed => e >= n + played
      <4>1. s0.dmc.end # Never /\ s0.dmc.bytes = 0 /\ ~s0.slowed =>
              s0.dmc.next # Never /\ s0.dmc.end >= s0.dmc.next + played
        BY <1>1 DEF Predicts
      <4>. HIDE DEF played
      <4>2. s0.dmc.end >= s0.dmc.next + played => s0.dmc.end - t >= (s0.dmc.next - t) + played
        BY <1>n, <2>8
      <4>. QED
        BY <2>6, <2>7, <4>1, <4>2
    <3>3. e # Never => n # Never
      <4>1. s0.dmc.end # Never => s0.dmc.next # Never
        BY <1>1 DEF Predicts
      <4>. QED
        BY <2>6, <2>7, <4>1
    <3>. QED
      BY <2>2, <2>4, <2>7, <2>9, <3>1, <3>2, <3>3 DEF Predicts
  <2>11. OnTime(q, 0)
    <3>1. n # Never => 0 <= n /\ n <= 0 + Slowest
      BY <1>n, <2>6
    <3>2. 0 <= 0
      OBVIOUS
    <3>. QED
      BY <2>3, <2>4, <2>10, <3>1, <3>2 DEF OnTime
  <2>12. 0 <= 0
    OBVIOUS
  <2>13. Timely(q, 0)
    BY <2>2, <2>3, <2>5, <2>11, <2>12 DEF Timely
  <2>. QED
    BY <2>1, <2>2, <2>13 DEF Punctual
<1>. QED
  BY <1>5, <1>6

LEMMA PowerOnTimes == Timely(PowerOn, 0)
<1>1. /\ PowerOn.synced = 0 /\ PowerOn.tri.since = 0 /\ PowerOn.fc.next = 0 /\ PowerOn.pcmSynced = 0
      /\ PowerOn.dmc.next = Never /\ PowerOn.dmc.end = Never /\ PowerOn.dmc.bytes = 0 /\ PowerOn.failed = {}
  BY DEF PowerOn
<1>2. 0 <= 0 /\ ~(0 > 0) /\ Never <= Never
  BY NeverIsTime
<1>. QED
  BY <1>1, <1>2 DEF Timely, InOrder, OnTime, Predicts

-----------------------------------------------------------------------------
(* The specification again. *)

Kept == Punctual(lazy, now)

LEMMA InitKept == Init => Kept
BY PowerOnTimes DEF Init, Kept, Punctual, Timely

LEMMA NextKept == IInv /\ Kept /\ [Next]_vars => Kept'
<1>. SUFFICES ASSUME IInv, Kept, [Next]_vars PROVE Kept'
  OBVIOUS
<1>0. FrameMin \in Nat /\ FrameMax \in Nat
  BY ApuAssumption
<1>1. now \in Nat /\ now <= FrameMax /\ now \in Int /\ now + 1 \in Int /\ now <= now + 1 /\ Good(lazy)
  BY <1>0 DEF IInv, Counted
<1>2. ASSUME Running
      PROVE  /\ Timely(lazy, now) /\ Good(CatchUp(lazy, now)) /\ Caught(CatchUp(lazy, now), now)
  BY <1>1, <1>2, CatchUpGood, CatchUpTimely DEF Running, Kept, Punctual
<1>3. ASSUME NEW a, Good(a), Timely(a, now), now' = now + 1, lazy' = a
      PROVE  Kept'
  <2>1. Timely(a, now + 1)
    BY <1>1, <1>3, LaterTimely
  <2>. QED
    BY <1>3, <2>1 DEF Kept, Punctual, Timely
<1>4. ASSUME NEW a, Good(a), Caught(a, now), now' = now + 1, lazy' = a
      PROVE  Kept'
  BY <1>1, <1>3, <1>4, CaughtTimely
<1>5. CASE Idle
  BY <1>1, <1>2, <1>3, <1>5 DEF Idle, Cycle
<1>6. CASE ReadStatus
  BY <1>1, <1>2, <1>3, <1>6, AfterReadGood, AfterReadTimes DEF ReadStatus, Access, Cycle
<1>7. CASE WriteVolume
  BY <1>1, <1>2, <1>4, <1>7, SetVolumeGood, SetVolumeTimes DEF WriteVolume, Write, Access, Cycle
<1>8. CASE WriteSweep
  BY <1>1, <1>2, <1>4, <1>8, SetSweepGood, SetSweepTimes DEF WriteSweep, Write, Access, Cycle
<1>9. CASE WriteLow
  BY <1>1, <1>2, <1>4, <1>9, SetLowGood, SetLowTimes DEF WriteLow, Write, Access, Cycle
<1>10. CASE WriteHigh
  BY <1>1, <1>2, <1>4, <1>10, SetHighGood, SetHighTimes DEF WriteHigh, Write, Access, Cycle
<1>11. CASE WriteLinear
  BY <1>1, <1>2, <1>4, <1>11, SetLinearGood, TriTimes DEF WriteLinear, Write, Access, Cycle
<1>12. CASE WriteTriLow
  BY <1>1, <1>2, <1>4, <1>12, SetTriLowGood, TriTimes DEF WriteTriLow, Write, Access, Cycle
<1>13. CASE WriteTriHigh
  BY <1>1, <1>2, <1>4, <1>13, SetTriHighGood, TriTimes DEF WriteTriHigh, Write, Access, Cycle
<1>14. CASE WriteNoiseLength
  BY <1>1, <1>2, <1>4, <1>14, SetNoiseLengthGood, SetNoiseLengthTimes DEF WriteNoiseLength, Write, Access, Cycle
<1>15. CASE WriteRate
  BY <1>1, <1>2, <1>4, <1>15, SetRateGood, SetRateTimes DEF WriteRate, Write, Access, Cycle
<1>16. CASE WriteLevel
  BY <1>1, <1>2, <1>4, <1>16, SetLevelGood, SetLevelTimes DEF WriteLevel, Write, Access, Cycle
<1>17. CASE WriteStart
  BY <1>1, <1>2, <1>4, <1>17, SetStartLengthGood, SetStartLengthTimes DEF WriteStart, Write, Access, Cycle
<1>18. CASE WriteLength
  BY <1>1, <1>2, <1>4, <1>18, SetStartLengthGood, SetStartLengthTimes DEF WriteLength, Write, Access, Cycle
<1>19. CASE WriteEnable
  BY <1>1, <1>2, <1>4, <1>19, SetEnableGood, SetEnableTimes DEF WriteEnable, Write, Access, Cycle
<1>20. CASE WriteSequencer
  BY <1>1, <1>2, <1>4, <1>20, SetSequencerGood, SetSequencerTimes DEF WriteSequencer, Write, Access, Cycle
<1>21. CASE HalfFrame
  <2>1. Forced(ForceUpdate(lazy, now), now)
    BY <1>1, <1>2, <1>21, ForceUpdateTimes DEF HalfFrame
  <2>2. Timely(ForceUpdate(lazy, now), now)
    BY <1>1, <2>1, CaughtTimely DEF Forced
  <2>. QED
    BY <1>21, <2>2 DEF HalfFrame, Kept, Punctual, Timely
<1>22. CASE EndFrame
  <2>1. Forced(ForceUpdate(lazy, now), now) /\ Good(ForceUpdate(lazy, now))
    BY <1>1, <1>2, <1>22, ForceUpdateTimes, ForceUpdateGood DEF EndFrame
  <2>2. Punctual(Rebase(ForceUpdate(lazy, now), now), 0)
    BY <1>1, <2>1, RebaseTimes
  <2>. QED
    BY <1>22, <2>2 DEF EndFrame, Kept
<1>23. CASE NewSong
  BY <1>23, PowerOnTimes DEF NewSong, Kept, Punctual, Timely
<1>24. CASE UNCHANGED vars
  BY <1>24 DEF vars, Kept
<1>. QED
  BY <1>5, <1>6, <1>7, <1>8, <1>9, <1>10, <1>11, <1>12, <1>13, <1>14, <1>15, <1>16, <1>17, <1>18, <1>19, <1>20, <1>21, <1>22, <1>23, <1>24 DEF Next

\* None of the asserts of apu.c fails, but for the rate that changes while a stopped
\* sample drains: no schedule ever runs backwards, the predicted end of a sample is
\* where it ends, and at the end of a frame every schedule lies ahead.
THEOREM Asserts == Spec => []AssertsHold
<1>1. Kept => AssertsHold
  BY DEF Kept, Punctual, AssertsHold
<1>. QED
  BY <1>1, InitKept, NextKept, Inductive, PTL DEF Spec

-----------------------------------------------------------------------------
(* Being lazy.  Units are compared part by part: what the frame counter's   *)
(* part of the code reads and writes, and what the DMC's does.              *)

\* The frame counter's part of the status, and the DMC's.
OnFc(s) == s.on \cap (Channels \cup {"fcirq"})
OnDmc(s) == s.on \cap {"dmc", "dmcirq"}

\* Two units that agree in what the frame counter's part of the code reads and writes;
\* an expired delay is left at some value below 1.
TriAlike(v, w) ==
    /\ v.period = w.period /\ v.halt = w.halt /\ v.count = w.count /\ v.ll = w.ll
    /\ v.reload = w.reload /\ v.since = w.since
    /\ v.delay = w.delay \/ (v.delay <= 0 /\ w.delay <= 0)

AlikeFc(r, s) ==
    /\ OnFc(r) = OnFc(s) /\ r.enable = s.enable /\ r.len = s.len /\ r.env = s.env /\ r.sweep = s.sweep
    /\ TriAlike(r.tri, s.tri) /\ r.fc = s.fc /\ r.freq = s.freq /\ r.triFreq = s.triFreq
    /\ r.vol = s.vol /\ r.fifo = s.fifo /\ r.owed = s.owed /\ r.offs = s.offs

\* The same of the DMC's part.
AlikeDmc(r, s) ==
    /\ OnDmc(r) = OnDmc(s) /\ r.enable = s.enable /\ r.dmc = s.dmc /\ r.out = s.out
    /\ r.sum = s.sum /\ r.slowed = s.slowed /\ r.offs = s.offs

\* A call that concerns one of the parts leaves the other alone.
FcParts == {"on", "len", "env", "sweep", "tri", "fc", "freq", "triFreq", "vol", "fifo", "synced",
            "failed", "owed"}
DmcParts == {"on", "dmc", "out", "sum", "slowed", "pcmSynced", "failed"}
FcOnly(q, s) == Keeps(q, s, FcParts) /\ OnDmc(q) = OnDmc(s)
DmcOnly(q, s) == Keeps(q, s, DmcParts) /\ OnFc(q) = OnFc(s)

LEMMA AlikeFcRelation ==
    /\ \A r : AlikeFc(r, r)
    /\ \A r, s : AlikeFc(r, s) => AlikeFc(s, r)
    /\ \A r, s, q : AlikeFc(r, s) /\ AlikeFc(s, q) => AlikeFc(r, q)
BY DEF AlikeFc, TriAlike

LEMMA AlikeDmcRelation ==
    /\ \A r : AlikeDmc(r, r)
    /\ \A r, s : AlikeDmc(r, s) => AlikeDmc(s, r)
    /\ \A r, s, q : AlikeDmc(r, s) /\ AlikeDmc(s, q) => AlikeDmc(r, q)
BY DEF AlikeDmc

LEMMA FcOnlyAlike ==
    ASSUME NEW q, NEW s, FcOnly(q, s)
    PROVE  AlikeDmc(q, s)
BY DEF FcOnly, AlikeDmc, Keeps, Names, FcParts

LEMMA DmcOnlyAlike ==
    ASSUME NEW q, NEW s, DmcOnly(q, s)
    PROVE  AlikeFc(q, s)
BY DEF DmcOnly, AlikeFc, TriAlike, Keeps, Names, DmcParts

LEMMA OnlyChains ==
    /\ \A s : FcOnly(s, s) /\ DmcOnly(s, s)
    /\ \A q, r, s : FcOnly(q, r) /\ FcOnly(r, s) => FcOnly(q, s)
    /\ \A q, r, s : DmcOnly(q, r) /\ DmcOnly(r, s) => DmcOnly(q, s)
BY DEF FcOnly, DmcOnly, Keeps

-----------------------------------------------------------------------------
\* sync_apu(): the entry it leaves and the resets that wait.
NextFifo(s, n) ==
    [pending |-> Mix(s), sample |-> n,
     carry |-> IF n = s.fifo.sample THEN s.fifo.carry ELSE {},
     last |-> IF n = s.fifo.sample THEN s.fifo.last ELSE <<s.fifo.sample, s.fifo.pending>>]
NextOwed(s, n) ==
    IF n = s.fifo.sample THEN s.owed ELSE s.owed \ {<<p, s.fifo.sample>> : p \in s.fifo.carry}

LEMMA SyncApuMakes ==
    ASSUME NEW s0, Base(s0), NEW t \in Int
    PROVE  LET r == SyncApu(s0, t)
               n == SampleTime(s0, t)
           IN r.fifo = NextFifo(s0, n) /\ r.owed = NextOwed(s0, n) /\ FcOnly(r, s0)
              /\ Keeps(r, s0, {"owed", "fifo", "synced", "failed"})
<1>. DEFINE s == Check(s0, t >= s0.synced, 221)
            sample == SampleTime(s, t)
            owed == s.owed \ {<<p, s.fifo.sample>> : p \in s.fifo.carry}
            flushed == [s EXCEPT !.owed = owed,
                                 !.fifo.carry = {}, !.fifo.sample = sample,
                                 !.fifo.last = <<s.fifo.sample, s.fifo.pending>>]
            next == IF sample = s.fifo.sample THEN s ELSE flushed
            mix == Mix(s)
            r == [next EXCEPT !.fifo.pending = mix, !.synced = t]
<1>1. Base(s) /\ Keeps(s, s0, {"failed"})
  BY CheckBase
<1>2. sample = SampleTime(s0, t) /\ mix = Mix(s0) /\ NextFifo(s, sample) = NextFifo(s0, sample)
      /\ NextOwed(s, sample) = NextOwed(s0, sample)
  <2>1. /\ s.on = s0.on /\ s.freq = s0.freq /\ s.sweep = s0.sweep /\ s.vol = s0.vol /\ s.triFreq = s0.triFreq
        /\ s.fifo = s0.fifo /\ s.owed = s0.owed /\ s.offs = s0.offs
    BY <1>1 DEF Keeps, Names
  <2>. HIDE DEF s
  <2>2. mix = Mix(s0)
    BY <2>1 DEF Mix, Pulse
  <2>. QED
    BY <2>1, <2>2 DEF SampleTime, NextFifo, NextOwed
<1>11. r = SyncApu(s0, t)
  BY DEF SyncApu
<1>. HIDE DEF s
<1>u. s \in Units /\ Fields(s) /\ \A x \in Names : x \in DOMAIN s
  BY <1>1, UnitFields, UnitNames DEF Base
<1>f. s.fifo = [pending |-> s.fifo.pending, sample |-> s.fifo.sample, carry |-> s.fifo.carry, last |-> s.fifo.last]
  BY <1>u DEF Fields, FifoUnits
<1>m. mix = Mix(s)
  OBVIOUS
<1>. HIDE DEF sample, mix
<1>3. ASSUME sample = s.fifo.sample PROVE r.fifo = NextFifo(s, sample) /\ r.owed = NextOwed(s, sample)
  <2>1. r = [s EXCEPT !.fifo.pending = mix, !.synced = t]
    BY <1>3
  <2>2. r.fifo = [s.fifo EXCEPT !.pending = mix] /\ r.owed = s.owed
    BY <1>u, <2>1 DEF Names
  <2>3. r.fifo = NextFifo(s, sample)
    BY <1>3, <1>f, <1>m, <2>2 DEF NextFifo
  <2>4. r.owed = NextOwed(s, sample)
    BY <1>3, <2>2 DEF NextOwed
  <2>. QED
    BY <2>3, <2>4
<1>4. ASSUME sample # s.fifo.sample PROVE r.fifo = NextFifo(s, sample) /\ r.owed = NextOwed(s, sample)
  <2>1. next = flushed
    BY <1>4
  <2>. HIDE DEF next, owed
  <2>2. /\ next.fifo = [s.fifo EXCEPT !.carry = {}, !.sample = sample, !.last = <<s.fifo.sample, s.fifo.pending>>]
        /\ next.owed = owed /\ "fifo" \in DOMAIN next
    BY <1>u, <2>1 DEF Names
  <2>3. r.fifo = [next.fifo EXCEPT !.pending = mix] /\ r.owed = next.owed
    BY <2>2
  <2>4. r.fifo = NextFifo(s, sample)
    BY <1>4, <1>f, <1>m, <2>2, <2>3 DEF NextFifo
  <2>5. r.owed = NextOwed(s, sample)
    BY <1>4, <2>2, <2>3 DEF NextOwed, owed
  <2>. QED
    BY <2>4, <2>5
<1>5. Keeps(r, s0, {"owed", "fifo", "synced", "failed"})
  BY <1>11, SyncApuGood
<1>. HIDE DEF r
<1>6. FcOnly(r, s0)
  BY <1>5 DEF FcOnly, Keeps, FcParts, Names, OnDmc
<1>. QED
  BY <1>2, <1>3, <1>4, <1>5, <1>6, <1>11

LEMMA SyncApuAlike ==
    ASSUME NEW r, NEW s, Base(r), Base(s), AlikeFc(r, s), NEW t \in Int
    PROVE  AlikeFc(SyncApu(r, t), SyncApu(s, t))
<1>. DEFINE a == SyncApu(r, t)
            b == SyncApu(s, t)
            n == SampleTime(s, t)
<1>1. SampleTime(r, t) = n
  BY DEF AlikeFc, SampleTime
<1>2. \A c \in Channels : c \in r.on <=> c \in s.on
  BY DEF AlikeFc, OnFc
<1>3. Mix(r) = Mix(s)
  <2>1. \A p \in Pulses : Pulse(r, p) = Pulse(s, p)
    BY <1>2 DEF AlikeFc, Pulse, Channels, Envs
  <2>2. ("noise" \in r.on <=> "noise" \in s.on) /\ r.vol = s.vol /\ r.triFreq = s.triFreq
    BY <1>2 DEF AlikeFc, Channels, Envs
  <2>. QED
    BY <2>1, <2>2 DEF Mix
<1>. HIDE DEF n
<1>4. NextFifo(r, n) = NextFifo(s, n) /\ NextOwed(r, n) = NextOwed(s, n)
  BY <1>3 DEF NextFifo, NextOwed, AlikeFc
<1>5. /\ a.fifo = NextFifo(r, n) /\ a.owed = NextOwed(r, n) /\ Keeps(a, r, {"owed", "fifo", "synced", "failed"})
      /\ b.fifo = NextFifo(s, n) /\ b.owed = NextOwed(s, n) /\ Keeps(b, s, {"owed", "fifo", "synced", "failed"})
  BY <1>1, SyncApuMakes DEF n
<1>. HIDE DEF a, b
<1>6. AlikeFc(a, b)
  BY <1>4, <1>5 DEF AlikeFc, Keeps, Names, OnFc
<1>. QED
  BY <1>6 DEF a, b

-----------------------------------------------------------------------------
(* update_triangle_period(). *)

Heard(s) == IF "tri" \in s.on /\ s.tri.ll > 0 THEN s.tri.period ELSE 0
Remains(v, t) == v.delay - (t - v.since)

\* What it does once Check() has been made.
Passed(s, t) ==
    [IF s.tri.delay <= 0 THEN s
     ELSE IF Remains(s.tri, t) > 0 THEN [s EXCEPT !.tri.delay = Remains(s.tri, t)]
     ELSE SyncApu([s EXCEPT !.tri.delay = Remains(s.tri, t), !.triFreq = Heard(s)],
                  t + Remains(s.tri, t))
     EXCEPT !.tri.since = t]

LEMMA TriangleParts ==
    ASSUME NEW s, Base(s), NEW t \in Int
    PROVE  \E p : Base(p) /\ Keeps(p, s, {"failed"}) /\ UpdateTriangle(s, t) = Passed(p, t)
<1>. DEFINE p == Check(s, t >= s.tri.since, 460)
<1>1. Base(p) /\ Keeps(p, s, {"failed"})
  BY CheckBase
<1>2. UpdateTriangle(s, t) = Passed(p, t)
  BY DEF UpdateTriangle, Remains, Heard, Passed
<1>. HIDE DEF p
<1>. QED
  BY <1>1, <1>2

\* The period does not take effect.
Waits(q, s, t) ==
    /\ Keeps(q, s, {"tri", "failed"})
    /\ q.tri = [s.tri EXCEPT !.delay = IF s.tri.delay <= 0 THEN @ ELSE Remains(s.tri, t), !.since = t]

LEMMA TriangleWaits ==
    ASSUME NEW s, Base(s), NEW t \in Int, s.tri.delay <= 0 \/ Remains(s.tri, t) > 0
    PROVE  Waits(UpdateTriangle(s, t), s, t) /\ FcOnly(UpdateTriangle(s, t), s)
<1>1. PICK p : Base(p) /\ Keeps(p, s, {"failed"}) /\ UpdateTriangle(s, t) = Passed(p, t)
  BY TriangleParts
<1>u. /\ \A x \in Names : x \in DOMAIN p
      /\ p.tri \in TriUnits
  BY <1>1, Unpack DEF Fields
<1>2. p.tri = s.tri
  BY <1>1 DEF Keeps, Names
<1>. DEFINE m == Remains(p.tri, t)
            q == UpdateTriangle(s, t)
            a == [p EXCEPT !.tri.since = t]
            b == [[p EXCEPT !.tri.delay = m] EXCEPT !.tri.since = t]
<1>n. m \in Int /\ p.tri.delay \in Int
  BY <1>u DEF Remains, TriUnits
<1>3. CASE p.tri.delay <= 0
  <2>1. q = a
    BY <1>1, <1>3 DEF Passed
  <2>2. Keeps(a, p, {"tri"}) /\ a.tri = [p.tri EXCEPT !.since = t]
    BY <1>u DEF Keeps, Names
  <2>. HIDE DEF a, q
  <2>3. [p.tri EXCEPT !.since = t] = [p.tri EXCEPT !.delay = IF p.tri.delay <= 0 THEN @ ELSE m, !.since = t]
    BY <1>3, <1>u DEF TriUnits
  <2>4. Waits(q, s, t)
    BY <1>1, <1>2, <2>1, <2>2, <2>3 DEF Waits, Keeps
  <2>. QED
    BY <2>4 DEF q, Waits, FcOnly, Keeps, FcParts, Names, OnDmc
<1>4. CASE ~(p.tri.delay <= 0) /\ m > 0
  <2>1. q = b
    BY <1>1, <1>4 DEF Passed
  <2>. HIDE DEF m
  <2>2. Keeps(b, p, {"tri"}) /\ b.tri = [p.tri EXCEPT !.delay = m, !.since = t]
    BY <1>u DEF Keeps, Names
  <2>. HIDE DEF b, q
  <2>3. [p.tri EXCEPT !.delay = m, !.since = t] = [p.tri EXCEPT !.delay = IF p.tri.delay <= 0 THEN @ ELSE m, !.since = t]
    BY <1>4, <1>u DEF TriUnits
  <2>4. Waits(q, s, t)
    BY <1>1, <1>2, <2>1, <2>2, <2>3 DEF Waits, Keeps, m
  <2>. QED
    BY <2>4 DEF q, Waits, FcOnly, Keeps, FcParts, Names, OnDmc
<1>. QED
  BY <1>2, <1>3, <1>4, <1>n

\* It takes effect at t + Remains: d is the unit as it is then, but that its clock
\* shows t already.
Fires(d, s, t) ==
    /\ Base(d) /\ Keeps(d, s, {"tri", "triFreq", "failed"})
    /\ d.tri = [s.tri EXCEPT !.delay = Remains(s.tri, t), !.since = t]
    /\ d.triFreq = Heard(s)

LEMMA TriangleFires ==
    ASSUME NEW s, Base(s), NEW t \in Int, ~(s.tri.delay <= 0), ~(Remains(s.tri, t) > 0)
    PROVE  /\ FcOnly(UpdateTriangle(s, t), s)
           /\ \E d : Fires(d, s, t) /\ AlikeFc(UpdateTriangle(s, t), SyncApu(d, t + Remains(s.tri, t)))
<1>1. PICK p : Base(p) /\ Keeps(p, s, {"failed"}) /\ UpdateTriangle(s, t) = Passed(p, t)
  BY TriangleParts
<1>u. /\ p \in Units /\ Fields(p) /\ \A x \in Names : x \in DOMAIN p
      /\ p.tri \in TriUnits
  BY <1>1, Unpack DEF Fields
<1>2. p.tri = s.tri /\ p.on = s.on
  BY <1>1 DEF Keeps, Names
<1>. DEFINE m == Remains(p.tri, t)
            h == Heard(p)
            q == UpdateTriangle(s, t)
            due == [p EXCEPT !.tri.delay = m, !.triFreq = h]
            d == [due EXCEPT !.tri.since = t]
            e == SyncApu(due, t + m)
            f == SyncApu(d, t + m)
<1>n. m \in Int /\ t + m \in Int
  BY <1>u DEF Remains, TriUnits
<1>3. q = [e EXCEPT !.tri.since = t]
  BY <1>1, <1>2 DEF Passed
<1>h. /\ h \in 0..FreqTop /\ h = Heard(s) /\ m = Remains(s.tri, t) /\ m <= 0
      /\ h = IF p.len["tri"] > 0 /\ p.tri.ll > 0 THEN p.tri.period ELSE 0
  <2>1. h \in 0..FreqTop /\ h = Heard(s) /\ m = Remains(s.tri, t)
    BY <1>2, <1>u, RegistersAssumption DEF Heard, TriUnits
  <2>2. m <= 0
    BY <1>n, <2>1
  <2>3. "tri" \in p.on <=> p.len["tri"] > 0
    BY <1>1 DEF Base, LengthsAndStatus, Channels
  <2>. QED
    BY <2>1, <2>2, <2>3 DEF Heard
<1>. HIDE DEF m, h
<1>4. /\ Keeps(due, p, {"tri", "triFreq"}) /\ due.tri = [p.tri EXCEPT !.delay = m] /\ due.triFreq = h
      /\ Like(due, p)
  BY <1>u DEF Keeps, Names, Like
<1>. HIDE DEF due
<1>5. due.tri \in TriUnits /\ due.tri.ll = p.tri.ll /\ due.tri.period = p.tri.period /\ due.tri.delay = m
  BY <1>4, <1>n, <1>u DEF TriUnits
<1>6. Base(due)
  <2>1. Fields(due)
    BY <1>4, <1>5, <1>h, <1>u DEF Fields, Keeps, Names
  <2>2. due \in Units
    BY <1>4, <1>u, <2>1, UnitIntro
  <2>. QED
    BY <1>1, <1>h, <1>4, <1>5, <2>2 DEF Keeps, Names, Base, LengthsAndStatus, TriangleSettled,
       DeltasAddUp, ResetsInPlace, Cached, SweepsFit, Volume
<1>7. Base(d) /\ \A x \in Names : x \in DOMAIN due
  BY <1>6, SinceGood, Unpack
<1>8. Keeps(d, due, {"tri"}) /\ d.tri = [due.tri EXCEPT !.since = t]
  BY <1>7 DEF Keeps, Names
<1>. HIDE DEF d
<1>9. /\ Keeps(d, s, {"tri", "triFreq", "failed"}) /\ d.tri = [s.tri EXCEPT !.delay = m, !.since = t]
      /\ d.triFreq = h
  <2>1. d.tri = [s.tri EXCEPT !.delay = m, !.since = t]
    BY <1>2, <1>4, <1>8
  <2>2. Keeps(d, s, {"tri", "triFreq", "failed"}) /\ d.triFreq = h
    BY <1>1, <1>4, <1>8 DEF Keeps, Names
  <2>. QED
    BY <2>1, <2>2
<1>10. Fires(d, s, t)
  BY <1>7, <1>9, <1>h DEF Fires
<1>. DEFINE n == SampleTime(due, t + m)
<1>11. SampleTime(d, t + m) = n
  BY <1>8 DEF SampleTime, Keeps, Names
<1>12. Mix(d) = Mix(due)
  <2>1. d.on = due.on /\ d.freq = due.freq /\ d.sweep = due.sweep /\ d.vol = due.vol /\ d.triFreq = due.triFreq
    BY <1>8 DEF Keeps, Names
  <2>. QED
    BY <2>1 DEF Mix, Pulse
<1>. HIDE DEF n
<1>13. NextFifo(d, n) = NextFifo(due, n) /\ NextOwed(d, n) = NextOwed(due, n)
  <2>1. d.fifo = due.fifo /\ d.owed = due.owed
    BY <1>8 DEF Keeps, Names
  <2>. QED
    BY <1>12, <2>1 DEF NextFifo, NextOwed
<1>14. /\ e.fifo = NextFifo(due, n) /\ e.owed = NextOwed(due, n) /\ FcOnly(e, due)
       /\ Keeps(e, due, {"owed", "fifo", "synced", "failed"})
  BY <1>6, <1>n, SyncApuMakes DEF n
<1>15. /\ f.fifo = NextFifo(d, n) /\ f.owed = NextOwed(d, n) /\ FcOnly(f, d)
       /\ Keeps(f, d, {"owed", "fifo", "synced", "failed"})
  BY <1>7, <1>n, <1>11, SyncApuMakes
<1>16. \A x \in Names : x \in DOMAIN e
  BY <1>6, <1>n, SyncApuGood, Unpack DEF Good
<1>. HIDE DEF e, f, q
<1>17. Keeps(q, e, {"tri"}) /\ q.tri = [e.tri EXCEPT !.since = t]
  BY <1>3, <1>16 DEF Keeps, Names
<1>18. q.tri = f.tri
  <2>1. e.tri = due.tri /\ f.tri = d.tri
    BY <1>14, <1>15 DEF Keeps, Names
  <2>. QED
    BY <1>8, <1>17, <2>1
<1>19. Keeps(q, f, {"tri", "synced", "failed"})
  BY <1>8, <1>13, <1>14, <1>15, <1>17 DEF Keeps, Names
<1>20. AlikeFc(q, f)
  BY <1>18, <1>19 DEF AlikeFc, TriAlike, Keeps, Names, OnFc
<1>21. FcOnly(q, s)
  <2>1. Keeps(q, s, FcParts)
    BY <1>9, <1>15, <1>19 DEF FcOnly, Keeps, FcParts, Names
  <2>2. q.on = s.on
    BY <1>9, <1>15, <1>19 DEF Keeps, Names
  <2>. QED
    BY <2>1, <2>2 DEF FcOnly, OnDmc
<1>. QED
  BY <1>h, <1>10, <1>20, <1>21 DEF q, f

LEMMA WaitsAlike ==
    ASSUME NEW r, NEW s, Base(r), Base(s), NEW t \in Int, NEW a, NEW b,
           AlikeFc(r, s), Waits(a, r, t), Waits(b, s, t)
    PROVE  AlikeFc(a, b)
<1>u. r.tri \in TriUnits /\ s.tri \in TriUnits
  BY Unpack DEF Fields
<1>1. TriAlike(r.tri, s.tri)
  BY DEF AlikeFc
<1>2. TriAlike(a.tri, b.tri)
  <2>. DEFINE x == IF r.tri.delay <= 0 THEN r.tri.delay ELSE Remains(r.tri, t)
              y == IF s.tri.delay <= 0 THEN s.tri.delay ELSE Remains(s.tri, t)
  <2>1. a.tri = [r.tri EXCEPT !.delay = x, !.since = t] /\ b.tri = [s.tri EXCEPT !.delay = y, !.since = t]
    BY DEF Waits
  <2>2. x = y \/ (x <= 0 /\ y <= 0)
    BY <1>u, <1>1 DEF TriAlike, TriUnits, Remains
  <2>. HIDE DEF x, y
  <2>. QED
    BY <1>u, <1>1, <2>1, <2>2 DEF TriAlike, TriUnits
<1>3. Keeps(a, r, {"tri", "failed"}) /\ Keeps(b, s, {"tri", "failed"})
  BY DEF Waits
<1>. QED
  BY <1>2, <1>3 DEF AlikeFc, Keeps, Names, OnFc

LEMMA UpdateTriangleAlike ==
    ASSUME NEW r, NEW s, Base(r), Base(s), AlikeFc(r, s), NEW t \in Int
    PROVE  AlikeFc(UpdateTriangle(r, t), UpdateTriangle(s, t))
<1>u. r.tri \in TriUnits /\ s.tri \in TriUnits
  BY Unpack DEF Fields
<1>1. TriAlike(r.tri, s.tri)
  BY DEF AlikeFc
<1>. DEFINE m == Remains(s.tri, t)
<1>2. /\ s.tri.delay \in Int /\ r.tri.delay \in Int /\ m \in Int /\ Remains(r.tri, t) \in Int /\ t + m \in Int
      /\ ~(s.tri.delay <= 0) => r.tri.delay = s.tri.delay /\ Remains(r.tri, t) = m
      /\ s.tri.delay <= 0 => r.tri.delay <= 0
  BY <1>u, <1>1 DEF TriAlike, TriUnits, Remains
<1>3. CASE s.tri.delay <= 0 \/ m > 0
  <2>1. Waits(UpdateTriangle(s, t), s, t)
    BY <1>3, TriangleWaits
  <2>2. r.tri.delay <= 0 \/ Remains(r.tri, t) > 0
    BY <1>2, <1>3
  <2>3. Waits(UpdateTriangle(r, t), r, t)
    BY <2>2, TriangleWaits
  <2>. QED
    BY <2>1, <2>3, WaitsAlike
<1>4. CASE ~(s.tri.delay <= 0) /\ ~(m > 0)
  <2>1. PICK e : Fires(e, s, t) /\ AlikeFc(UpdateTriangle(s, t), SyncApu(e, t + m))
    BY <1>4, TriangleFires
  <2>2. PICK d : Fires(d, r, t) /\ AlikeFc(UpdateTriangle(r, t), SyncApu(d, t + Remains(r.tri, t)))
    BY <1>2, <1>4, TriangleFires
  <2>3. Remains(r.tri, t) = m
    BY <1>2, <1>4
  <2>4. Heard(r) = Heard(s)
    <3>1. "tri" \in r.on <=> "tri" \in s.on
      BY DEF OnFc, Channels, AlikeFc
    <3>. QED
      BY <1>1, <3>1 DEF Heard, TriAlike
  <2>5. TriAlike(d.tri, e.tri)
    BY <1>u, <1>1, <2>1, <2>2, <2>3 DEF Fires, TriAlike, TriUnits
  <2>6. AlikeFc(d, e)
    BY <2>1, <2>2, <2>4, <2>5 DEF Fires, Keeps, Names, AlikeFc, OnFc
  <2>7. AlikeFc(SyncApu(d, t + m), SyncApu(e, t + m))
    BY <1>2, <2>1, <2>2, <2>6, SyncApuAlike DEF Fires
  <2>. QED
    BY <2>1, <2>2, <2>3, <2>7, AlikeFcRelation
<1>. QED
  BY <1>3, <1>4

\* Twice is as good as once.
LEMMA UpdateTriangleAgain ==
    ASSUME NEW s, Base(s), NEW t \in Int, NEW u \in Int, t <= u
    PROVE  AlikeFc(UpdateTriangle(UpdateTriangle(s, t), u), UpdateTriangle(s, u))
<1>. DEFINE q == UpdateTriangle(s, t)
            m == Remains(s.tri, t)
            k == Remains(s.tri, u)
<1>u. s.tri \in TriUnits
  BY Unpack DEF Fields
<1>1. Base(q)
  BY UpdateTriangleGood
<1>2. m \in Int /\ k \in Int /\ s.tri.delay \in Int /\ k <= m /\ t + m = u + k
  BY <1>u DEF Remains, TriUnits
<1>v. q.tri \in TriUnits
  BY <1>1, Unpack DEF Fields
<1>3. CASE s.tri.delay <= 0
  <2>1. Waits(q, s, t)
    BY <1>3, TriangleWaits
  <2>2. Waits(UpdateTriangle(s, u), s, u)
    BY <1>3, TriangleWaits
  <2>. HIDE DEF q
  <2>3. q.tri.delay <= 0 /\ q.tri = [s.tri EXCEPT !.since = t]
    BY <1>u, <1>3, <2>1 DEF Waits, TriUnits
  <2>4. Waits(UpdateTriangle(q, u), q, u)
    BY <1>1, <2>3, TriangleWaits
  <2>5. UpdateTriangle(q, u).tri = [q.tri EXCEPT !.since = u] /\ UpdateTriangle(s, u).tri = [s.tri EXCEPT !.since = u]
    BY <1>u, <1>v, <1>3, <2>2, <2>3, <2>4 DEF Waits, TriUnits
  <2>6. UpdateTriangle(q, u).tri = UpdateTriangle(s, u).tri
    BY <1>u, <2>3, <2>5 DEF TriUnits
  <2>7. Keeps(UpdateTriangle(q, u), s, {"tri", "failed"}) /\ Keeps(UpdateTriangle(s, u), s, {"tri", "failed"})
    BY <2>1, <2>2, <2>4 DEF Waits, Keeps
  <2>8. \A x \in Names \ {"tri", "failed"} : UpdateTriangle(q, u)[x] = UpdateTriangle(s, u)[x]
    BY <2>7 DEF Keeps
  <2>9. AlikeFc(UpdateTriangle(q, u), UpdateTriangle(s, u))
    BY <2>6, <2>8 DEF AlikeFc, TriAlike, Names, OnFc
  <2>. QED
    BY <2>9 DEF q
<1>4. CASE ~(s.tri.delay <= 0) /\ m > 0
  <2>1. Waits(q, s, t)
    BY <1>4, TriangleWaits
  <2>. HIDE DEF q
  <2>2. q.tri = [s.tri EXCEPT !.delay = m, !.since = t] /\ Keeps(q, s, {"tri", "failed"})
    BY <1>4, <2>1 DEF Waits
  <2>3. ~(q.tri.delay <= 0) /\ Remains(q.tri, u) = k /\ q.tri.delay \in Int
    BY <1>u, <1>2, <1>4, <2>2 DEF TriUnits, Remains
  <2>4. CASE k > 0
    <3>1. Waits(UpdateTriangle(q, u), q, u)
      BY <1>1, <2>3, <2>4, TriangleWaits
    <3>2. Waits(UpdateTriangle(s, u), s, u)
      BY <2>4, TriangleWaits
    <3>3. /\ UpdateTriangle(q, u).tri = [q.tri EXCEPT !.delay = k, !.since = u]
          /\ UpdateTriangle(s, u).tri = [s.tri EXCEPT !.delay = k, !.since = u]
      BY <1>4, <2>3, <3>1, <3>2 DEF Waits
    <3>4. UpdateTriangle(q, u).tri = UpdateTriangle(s, u).tri
      BY <1>u, <2>2, <3>3 DEF TriUnits
    <3>. QED
      BY <2>2, <3>1, <3>2, <3>4 DEF q, Waits, AlikeFc, TriAlike, Keeps, Names, OnFc
  <2>5. CASE ~(k > 0)
    <3>1. PICK d : Fires(d, q, u) /\ AlikeFc(UpdateTriangle(q, u), SyncApu(d, u + k))
      BY <1>1, <2>3, <2>5, TriangleFires
    <3>2. PICK e : Fires(e, s, u) /\ AlikeFc(UpdateTriangle(s, u), SyncApu(e, u + k))
      BY <1>4, <2>5, TriangleFires
    <3>3. d.tri = [q.tri EXCEPT !.delay = k, !.since = u] /\ e.tri = [s.tri EXCEPT !.delay = k, !.since = u]
      BY <2>3, <3>1, <3>2 DEF Fires
    <3>4. d.tri = e.tri
      BY <1>u, <2>2, <3>3 DEF TriUnits
    <3>5. Heard(q) = Heard(s)
      <4>1. q.on = s.on /\ q.tri.ll = s.tri.ll /\ q.tri.period = s.tri.period
        BY <1>u, <2>2 DEF TriUnits, Keeps, Names
      <4>. QED
        BY <4>1 DEF Heard
    <3>6. AlikeFc(d, e)
      <4>1. Keeps(d, q, {"tri", "triFreq", "failed"}) /\ Keeps(e, s, {"tri", "triFreq", "failed"}) /\ d.triFreq = e.triFreq
        BY <3>1, <3>2, <3>5 DEF Fires
      <4>2. Keeps(d, e, {"tri", "triFreq", "failed"})
        BY <2>2, <4>1 DEF Keeps, Names
      <4>3. TriAlike(d.tri, e.tri)
        BY <3>4 DEF TriAlike
      <4>. QED
        BY <4>1, <4>2, <4>3 DEF AlikeFc, Keeps, Names, OnFc
    <3>7. AlikeFc(SyncApu(d, u + k), SyncApu(e, u + k))
      <4>1. u + k \in Int
        BY <1>2
      <4>. QED
        BY <3>1, <3>2, <3>6, <4>1, SyncApuAlike DEF Fires
    <3>. QED
      BY <3>1, <3>2, <3>7, AlikeFcRelation DEF q
  <2>. QED
    BY <1>2, <2>4, <2>5
<1>5. CASE ~(s.tri.delay <= 0) /\ ~(m > 0)
  <2>1. PICK d : Fires(d, s, t) /\ AlikeFc(q, SyncApu(d, t + m))
    BY <1>5, TriangleFires
  <2>2. ~(k > 0)
    BY <1>2, <1>5
  <2>3. PICK e : Fires(e, s, u) /\ AlikeFc(UpdateTriangle(s, u), SyncApu(e, u + k))
    BY <1>5, <2>2, TriangleFires
  <2>. HIDE DEF q, m, k
  <2>. DEFINE a == SyncApu(d, t + m)
              b == SyncApu(e, t + m)
  <2>4. /\ Keeps(a, d, {"owed", "fifo", "synced", "failed"}) /\ Keeps(b, e, {"owed", "fifo", "synced", "failed"})
        /\ t + m \in Int
    BY <1>2, <2>1, <2>3, SyncApuGood DEF Fires
  <2>5. d.tri = [s.tri EXCEPT !.delay = m, !.since = t] /\ e.tri = [s.tri EXCEPT !.delay = k, !.since = u]
    BY <2>1, <2>3 DEF Fires, m, k
  <2>6. TriAlike(q.tri, d.tri)
    BY <2>1, <2>4 DEF AlikeFc, TriAlike, Keeps, Names
  <2>7. q.tri.delay <= 0
    <3>1. d.tri.delay = m
      BY <1>u, <2>5 DEF TriUnits
    <3>. QED
      BY <1>2, <1>5, <1>v, <2>6, <3>1 DEF TriAlike, TriUnits
  <2>8. Waits(UpdateTriangle(q, u), q, u)
    BY <1>1, <2>7, TriangleWaits
  <2>9. UpdateTriangle(q, u).tri = [q.tri EXCEPT !.since = u]
    BY <1>v, <2>7, <2>8 DEF Waits, TriUnits
  <2>10. TriAlike(UpdateTriangle(q, u).tri, e.tri)
    <3>1. e.tri.delay = k /\ k <= 0 /\ e.tri.since = u
      BY <1>u, <1>2, <2>2, <2>5 DEF TriUnits
    <3>2. UpdateTriangle(q, u).tri.delay <= 0 /\ UpdateTriangle(q, u).tri.since = u
      BY <1>v, <2>7, <2>9 DEF TriUnits
    <3>3. TriAlike([q.tri EXCEPT !.since = u], [d.tri EXCEPT !.since = u])
      BY <1>v, <1>u, <2>5, <2>6 DEF TriUnits, TriAlike
    <3>. QED
      BY <1>u, <1>v, <2>5, <2>9, <3>1, <3>2, <3>3 DEF TriUnits, TriAlike
  \* d and e differ in their clock, which sync_apu() does not look at
  <2>11. SampleTime(d, t + m) = SampleTime(e, t + m) /\ Mix(d) = Mix(e)
    <3>1. /\ d.on = e.on /\ d.freq = e.freq /\ d.sweep = e.sweep /\ d.vol = e.vol /\ d.triFreq = e.triFreq
          /\ d.offs = e.offs
      BY <2>1, <2>3 DEF Fires, Keeps, Names
    <3>. QED
      BY <3>1 DEF Mix, Pulse, SampleTime
  <2>. DEFINE n == SampleTime(d, t + m)
  <2>12. NextFifo(d, n) = NextFifo(e, n) /\ NextOwed(d, n) = NextOwed(e, n)
    <3>1. d.fifo = e.fifo /\ d.owed = e.owed
      BY <2>1, <2>3 DEF Fires, Keeps, Names
    <3>. HIDE DEF n
    <3>. QED
      BY <2>11, <3>1 DEF NextFifo, NextOwed
  <2>13. a.fifo = b.fifo /\ a.owed = b.owed
    <3>1. /\ a.fifo = NextFifo(d, n) /\ a.owed = NextOwed(d, n)
      BY <2>1, <2>4, SyncApuMakes DEF Fires
    <3>2. /\ b.fifo = NextFifo(e, n) /\ b.owed = NextOwed(e, n)
      BY <2>3, <2>4, <2>11, SyncApuMakes DEF Fires
    <3>. QED
      BY <2>12, <3>1, <3>2
  <2>14. AlikeFc(UpdateTriangle(s, u), b)
    BY <1>2, <2>3
  <2>. HIDE DEF a, b
  <2>15. Keeps(UpdateTriangle(q, u), q, {"tri", "failed"})
    BY <2>8 DEF Waits
  <2>16. AlikeFc(UpdateTriangle(q, u), b)
    <3>1. /\ OnFc(q) = OnFc(b) /\ q.enable = b.enable /\ q.len = b.len /\ q.env = b.env /\ q.sweep = b.sweep
          /\ q.fc = b.fc /\ q.freq = b.freq /\ q.triFreq = b.triFreq
          /\ q.vol = b.vol /\ q.fifo = b.fifo /\ q.owed = b.owed /\ q.offs = b.offs /\ b.tri = e.tri
      <4>1. /\ OnFc(q) = OnFc(a) /\ q.enable = a.enable /\ q.len = a.len /\ q.env = a.env /\ q.sweep = a.sweep
            /\ q.fc = a.fc /\ q.freq = a.freq /\ q.triFreq = a.triFreq
            /\ q.vol = a.vol /\ q.fifo = a.fifo /\ q.owed = a.owed /\ q.offs = a.offs
        BY <2>1 DEF AlikeFc, a
      <4>2. Keeps(d, s, {"tri", "triFreq", "failed"}) /\ Keeps(e, s, {"tri", "triFreq", "failed"}) /\ d.triFreq = e.triFreq
        BY <2>1, <2>3 DEF Fires
      <4>3. /\ a.on = b.on /\ a.enable = b.enable /\ a.len = b.len /\ a.env = b.env /\ a.sweep = b.sweep
            /\ a.fc = b.fc /\ a.freq = b.freq /\ a.triFreq = b.triFreq
            /\ a.vol = b.vol /\ a.offs = b.offs /\ b.tri = e.tri
        BY <2>4, <4>2 DEF Keeps, Names
      <4>. QED
        BY <2>13, <4>1, <4>3 DEF OnFc
    <3>. QED
      BY <2>10, <2>15, <3>1 DEF AlikeFc, Keeps, Names, OnFc
  <2>. QED
    BY <2>14, <2>16, AlikeFcRelation DEF q
<1>. QED
  BY <1>2, <1>3, <1>4, <1>5

-----------------------------------------------------------------------------
(* The clocks. *)

LEMMA ClockEnvelopesAlike ==
    ASSUME NEW r, NEW s, Base(r), Base(s), AlikeFc(r, s)
    PROVE  AlikeFc(ClockEnvelopes(r), ClockEnvelopes(s)) /\ FcOnly(ClockEnvelopes(s), s)
<1>. DEFINE env(q) == [e \in Envs |-> ClockEnvelope(q.env[e])]
            vol(q) == [e \in Envs |-> IF env(q)[e].const THEN env(q)[e].period ELSE env(q)[e].level]
<1>1. ASSUME NEW q, Base(q)
      PROVE  /\ Keeps(ClockEnvelopes(q), q, {"env", "vol"}) /\ ClockEnvelopes(q).env = env(q)
             /\ ClockEnvelopes(q).vol = vol(q)
  <2>1. ClockEnvelopes(q) = [q EXCEPT !.env = env(q), !.vol = vol(q)]
    BY DEF ClockEnvelopes
  <2>2. \A x \in Names : x \in DOMAIN q
    BY <1>1, Unpack
  <2>. HIDE DEF env, vol
  <2>. QED
    BY <2>1, <2>2 DEF Keeps, Names
<1>. DEFINE a == ClockEnvelopes(r)
            b == ClockEnvelopes(s)
<1>2. r.env = s.env
  BY DEF AlikeFc
<1>3. env(r) = env(s)
  BY <1>2
<1>4. vol(r) = vol(s)
  <2>. HIDE DEF env
  <2>. QED
    BY <1>3
<1>. HIDE DEF env, vol
<1>5. a.env = b.env /\ a.vol = b.vol /\ Keeps(a, r, {"env", "vol"}) /\ Keeps(b, s, {"env", "vol"})
  BY <1>1, <1>3, <1>4
<1>. HIDE DEF a, b
<1>6. AlikeFc(a, b)
  BY <1>5 DEF AlikeFc, Keeps, Names, OnFc
<1>7. FcOnly(b, s)
  BY <1>5 DEF FcOnly, Keeps, Names, OnDmc, FcParts
<1>. QED
  BY <1>6, <1>7 DEF a, b

Linear(v) == IF v.reload THEN v.count ELSE IF v.ll > 0 THEN v.ll - 1 ELSE 0

LEMMA ClockLinearAlike ==
    ASSUME NEW r, NEW s, Base(r), Base(s), AlikeFc(r, s)
    PROVE  AlikeFc(ClockLinear(r), ClockLinear(s)) /\ FcOnly(ClockLinear(s), s)
<1>. DEFINE T(v) == [v EXCEPT !.ll = Linear(v), !.delay = IF (v.ll = 0) # (Linear(v) = 0) THEN TriDelay ELSE @,
                              !.reload = IF v.halt THEN @ ELSE FALSE]
<1>1. ASSUME NEW q, Base(q)
      PROVE  Keeps(ClockLinear(q), q, {"tri"}) /\ ClockLinear(q).tri = T(q.tri)
  <2>. DEFINE ll == Linear(q.tri)
              delay == IF (q.tri.ll = 0) # (ll = 0) THEN TriDelay ELSE q.tri.delay
              reload == IF q.tri.halt THEN q.tri.reload ELSE FALSE
  <2>1. ClockLinear(q) = [q EXCEPT !.tri.ll = ll, !.tri.delay = delay, !.tri.reload = reload]
    BY DEF ClockLinear, Linear
  <2>2. (\A x \in Names : x \in DOMAIN q) /\ q.tri \in TriUnits
    BY <1>1, Unpack DEF Fields
  <2>3. T(q.tri) = [q.tri EXCEPT !.ll = ll, !.delay = delay, !.reload = reload]
    BY <2>2 DEF TriUnits
  <2>. HIDE DEF ll, delay, reload, T
  <2>. QED
    BY <2>1, <2>2, <2>3 DEF Keeps, Names
<1>u. r.tri \in TriUnits /\ s.tri \in TriUnits
  BY Unpack DEF Fields
<1>2. TriAlike(r.tri, s.tri)
  BY DEF AlikeFc
<1>3. TriAlike(T(r.tri), T(s.tri))
  <2>. DEFINE m == Linear(s.tri)
  <2>1. Linear(r.tri) = m
    BY <1>2 DEF Linear, TriAlike
  <2>. HIDE DEF m
  <2>2. /\ T(r.tri) = [r.tri EXCEPT !.ll = m, !.delay = IF (r.tri.ll = 0) # (m = 0) THEN TriDelay ELSE r.tri.delay,
                              !.reload = IF r.tri.halt THEN r.tri.reload ELSE FALSE]
        /\ T(s.tri) = [s.tri EXCEPT !.ll = m, !.delay = IF (s.tri.ll = 0) # (m = 0) THEN TriDelay ELSE s.tri.delay,
                              !.reload = IF s.tri.halt THEN s.tri.reload ELSE FALSE]
    BY <1>u, <2>1 DEF m, TriUnits
  <2>. HIDE DEF T
  <2>. QED
    BY <1>u, <1>2, <2>2 DEF TriAlike, TriUnits
<1>. HIDE DEF T
<1>. DEFINE a == ClockLinear(r)
            b == ClockLinear(s)
<1>4. Keeps(a, r, {"tri"}) /\ Keeps(b, s, {"tri"}) /\ TriAlike(a.tri, b.tri)
  BY <1>1, <1>3
<1>. HIDE DEF a, b
<1>5. AlikeFc(a, b)
  BY <1>4 DEF AlikeFc, Keeps, Names, OnFc
<1>6. FcOnly(b, s)
  BY <1>4 DEF FcOnly, Keeps, Names, OnDmc, FcParts
<1>. QED
  BY <1>5, <1>6 DEF a, b

LEMMA ClockLengthsAlike ==
    ASSUME NEW r, NEW s, Base(r), Base(s), AlikeFc(r, s)
    PROVE  AlikeFc(ClockLengths(r), ClockLengths(s)) /\ FcOnly(ClockLengths(s), s)
<1>. DEFINE counts(q) == {c \in Channels : ~Halted(q, c) /\ q.len[c] > 0}
            ends(q) == {c \in counts(q) : q.len[c] = 1}
            len(q) == [c \in Channels |-> IF c \in counts(q) THEN q.len[c] - 1 ELSE q.len[c]]
            delay(q) == IF "tri" \in ends(q) THEN TriDelay ELSE q.tri.delay
<1>1. ASSUME NEW q, Base(q)
      PROVE  /\ Keeps(ClockLengths(q), q, {"len", "on", "tri"}) /\ ClockLengths(q).len = len(q)
             /\ ClockLengths(q).on = q.on \ ends(q) /\ ClockLengths(q).tri = [q.tri EXCEPT !.delay = delay(q)]
  <2>. DEFINE on == q.on \ ends(q)
  <2>1. ClockLengths(q) = [q EXCEPT !.len = len(q), !.on = on, !.tri.delay = delay(q)]
    BY DEF ClockLengths
  <2>2. \A x \in Names : x \in DOMAIN q
    BY <1>1, Unpack
  <2>. HIDE DEF len, on, delay
  <2>. QED
    BY <2>1, <2>2 DEF Keeps, Names, on
<1>u. r.tri \in TriUnits /\ s.tri \in TriUnits
  BY Unpack DEF Fields
<1>2. TriAlike(r.tri, s.tri) /\ r.env = s.env /\ r.len = s.len /\ OnFc(r) = OnFc(s)
  BY DEF AlikeFc
<1>3. counts(r) = counts(s)
  <2>1. \A c \in Channels : Halted(r, c) <=> Halted(s, c)
    BY <1>2 DEF TriAlike, Halted
  <2>. QED
    BY <1>2, <2>1
<1>4. ends(r) = ends(s) /\ len(r) = len(s) /\ ends(s) \subseteq Channels
  <2>. HIDE DEF counts
  <2>1. ends(r) = ends(s) /\ len(r) = len(s)
    BY <1>2, <1>3
  <2>. QED
    BY <2>1 DEF counts
<1>. HIDE DEF len, ends
<1>5. TriAlike([r.tri EXCEPT !.delay = delay(r)], [s.tri EXCEPT !.delay = delay(s)])
  BY <1>u, <1>2, <1>4 DEF TriAlike, TriUnits
<1>. HIDE DEF delay
<1>. DEFINE a == ClockLengths(r)
            b == ClockLengths(s)
<1>6. /\ Keeps(a, r, {"len", "on", "tri"}) /\ Keeps(b, s, {"len", "on", "tri"}) /\ TriAlike(a.tri, b.tri)
      /\ a.len = b.len /\ a.on = r.on \ ends(s) /\ b.on = s.on \ ends(s)
  BY <1>1, <1>4, <1>5
<1>. HIDE DEF a, b
<1>7. OnFc(a) = OnFc(b) /\ OnDmc(b) = OnDmc(s)
  <2>1. OnFc(a) = OnFc(b)
    BY <1>2, <1>6 DEF OnFc
  <2>2. OnDmc(b) = OnDmc(s)
    BY <1>4, <1>6 DEF OnDmc, Channels, Envs, Pulses
  <2>. QED
    BY <2>1, <2>2
<1>8. AlikeFc(a, b)
  BY <1>6, <1>7 DEF AlikeFc, Keeps, Names
<1>9. FcOnly(b, s)
  BY <1>6, <1>7 DEF FcOnly, Keeps, Names, FcParts
<1>. QED
  BY <1>8, <1>9 DEF a, b

LEMMA ClockSweepsAlike ==
    ASSUME NEW r, NEW s, Base(r), Base(s), AlikeFc(r, s)
    PROVE  AlikeFc(ClockSweeps(r), ClockSweeps(s)) /\ FcOnly(ClockSweeps(s), s)
<1>. DEFINE due(q, p) == q.sweep[p].divider = 0
            freq(q) == [p \in Pulses |-> IF due(q, p) THEN Swept(q, p) ELSE q.freq[p]]
            sweep(q) == [p \in Pulses |->
              [q.sweep[p] EXCEPT !.divider = IF due(q, p) \/ q.sweep[p].reload
                                       THEN q.sweep[p].period ELSE @ - 1,
                           !.reload = FALSE]]
<1>1. ASSUME NEW q, Base(q)
      PROVE  /\ Keeps(ClockSweeps(q), q, {"freq", "sweep"}) /\ ClockSweeps(q).freq = freq(q)
             /\ ClockSweeps(q).sweep = sweep(q)
  <2>1. ClockSweeps(q) = [q EXCEPT !.freq = freq(q), !.sweep = sweep(q)]
    BY DEF ClockSweeps
  <2>2. \A x \in Names : x \in DOMAIN q
    BY <1>1, Unpack
  <2>. HIDE DEF freq, sweep
  <2>. QED
    BY <2>1, <2>2 DEF Keeps, Names
<1>2. r.sweep = s.sweep /\ r.freq = s.freq
  BY DEF AlikeFc
<1>3. freq(r) = freq(s) /\ sweep(r) = sweep(s)
  <2>1. \A p \in Pulses : Swept(r, p) = Swept(s, p)
    BY <1>2 DEF Swept
  <2>. QED
    BY <1>2, <2>1
<1>. HIDE DEF freq, sweep
<1>. DEFINE a == ClockSweeps(r)
            b == ClockSweeps(s)
<1>6. /\ Keeps(a, r, {"freq", "sweep"}) /\ Keeps(b, s, {"freq", "sweep"}) /\ a.freq = b.freq /\ a.sweep = b.sweep
  BY <1>1, <1>3
<1>. HIDE DEF a, b
<1>8. AlikeFc(a, b)
  BY <1>6 DEF AlikeFc, Keeps, Names, OnFc
<1>9. FcOnly(b, s)
  BY <1>6 DEF FcOnly, Keeps, Names, FcParts, OnDmc
<1>. QED
  BY <1>8, <1>9 DEF a, b

LEMMA ClockSequencerAlike ==
    ASSUME NEW r, NEW s, Base(r), Base(s), AlikeFc(r, s), NEW t \in Int
    PROVE  /\ AlikeFc(ClockSequencer(r, t), ClockSequencer(s, t)) /\ FcOnly(ClockSequencer(s, t), s)
           /\ ClockSequencer(s, t).fc.next >= s.fc.next /\ ClockSequencer(s, t).tri.since = s.tri.since
<1>. DEFINE quarter(p) == ClockLinear(ClockEnvelopes(p))
            half(p) == IF p.fc.seq % 2 = 0 THEN ClockSweeps(ClockLengths(quarter(p))) ELSE quarter(p)
            irq(p) == p.fc.seq = 3 /\ ~p.fc.five /\ ~p.fc.quiet
            F(v, f) == LET g == IF v.seq = 3 /\ v.five THEN AddPeriod(f) ELSE f IN [g EXCEPT !.seq = (@ + 1) % 4]
            on(p, h) == IF irq(p) THEN h.on \cup {"fcirq"} ELSE h.on
            q(p, h) == [h EXCEPT !.on = on(p, h), !.fc = F(p.fc, h.fc)]
<1>r. \A p : ClockSequencer(p, t) = SyncApu(q(p, half(p)), t)
  BY DEF ClockSequencer
<1>1. /\ Base(quarter(r)) /\ Base(quarter(s)) /\ AlikeFc(quarter(r), quarter(s)) /\ FcOnly(quarter(s), s)
      /\ quarter(s).fc = s.fc /\ quarter(s).tri.since = s.tri.since
  <2>1. /\ Base(ClockEnvelopes(r)) /\ Base(ClockEnvelopes(s)) /\ AlikeFc(ClockEnvelopes(r), ClockEnvelopes(s))
        /\ FcOnly(ClockEnvelopes(s), s) /\ ClockEnvelopes(s).fc = s.fc /\ ClockEnvelopes(s).tri = s.tri
    BY ClockEnvelopesAlike, ClockEnvelopesBase DEF Keeps, Names
  <2>2. /\ Base(quarter(r)) /\ Base(quarter(s)) /\ AlikeFc(quarter(r), quarter(s))
        /\ FcOnly(quarter(s), ClockEnvelopes(s)) /\ quarter(s).fc = ClockEnvelopes(s).fc
        /\ quarter(s).tri.since = ClockEnvelopes(s).tri.since
    BY <2>1, ClockLinearAlike, ClockLinearBase, ClocksKeepSince DEF Keeps, Names
  <2>. QED
    BY <2>1, <2>2, OnlyChains
<1>. HIDE DEF quarter
<1>2. /\ Base(half(r)) /\ Base(half(s)) /\ AlikeFc(half(r), half(s)) /\ FcOnly(half(s), s)
      /\ half(s).fc = s.fc /\ half(s).tri.since = s.tri.since
  <2>1. /\ Base(ClockLengths(quarter(r))) /\ Base(ClockLengths(quarter(s)))
        /\ AlikeFc(ClockLengths(quarter(r)), ClockLengths(quarter(s)))
        /\ FcOnly(ClockLengths(quarter(s)), quarter(s)) /\ ClockLengths(quarter(s)).fc = quarter(s).fc
        /\ ClockLengths(quarter(s)).tri.since = quarter(s).tri.since
    BY <1>1, ClockLengthsAlike, ClockLengthsBase, ClocksKeepSince DEF Keeps, Names
  <2>2. /\ Base(ClockSweeps(ClockLengths(quarter(r)))) /\ Base(ClockSweeps(ClockLengths(quarter(s))))
        /\ AlikeFc(ClockSweeps(ClockLengths(quarter(r))), ClockSweeps(ClockLengths(quarter(s))))
        /\ FcOnly(ClockSweeps(ClockLengths(quarter(s))), ClockLengths(quarter(s)))
        /\ ClockSweeps(ClockLengths(quarter(s))).fc = ClockLengths(quarter(s)).fc
        /\ ClockSweeps(ClockLengths(quarter(s))).tri = ClockLengths(quarter(s)).tri
    BY <2>1, ClockSweepsAlike, ClockSweepsBase DEF Keeps, Names
  <2>3. r.fc = s.fc
    BY DEF AlikeFc
  <2>4. FcOnly(ClockSweeps(ClockLengths(quarter(s))), s)
    BY <1>1, <2>1, <2>2, OnlyChains
  <2>. QED
    BY <1>1, <2>1, <2>2, <2>3, <2>4
<1>. HIDE DEF half
<1>. DEFINE g == half(r)
            h == half(s)
            a == q(r, g)
            b == q(s, h)
<1>3. /\ g.fc = s.fc /\ h.fc = s.fc /\ r.fc = s.fc /\ s.fc \in FcUnits /\ OnFc(g) = OnFc(h)
  BY <1>2, Unpack DEF AlikeFc, Fields
<1>4. F(s.fc, s.fc) \in FcUnits /\ F(s.fc, s.fc).next >= s.fc.next
  <2>. DEFINE k == IF s.fc.seq = 3 /\ s.fc.five THEN AddPeriod(s.fc) ELSE s.fc
              seq == (k.seq + 1) % 4
  <2>1. k \in FcUnits /\ k.next >= s.fc.next
    BY <1>3, AddPeriodType, AddPeriodLater DEF FcUnits
  <2>2. F(s.fc, s.fc) = [k EXCEPT !.seq = seq]
    OBVIOUS
  <2>. HIDE DEF F, k
  <2>3. seq \in 0..3
    BY <2>1 DEF FcUnits
  <2>. HIDE DEF seq
  <2>. QED
    BY <2>1, <2>2, <2>3 DEF FcUnits
<1>. HIDE DEF F
<1>u. /\ \A x \in Names : x \in DOMAIN g
      /\ \A x \in Names : x \in DOMAIN h
      /\ Fields(g) /\ Fields(h) /\ g \in Units /\ h \in Units
  BY <1>2, Unpack
<1>5. ASSUME NEW p, NEW k, Base(k), Fields(k), k \in Units, \A x \in Names : x \in DOMAIN k, F(p.fc, k.fc) \in FcUnits
      PROVE  /\ Base(q(p, k)) /\ Keeps(q(p, k), k, {"on", "fc"}) /\ q(p, k).on = on(p, k)
             /\ q(p, k).fc = F(p.fc, k.fc)
  <2>. DEFINE e == q(p, k)
  <2>1. on(p, k) \in SUBSET (Channels \cup {"dmc", "fcirq", "dmcirq"}) /\ on(p, k) \cap Channels = k.on \cap Channels
    BY <1>5 DEF Fields, Channels, Envs, Pulses
  <2>. HIDE DEF on
  <2>2. Keeps(e, k, {"on", "fc"}) /\ e.on = on(p, k) /\ e.fc = F(p.fc, k.fc) /\ Like(e, k)
    BY <1>5 DEF Keeps, Names, Like
  <2>. HIDE DEF q
  <2>3. e \in Units
    <3>1. Fields(e)
      BY <1>5, <2>1, <2>2 DEF Fields, Keeps, Names
    <3>. QED
      BY <1>5, <2>2, <3>1, UnitIntro
  <2>4. /\ Keeps(e, k, {"on", "fc", "dmc", "offs", "synced", "pcmSynced", "failed", "slowed"})
        /\ e.on \cap Channels = k.on \cap Channels /\ e.dmc.pcm = k.dmc.pcm
    BY <2>1, <2>2 DEF Keeps, Names
  <2>5. Base(e)
    BY <1>5, <2>3, <2>4, AsideGood
  <2>. QED
    BY <2>2, <2>5
<1>6. /\ Base(a) /\ Keeps(a, g, {"on", "fc"}) /\ a.on = on(r, g) /\ a.fc = F(s.fc, s.fc)
      /\ Base(b) /\ Keeps(b, h, {"on", "fc"}) /\ b.on = on(s, h) /\ b.fc = F(s.fc, s.fc)
  <2>. HIDE DEF q, on
  <2>1. F(r.fc, g.fc) = F(s.fc, s.fc) /\ F(s.fc, h.fc) = F(s.fc, s.fc)
    BY <1>3
  <2>. QED
    BY <1>2, <1>4, <1>5, <1>u, <2>1
<1>7. OnFc(a) = OnFc(b) /\ OnDmc(b) = OnDmc(h)
  <2>1. irq(r) = irq(s)
    BY <1>3
  <2>. HIDE DEF irq, q, g, h
  <2>2. OnFc(a) = OnFc(b)
    BY <1>3, <1>6, <2>1 DEF OnFc
  <2>3. OnDmc(b) = OnDmc(h)
    BY <1>6 DEF OnDmc
  <2>. QED
    BY <2>2, <2>3
<1>. HIDE DEF q, on, irq, g, h
<1>8. AlikeFc(a, b)
  <2>1. AlikeFc(g, h)
    BY <1>2 DEF g, h
  <2>. HIDE DEF a, b
  <2>. QED
    BY <1>6, <1>7, <2>1 DEF AlikeFc, Keeps, Names
<1>9. FcOnly(b, s)
  <2>1. FcOnly(h, s)
    BY <1>2 DEF h
  <2>. HIDE DEF a, b
  <2>2. FcOnly(b, h)
    BY <1>6, <1>7 DEF FcOnly, Keeps, Names, FcParts
  <2>. QED
    BY <2>1, <2>2, OnlyChains
<1>10. /\ AlikeFc(SyncApu(a, t), SyncApu(b, t)) /\ FcOnly(SyncApu(b, t), b)
       /\ Keeps(SyncApu(b, t), b, {"owed", "fifo", "synced", "failed"})
  <2>. HIDE DEF a, b
  <2>. QED
    BY <1>6, <1>8, SyncApuAlike, SyncApuMakes
<1>11. ClockSequencer(r, t) = SyncApu(a, t) /\ ClockSequencer(s, t) = SyncApu(b, t)
  BY <1>r DEF g, h
<1>12. SyncApu(b, t).fc = F(s.fc, s.fc) /\ SyncApu(b, t).tri.since = s.tri.since
  <2>1. h.tri.since = s.tri.since
    BY <1>2 DEF h
  <2>. HIDE DEF a, b
  <2>. QED
    BY <1>6, <1>10, <2>1 DEF Keeps, Names
<1>13. FcOnly(SyncApu(b, t), s)
  BY <1>9, <1>10, OnlyChains
<1>. QED
  BY <1>4, <1>10, <1>11, <1>12, <1>13

LEMMA TriangleKeeps ==
    ASSUME NEW s, Base(s), NEW t \in Int
    PROVE  LET q == UpdateTriangle(s, t)
           IN FcOnly(q, s) /\ OnFc(q) = OnFc(s) /\ q.fc = s.fc /\ q.tri.since = t
<1>. DEFINE q == UpdateTriangle(s, t)
<1>u. s.tri \in TriUnits
  BY Unpack DEF Fields
<1>1. CASE s.tri.delay <= 0 \/ Remains(s.tri, t) > 0
  <2>1. Waits(q, s, t) /\ FcOnly(q, s)
    BY <1>1, TriangleWaits
  <2>. HIDE DEF q
  <2>2. q.tri.since = t
    BY <1>u, <2>1 DEF Waits, TriUnits
  <2>. QED
    BY <2>1, <2>2 DEF q, Waits, Keeps, Names, OnFc
<1>2. CASE ~(s.tri.delay <= 0) /\ ~(Remains(s.tri, t) > 0)
  <2>1. FcOnly(q, s)
    BY <1>2, TriangleFires
  <2>2. PICK d : Fires(d, s, t) /\ AlikeFc(q, SyncApu(d, t + Remains(s.tri, t)))
    BY <1>2, TriangleFires
  <2>. DEFINE u == t + Remains(s.tri, t)
  <2>3. u \in Int
    BY <1>u DEF Remains, TriUnits
  <2>4. AlikeFc(q, SyncApu(d, u))
    BY <2>2
  <2>. HIDE DEF u, q
  <2>5. Keeps(SyncApu(d, u), d, {"owed", "fifo", "synced", "failed"})
    BY <2>2, <2>3, SyncApuGood DEF Fires
  <2>6. d.tri.since = t /\ d.fc = s.fc /\ d.on = s.on
    BY <1>u, <2>2 DEF Fires, TriUnits, Keeps, Names
  <2>7. q.fc = s.fc /\ OnFc(q) = OnFc(s) /\ q.tri.since = t
    BY <2>4, <2>5, <2>6 DEF AlikeFc, TriAlike, Keeps, Names, OnFc
  <2>. QED
    BY <2>1, <2>7 DEF q
<1>. QED
  BY <1>1, <1>2

\* The rest of a round, after the call of update_triangle_period().
Clocked(q, n) == [ClockSequencer(q, n) EXCEPT !.fc = AddPeriod(@)]

LEMMA ClockedAlike ==
    ASSUME NEW r, NEW s, Base(r), Base(s), AlikeFc(r, s), NEW n \in Int
    PROVE  /\ AlikeFc(Clocked(r, n), Clocked(s, n)) /\ FcOnly(Clocked(s, n), s)
           /\ Clocked(s, n).fc.next >= s.fc.next + 1
<1>. DEFINE a == ClockSequencer(r, n)
            b == ClockSequencer(s, n)
<1>1. /\ AlikeFc(a, b) /\ FcOnly(b, s) /\ b.fc.next >= s.fc.next
  BY ClockSequencerAlike
<1>2. Base(a) /\ Base(b)
  BY ClockSequencerGood DEF Good
<1>3. /\ \A x \in Names : x \in DOMAIN a
      /\ \A x \in Names : x \in DOMAIN b
      /\ b.fc \in FcUnits /\ s.fc \in FcUnits
  BY <1>2, Unpack DEF Fields
<1>4. Clocked(r, n) = [a EXCEPT !.fc = AddPeriod(@)] /\ Clocked(s, n) = [b EXCEPT !.fc = AddPeriod(@)]
  BY DEF Clocked
<1>. HIDE DEF a, b
<1>5. /\ Keeps(Clocked(r, n), a, {"fc"}) /\ Clocked(r, n).fc = AddPeriod(a.fc)
      /\ Keeps(Clocked(s, n), b, {"fc"}) /\ Clocked(s, n).fc = AddPeriod(b.fc)
  BY <1>3, <1>4 DEF Keeps, Names
<1>6. AlikeFc(Clocked(r, n), Clocked(s, n))
  BY <1>1, <1>5 DEF AlikeFc, Keeps, Names, OnFc
<1>7. FcOnly(Clocked(s, n), b)
  BY <1>5 DEF FcOnly, Keeps, Names, OnDmc, FcParts
<1>8. AddPeriod(b.fc).next >= b.fc.next + 1 /\ AddPeriod(b.fc) \in FcUnits
  BY <1>3, AddPeriodLater, AddPeriodType
<1>9. Clocked(s, n).fc.next >= s.fc.next + 1
  BY <1>1, <1>3, <1>5, <1>8 DEF FcUnits
<1>. QED
  BY <1>1, <1>6, <1>7, <1>9, OnlyChains

LEMMA DueIsClocked ==
    ASSUME NEW s
    PROVE  ClockDue(s) = Clocked(UpdateTriangle(s, s.fc.next), s.fc.next)
BY DEF ClockDue, Clocked

\* A round is the same for units that are alike, and later than the last one.
LEMMA ClockDueAlike ==
    ASSUME NEW r, NEW s, Base(r), Base(s), AlikeFc(r, s)
    PROVE  /\ AlikeFc(ClockDue(r), ClockDue(s)) /\ FcOnly(ClockDue(s), s)
           /\ ClockDue(s).fc.next >= s.fc.next + 1
<1>. DEFINE n == s.fc.next
<1>1. n \in Int /\ r.fc.next = n
  BY TimesAreNumbers DEF AlikeFc
<1>2. ClockDue(r) = Clocked(UpdateTriangle(r, n), n) /\ ClockDue(s) = Clocked(UpdateTriangle(s, n), n)
  BY <1>1, DueIsClocked
<1>3. /\ Base(UpdateTriangle(r, n)) /\ Base(UpdateTriangle(s, n))
      /\ AlikeFc(UpdateTriangle(r, n), UpdateTriangle(s, n))
      /\ FcOnly(UpdateTriangle(s, n), s) /\ UpdateTriangle(s, n).fc.next = n
  BY <1>1, UpdateTriangleGood, UpdateTriangleAlike, TriangleKeeps
<1>. HIDE DEF n
<1>4. /\ AlikeFc(ClockDue(r), ClockDue(s)) /\ FcOnly(ClockDue(s), UpdateTriangle(s, n))
      /\ ClockDue(s).fc.next >= n + 1
  BY <1>1, <1>2, <1>3, ClockedAlike
<1>. QED
  BY <1>3, <1>4, OnlyChains DEF n

\* Nor does it matter whether the triangle was looked at before.
LEMMA ClockDueAgain ==
    ASSUME NEW s, Base(s), NEW t \in Int, t <= s.fc.next
    PROVE  AlikeFc(ClockDue(UpdateTriangle(s, t)), ClockDue(s))
<1>. DEFINE n == s.fc.next
            q == UpdateTriangle(s, t)
<1>1. n \in Int
  BY TimesAreNumbers
<1>2. Base(q) /\ q.fc.next = n
  BY UpdateTriangleGood, TriangleKeeps
<1>3. AlikeFc(UpdateTriangle(q, n), UpdateTriangle(s, n))
  BY <1>1, UpdateTriangleAgain
<1>. HIDE DEF q
<1>4. ClockDue(q) = Clocked(UpdateTriangle(q, n), n) /\ ClockDue(s) = Clocked(UpdateTriangle(s, n), n)
  BY <1>2, DueIsClocked
<1>5. Base(UpdateTriangle(q, n)) /\ Base(UpdateTriangle(s, n))
  BY <1>1, <1>2, UpdateTriangleGood
<1>. HIDE DEF n
<1>6. AlikeFc(ClockDue(q), ClockDue(s))
  BY <1>1, <1>3, <1>4, <1>5, ClockedAlike
<1>. QED
  BY <1>6 DEF q

-----------------------------------------------------------------------------
(* The loop of update_fc_body(). *)

FcRound(q, t) == IF t >= q.fc.next THEN ClockDue(q) ELSE q
FcStep(t) == [q \in GoodUnits |-> FcRound(q, t)]

LEMMA FcStepType ==
    ASSUME NEW t
    PROVE  FcStep(t) \in [GoodUnits -> GoodUnits]
<1>1. \A q \in GoodUnits : FcRound(q, t) \in GoodUnits
  BY GoodIsIn, ClockDueGood DEF FcRound
<1>. QED
  BY <1>1 DEF FcStep

LEMMA FcRoundAlike ==
    ASSUME NEW r, NEW s, Base(r), Base(s), AlikeFc(r, s), NEW t \in Int
    PROVE  AlikeFc(FcRound(r, t), FcRound(s, t)) /\ FcOnly(FcRound(s, t), s)
<1>1. r.fc = s.fc
  BY DEF AlikeFc
<1>. QED
  BY <1>1, ClockDueAlike, OnlyChains DEF FcRound

\* The rounds of a call, round by round: they reach a unit whose next one lies ahead.
FcCourse(g, s, t) ==
    LET m == t - s.fc.next + 1
    IN /\ m \in Nat /\ g[0] = s /\ \A n \in 0..m : Good(g[n])
       /\ \A n \in 1..m : g[n] = FcRound(g[n - 1], t)
       /\ g[m].fc.next > t /\ UpdateFc(s, t) = UpdateTriangle(g[m], t)
       /\ g[m] \in Orbit(FcStep(t), s)

LEMMA FcCourses ==
    ASSUME NEW s, Good(s), NEW t \in Int, t >= s.fc.next
    PROVE  \E g : FcCourse(g, s, t)
<1>. DEFINE m == t - s.fc.next + 1
<1>n. s.fc.next \in Int
  BY TimesAreNumbers DEF Good
<1>0. m \in Nat
  BY <1>n
<1>1. PICK g : /\ g[0] = s /\ \A n \in 0..m : Good(g[n])
               /\ \A n \in 1..m : g[n] = IF t >= g[n - 1].fc.next THEN ClockDue(g[n - 1]) ELSE g[n - 1]
               /\ UpdateFc(s, t) = UpdateTriangle(g[m], t)
  BY FcRounds
<1>2. \A n \in 1..m : g[n] = FcRound(g[n - 1], t)
  BY <1>1 DEF FcRound
<1>. DEFINE f == FcStep(t)
            S == {n \in 0..m : g[n] \in Orbit(f, s) /\ (g[n].fc.next > t \/ g[n].fc.next >= s.fc.next + n)}
<1>f. f \in [GoodUnits -> GoodUnits]
  BY FcStepType
<1>g. s \in GoodUnits
  BY GoodIsIn
<1>3. 0 \in S
  <2>1. s \in Orbit(f, s)
    <3>. HIDE DEF f
    <3>. QED
      BY <1>f, <1>g, OrbitStart
  <2>. QED
    BY <1>0, <1>1, <1>n, <2>1
<1>4. ASSUME NEW n \in 0..m, n # 0, n - 1 \in S PROVE n \in S
  <2>. DEFINE q == g[n - 1]
  <2>1. n \in 1..m /\ n - 1 \in 0..m /\ n - 1 \in Int
    BY <1>0, <1>4
  <2>2. Good(q) /\ q \in GoodUnits /\ Base(q) /\ Good(g[n])
    BY <1>1, <2>1, GoodIsIn DEF Good
  <2>3. q.fc.next \in Int /\ (q.fc.next > t \/ q.fc.next >= s.fc.next + (n - 1)) /\ q \in Orbit(f, s)
    BY <1>4, <2>2, TimesAreNumbers DEF Good
  <2>4. g[n] = FcRound(q, t) /\ g[n].fc.next \in Int
    BY <1>2, <2>1, <2>2, TimesAreNumbers DEF Good
  <2>. HIDE DEF q
  <2>5. g[n] \in Orbit(f, s)
    <3>1. g[n] = f[q]
      BY <2>2, <2>4 DEF FcStep
    <3>. HIDE DEF f
    <3>. QED
      BY <1>f, <2>3, <3>1, OrbitStep
  <2>6. g[n].fc.next > t \/ g[n].fc.next >= s.fc.next + n
    <3>1. CASE t >= q.fc.next
      <4>1. ClockDue(q).fc.next >= q.fc.next + 1 /\ g[n] = ClockDue(q)
        BY <2>2, <2>4, <3>1, ClockDueAlike, AlikeFcRelation DEF FcRound
      <4>. QED
        BY <1>n, <2>1, <2>3, <2>4, <3>1, <4>1
    <3>2. CASE ~(t >= q.fc.next)
      <4>1. g[n] = q
        BY <2>4, <3>2 DEF FcRound
      <4>. QED
        BY <2>3, <3>2, <4>1
    <3>. QED
      BY <3>1, <3>2
  <2>. HIDE DEF f
  <2>. QED
    BY <2>5, <2>6
<1>5. m \in S
  <2>1. 0..m \subseteq S
    <3>. HIDE DEF S
    <3>. QED
      BY <1>0, <1>3, <1>4, UpToBound
  <2>. QED
    BY <1>0, <2>1
<1>6. g[m].fc.next > t
  <2>1. g[m].fc.next > t \/ g[m].fc.next >= s.fc.next + m
    BY <1>5
  <2>2. g[m].fc.next \in Int
    BY <1>0, <1>1, TimesAreNumbers DEF Good
  <2>. QED
    BY <1>n, <2>1, <2>2
<1>7. g[m] \in Orbit(f, s)
  BY <1>5
<1>8. FcCourse(g, s, t)
  BY <1>0, <1>1, <1>2, <1>6, <1>7 DEF FcCourse
<1>. QED
  BY <1>8

\* What CatchUp() does: it makes the rounds that are due, and passes the time.
FcEnd(x, s, t) ==
    /\ Good(x) /\ x.fc.next > t /\ x \in Orbit(FcStep(t), s)
    /\ AlikeFc(CatchUp(s, t), UpdateTriangle(x, t))

LEMMA FcEnds ==
    ASSUME NEW s, Good(s), NEW t \in Int
    PROVE  \E x : FcEnd(x, s, t)
<1>n. s.fc.next \in Int
  BY TimesAreNumbers DEF Good
<1>1. CASE t >= s.fc.next
  <2>1. PICK g : FcCourse(g, s, t)
    BY <1>1, FcCourses
  <2>. DEFINE m == t - s.fc.next + 1
              x == g[m]
  <2>2. Good(x) /\ x.fc.next > t /\ x \in Orbit(FcStep(t), s) /\ UpdateFc(s, t) = UpdateTriangle(x, t)
    BY <2>1 DEF FcCourse
  <2>. HIDE DEF x
  <2>3. CatchUp(s, t) = UpdateTriangle(UpdateTriangle(x, t), t)
    BY <2>2 DEF CatchUp
  <2>4. AlikeFc(UpdateTriangle(UpdateTriangle(x, t), t), UpdateTriangle(x, t))
    BY <2>2, UpdateTriangleAgain DEF Good
  <2>. QED
    BY <2>2, <2>3, <2>4 DEF FcEnd
<1>2. CASE ~(t >= s.fc.next)
  <2>1. UpdateFc(s, t) = s
    BY <1>2 DEF UpdateFc
  <2>2. s \in Orbit(FcStep(t), s)
    <3>1. s \in GoodUnits
      BY GoodIsIn
    <3>. QED
      BY <3>1, FcStepType, OrbitStart
  <2>3. s.fc.next > t
    BY <1>2, <1>n
  <2>. QED
    BY <2>1, <2>2, <2>3, AlikeFcRelation DEF CatchUp, FcEnd
<1>. QED
  BY <1>1, <1>2

\* The same for units that are alike, and no concern of the DMC.
LEMMA UpdateFcAlike ==
    ASSUME NEW r, NEW s, Good(r), Good(s), AlikeFc(r, s), NEW t \in Int
    PROVE  AlikeFc(UpdateFc(r, t), UpdateFc(s, t)) /\ FcOnly(UpdateFc(s, t), s)
<1>b. Base(r) /\ Base(s)
  BY DEF Good
<1>1. r.fc = s.fc /\ s.fc.next \in Int
  BY <1>b, TimesAreNumbers DEF AlikeFc
<1>2. CASE t >= s.fc.next
  <2>. DEFINE m == t - s.fc.next + 1
  <2>1. PICK g : FcCourse(g, r, t)
    BY <1>1, <1>2, FcCourses
  <2>2. PICK h : FcCourse(h, s, t)
    BY <1>2, FcCourses
  <2>3. /\ m \in Nat
        /\ g[0] = r /\ h[0] = s /\ \A n \in 0..m : Good(g[n]) /\ Good(h[n])
        /\ \A n \in 1..m : g[n] = FcRound(g[n - 1], t) /\ h[n] = FcRound(h[n - 1], t)
        /\ UpdateFc(r, t) = UpdateTriangle(g[m], t) /\ UpdateFc(s, t) = UpdateTriangle(h[m], t)
    BY <1>1, <2>1, <2>2 DEF FcCourse
  <2>. HIDE DEF m
  <2>. DEFINE S == {n \in 0..m : AlikeFc(g[n], h[n]) /\ FcOnly(h[n], s)}
  <2>4. 0 \in S
    BY <2>3, OnlyChains
  <2>5. ASSUME NEW n \in 0..m, n # 0, n - 1 \in S PROVE n \in S
    <3>1. n \in 1..m /\ n - 1 \in 0..m
      BY <2>3, <2>5
    <3>2. AlikeFc(g[n - 1], h[n - 1]) /\ FcOnly(h[n - 1], s) /\ Base(g[n - 1]) /\ Base(h[n - 1])
      BY <2>3, <2>5, <3>1 DEF Good
    <3>3. AlikeFc(g[n], h[n]) /\ FcOnly(h[n], h[n - 1])
      BY <2>3, <3>1, <3>2, FcRoundAlike
    <3>. QED
      BY <3>2, <3>3, OnlyChains
  <2>6. m \in S
    <3>1. 0..m \subseteq S
      <4>. HIDE DEF S
      <4>. QED
        BY <2>3, <2>4, <2>5, UpToBound
    <3>. QED
      BY <2>3, <3>1
  <2>7. AlikeFc(g[m], h[m]) /\ FcOnly(h[m], s) /\ Base(g[m]) /\ Base(h[m])
    BY <2>3, <2>6 DEF Good
  <2>8. AlikeFc(UpdateTriangle(g[m], t), UpdateTriangle(h[m], t)) /\ FcOnly(UpdateTriangle(h[m], t), h[m])
    BY <2>7, UpdateTriangleAlike, TriangleKeeps
  <2>. QED
    BY <2>3, <2>7, <2>8, OnlyChains
<1>3. CASE ~(t >= s.fc.next)
  BY <1>1, <1>3, OnlyChains DEF UpdateFc
<1>. QED
  BY <1>2, <1>3

LEMMA CatchUpAlike ==
    ASSUME NEW r, NEW s, Good(r), Good(s), AlikeFc(r, s), NEW t \in Int
    PROVE  AlikeFc(CatchUp(r, t), CatchUp(s, t)) /\ FcOnly(CatchUp(s, t), s)
<1>2. /\ AlikeFc(UpdateFc(r, t), UpdateFc(s, t)) /\ FcOnly(UpdateFc(s, t), s)
  BY UpdateFcAlike
<1>3. Base(UpdateFc(r, t)) /\ Base(UpdateFc(s, t))
  BY UpdateFcGood DEF Good
<1>4. /\ AlikeFc(CatchUp(r, t), CatchUp(s, t)) /\ FcOnly(CatchUp(s, t), UpdateFc(s, t))
  BY <1>2, <1>3, UpdateTriangleAlike, TriangleKeeps DEF CatchUp
<1>. QED
  BY <1>2, <1>4, OnlyChains

\* It may as well make one round first.
LEMMA CatchUpRound ==
    ASSUME NEW s, Good(s), NEW t \in Int, t >= s.fc.next
    PROVE  AlikeFc(CatchUp(ClockDue(s), t), CatchUp(s, t))
<1>. DEFINE f == FcStep(t)
            q == ClockDue(s)
<1>1. PICK x : FcEnd(x, s, t)
  BY FcEnds
<1>2. Good(q) /\ q \in GoodUnits /\ s \in GoodUnits
  BY ClockDueGood, GoodIsIn
<1>3. PICK y : FcEnd(y, q, t)
  BY <1>2, FcEnds
<1>4. f \in [GoodUnits -> GoodUnits] /\ f[s] = q
  BY <1>2, FcStepType DEF FcStep, FcRound
<1>5. /\ x \in GoodUnits /\ y \in GoodUnits /\ f[x] = x /\ f[y] = y
  <2>1. x \in GoodUnits /\ y \in GoodUnits /\ x.fc.next \in Int /\ y.fc.next \in Int
        /\ x.fc.next > t /\ y.fc.next > t
    BY <1>1, <1>3, GoodIsIn, TimesAreNumbers DEF FcEnd, Good
  <2>. QED
    BY <2>1 DEF FcStep, FcRound
<1>6. x \in Orbit(f, s) /\ y \in Orbit(f, q)
  BY <1>1, <1>3 DEF FcEnd
<1>. HIDE DEF f
<1>7. y \in Orbit(f, s)
  <2>. DEFINE S == {z \in GoodUnits : z \in Orbit(f, s)}
  <2>1. s \in Orbit(f, s)
    BY <1>2, <1>4, OrbitStart
  <2>2. q \in Orbit(f, s)
    BY <1>4, <2>1, OrbitStep
  <2>3. \A z \in S : f[z] \in S
    BY <1>4, OrbitStep
  <2>4. S \in SUBSET GoodUnits /\ q \in S
    BY <1>2, <2>2
  <2>. HIDE DEF S
  <2>5. Orbit(f, q) \subseteq S
    BY <1>4, <2>3, <2>4, OrbitWithin
  <2>. QED
    BY <1>6, <2>5 DEF S
<1>8. x = y
  BY <1>2, <1>4, <1>5, <1>6, <1>7, OrbitRest
<1>9. AlikeFc(CatchUp(q, t), UpdateTriangle(x, t)) /\ AlikeFc(CatchUp(s, t), UpdateTriangle(x, t))
  BY <1>1, <1>3, <1>8 DEF FcEnd
<1>. QED
  BY <1>9, AlikeFcRelation

\* It may as well look at the triangle first.
LEMMA CatchUpTriangle ==
    ASSUME NEW s, Good(s), NEW t \in Int, NEW u \in Int, t < s.fc.next, t <= u
    PROVE  AlikeFc(CatchUp(UpdateTriangle(s, t), u), CatchUp(s, u))
<1>. DEFINE q == UpdateTriangle(s, t)
<1>1. Good(q) /\ Base(q) /\ q.fc = s.fc /\ Base(s) /\ s.fc.next \in Int
  BY UpdateTriangleGood, TriangleKeeps, TimesAreNumbers DEF Good
<1>2. CASE u >= s.fc.next
  <2>1. AlikeFc(CatchUp(ClockDue(q), u), CatchUp(q, u)) /\ AlikeFc(CatchUp(ClockDue(s), u), CatchUp(s, u))
    BY <1>1, <1>2, CatchUpRound
  <2>2. AlikeFc(ClockDue(q), ClockDue(s))
    BY <1>1, ClockDueAgain
  <2>. HIDE DEF q
  <2>3. AlikeFc(CatchUp(ClockDue(q), u), CatchUp(ClockDue(s), u))
    BY <1>1, <2>2, ClockDueGood, CatchUpAlike
  <2>. QED
    BY <2>1, <2>3, AlikeFcRelation DEF q
<1>3. CASE ~(u >= s.fc.next)
  <2>1. UpdateFc(q, u) = q /\ UpdateFc(s, u) = s
    BY <1>1, <1>3 DEF UpdateFc
  <2>2. CatchUp(q, u) = UpdateTriangle(q, u) /\ CatchUp(s, u) = UpdateTriangle(s, u)
    BY <2>1 DEF CatchUp
  <2>. QED
    BY <1>1, <2>2, UpdateTriangleAgain
<1>. QED
  BY <1>2, <1>3

\* Twice is as good as once.
LEMMA CatchUpAgain ==
    ASSUME NEW s, Good(s), NEW t \in Int, NEW u \in Int, t <= u
    PROVE  AlikeFc(CatchUp(CatchUp(s, t), u), CatchUp(s, u))
<1>1. PICK x : FcEnd(x, s, t)
  BY FcEnds
<1>2. Good(x) /\ x.fc.next > t /\ x \in Orbit(FcStep(t), s) /\ x.fc.next \in Int
      /\ AlikeFc(CatchUp(s, t), UpdateTriangle(x, t))
  BY <1>1, TimesAreNumbers DEF FcEnd, Good
<1>3. AlikeFc(CatchUp(CatchUp(s, t), u), CatchUp(UpdateTriangle(x, t), u))
  BY <1>2, CatchUpGood, UpdateTriangleGood, CatchUpAlike DEF Good
<1>4. AlikeFc(CatchUp(UpdateTriangle(x, t), u), CatchUp(x, u))
  BY <1>2, CatchUpTriangle
<1>5. AlikeFc(CatchUp(x, u), CatchUp(s, u))
  <2>. DEFINE f == FcStep(t)
              S == {q \in GoodUnits : AlikeFc(CatchUp(q, u), CatchUp(s, u))}
  <2>1. S \in SUBSET GoodUnits /\ s \in S
    BY GoodIsIn, AlikeFcRelation
  <2>2. ASSUME NEW q \in S PROVE f[q] \in S
    <3>1. q \in GoodUnits /\ Good(q) /\ AlikeFc(CatchUp(q, u), CatchUp(s, u)) /\ q.fc.next \in Int
      BY GoodIsIn, TimesAreNumbers DEF Good
    <3>2. f[q] = FcRound(q, t)
      BY <3>1 DEF FcStep
    <3>3. CASE t >= q.fc.next
      <4>1. AlikeFc(CatchUp(ClockDue(q), u), CatchUp(q, u))
        BY <3>1, <3>3, CatchUpRound
      <4>2. AlikeFc(CatchUp(ClockDue(q), u), CatchUp(s, u)) /\ ClockDue(q) \in GoodUnits
        BY <3>1, <4>1, AlikeFcRelation, ClockDueGood, GoodIsIn
      <4>. QED
        BY <3>2, <3>3, <4>2 DEF FcRound
    <3>4. CASE ~(t >= q.fc.next)
      BY <3>2, <3>4 DEF FcRound
    <3>. QED
      BY <3>3, <3>4
  <2>3. f \in [GoodUnits -> GoodUnits]
    BY FcStepType
  <2>. HIDE DEF f, S
  <2>4. Orbit(f, s) \subseteq S
    BY <2>1, <2>2, <2>3, OrbitWithin
  <2>5. x \in S
    BY <1>2, <2>4 DEF f
  <2>. QED
    BY <2>5 DEF S
<1>. QED
  BY <1>3, <1>4, <1>5, AlikeFcRelation

-----------------------------------------------------------------------------
(* The DMC: what is alike stays alike. *)

LEMMA DmcAlikeIntro ==
    ASSUME NEW r, NEW s, NEW a, NEW b, AlikeDmc(r, s),
           Keeps(a, r, {"dmc", "slowed"}), Keeps(b, s, {"dmc", "slowed"}),
           a.dmc = b.dmc, a.slowed = b.slowed
    PROVE  AlikeDmc(a, b) /\ DmcOnly(b, s)
<1>1. AlikeDmc(a, b)
  BY DEF AlikeDmc, Keeps, Names, OnDmc
<1>2. DmcOnly(b, s)
  BY DEF DmcOnly, Keeps, Names, OnFc, DmcParts
<1>. QED
  BY <1>1, <1>2

\* sync_pcm(): the entry it leaves.
NextOut(s, n, pcm) ==
    [sample |-> n,
     delta |-> (IF n = s.out.sample THEN pcm - s.dmc.pcm + PcmMod + s.out.delta ELSE pcm - s.dmc.pcm + PcmMod) % PcmMod]
NextSum(s, n) == IF n = s.out.sample THEN s.sum ELSE (s.sum + s.out.delta) % PcmMod

LEMMA SyncPcmMakes ==
    ASSUME NEW s0, Base(s0), NEW t \in Int, NEW pcm \in 0..PcmTop
    PROVE  LET r == SyncPcm(s0, t, pcm)
               n == SampleTime(s0, t)
           IN /\ r.out = NextOut(s0, n, pcm) /\ r.sum = NextSum(s0, n) /\ r.dmc = [s0.dmc EXCEPT !.pcm = pcm]
              /\ Keeps(r, s0, {"out", "sum", "dmc", "pcmSynced", "failed"})
<1>. DEFINE s == Check(s0, t >= s0.pcmSynced, 510)
            n == SampleTime(s, t)
            out == NextOut(s, n, pcm)
            sum == NextSum(s, n)
            r == [s EXCEPT !.out = out, !.sum = sum, !.dmc.pcm = pcm, !.pcmSynced = t]
<1>1. Base(s) /\ Keeps(s, s0, {"failed"})
  BY CheckBase
<1>2. SyncPcm(s0, t, pcm) = r
  BY DEF SyncPcm, NextOut, NextSum
<1>. HIDE DEF s
<1>u. \A x \in Names : x \in DOMAIN s
  BY <1>1, Unpack
<1>3. s.out = s0.out /\ s.sum = s0.sum /\ s.dmc = s0.dmc /\ s.offs = s0.offs
  BY <1>1 DEF Keeps, Names
<1>4. n = SampleTime(s0, t) /\ out = NextOut(s0, SampleTime(s0, t), pcm) /\ sum = NextSum(s0, SampleTime(s0, t))
  BY <1>3 DEF SampleTime, NextOut, NextSum
<1>. HIDE DEF n, out, sum
<1>5. r.out = out /\ r.sum = sum
  BY <1>u DEF Names
<1>. HIDE DEF r
<1>6. /\ Keeps(r, s0, {"out", "sum", "dmc", "pcmSynced", "failed"})
      /\ r.dmc = [s0.dmc EXCEPT !.pcm = pcm]
  BY <1>2, SyncPcmGood
<1>. QED
  BY <1>2, <1>4, <1>5, <1>6

LEMMA SyncPcmAlike ==
    ASSUME NEW r, NEW s, Base(r), Base(s), AlikeDmc(r, s), NEW t \in Int, NEW pcm \in 0..PcmTop
    PROVE  AlikeDmc(SyncPcm(r, t, pcm), SyncPcm(s, t, pcm)) /\ DmcOnly(SyncPcm(s, t, pcm), s)
<1>. DEFINE a == SyncPcm(r, t, pcm)
            b == SyncPcm(s, t, pcm)
            n == SampleTime(s, t)
<1>1. SampleTime(r, t) = n
  BY DEF AlikeDmc, SampleTime
<1>2. NextOut(r, n, pcm) = NextOut(s, n, pcm) /\ NextSum(r, n) = NextSum(s, n)
  <2>1. r.out = s.out /\ r.sum = s.sum /\ r.dmc = s.dmc
    BY DEF AlikeDmc
  <2>. HIDE DEF n
  <2>. QED
    BY <2>1 DEF NextOut, NextSum
<1>3. /\ a.out = NextOut(r, n, pcm) /\ a.sum = NextSum(r, n) /\ a.dmc = [r.dmc EXCEPT !.pcm = pcm]
      /\ Keeps(a, r, {"out", "sum", "dmc", "pcmSynced", "failed"})
  BY <1>1, SyncPcmMakes
<1>4. /\ b.out = NextOut(s, n, pcm) /\ b.sum = NextSum(s, n) /\ b.dmc = [s.dmc EXCEPT !.pcm = pcm]
      /\ Keeps(b, s, {"out", "sum", "dmc", "pcmSynced", "failed"})
  BY SyncPcmMakes
<1>. HIDE DEF a, b, n
<1>5. a.out = b.out /\ a.sum = b.sum /\ a.dmc = b.dmc
  <2>1. r.dmc = s.dmc
    BY DEF AlikeDmc
  <2>. QED
    BY <1>2, <1>3, <1>4, <2>1
<1>6. AlikeDmc(a, b)
  BY <1>3, <1>4, <1>5 DEF AlikeDmc, Keeps, Names, OnDmc
<1>7. DmcOnly(b, s)
  BY <1>4 DEF DmcOnly, Keeps, Names, OnFc, DmcParts
<1>. QED
  BY <1>6, <1>7 DEF a, b

LEMMA DmcStartAlike ==
    ASSUME NEW r, NEW s, Base(r), Base(s), AlikeDmc(r, s), NEW t \in Int
    PROVE  AlikeDmc(DmcStart(r, t), DmcStart(s, t)) /\ DmcOnly(DmcStart(s, t), s)
<1>1. r \in Units /\ s \in Units /\ r.dmc = s.dmc /\ r.slowed = s.slowed
  BY Unpack DEF AlikeDmc
<1>2. /\ DmcStart(r, t).dmc = DmcStart(s, t).dmc /\ DmcStart(r, t).slowed = DmcStart(s, t).slowed
      /\ Keeps(DmcStart(r, t), r, {"dmc", "slowed"}) /\ Keeps(DmcStart(s, t), s, {"dmc", "slowed"})
  BY <1>1, DmcStartSame, DmcStartUnits
<1>. QED
  BY <1>2, DmcAlikeIntro

\* The status when a sample has ended.
Over(on, d) == (on \ {"dmc"}) \cup (IF d.irq THEN {"dmcirq"} ELSE {})

LEMMA DmcEndedMakes ==
    ASSUME NEW s0, Base(s0), NEW t \in Int
    PROVE  LET r == DmcEnded(s0, t)
           IN /\ Keeps(r, s0, {"dmc", "on", "failed"})
              /\ r.on = Over(s0.on, s0.dmc) /\ r.dmc = [s0.dmc EXCEPT !.end = Never]
<1>. DEFINE s == Check(s0, s0.dmc.end = t, 586)
            on == Over(s.on, s.dmc)
            r == [s EXCEPT !.on = on, !.dmc.end = Never]
<1>1. Base(s) /\ Keeps(s, s0, {"failed"})
  BY CheckBase
<1>r. r = DmcEnded(s0, t)
  BY DEF DmcEnded, Over
<1>. HIDE DEF s
<1>u. \A x \in Names : x \in DOMAIN s
  BY <1>1, Unpack
<1>2. s.on = s0.on /\ s.dmc = s0.dmc
  BY <1>1 DEF Keeps, Names
<1>. HIDE DEF on
<1>5. r.dmc = [s.dmc EXCEPT !.end = Never] /\ r.on = on
  BY <1>u DEF Names
<1>. QED
  BY <1>2, <1>5, <1>r, DmcEndedGood DEF on

LEMMA DmcEndedAlike ==
    ASSUME NEW r, NEW s, Base(r), Base(s), AlikeDmc(r, s), NEW t \in Int
    PROVE  AlikeDmc(DmcEnded(r, t), DmcEnded(s, t)) /\ DmcOnly(DmcEnded(s, t), s)
<1>. DEFINE a == DmcEnded(r, t)
            b == DmcEnded(s, t)
<1>1. /\ Keeps(a, r, {"dmc", "on", "failed"}) /\ a.on = Over(r.on, r.dmc) /\ a.dmc = [r.dmc EXCEPT !.end = Never]
      /\ Keeps(b, s, {"dmc", "on", "failed"}) /\ b.on = Over(s.on, s.dmc) /\ b.dmc = [s.dmc EXCEPT !.end = Never]
  BY DmcEndedMakes
<1>. HIDE DEF a, b
<1>2. r.dmc = s.dmc /\ OnDmc(r) = OnDmc(s)
  BY DEF AlikeDmc
<1>3. OnDmc(a) = OnDmc(b)
  BY <1>1, <1>2 DEF OnDmc, Over
<1>4. OnFc(b) = OnFc(s)
  BY <1>1 DEF OnFc, Over, Channels, Envs, Pulses
<1>5. AlikeDmc(a, b)
  <2>1. a.dmc = b.dmc
    BY <1>1, <1>2
  <2>. QED
    BY <1>1, <1>3, <2>1 DEF AlikeDmc, Keeps, Names
<1>6. DmcOnly(b, s)
  BY <1>1, <1>4 DEF DmcOnly, Keeps, Names, DmcParts
<1>. QED
  BY <1>5, <1>6 DEF a, b

LEMMA FetchAlike ==
    ASSUME NEW r, NEW s, Base(r), Base(s), AlikeDmc(r, s), NEW t \in Int, s.dmc.bytes > 0
    PROVE  AlikeDmc(Fetch(r, t), Fetch(s, t)) /\ DmcOnly(Fetch(s, t), s)
<1>. DEFINE q(v) == Fetched(v)
            d(v) == FetchedDmc(v.dmc)
<1>1. ASSUME NEW v, Base(v), v.dmc.bytes > 0
      PROVE  /\ Fetch(v, t) = IF q(v).dmc.bytes > 0 THEN q(v) ELSE IF v.dmc.loop THEN DmcStart(q(v), t) ELSE DmcEnded(q(v), t)
             /\ Base(q(v)) /\ Keeps(q(v), v, {"dmc"}) /\ q(v).dmc = d(v)
  BY <1>1, FetchedMakes
<1>2. r.dmc = s.dmc
  BY DEF AlikeDmc
<1>3. d(r) = d(s)
  BY <1>2
<1>. HIDE DEF q, d
<1>4. /\ Fetch(r, t) = IF q(r).dmc.bytes > 0 THEN q(r) ELSE IF r.dmc.loop THEN DmcStart(q(r), t) ELSE DmcEnded(q(r), t)
      /\ Base(q(r)) /\ Keeps(q(r), r, {"dmc"}) /\ q(r).dmc = d(s)
  BY <1>1, <1>2, <1>3
<1>5. /\ Fetch(s, t) = IF q(s).dmc.bytes > 0 THEN q(s) ELSE IF s.dmc.loop THEN DmcStart(q(s), t) ELSE DmcEnded(q(s), t)
      /\ Base(q(s)) /\ Keeps(q(s), s, {"dmc"}) /\ q(s).dmc = d(s)
  BY <1>1
<1>6. AlikeDmc(q(r), q(s)) /\ DmcOnly(q(s), s)
  <2>1. Keeps(q(r), r, {"dmc", "slowed"}) /\ Keeps(q(s), s, {"dmc", "slowed"}) /\ q(r).slowed = q(s).slowed
    BY <1>4, <1>5 DEF Keeps, Names, AlikeDmc
  <2>. QED
    BY <1>4, <1>5, <2>1, DmcAlikeIntro
<1>7. /\ AlikeDmc(DmcStart(q(r), t), DmcStart(q(s), t)) /\ DmcOnly(DmcStart(q(s), t), q(s))
      /\ AlikeDmc(DmcEnded(q(r), t), DmcEnded(q(s), t)) /\ DmcOnly(DmcEnded(q(s), t), q(s))
  BY <1>4, <1>5, <1>6, DmcStartAlike, DmcEndedAlike
<1>8. q(r).dmc = q(s).dmc
  BY <1>4, <1>5
<1>9. DmcOnly(DmcStart(q(s), t), s) /\ DmcOnly(DmcEnded(q(s), t), s)
  BY <1>6, <1>7, OnlyChains
<1>. QED
  BY <1>2, <1>4, <1>5, <1>6, <1>7, <1>8, <1>9

LEMMA ShiftAlike ==
    ASSUME NEW r, NEW s, Base(r), Base(s), AlikeDmc(r, s), NEW t \in Int, s.dmc.bit > 0
    PROVE  AlikeDmc(Shift(r, t), Shift(s, t)) /\ DmcOnly(Shift(s, t), s)
<1>. DEFINE level(v) == v.dmc.pcm + (IF Rom[v.dmc.cur][Bits - v.dmc.bit + 1] = 1 THEN 1 ELSE -1)
            heard(v) == IF level(v) \in 0..PcmTop THEN SyncPcm(v, t, level(v)) ELSE v
            q(v) == [v EXCEPT !.dmc.bit = @ - 1]
<1>r. Shift(r, t) = q(heard(r)) /\ Shift(s, t) = q(heard(s))
  BY DEF Shift
<1>1. level(r) = level(s)
  BY DEF AlikeDmc
<1>. HIDE DEF level
<1>2. Base(heard(r)) /\ Base(heard(s)) /\ AlikeDmc(heard(r), heard(s)) /\ DmcOnly(heard(s), s)
  BY <1>1, SyncPcmGood, SyncPcmAlike, OnlyChains
<1>. HIDE DEF heard
<1>3. /\ \A x \in Names : x \in DOMAIN heard(r)
      /\ \A x \in Names : x \in DOMAIN heard(s)
  BY <1>2, Unpack
<1>4. /\ Keeps(q(heard(r)), heard(r), {"dmc"}) /\ q(heard(r)).dmc = [heard(r).dmc EXCEPT !.bit = @ - 1]
      /\ Keeps(q(heard(s)), heard(s), {"dmc"}) /\ q(heard(s)).dmc = [heard(s).dmc EXCEPT !.bit = @ - 1]
  BY <1>3 DEF Keeps, Names
<1>. HIDE DEF q
<1>5. AlikeDmc(q(heard(r)), q(heard(s))) /\ DmcOnly(q(heard(s)), heard(s))
  <2>1. /\ Keeps(q(heard(r)), heard(r), {"dmc", "slowed"}) /\ Keeps(q(heard(s)), heard(s), {"dmc", "slowed"})
        /\ q(heard(r)).slowed = q(heard(s)).slowed /\ q(heard(r)).dmc = q(heard(s)).dmc
    BY <1>2, <1>4 DEF Keeps, Names, AlikeDmc
  <2>. QED
    BY <1>2, <2>1, DmcAlikeIntro
<1>. QED
  BY <1>r, <1>2, <1>5, OnlyChains

\* A round is the same for units that are alike.
LEMMA DmcDueAlike ==
    ASSUME NEW r, NEW s, Base(r), Base(s), AlikeDmc(r, s)
    PROVE  AlikeDmc(DmcDue(r), DmcDue(s)) /\ DmcOnly(DmcDue(s), s)
<1>. DEFINE n == s.dmc.next
            next == n + s.dmc.period
            d(v) == [v EXCEPT !.dmc.next = next]
            stop(v) == [v EXCEPT !.dmc.next = Never, !.dmc.end = Never, !.slowed = FALSE]
            course(v) == IF v.dmc.bit > 0 THEN Shift(v, n)
                         ELSE IF v.dmc.bytes > 0 THEN Shift(Fetch(v, n), n)
                         ELSE IF v.dmc.loop /\ "dmc" \in v.enable THEN Shift(Fetch(DmcStart(v, n), n), n)
                         ELSE stop(v)
<1>0. r.dmc = s.dmc /\ r.enable = s.enable
  BY DEF AlikeDmc
<1>r. DmcDue(r) = course(d(r)) /\ DmcDue(s) = course(d(s))
  BY <1>0 DEF DmcDue
<1>n. n \in Int /\ next \in Int
  BY TimesAreNumbers, DmcNumbers
<1>. HIDE DEF n, next
<1>1. ASSUME NEW v, Base(v)
      PROVE  Base(d(v)) /\ Keeps(d(v), v, {"dmc"}) /\ d(v).dmc = [v.dmc EXCEPT !.next = next]
  <2>u. Fields(v) /\ \A x \in Names : x \in DOMAIN v
    BY <1>1, Unpack
  <2>1. Like(d(v), v)
    BY DEF Like
  <2>2. [v.dmc EXCEPT !.next = next] \in DmcUnits /\ [v.dmc EXCEPT !.next = next].pcm = v.dmc.pcm
    BY <1>n, <2>u DEF Fields, DmcUnits
  <2>3. /\ Keeps(d(v), v, {"dmc", "slowed", "on", "failed"}) /\ d(v).dmc = [v.dmc EXCEPT !.next = next]
        /\ d(v).slowed = v.slowed /\ d(v).on = v.on /\ d(v).failed = v.failed /\ Keeps(d(v), v, {"dmc"})
    BY <2>u DEF Keeps, Names
  <2>. HIDE DEF d
  <2>. QED
    BY <1>1, <2>u, <2>1, <2>2, <2>3, DmcGood DEF Fields
<1>. HIDE DEF d
<1>. DEFINE a == d(r)
            b == d(s)
<1>2. Base(a) /\ Base(b) /\ AlikeDmc(a, b) /\ DmcOnly(b, s)
  <2>1. Base(a) /\ Keeps(a, r, {"dmc"}) /\ a.dmc = [r.dmc EXCEPT !.next = next]
    BY <1>1
  <2>2. Base(b) /\ Keeps(b, s, {"dmc"}) /\ b.dmc = [s.dmc EXCEPT !.next = next]
    BY <1>1
  <2>. HIDE DEF a, b
  <2>3. /\ Keeps(a, r, {"dmc", "slowed"}) /\ Keeps(b, s, {"dmc", "slowed"})
        /\ a.slowed = b.slowed /\ a.dmc = b.dmc
    BY <1>0, <2>1, <2>2 DEF Keeps, Names, AlikeDmc
  <2>. QED
    BY <2>1, <2>2, <2>3, DmcAlikeIntro
<1>. HIDE DEF a, b
<1>3. a.dmc = b.dmc /\ a.enable = b.enable /\ b.dmc.bit \in Nat /\ b.dmc.bytes \in Nat /\ Bits > 0
  BY <1>2, TimesAreNumbers, DmcNumbers, RegistersAssumption DEF AlikeDmc
<1>b. Bits > 0
  BY RegistersAssumption
<1>4. AlikeDmc(course(a), course(b)) /\ DmcOnly(course(b), b)
  <2>1. CASE b.dmc.bit > 0
    <3>1. course(a) = Shift(a, n) /\ course(b) = Shift(b, n)
      BY <1>3, <2>1
    <3>. HIDE DEF course
    <3>. QED
      BY <1>n, <1>2, <2>1, <3>1, ShiftAlike
  <2>2. CASE ~(b.dmc.bit > 0) /\ b.dmc.bytes > 0
    <3>1. course(a) = Shift(Fetch(a, n), n) /\ course(b) = Shift(Fetch(b, n), n)
      BY <1>3, <2>2
    <3>. HIDE DEF course
    <3>2. /\ Base(Fetch(a, n)) /\ Base(Fetch(b, n)) /\ Fetch(b, n).dmc.bit > 0
          /\ AlikeDmc(Fetch(a, n), Fetch(b, n)) /\ DmcOnly(Fetch(b, n), b)
      BY <1>n, <1>2, <1>3, <2>2, FetchGood, FetchAlike
    <3>. QED
      BY <1>n, <3>1, <3>2, ShiftAlike, OnlyChains
  <2>3. CASE ~(b.dmc.bit > 0) /\ ~(b.dmc.bytes > 0) /\ b.dmc.loop /\ "dmc" \in b.enable
    <3>1. course(a) = Shift(Fetch(DmcStart(a, n), n), n) /\ course(b) = Shift(Fetch(DmcStart(b, n), n), n)
      BY <1>3, <2>3
    <3>. HIDE DEF course
    <3>. DEFINE e == DmcStart(a, n)
                f == DmcStart(b, n)
    <3>2. /\ Base(e) /\ Base(f) /\ e.dmc.bytes > 0 /\ f.dmc.bytes > 0
          /\ AlikeDmc(e, f) /\ DmcOnly(f, b)
      BY <1>n, <1>2, DmcStartGood, DmcStartAlike
    <3>. HIDE DEF e, f
    <3>3. /\ Base(Fetch(e, n)) /\ Base(Fetch(f, n)) /\ Fetch(f, n).dmc.bit > 0
          /\ AlikeDmc(Fetch(e, n), Fetch(f, n)) /\ DmcOnly(Fetch(f, n), f)
      BY <1>n, <1>b, <3>2, FetchGood, FetchAlike
    <3>4. AlikeDmc(Shift(Fetch(e, n), n), Shift(Fetch(f, n), n)) /\ DmcOnly(Shift(Fetch(f, n), n), Fetch(f, n))
      BY <1>n, <3>3, ShiftAlike
    <3>5. course(a) = Shift(Fetch(e, n), n) /\ course(b) = Shift(Fetch(f, n), n)
      BY <3>1 DEF e, f
    <3>. QED
      BY <3>2, <3>3, <3>4, <3>5, OnlyChains
  <2>4. CASE ~(b.dmc.bit > 0) /\ ~(b.dmc.bytes > 0) /\ ~(b.dmc.loop /\ "dmc" \in b.enable)
    <3>1. course(a) = stop(a) /\ course(b) = stop(b)
      BY <1>3, <2>4
    <3>. HIDE DEF course
    <3>2. /\ \A x \in Names : x \in DOMAIN a
          /\ \A x \in Names : x \in DOMAIN b
      BY <1>2, Unpack
    <3>3. /\ Keeps(stop(a), a, {"dmc", "slowed"}) /\ stop(a).dmc = [a.dmc EXCEPT !.next = Never, !.end = Never]
          /\ Keeps(stop(b), b, {"dmc", "slowed"}) /\ stop(b).dmc = [b.dmc EXCEPT !.next = Never, !.end = Never]
          /\ stop(a).slowed = FALSE /\ stop(b).slowed = FALSE
      BY <3>2 DEF Keeps, Names
    <3>. HIDE DEF stop
    <3>4. stop(a).dmc = stop(b).dmc /\ stop(a).slowed = stop(b).slowed
      BY <1>3, <3>3
    <3>5. AlikeDmc(stop(a), stop(b)) /\ DmcOnly(stop(b), b)
      BY <1>2, <3>3, <3>4, DmcAlikeIntro
    <3>. QED
      BY <3>1, <3>5
  <2>. QED
    BY <2>1, <2>2, <2>3, <2>4
<1>. HIDE DEF course
<1>5. DmcDue(r) = course(a) /\ DmcDue(s) = course(b)
  BY <1>r DEF a, b
<1>. QED
  BY <1>2, <1>4, <1>5, OnlyChains

-----------------------------------------------------------------------------
(* The loop of dmc_update_body(). *)

DmcRound(q, t) == IF t >= q.dmc.next THEN DmcDue(q) ELSE q
DmcStep(t) == [q \in GoodUnits |-> DmcRound(q, t)]

LEMMA DmcStepType ==
    ASSUME NEW t
    PROVE  DmcStep(t) \in [GoodUnits -> GoodUnits]
<1>1. \A q \in GoodUnits : DmcRound(q, t) \in GoodUnits
  BY GoodIsIn, DmcDueGood DEF DmcRound
<1>. QED
  BY <1>1 DEF DmcStep

LEMMA DmcRoundAlike ==
    ASSUME NEW r, NEW s, Base(r), Base(s), AlikeDmc(r, s), NEW t \in Int
    PROVE  AlikeDmc(DmcRound(r, t), DmcRound(s, t)) /\ DmcOnly(DmcRound(s, t), s)
<1>1. r.dmc = s.dmc
  BY DEF AlikeDmc
<1>. QED
  BY <1>1, DmcDueAlike, OnlyChains DEF DmcRound

DmcCourse(g, s, t) ==
    LET m == t - s.dmc.next + 1
    IN /\ m \in Nat /\ g[0] = s /\ \A n \in 0..m : Good(g[n])
       /\ \A n \in 1..m : g[n] = DmcRound(g[n - 1], t)
       /\ UpdateDmc(s, t) = g[m]

LEMMA DmcCourses ==
    ASSUME NEW s, Good(s), NEW t \in Int, t >= s.dmc.next
    PROVE  \E g : DmcCourse(g, s, t)
<1>. DEFINE m == t - s.dmc.next + 1
<1>n. s.dmc.next \in Int
  BY TimesAreNumbers, DmcNumbers DEF Good
<1>0. m \in Nat
  BY <1>n
<1>1. PICK g : /\ g[0] = s /\ \A n \in 0..m : Good(g[n])
               /\ \A n \in 1..m : g[n] = IF t >= g[n - 1].dmc.next THEN DmcDue(g[n - 1]) ELSE g[n - 1]
               /\ UpdateDmc(s, t) = g[m]
  BY DmcRounds
<1>2. \A n \in 1..m : g[n] = DmcRound(g[n - 1], t)
  BY <1>1 DEF DmcRound
<1>3. DmcCourse(g, s, t)
  BY <1>0, <1>1, <1>2 DEF DmcCourse
<1>. QED
  BY <1>3

LEMMA UpdateDmcReached ==
    ASSUME NEW s, Good(s), NEW t \in Int
    PROVE  UpdateDmc(s, t) \in Orbit(DmcStep(t), s)
<1>. DEFINE f == DmcStep(t)
<1>f. f \in [GoodUnits -> GoodUnits]
  BY DmcStepType
<1>g. s \in GoodUnits
  BY GoodIsIn
<1>s. s \in Orbit(f, s)
  <2>. HIDE DEF f
  <2>. QED
    BY <1>f, <1>g, OrbitStart
<1>1. CASE t >= s.dmc.next
  <2>. DEFINE m == t - s.dmc.next + 1
  <2>1. PICK g : DmcCourse(g, s, t)
    BY <1>1, DmcCourses
  <2>2. /\ m \in Nat /\ g[0] = s /\ \A n \in 0..m : Good(g[n])
        /\ \A n \in 1..m : g[n] = DmcRound(g[n - 1], t)
        /\ UpdateDmc(s, t) = g[m]
    BY <2>1 DEF DmcCourse
  <2>. HIDE DEF m
  <2>. DEFINE S == {n \in 0..m : g[n] \in Orbit(f, s)}
  <2>3. 0 \in S
    BY <1>s, <2>2
  <2>4. ASSUME NEW n \in 0..m, n # 0, n - 1 \in S PROVE n \in S
    <3>1. n \in 1..m /\ n - 1 \in 0..m
      BY <2>2, <2>4
    <3>2. g[n - 1] \in GoodUnits /\ g[n] = DmcRound(g[n - 1], t) /\ g[n - 1] \in Orbit(f, s)
      BY <2>2, <2>4, <3>1, GoodIsIn
    <3>3. g[n] = f[g[n - 1]]
      BY <3>2 DEF DmcStep
    <3>. HIDE DEF f
    <3>. QED
      BY <1>f, <3>2, <3>3, OrbitStep
  <2>5. m \in S
    <3>1. 0..m \subseteq S
      <4>. HIDE DEF S
      <4>. QED
        BY <2>2, <2>3, <2>4, UpToBound
    <3>. QED
      BY <2>2, <3>1
  <2>. HIDE DEF f
  <2>. QED
    BY <2>2, <2>5 DEF f
<1>2. CASE ~(t >= s.dmc.next)
  BY <1>2, <1>s DEF UpdateDmc
<1>. QED
  BY <1>1, <1>2

\* The same for units that are alike, and no concern of the frame counter.
LEMMA UpdateDmcAlike ==
    ASSUME NEW r, NEW s, Good(r), Good(s), AlikeDmc(r, s), NEW t \in Int
    PROVE  AlikeDmc(UpdateDmc(r, t), UpdateDmc(s, t)) /\ DmcOnly(UpdateDmc(s, t), s)
<1>b. Base(r) /\ Base(s)
  BY DEF Good
<1>1. r.dmc = s.dmc
  BY DEF AlikeDmc
<1>2. CASE t >= s.dmc.next
  <2>. DEFINE m == t - s.dmc.next + 1
  <2>1. PICK g : DmcCourse(g, r, t)
    BY <1>1, <1>2, DmcCourses
  <2>2. PICK h : DmcCourse(h, s, t)
    BY <1>2, DmcCourses
  <2>3. /\ m \in Nat
        /\ g[0] = r /\ h[0] = s /\ \A n \in 0..m : Good(g[n]) /\ Good(h[n])
        /\ \A n \in 1..m : g[n] = DmcRound(g[n - 1], t) /\ h[n] = DmcRound(h[n - 1], t)
        /\ UpdateDmc(r, t) = g[m] /\ UpdateDmc(s, t) = h[m]
    BY <1>1, <2>1, <2>2 DEF DmcCourse
  <2>. HIDE DEF m
  <2>. DEFINE S == {n \in 0..m : AlikeDmc(g[n], h[n]) /\ DmcOnly(h[n], s)}
  <2>4. 0 \in S
    BY <2>3, OnlyChains
  <2>5. ASSUME NEW n \in 0..m, n # 0, n - 1 \in S PROVE n \in S
    <3>1. n \in 1..m /\ n - 1 \in 0..m
      BY <2>3, <2>5
    <3>2. AlikeDmc(g[n - 1], h[n - 1]) /\ DmcOnly(h[n - 1], s) /\ Base(g[n - 1]) /\ Base(h[n - 1])
      BY <2>3, <2>5, <3>1 DEF Good
    <3>3. AlikeDmc(g[n], h[n]) /\ DmcOnly(h[n], h[n - 1])
      BY <2>3, <3>1, <3>2, DmcRoundAlike
    <3>. QED
      BY <3>2, <3>3, OnlyChains
  <2>6. m \in S
    <3>1. 0..m \subseteq S
      <4>. HIDE DEF S
      <4>. QED
        BY <2>3, <2>4, <2>5, UpToBound
    <3>. QED
      BY <2>3, <3>1
  <2>. QED
    BY <2>3, <2>6
<1>3. CASE ~(t >= s.dmc.next)
  BY <1>1, <1>3, OnlyChains DEF UpdateDmc
<1>. QED
  BY <1>2, <1>3

LEMMA OnTimeLater ==
    ASSUME NEW s, Good(s), NEW t \in Nat, NEW u \in Nat, t <= u, OnTime(s, t)
    PROVE  OnTime(s, u)
<1>1. s.pcmSynced \in Int /\ s.dmc.next \in Int /\ Slowest \in Nat
  BY DmcRanges, SlowestFacts DEF Good
<1>. QED
  BY <1>1 DEF OnTime

\* It may as well make one round first.
LEMMA UpdateDmcRound ==
    ASSUME NEW s, Good(s), NEW t \in Nat, t <= FrameMax, OnTime(s, t), t >= s.dmc.next
    PROVE  UpdateDmc(DmcDue(s), t) = UpdateDmc(s, t)
<1>. DEFINE f == DmcStep(t)
            q == DmcDue(s)
            x == UpdateDmc(s, t)
            y == UpdateDmc(q, t)
<1>n. s.dmc.next \in Int
  BY DmcRanges DEF Good
<1>1. Good(q) /\ OnTime(q, t) /\ q \in GoodUnits /\ s \in GoodUnits
  BY <1>n, DmcDueGood, DmcDueTimes, GoodIsIn
<1>2. f \in [GoodUnits -> GoodUnits] /\ f[s] = q
  BY <1>1, DmcStepType DEF DmcStep, DmcRound
<1>3. /\ Good(x) /\ x.dmc.next > t /\ x \in Orbit(f, s)
      /\ Good(y) /\ y.dmc.next > t /\ y \in Orbit(f, q)
  BY <1>1, UpdateDmcGood, UpdateDmcTimes, UpdateDmcReached
<1>. HIDE DEF x, y
<1>4. x.dmc.next \in Int /\ y.dmc.next \in Int /\ x \in GoodUnits /\ y \in GoodUnits
  BY <1>3, DmcRanges, GoodIsIn DEF Good
<1>5. f[x] = x /\ f[y] = y
  BY <1>3, <1>4 DEF DmcStep, DmcRound
<1>. HIDE DEF f
<1>6. y \in Orbit(f, s)
  <2>. DEFINE S == {z \in GoodUnits : z \in Orbit(f, s)}
  <2>1. s \in Orbit(f, s)
    BY <1>1, <1>2, OrbitStart
  <2>2. q \in Orbit(f, s)
    BY <1>2, <2>1, OrbitStep
  <2>3. \A z \in S : f[z] \in S
    BY <1>2, OrbitStep
  <2>4. S \in SUBSET GoodUnits /\ q \in S
    BY <1>1, <2>2
  <2>. HIDE DEF S
  <2>5. Orbit(f, q) \subseteq S
    BY <1>2, <2>3, <2>4, OrbitWithin
  <2>. QED
    BY <1>3, <2>5 DEF S
<1>7. x = y
  BY <1>1, <1>2, <1>3, <1>5, <1>6, OrbitRest
<1>. QED
  BY <1>7 DEF x, y

\* Twice is as good as once.
LEMMA UpdateDmcAgain ==
    ASSUME NEW s, Good(s), NEW t \in Nat, NEW u \in Nat, t <= u, u <= FrameMax, OnTime(s, t)
    PROVE  UpdateDmc(UpdateDmc(s, t), u) = UpdateDmc(s, u)
<1>. DEFINE f == DmcStep(t)
            S == {q \in GoodUnits : OnTime(q, t) /\ UpdateDmc(q, u) = UpdateDmc(s, u)}
<1>0. t <= FrameMax
  BY ApuAssumption
<1>1. S \in SUBSET GoodUnits /\ s \in S
  BY GoodIsIn
<1>2. ASSUME NEW q \in S PROVE f[q] \in S
  <2>1. q \in GoodUnits /\ Good(q) /\ OnTime(q, t) /\ UpdateDmc(q, u) = UpdateDmc(s, u) /\ q.dmc.next \in Int
    BY GoodIsIn, DmcRanges DEF Good
  <2>2. f[q] = DmcRound(q, t)
    BY <2>1 DEF DmcStep
  <2>3. CASE t >= q.dmc.next
    <3>1. OnTime(q, u) /\ u >= q.dmc.next
      BY <2>1, <2>3, OnTimeLater
    <3>2. UpdateDmc(DmcDue(q), u) = UpdateDmc(q, u)
      BY <2>1, <3>1, UpdateDmcRound
    <3>3. DmcDue(q) \in GoodUnits /\ OnTime(DmcDue(q), t)
      BY <1>0, <2>1, <2>3, DmcDueGood, DmcDueTimes, GoodIsIn
    <3>. QED
      BY <2>1, <2>2, <2>3, <3>2, <3>3 DEF DmcRound
  <2>4. CASE ~(t >= q.dmc.next)
    BY <2>2, <2>4 DEF DmcRound
  <2>. QED
    BY <2>3, <2>4
<1>3. f \in [GoodUnits -> GoodUnits]
  BY DmcStepType
<1>4. UpdateDmc(s, t) \in Orbit(f, s)
  BY UpdateDmcReached
<1>. HIDE DEF f, S
<1>5. Orbit(f, s) \subseteq S
  BY <1>1, <1>2, <1>3, OrbitWithin
<1>6. UpdateDmc(s, t) \in S
  BY <1>4, <1>5
<1>. QED
  BY <1>6 DEF S

-----------------------------------------------------------------------------
(* The registers of the frame counter's channels. *)

LEMMA SyncedAlike ==
    ASSUME NEW s, NEW a, NEW b, Base(a), Base(b), AlikeFc(a, b), FcOnly(b, s), NEW t \in Int
    PROVE  AlikeFc(SyncApu(a, t), SyncApu(b, t)) /\ FcOnly(SyncApu(b, t), s)
<1>1. AlikeFc(SyncApu(a, t), SyncApu(b, t)) /\ FcOnly(SyncApu(b, t), b)
  BY SyncApuAlike, SyncApuMakes
<1>. QED
  BY <1>1, OnlyChains

NextEnv(s, e, period, const, loop) ==
    [s.env EXCEPT ![e] = [s.env[e] EXCEPT !.period = period, !.const = const, !.loop = loop]]
NextVol(s, e, period, const) == [s.vol EXCEPT ![e] = IF const THEN period ELSE s.env[e].level]

LEMMA SetVolumeMakes ==
    ASSUME NEW s, Good(s), NEW t \in Int, NEW e \in Envs, NEW period \in EnvPeriods,
           NEW const \in BOOLEAN, NEW loop \in BOOLEAN
    PROVE  \E r : /\ SetVolume(s, t, e, period, const, loop) = SyncApu(r, t) /\ Base(r)
                  /\ Keeps(r, s, {"env", "vol"})
                  /\ r.env = NextEnv(s, e, period, const, loop) /\ r.vol = NextVol(s, e, period, const)
<1>. DEFINE env == [s.env[e] EXCEPT !.period = period, !.const = const, !.loop = loop]
            q == [s EXCEPT !.env[e] = env]
            vol == IF q.env[e].const THEN q.env[e].period ELSE q.env[e].level
            r == [q EXCEPT !.vol[e] = vol]
<1>u. s \in Units /\ Fields(s) /\ \A x \in Names : x \in DOMAIN s
  BY Unpack DEF Good
<1>r. SetVolume(s, t, e, period, const, loop) = SyncApu(r, t)
  BY DEF SetVolume, CacheVolume
<1>1. env \in EnvUnits /\ env.const = const /\ env.period = period /\ env.level = s.env[e].level
  <2>1. s.env[e] \in EnvUnits /\ period \in 0..EnvTop
    BY <1>u, ApuAssumption DEF Fields
  <2>. QED
    BY <2>1 DEF EnvUnits
<1>e. env = [s.env[e] EXCEPT !.period = period, !.const = const, !.loop = loop]
  OBVIOUS
<1>. HIDE DEF env
<1>2. q.env[e] = env /\ q.vol = s.vol
  BY <1>u DEF Names, Fields
<1>3. /\ vol \in 0..EnvTop /\ vol = (IF env.const THEN env.period ELSE env.level)
      /\ vol = IF const THEN period ELSE s.env[e].level
  BY <1>1, <1>2 DEF EnvUnits
<1>. HIDE DEF vol
<1>4. Like(r, s)
  BY DEF Like
<1>5. /\ Keeps(r, s, {"env", "vol"}) /\ r.env = [s.env EXCEPT ![e] = env]
      /\ r.vol = [s.vol EXCEPT ![e] = vol]
  BY <1>u DEF Keeps, Names
<1>. HIDE DEF r, q
<1>6. r \in Units
  <2>1. r.env \in [Envs -> EnvUnits] /\ r.vol \in [Envs -> 0..EnvTop]
    BY <1>1, <1>3, <1>5, <1>u DEF Fields
  <2>2. Fields(r)
    BY <1>u, <1>5, <2>1 DEF Fields, Keeps, Names
  <2>. QED
    BY <1>u, <1>4, <2>2, UnitIntro
<1>7. Cached(r)
  BY <1>3, <1>5, <1>u DEF Cached, Volume, Good, Base, Fields
<1>8. Base(r)
  BY <1>5, <1>6, <1>7 DEF Keeps, Names, Good, Base, LengthsAndStatus, TriangleSettled, DeltasAddUp,
     ResetsInPlace, SweepsFit
<1>9. r.env = NextEnv(s, e, period, const, loop) /\ r.vol = NextVol(s, e, period, const)
  BY <1>3, <1>5, <1>e DEF NextEnv, NextVol
<1>. QED
  BY <1>r, <1>5, <1>8, <1>9

LEMMA SetVolumeAlike ==
    ASSUME NEW r, NEW s, Good(r), Good(s), AlikeFc(r, s), NEW t \in Int, NEW e \in Envs,
           NEW period \in EnvPeriods, NEW const \in BOOLEAN, NEW loop \in BOOLEAN
    PROVE  /\ AlikeFc(SetVolume(r, t, e, period, const, loop), SetVolume(s, t, e, period, const, loop))
           /\ FcOnly(SetVolume(s, t, e, period, const, loop), s)
<1>1. PICK a : /\ SetVolume(r, t, e, period, const, loop) = SyncApu(a, t) /\ Base(a)
               /\ Keeps(a, r, {"env", "vol"}) /\ a.env = NextEnv(r, e, period, const, loop)
               /\ a.vol = NextVol(r, e, period, const)
  BY SetVolumeMakes
<1>2. PICK b : /\ SetVolume(s, t, e, period, const, loop) = SyncApu(b, t) /\ Base(b)
               /\ Keeps(b, s, {"env", "vol"}) /\ b.env = NextEnv(s, e, period, const, loop)
               /\ b.vol = NextVol(s, e, period, const)
  BY SetVolumeMakes
<1>3. a.env = b.env /\ a.vol = b.vol
  BY <1>1, <1>2 DEF AlikeFc, NextEnv, NextVol
<1>4. AlikeFc(a, b)
  BY <1>1, <1>2, <1>3 DEF AlikeFc, Keeps, Names, OnFc
<1>5. FcOnly(b, s)
  BY <1>2 DEF FcOnly, Keeps, Names, OnDmc, FcParts
<1>. QED
  BY <1>1, <1>2, <1>4, <1>5, SyncedAlike

NextSweep(s, p, period, enable, neg, mult) ==
    [s.sweep EXCEPT ![p] = [s.sweep[p] EXCEPT !.period = period, !.on = enable /\ mult < MultUnit,
                                              !.neg = neg, !.mult = mult, !.reload = TRUE]]

LEMMA SetSweepMakes ==
    ASSUME NEW s, Good(s), NEW t \in Int, NEW p \in Pulses, NEW period \in SweepPeriods,
           NEW enable \in BOOLEAN, NEW neg \in BOOLEAN, NEW mult \in Mults
    PROVE  \E r : /\ SetSweep(s, t, p, period, enable, neg, mult) = SyncApu(r, t) /\ Base(r)
                  /\ Keeps(r, s, {"sweep"})
                  /\ r.sweep = NextSweep(s, p, period, enable, neg, mult)
<1>. DEFINE on == enable /\ mult < MultUnit
            sweep == [s.sweep[p] EXCEPT !.period = period, !.on = on, !.neg = neg, !.mult = mult,
                                        !.reload = TRUE]
            r == [s EXCEPT !.sweep[p] = sweep]
<1>u. s \in Units /\ Fields(s) /\ \A x \in Names : x \in DOMAIN s
  BY Unpack DEF Good
<1>r. SetSweep(s, t, p, period, enable, neg, mult) = SyncApu(r, t)
  BY DEF SetSweep
<1>e. sweep = [s.sweep[p] EXCEPT !.period = period, !.on = enable /\ mult < MultUnit,
                                 !.neg = neg, !.mult = mult, !.reload = TRUE]
  OBVIOUS
<1>0. /\ MultUnit \in Nat /\ period \in Nat /\ mult \in Nat
      /\ mult = MultUnit \/ 2 * mult <= MultUnit
  BY RegistersAssumption
<1>1. mult \in 0..MultUnit /\ on \in BOOLEAN /\ (on => 2 * mult <= MultUnit)
  BY <1>0
<1>. HIDE DEF on
<1>2. sweep \in SweepUnits /\ sweep.on = on /\ sweep.mult = mult
  <2>1. s.sweep[p] \in SweepUnits
    BY <1>u DEF Fields
  <2>. QED
    BY <1>0, <1>1, <2>1 DEF SweepUnits
<1>. HIDE DEF sweep
<1>4. Like(r, s)
  BY DEF Like
<1>5. Keeps(r, s, {"sweep"}) /\ r.sweep = [s.sweep EXCEPT ![p] = sweep]
  BY <1>u DEF Keeps, Names
<1>. HIDE DEF r
<1>6. r \in Units
  <2>1. r.sweep \in [Pulses -> SweepUnits]
    BY <1>2, <1>5, <1>u DEF Fields
  <2>2. Fields(r)
    BY <1>u, <1>5, <2>1 DEF Fields, Keeps, Names
  <2>. QED
    BY <1>u, <1>4, <2>2, UnitIntro
<1>7. SweepsFit(r)
  BY <1>1, <1>2, <1>5, <1>u DEF SweepsFit, Good, Base, Fields
<1>8. Base(r)
  BY <1>5, <1>6, <1>7 DEF Keeps, Names, Good, Base, LengthsAndStatus, TriangleSettled, DeltasAddUp,
     ResetsInPlace, Cached, Volume
<1>9. r.sweep = NextSweep(s, p, period, enable, neg, mult)
  BY <1>5, <1>e DEF NextSweep
<1>. QED
  BY <1>r, <1>5, <1>8, <1>9

LEMMA SetSweepAlike ==
    ASSUME NEW r, NEW s, Good(r), Good(s), AlikeFc(r, s), NEW t \in Int, NEW p \in Pulses,
           NEW period \in SweepPeriods, NEW enable \in BOOLEAN, NEW neg \in BOOLEAN, NEW mult \in Mults
    PROVE  /\ AlikeFc(SetSweep(r, t, p, period, enable, neg, mult), SetSweep(s, t, p, period, enable, neg, mult))
           /\ FcOnly(SetSweep(s, t, p, period, enable, neg, mult), s)
<1>1. PICK a : /\ SetSweep(r, t, p, period, enable, neg, mult) = SyncApu(a, t) /\ Base(a)
               /\ Keeps(a, r, {"sweep"}) /\ a.sweep = NextSweep(r, p, period, enable, neg, mult)
  BY SetSweepMakes
<1>2. PICK b : /\ SetSweep(s, t, p, period, enable, neg, mult) = SyncApu(b, t) /\ Base(b)
               /\ Keeps(b, s, {"sweep"}) /\ b.sweep = NextSweep(s, p, period, enable, neg, mult)
  BY SetSweepMakes
<1>3. a.sweep = b.sweep
  BY <1>1, <1>2 DEF AlikeFc, NextSweep
<1>4. AlikeFc(a, b)
  BY <1>1, <1>2, <1>3 DEF AlikeFc, Keeps, Names, OnFc
<1>5. FcOnly(b, s)
  BY <1>2 DEF FcOnly, Keeps, Names, OnDmc, FcParts
<1>. QED
  BY <1>1, <1>2, <1>4, <1>5, SyncedAlike

\* A new period of a pulse.
LEMMA FreqAlike ==
    ASSUME NEW r, NEW s, Base(r), Base(s), AlikeFc(r, s), NEW p \in Pulses, NEW f \in 0..FreqTop
    PROVE  LET a == [r EXCEPT !.freq[p] = f]
               b == [s EXCEPT !.freq[p] = f]
           IN Base(a) /\ Base(b) /\ AlikeFc(a, b) /\ FcOnly(b, s)
<1>. DEFINE a == [r EXCEPT !.freq[p] = f]
            b == [s EXCEPT !.freq[p] = f]
<1>1. /\ Base(a) /\ Keeps(a, r, {"freq"})
      /\ Base(b) /\ Keeps(b, s, {"freq"})
  BY FreqBase
<1>2. a.freq = [r.freq EXCEPT ![p] = f] /\ b.freq = [s.freq EXCEPT ![p] = f]
  BY Unpack DEF Names
<1>. HIDE DEF a, b
<1>3. r.freq = s.freq
  BY DEF AlikeFc
<1>4. AlikeFc(a, b)
  BY <1>1, <1>2, <1>3 DEF AlikeFc, Keeps, Names, OnFc
<1>5. FcOnly(b, s)
  BY <1>1 DEF FcOnly, Keeps, Names, OnDmc, FcParts
<1>. QED
  BY <1>1, <1>4, <1>5 DEF a, b

LEMMA SetLowAlike ==
    ASSUME NEW r, NEW s, Good(r), Good(s), AlikeFc(r, s), NEW t \in Int, NEW p \in Pulses, NEW v \in LowBytes
    PROVE  AlikeFc(SetLow(r, t, p, v), SetLow(s, t, p, v)) /\ FcOnly(SetLow(s, t, p, v), s)
<1>. DEFINE f == (s.freq[p] \div FreqLow) * FreqLow + v
            a == [r EXCEPT !.freq[p] = f]
            b == [s EXCEPT !.freq[p] = f]
<1>1. f \in 0..FreqTop
  BY Unpack, PeriodBytes DEF Good, Fields
<1>2. r.freq = s.freq
  BY DEF AlikeFc
<1>3. SetLow(r, t, p, v) = SyncApu(a, t) /\ SetLow(s, t, p, v) = SyncApu(b, t)
  BY <1>2 DEF SetLow
<1>. HIDE DEF f
<1>4. Base(a) /\ Base(b) /\ AlikeFc(a, b) /\ FcOnly(b, s)
  BY <1>1, FreqAlike DEF Good
<1>. HIDE DEF a, b
<1>. QED
  BY <1>3, <1>4, SyncedAlike

LEMMA LoadMakes ==
    ASSUME NEW s, Base(s), NEW c \in Channels, NEW length
    PROVE  LET q == LoadLength(s, c, length)
           IN /\ Keeps(q, s, {"len", "on"}) /\ \A x \in Names : x \in DOMAIN q
              /\ q.len = IF c \in s.enable THEN [s.len EXCEPT ![c] = length] ELSE s.len
              /\ q.on = IF c \in s.enable THEN s.on \cup {c} ELSE s.on
<1>. DEFINE q == LoadLength(s, c, length)
<1>u. \A x \in Names : x \in DOMAIN s
  BY Unpack
<1>1. CASE c \in s.enable
  <2>1. q = [s EXCEPT !.len[c] = length, !.on = s.on \cup {c}]
    BY <1>1 DEF LoadLength
  <2>. HIDE DEF q
  <2>2. /\ Keeps(q, s, {"len", "on"}) /\ \A x \in Names : x \in DOMAIN q
        /\ q.len = [s.len EXCEPT ![c] = length] /\ q.on = s.on \cup {c}
    BY <1>u, <2>1 DEF Keeps, Names
  <2>. QED
    BY <1>1, <2>2 DEF q
<1>2. CASE c \notin s.enable
  <2>1. q = s
    BY <1>2 DEF LoadLength
  <2>. HIDE DEF q
  <2>. QED
    BY <1>u, <1>2, <2>1 DEF Keeps, Names, q
<1>. QED
  BY <1>1, <1>2

LEMMA LoadAlike ==
    ASSUME NEW r, NEW s, Base(r), Base(s), AlikeFc(r, s), NEW c \in Channels, NEW length
    PROVE  /\ AlikeFc(LoadLength(r, c, length), LoadLength(s, c, length))
           /\ FcOnly(LoadLength(s, c, length), s)
<1>. DEFINE a == LoadLength(r, c, length)
            b == LoadLength(s, c, length)
<1>0. r.enable = s.enable /\ r.len = s.len /\ OnFc(r) = OnFc(s)
  BY DEF AlikeFc
<1>a. /\ Keeps(a, r, {"len", "on"})
      /\ a.len = (IF c \in r.enable THEN [r.len EXCEPT ![c] = length] ELSE r.len)
      /\ a.on = (IF c \in r.enable THEN r.on \cup {c} ELSE r.on)
  BY LoadMakes
<1>b. /\ Keeps(b, s, {"len", "on"})
      /\ b.len = (IF c \in s.enable THEN [s.len EXCEPT ![c] = length] ELSE s.len)
      /\ b.on = (IF c \in s.enable THEN s.on \cup {c} ELSE s.on)
  BY LoadMakes
<1>. HIDE DEF a, b
<1>1. /\ Keeps(a, r, {"len", "on"}) /\ Keeps(b, s, {"len", "on"}) /\ a.len = b.len
      /\ a.on = (IF c \in s.enable THEN r.on \cup {c} ELSE r.on)
      /\ b.on = (IF c \in s.enable THEN s.on \cup {c} ELSE s.on)
  BY <1>0, <1>a, <1>b
<1>. HIDE DEF a, b
<1>2. OnFc(a) = OnFc(b)
  BY <1>0, <1>1 DEF OnFc
<1>3. OnDmc(b) = OnDmc(s)
  BY <1>1 DEF OnDmc, Channels, Envs, Pulses
<1>4. AlikeFc(a, b)
  BY <1>1, <1>2 DEF AlikeFc, Keeps, Names
<1>5. FcOnly(b, s)
  BY <1>1, <1>3 DEF FcOnly, Keeps, Names, FcParts
<1>. QED
  BY <1>4, <1>5 DEF a, b

LEMMA LoadEnvAlike ==
    ASSUME NEW r, NEW s, Base(r), Base(s), AlikeFc(r, s), NEW c \in Envs, NEW length \in Lengths
    PROVE  LET a == [LoadLength(r, c, length) EXCEPT !.env[c].reload = TRUE]
               b == [LoadLength(s, c, length) EXCEPT !.env[c].reload = TRUE]
           IN Base(a) /\ Base(b) /\ AlikeFc(a, b) /\ FcOnly(b, s)
<1>. DEFINE q(v) == LoadLength(v, c, length)
            w(v) == [v EXCEPT !.env[c].reload = TRUE]
<1>c. c \in Channels
  BY DEF Channels
<1>1. AlikeFc(q(r), q(s)) /\ FcOnly(q(s), s)
  BY <1>c, LoadAlike
<1>2. /\ \A x \in Names : x \in DOMAIN q(r)
      /\ \A x \in Names : x \in DOMAIN q(s)
  BY <1>c, LoadMakes
<1>b. Base(w(q(r))) /\ Base(w(q(s)))
  BY LoadLengthBase
<1>. HIDE DEF q
<1>3. /\ Keeps(w(q(r)), q(r), {"env"}) /\ w(q(r)).env = [q(r).env EXCEPT ![c].reload = TRUE]
      /\ Keeps(w(q(s)), q(s), {"env"}) /\ w(q(s)).env = [q(s).env EXCEPT ![c].reload = TRUE]
  BY <1>2 DEF Keeps, Names
<1>. HIDE DEF w
<1>4. w(q(r)).env = w(q(s)).env
  BY <1>1, <1>3 DEF AlikeFc
<1>5. AlikeFc(w(q(r)), w(q(s)))
  BY <1>1, <1>3, <1>4 DEF AlikeFc, Keeps, Names, OnFc
<1>6. FcOnly(w(q(s)), q(s))
  BY <1>3 DEF FcOnly, Keeps, Names, OnDmc, FcParts
<1>7. FcOnly(w(q(s)), s)
  BY <1>1, <1>6, OnlyChains
<1>. QED
  BY <1>b, <1>5, <1>7 DEF q, w

LEMMA SetNoiseLengthAlike ==
    ASSUME NEW r, NEW s, Good(r), Good(s), AlikeFc(r, s), NEW t \in Int, NEW length \in Lengths
    PROVE  AlikeFc(SetNoiseLength(r, t, length), SetNoiseLength(s, t, length)) /\ FcOnly(SetNoiseLength(s, t, length), s)
<1>. DEFINE a == [LoadLength(r, "noise", length) EXCEPT !.env["noise"].reload = TRUE]
            b == [LoadLength(s, "noise", length) EXCEPT !.env["noise"].reload = TRUE]
<1>1. Base(a) /\ Base(b) /\ AlikeFc(a, b) /\ FcOnly(b, s)
  BY LoadEnvAlike DEF Good, Envs
<1>2. SetNoiseLength(r, t, length) = SyncApu(a, t) /\ SetNoiseLength(s, t, length) = SyncApu(b, t)
  BY DEF SetNoiseLength
<1>. HIDE DEF a, b
<1>. QED
  BY <1>1, <1>2, SyncedAlike

-----------------------------------------------------------------------------

\* The reset of a phase that a write asks for.
Asked(v, p, n) == [v EXCEPT !.fifo.carry = @ \cup {p}, !.owed = @ \cup {<<p, n>>}]

LEMMA AskedAlike ==
    ASSUME NEW r, NEW s, Base(r), Base(s), AlikeFc(r, s), NEW p, NEW n
    PROVE  AlikeFc(Asked(r, p, n), Asked(s, p, n)) /\ FcOnly(Asked(s, p, n), s)
<1>. DEFINE a == Asked(r, p, n)
            b == Asked(s, p, n)
<1>1. ASSUME NEW v, Base(v)
      PROVE  /\ Keeps(Asked(v, p, n), v, {"fifo", "owed"}) /\ Asked(v, p, n).owed = v.owed \cup {<<p, n>>}
             /\ Asked(v, p, n).fifo = [v.fifo EXCEPT !.carry = @ \cup {p}]
  <2>1. \A x \in Names : x \in DOMAIN v
    BY <1>1, Unpack
  <2>. QED
    BY <2>1 DEF Asked, Keeps, Names
<1>2. /\ Keeps(a, r, {"fifo", "owed"}) /\ a.owed = r.owed \cup {<<p, n>>} /\ a.fifo = [r.fifo EXCEPT !.carry = @ \cup {p}]
      /\ Keeps(b, s, {"fifo", "owed"}) /\ b.owed = s.owed \cup {<<p, n>>} /\ b.fifo = [s.fifo EXCEPT !.carry = @ \cup {p}]
  BY <1>1
<1>. HIDE DEF a, b
<1>3. a.fifo = b.fifo /\ a.owed = b.owed
  BY <1>2 DEF AlikeFc
<1>4. AlikeFc(a, b)
  BY <1>2, <1>3 DEF AlikeFc, Keeps, Names, OnFc
<1>5. FcOnly(b, s)
  BY <1>2 DEF FcOnly, Keeps, Names, OnDmc, FcParts
<1>. QED
  BY <1>4, <1>5 DEF a, b

LEMMA SetHighAlike ==
    ASSUME NEW r, NEW s, Good(r), Good(s), AlikeFc(r, s), NEW t \in Int, NEW p \in Pulses,
           NEW v \in HighBits, NEW length \in Lengths
    PROVE  /\ AlikeFc(SetHigh(r, t, p, v, length), SetHigh(s, t, p, v, length))
           /\ FcOnly(SetHigh(s, t, p, v, length), s)
<1>. DEFINE f == (s.freq[p] % FreqLow) + v * FreqLow
            low(q) == [q EXCEPT !.freq[p] = f]
            begun(q) == [LoadLength(q, p, length) EXCEPT !.env[p].reload = TRUE]
            n == SampleTime(s, t)
<1>0. r.freq = s.freq /\ SampleTime(r, t) = n /\ p \in Envs
  BY DEF AlikeFc, SampleTime, Envs
<1>r. /\ SetHigh(r, t, p, v, length) = Asked(SyncApu(begun(low(r)), t), p, n)
      /\ SetHigh(s, t, p, v, length) = Asked(SyncApu(begun(low(s)), t), p, n)
  BY <1>0 DEF SetHigh, Asked
<1>1. f \in 0..FreqTop
  BY Unpack, PeriodBytes DEF Good, Fields
<1>. HIDE DEF f, n
<1>2. Base(low(r)) /\ Base(low(s)) /\ AlikeFc(low(r), low(s)) /\ FcOnly(low(s), s)
  BY <1>1, FreqAlike DEF Good
<1>. HIDE DEF low
<1>3. /\ Base(begun(low(r))) /\ Base(begun(low(s))) /\ AlikeFc(begun(low(r)), begun(low(s)))
      /\ FcOnly(begun(low(s)), low(s))
  BY <1>0, <1>2, LoadEnvAlike
<1>. HIDE DEF begun
<1>4. FcOnly(begun(low(s)), s)
  BY <1>2, <1>3, OnlyChains
<1>. DEFINE a == SyncApu(begun(low(r)), t)
            b == SyncApu(begun(low(s)), t)
<1>5. Base(a) /\ Base(b) /\ AlikeFc(a, b) /\ FcOnly(b, s)
  BY <1>3, <1>4, SyncedAlike, SyncApuGood DEF Good
<1>. HIDE DEF a, b
<1>6. AlikeFc(Asked(a, p, n), Asked(b, p, n)) /\ FcOnly(Asked(b, p, n), b)
  BY <1>5, AskedAlike
<1>7. FcOnly(Asked(b, p, n), s)
  BY <1>5, <1>6, OnlyChains
<1>. QED
  BY <1>r, <1>6, <1>7 DEF a, b

-----------------------------------------------------------------------------
(* The triangle's registers. *)

LEMMA TriOnlyAlike ==
    ASSUME NEW r, NEW s, AlikeFc(r, s), NEW a, NEW b, Keeps(a, r, {"tri"}), Keeps(b, s, {"tri"}),
           TriAlike(a.tri, b.tri)
    PROVE  AlikeFc(a, b) /\ FcOnly(b, s)
<1>1. AlikeFc(a, b)
  BY DEF AlikeFc, Keeps, Names, OnFc
<1>2. FcOnly(b, s)
  BY DEF FcOnly, Keeps, Names, OnDmc, FcParts
<1>. QED
  BY <1>1, <1>2

LEMMA SetLinearAlike ==
    ASSUME NEW r, NEW s, Base(r), Base(s), AlikeFc(r, s), NEW halt, NEW count
    PROVE  AlikeFc(SetLinear(r, halt, count), SetLinear(s, halt, count)) /\ FcOnly(SetLinear(s, halt, count), s)
<1>. DEFINE a == SetLinear(r, halt, count)
            b == SetLinear(s, halt, count)
            T(v) == [v EXCEPT !.halt = halt, !.count = count]
<1>1. ASSUME NEW v, Base(v)
      PROVE  Keeps(SetLinear(v, halt, count), v, {"tri"}) /\ SetLinear(v, halt, count).tri = T(v.tri)
  <2>1. \A x \in Names : x \in DOMAIN v
    BY <1>1, Unpack
  <2>. QED
    BY <2>1 DEF SetLinear, Keeps, Names
<1>2. Keeps(a, r, {"tri"}) /\ a.tri = T(r.tri) /\ Keeps(b, s, {"tri"}) /\ b.tri = T(s.tri)
  BY <1>1
<1>. HIDE DEF a, b
<1>3. TriAlike(T(r.tri), T(s.tri))
  <2>1. r.tri \in TriUnits /\ s.tri \in TriUnits /\ TriAlike(r.tri, s.tri)
    BY Unpack DEF Fields, AlikeFc
  <2>. QED
    BY <2>1 DEF TriAlike, TriUnits
<1>4. AlikeFc(a, b) /\ FcOnly(b, s)
  BY <1>2, <1>3, TriOnlyAlike
<1>. QED
  BY <1>4 DEF a, b

LEMMA SetTriLowAlike ==
    ASSUME NEW r, NEW s, Base(r), Base(s), AlikeFc(r, s), NEW v
    PROVE  AlikeFc(SetTriLow(r, v), SetTriLow(s, v)) /\ FcOnly(SetTriLow(s, v), s)
<1>. DEFINE a == SetTriLow(r, v)
            b == SetTriLow(s, v)
            period(q) == (q.period \div FreqLow) * FreqLow + v
            T(q) == [q EXCEPT !.period = period(q), !.delay = TriDelay]
<1>1. ASSUME NEW q, Base(q)
      PROVE  Keeps(SetTriLow(q, v), q, {"tri"}) /\ SetTriLow(q, v).tri = T(q.tri)
  <2>1. \A x \in Names : x \in DOMAIN q
    BY <1>1, Unpack
  <2>2. SetTriLow(q, v) = [q EXCEPT !.tri.period = period(q.tri), !.tri.delay = TriDelay]
    BY DEF SetTriLow
  <2>. HIDE DEF period
  <2>. QED
    BY <2>1, <2>2 DEF Keeps, Names
<1>2. Keeps(a, r, {"tri"}) /\ a.tri = T(r.tri) /\ Keeps(b, s, {"tri"}) /\ b.tri = T(s.tri)
  BY <1>1
<1>. HIDE DEF a, b
<1>3. TriAlike(T(r.tri), T(s.tri))
  <2>1. r.tri \in TriUnits /\ s.tri \in TriUnits /\ TriAlike(r.tri, s.tri)
    BY Unpack DEF Fields, AlikeFc
  <2>2. period(r.tri) = period(s.tri)
    BY <2>1 DEF TriAlike
  <2>. HIDE DEF period
  <2>. QED
    BY <2>1, <2>2 DEF TriAlike, TriUnits
<1>4. AlikeFc(a, b) /\ FcOnly(b, s)
  BY <1>2, <1>3, TriOnlyAlike
<1>. QED
  BY <1>4 DEF a, b

LEMMA SetTriHighAlike ==
    ASSUME NEW r, NEW s, Base(r), Base(s), AlikeFc(r, s), NEW v, NEW length
    PROVE  AlikeFc(SetTriHigh(r, v, length), SetTriHigh(s, v, length)) /\ FcOnly(SetTriHigh(s, v, length), s)
<1>. DEFINE a == SetTriHigh(r, v, length)
            b == SetTriHigh(s, v, length)
            q(u) == LoadLength(u, "tri", length)
            period(u) == (u.period % FreqLow) + v * FreqLow
            T(u) == [u EXCEPT !.period = period(u), !.delay = TriDelay, !.reload = TRUE]
<1>1. ASSUME NEW u, Base(u)
      PROVE  Keeps(SetTriHigh(u, v, length), q(u), {"tri"}) /\ SetTriHigh(u, v, length).tri = T(u.tri)
  <2>1. (\A x \in Names : x \in DOMAIN q(u)) /\ q(u).tri = u.tri
    <3>1. "tri" \in Channels
      BY DEF Channels
    <3>2. Keeps(q(u), u, {"len", "on"}) /\ \A x \in Names : x \in DOMAIN q(u)
      BY <1>1, <3>1, LoadMakes
    <3>. HIDE DEF q
    <3>. QED
      BY <3>2 DEF Keeps, Names
  <2>2. SetTriHigh(u, v, length) = [q(u) EXCEPT !.tri.period = period(q(u).tri), !.tri.delay = TriDelay, !.tri.reload = TRUE]
    BY DEF SetTriHigh
  <2>. HIDE DEF period, q
  <2>3. /\ Keeps(SetTriHigh(u, v, length), q(u), {"tri"})
        /\ SetTriHigh(u, v, length).tri = [q(u).tri EXCEPT !.period = period(q(u).tri), !.delay = TriDelay, !.reload = TRUE]
    BY <2>1, <2>2 DEF Keeps, Names
  <2>. QED
    BY <2>1, <2>3
<1>2. Keeps(a, q(r), {"tri"}) /\ a.tri = T(r.tri) /\ Keeps(b, q(s), {"tri"}) /\ b.tri = T(s.tri)
  BY <1>1
<1>3. TriAlike(T(r.tri), T(s.tri))
  <2>1. r.tri \in TriUnits /\ s.tri \in TriUnits /\ TriAlike(r.tri, s.tri)
    BY Unpack DEF Fields, AlikeFc
  <2>2. period(r.tri) = period(s.tri)
    BY <2>1 DEF TriAlike
  <2>. HIDE DEF period
  <2>. QED
    BY <2>1, <2>2 DEF TriAlike, TriUnits
<1>5. AlikeFc(q(r), q(s)) /\ FcOnly(q(s), s)
  BY LoadAlike DEF Channels
<1>. HIDE DEF a, b, q, T
<1>4. AlikeFc(a, b) /\ FcOnly(b, q(s))
  BY <1>2, <1>3, <1>5, TriOnlyAlike
<1>. QED
  BY <1>4, <1>5, OnlyChains DEF a, b

-----------------------------------------------------------------------------
(* $4017. *)

LEMMA FcPutAlike ==
    ASSUME NEW r, NEW s, Base(r), Base(s), AlikeFc(r, s), NEW f
    PROVE  LET a == [r EXCEPT !.fc = f]
               b == [s EXCEPT !.fc = f]
           IN AlikeFc(a, b) /\ FcOnly(b, s)
<1>. DEFINE a == [r EXCEPT !.fc = f]
            b == [s EXCEPT !.fc = f]
<1>1. /\ \A x \in Names : x \in DOMAIN r
      /\ \A x \in Names : x \in DOMAIN s
  BY Unpack
<1>2. Keeps(a, r, {"fc"}) /\ a.fc = f /\ Keeps(b, s, {"fc"}) /\ b.fc = f
  BY <1>1 DEF Keeps, Names
<1>. HIDE DEF a, b
<1>3. AlikeFc(a, b)
  BY <1>2 DEF AlikeFc, Keeps, Names, OnFc
<1>4. FcOnly(b, s)
  BY <1>2 DEF FcOnly, Keeps, Names, OnDmc, FcParts
<1>. QED
  BY <1>3, <1>4 DEF a, b

LEMMA FcPutBase ==
    ASSUME NEW s, Base(s), NEW f \in FcUnits
    PROVE  Base([s EXCEPT !.fc = f])
<1>. DEFINE w == [s EXCEPT !.fc = f]
<1>u. s \in Units /\ Fields(s) /\ \A x \in Names : x \in DOMAIN s
  BY Unpack
<1>1. Like(w, s)
  BY DEF Like
<1>2. Keeps(w, s, {"fc"}) /\ w.fc = f
  BY <1>u DEF Keeps, Names
<1>. HIDE DEF w
<1>3. w \in Units
  <2>1. Fields(w)
    BY <1>2, <1>u DEF Fields, Keeps, Names
  <2>. QED
    BY <1>u, <1>1, <2>1, UnitIntro
<1>4. /\ Keeps(w, s, {"on", "fc", "dmc", "offs", "synced", "pcmSynced", "failed", "slowed"})
      /\ w.on = s.on /\ w.dmc = s.dmc
  BY <1>2 DEF Keeps, Names
<1>5. Base(w)
  BY <1>3, <1>4, AsideGood
<1>. QED
  BY <1>5 DEF w

LEMMA SetSequencerAlike ==
    ASSUME NEW r, NEW s, Good(r), Good(s), AlikeFc(r, s), NEW t \in Int, NEW five \in BOOLEAN, NEW quiet \in BOOLEAN
    PROVE  /\ AlikeFc(SetSequencer(r, t, five, quiet), SetSequencer(s, t, five, quiet))
           /\ FcOnly(SetSequencer(s, t, five, quiet), s)
<1>. DEFINE f == [s.fc EXCEPT !.seq = 0]
            reset(q) == [q EXCEPT !.fc = f]
            clocked(q) == IF five THEN ClockSequencer(q, t) ELSE q
            fc(q) == [next |-> t + (FcPeriod + 1) \div 2, divider |-> (FcPeriod + 1) % 2,
                      seq |-> q.fc.seq, five |-> five, quiet |-> quiet]
            put(q) == [q EXCEPT !.fc = fc(q)]
<1>0. r.fc = s.fc
  BY DEF AlikeFc
<1>r. /\ SetSequencer(r, t, five, quiet) = put(clocked(reset(r)))
      /\ SetSequencer(s, t, five, quiet) = put(clocked(reset(s)))
  BY <1>0 DEF SetSequencer
<1>1. f \in FcUnits
  <2>1. s.fc \in FcUnits
    BY Unpack DEF Good, Fields
  <2>. QED
    BY <2>1 DEF FcUnits
<1>. HIDE DEF f
<1>2. Base(reset(r)) /\ Base(reset(s)) /\ AlikeFc(reset(r), reset(s)) /\ FcOnly(reset(s), s)
  BY <1>1, FcPutAlike, FcPutBase DEF Good
<1>. HIDE DEF reset
<1>3. /\ Base(clocked(reset(r))) /\ Base(clocked(reset(s))) /\ AlikeFc(clocked(reset(r)), clocked(reset(s)))
      /\ FcOnly(clocked(reset(s)), reset(s))
  BY <1>2, ClockSequencerAlike, ClockSequencerGood, OnlyChains DEF Good
<1>. DEFINE a == clocked(reset(r))
            b == clocked(reset(s))
<1>4. Base(a) /\ Base(b) /\ AlikeFc(a, b) /\ FcOnly(b, s)
  BY <1>2, <1>3, OnlyChains
<1>. HIDE DEF a, b
<1>5. a.fc = b.fc
  BY <1>4 DEF AlikeFc
<1>6. fc(a) = fc(b)
  BY <1>5
<1>. HIDE DEF fc
<1>7. AlikeFc(put(a), put(b)) /\ FcOnly(put(b), b)
  BY <1>4, <1>6, FcPutAlike
<1>8. FcOnly(put(b), s)
  BY <1>4, <1>7, OnlyChains
<1>. QED
  BY <1>r, <1>7, <1>8 DEF a, b

-----------------------------------------------------------------------------
(* The registers of the DMC: units that the frame counter's part sees alike,  *)
(* and the DMC's once it has caught up.                                       *)

Even(r, s) == AlikeFc(r, s) /\ AlikeDmc(r, s)
Level(r, s, t) == AlikeFc(r, s) /\ AlikeDmc(UpdateDmc(r, t), UpdateDmc(s, t))

LEMMA Evened ==
    ASSUME NEW r, NEW s, Good(r), Good(s), NEW t \in Int, Level(r, s, t)
    PROVE  /\ Good(UpdateDmc(r, t)) /\ Good(UpdateDmc(s, t)) /\ Base(UpdateDmc(r, t)) /\ Base(UpdateDmc(s, t))
           /\ Even(UpdateDmc(r, t), UpdateDmc(s, t))
<1>. DEFINE a == UpdateDmc(r, t)
            b == UpdateDmc(s, t)
<1>1. DmcOnly(a, r) /\ DmcOnly(b, s)
  BY AlikeDmcRelation, UpdateDmcAlike
<1>2. Good(a) /\ Good(b) /\ AlikeFc(r, s) /\ AlikeDmc(a, b)
  BY UpdateDmcGood DEF Level
<1>. HIDE DEF a, b
<1>3. AlikeFc(a, r) /\ AlikeFc(b, s)
  BY <1>1, DmcOnlyAlike
<1>4. AlikeFc(a, b)
  BY <1>2, <1>3, AlikeFcRelation
<1>. QED
  BY <1>2, <1>4 DEF a, b, Even, Good

LEMMA EvenLevel ==
    ASSUME NEW r, NEW s, Good(r), Good(s), NEW t \in Int, Even(r, s)
    PROVE  Level(r, s, t)
BY UpdateDmcAlike DEF Even, Level

\* What concerns the frame counter's part only.
LEMMA LevelFc ==
    ASSUME NEW r, NEW s, Good(r), Good(s), NEW t \in Int, Level(r, s, t), NEW a, NEW b, Good(a), Good(b),
           AlikeFc(a, b), FcOnly(a, r), FcOnly(b, s)
    PROVE  Level(a, b, t)
<1>1. AlikeDmc(a, r) /\ AlikeDmc(b, s)
  BY FcOnlyAlike
<1>2. AlikeDmc(UpdateDmc(a, t), UpdateDmc(r, t)) /\ AlikeDmc(UpdateDmc(b, t), UpdateDmc(s, t))
  BY <1>1, UpdateDmcAlike
<1>3. AlikeDmc(UpdateDmc(r, t), UpdateDmc(s, t))
  BY DEF Level
<1>4. AlikeDmc(UpdateDmc(a, t), UpdateDmc(b, t))
  BY <1>2, <1>3, AlikeDmcRelation
<1>. QED
  BY <1>4 DEF Level

LEMMA EvenIntro ==
    ASSUME NEW r, NEW s, NEW a, NEW b, Even(r, s),
           Keeps(a, r, {"dmc", "slowed", "on"}), Keeps(b, s, {"dmc", "slowed", "on"}),
           a.dmc = b.dmc, a.slowed = b.slowed, OnDmc(a) = OnDmc(b), OnFc(a) = OnFc(b)
    PROVE  Even(a, b)
<1>1. AlikeDmc(a, b)
  BY DEF Even, AlikeDmc, Keeps, Names
<1>2. AlikeFc(a, b)
  BY DEF Even, AlikeFc, Keeps, Names
<1>. QED
  BY <1>1, <1>2 DEF Even

LEMMA RecalcEndEven ==
    ASSUME NEW r, NEW s, Base(r), Base(s), Even(r, s)
    PROVE  Even(RecalcEnd(r), RecalcEnd(s))
<1>. DEFINE a == RecalcEnd(r)
            b == RecalcEnd(s)
<1>1. r \in Units /\ s \in Units /\ r.dmc = s.dmc /\ r.slowed = s.slowed
  BY Unpack DEF Even, AlikeDmc
<1>2. /\ a.dmc = b.dmc /\ a.slowed = b.slowed
      /\ Keeps(a, r, {"dmc", "slowed"}) /\ Keeps(b, s, {"dmc", "slowed"})
  BY <1>1, RecalcEndSame, RecalcEndUnits
<1>. HIDE DEF a, b
<1>3. /\ Keeps(a, r, {"dmc", "slowed", "on"}) /\ Keeps(b, s, {"dmc", "slowed", "on"})
      /\ OnDmc(a) = OnDmc(b) /\ OnFc(a) = OnFc(b)
  BY <1>2 DEF Keeps, Names, OnDmc, OnFc, Even, AlikeDmc, AlikeFc
<1>4. Even(a, b)
  BY <1>2, <1>3, EvenIntro
<1>. QED
  BY <1>4 DEF a, b

LEMMA SetRateEven ==
    ASSUME NEW r, NEW s, Good(r), Good(s), NEW t \in Int, Level(r, s, t),
           NEW period \in DmcPeriods, NEW loop \in BOOLEAN, NEW irq \in BOOLEAN
    PROVE  Even(SetRate(r, t, period, loop, irq), SetRate(s, t, period, loop, irq))
<1>. DEFINE c == UpdateDmc(r, t)
            d == UpdateDmc(s, t)
            a == Rated(c, period, loop, irq)
            b == Rated(d, period, loop, irq)
<1>r. SetRate(r, t, period, loop, irq) = RecalcEnd(a) /\ SetRate(s, t, period, loop, irq) = RecalcEnd(b)
  BY DEF SetRate, Rated
<1>1. Base(c) /\ Base(d) /\ Even(c, d)
  BY Evened
<1>. HIDE DEF c, d
<1>2. IsRated(a, c, period, loop, irq) /\ IsRated(b, d, period, loop, irq)
  BY <1>1, RatedMakes
<1>. HIDE DEF a, b
<1>4. c.dmc = d.dmc /\ c.slowed = d.slowed /\ OnDmc(c) = OnDmc(d) /\ OnFc(c) = OnFc(d)
  BY <1>1 DEF Even, AlikeDmc, AlikeFc
<1>5. a.dmc = b.dmc /\ a.slowed = b.slowed
  BY <1>2, <1>4 DEF IsRated
<1>6. OnDmc(a) = OnDmc(b)
  BY <1>2, <1>4 DEF IsRated, OnDmc
<1>7. OnFc(a) = OnFc(b)
  BY <1>2, <1>4 DEF IsRated, OnFc
<1>8. Base(a) /\ Base(b) /\ Even(a, b)
  BY <1>1, <1>2, <1>5, <1>6, <1>7, EvenIntro DEF IsRated
<1>. QED
  BY <1>r, <1>8, RecalcEndEven

LEMMA SyncPcmEven ==
    ASSUME NEW r, NEW s, Base(r), Base(s), Even(r, s), NEW t \in Int, NEW pcm \in 0..PcmTop
    PROVE  Even(SyncPcm(r, t, pcm), SyncPcm(s, t, pcm))
<1>. DEFINE a == SyncPcm(r, t, pcm)
            b == SyncPcm(s, t, pcm)
<1>1. AlikeDmc(a, b) /\ DmcOnly(b, s) /\ DmcOnly(a, r)
  BY SyncPcmAlike, AlikeDmcRelation DEF Even
<1>. HIDE DEF a, b
<1>2. AlikeFc(a, b)
  BY <1>1, DmcOnlyAlike, AlikeFcRelation DEF Even
<1>. QED
  BY <1>1, <1>2 DEF a, b, Even

LEMMA SyncApuEven ==
    ASSUME NEW r, NEW s, Base(r), Base(s), Even(r, s), NEW t \in Int
    PROVE  Even(SyncApu(r, t), SyncApu(s, t))
<1>. DEFINE a == SyncApu(r, t)
            b == SyncApu(s, t)
<1>1. AlikeFc(a, b) /\ FcOnly(b, s) /\ FcOnly(a, r)
  BY SyncApuAlike, SyncApuMakes DEF Even
<1>. HIDE DEF a, b
<1>2. AlikeDmc(a, b)
  BY <1>1, FcOnlyAlike, AlikeDmcRelation DEF Even
<1>. QED
  BY <1>1, <1>2 DEF a, b, Even

LEMMA SetLevelEven ==
    ASSUME NEW r, NEW s, Good(r), Good(s), NEW t \in Int, Level(r, s, t), NEW level \in PcmLevels
    PROVE  Even(SetLevel(r, t, level), SetLevel(s, t, level))
<1>1. level \in 0..PcmTop
  BY RegistersAssumption
<1>. QED
  BY <1>1, Evened, SyncPcmEven DEF SetLevel

LEMMA DmcSetEven ==
    ASSUME NEW r, NEW s, Base(r), Base(s), Even(r, s), NEW v
    PROVE  /\ Even([r EXCEPT !.dmc.start = v], [s EXCEPT !.dmc.start = v])
           /\ Even([r EXCEPT !.dmc.length = v], [s EXCEPT !.dmc.length = v])
<1>. DEFINE a(q) == [q EXCEPT !.dmc.start = v]
            b(q) == [q EXCEPT !.dmc.length = v]
<1>1. ASSUME NEW q, Base(q)
      PROVE  /\ Keeps(a(q), q, {"dmc"}) /\ a(q).dmc = [q.dmc EXCEPT !.start = v]
             /\ Keeps(b(q), q, {"dmc"}) /\ b(q).dmc = [q.dmc EXCEPT !.length = v]
  <2>1. \A x \in Names : x \in DOMAIN q
    BY <1>1, Unpack
  <2>. QED
    BY <2>1 DEF Keeps, Names
<1>2. ASSUME NEW c, NEW d, Keeps(c, r, {"dmc"}), Keeps(d, s, {"dmc"}), c.dmc = d.dmc
      PROVE  Even(c, d)
  <2>1. /\ Keeps(c, r, {"dmc", "slowed", "on"}) /\ Keeps(d, s, {"dmc", "slowed", "on"})
        /\ c.slowed = d.slowed /\ OnDmc(c) = OnDmc(d) /\ OnFc(c) = OnFc(d)
    BY <1>2 DEF Keeps, Names, OnDmc, OnFc, Even, AlikeDmc, AlikeFc
  <2>. QED
    BY <1>2, <2>1, EvenIntro
<1>3. r.dmc = s.dmc
  BY DEF Even, AlikeDmc
<1>4. /\ Keeps(a(r), r, {"dmc"}) /\ Keeps(a(s), s, {"dmc"}) /\ a(r).dmc = a(s).dmc
      /\ Keeps(b(r), r, {"dmc"}) /\ Keeps(b(s), s, {"dmc"}) /\ b(r).dmc = b(s).dmc
  BY <1>1, <1>3
<1>. HIDE DEF a, b
<1>5. Even(a(r), a(s)) /\ Even(b(r), b(s))
  BY <1>2, <1>4
<1>. QED
  BY <1>5 DEF a, b

LEMMA SetStartLengthEven ==
    ASSUME NEW r, NEW s, Good(r), Good(s), NEW t \in Int, Level(r, s, t), NEW v
    PROVE  /\ Even(SetStart(r, t, v), SetStart(s, t, v))
           /\ Even(SetLength(r, t, v), SetLength(s, t, v))
BY Evened, DmcSetEven DEF SetStart, SetLength

-----------------------------------------------------------------------------
(* $4015. *)

LEMMA EnabledEven ==
    ASSUME NEW r, NEW s, Base(r), Base(s), Even(r, s), NEW t \in Int, NEW enable, NEW a, NEW b,
           Enabled(a, r, t, enable), Enabled(b, s, t, enable)
    PROVE  Even(a, b)
<1>. DEFINE L(v) == [c \in Channels |-> IF c \in enable THEN v[c] ELSE 0]
            D(v, n) == IF "tri" \notin enable /\ n > 0 THEN TriDelay ELSE v
            T(v, n) == [v EXCEPT !.delay = D(v.delay, n)]
            O(on) == (IF "dmc" \in enable THEN on \cup {"dmc"} ELSE on) \cap ({"fcirq"} \cup enable)
<1>1. /\ r.dmc = s.dmc /\ r.slowed = s.slowed /\ OnDmc(r) = OnDmc(s) /\ OnFc(r) = OnFc(s)
      /\ r.len = s.len /\ TriAlike(r.tri, s.tri)
  BY DEF Even, AlikeDmc, AlikeFc
<1>2. DmcStart(r, t).dmc = DmcStart(s, t).dmc /\ DmcStart(r, t).slowed = DmcStart(s, t).slowed
  BY <1>1, Unpack, DmcStartSame
<1>3. a.dmc = b.dmc /\ a.slowed = b.slowed
  BY <1>1, <1>2 DEF Enabled
<1>4. /\ a.len = L(r.len) /\ b.len = L(s.len) /\ a.tri = T(r.tri, r.len["tri"]) /\ b.tri = T(s.tri, s.len["tri"])
      /\ a.on = O(r.on) /\ b.on = O(s.on) /\ a.enable = enable /\ b.enable = enable
  BY DEF Enabled
<1>5. TriAlike(a.tri, b.tri)
  <2>1. r.tri \in TriUnits /\ s.tri \in TriUnits
    BY Unpack DEF Fields
  <2>. DEFINE n == s.len["tri"]
              x == D(r.tri.delay, n)
              y == D(s.tri.delay, n)
  <2>2. x = y \/ (x <= 0 /\ y <= 0)
    BY <1>1 DEF TriAlike
  <2>3. a.tri = [r.tri EXCEPT !.delay = x] /\ b.tri = [s.tri EXCEPT !.delay = y]
    BY <1>1, <1>4
  <2>. HIDE DEF x, y, D
  <2>4. a.tri.delay = x /\ b.tri.delay = y
    BY <2>1, <2>3 DEF TriUnits
  <2>5. /\ \A f \in {"period", "halt", "count", "ll", "reload", "since"} : a.tri[f] = r.tri[f] /\ b.tri[f] = s.tri[f]
    BY <2>1, <2>3 DEF TriUnits
  <2>. QED
    BY <1>1, <2>2, <2>4, <2>5 DEF TriAlike
<1>6. OnDmc(a) = OnDmc(b) /\ OnFc(a) = OnFc(b)
  BY <1>1, <1>4 DEF OnDmc, OnFc, Channels, Envs, Pulses
<1>7. a.len = b.len
  BY <1>1, <1>4
<1>. HIDE DEF L, D, T, O
<1>8. /\ Keeps(a, r, {"len", "tri", "enable", "dmc", "slowed", "on"})
      /\ Keeps(b, s, {"len", "tri", "enable", "dmc", "slowed", "on"})
  BY DEF Enabled
<1>9. AlikeFc(a, b)
  BY <1>4, <1>5, <1>6, <1>7, <1>8 DEF Even, AlikeFc, Keeps, Names
<1>10. AlikeDmc(a, b)
  BY <1>3, <1>4, <1>6, <1>8 DEF Even, AlikeDmc, Keeps, Names
<1>. QED
  BY <1>9, <1>10 DEF Even

LEMMA SetEnableEven ==
    ASSUME NEW r, NEW s, Good(r), Good(s), NEW t \in Int, Level(r, s, t), NEW enable \in SUBSET (Channels \cup {"dmc"})
    PROVE  Even(SetEnable(r, t, enable), SetEnable(s, t, enable))
<1>1. PICK a : SetEnable(r, t, enable) = SyncApu(a, t) /\ Base(a) /\ Enabled(a, UpdateDmc(r, t), t, enable)
  BY SetEnableMakes
<1>2. PICK b : SetEnable(s, t, enable) = SyncApu(b, t) /\ Base(b) /\ Enabled(b, UpdateDmc(s, t), t, enable)
  BY SetEnableMakes
<1>3. Even(a, b)
  BY <1>1, <1>2, Evened, EnabledEven
<1>. QED
  BY <1>1, <1>2, <1>3, SyncApuEven

-----------------------------------------------------------------------------
(* apu_force_update(). *)

LEMMA ForceUpdateEven ==
    ASSUME NEW r, NEW s, Good(r), Good(s), NEW t \in Int, Level(CatchUp(r, t), CatchUp(s, t), t)
    PROVE  Even(ForceUpdate(r, t), ForceUpdate(s, t))
<1>. DEFINE c == UpdateDmc(CatchUp(r, t), t)
            d == UpdateDmc(CatchUp(s, t), t)
            a == SyncPcm(c, t, c.dmc.pcm)
            b == SyncPcm(d, t, c.dmc.pcm)
<1>1. Base(c) /\ Base(d) /\ Even(c, d)
  BY CatchUpGood, Evened
<1>r. ForceUpdate(r, t) = SyncApu(a, t) /\ ForceUpdate(s, t) = SyncApu(b, t)
  BY <1>1 DEF ForceUpdate, Even, AlikeDmc
<1>. HIDE DEF c, d
<1>2. c.dmc.pcm \in 0..PcmTop
  BY <1>1, Unpack DEF Fields, DmcUnits
<1>3. Base(a) /\ Base(b) /\ Even(a, b)
  BY <1>1, <1>2, SyncPcmGood, SyncPcmEven
<1>. HIDE DEF a, b
<1>. QED
  BY <1>r, <1>3, SyncApuEven

-----------------------------------------------------------------------------
(* $4015 is read: the frame interrupt is taken from the status. *)

NoIrq(s) == [s EXCEPT !.on = @ \ {"fcirq"}]

LEMMA NoIrqMakes ==
    ASSUME NEW s, Base(s)
    PROVE  /\ Base(NoIrq(s)) /\ (Good(s) => Good(NoIrq(s)))
           /\ Keeps(NoIrq(s), s, {"on"}) /\ NoIrq(s).on = s.on \ {"fcirq"}
           /\ FcOnly(NoIrq(s), s)
<1>. DEFINE on == s.on \ {"fcirq"}
            r == NoIrq(s)
<1>u. s \in Units /\ Fields(s) /\ \A x \in Names : x \in DOMAIN s
  BY Unpack
<1>2. /\ on \in SUBSET (Channels \cup {"dmc", "fcirq", "dmcirq"})
      /\ on \cap Channels = s.on \cap Channels /\ on \cap {"dmc", "dmcirq"} = s.on \cap {"dmc", "dmcirq"}
  BY <1>u DEF Fields, Channels, Envs, Pulses
<1>3. Like(r, s) /\ Keeps(r, s, {"on"}) /\ r.on = on
  BY <1>u DEF NoIrq, Like, Keeps, Names
<1>. HIDE DEF r, on
<1>4. r \in Units
  <2>1. Fields(r)
    BY <1>2, <1>3, <1>u DEF Fields, Keeps, Names
  <2>. QED
    BY <1>u, <1>3, <2>1, UnitIntro
<1>5. /\ Keeps(r, s, {"on", "fc", "dmc", "offs", "synced", "pcmSynced", "failed", "slowed"})
      /\ r.dmc = s.dmc
  BY <1>3 DEF Keeps, Names
<1>6. Base(r) /\ (Good(s) => Good(r))
  BY <1>2, <1>3, <1>4, <1>5, AsideGood
<1>7. FcOnly(r, s)
  BY <1>2, <1>3 DEF FcOnly, Keeps, Names, OnDmc, FcParts
<1>. QED
  BY <1>3, <1>6, <1>7 DEF r, on

LEMMA NoIrqAlike ==
    ASSUME NEW r, NEW s, Base(r), Base(s), AlikeFc(r, s)
    PROVE  AlikeFc(NoIrq(r), NoIrq(s))
<1>. DEFINE a == NoIrq(r)
            b == NoIrq(s)
<1>1. Keeps(a, r, {"on"}) /\ a.on = r.on \ {"fcirq"} /\ Keeps(b, s, {"on"}) /\ b.on = s.on \ {"fcirq"}
  BY NoIrqMakes
<1>. HIDE DEF a, b
<1>2. OnFc(a) = OnFc(b)
  BY <1>1 DEF AlikeFc, OnFc
<1>3. AlikeFc(a, b)
  BY <1>1, <1>2 DEF AlikeFc, Keeps, Names
<1>. QED
  BY <1>3 DEF a, b

LEMMA NoIrqSync ==
    ASSUME NEW s, Base(s), NEW t \in Int
    PROVE  AlikeFc(SyncApu(NoIrq(s), t), NoIrq(SyncApu(s, t)))
<1>. DEFINE w == NoIrq(s)
            a == SyncApu(w, t)
            q == SyncApu(s, t)
            b == NoIrq(q)
            n == SampleTime(s, t)
<1>1. Base(w) /\ Keeps(w, s, {"on"}) /\ w.on = s.on \ {"fcirq"}
  BY NoIrqMakes
<1>2. Base(q) /\ q.fifo = NextFifo(s, n) /\ q.owed = NextOwed(s, n)
      /\ Keeps(q, s, {"owed", "fifo", "synced", "failed"})
  BY SyncApuGood, SyncApuMakes DEF Good
<1>3. Keeps(b, q, {"on"}) /\ b.on = q.on \ {"fcirq"}
  BY <1>2, NoIrqMakes
<1>. HIDE DEF w
<1>4. SampleTime(w, t) = n
  BY <1>1 DEF SampleTime, Keeps, Names
<1>5. a.fifo = NextFifo(w, n) /\ a.owed = NextOwed(w, n) /\ Keeps(a, w, {"owed", "fifo", "synced", "failed"})
  BY <1>1, <1>4, SyncApuMakes
<1>6. Mix(w) = Mix(s)
  <2>1. \A c \in Channels : c \in w.on <=> c \in s.on
    BY <1>1 DEF Channels, Envs, Pulses
  <2>2. w.freq = s.freq /\ w.sweep = s.sweep /\ w.vol = s.vol /\ w.triFreq = s.triFreq
    BY <1>1 DEF Keeps, Names
  <2>3. \A p \in Pulses : Pulse(w, p) = Pulse(s, p)
    BY <2>1, <2>2 DEF Pulse, Channels, Envs
  <2>4. "noise" \in w.on <=> "noise" \in s.on
    BY <2>1 DEF Channels, Envs
  <2>. QED
    BY <2>2, <2>3, <2>4 DEF Mix
<1>. HIDE DEF n, a, b, q
<1>7. NextFifo(w, n) = NextFifo(s, n) /\ NextOwed(w, n) = NextOwed(s, n)
  BY <1>1, <1>6 DEF NextFifo, NextOwed, Keeps, Names
<1>8. a.on = s.on \ {"fcirq"} /\ b.on = s.on \ {"fcirq"}
  BY <1>1, <1>2, <1>3, <1>5 DEF Keeps, Names
<1>9. AlikeFc(a, b)
  BY <1>1, <1>2, <1>3, <1>5, <1>7, <1>8 DEF AlikeFc, TriAlike, Keeps, Names, OnFc
<1>. QED
  BY <1>9 DEF a, b, w, q

\* A change of the triangle's period does not look at it.
LEMMA NoIrqTriangle ==
    ASSUME NEW s, Base(s), NEW t \in Int
    PROVE  AlikeFc(UpdateTriangle(NoIrq(s), t), NoIrq(UpdateTriangle(s, t)))
<1>. DEFINE w == NoIrq(s)
            m == Remains(s.tri, t)
            a == UpdateTriangle(w, t)
            q == UpdateTriangle(s, t)
            b == NoIrq(q)
<1>1. Base(w) /\ Keeps(w, s, {"on"}) /\ w.on = s.on \ {"fcirq"}
  BY NoIrqMakes
<1>. HIDE DEF w
<1>2. w.tri = s.tri
  BY <1>1 DEF Keeps, Names
<1>3. Base(q)
  BY UpdateTriangleGood
<1>4. Keeps(b, q, {"on"}) /\ b.on = q.on \ {"fcirq"}
  BY <1>3, NoIrqMakes
<1>5. CASE s.tri.delay <= 0 \/ m > 0
  <2>1. Waits(q, s, t) /\ Waits(a, w, t)
    BY <1>1, <1>2, <1>5, TriangleWaits
  <2>. HIDE DEF a, b, q, m
  <2>2. a.tri = b.tri
    BY <1>2, <1>4, <2>1 DEF Waits, Keeps, Names
  <2>3. Keeps(a, w, {"tri", "failed"}) /\ Keeps(q, s, {"tri", "failed"})
    BY <2>1 DEF Waits
  <2>4. a.on = s.on \ {"fcirq"} /\ b.on = s.on \ {"fcirq"}
    BY <1>1, <1>4, <2>3 DEF Keeps, Names
  <2>5. AlikeFc(a, b)
    BY <1>1, <1>4, <2>2, <2>3, <2>4 DEF AlikeFc, TriAlike, Keeps, Names, OnFc
  <2>. QED
    BY <2>5 DEF a, b, w, q
<1>6. CASE ~(s.tri.delay <= 0) /\ ~(m > 0)
  <2>. DEFINE k == t + m
  <2>1. PICK d : Fires(d, s, t) /\ AlikeFc(q, SyncApu(d, k))
    BY <1>6, TriangleFires
  <2>2. PICK e : Fires(e, w, t) /\ AlikeFc(a, SyncApu(e, k))
    BY <1>1, <1>2, <1>6, TriangleFires
  <2>3. k \in Int
    BY Unpack DEF Fields, TriUnits, Remains
  <2>. HIDE DEF a, q, k, m
  <2>4. Base(d) /\ Base(e)
    BY <2>1, <2>2 DEF Fires
  <2>5. Base(NoIrq(d)) /\ Keeps(NoIrq(d), d, {"on"}) /\ NoIrq(d).on = d.on \ {"fcirq"}
    BY <2>4, NoIrqMakes
  <2>6. AlikeFc(e, NoIrq(d))
    <3>. DEFINE f == NoIrq(d)
    <3>1. Base(f) /\ Keeps(f, d, {"on"}) /\ f.on = d.on \ {"fcirq"}
      BY <2>5
    <3>. HIDE DEF f
    <3>2. /\ Keeps(d, s, {"tri", "triFreq", "failed"}) /\ Keeps(e, w, {"tri", "triFreq", "failed"})
          /\ d.tri = e.tri /\ d.triFreq = Heard(s) /\ e.triFreq = Heard(w)
      BY <1>2, <2>1, <2>2 DEF Fires
    <3>3. Heard(w) = Heard(s)
      BY <1>1, <1>2 DEF Heard
    <3>4. e.on = s.on \ {"fcirq"} /\ f.on = s.on \ {"fcirq"}
      BY <1>1, <3>1, <3>2 DEF Keeps, Names
    <3>5. e.tri = f.tri /\ e.triFreq = f.triFreq
      BY <3>1, <3>2, <3>3 DEF Keeps, Names
    <3>6. AlikeFc(e, f)
      BY <1>1, <3>1, <3>2, <3>4, <3>5 DEF AlikeFc, TriAlike, Keeps, Names, OnFc
    <3>. QED
      BY <3>6 DEF f
  <2>7. AlikeFc(SyncApu(e, k), SyncApu(NoIrq(d), k))
    BY <2>3, <2>4, <2>5, <2>6, SyncApuAlike
  <2>8. AlikeFc(SyncApu(NoIrq(d), k), NoIrq(SyncApu(d, k)))
    BY <2>3, <2>4, NoIrqSync
  <2>9. AlikeFc(NoIrq(SyncApu(d, k)), NoIrq(q))
    BY <1>3, <2>1, <2>3, <2>4, NoIrqAlike, AlikeFcRelation, SyncApuGood DEF Good
  <2>10. AlikeFc(a, NoIrq(q))
    BY <2>2, <2>7, <2>8, <2>9, AlikeFcRelation
  <2>. QED
    BY <2>10 DEF a, q, w
<1>. QED
  BY <1>5, <1>6

\* update_fc_body() leaves the next round ahead.
LEMMA UpdateFcAhead ==
    ASSUME NEW s, Good(s), NEW t \in Int
    PROVE  UpdateFc(s, t).fc.next > t /\ FcOnly(UpdateFc(s, t), s) /\ Good(UpdateFc(s, t))
<1>n. s.fc.next \in Int
  BY TimesAreNumbers DEF Good
<1>1. Good(UpdateFc(s, t)) /\ FcOnly(UpdateFc(s, t), s)
  BY UpdateFcGood, UpdateFcAlike, AlikeFcRelation
<1>2. CASE t >= s.fc.next
  <2>. DEFINE m == t - s.fc.next + 1
  <2>1. PICK g : FcCourse(g, s, t)
    BY <1>2, FcCourses
  <2>2. /\ m \in 0..m /\ \A n \in 0..m : Good(g[n])
        /\ g[m].fc.next > t /\ UpdateFc(s, t) = UpdateTriangle(g[m], t)
    BY <1>2, <1>n, <2>1 DEF FcCourse
  <2>. HIDE DEF m
  <2>3. UpdateTriangle(g[m], t).fc = g[m].fc
    BY <2>2, TriangleKeeps DEF Good
  <2>. QED
    BY <1>1, <2>2, <2>3
<1>3. CASE ~(t >= s.fc.next)
  <2>1. UpdateFc(s, t) = s
    BY <1>3 DEF UpdateFc
  <2>. QED
    BY <1>1, <1>3, <1>n, <2>1
<1>. QED
  BY <1>2, <1>3

LEMMA UpdateFcIdle ==
    ASSUME NEW s, NEW t \in Int, s.fc.next \in Int, s.fc.next > t
    PROVE  UpdateFc(s, t) = s
BY DEF UpdateFc

LEMMA AfterReadParts ==
    ASSUME NEW s, Good(s), NEW t \in Nat, t <= FrameMax, OnTime(s, t)
    PROVE  /\ AlikeFc(CatchUp(AfterRead(s, t), t), NoIrq(CatchUp(s, t)))
           /\ AlikeDmc(UpdateDmc(AfterRead(s, t), t), UpdateDmc(s, t))
<1>. DEFINE u == UpdateFc(s, t)
            x == BeforeRead(s, t)
            y == NoIrq(x)
<1>r. AfterRead(s, t) = y
  BY DEF AfterRead, NoIrq
<1>1. u.fc.next > t /\ FcOnly(u, s) /\ Good(u) /\ Base(u)
  BY UpdateFcAhead DEF Good
<1>c. CatchUp(s, t) = UpdateTriangle(u, t)
  BY DEF CatchUp
<1>x. x = u \/ x = UpdateDmc(u, t)
  BY DEF BeforeRead
<1>. HIDE DEF u, x
<1>2. AlikeDmc(u, s) /\ AlikeDmc(UpdateDmc(u, t), UpdateDmc(s, t))
  BY <1>1, FcOnlyAlike, UpdateDmcAlike
<1>3. DmcOnly(x, u) /\ Good(x) /\ (AlikeDmc(x, s) \/ AlikeDmc(x, UpdateDmc(s, t)))
  BY <1>x, <1>1, <1>2, UpdateDmcAlike, AlikeDmcRelation, OnlyChains, UpdateDmcGood
<1>4. Base(x) /\ AlikeFc(x, u)
  BY <1>3, DmcOnlyAlike DEF Good
<1>5. Good(y) /\ FcOnly(y, x) /\ AlikeDmc(y, x)
  BY <1>3, <1>4, NoIrqMakes, FcOnlyAlike
<1>6. AlikeFc(y, NoIrq(u))
  BY <1>1, <1>4, NoIrqAlike
<1>. HIDE DEF y
<1>7. AlikeDmc(UpdateDmc(y, t), UpdateDmc(s, t))
  <2>1. Good(UpdateDmc(s, t)) /\ UpdateDmc(UpdateDmc(s, t), t) = UpdateDmc(s, t)
    BY UpdateDmcGood, UpdateDmcAgain
  <2>2. CASE AlikeDmc(x, s)
    BY <1>5, <2>2, AlikeDmcRelation, UpdateDmcAlike
  <2>3. CASE AlikeDmc(x, UpdateDmc(s, t))
    <3>1. AlikeDmc(y, UpdateDmc(s, t))
      BY <1>5, <2>3, AlikeDmcRelation
    <3>2. AlikeDmc(UpdateDmc(y, t), UpdateDmc(UpdateDmc(s, t), t))
      BY <1>5, <2>1, <3>1, UpdateDmcAlike
    <3>. QED
      BY <2>1, <3>2
  <2>. QED
    BY <1>3, <2>2, <2>3
<1>8. AlikeFc(CatchUp(y, t), NoIrq(CatchUp(s, t)))
  <2>. DEFINE w == NoIrq(u)
  <2>1. Good(w) /\ Base(w) /\ w.fc = u.fc
    BY <1>1, NoIrqMakes DEF Keeps, Names
  <2>2. w.fc.next \in Int
    BY <2>1, TimesAreNumbers
  <2>. HIDE DEF w
  <2>3. CatchUp(w, t) = UpdateTriangle(w, t)
    BY <1>1, <2>1, <2>2, UpdateFcIdle DEF CatchUp
  <2>4. AlikeFc(CatchUp(y, t), CatchUp(w, t))
    BY <1>5, <1>6, <2>1, CatchUpAlike DEF w
  <2>5. AlikeFc(UpdateTriangle(w, t), NoIrq(UpdateTriangle(u, t)))
    BY <1>1, NoIrqTriangle DEF w
  <2>. QED
    BY <1>c, <2>3, <2>4, <2>5, AlikeFcRelation
<1>. QED
  BY <1>r, <1>7, <1>8

-----------------------------------------------------------------------------
(* apu_frame(). *)

LEMMA InspectedKeeps ==
    ASSUME NEW s0, Base(s0), NEW t \in Int
    PROVE  Base(Inspected(s0, t)) /\ Keeps(Inspected(s0, t), s0, {"failed"})
<1>. DEFINE s1 == Check(s0, s0.fc.next >= t, 992)
            s2 == Check(s1, s1.tri.since >= t, 995)
            s3 == Check(s2, s2.dmc.next # Never => s2.dmc.next >= t, 1000)
            s4 == Check(s3, s3.dmc.end # Never => s3.dmc.next # Never, 1006)
            s5 == Check(s4, s4.dmc.end # Never => s4.dmc.end >= t, 1007)
<1>r. Inspected(s0, t) = s5
  BY DEF Inspected
<1>1. Base(s1) /\ Keeps(s1, s0, {"failed"})
  BY CheckBase
<1>. HIDE DEF s1
<1>2. Base(s2) /\ Keeps(s2, s1, {"failed"})
  BY <1>1, CheckBase
<1>. HIDE DEF s2
<1>3. Base(s3) /\ Keeps(s3, s2, {"failed"})
  BY <1>2, CheckBase
<1>. HIDE DEF s3
<1>4. Base(s4) /\ Keeps(s4, s3, {"failed"})
  BY <1>3, CheckBase
<1>. HIDE DEF s4
<1>5. Base(s5) /\ Keeps(s5, s4, {"failed"})
  BY <1>4, CheckBase
<1>. HIDE DEF s5
<1>. QED
  BY <1>r, <1>1, <1>2, <1>3, <1>4, <1>5 DEF Keeps

Sooner(x, t) == IF x = Never THEN Never ELSE x - t

IsRebased(r, s, t) ==
    /\ Keeps(r, s, {"offs", "fc", "tri", "dmc", "synced", "pcmSynced", "failed"})
    /\ r.offs = (s.offs + t) % (SampleLen * Slots)
    /\ r.fc = [s.fc EXCEPT !.next = @ - t] /\ r.tri = [s.tri EXCEPT !.since = @ - t]
    /\ r.dmc = [s.dmc EXCEPT !.next = Sooner(@, t), !.end = Sooner(@, t)]

LEMMA RebaseMakes ==
    ASSUME NEW s0, Base(s0), NEW t \in Int
    PROVE  IsRebased(Rebase(s0, t), s0, t)
<1>. DEFINE s == Inspected(s0, t)
            r == Rebase(s0, t)
            offs == (s.offs + t) % (SampleLen * Slots)
            next == Sooner(s.dmc.next, t)
            end == Sooner(s.dmc.end, t)
<1>r. r = [s EXCEPT !.offs = offs, !.fc.next = @ - t, !.tri.since = @ - t,
                    !.dmc.next = next, !.dmc.end = end,
                    !.synced = @ - t, !.pcmSynced = @ - t]
  BY DEF Rebase, Sooner
<1>1. Base(s) /\ Keeps(s, s0, {"failed"})
  BY InspectedKeeps
<1>. HIDE DEF s, r
<1>u. \A x \in Names : x \in DOMAIN s
  BY <1>1, Unpack
<1>. HIDE DEF offs, next, end
<1>2. Keeps(r, s, {"offs", "fc", "tri", "dmc", "synced", "pcmSynced"})
  BY <1>r, <1>u DEF Keeps, Names
<1>3. /\ r.offs = offs /\ r.fc = [s.fc EXCEPT !.next = @ - t] /\ r.tri = [s.tri EXCEPT !.since = @ - t]
      /\ r.dmc = [s.dmc EXCEPT !.next = next, !.end = end]
  BY <1>r, <1>u DEF Names
<1>4. s.offs = s0.offs /\ s.fc = s0.fc /\ s.tri = s0.tri /\ s.dmc = s0.dmc
  BY <1>1 DEF Keeps, Names
<1>5. Keeps(r, s0, {"offs", "fc", "tri", "dmc", "synced", "pcmSynced", "failed"})
  BY <1>1, <1>2 DEF Keeps
<1>6. IsRebased(r, s0, t)
  BY <1>3, <1>4, <1>5 DEF IsRebased, offs, next, end
<1>. QED
  BY <1>6 DEF r

LEMMA RebaseEven ==
    ASSUME NEW r, NEW s, Base(r), Base(s), Even(r, s), NEW t \in Int
    PROVE  Even(Rebase(r, t), Rebase(s, t))
<1>. DEFINE a == Rebase(r, t)
            b == Rebase(s, t)
<1>1. IsRebased(a, r, t) /\ IsRebased(b, s, t)
  BY RebaseMakes
<1>. HIDE DEF a, b
<1>2. /\ r.dmc = s.dmc /\ r.fc = s.fc /\ r.offs = s.offs /\ TriAlike(r.tri, s.tri)
      /\ OnDmc(r) = OnDmc(s) /\ OnFc(r) = OnFc(s)
  BY DEF Even, AlikeDmc, AlikeFc
<1>3. a.dmc = b.dmc /\ a.fc = b.fc /\ a.offs = b.offs
  BY <1>1, <1>2 DEF IsRebased
<1>4. TriAlike(a.tri, b.tri)
  <2>1. r.tri \in TriUnits /\ s.tri \in TriUnits
    BY Unpack DEF Fields
  <2>2. a.tri = [r.tri EXCEPT !.since = @ - t] /\ b.tri = [s.tri EXCEPT !.since = @ - t]
    BY <1>1 DEF IsRebased
  <2>. QED
    BY <1>2, <2>1, <2>2 DEF TriAlike, TriUnits
<1>5. Keeps(a, r, {"offs", "fc", "tri", "dmc", "synced", "pcmSynced", "failed"})
  BY <1>1 DEF IsRebased
<1>6. Keeps(b, s, {"offs", "fc", "tri", "dmc", "synced", "pcmSynced", "failed"})
  BY <1>1 DEF IsRebased
<1>7. OnDmc(a) = OnDmc(b) /\ OnFc(a) = OnFc(b)
  BY <1>2, <1>5, <1>6 DEF Keeps, Names, OnDmc, OnFc
<1>8. AlikeFc(a, b)
  BY <1>3, <1>4, <1>5, <1>6, <1>7 DEF Even, AlikeFc, Keeps, Names
<1>9. AlikeDmc(a, b)
  BY <1>3, <1>5, <1>6, <1>7 DEF Even, AlikeDmc, Keeps, Names
<1>. QED
  BY <1>8, <1>9 DEF a, b, Even

-----------------------------------------------------------------------------
(* The lazy unit and the eager one. *)

Agree(r, s, t) ==
    /\ AlikeFc(CatchUp(r, t), CatchUp(s, t))
    /\ AlikeDmc(UpdateDmc(r, t), UpdateDmc(s, t))
Prompted(s, t) == s.fc.next > t /\ s.tri.since = t /\ s.dmc.next > t
Twinned(r, s, t) == Timely(r, t) /\ Timely(s, t) /\ Agree(r, s, t) /\ Prompted(s, t)

Twins == Running => Twinned(lazy, eager, now)

LEMMA LevelAgrees ==
    ASSUME NEW r, NEW s, Good(r), Good(s), NEW t \in Int, Level(r, s, t)
    PROVE  Agree(r, s, t)
BY CatchUpAlike DEF Level, Agree

LEMMA AgreeLevel ==
    ASSUME NEW r, NEW s, Good(r), Good(s), NEW t \in Int, Agree(r, s, t)
    PROVE  /\ Good(CatchUp(r, t)) /\ Good(CatchUp(s, t))
           /\ Level(CatchUp(r, t), CatchUp(s, t), t)
<1>. DEFINE a == CatchUp(r, t)
            b == CatchUp(s, t)
<1>1. Good(a) /\ Good(b) /\ FcOnly(a, r) /\ FcOnly(b, s)
  BY CatchUpGood, CatchUpAlike, AlikeFcRelation
<1>2. AlikeFc(a, b) /\ AlikeDmc(UpdateDmc(r, t), UpdateDmc(s, t))
  BY DEF Agree
<1>. HIDE DEF a, b
<1>3. AlikeDmc(a, r) /\ AlikeDmc(b, s)
  BY <1>1, FcOnlyAlike
<1>4. AlikeDmc(UpdateDmc(a, t), UpdateDmc(r, t)) /\ AlikeDmc(UpdateDmc(b, t), UpdateDmc(s, t))
  BY <1>1, <1>3, UpdateDmcAlike
<1>5. AlikeDmc(UpdateDmc(a, t), UpdateDmc(b, t))
  BY <1>2, <1>4, AlikeDmcRelation
<1>6. Level(a, b, t)
  BY <1>2, <1>5 DEF Level
<1>. QED
  BY <1>1, <1>6 DEF a, b

\* Keeping one of them up to date makes no difference.
LEMMA Prompting ==
    ASSUME NEW r, NEW s, Good(r), Good(s), NEW t \in Nat, NEW u \in Nat, t <= u, u <= FrameMax,
           Timely(r, t), Timely(s, t), Agree(r, s, t)
    PROVE  Twinned(r, Prompt(s, u), u)
<1>. DEFINE c == CatchUp(s, u)
            p == Prompt(s, u)
<1>1. t \in Int /\ u \in Int /\ Timely(r, u) /\ Timely(s, u) /\ OnTime(r, t) /\ OnTime(s, t)
  BY LaterTimely DEF Timely
<1>2. Good(c) /\ Caught(c, u) /\ FcOnly(c, s)
  BY <1>1, CatchUpGood, CatchUpTimely, CatchUpAlike, AlikeFcRelation
<1>3. p = UpdateDmc(c, u)
  BY DEF Prompt
<1>. HIDE DEF c
<1>4. Good(p) /\ Caught(p, u) /\ p.dmc.next > u /\ DmcOnly(p, c)
  <2>1. Good(p) /\ Caught(p, u) /\ p.dmc.next > u
    BY <1>2, <1>3, UpdatedCaught
  <2>2. DmcOnly(p, c)
    BY <1>1, <1>2, <1>3, UpdateDmcAlike, AlikeDmcRelation
  <2>. QED
    BY <2>1, <2>2
<1>5. Timely(p, u) /\ Prompted(p, u)
  BY <1>1, <1>4, CaughtTimely DEF Caught, Prompted
<1>. HIDE DEF p
<1>6. AlikeFc(CatchUp(r, u), CatchUp(p, u))
  <2>1. AlikeFc(CatchUp(CatchUp(r, t), u), CatchUp(r, u)) /\ AlikeFc(CatchUp(CatchUp(s, t), u), CatchUp(s, u))
    BY <1>1, CatchUpAgain
  <2>2. AlikeFc(CatchUp(CatchUp(r, t), u), CatchUp(CatchUp(s, t), u))
    BY <1>1, CatchUpGood, CatchUpAlike DEF Agree
  <2>3. AlikeFc(CatchUp(r, u), c)
    BY <2>1, <2>2, AlikeFcRelation DEF c
  <2>4. AlikeFc(CatchUp(p, u), CatchUp(c, u))
    BY <1>1, <1>2, <1>4, DmcOnlyAlike, CatchUpAlike
  <2>5. AlikeFc(CatchUp(c, u), c)
    <3>1. u <= u
      BY <1>1
    <3>. QED
      BY <1>1, <3>1, CatchUpAgain DEF c
  <2>. QED
    BY <2>3, <2>4, <2>5, AlikeFcRelation
<1>7. AlikeDmc(UpdateDmc(r, u), UpdateDmc(p, u))
  <2>. DEFINE x == UpdateDmc(r, t)
              y == UpdateDmc(s, t)
  <2>1. UpdateDmc(x, u) = UpdateDmc(r, u) /\ UpdateDmc(y, u) = UpdateDmc(s, u)
    BY <1>1, UpdateDmcAgain
  <2>2. Good(x) /\ Good(y) /\ AlikeDmc(x, y)
    BY <1>1, UpdateDmcGood DEF Agree
  <2>. HIDE DEF x, y
  <2>3. AlikeDmc(UpdateDmc(r, u), UpdateDmc(s, u))
    BY <1>1, <2>1, <2>2, UpdateDmcAlike
  <2>4. AlikeDmc(UpdateDmc(c, u), UpdateDmc(s, u))
    BY <1>1, <1>2, FcOnlyAlike, UpdateDmcAlike
  <2>5. UpdateDmc(p, u) = p
    <3>1. p.dmc.next \in Int
      BY <1>4, DmcRanges DEF Good
    <3>. QED
      BY <1>1, <1>4, <3>1 DEF UpdateDmc
  <2>. QED
    BY <1>3, <2>3, <2>4, <2>5, AlikeDmcRelation
<1>8. Twinned(r, p, u)
  BY <1>1, <1>5, <1>6, <1>7 DEF Twinned, Agree
<1>. QED
  BY <1>8 DEF p

LEMMA PowerOnTwins == Twinned(PowerOn, Prompt(PowerOn, 0), 0)
<1>1. 0 \in Nat /\ 0 <= 0 /\ 0 <= FrameMax /\ 0 \in Int
  BY ApuAssumption
<1>2. Agree(PowerOn, PowerOn, 0)
  BY AlikeFcRelation, AlikeDmcRelation DEF Agree
<1>. QED
  BY <1>1, <1>2, PowerOnGood, PowerOnTimes, Prompting

\* A call on both of them that concerns the frame counter's part only.
LEMMA TwinFc ==
    ASSUME NEW r, NEW s, Good(r), Good(s), NEW t \in Int, Level(r, s, t), NEW a, NEW b, Good(a), Good(b),
           AlikeFc(a, b), FcOnly(a, r), FcOnly(b, s)
    PROVE  Agree(a, b, t)
<1>1. Level(a, b, t)
  BY LevelFc
<1>. QED
  BY <1>1, LevelAgrees

LEMMA TwinEven ==
    ASSUME NEW a, NEW b, Good(a), Good(b), NEW t \in Int, Even(a, b)
    PROVE  Agree(a, b, t)
BY EvenLevel, LevelAgrees

LEMMA TwinRead ==
    ASSUME NEW r, NEW s, Good(r), Good(s), NEW t \in Nat, t <= FrameMax, Timely(r, t), Timely(s, t),
           Agree(r, s, t)
    PROVE  Agree(AfterRead(r, t), AfterRead(s, t), t)
<1>. DEFINE a == AfterRead(r, t)
            b == AfterRead(s, t)
            c == CatchUp(r, t)
            d == CatchUp(s, t)
<1>1. OnTime(r, t) /\ OnTime(s, t) /\ t \in Int
  BY DEF Timely
<1>2. /\ AlikeFc(CatchUp(a, t), NoIrq(c)) /\ AlikeDmc(UpdateDmc(a, t), UpdateDmc(r, t))
      /\ AlikeFc(CatchUp(b, t), NoIrq(d)) /\ AlikeDmc(UpdateDmc(b, t), UpdateDmc(s, t))
  BY <1>1, AfterReadParts
<1>3. AlikeFc(c, d) /\ AlikeDmc(UpdateDmc(r, t), UpdateDmc(s, t)) /\ Base(c) /\ Base(d)
  BY <1>1, CatchUpGood DEF Agree, Good
<1>. HIDE DEF a, b, c, d
<1>4. AlikeFc(NoIrq(c), NoIrq(d))
  BY <1>3, NoIrqAlike
<1>5. AlikeFc(CatchUp(a, t), CatchUp(b, t)) /\ AlikeDmc(UpdateDmc(a, t), UpdateDmc(b, t))
  BY <1>2, <1>3, <1>4, AlikeFcRelation, AlikeDmcRelation
<1>. QED
  BY <1>5 DEF Agree, a, b

LEMMA TwinForce ==
    ASSUME NEW r, NEW s, Good(r), Good(s), NEW t \in Nat, t <= FrameMax, Timely(r, t), Timely(s, t),
           Agree(r, s, t)
    PROVE  /\ Good(ForceUpdate(r, t)) /\ Good(ForceUpdate(s, t))
           /\ Forced(ForceUpdate(r, t), t) /\ Forced(ForceUpdate(s, t), t)
           /\ Even(ForceUpdate(r, t), ForceUpdate(s, t))
<1>1. t \in Int /\ Level(CatchUp(r, t), CatchUp(s, t), t)
  BY AgreeLevel
<1>2. Good(ForceUpdate(r, t)) /\ Good(ForceUpdate(s, t))
  BY <1>1, ForceUpdateGood
<1>3. Forced(ForceUpdate(r, t), t) /\ Forced(ForceUpdate(s, t), t)
  BY ForceUpdateTimes
<1>4. Even(ForceUpdate(r, t), ForceUpdate(s, t))
  BY <1>1, ForceUpdateEven
<1>. QED
  BY <1>2, <1>3, <1>4

LEMMA ForcedTwins ==
    ASSUME NEW a, NEW b, Good(a), Good(b), NEW t \in Int, Forced(a, t), Forced(b, t), Even(a, b)
    PROVE  Twinned(a, b, t)
<1>1. Timely(a, t) /\ Timely(b, t) /\ Prompted(b, t)
  BY CaughtTimely DEF Forced, Caught, Prompted
<1>2. Agree(a, b, t)
  BY TwinEven
<1>. QED
  BY <1>1, <1>2 DEF Twinned

LEMMA RebasedTwins ==
    ASSUME NEW a, NEW b, Good(a), Good(b), NEW t \in Nat, t <= FrameMax, Forced(a, t), Forced(b, t), Even(a, b),
           Rebase(a, t).failed = {}, Rebase(b, t).failed = {}
    PROVE  Twinned(Rebase(a, t), Rebase(b, t), 0)
<1>. DEFINE r == Rebase(a, t)
            s == Rebase(b, t)
<1>0. 0 \in Int /\ t \in Int
  OBVIOUS
<1>1. Timely(r, 0) /\ Timely(s, 0)
  BY RebaseTimes DEF Punctual
<1>2. Good(r) /\ Good(s) /\ Even(r, s)
  BY <1>0, RebaseGood, RebaseEven DEF Good
<1>3. IsRebased(s, b, t) /\ Base(b)
  BY <1>0, RebaseMakes DEF Good
<1>. HIDE DEF r, s
<1>4. Agree(r, s, 0)
  BY <1>0, <1>2, TwinEven
<1>5. Prompted(s, 0)
  <2>1. s.fc = [b.fc EXCEPT !.next = @ - t] /\ s.tri = [b.tri EXCEPT !.since = @ - t]
        /\ s.dmc = [b.dmc EXCEPT !.next = Sooner(@, t), !.end = Sooner(@, t)]
    BY <1>3 DEF IsRebased
  <2>2. b.fc \in FcUnits /\ b.tri \in TriUnits /\ b.dmc \in DmcUnits
    BY <1>3, Unpack DEF Fields
  <2>3. s.fc.next = b.fc.next - t /\ s.tri.since = b.tri.since - t /\ s.dmc.next = Sooner(b.dmc.next, t)
    BY <2>1, <2>2 DEF FcUnits, TriUnits, DmcUnits
  <2>4. b.fc.next > t /\ b.tri.since = t /\ b.dmc.next > t
    BY DEF Forced, Caught
  <2>5. b.fc.next \in Int /\ b.tri.since \in Int /\ b.dmc.next \in Int
    BY <2>2 DEF FcUnits, TriUnits, DmcUnits
  <2>6. Never > 0 /\ Never \in Int
    BY NeverIsTime, ApuAssumption
  <2>7. Sooner(b.dmc.next, t) > 0
    BY <2>4, <2>5, <2>6 DEF Sooner
  <2>. QED
    BY <2>3, <2>4, <2>5, <2>7 DEF Prompted
<1>6. Twinned(r, s, 0)
  BY <1>1, <1>4, <1>5 DEF Twinned
<1>. QED
  BY <1>6 DEF r, s

LEMMA InitTwins == Init => Twins
BY PowerOnTwins DEF Init, Twins

\* What a step of one cycle leaves of the two units, given what the call makes of them.
LEMMA CycleTwins ==
    ASSUME NEW a, NEW b, IInv, now < FrameMax, Good(a), Good(b), Timely(a, now), Timely(b, now), Agree(a, b, now),
           now' = now + 1, lazy' = a, eager' = Prompt(b, now + 1)
    PROVE  Twins'
<1>1. now \in Nat /\ now + 1 \in Nat /\ now <= now + 1 /\ now + 1 <= FrameMax
  BY ApuAssumption DEF IInv, Counted
<1>2. Twinned(a, Prompt(b, now + 1), now + 1)
  BY <1>1, Prompting
<1>. QED
  BY <1>2 DEF Twins

LEMMA NextTwins == IInv /\ Twins /\ [Next]_vars => Twins'
<1>. SUFFICES ASSUME IInv, Twins, [Next]_vars PROVE Twins'
  OBVIOUS
<1>0. FrameMin \in Nat /\ FrameMax \in Nat
  BY ApuAssumption
<1>1. now \in Nat /\ now <= FrameMax /\ now \in Int /\ Good(lazy) /\ Good(eager)
  BY <1>0 DEF IInv, Counted
<1>. DEFINE c == CatchUp(lazy, now)
            d == CatchUp(eager, now)
<1>2. ASSUME Running
      PROVE  /\ Timely(lazy, now) /\ Timely(eager, now) /\ Agree(lazy, eager, now)
             /\ Good(c) /\ Good(d) /\ Caught(c, now) /\ Caught(d, now) /\ Level(c, d, now)
             /\ AlikeFc(c, d) /\ AlikeFc(c, c)
  <2>1. Timely(lazy, now) /\ Timely(eager, now) /\ Agree(lazy, eager, now)
    BY <1>2 DEF Twins, Twinned
  <2>2. Good(c) /\ Good(d) /\ Level(c, d, now)
    BY <1>1, <2>1, AgreeLevel
  <2>3. Caught(c, now) /\ Caught(d, now)
    BY <1>1, <2>1, CatchUpTimely
  <2>. QED
    BY <2>1, <2>2, <2>3, AlikeFcRelation DEF Level
<1>. HIDE DEF c, d
<1>3. ASSUME NEW a, NEW b, now < FrameMax, Good(a), Good(b), Caught(a, now), Caught(b, now), Agree(a, b, now),
             now' = now + 1, lazy' = a, eager' = Prompt(b, now + 1)
      PROVE  Twins'
  <2>1. Timely(a, now) /\ Timely(b, now)
    BY <1>1, <1>3, CaughtTimely
  <2>. QED
    BY <1>3, <2>1, CycleTwins
<1>4. ASSUME NEW a, NEW b, Running, now < FrameMax, Good(a), Good(b), Caught(a, now), Caught(b, now),
             AlikeFc(a, b), FcOnly(a, c), FcOnly(b, d),
             now' = now + 1, lazy' = a, eager' = Prompt(b, now + 1)
      PROVE  Twins'
  <2>1. Agree(a, b, now)
    BY <1>1, <1>2, <1>4, TwinFc
  <2>. QED
    BY <1>3, <1>4, <2>1
<1>5. ASSUME NEW a, NEW b, now < FrameMax, Good(a), Good(b), Caught(a, now), Caught(b, now), Even(a, b),
             now' = now + 1, lazy' = a, eager' = Prompt(b, now + 1)
      PROVE  Twins'
  <2>1. Agree(a, b, now)
    BY <1>1, <1>5, TwinEven
  <2>. QED
    BY <1>3, <1>5, <2>1
<1>6. CASE Idle
  <2>1. Running /\ now < FrameMax /\ now' = now + 1 /\ lazy' = lazy /\ eager' = Prompt(eager, now + 1)
    BY <1>6 DEF Idle, Cycle
  <2>. QED
    BY <1>1, <1>2, <2>1, CycleTwins
<1>7. CASE ReadStatus
  <2>. DEFINE a == AfterRead(lazy, now)
              b == AfterRead(eager, now)
  <2>1. Running /\ now < FrameMax /\ now' = now + 1 /\ lazy' = a /\ eager' = Prompt(b, now + 1)
    BY <1>7 DEF ReadStatus, Access, Cycle
  <2>2. Good(a) /\ Good(b) /\ Timely(a, now) /\ Timely(b, now)
    BY <1>1, <1>2, <2>1, AfterReadGood, AfterReadTimes
  <2>3. Agree(a, b, now)
    BY <1>1, <1>2, <2>1, TwinRead
  <2>. HIDE DEF a, b
  <2>. QED
    BY <2>1, <2>2, <2>3, CycleTwins
<1>8. CASE WriteVolume
  <2>1. PICK e \in Envs \cap song.uses, period \in EnvPeriods, const \in BOOLEAN, loop \in BOOLEAN :
            /\ Running /\ now < FrameMax /\ now' = now + 1
            /\ lazy' = SetVolume(c, now, e, period, const, loop)
            /\ eager' = Prompt(SetVolume(d, now, e, period, const, loop), now + 1)
    BY <1>8 DEF WriteVolume, Write, Access, Cycle, c, d
  <2>. DEFINE a == SetVolume(c, now, e, period, const, loop)
              b == SetVolume(d, now, e, period, const, loop)
  <2>2. Good(c) /\ Good(d) /\ Caught(c, now) /\ Caught(d, now) /\ Level(c, d, now) /\ AlikeFc(c, d) /\ AlikeFc(c, c)
    BY <1>2, <2>1
  <2>3. Good(a) /\ Good(b)
    BY <1>1, <2>2, SetVolumeGood
  <2>4. Caught(a, now) /\ Caught(b, now)
    BY <1>1, <2>2, SetVolumeTimes
  <2>5. AlikeFc(a, b) /\ FcOnly(a, c) /\ FcOnly(b, d)
    BY <1>1, <2>2, SetVolumeAlike DEF Good
  <2>. HIDE DEF a, b
  <2>. QED
    BY <1>4, <2>1, <2>3, <2>4, <2>5 DEF a, b
<1>9. CASE WriteSweep
  <2>1. PICK p \in Pulses \cap song.uses, period \in SweepPeriods, enable \in BOOLEAN, neg \in BOOLEAN, mult \in Mults :
            /\ Running /\ now < FrameMax /\ now' = now + 1
            /\ lazy' = SetSweep(c, now, p, period, enable, neg, mult)
            /\ eager' = Prompt(SetSweep(d, now, p, period, enable, neg, mult), now + 1)
    BY <1>9 DEF WriteSweep, Write, Access, Cycle, c, d
  <2>. DEFINE a == SetSweep(c, now, p, period, enable, neg, mult)
              b == SetSweep(d, now, p, period, enable, neg, mult)
  <2>2. Good(c) /\ Good(d) /\ Caught(c, now) /\ Caught(d, now) /\ Level(c, d, now) /\ AlikeFc(c, d) /\ AlikeFc(c, c)
    BY <1>2, <2>1
  <2>3. Good(a) /\ Good(b)
    BY <1>1, <2>2, SetSweepGood
  <2>4. Caught(a, now) /\ Caught(b, now)
    BY <1>1, <2>2, SetSweepTimes
  <2>5. AlikeFc(a, b) /\ FcOnly(a, c) /\ FcOnly(b, d)
    BY <1>1, <2>2, SetSweepAlike DEF Good
  <2>. HIDE DEF a, b
  <2>. QED
    BY <1>4, <2>1, <2>3, <2>4, <2>5 DEF a, b
<1>10. CASE WriteLow
  <2>1. PICK p \in Pulses \cap song.uses, v \in LowBytes :
            /\ Running /\ now < FrameMax /\ now' = now + 1
            /\ lazy' = SetLow(c, now, p, v)
            /\ eager' = Prompt(SetLow(d, now, p, v), now + 1)
    BY <1>10 DEF WriteLow, Write, Access, Cycle, c, d
  <2>. DEFINE a == SetLow(c, now, p, v)
              b == SetLow(d, now, p, v)
  <2>2. Good(c) /\ Good(d) /\ Caught(c, now) /\ Caught(d, now) /\ Level(c, d, now) /\ AlikeFc(c, d) /\ AlikeFc(c, c)
    BY <1>2, <2>1
  <2>3. Good(a) /\ Good(b)
    BY <1>1, <2>2, SetLowGood
  <2>4. Caught(a, now) /\ Caught(b, now)
    BY <1>1, <2>2, SetLowTimes
  <2>5. AlikeFc(a, b) /\ FcOnly(a, c) /\ FcOnly(b, d)
    BY <1>1, <2>2, SetLowAlike DEF Good
  <2>. HIDE DEF a, b
  <2>. QED
    BY <1>4, <2>1, <2>3, <2>4, <2>5 DEF a, b
<1>11. CASE WriteHigh
  <2>1. PICK p \in Pulses \cap song.uses, v \in HighBits, length \in Lengths :
            /\ Running /\ now < FrameMax /\ now' = now + 1
            /\ lazy' = SetHigh(c, now, p, v, length)
            /\ eager' = Prompt(SetHigh(d, now, p, v, length), now + 1)
    BY <1>11 DEF WriteHigh, Write, Access, Cycle, c, d
  <2>. DEFINE a == SetHigh(c, now, p, v, length)
              b == SetHigh(d, now, p, v, length)
  <2>2. Good(c) /\ Good(d) /\ Caught(c, now) /\ Caught(d, now) /\ Level(c, d, now) /\ AlikeFc(c, d) /\ AlikeFc(c, c)
    BY <1>2, <2>1
  <2>3. Good(a) /\ Good(b)
    BY <1>1, <2>2, SetHighGood
  <2>4. Caught(a, now) /\ Caught(b, now)
    BY <1>1, <2>2, SetHighTimes
  <2>5. AlikeFc(a, b) /\ FcOnly(a, c) /\ FcOnly(b, d)
    BY <1>1, <2>2, SetHighAlike DEF Good
  <2>. HIDE DEF a, b
  <2>. QED
    BY <1>4, <2>1, <2>3, <2>4, <2>5 DEF a, b
<1>12. CASE WriteLinear
  <2>1. PICK halt \in BOOLEAN, count \in LinearCounts :
            /\ Running /\ now < FrameMax /\ now' = now + 1
            /\ lazy' = SetLinear(c, halt, count)
            /\ eager' = Prompt(SetLinear(d, halt, count), now + 1)
    BY <1>12 DEF WriteLinear, Write, Access, Cycle, c, d
  <2>. DEFINE a == SetLinear(c, halt, count)
              b == SetLinear(d, halt, count)
  <2>2. Good(c) /\ Good(d) /\ Caught(c, now) /\ Caught(d, now) /\ Level(c, d, now) /\ AlikeFc(c, d) /\ AlikeFc(c, c)
    BY <1>2, <2>1
  <2>3. Good(a) /\ Good(b)
    BY <1>1, <2>2, SetLinearGood
  <2>4. Caught(a, now) /\ Caught(b, now)
    BY <1>1, <2>2, TriTimes
  <2>5. AlikeFc(a, b) /\ FcOnly(a, c) /\ FcOnly(b, d)
    BY <1>1, <2>2, SetLinearAlike DEF Good
  <2>. HIDE DEF a, b
  <2>. QED
    BY <1>4, <2>1, <2>3, <2>4, <2>5 DEF a, b
<1>13. CASE WriteTriLow
  <2>1. PICK v \in LowBytes :
            /\ Running /\ now < FrameMax /\ now' = now + 1
            /\ lazy' = SetTriLow(c, v)
            /\ eager' = Prompt(SetTriLow(d, v), now + 1)
    BY <1>13 DEF WriteTriLow, Write, Access, Cycle, c, d
  <2>. DEFINE a == SetTriLow(c, v)
              b == SetTriLow(d, v)
  <2>2. Good(c) /\ Good(d) /\ Caught(c, now) /\ Caught(d, now) /\ Level(c, d, now) /\ AlikeFc(c, d) /\ AlikeFc(c, c)
    BY <1>2, <2>1
  <2>3. Good(a) /\ Good(b)
    BY <1>1, <2>2, SetTriLowGood
  <2>4. Caught(a, now) /\ Caught(b, now)
    BY <1>1, <2>2, TriTimes
  <2>5. AlikeFc(a, b) /\ FcOnly(a, c) /\ FcOnly(b, d)
    BY <1>1, <2>2, SetTriLowAlike DEF Good
  <2>. HIDE DEF a, b
  <2>. QED
    BY <1>4, <2>1, <2>3, <2>4, <2>5 DEF a, b
<1>14. CASE WriteTriHigh
  <2>1. PICK v \in HighBits, length \in Lengths :
            /\ Running /\ now < FrameMax /\ now' = now + 1
            /\ lazy' = SetTriHigh(c, v, length)
            /\ eager' = Prompt(SetTriHigh(d, v, length), now + 1)
    BY <1>14 DEF WriteTriHigh, Write, Access, Cycle, c, d
  <2>. DEFINE a == SetTriHigh(c, v, length)
              b == SetTriHigh(d, v, length)
  <2>2. Good(c) /\ Good(d) /\ Caught(c, now) /\ Caught(d, now) /\ Level(c, d, now) /\ AlikeFc(c, d) /\ AlikeFc(c, c)
    BY <1>2, <2>1
  <2>3. Good(a) /\ Good(b)
    BY <1>1, <2>2, SetTriHighGood
  <2>4. Caught(a, now) /\ Caught(b, now)
    BY <1>1, <2>2, TriTimes
  <2>5. AlikeFc(a, b) /\ FcOnly(a, c) /\ FcOnly(b, d)
    BY <1>1, <2>2, SetTriHighAlike DEF Good
  <2>. HIDE DEF a, b
  <2>. QED
    BY <1>4, <2>1, <2>3, <2>4, <2>5 DEF a, b
<1>15. CASE WriteNoiseLength
  <2>1. PICK length \in Lengths :
            /\ Running /\ now < FrameMax /\ now' = now + 1
            /\ lazy' = SetNoiseLength(c, now, length)
            /\ eager' = Prompt(SetNoiseLength(d, now, length), now + 1)
    BY <1>15 DEF WriteNoiseLength, Write, Access, Cycle, c, d
  <2>. DEFINE a == SetNoiseLength(c, now, length)
              b == SetNoiseLength(d, now, length)
  <2>2. Good(c) /\ Good(d) /\ Caught(c, now) /\ Caught(d, now) /\ Level(c, d, now) /\ AlikeFc(c, d) /\ AlikeFc(c, c)
    BY <1>2, <2>1
  <2>3. Good(a) /\ Good(b)
    BY <1>1, <2>2, SetNoiseLengthGood
  <2>4. Caught(a, now) /\ Caught(b, now)
    BY <1>1, <2>2, SetNoiseLengthTimes
  <2>5. AlikeFc(a, b) /\ FcOnly(a, c) /\ FcOnly(b, d)
    BY <1>1, <2>2, SetNoiseLengthAlike DEF Good
  <2>. HIDE DEF a, b
  <2>. QED
    BY <1>4, <2>1, <2>3, <2>4, <2>5 DEF a, b
<1>16. CASE WriteRate
  <2>1. PICK period \in DmcPeriods, loop \in BOOLEAN, irq \in BOOLEAN :
            /\ Running /\ now < FrameMax /\ now' = now + 1
            /\ lazy' = SetRate(c, now, period, loop, irq)
            /\ eager' = Prompt(SetRate(d, now, period, loop, irq), now + 1)
    BY <1>16 DEF WriteRate, Write, Access, Cycle, c, d
  <2>. DEFINE a == SetRate(c, now, period, loop, irq)
              b == SetRate(d, now, period, loop, irq)
  <2>2. Good(c) /\ Good(d) /\ Caught(c, now) /\ Caught(d, now) /\ Level(c, d, now) /\ AlikeFc(c, d) /\ AlikeFc(c, c)
    BY <1>2, <2>1
  <2>3. Good(a) /\ Good(b)
    BY <1>1, <2>2, SetRateGood
  <2>4. Caught(a, now) /\ Caught(b, now)
    BY <1>1, <2>2, SetRateTimes
  <2>5. Even(a, b)
    BY <1>1, <2>2, SetRateEven
  <2>. HIDE DEF a, b
  <2>. QED
    BY <1>5, <2>1, <2>3, <2>4, <2>5 DEF a, b
<1>17. CASE WriteLevel
  <2>1. PICK level \in PcmLevels :
            /\ Running /\ now < FrameMax /\ now' = now + 1
            /\ lazy' = SetLevel(c, now, level)
            /\ eager' = Prompt(SetLevel(d, now, level), now + 1)
    BY <1>17 DEF WriteLevel, Write, Access, Cycle, c, d
  <2>. DEFINE a == SetLevel(c, now, level)
              b == SetLevel(d, now, level)
  <2>2. Good(c) /\ Good(d) /\ Caught(c, now) /\ Caught(d, now) /\ Level(c, d, now) /\ AlikeFc(c, d) /\ AlikeFc(c, c)
    BY <1>2, <2>1
  <2>3. Good(a) /\ Good(b)
    BY <1>1, <2>2, SetLevelGood
  <2>4. Caught(a, now) /\ Caught(b, now)
    BY <1>1, <2>2, SetLevelTimes
  <2>5. Even(a, b)
    BY <1>1, <2>2, SetLevelEven
  <2>. HIDE DEF a, b
  <2>. QED
    BY <1>5, <2>1, <2>3, <2>4, <2>5 DEF a, b
<1>18. CASE WriteStart
  <2>1. PICK start \in DmcStarts :
            /\ Running /\ now < FrameMax /\ now' = now + 1
            /\ lazy' = SetStart(c, now, start)
            /\ eager' = Prompt(SetStart(d, now, start), now + 1)
    BY <1>18 DEF WriteStart, Write, Access, Cycle, c, d
  <2>. DEFINE a == SetStart(c, now, start)
              b == SetStart(d, now, start)
  <2>2. Good(c) /\ Good(d) /\ Caught(c, now) /\ Caught(d, now) /\ Level(c, d, now) /\ AlikeFc(c, d) /\ AlikeFc(c, c)
    BY <1>2, <2>1
  <2>3. Good(a) /\ Good(b)
    BY <1>1, <2>2, SetStartLengthGood
  <2>4. Caught(a, now) /\ Caught(b, now)
    BY <1>1, <2>2, SetStartLengthTimes
  <2>5. Even(a, b)
    BY <1>1, <2>2, SetStartLengthEven
  <2>. HIDE DEF a, b
  <2>. QED
    BY <1>5, <2>1, <2>3, <2>4, <2>5 DEF a, b
<1>19. CASE WriteLength
  <2>1. PICK length \in DmcLengths :
            /\ Running /\ now < FrameMax /\ now' = now + 1
            /\ lazy' = SetLength(c, now, length)
            /\ eager' = Prompt(SetLength(d, now, length), now + 1)
    BY <1>19 DEF WriteLength, Write, Access, Cycle, c, d
  <2>. DEFINE a == SetLength(c, now, length)
              b == SetLength(d, now, length)
  <2>2. Good(c) /\ Good(d) /\ Caught(c, now) /\ Caught(d, now) /\ Level(c, d, now) /\ AlikeFc(c, d) /\ AlikeFc(c, c)
    BY <1>2, <2>1
  <2>3. Good(a) /\ Good(b)
    BY <1>1, <2>2, SetStartLengthGood
  <2>4. Caught(a, now) /\ Caught(b, now)
    BY <1>1, <2>2, SetStartLengthTimes
  <2>5. Even(a, b)
    BY <1>1, <2>2, SetStartLengthEven
  <2>. HIDE DEF a, b
  <2>. QED
    BY <1>5, <2>1, <2>3, <2>4, <2>5 DEF a, b
<1>20. CASE WriteEnable
  <2>1. PICK enable \in SUBSET ((Channels \cup {"dmc"}) \cap song.uses) :
            /\ Running /\ now < FrameMax /\ now' = now + 1
            /\ lazy' = SetEnable(c, now, enable)
            /\ eager' = Prompt(SetEnable(d, now, enable), now + 1)
    BY <1>20 DEF WriteEnable, Write, Access, Cycle, c, d
  <2>. DEFINE a == SetEnable(c, now, enable)
              b == SetEnable(d, now, enable)
  <2>2. Good(c) /\ Good(d) /\ Caught(c, now) /\ Caught(d, now) /\ Level(c, d, now) /\ AlikeFc(c, d) /\ AlikeFc(c, c)
    BY <1>2, <2>1
  <2>e. enable \in SUBSET (Channels \cup {"dmc"})
    OBVIOUS
  <2>3. Good(a) /\ Good(b)
    BY <1>1, <2>e, <2>2, SetEnableGood
  <2>4. Caught(a, now) /\ Caught(b, now)
    BY <1>1, <2>e, <2>2, SetEnableTimes
  <2>5. Even(a, b)
    BY <1>1, <2>e, <2>2, SetEnableEven
  <2>. HIDE DEF a, b
  <2>. QED
    BY <1>5, <2>1, <2>3, <2>4, <2>5 DEF a, b
<1>21. CASE WriteSequencer
  <2>1. PICK five \in BOOLEAN, quiet \in BOOLEAN :
            /\ Running /\ now < FrameMax /\ now' = now + 1
            /\ lazy' = SetSequencer(c, now, five, quiet)
            /\ eager' = Prompt(SetSequencer(d, now, five, quiet), now + 1)
    BY <1>21 DEF WriteSequencer, Write, Access, Cycle, c, d
  <2>. DEFINE a == SetSequencer(c, now, five, quiet)
              b == SetSequencer(d, now, five, quiet)
  <2>2. Good(c) /\ Good(d) /\ Caught(c, now) /\ Caught(d, now) /\ Level(c, d, now) /\ AlikeFc(c, d) /\ AlikeFc(c, c)
    BY <1>2, <2>1
  <2>3. Good(a) /\ Good(b)
    BY <1>1, <2>2, SetSequencerGood
  <2>4. Caught(a, now) /\ Caught(b, now)
    BY <1>1, <2>2, SetSequencerTimes
  <2>5. AlikeFc(a, b) /\ FcOnly(a, c) /\ FcOnly(b, d)
    BY <1>1, <2>2, SetSequencerAlike DEF Good
  <2>. HIDE DEF a, b
  <2>. QED
    BY <1>4, <2>1, <2>3, <2>4, <2>5 DEF a, b
<1>22. CASE HalfFrame
  <2>. DEFINE a == ForceUpdate(lazy, now)
              b == ForceUpdate(eager, now)
  <2>1. Running /\ now' = now /\ lazy' = a /\ eager' = b
    BY <1>22 DEF HalfFrame
  <2>2. Good(a) /\ Good(b) /\ Forced(a, now) /\ Forced(b, now) /\ Even(a, b)
    BY <1>1, <1>2, <2>1, TwinForce
  <2>. HIDE DEF a, b
  <2>3. Twinned(a, b, now)
    BY <1>1, <2>2, ForcedTwins
  <2>. QED
    BY <2>1, <2>3 DEF Twins
<1>23. CASE EndFrame
  <2>. DEFINE a == ForceUpdate(lazy, now)
              b == ForceUpdate(eager, now)
  <2>1. Running /\ now' = 0 /\ lazy' = Rebase(a, now) /\ eager' = Rebase(b, now)
    BY <1>23 DEF EndFrame
  <2>2. Good(a) /\ Good(b) /\ Forced(a, now) /\ Forced(b, now) /\ Even(a, b)
    BY <1>1, <1>2, <2>1, TwinForce
  <2>. HIDE DEF a, b
  <2>3. Rebase(a, now).failed = {} /\ Rebase(b, now).failed = {} => Twinned(Rebase(a, now), Rebase(b, now), 0)
    BY <1>1, <2>2, RebasedTwins
  <2>. QED
    BY <2>1, <2>3 DEF Twins, Running
<1>24. CASE NewSong
  BY <1>24, PowerOnTwins DEF NewSong, Twins
<1>25. CASE UNCHANGED vars
  BY <1>25 DEF vars, Twins, Running
<1>. QED
  BY <1>6, <1>7, <1>8, <1>9, <1>10, <1>11, <1>12, <1>13, <1>14, <1>15, <1>16, <1>17, <1>18, <1>19, <1>20, <1>21, <1>22, <1>23, <1>24, <1>25 DEF Next

LEMMA SettledMakes ==
    ASSUME NEW s, Base(s)
    PROVE  /\ Settled(s) = [x \in Names |-> Settled(s)[x]]
           /\ Keeps(Settled(s), s, {"tri"})
           /\ Settled(s).tri = [s.tri EXCEPT !.delay = IF @ > 0 THEN @ ELSE 0]
<1>. DEFINE q == Settled(s)
            m == IF s.tri.delay > 0 THEN s.tri.delay ELSE 0
<1>1. /\ s \in Units /\ \A x \in Names : x \in DOMAIN s
      /\ s.tri = [x \in DOMAIN s.tri |-> s.tri[x]] /\ "delay" \in DOMAIN s.tri
  BY Unpack DEF Fields, TriUnits
<1>2. DOMAIN s = Names
  BY <1>1 DEF Units, Names
<1>3. q = [s EXCEPT !.tri.delay = m]
  BY DEF Settled
<1>. HIDE DEF q, m
<1>4. Keeps(q, s, {"tri"}) /\ q.tri = [s.tri EXCEPT !.delay = m]
  BY <1>1, <1>3 DEF Keeps, Names
<1>5. q = [x \in Names |-> q[x]]
  BY <1>2, <1>3
<1>. QED
  BY <1>4, <1>5 DEF q, m

LEMMA SettledTri ==
    ASSUME NEW v \in TriUnits, NEW w \in TriUnits, TriAlike(v, w)
    PROVE  [v EXCEPT !.delay = IF @ > 0 THEN @ ELSE 0] = [w EXCEPT !.delay = IF @ > 0 THEN @ ELSE 0]
<1>1. v.delay \in Int /\ w.delay \in Int
  BY DEF TriUnits
<1>2. (IF v.delay > 0 THEN v.delay ELSE 0) = (IF w.delay > 0 THEN w.delay ELSE 0)
  BY <1>1 DEF TriAlike
<1>. QED
  BY <1>2 DEF TriAlike, TriUnits

LEMMA SettledSame ==
    ASSUME NEW r, NEW s, Base(r), Base(s), Even(r, s),
           r.synced = s.synced, r.pcmSynced = s.pcmSynced, r.failed = s.failed
    PROVE  Settled(r) = Settled(s)
<1>. DEFINE a == Settled(r)
            b == Settled(s)
<1>1. /\ a = [x \in Names |-> a[x]] /\ b = [x \in Names |-> b[x]]
      /\ Keeps(a, r, {"tri"}) /\ Keeps(b, s, {"tri"})
  BY SettledMakes
<1>2. a.tri = b.tri
  <2>1. r.tri \in TriUnits /\ s.tri \in TriUnits
    BY Unpack DEF Fields
  <2>2. TriAlike(r.tri, s.tri)
    BY DEF Even, AlikeFc
  <2>3. /\ a.tri = [r.tri EXCEPT !.delay = IF @ > 0 THEN @ ELSE 0]
        /\ b.tri = [s.tri EXCEPT !.delay = IF @ > 0 THEN @ ELSE 0]
    BY SettledMakes
  <2>. HIDE DEF a, b
  <2>4. [r.tri EXCEPT !.delay = IF @ > 0 THEN @ ELSE 0] = [s.tri EXCEPT !.delay = IF @ > 0 THEN @ ELSE 0]
    BY <2>1, <2>2, SettledTri
  <2>. QED
    BY <2>3, <2>4
<1>. HIDE DEF a, b
<1>3. r.on = s.on
  <2>1. r.on \in SUBSET (Channels \cup {"dmc", "fcirq", "dmcirq"}) /\ s.on \in SUBSET (Channels \cup {"dmc", "fcirq", "dmcirq"})
    BY Unpack DEF Fields
  <2>2. r.on = OnFc(r) \cup OnDmc(r) /\ s.on = OnFc(s) \cup OnDmc(s)
    BY <2>1 DEF OnFc, OnDmc
  <2>. QED
    BY <2>2 DEF Even, AlikeFc, AlikeDmc
<1>4. \A x \in Names \ {"tri"} : r[x] = s[x]
  BY <1>3 DEF Even, AlikeFc, AlikeDmc, Names
<1>5. \A x \in Names : a[x] = b[x]
  BY <1>1, <1>2, <1>4 DEF Keeps
<1>. QED
  BY <1>1, <1>5 DEF a, b

LEMMA TwinsExact == IInv /\ Twins => LazyIsExact
<1>. SUFFICES ASSUME IInv, Twins, Running
              PROVE  Settled(ForceUpdate(lazy, now)) = Settled(ForceUpdate(eager, now))
  BY DEF LazyIsExact
<1>. DEFINE a == ForceUpdate(lazy, now)
            b == ForceUpdate(eager, now)
<1>1. now \in Nat /\ now <= FrameMax /\ Good(lazy) /\ Good(eager)
  BY ApuAssumption DEF IInv, Counted
<1>2. Timely(lazy, now) /\ Timely(eager, now) /\ Agree(lazy, eager, now)
  BY DEF Twins, Twinned
<1>3. Good(a) /\ Good(b) /\ Forced(a, now) /\ Forced(b, now) /\ Even(a, b)
  BY <1>1, <1>2, TwinForce
<1>. HIDE DEF a, b
<1>4. a.synced = b.synced /\ a.pcmSynced = b.pcmSynced /\ a.failed = b.failed
  BY <1>3 DEF Forced, Caught
<1>5. Settled(a) = Settled(b)
  BY <1>3, <1>4, SettledSame DEF Good
<1>. QED
  BY <1>5 DEF a, b

-----------------------------------------------------------------------------
(* The status: no round of dmc_update_body() before dmc_end_timestamp        *)
(* changes what $4015 shows of the DMC.                                      *)

LEMMA ShiftOn ==
    ASSUME NEW s, Base(s), NEW t \in Int
    PROVE  Shift(s, t).on = s.on
<1>. DEFINE level == s.dmc.pcm + (IF Rom[s.dmc.cur][Bits - s.dmc.bit + 1] = 1 THEN 1 ELSE -1)
            heard == IF level \in 0..PcmTop THEN SyncPcm(s, t, level) ELSE s
<1>r. Shift(s, t) = [heard EXCEPT !.dmc.bit = @ - 1]
  BY DEF Shift
<1>. HIDE DEF level
<1>1. heard.on = s.on
  <2>1. ASSUME level \in 0..PcmTop PROVE SyncPcm(s, t, level).on = s.on
    <3>1. Keeps(SyncPcm(s, t, level), s, {"out", "sum", "dmc", "pcmSynced", "failed"})
      BY <2>1, SyncPcmMakes
    <3>. QED
      BY <3>1 DEF Keeps, Names
  <2>. QED
    BY <2>1
<1>. HIDE DEF heard
<1>. QED
  BY <1>r, <1>1

LEMMA FetchOn ==
    ASSUME NEW s, Base(s), NEW t \in Int, s.dmc.bytes > 0, s.dmc.bytes # 1 \/ s.dmc.loop
    PROVE  Fetch(s, t).on = s.on
<1>. DEFINE q == Fetched(s)
<1>1. /\ Base(q) /\ Keeps(q, s, {"dmc"}) /\ q.dmc.bytes = s.dmc.bytes - 1
      /\ Fetch(s, t) = IF q.dmc.bytes > 0 THEN q ELSE IF s.dmc.loop THEN DmcStart(q, t) ELSE DmcEnded(q, t)
  BY FetchedMakes
<1>. HIDE DEF q
<1>2. q.on = s.on
  BY <1>1 DEF Keeps, Names
<1>3. DmcStart(q, t).on = q.on
  <2>1. Keeps(DmcStart(q, t), q, {"dmc", "slowed"})
    BY <1>1, Unpack, DmcStartUnits
  <2>. QED
    BY <2>1 DEF Keeps, Names
<1>4. q.dmc.bytes > 0 \/ s.dmc.loop
  <2>1. s.dmc.bytes \in Nat
    BY Unpack, DmcNumbers DEF Fields
  <2>. QED
    BY <1>1, <2>1
<1>. QED
  BY <1>1, <1>2, <1>3, <1>4

\* A unit whose rounds up to t do not show: the one that ends a sample is not among them.
Hushed(s, t) == s.dmc.loop \/ s.dmc.end > t

LEMMA DmcDueHushed ==
    ASSUME NEW s, Good(s), NEW t \in Nat, t <= FrameMax, OnTime(s, t), s.dmc.next <= t, Hushed(s, t)
    PROVE  DmcDue(s).on = s.on /\ Hushed(DmcDue(s), t)
<1>. DEFINE n == s.dmc.next
            next == n + s.dmc.period
            d == [s EXCEPT !.dmc.next = next]
            stop == [d EXCEPT !.dmc.next = Never, !.dmc.end = Never, !.slowed = FALSE]
<1>r. DmcDue(s) = IF d.dmc.bit > 0 THEN Shift(d, n)
                  ELSE IF d.dmc.bytes > 0 THEN Shift(Fetch(d, n), n)
                  ELSE IF d.dmc.loop /\ "dmc" \in d.enable THEN Shift(Fetch(DmcStart(d, n), n), n)
                  ELSE stop
  BY DEF DmcDue
<1>u. s \in Units /\ Fields(s) /\ \A x \in Names : x \in DOMAIN s
  BY Unpack DEF Good
<1>n. /\ s.pcmSynced \in Int /\ n \in Int /\ s.dmc.end \in Int /\ s.dmc.bytes \in Nat /\ s.dmc.bit \in Nat
      /\ s.dmc.period \in DmcPeriods /\ s.dmc.period \in Nat \ {0} /\ s.dmc.period <= Slowest
      /\ s.dmc.length \in Nat \ {0}
  BY DmcRanges DEF Good
<1>1. next \in Int /\ next <= t + Slowest /\ next < Never /\ n < Never /\ t < Never /\ Never \in Int
  BY <1>n, NextRoom, SlowestFacts, NeverIsTime
<1>2. s.pcmSynced <= n /\ Predicts(s.dmc, s.slowed)
  BY <1>1 DEF OnTime
<1>4. Base(d) /\ Only(d, s) /\ d.on = s.on /\ d.dmc = [s.dmc EXCEPT !.next = next]
  <2>. HIDE DEF next
  <2>1. Like(d, s)
    BY DEF Like
  <2>2. [s.dmc EXCEPT !.next = next] \in DmcUnits /\ [s.dmc EXCEPT !.next = next].pcm = s.dmc.pcm
    BY <1>1, <1>u DEF Fields, DmcUnits
  <2>3. /\ Keeps(d, s, {"dmc", "slowed", "on", "failed"}) /\ d.dmc = [s.dmc EXCEPT !.next = next]
        /\ d.slowed = s.slowed /\ d.on = s.on /\ d.failed = s.failed /\ Only(d, s)
    BY <1>u DEF Keeps, Names, Only, SameFc
  <2>. HIDE DEF d
  <2>. QED
    BY <1>u, <2>1, <2>2, <2>3, DmcGood DEF Fields, Good
<1>5. /\ d.dmc.bit = s.dmc.bit /\ d.dmc.bytes = s.dmc.bytes /\ d.dmc.loop = s.dmc.loop
      /\ d.dmc.end = s.dmc.end /\ d.dmc.next = next /\ d.pcmSynced = s.pcmSynced /\ d.dmc.length = s.dmc.length
  <2>. HIDE DEF next, d
  <2>. QED
    BY <1>4, <1>u DEF Fields, DmcUnits, Only
<1>v. \A x \in Names : x \in DOMAIN d
  BY <1>4, Unpack
<1>6. d.dmc.next # Never /\ d.pcmSynced <= n /\ d.dmc.length > 0
  BY <1>n, <1>1, <1>2, <1>5
<1>7. stop.on = s.on /\ stop.dmc.end = Never
  <2>. HIDE DEF d
  <2>1. d.dmc \in DmcUnits
    BY <1>4, Unpack DEF Fields
  <2>. QED
    BY <1>4, <1>v, <2>1 DEF Names, DmcUnits
<1>8. Hushed(stop, t)
  BY <1>1, <1>7 DEF Hushed
\* A bit is played, whatever was done before it.
<1>9. ASSUME NEW q, Base(q), Only(q, d), q.on = s.on, q.dmc.loop \/ q.dmc.end > t
      PROVE  Shift(q, n).on = s.on /\ Hushed(Shift(q, n), t)
  <2>1. q.pcmSynced <= n
    BY <1>6, <1>9 DEF Only
  <2>2. Holds(Shift(q, n).dmc, q.dmc, {"bit"}) /\ Shift(q, n).on = q.on
    BY <1>9, <1>n, <2>1, ShiftTimes, ShiftOn
  <2>. QED
    BY <1>9, <2>2 DEF Holds, Timing, Hushed
<1>d. Only(d, d)
  BY DEF Only, SameFc
\* A byte is fetched that does not end a sample.
<1>10. ASSUME NEW q, Base(q), Only(q, d), q.on = s.on, q.dmc.loop \/ q.dmc.end > t, q.dmc.next # Never,
              q.dmc.bytes > 0, q.dmc.bytes # 1 \/ q.dmc.loop
       PROVE  Shift(Fetch(q, n), n).on = s.on /\ Hushed(Shift(Fetch(q, n), n), t)
  <2>. DEFINE f == Fetch(q, n)
  <2>1. Base(f) /\ f.on = s.on
    BY <1>n, <1>10, FetchGood, FetchOn
  <2>2. /\ Only(f, q) /\ Holds(f.dmc, q.dmc, {"bit", "bytes", "end"})
        /\ q.dmc.bytes > 1 => f.dmc.end = q.dmc.end
    BY <1>n, <1>10, FetchTimes
  <2>. HIDE DEF f
  <2>3. Only(f, d)
    BY <1>10, <2>2 DEF Only, SameFc
  <2>4. f.dmc.loop = q.dmc.loop
    BY <2>2 DEF Holds, Timing
  <2>5. q.dmc.bytes \in Nat
    BY <1>10, Unpack, DmcNumbers DEF Fields
  <2>6. f.dmc.loop \/ f.dmc.end > t
    BY <1>10, <2>2, <2>4, <2>5
  <2>7. Shift(f, n).on = s.on /\ Hushed(Shift(f, n), t)
    BY <1>9, <2>1, <2>3, <2>6
  <2>. QED
    BY <2>7 DEF f
<1>e. d.dmc.loop \/ d.dmc.end > t
  BY <1>5 DEF Hushed
<1>. HIDE DEF d, stop, next
<1>11. CASE s.dmc.bit > 0
  <2>1. DmcDue(s) = Shift(d, n)
    BY <1>r, <1>5, <1>11
  <2>2. Shift(d, n).on = s.on /\ Hushed(Shift(d, n), t)
    BY <1>4, <1>9, <1>d, <1>e
  <2>. QED
    BY <2>1, <2>2
<1>12. CASE ~(s.dmc.bit > 0) /\ s.dmc.bytes > 0
  <2>1. DmcDue(s) = Shift(Fetch(d, n), n)
    BY <1>r, <1>5, <1>12
  <2>2. s.dmc.bytes # 1 \/ s.dmc.loop
    <3>. SUFFICES ASSUME s.dmc.bytes = 1, ~s.dmc.loop PROVE FALSE
      OBVIOUS
    <3>1. s.dmc.bit = 0
      BY <1>n, <1>12
    <3>2. s.dmc.end = n + Left(1, 0) * s.dmc.period
      BY <1>2, <1>12, <3>1 DEF Predicts, Predicted
    <3>3. Left(1, 0) = 0
      BY LeftFacts
    <3>4. s.dmc.end = n
      BY <1>n, <3>2, <3>3
    <3>. QED
      BY <1>n, <3>4 DEF Hushed
  <2>3. Shift(Fetch(d, n), n).on = s.on /\ Hushed(Shift(Fetch(d, n), n), t)
    BY <1>4, <1>5, <1>6, <1>10, <1>12, <1>d, <1>e, <2>2
  <2>. QED
    BY <2>1, <2>3
<1>13. CASE ~(s.dmc.bit > 0) /\ ~(s.dmc.bytes > 0) /\ s.dmc.loop /\ "dmc" \in d.enable
  <2>. DEFINE q == DmcStart(d, n)
  <2>1. DmcDue(s) = Shift(Fetch(q, n), n)
    BY <1>r, <1>5, <1>13
  <2>2. Base(q)
    BY <1>4, <1>n, DmcStartGood
  <2>3. d \in Units /\ d.dmc.next \in Int
    BY <1>1, <1>4, <1>5, Unpack
  <2>4. Holds(q.dmc, d.dmc, {"end", "bytes"}) /\ q.dmc.bytes = d.dmc.length /\ Only(q, d)
    BY <1>6, <1>n, <2>3, DmcRestartTimes
  <2>5. q.on = d.on
    <3>1. Keeps(q, d, {"dmc", "slowed"})
      BY <1>n, <2>3, DmcStartUnits
    <3>. QED
      BY <3>1 DEF Keeps, Names
  <2>. HIDE DEF q
  <2>6. q.dmc.loop /\ q.dmc.next # Never /\ q.dmc.bytes > 0
    BY <1>5, <1>6, <1>13, <2>4 DEF Holds, Timing
  <2>7. Shift(Fetch(q, n), n).on = s.on /\ Hushed(Shift(Fetch(q, n), n), t)
    BY <1>4, <1>10, <2>2, <2>4, <2>5, <2>6
  <2>. QED
    BY <2>1, <2>7
<1>14. CASE ~(s.dmc.bit > 0) /\ ~(s.dmc.bytes > 0) /\ ~(s.dmc.loop /\ "dmc" \in d.enable)
  <2>1. DmcDue(s) = stop
    BY <1>r, <1>5, <1>14
  <2>. QED
    BY <1>7, <1>8, <2>1
<1>. QED
  BY <1>11, <1>12, <1>13, <1>14

LEMMA UpdateDmcHushed ==
    ASSUME NEW s, Good(s), NEW t \in Nat, t <= FrameMax, OnTime(s, t), Hushed(s, t)
    PROVE  UpdateDmc(s, t).on = s.on
<1>. DEFINE f == DmcStep(t)
            S == {q \in GoodUnits : OnTime(q, t) /\ q.on = s.on /\ Hushed(q, t)}
<1>1. S \in SUBSET GoodUnits /\ s \in S
  BY GoodIsIn
<1>2. ASSUME NEW q \in S PROVE f[q] \in S
  <2>1. q \in GoodUnits /\ Good(q) /\ OnTime(q, t) /\ q.on = s.on /\ Hushed(q, t) /\ q.dmc.next \in Int
    BY GoodIsIn, DmcRanges DEF Good
  <2>2. f[q] = DmcRound(q, t)
    BY <2>1 DEF DmcStep
  <2>3. CASE t >= q.dmc.next
    <3>1. DmcDue(q).on = q.on /\ Hushed(DmcDue(q), t)
      BY <2>1, <2>3, DmcDueHushed
    <3>2. DmcDue(q) \in GoodUnits /\ OnTime(DmcDue(q), t)
      BY <2>1, <2>3, DmcDueGood, DmcDueTimes, GoodIsIn
    <3>. QED
      BY <2>1, <2>2, <2>3, <3>1, <3>2 DEF DmcRound
  <2>4. CASE ~(t >= q.dmc.next)
    BY <2>2, <2>4 DEF DmcRound
  <2>. QED
    BY <2>3, <2>4
<1>3. f \in [GoodUnits -> GoodUnits]
  BY DmcStepType
<1>4. UpdateDmc(s, t) \in Orbit(f, s)
  BY UpdateDmcReached
<1>. HIDE DEF f, S
<1>5. Orbit(f, s) \subseteq S
  BY <1>1, <1>2, <1>3, OrbitWithin
<1>6. UpdateDmc(s, t) \in S
  BY <1>4, <1>5
<1>. QED
  BY <1>6 DEF S

LEMMA OnParts ==
    ASSUME NEW r, NEW s, Base(r), Base(s), OnFc(r) = OnFc(s), OnDmc(r) = OnDmc(s)
    PROVE  r.on = s.on
<1>1. r.on \in SUBSET (Channels \cup {"dmc", "fcirq", "dmcirq"}) /\ s.on \in SUBSET (Channels \cup {"dmc", "fcirq", "dmcirq"})
  BY Unpack DEF Fields
<1>2. r.on = OnFc(r) \cup OnDmc(r) /\ s.on = OnFc(s) \cup OnDmc(s)
  BY <1>1 DEF OnFc, OnDmc
<1>. QED
  BY <1>2

LEMMA TwinsStatus ==
    ASSUME NEW r, NEW s, Good(r), Good(s), NEW t \in Nat, t <= FrameMax, Twinned(r, s, t)
    PROVE  BeforeRead(r, t).on = s.on
<1>. DEFINE u == UpdateFc(r, t)
            x == UpdateDmc(u, t)
            y == UpdateDmc(r, t)
            b == BeforeRead(r, t)
<1>1. /\ t \in Int /\ OnTime(r, t) /\ s.fc.next > t /\ s.dmc.next > t
      /\ AlikeFc(CatchUp(r, t), CatchUp(s, t)) /\ AlikeDmc(UpdateDmc(r, t), UpdateDmc(s, t))
  BY DEF Twinned, Timely, Prompted, Agree
<1>2. /\ s.fc.next \in Int /\ s.dmc.next \in Int /\ Base(s)
  BY TimesAreNumbers, DmcRanges DEF Good
<1>3. FcOnly(u, r) /\ Good(u) /\ Base(u)
  BY <1>1, UpdateFcAhead DEF Good
<1>4. b = IF t >= u.dmc.end THEN x ELSE u
  BY DEF BeforeRead
<1>5. CatchUp(r, t) = UpdateTriangle(u, t) /\ CatchUp(s, t) = UpdateTriangle(s, t)
  BY <1>1, <1>2, UpdateFcIdle DEF CatchUp
<1>. HIDE DEF u
<1>6. OnFc(u) = OnFc(s)
  <2>1. OnFc(UpdateTriangle(u, t)) = OnFc(u) /\ OnFc(UpdateTriangle(s, t)) = OnFc(s)
    BY <1>1, <1>2, <1>3, TriangleKeeps
  <2>. QED
    BY <1>1, <1>5, <2>1 DEF AlikeFc
<1>7. UpdateDmc(s, t) = s
  BY <1>1, <1>2 DEF UpdateDmc
<1>8. OnDmc(y) = OnDmc(s)
  BY <1>1, <1>7 DEF AlikeDmc
<1>9. AlikeDmc(u, r)
  BY <1>3, FcOnlyAlike
<1>10. AlikeDmc(x, y) /\ DmcOnly(x, u) /\ Good(x)
  <2>1. AlikeDmc(x, y)
    BY <1>1, <1>3, <1>9, UpdateDmcAlike
  <2>2. DmcOnly(x, u)
    BY <1>1, <1>3, UpdateDmcAlike, AlikeDmcRelation
  <2>. QED
    BY <1>1, <1>3, <2>1, <2>2, UpdateDmcGood
<1>11. u.dmc = r.dmc /\ r.dmc.end \in Int
  BY <1>9, DmcRanges DEF AlikeDmc, Good
<1>. HIDE DEF x, b
<1>12. CASE t >= u.dmc.end
  <2>1. b = x
    BY <1>4, <1>12
  <2>2. OnFc(x) = OnFc(s) /\ OnDmc(x) = OnDmc(s)
    BY <1>6, <1>8, <1>10 DEF AlikeDmc, DmcOnly
  <2>3. x.on = s.on
    BY <1>2, <1>10, <2>2, OnParts DEF Good
  <2>. QED
    BY <2>1, <2>3 DEF b
<1>13. CASE ~(t >= u.dmc.end)
  <2>1. b = u
    BY <1>4, <1>13
  <2>2. Hushed(r, t)
    BY <1>1, <1>11, <1>13 DEF Hushed
  <2>3. y.on = r.on
    BY <1>1, <2>2, UpdateDmcHushed
  <2>4. OnDmc(u) = OnDmc(s)
    BY <1>8, <1>9, <2>3 DEF AlikeDmc, OnDmc
  <2>5. u.on = s.on
    BY <1>2, <1>3, <1>6, <2>4, OnParts
  <2>. QED
    BY <2>1, <2>5 DEF b
<1>. QED
  BY <1>12, <1>13

LEMMA TwinsPrompt == IInv /\ Twins => StatusIsPrompt
<1>. SUFFICES ASSUME IInv, Twins, Running PROVE BeforeRead(lazy, now).on = eager.on
  BY DEF StatusIsPrompt
<1>1. now \in Nat /\ now <= FrameMax /\ Good(lazy) /\ Good(eager)
  BY ApuAssumption DEF IInv, Counted
<1>2. Twinned(lazy, eager, now)
  BY DEF Twins
<1>. QED
  BY <1>1, <1>2, TwinsStatus

\* Being lazy is unobservable: at any time, bringing the unit up to date makes of it,
\* output included, what it makes of one that is kept up to date every cycle.
THEOREM Exact == Spec => []LazyIsExact
BY InitTwins, NextTwins, TwinsExact, Inductive, PTL DEF Spec

\* A read of $4015 returns what it would return from a unit that was never behind.
THEOREM PromptStatus == Spec => []StatusIsPrompt
BY InitTwins, NextTwins, TwinsPrompt, Inductive, PTL DEF Spec
=============================================================================
