------------------------------ MODULE FdsShadow ------------------------------
(***************************************************************************)
(* The two envelopes and the wave memory of the Famicom Disk System exist  *)
(* twice: the slave's are heard, the master's answer the 6502's reads of   *)
(* $4090, $4092 and $4040-$407F.  Both catch up lazily with the envelope   *)
(* clock (env_pre_divider), the master when the 6502 touches an envelope   *)
(* register and at the end of a frame, the slave with every command.       *)
(*                                                                         *)
(* The ring is a queue here (see SlaveLink).  The sound generation of      *)
(* fds_run_() and the registers only the slave has (frequency, modulation) *)
(* are left out: they do not reach the envelopes.                          *)
(***************************************************************************)
EXTENDS Integers, Sequences

CONSTANTS
    Units,          \* the envelopes: 0 volume, 1 modulation
    Values,         \* values of bits 0-5 of $4080 and $4084 (of 0..63)
    Cap,            \* where an envelope stops rising (0x20)
    PowerPeriod,    \* the envelope clock's period at power on (0xE9 * 8)
    PreScale,       \* cycles per step of $408A (8)
    Speeds,         \* data a song writes to $408A
    Halts,          \* bit 6 of the data a song writes to $4083
    Protections,    \* bit 7 of the data a song writes to $4089
    Cells,          \* wave memory cells
    Samples,        \* contents of a wave memory cell
    FrameLengths,   \* where a frame may end, in CPU cycles
    SpillTop,       \* the address fds_update_shim leaves in r2, beyond any time
    Never,          \* env_pre_divider = (uint32)-1
    Wrap,           \* an int8 counts from -Wrap to Wrap - 1 (128)
    Check,          \* EXCHIP_CONSISTENCY_CHECK
    Songs           \* the registers the songs of a file use, and (a bound of the
                    \* model) how many commands the slave may be behind

ASSUME ConstantsAssumption ==
    /\ Values \subseteq Nat /\ Cap \in Nat
    /\ PowerPeriod \in Nat \ {0} /\ PreScale \in Nat \ {0}
    /\ Speeds \subseteq Nat
    /\ Halts \subseteq BOOLEAN /\ Protections \subseteq BOOLEAN
    /\ 0 \in Samples
    /\ FrameLengths \subseteq Nat \ {0}
    /\ SpillTop \in Nat
    /\ \A t \in FrameLengths : t < SpillTop
    /\ Never \notin Nat
    /\ Wrap \in Nat \ {0} /\ \A v \in Values : v + 1 < Wrap
    /\ Check \in BOOLEAN /\ (Check => {0, 1} \subseteq Units)
    /\ \A f \in Songs : f.behind \in Nat

VARIABLES
    now,        \* the 6502's timestamp, counted from the start of the frame
    m,          \* fds_master
    s,          \* the slave's fds
    pending,    \* the access whose CHECK_UPDATE_FDS_ENV is being done
    updated,    \* fds_master_update_counters() was called for it
    queue,      \* exchip_rb, as the sequence of the commands not read yet
    aborted,    \* the slave's consistency check has called abort()
    file,       \* what the songs of this file use
    written,    \* history: wave memory cells the song has written
    faults      \* history: accesses the two processors are known to differ on

vars == <<now, m, s, pending, updated, queue, aborted, written, faults, file>>

None           == [reg |-> "none"]
Env(w, f, u, v) == [reg |-> "env", w |-> w, fixed |-> f, up |-> u, v |-> v]
Gate(h)        == [reg |-> "gate", halt |-> h]              \* $4083
Speed(d)       == [reg |-> "speed", data |-> d]             \* $408A
Protect(ww)    == [reg |-> "protect", ww |-> ww]            \* $4089
Read           == [reg |-> "read"]                          \* $4090, $4092
Frame          == [reg |-> "frame"]
Wave(c, x)     == [reg |-> "wave", c |-> c, x |-> x]
Update         == [reg |-> "update"]
Compare(w, l)  == [reg |-> "compare", w |-> w, level |-> l]
Command(t, a)  == [ts |-> t, cmd |-> a]

Accesses ==
    {Env(w, f, u, v) : w \in Units, f \in BOOLEAN, u \in BOOLEAN, v \in Values}
        \cup {Gate(h) : h \in Halts}
        \cup {Speed(d) : d \in Speeds}
        \cup {Protect(ww) : ww \in Protections}
        \cup {Read}

\* fds_master_power(); it keeps the wave memory of the song before.
MasterPower(ram) ==
    [div |-> PowerPeriod, period |-> PowerPeriod, halt |-> FALSE,
     fixed |-> {}, up |-> {},
     per |-> [w \in Units |-> 1], cnt |-> [w \in Units |-> 1],
     level |-> [w \in Units |-> 0],
     ww |-> FALSE, ram |-> ram]

\* The slave's fds_t fds = { 0 }, and the envelope clock.
SlavePower ==
    [div |-> PowerPeriod, period |-> PowerPeriod, halt |-> FALSE,
     fixed |-> {}, up |-> {},
     per |-> [w \in Units |-> 0], cnt |-> [w \in Units |-> 0],
     level |-> [w \in Units |-> 0],
     ram |-> [c \in Cells |-> 0]]

Init ==
    /\ now = 0
    /\ m = MasterPower([c \in Cells |-> 0])
    /\ s = SlavePower
    /\ pending = None /\ updated = FALSE
    /\ queue = << >>
    /\ aborted = FALSE
    /\ written = {} /\ faults = {}
    /\ file \in Songs

Due(c, t) == c.div # Never /\ t >= c.div

-----------------------------------------------------------------------------
(* The master. *)

\* emu_init(), between two frames: slave_stop() drops what is in the ring.
NewSong ==
    /\ now = 0
    /\ pending = None
    /\ m' = MasterPower(m.ram)
    /\ s' = SlavePower
    /\ queue' = << >>
    /\ aborted' = FALSE
    /\ written' = {} /\ faults' = {}
    /\ UNCHANGED <<now, pending, updated, file>>

\* The 6502 reads or writes an envelope register, or the frame ends.
Begin ==
    /\ pending = None
    /\ ~aborted
    /\ Len(queue) < file.behind
    /\ \/ \E a \in Accesses : a.reg \in file.uses /\ pending' = a
       \/ now \in FrameLengths /\ pending' = Frame
    /\ UNCHANGED <<now, m, s, updated, queue, aborted, written, faults, file>>

\* Time passes between two accesses.
Cycle ==
    /\ pending = None
    /\ \E t \in FrameLengths : now < t
    /\ now' = now + 1
    /\ UNCHANGED <<m, s, pending, updated, queue, aborted, written, faults, file>>

\* slave_force_update(), once in each half of the frame.
ForceUpdate ==
    /\ pending = None
    /\ Len(queue) < file.behind
    /\ queue' = Append(queue, Command(now, Update))
    /\ UNCHANGED <<now, m, s, pending, updated, aborted, written, faults, file>>

\* Mutant: the master's copy is written whether protected or not.
WriteWaveUnprotected(c, x) ==
    /\ pending = None
    /\ Len(queue) < file.behind
    /\ m' = [m EXCEPT !.ram[c] = x]
    /\ IF m.ww THEN queue' = Append(queue, Command(now, Wave(c, x)))
               ELSE UNCHANGED queue
    /\ written' = IF m.ww THEN written \cup {c} ELSE written
    /\ UNCHANGED <<now, s, pending, updated, aborted, faults, file>>

\* A write to wave memory: blocked here for both processors.
WriteWave(c, x) ==
    /\ pending = None
    /\ Len(queue) < file.behind
    /\ m.ww
    /\ m' = [m EXCEPT !.ram[c] = x]
    /\ queue' = Append(queue, Command(now, Wave(c, x)))
    /\ written' = written \cup {c}
    /\ UNCHANGED <<now, s, pending, updated, aborted, faults, file>>

\* Mutant: a rising envelope stops one step late.
MasterStepCap(c, w) ==
    IF w \in c.fixed THEN c.level[w]
    ELSE IF w \in c.up
         THEN IF c.level[w] <= Cap THEN c.level[w] + 1 ELSE c.level[w]
         ELSE IF c.level[w] > 0 THEN c.level[w] - 1 ELSE c.level[w]

\* The level after a period of the envelope has run out.
MasterStep(c, w) ==
    IF w \in c.fixed THEN c.level[w]
    ELSE IF w \in c.up
         THEN IF c.level[w] < Cap THEN c.level[w] + 1 ELSE c.level[w]
         ELSE IF c.level[w] > 0 THEN c.level[w] - 1 ELSE c.level[w]

\* One round of the loop of fds_master_update_counters().
MasterTick(c) ==
    [c EXCEPT !.div = @ + c.period,
              !.cnt = IF c.halt THEN @ ELSE
                      [w \in Units |-> IF @[w] = 1 THEN c.per[w] ELSE @[w] - 1],
              !.level = IF c.halt THEN @ ELSE
                      [w \in Units |-> IF c.cnt[w] = 1 THEN MasterStep(c, w) ELSE @[w]]]

MasterUpdate ==
    /\ pending # None
    /\ Due(m, now)
    /\ m' = MasterTick(m)
    /\ updated' = TRUE
    /\ UNCHANGED <<now, s, pending, queue, aborted, written, faults, file>>

\* Mutant: the period is stored without the increment.
MasterEnvPeriodLess(c, a) ==
    [c EXCEPT !.fixed = IF a.fixed THEN @ \cup {a.w} ELSE @ \ {a.w},
              !.up    = IF a.up THEN @ \cup {a.w} ELSE @ \ {a.w},
              !.level[a.w] = IF a.fixed THEN a.v ELSE @,
              !.per[a.w] = a.v,
              !.cnt[a.w] = a.v]

\* _fds_write_4080_func_S, _fds_write_4084_func_S; the master's copies.
MasterEnv(c, a) ==
    [c EXCEPT !.fixed = IF a.fixed THEN @ \cup {a.w} ELSE @ \ {a.w},
              !.up    = IF a.up THEN @ \cup {a.w} ELSE @ \ {a.w},
              !.level[a.w] = IF a.fixed THEN a.v ELSE @,
              !.per[a.w] = a.v + 1,
              !.cnt[a.w] = a.v + 1]

\* _fds_write_408A_func_S.  It adds the period to r2, which holds the time unless
\* fds_update_shim has used it for the address of the registers it restores.
MasterSpeed(c, d) ==
    IF d = 0
    THEN [c EXCEPT !.div = Never]
    ELSE [c EXCEPT !.period = (d + 1) * PreScale,
                   !.div = (IF updated THEN SpillTop ELSE now) + (d + 1) * PreScale]

\* Mutant: fds_master_frame() does not spare a stopped clock.
MasterFrameStopped(c) == [c EXCEPT !.div = IF c.div = Never THEN SpillTop ELSE @ - now]

\* fds_master_frame().
MasterFrame(c) == [c EXCEPT !.div = IF c.div = Never THEN @ ELSE @ - now]

MasterAccess(a) ==
    CASE a.reg = "env"     -> MasterEnv(m, a)
      [] a.reg = "gate"    -> [m EXCEPT !.halt = a.halt]
      [] a.reg = "speed"   -> MasterSpeed(m, a.data)
      [] a.reg = "protect" -> [m EXCEPT !.ww = a.ww]
      [] a.reg = "frame"   -> MasterFrame(m)
      [] OTHER             -> m

Fault(a) ==
    CASE a.reg = "gate" /\ a.halt -> {"halt"}
      [] a.reg = "speed" /\ a.data # 0 /\ updated -> {"speed"}
      [] OTHER -> {}

\* With the consistency check, an update sends the levels to the slave.
Comparisons ==
    IF Check /\ updated
    THEN [i \in 1 .. 2 |-> Command(now, Compare(i - 1, m.level[i - 1]))]
    ELSE << >>

\* The clock is ahead: the access itself, and its command to the slave.
Finish ==
    /\ pending # None
    /\ ~Due(m, now)
    /\ m' = MasterAccess(pending)
    /\ queue' = queue \o Comparisons
                  \o (IF pending = Read THEN << >> ELSE <<Command(now, pending)>>)
    /\ now' = IF pending = Frame THEN 0 ELSE now
    /\ faults' = faults \cup Fault(pending)
    /\ pending' = None
    /\ updated' = FALSE
    /\ UNCHANGED <<s, aborted, written, file>>

-----------------------------------------------------------------------------
(* The slave, at the first command of the queue. *)

SlaveStep(c, w) ==
    IF w \in c.fixed THEN c.level[w]
    ELSE IF w \in c.up
         THEN IF c.level[w] < Cap THEN c.level[w] + 1 ELSE c.level[w]
         ELSE IF c.level[w] > 0 THEN c.level[w] - 1 ELSE c.level[w]

\* One round of the loop of fds_run(): an int8 counter, of which a zero it has at
\* power on runs below zero.
SlaveTick(c) ==
    [c EXCEPT !.div = @ + c.period,
              !.cnt = IF c.halt THEN @ ELSE
                      [w \in Units |-> IF @[w] = 1 THEN c.per[w]
                                       ELSE IF @[w] = -Wrap THEN Wrap - 1 ELSE @[w] - 1],
              !.level = IF c.halt THEN @ ELSE
                      [w \in Units |-> IF c.cnt[w] = 1 THEN SlaveStep(c, w) ELSE @[w]]]

SlaveUpdate ==
    /\ queue # << >>
    /\ ~aborted
    /\ Due(s, Head(queue).ts)
    /\ s' = SlaveTick(s)
    /\ UNCHANGED <<now, m, pending, updated, queue, aborted, written, faults, file>>

\* fds_write(), and the frame command.
SlaveAct(ts, a) ==
    CASE a.reg = "env" ->
           [s EXCEPT !.fixed = IF a.fixed THEN @ \cup {a.w} ELSE @ \ {a.w},
                     !.up    = IF a.up THEN @ \cup {a.w} ELSE @ \ {a.w},
                     !.level[a.w] = IF a.fixed THEN a.v ELSE @,
                     !.per[a.w] = a.v + 1,
                     !.cnt[a.w] = a.v + 1]
      [] a.reg = "gate" ->
           [s EXCEPT !.halt = a.halt, !.cnt = IF a.halt THEN s.per ELSE @]
      [] a.reg = "speed" ->
           [s EXCEPT !.period = (a.data + 1) * PreScale,
                     !.div = IF a.data = 0 THEN Never
                             ELSE ts + (a.data + 1) * PreScale]
      [] a.reg = "wave" -> [s EXCEPT !.ram[a.c] = a.x]
      [] a.reg = "frame" -> [s EXCEPT !.div = IF s.div = Never THEN @ ELSE @ - ts]
      [] OTHER -> s

SlaveCommand ==
    /\ queue # << >>
    /\ ~aborted
    /\ LET c == Head(queue) IN
       /\ ~Due(s, c.ts)
       /\ s' = SlaveAct(c.ts, c.cmd)
       /\ aborted' = (c.cmd.reg = "compare" /\ c.cmd.level # s.level[c.cmd.w])
    /\ queue' = Tail(queue)
    /\ UNCHANGED <<now, m, pending, updated, written, faults, file>>

-----------------------------------------------------------------------------
Next ==
    \/ NewSong \/ Begin \/ Cycle \/ ForceUpdate \/ MasterUpdate \/ Finish
    \/ \E c \in Cells, x \in Samples : WriteWave(c, x)
    \/ SlaveUpdate \/ SlaveCommand

Spec == Init /\ [][Next]_vars
-----------------------------------------------------------------------------
(* Properties. *)

\* Every variable stays in its range: no clock is ever overtaken by a frame.
TypeOK ==
    /\ now \in Nat
    /\ m.div \in Nat \cup {Never} /\ s.div \in Nat \cup {Never}
    /\ m.period \in Nat /\ s.period \in Nat
    /\ {m.halt, s.halt, m.ww} \subseteq BOOLEAN
    /\ m.level \in [Units -> Nat] /\ s.level \in [Units -> Nat]
    /\ m.per \in [Units -> Nat \ {0}] /\ s.per \in [Units -> Nat]
    /\ m.cnt \in [Units -> Nat \ {0}] /\ s.cnt \in [Units -> -Wrap .. Wrap - 1]
    /\ {m.fixed, m.up, s.fixed, s.up} \subseteq SUBSET Units
    /\ m.ram \in [Cells -> Samples] /\ s.ram \in [Cells -> Samples]
    /\ pending \in Accesses \cup {None, Frame}
    /\ {updated, aborted} \subseteq BOOLEAN
    /\ written \subseteq Cells
    /\ file \in Songs

\* The slave has caught up with everything the master has sent and counted.
InStep == pending = None /\ queue = << >> /\ m.div = s.div

\* What the 6502 reads from $4090 and $4092 are the levels that are heard, as long
\* as the song has not stopped the envelopes with $4083 nor written $408A just when
\* a step of the envelope clock was due.
LevelsAreHeard ==
    InStep /\ faults = {} => m.level = s.level

\* At the frame boundary the two envelope clocks stand at the same place, stopped
\* ones as well, with only the $408A writes of above excepted.
ClocksInStep ==
    now = 0 /\ pending = None /\ queue = << >> /\ "speed" \notin faults
        => m.div = s.div

\* What the 6502 reads back from wave memory is what is played, for every cell that
\* was written in this song, the write protection notwithstanding.
WaveIsHeard ==
    queue = << >> => \A c \in written : m.ram[c] = s.ram[c]

\* The slave's consistency check never finds a difference: the assertion of fds.c's
\* EXCHIP_CONSISTENCY_CHECK code.
NoAbort == ~aborted
=============================================================================
