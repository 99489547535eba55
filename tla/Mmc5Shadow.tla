----------------------------- MODULE Mmc5Shadow -----------------------------
(***************************************************************************)
(* The length counters of the MMC5's two pulse channels exist twice.  The  *)
(* slave's are the ones that are heard; the master keeps its own, because  *)
(* the 6502 may read the status register at any time and cannot wait for   *)
(* the slave.  Both catch up lazily: the master when the 6502 touches a    *)
(* register (and at the end of a frame), the slave when it takes a command *)
(* from the ring, each from its own copy of the frame divider, which moves *)
(* to the next frame's time base at two places, too.                       *)
(*                                                                         *)
(* The ring is a queue here; that it behaves as one is what SlaveLink      *)
(* shows.  Sound generation (mmc5_run, duty, pitch, PCM, the envelopes) is *)
(* left out: it does not reach the counters.                               *)
(***************************************************************************)
EXTENDS Naturals, Sequences

CONSTANTS
    Pulses,         \* the pulse channels (0 and 1)
    Reload,         \* frame_divider_reload (7457)
    FrameLengths,   \* where a frame may end, in CPU cycles
    Lengths,        \* the entries of length_table
    Check,          \* EXCHIP_CONSISTENCY_CHECK
    MaxQueue        \* bound of the model: commands the slave is behind

ASSUME ConstantsAssumption ==
    /\ Reload \in Nat \ {0}
    /\ FrameLengths \subseteq Nat \ {0}
    /\ Lengths \subseteq Nat \ {0}
    /\ Check \in BOOLEAN /\ (Check => {0, 1} \subseteq Pulses)
    /\ MaxQueue \in Nat

VARIABLES
    now,        \* the 6502's timestamp, counted from the start of the frame
    m,          \* mmc5_master
    s,          \* the slave's mmc5
    pending,    \* the access whose CHECK_UPDATE_MMC5_FRAME is being done
    updated,    \* mmc5_master_update_counters() was called for it
    queue,      \* exchip_rb, as the sequence of the commands not read yet
    aborted     \* the slave's consistency check has called abort()

vars == <<now, m, s, pending, updated, queue, aborted>>

None == [reg |-> "none"]
Env(w, halt) == [reg |-> "env", w |-> w, halt |-> halt]
Len3(w, len) == [reg |-> "len", w |-> w, len |-> len]
Status(on)   == [reg |-> "status", on |-> on]
Read         == [reg |-> "read"]
Frame        == [reg |-> "frame"]
Update       == [reg |-> "update"]
Compare(w, lc) == [reg |-> "compare", w |-> w, lc |-> lc]
Command(ts, a) == [ts |-> ts, cmd |-> a]

Accesses ==
    {Env(w, halt) : w \in Pulses, halt \in BOOLEAN}
        \cup {Len3(w, len) : w \in Pulses, len \in Lengths}
        \cup {Status(on) : on \in SUBSET Pulses}
        \cup {Read}

\* mmc5_master_power(), and the slave's mmc5 = { { 0 } } with its divider.
Zeroes == [w \in Pulses |-> 0]
MasterPower == [div |-> Reload, alt |-> FALSE, halt |-> {}, lc |-> Zeroes,
                status |-> {}, en |-> {}]
SlavePower == [div |-> Reload, alt |-> FALSE, halt |-> {}, lc |-> Zeroes,
               en |-> {}]

Init ==
    /\ now = 0
    /\ m = MasterPower
    /\ s = SlavePower
    /\ pending = None /\ updated = FALSE
    /\ queue = << >>
    /\ aborted = FALSE

-----------------------------------------------------------------------------
(* The master. *)

\* emu_init(), between two frames: slave_stop() drops what is in the ring.
NewSong ==
    /\ now = 0
    /\ pending = None
    /\ m' = MasterPower
    /\ s' = SlavePower
    /\ queue' = << >>
    /\ aborted' = FALSE
    /\ UNCHANGED <<now, pending, updated>>

\* A 6502 instruction reads or writes an MMC5 register, or the frame ends.
Begin ==
    /\ pending = None
    /\ ~aborted
    /\ Len(queue) < MaxQueue
    /\ \/ \E a \in Accesses : pending' = a
       \/ now \in FrameLengths /\ pending' = Frame
    /\ UNCHANGED <<now, m, s, updated, queue, aborted>>

\* Time passes between two accesses.
Cycle ==
    /\ pending = None
    /\ \E t \in FrameLengths : now < t
    /\ now' = now + 1
    /\ UNCHANGED <<m, s, pending, updated, queue, aborted>>

\* slave_force_update(), once in each half of the frame.
ForceUpdate ==
    /\ pending = None
    /\ Len(queue) < MaxQueue
    /\ queue' = Append(queue, Command(now, Update))
    /\ UNCHANGED <<now, m, s, pending, updated, aborted>>

\* Mutant: the master's half frames all have the same length.
MasterTickNoAlt(c) ==
    LET lc == [w \in Pulses |->
                  IF w \notin c.halt /\ c.lc[w] > 0 THEN c.lc[w] - 1 ELSE c.lc[w]]
    IN [c EXCEPT !.lc = lc,
                 !.status = {w \in @ : w \in c.halt \/ c.lc[w] = 0 \/ lc[w] > 0},
                 !.div = @ + Reload]

\* One round of the loop of mmc5_master_update_counters().
MasterTick(c) ==
    LET lc == [w \in Pulses |->
                  IF w \notin c.halt /\ c.lc[w] > 0 THEN c.lc[w] - 1 ELSE c.lc[w]]
    IN [c EXCEPT !.lc = lc,
                 !.status = {w \in @ : w \in c.halt \/ c.lc[w] = 0 \/ lc[w] > 0},
                 !.div = @ + Reload + (IF c.alt THEN 1 ELSE 0),
                 !.alt = ~@]

MasterUpdate ==
    /\ pending # None
    /\ now >= m.div
    /\ m' = MasterTick(m)
    /\ updated' = TRUE
    /\ UNCHANGED <<now, s, pending, queue, aborted>>

\* Mutant: the status register keeps the bits of channels switched off.
MasterAccessKeepsStatus(a) ==
    CASE a.reg = "env" ->
           [m EXCEPT !.halt = IF a.halt THEN @ \cup {a.w} ELSE @ \ {a.w}]
      [] a.reg = "len" /\ a.w \in m.en ->
           [m EXCEPT !.lc[a.w] = a.len, !.status = @ \cup {a.w}]
      [] a.reg = "status" -> [m EXCEPT !.en = a.on]
      [] a.reg = "frame" -> [m EXCEPT !.div = @ - now]
      [] OTHER -> m

\* What the write functions of s6502.S and mmc5_master_frame() do then.
MasterAccess(a) ==
    CASE a.reg = "env" ->
           [m EXCEPT !.halt = IF a.halt THEN @ \cup {a.w} ELSE @ \ {a.w}]
      [] a.reg = "len" /\ a.w \in m.en ->
           [m EXCEPT !.lc[a.w] = a.len, !.status = @ \cup {a.w}]
      [] a.reg = "status" -> [m EXCEPT !.en = a.on, !.status = @ \cap a.on]
      [] a.reg = "frame" -> [m EXCEPT !.div = @ - now]
      [] OTHER -> m

\* With the consistency check, an update sends the counters to the slave.
Comparisons ==
    IF Check /\ updated
    THEN <<Command(now, Compare(0, m.lc[0])), Command(now, Compare(1, m.lc[1]))>>
    ELSE << >>

\* The divider is ahead: the access itself, and its command to the slave.
Finish ==
    /\ pending # None
    /\ now < m.div
    /\ m' = MasterAccess(pending)
    /\ queue' = queue \o Comparisons
                  \o (IF pending = Read THEN << >> ELSE <<Command(now, pending)>>)
    /\ now' = IF pending = Frame THEN 0 ELSE now
    /\ pending' = None
    /\ updated' = FALSE
    /\ UNCHANGED <<s, aborted>>

-----------------------------------------------------------------------------
(* The slave, at the first command of the queue. *)

\* One round of the slave's loop.
SlaveTick(c) ==
    [c EXCEPT !.lc = [w \in Pulses |->
                        IF w \notin c.halt /\ c.lc[w] > 0 THEN c.lc[w] - 1
                                                          ELSE c.lc[w]],
              !.div = @ + Reload + (IF c.alt THEN 1 ELSE 0),
              !.alt = ~@]

SlaveUpdate ==
    /\ queue # << >>
    /\ ~aborted
    /\ Head(queue).ts >= s.div
    /\ s' = SlaveTick(s)
    /\ UNCHANGED <<now, m, pending, updated, queue, aborted>>

\* Mutant: the frame command is taken for another update command.
SlaveActForgetsFrame(ts, a) ==
    CASE a.reg = "env" ->
           [s EXCEPT !.halt = IF a.halt THEN @ \cup {a.w} ELSE @ \ {a.w}]
      [] a.reg = "len" /\ a.w \in s.en -> [s EXCEPT !.lc[a.w] = a.len]
      [] a.reg = "status" ->
           [s EXCEPT !.lc = [w \in Pulses |-> IF w \in a.on THEN @[w] ELSE 0],
                     !.en = a.on]
      [] OTHER -> s

\* The switch of mmc5_slave_entry().
SlaveAct(ts, a) ==
    CASE a.reg = "env" ->
           [s EXCEPT !.halt = IF a.halt THEN @ \cup {a.w} ELSE @ \ {a.w}]
      [] a.reg = "len" /\ a.w \in s.en -> [s EXCEPT !.lc[a.w] = a.len]
      [] a.reg = "status" ->
           [s EXCEPT !.lc = [w \in Pulses |-> IF w \in a.on THEN @[w] ELSE 0],
                     !.en = a.on]
      [] a.reg = "frame" -> [s EXCEPT !.div = @ - ts]
      [] OTHER -> s

\* Mutant: a command is acted on before the half frames that precede it.
SlaveCommandEarly ==
    /\ queue # << >>
    /\ ~aborted
    /\ LET c == Head(queue) IN
       /\ s' = SlaveAct(c.ts, c.cmd)
       /\ aborted' = (c.cmd.reg = "compare" /\ c.cmd.lc # s.lc[c.cmd.w])
    /\ queue' = Tail(queue)
    /\ UNCHANGED <<now, m, pending, updated>>

SlaveCommand ==
    /\ queue # << >>
    /\ ~aborted
    /\ LET c == Head(queue) IN
       /\ c.ts < s.div
       /\ s' = SlaveAct(c.ts, c.cmd)
       /\ aborted' = (c.cmd.reg = "compare" /\ c.cmd.lc # s.lc[c.cmd.w])
    /\ queue' = Tail(queue)
    /\ UNCHANGED <<now, m, pending, updated>>

-----------------------------------------------------------------------------
Next ==
    \/ NewSong \/ Begin \/ Cycle \/ ForceUpdate \/ MasterUpdate \/ Finish
    \/ SlaveUpdate \/ SlaveCommand

Spec == Init /\ [][Next]_vars
-----------------------------------------------------------------------------
(* Properties. *)

\* Every variable stays in its range.
TypeOK ==
    /\ now \in Nat
    /\ m.div \in Nat /\ s.div \in Nat
    /\ m.alt \in BOOLEAN /\ s.alt \in BOOLEAN
    /\ m.lc \in [Pulses -> Nat] /\ s.lc \in [Pulses -> Nat]
    /\ {m.halt, m.status, m.en, s.halt, s.en} \subseteq SUBSET Pulses
    /\ pending \in Accesses \cup {None, Frame}
    /\ updated \in BOOLEAN
    /\ \A i \in DOMAIN queue :
          /\ queue[i].ts \in Nat
          /\ \/ queue[i].cmd \in Accesses \cup {Frame, Update}
             \/ queue[i].cmd.reg = "compare"
    /\ aborted \in BOOLEAN

\* The slave has caught up with everything the master has sent and counted.
InStep ==
    pending = None /\ queue = << >> /\ m.div = s.div

\* What the 6502 reads from $5015 is what is heard: with the two processors at
\* the same half frame, a channel's status bit is set if and only if the slave's
\* length counter still runs, and then the two counters are equal.
StatusIsHeard ==
    InStep =>
        \A w \in Pulses :
            /\ w \in m.status <=> s.lc[w] > 0
            /\ w \in m.status => m.lc[w] = s.lc[w]

\* At the frame boundary both processors have counted the same half frames and
\* stand at the same place of the alternating divider, whichever register
\* accesses made either of them catch up earlier.
FramesInStep ==
    now = 0 /\ pending = None /\ queue = << >> => m.div = s.div /\ m.alt = s.alt

\* The slave's consistency check never finds a difference: the assertion of
\* mmc5.c's EXCHIP_CONSISTENCY_CHECK code.
NoAbort == ~aborted
=============================================================================
