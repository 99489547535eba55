------------------------------ MODULE SlaveLink ------------------------------
(***************************************************************************)
(* The link between the two SH-2 processors of the NSF player: the master  *)
(* runs the 6502, the slave emulates the song's expansion chip.  They share*)
(* an unguarded ring of commands (exchip_rb), two flags in uncached RAM    *)
(* (run_slave, nsfcore_slave_ready) and the slave's free running timer     *)
(* input flag (FTCSR bit 7), which the master raises by a store to         *)
(* 0x21000000.  Every shared access of nsfcore.c and of the chip loops is  *)
(* a step of its own; the two processors interleave freely.                *)
(*                                                                         *)
(* A command in the ring is a record; sess and n (the session and the      *)
(* number within it) exist only in the model, to tell entries apart.       *)
(***************************************************************************)
EXTENDS Naturals

CONSTANTS
    Chips,          \* the expansion chips, one slave entry function each
    NoChip,         \* a song without expansion chip (chip_emulated = 0)
    RingSize,       \* entries of exchip_rb (16384 in the code)
    HalfWrites,     \* most chip register writes the 6502 makes in half a frame
    Lag,            \* most entries unread when a half frame starts (pacing)
    MaxSent,        \* bound of the model: most commands sent when a frame starts
    MaxSessions     \* bound of the model: sessions

ASSUME ConstantsAssumption ==
    /\ NoChip \notin Chips
    /\ RingSize \in Nat \ {0}
    /\ HalfWrites \in Nat
    /\ Lag \in Nat
    /\ MaxSent \in Nat
    /\ MaxSessions \in Nat

VARIABLES
    chip_emulated,      \* meta.chip_emulated
    exchip_slave_entry, \* the chip whose loop the slave is to run
    run_slave,          \* master: a session is wanted
    slave_ready,        \* slave: the chip loop is running
    ftf,                \* FTCSR bit 7 of the slave
    exchip_rb,          \* the ring
    rb_wr,              \* master's write index, in entries
    mpc,                \* where the master is
    op,                 \* the operation that called slave_stop
    cmd,                \* the command being written, or the last one written
    half,               \* half of the frame being run, 0 or 1
    writes,             \* register writes made in this half
    spc,                \* where the slave is
    running,            \* the chip whose loop the slave entered
    rb_rd,              \* the chip loop's private read index
    snap,               \* the chip loop's copy of rb_wr
    heard,              \* rbd: the last command the chip loop acted on
    session, sent, done \* history: session number, commands sent, acted on

masterVars == <<mpc, op, cmd, half, writes>>
slaveVars  == <<spc, running, rb_rd, snap, heard, done>>
songVars   == <<chip_emulated, exchip_slave_entry>>
vars == <<chip_emulated, exchip_slave_entry, run_slave, slave_ready, ftf,
          exchip_rb, rb_wr, mpc, op, cmd, half, writes, spc, running, rb_rd,
          snap, heard, session, sent, done>>

Slots == 0 .. RingSize - 1
Kinds == {"reg", "update", "frame"}         \* what a session carries
Blank == [kind |-> "blank", sess |-> 0, n |-> 0]
Entries == [kind : Kinds \cup {"stop", "blank"}, sess : Nat, n : Nat]

\* exchip_rb_wr is a 16-bit byte index, rb_rd is masked with 0x3FFF.
Slot(i) == i % RingSize
AfterUnmasked(slot) == slot + 1                  \* mutant: no wrap-around
After(slot) == Slot(slot + 1)

ChipLoop == {"power", "poll", "clear", "snapshot", "drain", "leave"}

Init ==
    /\ chip_emulated = NoChip
    /\ exchip_slave_entry = NoChip
    /\ run_slave = FALSE
    /\ slave_ready = FALSE
    /\ ftf = FALSE
    /\ exchip_rb = [s \in Slots |-> Blank]
    /\ rb_wr = 0
    /\ mpc = "idle" /\ op = "none" /\ cmd = "stop" /\ half = 0 /\ writes = 0
    /\ spc = "parked" /\ running = NoChip /\ rb_rd = 0 /\ snap = 0
    /\ heard = Blank
    /\ session = 0 /\ sent = 0 /\ done = 0

-----------------------------------------------------------------------------
(* The master: opening and closing songs. *)

\* nsfcore_load() and nsfcore_close() begin with slave_stop(), and so does
\* emu_init(), which nsfcore_set_song() calls between two frames.
CallStop(what) ==
    /\ mpc \in {"idle", "play"}
    /\ half = 0
    /\ what = "song" => session < MaxSessions
    /\ op' = what
    /\ mpc' = "stop"
    /\ UNCHANGED <<songVars, run_slave, slave_ready, ftf, exchip_rb, rb_wr,
                   cmd, half, writes, slaveVars, session, sent>>

\* Mutant: slave_stop() does not wait for the slave.
StopTestNoWait ==
    /\ mpc = "stop"
    /\ run_slave' = FALSE
    /\ mpc' = "stopped"
    /\ UNCHANGED <<songVars, slave_ready, ftf, exchip_rb, rb_wr, op, cmd,
                   half, writes, slaveVars, session, sent>>

\* slave_stop(): nothing to do without a chip or a session.
StopTest ==
    /\ mpc = "stop"
    /\ IF chip_emulated # NoChip /\ run_slave
       THEN /\ run_slave' = FALSE
            /\ mpc' = "stopping"
       ELSE /\ mpc' = "stopped"
            /\ UNCHANGED run_slave
    /\ UNCHANGED <<songVars, slave_ready, ftf, exchip_rb, rb_wr, op, cmd,
                   half, writes, slaveVars, session, sent>>

\* The slave is on its way to look at the ring, or has just found it empty.
Looking ==
    \/ spc \in {"clear", "snapshot"}
    \/ spc = "poll" /\ ftf
    \/ spc = "drain" /\ rb_rd = snap

\* Mutant: one STOP per session instead of one per round of the loop.
StopLoopOnce ==
    /\ mpc = "stopping"
    /\ ~Looking
    /\ slave_ready => cmd # "stop"
    /\ IF slave_ready
       THEN mpc' = "store" /\ cmd' = "stop"
       ELSE mpc' = "stopped" /\ UNCHANGED cmd
    /\ UNCHANGED <<songVars, run_slave, slave_ready, ftf, exchip_rb, rb_wr,
                   op, half, writes, slaveVars, session, sent>>

\* while(nsfcore_slave_ready): one STOP command more.  The loop waits 1000 cycles
\* each time, the chip loop 100 between two polls: a slave with nothing to drain has
\* looked before the next STOP is written.  A slave that drains may be passed any
\* number of times.
StopLoop ==
    /\ mpc = "stopping"
    /\ ~Looking
    /\ IF slave_ready
       THEN mpc' = "store" /\ cmd' = "stop"
       ELSE mpc' = "stopped" /\ UNCHANGED cmd
    /\ UNCHANGED <<songVars, run_slave, slave_ready, ftf, exchip_rb, rb_wr,
                   op, half, writes, slaveVars, session, sent>>

\* nsfcore_close() forgets the song; nsfcore_load() then reads another one.
Close ==
    /\ mpc = "stopped"
    /\ op \in {"close", "load"}
    /\ chip_emulated' \in IF op = "close" THEN {NoChip} ELSE Chips \cup {NoChip}
    /\ mpc' = "idle"
    /\ op' = "none"
    /\ UNCHANGED <<exchip_slave_entry, run_slave, slave_ready, ftf, exchip_rb,
                   rb_wr, cmd, half, writes, slaveVars, session, sent>>

\* Mutant: the entry function is set for the first song only.
EmuInitKeepsEntry ==
    /\ mpc = "stopped"
    /\ op = "song"
    /\ exchip_slave_entry' = IF exchip_slave_entry = NoChip THEN chip_emulated
                                                          ELSE exchip_slave_entry
    /\ mpc' = "start"
    /\ op' = "none"
    /\ half' = 0
    /\ UNCHANGED <<chip_emulated, run_slave, slave_ready, ftf, exchip_rb, rb_wr,
                   cmd, writes, slaveVars, session, sent>>

\* emu_init(): choose the slave's entry function ...
EmuInit ==
    /\ mpc = "stopped"
    /\ op = "song"
    /\ exchip_slave_entry' =
          IF chip_emulated # NoChip THEN chip_emulated ELSE exchip_slave_entry
    /\ mpc' = "start"
    /\ op' = "none"
    /\ half' = 0
    /\ UNCHANGED <<chip_emulated, run_slave, slave_ready, ftf, exchip_rb, rb_wr,
                   cmd, writes, slaveVars, session, sent>>

\* ... and slave_start().
StartTest ==
    /\ mpc = "start"
    /\ IF chip_emulated # NoChip /\ ~run_slave
       THEN rb_wr' = 0 /\ mpc' = "clear"
       ELSE mpc' = "play" /\ UNCHANGED rb_wr
    /\ UNCHANGED <<songVars, run_slave, slave_ready, ftf, exchip_rb, op, cmd,
                   half, writes, slaveVars, session, sent>>

StartClear ==
    /\ mpc = "clear"
    /\ exchip_rb' = [s \in Slots |-> Blank]
    /\ mpc' = "arm"
    /\ UNCHANGED <<songVars, run_slave, slave_ready, ftf, rb_wr, op, cmd, half,
                   writes, slaveVars, session, sent>>

StartArm ==
    /\ mpc = "arm"
    /\ run_slave' = TRUE
    /\ session' = session + 1
    /\ sent' = 0
    /\ done' = 0
    /\ mpc' = "kick"
    /\ UNCHANGED <<songVars, slave_ready, ftf, exchip_rb, rb_wr, op, cmd, half,
                   writes, spc, running, rb_rd, snap, heard>>

StartKick ==
    /\ mpc = "kick"
    /\ ftf' = TRUE
    /\ mpc' = "await"
    /\ UNCHANGED <<songVars, run_slave, slave_ready, exchip_rb, rb_wr, op, cmd,
                   half, writes, slaveVars, session, sent>>

StartAwait ==
    /\ mpc = "await"
    /\ slave_ready
    /\ mpc' = "play"
    /\ UNCHANGED <<songVars, run_slave, slave_ready, ftf, exchip_rb, rb_wr, op,
                   cmd, half, writes, slaveVars, session, sent>>

-----------------------------------------------------------------------------
(* The master: running frames. *)

\* nsfcore_run_frame() starts a half frame.  apu_frame() keeps the master from
\* running ahead of real time: at most Lag entries are unread by now.
BeginHalf ==
    /\ mpc = "play"
    /\ sent - done <= Lag \/ chip_emulated = NoChip
    /\ half = 0 => sent <= MaxSent
    /\ mpc' = "half"
    /\ writes' = 0
    /\ UNCHANGED <<songVars, run_slave, slave_ready, ftf, exchip_rb, rb_wr, op,
                   cmd, half, slaveVars, session, sent>>

\* The 6502 writes a chip register: the write functions of s6502.S.
ChipWrite ==
    /\ mpc = "half"
    /\ chip_emulated # NoChip
    /\ writes < HalfWrites
    /\ writes' = writes + 1
    /\ cmd' = "reg"
    /\ mpc' = "store"
    /\ UNCHANGED <<songVars, run_slave, slave_ready, ftf, exchip_rb, rb_wr, op,
                   half, slaveVars, session, sent>>

\* The half frame is over: slave_force_update() returns at once without chip.
EndHalf ==
    /\ mpc = "half"
    /\ IF chip_emulated # NoChip
       THEN mpc' = "store" /\ cmd' = "update" /\ UNCHANGED half
       ELSE mpc' = "play" /\ half' = 1 - half /\ UNCHANGED cmd
    /\ UNCHANGED <<songVars, run_slave, slave_ready, ftf, exchip_rb, rb_wr, op,
                   writes, slaveVars, session, sent>>

\* slave_write(): the entry first ...
Store ==
    /\ mpc = "store"
    /\ exchip_rb' = [exchip_rb EXCEPT ![rb_wr] =
                        [kind |-> cmd, sess |-> session,
                         n |-> IF cmd = "stop" THEN 0 ELSE sent]]
    /\ mpc' = "advance"
    /\ UNCHANGED <<songVars, run_slave, slave_ready, ftf, rb_wr, op, cmd, half,
                   writes, slaveVars, session, sent>>

\* ... then the index.
Advance ==
    /\ mpc = "advance"
    /\ rb_wr' = After(rb_wr)
    /\ sent' = IF cmd = "stop" THEN sent ELSE sent + 1
    /\ mpc' = IF cmd = "reg" THEN "half" ELSE "trigger"
    /\ UNCHANGED <<songVars, run_slave, slave_ready, ftf, exchip_rb, op, cmd,
                   half, writes, slaveVars, session>>

\* The store to 0x21000000.  After the update of the second half comes
\* slave_frame().
Trigger ==
    /\ mpc = "trigger"
    /\ ftf' = TRUE
    /\ \/ /\ cmd = "stop"
          /\ mpc' = "stopping"
          /\ UNCHANGED <<cmd, half>>
       \/ /\ cmd = "update" /\ half = 0
          /\ mpc' = "play" /\ half' = 1
          /\ UNCHANGED cmd
       \/ /\ cmd = "update" /\ half = 1
          /\ mpc' = "store" /\ cmd' = "frame"
          /\ UNCHANGED half
       \/ /\ cmd = "frame"
          /\ mpc' = "play" /\ half' = 0
          /\ UNCHANGED cmd
    /\ UNCHANGED <<songVars, run_slave, slave_ready, exchip_rb, rb_wr, op,
                   writes, slaveVars, session, sent>>

-----------------------------------------------------------------------------
(* The slave. *)

SlaveOnly == UNCHANGED <<songVars, run_slave, exchip_rb, rb_wr, masterVars,
                         session, sent>>

\* nsfcore_slave_entry(): while(!run_slave).
Parked ==
    /\ spc = "parked"
    /\ spc' = IF run_slave THEN "boot" ELSE "wait"
    /\ UNCHANGED <<slave_ready, ftf, running, rb_rd, snap, heard, done>>
    /\ SlaveOnly

ParkedWait ==
    /\ spc = "wait"
    /\ ftf
    /\ spc' = "unflag"
    /\ UNCHANGED <<slave_ready, ftf, running, rb_rd, snap, heard, done>>
    /\ SlaveOnly

\* Mutant: the flag alone, not run_slave, starts the chip loop.
ParkedClearStarts ==
    /\ spc = "unflag"
    /\ ftf' = FALSE
    /\ spc' = "boot"
    /\ UNCHANGED <<slave_ready, running, rb_rd, snap, heard, done>>
    /\ SlaveOnly

\* Mutant: run_slave is not tested again once the slave waits.
ParkedClearWaitsOn ==
    /\ spc = "unflag"
    /\ ftf' = FALSE
    /\ spc' = "wait"
    /\ UNCHANGED <<slave_ready, running, rb_rd, snap, heard, done>>
    /\ SlaveOnly

ParkedClear ==
    /\ spc = "unflag"
    /\ ftf' = FALSE
    /\ spc' = "parked"
    /\ UNCHANGED <<slave_ready, running, rb_rd, snap, heard, done>>
    /\ SlaveOnly

\* The jump through exchip_slave_entry.
Boot ==
    /\ spc = "boot"
    /\ running' = exchip_slave_entry
    /\ spc' = "power"
    /\ UNCHANGED <<slave_ready, ftf, rb_rd, snap, heard, done>>
    /\ SlaveOnly

\* Mutant: the read index survives the session.
ChipReadyKeepsIndex ==
    /\ spc = "power"
    /\ slave_ready' = TRUE
    /\ spc' = "poll"
    /\ UNCHANGED <<ftf, running, rb_rd, snap, heard, done>>
    /\ SlaveOnly

\* The chip's state starts as zeroes, rb_rd with it; then it is ready.
ChipReady ==
    /\ spc = "power"
    /\ rb_rd' = 0
    /\ slave_ready' = TRUE
    /\ spc' = "poll"
    /\ UNCHANGED <<ftf, running, snap, heard, done>>
    /\ SlaveOnly

ChipPoll ==
    /\ spc = "poll"
    /\ ftf
    /\ spc' = "clear"
    /\ UNCHANGED <<slave_ready, ftf, running, rb_rd, snap, heard, done>>
    /\ SlaveOnly

ChipClear ==
    /\ spc = "clear"
    /\ ftf' = FALSE
    /\ spc' = "snapshot"
    /\ UNCHANGED <<slave_ready, running, rb_rd, snap, heard, done>>
    /\ SlaveOnly

ChipSnapshot ==
    /\ spc = "snapshot"
    /\ snap' = rb_wr
    /\ spc' = "drain"
    /\ UNCHANGED <<slave_ready, ftf, running, rb_rd, heard, done>>
    /\ SlaveOnly

\* while(rb_rd != rb_wr): one command.
ChipDrain ==
    /\ spc = "drain"
    /\ rb_rd # snap
    /\ rb_rd' = After(rb_rd)
    /\ IF exchip_rb[rb_rd].kind = "stop"
       THEN spc' = "leave" /\ UNCHANGED <<heard, done>>
       ELSE heard' = exchip_rb[rb_rd] /\ done' = done + 1 /\ UNCHANGED spc
    /\ UNCHANGED <<slave_ready, ftf, running, snap>>
    /\ SlaveOnly

\* Mutant: the flag is cleared after the ring has been drained, too.
ChipDrainedClearsFlag ==
    /\ spc = "drain"
    /\ rb_rd = snap
    /\ ftf' = FALSE
    /\ spc' = "poll"
    /\ UNCHANGED <<slave_ready, running, rb_rd, snap, heard, done>>
    /\ SlaveOnly

ChipDrained ==
    /\ spc = "drain"
    /\ rb_rd = snap
    /\ spc' = "poll"
    /\ UNCHANGED <<slave_ready, ftf, running, rb_rd, snap, heard, done>>
    /\ SlaveOnly

\* The chip loop has returned on STOP.
ChipLeave ==
    /\ spc = "leave"
    /\ slave_ready' = FALSE
    /\ spc' = "parked"
    /\ UNCHANGED <<ftf, running, rb_rd, snap, heard, done>>
    /\ SlaveOnly

-----------------------------------------------------------------------------
\* What the master does without being asked: everything but the user's choices.
MasterStep ==
    \/ StopTest \/ StopLoop \/ Close \/ EmuInit
    \/ StartTest \/ StartClear \/ StartArm \/ StartKick \/ StartAwait
    \/ EndHalf \/ Store \/ Advance \/ Trigger

SlaveStep ==
    \/ Parked \/ ParkedWait \/ ParkedClear \/ Boot \/ ChipReady \/ ChipPoll
    \/ ChipClear \/ ChipSnapshot \/ ChipDrain \/ ChipDrained \/ ChipLeave

Next ==
    \/ \E what \in {"load", "close", "song"} : CallStop(what)
    \/ BeginHalf
    \/ ChipWrite
    \/ MasterStep
    \/ SlaveStep

\* Both processors keep running.
Fairness == WF_vars(MasterStep) /\ WF_vars(SlaveStep)

Spec == Init /\ [][Next]_vars
FairSpec == Spec /\ Fairness
-----------------------------------------------------------------------------
(* Properties. *)

\* Every variable stays in its range.
TypeOK ==
    /\ chip_emulated \in Chips \cup {NoChip}
    /\ exchip_slave_entry \in Chips \cup {NoChip}
    /\ run_slave \in BOOLEAN
    /\ slave_ready \in BOOLEAN
    /\ ftf \in BOOLEAN
    /\ exchip_rb \in [Slots -> Entries]
    /\ rb_wr \in Slots
    /\ mpc \in {"idle", "stop", "stopping", "stopped", "start", "clear", "arm",
                "kick", "await", "play", "half", "store", "advance", "trigger"}
    /\ op \in {"none", "load", "close", "song"}
    /\ cmd \in Kinds \cup {"stop"}
    /\ half \in {0, 1}
    /\ writes \in 0 .. HalfWrites
    /\ spc \in {"parked", "wait", "unflag", "boot"} \cup ChipLoop
    /\ running \in Chips \cup {NoChip}
    /\ rb_rd \in Slots
    /\ snap \in Slots
    /\ heard \in Entries
    /\ session \in Nat /\ sent \in Nat /\ done \in Nat

\* The entry the chip loop is about to act on is the next one of its own
\* session, or a STOP of it: no entry is lost, repeated, overtaken or left over
\* from the song before, although nothing in slave_write() looks for room and
\* slave_stop() may write STOP commands over entries not read yet.
InOrder ==
    (spc = "drain" /\ rb_rd # snap) =>
        LET e == exchip_rb[rb_rd] IN
        /\ e.sess = session
        /\ \/ e.kind \in Kinds /\ e.n = done
           \/ e.kind = "stop" /\ ~run_slave

\* The slave is in the loop of the song's chip, whatever songs were loaded and
\* closed before: exchip_slave_entry is read by the slave without handshake.
RightChip ==
    /\ spc \in ChipLoop => running = chip_emulated /\ running # NoChip
    /\ mpc \in {"play", "half"} /\ chip_emulated # NoChip =>
          run_slave /\ slave_ready

\* While emu_init() and slave_start() reset index, ring and entry function, the
\* slave is not in a chip loop, nor on its way into one.
RingQuiet ==
    mpc \in {"stopped", "start", "clear", "arm"} =>
        ~slave_ready /\ spc \in {"parked", "wait", "unflag"}

\* An update command is acted on, or the session is closed: the slave never
\* sleeps through the store to 0x21000000 that announces it.
UpdateHeard ==
    \A k \in 0 .. MaxSent + 2 * HalfWrites + 2 :
        (mpc = "trigger" /\ cmd = "update" /\ sent = k)
            ~> (done >= k \/ ~run_slave)

\* slave_start() returns: its single trigger is not lost.
StartReturns == (mpc = "kick") ~> (mpc = "play")

\* slave_stop() returns, even when its STOP commands go around the ring.
StopReturns == (mpc = "stopping") ~> (mpc = "stopped")

\* The link implements the abstract session (ChipSession).
Phase == IF run_slave THEN "on" ELSE IF slave_ready THEN "closing" ELSE "off"
Session == INSTANCE ChipSession WITH phase <- Phase
ImplementsSession == Session!Spec
=============================================================================
