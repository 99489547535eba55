# A verification project for CroNSF

CroNSF plays NSF music files on the Sega Saturn. A master SH-2 emulates the 6502 that runs the
song's code and renders the NES APU through the SCSP's DSP; a slave SH-2 emulates the song's
expansion chip; files come from CD through the CD block. This directory holds TLA+ models of the
parts where order, laziness and concurrency make the code hard to test, the TLC runs that check
them, and proofs of the central results.

Paths below are relative to `src/`.

## 1. Inventory

| component | files | state it keeps | operations | properties that make it correct | modelled |
|---|---|---|---|---|---|
| master/slave chip link | `nsfcore.c` 562-630, 893-951, 1061-1106; the loops at the end of `vrc6.c`, `mmc5.c`, `fds.c`, `n163.c`, `sun5b.c`; `s6502.S` chip writes | `exchip_rb`, `exchip_rb_wr`, `run_slave`, `nsfcore_slave_ready`, `exchip_slave_entry`, the timer flag, each loop's `rb_rd` | open, close, start a song; chip write; half frame; frame; slave: park, boot, poll, drain, leave | every command heard once, in order, by the right chip, in its session; the handshakes end | `SlaveLink`, `ChipSession` |
| MMC5 | `mmc5.c`, `s6502.S` 650-866, 1259-1267 | length counters, status and frame divider, twice | $5000-$5015 writes, $5015 read, frame end, catch-up on both sides | the status read is the sound heard; the dividers stay in step | `Mmc5Shadow` (counters) |
| FDS | `fds.c`, `s6502.S` 871-1086, 1214-1243 | envelopes, envelope clock and wave memory, twice | $4040-$408A writes, $4090/$4092/wave reads, frame end, catch-up | levels and wave memory read are those heard; the clocks stay in step | `FdsShadow` (envelopes, wave memory) |
| CD stream | `gs/cdb.c` 92-152, 333-710 | `stream_*` positions and sector, `stream_pb_*` mirror of the partition; the drive's own state | init, seek, read, reinitialise | mirror = partition; bytes are those of the position; a read ends | `CdStream` |
| user interface | `cronsf.c` | phase, error message, buttons, selector stack, viewer positions, screen mode | one turn of the loop per V-blank or frame | a press acts once; the stack leads home; sound and emulation only with an accepted song and its image | `Player` |
| file system | `fsys.c` | entry table filled from both ends, current directory, open file | init, open, change/save/restore directory, read | every index names one entry, in order; a failed change leaves a way back | `DirTable` (directories) |
| NSF/NSFe loader | `nsfcore.c` 151-524, 632-740, 1029-1059, 1318-1331 | `meta`, ROM, banks, mix levels, SCSP image swap | load, close, swap | a song inherits nothing of files loaded, viewed or refused before; levels fit | `NsfLoad` |
| address space | `nsfcore.c` 665-850, 1108-1196 | `rfap`, `wfap`, `banks_4k`, per address or page | init, start of a song, bank registers | functions and pages are the song's; no writable page outside the ROM array | `SongMap` |
| 6502 | `s6502.S`, `s6502.h`, `shim_6502.asm` | registers, PC with its bank pointer, N/Z word, cycle counter | instructions, slices of `s6502_run()` | registers, memory, accesses and times of a 6502 | `CpuBus`, `Mos6502`, `Cpu6502` |
| APU | `apu.c` | channel units, frame counter, DMC, FIFO to the DSP | register writes, status read, `apu_force_update`, `apu_frame` | lazy = immediate; each change in its sample | `Apu` |
| VRC6, Sunsoft 5B, N163 sound | `vrc6.c`, `sun5b.c`, `n163.c` | oscillators, delayed periods, predicted levels, decoded channels, resampling position | register writes, run, frame | what is played is what the registers say; no drift; no half-written period is heard | `Vrc6Voices`, `Sun5bVoices`, `N163Voices`, `Resampler`, `SlaveVoices` (sound); loop in `SlaveLink` |
| SMPC, input | `gs/smpc.c`, `cronsf.c` 130-249 | SF, COMREG, buttons | INTBACK per V-blank, sound/CD/slave on/off | one command at a time | buttons in `Player` |
| graphics, SCSP set-up, boot, C library, build tools, hardware tests | `gfx.c`, `gs/scsp.c`, `init68k.c`, `sys_ipl.c`, `stdlib/`, `gentables.cpp`, `test*` | - | - | - | no: I/O, tables, libraries |

**Interaction.** `cronsf.c` opens a file through `fsys.c` (which reads through `gs/cdb.c`), hands
it to `nsfcore_load()`, starts a song (`nsfcore_set_song()` -> `emu_init()`), then calls
`nsfcore_run_frame()` per frame. That runs the 6502 in two halves; its register handlers write
APU state or append to `exchip_rb`; after each half the slave is told to catch up through an
uncached flag, and `apu_frame()` blocks until the sound hardware has caught up with real time.

**What is hard.** No lock anywhere: the two processors share a ring that is never checked for
room, flags in uncached memory, and a hardware flag that is level-triggered and cleared by
software. Two chips have their registers twice, each copy caught up at different moments. The CD
block plays by itself while the stream's mirror of its buffer is updated by several commands.
`PROJECT.json` lists each hazard at its line.

## 2. Modules and how they correspond to the code

Every shared access is a step of its own where two processors (or processor and drive) meet;
code that nobody can observe in between is one step. Each definition's lines are in
`PROJECT.json` ("map").

**ChipSession** - what the link promises: a session is opened, commands are sent and acted on
one at a time, in order, each once; closing drops the rest and always completes. Nothing of ring,
flags or handshakes.

**SlaveLink** - the link itself. `mpc` and `spc` say where master and slave are;
`StopTest/StopLoop/Store/Advance/Trigger` are `slave_stop()`, `slave_write()` and the stores to
`0x21000000`; `StartTest ... StartAwait` are `slave_start()` line by line; `BeginHalf/ChipWrite/
EndHalf` are `nsfcore_run_frame()`; `Parked ... Boot` are `nsfcore_slave_entry()`; `ChipReady ...
ChipDrained` are the loop that the five chips share. An entry of the ring is a record with the
command's kind, its session and its number there: the latter two exist only in the model, as do
`session`, `sent`, `done`. Two assumptions of time, which the code makes silently:
 - `Lag`: `apu_frame()` (`apu.c` 921-985) blocks the master until real time has caught up, so that
   when a half frame starts only `Lag` commands are unread. `HalfWrites` bounds the writes of a half
   frame: 14,890 cycles at four cycles for the shortest store make at most 3,723 of them,
   against a ring of 16,384.
 - `Looking` in `StopLoop`: the master waits about 1000 cycles between two STOPs, a slave with
   nothing to drain polls every 100; it has therefore looked before the next STOP is written. A
   slave that still drains may be overtaken any number of times.

**Mmc5Shadow** - `m` is `mmc5_master`, `s` the slave's `mmc5`. `Begin` starts an access of the
6502 (or the end of a frame), `MasterUpdate` is one round of `mmc5_master_update_counters()`,
`Finish` the access itself and its command. `SlaveUpdate` and `SlaveCommand` are the loop of
`mmc5_slave_entry()`. The ring is a sequence, which is what `CommandsInOrder` proves of it.

**FdsShadow** - the same for the FDS: `MasterTick`/`SlaveTick` are the two catch-up loops,
`MasterEnv`, `MasterSpeed`, `MasterFrame`, `WriteWave` the handlers. The slave's counters are int8
and start at 0; `Wrap` stands for 128. `SpillTop` stands for the address that the update shim
leaves in `r2` (about 0x06000000): any value beyond a frame has the same effect, the model takes a
small one to keep time small. `faults` remembers the two accesses after which the copies are known
to differ (the gate and the speed of section 5), `written` the cells the song wrote.

**CdStream** - `pc` is the place in `cdb_stream_read()`/`stream_read_real()` between two commands to
the CD block; the data of a sector is its address. The drive (`Spin`, `Deliver`, `Resume`,
`Trouble`, `CloseLid`) is external: it plays from the sector asked for, appends to the partition,
pauses when it is full, resumes when there is room, may fail, go to standby or be opened. Any
command may be rejected. `UpdatePb` learns of half of the new sectors, as the loop of `update_pb()`
does (its index rises while its bound falls). `Reinit` is `init_stream(true)`: `accepted` says after
how many of its commands (disconnect, seek, clear, connect) one is rejected, which nobody looks at.
`unfetched` remembers the situation of the run `cd_boundary`.

**Apu** - a unit is one record; each function of `apu.c` is an operator from unit to unit with the
time as argument. `lazy` is treated as the code does, `eager` gets the same accesses and is caught up
with in every cycle by the same functions; a step is a cycle with at most one access, or the end of
a half frame (`HalfFrame`) or frame (`EndFrame`). `failed` collects the lines of the `assert`s that
do not hold. The output is the FIFO's entry under construction with its sample, the deltas of
the PCM level, and the phase resets. A song uses the registers of one part of the unit: parts
share no state but the frame counter, the status and the FIFO. Left out: duty, the noise
channel's period ($400E) and generator, the values of the tables.

**Resampler** - what `sun5b.c` and `n163.c` do after each sample of the chip: the divider and the
source of the filter, an integer and a fraction with a carry of its own. **Vrc6Voices**,
**Sun5bVoices**, **N163Voices** - a chip's state as one record, `RunVrc`/`RunSun`/`RunNamco` its run up
to a time, `Set...` its registers, next to the data the properties compare it with: the saw's
accumulator added up sample by sample, the envelope as the shape's name describes it. The values of the
waveforms and the filter's arithmetic are left out. **SlaveVoices** is the slave's loop around them:
a song of one chip sends writes, updates and frame ends, `Gaps` cycles apart. About VRC6 songs it
assumes what the code's comment assumes (`vrc6.c` 25-29): a period is written low byte first, its two
halves within half a sample (`PairGap`) and no two periods within half a sample (`PairRest`). `half`,
`since`, `whole` and `torn` exist only in the model, to tell half-written periods from others.

**DirTable** - `ReadDirectory` is `read_iso_directory()`: one array, directories from the front,
files from the back, `GetEntry` the reading through one index. The code ignores the results of its
reads (`fsys.c` 142, 147). A read fails only where the drive must be asked, at the start of a sector, and
leaves position and buffer as they were; the next one may succeed. `Deliveries` are the sequences of
records the loop may then see. Without a failure it is the directory's. With one, after record i (or
before the first, with an uninitialised buffer) come up to `MaxStray` records that are record i again, when
its length byte is taken for that of the next, or `Strays`, when the loop is out of step with the
records; of the records that follow up to `MaxStray` are lost, and the rest is in step again. Hidden records
count as records. A failure after padding repeats the read and changes nothing. The entries made of such
bytes lead anywhere: to places that `Disc` describes as well, by the records one would find there. `ok`
is what the function returns, `whole`, which the code does not have, whether it saw the directory's records.
**NsfLoad** - `NsfcoreLoad` is `nsfcore_load()` as a function of the core's data before,
the file and how many of its parts (magic, header or chunks, ROM) the drive delivers. **SongMap** -
`InitialMap` is what `nsfcore_init()` leaves in the tables of read and write functions, `EmuInitMap`
what `emu_init()` changes of it, by regions. These three have no variables; **Player** composes them
with the main loop of `cronsf.c`. One step is a turn of that loop: `Turn` reads the pad
(`UpdateInput`), and one of `ShowMessage`, `Start`, `SelectorTurn`, `OpenHex`, `OpenText`, `OpenSong`,
`ViewText`, `ViewHex`, `Play` is the branch the phase takes; `SwitchBank` is the song's write to a
bank register within a frame. `credit` counts presses that have not acted yet (a B held for
`LongHold` turns counts a second time, since it is the code's way to leave a viewer), `wish` the mode
asked for by Z, `faults` the reads that failed, `home` the directory the selector started in: `fsys_init()`
ignores the results of its reads, too (278, 312), and may start in another one (`StartReads`). `sure` notes
of an entry of the selector's stack whether the table it was made on was right. `Buttons` are all thirteen,
L and R with their moves of seven screens (`Delta`) included.

**CpuBus** - memory of the emulated 6502 behind `rfap`/`wfap`: RAM with mirrors, the frame flag,
bank registers, ROM pages, the open bus. **Mos6502** - a 6502 on this bus, the reference: effects,
accesses and cycles. Modelled from the processor's documentation, hence marked external. **Cpu6502** -
one operator for each macro of `s6502.S`, on a record of the SH-2's registers: the PC is a host
address with the bank pointer `base` of the last jump, `nz` the word from which N and Z are told.
An action takes one instruction of the program and runs emulator and reference side by side;
`RunSlice` is a call of `s6502_run()`. Programs are families: a sequence of sets of instructions.
Left out: BRK and RTI, the decimal and interrupt flags, undocumented opcodes (all one-byte no-ops in
the emulator), interrupts (an NSF has none). The chips' handlers are in `Mmc5Shadow`, `FdsShadow` and
`SlaveLink`.

## 3. Runs and bounds

| run | shows | bounds, and why they are enough |
|---|---|---|
| `link` | type invariant, order, right chip, quiet restart, no lost trigger, refinement | Ring of 4 against sessions of up to 8 commands (a frame starts while at most `MaxSent`, 3, were sent, so a second one after a frame without writes): it wraps in mid-frame and during STOPs. One write per half frame and `Lag` 0 is exactly the limit `Lag + HalfWrites + 2 < RingSize` of the theorem. Two chips and two sessions: every restart, with and without a change of chip. |
| `mmc5` | status = sound; dividers in step | dividers of 2 and 3 cycles against frames of 4, so frame ends fall on every phase; both channels; the slave two commands behind. |
| `fds` | levels = levels heard; clocks in step; wave memory | one envelope (the two do not interact), values at 0 and above the cap of 2, clock of 3 against frames of 4, its speed changed and stopped, gate on and off, int8 of 10 values so that a counter wraps. And songs on two cells of wave memory with two contents, protection on and off, the slave two commands behind. |
| `fds_speed` | finding 1 | `Check` on (`EXCHIP_CONSISTENCY_CHECK`), the gate left alone. |
| `cd` | mirror, right bytes, reads end | sectors of 2 bytes, partition of 3, pruned to 2, disc of 4: every ratio of the real ones (2048, 200, 128) that a decision uses; reads within a sector and across two boundaries; one failure of any kind at any point, and one more in the reinitialisation after the lid. 2.2 million states. |
| `cd_boundary` | finding 2 | no failure at all. |
| `apu` | lazy = immediate, status, asserts, FIFO | sequencer of 5 half cycles, frames of 8 cycles, samples of 3, triangle delay of 3: events coincide with frame ends, with each other and with accesses in every way. Seven songs, each with three accesses at any cycle over two frames; bytes of two bits, DMC periods on either side of the sequencer's. 0.75 million states. |
| `apu_stop` | finding 3 | the DMC's registers alone. |
| `voices` | no drift, sound = registers, the saw is never torn | samples of 16 units at 3 per cycle, a dividend of 20 for the saw's quotient (on either side of its signed limit), 5B samples at 5/8 and N163 samples at 3/8 of the output's rate, so every remainder occurs; N163 bytes of three bits, so that a channel's length and offset are written as well; rings of 8; gaps of 2 and 7 cycles against frames of 8 to 10; five songs of two or three writes, two to four frames. 0.99 million states. |
| `vrc6_pair` | finding 4 | one pulse, its period only. |
| `player` | the whole main loop over table, loader and map | four directories, one empty, one larger than the table of 4, one three deep against a stack of 2; two song formats, both television standards, FDS and MMC5 among the chips, a song without an end chunk; seven buttons, alone and two at once, a long hold of 3 turns and counters that stop at 4, so that a hold is seen before, at and after its limit; a ROM array of 8 cells, the least the bank registers need; one failing read at any place, which may put one record in and lose one (`MaxStray`): a record twice, one missing, one that is none and leads to a place that is no directory. 0.63 million states under a view that leaves out what is set before it is read. |
| `cpu` | the emulator is a 6502 | bytes of 5 bits (every carry, sign and wrap of a byte happens), 1024 addresses, 16 banks of 64; twelve families of programs: the ALU over all operands and carries, the addressing modes at RAM, mirrors, frame flag, bank registers and ROM with indices on both sides of a page, pointers that wrap, jumps and returns over switched banks, the idle loop. 0.18 million states. |

`MaxSent`, `MaxSessions`, `MaxQueue`, `MaxTroubles`, `MaxFaults`, `MaxFrames` and a song's numbers of
accesses, writes and frames are bounds of the models only and stand in guards. `CHECK_DEADLOCK FALSE` is
used only where the run ends: in `apu`, `apu_stop`, `voices` and `vrc6_pair` after the last frame of a
song, in `fds_speed` when `abort()` ends the program.

**Fairness.** `link`: weak fairness of each processor as a whole - both run their own loops without
stopping; nothing is assumed of the user (`CallStop`), of the song (`ChipWrite`) or that another
frame begins. `cd`: weak fairness of the processor, and of the drive for ending a seek, delivering
sectors while it plays and having its lid closed again; resuming by itself after a pause is not
assumed. The other modules check safety only.

## 4. Properties

 - `InOrder`: at every command the chip loop takes, session and number are the expected ones. It
   would fail for a missing wrap, an index that survives a restart, an entry overwritten before it is
   read, a STOP of the song before.
 - `RightChip`, `RingQuiet`: the two halves of the handshake around a change of song.
 - `UpdateHeard`, `StartReturns`, `StopReturns`: no trigger is lost, whichever side of the
   slave's test-and-clear it falls on.
 - `StatusIsHeard`, `LevelsAreHeard`, `WaveIsHeard`: what the song reads back is what the listener
   hears, whenever the slave has caught up; `FramesInStep`, `ClocksInStep` the same for the clocks
   that both sides rebase separately.
 - `Mirror`: what the `assert`s of `gs/cdb.c` say at a few places, at every step;
   `SectorRightInside`: bytes are copied from the right sector unless finding 2 applies; `ReadEnds`: a
   read returns through every failure but one, a reinitialisation cut short by a rejected command,
   which leaves the drive without a connection to the partition.
 - `LazyIsExact`: at any moment, catching up gives the unit that was never behind, output included;
   `StatusIsPrompt` the same of a read of $4015 that skips the DMC. `AssertsHold`: no `assert` of
   `apu.c` fails outside finding 3. `CountersAgree`: status bits, enabled channels and the triangle's
   delayed period never disagree with the length counters. `FifoCurrent`: the entry under
   construction, made of cached copies, is what registers, envelopes, sweeps and counters say.
   `SlotsExact`: a difference of the PCM level or a phase reset reaches its own slot, once.
   Since `eager` uses the same functions, an error common to both (a wrong sweep, say) is not found by
   `LazyIsExact`; the other three state the result afresh.
 - `Resampled`: however the cycles are cut into commands and frames, each chip has given exactly the
   samples that belong to them, and the filter's source is where the divider says. `VoicesAsWritten`:
   predicted saw levels, envelope and decoded channels are those of the registers. `SawWhole`: no
   sample of the saw has half of a period.
 - `PathHome`: a table read without complaint, from a drive that answered, lists its directory, each entry
   at its place, whatever was misread before; the stack leads from the directory shown to where the selector
   started, each entry made on such a table with the position it was left at, after any failed changes.
   After a read that failed the table itself may be wrong (section 5); the entries made before and the next
   directory read are right. `SelectionVisible`: the selection is on the screen. `PressActsOnce`: nothing that happens while a button stays down is taken for a second press, whatever phases pass. `SongInPlace`,
   `LoadIsOwn`, `MapIsSongs`, `ModeIsUsers`: a song plays with its own image, data, levels, map and screen,
   whatever was loaded, viewed or refused before.
 - `Like6502`: registers, flags, memory, accesses and their order are a 6502's after every instruction;
   `OnTime`: so are the cycles, which decide what a lazily updated chip answers.

Each property has a mutant in `PROJECT.json`, a plausible mistake in the code that makes it fail.

## 5. Findings

 1. **FDS envelope speed** (`fds_speed`): the $408A handler relies on "r2=timestamp" (`s6502.S` 926,
    1043), which is false after `fds_update_shim`: the master's envelopes stop.
 2. **CD stream** (`cd_boundary`): after a read that ended with its sector (or failed before its
    sector came), a seek to another byte of the next sector makes `cdb_stream_read()` copy from the
    sector before.
 3. **DMC** (`apu_stop`): `assert(dmc_end_timestamp >= timestamp)` (`apu.c` 1007) is in every build. $4015
    with bit 4 off clears `byte_counter` and keeps `dmc_end_timestamp`; a lower rate written to $4010
    while the last bits drain does not recompute it, because `byte_counter` is 0; a frame that ends
    between the old time and the new stops the program.
 4. **VRC6 pulses** (`vrc6_pair`): the delay that keeps a sample from being played with half of a period
    needs the time of the other half. The saw's registers note it (`vrc6.c` 531, 569), the pulses' low
    bytes (458) do not, so that the high byte is delayed alone.

Also seen, without a run of their own:

 - Directories: `read_iso_directory()` ignores the results of its reads (`fsys.c` 142, 147).
   `cdb_stream_read()` fails for one rejected command (`gs/cdb.c` 516, 520, 574, 595) and works again at the
   next call. In the middle of a directory, at the start of a sector, the length of the record before is
   then taken for the next one's: that record is entered again, or the loop goes on one byte out of step,
   loses records and may take others for some. At the start of a directory the buffer is not even initialised.
   It ends with `ret` true, and a wrong table is shown without a message. `PathHome` claims nothing of such
   a table (without its `table.whole` it fails in the run `player` at the first directory loaded).
 - MMC5: switching a channel off through $5015 clears the slave's counter, the master only masks its
   status; the check of `mmc5.c` 391 aborts. Nothing can be heard of it: the status is right all the same
   (`StatusIsHeard`). FDS: bit 6 of $4083 reloads the slave's envelope counters, not the master's:
   $4090 reads a level that is not the one heard, and `fds.c` 785 aborts. `Mmc5Shadow` and `FdsShadow`
   show both with `Check` TRUE; the checks are debugging aids that no default build has.
 - VRC6: `pulse_period_changed()` (138-152) forgets the constant mode until the duty is written again. N163:
   after a channel's length was lowered its phase may lie beyond it for a step; cells of the waveform that
   the song never wrote play 0, written ones are shifted by 8.
 - `nsfcore_load_scsp_bin()` leaves its message in the core's own buffer, not in the one the main loop
   shows (`cronsf.c` 1012); `TIER = 0` follows the slave's start-up code while its interrupts are enabled
   (`nsfcore.c` 1063, marked FIXME in the source).
 - A B held through the opening of a file may do two things: its press goes up a directory or leaves, and
   its long hold leaves the viewer that has been opened meanwhile. That is the code's design.
 - `update_pb()` (`gs/cdb.c` 422) learns of only half of the new sectors per call, which costs commands but
   no correctness (`Mirror`, `ReadEnds` hold). A command rejected in `init_stream(true)` (577) can leave
   the drive disconnected: the read then waits for ever.
 - `fds_master_power()` leaves the wave memory of the song before in the master's copy, which is why
   `WaveIsHeard` speaks of cells the song has written.
 - Handlers of a chip below 0x8000 survive into the next song (`nsfcore.c` 692 resets only the bank
   registers and the ROM): a song without FDS, played after one with it, reads $4090 of the FDS.
   `MapIsSongs` excepts these regions. Without banks to remap, `emu_init()` saves and restores the reset
   vector through page F, which a bank beyond the ROM array puts outside of it (876).
 - Loader: an NSFe file that ends between two chunks is accepted, if need be without songs
   (`song_start % song_count`, `cronsf.c` 1149); an INFO chunk of 9 bytes is read as 10 (`nsfcore.c` 199);
   a DATA chunk before its BANK chunk is placed as if unbanked. Mix levels are lowered in 16 bits.
 - User interface: the filter gives a directory named `*.nsf` or `*.txt` the type of a file
   (`cronsf.c` 333); a failing `load_hex()`, a full stack and a failing read of `scspntsc.bin` (1012)
   show no message, the last one starting again for ever; `break` at the end of the text buffer (645)
   leaves only the inner loop; `read_iso_directory()` does not end while reads after padding fail (`fsys.c` 140). After
   a directory and then its parent could not be read, the parent is on the stack twice (`PathHome`).
 - 6502: read-modify-write on the zero page takes 3 or 4 cycles instead of 5 and 6, on absolute addresses
   4 instead of 6, with all three accesses at once; `(zp),Y` reads take one too many. `OnTime` excepts
   these. Reads of an undriven address through a pointer see a byte of the bus that is one access old;
   the programs of `cpu` have no such reads.

## 6. Proofs

Every theorem holds for every value of the constants that the module's assumption admits. The
assumptions say what the code's tables and types say: sizes and periods are positive, a register's
value fits into it, samples of a frame fit into the ring (`apu.c` pads it), no sample lasts until
`Never` (the longest takes some 14 million cycles of 2^32), `RomSize` has room for the
eight bank registers, a disc's entries name files that exist. TLC evaluates them in every run. The
constants that bound a model (`MaxSent`, `MaxFaults`, ...) are arbitrary numbers in the theorems.

| module | theorems | of |
|---|---|---|
| `SlaveLinkProofs` | `TypeCorrect`, `RightChipAlways`, `RingQuietAlways`; `CommandsInOrder`, `LinkImplementsSession` under `Paced` | `TypeOK`, `RightChip`, `RingQuiet`, `InOrder`; refinement of `ChipSession` |
| `Mmc5Proofs` | `Types`, `Heard`, `Boundary` | `TypeOK`, `StatusIsHeard`, `FramesInStep` |
| `FdsProofs` | `Types`, `Levels`, `Clocks`, `WaveMemory` | `TypeOK`, `LevelsAreHeard`, `ClocksInStep`, `WaveIsHeard` |
| `CdStreamProofs` | `Types`, `MirrorAlways`, `RightBytes` | `TypeOK`, `Mirror`, `SectorRightInside` |
| `ApuProofs` | `Types`, `Counters`, `Fifo`, `OutputSlots`, `Asserts`, `Exact`, `PromptStatus` | `TypeOK`, `CountersAgree`, `FifoCurrent`, `SlotsExact`, `AssertsHold`, `LazyIsExact`, `StatusIsPrompt` |
| `VoicesProofs` | `VoicesResampled`, `VoicesWritten`, `SawIsWhole` | `Resampled`, `VoicesAsWritten`, `SawWhole` |
| `PlayerProofs` | `Typed`, `Selection`, `Home`, `Once`, `Mode`, `Song`, `Own`, `Map` | `TypeOK`, `SelectionVisible`, `PathHome`, `PressActsOnce`, `ModeIsUsers`, `SongInPlace`, `LoadIsOwn`, `MapIsSongs` |

**The link.** `Paced == Lag + HalfWrites + 2 < RingSize` is needed for the order alone. The inductive
invariant has five parts: `TypeOK`; `Handshake`, which says for each place of the master what the flags
are and where the slave can be; `NoStop`, that no STOP lies anywhere in the ring while a session is
wanted (so the slave leaves its loop on request only); `Pace`, how many commands can be unread at each
place of the master; and `Ring`, that the slots between the slave's index and the master's hold commands
number `done` to `sent - 1` of this session, or STOPs once it is being closed, and that the slave's copy
of the write index lies between the two. `InOrder` alone is not inductive: it speaks only of the entry
about to be taken, and says nothing of the entries behind it nor of why the writer cannot reach it.
`LinkImplementsSession` maps initial states to initial states and steps to steps or stutters.

**MMC5 and FDS.** What is claimed speaks of moments at which the slave has caught up; in between the
queue may hold any number of commands, and a counter that is right may be far behind. The invariant says
that there is a chain of masters (`Chain`), one for each command still queued: the slave is abreast of
the first, each is what the master was when it sent the command, and catching up (`Orbit` of a tick)
leads from one to the next and in the end to the master of now. A command taken removes the first link,
a command sent adds one, a tick of either side moves one end. Where the dividers alternate (MMC5), or stand
still or are set by a command (FDS), `Timed` says that the times in the queue rise within a frame, so that
slave and master stand at the same tick when the command is acted upon. `WaveIsHeard` has a part of its
own (`Carried`): the last queued write to a cell that protection let pass carries the master's value.

**CD stream.** `Mirror` needs only the types. `SectorRightInside` does not follow from it: a fetch takes a
sector out of the mirror only because one was found there (`Pending`), the bytes of the next sector are
right because the offset keeps its place within the sector while there is no data (`Aligned`), and what
a read copies begins where it was asked to (`Progress`).

**APU.** `Good` says of a unit that it is in its range, that the three properties hold of it, and what they
rest on: the cached volumes are those of the envelopes, a sweep that is on never adds more than half of the
period. Each of the unit's functions keeps a unit good; those of `clock_fc_sequencer()` keep only `Base`
until its last call, `sync_apu()`, renews the pending entry. Loops (`CatchUp`, the DMC's bytes) are
recursive functions: `FcRounds` and `DmcRounds` say that a sequence of rounds leads to their result, and
what each round keeps, the result keeps.

`Asserts` needs an invariant of its own, `Kept`. The asserts compare times, and whether they hold depends on
which function ran last. `Timely` is what holds between calls: the schedules are `InOrder` (what was
synced lies behind, the sequencer's next clock ahead of it), and the DMC is `OnTime`. `Caught` is the same
after `update_fc()` and `update_triangle_period()`, as every register handler leaves it; `Forced` after
`apu_force_update()`, when all lies at the frame's end. The DMC's part is the prediction: `Predicts` says
that `dmc_end_timestamp`, computed by one multiplication when a sample starts, a loop comes round or the
rate changes, is the time the rounds of `dmc_update_body()` arrive at, bit by bit; of a sample that loops,
the end of this round or a later one; of one that was stopped, no earlier than the end of its last byte.
The last is false once the rate of a stopped sample changes (finding 3): `slowed` remembers it, and
`Punctual` says that an assert fails only after that.

`Exact` and `PromptStatus` compare the unit with one that is never behind, two histories of the same loops. Their
invariant is `Twins`: while no assert has failed both are `Timely`, nothing is due in the eager one (`Prompted`),
and they `Agree`: after `CatchUp` the frame counter's parts are alike (`AlikeFc`, which ignores by how much an
expired delay of the triangle has expired), and after `UpdateDmc` the DMC's are (`AlikeDmc`). The two parts are
compared separately because the code brings them up to date separately: a write to the triangle leaves the DMC
behind, a read of $4015 leaves the triangle behind. Three kinds of lemmas carry it. Each function makes alike units
alike. Each of the frame counter's functions leaves the DMC's part alone, and the other way round (`FcOnly`,
`DmcOnly`; they share the status, whose bits divide into `OnFc` and `OnDmc`). And catching up to a time and then to
a later one is the same as catching up to the later one at once (`CatchUpAgain`, `UpdateDmcAgain`), which needs
`OnTime`: the rounds of a loop stop at the first schedule that lies ahead. From `Twins`, `LazyIsExact` follows since
`apu_force_update()` makes the two equal field by field; `StatusIsPrompt` needs one fact more, `UpdateDmcHushed`:
before `dmc_end_timestamp` no round of the DMC changes the status, as the fetch that ends a sample happens at
its predicted end and not before.

**Voices.** `InTime` says how each chip keeps time. The 5B's last step lies `clock % SunCycles` before the
present cycle; the Namco 163's divider is what its steps have taken in advance; the VRC6's base is the
fixed-point time at which the frame began. Each is kept by a run, by the end of a frame and by every
register. `ResampleExact` is the core: after n samples of a chip the divider is the remainder of
`n * scale` by `full`, and the distance of the source, times the scale, is `Phases` times the divider
plus the fraction. So position and divider, advanced separately with carries of their own, never drift.

`VoicesWritten` says what the samples contain. `AsSaid` has a part for each chip. `VrcSays`: there is a rate
such that the targets are its multiples and the partial levels still to come in this wave are those an
accumulator reaches that adds it at each part (`Predicted`; it is the rate register's unless a change of it
is pending), and a channel that is on and does not wait has the period written. `SunSays`: after so many
clocks of a shape the envelope rests at the level to stop at, or it is at its place in the ramp with
increment and turning point for the direction it goes (`EnvAt`), and each voice's pointer is to its own
volume or to the envelope's. `NamcoSays`: each channel's increment, length, offset and volume are those of
its cells; a write replaces one digit of a number, which is arithmetic of its own (`SetByte`).

`SawIsWhole` cannot be seen from `torn`, which only records that a half-written period was played. The
invariant `SawInv` speaks of time. `Held`: a change that waits was made in the second half of the present
sample, and the period being played is a whole one; a half-written period that is in force has its other half
coming before the sample ends; a half-written one that waits will come into force after this sample, and
then its other half comes before the end of the next. `SawTimes`: the time of the last change, which the code
keeps modulo the size of the ring, is no older than a frame and a sample, so that it is never taken for a recent one.

**Player.** Five parts: of the pad (a press that is still to act has credit), the screen (its mode or the
saved one is the user's), the selector (the table lists its directory, `Homeward`, the selection shows), the
viewers and the player. Each is kept by every turn; only the player's needs another's, the selector's:
what it opens is an entry of the table. `Home` rests on `ReadLists`, that reading a directory into one
array from two ends gives the listing of the records it saw, for every table size and every sequence of
records, and on `Delivered`, that these are the directory's unless a read failed and records that lead
somewhere in any case. `Homeward` says of the stack that it begins at `home` and that each entry `Leads`
to the next: where the table it was made on was right, by the record at its position; where reads never
failed, every directory on the way `Fits` into the table, so that going back cannot be refused.
`Own` rests on `NsfeLoaded` and `NsfLoaded`: the loader's result does not depend on the core it
started from.

**NatFacts** replaces the library's induction theorems, whose parameter is an operator: `LeastNatural`
from the finite-set theorems, `UpToBound` (induction up to a bound), `Courses` and `Rounds` (a
sequence of steps exists), `DivMod` with its uniqueness,
and `Orbit`, what a step repeated leads to (`OrbitRest`: it comes to rest in one place only).

What the proofs changed in the models: `AssertsHold` needed `TimesAssumption`, that no time comes near
`Never`, which therefore became a constant (9999 in the runs, far beyond any frame). `PressActsOnce`
was first stated without the long hold of B, and is false then: the run `player` shows it with a B held
over an opening, and the credit of a completed long hold was added. `MixFits` compared the levels with the last mixe chunk alone; a file with two of
them gives each device the last level any of them names. `FifoCurrent` needed the assumption that a
sweep's shift takes at most half of the period, which the table of shifts has. `FdsShadow` needed
`t < SpillTop`: an address is later than any frame. `Resampled` needs that a song uses registers of its own
chip only (`SongsAssumption`) and that at most 63 samples of the chip make one for the sound processor
(`SunAssumption`, `NamcoAssumption`): more of them would overrun the ring of 64. `VoicesWritten` showed
three things that the small numbers of the run had hidden: that the quotient of `divu_s64_s32()` overflows at
the signed limit, half of the range of phases (`SawInc`; the run's dividend now lies on either side of it); that
the bytes a cell is assembled from need their units (`Mid`, `High`); and that registers and cells hold bytes
(`BytesAssumption`). `SawIsWhole` needs `PairGap` and `PairRest` to be times.

Only model-checked: liveness (`UpdateHeard`, `StartReturns`, `StopReturns`, `ReadEnds`) and the fairness
part of `ImplementsSession`, which the prover cannot express; and `Cpu6502`, which uses bitwise operators
that the prover cannot read.

## 7. Plan

Not modelled, and why:

 - the SMPC's mailbox (`gs/smpc.c` and the interrupt of `cronsf.c` 135): what the SMPC does with commands of
   two processors at once is not in this repository, and everything depends on it;
 - the CD block's mailbox (`cdb_command()`, HIRQ): commands are steps of `CdStream`;
 - sound generation proper (oscillators, resampling, volumes, the DSP programs of `gentables.cpp`):
   questions of value, not of order;
 - of a directory read out of step: the length of extended attributes (`dr[1]`, `fsys.c` 148) is taken as 0,
   and one stretch of failures per reading; at start-up, the font, the SCSP images and the tables are found
   as they are or not at all, though a misread root directory might give other files for them;
 - drawing, text layout, the C library, start-up code and build tools: no decision of the player
   depends on them.
