------------------------------- MODULE NsfLoad -------------------------------
(***************************************************************************)
(* The loaders of nsfcore.c: what nsfcore_load() leaves in the core for a  *)
(* file of either format, also when it refuses the file half way.          *)
(*                                                                         *)
(* An NSF file is a record of its header's fields; an NSFe file is a       *)
(* sequence of chunks in any order; a file that is neither has the fields  *)
(* its bytes would stand for.  A file is read in steps (the magic    *)
(* string, the header or each chunk, the ROM), and the drive may fail to   *)
(* deliver any of them.                                                    *)
(***************************************************************************)
EXTENDS Integers, SequencesExt, FiniteSetsExt

CONSTANTS
    Content,   \* [file -> what is in it]
    RomSize    \* NSFCORE_MAX_ROM_SIZE in pages of 4 KiB, 160 in the code

Chips == {"vrc6", "n163", "sun5b", "mmc5", "fds"}
Devices == {"apu"} \cup Chips
Priority == <<"vrc6", "n163", "sun5b", "mmc5", "fds">>

\* What the two formats can hold, with numbers of 8 bits and addresses in pages
Byte == 0 .. 255
BankRegs == [0 .. 7 -> Byte]
Header == [format: {"nsf", "neither"}, count: Byte, start: Byte, pal: BOOLEAN, chip: SUBSET Chips,
           load: 0 .. 15, banks: BankRegs, pages: Nat]

IsChunk(c) ==
    /\ c.id \in {"INFO", "BANK", "mixe"} => c.size \in Nat
    /\ c.id = "INFO" /\ c.size >= 9 => /\ {c.count, c.start} \subseteq Byte /\ c.pal \in BOOLEAN
                                      /\ c.chip \subseteq Chips /\ c.load \in 0 .. 15
    /\ c.id = "BANK" /\ c.size = 8 => c.banks \in BankRegs
    /\ c.id = "DATA" => c.pages \in Nat
    /\ c.id = "mixe" /\ c.size % 3 = 0 =>
          DOMAIN c.mix \subseteq Devices /\ \A d \in DOMAIN c.mix : c.mix[d] \in Int

ASSUME LoadAssumption ==
    /\ RomSize \in Nat /\ RomSize >= 8
    /\ \A f \in DOMAIN Content :
          LET chunks == Content[f].chunks IN
          IF Content[f].format = "nsfe"
          THEN /\ Len(chunks) \in Nat /\ DOMAIN chunks = 1 .. Len(chunks)
               /\ \A i \in DOMAIN chunks : IsChunk(chunks[i])
          ELSE Content[f] \in Header

NoMeta == [count |-> 0, start |-> 0, pal |-> FALSE, chip |-> {}, emulated |-> "none"]
Closed == [meta |-> NoMeta, load |-> 0, banked |-> FALSE, banks |-> [i \in 0 .. 7 |-> 0],
           rom |-> {}, levels |-> [d \in Devices |-> 0], ok |-> FALSE]

\* The reference levels an unaltered file plays at, in millibels, and the
\* highest each can be rendered at
Levels == [apu |-> 0, vrc6 |-> 0, n163 |-> 1204, sun5b |-> -130, mmc5 |-> 0, fds |-> 760]
MaxLevel == [apu |-> 0, vrc6 |-> 0, n163 |-> 1204, sun5b |-> -132, mmc5 |-> 0, fds |-> 700]

\* Mutant: the bank switching of the file before is left on
NsfcoreCloseKeepsBanks(core) ==
    [core EXCEPT !.meta = NoMeta, !.rom = {}, !.banks = [i \in 0 .. 7 |-> 0], !.ok = FALSE]

\* nsfcore_close(), its part on the core's data
NsfcoreClose(core) ==
    [core EXCEPT !.meta = NoMeta, !.rom = {}, !.banks = [i \in 0 .. 7 |-> 0],
                 !.banked = FALSE, !.ok = FALSE]

Refused(core) == [core EXCEPT !.ok = FALSE]

\* Where the ROM data of a load address of page p goes, in pages from 0x8000
\* up, or within a bank
RomOffset(core) == IF core.banked THEN 0 ELSE core.load - 8

PutRom(core, f, pages) ==
    IF ~core.banked /\ core.load < 8 THEN Refused(core)
    ELSE IF RomOffset(core) + pages > RomSize THEN Refused(core)
    ELSE [core EXCEPT !.rom = @ \cup {[file |-> f, at |-> RomOffset(core)]}]

\* nsf_load() from the header on; bank switching is on when a bank is not 0
NsfLoad(core, f, steps) ==
    LET c == Content[f]
        m == [core.meta EXCEPT !.count = c.count,
                               !.start = IF c.start # 0 THEN c.start - 1 ELSE 0,
                               !.pal = c.pal, !.chip = c.chip]
        headed == [core EXCEPT !.meta = m, !.load = c.load, !.banks = c.banks,
                               !.banked = \E i \in 0 .. 7 : c.banks[i] # 0]
    IN  IF c.format # "nsf" \/ steps = 1 THEN Refused(core)
        ELSE IF steps = 2 THEN Refused(headed)
        ELSE PutRom(headed, f, c.pages)

\* The chunks of an NSFe file.  An INFO chunk of 9 bytes is read as 10: its
\* starting song is the first byte of what follows
Chunk(core, f, c) ==
    CASE c.id = "INFO" ->
           IF c.size < 9 THEN Refused(core)
           ELSE [core EXCEPT !.load = c.load,
                     !.meta = [@ EXCEPT !.pal = c.pal, !.chip = c.chip,
                                        !.count = c.count, !.start = c.start]]
      [] c.id = "BANK" ->
           IF c.size # 8 THEN Refused([core EXCEPT !.banks = [i \in 0 .. 7 |-> 0]])
           ELSE [core EXCEPT !.banks = c.banks, !.banked = TRUE]
      [] c.id = "DATA" -> PutRom(core, f, c.pages)
      [] c.id = "mixe" ->
           IF c.size % 3 # 0 THEN Refused(core)
           ELSE [core EXCEPT !.levels = [d \in Devices |-> IF d \in DOMAIN c.mix THEN c.mix[d] ELSE @[d]]]
      [] c.id = "MUST" -> Refused(core)
      [] OTHER -> core      \* auth, tlbl, and optional chunks it does not know

\* One turn of the loop, which a refusal ends
AfterChunk(core, f, c) == IF core.ok THEN Chunk(core, f, c) ELSE core

\* How many steps of a file there are to deliver: the magic string and each
\* chunk before the one that ends the file, or the magic string, header and ROM
Steps(f) ==
    LET chunks == Content[f].chunks
        ends == {i \in DOMAIN chunks : chunks[i].id = "NEND"}
    IN  IF Content[f].format = "nsfe" THEN Min(ends \cup {Len(chunks) + 1}) ELSE 3

\* A chunk of which the header came and the data did not
Torn(core, c) ==
    CASE c.id = "BANK" -> Refused([core EXCEPT !.banks = [i \in 0 .. 7 |-> 0]])
      [] c.id \in {"INFO", "DATA", "mixe", "auth", "tlbl", "MUST"} -> Refused(core)
      [] OTHER -> core

\* nsfe_load(): a file that ends, or a drive that fails, between two chunks
\* ends the loop and the file is taken as it is
NsfeLoad(core, f, steps, torn) ==
    LET chunks == Content[f].chunks
        after[i \in 0 .. steps - 1] ==
            IF i = 0 THEN core ELSE AfterChunk(after[i - 1], f, chunks[i])
        came == after[steps - 1]
    IN  IF torn /\ came.ok THEN Torn(came, chunks[steps]) ELSE came

\* One chip is emulated, the first of the header's in this order
Emulated(chip) ==
    IF chip = {} THEN "none"
    ELSE Priority[CHOOSE i \in 1 .. 5 : Priority[i] \in chip /\ \A j \in 1 .. i - 1 : Priority[j] \notin chip]

\* adjust_mix_levels(): all are lowered by the largest excess of those heard
Excess(core, d) ==
    IF d \in {"apu", core.meta.emulated} THEN core.levels[d] - MaxLevel[d] ELSE 0

AdjustMixLevels(core) ==
    LET adj == Max({0} \cup {Excess(core, d) : d \in DOMAIN core.levels})
    IN  [core EXCEPT !.levels = [d \in DOMAIN @ |-> @[d] - adj]]

\* nsfcore_load(); the drive delivers so many steps of the file, and perhaps
\* the start of one more
NsfcoreLoad(core, f, steps, torn) ==
    LET opened == [NsfcoreClose(core) EXCEPT !.ok = TRUE, !.levels = Levels, !.load = 0]
        read == IF Content[f].format = "nsfe" THEN NsfeLoad(opened, f, steps, torn)
                                             ELSE NsfLoad(opened, f, steps)
    IN  IF steps = 0 THEN Refused(opened)
        ELSE AdjustMixLevels([read EXCEPT !.meta.emulated = Emulated(read.meta.chip)])
=============================================================================
