------------------------------- MODULE SongMap -------------------------------
(***************************************************************************)
(* The 6502's address space as nsfcore.c lays it out: which function       *)
(* answers a read or a write of each region, and which memory each 4 KiB   *)
(* page shows.  nsfcore_init() builds it once; emu_init() changes it for   *)
(* each song, over whatever the song before left in it.                    *)
(***************************************************************************)
EXTENDS NsfLoad

\* Regions of the address space, each answered as a whole
Paged == {"6000-7FFF", "8000-8FFF", "9000-BFFF", "C000-EFFF", "F000-F7FF", "F800-FFFF"}
Rom == Paged \ {"6000-7FFF"}
Low == {"4040 wave", "4080 fds", "4800 n163", "5000 mmc5", "5015 mmc5", "5C00 exram"}
Selects == {"5FF6 bank", "5FF8 bank"}
Regions == {"0000 ram", "2000 shim", "4000 apu"} \cup Low \cup Selects \cup Paged

\* The memory a page shows: work RAM, a bank of the ROM array, or what lies
\* behind its end
Bank(b) == [of |-> IF b < RomSize THEN "rom" ELSE "beyond", at |-> b]
WorkRam(i) == [of |-> "prgram", at |-> i]
Pages == 6 .. 15

\* The address space after nsfcore_init(): "open" is the open bus
InitialMap ==
    [read  |-> [g \in Regions |->
                   CASE g = "0000 ram" -> "ram" [] g = "4000 apu" -> "apu"
                     [] g \in Paged \cup {"2000 shim"} -> "page"
                     [] OTHER -> "open"],
     write |-> [g \in Regions |->
                   CASE g = "0000 ram" -> "ram" [] g = "4000 apu" -> "apu"
                     [] g = "6000-7FFF" -> "page"
                     [] OTHER -> "open"],
     page  |-> [p \in Pages |-> WorkRam(0)]]

\* The regions each chip answers itself
WrittenBy == [vrc6 |-> {"9000-BFFF"}, n163 |-> {"4800 n163", "F800-FFFF"},
              sun5b |-> {"C000-EFFF", "F000-F7FF", "F800-FFFF"},
              mmc5 |-> {"5000 mmc5", "5015 mmc5", "5C00 exram"},
              fds |-> {"4040 wave", "4080 fds"}, none |-> {}]
ReadBy == [vrc6 |-> {}, n163 |-> {"4800 n163"}, sun5b |-> {},
           mmc5 |-> {"5015 mmc5", "5C00 exram"},
           fds |-> {"4040 wave", "4080 fds"}, none |-> {}]

\* Mutant: the bank numbers of an FDS song are taken as they are
RemappedNever(core, b) == b

\* nsf_bank_remap, for the songs that may write to their banks
Remapped(core, b) == IF core.meta.emulated = "fds" THEN b % RomSize ELSE b

\* The pages of a song's start: the ROM from its beginning, or its banks, the
\* last two of which the FDS also has at 0x6000
StartPages(core) ==
    [p \in Pages |->
        IF core.banked /\ p >= 8 THEN Bank(Remapped(core, core.banks[p - 8]))
        ELSE IF core.banked /\ core.meta.emulated = "fds" THEN Bank(Remapped(core, core.banks[p]))
        ELSE IF p >= 8 THEN Bank(p - 8)
        ELSE WorkRam(p - 6)]

\* emu_init(): the bank registers and the ROM are made anew, every other
\* region keeps the function the song before gave it
EmuInitMap(m, core) ==
    LET chip == core.meta.emulated
        selects == IF ~core.banked THEN {} ELSE IF chip = "fds" THEN Selects ELSE {"5FF8 bank"}
    IN  [m EXCEPT
           !.page = StartPages(core),
           !.read = [g \in Regions |-> IF g \in ReadBy[chip] THEN chip ELSE @[g]],
           !.write = [g \in Regions |->
               IF g \in WrittenBy[chip] THEN chip
               ELSE IF g \in Rom THEN (IF chip = "fds" THEN "page" ELSE "open")
               ELSE IF g \in selects THEN (IF chip = "fds" THEN "remap" ELSE "bank")
               ELSE IF g \in Selects THEN "open"
               ELSE @[g]]]

\* A write of v to the bank register of page p: nsf_set_bank_S,
\* nsf_set_bank_remap_S, or the open bus
SetBank(m, core, p, v) ==
    LET by == m.write[IF p < 8 THEN "5FF6 bank" ELSE "5FF8 bank"]
    IN  CASE by = "bank" -> [m EXCEPT !.page[p] = Bank(v)]
          [] by = "remap" -> [m EXCEPT !.page[p] = Bank(Remapped(core, v))]
          [] OTHER -> m

-----------------------------------------------------------------------------
PagesOf(g) ==
    CASE g = "6000-7FFF" -> 6 .. 7 [] g = "8000-8FFF" -> {8} [] g = "9000-BFFF" -> 9 .. 11
      [] g = "C000-EFFF" -> 12 .. 14 [] OTHER -> {15}
=============================================================================
