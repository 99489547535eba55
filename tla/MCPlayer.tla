------------------------------ MODULE MCPlayer ------------------------------
EXTENDS Player

Dir(n) == [kind |-> "dir", ext |-> "none", at |-> n]
File(ext, n) == [kind |-> "file", ext |-> ext, at |-> n]
Self == [kind |-> "self", ext |-> "none", at |-> 0]

\* Directory 1 holds 2 and 3; 3 has more than the table takes; 2 holds 4,
\* which is empty.  5 is no directory, but bytes out of step lead there and to 14
MCDisc == (1 :> <<Self, File("nsf", 10), Dir(2), Dir(3), File("nsf", 11)>>) @@
          (2 :> <<Self, File("txt", 12), Dir(4), File("nsf", 13)>>) @@
          (3 :> <<File("txt", 12), Dir(4), File("nsf", 10), File("nsf", 11), Dir(2)>>) @@
          (4 :> <<Self>>) @@
          (5 :> <<File("nsf", 14)>>)

MCStrays == {Dir(5)}

Banks(b, i) == [j \in 0 .. 7 |-> IF j >= i THEN b ELSE 0]
NoBanks == Banks(0, 0)

\* A banked FDS song; for PAL, a song of two chips with a balance of its own,
\* in two chunks, and a first chunk that is one byte short; a banked song without
\* an end chunk; a file that is no song
MCContent ==
    (10 :> [format |-> "nsf", count |-> 2, start |-> 2, pal |-> FALSE, chip |-> {"fds"},
            load |-> 6, banks |-> Banks(11, 5), pages |-> 2]) @@
    (11 :> [format |-> "nsfe", chunks |->
            <<[id |-> "INFO", size |-> 9, load |-> 8, pal |-> TRUE, chip |-> {"mmc5", "sun5b"},
               count |-> 2, start |-> 7],
              [id |-> "mixe", size |-> 6, mix |-> [apu |-> 100, sun5b |-> 50]],
              [id |-> "mixe", size |-> 3, mix |-> [sun5b |-> 250]],
              [id |-> "DATA", pages |-> 1], [id |-> "NEND"]>>]) @@
    (13 :> [format |-> "nsfe", chunks |->
            <<[id |-> "BANK", size |-> 8, banks |-> Banks(1, 1)],
              [id |-> "INFO", size |-> 10, load |-> 8, pal |-> FALSE, chip |-> {"mmc5"},
               count |-> 2, start |-> 1],
              [id |-> "text"], [id |-> "DATA", pages |-> 2]>>]) @@
    (14 :> [format |-> "neither", count |-> 0, start |-> 0, pal |-> FALSE, chip |-> {},
            load |-> 0, banks |-> NoBanks, pages |-> 0])

MCTextLines == [f \in 10 .. 14 |-> [text |-> 3, hex |-> 3]]
MCImages == [scsp |-> "NTSC", reserve |-> "PAL"]

\* One button at a time, B held while START opens a file, C and Z in a turn
MCPresses == {{}, {"START"}, {"B"}, {"DOWN"}, {"LEFT"}, {"R"}, {"B", "START"}, {"C", "Z"}}

\* What is set anew before it is read again does not tell states apart: slots of
\* the table that hold no entry, the viewer's and the player's variables outside
\* their phases; nor does a screen mode but by whether it is the wish
Entries == [i \in 0 .. NumEntries(table) - 1 |-> GetEntry(table, i)]
MCView ==
    <<phase, message, pad, Entries, table.dirs, table.here, table.ok, table.whole, stack, which, scroll,
      hires = wish, map.read, map.write, images, running, file, credit, home, faults,
      IF phase \in {"TEXT", "HEX"} THEN <<viewer, hiresSave = wish>> ELSE << >>,
      IF phase = "PLAYER" THEN <<song, core, map.page>>
                          ELSE <<core.meta, core.banked, core.banks, core.rom, core.ok>> >>
MCSongBanks == {[page |-> 15, value |-> 9]}
=============================================================================
