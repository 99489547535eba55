------------------------------- MODULE Player -------------------------------
(***************************************************************************)
(* The main loop of cronsf.c over the directory table, the loaders and the *)
(* song's address space.  One step is one turn of the loop: the pad is     *)
(* read, then the phase the program is in does its work, calls included.   *)
(* Drawing is left out, and so is the slave (SlaveLink) and the sound.     *)
(*                                                                         *)
(* The disc answers every read of a directory or of a file or, at most     *)
(* MaxFaults times, fails for a while.                                     *)
(***************************************************************************)
EXTENDS DirTable, SongMap

CONSTANTS
    Presses,      \* the sets of buttons the pad may report
    LongHold,     \* turns of the loop a hold of B takes to leave, 24 in the code
    RepeatFrom,   \* turns after which a held button repeats, 32 in the code
    RepeatEvery,  \* and how often, 4 in the code
    HeldMax,      \* where a counter of turns stops, 65535 in the code
    Rows,         \* lines of text or names on the screen, 13 in the code
    MaxDepth,     \* entries of filesel_stack, 128 in the code
    TextLines,    \* [file -> lines of it in the text and in the hex viewer]
    Images,       \* the signatures of scspntsc.bin and scsppal.bin on the disc
    Root,         \* the directory the selector starts in
    SongBanks,    \* the pages and values songs write to the bank registers
    MaxCredit,    \* presses not yet acted upon that are remembered
    MaxFaults

Buttons == {"A", "B", "C", "START", "UP", "DOWN", "LEFT", "RIGHT", "X", "Y", "Z", "L", "R"}

ASSUME PlayerAssumption ==
    /\ Presses \subseteq SUBSET Buttons /\ Buttons \notin Presses
    /\ 2 < LongHold /\ LongHold < HeldMax /\ RepeatFrom <= HeldMax
    /\ {LongHold, RepeatFrom, HeldMax, MaxDepth, MaxFaults} \subseteq Nat
    /\ {Rows, RepeatEvery, MaxCredit} \subseteq Nat \ {0}
    /\ Root \in DOMAIN Disc
    /\ \A f \in DOMAIN TextLines : TextLines[f] \in [text: Nat, hex: Nat]
    /\ \A r \in Parsed :
          /\ Filtered(r) # "directory" => r.at \in DOMAIN TextLines
          /\ Filtered(r) = "nsf" => r.at \in DOMAIN Content
    /\ SongBanks \subseteq [page: Pages, value: Byte]

VARIABLES
    phase,     \* what the loop does
    message,   \* error_message, shown until it is dismissed
    buttons, held,              \* the pad's last report, and buttons_held
    table, stack, which, scroll,  \* the file selector
    lines, viewed,              \* the viewer: lines of the file, first line shown
    hires, hiresSave,
    core, map, images,  \* the core's data; its address space; SCSP RAM and its reserve
    song, running,      \* nsf_song_number; whether emulation and sound have been started
    \* auxiliary: what is loaded, presses not yet acted upon, the screen mode asked
    \* for, the directory the selector started in, faults so far
    file, credit, wish, home, faults

pad == <<buttons, held>>
selector == <<table, stack, which, scroll>>
viewer == <<lines, viewed>>
screen == <<hires, hiresSave>>
player == <<core, map, images, song, running, file>>
vars == <<phase, message, pad, selector, viewer, screen, player, credit, wish, home, faults>>

NoFile == [name |-> 0, steps |-> 0, torn |-> FALSE]

Init ==
    /\ phase = "INIT" /\ message = FALSE
    /\ buttons = Buttons /\ held = [b \in Buttons |-> 0]
    /\ table = Empty /\ stack = << >> /\ which = 0 /\ scroll = 0
    /\ lines = 0 /\ viewed = 0 /\ hires = FALSE /\ hiresSave = FALSE
    /\ core = Closed /\ map = InitialMap /\ images = [scsp |-> "none", reserve |-> "none"]
    /\ song = 0 /\ running = FALSE /\ file = NoFile
    /\ credit = 0 /\ wish = FALSE /\ home = Root /\ faults = 0

-----------------------------------------------------------------------------
(* The pad *)

\* Mutant: the count of a button goes on past its limit
HeldNextOn(down, fresh, h) ==
    IF fresh THEN 1 ELSE IF ~down THEN 0 ELSE IF h = 0 THEN h ELSE h + 1

\* Mutant: the count of a button stays at 2
HeldNextStays(down, fresh, h) ==
    IF fresh THEN 1 ELSE IF ~down THEN 0 ELSE IF h \in {0, HeldMax} THEN h
    ELSE IF h = 2 THEN 2 ELSE h + 1

\* buttons_held of one button; one that has been down since before the first
\* report does not count
HeldNext(down, fresh, h) ==
    IF fresh THEN 1 ELSE IF ~down THEN 0 ELSE IF h \in {0, HeldMax} THEN h ELSE h + 1

\* update_input() on the slave's report b; at first there may be none
UpdateInput(b) ==
    /\ buttons' = b
    /\ held' = [x \in Buttons |-> HeldNext(x \in b, x \in b \ buttons, held[x])]

Fresh == buttons' \ buttons
Down(b) == held'[b] = 2
Repeats(b) == held'[b] = 1 \/ (held'[b] >= RepeatFrom /\ held'[b] % RepeatEvery = 0)
Count(b) == IF Repeats(b) THEN 1 ELSE 0

\* By how much the buttons move a list: a line, nearly a screen, seven of these
Delta == Count("DOWN") - Count("UP")
            + (Rows - 1) * (Count("Y") - Count("X") + 7 * (Count("R") - Count("L")))
Leaving == Down("START") \/ held'["B"] = LongHold

\* The only button pressed, and pressed just now
Single(set) == \E b \in set : Fresh = {b} /\ buttons' = {b}

\* The Z button, in every phase but one
ToggleHires(mode) == IF Down("Z") /\ phase # "HEX" THEN ~mode ELSE mode

\* What a turn was for the user: did one of the deliberate actions happen?  A
\* hold of B that has become long enough to leave counts as one more press
Credit ==
    LET acts == \/ stack' # stack
                \/ message /\ ~message'
                \/ phase # "INIT" /\ phase' # phase
                \/ phase # "INIT" /\ ~message /\ message'
        acted == IF acts THEN 1 ELSE 0
        hold == IF held'["B"] = LongHold THEN 1 ELSE 0
        now == credit + Cardinality(Fresh) + hold - acted
    IN  credit' = IF now > MaxCredit THEN MaxCredit ELSE now

\* One turn of the loop, up to the phase's own work
Turn ==
    /\ \/ \E b \in Presses : UpdateInput(b)
       \/ buttons = Buttons /\ UNCHANGED pad
    /\ wish' = ToggleHires(wish)

-----------------------------------------------------------------------------
(* Start-up, and the message that stops everything *)

ShowMessage ==
    /\ message /\ Turn
    /\ message' = ~Down("START")
    /\ hires' = ToggleHires(hires)
    /\ UNCHANGED <<phase, selector, viewer, hiresSave, player, home, faults>>

\* Reads fail for a while, so many times more
Failures == 0 .. (IF faults < MaxFaults THEN 1 ELSE 0)

\* What PHASE_INIT leaves before step stop: 1 the file system, 2 the font, 3 opening
\* and 4 reading the NTSC image, 5 the PAL image, 6 the expansion chips' tables,
\* 7 finding the songs' directory, 8 reading it
Initialised(stop) ==
    /\ map' = IF stop > 2 THEN InitialMap ELSE map
    /\ images' = [scsp |-> IF stop > 4 THEN Images.scsp ELSE images.scsp,
                  reserve |-> IF stop > 5 THEN Images.reserve ELSE images.reserve]

\* Something cannot be opened or read; only the core has the message for the NTSC image
StartFails ==
    /\ \E stop \in 1 .. 7 : Initialised(stop) /\ message' = (stop # 4)
    /\ faults < MaxFaults /\ faults' = faults + 1
    /\ UNCHANGED <<table, phase, home>>

\* The songs' directory is read, or what is taken for it after a failure in the
\* reading of what leads there
StartReads ==
    \E m \in Failures, d \in {Root} \cup ({r.at : r \in Strays} \cap DOMAIN Disc) :
      \E t \in Readings(table, d, m) :
        /\ Initialised(8)
        /\ home' = d
        /\ faults' = faults + m + (IF d = Root THEN 0 ELSE 1) /\ faults' <= MaxFaults
        /\ table' = t
        /\ message' = ~t.ok
        /\ phase' = IF t.ok THEN "SELECTOR" ELSE "INIT"

Start ==
    /\ phase = "INIT" /\ ~message /\ Turn
    /\ hires' = ToggleHires(hires)
    /\ StartFails \/ StartReads
    /\ UNCHANGED <<stack, which, scroll, viewer, hiresSave, core, song, running, file>>

-----------------------------------------------------------------------------
(* The file selector *)

\* Mutant: the last entry is one too far
ClampedBeyond(w, n) == IF w < 0 THEN 0 ELSE IF w > n THEN n ELSE w

Clamped(w, n) == IF w < 0 THEN 0 ELSE IF w >= n THEN n - 1 ELSE w

\* Up and down go around, the rest stops at the ends
Moved(w, n) ==
    IF Single({"UP", "DOWN"})
    THEN LET by == IF Fresh = {"UP"} THEN w - 1 ELSE w + 1
             up == IF by < 0 THEN n - (-by % n) ELSE by
         IN  IF up >= n THEN up % n ELSE up
    ELSE Clamped(w + Delta, n)

\* The rest of run_file_selector() with directory t and the position there
Place(t, w, s) ==
    LET n == NumEntries(t)
        to == IF n = 0 THEN w ELSE Moved(w, n)
    IN  /\ table' = t
        /\ which' = to
        /\ scroll' = IF n = 0 THEN s
                     ELSE LET low == IF to < s THEN to ELSE s
                          IN  IF to >= low + Rows THEN to - (Rows - 1) ELSE low

\* What pop_filesel() leaves on the stack when the parent has been read to t
Pop(t) == IF t.ok THEN Front(stack) ELSE stack

\* B: pop_filesel(); if the parent cannot be read its entry stays
Ascend ==
    /\ Down("B") /\ stack # << >>
    /\ LET top == Last(stack) IN
       \E m \in Failures : \E t \in Readings(table, top.dir, m) :
          /\ faults' = faults + m
          /\ message' = ~t.ok
          /\ stack' = Pop(t)
          /\ IF t.ok THEN Place(t, top.which, top.scroll) ELSE Place(t, which, scroll)

Selecting == ~Down("B") /\ NumEntries(table) > 0 /\ (\E b \in {"START", "A", "C"} : Down(b))
Chosen == GetEntry(table, which)

\* What push_filesel() notes; only the model notes whether the table is right
Here == [dir |-> table.here, which |-> which, scroll |-> scroll,
         sure |-> table.ok /\ table.whole]

\* A directory: push_filesel() and fsys_change_dir(), and if that fails
\* pop_filesel(), which may fail too
Descend ==
    /\ Selecting /\ Chosen.type = "directory" /\ Len(stack) < MaxDepth
    /\ \E m \in Failures : \E t \in Readings(table, Chosen.at, m) :
          IF t.ok
          THEN /\ stack' = Append(stack, Here)
               /\ Place(t, 0, 0)
               /\ faults' = faults + m
               /\ UNCHANGED message
          ELSE \E n \in Failures : \E back \in Readings(t, table.here, n) :
               /\ faults' = faults + m + n /\ faults' <= MaxFaults
               /\ message' = TRUE
               /\ stack' = IF back.ok THEN stack ELSE Append(stack, Here)
               /\ Place(back, which, scroll)

\* No selection, or one that does nothing: B at the top, a full stack
Browse ==
    /\ Down("B") => stack = << >>
    /\ Selecting => Chosen.type = "directory" /\ Len(stack) = MaxDepth
    /\ Place(table, which, scroll)
    /\ UNCHANGED <<stack, message, faults>>

SelectorTurn ==
    /\ phase = "SELECTOR" /\ ~message /\ Turn
    /\ hires' = ToggleHires(hires)
    /\ Ascend \/ Descend \/ Browse
    /\ UNCHANGED <<phase, viewer, hiresSave, player, home>>

-----------------------------------------------------------------------------
(* Opening a file *)

Opening(f) ==
    /\ phase = "SELECTOR" /\ ~message /\ Turn
    /\ Selecting /\ Chosen.type # "directory" /\ f = Chosen.at
    /\ UNCHANGED <<selector, home>>

Viewed(f, kind) ==
    /\ lines' = TextLines[f][kind] /\ viewed' = 0
    /\ core' = [core EXCEPT !.rom = {[file |-> f, at |-> -1]}]

\* C opens the hex viewer; if the file cannot be read nothing happens
OpenHex(f) ==
    /\ Opening(f) /\ "C" \in buttons'
    /\ \/ /\ Viewed(f, "hex")
          /\ hiresSave' = ToggleHires(hires) /\ hires' = TRUE
          /\ phase' = "HEX"
          /\ UNCHANGED faults
       \/ /\ faults < MaxFaults /\ faults' = faults + 1
          /\ hires' = ToggleHires(hires)
          /\ UNCHANGED <<phase, viewer, core, hiresSave>>
    /\ UNCHANGED <<message, map, images, song, running, file>>

OpenText(f) ==
    /\ Opening(f) /\ "C" \notin buttons' /\ Chosen.type # "nsf"
    /\ Viewed(f, "text")
    /\ hires' = ToggleHires(hires)
    /\ phase' = "TEXT"
    /\ UNCHANGED <<message, faults, hiresSave, map, images, song, running, file>>

\* Mutant: the reserve is overwritten by what it is copied to
SwappedOver(im, want) == IF im.scsp = want THEN im ELSE [scsp |-> im.reserve, reserve |-> im.reserve]

\* nsfcore_swapload_scsp_bin(), when one of the two is the wanted image
Swapped(im, want) == IF im.scsp = want THEN im ELSE [scsp |-> im.reserve, reserve |-> im.scsp]

SetSong(k, w) ==
    /\ song' = w
    /\ map' = EmuInitMap(map, k)
    /\ running' = TRUE

\* A song file that loads.  With no song in it the code divides by 0; the SH-2's
\* library function answers 0, so that the remainder is the dividend
Plays(f, k) ==
    LET want == IF k.meta.pal THEN "PAL" ELSE "NTSC" IN
    /\ core' = k
    /\ want \in {images.scsp, images.reserve}
    /\ images' = Swapped(images, want)
    /\ SetSong(k, IF k.meta.count = 0 THEN k.meta.start ELSE k.meta.start % k.meta.count)
    /\ phase' = "PLAYER"
    /\ UNCHANGED message

\* A song file refused by the loader, or without its SCSP image
Refuses(f, k) ==
    LET want == IF k.meta.pal THEN "PAL" ELSE "NTSC" IN
    /\ ~k.ok \/ want \notin {images.scsp, images.reserve}
    /\ core' = IF k.ok THEN NsfcoreClose(k) ELSE k
    /\ message' = TRUE
    /\ running' = FALSE
    /\ UNCHANGED <<phase, map, images, song>>

OpenSong(f) ==
    /\ Opening(f) /\ "C" \notin buttons' /\ Chosen.type = "nsf"
    /\ hires' = ToggleHires(hires)
    /\ \E steps \in 0 .. Steps(f), torn \in BOOLEAN :
          LET k == NsfcoreLoad(core, f, steps, torn)
              fault == IF steps = Steps(f) THEN 0 ELSE 1
          IN  /\ torn => steps \in 1 .. Steps(f) - 1 /\ Content[f].format = "nsfe"
              /\ faults' = faults + fault /\ faults' <= MaxFaults
              /\ \/ k.ok /\ Plays(f, k) /\ file' = [name |-> f, steps |-> steps, torn |-> torn]
                 \/ Refuses(f, k) /\ file' = NoFile
    /\ UNCHANGED <<viewer, hiresSave>>

-----------------------------------------------------------------------------
(* The viewers *)

\* The first line shown, moved by so many: unsigned, never below the end
Scrolled(v, by, n) ==
    LET to == IF by < 0 /\ -by > v THEN 0 ELSE v + by
    IN  IF to + Rows > n THEN n - (IF Rows > n THEN n ELSE Rows) ELSE to

Scroll ==
    /\ viewed' = Scrolled(viewed, Delta, lines)
    /\ UNCHANGED <<message, selector, lines, player, home, faults>>

ViewText ==
    /\ phase = "TEXT" /\ ~message /\ Turn
    /\ Scroll
    /\ hires' = ToggleHires(hires)
    /\ phase' = IF Leaving THEN "SELECTOR" ELSE phase
    /\ UNCHANGED hiresSave

\* Mutant: the mode of before the hex viewer is not restored
HiresAfterHexStays == hires

\* The screen mode on the way out of the hex viewer
HiresAfterHex == hiresSave

ViewHex ==
    /\ phase = "HEX" /\ ~message /\ Turn
    /\ Scroll
    /\ phase' = IF Leaving THEN "SELECTOR" ELSE phase
    /\ hires' = IF Leaving THEN HiresAfterHex ELSE hires
    /\ UNCHANGED hiresSave

-----------------------------------------------------------------------------
(* The player *)

\* A single press of left or right goes around, the rest stops at the ends;
\* nsf_song_number has 8 bits
SongNext(by) ==
    LET to == song + by
        last == core.meta.count - 1
        end == IF Single({"LEFT", "RIGHT"}) THEN [below |-> last, above |-> 0]
                                            ELSE [below |-> 0, above |-> last]
    IN  (IF to < 0 THEN end.below ELSE IF to >= core.meta.count THEN end.above ELSE to) % 256

SongChange ==
    LET by == Count("RIGHT") - Count("LEFT") + 10 * (Count("DOWN") - Count("UP"))
                + 50 * (Count("Y") - Count("X"))
    IN  IF by # 0 \/ Fresh \cap {"A", "C"} # {} THEN SetSong(core, SongNext(by))
        ELSE UNCHANGED <<song, map, running>>

\* run_player(), with the song's own writes to its bank registers in the frame
Play ==
    /\ phase = "PLAYER" /\ ~message /\ Turn
    /\ hires' = ToggleHires(hires)
    /\ IF Leaving
       THEN /\ phase' = "SELECTOR"
            /\ core' = NsfcoreClose(core) /\ running' = FALSE
            /\ file' = NoFile
            /\ UNCHANGED <<song, map>>
       ELSE SongChange /\ UNCHANGED <<phase, core, file>>
    /\ UNCHANGED <<message, selector, viewer, hiresSave, images, home, faults>>

\* The 6502 writes to a bank register, in the run of a frame
SwitchBank ==
    /\ phase = "PLAYER"
    /\ \E b \in SongBanks : map' = SetBank(map, core, b.page, b.value)
    /\ UNCHANGED <<phase, message, pad, selector, viewer, screen, core, images, song,
                   running, file, credit, wish, home, faults>>

LoopTurn ==
    \/ ShowMessage \/ Start \/ SelectorTurn
    \/ \E f \in DOMAIN TextLines : OpenHex(f) \/ OpenText(f) \/ OpenSong(f)
    \/ ViewText \/ ViewHex \/ Play

Next == (LoopTurn /\ Credit) \/ SwitchBank

Spec == Init /\ [][Next]_vars

-----------------------------------------------------------------------------
(* Properties *)

\* Every variable the loop keeps stays in its range.
TypeOK ==
    /\ phase \in {"INIT", "SELECTOR", "TEXT", "HEX", "PLAYER"}
    /\ message \in BOOLEAN /\ running \in BOOLEAN
    /\ buttons \subseteq Buttons /\ held \in [Buttons -> 0 .. HeldMax]
    /\ table.dirs \in Nat /\ table.files \in Nat /\ NumEntries(table) <= MaxEntries
    /\ \A i \in 0 .. MaxEntries - 1 : table.slots[i] = NoEntry \/ table.slots[i].type \in Types
    /\ Len(stack) <= MaxDepth /\ lines \in Nat
    /\ {hires, hiresSave} \subseteq BOOLEAN
    /\ song \in 0 .. 255 /\ faults \in 0 .. MaxFaults

\* What the user would select is on the screen and in the table, whatever has
\* happened to the table, and a viewer never scrolls past the end of its file
\* (run_file_selector's arithmetic on which and scroll, run_text_viewer's).
SelectionVisible ==
    /\ (NumEntries(table) > 0 /\ phase # "INIT") =>
          which \in 0 .. NumEntries(table) - 1 /\ scroll \in which - Rows + 1 .. which /\ scroll >= 0
    /\ viewed = 0 \/ viewed \in 0 .. lines - Rows

\* Record i of d is the directory e
Holds(d, i, e) == i \in Shown(Disc[d]) /\ Disc[d][i].kind = "dir" /\ Disc[d][i].at = e

\* A table read without complaint, from a drive that answered, lists the current
\* directory from the two ends of one array, whatever was misread before; the
\* selector's stack leads from it back to where the selector started, and each
\* entry's position is the one the next was entered from.  The exceptions: an entry
\* made on a misread table; and after a directory and its parent could not be read,
\* the parent may be there twice (push_filesel, pop_filesel, read_iso_directory,
\* fsys_get_dir_entry).
PathHome ==
    LET path == [i \in 1 .. Len(stack) + 1 |->
                    IF i <= Len(stack) THEN stack[i].dir ELSE table.here]
    IN  phase # "INIT" =>
          /\ table.ok /\ table.whole => Lists(table, Disc[table.here])
          /\ path[1] = home
          /\ faults = 0 => home = Root /\ table.ok /\ table.whole
          /\ \A i \in 1 .. Len(stack) : (faults = 0 \/ stack[i].sure) =>
                \/ \E j \in DOMAIN Disc[path[i]] :
                      Holds(path[i], j, path[i + 1]) /\ Position(Disc[path[i]], j) = stack[i].which
                \/ path[i] = path[i + 1] /\ faults > 0

\* One press, or one long hold of B, makes at most one thing happen: opening,
\* leaving, ascending, descending, an error message or its dismissal, whatever
\* phases the program goes through while the button is down (buttons_held).
PressActsOnce == credit >= 0

\* Sound and emulation run in the player and nowhere else, on a file that was
\* accepted, with the SCSP image for its television standard in place and the
\* other kept, and a song number the file has (nsfcore_swapload_scsp_bin,
\* run_player, nsfcore_close).
SongInPlace ==
    /\ running <=> phase = "PLAYER"
    /\ phase = "PLAYER" =>
          /\ core.ok
          /\ images.scsp = IF core.meta.pal THEN "PAL" ELSE "NTSC"
          /\ core.meta.count > 0 => song < core.meta.count
    /\ phase # "INIT" => {images.scsp, images.reserve} = {Images.scsp, Images.reserve}

\* What plays depends on the file that was opened and on nothing before it, no
\* matter what was loaded, refused or looked at earlier (nsfcore_close,
\* nsfcore_load).
LoadIsClean ==
    phase = "PLAYER" => core = NsfcoreLoad(Closed, file.name, file.steps, file.torn)

\* The level the first n chunks of a file give device d
LevelGiven(f, n, d) ==
    LET c == Content[f]
        by == IF c.format # "nsfe" THEN {}
              ELSE {i \in 1 .. n : c.chunks[i].id = "mixe" /\ d \in DOMAIN c.chunks[i].mix}
    IN  IF by = {} THEN Levels[d] ELSE c.chunks[Max(by)].mix[d]

\* Neither the APU nor the chip that is heard is louder than it can be
\* rendered, and their balance is the file's (adjust_mix_levels).
MixFits ==
    phase = "PLAYER" =>
        LET chip == core.meta.emulated
            given(d) == LevelGiven(file.name, file.steps - 1, d)
        IN  /\ core.levels.apu <= MaxLevel.apu
            /\ chip # "none" =>
                  /\ core.levels[chip] <= MaxLevel[chip]
                  /\ core.levels[chip] - core.levels.apu = given(chip) - given("apu")

\* A file plays as itself: nothing of other files, and levels that can be rendered.
LoadIsOwn == LoadIsClean /\ MixFits

\* The functions of ROM, RAM, the APU and the bank registers are those of the
\* song that plays, not of songs before it, and what a song may write to lies
\* in memory that is the core's (emu_init, nsf_set_bank_remap_S).
MapIsSongs ==
    phase = "PLAYER" =>
        LET made == EmuInitMap(InitialMap, core) IN
        /\ \A g \in Regions \ Low : map.write[g] = made.write[g] /\ map.read[g] = made.read[g]
        /\ \A g \in Low : map.write[g] \in {made.write[g]} \cup Chips
        /\ \A g \in Paged : map.write[g] = "page" =>
              \A p \in PagesOf(g) : map.page[p].of # "beyond"

\* Outside the hex viewer the screen mode is the one the user asked for, in
\* whatever phase the Z button was pressed (hires_mode_save).
ModeIsUsers == phase # "HEX" => hires = wish
=============================================================================
