------------------------------ MODULE DirTable ------------------------------
(***************************************************************************)
(* The directory table of fsys.c: one array of entries filled from the low *)
(* end with directories and from the high end with files, read through one *)
(* index.  A directory on the disc is a sequence of records; reading it    *)
(* may find the array full.                                                *)
(*                                                                         *)
(* The results of the reads are ignored.  Where the drive must be asked,   *)
(* at the start of a sector, a read that fails leaves the position where   *)
(* it was and the buffer as it was.  After padding the byte in the buffer  *)
(* is 0, and the read is repeated.  After a record it is that record's     *)
(* length: if its other bytes do not come either, the record is entered    *)
(* once more; if they do, they are bytes of the next record, and from then *)
(* on the loop is out of step and takes any bytes for records, until it    *)
(* happens on the start of one or reaches the end.  Before the first       *)
(* record the buffer is uninitialised.                                     *)
(***************************************************************************)
EXTENDS Integers, SequencesExt

CONSTANTS
    Disc,        \* [directory -> sequence of records [kind, ext, at]], and of places
                 \* that are none, what reading them as one would find
    MaxEntries,  \* max_dir_entries, 5416 in the code
    Strays,      \* what bytes out of step may be taken for
    MaxStray     \* how many records one failure may put in, and lose

Kinds == {"dir", "file", "self", "up"}
Exts == {"none", "nsf", "txt"}
Types == {"directory", "unknown", "nsf", "txt"}

Hidden(r) == r.kind \in {"self", "up"}

\* The player's filter: the extension decides, for a directory too
Filtered(r) ==
    IF r.ext # "none" THEN r.ext
    ELSE IF r.kind = "dir" THEN "directory" ELSE "unknown"

\* What is kept of a record
EntryOf(r) == [type |-> Filtered(r), at |-> r.at]

\* Which of the records recs are shown
Shown(recs) == {i \in DOMAIN recs : ~Hidden(recs[i])}

\* Every record that may be shown
Parsed == {r \in Strays \cup UNION {ToSet(Disc[d]) : d \in DOMAIN Disc} : ~Hidden(r)}

ASSUME DiscAssumption ==
    /\ MaxEntries \in Nat \ {0} /\ MaxStray \in Nat
    /\ Strays \subseteq [kind: Kinds, ext: Exts, at: Nat]
    /\ \A d \in DOMAIN Disc : Disc[d] \in Seq([kind: Kinds, ext: Exts, at: Nat])
    /\ \A r \in Parsed : Filtered(r) = "directory" => r.at \in DOMAIN Disc

NoEntry == [type |-> "none", at |-> 0]
Empty == [slots |-> [i \in 0 .. MaxEntries - 1 |-> NoEntry],
          dirs |-> 0, files |-> 0, here |-> 0, ok |-> TRUE, whole |-> TRUE]

NumEntries(t) == t.dirs + t.files

\* Mutant: the files are not counted from the end of the directories
GetEntryTogether(t, i) == t.slots[IF i < t.dirs THEN i ELSE MaxEntries - 1 - i]

\* fsys_get_dir_entry(): directories upwards, then files downwards
GetEntry(t, i) ==
    t.slots[IF i < t.dirs THEN i ELSE MaxEntries - 1 - (i - t.dirs)]

\* One record of read_iso_directory()'s loop, which ends when ~ok
Enter(t, r) ==
    IF ~t.ok \/ Hidden(r) THEN t
    ELSE IF NumEntries(t) >= MaxEntries THEN [t EXCEPT !.ok = FALSE]
    ELSE LET at == IF r.kind = "dir" THEN t.dirs ELSE MaxEntries - 1 - t.files
         IN  IF r.kind = "dir" THEN [t EXCEPT !.slots[at] = EntryOf(r), !.dirs = @ + 1]
             ELSE [t EXCEPT !.slots[at] = EntryOf(r), !.files = @ + 1]

\* What the loop may take for the records of d when a read fails after record i:
\* from there on record i again or strays, with n records lost to them
Misread(d, i, n) ==
    {SubSeq(Disc[d], 1, i) \o s \o SubSeq(Disc[d], i + 1 + n, Len(Disc[d])) :
        s \in BoundedSeq(Strays \cup {Disc[d][k] : k \in {i} \ {0}}, MaxStray)}

\* The sequences of records the loop may see, with m failures
Deliveries(d, m) ==
    IF m = 0 THEN {Disc[d]}
    ELSE UNION {Misread(d, i, n) : i \in 0 .. Len(Disc[d]) - 1, n \in 0 .. MaxStray}

\* read_iso_directory(), which sees recs for d; only the model knows of whole,
\* that it was d
ReadDirectory(t, d, recs) ==
    LET after[i \in 0 .. Len(recs)] ==
            IF i = 0 THEN [t EXCEPT !.dirs = 0, !.files = 0, !.here = d, !.ok = TRUE,
                                    !.whole = (recs = Disc[d])]
            ELSE Enter(after[i - 1], recs[i])
    IN  after[Len(recs)]

\* The tables it may leave
Readings(t, d, m) == {ReadDirectory(t, d, recs) : recs \in Deliveries(d, m)}

-----------------------------------------------------------------------------
\* Where a whole listing has record i of recs: the directories in the order of
\* the disc, then the files
Position(recs, i) ==
    LET dirs == {j \in Shown(recs) : recs[j].kind = "dir"}
        before(S) == Cardinality({j \in S : j < i})
    IN  IF i \in dirs THEN before(dirs)
        ELSE Cardinality(dirs) + before(Shown(recs) \ dirs)

\* The table lists recs, each directory and then each file once and in order
Lists(t, recs) ==
    /\ NumEntries(t) = Cardinality(Shown(recs))
    /\ \A i \in Shown(recs) : GetEntry(t, Position(recs, i)) = EntryOf(recs[i])
=============================================================================
