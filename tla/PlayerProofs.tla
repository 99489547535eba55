---------------------------- MODULE PlayerProofs ----------------------------
(***************************************************************************)
(* What is proved of Player, for every disc, every content of its files    *)
(* and every limit: each invariant of its runs.  The inductive invariant   *)
(* has five parts, about the pad, the screen, the selector, the viewers    *)
(* and the player; only the player's rests on another's, the selector's.   *)
(***************************************************************************)
EXTENDS Player, NatFacts, SequenceTheorems

-----------------------------------------------------------------------------
(* Counting the members of a set below a number.                           *)

Below(S, n) == Cardinality({j \in S : j < n})

LEMMA Counting ==
    ASSUME NEW l \in Nat, NEW S, S \subseteq 1 .. l
    PROVE  /\ IsFiniteSet(S) /\ Cardinality(S) \in Nat
           /\ Below(S, 1) = 0 /\ Below(S, l + 1) = Cardinality(S)
<1>0. \A j \in S : j \in 1 .. l
  OBVIOUS
<1>1. IsFiniteSet(S) /\ Cardinality(S) \in Nat
  <2>1. IsFiniteSet(1 .. l)
    BY FS_Interval
  <2>2. S \in SUBSET (1 .. l)
    OBVIOUS
  <2>3. IsFiniteSet(S)
    BY <2>1, <2>2, FS_Subset
  <2>. QED
    BY <2>3, FS_CardinalityType
<1>2. {j \in S : j < 1} = {}
  <2>1. \A j \in S : ~(j < 1)
    BY <1>0
  <2>. QED
    BY <2>1
<1>3. {j \in S : j < l + 1} = S
  <2>1. \A j \in S : j < l + 1
    BY <1>0
  <2>. QED
    BY <2>1
<1>. QED
  BY <1>1, <1>2, <1>3, FS_EmptySet DEF Below

LEMMA BelowNext ==
    ASSUME NEW l \in Nat, NEW S, S \subseteq 1 .. l, NEW n \in Nat
    PROVE  /\ Below(S, n) \in Nat /\ Below(S, n) <= Cardinality(S)
           /\ Below(S, n + 1) = Below(S, n) + (IF n \in S THEN 1 ELSE 0)
<1>. DEFINE B == {j \in S : j < n}
<1>1. IsFiniteSet(B) /\ Cardinality(B) \in Nat /\ Cardinality(B) <= Cardinality(S)
  <2>1. B \in SUBSET S
    OBVIOUS
  <2>. QED
    BY <2>1, Counting, FS_Subset, FS_CardinalityType
<1>2. {j \in S : j < n + 1} = IF n \in S THEN B \cup {n} ELSE B
  <2>0. \A j \in S : j \in 1 .. l
    OBVIOUS
  <2>1. \A j \in S : j < n + 1 <=> j < n \/ j = n
    BY <2>0
  <2>2. CASE n \in S
    BY <2>1, <2>2
  <2>3. CASE n \notin S
    BY <2>1, <2>3
  <2>. QED
    BY <2>2, <2>3
<1>3. n \notin B
  OBVIOUS
<1>. HIDE DEF B
<1>4. Cardinality(B \cup {n}) = Cardinality(B) + 1
  BY <1>1, <1>3, FS_AddElement
<1>5. Below(S, n) = Cardinality(B)
  BY DEF Below, B
<1>. QED
  BY <1>1, <1>2, <1>4, <1>5 DEF Below

LEMMA BelowGrows ==
    ASSUME NEW l \in Nat, NEW S, S \subseteq 1 .. l, NEW j \in S, NEW n \in Nat, j < n
    PROVE  Below(S, j) < Below(S, n)
<1>. DEFINE B == {i \in S : i < n}
            A == {i \in S : i < j}
<1>0. \A i \in S : i \in 1 .. l
  OBVIOUS
<1>1. B \in SUBSET S /\ A \cup {j} \in SUBSET B /\ A \in SUBSET S /\ j \notin A
  <2>1. \A i \in A : i \in S /\ i < n
    BY <1>0
  <2>2. j \in B /\ j \notin A
    BY <1>0
  <2>. QED
    BY <2>1, <2>2
<1>. HIDE DEF A, B
<1>2. IsFiniteSet(S) /\ IsFiniteSet(B) /\ IsFiniteSet(A)
  BY <1>1, Counting, FS_Subset
<1>3. Cardinality(A \cup {j}) = Cardinality(A) + 1 /\ Cardinality(A) \in Nat
  BY <1>1, <1>2, FS_AddElement, FS_CardinalityType
<1>4. Cardinality(A \cup {j}) <= Cardinality(B) /\ Cardinality(B) \in Nat
  BY <1>1, <1>2, FS_Subset, FS_CardinalityType
<1>. QED
  BY <1>3, <1>4 DEF Below, A, B

-----------------------------------------------------------------------------
(* The directory table: a sequence R of records, as they are delivered, is *)
(* entered into it.                                                        *)

RecordSeqs == Seq([kind: Kinds, ext: Exts, at: Nat])

Dirs(R) == {j \in Shown(R) : R[j].kind = "dir"}
Files(R) == Shown(R) \ Dirs(R)

LEMMA Records ==
    ASSUME NEW R \in RecordSeqs
    PROVE  /\ Len(R) \in Nat /\ DOMAIN R = 1 .. Len(R)
           /\ \A j \in 1 .. Len(R) : R[j] \in [kind: Kinds, ext: Exts, at: Nat]
           /\ Shown(R) \subseteq 1 .. Len(R)
           /\ Dirs(R) \subseteq 1 .. Len(R) /\ Files(R) \subseteq 1 .. Len(R)
           /\ Cardinality(Shown(R)) = Cardinality(Dirs(R)) + Cardinality(Files(R))
<1>1. R \in Seq([kind: Kinds, ext: Exts, at: Nat])
  BY DEF RecordSeqs
<1>2. Len(R) \in Nat /\ DOMAIN R = 1 .. Len(R)
  BY <1>1
<1>3. ASSUME NEW j \in 1 .. Len(R)
      PROVE  R[j] \in [kind: Kinds, ext: Exts, at: Nat]
  <2>. DEFINE S == [kind: Kinds, ext: Exts, at: Nat]
  <2>1. R \in Seq(S) /\ j \in 1 .. Len(R)
    BY <1>1
  <2>. HIDE DEF S
  <2>2. R[j] \in S
    BY <2>1
  <2>. QED
    BY <2>2 DEF S
<1>4. Shown(R) \subseteq 1 .. Len(R)
  BY <1>2 DEF Shown
<1>5. Dirs(R) \subseteq 1 .. Len(R) /\ Files(R) \subseteq 1 .. Len(R)
  BY <1>4 DEF Dirs, Files
<1>6. Shown(R) = Dirs(R) \cup Files(R) /\ Dirs(R) \cap Files(R) = {}
  BY DEF Dirs, Files
<1>7. IsFiniteSet(Dirs(R)) /\ IsFiniteSet(Files(R)) /\ Cardinality(Dirs(R)) \in Nat
      /\ Cardinality(Files(R)) \in Nat
  BY <1>2, <1>5, Counting
<1>8. Cardinality(Shown(R)) = Cardinality(Dirs(R)) + Cardinality(Files(R)) - Cardinality({})
  BY <1>6, <1>7, FS_Union
<1>. QED
  BY <1>2, <1>3, <1>4, <1>5, <1>7, <1>8, FS_EmptySet

LEMMA PositionIs ==
    ASSUME NEW R, NEW i
    PROVE  Position(R, i) = IF i \in Dirs(R) THEN Below(Dirs(R), i)
                            ELSE Cardinality(Dirs(R)) + Below(Files(R), i)
BY DEF Position, Dirs, Files, Below

Slots == {NoEntry} \cup [type: Types, at: Nat]
Tables == [slots: [0 .. MaxEntries - 1 -> Slots], dirs: Nat, files: Nat,
           here: DOMAIN Disc \cup {0}, ok: BOOLEAN, whole: BOOLEAN]

LEMMA EntryIn ==
    ASSUME NEW r \in [kind: Kinds, ext: Exts, at: Nat]
    PROVE  EntryOf(r) \in Slots
BY DEF EntryOf, Filtered, Slots, Kinds, Exts, Types

\* A record with the fields of a table is one.
LEMMA TableIntro ==
    ASSUME NEW t \in Tables, NEW r, DOMAIN r = DOMAIN t, r = [x \in DOMAIN r |-> r[x]],
           r.slots \in [0 .. MaxEntries - 1 -> Slots], r.dirs \in Nat, r.files \in Nat,
           r.here \in DOMAIN Disc \cup {0}, r.ok \in BOOLEAN, r.whole \in BOOLEAN
    PROVE  r \in Tables
BY DEF Tables

LEMMA TableFields ==
    ASSUME NEW t \in Tables
    PROVE  /\ t.slots \in [0 .. MaxEntries - 1 -> Slots] /\ t.dirs \in Nat /\ t.files \in Nat
           /\ t.here \in DOMAIN Disc \cup {0} /\ t.ok \in BOOLEAN /\ t.whole \in BOOLEAN
           /\ DOMAIN t = {"slots", "dirs", "files", "here", "ok", "whole"}
BY DEF Tables

\* What entering a record of a directory does.
LEMMA EnterIs ==
    ASSUME NEW t \in Tables, NEW r \in [kind: Kinds, ext: Exts, at: Nat]
    PROVE  LET new == Enter(t, r)
               full == t.ok /\ ~Hidden(r) /\ NumEntries(t) >= MaxEntries
               put == t.ok /\ ~Hidden(r) /\ ~(NumEntries(t) >= MaxEntries)
               dir == r.kind = "dir"
           IN  /\ new \in Tables /\ new.here = t.here /\ new.whole = t.whole
               /\ new.ok = (t.ok /\ ~full)
               /\ new.dirs = IF put /\ dir THEN t.dirs + 1 ELSE t.dirs
               /\ new.files = IF put /\ ~dir THEN t.files + 1 ELSE t.files
               /\ new.slots = IF put THEN [t.slots EXCEPT ![IF dir THEN t.dirs
                                                  ELSE MaxEntries - 1 - t.files] = EntryOf(r)]
                              ELSE t.slots
<1>. DEFINE e == EntryOf(r)
            at == IF r.kind = "dir" THEN t.dirs ELSE MaxEntries - 1 - t.files
            s == [t.slots EXCEPT ![at] = e]
            r1 == [t EXCEPT !.slots[at] = e, !.dirs = @ + 1]
            r2 == [t EXCEPT !.slots[at] = e, !.files = @ + 1]
            r3 == [t EXCEPT !.ok = FALSE]
<1>0. /\ t.slots \in [0 .. MaxEntries - 1 -> Slots] /\ t.dirs \in Nat /\ t.files \in Nat
      /\ t.here \in DOMAIN Disc \cup {0} /\ t.ok \in BOOLEAN /\ t.whole \in BOOLEAN
      /\ DOMAIN t = {"slots", "dirs", "files", "here", "ok", "whole"}
  BY TableFields
<1>1. s \in [0 .. MaxEntries - 1 -> Slots]
  <2>1. e \in Slots
    BY EntryIn
  <2>. HIDE DEF e, at
  <2>. QED
    BY <1>0, <2>1
<1>. HIDE DEF e, at
<1>2. /\ DOMAIN r1 = DOMAIN t /\ r1 = [x \in DOMAIN r1 |-> r1[x]]
      /\ r1.slots = s /\ r1.dirs = t.dirs + 1 /\ r1.files = t.files /\ r1.here = t.here /\ r1.ok = t.ok
      /\ r1.whole = t.whole
  BY <1>0
<1>3. /\ DOMAIN r2 = DOMAIN t /\ r2 = [x \in DOMAIN r2 |-> r2[x]]
      /\ r2.slots = s /\ r2.dirs = t.dirs /\ r2.files = t.files + 1 /\ r2.here = t.here /\ r2.ok = t.ok
      /\ r2.whole = t.whole
  BY <1>0
<1>4. /\ DOMAIN r3 = DOMAIN t /\ r3 = [x \in DOMAIN r3 |-> r3[x]]
      /\ r3.slots = t.slots /\ r3.dirs = t.dirs /\ r3.files = t.files /\ r3.here = t.here /\ r3.ok = FALSE
      /\ r3.whole = t.whole
  BY <1>0
<1>5. Enter(t, r) = IF ~t.ok \/ Hidden(r) THEN t
                    ELSE IF NumEntries(t) >= MaxEntries THEN r3
                    ELSE IF r.kind = "dir" THEN r1 ELSE r2
  BY DEF Enter, e, at
<1>. HIDE DEF r1, r2, r3, s
<1>6. r1 \in Tables /\ r2 \in Tables /\ r3 \in Tables
  <2>1. r1 \in Tables
    BY <1>0, <1>1, <1>2, TableIntro
  <2>2. r2 \in Tables
    BY <1>0, <1>1, <1>3, TableIntro
  <2>3. r3 \in Tables
    BY <1>0, <1>4, TableIntro
  <2>. QED
    BY <2>1, <2>2, <2>3
<1>7. s = [t.slots EXCEPT ![IF r.kind = "dir" THEN t.dirs ELSE MaxEntries - 1 - t.files] = EntryOf(r)]
  BY DEF s, e, at
<1>. DEFINE s2 == [t.slots EXCEPT ![IF r.kind = "dir" THEN t.dirs ELSE MaxEntries - 1 - t.files] = EntryOf(r)]
<1>. HIDE DEF s2
<1>8. s = s2
  BY <1>7 DEF s2
<1>9. CASE ~t.ok \/ Hidden(r)
  BY <1>0, <1>5, <1>9
<1>10. CASE t.ok /\ ~Hidden(r) /\ NumEntries(t) >= MaxEntries
  BY <1>0, <1>4, <1>5, <1>6, <1>10
<1>11. CASE t.ok /\ ~Hidden(r) /\ ~(NumEntries(t) >= MaxEntries) /\ r.kind = "dir"
  <2>1. Enter(t, r) = r1
    BY <1>5, <1>11
  <2>. QED
    BY <1>0, <1>2, <1>6, <1>8, <1>11, <2>1 DEF s2
<1>12. CASE t.ok /\ ~Hidden(r) /\ ~(NumEntries(t) >= MaxEntries) /\ r.kind # "dir"
  <2>1. Enter(t, r) = r2
    BY <1>5, <1>12
  <2>. QED
    BY <1>0, <1>3, <1>6, <1>8, <1>12, <2>1 DEF s2
<1>. QED
  BY <1>9, <1>10, <1>11, <1>12

\* The entries of a table are those of directories of R at its low end, of files
\* at its high end; it is the table of directory d, and whole if R is what d has.
OfDir(t, d, R) ==
    /\ t \in Tables /\ t.here = d /\ (t.whole <=> R = Disc[d]) /\ NumEntries(t) <= MaxEntries
    /\ \A x \in 0 .. t.dirs - 1 : \E j \in Dirs(R) : t.slots[x] = EntryOf(R[j])
    /\ \A x \in 0 .. t.files - 1 :
          \E j \in Files(R) : t.slots[MaxEntries - 1 - x] = EntryOf(R[j])

LEMMA EnterOfDir ==
    ASSUME NEW d, NEW R \in RecordSeqs, NEW t, OfDir(t, d, R), NEW j \in 1 .. Len(R)
    PROVE  OfDir(Enter(t, R[j]), d, R)
<1>. DEFINE r == R[j]
            new == Enter(t, r)
            full == t.ok /\ ~Hidden(r) /\ NumEntries(t) >= MaxEntries
            put == t.ok /\ ~Hidden(r) /\ ~(NumEntries(t) >= MaxEntries)
            dir == r.kind = "dir"
            e == EntryOf(r)
<1>1. t \in Tables /\ r \in [kind: Kinds, ext: Exts, at: Nat] /\ j \in DOMAIN R
  BY Records DEF OfDir
<1>2. /\ new \in Tables /\ new.here = t.here /\ new.whole = t.whole
      /\ new.dirs = IF put /\ dir THEN t.dirs + 1 ELSE t.dirs
      /\ new.files = IF put /\ ~dir THEN t.files + 1 ELSE t.files
      /\ new.slots = IF put THEN [t.slots EXCEPT ![IF dir THEN t.dirs
                                         ELSE MaxEntries - 1 - t.files] = e]
                     ELSE t.slots
  BY <1>1, EnterIs
<1>3. ~Hidden(r) => j \in IF dir THEN Dirs(R) ELSE Files(R)
  BY <1>1 DEF Shown, Dirs, Files
<1>4. /\ DOMAIN t.slots = 0 .. MaxEntries - 1 /\ t.dirs \in Nat /\ t.files \in Nat
      /\ NumEntries(t) = t.dirs + t.files /\ MaxEntries \in Nat
  BY <1>1, TableFields, DiscAssumption DEF NumEntries
<1>. HIDE DEF new
<1>5. CASE ~put
  BY <1>2, <1>5 DEF OfDir, NumEntries, new
<1>6. CASE put /\ dir
  <2>. HIDE DEF r, e
  <2>1. new.dirs = t.dirs + 1 /\ new.files = t.files /\ new.slots = [t.slots EXCEPT ![t.dirs] = e]
    BY <1>2, <1>6
  <2>2. ASSUME NEW x \in 0 .. new.dirs - 1
        PROVE  \E i \in Dirs(R) : new.slots[x] = EntryOf(R[i])
    <3>1. CASE x = t.dirs
      BY <1>3, <1>4, <1>6, <2>1, <3>1 DEF r, e
    <3>2. CASE x # t.dirs
      <4>1. x \in 0 .. t.dirs - 1 /\ new.slots[x] = t.slots[x]
        BY <1>4, <2>1, <3>2
      <4>. QED
        BY <4>1 DEF OfDir
    <3>. QED
      BY <3>1, <3>2
  <2>3. ASSUME NEW x \in 0 .. new.files - 1
        PROVE  \E i \in Files(R) : new.slots[MaxEntries - 1 - x] = EntryOf(R[i])
    <3>1. x \in 0 .. t.files - 1 /\ MaxEntries - 1 - x # t.dirs /\ MaxEntries - 1 - x \in 0 .. MaxEntries - 1
      BY <1>4, <1>6, <2>1
    <3>2. new.slots[MaxEntries - 1 - x] = t.slots[MaxEntries - 1 - x]
      BY <1>4, <2>1, <3>1
    <3>. QED
      BY <3>1, <3>2 DEF OfDir
  <2>4. NumEntries(new) <= MaxEntries
    BY <1>4, <1>6, <2>1 DEF NumEntries
  <2>5. new \in Tables /\ new.here = d /\ (new.whole <=> R = Disc[d])
    BY <1>2 DEF OfDir
  <2>6. OfDir(new, d, R)
    BY <2>2, <2>3, <2>4, <2>5 DEF OfDir
  <2>. QED
    BY <2>6 DEF new, r
<1>7. CASE put /\ ~dir
  <2>. HIDE DEF r, e
  <2>1. /\ new.dirs = t.dirs /\ new.files = t.files + 1
        /\ new.slots = [t.slots EXCEPT ![MaxEntries - 1 - t.files] = e]
    BY <1>2, <1>7
  <2>2. ASSUME NEW x \in 0 .. new.dirs - 1
        PROVE  \E i \in Dirs(R) : new.slots[x] = EntryOf(R[i])
    <3>1. x \in 0 .. t.dirs - 1 /\ x # MaxEntries - 1 - t.files /\ x \in 0 .. MaxEntries - 1
      BY <1>4, <1>7, <2>1
    <3>2. new.slots[x] = t.slots[x]
      BY <1>4, <2>1, <3>1
    <3>. QED
      BY <3>1, <3>2 DEF OfDir
  <2>3. ASSUME NEW x \in 0 .. new.files - 1
        PROVE  \E i \in Files(R) : new.slots[MaxEntries - 1 - x] = EntryOf(R[i])
    <3>0. MaxEntries - 1 - x \in 0 .. MaxEntries - 1
      BY <1>4, <1>7, <2>1
    <3>1. CASE x = t.files
      BY <1>3, <1>4, <1>7, <2>1, <3>0, <3>1 DEF r, e
    <3>2. CASE x # t.files
      <4>1. x \in 0 .. t.files - 1 /\ MaxEntries - 1 - x # MaxEntries - 1 - t.files
        BY <1>4, <2>1, <3>2
      <4>2. new.slots[MaxEntries - 1 - x] = t.slots[MaxEntries - 1 - x]
        BY <1>4, <2>1, <3>0, <4>1
      <4>. QED
        BY <4>1, <4>2 DEF OfDir
    <3>. QED
      BY <3>1, <3>2
  <2>4. NumEntries(new) <= MaxEntries
    BY <1>4, <1>7, <2>1 DEF NumEntries
  <2>5. new \in Tables /\ new.here = d /\ (new.whole <=> R = Disc[d])
    BY <1>2 DEF OfDir
  <2>6. OfDir(new, d, R)
    BY <2>2, <2>3, <2>4, <2>5 DEF OfDir
  <2>. QED
    BY <2>6 DEF new, r
<1>. QED
  BY <1>5, <1>6, <1>7 DEF new

\* A table into which the first i records of R have been entered.
Whole(t, R, i) ==
    t.ok => /\ t.dirs = Below(Dirs(R), i + 1) /\ t.files = Below(Files(R), i + 1)
            /\ \A j \in Dirs(R) : j <= i => t.slots[Below(Dirs(R), j)] = EntryOf(R[j])
            /\ \A j \in Files(R) :
                  j <= i => t.slots[MaxEntries - 1 - Below(Files(R), j)] = EntryOf(R[j])
            /\ \A x \in 0 .. t.dirs - 1 : \E j \in Dirs(R) : j <= i /\ Below(Dirs(R), j) = x
            /\ \A x \in 0 .. t.files - 1 : \E j \in Files(R) : j <= i /\ Below(Files(R), j) = x

Overfull(t, R, i) == ~t.ok => Below(Dirs(R), i + 1) + Below(Files(R), i + 1) > MaxEntries

LEMMA EnterWhole ==
    ASSUME NEW d, NEW R \in RecordSeqs, NEW t, OfDir(t, d, R), NEW i \in 1 .. Len(R),
           Whole(t, R, i - 1), Overfull(t, R, i - 1)
    PROVE  Whole(Enter(t, R[i]), R, i) /\ Overfull(Enter(t, R[i]), R, i)
<1>. DEFINE r == R[i]
            new == Enter(t, r)
            full == t.ok /\ ~Hidden(r) /\ NumEntries(t) >= MaxEntries
            put == t.ok /\ ~Hidden(r) /\ ~(NumEntries(t) >= MaxEntries)
            dir == r.kind = "dir"
            e == EntryOf(r)
            D(n) == Below(Dirs(R), n)
            F(n) == Below(Files(R), n)
<1>1. t \in Tables /\ r \in [kind: Kinds, ext: Exts, at: Nat] /\ i \in DOMAIN R
  BY Records DEF OfDir
<1>2. /\ new.ok = (t.ok /\ ~full)
      /\ new.dirs = IF put /\ dir THEN t.dirs + 1 ELSE t.dirs
      /\ new.files = IF put /\ ~dir THEN t.files + 1 ELSE t.files
      /\ new.slots = IF put THEN [t.slots EXCEPT ![IF dir THEN t.dirs
                                         ELSE MaxEntries - 1 - t.files] = e]
                     ELSE t.slots
  BY <1>1, EnterIs
<1>3. /\ i \in Dirs(R) <=> ~Hidden(r) /\ dir
      /\ i \in Files(R) <=> ~Hidden(r) /\ ~dir
  BY <1>1 DEF Shown, Dirs, Files
<1>4. /\ DOMAIN t.slots = 0 .. MaxEntries - 1 /\ t.dirs \in Nat /\ t.files \in Nat
      /\ NumEntries(t) = t.dirs + t.files /\ MaxEntries \in Nat /\ i \in Nat /\ t.ok \in BOOLEAN
      /\ i - 1 + 1 = i
  BY <1>1, Records, TableFields, DiscAssumption DEF NumEntries
<1>5. /\ D(i) \in Nat /\ F(i) \in Nat
      /\ D(i + 1) = D(i) + (IF i \in Dirs(R) THEN 1 ELSE 0)
      /\ F(i + 1) = F(i) + (IF i \in Files(R) THEN 1 ELSE 0)
  BY <1>4, Records, BelowNext
<1>6. ASSUME NEW j \in Dirs(R)
      PROVE  j \in Nat /\ (j < i => D(j) < D(i)) /\ D(j) \in Nat
  <2>1. j \in Nat /\ Dirs(R) \subseteq 1 .. Len(R) /\ Len(R) \in Nat
    BY Records
  <2>. QED
    BY <1>4, <2>1, BelowNext, BelowGrows
<1>7. ASSUME NEW j \in Files(R)
      PROVE  j \in Nat /\ (j < i => F(j) < F(i)) /\ F(j) \in Nat
  <2>1. j \in Nat /\ Files(R) \subseteq 1 .. Len(R) /\ Len(R) \in Nat
    BY Records
  <2>. QED
    BY <1>4, <2>1, BelowNext, BelowGrows
<1>8. t.ok => /\ t.dirs = D(i) /\ t.files = F(i)
              /\ \A j \in Dirs(R) : j < i => t.slots[D(j)] = EntryOf(R[j])
              /\ \A j \in Files(R) : j < i => t.slots[MaxEntries - 1 - F(j)] = EntryOf(R[j])
              /\ \A x \in 0 .. t.dirs - 1 : \E j \in Dirs(R) : j < i /\ D(j) = x
              /\ \A x \in 0 .. t.files - 1 : \E j \in Files(R) : j < i /\ F(j) = x
  <2>1. \A j \in Dirs(R) \cup Files(R) : j <= i - 1 <=> j < i
    BY <1>4, <1>6, <1>7
  <2>. QED
    BY <1>4, <2>1 DEF Whole
<1>9. ~t.ok => D(i) + F(i) > MaxEntries
  BY <1>4 DEF Overfull
<1>. HIDE DEF new, D, F
<1>10. CASE ~t.ok
  BY <1>2, <1>4, <1>5, <1>9, <1>10 DEF Whole, Overfull, new, D, F
<1>11. CASE full
  <2>1. ~new.ok
    BY <1>2, <1>11
  <2>2. D(i + 1) + F(i + 1) > MaxEntries
    BY <1>3, <1>4, <1>5, <1>8, <1>11
  <2>. QED
    BY <2>1, <2>2 DEF Whole, Overfull, new, D, F
<1>12. CASE t.ok /\ Hidden(r)
  <2>1. new.ok /\ new.dirs = t.dirs /\ new.files = t.files /\ new.slots = t.slots
    BY <1>2, <1>12
  <2>2. D(i + 1) = D(i) /\ F(i + 1) = F(i) /\ i \notin Dirs(R) /\ i \notin Files(R)
    BY <1>3, <1>5, <1>12
  <2>3. \A j \in Dirs(R) \cup Files(R) : j <= i <=> j < i
    BY <1>4, <1>6, <1>7, <2>2
  <2>. QED
    BY <1>8, <1>12, <2>1, <2>2, <2>3 DEF Whole, Overfull, new, D, F
<1>13. CASE put /\ dir
  <2>. HIDE DEF r, e
  <2>1. /\ new.ok /\ new.dirs = t.dirs + 1 /\ new.files = t.files
        /\ new.slots = [t.slots EXCEPT ![t.dirs] = e]
    BY <1>2, <1>13
  <2>2. D(i + 1) = D(i) + 1 /\ F(i + 1) = F(i) /\ i \in Dirs(R) /\ i \notin Files(R)
    BY <1>3, <1>5, <1>13
  <2>3. ASSUME NEW j \in Dirs(R), j <= i PROVE new.slots[D(j)] = EntryOf(R[j])
    <3>1. CASE j = i
      BY SMTT(30), <1>4, <1>8, <1>13, <2>1, <3>1 DEF r, e
    <3>2. CASE j # i
      BY SMTT(30), <1>4, <1>6, <1>8, <1>13, <2>1, <2>3, <3>2
    <3>. QED
      BY <3>1, <3>2
  <2>4. ASSUME NEW j \in Files(R), j <= i
        PROVE  new.slots[MaxEntries - 1 - F(j)] = EntryOf(R[j])
    <3>1. j < i
      BY <1>4, <1>7, <2>2, <2>4
    <3>2. F(j) < F(i) /\ F(j) \in Nat /\ MaxEntries - 1 - F(j) # t.dirs
      BY <1>4, <1>5, <1>7, <1>8, <1>13, <3>1
    <3>. QED
      BY <1>8, <1>13, <2>1, <3>1, <3>2
  <2>5. ASSUME NEW x \in 0 .. new.dirs - 1
        PROVE  \E j \in Dirs(R) : j <= i /\ D(j) = x
    <3>1. CASE x = t.dirs
      BY <1>4, <1>8, <1>13, <2>2, <3>1
    <3>2. CASE x # t.dirs
      <4>1. x \in 0 .. t.dirs - 1
        BY <1>4, <2>1, <3>2
      <4>2. PICK j \in Dirs(R) : j < i /\ D(j) = x
        BY <1>8, <1>13, <4>1
      <4>. QED
        BY <1>4, <1>6, <4>2
    <3>. QED
      BY <3>1, <3>2
  <2>6. ASSUME NEW x \in 0 .. new.files - 1
        PROVE  \E j \in Files(R) : j <= i /\ F(j) = x
    BY <1>4, <1>7, <1>8, <1>13, <2>1, <2>2
  <2>7. new.dirs = D(i + 1) /\ new.files = F(i + 1)
    BY <1>8, <1>13, <2>1, <2>2
  <2>8. Whole(new, R, i) /\ Overfull(new, R, i)
    BY <2>1, <2>3, <2>4, <2>5, <2>6, <2>7 DEF Whole, Overfull, D, F
  <2>. QED
    BY <2>8 DEF new, r
<1>14. CASE put /\ ~dir
  <2>. HIDE DEF r, e
  <2>1. /\ new.ok /\ new.dirs = t.dirs /\ new.files = t.files + 1
        /\ new.slots = [t.slots EXCEPT ![MaxEntries - 1 - t.files] = e]
    BY <1>2, <1>14
  <2>2. D(i + 1) = D(i) /\ F(i + 1) = F(i) + 1 /\ i \notin Dirs(R) /\ i \in Files(R)
    BY <1>3, <1>5, <1>14
  <2>3. ASSUME NEW j \in Files(R), j <= i
        PROVE  new.slots[MaxEntries - 1 - F(j)] = EntryOf(R[j])
    <3>1. CASE j = i
      BY <1>4, <1>8, <1>14, <2>1, <3>1 DEF r, e
    <3>2. CASE j # i
      <4>1. j < i /\ F(j) < F(i) /\ F(j) \in Nat /\ F(i) = t.files
        BY <1>4, <1>7, <1>8, <1>14, <2>3, <3>2
      <4>2. MaxEntries - 1 - F(j) # MaxEntries - 1 - t.files
        BY <1>4, <4>1
      <4>. QED
        BY SMTT(30), <1>4, <1>8, <1>14, <2>1, <4>1, <4>2
    <3>. QED
      BY <3>1, <3>2
  <2>4. ASSUME NEW j \in Dirs(R), j <= i PROVE new.slots[D(j)] = EntryOf(R[j])
    <3>1. j < i
      BY <1>4, <1>6, <2>2, <2>4
    <3>2. D(j) < D(i) /\ D(j) \in Nat /\ D(j) # MaxEntries - 1 - t.files
      BY <1>4, <1>5, <1>6, <1>8, <1>14, <3>1
    <3>. QED
      BY <1>8, <1>14, <2>1, <3>1, <3>2
  <2>5. ASSUME NEW x \in 0 .. new.dirs - 1
        PROVE  \E j \in Dirs(R) : j <= i /\ D(j) = x
    BY SMTT(30), <1>4, <1>6, <1>8, <1>14, <2>1, <2>2
  <2>6. ASSUME NEW x \in 0 .. new.files - 1
        PROVE  \E j \in Files(R) : j <= i /\ F(j) = x
    <3>1. CASE x = t.files
      BY <1>4, <1>8, <1>14, <2>2, <3>1
    <3>2. CASE x # t.files
      <4>1. x \in 0 .. t.files - 1
        BY <1>4, <2>1, <3>2
      <4>2. PICK j \in Files(R) : j < i /\ F(j) = x
        BY <1>8, <1>14, <4>1
      <4>. QED
        BY <1>4, <1>7, <4>2
    <3>. QED
      BY <3>1, <3>2
  <2>7. new.dirs = D(i + 1) /\ new.files = F(i + 1)
    BY <1>8, <1>14, <2>1, <2>2
  <2>8. Whole(new, R, i) /\ Overfull(new, R, i)
    BY <2>1, <2>3, <2>4, <2>5, <2>6, <2>7 DEF Whole, Overfull, D, F
  <2>. QED
    BY <2>8 DEF new, r
<1>. QED
  BY <1>4, <1>10, <1>11, <1>12, <1>13, <1>14

LEMMA FreshTable ==
    ASSUME NEW t \in Tables, NEW d \in DOMAIN Disc, NEW R \in RecordSeqs
    PROVE  LET fresh == [t EXCEPT !.dirs = 0, !.files = 0, !.here = d, !.ok = TRUE,
                                  !.whole = (R = Disc[d])]
           IN  OfDir(fresh, d, R) /\ Whole(fresh, R, 0) /\ Overfull(fresh, R, 0) /\ NumEntries(fresh) = 0
<1>. DEFINE same == R = Disc[d]
            fresh == [t EXCEPT !.dirs = 0, !.files = 0, !.here = d, !.ok = TRUE, !.whole = same]
<1>0. /\ t.slots \in [0 .. MaxEntries - 1 -> Slots]
      /\ DOMAIN t = {"slots", "dirs", "files", "here", "ok", "whole"}
  BY TableFields
<1>1. /\ DOMAIN fresh = DOMAIN t /\ fresh = [x \in DOMAIN fresh |-> fresh[x]]
      /\ fresh.slots = t.slots /\ fresh.dirs = 0 /\ fresh.files = 0 /\ fresh.here = d
      /\ fresh.ok /\ fresh.ok \in BOOLEAN /\ fresh.whole = same
  <2>. HIDE DEF same
  <2>. QED
    BY <1>0
<1>2. \A j \in Dirs(R) \cup Files(R) : ~(j <= 0)
  BY Records
<1>3. Below(Dirs(R), 1) = 0 /\ Below(Files(R), 1) = 0 /\ MaxEntries \in Nat
  BY Records, Counting, DiscAssumption
<1>. HIDE DEF fresh
<1>4. fresh \in Tables
  <2>1. /\ fresh.slots \in [0 .. MaxEntries - 1 -> Slots] /\ fresh.dirs \in Nat /\ fresh.files \in Nat
        /\ fresh.here \in DOMAIN Disc \cup {0} /\ fresh.ok \in BOOLEAN /\ fresh.whole \in BOOLEAN
    BY <1>0, <1>1
  <2>. QED
    BY <1>1, <2>1, TableIntro
<1>5. OfDir(fresh, d, R) /\ NumEntries(fresh) = 0
  <2>1. fresh.whole <=> R = Disc[d]
    BY Zenon, <1>1
  <2>. HIDE DEF same
  <2>. QED
    BY <1>1, <1>3, <1>4, <2>1 DEF OfDir, NumEntries
<1>6. Whole(fresh, R, 0) /\ Overfull(fresh, R, 0)
  BY <1>1, <1>2, <1>3 DEF Whole, Overfull
<1>. QED
  BY <1>5, <1>6 DEF fresh

\* Reading a directory: the records that are delivered are entered, as far as the
\* table takes them.
LEMMA Reading ==
    ASSUME NEW t \in Tables, NEW d \in DOMAIN Disc, NEW R \in RecordSeqs
    PROVE  LET r == ReadDirectory(t, d, R)
           IN  OfDir(r, d, R) /\ Whole(r, R, Len(R)) /\ Overfull(r, R, Len(R))
<1>. DEFINE l == Len(R)
            fresh == [t EXCEPT !.dirs = 0, !.files = 0, !.here = d, !.ok = TRUE,
                               !.whole = (R = Disc[d])]
            Body(G, n) == IF n = 0 THEN fresh ELSE Enter(G[n - 1], R[n])
            F == CHOOSE G : G = [n \in 0 .. l |-> Body(G, n)]
            step == [n \in 1 .. l |-> [x \in Tables |-> Enter(x, R[n])]]
<1>1. l \in Nat
  BY Records
<1>2. step \in [1 .. l -> [Tables -> Tables]]
  <2>1. ASSUME NEW n \in 1 .. l, NEW x \in Tables PROVE Enter(x, R[n]) \in Tables
    <3>1. R[n] \in [kind: Kinds, ext: Exts, at: Nat]
      BY Records
    <3>. QED
      BY <3>1, EnterIs
  <2>. QED
    BY <2>1
<1>3. OfDir(fresh, d, R) /\ Whole(fresh, R, 0) /\ Overfull(fresh, R, 0)
  BY FreshTable
<1>. HIDE DEF fresh
<1>4. fresh \in Tables
  BY <1>3 DEF OfDir
<1>5. PICK g : IsCourse(g, Tables, step, fresh, l)
  <2>. HIDE DEF step, l
  <2>. QED
    BY <1>1, <1>2, <1>4, Courses
<1>6. g = [n \in 0 .. l |-> Body(g, n)]
  <2>1. ASSUME NEW n \in 0 .. l PROVE g[n] = Body(g, n)
    <3>1. CASE n = 0
      BY <1>5, <3>1 DEF IsCourse
    <3>2. CASE n # 0
      <4>1. n - 1 \in 0 .. l /\ n \in 1 .. l
        BY <1>1, <3>2
      <4>. QED
        BY <1>5, <3>2, <4>1 DEF IsCourse
    <3>. QED
      BY <3>1, <3>2
  <2>. HIDE DEF Body, l
  <2>. QED
    BY <1>5, <2>1 DEF IsCourse
<1>7. F = [n \in 0 .. l |-> Body(F, n)]
  <2>. HIDE DEF Body, l
  <2>. QED
    BY <1>6
<1>8. ReadDirectory(t, d, R) = F[l]
  BY DEF ReadDirectory, fresh
<1>. HIDE DEF F
<1>9. F[0] = fresh /\ \A n \in 1 .. l : F[n] = Enter(F[n - 1], R[n])
  BY <1>1, <1>7
<1>. DEFINE Kept(n) == OfDir(F[n], d, R) /\ Whole(F[n], R, n) /\ Overfull(F[n], R, n)
            kept == {n \in 0 .. l : Kept(n)}
<1>10. 0 \in kept
  BY <1>1, <1>3, <1>9
<1>11. ASSUME NEW n \in 0 .. l, n # 0, n - 1 \in kept PROVE n \in kept
  <2>1. n \in 1 .. l /\ n - 1 \in 0 .. l
    BY <1>1, <1>11
  <2>2. F[n] = Enter(F[n - 1], R[n])
    BY <1>9, <2>1
  <2>3. Kept(n - 1)
    BY <1>11
  <2>. HIDE DEF F
  <2>4. Kept(n)
    BY <2>1, <2>2, <2>3, EnterOfDir, EnterWhole
  <2>. QED
    BY <2>1, <2>4
<1>12. l \in kept
  <2>. HIDE DEF kept, l
  <2>1. 0 .. l \subseteq kept
    BY <1>1, <1>10, <1>11, UpToBound
  <2>. QED
    BY <1>1, <2>1
<1>. QED
  BY <1>8, <1>12

Fits(d) == Cardinality(Shown(Disc[d])) <= MaxEntries

\* Entry i of a table is that of some record; in a whole table it is the right one,
\* and all are there.
Listed(t) ==
    LET d == t.here IN
    /\ d \in DOMAIN Disc
    /\ \A i \in 0 .. NumEntries(t) - 1 : \E r \in Parsed : GetEntry(t, i) = EntryOf(r)
    /\ t.ok /\ t.whole =>
          /\ Lists(t, Disc[d])
          /\ \A i \in 0 .. NumEntries(t) - 1 : \E j \in Shown(Disc[d]) :
                GetEntry(t, i) = EntryOf(Disc[d][j]) /\ Position(Disc[d], j) = i

\* A table has entries of what was delivered wherever it is asked for one.
LEMMA OfDirGets ==
    ASSUME NEW d, NEW R, NEW t, OfDir(t, d, R), NEW i \in 0 .. NumEntries(t) - 1
    PROVE  \E j \in Shown(R) : GetEntry(t, i) = EntryOf(R[j])
<1>1. t.dirs \in Nat /\ t.files \in Nat
  BY TableFields DEF OfDir
<1>2. CASE i < t.dirs
  <2>1. i \in 0 .. t.dirs - 1
    BY <1>1, <1>2
  <2>2. PICK j \in Dirs(R) : t.slots[i] = EntryOf(R[j])
    BY <2>1 DEF OfDir
  <2>. QED
    BY <1>2, <2>2 DEF GetEntry, Dirs
<1>3. CASE ~(i < t.dirs)
  <2>1. i - t.dirs \in 0 .. t.files - 1
    BY <1>1, <1>3 DEF NumEntries
  <2>2. PICK j \in Files(R) : t.slots[MaxEntries - 1 - (i - t.dirs)] = EntryOf(R[j])
    BY <2>1 DEF OfDir
  <2>. QED
    BY <1>3, <2>2 DEF GetEntry, Files
<1>. QED
  BY <1>2, <1>3

\* A table lists R, which fits, and every entry is that of the record it stands for.
Complete(t, R) ==
    /\ Lists(t, R) /\ Cardinality(Shown(R)) <= MaxEntries
    /\ \A i \in 0 .. NumEntries(t) - 1 : \E j \in Shown(R) :
          GetEntry(t, i) = EntryOf(R[j]) /\ Position(R, j) = i

\* A table into which all records of R have been entered lists R, unless it is overfull.
LEMMA WholeLists ==
    ASSUME NEW d, NEW R \in RecordSeqs, NEW t, OfDir(t, d, R), Whole(t, R, Len(R)), t.ok
    PROVE  Complete(t, R)
<1>. DEFINE l == Len(R)
            D(n) == Below(Dirs(R), n)
            F(n) == Below(Files(R), n)
<1>1. /\ l \in Nat /\ Dirs(R) \subseteq 1 .. l /\ Files(R) \subseteq 1 .. l
      /\ Cardinality(Shown(R)) = Cardinality(Dirs(R)) + Cardinality(Files(R))
  BY Records
<1>2. D(l + 1) = Cardinality(Dirs(R)) /\ F(l + 1) = Cardinality(Files(R))
  BY <1>1, Counting
<1>3. t.dirs \in Nat /\ t.files \in Nat /\ t.here = d /\ NumEntries(t) <= MaxEntries
  BY TableFields DEF OfDir
<1>4. /\ t.dirs = Cardinality(Dirs(R)) /\ t.files = Cardinality(Files(R))
      /\ \A j \in Dirs(R) : j <= l => t.slots[D(j)] = EntryOf(R[j])
      /\ \A j \in Files(R) : j <= l => t.slots[MaxEntries - 1 - F(j)] = EntryOf(R[j])
      /\ \A x \in 0 .. t.dirs - 1 : \E j \in Dirs(R) : D(j) = x
      /\ \A x \in 0 .. t.files - 1 : \E j \in Files(R) : F(j) = x
  BY <1>2 DEF Whole
<1>5. NumEntries(t) = Cardinality(Shown(R)) /\ Cardinality(Shown(R)) <= MaxEntries
  BY <1>1, <1>3, <1>4 DEF NumEntries
<1>6. ASSUME NEW j \in Dirs(R)
      PROVE  j \in Nat /\ D(j) \in Nat /\ D(j) < t.dirs /\ t.slots[D(j)] = EntryOf(R[j])
  <2>1. j \in Nat /\ j < l + 1 /\ l + 1 \in Nat
    BY <1>1
  <2>2. D(j) \in Nat /\ D(j) < D(l + 1)
    BY <1>1, <2>1, BelowNext, BelowGrows
  <2>. QED
    BY <1>1, <1>2, <1>4, <2>1, <2>2
<1>7. ASSUME NEW j \in Files(R)
      PROVE  j \in Nat /\ F(j) \in Nat /\ t.slots[MaxEntries - 1 - F(j)] = EntryOf(R[j])
  <2>1. j \in Nat /\ j < l + 1
    BY <1>1
  <2>2. F(j) \in Nat
    BY <1>1, <2>1, BelowNext
  <2>. QED
    BY <1>1, <1>4, <2>1, <2>2
<1>. HIDE DEF D, F
<1>8. ASSUME NEW j \in Shown(R) PROVE GetEntry(t, Position(R, j)) = EntryOf(R[j])
  <2>1. CASE j \in Dirs(R)
    <3>1. Position(R, j) = D(j)
      BY <2>1, PositionIs DEF D
    <3>. QED
      BY <1>3, <1>6, <2>1, <3>1 DEF GetEntry
  <2>2. CASE j \in Files(R)
    <3>1. Position(R, j) = t.dirs + F(j)
      BY <1>4, <2>2, PositionIs DEF F, Files
    <3>2. ~(t.dirs + F(j) < t.dirs) /\ t.dirs + F(j) - t.dirs = F(j)
      BY <1>3, <1>7, <2>2
    <3>. QED
      BY <1>3, <1>7, <2>2, <3>1, <3>2 DEF GetEntry
  <2>. QED
    BY <2>1, <2>2 DEF Files
<1>9. ASSUME NEW i \in 0 .. NumEntries(t) - 1
      PROVE  \E j \in Shown(R) : GetEntry(t, i) = EntryOf(R[j]) /\ Position(R, j) = i
  <2>1. CASE i < t.dirs
    <3>1. i \in 0 .. t.dirs - 1
      BY <1>3, <2>1
    <3>2. PICK j \in Dirs(R) : D(j) = i
      BY <1>4, <3>1 DEF D
    <3>3. Position(R, j) = i /\ j \in Shown(R)
      BY <3>2, PositionIs DEF D, Dirs
    <3>. QED
      BY <1>8, <3>3
  <2>2. CASE ~(i < t.dirs)
    <3>1. i - t.dirs \in 0 .. t.files - 1
      BY <1>3, <2>2 DEF NumEntries
    <3>2. PICK j \in Files(R) : F(j) = i - t.dirs
      BY <1>4, <3>1 DEF F
    <3>3. Position(R, j) = t.dirs + F(j) /\ j \in Shown(R)
      BY <1>4, PositionIs DEF F, Files
    <3>4. Position(R, j) = i
      BY <1>3, <3>2, <3>3
    <3>. QED
      BY <1>8, <3>3, <3>4
  <2>. QED
    BY <2>1, <2>2
<1>. QED
  BY <1>3, <1>5, <1>8, <1>9 DEF Lists, Complete

\* Whatever is delivered is a sequence of records, parsed unless they are hidden.
LEMMA Delivered ==
    ASSUME NEW d \in DOMAIN Disc, NEW m, NEW R \in Deliveries(d, m)
    PROVE  /\ R \in RecordSeqs /\ (m = 0 => R = Disc[d])
           /\ \A j \in Shown(R) : R[j] \in Parsed
<1>. DEFINE Rec == [kind: Kinds, ext: Exts, at: Nat]
            P == {r \in Rec : Hidden(r) \/ r \in Parsed}
            q == Disc[d]
<1>1. Disc[d] \in RecordSeqs /\ Strays \subseteq Rec /\ MaxStray \in Nat
  BY DiscAssumption DEF RecordSeqs
<1>2. /\ Len(q) \in Nat /\ DOMAIN q = 1 .. Len(q)
      /\ \A j \in 1 .. Len(q) : q[j] \in Rec
  BY <1>1, Records
<1>3. \A j \in 1 .. Len(q) : q[j] \in P
  BY <1>2 DEF Parsed, ToSet
<1>4. q \in Seq(P)
  <2>. HIDE DEF P
  <2>1. q = [j \in 1 .. Len(q) |-> q[j]]
    BY <1>1, <1>2 DEF RecordSeqs
  <2>. QED
    BY <1>2, <1>3, <2>1
<1>5. \A r \in Strays : r \in P
  BY <1>1 DEF Parsed
<1>6. R \in Seq(P)
  <2>1. CASE m = 0
    BY <1>4, <2>1 DEF Deliveries
  <2>2. CASE m # 0
    <3>1. PICK i \in 0 .. Len(q) - 1, n \in 0 .. MaxStray : R \in Misread(d, i, n)
      BY <2>2 DEF Deliveries
    <3>. DEFINE S == Strays \cup {q[k] : k \in {i} \ {0}}
    <3>2. PICK s \in BoundedSeq(S, MaxStray) :
             R = SubSeq(q, 1, i) \o s \o SubSeq(q, i + 1 + n, Len(q))
      BY <3>1 DEF Misread
    <3>3. s \in Seq(P)
      <4>1. S \subseteq P
        <5>1. \A k \in {i} \ {0} : k \in 1 .. Len(q)
          BY <1>2
        <5>. QED
          BY <1>3, <1>5, <5>1
      <4>2. PICK c \in 0 .. MaxStray : s \in [1 .. c -> S]
        BY <1>1, <3>2 DEF BoundedSeq, SeqOf
      <4>. HIDE DEF S, P
      <4>3. c \in Nat /\ s \in [1 .. c -> P]
        BY <1>1, <4>1, <4>2
      <4>. QED
        BY <4>3
    <3>. HIDE DEF S, P, q
    <3>4. SubSeq(q, 1, i) \in Seq(P)
      BY <1>2, <1>4
    <3>5. SubSeq(q, i + 1 + n, Len(q)) \in Seq(P)
      BY <1>1, <1>2, <1>4
    <3>. QED
      BY <3>2, <3>3, <3>4, <3>5
  <2>. QED
    BY <2>1, <2>2
<1>. HIDE DEF P
<1>7. \A j \in DOMAIN R : R[j] \in P
  BY <1>6
<1>8. R \in Seq(Rec)
  <2>1. P \subseteq Rec
    BY DEF P
  <2>. HIDE DEF Rec
  <2>2. /\ R = [j \in 1 .. Len(R) |-> R[j]] /\ Len(R) \in Nat
        /\ \A j \in 1 .. Len(R) : R[j] \in Rec
    BY <1>6, <2>1
  <2>. QED
    BY <2>2
<1>9. \A j \in Shown(R) : R[j] \in Parsed
  BY <1>7 DEF P, Shown
<1>10. m = 0 => R = Disc[d]
  BY DEF Deliveries
<1>. QED
  BY <1>8, <1>9, <1>10 DEF RecordSeqs

LEMMA ReadLists ==
    ASSUME NEW t \in Tables, NEW d \in DOMAIN Disc, NEW m, NEW r \in Readings(t, d, m)
    PROVE  /\ r \in Tables /\ NumEntries(r) <= MaxEntries /\ r.here = d /\ Listed(r)
           /\ m = 0 => r.whole
           /\ r.whole => (r.ok <=> Fits(d))
<1>1. PICK R \in Deliveries(d, m) : r = ReadDirectory(t, d, R)
  BY DEF Readings
<1>2. /\ R \in RecordSeqs /\ (m = 0 => R = Disc[d])
      /\ \A j \in Shown(R) : R[j] \in Parsed
  BY Delivered
<1>3. OfDir(r, d, R) /\ Whole(r, R, Len(R)) /\ Overfull(r, R, Len(R))
  BY <1>1, <1>2, Reading
<1>4. r \in Tables /\ NumEntries(r) <= MaxEntries /\ r.here = d /\ (r.whole <=> R = Disc[d])
  BY <1>3 DEF OfDir
<1>5. ASSUME r.ok
      PROVE  Complete(r, R)
  BY <1>2, <1>3, <1>5, WholeLists
<1>6. \A i \in 0 .. NumEntries(r) - 1 : \E p \in Parsed : GetEntry(r, i) = EntryOf(p)
  BY <1>2, <1>3, OfDirGets
<1>7. Listed(r)
  BY <1>4, <1>5, <1>6 DEF Listed, Complete
<1>8. ASSUME ~r.ok PROVE Cardinality(Shown(R)) > MaxEntries
  <2>1. Below(Dirs(R), Len(R) + 1) + Below(Files(R), Len(R) + 1) > MaxEntries
    BY <1>3, <1>8 DEF Overfull
  <2>2. Below(Dirs(R), Len(R) + 1) + Below(Files(R), Len(R) + 1) = Cardinality(Shown(R))
    BY <1>2, Records, Counting
  <2>. QED
    BY <2>1, <2>2
<1>9. Cardinality(Shown(R)) \in Nat /\ MaxEntries \in Nat
  BY <1>2, Records, Counting, DiscAssumption
<1>10. r.ok \in BOOLEAN
  BY <1>4, TableFields
<1>11. r.whole => (r.ok <=> Fits(d))
  BY <1>4, <1>5, <1>8, <1>9, <1>10 DEF Fits, Complete
<1>. QED
  BY <1>2, <1>4, <1>7, <1>11
-----------------------------------------------------------------------------
(* The loaders.                                                            *)

Metas == [count: Byte, start: Byte, pal: BOOLEAN, chip: SUBSET Chips, emulated: Chips \cup {"none"}]

CoreNames == {"meta", "load", "banked", "banks", "rom", "levels", "ok"}

\* The core's data, as far as the player looks at it.
IsCore(k) ==
    /\ DOMAIN k = CoreNames /\ k = [x \in DOMAIN k |-> k[x]]
    /\ k.meta \in Metas /\ k.banks \in BankRegs /\ k.banked \in BOOLEAN /\ k.ok \in BOOLEAN

\* The core's data while file f is loaded.
Cores(f) == [meta: Metas, load: 0 .. 15, banked: BOOLEAN, banks: BankRegs,
             rom: SUBSET [file: {f}, at: Int], levels: [Devices -> Int], ok: BOOLEAN]

CoreFields(f, k) ==
    /\ k.meta \in Metas /\ k.load \in 0 .. 15 /\ k.banked \in BOOLEAN /\ k.banks \in BankRegs
    /\ k.rom \in SUBSET [file: {f}, at: Int] /\ k.levels \in [Devices -> Int] /\ k.ok \in BOOLEAN

LEMMA CoreUnpack ==
    ASSUME NEW f, NEW k \in Cores(f)
    PROVE  CoreFields(f, k) /\ DOMAIN k = CoreNames /\ IsCore(k)
BY DEF Cores, CoreFields, CoreNames, IsCore

LEMMA CoreIntro ==
    ASSUME NEW f, NEW k, DOMAIN k = CoreNames, k = [x \in DOMAIN k |-> k[x]], CoreFields(f, k)
    PROVE  k \in Cores(f)
BY DEF Cores, CoreFields, CoreNames

LEMMA RefusedIn ==
    ASSUME NEW f, NEW k \in Cores(f)
    PROVE  LET r == Refused(k) IN r \in Cores(f) /\ ~r.ok
<1>. DEFINE r == [k EXCEPT !.ok = FALSE]
<1>0. CoreFields(f, k) /\ DOMAIN k = CoreNames
  BY CoreUnpack
<1>1. /\ DOMAIN r = DOMAIN k /\ r = [x \in DOMAIN r |-> r[x]]
      /\ r.meta = k.meta /\ r.load = k.load /\ r.banked = k.banked /\ r.banks = k.banks
      /\ r.rom = k.rom /\ r.levels = k.levels /\ ~r.ok /\ r.ok \in BOOLEAN
  BY <1>0 DEF CoreNames
<1>2. Refused(k) = r
  BY DEF Refused
<1>. HIDE DEF r
<1>3. CoreFields(f, r)
  BY <1>0, <1>1 DEF CoreFields
<1>4. r \in Cores(f)
  BY <1>0, <1>1, <1>3, CoreIntro
<1>. QED
  BY <1>1, <1>2, <1>4

\* A loader's step that leaves the levels and the chip to be emulated alone.
LEMMA PutRomIn ==
    ASSUME NEW f, NEW k \in Cores(f), NEW pages \in Nat
    PROVE  LET r == PutRom(k, f, pages)
           IN  r \in Cores(f) /\ (r.ok => r.levels = k.levels)
<1>. DEFINE new == k.rom \cup {[file |-> f, at |-> RomOffset(k)]}
            r == [k EXCEPT !.rom = new]
<1>0. CoreFields(f, k) /\ DOMAIN k = CoreNames
  BY CoreUnpack
<1>1. new \in SUBSET [file: {f}, at: Int]
  <2>1. RomOffset(k) \in Int
    BY <1>0 DEF RomOffset, CoreFields
  <2>. QED
    BY <1>0, <2>1 DEF CoreFields
<1>. HIDE DEF new
<1>2. /\ DOMAIN r = DOMAIN k /\ r = [x \in DOMAIN r |-> r[x]]
      /\ r.meta = k.meta /\ r.load = k.load /\ r.banked = k.banked /\ r.banks = k.banks
      /\ r.rom = new /\ r.levels = k.levels /\ r.ok = k.ok
  BY <1>0 DEF CoreNames
<1>3. PutRom(k, f, pages) \in {Refused(k), r}
  BY DEF PutRom, new
<1>. HIDE DEF r
<1>4. CoreFields(f, r)
  BY <1>0, <1>1, <1>2 DEF CoreFields
<1>5. r \in Cores(f)
  BY <1>0, <1>2, <1>4, CoreIntro
<1>. QED
  BY <1>2, <1>3, <1>5, RefusedIn

LEMMA BanksIn ==
    ASSUME NEW f, NEW k \in Cores(f), NEW b \in BankRegs, NEW on \in BOOLEAN
    PROVE  LET r == [k EXCEPT !.banks = b, !.banked = on]
           IN  r \in Cores(f) /\ r.levels = k.levels /\ r.ok = k.ok
<1>. DEFINE r == [k EXCEPT !.banks = b, !.banked = on]
<1>0. CoreFields(f, k) /\ DOMAIN k = CoreNames
  BY CoreUnpack
<1>1. /\ DOMAIN r = DOMAIN k /\ r = [x \in DOMAIN r |-> r[x]]
      /\ r.meta = k.meta /\ r.load = k.load /\ r.banked = on /\ r.banks = b
      /\ r.rom = k.rom /\ r.levels = k.levels /\ r.ok = k.ok
  BY <1>0 DEF CoreNames
<1>. HIDE DEF r
<1>2. CoreFields(f, r)
  BY <1>0, <1>1 DEF CoreFields
<1>3. r \in Cores(f)
  BY <1>0, <1>1, <1>2, CoreIntro
<1>. QED
  BY <1>1, <1>3 DEF r

LEMMA ClearedIn ==
    ASSUME NEW f, NEW k \in Cores(f)
    PROVE  [k EXCEPT !.banks = [i \in 0 .. 7 |-> 0]] \in Cores(f)
<1>. DEFINE r == [k EXCEPT !.banks = [i \in 0 .. 7 |-> 0]]
<1>0. CoreFields(f, k) /\ DOMAIN k = CoreNames
  BY CoreUnpack
<1>1. [i \in 0 .. 7 |-> 0] \in BankRegs
  BY DEF BankRegs, Byte
<1>2. /\ DOMAIN r = DOMAIN k /\ r = [x \in DOMAIN r |-> r[x]]
      /\ r.meta = k.meta /\ r.load = k.load /\ r.banked = k.banked /\ r.banks = [i \in 0 .. 7 |-> 0]
      /\ r.rom = k.rom /\ r.levels = k.levels /\ r.ok = k.ok
  BY <1>0 DEF CoreNames
<1>. HIDE DEF r
<1>3. CoreFields(f, r)
  BY <1>0, <1>1, <1>2 DEF CoreFields
<1>. QED
  BY <1>0, <1>2, <1>3, CoreIntro DEF r

MetaNames == {"count", "start", "pal", "chip", "emulated"}

MetaFields(m) ==
    /\ m.count \in Byte /\ m.start \in Byte /\ m.pal \in BOOLEAN /\ m.chip \in SUBSET Chips
    /\ m.emulated \in Chips \cup {"none"}

LEMMA MetaUnpack ==
    ASSUME NEW m \in Metas
    PROVE  MetaFields(m) /\ DOMAIN m = MetaNames
BY DEF Metas, MetaFields, MetaNames

LEMMA MetaIntro ==
    ASSUME NEW m, DOMAIN m = MetaNames, m = [x \in DOMAIN m |-> m[x]], MetaFields(m)
    PROVE  m \in Metas
BY DEF Metas, MetaFields, MetaNames

LEMMA InfoIn ==
    ASSUME NEW f, NEW k \in Cores(f), NEW c, c.load \in 0 .. 15, c.pal \in BOOLEAN,
           c.chip \in SUBSET Chips, c.count \in Byte, c.start \in Byte
    PROVE  LET r == [k EXCEPT !.load = c.load,
                         !.meta = [@ EXCEPT !.pal = c.pal, !.chip = c.chip,
                                            !.count = c.count, !.start = c.start]]
           IN  r \in Cores(f) /\ r.levels = k.levels /\ r.ok = k.ok
<1>. DEFINE m == [k.meta EXCEPT !.pal = c.pal, !.chip = c.chip, !.count = c.count, !.start = c.start]
            r == [k EXCEPT !.load = c.load, !.meta = m]
<1>0. CoreFields(f, k) /\ DOMAIN k = CoreNames
  BY CoreUnpack
<1>1. m \in Metas
  <2>1. k.meta \in Metas
    BY <1>0 DEF CoreFields
  <2>2. MetaFields(k.meta) /\ DOMAIN k.meta = MetaNames
    BY <2>1, MetaUnpack
  <2>3. /\ DOMAIN m = DOMAIN k.meta /\ m = [x \in DOMAIN m |-> m[x]]
        /\ m.count = c.count /\ m.start = c.start /\ m.pal \in BOOLEAN /\ m.chip = c.chip
        /\ m.emulated = k.meta.emulated
    BY <2>2 DEF MetaNames
  <2>. HIDE DEF m
  <2>4. MetaFields(m)
    BY <2>2, <2>3 DEF MetaFields
  <2>. QED
    BY <2>2, <2>3, <2>4, MetaIntro
<1>. HIDE DEF m
<1>2. /\ DOMAIN r = DOMAIN k /\ r = [x \in DOMAIN r |-> r[x]]
      /\ r.meta = m /\ r.load = c.load /\ r.banked = k.banked /\ r.banks = k.banks
      /\ r.rom = k.rom /\ r.levels = k.levels /\ r.ok = k.ok
  BY <1>0 DEF CoreNames
<1>. HIDE DEF r
<1>3. CoreFields(f, r)
  BY <1>0, <1>1, <1>2 DEF CoreFields
<1>4. r \in Cores(f)
  BY <1>0, <1>2, <1>3, CoreIntro
<1>. QED
  BY <1>2, <1>4 DEF r, m

\* A mixe chunk replaces the levels it mentions.
LEMMA MixIn ==
    ASSUME NEW f, NEW k \in Cores(f), NEW mix, \A d \in DOMAIN mix : mix[d] \in Int
    PROVE  LET r == [k EXCEPT !.levels = [d \in Devices |-> IF d \in DOMAIN mix THEN mix[d] ELSE @[d]]]
           IN  /\ r \in Cores(f) /\ r.ok = k.ok
               /\ \A d \in Devices : r.levels[d] = IF d \in DOMAIN mix THEN mix[d] ELSE k.levels[d]
<1>. DEFINE l == [d \in Devices |-> IF d \in DOMAIN mix THEN mix[d] ELSE k.levels[d]]
            r == [k EXCEPT !.levels = l]
<1>0. CoreFields(f, k) /\ DOMAIN k = CoreNames
  BY CoreUnpack
<1>1. k.levels \in [Devices -> Int]
  BY <1>0 DEF CoreFields
<1>3. l \in [Devices -> Int]
  BY <1>1
<1>4. \A d \in Devices : l[d] = IF d \in DOMAIN mix THEN mix[d] ELSE k.levels[d]
  OBVIOUS
<1>. HIDE DEF l
<1>5. /\ DOMAIN r = DOMAIN k /\ r = [x \in DOMAIN r |-> r[x]]
      /\ r.meta = k.meta /\ r.load = k.load /\ r.banked = k.banked /\ r.banks = k.banks
      /\ r.rom = k.rom /\ r.levels = l /\ r.ok = k.ok
  BY <1>0 DEF CoreNames
<1>. HIDE DEF r
<1>6. CoreFields(f, r)
  BY <1>0, <1>3, <1>5 DEF CoreFields
<1>7. r \in Cores(f)
  BY <1>0, <1>5, <1>6, CoreIntro
<1>8. \A d \in Devices : r.levels[d] = IF d \in DOMAIN mix THEN mix[d] ELSE k.levels[d]
  BY <1>4, <1>5
<1>9. [k EXCEPT !.levels = [d \in Devices |-> IF d \in DOMAIN mix THEN mix[d] ELSE @[d]]] = r
  BY DEF r, l
<1>. QED
  BY <1>5, <1>7, <1>8, <1>9

\* An accepted chunk changes the levels only if it is a mixe chunk.
LEMMA ChunkIn ==
    ASSUME NEW f, NEW k \in Cores(f), NEW c, IsChunk(c)
    PROVE  LET r == Chunk(k, f, c)
           IN  /\ r \in Cores(f)
               /\ r.ok => \A d \in Devices :
                     r.levels[d] = IF c.id = "mixe" /\ d \in DOMAIN c.mix THEN c.mix[d] ELSE k.levels[d]
<1>1. Refused(k) \in Cores(f) /\ ~Refused(k).ok
  BY RefusedIn
<1>2. CASE c.id = "INFO"
  <2>. DEFINE r == [k EXCEPT !.load = c.load,
                     !.meta = [@ EXCEPT !.pal = c.pal, !.chip = c.chip,
                                        !.count = c.count, !.start = c.start]]
  <2>1. Chunk(k, f, c) = IF c.size < 9 THEN Refused(k) ELSE r
    BY <1>2 DEF Chunk
  <2>2. CASE c.size < 9
    BY <1>1, <2>1, <2>2
  <2>3. CASE ~(c.size < 9)
    <3>1. c.size \in Nat
      BY <1>2 DEF IsChunk
    <3>2. /\ c.count \in Byte /\ c.start \in Byte /\ c.pal \in BOOLEAN /\ c.chip \in SUBSET Chips
          /\ c.load \in 0 .. 15
      BY <1>2, <2>3, <3>1 DEF IsChunk
    <3>3. r \in Cores(f) /\ r.levels = k.levels
      BY <3>2, InfoIn
    <3>. HIDE DEF r
    <3>. QED
      BY <1>2, <2>1, <2>3, <3>3
  <2>. QED
    BY <2>2, <2>3
<1>3. CASE c.id = "BANK"
  <2>. DEFINE z == [k EXCEPT !.banks = [i \in 0 .. 7 |-> 0]]
              r == [k EXCEPT !.banks = c.banks, !.banked = TRUE]
  <2>1. Chunk(k, f, c) = IF c.size # 8 THEN Refused(z) ELSE r
    BY <1>3 DEF Chunk
  <2>2. z \in Cores(f)
    BY ClearedIn
  <2>3. CASE c.size # 8
    <3>. HIDE DEF z
    <3>. QED
      BY <2>1, <2>2, <2>3, RefusedIn
  <2>4. CASE c.size = 8
    <3>1. c.banks \in BankRegs
      BY <1>3, <2>4 DEF IsChunk
    <3>2. r \in Cores(f) /\ r.levels = k.levels
      BY <3>1, BanksIn
    <3>. HIDE DEF r
    <3>. QED
      BY <1>3, <2>1, <2>4, <3>2
  <2>. QED
    BY <2>3, <2>4
<1>4. CASE c.id = "DATA"
  <2>1. Chunk(k, f, c) = PutRom(k, f, c.pages) /\ c.pages \in Nat
    BY <1>4 DEF Chunk, IsChunk
  <2>. QED
    BY <1>4, <2>1, PutRomIn
<1>5. CASE c.id = "mixe"
  <2>. DEFINE r == [k EXCEPT !.levels = [d \in Devices |-> IF d \in DOMAIN c.mix THEN c.mix[d] ELSE @[d]]]
  <2>1. Chunk(k, f, c) = IF c.size % 3 # 0 THEN Refused(k) ELSE r
    BY <1>5 DEF Chunk
  <2>2. CASE c.size % 3 # 0
    BY <1>1, <2>1, <2>2
  <2>3. CASE c.size % 3 = 0
    <3>1. \A d \in DOMAIN c.mix : c.mix[d] \in Int
      BY <1>5, <2>3 DEF IsChunk
    <3>2. /\ r \in Cores(f)
          /\ \A d \in Devices : r.levels[d] = IF d \in DOMAIN c.mix THEN c.mix[d] ELSE k.levels[d]
      BY <3>1, MixIn
    <3>. HIDE DEF r
    <3>. QED
      BY <1>5, <2>1, <2>3, <3>2
  <2>. QED
    BY <2>2, <2>3
<1>6. CASE c.id = "MUST"
  <2>1. Chunk(k, f, c) = Refused(k)
    BY <1>6 DEF Chunk
  <2>. QED
    BY <1>1, <2>1
<1>7. CASE c.id \notin {"INFO", "BANK", "DATA", "mixe", "MUST"}
  <2>1. Chunk(k, f, c) = k
    BY <1>7 DEF Chunk
  <2>. QED
    BY <1>7, <2>1
<1>. QED
  BY <1>2, <1>3, <1>4, <1>5, <1>6, <1>7

LEMMA TornIn ==
    ASSUME NEW f, NEW k \in Cores(f), NEW c
    PROVE  LET r == Torn(k, c) IN r \in Cores(f) /\ (r.ok => r = k)
<1>. DEFINE z == [k EXCEPT !.banks = [i \in 0 .. 7 |-> 0]]
<1>1. z \in Cores(f)
  BY ClearedIn
<1>. HIDE DEF z
<1>2. Refused(z) \in Cores(f) /\ ~Refused(z).ok /\ Refused(k) \in Cores(f) /\ ~Refused(k).ok
  BY <1>1, RefusedIn
<1>3. Torn(k, c) \in {Refused(z), Refused(k), k}
  BY DEF Torn, z
<1>. QED
  BY <1>2, <1>3

\* What the chunks before n make of a level.
LEMMA LevelNext ==
    ASSUME NEW f, NEW n \in Nat, NEW d, Content[f].format = "nsfe"
    PROVE  LET c == Content[f].chunks[n + 1]
           IN  LevelGiven(f, n + 1, d) = IF c.id = "mixe" /\ d \in DOMAIN c.mix THEN c.mix[d]
                                         ELSE LevelGiven(f, n, d)
<1>. DEFINE c == Content[f]
            By(m) == {i \in 1 .. m : c.chunks[i].id = "mixe" /\ d \in DOMAIN c.chunks[i].mix}
<1>0. \A m : LevelGiven(f, m, d) = IF By(m) = {} THEN Levels[d] ELSE c.chunks[Max(By(m))].mix[d]
  BY DEF LevelGiven
<1>1. CASE c.chunks[n + 1].id = "mixe" /\ d \in DOMAIN c.chunks[n + 1].mix
  <2>1. n + 1 \in By(n + 1) /\ \A i \in By(n + 1) : i \in Int /\ n + 1 >= i
    BY <1>1
  <2>. HIDE DEF By
  <2>2. Max(By(n + 1)) = n + 1
    BY <2>1 DEF Max
  <2>3. By(n + 1) # {}
    BY <2>1
  <2>. QED
    BY <1>0, <1>1, <2>2, <2>3
<1>2. CASE ~(c.chunks[n + 1].id = "mixe" /\ d \in DOMAIN c.chunks[n + 1].mix)
  <2>1. By(n + 1) = By(n)
    <3>1. \A i \in 1 .. n + 1 : i \in 1 .. n \/ i = n + 1
      OBVIOUS
    <3>2. \A i \in 1 .. n : i \in 1 .. n + 1
      OBVIOUS
    <3>. QED
      BY <1>2, <3>1, <3>2
  <2>. HIDE DEF By
  <2>. QED
    BY <1>0, <1>2, <2>1
<1>. QED
  BY <1>1, <1>2
LEMMA StepsIn ==
    ASSUME NEW f \in DOMAIN Content, Content[f].format = "nsfe"
    PROVE  /\ Len(Content[f].chunks) \in Nat /\ Steps(f) \in 1 .. Len(Content[f].chunks) + 1
           /\ \A i \in 1 .. Len(Content[f].chunks) : IsChunk(Content[f].chunks[i])
<1>. DEFINE chunks == Content[f].chunks
            l == Len(chunks)
            T == {i \in DOMAIN chunks : chunks[i].id = "NEND"} \cup {l + 1}
<1>1. l \in Nat /\ DOMAIN chunks = 1 .. l /\ \A i \in DOMAIN chunks : IsChunk(chunks[i])
  BY LoadAssumption
<1>2. T \subseteq 1 .. l + 1 /\ T # {}
  BY <1>1
<1>3. Steps(f) = Min(T)
  BY DEF Steps
<1>. HIDE DEF T, l
<1>4. T \subseteq Nat
  BY <1>2
<1>5. \E x \in T : \A y \in T : x <= y
  BY <1>2, <1>4, LeastNatural
<1>6. Min(T) \in T
  BY <1>5 DEF Min
<1>. QED
  BY <1>1, <1>2, <1>3, <1>6 DEF l

\* What an NSFe file leaves: its own levels, unless it is refused.
LEMMA NsfeLoaded ==
    ASSUME NEW f \in DOMAIN Content, Content[f].format = "nsfe", NEW k \in Cores(f),
           \A d \in Devices : k.levels[d] = Levels[d],
           NEW steps \in 1 .. Steps(f), NEW torn
    PROVE  LET r == NsfeLoad(k, f, steps, torn)
           IN  /\ r \in Cores(f)
               /\ r.ok => \A d \in Devices : r.levels[d] = LevelGiven(f, steps - 1, d)
<1>. DEFINE chunks == Content[f].chunks
            m == steps - 1
            Body(G, i) == IF i = 0 THEN k ELSE AfterChunk(G[i - 1], f, chunks[i])
            F == CHOOSE G : G = [i \in 0 .. m |-> Body(G, i)]
            step == [i \in 1 .. m |-> [x \in Cores(f) |-> AfterChunk(x, f, chunks[i])]]
            Own(x, i) == x.ok => \A d \in Devices : x.levels[d] = LevelGiven(f, i, d)
<1>1. m \in Nat /\ \A i \in 1 .. m : IsChunk(chunks[i])
  BY StepsIn
<1>2. ASSUME NEW i \in 1 .. m, NEW x \in Cores(f)
      PROVE  /\ AfterChunk(x, f, chunks[i]) \in Cores(f)
             /\ Own(x, i - 1) => Own(AfterChunk(x, f, chunks[i]), i)
  <2>. DEFINE c == chunks[i]
              y == Chunk(x, f, c)
  <2>1. IsChunk(c)
    BY <1>1
  <2>2. \A d \in Devices : LevelGiven(f, i, d) = IF c.id = "mixe" /\ d \in DOMAIN c.mix THEN c.mix[d]
                                                ELSE LevelGiven(f, i - 1, d)
    <3>. DEFINE n == i - 1
    <3>1. n \in Nat /\ i = n + 1
      BY <1>1
    <3>. HIDE DEF n
    <3>2. \A d \in Devices : LevelGiven(f, n + 1, d) =
             IF Content[f].chunks[n + 1].id = "mixe" /\ d \in DOMAIN Content[f].chunks[n + 1].mix
             THEN Content[f].chunks[n + 1].mix[d] ELSE LevelGiven(f, n, d)
      BY <3>1, LevelNext
    <3>. QED
      BY <3>1, <3>2 DEF n
  <2>. HIDE DEF c
  <2>3. /\ y \in Cores(f)
        /\ y.ok => \A d \in Devices :
               y.levels[d] = IF c.id = "mixe" /\ d \in DOMAIN c.mix THEN c.mix[d] ELSE x.levels[d]
    BY <2>1, ChunkIn
  <2>. HIDE DEF y
  <2>4. AfterChunk(x, f, c) = IF x.ok THEN y ELSE x
    BY DEF AfterChunk, y
  <2>5. CASE x.ok
    BY <2>2, <2>3, <2>4, <2>5 DEF c
  <2>6. CASE ~x.ok
    BY <2>4, <2>6 DEF c
  <2>. QED
    BY <2>5, <2>6
<1>3. step \in [1 .. m -> [Cores(f) -> Cores(f)]]
  BY <1>2
<1>. HIDE DEF m
<1>4. PICK g : IsCourse(g, Cores(f), step, k, m)
  <2>. HIDE DEF step
  <2>. QED
    BY <1>1, <1>3, Courses
<1>5. g = [i \in 0 .. m |-> Body(g, i)]
  <2>1. ASSUME NEW n \in 0 .. m PROVE g[n] = Body(g, n)
    <3>1. CASE n = 0
      BY <1>4, <3>1 DEF IsCourse
    <3>2. CASE n # 0
      <4>1. n - 1 \in 0 .. m /\ n \in 1 .. m
        BY <1>1, <3>2
      <4>. QED
        BY <1>4, <3>2, <4>1 DEF IsCourse
    <3>. QED
      BY <3>1, <3>2
  <2>. HIDE DEF Body
  <2>. QED
    BY <1>4, <2>1 DEF IsCourse
<1>6. F = [i \in 0 .. m |-> Body(F, i)]
  <2>. HIDE DEF Body
  <2>. QED
    BY <1>5
<1>. HIDE DEF F
<1>7. F[0] = k /\ \A i \in 1 .. m : F[i] = AfterChunk(F[i - 1], f, chunks[i])
  <2>1. F[0] = k
    BY <1>1, <1>6
  <2>2. ASSUME NEW i \in 1 .. m PROVE F[i] = AfterChunk(F[i - 1], f, chunks[i])
    BY <1>1, <1>6, <2>2
  <2>. QED
    BY <2>1, <2>2
<1>. HIDE DEF step
<1>8. F[m] \in Cores(f) /\ Own(F[m], m)
  <2>. DEFINE kept == {i \in 0 .. m : F[i] \in Cores(f) /\ Own(F[i], i)}
  <2>1. 0 \in kept
    <3>1. \A d \in Devices : LevelGiven(f, 0, d) = Levels[d]
      BY DEF LevelGiven
    <3>. QED
      BY <1>1, <1>7, <3>1
  <2>2. ASSUME NEW i \in 0 .. m, i # 0, i - 1 \in kept PROVE i \in kept
    <3>1. i \in 1 .. m /\ F[i - 1] \in Cores(f) /\ Own(F[i - 1], i - 1)
      BY <1>1, <2>2
    <3>. HIDE DEF Own
    <3>2. F[i] = AfterChunk(F[i - 1], f, chunks[i])
      BY <1>7, <3>1
    <3>3. AfterChunk(F[i - 1], f, chunks[i]) \in Cores(f) /\ Own(AfterChunk(F[i - 1], f, chunks[i]), i)
      BY <1>2, <3>1
    <3>. QED
      BY <3>2, <3>3
  <2>. HIDE DEF kept
  <2>3. 0 .. m \subseteq kept
    BY <1>1, <2>1, <2>2, UpToBound
  <2>4. m \in kept
    BY <1>1, <2>3
  <2>. QED
    BY <2>4 DEF kept
<1>. DEFINE last == F[m]
            t == Torn(last, chunks[steps])
<1>9. NsfeLoad(k, f, steps, torn) = IF torn /\ last.ok THEN t ELSE last
  BY DEF NsfeLoad, F, m
<1>. HIDE DEF last
<1>10. last \in Cores(f) /\ Own(last, m)
  BY <1>8 DEF last
<1>11. t \in Cores(f) /\ (t.ok => t = last)
  BY <1>10, TornIn
<1>. HIDE DEF t
<1>12. t \in Cores(f) /\ Own(t, m)
  BY <1>10, <1>11
<1>. HIDE DEF Own
<1>13. NsfeLoad(k, f, steps, torn) \in Cores(f) /\ Own(NsfeLoad(k, f, steps, torn), m)
  BY <1>9, <1>10, <1>12
<1>. QED
  BY <1>13 DEF Own, m

\* What an NSF file leaves: the levels of the code.
LEMMA NsfLoaded ==
    ASSUME NEW f \in DOMAIN Content, Content[f].format # "nsfe", NEW k \in Cores(f),
           \A d \in Devices : k.levels[d] = Levels[d], NEW steps \in 1 .. 3
    PROVE  LET r == NsfLoad(k, f, steps)
           IN  /\ r \in Cores(f)
               /\ r.ok => \A d \in Devices : r.levels[d] = LevelGiven(f, steps - 1, d)
<1>. DEFINE c == Content[f]
            on == \E i \in 0 .. 7 : c.banks[i] # 0
            start == IF c.start # 0 THEN c.start - 1 ELSE 0
            m == [k.meta EXCEPT !.count = c.count, !.start = start, !.pal = c.pal, !.chip = c.chip]
            h == [k EXCEPT !.meta = m, !.load = c.load, !.banks = c.banks, !.banked = on]
            put == PutRom(h, f, c.pages)
<1>1. /\ c.format # "nsfe" /\ c.count \in Byte /\ c.start \in Byte /\ c.pal \in BOOLEAN
      /\ c.chip \in SUBSET Chips /\ c.load \in 0 .. 15 /\ c.banks \in BankRegs /\ c.pages \in Nat
  <2>1. c \in Header
    BY LoadAssumption
  <2>. QED
    BY <2>1 DEF Header
<1>2. on \in BOOLEAN
  OBVIOUS
<1>3. start \in Byte
  BY <1>1 DEF Byte
<1>4. NsfLoad(k, f, steps) = IF c.format # "nsf" \/ steps = 1 THEN Refused(k)
                             ELSE IF steps = 2 THEN Refused(h) ELSE put
  BY DEF NsfLoad
<1>. HIDE DEF on, start
<1>5. CoreFields(f, k) /\ DOMAIN k = CoreNames
  BY CoreUnpack
<1>6. m \in Metas
  <2>1. k.meta \in Metas
    BY <1>5 DEF CoreFields
  <2>2. MetaFields(k.meta) /\ DOMAIN k.meta = MetaNames
    BY <2>1, MetaUnpack
  <2>3. /\ DOMAIN m = DOMAIN k.meta /\ m = [x \in DOMAIN m |-> m[x]]
        /\ m.count = c.count /\ m.start = start /\ m.pal \in BOOLEAN /\ m.chip = c.chip
        /\ m.emulated = k.meta.emulated
    BY <1>1, <2>2 DEF MetaNames
  <2>. HIDE DEF m, c
  <2>4. MetaFields(m)
    BY <1>1, <1>3, <2>2, <2>3 DEF MetaFields
  <2>. QED
    BY <2>2, <2>3, <2>4, MetaIntro
<1>. HIDE DEF m, c
<1>7. /\ DOMAIN h = DOMAIN k /\ h = [x \in DOMAIN h |-> h[x]]
      /\ h.meta = m /\ h.load = c.load /\ h.banked \in BOOLEAN /\ h.banks = c.banks
      /\ h.rom = k.rom /\ h.levels = k.levels /\ h.ok = k.ok
  BY <1>2, <1>5 DEF CoreNames
<1>. HIDE DEF h
<1>8. CoreFields(f, h)
  BY <1>1, <1>5, <1>6, <1>7 DEF CoreFields
<1>9. h \in Cores(f)
  BY <1>5, <1>7, <1>8, CoreIntro
<1>10. put \in Cores(f) /\ (put.ok => put.levels = h.levels)
  BY <1>1, <1>9, PutRomIn
<1>11. Refused(h) \in Cores(f) /\ ~Refused(h).ok /\ Refused(k) \in Cores(f) /\ ~Refused(k).ok
  BY <1>9, RefusedIn
<1>12. \A d \in Devices : LevelGiven(f, steps - 1, d) = Levels[d]
  BY DEF LevelGiven
<1>. HIDE DEF put
<1>. DEFINE r == NsfLoad(k, f, steps)
<1>13. r \in {Refused(k), Refused(h), put}
  BY <1>4
<1>. HIDE DEF r
<1>14. CASE r = put
  BY <1>7, <1>10, <1>12, <1>14 DEF r
<1>15. CASE r # put
  BY <1>11, <1>13, <1>15 DEF r
<1>. QED
  BY <1>14, <1>15

LEMMA EmulatedIn ==
    ASSUME NEW chip \in SUBSET Chips
    PROVE  Emulated(chip) \in Chips \cup {"none"}
<1>1. CASE chip = {}
  BY <1>1 DEF Emulated
<1>2. CASE chip # {}
  <2>. DEFINE P(i) == Priority[i] \in chip /\ \A j \in 1 .. i - 1 : Priority[j] \notin chip
              T == {i \in 1 .. 5 : Priority[i] \in chip}
  <2>1. /\ Priority[1] = "vrc6" /\ Priority[2] = "n163" /\ Priority[3] = "sun5b"
        /\ Priority[4] = "mmc5" /\ Priority[5] = "fds"
    BY DEF Priority
  <2>2. T \subseteq Nat /\ T # {}
    <3>1. PICK c \in chip : c \in Chips
      BY <1>2
    <3>2. \E i \in 1 .. 5 : Priority[i] = c
      BY <2>1, <3>1 DEF Chips
    <3>. QED
      BY <3>1, <3>2
  <2>. HIDE DEF T
  <2>3. PICK x \in T : \A y \in T : x <= y
    BY <2>2, LeastNatural
  <2>4. x \in 1 .. 5 /\ P(x)
    <3>1. x \in 1 .. 5 /\ Priority[x] \in chip
      BY <2>3 DEF T
    <3>2. ASSUME NEW j \in 1 .. x - 1 PROVE Priority[j] \notin chip
      <4>1. j \in 1 .. 5 /\ ~(x <= j)
        BY <3>1
      <4>2. j \notin T
        BY <2>3, <4>1
      <4>. QED
        BY <4>1, <4>2 DEF T
    <3>. QED
      BY <3>1, <3>2
  <2>5. \E i \in 1 .. 5 : P(i)
    BY <2>4
  <2>. DEFINE e == CHOOSE i \in 1 .. 5 : P(i)
  <2>6. e \in 1 .. 5 /\ P(e)
    BY <2>5
  <2>7. Emulated(chip) = Priority[e]
    BY <1>2 DEF Emulated
  <2>. HIDE DEF e
  <2>8. Priority[e] \in Chips
    BY <1>2, <2>6
  <2>. QED
    BY <2>7, <2>8
<1>. QED
  BY <1>1, <1>2

\* adjust_mix_levels() takes the same from all levels, enough for those heard.
LEMMA Adjusted ==
    ASSUME NEW f, NEW k \in Cores(f)
    PROVE  LET r == AdjustMixLevels(k)
           IN  /\ r \in Cores(f) /\ r.ok = k.ok /\ r.meta = k.meta
               /\ \E adj \in Nat :
                     /\ \A d \in Devices : r.levels[d] = k.levels[d] - adj
                     /\ \A d \in Devices \cap {"apu", k.meta.emulated} : k.levels[d] - adj <= MaxLevel[d]
<1>. DEFINE T == {0} \cup {Excess(k, d) : d \in DOMAIN k.levels}
            adj == Max(T)
            l == [d \in DOMAIN k.levels |-> k.levels[d] - adj]
            r == [k EXCEPT !.levels = l]
<1>0. CoreFields(f, k) /\ DOMAIN k = CoreNames
  BY CoreUnpack
<1>1. k.levels \in [Devices -> Int] /\ MaxLevel \in [Devices -> Int]
  <2>1. MaxLevel \in [Devices -> Int]
    BY DEF MaxLevel, Devices, Chips
  <2>. QED
    BY <1>0, <2>1 DEF CoreFields
<1>2. AdjustMixLevels(k) = r
  BY DEF AdjustMixLevels
<1>3. adj \in Nat /\ \A d \in Devices : Excess(k, d) <= adj
  <2>. DEFINE e == k.meta.emulated
  <2>. HIDE DEF e
  <2>1. \A d \in Devices : Excess(k, d) \in Int /\ (Excess(k, d) = 0 \/ d = "apu" \/ d = e)
    BY <1>1 DEF Excess, e
  <2>2. \A d \in Devices : Excess(k, d) \in T
    BY <1>1
  <2>3. \A x \in T : x = 0 \/ \E d \in Devices : x = Excess(k, d)
    BY <1>1
  <2>4. 0 \in T
    OBVIOUS
  <2>5. "apu" \in Devices
    BY DEF Devices
  <2>. HIDE DEF T
  <2>6. \E x \in T : x \in Int /\ \A y \in T : y \in Int /\ x >= y
    <3>. DEFINE a == Excess(k, "apu")
                b == Excess(k, e)
    <3>1. CASE e \in Devices
      <4>1. a \in Int /\ b \in Int /\ a \in T /\ b \in T /\ \A x \in T : x = 0 \/ x = a \/ x = b
        BY <2>1, <2>2, <2>3, <2>5, <3>1
      <4>. HIDE DEF a, b
      <4>. QED
        BY <2>4, <4>1
    <3>2. CASE e \notin Devices
      <4>1. a \in Int /\ a \in T /\ \A x \in T : x = 0 \/ x = a
        BY <2>1, <2>2, <2>3, <2>5, <3>2
      <4>. HIDE DEF a, b
      <4>. QED
        BY <2>4, <4>1
    <3>. QED
      BY <3>1, <3>2
  <2>7. adj \in T /\ \A y \in T : adj \in Int /\ y \in Int /\ adj >= y
    BY <2>6 DEF Max
  <2>. QED
    BY <2>2, <2>4, <2>7
<1>. HIDE DEF adj
<1>4. l \in [Devices -> Int] /\ \A d \in Devices : l[d] = k.levels[d] - adj
  BY <1>1, <1>3
<1>. HIDE DEF l
<1>5. /\ DOMAIN r = DOMAIN k /\ r = [x \in DOMAIN r |-> r[x]]
      /\ r.meta = k.meta /\ r.load = k.load /\ r.banked = k.banked /\ r.banks = k.banks
      /\ r.rom = k.rom /\ r.levels = l /\ r.ok = k.ok
  BY <1>0 DEF CoreNames
<1>. HIDE DEF r
<1>6. CoreFields(f, r)
  BY <1>0, <1>4, <1>5 DEF CoreFields
<1>7. r \in Cores(f)
  BY <1>0, <1>5, <1>6, CoreIntro
<1>8. \A d \in Devices \cap {"apu", k.meta.emulated} : k.levels[d] - adj <= MaxLevel[d]
  <2>1. ASSUME NEW d \in Devices, d \in {"apu", k.meta.emulated} PROVE k.levels[d] - adj <= MaxLevel[d]
    <3>1. Excess(k, d) = k.levels[d] - MaxLevel[d] /\ k.levels[d] \in Int /\ MaxLevel[d] \in Int
      BY <1>1, <2>1 DEF Excess
    <3>. QED
      BY <1>3, <3>1
  <2>. QED
    BY <2>1
<1>9. \A d \in Devices : r.levels[d] = k.levels[d] - adj
  BY <1>4, <1>5
<1>. QED
  BY <1>2, <1>3, <1>5, <1>7, <1>8, <1>9

\* The core after nsfcore_close() and the assignments that follow it.
JustOpened == [meta |-> NoMeta, load |-> 0, banked |-> FALSE, banks |-> [i \in 0 .. 7 |-> 0],
               rom |-> {}, levels |-> Levels, ok |-> TRUE]

LEMMA OpenedIs ==
    ASSUME NEW k, IsCore(k)
    PROVE  [NsfcoreClose(k) EXCEPT !.ok = TRUE, !.levels = Levels, !.load = 0] = JustOpened
<1>. DEFINE z == [i \in 0 .. 7 |-> 0]
            c == [k EXCEPT !.meta = NoMeta, !.rom = {}, !.banks = z, !.banked = FALSE, !.ok = FALSE]
            o == [c EXCEPT !.ok = TRUE, !.levels = Levels, !.load = 0]
            j == [meta |-> NoMeta, load |-> 0, banked |-> FALSE, banks |-> z,
                  rom |-> {}, levels |-> Levels, ok |-> TRUE]
<1>. HIDE DEF z
<1>1. DOMAIN k = CoreNames /\ k = [x \in CoreNames |-> k[x]]
  BY DEF IsCore
<1>2. /\ DOMAIN c = CoreNames /\ c = [x \in CoreNames |-> c[x]]
      /\ c.meta = NoMeta /\ c.rom = {} /\ c.banks = z /\ c.banked = FALSE
  BY <1>1 DEF CoreNames
<1>3. NsfcoreClose(k) = c
  BY DEF NsfcoreClose, z
<1>. HIDE DEF c
<1>4. /\ DOMAIN o = CoreNames /\ o = [x \in CoreNames |-> o[x]]
      /\ o.meta = NoMeta /\ o.rom = {} /\ o.banks = z /\ o.banked = FALSE /\ o.ok = TRUE
      /\ o.levels = Levels /\ o.load = 0
  BY <1>2 DEF CoreNames
<1>5. /\ DOMAIN j = CoreNames /\ j = [x \in CoreNames |-> j[x]]
      /\ j.meta = NoMeta /\ j.rom = {} /\ j.banks = z /\ j.banked = FALSE /\ j.ok = TRUE
      /\ j.levels = Levels /\ j.load = 0
  BY DEF CoreNames
<1>6. JustOpened = j
  BY DEF JustOpened, z
<1>7. [NsfcoreClose(k) EXCEPT !.ok = TRUE, !.levels = Levels, !.load = 0] = o
  BY <1>3
<1>. HIDE DEF o, j
<1>8. \A x \in CoreNames : o[x] = j[x]
  BY <1>4, <1>5 DEF CoreNames
<1>9. o = j
  BY <1>4, <1>5, <1>8
<1>. QED
  BY <1>6, <1>7, <1>9

LEMMA ClosedIs == IsCore(Closed)
<1>1. NoMeta \in Metas
  BY DEF NoMeta, Metas, Byte
<1>2. [i \in 0 .. 7 |-> 0] \in BankRegs
  BY DEF BankRegs, Byte
<1>. HIDE DEF NoMeta
<1>. QED
  BY <1>1, <1>2 DEF Closed, IsCore, CoreNames

LEMMA OpenedIn ==
    ASSUME NEW f
    PROVE  JustOpened \in Cores(f) /\ JustOpened.levels = Levels
<1>1. NoMeta \in Metas
  BY DEF NoMeta, Metas, Byte
<1>2. [i \in 0 .. 7 |-> 0] \in BankRegs
  BY DEF BankRegs, Byte
<1>3. Levels \in [Devices -> Int]
  BY DEF Levels, Devices, Chips
<1>. QED
  BY <1>1, <1>2, <1>3 DEF JustOpened, Cores
LEMMA ChosenIn ==
    ASSUME NEW f, NEW k \in Cores(f), NEW e \in Chips \cup {"none"}
    PROVE  LET r == [k EXCEPT !.meta.emulated = e]
           IN  r \in Cores(f) /\ r.levels = k.levels /\ r.ok = k.ok /\ r.meta.emulated = e
<1>. DEFINE m == [k.meta EXCEPT !.emulated = e]
            r == [k EXCEPT !.meta = m]
<1>0. CoreFields(f, k) /\ DOMAIN k = CoreNames
  BY CoreUnpack
<1>1. m \in Metas /\ m.emulated = e
  <2>1. k.meta \in Metas
    BY <1>0 DEF CoreFields
  <2>2. MetaFields(k.meta) /\ DOMAIN k.meta = MetaNames
    BY <2>1, MetaUnpack
  <2>3. /\ DOMAIN m = DOMAIN k.meta /\ m = [x \in DOMAIN m |-> m[x]]
        /\ m.count = k.meta.count /\ m.start = k.meta.start /\ m.pal \in BOOLEAN /\ m.chip = k.meta.chip
        /\ m.emulated = e
    BY <2>2 DEF MetaNames, MetaFields
  <2>. HIDE DEF m
  <2>4. MetaFields(m)
    BY <2>2, <2>3 DEF MetaFields
  <2>. QED
    BY <2>2, <2>3, <2>4, MetaIntro
<1>. HIDE DEF m
<1>2. /\ DOMAIN r = DOMAIN k /\ r = [x \in DOMAIN r |-> r[x]]
      /\ r.meta = m /\ r.load = k.load /\ r.banked = k.banked /\ r.banks = k.banks
      /\ r.rom = k.rom /\ r.levels = k.levels /\ r.ok = k.ok
  BY <1>0 DEF CoreNames
<1>. HIDE DEF r
<1>3. CoreFields(f, r)
  BY <1>0, <1>1, <1>2 DEF CoreFields
<1>4. r \in Cores(f)
  BY <1>0, <1>2, <1>3, CoreIntro
<1>5. [k EXCEPT !.meta.emulated = e] = r
  BY <1>0 DEF r, m
<1>. QED
  BY <1>1, <1>2, <1>4, <1>5

\* The levels of the song that plays: none of those heard is too high, and their
\* distance is the file's.
Balanced(k, f, steps) ==
    LET chip == k.meta.emulated
        given(d) == LevelGiven(f, steps - 1, d)
    IN  /\ k.levels.apu <= MaxLevel.apu
        /\ chip # "none" =>
              /\ k.levels[chip] <= MaxLevel[chip]
              /\ k.levels[chip] - k.levels.apu = given(chip) - given("apu")

\* A load depends on nothing that was loaded before, and the levels of an
\* accepted file fit.
LEMMA Loading ==
    ASSUME NEW core0, IsCore(core0), NEW f \in DOMAIN Content, NEW steps \in 0 .. Steps(f), NEW torn
    PROVE  LET r == NsfcoreLoad(core0, f, steps, torn)
           IN  /\ IsCore(r) /\ r = NsfcoreLoad(Closed, f, steps, torn)
               /\ r.ok => steps # 0 /\ Balanced(r, f, steps)
<1>. DEFINE read == IF Content[f].format = "nsfe" THEN NsfeLoad(JustOpened, f, steps, torn)
                    ELSE NsfLoad(JustOpened, f, steps)
            w == [read EXCEPT !.meta.emulated = Emulated(read.meta.chip)]
            r == IF steps = 0 THEN Refused(JustOpened) ELSE AdjustMixLevels(w)
<1>1. NsfcoreLoad(core0, f, steps, torn) = r
  <2>1. [NsfcoreClose(core0) EXCEPT !.ok = TRUE, !.levels = Levels, !.load = 0] = JustOpened
    BY OpenedIs
  <2>. QED
    BY <2>1 DEF NsfcoreLoad
<1>2. NsfcoreLoad(Closed, f, steps, torn) = r
  <2>1. [NsfcoreClose(Closed) EXCEPT !.ok = TRUE, !.levels = Levels, !.load = 0] = JustOpened
    BY OpenedIs, ClosedIs
  <2>. QED
    BY <2>1 DEF NsfcoreLoad
<1>3. JustOpened \in Cores(f) /\ \A d \in Devices : JustOpened.levels[d] = Levels[d]
  BY OpenedIn
<1>. HIDE DEF read
<1>4. CASE steps = 0
  <2>1. r = Refused(JustOpened)
    BY <1>4
  <2>2. Refused(JustOpened) \in Cores(f) /\ ~Refused(JustOpened).ok
    BY <1>3, RefusedIn
  <2>. HIDE DEF r
  <2>3. IsCore(r) /\ ~r.ok
    BY <2>1, <2>2, CoreUnpack
  <2>. QED
    BY <1>1, <1>2, <2>3
<1>5. CASE steps # 0
  <2>1. read \in Cores(f) /\ (read.ok => \A d \in Devices : read.levels[d] = LevelGiven(f, steps - 1, d))
    <3>1. CASE Content[f].format = "nsfe"
      <4>1. steps \in 1 .. Steps(f)
        BY <1>5, <3>1, StepsIn
      <4>2. read = NsfeLoad(JustOpened, f, steps, torn)
        BY <3>1 DEF read
      <4>. QED
        BY <1>3, <3>1, <4>1, <4>2, NsfeLoaded
    <3>2. CASE Content[f].format # "nsfe"
      <4>1. steps \in 1 .. 3
        BY <1>5, <3>2 DEF Steps
      <4>2. read = NsfLoad(JustOpened, f, steps)
        BY <3>2 DEF read
      <4>. QED
        BY <1>3, <3>2, <4>1, <4>2, NsfLoaded
    <3>. QED
      BY <3>1, <3>2
  <2>. DEFINE e == Emulated(read.meta.chip)
  <2>2. e \in Chips \cup {"none"}
    <3>1. read.meta \in Metas
      BY <2>1, CoreUnpack DEF CoreFields
    <3>2. read.meta.chip \in SUBSET Chips
      BY <3>1, MetaUnpack DEF MetaFields
    <3>. QED
      BY <3>2, EmulatedIn
  <2>3. w = [read EXCEPT !.meta.emulated = e]
    OBVIOUS
  <2>. HIDE DEF w, e
  <2>4. w \in Cores(f) /\ w.levels = read.levels /\ w.ok = read.ok /\ w.meta.emulated = e
    BY <2>1, <2>2, <2>3, ChosenIn
  <2>5. r = AdjustMixLevels(w)
    BY <1>5
  <2>. HIDE DEF r
  <2>6. /\ r \in Cores(f) /\ r.ok = w.ok /\ r.meta = w.meta
        /\ \E adj \in Nat :
              /\ \A d \in Devices : r.levels[d] = w.levels[d] - adj
              /\ \A d \in Devices \cap {"apu", w.meta.emulated} : w.levels[d] - adj <= MaxLevel[d]
    BY <2>4, <2>5, Adjusted
  <2>7. IsCore(r)
    BY <2>6, CoreUnpack
  <2>8. ASSUME r.ok PROVE Balanced(r, f, steps)
    <3>1. PICK adj \in Nat :
              /\ \A d \in Devices : r.levels[d] = w.levels[d] - adj
              /\ \A d \in Devices \cap {"apu", e} : w.levels[d] - adj <= MaxLevel[d]
      BY <2>4, <2>6
    <3>2. \A d \in Devices : w.levels[d] = LevelGiven(f, steps - 1, d) /\ w.levels[d] \in Int
      <4>1. w.levels \in [Devices -> Int]
        BY <2>4, CoreUnpack DEF CoreFields
      <4>. QED
        BY <2>1, <2>4, <2>6, <2>8, <4>1
    <3>3. "apu" \in Devices /\ (e # "none" => e \in Devices)
      BY <2>2 DEF Devices
    <3>4. r.meta.emulated = e
      BY <2>4, <2>6
    <3>5. r.levels["apu"] = w.levels["apu"] - adj /\ w.levels["apu"] - adj <= MaxLevel["apu"]
      BY <3>1, <3>3
    <3>6. e # "none" => r.levels[e] = w.levels[e] - adj /\ w.levels[e] - adj <= MaxLevel[e]
      BY <3>1, <3>3
    <3>. QED
      BY <3>1, <3>2, <3>3, <3>4, <3>5, <3>6 DEF Balanced
  <2>. QED
    BY <1>1, <1>2, <1>5, <2>7, <2>8
<1>. QED
  BY <1>4, <1>5
-----------------------------------------------------------------------------
(* The address space.                                                      *)

Fixed == {"0000 ram", "2000 shim", "4000 apu", "6000-7FFF"}

\* What of the address space is the same whatever songs have played.
Laid(m) ==
    /\ DOMAIN m = {"read", "write", "page"} /\ m = [x \in DOMAIN m |-> m[x]]
    /\ DOMAIN m.read = Regions /\ DOMAIN m.write = Regions /\ DOMAIN m.page = Pages
    /\ \A g \in Regions \ Low : m.read[g] = InitialMap.read[g]
    /\ \A g \in Fixed : m.write[g] = InitialMap.write[g]
    /\ \A g \in Low : m.write[g] \in {"open"} \cup Chips

\* The address space is that of the song of k.
SongsMap(m, k) ==
    LET made == EmuInitMap(InitialMap, k) IN
    /\ \A g \in Regions \ Low : m.write[g] = made.write[g] /\ m.read[g] = made.read[g]
    /\ \A g \in Low : m.write[g] \in {made.write[g]} \cup Chips
    /\ \A g \in Paged : m.write[g] = "page" =>
          \A p \in PagesOf(g) : m.page[p].of # "beyond"

LEMMA ChipsRegions ==
    ASSUME NEW c \in Chips \cup {"none"}
    PROVE  /\ WrittenBy[c] \subseteq (Low \cup Rom) /\ ReadBy[c] \subseteq Low
           /\ c = "none" => WrittenBy[c] = {}
           /\ c = "fds" => WrittenBy[c] \cap Rom = {}
<1>1. CASE c = "vrc6"
  BY <1>1 DEF WrittenBy, ReadBy, Low, Rom, Paged
<1>2. CASE c = "n163"
  BY <1>2 DEF WrittenBy, ReadBy, Low, Rom, Paged
<1>3. CASE c = "sun5b"
  BY <1>3 DEF WrittenBy, ReadBy, Low, Rom, Paged
<1>4. CASE c = "mmc5"
  BY <1>4 DEF WrittenBy, ReadBy, Low, Rom, Paged
<1>5. CASE c = "fds"
  BY <1>5 DEF WrittenBy, ReadBy, Low, Rom, Paged
<1>6. CASE c = "none"
  BY <1>6 DEF WrittenBy, ReadBy
<1>. QED
  BY <1>1, <1>2, <1>3, <1>4, <1>5, <1>6 DEF Chips

\* The kinds of regions exclude each other.
LEMMA Kinds4 ==
    /\ Fixed \cap (Low \cup Rom \cup Selects) = {} /\ Low \cap (Rom \cup Selects) = {}
    /\ Rom \cap Selects = {} /\ Paged = Rom \cup {"6000-7FFF"} /\ Low \subseteq Regions
    /\ Regions = Fixed \cup Low \cup Rom \cup Selects /\ "6000-7FFF" \notin Rom
BY DEF Fixed, Low, Rom, Selects, Paged, Regions

\* The function that answers a write to a region when a song has begun, and
\* the one that answers a read, over those of before.
SongWrite(k, g, was) ==
    LET c == k.meta.emulated IN
    IF g \in WrittenBy[c] THEN c
    ELSE IF g \in Rom THEN (IF c = "fds" THEN "page" ELSE "open")
    ELSE IF k.banked /\ g \in (IF c = "fds" THEN Selects ELSE {"5FF8 bank"})
         THEN (IF c = "fds" THEN "remap" ELSE "bank")
    ELSE IF g \in Selects THEN "open"
    ELSE was

SongRead(k, g, was) == IF g \in ReadBy[k.meta.emulated] THEN k.meta.emulated ELSE was

\* What emu_init() makes of an address space, region by region.
LEMMA EmuInitIs ==
    ASSUME NEW m, DOMAIN m = {"read", "write", "page"}, m = [x \in DOMAIN m |-> m[x]], NEW k
    PROVE  LET r == EmuInitMap(m, k)
           IN  /\ DOMAIN r = {"read", "write", "page"} /\ r = [x \in DOMAIN r |-> r[x]]
               /\ DOMAIN r.read = Regions /\ DOMAIN r.write = Regions
               /\ r.page = StartPages(k)
               /\ \A g \in Regions : /\ r.read[g] = SongRead(k, g, m.read[g])
                                      /\ r.write[g] = SongWrite(k, g, m.write[g])
<1>. DEFINE c == k.meta.emulated
            selects == IF ~k.banked THEN {} ELSE IF c = "fds" THEN Selects ELSE {"5FF8 bank"}
            pages == StartPages(k)
            rd == [g \in Regions |-> IF g \in ReadBy[c] THEN c ELSE m.read[g]]
            wr == [g \in Regions |->
                      IF g \in WrittenBy[c] THEN c
                      ELSE IF g \in Rom THEN (IF c = "fds" THEN "page" ELSE "open")
                      ELSE IF g \in selects THEN (IF c = "fds" THEN "remap" ELSE "bank")
                      ELSE IF g \in Selects THEN "open"
                      ELSE m.write[g]]
            r == [m EXCEPT !.page = pages, !.read = rd, !.write = wr]
<1>1. EmuInitMap(m, k) = r
  BY DEF EmuInitMap
<1>2. \A g \in Regions : rd[g] = SongRead(k, g, m.read[g])
  BY DEF SongRead
<1>3. ASSUME NEW g \in Regions
      PROVE  wr[g] = SongWrite(k, g, m.write[g])
  <2>1. g \in selects <=> k.banked /\ g \in (IF c = "fds" THEN Selects ELSE {"5FF8 bank"})
    OBVIOUS
  <2>. HIDE DEF selects
  <2>. QED
    BY <2>1 DEF SongWrite
<1>4. DOMAIN rd = Regions /\ DOMAIN wr = Regions
  OBVIOUS
<1>. HIDE DEF rd, wr, pages
<1>5. /\ DOMAIN r = {"read", "write", "page"} /\ r = [x \in DOMAIN r |-> r[x]]
      /\ r.page = pages /\ r.read = rd /\ r.write = wr
  OBVIOUS
<1>. HIDE DEF r
<1>. QED
  BY <1>1, <1>2, <1>3, <1>4, <1>5 DEF pages
LEMMA InitialIs ==
    /\ Laid(InitialMap) /\ \A g \in Low : InitialMap.write[g] = "open"
    /\ InitialMap.write["6000-7FFF"] = "page" /\ \A g \in Fixed \ {"6000-7FFF"} : InitialMap.write[g] # "page"
<1>. DEFINE rd == [g \in Regions |->
                   CASE g = "0000 ram" -> "ram" [] g = "4000 apu" -> "apu"
                     [] g \in Paged \cup {"2000 shim"} -> "page"
                     [] OTHER -> "open"]
            wr == [g \in Regions |->
                   CASE g = "0000 ram" -> "ram" [] g = "4000 apu" -> "apu"
                     [] g = "6000-7FFF" -> "page"
                     [] OTHER -> "open"]
            pg == [p \in Pages |-> WorkRam(0)]
<1>1. InitialMap = [read |-> rd, write |-> wr, page |-> pg]
  BY DEF InitialMap
<1>2. DOMAIN rd = Regions /\ DOMAIN wr = Regions /\ DOMAIN pg = Pages
  OBVIOUS
<1>3. \A g \in Low : wr[g] = "open"
  <2>1. \A g \in Low : g \in Regions /\ g \notin {"0000 ram", "4000 apu", "6000-7FFF"}
    BY Kinds4 DEF Fixed
  <2>. QED
    BY <2>1
<1>4. wr["6000-7FFF"] = "page" /\ \A g \in Fixed \ {"6000-7FFF"} : wr[g] # "page"
  BY Kinds4 DEF Fixed
<1>. HIDE DEF rd, wr, pg
<1>5. /\ DOMAIN InitialMap = {"read", "write", "page"}
      /\ InitialMap = [x \in DOMAIN InitialMap |-> InitialMap[x]]
      /\ InitialMap.read = rd /\ InitialMap.write = wr /\ InitialMap.page = pg
  BY <1>1
<1>6. Laid(InitialMap)
  BY <1>2, <1>3, <1>5 DEF Laid
<1>. QED
  BY <1>3, <1>4, <1>5, <1>6

\* A bank of the ROM is in it, if its number was brought into its range.
LEMMA BankIn ==
    ASSUME NEW b \in 0 .. RomSize - 1
    PROVE  Bank(b).of = "rom"
<1>1. b < RomSize
  BY LoadAssumption
<1>. QED
  BY <1>1 DEF Bank

LEMMA RemappedIn ==
    ASSUME NEW k, k.meta.emulated = "fds", NEW b \in Byte
    PROVE  Bank(Remapped(k, b)).of # "beyond"
<1>1. b % RomSize \in 0 .. RomSize - 1
  <2>1. b \in Int /\ RomSize \in Nat \ {0}
    BY LoadAssumption DEF Byte
  <2>. QED
    BY <2>1, DivMod
<1>2. Bank(b % RomSize).of = "rom"
  BY <1>1, BankIn
<1>. QED
  BY <1>2 DEF Remapped

\* What the pages of a song's start show.
LEMMA StartIs ==
    ASSUME NEW k, k.banks \in BankRegs, k.banked \in BOOLEAN
    PROVE  /\ DOMAIN StartPages(k) = Pages
           /\ \A p \in {6, 7} : StartPages(k)[p].of # "beyond"
           /\ k.meta.emulated = "fds" => \A p \in Pages : StartPages(k)[p].of # "beyond"
<1>0. \A p \in 0 .. 7 : k.banks[p] \in Byte
  BY DEF BankRegs
<1>1. \A i : WorkRam(i).of # "beyond"
  BY DEF WorkRam
<1>2. ASSUME NEW p \in 6 .. 15 PROVE p >= 8 => Bank(p - 8).of # "beyond"
  <2>1. p >= 8 => p - 8 \in 0 .. RomSize - 1
    BY LoadAssumption
  <2>. QED
    BY <2>1, BankIn
<1>3. ASSUME NEW p \in Pages, p < 8 \/ k.meta.emulated = "fds"
      PROVE  StartPages(k)[p].of # "beyond"
  <2>. DEFINE a == Bank(Remapped(k, k.banks[p - 8]))
              b == Bank(Remapped(k, k.banks[p]))
              c == Bank(p - 8)
              d == WorkRam(p - 6)
  <2>0. p \in 6 .. 15
    BY DEF Pages
  <2>1. StartPages(k)[p] = IF k.banked /\ p >= 8 THEN a
                           ELSE IF k.banked /\ k.meta.emulated = "fds" THEN b
                           ELSE IF p >= 8 THEN c ELSE d
    BY DEF StartPages
  <2>2. k.banked /\ p >= 8 => a.of # "beyond"
    <3>1. SUFFICES ASSUME p >= 8 PROVE a.of # "beyond"
      OBVIOUS
    <3>2. k.banks[p - 8] \in Byte /\ k.meta.emulated = "fds"
      BY <1>0, <1>3, <2>0, <3>1
    <3>. QED
      BY <3>2, RemappedIn
  <2>3. k.meta.emulated = "fds" /\ p < 8 => b.of # "beyond"
    <3>1. SUFFICES ASSUME p < 8, k.meta.emulated = "fds" PROVE b.of # "beyond"
      OBVIOUS
    <3>2. k.banks[p] \in Byte
      BY <1>0, <2>0, <3>1
    <3>. QED
      BY <3>1, <3>2, RemappedIn
  <2>4. (p >= 8 => c.of # "beyond") /\ d.of # "beyond"
    BY <1>1, <1>2, <2>0
  <2>. HIDE DEF a, b, c, d
  <2>. QED
    BY <2>0, <2>1, <2>2, <2>3, <2>4
<1>4. \A p \in {6, 7} : p \in Pages /\ p < 8
  BY DEF Pages
<1>. QED
  BY <1>3, <1>4 DEF StartPages

LEMMA SongLaid ==
    ASSUME NEW m, Laid(m), NEW k, IsCore(k)
    PROVE  LET r == EmuInitMap(m, k) IN Laid(r) /\ SongsMap(r, k)
<1>. DEFINE c == k.meta.emulated
            r == EmuInitMap(m, k)
            made == EmuInitMap(InitialMap, k)
<1>1. c \in Chips \cup {"none"} /\ k.banks \in BankRegs /\ k.banked \in BOOLEAN
  BY MetaUnpack DEF IsCore, MetaFields
<1>2. /\ DOMAIN r = {"read", "write", "page"} /\ r = [x \in DOMAIN r |-> r[x]]
      /\ DOMAIN r.read = Regions /\ DOMAIN r.write = Regions
      /\ r.page = StartPages(k)
      /\ \A g \in Regions : /\ r.read[g] = SongRead(k, g, m.read[g])
                             /\ r.write[g] = SongWrite(k, g, m.write[g])
  BY EmuInitIs DEF Laid
<1>3. \A g \in Regions : /\ made.read[g] = SongRead(k, g, InitialMap.read[g])
                         /\ made.write[g] = SongWrite(k, g, InitialMap.write[g])
  BY EmuInitIs, InitialIs DEF Laid
<1>4. /\ WrittenBy[c] \subseteq (Low \cup Rom) /\ ReadBy[c] \subseteq Low
      /\ c = "none" => WrittenBy[c] = {}
      /\ c = "fds" => WrittenBy[c] \cap Rom = {}
  BY <1>1, ChipsRegions
<1>5. "5FF8 bank" \in Selects
  BY DEF Selects
<1>6. c # "page" /\ "fds" \in Chips
  BY <1>1 DEF Chips
<1>7. /\ DOMAIN StartPages(k) = Pages
      /\ \A p \in {6, 7} : StartPages(k)[p].of # "beyond"
      /\ c = "fds" => \A p \in Pages : StartPages(k)[p].of # "beyond"
  BY <1>1, StartIs
<1>. HIDE DEF c, r, made
<1>8. \A g \in Regions \ Low : r.read[g] = m.read[g] /\ made.read[g] = InitialMap.read[g]
  BY <1>2, <1>3, <1>4 DEF SongRead, c
<1>9. ASSUME NEW g \in Fixed
      PROVE  r.write[g] = InitialMap.write[g] /\ made.write[g] = InitialMap.write[g]
  <2>1. g \in Regions /\ g \notin WrittenBy[c] /\ g \notin Rom /\ g \notin Selects /\ g # "5FF8 bank"
    BY <1>4, <1>5, Kinds4
  <2>. QED
    BY <1>2, <1>3, <2>1 DEF Laid, SongWrite, c
<1>10. ASSUME NEW g \in Low
       PROVE  /\ r.write[g] \in {"open"} \cup Chips
              /\ r.write[g] \in {made.write[g]} \cup Chips
  <2>1. g \in Regions /\ g \notin Rom /\ g \notin Selects /\ g # "5FF8 bank"
    BY <1>5, Kinds4
  <2>2. r.write[g] = IF g \in WrittenBy[c] THEN c ELSE m.write[g]
    BY <1>2, <2>1 DEF SongWrite, c
  <2>3. made.write[g] = IF g \in WrittenBy[c] THEN c ELSE "open"
    BY <1>3, <2>1, InitialIs DEF SongWrite, c
  <2>4. m.write[g] \in {"open"} \cup Chips
    BY DEF Laid
  <2>. QED
    BY <1>1, <1>4, <2>2, <2>3, <2>4
<1>11. Laid(r)
  BY <1>2, <1>7, <1>8, <1>9, <1>10 DEF Laid
<1>12. ASSUME NEW g \in Regions \ Low
       PROVE  r.write[g] = made.write[g] /\ r.read[g] = made.read[g]
  <2>1. CASE g \in Fixed
    BY <1>8, <1>9, <2>1 DEF Laid
  <2>2. CASE g \in Rom \cup Selects
    <3>1. r.write[g] = made.write[g]
      <4>1. g \in Regions
        BY <1>12
      <4>2. \A a, b : SongWrite(k, g, a) = SongWrite(k, g, b)
        <5>1. CASE g \in Rom
          BY <5>1 DEF SongWrite
        <5>2. CASE g \in Selects /\ g \notin Rom
          BY <5>2 DEF SongWrite
        <5>. QED
          BY <2>2, <5>1, <5>2
      <4>. QED
        BY <1>2, <1>3, <4>1, <4>2
    <3>. QED
      BY <1>8, <3>1 DEF Laid
  <2>. QED
    BY <2>1, <2>2, Kinds4
<1>13. ASSUME NEW g \in Paged, r.write[g] = "page", NEW p \in PagesOf(g)
       PROVE  r.page[p].of # "beyond"
  <2>1. CASE g = "6000-7FFF"
    <3>1. p \in {6, 7}
      BY <2>1 DEF PagesOf
    <3>. QED
      BY <1>2, <1>7, <3>1
  <2>2. CASE g # "6000-7FFF"
    <3>1. g \in Rom /\ g \in Regions
      BY <2>2, Kinds4
    <3>2. c = "fds"
      BY <1>2, <1>6, <1>13, <3>1 DEF SongWrite, c
    <3>3. p \in Pages
      BY DEF PagesOf, Pages, Paged
    <3>. QED
      BY <1>2, <1>7, <3>2, <3>3
  <2>. QED
    BY <2>1, <2>2
<1>14. SongsMap(r, k)
  BY <1>10, <1>12, <1>13 DEF SongsMap, made
<1>. QED
  BY <1>11, <1>14 DEF r

\* A song's write to a bank register keeps the map the song's.
LEMMA BankLaid ==
    ASSUME NEW m, Laid(m), NEW k, IsCore(k), SongsMap(m, k), NEW p \in Pages, NEW v \in Byte
    PROVE  LET r == SetBank(m, k, p, v) IN Laid(r) /\ SongsMap(r, k)
<1>. DEFINE c == k.meta.emulated
            g == IF p < 8 THEN "5FF6 bank" ELSE "5FF8 bank"
            made == EmuInitMap(InitialMap, k)
            r == SetBank(m, k, p, v)
            bank == IF m.write[g] = "bank" THEN Bank(v) ELSE Bank(Remapped(k, v))
            pages == [m.page EXCEPT ![p] = bank]
            s == [m EXCEPT !.page = pages]
<1>1. CASE m.write[g] \notin {"bank", "remap"}
  BY <1>1 DEF SetBank
<1>2. CASE m.write[g] \in {"bank", "remap"}
  <2>1. r = s
    <3>1. r = [m EXCEPT !.page[p] = bank]
      BY <1>2 DEF SetBank
    <3>. HIDE DEF bank, r
    <3>. QED
      BY <3>1
  <2>2. c \in Chips \cup {"none"} /\ k.banked \in BOOLEAN
    BY MetaUnpack DEF IsCore, MetaFields
  <2>3. /\ WrittenBy[c] \subseteq (Low \cup Rom)
        /\ c = "fds" => WrittenBy[c] \cap Rom = {}
    BY <2>2, ChipsRegions
  <2>4. \A q \in Regions : made.write[q] = SongWrite(k, q, InitialMap.write[q])
    BY EmuInitIs, InitialIs DEF Laid
  <2>5. g \in Selects /\ g \in Regions /\ g \notin WrittenBy[c] /\ g \notin Rom /\ g \notin Low
    BY <2>3, Kinds4 DEF Selects
  <2>6. m.write[g] = made.write[g]
    BY <2>5 DEF SongsMap
  <2>7. (m.write[g] = "remap" => c = "fds") /\ (m.write[g] = "bank" => c # "fds" /\ ~(p < 8))
    BY <2>4, <2>5, <2>6 DEF SongWrite
  <2>8. c = "fds" => bank.of # "beyond"
    BY <1>2, <2>7, RemappedIn
  <2>9. DOMAIN m.page = Pages
    BY DEF Laid
  <2>. HIDE DEF bank, made, c, r
  <2>10. DOMAIN pages = Pages /\ \A q \in Pages : pages[q] = IF q = p THEN bank ELSE m.page[q]
    BY <2>9
  <2>. HIDE DEF pages
  <2>11. /\ DOMAIN s = {"read", "write", "page"} /\ s = [x \in DOMAIN s |-> s[x]]
         /\ s.page = pages /\ s.read = m.read /\ s.write = m.write
    BY DEF Laid
  <2>. HIDE DEF s
  <2>12. Laid(s)
    BY <2>10, <2>11 DEF Laid
  <2>13. ASSUME NEW q \in Paged, s.write[q] = "page", NEW x \in PagesOf(q)
         PROVE  s.page[x].of # "beyond"
    <3>1. x \in Pages
      BY DEF PagesOf, Pages, Paged
    <3>2. m.page[x].of # "beyond"
      BY <2>11, <2>13 DEF SongsMap
    <3>3. CASE x # p
      BY <2>10, <2>11, <3>1, <3>2, <3>3
    <3>4. CASE x = p
      <4>1. CASE c = "fds"
        BY <2>8, <2>10, <2>11, <3>1, <3>4, <4>1
      <4>2. CASE c # "fds"
        <5>1. ~(x < 8)
          BY <1>2, <2>7, <3>4, <4>2
        <5>2. q # "6000-7FFF"
          BY <5>1 DEF PagesOf
        <5>3. q \in Rom /\ q \in Regions /\ q \notin Low
          BY <5>2, Kinds4
        <5>4. m.write[q] = made.write[q]
          BY <5>3 DEF SongsMap, made
        <5>5. made.write[q] # "page"
          BY <2>2, <2>4, <4>2, <5>3, Kinds4 DEF Chips, SongWrite, c
        <5>. QED
          BY <2>11, <2>13, <5>4, <5>5
      <4>. QED
        BY <4>1, <4>2
    <3>. QED
      BY <3>3, <3>4
  <2>14. SongsMap(s, k)
    BY <2>11, <2>13 DEF SongsMap
  <2>. QED
    BY <2>1, <2>12, <2>14 DEF r
<1>. QED
  BY <1>1, <1>2
-----------------------------------------------------------------------------
(* The pad, and what a press does.                                         *)

\* Presses not yet acted upon: one that has just been made is among them, and
\* what is down since before the first report never counts.
PadInv ==
    /\ buttons \subseteq Buttons /\ held \in [Buttons -> 0 .. HeldMax]
    /\ buttons = Buttons => \A b \in Buttons : held[b] = 0
    /\ credit \in 0 .. MaxCredit
    /\ (\E b \in Buttons : held[b] = 1) => credit > 0

\* What the user would notice of a turn, as in Credit.
Acts ==
    \/ stack' # stack
    \/ message /\ ~message'
    \/ phase # "INIT" /\ phase' # phase
    \/ phase # "INIT" /\ ~message /\ message'

LEMMA ButtonsFinite ==
    ASSUME NEW S, S \subseteq Buttons
    PROVE  IsFiniteSet(S) /\ Cardinality(S) \in Nat /\ (S # {} => Cardinality(S) >= 1)
<1>. DEFINE list == <<"A", "B", "C", "START", "UP", "DOWN", "LEFT", "RIGHT", "X", "Y", "Z", "L", "R">>
            name == [i \in 1 .. 13 |-> list[i]]
<1>1. \A i \in 1 .. 13 : name[i] = list[i]
  OBVIOUS
<1>2. /\ list[1] = "A" /\ list[2] = "B" /\ list[3] = "C" /\ list[4] = "START" /\ list[5] = "UP"
      /\ list[6] = "DOWN" /\ list[7] = "LEFT" /\ list[8] = "RIGHT" /\ list[9] = "X"
      /\ list[10] = "Y" /\ list[11] = "Z" /\ list[12] = "L" /\ list[13] = "R"
  OBVIOUS
<1>. HIDE DEF list
<1>3. \A i \in 1 .. 13 : list[i] \in Buttons
  BY <1>2 DEF Buttons
<1>4. \A b \in Buttons : \E i \in 1 .. 13 : name[i] = b
  BY <1>1, <1>2 DEF Buttons
<1>5. name \in [1 .. 13 -> Buttons]
  BY <1>3
<1>. HIDE DEF name
<1>6. name \in Surjection(1 .. 13, Buttons)
  BY <1>4, <1>5 DEF Surjection
<1>7. IsFiniteSet(1 .. 13)
  <2>1. \A l \in Nat : IsFiniteSet(1 .. l)
    BY FS_Interval
  <2>. QED
    BY <2>1
<1>8. IsFiniteSet(Buttons)
  BY <1>6, <1>7, FS_Surjection
<1>9. IsFiniteSet(S)
  BY <1>8, FS_Subset
<1>10. Cardinality(S) \in Nat /\ (Cardinality(S) = 0 <=> S = {})
  BY <1>9, FS_CardinalityType, FS_EmptySet
<1>. QED
  BY <1>9, <1>10

LEMMA PadKept ==
    ASSUME PadInv, Turn
    PROVE  /\ buttons' \subseteq Buttons /\ held' \in [Buttons -> 0 .. HeldMax]
           /\ buttons' = Buttons => \A b \in Buttons : held'[b] = 0
           /\ \A b \in Buttons : held'[b] = 1 => b \in Fresh
           /\ \A b \in Buttons : Down(b) => held[b] = 1
<1>1. HeldMax \in Nat /\ HeldMax > 2
  BY PlayerAssumption
<1>2. CASE buttons = Buttons /\ UNCHANGED pad
  BY <1>2 DEF PadInv, pad, Down
<1>3. ASSUME NEW b \in Presses, UpdateInput(b)
      PROVE  /\ buttons' \subseteq Buttons /\ held' \in [Buttons -> 0 .. HeldMax]
             /\ buttons' = Buttons => \A x \in Buttons : held'[x] = 0
             /\ \A x \in Buttons : held'[x] = 1 => x \in Fresh
             /\ \A x \in Buttons : Down(x) => held[x] = 1
  <2>1. buttons' = b /\ b \subseteq Buttons /\ b # Buttons
    BY <1>3, PlayerAssumption DEF UpdateInput
  <2>2. held' = [x \in Buttons |-> HeldNext(x \in b, x \in b \ buttons, held[x])]
    BY <1>3 DEF UpdateInput
  <2>3. ASSUME NEW x \in Buttons
        PROVE  /\ held'[x] \in 0 .. HeldMax
               /\ held'[x] = 1 => x \in Fresh
               /\ held'[x] = 2 => held[x] = 1
    <3>1. held'[x] = IF x \in b \ buttons THEN 1 ELSE IF ~(x \in b) THEN 0
                     ELSE IF held[x] \in {0, HeldMax} THEN held[x] ELSE held[x] + 1
      BY <2>2 DEF HeldNext
    <3>2. held[x] \in 0 .. HeldMax
      BY DEF PadInv
    <3>. QED
      BY <1>1, <2>1, <3>1, <3>2 DEF Fresh
  <2>. QED
    BY <2>1, <2>2, <2>3 DEF Down
<1>. QED
  BY <1>2, <1>3 DEF Turn

\* Whatever acts does so because a button went down the turn before, or because
\* B has been held for long enough.
LEMMA Deliberate ==
    ASSUME LoopTurn, Acts
    PROVE  (\E b \in Buttons : Down(b)) \/ held'["B"] = LongHold
<1>0. {"B", "START", "A", "C"} \subseteq Buttons
  BY DEF Buttons
<1>1. CASE ShowMessage
  BY <1>0, <1>1 DEF ShowMessage, Acts, selector
<1>2. CASE Start
  <2>1. stack' = stack /\ phase = "INIT" /\ ~message
    BY <1>2 DEF Start
  <2>. QED
    BY <2>1 DEF Acts
<1>3. CASE SelectorTurn
  <2>1. CASE Ascend
    BY <1>0, <2>1 DEF Ascend
  <2>2. CASE Descend
    BY <1>0, <2>2 DEF Descend, Selecting
  <2>3. CASE Browse
    BY <1>3, <2>3 DEF Browse, Acts, SelectorTurn
  <2>. QED
    BY <1>3, <2>1, <2>2, <2>3 DEF SelectorTurn
<1>4. ASSUME NEW f \in DOMAIN TextLines, OpenHex(f) \/ OpenText(f) \/ OpenSong(f)
      PROVE  \E b \in Buttons : Down(b)
  BY <1>0, <1>4 DEF OpenHex, OpenText, OpenSong, Opening, Selecting
<1>5. CASE ViewText
  BY <1>0, <1>5 DEF ViewText, Scroll, Leaving, Acts, selector
<1>6. CASE ViewHex
  BY <1>0, <1>6 DEF ViewHex, Scroll, Leaving, Acts, selector
<1>7. CASE Play
  BY <1>0, <1>7 DEF Play, Leaving, Acts, selector
<1>. QED
  BY <1>1, <1>2, <1>3, <1>4, <1>5, <1>6, <1>7 DEF LoopTurn

LEMMA TurnIsTaken ==
    ASSUME LoopTurn
    PROVE  Turn
BY DEF LoopTurn, ShowMessage, Start, SelectorTurn, OpenHex, OpenText, OpenSong, Opening,
       ViewText, ViewHex, Play

LEMMA PadStep ==
    ASSUME PadInv, [Next]_vars
    PROVE  PadInv'
<1>1. CASE UNCHANGED vars
  BY <1>1 DEF PadInv, vars, pad
<1>2. CASE SwitchBank
  BY <1>2 DEF PadInv, SwitchBank, pad
<1>3. CASE LoopTurn /\ Credit
  <2>. DEFINE n == Cardinality(Fresh)
              acted == IF Acts THEN 1 ELSE 0
              hold == IF held'["B"] = LongHold THEN 1 ELSE 0
              now == credit + n + hold - acted
  <2>1. /\ buttons' \subseteq Buttons /\ held' \in [Buttons -> 0 .. HeldMax]
        /\ buttons' = Buttons => \A b \in Buttons : held'[b] = 0
        /\ \A b \in Buttons : held'[b] = 1 => b \in Fresh
        /\ \A b \in Buttons : Down(b) => held[b] = 1
    BY <1>3, TurnIsTaken, PadKept
  <2>2. n \in Nat /\ (Fresh # {} => n >= 1)
    BY <2>1, ButtonsFinite DEF Fresh
  <2>3. credit' = IF now > MaxCredit THEN MaxCredit ELSE now
    BY <1>3 DEF Credit, Acts
  <2>4. Acts => credit > 0 \/ hold = 1
    BY <1>3, <2>1, Deliberate DEF PadInv
  <2>5. acted \in {0, 1} /\ hold \in {0, 1} /\ (acted = 1 => credit > 0 \/ hold = 1)
    BY <2>4
  <2>6. credit \in 0 .. MaxCredit /\ MaxCredit \in Nat \ {0}
    BY PlayerAssumption DEF PadInv
  <2>. HIDE DEF n, acted, hold
  <2>7. now \in Nat /\ (Fresh # {} => now >= 1)
    BY <2>2, <2>5, <2>6
  <2>8. credit' \in 0 .. MaxCredit /\ (Fresh # {} => credit' > 0)
    BY <2>3, <2>6, <2>7
  <2>. QED
    BY <2>1, <2>8 DEF PadInv
<1>. QED
  BY <1>1, <1>2, <1>3 DEF Next
-----------------------------------------------------------------------------
(* The screen mode.                                                        *)

\* The mode the user asked for is the screen's, or is kept while the hex viewer
\* has one of its own.
ScreenInv ==
    /\ hires \in BOOLEAN /\ hiresSave \in BOOLEAN /\ wish \in BOOLEAN
    /\ IF phase = "HEX" THEN hiresSave = wish ELSE hires = wish

LEMMA ScreenStep ==
    ASSUME ScreenInv, [Next]_vars
    PROVE  ScreenInv'
<1>1. CASE UNCHANGED vars
  BY <1>1 DEF ScreenInv, vars, screen
<1>2. CASE SwitchBank
  BY <1>2 DEF ScreenInv, SwitchBank, screen
<1>3. CASE LoopTurn
  <2>0. wish' = ToggleHires(wish)
    BY <1>3, TurnIsTaken DEF Turn
  <2>1. /\ ToggleHires(wish) \in BOOLEAN /\ ToggleHires(hires) \in BOOLEAN
        /\ phase = "HEX" => ToggleHires(wish) = wish
        /\ hires = wish => ToggleHires(hires) = ToggleHires(wish)
    BY DEF ToggleHires, ScreenInv
  <2>2. CASE ShowMessage
    BY <2>0, <2>1, <2>2 DEF ShowMessage, ScreenInv, ToggleHires
  <2>3. CASE Start
    <3>1. phase' # "HEX"
      <4>1. phase = "INIT" /\ (StartFails \/ StartReads)
        BY <2>3 DEF Start
      <4>. QED
        BY <4>1 DEF StartFails, StartReads
    <3>2. phase = "INIT" /\ hires' = ToggleHires(hires) /\ hiresSave' = hiresSave
      BY <2>3 DEF Start
    <3>. QED
      BY <2>0, <2>1, <3>1, <3>2 DEF ScreenInv
  <2>4. CASE SelectorTurn
    BY <2>0, <2>1, <2>4 DEF SelectorTurn, ScreenInv
  <2>5. ASSUME NEW f \in DOMAIN TextLines, OpenHex(f) PROVE ScreenInv'
    BY <2>0, <2>1, <2>5 DEF OpenHex, Opening, ScreenInv
  <2>6. ASSUME NEW f \in DOMAIN TextLines, OpenText(f) PROVE ScreenInv'
    BY <2>0, <2>1, <2>6 DEF OpenText, Opening, ScreenInv
  <2>7. ASSUME NEW f \in DOMAIN TextLines, OpenSong(f) PROVE ScreenInv'
    BY <2>0, <2>1, <2>7 DEF OpenSong, Opening, Plays, Refuses, ScreenInv
  <2>8. CASE ViewText
    BY <2>0, <2>1, <2>8 DEF ViewText, ScreenInv
  <2>9. CASE ViewHex
    BY <2>0, <2>1, <2>9 DEF ViewHex, HiresAfterHex, ScreenInv
  <2>10. CASE Play
    BY <2>0, <2>1, <2>10 DEF Play, ScreenInv
  <2>. QED
    BY <1>3, <2>2, <2>3, <2>4, <2>5, <2>6, <2>7, <2>8, <2>9, <2>10 DEF LoopTurn
<1>. QED
  BY <1>1, <1>2, <1>3 DEF Next
-----------------------------------------------------------------------------
(* The way home.                                                           *)

Places == [dir: DOMAIN Disc, which: Nat, scroll: Nat, sure: BOOLEAN]

Path(s, d) == [i \in 1 .. Len(s) + 1 |-> IF i <= Len(s) THEN s[i].dir ELSE d]

\* At place p there is e, unless there was a fault: then this is known of a place
\* on a sure table only, and e may be the directory of p again.
Leads(p, e, n) ==
    n = 0 \/ p.sure =>
       \/ \E j \in DOMAIN Disc[p.dir] : Holds(p.dir, j, e) /\ Position(Disc[p.dir], j) = p.which
       \/ p.dir = e /\ n > 0

\* The stack s leads from directory d back to h, and without faults no directory
\* on the way is too large for the table.
Homeward(h, s, d, n) ==
    LET path == Path(s, d) IN
    /\ path[1] = h
    /\ \A i \in 1 .. Len(s) : Leads(s[i], path[i + 1], n)
    /\ n = 0 => \A i \in 1 .. Len(s) + 1 : Fits(path[i])

LEMMA FrontIs ==
    ASSUME NEW S, NEW s \in Seq(S), s # << >>
    PROVE  /\ Front(s) \in Seq(S) /\ Len(s) \in Nat /\ Len(s) # 0 /\ Len(Front(s)) = Len(s) - 1
           /\ \A i \in 1 .. Len(s) - 1 : Front(s)[i] = s[i]
           /\ Last(s) = s[Len(s)] /\ s[Len(s)] \in S
<1>. DEFINE n == Len(s) - 1
<1>1. Len(s) \in Nat /\ Len(s) # 0 /\ s[Len(s)] \in S /\ n \in Nat /\ \A i \in 1 .. Len(s) : s[i] \in S
  OBVIOUS
<1>2. n \in Int /\ 1 \in Int /\ \A i \in 1 .. n : s[i] \in S
  BY <1>1
<1>3. Front(s) = SubSeq(s, 1, n)
  BY DEF Front
<1>. HIDE DEF n
<1>4. /\ SubSeq(s, 1, n) \in Seq(S) /\ Len(SubSeq(s, 1, n)) = IF 1 <= n THEN n - 1 + 1 ELSE 0
      /\ \A i \in 1 .. n - 1 + 1 : SubSeq(s, 1, n)[i] = s[1 + i - 1]
  BY <1>2, SubSeqProperties
<1>5. Len(SubSeq(s, 1, n)) = n /\ \A i \in 1 .. n : SubSeq(s, 1, n)[i] = s[i]
  BY <1>1, <1>4
<1>. QED
  BY <1>1, <1>3, <1>4, <1>5 DEF Last, n

LEMMA AppendIs ==
    ASSUME NEW S, NEW s \in Seq(S), NEW e \in S
    PROVE  /\ Append(s, e) \in Seq(S) /\ Len(s) \in Nat /\ Len(Append(s, e)) = Len(s) + 1
           /\ \A i \in 1 .. Len(s) : Append(s, e)[i] = s[i]
           /\ Append(s, e)[Len(s) + 1] = e
OBVIOUS

LEMMA LeadsStill ==
    ASSUME NEW p, NEW e, NEW n \in Nat, NEW m \in Nat, n <= m, Leads(p, e, n)
    PROVE  Leads(p, e, m)
BY DEF Leads

LEMMA HomewardStay ==
    ASSUME NEW h, NEW s \in Seq(Places), NEW d, NEW n \in Nat, NEW m \in Nat, n <= m,
           Homeward(h, s, d, n)
    PROVE  Homeward(h, s, d, m)
BY LeadsStill DEF Homeward

LEMMA PathIs ==
    ASSUME NEW s \in Seq(Places), NEW d
    PROVE  /\ Len(s) \in Nat /\ Path(s, d)[Len(s) + 1] = d
           /\ \A i \in 1 .. Len(s) : Path(s, d)[i] = s[i].dir
BY DEF Path

LEMMA HomewardPop ==
    ASSUME NEW h, NEW s \in Seq(Places), s # << >>, NEW d, NEW n \in Nat, NEW m \in Nat, n <= m,
           Homeward(h, s, d, n)
    PROVE  /\ Homeward(h, Front(s), Last(s).dir, m) /\ (m = 0 => Fits(Last(s).dir))
           /\ m > 0 => Homeward(h, s, Last(s).dir, m)
<1>. DEFINE p == Path(s, d)
            e == Last(s).dir
            q == Path(Front(s), e)
            r == Path(s, e)
            l == Len(s)
<1>1. /\ Front(s) \in Seq(Places) /\ l \in Nat /\ l # 0 /\ Len(Front(s)) = l - 1
      /\ \A i \in 1 .. l - 1 : Front(s)[i] = s[i]
      /\ e = s[l].dir
  BY FrontIs
<1>2. p[l + 1] = d /\ \A i \in 1 .. l : p[i] = s[i].dir
  BY PathIs
<1>3. r[l + 1] = e /\ \A i \in 1 .. l : r[i] = s[i].dir
  BY PathIs
<1>4. q[l] = e /\ \A i \in 1 .. l - 1 : q[i] = s[i].dir
  <2>1. q[(l - 1) + 1] = e /\ \A i \in 1 .. l - 1 : q[i] = Front(s)[i].dir
    BY <1>1, PathIs
  <2>. QED
    BY <1>1, <2>1
<1>5. /\ p[1] = h
      /\ \A i \in 1 .. l : Leads(s[i], p[i + 1], m)
      /\ m = 0 => \A i \in 1 .. l + 1 : Fits(p[i])
  BY HomewardStay DEF Homeward
<1>. HIDE DEF p, q, r, e
<1>6. \A i \in 1 .. l : q[i] = p[i]
  BY <1>1, <1>2, <1>4
<1>7. Homeward(h, Front(s), e, m)
  <2>1. q[1] = h
    BY <1>1, <1>5, <1>6
  <2>2. \A i \in 1 .. l - 1 : Leads(Front(s)[i], q[i + 1], m)
    BY <1>1, <1>5, <1>6
  <2>3. m = 0 => \A i \in 1 .. l : Fits(q[i])
    BY <1>1, <1>5, <1>6
  <2>. QED
    BY <1>1, <2>1, <2>2, <2>3 DEF Homeward, q
<1>8. m = 0 => Fits(e)
  BY <1>1, <1>2, <1>5
<1>9. ASSUME m > 0 PROVE Homeward(h, s, e, m)
  <2>1. r[1] = h
    BY <1>1, <1>2, <1>3, <1>5
  <2>2. ASSUME NEW i \in 1 .. l PROVE Leads(s[i], r[i + 1], m)
    <3>1. CASE i < l
      <4>1. i + 1 \in 1 .. l
        BY <1>1, <3>1
      <4>. QED
        BY <1>2, <1>3, <1>5, <4>1
    <3>2. CASE i = l
      BY <1>1, <1>3, <1>9, <3>2 DEF Leads
    <3>. QED
      BY <1>1, <3>1, <3>2
  <2>. QED
    BY <1>1, <1>9, <2>1, <2>2 DEF Homeward, r
<1>. QED
  BY <1>7, <1>8, <1>9 DEF e

LEMMA HomewardPush ==
    ASSUME NEW h, NEW s \in Seq(Places), NEW here \in Places, NEW n \in Nat, NEW m \in Nat, n <= m,
           Homeward(h, s, here.dir, n), NEW e, Leads(here, e, m), m = 0 => Fits(e)
    PROVE  Homeward(h, Append(s, here), e, m)
<1>. DEFINE p == Path(s, here.dir)
            a == Append(s, here)
            q == Path(a, e)
            l == Len(s)
<1>1. /\ a \in Seq(Places) /\ l \in Nat /\ Len(a) = l + 1
      /\ \A i \in 1 .. l : a[i] = s[i]
      /\ a[l + 1] = here
  BY AppendIs
<1>2. p[l + 1] = here.dir /\ \A i \in 1 .. l : p[i] = s[i].dir
  BY PathIs
<1>. HIDE DEF a
<1>3. q[(l + 1) + 1] = e /\ \A i \in 1 .. l + 1 : q[i] = a[i].dir
  BY <1>1, PathIs
<1>4. /\ p[1] = h
      /\ \A i \in 1 .. l : Leads(s[i], p[i + 1], m)
      /\ m = 0 => \A i \in 1 .. l + 1 : Fits(p[i])
  <2>1. Homeward(h, s, here.dir, m)
    BY Zenon, HomewardStay
  <2>. QED
    BY Zenon, <2>1 DEF Homeward
<1>. HIDE DEF p, q
<1>5. ASSUME NEW i \in 1 .. l + 1 PROVE q[i] = p[i]
  <2>1. CASE i <= l
    BY <1>1, <1>2, <1>3, <2>1
  <2>2. CASE i = l + 1
    BY <1>1, <1>2, <1>3, <2>2
  <2>. QED
    BY <1>1, <2>1, <2>2
<1>6. q[1] = h
  BY <1>1, <1>4, <1>5
<1>7. ASSUME NEW i \in 1 .. l + 1 PROVE Leads(a[i], q[i + 1], m)
  <2>1. CASE i <= l
    <3>1. i \in 1 .. l /\ i + 1 \in 1 .. l + 1
      BY <1>1, <2>1
    <3>. QED
      BY <1>1, <1>4, <1>5, <3>1
  <2>2. CASE i = l + 1
    BY <1>1, <1>3, <2>2
  <2>. QED
    BY <1>1, <2>1, <2>2
<1>8. ASSUME m = 0, NEW i \in 1 .. (l + 1) + 1 PROVE Fits(q[i])
  <2>1. CASE i <= l + 1
    BY <1>1, <1>4, <1>5, <1>8, <2>1
  <2>2. CASE i = (l + 1) + 1
    BY <1>3, <1>8, <2>2
  <2>. QED
    BY <1>1, <2>1, <2>2
<1>. QED
  BY <1>1, <1>6, <1>7, <1>8 DEF Homeward, q, a
-----------------------------------------------------------------------------
(* The selection.                                                          *)

LEMMA DeltaIn == Delta \in Int
<1>. DEFINE m == Count("Y") - Count("X") + 7 * (Count("R") - Count("L"))
            p == (Rows - 1) * m
<1>1. \A b : Count(b) \in {0, 1}
  BY DEF Count
<1>2. m \in Int /\ Rows \in Int
  BY <1>1, PlayerAssumption
<1>. HIDE DEF m
<1>3. p \in Int
  BY <1>2
<1>. HIDE DEF p
<1>4. Count("DOWN") - Count("UP") + p \in Int
  BY <1>1, <1>3
<1>. QED
  BY <1>4 DEF Delta, p, m

\* Where up and down, singly or with the others, take a position.
LEMMA MovedIn ==
    ASSUME NEW w \in Nat, NEW n \in Nat \ {0}
    PROVE  Moved(w, n) \in 0 .. n - 1
<1>. DEFINE by == IF Fresh = {"UP"} THEN w - 1 ELSE w + 1
            up == IF by < 0 THEN n - (-by % n) ELSE by
            to == w + Delta
<1>1. by \in Int /\ (by < 0 => -by = 1) /\ -by \in Int
  OBVIOUS
<1>. HIDE DEF by
<1>2. -by % n \in 0 .. n - 1
  BY <1>1, DivMod
<1>3. up \in Nat
  BY <1>1, <1>2
<1>. HIDE DEF up
<1>4. up % n \in 0 .. n - 1
  BY <1>3, DivMod
<1>5. (IF up >= n THEN up % n ELSE up) \in 0 .. n - 1
  BY <1>3, <1>4
<1>6. to \in Int
  BY DeltaIn
<1>. HIDE DEF to
<1>7. Clamped(to, n) \in 0 .. n - 1
  BY <1>6 DEF Clamped
<1>8. Moved(w, n) = IF Single({"UP", "DOWN"}) THEN (IF up >= n THEN up % n ELSE up) ELSE Clamped(to, n)
  BY DEF Moved, up, by, to
<1>. QED
  BY <1>5, <1>7, <1>8

\* The selection is an entry and on the screen.
Shows(t, w, s) == NumEntries(t) > 0 => /\ w \in 0 .. NumEntries(t) - 1 /\ s \in w - Rows + 1 .. w /\ s >= 0

LEMMA PlaceIs ==
    ASSUME NEW t \in Tables, NEW w \in Nat, NEW s \in Nat, Place(t, w, s)
    PROVE  table' = t /\ which' \in Nat /\ scroll' \in Nat /\ Shows(table', which', scroll')
<1>. DEFINE n == NumEntries(t)
            to == IF n = 0 THEN w ELSE Moved(w, n)
            low == IF to < s THEN to ELSE s
<1>1. n \in Nat
  BY TableFields DEF NumEntries
<1>2. /\ table' = t /\ which' = to
      /\ scroll' = IF n = 0 THEN s ELSE IF to >= low + Rows THEN to - (Rows - 1) ELSE low
  BY DEF Place
<1>3. to \in Nat /\ (n # 0 => to \in 0 .. n - 1)
  BY <1>1, MovedIn
<1>4. Rows \in Nat \ {0}
  BY PlayerAssumption
<1>. HIDE DEF to
<1>5. low \in Nat /\ low <= to
  BY <1>3
<1>. HIDE DEF low
<1>6. n = 0 => scroll' = s
  BY <1>2
<1>7. n # 0 => scroll' \in Nat /\ scroll' \in which' - Rows + 1 .. which'
  BY <1>2, <1>3, <1>4, <1>5
<1>8. NumEntries(table') = n
  BY <1>2
<1>. HIDE DEF n
<1>. QED
  BY <1>1, <1>2, <1>3, <1>6, <1>7, <1>8 DEF Shows

\* What is selected is a record that was parsed, and on a table that is right the
\* one there.
LEMMA ChosenIs ==
    ASSUME Listed(table), which \in 0 .. NumEntries(table) - 1
    PROVE  /\ Chosen.type = "directory" => Chosen.at \in DOMAIN Disc
           /\ Chosen.type # "directory" => Chosen.at \in DOMAIN TextLines
           /\ Chosen.type = "nsf" => Chosen.at \in DOMAIN Content
           /\ Chosen.type = "directory" /\ table.ok /\ table.whole =>
                 \E j \in DOMAIN Disc[table.here] :
                    /\ Holds(table.here, j, Chosen.at)
                    /\ Position(Disc[table.here], j) = which
<1>. DEFINE d == table.here
<1>1. d \in DOMAIN Disc /\ Disc[d] \in RecordSeqs
  BY DiscAssumption DEF Listed, RecordSeqs
<1>2. PICK p \in Parsed : Chosen = EntryOf(p)
  BY DEF Listed, Chosen
<1>3. Chosen.type = Filtered(p) /\ Chosen.at = p.at
  BY <1>2 DEF EntryOf
<1>4. /\ Chosen.type = "directory" => Chosen.at \in DOMAIN Disc
      /\ Chosen.type # "directory" => Chosen.at \in DOMAIN TextLines
      /\ Chosen.type = "nsf" => Chosen.at \in DOMAIN Content
  BY <1>3, DiscAssumption, PlayerAssumption
<1>5. ASSUME Chosen.type = "directory", table.ok, table.whole
      PROVE  \E j \in DOMAIN Disc[d] : Holds(d, j, Chosen.at) /\ Position(Disc[d], j) = which
  <2>1. PICK j \in Shown(Disc[d]) : Chosen = EntryOf(Disc[d][j]) /\ Position(Disc[d], j) = which
    BY <1>5 DEF Listed, Chosen
  <2>. DEFINE r == Disc[d][j]
  <2>2. r \in [kind: Kinds, ext: Exts, at: Nat] /\ j \in DOMAIN Disc[d]
    BY <1>1, <2>1, Records
  <2>3. Chosen.type = Filtered(r) /\ Chosen.at = r.at
    BY <2>1 DEF EntryOf
  <2>. HIDE DEF r
  <2>4. r.kind = "dir"
    BY <1>5, <2>2, <2>3 DEF Filtered, Exts
  <2>. QED
    BY <2>1, <2>2, <2>3, <2>4 DEF Holds, r
<1>. QED
  BY <1>4, <1>5

Phases == {"INIT", "SELECTOR", "TEXT", "HEX", "PLAYER"}

\* The selector shows an entry of the directory listed, and its stack leads home.
SelectorInv ==
    /\ phase \in Phases /\ message \in BOOLEAN /\ faults \in 0 .. MaxFaults
    /\ home \in DOMAIN Disc
    /\ table \in Tables /\ NumEntries(table) <= MaxEntries
    /\ stack \in Seq(Places) /\ Len(stack) <= MaxDepth /\ which \in Nat /\ scroll \in Nat
    /\ phase = "INIT" => stack = << >> /\ which = 0 /\ scroll = 0
    /\ phase # "INIT" => /\ Listed(table)
                         /\ faults = 0 => home = Root /\ table.ok /\ table.whole
                         /\ Homeward(home, stack, table.here, faults)
                         /\ Shows(table, which, scroll)

\* Steps that leave the selector alone.
LEMMA SelectorSame ==
    ASSUME SelectorInv, UNCHANGED <<selector, home>>, phase' \in Phases, phase = "INIT" <=> phase' = "INIT",
           message' \in BOOLEAN, faults' \in 0 .. MaxFaults, faults <= faults'
    PROVE  SelectorInv'
<1>1. faults \in Nat /\ faults' \in Nat
  BY DEF SelectorInv
<1>2. phase # "INIT" => Homeward(home, stack, table.here, faults')
  BY <1>1, HomewardStay DEF SelectorInv
<1>3. table' = table /\ stack' = stack /\ which' = which /\ scroll' = scroll /\ home' = home
  BY DEF selector
<1>. QED
  BY <1>1, <1>2, <1>3 DEF SelectorInv

\* Directory t is listed in place of the last, with a stack that leads home.
LEMMA SelectorPlaced ==
    ASSUME SelectorInv, phase' = phase, phase # "INIT", message' \in BOOLEAN,
           faults' \in 0 .. MaxFaults, faults <= faults', home' = home,
           NEW t \in Tables, NEW w \in Nat, NEW s \in Nat, Place(t, w, s),
           NumEntries(t) <= MaxEntries, Listed(t), faults' = 0 => t.ok /\ t.whole,
           stack' \in Seq(Places), Len(stack') <= MaxDepth, Homeward(home, stack', t.here, faults')
    PROVE  SelectorInv'
<1>1. table' = t /\ which' \in Nat /\ scroll' \in Nat /\ Shows(table', which', scroll')
  BY PlaceIs
<1>2. faults' = 0 => home = Root
  BY DEF SelectorInv
<1>. QED
  BY <1>1, <1>2 DEF SelectorInv

LEMMA StartStep ==
    ASSUME SelectorInv, Start
    PROVE  SelectorInv'
<1>1. /\ phase = "INIT" /\ stack' = stack /\ which' = which /\ scroll' = scroll
      /\ stack = << >> /\ which = 0 /\ scroll = 0
      /\ faults \in 0 .. MaxFaults /\ MaxFaults \in Nat /\ home \in DOMAIN Disc
      /\ table \in Tables /\ NumEntries(table) <= MaxEntries
  BY PlayerAssumption DEF Start, SelectorInv
<1>2. CASE StartFails
  <2>1. /\ table' = table /\ phase' = phase /\ home' = home /\ faults < MaxFaults
        /\ faults' = faults + 1 /\ message' \in BOOLEAN
    BY <1>2 DEF StartFails
  <2>2. faults' \in 0 .. MaxFaults
    BY <1>1, <2>1
  <2>. QED
    BY <1>1, <2>1, <2>2 DEF SelectorInv, Phases
<1>3. CASE StartReads
  <2>1. PICK m \in Failures, d \in {Root} \cup ({r.at : r \in Strays} \cap DOMAIN Disc) :
          \E t \in Readings(table, d, m) :
             /\ home' = d
             /\ faults' = faults + m + (IF d = Root THEN 0 ELSE 1) /\ faults' <= MaxFaults
             /\ table' = t /\ message' = ~t.ok
             /\ phase' = IF t.ok THEN "SELECTOR" ELSE "INIT"
    BY <1>3 DEF StartReads
  <2>2. PICK t \in Readings(table, d, m) :
             /\ home' = d
             /\ faults' = faults + m + (IF d = Root THEN 0 ELSE 1) /\ faults' <= MaxFaults
             /\ table' = t /\ message' = ~t.ok
             /\ phase' = IF t.ok THEN "SELECTOR" ELSE "INIT"
    BY <2>1
  <2>3. m \in Nat /\ d \in DOMAIN Disc
    BY PlayerAssumption DEF Failures
  <2>4. /\ t \in Tables /\ NumEntries(t) <= MaxEntries /\ t.here = d /\ Listed(t)
        /\ m = 0 => t.whole
        /\ t.whole => (t.ok <=> Fits(d))
    BY <1>1, <2>3, ReadLists
  <2>5. faults' \in 0 .. MaxFaults /\ (faults' = 0 => m = 0 /\ d = Root)
    BY <1>1, <2>2, <2>3
  <2>6. message' \in BOOLEAN /\ table' \in Tables /\ NumEntries(table') <= MaxEntries
    BY <2>2, <2>4
  <2>7. CASE ~t.ok
    BY <1>1, <2>2, <2>3, <2>5, <2>6, <2>7 DEF SelectorInv, Phases
  <2>8. CASE t.ok
    <3>1. Homeward(d, << >>, d, faults')
      <4>1. Path(<< >>, d)[1] = d /\ Len(<< >>) = 0
        BY DEF Path
      <4>2. faults' = 0 => Fits(d)
        BY <2>4, <2>5, <2>8
      <4>3. \A i \in 1 .. 0 + 1 : i = 1
        OBVIOUS
      <4>. QED
        BY <4>1, <4>2, <4>3 DEF Homeward
    <3>2. Shows(t, 0, 0)
      <4>1. NumEntries(t) \in Nat /\ Rows \in Nat \ {0}
        BY <2>4, PlayerAssumption, TableFields DEF NumEntries
      <4>. QED
        BY <4>1 DEF Shows
    <3>3. phase' = "SELECTOR" /\ table' = t /\ home' = d /\ (faults' = 0 => home' = Root /\ t.ok /\ t.whole)
      BY <2>2, <2>4, <2>5, <2>8
    <3>. QED
      BY <1>1, <2>3, <2>4, <2>5, <2>6, <3>1, <3>2, <3>3 DEF SelectorInv, Phases
  <2>. QED
    BY <2>7, <2>8
<1>. QED
  BY <1>2, <1>3 DEF Start

LEMMA AscendStep ==
    ASSUME SelectorInv, phase = "SELECTOR", UNCHANGED <<phase, home>>, Ascend
    PROVE  SelectorInv'
<1>. DEFINE top == Last(stack)
<1>1. stack # << >> /\ stack \in Seq(Places)
  BY DEF Ascend, SelectorInv
<1>2. /\ Front(stack) \in Seq(Places) /\ Len(stack) \in Nat /\ Len(Front(stack)) = Len(stack) - 1
      /\ top \in Places
  BY <1>1, FrontIs
<1>3. top.dir \in DOMAIN Disc /\ top.which \in Nat /\ top.scroll \in Nat
  BY <1>2 DEF Places
<1>4. PICK m \in Failures : \E t \in Readings(table, top.dir, m) :
          /\ faults' = faults + m
          /\ message' = ~t.ok
          /\ stack' = IF t.ok THEN Front(stack) ELSE stack
          /\ IF t.ok THEN Place(t, top.which, top.scroll) ELSE Place(t, which, scroll)
  BY DEF Ascend, Pop
<1>5. PICK t \in Readings(table, top.dir, m) :
          /\ faults' = faults + m
          /\ message' = ~t.ok
          /\ stack' = IF t.ok THEN Front(stack) ELSE stack
          /\ IF t.ok THEN Place(t, top.which, top.scroll) ELSE Place(t, which, scroll)
  BY <1>4
<1>6. /\ t \in Tables /\ NumEntries(t) <= MaxEntries /\ t.here = top.dir /\ Listed(t)
      /\ m = 0 => t.whole
      /\ t.whole => (t.ok <=> Fits(top.dir))
  BY <1>3, ReadLists DEF SelectorInv
<1>7. /\ faults \in Nat /\ faults' \in Nat /\ faults <= faults' /\ faults' \in 0 .. MaxFaults
      /\ faults' = 0 => m = 0
  BY <1>5, PlayerAssumption DEF SelectorInv, Failures
<1>8. Homeward(home, stack, table.here, faults)
  BY DEF SelectorInv
<1>9. /\ Homeward(home, Front(stack), top.dir, faults') /\ (faults' = 0 => Fits(top.dir))
      /\ faults' > 0 => Homeward(home, stack, top.dir, faults')
  BY <1>1, <1>7, <1>8, HomewardPop
<1>10. faults' = 0 => t.ok /\ t.whole
  BY <1>6, <1>7, <1>9
<1>11. message' \in BOOLEAN /\ phase # "INIT" /\ phase' = phase /\ home' = home
  BY <1>5
<1>. HIDE DEF top
<1>12. CASE t.ok
  <2>1. stack' = Front(stack) /\ Place(t, top.which, top.scroll)
    BY <1>5, <1>12
  <2>2. stack' \in Seq(Places) /\ Len(stack') <= MaxDepth /\ Homeward(home, stack', t.here, faults')
    <3>1. MaxDepth \in Nat /\ Len(stack) <= MaxDepth
      BY PlayerAssumption DEF SelectorInv
    <3>. QED
      BY <1>2, <1>6, <1>9, <2>1, <3>1
  <2>. QED
    BY <1>3, <1>6, <1>7, <1>10, <1>11, <2>1, <2>2, SelectorPlaced
<1>13. CASE ~t.ok
  <2>1. stack' = stack /\ Place(t, which, scroll) /\ faults' > 0
    BY <1>5, <1>7, <1>10, <1>13
  <2>2. stack' \in Seq(Places) /\ Len(stack') <= MaxDepth /\ Homeward(home, stack', t.here, faults')
    BY <1>6, <1>9, <2>1 DEF SelectorInv
  <2>3. which \in Nat /\ scroll \in Nat
    BY DEF SelectorInv
  <2>. QED
    BY <1>6, <1>7, <1>10, <1>11, <2>1, <2>2, <2>3, SelectorPlaced
<1>. QED
  BY <1>12, <1>13

LEMMA DescendStep ==
    ASSUME SelectorInv, phase = "SELECTOR", UNCHANGED <<phase, home>>, Descend
    PROVE  SelectorInv'
<1>. DEFINE e == Chosen.at
            a == Append(stack, Here)
<1>1. /\ Chosen.type = "directory" /\ Len(stack) < MaxDepth /\ NumEntries(table) > 0
      /\ \E m \in Failures : \E t \in Readings(table, e, m) :
            IF t.ok
            THEN /\ stack' = a /\ Place(t, 0, 0)
                 /\ faults' = faults + m /\ UNCHANGED message
            ELSE \E n \in Failures : \E back \in Readings(t, table.here, n) :
                 /\ faults' = faults + m + n /\ faults' <= MaxFaults
                 /\ message' = TRUE
                 /\ stack' = IF back.ok THEN stack ELSE a
                 /\ Place(back, which, scroll)
  BY DEF Descend, Selecting
<1>2. /\ table.here \in DOMAIN Disc /\ table \in Tables /\ stack \in Seq(Places)
      /\ faults \in 0 .. MaxFaults /\ MaxFaults \in Nat
      /\ faults = 0 => table.ok /\ table.whole
      /\ Homeward(home, stack, table.here, faults) /\ Len(stack) \in Nat /\ MaxDepth \in Nat
      /\ which \in Nat /\ scroll \in Nat /\ phase # "INIT" /\ phase' = phase /\ home' = home
  BY PlayerAssumption DEF SelectorInv, Listed
<1>3. /\ e \in DOMAIN Disc
      /\ table.ok /\ table.whole =>
            \E j \in DOMAIN Disc[table.here] :
               Holds(table.here, j, e) /\ Position(Disc[table.here], j) = which
  <2>1. Listed(table) /\ which \in 0 .. NumEntries(table) - 1
    BY <1>1 DEF SelectorInv, Shows
  <2>. QED
    BY <1>1, <2>1, ChosenIs
<1>4. /\ Here \in Places /\ Here.dir = table.here /\ Here.which = which
      /\ Here.sure <=> table.ok /\ table.whole
  <2>. DEFINE sure == table.ok /\ table.whole
  <2>1. Here = [dir |-> table.here, which |-> which, scroll |-> scroll, sure |-> sure]
    BY DEF Here
  <2>2. sure \in BOOLEAN
    OBVIOUS
  <2>. HIDE DEF sure
  <2>3. Here \in Places /\ Here.dir = table.here /\ Here.which = which /\ Here.sure = sure
    BY <1>2, <2>1, <2>2 DEF Places
  <2>. QED
    BY Zenon, <2>3 DEF sure
<1>5. ASSUME NEW n \in Nat, faults <= n
      PROVE  Leads(Here, e, n)
  <2>1. n = 0 => table.ok /\ table.whole
    BY <1>2, <1>5
  <2>. QED
    BY <1>3, <1>4, <2>1 DEF Leads
<1>6. a \in Seq(Places) /\ Len(a) = Len(stack) + 1
  BY <1>2, <1>4, AppendIs
<1>7. PICK m \in Failures : \E t \in Readings(table, e, m) :
            IF t.ok
            THEN /\ stack' = a /\ Place(t, 0, 0)
                 /\ faults' = faults + m /\ UNCHANGED message
            ELSE \E n \in Failures : \E back \in Readings(t, table.here, n) :
                 /\ faults' = faults + m + n /\ faults' <= MaxFaults
                 /\ message' = TRUE
                 /\ stack' = IF back.ok THEN stack ELSE a
                 /\ Place(back, which, scroll)
  BY <1>1
<1>8. PICK t \in Readings(table, e, m) :
            IF t.ok
            THEN /\ stack' = a /\ Place(t, 0, 0)
                 /\ faults' = faults + m /\ UNCHANGED message
            ELSE \E n \in Failures : \E back \in Readings(t, table.here, n) :
                 /\ faults' = faults + m + n /\ faults' <= MaxFaults
                 /\ message' = TRUE
                 /\ stack' = IF back.ok THEN stack ELSE a
                 /\ Place(back, which, scroll)
  BY <1>7
<1>9. /\ t \in Tables /\ NumEntries(t) <= MaxEntries /\ t.here = e /\ Listed(t)
      /\ m = 0 => t.whole
      /\ t.whole => (t.ok <=> Fits(e))
  BY <1>2, <1>3, ReadLists
<1>10. \A n \in Failures : n \in {0, 1} /\ faults + n <= MaxFaults
  BY <1>2 DEF Failures
<1>. HIDE DEF a, e
<1>11. CASE t.ok
  <2>1. stack' = a /\ Place(t, 0, 0) /\ message' = message /\ faults' = faults + m
    BY <1>8, <1>11
  <2>2. /\ faults' \in 0 .. MaxFaults /\ faults' \in Nat /\ faults <= faults' /\ faults \in Nat
        /\ faults' = 0 => t.whole /\ Fits(e)
    BY <1>2, <1>9, <1>10, <1>11, <2>1
  <2>3. Homeward(home, a, e, faults')
    <3>1. Leads(Here, e, faults') /\ Homeward(home, stack, Here.dir, faults)
      BY <1>2, <1>4, <1>5, <2>2
    <3>. QED
      BY <1>2, <1>4, <2>2, <3>1, HomewardPush DEF a
  <2>4. stack' \in Seq(Places) /\ Len(stack') <= MaxDepth /\ Homeward(home, stack', t.here, faults')
    BY <1>1, <1>2, <1>6, <1>9, <2>1, <2>3
  <2>5. message' \in BOOLEAN /\ (faults' = 0 => t.ok /\ t.whole) /\ 0 \in Nat
    BY <1>11, <2>1, <2>2 DEF SelectorInv
  <2>. QED
    BY <1>2, <1>9, <2>1, <2>2, <2>4, <2>5, SelectorPlaced
<1>12. CASE ~t.ok
  <2>1. PICK n \in Failures : \E back \in Readings(t, table.here, n) :
                 /\ faults' = faults + m + n /\ faults' <= MaxFaults
                 /\ message' = TRUE
                 /\ stack' = IF back.ok THEN stack ELSE a
                 /\ Place(back, which, scroll)
    BY <1>8, <1>12
  <2>2. PICK back \in Readings(t, table.here, n) :
                 /\ faults' = faults + m + n /\ faults' <= MaxFaults
                 /\ message' = TRUE
                 /\ stack' = IF back.ok THEN stack ELSE a
                 /\ Place(back, which, scroll)
    BY <2>1
  <2>3. /\ back \in Tables /\ NumEntries(back) <= MaxEntries /\ back.here = table.here /\ Listed(back)
        /\ n = 0 => back.whole
        /\ back.whole => (back.ok <=> Fits(table.here))
    BY <1>2, <1>9, ReadLists
  <2>4. /\ faults' \in 0 .. MaxFaults /\ faults' \in Nat /\ faults <= faults' /\ faults \in Nat
        /\ faults' = 0 => n = 0
    BY <1>2, <1>10, <2>2
  <2>5. Homeward(home, stack, table.here, faults')
    BY <1>2, <2>4, HomewardStay
  <2>6. faults' = 0 => back.ok /\ back.whole
    <3>1. Path(stack, table.here)[Len(stack) + 1] = table.here
      BY <1>2, PathIs
    <3>2. Len(stack) + 1 \in 1 .. Len(stack) + 1
      BY <1>2
    <3>3. faults' = 0 => Fits(table.here)
      BY <2>5, <3>1, <3>2 DEF Homeward
    <3>. QED
      BY <2>3, <2>4, <3>3
  <2>7. message' \in BOOLEAN
    BY <2>2
  <2>8. CASE back.ok
    <3>1. stack' = stack
      BY <2>2, <2>8
    <3>2. stack' \in Seq(Places) /\ Len(stack') <= MaxDepth /\ Homeward(home, stack', back.here, faults')
      BY <1>2, <2>3, <2>5, <3>1 DEF SelectorInv
    <3>. QED
      BY <1>2, <2>2, <2>3, <2>4, <2>6, <2>7, <3>2, SelectorPlaced
  <2>9. CASE ~back.ok
    <3>1. stack' = a /\ faults' > 0
      BY <2>2, <2>4, <2>6, <2>9
    <3>2. Homeward(home, a, table.here, faults')
      <4>1. Leads(Here, table.here, faults')
        BY <1>4, <3>1 DEF Leads
      <4>2. Homeward(home, stack, Here.dir, faults) /\ faults' # 0
        BY <1>2, <1>4, <3>1
      <4>. QED
        BY <1>2, <1>4, <2>4, <4>1, <4>2, HomewardPush DEF a
    <3>3. stack' \in Seq(Places) /\ Len(stack') <= MaxDepth /\ Homeward(home, stack', back.here, faults')
      BY <1>1, <1>2, <1>6, <2>3, <3>1, <3>2
    <3>. QED
      BY <1>2, <2>2, <2>3, <2>4, <2>6, <2>7, <3>3, SelectorPlaced
  <2>. QED
    BY <2>8, <2>9
<1>. QED
  BY <1>11, <1>12

LEMMA BrowseStep ==
    ASSUME SelectorInv, phase = "SELECTOR", UNCHANGED <<phase, home>>, Browse
    PROVE  SelectorInv'
<1>1. /\ Place(table, which, scroll) /\ stack' = stack /\ message' = message /\ faults' = faults
  BY DEF Browse
<1>2. /\ table \in Tables /\ which \in Nat /\ scroll \in Nat /\ NumEntries(table) <= MaxEntries
      /\ Listed(table) /\ (faults' = 0 => table.ok /\ table.whole)
      /\ stack' \in Seq(Places) /\ Len(stack') <= MaxDepth
      /\ Homeward(home, stack', table.here, faults') /\ message' \in BOOLEAN
      /\ faults' \in 0 .. MaxFaults /\ faults <= faults' /\ phase # "INIT" /\ phase' = phase
      /\ home' = home
  BY <1>1 DEF SelectorInv
<1>. QED
  BY <1>1, <1>2, SelectorPlaced

LEMMA SelectorStep ==
    ASSUME SelectorInv, [Next]_vars
    PROVE  SelectorInv'
<1>0. faults \in Nat /\ faults \in 0 .. MaxFaults /\ MaxFaults \in Nat /\ phase \in Phases /\ message \in BOOLEAN
  BY PlayerAssumption DEF SelectorInv
<1>1. CASE UNCHANGED vars
  BY <1>0, <1>1, SelectorSame DEF vars
<1>2. CASE SwitchBank
  BY <1>0, <1>2, SelectorSame DEF SwitchBank
<1>3. CASE ShowMessage
  <2>1. message' \in BOOLEAN
    BY <1>3 DEF ShowMessage
  <2>. QED
    BY <1>0, <1>3, <2>1, SelectorSame DEF ShowMessage
<1>4. CASE Start
  BY <1>4, StartStep
<1>5. CASE SelectorTurn
  <2>1. phase = "SELECTOR" /\ UNCHANGED <<phase, home>> /\ (Ascend \/ Descend \/ Browse)
    BY <1>5 DEF SelectorTurn
  <2>. QED
    BY <2>1, AscendStep, DescendStep, BrowseStep
<1>6. ASSUME NEW f \in DOMAIN TextLines, OpenHex(f)
      PROVE  SelectorInv'
  <2>1. /\ UNCHANGED <<selector, home>> /\ phase = "SELECTOR" /\ phase' \in {"SELECTOR", "HEX"}
        /\ message' = message /\ (faults' = faults \/ (faults < MaxFaults /\ faults' = faults + 1))
    BY <1>6 DEF OpenHex, Opening
  <2>2. faults' \in 0 .. MaxFaults /\ faults <= faults' /\ message' \in BOOLEAN /\ phase' \in Phases
    BY <1>0, <2>1 DEF Phases
  <2>3. phase = "INIT" <=> phase' = "INIT"
    BY <2>1
  <2>. QED
    BY <2>1, <2>2, <2>3, SelectorSame
<1>7. ASSUME NEW f \in DOMAIN TextLines, OpenText(f)
      PROVE  SelectorInv'
  <2>1. /\ UNCHANGED <<selector, home>> /\ phase = "SELECTOR" /\ phase' = "TEXT"
        /\ message' = message /\ faults' = faults
    BY <1>7 DEF OpenText, Opening
  <2>2. phase' \in Phases /\ (phase = "INIT" <=> phase' = "INIT") /\ faults <= faults'
    BY <1>0, <2>1 DEF Phases
  <2>. QED
    BY <1>0, <2>1, <2>2, SelectorSame
<1>8. ASSUME NEW f \in DOMAIN TextLines, OpenSong(f)
      PROVE  SelectorInv'
  <2>1. /\ UNCHANGED <<selector, home>> /\ phase = "SELECTOR" /\ phase' \in {"SELECTOR", "PLAYER"}
        /\ message' \in BOOLEAN
    BY <1>0, <1>8 DEF OpenSong, Opening, Plays, Refuses
  <2>2. faults' <= MaxFaults /\ (faults' = faults + 0 \/ faults' = faults + 1)
    BY <1>8 DEF OpenSong
  <2>3. faults' \in 0 .. MaxFaults /\ faults <= faults' /\ message' \in BOOLEAN /\ phase' \in Phases
    BY <1>0, <2>1, <2>2 DEF Phases
  <2>4. phase = "INIT" <=> phase' = "INIT"
    BY <2>1
  <2>. QED
    BY <2>1, <2>3, <2>4, SelectorSame
<1>9. ASSUME ViewText \/ ViewHex \/ Play
      PROVE  SelectorInv'
  <2>1. /\ UNCHANGED <<selector, home>> /\ phase \in {"TEXT", "HEX", "PLAYER"} /\ phase' \in {"SELECTOR", phase}
        /\ message' = message /\ faults' = faults
    BY <1>9 DEF ViewText, ViewHex, Play, Scroll
  <2>2. phase' \in Phases /\ (phase = "INIT" <=> phase' = "INIT") /\ faults <= faults'
    BY <1>0, <2>1 DEF Phases
  <2>. QED
    BY <1>0, <2>1, <2>2, SelectorSame
<1>. QED
  BY <1>1, <1>2, <1>3, <1>4, <1>5, <1>6, <1>7, <1>8, <1>9 DEF Next, LoopTurn
-----------------------------------------------------------------------------
(* The viewers.                                                            *)

ViewerInv ==
    /\ lines \in Nat /\ viewed \in Nat
    /\ viewed = 0 \/ viewed \in 0 .. lines - Rows

LEMMA ScrolledIn ==
    ASSUME NEW v \in Nat, NEW by \in Int, NEW n \in Nat
    PROVE  LET to == Scrolled(v, by, n) IN to \in Nat /\ (to = 0 \/ to \in 0 .. n - Rows)
<1>. DEFINE to == IF by < 0 /\ -by > v THEN 0 ELSE v + by
            r == IF to + Rows > n THEN n - (IF Rows > n THEN n ELSE Rows) ELSE to
<1>1. to \in Nat /\ Rows \in Nat
  BY PlayerAssumption
<1>. HIDE DEF to
<1>2. r \in Nat /\ (r = 0 \/ r \in 0 .. n - Rows)
  BY <1>1
<1>3. Scrolled(v, by, n) = r
  BY DEF Scrolled, to
<1>. QED
  BY <1>2, <1>3

LEMMA ScrollStep ==
    ASSUME ViewerInv, Scroll
    PROVE  ViewerInv'
<1>1. lines' = lines /\ viewed' = Scrolled(viewed, Delta, lines)
  BY DEF Scroll
<1>. DEFINE to == Scrolled(viewed, Delta, lines)
<1>2. to \in Nat /\ (to = 0 \/ to \in 0 .. lines - Rows)
  BY DeltaIn, ScrolledIn DEF ViewerInv
<1>. QED
  BY <1>1, <1>2 DEF ViewerInv

LEMMA ViewerStep ==
    ASSUME ViewerInv, [Next]_vars
    PROVE  ViewerInv'
<1>1. CASE UNCHANGED viewer
  BY <1>1 DEF ViewerInv, viewer
<1>2. ASSUME NEW f \in DOMAIN TextLines, NEW kind \in {"text", "hex"}, Viewed(f, kind)
      PROVE  ViewerInv'
  <2>1. TextLines[f] \in [text: Nat, hex: Nat]
    BY PlayerAssumption
  <2>2. lines' = TextLines[f][kind] /\ viewed' = 0
    BY <1>2 DEF Viewed
  <2>3. TextLines[f][kind] \in Nat
    BY <2>1
  <2>. QED
    BY <2>2, <2>3 DEF ViewerInv
<1>3. CASE UNCHANGED vars
  BY <1>1, <1>3 DEF vars
<1>4. CASE SwitchBank
  BY <1>1, <1>4 DEF SwitchBank
<1>5. CASE ShowMessage \/ Start \/ SelectorTurn \/ Play
  BY <1>1, <1>5 DEF ShowMessage, Start, SelectorTurn, Play
<1>6. ASSUME NEW f \in DOMAIN TextLines, OpenHex(f) \/ OpenText(f) \/ OpenSong(f)
      PROVE  ViewerInv'
  BY <1>1, <1>2, <1>6 DEF OpenHex, OpenText, OpenSong
<1>7. CASE ViewText \/ ViewHex
  BY <1>7, ScrollStep DEF ViewText, ViewHex
<1>. QED
  BY <1>3, <1>4, <1>5, <1>6, <1>7 DEF Next, LoopTurn
-----------------------------------------------------------------------------
(* The player.                                                             *)

\* What plays is a song, its own, in its own address space.
PlayerInv ==
    /\ song \in Byte /\ running \in BOOLEAN /\ IsCore(core) /\ Laid(map)
    /\ SongInPlace /\ LoadIsClean
    /\ phase = "PLAYER" => Balanced(core, file.name, file.steps) /\ SongsMap(map, core)

LEMMA RomOnly ==
    ASSUME NEW k, IsCore(k), NEW rom
    PROVE  IsCore([k EXCEPT !.rom = rom])
<1>. DEFINE r == [k EXCEPT !.rom = rom]
<1>1. /\ DOMAIN r = CoreNames /\ r = [x \in DOMAIN r |-> r[x]]
      /\ r.meta = k.meta /\ r.banks = k.banks /\ r.banked \in BOOLEAN /\ r.ok \in BOOLEAN
  BY DEF IsCore, CoreNames
<1>. HIDE DEF r
<1>2. IsCore(r)
  BY <1>1 DEF IsCore
<1>. QED
  BY <1>2 DEF r

LEMMA ClosedIn ==
    ASSUME NEW k, IsCore(k)
    PROVE  IsCore(NsfcoreClose(k))
<1>. DEFINE z == [i \in 0 .. 7 |-> 0]
            r == [k EXCEPT !.meta = NoMeta, !.rom = {}, !.banks = z, !.banked = FALSE, !.ok = FALSE]
<1>1. z \in BankRegs /\ NoMeta \in Metas
  BY ClosedIs DEF Closed, IsCore
<1>2. NsfcoreClose(k) = r
  BY DEF NsfcoreClose
<1>. HIDE DEF z
<1>3. /\ DOMAIN r = CoreNames /\ r = [x \in DOMAIN r |-> r[x]]
      /\ r.meta = NoMeta /\ r.banks = z /\ r.banked \in BOOLEAN /\ r.ok \in BOOLEAN
  BY DEF IsCore, CoreNames
<1>. HIDE DEF r
<1>. QED
  BY <1>1, <1>2, <1>3 DEF IsCore

\* Steps that leave the song alone, or leave no song playing.
LEMMA PlayerSame ==
    ASSUME PlayerInv, UNCHANGED player, phase' = "PLAYER" <=> phase = "PLAYER",
           phase' # "INIT" => phase # "INIT"
    PROVE  PlayerInv'
BY DEF PlayerInv, player, SongInPlace, LoadIsClean

LEMMA PlayerOutside ==
    ASSUME PlayerInv, phase' # "PLAYER", running' = FALSE, IsCore(core'), Laid(map'), song' \in Byte,
           phase' # "INIT" => {images'.scsp, images'.reserve} = {Images.scsp, Images.reserve}
    PROVE  PlayerInv'
BY DEF PlayerInv, SongInPlace, LoadIsClean

LEMMA SongNextIn ==
    ASSUME PlayerInv, NEW by \in Int
    PROVE  SongNext(by) \in Byte /\ (core.meta.count > 0 => SongNext(by) < core.meta.count)
<1>. DEFINE n == core.meta.count
            to == song + by
            end == IF Single({"LEFT", "RIGHT"}) THEN [below |-> n - 1, above |-> 0]
                                                ELSE [below |-> 0, above |-> n - 1]
            new == IF to < 0 THEN end.below ELSE IF to >= n THEN end.above ELSE to
<1>1. n \in Byte
  BY MetaUnpack DEF PlayerInv, IsCore, MetaFields
<1>2. song \in Int
  BY DEF PlayerInv, Byte
<1>3. end.below \in {0, n - 1} /\ end.above \in {0, n - 1}
  OBVIOUS
<1>. HIDE DEF end, n
<1>4. new \in Int /\ (n > 0 => new \in 0 .. n - 1)
  BY <1>1, <1>2, <1>3 DEF Byte
<1>. HIDE DEF new
<1>5. SongNext(by) = new % 256
  BY DEF SongNext, new, end, n
<1>6. new % 256 \in 0 .. 255
  BY <1>4
<1>7. n > 0 => new \in 0 .. 255 /\ new % 256 = new
  BY <1>1, <1>4 DEF Byte
<1>. DEFINE next == SongNext(by)
            low == new % 256
<1>. HIDE DEF next, low
<1>8. next = low /\ low \in 0 .. 255 /\ (n > 0 => low = new)
  BY <1>5, <1>6, <1>7 DEF next, low
<1>9. n > 0 => next < n
  BY <1>1, <1>4, <1>8 DEF Byte
<1>. QED
  BY <1>8, <1>9 DEF Byte, n, next

LEMMA SongChangeStep ==
    ASSUME PlayerInv, phase = "PLAYER", SongChange, UNCHANGED <<phase, core, file, images>>
    PROVE  PlayerInv'
<1>. DEFINE by == Count("RIGHT") - Count("LEFT") + 10 * (Count("DOWN") - Count("UP"))
                  + 50 * (Count("Y") - Count("X"))
<1>1. CASE UNCHANGED <<song, map, running>>
  BY <1>1, PlayerSame DEF player
<1>2. CASE SetSong(core, SongNext(by))
  <2>1. by \in Int
    <3>1. \A b : Count(b) \in {0, 1}
      BY DEF Count
    <3>. QED
      BY <3>1
  <2>. HIDE DEF by
  <2>2. song' = SongNext(by) /\ map' = EmuInitMap(map, core) /\ running' = TRUE
    BY <1>2 DEF SetSong
  <2>3. SongNext(by) \in Byte /\ (core.meta.count > 0 => SongNext(by) < core.meta.count)
    BY <2>1, SongNextIn
  <2>4. Laid(map') /\ SongsMap(map', core)
    BY <2>2, SongLaid DEF PlayerInv
  <2>5. SongInPlace' /\ LoadIsClean'
    BY <2>2, <2>3 DEF PlayerInv, SongInPlace, LoadIsClean
  <2>. QED
    BY <2>2, <2>3, <2>4, <2>5 DEF PlayerInv
<1>. QED
  BY <1>1, <1>2 DEF SongChange

LEMMA OpenSongStep ==
    ASSUME PlayerInv, SelectorInv, NEW f \in DOMAIN TextLines, OpenSong(f)
    PROVE  PlayerInv'
<1>1. phase = "SELECTOR" /\ Selecting /\ Chosen.type = "nsf" /\ f = Chosen.at
  BY DEF OpenSong, Opening
<1>2. f \in DOMAIN Content
  <2>1. Listed(table) /\ which \in 0 .. NumEntries(table) - 1
    BY <1>1 DEF SelectorInv, Shows, Selecting
  <2>. QED
    BY <1>1, <2>1, ChosenIs
<1>3. PICK steps \in 0 .. Steps(f), torn \in BOOLEAN :
          LET k == NsfcoreLoad(core, f, steps, torn) IN
          \/ k.ok /\ Plays(f, k) /\ file' = [name |-> f, steps |-> steps, torn |-> torn]
          \/ Refuses(f, k) /\ file' = NoFile
  BY DEF OpenSong
<1>. DEFINE k == NsfcoreLoad(core, f, steps, torn)
<1>4. /\ IsCore(k) /\ k = NsfcoreLoad(Closed, f, steps, torn)
      /\ k.ok => steps # 0 /\ Balanced(k, f, steps)
  BY <1>2, Loading DEF PlayerInv
<1>5. \/ k.ok /\ Plays(f, k) /\ file' = [name |-> f, steps |-> steps, torn |-> torn]
      \/ Refuses(f, k) /\ file' = NoFile
  BY <1>3
<1>. HIDE DEF k
<1>6. k.meta.count \in Byte /\ k.meta.start \in Byte
  BY <1>4, MetaUnpack DEF IsCore, MetaFields
<1>. DEFINE want == IF k.meta.pal THEN "PAL" ELSE "NTSC"
            n == k.meta.count
            s == k.meta.start
<1>7. CASE k.ok /\ Plays(f, k) /\ file' = [name |-> f, steps |-> steps, torn |-> torn]
  <2>1. /\ core' = k /\ want \in {images.scsp, images.reserve} /\ images' = Swapped(images, want)
        /\ song' = (IF n = 0 THEN s ELSE s % n) /\ map' = EmuInitMap(map, k) /\ running' = TRUE
        /\ phase' = "PLAYER"
    BY <1>7 DEF Plays, SetSong
  <2>2. song' \in Byte /\ (n > 0 => song' < n)
    <3>1. n # 0 => s % n \in 0 .. n - 1
      <4>1. s \in Int /\ (n # 0 => n \in Nat \ {0})
        BY SMTT(30), <1>6 DEF Byte
      <4>. HIDE DEF n, s
      <4>. QED
        BY <4>1, DivMod
    <3>2. n \in 0 .. 255 /\ s \in 0 .. 255
      BY <1>6 DEF Byte
    <3>. HIDE DEF n, s
    <3>3. (IF n = 0 THEN s ELSE s % n) \in 0 .. 255 /\ (n > 0 => (IF n = 0 THEN s ELSE s % n) < n)
      BY <3>1, <3>2
    <3>. QED
      BY <2>1, <3>3 DEF Byte
  <2>3. Laid(map') /\ SongsMap(map', k)
    BY <1>4, <2>1, SongLaid DEF PlayerInv
  <2>. HIDE DEF want
  <2>4. images'.scsp = want /\ {images'.scsp, images'.reserve} = {images.scsp, images.reserve}
    BY <2>1 DEF Swapped
  <2>5. {images.scsp, images.reserve} = {Images.scsp, Images.reserve}
    BY <1>1 DEF PlayerInv, SongInPlace
  <2>6. SongInPlace'
    BY <1>7, <2>1, <2>2, <2>4, <2>5 DEF SongInPlace, want
  <2>7. file'.name = f /\ file'.steps = steps /\ file'.torn = torn
    BY <1>7
  <2>8. LoadIsClean'
    BY <1>4, <2>1, <2>7 DEF LoadIsClean
  <2>9. Balanced(core', file'.name, file'.steps)
    BY <1>4, <1>7, <2>1, <2>7
  <2>10. IsCore(core') /\ SongsMap(map', core') /\ running' \in BOOLEAN
    BY <1>4, <2>1, <2>3
  <2>. QED
    BY <2>2, <2>3, <2>6, <2>8, <2>9, <2>10 DEF PlayerInv
<1>8. CASE Refuses(f, k) /\ file' = NoFile
  <2>1. /\ core' \in {NsfcoreClose(k), k} /\ running' = FALSE /\ phase' = phase /\ map' = map
        /\ images' = images /\ song' = song
    BY <1>8 DEF Refuses
  <2>2. IsCore(core')
    BY <1>4, <2>1, ClosedIn
  <2>3. {images'.scsp, images'.reserve} = {Images.scsp, Images.reserve}
    BY <1>1, <2>1 DEF PlayerInv, SongInPlace
  <2>4. phase' # "PLAYER" /\ Laid(map') /\ song' \in Byte
    BY <1>1, <2>1 DEF PlayerInv
  <2>. QED
    BY <2>1, <2>2, <2>3, <2>4, PlayerOutside
<1>. QED
  BY <1>5, <1>7, <1>8
LEMMA PlayerStep ==
    ASSUME PlayerInv, SelectorInv, [Next]_vars
    PROVE  PlayerInv'
<1>0. /\ running \in BOOLEAN /\ (phase # "PLAYER" => running = FALSE) /\ IsCore(core) /\ Laid(map)
      /\ song \in Byte /\ (phase # "INIT" => {images.scsp, images.reserve} = {Images.scsp, Images.reserve})
  BY DEF PlayerInv, SongInPlace
<1>1. CASE UNCHANGED vars
  BY <1>1, PlayerSame DEF vars
<1>2. CASE SwitchBank
  <2>1. phase = "PLAYER" /\ UNCHANGED <<phase, core, images, song, running, file>>
    BY <1>2 DEF SwitchBank
  <2>2. PICK b \in SongBanks : map' = SetBank(map, core, b.page, b.value)
    BY <1>2 DEF SwitchBank
  <2>3. b.page \in Pages /\ b.value \in Byte
    BY PlayerAssumption
  <2>4. Laid(map') /\ SongsMap(map', core)
    BY <2>1, <2>2, <2>3, BankLaid DEF PlayerInv
  <2>5. SongInPlace' /\ LoadIsClean'
    BY <2>1 DEF PlayerInv, SongInPlace, LoadIsClean
  <2>. QED
    BY <2>1, <2>4, <2>5 DEF PlayerInv
<1>3. CASE ShowMessage \/ SelectorTurn
  <2>1. UNCHANGED player /\ phase' = phase
    BY <1>3 DEF ShowMessage, SelectorTurn
  <2>. QED
    BY <2>1, PlayerSame
<1>4. CASE Start
  <2>1. PICK stop \in 1 .. 8 : Initialised(stop) /\ phase' \in {"INIT", "SELECTOR"}
                                /\ (phase' # "INIT" => stop = 8)
    <3>1. CASE StartFails
      BY <1>4, <3>1 DEF Start, StartFails
    <3>2. CASE StartReads
      BY <3>2 DEF StartReads
    <3>. QED
      BY <1>4, <3>1, <3>2 DEF Start
  <2>2. phase = "INIT" /\ core' = core /\ song' = song /\ running' = running
    BY <1>4 DEF Start
  <2>3. Laid(map')
    BY <1>0, <2>1, InitialIs DEF Initialised
  <2>4. phase' # "INIT" => {images'.scsp, images'.reserve} = {Images.scsp, Images.reserve}
    BY <2>1 DEF Initialised
  <2>5. phase' # "PLAYER" /\ running' = FALSE
    BY <1>0, <2>1, <2>2
  <2>. QED
    BY <1>0, <2>2, <2>3, <2>4, <2>5, PlayerOutside
<1>5. ASSUME NEW f \in DOMAIN TextLines, OpenHex(f) \/ OpenText(f)
      PROVE  PlayerInv'
  <2>1. /\ phase = "SELECTOR" /\ phase' \in {"SELECTOR", "HEX", "TEXT"}
        /\ UNCHANGED <<map, images, song, running, file>>
        /\ core' \in {core, [core EXCEPT !.rom = {[file |-> f, at |-> -1]}]}
    BY <1>5 DEF OpenHex, OpenText, Opening, Viewed
  <2>2. IsCore(core')
    BY <1>0, <2>1, RomOnly
  <2>3. phase' # "PLAYER" /\ running' = FALSE /\ Laid(map') /\ song' \in Byte
    BY <1>0, <2>1
  <2>4. {images'.scsp, images'.reserve} = {Images.scsp, Images.reserve}
    BY <1>0, <2>1
  <2>. QED
    BY <2>2, <2>3, <2>4, PlayerOutside
<1>6. ASSUME NEW f \in DOMAIN TextLines, OpenSong(f)
      PROVE  PlayerInv'
  BY <1>6, OpenSongStep
<1>7. CASE ViewText \/ ViewHex
  <2>1. UNCHANGED player /\ phase \in {"TEXT", "HEX"} /\ phase' \in {"SELECTOR", phase}
    BY <1>7 DEF ViewText, ViewHex, Scroll
  <2>. QED
    BY <2>1, PlayerSame
<1>8. CASE Play
  <2>1. CASE Leaving
    <3>1. /\ phase = "PLAYER" /\ phase' = "SELECTOR" /\ core' = NsfcoreClose(core) /\ running' = FALSE
          /\ UNCHANGED <<song, map, images>>
      BY <1>8, <2>1 DEF Play
    <3>2. IsCore(core')
      BY <1>0, <3>1, ClosedIn
    <3>3. {images'.scsp, images'.reserve} = {Images.scsp, Images.reserve}
      BY <1>0, <3>1
    <3>. QED
      BY <1>0, <3>1, <3>2, <3>3, PlayerOutside
  <2>2. CASE ~Leaving
    <3>1. phase = "PLAYER" /\ SongChange /\ UNCHANGED <<phase, core, file, images>>
      BY <1>8, <2>2 DEF Play
    <3>. QED
      BY <3>1, SongChangeStep
  <2>. QED
    BY <2>1, <2>2
<1>. QED
  BY <1>1, <1>2, <1>3, <1>4, <1>5, <1>6, <1>7, <1>8 DEF Next, LoopTurn
-----------------------------------------------------------------------------
(* The theorems.                                                           *)

\* The inductive invariant.
IInv == PadInv /\ ScreenInv /\ SelectorInv /\ ViewerInv /\ PlayerInv

LEMMA AtStart ==
    ASSUME Init
    PROVE  IInv
<1>0. /\ MaxEntries \in Nat \ {0} /\ MaxDepth \in Nat /\ MaxFaults \in Nat /\ HeldMax \in Nat
      /\ Rows \in Nat \ {0} /\ MaxCredit \in Nat \ {0}
  BY PlayerAssumption, DiscAssumption
<1>1. PadInv
  BY <1>0 DEF Init, PadInv
<1>2. ScreenInv
  BY DEF Init, ScreenInv
<1>3. SelectorInv
  <2>1. Empty \in Tables /\ NumEntries(Empty) = 0
    <3>. DEFINE z == [i \in 0 .. MaxEntries - 1 |-> NoEntry]
    <3>1. z \in [0 .. MaxEntries - 1 -> Slots]
      BY DEF Slots
    <3>. HIDE DEF z
    <3>2. Empty = [slots |-> z, dirs |-> 0, files |-> 0, here |-> 0, ok |-> TRUE,
                      whole |-> TRUE]
      BY DEF Empty, z
    <3>. QED
      BY <3>1, <3>2 DEF Tables, NumEntries
  <2>2. << >> \in Seq(Places) /\ Len(<< >>) = 0
    OBVIOUS
  <2>3. /\ phase = "INIT" /\ message = FALSE /\ faults = 0 /\ table = Empty /\ stack = << >>
        /\ which = 0 /\ scroll = 0 /\ home \in DOMAIN Disc
    BY PlayerAssumption DEF Init
  <2>4. message \in BOOLEAN
    BY <2>3
  <2>. HIDE DEF Empty
  <2>. QED
    BY <1>0, <2>1, <2>2, <2>3, <2>4 DEF SelectorInv, Phases
<1>4. ViewerInv
  BY DEF Init, ViewerInv
<1>5. PlayerInv
  <2>1. phase = "INIT" /\ core = Closed /\ map = InitialMap /\ song = 0 /\ running = FALSE
    BY DEF Init
  <2>2. SongInPlace /\ LoadIsClean
    BY <2>1 DEF SongInPlace, LoadIsClean
  <2>3. running \in BOOLEAN /\ song \in Byte
    <3>1. running \in BOOLEAN
      BY <2>1
    <3>2. song \in Byte
      BY <2>1 DEF Byte
    <3>. QED
      BY <3>1, <3>2
  <2>4. IsCore(core) /\ Laid(map)
    BY <2>1, ClosedIs, InitialIs
  <2>. QED
    BY <2>1, <2>2, <2>3, <2>4 DEF PlayerInv
<1>. QED
  BY <1>1, <1>2, <1>3, <1>4, <1>5 DEF IInv

\* The invariant of the loop: of the pad, the screen, the selector, the viewers
\* and the player, each kept by every turn.
THEOREM Inductive == Spec => []IInv
<1>1. Init => IInv
  BY AtStart
<1>2. IInv /\ [Next]_vars => IInv'
  BY PadStep, ScreenStep, SelectorStep, ViewerStep, PlayerStep DEF IInv
<1>. QED
  BY <1>1, <1>2, PTL DEF Spec

\* Every variable stays in its range: the table never overflows its array, the
\* stack its depth, the counters of buttons their limit.
THEOREM Typed == Spec => []TypeOK
<1>1. IInv => TypeOK
  <2>1. SUFFICES ASSUME IInv PROVE TypeOK
    OBVIOUS
  <2>2. /\ phase \in Phases /\ message \in BOOLEAN /\ running \in BOOLEAN
        /\ buttons \subseteq Buttons /\ held \in [Buttons -> 0 .. HeldMax]
        /\ table \in Tables /\ NumEntries(table) <= MaxEntries
        /\ Len(stack) <= MaxDepth /\ lines \in Nat
        /\ hires \in BOOLEAN /\ hiresSave \in BOOLEAN
        /\ song \in Byte /\ faults \in 0 .. MaxFaults
    BY <2>1 DEF IInv, PadInv, ScreenInv, SelectorInv, ViewerInv, PlayerInv
  <2>3. table.slots \in [0 .. MaxEntries - 1 -> Slots] /\ table.dirs \in Nat /\ table.files \in Nat
    BY <2>2, TableFields
  <2>4. \A i \in 0 .. MaxEntries - 1 : table.slots[i] = NoEntry \/ table.slots[i].type \in Types
    <3>1. \A e \in Slots : e = NoEntry \/ e.type \in Types
      BY DEF Slots
    <3>. QED
      BY <2>3, <3>1
  <2>5. song \in 0 .. 255
    BY <2>2 DEF Byte
  <2>. QED
    BY <2>2, <2>3, <2>4, <2>5 DEF TypeOK, Phases
<1>. QED
  BY <1>1, Inductive, PTL

\* What the user would select is an entry of the table and on the screen, in
\* whatever order directories were entered, left and could not be read.
THEOREM Selection == Spec => []SelectionVisible
<1>1. IInv => SelectionVisible
  BY DEF IInv, SelectorInv, ViewerInv, Shows, SelectionVisible
<1>. QED
  BY <1>1, Inductive, PTL

\* For every disc, and whatever records a read that fails for a while puts in and
\* loses: a table read without complaint and without such a failure lists its
\* directory, and the stack of the selector leads from it to where it started, each
\* entry made on such a table at the position the next was entered from.
THEOREM Home == Spec => []PathHome
<1>1. ASSUME IInv PROVE PathHome
  <2>. DEFINE path == [i \in 1 .. Len(stack) + 1 |->
                         IF i <= Len(stack) THEN stack[i].dir ELSE table.here]
  <2>1. SUFFICES ASSUME phase # "INIT" PROVE PathHome
    BY DEF PathHome
  <2>2. /\ Listed(table) /\ Homeward(home, stack, table.here, faults) /\ stack \in Seq(Places)
        /\ faults = 0 => home = Root /\ table.ok /\ table.whole
    BY <1>1, <2>1 DEF IInv, SelectorInv
  <2>3. table.ok /\ table.whole => Lists(table, Disc[table.here])
    BY <2>2 DEF Listed
  <2>4. path = Path(stack, table.here)
    BY DEF Path
  <2>5. Len(stack) \in Nat /\ \A i \in 1 .. Len(stack) : path[i] = stack[i].dir
    BY <2>2
  <2>. HIDE DEF path
  <2>6. path[1] = home /\ \A i \in 1 .. Len(stack) : Leads(stack[i], path[i + 1], faults)
    BY <2>2, <2>4 DEF Homeward
  <2>7. \A i \in 1 .. Len(stack) : (faults = 0 \/ stack[i].sure) =>
           \/ \E j \in DOMAIN Disc[path[i]] :
                 Holds(path[i], j, path[i + 1]) /\ Position(Disc[path[i]], j) = stack[i].which
           \/ path[i] = path[i + 1] /\ faults > 0
    BY <2>5, <2>6 DEF Leads
  <2>. QED
    BY <2>2, <2>3, <2>6, <2>7 DEF PathHome, path
<1>. QED
  BY <1>1, Inductive, PTL

\* However buttons go down together and whatever phase a press finds the program
\* in, it makes at most one thing happen.
THEOREM Once == Spec => []PressActsOnce
<1>1. IInv => PressActsOnce
  BY DEF IInv, PadInv, PressActsOnce
<1>. QED
  BY <1>1, Inductive, PTL

\* Outside the hex viewer the screen has the mode the user chose.
THEOREM Mode == Spec => []ModeIsUsers
<1>1. IInv => ModeIsUsers
  BY DEF IInv, ScreenInv, ModeIsUsers
<1>. QED
  BY <1>1, Inductive, PTL

\* Sound and emulation run in the player alone, on an accepted file, with the
\* image of its television standard and a song number it has.
THEOREM Song == Spec => []SongInPlace
<1>1. IInv => SongInPlace
  BY DEF IInv, PlayerInv
<1>. QED
  BY <1>1, Inductive, PTL

\* For every content of a file, what plays is what the same file would have left
\* in a core that was never used before, at levels that can be rendered.
THEOREM Own == Spec => []LoadIsOwn
<1>1. ASSUME IInv PROVE LoadIsOwn
  <2>1. LoadIsClean
    BY <1>1 DEF IInv, PlayerInv
  <2>2. phase = "PLAYER" => Balanced(core, file.name, file.steps)
    BY <1>1 DEF IInv, PlayerInv
  <2>3. MixFits
    BY <2>2 DEF MixFits, Balanced
  <2>. QED
    BY <2>1, <2>3 DEF LoadIsOwn
<1>. QED
  BY <1>1, Inductive, PTL

\* The address space is that of the song that plays, whatever songs before it
\* have left and whatever it does to its bank registers.
THEOREM Map == Spec => []MapIsSongs
<1>1. ASSUME IInv PROVE MapIsSongs
  <2>1. phase = "PLAYER" => SongsMap(map, core)
    BY <1>1 DEF IInv, PlayerInv
  <2>. QED
    BY <2>1 DEF MapIsSongs, SongsMap
<1>. QED
  BY <1>1, Inductive, PTL
=============================================================================
