--------------------------- MODULE CdStreamProofs ---------------------------
(***************************************************************************)
(* What is proved of CdStream, for every disc, partition and read size:    *)
(* the types, the mirror of the partition and that the bytes a read copies *)
(* are those of the sector it is at.  None of them is inductive alone: a   *)
(* fetch takes a sector out of the mirror only because one was found there *)
(* (Pending), and the bytes of the next sector are found in it because the *)
(* offset keeps its place within the sector while there is no data         *)
(* (Aligned).                                                              *)
(***************************************************************************)
EXTENDS CdStream, NatFacts, SequenceTheorems

\* The read waits for a sector.
Waiting == {"find", "prune", "update", "status", "auth", "play", "fetch"}

\* A read stays on the disc, and looks for a sector only while it needs one.
Pending ==
    /\ pc # "idle" => stream_pos + left <= Far
    /\ pc = "idle" => left = 0
    /\ pc \in Waiting => left > 0 /\ stream_buffer_offs >= SectorSize
    /\ pc = "fetch" => Matches # {}

\* The offset is that of stream_pos within its sector, with or without its data.
Aligned ==
    stream_pos # Far =>
        /\ stream_buffer_offs % SectorSize = stream_pos % SectorSize
        /\ ~unfetched /\ stream_buffer_offs < SectorSize => stream_buffer = Fad(stream_pos)

\* What a read has copied lies between the position it began at and the one it is at.
Progress == pc # "idle" => stream_pos = stream_target_pos + dr

IInv == TypeOK /\ Mirror /\ Pending /\ Aligned /\ Progress

-----------------------------------------------------------------------------
(* Sectors and the ring. *)

LEMMA Constants ==
    /\ SectorSize \in Nat \ {0} /\ Buffers \in Nat \ {0} /\ Keep \in Nat /\ LastFad \in Nat
    /\ ReadSizes \subseteq Nat \ {0}
    /\ Far \in Nat
BY ConstantsAssumption DEF Far

\* A position on the disc is in a sector of the disc, at an offset within it.
LEMMA InSector ==
    ASSUME NEW pos \in Positions
    PROVE  /\ Fad(pos) \in Fads
           /\ pos % SectorSize \in 0 .. SectorSize - 1
           /\ pos = SectorSize * Fad(pos) + (pos % SectorSize)
<1>. DEFINE q == pos \div SectorSize
            r == pos % SectorSize
<1>1. pos \in Nat /\ pos < (LastFad + 1) * SectorSize
  BY Constants DEF Positions, Far
<1>2. pos = SectorSize * q + r /\ q \in Int /\ r \in 0 .. SectorSize - 1
  BY <1>1, Constants, DivMod
<1>. HIDE DEF q, r
<1>3. q >= 0
  <2>1. SUFFICES ASSUME q <= -1 PROVE FALSE
    BY <1>2
  <2>2. SectorSize * q <= SectorSize * (-1)
    BY <1>2, <2>1, Constants
  <2>. QED
    BY <1>1, <1>2, <2>2, Constants
<1>4. q <= LastFad
  <2>1. SUFFICES ASSUME q >= LastFad + 1 PROVE FALSE
    BY <1>2, Constants
  <2>2. SectorSize * q >= SectorSize * (LastFad + 1)
    BY <1>2, <2>1, Constants
  <2>. QED
    BY <1>1, <1>2, <2>2, Constants
<1>5. q \in Fads
  BY <1>2, <1>3, <1>4, Constants DEF Fads
<1>. QED
  BY <1>2, <1>5 DEF Fad, q, r

\* The end of the disc is in no sector.
LEMMA PastTheEnd == Fad(Far) = LastFad + 1
<1>1. (SectorSize * (LastFad + 1) + 0) \div SectorSize = LastFad + 1
  BY Constants, DivModUnique
<1>2. SectorSize * (LastFad + 1) + 0 = Far
  BY Constants DEF Far
<1>. QED
  BY <1>1, <1>2 DEF Fad

\* A step within a sector stays in it, one to its end is at the next one's start.
LEMMA WithinSector ==
    ASSUME NEW pos \in Positions, NEW l \in Nat,
           (pos % SectorSize) + l <= SectorSize
    PROVE  /\ (pos % SectorSize) + l < SectorSize =>
                  /\ Fad(pos + l) = Fad(pos)
                  /\ (pos + l) % SectorSize = (pos % SectorSize) + l
           /\ (pos % SectorSize) + l = SectorSize => (pos + l) % SectorSize = 0
<1>. DEFINE q == Fad(pos)
            r == pos % SectorSize
<1>1. q \in Int /\ r \in Nat /\ pos = SectorSize * q + r
  BY InSector, Constants DEF Fads
<1>2. r + l <= SectorSize
  OBVIOUS
<1>. HIDE DEF q, r
<1>3. CASE r + l < SectorSize
  <2>1. (SectorSize * q + (r + l)) \div SectorSize = q /\ (SectorSize * q + (r + l)) % SectorSize = r + l
    <3>1. r + l \in 0 .. SectorSize - 1
      BY <1>1, <1>3, Constants
    <3>. QED
      BY <1>1, <3>1, Constants, DivModUnique
  <2>2. SectorSize * q + (r + l) = pos + l
    BY <1>1, Constants
  <2>3. (pos + l) \div SectorSize = q /\ (pos + l) % SectorSize = r + l
    BY <2>1, <2>2
  <2>. QED
    BY <1>1, <1>3, <2>3, Constants DEF Fad, q, r
<1>4. CASE r + l = SectorSize
  <2>1. (SectorSize * (q + 1) + 0) % SectorSize = 0
    BY <1>1, Constants, DivModUnique
  <2>2. SectorSize * (q + 1) + 0 = pos + l
    BY <1>1, <1>4, Constants
  <2>. QED
    BY <1>1, <1>4, <2>1, <2>2, Constants DEF r
<1>. QED
  BY <1>1, <1>2, <1>3, <1>4, Constants DEF q, r

\* The place of entry i in a ring that starts at o.
Place(i, o) == (i - o) % Buffers

LEMMA RingPlace ==
    ASSUME NEW i \in Ring, NEW o \in Ring
    PROVE  /\ Place(i, o) = (IF i >= o THEN i - o ELSE i - o + Buffers)
           /\ Place(i, o) \in Ring /\ Place(i, o) \in Nat
<1>. DEFINE d == i - o
            w == d + Buffers
<1>1. i \in 0 .. Buffers - 1 /\ o \in 0 .. Buffers - 1 /\ Buffers \in Nat \ {0}
  BY Constants DEF Ring
<1>2. d \in Int /\ w \in Int /\ d = Buffers * 0 + d /\ d = Buffers * (-1) + w
  BY <1>1
<1>3. CASE i >= o
  <2>1. d \in 0 .. Buffers - 1
    BY <1>1, <1>3
  <2>. HIDE DEF d, w
  <2>2. (Buffers * 0 + d) % Buffers = d
    BY <1>1, <2>1, DivModUnique
  <2>3. d % Buffers = d
    BY <1>2, <2>2
  <2>. QED
    BY <1>3, <2>1, <2>3 DEF Place, Ring, d
<1>4. CASE i < o
  <2>1. w \in 0 .. Buffers - 1
    BY <1>1, <1>4
  <2>. HIDE DEF d, w
  <2>2. (Buffers * (-1) + w) % Buffers = w
    BY <1>1, <2>1, DivModUnique
  <2>3. d % Buffers = w
    BY <1>2, <2>2
  <2>. QED
    BY <1>1, <1>4, <2>1, <2>3 DEF Place, Ring, d, w
<1>. QED
  BY <1>1, <1>3, <1>4

\* find_cdb_buffer() counts from the same end.
LEMMA CdbnPlace ==
    ASSUME NEW i \in Ring, NEW o \in Ring
    PROVE  (Buffers + i - o) % Buffers = Place(i, o)
<1>. DEFINE d == i - o
<1>1. d \in Int /\ Buffers \in Nat \ {0} /\ d + Buffers * 1 = Buffers + i - o
  BY Constants DEF Ring
<1>. HIDE DEF d
<1>2. (d + Buffers * 1) % Buffers = d % Buffers
  <2>1. \A k \in Int : (d + Buffers * k) % Buffers = d % Buffers
    BY <1>1, ModShift
  <2>. QED
    BY <2>1, 1 \in Int, Zenon
<1>3. (Buffers + i - o) % Buffers = d % Buffers
  BY <1>1, <1>2
<1>. QED
  BY <1>3 DEF Place, d

\* The next place for the oldest entry.
LEMMA RingNext ==
    ASSUME NEW o \in Ring
    PROVE  /\ (o + 1) % Buffers = (IF o = Buffers - 1 THEN 0 ELSE o + 1)
           /\ (o + 1) % Buffers \in Ring
<1>1. o \in 0 .. Buffers - 1 /\ Buffers \in Nat \ {0}
  BY Constants DEF Ring
<1>2. CASE o = Buffers - 1
  <2>1. (Buffers * 1 + 0) % Buffers = 0
    BY <1>1, DivModUnique
  <2>2. Buffers * 1 + 0 = o + 1
    BY <1>1, <1>2
  <2>. QED
    BY <1>1, <1>2, <2>1, <2>2 DEF Ring
<1>3. CASE o # Buffers - 1
  BY <1>1, <1>3, ModSmall DEF Ring
<1>. QED
  BY <1>2, <1>3

\* f mirrors the n oldest sectors of p from o on.
Mirrors(o, n, f, p) ==
    /\ n <= Len(p)
    /\ \A i \in Ring : f[i] = IF Place(i, o) < n THEN p[Place(i, o) + 1] ELSE NoFad

\* The mirror's part of the type invariant.
MirrorType(o, n, f, p) ==
    /\ o \in Ring /\ n \in 0 .. Buffers
    /\ f \in [Ring -> Fads \cup {NoFad}]
    /\ p \in Seq(Fads) /\ Len(p) <= Buffers

LEMMA MirrorIs == Mirror <=> Mirrors(stream_pb_offs, stream_pb_count, stream_pb_fad, partition)
BY DEF Mirror, Mirrors, Place

-----------------------------------------------------------------------------
(* What is done to the mirror and to the partition. *)

Mirrored ==
    /\ MirrorType(stream_pb_offs, stream_pb_count, stream_pb_fad, partition)
    /\ Mirrors(stream_pb_offs, stream_pb_count, stream_pb_fad, partition)

LEMMA EmptyMirrors ==
    ASSUME NEW p \in Seq(Fads), Len(p) <= Buffers
    PROVE  MirrorType(0, 0, EmptyMirror, p) /\ Mirrors(0, 0, EmptyMirror, p)
<1>1. Len(p) \in Nat
  BY LenProperties
<1>2. \A i \in Ring : Place(i, 0) \in Ring
  <2>1. 0 \in Ring
    BY Constants DEF Ring
  <2>. QED
    BY <2>1, RingPlace
<1>3. \A i \in Ring : ~(Place(i, 0) < 0) /\ EmptyMirror[i] = NoFad
  BY <1>2, Constants DEF Ring, EmptyMirror
<1>. QED
  BY <1>1, <1>3, Constants DEF MirrorType, Mirrors, EmptyMirror, Ring

\* The unknown sectors update_pb() may ask for.
LEMMA HalfFits ==
    ASSUME Mirrored
    PROVE  Half \in Nat /\ stream_pb_count + Half <= Len(partition)
<1>. DEFINE n == Len(partition) - stream_pb_count
<1>1. Len(partition) \in Nat /\ stream_pb_count \in Nat /\ n \in Nat
  BY LenProperties, Constants DEF Mirrored, MirrorType, Mirrors
<1>2. Half = (n + 1) \div 2
  BY DEF Half
<1>. HIDE DEF n
<1>3. (n + 1) \div 2 \in Nat /\ (n + 1) \div 2 <= n
  BY <1>1
<1>. QED
  BY <1>1, <1>2, <1>3 DEF n

LEMMA UpdateMirrors ==
    ASSUME Mirrored, NEW add \in 0 .. Half, UpdatePb(add), partition' = partition
    PROVE  Mirrored'
<1>. DEFINE o == stream_pb_offs
            n == stream_pb_count
            f == stream_pb_fad
            p == partition
            g == [i \in Ring |-> IF Place(i, o) >= n /\ Place(i, o) < n + add
                                 THEN p[Place(i, o) + 1] ELSE f[i]]
<1>1. /\ o \in Ring /\ n \in Nat /\ add \in Nat /\ f \in [Ring -> Fads \cup {NoFad}]
      /\ p \in Seq(Fads) /\ Len(p) \in Nat /\ Len(p) <= Buffers /\ n + add <= Len(p)
  BY HalfFits, LenProperties, Constants DEF Mirrored, MirrorType
<1>2. stream_pb_count' = n + add /\ stream_pb_offs' = o /\ stream_pb_fad' = g
  BY DEF UpdatePb, Place
<1>3. \A i \in Ring : f[i] = IF Place(i, o) < n THEN p[Place(i, o) + 1] ELSE NoFad
  BY DEF Mirrored, Mirrors
<1>4. \A i \in Ring : Place(i, o) \in Nat
  BY <1>1, RingPlace
<1>. HIDE DEF o, n, f, p
<1>5. \A i \in Ring : g[i] = IF Place(i, o) < n + add THEN p[Place(i, o) + 1] ELSE NoFad
  BY <1>1, <1>3, <1>4
<1>6. \A i \in Ring : g[i] \in Fads \cup {NoFad}
  <2>1. ASSUME NEW i \in Ring, Place(i, o) < n + add
        PROVE  p[Place(i, o) + 1] \in Fads
    <3>1. Place(i, o) + 1 \in 1 .. Len(p)
      BY <1>1, <1>4, <2>1
    <3>. QED
      BY <1>1, <3>1, ElementOfSeq
  <2>. QED
    BY <1>5, <2>1
<1>7. MirrorType(o, n + add, g, p) /\ Mirrors(o, n + add, g, p)
  BY <1>1, <1>5, <1>6, Constants DEF MirrorType, Mirrors
<1>. HIDE DEF g
<1>. QED
  BY <1>2, <1>7 DEF Mirrored, o, p

\* The oldest sector goes, from both.
LEMMA PruneMirrors ==
    ASSUME Mirrored, stream_pb_count > Keep,
           stream_pb_fad' = [stream_pb_fad EXCEPT ![stream_pb_offs] = NoFad],
           stream_pb_offs' = (stream_pb_offs + 1) % Buffers,
           stream_pb_count' = stream_pb_count - 1,
           partition' = Tail(partition)
    PROVE  Mirrored'
<1>. DEFINE o == stream_pb_offs
            n == stream_pb_count
            f == stream_pb_fad
            p == partition
            o1 == (o + 1) % Buffers
            t == Tail(p)
            g == [f EXCEPT ![o] = NoFad]
<1>1. /\ o \in Ring /\ n \in Nat \ {0} /\ f \in [Ring -> Fads \cup {NoFad}]
      /\ p \in Seq(Fads) /\ Len(p) \in Nat /\ Len(p) <= Buffers /\ n <= Len(p)
  BY LenProperties, Constants DEF Mirrored, MirrorType, Mirrors
<1>2. \A i \in Ring : f[i] = IF Place(i, o) < n THEN p[Place(i, o) + 1] ELSE NoFad
  BY DEF Mirrored, Mirrors
<1>3. stream_pb_count' = n - 1 /\ stream_pb_offs' = o1 /\ stream_pb_fad' = g /\ partition' = t
  OBVIOUS
<1>. HIDE DEF o, n, f, p
<1>4. /\ t \in Seq(Fads) /\ Len(t) = Len(p) - 1
      /\ \A i \in 1 .. Len(t) : t[i] = p[i + 1]
  <2>1. p # << >>
    BY <1>1, EmptySeq
  <2>. QED
    BY <1>1, <2>1, HeadTailProperties
<1>5. o1 \in Ring /\ o1 = (IF o = Buffers - 1 THEN 0 ELSE o + 1)
  BY <1>1, RingNext
<1>6. Buffers \in Nat \ {0} /\ Ring = 0 .. Buffers - 1
  BY Constants DEF Ring
<1>. HIDE DEF o1, t
<1>7. ASSUME NEW i \in Ring
      PROVE  g[i] = IF Place(i, o1) < n - 1 THEN t[Place(i, o1) + 1] ELSE NoFad
  <2>1. /\ Place(i, o) = (IF i >= o THEN i - o ELSE i - o + Buffers)
        /\ Place(i, o1) = (IF i >= o1 THEN i - o1 ELSE i - o1 + Buffers)
    BY <1>1, <1>5, RingPlace
  <2>2. CASE i = o
    <3>1. Place(i, o1) = Buffers - 1
      BY SMTT(30), <1>1, <1>5, <1>6, <2>1, <2>2
    <3>. QED
      BY <1>1, <1>6, <2>2, <3>1
  <2>3. CASE i # o
    <3>1. Place(i, o1) = Place(i, o) - 1 /\ Place(i, o1) \in Nat
      <4>1. i \in Nat /\ o \in Nat /\ i < Buffers /\ o < Buffers
        BY <1>1, <1>6
      <4>2. CASE o = Buffers - 1
        BY <1>5, <1>6, <2>1, <2>3, <4>1, <4>2
      <4>3. CASE o # Buffers - 1
        BY <1>5, <1>6, <2>1, <2>3, <4>1, <4>3
      <4>. QED
        BY <4>2, <4>3
    <3>2. Place(i, o1) < n - 1 => t[Place(i, o1) + 1] = p[Place(i, o) + 1]
      <4>. DEFINE k == Place(i, o1)
      <4>1. k \in Nat /\ Place(i, o) = k + 1
        BY <1>1, <1>6, <2>1, <3>1
      <4>. HIDE DEF k
      <4>2. k < n - 1 => k + 1 \in 1 .. Len(t)
        BY <1>1, <1>4, <4>1
      <4>3. k < n - 1 => t[k + 1] = p[(k + 1) + 1]
        BY <1>4, <4>2
      <4>. QED
        BY <4>1, <4>3 DEF k
    <3>3. g[i] = f[i]
      BY <1>1, <2>3
    <3>4. Place(i, o1) < n - 1 <=> Place(i, o) < n
      BY <1>1, <1>6, <2>1, <3>1
    <3>5. f[i] = IF Place(i, o) < n THEN p[Place(i, o) + 1] ELSE NoFad
      BY <1>2
    <3>. HIDE DEF g
    <3>. QED
      BY <3>2, <3>3, <3>4, <3>5
  <2>. QED
    BY <2>2, <2>3
<1>8. MirrorType(o1, n - 1, g, t) /\ Mirrors(o1, n - 1, g, t)
  <2>1. g \in [Ring -> Fads \cup {NoFad}]
    BY <1>1
  <2>2. n - 1 \in 0 .. Buffers /\ Len(t) <= Buffers /\ n - 1 <= Len(t)
    BY <1>1, <1>4, <1>6
  <2>. HIDE DEF g
  <2>. QED
    BY <1>4, <1>5, <1>7, <2>1, <2>2 DEF MirrorType, Mirrors
<1>. HIDE DEF g
<1>. QED
  BY <1>3, <1>8 DEF Mirrored

\* The drive appends behind the mirror's back.
LEMMA AppendMirrors ==
    ASSUME Mirrored, NEW e \in Fads, Len(partition) < Buffers,
           partition' = Append(partition, e), UNCHANGED pb
    PROVE  Mirrored'
<1>. DEFINE o == stream_pb_offs
            n == stream_pb_count
            f == stream_pb_fad
            p == partition
            q == Append(p, e)
<1>1. /\ o \in Ring /\ n \in 0 .. Buffers /\ f \in [Ring -> Fads \cup {NoFad}]
      /\ p \in Seq(Fads) /\ Len(p) \in Nat /\ Len(p) < Buffers /\ n <= Len(p)
  BY LenProperties, Constants DEF Mirrored, MirrorType, Mirrors
<1>2. \A i \in Ring : f[i] = IF Place(i, o) < n THEN p[Place(i, o) + 1] ELSE NoFad
  BY DEF Mirrored, Mirrors
<1>3. stream_pb_count' = n /\ stream_pb_offs' = o /\ stream_pb_fad' = f /\ partition' = q
  BY DEF pb
<1>. HIDE DEF o, n, f, p
<1>4. q \in Seq(Fads) /\ Len(q) = Len(p) + 1 /\ \A i \in 1 .. Len(p) : q[i] = p[i]
  BY <1>1, AppendProperties
<1>. HIDE DEF q
<1>5. \A i \in Ring : Place(i, o) \in Nat
  BY <1>1, RingPlace
<1>6. \A i \in Ring : Place(i, o) < n => q[Place(i, o) + 1] = p[Place(i, o) + 1]
  <2>1. \A i \in Ring : Place(i, o) < n => Place(i, o) + 1 \in 1 .. Len(p)
    BY <1>1, <1>5, Constants
  <2>. QED
    BY <1>4, <2>1
<1>7. MirrorType(o, n, f, q) /\ Mirrors(o, n, f, q)
  BY SMTT(30), <1>1, <1>2, <1>4, <1>6, Constants DEF MirrorType, Mirrors
<1>. QED
  BY <1>3, <1>7 DEF Mirrored

LEMMA KeepMirrors ==
    ASSUME Mirrored, UNCHANGED <<pb, partition>>
    PROVE  Mirrored'
BY DEF Mirrored, pb

\* find_cdb_buffer() gives the place of the wanted sector in the partition.
LEMMA FetchesIt ==
    ASSUME Mirrored, Matches # {}, stream_pos \in Nat
    PROVE  Cdbn + 1 \in 1 .. Len(partition) /\ partition[Cdbn + 1] = Fad(stream_pos)
<1>1. Matches \subseteq Nat
  BY Constants DEF Matches, Ring
<1>2. \E i \in Matches : \A j \in Matches : i <= j
  BY <1>1, LeastNatural
<1>3. Found \in Matches
  BY <1>2 DEF Found
<1>4. /\ Found \in Ring /\ stream_pb_fad[Found] = Fad(stream_pos)
  BY <1>3 DEF Matches
<1>5. Fad(stream_pos) # NoFad
  <2>1. stream_pos \div SectorSize \in Nat
    BY Constants
  <2>. QED
    BY <2>1 DEF Fad, NoFad
<1>6. stream_pb_offs \in Ring /\ stream_pb_count <= Len(partition) /\ Len(partition) \in Nat
      /\ stream_pb_count \in Nat
  BY LenProperties, Constants DEF Mirrored, MirrorType, Mirrors
<1>7. Cdbn = Place(Found, stream_pb_offs)
  BY <1>4, <1>6, CdbnPlace DEF Cdbn
<1>8. Place(Found, stream_pb_offs) \in Nat
  BY <1>4, <1>6, RingPlace
<1>9. /\ Place(Found, stream_pb_offs) < stream_pb_count
      /\ partition[Place(Found, stream_pb_offs) + 1] = Fad(stream_pos)
  BY <1>4, <1>5, Zenon DEF Mirrored, Mirrors
<1>. QED
  BY <1>6, <1>7, <1>8, <1>9

-----------------------------------------------------------------------------
(* The steps of a read. *)

\* A drive or a command that leaves the stream and its mirror alone.
LEMMA HostKeeps ==
    ASSUME Pending, Aligned, Progress, UNCHANGED <<pc, stream, pb>>
    PROVE  Pending' /\ Aligned' /\ Progress'
BY DEF Pending, Aligned, Progress, stream, pb, Matches

\* An action of the stream that waits on, with the sector still to be found.
LEMMA WaitKeeps ==
    ASSUME Pending, Aligned, Progress, UNCHANGED stream,
           pc \in Waiting, pc' \in Waiting, pc' = "fetch" => Matches' # {}
    PROVE  Pending' /\ Aligned' /\ Progress'
BY DEF Pending, Aligned, Progress, stream, Waiting

\* A read that ends, with all of its bytes or with an error.
LEMMA EndKeeps ==
    ASSUME Aligned, pc' = "idle", Forget,
           UNCHANGED <<stream_pos, stream_buffer, stream_buffer_offs, unfetched>>
    PROVE  Pending' /\ Aligned' /\ Progress'
BY DEF Pending, Aligned, Progress, Forget, Waiting

Offsets == 0 .. 2 * SectorSize - 1

LEMMA ReadKeeps ==
    ASSUME IInv, NEW n \in ReadSizes, Read(n)
    PROVE  /\ Pending' /\ Aligned' /\ Progress'
           /\ stream_pos' \in Positions /\ stream_buffer_offs' \in Offsets /\ unfetched' \in BOOLEAN
<1>. DEFINE t == stream_target_pos
            in == t % SectorSize
<1>1. /\ SectorSize \in Nat \ {0} /\ Far \in Nat /\ n \in Nat \ {0}
      /\ stream_pos \in Positions \cup {Far} /\ stream_buffer_offs \in Offsets
      /\ unfetched \in BOOLEAN
  BY Constants DEF IInv, TypeOK, Offsets
<1>2. t \in Positions /\ t # Far /\ t + n <= Far /\ t \in Nat
  BY <1>1, Constants DEF Read, IInv, TypeOK, Positions, Far
<1>3. stream_pos' = t /\ left' = n /\ dr' = 0 /\ pc' = "copy" /\ stream_target_pos' = t
      /\ stream_buffer' = stream_buffer
  BY DEF Read
<1>4. in \in 0 .. SectorSize - 1 /\ Fad(t) \in Fads
  BY <1>2, InSector
<1>5. in % SectorSize = in /\ (SectorSize + in) % SectorSize = in
  <2>. HIDE DEF in
  <2>1. in % SectorSize = in
    BY <1>1, <1>4, ModSmall
  <2>2. (SectorSize * 1 + in) % SectorSize = in
    BY <1>1, <1>4, DivModUnique
  <2>. QED
    BY <1>1, <2>1, <2>2
<1>6. Fad(t) # Fad(Far)
  BY <1>4, PastTheEnd, Constants DEF Fads
<1>7. \/ stream_pos = t /\ stream_buffer_offs' = stream_buffer_offs /\ unfetched' = unfetched
      \/ /\ stream_pos # t /\ Fad(t) = Fad(stream_pos) /\ stream_buffer_offs' = in
         /\ unfetched' = (unfetched \/ stream_buffer_offs >= SectorSize)
      \/ stream_buffer_offs' = SectorSize + in /\ unfetched' = FALSE
  BY DEF Read
<1>8. Pending' /\ Progress'
  BY <1>1, <1>2, <1>3 DEF Pending, Progress, Waiting
<1>9. stream_pos # Far =>
        /\ stream_buffer_offs % SectorSize = stream_pos % SectorSize
        /\ ~unfetched /\ stream_buffer_offs < SectorSize => stream_buffer = Fad(stream_pos)
  BY DEF IInv, Aligned
<1>. HIDE DEF in
<1>10. stream_buffer_offs' % SectorSize = in
  BY <1>2, <1>5, <1>7, <1>9 DEF in
<1>11. ~unfetched' /\ stream_buffer_offs' < SectorSize => stream_buffer = Fad(t)
  <2>. HIDE DEF t
  <2>1. CASE stream_pos = t /\ stream_buffer_offs' = stream_buffer_offs /\ unfetched' = unfetched
    BY <1>2, <1>9, <2>1
  <2>2. CASE /\ stream_pos # t /\ Fad(t) = Fad(stream_pos)
             /\ unfetched' = (unfetched \/ stream_buffer_offs >= SectorSize)
    <3>1. ~unfetched' => ~unfetched /\ ~(stream_buffer_offs >= SectorSize)
      BY <2>2, Zenon
    <3>2. ~(stream_buffer_offs >= SectorSize) => stream_buffer_offs < SectorSize
      BY <1>1 DEF Offsets
    <3>. QED
      BY <1>6, <1>9, <2>2, <3>1, <3>2
  <2>3. CASE stream_buffer_offs' = SectorSize + in
    BY <1>1, <1>4, <2>3
  <2>. QED
    BY <1>7, <2>1, <2>2, <2>3
<1>12. stream_buffer_offs' \in Offsets
  BY <1>1, <1>4, <1>7 DEF Offsets
<1>13. unfetched' \in BOOLEAN
  BY <1>1, <1>7
<1>14. Aligned'
  BY <1>3, <1>10, <1>11 DEF Aligned, in
<1>. QED
  BY <1>2, <1>3, <1>8, <1>12, <1>13, <1>14

LEMMA CopyKeeps ==
    ASSUME IInv, Copy
    PROVE  /\ Pending' /\ Aligned' /\ Progress'
           /\ stream_pos' \in Positions \cup {Far} /\ stream_buffer_offs' \in Offsets
           /\ left' \in Nat /\ dr' \in Nat
<1>. DEFINE room == SectorSize - stream_buffer_offs
            l == IF left > room THEN room ELSE left
            r == stream_pos % SectorSize
<1>1. /\ SectorSize \in Nat \ {0} /\ Far \in Nat /\ stream_pos + left <= Far /\ left \in Nat \ {0}
      /\ stream_pos \in Nat /\ stream_buffer_offs \in Nat /\ dr \in Nat
      /\ stream_buffer_offs < SectorSize /\ unfetched \in BOOLEAN
      /\ stream_pos = stream_target_pos + dr /\ stream_target_pos \in Nat
  BY Constants DEF Copy, IInv, TypeOK, Pending, Progress, Positions
<1>2. stream_pos \in Positions /\ stream_pos # Far
  BY <1>1 DEF Positions, Far
<1>3. /\ left' = left - l /\ dr' = dr + l /\ stream_pos' = stream_pos + l
      /\ stream_buffer_offs' = stream_buffer_offs + l
      /\ UNCHANGED <<pc, stream_target_pos, stream_buffer, unfetched>> /\ pc = "copy"
  BY DEF Copy
<1>4. l \in Nat /\ l <= left /\ stream_buffer_offs + l <= SectorSize
  BY <1>1
<1>5. stream_buffer_offs = r
  <2>1. stream_buffer_offs % SectorSize = r
    BY <1>2 DEF IInv, Aligned
  <2>2. stream_buffer_offs % SectorSize = stream_buffer_offs
    BY <1>1, ModSmall
  <2>. QED
    BY <2>1, <2>2
<1>6. ~unfetched => stream_buffer = Fad(stream_pos)
  BY <1>1, <1>2 DEF IInv, Aligned
<1>. HIDE DEF room, l
<1>7. /\ r + l < SectorSize =>
            Fad(stream_pos + l) = Fad(stream_pos) /\ (stream_pos + l) % SectorSize = r + l
      /\ r + l = SectorSize => (stream_pos + l) % SectorSize = 0
  BY <1>2, <1>4, <1>5, WithinSector
<1>. HIDE DEF r
<1>8. stream_buffer_offs' % SectorSize = stream_pos' % SectorSize
  <2>1. CASE r + l < SectorSize
    <3>1. (r + l) % SectorSize = r + l
      BY <1>1, <1>4, <1>5, <2>1, ModSmall
    <3>. QED
      BY <1>3, <1>5, <1>7, <2>1, <3>1
  <2>2. CASE r + l = SectorSize
    <3>1. (SectorSize * 1 + 0) % SectorSize = 0
      BY <1>1, DivModUnique
    <3>2. SectorSize % SectorSize = 0
      BY <1>1, <3>1
    <3>. QED
      BY <1>3, <1>5, <1>7, <2>2, <3>2
  <2>. QED
    BY <1>1, <1>4, <1>5, <2>1, <2>2
<1>9. ~unfetched' /\ stream_buffer_offs' < SectorSize => stream_buffer' = Fad(stream_pos')
  BY <1>3, <1>5, <1>6, <1>7
<1>10. Aligned'
  BY <1>8, <1>9 DEF Aligned
<1>11. /\ stream_pos' + left' <= Far /\ stream_pos' = stream_target_pos' + dr'
       /\ left' \in Nat /\ dr' \in Nat /\ stream_pos' \in Nat
  BY <1>1, <1>3, <1>4
<1>12. Pending' /\ Progress'
  BY <1>3, <1>11 DEF Pending, Progress, Waiting
<1>13. stream_pos' \in Positions \cup {Far}
  BY <1>1, <1>11 DEF Positions, Far
<1>14. stream_buffer_offs' \in Offsets
  BY <1>1, <1>3, <1>4 DEF Offsets
<1>. QED
  BY <1>10, <1>11, <1>12, <1>13, <1>14

\* The offset of a sector that is needed again, and of one that is there.
LEMMA OffsetKeeps ==
    ASSUME NEW offs \in Offsets
    PROVE  /\ offs % SectorSize \in 0 .. SectorSize - 1
           /\ (SectorSize + (offs % SectorSize)) % SectorSize = offs % SectorSize
           /\ (offs % SectorSize) % SectorSize = offs % SectorSize
<1>. DEFINE r == offs % SectorSize
<1>1. SectorSize \in Nat \ {0} /\ offs \in Int
  BY Constants DEF Offsets
<1>2. r \in 0 .. SectorSize - 1
  BY <1>1, DivMod
<1>. HIDE DEF r
<1>3. (SectorSize * 1 + r) % SectorSize = r
  BY <1>1, <1>2, DivModUnique
<1>4. (SectorSize + r) % SectorSize = r
  BY <1>1, <1>2, <1>3
<1>5. r % SectorSize = r
  BY <1>1, <1>2, ModSmall
<1>. QED
  BY <1>2, <1>4, <1>5 DEF r

-----------------------------------------------------------------------------
(* The inductive invariant. *)

Pcs == Waiting \cup {"idle", "copy"}

\* The stream's part of the type invariant, and the drive's.
StreamTypes ==
    /\ pc \in Pcs
    /\ stream_target_pos \in Positions \cup {Far}
    /\ stream_pos \in Positions \cup {Far}
    /\ stream_buffer \in Fads \cup {NoFad}
    /\ stream_buffer_offs \in Offsets
    /\ left \in Nat /\ dr \in Nat /\ allow_play \in BOOLEAN /\ unfetched \in BOOLEAN

DriveTypes ==
    /\ drive \in {"pause", "busy", "play", "standby", "error", "open"}
    /\ authed \in BOOLEAN /\ connected \in BOOLEAN

Parts == StreamTypes /\ DriveTypes /\ Mirrored /\ Pending /\ Aligned /\ Progress

LEMMA InParts == IInv <=> Parts
<1>1. TypeOK /\ Mirror <=> StreamTypes /\ DriveTypes /\ Mirrored
  BY MirrorIs DEF TypeOK, StreamTypes, DriveTypes, Mirrored, MirrorType, Pcs, Waiting, Offsets
<1>. QED
  BY <1>1 DEF IInv, Parts

LEMMA InitParts == Init => Parts
<1>. SUFFICES ASSUME Init PROVE Parts
  OBVIOUS
<1>1. Mirrored
  <2>1. << >> \in Seq(Fads) /\ Len(<< >>) <= Buffers
    BY EmptySeq, Constants
  <2>. QED
    BY <2>1, EmptyMirrors DEF Init, Mirrored
<1>2. 0 \in Positions \cup {Far} /\ 0 \in Offsets
  <2>1. Far \in Nat /\ 2 * SectorSize - 1 \in Nat
    BY Constants
  <2>2. Far = 0 \/ 0 \in 0 .. Far - 1
    BY <2>1
  <2>. QED
    BY <2>1, <2>2 DEF Positions, Offsets, Far
<1>3. StreamTypes /\ DriveTypes
  BY <1>2 DEF Init, StreamTypes, DriveTypes, Pcs
<1>4. Pending /\ Aligned /\ Progress
  BY DEF Init, Pending, Aligned, Progress, Waiting
<1>. QED
  BY <1>1, <1>3, <1>4 DEF Parts

\* A step of the drive keeps the mirror if it keeps the partition.
LEMMA DriveKeeps ==
    ASSUME Parts, Host, DriveTypes', Mirrored'
    PROVE  Parts'
<1>1. StreamTypes'
  BY DEF Host, StreamTypes, Parts, stream
<1>2. Pending' /\ Aligned' /\ Progress'
  BY HostKeeps DEF Parts, Host
<1>. QED
  BY <1>1, <1>2 DEF Parts

\* A step of the stream that only looks around.
LEMMA LookKeeps ==
    ASSUME Parts, UNCHANGED stream, pc \in Waiting, pc' \in Waiting,
           pc' = "fetch" => Matches' # {}, allow_play' \in BOOLEAN, DriveTypes', Mirrored'
    PROVE  Parts'
<1>1. StreamTypes'
  BY DEF StreamTypes, Parts, stream, Pcs
<1>2. Pending' /\ Aligned' /\ Progress'
  BY WaitKeeps DEF Parts
<1>. QED
  BY <1>1, <1>2 DEF Parts

LEMMA SeekParts == ASSUME Parts, NEW pos \in Positions, Seek(pos) PROVE Parts'
<1>1. UNCHANGED <<pc, stream_pos, stream_buffer, stream_buffer_offs, left, dr, unfetched,
                  allow_play, pb, block>> /\ stream_target_pos' = pos /\ pc = "idle"
  BY DEF Seek
<1>2. StreamTypes' /\ DriveTypes'
  BY <1>1 DEF Parts, StreamTypes, DriveTypes, block
<1>3. Mirrored'
  BY <1>1, KeepMirrors DEF Parts, block
<1>4. Pending' /\ Aligned' /\ Progress'
  BY <1>1 DEF Parts, Pending, Aligned, Progress, Waiting
<1>. QED
  BY <1>2, <1>3, <1>4 DEF Parts

LEMMA ReadParts == ASSUME Parts, NEW n \in ReadSizes, Read(n) PROVE Parts'
<1>1. /\ Pending' /\ Aligned' /\ Progress'
      /\ stream_pos' \in Positions /\ stream_buffer_offs' \in Offsets /\ unfetched' \in BOOLEAN
  BY InParts, ReadKeeps
<1>2. /\ pc' = "copy" /\ left' = n /\ dr' = 0
      /\ UNCHANGED <<stream_target_pos, stream_buffer, allow_play, pb, block>>
  BY DEF Read
<1>3. n \in Nat
  BY Constants
<1>4. StreamTypes' /\ DriveTypes'
  BY <1>1, <1>2, <1>3 DEF Parts, StreamTypes, DriveTypes, block, Pcs
<1>5. Mirrored'
  BY <1>2, KeepMirrors DEF Parts, block
<1>. QED
  BY <1>1, <1>4, <1>5 DEF Parts

LEMMA CopyParts == ASSUME Parts, Copy PROVE Parts'
<1>1. /\ Pending' /\ Aligned' /\ Progress'
      /\ stream_pos' \in Positions \cup {Far} /\ stream_buffer_offs' \in Offsets
      /\ left' \in Nat /\ dr' \in Nat
  BY InParts, CopyKeeps
<1>2. UNCHANGED <<pc, stream_target_pos, stream_buffer, unfetched, allow_play, pb, block>>
  BY DEF Copy
<1>3. StreamTypes' /\ DriveTypes'
  BY <1>1, <1>2 DEF Parts, StreamTypes, DriveTypes, block
<1>4. Mirrored'
  BY <1>2, KeepMirrors DEF Parts, block
<1>. QED
  BY <1>1, <1>3, <1>4 DEF Parts

LEMMA ReturnParts == ASSUME Parts, Return PROVE Parts'
<1>1. /\ stream_target_pos' = stream_target_pos + dr /\ pc' = "idle" /\ pc = "copy" /\ Forget
      /\ UNCHANGED <<stream_pos, stream_buffer, stream_buffer_offs, unfetched, pb, block>>
  BY DEF Return
<1>2. stream_target_pos' = stream_pos
  BY <1>1 DEF Parts, Progress
<1>3. StreamTypes' /\ DriveTypes'
  BY <1>1, <1>2 DEF Parts, StreamTypes, DriveTypes, block, Pcs, Forget
<1>4. Mirrored'
  BY <1>1, KeepMirrors DEF Parts, block
<1>5. Pending' /\ Aligned' /\ Progress'
  BY <1>1, EndKeeps DEF Parts
<1>. QED
  BY <1>3, <1>4, <1>5 DEF Parts

LEMMA NeedParts == ASSUME Parts, Need PROVE Parts'
<1>1. /\ pc = "copy" /\ left > 0 /\ stream_buffer_offs >= SectorSize
      /\ allow_play' = TRUE /\ pc' = "find"
      /\ UNCHANGED <<stream, drive, head, partition, authed, connected>>
  BY DEF Need
<1>2. Half \in Nat
  BY HalfFits DEF Parts
<1>3. \E k \in 0 .. Half : UpdatePb(k)
  <2>1. Half \in 0 .. Half /\ 0 .. Half - 1 \subseteq 0 .. Half
    BY <1>2
  <2>. QED
    BY <2>1 DEF Need
<1>4. Mirrored'
  BY <1>1, <1>3, UpdateMirrors DEF Parts
<1>5. StreamTypes' /\ DriveTypes'
  BY <1>1 DEF Parts, StreamTypes, DriveTypes, stream, Pcs, Waiting
<1>6. Pending' /\ Aligned' /\ Progress'
  BY <1>1 DEF Parts, Pending, Aligned, Progress, stream, Waiting
<1>. QED
  BY <1>4, <1>5, <1>6 DEF Parts

LEMMA FindParts == ASSUME Parts, Find PROVE Parts'
<1>1. /\ pc = "find" /\ pc' = (IF Matches = {} THEN "prune" ELSE "fetch")
      /\ UNCHANGED <<stream, allow_play, pb, block>>
  BY DEF Find
<1>2. Mirrored'
  BY <1>1, KeepMirrors DEF Parts, block
<1>3. Matches' = Matches
  BY <1>1 DEF Matches, stream, pb
<1>4. allow_play' \in BOOLEAN /\ DriveTypes'
  BY <1>1 DEF Parts, StreamTypes, DriveTypes, block
<1>5. pc \in Waiting /\ pc' \in Waiting /\ (pc' = "fetch" => Matches' # {})
  BY <1>1, <1>3 DEF Waiting
<1>. QED
  BY <1>1, <1>2, <1>4, <1>5, LookKeeps

LEMMA PruneParts == ASSUME Parts, Prune PROVE Parts'
<1>1. /\ pc = "prune" /\ pc' \in {"prune", "update"}
      /\ UNCHANGED <<stream, allow_play, drive, head, authed, connected, troubles>>
  BY DEF Prune
<1>2. Mirrored'
  <2>1. CASE stream_pb_count > Keep
    BY <2>1, PruneMirrors DEF Parts, Prune
  <2>2. CASE ~(stream_pb_count > Keep)
    BY <2>2, KeepMirrors DEF Parts, Prune
  <2>. QED
    BY <2>1, <2>2
<1>3. allow_play' \in BOOLEAN /\ DriveTypes'
  BY <1>1 DEF Parts, StreamTypes, DriveTypes
<1>4. pc \in Waiting /\ pc' \in Waiting /\ pc' # "fetch"
  BY <1>1 DEF Waiting
<1>. QED
  BY <1>1, <1>2, <1>3, <1>4, LookKeeps

LEMMA RefreshParts == ASSUME Parts, Refresh PROVE Parts'
<1>1. pc = "update" /\ pc' = "status" /\ UpdatePb(Half) /\ UNCHANGED <<stream, allow_play, block>>
  BY DEF Refresh
<1>2. Half \in 0 .. Half
  <2>1. Half \in Nat
    BY HalfFits DEF Parts
  <2>. QED
    BY <2>1
<1>3. Mirrored'
  BY <1>1, <1>2, UpdateMirrors DEF Parts, block
<1>4. allow_play' \in BOOLEAN /\ DriveTypes'
  BY <1>1 DEF Parts, StreamTypes, DriveTypes, block
<1>5. pc \in Waiting /\ pc' \in Waiting /\ pc' # "fetch"
  BY <1>1 DEF Waiting
<1>. QED
  BY <1>1, <1>3, <1>4, <1>5, LookKeeps

LEMMA StatusParts == ASSUME Parts, Status \/ Auth PROVE Parts'
<1>1. /\ pc \in {"status", "auth"} /\ pc' \in {"auth", "find", "play"}
      /\ UNCHANGED <<stream, allow_play, pb, block>>
  BY DEF Status, Auth
<1>2. Mirrored'
  BY <1>1, KeepMirrors DEF Parts, block
<1>3. allow_play' \in BOOLEAN /\ DriveTypes'
  BY <1>1 DEF Parts, StreamTypes, DriveTypes, block
<1>4. pc \in Waiting /\ pc' \in Waiting /\ pc' # "fetch"
  BY <1>1 DEF Waiting
<1>. QED
  BY <1>1, <1>2, <1>3, <1>4, LookKeeps

LEMMA PlayParts == ASSUME Parts, Play PROVE Parts'
<1>1. /\ pc = "play" /\ pc' = "find" /\ allow_play' \in {allow_play, FALSE}
      /\ drive' \in {drive, "busy"}
      /\ UNCHANGED <<stream, pb, partition, authed, connected, troubles>>
  BY DEF Play
<1>2. Mirrored'
  BY <1>1, KeepMirrors DEF Parts
<1>3. allow_play' \in BOOLEAN /\ DriveTypes'
  BY <1>1 DEF Parts, StreamTypes, DriveTypes
<1>4. pc \in Waiting /\ pc' \in Waiting /\ pc' # "fetch"
  BY <1>1 DEF Waiting
<1>. QED
  BY <1>1, <1>2, <1>3, <1>4, LookKeeps

LEMMA AuthFailsParts == ASSUME Parts, AuthFails PROVE Parts'
<1>1. /\ pc' = "idle" /\ Forget
      /\ UNCHANGED <<stream_target_pos, stream_pos, stream_buffer, stream_buffer_offs,
                     unfetched, pb, block>>
  BY DEF AuthFails
<1>2. Mirrored'
  BY <1>1, KeepMirrors DEF Parts, block
<1>3. StreamTypes' /\ DriveTypes'
  BY <1>1 DEF Parts, StreamTypes, DriveTypes, block, Pcs, Forget
<1>4. Pending' /\ Aligned' /\ Progress'
  BY <1>1, EndKeeps DEF Parts
<1>. QED
  BY <1>2, <1>3, <1>4 DEF Parts

LEMMA FailParts == ASSUME Parts, Fail PROVE Parts'
<1>1. /\ pc' = "idle" /\ Forget
      /\ UNCHANGED <<stream_target_pos, stream_pos, stream_buffer, stream_buffer_offs,
                     unfetched, drive, head, partition, authed, connected>>
      /\ UNCHANGED pb \/ \E k \in 0 .. Half : UpdatePb(k)
  BY DEF Fail
<1>2. Mirrored'
  BY <1>1, KeepMirrors, UpdateMirrors DEF Parts
<1>3. StreamTypes' /\ DriveTypes'
  BY <1>1 DEF Parts, StreamTypes, DriveTypes, Pcs, Forget
<1>4. Pending' /\ Aligned' /\ Progress'
  BY <1>1, EndKeeps DEF Parts
<1>. QED
  BY <1>2, <1>3, <1>4 DEF Parts

LEMMA ReinitParts == ASSUME Parts, Reinit PROVE Parts'
<1>1. /\ pc = "auth" /\ pc' = "copy" /\ authed' = TRUE /\ allow_play' = TRUE
      /\ stream_buffer_offs' = SectorSize + (stream_buffer_offs % SectorSize)
      /\ stream_pb_offs' = 0 /\ stream_pb_count' = 0 /\ stream_pb_fad' = EmptyMirror
      /\ UNCHANGED <<stream_target_pos, stream_pos, stream_buffer, left, dr, unfetched>>
  BY DEF Reinit, ReinitOffs
<1>2. /\ connected' \in BOOLEAN /\ drive' \in {drive, "pause"} /\ partition' \in {partition, << >>}
  BY DEF Reinit, Parts, DriveTypes
<1>3. Mirrored'
  <2>1. partition' \in Seq(Fads) /\ Len(partition') <= Buffers
    <3>1. << >> \in Seq(Fads) /\ Len(<< >>) <= Buffers
      BY EmptySeq, Constants
    <3>2. partition \in Seq(Fads) /\ Len(partition) <= Buffers
      BY DEF Parts, Mirrored, MirrorType
    <3>. QED
      BY <1>2, <3>1, <3>2, Zenon
  <2>. QED
    BY <1>1, <2>1, EmptyMirrors DEF Mirrored
<1>4. /\ stream_buffer_offs' \in Offsets /\ stream_buffer_offs' >= SectorSize
      /\ stream_buffer_offs' % SectorSize = stream_buffer_offs % SectorSize
  <2>1. /\ stream_buffer_offs % SectorSize \in 0 .. SectorSize - 1
        /\ (SectorSize + (stream_buffer_offs % SectorSize)) % SectorSize
              = stream_buffer_offs % SectorSize
    BY OffsetKeeps DEF Parts, StreamTypes
  <2>2. \A r \in 0 .. SectorSize - 1 : SectorSize + r \in Offsets /\ SectorSize + r >= SectorSize
    BY Constants DEF Offsets
  <2>. QED
    BY <1>1, <2>1, <2>2
<1>5. StreamTypes' /\ DriveTypes'
  BY <1>1, <1>2, <1>4 DEF Parts, StreamTypes, DriveTypes, Pcs
<1>6. stream_buffer_offs' < SectorSize => FALSE
  BY <1>4, Constants DEF Offsets
<1>7. Pending' /\ Aligned' /\ Progress'
  BY <1>1, <1>4, <1>6 DEF Parts, Pending, Aligned, Progress, Waiting
<1>. QED
  BY <1>3, <1>5, <1>7 DEF Parts

LEMMA FetchParts == ASSUME Parts, Fetch PROVE Parts'
<1>1. /\ pc = "fetch" /\ pc' = "copy" /\ allow_play' = TRUE /\ unfetched' = FALSE
      /\ stream_buffer' = partition[Cdbn + 1]
      /\ stream_buffer_offs' = stream_buffer_offs % SectorSize
      /\ UNCHANGED <<stream_target_pos, stream_pos, left, dr, pb, block>>
  BY DEF Fetch
<1>2. stream_pos \in Nat
  BY Constants DEF Parts, StreamTypes, Positions
<1>3. Cdbn + 1 \in 1 .. Len(partition) /\ partition[Cdbn + 1] = Fad(stream_pos)
  <2>1. Matches # {} /\ Mirrored
    BY <1>1 DEF Parts, Pending
  <2>. QED
    BY <1>2, <2>1, FetchesIt
<1>4. stream_buffer' \in Fads
  BY <1>1, <1>3, ElementOfSeq DEF Parts, Mirrored, MirrorType
<1>5. /\ stream_buffer_offs' \in Offsets
      /\ stream_buffer_offs' % SectorSize = stream_buffer_offs % SectorSize
  <2>1. /\ stream_buffer_offs % SectorSize \in 0 .. SectorSize - 1
        /\ (stream_buffer_offs % SectorSize) % SectorSize = stream_buffer_offs % SectorSize
    BY OffsetKeeps DEF Parts, StreamTypes
  <2>2. \A r \in 0 .. SectorSize - 1 : r \in Offsets
    BY Constants DEF Offsets
  <2>. QED
    BY <1>1, <2>1, <2>2
<1>6. Mirrored'
  BY <1>1, KeepMirrors DEF Parts, block
<1>7. StreamTypes' /\ DriveTypes'
  BY <1>1, <1>4, <1>5 DEF Parts, StreamTypes, DriveTypes, block, Pcs
<1>8. Pending' /\ Aligned' /\ Progress'
  BY <1>1, <1>3, <1>5 DEF Parts, Pending, Aligned, Progress, Waiting
<1>. QED
  BY <1>6, <1>7, <1>8 DEF Parts

LEMMA DeliverParts == ASSUME Parts, Deliver PROVE Parts'
<1>1. /\ head \in Fads /\ (connected => Len(partition) < Buffers)
      /\ partition' = IF connected THEN Append(partition, head) ELSE partition
      /\ drive' \in {"pause", "play"} /\ UNCHANGED <<authed, connected>> /\ Host
  BY DEF Deliver
<1>2. DriveTypes'
  BY <1>1 DEF Parts, DriveTypes
<1>3. UNCHANGED pb
  BY <1>1 DEF Host
<1>4. Mirrored'
  <2>1. CASE connected
    <3>1. partition' = Append(partition, head) /\ Len(partition) < Buffers
      BY <1>1, <2>1, Zenon
    <3>2. Mirrored /\ head \in Fads
      BY <1>1 DEF Parts
    <3>. QED
      BY <1>3, <3>1, <3>2, AppendMirrors, Zenon
  <2>2. CASE ~connected
    BY <1>1, <1>3, <2>2, KeepMirrors DEF Parts
  <2>. QED
    BY <2>1, <2>2
<1>. QED
  BY <1>1, <1>2, <1>4, DriveKeeps

LEMMA DriveParts == ASSUME Parts, Spin \/ Resume \/ Trouble \/ CloseLid PROVE Parts'
<1>1. Host /\ UNCHANGED <<partition, connected>>
  BY DEF Spin, Resume, Trouble, CloseLid
<1>2. DriveTypes'
  BY <1>1 DEF Spin, Resume, Trouble, CloseLid, Parts, DriveTypes
<1>3. Mirrored'
  BY <1>1, KeepMirrors DEF Parts, Host
<1>. QED
  BY <1>1, <1>2, <1>3, DriveKeeps

LEMMA NextParts == Parts /\ [Next]_vars => Parts'
<1>. SUFFICES ASSUME Parts, [Next]_vars PROVE Parts'
  OBVIOUS
<1>1. CASE \E pos \in Positions : Seek(pos)
  BY <1>1, SeekParts
<1>2. CASE \E n \in ReadSizes : Read(n)
  BY <1>2, ReadParts
<1>3. CASE StreamStep
  BY <1>3, CopyParts, ReturnParts, NeedParts, FindParts, PruneParts, RefreshParts,
     StatusParts, AuthFailsParts, ReinitParts, PlayParts, FetchParts DEF StreamStep
<1>4. CASE Fail
  BY <1>4, FailParts
<1>5. CASE DriveStep \/ Resume \/ Trouble
  BY <1>5, DeliverParts, DriveParts DEF DriveStep
<1>6. CASE UNCHANGED vars
  <2>1. StreamTypes' /\ DriveTypes'
    BY <1>6 DEF vars, stream, block, Parts, StreamTypes, DriveTypes
  <2>2. Mirrored'
    BY <1>6, KeepMirrors DEF vars, block, Parts
  <2>3. Pending' /\ Aligned' /\ Progress'
    BY <1>6, HostKeeps DEF vars, Parts
  <2>. QED
    BY <2>1, <2>2, <2>3 DEF Parts
<1>. QED
  BY <1>1, <1>2, <1>3, <1>4, <1>5, <1>6 DEF Next

THEOREM Inductive == Spec => []IInv
<1>1. Init => IInv
  BY InitParts, InParts
<1>2. IInv /\ [Next]_vars => IInv'
  <2>1. Parts' => IInv'
    BY InParts, PTL
  <2>. QED
    BY <2>1, NextParts, InParts
<1>. QED
  BY <1>1, <1>2, PTL DEF Spec

\* The positions, the mirror, the partition and the drive stay in their ranges.
THEOREM Types == Spec => []TypeOK
<1>1. IInv => TypeOK
  BY DEF IInv
<1>. QED
  BY <1>1, Inductive, PTL

\* The ring stream_pb_fad holds the addresses of the partition's oldest sectors.
THEOREM MirrorAlways == Spec => []Mirror
<1>1. IInv => Mirror
  BY DEF IInv
<1>. QED
  BY <1>1, Inductive, PTL

\* The bytes a read copies are those of the sector it is at, unless a seek went to
\* another byte of a sector that was still to be fetched.
THEOREM RightBytes == Spec => []SectorRightInside
<1>1. IInv => SectorRightInside
  <2>. SUFFICES ASSUME IInv, ~unfetched, pc = "copy", left > 0, stream_buffer_offs < SectorSize
                PROVE  stream_buffer = Fad(stream_pos) /\ stream_buffer_offs = stream_pos % SectorSize
    BY DEF SectorRightInside, SectorRight
  <2>1. stream_pos # Far
    <3>1. stream_pos + left <= Far /\ left \in Nat /\ Far \in Nat
      BY Constants DEF IInv, Pending, TypeOK
    <3>. QED
      BY <3>1
  <2>2. stream_buffer_offs % SectorSize = stream_buffer_offs
    <3>1. stream_buffer_offs \in 0 .. SectorSize - 1
      BY Constants DEF IInv, TypeOK
    <3>. QED
      BY <3>1, Constants, ModSmall
  <2>. QED
    BY <2>1, <2>2 DEF IInv, Aligned
<1>. QED
  BY <1>1, Inductive, PTL
=============================================================================
