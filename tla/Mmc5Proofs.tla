----------------------------- MODULE Mmc5Proofs -----------------------------
(***************************************************************************)
(* What is proved of Mmc5Shadow, for every divider, frame length, table of *)
(* lengths and however far the slave is behind: the types, FramesInStep    *)
(* and StatusIsHeard.  Neither says anything while commands are queued, so *)
(* the inductive invariant has to: there is a master for every command     *)
(* that the slave still has to read, the one that sent it, and the slave   *)
(* is abreast of the oldest of them: ticks of one of the two make them     *)
(* agree.  Acting on a command keeps them abreast because both stand at    *)
(* the same half frame then, which the times of the queue show.            *)
(***************************************************************************)
EXTENDS Mmc5Shadow, NatFacts, SequenceTheorems

Masters == [div : Nat, alt : BOOLEAN, halt : SUBSET Pulses, lc : [Pulses -> Nat],
            status : SUBSET Pulses, en : SUBSET Pulses]
Slaves == [div : Nat, alt : BOOLEAN, halt : SUBSET Pulses, lc : [Pulses -> Nat],
           en : SUBSET Pulses]
Commands == [ts : Nat, cmd : Accesses \cup {Frame, Update}
                                \cup {Compare(w, n) : w \in Pulses, n \in Nat}]

\* The commands that change something but the time.
Real == (Accesses \ {Read}) \cup {Frame}

MTick == [c \in Masters |-> MasterTick(c)]
STick == [d \in Slaves |-> SlaveTick(d)]

\* The half frame a unit is in has begun, and not ended, at time t.
Before(c) == c.div - Reload - (IF c.alt THEN 0 ELSE 1)
Settled(c, t) == Before(c) <= t /\ t < c.div

\* The slave hears what the master's status says.
Agree(c, d) ==
    /\ c.div = d.div /\ c.alt = d.alt /\ c.halt = d.halt /\ c.en = d.en
    /\ \A w \in Pulses : /\ w \in c.status <=> d.lc[w] > 0
                         /\ w \in c.status => c.lc[w] = d.lc[w]

\* They do after some more half frames of one of them.
Abreast(c, d) ==
    \/ \E x \in Orbit(MTick, c) : Agree(x, d)
    \/ \E y \in Orbit(STick, d) : Agree(c, y)

\* The master that sends x becomes b: MasterAccess(), and half frames after it.
Acted(c, a, t) ==
    CASE a.reg = "env" ->
           [c EXCEPT !.halt = IF a.halt THEN @ \cup {a.w} ELSE @ \ {a.w}]
      [] a.reg = "len" /\ a.w \in c.en ->
           [c EXCEPT !.lc[a.w] = a.len, !.status = @ \cup {a.w}]
      [] a.reg = "status" -> [c EXCEPT !.en = a.on, !.status = @ \cap a.on]
      [] a.reg = "frame" -> [c EXCEPT !.div = @ - t]
      [] OTHER -> c

\* SlaveAct() of any slave.
Heeded(d, a, t) ==
    CASE a.reg = "env" ->
           [d EXCEPT !.halt = IF a.halt THEN @ \cup {a.w} ELSE @ \ {a.w}]
      [] a.reg = "len" /\ a.w \in d.en -> [d EXCEPT !.lc[a.w] = a.len]
      [] a.reg = "status" ->
           [d EXCEPT !.lc = [w \in Pulses |-> IF w \in a.on THEN @[w] ELSE 0],
                     !.en = a.on]
      [] a.reg = "frame" -> [d EXCEPT !.div = @ - t]
      [] OTHER -> d

Link(c, x, b) ==
    /\ x.cmd \in Real => Settled(c, x.ts)
    /\ b \in Orbit(MTick, Acted(c, x.cmd, x.ts))

\* M is the chain of masters from the one the slave d is abreast of to c.
Chain(M, q, c, d) ==
    /\ M \in [1 .. Len(q) + 1 -> Masters]
    /\ M[Len(q) + 1] = c
    /\ Abreast(M[1], d)
    /\ \A i \in 1 .. Len(q) : Link(M[i], q[i], M[i + 1])

Linked(q, c, d) == \E M : Chain(M, q, c, d)

\* The times of a frame's commands rise, and the slave is not ahead of them.
After(q, i, t) == IF i = Len(q) THEN t ELSE q[i + 1].ts

Timed(q, t, d) ==
    /\ Before(d) <= After(q, 0, t)
    /\ \A i \in 1 .. Len(q) : q[i].cmd = Frame \/ q[i].ts <= After(q, i, t)

Typed ==
    /\ now \in Nat /\ m \in Masters /\ s \in Slaves
    /\ pending \in Accesses \cup {None, Frame} /\ updated \in BOOLEAN
    /\ queue \in Seq(Commands) /\ aborted \in BOOLEAN

IInv ==
    /\ Typed
    /\ Before(m) <= now /\ m.div > 0 /\ s.div > 0
    /\ Linked(queue, m, s)
    /\ Timed(queue, now, s)

-----------------------------------------------------------------------------
(* Half frames. *)

LEMMA Constants ==
    Reload \in Nat \ {0} /\ FrameLengths \subseteq Nat \ {0} /\ Lengths \subseteq Nat \ {0}
BY ConstantsAssumption

LEMMA MTickType ==
    ASSUME NEW c \in Masters
    PROVE  /\ MasterTick(c) \in Masters /\ Before(MasterTick(c)) = c.div
           /\ MasterTick(c).div > c.div
<1>. DEFINE lc == [w \in Pulses |-> IF w \notin c.halt /\ c.lc[w] > 0 THEN c.lc[w] - 1 ELSE c.lc[w]]
            st == {w \in c.status : w \in c.halt \/ c.lc[w] = 0 \/ lc[w] > 0}
            dv == c.div + Reload + (IF c.alt THEN 1 ELSE 0)
            alt == ~c.alt
            r == MasterTick(c)
<1>1. r = [c EXCEPT !.lc = lc, !.status = st, !.div = dv, !.alt = alt]
  BY DEF MasterTick
<1>2. c.div \in Nat /\ c.alt \in BOOLEAN /\ c.lc \in [Pulses -> Nat]
  BY DEF Masters
<1>3. lc \in [Pulses -> Nat]
  BY <1>2
<1>4. dv \in Nat
  BY <1>2, Constants
<1>5. alt \in BOOLEAN /\ (c.alt => alt = FALSE) /\ (~c.alt => alt = TRUE)
  BY <1>2, Zenon
<1>6. st \in SUBSET Pulses
  BY DEF Masters
<1>. HIDE DEF lc, st, alt, r
<1>7. r \in Masters /\ r.div = dv /\ r.alt = alt
  <2>. HIDE DEF dv
  <2>. QED
    BY <1>1, <1>3, <1>4, <1>5, <1>6 DEF Masters
<1>8. CASE c.alt
  <2>1. dv = c.div + Reload + 1 /\ alt = FALSE
    BY <1>2, <1>5, <1>8
  <2>. QED
    BY <1>2, <1>7, <2>1, Constants DEF Before, r
<1>9. CASE ~c.alt
  <2>1. dv = c.div + Reload /\ alt = TRUE
    BY <1>2, <1>5, <1>9, Constants
  <2>. QED
    BY <1>2, <1>7, <2>1, Constants DEF Before, r
<1>. QED
  BY <1>2, <1>8, <1>9

LEMMA STickType ==
    ASSUME NEW c \in Slaves
    PROVE  /\ SlaveTick(c) \in Slaves /\ Before(SlaveTick(c)) = c.div
           /\ SlaveTick(c).div > c.div
<1>. DEFINE lc == [w \in Pulses |-> IF w \notin c.halt /\ c.lc[w] > 0 THEN c.lc[w] - 1 ELSE c.lc[w]]
            dv == c.div + Reload + (IF c.alt THEN 1 ELSE 0)
            alt == ~c.alt
            r == SlaveTick(c)
<1>1. r = [c EXCEPT !.lc = lc, !.div = dv, !.alt = alt]
  BY DEF SlaveTick
<1>2. c.div \in Nat /\ c.alt \in BOOLEAN /\ c.lc \in [Pulses -> Nat]
  BY DEF Slaves
<1>3. lc \in [Pulses -> Nat]
  BY <1>2
<1>4. dv \in Nat
  BY <1>2, Constants
<1>5. alt \in BOOLEAN /\ (c.alt => alt = FALSE) /\ (~c.alt => alt = TRUE)
  BY <1>2, Zenon
<1>. HIDE DEF lc, alt, r
<1>7. r \in Slaves /\ r.div = dv /\ r.alt = alt
  <2>. HIDE DEF dv
  <2>. QED
    BY <1>1, <1>3, <1>4, <1>5 DEF Slaves
<1>8. CASE c.alt
  <2>1. dv = c.div + Reload + 1 /\ alt = FALSE
    BY <1>2, <1>5, <1>8
  <2>. QED
    BY <1>2, <1>7, <2>1, Constants DEF Before, r
<1>9. CASE ~c.alt
  <2>1. dv = c.div + Reload /\ alt = TRUE
    BY <1>2, <1>5, <1>9, Constants
  <2>. QED
    BY <1>2, <1>7, <2>1, Constants DEF Before, r
<1>. QED
  BY <1>2, <1>8, <1>9

LEMMA BeforeInt ==
    ASSUME NEW c \in Masters \cup Slaves
    PROVE  Before(c) \in Int /\ Before(c) < c.div /\ c.div \in Nat
<1>1. c.div \in Nat
  BY DEF Masters, Slaves
<1>. QED
  BY <1>1, Constants DEF Before

LEMMA Steps ==
    MTick \in [Masters -> Masters] /\ STick \in [Slaves -> Slaves]
BY MTickType, STickType DEF MTick, STick

\* Another half frame of both keeps them agreed.
LEMMA TickAgrees ==
    ASSUME NEW c \in Masters, NEW d \in Slaves, Agree(c, d)
    PROVE  Agree(MasterTick(c), SlaveTick(d))
<1>. DEFINE mlc == [w \in Pulses |-> IF w \notin c.halt /\ c.lc[w] > 0 THEN c.lc[w] - 1 ELSE c.lc[w]]
            slc == [w \in Pulses |-> IF w \notin d.halt /\ d.lc[w] > 0 THEN d.lc[w] - 1 ELSE d.lc[w]]
            st == {w \in c.status : w \in c.halt \/ c.lc[w] = 0 \/ mlc[w] > 0}
            mt == MasterTick(c)
            sl == SlaveTick(d)
<1>1. /\ mt.div = c.div + Reload + (IF c.alt THEN 1 ELSE 0) /\ mt.alt = ~c.alt
      /\ mt.halt = c.halt /\ mt.en = c.en /\ mt.lc = mlc /\ mt.status = st
  BY DEF Masters, MasterTick
<1>2. /\ sl.div = d.div + Reload + (IF d.alt THEN 1 ELSE 0) /\ sl.alt = ~d.alt
      /\ sl.halt = d.halt /\ sl.en = d.en /\ sl.lc = slc
  BY DEF Slaves, SlaveTick
<1>. HIDE DEF mt, sl
<1>3. c.lc \in [Pulses -> Nat] /\ d.lc \in [Pulses -> Nat] /\ c.status \subseteq Pulses
  BY DEF Masters, Slaves
<1>4. ASSUME NEW w \in Pulses
      PROVE  (w \in st <=> slc[w] > 0) /\ (w \in st => mlc[w] = slc[w])
  BY <1>3 DEF Agree
<1>. HIDE DEF st, mlc, slc
<1>5. /\ mt.div = sl.div /\ mt.alt = sl.alt /\ mt.halt = sl.halt /\ mt.en = sl.en
  BY <1>1, <1>2 DEF Agree
<1>6. Agree(mt, sl)
  BY <1>1, <1>2, <1>4, <1>5 DEF Agree
<1>. QED
  BY <1>6 DEF mt, sl

\* Of what half frames reach, only the unit itself is still in its half frame.
LEMMA MasterLater ==
    ASSUME NEW c \in Masters, NEW x \in Orbit(MTick, c)
    PROVE  x \in Masters /\ (x = c \/ Before(x) >= c.div)
<1>. DEFINE S == {y \in Masters : y = c \/ Before(y) >= c.div}
<1>1. ASSUME NEW y \in S PROVE MTick[y] \in S
  <2>1. MTick[y] \in Masters /\ Before(MTick[y]) = y.div /\ y.div \in Nat
    BY MTickType DEF MTick, Masters
  <2>2. y.div >= c.div
    BY <2>1, BeforeInt
  <2>. QED
    BY <2>1, <2>2
<1>2. S \in SUBSET Masters /\ c \in S
  OBVIOUS
<1>. HIDE DEF S
<1>3. Orbit(MTick, c) \subseteq S
  BY <1>1, <1>2, Steps, OrbitWithin
<1>. QED
  BY <1>3 DEF S

LEMMA SlaveLater ==
    ASSUME NEW d \in Slaves, NEW x \in Orbit(STick, d)
    PROVE  x \in Slaves /\ (x = d \/ Before(x) >= d.div)
<1>. DEFINE S == {y \in Slaves : y = d \/ Before(y) >= d.div}
<1>1. ASSUME NEW y \in S PROVE STick[y] \in S
  <2>1. STick[y] \in Slaves /\ Before(STick[y]) = y.div /\ y.div \in Nat
    BY STickType DEF STick, Slaves
  <2>2. y.div >= d.div
    BY <2>1, BeforeInt
  <2>. QED
    BY <2>1, <2>2
<1>2. S \in SUBSET Slaves /\ d \in S
  OBVIOUS
<1>. HIDE DEF S
<1>3. Orbit(STick, d) \subseteq S
  BY <1>1, <1>2, Steps, OrbitWithin
<1>. QED
  BY <1>3 DEF S

-----------------------------------------------------------------------------
(* Abreast. *)

\* Two that agree are in the same half frame.
LEMMA AgreeBefore ==
    ASSUME NEW c, NEW d, Agree(c, d)
    PROVE  Before(c) = Before(d) /\ c.div = d.div
BY DEF Agree, Before

\* At a time when neither has more to count they agree.
LEMMA SettledAgree ==
    ASSUME NEW c \in Masters, NEW d \in Slaves, Abreast(c, d), NEW t \in Nat,
           Settled(c, t), Settled(d, t)
    PROVE  Agree(c, d)
<1>1. CASE \E x \in Orbit(MTick, c) : Agree(x, d)
  <2>1. PICK x \in Orbit(MTick, c) : Agree(x, d)
    BY <1>1
  <2>2. x \in Masters /\ (x = c \/ Before(x) >= c.div)
    BY MasterLater
  <2>3. Before(x) = Before(d)
    BY <2>1, AgreeBefore
  <2>4. Before(x) <= t /\ t < c.div /\ Before(x) \in Int /\ c.div \in Nat
    BY <2>2, <2>3, BeforeInt DEF Settled
  <2>. QED
    BY <2>1, <2>2, <2>4
<1>2. CASE \E y \in Orbit(STick, d) : Agree(c, y)
  <2>1. PICK y \in Orbit(STick, d) : Agree(c, y)
    BY <1>2
  <2>2. y \in Slaves /\ (y = d \/ Before(y) >= d.div)
    BY SlaveLater
  <2>3. Before(c) = Before(y)
    BY <2>1, AgreeBefore
  <2>4. Before(y) <= t /\ t < d.div /\ Before(y) \in Int /\ d.div \in Nat
    BY <2>2, <2>3, BeforeInt DEF Settled
  <2>. QED
    BY <2>1, <2>2, <2>4
<1>. QED
  BY <1>1, <1>2 DEF Abreast

\* And so they do when both await the same half frame.
LEMMA SameAgree ==
    ASSUME NEW c \in Masters, NEW d \in Slaves, Abreast(c, d), c.div = d.div
    PROVE  Agree(c, d)
<1>1. CASE \E x \in Orbit(MTick, c) : Agree(x, d)
  <2>1. PICK x \in Orbit(MTick, c) : Agree(x, d)
    BY <1>1
  <2>2. x \in Masters /\ (x = c \/ Before(x) >= c.div)
    BY MasterLater
  <2>3. x.div = d.div
    BY <2>1, AgreeBefore
  <2>4. Before(x) < x.div /\ Before(x) \in Int /\ x.div \in Nat
    BY <2>2, BeforeInt
  <2>. QED
    BY <2>1, <2>2, <2>3, <2>4
<1>2. CASE \E y \in Orbit(STick, d) : Agree(c, y)
  <2>1. PICK y \in Orbit(STick, d) : Agree(c, y)
    BY <1>2
  <2>2. y \in Slaves /\ (y = d \/ Before(y) >= d.div)
    BY SlaveLater
  <2>3. c.div = y.div
    BY <2>1, AgreeBefore
  <2>4. Before(y) < y.div /\ Before(y) \in Int /\ y.div \in Nat
    BY <2>2, BeforeInt
  <2>. QED
    BY <2>1, <2>2, <2>3, <2>4
<1>. QED
  BY <1>1, <1>2 DEF Abreast

LEMMA AgreeAbreast ==
    ASSUME NEW c \in Masters, NEW d \in Slaves, Agree(c, d)
    PROVE  Abreast(c, d)
BY Steps, OrbitStart DEF Abreast

LEMMA MasterTickAbreast ==
    ASSUME NEW c \in Masters, NEW d \in Slaves, Abreast(c, d)
    PROVE  Abreast(MTick[c], d)
<1>1. CASE \E x \in Orbit(MTick, c) : Agree(x, d)
  <2>1. PICK x \in Orbit(MTick, c) : Agree(x, d)
    BY <1>1
  <2>2. x = c \/ x \in Orbit(MTick, MTick[c])
    BY Steps, OrbitNext
  <2>3. CASE x = c
    <3>1. Agree(MTick[c], STick[d])
      BY <2>1, <2>3, TickAgrees DEF MTick, STick
    <3>2. STick[d] \in Orbit(STick, d)
      BY Steps, OrbitStart, OrbitStep
    <3>. QED
      BY <3>1, <3>2 DEF Abreast
  <2>. QED
    BY <2>1, <2>2, <2>3 DEF Abreast
<1>2. CASE \E y \in Orbit(STick, d) : Agree(c, y)
  <2>1. PICK y \in Orbit(STick, d) : Agree(c, y)
    BY <1>2
  <2>2. y \in Slaves /\ STick[y] \in Orbit(STick, d)
    BY Steps, OrbitStep
  <2>3. Agree(MTick[c], STick[y])
    BY <2>1, <2>2, TickAgrees DEF MTick, STick
  <2>. QED
    BY <2>2, <2>3 DEF Abreast
<1>. QED
  BY <1>1, <1>2 DEF Abreast

LEMMA SlaveTickAbreast ==
    ASSUME NEW c \in Masters, NEW d \in Slaves, Abreast(c, d)
    PROVE  Abreast(c, STick[d])
<1>1. CASE \E x \in Orbit(STick, d) : Agree(c, x)
  <2>1. PICK x \in Orbit(STick, d) : Agree(c, x)
    BY <1>1
  <2>2. x = d \/ x \in Orbit(STick, STick[d])
    BY Steps, OrbitNext
  <2>3. CASE x = d
    <3>1. Agree(MTick[c], STick[d])
      BY <2>1, <2>3, TickAgrees DEF MTick, STick
    <3>2. MTick[c] \in Orbit(MTick, c)
      BY Steps, OrbitStart, OrbitStep
    <3>. QED
      BY <3>1, <3>2 DEF Abreast
  <2>. QED
    BY <2>1, <2>2, <2>3 DEF Abreast
<1>2. CASE \E y \in Orbit(MTick, c) : Agree(y, d)
  <2>1. PICK y \in Orbit(MTick, c) : Agree(y, d)
    BY <1>2
  <2>2. y \in Masters /\ MTick[y] \in Orbit(MTick, c)
    BY Steps, OrbitStep
  <2>3. Agree(MTick[y], STick[d])
    BY <2>1, <2>2, TickAgrees DEF MTick, STick
  <2>. QED
    BY <2>2, <2>3 DEF Abreast
<1>. QED
  BY <1>1, <1>2 DEF Abreast

LEMMA OrbitAbreast ==
    ASSUME NEW c \in Masters, NEW d \in Slaves, Abreast(c, d), NEW x \in Orbit(MTick, c)
    PROVE  Abreast(x, d)
<1>. DEFINE S == {y \in Masters : Abreast(y, d)}
<1>1. S \in SUBSET Masters /\ c \in S /\ \A y \in S : MTick[y] \in S
  BY Steps, MasterTickAbreast
<1>. HIDE DEF S
<1>2. Orbit(MTick, c) \subseteq S
  BY <1>1, Steps, OrbitWithin
<1>. QED
  BY <1>2 DEF S

-----------------------------------------------------------------------------
(* Commands. *)

Cmds == Accesses \cup {Frame, Update} \cup {Compare(w, n) : w \in Pulses, n \in Nat}

\* What a command does to a master and to a slave that agree.
Acts(c, d, a, t) ==
    /\ Acted(c, a, t) \in Masters
    /\ Heeded(d, a, t) \in Slaves
    /\ Agree(c, d) => Agree(Acted(c, a, t), Heeded(d, a, t))
    /\ Heeded(d, a, t).alt = d.alt
    /\ Heeded(d, a, t).div = IF a = Frame THEN d.div - t ELSE d.div
    /\ Acted(c, a, t).alt = c.alt
    /\ Acted(c, a, t).div = IF a = Frame THEN c.div - t ELSE c.div

LEMMA EnvActs ==
    ASSUME NEW c \in Masters, NEW d \in Slaves, NEW t \in Nat,
           NEW w \in Pulses, NEW h \in BOOLEAN
    PROVE  Acts(c, d, Env(w, h), t)
<1>. DEFINE a == Env(w, h)
            chalt == IF h THEN c.halt \cup {w} ELSE c.halt \ {w}
            dhalt == IF h THEN d.halt \cup {w} ELSE d.halt \ {w}
<1>1. a.reg = "env" /\ a.w = w /\ a.halt = h /\ a # Frame
  BY DEF Env, Frame
<1>. HIDE DEF a
<1>2. Acted(c, a, t) = [c EXCEPT !.halt = chalt] /\ Heeded(d, a, t) = [d EXCEPT !.halt = dhalt]
  BY <1>1 DEF Acted, Heeded
<1>. DEFINE c1 == Acted(c, a, t)
            d1 == Heeded(d, a, t)
<1>3. /\ c1 \in Masters /\ c1.halt = chalt /\ c1.alt = c.alt /\ c1.div = c.div
      /\ c1.lc = c.lc /\ c1.status = c.status /\ c1.en = c.en
  BY <1>2 DEF Masters
<1>4. /\ d1 \in Slaves /\ d1.halt = dhalt /\ d1.alt = d.alt /\ d1.div = d.div
      /\ d1.lc = d.lc /\ d1.en = d.en
  BY <1>2 DEF Slaves
<1>. HIDE DEF c1, d1
<1>5. Agree(c, d) => Agree(c1, d1)
  BY <1>3, <1>4 DEF Agree
<1>6. Acts(c, d, a, t)
  BY <1>1, <1>3, <1>4, <1>5 DEF Acts, c1, d1
<1>. QED
  BY <1>6 DEF a

LEMMA LenActs ==
    ASSUME NEW c \in Masters, NEW d \in Slaves, NEW t \in Nat,
           NEW w \in Pulses, NEW len \in Lengths
    PROVE  Acts(c, d, Len3(w, len), t)
<1>. DEFINE a == Len3(w, len)
            clc == [c.lc EXCEPT ![w] = len]
            dlc == [d.lc EXCEPT ![w] = len]
            st == c.status \cup {w}
<1>0. a.reg = "len" /\ a.w = w /\ a.len = len /\ a # Frame
  BY DEF Len3, Frame
<1>. HIDE DEF a
<1>1. Acted(c, a, t) = IF w \in c.en THEN [c EXCEPT !.lc = clc, !.status = st] ELSE c
  <2>1. CASE w \in c.en
    <3>1. Acted(c, a, t) = [c EXCEPT !.lc[a.w] = a.len, !.status = @ \cup {a.w}]
      BY <1>0, <2>1 DEF Acted
    <3>. QED
      BY <1>0, <2>1, <3>1
  <2>2. CASE w \notin c.en
    BY <1>0, <2>2 DEF Acted
  <2>. QED
    BY <2>1, <2>2
<1>2. Heeded(d, a, t) = IF w \in d.en THEN [d EXCEPT !.lc = dlc] ELSE d
  <2>1. CASE w \in d.en
    <3>1. Heeded(d, a, t) = [d EXCEPT !.lc[a.w] = a.len]
      BY <1>0, <2>1 DEF Heeded
    <3>. QED
      BY <1>0, <2>1, <3>1
  <2>2. CASE w \notin d.en
    BY <1>0, <2>2 DEF Heeded
  <2>. QED
    BY <2>1, <2>2
<1>. DEFINE c1 == Acted(c, a, t)
            d1 == Heeded(d, a, t)
<1>3. /\ c.lc \in [Pulses -> Nat] /\ d.lc \in [Pulses -> Nat] /\ c.status \subseteq Pulses
      /\ len \in Nat /\ len > 0
  BY Constants DEF Masters, Slaves
<1>4. clc \in [Pulses -> Nat] /\ dlc \in [Pulses -> Nat] /\ st \in SUBSET Pulses
  BY <1>3
<1>5. \A v \in Pulses : /\ clc[v] = IF v = w THEN len ELSE c.lc[v]
                        /\ dlc[v] = IF v = w THEN len ELSE d.lc[v]
                        /\ v \in st <=> v = w \/ v \in c.status
  BY <1>3
<1>. HIDE DEF clc, dlc, st
<1>6. /\ c1 \in Masters /\ c1.halt = c.halt /\ c1.alt = c.alt /\ c1.div = c.div /\ c1.en = c.en
      /\ c1.lc = (IF w \in c.en THEN clc ELSE c.lc)
      /\ c1.status = (IF w \in c.en THEN st ELSE c.status)
  BY <1>1, <1>4 DEF Masters
<1>7. /\ d1 \in Slaves /\ d1.halt = d.halt /\ d1.alt = d.alt /\ d1.div = d.div /\ d1.en = d.en
      /\ d1.lc = (IF w \in d.en THEN dlc ELSE d.lc)
  BY <1>2, <1>4 DEF Slaves
<1>. HIDE DEF c1, d1
<1>8. ASSUME Agree(c, d) PROVE Agree(c1, d1)
  <2>1. CASE w \in c.en
    <3>1. c1.lc = clc /\ c1.status = st /\ d1.lc = dlc
      BY <1>6, <1>7, <1>8, <2>1 DEF Agree
    <3>2. \A v \in Pulses : (v \in st <=> dlc[v] > 0) /\ (v \in st => clc[v] = dlc[v])
      BY <1>3, <1>5, <1>8 DEF Agree
    <3>. QED
      BY <1>6, <1>7, <1>8, <3>1, <3>2 DEF Agree
  <2>2. CASE w \notin c.en
    BY <1>6, <1>7, <1>8, <2>2 DEF Agree
  <2>. QED
    BY <2>1, <2>2
<1>9. Acts(c, d, a, t)
  BY <1>0, <1>6, <1>7, <1>8 DEF Acts, c1, d1
<1>. QED
  BY <1>9 DEF a

LEMMA StatusActs ==
    ASSUME NEW c \in Masters, NEW d \in Slaves, NEW t \in Nat, NEW on \in SUBSET Pulses
    PROVE  Acts(c, d, Status(on), t)
<1>. DEFINE a == Status(on)
            dlc == [w \in Pulses |-> IF w \in on THEN d.lc[w] ELSE 0]
            st == c.status \cap on
<1>0. a.reg = "status" /\ a.on = on /\ a # Frame
  BY DEF Status, Frame
<1>. HIDE DEF a
<1>1. Acted(c, a, t) = [c EXCEPT !.en = on, !.status = st]
  BY <1>0 DEF Acted
<1>2. Heeded(d, a, t) = [d EXCEPT !.lc = dlc, !.en = on]
  <2>1. Heeded(d, a, t) = [d EXCEPT !.lc = [w \in Pulses |-> IF w \in a.on THEN @[w] ELSE 0],
                                    !.en = a.on]
    BY <1>0 DEF Heeded
  <2>. QED
    BY <1>0, <2>1
<1>. DEFINE c1 == Acted(c, a, t)
            d1 == Heeded(d, a, t)
<1>3. /\ c.lc \in [Pulses -> Nat] /\ d.lc \in [Pulses -> Nat] /\ c.status \subseteq Pulses
  BY DEF Masters, Slaves
<1>4. dlc \in [Pulses -> Nat] /\ st \in SUBSET Pulses
  BY <1>3
<1>5. \A v \in Pulses : dlc[v] = (IF v \in on THEN d.lc[v] ELSE 0) /\ (v \in st <=> v \in on /\ v \in c.status)
  BY <1>3
<1>. HIDE DEF dlc, st
<1>6. /\ c1 \in Masters /\ c1.halt = c.halt /\ c1.alt = c.alt /\ c1.div = c.div /\ c1.en = on
      /\ c1.lc = c.lc /\ c1.status = st
  BY <1>1, <1>4 DEF Masters
<1>7. /\ d1 \in Slaves /\ d1.halt = d.halt /\ d1.alt = d.alt /\ d1.div = d.div /\ d1.en = on
      /\ d1.lc = dlc
  BY <1>2, <1>4 DEF Slaves
<1>. HIDE DEF c1, d1
<1>8. ASSUME Agree(c, d) PROVE Agree(c1, d1)
  <2>1. ASSUME NEW v \in Pulses
        PROVE  (v \in st <=> dlc[v] > 0) /\ (v \in st => c.lc[v] = dlc[v])
    <3>1. (v \in c.status <=> d.lc[v] > 0) /\ (v \in c.status => c.lc[v] = d.lc[v])
      BY <1>8 DEF Agree
    <3>2. CASE v \in on
      BY <1>5, <3>1, <3>2
    <3>3. CASE v \notin on
      BY <1>5, <3>3
    <3>. QED
      BY <3>2, <3>3
  <2>. QED
    BY <1>6, <1>7, <1>8, <2>1 DEF Agree
<1>9. Acts(c, d, a, t)
  BY <1>0, <1>6, <1>7, <1>8 DEF Acts, c1, d1
<1>. QED
  BY <1>9 DEF a

LEMMA FrameActs ==
    ASSUME NEW c \in Masters, NEW d \in Slaves, NEW t \in Nat, t < c.div, t < d.div
    PROVE  Acts(c, d, Frame, t)
<1>. DEFINE cd == c.div - t
            dd == d.div - t
            c1 == Acted(c, Frame, t)
            d1 == Heeded(d, Frame, t)
<1>1. c1 = [c EXCEPT !.div = cd] /\ d1 = [d EXCEPT !.div = dd]
  BY DEF Acted, Heeded, Frame
<1>2. cd \in Nat /\ dd \in Nat
  BY DEF Masters, Slaves
<1>3. Agree(c, d) => cd = dd
  BY DEF Agree
<1>. HIDE DEF cd, dd, c1, d1
<1>4. /\ c1 \in Masters /\ c1.halt = c.halt /\ c1.alt = c.alt /\ c1.div = cd
      /\ c1.lc = c.lc /\ c1.status = c.status /\ c1.en = c.en
  BY <1>1, <1>2 DEF Masters
<1>5. /\ d1 \in Slaves /\ d1.halt = d.halt /\ d1.alt = d.alt /\ d1.div = dd
      /\ d1.lc = d.lc /\ d1.en = d.en
  BY <1>1, <1>2 DEF Slaves
<1>6. Agree(c, d) => Agree(c1, d1)
  BY <1>3, <1>4, <1>5 DEF Agree
<1>. QED
  BY <1>4, <1>5, <1>6 DEF Acts, c1, d1, cd, dd

\* Commands that change nothing.
Quiet == {Read, Update} \cup {Compare(w, n) : w \in Pulses, n \in Nat}

LEMMA QuietActs ==
    ASSUME NEW c, NEW d, NEW t, NEW a \in Quiet
    PROVE  Acted(c, a, t) = c /\ Heeded(d, a, t) = d /\ a # Frame /\ a \notin Real
<1>1. a.reg \in {"read", "update", "compare"}
  BY DEF Quiet, Read, Update, Compare
<1>2. a # Frame
  BY <1>1 DEF Frame
<1>3. a \notin Accesses \ {Read}
  BY <1>1 DEF Accesses, Env, Len3, Status, Read
<1>. QED
  BY <1>1, <1>2, <1>3 DEF Acted, Heeded, Real

LEMMA Kinds ==
    ASSUME NEW a \in Cmds
    PROVE  \/ a \in Quiet \/ a = Frame
           \/ \E w \in Pulses, h \in BOOLEAN : a = Env(w, h)
           \/ \E w \in Pulses, len \in Lengths : a = Len3(w, len)
           \/ \E on \in SUBSET Pulses : a = Status(on)
BY DEF Cmds, Accesses, Quiet

LEMMA CommandActs ==
    ASSUME NEW c \in Masters, NEW d \in Slaves, NEW t \in Nat, NEW a \in Cmds,
           a = Frame => t < c.div /\ t < d.div
    PROVE  Acts(c, d, a, t)
<1>1. CASE a \in Quiet
  BY <1>1, QuietActs DEF Acts
<1>2. CASE a = Frame
  BY <1>2, FrameActs
<1>3. CASE \E w \in Pulses, h \in BOOLEAN : a = Env(w, h)
  BY <1>3, EnvActs
<1>4. CASE \E w \in Pulses, len \in Lengths : a = Len3(w, len)
  BY <1>4, LenActs
<1>5. CASE \E on \in SUBSET Pulses : a = Status(on)
  BY <1>5, StatusActs
<1>. QED
  BY <1>1, <1>2, <1>3, <1>4, <1>5, Kinds

\* Acting keeps them abreast: on what changes nothing at any time, on the others
\* because neither has a half frame to count before.
LEMMA ActsAbreast ==
    ASSUME NEW c \in Masters, NEW d \in Slaves, NEW t \in Nat, NEW a \in Cmds,
           Abreast(c, d), a \in Real => Settled(c, t) /\ Settled(d, t)
    PROVE  /\ Acted(c, a, t) \in Masters /\ Heeded(d, a, t) \in Slaves
           /\ Abreast(Acted(c, a, t), Heeded(d, a, t))
<1>1. a = Frame => t < c.div /\ t < d.div
  BY DEF Real, Settled
<1>2. Acts(c, d, a, t)
  BY <1>1, CommandActs
<1>3. CASE a \in Quiet
  BY <1>2, <1>3, QuietActs DEF Acts
<1>4. CASE a \notin Quiet
  <2>1. a \in Real
    BY <1>4 DEF Quiet, Real, Cmds
  <2>2. Agree(c, d)
    BY <2>1, SettledAgree
  <2>. QED
    BY <1>2, <2>2, AgreeAbreast DEF Acts
<1>. QED
  BY <1>3, <1>4

-----------------------------------------------------------------------------
(* The queue. *)

LEMMA CommandType ==
    ASSUME NEW x \in Commands
    PROVE  x.ts \in Nat /\ x.cmd \in Cmds
BY DEF Commands, Cmds

LEMMA LinkType ==
    ASSUME NEW c \in Masters, NEW d \in Slaves, NEW x \in Commands, NEW b \in Masters,
           Link(c, x, b), Abreast(c, d), x.cmd \in Real => Settled(d, x.ts)
    PROVE  Heeded(d, x.cmd, x.ts) \in Slaves /\ Abreast(b, Heeded(d, x.cmd, x.ts))
<1>. DEFINE a == Acted(c, x.cmd, x.ts)
            e == Heeded(d, x.cmd, x.ts)
<1>1. a \in Masters /\ e \in Slaves /\ Abreast(a, e)
  BY CommandType, ActsAbreast DEF Link
<1>2. b \in Orbit(MTick, a)
  BY DEF Link
<1>. HIDE DEF a, e
<1>3. Abreast(b, e)
  BY <1>1, <1>2, OrbitAbreast
<1>. QED
  BY <1>1, <1>3 DEF e

LEMMA AppendLinked ==
    ASSUME NEW q \in Seq(Commands), NEW c \in Masters, NEW d \in Slaves, Linked(q, c, d),
           NEW x \in Commands, NEW b \in Masters, Link(c, x, b)
    PROVE  Append(q, x) \in Seq(Commands) /\ Linked(Append(q, x), b, d)
<1>. DEFINE n == Len(q)
            p == Append(q, x)
<1>1. n \in Nat
  BY LenProperties
<1>2. p \in Seq(Commands) /\ Len(p) = n + 1 /\ (\A i \in 1 .. n : p[i] = q[i]) /\ p[n + 1] = x
  BY AppendProperties
<1>3. PICK M : Chain(M, q, c, d)
  BY DEF Linked
<1>4. /\ M \in [1 .. n + 1 -> Masters] /\ M[n + 1] = c /\ Abreast(M[1], d)
      /\ \A i \in 1 .. n : Link(M[i], q[i], M[i + 1])
  BY <1>3 DEF Chain
<1>. HIDE DEF n, p
<1>. DEFINE N == [i \in 1 .. (n + 1) + 1 |-> IF i = n + 2 THEN b ELSE M[i]]
<1>5. N \in [1 .. (n + 1) + 1 -> Masters] /\ N[(n + 1) + 1] = b /\ N[1] = M[1]
  BY <1>1, <1>4
<1>6. \A i \in 1 .. n + 1 : N[i] = M[i]
  BY <1>1
<1>7. \A i \in 1 .. n : N[i + 1] = M[i + 1] /\ i \in 1 .. n + 1
  BY <1>1
<1>. HIDE DEF N
<1>8. ASSUME NEW i \in 1 .. n + 1 PROVE Link(N[i], p[i], N[i + 1])
  <2>1. CASE i \in 1 .. n
    BY <1>2, <1>4, <1>6, <1>7, <2>1
  <2>2. CASE i = n + 1
    BY <1>2, <1>4, <1>5, <1>6, <2>2
  <2>. QED
    BY <1>1, <2>1, <2>2
<1>9. Chain(N, p, b, d)
  BY <1>2, <1>4, <1>5, <1>8 DEF Chain
<1>. QED
  BY <1>2, <1>9 DEF Linked, p

LEMMA AppendTimed ==
    ASSUME NEW q \in Seq(Commands), NEW t \in Nat, NEW d, Timed(q, t, d),
           NEW x \in Commands, x.ts = t, NEW u \in Nat, x.cmd = Frame \/ t <= u
    PROVE  Timed(Append(q, x), u, d)
<1>. DEFINE n == Len(q)
            p == Append(q, x)
<1>1. n \in Nat
  BY LenProperties
<1>2. p \in Seq(Commands) /\ Len(p) = n + 1 /\ (\A i \in 1 .. n : p[i] = q[i]) /\ p[n + 1] = x
  BY AppendProperties
<1>. HIDE DEF p
<1>3. ASSUME NEW i \in 0 .. n PROVE After(p, i, u) = After(q, i, t)
  <2>1. CASE i = n
    BY <1>1, <1>2, <2>1 DEF After
  <2>2. CASE i # n
    <3>1. i + 1 \in 1 .. n /\ i # n + 1
      BY <1>1, <2>2
    <3>. QED
      BY <1>2, <2>2, <3>1 DEF After
  <2>. QED
    BY <2>1, <2>2
<1>4. ASSUME NEW i \in 1 .. n + 1 PROVE p[i].cmd = Frame \/ p[i].ts <= After(p, i, u)
  <2>1. CASE i = n + 1
    <3>1. After(p, i, u) = u
      BY <1>2, <2>1 DEF After
    <3>. QED
      BY <1>2, <2>1, <3>1
  <2>2. CASE i # n + 1
    <3>1. i \in 1 .. n /\ i \in 0 .. n
      BY <1>1, <2>2
    <3>. QED
      BY <1>2, <1>3, <3>1 DEF Timed
  <2>. QED
    BY <2>1, <2>2
<1>5. Before(d) <= After(p, 0, u)
  BY <1>1, <1>3 DEF Timed
<1>6. Timed(p, u, d)
  BY <1>2, <1>4, <1>5 DEF Timed
<1>. QED
  BY <1>6 DEF p

\* The slave reads the oldest command.
LEMMA TailLinked ==
    ASSUME NEW q \in Seq(Commands), q # << >>, NEW c \in Masters, NEW d \in Slaves,
           Linked(q, c, d), NEW t \in Nat, Timed(q, t, d), q[1].ts < d.div
    PROVE  /\ Tail(q) \in Seq(Commands)
           /\ Heeded(d, q[1].cmd, q[1].ts) \in Slaves
           /\ Linked(Tail(q), c, Heeded(d, q[1].cmd, q[1].ts))
<1>. DEFINE n == Len(q)
            p == Tail(q)
            e == Heeded(d, q[1].cmd, q[1].ts)
<1>1. n \in Nat \ {0}
  BY EmptySeq, LenProperties
<1>2. p \in Seq(Commands) /\ Len(p) = n - 1 /\ (\A i \in 1 .. n - 1 : p[i] = q[i + 1])
  BY HeadTailProperties
<1>3. PICK M : Chain(M, q, c, d)
  BY DEF Linked
<1>4. /\ M \in [1 .. n + 1 -> Masters] /\ M[n + 1] = c /\ Abreast(M[1], d)
      /\ \A i \in 1 .. n : Link(M[i], q[i], M[i + 1])
  BY <1>3 DEF Chain
<1>5. 1 \in 1 .. n /\ 1 \in 1 .. n + 1 /\ 2 \in 1 .. n + 1 /\ 1 + 1 = 2
  BY <1>1
<1>6. q[1] \in Commands
  BY <1>5, ElementOfSeq
<1>7. M[1] \in Masters /\ M[2] \in Masters /\ Link(M[1], q[1], M[2])
  BY <1>4, <1>5
<1>8. Settled(d, q[1].ts)
  <2>1. After(q, 0, t) = q[1].ts
    BY <1>1 DEF After
  <2>. QED
    BY <2>1 DEF Timed, Settled
<1>9. e \in Slaves /\ Abreast(M[2], e)
  BY <1>4, <1>6, <1>7, <1>8, LinkType
<1>. HIDE DEF n, p, e
<1>. DEFINE N == [i \in 1 .. (n - 1) + 1 |-> M[i + 1]]
<1>10. \A i \in 1 .. (n - 1) + 1 : i + 1 \in 1 .. n + 1 /\ N[i] = M[i + 1]
  BY <1>1
<1>11. \A i \in 1 .. n - 1 : i \in 1 .. (n - 1) + 1 /\ i + 1 \in 1 .. (n - 1) + 1 /\ i + 1 \in 1 .. n
  BY <1>1
<1>12. N \in [1 .. (n - 1) + 1 -> Masters]
  BY <1>4, <1>10
<1>13. N[(n - 1) + 1] = c /\ N[1] = M[2]
  <2>1. (n - 1) + 1 = n /\ n \in 1 .. (n - 1) + 1 /\ 1 \in 1 .. (n - 1) + 1
    BY <1>1
  <2>. QED
    BY <1>4, <1>5, <1>10, <2>1
<1>. HIDE DEF N
<1>14. \A i \in 1 .. n - 1 : Link(N[i], p[i], N[i + 1])
  BY <1>2, <1>4, <1>10, <1>11
<1>15. Chain(N, p, c, e)
  BY <1>2, <1>9, <1>12, <1>13, <1>14 DEF Chain
<1>. QED
  BY <1>2, <1>9, <1>15 DEF Linked, p, e

LEMMA TailTimed ==
    ASSUME NEW q \in Seq(Commands), q # << >>, NEW d \in Slaves, NEW t \in Nat, Timed(q, t, d),
           q[1].ts < d.div, d.div > 0
    PROVE  /\ Timed(Tail(q), t, Heeded(d, q[1].cmd, q[1].ts))
           /\ Heeded(d, q[1].cmd, q[1].ts).div > 0
<1>. DEFINE n == Len(q)
            p == Tail(q)
            x == q[1]
            e == Heeded(d, x.cmd, x.ts)
<1>1. n \in Nat \ {0}
  BY EmptySeq, LenProperties
<1>2. p \in Seq(Commands) /\ Len(p) = n - 1 /\ (\A i \in 1 .. n - 1 : p[i] = q[i + 1])
  BY HeadTailProperties
<1>3. \A i \in 1 .. n : q[i] \in Commands /\ q[i].ts \in Nat
  BY ElementOfSeq, CommandType
<1>4. x \in Commands /\ x.ts \in Nat /\ x.cmd \in Cmds
  <2>1. 1 \in 1 .. n
    BY <1>1
  <2>. QED
    BY <1>3, <2>1, CommandType
<1>5. After(q, 0, t) = x.ts
  BY <1>1 DEF After
<1>6. e.alt = d.alt /\ e.div = IF x.cmd = Frame THEN d.div - x.ts ELSE d.div
  <2>. DEFINE c == [div |-> d.div, alt |-> d.alt, halt |-> d.halt, lc |-> d.lc, status |-> {}, en |-> d.en]
  <2>1. c \in Masters /\ x.ts < c.div
    BY DEF Masters, Slaves
  <2>. HIDE DEF c
  <2>2. Acts(c, d, x.cmd, x.ts)
    BY <1>4, <2>1, CommandActs
  <2>. QED
    BY <2>2 DEF Acts
<1>. HIDE DEF p, x, e
<1>7. ASSUME NEW i \in 0 .. n - 1 PROVE After(p, i, t) = After(q, i + 1, t)
  <2>1. CASE i = n - 1
    BY <1>1, <1>2, <2>1 DEF After
  <2>2. CASE i # n - 1
    <3>1. i + 1 \in 1 .. n - 1 /\ i + 1 # n
      BY <1>1, <2>2
    <3>. QED
      BY <1>2, <2>2, <3>1 DEF After
  <2>. QED
    BY <2>1, <2>2
<1>8. \A i \in 1 .. n - 1 : p[i].cmd = Frame \/ p[i].ts <= After(p, i, t)
  <2>. SUFFICES ASSUME NEW i \in 1 .. n - 1 PROVE p[i].cmd = Frame \/ p[i].ts <= After(p, i, t)
    OBVIOUS
  <2>1. i + 1 \in 1 .. n /\ i \in 0 .. n - 1
    BY <1>1
  <2>. QED
    BY <1>2, <1>7, <2>1 DEF Timed
<1>9. After(p, 0, t) = After(q, 1, t) /\ After(q, 1, t) \in Nat
  <2>1. 0 \in 0 .. n - 1 /\ 0 + 1 = 1
    BY <1>1
  <2>2. After(q, 1, t) \in Nat
    <3>1. n # 1 => 1 + 1 \in 1 .. n
      <4>. HIDE DEF n
      <4>. QED
        BY <1>1
    <3>. QED
      BY <1>3, <3>1 DEF After
  <2>. QED
    BY <1>7, <2>1, <2>2
<1>10. Before(d) <= x.ts /\ Before(d) \in Int /\ d.div \in Nat
  BY <1>5, BeforeInt DEF Timed
<1>11. Before(e) <= After(p, 0, t) /\ e.div > 0
  <2>1. CASE x.cmd = Frame
    <3>1. e.div = d.div - x.ts /\ x.ts < d.div
      BY <1>6, <2>1 DEF x
    <3>2. Before(e) = Before(d) - x.ts
      BY <1>4, <1>6, <1>10, <3>1, Constants DEF Before
    <3>. QED
      BY <1>4, <1>9, <1>10, <3>1, <3>2
  <2>2. CASE x.cmd # Frame
    <3>1. Before(e) = Before(d) /\ e.div = d.div
      BY <1>6, <2>2 DEF Before
    <3>2. x.ts <= After(q, 1, t)
      <4>1. 1 \in 1 .. n
        BY <1>1
      <4>. QED
        BY <2>2, <4>1 DEF Timed, x
    <3>. QED
      BY <1>4, <1>9, <1>10, <3>1, <3>2
  <2>. QED
    BY <2>1, <2>2
<1>12. Timed(p, t, e)
  BY <1>2, <1>8, <1>11 DEF Timed
<1>. QED
  BY <1>11, <1>12 DEF p, e, x

-----------------------------------------------------------------------------
(* The two processors at work. *)

\* emu_init() starts both from their first half frame, with nothing queued.
Power(q, c, d) == q = << >> /\ c = MasterPower /\ d = SlavePower

LEMMA PowerIInv ==
    ASSUME NEW q, NEW c, NEW d, NEW t \in Nat, Power(q, c, d)
    PROVE  /\ q \in Seq(Commands) /\ c \in Masters /\ d \in Slaves
           /\ Before(c) <= t /\ c.div > 0 /\ d.div > 0 /\ Linked(q, c, d) /\ Timed(q, t, d)
<1>1. c \in Masters /\ d \in Slaves
  BY Constants DEF Power, MasterPower, SlavePower, Masters, Slaves, Zeroes
<1>2. q \in Seq(Commands) /\ Len(q) = 0
  BY EmptySeq DEF Power
<1>3. c.div = Reload /\ d.div = Reload /\ c.alt = FALSE /\ d.alt = FALSE
  BY DEF Power, MasterPower, SlavePower
<1>4. Before(c) = -1 /\ Before(d) = -1
  BY <1>3, Constants DEF Before
<1>5. Abreast(c, d)
  <2>1. Agree(c, d)
    BY DEF Power, MasterPower, SlavePower, Zeroes, Agree
  <2>. QED
    BY <1>1, <2>1, AgreeAbreast
<1>6. Linked(q, c, d)
  <2>. DEFINE M == [i \in 1 .. 0 + 1 |-> c]
  <2>1. M \in [1 .. 0 + 1 -> Masters] /\ M[0 + 1] = c /\ M[1] = c
    BY <1>1
  <2>. HIDE DEF M
  <2>2. Chain(M, q, c, d)
    BY <1>2, <1>5, <2>1 DEF Chain
  <2>. QED
    BY <2>2 DEF Linked
<1>7. Timed(q, t, d)
  BY <1>2, <1>4 DEF Timed, After
<1>. QED
  BY <1>1, <1>2, <1>3, <1>4, <1>6, <1>7, Constants

LEMMA InitIInv == Init => IInv
<1>. SUFFICES ASSUME Init PROVE IInv
  OBVIOUS
<1>2. Power(queue, m, s) /\ now = 0
  BY DEF Init, Power
<1>3. /\ queue \in Seq(Commands) /\ m \in Masters /\ s \in Slaves
      /\ Before(m) <= now /\ m.div > 0 /\ s.div > 0 /\ Linked(queue, m, s) /\ Timed(queue, now, s)
  BY <1>2, PowerIInv
<1>4. Typed
  BY <1>3 DEF Init, Typed
<1>. QED
  BY <1>3, <1>4 DEF IInv

\* MasterAccess() and SlaveAct() are Acted() and Heeded() of the units they use.
LEMMA AccessIs ==
    /\ \A a : MasterAccess(a) = Acted(m, a, now)
    /\ \A a, t : SlaveAct(t, a) = Heeded(s, a, t)
BY DEF MasterAccess, Acted, SlaveAct, Heeded

LEMMA NewSongIInv == ASSUME IInv, NewSong PROVE IInv'
<1>1. /\ Power(queue', m', s') /\ now' = 0 /\ now = 0 /\ aborted' = FALSE
      /\ UNCHANGED <<pending, updated>>
  BY DEF NewSong, Power
<1>2. /\ queue' \in Seq(Commands) /\ m' \in Masters /\ s' \in Slaves
      /\ Before(m') <= now' /\ m'.div > 0 /\ s'.div > 0 /\ Linked(queue', m', s')
      /\ Timed(queue', now', s')
  BY <1>1, PowerIInv
<1>3. Typed'
  BY <1>1, <1>2 DEF IInv, Typed
<1>4. (Before(m) <= now)'
  BY <1>2 DEF Before
<1>5. Linked(queue, m, s)' /\ Timed(queue, now, s)'
  BY <1>2 DEF Linked, Chain, Timed
<1>. QED
  BY <1>2, <1>3, <1>4, <1>5 DEF IInv

\* Begin and the time between two accesses.
LEMMA BeginIInv == ASSUME IInv, Begin PROVE IInv'
<1>1. UNCHANGED <<now, m, s, updated, queue, aborted>>
      /\ pending' \in Accesses \cup {None, Frame}
  BY DEF Begin
<1>2. Typed'
  BY <1>1 DEF IInv, Typed
<1>. QED
  BY <1>1, <1>2 DEF IInv, Before

LEMMA LaterTimed ==
    ASSUME NEW q \in Seq(Commands), NEW t \in Nat, NEW u \in Nat, t <= u, NEW d \in Slaves,
           Timed(q, t, d)
    PROVE  Timed(q, u, d)
<1>1. Len(q) \in Nat /\ Before(d) \in Int
  BY LenProperties, BeforeInt
<1>2. \A i \in 0 .. Len(q) : i # Len(q) => After(q, i, u) = After(q, i, t)
  BY DEF After
<1>3. After(q, Len(q), u) = u /\ After(q, Len(q), t) = t
  BY DEF After
<1>4. Before(d) <= After(q, 0, u)
  <2>1. CASE Len(q) = 0
    BY <1>1, <1>3, <2>1 DEF Timed
  <2>2. CASE Len(q) # 0
    BY <1>1, <1>2, <2>2 DEF Timed
  <2>. QED
    BY <2>1, <2>2
<1>5. ASSUME NEW i \in 1 .. Len(q) PROVE q[i].cmd = Frame \/ q[i].ts <= After(q, i, u)
  <2>1. q[i].ts \in Nat
    BY ElementOfSeq, CommandType
  <2>2. CASE i = Len(q)
    BY <1>1, <1>3, <2>1, <2>2 DEF Timed
  <2>3. CASE i # Len(q)
    BY <1>1, <1>2, <2>3 DEF Timed
  <2>. QED
    BY <2>2, <2>3
<1>. QED
  BY <1>4, <1>5 DEF Timed

LEMMA CycleIInv == ASSUME IInv, Cycle PROVE IInv'
<1>1. now' = now + 1 /\ UNCHANGED <<m, s, pending, updated, queue, aborted>> /\ now \in Nat
  BY DEF Cycle, IInv, Typed
<1>2. Typed'
  BY <1>1 DEF IInv, Typed
<1>3. Timed(queue, now + 1, s)
  BY <1>1, LaterTimed DEF IInv, Typed
<1>4. Before(m) <= now + 1
  BY <1>1, BeforeInt DEF IInv, Typed
<1>. QED
  BY <1>1, <1>2, <1>3, <1>4 DEF IInv, Before

\* A command of the 6502's time that leaves the master as it is.
LEMMA QuietLink ==
    ASSUME NEW c \in Masters, NEW a \in Quiet, NEW t \in Nat
    PROVE  /\ Command(t, a) \in Commands /\ Command(t, a).ts = t /\ Command(t, a).cmd = a
           /\ a # Read => Link(c, Command(t, a), c)
<1>. DEFINE x == Command(t, a)
<1>1. x.ts = t /\ x.cmd = a
  BY DEF Command
<1>2. a \in Cmds
  BY DEF Quiet, Cmds, Accesses
<1>3. x \in Commands
  BY <1>2 DEF Command, Commands, Cmds
<1>. HIDE DEF x
<1>4. Acted(c, a, t) = c /\ a \notin Real
  BY QuietActs
<1>5. c \in Orbit(MTick, c)
  BY Steps, OrbitStart
<1>6. Link(c, x, c)
  BY <1>1, <1>4, <1>5 DEF Link
<1>. QED
  BY <1>1, <1>3, <1>6 DEF x

LEMMA QuietAppend ==
    ASSUME NEW q \in Seq(Commands), NEW c \in Masters, NEW d \in Slaves, NEW t \in Nat,
           Linked(q, c, d), Timed(q, t, d), NEW a \in Quiet \ {Read}
    PROVE  /\ Append(q, Command(t, a)) \in Seq(Commands)
           /\ Linked(Append(q, Command(t, a)), c, d)
           /\ Timed(Append(q, Command(t, a)), t, d)
<1>. DEFINE x == Command(t, a)
<1>1. x \in Commands /\ x.ts = t /\ Link(c, x, c) /\ t <= t
  BY QuietLink
<1>. HIDE DEF x
<1>2. Append(q, x) \in Seq(Commands) /\ Linked(Append(q, x), c, d) /\ Timed(Append(q, x), t, d)
  BY <1>1, AppendLinked, AppendTimed
<1>. QED
  BY <1>2 DEF x

LEMMA ForceUpdateIInv == ASSUME IInv, ForceUpdate PROVE IInv'
<1>1. queue' = Append(queue, Command(now, Update)) /\ UNCHANGED <<now, m, s, pending, updated, aborted>>
  BY DEF ForceUpdate
<1>2. Update \in Quiet \ {Read}
  BY DEF Quiet, Update, Read
<1>3. queue' \in Seq(Commands) /\ Linked(queue', m, s) /\ Timed(queue', now, s)
  BY <1>1, <1>2, QuietAppend DEF IInv, Typed
<1>4. Typed'
  BY <1>1, <1>3 DEF IInv, Typed
<1>. QED
  BY <1>1, <1>3, <1>4 DEF IInv, Before

LEMMA MasterUpdateIInv == ASSUME IInv, MasterUpdate PROVE IInv'
<1>1. m' = MasterTick(m) /\ now >= m.div /\ updated' = TRUE
      /\ UNCHANGED <<now, s, pending, queue, aborted>>
  BY DEF MasterUpdate
<1>2. m \in Masters /\ s \in Slaves /\ queue \in Seq(Commands) /\ m.div \in Nat /\ now \in Nat
  BY DEF IInv, Typed, Masters
<1>3. MasterTick(m) \in Masters /\ Before(MasterTick(m)) = m.div /\ MasterTick(m).div > m.div
      /\ MTick[m] = MasterTick(m)
  BY <1>2, MTickType DEF MTick
<1>4. m' \in Masters /\ Before(m') <= now /\ m'.div > 0
  <2>1. m'.div \in Nat
    BY <1>1, <1>3 DEF Masters
  <2>. QED
    BY <1>1, <1>2, <1>3, <2>1
<1>5. Linked(queue, m', s)
  <2>1. PICK M : Chain(M, queue, m, s)
    BY DEF IInv, Linked
  <2>. DEFINE n == Len(queue)
              b == MTick[m]
              N == [M EXCEPT ![n + 1] = b]
  <2>2. n \in Nat /\ b \in Masters
    BY <1>2, <1>3, LenProperties
  <2>3. /\ M \in [1 .. n + 1 -> Masters] /\ M[n + 1] = m /\ Abreast(M[1], s)
        /\ \A i \in 1 .. n : Link(M[i], queue[i], M[i + 1])
    BY <2>1 DEF Chain
  <2>. HIDE DEF n, b
  <2>4. N \in [1 .. n + 1 -> Masters] /\ N[n + 1] = b /\ \A i \in 1 .. n : N[i] = M[i]
    BY <2>2, <2>3
  <2>5. Abreast(N[1], s)
    <3>1. CASE n = 0
      <4>1. N[1] = b /\ M[1] = m
        BY <2>3, <2>4, <3>1
      <4>. QED
        BY <1>2, <2>3, <4>1, MasterTickAbreast DEF b
    <3>2. CASE n # 0
      BY <2>2, <2>3, <2>4, <3>2
    <3>. QED
      BY <3>1, <3>2
  <2>6. ASSUME NEW i \in 1 .. n PROVE Link(N[i], queue[i], N[i + 1])
    <3>1. CASE i = n
      <4>1. N[i] = M[i] /\ N[i + 1] = b /\ Link(M[i], queue[i], m)
        BY <2>3, <2>4, <3>1
      <4>2. b \in Orbit(MTick, Acted(M[i], queue[i].cmd, queue[i].ts))
        BY <4>1, Steps, OrbitStep DEF Link, b
      <4>. QED
        BY <4>1, <4>2 DEF Link
    <3>2. CASE i # n
      <4>1. i \in 1 .. n /\ i + 1 \in 1 .. n
        BY <2>2, <3>2
      <4>. QED
        BY <2>3, <2>4, <4>1
    <3>. QED
      BY <3>1, <3>2
  <2>. HIDE DEF N
  <2>7. Chain(N, queue, b, s)
    BY <2>4, <2>5, <2>6 DEF Chain, n
  <2>. QED
    BY <1>1, <1>3, <2>7 DEF Linked, b
<1>6. Typed'
  BY <1>1, <1>4 DEF IInv, Typed
<1>. QED
  BY <1>1, <1>4, <1>5, <1>6 DEF IInv, Before

\* The command an access sends, and the master that did it.
LEMMA AccessLink ==
    ASSUME NEW c \in Masters, NEW t \in Nat, Settled(c, t), NEW a \in Accesses \cup {Frame}
    PROVE  /\ Acted(c, a, t) \in Masters /\ Command(t, a) \in Commands
           /\ Command(t, a).ts = t /\ Command(t, a).cmd = a
           /\ Link(c, Command(t, a), Acted(c, a, t))
           /\ Acted(c, a, t).alt = c.alt
           /\ Acted(c, a, t).div = IF a = Frame THEN c.div - t ELSE c.div
<1>. DEFINE x == Command(t, a)
            b == Acted(c, a, t)
            d == [div |-> c.div, alt |-> c.alt, halt |-> c.halt, lc |-> c.lc, en |-> c.en]
<1>1. x.ts = t /\ x.cmd = a
  BY DEF Command
<1>2. x \in Commands /\ a \in Cmds
  BY DEF Command, Commands, Cmds
<1>3. d \in Slaves /\ d.div = c.div
  BY DEF Slaves, Masters
<1>. HIDE DEF d, x
<1>4. Acts(c, d, a, t)
  BY <1>2, <1>3, CommandActs DEF Settled
<1>5. b \in Masters
  BY <1>4 DEF Acts
<1>6. b \in Orbit(MTick, b)
  <2>. HIDE DEF b
  <2>. QED
    BY <1>5, Steps, OrbitStart
<1>7. Link(c, x, b)
  BY <1>1, <1>6 DEF Link
<1>. QED
  BY <1>1, <1>2, <1>4, <1>5, <1>7 DEF x, Acts

\* The comparisons of the consistency check go first.
LEMMA ComparisonsLinked ==
    ASSUME IInv
    PROVE  /\ queue \o Comparisons \in Seq(Commands)
           /\ Linked(queue \o Comparisons, m, s) /\ Timed(queue \o Comparisons, now, s)
<1>1. /\ queue \in Seq(Commands) /\ m \in Masters /\ s \in Slaves /\ now \in Nat
      /\ Linked(queue, m, s) /\ Timed(queue, now, s)
  BY DEF IInv, Typed
<1>2. CASE ~(Check /\ updated)
  <2>1. Comparisons = << >>
    BY <1>2 DEF Comparisons
  <2>2. queue \o Comparisons = queue
    BY <1>1, <2>1, ConcatEmptySeq
  <2>. QED
    BY <1>1, <2>2
<1>3. CASE Check /\ updated
  <2>. DEFINE a == Compare(0, m.lc[0])
              b == Compare(1, m.lc[1])
              x == Command(now, a)
              y == Command(now, b)
  <2>1. 0 \in Pulses /\ 1 \in Pulses
    BY <1>3, ConstantsAssumption
  <2>2. m.lc[0] \in Nat /\ m.lc[1] \in Nat
    BY <1>1, <2>1 DEF Masters
  <2>3. a \in Quiet \ {Read} /\ b \in Quiet \ {Read}
    BY <2>1, <2>2 DEF Quiet, Compare, Read
  <2>4. Comparisons = <<x, y>>
    BY <1>3 DEF Comparisons
  <2>. HIDE DEF a, b
  <2>5. /\ x \in Commands /\ y \in Commands
    BY <1>1, <2>3, QuietLink
  <2>6. /\ Append(queue, x) \in Seq(Commands) /\ Linked(Append(queue, x), m, s)
        /\ Timed(Append(queue, x), now, s)
    BY <1>1, <2>3, QuietAppend
  <2>7. /\ Append(Append(queue, x), y) \in Seq(Commands) /\ Linked(Append(Append(queue, x), y), m, s)
        /\ Timed(Append(Append(queue, x), y), now, s)
    BY <1>1, <2>3, <2>6, QuietAppend
  <2>. HIDE DEF x, y
  <2>8. queue \o <<x, y>> = Append(Append(queue, x), y)
    BY <1>1, <2>5
  <2>. QED
    BY <2>4, <2>7, <2>8
<1>. QED
  BY <1>2, <1>3

LEMMA FinishIInv == ASSUME IInv, Finish PROVE IInv'
<1>. DEFINE q == queue \o Comparisons
            x == Command(now, pending)
            b == Acted(m, pending, now)
<1>1. /\ pending # None /\ now < m.div /\ m' = b /\ pending' = None /\ updated' = FALSE
      /\ queue' = q \o (IF pending = Read THEN << >> ELSE <<x>>)
      /\ now' = (IF pending = Frame THEN 0 ELSE now) /\ UNCHANGED <<s, aborted>>
  BY AccessIs DEF Finish
<1>2. /\ m \in Masters /\ s \in Slaves /\ now \in Nat /\ pending \in Accesses \cup {Frame}
      /\ m.div \in Nat /\ Before(m) \in Int /\ Before(m) <= now /\ m.div > 0 /\ s.div > 0
  BY <1>1, BeforeInt DEF IInv, Typed
<1>3. q \in Seq(Commands) /\ Linked(q, m, s) /\ Timed(q, now, s)
  BY ComparisonsLinked
<1>4. /\ b \in Masters /\ x \in Commands /\ x.ts = now /\ x.cmd = pending /\ Link(m, x, b)
      /\ b.alt = m.alt /\ b.div = IF pending = Frame THEN m.div - now ELSE m.div
  BY <1>1, <1>2, AccessLink DEF Settled
<1>5. pending = Read => b = m /\ pending # Frame
  <2>1. Read \in Quiet
    BY DEF Quiet
  <2>. QED
    BY <2>1, QuietActs
<1>. HIDE DEF q, x, b
<1>6. now' \in Nat /\ (pending = Frame \/ now <= now')
  BY <1>1, <1>2
<1>7. queue' \in Seq(Commands) /\ Linked(queue', b, s) /\ Timed(queue', now', s)
  <2>1. CASE pending = Read
    <3>1. queue' = q \o << >> /\ q \o << >> = q /\ now' = now /\ b = m
      BY <1>1, <1>3, <1>5, <2>1, ConcatEmptySeq
    <3>. QED
      BY <1>3, <3>1
  <2>2. CASE pending # Read
    <3>1. queue' = Append(q, x)
      BY <1>1, <1>3, <1>4, <2>2
    <3>2. Append(q, x) \in Seq(Commands) /\ Linked(Append(q, x), b, s)
      BY <1>2, <1>3, <1>4, AppendLinked
    <3>3. Timed(Append(q, x), now', s)
      BY <1>2, <1>3, <1>4, <1>6, AppendTimed
    <3>. QED
      BY <3>1, <3>2, <3>3
  <2>. QED
    BY <2>1, <2>2
<1>8. Before(b) <= now' /\ b.div > 0
  <2>1. CASE pending = Frame
    <3>1. b.div = m.div - now /\ now' = 0
      BY <1>1, <1>4, <2>1
    <3>2. Before(b) = Before(m) - now
      BY <1>2, <1>4, <3>1, Constants DEF Before
    <3>. QED
      BY <1>1, <1>2, <3>1, <3>2
  <2>2. CASE pending # Frame
    BY <1>1, <1>2, <1>4, <2>2 DEF Before
  <2>. QED
    BY <2>1, <2>2
<1>9. Typed'
  BY <1>1, <1>2, <1>4, <1>6, <1>7 DEF IInv, Typed
<1>. QED
  BY <1>1, <1>2, <1>7, <1>8, <1>9 DEF IInv, Before

LEMMA SlaveUpdateIInv == ASSUME IInv, SlaveUpdate PROVE IInv'
<1>1. /\ queue # << >> /\ queue[1].ts >= s.div /\ s' = SlaveTick(s)
      /\ UNCHANGED <<now, m, pending, updated, queue, aborted>>
  <2>1. queue # << >> /\ queue \in Seq(Commands)
    BY DEF SlaveUpdate, IInv, Typed
  <2>2. Head(queue) = queue[1]
    BY <2>1
  <2>. QED
    BY <2>1, <2>2 DEF SlaveUpdate
<1>2. /\ m \in Masters /\ s \in Slaves /\ queue \in Seq(Commands) /\ Len(queue) \in Nat \ {0}
      /\ s.div \in Nat
  BY <1>1, EmptySeq DEF IInv, Typed, Slaves
<1>3. /\ s' \in Slaves /\ Before(s') = s.div /\ s'.div > s.div /\ s' = STick[s] /\ s'.div \in Nat
  <2>1. SlaveTick(s) \in Slaves /\ Before(SlaveTick(s)) = s.div /\ SlaveTick(s).div > s.div
    BY <1>2, STickType
  <2>2. STick[s] = SlaveTick(s)
    BY <1>2 DEF STick
  <2>. QED
    BY <1>1, <2>1, <2>2, BeforeInt DEF Before
<1>4. Linked(queue, m, s')
  <2>1. PICK M : Chain(M, queue, m, s)
    BY DEF IInv, Linked
  <2>2. M[1] \in Masters /\ Abreast(M[1], s)
    <3>1. 1 \in 1 .. Len(queue) + 1
      BY <1>2
    <3>. QED
      BY <2>1, <3>1 DEF Chain
  <2>3. Abreast(M[1], STick[s])
    BY <1>2, <2>2, SlaveTickAbreast
  <2>4. Chain(M, queue, m, STick[s])
    BY <2>1, <2>3 DEF Chain
  <2>. QED
    BY <1>3, <2>4 DEF Linked
<1>5. Timed(queue, now, s')
  <2>1. After(queue, 0, now) = queue[1].ts
    BY <1>2 DEF After
  <2>2. queue[1].ts \in Nat
    <3>1. 1 \in 1 .. Len(queue)
      BY <1>2
    <3>. QED
      BY <1>2, <3>1, ElementOfSeq, CommandType
  <2>3. Before(s') <= After(queue, 0, now)
    BY <1>1, <1>2, <1>3, <2>1, <2>2
  <2>. QED
    BY <2>3 DEF IInv, Timed
<1>6. Typed' /\ s'.div > 0
  BY <1>1, <1>2, <1>3 DEF IInv, Typed
<1>7. Linked(queue, m, s)' /\ Timed(queue, now, s)' /\ (Before(m) <= now)' /\ m'.div > 0
  BY <1>1, <1>4, <1>5 DEF IInv, Linked, Chain, Timed, Before
<1>. QED
  BY <1>6, <1>7 DEF IInv

LEMMA SlaveCommandIInv == ASSUME IInv, SlaveCommand PROVE IInv'
<1>. DEFINE x == queue[1]
            e == Heeded(s, x.cmd, x.ts)
<1>1. /\ queue # << >> /\ x.ts < s.div /\ s' = e /\ queue' = Tail(queue)
      /\ aborted' \in BOOLEAN /\ UNCHANGED <<now, m, pending, updated>>
  <2>1. queue # << >> /\ queue \in Seq(Commands)
    BY DEF SlaveCommand, IInv, Typed
  <2>2. Head(queue) = queue[1]
    BY <2>1
  <2>3. SlaveAct(x.ts, x.cmd) = e
    BY AccessIs
  <2>. QED
    BY <2>1, <2>2, <2>3 DEF SlaveCommand
<1>2. /\ m \in Masters /\ s \in Slaves /\ queue \in Seq(Commands) /\ now \in Nat /\ s.div > 0
      /\ Linked(queue, m, s) /\ Timed(queue, now, s)
  BY DEF IInv, Typed
<1>3. Tail(queue) \in Seq(Commands) /\ e \in Slaves /\ Linked(Tail(queue), m, e)
  BY <1>1, <1>2, TailLinked
<1>4. Timed(Tail(queue), now, e) /\ e.div > 0
  BY <1>1, <1>2, TailTimed
<1>. HIDE DEF x, e
<1>5. Typed'
  BY <1>1, <1>3 DEF IInv, Typed
<1>6. Linked(queue, m, s)' /\ Timed(queue, now, s)' /\ (Before(m) <= now)' /\ m'.div > 0 /\ s'.div > 0
  BY <1>1, <1>3, <1>4 DEF IInv, Linked, Chain, Timed, Before
<1>. QED
  BY <1>5, <1>6 DEF IInv

LEMMA NextIInv == IInv /\ [Next]_vars => IInv'
<1>. SUFFICES ASSUME IInv, [Next]_vars PROVE IInv'
  OBVIOUS
<1>1. CASE UNCHANGED vars
  BY <1>1 DEF vars, IInv, Typed, Before
<1>2. CASE Next
  BY <1>2, NewSongIInv, BeginIInv, CycleIInv, ForceUpdateIInv, MasterUpdateIInv, FinishIInv,
     SlaveUpdateIInv, SlaveCommandIInv DEF Next
<1>. QED
  BY <1>1, <1>2

THEOREM Inductive == Spec => []IInv
BY InitIInv, NextIInv, PTL DEF Spec

\* Both units, the pending access and the queue stay in their ranges.
THEOREM Types == Spec => []TypeOK
<1>1. IInv => TypeOK
  <2>. SUFFICES ASSUME IInv PROVE TypeOK
    OBVIOUS
  <2>1. \A i \in DOMAIN queue : queue[i] \in Commands
    BY LenProperties, ElementOfSeq DEF IInv, Typed
  <2>2. ASSUME NEW i \in DOMAIN queue
        PROVE  /\ queue[i].ts \in Nat
               /\ queue[i].cmd \in Accesses \cup {Frame, Update} \/ queue[i].cmd.reg = "compare"
    <3>1. queue[i] \in Commands
      BY <2>1
    <3>2. \A c \in {Compare(w, n) : w \in Pulses, n \in Nat} : c.reg = "compare"
      BY DEF Compare
    <3>. QED
      BY <3>1, <3>2 DEF Commands
  <2>. QED
    BY <2>2 DEF TypeOK, IInv, Typed, Masters, Slaves
<1>. QED
  BY <1>1, Inductive, PTL

\* What the 6502 reads from $5015 is what is heard, once the slave has caught up.
THEOREM Heard == Spec => []StatusIsHeard
<1>1. IInv => StatusIsHeard
  <2>. SUFFICES ASSUME IInv, InStep
                PROVE  \A w \in Pulses : /\ w \in m.status <=> s.lc[w] > 0
                                         /\ w \in m.status => m.lc[w] = s.lc[w]
    BY DEF StatusIsHeard
  <2>1. Abreast(m, s) /\ m \in Masters /\ s \in Slaves
    <3>1. PICK M : Chain(M, queue, m, s)
      BY DEF IInv, Linked
    <3>2. Len(queue) = 0
      BY EmptySeq DEF InStep
    <3>. QED
      BY <3>1, <3>2 DEF Chain, IInv, Typed
  <2>2. Agree(m, s)
    BY <2>1, SameAgree DEF InStep
  <2>. QED
    BY <2>2 DEF Agree
<1>. QED
  BY <1>1, Inductive, PTL

\* At a frame boundary both have counted the same half frames.
THEOREM Boundary == Spec => []FramesInStep
<1>1. IInv => FramesInStep
  <2>. SUFFICES ASSUME IInv, now = 0, queue = << >>
                PROVE  m.div = s.div /\ m.alt = s.alt
    BY DEF FramesInStep
  <2>1. m \in Masters /\ s \in Slaves /\ Len(queue) = 0
    BY EmptySeq DEF IInv, Typed
  <2>2. Abreast(m, s)
    <3>1. PICK M : Chain(M, queue, m, s)
      BY DEF IInv, Linked
    <3>. QED
      BY <2>1, <3>1 DEF Chain
  <2>3. Settled(m, 0) /\ Settled(s, 0)
    BY <2>1 DEF IInv, Timed, After, Settled
  <2>4. Agree(m, s)
    BY <2>1, <2>2, <2>3, SettledAgree
  <2>. QED
    BY <2>4 DEF Agree
<1>. QED
  BY <1>1, Inductive, PTL
=============================================================================
