----------------------------- MODULE FdsProofs ------------------------------
(***************************************************************************)
(* What is proved of FdsShadow, for every period, song and however far the *)
(* slave is behind: the types, LevelsAreHeard, ClocksInStep and            *)
(* WaveIsHeard.  The argument is that of Mmc5Proofs: there is a master for *)
(* every command the slave still has to read, and steps of the envelope    *)
(* clock of one of the two bring the slave and the oldest of them to agree *)
(* on the clock, and on the envelopes as long as none was stopped.  A      *)
(* clock may stand still here, and be set by a command.                    *)
(***************************************************************************)
EXTENDS FdsShadow, NatFacts, SequenceTheorems

Masters == [div : Nat \cup {Never}, period : Nat \ {0}, halt : BOOLEAN,
            fixed : SUBSET Units, up : SUBSET Units,
            per : [Units -> Nat \ {0}], cnt : [Units -> Nat \ {0}], level : [Units -> Nat],
            ww : BOOLEAN, ram : [Cells -> Samples]]
Slaves == [div : Nat \cup {Never}, period : Nat \ {0}, halt : BOOLEAN,
           fixed : SUBSET Units, up : SUBSET Units,
           per : [Units -> 0 .. Wrap - 1], cnt : [Units -> -Wrap .. Wrap - 1],
           level : [Units -> Nat], ram : [Cells -> Samples]]

Waves == {Wave(c, x) : c \in Cells, x \in Samples}
Envs == {Env(w, f, u, v) : w \in Units, f \in BOOLEAN, u \in BOOLEAN, v \in Values}
Cmds == Accesses \cup {Frame, Update} \cup {Compare(w, n) : w \in Units, n \in Nat} \cup Waves
Commands == [ts : Nat, cmd : Cmds]

\* The commands that reach the envelopes or their clock, and the others.
Real == Envs \cup {Gate(h) : h \in Halts} \cup {Speed(d) : d \in Speeds} \cup {Frame}
Quiet == {Read, Update} \cup {Protect(ww) : ww \in Protections}
            \cup {Compare(w, n) : w \in Units, n \in Nat} \cup Waves

MTick == [c \in Masters |-> IF c.div = Never THEN c ELSE MasterTick(c)]
STick == [d \in Slaves |-> IF d.div = Never THEN d ELSE SlaveTick(d)]

\* The step of the clock a unit waits for has begun at t; it has not ended.
Begun(c, t) == c.div = Never \/ c.div - c.period <= t
Ahead(c, t) == c.div = Never \/ t < c.div
Settled(c, t) == Begun(c, t) /\ Ahead(c, t)

ClockAgrees(c, d) == c.div = d.div /\ (c.div # Never => c.period = d.period)

\* An envelope that was not written has no level: the counters, which start
\* differently, do not matter then.
LevelsAgree(c, d) ==
    /\ c.halt = FALSE /\ d.halt = FALSE
    /\ c.fixed = d.fixed /\ c.up = d.up /\ c.level = d.level
    /\ \A w \in Units : \/ c.per[w] = d.per[w] /\ c.cnt[w] = d.cnt[w]
                        \/ w \notin c.fixed /\ w \notin c.up /\ c.level[w] = 0

\* F: the accesses of the song that the two are known to differ on.
Agree(F, c, d) == ClockAgrees(c, d) /\ (F = {} => LevelsAgree(c, d))

\* They do after some more steps of the clock of one of them.
Abreast(F, c, d) ==
    \/ \E x \in Orbit(MTick, c) : Agree(F, x, d)
    \/ \E y \in Orbit(STick, d) : Agree(F, c, y)

\* MasterAccess() of any master, but for the wave memory and SpillTop.
Acted(c, a, t) ==
    CASE a.reg = "env"   -> MasterEnv(c, a)
      [] a.reg = "gate"  -> [c EXCEPT !.halt = a.halt]
      [] a.reg = "speed" -> IF a.data = 0 THEN [c EXCEPT !.div = Never]
                            ELSE [c EXCEPT !.period = (a.data + 1) * PreScale,
                                           !.div = t + (a.data + 1) * PreScale]
      [] a.reg = "frame" -> [c EXCEPT !.div = IF c.div = Never THEN @ ELSE @ - t]
      [] OTHER           -> c

\* SlaveAct() of any slave, but for the wave memory.
Heeded(d, a, t) ==
    CASE a.reg = "env" ->
           [d EXCEPT !.fixed = IF a.fixed THEN @ \cup {a.w} ELSE @ \ {a.w},
                     !.up    = IF a.up THEN @ \cup {a.w} ELSE @ \ {a.w},
                     !.level[a.w] = IF a.fixed THEN a.v ELSE @,
                     !.per[a.w] = a.v + 1,
                     !.cnt[a.w] = a.v + 1]
      [] a.reg = "gate" ->
           [d EXCEPT !.halt = a.halt, !.cnt = IF a.halt THEN d.per ELSE @]
      [] a.reg = "speed" ->
           [d EXCEPT !.period = (a.data + 1) * PreScale,
                     !.div = IF a.data = 0 THEN Never ELSE t + (a.data + 1) * PreScale]
      [] a.reg = "frame" -> [d EXCEPT !.div = IF d.div = Never THEN @ ELSE @ - t]
      [] OTHER -> d

-----------------------------------------------------------------------------
(* The constants. *)

LEMMA Constants ==
    /\ Values \subseteq Nat /\ Cap \in Nat /\ PowerPeriod \in Nat \ {0} /\ PreScale \in Nat \ {0}
    /\ Speeds \subseteq Nat /\ Halts \subseteq BOOLEAN /\ Protections \subseteq BOOLEAN
    /\ 0 \in Samples /\ SpillTop \in Nat /\ Never \notin Nat /\ Wrap \in Nat \ {0}
    /\ \A v \in Values : v + 1 < Wrap
BY ConstantsAssumption

LEMMA Periods ==
    ASSUME NEW d \in Speeds
    PROVE  (d + 1) * PreScale \in Nat \ {0}
<1>1. d + 1 \in Nat \ {0} /\ PreScale \in Nat \ {0}
  BY Constants
<1>2. \A x, y \in Nat \ {0} : x * y \in Nat \ {0}
  <2>. SUFFICES ASSUME NEW x \in Nat \ {0}, NEW y \in Nat \ {0} PROVE x * y \in Nat \ {0}
    OBVIOUS
  <2>1. x * y >= 1 * y
    BY x >= 1, y >= 1
  <2>. QED
    BY <2>1
<1>. QED
  BY <1>1, <1>2

-----------------------------------------------------------------------------
(* Units: a step of the clock. *)

LEMMA MTickFields ==
    ASSUME NEW c \in Masters, c.div # Never
    PROVE  LET r == MasterTick(c)
           IN /\ r \in Masters
              /\ r.div = c.div + c.period /\ r.div \in Nat /\ r.period = c.period
              /\ r.halt = c.halt /\ r.fixed = c.fixed /\ r.up = c.up /\ r.per = c.per
              /\ r.ww = c.ww /\ r.ram = c.ram
              /\ \A w \in Units :
                    /\ r.cnt[w] = IF c.halt THEN c.cnt[w]
                                  ELSE IF c.cnt[w] = 1 THEN c.per[w] ELSE c.cnt[w] - 1
                    /\ r.level[w] = IF c.halt THEN c.level[w]
                                    ELSE IF c.cnt[w] = 1 THEN MasterStep(c, w) ELSE c.level[w]
<1>. DEFINE dv == c.div + c.period
            cnt == IF c.halt THEN c.cnt
                   ELSE [w \in Units |-> IF c.cnt[w] = 1 THEN c.per[w] ELSE c.cnt[w] - 1]
            lev == IF c.halt THEN c.level
                   ELSE [w \in Units |-> IF c.cnt[w] = 1 THEN MasterStep(c, w) ELSE c.level[w]]
            r == MasterTick(c)
<1>1. r = [c EXCEPT !.div = dv, !.cnt = cnt, !.level = lev]
  BY DEF MasterTick
<1>2. /\ c.div \in Nat /\ c.period \in Nat \ {0} /\ c.halt \in BOOLEAN
      /\ c.cnt \in [Units -> Nat \ {0}] /\ c.per \in [Units -> Nat \ {0}] /\ c.level \in [Units -> Nat]
  BY DEF Masters
<1>3. dv \in Nat
  BY <1>2
<1>4. cnt \in [Units -> Nat \ {0}]
  BY <1>2
<1>5. \A w \in Units : MasterStep(c, w) \in Nat
  BY <1>2 DEF MasterStep
<1>6. lev \in [Units -> Nat]
  BY <1>2, <1>5
<1>7. \A w \in Units : /\ cnt[w] = IF c.halt THEN c.cnt[w]
                                   ELSE IF c.cnt[w] = 1 THEN c.per[w] ELSE c.cnt[w] - 1
                       /\ lev[w] = IF c.halt THEN c.level[w]
                                   ELSE IF c.cnt[w] = 1 THEN MasterStep(c, w) ELSE c.level[w]
  BY <1>2
<1>. HIDE DEF dv, cnt, lev, r
<1>8. /\ r \in Masters /\ r.div = dv /\ r.cnt = cnt /\ r.level = lev
      /\ r.period = c.period /\ r.halt = c.halt /\ r.fixed = c.fixed /\ r.up = c.up
      /\ r.per = c.per /\ r.ww = c.ww /\ r.ram = c.ram
  BY <1>1, <1>3, <1>4, <1>6 DEF Masters
<1>. QED
  BY <1>3, <1>7, <1>8 DEF r, dv

LEMMA STickFields ==
    ASSUME NEW c \in Slaves, c.div # Never
    PROVE  LET r == SlaveTick(c)
           IN /\ r \in Slaves
              /\ r.div = c.div + c.period /\ r.div \in Nat /\ r.period = c.period
              /\ r.halt = c.halt /\ r.fixed = c.fixed /\ r.up = c.up /\ r.per = c.per
              /\ r.ram = c.ram
              /\ \A w \in Units :
                    /\ r.cnt[w] = IF c.halt THEN c.cnt[w]
                                  ELSE IF c.cnt[w] = 1 THEN c.per[w]
                                  ELSE IF c.cnt[w] = -Wrap THEN Wrap - 1 ELSE c.cnt[w] - 1
                    /\ r.level[w] = IF c.halt THEN c.level[w]
                                    ELSE IF c.cnt[w] = 1 THEN SlaveStep(c, w) ELSE c.level[w]
<1>. DEFINE dv == c.div + c.period
            cnt == IF c.halt THEN c.cnt
                   ELSE [w \in Units |-> IF c.cnt[w] = 1 THEN c.per[w]
                                         ELSE IF c.cnt[w] = -Wrap THEN Wrap - 1 ELSE c.cnt[w] - 1]
            lev == IF c.halt THEN c.level
                   ELSE [w \in Units |-> IF c.cnt[w] = 1 THEN SlaveStep(c, w) ELSE c.level[w]]
            r == SlaveTick(c)
<1>1. r = [c EXCEPT !.div = dv, !.cnt = cnt, !.level = lev]
  BY DEF SlaveTick
<1>2. /\ c.div \in Nat /\ c.period \in Nat \ {0} /\ c.halt \in BOOLEAN
      /\ c.cnt \in [Units -> -Wrap .. Wrap - 1] /\ c.per \in [Units -> 0 .. Wrap - 1]
      /\ c.level \in [Units -> Nat] /\ Wrap \in Nat \ {0}
  BY Constants DEF Slaves
<1>3. dv \in Nat
  BY <1>2
<1>4. cnt \in [Units -> -Wrap .. Wrap - 1]
  <2>1. \A w \in Units : (IF c.cnt[w] = 1 THEN c.per[w]
                          ELSE IF c.cnt[w] = -Wrap THEN Wrap - 1 ELSE c.cnt[w] - 1) \in -Wrap .. Wrap - 1
    BY <1>2
  <2>. QED
    BY <1>2, <2>1
<1>5. \A w \in Units : SlaveStep(c, w) \in Nat
  BY <1>2 DEF SlaveStep
<1>6. lev \in [Units -> Nat]
  BY <1>2, <1>5
<1>7. \A w \in Units : /\ cnt[w] = IF c.halt THEN c.cnt[w]
                                   ELSE IF c.cnt[w] = 1 THEN c.per[w]
                                   ELSE IF c.cnt[w] = -Wrap THEN Wrap - 1 ELSE c.cnt[w] - 1
                       /\ lev[w] = IF c.halt THEN c.level[w]
                                   ELSE IF c.cnt[w] = 1 THEN SlaveStep(c, w) ELSE c.level[w]
  BY <1>2
<1>. HIDE DEF dv, cnt, lev, r
<1>8. /\ r \in Slaves /\ r.div = dv /\ r.cnt = cnt /\ r.level = lev
      /\ r.period = c.period /\ r.halt = c.halt /\ r.fixed = c.fixed /\ r.up = c.up
      /\ r.per = c.per /\ r.ram = c.ram
  BY <1>1, <1>3, <1>4, <1>6 DEF Slaves
<1>. QED
  BY <1>3, <1>7, <1>8 DEF r, dv

LEMMA Steps ==
    MTick \in [Masters -> Masters] /\ STick \in [Slaves -> Slaves]
BY MTickFields, STickFields DEF MTick, STick

LEMMA ClockTypes ==
    ASSUME NEW c \in Masters \cup Slaves
    PROVE  c.div \in Nat \cup {Never} /\ c.period \in Nat \ {0}
BY DEF Masters, Slaves

\* Another step of both keeps them agreed.
LEMMA TickAgrees ==
    ASSUME NEW F, NEW c \in Masters, NEW d \in Slaves, Agree(F, c, d)
    PROVE  Agree(F, MTick[c], STick[d])
<1>1. CASE c.div = Never
  BY <1>1 DEF Agree, ClockAgrees, MTick, STick
<1>2. CASE c.div # Never
  <2>. DEFINE r == MTick[c]
              q == STick[d]
  <2>1. c.div = d.div /\ d.div # Never /\ c.period = d.period
    BY <1>2 DEF Agree, ClockAgrees
  <2>2. /\ r.div = c.div + c.period /\ r.period = c.period
        /\ r.halt = c.halt /\ r.fixed = c.fixed /\ r.up = c.up /\ r.per = c.per
        /\ \A w \in Units :
              /\ r.cnt[w] = IF c.halt THEN c.cnt[w]
                            ELSE IF c.cnt[w] = 1 THEN c.per[w] ELSE c.cnt[w] - 1
              /\ r.level[w] = IF c.halt THEN c.level[w]
                              ELSE IF c.cnt[w] = 1 THEN MasterStep(c, w) ELSE c.level[w]
        /\ r \in Masters
    BY <1>2, MTickFields DEF MTick
  <2>3. /\ q.div = d.div + d.period /\ q.period = d.period
        /\ q.halt = d.halt /\ q.fixed = d.fixed /\ q.up = d.up /\ q.per = d.per
        /\ \A w \in Units :
              /\ q.cnt[w] = IF d.halt THEN d.cnt[w]
                            ELSE IF d.cnt[w] = 1 THEN d.per[w]
                            ELSE IF d.cnt[w] = -Wrap THEN Wrap - 1 ELSE d.cnt[w] - 1
              /\ q.level[w] = IF d.halt THEN d.level[w]
                              ELSE IF d.cnt[w] = 1 THEN SlaveStep(d, w) ELSE d.level[w]
        /\ q \in Slaves
    BY <2>1, STickFields DEF STick
  <2>. HIDE DEF r, q
  <2>4. ClockAgrees(r, q)
    BY <2>1, <2>2, <2>3 DEF ClockAgrees
  <2>5. ASSUME F = {} PROVE LevelsAgree(r, q)
    <3>1. LevelsAgree(c, d)
      BY <2>5 DEF Agree
    <3>2. c.halt = FALSE /\ d.halt = FALSE /\ c.fixed = d.fixed /\ c.up = d.up /\ c.level = d.level
      BY <3>1 DEF LevelsAgree
    <3>3. /\ c.cnt \in [Units -> Nat \ {0}] /\ c.level \in [Units -> Nat]
          /\ r.level \in [Units -> Nat] /\ q.level \in [Units -> Nat]
      BY <2>2, <2>3 DEF Masters, Slaves
    <3>4. ASSUME NEW w \in Units
          PROVE  /\ r.level[w] = q.level[w]
                 /\ \/ r.per[w] = q.per[w] /\ r.cnt[w] = q.cnt[w]
                    \/ w \notin r.fixed /\ w \notin r.up /\ r.level[w] = 0
      <4>1. MasterStep(c, w) = SlaveStep(d, w)
        BY <3>2 DEF MasterStep, SlaveStep
      <4>2. /\ r.cnt[w] = IF c.cnt[w] = 1 THEN c.per[w] ELSE c.cnt[w] - 1
            /\ r.level[w] = IF c.cnt[w] = 1 THEN MasterStep(c, w) ELSE c.level[w]
            /\ q.cnt[w] = IF d.cnt[w] = 1 THEN d.per[w]
                          ELSE IF d.cnt[w] = -Wrap THEN Wrap - 1 ELSE d.cnt[w] - 1
            /\ q.level[w] = IF d.cnt[w] = 1 THEN SlaveStep(d, w) ELSE d.level[w]
        BY <2>2, <2>3, <3>2
      <4>3. CASE c.per[w] = d.per[w] /\ c.cnt[w] = d.cnt[w]
        <5>1. d.cnt[w] # -Wrap
          BY <3>3, <4>3, Constants
        <5>. QED
          BY <2>2, <2>3, <3>2, <4>1, <4>2, <4>3, <5>1
      <4>4. CASE w \notin c.fixed /\ w \notin c.up /\ c.level[w] = 0
        <5>1. MasterStep(c, w) = 0 /\ SlaveStep(d, w) = 0 /\ d.level[w] = 0
          BY <3>2, <4>1, <4>4 DEF MasterStep
        <5>. QED
          BY <2>2, <4>2, <4>4, <5>1
      <4>. QED
        BY <3>1, <4>3, <4>4 DEF LevelsAgree
    <3>5. r.level = q.level
      BY <3>3, <3>4
    <3>. QED
      BY <2>2, <2>3, <3>2, <3>4, <3>5 DEF LevelsAgree
  <2>6. Agree(F, r, q)
    BY <2>4, <2>5 DEF Agree
  <2>. QED
    BY <2>6 DEF r, q
<1>. QED
  BY <1>1, <1>2

\* Of what steps reach, only the unit itself still waits for its step.
LEMMA MasterLater ==
    ASSUME NEW c \in Masters, NEW x \in Orbit(MTick, c)
    PROVE  /\ x \in Masters
           /\ x = c \/ (c.div # Never /\ x.div # Never /\ x.div - x.period >= c.div)
<1>. DEFINE S == {y \in Masters : y = c \/ (c.div # Never /\ y.div # Never /\ y.div - y.period >= c.div)}
<1>1. ASSUME NEW y \in S PROVE MTick[y] \in S
  <2>0. y \in Masters /\ y.div \in Nat \cup {Never} /\ y.period \in Nat \ {0}
    BY ClockTypes
  <2>1. CASE y.div = Never
    BY <2>0, <2>1 DEF MTick
  <2>2. CASE y.div # Never
    <3>. DEFINE r == MTick[y]
    <3>1. r \in Masters /\ r.div = y.div + y.period /\ r.div \in Nat /\ r.period = y.period
      BY <2>0, <2>2, MTickFields DEF MTick
    <3>. HIDE DEF r
    <3>2. r.div # Never /\ r.div - r.period = y.div
      BY <2>0, <2>2, <3>1, Constants
    <3>3. c.div # Never /\ y.div >= c.div
      <4>1. CASE y = c
        BY <2>0, <2>2, <4>1
      <4>2. CASE c.div # Never /\ y.div - y.period >= c.div
        BY <2>0, <2>2, <4>2, ClockTypes
      <4>. QED
        BY <4>1, <4>2
    <3>. QED
      BY <3>1, <3>2, <3>3 DEF r
  <2>. QED
    BY <2>1, <2>2
<1>2. S \in SUBSET Masters /\ c \in S
  OBVIOUS
<1>. HIDE DEF S
<1>3. Orbit(MTick, c) \subseteq S
  BY <1>1, <1>2, Steps, OrbitWithin
<1>. QED
  BY <1>3 DEF S

LEMMA SlaveLater ==
    ASSUME NEW c \in Slaves, NEW x \in Orbit(STick, c)
    PROVE  /\ x \in Slaves
           /\ x = c \/ (c.div # Never /\ x.div # Never /\ x.div - x.period >= c.div)
<1>. DEFINE S == {y \in Slaves : y = c \/ (c.div # Never /\ y.div # Never /\ y.div - y.period >= c.div)}
<1>1. ASSUME NEW y \in S PROVE STick[y] \in S
  <2>0. y \in Slaves /\ y.div \in Nat \cup {Never} /\ y.period \in Nat \ {0}
    BY ClockTypes
  <2>1. CASE y.div = Never
    BY <2>0, <2>1 DEF STick
  <2>2. CASE y.div # Never
    <3>. DEFINE r == STick[y]
    <3>1. r \in Slaves /\ r.div = y.div + y.period /\ r.div \in Nat /\ r.period = y.period
      BY <2>0, <2>2, STickFields DEF STick
    <3>. HIDE DEF r
    <3>2. r.div # Never /\ r.div - r.period = y.div
      BY <2>0, <2>2, <3>1, Constants
    <3>3. c.div # Never /\ y.div >= c.div
      <4>1. CASE y = c
        BY <2>0, <2>2, <4>1
      <4>2. CASE c.div # Never /\ y.div - y.period >= c.div
        BY <2>0, <2>2, <4>2, ClockTypes
      <4>. QED
        BY <4>1, <4>2
    <3>. QED
      BY <3>1, <3>2, <3>3 DEF r
  <2>. QED
    BY <2>1, <2>2
<1>2. S \in SUBSET Slaves /\ c \in S
  OBVIOUS
<1>. HIDE DEF S
<1>3. Orbit(STick, c) \subseteq S
  BY <1>1, <1>2, Steps, OrbitWithin
<1>. QED
  BY <1>3 DEF S

-----------------------------------------------------------------------------
(* Abreast. *)

\* Two that wait for the same step, or for none, agree.
LEMMA SameAgree ==
    ASSUME NEW F, NEW c \in Masters, NEW d \in Slaves, Abreast(F, c, d), c.div = d.div
    PROVE  Agree(F, c, d)
<1>1. CASE \E x \in Orbit(MTick, c) : Agree(F, x, d)
  <2>1. PICK x \in Orbit(MTick, c) : Agree(F, x, d)
    BY <1>1
  <2>2. x \in Masters /\ (x = c \/ (c.div # Never /\ x.div # Never /\ x.div - x.period >= c.div))
    BY MasterLater
  <2>3. x.div = c.div
    BY <2>1 DEF Agree, ClockAgrees
  <2>4. x = c
    BY <2>2, <2>3, ClockTypes
  <2>. QED
    BY <2>1, <2>4
<1>2. CASE \E y \in Orbit(STick, d) : Agree(F, c, y)
  <2>1. PICK y \in Orbit(STick, d) : Agree(F, c, y)
    BY <1>2
  <2>2. y \in Slaves /\ (y = d \/ (d.div # Never /\ y.div # Never /\ y.div - y.period >= d.div))
    BY SlaveLater
  <2>3. y.div = d.div
    BY <2>1 DEF Agree, ClockAgrees
  <2>4. y = d
    BY <2>2, <2>3, ClockTypes
  <2>. QED
    BY <2>1, <2>4
<1>. QED
  BY <1>1, <1>2 DEF Abreast

\* So do two for which no step is due.
LEMMA SettledAgree ==
    ASSUME NEW F, NEW c \in Masters, NEW d \in Slaves, Abreast(F, c, d), NEW t \in Nat,
           Settled(c, t), Settled(d, t)
    PROVE  Agree(F, c, d)
<1>1. CASE \E x \in Orbit(MTick, c) : Agree(F, x, d)
  <2>1. PICK x \in Orbit(MTick, c) : Agree(F, x, d)
    BY <1>1
  <2>2. x \in Masters /\ (x = c \/ (c.div # Never /\ x.div # Never /\ x.div - x.period >= c.div))
    BY MasterLater
  <2>3. CASE x # c
    <3>1. c.div # Never /\ x.div # Never /\ x.div - x.period >= c.div /\ t < c.div
      BY <2>2, <2>3 DEF Settled, Ahead
    <3>2. d.div # Never /\ d.div - d.period = x.div - x.period
      BY <2>1, <3>1 DEF Agree, ClockAgrees
    <3>3. d.div - d.period <= t
      BY <3>2 DEF Settled, Begun
    <3>. QED
      BY <2>2, <3>1, <3>2, <3>3, ClockTypes
  <2>. QED
    BY <2>1, <2>3
<1>2. CASE \E y \in Orbit(STick, d) : Agree(F, c, y)
  <2>1. PICK y \in Orbit(STick, d) : Agree(F, c, y)
    BY <1>2
  <2>2. y \in Slaves /\ (y = d \/ (d.div # Never /\ y.div # Never /\ y.div - y.period >= d.div))
    BY SlaveLater
  <2>3. CASE y # d
    <3>1. d.div # Never /\ y.div # Never /\ y.div - y.period >= d.div /\ t < d.div
      BY <2>2, <2>3 DEF Settled, Ahead
    <3>2. c.div # Never /\ c.div - c.period = y.div - y.period
      BY <2>1, <3>1 DEF Agree, ClockAgrees
    <3>3. c.div - c.period <= t
      BY <3>2 DEF Settled, Begun
    <3>. QED
      BY <2>2, <3>1, <3>2, <3>3, ClockTypes
  <2>. QED
    BY <2>1, <2>3
<1>. QED
  BY <1>1, <1>2 DEF Abreast

LEMMA AgreeAbreast ==
    ASSUME NEW F, NEW c \in Masters, NEW d \in Slaves, Agree(F, c, d)
    PROVE  Abreast(F, c, d)
BY Steps, OrbitStart DEF Abreast

\* What is asked of them becomes less with every fault.
LEMMA MoreFaults ==
    ASSUME NEW F, NEW G, F \subseteq G, NEW c, NEW d, Abreast(F, c, d)
    PROVE  Abreast(G, c, d)
<1>1. \A x, y : Agree(F, x, y) => Agree(G, x, y)
  BY DEF Agree
<1>. QED
  BY <1>1 DEF Abreast

LEMMA MasterTickAbreast ==
    ASSUME NEW F, NEW c \in Masters, NEW d \in Slaves, Abreast(F, c, d)
    PROVE  Abreast(F, MTick[c], d)
<1>1. CASE \E x \in Orbit(MTick, c) : Agree(F, x, d)
  <2>1. PICK x \in Orbit(MTick, c) : Agree(F, x, d)
    BY <1>1
  <2>2. x = c \/ x \in Orbit(MTick, MTick[c])
    BY Steps, OrbitNext
  <2>3. CASE x = c
    <3>1. Agree(F, MTick[c], STick[d])
      BY <2>1, <2>3, TickAgrees
    <3>2. STick[d] \in Orbit(STick, d)
      BY Steps, OrbitStart, OrbitStep
    <3>. QED
      BY <3>1, <3>2 DEF Abreast
  <2>. QED
    BY <2>1, <2>2, <2>3 DEF Abreast
<1>2. CASE \E y \in Orbit(STick, d) : Agree(F, c, y)
  <2>1. PICK y \in Orbit(STick, d) : Agree(F, c, y)
    BY <1>2
  <2>2. y \in Slaves /\ STick[y] \in Orbit(STick, d)
    BY Steps, OrbitStep
  <2>3. Agree(F, MTick[c], STick[y])
    BY <2>1, <2>2, TickAgrees
  <2>. QED
    BY <2>2, <2>3 DEF Abreast
<1>. QED
  BY <1>1, <1>2 DEF Abreast

LEMMA SlaveTickAbreast ==
    ASSUME NEW F, NEW c \in Masters, NEW d \in Slaves, Abreast(F, c, d)
    PROVE  Abreast(F, c, STick[d])
<1>1. CASE \E x \in Orbit(STick, d) : Agree(F, c, x)
  <2>1. PICK x \in Orbit(STick, d) : Agree(F, c, x)
    BY <1>1
  <2>2. x = d \/ x \in Orbit(STick, STick[d])
    BY Steps, OrbitNext
  <2>3. CASE x = d
    <3>1. Agree(F, MTick[c], STick[d])
      BY <2>1, <2>3, TickAgrees
    <3>2. MTick[c] \in Orbit(MTick, c)
      BY Steps, OrbitStart, OrbitStep
    <3>. QED
      BY <3>1, <3>2 DEF Abreast
  <2>. QED
    BY <2>1, <2>2, <2>3 DEF Abreast
<1>2. CASE \E y \in Orbit(MTick, c) : Agree(F, y, d)
  <2>1. PICK y \in Orbit(MTick, c) : Agree(F, y, d)
    BY <1>2
  <2>2. y \in Masters /\ MTick[y] \in Orbit(MTick, c)
    BY Steps, OrbitStep
  <2>3. Agree(F, MTick[y], STick[d])
    BY <2>1, <2>2, TickAgrees
  <2>. QED
    BY <2>2, <2>3 DEF Abreast
<1>. QED
  BY <1>1, <1>2 DEF Abreast

LEMMA OrbitAbreast ==
    ASSUME NEW F, NEW c \in Masters, NEW d \in Slaves, Abreast(F, c, d), NEW x \in Orbit(MTick, c)
    PROVE  Abreast(F, x, d)
<1>. DEFINE S == {y \in Masters : Abreast(F, y, d)}
<1>1. S \in SUBSET Masters /\ c \in S /\ \A y \in S : MTick[y] \in S
  BY Steps, MasterTickAbreast
<1>. HIDE DEF S
<1>2. Orbit(MTick, c) \subseteq S
  BY <1>1, Steps, OrbitWithin
<1>. QED
  BY <1>2 DEF S

-----------------------------------------------------------------------------
(* Commands. *)

NowAfter(a, t) == IF a = Frame THEN 0 ELSE t

\* A unit without what does not reach the envelopes.
Plain(c) == [c EXCEPT !.ww = FALSE, !.ram = [x \in Cells |-> 0]]

LEMMA PlainFields ==
    ASSUME NEW c \in Masters
    PROVE  /\ Plain(c) \in Masters
           /\ Plain(c).div = c.div /\ Plain(c).period = c.period /\ Plain(c).halt = c.halt
           /\ Plain(c).fixed = c.fixed /\ Plain(c).up = c.up /\ Plain(c).per = c.per
           /\ Plain(c).cnt = c.cnt /\ Plain(c).level = c.level
           /\ Plain(c).ww = FALSE /\ Plain(c).ram = [x \in Cells |-> 0]
<1>. DEFINE ram == [x \in Cells |-> 0]
<1>1. ram \in [Cells -> Samples]
  BY Constants
<1>. HIDE DEF ram
<1>2. [c EXCEPT !.ww = FALSE, !.ram = ram] \in Masters
  BY <1>1 DEF Masters
<1>. QED
  BY <1>2 DEF Plain, Masters, ram

\* Two masters that differ in nothing else.
Same(c, e) ==
    /\ c.div = e.div /\ c.period = e.period /\ c.halt = e.halt /\ c.fixed = e.fixed
    /\ c.up = e.up /\ c.per = e.per /\ c.cnt = e.cnt /\ c.level = e.level

LEMMA PlainSame ==
    ASSUME NEW c \in Masters, NEW e \in Masters, Same(c, e)
    PROVE  Plain(c) = Plain(e)
<1>1. \A x, y \in Masters : Same(x, y) /\ x.ww = y.ww /\ x.ram = y.ram => x = y
  BY DEF Masters, Same
<1>2. Same(Plain(c), Plain(e)) /\ Plain(c).ww = Plain(e).ww /\ Plain(c).ram = Plain(e).ram
  BY PlainFields DEF Same
<1>. QED
  BY <1>1, <1>2, PlainFields

\* What a command does to a master and to a slave.
Acts(c, d, a, t) ==
    /\ Acted(c, a, t) \in Masters /\ Heeded(d, a, t) \in Slaves
    /\ \A F : Agree(F, c, d) /\ (a.reg = "gate" /\ a.halt = TRUE => F # {})
                => Agree(F, Acted(c, a, t), Heeded(d, a, t))
    /\ Settled(c, t) => Settled(Acted(c, a, t), NowAfter(a, t))
    /\ Settled(d, t) => Settled(Heeded(d, a, t), NowAfter(a, t))
    /\ Same(Acted(Plain(c), a, t), Acted(c, a, t))
    /\ Acted(c, a, t).ww = c.ww /\ Acted(c, a, t).ram = c.ram
    /\ Heeded(d, a, t).ram = d.ram

LEMMA EnvValues ==
    ASSUME NEW v \in Values
    PROVE  /\ v \in Nat /\ v + 1 \in Nat \ {0}
           /\ v + 1 \in 0 .. Wrap - 1 /\ v + 1 \in -Wrap .. Wrap - 1
BY Constants

\* r is the unit c with an envelope written.
EnvSet(r, c, a) ==
    /\ r.div = c.div /\ r.period = c.period /\ r.halt = c.halt /\ r.ram = c.ram
    /\ r.fixed = (IF a.fixed THEN c.fixed \cup {a.w} ELSE c.fixed \ {a.w})
    /\ r.up = (IF a.up THEN c.up \cup {a.w} ELSE c.up \ {a.w})
    /\ \A x \in Units :
          /\ r.level[x] = IF x = a.w /\ a.fixed THEN a.v ELSE c.level[x]
          /\ r.per[x] = IF x = a.w THEN a.v + 1 ELSE c.per[x]
          /\ r.cnt[x] = IF x = a.w THEN a.v + 1 ELSE c.cnt[x]

LEMMA MasterEnvFields ==
    ASSUME NEW c \in Masters, NEW a \in Envs, NEW r, r = MasterEnv(c, a)
    PROVE  r \in Masters /\ r.ww = c.ww /\ EnvSet(r, c, a)
<1>. DEFINE fx == IF a.fixed THEN c.fixed \cup {a.w} ELSE c.fixed \ {a.w}
            up == IF a.up THEN c.up \cup {a.w} ELSE c.up \ {a.w}
            lv == [c.level EXCEPT ![a.w] = IF a.fixed THEN a.v ELSE @]
            pr == [c.per EXCEPT ![a.w] = a.v + 1]
            ct == [c.cnt EXCEPT ![a.w] = a.v + 1]
<1>1. a.reg = "env" /\ a.w \in Units /\ a.v \in Values
  BY DEF Envs, Env
<1>2. r = [c EXCEPT !.fixed = fx, !.up = up, !.level = lv, !.per = pr, !.cnt = ct]
  BY <1>1 DEF MasterEnv, Heeded
<1>3. /\ a.v \in Nat /\ a.v + 1 \in Nat \ {0}
      /\ a.v + 1 \in 0 .. Wrap - 1 /\ a.v + 1 \in -Wrap .. Wrap - 1
  BY <1>1, EnvValues
<1>4. /\ fx \in SUBSET Units /\ up \in SUBSET Units /\ lv \in [Units -> Nat]
      /\ pr \in [Units -> Nat \ {0}] /\ ct \in [Units -> Nat \ {0}]
  BY <1>1, <1>3 DEF Masters
<1>6. \A x \in Units : /\ lv[x] = IF x = a.w /\ a.fixed THEN a.v ELSE c.level[x]
                       /\ pr[x] = IF x = a.w THEN a.v + 1 ELSE c.per[x]
                       /\ ct[x] = IF x = a.w THEN a.v + 1 ELSE c.cnt[x]
  BY <1>1 DEF Masters
<1>. HIDE DEF fx, up, lv, pr, ct
<1>5. /\ r \in Masters /\ r.ww = c.ww
      /\ r.div = c.div /\ r.period = c.period /\ r.halt = c.halt /\ r.ram = c.ram
      /\ r.fixed = fx /\ r.up = up /\ r.level = lv /\ r.per = pr /\ r.cnt = ct
  BY <1>2, <1>4 DEF Masters
<1>. QED
  BY <1>5, <1>6 DEF EnvSet, fx, up

LEMMA SlaveEnvFields ==
    ASSUME NEW c \in Slaves, NEW a \in Envs, NEW t, NEW r, r = Heeded(c, a, t)
    PROVE  r \in Slaves /\ EnvSet(r, c, a)
<1>. DEFINE fx == IF a.fixed THEN c.fixed \cup {a.w} ELSE c.fixed \ {a.w}
            up == IF a.up THEN c.up \cup {a.w} ELSE c.up \ {a.w}
            lv == [c.level EXCEPT ![a.w] = IF a.fixed THEN a.v ELSE @]
            pr == [c.per EXCEPT ![a.w] = a.v + 1]
            ct == [c.cnt EXCEPT ![a.w] = a.v + 1]
<1>1. a.reg = "env" /\ a.w \in Units /\ a.v \in Values
  BY DEF Envs, Env
<1>2. r = [c EXCEPT !.fixed = fx, !.up = up, !.level = lv, !.per = pr, !.cnt = ct]
  BY <1>1 DEF MasterEnv, Heeded
<1>3. /\ a.v \in Nat /\ a.v + 1 \in Nat \ {0}
      /\ a.v + 1 \in 0 .. Wrap - 1 /\ a.v + 1 \in -Wrap .. Wrap - 1
  BY <1>1, EnvValues
<1>4. /\ fx \in SUBSET Units /\ up \in SUBSET Units /\ lv \in [Units -> Nat]
      /\ pr \in [Units -> 0 .. Wrap - 1] /\ ct \in [Units -> -Wrap .. Wrap - 1]
  BY <1>1, <1>3 DEF Slaves
<1>6. \A x \in Units : /\ lv[x] = IF x = a.w /\ a.fixed THEN a.v ELSE c.level[x]
                       /\ pr[x] = IF x = a.w THEN a.v + 1 ELSE c.per[x]
                       /\ ct[x] = IF x = a.w THEN a.v + 1 ELSE c.cnt[x]
  BY <1>1 DEF Slaves
<1>. HIDE DEF fx, up, lv, pr, ct
<1>5. /\ r \in Slaves
      /\ r.div = c.div /\ r.period = c.period /\ r.halt = c.halt /\ r.ram = c.ram
      /\ r.fixed = fx /\ r.up = up /\ r.level = lv /\ r.per = pr /\ r.cnt = ct
  BY <1>2, <1>4 DEF Slaves
<1>. QED
  BY <1>5, <1>6 DEF EnvSet, fx, up

LEMMA EnvActs ==
    ASSUME NEW c \in Masters, NEW d \in Slaves, NEW t \in Nat, NEW a \in Envs
    PROVE  Acts(c, d, a, t)
<1>. DEFINE b == Acted(c, a, t)
            e == Heeded(d, a, t)
            pb == Acted(Plain(c), a, t)
<1>1. a.reg = "env" /\ a # Frame /\ a.w \in Units
  BY DEF Envs, Env, Frame
<1>2. b = MasterEnv(c, a) /\ pb = MasterEnv(Plain(c), a) /\ e = Heeded(d, a, t)
  BY <1>1 DEF Acted
<1>. HIDE DEF b, e, pb
<1>3. b \in Masters /\ b.ww = c.ww /\ EnvSet(b, c, a)
  BY <1>2, MasterEnvFields
<1>4. e \in Slaves /\ EnvSet(e, d, a)
  BY <1>2, SlaveEnvFields
<1>5. Same(pb, b)
  <2>. DEFINE pc == Plain(c)
  <2>1. /\ pc \in Masters /\ pc.div = c.div /\ pc.period = c.period /\ pc.halt = c.halt
        /\ pc.fixed = c.fixed /\ pc.up = c.up /\ pc.per = c.per /\ pc.cnt = c.cnt /\ pc.level = c.level
    BY PlainFields
  <2>2. pb = MasterEnv(pc, a)
    BY <1>2
  <2>. HIDE DEF pc
  <2>3. pb \in Masters /\ EnvSet(pb, pc, a)
    BY <2>1, <2>2, MasterEnvFields
  <2>4. /\ pb.div = b.div /\ pb.period = b.period /\ pb.halt = b.halt
        /\ pb.fixed = b.fixed /\ pb.up = b.up
        /\ \A x \in Units : pb.level[x] = b.level[x] /\ pb.per[x] = b.per[x] /\ pb.cnt[x] = b.cnt[x]
    BY <1>3, <2>1, <2>3 DEF EnvSet
  <2>. QED
    BY <1>3, <2>3, <2>4 DEF Same, Masters
<1>6. ASSUME NEW F, Agree(F, c, d) PROVE Agree(F, b, e)
  <2>1. ClockAgrees(b, e)
    BY <1>3, <1>4, <1>6 DEF Agree, ClockAgrees, EnvSet
  <2>2. ASSUME F = {} PROVE LevelsAgree(b, e)
    <3>1. LevelsAgree(c, d)
      BY <1>6, <2>2 DEF Agree
    <3>2. b.halt = FALSE /\ e.halt = FALSE /\ b.fixed = e.fixed /\ b.up = e.up /\ b.level = e.level
      <4>0. c.level = d.level
        BY <3>1 DEF LevelsAgree
      <4>1. ASSUME NEW x \in Units PROVE b.level[x] = e.level[x]
        <5>1. /\ b.level[x] = IF x = a.w /\ a.fixed THEN a.v ELSE c.level[x]
              /\ e.level[x] = IF x = a.w /\ a.fixed THEN a.v ELSE d.level[x]
          BY <1>3, <1>4 DEF EnvSet
        <5>. QED
          BY <4>0, <5>1
      <4>2. b.level \in [Units -> Nat] /\ e.level \in [Units -> Nat]
        BY <1>3, <1>4 DEF Masters, Slaves
      <4>. QED
        BY <1>3, <1>4, <3>1, <4>1, <4>2 DEF LevelsAgree, EnvSet
    <3>3. ASSUME NEW x \in Units
          PROVE  \/ b.per[x] = e.per[x] /\ b.cnt[x] = e.cnt[x]
                 \/ x \notin b.fixed /\ x \notin b.up /\ b.level[x] = 0
      <4>1. /\ c.per \in [Units -> Nat \ {0}] /\ c.cnt \in [Units -> Nat \ {0}]
            /\ d.per \in [Units -> 0 .. Wrap - 1] /\ d.cnt \in [Units -> -Wrap .. Wrap - 1]
            /\ c.level \in [Units -> Nat]
        BY DEF Masters, Slaves
      <4>2. CASE x = a.w
        BY <1>3, <1>4, <4>2 DEF EnvSet
      <4>3. CASE x # a.w
        <5>1. /\ b.per[x] = c.per[x] /\ b.cnt[x] = c.cnt[x] /\ e.per[x] = d.per[x] /\ e.cnt[x] = d.cnt[x]
              /\ b.level[x] = c.level[x]
          BY <1>3, <1>4, <4>3 DEF EnvSet
        <5>2. (x \in b.fixed <=> x \in c.fixed) /\ (x \in b.up <=> x \in c.up)
          BY <1>3, <4>3 DEF EnvSet
        <5>. QED
          BY <3>1, <5>1, <5>2 DEF LevelsAgree
      <4>. QED
        BY <4>2, <4>3
    <3>. QED
      BY <3>2, <3>3 DEF LevelsAgree
  <2>. QED
    BY <2>1, <2>2 DEF Agree
<1>7. Settled(c, t) => Settled(b, t)
  BY <1>3 DEF EnvSet, Settled, Begun, Ahead
<1>8. Settled(d, t) => Settled(e, t)
  BY <1>4 DEF EnvSet, Settled, Begun, Ahead
<1>. QED
  BY <1>1, <1>3, <1>4, <1>6, <1>5, <1>7, <1>8 DEF EnvSet, Acts, NowAfter, b, e, pb

LEMMA GateActs ==
    ASSUME NEW c \in Masters, NEW d \in Slaves, NEW t \in Nat, NEW h \in BOOLEAN
    PROVE  Acts(c, d, Gate(h), t)
<1>. DEFINE a == Gate(h)
            b == Acted(c, a, t)
            e == Heeded(d, a, t)
            pb == Acted(Plain(c), a, t)
            cnt == IF h THEN d.per ELSE d.cnt
<1>1. a.reg = "gate" /\ a.halt = h /\ a # Frame
  BY DEF Gate, Frame
<1>. HIDE DEF a
<1>2. b = [c EXCEPT !.halt = h] /\ pb = [Plain(c) EXCEPT !.halt = h] /\ e = [d EXCEPT !.halt = h, !.cnt = cnt]
  BY <1>1 DEF Acted, Heeded
<1>3. cnt \in [Units -> -Wrap .. Wrap - 1]
  <2>1. d.per \in [Units -> 0 .. Wrap - 1] /\ d.cnt \in [Units -> -Wrap .. Wrap - 1]
    BY DEF Slaves
  <2>2. 0 .. Wrap - 1 \subseteq -Wrap .. Wrap - 1
    BY Constants
  <2>. QED
    BY <2>1, <2>2
<1>4. ~h => cnt = d.cnt
  OBVIOUS
<1>. HIDE DEF b, e, pb, cnt
<1>5. /\ b \in Masters /\ b.halt = h /\ b.div = c.div /\ b.period = c.period /\ b.fixed = c.fixed
      /\ b.up = c.up /\ b.per = c.per /\ b.cnt = c.cnt /\ b.level = c.level
      /\ b.ww = c.ww /\ b.ram = c.ram
  BY <1>2 DEF Masters
<1>6. /\ e \in Slaves /\ e.halt = h /\ e.div = d.div /\ e.period = d.period /\ e.fixed = d.fixed
      /\ e.up = d.up /\ e.per = d.per /\ e.cnt = cnt /\ e.level = d.level /\ e.ram = d.ram
  BY <1>2, <1>3 DEF Slaves
<1>7. /\ pb.halt = h /\ pb.div = c.div /\ pb.period = c.period /\ pb.fixed = c.fixed
      /\ pb.up = c.up /\ pb.per = c.per /\ pb.cnt = c.cnt /\ pb.level = c.level
  <2>. DEFINE pc == Plain(c)
  <2>1. /\ pc \in Masters /\ pc.div = c.div /\ pc.period = c.period
        /\ pc.fixed = c.fixed /\ pc.up = c.up /\ pc.per = c.per /\ pc.cnt = c.cnt /\ pc.level = c.level
    BY PlainFields
  <2>2. pb = [pc EXCEPT !.halt = h]
    BY <1>2
  <2>. HIDE DEF pc
  <2>. QED
    BY <2>1, <2>2 DEF Masters
<1>8. ASSUME NEW F, Agree(F, c, d), h = TRUE => F # {} PROVE Agree(F, b, e)
  <2>1. ClockAgrees(b, e)
    BY <1>5, <1>6, <1>8 DEF Agree, ClockAgrees
  <2>2. ASSUME F = {} PROVE LevelsAgree(b, e)
    <3>1. LevelsAgree(c, d) /\ h = FALSE
      BY <1>8, <2>2 DEF Agree
    <3>. QED
      BY <1>4, <1>5, <1>6, <3>1 DEF LevelsAgree
  <2>. QED
    BY <2>1, <2>2 DEF Agree
<1>9. (Settled(c, t) => Settled(b, t)) /\ (Settled(d, t) => Settled(e, t))
  BY <1>5, <1>6 DEF Settled, Begun, Ahead
<1>10. Same(pb, b)
  BY <1>5, <1>7 DEF Same
<1>11. Acts(c, d, a, t)
  BY <1>1, <1>5, <1>6, <1>8, <1>9, <1>10 DEF Acts, NowAfter, b, e, pb
<1>. QED
  BY <1>11 DEF a

\* A clock that is set or stopped is so for both, whatever it was.
LEMMA SpeedActs ==
    ASSUME NEW c \in Masters, NEW d \in Slaves, NEW t \in Nat, NEW s0 \in Speeds
    PROVE  Acts(c, d, Speed(s0), t)
<1>. DEFINE a == Speed(s0)
            p == (s0 + 1) * PreScale
            b == Acted(c, a, t)
            e == Heeded(d, a, t)
            pb == Acted(Plain(c), a, t)
            cp == IF s0 = 0 THEN c.period ELSE p
            dv == IF s0 = 0 THEN Never ELSE t + p
<1>1. a.reg = "speed" /\ a.data = s0 /\ a # Frame
  BY DEF Speed, Frame
<1>. HIDE DEF a
<1>2. /\ b = IF s0 = 0 THEN [c EXCEPT !.div = Never] ELSE [c EXCEPT !.period = p, !.div = t + p]
      /\ pb = IF s0 = 0 THEN [Plain(c) EXCEPT !.div = Never]
                        ELSE [Plain(c) EXCEPT !.period = p, !.div = t + p]
      /\ e = [d EXCEPT !.period = p, !.div = dv]
  BY <1>1 DEF Acted, Heeded
<1>3. p \in Nat \ {0}
  BY Periods
<1>. HIDE DEF p, b, e, pb
<1>4. dv \in Nat \cup {Never} /\ (dv # Never => s0 # 0 /\ dv = t + p) /\ t + p \in Nat
  BY <1>3
<1>5. /\ b \in Masters /\ b.div = dv /\ b.period = cp /\ b.halt = c.halt /\ b.fixed = c.fixed
      /\ b.up = c.up /\ b.per = c.per /\ b.cnt = c.cnt /\ b.level = c.level
      /\ b.ww = c.ww /\ b.ram = c.ram
  <2>1. CASE s0 = 0
    BY <1>2, <2>1 DEF Masters
  <2>2. CASE s0 # 0
    BY <1>2, <1>3, <1>4, <2>2 DEF Masters
  <2>. QED
    BY <2>1, <2>2
<1>6. /\ pb.div = dv /\ pb.period = cp /\ pb.halt = c.halt /\ pb.fixed = c.fixed
      /\ pb.up = c.up /\ pb.per = c.per /\ pb.cnt = c.cnt /\ pb.level = c.level
  <2>. DEFINE pc == Plain(c)
  <2>1. /\ pc \in Masters /\ pc.period = c.period /\ pc.halt = c.halt
        /\ pc.fixed = c.fixed /\ pc.up = c.up /\ pc.per = c.per /\ pc.cnt = c.cnt /\ pc.level = c.level
    BY PlainFields
  <2>2. pb = IF s0 = 0 THEN [pc EXCEPT !.div = Never] ELSE [pc EXCEPT !.period = p, !.div = t + p]
    BY <1>2
  <2>. HIDE DEF pc
  <2>3. CASE s0 = 0
    BY <2>1, <2>2, <2>3 DEF Masters
  <2>4. CASE s0 # 0
    BY <2>1, <2>2, <2>4 DEF Masters
  <2>. QED
    BY <2>3, <2>4
<1>. HIDE DEF dv
<1>7. /\ e \in Slaves /\ e.div = dv /\ e.period = p /\ e.halt = d.halt /\ e.fixed = d.fixed
      /\ e.up = d.up /\ e.per = d.per /\ e.cnt = d.cnt /\ e.level = d.level /\ e.ram = d.ram
  BY <1>2, <1>3, <1>4 DEF Slaves
<1>8. ASSUME NEW F, Agree(F, c, d) PROVE Agree(F, b, e)
  <2>1. ClockAgrees(b, e)
    BY <1>4, <1>5, <1>7 DEF ClockAgrees
  <2>2. F = {} => LevelsAgree(b, e)
    BY <1>5, <1>7, <1>8 DEF Agree, LevelsAgree
  <2>. QED
    BY <2>1, <2>2 DEF Agree
<1>9. Settled(b, t) /\ Settled(e, t)
  BY <1>3, <1>4, <1>5, <1>7 DEF Settled, Begun, Ahead
<1>10. Same(pb, b)
  BY <1>5, <1>6 DEF Same
<1>11. Acts(c, d, a, t)
  BY <1>1, <1>5, <1>7, <1>8, <1>9, <1>10 DEF Acts, NowAfter, b, e, pb
<1>. QED
  BY <1>11 DEF a

LEMMA FrameActs ==
    ASSUME NEW c \in Masters, NEW d \in Slaves, NEW t \in Nat, Ahead(c, t), Ahead(d, t)
    PROVE  Acts(c, d, Frame, t)
<1>. DEFINE a == Frame
            b == Acted(c, a, t)
            e == Heeded(d, a, t)
            pb == Acted(Plain(c), a, t)
            cd == IF c.div = Never THEN c.div ELSE c.div - t
            dd == IF d.div = Never THEN d.div ELSE d.div - t
<1>1. a.reg = "frame"
  BY DEF Frame
<1>2. /\ b = [c EXCEPT !.div = cd] /\ e = [d EXCEPT !.div = dd]
      /\ pb = [Plain(c) EXCEPT !.div = IF Plain(c).div = Never THEN Plain(c).div ELSE Plain(c).div - t]
  BY <1>1 DEF Acted, Heeded
<1>3. /\ c.div \in Nat \cup {Never} /\ d.div \in Nat \cup {Never}
      /\ c.period \in Nat \ {0} /\ d.period \in Nat \ {0}
  BY ClockTypes
<1>4. /\ (c.div = Never /\ cd = Never) \/ (c.div # Never /\ cd = c.div - t /\ cd \in Nat /\ cd # Never)
      /\ (d.div = Never /\ dd = Never) \/ (d.div # Never /\ dd = d.div - t /\ dd \in Nat /\ dd # Never)
  <2>1. c.div # Never => c.div - t \in Nat /\ c.div - t # Never
    BY <1>3, Constants DEF Ahead
  <2>2. d.div # Never => d.div - t \in Nat /\ d.div - t # Never
    BY <1>3, Constants DEF Ahead
  <2>. QED
    BY <2>1, <2>2
<1>. HIDE DEF b, e, pb, cd, dd, a
<1>5. /\ b \in Masters /\ b.div = cd /\ b.period = c.period /\ b.halt = c.halt /\ b.fixed = c.fixed
      /\ b.up = c.up /\ b.per = c.per /\ b.cnt = c.cnt /\ b.level = c.level
      /\ b.ww = c.ww /\ b.ram = c.ram
  BY <1>2, <1>4 DEF Masters
<1>6. /\ e \in Slaves /\ e.div = dd /\ e.period = d.period /\ e.halt = d.halt /\ e.fixed = d.fixed
      /\ e.up = d.up /\ e.per = d.per /\ e.cnt = d.cnt /\ e.level = d.level /\ e.ram = d.ram
  BY <1>2, <1>4 DEF Slaves
<1>7. /\ pb.div = cd /\ pb.period = c.period /\ pb.halt = c.halt /\ pb.fixed = c.fixed
      /\ pb.up = c.up /\ pb.per = c.per /\ pb.cnt = c.cnt /\ pb.level = c.level
  <2>. DEFINE pc == Plain(c)
  <2>1. /\ pc \in Masters /\ pc.div = c.div /\ pc.period = c.period /\ pc.halt = c.halt
        /\ pc.fixed = c.fixed /\ pc.up = c.up /\ pc.per = c.per /\ pc.cnt = c.cnt /\ pc.level = c.level
    BY PlainFields
  <2>2. pb = [pc EXCEPT !.div = cd]
    BY <1>2, <2>1 DEF cd
  <2>. HIDE DEF pc
  <2>. QED
    BY <2>1, <2>2 DEF Masters
<1>8. ASSUME NEW F, Agree(F, c, d) PROVE Agree(F, b, e)
  <2>1. ClockAgrees(b, e)
    BY <1>4, <1>5, <1>6, <1>8 DEF Agree, ClockAgrees
  <2>2. F = {} => LevelsAgree(b, e)
    BY <1>5, <1>6, <1>8 DEF Agree, LevelsAgree
  <2>. QED
    BY <2>1, <2>2 DEF Agree
<1>9. Settled(c, t) => Settled(b, 0)
  BY <1>3, <1>4, <1>5 DEF Settled, Begun, Ahead
<1>10. Settled(d, t) => Settled(e, 0)
  BY <1>3, <1>4, <1>6 DEF Settled, Begun, Ahead
<1>11. Same(pb, b)
  BY <1>5, <1>7 DEF Same
<1>12. Acts(c, d, a, t)
  BY <1>5, <1>6, <1>8, <1>9, <1>10, <1>11 DEF Acts, NowAfter, b, e, pb, a
<1>. QED
  BY <1>12 DEF a

LEMMA QuietActs ==
    ASSUME NEW c, NEW d, NEW t, NEW a \in Quiet
    PROVE  Acted(c, a, t) = c /\ Heeded(d, a, t) = d /\ a # Frame /\ a \notin Real /\ a.reg # "gate"
<1>1. a.reg \in {"read", "update", "compare", "protect", "wave"}
  BY DEF Quiet, Read, Update, Compare, Protect, Waves, Wave
<1>2. a # Frame
  BY <1>1 DEF Frame
<1>3. a \notin Real
  BY <1>1 DEF Real, Envs, Env, Gate, Speed, Frame
<1>. QED
  BY <1>1, <1>2, <1>3 DEF Acted, Heeded

LEMMA Kinds ==
    ASSUME NEW a \in Cmds
    PROVE  \/ a \in Quiet \/ a = Frame
           \/ a \in Envs
           \/ \E h \in Halts : a = Gate(h)
           \/ \E x \in Speeds : a = Speed(x)
BY DEF Cmds, Accesses, Quiet, Envs

LEMMA CommandActs ==
    ASSUME NEW c \in Masters, NEW d \in Slaves, NEW t \in Nat, NEW a \in Cmds,
           a = Frame => Ahead(c, t) /\ Ahead(d, t)
    PROVE  Acts(c, d, a, t)
<1>1. CASE a \in Quiet
  <2>1. /\ Acted(c, a, t) = c /\ Heeded(d, a, t) = d /\ a # Frame /\ Acted(Plain(c), a, t) = Plain(c)
    BY <1>1, QuietActs
  <2>2. Same(Plain(c), c)
    BY PlainFields DEF Same
  <2>. QED
    BY <2>1, <2>2 DEF Acts, NowAfter
<1>2. CASE a = Frame
  BY <1>2, FrameActs
<1>3. CASE a \in Envs
  BY <1>3, EnvActs
<1>4. CASE \E h \in Halts : a = Gate(h)
  BY <1>4, GateActs, Constants
<1>5. CASE \E x \in Speeds : a = Speed(x)
  BY <1>5, SpeedActs
<1>. QED
  BY <1>1, <1>2, <1>3, <1>4, <1>5, Kinds

LEMMA ActsAbreast ==
    ASSUME NEW F, NEW c \in Masters, NEW d \in Slaves, Abreast(F, c, d), NEW t \in Nat, NEW a \in Cmds,
           a \in Real => Settled(c, t) /\ Settled(d, t),
           a.reg = "gate" /\ a.halt = TRUE => F # {}
    PROVE  /\ Acted(c, a, t) \in Masters /\ Heeded(d, a, t) \in Slaves
           /\ Abreast(F, Acted(c, a, t), Heeded(d, a, t))
<1>1. CASE a \in Quiet
  BY <1>1, QuietActs
<1>2. CASE a \notin Quiet
  <2>1. a \in Real
    BY <1>2, Kinds DEF Real
  <2>2. Agree(F, c, d)
    BY <2>1, SettledAgree
  <2>3. Acts(c, d, a, t)
    BY <2>1, CommandActs DEF Settled
  <2>. QED
    BY <2>2, <2>3, AgreeAbreast DEF Acts
<1>. QED
  BY <1>1, <1>2

\* What a slave's wave memory holds does not reach its envelopes.
Like(c, e) ==
    /\ c.div = e.div /\ c.period = e.period /\ c.halt = e.halt /\ c.fixed = e.fixed
    /\ c.up = e.up /\ c.per = e.per /\ c.cnt = e.cnt /\ c.level = e.level

LEMMA LikeTick ==
    ASSUME NEW c \in Slaves, NEW e \in Slaves, Like(c, e)
    PROVE  Like(STick[c], STick[e])
<1>1. CASE c.div = Never
  BY <1>1 DEF Like, STick
<1>2. CASE c.div # Never
  <2>. DEFINE r == STick[c]
              q == STick[e]
  <2>1. /\ r.div = c.div + c.period /\ r.period = c.period
        /\ r.halt = c.halt /\ r.fixed = c.fixed /\ r.up = c.up /\ r.per = c.per
        /\ \A w \in Units :
              /\ r.cnt[w] = IF c.halt THEN c.cnt[w]
                            ELSE IF c.cnt[w] = 1 THEN c.per[w]
                            ELSE IF c.cnt[w] = -Wrap THEN Wrap - 1 ELSE c.cnt[w] - 1
              /\ r.level[w] = IF c.halt THEN c.level[w]
                              ELSE IF c.cnt[w] = 1 THEN SlaveStep(c, w) ELSE c.level[w]
        /\ r \in Slaves
    BY <1>2, STickFields DEF STick
  <2>2. /\ q.div = e.div + e.period /\ q.period = e.period
        /\ q.halt = e.halt /\ q.fixed = e.fixed /\ q.up = e.up /\ q.per = e.per
        /\ \A w \in Units :
              /\ q.cnt[w] = IF e.halt THEN e.cnt[w]
                            ELSE IF e.cnt[w] = 1 THEN e.per[w]
                            ELSE IF e.cnt[w] = -Wrap THEN Wrap - 1 ELSE e.cnt[w] - 1
              /\ q.level[w] = IF e.halt THEN e.level[w]
                              ELSE IF e.cnt[w] = 1 THEN SlaveStep(e, w) ELSE e.level[w]
        /\ q \in Slaves
    BY <1>2, STickFields DEF STick, Like
  <2>. HIDE DEF r, q
  <2>3. ASSUME NEW w \in Units PROVE r.cnt[w] = q.cnt[w] /\ r.level[w] = q.level[w]
    <3>1. SlaveStep(c, w) = SlaveStep(e, w)
      BY DEF SlaveStep, Like
    <3>2. c.halt = e.halt /\ c.cnt = e.cnt /\ c.per = e.per /\ c.level = e.level
      BY DEF Like
    <3>. QED
      BY <2>1, <2>2, <3>1, <3>2
  <2>4. r.cnt = q.cnt /\ r.level = q.level
    BY <2>1, <2>2, <2>3 DEF Slaves
  <2>5. Like(r, q)
    BY <2>1, <2>2, <2>4 DEF Like
  <2>. QED
    BY <2>5 DEF r, q
<1>. QED
  BY <1>1, <1>2

LEMMA LikeAbreast ==
    ASSUME NEW F, NEW c \in Masters, NEW d \in Slaves, NEW e \in Slaves, Like(d, e), Abreast(F, c, d)
    PROVE  Abreast(F, c, e)
<1>1. \A x, y, z : Like(y, z) /\ Agree(F, x, y) => Agree(F, x, z)
  BY DEF Like, Agree, ClockAgrees, LevelsAgree
<1>2. CASE \E x \in Orbit(MTick, c) : Agree(F, x, d)
  BY <1>1, <1>2 DEF Abreast
<1>3. CASE \E y \in Orbit(STick, d) : Agree(F, c, y)
  <2>. DEFINE S == {y \in Slaves : \E z \in Orbit(STick, e) : Like(y, z)}
  <2>1. ASSUME NEW y \in S PROVE STick[y] \in S
    <3>1. PICK z \in Orbit(STick, e) : Like(y, z)
      OBVIOUS
    <3>2. z \in Slaves /\ STick[z] \in Orbit(STick, e)
      BY Steps, OrbitStep
    <3>3. Like(STick[y], STick[z])
      BY <3>1, <3>2, LikeTick
    <3>. QED
      BY <3>2, <3>3, Steps
  <2>2. S \in SUBSET Slaves /\ d \in S
    BY Steps, OrbitStart
  <2>. HIDE DEF S
  <2>3. Orbit(STick, d) \subseteq S
    BY <2>1, <2>2, Steps, OrbitWithin
  <2>4. PICK y \in Orbit(STick, d) : Agree(F, c, y)
    BY <1>3
  <2>5. PICK z \in Orbit(STick, e) : Like(y, z)
    BY <2>3 DEF S
  <2>. QED
    BY <1>1, <2>4, <2>5 DEF Abreast
<1>. QED
  BY <1>2, <1>3 DEF Abreast

-----------------------------------------------------------------------------
(* The queue. *)

Link(F, c, x, b) ==
    /\ x.cmd \in Real => Settled(c, x.ts)
    /\ x.cmd.reg = "gate" /\ x.cmd.halt = TRUE => F # {}
    /\ b \in Orbit(MTick, Acted(c, x.cmd, x.ts))

\* M is the chain of masters from the one the slave d is abreast of to c.
Chain(F, M, q, c, d) ==
    /\ M \in [1 .. Len(q) + 1 -> Masters]
    /\ M[Len(q) + 1] = c
    /\ Abreast(F, M[1], d)
    /\ \A i \in 1 .. Len(q) : Link(F, M[i], q[i], M[i + 1])

Linked(F, q, c, d) == \E M : Chain(F, M, q, c, d)

\* The times of a frame's commands rise, and the slave is not ahead of them.
After(q, i, t) == IF i = Len(q) THEN t ELSE q[i + 1].ts

Timed(q, t, d) ==
    /\ Begun(d, After(q, 0, t))
    /\ \A i \in 1 .. Len(q) : q[i].cmd = Frame \/ q[i].ts <= After(q, i, t)

\* The last write to the cell k in the queue is of v, or the slave has v and there
\* is none.
Writes(x, k) == x.cmd.reg = "wave" /\ x.cmd.c = k

Carried(q, k, v, y) ==
    \/ \E i \in 1 .. Len(q) : /\ Writes(q[i], k) /\ q[i].cmd.x = v
                              /\ \A j \in i + 1 .. Len(q) : ~Writes(q[j], k)
    \/ y = v /\ \A j \in 1 .. Len(q) : ~Writes(q[j], k)

LEMMA CommandType ==
    ASSUME NEW x \in Commands
    PROVE  x.ts \in Nat /\ x.cmd \in Cmds
BY DEF Commands

LEMMA LinkType ==
    ASSUME NEW F, NEW c \in Masters, NEW d \in Slaves, NEW x \in Commands, NEW b \in Masters,
           Link(F, c, x, b), Abreast(F, c, d), x.cmd \in Real => Settled(d, x.ts)
    PROVE  Heeded(d, x.cmd, x.ts) \in Slaves /\ Abreast(F, b, Heeded(d, x.cmd, x.ts))
<1>. DEFINE a == Acted(c, x.cmd, x.ts)
            e == Heeded(d, x.cmd, x.ts)
<1>1. a \in Masters /\ e \in Slaves /\ Abreast(F, a, e)
  BY CommandType, ActsAbreast DEF Link
<1>2. b \in Orbit(MTick, a)
  BY DEF Link
<1>. HIDE DEF a, e
<1>3. Abreast(F, b, e)
  BY <1>1, <1>2, OrbitAbreast
<1>. QED
  BY <1>1, <1>3 DEF e

LEMMA AppendLinked ==
    ASSUME NEW F, NEW q \in Seq(Commands), NEW c \in Masters, NEW d \in Slaves, Linked(F, q, c, d),
           NEW x \in Commands, NEW b \in Masters, Link(F, c, x, b)
    PROVE  Append(q, x) \in Seq(Commands) /\ Linked(F, Append(q, x), b, d)
<1>. DEFINE n == Len(q)
            p == Append(q, x)
<1>1. n \in Nat
  BY LenProperties
<1>2. p \in Seq(Commands) /\ Len(p) = n + 1 /\ (\A i \in 1 .. n : p[i] = q[i]) /\ p[n + 1] = x
  BY AppendProperties
<1>3. PICK M : Chain(F, M, q, c, d)
  BY DEF Linked
<1>4. /\ M \in [1 .. n + 1 -> Masters] /\ M[n + 1] = c /\ Abreast(F, M[1], d)
      /\ \A i \in 1 .. n : Link(F, M[i], q[i], M[i + 1])
  BY <1>3 DEF Chain
<1>. HIDE DEF n, p
<1>. DEFINE N == [i \in 1 .. (n + 1) + 1 |-> IF i = n + 2 THEN b ELSE M[i]]
<1>5. N \in [1 .. (n + 1) + 1 -> Masters] /\ N[(n + 1) + 1] = b /\ N[1] = M[1]
  BY <1>1, <1>4
<1>6. \A i \in 1 .. n + 1 : N[i] = M[i]
  BY <1>1
<1>7. \A i \in 1 .. n : N[i + 1] = M[i + 1] /\ i \in 1 .. n + 1
  BY <1>1
<1>. HIDE DEF N
<1>8. ASSUME NEW i \in 1 .. n + 1 PROVE Link(F, N[i], p[i], N[i + 1])
  <2>1. CASE i \in 1 .. n
    BY <1>2, <1>4, <1>6, <1>7, <2>1
  <2>2. CASE i = n + 1
    BY <1>2, <1>4, <1>5, <1>6, <2>2
  <2>. QED
    BY <1>1, <2>1, <2>2
<1>9. Chain(F, N, p, b, d)
  BY <1>2, <1>4, <1>5, <1>8 DEF Chain
<1>. QED
  BY <1>2, <1>9 DEF Linked, p

LEMMA AppendTimed ==
    ASSUME NEW q \in Seq(Commands), NEW t \in Nat, NEW d, Timed(q, t, d),
           NEW x \in Commands, x.ts = t, NEW u \in Nat, x.cmd = Frame \/ t <= u
    PROVE  Timed(Append(q, x), u, d)
<1>. DEFINE n == Len(q)
            p == Append(q, x)
<1>1. n \in Nat
  BY LenProperties
<1>2. p \in Seq(Commands) /\ Len(p) = n + 1 /\ (\A i \in 1 .. n : p[i] = q[i]) /\ p[n + 1] = x
  BY AppendProperties
<1>. HIDE DEF p
<1>3. ASSUME NEW i \in 0 .. n PROVE After(p, i, u) = After(q, i, t)
  <2>1. CASE i = n
    BY <1>1, <1>2, <2>1 DEF After
  <2>2. CASE i # n
    <3>1. i + 1 \in 1 .. n /\ i # n + 1
      BY <1>1, <2>2
    <3>. QED
      BY <1>2, <2>2, <3>1 DEF After
  <2>. QED
    BY <2>1, <2>2
<1>4. ASSUME NEW i \in 1 .. n + 1 PROVE p[i].cmd = Frame \/ p[i].ts <= After(p, i, u)
  <2>1. CASE i = n + 1
    <3>1. After(p, i, u) = u
      BY <1>2, <2>1 DEF After
    <3>. QED
      BY <1>2, <2>1, <3>1
  <2>2. CASE i # n + 1
    <3>1. i \in 1 .. n /\ i \in 0 .. n
      BY <1>1, <2>2
    <3>. QED
      BY <1>2, <1>3, <3>1 DEF Timed
  <2>. QED
    BY <2>1, <2>2
<1>5. Begun(d, After(p, 0, u))
  BY <1>1, <1>3 DEF Timed
<1>6. Timed(p, u, d)
  BY <1>2, <1>4, <1>5 DEF Timed
<1>. QED
  BY <1>6 DEF p

\* The slave reads the oldest command.
LEMMA TailLinked ==
    ASSUME NEW F, NEW q \in Seq(Commands), q # << >>, NEW c \in Masters, NEW d \in Slaves,
           Linked(F, q, c, d), NEW t \in Nat, Timed(q, t, d), Ahead(d, q[1].ts)
    PROVE  /\ Tail(q) \in Seq(Commands)
           /\ Heeded(d, q[1].cmd, q[1].ts) \in Slaves
           /\ Linked(F, Tail(q), c, Heeded(d, q[1].cmd, q[1].ts))
<1>. DEFINE n == Len(q)
            p == Tail(q)
            e == Heeded(d, q[1].cmd, q[1].ts)
<1>1. n \in Nat \ {0}
  BY EmptySeq, LenProperties
<1>2. p \in Seq(Commands) /\ Len(p) = n - 1 /\ (\A i \in 1 .. n - 1 : p[i] = q[i + 1])
  BY HeadTailProperties
<1>3. PICK M : Chain(F, M, q, c, d)
  BY DEF Linked
<1>4. /\ M \in [1 .. n + 1 -> Masters] /\ M[n + 1] = c /\ Abreast(F, M[1], d)
      /\ \A i \in 1 .. n : Link(F, M[i], q[i], M[i + 1])
  BY <1>3 DEF Chain
<1>5. 1 \in 1 .. n /\ 1 \in 1 .. n + 1 /\ 2 \in 1 .. n + 1 /\ 1 + 1 = 2
  BY <1>1
<1>6. q[1] \in Commands
  BY <1>5, ElementOfSeq
<1>7. M[1] \in Masters /\ M[2] \in Masters /\ Link(F, M[1], q[1], M[2])
  BY <1>4, <1>5
<1>8. Settled(d, q[1].ts)
  <2>1. After(q, 0, t) = q[1].ts
    BY <1>1 DEF After
  <2>. QED
    BY <2>1 DEF Timed, Settled
<1>9. e \in Slaves /\ Abreast(F, M[2], e)
  BY <1>4, <1>6, <1>7, <1>8, LinkType
<1>. HIDE DEF n, p, e
<1>. DEFINE N == [i \in 1 .. (n - 1) + 1 |-> M[i + 1]]
<1>10. \A i \in 1 .. (n - 1) + 1 : i + 1 \in 1 .. n + 1 /\ N[i] = M[i + 1]
  BY <1>1
<1>11. \A i \in 1 .. n - 1 : i \in 1 .. (n - 1) + 1 /\ i + 1 \in 1 .. (n - 1) + 1 /\ i + 1 \in 1 .. n
  BY <1>1
<1>12. N \in [1 .. (n - 1) + 1 -> Masters]
  BY <1>4, <1>10
<1>13. N[(n - 1) + 1] = c /\ N[1] = M[2]
  <2>1. (n - 1) + 1 = n /\ n \in 1 .. (n - 1) + 1 /\ 1 \in 1 .. (n - 1) + 1
    BY <1>1
  <2>. QED
    BY <1>4, <1>5, <1>10, <2>1
<1>. HIDE DEF N
<1>14. \A i \in 1 .. n - 1 : Link(F, N[i], p[i], N[i + 1])
  BY <1>2, <1>4, <1>10, <1>11
<1>15. Chain(F, N, p, c, e)
  BY <1>2, <1>9, <1>12, <1>13, <1>14 DEF Chain
<1>. QED
  BY <1>2, <1>9, <1>15 DEF Linked, p, e

LEMMA LaterBegun ==
    ASSUME NEW c \in Masters \cup Slaves, NEW t \in Nat, NEW u \in Nat, t <= u
    PROVE  (Begun(c, t) => Begun(c, u)) /\ (Ahead(c, u) => Ahead(c, t))
BY ClockTypes DEF Begun, Ahead

\* fds_master_power() and the slave's start.
LEMMA PowerTypes ==
    /\ SlavePower \in Slaves
    /\ \A ram \in [Cells -> Samples] : MasterPower(ram) \in Masters
    /\ MasterPower([c \in Cells |-> 0]) \in Masters
<1>1. 0 \in 0 .. Wrap - 1 /\ 0 \in -Wrap .. Wrap - 1
  BY Constants
<1>2. SlavePower \in Slaves
  BY <1>1, Constants DEF SlavePower, Slaves
<1>3. \A ram \in [Cells -> Samples] : MasterPower(ram) \in Masters
  BY Constants DEF MasterPower, Masters
<1>4. [c \in Cells |-> 0] \in [Cells -> Samples]
  BY Constants
<1>. QED
  BY <1>2, <1>3, <1>4

LEMMA TailTimed ==
    ASSUME NEW q \in Seq(Commands), q # << >>, NEW d \in Slaves, NEW t \in Nat, Timed(q, t, d),
           Ahead(d, q[1].ts), Ahead(d, 0)
    PROVE  /\ Timed(Tail(q), t, Heeded(d, q[1].cmd, q[1].ts))
           /\ Ahead(Heeded(d, q[1].cmd, q[1].ts), 0)
<1>. DEFINE n == Len(q)
            p == Tail(q)
            x == q[1]
            e == Heeded(d, x.cmd, x.ts)
<1>1. n \in Nat \ {0}
  BY EmptySeq, LenProperties
<1>2. p \in Seq(Commands) /\ Len(p) = n - 1 /\ (\A i \in 1 .. n - 1 : p[i] = q[i + 1])
  BY HeadTailProperties
<1>3. \A i \in 1 .. n : q[i] \in Commands /\ q[i].ts \in Nat
  BY ElementOfSeq, CommandType
<1>4. x \in Commands /\ x.ts \in Nat /\ x.cmd \in Cmds
  <2>1. 1 \in 1 .. n
    BY <1>1
  <2>. QED
    BY <1>3, <2>1, CommandType
<1>5. After(q, 0, t) = x.ts
  BY <1>1 DEF After
<1>6. Settled(e, NowAfter(x.cmd, x.ts)) /\ e \in Slaves
  <2>. DEFINE c == [MasterPower([k \in Cells |-> 0]) EXCEPT !.div = Never]
  <2>1. c \in Masters /\ c.div = Never
    BY PowerTypes DEF Masters
  <2>. HIDE DEF c
  <2>2. Acts(c, d, x.cmd, x.ts)
    BY <1>4, <2>1, CommandActs DEF Ahead
  <2>3. Settled(d, x.ts)
    BY <1>5 DEF Timed, Settled
  <2>. QED
    BY <2>2, <2>3 DEF Acts
<1>. HIDE DEF p, x, e
<1>7. ASSUME NEW i \in 0 .. n - 1 PROVE After(p, i, t) = After(q, i + 1, t)
  <2>1. CASE i = n - 1
    BY <1>1, <1>2, <2>1 DEF After
  <2>2. CASE i # n - 1
    <3>1. i + 1 \in 1 .. n - 1 /\ i + 1 # n
      BY <1>1, <2>2
    <3>. QED
      BY <1>2, <2>2, <3>1 DEF After
  <2>. QED
    BY <2>1, <2>2
<1>8. \A i \in 1 .. n - 1 : p[i].cmd = Frame \/ p[i].ts <= After(p, i, t)
  <2>. SUFFICES ASSUME NEW i \in 1 .. n - 1 PROVE p[i].cmd = Frame \/ p[i].ts <= After(p, i, t)
    OBVIOUS
  <2>1. i + 1 \in 1 .. n /\ i \in 0 .. n - 1
    BY <1>1
  <2>. QED
    BY <1>2, <1>7, <2>1 DEF Timed
<1>9. After(p, 0, t) = After(q, 1, t) /\ After(q, 1, t) \in Nat
  <2>1. 0 \in 0 .. n - 1 /\ 0 + 1 = 1
    BY <1>1
  <2>2. After(q, 1, t) \in Nat
    <3>1. n # 1 => 1 + 1 \in 1 .. n
      <4>. HIDE DEF n
      <4>. QED
        BY <1>1
    <3>. QED
      BY <1>3, <3>1 DEF After
  <2>. QED
    BY <1>7, <2>1, <2>2
<1>10. NowAfter(x.cmd, x.ts) \in Nat /\ NowAfter(x.cmd, x.ts) <= After(q, 1, t)
  <2>1. CASE x.cmd = Frame
    BY <1>9, <2>1 DEF NowAfter
  <2>2. CASE x.cmd # Frame
    <3>1. 1 \in 1 .. n
      BY <1>1
    <3>. QED
      BY <1>4, <2>2, <3>1 DEF Timed, NowAfter, x
  <2>. QED
    BY <2>1, <2>2
<1>11. Begun(e, After(p, 0, t)) /\ Ahead(e, 0)
  <2>. DEFINE u == NowAfter(x.cmd, x.ts)
  <2>1. u \in Nat /\ u <= After(q, 1, t) /\ Settled(e, u)
    BY <1>6, <1>10
  <2>. HIDE DEF u
  <2>. QED
    BY <1>6, <1>9, <2>1, LaterBegun DEF Settled
<1>12. Timed(p, t, e)
  BY <1>2, <1>8, <1>11 DEF Timed
<1>. QED
  BY <1>11, <1>12 DEF p, e, x

LEMMA AppendCarried ==
    ASSUME NEW q \in Seq(Commands), NEW x \in Commands, NEW k, NEW v, NEW y
    PROVE  /\ ~Writes(x, k) /\ Carried(q, k, v, y) => Carried(Append(q, x), k, v, y)
           /\ Writes(x, k) /\ x.cmd.x = v => Carried(Append(q, x), k, v, y)
<1>. DEFINE n == Len(q)
            p == Append(q, x)
<1>1. n \in Nat
  BY LenProperties
<1>2. Len(p) = n + 1 /\ (\A i \in 1 .. n : p[i] = q[i]) /\ p[n + 1] = x
  BY AppendProperties
<1>. HIDE DEF n, p
<1>3. ASSUME ~Writes(x, k), NEW i \in 1 .. n, Writes(q[i], k), q[i].cmd.x = v,
             \A j \in i + 1 .. n : ~Writes(q[j], k)
      PROVE  Carried(p, k, v, y)
  <2>1. i \in 1 .. n + 1 /\ p[i] = q[i]
    BY <1>1, <1>2
  <2>2. ASSUME NEW j \in i + 1 .. n + 1 PROVE ~Writes(p[j], k)
    <3>1. CASE j = n + 1
      BY <1>2, <1>3, <3>1
    <3>2. CASE j # n + 1
      <4>1. j \in i + 1 .. n /\ j \in 1 .. n
        BY <1>1, <3>2
      <4>. QED
        BY <1>2, <1>3, <4>1
    <3>. QED
      BY <3>1, <3>2
  <2>. QED
    BY <1>2, <1>3, <2>1, <2>2 DEF Carried
<1>4. ASSUME ~Writes(x, k), y = v, \A j \in 1 .. n : ~Writes(q[j], k)
      PROVE  Carried(p, k, v, y)
  <2>1. ASSUME NEW j \in 1 .. n + 1 PROVE ~Writes(p[j], k)
    <3>1. CASE j = n + 1
      BY <1>2, <1>4, <3>1
    <3>2. CASE j # n + 1
      <4>1. j \in 1 .. n
        BY <1>1, <3>2
      <4>. QED
        BY <1>2, <1>4, <4>1
    <3>. QED
      BY <3>1, <3>2
  <2>. QED
    BY <1>2, <1>4, <2>1 DEF Carried
<1>5. ASSUME Writes(x, k), x.cmd.x = v PROVE Carried(p, k, v, y)
  <2>1. n + 1 \in 1 .. n + 1 /\ \A j \in (n + 1) + 1 .. n + 1 : FALSE
    BY <1>1
  <2>. QED
    BY <1>2, <1>5, <2>1 DEF Carried
<1>. QED
  BY <1>3, <1>4, <1>5 DEF Carried, n, p

LEMMA TailCarried ==
    ASSUME NEW q \in Seq(Commands), q # << >>, NEW k, NEW v, NEW y, Carried(q, k, v, y),
           NEW z, IF Writes(q[1], k) THEN z = q[1].cmd.x ELSE z = y
    PROVE  Carried(Tail(q), k, v, z)
<1>. DEFINE n == Len(q)
            p == Tail(q)
<1>1. n \in Nat \ {0}
  BY EmptySeq, LenProperties
<1>2. Len(p) = n - 1 /\ (\A i \in 1 .. n - 1 : p[i] = q[i + 1])
  BY HeadTailProperties
<1>. HIDE DEF n, p
<1>3. ASSUME NEW i \in 1 .. n, \A j \in i + 1 .. n : ~Writes(q[j], k)
      PROVE  \A j \in i .. n - 1 : ~Writes(p[j], k)
  <2>. SUFFICES ASSUME NEW j \in i .. n - 1 PROVE ~Writes(p[j], k)
    OBVIOUS
  <2>1. j \in 1 .. n - 1 /\ j + 1 \in i + 1 .. n
    BY <1>1
  <2>. QED
    BY <1>2, <1>3, <2>1
<1>4. ASSUME NEW i \in 1 .. n, Writes(q[i], k), q[i].cmd.x = v,
             \A j \in i + 1 .. n : ~Writes(q[j], k)
      PROVE  Carried(p, k, v, z)
  <2>1. \A j \in i .. n - 1 : ~Writes(p[j], k)
    BY <1>3, <1>4
  <2>2. CASE i = 1
    BY <1>2, <1>4, <2>1, <2>2 DEF Carried
  <2>3. CASE i # 1
    <3>1. i - 1 \in 1 .. n - 1 /\ (i - 1) + 1 = i
      BY <1>1, <2>3
    <3>2. p[i - 1] = q[i]
      BY <1>2, <3>1
    <3>. DEFINE h == i - 1
    <3>3. h \in 1 .. n - 1 /\ p[h] = q[i] /\ h + 1 = i
      BY <3>1, <3>2
    <3>. HIDE DEF h
    <3>4. \A j \in h + 1 .. n - 1 : ~Writes(p[j], k)
      BY <2>1, <3>3
    <3>. QED
      BY <1>2, <1>4, <3>3, <3>4 DEF Carried
  <2>. QED
    BY <2>2, <2>3
<1>5. ASSUME y = v, \A j \in 1 .. n : ~Writes(q[j], k) PROVE Carried(p, k, v, z)
  <2>1. 1 \in 1 .. n /\ \A j \in 1 + 1 .. n : j \in 1 .. n
    BY <1>1
  <2>2. \A j \in 1 .. n - 1 : ~Writes(p[j], k)
    BY <1>3, <1>5, <2>1
  <2>3. z = v
    BY <1>5, <2>1
  <2>. QED
    BY <1>2, <2>2, <2>3 DEF Carried
<1>. QED
  BY <1>4, <1>5 DEF Carried, n, p

-----------------------------------------------------------------------------
(* The invariant. *)

\* How far the slave d is behind the master c, whose wave memory is ram, at t.
Behind(q, F, c, d, t, W, ram) ==
    /\ q \in Seq(Commands)
    /\ Timed(q, t, d)
    /\ \A k \in W : Carried(q, k, ram[k], d.ram[k])
    /\ "speed" \notin F => Linked(F, q, c, d)

Typed ==
    /\ now \in Nat /\ m \in Masters /\ s \in Slaves
    /\ pending \in Accesses \cup {None, Frame} /\ updated \in BOOLEAN
    /\ aborted \in BOOLEAN /\ written \subseteq Cells /\ file \in Songs

IInv ==
    /\ Typed
    /\ Ahead(s, 0)
    /\ "speed" \notin faults => Begun(m, now) /\ Ahead(m, 0)
    /\ Behind(queue, faults, Plain(m), s, now, written, m.ram)

LEMMA MoreLinked ==
    ASSUME NEW F, NEW G, F \subseteq G, NEW q, NEW c, NEW d, Linked(F, q, c, d)
    PROVE  Linked(G, q, c, d)
<1>1. \A x, y, b : Link(F, x, y, b) => Link(G, x, y, b)
  BY DEF Link
<1>2. PICK M : Chain(F, M, q, c, d)
  BY DEF Linked
<1>3. Chain(G, M, q, c, d)
  BY <1>1, <1>2, MoreFaults DEF Chain
<1>. QED
  BY <1>3 DEF Linked

LEMMA AppendBehind ==
    ASSUME NEW q, NEW F, NEW c \in Masters, NEW d \in Slaves, NEW t \in Nat, NEW W, NEW ram,
           Behind(q, F, c, d, t, W, ram),
           NEW x \in Commands, x.ts = t, NEW G, F \subseteq G, NEW u \in Nat, x.cmd = Frame \/ t <= u,
           NEW b \in Masters, "speed" \notin G => Link(G, c, x, b), NEW V, NEW mem,
           \A k \in V : \/ ~Writes(x, k) /\ k \in W /\ mem[k] = ram[k]
                        \/ Writes(x, k) /\ x.cmd.x = mem[k]
    PROVE  Behind(Append(q, x), G, b, d, u, V, mem)
<1>1. q \in Seq(Commands) /\ Timed(q, t, d) /\ Append(q, x) \in Seq(Commands)
  BY AppendProperties DEF Behind
<1>2. Timed(Append(q, x), u, d)
  BY <1>1, AppendTimed
<1>3. ASSUME NEW k \in V PROVE Carried(Append(q, x), k, mem[k], d.ram[k])
  <2>1. CASE ~Writes(x, k) /\ k \in W /\ mem[k] = ram[k]
    <3>1. Carried(q, k, mem[k], d.ram[k])
      BY <2>1 DEF Behind
    <3>. QED
      BY <1>1, <2>1, <3>1, AppendCarried
  <2>2. CASE Writes(x, k) /\ x.cmd.x = mem[k]
    BY <1>1, <2>2, AppendCarried
  <2>. QED
    BY <2>1, <2>2
<1>4. "speed" \notin G => Linked(G, Append(q, x), b, d)
  <2>. SUFFICES ASSUME "speed" \notin G PROVE Linked(G, Append(q, x), b, d)
    OBVIOUS
  <2>1. Linked(F, q, c, d)
    BY DEF Behind
  <2>2. Linked(G, q, c, d)
    BY <2>1, MoreLinked
  <2>. QED
    BY <1>1, <2>2, AppendLinked
<1>. QED
  BY <1>1, <1>2, <1>3, <1>4 DEF Behind

\* A command that leaves the master as it is.
LEMMA QuietBehind ==
    ASSUME NEW q, NEW F, NEW c \in Masters, NEW d \in Slaves, NEW t \in Nat, NEW W, NEW ram,
           Behind(q, F, c, d, t, W, ram),
           NEW a \in Quiet \ {Read}, NEW V, NEW mem,
           \A k \in V : \/ ~Writes(Command(t, a), k) /\ k \in W /\ mem[k] = ram[k]
                        \/ Writes(Command(t, a), k) /\ a.x = mem[k]
    PROVE  Behind(Append(q, Command(t, a)), F, c, d, t, V, mem)
<1>. DEFINE x == Command(t, a)
<1>1. x.ts = t /\ x.cmd = a
  BY DEF Command
<1>2. x \in Commands
  BY DEF Command, Commands, Quiet, Cmds, Accesses
<1>3. /\ \A k \in V : \/ ~Writes(x, k) /\ k \in W /\ mem[k] = ram[k]
                      \/ Writes(x, k) /\ x.cmd.x = mem[k]
  BY <1>1
<1>. HIDE DEF x
<1>4. Acted(c, a, t) = c /\ a \notin Real /\ a.reg # "gate"
  BY QuietActs
<1>5. c \in Orbit(MTick, c)
  BY Steps, OrbitStart
<1>6. Link(F, c, x, c)
  BY <1>1, <1>4, <1>5 DEF Link
<1>7. Behind(Append(q, x), F, c, d, t, V, mem)
  BY <1>1, <1>2, <1>3, <1>6, AppendBehind
<1>. QED
  BY <1>7 DEF x

\* Time passes.
LEMMA LaterBehind ==
    ASSUME NEW q, NEW F, NEW c \in Masters, NEW d \in Slaves, NEW t \in Nat, NEW W, NEW ram,
           Behind(q, F, c, d, t, W, ram), NEW u \in Nat, t <= u
    PROVE  Behind(q, F, c, d, u, W, ram)
<1>1. q \in Seq(Commands) /\ Len(q) \in Nat /\ Timed(q, t, d)
  BY LenProperties DEF Behind
<1>2. \A i \in 0 .. Len(q) : i # Len(q) => After(q, i, u) = After(q, i, t)
  BY DEF After
<1>3. After(q, Len(q), u) = u /\ After(q, Len(q), t) = t
  BY DEF After
<1>4. Begun(d, After(q, 0, u))
  <2>1. CASE Len(q) = 0
    BY <1>1, <1>3, <2>1, LaterBegun DEF Timed
  <2>2. CASE Len(q) # 0
    BY <1>1, <1>2, <2>2 DEF Timed
  <2>. QED
    BY <2>1, <2>2
<1>5. ASSUME NEW i \in 1 .. Len(q) PROVE q[i].cmd = Frame \/ q[i].ts <= After(q, i, u)
  <2>1. q[i].ts \in Nat
    BY <1>1, ElementOfSeq, CommandType
  <2>2. CASE i = Len(q)
    BY <1>1, <1>3, <2>1, <2>2 DEF Timed
  <2>3. CASE i # Len(q)
    BY <1>1, <1>2, <2>3 DEF Timed
  <2>. QED
    BY <2>2, <2>3
<1>6. Timed(q, u, d)
  BY <1>4, <1>5 DEF Timed
<1>. QED
  BY <1>1, <1>6 DEF Behind

LEMMA TickLinked ==
    ASSUME NEW F, NEW q \in Seq(Commands), NEW c \in Masters, NEW d \in Slaves, Linked(F, q, c, d)
    PROVE  Linked(F, q, MTick[c], d)
<1>1. PICK M : Chain(F, M, q, c, d)
  BY DEF Linked
<1>. DEFINE n == Len(q)
            b == MTick[c]
            N == [M EXCEPT ![n + 1] = b]
<1>2. n \in Nat /\ b \in Masters
  BY LenProperties, Steps
<1>3. /\ M \in [1 .. n + 1 -> Masters] /\ M[n + 1] = c /\ Abreast(F, M[1], d)
      /\ \A i \in 1 .. n : Link(F, M[i], q[i], M[i + 1])
  BY <1>1 DEF Chain
<1>. HIDE DEF n, b
<1>4. N \in [1 .. n + 1 -> Masters] /\ N[n + 1] = b /\ \A i \in 1 .. n : N[i] = M[i]
  BY <1>2, <1>3
<1>5. Abreast(F, N[1], d)
  <2>1. CASE n = 0
    <3>1. N[1] = b /\ M[1] = c
      BY <1>3, <1>4, <2>1
    <3>. QED
      BY <1>3, <3>1, MasterTickAbreast DEF b
  <2>2. CASE n # 0
    BY <1>2, <1>3, <1>4, <2>2
  <2>. QED
    BY <2>1, <2>2
<1>6. ASSUME NEW i \in 1 .. n PROVE Link(F, N[i], q[i], N[i + 1])
  <2>1. CASE i = n
    <3>1. N[i] = M[i] /\ N[i + 1] = b /\ Link(F, M[i], q[i], c)
      BY <1>3, <1>4, <2>1
    <3>2. b \in Orbit(MTick, Acted(M[i], q[i].cmd, q[i].ts))
      <4>1. c \in Orbit(MTick, Acted(M[i], q[i].cmd, q[i].ts))
        BY <3>1 DEF Link
      <4>. QED
        BY <4>1, Steps, OrbitStep DEF b
    <3>. QED
      BY <3>1, <3>2 DEF Link
  <2>2. CASE i # n
    <3>1. i \in 1 .. n /\ i + 1 \in 1 .. n
      BY <1>2, <2>2
    <3>. QED
      BY <1>3, <1>4, <3>1
  <2>. QED
    BY <2>1, <2>2
<1>. HIDE DEF N
<1>7. Chain(F, N, q, b, d)
  BY <1>4, <1>5, <1>6 DEF Chain, n
<1>. QED
  BY <1>7 DEF Linked, b

LEMMA PlainIs ==
    ASSUME NEW c \in Masters, c.ww = FALSE, c.ram = [x \in Cells |-> 0]
    PROVE  Plain(c) = c
<1>1. \A x, y \in Masters : Same(x, y) /\ x.ww = y.ww /\ x.ram = y.ram => x = y
  BY DEF Masters, Same
<1>2. Same(Plain(c), c) /\ Plain(c).ww = c.ww /\ Plain(c).ram = c.ram /\ Plain(c) \in Masters
  BY PlainFields DEF Same
<1>. QED
  BY <1>1, <1>2

LEMMA PlainTick ==
    ASSUME NEW c \in Masters, c.div # Never
    PROVE  Plain(MasterTick(c)) = MTick[Plain(c)]
<1>. DEFINE p == Plain(c)
            r == MasterTick(c)
            q == MasterTick(p)
<1>1. /\ p \in Masters /\ p.div = c.div /\ p.period = c.period /\ p.halt = c.halt
      /\ p.fixed = c.fixed /\ p.up = c.up /\ p.per = c.per /\ p.cnt = c.cnt /\ p.level = c.level
      /\ p.ww = FALSE /\ p.ram = [x \in Cells |-> 0]
  BY PlainFields
<1>. HIDE DEF p
<1>2. MTick[p] = q
  BY <1>1 DEF MTick
<1>3. /\ r \in Masters /\ r.div = c.div + c.period /\ r.period = c.period
      /\ r.halt = c.halt /\ r.fixed = c.fixed /\ r.up = c.up /\ r.per = c.per
      /\ \A w \in Units :
            /\ r.cnt[w] = IF c.halt THEN c.cnt[w]
                          ELSE IF c.cnt[w] = 1 THEN c.per[w] ELSE c.cnt[w] - 1
            /\ r.level[w] = IF c.halt THEN c.level[w]
                            ELSE IF c.cnt[w] = 1 THEN MasterStep(c, w) ELSE c.level[w]
  BY MTickFields
<1>4. /\ q \in Masters /\ q.div = p.div + p.period /\ q.period = p.period
      /\ q.halt = p.halt /\ q.fixed = p.fixed /\ q.up = p.up /\ q.per = p.per
      /\ q.ww = p.ww /\ q.ram = p.ram
      /\ \A w \in Units :
            /\ q.cnt[w] = IF p.halt THEN p.cnt[w]
                          ELSE IF p.cnt[w] = 1 THEN p.per[w] ELSE p.cnt[w] - 1
            /\ q.level[w] = IF p.halt THEN p.level[w]
                            ELSE IF p.cnt[w] = 1 THEN MasterStep(p, w) ELSE p.level[w]
  BY <1>1, MTickFields
<1>. HIDE DEF r, q
<1>5. ASSUME NEW w \in Units PROVE r.cnt[w] = q.cnt[w] /\ r.level[w] = q.level[w]
  <2>1. MasterStep(c, w) = MasterStep(p, w)
    BY <1>1 DEF MasterStep
  <2>. QED
    BY <1>1, <1>3, <1>4, <2>1
<1>6. r.cnt = q.cnt /\ r.level = q.level
  BY <1>3, <1>4, <1>5 DEF Masters
<1>7. Same(r, q)
  BY <1>1, <1>3, <1>4, <1>6 DEF Same
<1>8. Plain(r) = Plain(q) /\ Plain(q) = q
  BY <1>1, <1>3, <1>4, <1>7, PlainSame, PlainIs
<1>. QED
  BY <1>2, <1>8 DEF p, r

-----------------------------------------------------------------------------
(* The two processors at work. *)

\* emu_init() starts both with nothing queued; the wave memory is the song's before.
LEMMA PowerBehind ==
    ASSUME NEW ram \in [Cells -> Samples]
    PROVE  /\ MasterPower(ram) \in Masters /\ SlavePower \in Slaves
           /\ Settled(MasterPower(ram), 0) /\ Settled(SlavePower, 0)
           /\ Behind(<< >>, {}, Plain(MasterPower(ram)), SlavePower, 0, {}, ram)
<1>. DEFINE c == MasterPower(ram)
            p == Plain(c)
            d == SlavePower
            q == << >>
<1>1. c \in Masters /\ d \in Slaves
  BY PowerTypes
<1>2. /\ c.div = PowerPeriod /\ c.period = PowerPeriod /\ c.halt = FALSE /\ c.fixed = {} /\ c.up = {}
      /\ c.level = [w \in Units |-> 0]
      /\ d.div = PowerPeriod /\ d.period = PowerPeriod /\ d.halt = FALSE /\ d.fixed = {} /\ d.up = {}
      /\ d.level = [w \in Units |-> 0]
  BY DEF MasterPower, SlavePower
<1>. HIDE DEF c, d
<1>3. Settled(c, 0) /\ Settled(d, 0)
  BY <1>2, Constants DEF Settled, Begun, Ahead
<1>4. p \in Masters /\ p.div = c.div /\ p.period = c.period /\ p.halt = c.halt
      /\ p.fixed = c.fixed /\ p.up = c.up /\ p.level = c.level
  BY <1>1, PlainFields
<1>. HIDE DEF p
<1>5. Abreast({}, p, d)
  <2>1. Agree({}, p, d)
    BY <1>2, <1>4 DEF Agree, ClockAgrees, LevelsAgree
  <2>. QED
    BY <1>1, <1>4, <2>1, AgreeAbreast
<1>6. q \in Seq(Commands) /\ Len(q) = 0
  BY EmptySeq
<1>. HIDE DEF q
<1>7. Linked({}, q, p, d)
  <2>. DEFINE M == [i \in 1 .. 0 + 1 |-> p]
  <2>1. M \in [1 .. 0 + 1 -> Masters] /\ M[0 + 1] = p /\ M[1] = p
    BY <1>4
  <2>. HIDE DEF M
  <2>2. Chain({}, M, q, p, d)
    BY <1>5, <1>6, <2>1 DEF Chain
  <2>. QED
    BY <2>2 DEF Linked
<1>8. Timed(q, 0, d)
  BY <1>3, <1>6 DEF Timed, After, Settled
<1>9. Behind(q, {}, p, d, 0, {}, ram)
  BY <1>6, <1>7, <1>8 DEF Behind
<1>. QED
  BY <1>1, <1>3, <1>9 DEF c, d, p, q

LEMMA InitIInv == Init => IInv
<1>. SUFFICES ASSUME Init PROVE IInv
  OBVIOUS
<1>. DEFINE ram == [c \in Cells |-> 0]
<1>1. ram \in [Cells -> Samples]
  BY Constants
<1>2. m = MasterPower(ram) /\ s = SlavePower /\ queue = << >> /\ now = 0 /\ written = {} /\ faults = {}
  BY DEF Init
<1>3. m.ram = ram
  BY <1>2 DEF MasterPower
<1>. HIDE DEF ram
<1>4. /\ m \in Masters /\ s \in Slaves /\ Settled(m, 0) /\ Settled(s, 0)
      /\ Behind(queue, faults, Plain(m), s, now, written, m.ram)
  BY <1>1, <1>2, <1>3, PowerBehind
<1>5. Typed
  BY <1>4 DEF Init, Typed
<1>. QED
  BY <1>2, <1>4, <1>5 DEF IInv, Settled

LEMMA NewSongIInv == ASSUME IInv, NewSong PROVE IInv'
<1>1. m.ram \in [Cells -> Samples]
  BY DEF IInv, Typed, Masters
<1>2. /\ m' = MasterPower(m.ram) /\ s' = SlavePower /\ queue' = << >> /\ now' = 0
      /\ written' = {} /\ faults' = {} /\ aborted' = FALSE /\ UNCHANGED <<pending, updated, file>>
  BY DEF NewSong
<1>3. m'.ram = m.ram
  BY <1>2 DEF MasterPower
<1>4. /\ m' \in Masters /\ s' \in Slaves /\ Settled(m', 0) /\ Settled(s', 0)
      /\ Behind(queue', faults', Plain(m'), s', now', written', m'.ram)
  BY <1>1, <1>2, <1>3, PowerBehind
<1>5. Typed'
  BY <1>2, <1>4 DEF IInv, Typed
<1>. QED
  BY <1>2, <1>4, <1>5 DEF IInv, Settled

LEMMA BeginIInv == ASSUME IInv, Begin PROVE IInv'
<1>1. UNCHANGED <<now, m, s, updated, queue, aborted, written, faults, file>>
      /\ pending' \in Accesses \cup {None, Frame}
  BY DEF Begin
<1>2. Typed'
  BY <1>1 DEF IInv, Typed
<1>. QED
  BY <1>1, <1>2 DEF IInv

LEMMA CycleIInv == ASSUME IInv, Cycle PROVE IInv'
<1>1. now' = now + 1 /\ UNCHANGED <<m, s, pending, updated, queue, aborted, written, faults, file>>
  BY DEF Cycle
<1>2. now \in Nat /\ now + 1 \in Nat /\ now <= now + 1 /\ m \in Masters /\ s \in Slaves
  BY DEF IInv, Typed
<1>3. Typed'
  BY <1>1, <1>2 DEF IInv, Typed
<1>4. Plain(m) \in Masters
  BY <1>2, PlainFields
<1>5. Behind(queue, faults, Plain(m), s, now + 1, written, m.ram)
  BY <1>2, <1>4, LaterBehind DEF IInv
<1>6. "speed" \notin faults => Begun(m, now + 1)
  BY <1>2, LaterBegun DEF IInv
<1>. QED
  BY <1>1, <1>3, <1>5, <1>6 DEF IInv

LEMMA ForceUpdateIInv == ASSUME IInv, ForceUpdate PROVE IInv'
<1>1. queue' = Append(queue, Command(now, Update))
      /\ UNCHANGED <<now, m, s, pending, updated, aborted, written, faults, file>>
  BY DEF ForceUpdate
<1>2. now \in Nat /\ s \in Slaves /\ Plain(m) \in Masters
  BY PlainFields DEF IInv, Typed
<1>3. Update \in Quiet \ {Read}
  BY DEF Quiet, Update, Read
<1>4. \A k \in written : ~Writes(Command(now, Update), k)
  BY DEF Writes, Command, Update
<1>5. Behind(queue', faults, Plain(m), s, now, written, m.ram)
  BY <1>1, <1>2, <1>3, <1>4, QuietBehind DEF IInv
<1>6. Typed'
  BY <1>1 DEF IInv, Typed
<1>. QED
  BY <1>1, <1>5, <1>6 DEF IInv

LEMMA WriteWaveIInv == ASSUME IInv, NEW c \in Cells, NEW x \in Samples, WriteWave(c, x) PROVE IInv'
<1>. DEFINE a == Wave(c, x)
            ram == [m.ram EXCEPT ![c] = x]
<1>1. m' = [m EXCEPT !.ram = ram] /\ queue' = Append(queue, Command(now, a))
      /\ written' = written \cup {c}
      /\ UNCHANGED <<now, s, pending, updated, aborted, faults, file>>
  BY DEF WriteWave
<1>2. /\ now \in Nat /\ s \in Slaves /\ m \in Masters /\ m.ram \in [Cells -> Samples]
      /\ written \subseteq Cells
  BY DEF IInv, Typed, Masters
<1>3. ram \in [Cells -> Samples] /\ ram[c] = x /\ \A k \in Cells : k # c => ram[k] = m.ram[k]
  BY <1>2
<1>4. a \in Quiet \ {Read}
  BY DEF Quiet, Waves, Wave, Read
<1>5. a.x = x /\ (\A k : Writes(Command(now, a), k) <=> k = c)
  BY DEF Writes, Command, Wave
<1>. HIDE DEF a, ram
<1>6. m' \in Masters /\ Same(m', m) /\ m'.ram = ram
  BY <1>1, <1>2, <1>3 DEF Masters, Same
<1>7. Plain(m') = Plain(m) /\ Plain(m) \in Masters
  BY <1>2, <1>6, PlainSame, PlainFields
<1>8. \A k \in written' : \/ ~Writes(Command(now, a), k) /\ k \in written /\ ram[k] = m.ram[k]
                          \/ Writes(Command(now, a), k) /\ a.x = ram[k]
  BY <1>1, <1>2, <1>3, <1>5
<1>9. Behind(queue', faults, Plain(m), s, now, written', ram)
  BY <1>1, <1>2, <1>4, <1>7, <1>8, QuietBehind DEF IInv
<1>10. (Begun(m, now) => Begun(m', now)) /\ (Ahead(m, 0) => Ahead(m', 0))
  BY <1>6 DEF Same, Begun, Ahead
<1>11. Typed'
  BY <1>1, <1>2, <1>6 DEF IInv, Typed
<1>. QED
  BY <1>1, <1>6, <1>7, <1>9, <1>10, <1>11 DEF IInv

LEMMA MasterUpdateIInv == ASSUME IInv, MasterUpdate PROVE IInv'
<1>1. /\ m' = MasterTick(m) /\ m.div # Never /\ now >= m.div /\ updated' = TRUE
      /\ UNCHANGED <<now, s, pending, queue, aborted, written, faults, file>>
  BY DEF MasterUpdate, Due
<1>2. /\ m \in Masters /\ s \in Slaves /\ now \in Nat /\ m.div \in Nat /\ m.period \in Nat \ {0}
  BY <1>1, ClockTypes DEF IInv, Typed
<1>3. /\ m' \in Masters /\ m'.div = m.div + m.period /\ m'.period = m.period /\ m'.ram = m.ram
  BY <1>1, <1>2, MTickFields
<1>4. Begun(m', now) /\ Ahead(m', 0)
  BY <1>1, <1>2, <1>3 DEF Begun, Ahead
<1>5. Plain(m') = MTick[Plain(m)] /\ Plain(m) \in Masters
  BY <1>1, <1>2, PlainTick, PlainFields
<1>6. Behind(queue, faults, Plain(m'), s, now, written, m'.ram)
  BY <1>2, <1>3, <1>5, TickLinked DEF IInv, Behind
<1>7. Typed'
  BY <1>1, <1>3 DEF IInv, Typed
<1>. QED
  BY <1>1, <1>4, <1>6, <1>7 DEF IInv

\* The access of the master, when it is not a write of $408A that goes wrong.
Wrong(a) == a.reg = "speed" /\ a.data # 0 /\ updated

LEMMA AccessSame ==
    ASSUME NEW a \in Accesses \cup {Frame}, m \in Masters, ~Wrong(a),
           Acted(m, a, now) \in Masters
    PROVE  /\ MasterAccess(a) \in Masters /\ MasterAccess(a).ram = Acted(m, a, now).ram
           /\ Same(MasterAccess(a), Acted(m, a, now))
<1>1. CASE a.reg = "protect"
  <2>1. a.ww \in BOOLEAN
    BY <1>1, Constants DEF Accesses, Env, Gate, Speed, Protect, Read, Frame
  <2>2. MasterAccess(a) = [m EXCEPT !.ww = a.ww] /\ Acted(m, a, now) = m
    BY <1>1 DEF MasterAccess, Acted
  <2>. QED
    BY <2>1, <2>2 DEF Masters, Same
<1>2. CASE a.reg # "protect"
  <2>1. MasterAccess(a) = Acted(m, a, now)
    BY <1>2 DEF MasterAccess, Acted, MasterSpeed, MasterFrame, Wrong
  <2>. QED
    BY <2>1 DEF Same
<1>. QED
  BY <1>1, <1>2

LEMMA AccessActs ==
    ASSUME NEW c \in Masters, NEW t \in Nat, NEW a \in Accesses \cup {Frame}, a = Frame => Ahead(c, t)
    PROVE  /\ Acted(c, a, t) \in Masters /\ Acted(c, a, t).ram = c.ram /\ Acted(c, a, t).ww = c.ww
           /\ Settled(c, t) => Settled(Acted(c, a, t), NowAfter(a, t))
           /\ Same(Acted(Plain(c), a, t), Acted(c, a, t))
<1>. DEFINE d == [SlavePower EXCEPT !.div = Never]
<1>1. d \in Slaves /\ d.div = Never
  BY PowerTypes DEF Slaves
<1>2. a \in Cmds
  BY DEF Cmds
<1>. HIDE DEF d
<1>3. Acts(c, d, a, t)
  BY <1>1, <1>2, CommandActs DEF Ahead
<1>. QED
  BY <1>3 DEF Acts

LEMMA AccessPlain ==
    ASSUME m \in Masters, now \in Nat, NEW a \in Accesses \cup {Frame}, ~Wrong(a), Ahead(m, now)
    PROVE  /\ MasterAccess(a) \in Masters /\ MasterAccess(a).ram = m.ram
           /\ Settled(m, now) => Settled(MasterAccess(a), NowAfter(a, now))
           /\ Plain(MasterAccess(a)) = Acted(Plain(m), a, now)
<1>. DEFINE p == Plain(m)
            b == Acted(m, a, now)
            r == MasterAccess(a)
            pb == Acted(p, a, now)
<1>1. b \in Masters /\ b.ram = m.ram /\ (Settled(m, now) => Settled(b, NowAfter(a, now))) /\ Same(pb, b)
  BY AccessActs
<1>2. r \in Masters /\ r.ram = b.ram /\ Same(r, b)
  BY <1>1, AccessSame
<1>3. p \in Masters /\ p.ww = FALSE /\ p.ram = [x \in Cells |-> 0] /\ p.div = m.div
  BY PlainFields
<1>. HIDE DEF p
<1>4. Ahead(p, now)
  BY <1>3 DEF Ahead
<1>5. pb \in Masters /\ pb.ww = FALSE /\ pb.ram = [x \in Cells |-> 0]
  BY <1>3, <1>4, AccessActs
<1>. HIDE DEF b, r, pb
<1>6. Plain(pb) = pb /\ Plain(pb) = Plain(b) /\ Plain(r) = Plain(b)
  BY <1>1, <1>2, <1>5, PlainIs, PlainSame
<1>7. Settled(b, NowAfter(a, now)) => Settled(r, NowAfter(a, now))
  BY <1>2 DEF Same, Settled, Begun, Ahead
<1>. QED
  BY <1>1, <1>2, <1>6, <1>7 DEF p, r, pb

LEMMA WrongAccess ==
    ASSUME m \in Masters, NEW a \in Accesses \cup {Frame}, Wrong(a)
    PROVE  MasterAccess(a) \in Masters /\ MasterAccess(a).ram = m.ram
<1>1. a.reg = "speed" /\ a.data # 0 /\ updated
  BY DEF Wrong
<1>2. a.data \in Speeds
  BY <1>1 DEF Accesses, Env, Gate, Speed, Protect, Read, Frame
<1>. DEFINE p == (a.data + 1) * PreScale
<1>3. p \in Nat \ {0}
  BY <1>2, Periods
<1>4. MasterAccess(a) = [m EXCEPT !.period = p, !.div = SpillTop + p]
  BY <1>1 DEF MasterAccess, MasterSpeed
<1>. HIDE DEF p
<1>5. SpillTop + p \in Nat
  BY <1>3, Constants
<1>. QED
  BY <1>3, <1>4, <1>5 DEF Masters

\* The comparisons of the consistency check go first.
LEMMA ComparisonsBehind ==
    ASSUME IInv
    PROVE  Behind(queue \o Comparisons, faults, Plain(m), s, now, written, m.ram)
<1>1. /\ Behind(queue, faults, Plain(m), s, now, written, m.ram) /\ queue \in Seq(Commands)
      /\ m \in Masters /\ s \in Slaves /\ now \in Nat /\ Plain(m) \in Masters
  BY PlainFields DEF IInv, Typed, Behind
<1>2. CASE ~(Check /\ updated)
  <2>1. Comparisons = << >>
    BY <1>2 DEF Comparisons
  <2>2. queue \o Comparisons = queue
    BY <1>1, <2>1, ConcatEmptySeq
  <2>. QED
    BY <1>1, <2>2
<1>3. CASE Check /\ updated
  <2>. DEFINE a == Compare(0, m.level[0])
              b == Compare(1, m.level[1])
              x == Command(now, a)
              y == Command(now, b)
  <2>1. 0 \in Units /\ 1 \in Units
    BY <1>3, ConstantsAssumption
  <2>2. m.level[0] \in Nat /\ m.level[1] \in Nat
    BY <1>1, <2>1 DEF Masters
  <2>3. a \in Quiet \ {Read} /\ b \in Quiet \ {Read}
    BY <2>1, <2>2 DEF Quiet, Compare, Read
  <2>4. \A k \in written : ~Writes(x, k) /\ ~Writes(y, k)
    BY DEF Writes, Command, Compare
  <2>5. Comparisons = <<x, y>>
    <3>1. Comparisons = [i \in 1 .. 2 |-> Command(now, Compare(i - 1, m.level[i - 1]))]
      BY <1>3 DEF Comparisons
    <3>2. 1 - 1 = 0 /\ 2 - 1 = 1 /\ 1 .. 2 = {1, 2}
      OBVIOUS
    <3>3. Comparisons[1] = x /\ Comparisons[2] = y
      BY <3>1, <3>2
    <3>. HIDE DEF x, y
    <3>. QED
      BY <3>1, <3>2, <3>3
  <2>6. x \in Commands /\ y \in Commands
    BY <1>1, <2>3 DEF Command, Commands, Quiet, Cmds, Accesses
  <2>. HIDE DEF a, b
  <2>7. Behind(Append(queue, x), faults, Plain(m), s, now, written, m.ram)
    BY <1>1, <2>3, <2>4, QuietBehind
  <2>8. Behind(Append(Append(queue, x), y), faults, Plain(m), s, now, written, m.ram)
    BY <1>1, <2>3, <2>4, <2>7, QuietBehind
  <2>. HIDE DEF x, y
  <2>9. queue \o <<x, y>> = Append(Append(queue, x), y)
    BY <1>1, <2>6
  <2>. QED
    BY <2>5, <2>8, <2>9
<1>. QED
  BY <1>2, <1>3

LEMMA FinishIInv == ASSUME IInv, Finish PROVE IInv'
<1>. DEFINE q == queue \o Comparisons
            x == Command(now, pending)
            b == MasterAccess(pending)
            G == faults \cup Fault(pending)
            p == Plain(m)
<1>1. /\ pending # None /\ Ahead(m, now) /\ m' = b /\ pending' = None /\ updated' = FALSE
      /\ queue' = q \o (IF pending = Read THEN << >> ELSE <<x>>) /\ faults' = G
      /\ now' = (IF pending = Frame THEN 0 ELSE now) /\ UNCHANGED <<s, aborted, written, file>>
  <2>1. ~Due(m, now) => Ahead(m, now)
    BY ClockTypes DEF Due, Ahead, IInv, Typed
  <2>. QED
    BY <2>1 DEF Finish
<1>2. /\ m \in Masters /\ s \in Slaves /\ now \in Nat /\ pending \in Accesses \cup {Frame}
      /\ p \in Masters /\ ("speed" \notin faults => Begun(m, now))
  BY <1>1, PlainFields DEF IInv, Typed
<1>3. Behind(q, faults, p, s, now, written, m.ram) /\ q \in Seq(Commands)
  BY ComparisonsBehind DEF Behind
<1>4. x.ts = now /\ x.cmd = pending
  BY DEF Command
<1>5. x \in Commands
  BY <1>2 DEF Command, Commands, Cmds
<1>6. \A k \in written : ~Writes(x, k)
  BY <1>2, <1>4 DEF Writes, Accesses, Env, Gate, Speed, Protect, Read, Frame
<1>7. faults \subseteq G
  OBVIOUS
<1>8. "speed" \notin G => ~Wrong(pending) /\ "speed" \notin faults
  BY DEF Fault, Wrong
<1>9. x.cmd.reg = "gate" /\ x.cmd.halt = TRUE => G # {}
  BY <1>4 DEF Fault
<1>10. b \in Masters /\ b.ram = m.ram
  BY <1>2, <1>1, AccessPlain, WrongAccess
<1>11. ~Wrong(pending) => /\ Plain(b) = Acted(p, pending, now)
                          /\ Settled(m, now) => Settled(b, NowAfter(pending, now))
  BY <1>1, <1>2, AccessPlain
<1>12. pending = Read => b = m /\ G = faults /\ now' = now
  <2>1. Read.reg = "read" /\ Read # Frame
    BY DEF Read, Frame
  <2>2. pending = Read => b = m /\ Fault(pending) = {}
    BY <2>1 DEF MasterAccess, Fault
  <2>. QED
    BY <1>1, <2>1, <2>2
<1>. HIDE DEF q, x, b, G, p
<1>13. NowAfter(pending, now) = now' /\ now' \in Nat /\ (pending = Frame \/ now <= now')
  BY <1>1, <1>2 DEF NowAfter
<1>14. "speed" \notin G => Settled(b, now')
  BY <1>1, <1>2, <1>8, <1>11, <1>13 DEF Settled
<1>15. p.div = m.div /\ p.period = m.period
  BY <1>2, PlainFields DEF p
<1>16. "speed" \notin G => Link(G, p, x, Plain(b))
  <2>. SUFFICES ASSUME "speed" \notin G PROVE Link(G, p, x, Plain(b))
    OBVIOUS
  <2>1. Settled(p, now)
    BY <1>1, <1>2, <1>8, <1>15 DEF Settled, Begun, Ahead
  <2>2. Plain(b) \in Masters /\ Plain(b) = Acted(p, x.cmd, x.ts)
    BY <1>4, <1>8, <1>10, <1>11, PlainFields
  <2>3. Plain(b) \in Orbit(MTick, Plain(b))
    BY <2>2, Steps, OrbitStart
  <2>. QED
    BY <1>4, <1>9, <2>1, <2>2, <2>3 DEF Link
<1>17. Behind(queue', G, Plain(b), s, now', written, b.ram)
  <2>1. CASE pending = Read
    <3>1. queue' = q
      BY <1>1, <1>3, <2>1, ConcatEmptySeq
    <3>. QED
      BY <1>3, <1>12, <2>1, <3>1 DEF p
  <2>2. CASE pending # Read
    <3>1. queue' = Append(q, x)
      BY <1>1, <1>3, <1>5, <2>2
    <3>2. Plain(b) \in Masters
      BY <1>10, PlainFields
    <3>3. Behind(Append(q, x), G, Plain(b), s, now', written, b.ram)
      BY <1>2, <1>3, <1>4, <1>5, <1>6, <1>7, <1>10, <1>13, <1>16, <3>2, AppendBehind
    <3>. QED
      BY <3>1, <3>3
  <2>. QED
    BY <2>1, <2>2
<1>18. "speed" \notin G => Begun(b, now') /\ Ahead(b, 0)
  <2>1. 0 \in Nat /\ 0 <= now'
    BY <1>13
  <2>. QED
    BY <1>10, <1>13, <1>14, <2>1, LaterBegun DEF Settled
<1>19. Typed'
  BY <1>1, <1>2, <1>10, <1>13 DEF IInv, Typed
<1>. QED
  BY <1>1, <1>17, <1>18, <1>19 DEF IInv

LEMMA SlaveUpdateIInv == ASSUME IInv, SlaveUpdate PROVE IInv'
<1>1. queue \in Seq(Commands) /\ queue # << >> /\ Head(queue) = queue[1]
  <2>1. queue \in Seq(Commands) /\ queue # << >>
    BY DEF SlaveUpdate, IInv, Behind
  <2>. QED
    BY <2>1
<1>2. /\ s.div # Never /\ queue[1].ts >= s.div /\ s' = SlaveTick(s)
      /\ UNCHANGED <<now, m, pending, updated, queue, aborted, written, faults, file>>
  BY <1>1 DEF SlaveUpdate, Due
<1>3. /\ s \in Slaves /\ s.div \in Nat /\ s.period \in Nat \ {0} /\ Len(queue) \in Nat \ {0}
      /\ Plain(m) \in Masters
  BY <1>1, <1>2, EmptySeq, ClockTypes, PlainFields DEF IInv, Typed
<1>4. /\ s' \in Slaves /\ s'.div = s.div + s.period /\ s'.period = s.period /\ s'.ram = s.ram
      /\ s' = STick[s]
  BY <1>2, <1>3, STickFields DEF STick
<1>5. Timed(queue, now, s')
  <2>1. 1 \in 1 .. Len(queue)
    BY <1>3
  <2>2. queue[1].ts \in Nat
    BY <1>1, <2>1, ElementOfSeq, CommandType
  <2>3. After(queue, 0, now) = queue[1].ts
    BY <1>3 DEF After
  <2>4. Begun(s', After(queue, 0, now))
    BY <1>2, <1>3, <1>4, <2>2, <2>3 DEF Begun
  <2>. QED
    BY <2>4 DEF IInv, Behind, Timed
<1>6. ASSUME "speed" \notin faults PROVE Linked(faults, queue, Plain(m), s')
  <2>1. PICK M : Chain(faults, M, queue, Plain(m), s)
    BY <1>6 DEF IInv, Behind, Linked
  <2>2. M[1] \in Masters /\ Abreast(faults, M[1], s)
    <3>1. 1 \in 1 .. Len(queue) + 1
      BY <1>3
    <3>. QED
      BY <2>1, <3>1 DEF Chain
  <2>3. Abreast(faults, M[1], STick[s])
    BY <1>3, <2>2, SlaveTickAbreast
  <2>4. Chain(faults, M, queue, Plain(m), STick[s])
    BY <2>1, <2>3 DEF Chain
  <2>. QED
    BY <1>4, <2>4 DEF Linked
<1>7. Behind(queue, faults, Plain(m), s', now, written, m.ram)
  BY <1>4, <1>5, <1>6 DEF IInv, Behind
<1>8. Typed' /\ Ahead(s', 0)
  BY <1>2, <1>3, <1>4 DEF IInv, Typed, Ahead
<1>. QED
  BY <1>2, <1>7, <1>8 DEF IInv

\* Any slave that differs in the wave memory alone is as far behind.
LEMMA LikeLinked ==
    ASSUME NEW F, NEW q \in Seq(Commands), NEW c, NEW d \in Slaves, NEW e \in Slaves, Like(d, e),
           Linked(F, q, c, d)
    PROVE  Linked(F, q, c, e)
<1>1. PICK M : Chain(F, M, q, c, d)
  BY DEF Linked
<1>2. 1 \in 1 .. Len(q) + 1
  BY LenProperties
<1>3. M[1] \in Masters /\ Abreast(F, M[1], d)
  BY <1>1, <1>2 DEF Chain
<1>4. Abreast(F, M[1], e)
  BY <1>3, LikeAbreast
<1>5. Chain(F, M, q, c, e)
  BY <1>1, <1>4 DEF Chain
<1>. QED
  BY <1>5 DEF Linked

LEMMA LikeTimed ==
    ASSUME NEW q, NEW t, NEW d, NEW e, Like(d, e), Timed(q, t, d)
    PROVE  Timed(q, t, e)
BY DEF Like, Timed, Begun

LEMMA SlaveCommandIInv == ASSUME IInv, SlaveCommand PROVE IInv'
<1>. DEFINE x == queue[1]
            e == Heeded(s, x.cmd, x.ts)
            p == Plain(m)
<1>1. queue \in Seq(Commands) /\ queue # << >> /\ Head(queue) = x /\ x \in Commands
  <2>1. queue \in Seq(Commands) /\ queue # << >>
    BY DEF SlaveCommand, IInv, Behind
  <2>2. 1 \in 1 .. Len(queue)
    BY <2>1, EmptySeq, LenProperties
  <2>. QED
    BY <2>1, <2>2, ElementOfSeq
<1>2. x.ts \in Nat /\ x.cmd \in Cmds
  BY <1>1, CommandType
<1>3. /\ s \in Slaves /\ now \in Nat /\ p \in Masters /\ Timed(queue, now, s) /\ Ahead(s, 0)
      /\ "speed" \notin faults => Linked(faults, queue, p, s)
      /\ \A k \in written : Carried(queue, k, m.ram[k], s.ram[k])
      /\ written \subseteq Cells
  BY PlainFields DEF IInv, Typed, Behind
<1>4. /\ Ahead(s, x.ts) /\ s' = SlaveAct(x.ts, x.cmd) /\ queue' = Tail(queue) /\ aborted' \in BOOLEAN
      /\ UNCHANGED <<now, m, pending, updated, written, faults, file>>
  <2>1. ~Due(s, x.ts) => Ahead(s, x.ts)
    BY <1>2, <1>3, ClockTypes DEF Due, Ahead
  <2>. QED
    BY <1>1, <2>1 DEF SlaveCommand
<1>5. Tail(queue) \in Seq(Commands) /\ e \in Slaves /\ e.ram = s.ram
  <2>. DEFINE c == [MasterPower([k \in Cells |-> 0]) EXCEPT !.div = Never]
  <2>1. c \in Masters /\ c.div = Never
    BY PowerTypes DEF Masters
  <2>. HIDE DEF c
  <2>2. Acts(c, s, x.cmd, x.ts)
    BY <1>2, <1>3, <1>4, <2>1, CommandActs DEF Ahead
  <2>. QED
    BY <1>1, <2>2, HeadTailProperties DEF Acts
<1>6. "speed" \notin faults => Linked(faults, Tail(queue), p, e)
  BY <1>1, <1>3, <1>4, TailLinked
<1>7. Timed(Tail(queue), now, e) /\ Ahead(e, 0)
  BY <1>1, <1>3, <1>4, TailTimed
<1>8. /\ s' \in Slaves /\ Like(e, s')
      /\ \A k \in Cells : IF Writes(x, k) THEN s'.ram[k] = x.cmd.x ELSE s'.ram[k] = s.ram[k]
  <2>1. CASE x.cmd.reg = "wave"
    <3>1. PICK c \in Cells, z \in Samples : x.cmd = Wave(c, z)
      BY <1>2, <2>1 DEF Cmds, Accesses, Waves, Env, Gate, Speed, Protect, Read, Frame, Update, Compare
    <3>2. x.cmd.c = c /\ x.cmd.x = z
      BY <3>1 DEF Wave
    <3>. DEFINE ram == [s.ram EXCEPT ![c] = z]
    <3>3. s.ram \in [Cells -> Samples]
      BY <1>3 DEF Slaves
    <3>4. ram \in [Cells -> Samples] /\ \A k \in Cells : ram[k] = IF k = c THEN z ELSE s.ram[k]
      BY <3>3
    <3>5. s' = [s EXCEPT !.ram = ram] /\ e = s
      BY <1>4, <2>1, <3>2 DEF SlaveAct, Heeded
    <3>. HIDE DEF ram, e
    <3>6. s' \in Slaves /\ Like(e, s') /\ s'.ram = ram
      BY <1>3, <3>4, <3>5 DEF Slaves, Like
    <3>. QED
      BY <2>1, <3>2, <3>4, <3>6 DEF Writes
  <2>2. CASE x.cmd.reg # "wave"
    <3>1. s' = e
      BY <1>4, <2>2 DEF SlaveAct, Heeded
    <3>. HIDE DEF e
    <3>. QED
      BY <1>5, <2>2, <3>1 DEF Writes, Like
  <2>. QED
    BY <2>1, <2>2
<1>. HIDE DEF e, p
<1>9. ASSUME NEW k \in written PROVE Carried(Tail(queue), k, m.ram[k], s'.ram[k])
  <2>1. Carried(queue, k, m.ram[k], s.ram[k]) /\ k \in Cells
    BY <1>3
  <2>2. IF Writes(queue[1], k) THEN s'.ram[k] = queue[1].cmd.x ELSE s'.ram[k] = s.ram[k]
    BY <1>8, <2>1
  <2>. QED
    BY <1>1, <2>1, <2>2, TailCarried
<1>10. /\ "speed" \notin faults => Linked(faults, Tail(queue), p, s')
       /\ Timed(Tail(queue), now, s') /\ Ahead(s', 0)
  <2>1. Ahead(s', 0)
    BY <1>7, <1>8 DEF Like, Ahead
  <2>. QED
    BY <1>5, <1>6, <1>7, <1>8, <2>1, LikeLinked, LikeTimed
<1>11. Behind(Tail(queue), faults, p, s', now, written, m.ram)
  BY <1>5, <1>9, <1>10 DEF Behind
<1>12. Typed'
  BY <1>4, <1>8 DEF IInv, Typed
<1>. QED
  BY <1>4, <1>10, <1>11, <1>12 DEF IInv, p

LEMMA NextIInv == IInv /\ [Next]_vars => IInv'
<1>. SUFFICES ASSUME IInv, [Next]_vars PROVE IInv'
  OBVIOUS
<1>1. CASE UNCHANGED vars
  BY <1>1 DEF vars, IInv, Typed
<1>2. CASE Next
  BY <1>2, NewSongIInv, BeginIInv, CycleIInv, ForceUpdateIInv, WriteWaveIInv, MasterUpdateIInv,
     FinishIInv, SlaveUpdateIInv, SlaveCommandIInv DEF Next
<1>. QED
  BY <1>1, <1>2

THEOREM Inductive == Spec => []IInv
BY InitIInv, NextIInv, PTL DEF Spec

-----------------------------------------------------------------------------
(* What follows. *)

\* Both units, the pending access and the histories stay in their ranges: no frame
\* overtakes a clock.
THEOREM Types == Spec => []TypeOK
<1>1. IInv => TypeOK
  <2>. SUFFICES ASSUME IInv PROVE TypeOK
    OBVIOUS
  <2>1. 0 .. Wrap - 1 \subseteq Nat
    BY Constants
  <2>2. s.per \in [Units -> Nat]
    BY <2>1 DEF IInv, Typed, Slaves
  <2>. QED
    BY <2>2 DEF TypeOK, IInv, Typed, Masters, Slaves
<1>. QED
  BY <1>1, Inductive, PTL

\* With an empty queue the slave is abreast of the master itself.
LEMMA CaughtUp ==
    ASSUME IInv, queue = << >>, "speed" \notin faults
    PROVE  /\ Abreast(faults, Plain(m), s) /\ Plain(m) \in Masters /\ s \in Slaves
           /\ Plain(m).div = m.div /\ Plain(m).period = m.period /\ Plain(m).level = m.level
<1>1. PICK M : Chain(faults, M, queue, Plain(m), s)
  BY DEF IInv, Behind, Linked
<1>2. Len(queue) = 0 /\ m \in Masters /\ s \in Slaves
  BY EmptySeq DEF IInv, Typed
<1>. DEFINE p == Plain(m)
<1>3. p \in Masters /\ p.div = m.div /\ p.period = m.period /\ p.level = m.level
  BY <1>2, PlainFields
<1>4. M[0 + 1] = p /\ Abreast(faults, M[1], s)
  BY <1>1, <1>2 DEF Chain
<1>. HIDE DEF p
<1>5. Abreast(faults, p, s)
  BY <1>4
<1>. QED
  BY <1>2, <1>3, <1>5 DEF p

\* What the 6502 reads from $4090 and $4092 are the levels that are heard.
THEOREM Levels == Spec => []LevelsAreHeard
<1>1. IInv => LevelsAreHeard
  <2>. SUFFICES ASSUME IInv, InStep, faults = {} PROVE m.level = s.level
    BY DEF LevelsAreHeard
  <2>1. Agree(faults, Plain(m), s) /\ Plain(m).level = m.level
    BY CaughtUp, SameAgree DEF InStep
  <2>. QED
    BY <2>1 DEF Agree, LevelsAgree
<1>. QED
  BY <1>1, Inductive, PTL

\* At a frame boundary the two envelope clocks stand at the same place.
THEOREM Clocks == Spec => []ClocksInStep
<1>1. IInv => ClocksInStep
  <2>. SUFFICES ASSUME IInv, now = 0, queue = << >>, "speed" \notin faults PROVE m.div = s.div
    BY DEF ClocksInStep
  <2>1. Abreast(faults, Plain(m), s) /\ Plain(m) \in Masters /\ s \in Slaves
        /\ Plain(m).div = m.div /\ Plain(m).period = m.period
    BY CaughtUp
  <2>2. Settled(Plain(m), 0)
    BY <2>1 DEF IInv, Settled, Begun, Ahead
  <2>3. Settled(s, 0)
    <3>1. After(queue, 0, now) = 0
      BY EmptySeq DEF After
    <3>. QED
      BY <3>1 DEF IInv, Behind, Timed, Settled
  <2>4. Agree(faults, Plain(m), s)
    BY <2>1, <2>2, <2>3, SettledAgree
  <2>. QED
    BY <2>1, <2>4 DEF Agree, ClockAgrees
<1>. QED
  BY <1>1, Inductive, PTL

\* What the 6502 reads back from wave memory is what is played.
THEOREM WaveMemory == Spec => []WaveIsHeard
<1>1. IInv => WaveIsHeard
  <2>. SUFFICES ASSUME IInv, queue = << >>, NEW c \in written PROVE m.ram[c] = s.ram[c]
    BY DEF WaveIsHeard
  <2>1. Carried(queue, c, m.ram[c], s.ram[c]) /\ Len(queue) = 0
    BY EmptySeq DEF IInv, Behind
  <2>. QED
    BY <2>1 DEF Carried
<1>. QED
  BY <1>1, Inductive, PTL
=============================================================================
