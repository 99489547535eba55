------------------------------ MODULE NatFacts -------------------------------
(***************************************************************************)
(* What the proofs of this project need of natural numbers: the least      *)
(* element of a set, which stands for induction, recursion along the       *)
(* numbers up to a bound, division with remainder, and what a repeated     *)
(* step reaches.                                                           *)
(***************************************************************************)
EXTENDS Integers, FiniteSetTheorems, TLAPS

\* Every set of naturals that is not empty has a least element.
LEMMA LeastNatural ==
    ASSUME NEW T, T \subseteq Nat, T # {}
    PROVE  \E x \in T : \A y \in T : x <= y
<1>. DEFINE up == {0 .. n : n \in T}
<1>1. up \subseteq FiniteSubsetsOf(Nat)
  <2>1. \A n \in T : IsFiniteSet(0 .. n) /\ 0 .. n \subseteq Nat
    BY FS_Interval
  <2>. QED
    BY <2>1 DEF FiniteSubsetsOf
<1>2. up # {}
  OBVIOUS
<1>3. PICK s \in up : \A r \in up : <<r, s>> \notin StrictSubsetOrdering(Nat)
  BY <1>1, <1>2, FS_StrictSubsetOrderingWellFounded, WFMin
<1>4. PICK x \in T : s = 0 .. x
  BY <1>3
<1>5. ASSUME NEW y \in T, y < x
      PROVE  FALSE
  <2>1. 0 .. y \in up
    OBVIOUS
  <2>2. x \notin 0 .. y /\ x \in s /\ 0 .. y \subseteq s
    BY <1>4, <1>5
  <2>3. s \in SUBSET Nat /\ 0 .. y \in SUBSET Nat
    BY <1>4
  <2>. QED
    BY <1>3, <2>1, <2>2, <2>3 DEF StrictSubsetOrdering
<1>. QED
  BY <1>5

\* A set that holds 0 and with each of its numbers the next one holds all numbers
\* up to m.
LEMMA UpToBound ==
    ASSUME NEW m \in Nat, NEW S, 0 \in S, \A n \in 0 .. m : n # 0 /\ n - 1 \in S => n \in S
    PROVE  0 .. m \subseteq S
<1>. DEFINE out == {n \in 0 .. m : n \notin S}
<1>1. SUFFICES ASSUME out # {} PROVE FALSE
  OBVIOUS
<1>2. out \subseteq Nat
  OBVIOUS
<1>3. PICK n \in out : \A k \in out : n <= k
  BY <1>1, <1>2, LeastNatural
<1>4. n # 0 /\ n - 1 \in 0 .. m /\ n - 1 \notin out
  BY <1>3
<1>. QED
  BY <1>3, <1>4

\* m steps that stay in S can be made, one after the other: a recursive
\* definition of them has a solution.
IsCourse(g, S, step, s, m) ==
    /\ g \in [0 .. m -> S]
    /\ g[0] = s
    /\ \A n \in 1 .. m : g[n] = step[n][g[n - 1]]

LEMMA Courses ==
    ASSUME NEW S, NEW m \in Nat, NEW s \in S, NEW step \in [1 .. m -> [S -> S]]
    PROVE  \E g : IsCourse(g, S, step, s, m)
<1>. DEFINE Made(k, g) == g[0] = s /\ \A n \in 1 .. k : g[n] = step[n][g[n - 1]]
            done == {k \in 0 .. m : \E g \in [0 .. k -> S] : Made(k, g)}
<1>1. 0 \in done
  <2>. DEFINE g == [n \in 0 .. 0 |-> s]
  <2>1. g \in [0 .. 0 -> S] /\ Made(0, g) /\ 0 \in 0 .. m
    OBVIOUS
  <2>. HIDE DEF g, Made
  <2>. QED
    BY <2>1
<1>2. ASSUME NEW k \in 0 .. m, k # 0, k - 1 \in done
      PROVE  k \in done
  <2>1. PICK g \in [0 .. k - 1 -> S] : Made(k - 1, g)
    BY <1>2
  <2>. DEFINE h == [n \in 0 .. k |-> IF n = k THEN step[k][g[k - 1]] ELSE g[n]]
  <2>2. h \in [0 .. k -> S]
    BY <1>2, <2>1
  <2>3. Made(k, h)
    <3>1. h[0] = s
      BY <1>2, <2>1
    <3>2. ASSUME NEW n \in 1 .. k PROVE h[n] = step[n][h[n - 1]]
      <4>1. n - 1 \in 0 .. k - 1 /\ h[n - 1] = g[n - 1]
        BY <1>2
      <4>2. CASE n = k
        BY <1>2, <4>1, <4>2
      <4>3. CASE n # k
        BY <1>2, <2>1, <4>1, <4>3
      <4>. QED
        BY <4>2, <4>3
    <3>. QED
      BY <3>1, <3>2
  <2>. HIDE DEF h
  <2>. QED
    BY <1>2, <2>2, <2>3
<1>3. 0 .. m \subseteq done
  BY <1>1, <1>2, UpToBound
<1>. QED
  BY <1>3 DEF IsCourse

\* The same with one step for all m rounds.
IsRun(g, S, step, s, m) ==
    /\ g \in [0 .. m -> S]
    /\ g[0] = s
    /\ \A n \in 1 .. m : g[n] = step[g[n - 1]]

LEMMA Rounds ==
    ASSUME NEW S, NEW step \in [S -> S], NEW s \in S, NEW m \in Nat
    PROVE  \E g : IsRun(g, S, step, s, m)
<1>. DEFINE steps == [n \in 1 .. m |-> step]
<1>1. steps \in [1 .. m -> [S -> S]]
  OBVIOUS
<1>2. \A n \in 1 .. m : steps[n] = step
  OBVIOUS
<1>. HIDE DEF steps
<1>3. PICK g : IsCourse(g, S, steps, s, m)
  BY <1>1, Courses
<1>. QED
  BY <1>2, <1>3 DEF IsRun, IsCourse

-----------------------------------------------------------------------------

\* Quotient and remainder.
LEMMA DivMod ==
    ASSUME NEW a \in Int, NEW m \in Nat \ {0}
    PROVE  /\ a = m * (a \div m) + (a % m)
           /\ a \div m \in Int /\ a % m \in 0 .. m - 1
OBVIOUS

\* They are the only ones.
LEMMA DivModUnique ==
    ASSUME NEW m \in Nat \ {0}, NEW q \in Int, NEW r \in 0 .. m - 1
    PROVE  (m * q + r) \div m = q /\ (m * q + r) % m = r
<1>. DEFINE a == m * q + r
<1>1. a \in Int
  OBVIOUS
<1>2. a = m * (a \div m) + (a % m) /\ a \div m \in Int /\ a % m \in 0 .. m - 1
  BY <1>1, DivMod
<1>. DEFINE p == a \div m
            s == a % m
<1>3. m * q + r = m * p + s /\ p \in Int /\ s \in 0 .. m - 1
  BY <1>2
<1>. HIDE DEF a, p, s
<1>4. ASSUME p > q PROVE FALSE
  <2>1. m * (p - q) >= m
    BY <1>3, <1>4
  <2>2. m * (p - q) = m * p - m * q
    BY <1>3
  <2>. QED
    BY <1>3, <2>1, <2>2
<1>5. ASSUME q > p PROVE FALSE
  <2>1. m * (q - p) >= m
    BY <1>3, <1>5
  <2>2. m * (q - p) = m * q - m * p
    BY <1>3
  <2>. QED
    BY <1>3, <2>1, <2>2
<1>6. p = q
  BY <1>3, <1>4, <1>5
<1>7. r = s
  BY <1>3, <1>6
<1>. QED
  BY <1>6, <1>7 DEF a, p, s

\* Multiples do not change a remainder.
LEMMA ModShift ==
    ASSUME NEW m \in Nat \ {0}, NEW a \in Int, NEW k \in Int
    PROVE  (a + m * k) % m = a % m
<1>. DEFINE q == a \div m
            r == a % m
<1>1. a = m * q + r /\ q \in Int /\ r \in 0 .. m - 1
  BY DivMod
<1>. HIDE DEF q
<1>2. a + m * k = m * (q + k) + r /\ q + k \in Int
  BY <1>1
<1>. HIDE DEF r
<1>3. (m * (q + k) + r) % m = r
  BY <1>1, <1>2, DivModUnique
<1>. QED
  BY <1>2, <1>3 DEF r

\* A remainder within a sum.
LEMMA ModAdd ==
    ASSUME NEW m \in Nat \ {0}, NEW a \in Int, NEW b \in Int
    PROVE  (a + (b % m)) % m = (a + b) % m
<1>1. b = m * (b \div m) + (b % m) /\ b \div m \in Int /\ b % m \in 0 .. m - 1
  BY DivMod
<1>. DEFINE q == b \div m
            r == b % m
<1>2. q \in Int /\ r \in Int /\ a + b = (a + r) + m * q
  BY <1>1
<1>. HIDE DEF q, r
<1>3. a + r \in Int
  BY <1>2
<1>4. ((a + r) + m * q) % m = (a + r) % m
  BY <1>2, <1>3, ModShift
<1>. QED
  BY <1>2, <1>4 DEF r

\* A number below the modulus is its own remainder.
LEMMA ModSmall ==
    ASSUME NEW m \in Nat \ {0}, NEW a \in 0 .. m - 1
    PROVE  a % m = a
OBVIOUS

-----------------------------------------------------------------------------
(* What a step reaches from a, however often it is taken: the elements of  *)
(* every set that holds a and is closed under the step.                    *)

Orbit(f, a) == {b \in DOMAIN f : \A S \in SUBSET DOMAIN f :
                                     a \in S /\ (\A x \in S : f[x] \in S) => b \in S}

LEMMA OrbitWithin ==
    ASSUME NEW D, NEW f \in [D -> D], NEW a, NEW S \in SUBSET D,
           a \in S, \A x \in S : f[x] \in S
    PROVE  Orbit(f, a) \subseteq S
BY DEF Orbit

LEMMA OrbitStart ==
    ASSUME NEW D, NEW f \in [D -> D], NEW a \in D
    PROVE  a \in Orbit(f, a)
BY DEF Orbit

LEMMA OrbitStep ==
    ASSUME NEW D, NEW f \in [D -> D], NEW a, NEW b \in Orbit(f, a)
    PROVE  b \in D /\ f[b] \in Orbit(f, a)
<1>1. b \in D /\ f[b] \in D
  BY DEF Orbit
<1>. QED
  BY <1>1 DEF Orbit

\* What is reached from a is a itself or is reached from the next one.
LEMMA OrbitNext ==
    ASSUME NEW D, NEW f \in [D -> D], NEW a \in D, NEW b \in Orbit(f, a)
    PROVE  b = a \/ b \in Orbit(f, f[a])
<1>. DEFINE S == {a} \cup Orbit(f, f[a])
<1>1. f[a] \in D
  OBVIOUS
<1>2. f[a] \in Orbit(f, f[a])
  BY <1>1, OrbitStart
<1>3. \A x \in Orbit(f, f[a]) : x \in D /\ f[x] \in Orbit(f, f[a])
  BY OrbitStep
<1>4. S \in SUBSET D /\ a \in S /\ \A x \in S : f[x] \in S
  BY <1>2, <1>3
<1>. HIDE DEF S
<1>5. Orbit(f, a) \subseteq S
  BY <1>4, OrbitWithin
<1>. QED
  BY <1>5 DEF S

\* A step leads to one place only where it stays, whatever the number of steps.
LEMMA OrbitRest ==
    ASSUME NEW D, NEW f \in [D -> D], NEW a \in D, NEW b \in Orbit(f, a), NEW c \in Orbit(f, a),
           f[b] = b, f[c] = c
    PROVE  b = c
<1>. DEFINE S == {x \in D : c \in Orbit(f, x)}
<1>1. a \in S
  OBVIOUS
<1>2. ASSUME NEW x \in S PROVE f[x] \in S
  <2>1. x \in D /\ f[x] \in D /\ c \in Orbit(f, x)
    OBVIOUS
  <2>2. c = x \/ c \in Orbit(f, f[x])
    BY <2>1, OrbitNext
  <2>3. CASE c = x
    <3>1. c \in Orbit(f, f[x])
      BY <2>1, <2>3, OrbitStart
    <3>. QED
      BY <2>1, <3>1
  <2>4. CASE c \in Orbit(f, f[x])
    BY <2>1, <2>4
  <2>. QED
    BY <2>2, <2>3, <2>4
<1>3. Orbit(f, a) \subseteq S
  <2>1. S \in SUBSET D
    OBVIOUS
  <2>. HIDE DEF S
  <2>. QED
    BY <1>1, <1>2, <2>1, OrbitWithin
<1>4. c \in Orbit(f, b) /\ b \in D
  BY <1>3
<1>5. Orbit(f, b) \subseteq {b}
  <2>. DEFINE T == {b}
  <2>1. T \in SUBSET D /\ b \in T /\ \A x \in T : f[x] \in T
    BY <1>4
  <2>. HIDE DEF T
  <2>2. Orbit(f, b) \subseteq T
    BY <2>1, OrbitWithin
  <2>. QED
    BY <2>2 DEF T
<1>. QED
  BY <1>4, <1>5
=============================================================================
