---------------------------- MODULE VoicesProofs ----------------------------
(***************************************************************************)
(* What is proved of SlaveVoices, for every ratio of clocks, size of ring  *)
(* and song, however long.  Resampled: the chips keep time in three ways,  *)
(* and each is exact: what a run leaves over is kept, and is the remainder *)
(* of the song's clock.  VoicesAsWritten: what each chip plays from is     *)
(* what its registers say.  SawWhole: a change of the saw's period that    *)
(* waits does so just as long as its other half may take.                  *)
(***************************************************************************)
EXTENDS SlaveVoices, NatFacts

-----------------------------------------------------------------------------
(* The resampler. *)

\* One more summand below the modulus.
LEMMA NextMultiple ==
    ASSUME NEW m \in Nat \ {0}, NEW a \in Int, NEW d \in 0 .. m - 1
    PROVE  /\ (a % m) + d < m => (a + d) \div m = a \div m /\ (a + d) % m = (a % m) + d
           /\ (a % m) + d >= m => (a + d) \div m = a \div m + 1 /\ (a + d) % m = (a % m) + d - m
<1>. DEFINE q == a \div m
            r == a % m
<1>1. a = m * q + r /\ q \in Int /\ r \in 0 .. m - 1
  BY DivMod
<1>. HIDE DEF q
<1>2. CASE r + d < m
  <2>1. a + d = m * q + (r + d) /\ r + d \in 0 .. m - 1
    BY <1>1, <1>2
  <2>. HIDE DEF r
  <2>2. (m * q + (r + d)) \div m = q /\ (m * q + (r + d)) % m = r + d
    BY <1>1, <2>1, DivModUnique
  <2>. QED
    BY <1>1, <1>2, <2>1, <2>2 DEF q, r
<1>3. CASE r + d >= m
  <2>1. a + d = m * (q + 1) + (r + d - m) /\ r + d - m \in 0 .. m - 1 /\ q + 1 \in Int
    <3>1. m * (q + 1) = m * q + m
      BY <1>1
    <3>. QED
      BY <1>1, <1>3, <3>1, SMTT(30)
  <2>. HIDE DEF r
  <2>2. (m * (q + 1) + (r + d - m)) \div m = q + 1 /\ (m * (q + 1) + (r + d - m)) % m = r + d - m
    BY <1>1, <2>1, DivModUnique
  <2>. QED
    BY <1>1, <1>3, <2>1, <2>2 DEF q, r
<1>. QED
  BY <1>1, <1>2, <1>3

\* The source's distance after a sample is stored at buf and the source moves on
\* by inc, if there is room for it.
LEMMA LagMoves ==
    ASSUME NEW buf \in 0 .. Ring - 1, NEW pos \in Int, NEW inc \in Int,
           NEW L, L = (Phases * (buf - Lead) - pos) % (Phases * Ring),
           L + Phases - inc \in 0 .. Phases * Ring - 1
    PROVE  (Phases * (((buf + 1) % Ring) - Lead) - ((pos + inc) % (Phases * Ring))) % (Phases * Ring)
               = L + Phases - inc
<1>. DEFINE K == Phases * Ring
            x == Phases * (buf - Lead) - pos
            b == (buf + 1) % Ring
            c == (buf + 1) \div Ring
            p == (pos + inc) % K
            k == (pos + inc) \div K
            q == x \div K
            y == Phases * (b - Lead) - p
<1>1. Ring \in Nat \ {0} /\ Lead \in Int /\ Phases \in Nat \ {0}
  BY ResamplerAssumption
<1>2. K \in Nat \ {0}
  BY <1>1
<1>3. b \in Int /\ c \in Int /\ buf + 1 = Ring * c + b
  BY <1>1, DivMod
<1>4. p \in Int /\ k \in Int /\ pos + inc = K * k + p
  <2>1. pos + inc \in Int
    OBVIOUS
  <2>. HIDE DEF K
  <2>. QED
    BY <1>2, <2>1, DivMod
<1>5. x \in Int
  BY <1>1
<1>. HIDE DEF x
<1>6. q \in Int /\ L \in 0 .. K - 1 /\ x = K * q + L
  BY <1>2, <1>5, DivMod DEF x
<1>. HIDE DEF b, c, p, k, q
<1>7. Phases * (buf + 1) = K * c + Phases * b
  <2>1. Phases * (Ring * c + b) = Phases * (Ring * c) + Phases * b
    BY <1>1, <1>3
  <2>2. Phases * (Ring * c) = (Phases * Ring) * c
    BY <1>1, <1>3
  <2>. QED
    BY <1>3, <2>1, <2>2
<1>8. /\ Phases * (buf + 1) = Phases * buf + Phases
      /\ Phases * (buf - Lead) = Phases * buf - Phases * Lead
      /\ Phases * (b - Lead) = Phases * b - Phases * Lead
  BY <1>1, <1>3
<1>9. K * (q - c + k) = K * q - K * c + K * k /\ q - c + k \in Int
  BY <1>2, <1>3, <1>4, <1>6
<1>10. y = K * (q - c + k) + (L + Phases - inc)
  <2>. DEFINE f == Phases * buf
              g == Phases * Lead
              h == Phases * b
              u == K * c
              v == K * k
              w == K * q
  <2>1. {f, g, h, u, v, w} \subseteq Int
    BY <1>1, <1>2, <1>3, <1>4, <1>6
  <2>2. y = h - g - p /\ x = f - g - pos /\ f + Phases = u + h /\ pos + inc = v + p /\ x = w + L
    BY <1>4, <1>6, <1>7, <1>8 DEF x
  <2>3. K * (q - c + k) = w - u + v
    BY <1>9
  <2>. HIDE DEF f, g, h, u, v, w, y, K
  <2>. QED
    BY <1>1, <1>3, <1>4, <1>5, <1>6, <2>1, <2>2, <2>3
<1>. DEFINE z == q - c + k
            l == L + Phases - inc
<1>11. l \in 0 .. K - 1 /\ z \in Int
  BY <1>9
<1>. HIDE DEF y, z, l, K
<1>12. (K * z + l) % K = l
  BY <1>2, <1>11, DivModUnique
<1>13. y % K = l
  BY <1>10, <1>12 DEF z, l
<1>. QED
  BY <1>13 DEF y, l, K, b, p

\* The way and what is left of the fraction are exact.
LEMMA CarryExact ==
    ASSUME NEW scale \in Nat \ {0}, NEW full \in Nat, NEW f \in 0 .. scale - 1
    PROVE  /\ Rest(f, scale, full) \in 0 .. scale - 1 /\ Way(f, scale, full) \in Int
           /\ Way(f, scale, full) * scale = Phases * full + f - Rest(f, scale, full)
<1>. DEFINE P == Phases * full
            m == P % scale
            q == P \div scale
<1>1. P \in Int
  BY ResamplerAssumption
<1>. HIDE DEF P
<1>2. m \in 0 .. scale - 1 /\ q \in Int /\ P = scale * q + m
  BY <1>1, DivMod
<1>. HIDE DEF m, q
<1>3. CASE f + m >= scale
  <2>1. Carry(f, scale, full) = 1
    BY <1>3 DEF Carry, m, P
  <2>2. (q + 1) * scale = scale * q + scale
    BY <1>2
  <2>3. Way(f, scale, full) = q + 1 /\ Rest(f, scale, full) = f + m - scale
    BY <2>1 DEF Way, Rest, q, m, P
  <2>. QED
    BY <1>2, <1>3, <2>2, <2>3 DEF P
<1>4. CASE ~(f + m >= scale)
  <2>1. Carry(f, scale, full) = 0
    BY <1>4 DEF Carry, m, P
  <2>2. q * scale = scale * q
    BY <1>2
  <2>3. Way(f, scale, full) = q /\ Rest(f, scale, full) = f + m
    <3>1. Way(f, scale, full) = q + 0 /\ Rest(f, scale, full) = f + m - 0 * scale
      BY <2>1 DEF Way, Rest, q, m, P
    <3>. QED
      BY <1>2, <3>1
  <2>. QED
    BY <1>2, <1>4, <2>2, <2>3 DEF P
<1>. QED
  BY <1>3, <1>4

\* A distance that the divider and the fraction account for is within the ring.
LEMMA LagFits ==
    ASSUME NEW scale \in Nat \ {0}, NEW full \in Nat, full <= (Ring - 1) * scale,
           NEW L \in Int, NEW d \in 0 .. full - 1, NEW f \in 0 .. scale - 1,
           L * scale = Phases * d + f
    PROVE  L \in 0 .. Phases * Ring - 1
<1>1. Phases \in Nat \ {0} /\ Ring \in Nat \ {0}
  BY ResamplerAssumption
<1>2. Phases * d \in Nat
  BY <1>1
<1>3. L >= 0
  <2>1. SUFFICES ASSUME L <= -1 PROVE FALSE
    OBVIOUS
  <2>2. L * scale <= -1
    BY <2>1
  <2>. QED
    BY <1>2, <2>2
<1>4. L < Phases * Ring
  <2>. DEFINE K == Phases * Ring
  <2>1. K \in Nat
    BY <1>1
  <2>2. SUFFICES ASSUME L >= K PROVE FALSE
    BY <1>1, <2>1
  <2>3. L * scale >= K * scale
    <3>1. (L - K) * scale >= 0 /\ (L - K) * scale = L * scale - K * scale
      BY <2>1, <2>2
    <3>2. L * scale \in Int /\ K * scale \in Int
      BY <2>1
    <3>. QED
      BY <3>1, <3>2
  <2>4. Phases * d <= Phases * ((Ring - 1) * scale)
    <3>. DEFINE top == (Ring - 1) * scale
    <3>1. top \in Int /\ d <= top
      BY <1>1
    <3>. HIDE DEF top
    <3>2. Phases * (top - d) >= 0 /\ Phases * (top - d) = Phases * top - Phases * d
      BY <1>1, <3>1
    <3>3. Phases * top \in Int
      BY <1>1, <3>1
    <3>. QED
      BY <1>2, <3>2, <3>3 DEF top
  <2>5. Phases * ((Ring - 1) * scale) = K * scale - Phases * scale
    BY <1>1
  <2>6. Phases * scale >= scale
    <3>1. (Phases - 1) * scale >= 0 /\ (Phases - 1) * scale = Phases * scale - scale
      BY <1>1
    <3>2. Phases * scale \in Int
      BY <1>1
    <3>. QED
      BY <3>1, <3>2
  <2>. DEFINE a == L * scale
              b == K * scale
              c == Phases * d
              e == Phases * ((Ring - 1) * scale)
              g == Phases * scale
  <2>7. {a, b, c, e, g} \subseteq Int
    BY <1>1, <2>1
  <2>8. a >= b /\ c <= e /\ e = b - g /\ g >= scale /\ a = c + f
    BY <2>3, <2>4, <2>5, <2>6
  <2>. HIDE DEF a, b, c, e, g
  <2>. QED
    BY <2>7, <2>8
<1>. QED
  BY <1>1, <1>3, <1>4

\* The resampler after n samples of a chip.
Exact(r, scale, full, n) ==
    /\ r \in Resamplers /\ r.frac < scale
    /\ r.div = (n * scale) % full
    /\ OnTime(r, scale, full, n)
    /\ WindowExact(r, scale)

Ratio(scale, full) ==
    scale \in Nat \ {0} /\ full \in Nat /\ scale < full /\ full <= (Ring - 1) * scale

\* q is r after a sample of the chip, and one for the sound processor if it is due.
After(q, r, scale, full) ==
    LET sum == r.div + scale IN
    /\ DOMAIN q = {"div", "pos", "frac", "buf", "offs"} /\ q = [x \in DOMAIN q |-> q[x]]
    /\ q.buf = (r.buf + 1) % Ring
    /\ sum < full => q.div = sum /\ q.pos = r.pos /\ q.frac = r.frac /\ q.offs = r.offs
    /\ ~(sum < full) =>
          /\ q.div = sum - full /\ q.pos = (r.pos + Way(r.frac, scale, full)) % (Phases * Ring)
          /\ q.frac = Rest(r.frac, scale, full) /\ q.offs = (r.offs + 1) % SampleRing

LEMMA ResampleFields ==
    ASSUME NEW r \in Resamplers, NEW scale, NEW full, Ratio(scale, full)
    PROVE  After(Resample(r, scale, full), r, scale, full)
<1>. DEFINE sum == r.div + scale
            stored == [r EXCEPT !.buf = (@ + 1) % Ring]
            q == Resample(r, scale, full)
<1>1. /\ DOMAIN stored = {"div", "pos", "frac", "buf", "offs"} /\ stored = [x \in DOMAIN stored |-> stored[x]]
      /\ stored.buf = (r.buf + 1) % Ring /\ stored.div = r.div /\ stored.pos = r.pos
      /\ stored.frac = r.frac /\ stored.offs = r.offs
  BY DEF Resamplers
<1>2. q = IF sum < full THEN [stored EXCEPT !.div = sum]
          ELSE Emit([stored EXCEPT !.div = sum - full], scale, full)
  BY DEF Resample
<1>. HIDE DEF stored, q
<1>3. CASE sum < full
  <2>1. After(q, r, scale, full)
    BY <1>1, <1>2, <1>3 DEF After
  <2>. QED
    BY <2>1 DEF q
<1>4. CASE ~(sum < full)
  <2>. DEFINE e == [stored EXCEPT !.div = sum - full]
  <2>1. /\ DOMAIN e = {"div", "pos", "frac", "buf", "offs"} /\ e = [x \in DOMAIN e |-> e[x]]
        /\ e.buf = (r.buf + 1) % Ring /\ e.div = sum - full /\ e.pos = r.pos
        /\ e.frac = r.frac /\ e.offs = r.offs
    BY <1>1
  <2>2. q = Emit(e, scale, full)
    BY <1>2, <1>4
  <2>. HIDE DEF e
  <2>3. After(q, r, scale, full)
    BY <1>4, <2>1, <2>2 DEF After, Emit
  <2>. QED
    BY <2>3 DEF q
<1>. QED
  BY <1>3, <1>4
\* A resampler stays exact with each sample of its chip.
LEMMA ResampleExact ==
    ASSUME NEW r, NEW scale, NEW full, NEW n \in Nat,
           Ratio(scale, full), Exact(r, scale, full, n)
    PROVE  Exact(Resample(r, scale, full), scale, full, n + 1)
<1>. DEFINE q == Resample(r, scale, full)
            sum == r.div + scale
            K == Phases * Ring
            L == Lag(r)
<1>1. /\ Ring \in Nat \ {0} /\ Lead \in 0 .. Ring - 1 /\ Phases \in Nat \ {0}
      /\ SampleRing \in Nat \ {0} /\ Latency \in 0 .. SampleRing
      /\ scale \in Nat \ {0} /\ full \in Nat \ {0} /\ scale < full /\ full <= (Ring - 1) * scale
  BY ResamplerAssumption DEF Ratio
<1>2. /\ r \in Resamplers /\ r.div \in Nat /\ r.pos \in 0 .. K - 1 /\ r.frac \in 0 .. scale - 1
      /\ r.buf \in 0 .. Ring - 1 /\ r.offs \in 0 .. SampleRing - 1
  BY <1>1 DEF Exact, Resamplers
<1>3. After(q, r, scale, full)
  BY <1>2, ResampleFields
<1>. HIDE DEF q
<1>4. K \in Nat \ {0}
  BY <1>1
<1>5. L \in Int /\ L * scale = Phases * r.div + r.frac
  <2>1. Phases * (r.buf - Lead) - r.pos \in Int
    BY <1>1, <1>2
  <2>. DEFINE x == Phases * (r.buf - Lead) - r.pos
  <2>. HIDE DEF x, K
  <2>2. x % K \in Int
    BY <1>4, <2>1, DivMod DEF x
  <2>. QED
    BY <2>2 DEF Exact, WindowExact, Lag, x, K
<1>6. L = (Phases * (r.buf - Lead) - r.pos) % (Phases * Ring)
  BY DEF Lag
<1>. HIDE DEF L
<1>7. n * scale \in Nat /\ (n + 1) * scale = n * scale + scale
  BY <1>1
<1>8. r.div = (n * scale) % full /\ r.div \in 0 .. full - 1
  <2>. DEFINE a == n * scale
  <2>1. a \in Int
    BY <1>7
  <2>2. r.div = a % full
    BY DEF Exact
  <2>. HIDE DEF a
  <2>3. a % full \in 0 .. full - 1
    BY <1>1, <2>1, DivMod
  <2>. QED
    BY <2>2, <2>3 DEF a
<1>9. /\ sum < full => ((n + 1) * scale) \div full = (n * scale) \div full
                       /\ ((n + 1) * scale) % full = sum
      /\ ~(sum < full) => ((n + 1) * scale) \div full = (n * scale) \div full + 1
                       /\ ((n + 1) * scale) % full = sum - full
  <2>. DEFINE a == n * scale
              b == (n + 1) * scale
  <2>1. a \in Int /\ b = a + scale /\ r.div = a % full
    BY <1>7, <1>8
  <2>. HIDE DEF a, b
  <2>2. scale \in 0 .. full - 1
    BY <1>1
  <2>3. /\ (a % full) + scale < full => (a + scale) \div full = a \div full /\ (a + scale) % full = (a % full) + scale
        /\ (a % full) + scale >= full =>
             (a + scale) \div full = a \div full + 1 /\ (a + scale) % full = (a % full) + scale - full
    BY <1>1, <2>1, <2>2, NextMultiple
  <2>4. sum = (a % full) + scale /\ sum \in Int
    BY <1>1, <1>2, <2>1
  <2>. HIDE DEF sum
  <2>5. b = a + scale
    BY <2>1
  <2>. QED
    BY <1>1, <2>3, <2>4, <2>5 DEF a, b
<1>. DEFINE inc == IF sum < full THEN 0 ELSE Way(r.frac, scale, full)
            d == q.div
            f == q.frac
<1>10. /\ inc \in Int /\ d \in 0 .. full - 1 /\ f \in 0 .. scale - 1
       /\ d = ((n + 1) * scale) % full
       /\ inc * scale = Phases * (sum - d) + (r.frac - f)
       /\ q.pos = (r.pos + inc) % K
  <2>1. CASE sum < full
    <3>1. inc = 0 /\ d = sum /\ f = r.frac /\ q.pos = r.pos
      BY <1>3, <2>1 DEF After
    <3>2. d \in 0 .. full - 1 /\ f \in 0 .. scale - 1
      BY <1>1, <1>2, <2>1, <3>1
    <3>3. inc * scale = Phases * (sum - d) + (r.frac - f)
      BY <1>1, <1>2, <3>1
    <3>4. r.pos = (r.pos + inc) % K
      <4>1. r.pos + inc = r.pos
        BY <1>2, <3>1
      <4>. HIDE DEF K, inc
      <4>. QED
        BY <1>2, <1>4, <4>1, ModSmall
    <3>. HIDE DEF K, sum, d, f
    <3>. QED
      BY <1>9, <2>1, <3>1, <3>2, <3>3, <3>4
  <2>2. CASE ~(sum < full)
    <3>1. inc = Way(r.frac, scale, full) /\ d = sum - full /\ f = Rest(r.frac, scale, full)
          /\ q.pos = (r.pos + inc) % K
      BY <1>3, <2>2 DEF After
    <3>2. inc \in Int /\ f \in 0 .. scale - 1 /\ inc * scale = Phases * full + r.frac - f
      <4>. DEFINE g == r.frac
      <4>1. scale \in Nat \ {0} /\ full \in Nat /\ g \in 0 .. scale - 1
        BY <1>1, <1>2
      <4>. HIDE DEF g
      <4>2. /\ Rest(g, scale, full) \in 0 .. scale - 1 /\ Way(g, scale, full) \in Int
            /\ Way(g, scale, full) * scale = Phases * full + g - Rest(g, scale, full)
        BY <4>1, CarryExact
      <4>3. inc = Way(g, scale, full) /\ f = Rest(g, scale, full)
        BY <3>1 DEF g
      <4>. HIDE DEF inc, f
      <4>4. inc \in Int /\ f \in 0 .. scale - 1 /\ inc * scale = Phases * full + g - f
        BY <4>2, <4>3
      <4>. QED
        BY <4>4 DEF g
    <3>3. d \in 0 .. full - 1 /\ sum - d = full
      BY <1>1, <1>2, <1>8, <2>2, <3>1
    <3>4. Phases * full \in Int
      BY <1>1
    <3>5. inc * scale = Phases * (sum - d) + (r.frac - f)
      <4>. DEFINE w == Phases * full
      <4>1. Phases * (sum - d) = w
        BY <3>3
      <4>. HIDE DEF w, sum, d, f, inc
      <4>. QED
        BY <1>2, <3>2, <3>4, <4>1 DEF w
    <3>. HIDE DEF K, sum, d, f, inc
    <3>. QED
      BY <1>9, <2>2, <3>1, <3>2, <3>3, <3>5
  <2>. QED
    BY <2>1, <2>2
<1>. HIDE DEF inc, d, f
<1>11. (L + Phases - inc) * scale = Phases * d + f
  <2>1. (L + Phases - inc) * scale = L * scale + Phases * scale - inc * scale
    BY <1>1, <1>5, <1>10
  <2>2. Phases * (sum - d) = Phases * r.div + Phases * scale - Phases * d
    BY <1>1, <1>2, <1>10
  <2>. DEFINE a == Phases * r.div
              b == Phases * scale
              e == Phases * d
  <2>3. {a, b, e} \subseteq Int
    BY <1>1, <1>2, <1>10
  <2>4. L * scale = a + r.frac /\ inc * scale = a + b - e + (r.frac - f)
    BY <1>5, <1>10, <2>2
  <2>. HIDE DEF a, b, e
  <2>5. L * scale + b - inc * scale = e + f
    BY <1>2, <1>10, <2>3, <2>4
  <2>. QED
    BY <2>1, <2>5 DEF b, e
<1>12. L + Phases - inc \in 0 .. K - 1
  <2>. DEFINE l == L + Phases - inc
  <2>1. l \in Int /\ l * scale = Phases * d + f
    BY <1>1, <1>5, <1>10, <1>11
  <2>. HIDE DEF l
  <2>2. l \in 0 .. Phases * Ring - 1
    BY <1>1, <1>10, <2>1, LagFits
  <2>. QED
    BY <2>2 DEF l
<1>13. q.buf = (r.buf + 1) % Ring
  BY <1>3 DEF After
<1>14. Lag(q) = L + Phases - inc
  <2>1. (Phases * (((r.buf + 1) % Ring) - Lead) - ((r.pos + inc) % (Phases * Ring))) % (Phases * Ring)
            = L + Phases - inc
    <3>. DEFINE buf == r.buf
                pos == r.pos
    <3>1. buf \in 0 .. Ring - 1 /\ pos \in Int /\ inc \in Int
          /\ L = (Phases * (buf - Lead) - pos) % (Phases * Ring)
          /\ L + Phases - inc \in 0 .. Phases * Ring - 1
      BY <1>2, <1>6, <1>10, <1>12
    <3>. HIDE DEF buf, pos
    <3>2. (Phases * (((buf + 1) % Ring) - Lead) - ((pos + inc) % (Phases * Ring))) % (Phases * Ring)
              = L + Phases - inc
      BY <3>1, LagMoves, ZenonT(60)
    <3>. QED
      BY <3>2 DEF buf, pos
  <2>. QED
    BY <1>10, <1>13, <2>1 DEF Lag
<1>15. WindowExact(q, scale)
  BY <1>11, <1>14 DEF WindowExact, d, f
<1>16. OnTime(q, scale, full, n + 1)
  <2>. DEFINE w == (n * scale) \div full
              u == w + SampleRing - Latency
  <2>1. w \in Int
    <3>. DEFINE a == n * scale
    <3>1. a \in Int
      BY <1>7
    <3>. HIDE DEF a
    <3>2. a \div full \in Int
      BY <1>1, <3>1, DivMod
    <3>. QED
      BY <3>2 DEF a
  <2>2. r.offs = u % SampleRing
    BY DEF Exact, OnTime
  <2>3. CASE sum < full
    <3>1. q.offs = r.offs
      BY <1>3, <2>3 DEF After
    <3>. QED
      BY <1>9, <2>2, <2>3, <3>1 DEF OnTime
  <2>4. CASE ~(sum < full)
    <3>1. q.offs = (r.offs + 1) % SampleRing
      BY <1>3, <2>4 DEF After
    <3>2. ((n + 1) * scale) \div full = w + 1
      BY <1>9, <2>4
    <3>. HIDE DEF w
    <3>3. u \in Int /\ w + 1 + SampleRing - Latency = 1 + u
      BY <1>1, <2>1
    <3>4. (1 + (u % SampleRing)) % SampleRing = (1 + u) % SampleRing
      <4>1. SampleRing \in Nat \ {0} /\ u \in Int /\ 1 \in Int
        BY <1>1, <3>3
      <4>. HIDE DEF u
      <4>. QED
        BY <4>1, ModAdd
    <3>5. r.offs + 1 = 1 + r.offs
      BY <1>2
    <3>. HIDE DEF u
    <3>. QED
      BY <2>2, <3>1, <3>2, <3>3, <3>4, <3>5 DEF OnTime
  <2>. QED
    BY <2>3, <2>4
<1>17. q \in Resamplers
  <2>1. q.pos \in 0 .. K - 1
    <3>1. r.pos + inc \in Int
      BY <1>2, <1>10
    <3>. DEFINE x == r.pos + inc
    <3>. HIDE DEF K, x
    <3>2. x % K \in 0 .. K - 1
      BY <1>4, <3>1, DivMod DEF x
    <3>. QED
      BY <1>10, <3>2 DEF x
  <2>2. q.buf \in 0 .. Ring - 1
    BY <1>1, <1>2, <1>13
  <2>3. q.offs \in 0 .. SampleRing - 1
    <3>1. q.offs = r.offs \/ q.offs = (r.offs + 1) % SampleRing
      BY <1>3 DEF After
    <3>. QED
      BY <1>1, <1>2, <3>1
  <2>4. q.div \in Nat /\ q.frac \in Nat
    BY <1>1, <1>10 DEF d, f
  <2>5. DOMAIN q = {"div", "pos", "frac", "buf", "offs"} /\ q = [x \in DOMAIN q |-> q[x]]
    BY <1>3 DEF After
  <2>. HIDE DEF K
  <2>. QED
    BY <2>1, <2>2, <2>3, <2>4, <2>5 DEF Resamplers, K
<1>18. q.frac < scale
  BY <1>1, <1>10 DEF f
<1>19. q.div = ((n + 1) * scale) % full
  BY <1>10 DEF d
<1>. QED
  BY <1>15, <1>16, <1>17, <1>18, <1>19 DEF Exact, q
\* At power on.
LEMMA PowerExact ==
    ASSUME NEW scale, NEW full, Ratio(scale, full)
    PROVE  Exact(PowerResampler, scale, full, 0)
<1>. DEFINE r == PowerResampler
            K == Phases * Ring
<1>1. /\ Ring \in Nat \ {0} /\ Lead \in 0 .. Ring - 1 /\ Phases \in Nat \ {0}
      /\ SampleRing \in Nat \ {0} /\ Latency \in 0 .. SampleRing
      /\ scale \in Nat \ {0} /\ full \in Nat \ {0}
  BY ResamplerAssumption DEF Ratio
<1>2. K \in Nat \ {0}
  BY <1>1
<1>3. (SampleRing - Latency) % SampleRing \in 0 .. SampleRing - 1
  BY <1>1
<1>4. /\ r.div = 0 /\ r.pos = 0 /\ r.frac = 0 /\ r.buf = Lead
      /\ r.offs = (SampleRing - Latency) % SampleRing
  BY DEF PowerResampler
<1>5. r \in Resamplers
  <2>. DEFINE o == (SampleRing - Latency) % SampleRing
  <2>. HIDE DEF K, o
  <2>1. 0 \in 0 .. K - 1 /\ Lead \in 0 .. Ring - 1 /\ o \in 0 .. SampleRing - 1
    BY <1>1, <1>2, <1>3 DEF o
  <2>. QED
    BY <2>1 DEF Resamplers, PowerResampler, o, K
<1>. HIDE DEF r
<1>6. 0 * scale = 0 /\ 0 % full = 0 /\ 0 \div full = 0
  BY <1>1
<1>7. OnTime(r, scale, full, 0)
  <2>1. 0 + SampleRing - Latency = SampleRing - Latency
    BY <1>1
  <2>. QED
    BY <1>4, <1>6, <2>1 DEF OnTime
<1>8. WindowExact(r, scale)
  <2>1. Phases * (r.buf - Lead) - r.pos = 0
    BY <1>1, <1>4
  <2>2. 0 % K = 0
    <3>. HIDE DEF K
    <3>. QED
      BY <1>2
  <2>3. Lag(r) = 0
    BY <2>1, <2>2 DEF Lag
  <2>4. Lag(r) * scale = 0 /\ Phases * r.div + r.frac = 0
    BY <1>1, <1>4, <2>3
  <2>. QED
    BY <2>4 DEF WindowExact
<1>9. r.frac < scale /\ r.div = (0 * scale) % full
  BY <1>1, <1>4, <1>6
<1>. QED
  BY <1>5, <1>7, <1>8, <1>9 DEF Exact, r

-----------------------------------------------------------------------------
(* The runs of the Sunsoft 5B and the Namco 163. *)

\* A record of a chip has these fields, among others.
Has(s, fields) == s = [x \in DOMAIN s |-> s[x]] /\ fields \subseteq DOMAIN s

\* A step gives the resampler a sample, and leaves the time to run().
LEMMA SunStepOut ==
    ASSUME NEW s, Has(s, {"out", "prev"})
    PROVE  LET q == SunStep(s)
           IN Has(q, {"out", "prev"}) /\ q.out = Resample(s.out, SunScale, SunFull) /\ q.prev = s.prev
<1>. DEFINE q == SunStep(s)
            p == [s EXCEPT !.out = Resample(@, SunScale, SunFull),
                           !.tone = [w \in Tones |-> ClockTone(@[w])],
                           !.noise = ClockNoise(@)]
<1>1. /\ Has(p, {"out", "prev"}) /\ p.out = Resample(s.out, SunScale, SunFull) /\ p.prev = s.prev
  BY DEF Has
<1>2. q = ClockEnv(p)
  BY DEF SunStep
<1>. HIDE DEF p, q
<1>3. Has(ClockEnv(p), {"out", "prev"}) /\ ClockEnv(p).out = p.out /\ ClockEnv(p).prev = p.prev
  BY <1>1 DEF Has, ClockEnv
<1>. QED
  BY <1>1, <1>2, <1>3 DEF q

\* A step gives the resampler a sample and takes its cycles from the divider.
LEMMA NamcoStepOut ==
    ASSUME NEW s, Has(s, {"out", "prev", "divider"})
    PROVE  LET q == NamcoStep(s)
           IN /\ Has(q, {"out", "prev", "divider"}) /\ q.out = Resample(s.out, NamcoScale, NamcoFull)
              /\ q.prev = s.prev /\ q.divider = s.divider - NamcoCycles
BY DEF Has, NamcoStep
SunCourseOf(s, m) == LET F[n \in 0 .. m] == IF n = 0 THEN s ELSE SunStep(F[n - 1]) IN F

\* The Sunsoft 5B's steps, taken one after the other.
LEMMA SunCourse ==
    ASSUME NEW s, NEW m \in Nat
    PROVE  LET F == SunCourseOf(s, m)
           IN F[0] = s /\ \A n \in 1 .. m : F[n] = SunStep(F[n - 1])
<1>. DEFINE Body(G, n) == IF n = 0 THEN s ELSE SunStep(G[n - 1])
            F == SunCourseOf(s, m)
            done == {k \in 0 .. m : \E g : g = [n \in 0 .. k |-> Body(g, n)]}
<1>1. 0 \in done
  <2>. DEFINE g == [n \in 0 .. 0 |-> s]
  <2>1. g = [n \in 0 .. 0 |-> Body(g, n)]
    OBVIOUS
  <2>. HIDE DEF g, Body
  <2>. QED
    BY <2>1
<1>2. ASSUME NEW k \in 0 .. m, k # 0, k - 1 \in done
      PROVE  k \in done
  <2>1. PICK g : g = [n \in 0 .. k - 1 |-> Body(g, n)]
    BY <1>2
  <2>. DEFINE h == [n \in 0 .. k |-> IF n = k THEN SunStep(g[k - 1]) ELSE g[n]]
  <2>2. ASSUME NEW n \in 0 .. k PROVE h[n] = Body(h, n)
    <3>1. CASE n = 0
      <4>1. h[n] = g[n] /\ n \in 0 .. k - 1
        BY <1>2, <3>1
      <4>2. g[n] = Body(g, n)
        <5>. HIDE DEF Body
        <5>. QED
          BY <2>1, <4>1
      <4>. QED
        BY <3>1, <4>1, <4>2
    <3>2. CASE n # 0
      <4>1. n - 1 \in 0 .. k - 1 /\ n - 1 \in 0 .. k /\ n - 1 # k
        BY <1>2, <3>2
      <4>2. h[n - 1] = g[n - 1]
        BY <4>1
      <4>3. CASE n = k
        BY <3>2, <4>2, <4>3
      <4>4. CASE n # k
        <5>1. n \in 0 .. k - 1 /\ h[n] = g[n]
          BY <4>4
        <5>2. g[n] = Body(g, n)
          <6>. HIDE DEF Body
          <6>. QED
            BY <2>1, <5>1
        <5>. QED
          BY <3>2, <4>2, <5>1, <5>2
      <4>. QED
        BY <4>3, <4>4
    <3>. QED
      BY <3>1, <3>2
  <2>3. h = [n \in 0 .. k |-> h[n]]
    OBVIOUS
  <2>. HIDE DEF h, Body
  <2>4. h = [n \in 0 .. k |-> Body(h, n)]
    BY <2>2, <2>3
  <2>. QED
    BY <1>2, <2>4
<1>3. m \in done
  <2>. HIDE DEF done
  <2>1. 0 .. m \subseteq done
    BY <1>1, <1>2, UpToBound
  <2>. QED
    BY <2>1
<1>4. F = [n \in 0 .. m |-> Body(F, n)]
  <2>. DEFINE G == CHOOSE g : g = [n \in 0 .. m |-> Body(g, n)]
  <2>1. PICK g : g = [n \in 0 .. m |-> Body(g, n)]
    BY <1>3
  <2>2. G = [n \in 0 .. m |-> Body(G, n)]
    <3>. HIDE DEF Body
    <3>. QED
      BY <2>1
  <2>. QED
    BY <2>2, Zenon DEF SunCourseOf
<1>. HIDE DEF F
<1>5. F[0] = s /\ \A n \in 1 .. m : F[n] = SunStep(F[n - 1])
  BY <1>4
<1>. QED
  BY <1>5 DEF F

NamcoCourseOf(s, m) == LET F[n \in 0 .. m] == IF n = 0 THEN s ELSE NamcoStep(F[n - 1]) IN F

\* The Namco 163's steps, taken one after the other.
LEMMA NamcoCourse ==
    ASSUME NEW s, NEW m \in Nat
    PROVE  LET F == NamcoCourseOf(s, m)
           IN F[0] = s /\ \A n \in 1 .. m : F[n] = NamcoStep(F[n - 1])
<1>. DEFINE Body(G, n) == IF n = 0 THEN s ELSE NamcoStep(G[n - 1])
            F == NamcoCourseOf(s, m)
            done == {k \in 0 .. m : \E g : g = [n \in 0 .. k |-> Body(g, n)]}
<1>1. 0 \in done
  <2>. DEFINE g == [n \in 0 .. 0 |-> s]
  <2>1. g = [n \in 0 .. 0 |-> Body(g, n)]
    OBVIOUS
  <2>. HIDE DEF g, Body
  <2>. QED
    BY <2>1
<1>2. ASSUME NEW k \in 0 .. m, k # 0, k - 1 \in done
      PROVE  k \in done
  <2>1. PICK g : g = [n \in 0 .. k - 1 |-> Body(g, n)]
    BY <1>2
  <2>. DEFINE h == [n \in 0 .. k |-> IF n = k THEN NamcoStep(g[k - 1]) ELSE g[n]]
  <2>2. ASSUME NEW n \in 0 .. k PROVE h[n] = Body(h, n)
    <3>1. CASE n = 0
      <4>1. h[n] = g[n] /\ n \in 0 .. k - 1
        BY <1>2, <3>1
      <4>2. g[n] = Body(g, n)
        <5>. HIDE DEF Body
        <5>. QED
          BY <2>1, <4>1
      <4>. QED
        BY <3>1, <4>1, <4>2
    <3>2. CASE n # 0
      <4>1. n - 1 \in 0 .. k - 1 /\ n - 1 \in 0 .. k /\ n - 1 # k
        BY <1>2, <3>2
      <4>2. h[n - 1] = g[n - 1]
        BY <4>1
      <4>3. CASE n = k
        BY <3>2, <4>2, <4>3
      <4>4. CASE n # k
        <5>1. n \in 0 .. k - 1 /\ h[n] = g[n]
          BY <4>4
        <5>2. g[n] = Body(g, n)
          <6>. HIDE DEF Body
          <6>. QED
            BY <2>1, <5>1
        <5>. QED
          BY <3>2, <4>2, <5>1, <5>2
      <4>. QED
        BY <4>3, <4>4
    <3>. QED
      BY <3>1, <3>2
  <2>3. h = [n \in 0 .. k |-> h[n]]
    OBVIOUS
  <2>. HIDE DEF h, Body
  <2>4. h = [n \in 0 .. k |-> Body(h, n)]
    BY <2>2, <2>3
  <2>. QED
    BY <1>2, <2>4
<1>3. m \in done
  <2>. HIDE DEF done
  <2>1. 0 .. m \subseteq done
    BY <1>1, <1>2, UpToBound
  <2>. QED
    BY <2>1
<1>4. F = [n \in 0 .. m |-> Body(F, n)]
  <2>. DEFINE G == CHOOSE g : g = [n \in 0 .. m |-> Body(g, n)]
  <2>1. PICK g : g = [n \in 0 .. m |-> Body(g, n)]
    BY <1>3
  <2>2. G = [n \in 0 .. m |-> Body(G, n)]
    <3>. HIDE DEF Body
    <3>. QED
      BY <2>1
  <2>. QED
    BY <2>2, Zenon DEF NamcoCourseOf
<1>. HIDE DEF F
<1>5. F[0] = s /\ \A n \in 1 .. m : F[n] = NamcoStep(F[n - 1])
  BY <1>4
<1>. QED
  BY <1>5 DEF F

\* run() takes as many steps as fit into the time since the last, each a sample.
LEMMA RunSunOut ==
    ASSUME NEW s, Has(s, {"out", "prev"}), NEW t \in Int, s.prev \in Int,
           NEW n0 \in Nat, Exact(s.out, SunScale, SunFull, n0)
    PROVE  LET steps == ((t - s.prev) % Stamp) \div SunCycles
               q == RunSun(s, t)
           IN /\ Has(q, {"out", "prev"}) /\ Exact(q.out, SunScale, SunFull, n0 + steps)
              /\ q.prev = s.prev + steps * SunCycles
<1>. DEFINE steps == ((t - s.prev) % Stamp) \div SunCycles
            F == SunCourseOf(s, steps)
            q == RunSun(s, t)
            good == {n \in 0 .. steps : /\ Has(F[n], {"out", "prev"}) /\ F[n].prev = s.prev
                                        /\ Exact(F[n].out, SunScale, SunFull, n0 + n)}
<1>1. steps \in Nat
  BY SunAssumption
<1>2. q = [F[steps] EXCEPT !.prev = @ + steps * SunCycles]
  BY DEF RunSun, SunCourseOf
<1>. HIDE DEF steps, q
<1>3. F[0] = s /\ \A n \in 1 .. steps : F[n] = SunStep(F[n - 1])
  BY <1>1, SunCourse
<1>. HIDE DEF F
<1>4. 0 \in good
  BY <1>1, <1>3
<1>5. ASSUME NEW n \in 0 .. steps, n # 0, n - 1 \in good
      PROVE  n \in good
  <2>. DEFINE p == F[n - 1]
  <2>1. F[n] = SunStep(p) /\ n0 + (n - 1) \in Nat /\ n0 + (n - 1) + 1 = n0 + n
    BY <1>1, <1>3, <1>5
  <2>2. Has(p, {"out", "prev"}) /\ p.prev = s.prev /\ Exact(p.out, SunScale, SunFull, n0 + (n - 1))
    BY <1>5
  <2>. HIDE DEF p
  <2>3. /\ Has(F[n], {"out", "prev"}) /\ F[n].out = Resample(p.out, SunScale, SunFull)
        /\ F[n].prev = p.prev
    BY <2>1, <2>2, SunStepOut
  <2>4. Exact(F[n].out, SunScale, SunFull, n0 + n)
    <3>1. Ratio(SunScale, SunFull)
      BY SunAssumption DEF Ratio
    <3>2. Exact(Resample(p.out, SunScale, SunFull), SunScale, SunFull, n0 + (n - 1) + 1)
      BY <2>1, <2>2, <3>1, ResampleExact
    <3>. QED
      BY <2>1, <2>3, <3>2
  <2>. QED
    BY <2>2, <2>3, <2>4
<1>. HIDE DEF good
<1>6. steps \in good
  <2>1. 0 .. steps \subseteq good
    BY <1>1, <1>4, <1>5, UpToBound
  <2>. QED
    BY <1>1, <2>1
<1>. DEFINE p == F[steps]
<1>7. Has(p, {"out", "prev"}) /\ p.prev = s.prev /\ Exact(p.out, SunScale, SunFull, n0 + steps)
  BY <1>6 DEF good
<1>. HIDE DEF p
<1>8. q = [p EXCEPT !.prev = @ + steps * SunCycles]
  BY <1>2 DEF p
<1>9. Has(q, {"out", "prev"}) /\ q.out = p.out /\ q.prev = s.prev + steps * SunCycles
  BY <1>7, <1>8 DEF Has
<1>10. /\ Has(q, {"out", "prev"}) /\ Exact(q.out, SunScale, SunFull, n0 + steps)
       /\ q.prev = s.prev + steps * SunCycles
  BY <1>7, <1>9
<1>. QED
  BY <1>10 DEF steps, q
\* run() takes steps until the divider is negative, each a sample.
LEMMA RunNamcoOut ==
    ASSUME NEW s0, Has(s0, {"out", "prev", "divider"}), NEW t \in Int, s0.prev \in Int,
           s0.divider \in Int, NEW n0 \in Nat, Exact(s0.out, NamcoScale, NamcoFull, n0)
    PROVE  LET due == s0.divider + ((t - s0.prev) % NamcoStamp)
               steps == IF due < 0 THEN 0 ELSE (due \div NamcoCycles) + 1
               q == RunNamco(s0, t)
           IN /\ Has(q, {"out", "prev", "divider"}) /\ q.prev = t
              /\ Exact(q.out, NamcoScale, NamcoFull, n0 + steps)
              /\ q.divider = due - steps * NamcoCycles
<1>. DEFINE due == s0.divider + ((t - s0.prev) % NamcoStamp)
            steps == IF due < 0 THEN 0 ELSE (due \div NamcoCycles) + 1
            s == [s0 EXCEPT !.divider = @ + ((t - s0.prev) % NamcoStamp), !.prev = t]
            F == NamcoCourseOf(s, steps)
            q == RunNamco(s0, t)
            good == {n \in 0 .. steps : /\ Has(F[n], {"out", "prev", "divider"}) /\ F[n].prev = t
                                        /\ F[n].divider = due - n * NamcoCycles
                                        /\ Exact(F[n].out, NamcoScale, NamcoFull, n0 + n)}
<1>1. due \in Int /\ steps \in Nat
  BY NamcoAssumption
<1>2. Has(s, {"out", "prev", "divider"}) /\ s.out = s0.out /\ s.divider = due /\ s.prev = t
  BY DEF Has
<1>3. q = F[steps]
  <2>1. steps = IF s.divider < 0 THEN 0 ELSE (s.divider \div NamcoCycles) + 1
    <3>. HIDE DEF s, due
    <3>. QED
      BY <1>2
  <2>2. q = NamcoCourseOf(s, IF s.divider < 0 THEN 0 ELSE (s.divider \div NamcoCycles) + 1)
                [IF s.divider < 0 THEN 0 ELSE (s.divider \div NamcoCycles) + 1]
    BY Zenon DEF RunNamco, NamcoCourseOf
  <2>. HIDE DEF s, due, q, steps
  <2>. QED
    BY <2>1, <2>2
<1>. HIDE DEF due, steps, q, s
<1>4. F[0] = s /\ \A n \in 1 .. steps : F[n] = NamcoStep(F[n - 1])
  BY <1>1, NamcoCourse
<1>. HIDE DEF F
<1>5. 0 \in good
  <2>1. due - 0 * NamcoCycles = due /\ n0 + 0 = n0
    BY <1>1, NamcoAssumption
  <2>. QED
    BY <1>1, <1>2, <1>4, <2>1
<1>6. ASSUME NEW n \in 0 .. steps, n # 0, n - 1 \in good
      PROVE  n \in good
  <2>. DEFINE p == F[n - 1]
  <2>1. F[n] = NamcoStep(p) /\ n0 + (n - 1) \in Nat /\ n0 + (n - 1) + 1 = n0 + n
    BY <1>1, <1>4, <1>6
  <2>2. /\ Has(p, {"out", "prev", "divider"}) /\ p.prev = t
        /\ p.divider = due - (n - 1) * NamcoCycles
        /\ Exact(p.out, NamcoScale, NamcoFull, n0 + (n - 1))
    BY <1>6
  <2>. HIDE DEF p
  <2>3. /\ Has(F[n], {"out", "prev", "divider"})
        /\ F[n].out = Resample(p.out, NamcoScale, NamcoFull)
        /\ F[n].prev = p.prev /\ F[n].divider = p.divider - NamcoCycles
    BY <2>1, <2>2, NamcoStepOut
  <2>4. Exact(F[n].out, NamcoScale, NamcoFull, n0 + n)
    <3>1. Ratio(NamcoScale, NamcoFull)
      BY NamcoAssumption DEF Ratio
    <3>2. Exact(Resample(p.out, NamcoScale, NamcoFull), NamcoScale, NamcoFull, n0 + (n - 1) + 1)
      BY <2>1, <2>2, <3>1, ResampleExact
    <3>. QED
      BY <2>1, <2>3, <3>2
  <2>5. F[n].divider = due - n * NamcoCycles
    <3>1. due - (n - 1) * NamcoCycles - NamcoCycles = due - n * NamcoCycles
      BY <1>1, NamcoAssumption
    <3>. QED
      BY <2>2, <2>3, <3>1
  <2>. QED
    BY <2>2, <2>3, <2>4, <2>5
<1>. HIDE DEF good
<1>7. steps \in good
  <2>1. 0 .. steps \subseteq good
    BY <1>1, <1>5, <1>6, UpToBound
  <2>. QED
    BY <1>1, <2>1
<1>8. /\ Has(q, {"out", "prev", "divider"}) /\ q.prev = t
      /\ Exact(q.out, NamcoScale, NamcoFull, n0 + steps)
      /\ q.divider = due - steps * NamcoCycles
  BY <1>3, <1>7 DEF good
<1>. QED
  BY <1>8 DEF due, steps, q

-----------------------------------------------------------------------------
(* The registers of the Sunsoft 5B and the Namco 163 have nothing to do with   *)
(* the resampler.                                                          *)

SameSun(q, s) == Has(q, {"out", "prev"}) /\ q.out = s.out /\ q.prev = s.prev

\* Of the Sunsoft 5B's.
LEMMA SunWrites ==
    ASSUME NEW s, Has(s, {"out", "prev"})
    PROVE  /\ \A w, high, v : SameSun(SetTone(s, w, high, v), s)
           /\ \A v : SameSun(SetNoise(s, v), s)
           /\ \A off : SameSun(SetMixer(s, off), s)
           /\ \A w, v, enveloped : SameSun(SetSunVolume(s, w, v, enveloped), s)
           /\ \A high, v : SameSun(SetEnvPeriod(s, high, v), s)
           /\ \A shape : SameSun(SetShape(s, shape), s)
<1>1. ASSUME NEW w, NEW high, NEW v
      PROVE  /\ SameSun(SetTone(s, w, high, v), s) /\ SameSun(SetNoise(s, v), s)
             /\ SameSun(SetEnvPeriod(s, high, v), s)
  BY DEF SameSun, Has, SetTone, SetNoise, SetEnvPeriod
<1>2. ASSUME NEW w, NEW v, NEW enveloped, NEW off
      PROVE  SameSun(SetSunVolume(s, w, v, enveloped), s) /\ SameSun(SetMixer(s, off), s)
  BY ZenonT(30) DEF SameSun, Has, SetSunVolume, SetMixer
<1>3. ASSUME NEW shape PROVE SameSun(SetShape(s, shape), s)
  BY ZenonT(30) DEF SameSun, Has, SetShape
<1>. QED
  BY <1>1, <1>2, <1>3

SameNamco(q, s) ==
    /\ Has(q, {"out", "prev", "divider"})
    /\ q.out = s.out /\ q.prev = s.prev /\ q.divider = s.divider

\* Of the Namco 163's.
LEMMA NamcoWrites ==
    ASSUME NEW s, Has(s, {"out", "prev", "divider"}), NEW a, NEW b
    PROVE  SameNamco(SetCell(s, a, b), s)
BY DEF SameNamco, Has, SetCell
-----------------------------------------------------------------------------
(* The VRC6. *)

SameVrc(q, s) == Has(q, {"base", "offs"}) /\ q.base = s.base /\ q.offs = s.offs

\* Registers and the changes they make leave the time alone.
LEMMA VrcWrites ==
    ASSUME NEW s, Has(s, {"base", "offs"})
    PROVE  /\ SameVrc(ApplyVolume(s), s) /\ SameVrc(MoveSaw(s), s) /\ SameVrc(ApplyDelayed(s), s)
           /\ \A p, mode : SameVrc(SetDuty(s, p, mode), s)
           /\ \A v : SameVrc(PeriodChanged(s, v), s)
           /\ \A volume : SameVrc(SetSawRate(s, volume), s)
<1>1. SameVrc(ApplyVolume(s), s)
  BY DEF SameVrc, Has, ApplyVolume
<1>2. SameVrc(MoveSaw(s), s)
  BY DEF SameVrc, Has, MoveSaw
<1>3. SameVrc(ApplyDelayed(s), s)
  BY DEF SameVrc, Has, ApplyDelayed
<1>4. ASSUME NEW v, NEW mode, NEW volume
      PROVE  /\ SameVrc(SetDuty(s, v, mode), s) /\ SameVrc(PeriodChanged(s, v), s)
             /\ SameVrc(SetSawRate(s, volume), s)
  <2>1. SameVrc(PeriodChanged(s, v), s)
    BY DEF SameVrc, Has, PeriodChanged
  <2>2. SameVrc(SetSawRate(s, volume), s)
    BY DEF SameVrc, Has, SetSawRate
  <2>3. SameVrc(SetDuty(s, v, mode), s)
    <3>. DEFINE d == [s EXCEPT !.mode[v] = mode]
    <3>1. SameVrc(d, s)
      BY DEF SameVrc, Has
    <3>2. SetDuty(s, v, mode) = [d EXCEPT !.flat[v] = d.mode[v]]
      BY DEF SetDuty, DutyChanged
    <3>. HIDE DEF d
    <3>3. SameVrc([d EXCEPT !.flat[v] = d.mode[v]], s)
      BY <3>1 DEF SameVrc, Has
    <3>. QED
      BY <3>2, <3>3
  <2>. QED
    BY <2>1, <2>2, <2>3
<1>. QED
  BY <1>1, <1>2, <1>3, <1>4

\* A change of a period, at once or delayed, too.
LEMMA ChangeSame ==
    ASSUME NEW s, Has(s, {"base", "offs"}), NEW v, NEW x
    PROVE  SameVrc(Change(s, v, x), s)
<1>1. SameVrc([s EXCEPT !.delay = @ \cup {v}], s) /\ SameVrc(s, s) /\ SameVrc(PeriodChanged(s, v), s)
  <2>1. SameVrc([s EXCEPT !.delay = @ \cup {v}], s) /\ SameVrc(s, s)
    BY DEF SameVrc, Has
  <2>. QED
    BY <2>1, VrcWrites
<1>2. Change(s, v, x) \in {[s EXCEPT !.delay = @ \cup {v}], s, PeriodChanged(s, v)}
  BY DEF Change
<1>. QED
  BY <1>1, <1>2

\* And both registers of a period.
LEMMA PeriodSame ==
    ASSUME NEW s, Has(s, {"base", "offs"}), NEW v, NEW x, NEW b, NEW on
    PROVE  SameVrc(SetLow(s, v, x, b), s) /\ SameVrc(SetHigh(s, v, x, b, on), s)
<1>1. SameVrc(s, s)
  BY DEF SameVrc
<1>2. SameVrc(SetLow(s, v, x, b), s)
  <2>. DEFINE period == (s.period[v] \div VrcByte) * VrcByte + b
              set == [s EXCEPT !.period[v] = period]
              new == Change(set, v, x)
              low == SetLow(s, v, x, b)
  <2>1. SameVrc(set, s)
    BY DEF SameVrc, Has
  <2>. HIDE DEF set
  <2>2. SameVrc(new, s)
    BY <2>1, ChangeSame DEF SameVrc
  <2>3. low \in {s, new, [new EXCEPT !.changed[v] = x]}
    BY DEF SetLow, set
  <2>. HIDE DEF new, low
  <2>4. SameVrc([new EXCEPT !.changed[v] = x], s)
    BY <2>2 DEF SameVrc, Has
  <2>5. SameVrc(low, s)
    BY <1>1, <2>2, <2>3, <2>4
  <2>. QED
    BY <2>5 DEF low
<1>3. SameVrc(SetHigh(s, v, x, b, on), s)
  <2>. DEFINE period == (s.period[v] % VrcByte) + b * VrcByte
              new == [s EXCEPT !.period[v] = period]
              set == [new EXCEPT !.on = IF on THEN @ ELSE @ \ {v}]
              change == Change(set, v, x)
              high == SetHigh(s, v, x, b, on)
              switched == [PeriodChanged(new, v) EXCEPT !.on = @ \cup {v}, !.delay = @ \ {v},
                                                        !.changed[v] = x]
  <2>1. SameVrc(new, s)
    BY DEF SameVrc, Has
  <2>2. high \in {SwitchOn(new, v, x), set, [change EXCEPT !.changed[v] = x]}
    BY DEF SetHigh
  <2>. HIDE DEF new, high
  <2>3. SameVrc(set, s)
    BY <2>1 DEF SameVrc, Has
  <2>. HIDE DEF set
  <2>4. SameVrc(change, s)
    BY <2>3, ChangeSame DEF SameVrc
  <2>. HIDE DEF change
  <2>5. SameVrc([change EXCEPT !.changed[v] = x], s)
    BY <2>4 DEF SameVrc, Has
  <2>6. SameVrc(switched, s)
    <3>. DEFINE p == PeriodChanged(new, v)
    <3>1. SameVrc(p, s)
      BY <2>1, VrcWrites, ZenonT(30) DEF SameVrc
    <3>. HIDE DEF p
    <3>2. SameVrc([p EXCEPT !.on = @ \cup {v}, !.delay = @ \ {v}, !.changed[v] = x], s)
      BY <3>1 DEF SameVrc, Has
    <3>. QED
      BY <3>2 DEF p
  <2>7. SwitchOn(new, v, x) \in
            {switched, [switched EXCEPT !.ph = @ % PartLen, !.accum = new.target, !.level = 0]}
    BY DEF SwitchOn
  <2>. HIDE DEF switched
  <2>8. SameVrc([switched EXCEPT !.ph = @ % PartLen, !.accum = new.target, !.level = 0], s)
    BY <2>6 DEF SameVrc, Has
  <2>9. SameVrc(SwitchOn(new, v, x), s)
    BY <2>6, <2>7, <2>8
  <2>10. SameVrc(high, s)
    BY <2>2, <2>3, <2>5, <2>9
  <2>. QED
    BY <2>10 DEF high
<1>. QED
  BY <1>2, <1>3

\* A sample.
LEMMA PlaySampleOffs ==
    ASSUME NEW s, Has(s, {"base", "offs"})
    PROVE  LET q == PlaySample(s)
           IN Has(q, {"base", "offs"}) /\ q.base = s.base /\ q.offs = (s.offs + 1) % VrcRing
<1>. DEFINE played == [s EXCEPT !.heard = @ \cup {s.cur[v] : v \in s.on}]
            moved == MoveSaw(played)
            applied == ApplyDelayed(moved)
            q == PlaySample(s)
<1>1. SameVrc(played, s)
  BY DEF SameVrc, Has
<1>. HIDE DEF played
<1>2. SameVrc(moved, s)
  BY <1>1, VrcWrites DEF SameVrc
<1>. HIDE DEF moved
<1>3. SameVrc(applied, s)
  BY <1>2, VrcWrites DEF SameVrc
<1>. HIDE DEF applied
<1>4. q = [applied EXCEPT !.offs = (@ + 1) % VrcRing]
  BY DEF PlaySample, applied, moved, played
<1>. HIDE DEF q
<1>5. Has(q, {"base", "offs"}) /\ q.base = s.base /\ q.offs = (s.offs + 1) % VrcRing
  BY <1>3, <1>4 DEF SameVrc, Has
<1>. QED
  BY <1>5 DEF q

VrcCourseOf(s, m) == LET F[n \in 0 .. m] == IF n = 0 THEN s ELSE PlaySample(F[n - 1]) IN F

\* The VRC6's samples, taken one after the other.
LEMMA VrcCourse ==
    ASSUME NEW s, NEW m \in Nat
    PROVE  LET F == VrcCourseOf(s, m)
           IN F[0] = s /\ \A n \in 1 .. m : F[n] = PlaySample(F[n - 1])
<1>. DEFINE Body(G, n) == IF n = 0 THEN s ELSE PlaySample(G[n - 1])
            F == VrcCourseOf(s, m)
            done == {k \in 0 .. m : \E g : g = [n \in 0 .. k |-> Body(g, n)]}
<1>1. 0 \in done
  <2>. DEFINE g == [n \in 0 .. 0 |-> s]
  <2>1. g = [n \in 0 .. 0 |-> Body(g, n)]
    OBVIOUS
  <2>. HIDE DEF g, Body
  <2>. QED
    BY <2>1
<1>2. ASSUME NEW k \in 0 .. m, k # 0, k - 1 \in done
      PROVE  k \in done
  <2>1. PICK g : g = [n \in 0 .. k - 1 |-> Body(g, n)]
    BY <1>2
  <2>. DEFINE h == [n \in 0 .. k |-> IF n = k THEN PlaySample(g[k - 1]) ELSE g[n]]
  <2>2. ASSUME NEW n \in 0 .. k PROVE h[n] = Body(h, n)
    <3>1. CASE n = 0
      <4>1. h[n] = g[n] /\ n \in 0 .. k - 1
        BY <1>2, <3>1
      <4>2. g[n] = Body(g, n)
        <5>. HIDE DEF Body
        <5>. QED
          BY <2>1, <4>1
      <4>. QED
        BY <3>1, <4>1, <4>2
    <3>2. CASE n # 0
      <4>1. n - 1 \in 0 .. k - 1 /\ n - 1 \in 0 .. k /\ n - 1 # k
        BY <1>2, <3>2
      <4>2. h[n - 1] = g[n - 1]
        BY <4>1
      <4>3. CASE n = k
        BY <3>2, <4>2, <4>3
      <4>4. CASE n # k
        <5>1. n \in 0 .. k - 1 /\ h[n] = g[n]
          BY <4>4
        <5>2. g[n] = Body(g, n)
          <6>. HIDE DEF Body
          <6>. QED
            BY <2>1, <5>1
        <5>. QED
          BY <3>2, <4>2, <5>1, <5>2
      <4>. QED
        BY <4>3, <4>4
    <3>. QED
      BY <3>1, <3>2
  <2>3. h = [n \in 0 .. k |-> h[n]]
    OBVIOUS
  <2>. HIDE DEF h, Body
  <2>4. h = [n \in 0 .. k |-> Body(h, n)]
    BY <2>2, <2>3
  <2>. QED
    BY <1>2, <2>4
<1>3. m \in done
  <2>. HIDE DEF done
  <2>1. 0 .. m \subseteq done
    BY <1>1, <1>2, UpToBound
  <2>. QED
    BY <2>1
<1>4. F = [n \in 0 .. m |-> Body(F, n)]
  <2>. DEFINE G == CHOOSE g : g = [n \in 0 .. m |-> Body(g, n)]
  <2>1. PICK g : g = [n \in 0 .. m |-> Body(g, n)]
    BY <1>3
  <2>2. G = [n \in 0 .. m |-> Body(G, n)]
    <3>. HIDE DEF Body
    <3>. QED
      BY <2>1
  <2>. QED
    BY <2>2, Zenon DEF VrcCourseOf
<1>. HIDE DEF F
<1>5. F[0] = s /\ \A n \in 1 .. m : F[n] = PlaySample(F[n - 1])
  BY <1>4
<1>. QED
  BY <1>5 DEF F

\* A remainder within a ring of samples.
LEMMA DivOfMod ==
    ASSUME NEW X \in Nat, NEW S \in Nat \ {0}, NEW R \in Nat \ {0}
    PROVE  (X % (S * R)) \div S = (X \div S) % R
<1>. DEFINE q == X \div S
            r == X % S
            k == q \div R
            l == q % R
            K == S * R
<1>1. X = S * q + r /\ q \in Int /\ r \in 0 .. S - 1
  BY DivMod
<1>. HIDE DEF q, r
<1>2. q = R * k + l /\ k \in Int /\ l \in 0 .. R - 1
  BY <1>1, DivMod
<1>. HIDE DEF k, l
<1>3. K \in Nat \ {0}
  BY SMT
<1>4. X = K * k + (S * l + r)
  <2>1. S * (R * k + l) = (S * R) * k + S * l
    BY <1>2
  <2>. QED
    BY <1>1, <1>2, <2>1
<1>5. S * l + r \in 0 .. K - 1
  <2>1. S * (R - 1 - l) >= 0 /\ S * (R - 1 - l) = S * R - S - S * l
    BY <1>2
  <2>2. S * l \in Nat /\ S * R \in Nat
    BY <1>2
  <2>. QED
    BY <1>1, <2>1, <2>2
<1>. DEFINE z == S * l + r
<1>6. (K * k + z) % K = z
  <2>. HIDE DEF K, z
  <2>. QED
    BY <1>2, <1>3, <1>5, DivModUnique DEF z, K
<1>7. X % K = z
  <2>. HIDE DEF K
  <2>. QED
    BY <1>4, <1>6
<1>8. z \div S = l
  BY <1>1, <1>2, DivModUnique
<1>. HIDE DEF z
<1>. QED
  BY <1>7, <1>8 DEF K, l, q

\* run() plays the samples up to the time, and no more.
LEMMA RunVrcOffs ==
    ASSUME NEW s0, Has(s0, {"base", "offs"}), NEW t \in Nat,
           s0.base \in Nat, s0.offs \in 0 .. VrcRing - 1
    PROVE  LET q == RunVrc(s0, t)
           IN /\ Has(q, {"base", "offs"}) /\ q.base = s0.base
              /\ q.offs = ((t * VrcScale + s0.base) \div Sample) % VrcRing
<1>. DEFINE s == [ApplyVolume(s0) EXCEPT !.heard = {}]
            to == FxpTime(s, t) \div Sample
            rounds == (to - s.offs) % VrcRing
            F == VrcCourseOf(s, rounds)
            q == RunVrc(s0, t)
            good == {n \in 0 .. rounds : /\ Has(F[n], {"base", "offs"}) /\ F[n].base = s0.base
                                         /\ F[n].offs = (s0.offs + n) % VrcRing}
<1>0. VrcRing \in Nat \ {0} /\ Sample \in Nat \ {0} /\ VrcScale \in Nat
  BY VrcAssumption
<1>1. SameVrc(s, s0)
  <2>. DEFINE a == ApplyVolume(s0)
  <2>1. SameVrc(a, s0)
    BY VrcWrites
  <2>. HIDE DEF a
  <2>2. SameVrc([a EXCEPT !.heard = {}], s0)
    BY <2>1 DEF SameVrc, Has
  <2>. QED
    BY <2>2 DEF a
<1>2. q = F[rounds]
  BY DEF RunVrc, VrcCourseOf
<1>. HIDE DEF s, q
<1>3. to = ((t * VrcScale + s0.base) \div Sample) % VrcRing
  <2>. DEFINE X == t * VrcScale + s0.base
  <2>1. X \in Nat
    BY <1>0
  <2>2. FxpTime(s, t) = X % (Sample * VrcRing)
    BY <1>1 DEF SameVrc, FxpTime, Fxp
  <2>. HIDE DEF X
  <2>3. (X % (Sample * VrcRing)) \div Sample = (X \div Sample) % VrcRing
    BY <1>0, <2>1, DivOfMod
  <2>. QED
    BY <2>2, <2>3 DEF X
<1>4. to \in 0 .. VrcRing - 1
  <2>. DEFINE X == t * VrcScale + s0.base
  <2>1. X \in Nat
    BY <1>0
  <2>. HIDE DEF X
  <2>2. X \div Sample \in Int
    BY <1>0, <2>1, DivMod
  <2>. DEFINE y == X \div Sample
  <2>. HIDE DEF y
  <2>3. y % VrcRing \in 0 .. VrcRing - 1
    BY <1>0, <2>2, DivMod DEF y
  <2>. HIDE DEF to
  <2>. QED
    BY <1>3, <2>3 DEF X, y
<1>. HIDE DEF to
<1>5. rounds \in Nat /\ rounds = (to - s0.offs) % VrcRing
  BY <1>0, <1>1, <1>4 DEF SameVrc
<1>. HIDE DEF rounds
<1>6. F[0] = s /\ \A n \in 1 .. rounds : F[n] = PlaySample(F[n - 1])
  BY <1>5, VrcCourse
<1>. HIDE DEF F
<1>7. 0 \in good
  <2>1. (s0.offs + 0) % VrcRing = s0.offs
    BY <1>0
  <2>. QED
    BY <1>1, <1>5, <1>6, <2>1 DEF SameVrc
<1>8. ASSUME NEW n \in 0 .. rounds, n # 0, n - 1 \in good
      PROVE  n \in good
  <2>. DEFINE p == F[n - 1]
              a == s0.offs + (n - 1)
  <2>1. F[n] = PlaySample(p)
    BY <1>5, <1>6, <1>8
  <2>2. Has(p, {"base", "offs"}) /\ p.base = s0.base /\ p.offs = a % VrcRing
    BY <1>8
  <2>. HIDE DEF p
  <2>3. Has(F[n], {"base", "offs"}) /\ F[n].base = p.base /\ F[n].offs = (p.offs + 1) % VrcRing
    BY <2>1, <2>2, PlaySampleOffs
  <2>4. a \in Int /\ 1 + a = s0.offs + n
    BY <1>5
  <2>. HIDE DEF a
  <2>5. (1 + (a % VrcRing)) % VrcRing = (1 + a) % VrcRing
    <3>1. 1 \in Int
      OBVIOUS
    <3>. QED
      BY <1>0, <2>4, <3>1, ModAdd
  <2>6. p.offs + 1 = 1 + (a % VrcRing)
    BY <1>0, <2>2, <2>4
  <2>. QED
    BY <2>2, <2>3, <2>4, <2>5, <2>6
<1>. HIDE DEF good
<1>9. rounds \in good
  <2>1. 0 .. rounds \subseteq good
    BY <1>5, <1>7, <1>8, UpToBound
  <2>. QED
    BY <1>5, <2>1
<1>10. (s0.offs + rounds) % VrcRing = to
  <2>. DEFINE x == to - s0.offs
              o == s0.offs
  <2>1. x \in Int /\ o \in Int /\ o + x = to
    BY <1>0, <1>4
  <2>2. rounds = x % VrcRing
    BY <1>5
  <2>. HIDE DEF x, o
  <2>3. (o + (x % VrcRing)) % VrcRing = (o + x) % VrcRing
    BY <1>0, <2>1, ModAdd
  <2>4. to % VrcRing = to
    BY <1>0, <1>4, ModSmall
  <2>. QED
    BY <2>1, <2>2, <2>3, <2>4 DEF o
<1>11. /\ Has(q, {"base", "offs"}) /\ q.base = s0.base
       /\ q.offs = ((t * VrcScale + s0.base) \div Sample) % VrcRing
  BY <1>2, <1>3, <1>9, <1>10 DEF good
<1>. QED
  BY <1>11 DEF q
-----------------------------------------------------------------------------
(* The time of each chip after c cycles of the song, a of them in the present *)
(* frame, what a run and what a frame's end do to it.                         *)

\* Division goes on from where it was.
LEMMA LaterDivMod ==
    ASSUME NEW m \in Nat \ {0}, NEW c \in Int, NEW d \in Int
    PROVE  /\ (c + d) \div m = (c \div m) + (((c % m) + d) \div m)
           /\ (c + d) % m = ((c % m) + d) % m
<1>. DEFINE k == c \div m
            x == c % m
            j == (x + d) \div m
            y == (x + d) % m
<1>1. c = m * k + x /\ k \in Int /\ x \in 0 .. m - 1
  BY DivMod
<1>. HIDE DEF k, x
<1>2. x + d \in Int
  BY <1>1
<1>3. x + d = m * j + y /\ j \in Int /\ y \in 0 .. m - 1
  BY <1>2, DivMod
<1>. HIDE DEF j, y
<1>4. c + d = m * (k + j) + y /\ k + j \in Int
  BY <1>1, <1>3
<1>. DEFINE i == k + j
<1>. HIDE DEF i
<1>5. (m * i + y) \div m = i /\ (m * i + y) % m = y
  BY <1>3, <1>4, DivModUnique DEF i
<1>. QED
  BY <1>4, <1>5 DEF i, j, y, k, x

SunTime(s, c, a) ==
    /\ Has(s, {"out", "prev"})
    /\ s.prev = a - (c % SunCycles)
    /\ Exact(s.out, SunScale, SunFull, c \div SunCycles)

\* The cycles that are no whole step are left for the next run.
LEMMA SunRuns ==
    ASSUME NEW s, NEW c \in Nat, NEW a \in Nat, NEW d \in Nat, a + d <= FrameMax,
           SunTime(s, c, a)
    PROVE  SunTime(RunSun(s, a + d), c + d, a + d)
<1>. DEFINE x == c % SunCycles
            n0 == c \div SunCycles
            t == a + d
            q == RunSun(s, t)
            steps == ((t - s.prev) % Stamp) \div SunCycles
<1>0. SunCycles \in Nat \ {0} /\ Stamp \in Nat \ {0} /\ FrameMax \in Nat /\ FrameMax <= Stamp - SunCycles
  BY SunAssumption, VoicesAssumption
<1>1. x \in 0 .. SunCycles - 1 /\ n0 \in Nat
  BY <1>0
<1>2. Has(s, {"out", "prev"}) /\ s.prev = a - x /\ Exact(s.out, SunScale, SunFull, n0)
  BY DEF SunTime
<1>3. (c + d) \div SunCycles = n0 + ((x + d) \div SunCycles)
      /\ (c + d) % SunCycles = (x + d) % SunCycles
  <2>. DEFINE m == SunCycles
  <2>1. m \in Nat \ {0} /\ c \in Int /\ d \in Int
    BY <1>0
  <2>. HIDE DEF m
  <2>2. (c + d) \div m = (c \div m) + (((c % m) + d) \div m) /\ (c + d) % m = ((c % m) + d) % m
    BY <2>1, LaterDivMod
  <2>. QED
    BY <2>2 DEF m
<1>. HIDE DEF x, n0
<1>4. t - s.prev = x + d /\ x + d \in 0 .. Stamp - 1 /\ t \in Int /\ s.prev \in Int
  BY <1>0, <1>1, <1>2
<1>5. (t - s.prev) % Stamp = x + d
  BY <1>0, <1>4, ModSmall
<1>6. /\ Has(q, {"out", "prev"}) /\ Exact(q.out, SunScale, SunFull, n0 + steps)
      /\ q.prev = s.prev + steps * SunCycles
  BY <1>1, <1>2, <1>4, RunSunOut
<1>. DEFINE j == (x + d) \div SunCycles
            y == (x + d) % SunCycles
<1>7. steps = j
  BY <1>5
<1>8. x + d = SunCycles * j + y /\ j \in Int /\ y \in Int
  <2>. DEFINE e == x + d
              m == SunCycles
  <2>1. e \in Int /\ m \in Nat \ {0}
    BY <1>0, <1>4
  <2>. HIDE DEF e, m
  <2>2. e = m * (e \div m) + (e % m) /\ e \div m \in Int /\ e % m \in 0 .. m - 1
    BY <2>1, DivMod
  <2>3. e % m \in Int
    BY <2>1, <2>2
  <2>. QED
    BY <2>2, <2>3 DEF e, m
<1>. HIDE DEF j, y, steps, q
<1>9. q.prev = (a + d) - y
  <2>1. j * SunCycles = SunCycles * j
    BY <1>0, <1>8
  <2>. DEFINE w == SunCycles * j
  <2>2. w \in Int /\ q.prev = a - x + w /\ x + d = w + y
    BY <1>0, <1>2, <1>6, <1>7, <1>8, <2>1
  <2>. HIDE DEF w
  <2>. QED
    BY <1>1, <1>8, <2>2
<1>10. SunTime(q, c + d, a + d)
  BY <1>3, <1>6, <1>7, <1>9 DEF SunTime, j, y
<1>. QED
  BY <1>10 DEF q

\* A frame's end moves the time of the last step to before the next.
LEMMA SunFrames ==
    ASSUME NEW s, NEW c \in Nat, NEW a \in Nat, SunTime(s, c, a)
    PROVE  SunTime(SunFrame(s, a), c, 0)
<1>. DEFINE q == SunFrame(s, a)
            x == c % SunCycles
<1>1. x \in Int
  BY SunAssumption
<1>2. Has(s, {"out", "prev"}) /\ s.prev = a - x
  BY DEF SunTime
<1>. HIDE DEF x
<1>3. Has(q, {"out", "prev"}) /\ q.out = s.out /\ q.prev = s.prev - a
  BY <1>2 DEF Has, SunFrame
<1>4. q.prev = 0 - x
  BY <1>1, <1>2, <1>3
<1>. HIDE DEF q
<1>5. SunTime(q, c, 0)
  BY <1>3, <1>4 DEF SunTime, x
<1>. QED
  BY <1>5 DEF q

\* Steps of the Namco 163 begin with the first cycle.
NamcoCount(c) == IF c = 0 THEN 0 ELSE (c \div NamcoCycles) + 1

NamcoTime(s, c, a) ==
    /\ Has(s, {"out", "prev", "divider"})
    /\ s.prev = a /\ s.divider = c - NamcoCycles * NamcoCount(c)
    /\ Exact(s.out, NamcoScale, NamcoFull, NamcoCount(c))

\* The divider keeps what steps have taken in advance.
LEMMA NamcoRuns ==
    ASSUME NEW s, NEW c \in Nat, NEW a \in Nat, NEW d \in Nat, a + d <= FrameMax, c + d > 0,
           NamcoTime(s, c, a)
    PROVE  NamcoTime(RunNamco(s, a + d), c + d, a + d)
<1>. DEFINE M == NamcoCycles
            n0 == NamcoCount(c)
            n1 == NamcoCount(c + d)
            t == a + d
            q == RunNamco(s, t)
            due == s.divider + ((t - s.prev) % NamcoStamp)
            steps == IF due < 0 THEN 0 ELSE (due \div NamcoCycles) + 1
<1>0. M \in Nat \ {0} /\ NamcoStamp \in Nat \ {0} /\ FrameMax \in Nat /\ FrameMax < NamcoStamp
  BY NamcoAssumption, VoicesAssumption
<1>1. n0 \in Nat /\ n1 = ((c + d) \div M) + 1 /\ n1 \in Nat
  BY <1>0 DEF NamcoCount
<1>2. /\ Has(s, {"out", "prev", "divider"}) /\ s.prev = a /\ s.divider = c - M * n0
      /\ Exact(s.out, NamcoScale, NamcoFull, n0)
  BY DEF NamcoTime
<1>3. M * n0 \in Int
  BY <1>0, <1>1
<1>4. due = c + d - M * n0 /\ t \in Int /\ s.prev \in Int /\ s.divider \in Int
  <2>1. t - s.prev = d /\ d \in 0 .. NamcoStamp - 1
    BY <1>0, <1>2
  <2>2. (t - s.prev) % NamcoStamp = d
    BY <1>0, <2>1, ModSmall
  <2>. DEFINE w == M * n0
  <2>. HIDE DEF w
  <2>3. s.divider = c - w /\ w \in Int
    BY <1>2, <1>3 DEF w
  <2>4. due = c + d - w
    BY <2>2, <2>3
  <2>. QED
    BY <1>2, <2>3, <2>4 DEF w
<1>5. /\ Has(q, {"out", "prev", "divider"}) /\ q.prev = t
      /\ Exact(q.out, NamcoScale, NamcoFull, n0 + steps)
      /\ q.divider = due - steps * NamcoCycles
  <2>. HIDE DEF n0
  <2>. QED
    BY <1>1, <1>2, <1>4, RunNamcoOut
<1>6. n0 + steps = n1
  <2>. DEFINE k == (c + d) \div M
              r == (c + d) % M
              e == c + d
  <2>1. e \in Nat /\ e = M * k + r /\ k \in Int /\ r \in 0 .. M - 1
    <3>. HIDE DEF M
    <3>. QED
      BY <1>0, DivMod
  <2>. HIDE DEF k, r
  <2>2. CASE due < 0
    <3>1. c # 0
      BY <1>0, <1>4, <2>2 DEF NamcoCount
    <3>. DEFINE j == c \div M
                x == c % M
    <3>2. n0 = j + 1
      BY <3>1 DEF NamcoCount
    <3>3. c = M * j + x /\ j \in Int /\ x \in 0 .. M - 1
      <4>. HIDE DEF M
      <4>. QED
        BY <1>0, DivMod
    <3>. HIDE DEF j, x, n0
    <3>4. M * (j + 1) = M * j + M
      BY <1>0, <3>3
    <3>5. e = M * j + (x + d) /\ x + d \in 0 .. M - 1
      <4>. DEFINE w == M * j
      <4>1. w \in Int /\ c = w + x /\ due = c + d - (w + M)
        BY <1>0, <1>4, <3>2, <3>3, <3>4
      <4>. HIDE DEF w, due, M
      <4>. QED
        BY <1>0, <2>2, <3>3, <4>1 DEF w
    <3>. DEFINE y == x + d
    <3>. HIDE DEF y
    <3>6. (M * j + y) \div M = j
      <4>. HIDE DEF M
      <4>. QED
        BY <1>0, <3>3, <3>5, DivModUnique DEF y
    <3>7. k = j
      BY <3>5, <3>6 DEF k, y
    <3>8. steps = 0
      BY <2>2
    <3>. QED
      BY <1>1, <2>1, <3>2, <3>7, <3>8 DEF k
  <2>3. CASE ~(due < 0)
    <3>1. steps = (due \div M) + 1
      BY <2>3
    <3>2. due = M * (k - n0) + r
      <4>1. M * (k - n0) = M * k - M * n0 /\ M * k \in Int
        BY <1>0, <1>1, <2>1
      <4>. DEFINE w == M * k
                  u == M * n0
      <4>. HIDE DEF w, u, due, n0, M
      <4>2. w \in Int /\ u \in Int /\ e = w + r /\ due = e - u /\ M * (k - n0) = w - u
        BY <1>3, <1>4, <2>1, <4>1 DEF w, u
      <4>. HIDE DEF e
      <4>. QED
        BY <2>1, <4>2
    <3>. DEFINE z == k - n0
    <3>3. z \in Int
      BY <1>1, <2>1
    <3>. HIDE DEF z, n0, due
    <3>4. (M * z + r) \div M = z
      <4>. HIDE DEF M
      <4>. QED
        BY <1>0, <2>1, <3>3, DivModUnique
    <3>5. due \div M = z
      BY <3>2, <3>4 DEF z
    <3>. QED
      BY <1>1, <2>1, <3>1, <3>3, <3>5 DEF z, k
  <2>. QED
    BY <2>2, <2>3
<1>7. q.divider = (c + d) - M * n1
  <2>1. steps \in Int
    BY <1>0, <1>4
  <2>. HIDE DEF steps, n0, n1, due, q
  <2>2. M * (n0 + steps) = M * n0 + steps * M
    BY <1>0, <1>1, <2>1
  <2>. DEFINE u == M * n0
              v == steps * M
              w == M * n1
  <2>3. u \in Int /\ v \in Int /\ w = u + v /\ due = c + d - u /\ q.divider = due - v
    BY <1>0, <1>1, <1>3, <1>4, <1>5, <1>6, <2>1, <2>2
  <2>. HIDE DEF u, v, w
  <2>4. q.divider = (c + d) - w
    BY <2>3
  <2>. QED
    BY <2>4 DEF w
<1>. HIDE DEF q, steps
<1>8. NamcoTime(q, c + d, a + d)
  BY <1>5, <1>6, <1>7 DEF NamcoTime
<1>. QED
  BY <1>8 DEF q

\* A frame's end only sets the time back.
LEMMA NamcoFrames ==
    ASSUME NEW s, NEW c \in Nat, NEW a \in Nat, NamcoTime(s, c, a)
    PROVE  NamcoTime(NamcoFrame(s, a), c, 0)
<1>. DEFINE q == NamcoFrame(s, a)
<1>1. Has(s, {"out", "prev", "divider"}) /\ s.prev = a
  BY DEF NamcoTime
<1>2. /\ Has(q, {"out", "prev", "divider"}) /\ q.out = s.out /\ q.prev = s.prev - a
      /\ q.divider = s.divider
  BY <1>1 DEF Has, NamcoFrame
<1>3. q.prev = 0
  BY <1>1, <1>2
<1>. HIDE DEF q
<1>4. NamcoTime(q, c, 0)
  BY <1>2, <1>3 DEF NamcoTime
<1>. QED
  BY <1>4 DEF q

VrcTime(s, c, a) ==
    /\ Has(s, {"base", "offs"})
    /\ s.base = ((c - a) * VrcScale) % Fxp
    /\ s.offs = ((c * VrcScale) \div Sample) % VrcRing

\* The fixed-point time of a frame's cycle is that of the song's.
LEMMA VrcFxpTime ==
    ASSUME NEW s, NEW c \in Nat, NEW a \in Nat, NEW d \in Nat, a <= c,
           s.base = ((c - a) * VrcScale) % Fxp
    PROVE  /\ s.base \in Nat /\ FxpTime(s, a + d) = ((c + d) * VrcScale) % Fxp
           /\ ((((a + d) * VrcScale) + s.base) \div Sample) % VrcRing
                 = (((c + d) * VrcScale) \div Sample) % VrcRing
<1>. DEFINE u == (c - a) * VrcScale
            v == (a + d) * VrcScale
            w == (c + d) * VrcScale
<1>1. VrcScale \in Nat /\ Sample \in Nat \ {0} /\ VrcRing \in Nat \ {0}
  BY VrcAssumption
<1>2. Fxp \in Nat \ {0} /\ Fxp = Sample * VrcRing
  BY <1>1 DEF Fxp
<1>3. u \in Nat /\ v \in Nat /\ w \in Nat /\ v + u = w
  <2>1. v + u = ((a + d) + (c - a)) * VrcScale
    BY <1>1
  <2>2. (a + d) + (c - a) = c + d /\ c - a \in Nat /\ a + d \in Nat /\ c + d \in Nat
    OBVIOUS
  <2>. QED
    BY <1>1, <2>1, <2>2
<1>. HIDE DEF u, v, w
<1>4. (v + (u % Fxp)) % Fxp = (v + u) % Fxp
  <2>1. Fxp \in Nat \ {0} /\ u \in Int /\ v \in Int
    BY <1>2, <1>3
  <2>. QED
    BY <2>1, ModAdd
<1>5. s.base = u % Fxp
  BY DEF u
<1>6. s.base \in 0 .. Fxp - 1
  BY <1>2, <1>3, <1>5, DivMod
<1>. DEFINE b == s.base
            X == v + b
<1>7. X \in Nat /\ X % Fxp = w % Fxp
  BY <1>2, <1>3, <1>4, <1>5, <1>6
<1>. HIDE DEF X
<1>8. /\ (X % (Sample * VrcRing)) \div Sample = (X \div Sample) % VrcRing
      /\ (w % (Sample * VrcRing)) \div Sample = (w \div Sample) % VrcRing
  BY <1>1, <1>3, <1>7, DivOfMod, ZenonT(30)
<1>9. (X \div Sample) % VrcRing = (w \div Sample) % VrcRing
  BY <1>2, <1>7, <1>8
<1>10. FxpTime(s, a + d) = X % Fxp
  BY DEF FxpTime, X, v
<1>. QED
  BY <1>2, <1>6, <1>7, <1>9, <1>10 DEF X, v, w

\* A run plays the samples up to the song's clock.
LEMMA VrcRuns ==
    ASSUME NEW s, NEW c \in Nat, NEW a \in Nat, NEW d \in Nat, a <= c, VrcTime(s, c, a)
    PROVE  VrcTime(RunVrc(s, a + d), c + d, a + d)
<1>. DEFINE q == RunVrc(s, a + d)
            t == a + d
<1>1. Has(s, {"base", "offs"}) /\ s.base = ((c - a) * VrcScale) % Fxp
  BY DEF VrcTime
<1>2. s.base \in Nat
  BY <1>1, VrcFxpTime
<1>3. s.offs \in 0 .. VrcRing - 1
  <2>. DEFINE x == c * VrcScale
  <2>1. x \in Int /\ Sample \in Nat \ {0} /\ VrcRing \in Nat \ {0}
    BY VrcAssumption
  <2>. HIDE DEF x
  <2>. DEFINE y == x \div Sample
  <2>2. y \in Int
    BY <2>1, DivMod
  <2>. HIDE DEF y
  <2>3. y % VrcRing \in 0 .. VrcRing - 1
    BY <2>1, <2>2, DivMod
  <2>. QED
    BY <2>3 DEF VrcTime, x, y
<1>4. t \in Nat
  OBVIOUS
<1>. HIDE DEF t
<1>5. /\ Has(RunVrc(s, t), {"base", "offs"}) /\ RunVrc(s, t).base = s.base
      /\ RunVrc(s, t).offs = ((t * VrcScale + s.base) \div Sample) % VrcRing
  BY <1>1, <1>2, <1>3, <1>4, RunVrcOffs
<1>6. (((t * VrcScale) + s.base) \div Sample) % VrcRing = (((c + d) * VrcScale) \div Sample) % VrcRing
  BY <1>1, VrcFxpTime DEF t
<1>7. (c + d) - (a + d) = c - a
  OBVIOUS
<1>8. q = RunVrc(s, t)
  BY DEF t
<1>. HIDE DEF q
<1>9. VrcTime(q, c + d, a + d)
  BY <1>1, <1>5, <1>6, <1>7, <1>8 DEF VrcTime
<1>. QED
  BY <1>9 DEF q

\* A frame's end moves the base on.
LEMMA VrcFrames ==
    ASSUME NEW s, NEW c \in Nat, NEW a \in Nat, a <= c, VrcTime(s, c, a)
    PROVE  VrcTime(VrcFrame(s, a), c, 0)
<1>. DEFINE q == VrcFrame(s, a)
<1>1. Has(s, {"base", "offs"}) /\ s.base = ((c - a) * VrcScale) % Fxp
  BY DEF VrcTime
<1>2. FxpTime(s, a + 0) = ((c + 0) * VrcScale) % Fxp /\ s.base \in Nat
  <2>1. PICK d \in Nat : d = 0
    OBVIOUS
  <2>2. s.base = ((c - a) * VrcScale) % Fxp
    BY <1>1
  <2>3. s.base \in Nat
    BY <2>2, VrcFxpTime
  <2>4. FxpTime(s, a + d) = ((c + d) * VrcScale) % Fxp
    BY <2>2, VrcFxpTime
  <2>. QED
    BY <2>1, <2>3, <2>4
<1>3. a + 0 = a /\ c + 0 = c /\ c - 0 = c
  OBVIOUS
<1>4. FxpTime(s, a) = (s.base + a * VrcScale) % Fxp
  <2>1. s.base \in Int /\ a * VrcScale \in Int
    BY <1>2, VrcAssumption
  <2>2. a * VrcScale + s.base = s.base + a * VrcScale
    BY <2>1
  <2>. QED
    BY <2>2 DEF FxpTime
<1>5. Has(q, {"base", "offs"}) /\ q.base = (s.base + a * VrcScale) % Fxp /\ q.offs = s.offs
  BY <1>1 DEF Has, VrcFrame
<1>. HIDE DEF q
<1>6. q.base = ((c - 0) * VrcScale) % Fxp
  BY <1>2, <1>3, <1>4, <1>5
<1>7. VrcTime(q, c, 0)
  BY <1>5, <1>6 DEF VrcTime
<1>. QED
  BY <1>7 DEF q
-----------------------------------------------------------------------------
(* The invariant: the chip of the song is in time, the others were not run. *)

InTime ==
    /\ song \in Songs
    /\ at \in 0 .. FrameMax /\ clock \in Nat /\ at <= clock
    /\ half => song.chip = "vrc6"
    /\ song.chip = "vrc6" => VrcTime(vrc, clock, at)
    /\ IF song.chip = "sun5b" THEN SunTime(sun, clock, at) ELSE sun = PowerSun
    /\ IF song.chip = "n163" THEN NamcoTime(namco, clock, at) ELSE namco = PowerNamco

\* At the start of a song.
LEMMA InTimeInit == Init => InTime
<1>. SUFFICES ASSUME Init PROVE InTime
  OBVIOUS
<1>1. song \in Songs /\ at = 0 /\ clock = 0 /\ ~half
  BY DEF Init
<1>2. 0 \in 0 .. FrameMax
  BY VoicesAssumption
<1>3. Ratio(SunScale, SunFull) /\ Ratio(NamcoScale, NamcoFull)
  BY SunAssumption, NamcoAssumption DEF Ratio
<1>4. SunTime(PowerSun, 0, 0)
  <2>1. Has(PowerSun, {"out", "prev"}) /\ PowerSun.out = PowerResampler /\ PowerSun.prev = 0
    BY DEF PowerSun, Has
  <2>2. 0 % SunCycles = 0 /\ 0 \div SunCycles = 0
    BY SunAssumption
  <2>. QED
    BY <1>3, <2>1, <2>2, PowerExact DEF SunTime
<1>5. NamcoTime(PowerNamco, 0, 0)
  <2>1. /\ Has(PowerNamco, {"out", "prev", "divider"}) /\ PowerNamco.out = PowerResampler
        /\ PowerNamco.prev = 0 /\ PowerNamco.divider = 0
    BY DEF PowerNamco, Has
  <2>2. NamcoCount(0) = 0 /\ 0 - NamcoCycles * 0 = 0
    BY NamcoAssumption DEF NamcoCount
  <2>. QED
    BY <1>3, <2>1, <2>2, PowerExact DEF NamcoTime
<1>6. VrcTime(PowerVrc, 0, 0)
  <2>1. Has(PowerVrc, {"base", "offs"}) /\ PowerVrc.base = 0 /\ PowerVrc.offs = 0
    BY DEF PowerVrc, Has
  <2>2. /\ (0 - 0) * VrcScale = 0 /\ 0 * VrcScale = 0 /\ 0 \div Sample = 0 /\ 0 % VrcRing = 0
    BY VrcAssumption
  <2>3. Fxp \in Nat \ {0}
    BY VrcAssumption DEF Fxp
  <2>4. 0 % Fxp = 0
    BY <2>3
  <2>. QED
    BY <2>1, <2>2, <2>4 DEF VrcTime
<1>. QED
  BY <1>1, <1>2, <1>4, <1>5, <1>6 DEF InTime, Init

\* A register belongs to the chip of the song.
LEMMA ChipOfRegister ==
    ASSUME InTime
    PROVE  /\ song.chip \in {"vrc6", "sun5b", "n163"}
           /\ \A reg \in {"duty", "rate", "period"} : reg \in song.uses => song.chip = "vrc6"
           /\ \A reg \in {"tone", "noise", "mixer", "volume", "envelope", "shape"} :
                 reg \in song.uses => song.chip = "sun5b"
           /\ "cell" \in song.uses => song.chip = "n163"
BY SongsAssumption DEF InTime

\* What every command does to the clock.
LEMMA LaterClock ==
    ASSUME InTime, NEW d \in Gaps, Later(d)
    PROVE  /\ d \in Nat /\ d > 0 /\ at \in Nat /\ clock \in Nat /\ at <= clock /\ at + d <= FrameMax
           /\ song' = song /\ song' \in Songs /\ at' = at + d /\ clock' = clock + d
           /\ at' \in 0 .. FrameMax /\ clock' \in Nat /\ at' <= clock'
<1>1. Gaps \subseteq Nat \ {0} /\ FrameMax \in Nat
  BY VoicesAssumption
<1>. QED
  BY <1>1 DEF InTime, Later

\* A command for the VRC6.
LEMMA VrcStep ==
    ASSUME InTime, NEW d \in Gaps, Later(d), song.chip = "vrc6", NEW new, Vrc(new),
           SameVrc(new, RunVrc(vrc, at + d))
    PROVE  InTime'
<1>1. VrcTime(vrc, clock, at)
  BY DEF InTime
<1>2. /\ d \in Nat /\ at \in Nat /\ clock \in Nat /\ at <= clock
      /\ song' = song /\ song' \in Songs /\ at' = at + d /\ clock' = clock + d
      /\ at' \in 0 .. FrameMax /\ clock' \in Nat /\ at' <= clock'
  BY LaterClock
<1>3. VrcTime(RunVrc(vrc, at + d), clock + d, at + d)
  BY <1>1, <1>2, VrcRuns
<1>4. VrcTime(new, clock + d, at + d)
  BY <1>3 DEF VrcTime, SameVrc
<1>5. vrc' = new /\ sun' = sun /\ namco' = namco
  BY DEF Vrc
<1>6. VrcTime(vrc, clock, at)'
  BY <1>2, <1>4, <1>5 DEF VrcTime
<1>. QED
  BY <1>2, <1>5, <1>6 DEF InTime

\* One for the Sunsoft 5B.
LEMMA SunStepIn ==
    ASSUME InTime, NEW d \in Gaps, Later(d), song.chip = "sun5b",
           SameSun(sun', RunSun(sun, at + d)), UNCHANGED <<vrc, namco>>, half' = half
    PROVE  InTime'
<1>1. SunTime(sun, clock, at)
  BY DEF InTime
<1>2. /\ d \in Nat /\ at \in Nat /\ clock \in Nat /\ at <= clock /\ at + d <= FrameMax
      /\ song' = song /\ song' \in Songs /\ at' = at + d /\ clock' = clock + d
      /\ at' \in 0 .. FrameMax /\ clock' \in Nat /\ at' <= clock'
  BY LaterClock
<1>3. SunTime(RunSun(sun, at + d), clock + d, at + d)
  BY <1>1, <1>2, SunRuns
<1>4. SunTime(sun', clock + d, at + d)
  BY <1>3 DEF SunTime, SameSun
<1>5. SunTime(sun', clock', at')
  BY <1>2, <1>4
<1>. QED
  BY <1>2, <1>5 DEF InTime

\* One for the Namco 163.
LEMMA NamcoStepIn ==
    ASSUME InTime, NEW d \in Gaps, Later(d), song.chip = "n163",
           SameNamco(namco', RunNamco(namco, at + d)), UNCHANGED <<vrc, sun>>, half' = half
    PROVE  InTime'
<1>1. NamcoTime(namco, clock, at)
  BY DEF InTime
<1>2. /\ d \in Nat /\ at \in Nat /\ clock \in Nat /\ at <= clock /\ at + d <= FrameMax /\ d > 0
      /\ song' = song /\ song' \in Songs /\ at' = at + d /\ clock' = clock + d
      /\ at' \in 0 .. FrameMax /\ clock' \in Nat /\ at' <= clock'
  BY LaterClock
<1>3. NamcoTime(RunNamco(namco, at + d), clock + d, at + d)
  <2>1. clock + d > 0
    BY <1>2
  <2>. QED
    BY <1>1, <1>2, <2>1, NamcoRuns
<1>4. NamcoTime(namco', clock + d, at + d)
  BY <1>3 DEF NamcoTime, SameNamco
<1>5. NamcoTime(namco', clock', at')
  BY <1>2, <1>4
<1>. QED
  BY <1>2, <1>5 DEF InTime

\* Runs leave the fields that a command's lemma needs.
LEMMA RunHas ==
    ASSUME InTime, NEW d \in Gaps, Later(d)
    PROVE  /\ song.chip = "vrc6" => Has(RunVrc(vrc, at + d), {"base", "offs"})
           /\ song.chip = "sun5b" => Has(RunSun(sun, at + d), {"out", "prev"})
           /\ song.chip = "n163" => Has(RunNamco(namco, at + d), {"out", "prev", "divider"})
<1>2. /\ d \in Nat /\ at \in Nat /\ clock \in Nat /\ at <= clock /\ at + d <= FrameMax
      /\ clock + d > 0
  BY LaterClock
<1>3. ASSUME song.chip = "vrc6" PROVE Has(RunVrc(vrc, at + d), {"base", "offs"})
  BY <1>2, <1>3, VrcRuns DEF InTime, VrcTime
<1>4. ASSUME song.chip = "sun5b" PROVE Has(RunSun(sun, at + d), {"out", "prev"})
  BY <1>2, <1>4, SunRuns DEF InTime, SunTime
<1>5. ASSUME song.chip = "n163" PROVE Has(RunNamco(namco, at + d), {"out", "prev", "divider"})
  BY <1>2, <1>5, NamcoRuns DEF InTime, NamcoTime
<1>. QED
  BY <1>3, <1>4, <1>5

\* The VRC6's registers.
LEMMA InTimeVrc ==
    ASSUME InTime, WriteDuty \/ WriteSawRate \/ BeginPeriod \/ EndPeriod
    PROVE  InTime'
<1>1. CASE WriteDuty
  <2>1. PICK d \in Gaps, mode \in BOOLEAN :
            /\ Later(d) /\ Writes("duty") /\ Wait(d) /\ ~half
            /\ Vrc(SetDuty(RunVrc(vrc, at + d), song.voice, mode))
    BY <1>1 DEF WriteDuty
  <2>2. song.chip = "vrc6"
    BY <2>1, ChipOfRegister DEF Writes
  <2>3. SameVrc(SetDuty(RunVrc(vrc, at + d), song.voice, mode), RunVrc(vrc, at + d))
    BY <2>1, <2>2, RunHas, VrcWrites
  <2>. QED
    BY <2>1, <2>2, <2>3, VrcStep
<1>2. CASE WriteSawRate
  <2>1. PICK d \in Gaps, volume \in VrcVolumes :
            /\ Later(d) /\ Writes("rate") /\ Wait(d) /\ ~half
            /\ Vrc(SetSawRate(RunVrc(vrc, at + d), volume))
    BY <1>2 DEF WriteSawRate
  <2>2. song.chip = "vrc6"
    BY <2>1, ChipOfRegister DEF Writes
  <2>3. SameVrc(SetSawRate(RunVrc(vrc, at + d), volume), RunVrc(vrc, at + d))
    BY <2>1, <2>2, RunHas, VrcWrites
  <2>. QED
    BY <2>1, <2>2, <2>3, VrcStep
<1>3. CASE BeginPeriod
  <2>1. PICK d \in Gaps, b \in PeriodBytes :
            /\ Later(d) /\ Writes("period")
            /\ Vrc(SetLow(RunVrc(vrc, at + d), song.voice, FxpTime(vrc, at + d), b))
    BY <1>3 DEF BeginPeriod
  <2>2. song.chip = "vrc6"
    BY <2>1, ChipOfRegister DEF Writes
  <2>3. SameVrc(SetLow(RunVrc(vrc, at + d), song.voice, FxpTime(vrc, at + d), b), RunVrc(vrc, at + d))
    BY <2>1, <2>2, RunHas, PeriodSame
  <2>. QED
    BY <2>1, <2>2, <2>3, VrcStep
<1>4. CASE EndPeriod
  <2>1. PICK d \in Gaps, h \in PeriodBytes, on \in BOOLEAN :
            /\ Later(d) /\ half
            /\ Vrc(SetHigh(RunVrc(vrc, at + d), song.voice, FxpTime(vrc, at + d), h, on))
    BY <1>4 DEF EndPeriod
  <2>2. song.chip = "vrc6"
    BY <2>1 DEF InTime
  <2>3. SameVrc(SetHigh(RunVrc(vrc, at + d), song.voice, FxpTime(vrc, at + d), h, on),
                RunVrc(vrc, at + d))
    BY <2>1, <2>2, RunHas, PeriodSame
  <2>. QED
    BY <2>1, <2>2, <2>3, VrcStep
<1>. QED
  BY <1>1, <1>2, <1>3, <1>4
\* The Sunsoft 5B's.
LEMMA InTimeSun ==
    ASSUME InTime,
           \/ WriteTone \/ WriteNoise \/ WriteMixer
           \/ WriteSunVolume \/ WriteEnvPeriod \/ WriteShape
    PROVE  InTime'
<1>1. CASE WriteTone
  <2>1. PICK d \in Gaps, w \in Tones, high \in BOOLEAN, v \in TonePeriods :
            Sun(d, "tone", SetTone(RunSun(sun, at + d), w, high, v))
    BY <1>1 DEF WriteTone
  <2>2. /\ Later(d) /\ song.chip = "sun5b" /\ half' = half /\ UNCHANGED <<vrc, namco>>
        /\ sun' = SetTone(RunSun(sun, at + d), w, high, v)
    BY <2>1, ChipOfRegister DEF Sun, Writes, pairs
  <2>3. SameSun(SetTone(RunSun(sun, at + d), w, high, v), RunSun(sun, at + d))
    BY <2>2, RunHas, SunWrites
  <2>. QED
    BY <2>2, <2>3, SunStepIn
<1>2. CASE WriteNoise
  <2>1. PICK d \in Gaps, v \in NoisePeriods :
            Sun(d, "noise", SetNoise(RunSun(sun, at + d), v))
    BY <1>2 DEF WriteNoise
  <2>2. /\ Later(d) /\ song.chip = "sun5b" /\ half' = half /\ UNCHANGED <<vrc, namco>>
        /\ sun' = SetNoise(RunSun(sun, at + d), v)
    BY <2>1, ChipOfRegister DEF Sun, Writes, pairs
  <2>3. SameSun(SetNoise(RunSun(sun, at + d), v), RunSun(sun, at + d))
    BY <2>2, RunHas, SunWrites
  <2>. QED
    BY <2>2, <2>3, SunStepIn
<1>3. CASE WriteMixer
  <2>1. PICK d \in Gaps, off \in Mixers :
            Sun(d, "mixer", SetMixer(RunSun(sun, at + d), off))
    BY <1>3 DEF WriteMixer
  <2>2. /\ Later(d) /\ song.chip = "sun5b" /\ half' = half /\ UNCHANGED <<vrc, namco>>
        /\ sun' = SetMixer(RunSun(sun, at + d), off)
    BY <2>1, ChipOfRegister DEF Sun, Writes, pairs
  <2>3. SameSun(SetMixer(RunSun(sun, at + d), off), RunSun(sun, at + d))
    BY <2>2, RunHas, SunWrites
  <2>. QED
    BY <2>2, <2>3, SunStepIn
<1>4. CASE WriteSunVolume
  <2>1. PICK d \in Gaps, w \in Tones, v \in SunVolumes, enveloped \in BOOLEAN :
            Sun(d, "volume", SetSunVolume(RunSun(sun, at + d), w, v, enveloped))
    BY <1>4 DEF WriteSunVolume
  <2>2. /\ Later(d) /\ song.chip = "sun5b" /\ half' = half /\ UNCHANGED <<vrc, namco>>
        /\ sun' = SetSunVolume(RunSun(sun, at + d), w, v, enveloped)
    BY <2>1, ChipOfRegister DEF Sun, Writes, pairs
  <2>3. SameSun(SetSunVolume(RunSun(sun, at + d), w, v, enveloped), RunSun(sun, at + d))
    BY <2>2, RunHas, SunWrites
  <2>. QED
    BY <2>2, <2>3, SunStepIn
<1>5. CASE WriteEnvPeriod
  <2>1. PICK d \in Gaps, high \in BOOLEAN, v \in EnvPeriods :
            Sun(d, "envelope", SetEnvPeriod(RunSun(sun, at + d), high, v))
    BY <1>5 DEF WriteEnvPeriod
  <2>2. /\ Later(d) /\ song.chip = "sun5b" /\ half' = half /\ UNCHANGED <<vrc, namco>>
        /\ sun' = SetEnvPeriod(RunSun(sun, at + d), high, v)
    BY <2>1, ChipOfRegister DEF Sun, Writes, pairs
  <2>3. SameSun(SetEnvPeriod(RunSun(sun, at + d), high, v), RunSun(sun, at + d))
    BY <2>2, RunHas, SunWrites
  <2>. QED
    BY <2>2, <2>3, SunStepIn
<1>6. CASE WriteShape
  <2>1. PICK d \in Gaps, shape \in Shapes :
            Sun(d, "shape", SetShape(RunSun(sun, at + d), shape))
    BY <1>6 DEF WriteShape
  <2>2. /\ Later(d) /\ song.chip = "sun5b" /\ half' = half /\ UNCHANGED <<vrc, namco>>
        /\ sun' = SetShape(RunSun(sun, at + d), shape)
    BY <2>1, ChipOfRegister DEF Sun, Writes, pairs
  <2>3. SameSun(SetShape(RunSun(sun, at + d), shape), RunSun(sun, at + d))
    BY <2>2, RunHas, SunWrites
  <2>. QED
    BY <2>2, <2>3, SunStepIn
<1>. QED
  BY <1>1, <1>2, <1>3, <1>4, <1>5, <1>6

\* The Namco 163's memory.
LEMMA InTimeNamco ==
    ASSUME InTime, WriteCell
    PROVE  InTime'
<1>1. PICK d \in Gaps, a \in NamcoAddresses, b \in NamcoBytes :
          /\ Later(d) /\ Writes("cell")
          /\ namco' = SetCell(RunNamco(namco, at + d), a, b)
          /\ UNCHANGED <<vrc, sun, pairs, torn>>
  BY DEF WriteCell
<1>2. song.chip = "n163" /\ half' = half
  BY <1>1, ChipOfRegister DEF Writes, pairs
<1>3. SameNamco(SetCell(RunNamco(namco, at + d), a, b), RunNamco(namco, at + d))
  BY <1>1, <1>2, RunHas, NamcoWrites
<1>. QED
  BY <1>1, <1>2, <1>3, NamcoStepIn

\* A command that only runs the chip.
LEMMA InTimeForce ==
    ASSUME InTime, ForceUpdate
    PROVE  InTime'
<1>1. PICK d \in Gaps :
          /\ Later(d) /\ Wait(d)
          /\ CASE song.chip = "vrc6" -> Vrc(RunVrc(vrc, at + d))
               [] song.chip = "sun5b" -> sun' = RunSun(sun, at + d) /\ UNCHANGED <<vrc, namco, torn>>
               [] song.chip = "n163" -> namco' = RunNamco(namco, at + d) /\ UNCHANGED <<vrc, sun, torn>>
  BY DEF ForceUpdate
<1>2. half' = half
  BY <1>1 DEF Wait
<1>3. CASE song.chip = "vrc6"
  <2>1. Vrc(RunVrc(vrc, at + d))
    BY <1>1, <1>3
  <2>2. SameVrc(RunVrc(vrc, at + d), RunVrc(vrc, at + d))
    BY <1>1, <1>3, RunHas DEF SameVrc
  <2>. QED
    BY <1>1, <1>3, <2>1, <2>2, VrcStep
<1>4. CASE song.chip = "sun5b"
  <2>1. sun' = RunSun(sun, at + d) /\ UNCHANGED <<vrc, namco>>
    BY <1>1, <1>4
  <2>2. SameSun(RunSun(sun, at + d), RunSun(sun, at + d))
    BY <1>1, <1>4, RunHas DEF SameSun
  <2>. QED
    BY <1>1, <1>2, <1>4, <2>1, <2>2, SunStepIn
<1>5. CASE song.chip = "n163"
  <2>1. namco' = RunNamco(namco, at + d) /\ UNCHANGED <<vrc, sun>>
    BY <1>1, <1>5
  <2>2. SameNamco(RunNamco(namco, at + d), RunNamco(namco, at + d))
    BY <1>1, <1>5, RunHas DEF SameNamco
  <2>. QED
    BY <1>1, <1>2, <1>5, <2>1, <2>2, NamcoStepIn
<1>. QED
  BY <1>3, <1>4, <1>5, ChipOfRegister

\* The end of a frame, which comes with or without cycles since the last command.
LEMMA InTimeFrame ==
    ASSUME InTime, Frame
    PROVE  InTime'
<1>1. PICK d \in Gaps \cup {0} :
          /\ at + d \in FrameMin .. FrameMax
          /\ at' = 0 /\ clock' = clock + d /\ Wait(d) /\ song' = song
          /\ CASE song.chip = "vrc6" -> Vrc(VrcFrame(RunVrc(vrc, at + d), at + d))
               [] song.chip = "sun5b" ->
                      sun' = SunFrame(RunSun(sun, at + d), at + d) /\ UNCHANGED <<vrc, namco, torn>>
               [] song.chip = "n163" ->
                      namco' = NamcoFrame(RunNamco(namco, at + d), at + d)
                      /\ UNCHANGED <<vrc, sun, torn>>
  BY DEF Frame
<1>2. /\ d \in Nat /\ at \in Nat /\ clock \in Nat /\ at <= clock /\ at + d <= FrameMax
      /\ clock + d > 0 /\ clock + d \in Nat /\ at + d \in Nat /\ at + d <= clock + d
      /\ 0 \in 0 .. FrameMax /\ song \in Songs
  BY <1>1, VoicesAssumption DEF InTime
<1>3. half' = half /\ clock' \in Nat /\ at' \in 0 .. FrameMax /\ at' <= clock' /\ song' \in Songs
      /\ (half' => song'.chip = "vrc6")
  BY <1>1, <1>2 DEF Wait, InTime
<1>. DEFINE t == at + d
            c == clock + d
<1>4. CASE song.chip = "vrc6"
  <2>1. /\ vrc' = VrcFrame(RunVrc(vrc, at + d), at + d) /\ UNCHANGED <<sun, namco>>
    BY <1>1, <1>4 DEF Vrc
  <2>2. VrcTime(RunVrc(vrc, at + d), clock + d, at + d)
    BY <1>2, <1>4, VrcRuns DEF InTime
  <2>3. vrc' = VrcFrame(RunVrc(vrc, t), t) /\ VrcTime(RunVrc(vrc, t), c, t) /\ c \in Nat /\ t \in Nat
        /\ t <= c /\ clock' = c
    BY <1>1, <1>2, <2>1, <2>2
  <2>. HIDE DEF t, c
  <2>4. VrcTime(VrcFrame(RunVrc(vrc, t), t), c, 0)
    BY <2>3, VrcFrames
  <2>5. VrcTime(vrc', clock', at')
    BY <1>1, <2>3, <2>4
  <2>. QED
    BY <1>1, <1>3, <1>4, <2>1, <2>5 DEF InTime
<1>5. CASE song.chip = "sun5b"
  <2>1. sun' = SunFrame(RunSun(sun, at + d), at + d) /\ UNCHANGED <<vrc, namco>>
    BY <1>1, <1>5
  <2>2. SunTime(RunSun(sun, at + d), clock + d, at + d)
    BY <1>2, <1>5, SunRuns DEF InTime
  <2>3. sun' = SunFrame(RunSun(sun, t), t) /\ SunTime(RunSun(sun, t), c, t) /\ c \in Nat /\ t \in Nat
        /\ clock' = c
    BY <1>1, <1>2, <2>1, <2>2
  <2>. HIDE DEF t, c
  <2>4. SunTime(SunFrame(RunSun(sun, t), t), c, 0)
    BY <2>3, SunFrames
  <2>5. SunTime(sun', clock', at')
    BY <1>1, <2>3, <2>4
  <2>. QED
    BY <1>1, <1>3, <1>5, <2>1, <2>5 DEF InTime
<1>6. CASE song.chip = "n163"
  <2>1. namco' = NamcoFrame(RunNamco(namco, at + d), at + d) /\ UNCHANGED <<vrc, sun>>
    BY <1>1, <1>6
  <2>2. NamcoTime(RunNamco(namco, at + d), clock + d, at + d)
    BY <1>2, <1>6, NamcoRuns DEF InTime
  <2>3. namco' = NamcoFrame(RunNamco(namco, t), t) /\ NamcoTime(RunNamco(namco, t), c, t)
        /\ c \in Nat /\ t \in Nat /\ clock' = c
    BY <1>1, <1>2, <2>1, <2>2
  <2>. HIDE DEF t, c
  <2>4. NamcoTime(NamcoFrame(RunNamco(namco, t), t), c, 0)
    BY <2>3, NamcoFrames
  <2>5. NamcoTime(namco', clock', at')
    BY <1>1, <2>3, <2>4
  <2>. QED
    BY <1>1, <1>3, <1>6, <2>1, <2>5 DEF InTime
<1>. QED
  BY <1>4, <1>5, <1>6, ChipOfRegister

\* Every step keeps the invariant.
LEMMA InTimeNext ==
    ASSUME InTime, [Next]_vars
    PROVE  InTime'
<1>1. CASE Next
  BY <1>1, InTimeVrc, InTimeSun, InTimeNamco, InTimeForce, InTimeFrame DEF Next
<1>2. CASE UNCHANGED vars
  <2>1. /\ song' = song /\ at' = at /\ clock' = clock /\ half' = half
        /\ vrc' = vrc /\ sun' = sun /\ namco' = namco
    BY <1>2 DEF vars, chips, pairs
  <2>. QED
    BY <2>1 DEF InTime
<1>. QED
  BY <1>1, <1>2

\* The invariant is what the property asks for.
LEMMA InTimeResampled ==
    ASSUME InTime
    PROVE  Resampled
<1>1. Ratio(SunScale, SunFull) /\ Ratio(NamcoScale, NamcoFull)
  BY SunAssumption, NamcoAssumption DEF Ratio
<1>2. Exact(PowerResampler, SunScale, SunFull, 0) /\ Exact(PowerResampler, NamcoScale, NamcoFull, 0)
  BY <1>1, PowerExact
<1>3. PowerSun.out = PowerResampler /\ PowerNamco.out = PowerResampler
  BY DEF PowerSun, PowerNamco
<1>4. Exact(sun.out, SunScale, SunFull, IF song.chip = "sun5b" THEN SunSteps ELSE 0)
  <2>1. CASE song.chip = "sun5b"
    BY <2>1 DEF InTime, SunTime, SunSteps
  <2>2. CASE song.chip # "sun5b"
    BY <1>2, <1>3, <2>2 DEF InTime
  <2>. QED
    BY <2>1, <2>2
<1>5. Exact(namco.out, NamcoScale, NamcoFull, IF song.chip = "n163" THEN NamcoSteps ELSE 0)
  <2>1. CASE song.chip = "n163"
    BY <2>1 DEF InTime, NamcoTime, NamcoSteps, NamcoCount
  <2>2. CASE song.chip # "n163"
    BY <1>2, <1>3, <2>2 DEF InTime
  <2>. QED
    BY <2>1, <2>2
<1>6. song.chip = "vrc6" => vrc.offs = ((clock * VrcScale) \div Sample) % VrcRing
  BY DEF InTime, VrcTime
<1>7. SamplesOnTime
  BY <1>4, <1>5, <1>6 DEF SamplesOnTime, Exact
<1>8. SourceFollows
  BY <1>4, <1>5 DEF SourceFollows, Exact
<1>. QED
  BY <1>7, <1>8 DEF Resampled

\* In however long a song, cut into commands and frames in whatever way, each chip
\* has given the sound processor exactly the samples that belong to the cycles so
\* far, and the filter of sun5b.c and n163.c reads its samples exactly as far back
\* as the divider says: the three ways to keep time lose nothing by rounding.
THEOREM VoicesResampled == Spec => []Resampled
<1>1. Init => InTime
  BY InTimeInit
<1>2. InTime /\ [Next]_vars => InTime'
  BY InTimeNext
<1>3. InTime => Resampled
  BY InTimeResampled
<1>. QED
  BY <1>1, <1>2, <1>3, PTL DEF Spec

Channel == [ph : Int, inc : Nat, length : Nat, offs : Bytes, volume : Nat]
NamcoFields == {"wf", "ch", "counter", "limit", "divider", "prev", "out"}
NamcoSays(s) ==
    /\ Has(s, NamcoFields) /\ s.prev \in Int /\ s.divider \in Int
    /\ s.wf \in [Cells -> Bytes \cup {Unwritten}] /\ s.ch \in [NamcoChannels -> Channel]
    /\ NamcoAsWritten(s)

\* A byte is below NamcoByte, and Length and Limit make of it what they should.
LEMMA NamcoBytesAre ==
    ASSUME NEW b \in Bytes
    PROVE  /\ 0 \in Bytes /\ Unwritten \notin Bytes /\ b \in Nat /\ b % 4 \in 0 .. 3 /\ b % 4 \in Nat
           /\ b % VolRange \in Nat /\ Length(b) \in Nat
           /\ Limit(b) \in 1 .. TopChannel + 1
<1>1. /\ NamcoByte \in Nat /\ NamcoByte >= 4 /\ TopChannel \in Nat /\ VolRange \in Nat \ {0}
  BY NamcoAssumption
<1>2. 0 \in Bytes /\ Unwritten \notin Bytes /\ b \in Nat /\ b % 4 \in 0 .. 3 /\ b % 4 \in Nat
  BY <1>1 DEF Bytes, Unwritten
<1>3. b % VolRange \in Nat /\ b \div VolRange \in Nat
  BY <1>1, <1>2
<1>4. Limit(b) \in 1 .. TopChannel + 1
  <2>. DEFINE z == b \div VolRange
              m == TopChannel + 1
  <2>1. z \in Nat /\ m \in Nat \ {0}
    BY <1>1, <1>3
  <2>2. Limit(b) = 1 + (z % m)
    BY DEF Limit
  <2>. HIDE DEF z
  <2>3. z % m \in 0 .. m - 1
    <3>. HIDE DEF m
    <3>. QED
      BY <2>1, DivMod
  <2>. QED
    BY <1>1, <2>2, <2>3
<1>5. Length(b) \in Nat
  <2>. DEFINE z == (NamcoByte - 4 * (b \div 4)) * NamcoByte * NamcoByte
  <2>1. b \div 4 \in Int
    BY <1>2
  <2>2. NamcoByte - 4 * (b \div 4) \in Int
    BY <1>1, <2>1
  <2>3. z \in Int
    <3>. DEFINE y == NamcoByte - 4 * (b \div 4)
    <3>1. y \in Int
      BY <2>2
    <3>. HIDE DEF y
    <3>2. y * NamcoByte \in Int
      BY <1>1, <3>1
    <3>3. y * NamcoByte * NamcoByte \in Int
      BY <1>1, <3>2
    <3>. QED
      BY <3>3 DEF y
  <2>4. Phase \in Nat \ {0}
    BY <1>1 DEF Phase
  <2>5. Length(b) = z % Phase
    BY DEF Length
  <2>. HIDE DEF z
  <2>. QED
    BY <2>3, <2>4, <2>5, DivMod
<1>. QED
  BY <1>2, <1>3, <1>4, <1>5

\* The address of a register.
LEMMA NamcoCells ==
    /\ \A c \in NamcoChannels, reg \in NamcoRegs : <<c, reg>> \in Cells /\ <<c, reg>> \notin WaveCells
    /\ \A a \in Cells : a \notin WaveCells => a = <<a[1], a[2]>> /\ a[1] \in NamcoChannels /\ a[2] \in NamcoRegs
    /\ 0 \in NamcoChannels /\ {0, 1, 2, 3, 4, 5, 6, 7} = NamcoRegs
BY BytesAssumption, NamcoAssumption DEF Cells, NamcoChannels, NamcoRegs

\* What is decoded is left alone by a step.
LEMMA NamcoStepSays ==
    ASSUME NEW s, NamcoSays(s)
    PROVE  NamcoSays(NamcoStep(s))
<1>. DEFINE q == NamcoStep(s)
            c0 == s.counter
            p == PlayChannel(s.ch[c0])
<1>1. /\ Has(s, NamcoFields) /\ s.prev \in Int /\ s.divider \in Int /\ NamcoAsWritten(s)
      /\ s.wf \in [Cells -> Bytes \cup {Unwritten}] /\ s.ch \in [NamcoChannels -> Channel]
  BY DEF NamcoSays
<1>2. /\ Has(q, NamcoFields) /\ q.wf = s.wf /\ q.limit = s.limit /\ q.prev = s.prev
      /\ q.divider = s.divider - NamcoCycles
      /\ q.ch = [s.ch EXCEPT ![c0] = p]
      /\ q.counter = IF c0 + 1 >= s.limit THEN 0 ELSE c0 + 1
  BY <1>1 DEF NamcoStep, Has, NamcoFields
<1>3. c0 \in NamcoChannels /\ s.limit = Limit(Reg(s, 0, 7))
  BY <1>1 DEF NamcoAsWritten
<1>4. s.ch[c0] \in Channel
  BY <1>1, <1>3
<1>5. /\ p \in Channel /\ p.inc = s.ch[c0].inc /\ p.length = s.ch[c0].length
      /\ p.offs = s.ch[c0].offs /\ p.volume = s.ch[c0].volume
  <2>. DEFINE r == s.ch[c0]
              z == (r.ph + r.inc) % Phase
  <2>1. z \in Int
    <3>1. Phase \in Nat \ {0}
      BY NamcoAssumption DEF Phase
    <3>2. r.ph + r.inc \in Int
      BY <1>4 DEF Channel
    <3>. DEFINE y == r.ph + r.inc
    <3>. HIDE DEF y
    <3>3. y % Phase \in Int
      BY <3>1, <3>2, DivMod DEF y
    <3>. QED
      BY <3>3 DEF y
  <2>2. p = [r EXCEPT !.ph = IF z >= r.length THEN z - r.length ELSE z]
    BY DEF PlayChannel
  <2>. HIDE DEF z, p
  <2>3. r \in Channel
    BY <1>4
  <2>. HIDE DEF r
  <2>4. /\ p \in Channel /\ p.inc = r.inc /\ p.length = r.length /\ p.offs = r.offs /\ p.volume = r.volume
    BY <2>1, <2>2, <2>3 DEF Channel
  <2>. QED
    BY <2>4 DEF r
<1>. HIDE DEF q, p
<1>6. /\ q.ch \in [NamcoChannels -> Channel]
      /\ \A c \in NamcoChannels : /\ q.ch[c].inc = s.ch[c].inc /\ q.ch[c].length = s.ch[c].length
                                  /\ q.ch[c].offs = s.ch[c].offs /\ q.ch[c].volume = s.ch[c].volume
  BY <1>1, <1>2, <1>3, <1>5
<1>7. \A c, reg : Reg(q, c, reg) = Reg(s, c, reg)
  BY <1>2 DEF Reg
<1>8. q.counter \in NamcoChannels
  <2>1. Reg(s, 0, 7) \in Bytes
    <3>1. <<0, 7>> \in Cells
      BY NamcoCells
    <3>2. 0 \in Bytes
      BY NamcoAssumption DEF Bytes
    <3>. QED
      BY <1>1, <3>1, <3>2 DEF Reg
  <2>2. s.limit \in 1 .. TopChannel + 1
    BY <1>3, <2>1, NamcoBytesAre
  <2>. QED
    BY <1>2, <1>3, <2>2, NamcoAssumption DEF NamcoChannels
<1>9. q.prev \in Int /\ q.divider \in Int
  BY <1>1, <1>2, NamcoAssumption
<1>10. NamcoAsWritten(q)
  BY <1>1, <1>2, <1>6, <1>7, <1>8 DEF NamcoAsWritten
<1>11. NamcoSays(q)
  BY <1>1, <1>2, <1>6, <1>9, <1>10 DEF NamcoSays
<1>. QED
  BY <1>11 DEF q

\* Nor does a run, or a frame.
LEMMA NamcoRunSays ==
    ASSUME NEW s0, NamcoSays(s0), NEW t \in Int
    PROVE  NamcoSays(RunNamco(s0, t)) /\ NamcoSays(NamcoFrame(s0, t))
<1>. DEFINE due == s0.divider + ((t - s0.prev) % NamcoStamp)
            steps == IF due < 0 THEN 0 ELSE (due \div NamcoCycles) + 1
            s == [s0 EXCEPT !.divider = @ + ((t - s0.prev) % NamcoStamp), !.prev = t]
            F == NamcoCourseOf(s, steps)
            good == {n \in 0 .. steps : NamcoSays(F[n])}
            f == NamcoFrame(s0, t)
<1>0. Has(s0, NamcoFields) /\ s0.prev \in Int /\ s0.divider \in Int
  BY DEF NamcoSays
<1>1. due \in Int /\ steps \in Nat
  BY <1>0, NamcoAssumption
<1>2. /\ Has(s, NamcoFields) /\ s.wf = s0.wf /\ s.ch = s0.ch /\ s.limit = s0.limit
      /\ s.counter = s0.counter /\ s.divider = due /\ s.prev = t
  BY <1>0 DEF Has, NamcoFields
<1>3. RunNamco(s0, t) = F[steps]
  <2>1. steps = IF s.divider < 0 THEN 0 ELSE (s.divider \div NamcoCycles) + 1
    <3>. HIDE DEF s, due
    <3>. QED
      BY <1>2
  <2>2. RunNamco(s0, t) = NamcoCourseOf(s, IF s.divider < 0 THEN 0 ELSE (s.divider \div NamcoCycles) + 1)
                [IF s.divider < 0 THEN 0 ELSE (s.divider \div NamcoCycles) + 1]
    BY Zenon DEF RunNamco, NamcoCourseOf
  <2>. HIDE DEF s, due, steps
  <2>. QED
    BY <2>1, <2>2
<1>4. NamcoSays(f)
  <2>1. /\ Has(f, NamcoFields) /\ f.wf = s0.wf /\ f.ch = s0.ch /\ f.limit = s0.limit
        /\ f.counter = s0.counter /\ f.divider = s0.divider /\ f.prev = s0.prev - t
    BY <1>0 DEF Has, NamcoFields, NamcoFrame
  <2>. HIDE DEF f
  <2>2. f.prev \in Int
    BY <1>0, <2>1
  <2>. QED
    BY <2>1, <2>2 DEF NamcoSays, NamcoAsWritten, Reg
<1>. HIDE DEF due, steps, s
<1>5. NamcoSays(s)
  BY <1>1, <1>2 DEF NamcoSays, NamcoAsWritten, Reg
<1>6. F[0] = s /\ \A n \in 1 .. steps : F[n] = NamcoStep(F[n - 1])
  BY <1>1, NamcoCourse
<1>. HIDE DEF F
<1>7. 0 \in good
  BY <1>1, <1>5, <1>6
<1>8. ASSUME NEW n \in 0 .. steps, n # 0, n - 1 \in good PROVE n \in good
  BY <1>1, <1>6, <1>8, NamcoStepSays
<1>. HIDE DEF good
<1>9. steps \in good
  <2>1. 0 .. steps \subseteq good
    BY <1>1, <1>7, <1>8, UpToBound
  <2>. QED
    BY <1>1, <2>1
<1>. QED
  BY <1>3, <1>4, <1>9 DEF good

\* The bytes of a number of three, and what SetByte makes of it.
LEMMA ThreeBytes ==
    ASSUME NEW x \in Bytes, NEW y \in Bytes, NEW z \in 0 .. 3, NEW b \in Bytes
    PROVE  LET n == x + NamcoByte * (y + NamcoByte * z)
           IN /\ SetByte(n, 1, b) = b + NamcoByte * (y + NamcoByte * z)
              /\ SetByte(n, Mid, b) = x + NamcoByte * (b + NamcoByte * z)
              /\ \A c \in 0 .. 3 : SetByte(n, High, c) = x + NamcoByte * (y + NamcoByte * c)
<1>. DEFINE B == NamcoByte
            h == y + B * z
            n == x + B * h
<1>1. B \in Nat \ {0} /\ B >= 4 /\ x \in 0 .. B - 1 /\ y \in 0 .. B - 1 /\ z \in 0 .. B - 1 /\ b \in 0 .. B - 1
  BY NamcoAssumption DEF Bytes
<1>2. h \in Nat /\ n \in Nat
  BY <1>1
<1>3. n \div B = h /\ n % B = x
  <2>1. n = B * h + x
    BY <1>1, <1>2
  <2>. HIDE DEF n, h, B
  <2>. QED
    BY <1>1, <1>2, <2>1, DivModUnique
<1>4. h \div B = z /\ h % B = y
  <2>1. h = B * z + y /\ z \in Int /\ B \in Nat \ {0} /\ y \in 0 .. B - 1
    BY <1>1, <1>2
  <2>. HIDE DEF h, B
  <2>2. (B * z + y) \div B = z /\ (B * z + y) % B = y
    BY <2>1, DivModUnique
  <2>. QED
    BY <2>1, <2>2
<1>5. n \div (B * B) = z /\ z % B = z
  <2>. DEFINE r == x + B * y
              BB == B * B
  <2>1. n = BB * z + r
    <3>1. B * (B * z) = (B * B) * z
      BY <1>1
    <3>2. B * h = B * y + B * (B * z)
      BY <1>1
    <3>. QED
      BY <1>1, <3>1, <3>2
  <2>2. B * y <= B * (B - 1)
    BY <1>1
  <2>3. B * (B - 1) = B * B - B
    BY <1>1
  <2>4. r \in 0 .. BB - 1 /\ BB \in Nat \ {0}
    <3>1. B * y \in Nat /\ B * B \in Nat /\ B * B >= B
      BY <1>1
    <3>. QED
      BY <1>1, <2>2, <2>3, <3>1
  <2>. HIDE DEF n, r, BB
  <2>5. n \div BB = z
    BY <1>1, <2>1, <2>4, DivModUnique
  <2>6. z % B = z
    <3>. HIDE DEF B
    <3>. QED
      BY <1>1, ModSmall
  <2>. QED
    BY <2>5, <2>6 DEF BB
<1>6. n \div 1 = n
  BY <1>2
<1>7. SetByte(n, 1, b) = b + B * h
  <2>1. SetByte(n, 1, b) = n + (b - x) * 1
    BY <1>3, <1>6 DEF SetByte
  <2>. QED
    BY <1>1, <1>2, <2>1
<1>8. SetByte(n, Mid, b) = x + B * (b + B * z)
  <2>1. SetByte(n, Mid, b) = n + (b - y) * B
    BY <1>3, <1>4 DEF SetByte, Mid
  <2>2. B * h = B * y + B * (B * z) /\ B * (b + B * z) = B * b + B * (B * z)
    BY <1>1
  <2>3. (b - y) * B = B * b - B * y
    BY <1>1
  <2>. QED
    BY <1>1, <2>1, <2>2, <2>3
<1>9. ASSUME NEW c \in 0 .. 3 PROVE SetByte(n, High, c) = x + B * (y + B * c)
  <2>1. SetByte(n, High, c) = n + (c - z) * (B * B)
    BY <1>5 DEF SetByte, High
  <2>2. B * h = B * y + (B * B) * z /\ B * (y + B * c) = B * y + (B * B) * c
    BY <1>1
  <2>3. (c - z) * (B * B) = (B * B) * c - (B * B) * z
    <3>1. B * B \in Int
      BY <1>1
    <3>. DEFINE BB == B * B
    <3>. HIDE DEF BB
    <3>2. (c - z) * BB = BB * c - BB * z
      BY <3>1 DEF BB
    <3>. QED
      BY <3>2 DEF BB
  <2>. QED
    BY <1>1, <2>1, <2>2, <2>3
<1>. QED
  BY <1>7, <1>8, <1>9

\* A channel as the memory says, of the values of its registers.
Decoded(c, r) ==
    /\ c.inc = r[0] + NamcoByte * (r[2] + NamcoByte * (r[4] % 4))
    /\ c.length = Length(r[4]) /\ c.offs = r[6] /\ c.volume = r[7] % VolRange

\* A byte that is written is decoded into a channel.
LEMMA DecodeSays ==
    ASSUME NEW c \in Channel, NEW r \in [NamcoRegs -> Bytes], Decoded(c, r),
           NEW reg \in NamcoRegs, NEW b \in Bytes
    PROVE  Decode(c, reg, b) \in Channel /\ Decoded(Decode(c, reg, b), [r EXCEPT ![reg] = b])
<1>. DEFINE q == Decode(c, reg, b)
            B == NamcoByte
            d == [r EXCEPT ![reg] = b]
<1>1. /\ 0 \in NamcoRegs /\ 2 \in NamcoRegs /\ 4 \in NamcoRegs /\ 6 \in NamcoRegs /\ 7 \in NamcoRegs
      /\ reg \in {0, 1, 2, 3, 4, 5, 6, 7}
  BY DEF NamcoRegs
<1>2. r[0] \in Bytes /\ r[2] \in Bytes /\ r[4] % 4 \in 0 .. 3 /\ b % 4 \in 0 .. 3
  BY <1>1, NamcoBytesAre
<1>3. /\ SetByte(c.inc, 1, b) = b + B * (r[2] + B * (r[4] % 4))
      /\ SetByte(c.inc, Mid, b) = r[0] + B * (b + B * (r[4] % 4))
      /\ SetByte(c.inc, High, b % 4) = r[0] + B * (r[2] + B * (b % 4))
  BY <1>2, ThreeBytes DEF Decoded
<1>4. \A x \in Bytes, y \in Bytes, z \in 0 .. 3 : x + B * (y + B * z) \in Nat
  BY NamcoAssumption DEF Bytes
<1>5. \A unit \in {1, Mid, High} : SetByte(c.ph, unit, b) \in Int
  <2>. SUFFICES ASSUME NEW unit \in {1, Mid, High} PROVE SetByte(c.ph, unit, b) \in Int
    OBVIOUS
  <2>1. unit \in Nat \ {0} /\ c.ph \in Int /\ b \in Int /\ B \in Nat \ {0}
    BY NamcoAssumption DEF Mid, High, Channel, Bytes
  <2>. DEFINE x == c.ph \div unit
  <2>2. x \in Int
    BY <2>1
  <2>3. SetByte(c.ph, unit, b) = c.ph + (b - (x % B)) * unit
    BY DEF SetByte
  <2>. HIDE DEF x, B
  <2>4. b - (x % B) \in Int
    BY <2>1, <2>2
  <2>. DEFINE y == b - (x % B)
  <2>. HIDE DEF y
  <2>5. y * unit \in Int
    BY <2>1, <2>4 DEF y
  <2>. QED
    BY <2>1, <2>3, <2>5 DEF y
<1>6. /\ c = [ph |-> c.ph, inc |-> c.inc, length |-> c.length, offs |-> c.offs, volume |-> c.volume]
      /\ c.ph \in Int /\ c.inc \in Nat /\ c.length \in Nat /\ c.offs \in Bytes /\ c.volume \in Nat
  BY DEF Channel
<1>7. CASE reg = 0
  <2>1. q = [c EXCEPT !.inc = SetByte(@, 1, b)]
    BY <1>7 DEF Decode
  <2>2. SetByte(c.inc, 1, b) \in Nat
    BY <1>2, <1>3, <1>4
  <2>. HIDE DEF q
  <2>3. q \in Channel /\ q.inc = SetByte(c.inc, 1, b) /\ q.length = c.length /\ q.offs = c.offs /\ q.volume = c.volume
    BY <1>6, <2>1, <2>2 DEF Channel
  <2>4. Decoded(q, d)
    BY <1>1, <1>3, <1>7, <2>3 DEF Decoded
  <2>. QED
    BY <2>3, <2>4 DEF q
<1>8. CASE reg \in {1, 3, 5}
  <2>1. PICK unit \in {1, Mid, High} : q = [c EXCEPT !.ph = SetByte(@, unit, b)]
    BY <1>8 DEF Decode
  <2>2. SetByte(c.ph, unit, b) \in Int
    BY <1>5
  <2>. HIDE DEF q
  <2>3. q \in Channel /\ q.inc = c.inc /\ q.length = c.length /\ q.offs = c.offs /\ q.volume = c.volume
    BY <1>6, <2>1, <2>2 DEF Channel
  <2>4. Decoded(q, d)
    BY <1>1, <1>8, <2>3 DEF Decoded
  <2>. QED
    BY <2>3, <2>4 DEF q
<1>9. CASE reg = 2
  <2>1. q = [c EXCEPT !.inc = SetByte(@, Mid, b)]
    BY <1>9 DEF Decode
  <2>2. SetByte(c.inc, Mid, b) \in Nat
    BY <1>2, <1>3, <1>4
  <2>. HIDE DEF q
  <2>3. q \in Channel /\ q.inc = SetByte(c.inc, Mid, b) /\ q.length = c.length /\ q.offs = c.offs /\ q.volume = c.volume
    BY <1>6, <2>1, <2>2 DEF Channel
  <2>4. Decoded(q, d)
    BY <1>1, <1>3, <1>9, <2>3 DEF Decoded
  <2>. QED
    BY <2>3, <2>4 DEF q
<1>10. CASE reg = 4
  <2>1. q = [c EXCEPT !.inc = SetByte(@, High, b % 4), !.length = Length(b)]
    BY <1>10 DEF Decode
  <2>2. SetByte(c.inc, High, b % 4) \in Nat /\ Length(b) \in Nat
    BY <1>2, <1>3, <1>4, NamcoBytesAre
  <2>. HIDE DEF q
  <2>3. q \in Channel /\ q.inc = SetByte(c.inc, High, b % 4) /\ q.length = Length(b) /\ q.offs = c.offs /\ q.volume = c.volume
    BY <1>6, <2>1, <2>2 DEF Channel
  <2>4. Decoded(q, d)
    BY <1>1, <1>3, <1>10, <2>3 DEF Decoded
  <2>. QED
    BY <2>3, <2>4 DEF q
<1>11. CASE reg = 6
  <2>1. q = [c EXCEPT !.offs = b]
    BY <1>11 DEF Decode
  <2>. HIDE DEF q
  <2>3. q \in Channel /\ q.inc = c.inc /\ q.length = c.length /\ q.offs = b /\ q.volume = c.volume
    BY <1>6, <2>1 DEF Channel
  <2>4. Decoded(q, d)
    BY <1>1, <1>11, <2>3 DEF Decoded
  <2>. QED
    BY <2>3, <2>4 DEF q
<1>12. CASE reg = 7
  <2>1. q = [c EXCEPT !.volume = b % VolRange]
    BY <1>12 DEF Decode
  <2>2. b % VolRange \in Nat
    BY NamcoBytesAre
  <2>. HIDE DEF q
  <2>3. q \in Channel /\ q.inc = c.inc /\ q.length = c.length /\ q.offs = c.offs /\ q.volume = b % VolRange
    BY <1>6, <2>1, <2>2 DEF Channel
  <2>4. Decoded(q, d)
    BY <1>1, <1>12, <2>3 DEF Decoded
  <2>. QED
    BY <2>3, <2>4 DEF q
<1>. QED
  BY <1>1, <1>7, <1>8, <1>9, <1>10, <1>11, <1>12

\* A byte of the memory that is written.
LEMMA SetCellSays ==
    ASSUME NEW s, NamcoSays(s), NEW a \in Cells, NEW b \in Bytes
    PROVE  NamcoSays(SetCell(s, a, b))
<1>. DEFINE q == SetCell(s, a, b)
            R(c) == [reg \in NamcoRegs |-> Reg(s, c, reg)]
<1>1. /\ Has(s, NamcoFields) /\ s.prev \in Int /\ s.divider \in Int /\ NamcoAsWritten(s)
      /\ s.wf \in [Cells -> Bytes \cup {Unwritten}] /\ s.ch \in [NamcoChannels -> Channel]
  BY DEF NamcoSays
<1>2. /\ 0 \in NamcoRegs /\ 2 \in NamcoRegs /\ 4 \in NamcoRegs /\ 6 \in NamcoRegs /\ 7 \in NamcoRegs
      /\ 0 \in NamcoChannels
  BY NamcoAssumption DEF NamcoRegs, NamcoChannels
<1>3. ASSUME NEW c \in NamcoChannels PROVE R(c) \in [NamcoRegs -> Bytes] /\ Decoded(s.ch[c], R(c))
  <2>1. ASSUME NEW reg \in NamcoRegs PROVE Reg(s, c, reg) \in Bytes
    BY <1>1, NamcoCells, NamcoBytesAre DEF Reg
  <2>. QED
    BY <1>1, <1>2, <2>1 DEF Decoded, NamcoAsWritten
<1>4. /\ Has(q, NamcoFields) /\ q.wf = [s.wf EXCEPT ![a] = b] /\ q.prev = s.prev /\ q.divider = s.divider
      /\ q.counter = s.counter
      /\ q.ch = IF a \in WaveCells THEN s.ch ELSE [s.ch EXCEPT ![a[1]] = Decode(@, a[2], b)]
      /\ q.limit = IF a \notin WaveCells /\ a = <<0, 7>> THEN Limit(b) ELSE s.limit
  BY <1>1 DEF SetCell, Has, NamcoFields
<1>. HIDE DEF q
<1>5. ASSUME NEW c \in NamcoChannels, NEW reg \in NamcoRegs
      PROVE  Reg(q, c, reg) = IF a = <<c, reg>> THEN b ELSE R(c)[reg]
  BY <1>1, <1>4, NamcoCells, NamcoBytesAre DEF Reg
<1>6. q.wf \in [Cells -> Bytes \cup {Unwritten}]
  BY <1>1, <1>4
<1>7. ASSUME NEW c \in NamcoChannels
      PROVE  /\ q.ch[c] \in Channel /\ Decoded(q.ch[c], [reg \in NamcoRegs |-> Reg(q, c, reg)])
  <2>1. CASE a \in WaveCells \/ a[1] # c
    <3>1. q.ch[c] = s.ch[c]
      BY <1>1, <1>4, <2>1
    <3>2. \A reg \in NamcoRegs : a # <<c, reg>>
      BY <2>1, NamcoCells
    <3>3. [reg \in NamcoRegs |-> Reg(q, c, reg)] = R(c)
      BY <1>5, <3>2
    <3>. QED
      BY <1>1, <1>3, <3>1, <3>3
  <2>2. CASE a \notin WaveCells /\ a[1] = c
    <3>1. a[2] \in NamcoRegs /\ a = <<c, a[2]>>
      BY <2>2, NamcoCells
    <3>2. q.ch[c] = Decode(s.ch[c], a[2], b)
      BY <1>1, <1>4, <2>2
    <3>3. [reg \in NamcoRegs |-> Reg(q, c, reg)] = [R(c) EXCEPT ![a[2]] = b]
      <4>1. \A reg \in NamcoRegs : Reg(q, c, reg) = IF reg = a[2] THEN b ELSE R(c)[reg]
        BY <1>5, <3>1
      <4>. QED
        BY <3>1, <4>1
    <3>4. R(c) \in [NamcoRegs -> Bytes] /\ Decoded(s.ch[c], R(c)) /\ s.ch[c] \in Channel
      BY <1>1, <1>3
    <3>. HIDE DEF R
    <3>. QED
      BY <3>1, <3>2, <3>3, <3>4, DecodeSays
  <2>. QED
    BY <2>1, <2>2
<1>8. q.ch \in [NamcoChannels -> Channel]
  <2>1. DOMAIN q.ch = NamcoChannels /\ q.ch = [c \in NamcoChannels |-> q.ch[c]]
    BY <1>1, <1>4
  <2>. QED
    BY <1>7, <2>1
<1>9. q.limit = Limit(Reg(q, 0, 7)) /\ q.counter \in NamcoChannels
  <2>1. Reg(q, 0, 7) = IF a = <<0, 7>> THEN b ELSE Reg(s, 0, 7)
    BY <1>2, <1>5
  <2>2. <<0, 7>> \notin WaveCells
    BY <1>2, NamcoCells
  <2>. QED
    BY <1>1, <1>4, <2>1, <2>2 DEF NamcoAsWritten
<1>10. NamcoAsWritten(q)
  <2>1. ASSUME NEW c \in NamcoChannels
        PROVE  /\ q.ch[c].inc = Reg(q, c, 0) + NamcoByte * (Reg(q, c, 2) + NamcoByte * (Reg(q, c, 4) % 4))
               /\ q.ch[c].length = Length(Reg(q, c, 4))
               /\ q.ch[c].offs = Reg(q, c, 6) /\ q.ch[c].volume = Reg(q, c, 7) % VolRange
    BY <1>2, <1>7 DEF Decoded
  <2>. QED
    BY <1>9, <2>1 DEF NamcoAsWritten
<1>11. NamcoSays(q)
  BY <1>1, <1>4, <1>6, <1>8, <1>10 DEF NamcoSays
<1>. QED
  BY <1>11 DEF q

\* No byte was written yet.
LEMMA NamcoPowerSays == NamcoSays(PowerNamco)
<1>. DEFINE s == PowerNamco
<1>1. /\ Has(s, NamcoFields) /\ s.wf = [a \in Cells |-> Unwritten]
      /\ s.ch = [c \in NamcoChannels |-> [ph |-> 0, inc |-> 0, length |-> 0, offs |-> 0, volume |-> 0]]
      /\ s.counter = 0 /\ s.limit = 1 /\ s.divider = 0 /\ s.prev = 0
  BY DEF Has, NamcoFields, PowerNamco
<1>. HIDE DEF s
<1>2. /\ NamcoByte \in Nat /\ NamcoByte >= 4 /\ NamcoByte % 4 = 0 /\ TopChannel \in Nat /\ VolRange \in Nat \ {0}
  BY NamcoAssumption
<1>3. 0 \in Bytes
  BY <1>2 DEF Bytes
<1>4. s.ch \in [NamcoChannels -> Channel] /\ s.wf \in [Cells -> Bytes \cup {Unwritten}]
  BY <1>1, <1>3 DEF Channel
<1>5. ASSUME NEW c \in NamcoChannels, NEW reg \in NamcoRegs PROVE Reg(s, c, reg) = 0
  BY <1>1, NamcoCells DEF Reg
<1>6. /\ 0 \in NamcoRegs /\ 2 \in NamcoRegs /\ 4 \in NamcoRegs /\ 6 \in NamcoRegs /\ 7 \in NamcoRegs
      /\ 0 \in NamcoChannels
  BY <1>2 DEF NamcoRegs, NamcoChannels
<1>7. 0 % 4 = 0 /\ 0 % VolRange = 0 /\ 0 + NamcoByte * (0 + NamcoByte * 0) = 0
  BY <1>2
<1>8. Length(0) = 0
  <2>1. (NamcoByte - 4 * (0 \div 4)) = NamcoByte
    BY <1>2
  <2>2. Phase \in Nat \ {0} /\ Phase = NamcoByte * NamcoByte * NamcoByte
    BY <1>2 DEF Phase
  <2>3. Phase % Phase = 0
    <3>1. Phase * 1 + 0 = Phase /\ 0 \in 0 .. Phase - 1
      BY <2>2
    <3>. QED
      BY <2>2, <3>1, DivModUnique
  <2>. QED
    BY <2>1, <2>2, <2>3 DEF Length
<1>9. Limit(0) = 1
  <2>1. 0 \div VolRange = 0 /\ 0 % (TopChannel + 1) = 0
    BY <1>2
  <2>. QED
    BY <2>1 DEF Limit
<1>10. NamcoAsWritten(s)
  BY <1>1, <1>5, <1>6, <1>7, <1>8, <1>9 DEF NamcoAsWritten
<1>11. NamcoSays(s)
  BY <1>1, <1>4, <1>10 DEF NamcoSays
<1>. QED
  BY <1>11 DEF s

VrcFields == {"on", "period", "cur", "mode", "flat", "delay", "changed", "ph", "volume", "pending",
              "accum", "target", "base", "offs", "level", "heard"}
IsVrc(s) == Has(s, VrcFields) /\ s.period \in [Voices -> Nat] /\ s.cur \in [Voices -> Nat \cup {NoPeriod}]

\* What an operation leaves alone: the saw's accumulator, the periods, the rest.
SawSame(q, s) ==
    /\ q.ph = s.ph /\ q.volume = s.volume /\ q.pending = s.pending
    /\ q.accum = s.accum /\ q.target = s.target /\ q.level = s.level
PeriodsSame(q, s) ==
    /\ q.on = s.on /\ q.period = s.period /\ q.cur = s.cur /\ q.delay = s.delay
RestSame(q, s) == q.base = s.base /\ q.offs = s.offs /\ q.heard = s.heard /\ q.changed = s.changed

\* Operations that have nothing to do with periods, and those that have.
LEMMA VrcFieldsOf ==
    ASSUME NEW s, IsVrc(s), NEW v, NEW x
    PROVE  /\ LET q == ApplyVolume(s) IN IsVrc(q) /\ PeriodsSame(q, s) /\ RestSame(q, s)
           /\ \A h : LET q == [s EXCEPT !.heard = h]
                     IN IsVrc(q) /\ PeriodsSame(q, s) /\ SawSame(q, s) /\ q.heard = h /\ q.base = s.base
                        /\ q.offs = s.offs /\ q.changed = s.changed
           /\ \A o : LET q == [s EXCEPT !.offs = o]
                     IN IsVrc(q) /\ PeriodsSame(q, s) /\ SawSame(q, s) /\ q.heard = s.heard
                        /\ q.base = s.base /\ q.offs = o /\ q.changed = s.changed
           /\ LET q == MoveSaw(s) IN IsVrc(q) /\ PeriodsSame(q, s) /\ RestSame(q, s)
           /\ \A p, mode : LET q == SetDuty(s, p, mode)
                     IN IsVrc(q) /\ PeriodsSame(q, s) /\ SawSame(q, s) /\ RestSame(q, s)
           /\ \A volume : LET q == SetSawRate(s, volume)
                     IN /\ IsVrc(q) /\ PeriodsSame(q, s) /\ RestSame(q, s) /\ q.ph = s.ph
                        /\ q.volume = volume /\ q.pending /\ q.accum = s.accum /\ q.target = s.target
                        /\ q.level = s.level
<1>1. LET q == ApplyVolume(s) IN IsVrc(q) /\ PeriodsSame(q, s) /\ RestSame(q, s)
  BY DEF IsVrc, Has, VrcFields, PeriodsSame, RestSame, ApplyVolume
<1>2. ASSUME NEW h
      PROVE  LET q == [s EXCEPT !.heard = h]
             IN IsVrc(q) /\ PeriodsSame(q, s) /\ SawSame(q, s) /\ q.heard = h /\ q.base = s.base
                /\ q.offs = s.offs /\ q.changed = s.changed
  BY DEF IsVrc, Has, VrcFields, PeriodsSame, SawSame
<1>3. ASSUME NEW o
      PROVE  LET q == [s EXCEPT !.offs = o]
             IN IsVrc(q) /\ PeriodsSame(q, s) /\ SawSame(q, s) /\ q.heard = s.heard
                /\ q.base = s.base /\ q.offs = o /\ q.changed = s.changed
  BY DEF IsVrc, Has, VrcFields, PeriodsSame, SawSame
<1>4. LET q == MoveSaw(s) IN IsVrc(q) /\ PeriodsSame(q, s) /\ RestSame(q, s)
  BY DEF IsVrc, Has, VrcFields, PeriodsSame, RestSame, MoveSaw
<1>5. ASSUME NEW p, NEW mode
      PROVE  LET q == SetDuty(s, p, mode)
             IN IsVrc(q) /\ PeriodsSame(q, s) /\ SawSame(q, s) /\ RestSame(q, s)
  <2>. DEFINE d == [s EXCEPT !.mode[p] = mode]
              q == SetDuty(s, p, mode)
  <2>1. IsVrc(d) /\ PeriodsSame(d, s) /\ SawSame(d, s) /\ RestSame(d, s)
    BY DEF IsVrc, Has, VrcFields, PeriodsSame, SawSame, RestSame
  <2>2. q = [d EXCEPT !.flat[p] = d.mode[p]]
    BY DEF SetDuty, DutyChanged
  <2>. HIDE DEF d, q
  <2>3. IsVrc(q) /\ PeriodsSame(q, d) /\ SawSame(q, d) /\ RestSame(q, d)
    BY <2>1, <2>2 DEF IsVrc, Has, VrcFields, PeriodsSame, SawSame, RestSame
  <2>4. IsVrc(q) /\ PeriodsSame(q, s) /\ SawSame(q, s) /\ RestSame(q, s)
    BY <2>1, <2>3 DEF PeriodsSame, SawSame, RestSame
  <2>. QED
    BY <2>4 DEF q
<1>6. ASSUME NEW volume
      PROVE  LET q == SetSawRate(s, volume)
             IN /\ IsVrc(q) /\ PeriodsSame(q, s) /\ RestSame(q, s) /\ q.ph = s.ph
                /\ q.volume = volume /\ q.pending /\ q.accum = s.accum /\ q.target = s.target
                /\ q.level = s.level
  BY DEF IsVrc, Has, VrcFields, PeriodsSame, RestSame, SetSawRate
<1>. QED
  BY <1>1, <1>2, <1>3, <1>4, <1>5, <1>6

\* A change that waits.
Waits(s, v, x) == x % Sample >= Sample \div 2 /\ (x - s.changed[v]) % Fxp > Sample \div 2
DelayAfter(s, v, x) == IF Waits(s, v, x) THEN s.delay \cup {v} ELSE s.delay
CurAfter(s, v, x, p) ==
    IF Waits(s, v, x) \/ v \in s.delay THEN s.cur ELSE [s.cur EXCEPT ![v] = p]

\* A period is worked out.
LEMMA PeriodChangedFields ==
    ASSUME NEW s, IsVrc(s), NEW v \in Voices
    PROVE  LET q == PeriodChanged(s, v)
           IN /\ IsVrc(q) /\ SawSame(q, s) /\ RestSame(q, s) /\ q.on = s.on /\ q.period = s.period
              /\ q.delay = s.delay /\ q.cur = [s.cur EXCEPT ![v] = s.period[v]]
<1>. DEFINE q == PeriodChanged(s, v)
<1>1. /\ Has(q, VrcFields) /\ SawSame(q, s) /\ RestSame(q, s) /\ q.on = s.on /\ q.period = s.period
      /\ q.delay = s.delay /\ q.cur = [s.cur EXCEPT ![v] = s.period[v]]
  BY DEF IsVrc, Has, VrcFields, SawSame, RestSame, PeriodChanged
<1>. HIDE DEF q
<1>2. IsVrc(q)
  BY <1>1 DEF IsVrc
<1>. QED
  BY <1>1, <1>2 DEF q

\* A change of the period, at once or after the sample.
LEMMA ChangeFields ==
    ASSUME NEW s, IsVrc(s), NEW v \in Voices, NEW x
    PROVE  LET q == Change(s, v, x)
           IN /\ IsVrc(q) /\ SawSame(q, s) /\ RestSame(q, s) /\ q.on = s.on /\ q.period = s.period
              /\ q.delay = DelayAfter(s, v, x) /\ q.cur = CurAfter(s, v, x, s.period[v])
<1>1. CASE Waits(s, v, x)
  <2>1. Change(s, v, x) = [s EXCEPT !.delay = @ \cup {v}]
    BY <1>1 DEF Waits, Change
  <2>. DEFINE q == [s EXCEPT !.delay = @ \cup {v}]
  <2>2. /\ IsVrc(q) /\ SawSame(q, s) /\ RestSame(q, s) /\ q.on = s.on /\ q.period = s.period
        /\ q.delay = s.delay \cup {v} /\ q.cur = s.cur
    BY DEF IsVrc, Has, VrcFields, SawSame, RestSame
  <2>. HIDE DEF q
  <2>. QED
    BY <1>1, <2>1, <2>2 DEF DelayAfter, CurAfter, q
<1>2. CASE ~Waits(s, v, x) /\ v \in s.delay
  <2>1. Change(s, v, x) = s
    BY <1>2 DEF Waits, Change
  <2>. QED
    BY <1>2, <2>1 DEF DelayAfter, CurAfter, SawSame, RestSame
<1>3. CASE ~Waits(s, v, x) /\ v \notin s.delay
  <2>1. Change(s, v, x) = PeriodChanged(s, v)
    BY <1>3 DEF Waits, Change
  <2>. QED
    BY <1>3, <2>1, PeriodChangedFields DEF DelayAfter, CurAfter
<1>. QED
  BY <1>1, <1>2, <1>3

\* The period is written.
LEMMA NewPeriodFields ==
    ASSUME NEW s, IsVrc(s), NEW v \in Voices, NEW p \in Nat
    PROVE  LET q == [s EXCEPT !.period[v] = p]
           IN /\ IsVrc(q) /\ SawSame(q, s) /\ RestSame(q, s) /\ q.on = s.on /\ q.cur = s.cur
              /\ q.delay = s.delay /\ q.period = [s.period EXCEPT ![v] = p] /\ q.period[v] = p
<1>. DEFINE q == [s EXCEPT !.period[v] = p]
<1>1. /\ Has(q, VrcFields) /\ SawSame(q, s) /\ RestSame(q, s) /\ q.on = s.on /\ q.cur = s.cur
      /\ q.delay = s.delay /\ q.period = [s.period EXCEPT ![v] = p]
  BY DEF IsVrc, Has, VrcFields, SawSame, RestSame
<1>. HIDE DEF q
<1>2. IsVrc(q) /\ q.period[v] = p
  BY <1>1 DEF IsVrc
<1>. QED
  BY <1>1, <1>2 DEF q

\* And its time noted.
LEMMA NotedFields ==
    ASSUME NEW s, IsVrc(s), NEW v, NEW x
    PROVE  LET q == [s EXCEPT !.changed[v] = x]
           IN /\ IsVrc(q) /\ SawSame(q, s) /\ PeriodsSame(q, s) /\ q.heard = s.heard
              /\ q.base = s.base /\ q.offs = s.offs /\ q.changed = [s.changed EXCEPT ![v] = x]
BY DEF IsVrc, Has, VrcFields, SawSame, PeriodsSame

LowOf(s, v, b) == (s.period[v] \div VrcByte) * VrcByte + b
HighOf(s, v, h) == (s.period[v] % VrcByte) + h * VrcByte

\* The low byte makes the period p.
LowMade(q, s, v, x, p) ==
    /\ p \in Nat /\ IsVrc(q) /\ SawSame(q, s) /\ q.on = s.on /\ q.heard = s.heard
    /\ q.base = s.base /\ q.offs = s.offs
    /\ IF p = s.period[v] THEN q = s
       ELSE /\ q.period = [s.period EXCEPT ![v] = p]
            /\ q.delay = DelayAfter(s, v, x) /\ q.cur = CurAfter(s, v, x, p)
            /\ q.changed = IF v = "saw" THEN [s.changed EXCEPT ![v] = x] ELSE s.changed

LEMMA SetLowFields ==
    ASSUME NEW s, IsVrc(s), NEW v \in Voices, NEW x, NEW b \in Nat
    PROVE  LowMade(SetLow(s, v, x, b), s, v, x, LowOf(s, v, b))
<1>. DEFINE q == SetLow(s, v, x, b)
            p == LowOf(s, v, b)
            set == [s EXCEPT !.period[v] = p]
            new == Change(set, v, x)
            noted == [new EXCEPT !.changed[v] = x]
<1>1. p \in Nat
  <2>1. s.period[v] \in Nat /\ VrcByte \in Nat \ {0}
    BY VrcAssumption DEF IsVrc
  <2>. DEFINE y == s.period[v]
  <2>2. y \in Nat
    BY <2>1
  <2>. HIDE DEF y
  <2>3. y \div VrcByte \in Nat
    BY <2>1, <2>2
  <2>4. (y \div VrcByte) * VrcByte \in Nat
    BY <2>1, <2>3
  <2>. QED
    BY <2>4 DEF y, LowOf
<1>2. q = IF p = s.period[v] THEN s ELSE IF v = "saw" THEN noted ELSE new
  BY DEF SetLow, LowOf
<1>. HIDE DEF q, p
<1>3. /\ IsVrc(set) /\ SawSame(set, s) /\ RestSame(set, s) /\ set.on = s.on /\ set.cur = s.cur
      /\ set.delay = s.delay /\ set.period = [s.period EXCEPT ![v] = p] /\ set.period[v] = p
  BY <1>1, NewPeriodFields
<1>. HIDE DEF set
<1>4. /\ IsVrc(new) /\ SawSame(new, set) /\ RestSame(new, set) /\ new.on = set.on
      /\ new.period = set.period
      /\ new.delay = DelayAfter(set, v, x) /\ new.cur = CurAfter(set, v, x, p)
  <2>1. /\ IsVrc(new) /\ SawSame(new, set) /\ RestSame(new, set) /\ new.on = set.on
        /\ new.period = set.period /\ new.delay = DelayAfter(set, v, x)
        /\ new.cur = CurAfter(set, v, x, set.period[v])
    <3>1. IsVrc(set)
      BY <1>3
    <3>. QED
      BY <3>1, ChangeFields, ZenonT(20)
  <2>2. set.period[v] = p
    BY <1>3
  <2>. HIDE DEF new
  <2>. QED
    BY <2>1, <2>2
<1>5. DelayAfter(set, v, x) = DelayAfter(s, v, x) /\ CurAfter(set, v, x, p) = CurAfter(s, v, x, p)
  BY <1>3 DEF DelayAfter, CurAfter, Waits, RestSame
<1>. HIDE DEF new
<1>6. /\ IsVrc(noted) /\ SawSame(noted, new) /\ PeriodsSame(noted, new) /\ noted.heard = new.heard
      /\ noted.base = new.base /\ noted.offs = new.offs
      /\ noted.changed = [new.changed EXCEPT ![v] = x]
  BY <1>4, NotedFields
<1>. HIDE DEF noted
<1>7. /\ SawSame(new, s) /\ RestSame(new, s) /\ new.on = s.on /\ SawSame(noted, s)
      /\ new.period = [s.period EXCEPT ![v] = p] /\ new.delay = DelayAfter(s, v, x)
      /\ new.cur = CurAfter(s, v, x, p)
  BY <1>3, <1>4, <1>5, <1>6 DEF SawSame, RestSame
<1>8. LowMade(q, s, v, x, p)
  <2>1. CASE p = s.period[v]
    BY <1>1, <1>2, <2>1 DEF SawSame, LowMade
  <2>2. CASE p # s.period[v] /\ v = "saw"
    <3>1. q = noted
      BY <1>2, <2>2
    <3>. QED
      BY <1>1, <1>6, <1>7, <2>2, <3>1 DEF PeriodsSame, RestSame, LowMade
  <2>3. CASE p # s.period[v] /\ v # "saw"
    <3>1. q = new
      BY <1>2, <2>3
    <3>. QED
      BY <1>1, <1>4, <1>7, <2>3, <3>1 DEF RestSame, LowMade
  <2>. QED
    BY <2>1, <2>2, <2>3
<1>. QED
  BY <1>8 DEF q, p

\* A voice is switched on.
LEMMA SwitchOnFields ==
    ASSUME NEW s, IsVrc(s), NEW v \in Voices, NEW x
    PROVE  LET q == SwitchOn(s, v, x)
           IN /\ IsVrc(q) /\ q.on = s.on \cup {v} /\ q.period = s.period
              /\ q.cur = [s.cur EXCEPT ![v] = s.period[v]] /\ q.delay = s.delay \ {v}
              /\ q.changed = [s.changed EXCEPT ![v] = x]
              /\ q.base = s.base /\ q.offs = s.offs /\ q.heard = s.heard
              /\ q.volume = s.volume /\ q.pending = s.pending /\ q.target = s.target
              /\ IF v = "saw" THEN q.ph = s.ph % PartLen /\ q.accum = s.target /\ q.level = 0
                 ELSE q.ph = s.ph /\ q.accum = s.accum /\ q.level = s.level
<1>. DEFINE q == SwitchOn(s, v, x)
            c == PeriodChanged(s, v)
            n == [c EXCEPT !.on = @ \cup {v}, !.delay = @ \ {v}, !.changed[v] = x]
            saw == [n EXCEPT !.ph = @ % PartLen, !.accum = s.target, !.level = 0]
<1>1. /\ IsVrc(c) /\ SawSame(c, s) /\ RestSame(c, s) /\ c.on = s.on /\ c.period = s.period
      /\ c.delay = s.delay /\ c.cur = [s.cur EXCEPT ![v] = s.period[v]]
  BY PeriodChangedFields, ZenonT(20)
<1>2. q = IF v # "saw" THEN n ELSE saw
  BY DEF SwitchOn
<1>. HIDE DEF q, c
<1>3. /\ IsVrc(n) /\ SawSame(n, c) /\ n.on = c.on \cup {v} /\ n.delay = c.delay \ {v}
      /\ n.changed = [c.changed EXCEPT ![v] = x] /\ n.cur = c.cur /\ n.period = c.period
      /\ n.base = c.base /\ n.offs = c.offs /\ n.heard = c.heard
  BY <1>1 DEF IsVrc, Has, VrcFields, SawSame
<1>. HIDE DEF n
<1>4. /\ IsVrc(saw) /\ PeriodsSame(saw, n) /\ RestSame(saw, n)
      /\ saw.ph = n.ph % PartLen /\ saw.accum = s.target /\ saw.level = 0
      /\ saw.volume = n.volume /\ saw.pending = n.pending /\ saw.target = n.target
  BY <1>3 DEF IsVrc, Has, VrcFields, PeriodsSame, RestSame
<1>. HIDE DEF saw
<1>5. /\ IsVrc(q) /\ q.on = s.on \cup {v} /\ q.period = s.period
      /\ q.cur = [s.cur EXCEPT ![v] = s.period[v]] /\ q.delay = s.delay \ {v}
      /\ q.changed = [s.changed EXCEPT ![v] = x]
      /\ q.base = s.base /\ q.offs = s.offs /\ q.heard = s.heard
      /\ q.volume = s.volume /\ q.pending = s.pending /\ q.target = s.target
      /\ IF v = "saw" THEN q.ph = s.ph % PartLen /\ q.accum = s.target /\ q.level = 0
         ELSE q.ph = s.ph /\ q.accum = s.accum /\ q.level = s.level
  <2>1. CASE v # "saw"
    BY <1>1, <1>2, <1>3, <2>1 DEF SawSame, RestSame
  <2>2. CASE v = "saw"
    BY <1>1, <1>2, <1>3, <1>4, <2>2 DEF SawSame, RestSame, PeriodsSame
  <2>. QED
    BY <2>1, <2>2
<1>. QED
  BY <1>5 DEF q

\* The high byte, which comes with the switch, makes the period p.
HighMade(q, s, v, x, p, on) ==
    /\ p \in Nat /\ IsVrc(q) /\ q.base = s.base /\ q.offs = s.offs /\ q.heard = s.heard
    /\ q.period = [s.period EXCEPT ![v] = p]
    /\ q.volume = s.volume /\ q.pending = s.pending /\ q.target = s.target
    /\ \/ /\ on /\ v \notin s.on /\ q.on = s.on \cup {v}
          /\ q.cur = [s.cur EXCEPT ![v] = p] /\ q.delay = s.delay \ {v}
          /\ q.changed = [s.changed EXCEPT ![v] = x]
          /\ IF v = "saw" THEN q.ph = s.ph % PartLen /\ q.accum = s.target /\ q.level = 0
             ELSE q.ph = s.ph /\ q.accum = s.accum /\ q.level = s.level
       \/ /\ ~(on /\ v \notin s.on) /\ q.on = IF on THEN s.on ELSE s.on \ {v}
          /\ SawSame(q, s)
          /\ IF p = s.period[v]
             THEN q.cur = s.cur /\ q.delay = s.delay /\ q.changed = s.changed
             ELSE /\ q.cur = CurAfter(s, v, x, p) /\ q.delay = DelayAfter(s, v, x)
                  /\ q.changed = [s.changed EXCEPT ![v] = x]

LEMMA SetHighFields ==
    ASSUME NEW s, IsVrc(s), NEW v \in Voices, NEW x, NEW h \in Nat, NEW on \in BOOLEAN
    PROVE  HighMade(SetHigh(s, v, x, h, on), s, v, x, HighOf(s, v, h), on)
<1>. DEFINE q == SetHigh(s, v, x, h, on)
            p == HighOf(s, v, h)
            new == [s EXCEPT !.period[v] = p]
            set == [new EXCEPT !.on = IF on THEN @ ELSE @ \ {v}]
            ch == Change(set, v, x)
            noted == [ch EXCEPT !.changed[v] = x]
            sw == SwitchOn(new, v, x)
<1>1. p \in Nat
  <2>1. s.period[v] \in Nat /\ VrcByte \in Nat \ {0}
    BY VrcAssumption DEF IsVrc
  <2>. DEFINE y == s.period[v]
  <2>2. y \in Nat
    BY <2>1
  <2>. HIDE DEF y
  <2>3. y % VrcByte \in Nat /\ h * VrcByte \in Nat
    BY <2>1, <2>2
  <2>. QED
    BY <2>3 DEF y, HighOf
<1>2. q = IF on /\ v \notin new.on THEN sw ELSE IF p = s.period[v] THEN set ELSE noted
  BY DEF SetHigh, HighOf
<1>. HIDE DEF q, p
<1>3. /\ IsVrc(new) /\ SawSame(new, s) /\ RestSame(new, s) /\ new.on = s.on /\ new.cur = s.cur
      /\ new.delay = s.delay /\ new.period = [s.period EXCEPT ![v] = p] /\ new.period[v] = p
  BY <1>1, NewPeriodFields
<1>. HIDE DEF new
<1>4. IsVrc(new) /\ new.period[v] = p
  BY <1>3
<1>5. /\ IsVrc(set) /\ SawSame(set, new) /\ RestSame(set, new) /\ set.cur = new.cur
      /\ set.delay = new.delay /\ set.period = new.period
      /\ set.on = IF on THEN new.on ELSE new.on \ {v}
  BY <1>4 DEF IsVrc, Has, VrcFields, SawSame, RestSame
<1>. HIDE DEF set
<1>6. IsVrc(set)
  BY <1>5
<1>7. /\ IsVrc(ch) /\ SawSame(ch, set) /\ RestSame(ch, set) /\ ch.on = set.on
      /\ ch.period = set.period
      /\ ch.delay = DelayAfter(set, v, x) /\ ch.cur = CurAfter(set, v, x, set.period[v])
  BY <1>6, ChangeFields, ZenonT(20)
<1>8. DelayAfter(set, v, x) = DelayAfter(s, v, x) /\ CurAfter(set, v, x, set.period[v]) = CurAfter(s, v, x, p)
  BY <1>3, <1>5 DEF DelayAfter, CurAfter, Waits, RestSame
<1>. HIDE DEF ch
<1>9. /\ IsVrc(noted) /\ SawSame(noted, ch) /\ PeriodsSame(noted, ch) /\ noted.heard = ch.heard
      /\ noted.base = ch.base /\ noted.offs = ch.offs
      /\ noted.changed = [ch.changed EXCEPT ![v] = x]
  BY <1>7, NotedFields
<1>. HIDE DEF noted
<1>10. /\ IsVrc(sw) /\ sw.on = new.on \cup {v} /\ sw.period = new.period
       /\ sw.cur = [new.cur EXCEPT ![v] = new.period[v]] /\ sw.delay = new.delay \ {v}
       /\ sw.changed = [new.changed EXCEPT ![v] = x]
       /\ sw.base = new.base /\ sw.offs = new.offs /\ sw.heard = new.heard
       /\ sw.volume = new.volume /\ sw.pending = new.pending /\ sw.target = new.target
       /\ IF v = "saw" THEN sw.ph = new.ph % PartLen /\ sw.accum = new.target /\ sw.level = 0
          ELSE sw.ph = new.ph /\ sw.accum = new.accum /\ sw.level = new.level
  BY <1>4, SwitchOnFields, ZenonT(20)
<1>. HIDE DEF sw
<1>11. CASE on /\ v \notin s.on
  <2>1. q = sw
    BY <1>2, <1>3, <1>11
  <2>2. /\ IsVrc(q) /\ q.base = s.base /\ q.offs = s.offs /\ q.heard = s.heard
        /\ q.period = [s.period EXCEPT ![v] = p]
        /\ q.volume = s.volume /\ q.pending = s.pending /\ q.target = s.target
        /\ on /\ v \notin s.on /\ q.on = s.on \cup {v}
        /\ q.cur = [s.cur EXCEPT ![v] = p] /\ q.delay = s.delay \ {v}
        /\ q.changed = [s.changed EXCEPT ![v] = x]
        /\ IF v = "saw" THEN q.ph = s.ph % PartLen /\ q.accum = s.target /\ q.level = 0
           ELSE q.ph = s.ph /\ q.accum = s.accum /\ q.level = s.level
    BY <1>3, <1>10, <1>11, <2>1 DEF SawSame, RestSame
  <2>. QED
    BY <1>1, <2>2 DEF q, p, HighMade
<1>12. CASE ~(on /\ v \notin s.on) /\ p = s.period[v]
  <2>1. q = set
    BY <1>2, <1>3, <1>12
  <2>2. /\ IsVrc(q) /\ q.base = s.base /\ q.offs = s.offs /\ q.heard = s.heard
        /\ q.period = [s.period EXCEPT ![v] = p]
        /\ q.volume = s.volume /\ q.pending = s.pending /\ q.target = s.target
        /\ q.on = IF on THEN s.on ELSE s.on \ {v}
        /\ SawSame(q, s) /\ q.cur = s.cur /\ q.delay = s.delay /\ q.changed = s.changed
    BY <1>3, <1>5, <2>1 DEF SawSame, RestSame
  <2>. QED
    BY <1>1, <1>12, <2>2 DEF q, p, HighMade
<1>13. CASE ~(on /\ v \notin s.on) /\ p # s.period[v]
  <2>1. q = noted
    BY <1>2, <1>3, <1>13
  <2>2. /\ IsVrc(q) /\ q.base = s.base /\ q.offs = s.offs /\ q.heard = s.heard
        /\ q.period = [s.period EXCEPT ![v] = p]
        /\ q.volume = s.volume /\ q.pending = s.pending /\ q.target = s.target
        /\ q.on = IF on THEN s.on ELSE s.on \ {v}
        /\ SawSame(q, s) /\ q.cur = CurAfter(s, v, x, p) /\ q.delay = DelayAfter(s, v, x)
        /\ q.changed = [s.changed EXCEPT ![v] = x]
    BY <1>3, <1>5, <1>7, <1>8, <1>9, <2>1 DEF SawSame, RestSame, PeriodsSame
  <2>. QED
    BY <1>1, <1>13, <2>2 DEF q, p, HighMade
<1>. QED
  BY <1>11, <1>12, <1>13

-----------------------------------------------------------------------------
(* The saw and its predicted levels. *)

\* The levels ahead are those an accumulator reaches that adds v at each part, and
\* so are those of the waves to come.
SawAt(s, v) ==
    /\ ~s.pending => v = s.volume
    /\ s.ph \in 0 .. WaveLen - 1
    /\ s.level \in 0 .. AccRange - 1 /\ (Part(s.ph) = 0 => s.level = 0)
    /\ DOMAIN s.accum = 1 .. Parts - 1 /\ DOMAIN s.target = 1 .. Parts - 1
    /\ \A i \in 1 .. Parts - 1 :
        /\ s.target[i] = (i * v) % AccRange
        /\ i >= Part(s.ph) => s.accum[i] = (s.level + (i - Part(s.ph)) * v) % AccRange

Predicted(s) == s.volume \in Nat /\ \E v \in Nat : SawAt(s, v)

\* Parts of a wave.
LEMMA PartsOf ==
    ASSUME NEW ph \in 0 .. WaveLen - 1
    PROVE  /\ Part(ph) \in 0 .. Parts - 1 /\ ph % PartLen \in 0 .. WaveLen - 1
           /\ Part(ph % PartLen) = 0
           /\ \A p2 \in 0 .. WaveLen - 1 : ph <= p2 => Part(ph) <= Part(p2)
<1>1. PartLen \in Nat \ {0} /\ Parts \in Nat /\ Parts > 1 /\ WaveLen \in Nat /\ WaveLen = PartLen * Parts
  BY VrcAssumption DEF WaveLen
<1>2. ASSUME NEW p \in 0 .. WaveLen - 1
      PROVE  /\ p = PartLen * Part(p) + (p % PartLen) /\ Part(p) \in Int
             /\ p % PartLen \in 0 .. PartLen - 1 /\ Part(p) \in 0 .. Parts - 1
  <2>1. p \in Int
    BY <1>1
  <2>2. p = PartLen * Part(p) + (p % PartLen) /\ Part(p) \in Int /\ p % PartLen \in 0 .. PartLen - 1
    BY <1>1, <2>1, DivMod DEF Part
  <2>. DEFINE c == Part(p)
              r == p % PartLen
  <2>. HIDE DEF c, r
  <2>3. p = PartLen * c + r /\ c \in Int /\ r \in 0 .. PartLen - 1
    BY <2>2 DEF c, r
  <2>4. c >= 0
    <3>1. SUFFICES ASSUME c <= -1 PROVE FALSE
      BY <2>3
    <3>2. PartLen * c <= PartLen * (-1)
      BY <1>1, <2>3, <3>1
    <3>. QED
      BY <1>1, <2>3, <3>2
  <2>5. c <= Parts - 1
    <3>1. SUFFICES ASSUME c >= Parts PROVE FALSE
      BY <1>1, <2>3
    <3>2. PartLen * c >= PartLen * Parts
      BY <1>1, <2>3, <3>1
    <3>. QED
      BY <1>1, <2>3, <3>2
  <2>. QED
    BY <1>1, <2>2, <2>3, <2>4, <2>5 DEF c
<1>3. Part(ph) \in 0 .. Parts - 1 /\ ph % PartLen \in 0 .. PartLen - 1
  BY <1>2
<1>4. PartLen <= WaveLen
  <2>1. PartLen * 1 <= PartLen * Parts
    BY <1>1
  <2>. QED
    BY <1>1, <2>1
<1>5. Part(ph % PartLen) = 0
  <2>. DEFINE r == ph % PartLen
  <2>1. r \in 0 .. PartLen - 1 /\ PartLen * 0 + r = r /\ 0 \in Int
    BY <1>1, <1>3
  <2>. HIDE DEF r
  <2>2. (PartLen * 0 + r) \div PartLen = 0
    BY <1>1, <2>1, DivModUnique
  <2>. QED
    BY <2>1, <2>2 DEF r, Part
<1>6. ASSUME NEW p2 \in 0 .. WaveLen - 1, ph <= p2 PROVE Part(ph) <= Part(p2)
  <2>. DEFINE c == Part(ph)
              d == Part(p2)
              r == ph % PartLen
              u == p2 % PartLen
  <2>1. ph = PartLen * c + r /\ c \in Int /\ r \in 0 .. PartLen - 1
    BY <1>2
  <2>2. p2 = PartLen * d + u /\ d \in Int /\ u \in 0 .. PartLen - 1
    BY <1>2
  <2>. HIDE DEF c, d, r, u
  <2>3. SUFFICES ASSUME c >= d + 1 PROVE FALSE
    BY <2>1, <2>2 DEF c, d
  <2>4. PartLen * c >= PartLen * (d + 1) /\ PartLen * (d + 1) = PartLen * d + PartLen
    BY <1>1, <2>1, <2>2, <2>3
  <2>. QED
    BY <1>1, <1>6, <2>1, <2>2, <2>4
<1>. QED
  BY <1>1, <1>3, <1>4, <1>5, <1>6

\* Remainders of sums.
LEMMA LevelSum ==
    ASSUME NEW a \in Int, NEW b \in Int
    PROVE  /\ ((a % AccRange) + b) % AccRange = (a + b) % AccRange
           /\ a % AccRange \in 0 .. AccRange - 1 /\ 0 % AccRange = 0
           /\ a \in 0 .. AccRange - 1 => a % AccRange = a
<1>1. AccRange \in Nat \ {0}
  BY VrcAssumption
<1>2. (b + (a % AccRange)) % AccRange = (b + a) % AccRange
  BY <1>1, ModAdd
<1>3. a % AccRange \in 0 .. AccRange - 1
  BY <1>1, DivMod
<1>4. b + (a % AccRange) = (a % AccRange) + b /\ b + a = a + b
  BY <1>3
<1>5. a \in 0 .. AccRange - 1 => a % AccRange = a
  BY <1>1, ModSmall
<1>6. 0 % AccRange = 0
  BY <1>1
<1>. QED
  BY <1>2, <1>3, <1>4, <1>5, <1>6

\* A rate that waits is applied.
LEMMA ApplyVolumeSays ==
    ASSUME NEW s, IsVrc(s), Predicted(s)
    PROVE  LET q == ApplyVolume(s)
           IN ~q.pending /\ q.volume = s.volume /\ q.volume \in Nat /\ SawAt(q, q.volume)
<1>. DEFINE q == ApplyVolume(s)
            c == Part(s.ph)
            before == IF c > 0 THEN s.accum[c] ELSE 0
            V == s.volume
<1>1. PICK v \in Nat : SawAt(s, v)
  BY DEF Predicted
<1>2. V \in Nat
  BY DEF Predicted
<1>3. CASE ~s.pending
  BY <1>1, <1>2, <1>3 DEF ApplyVolume, SawAt
<1>4. CASE s.pending
  <2>1. /\ ~q.pending /\ q.volume = V /\ q.ph = s.ph /\ q.level = s.level
        /\ q.target = [i \in DOMAIN s.target |-> (i * V) % AccRange]
        /\ q.accum = [i \in DOMAIN s.accum |->
                        IF i <= c THEN s.accum[i] ELSE (before + (i - c) * V) % AccRange]
    BY <1>4 DEF ApplyVolume, IsVrc, Has, VrcFields
  <2>. HIDE DEF q
  <2>2. c \in 0 .. Parts - 1 /\ s.ph \in 0 .. WaveLen - 1 /\ s.level \in 0 .. AccRange - 1 /\ Parts \in Nat
    BY <1>1, PartsOf, VrcAssumption DEF SawAt
  <2>3. before = s.level
    <3>1. CASE c > 0
      <4>1. c \in 1 .. Parts - 1 /\ c >= c
        BY <2>2, <3>1
      <4>2. s.accum[c] = (s.level + (c - c) * v) % AccRange
        BY <1>1, <4>1 DEF SawAt
      <4>3. s.level + (c - c) * v = s.level /\ s.level \in Int
        BY <1>1, <2>2, <4>1
      <4>. QED
        BY <2>2, <3>1, <4>2, <4>3, LevelSum
    <3>2. CASE c = 0
      BY <1>1, <3>2 DEF SawAt
    <3>. QED
      BY <2>2, <3>1, <3>2
  <2>4. ASSUME NEW i \in 1 .. Parts - 1, i >= c
        PROVE  q.accum[i] = (s.level + (i - c) * V) % AccRange
    <3>1. CASE i > c
      BY <1>1, <2>1, <2>2, <2>3, <2>4, <3>1 DEF SawAt
    <3>2. CASE i = c
      <4>1. q.accum[i] = s.accum[c] /\ before = s.accum[c]
        BY <1>1, <2>1, <2>2, <3>2 DEF SawAt
      <4>2. s.level + (i - c) * V = s.level /\ s.level \in Int
        BY <1>2, <2>2, <3>2
      <4>. QED
        BY <2>2, <2>3, <4>1, <4>2, LevelSum
    <3>. QED
      BY <2>2, <2>4, <3>1, <3>2
  <2>5. SawAt(q, V)
    BY <1>1, <2>1, <2>2, <2>4 DEF SawAt
  <2>. QED
    BY <1>2, <2>1, <2>5 DEF q
<1>. QED
  BY <1>3, <1>4

\* An increment is less than a wave.
LEMMA SawIncFits ==
    ASSUME NEW p \in Nat \cup {NoPeriod}
    PROVE  SawInc(p) \in 0 .. WaveLen
<1>1. SawDividend \in Nat /\ PhaseRange \in Nat /\ PhaseRange \div 2 <= WaveLen
  BY VrcAssumption
<1>2. WaveLen \in Nat
  BY VrcAssumption DEF WaveLen
<1>3. CASE p = NoPeriod
  BY <1>2, <1>3 DEF SawInc
<1>4. CASE p # NoPeriod
  <2>. DEFINE d == 2 * (p + 1)
              r == SawDividend \div d
  <2>1. d \in Nat \ {0}
    BY <1>4
  <2>2. SawInc(p) = IF r >= PhaseRange \div 2 THEN 0 ELSE r
    BY <1>4 DEF SawInc
  <2>. HIDE DEF d
  <2>3. r \in Nat
    BY <1>1, <2>1
  <2>. HIDE DEF r
  <2>. QED
    BY <1>1, <1>2, <2>2, <2>3
<1>. QED
  BY <1>3, <1>4

\* A sample moves the saw, and the level with it.
LEMMA MoveSawSays ==
    ASSUME NEW s, IsVrc(s), ~s.pending, s.volume \in Nat, SawAt(s, s.volume)
    PROVE  LET q == MoveSaw(s)
           IN ~q.pending /\ q.volume = s.volume /\ SawAt(q, q.volume)
<1>. DEFINE q == MoveSaw(s)
            sum == s.ph + SawInc(s.cur["saw"])
            wraps == sum >= WaveLen
            ph == IF wraps THEN sum - WaveLen ELSE sum
            V == s.volume
            A == AccRange
            c == Part(s.ph)
            d == Part(ph)
<1>1. /\ q.ph = ph /\ q.volume = V /\ q.pending = s.pending /\ q.target = s.target
      /\ q.accum = IF wraps THEN s.target ELSE s.accum
      /\ q.level = IF wraps THEN (Part(ph) * V) % A ELSE (s.level + (Part(ph) - Part(s.ph)) * V) % A
  BY DEF MoveSaw, IsVrc, Has, VrcFields
<1>2. SawInc(s.cur["saw"]) \in 0 .. WaveLen
  <2>1. s.cur["saw"] \in Nat \cup {NoPeriod}
    BY DEF IsVrc, Voices
  <2>. QED
    BY <2>1, SawIncFits
<1>3. WaveLen \in Nat \ {0} /\ Parts \in Nat
  <2>1. Parts \in Nat \ {0} /\ PartLen \in Nat \ {0}
    BY VrcAssumption
  <2>. QED
    BY <2>1 DEF WaveLen
<1>4. /\ s.ph \in 0 .. WaveLen - 1 /\ s.level \in 0 .. A - 1 /\ (c = 0 => s.level = 0)
      /\ DOMAIN s.accum = 1 .. Parts - 1 /\ DOMAIN s.target = 1 .. Parts - 1
      /\ \A i \in 1 .. Parts - 1 : /\ s.target[i] = (i * V) % A
                                   /\ i >= c => s.accum[i] = (s.level + (i - c) * V) % A
  BY DEF SawAt
<1>5. ph \in 0 .. WaveLen - 1 /\ (~wraps => s.ph <= ph)
  <2>. DEFINE z == SawInc(s.cur["saw"])
  <2>1. z \in 0 .. WaveLen
    BY <1>2
  <2>. HIDE DEF z
  <2>. QED
    BY <1>3, <1>4, <2>1 DEF z
<1>. HIDE DEF q, sum, wraps, ph
<1>6. c \in 0 .. Parts - 1 /\ d \in 0 .. Parts - 1 /\ (~wraps => c <= d)
  BY <1>4, <1>5, PartsOf
<1>. HIDE DEF c, d
<1>7. \A k \in Int : k * V \in Int
  BY <1>3
<1>8. \A i \in Int : /\ (d * V) + (i - d) * V = i * V
                     /\ (s.level + (d - c) * V) + (i - d) * V = s.level + (i - c) * V
  <2>1. \A i \in Int : i * V \in Int /\ (i - d) * V = i * V - d * V /\ (i - c) * V = i * V - c * V
    BY <1>3, <1>6
  <2>2. d * V \in Int /\ c * V \in Int /\ (d - c) * V = d * V - c * V /\ s.level \in Int
    BY <1>3, <1>4, <1>6
  <2>. QED
    BY <2>1, <2>2
<1>9. CASE wraps
  <2>1. q.level = (d * V) % A /\ q.accum = s.target
    BY <1>1, <1>9 DEF d
  <2>2. d * V \in Int
    BY <1>6, <1>7
  <2>3. q.level \in 0 .. A - 1 /\ (d = 0 => q.level = 0)
    <3>1. 0 * V = 0
      BY <1>3
    <3>. QED
      BY <2>1, <2>2, <3>1, LevelSum
  <2>4. ASSUME NEW i \in 1 .. Parts - 1 PROVE q.accum[i] = (q.level + (i - d) * V) % A
    <3>1. i \in Int /\ i - d \in Int
      BY <1>6
    <3>2. (i - d) * V \in Int
      BY <1>7, <3>1
    <3>3. (((d * V) % A) + (i - d) * V) % A = (d * V + (i - d) * V) % A
      BY <2>2, <3>2, LevelSum
    <3>. QED
      BY <1>4, <1>8, <2>1, <3>1, <3>3
  <2>5. SawAt(q, V)
    BY <1>1, <1>4, <1>5, <2>1, <2>3, <2>4 DEF SawAt, d
  <2>. QED
    BY <1>1, <2>5 DEF q
<1>10. CASE ~wraps
  <2>1. q.level = (s.level + (d - c) * V) % A /\ q.accum = s.accum
    BY <1>1, <1>10 DEF d, c
  <2>2. s.level + (d - c) * V \in Int
    <3>1. (d - c) * V \in Int
      BY <1>6, <1>7
    <3>. QED
      BY <1>4, <3>1
  <2>3. q.level \in 0 .. A - 1 /\ (d = 0 => q.level = 0)
    <3>1. q.level \in 0 .. A - 1
      BY <2>1, <2>2, LevelSum
    <3>2. ASSUME d = 0 PROVE q.level = 0
      <4>1. c = 0 /\ d - c = 0
        BY <1>6, <1>10, <3>2
      <4>2. s.level = 0 /\ (d - c) * V = 0
        BY <1>3, <1>4, <4>1
      <4>3. s.level + (d - c) * V = 0
        BY <4>2
      <4>4. 0 \in Int
        OBVIOUS
      <4>. QED
        BY <2>1, <4>3, <4>4, LevelSum
    <3>. QED
      BY <3>1, <3>2
  <2>4. ASSUME NEW i \in 1 .. Parts - 1, i >= d PROVE q.accum[i] = (q.level + (i - d) * V) % A
    <3>1. i \in Int /\ i - d \in Int /\ i >= c
      BY <1>6, <1>10, <2>4
    <3>2. (i - d) * V \in Int
      BY <1>7, <3>1
    <3>3. (((s.level + (d - c) * V) % A) + (i - d) * V) % A = (s.level + (d - c) * V + (i - d) * V) % A
      BY <2>2, <3>2, LevelSum
    <3>. QED
      BY <1>4, <1>8, <2>1, <3>1, <3>3
  <2>5. SawAt(q, V)
    BY <1>1, <1>4, <1>5, <2>1, <2>3, <2>4 DEF SawAt, d
  <2>. QED
    BY <1>1, <2>5 DEF q
<1>. QED
  BY <1>9, <1>10

\* The level heard is the one added up.
LEMMA PredictedLevel ==
    ASSUME NEW s, Predicted(s)
    PROVE  SawLevel(s) = s.level
<1>1. PICK v \in Nat : SawAt(s, v)
  BY DEF Predicted
<1>. DEFINE c == Part(s.ph)
<1>2. c \in 0 .. Parts - 1 /\ s.level \in 0 .. AccRange - 1 /\ (c = 0 => s.level = 0) /\ Parts \in Nat
  BY <1>1, PartsOf, VrcAssumption DEF SawAt
<1>3. CASE c = 0
  BY <1>2, <1>3 DEF SawLevel
<1>4. CASE c # 0
  <2>1. c \in 1 .. Parts - 1 /\ c >= c
    BY <1>2, <1>4
  <2>2. s.accum[c] = (s.level + (c - c) * v) % AccRange
    BY <1>1, <2>1 DEF SawAt
  <2>3. s.level + (c - c) * v = s.level /\ s.level \in Int
    BY <1>1, <1>2, <2>1
  <2>4. s.level % AccRange = s.level
    BY <1>2, <2>3, LevelSum
  <2>. QED
    BY <1>4, <2>2, <2>3, <2>4 DEF SawLevel
<1>. QED
  BY <1>3, <1>4

\* The saw starts again.
LEMMA RestartSays ==
    ASSUME NEW s, Predicted(s), NEW q, q.volume = s.volume, q.pending = s.pending,
           q.target = s.target, q.accum = s.target, q.ph = s.ph % PartLen, q.level = 0
    PROVE  Predicted(q)
<1>1. PICK v \in Nat : SawAt(s, v)
  BY DEF Predicted
<1>2. s.ph \in 0 .. WaveLen - 1
  BY <1>1 DEF SawAt
<1>3. q.ph \in 0 .. WaveLen - 1 /\ Part(q.ph) = 0
  BY <1>2, PartsOf
<1>4. 0 \in 0 .. AccRange - 1
  BY VrcAssumption
<1>5. ASSUME NEW i \in 1 .. Parts - 1
      PROVE  q.accum[i] = (q.level + (i - Part(q.ph)) * v) % AccRange /\ q.target[i] = (i * v) % AccRange
  <2>1. i \in Int
    BY VrcAssumption
  <2>2. 0 + (i - 0) * v = i * v
    BY <1>1, <2>1
  <2>. QED
    BY <1>1, <1>3, <2>2 DEF SawAt
<1>6. SawAt(q, v)
  BY <1>1, <1>3, <1>4, <1>5 DEF SawAt
<1>. QED
  BY <1>6 DEF Predicted

\* What is the same is predicted the same; a new rate waits.
LEMMA PredictedSame ==
    ASSUME NEW s, Predicted(s), NEW q
    PROVE  /\ SawSame(q, s) => Predicted(q)
           /\ (/\ q.ph = s.ph /\ q.accum = s.accum /\ q.target = s.target /\ q.level = s.level
               /\ q.pending /\ q.volume \in Nat) => Predicted(q)
<1>1. PICK v \in Nat : SawAt(s, v)
  BY DEF Predicted
<1>2. s.volume \in Nat
  BY DEF Predicted
<1>3. ASSUME SawSame(q, s) PROVE Predicted(q)
  <2>1. SawAt(q, v) /\ q.volume \in Nat
    BY <1>1, <1>2, <1>3 DEF SawSame, SawAt
  <2>. QED
    BY <2>1 DEF Predicted
<1>4. ASSUME q.ph = s.ph, q.accum = s.accum, q.target = s.target, q.level = s.level,
             q.pending, q.volume \in Nat
      PROVE  Predicted(q)
  <2>1. SawAt(q, v)
    BY <1>1, <1>4 DEF SawAt
  <2>. QED
    BY <1>4, <2>1 DEF Predicted
<1>. QED
  BY <1>3, <1>4

\* The delayed changes.
CurDelayed(s) == [v \in Voices |-> IF v \in s.delay THEN s.period[v] ELSE s.cur[v]]

LEMMA ApplyDelayedFields ==
    ASSUME NEW s, IsVrc(s)
    PROVE  LET q == ApplyDelayed(s)
           IN /\ IsVrc(q) /\ SawSame(q, s) /\ RestSame(q, s) /\ q.on = s.on /\ q.period = s.period
              /\ q.delay = {} /\ q.cur = CurDelayed(s)
<1>. DEFINE q == ApplyDelayed(s)
<1>1. /\ Has(q, VrcFields) /\ SawSame(q, s) /\ RestSame(q, s) /\ q.on = s.on /\ q.period = s.period
      /\ q.delay = {} /\ q.cur = CurDelayed(s)
  BY DEF IsVrc, Has, VrcFields, SawSame, RestSame, ApplyDelayed, CurDelayed
<1>. HIDE DEF q
<1>2. IsVrc(q)
  BY <1>1 DEF IsVrc, CurDelayed
<1>. QED
  BY <1>1, <1>2 DEF q

\* No rate waits, and the levels are those of the present one.
Ready(s) == ~s.pending /\ s.volume \in Nat /\ SawAt(s, s.volume)

\* A sample: the voices that are on are heard, then the delayed changes come.
LEMMA PlaySampleFields ==
    ASSUME NEW s, IsVrc(s)
    PROVE  LET q == PlaySample(s)
           IN /\ IsVrc(q) /\ q.on = s.on /\ q.period = s.period /\ q.changed = s.changed
              /\ q.base = s.base /\ q.heard = s.heard \cup {s.cur[v] : v \in s.on}
              /\ q.delay = {} /\ q.cur = CurDelayed(s) /\ (Ready(s) => Ready(q))
<1>. DEFINE q == PlaySample(s)
            p == [s EXCEPT !.heard = @ \cup {s.cur[v] : v \in s.on}]
            m == MoveSaw(p)
            a == ApplyDelayed(m)
            H == s.heard \cup {s.cur[v] : v \in s.on}
<1>1. /\ IsVrc(p) /\ PeriodsSame(p, s) /\ SawSame(p, s) /\ p.heard = H
      /\ p.base = s.base /\ p.offs = s.offs /\ p.changed = s.changed
  <2>1. p = [s EXCEPT !.heard = H]
    BY DEF IsVrc, Has, VrcFields
  <2>. HIDE DEF p, H
  <2>. QED
    BY <2>1, VrcFieldsOf
<1>2. q = [a EXCEPT !.offs = (@ + 1) % VrcRing]
  BY DEF PlaySample
<1>. HIDE DEF p, q
<1>3. IsVrc(m) /\ PeriodsSame(m, p) /\ RestSame(m, p)
  BY <1>1, VrcFieldsOf, ZenonT(30)
<1>4. Ready(s) => Ready(m)
  <2>1. SUFFICES ASSUME Ready(s) PROVE Ready(m)
    OBVIOUS
  <2>2. ~p.pending /\ p.volume \in Nat /\ SawAt(p, p.volume)
    BY <1>1, <2>1 DEF SawSame, Ready, SawAt
  <2>3. ~m.pending /\ m.volume = p.volume /\ SawAt(m, m.volume)
    BY <1>1, <2>2, MoveSawSays
  <2>. QED
    BY <2>2, <2>3 DEF Ready
<1>. HIDE DEF m
<1>5. /\ IsVrc(a) /\ SawSame(a, m) /\ RestSame(a, m) /\ a.on = m.on /\ a.period = m.period
      /\ a.delay = {} /\ a.cur = CurDelayed(m)
  BY <1>3, ApplyDelayedFields, ZenonT(20)
<1>. HIDE DEF a
<1>6. /\ IsVrc(q) /\ PeriodsSame(q, a) /\ SawSame(q, a) /\ q.heard = a.heard
      /\ q.base = a.base /\ q.changed = a.changed
  <2>1. \E o : q = [a EXCEPT !.offs = o]
    BY <1>2, <1>5 DEF IsVrc, Has, VrcFields
  <2>. QED
    BY <1>5, <2>1, VrcFieldsOf
<1>7. CurDelayed(m) = CurDelayed(s)
  BY <1>1, <1>3 DEF CurDelayed, PeriodsSame
<1>8. Ready(m) => Ready(q)
  BY <1>5, <1>6 DEF Ready, SawAt, SawSame
<1>9. /\ IsVrc(q) /\ q.on = s.on /\ q.period = s.period /\ q.changed = s.changed
      /\ q.base = s.base /\ q.heard = H /\ q.delay = {} /\ q.cur = CurDelayed(s)
  BY <1>1, <1>3, <1>5, <1>6, <1>7 DEF PeriodsSame, RestSame
<1>. HIDE DEF H
<1>. QED
  BY <1>4, <1>8, <1>9 DEF q, H

RoundsOf(s, t) == ((FxpTime(s, t) \div Sample) - s.offs) % VrcRing

\* A run: nothing is heard in the sample that is not over, the first sample is heard
\* as it was, the others with the delayed changes.
LEMMA RunVrcFields ==
    ASSUME NEW s0, IsVrc(s0), NEW t \in Int, s0.base \in Int, s0.offs \in Int
    PROVE  LET q == RunVrc(s0, t)
               rounds == RoundsOf(s0, t)
           IN /\ rounds \in Nat
              /\ IsVrc(q) /\ q.on = s0.on /\ q.period = s0.period /\ q.changed = s0.changed
              /\ q.base = s0.base
              /\ rounds = 0 => q.heard = {} /\ q.cur = s0.cur /\ q.delay = s0.delay
              /\ rounds # 0 => q.delay = {} /\ q.cur = CurDelayed(s0)
              /\ rounds = 1 => q.heard = {s0.cur[v] : v \in s0.on}
              /\ q.heard \subseteq {s0.cur[v] : v \in s0.on} \cup {CurDelayed(s0)[v] : v \in s0.on}
              /\ Predicted(s0) => Predicted(q)
<1>. DEFINE a == ApplyVolume(s0)
            s == [a EXCEPT !.heard = {}]
            rounds == RoundsOf(s0, t)
            F == VrcCourseOf(s, rounds)
            q == RunVrc(s0, t)
            C == CurDelayed(s0)
            H0 == {s0.cur[v] : v \in s0.on}
            H1 == {C[v] : v \in s0.on}
            Kept(r) == /\ IsVrc(r) /\ r.on = s0.on /\ r.period = s0.period /\ r.changed = s0.changed
                       /\ r.base = s0.base /\ (Predicted(s0) => Ready(r))
            good == {n \in 0 .. rounds :
                        /\ Kept(F[n])
                        /\ n = 0 => F[n].heard = {} /\ F[n].cur = s0.cur /\ F[n].delay = s0.delay
                        /\ n # 0 => F[n].delay = {} /\ F[n].cur = C
                        /\ n = 1 => F[n].heard = H0
                        /\ F[n].heard \subseteq H0 \cup H1}
<1>1. /\ IsVrc(a) /\ PeriodsSame(a, s0) /\ RestSame(a, s0)
      /\ Predicted(s0) => Ready(a)
  <2>1. IsVrc(a) /\ PeriodsSame(a, s0) /\ RestSame(a, s0)
    BY VrcFieldsOf, ZenonT(30)
  <2>2. Predicted(s0) => Ready(a)
    BY ApplyVolumeSays DEF Ready
  <2>. QED
    BY <2>1, <2>2
<1>. HIDE DEF a
<1>2. /\ IsVrc(s) /\ PeriodsSame(s, a) /\ SawSame(s, a) /\ s.heard = {} /\ s.base = a.base
      /\ s.offs = a.offs /\ s.changed = a.changed
  BY <1>1 DEF IsVrc, Has, VrcFields, PeriodsSame, SawSame
<1>3. Kept(s) /\ s.cur = s0.cur /\ s.delay = s0.delay /\ s.heard = {} /\ s.offs = s0.offs
  <2>1. Ready(a) => Ready(s)
    BY <1>2 DEF Ready, SawAt, SawSame
  <2>. QED
    BY <1>1, <1>2, <2>1 DEF PeriodsSame, RestSame
<1>4. rounds \in Nat
  <2>1. VrcRing \in Nat \ {0} /\ Sample \in Nat \ {0} /\ VrcScale \in Nat /\ Fxp \in Nat \ {0}
    BY VrcAssumption DEF Fxp
  <2>2. FxpTime(s0, t) \in Int
    <3>. DEFINE X == t * VrcScale + s0.base
    <3>1. X \in Int
      BY <2>1
    <3>. HIDE DEF X
    <3>2. X % Fxp \in Int
      BY <2>1, <3>1, DivMod
    <3>. QED
      BY <3>2 DEF X, FxpTime
  <2>. DEFINE y == FxpTime(s0, t) \div Sample
  <2>3. y \in Int
    BY <2>1, <2>2, DivMod
  <2>. HIDE DEF y
  <2>. DEFINE z == y - s0.offs
  <2>4. z \in Int
    BY <2>3
  <2>5. rounds = z % VrcRing
    BY DEF y, RoundsOf
  <2>. HIDE DEF z, rounds
  <2>6. z % VrcRing \in 0 .. VrcRing - 1
    BY <2>1, <2>4, DivMod
  <2>. QED
    BY <2>5, <2>6
<1>5. q = F[rounds]
  <2>1. FxpTime(s, t) = FxpTime(s0, t)
    BY <1>3 DEF FxpTime
  <2>2. ((FxpTime(s, t) \div Sample) - s.offs) % VrcRing = rounds
    <3>. HIDE DEF s
    <3>. QED
      BY <1>3, <2>1 DEF RoundsOf
  <2>3. q = VrcCourseOf(s, ((FxpTime(s, t) \div Sample) - s.offs) % VrcRing)
                       [((FxpTime(s, t) \div Sample) - s.offs) % VrcRing]
    BY Zenon DEF RunVrc, VrcCourseOf, a
  <2>. HIDE DEF q, s, rounds
  <2>. QED
    BY <2>2, <2>3
<1>. HIDE DEF s, q, rounds
<1>6. F[0] = s /\ \A n \in 1 .. rounds : F[n] = PlaySample(F[n - 1])
  BY <1>4, VrcCourse
<1>. HIDE DEF F
<1>7. 0 \in good
  <2>. HIDE DEF Kept, C, H0, H1
  <2>. QED
    BY <1>3, <1>4, <1>6
<1>8. ASSUME NEW n \in 0 .. rounds, n # 0, n - 1 \in good PROVE n \in good
  <2>. DEFINE p == F[n - 1]
              r == F[n]
  <2>1. r = PlaySample(p)
    BY <1>4, <1>6, <1>8
  <2>2. /\ Kept(p)
        /\ n = 1 => p.heard = {} /\ p.cur = s0.cur /\ p.delay = s0.delay
        /\ n # 1 => p.delay = {} /\ p.cur = C
        /\ p.heard \subseteq H0 \cup H1
    <3>. HIDE DEF Kept, C, H0, H1
    <3>. QED
      BY <1>4, <1>8
  <2>. HIDE DEF p, r
  <2>3. /\ IsVrc(r) /\ r.on = p.on /\ r.period = p.period /\ r.changed = p.changed
        /\ r.base = p.base /\ r.heard = p.heard \cup {p.cur[v] : v \in p.on}
        /\ r.delay = {} /\ r.cur = CurDelayed(p) /\ (Ready(p) => Ready(r))
    <3>1. IsVrc(p)
      BY <2>2
    <3>. QED
      BY <2>1, <3>1, PlaySampleFields, ZenonT(30)
  <2>4. Kept(r)
    BY <2>2, <2>3
  <2>5. CASE n = 1
    <3>1. {p.cur[v] : v \in p.on} = H0
      BY <2>2, <2>5
    <3>2. CurDelayed(p) = C
      BY <2>2, <2>5 DEF CurDelayed
    <3>3. r.heard = H0 /\ r.heard \subseteq H0 \cup H1 /\ r.delay = {} /\ r.cur = C
      <4>. HIDE DEF H0, H1, C, Kept
      <4>. QED
        BY <2>2, <2>3, <2>5, <3>1, <3>2
    <3>. HIDE DEF H0, H1, C, Kept
    <3>. QED
      BY <2>4, <2>5, <3>3 DEF r
  <2>6. CASE n # 1
    <3>1. {p.cur[v] : v \in p.on} = H1
      <4>. HIDE DEF C
      <4>. QED
        BY <2>2, <2>6
    <3>2. CurDelayed(p) = C
      <4>1. p.delay = {} /\ p.cur = C /\ C = [v \in Voices |-> C[v]]
        BY <2>2, <2>6 DEF CurDelayed
      <4>. HIDE DEF C
      <4>. QED
        BY <4>1 DEF CurDelayed
    <3>3. r.heard \subseteq H0 \cup H1 /\ r.delay = {} /\ r.cur = C
      <4>. HIDE DEF H0, H1, C, Kept
      <4>. QED
        BY <2>2, <2>3, <2>6, <3>1, <3>2
    <3>. HIDE DEF H0, H1, C, Kept
    <3>. QED
      BY <1>8, <2>4, <2>6, <3>3 DEF r
  <2>. QED
    BY <2>5, <2>6
<1>9. rounds \in good
  <2>. HIDE DEF good
  <2>1. 0 .. rounds \subseteq good
    BY <1>4, <1>7, <1>8, UpToBound
  <2>. QED
    BY <1>4, <2>1
<1>10. Ready(q) => Predicted(q)
  BY DEF Ready, Predicted
<1>11. /\ Kept(q)
       /\ rounds = 0 => q.heard = {} /\ q.cur = s0.cur /\ q.delay = s0.delay
       /\ rounds # 0 => q.delay = {} /\ q.cur = C
       /\ rounds = 1 => q.heard = H0
       /\ q.heard \subseteq H0 \cup H1
  <2>. HIDE DEF Kept, C, H0, H1
  <2>. QED
    BY <1>5, <1>9
<1>. HIDE DEF H0, H1, C
<1>. QED
  BY <1>4, <1>10, <1>11 DEF q, rounds, H0, H1, C

InForce(s) == \A v \in Voices : v \in s.on /\ v \notin s.delay => s.cur[v] = s.period[v]
VrcSays(s) == IsVrc(s) /\ s.base \in Int /\ Predicted(s) /\ InForce(s)

\* Each operation of the VRC6.
LEMMA VrcRunSays ==
    ASSUME NEW s, VrcSays(s), s.offs \in Int, NEW t \in Int
    PROVE  VrcSays(RunVrc(s, t))
<1>. DEFINE q == RunVrc(s, t)
<1>1. IsVrc(s) /\ s.base \in Int /\ Predicted(s) /\ InForce(s)
  BY DEF VrcSays
<1>2. /\ IsVrc(q) /\ q.on = s.on /\ q.period = s.period /\ q.base = s.base
      /\ \/ q.cur = s.cur /\ q.delay = s.delay
         \/ q.delay = {} /\ q.cur = CurDelayed(s)
      /\ Predicted(q)
  <2>. DEFINE rounds == RoundsOf(s, t)
  <2>1. /\ rounds \in Nat
        /\ IsVrc(q) /\ q.on = s.on /\ q.period = s.period /\ q.changed = s.changed
        /\ q.base = s.base
        /\ rounds = 0 => q.heard = {} /\ q.cur = s.cur /\ q.delay = s.delay
        /\ rounds # 0 => q.delay = {} /\ q.cur = CurDelayed(s)
        /\ rounds = 1 => q.heard = {s.cur[v] : v \in s.on}
        /\ q.heard \subseteq {s.cur[v] : v \in s.on} \cup {CurDelayed(s)[v] : v \in s.on}
        /\ Predicted(s) => Predicted(q)
    BY <1>1, RunVrcFields, ZenonT(30)
  <2>. HIDE DEF q, rounds
  <2>. QED
    BY <1>1, <2>1
<1>. HIDE DEF q
<1>3. InForce(q)
  BY <1>1, <1>2 DEF InForce, CurDelayed
<1>. QED
  BY <1>1, <1>2, <1>3 DEF VrcSays, q

LEMMA VrcWriteSays ==
    ASSUME NEW s, VrcSays(s)
    PROVE  /\ \A p, mode : VrcSays(SetDuty(s, p, mode))
           /\ \A volume \in Nat : VrcSays(SetSawRate(s, volume))
           /\ \A t \in Int : VrcSays(VrcFrame(s, t))
<1>1. IsVrc(s) /\ s.base \in Int /\ Predicted(s) /\ InForce(s)
  BY DEF VrcSays
<1>2. ASSUME NEW q, IsVrc(q), PeriodsSame(q, s), SawSame(q, s), q.base \in Int
      PROVE  VrcSays(q)
  <2>1. Predicted(q)
    BY <1>1, <1>2, PredictedSame
  <2>2. InForce(q)
    BY <1>1, <1>2 DEF InForce, PeriodsSame
  <2>. QED
    BY <1>2, <2>1, <2>2 DEF VrcSays
<1>3. ASSUME NEW p, NEW mode PROVE VrcSays(SetDuty(s, p, mode))
  <2>. DEFINE q == SetDuty(s, p, mode)
  <2>1. IsVrc(q) /\ PeriodsSame(q, s) /\ SawSame(q, s) /\ RestSame(q, s)
    BY <1>1, VrcFieldsOf, ZenonT(30)
  <2>. HIDE DEF q
  <2>2. q.base \in Int
    BY <1>1, <2>1 DEF RestSame
  <2>. QED
    BY <1>2, <2>1, <2>2 DEF q
<1>4. ASSUME NEW volume \in Nat PROVE VrcSays(SetSawRate(s, volume))
  <2>. DEFINE q == SetSawRate(s, volume)
  <2>1. /\ IsVrc(q) /\ PeriodsSame(q, s) /\ RestSame(q, s) /\ q.ph = s.ph
        /\ q.volume = volume /\ q.pending /\ q.accum = s.accum /\ q.target = s.target
        /\ q.level = s.level
    BY <1>1, VrcFieldsOf, ZenonT(30)
  <2>. HIDE DEF q
  <2>2. Predicted(q)
    BY <1>1, <2>1, PredictedSame
  <2>3. InForce(q) /\ q.base \in Int
    BY <1>1, <2>1 DEF InForce, PeriodsSame, RestSame
  <2>. QED
    BY <2>1, <2>2, <2>3 DEF VrcSays, q
<1>5. ASSUME NEW t \in Int PROVE VrcSays(VrcFrame(s, t))
  <2>. DEFINE q == VrcFrame(s, t)
  <2>1. /\ IsVrc(q) /\ PeriodsSame(q, s) /\ SawSame(q, s)
        /\ q.base = (s.base + t * VrcScale) % Fxp
    BY <1>1 DEF VrcFrame, IsVrc, Has, VrcFields, PeriodsSame, SawSame
  <2>. HIDE DEF q
  <2>2. q.base \in Int
    <3>1. Fxp \in Nat \ {0} /\ s.base + t * VrcScale \in Int
      BY <1>1, VrcAssumption DEF Fxp
    <3>. DEFINE y == s.base + t * VrcScale
    <3>. HIDE DEF y
    <3>2. y % Fxp \in Int
      BY <3>1, DivMod DEF y
    <3>. QED
      BY <2>1, <3>2 DEF y
  <2>. QED
    BY <1>2, <2>1, <2>2 DEF q
<1>. QED
  BY <1>3, <1>4, <1>5

LEMMA VrcPeriodSays ==
    ASSUME NEW s, VrcSays(s), NEW v \in Voices, NEW x, NEW b \in Nat, NEW on \in BOOLEAN
    PROVE  VrcSays(SetLow(s, v, x, b)) /\ VrcSays(SetHigh(s, v, x, b, on))
<1>1. IsVrc(s) /\ s.base \in Int /\ Predicted(s) /\ InForce(s)
  BY DEF VrcSays
<1>2. s.period \in [Voices -> Nat] /\ s.cur \in [Voices -> Nat \cup {NoPeriod}]
  BY <1>1 DEF IsVrc
<1>3. ASSUME NEW q, NEW p, q.on \subseteq s.on, q.period = [s.period EXCEPT ![v] = p],
             q.delay = DelayAfter(s, v, x), q.cur = CurAfter(s, v, x, p)
      PROVE  InForce(q)
  BY <1>1, <1>2, <1>3 DEF InForce, DelayAfter, CurAfter
<1>4. VrcSays(SetLow(s, v, x, b))
  <2>. DEFINE q == SetLow(s, v, x, b)
              p == LowOf(s, v, b)
  <2>1. LowMade(q, s, v, x, p)
    BY <1>1, SetLowFields
  <2>. HIDE DEF q, p
  <2>2. InForce(q)
    <3>1. CASE q = s
      BY <1>1, <3>1
    <3>2. CASE q # s
      BY <1>3, <2>1, <3>2 DEF LowMade
    <3>. QED
      BY <3>1, <3>2
  <2>3. Predicted(q)
    BY <1>1, <2>1, PredictedSame DEF LowMade
  <2>. QED
    BY <1>1, <2>1, <2>2, <2>3 DEF VrcSays, LowMade, q
<1>5. VrcSays(SetHigh(s, v, x, b, on))
  <2>. DEFINE q == SetHigh(s, v, x, b, on)
              p == HighOf(s, v, b)
  <2>1. HighMade(q, s, v, x, p, on)
    BY <1>1, SetHighFields
  <2>. HIDE DEF q, p
  <2>2. CASE on /\ v \notin s.on
    <3>1. /\ q.on = s.on \cup {v} /\ q.cur = [s.cur EXCEPT ![v] = p] /\ q.delay = s.delay \ {v}
          /\ IF v = "saw" THEN q.ph = s.ph % PartLen /\ q.accum = s.target /\ q.level = 0
             ELSE q.ph = s.ph /\ q.accum = s.accum /\ q.level = s.level
      BY <2>1, <2>2 DEF HighMade
    <3>2. InForce(q)
      BY <1>1, <1>2, <2>1, <3>1 DEF InForce, HighMade
    <3>3. Predicted(q)
      <4>1. CASE v = "saw"
        BY <1>1, <2>1, <3>1, <4>1, RestartSays DEF HighMade
      <4>2. CASE v # "saw"
        <5>1. SawSame(q, s)
          BY <2>1, <3>1, <4>2 DEF SawSame, HighMade
        <5>. QED
          BY <1>1, <5>1, PredictedSame
      <4>. QED
        BY <4>1, <4>2
    <3>. QED
      BY <1>1, <2>1, <3>2, <3>3 DEF VrcSays, HighMade, q
  <2>3. CASE ~(on /\ v \notin s.on)
    <3>1. /\ q.on = IF on THEN s.on ELSE s.on \ {v}
          /\ SawSame(q, s)
          /\ IF p = s.period[v] THEN q.cur = s.cur /\ q.delay = s.delay
             ELSE q.cur = CurAfter(s, v, x, p) /\ q.delay = DelayAfter(s, v, x)
      BY <2>1, <2>3 DEF HighMade
    <3>2. InForce(q)
      <4>1. CASE p = s.period[v]
        <5>1. q.period = s.period
          BY <1>2, <2>1, <4>1 DEF HighMade
        <5>. QED
          BY <1>1, <3>1, <4>1, <5>1 DEF InForce
      <4>2. CASE p # s.period[v]
        BY <1>3, <2>1, <3>1, <4>2 DEF HighMade
      <4>. QED
        BY <4>1, <4>2
    <3>3. Predicted(q)
      BY <1>1, <3>1, PredictedSame
    <3>. QED
      BY <1>1, <2>1, <3>2, <3>3 DEF VrcSays, HighMade, q
  <2>. QED
    BY <2>2, <2>3
<1>. QED
  BY <1>4, <1>5

\* At power on the saw's rate is 0.
LEMMA VrcPowerSays == VrcSays(PowerVrc)
<1>. DEFINE s == PowerVrc
<1>1. /\ Has(s, VrcFields) /\ s.period = [v \in Voices |-> 0] /\ s.cur = [v \in Voices |-> NoPeriod]
      /\ s.on = {} /\ s.ph = 0 /\ s.volume = 0 /\ s.level = 0 /\ ~s.pending /\ s.base = 0
      /\ s.accum = [i \in 1 .. Parts - 1 |-> 0] /\ s.target = [i \in 1 .. Parts - 1 |-> 0]
  BY DEF Has, VrcFields, PowerVrc
<1>. HIDE DEF s
<1>2. IsVrc(s) /\ s.base \in Int /\ InForce(s)
  BY <1>1 DEF IsVrc, InForce
<1>3. Parts \in Nat \ {0} /\ PartLen \in Nat \ {0} /\ AccRange \in Nat \ {0}
  BY VrcAssumption
<1>4. 0 \in 0 .. WaveLen - 1 /\ 0 \in 0 .. AccRange - 1 /\ 0 % AccRange = 0 /\ 0 \in Nat
  <2>1. Parts * PartLen \in Nat \ {0}
    BY <1>3
  <2>. QED
    BY <1>3, <2>1 DEF WaveLen
<1>5. ASSUME NEW i \in 1 .. Parts - 1
      PROVE  s.target[i] = (i * 0) % AccRange /\ s.accum[i] = (s.level + (i - Part(s.ph)) * 0) % AccRange
  <2>1. Part(s.ph) \in Int
    BY <1>1, <1>3 DEF Part
  <2>2. i * 0 = 0 /\ 0 + (i - Part(s.ph)) * 0 = 0
    BY <1>3, <2>1
  <2>. QED
    BY <1>1, <1>4, <2>2
<1>6. SawAt(s, 0)
  <2>1. DOMAIN s.accum = 1 .. Parts - 1 /\ DOMAIN s.target = 1 .. Parts - 1
    BY <1>1
  <2>. QED
    BY <1>1, <1>4, <1>5, <2>1 DEF SawAt
<1>7. Predicted(s)
  BY <1>1, <1>4, <1>6 DEF Predicted
<1>. QED
  BY <1>2, <1>7 DEF VrcSays, s

LEMMA VrcSaysWritten ==
    ASSUME NEW s, VrcSays(s)
    PROVE  VrcAsWritten(s)
BY PredictedLevel DEF VrcSays, VrcAsWritten, InForce

-----------------------------------------------------------------------------
(* The Sunsoft 5B: the envelope is where the documented one is. *)

Steps == EnvTop + 1
Ramp(n) == n \div Steps
Place(n) == n % Steps
Turns(shape) == shape.cont /\ shape.alt /\ ~shape.hold
Rising(shape, n) == IF shape.alt /\ Ramp(n) % 2 = 1 THEN ~shape.att ELSE shape.att
Rests(shape, n) == Ramp(n) > 0 /\ (~shape.cont \/ shape.hold)

\* After n clocks: it rests at the level to stop at, or it is at its place in the
\* ramp, on the side of the table that the next stop or turn is on.
EnvAt(shape, n, e) ==
    /\ e.stop = StopAt(shape) /\ e.level \in 0 .. EnvRange - 1
    /\ Rests(shape, n) => e.level = e.stop
    /\ ~Rests(shape, n) =>
          /\ e.inc = IF Rising(shape, n) THEN 1 ELSE -1
          /\ e.level % Steps = IF Rising(shape, n) THEN Place(n) ELSE EnvTop - Place(n)
          /\ ~shape.cont \/ shape.alt \/ shape.hold => e.level \in 0 .. EnvTop
          /\ e.turn = IF Turns(shape) THEN IF Rising(shape, n) THEN EnvTop + 1 ELSE EnvRange - 1
                      ELSE -1

EnvFields == {"level", "div", "period", "inc", "stop", "turn"}

LEMMA StepsAre ==
    /\ EnvTop \in Nat \ {0} /\ Steps \in Nat \ {0} /\ Steps > 1 /\ EnvRange = 2 * Steps
    /\ EnvTop = Steps - 1 /\ EnvRange \in Nat \ {0}
BY SunAssumption DEF Steps, EnvRange

\* The level one up or down, and its place in the table.
LEMMA LevelMoves ==
    ASSUME NEW l \in 0 .. EnvRange - 1
    PROVE  /\ (l + 1) % EnvRange = IF l = EnvRange - 1 THEN 0 ELSE l + 1
           /\ (l + (-1)) % EnvRange = IF l = 0 THEN EnvRange - 1 ELSE l - 1
           /\ ((l + 1) % EnvRange) % Steps = IF l % Steps = EnvTop THEN 0 ELSE (l % Steps) + 1
           /\ ((l + (-1)) % EnvRange) % Steps = IF l % Steps = 0 THEN EnvTop ELSE (l % Steps) - 1
           /\ l % Steps \in 0 .. EnvTop /\ (l \in 0 .. EnvTop => l % Steps = l)
           /\ (l - Steps \in 0 .. EnvTop => l % Steps = l - Steps)
<1>. DEFINE K == Steps
<1>1. K \in Nat \ {0} /\ K > 1 /\ EnvRange = 2 * K /\ EnvTop = K - 1
  BY StepsAre
<1>. HIDE DEF K
<1>2. ASSUME NEW x \in 0 .. 2 * K - 1
      PROVE  x % K = IF x < K THEN x ELSE x - K
  <2>1. CASE x < K
    <3>1. x \in 0 .. K - 1
      BY <1>1, <2>1
    <3>2. x % K = x
      BY <1>1, <3>1, ModSmall
    <3>. QED
      BY <2>1, <3>2
  <2>2. CASE x >= K
    <3>1. K * 1 + (x - K) = x /\ x - K \in 0 .. K - 1 /\ 1 \in Int
      BY <1>1, <2>2
    <3>2. (K * 1 + (x - K)) % K = x - K
      BY <1>1, <3>1, DivModUnique
    <3>3. ~(x < K)
      BY <1>1, <2>2
    <3>. QED
      BY <3>1, <3>2, <3>3
  <2>. QED
    BY <1>1, <2>1, <2>2
<1>3. l \in 0 .. 2 * K - 1
  BY <1>1
<1>4. (l + 1) % (2 * K) = IF l = 2 * K - 1 THEN 0 ELSE l + 1
  <2>1. 2 * K \in Nat \ {0}
    BY <1>1
  <2>2. CASE l = 2 * K - 1
    <3>1. (2 * K) * 1 + 0 = l + 1 /\ 0 \in 0 .. (2 * K) - 1 /\ 1 \in Int
      BY <1>1, <2>2
    <3>2. ((2 * K) * 1 + 0) % (2 * K) = 0
      BY <2>1, <3>1, DivModUnique
    <3>. QED
      BY <2>2, <3>1, <3>2
  <2>3. CASE l # 2 * K - 1
    <3>1. l + 1 \in 0 .. (2 * K) - 1
      BY <1>1, <1>3, <2>3
    <3>. QED
      BY <2>1, <2>3, <3>1, ModSmall
  <2>. QED
    BY <2>2, <2>3
<1>5. (l + (-1)) % (2 * K) = IF l = 0 THEN 2 * K - 1 ELSE l - 1
  <2>1. 2 * K \in Nat \ {0}
    BY <1>1
  <2>2. CASE l = 0
    <3>1. (2 * K) * (-1) + (2 * K - 1) = l + (-1) /\ 2 * K - 1 \in 0 .. (2 * K) - 1 /\ -1 \in Int
      BY <1>1, <2>2
    <3>2. ((2 * K) * (-1) + (2 * K - 1)) % (2 * K) = 2 * K - 1
      BY <2>1, <3>1, DivModUnique
    <3>. QED
      BY <2>2, <3>1, <3>2
  <2>3. CASE l # 0
    <3>1. l + (-1) \in 0 .. (2 * K) - 1 /\ l + (-1) = l - 1
      BY <1>1, <1>3, <2>3
    <3>2. (l + (-1)) % (2 * K) = l + (-1)
      BY <2>1, <3>1, ModSmall
    <3>. QED
      BY <2>3, <3>1, <3>2
  <2>. QED
    BY <2>2, <2>3
<1>. DEFINE up == IF l = 2 * K - 1 THEN 0 ELSE l + 1
            down == IF l = 0 THEN 2 * K - 1 ELSE l - 1
<1>6. up \in 0 .. 2 * K - 1 /\ down \in 0 .. 2 * K - 1
  BY <1>1, <1>3
<1>7. /\ up % K = IF up < K THEN up ELSE up - K
      /\ down % K = IF down < K THEN down ELSE down - K
      /\ l % K = IF l < K THEN l ELSE l - K
  BY <1>2, <1>3, <1>6
<1>8. up % K = IF l % K = K - 1 THEN 0 ELSE (l % K) + 1
  BY <1>1, <1>3, <1>7
<1>9. down % K = IF l % K = 0 THEN K - 1 ELSE (l % K) - 1
  BY <1>1, <1>3, <1>7
<1>10. l % K \in 0 .. K - 1 /\ (l \in 0 .. K - 1 => l % K = l) /\ (l - K \in 0 .. K - 1 => l % K = l - K)
  BY <1>1, <1>3, <1>7
<1>. QED
  BY <1>1, <1>4, <1>5, <1>8, <1>9, <1>10 DEF K

\* A clock moves on in the ramp or begins the next, of which the third follows the
\* fourth.
LEMMA ClockCounted ==
    ASSUME NEW n \in 0 .. 2 * EnvRange - 1
    PROVE  LET m == CountClock(n)
           IN /\ m \in 0 .. 2 * EnvRange - 1 /\ Ramp(n) \in 0 .. 3 /\ Place(n) \in 0 .. EnvTop
              /\ Place(n) # EnvTop => Ramp(m) = Ramp(n) /\ Place(m) = Place(n) + 1
              /\ Place(n) = EnvTop => /\ Ramp(m) = IF Ramp(n) = 3 THEN 2 ELSE Ramp(n) + 1
                                      /\ Place(m) = 0
<1>. DEFINE K == Steps
            m == CountClock(n)
            r == Ramp(n)
            p == Place(n)
<1>1. K \in Nat \ {0} /\ K > 1 /\ EnvRange = 2 * K /\ EnvTop = K - 1
  BY StepsAre
<1>2. n = K * r + p /\ r \in Int /\ p \in 0 .. K - 1
  BY <1>1, DivMod DEF Ramp, Place
<1>3. /\ m = IF n + 1 < 4 * K THEN n + 1 ELSE n + 1 - 2 * K
      /\ n \in 0 .. 4 * K - 1
  BY <1>1 DEF CountClock
<1>. HIDE DEF r, p, m, K
<1>4. r \in 0 .. 3
  <2>1. r >= 0
    <3>1. CASE r <= -1
      <4>1. K * r <= K * (-1)
        BY <1>1, <1>2, <3>1
      <4>. QED
        BY <1>1, <1>2, <1>3, <4>1
    <3>. QED
      BY <1>2, <3>1
  <2>2. r <= 3
    <3>1. CASE r >= 4
      <4>1. K * r >= K * 4
        BY <1>1, <1>2, <3>1
      <4>. QED
        BY <1>1, <1>2, <1>3, <4>1
    <3>. QED
      BY <1>2, <3>1
  <2>. QED
    BY <1>2, <2>1, <2>2
<1>5. ASSUME p # K - 1 PROVE m \in 0 .. 4 * K - 1 /\ m \div K = r /\ m % K = p + 1
  <2>1. n + 1 < 4 * K
    <3>1. K * r <= K * 3
      BY <1>1, <1>4
    <3>. QED
      BY <1>1, <1>2, <1>3, <1>5, <3>1
  <2>2. m = K * r + (p + 1) /\ p + 1 \in 0 .. K - 1 /\ m \in 0 .. 4 * K - 1
    BY <1>1, <1>2, <1>3, <1>5, <2>1
  <2>3. (K * r + (p + 1)) \div K = r /\ (K * r + (p + 1)) % K = p + 1
    BY <1>1, <1>2, <2>2, DivModUnique
  <2>. QED
    BY <2>2, <2>3
<1>6. ASSUME p = K - 1
      PROVE  m \in 0 .. 4 * K - 1 /\ m \div K = (IF r = 3 THEN 2 ELSE r + 1) /\ m % K = 0
  <2>. DEFINE r2 == IF r = 3 THEN 2 ELSE r + 1
  <2>1. n + 1 = K * r + K
    BY <1>1, <1>2, <1>6
  <2>2. m = K * r2 + 0 /\ m \in 0 .. 4 * K - 1
    <3>1. CASE r = 0
      BY <1>1, <1>3, <2>1, <3>1
    <3>2. CASE r = 1
      BY <1>1, <1>3, <2>1, <3>2
    <3>3. CASE r = 2
      BY <1>1, <1>3, <2>1, <3>3
    <3>4. CASE r = 3
      BY <1>1, <1>3, <2>1, <3>4
    <3>. QED
      BY <1>4, <3>1, <3>2, <3>3, <3>4
  <2>3. r2 \in Int /\ 0 \in 0 .. K - 1
    BY <1>1, <1>4
  <2>. HIDE DEF r2
  <2>4. (K * r2 + 0) \div K = r2 /\ (K * r2 + 0) % K = 0
    BY <1>1, <2>3, DivModUnique
  <2>. QED
    BY <2>2, <2>4 DEF r2
<1>7. /\ m \in 0 .. 4 * K - 1 /\ r \in 0 .. 3 /\ p \in 0 .. K - 1
      /\ p # K - 1 => m \div K = r /\ m % K = p + 1
      /\ p = K - 1 => m \div K = (IF r = 3 THEN 2 ELSE r + 1) /\ m % K = 0
  BY <1>2, <1>4, <1>5, <1>6
<1>8. EnvTop = K - 1 /\ 2 * EnvRange = 4 * K
  BY <1>1
<1>. QED
  BY <1>7, <1>8 DEF r, p, m, Ramp, Place, K

LEMMA AdvanceFields ==
    ASSUME NEW e, Has(e, EnvFields)
    PROVE  LET q == Advance(e)
               level == (e.level + e.inc) % EnvRange
           IN /\ Has(q, EnvFields) /\ q.stop = e.stop
              /\ e.level = e.stop => q = e
              /\ e.level # e.stop /\ level # e.turn =>
                    q.level = level /\ q.inc = e.inc /\ q.turn = e.turn
              /\ e.level # e.stop /\ level = e.turn =>
                    /\ q.level = EnvRange - 1 - level /\ q.inc = -e.inc
                    /\ q.turn = EnvRange + EnvTop - e.turn
BY DEF Advance, Has, EnvFields

\* A clock of the envelope.
LEMMA EnvMoves ==
    ASSUME NEW shape \in Shapes, NEW n \in 0 .. 2 * EnvRange - 1, NEW e, Has(e, EnvFields),
           EnvAt(shape, n, e)
    PROVE  EnvAt(shape, CountClock(n), Advance(e))
<1>. DEFINE m == CountClock(n)
            q == Advance(e)
            up == (e.level + 1) % EnvRange
            down == (e.level + (-1)) % EnvRange
            l == e.level
            K == Steps
            p == Place(n)
            r == Ramp(n)
            rises == Rising(shape, n)
<1>1. /\ K \in Nat \ {0} /\ K > 1 /\ EnvRange = 2 * K /\ EnvTop = K - 1 /\ EnvTop \in Nat \ {0}
  BY StepsAre
<1>2. /\ m \in 0 .. 2 * EnvRange - 1 /\ r \in 0 .. 3 /\ p \in 0 .. EnvTop
      /\ p # EnvTop => Ramp(m) = r /\ Place(m) = p + 1
      /\ p = EnvTop => Ramp(m) = (IF r = 3 THEN 2 ELSE r + 1) /\ Place(m) = 0
  BY ClockCounted
<1>3. l \in 0 .. EnvRange - 1 /\ e.stop = StopAt(shape)
  BY DEF EnvAt
<1>4. /\ up = IF l = EnvRange - 1 THEN 0 ELSE l + 1
      /\ down = IF l = 0 THEN EnvRange - 1 ELSE l - 1
      /\ up % Steps = IF l % Steps = EnvTop THEN 0 ELSE (l % Steps) + 1
      /\ down % Steps = IF l % Steps = 0 THEN EnvTop ELSE (l % Steps) - 1
      /\ l % Steps \in 0 .. EnvTop /\ (l \in 0 .. EnvTop => l % Steps = l)
  BY <1>3, LevelMoves
<1>5. /\ q.stop = e.stop
      /\ l = e.stop => q = e
      /\ l # e.stop /\ (l + e.inc) % EnvRange # e.turn =>
            q.level = (l + e.inc) % EnvRange /\ q.inc = e.inc /\ q.turn = e.turn
      /\ l # e.stop /\ (l + e.inc) % EnvRange = e.turn =>
            /\ q.level = EnvRange - 1 - ((l + e.inc) % EnvRange) /\ q.inc = -e.inc
            /\ q.turn = EnvRange + EnvTop - e.turn
  BY AdvanceFields
<1>6. shape.cont \in BOOLEAN /\ shape.att \in BOOLEAN /\ shape.alt \in BOOLEAN /\ shape.hold \in BOOLEAN
  BY DEF Shapes
<1>7. /\ ~shape.cont => e.stop = IF shape.att THEN EnvTop + 1 ELSE 0
      /\ shape.cont /\ ~shape.hold => e.stop = -1
      /\ shape.cont /\ shape.hold => e.stop = IF shape.att THEN IF shape.alt THEN EnvTop + 1 ELSE EnvTop
                                              ELSE IF shape.alt THEN EnvRange - 1 ELSE 0
  BY <1>3, <1>6 DEF StopAt
<1>8. up \in 0 .. EnvRange - 1 /\ down \in 0 .. EnvRange - 1
  BY <1>1, <1>3, <1>4
<1>9. CASE Rests(shape, n)
  <2>1. l = e.stop /\ q = e /\ (~shape.cont \/ shape.hold) /\ r > 0
    BY <1>5, <1>9 DEF EnvAt, Rests
  <2>2. Ramp(m) > 0
    BY <1>2, <2>1
  <2>. HIDE DEF q, m, r
  <2>. QED
    BY <1>3, <2>1, <2>2 DEF EnvAt, Rests, q, m
<1>10. CASE ~Rests(shape, n)
  <2>1. /\ e.inc = IF rises THEN 1 ELSE -1
        /\ l % Steps = IF rises THEN p ELSE EnvTop - p
        /\ ~shape.cont \/ shape.alt \/ shape.hold => l \in 0 .. EnvTop
        /\ e.turn = IF Turns(shape) THEN IF rises THEN EnvTop + 1 ELSE EnvRange - 1 ELSE -1
    BY <1>10 DEF EnvAt
  <2>2. (~shape.cont \/ shape.hold) => r = 0
    BY <1>2, <1>10 DEF Rests
  <2>3. r = 0 => rises = shape.att
    BY <1>1 DEF Rising
  <2>. DEFINE next == IF rises THEN up ELSE down
  <2>4. (l + e.inc) % EnvRange = next
    BY <2>1
  <2>5. /\ next \in 0 .. EnvRange - 1
        /\ next = IF rises THEN (IF l = EnvRange - 1 THEN 0 ELSE l + 1)
                  ELSE IF l = 0 THEN EnvRange - 1 ELSE l - 1
        /\ next % Steps = IF rises THEN (IF l % Steps = EnvTop THEN 0 ELSE (l % Steps) + 1)
                          ELSE IF l % Steps = 0 THEN EnvTop ELSE (l % Steps) - 1
    BY <1>4, <1>8
  <2>6. CASE p # EnvTop
    <3>1. Ramp(m) = r /\ Place(m) = p + 1
      BY <1>2, <2>6
    <3>2. Rising(shape, m) = rises /\ ~Rests(shape, m)
      BY <1>10, <3>1 DEF Rising, Rests
    <3>. HIDE DEF m, q, next, p, r, rises, l, up, down
    <3>3. l # e.stop
      BY <1>1, <1>2, <1>3, <1>4, <1>6, <1>7, <2>1, <2>2, <2>3, <2>6
    <3>4. next # e.turn
      BY <1>1, <1>2, <1>3, <1>4, <1>6, <2>1, <2>5, <2>6 DEF Turns
    <3>5. q.level = next /\ q.inc = e.inc /\ q.turn = e.turn /\ q.stop = StopAt(shape)
      BY <1>3, <1>5, <2>4, <3>3, <3>4
    <3>6. next % Steps = IF rises THEN p + 1 ELSE EnvTop - (p + 1)
      BY <1>1, <1>2, <2>1, <2>5, <2>6
    <3>7. ~shape.cont \/ shape.alt \/ shape.hold => next \in 0 .. EnvTop
      BY <1>1, <1>2, <1>3, <1>4, <2>1, <2>5, <2>6
    <3>. HIDE DEF K
    <3>. QED
      BY <2>1, <2>5, <3>1, <3>2, <3>5, <3>6, <3>7 DEF EnvAt, q, m, rises
  <2>7. CASE p = EnvTop
    <3>1. Ramp(m) = (IF r = 3 THEN 2 ELSE r + 1) /\ Place(m) = 0
      BY <1>2, <2>7
    <3>2. Ramp(m) > 0 /\ Ramp(m) % 2 = IF r % 2 = 1 THEN 0 ELSE 1
      BY <1>2, <3>1
    <3>3. Rising(shape, m) = IF shape.alt THEN ~rises ELSE rises
      BY <1>2, <1>6, <3>2 DEF Rising
    <3>4. Rests(shape, m) = (~shape.cont \/ shape.hold)
      BY <3>2 DEF Rests
    <3>5. r % 2 \in {0, 1}
      BY <1>2
    <3>. HIDE DEF m, q, next, p, r, rises, l, up, down
    <3>6. CASE ~shape.cont \/ shape.hold
      <4>1. l = IF shape.att THEN EnvTop ELSE 0
        BY <1>1, <1>4, <2>1, <2>2, <2>3, <2>7, <3>6
      <4>2. next = IF shape.att THEN EnvTop + 1 ELSE EnvRange - 1
        BY <1>1, <2>2, <2>3, <2>5, <3>6, <4>1
      <4>3. next # e.turn
        BY <1>1, <2>1, <2>5, <3>6 DEF Turns
      <4>4. l # e.stop => next = e.stop /\ q.level = next
        BY <1>1, <1>5, <1>6, <1>7, <2>4, <3>6, <4>1, <4>2, <4>3
      <4>5. q.level = e.stop /\ q.level \in 0 .. EnvRange - 1 /\ q.stop = StopAt(shape)
        BY <1>3, <1>5, <2>5, <4>4 DEF l
      <4>. QED
        BY <1>5, <3>4, <3>6, <4>5 DEF EnvAt, q, m
    <3>7. CASE shape.cont /\ ~shape.hold /\ shape.alt
      <4>1. l # e.stop /\ l = (IF rises THEN EnvTop ELSE 0)
        BY <1>1, <1>3, <1>4, <1>7, <2>1, <2>7, <3>7
      <4>2. next = e.turn /\ e.turn = IF rises THEN EnvTop + 1 ELSE EnvRange - 1
        BY <1>1, <2>1, <2>5, <3>7, <4>1 DEF Turns
      <4>3. /\ q.level = EnvRange - 1 - next /\ q.inc = -e.inc
            /\ q.turn = EnvRange + EnvTop - e.turn /\ q.stop = StopAt(shape)
        BY <1>3, <1>5, <2>4, <4>1, <4>2
      <4>4. /\ q.level = IF rises THEN EnvTop ELSE 0
            /\ q.inc = IF rises THEN -1 ELSE 1
            /\ q.turn = IF rises THEN EnvRange - 1 ELSE EnvTop + 1
        BY <1>1, <2>1, <4>2, <4>3
      <4>5. q.level \in 0 .. EnvRange - 1 /\ q.level \in 0 .. EnvTop
        BY <1>1, <4>4
      <4>6. q.level % Steps = q.level
        BY <4>5, LevelMoves
      <4>7. ~Rests(shape, m) /\ Rising(shape, m) = ~rises
        BY <3>3, <3>4, <3>7
      <4>8. Turns(shape)
        BY <3>7 DEF Turns
      <4>9. EnvTop - 0 = EnvTop
        BY <1>1
      <4>. HIDE DEF K
      <4>. QED
        BY <3>1, <4>3, <4>4, <4>5, <4>6, <4>7, <4>8, <4>9 DEF EnvAt, q, m
    <3>8. CASE shape.cont /\ ~shape.hold /\ ~shape.alt
      <4>1. l # e.stop /\ next # e.turn
        BY <1>1, <1>3, <1>7, <2>1, <2>5, <3>8 DEF Turns
      <4>2. q.level = next /\ q.inc = e.inc /\ q.turn = e.turn /\ q.stop = StopAt(shape)
        BY <1>3, <1>5, <2>4, <4>1
      <4>3. next % Steps = IF rises THEN 0 ELSE EnvTop
        BY <1>1, <2>1, <2>5, <2>7
      <4>4. ~Rests(shape, m) /\ Rising(shape, m) = rises /\ EnvTop - 0 = EnvTop
        <5>1. ~Rests(shape, m)
          BY <3>4, <3>8
        <5>2. Rising(shape, m) = rises
          BY <3>3, <3>8, Zenon
        <5>. QED
          BY <1>1, <5>1, <5>2
      <4>. HIDE DEF K
      <4>. QED
        BY <2>1, <2>5, <3>1, <3>8, <4>2, <4>3, <4>4 DEF EnvAt, q, m, rises
    <3>. QED
      BY <1>6, <3>6, <3>7, <3>8
  <2>. QED
    BY <2>6, <2>7
<1>. QED
  BY <1>9, <1>10

\* Where the envelope is is where the documented one is.
LEMMA EnvIsDocumented ==
    ASSUME NEW shape \in Shapes, NEW n \in 0 .. 2 * EnvRange - 1, NEW e, EnvAt(shape, n, e)
    PROVE  e.level % Steps = Envelope(shape, n) /\ Envelope(shape, n) \in 0 .. EnvTop
<1>1. /\ EnvTop \in Nat \ {0} /\ Steps \in Nat \ {0} /\ EnvRange = 2 * Steps /\ EnvTop = Steps - 1
  BY StepsAre
<1>2. Ramp(n) \in 0 .. 3 /\ Place(n) \in 0 .. EnvTop
  BY ClockCounted
<1>3. shape.cont \in BOOLEAN /\ shape.att \in BOOLEAN /\ shape.alt \in BOOLEAN /\ shape.hold \in BOOLEAN
  BY DEF Shapes
<1>4. Envelope(shape, n) =
        IF Ramp(n) > 0 /\ ~shape.cont THEN 0
        ELSE IF Ramp(n) > 0 /\ shape.hold THEN IF shape.att # shape.alt THEN EnvTop ELSE 0
        ELSE IF Rising(shape, n) THEN Place(n) ELSE EnvTop - Place(n)
  BY DEF Envelope, Ramp, Place, Rising, Steps
<1>5. e.stop = StopAt(shape) /\ e.level \in 0 .. EnvRange - 1
  BY DEF EnvAt
<1>6. CASE Rests(shape, n)
  <2>1. e.level = StopAt(shape) /\ Ramp(n) > 0 /\ (~shape.cont \/ shape.hold)
    BY <1>5, <1>6 DEF EnvAt, Rests
  <2>2. /\ e.level \in 0 .. EnvTop => e.level % Steps = e.level
        /\ e.level - Steps \in 0 .. EnvTop => e.level % Steps = e.level - Steps
    BY <1>5, LevelMoves
  <2>3. CASE ~shape.cont
    <3>1. e.level = IF shape.att THEN EnvTop + 1 ELSE 0
      BY <2>1, <2>3 DEF StopAt
    <3>2. e.level % Steps = 0
      BY <1>1, <2>2, <3>1
    <3>. QED
      BY <1>1, <1>4, <2>1, <2>3, <3>2
  <2>4. CASE shape.cont
    <3>1. e.level = IF shape.att THEN IF shape.alt THEN EnvTop + 1 ELSE EnvTop
                    ELSE IF shape.alt THEN EnvRange - 1 ELSE 0
      BY <2>1, <2>4 DEF StopAt
    <3>2. e.level % Steps = IF shape.att # shape.alt THEN EnvTop ELSE 0
      BY <1>1, <1>3, <2>2, <3>1
    <3>. QED
      BY <1>1, <1>3, <1>4, <2>1, <2>4, <3>2
  <2>. QED
    BY <2>3, <2>4
<1>7. CASE ~Rests(shape, n)
  <2>1. e.level % Steps = IF Rising(shape, n) THEN Place(n) ELSE EnvTop - Place(n)
    BY <1>7 DEF EnvAt
  <2>2. ~(Ramp(n) > 0 /\ ~shape.cont) /\ ~(Ramp(n) > 0 /\ shape.hold)
    BY <1>7 DEF Rests
  <2>3. EnvTop - Place(n) \in 0 .. EnvTop
    BY <1>1, <1>2
  <2>. QED
    BY <1>2, <1>4, <2>1, <2>2, <2>3
<1>. QED
  BY <1>6, <1>7

SunFields == {"tone", "noise", "off", "volumes", "ptr", "env", "prev", "fixed", "enveloped",
              "shape", "clocks"}

\* What the chip plays from: the volumes, the envelope, and which volume a voice has.
SunSays(s) ==
    /\ Has(s, SunFields) /\ Has(s.env, EnvFields) /\ Has(s.volumes, 0 .. Env) /\ Has(s.ptr, Tones)
    /\ Has(s.fixed, Tones) /\ s.prev \in Int
    /\ s.shape \in Shapes /\ s.clocks \in 0 .. 2 * EnvRange - 1
    /\ EnvAt(s.shape, s.clocks, s.env) /\ s.volumes[Env] = Db(s.env.level)
    /\ \A w \in Tones : /\ s.volumes[w] = Db(2 * s.fixed[w] + 1)
                        /\ s.ptr[w] = IF w \in s.enveloped THEN Env ELSE w

\* The envelope that is the same but for its divider and its period.
EnvSame(f, e) == /\ Has(f, EnvFields) /\ f.level = e.level /\ f.inc = e.inc /\ f.stop = e.stop
                 /\ f.turn = e.turn

\* What only the tones, the noise and the mixer are about changes nothing else.
MixSame(q, s) ==
    /\ Has(q, SunFields) /\ EnvSame(q.env, s.env) /\ q.volumes = s.volumes /\ q.ptr = s.ptr
    /\ q.prev \in Int /\ q.fixed = s.fixed /\ q.enveloped = s.enveloped /\ q.shape = s.shape
    /\ q.clocks = s.clocks

LEMMA EnvSameAt ==
    ASSUME NEW e, NEW f, EnvSame(f, e), NEW shape, NEW n, EnvAt(shape, n, e)
    PROVE  EnvAt(shape, n, f)
BY DEF EnvSame, EnvAt

LEMMA MixSays ==
    ASSUME NEW s, SunSays(s), NEW q, MixSame(q, s)
    PROVE  SunSays(q)
<1>1. EnvAt(q.shape, q.clocks, q.env)
  BY EnvSameAt DEF MixSame, SunSays
<1>. QED
  BY <1>1 DEF MixSame, SunSays, EnvSame

LEMMA ClockEnvSays ==
    ASSUME NEW s, SunSays(s)
    PROVE  SunSays(ClockEnv(s)) /\ ClockEnv(s).prev = s.prev
<1>. DEFINE q == ClockEnv(s)
            e == Advance(s.env)
            d == [e EXCEPT !.div = 0]
<1>1. CASE s.env.div + 1 < s.env.period
  <2>1. MixSame(q, s) /\ q.prev = s.prev
    BY <1>1 DEF ClockEnv, SunSays, MixSame, EnvSame, Has, SunFields, EnvFields
  <2>. HIDE DEF q
  <2>. QED
    BY <2>1, MixSays DEF q
<1>2. CASE ~(s.env.div + 1 < s.env.period)
  <2>1. /\ Has(e, EnvFields) /\ EnvAt(s.shape, CountClock(s.clocks), e)
        /\ s.env.level = s.env.stop => e = s.env
    <3>1. Has(s.env, EnvFields) /\ EnvAt(s.shape, s.clocks, s.env) /\ s.shape \in Shapes
          /\ s.clocks \in 0 .. 2 * EnvRange - 1
      BY DEF SunSays
    <3>. HIDE DEF e
    <3>2. EnvAt(s.shape, CountClock(s.clocks), e)
      BY <3>1, EnvMoves DEF e
    <3>3. Has(e, EnvFields) /\ (s.env.level = s.env.stop => e = s.env)
      BY <3>1, AdvanceFields DEF e
    <3>. QED
      BY <3>2, <3>3
  <2>2. /\ q.env = d /\ q.volumes = [s.volumes EXCEPT ![Env] =
                                        IF s.env.level = s.env.stop THEN @ ELSE Db(e.level)]
        /\ q.clocks = CountClock(s.clocks) /\ Has(q, SunFields) /\ q.ptr = s.ptr
        /\ q.prev = s.prev /\ q.fixed = s.fixed /\ q.enveloped = s.enveloped /\ q.shape = s.shape
    <3>. QED
      BY <1>2 DEF ClockEnv, SunSays, Has, SunFields
  <2>. HIDE DEF e, q
  <2>3. EnvSame(d, e)
    BY <2>1 DEF EnvSame, Has, EnvFields
  <2>. HIDE DEF d
  <2>4. EnvAt(q.shape, q.clocks, q.env)
    BY <2>1, <2>2, <2>3, EnvSameAt
  <2>5. q.volumes[Env] = Db(q.env.level)
    <3>1. q.env.level = e.level /\ (s.env.level = s.env.stop => e.level = s.env.level)
      BY <2>1, <2>2, <2>3 DEF EnvSame
    <3>2. q.volumes[Env] = IF s.env.level = s.env.stop THEN s.volumes[Env] ELSE Db(e.level)
      BY <2>2 DEF SunSays, Has, Env
    <3>. QED
      BY <3>1, <3>2 DEF SunSays
  <2>6. Has(q.volumes, 0 .. Env) /\ \A w \in Tones : q.volumes[w] = s.volumes[w]
    BY <2>2 DEF SunSays, Has, Env, Tones
  <2>7. q.clocks \in 0 .. 2 * EnvRange - 1
    BY <2>2, ClockCounted DEF SunSays
  <2>8. Has(q.env, EnvFields)
    BY <2>2, <2>3 DEF EnvSame
  <2>. QED
    BY <2>2, <2>4, <2>5, <2>6, <2>7, <2>8 DEF SunSays, q
<1>. QED
  BY <1>1, <1>2

LEMMA SunStepSays ==
    ASSUME NEW s, SunSays(s)
    PROVE  SunSays(SunStep(s)) /\ SunStep(s).prev = s.prev
<1>. DEFINE m == [s EXCEPT !.out = Resample(@, SunScale, SunFull),
                           !.tone = [w \in Tones |-> ClockTone(@[w])],
                           !.noise = ClockNoise(@)]
<1>1. MixSame(m, s) /\ m.prev = s.prev
  BY DEF SunSays, MixSame, EnvSame, Has, SunFields
<1>2. SunStep(s) = ClockEnv(m)
  BY DEF SunStep
<1>. HIDE DEF m
<1>3. SunSays(m)
  BY <1>1, MixSays
<1>. QED
  BY <1>1, <1>2, <1>3, ClockEnvSays

LEMMA SunRunSays ==
    ASSUME NEW s, SunSays(s), NEW t \in Int
    PROVE  SunSays(RunSun(s, t)) /\ SunSays(SunFrame(s, t))
<1>. DEFINE steps == ((t - s.prev) % Stamp) \div SunCycles
            F == SunCourseOf(s, steps)
            q == RunSun(s, t)
            good == {n \in 0 .. steps : SunSays(F[n])}
<1>1. q = [F[steps] EXCEPT !.prev = @ + steps * SunCycles]
  BY DEF RunSun, SunCourseOf
<1>2. steps \in Nat
  <2>1. Stamp \in Nat \ {0} /\ SunCycles \in Nat \ {0}
    BY SunAssumption
  <2>. DEFINE x == t - s.prev
              y == x % Stamp
  <2>2. x \in Int
    BY DEF SunSays
  <2>. HIDE DEF x
  <2>3. y \in 0 .. Stamp - 1
    BY <2>1, <2>2, DivMod
  <2>. HIDE DEF y
  <2>4. y \div SunCycles \in Nat
    BY <2>1, <2>3
  <2>. QED
    BY <2>4 DEF x, y
<1>. HIDE DEF steps
<1>3. F[0] = s /\ \A n \in 1 .. steps : F[n] = SunStep(F[n - 1])
  BY <1>2, SunCourse
<1>. HIDE DEF F
<1>4. 0 \in good
  BY <1>2, <1>3
<1>5. ASSUME NEW n \in 0 .. steps, n # 0, n - 1 \in good PROVE n \in good
  <2>1. n \in 1 .. steps /\ SunSays(F[n - 1])
    BY <1>2, <1>5
  <2>2. F[n] = SunStep(F[n - 1])
    BY <1>3, <2>1
  <2>. QED
    BY <1>5, <2>1, <2>2, SunStepSays
<1>6. SunSays(F[steps])
  <2>1. 0 .. steps \subseteq good
    <3>. HIDE DEF good
    <3>. QED
      BY <1>2, <1>4, <1>5, UpToBound
  <2>. QED
    BY <1>2, <2>1
<1>. DEFINE r == F[steps]
            x == r.prev + steps * SunCycles
<1>7. x \in Int
  BY <1>2, <1>6, SunAssumption DEF SunSays
<1>8. SunSays(r) /\ q = [r EXCEPT !.prev = x]
  BY <1>1, <1>6
<1>. HIDE DEF r, x, q
<1>9. MixSame(q, r)
  BY <1>7, <1>8 DEF SunSays, MixSame, EnvSame, Has, SunFields
<1>10. SunSays(q)
  BY <1>8, <1>9, MixSays
<1>11. SunSays(SunFrame(s, t))
  <2>. DEFINE f == SunFrame(s, t)
  <2>1. MixSame(f, s)
    BY DEF SunFrame, SunSays, MixSame, EnvSame, Has, SunFields
  <2>. HIDE DEF f
  <2>. QED
    BY <2>1, MixSays DEF f
<1>. QED
  BY <1>10, <1>11 DEF q

\* The registers.
LEMMA SunWriteSays ==
    ASSUME NEW s, SunSays(s)
    PROVE  /\ \A w \in Tones : \A high, v : SunSays(SetTone(s, w, high, v))
           /\ \A v : SunSays(SetNoise(s, v))
           /\ \A off : SunSays(SetMixer(s, off))
           /\ \A high, v : SunSays(SetEnvPeriod(s, high, v))
<1>1. ASSUME NEW w \in Tones, NEW high, NEW v PROVE SunSays(SetTone(s, w, high, v))
  <2>. DEFINE q == SetTone(s, w, high, v)
  <2>1. MixSame(q, s)
    BY DEF SetTone, SunSays, MixSame, EnvSame, Has, SunFields
  <2>. HIDE DEF q
  <2>. QED
    BY <2>1, MixSays DEF q
<1>2. ASSUME NEW v PROVE SunSays(SetNoise(s, v))
  <2>. DEFINE q == SetNoise(s, v)
  <2>1. MixSame(q, s)
    BY DEF SetNoise, SunSays, MixSame, EnvSame, Has, SunFields
  <2>. HIDE DEF q
  <2>. QED
    BY <2>1, MixSays DEF q
<1>3. ASSUME NEW off PROVE SunSays(SetMixer(s, off))
  <2>. DEFINE q == SetMixer(s, off)
  <2>1. MixSame(q, s)
    BY DEF SetMixer, SunSays, MixSame, EnvSame, Has, SunFields
  <2>. HIDE DEF q
  <2>. QED
    BY <2>1, MixSays DEF q
<1>4. ASSUME NEW high, NEW v PROVE SunSays(SetEnvPeriod(s, high, v))
  <2>. DEFINE q == SetEnvPeriod(s, high, v)
  <2>1. MixSame(q, s)
    BY DEF SetEnvPeriod, SunSays, MixSame, EnvSame, Has, SunFields, EnvFields
  <2>. HIDE DEF q
  <2>. QED
    BY <2>1, MixSays DEF q
<1>. QED
  BY <1>1, <1>2, <1>3, <1>4

LEMMA SunVolumeSays ==
    ASSUME NEW s, SunSays(s), NEW w \in Tones, NEW v, NEW enveloped \in BOOLEAN
    PROVE  SunSays(SetSunVolume(s, w, v, enveloped))
<1>. DEFINE q == SetSunVolume(s, w, v, enveloped)
<1>1. /\ Has(q, SunFields) /\ q.env = s.env /\ q.prev = s.prev /\ q.shape = s.shape
      /\ q.clocks = s.clocks
      /\ q.ptr = [s.ptr EXCEPT ![w] = IF enveloped THEN Env ELSE w]
      /\ q.volumes = [s.volumes EXCEPT ![w] = Db(2 * v + 1)]
      /\ q.fixed = [s.fixed EXCEPT ![w] = v]
      /\ q.enveloped = IF enveloped THEN s.enveloped \cup {w} ELSE s.enveloped \ {w}
  BY DEF SetSunVolume, SunSays, Has, SunFields
<1>. HIDE DEF q
<1>2. Tones \subseteq 0 .. Env /\ Env \notin Tones /\ Env \in 0 .. Env
  BY DEF Tones, Env
<1>3. Has(q.volumes, 0 .. Env) /\ Has(q.ptr, Tones) /\ Has(q.fixed, Tones) /\ q.volumes[Env] = s.volumes[Env]
  BY <1>1, <1>2 DEF SunSays, Has
<1>4. ASSUME NEW u \in Tones
      PROVE  q.volumes[u] = Db(2 * q.fixed[u] + 1) /\ q.ptr[u] = IF u \in q.enveloped THEN Env ELSE u
  BY <1>1, <1>2 DEF SunSays, Has
<1>. QED
  BY <1>1, <1>3, <1>4 DEF SunSays, q

\* A shape begins with its first level.
LEMMA SunShapeSays ==
    ASSUME NEW s, SunSays(s), NEW shape \in Shapes
    PROVE  SunSays(SetShape(s, shape))
<1>. DEFINE q == SetShape(s, shape)
            level == IF shape.att THEN 0 ELSE EnvTop
<1>1. /\ Has(q, SunFields) /\ Has(q.env, EnvFields) /\ q.prev = s.prev /\ q.shape = shape /\ q.clocks = 0
      /\ q.ptr = s.ptr /\ q.fixed = s.fixed /\ q.enveloped = s.enveloped
      /\ q.env.level = level /\ q.env.inc = (IF shape.att THEN 1 ELSE -1)
      /\ q.env.stop = StopAt(shape) /\ q.env.turn = TurnAt(shape)
      /\ q.volumes = [s.volumes EXCEPT ![Env] = Db(level)]
  BY DEF SetShape, SunSays, Has, SunFields, EnvFields
<1>. HIDE DEF q
<1>2. EnvTop \in Nat \ {0} /\ Steps \in Nat \ {0} /\ EnvRange = 2 * Steps /\ EnvTop = Steps - 1
  BY StepsAre
<1>3. Ramp(0) = 0 /\ Place(0) = 0
  <2>1. Steps * 0 + 0 = 0 /\ 0 \in 0 .. Steps - 1 /\ 0 \in Int
    BY <1>2
  <2>2. (Steps * 0 + 0) \div Steps = 0 /\ (Steps * 0 + 0) % Steps = 0
    BY <1>2, <2>1, DivModUnique
  <2>. QED
    BY <2>1, <2>2 DEF Ramp, Place
<1>4. Rising(shape, 0) = shape.att /\ ~Rests(shape, 0)
  BY <1>3 DEF Rising, Rests
<1>5. level \in 0 .. EnvTop /\ level \in 0 .. EnvRange - 1 /\ EnvTop - 0 = EnvTop /\ 0 \in 0 .. 2 * EnvRange - 1
  BY <1>2
<1>6. level % Steps = level
  BY <1>5, LevelMoves
<1>7. EnvAt(shape, 0, q.env)
  <2>1. q.env.turn = IF Turns(shape) THEN IF shape.att THEN EnvTop + 1 ELSE EnvRange - 1 ELSE -1
    BY <1>1 DEF TurnAt, Turns
  <2>. HIDE DEF Steps
  <2>. QED
    BY <1>1, <1>3, <1>4, <1>5, <1>6, <2>1 DEF EnvAt
<1>. HIDE DEF level
<1>8. /\ Has(q.volumes, 0 .. Env) /\ q.volumes[Env] = Db(level)
      /\ \A w \in Tones : q.volumes[w] = s.volumes[w]
  BY <1>1 DEF SunSays, Has, Env, Tones
<1>. QED
  BY <1>1, <1>5, <1>7, <1>8 DEF SunSays, q

LEMMA SunPowerSays == SunSays(PowerSun)
<1>. DEFINE s == PowerSun
<1>1. /\ Has(s, SunFields) /\ Has(s.env, EnvFields) /\ s.volumes = [i \in 0 .. Env |-> 0]
      /\ s.ptr = [w \in Tones |-> w] /\ s.fixed = [w \in Tones |-> 0] /\ s.enveloped = {}
      /\ s.shape = Decay /\ s.clocks = Steps /\ s.prev = 0 /\ s.env.level = 0 /\ s.env.stop = 0
  BY DEF PowerSun, Has, SunFields, EnvFields, Steps
<1>. HIDE DEF s
<1>2. EnvTop \in Nat \ {0} /\ Steps \in Nat \ {0} /\ Steps > 1 /\ EnvRange = 2 * Steps
  BY StepsAre
<1>3. Ramp(Steps) = 1
  <2>1. Steps * 1 + 0 = Steps /\ 0 \in 0 .. Steps - 1 /\ 1 \in Int
    BY <1>2
  <2>2. (Steps * 1 + 0) \div Steps = 1
    BY <1>2, <2>1, DivModUnique
  <2>. QED
    BY <2>1, <2>2 DEF Ramp
<1>4. Decay \in Shapes /\ StopAt(Decay) = 0 /\ Rests(Decay, Steps)
  BY <1>3 DEF Decay, Shapes, StopAt, Rests
<1>5. 0 \in 0 .. EnvRange - 1 /\ Steps \in 0 .. 2 * EnvRange - 1
  BY <1>2
<1>6. EnvAt(s.shape, s.clocks, s.env)
  BY <1>1, <1>4, <1>5 DEF EnvAt
<1>7. Db(0) = 0 /\ Db(2 * 0 + 1) = 0
  <2>1. 0 % Steps = 0 /\ 1 % Steps = 1
    <3>1. 0 \in 0 .. Steps - 1 /\ 1 \in 0 .. Steps - 1
      BY <1>2
    <3>. QED
      BY <1>2, <3>1, ModSmall
  <2>. QED
    BY <2>1 DEF Db, Steps
<1>. QED
  BY <1>1, <1>4, <1>5, <1>6, <1>7 DEF SunSays, s, Has, Env, Tones

\* What is heard is what the registers say.
LEMMA SunSaysWritten ==
    ASSUME NEW s, SunSays(s)
    PROVE  SunAsWritten(s)
<1>1. /\ EnvAt(s.shape, s.clocks, s.env) /\ s.shape \in Shapes /\ s.clocks \in 0 .. 2 * EnvRange - 1
      /\ s.volumes[Env] = Db(s.env.level)
  BY DEF SunSays
<1>2. /\ s.env.level % Steps = Envelope(s.shape, s.clocks)
      /\ Envelope(s.shape, s.clocks) \in 0 .. EnvTop
  BY <1>1, EnvIsDocumented
<1>. DEFINE x == Envelope(s.shape, s.clocks)
<1>3. x % Steps = x
  <2>1. Steps \in Nat \ {0} /\ x \in 0 .. Steps - 1
    BY <1>2, StepsAre
  <2>. HIDE DEF x
  <2>. QED
    BY <2>1, ModSmall
<1>4. s.volumes[Env] = Db(x)
  BY <1>1, <1>2, <1>3 DEF Db, Steps
<1>. HIDE DEF x
<1>5. ASSUME NEW w \in Tones
      PROVE  s.volumes[s.ptr[w]] = IF w \in s.enveloped THEN Db(x) ELSE Db(2 * s.fixed[w] + 1)
  BY <1>4 DEF SunSays
<1>. QED
  BY <1>5 DEF SunAsWritten, Heard, x

-----------------------------------------------------------------------------
(* The chips as written. *)

\* The invariant: each chip's own form of its registers says what they say.
AsSaid == VrcSays(vrc) /\ SunSays(sun) /\ NamcoSays(namco)

\* Runs up to a command.
LEMMA RunsSay ==
    ASSUME InTime, AsSaid, NEW d \in Nat
    PROVE  /\ song.chip = "vrc6" => VrcSays(RunVrc(vrc, at + d))
           /\ SunSays(RunSun(sun, at + d)) /\ NamcoSays(RunNamco(namco, at + d))
<1>1. at + d \in Int
  BY DEF InTime
<1>2. ASSUME song.chip = "vrc6" PROVE VrcSays(RunVrc(vrc, at + d))
  <2>1. vrc.offs \in Int
    <3>1. vrc.offs = ((clock * VrcScale) \div Sample) % VrcRing /\ clock \in Nat
      BY <1>2 DEF InTime, VrcTime
    <3>2. Sample \in Nat \ {0} /\ VrcRing \in Nat \ {0} /\ clock * VrcScale \in Int
      BY <3>1, VrcAssumption
    <3>. DEFINE x == clock * VrcScale
                y == x \div Sample
    <3>3. x \in Int
      BY <3>2
    <3>. HIDE DEF x
    <3>4. y \in Int
      BY <3>2, <3>3, DivMod
    <3>. HIDE DEF y
    <3>5. y % VrcRing \in Int
      BY <3>2, <3>4, DivMod
    <3>. QED
      BY <3>1, <3>5 DEF x, y
  <2>. QED
    BY <1>1, <2>1, VrcRunSays DEF AsSaid
<1>3. SunSays(RunSun(sun, at + d))
  BY <1>1, SunRunSays DEF AsSaid
<1>4. NamcoSays(RunNamco(namco, at + d))
  BY <1>1, NamcoRunSays DEF AsSaid
<1>. QED
  BY <1>2, <1>3, <1>4

LEMMA GapsAreNat == \A d \in Gaps \cup {0} : d \in Nat
BY VoicesAssumption

LEMMA SaidVrc ==
    ASSUME InTime, AsSaid, WriteDuty \/ WriteSawRate \/ BeginPeriod \/ EndPeriod
    PROVE  AsSaid'
<1>1. ASSUME NEW new, VrcSays(new), Vrc(new) PROVE AsSaid'
  <2>1. vrc' = new /\ sun' = sun /\ namco' = namco
    BY <1>1 DEF Vrc
  <2>. QED
    BY <1>1, <2>1 DEF AsSaid
<1>2. CASE WriteDuty
  <2>1. PICK d \in Gaps, mode \in BOOLEAN :
            Writes("duty") /\ Vrc(SetDuty(RunVrc(vrc, at + d), song.voice, mode))
    BY <1>2 DEF WriteDuty
  <2>2. VrcSays(RunVrc(vrc, at + d))
    BY <2>1, ChipOfRegister, RunsSay, GapsAreNat DEF Writes
  <2>3. VrcSays(SetDuty(RunVrc(vrc, at + d), song.voice, mode))
    BY <2>2, VrcWriteSays
  <2>. QED
    BY <1>1, <2>1, <2>3
<1>3. CASE WriteSawRate
  <2>1. PICK d \in Gaps, volume \in VrcVolumes :
            Writes("rate") /\ Vrc(SetSawRate(RunVrc(vrc, at + d), volume))
    BY <1>3 DEF WriteSawRate
  <2>2. VrcSays(RunVrc(vrc, at + d)) /\ volume \in Nat
    BY <2>1, ChipOfRegister, RunsSay, GapsAreNat, BytesAssumption DEF Writes
  <2>3. VrcSays(SetSawRate(RunVrc(vrc, at + d), volume))
    BY <2>2, VrcWriteSays
  <2>. QED
    BY <1>1, <2>1, <2>3
<1>4. CASE BeginPeriod
  <2>1. PICK d \in Gaps, b \in PeriodBytes :
            /\ Writes("period")
            /\ Vrc(SetLow(RunVrc(vrc, at + d), song.voice, FxpTime(vrc, at + d), b))
    BY <1>4 DEF BeginPeriod
  <2>2. VrcSays(RunVrc(vrc, at + d)) /\ b \in Nat /\ song.voice \in Voices
    BY <2>1, ChipOfRegister, RunsSay, GapsAreNat, BytesAssumption, SongsAssumption DEF Writes, InTime
  <2>3. VrcSays(SetLow(RunVrc(vrc, at + d), song.voice, FxpTime(vrc, at + d), b))
    BY <2>2, VrcPeriodSays
  <2>. QED
    BY <1>1, <2>1, <2>3
<1>5. CASE EndPeriod
  <2>1. PICK d \in Gaps, h \in PeriodBytes, on \in BOOLEAN :
            /\ half
            /\ Vrc(SetHigh(RunVrc(vrc, at + d), song.voice, FxpTime(vrc, at + d), h, on))
    BY <1>5 DEF EndPeriod
  <2>2. VrcSays(RunVrc(vrc, at + d)) /\ h \in Nat /\ song.voice \in Voices
    BY <2>1, RunsSay, GapsAreNat, BytesAssumption, SongsAssumption DEF InTime
  <2>3. VrcSays(SetHigh(RunVrc(vrc, at + d), song.voice, FxpTime(vrc, at + d), h, on))
    BY <2>2, VrcPeriodSays
  <2>. QED
    BY <1>1, <2>1, <2>3
<1>. QED
  BY <1>2, <1>3, <1>4, <1>5

LEMMA SaidSun ==
    ASSUME InTime, AsSaid,
           \/ WriteTone \/ WriteNoise \/ WriteMixer
           \/ WriteSunVolume \/ WriteEnvPeriod \/ WriteShape
    PROVE  AsSaid'
<1>1. ASSUME NEW d, NEW reg, NEW new, SunSays(new), Sun(d, reg, new) PROVE AsSaid'
  <2>1. vrc' = vrc /\ sun' = new /\ namco' = namco
    BY <1>1 DEF Sun
  <2>. QED
    BY <1>1, <2>1 DEF AsSaid
<1>2. ASSUME NEW d \in Gaps PROVE SunSays(RunSun(sun, at + d))
  BY RunsSay, GapsAreNat
<1>3. CASE WriteTone
  <2>1. PICK d \in Gaps, w \in Tones, high \in BOOLEAN, v \in TonePeriods :
            Sun(d, "tone", SetTone(RunSun(sun, at + d), w, high, v))
    BY <1>3 DEF WriteTone
  <2>2. SunSays(SetTone(RunSun(sun, at + d), w, high, v))
    BY <1>2, SunWriteSays
  <2>. QED
    BY <1>1, <2>1, <2>2
<1>4. CASE WriteNoise
  <2>1. PICK d \in Gaps, v \in NoisePeriods : Sun(d, "noise", SetNoise(RunSun(sun, at + d), v))
    BY <1>4 DEF WriteNoise
  <2>2. SunSays(SetNoise(RunSun(sun, at + d), v))
    BY <1>2, SunWriteSays
  <2>. QED
    BY <1>1, <2>1, <2>2
<1>5. CASE WriteMixer
  <2>1. PICK d \in Gaps, off \in Mixers : Sun(d, "mixer", SetMixer(RunSun(sun, at + d), off))
    BY <1>5 DEF WriteMixer
  <2>2. SunSays(SetMixer(RunSun(sun, at + d), off))
    BY <1>2, SunWriteSays
  <2>. QED
    BY <1>1, <2>1, <2>2
<1>6. CASE WriteSunVolume
  <2>1. PICK d \in Gaps, w \in Tones, v \in SunVolumes, enveloped \in BOOLEAN :
            Sun(d, "volume", SetSunVolume(RunSun(sun, at + d), w, v, enveloped))
    BY <1>6 DEF WriteSunVolume
  <2>2. SunSays(SetSunVolume(RunSun(sun, at + d), w, v, enveloped))
    BY <1>2, SunVolumeSays
  <2>. QED
    BY <1>1, <2>1, <2>2
<1>7. CASE WriteEnvPeriod
  <2>1. PICK d \in Gaps, high \in BOOLEAN, v \in EnvPeriods :
            Sun(d, "envelope", SetEnvPeriod(RunSun(sun, at + d), high, v))
    BY <1>7 DEF WriteEnvPeriod
  <2>2. SunSays(SetEnvPeriod(RunSun(sun, at + d), high, v))
    BY <1>2, SunWriteSays
  <2>. QED
    BY <1>1, <2>1, <2>2
<1>8. CASE WriteShape
  <2>1. PICK d \in Gaps, shape \in Shapes :
            Sun(d, "shape", SetShape(RunSun(sun, at + d), shape))
    BY <1>8 DEF WriteShape
  <2>2. SunSays(SetShape(RunSun(sun, at + d), shape))
    BY <1>2, SunShapeSays
  <2>. QED
    BY <1>1, <2>1, <2>2
<1>. QED
  BY <1>3, <1>4, <1>5, <1>6, <1>7, <1>8

LEMMA SaidNamco ==
    ASSUME InTime, AsSaid, WriteCell
    PROVE  AsSaid'
<1>1. PICK d \in Gaps, a \in NamcoAddresses, b \in NamcoBytes :
          /\ namco' = SetCell(RunNamco(namco, at + d), a, b) /\ UNCHANGED <<vrc, sun>>
  BY DEF WriteCell
<1>2. a \in Cells /\ b \in Bytes
  BY BytesAssumption
<1>3. NamcoSays(RunNamco(namco, at + d))
  BY RunsSay, GapsAreNat
<1>4. NamcoSays(SetCell(RunNamco(namco, at + d), a, b))
  BY <1>2, <1>3, SetCellSays
<1>. QED
  BY <1>1, <1>4 DEF AsSaid

\* The commands that are no writes, whichever the chip.
LEMMA SaidRun ==
    ASSUME InTime, AsSaid, ForceUpdate \/ Frame
    PROVE  AsSaid'
<1>1. CASE ForceUpdate
  <2>1. PICK d \in Gaps :
            CASE song.chip = "vrc6" -> Vrc(RunVrc(vrc, at + d))
              [] song.chip = "sun5b" -> sun' = RunSun(sun, at + d) /\ UNCHANGED <<vrc, namco, torn>>
              [] song.chip = "n163" -> namco' = RunNamco(namco, at + d) /\ UNCHANGED <<vrc, sun, torn>>
    BY <1>1 DEF ForceUpdate
  <2>2. /\ song.chip = "vrc6" => VrcSays(RunVrc(vrc, at + d))
        /\ SunSays(RunSun(sun, at + d)) /\ NamcoSays(RunNamco(namco, at + d))
    BY RunsSay, GapsAreNat
  <2>3. CASE song.chip = "vrc6"
    <3>1. Vrc(RunVrc(vrc, at + d))
      BY <2>1, <2>3
    <3>. QED
      BY <2>2, <2>3, <3>1 DEF Vrc, AsSaid
  <2>4. CASE song.chip = "sun5b"
    <3>1. sun' = RunSun(sun, at + d) /\ UNCHANGED <<vrc, namco>>
      BY <2>1, <2>4
    <3>. QED
      BY <2>2, <3>1 DEF AsSaid
  <2>5. CASE song.chip = "n163"
    <3>1. namco' = RunNamco(namco, at + d) /\ UNCHANGED <<vrc, sun>>
      BY <2>1, <2>5
    <3>. QED
      BY <2>2, <3>1 DEF AsSaid
  <2>. QED
    BY <2>3, <2>4, <2>5, ChipOfRegister
<1>2. CASE Frame
  <2>1. PICK d \in Gaps \cup {0} :
            CASE song.chip = "vrc6" -> Vrc(VrcFrame(RunVrc(vrc, at + d), at + d))
              [] song.chip = "sun5b" ->
                     sun' = SunFrame(RunSun(sun, at + d), at + d) /\ UNCHANGED <<vrc, namco, torn>>
              [] song.chip = "n163" ->
                     namco' = NamcoFrame(RunNamco(namco, at + d), at + d)
                     /\ UNCHANGED <<vrc, sun, torn>>
    BY <1>2 DEF Frame
  <2>2. /\ song.chip = "vrc6" => VrcSays(RunVrc(vrc, at + d))
        /\ SunSays(RunSun(sun, at + d)) /\ NamcoSays(RunNamco(namco, at + d))
    BY RunsSay, GapsAreNat
  <2>3. at + d \in Int
    BY GapsAreNat DEF InTime
  <2>4. CASE song.chip = "vrc6"
    <3>1. Vrc(VrcFrame(RunVrc(vrc, at + d), at + d))
      BY <2>1, <2>4
    <3>2. VrcSays(VrcFrame(RunVrc(vrc, at + d), at + d))
      BY <2>2, <2>3, <2>4, VrcWriteSays
    <3>. QED
      BY <3>1, <3>2 DEF Vrc, AsSaid
  <2>5. CASE song.chip = "sun5b"
    <3>1. sun' = SunFrame(RunSun(sun, at + d), at + d) /\ UNCHANGED <<vrc, namco>>
      BY <2>1, <2>5
    <3>2. SunSays(SunFrame(RunSun(sun, at + d), at + d))
      BY <2>2, <2>3, SunRunSays
    <3>. QED
      BY <3>1, <3>2 DEF AsSaid
  <2>6. CASE song.chip = "n163"
    <3>1. namco' = NamcoFrame(RunNamco(namco, at + d), at + d) /\ UNCHANGED <<vrc, sun>>
      BY <2>1, <2>6
    <3>2. NamcoSays(NamcoFrame(RunNamco(namco, at + d), at + d))
      BY <2>2, <2>3, NamcoRunSays
    <3>. QED
      BY <3>1, <3>2 DEF AsSaid
  <2>. QED
    BY <2>4, <2>5, <2>6, ChipOfRegister
<1>. QED
  BY <1>1, <1>2

\* In every reachable state the predicted levels of the VRC6's saw are those of an
\* accumulator, its periods in force those written, the Sunsoft 5B's envelope is on
\* the level of the documented shape, and the Namco 163's channels are what its
\* memory says: whatever forms vrc6.c, sun5b.c and n163.c keep their registers in.
THEOREM VoicesWritten == Spec => []VoicesAsWritten
<1>1. Init => InTime /\ AsSaid
  BY InTimeInit, VrcPowerSays, SunPowerSays, NamcoPowerSays DEF Init, AsSaid
<1>2. InTime /\ AsSaid /\ [Next]_vars => (InTime /\ AsSaid)'
  <2>1. SUFFICES ASSUME InTime, AsSaid, [Next]_vars PROVE InTime' /\ AsSaid'
    OBVIOUS
  <2>2. CASE Next
    BY <2>1, <2>2, InTimeNext, SaidVrc, SaidSun, SaidNamco, SaidRun DEF Next
  <2>3. CASE UNCHANGED vars
    <3>1. vrc' = vrc /\ sun' = sun /\ namco' = namco
      BY <2>3 DEF vars, chips
    <3>. QED
      BY <2>1, <3>1, InTimeNext DEF AsSaid
  <2>. QED
    BY <2>1, <2>2, <2>3
<1>3. InTime /\ AsSaid => VoicesAsWritten
  <2>1. ASSUME NamcoSays(namco) PROVE NamcoAsWritten(namco)
    BY <2>1 DEF NamcoSays
  <2>. QED
    BY <2>1, VrcSaysWritten, SunSaysWritten DEF AsSaid, VoicesAsWritten
<1>. QED
  BY <1>1, <1>2, <1>3, PTL DEF Spec

-----------------------------------------------------------------------------
(* The saw is heard with whole periods.  c counts the song's cycles, a the frame's. *)

\* How far the clock is in its sample, and how long ago the saw's period changed (or
\* longer: vrc6_run() lets no change get older than the frame and a sample).
Into(c) == (c * VrcScale) % Sample
Age(s, c) == (c * VrcScale - s.changed["saw"]) % Fxp

\* n cycles after the last half of a period (h: the other half is missing): a change
\* that waits was made late in the present sample, and the present period is whole;
\* half of a period that is in force is not going to be heard before the other half
\* comes, and half of one that waits will be in force only after the next sample.
Held(p, cur, w, age, into, n, h, W) ==
    /\ age >= n * VrcScale \/ age >= Sample
    /\ w => into >= Sample \div 2 /\ cur \in W
    /\ ~w => cur = p
    /\ p \notin W =>
          /\ h /\ age = n * VrcScale /\ n <= PairGap
          /\ w => into >= Sample \div 2 + n * VrcScale
          /\ ~w => into + (PairGap - n) * VrcScale < Sample

SawTimes(s, c, a, n, h, W) ==
    /\ s.changed \in [Voices -> Int] /\ s.on \subseteq {"saw"}
    /\ Age(s, c) <= Sample + a * VrcScale
    /\ "saw" \in s.on =>
          Held(s.period["saw"], s.cur["saw"], "saw" \in s.delay, Age(s, c), Into(c), n, h, W)

LEMMA SawScales ==
    /\ VrcScale \in Nat \ {0} /\ Sample \in Nat \ {0} /\ VrcRing \in Nat /\ VrcRing > 1
    /\ Sample \div 2 \in Nat /\ 2 * (Sample \div 2) = Sample /\ Fxp \in Nat \ {0} /\ Fxp = Sample * VrcRing
    /\ FrameMax \in Nat /\ FrameMax * VrcScale < Sample * (VrcRing - 1)
    /\ PairGap \in Nat /\ PairRest \in Nat /\ PairGap < PairRest
    /\ PairGap * VrcScale <= Sample \div 2 /\ PairRest * VrcScale > Sample \div 2
<1>1. /\ VrcScale \in Nat \ {0} /\ Sample \in Nat \ {0} /\ VrcRing \in Nat /\ VrcRing > 1 /\ Sample % 2 = 0
  BY VrcAssumption
<1>2. Sample \div 2 \in Nat /\ 2 * (Sample \div 2) = Sample
  BY <1>1
<1>3. /\ FrameMax \in Nat /\ FrameMax * VrcScale < Sample * (VrcRing - 1)
      /\ PairGap \in Nat /\ PairRest \in Nat
      /\ PairGap * VrcScale <= Sample \div 2 /\ PairRest * VrcScale > Sample \div 2
  BY VoicesAssumption
<1>4. PairGap < PairRest
  <2>1. CASE PairRest <= PairGap
    <3>1. PairRest * VrcScale <= PairGap * VrcScale
      BY <1>1, <1>3, <2>1
    <3>. QED
      BY <1>1, <1>2, <1>3, <3>1
  <2>. QED
    BY <1>3, <2>1
<1>5. Fxp \in Nat \ {0} /\ Fxp = Sample * VrcRing
  BY <1>1 DEF Fxp
<1>. QED
  BY <1>1, <1>2, <1>3, <1>4, <1>5

\* How far d more cycles bring the clock, seen from the beginning of the sample.
Reach(c, d) == Into(c) + d * VrcScale

LEMMA SawClock ==
    ASSUME NEW s, NEW c \in Nat, NEW a \in Nat, NEW d \in Nat, a <= c, a + d <= FrameMax,
           VrcTime(s, c, a)
    PROVE  /\ Into(c) \in 0 .. Sample - 1 /\ Into(c + d) \in 0 .. Sample - 1
           /\ Reach(c, d) = Into(c) + d * VrcScale
           /\ Reach(c, d) < Sample => RoundsOf(s, a + d) = 0 /\ Into(c + d) = Reach(c, d)
           /\ Reach(c, d) >= Sample => RoundsOf(s, a + d) # 0
           /\ Reach(c, d) >= Sample /\ Reach(c, d) < 2 * Sample =>
                 RoundsOf(s, a + d) = 1 /\ Into(c + d) = Reach(c, d) - Sample
<1>. DEFINE X == c * VrcScale
            e == d * VrcScale
            Z == (c + d) * VrcScale
            i == Into(c)
            k == X \div Sample
            m == (i + e) \div Sample
            j == (i + e) % Sample
            rounds == RoundsOf(s, a + d)
            x == FxpTime(s, a + d)
<1>1. /\ VrcScale \in Nat \ {0} /\ Sample \in Nat \ {0} /\ VrcRing \in Nat \ {0} /\ VrcRing > 1
      /\ Fxp = Sample * VrcRing
  BY SawScales
<1>2. X \in Nat /\ e \in Nat /\ Z = X + e /\ Z \in Nat
  BY <1>1
<1>3. e < Sample * (VrcRing - 1)
  <2>1. d * VrcScale <= FrameMax * VrcScale
    BY <1>1, SawScales
  <2>. QED
    BY <1>1, <2>1, SawScales
<1>4. x = Z % (Sample * VrcRing) /\ s.offs = k % VrcRing
  <2>1. s.base = ((c - a) * VrcScale) % Fxp /\ s.offs = k % VrcRing
    BY DEF VrcTime
  <2>2. x = Z % Fxp
    BY <2>1, VrcFxpTime
  <2>. QED
    BY <1>1, <2>1, <2>2
<1>. HIDE DEF X, e, Z
<1>5. X = Sample * k + i /\ k \in Int /\ i \in 0 .. Sample - 1
  BY <1>1, <1>2, DivMod DEF Into, X
<1>. HIDE DEF k, i
<1>6. i + e = Sample * m + j /\ m \in Int /\ j \in 0 .. Sample - 1
  <2>1. i + e \in Int
    BY <1>2, <1>5
  <2>. DEFINE ie == i + e
  <2>. HIDE DEF ie
  <2>2. ie = Sample * (ie \div Sample) + (ie % Sample) /\ ie \div Sample \in Int /\ ie % Sample \in 0 .. Sample - 1
    BY <1>1, <2>1, DivMod DEF ie
  <2>. QED
    BY <2>2 DEF ie
<1>. HIDE DEF m, j
<1>7. Z = Sample * (k + m) + j /\ k + m \in Int
  BY <1>1, <1>2, <1>5, <1>6
<1>8. Z \div Sample = k + m /\ Z % Sample = j
  <2>. DEFINE km == k + m
  <2>1. km \in Int /\ Z = Sample * km + j
    BY <1>7
  <2>. HIDE DEF km
  <2>2. (Sample * km + j) \div Sample = km /\ (Sample * km + j) % Sample = j
    BY <1>1, <1>6, <2>1, DivModUnique
  <2>. QED
    BY <2>1, <2>2 DEF km
<1>9. Into(c + d) = j
  BY <1>8 DEF Into, Z
<1>10. x \div Sample = (k + m) % VrcRing
  <2>1. (Z % (Sample * VrcRing)) \div Sample = (Z \div Sample) % VrcRing
    BY <1>1, <1>2, DivOfMod
  <2>. QED
    BY <1>4, <1>8, <2>1
<1>11. m \in 0 .. VrcRing - 1
  <2>1. m >= 0
    <3>1. CASE m <= -1
      <4>1. Sample * m <= Sample * (-1)
        BY <1>1, <1>6, <3>1
      <4>. QED
        BY <1>1, <1>2, <1>5, <1>6, <4>1
    <3>. QED
      BY <1>6, <3>1
  <2>2. m <= VrcRing - 1
    <3>1. CASE m >= VrcRing
      <4>1. Sample * m >= Sample * VrcRing /\ Sample * (VrcRing - 1) = Sample * VrcRing - Sample
        BY <1>1, <1>6, <3>1
      <4>. QED
        BY <1>1, <1>2, <1>3, <1>5, <1>6, <4>1
    <3>. QED
      BY <1>1, <1>6, <3>1
  <2>. QED
    BY <1>1, <1>6, <2>1, <2>2
<1>12. rounds = m
  <2>1. rounds = (((k + m) % VrcRing) - (k % VrcRing)) % VrcRing
    BY <1>4, <1>10 DEF RoundsOf
  <2>. DEFINE u == k + m
              g == k \div VrcRing
              l == k % VrcRing
  <2>2. VrcRing \in Nat \ {0}
    BY <1>1
  <2>3. k = VrcRing * g + l /\ g \in Int /\ l \in 0 .. VrcRing - 1
    BY <1>5, <2>2, DivMod
  <2>4. u \in Int
    BY <1>5, <1>6
  <2>. HIDE DEF u, g, l
  <2>5. (-l + (u % VrcRing)) % VrcRing = (-l + u) % VrcRing
    <3>1. -l \in Int
      BY <2>3
    <3>. QED
      BY <2>2, <2>4, <3>1, ModAdd
  <2>6. -l + u = m + VrcRing * g
    BY <1>5, <1>6, <2>2, <2>3 DEF u
  <2>7. (m + VrcRing * g) % VrcRing = m % VrcRing
    BY <1>6, <2>2, <2>3, ModShift
  <2>8. m % VrcRing = m
    BY <1>11, <2>2, ModSmall
  <2>9. (u % VrcRing) \in Int
    BY <2>2, <2>4, DivMod
  <2>10. (u % VrcRing) - l = -l + (u % VrcRing)
    BY <2>3, <2>9
  <2>. QED
    BY <2>1, <2>5, <2>6, <2>7, <2>8, <2>10 DEF u, l
<1>13. i + e < Sample => m = 0
  <2>1. SUFFICES ASSUME i + e < Sample, m >= 1 PROVE FALSE
    BY <1>6, <1>11
  <2>2. Sample * m >= Sample * 1
    BY <1>1, <1>6, <2>1
  <2>. QED
    BY <1>1, <1>2, <1>5, <1>6, <2>1, <2>2
<1>14. i + e >= Sample => m # 0
  BY <1>1, <1>6
<1>15. i + e < 2 * Sample => m <= 1
  <2>1. SUFFICES ASSUME i + e < 2 * Sample, m >= 2 PROVE FALSE
    BY <1>6, <1>11
  <2>2. Sample * m >= Sample * 2
    BY <1>1, <1>6, <2>1
  <2>. QED
    BY <1>1, <1>2, <1>5, <1>6, <2>1, <2>2
<1>16. /\ i + e < Sample => m = 0 /\ j = i + e
       /\ i + e >= Sample => m # 0
       /\ i + e >= Sample /\ i + e < 2 * Sample => m = 1 /\ j = i + e - Sample
  BY <1>1, <1>2, <1>5, <1>6, <1>11, <1>13, <1>14, <1>15
<1>. HIDE DEF rounds
<1>. DEFINE y == Reach(c, d)
<1>17. y = i + e
  BY DEF Reach, i, e
<1>. HIDE DEF y
<1>18. /\ i \in 0 .. Sample - 1 /\ Into(c + d) \in 0 .. Sample - 1
       /\ y < Sample => rounds = 0 /\ Into(c + d) = y
       /\ y >= Sample => rounds # 0
       /\ y >= Sample /\ y < 2 * Sample => rounds = 1 /\ Into(c + d) = y - Sample
  BY <1>1, <1>2, <1>5, <1>6, <1>9, <1>12, <1>16, <1>17
<1>19. y = Into(c) + d * VrcScale
  BY DEF Reach, y
<1>. HIDE DEF x
<1>. QED
  BY <1>18, <1>19 DEF i, rounds, y

\* Times in fixed point, and the age of a change.
LEMMA SawAges ==
    ASSUME NEW s, NEW c \in Nat, NEW a \in Nat, NEW d \in Nat, a <= c, a + d <= FrameMax,
           VrcTime(s, c, a), s.changed["saw"] \in Int, Age(s, c) <= Sample + a * VrcScale
    PROVE  LET x == FxpTime(s, a + d)
           IN /\ Age(s, c) \in Nat /\ Age(s, c + d) = Age(s, c) + d * VrcScale
              /\ Age(s, c + d) <= Sample + (a + d) * VrcScale
              /\ x \in Int /\ x % Sample = Into(c + d)
              /\ (x - s.changed["saw"]) % Fxp = Age(s, c + d)
              /\ ((c + d) * VrcScale - x) % Fxp = 0
<1>. DEFINE X == c * VrcScale
            e == d * VrcScale
            b == a * VrcScale
            Z == (c + d) * VrcScale
            x == FxpTime(s, a + d)
            ch == s.changed["saw"]
            A == Age(s, c)
<1>1. /\ VrcScale \in Nat \ {0} /\ Sample \in Nat \ {0} /\ VrcRing \in Nat \ {0} /\ VrcRing > 1
      /\ Fxp = Sample * VrcRing /\ Fxp \in Nat \ {0}
  BY SawScales
<1>2. X \in Nat /\ e \in Nat /\ Z = X + e /\ Z \in Nat /\ b \in Nat /\ (a + d) * VrcScale = b + e
  BY <1>1
<1>3. b + e < Sample * (VrcRing - 1)
  <2>1. (a + d) * VrcScale <= FrameMax * VrcScale
    BY <1>1, SawScales
  <2>. QED
    BY <1>1, <1>2, <2>1, SawScales
<1>4. x = Z % Fxp
  BY VrcFxpTime DEF VrcTime
<1>5. A = (X - ch) % Fxp
  BY DEF Age
<1>6. Age(s, c + d) = (Z - ch) % Fxp
  BY DEF Age
<1>7. A <= Sample + b
  OBVIOUS
<1>. HIDE DEF X, e, Z, b, A, x
<1>8. ch \in Int
  OBVIOUS
<1>. HIDE DEF ch
<1>9. A \in 0 .. Fxp - 1
  <2>1. X - ch \in Int
    BY <1>2, <1>8
  <2>. DEFINE y == X - ch
  <2>. HIDE DEF y
  <2>2. y % Fxp \in 0 .. Fxp - 1
    BY <1>1, <2>1, DivMod DEF y
  <2>. QED
    BY <1>5, <2>2 DEF y
<1>10. A + e \in 0 .. Fxp - 1
  <2>1. Sample * (VrcRing - 1) = Fxp - Sample
    BY <1>1
  <2>. QED
    BY <1>1, <1>2, <1>3, <1>7, <1>9, <2>1
<1>11. (Z - ch) % Fxp = A + e
  <2>. DEFINE y == X - ch
  <2>1. y \in Int /\ e + y = Z - ch /\ e \in Int
    BY <1>2, <1>8
  <2>. HIDE DEF y
  <2>2. (e + (y % Fxp)) % Fxp = (e + y) % Fxp
    BY <1>1, <2>1, ModAdd
  <2>3. (e + A) % Fxp = e + A
    <3>1. e + A \in 0 .. Fxp - 1
      BY <1>2, <1>9, <1>10
    <3>. QED
      BY <1>1, <3>1, ModSmall
  <2>4. e + A = A + e
    BY <1>2, <1>9
  <2>. QED
    BY <1>5, <2>1, <2>2, <2>3, <2>4 DEF y
<1>12. x \in Int
  BY <1>1, <1>2, <1>4, DivMod
<1>13. (x - ch) % Fxp = (Z - ch) % Fxp
  <2>1. -ch \in Int /\ Z \in Int
    BY <1>2, <1>8
  <2>2. (-ch + (Z % Fxp)) % Fxp = (-ch + Z) % Fxp
    BY <1>1, <2>1, ModAdd
  <2>3. -ch + (Z % Fxp) = x - ch /\ -ch + Z = Z - ch
    BY <1>2, <1>4, <1>8, <1>12
  <2>. QED
    BY <2>2, <2>3
<1>14. Z = Fxp * (Z \div Fxp) + x /\ Z \div Fxp \in Int
  <2>1. Z \in Int
    BY <1>2
  <2>2. Z = Fxp * (Z \div Fxp) + (Z % Fxp) /\ Z \div Fxp \in Int
    BY <1>1, <2>1, DivMod
  <2>. QED
    BY <1>4, <2>2
<1>. DEFINE k == Z \div Fxp
<1>15. k \in Int /\ Z = Fxp * k + x
  BY <1>14
<1>. HIDE DEF k
<1>16. (Z - x) % Fxp = 0
  <2>1. Fxp * k + 0 = Z - x /\ 0 \in 0 .. Fxp - 1
    BY <1>1, <1>2, <1>12, <1>15
  <2>2. (Fxp * k + 0) % Fxp = 0
    BY <1>1, <1>15, <2>1, DivModUnique
  <2>. QED
    BY <2>1, <2>2
<1>17. x % Sample = Z % Sample
  <2>1. VrcRing * k \in Int /\ Z = x + Sample * (VrcRing * k)
    BY <1>1, <1>2, <1>12, <1>15
  <2>. DEFINE g == VrcRing * k
  <2>. HIDE DEF g
  <2>2. (x + Sample * g) % Sample = x % Sample
    BY <1>1, <1>12, <2>1, ModShift DEF g
  <2>. QED
    BY <2>1, <2>2 DEF g
<1>18. Z % Sample = Into(c + d)
  BY DEF Into, Z
<1>19. A + e <= Sample + (b + e)
  BY <1>1, <1>2, <1>7, <1>9
<1>. QED
  BY <1>2, <1>6, <1>9, <1>11, <1>12, <1>13, <1>16, <1>17, <1>18, <1>19 DEF A, e, x, Z, ch

\* The clock moves on by d, from `into` to y: within the sample, or to its end.
HeldLater(p, cur, w, age, into, n, d, h, W, m, y) ==
    /\ y < Sample => Held(p, cur, w, age + d * VrcScale, into + d * VrcScale, m, h, W)
    /\ y >= Sample =>
          /\ cur \in W
          /\ p \notin W => /\ y < 2 * Sample
                           /\ Held(p, p, FALSE, age + d * VrcScale, y - Sample, m, h, W)
                           /\ h /\ m = n + d
          /\ p \in W => \A z : Held(p, p, FALSE, age + d * VrcScale, z, m, h, W)

LEMMA HeldRuns ==
    ASSUME NEW p, NEW cur, NEW w \in BOOLEAN, NEW age \in Nat, NEW into \in 0 .. Sample - 1,
           NEW n \in Nat, NEW d \in Nat, NEW h \in BOOLEAN, NEW W,
           Held(p, cur, w, age, into, n, h, W),
           NEW m \in Nat, m <= n + d, h => m = n + d /\ m <= PairGap,
           NEW y, y = into + d * VrcScale
    PROVE  HeldLater(p, cur, w, age, into, n, d, h, W, m, y)
<1>. DEFINE H == Sample \div 2
            e == d * VrcScale
            N == n * VrcScale
            M == m * VrcScale
            G == PairGap * VrcScale
<1>1. /\ VrcScale \in Nat \ {0} /\ Sample \in Nat \ {0} /\ PairGap \in Nat
      /\ H \in Nat /\ 2 * H = Sample /\ G <= H
  BY SawScales
<1>2. /\ e \in Nat /\ N \in Nat /\ M \in Nat /\ G \in Nat /\ M <= N + e /\ (h => M = N + e /\ M <= G)
      /\ (PairGap - n) * VrcScale = G - N /\ (PairGap - m) * VrcScale = G - M
      /\ (n + d) * VrcScale = N + e
  <2>1. (n + d) * VrcScale = N + e
    BY <1>1
  <2>2. m * VrcScale <= (n + d) * VrcScale
    BY <1>1
  <2>3. ASSUME h PROVE M = N + e /\ M <= G
    <3>1. m * VrcScale <= PairGap * VrcScale
      BY <1>1, <2>3
    <3>. QED
      BY <2>1, <2>3, <3>1
  <2>. QED
    BY <1>1, <2>1, <2>2, <2>3
<1>3. /\ age >= N \/ age >= Sample
      /\ w => into >= H /\ cur \in W
      /\ ~w => cur = p
      /\ p \notin W => /\ h /\ age = N /\ n <= PairGap
                       /\ w => into >= H + N
                       /\ ~w => into + (G - N) < Sample
  BY <1>2 DEF Held
<1>. HIDE DEF H, e, N, M, G
<1>4. y = into + e
  BY DEF e
<1>5. ASSUME y < Sample PROVE Held(p, cur, w, age + e, y, m, h, W)
  <2>1. age + e >= M \/ age + e >= Sample
    BY <1>1, <1>2, <1>3
  <2>2. w => y >= H /\ cur \in W
    BY <1>1, <1>2, <1>3, <1>4
  <2>3. p \notin W => /\ h /\ age + e = M /\ m <= PairGap
                      /\ w => y >= H + M
                      /\ ~w => y + (G - M) < Sample
    BY <1>1, <1>2, <1>3, <1>4
  <2>. QED
    BY <1>2, <1>3, <2>1, <2>2, <2>3 DEF Held, H, M
<1>6. ASSUME y >= Sample, p \notin W
      PROVE  cur \in W /\ y < 2 * Sample /\ Held(p, p, FALSE, age + e, y - Sample, m, h, W)
  <2>1. h /\ age = N /\ M = N + e /\ M <= G /\ m <= PairGap
    BY <1>2, <1>3, <1>6
  <2>2. w
    BY <1>1, <1>2, <1>3, <1>4, <1>6, <2>1
  <2>3. y < 2 * Sample /\ (y - Sample) + (G - M) < Sample
    BY <1>1, <1>2, <1>3, <1>4, <2>1, <2>2
  <2>4. age + e = M
    BY <1>1, <1>2, <2>1
  <2>5. age + e >= M
    BY <1>2, <2>4
  <2>. QED
    BY <1>2, <1>3, <1>6, <2>1, <2>2, <2>3, <2>4, <2>5 DEF Held, M
<1>7. ASSUME y >= Sample, p \in W
      PROVE  cur \in W /\ \A z : Held(p, p, FALSE, age + e, z, m, h, W)
  <2>1. age + e >= M \/ age + e >= Sample
    BY <1>1, <1>2, <1>3
  <2>. QED
    BY <1>3, <1>7, <2>1 DEF Held, M
<1>8. y >= Sample /\ p \notin W => h /\ m = n + d
  BY <1>3
<1>. QED
  BY <1>4, <1>5, <1>6, <1>7, <1>8 DEF e, HeldLater

\* The first half of a period: since the last one enough time has passed.
LEMMA HeldLow ==
    ASSUME NEW p0, NEW p, NEW cur, NEW w \in BOOLEAN, NEW age \in Nat, NEW into \in 0 .. Sample - 1,
           NEW n \in Nat, n > PairRest, NEW W, Held(p0, cur, w, age, into, n, FALSE, W),
           NEW waits \in BOOLEAN, waits = (into >= Sample \div 2 /\ age > Sample \div 2)
    PROVE  Held(p, IF waits \/ w THEN cur ELSE p, waits \/ w, 0, into, 0, TRUE, W)
<1>. DEFINE H == Sample \div 2
            N == n * VrcScale
            G == PairGap * VrcScale
            R == PairRest * VrcScale
<1>1. /\ VrcScale \in Nat \ {0} /\ Sample \in Nat \ {0} /\ PairGap \in Nat /\ PairRest \in Nat
      /\ H \in Nat /\ 2 * H = Sample /\ G <= H /\ R > H
  BY SawScales
<1>2. N >= R /\ N \in Nat /\ R \in Nat /\ G \in Nat /\ 0 * VrcScale = 0 /\ (PairGap - 0) * VrcScale = G
  BY <1>1
<1>3. /\ age >= N \/ age >= Sample
      /\ w => into >= H /\ cur \in W
      /\ ~w => cur = p0
      /\ p0 \in W
  BY DEF Held
<1>4. waits = (into >= H /\ age > H)
  OBVIOUS
<1>. HIDE DEF H, N, G, R
<1>5. age > H
  BY <1>1, <1>2, <1>3
<1>6. CASE into >= H
  <2>1. waits /\ cur \in W
    BY <1>3, <1>4, <1>5, <1>6
  <2>. QED
    BY <1>1, <1>2, <1>6, <2>1 DEF Held, H
<1>7. CASE ~(into >= H)
  <2>1. ~waits /\ ~w
    BY <1>3, <1>4, <1>7
  <2>2. into + G < Sample
    BY <1>1, <1>2, <1>7
  <2>. QED
    BY <1>1, <1>2, <2>1, <2>2 DEF Held, H
<1>. QED
  BY <1>6, <1>7

\* The second half: the period is whole.
LEMMA HeldHigh ==
    ASSUME NEW p0, NEW p, NEW cur, NEW w \in BOOLEAN, NEW age \in Nat, NEW into \in 0 .. Sample - 1,
           NEW n \in Nat, n <= PairGap, NEW W, Held(p0, cur, w, age, into, n, TRUE, W),
           NEW waits \in BOOLEAN, waits = (into >= Sample \div 2 /\ age > Sample \div 2)
    PROVE  Held(p, IF waits \/ w THEN cur ELSE p, waits \/ w, 0, into, 0, FALSE, W \cup {p})
<1>. DEFINE H == Sample \div 2
            N == n * VrcScale
            G == PairGap * VrcScale
<1>1. /\ VrcScale \in Nat \ {0} /\ Sample \in Nat \ {0} /\ PairGap \in Nat
      /\ H \in Nat /\ G <= H
  BY SawScales
<1>2. N <= G /\ N \in Nat /\ G \in Nat /\ 0 * VrcScale = 0
  BY <1>1
<1>3. /\ w => into >= H /\ cur \in W
      /\ ~w => cur = p0
      /\ p0 \notin W => age = N
  BY DEF Held
<1>4. waits = (into >= H /\ age > H)
  OBVIOUS
<1>. HIDE DEF H, N, G
<1>5. waits => cur \in W
  BY <1>1, <1>2, <1>3, <1>4
<1>6. (waits \/ w) => into >= H
  BY <1>3, <1>4
<1>. QED
  BY <1>2, <1>3, <1>5, <1>6 DEF Held, H

LEMMA HeldWhole ==
    ASSUME NEW p, NEW age \in Nat, NEW into, NEW W
    PROVE  Held(p, p, FALSE, age, into, 0, FALSE, W \cup {p})
<1>1. 0 * VrcScale = 0 /\ age >= 0
  BY VrcAssumption
<1>. QED
  BY <1>1 DEF Held

-----------------------------------------------------------------------------
\* A run plays whole periods only.
RunKeeps(s, c, a, d, n, h, m, W) ==
    LET q == RunVrc(s, a + d)
    IN IsVrc(q) /\ SawTimes(q, c + d, a + d, m, h, W) /\ q.heard \subseteq W

LEMMA SawRuns ==
    ASSUME NEW s, IsVrc(s), NEW c \in Nat, NEW a \in Nat, NEW d \in Nat, a <= c, a + d <= FrameMax,
           VrcTime(s, c, a), NEW n \in Nat, NEW h \in BOOLEAN, NEW W, SawTimes(s, c, a, n, h, W),
           NEW m \in Nat, m <= n + d, h => m = n + d /\ m <= PairGap
    PROVE  RunKeeps(s, c, a, d, n, h, m, W)
<1>. SUFFICES LET q == RunVrc(s, a + d)
              IN IsVrc(q) /\ SawTimes(q, c + d, a + d, m, h, W) /\ q.heard \subseteq W
  BY DEF RunKeeps
<1>. DEFINE q == RunVrc(s, a + d)
            p == s.period["saw"]
            cur == s.cur["saw"]
            w == "saw" \in s.delay
            rounds == RoundsOf(s, a + d)
            y == Reach(c, d)
<1>1. /\ s.changed \in [Voices -> Int] /\ s.on \subseteq {"saw"}
      /\ Age(s, c) <= Sample + a * VrcScale
      /\ "saw" \in s.on => Held(p, cur, w, Age(s, c), Into(c), n, h, W)
  BY DEF SawTimes
<1>2. "saw" \in Voices /\ s.changed["saw"] \in Int
  BY <1>1 DEF Voices
<1>3. /\ Age(s, c) \in Nat /\ Age(s, c + d) = Age(s, c) + d * VrcScale
      /\ Age(s, c + d) <= Sample + (a + d) * VrcScale
  BY <1>1, <1>2, SawAges
<1>4. /\ Into(c) \in 0 .. Sample - 1 /\ Into(c + d) \in 0 .. Sample - 1 /\ y = Into(c) + d * VrcScale
      /\ y < Sample => rounds = 0 /\ Into(c + d) = y
      /\ y >= Sample => rounds # 0
      /\ y >= Sample /\ y < 2 * Sample => rounds = 1 /\ Into(c + d) = y - Sample
  BY SawClock, ZenonT(30)
<1>5. s.base \in Int /\ s.offs \in Int /\ a + d \in Int
  <2>1. s.base = ((c - a) * VrcScale) % Fxp /\ s.offs = ((c * VrcScale) \div Sample) % VrcRing
    BY DEF VrcTime
  <2>2. s.base \in Nat
    BY <2>1, VrcFxpTime
  <2>3. Sample \in Nat \ {0} /\ VrcRing \in Nat \ {0} /\ c * VrcScale \in Int
    BY SawScales
  <2>. DEFINE X == c * VrcScale
              k == X \div Sample
  <2>4. X \in Int
    BY <2>3
  <2>. HIDE DEF X
  <2>5. k \in Int
    BY <2>3, <2>4, DivMod
  <2>. HIDE DEF k
  <2>6. k % VrcRing \in Int
    BY <2>3, <2>5, DivMod
  <2>. QED
    BY <2>1, <2>2, <2>6 DEF X, k
<1>6. /\ rounds \in Nat
      /\ IsVrc(q) /\ q.on = s.on /\ q.period = s.period /\ q.changed = s.changed
      /\ q.base = s.base
      /\ rounds = 0 => q.heard = {} /\ q.cur = s.cur /\ q.delay = s.delay
      /\ rounds # 0 => q.delay = {} /\ q.cur = CurDelayed(s)
      /\ rounds = 1 => q.heard = {s.cur[v] : v \in s.on}
      /\ q.heard \subseteq {s.cur[v] : v \in s.on} \cup {CurDelayed(s)[v] : v \in s.on}
      /\ Predicted(s) => Predicted(q)
  BY <1>5, RunVrcFields, ZenonT(30)
<1>7. Age(q, c + d) = Age(s, c + d)
  <2>. HIDE DEF q
  <2>. QED
    BY <1>6 DEF Age
<1>8. ASSUME "saw" \in s.on
      PROVE  HeldLater(p, cur, w, Age(s, c), Into(c), n, d, h, W, m, y)
  <2>. DEFINE age == Age(s, c)
              into == Into(c)
  <2>1. /\ Held(p, cur, w, age, into, n, h, W) /\ age \in Nat /\ into \in 0 .. Sample - 1
        /\ y = into + d * VrcScale /\ w \in BOOLEAN
    BY <1>1, <1>3, <1>4, <1>8
  <2>. HIDE DEF age, into, y, p, cur, w
  <2>2. HeldLater(p, cur, w, age, into, n, d, h, W, m, y)
    BY <2>1, HeldRuns
  <2>. QED
    BY <2>2 DEF age, into
<1>9. CurDelayed(s)["saw"] = IF w THEN p ELSE cur
  BY <1>2 DEF CurDelayed
<1>10. Sample \in Nat \ {0} /\ d * VrcScale \in Nat
  BY SawScales
<1>11. y \in Int
  BY <1>4, <1>10
<1>. HIDE DEF q, y, rounds
<1>12. CASE "saw" \notin s.on
  <2>1. s.on = {} /\ q.heard = {}
    BY <1>1, <1>6, <1>12
  <2>. QED
    BY <1>1, <1>3, <1>6, <1>7, <2>1 DEF SawTimes, q
<1>13. CASE "saw" \in s.on /\ y < Sample
  <2>1. Held(p, cur, w, Age(s, c + d), Into(c + d), m, h, W)
    BY <1>3, <1>4, <1>8, <1>13 DEF HeldLater
  <2>2. q.heard = {} /\ q.cur = s.cur /\ q.delay = s.delay
    BY <1>4, <1>6, <1>13
  <2>. HIDE DEF p, cur, w
  <2>3. Held(q.period["saw"], q.cur["saw"], "saw" \in q.delay, Age(q, c + d), Into(c + d), m, h, W)
    BY <1>6, <1>7, <2>1, <2>2 DEF p, cur, w
  <2>. QED
    BY <1>1, <1>3, <1>6, <1>7, <2>2, <2>3 DEF SawTimes, q
<1>14. CASE "saw" \in s.on /\ y >= Sample
  <2>1. q.delay = {} /\ q.cur = CurDelayed(s) /\ cur \in W
    BY <1>4, <1>6, <1>8, <1>14 DEF HeldLater
  <2>2. s.on = {"saw"}
    BY <1>1, <1>14
  <2>3. w \/ cur = p
    BY <1>1, <1>14 DEF Held
  <2>4. q.cur["saw"] = p /\ q.period["saw"] = p /\ "saw" \notin q.delay
    BY <1>6, <1>9, <2>1, <2>3
  <2>5. Held(p, p, FALSE, Age(s, c + d), Into(c + d), m, h, W) /\ q.heard \subseteq W
    <3>1. CASE p \in W
      <4>1. q.heard \subseteq {cur} \cup {p}
        <5>1. {s.cur[v] : v \in s.on} = {cur} /\ {CurDelayed(s)[v] : v \in s.on} \subseteq {cur, p}
          BY <1>9, <2>2
        <5>. QED
          BY <1>6, <5>1
      <4>2. Held(p, p, FALSE, Age(s, c) + d * VrcScale, Into(c + d), m, h, W)
        BY <1>8, <1>14, <3>1 DEF HeldLater
      <4>. QED
        BY <1>3, <2>1, <3>1, <4>1, <4>2
    <3>2. CASE p \notin W
      <4>1. y < 2 * Sample /\ Held(p, p, FALSE, Age(s, c) + d * VrcScale, y - Sample, m, h, W)
        BY <1>8, <1>14, <3>2 DEF HeldLater
      <4>2. q.heard = {s.cur[v] : v \in s.on} /\ Into(c + d) = y - Sample
        BY <1>4, <1>6, <1>14, <4>1
      <4>3. q.heard = {cur}
        BY <2>2, <4>2
      <4>. QED
        BY <1>3, <2>1, <4>1, <4>2, <4>3
    <3>. QED
      BY <3>1, <3>2
  <2>. HIDE DEF p, cur, w
  <2>6. Held(q.period["saw"], q.cur["saw"], "saw" \in q.delay, Age(q, c + d), Into(c + d), m, h, W)
    <3>1. ("saw" \in q.delay) = FALSE
      BY <2>4
    <3>. QED
      BY <1>7, <2>4, <2>5, <3>1
  <2>. QED
    BY <1>1, <1>3, <1>6, <1>7, <2>5, <2>6 DEF SawTimes, q
<1>. QED
  BY <1>11, <1>10, <1>12, <1>13, <1>14

\* A time that is now.
IsNow(x, s, c) ==
    /\ x \in Int /\ x % Sample = Into(c) /\ (x - s.changed["saw"]) % Fxp = Age(s, c)
    /\ (c * VrcScale - x) % Fxp = 0

LEMMA SawWaits ==
    ASSUME NEW s, NEW c, NEW x, IsNow(x, s, c)
    PROVE  Waits(s, "saw", x) = (Into(c) >= Sample \div 2 /\ Age(s, c) > Sample \div 2)
BY DEF IsNow, Waits

\* The halves of a period, written now.
LowKeeps(s, c, a, n, x, b, W) ==
    LET q == SetLow(s, "saw", x, b)
    IN SawTimes(q, c, a, 0, TRUE, W) /\ q.heard = s.heard
HighKeeps(s, c, a, n, x, b, on, W) ==
    LET q == SetHigh(s, "saw", x, b, on)
    IN SawTimes(q, c, a, 0, FALSE, W \cup {q.period["saw"]}) /\ q.heard = s.heard

LEMMA SawLow ==
    ASSUME NEW s, IsVrc(s), NEW c \in Nat, NEW a \in Nat, NEW n \in Nat, n > PairRest, NEW W,
           SawTimes(s, c, a, n, FALSE, W), Age(s, c) \in Nat, NEW x, IsNow(x, s, c), NEW b \in Nat
    PROVE  LowKeeps(s, c, a, n, x, b, W)
<1>. SUFFICES LET q == SetLow(s, "saw", x, b)
              IN SawTimes(q, c, a, 0, TRUE, W) /\ q.heard = s.heard
  BY DEF LowKeeps
<1>. DEFINE q == SetLow(s, "saw", x, b)
            p == LowOf(s, "saw", b)
            p0 == s.period["saw"]
            cur == s.cur["saw"]
            w == "saw" \in s.delay
            waits == Waits(s, "saw", x)
<1>1. "saw" \in Voices
  BY DEF Voices
<1>2. LowMade(q, s, "saw", x, p)
  BY <1>1, SetLowFields
<1>3. /\ s.changed \in [Voices -> Int] /\ s.on \subseteq {"saw"}
      /\ Age(s, c) <= Sample + a * VrcScale
      /\ "saw" \in s.on => Held(p0, cur, w, Age(s, c), Into(c), n, FALSE, W)
  BY DEF SawTimes
<1>4. Into(c) \in 0 .. Sample - 1
  <2>1. c * VrcScale \in Int /\ Sample \in Nat \ {0}
    BY SawScales
  <2>. QED
    BY <2>1, DivMod DEF Into
<1>. HIDE DEF q, p
<1>5. CASE p = p0
  <2>1. q = s
    BY <1>2, <1>5 DEF LowMade
  <2>2. ASSUME "saw" \in s.on
        PROVE  Held(p0, cur, w, Age(s, c), Into(c), 0, TRUE, W)
    <3>1. 0 * VrcScale = 0 /\ Age(s, c) >= 0
      BY SawScales
    <3>2. p0 \in W /\ (w => Into(c) >= Sample \div 2 /\ cur \in W) /\ (~w => cur = p0)
      BY <1>3, <2>2 DEF Held
    <3>. HIDE DEF p0, cur, w
    <3>. QED
      BY <3>1, <3>2 DEF Held
  <2>. QED
    BY <1>3, <2>1, <2>2 DEF SawTimes, q
<1>6. CASE p # p0
  <2>1. /\ q.on = s.on /\ q.heard = s.heard /\ q.period = [s.period EXCEPT !["saw"] = p]
        /\ q.delay = DelayAfter(s, "saw", x) /\ q.cur = CurAfter(s, "saw", x, p)
        /\ q.changed = [s.changed EXCEPT !["saw"] = x]
    BY <1>2, <1>6 DEF LowMade
  <2>2. q.changed \in [Voices -> Int] /\ q.changed["saw"] = x
    BY <1>1, <1>3, <2>1 DEF IsNow
  <2>3. Age(q, c) = 0
    BY <2>2 DEF Age, IsNow
  <2>4. 0 <= Sample + a * VrcScale
    BY SawScales
  <2>5. ASSUME "saw" \in s.on
        PROVE  Held(p, IF waits \/ w THEN cur ELSE p, waits \/ w, 0, Into(c), 0, TRUE, W)
    <3>. DEFINE age == Age(s, c)
                into == Into(c)
    <3>1. waits = (into >= Sample \div 2 /\ age > Sample \div 2) /\ waits \in BOOLEAN
      BY SawWaits DEF Waits
    <3>2. w \in BOOLEAN /\ age \in Nat
      OBVIOUS
    <3>. HIDE DEF p0, cur, w, waits
    <3>3. Held(p0, cur, w, age, into, n, FALSE, W) /\ into \in 0 .. Sample - 1
      BY <1>3, <1>4, <2>5
    <3>. HIDE DEF age, into
    <3>4. Held(p, IF waits \/ w THEN cur ELSE p, waits \/ w, 0, into, 0, TRUE, W)
      BY <3>1, <3>2, <3>3, HeldLow, ZenonT(30)
    <3>. QED
      BY <3>4 DEF into
  <2>6. q.period["saw"] = p /\ q.cur["saw"] = (IF waits \/ w THEN cur ELSE p)
        /\ ("saw" \in q.delay) = (waits \/ w)
    <3>1. s.period \in [Voices -> Nat] /\ s.cur \in [Voices -> Nat \cup {NoPeriod}]
      BY DEF IsVrc
    <3>. QED
      BY <1>1, <2>1, <3>1 DEF DelayAfter, CurAfter
  <2>. HIDE DEF p0, cur, w, waits
  <2>7. "saw" \in q.on =>
          Held(q.period["saw"], q.cur["saw"], "saw" \in q.delay, Age(q, c), Into(c), 0, TRUE, W)
    BY <2>1, <2>3, <2>5, <2>6
  <2>. QED
    BY <1>3, <2>1, <2>2, <2>3, <2>4, <2>7 DEF SawTimes, q
<1>. QED
  BY <1>5, <1>6

LEMMA SawHigh ==
    ASSUME NEW s, IsVrc(s), NEW c \in Nat, NEW a \in Nat, NEW n \in Nat, n <= PairGap, NEW W,
           SawTimes(s, c, a, n, TRUE, W), Age(s, c) \in Nat, NEW x, IsNow(x, s, c), NEW b \in Nat,
           NEW on \in BOOLEAN
    PROVE  HighKeeps(s, c, a, n, x, b, on, W)
<1>. SUFFICES LET q == SetHigh(s, "saw", x, b, on)
              IN SawTimes(q, c, a, 0, FALSE, W \cup {q.period["saw"]}) /\ q.heard = s.heard
  BY DEF HighKeeps
<1>. DEFINE q == SetHigh(s, "saw", x, b, on)
            p == HighOf(s, "saw", b)
            p0 == s.period["saw"]
            cur == s.cur["saw"]
            w == "saw" \in s.delay
            waits == Waits(s, "saw", x)
            U == W \cup {p}
<1>1. "saw" \in Voices
  BY DEF Voices
<1>2. HighMade(q, s, "saw", x, p, on)
  BY <1>1, SetHighFields
<1>3. /\ s.changed \in [Voices -> Int] /\ s.on \subseteq {"saw"}
      /\ Age(s, c) <= Sample + a * VrcScale
      /\ "saw" \in s.on => Held(p0, cur, w, Age(s, c), Into(c), n, TRUE, W)
  BY DEF SawTimes
<1>4. Into(c) \in 0 .. Sample - 1
  <2>1. c * VrcScale \in Int /\ Sample \in Nat \ {0}
    BY SawScales
  <2>. QED
    BY <2>1, DivMod DEF Into
<1>5. s.period \in [Voices -> Nat] /\ s.cur \in [Voices -> Nat \cup {NoPeriod}]
  BY DEF IsVrc
<1>6. 0 \in Nat /\ 0 <= Sample + a * VrcScale
  BY SawScales
<1>. HIDE DEF q, p
<1>7. q.heard = s.heard /\ q.period["saw"] = p
  BY <1>1, <1>2, <1>5 DEF HighMade
<1>8. ASSUME q.changed = [s.changed EXCEPT !["saw"] = x]
      PROVE  q.changed \in [Voices -> Int] /\ Age(q, c) = 0
  <2>1. q.changed \in [Voices -> Int] /\ q.changed["saw"] = x
    BY <1>1, <1>3, <1>8 DEF IsNow
  <2>2. Age(q, c) = 0
    BY <2>1 DEF Age, IsNow
  <2>. QED
    BY <2>1, <2>2
<1>9. CASE on /\ "saw" \notin s.on
  <2>1. /\ q.on = {"saw"} /\ q.cur = [s.cur EXCEPT !["saw"] = p] /\ q.delay = s.delay \ {"saw"}
        /\ q.changed = [s.changed EXCEPT !["saw"] = x]
    BY <1>2, <1>3, <1>9 DEF HighMade
  <2>2. Held(p, p, FALSE, 0, Into(c), 0, FALSE, U)
    BY <1>6, HeldWhole
  <2>3. q.cur["saw"] = p /\ ("saw" \in q.delay) = FALSE
    BY <1>1, <1>5, <2>1
  <2>4. Held(q.period["saw"], q.cur["saw"], "saw" \in q.delay, Age(q, c), Into(c), 0, FALSE, U)
    BY <1>7, <1>8, <2>1, <2>2, <2>3
  <2>. HIDE DEF U
  <2>5. SawTimes(q, c, a, 0, FALSE, U)
    BY <1>6, <1>8, <2>1, <2>4 DEF SawTimes
  <2>. QED
    BY <1>7, <2>5 DEF q, U
<1>10. CASE ~(on /\ "saw" \notin s.on) /\ p = p0
  <2>1. /\ q.on = IF on THEN s.on ELSE s.on \ {"saw"}
        /\ q.cur = s.cur /\ q.delay = s.delay /\ q.changed = s.changed
    BY <1>2, <1>10 DEF HighMade
  <2>2. q.on \subseteq s.on /\ Age(q, c) = Age(s, c)
    BY <2>1 DEF Age
  <2>3. ASSUME "saw" \in s.on
        PROVE  Held(p, cur, w, Age(s, c), Into(c), 0, FALSE, U)
    <3>1. 0 * VrcScale = 0 /\ Age(s, c) >= 0
      BY SawScales
    <3>2. (w => Into(c) >= Sample \div 2 /\ cur \in W) /\ (~w => cur = p)
      BY <1>3, <1>10, <2>3 DEF Held
    <3>. HIDE DEF p0, cur, w
    <3>. QED
      BY <3>1, <3>2 DEF Held
  <2>. HIDE DEF U
  <2>4. SawTimes(q, c, a, 0, FALSE, U)
    BY <1>3, <1>7, <2>1, <2>2, <2>3 DEF SawTimes
  <2>. QED
    BY <1>7, <2>4 DEF q, U
<1>11. CASE ~(on /\ "saw" \notin s.on) /\ p # p0
  <2>1. /\ q.on = IF on THEN s.on ELSE s.on \ {"saw"}
        /\ q.cur = CurAfter(s, "saw", x, p) /\ q.delay = DelayAfter(s, "saw", x)
        /\ q.changed = [s.changed EXCEPT !["saw"] = x]
    BY <1>2, <1>11 DEF HighMade
  <2>2. q.on \subseteq s.on
    BY <2>1
  <2>3. ASSUME "saw" \in s.on
        PROVE  Held(p, IF waits \/ w THEN cur ELSE p, waits \/ w, 0, Into(c), 0, FALSE, U)
    <3>. DEFINE age == Age(s, c)
                into == Into(c)
    <3>1. waits = (into >= Sample \div 2 /\ age > Sample \div 2) /\ waits \in BOOLEAN
      BY SawWaits DEF Waits
    <3>2. w \in BOOLEAN /\ age \in Nat
      OBVIOUS
    <3>. HIDE DEF p0, cur, w, waits
    <3>3. Held(p0, cur, w, age, into, n, TRUE, W) /\ into \in 0 .. Sample - 1
      BY <1>3, <1>4, <2>3
    <3>. HIDE DEF age, into
    <3>4. Held(p, IF waits \/ w THEN cur ELSE p, waits \/ w, 0, into, 0, FALSE, W \cup {p})
      BY <3>1, <3>2, <3>3, HeldHigh, ZenonT(30)
    <3>. QED
      BY <3>4 DEF into
  <2>4. q.cur["saw"] = (IF waits \/ w THEN cur ELSE p) /\ ("saw" \in q.delay) = (waits \/ w)
    BY <1>1, <1>5, <2>1 DEF DelayAfter, CurAfter
  <2>. HIDE DEF p0, cur, w, waits, U
  <2>5. "saw" \in q.on =>
          Held(q.period["saw"], q.cur["saw"], "saw" \in q.delay, Age(q, c), Into(c), 0, FALSE, U)
    BY <1>7, <1>8, <2>1, <2>2, <2>3, <2>4
  <2>6. SawTimes(q, c, a, 0, FALSE, U)
    BY <1>3, <1>6, <1>8, <2>1, <2>2, <2>5 DEF SawTimes
  <2>. QED
    BY <1>7, <2>6 DEF q, U
<1>. QED
  BY <1>9, <1>10, <1>11

\* The end of a frame: no change is older than a sample.
LEMMA SawFrames ==
    ASSUME NEW s, IsVrc(s), NEW c \in Nat, NEW a \in Nat, NEW n \in Nat, NEW h \in BOOLEAN, NEW W,
           SawTimes(s, c, a, n, h, W), Age(s, c) \in Nat, IsNow(FxpTime(s, a), s, c), h => n <= PairGap
    PROVE  LET q == VrcFrame(s, a)
           IN SawTimes(q, c, 0, n, h, W) /\ q.heard = s.heard
<1>. DEFINE q == VrcFrame(s, a)
            x == FxpTime(s, a)
            p == s.period["saw"]
            cur == s.cur["saw"]
            w == "saw" \in s.delay
<1>1. "saw" \in Voices
  BY DEF Voices
<1>2. /\ PeriodsSame(q, s) /\ q.heard = s.heard
      /\ q.changed = [v \in Voices |-> IF (x - s.changed[v]) % Fxp >= Sample
                                       THEN (x - Sample) % Fxp ELSE s.changed[v]]
  BY DEF VrcFrame, IsVrc, Has, VrcFields, PeriodsSame
<1>3. /\ s.changed \in [Voices -> Int] /\ s.on \subseteq {"saw"}
      /\ "saw" \in s.on => Held(p, cur, w, Age(s, c), Into(c), n, h, W)
  BY DEF SawTimes
<1>4. /\ VrcScale \in Nat \ {0} /\ Sample \in Nat \ {0} /\ Fxp \in Nat \ {0} /\ Fxp = Sample * VrcRing
      /\ Sample < Fxp
  <2>1. Sample * VrcRing > Sample
    BY SawScales
  <2>. QED
    BY <2>1, SawScales
<1>5. x \in Int /\ (x - s.changed["saw"]) % Fxp = Age(s, c) /\ (c * VrcScale - x) % Fxp = 0
  BY DEF IsNow
<1>. HIDE DEF q, x
<1>6. q.changed \in [Voices -> Int]
  <2>1. x - Sample \in Int
    BY <1>4, <1>5
  <2>. DEFINE y == x - Sample
  <2>. HIDE DEF y
  <2>2. y % Fxp \in Int
    BY <1>4, <2>1, DivMod DEF y
  <2>. QED
    BY <1>2, <1>3, <2>2 DEF y
<1>7. Age(q, c) = IF Age(s, c) >= Sample THEN Sample ELSE Age(s, c)
  <2>1. CASE Age(s, c) >= Sample
    <3>1. q.changed["saw"] = (x - Sample) % Fxp
      BY <1>1, <1>2, <1>5, <2>1
    <3>. DEFINE Z == c * VrcScale
                y == x - Sample
                k == (Z - x) \div Fxp
    <3>2. Z \in Int /\ y \in Int
      BY <1>4, <1>5
    <3>3. Z - x = Fxp * k /\ k \in Int
      <4>1. Z - x \in Int
        BY <1>5, <3>2
      <4>. DEFINE u == Z - x
      <4>. HIDE DEF u
      <4>2. u = Fxp * (u \div Fxp) + (u % Fxp) /\ u \div Fxp \in Int
        BY <1>4, <4>1, DivMod DEF u
      <4>3. u % Fxp = 0
        BY <1>5 DEF u
      <4>4. u = Fxp * (u \div Fxp)
        BY <1>4, <4>2, <4>3
      <4>. QED
        BY <4>2, <4>4 DEF u
    <3>. HIDE DEF k
    <3>4. y = x - Sample
      OBVIOUS
    <3>. DEFINE j == y \div Fxp
                l == y % Fxp
    <3>. HIDE DEF Z, y
    <3>5. y = Fxp * j + l /\ j \in Int /\ l \in Int
      <4>1. y = Fxp * (y \div Fxp) + (y % Fxp) /\ y \div Fxp \in Int /\ y % Fxp \in 0 .. Fxp - 1
        BY <1>4, <3>2, DivMod
      <4>. QED
        BY <1>4, <4>1
    <3>. HIDE DEF j, l
    <3>6. Fxp * (k + j) = Fxp * k + Fxp * j /\ Fxp * k \in Int /\ Fxp * j \in Int
      BY <1>4, <3>3, <3>5
    <3>7. Z - l = Fxp * (k + j) + Sample /\ k + j \in Int /\ Sample \in 0 .. Fxp - 1
      BY <1>4, <1>5, <3>2, <3>3, <3>4, <3>5, <3>6
    <3>. DEFINE g == k + j
    <3>8. g \in Int
      BY <3>7
    <3>. HIDE DEF g
    <3>9. (Fxp * g + Sample) % Fxp = Sample
      BY <1>4, <3>7, <3>8, DivModUnique
    <3>10. (Z - l) % Fxp = Sample
      BY <3>7, <3>9 DEF g
    <3>11. Age(q, c) = (Z - l) % Fxp
      BY <3>1 DEF Age, Z, l, y
    <3>. QED
      BY <2>1, <3>10, <3>11
  <2>2. CASE ~(Age(s, c) >= Sample)
    <3>1. q.changed["saw"] = s.changed["saw"]
      BY <1>1, <1>2, <1>5, <2>2
    <3>. QED
      BY <2>2, <3>1 DEF Age
  <2>. QED
    BY <2>1, <2>2
<1>. DEFINE age == Age(s, c)
            new == IF age >= Sample THEN Sample ELSE age
            into == Into(c)
<1>8. ASSUME "saw" \in s.on PROVE Held(p, cur, w, new, into, n, h, W)
  <2>1. Held(p, cur, w, age, into, n, h, W) /\ age \in Nat
    BY <1>3, <1>8
  <2>. HIDE DEF p, cur, w, age, into
  <2>2. n * VrcScale \in Nat /\ (new >= n * VrcScale \/ new >= Sample)
    BY <1>4, <2>1 DEF Held
  <2>3. ASSUME p \notin W PROVE new = age
    <3>1. h /\ age = n * VrcScale /\ n <= PairGap
      BY <2>1, <2>3 DEF Held
    <3>2. age <= PairGap * VrcScale
      BY <1>4, <3>1, SawScales
    <3>3. age < Sample
      BY <2>1, <3>2, SawScales
    <3>. QED
      BY <1>4, <2>1, <3>3
  <2>. QED
    BY <2>1, <2>2, <2>3 DEF Held
<1>9. new <= Sample + 0 * VrcScale
  <2>1. age \in Nat
    OBVIOUS
  <2>. HIDE DEF age
  <2>. QED
    BY <1>4, <2>1
<1>10. Age(q, c) = new
  BY <1>7
<1>. HIDE DEF new, age, into
<1>11. Held(q.period["saw"], q.cur["saw"], "saw" \in q.delay, Age(q, c), Into(c), n, h, W) \/ "saw" \notin q.on
  BY <1>2, <1>8, <1>10 DEF PeriodsSame, into
<1>12. SawTimes(q, c, 0, n, h, W)
  BY <1>2, <1>3, <1>6, <1>9, <1>10, <1>11 DEF SawTimes, PeriodsSame
<1>. QED
  BY <1>2, <1>12 DEF q

\* The invariant, as long as the song plays the saw: no half period was heard, and
\* none will be.
SawInv ==
    /\ since \in Nat /\ half \in BOOLEAN /\ (half => since <= PairGap)
    /\ song.voice = "saw" =>
          /\ torn = {}
          /\ song.chip = "vrc6" => SawTimes(vrc, clock, at, since, half, whole)

\* The chip run up to a command d cycles later, m cycles after the last half.
SawRun(q, d, m) ==
    /\ IsVrc(q) /\ SawTimes(q, clock + d, at + d, m, half, whole) /\ q.heard \subseteq whole
    /\ Age(q, clock + d) \in Nat /\ IsNow(FxpTime(vrc, at + d), q, clock + d)
    /\ FxpTime(q, at + d) = FxpTime(vrc, at + d)

LEMMA SawRunsTo ==
    ASSUME InTime, AsSaid, SawInv, song.voice = "saw", song.chip = "vrc6",
           NEW d \in Nat, at + d <= FrameMax,
           NEW m \in Nat, m <= since + d, half => m = since + d /\ m <= PairGap
    PROVE  SawRun(RunVrc(vrc, at + d), d, m)
<1>. DEFINE q == RunVrc(vrc, at + d)
            x == FxpTime(vrc, at + d)
<1>1. /\ at \in Nat /\ clock \in Nat /\ at <= clock /\ VrcTime(vrc, clock, at) /\ IsVrc(vrc)
      /\ SawTimes(vrc, clock, at, since, half, whole) /\ since \in Nat /\ half \in BOOLEAN
      /\ vrc.base \in Int /\ at + d \in Int
  BY DEF InTime, AsSaid, SawInv, VrcSays
<1>2. IsVrc(q) /\ SawTimes(q, clock + d, at + d, m, half, whole) /\ q.heard \subseteq whole
  <2>1. RunKeeps(vrc, clock, at, d, since, half, m, whole)
    BY <1>1, SawRuns
  <2>. QED
    BY <2>1 DEF RunKeeps
<1>3. vrc.changed["saw"] \in Int /\ Age(vrc, clock) <= Sample + at * VrcScale
  BY <1>1 DEF SawTimes, Voices
<1>4. /\ Age(vrc, clock) \in Nat /\ Age(vrc, clock + d) = Age(vrc, clock) + d * VrcScale
      /\ x \in Int /\ x % Sample = Into(clock + d)
      /\ (x - vrc.changed["saw"]) % Fxp = Age(vrc, clock + d)
      /\ ((clock + d) * VrcScale - x) % Fxp = 0
  BY <1>1, <1>3, SawAges
<1>5. q.changed = vrc.changed /\ q.base = vrc.base
  <2>1. vrc.offs \in Int
    <3>1. vrc.offs = ((clock * VrcScale) \div Sample) % VrcRing
      BY <1>1 DEF VrcTime
    <3>2. Sample \in Nat \ {0} /\ VrcRing \in Nat \ {0} /\ clock * VrcScale \in Int
      BY <1>1, SawScales
    <3>. DEFINE z == clock * VrcScale
                y == z \div Sample
    <3>3. z \in Int
      BY <3>2
    <3>. HIDE DEF z
    <3>4. y \in Int
      BY <3>2, <3>3, DivMod
    <3>. HIDE DEF y
    <3>5. y % VrcRing \in Int
      BY <3>2, <3>4, DivMod
    <3>. QED
      BY <3>1, <3>5 DEF z, y
  <2>. DEFINE rounds == RoundsOf(vrc, at + d)
  <2>2. /\ rounds \in Nat
        /\ IsVrc(q) /\ q.on = vrc.on /\ q.period = vrc.period /\ q.changed = vrc.changed
        /\ q.base = vrc.base
        /\ rounds = 0 => q.heard = {} /\ q.cur = vrc.cur /\ q.delay = vrc.delay
        /\ rounds # 0 => q.delay = {} /\ q.cur = CurDelayed(vrc)
        /\ rounds = 1 => q.heard = {vrc.cur[v] : v \in vrc.on}
        /\ q.heard \subseteq {vrc.cur[v] : v \in vrc.on} \cup {CurDelayed(vrc)[v] : v \in vrc.on}
        /\ Predicted(vrc) => Predicted(q)
    BY <1>1, <2>1, RunVrcFields, ZenonT(30)
  <2>. QED
    BY <2>2
<1>6. FxpTime(q, at + d) = x
  <2>. HIDE DEF q
  <2>. QED
    BY <1>5 DEF FxpTime
<1>. HIDE DEF q, x
<1>7. Age(q, clock + d) = Age(vrc, clock + d)
  BY <1>5 DEF Age
<1>8. d * VrcScale \in Nat
  BY SawScales
<1>9. IsNow(x, q, clock + d)
  BY <1>4, <1>5, <1>7 DEF IsNow
<1>. QED
  BY <1>2, <1>4, <1>6, <1>7, <1>8, <1>9 DEF SawRun, q, x

\* What does not touch the periods, and what does nothing but wait.
LEMMA SawTimesSame ==
    ASSUME NEW q, NEW s, PeriodsSame(q, s), q.changed = s.changed, NEW c, NEW a, NEW n, NEW h, NEW W,
           SawTimes(s, c, a, n, h, W)
    PROVE  SawTimes(q, c, a, n, h, W)
BY DEF SawTimes, PeriodsSame, Age

LEMMA SawStays ==
    ASSUME SawInv, NEW d \in Nat, Wait(d)
    PROVE  /\ since' \in Nat /\ half' = half /\ whole' = whole
           /\ since' <= since + d /\ (half => since' = since + d /\ since' <= PairGap)
BY SawScales DEF SawInv, Wait

\* A step of a song that plays the saw, and one of a song that does not.
LEMMA SawStep ==
    ASSUME SawInv, NEW new, Vrc(new), new.heard \subseteq whole, song' = song, song.voice = "saw",
           since' \in Nat, half' \in BOOLEAN, half' => since' <= PairGap,
           SawTimes(new, clock', at', since', half', whole')
    PROVE  SawInv'
<1>1. vrc' = new /\ torn' = {}
  BY DEF SawInv, Vrc
<1>. QED
  BY <1>1 DEF SawInv

LEMMA SawOther ==
    ASSUME SawInv, song' = song, since' \in Nat, half' \in BOOLEAN, half' => since' <= PairGap,
           song.voice # "saw" \/ (song.chip # "vrc6" /\ torn' = torn)
    PROVE  SawInv'
BY DEF SawInv

LEMMA SawWrites ==
    ASSUME InTime, AsSaid, SawInv, WriteDuty \/ WriteSawRate
    PROVE  SawInv'
<1>1. PICK d \in Gaps :
          /\ Later(d) /\ Wait(d) /\ song.chip = "vrc6"
          /\ \/ \E mode \in BOOLEAN : Vrc(SetDuty(RunVrc(vrc, at + d), song.voice, mode))
             \/ \E volume \in VrcVolumes : Vrc(SetSawRate(RunVrc(vrc, at + d), volume))
  BY ChipOfRegister DEF WriteDuty, WriteSawRate, Writes
<1>2. /\ d \in Nat /\ at + d <= FrameMax /\ song' = song /\ at' = at + d /\ clock' = clock + d
  BY <1>1, LaterClock
<1>3. /\ since' \in Nat /\ half' = half /\ whole' = whole
      /\ since' <= since + d /\ (half => since' = since + d /\ since' <= PairGap)
  BY <1>1, <1>2, SawStays
<1>4. half \in BOOLEAN
  BY DEF SawInv
<1>5. CASE song.voice # "saw"
  BY <1>2, <1>3, <1>4, <1>5, SawOther
<1>6. CASE song.voice = "saw"
  <2>. DEFINE run == RunVrc(vrc, at + d)
  <2>1. SawRun(run, d, since')
    BY <1>1, <1>2, <1>3, <1>6, SawRunsTo
  <2>. HIDE DEF run
  <2>2. IsVrc(run) /\ SawTimes(run, clock', at', since', half', whole') /\ run.heard \subseteq whole
    BY <1>2, <1>3, <2>1 DEF SawRun
  <2>3. PICK new : Vrc(new) /\ PeriodsSame(new, run) /\ RestSame(new, run)
    <3>1. CASE \E mode \in BOOLEAN : Vrc(SetDuty(run, song.voice, mode))
      <4>1. PICK mode \in BOOLEAN : Vrc(SetDuty(run, song.voice, mode))
        BY <3>1
      <4>2. LET q == SetDuty(run, song.voice, mode)
            IN IsVrc(q) /\ PeriodsSame(q, run) /\ SawSame(q, run) /\ RestSame(q, run)
        BY <2>2, VrcFieldsOf, ZenonT(30)
      <4>. QED
        BY <4>1, <4>2
    <3>2. CASE \E volume \in VrcVolumes : Vrc(SetSawRate(run, volume))
      <4>1. PICK volume \in VrcVolumes : Vrc(SetSawRate(run, volume))
        BY <3>2
      <4>2. LET q == SetSawRate(run, volume)
            IN /\ IsVrc(q) /\ PeriodsSame(q, run) /\ RestSame(q, run) /\ q.ph = run.ph
               /\ q.volume = volume /\ q.pending /\ q.accum = run.accum /\ q.target = run.target
               /\ q.level = run.level
        BY <2>2, VrcFieldsOf, ZenonT(30)
      <4>. QED
        BY <4>1, <4>2
    <3>. QED
      BY <1>1, <3>1, <3>2 DEF run
  <2>4. new.heard \subseteq whole /\ new.changed = run.changed
    BY <2>2, <2>3 DEF RestSame
  <2>5. SawTimes(new, clock', at', since', half', whole')
    BY <2>2, <2>3, <2>4, SawTimesSame
  <2>. QED
    BY <1>2, <1>3, <1>4, <1>6, <2>3, <2>4, <2>5, SawStep
<1>. QED
  BY <1>5, <1>6

LEMMA SawBegins ==
    ASSUME InTime, AsSaid, SawInv, BeginPeriod
    PROVE  SawInv'
<1>1. PICK d \in Gaps, b \in PeriodBytes :
          /\ Later(d) /\ Writes("period")
          /\ ~half /\ since + d > PairRest
          /\ half' = TRUE /\ since' = 0 /\ whole' = whole
          /\ Vrc(SetLow(RunVrc(vrc, at + d), song.voice, FxpTime(vrc, at + d), b))
  BY DEF BeginPeriod
<1>2. /\ d \in Nat /\ at \in Nat /\ clock \in Nat /\ at + d <= FrameMax
      /\ song' = song /\ at' = at + d /\ clock' = clock + d
  BY <1>1, LaterClock
<1>3. song.chip = "vrc6" /\ b \in Nat /\ since \in Nat /\ half = FALSE
  BY <1>1, ChipOfRegister, BytesAssumption DEF Writes, SawInv
<1>4. since' \in Nat /\ half' \in BOOLEAN /\ since' <= PairGap
  BY <1>1, SawScales
<1>5. CASE song.voice # "saw"
  BY <1>2, <1>4, <1>5, SawOther
<1>6. CASE song.voice = "saw"
  <2>. DEFINE run == RunVrc(vrc, at + d)
              x == FxpTime(vrc, at + d)
              new == SetLow(run, "saw", x, b)
              n == since + d
              c == clock + d
              a == at + d
  <2>1. n \in Nat /\ n <= since + d /\ n > PairRest /\ c \in Nat /\ a \in Nat /\ ~half
    BY <1>1, <1>2, <1>3
  <2>2. SawRun(run, d, n)
    BY <1>2, <1>3, <1>6, <2>1, SawRunsTo
  <2>3. /\ IsVrc(run) /\ SawTimes(run, c, a, n, FALSE, whole) /\ run.heard \subseteq whole
        /\ Age(run, c) \in Nat /\ IsNow(x, run, c)
    BY <1>3, <2>2 DEF SawRun
  <2>. HIDE DEF run, x, n, c, a
  <2>4. SawTimes(new, c, a, 0, TRUE, whole) /\ new.heard = run.heard
    <3>1. LowKeeps(run, c, a, n, x, b, whole)
      BY <1>3, <2>1, <2>3, SawLow
    <3>. QED
      BY <3>1 DEF LowKeeps
  <2>5. SawTimes(new, clock', at', since', half', whole') /\ new.heard \subseteq whole
    BY <1>1, <1>2, <2>3, <2>4 DEF c, a
  <2>6. Vrc(new)
    BY <1>1, <1>6 DEF run, x
  <2>. HIDE DEF new
  <2>. QED
    BY <1>2, <1>4, <1>6, <2>5, <2>6, SawStep
<1>. QED
  BY <1>5, <1>6

LEMMA SawEnds ==
    ASSUME InTime, AsSaid, SawInv, EndPeriod
    PROVE  SawInv'
<1>1. PICK d \in Gaps, b \in PeriodBytes, on \in BOOLEAN :
          /\ Later(d)
          /\ half /\ since + d <= PairGap
          /\ half' = FALSE /\ since' = 0
          /\ Vrc(SetHigh(RunVrc(vrc, at + d), song.voice, FxpTime(vrc, at + d), b, on))
          /\ whole' = whole \cup {vrc'.period[song.voice]}
  BY DEF EndPeriod
<1>2. /\ d \in Nat /\ at \in Nat /\ clock \in Nat /\ at + d <= FrameMax
      /\ song' = song /\ at' = at + d /\ clock' = clock + d
  BY <1>1, LaterClock
<1>3. song.chip = "vrc6" /\ b \in Nat /\ since \in Nat /\ half = TRUE
  BY <1>1, BytesAssumption DEF InTime, SawInv
<1>4. since' \in Nat /\ half' \in BOOLEAN /\ ~half'
  BY <1>1
<1>5. CASE song.voice # "saw"
  BY <1>2, <1>4, <1>5, SawOther
<1>6. CASE song.voice = "saw"
  <2>. DEFINE run == RunVrc(vrc, at + d)
              x == FxpTime(vrc, at + d)
              new == SetHigh(run, "saw", x, b, on)
              n == since + d
              c == clock + d
              a == at + d
              W == whole \cup {new.period["saw"]}
  <2>1. n \in Nat /\ n = since + d /\ n <= since + d /\ n <= PairGap /\ c \in Nat /\ a \in Nat
    BY <1>1, <1>2, <1>3
  <2>2. SawRun(run, d, n)
    BY <1>2, <1>3, <1>6, <2>1, SawRunsTo
  <2>3. /\ IsVrc(run) /\ SawTimes(run, c, a, n, TRUE, whole) /\ run.heard \subseteq whole
        /\ Age(run, c) \in Nat /\ IsNow(x, run, c)
    BY <1>3, <2>2 DEF SawRun
  <2>6. Vrc(new)
    BY <1>1, <1>6 DEF run, x
  <2>. HIDE DEF run, x, n, c, a
  <2>4. SawTimes(new, c, a, 0, FALSE, W) /\ new.heard = run.heard
    <3>1. HighKeeps(run, c, a, n, x, b, on, whole)
      BY <1>3, <2>1, <2>3, SawHigh
    <3>. QED
      BY <3>1 DEF HighKeeps
  <2>7. whole' = W
    <3>1. vrc' = new
      BY <2>6 DEF Vrc
    <3>. HIDE DEF new
    <3>. QED
      BY <1>1, <1>6, <3>1
  <2>5. SawTimes(new, clock', at', since', half', whole') /\ new.heard \subseteq whole
    BY <1>1, <1>2, <2>3, <2>4, <2>7 DEF c, a
  <2>. HIDE DEF new, W
  <2>. QED
    BY <1>2, <1>4, <1>6, <2>5, <2>6, SawStep
<1>. QED
  BY <1>5, <1>6

\* The commands that are no writes.
LEMMA SawUpdates ==
    ASSUME InTime, AsSaid, SawInv, ForceUpdate
    PROVE  SawInv'
<1>1. PICK d \in Gaps :
          /\ Later(d) /\ Wait(d)
          /\ CASE song.chip = "vrc6" -> Vrc(RunVrc(vrc, at + d))
               [] song.chip = "sun5b" -> sun' = RunSun(sun, at + d) /\ UNCHANGED <<vrc, namco, torn>>
               [] song.chip = "n163" -> namco' = RunNamco(namco, at + d) /\ UNCHANGED <<vrc, sun, torn>>
  BY DEF ForceUpdate
<1>2. /\ d \in Nat /\ at + d <= FrameMax /\ song' = song /\ at' = at + d /\ clock' = clock + d
  BY <1>1, LaterClock
<1>3. /\ since' \in Nat /\ half' = half /\ whole' = whole
      /\ since' <= since + d /\ (half => since' = since + d /\ since' <= PairGap)
  BY <1>1, <1>2, SawStays
<1>4. half \in BOOLEAN
  BY DEF SawInv
<1>5. CASE song.voice # "saw"
  BY <1>2, <1>3, <1>4, <1>5, SawOther
<1>6. CASE song.chip # "vrc6"
  <2>1. torn' = torn
    BY <1>1, <1>6, ChipOfRegister
  <2>. QED
    BY <1>2, <1>3, <1>4, <1>6, <2>1, SawOther
<1>7. CASE song.voice = "saw" /\ song.chip = "vrc6"
  <2>. DEFINE run == RunVrc(vrc, at + d)
  <2>1. SawRun(run, d, since') /\ Vrc(run)
    BY <1>1, <1>2, <1>3, <1>7, SawRunsTo
  <2>. HIDE DEF run
  <2>2. SawTimes(run, clock', at', since', half', whole') /\ run.heard \subseteq whole
    BY <1>2, <1>3, <2>1 DEF SawRun
  <2>. QED
    BY <1>2, <1>3, <1>4, <1>7, <2>1, <2>2, SawStep
<1>. QED
  BY <1>5, <1>6, <1>7

LEMMA SawFrameEnds ==
    ASSUME InTime, AsSaid, SawInv, Frame
    PROVE  SawInv'
<1>1. PICK d \in Gaps \cup {0} :
          /\ at + d \in FrameMin .. FrameMax
          /\ at' = 0 /\ clock' = clock + d /\ Wait(d) /\ song' = song
          /\ CASE song.chip = "vrc6" -> Vrc(VrcFrame(RunVrc(vrc, at + d), at + d))
               [] song.chip = "sun5b" ->
                      sun' = SunFrame(RunSun(sun, at + d), at + d) /\ UNCHANGED <<vrc, namco, torn>>
               [] song.chip = "n163" ->
                      namco' = NamcoFrame(RunNamco(namco, at + d), at + d)
                      /\ UNCHANGED <<vrc, sun, torn>>
  BY DEF Frame
<1>2. d \in Nat /\ at \in Nat /\ clock \in Nat /\ at + d <= FrameMax /\ clock + d \in Nat /\ at + d \in Nat
  BY <1>1, GapsAreNat, VoicesAssumption DEF InTime
<1>3. /\ since' \in Nat /\ half' = half /\ whole' = whole
      /\ since' <= since + d /\ (half => since' = since + d /\ since' <= PairGap)
  BY <1>1, <1>2, SawStays
<1>4. half \in BOOLEAN
  BY DEF SawInv
<1>5. CASE song.voice # "saw"
  BY <1>1, <1>3, <1>4, <1>5, SawOther
<1>6. CASE song.chip # "vrc6"
  <2>1. torn' = torn
    BY <1>1, <1>6, ChipOfRegister
  <2>. QED
    BY <1>1, <1>3, <1>4, <1>6, <2>1, SawOther
<1>7. CASE song.voice = "saw" /\ song.chip = "vrc6"
  <2>. DEFINE run == RunVrc(vrc, at + d)
              c == clock + d
              a == at + d
              new == VrcFrame(run, a)
  <2>1. SawRun(run, d, since') /\ Vrc(new) /\ c \in Nat /\ a \in Nat
    BY <1>1, <1>2, <1>3, <1>7, SawRunsTo
  <2>2. /\ IsVrc(run) /\ SawTimes(run, c, a, since', half, whole) /\ run.heard \subseteq whole
        /\ Age(run, c) \in Nat /\ IsNow(FxpTime(run, a), run, c)
    BY <2>1 DEF SawRun
  <2>. HIDE DEF run, c, a
  <2>3. SawTimes(new, c, 0, since', half, whole) /\ new.heard = run.heard
    BY <1>3, <1>4, <2>1, <2>2, SawFrames
  <2>4. SawTimes(new, clock', at', since', half', whole') /\ new.heard \subseteq whole
    BY <1>1, <1>3, <2>2, <2>3 DEF c
  <2>. HIDE DEF new
  <2>. QED
    BY <1>1, <1>3, <1>4, <1>7, <2>1, <2>4, SawStep
<1>. QED
  BY <1>5, <1>6, <1>7

LEMMA SawNext ==
    ASSUME InTime, AsSaid, SawInv, [Next]_vars
    PROVE  SawInv'
<1>1. CASE WriteDuty \/ WriteSawRate
  BY <1>1, SawWrites
<1>2. CASE BeginPeriod
  BY <1>2, SawBegins
<1>3. CASE EndPeriod
  BY <1>3, SawEnds
<1>4. ASSUME song' = song, song.chip # "vrc6", UNCHANGED <<pairs, torn>> PROVE SawInv'
  BY <1>4 DEF SawInv, pairs
<1>5. CASE WriteTone \/ WriteNoise \/ WriteMixer \/ WriteSunVolume \/ WriteEnvPeriod \/ WriteShape
  <2>1. \E d \in Gaps, reg \in {"tone", "noise", "mixer", "volume", "envelope", "shape"} :
            Later(d) /\ Writes(reg) /\ UNCHANGED <<pairs, torn>>
    BY <1>5 DEF WriteTone, WriteNoise, WriteMixer, WriteSunVolume, WriteEnvPeriod, WriteShape, Sun
  <2>2. song.chip = "sun5b" /\ song' = song /\ UNCHANGED <<pairs, torn>>
    BY <2>1, ChipOfRegister DEF Writes, Later
  <2>. QED
    BY <1>4, <2>2
<1>6. CASE WriteCell
  <2>1. song.chip = "n163" /\ song' = song /\ UNCHANGED <<pairs, torn>>
    BY <1>6, ChipOfRegister DEF WriteCell, Writes, Later
  <2>. QED
    BY <1>4, <2>1
<1>7. CASE ForceUpdate
  BY <1>7, SawUpdates
<1>8. CASE Frame
  BY <1>8, SawFrameEnds
<1>9. CASE UNCHANGED vars
  <2>1. /\ song' = song /\ vrc' = vrc /\ clock' = clock /\ at' = at /\ torn' = torn
        /\ since' = since /\ half' = half /\ whole' = whole
    BY <1>9 DEF vars, chips, pairs
  <2>. QED
    BY <2>1 DEF SawInv
<1>. QED
  BY <1>1, <1>2, <1>3, <1>5, <1>6, <1>7, <1>8, <1>9 DEF Next

\* A song starts with the saw off.
LEMMA SawInit == Init => SawInv
<1>. SUFFICES ASSUME Init PROVE SawInv
  OBVIOUS
<1>1. since = PairRest + 1 /\ half = FALSE /\ torn = {} /\ clock = 0 /\ at = 0 /\ vrc = PowerVrc
  BY DEF Init
<1>2. vrc.on = {} /\ vrc.changed = [v \in Voices |-> 0]
  BY <1>1 DEF PowerVrc
<1>3. vrc.changed \in [Voices -> Int] /\ vrc.changed["saw"] = 0
  BY <1>2 DEF Voices
<1>4. Age(vrc, 0) = 0
  <2>1. Fxp \in Nat \ {0} /\ 0 * VrcScale - 0 = 0
    BY SawScales
  <2>2. 0 % Fxp = 0
    BY <2>1
  <2>. QED
    BY <1>3, <2>1, <2>2 DEF Age
<1>5. 0 <= Sample + 0 * VrcScale /\ PairRest + 1 \in Nat
  BY SawScales
<1>6. SawTimes(vrc, clock, at, since, half, whole)
  BY <1>1, <1>2, <1>3, <1>4, <1>5 DEF SawTimes
<1>. QED
  BY <1>1, <1>5, <1>6 DEF SawInv

\* In however long a song that writes both halves of a period within PairGap cycles,
\* and periods more than PairRest apart, no sample of the saw is made with half of a
\* new period: the delay in vrc6.c (a change in the second half of a sample waits for
\* the next, unless it follows another one within half a sample) is long enough and
\* never holds back one half without the other.
THEOREM SawIsWhole == Spec => []SawWhole
<1>1. Init => InTime /\ AsSaid /\ SawInv
  BY InTimeInit, SawInit, VrcPowerSays, SunPowerSays, NamcoPowerSays DEF Init, AsSaid
<1>2. InTime /\ AsSaid /\ SawInv /\ [Next]_vars => (InTime /\ AsSaid /\ SawInv)'
  <2>1. SUFFICES ASSUME InTime, AsSaid, SawInv, [Next]_vars PROVE InTime' /\ AsSaid' /\ SawInv'
    OBVIOUS
  <2>2. AsSaid'
    <3>1. CASE UNCHANGED vars
      BY <2>1, <3>1 DEF vars, chips, AsSaid
    <3>2. CASE Next
      BY <2>1, <3>2, SaidVrc, SaidSun, SaidNamco, SaidRun DEF Next
    <3>. QED
      BY <2>1, <3>1, <3>2
  <2>. QED
    BY <2>1, <2>2, InTimeNext, SawNext
<1>3. SawInv => SawWhole
  BY DEF SawInv, SawWhole
<1>. QED
  BY <1>1, <1>2, <1>3, PTL DEF Spec
=============================================================================
