---------------------------- MODULE KernelProofs ----------------------------
(***************************************************************************)
(* What holds of any number of kernel calls.                                *)
(*                                                                         *)
(* ToyFHE, for all parameters, messages, scalars and buffers: the scale     *)
(* discipline, the growth of the noise and that decryption is right within  *)
(* it.  Within says that a raw value decodes to a number up to some noise   *)
(* and modulo q; it is closed under addition, multiplication by an integer, *)
(* reduction and fresh noise.  The product of two ciphertexts is the hard   *)
(* case: their raw values are centred first, which has to find the one      *)
(* representative that has not wrapped round (Near), and then rounded       *)
(* (NearProduct).  The invariant strengthens NoiseBounded with what makes   *)
(* that so: what is followed is in range, and an integer is kept as its     *)
(* centred residue modulo t.                                               *)
(*                                                                         *)
(* Cheddar: for every configuration and any sequence of calls, the guards   *)
(* that the code has catch what they are for: no named assertion of the     *)
(* library is reached (rotation keys, vectors of no slots, operands whose   *)
(* levels or scales differ).  On operands the code hands over unguarded     *)
(* (see Told) the process may end, and the theorem says nothing of it.      *)
(* What the guards rely on and do not check is that every ciphertext packs  *)
(* at least one slot: a distance is reduced modulo the number of slots.     *)
(*                                                                         *)
(* Both backends: what a call that succeeds on fit operands leaves in its   *)
(* result, spread over Width slots, is the meaning of its opcode.  A slot   *)
(* of a narrow vector is found by a remainder, so spreading has to agree    *)
(* with the operations between vectors of different sizes (SpreadSlotwise)  *)
(* and with rotation by a distance reduced modulo the smaller one           *)
(* (SpreadRotated).  That rests on the sizes: each divides the next         *)
(* (Packed), or at least Width (Fitting).  The reference backend's loops    *)
(* read buffers nobody has written since they were entered (Swept).         *)
(***************************************************************************)
EXTENDS Kernels, SequenceTheorems, TLAPS

-----------------------------------------------------------------------------
(* The reference engine.  First its arithmetic: magnitudes, division,       *)
(* centred residues and rounding to the nearest.                            *)

LEMMA MagnitudeFacts ==
  ASSUME NEW a \in Int, NEW b \in Int
  PROVE  /\ Magnitude(a) \in Nat /\ a <= Magnitude(a) /\ -a <= Magnitude(a)
         /\ Magnitude(-a) = Magnitude(a)
         /\ Magnitude(a + b) <= Magnitude(a) + Magnitude(b)
         /\ Magnitude(a - b) <= Magnitude(a) + Magnitude(b)
         /\ \A n \in Int : Magnitude(a) <= n <=> a <= n /\ -a <= n
BY DEF Magnitude

LEMMA MagnitudeTimes ==
  ASSUME NEW a \in Int, NEW b \in Int
  PROVE  /\ Magnitude(a * b) = Magnitude(a) * Magnitude(b)
         /\ b >= 0 => Magnitude(a * b) = Magnitude(a) * b
BY DEF Magnitude

LEMMA BoundSum ==
  ASSUME NEW a \in Int, NEW b \in Int, NEW m \in Int, NEW n \in Int,
         Magnitude(a) <= m, Magnitude(b) <= n
  PROVE  Magnitude(a + b) <= m + n
BY DEF Magnitude

LEMMA BoundTimes ==
  ASSUME NEW a \in Int, NEW m \in Int, NEW f \in Nat, Magnitude(a) <= m
  PROVE  Magnitude(a * f) <= m * f
<1>1. -m <= a /\ a <= m
  BY DEF Magnitude
<1>2. a * f <= m * f /\ (-m) * f <= a * f /\ (-m) * f = -(m * f)
  BY <1>1
<1>3. QED
  BY <1>2 DEF Magnitude

LEMMA BoundProduct ==
  ASSUME NEW a \in Int, NEW b \in Int, NEW m \in Int, NEW n \in Int,
         Magnitude(a) <= m, Magnitude(b) <= n
  PROVE  Magnitude(a * b) <= m * n
<1>1. Magnitude(a * b) = Magnitude(a) * Magnitude(b)
  BY MagnitudeTimes
<1>2. PICK u \in Nat, v \in Nat : u = Magnitude(a) /\ v = Magnitude(b)
  BY MagnitudeFacts
<1>3. u * v <= m * v /\ m * v <= m * n
  BY <1>2
<1>4. u * v \in Int /\ m * v \in Int /\ m * n \in Int
  BY <1>2
<1>5. QED
  BY <1>1, <1>2, <1>3, <1>4

LEMMA Cancel ==
  ASSUME NEW d \in Nat, d > 0, NEW u \in Int, NEW v \in Int, d * u <= d * v
  PROVE  u <= v
<1>1. SUFFICES ASSUME u >= v + 1 PROVE FALSE
  OBVIOUS
<1>2. d * u >= d * (v + 1) /\ d * (v + 1) = d * v + d
  BY <1>1
<1>3. QED
  BY <1>2

LEMMA Division ==
  ASSUME NEW a \in Int, NEW n \in Nat, n > 0
  PROVE  /\ a \div n \in Int /\ a % n \in 0..(n - 1)
         /\ a = n * (a \div n) + (a % n)
OBVIOUS

(* Only one number in 0..n-1 differs from a by a multiple of n. *)
LEMMA SameRemainder ==
  ASSUME NEW a \in Int, NEW n \in Nat, n > 0, NEW k \in Int, NEW r \in 0..(n - 1),
         a = n * k + r
  PROVE  a % n = r /\ a \div n = k
<1>1. /\ a \div n \in Int /\ a % n \in 0..(n - 1)
      /\ a = n * (a \div n) + (a % n)
  BY Division
<1> DEFINE j == a \div n
           s == a % n
<1>2. j \in Int /\ s \in Int /\ n * j + s = n * k + r /\ s < n /\ s >= 0 /\ r < n /\ r >= 0
  BY <1>1
<1> HIDE DEF j, s
<1>3. n * (k - j) = s - r
  BY <1>2
<1>4. ~(k - j >= 1)
  <2>1. SUFFICES ASSUME k - j >= 1 PROVE FALSE
    OBVIOUS
  <2>2. n * (k - j) >= n
    BY <2>1, <1>2
  <2>3. QED
    BY <2>2, <1>2, <1>3
<1>5. ~(j - k >= 1)
  <2>1. SUFFICES ASSUME j - k >= 1 PROVE FALSE
    OBVIOUS
  <2>2. n * (j - k) >= n
    BY <2>1, <1>2
  <2>4. n * (j - k) = r - s
    BY <1>2
  <2>3. QED
    BY <2>2, <2>4, <1>2
<1>6. k = j
  BY <1>4, <1>5, <1>2
<1>7. QED
  BY <1>6, <1>2 DEF j, s

LEMMA CeilingFacts ==
  ASSUME NEW n \in Nat, NEW d \in Nat, d > 0
  PROVE  Ceiling(n, d) \in Nat /\ n <= Ceiling(n, d) * d
<1>1. /\ (n + d - 1) \div d \in Int /\ (n + d - 1) % d \in 0..(d - 1)
      /\ n + d - 1 = d * ((n + d - 1) \div d) + ((n + d - 1) % d)
  BY Division
<1> DEFINE j == (n + d - 1) \div d
           s == (n + d - 1) % d
<1>2. j \in Int /\ s \in Int /\ n + d - 1 = d * j + s /\ s <= d - 1 /\ s >= 0
  BY <1>1
<1>3. Ceiling(n, d) = j
  BY DEF Ceiling
<1> HIDE DEF j, s
<1>4. n <= d * j
  BY <1>2
<1>5. j >= 0
  <2>1. SUFFICES ASSUME j <= -1 PROVE FALSE
    BY <1>2
  <2>2. d * j <= -d
    BY <2>1, <1>2
  <2>3. QED
    BY <2>2, <1>2, <1>4
<1>6. QED
  BY <1>2, <1>3, <1>4, <1>5

LEMMA CenteredFacts ==
  ASSUME NEW a \in Int, NEW m \in Nat, m > 0
  PROVE  /\ CenteredMod(a, m) \in Int
         /\ \E k \in Int : CenteredMod(a, m) = a + k * m
         /\ -m < 2 * CenteredMod(a, m) /\ 2 * CenteredMod(a, m) <= m
<1> DEFINE j == a \div m
           s == a % m
           h == m \div 2
<1>1. j \in Int /\ s \in 0..(m - 1) /\ a = m * j + s
  BY Division
<1>2. h \in Int /\ (m = 2 * h \/ m = 2 * h + 1)
  OBVIOUS
<1>3. CenteredMod(a, m) = IF s > h THEN s - m ELSE s
  BY DEF CenteredMod
<1> HIDE DEF j, s, h
<1>4. s = a + (-j) * m /\ s - m = a + (-j - 1) * m
  BY <1>1
<1>5. -j \in Int /\ -j - 1 \in Int
  BY <1>1
<1> DEFINE f == CenteredMod(a, m)
<1>6. f = s \/ f = s - m
  BY <1>3
<1>7. f \in Int /\ -m < 2 * f /\ 2 * f <= m
  <2>1. CASE s > h
    <3>1. f = s - m
      BY <1>3, <2>1
    <3> HIDE DEF f
    <3>2. QED
      BY <1>1, <1>2, <2>1, <3>1
  <2>2. CASE ~(s > h)
    <3>1. f = s
      BY <1>3, <2>2
    <3> HIDE DEF f
    <3>2. QED
      BY <1>1, <1>2, <2>2, <3>1
  <2>3. QED
    BY <2>1, <2>2
<1> HIDE DEF f
<1>8. \E k \in Int : f = a + k * m
  BY <1>4, <1>5, <1>6
<1>9. QED
  BY <1>7, <1>8 DEF f

(* A number in that range is the one congruent to a. *)
LEMMA CenteredOnly ==
  ASSUME NEW a \in Int, NEW m \in Nat, m > 0, NEW k \in Int, NEW c \in Int,
         c = a + k * m, -m < 2 * c, 2 * c <= m
  PROVE  CenteredMod(a, m) = c
<1> DEFINE f == CenteredMod(a, m)
<1>1. f \in Int /\ -m < 2 * f /\ 2 * f <= m
  BY CenteredFacts
<1>2. PICK l \in Int : f = a + l * m
  BY CenteredFacts
<1> HIDE DEF f
<1>3. c - f = (k - l) * m
  BY <1>1, <1>2
<1>4. ~(k - l >= 1)
  <2>1. SUFFICES ASSUME k - l >= 1 PROVE FALSE
    OBVIOUS
  <2>2. (k - l) * m >= m
    BY <2>1, <1>2
  <2>3. QED
    BY <2>2, <1>1, <1>3
<1>5. ~(l - k >= 1)
  <2>1. SUFFICES ASSUME l - k >= 1 PROVE FALSE
    OBVIOUS
  <2>2. (l - k) * m >= m
    BY <2>1, <1>2
  <2>3. (l - k) * m = f - c
    BY <1>1, <1>2
  <2>4. QED
    BY <2>2, <2>3, <1>1
<1>6. k = l
  BY <1>4, <1>5, <1>2
<1>7. QED
  BY <1>6, <1>3, <1>1 DEF f

(* and none congruent to a is smaller *)
LEMMA CenteredLeast ==
  ASSUME NEW a \in Int, NEW m \in Nat, m > 0, NEW k \in Int
  PROVE  Magnitude(CenteredMod(a, m)) <= Magnitude(a + k * m)
<1> DEFINE f == CenteredMod(a, m)
           b == a + k * m
<1>1. f \in Int /\ -m < 2 * f /\ 2 * f <= m /\ b \in Int
  BY CenteredFacts
<1>2. CASE -m < 2 * b /\ 2 * b <= m
  <2>1. f = b
    BY <1>1, <1>2, CenteredOnly
  <2> HIDE DEF f, b
  <2>2. Magnitude(f) \in Nat /\ Magnitude(f) = Magnitude(b)
    BY <1>1, <2>1, MagnitudeFacts
  <2>3. Magnitude(f) <= Magnitude(b)
    BY <2>2
  <2>4. QED
    BY <2>3 DEF f, b
<1>3. CASE ~(-m < 2 * b /\ 2 * b <= m)
  <2> HIDE DEF f, b
  <2>1. 2 * Magnitude(f) <= m
    BY <1>1 DEF Magnitude
  <2>2. m <= 2 * Magnitude(b)
    BY <1>1, <1>3 DEF Magnitude
  <2>3. Magnitude(f) \in Nat /\ Magnitude(b) \in Nat
    BY <1>1, MagnitudeFacts
  <2>4. Magnitude(f) <= Magnitude(b)
    BY <2>1, <2>2, <2>3
  <2>5. QED
    BY <2>4 DEF f, b
<1>4. QED
  BY <1>2, <1>3

(* Rounding is off by half a unit at most.                                  *)
LEMMA NearestFacts ==
  ASSUME NEW n \in Int, NEW d \in Nat, d > 0
  PROVE  /\ Nearest(n, d) \in Int
         /\ 2 * Magnitude(Nearest(n, d) * d - n) <= d
<1>1. ASSUME NEW p \in Nat
      PROVE  /\ (2 * p + d) \div (2 * d) \in Int
             /\ -d <= 2 * (((2 * p + d) \div (2 * d)) * d - p)
             /\ 2 * (((2 * p + d) \div (2 * d)) * d - p) <= d
  <2> DEFINE j == (2 * p + d) \div (2 * d)
             s == (2 * p + d) % (2 * d)
  <2>1. j \in Int /\ s \in 0..(2 * d - 1) /\ 2 * p + d = (2 * d) * j + s
    BY Division
  <2> HIDE DEF j, s
  <2>2. 2 * (j * d - p) = d - s
    BY <2>1
  <2>3. -d <= 2 * (j * d - p) /\ 2 * (j * d - p) <= d
    BY <2>1, <2>2
  <2>4. QED
    BY <2>1, <2>3 DEF j
<1>2. CASE n >= 0
  <2>1. n \in Nat /\ Nearest(n, d) = (2 * n + d) \div (2 * d)
    BY <1>2 DEF Nearest
  <2> DEFINE j == Nearest(n, d)
  <2>2. j \in Int /\ -d <= 2 * (j * d - n) /\ 2 * (j * d - n) <= d
    BY <1>1, <2>1
  <2> HIDE DEF j
  <2>3. 2 * Magnitude(j * d - n) <= d
    BY <2>2 DEF Magnitude
  <2>4. QED
    BY <2>2, <2>3 DEF j
<1>3. CASE ~(n >= 0)
  <2> DEFINE i == (2 * (-n) + d) \div (2 * d)
             j == Nearest(n, d)
  <2>1. -n \in Nat /\ d - 2 * n = 2 * (-n) + d
    BY <1>3
  <2>2. j = -i
    BY <1>3, <2>1 DEF Nearest
  <2>3. i \in Int /\ -d <= 2 * (i * d - (-n)) /\ 2 * (i * d - (-n)) <= d
    BY <1>1, <2>1
  <2> HIDE DEF i, j
  <2>5. j * d - n = -(i * d - (-n))
    BY <2>2, <2>3
  <2>6. 2 * Magnitude(j * d - n) <= d
    BY <2>2, <2>3, <2>5 DEF Magnitude
  <2>7. j \in Int
    BY <2>2, <2>3
  <2>8. QED
    BY <2>6, <2>7 DEF j
<1>4. QED
  BY <1>2, <1>3

-----------------------------------------------------------------------------
(* r decodes to num / den at scale s, up to noise and modulo m.            *)
Within(m, r, s, num, den, noise) ==
  \E k \in Int : Magnitude(r * den - s * num - k * (m * den)) <= noise * den

LEMMA WithinModulo ==
  ASSUME NEW m \in Nat, NEW r \in Int, NEW s \in Int, NEW num \in Int,
         NEW den \in Nat, NEW noise \in Nat, NEW j \in Int,
         Within(m, r, s, num, den, noise)
  PROVE  Within(m, r + j * m, s, num, den, noise)
<1>1. PICK k \in Int : Magnitude(r * den - s * num - k * (m * den)) <= noise * den
  BY DEF Within
<1>2. (r + j * m) * den - s * num - (k + j) * (m * den)
        = r * den - s * num - k * (m * den)
  OBVIOUS
<1>3. k + j \in Int
  OBVIOUS
<1>4. QED
  BY <1>1, <1>2, <1>3, Zenon DEF Within

LEMMA WithinReduced ==
  ASSUME NEW m \in Nat, m > 0, NEW r \in Int, NEW s \in Int, NEW num \in Int,
         NEW den \in Nat, NEW noise \in Nat, Within(m, r, s, num, den, noise)
  PROVE  Within(m, r % m, s, num, den, noise) /\ r % m \in 0..(m - 1)
<1> DEFINE j == r \div m
           u == r % m
<1>1. j \in Int /\ u \in 0..(m - 1) /\ r = m * j + u
  BY Division
<1> HIDE DEF j, u
<1>2. u = r + (-j) * m /\ -j \in Int
  BY <1>1
<1>3. Within(m, r + (-j) * m, s, num, den, noise)
  BY <1>2, WithinModulo
<1>4. QED
  BY <1>1, <1>2, <1>3 DEF u

(* Two numbers over one denominator, or over different ones.               *)
LEMMA WithinSum ==
  ASSUME NEW m \in Nat, NEW s \in Int,
         NEW r1 \in Int, NEW n1 \in Int, NEW d1 \in Nat, NEW e1 \in Nat,
         NEW r2 \in Int, NEW n2 \in Int, NEW d2 \in Nat, NEW e2 \in Nat,
         Within(m, r1, s, n1, d1, e1), Within(m, r2, s, n2, d2, e2)
  PROVE  /\ d1 = d2 => Within(m, r1 + r2, s, n1 + n2, d1, e1 + e2)
         /\ Within(m, r1 + r2, s, n1 * d2 + n2 * d1, d1 * d2, e1 + e2)
<1>1. PICK k1 \in Int : Magnitude(r1 * d1 - s * n1 - k1 * (m * d1)) <= e1 * d1
  BY DEF Within
<1>2. PICK k2 \in Int : Magnitude(r2 * d2 - s * n2 - k2 * (m * d2)) <= e2 * d2
  BY DEF Within
<1>3. PICK o1 \in Int : o1 = r1 * d1 - s * n1 - k1 * (m * d1)
  OBVIOUS
<1>4. PICK o2 \in Int : o2 = r2 * d2 - s * n2 - k2 * (m * d2)
  OBVIOUS
<1>5. Magnitude(o1) <= e1 * d1 /\ Magnitude(o2) <= e2 * d2
  BY <1>1, <1>2, <1>3, <1>4
<1>6. k1 + k2 \in Int
  OBVIOUS
<1>7. ASSUME d1 = d2
      PROVE  Within(m, r1 + r2, s, n1 + n2, d1, e1 + e2)
  <2>1. (r1 + r2) * d1 - s * (n1 + n2) - (k1 + k2) * (m * d1) = o1 + o2
    BY <1>3, <1>4, <1>7
  <2>2. Magnitude(o1 + o2) <= e1 * d1 + e2 * d1
    <3>1. e1 * d1 \in Int /\ e2 * d2 \in Int
      OBVIOUS
    <3>2. Magnitude(o1 + o2) <= e1 * d1 + e2 * d2
      BY <1>5, <3>1, BoundSum
    <3>3. QED
      BY <1>7, <3>2
  <2>3. e1 * d1 + e2 * d1 = (e1 + e2) * d1
    OBVIOUS
  <2>4. QED
    BY <1>6, <2>1, <2>2, <2>3, Zenon DEF Within
<1>8. Within(m, r1 + r2, s, n1 * d2 + n2 * d1, d1 * d2, e1 + e2)
  <2>1. (r1 + r2) * (d1 * d2) - s * (n1 * d2 + n2 * d1) - (k1 + k2) * (m * (d1 * d2))
          = o1 * d2 + o2 * d1
    BY <1>3, <1>4
  <2>2. e1 * d1 \in Int /\ e2 * d2 \in Int
    OBVIOUS
  <2>3. Magnitude(o1 * d2) <= (e1 * d1) * d2
    BY <1>5, <2>2, BoundTimes
  <2>4. Magnitude(o2 * d1) <= (e2 * d2) * d1
    BY <1>5, <2>2, BoundTimes
  <2>5. PICK a \in Int, b \in Int, u \in Int, v \in Int :
          a = o1 * d2 /\ b = o2 * d1 /\ u = (e1 * d1) * d2 /\ v = (e2 * d2) * d1
    OBVIOUS
  <2>6. Magnitude(o1 * d2 + o2 * d1) <= (e1 + e2) * (d1 * d2)
    <3>1. Magnitude(a + b) <= u + v
      BY <2>3, <2>4, <2>5, BoundSum
    <3>2. u + v = (e1 + e2) * (d1 * d2)
      BY <2>5
    <3>3. QED
      BY <2>5, <3>1, <3>2
  <2>7. QED
    BY <1>6, <2>1, <2>6, Zenon DEF Within
<1>9. QED
  BY <1>7, <1>8

(* A multiple: of the number, or of the scale it is at.                    *)
LEMMA WithinTimes ==
  ASSUME NEW m \in Nat, NEW r \in Int, NEW s \in Int, NEW num \in Int,
         NEW den \in Nat, NEW noise \in Nat, NEW f \in Int,
         Within(m, r, s, num, den, noise)
  PROVE  /\ Within(m, r * f, s, num * f, den, noise * Magnitude(f))
         /\ Within(m, r * f, s * f, num, den, noise * Magnitude(f))
<1>1. PICK k \in Int : Magnitude(r * den - s * num - k * (m * den)) <= noise * den
  BY DEF Within
<1>2. PICK o \in Int : o = r * den - s * num - k * (m * den)
  OBVIOUS
<1>3. /\ (r * f) * den - s * (num * f) - (k * f) * (m * den) = o * f
      /\ (r * f) * den - (s * f) * num - (k * f) * (m * den) = o * f
  BY <1>2
<1>4. Magnitude(o) <= noise * den /\ Magnitude(o) \in Nat /\ Magnitude(f) \in Nat
      /\ Magnitude(o * f) = Magnitude(o) * Magnitude(f)
  BY <1>1, <1>2, MagnitudeFacts, MagnitudeTimes
<1>5. Magnitude(o * f) <= (noise * Magnitude(f)) * den
  BY <1>4
<1>6. k * f \in Int
  OBVIOUS
<1>7. QED
  BY <1>3, <1>5, <1>6, Zenon DEF Within

(* An integer is known modulo t.                                           *)
LEMMA WithinRenamed ==
  ASSUME NEW m \in Nat, NEW r \in Int, NEW s \in Int, NEW num \in Int, NEW u \in Int,
         NEW noise \in Nat, NEW j \in Int, m = s * u,
         Within(m, r, s, num, 1, noise)
  PROVE  Within(m, r, s, num + j * u, 1, noise)
<1>1. PICK k \in Int : Magnitude(r * 1 - s * num - k * (m * 1)) <= noise * 1
  BY DEF Within
<1>2. r * 1 - s * (num + j * u) - (k - j) * (m * 1) = r * 1 - s * num - k * (m * 1)
  OBVIOUS
<1>3. k - j \in Int
  OBVIOUS
<1>4. QED
  BY <1>1, <1>2, <1>3, Zenon DEF Within

(* Noise that was added.                                                   *)
LEMMA WithinNoise ==
  ASSUME NEW m \in Nat, NEW r \in Int, NEW s \in Int, NEW num \in Int,
         NEW den \in Nat, NEW noise \in Nat, NEW bound \in Nat, NEW e \in Int,
         Magnitude(e) <= bound, Within(m, r, s, num, den, noise)
  PROVE  Within(m, r + e, s, num, den, noise + bound)
<1>1. PICK k \in Int : Magnitude(r * den - s * num - k * (m * den)) <= noise * den
  BY DEF Within
<1>2. PICK o \in Int : o = r * den - s * num - k * (m * den)
  OBVIOUS
<1>3. (r + e) * den - s * num - k * (m * den) = o + e * den
  BY <1>2
<1>4. Magnitude(o) <= noise * den
  BY <1>1, <1>2
<1>5. Magnitude(e * den) <= bound * den
  <2>1. bound \in Int
    OBVIOUS
  <2>2. QED
    BY <2>1, BoundTimes
<1>6. PICK a \in Int, u \in Int, v \in Int :
        a = e * den /\ u = noise * den /\ v = bound * den
  OBVIOUS
<1>7. Magnitude(o + a) <= u + v
  BY <1>4, <1>5, <1>6, BoundSum
<1>8. Magnitude(o + e * den) <= (noise + bound) * den
  BY <1>6, <1>7
<1>9. QED
  BY <1>3, <1>8, Zenon DEF Within

(* Multiply two approximations and divide: what the rounding adds.          *)
LEMMA NearProduct ==
  ASSUME NEW a \in Int, NEW d \in Nat, d > 0, NEW u \in Int, NEW m \in Int,
         Magnitude(a * d - u) <= m,
         NEW b \in Int, NEW e \in Nat, e > 0, NEW v \in Int, NEW n \in Int,
         Magnitude(b * e - v) <= n,
         NEW by \in Nat, by > 0, NEW w \in Int, by * w = u * v,
         NEW c \in Nat,
         Magnitude(u) * n + Magnitude(b * e) * m <= c * (by * (d * e))
  PROVE  /\ Nearest(a * b, by) \in Int
         /\ Magnitude(Nearest(a * b, by) * (d * e) - w) <= (c + 1) * (d * e)
<1>1. PICK de \in Nat : de = d * e
  OBVIOUS
<1>2. PICK p \in Int, q1 \in Int, q2 \in Int : 
        p = a * b /\ q1 = a * d - u /\ q2 = b * e - v
  OBVIOUS
<1>3. PICK near \in Int : near = Nearest(p, by) /\ 2 * Magnitude(near * by - p) <= by
  BY NearestFacts
<1>4. PICK x \in Int : x = near * de - w
  OBVIOUS
<1>5. PICK f \in Int : f = near * by - p
  OBVIOUS
<1>6. PICK be \in Int : be = b * e
  OBVIOUS
<1>7. by * x = f * de + (u * q2 + be * q1)
  <2>1. by * x = near * by * de - u * v
    BY <1>4
  <2>2. f * de = near * by * de - p * de
    BY <1>5
  <2>3. p * de = (a * d) * be
    BY <1>1, <1>2, <1>6
  <2>4. u * q2 + be * q1 = (a * d) * be - u * v
    BY <1>2, <1>6
  <2>5. QED
    BY <2>1, <2>2, <2>3, <2>4
<1>8. PICK g \in Int : g = u * q2 + be * q1
  OBVIOUS
<1>9. Magnitude(g) <= c * (by * de)
  <2>1. Magnitude(u) \in Int /\ Magnitude(be) \in Int
    BY MagnitudeFacts
  <2>2. PICK mu \in Int, mb \in Int : mu = Magnitude(u) /\ mb = Magnitude(be)
    BY <2>1
  <2>3. PICK g1 \in Int, g2 \in Int, h1 \in Int, h2 \in Int :
          g1 = u * q2 /\ g2 = be * q1 /\ h1 = mu * n /\ h2 = mb * m
    OBVIOUS
  <2>4. Magnitude(g1) <= h1
    <3>1. Magnitude(u) <= mu /\ Magnitude(q2) <= n
      BY <1>2, <2>2
    <3>2. Magnitude(u * q2) <= mu * n
      BY <3>1, BoundProduct
    <3>3. QED
      BY <2>3, <3>2
  <2>5. Magnitude(g2) <= h2
    <3>1. Magnitude(be) <= mb /\ Magnitude(q1) <= m
      BY <1>2, <2>2
    <3>2. Magnitude(be * q1) <= mb * m
      BY <3>1, BoundProduct
    <3>3. QED
      BY <2>3, <3>2
  <2>6. Magnitude(g1 + g2) <= h1 + h2
    BY <2>4, <2>5, BoundSum
  <2>7. h1 + h2 <= c * (by * de)
    BY <1>1, <1>6, <2>2, <2>3
  <2>8. PICK top \in Int : top = c * (by * de)
    OBVIOUS
  <2>9. Magnitude(g) = Magnitude(g1 + g2) /\ Magnitude(g1 + g2) \in Nat
    BY <1>8, <2>3, MagnitudeFacts
  <2>10. Magnitude(g) <= top
    BY <2>3, <2>6, <2>7, <2>8, <2>9
  <2>11. QED
    BY <2>8, <2>10
<1>10. 2 * Magnitude(f * de) <= by * de
  <2>1. PICK mf \in Nat : mf = Magnitude(f)
    BY MagnitudeFacts
  <2>2. Magnitude(f * de) = mf * de
    BY <2>1, MagnitudeTimes
  <2>3. 2 * mf <= by
    BY <1>3, <1>5, <2>1
  <2>4. (2 * mf) * de <= by * de
    BY <2>3
  <2>5. QED
    BY <2>2, <2>4
<1>11. by * (2 * Magnitude(x)) <= by * (2 * ((c + 1) * de))
  <2>1. PICK fd \in Int, k \in Int : fd = f * de /\ k = by * x
    OBVIOUS
  <2>2. k = fd + g
    BY <1>7, <1>8, <2>1
  <2>3. Magnitude(k) <= Magnitude(fd) + Magnitude(g)
    BY <2>2, MagnitudeFacts
  <2>4. PICK mx \in Nat : mx = Magnitude(x)
    BY MagnitudeFacts
  <2>5. Magnitude(k) = mx * by
    <3>1. Magnitude(x * by) = mx * by
      BY <2>4, MagnitudeTimes
    <3>2. k = x * by
      BY <2>1
    <3>3. QED
      BY <3>1, <3>2
  <2>6. PICK y \in Nat, z \in Nat : y = by * de /\ z = c * (by * de)
    OBVIOUS
  <2>7. 2 * (mx * by) <= y + 2 * z
    <3>1. PICK mfd \in Nat, mg \in Nat : mfd = Magnitude(fd) /\ mg = Magnitude(g)
      BY MagnitudeFacts
    <3>2. 2 * mfd <= y /\ mg <= z
      BY <1>9, <1>10, <2>1, <2>6, <3>1
    <3>3. QED
      BY <2>3, <2>5, <3>1, <3>2
  <2>8. y + 2 * z <= by * (2 * ((c + 1) * de))
    <3>1. by * (2 * ((c + 1) * de)) = 2 * z + 2 * y
      BY <2>6
    <3>2. QED
      BY <3>1
  <2>9. QED
    BY <2>4, <2>7, <2>8
<1>12. 2 * Magnitude(x) <= 2 * ((c + 1) * de)
  <2>1. PICK mx \in Nat : mx = Magnitude(x)
    BY MagnitudeFacts
  <2>2. 2 * mx \in Int /\ 2 * ((c + 1) * de) \in Int
    OBVIOUS
  <2>3. QED
    BY <1>11, <2>1, <2>2, Cancel
<1>13. Magnitude(x) <= (c + 1) * de
  <2>1. PICK mx \in Nat : mx = Magnitude(x)
    BY MagnitudeFacts
  <2>2. PICK top \in Int : top = (c + 1) * de
    OBVIOUS
  <2>3. QED
    BY <1>12, <2>1, <2>2
<1>14. QED
  BY <1>1, <1>2, <1>3, <1>4, <1>13

(* Rounding a mantissa at half the precision of the encoding.               *)
LEMMA NearestHalf ==
  ASSUME NEW v \in Int
  PROVE  /\ Nearest(v, 2) \in Int
         /\ v % 2 \in {0, 1}
         /\ Magnitude(2 * Nearest(v, 2) - v) <= v % 2
BY DEF Nearest, Magnitude

LEMMA NearestScaled ==
  ASSUME NEW n \in Int, NEW d \in Nat, d > 0, NEW k \in Nat, k > 0
  PROVE  Nearest(n * k, d * k) = Nearest(n, d)
<1>1. ASSUME NEW p \in Nat
      PROVE  (2 * (p * k) + d * k) \div (2 * (d * k)) = (2 * p + d) \div (2 * d)
  <2> DEFINE j == (2 * p + d) \div (2 * d)
             s == (2 * p + d) % (2 * d)
  <2>1. j \in Int /\ s \in 0..(2 * d - 1) /\ 2 * p + d = (2 * d) * j + s
    BY Division
  <2> HIDE DEF j, s
  <2>2. PICK a \in Int, n2 \in Nat, r \in Int :
          a = 2 * (p * k) + d * k /\ n2 = 2 * (d * k) /\ r = s * k
    BY <2>1
  <2>3. a = n2 * j + r
    <3>1. a = (2 * p + d) * k
      BY <2>2
    <3>2. n2 * j + r = ((2 * d) * j + s) * k
      BY <2>1, <2>2
    <3>3. QED
      BY <2>1, <3>1, <3>2
  <2>4. r >= 0 /\ r < n2 /\ n2 > 0
    <3>1. s * k >= 0 * k /\ s * k <= (2 * d - 1) * k
      BY <2>1
    <3>2. (2 * d - 1) * k = 2 * (d * k) - k
      OBVIOUS
    <3>3. d * k >= 1 * k
      OBVIOUS
    <3>4. QED
      BY <2>2, <3>1, <3>2, <3>3
  <2>5. r \in 0..(n2 - 1)
    BY <2>2, <2>4
  <2>6. a \div n2 = j
    BY <2>1, <2>2, <2>3, <2>4, <2>5, SameRemainder
  <2>7. QED
    BY <2>2, <2>6 DEF j
<1>2. CASE n >= 0
  <2>1. n \in Nat /\ n * k >= 0
    BY <1>2
  <2>2. QED
    BY <1>1, <1>2, <2>1 DEF Nearest
<1>3. CASE ~(n >= 0)
  <2>1. -n \in Nat /\ n * k < 0
    BY <1>3
  <2>2. /\ d * k - 2 * (n * k) = 2 * ((-n) * k) + d * k
        /\ d - 2 * n = 2 * (-n) + d
    OBVIOUS
  <2>3. /\ ~(n * k >= 0)
        /\ Nearest(n * k, d * k) = -((2 * ((-n) * k) + d * k) \div (2 * (d * k)))
    BY <2>1, <2>2 DEF Nearest
  <2>4. Nearest(n, d) = -((2 * (-n) + d) \div (2 * d))
    BY <1>3, <2>2 DEF Nearest
  <2>5. QED
    BY <1>1, <2>1, <2>3, <2>4
<1>4. QED
  BY <1>2, <1>3

-----------------------------------------------------------------------------
(* Ciphertexts.  Sound: what every ciphertext is.  Close: x is an estimate  *)
(* of it.  Followed: x is in range as well, so that the estimate survives   *)
(* decryption and the next product.                                         *)
Disciplined(c) == c.scale_power = IF IsFixed(c) THEN 1 ELSE 0

Sound(c) ==
  /\ c \in [raw : 0..(q - 1), scale_power : Nat, encoding : {"Integer", "FixedPoint"}]
  /\ Disciplined(c)

Estimate == [num : Int, den : Nat \ {0}, noise : Nat]

ScaleOf(power) == delta * ScaleFactor(power)

Decodes(r, power, x) == Within(q, r, ScaleOf(power), x.num, x.den, x.noise)

Close(c, x) ==
  /\ x \in Estimate
  /\ Decodes(c.raw, c.scale_power, x)
  /\ IsFixed(c) \/ x.den = 1

Followed(c, x) ==
  /\ Close(c, x)
  /\ IF IsFixed(c) THEN InRange(x, 1)
     ELSE 2 * x.noise < delta /\ -t < 2 * x.num /\ 2 * x.num <= t

LEMMA ParameterFacts ==
  ASSUME params \in Parameters
  PROVE  /\ q \in Nat /\ t \in Nat /\ scale \in Nat /\ params.noise_bound \in Nat
         /\ delta \in Nat /\ delta > 0 /\ t > 1 /\ scale > 1 /\ q > 0
         /\ q = delta * t /\ Unit \in Nat /\ Unit = 2 * scale /\ Unit > 0
<1>1. params \in [q : Nat, t : Nat, scale : Nat, noise_bound : Nat]
      /\ params.t > 1 /\ params.q > params.t /\ params.q % params.t = 0
      /\ params.scale > 1
  BY ParametersAssumption
<1>2. PICK a \in Nat, b \in Nat : a = params.q /\ b = params.t
  BY <1>1
<1>3. a \div b \in Int /\ a = b * (a \div b) + (a % b) /\ a % b = 0
  BY <1>1, <1>2, Division
<1>4. PICK k \in Int : k = a \div b
  BY <1>3
<1>5. a = b * k /\ k > 0
  <2>1. a = b * k
    BY <1>3, <1>4
  <2>2. ~(k <= 0)
    <3>1. SUFFICES ASSUME k <= 0 PROVE FALSE
      OBVIOUS
    <3>2. b * k <= 0
      BY <3>1
    <3>3. QED
      BY <1>1, <1>2, <2>1, <3>2
  <2>3. QED
    BY <2>1, <2>2
<1>6. q = a /\ t = b /\ delta = k
  BY <1>2, <1>4 DEF q, t, delta
<1>7. QED
  BY <1>1, <1>2, <1>5, <1>6 DEF scale, Unit

LEMMA ScaleFacts ==
  ASSUME params \in Parameters, NEW power \in Nat
  PROVE  /\ ScaleFactor(power) \in Nat /\ ScaleFactor(power) > 0
         /\ ScaleOf(power) \in Nat /\ ScaleOf(power) > 0
         /\ ScaleOf(0) = delta /\ ScaleOf(1) = delta * scale
<1>1. PICK f \in Nat : f = ScaleFactor(power) /\ f > 0
  BY ParameterFacts DEF ScaleFactor
<1>2. delta * f \in Nat /\ delta * f > 0 /\ delta * 1 = delta
  BY <1>1, ParameterFacts
<1>3. QED
  BY <1>1, <1>2 DEF ScaleOf, ScaleFactor

(* Ideal is the number at its scale.                                        *)
LEMMA IdealFacts ==
  ASSUME params \in Parameters, NEW power \in Nat, NEW x \in Estimate
  PROVE  Ideal(x, power) = ScaleOf(power) * x.num /\ Ideal(x, power) \in Int
<1>1. x.num \in Int
  BY DEF Estimate
<1>2. QED
  BY <1>1, ScaleFacts DEF Ideal, ScaleOf

LEMMA CiphertextSound ==
  ASSUME params \in Parameters, NEW r \in Int,
         NEW power, NEW encoding \in {"Integer", "FixedPoint"},
         power = IF encoding = "FixedPoint" THEN 1 ELSE 0
  PROVE  LET c == Ciphertext(r, power, encoding)
         IN  /\ Sound(c) /\ c.raw = r % q
             /\ c.scale_power = power /\ c.encoding = encoding
<1>1. r % q \in 0..(q - 1)
  BY ParameterFacts, Division
<1>2. power \in Nat
  OBVIOUS
<1>3. QED
  BY <1>1, <1>2 DEF Ciphertext, Sound, Disciplined, IsFixed

(* A raw value that decodes right still does as a ciphertext.               *)
LEMMA CiphertextClose ==
  ASSUME params \in Parameters, NEW r \in Int,
         NEW power, NEW encoding \in {"Integer", "FixedPoint"},
         power = IF encoding = "FixedPoint" THEN 1 ELSE 0,
         NEW x \in Estimate, Decodes(r, power, x),
         encoding = "FixedPoint" \/ x.den = 1
  PROVE  Close(Ciphertext(r, power, encoding), x)
<1>1. PICK c : c = Ciphertext(r, power, encoding)
  OBVIOUS
<1>2. c.raw = r % q /\ c.scale_power = power /\ c.encoding = encoding
  BY <1>1, CiphertextSound
<1>3. x.num \in Int /\ x.den \in Nat /\ x.noise \in Nat
  BY DEF Estimate
<1>4. power \in Nat
  OBVIOUS
<1>5. ScaleOf(power) \in Int /\ q \in Nat /\ q > 0
  BY <1>4, ScaleFacts, ParameterFacts
<1>6. Within(q, r % q, ScaleOf(power), x.num, x.den, x.noise)
  BY <1>3, <1>5, WithinReduced DEF Decodes
<1>7. Close(c, x)
  BY <1>2, <1>6 DEF Close, Decodes, IsFixed
<1>8. QED
  BY <1>1, <1>7

-----------------------------------------------------------------------------
(* What is followed is exact enough; an integer is known modulo t.          *)
LEMMA OutcomeFollowed ==
  ASSUME params \in Parameters, NEW c, Sound(c), NEW x, Close(c, x),
         NEW y, y = Outcome(x, c.encoding), y # Lost
  PROVE  Followed(c, y)
<1>1. x \in Estimate /\ x.num \in Int /\ x.den \in Nat /\ x.noise \in Nat
  BY DEF Close, Estimate
<1>2. CASE IsFixed(c)
  <2>1. c.encoding # "Integer"
    BY <1>2 DEF IsFixed
  <2>2. y = x /\ InRange(x, 1)
    BY <2>1 DEF Outcome
  <2>3. QED
    BY <1>2, <2>2 DEF Followed
<1>3. CASE ~IsFixed(c)
  <2>1. c.encoding = "Integer" /\ c.scale_power = 0 /\ c.raw \in Int /\ x.den = 1
    BY <1>3 DEF Sound, Disciplined, IsFixed, Close
  <2>2. PICK n : n = CenteredMod(x.num, t)
    OBVIOUS
  <2>3. 2 * x.noise < delta /\ y = [x EXCEPT !.num = n]
    BY <2>1, <2>2 DEF Outcome
  <2>4. t \in Nat /\ t > 0 /\ q = delta * t /\ q \in Nat /\ delta \in Int
    BY ParameterFacts
  <2>5. n \in Int /\ -t < 2 * n /\ 2 * n <= t
    BY <1>1, <2>2, <2>4, CenteredFacts
  <2>6. PICK k \in Int : n = x.num + k * t
    BY <1>1, <2>2, <2>4, CenteredFacts
  <2>7. Within(q, c.raw, delta, x.num, 1, x.noise)
    BY <2>1, ScaleFacts DEF Close, Decodes
  <2>8. Within(q, c.raw, delta, n, 1, x.noise)
    <3>1. PICK r \in Int : r = c.raw
      BY <2>1
    <3>2. PICK m \in Nat, u \in Int, v \in Int : m = q /\ u = delta /\ v = t
      BY <2>4
    <3>3. PICK num \in Int, noise \in Nat : num = x.num /\ noise = x.noise
      BY <1>1
    <3>4. Within(m, r, u, num + k * v, 1, noise)
      BY <2>4, <2>7, <3>1, <3>2, <3>3, WithinRenamed
    <3>5. QED
      BY <2>6, <3>1, <3>2, <3>3, <3>4
  <2>9. y \in Estimate /\ y.num = n /\ y.den = 1 /\ y.noise = x.noise
    BY <1>1, <2>1, <2>3, <2>5 DEF Estimate
  <2>10. Close(c, y)
    BY <2>1, <2>8, <2>9, ScaleFacts DEF Close, Decodes
  <2>11. QED
    BY <1>3, <2>3, <2>5, <2>9, <2>10 DEF Followed
<1>4. QED
  BY <1>2, <1>3

LEMMA NegatedSound ==
  ASSUME params \in Parameters, NEW c, Sound(c)
  PROVE  Sound(Negated(c)) /\ Negated(c).encoding = c.encoding
<1>1. /\ c.raw \in Int /\ c.encoding \in {"Integer", "FixedPoint"}
      /\ c.scale_power = IF c.encoding = "FixedPoint" THEN 1 ELSE 0
  BY ParameterFacts DEF Sound, Disciplined, IsFixed
<1>2. -c.raw \in Int
  BY <1>1
<1>3. QED
  BY <1>1, <1>2, CiphertextSound DEF Negated

LEMMA NegatedClose ==
  ASSUME params \in Parameters, NEW c, Sound(c), NEW x, Close(c, x)
  PROVE  Sound(Negated(c)) /\ Close(Negated(c), [x EXCEPT !.num = -@])
<1>1. x \in Estimate /\ x.num \in Int /\ x.den \in Nat /\ x.noise \in Nat
  BY DEF Close, Estimate
<1>2. PICK y : y = [x EXCEPT !.num = -@]
  OBVIOUS
<1>3. y \in Estimate /\ y.num = -x.num /\ y.den = x.den /\ y.noise = x.noise
  BY <1>1, <1>2 DEF Estimate
<1>4. /\ c.raw \in Int /\ c.scale_power \in Nat /\ c.encoding \in {"Integer", "FixedPoint"}
      /\ c.scale_power = IF c.encoding = "FixedPoint" THEN 1 ELSE 0
  BY ParameterFacts DEF Sound, Disciplined, IsFixed
<1>5. Within(q, c.raw, ScaleOf(c.scale_power), x.num, x.den, x.noise)
  BY DEF Close, Decodes
<1>6. PICK s \in Int : s = ScaleOf(c.scale_power)
  BY <1>4, ScaleFacts
<1>7. Within(q, c.raw * (-1), s, x.num * (-1), x.den, x.noise * Magnitude(-1))
  <2>1. q \in Nat /\ -1 \in Int
    BY ParameterFacts
  <2>2. QED
    BY <1>1, <1>4, <1>5, <1>6, <2>1, WithinTimes
<1>8. /\ c.raw * (-1) = -c.raw /\ x.num * (-1) = -x.num
      /\ x.noise * Magnitude(-1) = x.noise
  BY <1>1, <1>4 DEF Magnitude
<1>9. Decodes(-c.raw, c.scale_power, y)
  BY <1>3, <1>6, <1>7, <1>8 DEF Decodes
<1>10. c.encoding = "FixedPoint" \/ y.den = 1
  BY <1>3 DEF Close, IsFixed
<1>11. -c.raw \in Int
  BY <1>4
<1>12. Close(Negated(c), y)
  BY <1>3, <1>4, <1>9, <1>10, <1>11, CiphertextClose DEF Negated
<1>13. Sound(Negated(c))
  BY NegatedSound
<1>14. QED
  BY <1>2, <1>12, <1>13

(* Raising an integer to the scale multiplies its noise.                    *)
LEMMA AlignClose ==
  ASSUME params \in Parameters, NEW c, Sound(c), NEW x, Close(c, x), ~IsFixed(c)
  PROVE  LET a == AlignScale(c, 1)
             y == [x EXCEPT !.noise = @ * scale]
         IN  /\ Sound(a) /\ IsFixed(a) /\ Close(a, y)
<1>1. x \in Estimate /\ x.num \in Int /\ x.den \in Nat /\ x.noise \in Nat
  BY DEF Close, Estimate
<1>2. c.raw \in Int /\ c.scale_power = 0
  BY ParameterFacts DEF Sound, Disciplined
<1>3. PICK a : a = AlignScale(c, 1)
  OBVIOUS
<1>4. a = Ciphertext(c.raw * scale, 1, "FixedPoint")
  BY <1>2, <1>3 DEF AlignScale
<1>5. scale \in Nat /\ q \in Nat /\ delta \in Int
  BY ParameterFacts
<1>6. c.raw * scale \in Int
  BY <1>2, <1>5
<1>7. Sound(a) /\ IsFixed(a)
  BY <1>4, <1>6, CiphertextSound DEF IsFixed
<1>8. PICK y : y = [x EXCEPT !.noise = @ * scale]
  OBVIOUS
<1>9. /\ y \in Estimate /\ y.num = x.num /\ y.den = x.den /\ y.noise = x.noise * scale
  BY <1>1, <1>5, <1>8 DEF Estimate
<1>10. Within(q, c.raw, delta, x.num, x.den, x.noise)
  BY <1>2, ScaleFacts DEF Close, Decodes
<1>11. Within(q, c.raw * scale, delta * scale, x.num, x.den, x.noise * Magnitude(scale))
  <2>1. PICK f \in Int, m \in Nat, u \in Int, r \in Int :
          f = scale /\ m = q /\ u = delta /\ r = c.raw
    BY <1>2, <1>5
  <2>2. PICK num \in Int, den \in Nat, noise \in Nat :
          num = x.num /\ den = x.den /\ noise = x.noise
    BY <1>1
  <2>3. Within(m, r * f, u * f, num, den, noise * Magnitude(f))
    BY <1>10, <2>1, <2>2, WithinTimes
  <2>4. QED
    BY <2>1, <2>2, <2>3
<1>12. Magnitude(scale) = scale
  BY <1>5 DEF Magnitude
<1>13. Decodes(c.raw * scale, 1, y)
  BY <1>9, <1>11, <1>12, ScaleFacts DEF Decodes
<1>14. Close(a, y)
  BY <1>4, <1>6, <1>9, <1>13, CiphertextClose
<1>15. QED
  BY <1>3, <1>7, <1>8, <1>14

(* The sum of two raw values at one scale.                                  *)
Valued(r, power, x) == x \in Estimate /\ Decodes(r, power, x)

LEMMA TotalDecodes ==
  ASSUME params \in Parameters, NEW power \in Nat, NEW r1 \in Int, NEW r2 \in Int,
         NEW x, Valued(r1, power, x), NEW y, Valued(r2, power, y)
  PROVE  Valued(r1 + r2, power, Total(x, y, x.noise + y.noise))
<1>1. /\ x.num \in Int /\ x.den \in Nat /\ x.noise \in Nat /\ x.den > 0
      /\ y.num \in Int /\ y.den \in Nat /\ y.noise \in Nat /\ y.den > 0
  BY DEF Valued, Estimate
<1>2. q \in Nat /\ ScaleOf(power) \in Int
  BY ParameterFacts, ScaleFacts
<1>3. /\ x.den = y.den =>
           Within(q, r1 + r2, ScaleOf(power), x.num + y.num, x.den, x.noise + y.noise)
      /\ Within(q, r1 + r2, ScaleOf(power), x.num * y.den + y.num * x.den,
                x.den * y.den, x.noise + y.noise)
  BY <1>1, <1>2, WithinSum DEF Valued, Decodes
<1> DEFINE noise == x.noise + y.noise
<1>4. PICK z : z = Total(x, y, noise)
  OBVIOUS
<1>5. CASE x.den = y.den
  <2>1. z = Known(x.num + y.num, x.den, noise)
    BY <1>4, <1>5 DEF Total
  <2>2. z \in Estimate /\ z.num = x.num + y.num /\ z.den = x.den /\ z.noise = noise
    BY <1>1, <2>1 DEF Known, Estimate
  <2>3. QED
    BY <1>3, <1>4, <1>5, <2>2 DEF Valued, Decodes
<1>6. CASE x.den # y.den
  <2>1. z = Known(x.num * y.den + y.num * x.den, x.den * y.den, noise)
    BY <1>4, <1>6 DEF Total
  <2>2. x.num * y.den + y.num * x.den \in Int /\ x.den * y.den \in Nat \ {0}
    BY <1>1
  <2>3. /\ z \in Estimate /\ z.num = x.num * y.den + y.num * x.den
        /\ z.den = x.den * y.den /\ z.noise = noise
    BY <1>1, <2>1, <2>2 DEF Known, Estimate
  <2>4. QED
    BY <1>3, <1>4, <1>6, <2>3 DEF Valued, Decodes
<1>7. QED
  BY <1>5, <1>6

LEMMA TotalWhole ==
  ASSUME NEW x, NEW y, NEW noise, x.den = 1, y.den = 1
  PROVE  Total(x, y, noise).den = 1
BY DEF Total, Known

(* An operand of a sum, at the scale of the sum.                            *)
Aligned(r, y, x, noise, power) ==
  /\ r \in Int /\ Valued(r, power, y)
  /\ y.num = x.num /\ y.den = x.den /\ y.noise = noise

LEMMA AlignDecodes ==
  ASSUME params \in Parameters, NEW c, Sound(c), NEW x, Close(c, x),
         NEW kind \in {"Integer", "FixedPoint"}, IsFixed(c) => kind = "FixedPoint",
         NEW power, power = IF kind = "FixedPoint" THEN 1 ELSE 0,
         NEW a, a = AlignScale(c, power), NEW y, y = [x EXCEPT !.noise = Lifted(x, c, kind)]
  PROVE  Aligned(a.raw, y, x, Lifted(x, c, kind), power)
<1>1. x \in Estimate /\ x.noise \in Nat
  BY DEF Close, Estimate
<1>2. c.raw \in Int /\ c.scale_power = IF IsFixed(c) THEN 1 ELSE 0
  BY ParameterFacts DEF Sound, Disciplined
<1>3. CASE kind = "FixedPoint" /\ ~IsFixed(c)
  <2>1. power = 1
    BY <1>3
  <2>2. y = [x EXCEPT !.noise = @ * scale]
    BY <1>3 DEF Lifted
  <2>3. Sound(a) /\ IsFixed(a) /\ Close(a, y)
    BY <1>3, <2>1, <2>2, AlignClose
  <2>4. a.raw \in Int /\ a.scale_power = 1 /\ y \in Estimate /\ Decodes(a.raw, 1, y)
    BY <2>3, ParameterFacts DEF Sound, Disciplined, Close
  <2>5. y.num = x.num /\ y.den = x.den /\ y.noise = Lifted(x, c, kind)
    BY <1>1 DEF Estimate
  <2>6. QED
    BY <2>1, <2>4, <2>5 DEF Aligned, Valued
<1>4. CASE ~(kind = "FixedPoint" /\ ~IsFixed(c))
  <2>1. c.scale_power = power /\ AlignScale(c, power) = c
    BY <1>2, <1>4 DEF AlignScale
  <2>2. Lifted(x, c, kind) = x.noise
    BY <1>4 DEF Lifted
  <2>3. y = x
    BY <1>1, <2>2 DEF Estimate
  <2>4. Decodes(c.raw, power, x)
    BY <2>1 DEF Close
  <2>5. QED
    BY <1>1, <1>2, <2>1, <2>2, <2>3, <2>4 DEF Aligned, Valued
<1>5. QED
  BY <1>3, <1>4

LEMMA TotalIgnoresNoise ==
  ASSUME NEW x1, NEW y1, NEW x2, NEW y2, NEW noise,
         x1.num = x2.num, x1.den = x2.den, y1.num = y2.num, y1.den = y2.den
  PROVE  Total(x1, y1, noise) = Total(x2, y2, noise)
BY DEF Total

(* Addition: of any two ciphertexts, and of two whose values are known.     *)
LEMMA AddSound ==
  ASSUME params \in Parameters, NEW c, Sound(c), NEW d, Sound(d)
  PROVE  Sound(Add(c, d))
<1>1. /\ c.raw \in Int /\ c.scale_power = IF IsFixed(c) THEN 1 ELSE 0
      /\ d.raw \in Int /\ d.scale_power = IF IsFixed(d) THEN 1 ELSE 0
  BY ParameterFacts DEF Sound, Disciplined
<1>2. PICK power : power = IF c.scale_power > d.scale_power THEN c.scale_power ELSE d.scale_power
  OBVIOUS
<1>3. power \in {0, 1} /\ power = IF Joint(c, d) = "FixedPoint" THEN 1 ELSE 0
  BY <1>1, <1>2 DEF Joint
<1>4. ASSUME NEW e, e.raw \in Int
      PROVE  AlignScale(e, power).raw \in Int
  <2>1. CASE e.scale_power < power
    <3>1. e.raw * scale \in Int /\ q \in Nat /\ q > 0
      BY <1>4, ParameterFacts
    <3>2. (e.raw * scale) % q \in Int
      BY <3>1, Division
    <3>3. QED
      BY <2>1, <3>2 DEF AlignScale, Ciphertext
  <2>2. CASE ~(e.scale_power < power)
    BY <1>4, <2>2 DEF AlignScale
  <2>3. QED
    BY <2>1, <2>2
<1>5. PICK r1 \in Int : r1 = AlignScale(c, power).raw
  BY <1>1, <1>4
<1>6. PICK r2 \in Int : r2 = AlignScale(d, power).raw
  BY <1>1, <1>4
<1>7. Add(c, d) = Ciphertext(r1 + r2, power, Joint(c, d))
  BY <1>2, <1>5, <1>6 DEF Add
<1>8. r1 + r2 \in Int /\ Joint(c, d) \in {"Integer", "FixedPoint"}
  BY DEF Joint
<1>9. QED
  BY <1>3, <1>7, <1>8, CiphertextSound

LEMMA AddClose ==
  ASSUME params \in Parameters, NEW c, Sound(c), NEW x, Close(c, x),
         NEW d, Sound(d), NEW y, Close(d, y),
         NEW kind, kind = Joint(c, d)
  PROVE  /\ Sound(Add(c, d)) /\ Add(c, d).encoding = kind
         /\ Close(Add(c, d), Total(x, y, Lifted(x, c, kind) + Lifted(y, d, kind)))
<1>1. /\ kind \in {"Integer", "FixedPoint"}
      /\ IsFixed(c) => kind = "FixedPoint"
      /\ IsFixed(d) => kind = "FixedPoint"
      /\ kind = "FixedPoint" => IsFixed(c) \/ IsFixed(d)
  BY DEF Joint
<1>2. PICK power : power = IF kind = "FixedPoint" THEN 1 ELSE 0
  OBVIOUS
<1>3. PICK a : a = AlignScale(c, power)
  OBVIOUS
<1>4. PICK b : b = AlignScale(d, power)
  OBVIOUS
<1>5. PICK u : u = [x EXCEPT !.noise = Lifted(x, c, kind)]
  OBVIOUS
<1>6. PICK v : v = [y EXCEPT !.noise = Lifted(y, d, kind)]
  OBVIOUS
<1>7. /\ a.raw \in Int /\ Valued(a.raw, power, u)
      /\ u.num = x.num /\ u.den = x.den /\ u.noise = Lifted(x, c, kind)
  BY <1>1, <1>2, <1>3, <1>5, AlignDecodes DEF Aligned
<1>8. /\ b.raw \in Int /\ Valued(b.raw, power, v)
      /\ v.num = y.num /\ v.den = y.den /\ v.noise = Lifted(y, d, kind)
  BY <1>1, <1>2, <1>4, <1>6, AlignDecodes DEF Aligned
<1>9. PICK noise : noise = Lifted(x, c, kind) + Lifted(y, d, kind)
  OBVIOUS
<1>10. PICK z : z = Total(u, v, noise)
  OBVIOUS
<1>11. z = Total(x, y, noise)
  BY <1>7, <1>8, <1>10, TotalIgnoresNoise
<1>12. PICK r1 \in Int, r2 \in Int : r1 = a.raw /\ r2 = b.raw
  BY <1>7, <1>8
<1>13. Valued(r1 + r2, power, z)
  <2>1. power \in Nat
    BY <1>2
  <2>2. Valued(r1, power, u) /\ Valued(r2, power, v)
    BY <1>7, <1>8, <1>12
  <2>3. Valued(r1 + r2, power, Total(u, v, u.noise + v.noise))
    BY <2>1, <2>2, TotalDecodes
  <2>4. QED
    BY <1>7, <1>8, <1>9, <1>10, <2>3
<1>14. kind = "FixedPoint" \/ z.den = 1
  BY <1>1, <1>7, <1>8, <1>10, TotalWhole DEF Close
<1>15. Add(c, d) = Ciphertext(r1 + r2, power, kind)
  <2>1. /\ c.scale_power = IF IsFixed(c) THEN 1 ELSE 0
        /\ d.scale_power = IF IsFixed(d) THEN 1 ELSE 0
    BY DEF Sound, Disciplined
  <2>2. power = IF c.scale_power > d.scale_power THEN c.scale_power ELSE d.scale_power
    BY <1>1, <1>2, <2>1
  <2>3. QED
    BY <1>3, <1>4, <1>12, <2>2 DEF Add
<1>16. r1 + r2 \in Int
  OBVIOUS
<1>17. Close(Ciphertext(r1 + r2, power, kind), z)
  BY <1>1, <1>2, <1>13, <1>14, <1>16, CiphertextClose DEF Valued
<1>18. Sound(Add(c, d)) /\ Add(c, d).encoding = kind
  BY <1>1, <1>2, <1>15, <1>16, CiphertextSound
<1>19. QED
  BY <1>9, <1>11, <1>15, <1>17, <1>18

LEMMA SumFollowed ==
  ASSUME params \in Parameters, NEW c, Sound(c), NEW x, Close(c, x),
         NEW d, Sound(d), NEW y, Close(d, y), NEW z, z = Sum(x, c, y, d), z # Lost
  PROVE  Followed(Add(c, d), z)
<1>1. PICK kind : kind = Joint(c, d)
  OBVIOUS
<1>2. PICK w : w = Total(x, y, Lifted(x, c, kind) + Lifted(y, d, kind))
  OBVIOUS
<1>3. Sound(Add(c, d)) /\ Add(c, d).encoding = kind /\ Close(Add(c, d), w)
  BY <1>1, <1>2, AddClose
<1>4. z = Outcome(w, kind)
  BY <1>1, <1>2 DEF Sum
<1>5. QED
  BY <1>3, <1>4, OutcomeFollowed

-----------------------------------------------------------------------------
(* Encoding: a message is reduced modulo t, and delta * t is q.             *)
LEMMA EncodedDecodes ==
  ASSUME params \in Parameters, NEW power \in Nat, NEW m \in Int, NEW x \in Estimate,
         Magnitude(delta * m * x.den - ScaleOf(power) * x.num) <= x.noise * x.den
  PROVE  delta * (m % t) \in Int /\ Valued(delta * (m % t), power, x)
<1>1. PICK s \in Int : s = ScaleOf(power)
  BY ScaleFacts
<1>2. PICK g \in Nat, u \in Nat, h \in Nat : g = delta /\ u = t /\ h = q /\ u > 0 /\ h = g * u
  BY ParameterFacts
<1>3. PICK num \in Int, den \in Nat, noise \in Nat :
        num = x.num /\ den = x.den /\ noise = x.noise
  BY DEF Estimate
<1>4. m \div u \in Int /\ m % u \in Int /\ m = u * (m \div u) + (m % u)
  BY <1>2, Division
<1>5. PICK j \in Int, w \in Int : j = m \div u /\ w = m % u
  BY <1>4
<1>6. g * w = g * m + (-j) * h
  <2>1. m = u * j + w
    BY <1>4, <1>5
  <2>2. QED
    BY <1>2, <2>1
<1>7. Within(h, g * m, s, num, den, noise)
  <2>1. (g * m) * den - s * num - 0 * (h * den) = g * m * den - s * num
    OBVIOUS
  <2>2. Magnitude(g * m * den - s * num) <= noise * den
    BY <1>1, <1>2, <1>3
  <2>3. QED
    BY <2>1, <2>2, 0 \in Int, Zenon DEF Within
<1>8. Within(h, g * m + (-j) * h, s, num, den, noise)
  <2>1. g * m \in Int /\ -j \in Int
    OBVIOUS
  <2>2. QED
    BY <1>7, <2>1, WithinModulo
<1>9. delta * (m % t) = g * m + (-j) * h
  BY <1>2, <1>5, <1>6
<1>10. Within(q, delta * (m % t), ScaleOf(power), x.num, x.den, x.noise)
  BY <1>1, <1>2, <1>3, <1>8, <1>9
<1>11. g * m + (-j) * h \in Int
  OBVIOUS
<1>12. QED
  BY <1>9, <1>10, <1>11 DEF Valued, Decodes

LEMMA KnownEstimate ==
  ASSUME NEW num \in Int, NEW den \in Nat, den > 0, NEW noise \in Nat
  PROVE  /\ Known(num, den, noise) \in Estimate
         /\ Known(num, den, noise).num = num
         /\ Known(num, den, noise).den = den
         /\ Known(num, den, noise).noise = noise
BY DEF Known, Estimate

(* A mantissa is rounded to a multiple of 1 / scale.                        *)
LEMMA MantissaFacts ==
  ASSUME params \in Parameters, NEW v \in Int
  PROVE  /\ Nearest(v * scale, Unit) = Nearest(v, 2)
         /\ Nearest(v, 2) \in Int
         /\ Magnitude(2 * Nearest(v, 2) - v) <= v % 2
         /\ v % 2 \in {0, 1}
         /\ Rounding(v) \in Nat
         /\ delta * (v % 2) <= 2 * Rounding(v)
<1>1. scale \in Nat /\ scale > 0 /\ Unit = 2 * scale /\ delta \in Nat
  BY ParameterFacts
<1>2. Nearest(v * scale, 2 * scale) = Nearest(v, 2)
  BY <1>1, NearestScaled
<1>3. /\ Nearest(v, 2) \in Int /\ v % 2 \in {0, 1}
      /\ Magnitude(2 * Nearest(v, 2) - v) <= v % 2
  BY NearestHalf
<1>4. (delta + 1) \div 2 \in Nat /\ delta <= 2 * ((delta + 1) \div 2)
  BY <1>1
<1>5. Rounding(v) \in Nat /\ delta * (v % 2) <= 2 * Rounding(v)
  <2>1. CASE v % 2 = 0
    BY <1>1, <2>1 DEF Rounding
  <2>2. CASE v % 2 = 1
    BY <1>1, <1>4, <2>2 DEF Rounding
  <2>3. QED
    BY <1>3, <2>1, <2>2
<1>6. QED
  BY <1>1, <1>2, <1>3, <1>5

LEMMA MantissaDecodes ==
  ASSUME params \in Parameters, NEW v \in Int
  PROVE  /\ delta * (Nearest(v * scale, Unit) % t) \in Int
         /\ Known(v, Unit, Rounding(v)) \in Estimate
         /\ Valued(delta * (Nearest(v * scale, Unit) % t), 1, Known(v, Unit, Rounding(v)))
<1>1. PICK m \in Int : m = Nearest(v, 2)
  BY MantissaFacts
<1>2. PICK sc \in Nat, g \in Nat : sc = scale /\ g = delta /\ sc > 0
  BY ParameterFacts
<1>3. PICK rd \in Nat : rd = Rounding(v)
  BY MantissaFacts
<1>4. PICK odd \in Nat : odd = v % 2
  BY MantissaFacts
<1>5. Magnitude(2 * m - v) <= odd /\ g * odd <= 2 * rd
  BY <1>1, <1>2, <1>3, <1>4, MantissaFacts
<1>6. PICK x : x = Known(v, Unit, Rounding(v))
  OBVIOUS
<1>7. x \in Estimate /\ x.num = v /\ x.den = 2 * sc /\ x.noise = rd
  <2>1. Unit = 2 * sc /\ Unit \in Nat /\ Unit > 0
    BY <1>2, ParameterFacts
  <2>2. QED
    BY <1>3, <1>6, <2>1, KnownEstimate
<1>8. Magnitude(g * m * (2 * sc) - (g * sc) * v) <= rd * (2 * sc)
  <2>1. PICK f \in Nat : f = g * sc
    OBVIOUS
  <2>2. g * m * (2 * sc) - (g * sc) * v = (2 * m - v) * f
    BY <2>1
  <2>3. Magnitude((2 * m - v) * f) <= odd * f
    <3>1. 2 * m - v \in Int /\ odd \in Int
      OBVIOUS
    <3>2. QED
      BY <1>5, <3>1, BoundTimes
  <2>4. odd * f <= rd * (2 * sc)
    <3>1. odd * f = (g * odd) * sc
      BY <2>1
    <3>2. (g * odd) * sc <= (2 * rd) * sc
      BY <1>5
    <3>3. QED
      BY <3>1, <3>2
  <2>5. QED
    <3>1. PICK big \in Int : big = (2 * m - v) * f
      OBVIOUS
    <3>2. PICK mid \in Int : mid = odd * f
      OBVIOUS
    <3>3. PICK top \in Int : top = rd * (2 * sc)
      OBVIOUS
    <3>4. Magnitude(big) \in Nat /\ Magnitude(big) <= mid /\ mid <= top
      BY <2>3, <2>4, <3>1, <3>2, <3>3, MagnitudeFacts
    <3>5. Magnitude(big) <= top
      BY <3>4
    <3>6. QED
      BY <2>2, <3>1, <3>3, <3>5
<1>9. Magnitude(delta * m * x.den - ScaleOf(1) * x.num) <= x.noise * x.den
  BY <1>2, <1>7, <1>8, ScaleFacts
<1>10. delta * (m % t) \in Int /\ Valued(delta * (m % t), 1, x)
  BY <1>7, <1>9, EncodedDecodes
<1>11. QED
  BY <1>1, <1>6, <1>7, <1>10, MantissaFacts

(* The noise an encryption adds.                                            *)
LEMMA NoiseDecodes ==
  ASSUME params \in Parameters, NEW power \in Nat, NEW r \in Int, NEW x,
         Valued(r, power, x), NEW e \in Noise,
         NEW y \in Estimate, y.num = x.num, y.den = x.den,
         y.noise = x.noise + params.noise_bound
  PROVE  r + e \in Int /\ Valued(r + e, power, y)
<1>1. PICK s \in Int : s = ScaleOf(power)
  BY ScaleFacts
<1>2. PICK b \in Nat : b = params.noise_bound
  BY ParameterFacts
<1>3. PICK m \in Nat : m = q
  BY ParameterFacts
<1>4. e \in Int /\ Magnitude(e) <= b
  <2>1. e \in (-b)..b
    BY <1>2 DEF Noise
  <2>2. QED
    BY <2>1 DEF Magnitude
<1>5. PICK num \in Int, den \in Nat, noise \in Nat :
        num = x.num /\ den = x.den /\ noise = x.noise
  BY DEF Valued, Estimate
<1>6. Within(m, r, s, num, den, noise)
  BY <1>1, <1>3, <1>5 DEF Valued, Decodes
<1>7. Within(m, r + e, s, num, den, noise + b)
  BY <1>4, <1>6, WithinNoise
<1>8. QED
  BY <1>1, <1>2, <1>3, <1>4, <1>5, <1>7 DEF Valued, Decodes

-----------------------------------------------------------------------------
(* The engine's operations, one by one.                                     *)
Good(c, x, encoding) == Sound(c) /\ c.encoding = encoding /\ Close(c, x)

LEMMA GoodCiphertext ==
  ASSUME params \in Parameters, NEW r \in Int,
         NEW power, NEW encoding \in {"Integer", "FixedPoint"},
         power = IF encoding = "FixedPoint" THEN 1 ELSE 0,
         NEW x, Valued(r, power, x), encoding = "FixedPoint" \/ x.den = 1
  PROVE  Good(Ciphertext(r, power, encoding), x, encoding)
BY CiphertextSound, CiphertextClose DEF Good, Valued

LEMMA EncryptInt64Good ==
  ASSUME params \in Parameters, NEW m \in Int, NEW e \in Noise
  PROVE  Good(EncryptEncoded(m, 0, "Integer", e), Known(m, 1, params.noise_bound), "Integer")
<1>1. PICK x : x = Known(m, 1, 0)
  OBVIOUS
<1>2. PICK y : y = Known(m, 1, params.noise_bound)
  OBVIOUS
<1>3. /\ x \in Estimate /\ x.num = m /\ x.den = 1 /\ x.noise = 0
      /\ y \in Estimate /\ y.num = m /\ y.den = 1 /\ y.noise = params.noise_bound
  <2>1. 0 \in Nat /\ 1 \in Nat /\ 1 > 0 /\ params.noise_bound \in Nat
    BY ParameterFacts
  <2>2. x \in Estimate /\ x.num = m /\ x.den = 1 /\ x.noise = 0
    BY <1>1, <2>1, KnownEstimate
  <2>3. y \in Estimate /\ y.num = m /\ y.den = 1 /\ y.noise = params.noise_bound
    BY <1>2, <2>1, KnownEstimate
  <2>4. QED
    BY <2>2, <2>3
<1>4. Magnitude(delta * m * x.den - ScaleOf(0) * x.num) <= x.noise * x.den
  <2>1. delta * m * x.den - ScaleOf(0) * x.num = 0
    BY <1>3, ParameterFacts, ScaleFacts
  <2>2. QED
    BY <1>3, <2>1 DEF Magnitude
<1>5. delta * (m % t) \in Int /\ Valued(delta * (m % t), 0, x)
  BY <1>3, <1>4, EncodedDecodes
<1>6. PICK r \in Int : r = delta * (m % t)
  BY <1>5
<1>7. y.noise = x.noise + params.noise_bound
  BY <1>3, ParameterFacts
<1>8. r + e \in Int /\ Valued(r + e, 0, y)
  BY <1>3, <1>5, <1>6, <1>7, NoiseDecodes
<1>9. Good(Ciphertext(r + e, 0, "Integer"), y, "Integer")
  BY <1>3, <1>8, GoodCiphertext
<1>10. QED
  BY <1>2, <1>6, <1>9 DEF EncryptEncoded, EncodeRaw

LEMMA EncryptDoubleGood ==
  ASSUME params \in Parameters, NEW v \in Int, NEW e \in Noise
  PROVE  Good(EncryptEncoded(Nearest(v * scale, Unit), 1, "FixedPoint", e),
              Known(v, Unit, Rounding(v) + params.noise_bound), "FixedPoint")
<1>1. PICK x : x = Known(v, Unit, Rounding(v))
  OBVIOUS
<1>2. PICK y : y = Known(v, Unit, Rounding(v) + params.noise_bound)
  OBVIOUS
<1>3. PICK r \in Int : r = delta * (Nearest(v * scale, Unit) % t)
  BY MantissaDecodes
<1>4. Valued(r, 1, x)
  BY <1>1, <1>3, MantissaDecodes
<1>5. /\ x.num = v /\ x.den = Unit /\ x.noise = Rounding(v)
      /\ y \in Estimate /\ y.num = v /\ y.den = Unit
      /\ y.noise = Rounding(v) + params.noise_bound
  <2>1. Unit \in Nat /\ Unit > 0 /\ Rounding(v) \in Nat /\ params.noise_bound \in Nat
    BY ParameterFacts, MantissaFacts
  <2>2. Rounding(v) + params.noise_bound \in Nat
    BY <2>1
  <2>3. QED
    BY <1>1, <1>2, <2>1, <2>2, KnownEstimate
<1>6. r + e \in Int /\ Valued(r + e, 1, y)
  BY <1>4, <1>5, NoiseDecodes
<1>7. Good(Ciphertext(r + e, 1, "FixedPoint"), y, "FixedPoint")
  BY <1>6, GoodCiphertext
<1>8. QED
  BY <1>2, <1>3, <1>7 DEF EncryptEncoded, EncodeRaw

(* Multiplying by an integer.                                               *)
LEMMA TimesIntegerGood ==
  ASSUME params \in Parameters, NEW c, Sound(c), NEW x, Close(c, x), NEW f \in Int
  PROVE  Good(Ciphertext(c.raw * f, c.scale_power, c.encoding),
              [x EXCEPT !.num = @ * f, !.noise = @ * Magnitude(f)], c.encoding)
<1>1. /\ c.raw \in Int /\ c.scale_power \in Nat /\ c.encoding \in {"Integer", "FixedPoint"}
      /\ c.scale_power = IF c.encoding = "FixedPoint" THEN 1 ELSE 0
  BY ParameterFacts DEF Sound, Disciplined, IsFixed
<1>2. PICK power \in Nat, encoding \in {"Integer", "FixedPoint"} :
        power = c.scale_power /\ encoding = c.encoding
  BY <1>1
<1>3. PICK y : y = [x EXCEPT !.num = @ * f, !.noise = @ * Magnitude(f)]
  OBVIOUS
<1>4. x \in Estimate /\ x.num \in Int /\ x.den \in Nat /\ x.noise \in Nat
  BY DEF Close, Estimate
<1>5. /\ y \in Estimate /\ y.num = x.num * f /\ y.den = x.den
      /\ y.noise = x.noise * Magnitude(f)
  <2>1. Magnitude(f) \in Nat
    BY MagnitudeFacts
  <2>2. x.num * f \in Int /\ x.noise * Magnitude(f) \in Nat
    BY <1>4, <2>1
  <2>3. QED
    BY <1>3, <1>4, <2>2 DEF Estimate
<1>6. PICK r \in Int : r = c.raw
  BY <1>1
<1>7. PICK num \in Int, den \in Nat, noise \in Nat :
        num = x.num /\ den = x.den /\ noise = x.noise
  BY <1>4
<1>8. PICK m \in Nat : m = q
  BY ParameterFacts
<1>9. PICK s \in Int : s = ScaleOf(power)
  BY ScaleFacts
<1>10. Within(m, r, s, num, den, noise)
  BY <1>2, <1>6, <1>7, <1>8, <1>9 DEF Close, Decodes
<1>11. Within(m, r * f, s, num * f, den, noise * Magnitude(f))
  BY <1>10, WithinTimes
<1>12. Valued(r * f, power, y)
  BY <1>5, <1>7, <1>8, <1>9, <1>11 DEF Valued, Decodes
<1>13. encoding = "FixedPoint" \/ y.den = 1
  BY <1>2, <1>5 DEF Close, IsFixed
<1>14. r * f \in Int /\ power = IF encoding = "FixedPoint" THEN 1 ELSE 0
  BY <1>1, <1>2
<1>15. Good(Ciphertext(r * f, power, encoding), y, encoding)
  BY <1>12, <1>13, <1>14, GoodCiphertext
<1>16. QED
  BY <1>2, <1>3, <1>6, <1>15

LEMMA PlainInteger ==
  ASSUME params \in Parameters, NEW s \in Int, IsInteger(s)
  PROVE  s \div Unit \in Int /\ Nearest(s, Unit) = s \div Unit
<1>1. Unit \in Nat /\ Unit > 0
  BY ParameterFacts
<1>2. PICK u \in Nat : u = Unit /\ u > 0
  BY <1>1
<1>3. s \div u \in Int /\ s = u * (s \div u) + (s % u) /\ s % u = 0
  BY <1>2, Division DEF IsInteger
<1>4. PICK f \in Int : f = s \div u
  BY <1>3
<1>5. s = f * u
  <2>1. s = u * f + 0
    BY <1>3, <1>4
  <2>2. QED
    BY <2>1
<1>6. Nearest(f * u, 1 * u) = Nearest(f, 1)
  BY <1>2, NearestScaled
<1>7. Nearest(f, 1) = f
  BY DEF Nearest
<1>8. 1 * u = u
  OBVIOUS
<1>9. QED
  BY <1>2, <1>4, <1>5, <1>6, <1>7, <1>8

(* Adding a scalar keeps the discipline of the scales.                      *)
LEMMA AddPlainSound ==
  ASSUME params \in Parameters, NEW c, Sound(c), NEW s \in Int
  PROVE  /\ Sound(AddPlain(c, s))
         /\ AddPlain(c, s).encoding =
              IF IsFixed(c) \/ ~IsInteger(s) THEN "FixedPoint" ELSE "Integer"
<1>1. /\ c.raw \in Int /\ c.encoding \in {"Integer", "FixedPoint"}
      /\ c.scale_power = IF IsFixed(c) THEN 1 ELSE 0
  BY ParameterFacts DEF Sound, Disciplined
<1>2. PICK a : a = IF ~IsFixed(c) /\ ~IsInteger(s) THEN AlignScale(c, 1) ELSE c
  OBVIOUS
<1>3. /\ a.raw \in Int /\ a.encoding \in {"Integer", "FixedPoint"}
      /\ a.scale_power = IF a.encoding = "FixedPoint" THEN 1 ELSE 0
      /\ a.encoding = IF IsFixed(c) \/ ~IsInteger(s) THEN "FixedPoint" ELSE "Integer"
  <2>1. CASE ~IsFixed(c) /\ ~IsInteger(s)
    <3>1. a = Ciphertext(c.raw * scale, 1, "FixedPoint")
      BY <1>1, <1>2, <2>1 DEF AlignScale
    <3>2. c.raw * scale \in Int
      BY <1>1, ParameterFacts
    <3>3. a.raw \in 0..(q - 1) /\ a.scale_power = 1 /\ a.encoding = "FixedPoint"
      BY <3>1, <3>2, CiphertextSound DEF Sound
    <3>4. QED
      BY <2>1, <3>3, ParameterFacts
  <2>2. CASE ~(~IsFixed(c) /\ ~IsInteger(s))
    BY <1>1, <1>2, <2>2 DEF IsFixed
  <2>3. QED
    BY <2>1, <2>2
<1>4. PICK m \in Int : m = Nearest(s * ScaleFactor(a.scale_power), Unit)
  <2>1. a.scale_power \in Nat
    BY <1>3
  <2>2. PICK f \in Nat : f = ScaleFactor(a.scale_power)
    BY <2>1, ScaleFacts
  <2>3. s * f \in Int /\ Unit \in Nat /\ Unit > 0
    BY ParameterFacts
  <2>4. Nearest(s * f, Unit) \in Int
    BY <2>3, NearestFacts
  <2>5. QED
    BY <2>2, <2>4
<1>5. PICK r \in Int : r = a.raw + delta * (m % t)
  <2>1. delta \in Int /\ t \in Nat /\ t > 0
    BY ParameterFacts
  <2>2. PICK g \in Int : g = m % t
    BY <2>1, Division
  <2>3. PICK b \in Int, h \in Int : b = a.raw /\ h = delta
    BY <1>3, <2>1
  <2>4. b + h * g \in Int
    OBVIOUS
  <2>5. QED
    BY <2>2, <2>3, <2>4
<1>6. AddPlain(c, s) = Ciphertext(r, a.scale_power, a.encoding)
  BY <1>2, <1>4, <1>5 DEF AddPlain
<1>7. QED
  BY <1>3, <1>5, <1>6, CiphertextSound

LEMMA AddPlainGood ==
  ASSUME params \in Parameters, NEW c, Sound(c), NEW x, Close(c, x), NEW s \in Int,
         NEW y, y = SumPlain(x, c, s), y # Lost
  PROVE  Followed(AddPlain(c, s), y)
<1>1. /\ c.raw \in Int /\ c.encoding \in {"Integer", "FixedPoint"}
      /\ c.scale_power = IF IsFixed(c) THEN 1 ELSE 0
  BY ParameterFacts DEF Sound, Disciplined
<1>2. x \in Estimate /\ x.num \in Int /\ x.den \in Nat /\ x.den > 0 /\ x.noise \in Nat
  BY DEF Close, Estimate
<1>3. PICK r : r = AddPlain(c, s)
  OBVIOUS
<1>4. CASE IsFixed(c) \/ ~IsInteger(s)
  <2>1. PICK a : a = IF ~IsFixed(c) /\ ~IsInteger(s) THEN AlignScale(c, 1) ELSE c
    OBVIOUS
  <2>2. a = AlignScale(c, 1)
    BY <1>1, <1>4, <2>1 DEF AlignScale
  <2>3. Sound(r) /\ r.encoding = "FixedPoint"
    BY <1>3, <1>4, AddPlainSound
  <2>4. PICK u : u = [x EXCEPT !.noise = Lifted(x, c, "FixedPoint")]
    OBVIOUS
  <2>5. /\ a.raw \in Int /\ Valued(a.raw, 1, u)
        /\ u.num = x.num /\ u.den = x.den /\ u.noise = Lifted(x, c, "FixedPoint")
    BY <2>2, <2>4, AlignDecodes DEF Aligned
  <2>6. PICK v : v = Known(s, Unit, Rounding(s))
    OBVIOUS
  <2>7. PICK m \in Int : m = delta * (Nearest(s * scale, Unit) % t)
    BY MantissaDecodes
  <2>8. Valued(m, 1, v) /\ v.noise = Rounding(s)
    BY <2>6, <2>7, MantissaDecodes DEF Known
  <2>9. PICK b \in Int : b = a.raw
    BY <2>5
  <2>10. PICK noise : noise = u.noise + v.noise
    OBVIOUS
  <2>11. PICK z : z = Total(x, v, noise)
    OBVIOUS
  <2>12. z = Total(u, v, noise)
    BY <2>5, <2>11, TotalIgnoresNoise
  <2>13. Valued(b + m, 1, z)
    BY <2>5, <2>8, <2>9, <2>10, <2>12, TotalDecodes
  <2>14. b + m \in Int
    OBVIOUS
  <2>15. Good(Ciphertext(b + m, 1, "FixedPoint"), z, "FixedPoint")
    BY <2>13, <2>14, GoodCiphertext
  <2>16. a.scale_power = 1 /\ a.encoding = "FixedPoint"
    BY <1>1, <2>2 DEF AlignScale, IsFixed, Ciphertext
  <2>17. r = Ciphertext(b + m, 1, "FixedPoint")
    BY <1>3, <2>1, <2>7, <2>9, <2>16 DEF AddPlain, ScaleFactor
  <2>18. y = Outcome(z, "FixedPoint")
    <3>1. PICK d : d = [c EXCEPT !.encoding = "FixedPoint"]
      OBVIOUS
    <3>2. d.encoding = "FixedPoint"
      BY <3>1 DEF Sound
    <3>3. Joint(c, d) = "FixedPoint" /\ Lifted(v, d, "FixedPoint") = v.noise
      BY <3>2 DEF Joint, IsFixed, Lifted
    <3>4. y = Sum(x, c, v, d)
      BY <1>4, <2>6, <3>1 DEF SumPlain
    <3>5. QED
      BY <2>5, <2>10, <2>11, <3>3, <3>4 DEF Sum
  <2>19. Followed(r, y)
    BY <2>3, <2>15, <2>17, <2>18, OutcomeFollowed DEF Good
  <2>20. QED
    BY <1>3, <2>19
<1>5. CASE ~(IsFixed(c) \/ ~IsInteger(s))
  <2>1. IsInteger(s) /\ c.encoding = "Integer" /\ c.scale_power = 0 /\ x.den = 1
    BY <1>1, <1>5 DEF IsFixed, Close
  <2>2. PICK f \in Int : f = s \div Unit /\ f = Nearest(s, Unit)
    BY <2>1, PlainInteger
  <2>3. PICK v : v = Known(f, 1, 0)
    OBVIOUS
  <2>4. v \in Estimate /\ v.num = f /\ v.den = 1 /\ v.noise = 0
    BY <2>3 DEF Known, Estimate
  <2>5. Magnitude(delta * f * v.den - ScaleOf(0) * v.num) <= v.noise * v.den
    <3>1. delta * f * v.den - ScaleOf(0) * v.num = 0
      BY <2>4, ParameterFacts, ScaleFacts
    <3>2. QED
      BY <2>4, <3>1 DEF Magnitude
  <2>6. delta * (f % t) \in Int /\ Valued(delta * (f % t), 0, v)
    BY <2>4, <2>5, EncodedDecodes
  <2>7. PICK m \in Int : m = delta * (f % t)
    BY <2>6
  <2>8. PICK b \in Int : b = c.raw
    BY <1>1
  <2>9. Valued(b, 0, x)
    BY <1>2, <2>1, <2>8 DEF Valued, Close
  <2>10. PICK z : z = Known(x.num + f, 1, x.noise)
    OBVIOUS
  <2>11. z = Total(x, v, x.noise + v.noise)
    <3>1. x.noise + v.noise = x.noise
      BY <1>2, <2>4
    <3>2. QED
      BY <2>1, <2>4, <2>10, <3>1 DEF Total
  <2>12. Valued(b + m, 0, z)
    BY <2>6, <2>7, <2>9, <2>11, TotalDecodes
  <2>13. b + m \in Int /\ z.den = 1
    BY <2>10 DEF Known
  <2>14. Good(Ciphertext(b + m, 0, "Integer"), z, "Integer")
    BY <2>12, <2>13, GoodCiphertext
  <2>15. r = Ciphertext(b + m, 0, "Integer")
    <3>1. ScaleFactor(c.scale_power) = 1 /\ s * 1 = s
      BY <2>1 DEF ScaleFactor
    <3>2. QED
      BY <1>3, <1>5, <2>1, <2>2, <2>7, <2>8, <3>1 DEF AddPlain
  <2>16. y = Outcome(z, "Integer")
    BY <1>5, <2>2, <2>10 DEF SumPlain
  <2>17. Followed(r, y)
    BY <2>14, <2>15, <2>16, OutcomeFollowed DEF Good
  <2>18. QED
    BY <1>3, <2>17
<1>6. QED
  BY <1>4, <1>5

(* In range, centring picks the representative that decodes without a wrap. *)
LEMMA CenteredNear ==
  ASSUME NEW m \in Nat, m > 0, NEW a \in Int, -m < 2 * a, 2 * a <= m,
         NEW s \in Int, NEW num \in Int, NEW den \in Nat, den > 0, NEW noise \in Nat,
         Within(m, a, s, num, den, noise),
         2 * (Magnitude(s * num) + noise * den) < m * den
  PROVE  Magnitude(a * den - s * num) <= noise * den
<1>1. PICK k \in Int : Magnitude(a * den - s * num - k * (m * den)) <= noise * den
  BY DEF Within
<1>2. PICK u \in Int : u = s * num
  OBVIOUS
<1>3. PICK top \in Nat : top = noise * den
  OBVIOUS
<1>4. PICK w \in Nat : w = m * den
  OBVIOUS
<1>5. PICK b \in Int : b = a * den
  OBVIOUS
<1>6. PICK z \in Int : z = k * w
  OBVIOUS
<1>7. /\ Magnitude(b - u - z) <= top
      /\ 2 * (Magnitude(u) + top) < w
  BY <1>1, <1>2, <1>3, <1>4, <1>5, <1>6
<1>8. -w < 2 * b /\ 2 * b <= w
  <2>1. (2 * a) * den <= m * den
    OBVIOUS
  <2>2. (-m) * den < (2 * a) * den
    OBVIOUS
  <2>3. (2 * a) * den = 2 * b /\ (-m) * den = -w
    BY <1>4, <1>5
  <2>4. QED
    BY <2>1, <2>2, <2>3, <1>4
<1>9. -w < z /\ z < w
  BY <1>7, <1>8 DEF Magnitude
<1>10. k = 0
  <2>1. ~(k >= 1)
    <3>1. SUFFICES ASSUME k >= 1 PROVE FALSE
      OBVIOUS
    <3>2. k * w >= w
      BY <3>1
    <3>3. QED
      BY <1>6, <1>9, <3>2
  <2>2. ~(k <= -1)
    <3>1. SUFFICES ASSUME k <= -1 PROVE FALSE
      OBVIOUS
    <3>2. k * w <= -w
      BY <3>1
    <3>3. QED
      BY <1>6, <1>9, <3>2
  <2>3. QED
    BY <2>1, <2>2
<1>11. z = 0 /\ b - u - z = b - u
  BY <1>6, <1>10
<1>12. QED
  BY <1>2, <1>3, <1>5, <1>7, <1>11

(* Of an integer with little noise, centring finds the value, or the other  *)
(* sign of a value of t / 2.                                                *)
LEMMA CenteredWhole ==
  ASSUME NEW g \in Nat, NEW u \in Nat, u > 0, NEW m \in Nat, m = g * u,
         NEW a \in Int, -m < 2 * a, 2 * a <= m,
         NEW num \in Int, NEW noise \in Nat, 2 * noise < g,
         -u < 2 * num, 2 * num <= u, Within(m, a, g, num, 1, noise)
  PROVE  \E j \in Int : /\ Magnitude(num + j * u) = Magnitude(num)
                        /\ Magnitude(a - g * (num + j * u)) <= noise
<1>1. PICK k \in Int : Magnitude(a * 1 - g * num - k * (m * 1)) <= noise * 1
  BY DEF Within
<1>2. PICK v \in Int, z \in Int : v = g * num /\ z = k * m
  OBVIOUS
<1>3. Magnitude(a - v - z) <= noise
  BY <1>1, <1>2
<1>4. -noise <= a - v - z /\ a - v - z <= noise
  BY <1>3 DEF Magnitude
<1>5. 2 * v <= m /\ -m + g <= 2 * v
  <2>1. g * (2 * num) <= g * u
    OBVIOUS
  <2>2. g * (-u + 1) <= g * (2 * num)
    OBVIOUS
  <2>3. g * (-u + 1) = -m + g /\ g * (2 * num) = 2 * v
    BY <1>2
  <2>4. QED
    BY <2>1, <2>2, <2>3
<1>6. z < m /\ -2 * m < z
  <2>1. g <= m
    OBVIOUS
  <2>2. QED
    BY <1>4, <1>5, <2>1
<1>7. k = 0 \/ k = -1
  <2>1. ~(k >= 1)
    <3>1. SUFFICES ASSUME k >= 1 PROVE FALSE
      OBVIOUS
    <3>2. k * m >= m
      BY <3>1
    <3>3. QED
      BY <1>2, <1>6, <3>2
  <2>2. ~(k <= -2)
    <3>1. SUFFICES ASSUME k <= -2 PROVE FALSE
      OBVIOUS
    <3>2. k * m <= -2 * m
      BY <3>1
    <3>3. QED
      BY <1>2, <1>6, <3>2
  <2>3. QED
    BY <2>1, <2>2
<1>8. CASE k = 0
  <2>1. num + 0 * u = num /\ a - v - z = a - v
    BY <1>2, <1>8
  <2>2. Magnitude(a - g * num) <= noise
    BY <1>2, <1>3, <2>1
  <2>3. QED
    BY <2>1, <2>2
<1>9. CASE k = -1
  <2>1. z = -m
    BY <1>2, <1>9
  <2>2. m < 2 * v + g
    BY <1>4, <2>1
  <2>3. u = 2 * num
    <3>1. SUFFICES ASSUME 2 * num <= u - 1 PROVE FALSE
      OBVIOUS
    <3>2. g * (2 * num) <= g * (u - 1)
      BY <3>1
    <3>3. g * (u - 1) = m - g /\ g * (2 * num) = 2 * v
      BY <1>2
    <3>4. QED
      BY <2>2, <3>2, <3>3
  <2>4. num + (-1) * u = -num
    BY <2>3
  <2>5. Magnitude(-num) = Magnitude(num)
    BY MagnitudeFacts
  <2>6. g * (-num) = v + z
    <3>1. m = 2 * v
      BY <1>2, <2>3
    <3>2. g * (-num) = -v
      BY <1>2
    <3>3. QED
      BY <2>1, <3>1, <3>2
  <2>7. a - (v + z) = a - v - z
    OBVIOUS
  <2>8. Magnitude(a - g * (-num)) <= noise
    BY <1>3, <2>6, <2>7
  <2>9. -1 \in Int
    OBVIOUS
  <2>10. QED
    BY <2>4, <2>5, <2>8, <2>9
<1>10. QED
  BY <1>7, <1>8, <1>9

(* The centred raw value is within the noise of n, which stands for x.      *)
Near(c, x, n) ==
  /\ n \in Int /\ Magnitude(n) = Magnitude(x.num)
  /\ CenteredMod(c.raw, q) \in Int
  /\ Magnitude(CenteredMod(c.raw, q) * x.den - ScaleOf(c.scale_power) * n)
       <= x.noise * x.den

LEMMA CenteredDecodes ==
  ASSUME params \in Parameters, NEW c, Sound(c), NEW x, Close(c, x)
  PROVE  /\ CenteredMod(c.raw, q) \in Int
         /\ -q < 2 * CenteredMod(c.raw, q) /\ 2 * CenteredMod(c.raw, q) <= q
         /\ Within(q, CenteredMod(c.raw, q), ScaleOf(c.scale_power), x.num, x.den, x.noise)
<1>1. c.raw \in Int /\ c.scale_power \in Nat /\ q \in Nat /\ q > 0
  BY ParameterFacts DEF Sound
<1>2. PICK r \in Int : r = c.raw
  BY <1>1
<1>3. PICK m \in Nat : m = q /\ m > 0
  BY <1>1
<1>4. PICK s \in Int : s = ScaleOf(c.scale_power)
  BY <1>1, ScaleFacts
<1>5. PICK a \in Int : a = CenteredMod(r, m) /\ -m < 2 * a /\ 2 * a <= m
  BY <1>3, CenteredFacts
<1>6. PICK k \in Int : a = r + k * m
  BY <1>3, <1>5, CenteredFacts
<1>7. PICK num \in Int, den \in Nat, noise \in Nat :
        num = x.num /\ den = x.den /\ noise = x.noise
  BY DEF Close, Estimate
<1>8. Within(m, r, s, num, den, noise)
  BY <1>2, <1>3, <1>4, <1>7 DEF Close, Decodes
<1>9. Within(m, a, s, num, den, noise)
  BY <1>6, <1>8, WithinModulo
<1>10. QED
  BY <1>2, <1>3, <1>4, <1>5, <1>7, <1>9

LEMMA InRangeNear ==
  ASSUME params \in Parameters, NEW c, Sound(c), NEW x, Close(c, x),
         InRange(x, c.scale_power)
  PROVE  Near(c, x, x.num)
<1>1. c.scale_power \in Nat /\ x \in Estimate
  BY DEF Sound, Close
<1>2. PICK num \in Int, den \in Nat, noise \in Nat :
        num = x.num /\ den = x.den /\ noise = x.noise /\ den > 0
  BY <1>1 DEF Estimate
<1>3. PICK m \in Nat, s \in Int : m = q /\ s = ScaleOf(c.scale_power) /\ m > 0
  BY <1>1, ParameterFacts, ScaleFacts
<1>4. PICK a \in Int : a = CenteredMod(c.raw, q)
  BY CenteredDecodes
<1>5. -m < 2 * a /\ 2 * a <= m /\ Within(m, a, s, num, den, noise)
  BY <1>2, <1>3, <1>4, CenteredDecodes
<1>6. 2 * (Magnitude(s * num) + noise * den) < m * den
  <2>1. Ideal(x, c.scale_power) = s * num
    BY <1>1, <1>2, <1>3, IdealFacts
  <2>2. PICK g \in Nat : g = delta
    BY ParameterFacts
  <2>3. 2 * (Magnitude(s * num) + noise * den) + g * den < m * den
    BY <1>2, <1>3, <2>1, <2>2 DEF InRange
  <2>4. PICK v \in Nat : v = Magnitude(s * num)
    <3>1. s * num \in Int
      OBVIOUS
    <3>2. QED
      BY <3>1, MagnitudeFacts
  <2>5. PICK top \in Nat, w \in Nat, gd \in Nat : top = noise * den /\ w = m * den /\ gd = g * den
    OBVIOUS
  <2>6. QED
    BY <2>3, <2>4, <2>5
<1>7. Magnitude(a * den - s * num) <= noise * den
  BY <1>2, <1>3, <1>5, <1>6, CenteredNear
<1>8. QED
  BY <1>2, <1>3, <1>4, <1>7 DEF Near

LEMMA WholeNear ==
  ASSUME params \in Parameters, NEW c, Sound(c), NEW x, Followed(c, x), ~IsFixed(c)
  PROVE  \E j \in Int : Near(c, x, x.num + j * t)
<1>1. /\ Close(c, x) /\ x.den = 1 /\ c.scale_power = 0
      /\ 2 * x.noise < delta /\ -t < 2 * x.num /\ 2 * x.num <= t
  BY DEF Followed, Close, Sound, Disciplined
<1>2. PICK num \in Int, noise \in Nat : num = x.num /\ noise = x.noise
  BY <1>1 DEF Close, Estimate
<1>3. PICK m \in Nat : m = q /\ m > 0
  BY ParameterFacts
<1>4. PICK g \in Nat : g = delta
  BY ParameterFacts
<1>5. PICK u \in Nat : u = t /\ u > 0
  BY ParameterFacts
<1>6. PICK a \in Int : a = CenteredMod(c.raw, q)
  BY <1>1, CenteredDecodes
<1>7. -m < 2 * a /\ 2 * a <= m /\ Within(m, a, g, num, 1, noise)
  BY <1>1, <1>2, <1>3, <1>4, <1>6, CenteredDecodes, ScaleFacts
<1>8. m = g * u
  BY <1>3, <1>4, <1>5, ParameterFacts
<1>9. 2 * noise < g /\ -u < 2 * num /\ 2 * num <= u
  BY <1>1, <1>2, <1>4, <1>5
<1>10. PICK j \in Int : /\ Magnitude(num + j * u) = Magnitude(num)
                        /\ Magnitude(a - g * (num + j * u)) <= noise
  BY <1>5, <1>7, <1>8, <1>9, CenteredWhole
<1>11. PICK n \in Int : n = num + j * u
  OBVIOUS
<1>12. Magnitude(a * 1 - g * n) <= noise * 1
  BY <1>10, <1>11
<1>13. Near(c, x, n)
  BY <1>1, <1>2, <1>4, <1>6, <1>10, <1>11, <1>12, ScaleFacts DEF Near
<1>14. QED
  BY <1>2, <1>5, <1>11, <1>13

(* What the division rounds, the noise of the product bounds.               *)
LEMMA SpreadBounds ==
  ASSUME NEW u \in Int, NEW v \in Int, NEW m \in Nat, NEW n \in Nat,
         NEW b \in Int, NEW e \in Nat, Magnitude(b * e - v) <= n,
         NEW by \in Nat, by > 0, NEW de \in Nat, de > 0, NEW spread \in Nat,
         spread = Magnitude(u) * n + Magnitude(v) * m + m * n
  PROVE  /\ Ceiling(spread, by * de) \in Nat
         /\ Magnitude(u) * n + Magnitude(b * e) * m <= Ceiling(spread, by * de) * (by * de)
<1>1. PICK f \in Nat : f = by * de /\ f > 0
  OBVIOUS
<1>2. PICK c \in Nat : c = Ceiling(spread, f) /\ spread <= c * f
  BY <1>1, CeilingFacts
<1>3. PICK w \in Int : w = b * e
  OBVIOUS
<1>4. PICK mu \in Nat : mu = Magnitude(u)
  BY MagnitudeFacts
<1>5. PICK mv \in Nat : mv = Magnitude(v)
  BY MagnitudeFacts
<1>6. PICK mw \in Nat : mw = Magnitude(w)
  BY MagnitudeFacts
<1>7. mw <= mv + n
  BY <1>3, <1>5, <1>6 DEF Magnitude
<1>8. mw * m <= (mv + n) * m
  BY <1>7
<1>9. (mv + n) * m = mv * m + m * n
  OBVIOUS
<1>10. mu * n + mw * m <= spread
  <2>1. PICK h1 \in Int, h2 \in Int, h3 \in Int, h4 \in Int :
          h1 = mu * n /\ h2 = mw * m /\ h3 = mv * m /\ h4 = m * n
    OBVIOUS
  <2>2. h2 <= h3 + h4 /\ spread = h1 + h3 + h4
    BY <1>4, <1>5, <1>8, <1>9, <2>1
  <2>3. QED
    BY <2>1, <2>2
<1>11. mu * n + mw * m <= c * f
  <2>1. PICK h1 \in Int, h2 \in Int, h3 \in Int :
          h1 = mu * n /\ h2 = mw * m /\ h3 = c * f
    OBVIOUS
  <2>2. QED
    BY <1>2, <1>10, <2>1
<1>12. QED
  BY <1>1, <1>2, <1>3, <1>4, <1>6, <1>11

(* Two ciphertexts near n1 and n2 multiply to one that decodes to n1 * n2.  *)
LEMMA ProductDecodes ==
  ASSUME params \in Parameters,
         NEW c, Sound(c), NEW x, Close(c, x), NEW n1, Near(c, x, n1),
         NEW d, Sound(d), NEW y, Close(d, y), NEW n2, Near(d, y, n2),
         NEW by \in Nat, by > 0, NEW power \in Nat,
         ScaleOf(c.scale_power) * ScaleOf(d.scale_power) = by * ScaleOf(power),
         NEW spread,
         spread = Magnitude(Ideal(x, c.scale_power)) * y.noise * y.den
                    + Magnitude(Ideal(y, d.scale_power)) * x.noise * x.den
                    + x.noise * y.noise * x.den * y.den,
         NEW z, z = Known(n1 * n2, x.den * y.den, Ceiling(spread, by * x.den * y.den) + 1)
  PROVE  Valued(Nearest(CenteredMod(c.raw, q) * CenteredMod(d.raw, q), by), power, z)
<1>1. /\ c.scale_power \in Nat /\ d.scale_power \in Nat
      /\ x \in Estimate /\ y \in Estimate /\ n1 \in Int /\ n2 \in Int
  BY DEF Sound, Close, Near
<1>2. PICK a \in Int : a = CenteredMod(c.raw, q)
  BY DEF Near
<1>3. PICK b \in Int : b = CenteredMod(d.raw, q)
  BY DEF Near
<1>4. PICK s1 \in Int : s1 = ScaleOf(c.scale_power)
  BY <1>1, ScaleFacts
<1>5. PICK s2 \in Int : s2 = ScaleOf(d.scale_power)
  BY <1>1, ScaleFacts
<1>6. PICK s \in Int : s = ScaleOf(power)
  BY ScaleFacts
<1>7. PICK d1 \in Nat, e1 \in Nat : d1 = x.den /\ e1 = x.noise /\ d1 > 0
  BY <1>1 DEF Estimate
<1>8. PICK d2 \in Nat, e2 \in Nat : d2 = y.den /\ e2 = y.noise /\ d2 > 0
  BY <1>1 DEF Estimate
<1>9. PICK u \in Int, v \in Int : u = s1 * n1 /\ v = s2 * n2
  BY <1>1
<1>10. PICK m \in Nat, n \in Nat : m = e1 * d1 /\ n = e2 * d2
  OBVIOUS
<1>11. Magnitude(a * d1 - u) <= m /\ Magnitude(b * d2 - v) <= n
  BY <1>2, <1>3, <1>4, <1>5, <1>7, <1>8, <1>9, <1>10 DEF Near
<1>12. Magnitude(Ideal(x, c.scale_power)) = Magnitude(u)
  <2>1. x.num \in Int /\ Magnitude(n1) = Magnitude(x.num)
    BY <1>1 DEF Estimate, Near
  <2>2. Magnitude(s1 * x.num) = Magnitude(s1) * Magnitude(x.num)
        /\ Magnitude(s1 * n1) = Magnitude(s1) * Magnitude(n1)
    BY <1>1, <2>1, MagnitudeTimes
  <2>3. Ideal(x, c.scale_power) = s1 * x.num
    BY <1>1, <1>4, IdealFacts
  <2>4. QED
    BY <1>9, <2>1, <2>2, <2>3
<1>13. Magnitude(Ideal(y, d.scale_power)) = Magnitude(v)
  <2>1. y.num \in Int /\ Magnitude(n2) = Magnitude(y.num)
    BY <1>1 DEF Estimate, Near
  <2>2. Magnitude(s2 * y.num) = Magnitude(s2) * Magnitude(y.num)
        /\ Magnitude(s2 * n2) = Magnitude(s2) * Magnitude(n2)
    BY <1>1, <2>1, MagnitudeTimes
  <2>3. Ideal(y, d.scale_power) = s2 * y.num
    BY <1>1, <1>5, IdealFacts
  <2>4. QED
    BY <1>9, <2>1, <2>2, <2>3
<1>14. PICK mu \in Nat : mu = Magnitude(u)
  BY MagnitudeFacts
<1>15. PICK mv \in Nat : mv = Magnitude(v)
  BY MagnitudeFacts
<1>16. spread = mu * n + mv * m + m * n /\ spread \in Nat
  <2>1. spread = mu * e2 * d2 + mv * e1 * d1 + e1 * e2 * d1 * d2
    BY <1>7, <1>8, <1>12, <1>13, <1>14, <1>15
  <2>2. mu * e2 * d2 = mu * n /\ mv * e1 * d1 = mv * m /\ e1 * e2 * d1 * d2 = m * n
    BY <1>10
  <2>3. QED
    BY <2>1, <2>2
<1>17. PICK de \in Nat : de = d1 * d2 /\ de > 0
  BY <1>7, <1>8
<1>18. PICK h : h = Ceiling(spread, by * de)
  OBVIOUS
<1>19. /\ h \in Nat
       /\ Magnitude(u) * n + Magnitude(b * d2) * m <= h * (by * de)
  <2>1. spread = Magnitude(u) * n + Magnitude(v) * m + m * n /\ spread \in Nat
    BY <1>14, <1>15, <1>16
  <2>2. Magnitude(b * d2 - v) <= n /\ de > 0
    BY <1>11, <1>17
  <2>3. QED
    BY <1>18, <2>1, <2>2, SpreadBounds
<1>20. PICK w \in Int : w = s * (n1 * n2)
  BY <1>1
<1>21. by * w = u * v
  <2>1. s1 * s2 = by * s
    BY <1>4, <1>5, <1>6
  <2>2. u * v = (s1 * s2) * (n1 * n2)
    BY <1>1, <1>9
  <2>3. by * w = (by * s) * (n1 * n2)
    BY <1>1, <1>20
  <2>4. QED
    BY <2>1, <2>2, <2>3
<1>22. /\ Nearest(a * b, by) \in Int
       /\ Magnitude(Nearest(a * b, by) * (d1 * d2) - w) <= (h + 1) * (d1 * d2)
  <2>1. Magnitude(u) * n + Magnitude(b * d2) * m <= h * (by * (d1 * d2))
    BY <1>17, <1>19
  <2>2. m \in Int /\ n \in Int
    OBVIOUS
  <2>3. d1 > 0 /\ d2 > 0 /\ h \in Nat
    BY <1>7, <1>8, <1>19
  <2>4. QED
    BY <1>11, <1>21, <2>1, <2>2, <2>3, NearProduct
<1>23. PICK r \in Int : r = Nearest(a * b, by)
  BY <1>22
<1>24. PICK num \in Int : num = n1 * n2
  BY <1>1
<1>25. z \in Estimate /\ z.num = num /\ z.den = de /\ z.noise = h + 1
  <2>1. by * x.den * y.den = by * de
    BY <1>7, <1>8, <1>17
  <2>2. z = Known(num, de, h + 1)
    BY <1>7, <1>8, <1>17, <1>18, <1>24, <2>1
  <2>3. h + 1 \in Nat
    BY <1>19
  <2>4. QED
    BY <1>17, <2>2, <2>3, KnownEstimate
<1>26. Within(q, r, s, num, de, h + 1)
  <2>1. r * de - s * num - 0 * (q * de) = r * de - w
    <3>1. q * de \in Int
      BY ParameterFacts
    <3>2. QED
      BY <1>20, <1>24, <3>1
  <2>2. Magnitude(r * de - w) <= (h + 1) * de
    BY <1>17, <1>22, <1>23
  <2>3. QED
    BY <2>1, <2>2, 0 \in Int, Zenon DEF Within
<1>27. QED
  BY <1>2, <1>3, <1>6, <1>23, <1>25, <1>26 DEF Valued, Decodes

LEMMA ValuedRenamed ==
  ASSUME params \in Parameters, NEW r \in Int, NEW x, Valued(r, 0, x), x.den = 1,
         NEW y \in Estimate, NEW j \in Int, y.num = x.num + j * t,
         y.den = 1, y.noise = x.noise
  PROVE  Valued(r, 0, y)
<1>1. PICK num \in Int, noise \in Nat : num = x.num /\ noise = x.noise
  BY DEF Valued, Estimate
<1>2. PICK m \in Nat : m = q
  BY ParameterFacts
<1>3. PICK g \in Int, u \in Int : g = delta /\ u = t
  BY ParameterFacts
<1>4. m = g * u
  BY <1>2, <1>3, ParameterFacts
<1>5. Within(m, r, g, num, 1, noise)
  BY <1>1, <1>2, <1>3, ScaleFacts DEF Valued, Decodes
<1>6. Within(m, r, g, num + j * u, 1, noise)
  BY <1>4, <1>5, WithinRenamed
<1>7. QED
  BY <1>1, <1>2, <1>3, <1>6, ScaleFacts DEF Valued, Decodes

(* Dividing by delta, and by the scale when both operands carry it, leaves  *)
(* the scale of the result.                                                 *)
LEMMA RescaledFacts ==
  ASSUME params \in Parameters, NEW c, Sound(c), NEW d, Sound(d),
         NEW by, by = Rescaled(c, d).divisor, NEW power, power = Rescaled(c, d).power
  PROVE  /\ by \in Nat /\ by > 0 /\ power \in Nat
         /\ Joint(c, d) \in {"Integer", "FixedPoint"}
         /\ power = IF Joint(c, d) = "FixedPoint" THEN 1 ELSE 0
         /\ ScaleOf(c.scale_power) * ScaleOf(d.scale_power) = by * ScaleOf(power)
<1>1. /\ c.scale_power = IF IsFixed(c) THEN 1 ELSE 0
      /\ d.scale_power = IF IsFixed(d) THEN 1 ELSE 0
  BY DEF Sound, Disciplined
<1>2. PICK g \in Nat : g = delta /\ g > 0
  BY ParameterFacts
<1>3. PICK f \in Nat : f = scale /\ f > 0
  BY ParameterFacts
<1>4. PICK gf \in Nat : gf = g * f /\ gf > 0
  BY <1>2, <1>3
<1>5. ScaleOf(0) = g /\ ScaleOf(1) = gf
  BY <1>2, <1>3, <1>4, ScaleFacts
<1>6. CASE IsFixed(c) /\ IsFixed(d)
  <2>1. by = gf /\ power = 1 /\ Joint(c, d) = "FixedPoint"
    BY <1>2, <1>3, <1>4, <1>6 DEF Rescaled, Joint
  <2>2. ScaleOf(c.scale_power) * ScaleOf(d.scale_power) = gf * gf
    BY <1>1, <1>5, <1>6
  <2>3. QED
    BY <1>4, <1>5, <2>1, <2>2
<1>7. CASE ~(IsFixed(c) /\ IsFixed(d))
  <2>1. by = g /\ power = c.scale_power + d.scale_power
    BY <1>2, <1>7 DEF Rescaled
  <2>2. CASE IsFixed(c)
    <3>1. power = 1 /\ Joint(c, d) = "FixedPoint"
      BY <1>1, <1>7, <2>1, <2>2 DEF Joint
    <3>2. ScaleOf(c.scale_power) * ScaleOf(d.scale_power) = gf * g /\ gf * g = g * gf
      BY <1>1, <1>5, <1>7, <2>2
    <3>3. QED
      BY <1>2, <1>5, <2>1, <3>1, <3>2
  <2>3. CASE IsFixed(d)
    <3>1. power = 1 /\ Joint(c, d) = "FixedPoint"
      BY <1>1, <1>7, <2>1, <2>3 DEF Joint
    <3>2. ScaleOf(c.scale_power) * ScaleOf(d.scale_power) = g * gf
      BY <1>1, <1>5, <1>7, <2>3
    <3>3. QED
      BY <1>2, <1>5, <2>1, <3>1, <3>2
  <2>4. CASE ~IsFixed(c) /\ ~IsFixed(d)
    <3>1. power = 0 /\ Joint(c, d) = "Integer"
      BY <1>1, <2>1, <2>4 DEF Joint
    <3>2. ScaleOf(c.scale_power) * ScaleOf(d.scale_power) = g * g
      BY <1>1, <1>5, <2>4
    <3>3. QED
      BY <1>2, <1>5, <2>1, <3>1, <3>2
  <2>5. QED
    BY <2>2, <2>3, <2>4
<1>8. QED
  BY <1>6, <1>7

LEMMA NoiseFacts ==
  ASSUME params \in Parameters, NEW e \in Noise
  PROVE  e \in Int
BY ParameterFacts DEF Noise

(* Multiplying keeps the discipline of the scales.                          *)
LEMMA MultiplySound ==
  ASSUME params \in Parameters, NEW c, Sound(c), NEW d, Sound(d), NEW e \in Noise
  PROVE  Sound(Multiply(c, d, e)) /\ Multiply(c, d, e).encoding = Joint(c, d)
<1>1. PICK by : by = Rescaled(c, d).divisor
  OBVIOUS
<1>2. PICK power : power = Rescaled(c, d).power
  OBVIOUS
<1>3. /\ by \in Nat /\ by > 0 /\ power \in Nat
      /\ Joint(c, d) \in {"Integer", "FixedPoint"}
      /\ power = IF Joint(c, d) = "FixedPoint" THEN 1 ELSE 0
  BY <1>1, <1>2, RescaledFacts
<1>4. PICK a \in Int, b \in Int : a = CenteredMod(c.raw, q) /\ b = CenteredMod(d.raw, q)
  <2>1. c.raw \in Int /\ d.raw \in Int /\ q \in Nat /\ q > 0
    BY ParameterFacts DEF Sound
  <2>2. CenteredMod(c.raw, q) \in Int /\ CenteredMod(d.raw, q) \in Int
    BY <2>1, CenteredFacts
  <2>3. QED
    BY <2>2
<1>5. PICK r \in Int : r = Nearest(a * b, by)
  <2>1. a * b \in Int
    OBVIOUS
  <2>2. QED
    BY <1>3, <2>1, NearestFacts
<1>6. r + e \in Int
  BY NoiseFacts
<1>7. Multiply(c, d, e) = Ciphertext(r + e, power, Joint(c, d))
  BY <1>1, <1>2, <1>4, <1>5 DEF Multiply, MultiplyDecoded, EncodeRaw
<1>8. QED
  BY <1>3, <1>6, <1>7, CiphertextSound

(* The spread is a number.                                                   *)
LEMMA SpreadNatural ==
  ASSUME params \in Parameters, NEW x \in Estimate, NEW y \in Estimate,
         NEW p1 \in Nat, NEW p2 \in Nat
  PROVE  Magnitude(Ideal(x, p1)) * y.noise * y.den
           + Magnitude(Ideal(y, p2)) * x.noise * x.den
           + x.noise * y.noise * x.den * y.den \in Nat
<1>1. PICK u \in Int, v \in Int : u = Ideal(x, p1) /\ v = Ideal(y, p2)
  BY IdealFacts
<1>2. PICK mu \in Nat : mu = Magnitude(u)
  BY MagnitudeFacts
<1>3. PICK mv \in Nat : mv = Magnitude(v)
  BY MagnitudeFacts
<1>4. PICK d1 \in Nat, e1 \in Nat, d2 \in Nat, e2 \in Nat :
        d1 = x.den /\ e1 = x.noise /\ d2 = y.den /\ e2 = y.noise
  BY DEF Estimate
<1>5. mu * e2 * d2 + mv * e1 * d1 + e1 * e2 * d1 * d2 \in Nat
  OBVIOUS
<1>6. QED
  BY <1>1, <1>2, <1>3, <1>4, <1>5

LEMMA MultiplyGood ==
  ASSUME params \in Parameters, NEW c, Sound(c), NEW x, Followed(c, x),
         NEW d, Sound(d), NEW y, Followed(d, y), NEW e \in Noise,
         NEW z, z = Product(x, c, y, d), z # Lost
  PROVE  Followed(Multiply(c, d, e), z)
<1>1. Close(c, x) /\ Close(d, y) /\ x \in Estimate /\ y \in Estimate
      /\ c.scale_power \in Nat /\ d.scale_power \in Nat
  BY DEF Followed, Close, Sound
<1>2. PICK kind : kind = Joint(c, d)
  OBVIOUS
<1>3. PICK by : by = Rescaled(c, d).divisor
  OBVIOUS
<1>4. PICK power : power = Rescaled(c, d).power
  OBVIOUS
<1>5. /\ by \in Nat /\ by > 0 /\ power \in Nat /\ kind \in {"Integer", "FixedPoint"}
      /\ power = IF kind = "FixedPoint" THEN 1 ELSE 0
      /\ ScaleOf(c.scale_power) * ScaleOf(d.scale_power) = by * ScaleOf(power)
  BY <1>2, <1>3, <1>4, RescaledFacts
<1>6. PICK spread \in Nat :
        spread = Magnitude(Ideal(x, c.scale_power)) * y.noise * y.den
                   + Magnitude(Ideal(y, d.scale_power)) * x.noise * x.den
                   + x.noise * y.noise * x.den * y.den
  BY <1>1, SpreadNatural
<1>7. PICK h \in Nat : h = Ceiling(spread, by * x.den * y.den)
  <2>1. PICK f \in Nat : f = by * x.den * y.den /\ f > 0
    <3>1. PICK d1 \in Nat, d2 \in Nat : d1 = x.den /\ d2 = y.den /\ d1 > 0 /\ d2 > 0
      BY <1>1 DEF Estimate
    <3>2. by * d1 * d2 \in Nat /\ by * d1 * d2 > 0
      <4>1. PICK g \in Nat : g = by * d1 /\ g > 0
        BY <1>5, <3>1
      <4>2. g * d2 \in Nat /\ g * d2 > 0
        BY <3>1, <4>1
      <4>3. QED
        BY <4>1, <4>2
    <3>3. QED
      BY <3>1, <3>2
  <2>2. QED
    BY <2>1, CeilingFacts
<1>8. PICK w : w = Known(x.num * y.num, x.den * y.den, h + 1)
  OBVIOUS
<1>9. PICK v : v = Known(x.num * y.num, x.den * y.den, h + 1 + params.noise_bound)
  OBVIOUS
<1>10. PICK num \in Int, den \in Nat : num = x.num * y.num /\ den = x.den * y.den /\ den > 0
  <2>1. PICK d1 \in Nat, d2 \in Nat, m1 \in Int, m2 \in Int :
          d1 = x.den /\ d2 = y.den /\ d1 > 0 /\ d2 > 0 /\ m1 = x.num /\ m2 = y.num
    BY <1>1 DEF Estimate
  <2>2. m1 * m2 \in Int /\ d1 * d2 \in Nat /\ d1 * d2 > 0
    BY <2>1
  <2>3. QED
    BY <2>1, <2>2
<1>11. PICK nb \in Nat : nb = params.noise_bound
  BY ParameterFacts
<1>12. w \in Estimate /\ w.num = num /\ w.den = den /\ w.noise = h + 1
  <2>1. h + 1 \in Nat
    OBVIOUS
  <2>2. QED
    BY <1>8, <1>10, <2>1, KnownEstimate
<1>13. v \in Estimate /\ v.num = num /\ v.den = den /\ v.noise = h + 1 + nb
  <2>1. h + 1 + nb \in Nat
    OBVIOUS
  <2>2. QED
    BY <1>9, <1>10, <1>11, <2>1, KnownEstimate
<1>14. PICK r : r = Nearest(CenteredMod(c.raw, q) * CenteredMod(d.raw, q), by)
  OBVIOUS
<1>15. r \in Int
  <2>1. PICK a \in Int : a = CenteredMod(c.raw, q)
    BY <1>1, CenteredDecodes
  <2>2. PICK b \in Int : b = CenteredMod(d.raw, q)
    BY <1>1, CenteredDecodes
  <2>3. a * b \in Int
    OBVIOUS
  <2>4. QED
    BY <1>5, <1>14, <2>1, <2>2, <2>3, NearestFacts
<1>16. Valued(r, power, w)
  <2>1. CASE kind = "FixedPoint"
    <3>1. InRange(x, c.scale_power) /\ InRange(y, d.scale_power)
      BY <1>2, <2>1 DEF Product
    <3>2. Near(c, x, x.num) /\ Near(d, y, y.num)
      BY <1>1, <3>1, InRangeNear
    <3>3. QED
      BY <1>1, <1>5, <1>6, <1>7, <1>8, <1>14, <3>2, ProductDecodes
  <2>2. CASE kind = "Integer"
    <3>1. ~IsFixed(c) /\ ~IsFixed(d) /\ power = 0 /\ x.den = 1 /\ y.den = 1
      BY <1>1, <1>2, <1>5, <2>2 DEF Joint, Close
    <3>2. PICK j1 \in Int : Near(c, x, x.num + j1 * t)
      BY <3>1, WholeNear
    <3>3. PICK j2 \in Int : Near(d, y, y.num + j2 * t)
      BY <3>1, WholeNear
    <3>4. PICK m1 \in Int, m2 \in Int : m1 = x.num /\ m2 = y.num
      BY <1>1 DEF Estimate
    <3>5. PICK u \in Nat : u = t
      BY ParameterFacts
    <3>6. PICK n1 \in Int, n2 \in Int : n1 = m1 + j1 * u /\ n2 = m2 + j2 * u
      OBVIOUS
    <3>7. PICK k : k = Known(n1 * n2, x.den * y.den, h + 1)
      OBVIOUS
    <3>8. Near(c, x, n1) /\ Near(d, y, n2)
      BY <3>2, <3>3, <3>4, <3>5, <3>6
    <3>9. Valued(r, power, k)
      BY <1>1, <1>5, <1>6, <1>7, <1>14, <3>7, <3>8, ProductDecodes
    <3>10. k.num = n1 * n2 /\ k.den = 1 /\ k.noise = h + 1
      <4>1. x.den * y.den = 1
        BY <3>1
      <4>2. QED
        BY <3>7, <4>1 DEF Known
    <3>11. PICK j \in Int : j = -(m1 * j2 + m2 * j1 + j1 * j2 * u)
      OBVIOUS
    <3>12. w.num = n1 * n2 + j * u
      <4>1. n1 * n2 = m1 * m2 + (m1 * j2 + m2 * j1 + j1 * j2 * u) * u
        BY <3>6
      <4>2. j * u = -((m1 * j2 + m2 * j1 + j1 * j2 * u) * u)
        BY <3>11
      <4>3. w.num = m1 * m2
        BY <1>10, <1>12, <3>4
      <4>4. QED
        BY <4>1, <4>2, <4>3
    <3>13. w.num = k.num + j * t /\ w.den = 1 /\ w.noise = k.noise
      BY <1>10, <1>12, <3>1, <3>5, <3>10, <3>12
    <3>14. QED
      BY <1>12, <1>15, <3>1, <3>9, <3>10, <3>13, ValuedRenamed
  <2>3. QED
    BY <1>5, <2>1, <2>2
<1>17. r + e \in Int /\ Valued(r + e, power, v)
  <2>1. v.noise = w.noise + params.noise_bound
    BY <1>11, <1>12, <1>13
  <2>2. QED
    BY <1>5, <1>12, <1>13, <1>15, <1>16, <2>1, NoiseDecodes
<1>18. kind = "FixedPoint" \/ v.den = 1
  BY <1>1, <1>2, <1>5, <1>10, <1>13 DEF Joint, Close
<1>19. Good(Ciphertext(r + e, power, kind), v, kind)
  BY <1>5, <1>17, <1>18, GoodCiphertext
<1>20. Multiply(c, d, e) = Ciphertext(r + e, power, kind)
  BY <1>2, <1>3, <1>4, <1>14 DEF Multiply, MultiplyDecoded, EncodeRaw
<1>21. z = Outcome(v, kind)
  BY <1>2, <1>3, <1>6, <1>7, <1>9 DEF Product
<1>22. QED
  BY <1>19, <1>20, <1>21, OutcomeFollowed DEF Good

(* By a scalar: only one with a fraction makes a fixed-point number.        *)
LEMMA MultiplyPlainSound ==
  ASSUME params \in Parameters, NEW c, Sound(c), NEW s \in Int, NEW e \in Noise
  PROVE  /\ Sound(MultiplyPlain(c, s, e))
         /\ MultiplyPlain(c, s, e).encoding =
              IF IsInteger(s) THEN c.encoding ELSE "FixedPoint"
<1>1. /\ c.raw \in Int /\ c.scale_power \in Nat /\ c.encoding \in {"Integer", "FixedPoint"}
      /\ c.scale_power = IF c.encoding = "FixedPoint" THEN 1 ELSE 0
  BY ParameterFacts DEF Sound, Disciplined, IsFixed
<1>2. CASE IsInteger(s)
  <2>1. PICK f \in Int : f = s \div Unit
    BY <1>2, PlainInteger
  <2>2. c.raw * f \in Int
    BY <1>1
  <2>3. MultiplyPlain(c, s, e) = Ciphertext(c.raw * f, c.scale_power, c.encoding)
    BY <1>2, <2>1 DEF MultiplyPlain
  <2>4. QED
    BY <1>1, <1>2, <2>2, <2>3, CiphertextSound
<1>3. CASE ~IsInteger(s)
  <2>1. PICK m \in Int : m = Nearest(s * scale, Unit)
    BY MantissaFacts
  <2>2. PICK a \in Int : a = CenteredMod(c.raw, q)
    BY <1>1, ParameterFacts, CenteredFacts
  <2>3. PICK by \in Nat : by = (IF c.scale_power >= 1 THEN scale ELSE 1) /\ by > 0
    BY ParameterFacts
  <2>4. PICK r \in Int : r = Nearest(a * m, by)
    <3>1. a * m \in Int
      OBVIOUS
    <3>2. QED
      BY <2>3, <3>1, NearestFacts
  <2>5. r + e \in Int
    BY NoiseFacts
  <2>6. MultiplyPlain(c, s, e) = Ciphertext(r + e, 1, "FixedPoint")
    <3>1. CASE c.scale_power >= 1
      <4>1. c.scale_power = 1
        BY <1>1, <3>1
      <4>2. QED
        BY <1>3, <2>1, <2>2, <2>3, <2>4, <3>1, <4>1
           DEF MultiplyPlain, MultiplyDecoded, EncodeRaw
    <3>2. CASE ~(c.scale_power >= 1)
      <4>1. c.scale_power + 1 = 1
        BY <1>1, <3>2
      <4>2. QED
        BY <1>3, <2>1, <2>2, <2>3, <2>4, <3>2, <4>1
           DEF MultiplyPlain, MultiplyDecoded, EncodeRaw
    <3>3. QED
      BY <3>1, <3>2
  <2>7. QED
    BY <1>3, <2>5, <2>6, CiphertextSound
<1>4. QED
  BY <1>2, <1>3

(* A ciphertext times a rounded mantissa.                                   *)
LEMMA ScaledDecodes ==
  ASSUME params \in Parameters, NEW c, Sound(c), NEW x, Close(c, x),
         Near(c, x, x.num), NEW s \in Int,
         NEW by, by = ScaleFactor(c.scale_power),
         NEW h, h = Ceiling(Magnitude(Ideal(x, c.scale_power)) * (s % 2)
                              + 2 * x.noise * Magnitude(Nearest(s, 2)) * x.den,
                            2 * x.den * by),
         NEW z, z = Known(x.num * s, x.den * Unit, h + 1)
  PROVE  /\ h \in Nat
         /\ Valued(Nearest(CenteredMod(c.raw, q) * Nearest(s, 2), by), 1, z)
<1>1. c.scale_power \in Nat /\ x \in Estimate
  BY DEF Sound, Close
<1>2. PICK a \in Int : a = CenteredMod(c.raw, q)
  BY DEF Near
<1>3. PICK b \in Int : b = Nearest(s, 2)
  BY NearestHalf
<1>4. PICK n \in Nat : n = s % 2 /\ Magnitude(b * 2 - s) <= n
  <2>1. s % 2 \in {0, 1} /\ Magnitude(2 * b - s) <= s % 2
    BY <1>3, NearestHalf
  <2>2. 2 * b - s = b * 2 - s
    OBVIOUS
  <2>3. QED
    BY <2>1, <2>2
<1>5. PICK num \in Int, den \in Nat, noise \in Nat :
        num = x.num /\ den = x.den /\ noise = x.noise /\ den > 0
  BY <1>1 DEF Estimate
<1>6. PICK f \in Nat : f = by /\ f > 0
  BY <1>1, ScaleFacts
<1>7. PICK g \in Nat, sc \in Nat : g = delta /\ sc = scale /\ sc > 0
  BY ParameterFacts
<1>8. PICK s1 \in Int : s1 = g * f /\ s1 = ScaleOf(c.scale_power)
  BY <1>6, <1>7 DEF ScaleOf
<1>9. PICK u \in Int, m \in Nat : u = s1 * num /\ m = noise * den
  OBVIOUS
<1>10. Magnitude(a * den - u) <= m
  BY <1>2, <1>5, <1>8, <1>9 DEF Near
<1>11. PICK mu \in Nat : mu = Magnitude(u)
  BY MagnitudeFacts
<1>12. PICK mb \in Nat : mb = Magnitude(b)
  BY MagnitudeFacts
<1>13. PICK spread \in Nat : spread = mu * n + 2 * noise * mb * den
  OBVIOUS
<1>14. PICK top \in Nat : top = 2 * den * f /\ top > 0
  <2>1. den * f > 0 /\ den * f \in Nat /\ 2 * den * f = 2 * (den * f)
    BY <1>5, <1>6
  <2>2. QED
    BY <2>1
<1>15. h = Ceiling(spread, top)
  <2>1. Ideal(x, c.scale_power) = u
    BY <1>1, <1>5, <1>8, <1>9, IdealFacts
  <2>2. QED
    BY <1>3, <1>4, <1>5, <1>6, <1>11, <1>12, <1>13, <1>14, <2>1
<1>16. h \in Nat /\ spread <= h * top
  BY <1>14, <1>15, CeilingFacts
<1>17. Magnitude(u) * n + Magnitude(b * 2) * m <= h * (f * (den * 2))
  <2>1. Magnitude(b * 2) = mb * 2
    BY <1>12, MagnitudeTimes
  <2>2. (mb * 2) * m = 2 * noise * mb * den
    BY <1>9
  <2>3. f * (den * 2) = top
    BY <1>14
  <2>4. QED
    BY <1>11, <1>13, <1>16, <2>1, <2>2, <2>3
<1>18. PICK w \in Int : w = g * num * s
  OBVIOUS
<1>19. f * w = u * s
  <2>1. u * s = g * f * num * s
    BY <1>8, <1>9
  <2>2. QED
    BY <1>18, <2>1
<1>20. /\ Nearest(a * b, f) \in Int
       /\ Magnitude(Nearest(a * b, f) * (den * 2) - w) <= (h + 1) * (den * 2)
  <2>1. m \in Int /\ n \in Int /\ 2 \in Nat /\ 2 > 0
    OBVIOUS
  <2>2. den > 0 /\ f > 0 /\ h \in Nat /\ Magnitude(b * 2 - s) <= n
    BY <1>4, <1>5, <1>6, <1>16
  <2>3. QED
    BY <1>10, <1>17, <1>19, <2>1, <2>2, NearProduct
<1>21. PICK r \in Int : r = Nearest(a * b, f)
  BY <1>20
<1>22. PICK o \in Int : o = r * (den * 2) - w
  <2>1. PICK k \in Int : k = r * (den * 2)
    OBVIOUS
  <2>2. k - w \in Int
    OBVIOUS
  <2>3. QED
    BY <2>1, <2>2
<1>23. Magnitude(o * sc) <= ((h + 1) * (den * 2)) * sc
  <2>1. (h + 1) * (den * 2) \in Int
    BY <1>16
  <2>2. QED
    BY <1>20, <1>21, <1>22, <2>1, BoundTimes
<1>24. PICK de \in Nat : de = den * (2 * sc) /\ de > 0
  <2>1. PICK two \in Nat : two = 2 * sc /\ two > 0
    BY <1>7
  <2>2. den * two \in Nat /\ den * two > 0
    BY <1>5, <2>1
  <2>3. QED
    BY <2>1, <2>2
<1>25. PICK zn \in Int : zn = num * s
  OBVIOUS
<1>26. Within(q, r, g * sc, zn, de, h + 1)
  <2>1. PICK k \in Int : k = q * de
    BY ParameterFacts
  <2>2. r * de - (g * sc) * zn - 0 * k = o * sc
    <3>1. r * de = (r * (den * 2)) * sc /\ (g * sc) * zn = w * sc
      BY <1>18, <1>24, <1>25
    <3>2. o * sc = (r * (den * 2)) * sc - w * sc
      BY <1>22
    <3>3. QED
      BY <3>1, <3>2
  <2>3. ((h + 1) * (den * 2)) * sc = (h + 1) * de
    BY <1>16, <1>24
  <2>4. Magnitude(r * de - (g * sc) * zn - 0 * (q * de)) <= (h + 1) * de
    <3>1. r * de - (g * sc) * zn - 0 * (q * de) = o * sc
      BY <2>1, <2>2
    <3>2. QED
      BY <1>23, <2>3, <3>1
  <2>5. QED
    BY <2>4, 0 \in Int, Zenon DEF Within
<1>27. z \in Estimate /\ z.num = zn /\ z.den = de /\ z.noise = h + 1
  <2>1. z = Known(zn, de, h + 1)
    BY <1>5, <1>7, <1>24, <1>25, ParameterFacts
  <2>2. PICK k \in Nat : k = h + 1
    BY <1>16
  <2>3. z = Known(zn, de, k) /\ de > 0
    BY <1>24, <2>1, <2>2
  <2>4. QED
    BY <2>2, <2>3 DEF Known, Estimate
<1>28. ScaleOf(1) = g * sc
  BY <1>7, ScaleFacts
<1>29. QED
  BY <1>2, <1>3, <1>6, <1>16, <1>21, <1>26, <1>27, <1>28 DEF Valued, Decodes

LEMMA MultiplyPlainGood ==
  ASSUME params \in Parameters, NEW c, Sound(c), NEW x, Close(c, x),
         NEW s \in Int, NEW e \in Noise,
         NEW z, z = ProductPlain(x, c, s), z # Lost
  PROVE  Followed(MultiplyPlain(c, s, e), z)
<1>1. /\ c.raw \in Int /\ c.scale_power \in Nat /\ c.encoding \in {"Integer", "FixedPoint"}
      /\ c.scale_power = IF c.encoding = "FixedPoint" THEN 1 ELSE 0
  BY ParameterFacts DEF Sound, Disciplined, IsFixed
<1>2. CASE IsInteger(s)
  <2>1. PICK f \in Int : f = s \div Unit
    BY <1>2, PlainInteger
  <2>2. PICK v : v = [x EXCEPT !.num = @ * f, !.noise = @ * Magnitude(f)]
    OBVIOUS
  <2>3. PICK r : r = Ciphertext(c.raw * f, c.scale_power, c.encoding)
    OBVIOUS
  <2>4. Good(r, v, c.encoding)
    BY <2>2, <2>3, TimesIntegerGood
  <2>5. MultiplyPlain(c, s, e) = r
    BY <1>2, <2>1, <2>3 DEF MultiplyPlain
  <2>6. z = Outcome(v, c.encoding)
    BY <1>2, <2>1, <2>2 DEF ProductPlain
  <2>7. QED
    BY <2>4, <2>5, <2>6, OutcomeFollowed DEF Good
<1>3. CASE ~IsInteger(s)
  <2>1. InRange(x, c.scale_power)
    BY <1>3 DEF ProductPlain
  <2>2. Near(c, x, x.num)
    BY <2>1, InRangeNear
  <2>3. PICK by : by = ScaleFactor(c.scale_power)
    OBVIOUS
  <2>4. PICK h : h = Ceiling(Magnitude(Ideal(x, c.scale_power)) * (s % 2)
                               + 2 * x.noise * Magnitude(Nearest(s, 2)) * x.den,
                             2 * x.den * by)
    OBVIOUS
  <2>5. PICK w : w = Known(x.num * s, x.den * Unit, h + 1)
    OBVIOUS
  <2>6. PICK v : v = Known(x.num * s, x.den * Unit, h + 1 + params.noise_bound)
    OBVIOUS
  <2>7. PICK r : r = Nearest(CenteredMod(c.raw, q) * Nearest(s, 2), by)
    OBVIOUS
  <2>8. h \in Nat /\ Valued(r, 1, w)
    BY <2>2, <2>3, <2>4, <2>5, <2>7, ScaledDecodes
  <2>9. r \in Int
    <3>1. PICK a \in Int : a = CenteredMod(c.raw, q)
      BY CenteredDecodes
    <3>2. PICK b \in Int : b = Nearest(s, 2)
      BY NearestHalf
    <3>3. a * b \in Int /\ by \in Nat /\ by > 0
      BY <1>1, <2>3, ScaleFacts
    <3>4. QED
      BY <2>7, <3>1, <3>2, <3>3, NearestFacts
  <2>10. PICK num \in Int, den \in Nat : num = x.num * s /\ den = x.den * Unit /\ den > 0
    <3>1. PICK d1 \in Nat, n1 \in Int, u \in Nat :
            d1 = x.den /\ n1 = x.num /\ u = Unit /\ d1 > 0 /\ u > 0
      BY ParameterFacts DEF Close, Estimate
    <3>2. n1 * s \in Int /\ d1 * u \in Nat /\ d1 * u > 0
      BY <3>1
    <3>3. QED
      BY <3>1, <3>2
  <2>11. PICK nb \in Nat : nb = params.noise_bound
    BY ParameterFacts
  <2>12. w.num = num /\ w.den = den /\ w.noise = h + 1
    BY <2>5, <2>10 DEF Known
  <2>13. v \in Estimate /\ v.num = num /\ v.den = den /\ v.noise = h + 1 + nb
    <3>1. h + 1 + nb \in Nat
      BY <2>8
    <3>2. QED
      BY <2>6, <2>10, <2>11, <3>1, KnownEstimate
  <2>14. r + e \in Int /\ Valued(r + e, 1, v)
    <3>1. v.noise = w.noise + params.noise_bound
      BY <2>8, <2>11, <2>12, <2>13
    <3>2. QED
      BY <2>8, <2>9, <2>12, <2>13, <3>1, NoiseDecodes
  <2>15. Good(Ciphertext(r + e, 1, "FixedPoint"), v, "FixedPoint")
    BY <2>14, GoodCiphertext
  <2>16. MultiplyPlain(c, s, e) = Ciphertext(r + e, 1, "FixedPoint")
    <3>1. Nearest(s * scale, Unit) = Nearest(s, 2)
      BY MantissaFacts
    <3>2. CASE c.scale_power >= 1
      <4>1. c.scale_power = 1 /\ by = scale
        BY <1>1, <2>3, <3>2 DEF ScaleFactor
      <4>2. QED
        BY <1>3, <2>7, <3>1, <3>2, <4>1 DEF MultiplyPlain, MultiplyDecoded, EncodeRaw
    <3>3. CASE ~(c.scale_power >= 1)
      <4>1. c.scale_power + 1 = 1 /\ by = 1
        BY <1>1, <2>3, <3>3 DEF ScaleFactor
      <4>2. QED
        BY <1>3, <2>7, <3>1, <3>3, <4>1 DEF MultiplyPlain, MultiplyDecoded, EncodeRaw
    <3>4. QED
      BY <3>2, <3>3
  <2>17. z = Outcome(v, "FixedPoint")
    <3>1. InRange(x, c.scale_power) /\ z = Outcome(v, "FixedPoint")
      BY <1>3, <2>1, <2>3, <2>4, <2>6 DEF ProductPlain
    <3>2. QED
      BY <3>1
  <2>18. QED
    BY <2>15, <2>16, <2>17, OutcomeFollowed DEF Good
<1>4. QED
  BY <1>2, <1>3

-----------------------------------------------------------------------------
(* The invariant: what is in a buffer is sound, and what is followed of it  *)
(* is in range.                                                             *)
Content(c, x) ==
  /\ c # Lost => Sound(c)
  /\ x # Lost => c # Lost /\ Followed(c, x)

EngineInvariant ==
  /\ params \in Parameters
  /\ ops \in 0..MaxOps
  /\ DOMAIN cipher = Buffers /\ DOMAIN exact = Buffers
  /\ \A b \in Buffers : Content(cipher[b], exact[b])

LEMMA SoundKnown ==
  ASSUME params \in Parameters, NEW c, Sound(c)
  PROVE  c # Lost
<1>1. \A i \in 0..(q - 1) : i \in Nat
  BY ParameterFacts
<1>2. c \in [raw : Nat, scale_power : Nat, encoding : {"Integer", "FixedPoint"}]
  BY <1>1 DEF Sound
<1>3. QED
  BY <1>2, LostAssumption

(* What a buffer holds means the same while the parameters do.              *)
LEMMA ContentStays ==
  ASSUME UNCHANGED params, NEW c, NEW x, Content(c, x)
  PROVE  Content(c, x)'
BY DEF Content, Sound, Disciplined, Followed, Close, Decodes, ScaleOf, ScaleFactor,
       InRange, Ideal, IsFixed, delta, q, t, scale

LEMMA WriteKeepsContents ==
  ASSUME EngineInvariant, NEW r \in Buffers, NEW c, NEW x, Content(c, x),
         cipher' = [cipher EXCEPT ![r] = c], exact' = [exact EXCEPT ![r] = x],
         UNCHANGED params, ops' \in 0..MaxOps
  PROVE  EngineInvariant'
<1>1. \A b \in Buffers : Content(cipher'[b], exact'[b])
  BY DEF EngineInvariant
<1>2. \A c1, x1 : Content(c1, x1) => Content(c1, x1)'
  BY ContentStays
<1>3. (\A b \in Buffers : Content(cipher[b], exact[b]))'
  <2>1. SUFFICES ASSUME NEW b \in Buffers PROVE Content(cipher[b], exact[b])'
    OBVIOUS
  <2>2. PICK c1 : c1 = cipher'[b]
    OBVIOUS
  <2>3. PICK x1 : x1 = exact'[b]
    OBVIOUS
  <2>4. Content(c1, x1)'
    BY <1>1, <1>2, <2>2, <2>3
  <2>5. QED
    BY <2>2, <2>3, <2>4
<1>4. QED
  BY <1>3 DEF EngineInvariant

LEMMA KernelKeepsContents ==
  ASSUME EngineInvariant, NEW r \in Buffers, NEW c, NEW x, Sound(c),
         x # Lost => Followed(c, x), Kernel(r, c, x)
  PROVE  EngineInvariant'
<1>1. Content(c, x)
  BY SoundKnown DEF Content, EngineInvariant
<1>2. ops + 1 \in 0..MaxOps
  BY MaxOpsAssumption DEF EngineInvariant, Kernel
<1>3. QED
  BY <1>1, <1>2, WriteKeepsContents DEF Kernel

LEMMA EncryptKeepsContents ==
  ASSUME EngineInvariant, NEW b \in Buffers, NEW c, NEW x, NEW kind, Good(c, x, kind),
         Encrypt(b, c, x)
  PROVE  EngineInvariant'
<1>1. PICK y : y = Outcome(x, c.encoding)
  OBVIOUS
<1>2. y # Lost => Followed(c, y)
  BY <1>1, OutcomeFollowed DEF Good, EngineInvariant
<1>3. Content(c, y)
  BY <1>2, SoundKnown DEF Content, Good, EngineInvariant
<1>4. QED
  BY <1>1, <1>3, WriteKeepsContents DEF Encrypt, EngineInvariant

LEMMA EngineInitial == Init => EngineInvariant
BY MaxOpsAssumption DEF Init, EngineInvariant, Content

LEMMA Contents ==
  ASSUME EngineInvariant, NEW b \in Buffers
  PROVE  /\ params \in Parameters
         /\ Encrypted(b) => Sound(cipher[b])
         /\ Follows(b) => Encrypted(b) /\ Followed(cipher[b], exact[b])
BY DEF EngineInvariant, Content, Encrypted, Follows

(* One lemma for each kernel.                                               *)
LEMMA NegateKeeps ==
  ASSUME EngineInvariant, NEW r \in Buffers, NEW a \in Buffers, Negate(r, a)
  PROVE  EngineInvariant'
<1>1. params \in Parameters /\ Sound(cipher[a])
  BY Contents DEF Negate
<1>2. PICK c : c = cipher[a]
  OBVIOUS
<1>3. PICK x : x = exact[a]
  OBVIOUS
<1>4. PICK y : y = If(Follows(a), Outcome([x EXCEPT !.num = -@], c.encoding))
  OBVIOUS
<1>5. Kernel(r, Negated(c), y)
  BY <1>2, <1>3, <1>4 DEF Negate
<1>6. Sound(Negated(c))
  BY <1>1, <1>2, NegatedSound
<1>7. ASSUME y # Lost PROVE Followed(Negated(c), y)
  <2>1. Follows(a) /\ y = Outcome([x EXCEPT !.num = -@], c.encoding)
    BY <1>4, <1>7 DEF If
  <2>2. Followed(c, x)
    BY <1>2, <1>3, <2>1, Contents
  <2>3. PICK z : z = [x EXCEPT !.num = -@]
    OBVIOUS
  <2>4. Close(Negated(c), z)
    BY <1>1, <1>2, <2>2, <2>3, NegatedClose DEF Followed
  <2>5. Negated(c).encoding = c.encoding
    BY DEF Negated, Ciphertext
  <2>6. QED
    BY <1>1, <1>6, <1>7, <2>1, <2>3, <2>4, <2>5, OutcomeFollowed
<1>8. QED
  BY <1>5, <1>6, <1>7, KernelKeepsContents

LEMMA AddCCKeeps ==
  ASSUME EngineInvariant, NEW r \in Buffers, NEW a \in Buffers, NEW b \in Buffers,
         AddCC(r, a, b)
  PROVE  EngineInvariant'
<1>1. params \in Parameters /\ Sound(cipher[a]) /\ Sound(cipher[b])
  BY Contents DEF AddCC
<1>2. PICK c : c = cipher[a]
  OBVIOUS
<1>3. PICK d : d = cipher[b]
  OBVIOUS
<1>4. PICK x : x = exact[a]
  OBVIOUS
<1>5. PICK y : y = exact[b]
  OBVIOUS
<1>6. PICK z : z = If(Follows(a) /\ Follows(b), Sum(x, c, y, d))
  OBVIOUS
<1>7. Kernel(r, Add(c, d), z)
  BY <1>2, <1>3, <1>4, <1>5, <1>6 DEF AddCC
<1>8. Sound(Add(c, d))
  BY <1>1, <1>2, <1>3, AddSound
<1>9. ASSUME z # Lost PROVE Followed(Add(c, d), z)
  <2>1. Follows(a) /\ Follows(b) /\ z = Sum(x, c, y, d)
    BY <1>6, <1>9 DEF If
  <2>2. Followed(c, x) /\ Followed(d, y)
    BY <1>2, <1>3, <1>4, <1>5, <2>1, Contents
  <2>3. QED
    BY <1>1, <1>2, <1>3, <1>9, <2>1, <2>2, SumFollowed DEF Followed
<1>10. QED
  BY <1>7, <1>8, <1>9, KernelKeepsContents

LEMMA SubCCKeeps ==
  ASSUME EngineInvariant, NEW r \in Buffers, NEW a \in Buffers, NEW b \in Buffers,
         SubCC(r, a, b)
  PROVE  EngineInvariant'
<1>1. params \in Parameters /\ Sound(cipher[a]) /\ Sound(cipher[b])
  BY Contents DEF SubCC
<1>2. PICK c : c = cipher[a]
  OBVIOUS
<1>3. PICK d : d = cipher[b]
  OBVIOUS
<1>4. PICK n : n = Negated(d)
  OBVIOUS
<1>5. PICK x : x = exact[a]
  OBVIOUS
<1>6. PICK y : y = [exact[b] EXCEPT !.num = -@]
  OBVIOUS
<1>7. PICK z : z = If(Follows(a) /\ Follows(b), Sum(x, c, y, d))
  OBVIOUS
<1>8. Kernel(r, Add(c, n), z)
  BY <1>2, <1>3, <1>4, <1>5, <1>6, <1>7 DEF SubCC
<1>9. Sound(n) /\ n.encoding = d.encoding
  BY <1>1, <1>3, <1>4, NegatedSound
<1>10. Sound(Add(c, n))
  BY <1>1, <1>2, <1>9, AddSound
<1>11. ASSUME z # Lost PROVE Followed(Add(c, n), z)
  <2>1. Follows(a) /\ Follows(b) /\ z = Sum(x, c, y, d)
    BY <1>7, <1>11 DEF If
  <2>2. Followed(c, x) /\ Followed(d, exact[b])
    BY <1>2, <1>3, <1>5, <2>1, Contents
  <2>3. Close(c, x) /\ Close(n, y)
    <3>1. PICK w : w = exact[b]
      OBVIOUS
    <3>2. QED
      BY <1>1, <1>3, <1>4, <1>6, <2>2, <3>1, NegatedClose DEF Followed
  <2>4. Sum(x, c, y, d) = Sum(x, c, y, n)
    BY <1>9 DEF Sum, Joint, Lifted, IsFixed
  <2>5. QED
    BY <1>1, <1>2, <1>9, <1>11, <2>1, <2>3, <2>4, SumFollowed
<1>12. QED
  BY <1>8, <1>10, <1>11, KernelKeepsContents

LEMMA MultCCKeeps ==
  ASSUME EngineInvariant, NEW r \in Buffers, NEW a \in Buffers, NEW b \in Buffers,
         MultCC(r, a, b)
  PROVE  EngineInvariant'
<1>1. params \in Parameters /\ Sound(cipher[a]) /\ Sound(cipher[b])
  BY Contents DEF MultCC
<1>2. PICK c : c = cipher[a]
  OBVIOUS
<1>3. PICK d : d = cipher[b]
  OBVIOUS
<1>4. PICK x : x = exact[a]
  OBVIOUS
<1>5. PICK y : y = exact[b]
  OBVIOUS
<1>6. PICK z : z = If(Follows(a) /\ Follows(b), Product(x, c, y, d))
  OBVIOUS
<1>7. PICK e \in Noise : Kernel(r, Multiply(c, d, e), z)
  BY <1>2, <1>3, <1>4, <1>5, <1>6 DEF MultCC
<1>8. Sound(Multiply(c, d, e))
  BY <1>1, <1>2, <1>3, MultiplySound
<1>9. ASSUME z # Lost PROVE Followed(Multiply(c, d, e), z)
  <2>1. Follows(a) /\ Follows(b) /\ z = Product(x, c, y, d)
    BY <1>6, <1>9 DEF If
  <2>2. Followed(c, x) /\ Followed(d, y)
    BY <1>2, <1>3, <1>4, <1>5, <2>1, Contents
  <2>3. QED
    BY <1>1, <1>2, <1>3, <1>9, <2>1, <2>2, MultiplyGood
<1>10. QED
  BY <1>7, <1>8, <1>9, KernelKeepsContents

LEMMA AddCSKeeps ==
  ASSUME EngineInvariant, NEW r \in Buffers, NEW a \in Buffers, AddCS(r, a)
  PROVE  EngineInvariant'
<1>1. params \in Parameters /\ Sound(cipher[a])
  BY Contents DEF AddCS
<1>2. PICK c : c = cipher[a]
  OBVIOUS
<1>3. PICK x : x = exact[a]
  OBVIOUS
<1>4. PICK s \in Int : Kernel(r, AddPlain(c, s), If(Follows(a), SumPlain(x, c, s)))
  BY <1>2, <1>3, DataAssumption DEF AddCS
<1>5. PICK z : z = If(Follows(a), SumPlain(x, c, s))
  OBVIOUS
<1>6. Sound(AddPlain(c, s))
  BY <1>1, <1>2, AddPlainSound
<1>7. ASSUME z # Lost PROVE Followed(AddPlain(c, s), z)
  <2>1. Follows(a) /\ z = SumPlain(x, c, s)
    BY <1>5, <1>7 DEF If
  <2>2. Close(c, x)
    BY <1>2, <1>3, <2>1, Contents DEF Followed
  <2>3. QED
    BY <1>1, <1>2, <1>7, <2>1, <2>2, AddPlainGood
<1>8. QED
  BY <1>4, <1>5, <1>6, <1>7, KernelKeepsContents

LEMMA MultCSKeeps ==
  ASSUME EngineInvariant, NEW r \in Buffers, NEW a \in Buffers, MultCS(r, a)
  PROVE  EngineInvariant'
<1>1. params \in Parameters /\ Sound(cipher[a])
  BY Contents DEF MultCS
<1>2. PICK c : c = cipher[a]
  OBVIOUS
<1>3. PICK x : x = exact[a]
  OBVIOUS
<1>4. PICK s \in Int, e \in Noise :
        Kernel(r, MultiplyPlain(c, s, e), If(Follows(a), ProductPlain(x, c, s)))
  BY <1>2, <1>3, DataAssumption DEF MultCS
<1>5. PICK z : z = If(Follows(a), ProductPlain(x, c, s))
  OBVIOUS
<1>6. Sound(MultiplyPlain(c, s, e))
  BY <1>1, <1>2, MultiplyPlainSound
<1>7. ASSUME z # Lost PROVE Followed(MultiplyPlain(c, s, e), z)
  <2>1. Follows(a) /\ z = ProductPlain(x, c, s)
    BY <1>5, <1>7 DEF If
  <2>2. Close(c, x)
    BY <1>2, <1>3, <2>1, Contents DEF Followed
  <2>3. QED
    BY <1>1, <1>2, <1>7, <2>1, <2>2, MultiplyPlainGood
<1>8. QED
  BY <1>4, <1>5, <1>6, <1>7, KernelKeepsContents

LEMMA EncryptionKeeps ==
  ASSUME EngineInvariant, NEW b \in Buffers, EncryptInt64(b) \/ EncryptDouble(b)
  PROVE  EngineInvariant'
<1>1. params \in Parameters
  BY DEF EngineInvariant
<1>2. CASE EncryptInt64(b)
  <2>1. PICK m \in Int, e \in Noise :
          Encrypt(b, EncryptEncoded(m, 0, "Integer", e), Known(m, 1, params.noise_bound))
    BY <1>2, DataAssumption DEF EncryptInt64
  <2>2. QED
    BY <1>1, <2>1, EncryptInt64Good, EncryptKeepsContents
<1>3. CASE EncryptDouble(b)
  <2>1. PICK v \in Int, e \in Noise :
          Encrypt(b, EncryptEncoded(Nearest(v * scale, Unit), 1, "FixedPoint", e),
                  Known(v, Unit, Rounding(v) + params.noise_bound))
    BY <1>3, DataAssumption DEF EncryptDouble
  <2>2. QED
    BY <1>1, <2>1, EncryptDoubleGood, EncryptKeepsContents
<1>4. QED
  BY <1>2, <1>3

LEMMA EngineInductive == EngineInvariant /\ [Next]_toyVars => EngineInvariant'
<1>1. SUFFICES ASSUME EngineInvariant, [Next]_toyVars PROVE EngineInvariant'
  OBVIOUS
<1>2. CASE UNCHANGED toyVars
  BY <1>1, <1>2 DEF toyVars, EngineInvariant, Content, Sound, Disciplined, Followed, Close,
     Decodes, ScaleOf, ScaleFactor, InRange, Ideal, IsFixed, delta, q, t, scale
<1>3. CASE Next
  BY <1>1, <1>3, EncryptionKeeps, NegateKeeps, AddCSKeeps, MultCSKeeps, AddCCKeeps,
     SubCCKeeps, MultCCKeeps DEF Next
<1>4. QED
  BY <1>1, <1>2, <1>3

-----------------------------------------------------------------------------
(* What follows from it.  The centred error is the least of all.            *)
LEMMA CloseBounded ==
  ASSUME params \in Parameters, NEW c, Sound(c), NEW x, Close(c, x)
  PROVE  Magnitude(CenteredMod(c.raw * x.den - Ideal(x, c.scale_power), q * x.den))
           <= x.noise * x.den
<1>1. c.raw \in Int /\ c.scale_power \in Nat /\ x \in Estimate
  BY ParameterFacts DEF Sound, Close
<1>2. PICK r \in Int : r = c.raw
  BY <1>1
<1>3. PICK den \in Nat, num \in Int : den = x.den /\ num = x.num /\ den > 0
  BY <1>1 DEF Estimate
<1>4. PICK m \in Nat : m = q /\ m > 0
  BY ParameterFacts
<1>5. PICK v \in Int : v = Ideal(x, c.scale_power) /\ v = ScaleOf(c.scale_power) * num
  BY <1>1, <1>3, IdealFacts
<1>6. PICK k \in Int : Magnitude(r * den - v - k * (m * den)) <= x.noise * den
  BY <1>2, <1>3, <1>4, <1>5 DEF Close, Decodes, Within
<1>7. PICK w \in Nat : w = m * den /\ w > 0
  BY <1>3, <1>4
<1>8. PICK a \in Int : a = r * den - v
  OBVIOUS
<1>9. Magnitude(CenteredMod(a, w)) <= Magnitude(a + (-k) * w)
  <2>1. -k \in Int
    OBVIOUS
  <2>2. QED
    BY <1>7, <2>1, CenteredLeast
<1>10. a + (-k) * w = a - k * w
  OBVIOUS
<1>11. Magnitude(a - k * w) <= x.noise * den
  BY <1>6, <1>7, <1>8
<1>12. Magnitude(CenteredMod(a, w)) <= x.noise * den
  <2>1. PICK o \in Int : o = CenteredMod(a, w)
    BY <1>7, CenteredFacts
  <2>2. PICK p \in Int : p = a - k * w
    OBVIOUS
  <2>3. PICK top \in Int : top = x.noise * den
    <3>1. x.noise \in Int
      BY <1>1 DEF Estimate
    <3>2. QED
      BY <3>1
  <2>4. Magnitude(o) \in Int /\ Magnitude(p) \in Int
    BY MagnitudeFacts
  <2>5. QED
    BY <1>9, <1>10, <1>11, <2>1, <2>2, <2>3, <2>4
<1>13. QED
  BY <1>2, <1>3, <1>4, <1>5, <1>7, <1>8, <1>12

(* An integer comes out exactly.                                            *)
LEMMA WholeDecrypts ==
  ASSUME params \in Parameters, NEW c, Sound(c), NEW x, Followed(c, x), ~IsFixed(c)
  PROVE  DecryptInt(c) = x.num
<1>1. /\ Close(c, x) /\ x.den = 1 /\ c.scale_power = 0 /\ c.raw \in Int
      /\ 2 * x.noise < delta /\ -t < 2 * x.num /\ 2 * x.num <= t
  BY ParameterFacts DEF Followed, Close, Sound, Disciplined
<1>2. PICK num \in Int, noise \in Nat, r \in Int : num = x.num /\ noise = x.noise /\ r = c.raw
  BY <1>1 DEF Close, Estimate
<1>3. PICK g \in Nat : g = delta /\ g > 0
  BY ParameterFacts
<1>4. PICK u \in Nat : u = t /\ u > 0
  BY ParameterFacts
<1>5. PICK m \in Nat : m = q /\ m = g * u
  BY <1>3, <1>4, ParameterFacts
<1>6. PICK k \in Int : Magnitude(r * 1 - g * num - k * (m * 1)) <= noise * 1
  BY <1>1, <1>2, <1>3, <1>5, ScaleFacts DEF Close, Decodes, Within
<1>7. PICK n \in Int : n = Nearest(r, g) /\ 2 * Magnitude(n * g - r) <= g
  BY <1>3, NearestFacts
<1>8. PICK v \in Int, w \in Int, z \in Int : v = g * num /\ w = n * g /\ z = k * m
  OBVIOUS
<1>9. Magnitude(r - v - z) <= noise /\ 2 * Magnitude(w - r) <= g /\ 2 * noise < g
  BY <1>1, <1>2, <1>3, <1>6, <1>7, <1>8
<1>10. -g < w - v - z /\ w - v - z < g
  BY <1>9 DEF Magnitude
<1>11. PICK i \in Int : i = n - num - k * u
  OBVIOUS
<1>12. w - v - z = g * i
  BY <1>5, <1>8, <1>11
<1>13. i = 0
  <2>1. ~(i >= 1)
    <3>1. SUFFICES ASSUME i >= 1 PROVE FALSE
      OBVIOUS
    <3>2. g * i >= g
      BY <3>1
    <3>3. QED
      BY <1>10, <1>12, <3>2
  <2>2. ~(i <= -1)
    <3>1. SUFFICES ASSUME i <= -1 PROVE FALSE
      OBVIOUS
    <3>2. g * i <= -g
      BY <3>1
    <3>3. QED
      BY <1>10, <1>12, <3>2
  <2>3. QED
    BY <2>1, <2>2
<1>14. num = n + (-k) * u /\ -k \in Int
  BY <1>11, <1>13
<1>15. CenteredMod(n, u) = num
  <2>1. -u < 2 * num /\ 2 * num <= u
    BY <1>1, <1>2, <1>4
  <2>2. QED
    BY <1>4, <1>14, <2>1, CenteredOnly
<1>16. QED
  BY <1>2, <1>3, <1>4, <1>7, <1>15 DEF DecryptInt

(* A fixed-point number comes out within its noise and half a unit.         *)
LEMMA FixedDecrypts ==
  ASSUME params \in Parameters, NEW c, Sound(c), NEW x, Followed(c, x), IsFixed(c)
  PROVE  2 * delta * Magnitude(DecryptInt(c) * x.den - scale * x.num)
           <= (2 * x.noise + delta) * x.den
<1>1. Close(c, x) /\ c.scale_power = 1 /\ c.raw \in Int /\ InRange(x, 1) /\ x \in Estimate
  BY ParameterFacts DEF Followed, Close, Sound, Disciplined
<1>2. PICK num \in Int, den \in Nat, noise \in Nat :
        num = x.num /\ den = x.den /\ noise = x.noise /\ den > 0
  BY <1>1 DEF Estimate
<1>3. PICK r \in Int : r = c.raw
  BY <1>1
<1>4. PICK g \in Nat : g = delta /\ g > 0
  BY ParameterFacts
<1>5. PICK u \in Nat : u = t /\ u > 0
  BY ParameterFacts
<1>6. PICK m \in Nat : m = q /\ m = g * u /\ m > 0
  BY <1>4, <1>5, ParameterFacts
<1>7. PICK sc \in Nat : sc = scale
  BY ParameterFacts
<1>8. PICK v \in Int : v = (g * sc) * num /\ v = Ideal(x, 1)
  <2>1. ScaleOf(1) = g * sc
    BY <1>4, <1>7, ScaleFacts
  <2>2. Ideal(x, 1) = ScaleOf(1) * x.num
    BY <1>1, IdealFacts
  <2>3. (g * sc) * num \in Int
    OBVIOUS
  <2>4. QED
    BY <1>2, <2>1, <2>2, <2>3
<1>9. PICK k \in Int : Magnitude(r * den - v - k * (m * den)) <= noise * den
  <2>1. Within(q, c.raw, ScaleOf(1), x.num, x.den, x.noise)
    BY <1>1 DEF Close, Decodes
  <2>2. ScaleOf(1) = g * sc
    BY <1>4, <1>7, ScaleFacts
  <2>3. Within(m, r, g * sc, num, den, noise)
    BY <1>2, <1>3, <1>6, <2>1, <2>2
  <2>4. QED
    BY <1>8, <2>3 DEF Within
<1>10. PICK n \in Int : n = Nearest(r, g) /\ 2 * Magnitude(n * g - r) <= g
  BY <1>4, NearestFacts
<1>11. PICK i \in Int : i = CenteredMod(n, u) /\ -u < 2 * i /\ 2 * i <= u
  BY <1>5, CenteredFacts
<1>12. PICK j \in Int : i = n + j * u
  BY <1>5, <1>11, CenteredFacts
<1>13. PICK w \in Nat, gd \in Nat, top \in Nat : w = m * den /\ gd = g * den /\ top = noise * den
  OBVIOUS
<1>14. PICK a \in Int : a = r * den - v - k * w
  OBVIOUS
<1>15. PICK b \in Int : b = (n * g - r) * den
  OBVIOUS
<1>16. PICK z \in Int : z = (j + k) * w
  OBVIOUS
<1>17. PICK p \in Int : p = g * i * den
  OBVIOUS
<1>18. p - v = a + b + z
  <2>1. p = n * g * den + j * w
    <3>1. p = g * (n + j * u) * den
      BY <1>12, <1>17
    <3>2. g * (n + j * u) * den = n * g * den + j * ((g * u) * den)
      OBVIOUS
    <3>3. (g * u) * den = w
      BY <1>6, <1>13
    <3>4. QED
      BY <3>1, <3>2, <3>3
  <2>2. b = n * g * den - r * den
    BY <1>15
  <2>3. z = j * w + k * w
    BY <1>16
  <2>4. QED
    BY <1>14, <2>1, <2>2, <2>3
<1>19. Magnitude(a) <= top
  BY <1>9, <1>13, <1>14
<1>20. 2 * Magnitude(b) <= gd
  <2>1. PICK o \in Int : o = n * g - r
    OBVIOUS
  <2>2. PICK mo \in Nat : mo = Magnitude(o)
    BY MagnitudeFacts
  <2>3. Magnitude(b) = mo * den
    <3>1. b = o * den
      BY <1>15, <2>1
    <3>2. QED
      BY <2>2, <3>1, MagnitudeTimes
  <2>4. (2 * mo) * den <= g * den
    <3>1. 2 * mo <= g
      BY <1>10, <2>1, <2>2
    <3>2. QED
      BY <3>1
  <2>5. QED
    BY <1>13, <2>3, <2>4
<1>21. 2 * (Magnitude(v) + top) + gd < w
  BY <1>1, <1>2, <1>4, <1>6, <1>8, <1>13 DEF InRange
<1>22. -w <= 2 * p /\ 2 * p <= w
  <2>1. (2 * i) * gd <= u * gd /\ (-u) * gd <= (2 * i) * gd
    BY <1>11
  <2>2. (2 * i) * gd = 2 * p /\ u * gd = w /\ (-u) * gd = -w
    <3>1. (2 * i) * gd = 2 * p
      BY <1>13, <1>17
    <3>2. u * gd = w
      BY <1>6, <1>13
    <3>3. QED
      BY <3>1, <3>2
  <2>3. QED
    BY <2>1, <2>2
<1>23. -w < z /\ z < w
  BY <1>18, <1>19, <1>20, <1>21, <1>22 DEF Magnitude
<1>24. z = 0
  <2>1. PICK l \in Int : l = j + k
    OBVIOUS
  <2>2. ~(l >= 1)
    <3>1. SUFFICES ASSUME l >= 1 PROVE FALSE
      OBVIOUS
    <3>2. l * w >= w
      BY <3>1
    <3>3. QED
      BY <1>16, <1>23, <2>1, <3>2
  <2>3. ~(l <= -1)
    <3>1. SUFFICES ASSUME l <= -1 PROVE FALSE
      OBVIOUS
    <3>2. l * w <= -w
      BY <3>1
    <3>3. QED
      BY <1>16, <1>23, <2>1, <3>2
  <2>4. l = 0
    BY <2>2, <2>3
  <2>5. QED
    BY <1>16, <2>1, <2>4
<1>25. 2 * Magnitude(p - v) <= 2 * top + gd
  BY <1>18, <1>19, <1>20, <1>24 DEF Magnitude
<1>26. PICK d \in Int : d = i * den - sc * num
  OBVIOUS
<1>27. p - v = g * d
  BY <1>8, <1>17, <1>26
<1>28. PICK md \in Nat : md = Magnitude(d)
  BY MagnitudeFacts
<1>29. Magnitude(p - v) = g * md
  <2>1. Magnitude(d * g) = Magnitude(d) * g
    BY MagnitudeTimes
  <2>2. p - v = d * g
    BY <1>27
  <2>3. QED
    BY <1>28, <2>1, <2>2
<1>30. 2 * g * md <= (2 * noise + g) * den
  <2>1. (2 * noise + g) * den = 2 * top + gd
    BY <1>13
  <2>2. 2 * g * md = 2 * (g * md)
    OBVIOUS
  <2>3. QED
    BY <1>25, <1>29, <2>1, <2>2
<1>31. DecryptInt(c) = i
  BY <1>3, <1>4, <1>5, <1>10, <1>11 DEF DecryptInt
<1>32. QED
  BY <1>2, <1>4, <1>7, <1>26, <1>28, <1>30, <1>31

-----------------------------------------------------------------------------
LEMMA EngineSafe ==
  ASSUME EngineInvariant
  PROVE  TypeOK /\ ScaleDiscipline /\ NoiseBounded /\ DecryptsRight
<1>1. params \in Parameters
  BY DEF EngineInvariant
<1>2. TypeOK
  <2>1. params \in Parameters /\ ops \in 0..MaxOps
    BY DEF EngineInvariant
  <2>2. ASSUME NEW b \in Buffers, Encrypted(b)
        PROVE  cipher[b] \in [raw : 0..(q - 1), scale_power : Nat,
                              encoding : {"Integer", "FixedPoint"}]
    BY <2>2, Contents DEF Sound
  <2>3. ASSUME NEW b \in Buffers, Follows(b)
        PROVE  Encrypted(b) /\ exact[b].noise \in Nat
    BY <2>3, Contents DEF Followed, Close, Estimate
  <2>4. QED
    BY <2>1, <2>2, <2>3 DEF TypeOK
<1>3. ScaleDiscipline
  BY Contents DEF ScaleDiscipline, Sound, Disciplined
<1>4. NoiseBounded
  <2>1. SUFFICES ASSUME NEW b \in Buffers, Follows(b)
                 PROVE  Magnitude(CenteredMod(cipher[b].raw * exact[b].den
                                                - Ideal(exact[b], cipher[b].scale_power),
                                              q * exact[b].den))
                          <= exact[b].noise * exact[b].den
    BY DEF NoiseBounded
  <2>2. PICK c : c = cipher[b]
    OBVIOUS
  <2>3. PICK x : x = exact[b]
    OBVIOUS
  <2>4. Sound(c) /\ Close(c, x)
    BY <2>1, <2>2, <2>3, Contents DEF Followed
  <2>5. QED
    BY <1>1, <2>2, <2>3, <2>4, CloseBounded
<1>5. DecryptsRight
  <2>1. SUFFICES ASSUME NEW b \in Buffers, Follows(b)
                 PROVE  IF IsFixed(cipher[b])
                          THEN 2 * delta * Magnitude(DecryptInt(cipher[b]) * exact[b].den
                                                       - scale * exact[b].num)
                                 <= (2 * exact[b].noise + delta) * exact[b].den
                          ELSE DecryptInt(cipher[b]) = exact[b].num
    BY DEF DecryptsRight
  <2>2. PICK c : c = cipher[b]
    OBVIOUS
  <2>3. PICK x : x = exact[b]
    OBVIOUS
  <2>4. Sound(c) /\ Followed(c, x)
    BY <2>1, <2>2, <2>3, Contents
  <2>5. CASE IsFixed(c)
    BY <1>1, <2>2, <2>3, <2>4, <2>5, FixedDecrypts
  <2>6. CASE ~IsFixed(c)
    BY <1>1, <2>2, <2>3, <2>4, <2>6, WholeDecrypts
  <2>7. QED
    BY <2>2, <2>5, <2>6
<1>6. QED
  BY <1>2, <1>3, <1>4, <1>5

(* Every variable keeps its type: a raw value is reduced modulo q and noise *)
(* is a natural number, whatever is computed.                               *)
THEOREM ToyTypeCorrect == Spec => []TypeOK
BY EngineInitial, EngineInductive, EngineSafe, PTL DEF Spec

(* "Every public path keeps scale_power <= 1, so the divisor fits in 64    *)
(* bits" (ToyFHE.cpp:183-184), whatever the moduli, the scale and the      *)
(* sequence of kernel calls.                                               *)
THEOREM ScaleDisciplineHolds == Spec => []ScaleDiscipline
BY EngineInitial, EngineInductive, EngineSafe, PTL DEF Spec

(* Along any chain of kernel calls, however long, the error of a result     *)
(* stays within the sum of what each operation adds (ToyFHE.h:15-21): a     *)
(* product adds each message times the noise of the other, its rounding and *)
(* fresh noise, aligning multiplies by the scale.                           *)
THEOREM NoiseBoundedHolds == Spec => []NoiseBounded
BY EngineInitial, EngineInductive, EngineSafe, PTL DEF Spec

(* As long as the numbers are in range decryption is right: integers come   *)
(* out exactly, with their sign, and fixed-point numbers within their noise *)
(* and half a unit of the encoding (ToyFHE.cpp:262-280).                    *)
THEOREM DecryptsRightHolds == Spec => []DecryptsRight
BY EngineInitial, EngineInductive, EngineSafe, PTL DEF Spec

-----------------------------------------------------------------------------
(* The GPU backend.                                                         *)

Complex == Int \X Int

(* What a ciphertext packs and a message stages: at least one slot.         *)
SlotVector == Seq(Complex) \ {<< >>}

Ciphertexts ==
  [np : Int, power : Int, values : SlotVector, product : BOOLEAN, known : BOOLEAN]

(* Nothing makes a Plaintext, so the kernels that want one always refuse.   *)
FhnBuffers ==
  [kind : Kinds \ {"Plaintext"}, ct : Ciphertexts, msg : SlotVector \cup {<< >>}]

CheddarInvariant ==
  /\ buffers \in [Handles -> FhnBuffers]
  /\ \A h \in Handles : buffers[h].kind = "Message" => buffers[h].msg # << >>
  /\ prepared \subseteq 1..(HalfDegree - 1)
  /\ exited # "asserted"

-----------------------------------------------------------------------------
(* Vectors.                                                                *)
LEMMA SlotVectorFacts ==
  ASSUME NEW v \in SlotVector
  PROVE  /\ Len(v) \in Nat \ {0}
         /\ DOMAIN v = 1..Len(v)
         /\ \A i \in 1..Len(v) : v[i] \in Complex
  BY EmptySeq, LenProperties, ElementOfSeq DEF SlotVector

LEMMA BuiltVector ==
  ASSUME NEW n \in Nat \ {0}, NEW v \in [1..n -> Complex]
  PROVE  v \in SlotVector
<1>1. v \in Seq(Complex)
  BY SeqDef
<1>2. v # << >>
  <2>1. DOMAIN v = 1..n
    OBVIOUS
  <2>2. 1 \in DOMAIN v
    BY <2>1
  <2>3. 1 \notin DOMAIN << >>
    OBVIOUS
  <2> QED BY <2>2, <2>3
<1> QED BY <1>1, <1>2 DEF SlotVector

LEMMA Remainder ==
  ASSUME NEW d \in Int, NEW n \in Nat \ {0}
  PROVE  Normalized(d, n) \in 0..(n - 1)
  BY DEF Normalized

LEMMA SlotType ==
  ASSUME NEW v \in SlotVector, NEW i \in Int
  PROVE  Slot(v, i) \in Complex
<1>1. (i - 1) % Len(v) \in 0..(Len(v) - 1)
  BY SlotVectorFacts
<1>2. 1 + ((i - 1) % Len(v)) \in 1..Len(v)
  BY <1>1, SlotVectorFacts
<1> QED BY <1>2, SlotVectorFacts DEF Slot

LEMMA WidestType ==
  ASSUME NEW v \in SlotVector, NEW w \in SlotVector
  PROVE  Widest(v, w) \in Nat \ {0}
BY SlotVectorFacts DEF Widest

LEMMA ComplexTypes ==
  ASSUME NEW u \in Complex, NEW w \in Complex
  PROVE  /\ ComplexSum(u, w) \in Complex
         /\ ComplexDifference(u, w) \in Complex
         /\ ComplexProduct(u, w) \in Complex
         /\ Conjugate(u) \in Complex
<1>1. u[1] \in Int /\ u[2] \in Int /\ w[1] \in Int /\ w[2] \in Int
  BY DEF Complex
<1>2. u[1] * w[1] - u[2] * w[2] \in Int /\ u[1] * w[2] + u[2] * w[1] \in Int
  <2>1. u[1] * w[1] \in Int /\ u[2] * w[2] \in Int /\ u[1] * w[2] \in Int /\ u[2] * w[1] \in Int
    BY <1>1
  <2> QED BY <2>1
<1> QED BY <1>1, <1>2 DEF Complex, ComplexSum, ComplexDifference, ComplexProduct, Conjugate

LEMMA RealType ==
  ASSUME NEW s \in Int
  PROVE  <<Real(s)>> \in SlotVector
<1>1. Real(s) \in Complex
  BY DEF Real, Complex
<1>2. <<Real(s)>> \in Seq(Complex) /\ <<Real(s)>> # << >>
  BY <1>1
<1> QED BY <1>2 DEF SlotVector

LEMMA SlotwiseTypes ==
  ASSUME NEW v \in SlotVector, NEW w \in SlotVector
  PROVE  /\ Slotwise(ComplexSum, v, w) \in SlotVector
         /\ Slotwise(ComplexDifference, v, w) \in SlotVector
         /\ Slotwise(ComplexProduct, v, w) \in SlotVector
<1> DEFINE n == Widest(v, w)
<1>1. n \in Nat \ {0}
  BY WidestType
<1>2. \A i \in 1..n : Slot(v, i) \in Complex /\ Slot(w, i) \in Complex
  BY <1>1, SlotType
<1>3. [i \in 1..n |-> ComplexSum(Slot(v, i), Slot(w, i))] \in [1..n -> Complex]
  BY <1>2, ComplexTypes
<1>4. [i \in 1..n |-> ComplexDifference(Slot(v, i), Slot(w, i))] \in [1..n -> Complex]
  BY <1>2, ComplexTypes
<1>5. [i \in 1..n |-> ComplexProduct(Slot(v, i), Slot(w, i))] \in [1..n -> Complex]
  BY <1>2, ComplexTypes
<1> QED BY <1>1, <1>3, <1>4, <1>5, BuiltVector DEF Slotwise

LEMMA MovedTypes ==
  ASSUME NEW v \in SlotVector, NEW d \in Int, NEW n \in Nat \ {0}
  PROVE  /\ Rotated(v, d) \in SlotVector
         /\ Conjugated(v) \in SlotVector
         /\ Spread(v, n) \in SlotVector
<1>1. Len(v) \in Nat \ {0} /\ DOMAIN v = 1..Len(v)
  BY SlotVectorFacts
<1>2. Rotated(v, d) \in [1..Len(v) -> Complex]
  BY <1>1, SlotType DEF Rotated
<1>3. Conjugated(v) \in [1..Len(v) -> Complex]
  BY <1>1, SlotVectorFacts, ComplexTypes DEF Conjugated
<1>4. Spread(v, n) \in [1..n -> Complex]
  BY SlotType DEF Spread
<1> QED BY <1>1, <1>2, <1>3, <1>4, BuiltVector

-----------------------------------------------------------------------------
(* What the library's operations return, of ciphertexts.                    *)
LEMMA FreshType ==
  ASSUME NEW v \in SlotVector, NEW np \in Int, NEW power \in Int
  PROVE  FreshCiphertext(np, power, v) \in Ciphertexts
BY DEF FreshCiphertext, Ciphertexts

(* Records with two components replaced.                                    *)
LEMMA ReplacedTypes ==
  ASSUME NEW c \in Ciphertexts, NEW v \in SlotVector, NEW np \in Int, NEW power \in Int
  PROVE  /\ [c EXCEPT !.values = v, !.power = power] \in Ciphertexts
         /\ [c EXCEPT !.np = np, !.power = power] \in Ciphertexts
<1> DEFINE d == [c EXCEPT !.values = v]
           e == [c EXCEPT !.np = np]
<1>1. d \in Ciphertexts /\ e \in Ciphertexts
  BY DEF Ciphertexts
<1>2. [d EXCEPT !.power = power] \in Ciphertexts /\ [e EXCEPT !.power = power] \in Ciphertexts
  <2> HIDE DEF d, e
  <2> QED BY <1>1 DEF Ciphertexts
<1> QED BY <1>2

LEMMA WrittenType ==
  ASSUME NEW b \in FhnBuffers, NEW c \in Ciphertexts
  PROVE  LET written == [b EXCEPT !.kind = "Ciphertext", !.ct = c] IN
           written \in FhnBuffers /\ written.kind = "Ciphertext"
<1> DEFINE d == [b EXCEPT !.ct = c]
           e == [b EXCEPT !.kind = "Ciphertext"]
<1>1. e \in FhnBuffers /\ e.kind = "Ciphertext"
  BY DEF FhnBuffers, Kinds
<1>2. [e EXCEPT !.ct = c] \in FhnBuffers /\ [e EXCEPT !.ct = c].kind = "Ciphertext"
  <2> HIDE DEF e
  <2> QED BY <1>1 DEF FhnBuffers
<1> QED BY <1>2

LEMMA StagedType ==
  ASSUME NEW b \in FhnBuffers, NEW v \in SlotVector
  PROVE  LET written == [b EXCEPT !.kind = "Message", !.msg = v] IN
           written \in FhnBuffers /\ written.msg # << >>
<1> DEFINE e == [b EXCEPT !.kind = "Message"]
<1>1. e \in FhnBuffers
  BY DEF FhnBuffers, Kinds
<1>2. [e EXCEPT !.msg = v] \in FhnBuffers /\ [e EXCEPT !.msg = v].msg # << >>
  <2> HIDE DEF e
  <2> QED BY <1>1 DEF FhnBuffers, SlotVector
<1> QED BY <1>2

LEMMA EmptyBufferType == EmptyBuffer \in FhnBuffers
<1>1. 0 \in Int
  OBVIOUS
<1>2. FreshCiphertext(0, 0, <<Real(0)>>) \in Ciphertexts
  BY <1>1, RealType, FreshType, Zenon
<1> QED BY <1>2 DEF EmptyBuffer, FhnBuffers, Kinds

LEMMA UnaryTypes ==
  ASSUME NEW c \in Ciphertexts, NEW s \in Int
  PROVE  /\ ContextNeg(c) \in Ciphertexts
         /\ AddScalar(c, s) \in Ciphertexts
         /\ MultScalar(c, s) \in Ciphertexts
         /\ ContextRelinearize(c) \in Ciphertexts
         /\ ContextRescale(c) \in Ciphertexts
         /\ ContextLevelDown(c, s) \in Ciphertexts
         /\ ContextHRot(c, s) \in Ciphertexts
         /\ ContextHConj(c) \in Ciphertexts
         /\ ContextMultKey(c) \in Ciphertexts
<1>1. c.values \in SlotVector
  BY DEF Ciphertexts
<1>2. <<Real(0)>> \in SlotVector /\ <<Real(s)>> \in SlotVector
  <2>1. 0 \in Int
    OBVIOUS
  <2> QED BY <2>1, RealType, Zenon
<1>3. /\ Slotwise(ComplexDifference, <<Real(0)>>, c.values) \in SlotVector
      /\ Slotwise(ComplexSum, c.values, <<Real(s)>>) \in SlotVector
      /\ Slotwise(ComplexProduct, c.values, <<Real(s)>>) \in SlotVector
  BY <1>1, <1>2, SlotwiseTypes
<1>4. Rotated(c.values, s) \in SlotVector /\ Conjugated(c.values) \in SlotVector
  BY <1>1, MovedTypes
<1>5. ContextNeg(c) \in Ciphertexts
  BY <1>3 DEF Ciphertexts, ContextNeg
<1>6. AddScalar(c, s) \in Ciphertexts
  BY <1>3 DEF Ciphertexts, AddScalar
<1>7. MultScalar(c, s) \in Ciphertexts
  <2>1. c.power + 1 \in Int
    BY DEF Ciphertexts
  <2> QED BY <1>3, <2>1, ReplacedTypes DEF MultScalar
<1>8. ContextRescale(c) \in Ciphertexts /\ ContextLevelDown(c, s) \in Ciphertexts
  <2>1. (IF c.np > 0 THEN c.np - 1 ELSE 0) \in Int /\ c.power - 1 \in Int
    BY DEF Ciphertexts
  <2>2. ContextRescale(c) \in Ciphertexts
    BY <1>1, <2>1, ReplacedTypes DEF ContextRescale
  <2>3. ContextLevelDown(c, s) \in Ciphertexts
    BY DEF Ciphertexts, ContextLevelDown
  <2> QED BY <2>2, <2>3
<1>9. ContextHRot(c, s) \in Ciphertexts
  BY <1>4 DEF Ciphertexts, ContextHRot
<1>10. ContextHConj(c) \in Ciphertexts
  BY <1>4 DEF Ciphertexts, ContextHConj
<1>11. ContextMultKey(c) \in Ciphertexts /\ ContextRelinearize(c) \in Ciphertexts
  BY DEF Ciphertexts, ContextMultKey, ContextRelinearize
<1> QED BY <1>5, <1>6, <1>7, <1>8, <1>9, <1>10, <1>11

LEMMA BinaryTypes ==
  ASSUME NEW c \in Ciphertexts, NEW d \in Ciphertexts, NEW dist \in Int
  PROVE  /\ ContextAdd(c, d) \in Ciphertexts
         /\ ContextSub(c, d) \in Ciphertexts
         /\ ContextMult(c, d) \in Ciphertexts
         /\ ContextHMult(c, d) \in Ciphertexts
         /\ ContextHRotAdd(c, d, dist) \in Ciphertexts
<1>1. \A a, b \in Ciphertexts :
        /\ ContextAdd(a, b) \in Ciphertexts
        /\ ContextSub(a, b) \in Ciphertexts
        /\ ContextMult(a, b) \in Ciphertexts
  <2> SUFFICES ASSUME NEW a \in Ciphertexts, NEW b \in Ciphertexts
               PROVE  /\ ContextAdd(a, b) \in Ciphertexts
                      /\ ContextSub(a, b) \in Ciphertexts
                      /\ ContextMult(a, b) \in Ciphertexts
    OBVIOUS
  <2>1. a.values \in SlotVector /\ b.values \in SlotVector
    BY DEF Ciphertexts
  <2>2. ContextAdd(a, b) \in Ciphertexts
    BY <2>1, SlotwiseTypes DEF ContextAdd, Joined, Ciphertexts
  <2>3. ContextSub(a, b) \in Ciphertexts
    BY <2>1, SlotwiseTypes DEF ContextSub, Joined, Ciphertexts
  <2>4. ContextMult(a, b) \in Ciphertexts
    <3> DEFINE joined == Joined(a, b, a.power + b.power, Slotwise(ComplexProduct, a.values, b.values))
    <3>1. joined \in Ciphertexts
      BY <2>1, SlotwiseTypes DEF Joined, Ciphertexts
    <3>2. ContextMult(a, b) = [joined EXCEPT !.product = TRUE]
      BY DEF ContextMult
    <3> HIDE DEF joined
    <3> QED BY <3>1, <3>2 DEF Ciphertexts
  <2> QED BY <2>2, <2>3, <2>4
<1> DEFINE spread == [c EXCEPT !.values = Spread(@, WidestOf(c, d))]
<1>2. WidestOf(c, d) \in Nat \ {0}
  BY WidestType DEF WidestOf, Ciphertexts
<1>3. Spread(c.values, WidestOf(c, d)) \in SlotVector
  BY <1>2, MovedTypes DEF Ciphertexts
<1>4. spread \in Ciphertexts
  BY <1>3 DEF Ciphertexts
<1>5. ContextHRot(spread, dist) \in Ciphertexts
  BY <1>4, UnaryTypes
<1>6. ContextHRotAdd(c, d, dist) \in Ciphertexts
  BY <1>1, <1>5 DEF ContextHRotAdd
<1>7. ContextHMult(c, d) \in Ciphertexts
  BY <1>1, UnaryTypes, 0 \in Int DEF ContextHMult
<1> QED BY <1>1, <1>6, <1>7

-----------------------------------------------------------------------------
(* A distance a kernel goes on with is 0 or has a key, and is the one the   *)
(* library reduces it to.                                                  *)
LEMMA DistanceHasKey ==
  ASSUME NEW n \in Int, NEW slots \in Nat \ {0},
         normalizeRotationDistance(n, slots) >= 0
  PROVE  LET dist == normalizeRotationDistance(n, slots) IN
           dist \in Int /\ (dist = 0 \/ KeyAsserted(dist, slots))
<1>1. Normalized(n, slots) \in 0..(slots - 1)
  BY Remainder
<1>2. Normalized(n, slots) \in prepared \cup {0}
  BY DEF normalizeRotationDistance
<1> QED BY <1>1, <1>2 DEF normalizeRotationDistance, KeyAsserted

LEMMA DistanceType ==
  ASSUME NEW n \in Int, NEW slots \in Nat \ {0}
  PROVE  normalizeRotationDistance(n, slots) \in -1..(slots - 1)
BY Remainder DEF normalizeRotationDistance

(* A kernel that accepts nothing its library call would assert, and returns *)
(* a ciphertext, keeps the invariant.                                      *)
LEMMA KernelKeepsInvariant ==
  ASSUME CheddarInvariant,
         NEW called, called.result \in Handles,
         NEW accepts \in BOOLEAN, NEW asserted \in BOOLEAN, NEW told \in BOOLEAN, NEW result,
         accepts => asserted /\ result \in Ciphertexts,
         CheddarKernel(called, accepts, asserted, told, result)
  PROVE  CheddarInvariant'
<1> DEFINE r == called.result
           left == [result EXCEPT !.known = @ /\ told]
           written == [buffers[r] EXCEPT !.kind = "Ciphertext", !.ct = left]
<1>1. prepared' \subseteq 1..(HalfDegree - 1)
  BY DEF CheddarKernel, CheddarInvariant
<1>2. exited' # "asserted"
  BY DEF CheddarKernel, CheddarInvariant
<1>3. CASE buffers' = buffers
  BY <1>1, <1>2, <1>3 DEF CheddarInvariant
<1>4. CASE accepts /\ buffers' = [buffers EXCEPT ![r] = written]
  <2>1. left \in Ciphertexts
    <3>1. (result.known /\ told) \in BOOLEAN
      OBVIOUS
    <3> QED BY <1>4, <3>1 DEF Ciphertexts
  <2> HIDE DEF left
  <2>2. written \in FhnBuffers /\ written.kind = "Ciphertext"
    BY <2>1, WrittenType DEF CheddarInvariant
  <2> HIDE DEF written
  <2>3. buffers' \in [Handles -> FhnBuffers]
    BY <1>4, <2>2 DEF CheddarInvariant
  <2>4. \A h \in Handles : buffers'[h].kind = "Message" => buffers'[h].msg # << >>
    BY <1>4, <2>2 DEF CheddarInvariant
  <2> QED BY <1>1, <1>2, <2>3, <2>4 DEF CheddarInvariant
<1>5. buffers' = buffers \/ (accepts /\ buffers' = [buffers EXCEPT ![r] = written])
  BY DEF CheddarKernel
<1> QED BY <1>3, <1>4, <1>5

LEMMA CiphertextOf ==
  ASSUME CheddarInvariant, NEW a \in Handles \cup {Nothing}, isCiphertext(a)
  PROVE  /\ ct(a) \in Ciphertexts
         /\ NumSlots(ct(a)) \in Nat \ {0}
<1>1. ct(a) \in Ciphertexts
  BY DEF CheddarInvariant, isCiphertext, ct, FhnBuffers
<1>2. ct(a).values \in SlotVector
  BY <1>1 DEF Ciphertexts
<1> QED BY <1>1, <1>2, SlotVectorFacts DEF NumSlots

LEMMA WidestOfCiphertexts ==
  ASSUME NEW c \in Ciphertexts, NEW d \in Ciphertexts
  PROVE  WidestOf(c, d) \in Nat \ {0}
BY WidestType DEF WidestOf, Ciphertexts

-----------------------------------------------------------------------------
(* The kernels.                                                            *)
LEMMA UnaryKernels ==
  ASSUME CheddarInvariant, NEW r \in Handles, NEW a \in Handles \cup {Nothing},
         UnaryCalls(r, a)
  PROVE  CheddarInvariant'
<1> USE ConfigurationAssumption, StagedAssumption
<1>0. \A op : Told(op, ct(a)) \in BOOLEAN
  BY CiphertextOf DEF Told
<1>1. ASSUME NEW op, NEW n, NEW s, NEW result, NEW told \in BOOLEAN,
             isCiphertext(a) => result \in Ciphertexts,
             CheddarKernel(Called(op, r, <<a>>, n, s), isCiphertext(a), TRUE, told, result)
      PROVE  CheddarInvariant'
  <2>1. Called(op, r, <<a>>, n, s).result \in Handles
    BY DEF Called
  <2>2. isCiphertext(a) \in BOOLEAN
    BY DEF isCiphertext
  <2> DEFINE accepts == isCiphertext(a)
             asserted == TRUE
  <2>3. CheddarKernel(Called(op, r, <<a>>, n, s), accepts, asserted, told, result)
    BY <1>1
  <2>4. accepts \in BOOLEAN /\ asserted \in BOOLEAN
        /\ (accepts => asserted /\ result \in Ciphertexts)
    BY <1>1, <2>2
  <2> HIDE DEF accepts, asserted
  <2> QED BY <2>1, <2>3, <2>4, KernelKeepsInvariant
<1>2. isCiphertext(a) =>
          /\ ContextNeg(ct(a)) \in Ciphertexts
          /\ ContextRelinearize(ct(a)) \in Ciphertexts
          /\ ContextRescale(ct(a)) \in Ciphertexts
          /\ ContextHConj(ct(a)) \in Ciphertexts
  <2>1. 0 \in Int
    OBVIOUS
  <2> QED BY <2>1, CiphertextOf, UnaryTypes
<1>3. CASE cheddar_negate(r, a)
  BY <1>0, <1>1, <1>3, <1>2 DEF cheddar_negate, Unary
<1>4. CASE cheddar_relinearize(r, a)
  BY <1>0, <1>1, <1>4, <1>2 DEF cheddar_relinearize, Unary
<1>5. CASE cheddar_rescale(r, a)
  BY <1>0, <1>1, <1>5, <1>2 DEF cheddar_rescale, Unary
<1>6. CASE cheddar_conjugate(r, a)
  BY <1>0, <1>1, <1>6, <1>2 DEF cheddar_conjugate, Unary
<1>7. ASSUME NEW s \in Factors,
             cheddar_add_cs(r, a, s) \/ cheddar_mult_cs(r, a, s) \/ cheddar_sub_sc(r, a, s)
      PROVE  CheddarInvariant'
  <2>1. s \in Int
    OBVIOUS
  <2>2. isCiphertext(a) =>
          /\ AddScalar(ct(a), s) \in Ciphertexts
          /\ MultScalar(ct(a), s) \in Ciphertexts
          /\ AddScalar(ContextNeg(ct(a)), s) \in Ciphertexts
    BY <2>1, CiphertextOf, UnaryTypes
  <2> QED BY <1>0, <1>1, <1>7, <2>2 DEF cheddar_add_cs, cheddar_mult_cs, cheddar_sub_sc, Scaled
<1>8. ASSUME NEW n \in Distances, NEW op, cheddar_rotate(op, r, a, n)
      PROVE  CheddarInvariant'
  <2> DEFINE dist == normalizeRotationDistance(n, NumSlots(ct(a)))
             accepts == isCiphertext(a) /\ dist >= 0
             asserted == dist = 0 \/ KeyAsserted(dist, NumSlots(ct(a)))
             told == dist = 0 \/ Told(op, ct(a))
             result == IF dist = 0 THEN ct(a) ELSE ContextHRot(ct(a), dist)
  <2>1. n \in Int
    OBVIOUS
  <2>2. accepts => asserted /\ dist \in Int
    BY <2>1, CiphertextOf, DistanceHasKey
  <2>3. accepts => result \in Ciphertexts
    BY <2>2, CiphertextOf, UnaryTypes
  <2>4. Called(op, r, <<a>>, n, 0).result \in Handles
    BY DEF Called
  <2>5. CheddarKernel(Called(op, r, <<a>>, n, 0), accepts, asserted, told, result)
    BY <1>8 DEF cheddar_rotate
  <2>6. accepts \in BOOLEAN /\ asserted \in BOOLEAN /\ told \in BOOLEAN
    BY <1>0 DEF isCiphertext, KeyAsserted
  <2> HIDE DEF accepts, asserted, told, result
  <2> QED BY <2>2, <2>3, <2>4, <2>5, <2>6, KernelKeepsInvariant
<1>9. ASSUME NEW n \in Distances, cheddar_mult_key(r, a, n)
      PROVE  CheddarInvariant'
  <2> DEFINE index == normalizeRotationDistance(n, HalfDegree)
             accepts == isCiphertext(a) /\ (n = 0 \/ index > 0)
             asserted == n = 0 \/ KeyAsserted(index, HalfDegree)
             told == Told("MULT_KEY", ct(a))
             result == ContextMultKey(ct(a))
  <2>1. n \in Int
    OBVIOUS
  <2>2. accepts => asserted
    <3>1. index \in Int
      BY <2>1, DistanceType
    <3>2. index >= 0 => (index = 0 \/ KeyAsserted(index, HalfDegree))
      BY <2>1, DistanceHasKey
    <3> HIDE DEF index
    <3> QED BY <3>1, <3>2
  <2>3. accepts => result \in Ciphertexts
    BY <2>1, CiphertextOf, UnaryTypes
  <2>4. Called("MULT_KEY", r, <<a>>, n, 0).result \in Handles
    BY DEF Called
  <2>5. CheddarKernel(Called("MULT_KEY", r, <<a>>, n, 0), accepts, asserted, told, result)
    BY <1>9 DEF cheddar_mult_key
  <2>6. accepts \in BOOLEAN /\ asserted \in BOOLEAN /\ told \in BOOLEAN
    BY <1>0 DEF isCiphertext, KeyAsserted
  <2> HIDE DEF accepts, asserted, told, result
  <2> QED BY <2>2, <2>3, <2>4, <2>5, <2>6, KernelKeepsInvariant
<1>10. ASSUME NEW level \in Levels, cheddar_level_down(r, a, level)
      PROVE  CheddarInvariant'
  <2> DEFINE accepts == isCiphertext(a) /\ level >= 0 /\ level <= ct(a).np
             asserted == LevelAsserted(ct(a), level)
             told == Told("LEVEL_DOWN", ct(a))
             result == ContextLevelDown(ct(a), level)
  <2>1. level \in Int
    OBVIOUS
  <2>2. accepts => asserted
    BY <2>1, CiphertextOf DEF LevelAsserted, Ciphertexts
  <2>3. accepts => result \in Ciphertexts
    BY <2>1, CiphertextOf, UnaryTypes
  <2>4. Called("LEVEL_DOWN", r, <<a>>, level, 0).result \in Handles
    BY DEF Called
  <2>5. CheddarKernel(Called("LEVEL_DOWN", r, <<a>>, level, 0), accepts, asserted, told, result)
    BY <1>10 DEF cheddar_level_down
  <2>6. accepts \in BOOLEAN /\ asserted \in BOOLEAN /\ told \in BOOLEAN
    BY <1>0 DEF isCiphertext, LevelAsserted
  <2> HIDE DEF accepts, asserted, told, result
  <2> QED BY <2>2, <2>3, <2>4, <2>5, <2>6, KernelKeepsInvariant
<1> QED BY <1>3, <1>4, <1>5, <1>6, <1>7, <1>8, <1>9, <1>10 DEF UnaryCalls

LEMMA BinaryKernels ==
  ASSUME CheddarInvariant, NEW r \in Handles,
         NEW a \in Handles \cup {Nothing}, NEW b \in Handles \cup {Nothing},
         BinaryCalls(r, a, b)
  PROVE  CheddarInvariant'
<1> USE ConfigurationAssumption
<1> DEFINE both == isCiphertext(a) /\ isCiphertext(b)
<1>0. \A op : ToldBoth(op, a, b) \in BOOLEAN
  BY DEF ToldBoth
<1>1. ASSUME NEW op, NEW n, NEW accepts \in BOOLEAN, NEW asserted \in BOOLEAN,
             NEW told \in BOOLEAN, NEW result,
             accepts => asserted /\ result \in Ciphertexts,
             CheddarKernel(Called(op, r, <<a, b>>, n, 0), accepts, asserted, told, result)
      PROVE  CheddarInvariant'
  <2>1. Called(op, r, <<a, b>>, n, 0).result \in Handles
    BY DEF Called
  <2> QED BY <1>1, <2>1, KernelKeepsInvariant
<1>2. both =>
        /\ ct(a) \in Ciphertexts /\ ct(b) \in Ciphertexts
        /\ ContextAdd(ct(a), ct(b)) \in Ciphertexts
        /\ ContextSub(ct(a), ct(b)) \in Ciphertexts
        /\ ContextMult(ct(a), ct(b)) \in Ciphertexts
        /\ ContextHMult(ct(a), ct(b)) \in Ciphertexts
        /\ ContextAdd(ContextHConj(ct(a)), ct(b)) \in Ciphertexts
  <2>1. 0 \in Int
    OBVIOUS
  <2> QED BY <2>1, CiphertextOf, UnaryTypes, BinaryTypes
<1>3. /\ both \in BOOLEAN
      /\ sameNp(ct(a), ct(b)) \in BOOLEAN
      /\ sameNpAndScale(ct(a), ct(b)) \in BOOLEAN
  BY DEF isCiphertext, sameNp, sameNpAndScale
<1>4. CASE cheddar_add_cc(r, a, b)
  BY <1>0, <1>1, <1>2, <1>3, <1>4 DEF cheddar_add_cc
<1>5. CASE cheddar_sub_cc(r, a, b)
  BY <1>0, <1>1, <1>2, <1>3, <1>5 DEF cheddar_sub_cc
<1>6. CASE cheddar_mult_cc(r, a, b)
  BY <1>0, <1>1, <1>2, <1>3, <1>6 DEF cheddar_mult_cc
<1>7. CASE cheddar_hmult(r, a, b)
  BY <1>0, <1>1, <1>2, <1>3, <1>7 DEF cheddar_hmult
<1>8. CASE cheddar_hconj_add(r, a, b)
  BY <1>0, <1>1, <1>2, <1>3, <1>8 DEF cheddar_hconj_add
<1>9. ASSUME NEW op, cheddar_cp(op, r, a, b)
      PROVE  CheddarInvariant'
  <2>1. ~isPlaintext(b)
    BY DEF isPlaintext, CheddarInvariant, FhnBuffers
  <2> DEFINE accepts == isCiphertext(a) /\ isPlaintext(b)
             asserted == FALSE
             told == FALSE
  <2>2. CheddarKernel(Called(op, r, <<a, b>>, 0, 0), accepts, asserted, told, ct(a))
    BY <1>9 DEF cheddar_cp
  <2>3. accepts \in BOOLEAN /\ asserted \in BOOLEAN /\ told \in BOOLEAN /\ ~accepts
    BY <2>1 DEF isCiphertext
  <2> HIDE DEF accepts, asserted, told
  <2> QED BY <1>1, <2>2, <2>3
<1>10. ASSUME NEW n \in Distances, cheddar_hrot_add(r, a, b, n)
       PROVE  CheddarInvariant'
  <2> DEFINE slots == WidestOf(ct(a), ct(b))
             dist == normalizeRotationDistance(n, slots)
             accepts == both /\ sameNpAndScale(ct(a), ct(b)) /\ dist >= 0
             asserted == sameNpAndScale(ct(a), ct(b)) /\ (dist = 0 \/ KeyAsserted(dist, slots))
             result == IF dist = 0 THEN ContextAdd(ct(a), ct(b))
                       ELSE ContextHRotAdd(ct(a), ct(b), dist)
             told == ToldBoth("HROT_ADD", a, b)
  <2>1. n \in Int
    OBVIOUS
  <2>2. accepts => asserted /\ dist \in Int
    <3>1. both => slots \in Nat \ {0}
      BY <1>2, WidestOfCiphertexts
    <3> QED BY <2>1, <3>1, DistanceHasKey
  <2>3. accepts => result \in Ciphertexts
    BY <1>2, <2>2, BinaryTypes
  <2>4. CheddarKernel(Called("HROT_ADD", r, <<a, b>>, n, 0), accepts, asserted, told, result)
    BY <1>10 DEF cheddar_hrot_add
  <2>5. accepts \in BOOLEAN /\ asserted \in BOOLEAN /\ told \in BOOLEAN
    BY <1>0, <1>3 DEF KeyAsserted
  <2> HIDE DEF accepts, asserted, told, result
  <2> QED BY <1>1, <2>2, <2>3, <2>4, <2>5
<1> QED BY <1>4, <1>5, <1>6, <1>7, <1>8, <1>9, <1>10 DEF BinaryCalls

-----------------------------------------------------------------------------
(* The host's side.                                                        *)
LEMMA PutKeepsInvariant ==
  ASSUME CheddarInvariant, NEW h \in Handles, NEW buffer \in FhnBuffers,
         buffer.kind = "Message" => buffer.msg # << >>,
         Put(h, buffer), UNCHANGED <<prepared, exited>>
  PROVE  CheddarInvariant'
BY DEF CheddarInvariant, Put

LEMMA EncryptionKeepsInvariant ==
  ASSUME CheddarInvariant, NEW h \in Handles, NEW v \in SlotVector, Encryption(h, v)
  PROVE  CheddarInvariant'
<1> DEFINE fresh == FreshCiphertext(FreshLevel, 1, v)
           buffer == [buffers[h] EXCEPT !.kind = "Ciphertext", !.ct = fresh]
<1>1. FreshLevel \in Int /\ 1 \in Int
  BY ConfigurationAssumption
<1>2. fresh \in Ciphertexts
  BY <1>1, FreshType
<1>3. buffers[h] \in FhnBuffers
  BY DEF CheddarInvariant
<1>4. buffer \in FhnBuffers /\ buffer.kind = "Ciphertext"
  <2> HIDE DEF fresh
  <2> QED BY <1>2, <1>3, WrittenType
<1>5. Put(h, buffer) /\ UNCHANGED <<prepared, exited>>
  BY DEF Encryption
<1> HIDE DEF buffer
<1> QED BY <1>4, <1>5, PutKeepsInvariant

LEMMA HostKeepsInvariant ==
  ASSUME CheddarInvariant, NEW h \in Handles, HostCalls(h)
  PROVE  CheddarInvariant'
<1>1. buffers[h] \in FhnBuffers
  BY DEF CheddarInvariant
<1>2. ASSUME NEW v \in SlotVector,
             Put(h, [buffers[h] EXCEPT !.kind = "Message", !.msg = v]),
             UNCHANGED <<prepared, exited>>
      PROVE  CheddarInvariant'
  <2> DEFINE buffer == [buffers[h] EXCEPT !.kind = "Message", !.msg = v]
  <2>1. buffer \in FhnBuffers /\ buffer.msg # << >>
    BY <1>1, StagedType
  <2>2. Put(h, buffer)
    BY <1>2
  <2> HIDE DEF buffer
  <2> QED BY <1>2, <2>1, <2>2, PutKeepsInvariant
<1>3. CASE fhn_encrypt_f64(h)
  <2>1. PICK v \in Values : Encryption(h, <<Real(v)>>)
    BY <1>3 DEF fhn_encrypt_f64
  <2>2. v \in Int
    BY StagedAssumption
  <2>3. <<Real(v)>> \in SlotVector
    BY <2>2, RealType, Zenon
  <2> QED BY <2>1, <2>3, EncryptionKeepsInvariant, Zenon
<1>4. CASE StageMessage(h)
  <2>1. Staged \subseteq SlotVector
    BY StagedAssumption DEF SlotVector, Complex
  <2> QED BY <1>2, <1>4, <2>1 DEF StageMessage
<1>5. CASE cheddar_fhn_buffer_encrypt_message(h)
  <2>1. buffers[h].msg \in SlotVector
    BY <1>5 DEF cheddar_fhn_buffer_encrypt_message, CheddarInvariant, FhnBuffers
  <2> QED BY <1>5, <2>1, EncryptionKeepsInvariant DEF cheddar_fhn_buffer_encrypt_message
<1>6. CASE fhn_decrypt_f64(h)
  BY <1>6 DEF fhn_decrypt_f64, CheddarInvariant
<1>7. CASE cheddar_fhn_buffer_read_complex(h)
  <2>1. ct(h).values \in SlotVector /\ Staged \subseteq SlotVector
    BY <1>1, StagedAssumption DEF ct, FhnBuffers, Ciphertexts, SlotVector, Complex
  <2>2. PICK m \in {ct(h).values} \cup (IF Told("DECRYPT", ct(h)) THEN {} ELSE Staged) :
          Put(h, [buffers[h] EXCEPT !.kind = "Message", !.msg = m])
    BY <1>7 DEF cheddar_fhn_buffer_read_complex
  <2>3. m \in SlotVector
    BY <2>1
  <2> QED BY <1>2, <1>7, <2>2, <2>3 DEF cheddar_fhn_buffer_read_complex
<1>8. CASE EndsOver(h)
  BY <1>8 DEF EndsOver, hostVars, CheddarInvariant
<1> QED BY <1>3, <1>4, <1>5, <1>6, <1>7, <1>8 DEF HostCalls

-----------------------------------------------------------------------------
LEMMA CheddarInitial == CheddarInit => CheddarInvariant
<1> SUFFICES ASSUME CheddarInit PROVE CheddarInvariant
  OBVIOUS
<1>1. buffers \in [Handles -> FhnBuffers] /\ \A h \in Handles : buffers[h].kind # "Message"
  BY EmptyBufferType DEF CheddarInit, HostInit, EmptyBuffer
<1>2. prepared \subseteq 1..(HalfDegree - 1)
  <2>1. \A raw \in RotationKeys : Normalized(raw, HalfDegree) \in 0..(HalfDegree - 1)
    BY ConfigurationAssumption, Remainder
  <2> QED BY <2>1, ConfigurationAssumption DEF CheddarInit, CreateFromJson
<1> QED BY <1>1, <1>2 DEF CheddarInit, CheddarInvariant

LEMMA CheddarInductive == CheddarInvariant /\ [CheddarNext]_cheddarVars => CheddarInvariant'
<1> SUFFICES ASSUME CheddarInvariant, [CheddarNext]_cheddarVars PROVE CheddarInvariant'
  OBVIOUS
<1>1. CASE UNCHANGED cheddarVars
  BY <1>1 DEF cheddarVars, hostVars, CheddarInvariant
<1>2. CASE CheddarNext
  BY <1>2, HostKeepsInvariant, UnaryKernels, BinaryKernels DEF CheddarNext
<1> QED BY <1>1, <1>2

(* The guards catch the assertions the code names, whatever the degree, the *)
(* configured keys, the messages, the distances and levels asked for, and   *)
(* however long the sequence of calls: the key of a rotation is there for   *)
(* the distance the library will reduce to, at the slots of the operand or  *)
(* of the wider of two (CheddarFhnBackend.cpp:153-196).  Of operands nothing *)
(* is told of, the process may end all the same.                           *)
THEOREM GuardsCatchAssertionsHold == CheddarSpec => []GuardsCatchAssertions
<1>1. CheddarInvariant => GuardsCatchAssertions
  BY DEF CheddarInvariant, GuardsCatchAssertions
<1> QED BY <1>1, CheddarInitial, CheddarInductive, PTL DEF CheddarSpec

-----------------------------------------------------------------------------
(* The contract.  First vectors of several sizes, seen at full width.       *)

(* Lengths that repeat in one another.                                      *)
LEMMA RepeatsFacts ==
  ASSUME NEW n \in Nat \ {0}, NEW m \in Nat \ {0}, Repeats(n, m)
  PROVE  m \div n \in Nat \ {0} /\ m = n * (m \div n) /\ n <= m
<1> DEFINE k == m \div n
<1>1. k \in Int /\ m = n * k
  BY Division DEF Repeats
<1> HIDE DEF k
<1>2. ~(k <= 0)
  <2>1. SUFFICES ASSUME k <= 0 PROVE FALSE
    OBVIOUS
  <2>2. n * k <= n * 0
    BY <1>1, <2>1
  <2> QED BY <1>1, <2>2
<1>3. n * 1 <= n * k
  BY <1>1, <1>2
<1>4. k \in Nat \ {0} /\ m = n * k /\ n <= m
  BY <1>1, <1>2, <1>3
<1> QED BY <1>4 DEF k

LEMMA RemainderOfRemainder ==
  ASSUME NEW n \in Nat \ {0}, NEW m \in Nat \ {0}, Repeats(n, m), NEW x \in Int
  PROVE  (x % m) % n = x % n
<1> DEFINE k == m \div n
           j == x \div m
           y == x % m
           p == y \div n
           r == y % n
<1>1. k \in Nat /\ m = n * k
  BY RepeatsFacts
<1>2. j \in Int /\ y \in Int /\ x = m * j + y
  BY Division
<1>3. p \in Int /\ r \in 0..(n - 1) /\ y = n * p + r
  <2> HIDE DEF y
  <2> QED BY <1>2, Division
<1> HIDE DEF k, j, y, p, r
<1>4. x = n * (k * j + p) + r
  <2>1. (n * k) * j = n * (k * j)
    BY <1>1, <1>2
  <2>2. k * j \in Int
    BY <1>1, <1>2
  <2>3. n * (k * j + p) = n * (k * j) + n * p
    BY <1>3, <2>2
  <2>4. x = n * (k * j) + n * p + r
    BY <1>1, <1>2, <1>3, <2>1
  <2> QED BY <2>3, <2>4
<1>5. k * j + p \in Int
  BY <1>1, <1>2, <1>3
<1> DEFINE quotient == k * j + p
<1>6. x % n = r
  <2>1. quotient \in Int /\ x = n * quotient + r /\ n \in Nat /\ n > 0
    BY <1>4, <1>5
  <2> HIDE DEF quotient
  <2> QED BY <1>3, <2>1, SameRemainder
<1> QED BY <1>6 DEF r, y

LEMMA RemainderShifted ==
  ASSUME NEW n \in Nat \ {0}, NEW x \in Int, NEW d \in Int
  PROVE  (x + (d % n)) % n = (x + d) % n
<1> DEFINE j == d \div n
           e == d % n
           p == (x + e) \div n
           r == (x + e) % n
<1>1. j \in Int /\ e \in Int /\ d = n * j + e
  BY Division
<1>2. p \in Int /\ r \in 0..(n - 1) /\ x + e = n * p + r
  <2> HIDE DEF e
  <2> QED BY <1>1, Division
<1> HIDE DEF j, e, p, r
<1>3. x + d = n * (p + j) + r /\ p + j \in Int
  <2>1. n * (p + j) = n * p + n * j
    BY <1>1, <1>2
  <2> QED BY <1>1, <1>2, <2>1
<1> DEFINE quotient == p + j
           y == x + d
<1>4. y % n = r
  <2>1. quotient \in Int /\ y = n * quotient + r /\ n \in Nat /\ n > 0 /\ y \in Int
    BY <1>1, <1>3
  <2> HIDE DEF quotient, y
  <2> QED BY <1>2, <2>1, SameRemainder
<1> QED BY <1>4 DEF r, e

-----------------------------------------------------------------------------
(* Vectors spread over as many slots as they repeat in.                     *)
LEMMA SpreadFacts ==
  ASSUME NEW v \in SlotVector, NEW n \in Nat \ {0}
  PROVE  /\ Spread(v, n) \in SlotVector /\ Len(Spread(v, n)) = n
         /\ DOMAIN Spread(v, n) = 1..n
         /\ \A i \in 1..n : Spread(v, n)[i] = Slot(v, i)
<1>1. Spread(v, n) \in SlotVector
  BY MovedTypes, 0 \in Int
<1>2. DOMAIN Spread(v, n) = 1..n
  BY DEF Spread
<1>3. Len(Spread(v, n)) \in Nat /\ DOMAIN Spread(v, n) = 1..Len(Spread(v, n))
  BY <1>1, SlotVectorFacts
<1>4. Len(Spread(v, n)) = n
  <2> HIDE DEF Spread
  <2> QED BY <1>2, <1>3
<1> QED BY <1>1, <1>2, <1>4 DEF Spread

LEMMA SlotOfSpread ==
  ASSUME NEW v \in SlotVector, NEW n \in Nat \ {0}, Repeats(Len(v), n), NEW i \in Int
  PROVE  Slot(Spread(v, n), i) = Slot(v, i)
<1> DEFINE j == 1 + ((i - 1) % n)
<1>1. j \in 1..n /\ j - 1 = (i - 1) % n
  <2>1. (i - 1) % n \in 0..(n - 1)
    BY Remainder, i - 1 \in Int DEF Normalized
  <2> QED BY <2>1
<1>2. Slot(Spread(v, n), i) = Slot(v, j)
  BY <1>1, SpreadFacts DEF Slot
<1>3. (j - 1) % Len(v) = (i - 1) % Len(v)
  BY <1>1, SlotVectorFacts, RemainderOfRemainder, i - 1 \in Int
<1>4. Slot(v, j) = Slot(v, i)
  BY <1>3 DEF Slot
<1> QED BY <1>2, <1>4

LEMMA SpreadOfSpread ==
  ASSUME NEW v \in SlotVector, NEW n \in Nat \ {0}, NEW m \in Nat \ {0}, Repeats(Len(v), n)
  PROVE  Spread(Spread(v, n), m) = Spread(v, m)
<1>1. \A i \in 1..m : Slot(Spread(v, n), i) = Slot(v, i)
  BY SlotOfSpread
<1> HIDE DEF Slot
<1> QED BY <1>1 DEF Spread

(* What a ciphertext may pack, if its slots come from the caller's values   *)
(* and messages.                                                           *)
Lengths == {1} \cup {Len(m) : m \in Staged}

Packed == {v \in SlotVector : Len(v) \in Lengths}

(* What a buffer of the reference backend holds fits, but need not be packed. *)
Fitting == {v \in SlotVector : Repeats(Len(v), Width)}

LEMMA RepeatsItself ==
  ASSUME NEW n \in Nat \ {0}
  PROVE  Repeats(n, n) /\ Repeats(1, n)
<1>1. n \in Nat /\ n > 0 /\ n \in Int /\ 1 \in Int /\ 0 \in 0..(n - 1) /\ n = n * 1 + 0
  OBVIOUS
<1>2. n % n = 0
  BY <1>1, SameRemainder
<1>3. n % 1 = 0
  OBVIOUS
<1> QED BY <1>2, <1>3 DEF Repeats

LEMMA LengthsFacts ==
  ASSUME NEW n \in Lengths, NEW m \in Lengths
  PROVE  /\ n \in Nat \ {0} /\ Repeats(n, Width)
         /\ Repeats(n, m) \/ Repeats(m, n)
<1>1. Staged \subseteq SlotVector
  BY StagedAssumption DEF SlotVector, Complex
<1>2. \A k \in Lengths : k \in Nat \ {0}
  BY <1>1, SlotVectorFacts DEF Lengths
<1>3. \A k \in Lengths : Repeats(k, Width)
  BY PackingAssumption, RepeatsItself DEF Lengths
<1>4. CASE n = 1 \/ m = 1
  BY <1>2, <1>3, <1>4, RepeatsItself
<1>5. CASE n # 1 /\ m # 1
  <2>1. PICK v \in Staged : n = Len(v)
    BY <1>5 DEF Lengths
  <2>2. PICK w \in Staged : m = Len(w)
    BY <1>5 DEF Lengths
  <2>3. Repeats(Len(v), Len(w)) \/ Repeats(Len(w), Len(v))
    BY PackingAssumption
  <2> QED BY <1>2, <1>3, <2>1, <2>2, <2>3
<1> QED BY <1>4, <1>5

LEMMA WidestPacked ==
  ASSUME NEW v \in Packed, NEW w \in Packed
  PROVE  /\ Widest(v, w) \in Lengths /\ Widest(v, w) \in Nat \ {0}
         /\ Repeats(Len(v), Widest(v, w)) /\ Repeats(Len(w), Widest(v, w))
         /\ Repeats(Widest(v, w), Width)
<1> DEFINE n == Len(v)
           m == Len(w)
<1>1. n \in Lengths /\ m \in Lengths
  BY DEF Packed
<1> HIDE DEF n, m
<1>2. /\ n \in Nat \ {0} /\ m \in Nat \ {0} /\ Repeats(n, n) /\ Repeats(m, m)
      /\ Repeats(n, m) \/ Repeats(m, n)
      /\ Repeats(n, Width) /\ Repeats(m, Width)
  BY <1>1, LengthsFacts, RepeatsItself
<1>3. Repeats(n, m) => n <= m
  BY <1>2, RepeatsFacts
<1>4. Repeats(m, n) => m <= n
  BY <1>2, RepeatsFacts
<1>5. Widest(v, w) = IF n > m THEN n ELSE m
  BY DEF Widest, n, m
<1>6. CASE n > m
  <2>1. Widest(v, w) = n /\ Repeats(m, n)
    BY <1>2, <1>3, <1>5, <1>6
  <2> QED BY <1>1, <1>2, <2>1 DEF n, m
<1>7. CASE ~(n > m)
  <2>1. Repeats(m, n) => n = m
    BY <1>2, <1>4, <1>7
  <2>2. Widest(v, w) = m /\ Repeats(n, m)
    BY <1>2, <1>5, <1>7, <2>1
  <2> QED BY <1>1, <1>2, <2>2 DEF n, m
<1> QED BY <1>6, <1>7

(* Spreading and computing slot by slot commute.                            *)
LEMMA SlotOfBuilt ==
  ASSUME NEW n \in Nat \ {0}, NEW v \in SlotVector, Len(v) = n, NEW i \in Int
  PROVE  LET j == 1 + ((i - 1) % n) IN
           /\ j \in 1..n /\ Slot(v, i) = v[j]
           /\ \A w \in SlotVector : Repeats(Len(w), n) => Slot(w, j) = Slot(w, i)
<1> DEFINE j == 1 + ((i - 1) % n)
<1>1. j \in 1..n /\ j - 1 = (i - 1) % n
  <2>1. (i - 1) % n \in 0..(n - 1)
    BY Remainder, i - 1 \in Int DEF Normalized
  <2> QED BY <2>1
<1>2. Slot(v, i) = v[j]
  BY DEF Slot
<1>3. ASSUME NEW w \in SlotVector, Repeats(Len(w), n)
      PROVE  Slot(w, j) = Slot(w, i)
  <2>1. (j - 1) % Len(w) = (i - 1) % Len(w)
    BY <1>1, <1>3, SlotVectorFacts, RemainderOfRemainder, i - 1 \in Int
  <2> QED BY <2>1 DEF Slot
<1> QED BY <1>1, <1>2, <1>3

LEMMA SlotwiseLengths ==
  ASSUME NEW v \in SlotVector, NEW w \in SlotVector
  PROVE  /\ Len(Slotwise(ComplexSum, v, w)) = Widest(v, w)
         /\ Len(Slotwise(ComplexDifference, v, w)) = Widest(v, w)
         /\ Len(Slotwise(ComplexProduct, v, w)) = Widest(v, w)
<1>1. Widest(v, w) \in Nat \ {0}
  BY WidestType
<1>2. ASSUME NEW u \in SlotVector, DOMAIN u = 1..Widest(v, w)
      PROVE  Len(u) = Widest(v, w)
  BY <1>1, <1>2, SlotVectorFacts
<1>3. /\ DOMAIN Slotwise(ComplexSum, v, w) = 1..Widest(v, w)
      /\ DOMAIN Slotwise(ComplexDifference, v, w) = 1..Widest(v, w)
      /\ DOMAIN Slotwise(ComplexProduct, v, w) = 1..Widest(v, w)
  BY DEF Slotwise
<1> HIDE DEF Slotwise
<1> QED BY <1>2, <1>3, SlotwiseTypes

LEMMA SlotwisePacked ==
  ASSUME NEW v \in Packed, NEW w \in Packed
  PROVE  /\ Slotwise(ComplexSum, v, w) \in Packed
         /\ Slotwise(ComplexDifference, v, w) \in Packed
         /\ Slotwise(ComplexProduct, v, w) \in Packed
<1>1. v \in SlotVector /\ w \in SlotVector /\ Widest(v, w) \in Lengths
  BY WidestPacked DEF Packed
<1> HIDE DEF Slotwise
<1> QED BY <1>1, SlotwiseLengths, SlotwiseTypes DEF Packed

LEMMA SlotsOfSlotwise ==
  ASSUME NEW v \in Packed, NEW w \in Packed, NEW i \in Int
  PROVE  /\ Slot(Slotwise(ComplexSum, v, w), i) = ComplexSum(Slot(v, i), Slot(w, i))
         /\ Slot(Slotwise(ComplexDifference, v, w), i) =
              ComplexDifference(Slot(v, i), Slot(w, i))
         /\ Slot(Slotwise(ComplexProduct, v, w), i) = ComplexProduct(Slot(v, i), Slot(w, i))
<1> DEFINE n == Widest(v, w)
           j == 1 + ((i - 1) % n)
<1>1. /\ v \in SlotVector /\ w \in SlotVector /\ n \in Nat \ {0}
      /\ Repeats(Len(v), n) /\ Repeats(Len(w), n)
  BY WidestPacked DEF Packed
<1> HIDE DEF n
<1>2. ASSUME NEW u \in SlotVector, Len(u) = n
      PROVE  j \in 1..n /\ Slot(u, i) = u[j] /\ Slot(v, j) = Slot(v, i) /\ Slot(w, j) = Slot(w, i)
  BY <1>1, <1>2, SlotOfBuilt
<1>3. /\ Slotwise(ComplexSum, v, w) \in SlotVector
      /\ Slotwise(ComplexDifference, v, w) \in SlotVector
      /\ Slotwise(ComplexProduct, v, w) \in SlotVector
      /\ Len(Slotwise(ComplexSum, v, w)) = n
      /\ Len(Slotwise(ComplexDifference, v, w)) = n
      /\ Len(Slotwise(ComplexProduct, v, w)) = n
  BY <1>1, SlotwiseTypes, SlotwiseLengths DEF n
<1>4. \A k \in 1..n :
        /\ Slotwise(ComplexSum, v, w)[k] = ComplexSum(Slot(v, k), Slot(w, k))
        /\ Slotwise(ComplexDifference, v, w)[k] = ComplexDifference(Slot(v, k), Slot(w, k))
        /\ Slotwise(ComplexProduct, v, w)[k] = ComplexProduct(Slot(v, k), Slot(w, k))
  BY DEF Slotwise, n
<1>5. /\ Slot(Slotwise(ComplexSum, v, w), i) = Slotwise(ComplexSum, v, w)[j]
      /\ Slot(Slotwise(ComplexDifference, v, w), i) = Slotwise(ComplexDifference, v, w)[j]
      /\ Slot(Slotwise(ComplexProduct, v, w), i) = Slotwise(ComplexProduct, v, w)[j]
      /\ j \in 1..n /\ Slot(v, j) = Slot(v, i) /\ Slot(w, j) = Slot(w, i)
  <2> HIDE DEF j
  <2> QED BY <1>2, <1>3
<1> HIDE DEF j
<1> QED BY <1>4, <1>5

LEMMA PackedFits ==
  ASSUME NEW v \in Packed
  PROVE  v \in Fitting
BY LengthsFacts DEF Packed, Fitting

LEMMA SpreadWidth ==
  ASSUME NEW v \in Fitting
  PROVE  /\ v \in SlotVector /\ Width \in Nat \ {0} /\ Repeats(Len(v), Width)
         /\ Spread(v, Width) \in SlotVector /\ Len(Spread(v, Width)) = Width
         /\ \A i \in Int : Slot(Spread(v, Width), i) = Slot(v, i)
<1>1. v \in SlotVector /\ Width \in Nat \ {0} /\ Repeats(Len(v), Width)
  BY PackingAssumption DEF Fitting
<1> QED BY <1>1, SpreadFacts, SlotOfSpread

LEMMA WidestOfSpread ==
  ASSUME NEW v \in Fitting, NEW w \in Fitting
  PROVE  Widest(Spread(v, Width), Spread(w, Width)) = Width
BY SpreadWidth DEF Widest

LEMMA SpreadSlotwise ==
  ASSUME NEW v \in Packed, NEW w \in Packed
  PROVE  /\ Spread(Slotwise(ComplexSum, v, w), Width) =
              Slotwise(ComplexSum, Spread(v, Width), Spread(w, Width))
         /\ Spread(Slotwise(ComplexDifference, v, w), Width) =
              Slotwise(ComplexDifference, Spread(v, Width), Spread(w, Width))
         /\ Spread(Slotwise(ComplexProduct, v, w), Width) =
              Slotwise(ComplexProduct, Spread(v, Width), Spread(w, Width))
<1>1. \A i \in 1..Width :
        /\ Slot(Spread(v, Width), i) = Slot(v, i) /\ Slot(Spread(w, Width), i) = Slot(w, i)
        /\ Slot(Slotwise(ComplexSum, v, w), i) = ComplexSum(Slot(v, i), Slot(w, i))
        /\ Slot(Slotwise(ComplexDifference, v, w), i) =
             ComplexDifference(Slot(v, i), Slot(w, i))
        /\ Slot(Slotwise(ComplexProduct, v, w), i) = ComplexProduct(Slot(v, i), Slot(w, i))
  <2> TAKE i \in 1..Width
  <2>1. i \in Int
    BY PackingAssumption
  <2>2. Slot(Spread(v, Width), i) = Slot(v, i) /\ Slot(Spread(w, Width), i) = Slot(w, i)
    BY <2>1, SpreadWidth, PackedFits
  <2> QED BY <2>1, <2>2, SlotsOfSlotwise
<1> DEFINE a == Spread(v, Width)
           b == Spread(w, Width)
           sum == Slotwise(ComplexSum, v, w)
           difference == Slotwise(ComplexDifference, v, w)
           product == Slotwise(ComplexProduct, v, w)
<1>2. /\ Spread(sum, Width) = [i \in 1..Width |-> Slot(sum, i)]
      /\ Spread(difference, Width) = [i \in 1..Width |-> Slot(difference, i)]
      /\ Spread(product, Width) = [i \in 1..Width |-> Slot(product, i)]
  BY DEF Spread
<1>3. Widest(a, b) = Width
  BY WidestOfSpread, PackedFits
<1>4. /\ Slotwise(ComplexSum, a, b) = [i \in 1..Width |-> ComplexSum(Slot(a, i), Slot(b, i))]
      /\ Slotwise(ComplexDifference, a, b) =
           [i \in 1..Width |-> ComplexDifference(Slot(a, i), Slot(b, i))]
      /\ Slotwise(ComplexProduct, a, b) =
           [i \in 1..Width |-> ComplexProduct(Slot(a, i), Slot(b, i))]
  <2> HIDE DEF a, b
  <2> QED BY <1>3 DEF Slotwise
<1> HIDE DEF a, b, sum, difference, product
<1>5. \A i \in 1..Width :
        /\ Slot(sum, i) = ComplexSum(Slot(a, i), Slot(b, i))
        /\ Slot(difference, i) = ComplexDifference(Slot(a, i), Slot(b, i))
        /\ Slot(product, i) = ComplexProduct(Slot(a, i), Slot(b, i))
  BY <1>1 DEF a, b, sum, difference, product
<1>6. /\ Spread(sum, Width) = Slotwise(ComplexSum, a, b)
      /\ Spread(difference, Width) = Slotwise(ComplexDifference, a, b)
      /\ Spread(product, Width) = Slotwise(ComplexProduct, a, b)
  BY <1>2, <1>4, <1>5
<1> QED BY <1>6 DEF a, b, sum, difference, product

LEMMA RealPacked ==
  ASSUME NEW s \in Int
  PROVE  <<Real(s)>> \in Packed /\ \A i \in Int : Slot(<<Real(s)>>, i) = Real(s)
<1>1. <<Real(s)>> \in SlotVector
  BY RealType
<1>2. Len(<<Real(s)>>) = 1
  OBVIOUS
<1>3. \A i \in Int : Slot(<<Real(s)>>, i) = Real(s)
  <2> TAKE i \in Int
  <2>1. (i - 1) % 1 = 0
    OBVIOUS
  <2>2. Slot(<<Real(s)>>, i) = <<Real(s)>>[1 + 0]
    BY <1>2, <2>1 DEF Slot
  <2> QED BY <2>2
<1> QED BY <1>1, <1>2, <1>3 DEF Packed, Lengths

(* Rotating what repeats, by any distance that comes to the same.           *)
LEMMA SlotOfRotated ==
  ASSUME NEW v \in SlotVector, NEW d \in Int, NEW n \in Int,
         d % Len(v) = n % Len(v), NEW i \in Int
  PROVE  Slot(v, i + d) = Slot(v, i + n)
<1> DEFINE l == Len(v)
           x == i - 1
<1>1. l \in Nat \ {0} /\ x \in Int
  BY SlotVectorFacts
<1> HIDE DEF l
<1>2. d % l = n % l
  BY DEF l
<1>3. (x + (d % l)) % l = (x + d) % l /\ (x + (n % l)) % l = (x + n) % l
  <2> HIDE DEF x
  <2> QED BY <1>1, RemainderShifted
<1>4. (x + d) % l = (x + n) % l
  BY <1>2, <1>3
<1>5. x + d = i + d - 1 /\ x + n = i + n - 1
  OBVIOUS
<1>6. ((i + d) - 1) % l = ((i + n) - 1) % l
  BY <1>4, <1>5
<1> QED BY <1>6 DEF Slot, l

LEMMA MovedLengths ==
  ASSUME NEW v \in SlotVector, NEW d \in Int
  PROVE  Len(Rotated(v, d)) = Len(v) /\ Len(Conjugated(v)) = Len(v)
<1>1. Len(v) \in Nat \ {0} /\ DOMAIN v = 1..Len(v)
  BY SlotVectorFacts
<1>2. Rotated(v, d) \in SlotVector /\ Conjugated(v) \in SlotVector
  BY <1>1, MovedTypes
<1>3. DOMAIN Rotated(v, d) = 1..Len(v) /\ DOMAIN Conjugated(v) = 1..Len(v)
  BY <1>1 DEF Rotated, Conjugated
<1>4. ASSUME NEW u \in SlotVector, DOMAIN u = 1..Len(v) PROVE Len(u) = Len(v)
  BY <1>1, <1>4, SlotVectorFacts
<1> HIDE DEF Rotated, Conjugated
<1> QED BY <1>2, <1>3, <1>4

LEMMA RotatedPacked ==
  ASSUME NEW v \in Packed, NEW d \in Int, NEW n \in Lengths
  PROVE  Rotated(v, d) \in Packed /\ Conjugated(v) \in Packed /\ Spread(v, n) \in Packed
<1>1. v \in SlotVector /\ Len(v) \in Lengths /\ n \in Nat \ {0}
  BY LengthsFacts DEF Packed
<1>2. Rotated(v, d) \in SlotVector /\ Conjugated(v) \in SlotVector
  BY <1>1, MovedTypes
<1>3. Len(Rotated(v, d)) = Len(v) /\ Len(Conjugated(v)) = Len(v)
  BY <1>1, MovedLengths
<1>4. Spread(v, n) \in Packed
  BY <1>1, SpreadFacts DEF Packed
<1> QED BY <1>1, <1>2, <1>3, <1>4 DEF Packed

LEMMA SpreadRotated ==
  ASSUME NEW v \in Fitting, NEW d \in Int, NEW n \in Int, d % Len(v) = n % Len(v)
  PROVE  Spread(Rotated(v, d), Width) = Rotated(Spread(v, Width), n)
<1>1. /\ v \in SlotVector /\ Len(v) \in Nat \ {0} /\ DOMAIN v = 1..Len(v)
      /\ Rotated(v, d) \in SlotVector /\ Len(Rotated(v, d)) = Len(v)
  BY MovedTypes, MovedLengths, SlotVectorFacts, 1 \in Nat \ {0} DEF Fitting
<1>2. \A j \in 1..Len(v) : Rotated(v, d)[j] = Slot(v, j + d)
  BY <1>1 DEF Rotated
<1>3. DOMAIN Spread(v, Width) = 1..Width
  BY DEF Spread
<1>4. \A i \in 1..Width : Slot(Rotated(v, d), i) = Slot(Spread(v, Width), i + n)
  <2> TAKE i \in 1..Width
  <2>1. i \in Int /\ i + d \in Int /\ i + n \in Int
    BY PackingAssumption
  <2> DEFINE j == 1 + ((i - 1) % Len(v))
             x == i - 1
  <2>2. j \in 1..Len(v) /\ Slot(Rotated(v, d), i) = Rotated(v, d)[j]
    BY <1>1, <2>1, SlotOfBuilt
  <2>3. Slot(Rotated(v, d), i) = Slot(v, j + d)
    BY <1>2, <2>2
  <2>4. Slot(v, j + d) = Slot(v, i + d)
    <3> DEFINE l == Len(v)
    <3>1. (d + (x % l)) % l = (d + x) % l
      <4>1. x \in Int /\ l \in Nat \ {0}
        BY <1>1, <2>1
      <4> HIDE DEF x, l
      <4> QED BY <4>1, RemainderShifted
    <3>2. (j + d) - 1 = d + (x % l)
      <4>1. x % l \in Int /\ j = 1 + (x % l)
        BY <2>2
      <4> HIDE DEF j, x, l
      <4> QED BY <4>1
    <3>3. (i + d) - 1 = d + x
      BY <2>1
    <3> QED BY <3>1, <3>2, <3>3 DEF Slot
  <2>5. Slot(v, i + d) = Slot(v, i + n)
    BY <1>1, <2>1, SlotOfRotated
  <2>6. Slot(Spread(v, Width), i + n) = Slot(v, i + n)
    BY <2>1, SpreadWidth
  <2> QED BY <2>3, <2>4, <2>5, <2>6
<1> DEFINE a == Spread(v, Width)
           b == Rotated(v, d)
<1>5. Rotated(a, n) = [i \in 1..Width |-> Slot(a, i + n)]
  <2> HIDE DEF a
  <2>1. DOMAIN a = 1..Width
    BY <1>3 DEF a
  <2> QED BY <2>1 DEF Rotated
<1>6. Spread(b, Width) = [i \in 1..Width |-> Slot(b, i)]
  BY DEF Spread
<1> HIDE DEF a, b
<1>7. \A i \in 1..Width : Slot(b, i) = Slot(a, i + n)
  BY <1>4 DEF a, b
<1>8. Spread(b, Width) = Rotated(a, n)
  BY <1>5, <1>6, <1>7
<1> QED BY <1>8 DEF a, b

LEMMA SpreadConjugated ==
  ASSUME NEW v \in Fitting
  PROVE  Spread(Conjugated(v), Width) = Conjugated(Spread(v, Width))
<1>1. /\ v \in SlotVector /\ Len(v) \in Nat \ {0} /\ DOMAIN v = 1..Len(v)
      /\ Conjugated(v) \in SlotVector /\ Len(Conjugated(v)) = Len(v)
  BY MovedTypes, MovedLengths, SlotVectorFacts, 0 \in Int, 1 \in Nat \ {0} DEF Fitting
<1>2. \A j \in 1..Len(v) : Conjugated(v)[j] = Conjugate(v[j])
  BY <1>1 DEF Conjugated
<1>3. Width \in Nat \ {0} /\ DOMAIN Spread(v, Width) = 1..Width
      /\ \A i \in 1..Width : Spread(v, Width)[i] = Slot(v, i)
  BY <1>1, PackingAssumption, SpreadFacts
<1>4. \A i \in 1..Width : Slot(Conjugated(v), i) = Conjugate(Spread(v, Width)[i])
  <2> TAKE i \in 1..Width
  <2> DEFINE j == 1 + ((i - 1) % Len(v))
  <2>1. i \in Int
    BY <1>3
  <2>2. j \in 1..Len(v) /\ Slot(Conjugated(v), i) = Conjugated(v)[j]
    BY <1>1, <2>1, SlotOfBuilt
  <2>3. Slot(v, i) = v[j]
    BY DEF Slot
  <2> HIDE DEF j
  <2> QED BY <1>2, <1>3, <2>2, <2>3
<1> DEFINE a == Spread(v, Width)
           b == Conjugated(v)
<1>5. Conjugated(a) = [i \in 1..Width |-> Conjugate(a[i])]
  <2> HIDE DEF a
  <2>1. DOMAIN a = 1..Width
    BY <1>3 DEF a
  <2> QED BY <2>1 DEF Conjugated
<1>6. Spread(b, Width) = [i \in 1..Width |-> Slot(b, i)]
  BY DEF Spread
<1> HIDE DEF a, b
<1>7. \A i \in 1..Width : Slot(b, i) = Conjugate(a[i])
  BY <1>4 DEF a, b
<1>8. Spread(b, Width) = Conjugated(a)
  BY <1>5, <1>6, <1>7
<1> QED BY <1>8 DEF a, b

(* The distance the library is asked for comes to the one of the call.      *)
LEMMA DistanceReduced ==
  ASSUME NEW n \in Int, NEW k \in Nat \ {0}, normalizeRotationDistance(n, k) >= 0
  PROVE  LET d == normalizeRotationDistance(n, k) IN
           d \in Int /\ d % k = n % k
<1>1. n % k \in 0..(k - 1) /\ normalizeRotationDistance(n, k) = n % k
  BY Remainder DEF normalizeRotationDistance, Normalized
<1>2. (0 + (n % k)) % k = (0 + n) % k
  BY RemainderShifted, 0 \in Int
<1>3. n % k \in Int /\ 0 + (n % k) = n % k /\ 0 + n = n
  BY <1>1
<1> QED BY <1>1, <1>2, <1>3

(* Not rotating at all is rotating by a multiple of the slots.              *)
LEMMA RotatedByNothing ==
  ASSUME NEW v \in SlotVector
  PROVE  Rotated(v, 0) = v
<1>1. v \in Seq(Complex) /\ Len(v) \in Nat \ {0} /\ DOMAIN v = 1..Len(v)
  BY SlotVectorFacts DEF SlotVector
<1>2. v = [i \in 1..Len(v) |-> v[i]]
  BY <1>1
<1>3. \A i \in 1..Len(v) : Slot(v, i + 0) = v[i]
  <2> TAKE i \in 1..Len(v)
  <2> DEFINE l == Len(v)
             x == i - 1
  <2>1. x \in 0..(l - 1) /\ l \in Nat /\ l > 0 /\ x = l * 0 + x /\ x \in Int /\ 0 \in Int
    BY <1>1
  <2>2. x % l = x
    <3> HIDE DEF x, l
    <3> QED BY <2>1, SameRemainder
  <2>3. 1 + ((i + 0 - 1) % l) = i
    BY <2>1, <2>2
  <2> QED BY <2>3 DEF Slot
<1>4. Rotated(v, 0) = [i \in 1..Len(v) |-> Slot(v, i + 0)]
  BY <1>1 DEF Rotated
<1> QED BY <1>2, <1>3, <1>4

-----------------------------------------------------------------------------
(* The contract has a copy of these operators of its own.                   *)
LEMMA ContractMeanings ==
  /\ \A a, b, n, s : Contract!Meaning("ADD_CC", a, b, n, s) =
       Slotwise(ComplexSum, a, b)
  /\ \A a, b, n, s : Contract!Meaning("SUB_CC", a, b, n, s) =
       Slotwise(ComplexDifference, a, b)
  /\ \A a, b, n, s : Contract!Meaning("MULT_CC", a, b, n, s) =
       Slotwise(ComplexProduct, a, b)
  /\ \A a, b, n, s : Contract!Meaning("HMULT", a, b, n, s) =
       Slotwise(ComplexProduct, a, b)
  /\ \A a, b, n, s : Contract!Meaning("ADD_CS", a, b, n, s) =
       Slotwise(ComplexSum, a, Spread(<<Real(s)>>, Width))
  /\ \A a, b, n, s : Contract!Meaning("MULT_CS", a, b, n, s) =
       Slotwise(ComplexProduct, a, Spread(<<Real(s)>>, Width))
  /\ \A a, b, n, s : Contract!Meaning("SUB_SC", a, b, n, s) =
       Slotwise(ComplexDifference, Spread(<<Real(s)>>, Width), a)
  /\ \A a, b, n, s : Contract!Meaning("NEGATE", a, b, n, s) =
       Slotwise(ComplexDifference, Spread(<<Real(0)>>, Width), a)
  /\ \A a, b, n, s : Contract!Meaning("RELINEARIZE", a, b, n, s) = a
  /\ \A a, b, n, s : Contract!Meaning("RESCALE", a, b, n, s) = a
  /\ \A a, b, n, s : Contract!Meaning("LEVEL_DOWN", a, b, n, s) = a
  /\ \A a, b, n, s : Contract!Meaning("ROTATE", a, b, n, s) = Rotated(a, n)
  /\ \A a, b, n, s : Contract!Meaning("HROT", a, b, n, s) = Rotated(a, n)
  /\ \A a, b, n, s : Contract!Meaning("CONJUGATE", a, b, n, s) = Conjugated(a)
  /\ \A a, b, n, s : Contract!Meaning("HROT_ADD", a, b, n, s) =
       Slotwise(ComplexSum, Rotated(a, n), b)
  /\ \A a, b, n, s : Contract!Meaning("HCONJ_ADD", a, b, n, s) =
       Slotwise(ComplexSum, Conjugated(a), b)
<1> USE DEF Contract!Meaning, Contract!Slotwise, Contract!Rotated, Contract!Conjugated,
           Contract!Scalar, Contract!Spread, Contract!Slot, Contract!Widest, Contract!Real,
           Contract!ComplexSum, Contract!ComplexDifference, Contract!ComplexProduct,
           Contract!Conjugate, Slotwise, Rotated, Conjugated, Spread, Slot, Widest, Real,
           ComplexSum, ComplexDifference, ComplexProduct, Conjugate
<1>1. \A a, b, n, s : Contract!Meaning("ADD_CC", a, b, n, s) =
       Slotwise(ComplexSum, a, b)
  OBVIOUS
<1>2. \A a, b, n, s : Contract!Meaning("SUB_CC", a, b, n, s) =
       Slotwise(ComplexDifference, a, b)
  OBVIOUS
<1>3. \A a, b, n, s : Contract!Meaning("MULT_CC", a, b, n, s) =
       Slotwise(ComplexProduct, a, b)
  OBVIOUS
<1>4. \A a, b, n, s : Contract!Meaning("HMULT", a, b, n, s) =
       Slotwise(ComplexProduct, a, b)
  OBVIOUS
<1>5. \A a, b, n, s : Contract!Meaning("ADD_CS", a, b, n, s) =
       Slotwise(ComplexSum, a, Spread(<<Real(s)>>, Width))
  <2> TAKE a, b, n, s
  <2> QED OBVIOUS
<1>6. \A a, b, n, s : Contract!Meaning("MULT_CS", a, b, n, s) =
       Slotwise(ComplexProduct, a, Spread(<<Real(s)>>, Width))
  <2> TAKE a, b, n, s
  <2> QED OBVIOUS
<1>7. \A a, b, n, s : Contract!Meaning("SUB_SC", a, b, n, s) =
       Slotwise(ComplexDifference, Spread(<<Real(s)>>, Width), a)
  <2> TAKE a, b, n, s
  <2> QED OBVIOUS
<1>8. \A a, b, n, s : Contract!Meaning("NEGATE", a, b, n, s) =
       Slotwise(ComplexDifference, Spread(<<Real(0)>>, Width), a)
  <2> TAKE a, b, n, s
  <2> QED OBVIOUS
<1>9. \A a, b, n, s : Contract!Meaning("RELINEARIZE", a, b, n, s) = a
  OBVIOUS
<1>10. \A a, b, n, s : Contract!Meaning("RESCALE", a, b, n, s) = a
  OBVIOUS
<1>11. \A a, b, n, s : Contract!Meaning("LEVEL_DOWN", a, b, n, s) = a
  OBVIOUS
<1>12. \A a, b, n, s : Contract!Meaning("ROTATE", a, b, n, s) = Rotated(a, n)
  OBVIOUS
<1>13. \A a, b, n, s : Contract!Meaning("HROT", a, b, n, s) = Rotated(a, n)
  OBVIOUS
<1>14. \A a, b, n, s : Contract!Meaning("CONJUGATE", a, b, n, s) = Conjugated(a)
  OBVIOUS
<1>15. \A a, b, n, s : Contract!Meaning("HROT_ADD", a, b, n, s) =
       Slotwise(ComplexSum, Rotated(a, n), b)
  OBVIOUS
<1>16. \A a, b, n, s : Contract!Meaning("HCONJ_ADD", a, b, n, s) =
       Slotwise(ComplexSum, Conjugated(a), b)
  OBVIOUS
<1> QED
  BY <1>1, <1>2, <1>3, <1>4, <1>5, <1>6, <1>7, <1>8,
     <1>9, <1>10, <1>11, <1>12, <1>13, <1>14, <1>15, <1>16

-----------------------------------------------------------------------------
(* The contract's state, as Kernels maps it: of a kernel in its loop, the   *)
(* buffers as it found them.                                               *)
Seen == IF backend = "cheddar" THEN buffers ELSE Answered

BufferMeaning(buffer) ==
  IF backend = "cheddar" THEN CheddarMeaning(buffer) ELSE ToyMeaning(buffer)

BufferTakes(buffer) ==
  IF backend = "cheddar" THEN CheddarTakes(buffer) ELSE ToyTakes(buffer)

MappedMeaning ==
  [h \in Handles |->
     IF backend = "cheddar" THEN CheddarMeaning(buffers[h]) ELSE ToyMeaning(Answered[h])]

MappedTakes ==
  [h \in Handles |->
     IF backend = "cheddar" THEN CheddarTakes(buffers[h]) ELSE ToyTakes(Answered[h])]

ContractStep == [Contract!Next]_<<MappedMeaning, MappedTakes, call>>

Opcode(op) == op \notin {"NOP", "REFUSED", "DECRYPT", "HOST"}

LEMMA MappedFacts ==
  ASSUME backend' = backend
  PROVE  /\ DOMAIN MappedMeaning = Handles /\ DOMAIN MappedTakes = Handles
         /\ \A h \in Handles : /\ MappedMeaning[h] = BufferMeaning(Seen[h])
                               /\ MappedTakes[h] = BufferTakes(Seen[h])
         /\ MappedMeaning' = [h \in Handles |-> BufferMeaning(Seen'[h])]
         /\ MappedTakes' = [h \in Handles |-> BufferTakes(Seen'[h])]
<1>1. \A h \in Handles : /\ MappedMeaning[h] = BufferMeaning(Seen[h])
                         /\ MappedTakes[h] = BufferTakes(Seen[h])
  BY DEF MappedMeaning, MappedTakes, BufferMeaning, BufferTakes, Seen
<1>2. MappedMeaning' = [h \in Handles |-> BufferMeaning(Seen'[h])]
  <2>1. \A h : (CheddarMeaning(buffers[h]))' = CheddarMeaning(buffers'[h])
    BY DEF CheddarMeaning
  <2>2. \A h : (ToyMeaning(Answered[h]))' = ToyMeaning(Answered'[h])
    BY DEF ToyMeaning
  <2> QED BY <2>1, <2>2 DEF MappedMeaning, BufferMeaning, Seen
<1>3. MappedTakes' = [h \in Handles |-> BufferTakes(Seen'[h])]
  <2>1. \A h : (CheddarTakes(buffers[h]))' = CheddarTakes(buffers'[h])
    BY DEF CheddarTakes, Told, Uses, Ordinary, Rescaling
  <2>2. \A h : (ToyTakes(Answered[h]))' = ToyTakes(Answered'[h])
    BY DEF ToyTakes, Uses, Ordinary, Rescaling
  <2> QED BY <2>1, <2>2 DEF MappedTakes, BufferTakes, Seen
<1> QED BY <1>1, <1>2, <1>3 DEF MappedMeaning, MappedTakes

(* A call that succeeds leaves every other buffer as it was, and where it   *)
(* promises anything, the meaning of its opcode in its result.              *)
LEMMA ContractSuccess ==
  ASSUME backend' = backend, NEW called, call' = called,
         Opcode(called.op), called.result \in Handles,
         \A k \in DOMAIN called.operands : called.operands[k] \in Handles,
         \A h \in Handles \ {called.result} : Seen'[h] = Seen[h],
         (\A k \in DOMAIN called.operands :
            called.op \in BufferTakes(Seen[called.operands[k]])) =>
              /\ BufferMeaning(Seen'[called.result]) = Contract!Outcome(called)
              /\ Contract!Follows(called.op) \subseteq BufferTakes(Seen'[called.result])
  PROVE  ContractStep
<1> DEFINE r == called.result
           outcome == Contract!Outcome(called)
           follows == Contract!Follows(called.op)
           promised == \A k \in DOMAIN called.operands :
                         called.op \in BufferTakes(Seen[called.operands[k]])
<1>1. \A h \in Handles \ {r} :
        MappedMeaning'[h] = MappedMeaning[h] /\ MappedTakes'[h] = MappedTakes[h]
  BY MappedFacts
<1>2. Contract!OthersKept
  BY <1>1 DEF Contract!OthersKept, MappedMeaning, MappedTakes
<1>3. Contract!Promised(called) => promised
  <2>1. \A k \in DOMAIN called.operands :
          MappedTakes[called.operands[k]] = BufferTakes(Seen[called.operands[k]])
    BY MappedFacts
  <2> QED BY <2>1 DEF Contract!Promised, MappedTakes
<1>4. promised => MappedMeaning'[r] = outcome /\ follows \subseteq MappedTakes'[r]
  <2>1. /\ MappedMeaning'[r] = BufferMeaning(Seen'[r])
        /\ MappedTakes'[r] = BufferTakes(Seen'[r])
    BY MappedFacts
  <2>2. promised => /\ BufferMeaning(Seen'[r]) = outcome
                    /\ follows \subseteq BufferTakes(Seen'[r])
    OBVIOUS
  <2> HIDE DEF promised, outcome, follows
  <2> QED BY <2>1, <2>2
<1>5. Contract!Success
  <2> HIDE DEF promised
  <2>1. Contract!Promised(call') =>
          /\ MappedMeaning'[call'.result] = Contract!Outcome(call')
          /\ Contract!Follows(call'.op) \subseteq MappedTakes'[call'.result]
    BY <1>3, <1>4
  <2>2. call'.op # "NOP"
    BY DEF Opcode
  <2> QED BY <1>2, <2>1, <2>2 DEF Contract!Success, MappedMeaning, MappedTakes
<1> QED BY <1>5 DEF Contract!Next, ContractStep, Opcode

LEMMA ContractRefusal ==
  ASSUME backend' = backend, Seen' = Seen, call' = Refused
  PROVE  ContractStep
<1>1. MappedMeaning' = MappedMeaning /\ MappedTakes' = MappedTakes
  <2>1. /\ MappedMeaning = [h \in Handles |-> BufferMeaning(Seen[h])]
        /\ MappedTakes = [h \in Handles |-> BufferTakes(Seen[h])]
    BY DEF MappedMeaning, MappedTakes, BufferMeaning, BufferTakes, Seen
  <2> QED BY <2>1, MappedFacts
<1>2. Contract!Refusal
  BY <1>1 DEF Contract!Refusal, Refused, MappedMeaning, MappedTakes
<1> QED BY <1>2 DEF ContractStep, Contract!Next, Refused

(* What the contract does not see.                                          *)
LEMMA ContractStutter ==
  ASSUME backend' = backend, Seen' = Seen, call' = call
  PROVE  ContractStep
<1>1. /\ MappedMeaning = [h \in Handles |-> BufferMeaning(Seen[h])]
      /\ MappedTakes = [h \in Handles |-> BufferTakes(Seen[h])]
  BY DEF MappedMeaning, MappedTakes, BufferMeaning, BufferTakes, Seen
<1> QED BY <1>1, MappedFacts DEF ContractStep

(* The outcome of a call of one operand, and of two.                        *)
LEMMA OutcomeOfOne ==
  ASSUME NEW op, NEW r, NEW a \in Handles, NEW n, NEW s
  PROVE  LET m == BufferMeaning(Seen[a]) IN
           Contract!Outcome(Called(op, r, <<a>>, n, s)) = Contract!Meaning(op, m, m, n, s)
<1> DEFINE c == Called(op, r, <<a>>, n, s)
           m == BufferMeaning(Seen[a])
           read == [k \in DOMAIN c.operands |-> MappedMeaning[c.operands[k]]]
<1>1. c.op = op /\ c.operands = <<a>> /\ c.param = n /\ c.fparam = s
  BY DEF Called
<1>2. DOMAIN c.operands = {1} /\ c.operands[1] = a
  BY <1>1
<1>3. MappedMeaning[a] = m
  BY DEF MappedMeaning, BufferMeaning, Seen
<1> HIDE DEF c, m
<1>4. read = [k \in {1} |-> m]
  BY <1>2, <1>3
<1>5. read[1] = m /\ read = <<m>>
  BY <1>4
<1>6. Len(read) = 1
  <2> HIDE DEF read
  <2> QED BY <1>5
<1>7. Contract!Outcome(c) =
        Contract!Meaning(c.op, read[1], read[Len(read)], c.param, c.fparam)
  BY DEF Contract!Outcome, MappedMeaning
<1> HIDE DEF read
<1>8. Contract!Outcome(c) = Contract!Meaning(op, m, m, n, s)
  BY <1>1, <1>5, <1>6, <1>7
<1> QED BY <1>8 DEF c, m

LEMMA OutcomeOfTwo ==
  ASSUME NEW op, NEW r, NEW a \in Handles, NEW b \in Handles, NEW n, NEW s
  PROVE  LET m == BufferMeaning(Seen[a])
             w == BufferMeaning(Seen[b])
         IN  Contract!Outcome(Called(op, r, <<a, b>>, n, s)) = Contract!Meaning(op, m, w, n, s)
<1> DEFINE c == Called(op, r, <<a, b>>, n, s)
           m == BufferMeaning(Seen[a])
           w == BufferMeaning(Seen[b])
           read == [k \in DOMAIN c.operands |-> MappedMeaning[c.operands[k]]]
<1>1. c.op = op /\ c.operands = <<a, b>> /\ c.param = n /\ c.fparam = s
  BY DEF Called
<1>2. DOMAIN c.operands = 1..2 /\ c.operands[1] = a /\ c.operands[2] = b
  BY <1>1
<1>3. MappedMeaning[a] = m /\ MappedMeaning[b] = w
  BY DEF MappedMeaning, BufferMeaning, Seen
<1> HIDE DEF c, m, w
<1>5. read[1] = m /\ read[2] = w
  BY <1>2, <1>3
<1>6. Len(read) = 2
  <2>1. read = [k \in 1..2 |-> MappedMeaning[c.operands[k]]]
    BY <1>2
  <2>2. \A x : Len([k \in 1..2 |-> x[k]]) = 2
    OBVIOUS
  <2>3. read = [k \in 1..2 |-> read[k]]
    BY <2>1
  <2> HIDE DEF read
  <2> QED BY <2>2, <2>3
<1>7. Contract!Outcome(c) =
        Contract!Meaning(c.op, read[1], read[Len(read)], c.param, c.fparam)
  BY DEF Contract!Outcome, MappedMeaning
<1> HIDE DEF read
<1>8. Contract!Outcome(c) = Contract!Meaning(op, m, w, n, s)
  BY <1>1, <1>5, <1>6, <1>7
<1> QED BY <1>8 DEF c, m, w

LEMMA VectorsAreThere ==
  ASSUME NEW v \in SlotVector
  PROVE  v # Nothing
BY MarkAssumption DEF SlotVector, Complex

-----------------------------------------------------------------------------
(* The host.                                                                *)
LEMMA PutMeans ==
  ASSUME backend' = backend, NEW h \in Handles, NEW buffer,
         call' = HostCall(h), Seen' = [Seen EXCEPT ![h] = buffer], DOMAIN Seen = Handles,
         BufferMeaning(buffer) # Nothing => Ordinary \subseteq BufferTakes(buffer)
  PROVE  ContractStep
<1>1. \A g \in Handles \ {h} : Seen'[g] = Seen[g]
  OBVIOUS
<1>2. Seen'[h] = buffer
  OBVIOUS
<1>3. call'.op = "HOST" /\ call'.result = h
  BY DEF HostCall
<1>4. \A g \in Handles \ {h} :
        MappedMeaning'[g] = MappedMeaning[g] /\ MappedTakes'[g] = MappedTakes[g]
  BY <1>1, MappedFacts
<1>5. MappedMeaning'[h] # Nothing => Ordinary \subseteq MappedTakes'[h]
  BY <1>2, MappedFacts
<1>6. Contract!OthersKept
  BY <1>3, <1>4 DEF Contract!OthersKept, MappedMeaning, MappedTakes
<1>7. Contract!HostWrite
  BY <1>3, <1>5, <1>6
     DEF Contract!HostWrite, MappedMeaning, MappedTakes, Ordinary, Contract!Ordinary
<1> QED BY <1>3, <1>7 DEF ContractStep, Contract!Next

LEMMA DecryptionMeans ==
  ASSUME backend' = backend, NEW h \in Handles, NEW answer, call' = Decrypted(h, answer),
         Seen' = Seen, BufferMeaning(Seen[h]) # Nothing,
         "DECRYPT" \in BufferTakes(Seen[h]) => answer = BufferMeaning(Seen[h])[1][1]
  PROVE  ContractStep
<1>1. call'.op = "DECRYPT" /\ call'.result = h /\ call'.answer = answer
  BY DEF Decrypted
<1>2. /\ MappedMeaning = [g \in Handles |-> BufferMeaning(Seen[g])]
      /\ MappedTakes = [g \in Handles |-> BufferTakes(Seen[g])]
  BY DEF MappedMeaning, MappedTakes, BufferMeaning, BufferTakes, Seen
<1>3. MappedMeaning' = MappedMeaning /\ MappedTakes' = MappedTakes
  BY <1>2, MappedFacts
<1>4. MappedMeaning[h] = BufferMeaning(Seen[h]) /\ MappedTakes[h] = BufferTakes(Seen[h])
  BY <1>2
<1>5. Contract!Decryption
  BY <1>1, <1>3, <1>4 DEF Contract!Decryption, MappedMeaning, MappedTakes
<1> QED BY <1>1, <1>5 DEF ContractStep, Contract!Next

(* The GPU backend.                                                         *)
CheddarPacked ==
  \A h \in Handles :
    /\ buffers[h].ct.values \in Packed
    /\ buffers[h].kind = "Message" => buffers[h].msg \in Packed

LEMMA OperandFacts ==
  ASSUME backend = "cheddar", CheddarInvariant, CheddarPacked,
         NEW a \in Handles \cup {Nothing}, isCiphertext(a)
  PROVE  /\ a \in Handles /\ ct(a) \in Ciphertexts /\ ct(a).values \in Packed
         /\ Seen[a] = buffers[a]
         /\ BufferMeaning(Seen[a]) = Spread(ct(a).values, Width)
         /\ BufferMeaning(Seen[a]) # Nothing
         /\ BufferTakes(Seen[a]) = {op \in Uses : Told(op, ct(a))}
<1>1. a \in Handles /\ buffers[a].kind = "Ciphertext" /\ Seen[a] = buffers[a]
  BY DEF isCiphertext, Seen
<1>2. ct(a) \in Ciphertexts /\ ct(a).values \in Packed
  BY <1>1, CiphertextOf DEF CheddarPacked, ct
<1>3. BufferMeaning(Seen[a]) = Spread(ct(a).values, Width)
  BY <1>1 DEF BufferMeaning, CheddarMeaning, ct
<1>4. Spread(ct(a).values, Width) # Nothing
  BY <1>2, PackedFits, SpreadWidth, VectorsAreThere
<1>5. BufferTakes(Seen[a]) = {op \in Uses : Told(op, ct(a))}
  BY <1>1 DEF BufferTakes, CheddarTakes, ct
<1> QED BY <1>1, <1>2, <1>3, <1>4, <1>5

(* What is told of a product, and of what is none.                          *)
LEMMA FollowsTold ==
  ASSUME NEW c, c.known, NEW op, c.product <=> op = "MULT_CC"
  PROVE  Contract!Follows(op) \subseteq {use \in Uses : Told(use, c)}
<1>1. CASE op = "MULT_CC"
  BY <1>1 DEF Contract!Follows, Told, Uses, Rescaling
<1>2. CASE op # "MULT_CC"
  <2>1. Contract!Follows(op) = Ordinary
    BY <1>2 DEF Contract!Follows, Contract!Ordinary, Ordinary
  <2>2. \A use \in Ordinary : Told(use, c)
    BY <1>2 DEF Told, Ordinary, Rescaling
  <2> QED BY <2>1, <2>2 DEF Uses
<1> QED BY <1>1, <1>2

(* A kernel that, where its call is promised anything, leaves the outcome.  *)
LEMMA CheddarKernelMeans ==
  ASSUME backend = "cheddar", backend' = backend, CheddarInvariant, CheddarPacked,
         NEW called, called.result \in Handles, Opcode(called.op),
         NEW accepts, NEW asserted, NEW told, NEW c,
         accepts /\ asserted =>
           /\ c \in Ciphertexts /\ c.values \in Packed
           /\ \A k \in DOMAIN called.operands : called.operands[k] \in Handles,
         accepts /\ asserted
         /\ (\A k \in DOMAIN called.operands :
               called.op \in BufferTakes(Seen[called.operands[k]])) =>
           /\ told /\ c.known
           /\ c.product <=> called.op = "MULT_CC"
           /\ Spread(c.values, Width) = Contract!Outcome(called),
         CheddarKernel(called, accepts, asserted, told, c)
  PROVE  ContractStep /\ CheddarPacked'
<1> DEFINE r == called.result
           left == [c EXCEPT !.known = @ /\ told]
           buffer == [buffers[r] EXCEPT !.kind = "Ciphertext", !.ct = left]
           outcome == Contract!Outcome(called)
           promised == \A k \in DOMAIN called.operands :
                         called.op \in BufferTakes(Seen[called.operands[k]])
<1>1. Seen = buffers /\ Seen' = buffers'
  BY DEF Seen
<1>2. CASE buffers' = buffers /\ call' \in {Refused, call}
  <2>1. ContractStep
    BY <1>1, <1>2, ContractRefusal, ContractStutter
  <2> QED BY <1>2, <2>1 DEF CheddarPacked
<1>3. CASE /\ accepts /\ asserted /\ call' = called
           /\ buffers' = [buffers EXCEPT ![r] = buffer]
  <2>1. DOMAIN buffers = Handles /\ buffers[r] \in FhnBuffers
    BY DEF CheddarInvariant
  <2>2. left.values = c.values /\ left.product = c.product
        /\ left.known = (c.known /\ told)
    BY <1>3 DEF Ciphertexts
  <2> HIDE DEF left
  <2>3. buffer.kind = "Ciphertext" /\ buffer.ct = left
    BY <2>1 DEF FhnBuffers
  <2> HIDE DEF buffer, outcome, promised
  <2>4. BufferMeaning(buffer) = Spread(c.values, Width)
        /\ BufferTakes(buffer) = {use \in Uses : Told(use, left)}
    BY <2>2, <2>3 DEF BufferMeaning, CheddarMeaning, BufferTakes, CheddarTakes
  <2>5. promised => /\ left.known /\ (left.product <=> called.op = "MULT_CC")
                    /\ BufferMeaning(buffer) = outcome
    BY <1>3, <2>2, <2>4 DEF promised, outcome
  <2>6. promised => Contract!Follows(called.op) \subseteq BufferTakes(buffer)
    BY <2>4, <2>5, FollowsTold
  <2>7. Seen'[r] = buffer /\ \A h \in Handles \ {r} : Seen'[h] = Seen[h]
    BY <1>1, <1>3, <2>1
  <2>8. ContractStep
    BY <1>3, <2>5, <2>6, <2>7, ContractSuccess DEF promised, outcome
  <2>9. CheddarPacked'
    BY <1>3, <2>1, <2>2, <2>3 DEF CheddarPacked
  <2> QED BY <2>8, <2>9
<1>4. \/ buffers' = buffers /\ call' \in {Refused, call}
      \/ /\ accepts /\ asserted /\ call' = called
         /\ buffers' = [buffers EXCEPT ![r] = buffer]
  BY DEF CheddarKernel
<1> QED BY <1>2, <1>3, <1>4

(* What the library's operations do to the slots, seen at full width.       *)
LEMMA SubScalar ==
  ASSUME NEW v \in Packed, NEW s \in Int
  PROVE  LET u == Slotwise(ComplexSum, Slotwise(ComplexDifference, <<Real(0)>>, v), <<Real(s)>>)
         IN  /\ u \in Packed
             /\ Spread(u, Width) =
                  Slotwise(ComplexDifference, Spread(<<Real(s)>>, Width), Spread(v, Width))
<1> DEFINE z == <<Real(0)>>
           scalar == <<Real(s)>>
           negated == Slotwise(ComplexDifference, z, v)
           u == Slotwise(ComplexSum, negated, scalar)
           w == Slotwise(ComplexDifference, scalar, v)
<1>1. /\ z \in Packed /\ scalar \in Packed
      /\ \A i \in Int : Slot(z, i) = Real(0) /\ Slot(scalar, i) = Real(s)
  BY RealPacked, 0 \in Int
<1> HIDE DEF z, scalar
<1>2. negated \in Packed /\ w \in Packed
  BY <1>1, SlotwisePacked
<1>3. \A i \in Int : Slot(negated, i) = ComplexDifference(Slot(z, i), Slot(v, i))
  BY <1>1, SlotsOfSlotwise
<1>4. \A i \in Int : Slot(w, i) = ComplexDifference(Slot(scalar, i), Slot(v, i))
  BY <1>1, SlotsOfSlotwise
<1> HIDE DEF negated, w
<1>5. u \in Packed
  BY <1>1, <1>2, SlotwisePacked
<1>6. \A i \in Int : Slot(u, i) = ComplexSum(Slot(negated, i), Slot(scalar, i))
  BY <1>1, <1>2, SlotsOfSlotwise
<1> HIDE DEF u
<1>7. \A i \in Int : Slot(u, i) = Slot(w, i)
  <2> TAKE i \in Int
  <2> DEFINE x == Slot(v, i)
  <2>1. x \in Complex
    BY SlotType DEF Packed
  <2>2. x[1] \in Int /\ x[2] \in Int
    BY <2>1 DEF Complex
  <2>3. Slot(u, i) = ComplexSum(ComplexDifference(Real(0), x), Real(s))
    BY <1>1, <1>3, <1>6
  <2>4. Slot(w, i) = ComplexDifference(Real(s), x)
    BY <1>1, <1>4
  <2> HIDE DEF x
  <2>5. ComplexSum(ComplexDifference(Real(0), x), Real(s)) = ComplexDifference(Real(s), x)
    BY <2>2 DEF ComplexSum, ComplexDifference, Real
  <2> QED BY <2>3, <2>4, <2>5
<1>8. Spread(u, Width) = Spread(w, Width)
  <2>1. 1..Width \subseteq Int
    BY PackingAssumption
  <2> QED BY <1>7, <2>1 DEF Spread
<1>9. Spread(w, Width) = Slotwise(ComplexDifference, Spread(scalar, Width), Spread(v, Width))
  BY <1>1, SpreadSlotwise DEF w
<1>10. u \in Packed /\
       Spread(u, Width) = Slotwise(ComplexDifference, Spread(scalar, Width), Spread(v, Width))
  BY <1>5, <1>8, <1>9
<1> QED BY <1>10 DEF u, negated, scalar, z

LEMMA UnaryResults ==
  ASSUME NEW c \in Ciphertexts, c.values \in Packed, NEW s \in Int
  PROVE  LET v == Spread(c.values, Width)
             scalar == Spread(<<Real(s)>>, Width)
         IN  /\ ContextNeg(c).values \in Packed /\ ContextNeg(c).known = c.known
             /\ Spread(ContextNeg(c).values, Width) =
                  Slotwise(ComplexDifference, Spread(<<Real(0)>>, Width), v)
             /\ AddScalar(c, s).values \in Packed /\ AddScalar(c, s).known = c.known
             /\ Spread(AddScalar(c, s).values, Width) = Slotwise(ComplexSum, v, scalar)
             /\ MultScalar(c, s).values \in Packed /\ MultScalar(c, s).known = c.known
             /\ Spread(MultScalar(c, s).values, Width) = Slotwise(ComplexProduct, v, scalar)
             /\ AddScalar(ContextNeg(c), s).values \in Packed
             /\ AddScalar(ContextNeg(c), s).known = c.known
             /\ Spread(AddScalar(ContextNeg(c), s).values, Width) =
                  Slotwise(ComplexDifference, scalar, v)
             /\ ContextHConj(c).values \in Packed /\ ContextHConj(c).known = c.known
             /\ Spread(ContextHConj(c).values, Width) = Conjugated(v)
<1>1. <<Real(s)>> \in Packed /\ <<Real(0)>> \in Packed
  BY RealPacked, 0 \in Int
<1>2. /\ ContextNeg(c).values = Slotwise(ComplexDifference, <<Real(0)>>, c.values)
      /\ ContextNeg(c).known = c.known /\ ContextNeg(c) \in Ciphertexts
  BY UnaryTypes DEF ContextNeg, Ciphertexts
<1>3. /\ AddScalar(c, s).values = Slotwise(ComplexSum, c.values, <<Real(s)>>)
      /\ AddScalar(c, s).known = c.known
  BY DEF AddScalar, Ciphertexts
<1>4. /\ MultScalar(c, s).values = Slotwise(ComplexProduct, c.values, <<Real(s)>>)
      /\ MultScalar(c, s).known = c.known
  BY DEF MultScalar, Ciphertexts
<1>5. /\ AddScalar(ContextNeg(c), s).values =
           Slotwise(ComplexSum, Slotwise(ComplexDifference, <<Real(0)>>, c.values), <<Real(s)>>)
      /\ AddScalar(ContextNeg(c), s).known = c.known
  <2> DEFINE d == ContextNeg(c)
  <2>1. d \in Ciphertexts
    BY <1>2
  <2> HIDE DEF d
  <2>2. /\ AddScalar(d, s).values = Slotwise(ComplexSum, d.values, <<Real(s)>>)
        /\ AddScalar(d, s).known = d.known
    BY <2>1 DEF AddScalar, Ciphertexts
  <2> QED BY <1>2, <2>2 DEF d
<1>6. ContextHConj(c).values = Conjugated(c.values) /\ ContextHConj(c).known = c.known
  BY DEF ContextHConj, Ciphertexts
<1>7. ContextNeg(c).values \in Packed
      /\ Spread(ContextNeg(c).values, Width) =
           Slotwise(ComplexDifference, Spread(<<Real(0)>>, Width), Spread(c.values, Width))
  <2> DEFINE z == <<Real(0)>>
             v == c.values
  <2>1. z \in Packed /\ v \in Packed /\ ContextNeg(c).values = Slotwise(ComplexDifference, z, v)
    BY <1>1, <1>2
  <2> HIDE DEF z, v
  <2>2. /\ Slotwise(ComplexDifference, z, v) \in Packed
        /\ Spread(Slotwise(ComplexDifference, z, v), Width) =
             Slotwise(ComplexDifference, Spread(z, Width), Spread(v, Width))
    BY <2>1, SlotwisePacked, SpreadSlotwise
  <2>3. ContextNeg(c).values \in Packed
        /\ Spread(ContextNeg(c).values, Width) =
             Slotwise(ComplexDifference, Spread(z, Width), Spread(v, Width))
    BY <2>1, <2>2
  <2> QED BY <2>3 DEF z, v
<1>8. AddScalar(c, s).values \in Packed
      /\ Spread(AddScalar(c, s).values, Width) =
           Slotwise(ComplexSum, Spread(c.values, Width), Spread(<<Real(s)>>, Width))
  BY <1>1, <1>3, SlotwisePacked, SpreadSlotwise
<1>9. MultScalar(c, s).values \in Packed
      /\ Spread(MultScalar(c, s).values, Width) =
           Slotwise(ComplexProduct, Spread(c.values, Width), Spread(<<Real(s)>>, Width))
  BY <1>1, <1>4, SlotwisePacked, SpreadSlotwise
<1>10. AddScalar(ContextNeg(c), s).values \in Packed
      /\ Spread(AddScalar(ContextNeg(c), s).values, Width) =
           Slotwise(ComplexDifference, Spread(<<Real(s)>>, Width), Spread(c.values, Width))
  BY <1>5, SubScalar
<1>11. ContextHConj(c).values \in Packed
       /\ Spread(ContextHConj(c).values, Width) = Conjugated(Spread(c.values, Width))
  <2>1. Conjugated(c.values) \in Packed
    BY RotatedPacked, 0 \in Int, 1 \in Lengths DEF Lengths
  <2> QED BY <1>6, <2>1, PackedFits, SpreadConjugated
<1> QED BY <1>2, <1>3, <1>4, <1>5, <1>6, <1>7, <1>8, <1>9, <1>10, <1>11

LEMMA RestResults ==
  ASSUME NEW c \in Ciphertexts, NEW level
  PROVE  /\ ContextRelinearize(c).values = c.values /\ ContextRelinearize(c).known = c.known
         /\ ContextRescale(c).values = c.values /\ ContextRescale(c).known = c.known
         /\ ContextLevelDown(c, level).values = c.values
         /\ ContextLevelDown(c, level).known = c.known
         /\ ContextMultKey(c).values = c.values
BY DEF ContextRelinearize, ContextRescale, ContextLevelDown, ContextMultKey, Ciphertexts

(* Only a multiplication makes a product, and only relinearising ends it.   *)
LEMMA UnaryProducts ==
  ASSUME NEW c \in Ciphertexts, NEW s \in Int, NEW level
  PROVE  /\ ContextNeg(c).product = c.product
         /\ AddScalar(c, s).product = c.product
         /\ MultScalar(c, s).product = c.product
         /\ AddScalar(ContextNeg(c), s).product = c.product
         /\ ContextHConj(c).product = c.product
         /\ ~ContextRelinearize(c).product
         /\ ContextRescale(c).product = c.product
         /\ ContextLevelDown(c, level).product = c.product
         /\ ContextHRot(c, level).product = c.product
<1>1. ContextNeg(c) \in Ciphertexts
  BY UnaryTypes
<1>2. \A d \in Ciphertexts : AddScalar(d, s).product = d.product
  BY DEF AddScalar, Ciphertexts
<1>3. ContextNeg(c).product = c.product /\ ContextHConj(c).product = c.product
  BY DEF ContextNeg, ContextHConj, Ciphertexts
<1>4. MultScalar(c, s).product = c.product /\ ContextRescale(c).product = c.product
  BY DEF MultScalar, ContextRescale, Ciphertexts
<1>5. /\ ~ContextRelinearize(c).product
      /\ ContextLevelDown(c, level).product = c.product
      /\ ContextHRot(c, level).product = c.product
  BY DEF ContextRelinearize, ContextLevelDown, ContextHRot, Ciphertexts
<1> QED BY <1>1, <1>2, <1>3, <1>4, <1>5

LEMMA BinaryProducts ==
  ASSUME NEW c \in Ciphertexts, NEW d \in Ciphertexts, NEW dist
  PROVE  /\ ~ContextAdd(c, d).product
         /\ ~ContextSub(c, d).product
         /\ ContextMult(c, d).product
         /\ ~ContextHRotAdd(c, d, dist).product
<1>1. /\ ~ContextAdd(c, d).product
      /\ ~ContextSub(c, d).product
      /\ ~ContextHRotAdd(c, d, dist).product
  BY DEF ContextAdd, ContextSub, ContextHRotAdd, Joined
<1>2. ContextMult(c, d).product
  BY DEF ContextMult, Joined
<1> QED BY <1>1, <1>2

(* HMULT: multiply, relinearise, rescale.                                   *)
LEMMA FusedResults ==
  ASSUME NEW c \in Ciphertexts, NEW d \in Ciphertexts
  PROVE  /\ ContextHMult(c, d).values = ContextMult(c, d).values
         /\ ContextHMult(c, d).known = ContextMult(c, d).known
         /\ ~ContextHMult(c, d).product
<1> DEFINE m == ContextMult(c, d)
           l == ContextRelinearize(m)
<1>1. m \in Ciphertexts
  BY BinaryTypes, 0 \in Int
<1> HIDE DEF m
<1>2. l \in Ciphertexts /\ l.values = m.values /\ l.known = m.known /\ ~l.product
  BY <1>1, UnaryTypes, RestResults, UnaryProducts, 0 \in Int
<1> HIDE DEF l
<1>3. /\ ContextRescale(l).values = l.values /\ ContextRescale(l).known = l.known
      /\ ContextRescale(l).product = l.product
  BY <1>2, RestResults, UnaryProducts, 0 \in Int
<1> QED BY <1>2, <1>3 DEF ContextHMult, l, m

LEMMA RotationResults ==
  ASSUME NEW c \in Ciphertexts, c.values \in Packed, NEW n \in Int, NEW k \in Nat \ {0},
         k = NumSlots(c), normalizeRotationDistance(n, k) >= 0
  PROVE  LET dist == normalizeRotationDistance(n, k)
             d == IF dist = 0 THEN c ELSE ContextHRot(c, dist)
         IN  /\ d.values \in Packed /\ d.known = c.known
             /\ Spread(d.values, Width) = Rotated(Spread(c.values, Width), n)
<1> DEFINE dist == normalizeRotationDistance(n, k)
           d == IF dist = 0 THEN c ELSE ContextHRot(c, dist)
<1>1. dist \in Int /\ dist % Len(c.values) = n % Len(c.values)
  BY DistanceReduced DEF NumSlots
<1> HIDE DEF dist
<1>2. d.known = c.known /\ d.values = Rotated(c.values, dist)
  <2>1. Rotated(c.values, 0) = c.values
    BY RotatedByNothing DEF Packed
  <2>2. /\ ContextHRot(c, dist).known = c.known
        /\ ContextHRot(c, dist).values = Rotated(c.values, dist)
    BY DEF ContextHRot, Ciphertexts
  <2> QED BY <2>1, <2>2
<1> HIDE DEF d
<1>3. d.values \in Packed
  BY <1>1, <1>2, RotatedPacked, 1 \in Lengths DEF Lengths
<1>4. Spread(d.values, Width) = Rotated(Spread(c.values, Width), n)
  BY <1>1, <1>2, PackedFits, SpreadRotated
<1> QED BY <1>2, <1>3, <1>4 DEF d, dist

LEMMA BinaryResults ==
  ASSUME NEW c \in Ciphertexts, NEW d \in Ciphertexts, c.values \in Packed, d.values \in Packed
  PROVE  LET v == Spread(c.values, Width)
             w == Spread(d.values, Width)
         IN  /\ ContextAdd(c, d).values \in Packed
             /\ Spread(ContextAdd(c, d).values, Width) = Slotwise(ComplexSum, v, w)
             /\ ContextSub(c, d).values \in Packed
             /\ Spread(ContextSub(c, d).values, Width) = Slotwise(ComplexDifference, v, w)
             /\ ContextMult(c, d).values \in Packed
             /\ Spread(ContextMult(c, d).values, Width) = Slotwise(ComplexProduct, v, w)
             /\ ContextAdd(c, d).known = (c.known /\ d.known)
             /\ ContextSub(c, d).known = (c.known /\ d.known)
             /\ ContextMult(c, d).known = (c.known /\ d.known)
<1>1. /\ ContextAdd(c, d).values = Slotwise(ComplexSum, c.values, d.values)
      /\ ContextSub(c, d).values = Slotwise(ComplexDifference, c.values, d.values)
      /\ ContextMult(c, d).values = Slotwise(ComplexProduct, c.values, d.values)
      /\ ContextAdd(c, d).known = (c.known /\ d.known)
      /\ ContextSub(c, d).known = (c.known /\ d.known)
      /\ ContextMult(c, d).known = (c.known /\ d.known)
  <2>1. /\ ContextMult(c, d).values = Slotwise(ComplexProduct, c.values, d.values)
        /\ ContextMult(c, d).known = (c.known /\ d.known)
    BY DEF ContextMult, Joined
  <2> QED BY <2>1 DEF ContextAdd, ContextSub, Joined
<1> DEFINE a == c.values
           b == d.values
<1>2. a \in Packed /\ b \in Packed
  OBVIOUS
<1> HIDE DEF a, b
<1>3. /\ Slotwise(ComplexSum, a, b) \in Packed
      /\ Slotwise(ComplexDifference, a, b) \in Packed
      /\ Slotwise(ComplexProduct, a, b) \in Packed
  BY <1>2, SlotwisePacked
<1>4. /\ Spread(Slotwise(ComplexSum, a, b), Width) =
           Slotwise(ComplexSum, Spread(a, Width), Spread(b, Width))
      /\ Spread(Slotwise(ComplexDifference, a, b), Width) =
           Slotwise(ComplexDifference, Spread(a, Width), Spread(b, Width))
      /\ Spread(Slotwise(ComplexProduct, a, b), Width) =
           Slotwise(ComplexProduct, Spread(a, Width), Spread(b, Width))
  BY <1>2, SpreadSlotwise
<1> QED BY <1>1, <1>3, <1>4 DEF a, b

(* Rotating the first of two at the width of the wider one.                 *)
LEMMA RotatedSumResults ==
  ASSUME NEW c \in Ciphertexts, NEW d \in Ciphertexts, c.values \in Packed, d.values \in Packed,
         NEW n \in Int, normalizeRotationDistance(n, WidestOf(c, d)) >= 0
  PROVE  LET dist == normalizeRotationDistance(n, WidestOf(c, d))
             e == IF dist = 0 THEN ContextAdd(c, d) ELSE ContextHRotAdd(c, d, dist)
         IN  /\ e.values \in Packed /\ e.known = (c.known /\ d.known)
             /\ Spread(e.values, Width) =
                  Slotwise(ComplexSum, Rotated(Spread(c.values, Width), n), Spread(d.values, Width))
<1> DEFINE k == WidestOf(c, d)
           dist == normalizeRotationDistance(n, k)
           u == Spread(c.values, k)
           x == Rotated(u, dist)
           e == IF dist = 0 THEN ContextAdd(c, d) ELSE ContextHRotAdd(c, d, dist)
<1>1. k \in Lengths /\ k \in Nat \ {0} /\ Repeats(Len(c.values), k)
  BY WidestPacked DEF WidestOf
<1> HIDE DEF k
<1>2. dist \in Int /\ dist % k = n % k
  BY <1>1, DistanceReduced DEF k
<1> HIDE DEF dist
<1>3. c.values \in SlotVector /\ Width \in Nat \ {0}
  BY PackingAssumption DEF Packed
<1>4. u \in Packed /\ Len(u) = k /\ Spread(u, Width) = Spread(c.values, Width)
  BY <1>1, <1>3, RotatedPacked, SpreadFacts, SpreadOfSpread, 0 \in Int
<1> HIDE DEF u
<1>5. x \in Packed /\ Spread(x, Width) = Rotated(Spread(c.values, Width), n)
  <2>1. dist % Len(u) = n % Len(u)
    BY <1>2, <1>4
  <2>2. x \in Packed
    BY <1>1, <1>2, <1>4, RotatedPacked
  <2>3. Spread(x, Width) = Rotated(Spread(u, Width), n)
    BY <1>2, <1>4, <2>1, PackedFits, SpreadRotated
  <2> QED BY <1>4, <2>2, <2>3
<1>6. CASE dist = 0
  <2>1. x = u
    BY <1>4, <1>6, RotatedByNothing DEF Packed
  <2>2. Spread(c.values, Width) = Rotated(Spread(c.values, Width), n)
    BY <1>4, <1>5, <2>1
  <2>3. e = ContextAdd(c, d)
    BY <1>6
  <2> HIDE DEF e
  <2>4. e.values \in Packed /\ e.known = (c.known /\ d.known)
        /\ Spread(e.values, Width) =
             Slotwise(ComplexSum, Spread(c.values, Width), Spread(d.values, Width))
    BY <2>3, BinaryResults
  <2> QED BY <2>2, <2>4 DEF e, dist, k
<1>7. CASE dist # 0
  <2> DEFINE f == [c EXCEPT !.values = Spread(@, WidestOf(c, d))]
             g == ContextHRot(f, dist)
  <2>1. f \in Ciphertexts /\ f.values = u /\ f.known = c.known
    BY <1>4 DEF u, k, Packed, Ciphertexts
  <2> HIDE DEF f
  <2>2. g \in Ciphertexts /\ g.values = x /\ g.known = c.known
    BY <1>2, <2>1, UnaryTypes DEF ContextHRot, Ciphertexts
  <2> HIDE DEF g
  <2>3. e = ContextAdd(g, d)
    BY <1>7 DEF e, f, g, ContextHRotAdd
  <2> HIDE DEF e
  <2>4. e.values \in Packed /\ e.known = (c.known /\ d.known)
        /\ Spread(e.values, Width) =
             Slotwise(ComplexSum, Spread(x, Width), Spread(d.values, Width))
    BY <1>5, <2>2, <2>3, BinaryResults
  <2> QED BY <1>5, <2>4 DEF e, dist, k
<1> QED BY <1>6, <1>7

-----------------------------------------------------------------------------
LEMMA UnaryCallMeans ==
  ASSUME backend = "cheddar", backend' = backend, CheddarInvariant, CheddarPacked,
         NEW r \in Handles, NEW a \in Handles \cup {Nothing},
         NEW op, Opcode(op), op # "MULT_CC",
         NEW n, NEW s, NEW accepts, NEW asserted, NEW told, NEW c,
         accepts => isCiphertext(a),
         accepts /\ asserted => c \in Ciphertexts /\ c.values \in Packed,
         accepts /\ asserted /\ op \in Uses /\ Told(op, ct(a)) =>
           LET v == Spread(ct(a).values, Width) IN
             /\ told /\ c.known /\ ~c.product
             /\ Spread(c.values, Width) = Contract!Meaning(op, v, v, n, s),
         CheddarKernel(Called(op, r, <<a>>, n, s), accepts, asserted, told, c)
  PROVE  ContractStep /\ CheddarPacked'
<1> DEFINE called == Called(op, r, <<a>>, n, s)
           promised == \A k \in DOMAIN called.operands :
                         called.op \in BufferTakes(Seen[called.operands[k]])
           outcome == Contract!Outcome(called)
<1>1. /\ called.result \in Handles /\ called.op = op
      /\ 1 \in DOMAIN called.operands
      /\ \A k \in DOMAIN called.operands : called.operands[k] = a
  BY DEF Called
<1>2. ASSUME accepts, asserted
      PROVE  /\ a \in Handles
             /\ promised => /\ told /\ c.known
                            /\ c.product <=> called.op = "MULT_CC"
                            /\ Spread(c.values, Width) = outcome
  <2> DEFINE m == BufferMeaning(Seen[a])
             v == Spread(ct(a).values, Width)
  <2>1. a \in Handles /\ m = v /\ BufferTakes(Seen[a]) = {use \in Uses : Told(use, ct(a))}
    BY <1>2, OperandFacts
  <2>2. promised => op \in Uses /\ Told(op, ct(a))
    BY <1>1, <2>1
  <2> HIDE DEF m
  <2>3. outcome = Contract!Meaning(op, m, m, n, s)
    BY <2>1, OutcomeOfOne DEF m
  <2>4. op \in Uses /\ Told(op, ct(a)) =>
          /\ told /\ c.known /\ ~c.product
          /\ Spread(c.values, Width) = Contract!Meaning(op, v, v, n, s)
    BY <1>2
  <2> HIDE DEF called, promised, outcome, v
  <2> QED BY <1>1, <2>1, <2>2, <2>3, <2>4
<1> HIDE DEF called
<1>3. CheddarKernel(called, accepts, asserted, told, c)
  BY DEF called
<1>4. accepts /\ asserted =>
        /\ c \in Ciphertexts /\ c.values \in Packed
        /\ \A k \in DOMAIN called.operands : called.operands[k] \in Handles
  BY <1>1, <1>2
<1>5. accepts /\ asserted /\ promised =>
        /\ told /\ c.known
        /\ c.product <=> called.op = "MULT_CC"
        /\ Spread(c.values, Width) = Contract!Outcome(called)
  <2> HIDE DEF promised
  <2> QED BY <1>2
<1> QED BY <1>1, <1>3, <1>4, <1>5, CheddarKernelMeans

LEMMA BinaryCallMeans ==
  ASSUME backend = "cheddar", backend' = backend, CheddarInvariant, CheddarPacked,
         NEW r \in Handles, NEW a \in Handles \cup {Nothing}, NEW b \in Handles \cup {Nothing},
         NEW op, Opcode(op), NEW n, NEW s,
         NEW accepts, NEW asserted, NEW told, NEW c,
         accepts /\ asserted => isCiphertext(a) /\ isCiphertext(b),
         accepts /\ asserted => c \in Ciphertexts /\ c.values \in Packed,
         accepts /\ asserted /\ ToldBoth(op, a, b) =>
           LET v == Spread(ct(a).values, Width)
               w == Spread(ct(b).values, Width)
           IN  /\ told /\ c.known
               /\ c.product <=> op = "MULT_CC"
               /\ Spread(c.values, Width) = Contract!Meaning(op, v, w, n, s),
         CheddarKernel(Called(op, r, <<a, b>>, n, s), accepts, asserted, told, c)
  PROVE  ContractStep /\ CheddarPacked'
<1> DEFINE called == Called(op, r, <<a, b>>, n, s)
           promised == \A k \in DOMAIN called.operands :
                         called.op \in BufferTakes(Seen[called.operands[k]])
           outcome == Contract!Outcome(called)
<1>1. /\ called.result \in Handles /\ called.op = op
      /\ 1 \in DOMAIN called.operands /\ 2 \in DOMAIN called.operands
      /\ called.operands[1] = a /\ called.operands[2] = b
      /\ \A k \in DOMAIN called.operands : called.operands[k] \in {a, b}
  BY DEF Called
<1>2. ASSUME accepts, asserted
      PROVE  /\ a \in Handles /\ b \in Handles
             /\ promised => /\ told /\ c.known
                            /\ c.product <=> called.op = "MULT_CC"
                            /\ Spread(c.values, Width) = outcome
  <2> DEFINE m == BufferMeaning(Seen[a])
             u == BufferMeaning(Seen[b])
             v == Spread(ct(a).values, Width)
             w == Spread(ct(b).values, Width)
  <2>1. a \in Handles /\ m = v /\ BufferTakes(Seen[a]) = {use \in Uses : Told(use, ct(a))}
    BY <1>2, OperandFacts
  <2>2. b \in Handles /\ u = w /\ BufferTakes(Seen[b]) = {use \in Uses : Told(use, ct(b))}
    BY <1>2, OperandFacts
  <2>3. promised => ToldBoth(op, a, b)
    BY <1>1, <2>1, <2>2 DEF ToldBoth
  <2> HIDE DEF m, u
  <2>4. outcome = Contract!Meaning(op, m, u, n, s)
    BY <2>1, <2>2, OutcomeOfTwo DEF m, u
  <2>5. ToldBoth(op, a, b) =>
          /\ told /\ c.known
          /\ c.product <=> op = "MULT_CC"
          /\ Spread(c.values, Width) = Contract!Meaning(op, v, w, n, s)
    BY <1>2
  <2> HIDE DEF called, promised, outcome, v, w
  <2> QED BY <1>1, <2>1, <2>2, <2>3, <2>4, <2>5
<1> HIDE DEF called
<1>3. CheddarKernel(called, accepts, asserted, told, c)
  BY DEF called
<1>4. accepts /\ asserted =>
        /\ c \in Ciphertexts /\ c.values \in Packed
        /\ \A k \in DOMAIN called.operands : called.operands[k] \in Handles
  BY <1>1, <1>2
<1>5. accepts /\ asserted /\ promised =>
        /\ told /\ c.known
        /\ c.product <=> called.op = "MULT_CC"
        /\ Spread(c.values, Width) = Contract!Outcome(called)
  <2> HIDE DEF promised
  <2> QED BY <1>2
<1> QED BY <1>1, <1>3, <1>4, <1>5, CheddarKernelMeans

LEMMA UnaryMeans ==
  ASSUME backend = "cheddar", backend' = backend, CheddarInvariant, CheddarPacked,
         NEW r \in Handles, NEW a \in Handles \cup {Nothing}, UnaryCalls(r, a)
  PROVE  ContractStep /\ CheddarPacked'
<1> DEFINE c == ct(a)
           v == Spread(ct(a).values, Width)
<1>1. isCiphertext(a) => c \in Ciphertexts /\ c.values \in Packed /\ NumSlots(c) \in Nat \ {0}
  BY OperandFacts, CiphertextOf
<1>2. \A n, s :
        /\ Contract!Meaning("NEGATE", v, v, n, s) =
             Slotwise(ComplexDifference, Spread(<<Real(0)>>, Width), v)
        /\ Contract!Meaning("RELINEARIZE", v, v, n, s) = v
        /\ Contract!Meaning("RESCALE", v, v, n, s) = v
        /\ Contract!Meaning("LEVEL_DOWN", v, v, n, s) = v
        /\ Contract!Meaning("CONJUGATE", v, v, n, s) = Conjugated(v)
        /\ Contract!Meaning("ROTATE", v, v, n, s) = Rotated(v, n)
        /\ Contract!Meaning("HROT", v, v, n, s) = Rotated(v, n)
        /\ Contract!Meaning("ADD_CS", v, v, n, s) =
             Slotwise(ComplexSum, v, Spread(<<Real(s)>>, Width))
        /\ Contract!Meaning("MULT_CS", v, v, n, s) =
             Slotwise(ComplexProduct, v, Spread(<<Real(s)>>, Width))
        /\ Contract!Meaning("SUB_SC", v, v, n, s) =
             Slotwise(ComplexDifference, Spread(<<Real(s)>>, Width), v)
  <2> TAKE n, s
  <2> HIDE DEF v
  <2> QED BY ContractMeanings
<1> DEFINE Means(op, n, s, d) ==
             /\ d \in Ciphertexts /\ d.values \in Packed /\ d.known = c.known
             /\ op = "RELINEARIZE" => ~d.product
             /\ ~c.product => ~d.product
             /\ Spread(d.values, Width) = Contract!Meaning(op, v, v, n, s)
<1>3. ASSUME NEW op, Opcode(op), op \notin {"MULT_CC", "MULT_KEY"}, NEW n, NEW s,
             NEW accepts, NEW asserted, NEW told, NEW d,
             accepts => isCiphertext(a), accepts /\ asserted => Means(op, n, s, d),
             Told(op, c) => told,
             CheddarKernel(Called(op, r, <<a>>, n, s), accepts, asserted, told, d)
      PROVE  ContractStep /\ CheddarPacked'
  <2>1. accepts /\ asserted => d \in Ciphertexts /\ d.values \in Packed
    BY <1>3
  <2>2. Told(op, c) => c.known /\ (c.product <=> op = "RELINEARIZE")
    BY DEF Told
  <2>3. accepts /\ asserted /\ op \in Uses /\ Told(op, ct(a)) =>
          /\ told /\ d.known /\ ~d.product
          /\ Spread(d.values, Width) = Contract!Meaning(op, v, v, n, s)
    BY <1>3, <2>2
  <2> HIDE DEF Means
  <2> QED BY <1>3, <2>1, <2>3, UnaryCallMeans
<1>4. ASSUME NEW op, Opcode(op), op \notin {"MULT_CC", "MULT_KEY"}, NEW s, NEW d,
             isCiphertext(a) => Means(op, 0, s, d),
             CheddarKernel(Called(op, r, <<a>>, 0, s), isCiphertext(a), TRUE, Told(op, ct(a)), d)
      PROVE  ContractStep /\ CheddarPacked'
  <2> DEFINE accepts == isCiphertext(a)
             asserted == TRUE
             told == Told(op, c)
  <2>1. CheddarKernel(Called(op, r, <<a>>, 0, s), accepts, asserted, told, d)
    BY <1>4
  <2>2. (accepts => isCiphertext(a)) /\ (accepts /\ asserted => Means(op, 0, s, d))
        /\ (Told(op, c) => told)
    BY <1>4
  <2> HIDE DEF accepts, asserted, told, Means
  <2> QED BY <1>3, <1>4, <2>1, <2>2
<1>5. isCiphertext(a) =>
        /\ Means("NEGATE", 0, 0, ContextNeg(c))
        /\ Means("RELINEARIZE", 0, 0, ContextRelinearize(c))
        /\ Means("RESCALE", 0, 0, ContextRescale(c))
        /\ Means("CONJUGATE", 0, 0, ContextHConj(c))
  <2> SUFFICES ASSUME isCiphertext(a)
               PROVE  /\ Means("NEGATE", 0, 0, ContextNeg(c))
                      /\ Means("RELINEARIZE", 0, 0, ContextRelinearize(c))
                      /\ Means("RESCALE", 0, 0, ContextRescale(c))
                      /\ Means("CONJUGATE", 0, 0, ContextHConj(c))
    OBVIOUS
  <2>1. /\ ContextNeg(c).values \in Packed /\ ContextNeg(c).known = c.known
        /\ Spread(ContextNeg(c).values, Width) =
             Slotwise(ComplexDifference, Spread(<<Real(0)>>, Width), v)
        /\ ContextHConj(c).values \in Packed /\ ContextHConj(c).known = c.known
        /\ Spread(ContextHConj(c).values, Width) = Conjugated(v)
    BY <1>1, UnaryResults, 0 \in Int
  <2>2. /\ ContextRelinearize(c).values = c.values /\ ContextRelinearize(c).known = c.known
        /\ ContextRescale(c).values = c.values /\ ContextRescale(c).known = c.known
    BY <1>1, RestResults
  <2>4. /\ ContextNeg(c) \in Ciphertexts /\ ContextRelinearize(c) \in Ciphertexts
        /\ ContextRescale(c) \in Ciphertexts /\ ContextHConj(c) \in Ciphertexts
    BY <1>1, UnaryTypes, 0 \in Int
  <2>5. /\ ContextNeg(c).product = c.product /\ ContextHConj(c).product = c.product
        /\ ContextRescale(c).product = c.product /\ ~ContextRelinearize(c).product
    BY <1>1, UnaryProducts, 0 \in Int
  <2>3. c.values \in Packed /\ v = Spread(c.values, Width)
    BY <1>1
  <2> HIDE DEF c, v
  <2> QED BY <1>2, <2>1, <2>2, <2>3, <2>4, <2>5
<1>6. ASSUME NEW s \in Factors
      PROVE  isCiphertext(a) =>
               /\ Means("ADD_CS", 0, s, AddScalar(c, s))
               /\ Means("MULT_CS", 0, s, MultScalar(c, s))
               /\ Means("SUB_SC", 0, s, AddScalar(ContextNeg(c), s))
  <2> SUFFICES ASSUME isCiphertext(a)
               PROVE  /\ Means("ADD_CS", 0, s, AddScalar(c, s))
                      /\ Means("MULT_CS", 0, s, MultScalar(c, s))
                      /\ Means("SUB_SC", 0, s, AddScalar(ContextNeg(c), s))
    OBVIOUS
  <2>1. s \in Int
    BY StagedAssumption
  <2>2. /\ AddScalar(c, s).values \in Packed /\ AddScalar(c, s).known = c.known
        /\ Spread(AddScalar(c, s).values, Width) =
             Slotwise(ComplexSum, v, Spread(<<Real(s)>>, Width))
        /\ MultScalar(c, s).values \in Packed /\ MultScalar(c, s).known = c.known
        /\ Spread(MultScalar(c, s).values, Width) =
             Slotwise(ComplexProduct, v, Spread(<<Real(s)>>, Width))
        /\ AddScalar(ContextNeg(c), s).values \in Packed
        /\ AddScalar(ContextNeg(c), s).known = c.known
        /\ Spread(AddScalar(ContextNeg(c), s).values, Width) =
             Slotwise(ComplexDifference, Spread(<<Real(s)>>, Width), v)
    BY <1>1, <2>1, UnaryResults
  <2>3. /\ AddScalar(c, s) \in Ciphertexts /\ MultScalar(c, s) \in Ciphertexts
        /\ AddScalar(ContextNeg(c), s) \in Ciphertexts
    BY <1>1, <2>1, UnaryTypes
  <2>4. /\ AddScalar(c, s).product = c.product /\ MultScalar(c, s).product = c.product
        /\ AddScalar(ContextNeg(c), s).product = c.product
    BY <1>1, <2>1, UnaryProducts
  <2> HIDE DEF c, v
  <2> QED BY <1>2, <2>2, <2>3, <2>4
<1> HIDE DEF Means, c
<1>7. CASE cheddar_negate(r, a)
  BY <1>4, <1>5, <1>7 DEF cheddar_negate, Unary, Opcode, c
<1>8. CASE cheddar_relinearize(r, a)
  BY <1>4, <1>5, <1>8 DEF cheddar_relinearize, Unary, Opcode, c
<1>9. CASE cheddar_rescale(r, a)
  BY <1>4, <1>5, <1>9 DEF cheddar_rescale, Unary, Opcode, c
<1>10. CASE cheddar_conjugate(r, a)
  BY <1>4, <1>5, <1>10 DEF cheddar_conjugate, Unary, Opcode, c
<1>11. ASSUME NEW s \in Factors,
             cheddar_add_cs(r, a, s) \/ cheddar_mult_cs(r, a, s) \/ cheddar_sub_sc(r, a, s)
      PROVE  ContractStep /\ CheddarPacked'
  BY <1>4, <1>6, <1>11 DEF cheddar_add_cs, cheddar_mult_cs, cheddar_sub_sc, Scaled, Opcode, c
<1>12. ASSUME NEW n \in Distances, NEW op \in {"ROTATE", "HROT"}, cheddar_rotate(op, r, a, n)
      PROVE  ContractStep /\ CheddarPacked'
  <2> DEFINE dist == normalizeRotationDistance(n, NumSlots(c))
             accepts == isCiphertext(a) /\ dist >= 0
             asserted == dist = 0 \/ KeyAsserted(dist, NumSlots(c))
             told == dist = 0 \/ Told(op, c)
             result == IF dist = 0 THEN c ELSE ContextHRot(c, dist)
  <2>1. n \in Int
    BY ConfigurationAssumption
  <2>2. accepts => Means(op, n, 0, result)
    <3>1. SUFFICES ASSUME accepts PROVE Means(op, n, 0, result)
      OBVIOUS
    <3>2. /\ result.values \in Packed /\ result.known = c.known
          /\ Spread(result.values, Width) = Rotated(Spread(c.values, Width), n)
      BY <1>1, <2>1, <3>1, RotationResults
    <3>4. result \in Ciphertexts /\ result.product = c.product
      <4>1. dist \in Int
        BY <1>1, <2>1, <3>1, DistanceType
      <4> HIDE DEF dist
      <4> QED BY <1>1, <3>1, <4>1, UnaryTypes, UnaryProducts
    <3>3. v = Spread(c.values, Width)
      BY DEF c
    <3> HIDE DEF result, v
    <3> QED BY <1>2, <3>2, <3>3, <3>4 DEF Means
  <2>3. CheddarKernel(Called(op, r, <<a>>, n, 0), accepts, asserted, told, result)
    BY <1>12 DEF cheddar_rotate, c
  <2>4. accepts => isCiphertext(a)
    OBVIOUS
  <2>5. Opcode(op) /\ op \notin {"MULT_CC", "MULT_KEY"} /\ (Told(op, c) => told)
    BY DEF Opcode
  <2> HIDE DEF accepts, asserted, told, result
  <2> QED BY <1>3, <2>2, <2>3, <2>4, <2>5
<1>13. ASSUME NEW n \in Distances, cheddar_mult_key(r, a, n)
      PROVE  ContractStep /\ CheddarPacked'
  <2> DEFINE index == normalizeRotationDistance(n, HalfDegree)
             accepts == isCiphertext(a) /\ (n = 0 \/ index > 0)
             asserted == n = 0 \/ KeyAsserted(index, HalfDegree)
             told == Told("MULT_KEY", c)
             result == ContextMultKey(c)
  <2>1. accepts => result \in Ciphertexts /\ result.values \in Packed
    BY <1>1, RestResults, UnaryTypes, 0 \in Int
  <2>2. CheddarKernel(Called("MULT_KEY", r, <<a>>, n, 0), accepts, asserted, told, result)
    BY <1>13 DEF cheddar_mult_key, c
  <2>3. (accepts => isCiphertext(a)) /\ Opcode("MULT_KEY") /\ "MULT_KEY" \notin Uses
    BY DEF Opcode, Uses, Ordinary, Rescaling
  <2> HIDE DEF accepts, asserted, told, result
  <2> QED BY <2>1, <2>2, <2>3, UnaryCallMeans
<1>14. ASSUME NEW level \in Levels, cheddar_level_down(r, a, level)
      PROVE  ContractStep /\ CheddarPacked'
  <2> DEFINE accepts == isCiphertext(a) /\ level >= 0 /\ level <= c.np
             asserted == LevelAsserted(c, level)
             told == Told("LEVEL_DOWN", c)
             result == ContextLevelDown(c, level)
  <2>0. level \in Int
    BY ConfigurationAssumption
  <2>1. accepts => Means("LEVEL_DOWN", level, 0, result)
    <3>1. SUFFICES ASSUME accepts PROVE Means("LEVEL_DOWN", level, 0, result)
      OBVIOUS
    <3>2. result.values = c.values /\ result.known = c.known /\ c.values \in Packed
      BY <1>1, <3>1, RestResults
    <3>4. result \in Ciphertexts /\ result.product = c.product
      BY <1>1, <2>0, <3>1, UnaryTypes, UnaryProducts
    <3>3. v = Spread(c.values, Width)
      BY DEF c
    <3> HIDE DEF result, v
    <3> QED BY <1>2, <3>2, <3>3, <3>4 DEF Means
  <2>2. CheddarKernel(Called("LEVEL_DOWN", r, <<a>>, level, 0), accepts, asserted, told, result)
    BY <1>14 DEF cheddar_level_down, c
  <2>3. (accepts => isCiphertext(a)) /\ Opcode("LEVEL_DOWN")
        /\ (Told("LEVEL_DOWN", c) => told)
    BY DEF Opcode
  <2> HIDE DEF accepts, asserted, told, result
  <2> QED BY <1>3, <2>1, <2>2, <2>3
<1> QED BY <1>7, <1>8, <1>9, <1>10, <1>11, <1>12, <1>13, <1>14 DEF UnaryCalls

LEMMA BinaryMeans ==
  ASSUME backend = "cheddar", backend' = backend, CheddarInvariant, CheddarPacked,
         NEW r \in Handles, NEW a \in Handles \cup {Nothing}, NEW b \in Handles \cup {Nothing},
         BinaryCalls(r, a, b)
  PROVE  ContractStep /\ CheddarPacked'
<1> DEFINE c == ct(a)
           d == ct(b)
           v == Spread(ct(a).values, Width)
           w == Spread(ct(b).values, Width)
           both == isCiphertext(a) /\ isCiphertext(b)
           Means(op, n, e) ==
             /\ e \in Ciphertexts /\ e.values \in Packed /\ e.known = (c.known /\ d.known)
             /\ e.product <=> op = "MULT_CC"
             /\ Spread(e.values, Width) = Contract!Meaning(op, v, w, n, 0)
<1>1. both => /\ c \in Ciphertexts /\ c.values \in Packed
              /\ d \in Ciphertexts /\ d.values \in Packed
              /\ v = Spread(c.values, Width) /\ w = Spread(d.values, Width)
  BY OperandFacts
<1>2. \A n :
        /\ Contract!Meaning("ADD_CC", v, w, n, 0) = Slotwise(ComplexSum, v, w)
        /\ Contract!Meaning("SUB_CC", v, w, n, 0) = Slotwise(ComplexDifference, v, w)
        /\ Contract!Meaning("MULT_CC", v, w, n, 0) = Slotwise(ComplexProduct, v, w)
        /\ Contract!Meaning("HMULT", v, w, n, 0) = Slotwise(ComplexProduct, v, w)
        /\ Contract!Meaning("HROT_ADD", v, w, n, 0) = Slotwise(ComplexSum, Rotated(v, n), w)
        /\ Contract!Meaning("HCONJ_ADD", v, w, n, 0) = Slotwise(ComplexSum, Conjugated(v), w)
  <2> TAKE n
  <2> HIDE DEF v, w
  <2> QED BY ContractMeanings
<1>3. ASSUME NEW op, Opcode(op), NEW n, NEW accepts, NEW asserted, NEW e,
             accepts /\ asserted => both, accepts /\ asserted => Means(op, n, e),
             CheddarKernel(Called(op, r, <<a, b>>, n, 0), accepts, asserted,
               ToldBoth(op, a, b), e)
      PROVE  ContractStep /\ CheddarPacked'
  <2> DEFINE told == ToldBoth(op, a, b)
  <2>1. accepts /\ asserted => e \in Ciphertexts /\ e.values \in Packed
    BY <1>3
  <2>2. told => c.known /\ d.known
    BY DEF ToldBoth, Told
  <2>3. accepts /\ asserted /\ ToldBoth(op, a, b) =>
          /\ told /\ e.known
          /\ e.product <=> op = "MULT_CC"
          /\ Spread(e.values, Width) = Contract!Meaning(op, v, w, n, 0)
    BY <1>3, <2>2
  <2>4. CheddarKernel(Called(op, r, <<a, b>>, n, 0), accepts, asserted, told, e)
    BY <1>3
  <2> HIDE DEF Means, told
  <2> QED BY <1>3, <2>1, <2>3, <2>4, BinaryCallMeans
<1>4. both =>
        /\ Means("ADD_CC", 0, ContextAdd(c, d))
        /\ Means("SUB_CC", 0, ContextSub(c, d))
        /\ Means("MULT_CC", 0, ContextMult(c, d))
        /\ Means("HMULT", 0, ContextHMult(c, d))
        /\ Means("HCONJ_ADD", 0, ContextAdd(ContextHConj(c), d))
  <2> SUFFICES ASSUME both
               PROVE  /\ Means("ADD_CC", 0, ContextAdd(c, d))
                      /\ Means("SUB_CC", 0, ContextSub(c, d))
                      /\ Means("MULT_CC", 0, ContextMult(c, d))
                      /\ Means("HMULT", 0, ContextHMult(c, d))
                      /\ Means("HCONJ_ADD", 0, ContextAdd(ContextHConj(c), d))
    OBVIOUS
  <2> DEFINE m == ContextMult(c, d)
             g == ContextHConj(c)
  <2>1. /\ ContextAdd(c, d).values \in Packed /\ ContextAdd(c, d).known = (c.known /\ d.known)
        /\ Spread(ContextAdd(c, d).values, Width) = Slotwise(ComplexSum, v, w)
        /\ ContextSub(c, d).values \in Packed /\ ContextSub(c, d).known = (c.known /\ d.known)
        /\ Spread(ContextSub(c, d).values, Width) = Slotwise(ComplexDifference, v, w)
        /\ m.values \in Packed /\ m.known = (c.known /\ d.known)
        /\ Spread(m.values, Width) = Slotwise(ComplexProduct, v, w)
    BY <1>1, BinaryResults
  <2>2. m \in Ciphertexts /\ g \in Ciphertexts
    BY <1>1, BinaryTypes, UnaryTypes, 0 \in Int
  <2>3. /\ g.values \in Packed /\ g.known = c.known
        /\ Spread(g.values, Width) = Conjugated(v)
    BY <1>1, UnaryResults, 0 \in Int
  <2> HIDE DEF m, g
  <2>4. /\ ContextHMult(c, d).values = m.values /\ ContextHMult(c, d).known = m.known
        /\ ~ContextHMult(c, d).product
    BY <1>1, FusedResults DEF m
  <2>8. /\ ContextAdd(c, d) \in Ciphertexts /\ ContextSub(c, d) \in Ciphertexts
        /\ ContextHMult(c, d) \in Ciphertexts /\ ContextAdd(g, d) \in Ciphertexts
    BY <1>1, <2>2, BinaryTypes, 0 \in Int
  <2>9. /\ ~ContextAdd(c, d).product /\ ~ContextSub(c, d).product
        /\ m.product /\ ~ContextAdd(g, d).product
    BY <1>1, <2>2, BinaryProducts DEF m
  <2>5. /\ ContextAdd(g, d).values \in Packed /\ ContextAdd(g, d).known = (g.known /\ d.known)
        /\ Spread(ContextAdd(g, d).values, Width) =
             Slotwise(ComplexSum, Spread(g.values, Width), Spread(d.values, Width))
    BY <1>1, <2>2, <2>3, BinaryResults
  <2>6. w = Spread(d.values, Width)
    BY <1>1
  <2>7. /\ Means("ADD_CC", 0, ContextAdd(c, d))
        /\ Means("SUB_CC", 0, ContextSub(c, d))
        /\ Means("MULT_CC", 0, m)
        /\ Means("HMULT", 0, ContextHMult(c, d))
        /\ Means("HCONJ_ADD", 0, ContextAdd(g, d))
    <3> HIDE DEF c, d, v, w
    <3> QED BY <1>2, <2>1, <2>2, <2>3, <2>4, <2>5, <2>6, <2>8, <2>9
  <2> QED BY <2>7 DEF m, g
<1> HIDE DEF Means
<1>5. ASSUME NEW op, Opcode(op), NEW e, both => Means(op, 0, e),
             NEW guard, NEW asserted,
             CheddarKernel(Called(op, r, <<a, b>>, 0, 0),
               isCiphertext(a) /\ isCiphertext(b) /\ guard, asserted, ToldBoth(op, a, b), e)
      PROVE  ContractStep /\ CheddarPacked'
  <2> DEFINE accepts == isCiphertext(a) /\ isCiphertext(b) /\ guard
  <2>1. CheddarKernel(Called(op, r, <<a, b>>, 0, 0), accepts, asserted, ToldBoth(op, a, b), e)
    BY <1>5
  <2>2. accepts => both
    OBVIOUS
  <2> HIDE DEF accepts
  <2> QED BY <1>3, <1>5, <2>1, <2>2
<1> HIDE DEF c, d
<1>6. CASE cheddar_add_cc(r, a, b)
  BY <1>4, <1>5, <1>6 DEF cheddar_add_cc, Opcode, c, d
<1>7. CASE cheddar_sub_cc(r, a, b)
  BY <1>4, <1>5, <1>7 DEF cheddar_sub_cc, Opcode, c, d
<1>8. CASE cheddar_mult_cc(r, a, b)
  BY <1>4, <1>5, <1>8 DEF cheddar_mult_cc, Opcode, c, d
<1>9. CASE cheddar_hmult(r, a, b)
  BY <1>4, <1>5, <1>9 DEF cheddar_hmult, Opcode, c, d
<1>10. CASE cheddar_hconj_add(r, a, b)
  BY <1>4, <1>5, <1>10 DEF cheddar_hconj_add, Opcode, c, d
<1>11. ASSUME NEW op \in {"ADD_CP", "SUB_CP", "MULT_CP"}, cheddar_cp(op, r, a, b)
       PROVE  ContractStep /\ CheddarPacked'
  <2>1. ~isPlaintext(b)
    BY DEF isPlaintext, CheddarInvariant, FhnBuffers
  <2>2. buffers' = buffers /\ call' = Refused
    BY <1>11, <2>1 DEF cheddar_cp, CheddarKernel
  <2>3. Seen' = Seen
    BY <2>2 DEF Seen
  <2> QED BY <2>2, <2>3, ContractRefusal DEF CheddarPacked
<1>12. ASSUME NEW n \in Distances, cheddar_hrot_add(r, a, b, n)
       PROVE  ContractStep /\ CheddarPacked'
  <2> DEFINE slots == WidestOf(c, d)
             dist == normalizeRotationDistance(n, slots)
             accepts == /\ isCiphertext(a) /\ isCiphertext(b) /\ sameNpAndScale(c, d)
                        /\ dist >= 0
             asserted == sameNpAndScale(c, d) /\ (dist = 0 \/ KeyAsserted(dist, slots))
             result == IF dist = 0 THEN ContextAdd(c, d) ELSE ContextHRotAdd(c, d, dist)
  <2>1. n \in Int
    BY ConfigurationAssumption
  <2>2. accepts => Means("HROT_ADD", n, result)
    <3>1. SUFFICES ASSUME accepts PROVE Means("HROT_ADD", n, result)
      OBVIOUS
    <3>2. /\ result.values \in Packed /\ result.known = (c.known /\ d.known)
          /\ Spread(result.values, Width) =
               Slotwise(ComplexSum, Rotated(Spread(c.values, Width), n), Spread(d.values, Width))
      BY <1>1, <2>1, <3>1, RotatedSumResults
    <3>4. result \in Ciphertexts /\ ~result.product
      <4>1. dist \in Int
        BY <1>1, <2>1, <3>1, WidestOfCiphertexts, DistanceType
      <4> HIDE DEF dist
      <4> QED BY <1>1, <3>1, <4>1, BinaryTypes, BinaryProducts
    <3>3. v = Spread(c.values, Width) /\ w = Spread(d.values, Width)
      BY <1>1, <3>1
    <3> HIDE DEF result, v, w
    <3> QED BY <1>2, <3>2, <3>3, <3>4 DEF Means
  <2>3. CheddarKernel(Called("HROT_ADD", r, <<a, b>>, n, 0), accepts, asserted,
          ToldBoth("HROT_ADD", a, b), result)
    BY <1>12 DEF cheddar_hrot_add, c, d
  <2>4. accepts => both
    OBVIOUS
  <2>5. Opcode("HROT_ADD")
    BY DEF Opcode
  <2> HIDE DEF accepts, asserted, result
  <2> QED BY <1>3, <2>2, <2>3, <2>4, <2>5
<1> QED BY <1>6, <1>7, <1>8, <1>9, <1>10, <1>11, <1>12 DEF BinaryCalls

LEMMA FirstSlot ==
  ASSUME NEW v \in Fitting
  PROVE  Spread(v, Width)[1] = v[1]
<1>1. v \in SlotVector /\ Width \in Nat \ {0}
  BY PackingAssumption DEF Fitting
<1>2. Spread(v, Width)[1] = Slot(v, 1)
  BY <1>1, SpreadFacts
<1>3. Len(v) \in Nat \ {0}
  BY <1>1, SlotVectorFacts
<1>4. 0 % Len(v) = 0
  <2> DEFINE l == Len(v)
  <2>1. 0 = l * 0 + 0 /\ 0 \in 0..(l - 1) /\ l \in Nat /\ l > 0 /\ 0 \in Int
    BY <1>3
  <2> HIDE DEF l
  <2>2. 0 % l = 0
    BY <2>1, SameRemainder
  <2> QED BY <2>2 DEF l
<1>5. Slot(v, 1) = v[1 + (0 % Len(v))]
  BY DEF Slot
<1> QED BY <1>2, <1>4, <1>5

LEMMA CheddarHostMeans ==
  ASSUME backend = "cheddar", backend' = backend, CheddarInvariant, CheddarPacked,
         NEW h \in Handles, HostCalls(h)
  PROVE  ContractStep /\ CheddarPacked'
<1>1. DOMAIN buffers = Handles /\ buffers[h] \in FhnBuffers
      /\ buffers[h].ct.values \in Packed
  BY DEF CheddarInvariant, CheddarPacked
<1>0. Seen = buffers /\ Seen' = buffers'
  BY DEF Seen
<1>2. ASSUME NEW v \in Packed, Encryption(h, v)
      PROVE  ContractStep /\ CheddarPacked'
  <2> DEFINE fresh == FreshCiphertext(FreshLevel, 1, v)
             buffer == [buffers[h] EXCEPT !.kind = "Ciphertext", !.ct = fresh]
  <2>1. Put(h, buffer)
    BY <1>2 DEF Encryption
  <2>2. buffer.kind = "Ciphertext" /\ buffer.ct.values = v
        /\ buffer.ct.known /\ ~buffer.ct.product
    BY <1>1 DEF FreshCiphertext, FhnBuffers
  <2> HIDE DEF buffer
  <2>5. Ordinary \subseteq BufferTakes(buffer)
    BY <2>2 DEF BufferTakes, CheddarTakes, Told, Uses, Ordinary, Rescaling
  <2>3. ContractStep
    BY <1>0, <1>1, <2>1, <2>5, PutMeans DEF Put
  <2>4. CheddarPacked'
    BY <1>1, <2>1, <2>2 DEF CheddarPacked, Put
  <2> QED BY <2>3, <2>4
<1>3. ASSUME NEW v \in Packed, Put(h, [buffers[h] EXCEPT !.kind = "Message", !.msg = v])
      PROVE  ContractStep /\ CheddarPacked'
  <2> DEFINE buffer == [buffers[h] EXCEPT !.kind = "Message", !.msg = v]
  <2>1. Put(h, buffer)
    BY <1>3
  <2>2. buffer.msg = v /\ buffer.ct.values \in Packed /\ buffer.kind = "Message"
    BY <1>1 DEF FhnBuffers
  <2> HIDE DEF buffer
  <2>5. BufferMeaning(buffer) = Nothing
    BY <2>2 DEF BufferMeaning, CheddarMeaning
  <2>3. ContractStep
    BY <1>0, <1>1, <2>1, <2>5, PutMeans DEF Put
  <2>4. CheddarPacked'
    BY <1>1, <2>1, <2>2 DEF CheddarPacked, Put
  <2> QED BY <2>3, <2>4
<1>4. CASE fhn_encrypt_f64(h)
  <2>1. PICK s \in Values : Encryption(h, <<Real(s)>>)
    BY <1>4 DEF fhn_encrypt_f64
  <2>2. s \in Int
    BY StagedAssumption
  <2> DEFINE v == <<Real(s)>>
  <2>3. v \in Packed /\ Encryption(h, v)
    BY <2>1, <2>2, RealPacked
  <2> HIDE DEF v
  <2> QED BY <1>2, <2>3
<1>5. CASE StageMessage(h)
  <2>1. PICK m \in Staged : Put(h, [buffers[h] EXCEPT !.kind = "Message", !.msg = m])
    BY <1>5 DEF StageMessage
  <2>2. m \in Packed
    BY StagedAssumption DEF Packed, Lengths, SlotVector, Complex
  <2> QED BY <1>3, <2>1, <2>2
<1>6. CASE cheddar_fhn_buffer_encrypt_message(h)
  <2>1. buffers[h].msg \in Packed
    BY <1>6 DEF cheddar_fhn_buffer_encrypt_message, CheddarPacked
  <2> QED BY <1>2, <1>6, <2>1 DEF cheddar_fhn_buffer_encrypt_message
<1>7. CASE fhn_decrypt_f64(h)
  <2> DEFINE answer == IF Told("DECRYPT", ct(h)) THEN ct(h).values[1][1] ELSE Nothing
  <2>1. isCiphertext(h) /\ call' = Decrypted(h, answer) /\ Seen' = Seen /\ buffers' = buffers
    BY <1>0, <1>7 DEF fhn_decrypt_f64
  <2>2. /\ ct(h).values \in Packed
        /\ BufferMeaning(Seen[h]) # Nothing
        /\ BufferMeaning(Seen[h]) = Spread(ct(h).values, Width)
        /\ BufferTakes(Seen[h]) = {op \in Uses : Told(op, ct(h))}
    BY <2>1, OperandFacts
  <2>3. Spread(ct(h).values, Width)[1] = ct(h).values[1]
    BY <2>2, PackedFits, FirstSlot
  <2>5. "DECRYPT" \in BufferTakes(Seen[h]) => answer = BufferMeaning(Seen[h])[1][1]
    BY <2>2, <2>3
  <2> HIDE DEF answer
  <2>4. ContractStep
    BY <2>1, <2>2, <2>5, DecryptionMeans
  <2> QED BY <2>1, <2>4 DEF CheddarPacked
<1>8. CASE cheddar_fhn_buffer_read_complex(h)
  <2>1. PICK m \in {ct(h).values} \cup (IF Told("DECRYPT", ct(h)) THEN {} ELSE Staged) :
          Put(h, [buffers[h] EXCEPT !.kind = "Message", !.msg = m])
    BY <1>8 DEF cheddar_fhn_buffer_read_complex
  <2>2. ct(h).values \in Packed /\ Staged \subseteq Packed
    BY <1>1, StagedAssumption DEF ct, Packed, Lengths, SlotVector, Complex
  <2>3. m \in Packed
    BY <2>2
  <2> QED BY <1>3, <2>1, <2>3
<1>9. CASE EndsOver(h)
  <2>1. buffers' = buffers /\ call' = call /\ Seen' = Seen
    BY <1>0, <1>9 DEF EndsOver, hostVars
  <2> QED BY <2>1, ContractStutter DEF CheddarPacked
<1> QED BY <1>4, <1>5, <1>6, <1>7, <1>8, <1>9 DEF HostCalls

LEMMA CheddarMeans ==
  ASSUME backend = "cheddar", backend' = backend, CheddarInvariant, CheddarPacked, CheddarNext
  PROVE  ContractStep /\ CheddarPacked'
<1>1. CASE \E h \in Handles : HostCalls(h)
  BY <1>1, CheddarHostMeans
<1>2. CASE \E r \in Handles, a \in Handles \cup {Nothing} : UnaryCalls(r, a)
  BY <1>2, UnaryMeans
<1>3. CASE \E r \in Handles, a, b \in Handles \cup {Nothing} : BinaryCalls(r, a, b)
  BY <1>3, BinaryMeans
<1> QED BY <1>1, <1>2, <1>3 DEF CheddarNext

-----------------------------------------------------------------------------
(* The reference backend: a ciphertext is one slot, a vector its slots.     *)
LEMMA SlotwiseOf ==
  ASSUME NEW u \in Fitting, NEW v \in Fitting, NEW w \in Fitting
  PROVE  /\ (\A i \in Int : Slot(u, i) = ComplexSum(Slot(v, i), Slot(w, i))) =>
              Spread(u, Width) = Slotwise(ComplexSum, Spread(v, Width), Spread(w, Width))
         /\ (\A i \in Int : Slot(u, i) = ComplexDifference(Slot(v, i), Slot(w, i))) =>
              Spread(u, Width) = Slotwise(ComplexDifference, Spread(v, Width), Spread(w, Width))
         /\ (\A i \in Int : Slot(u, i) = ComplexProduct(Slot(v, i), Slot(w, i))) =>
              Spread(u, Width) = Slotwise(ComplexProduct, Spread(v, Width), Spread(w, Width))
<1> DEFINE a == Spread(v, Width)
           b == Spread(w, Width)
<1>1. 1..Width \subseteq Int
  BY PackingAssumption
<1>2. \A i \in Int : Slot(a, i) = Slot(v, i) /\ Slot(b, i) = Slot(w, i)
  BY SpreadWidth
<1>3. Widest(a, b) = Width
  BY WidestOfSpread
<1> HIDE DEF a, b
<1>4. Spread(u, Width) = [i \in 1..Width |-> Slot(u, i)]
  BY DEF Spread
<1>5. /\ Slotwise(ComplexSum, a, b) = [i \in 1..Width |-> ComplexSum(Slot(a, i), Slot(b, i))]
      /\ Slotwise(ComplexDifference, a, b) =
           [i \in 1..Width |-> ComplexDifference(Slot(a, i), Slot(b, i))]
      /\ Slotwise(ComplexProduct, a, b) =
           [i \in 1..Width |-> ComplexProduct(Slot(a, i), Slot(b, i))]
  BY <1>3 DEF Slotwise
<1>6. ASSUME \A i \in Int : Slot(u, i) = ComplexSum(Slot(v, i), Slot(w, i))
      PROVE  Spread(u, Width) = Slotwise(ComplexSum, a, b)
  BY <1>1, <1>2, <1>4, <1>5, <1>6
<1>7. ASSUME \A i \in Int : Slot(u, i) = ComplexDifference(Slot(v, i), Slot(w, i))
      PROVE  Spread(u, Width) = Slotwise(ComplexDifference, a, b)
  BY <1>1, <1>2, <1>4, <1>5, <1>7
<1>8. ASSUME \A i \in Int : Slot(u, i) = ComplexProduct(Slot(v, i), Slot(w, i))
      PROVE  Spread(u, Width) = Slotwise(ComplexProduct, a, b)
  BY <1>1, <1>2, <1>4, <1>5, <1>8
<1> QED BY <1>6, <1>7, <1>8 DEF a, b

LEMMA RealArithmetic ==
  ASSUME NEW x \in Int, NEW y \in Int
  PROVE  /\ Real(x + y) = ComplexSum(Real(x), Real(y))
         /\ Real(x - y) = ComplexDifference(Real(x), Real(y))
         /\ Real(x * y) = ComplexProduct(Real(x), Real(y))
         /\ Real(-x) = ComplexDifference(Real(0), Real(x))
<1>1. x * 0 = 0 /\ 0 * y = 0 /\ 0 * 0 = 0 /\ x * y \in Int
  OBVIOUS
<1> DEFINE p == x * y
<1>2. p - 0 = p /\ 0 + 0 = 0 /\ 0 - 0 = 0 /\ 0 - x = -x
  BY <1>1
<1> HIDE DEF p
<1>3. ComplexProduct(Real(x), Real(y)) = <<p - 0 * 0, x * 0 + 0 * y>>
  BY DEF ComplexProduct, Real, p
<1>4. Real(x * y) = ComplexProduct(Real(x), Real(y))
  BY <1>1, <1>2, <1>3 DEF Real, p
<1> QED BY <1>2, <1>4 DEF ComplexSum, ComplexDifference, Real

One(x) == Spread(<<Real(x)>>, Width)

LEMMA OneFits ==
  ASSUME NEW x \in Int
  PROVE  /\ <<Real(x)>> \in Fitting /\ \A i \in Int : Slot(<<Real(x)>>, i) = Real(x)
         /\ One(x) \in SlotVector /\ One(x)[1][1] = x
<1> DEFINE v == <<Real(x)>>
<1>1. v \in Fitting /\ \A i \in Int : Slot(v, i) = Real(x)
  BY RealPacked, PackedFits
<1>2. v[1] = Real(x) /\ Real(x)[1] = x
  BY DEF Real
<1> HIDE DEF v
<1>3. Spread(v, Width) \in SlotVector /\ Spread(v, Width)[1] = v[1]
  BY <1>1, SpreadWidth, FirstSlot
<1> QED BY <1>1, <1>2, <1>3 DEF v, One

LEMMA OneArithmetic ==
  ASSUME NEW x \in Int, NEW y \in Int
  PROVE  /\ One(x + y) = Slotwise(ComplexSum, One(x), One(y))
         /\ One(x - y) = Slotwise(ComplexDifference, One(x), One(y))
         /\ One(x * y) = Slotwise(ComplexProduct, One(x), One(y))
         /\ One(-x) = Slotwise(ComplexDifference, One(0), One(x))
<1> DEFINE AllAre(v, z) == v \in Fitting /\ \A i \in Int : Slot(v, i) = Real(z)
           v == <<Real(x)>>
           w == <<Real(y)>>
           o == <<Real(0)>>
<1>1. \A z \in Int : AllAre(<<Real(z)>>, z)
  BY OneFits
<1>2. AllAre(v, x) /\ AllAre(w, y) /\ AllAre(o, 0)
  BY <1>1, 0 \in Int
<1>3. x + y \in Int /\ x - y \in Int /\ x * y \in Int /\ -x \in Int
  OBVIOUS
<1> HIDE DEF v, w, o
<1>4. ASSUME NEW u, AllAre(u, x + y)
      PROVE  Spread(u, Width) = Slotwise(ComplexSum, Spread(v, Width), Spread(w, Width))
  <2>1. Real(x + y) = ComplexSum(Real(x), Real(y))
    BY RealArithmetic
  <2>2. \A i \in Int : Slot(u, i) = ComplexSum(Slot(v, i), Slot(w, i))
    BY <1>2, <1>4, <2>1
  <2> QED BY <1>2, <1>4, <2>2, SlotwiseOf
<1>5. ASSUME NEW u, AllAre(u, x - y)
      PROVE  Spread(u, Width) = Slotwise(ComplexDifference, Spread(v, Width), Spread(w, Width))
  <2>1. Real(x - y) = ComplexDifference(Real(x), Real(y))
    BY RealArithmetic
  <2>2. \A i \in Int : Slot(u, i) = ComplexDifference(Slot(v, i), Slot(w, i))
    BY <1>2, <1>5, <2>1
  <2> QED BY <1>2, <1>5, <2>2, SlotwiseOf
<1>6. ASSUME NEW u, AllAre(u, x * y)
      PROVE  Spread(u, Width) = Slotwise(ComplexProduct, Spread(v, Width), Spread(w, Width))
  <2>1. Real(x * y) = ComplexProduct(Real(x), Real(y))
    BY RealArithmetic
  <2>2. \A i \in Int : Slot(u, i) = ComplexProduct(Slot(v, i), Slot(w, i))
    BY <1>2, <1>6, <2>1
  <2> QED BY <1>2, <1>6, <2>2, SlotwiseOf
<1>7. ASSUME NEW u, AllAre(u, -x)
      PROVE  Spread(u, Width) = Slotwise(ComplexDifference, Spread(o, Width), Spread(v, Width))
  <2>1. Real(-x) = ComplexDifference(Real(0), Real(x))
    BY RealArithmetic
  <2>2. \A i \in Int : Slot(u, i) = ComplexDifference(Slot(o, i), Slot(v, i))
    BY <1>2, <1>7, <2>1
  <2> QED BY <1>2, <1>7, <2>2, SlotwiseOf
<1> HIDE DEF AllAre
<1>8. Spread(v, Width) = One(x) /\ Spread(w, Width) = One(y) /\ Spread(o, Width) = One(0)
  BY DEF v, w, o, One
<1>9. One(x + y) = Slotwise(ComplexSum, One(x), One(y))
  BY <1>1, <1>3, <1>4, <1>8 DEF One
<1>10. One(x - y) = Slotwise(ComplexDifference, One(x), One(y))
  BY <1>1, <1>3, <1>5, <1>8 DEF One
<1>11. One(x * y) = Slotwise(ComplexProduct, One(x), One(y))
  <2> DEFINE p == x * y
  <2>1. AllAre(<<Real(p)>>, p)
    BY <1>1, <1>3
  <2>2. Spread(<<Real(p)>>, Width) = Slotwise(ComplexProduct, Spread(v, Width), Spread(w, Width))
    BY <1>6, <2>1
  <2> QED BY <1>8, <2>2 DEF One
<1>12. One(-x) = Slotwise(ComplexDifference, One(0), One(x))
  BY <1>1, <1>3, <1>7, <1>8 DEF One
<1> QED BY <1>9, <1>10, <1>11, <1>12

-----------------------------------------------------------------------------
SlotIntegers == {xs \in Seq(Int) : xs # << >> /\ Repeats(Len(xs), Width)}

RealVector(xs) == [i \in DOMAIN xs |-> Real(xs[i])]

LEMMA IntegersFacts ==
  ASSUME NEW xs \in SlotIntegers
  PROVE  Len(xs) \in Nat \ {0} /\ DOMAIN xs = 1..Len(xs) /\ \A i \in 1..Len(xs) : xs[i] \in Int
  BY EmptySeq, LenProperties, ElementOfSeq DEF SlotIntegers

LEMMA BuiltIntegers ==
  ASSUME NEW n \in Nat \ {0}, Repeats(n, Width), NEW xs \in [1..n -> Int]
  PROVE  xs \in SlotIntegers /\ Len(xs) = n
<1>1. xs \in Seq(Int)
  BY SeqDef
<1>2. Len(xs) \in Nat /\ DOMAIN xs = 1..Len(xs) /\ DOMAIN xs = 1..n
  BY <1>1, LenProperties
<1>3. Len(xs) = n
  BY <1>2
<1>4. xs # << >>
  <2>1. Len(<< >>) = 0
    OBVIOUS
  <2> QED BY <1>3, <2>1
<1> QED BY <1>1, <1>3, <1>4 DEF SlotIntegers

LEMMA RealVectorFacts ==
  ASSUME NEW xs \in SlotIntegers
  PROVE  /\ RealVector(xs) \in Fitting /\ Len(RealVector(xs)) = Len(xs)
         /\ \A i \in Int : LET j == 1 + ((i - 1) % Len(xs)) IN
              j \in 1..Len(xs) /\ Slot(RealVector(xs), i) = Real(xs[j])
<1> DEFINE n == Len(xs)
<1>1. n \in Nat \ {0} /\ DOMAIN xs = 1..n /\ \A i \in 1..n : xs[i] \in Int
  BY IntegersFacts
<1>2. RealVector(xs) \in [1..n -> Complex]
  BY <1>1 DEF RealVector, Real, Complex
<1> HIDE DEF n
<1>3. RealVector(xs) \in SlotVector
  BY <1>1, <1>2, BuiltVector
<1>4. Len(RealVector(xs)) = n
  BY <1>1, <1>2, <1>3, SlotVectorFacts
<1>5. RealVector(xs) \in Fitting
  BY <1>3, <1>4 DEF Fitting, SlotIntegers, n
<1>6. ASSUME NEW i \in Int
      PROVE  LET j == 1 + ((i - 1) % n) IN
               j \in 1..n /\ Slot(RealVector(xs), i) = Real(xs[j])
  <2> DEFINE j == 1 + ((i - 1) % n)
  <2>1. j \in 1..n /\ Slot(RealVector(xs), i) = RealVector(xs)[j]
    BY <1>1, <1>3, <1>4, SlotOfBuilt
  <2> HIDE DEF j
  <2>2. RealVector(xs)[j] = Real(xs[j])
    BY <1>1, <2>1 DEF RealVector
  <2> QED BY <2>1, <2>2 DEF j
<1> QED BY <1>4, <1>5, <1>6 DEF n

(* Two vectors of a size, combined slot by slot.                            *)
LEMMA VectorArithmetic ==
  ASSUME NEW xs \in SlotIntegers, NEW ys \in SlotIntegers, Len(xs) = Len(ys),
         NEW zs \in SlotIntegers, Len(zs) = Len(xs)
  PROVE  LET v == Spread(RealVector(xs), Width)
             w == Spread(RealVector(ys), Width)
             u == Spread(RealVector(zs), Width)
         IN  /\ (\A j \in 1..Len(xs) : zs[j] = xs[j] + ys[j]) => u = Slotwise(ComplexSum, v, w)
             /\ (\A j \in 1..Len(xs) : zs[j] = xs[j] * ys[j]) => u = Slotwise(ComplexProduct, v, w)
<1> DEFINE a == RealVector(xs)
           b == RealVector(ys)
           c == RealVector(zs)
           n == Len(xs)
<1>1. n \in Nat \ {0} /\ \A j \in 1..n : xs[j] \in Int /\ ys[j] \in Int
  BY IntegersFacts
<1>2. a \in Fitting /\ b \in Fitting /\ c \in Fitting
  BY RealVectorFacts
<1>3. \A i \in Int : LET j == 1 + ((i - 1) % n) IN
        /\ j \in 1..n /\ Slot(a, i) = Real(xs[j])
        /\ Slot(b, i) = Real(ys[j]) /\ Slot(c, i) = Real(zs[j])
  BY RealVectorFacts
<1> HIDE DEF a, b, c, n
<1>4. ASSUME \A j \in 1..n : zs[j] = xs[j] + ys[j]
      PROVE  Spread(c, Width) = Slotwise(ComplexSum, Spread(a, Width), Spread(b, Width))
  <2>1. \A i \in Int : Slot(c, i) = ComplexSum(Slot(a, i), Slot(b, i))
    <3> TAKE i \in Int
    <3>1. PICK j \in 1..n : /\ Slot(a, i) = Real(xs[j])
                            /\ Slot(b, i) = Real(ys[j]) /\ Slot(c, i) = Real(zs[j])
      BY <1>3
    <3>2. Real(xs[j] + ys[j]) = ComplexSum(Real(xs[j]), Real(ys[j]))
      BY <1>1, RealArithmetic
    <3> QED BY <1>4, <3>1, <3>2
  <2> QED BY <1>2, <2>1, SlotwiseOf
<1>5. ASSUME \A j \in 1..n : zs[j] = xs[j] * ys[j]
      PROVE  Spread(c, Width) = Slotwise(ComplexProduct, Spread(a, Width), Spread(b, Width))
  <2>1. \A i \in Int : Slot(c, i) = ComplexProduct(Slot(a, i), Slot(b, i))
    <3> TAKE i \in Int
    <3>1. PICK j \in 1..n : /\ Slot(a, i) = Real(xs[j])
                            /\ Slot(b, i) = Real(ys[j]) /\ Slot(c, i) = Real(zs[j])
      BY <1>3
    <3>2. Real(xs[j] * ys[j]) = ComplexProduct(Real(xs[j]), Real(ys[j]))
      BY <1>1, RealArithmetic
    <3> QED BY <1>5, <3>1, <3>2
  <2> QED BY <1>2, <2>1, SlotwiseOf
<1> QED BY <1>4, <1>5 DEF a, b, c, n

LEMMA RotatedIntegers ==
  ASSUME NEW xs \in SlotIntegers, NEW n \in Int
  PROVE  LET ys == [i \in 1..Len(xs) |-> RotatedLeft(xs, n, i)] IN
           /\ ys \in SlotIntegers /\ Len(ys) = Len(xs)
           /\ \A i \in 1..Len(xs) : RotatedLeft(xs, n, i) \in Int
           /\ Spread(RealVector(ys), Width) = Rotated(Spread(RealVector(xs), Width), n)
<1> DEFINE l == Len(xs)
           d == n % l
           ys == [i \in 1..Len(xs) |-> RotatedLeft(xs, n, i)]
           v == RealVector(xs)
<1>1. l \in Nat \ {0} /\ DOMAIN xs = 1..l /\ \A i \in 1..l : xs[i] \in Int
  BY IntegersFacts
<1>2. d \in 0..(l - 1) /\ d % l = n % l
  <2> HIDE DEF l
  <2>1. d \in 0..(l - 1) /\ (0 + (n % l)) % l = (0 + n) % l
    BY <1>1, RemainderShifted, Remainder, 0 \in Int DEF Normalized
  <2>2. 0 + d = d /\ 0 + n = n
    BY <2>1
  <2> QED BY <2>1, <2>2
<1>3. ys = [i \in 1..l |-> xs[1 + ((i - 1 + d) % l)]]
  BY <1>1 DEF RotatedLeft, Normalized
<1> HIDE DEF ys, d, l
<1>4. \A i \in 1..l : 1 + ((i - 1 + d) % l) \in 1..l
  <2> TAKE i \in 1..l
  <2>1. i - 1 + d \in Int
    BY <1>1, <1>2
  <2>2. (i - 1 + d) % l \in 0..(l - 1)
    BY <1>1, <2>1, Remainder DEF Normalized
  <2> QED BY <1>1, <2>2
<1>5. ys \in [1..l -> Int]
  BY <1>1, <1>3, <1>4
<1>6. ys \in SlotIntegers /\ Len(ys) = l
  BY <1>1, <1>5, BuiltIntegers DEF SlotIntegers, l
<1>7. v \in Fitting /\ Len(v) = l /\ DOMAIN v = 1..l
  BY <1>1, RealVectorFacts DEF RealVector, l
<1>8. RealVector(ys) = Rotated(v, d)
  <2>1. RealVector(ys) = [i \in 1..l |-> Real(xs[1 + ((i - 1 + d) % l)])]
    BY <1>3, <1>5 DEF RealVector
  <2>2. \A i \in 1..l : Slot(v, i + d) = Real(xs[1 + ((i - 1 + d) % l)])
    <3> TAKE i \in 1..l
    <3>1. i + d \in Int /\ (i + d) - 1 = i - 1 + d
      BY <1>1, <1>2
    <3> QED BY <3>1, RealVectorFacts DEF l
  <2> HIDE DEF v
  <2>3. Rotated(v, d) = [i \in 1..l |-> Slot(v, i + d)]
    BY <1>7 DEF Rotated
  <2> QED BY <2>1, <2>2, <2>3
<1>9. Spread(RealVector(ys), Width) = Rotated(Spread(v, Width), n)
  <2> HIDE DEF v
  <2>1. d \in Int
    BY <1>2
  <2> QED BY <1>2, <1>7, <1>8, <2>1, SpreadRotated
<1>10. \A i \in 1..l : RotatedLeft(xs, n, i) \in Int
  <2>1. \A i \in 1..l : RotatedLeft(xs, n, i) = xs[1 + ((i - 1 + d) % l)]
    BY DEF RotatedLeft, Normalized, d, l
  <2> QED BY <1>1, <1>4, <2>1
<1> QED BY <1>6, <1>9, <1>10 DEF ys, v, l

LEMMA VectorBuilt ==
  ASSUME NEW xs \in SlotIntegers, NEW ys \in SlotIntegers, Len(xs) = Len(ys)
  PROVE  LET v == Spread(RealVector(xs), Width)
             w == Spread(RealVector(ys), Width)
             sum == [i \in DOMAIN xs |-> xs[i] + ys[i]]
             product == [i \in DOMAIN xs |-> xs[i] * ys[i]]
         IN  /\ sum \in SlotIntegers /\ product \in SlotIntegers
             /\ Spread(RealVector(sum), Width) = Slotwise(ComplexSum, v, w)
             /\ Spread(RealVector(product), Width) = Slotwise(ComplexProduct, v, w)
<1> DEFINE n == Len(xs)
           sum == [i \in 1..n |-> xs[i] + ys[i]]
           product == [i \in 1..n |-> xs[i] * ys[i]]
<1>1. /\ n \in Nat \ {0} /\ DOMAIN xs = 1..n
      /\ \A j \in 1..n : xs[j] \in Int /\ ys[j] \in Int
  BY IntegersFacts
<1>2. Repeats(n, Width)
  BY DEF SlotIntegers
<1> HIDE DEF n
<1>3. sum \in [1..n -> Int] /\ product \in [1..n -> Int]
  BY <1>1
<1>4. /\ \A j \in 1..n : sum[j] = xs[j] + ys[j]
      /\ \A j \in 1..n : product[j] = xs[j] * ys[j]
  OBVIOUS
<1> HIDE DEF sum, product
<1>5. sum \in SlotIntegers /\ Len(sum) = n /\ product \in SlotIntegers /\ Len(product) = n
  BY <1>1, <1>2, <1>3, BuiltIntegers
<1>6. /\ Spread(RealVector(sum), Width) =
           Slotwise(ComplexSum, Spread(RealVector(xs), Width), Spread(RealVector(ys), Width))
      /\ Spread(RealVector(product), Width) =
           Slotwise(ComplexProduct, Spread(RealVector(xs), Width), Spread(RealVector(ys), Width))
  BY <1>4, <1>5, VectorArithmetic DEF n
<1> QED BY <1>1, <1>5, <1>6 DEF sum, product

-----------------------------------------------------------------------------
ToyBuffers == [kind : {"Empty", "Ciphertext", "CiphertextVec"}, ct : Int, ct_vec : Seq(Int)]

GoodBuffer(buffer) ==
  /\ buffer \in ToyBuffers
  /\ buffer.kind = "CiphertextVec" => buffer.ct_vec \in SlotIntegers

LEMMA ToyMeanings ==
  ASSUME NEW buffer, GoodBuffer(buffer)
  PROVE  /\ buffer.ct \in Int /\ buffer.kind \in {"Empty", "Ciphertext", "CiphertextVec"}
         /\ buffer.kind = "Empty" => ToyMeaning(buffer) = Nothing
         /\ buffer.kind = "Ciphertext" =>
              ToyMeaning(buffer) = One(buffer.ct) /\ ToyMeaning(buffer) \in SlotVector
         /\ buffer.kind = "CiphertextVec" =>
              /\ buffer.ct_vec \in SlotIntegers
              /\ ToyMeaning(buffer) = Spread(RealVector(buffer.ct_vec), Width)
              /\ ToyMeaning(buffer) \in SlotVector
         /\ buffer.kind # "Empty" => ToyMeaning(buffer) # Nothing
<1>1. buffer.ct \in Int /\ buffer.kind \in {"Empty", "Ciphertext", "CiphertextVec"}
  BY DEF GoodBuffer, ToyBuffers
<1>2. buffer.kind = "Empty" => ToyMeaning(buffer) = Nothing
  BY DEF ToyMeaning
<1>3. buffer.kind = "Ciphertext" =>
        ToyMeaning(buffer) = One(buffer.ct) /\ ToyMeaning(buffer) \in SlotVector
  BY <1>1, OneFits DEF ToyMeaning, One
<1>4. buffer.kind = "CiphertextVec" =>
        /\ buffer.ct_vec \in SlotIntegers
        /\ ToyMeaning(buffer) = Spread(RealVector(buffer.ct_vec), Width)
        /\ ToyMeaning(buffer) \in SlotVector
  <2> SUFFICES ASSUME buffer.kind = "CiphertextVec"
               PROVE  /\ buffer.ct_vec \in SlotIntegers
                      /\ ToyMeaning(buffer) = Spread(RealVector(buffer.ct_vec), Width)
                      /\ ToyMeaning(buffer) \in SlotVector
    OBVIOUS
  <2>1. buffer.ct_vec \in SlotIntegers
    BY DEF GoodBuffer
  <2>2. ToyMeaning(buffer) = Spread(RealVector(buffer.ct_vec), Width)
    BY DEF ToyMeaning, RealVector
  <2>3. Spread(RealVector(buffer.ct_vec), Width) \in SlotVector
    BY <2>1, RealVectorFacts, SpreadWidth
  <2> QED BY <2>1, <2>2, <2>3
<1> QED BY <1>1, <1>2, <1>3, <1>4, VectorsAreThere

LEMMA WrittenMeanings ==
  ASSUME NEW buffer, GoodBuffer(buffer)
  PROVE  /\ \A x \in Int : /\ GoodBuffer(AsCiphertext(buffer, x))
                           /\ ToyMeaning(AsCiphertext(buffer, x)) = One(x)
         /\ \A xs \in SlotIntegers :
              /\ GoodBuffer(AsVector(buffer, xs))
              /\ ToyMeaning(AsVector(buffer, xs)) = Spread(RealVector(xs), Width)
<1>1. ASSUME NEW x \in Int
      PROVE  /\ GoodBuffer(AsCiphertext(buffer, x))
             /\ ToyMeaning(AsCiphertext(buffer, x)) = One(x)
  <2> DEFINE b == AsCiphertext(buffer, x)
  <2>1. b \in ToyBuffers /\ b.kind = "Ciphertext" /\ b.ct = x
    BY DEF GoodBuffer, ToyBuffers, AsCiphertext
  <2> HIDE DEF b
  <2>2. GoodBuffer(b)
    BY <2>1 DEF GoodBuffer
  <2> QED BY <2>1, <2>2, ToyMeanings DEF b
<1>2. ASSUME NEW xs \in SlotIntegers
      PROVE  /\ GoodBuffer(AsVector(buffer, xs))
             /\ ToyMeaning(AsVector(buffer, xs)) = Spread(RealVector(xs), Width)
  <2> DEFINE b == AsVector(buffer, xs)
  <2>0. xs \in Seq(Int)
    BY DEF SlotIntegers
  <2>1. b \in ToyBuffers /\ b.kind = "CiphertextVec" /\ b.ct_vec = xs
    BY <2>0 DEF GoodBuffer, ToyBuffers, AsVector
  <2> HIDE DEF b
  <2>2. GoodBuffer(b)
    BY <2>1 DEF GoodBuffer
  <2> QED BY <2>1, <2>2, ToyMeanings DEF b
<1> QED BY <1>1, <1>2

-----------------------------------------------------------------------------
(* The calls whose kernels go through the slots.                            *)
Sweeps(c) ==
  \/ \E r, a \in Handles, n \in Int :
       toyfhe_is_vec(a) /\ c = Called("ROTATE", r, <<a>>, n, 0)
  \/ \E op \in {"ADD_CC", "MULT_CC", "HMULT", "HROT_ADD"}, r, a, b \in Handles, n \in Int :
       SameSize(a, b) /\ c = Called(op, r, <<a, b>>, n, 0)

(* The vector out holds what the iterations so far compute from the         *)
(* operands as they are now.                                                *)
Swept(c, out) ==
  /\ out \in Seq(Int) /\ Len(out) <= Len(buffers[c.operands[1]].ct_vec)
  /\ \A j \in 1..Len(out) : out[j] = Computed(c, j)

VectorsInvariant ==
  /\ DOMAIN buffers = Handles /\ \A h \in Handles : GoodBuffer(buffers[h])
  /\ \/ loop = Idle
     \/ /\ loop = [running |-> TRUE, call |-> loop.call, out |-> loop.out, found |-> buffers]
        /\ Sweeps(loop.call) /\ Swept(loop.call, loop.out)

LEMMA SeenBuffers ==
  ASSUME backend = "toyfhe"
  PROVE  /\ VectorsInvariant => Seen = buffers
         /\ backend' = backend /\ VectorsInvariant' => Seen' = buffers'
<1>1. VectorsInvariant => Answered = buffers
  BY DEF VectorsInvariant, Answered, Idle
<1>2. VectorsInvariant' => Answered' = buffers'
  BY DEF VectorsInvariant, Answered, Idle
<1> QED BY <1>1, <1>2 DEF Seen

(* What an iteration computes for each kernel.                              *)
LEMMA ComputedForOne ==
  ASSUME NEW r, NEW a, NEW n, NEW i
  PROVE  Computed(Called("ROTATE", r, <<a>>, n, 0), i) = RotatedLeft(buffers[a].ct_vec, n, i)
<1> DEFINE c == Called("ROTATE", r, <<a>>, n, 0)
<1>1. c.op = "ROTATE" /\ c.operands[1] = a /\ c.param = n
  BY DEF Called
<1> HIDE DEF c
<1>2. Computed(c, i) = RotatedLeft(buffers[a].ct_vec, n, i)
  BY <1>1 DEF Computed
<1> QED BY <1>2 DEF c

LEMMA ComputedForTwo ==
  ASSUME NEW op, NEW r, NEW a, NEW b, NEW n, NEW i
  PROVE  LET c == Called(op, r, <<a, b>>, n, 0)
             xs == buffers[a].ct_vec
             ys == buffers[b].ct_vec
         IN  /\ op = "ADD_CC" => Computed(c, i) = xs[i] + ys[i]
             /\ op \in {"MULT_CC", "HMULT"} => Computed(c, i) = xs[i] * ys[i]
             /\ op = "HROT_ADD" => Computed(c, i) = RotatedLeft(xs, n, i) + ys[i]
<1> DEFINE c == Called(op, r, <<a, b>>, n, 0)
<1>1. c.op = op /\ c.operands = <<a, b>> /\ c.param = n
  BY DEF Called
<1>2. c.operands[1] = a /\ c.operands[2] = b /\ Len(c.operands) = 2
  BY <1>1
<1> HIDE DEF c
<1> DEFINE xs == buffers[a].ct_vec
           ys == buffers[b].ct_vec
<1>3. buffers[c.operands[1]].ct_vec = xs /\ buffers[c.operands[Len(c.operands)]].ct_vec = ys
  BY <1>2
<1> HIDE DEF xs, ys
<1>4. op = "ADD_CC" => Computed(c, i) = xs[i] + ys[i]
  BY <1>1, <1>3 DEF Computed
<1>5. op \in {"MULT_CC", "HMULT"} => Computed(c, i) = xs[i] * ys[i]
  BY <1>1, <1>3, Zenon DEF Computed
<1>6. op = "HROT_ADD" => Computed(c, i) = RotatedLeft(xs, n, i) + ys[i]
  BY <1>1, <1>3 DEF Computed
<1> QED BY <1>4, <1>5, <1>6 DEF c, xs, ys

LEMMA VectorFacts ==
  ASSUME VectorsInvariant, NEW a, a \in Handles, toyfhe_is_vec(a)
  PROVE  LET xs == buffers[a].ct_vec IN
           xs \in SlotIntegers /\ ToyMeaning(buffers[a]) = Spread(RealVector(xs), Width)
BY ToyMeanings DEF VectorsInvariant, toyfhe_is_vec

LEMMA SameSizeFacts ==
  ASSUME VectorsInvariant, NEW a \in Handles, NEW b \in Handles, SameSize(a, b)
  PROVE  /\ toyfhe_is_vec(a) /\ toyfhe_is_vec(b)
         /\ Len(buffers[a].ct_vec) = Len(buffers[b].ct_vec)
BY DEF SameSize

(* Every iteration computes a number.                                       *)
LEMMA ComputedType ==
  ASSUME VectorsInvariant, NEW c, Sweeps(c),
         NEW i \in 1..Len(buffers[c.operands[1]].ct_vec)
  PROVE  Computed(c, i) \in Int
<1>1. ASSUME NEW r \in Handles, NEW a \in Handles, NEW n \in Int,
             toyfhe_is_vec(a), c = Called("ROTATE", r, <<a>>, n, 0)
      PROVE  Computed(c, i) \in Int
  <2>1. c.operands[1] = a
    BY <1>1 DEF Called
  <2>2. RotatedLeft(buffers[a].ct_vec, n, i) \in Int
    BY <1>1, <2>1, VectorFacts, RotatedIntegers
  <2> QED BY <1>1, <2>2, ComputedForOne
<1>2. ASSUME NEW op \in {"ADD_CC", "MULT_CC", "HMULT", "HROT_ADD"}, NEW r \in Handles,
             NEW a \in Handles, NEW b \in Handles, NEW n \in Int,
             SameSize(a, b), c = Called(op, r, <<a, b>>, n, 0)
      PROVE  Computed(c, i) \in Int
  <2> DEFINE xs == buffers[a].ct_vec
             ys == buffers[b].ct_vec
  <2>1. c.operands[1] = a
    BY <1>2 DEF Called
  <2>2. xs \in SlotIntegers /\ ys \in SlotIntegers /\ Len(xs) = Len(ys) /\ i \in 1..Len(xs)
    BY <1>2, <2>1, SameSizeFacts, VectorFacts
  <2>3. /\ op = "ADD_CC" => Computed(c, i) = xs[i] + ys[i]
        /\ op \in {"MULT_CC", "HMULT"} => Computed(c, i) = xs[i] * ys[i]
        /\ op = "HROT_ADD" => Computed(c, i) = RotatedLeft(xs, n, i) + ys[i]
    BY <1>2, ComputedForTwo
  <2> HIDE DEF xs, ys
  <2>4. xs[i] \in Int /\ ys[i] \in Int /\ RotatedLeft(xs, n, i) \in Int
    BY <1>2, <2>2, IntegersFacts, RotatedIntegers
  <2>5. xs[i] * ys[i] \in Int /\ xs[i] + ys[i] \in Int /\ RotatedLeft(xs, n, i) + ys[i] \in Int
    BY <2>4
  <2> QED BY <2>3, <2>5
<1> QED BY <1>1, <1>2 DEF Sweeps

(* A loop that has gone through the slots has the meaning of its opcode.    *)
LEMMA SweptMeans ==
  ASSUME backend = "toyfhe", VectorsInvariant, NEW c, Sweeps(c), NEW out, Swept(c, out),
         Len(out) = Len(buffers[c.operands[1]].ct_vec)
  PROVE  out \in SlotIntegers /\ Spread(RealVector(out), Width) = Contract!Outcome(c)
<1>1. Len(out) \in Nat /\ out = [j \in 1..Len(out) |-> Computed(c, j)]
  BY LenProperties DEF Swept
<1>2. \A h \in Handles : BufferMeaning(Seen[h]) = ToyMeaning(buffers[h])
  BY SeenBuffers DEF BufferMeaning
<1>3. ASSUME NEW r \in Handles, NEW a \in Handles, NEW n \in Int,
             toyfhe_is_vec(a), c = Called("ROTATE", r, <<a>>, n, 0)
      PROVE  out \in SlotIntegers /\ Spread(RealVector(out), Width) = Contract!Outcome(c)
  <2> DEFINE xs == buffers[a].ct_vec
             v == ToyMeaning(buffers[a])
  <2>1. c.operands[1] = a
    BY <1>3 DEF Called
  <2>2. xs \in SlotIntegers /\ v = Spread(RealVector(xs), Width) /\ Len(out) = Len(xs)
    BY <1>3, <2>1, VectorFacts
  <2>3. Contract!Outcome(c) = Contract!Meaning("ROTATE", v, v, n, 0)
    BY <1>2, <1>3, OutcomeOfOne
  <2>4. \A j : Computed(c, j) = RotatedLeft(xs, n, j)
    BY <1>3, ComputedForOne
  <2> HIDE DEF xs, v
  <2>5. out = [j \in 1..Len(xs) |-> RotatedLeft(xs, n, j)]
    BY <1>1, <2>2, <2>4
  <2>6. out \in SlotIntegers /\ Spread(RealVector(out), Width) = Rotated(v, n)
    BY <2>2, <2>5, RotatedIntegers
  <2> QED BY <2>3, <2>6, ContractMeanings
<1>4. ASSUME NEW op \in {"ADD_CC", "MULT_CC", "HMULT", "HROT_ADD"}, NEW r \in Handles,
             NEW a \in Handles, NEW b \in Handles, NEW n \in Int,
             SameSize(a, b), c = Called(op, r, <<a, b>>, n, 0)
      PROVE  out \in SlotIntegers /\ Spread(RealVector(out), Width) = Contract!Outcome(c)
  <2> DEFINE xs == buffers[a].ct_vec
             ys == buffers[b].ct_vec
             v == ToyMeaning(buffers[a])
             w == ToyMeaning(buffers[b])
  <2>1. c.operands[1] = a
    BY <1>4 DEF Called
  <2>2. /\ xs \in SlotIntegers /\ v = Spread(RealVector(xs), Width)
        /\ ys \in SlotIntegers /\ w = Spread(RealVector(ys), Width)
        /\ Len(xs) = Len(ys) /\ Len(out) = Len(xs)
    BY <1>4, <2>1, SameSizeFacts, VectorFacts
  <2>3. Contract!Outcome(c) = Contract!Meaning(op, v, w, n, 0)
    BY <1>2, <1>4, OutcomeOfTwo
  <2>4. \A j : /\ op = "ADD_CC" => Computed(c, j) = xs[j] + ys[j]
               /\ op \in {"MULT_CC", "HMULT"} => Computed(c, j) = xs[j] * ys[j]
               /\ op = "HROT_ADD" => Computed(c, j) = RotatedLeft(xs, n, j) + ys[j]
    BY <1>4, ComputedForTwo
  <2> HIDE DEF xs, ys, v, w
  <2>5. DOMAIN xs = 1..Len(xs)
    BY <2>2, IntegersFacts
  <2>6. CASE op = "ADD_CC"
    <3>1. out = [j \in DOMAIN xs |-> xs[j] + ys[j]]
      BY <1>1, <2>2, <2>4, <2>5, <2>6
    <3>2. out \in SlotIntegers /\ Spread(RealVector(out), Width) = Slotwise(ComplexSum, v, w)
      BY <2>2, <3>1, VectorBuilt
    <3> QED BY <2>3, <2>6, <3>2, ContractMeanings
  <2>7. CASE op \in {"MULT_CC", "HMULT"}
    <3>1. out = [j \in DOMAIN xs |-> xs[j] * ys[j]]
      BY <1>1, <2>2, <2>4, <2>5, <2>7
    <3>2. out \in SlotIntegers /\ Spread(RealVector(out), Width) = Slotwise(ComplexProduct, v, w)
      BY <2>2, <3>1, VectorBuilt
    <3> QED BY <2>3, <2>7, <3>2, ContractMeanings
  <2>8. CASE op = "HROT_ADD"
    <3> DEFINE moved == [j \in 1..Len(xs) |-> RotatedLeft(xs, n, j)]
    <3>1. /\ moved \in SlotIntegers /\ Len(moved) = Len(xs)
          /\ Spread(RealVector(moved), Width) = Rotated(v, n)
      BY <2>2, RotatedIntegers
    <3>2. out = [j \in DOMAIN moved |-> moved[j] + ys[j]]
      BY <1>1, <2>2, <2>4, <2>8
    <3> HIDE DEF moved
    <3>3. /\ out \in SlotIntegers
          /\ Spread(RealVector(out), Width) = Slotwise(ComplexSum, Rotated(v, n), w)
      BY <2>2, <3>1, <3>2, VectorBuilt
    <3> QED BY <2>3, <2>8, <3>3, ContractMeanings
  <2> QED BY <2>6, <2>7, <2>8
<1> QED BY <1>3, <1>4 DEF Sweeps

-----------------------------------------------------------------------------
(* Between calls there is no loop; a kernel that refuses, or answers at     *)
(* once, leaves none.                                                       *)
LEMMA IdleFacts ==
  ASSUME VectorsInvariant, ~loop.running
  PROVE  loop = Idle
BY DEF VectorsInvariant

LEMMA RefuseMeans ==
  ASSUME backend = "toyfhe", backend' = backend, VectorsInvariant, ~loop.running, Refuse
  PROVE  ContractStep /\ VectorsInvariant'
<1>1. buffers' = buffers /\ loop' = Idle /\ call' = Refused
  BY IdleFacts DEF Refuse
<1>2. VectorsInvariant'
  BY <1>1 DEF VectorsInvariant, Idle
<1>3. Seen' = Seen
  BY <1>1, <1>2, SeenBuffers
<1> QED BY <1>1, <1>2, <1>3, ContractRefusal

LEMMA AnswerMeans ==
  ASSUME backend = "toyfhe", backend' = backend, VectorsInvariant, ~loop.running,
         NEW called, called.result \in Handles, Opcode(called.op),
         \A k \in DOMAIN called.operands : called.operands[k] \in Handles,
         NEW buffer, GoodBuffer(buffer),
         (\A k \in DOMAIN called.operands : buffers[called.operands[k]].kind # "Empty") =>
           buffer.kind # "Empty" /\ ToyMeaning(buffer) = Contract!Outcome(called),
         Answer(called, buffer)
  PROVE  ContractStep /\ VectorsInvariant'
<1>1. /\ call' = called /\ buffers' = [buffers EXCEPT ![called.result] = buffer]
      /\ loop' = Idle
  BY IdleFacts DEF Answer
<1>2. VectorsInvariant'
  BY <1>1 DEF VectorsInvariant, Idle
<1>3. Seen = buffers /\ Seen' = buffers'
  BY <1>2, SeenBuffers
<1>4. \A h \in Handles \ {called.result} : Seen'[h] = Seen[h]
  BY <1>1, <1>3 DEF VectorsInvariant
<1>5. Seen'[called.result] = buffer
  BY <1>1, <1>3 DEF VectorsInvariant
<1>6. ASSUME \A k \in DOMAIN called.operands :
               called.op \in BufferTakes(Seen[called.operands[k]])
      PROVE  /\ BufferMeaning(Seen'[called.result]) = Contract!Outcome(called)
             /\ Contract!Follows(called.op) \subseteq BufferTakes(Seen'[called.result])
  <2>1. \A k \in DOMAIN called.operands : buffers[called.operands[k]].kind # "Empty"
    BY <1>3, <1>6 DEF BufferTakes, ToyTakes
  <2>2. buffer.kind # "Empty" /\ ToyMeaning(buffer) = Contract!Outcome(called)
    BY <2>1
  <2>3. BufferMeaning(buffer) = ToyMeaning(buffer) /\ BufferTakes(buffer) = Uses
    BY <2>2 DEF BufferMeaning, BufferTakes, ToyTakes
  <2>4. Contract!Follows(called.op) \subseteq Uses
    BY DEF Contract!Follows, Contract!Ordinary, Uses, Ordinary
  <2> QED BY <1>5, <2>2, <2>3, <2>4
<1>7. ContractStep
  BY <1>1, <1>4, <1>6, ContractSuccess
<1> QED BY <1>2, <1>7

LEMMA UnaryAnswerMeans ==
  ASSUME backend = "toyfhe", backend' = backend, VectorsInvariant, ~loop.running,
         NEW r \in Handles, NEW a \in Handles, NEW op, Opcode(op), NEW s,
         NEW buffer, GoodBuffer(buffer),
         buffers[a].kind # "Empty" =>
           LET v == ToyMeaning(buffers[a]) IN
             buffer.kind # "Empty" /\ ToyMeaning(buffer) = Contract!Meaning(op, v, v, 0, s),
         Answer(Called(op, r, <<a>>, 0, s), buffer)
  PROVE  ContractStep /\ VectorsInvariant'
<1> DEFINE called == Called(op, r, <<a>>, 0, s)
           v == ToyMeaning(buffers[a])
<1>1. /\ called.result \in Handles /\ Opcode(called.op)
      /\ DOMAIN called.operands = {1} /\ called.operands[1] = a
  BY DEF Called
<1>2. Contract!Outcome(called) = Contract!Meaning(op, v, v, 0, s)
  BY OutcomeOfOne, SeenBuffers DEF BufferMeaning
<1>3. Answer(called, buffer)
  OBVIOUS
<1>4. buffers[a].kind # "Empty" =>
        buffer.kind # "Empty" /\ ToyMeaning(buffer) = Contract!Meaning(op, v, v, 0, s)
  OBVIOUS
<1> HIDE DEF called, v
<1> QED BY <1>1, <1>2, <1>3, <1>4, AnswerMeans

LEMMA BinaryAnswerMeans ==
  ASSUME backend = "toyfhe", backend' = backend, VectorsInvariant, ~loop.running,
         NEW r \in Handles, NEW a \in Handles, NEW b \in Handles, NEW op, Opcode(op),
         NEW buffer, GoodBuffer(buffer),
         buffers[a].kind # "Empty" /\ buffers[b].kind # "Empty" =>
           LET v == ToyMeaning(buffers[a])
               w == ToyMeaning(buffers[b])
           IN  buffer.kind # "Empty" /\ ToyMeaning(buffer) = Contract!Meaning(op, v, w, 0, 0),
         Answer(Called(op, r, <<a, b>>, 0, 0), buffer)
  PROVE  ContractStep /\ VectorsInvariant'
<1> DEFINE called == Called(op, r, <<a, b>>, 0, 0)
           v == ToyMeaning(buffers[a])
           w == ToyMeaning(buffers[b])
<1>1. /\ called.result \in Handles /\ Opcode(called.op)
      /\ DOMAIN called.operands = 1..2 /\ called.operands[1] = a /\ called.operands[2] = b
  BY DEF Called
<1>2. Contract!Outcome(called) = Contract!Meaning(op, v, w, 0, 0)
  BY OutcomeOfTwo, SeenBuffers DEF BufferMeaning
<1>3. Answer(called, buffer)
  OBVIOUS
<1>4. buffers[a].kind # "Empty" /\ buffers[b].kind # "Empty" =>
        buffer.kind # "Empty" /\ ToyMeaning(buffer) = Contract!Meaning(op, v, w, 0, 0)
  OBVIOUS
<1> HIDE DEF called, v, w
<1>5. 1 \in 1..2 /\ 2 \in 1..2 /\ \A k \in 1..2 : k = 1 \/ k = 2
  OBVIOUS
<1> QED BY <1>1, <1>2, <1>3, <1>4, <1>5, AnswerMeans

(* The loop.                                                                *)
LEMMA SweepsType ==
  ASSUME NEW c, Sweeps(c)
  PROVE  /\ c.result \in Handles /\ Opcode(c.op)
         /\ \A k \in DOMAIN c.operands : c.operands[k] \in Handles
         /\ c.operands[1] \in Handles /\ toyfhe_is_vec(c.operands[1])
<1>1. ASSUME NEW r \in Handles, NEW a \in Handles, NEW n \in Int,
             toyfhe_is_vec(a), c = Called("ROTATE", r, <<a>>, n, 0)
      PROVE  /\ c.result \in Handles /\ Opcode(c.op)
             /\ \A k \in DOMAIN c.operands : c.operands[k] \in Handles
             /\ c.operands[1] \in Handles /\ toyfhe_is_vec(c.operands[1])
  <2>1. c.result = r /\ c.op = "ROTATE" /\ c.operands[1] = a /\ DOMAIN c.operands = {1}
    BY <1>1 DEF Called
  <2> QED BY <1>1, <2>1 DEF Opcode
<1>2. ASSUME NEW op \in {"ADD_CC", "MULT_CC", "HMULT", "HROT_ADD"}, NEW r \in Handles,
             NEW a \in Handles, NEW b \in Handles, NEW n \in Int,
             SameSize(a, b), c = Called(op, r, <<a, b>>, n, 0)
      PROVE  /\ c.result \in Handles /\ Opcode(c.op)
             /\ \A k \in DOMAIN c.operands : c.operands[k] \in Handles
             /\ c.operands[1] \in Handles /\ toyfhe_is_vec(c.operands[1])
  <2>1. c.result = r /\ c.op = op /\ c.operands = <<a, b>>
    BY <1>2 DEF Called
  <2>2. c.operands[1] = a /\ c.operands[2] = b /\ DOMAIN c.operands = 1..2
    BY <2>1
  <2>3. \A k \in 1..2 : k = 1 \/ k = 2
    OBVIOUS
  <2>4. toyfhe_is_vec(a)
    BY <1>2 DEF SameSize
  <2> QED BY <1>2, <2>1, <2>2, <2>3, <2>4 DEF Opcode
<1> QED BY <1>1, <1>2 DEF Sweeps

LEMMA SweepsKept ==
  ASSUME buffers' = buffers, NEW c, Sweeps(c), loop'.call = c
  PROVE  Sweeps(loop.call)'
BY DEF Sweeps, SameSize, toyfhe_is_vec, Called

LEMMA EnterLoopMeans ==
  ASSUME backend = "toyfhe", backend' = backend, VectorsInvariant, ~loop.running,
         NEW c, Sweeps(c), EnterLoop(c)
  PROVE  ContractStep /\ VectorsInvariant'
<1>1. /\ loop' = [running |-> TRUE, call |-> c, out |-> << >>, found |-> buffers]
      /\ buffers' = buffers /\ call' = call
  BY DEF EnterLoop
<1>2. Sweeps(loop.call)'
  BY <1>1, SweepsKept
<1>3. c.operands[1] \in Handles /\ toyfhe_is_vec(c.operands[1])
  BY SweepsType
<1>4. Len(buffers[c.operands[1]].ct_vec) \in Nat
  BY <1>3, VectorFacts, IntegersFacts
<1>5. loop'.call = c /\ loop'.out = << >>
  BY <1>1
<1>6. Swept(loop.call, loop.out)'
  <2>1. loop'.out \in Seq(Int) /\ Len(loop'.out) = 0
    BY <1>5, EmptySeq
  <2>2. Len(loop'.out) <= Len(buffers'[loop'.call.operands[1]].ct_vec)
    BY <1>1, <1>4, <1>5, <2>1
  <2> QED BY <2>1, <2>2 DEF Swept
<1>7. /\ DOMAIN buffers' = Handles /\ \A h \in Handles : GoodBuffer(buffers'[h])
      /\ loop' = [running |-> TRUE, call |-> loop'.call, out |-> loop'.out, found |-> buffers']
  BY <1>1 DEF VectorsInvariant
<1>8. VectorsInvariant'
  BY <1>2, <1>6, <1>7 DEF VectorsInvariant
<1>9. Seen' = Seen
  BY <1>1, <1>8, SeenBuffers
<1> QED BY <1>1, <1>8, <1>9, ContractStutter

LEMMA RunningFacts ==
  ASSUME VectorsInvariant, loop.running
  PROVE  /\ loop = [running |-> TRUE, call |-> loop.call, out |-> loop.out, found |-> buffers]
         /\ Sweeps(loop.call) /\ Swept(loop.call, loop.out)
BY DEF VectorsInvariant, Idle

LEMMA IterateMeans ==
  ASSUME backend = "toyfhe", backend' = backend, VectorsInvariant, Iterate
  PROVE  ContractStep /\ VectorsInvariant'
<1> DEFINE c == loop.call
           out == loop.out
           n == Len(buffers[c.operands[1]].ct_vec)
           x == Computed(c, Len(out) + 1)
<1>1. /\ loop = [running |-> TRUE, call |-> c, out |-> out, found |-> buffers]
      /\ Sweeps(c) /\ Swept(c, out)
  BY RunningFacts DEF Iterate
<1>2. /\ loop' = [loop EXCEPT !.out = Append(out, x)] /\ buffers' = buffers /\ call' = call
      /\ Len(out) < n
  BY DEF Iterate, hostVars, Slots
<1>3. /\ loop' = [running |-> TRUE, call |-> c, out |-> Append(out, x), found |-> buffers]
  <2> HIDE DEF c, out, x
  <2> QED BY <1>1, <1>2
<1>4. c.operands[1] \in Handles /\ toyfhe_is_vec(c.operands[1])
  <2> HIDE DEF c
  <2> QED BY <1>1, SweepsType
<1>5. n \in Nat /\ out \in Seq(Int) /\ Len(out) \in Nat
  BY <1>1, <1>4, VectorFacts, IntegersFacts, LenProperties DEF Swept
<1>6. x \in Int
  BY <1>1, <1>2, <1>5, ComputedType
<1>7. loop'.call = c /\ loop'.out = Append(out, x)
  BY <1>3
<1>8. Sweeps(loop.call)'
  BY <1>1, <1>2, <1>7, SweepsKept
<1>9. Swept(loop.call, loop.out)'
  <2>1. \A j \in 1..Len(out) : out[j] = Computed(c, j)
    BY <1>1 DEF Swept
  <2>2. \A j : Computed(loop.call, j)' = Computed(c, j)
    BY <1>2, <1>7 DEF Computed, RotatedLeft, Normalized
  <2>3. Len(buffers'[loop'.call.operands[1]].ct_vec) = n
    BY <1>2, <1>7
  <2> HIDE DEF c, out, n
  <2>4. /\ Append(out, x) \in Seq(Int) /\ Len(Append(out, x)) = Len(out) + 1
        /\ \A j \in 1..Len(out) : Append(out, x)[j] = out[j]
        /\ Append(out, x)[Len(out) + 1] = x
    <3> HIDE DEF x
    <3> QED BY <1>5, <1>6, AppendProperties
  <2>5. \A j \in 1..(Len(out) + 1) : Append(out, x)[j] = Computed(c, j)
    <3> TAKE j \in 1..(Len(out) + 1)
    <3>1. CASE j \in 1..Len(out)
      BY <2>1, <2>4, <3>1
    <3>2. CASE j = Len(out) + 1
      BY <2>4, <3>2
    <3> QED BY <1>5, <3>1, <3>2
  <2>6. /\ loop'.out \in Seq(Int) /\ Len(loop'.out) <= n
        /\ \A j \in 1..Len(loop'.out) : loop'.out[j] = Computed(c, j)
    <3> HIDE DEF x
    <3> QED BY <1>2, <1>5, <1>7, <2>4, <2>5
  <2> QED BY <2>2, <2>3, <2>6 DEF Swept
<1>10. /\ DOMAIN buffers' = Handles /\ \A h \in Handles : GoodBuffer(buffers'[h])
       /\ loop' = [running |-> TRUE, call |-> loop'.call, out |-> loop'.out, found |-> buffers']
  BY <1>2, <1>3 DEF VectorsInvariant
<1>11. VectorsInvariant'
  BY <1>8, <1>9, <1>10 DEF VectorsInvariant
<1>12. Seen' = Seen
  BY <1>2, <1>11, SeenBuffers
<1> QED BY <1>2, <1>11, <1>12, ContractStutter

LEMMA FinishLoopMeans ==
  ASSUME backend = "toyfhe", backend' = backend, VectorsInvariant, FinishLoop
  PROVE  ContractStep /\ VectorsInvariant'
<1> DEFINE c == loop.call
           out == loop.out
           r == c.result
           buffer == AsVector(buffers[r], out)
<1>1. Sweeps(c) /\ Swept(c, out) /\ Len(out) = Len(buffers[c.operands[1]].ct_vec)
  BY RunningFacts DEF FinishLoop, Slots
<1>2. /\ call' = c /\ buffers' = [buffers EXCEPT ![r] = buffer] /\ loop' = Idle
  BY DEF FinishLoop
<1>3. /\ r \in Handles /\ Opcode(c.op)
      /\ \A k \in DOMAIN c.operands : c.operands[k] \in Handles
  <2> HIDE DEF c
  <2> QED BY <1>1, SweepsType DEF r
<1>4. out \in SlotIntegers /\ Spread(RealVector(out), Width) = Contract!Outcome(c)
  <2> HIDE DEF c, out
  <2> QED BY <1>1, SweptMeans
<1>5. GoodBuffer(buffer) /\ ToyMeaning(buffer) = Contract!Outcome(c)
      /\ buffer.kind # "Empty"
  <2>1. GoodBuffer(buffers[r])
    BY <1>3 DEF VectorsInvariant
  <2>2. buffer.kind = "CiphertextVec"
    BY <2>1 DEF AsVector, GoodBuffer, ToyBuffers
  <2> HIDE DEF c, r, out
  <2> QED BY <1>4, <2>1, <2>2, WrittenMeanings
<1> HIDE DEF c, buffer, r
<1>6. VectorsInvariant'
  BY <1>2, <1>5 DEF VectorsInvariant, Idle
<1>7. Seen = buffers /\ Seen' = buffers'
  BY <1>6, SeenBuffers
<1>8. (\A h \in Handles \ {r} : Seen'[h] = Seen[h]) /\ Seen'[r] = buffer
  BY <1>2, <1>3, <1>7 DEF VectorsInvariant
<1>9. BufferMeaning(buffer) = ToyMeaning(buffer) /\ BufferTakes(buffer) = Uses
  BY <1>5 DEF BufferMeaning, BufferTakes, ToyTakes
<1>10. Contract!Follows(c.op) \subseteq Uses
  BY DEF Contract!Follows, Contract!Ordinary, Uses, Ordinary
<1>11. ContractStep
  BY <1>2, <1>3, <1>5, <1>8, <1>9, <1>10, ContractSuccess DEF r
<1> QED BY <1>6, <1>11

-----------------------------------------------------------------------------
(* The kernels of one ciphertext, which read no vector.                     *)
LEMMA OneCiphertextMeans ==
  ASSUME backend = "toyfhe", backend' = backend, VectorsInvariant, ~loop.running,
         ~ScalarsOnVectors, NEW r \in Handles, NEW a \in Handles
  PROVE  /\ toyfhe_negate(r, a) => ContractStep /\ VectorsInvariant'
         /\ \A s \in Factors : toyfhe_add_cs(r, a, s) => ContractStep /\ VectorsInvariant'
         /\ \A s \in Factors : toyfhe_mult_cs(r, a, s) => ContractStep /\ VectorsInvariant'
<1> DEFINE x == buffers[a].ct
           v == ToyMeaning(buffers[a])
           filled == buffers[a].kind # "Empty"
<1>1. GoodBuffer(buffers[r]) /\ GoodBuffer(buffers[a]) /\ x \in Int
  BY ToyMeanings DEF VectorsInvariant
<1>2. ~toyfhe_is_vec(a) /\ filled => v = One(x)
  BY <1>1, MarkAssumption, ToyMeanings DEF toyfhe_is_vec
<1> HIDE DEF x, v, filled
<1>3. ASSUME NEW op, Opcode(op), NEW s, NEW y \in Int,
             v = One(x) => One(y) = Contract!Meaning(op, v, v, 0, s),
             OnOneCiphertext(Called(op, r, <<a>>, 0, s), y)
      PROVE  ContractStep /\ VectorsInvariant'
  <2> DEFINE called == Called(op, r, <<a>>, 0, s)
             buffer == AsCiphertext(buffers[r], y)
  <2>1. called.operands[1] = a /\ 1 \in DOMAIN called.operands /\ called.result = r
    BY DEF Called
  <2>2. ~toyfhe_is_vec(a) /\ Answer(called, buffer)
    BY <1>3, <2>1 DEF OnOneCiphertext, Suitable
  <2>3. GoodBuffer(buffer) /\ ToyMeaning(buffer) = One(y) /\ buffer.kind # "Empty"
    <3>1. buffer.kind = "Ciphertext"
      BY <1>1 DEF AsCiphertext, GoodBuffer, ToyBuffers
    <3> QED BY <1>1, <3>1, WrittenMeanings
  <2> HIDE DEF buffer
  <2>4. filled =>
          buffer.kind # "Empty" /\ ToyMeaning(buffer) = Contract!Meaning(op, v, v, 0, s)
    BY <1>2, <1>3, <2>2, <2>3
  <2> QED BY <1>3, <2>2, <2>3, <2>4, UnaryAnswerMeans DEF v, filled
<1>4. ASSUME toyfhe_negate(r, a) PROVE ContractStep /\ VectorsInvariant'
  <2>1. OnOneCiphertext(Called("NEGATE", r, <<a>>, 0, 0), -x) /\ -x \in Int
    BY <1>1, <1>4 DEF toyfhe_negate, x
  <2>2. v = One(x) => One(-x) = Contract!Meaning("NEGATE", v, v, 0, 0)
    BY <1>1, OneArithmetic, ContractMeanings DEF One
  <2> QED BY <1>3, <2>1, <2>2 DEF Opcode
<1>5. ASSUME NEW s \in Factors, toyfhe_add_cs(r, a, s)
      PROVE  ContractStep /\ VectorsInvariant'
  <2>1. s \in Int /\ x + s \in Int
    BY <1>1, StagedAssumption
  <2>2. OnOneCiphertext(Called("ADD_CS", r, <<a>>, 0, s), x + s)
    BY <1>5 DEF toyfhe_add_cs, x
  <2>3. One(x + s) = Slotwise(ComplexSum, One(x), One(s))
    BY <1>1, <2>1, OneArithmetic
  <2>4. Contract!Meaning("ADD_CS", v, v, 0, s) = Slotwise(ComplexSum, v, One(s))
    BY ContractMeanings DEF One
  <2>5. v = One(x) => One(x + s) = Contract!Meaning("ADD_CS", v, v, 0, s)
    BY <2>3, <2>4
  <2> QED BY <1>3, <2>1, <2>2, <2>5 DEF Opcode
<1>6. ASSUME NEW s \in Factors, toyfhe_mult_cs(r, a, s)
      PROVE  ContractStep /\ VectorsInvariant'
  <2>1. s \in Int
    BY StagedAssumption
  <2> DEFINE y == x * s
  <2>2. y \in Int /\ One(y) = Slotwise(ComplexProduct, One(x), One(s))
    BY <1>1, <2>1, OneArithmetic
  <2>3. OnOneCiphertext(Called("MULT_CS", r, <<a>>, 0, s), y)
    BY <1>6 DEF toyfhe_mult_cs, x
  <2> HIDE DEF y
  <2>4. v = One(x) => One(y) = Contract!Meaning("MULT_CS", v, v, 0, s)
    BY <2>2, ContractMeanings DEF One
  <2> QED BY <1>3, <2>2, <2>3, <2>4 DEF Opcode
<1> QED BY <1>4, <1>5, <1>6

LEMMA DifferenceMeans ==
  ASSUME backend = "toyfhe", backend' = backend, VectorsInvariant, ~loop.running,
         ~ScalarsOnVectors, NEW r \in Handles, NEW a \in Handles, NEW b \in Handles,
         toyfhe_sub_cc(r, a, b)
  PROVE  ContractStep /\ VectorsInvariant'
<1> DEFINE x == buffers[a].ct
           y == buffers[b].ct
           v == ToyMeaning(buffers[a])
           w == ToyMeaning(buffers[b])
           called == Called("SUB_CC", r, <<a, b>>, 0, 0)
           buffer == AsCiphertext(buffers[r], x - y)
           filled == buffers[a].kind # "Empty" /\ buffers[b].kind # "Empty"
<1>1. /\ GoodBuffer(buffers[r]) /\ GoodBuffer(buffers[a]) /\ x \in Int
      /\ GoodBuffer(buffers[b]) /\ y \in Int
  BY ToyMeanings DEF VectorsInvariant
<1>2. ~toyfhe_is_vec(a) /\ ~toyfhe_is_vec(b) /\ filled => v = One(x) /\ w = One(y)
  BY <1>1, MarkAssumption, ToyMeanings DEF toyfhe_is_vec
<1>3. called.operands[1] = a /\ called.operands[2] = b /\ DOMAIN called.operands = 1..2
      /\ called.result = r
  BY DEF Called
<1>4. ~toyfhe_is_vec(a) /\ ~toyfhe_is_vec(b) /\ Answer(called, buffer)
  BY <1>3, 1 \in 1..2, 2 \in 1..2 DEF toyfhe_sub_cc, OnOneCiphertext, Suitable
<1>5. GoodBuffer(buffer) /\ ToyMeaning(buffer) = One(x - y) /\ buffer.kind # "Empty"
  <2>1. buffer.kind = "Ciphertext"
    BY <1>1 DEF AsCiphertext, GoodBuffer, ToyBuffers
  <2> QED BY <1>1, <2>1, WrittenMeanings
<1>6. One(x - y) = Slotwise(ComplexDifference, One(x), One(y))
  BY <1>1, OneArithmetic
<1> HIDE DEF x, y, v, w, buffer, filled
<1>7. filled =>
        buffer.kind # "Empty" /\ ToyMeaning(buffer) = Contract!Meaning("SUB_CC", v, w, 0, 0)
  BY <1>2, <1>4, <1>5, <1>6, ContractMeanings
<1> QED BY <1>4, <1>5, <1>7, BinaryAnswerMeans DEF v, w, called, filled, Opcode

LEMMA PassthroughMeans ==
  ASSUME backend = "toyfhe", backend' = backend, VectorsInvariant, ~loop.running,
         NEW r \in Handles, NEW a \in Pointers, NEW op \in {"RELINEARIZE", "RESCALE"},
         toyfhe_passthrough(op, r, a)
  PROVE  ContractStep /\ VectorsInvariant'
<1>1. CASE a # Nothing /\ buffers[a].kind # "Empty"
  <2> DEFINE buffer == buffers[a]
             v == ToyMeaning(buffers[a])
  <2>1. a \in Handles /\ GoodBuffer(buffer)
    BY <1>1 DEF Pointers, VectorsInvariant
  <2>2. Answer(Called(op, r, <<a>>, 0, 0), buffer) /\ buffer.kind # "Empty"
    BY <1>1 DEF toyfhe_passthrough
  <2>3. ToyMeaning(buffer) = Contract!Meaning(op, v, v, 0, 0)
    <3>1. Contract!Meaning(op, v, v, 0, 0) = v
      <4> HIDE DEF v
      <4> QED BY ContractMeanings
    <3> QED BY <3>1
  <2>4. Opcode(op)
    BY DEF Opcode
  <2> HIDE DEF buffer
  <2> QED BY <2>1, <2>2, <2>3, <2>4, UnaryAnswerMeans
<1>2. CASE ~(a # Nothing /\ buffers[a].kind # "Empty")
  BY <1>2, RefuseMeans DEF toyfhe_passthrough
<1> QED BY <1>1, <1>2

(* The kernels that may loop: they enter the loop with a call they can go   *)
(* through, or refuse, or combine two single ciphertexts.                   *)
LEMMA RotationMeans ==
  ASSUME backend = "toyfhe", backend' = backend, VectorsInvariant, ~loop.running,
         NEW r \in Handles, NEW a \in Pointers, NEW n \in Distances
  PROVE  /\ toyfhe_rotate(r, a, n) => ContractStep /\ VectorsInvariant'
         /\ \A b \in Pointers :
              toyfhe_hrot_add(r, a, b, n) => ContractStep /\ VectorsInvariant'
<1>1. n \in Int
  BY ConfigurationAssumption
<1>2. ASSUME toyfhe_rotate(r, a, n) PROVE ContractStep /\ VectorsInvariant'
  <2>1. CASE toyfhe_is_vec(a)
    <3> DEFINE c == Called("ROTATE", r, <<a>>, n, 0)
    <3>1. a \in Handles /\ EnterLoop(c)
      BY <1>2, <2>1 DEF toyfhe_rotate, toyfhe_is_vec, Pointers
    <3>2. Sweeps(c)
      BY <1>1, <2>1, <3>1 DEF Sweeps
    <3> HIDE DEF c
    <3> QED BY <3>1, <3>2, EnterLoopMeans
  <2>2. CASE ~toyfhe_is_vec(a)
    BY <1>2, <2>2, RefuseMeans DEF toyfhe_rotate
  <2> QED BY <2>1, <2>2
<1>3. ASSUME NEW b \in Pointers, toyfhe_hrot_add(r, a, b, n)
      PROVE  ContractStep /\ VectorsInvariant'
  <2>1. CASE SameSize(a, b)
    <3> DEFINE c == Called("HROT_ADD", r, <<a, b>>, n, 0)
    <3>1. a \in Handles /\ b \in Handles /\ EnterLoop(c)
      BY <1>3, <2>1 DEF toyfhe_hrot_add, SameSize, toyfhe_is_vec, Pointers
    <3>2. Sweeps(c)
      BY <1>1, <2>1, <3>1 DEF Sweeps
    <3> HIDE DEF c
    <3> QED BY <3>1, <3>2, EnterLoopMeans
  <2>2. CASE ~SameSize(a, b)
    BY <1>3, <2>2, RefuseMeans DEF toyfhe_hrot_add
  <2> QED BY <2>1, <2>2
<1> QED BY <1>2, <1>3

LEMMA CombinedMeans ==
  ASSUME backend = "toyfhe", backend' = backend, VectorsInvariant, ~loop.running,
         NEW r \in Handles, NEW a \in Pointers, NEW b \in Pointers
  PROVE  /\ toyfhe_add_cc(r, a, b) => ContractStep /\ VectorsInvariant'
         /\ \A op \in {"MULT_CC", "HMULT"} :
              toyfhe_mult_cc(op, r, a, b) => ContractStep /\ VectorsInvariant'
<1> DEFINE x == buffers[a].ct
           y == buffers[b].ct
           single == Nothing \notin {a, b} /\ ~toyfhe_is_vec(a) /\ ~toyfhe_is_vec(b)
<1>1. ASSUME NEW op \in {"ADD_CC", "MULT_CC", "HMULT"}, NEW z,
             LET called == Called(op, r, <<a, b>>, 0, 0) IN
               IF SameSize(a, b) THEN EnterLoop(called)
               ELSE IF Nothing \in {a, b} \/ toyfhe_is_vec(a) \/ toyfhe_is_vec(b) THEN Refuse
               ELSE Answer(called, AsCiphertext(buffers[r], z)),
             single /\ a \in Handles /\ b \in Handles =>
               /\ z \in Int
               /\ One(z) = Contract!Meaning(op, One(x), One(y), 0, 0)
      PROVE  ContractStep /\ VectorsInvariant'
  <2> HIDE DEF x, y
  <2>1. CASE SameSize(a, b)
    <3> DEFINE c == Called(op, r, <<a, b>>, 0, 0)
    <3>1. a \in Handles /\ b \in Handles /\ EnterLoop(c)
      BY <1>1, <2>1 DEF SameSize, toyfhe_is_vec, Pointers
    <3>2. Sweeps(c)
      BY <2>1, <3>1, 0 \in Int DEF Sweeps
    <3> HIDE DEF c
    <3> QED BY <3>1, <3>2, EnterLoopMeans
  <2>2. CASE ~SameSize(a, b) /\ ~single
    BY <1>1, <2>2, RefuseMeans
  <2>3. CASE ~SameSize(a, b) /\ single
    <3> DEFINE buffer == AsCiphertext(buffers[r], z)
               v == ToyMeaning(buffers[a])
               w == ToyMeaning(buffers[b])
    <3>1. a \in Handles /\ b \in Handles /\ Answer(Called(op, r, <<a, b>>, 0, 0), buffer)
      BY <1>1, <2>3 DEF Pointers
    <3>2. GoodBuffer(buffers[r]) /\ GoodBuffer(buffers[a]) /\ GoodBuffer(buffers[b])
      BY <3>1 DEF VectorsInvariant
    <3>3. buffers[a].kind # "Empty" /\ buffers[b].kind # "Empty" => v = One(x) /\ w = One(y)
      BY <2>3, <3>2, ToyMeanings DEF toyfhe_is_vec, x, y
    <3>4. buffer.kind # "Empty"
      BY <3>2 DEF AsCiphertext, GoodBuffer, ToyBuffers
    <3>5. GoodBuffer(buffer) /\ ToyMeaning(buffer) = One(z)
      BY <1>1, <2>3, <3>1, <3>2, WrittenMeanings
    <3> HIDE DEF buffer, v, w
    <3>6. buffers[a].kind # "Empty" /\ buffers[b].kind # "Empty" =>
            buffer.kind # "Empty" /\ ToyMeaning(buffer) = Contract!Meaning(op, v, w, 0, 0)
      BY <1>1, <2>3, <3>1, <3>3, <3>4, <3>5
    <3>7. Opcode(op)
      BY DEF Opcode
    <3> QED BY <3>1, <3>5, <3>6, <3>7, BinaryAnswerMeans DEF v, w
  <2> QED BY <2>1, <2>2, <2>3
<1>2. a \in Handles /\ b \in Handles => x \in Int /\ y \in Int
  BY ToyMeanings DEF VectorsInvariant
<1> HIDE DEF single
<1>3. \A op : /\ Called(op, r, <<a, b>>, 0, 0).operands[1] = a
              /\ Called(op, r, <<a, b>>, 0, 0).operands[2] = b
              /\ Called(op, r, <<a, b>>, 0, 0).result = r
  BY DEF Called
<1>4. ASSUME toyfhe_add_cc(r, a, b) PROVE ContractStep /\ VectorsInvariant'
  <2>1. LET called == Called("ADD_CC", r, <<a, b>>, 0, 0) IN
          IF SameSize(a, b) THEN EnterLoop(called)
          ELSE IF Nothing \in {a, b} \/ toyfhe_is_vec(a) \/ toyfhe_is_vec(b) THEN Refuse
          ELSE Answer(called, AsCiphertext(buffers[r], x + y))
    BY <1>3, <1>4 DEF toyfhe_add_cc, Binary
  <2> HIDE DEF x, y
  <2>2. a \in Handles /\ b \in Handles =>
          x + y \in Int /\ One(x + y) = Contract!Meaning("ADD_CC", One(x), One(y), 0, 0)
    <3>1. Contract!Meaning("ADD_CC", One(x), One(y), 0, 0) = Slotwise(ComplexSum, One(x), One(y))
      BY ContractMeanings
    <3>2. x \in Int /\ y \in Int =>
            x + y \in Int /\ One(x + y) = Slotwise(ComplexSum, One(x), One(y))
      BY OneArithmetic
    <3> QED BY <1>2, <3>1, <3>2
  <2> QED BY <1>1, <2>1, <2>2
<1>5. ASSUME NEW op \in {"MULT_CC", "HMULT"}, toyfhe_mult_cc(op, r, a, b)
      PROVE  ContractStep /\ VectorsInvariant'
  <2> DEFINE z == x * y
  <2>1. LET called == Called(op, r, <<a, b>>, 0, 0) IN
          IF SameSize(a, b) THEN EnterLoop(called)
          ELSE IF Nothing \in {a, b} \/ toyfhe_is_vec(a) \/ toyfhe_is_vec(b) THEN Refuse
          ELSE Answer(called, AsCiphertext(buffers[r], z))
    BY <1>3, <1>5 DEF toyfhe_mult_cc, Binary
  <2> HIDE DEF x, y
  <2>2. a \in Handles /\ b \in Handles =>
          z \in Int /\ One(z) = Contract!Meaning(op, One(x), One(y), 0, 0)
    <3>1. Contract!Meaning(op, One(x), One(y), 0, 0) = Slotwise(ComplexProduct, One(x), One(y))
      BY ContractMeanings
    <3>2. x \in Int /\ y \in Int => z \in Int
      OBVIOUS
    <3>3. x \in Int /\ y \in Int => One(z) = Slotwise(ComplexProduct, One(x), One(y))
      BY OneArithmetic
    <3> QED BY <1>2, <3>1, <3>2, <3>3
  <2> HIDE DEF z
  <2> QED BY <1>1, <2>1, <2>2
<1> QED BY <1>4, <1>5

-----------------------------------------------------------------------------
LEMMA ToyHostMeans ==
  ASSUME backend = "toyfhe", backend' = backend, VectorsInvariant, ~loop.running,
         NEW h \in Handles, DataPlane(h)
  PROVE  ContractStep /\ VectorsInvariant'
<1>1. DOMAIN buffers = Handles /\ GoodBuffer(buffers[h]) /\ Seen = buffers /\ loop = Idle
  BY SeenBuffers, IdleFacts DEF VectorsInvariant
<1>2. ASSUME NEW buffer, GoodBuffer(buffer), Put(h, buffer), loop' = loop
      PROVE  ContractStep /\ VectorsInvariant'
  <2>1. call' = HostCall(h) /\ buffers' = [buffers EXCEPT ![h] = buffer]
    BY <1>2 DEF Put
  <2>2. VectorsInvariant'
    BY <1>1, <1>2, <2>1 DEF VectorsInvariant, Idle
  <2>3. Seen' = [Seen EXCEPT ![h] = buffer]
    BY <1>1, <2>1, <2>2, SeenBuffers
  <2>4. BufferMeaning(buffer) # Nothing => Ordinary \subseteq BufferTakes(buffer)
    BY <1>2, ToyMeanings DEF BufferMeaning, BufferTakes, ToyTakes, Uses
  <2>5. ContractStep
    BY <1>1, <2>1, <2>3, <2>4, PutMeans
  <2> QED BY <2>2, <2>5
<1>3. ASSUME NEW answer, call' = Decrypted(h, answer), buffers' = buffers, loop' = loop,
             ToyMeaning(buffers[h]) # Nothing, answer = ToyMeaning(buffers[h])[1][1]
      PROVE  ContractStep /\ VectorsInvariant'
  <2>1. BufferMeaning(Seen[h]) = ToyMeaning(buffers[h])
    BY <1>1 DEF BufferMeaning
  <2>2. VectorsInvariant'
    BY <1>1, <1>3 DEF VectorsInvariant, Idle
  <2>3. Seen' = Seen
    BY <1>1, <1>3, <2>2, SeenBuffers
  <2>4. ContractStep
    BY <1>3, <2>1, <2>3, DecryptionMeans
  <2> QED BY <2>2, <2>4
<1>4. CASE toyfhe_fhn_encrypt_i64(h)
  <2>1. PICK x \in Values : Put(h, AsCiphertext(buffers[h], x))
    BY <1>4 DEF toyfhe_fhn_encrypt_i64
  <2>2. GoodBuffer(AsCiphertext(buffers[h], x))
    BY <1>1, StagedAssumption, WrittenMeanings
  <2> QED BY <1>2, <1>4, <2>1, <2>2 DEF toyfhe_fhn_encrypt_i64
<1>5. CASE toyfhe_fhn_encrypt_vec_i64(h)
  <2>1. PICK xs \in Vectors : xs # << >> /\ Put(h, AsVector(buffers[h], xs))
    BY <1>5 DEF toyfhe_fhn_encrypt_vec_i64
  <2>2. xs \in SlotIntegers
    BY <2>1, PackingAssumption DEF SlotIntegers
  <2>3. GoodBuffer(AsVector(buffers[h], xs))
    BY <1>1, <2>2, WrittenMeanings
  <2> QED BY <1>2, <1>5, <2>1, <2>3 DEF toyfhe_fhn_encrypt_vec_i64
<1>6. CASE toyfhe_fhn_decrypt_i64(h)
  <2> DEFINE x == buffers[h].ct
  <2>1. /\ buffers[h].kind = "Ciphertext" /\ buffers' = buffers /\ loop' = loop
        /\ call' = Decrypted(h, x)
    BY <1>6 DEF toyfhe_fhn_decrypt_i64
  <2>2. x \in Int /\ ToyMeaning(buffers[h]) = One(x) /\ ToyMeaning(buffers[h]) # Nothing
    BY <1>1, <2>1, ToyMeanings
  <2>3. One(x)[1][1] = x
    BY <2>2, OneFits
  <2> QED BY <1>3, <2>1, <2>2, <2>3
<1>7. CASE toyfhe_fhn_decrypt_vec_i64(h)
  <2> DEFINE xs == buffers[h].ct_vec
             v == RealVector(xs)
  <2>1. /\ buffers[h].kind = "CiphertextVec" /\ buffers' = buffers /\ loop' = loop
        /\ call' = Decrypted(h, xs[1])
    BY <1>7 DEF toyfhe_fhn_decrypt_vec_i64
  <2>2. /\ xs \in SlotIntegers /\ ToyMeaning(buffers[h]) = Spread(v, Width)
        /\ ToyMeaning(buffers[h]) # Nothing
    BY <1>1, <2>1, ToyMeanings
  <2>3. v \in Fitting /\ 1 \in DOMAIN xs
    <3> HIDE DEF xs
    <3>1. v \in Fitting
      BY <2>2, RealVectorFacts
    <3>2. 1 \in DOMAIN xs
      BY <2>2, IntegersFacts
    <3> QED BY <3>1, <3>2
  <2>4. v[1] = Real(xs[1]) /\ Real(xs[1])[1] = xs[1]
    BY <2>3 DEF RealVector, Real
  <2>5. Spread(v, Width)[1] = v[1]
    <3> HIDE DEF v
    <3> QED BY <2>3, FirstSlot
  <2> QED BY <1>3, <2>1, <2>2, <2>4, <2>5
<1> QED BY <1>4, <1>5, <1>6, <1>7 DEF DataPlane

LEMMA ToyCallsMean ==
  ASSUME backend = "toyfhe", backend' = backend, VectorsInvariant, ~loop.running,
         ~ScalarsOnVectors, NEW r \in Handles, ToyCalls(r)
  PROVE  ContractStep /\ VectorsInvariant'
<1>1. CASE \E a \in Handles :
             \/ toyfhe_negate(r, a)
             \/ \E s \in Factors : toyfhe_add_cs(r, a, s) \/ toyfhe_mult_cs(r, a, s)
             \/ \E b \in Handles : toyfhe_sub_cc(r, a, b)
  BY <1>1, OneCiphertextMeans, DifferenceMeans
<1>2. CASE \E a \in Pointers :
             \/ \E n \in Distances : toyfhe_rotate(r, a, n)
             \/ \E op \in {"RELINEARIZE", "RESCALE"} : toyfhe_passthrough(op, r, a)
  BY <1>2, RotationMeans, PassthroughMeans
<1>3. CASE \E a, b \in Pointers :
             \/ toyfhe_add_cc(r, a, b)
             \/ \E op \in {"MULT_CC", "HMULT"} : toyfhe_mult_cc(op, r, a, b)
             \/ \E n \in Distances : toyfhe_hrot_add(r, a, b, n)
  BY <1>3, CombinedMeans, RotationMeans
<1> QED BY <1>1, <1>2, <1>3 DEF ToyCalls

LEMMA VectorsMean ==
  ASSUME backend = "toyfhe", backend' = backend, VectorsInvariant, ~ScalarsOnVectors,
         VectorsNext
  PROVE  ContractStep /\ VectorsInvariant'
<1>1. CASE ~loop.running /\ \E h \in Handles : DataPlane(h) \/ ToyCalls(h)
  BY <1>1, ToyHostMeans, ToyCallsMean
<1>2. CASE Iterate
  BY <1>2, IterateMeans
<1>3. CASE FinishLoop
  BY <1>3, FinishLoopMeans
<1> QED BY <1>1, <1>2, <1>3 DEF VectorsNext

-----------------------------------------------------------------------------
KernelsInvariant ==
  /\ ~ScalarsOnVectors
  /\ backend = "cheddar" => CheddarInvariant /\ CheddarPacked
  /\ backend = "toyfhe" => VectorsInvariant

LEMMA KernelsInitial ==
  KernelsInit /\ ~ScalarsOnVectors => KernelsInvariant /\ Contract!Init
<1> SUFFICES ASSUME KernelsInit, ~ScalarsOnVectors PROVE KernelsInvariant /\ Contract!Init
  OBVIOUS
<1>0. loop = Idle /\ ~loop.running
  BY DEF KernelsInit, Idle
<1>1. CASE backend = "cheddar"
  <2>1. CheddarInit
    BY <1>1 DEF KernelsInit, CheddarInit
  <2>2. CheddarInvariant
    BY <2>1, CheddarInitial
  <2>3. \A h \in Handles : buffers[h] = EmptyBuffer
    BY <2>1 DEF CheddarInit, HostInit
  <2>4. <<Real(0)>> \in Packed
    BY RealPacked, 0 \in Int
  <2>5. EmptyBuffer.ct.values = <<Real(0)>> /\ EmptyBuffer.kind = "Empty"
    BY DEF EmptyBuffer, FreshCiphertext
  <2>6. CheddarPacked
    BY <2>3, <2>4, <2>5 DEF CheddarPacked
  <2>7. Contract!Init
    BY <1>1, <2>1, <2>3, <2>5
       DEF Contract!Init, CheddarMeaning, CheddarTakes, CheddarInit, HostInit
  <2> QED BY <1>1, <2>2, <2>6, <2>7 DEF KernelsInvariant
<1>2. CASE backend # "cheddar"
  <2>1. HostInit(FreshBuffer)
    BY <1>2 DEF KernelsInit
  <2>2. FreshBuffer \in ToyBuffers /\ FreshBuffer.kind = "Empty"
    BY EmptySeq DEF FreshBuffer, ToyBuffers
  <2>3. VectorsInvariant
    BY <1>0, <2>1, <2>2 DEF VectorsInvariant, GoodBuffer, HostInit
  <2>4. Contract!Init
    BY <1>0, <1>2, <2>1, <2>2 DEF Contract!Init, ToyMeaning, ToyTakes, Answered, HostInit
  <2> QED BY <1>2, <2>3, <2>4 DEF KernelsInvariant
<1> QED BY <1>1, <1>2

LEMMA KernelsStep ==
  KernelsInvariant /\ [KernelsNext]_<<toyVars, kernelVars, backend>> =>
    KernelsInvariant' /\ ContractStep
<1> SUFFICES ASSUME KernelsInvariant, [KernelsNext]_<<toyVars, kernelVars, backend>>
             PROVE  KernelsInvariant' /\ ContractStep
  OBVIOUS
<1>1. ASSUME UNCHANGED kernelVars, backend' = backend
      PROVE  KernelsInvariant' /\ ContractStep
  <2>1. /\ buffers' = buffers /\ call' = call /\ loop' = loop
        /\ prepared' = prepared /\ exited' = exited
    BY <1>1 DEF kernelVars, vectorVars, hostVars
  <2>2. Seen' = Seen
    BY <1>1, <2>1 DEF Seen, Answered
  <2>3. VectorsInvariant => VectorsInvariant'
    <3>1. Sweeps(loop.call) => Sweeps(loop.call)'
      BY <2>1, SweepsKept
    <3>2. Swept(loop.call, loop.out) => Swept(loop.call, loop.out)'
      BY <2>1 DEF Swept, Computed, RotatedLeft, Normalized
    <3> QED BY <2>1, <3>1, <3>2 DEF VectorsInvariant, Idle
  <2>4. KernelsInvariant'
    BY <1>1, <2>1, <2>3 DEF KernelsInvariant, CheddarInvariant, CheddarPacked
  <2> QED BY <1>1, <2>1, <2>2, <2>4, ContractStutter
<1>2. CASE UNCHANGED <<toyVars, kernelVars, backend>>
  BY <1>1, <1>2
<1>3. CASE backend = "engine" /\ Next /\ UNCHANGED kernelVars /\ UNCHANGED backend
  BY <1>1, <1>3
<1>4. CASE backend = "toyfhe" /\ VectorsNext /\ UNCHANGED backend
  BY <1>4, VectorsMean DEF KernelsInvariant
<1>5. CASE backend = "cheddar" /\ CheddarNext /\ UNCHANGED backend
  <2>1. CheddarInvariant'
    BY <1>5, CheddarInductive DEF KernelsInvariant
  <2>2. ContractStep /\ CheddarPacked'
    BY <1>5, CheddarMeans DEF KernelsInvariant
  <2> QED BY <1>5, <2>1, <2>2 DEF KernelsInvariant
<1> QED BY <1>2, <1>3, <1>4, <1>5 DEF KernelsNext

(* Both backends' kernels keep the ABI's promise with the meanings of the   *)
(* opcodes (fhn_backend_api.h:30-40, fhn_program.h:22-53), for all          *)
(* messages, scalars, distances and keys and any number of calls, where no  *)
(* one-ciphertext kernel of the reference backend is handed a vector: what  *)
(* a kernel answers 0 to has the meaning of its opcode and stays fit for    *)
(* the next, if its operands were fit for it, the loops of the reference    *)
(* backend taken slot by slot.  Nothing is promised of rescaling at the     *)
(* last level, and of a product nothing but its relinearisation.            *)
THEOREM ContractImplemented == KernelsSpec /\ ~ScalarsOnVectors => ImplementsKernelContract
<1>1. KernelsInit /\ ~ScalarsOnVectors => KernelsInvariant /\ Contract!Init
  BY KernelsInitial
<1>2. KernelsInvariant /\ [KernelsNext]_<<toyVars, kernelVars, backend>> =>
        /\ KernelsInvariant'
        /\ [Contract!Next]_<<[h \in Handles |->
              IF backend = "cheddar" THEN CheddarMeaning(buffers[h])
              ELSE ToyMeaning(Answered[h])],
            [h \in Handles |->
              IF backend = "cheddar" THEN CheddarTakes(buffers[h])
              ELSE ToyTakes(Answered[h])], call>>
  BY KernelsStep DEF ContractStep, MappedMeaning, MappedTakes
<1> QED BY <1>1, <1>2, PTL DEF KernelsSpec, Contract!Spec, ImplementsKernelContract
=============================================================================
