------------------------------- MODULE ToyFHE -------------------------------
(***************************************************************************)
(* The arithmetic of the reference scheme: toyfhe::Engine                  *)
(* (src/Crypto/ToyFHE.cpp) behind its kernels and its data plane           *)
(* (src/FHN/ToyFheKernels.cpp), on buffers that hold one ciphertext.       *)
(*                                                                         *)
(* A ciphertext (c0, c1) enters a result only as c0 + c1 * s modulo q, what*)
(* decodeRaw computes: addition and multiplication by a scalar are linear  *)
(* in it, multiplication decodes and masks anew.  raw stands for the pair. *)
(* Scalars and doubles are multiples of 1 / (2 * scale), half the          *)
(* precision of the encoding: enough for every rounding to happen.         *)
(***************************************************************************)
EXTENDS Integers
CONSTANTS
  Buffers,     \* buffers, each with one ciphertext
  Parameters,  \* the parameters to explore
  Messages,    \* integers to encrypt
  Doubles,     \* doubles to encrypt, in units of 1 / (2 * scale)
  Scalars,     \* scalar operands, in the same unit
  MaxOps,      \* bound on the kernel calls
  Lost         \* what is known of a result that went out of range

(* What initialize insists on; generateKeys needs a key in 1..t - 1.       *)
ASSUME ParametersAssumption ==
  \A p \in Parameters :
    /\ p \in [q : Nat, t : Nat, scale : Nat, noise_bound : Nat]
    /\ p.t > 1 /\ p.q > p.t /\ p.q % p.t = 0
    /\ p.scale > 1
ASSUME DataAssumption ==
  Messages \subseteq Int /\ Doubles \subseteq Int /\ Scalars \subseteq Int
ASSUME MaxOpsAssumption == MaxOps \in Nat
ASSUME LostAssumption ==
  Lost \notin [raw : Nat, scale_power : Nat, encoding : {"Integer", "FixedPoint"}]

VARIABLES
  params,  \* params_
  cipher,  \* the ciphertext in each buffer, or Lost while it is empty
  exact,   \* what it should decrypt to, and how far off it may be, or Lost
  ops      \* kernel calls made

toyVars == <<params, cipher, exact, ops>>

q == params.q
t == params.t
scale == params.scale
delta == q \div t

-----------------------------------------------------------------------------
(* Arithmetic.                                                             *)
Magnitude(n) == IF n < 0 THEN -n ELSE n

(* llround, and the division of multiplyDecoded: halves away from zero.    *)
Nearest(n, d) ==
  IF n >= 0 THEN (2 * n + d) \div (2 * d) ELSE -((d - 2 * n) \div (2 * d))

CenteredMod(n, m) == IF n % m > m \div 2 THEN (n % m) - m ELSE n % m

(* scaleFactor; no power above 1 ever arises, see ScaleDiscipline.         *)
ScaleFactor(power) == IF power = 0 THEN 1 ELSE scale

Ciphertext(raw, power, encoding) ==
  [raw |-> raw % q, scale_power |-> power, encoding |-> encoding]

IsFixed(c) == c.encoding = "FixedPoint"

(* The encoding of a result of two ciphertexts.                            *)
Joint(c, d) == IF IsFixed(c) \/ IsFixed(d) THEN "FixedPoint" ELSE "Integer"

Noise == (-params.noise_bound)..params.noise_bound

(* encodeRaw: some noise e is added.                                       *)
EncodeRaw(value, power, encoding, e) == Ciphertext(value + e, power, encoding)

EncryptEncoded(message, power, encoding, e) ==
  EncodeRaw(delta * (message % t), power, encoding, e)

(* Fault: the scale is written down, the mantissa left as it was.          *)
AlignByName(c, target) ==
  IF c.scale_power < target
    THEN Ciphertext(c.raw, target, "FixedPoint")
    ELSE c

(* alignScale, up to power 1.                                              *)
AlignScale(c, target) ==
  IF c.scale_power < target
    THEN Ciphertext(c.raw * scale, target, "FixedPoint")
    ELSE c

Add(c, d) ==
  LET target == IF c.scale_power > d.scale_power THEN c.scale_power ELSE d.scale_power
  IN  Ciphertext(AlignScale(c, target).raw + AlignScale(d, target).raw, target, Joint(c, d))

Negated(c) == Ciphertext(-c.raw, c.scale_power, c.encoding)

MultiplyDecoded(c, factor, divisor, power, encoding, e) ==
  EncodeRaw(Nearest(CenteredMod(c.raw, q) * factor, divisor), power, encoding, e)

(* Fault: the product of two fixed-point numbers keeps both scales.        *)
RescaledNever(c, d) == [divisor |-> delta, power |-> c.scale_power + d.scale_power]

(* Fault: a scale level is consumed whether or not there is one.           *)
RescaledAlways(c, d) ==
  [divisor |-> delta * scale, power |-> c.scale_power + d.scale_power - 1]

(* What multiply divides by, and the power that leaves.                    *)
Rescaled(c, d) ==
  IF IsFixed(c) /\ IsFixed(d) THEN [divisor |-> delta * scale, power |-> 1]
  ELSE [divisor |-> delta, power |-> c.scale_power + d.scale_power]

Multiply(c, d, e) ==
  MultiplyDecoded(c, CenteredMod(d.raw, q), Rescaled(c, d).divisor,
                  Rescaled(c, d).power, Joint(c, d), e)

Unit == 2 * scale

IsInteger(s) == s % Unit = 0

AddPlain(c, s) ==
  LET a == IF ~IsFixed(c) /\ ~IsInteger(s) THEN AlignScale(c, 1) ELSE c
      encoded == Nearest(s * ScaleFactor(a.scale_power), Unit)
  IN  Ciphertext(a.raw + delta * (encoded % t), a.scale_power, a.encoding)

(* Only a scalar with a fraction costs a rescaling, and noise.             *)
MultiplyPlain(c, s, e) ==
  LET encoded == Nearest(s * scale, Unit) IN
    IF IsInteger(s) THEN Ciphertext(c.raw * (s \div Unit), c.scale_power, c.encoding)
    ELSE IF c.scale_power >= 1
      THEN MultiplyDecoded(c, encoded, scale, c.scale_power, "FixedPoint", e)
      ELSE MultiplyDecoded(c, encoded, 1, c.scale_power + 1, "FixedPoint", e)

(* Fault: the remainder is cut off.                                        *)
DecryptCutOff(c) == CenteredMod(c.raw \div delta, t)

(* decryptInt; decryptDouble divides it by the scale factor.               *)
DecryptInt(c) == CenteredMod(Nearest(c.raw, delta), t)

-----------------------------------------------------------------------------
(* What the results should be.  num / den is the exact value, modulo t for *)
(* an integer; noise bounds the distance of the raw value from it.         *)
Known(num, den, noise) == [num |-> num, den |-> den, noise |-> noise]

(* The exact value times the scale of its ciphertext, times delta, over the*)
(* denominator: what raw approximates.                                     *)
Ideal(x, power) == delta * ScaleFactor(power) * x.num

Ceiling(n, d) == (n + d - 1) \div d

(* Below half of t, with room to round: neither sign nor size can change.  *)
InRange(x, power) ==
  2 * (Magnitude(Ideal(x, power)) + x.noise * x.den) + delta * x.den < q * x.den

(* Integers are computed modulo t and survive noise below delta / 2.       *)
Outcome(x, encoding) ==
  IF encoding = "Integer"
    THEN IF 2 * x.noise < delta THEN [x EXCEPT !.num = CenteredMod(@, t)] ELSE Lost
    ELSE IF InRange(x, 1) THEN x ELSE Lost

(* Rounding a mantissa is off by half a unit of it.                        *)
Rounding(s) == IF s % 2 = 0 THEN 0 ELSE (delta + 1) \div 2

Lifted(x, c, encoding) ==
  IF encoding = "FixedPoint" /\ ~IsFixed(c) THEN x.noise * scale ELSE x.noise

Total(x, y, noise) ==
  IF x.den = y.den THEN Known(x.num + y.num, x.den, noise)
  ELSE Known(x.num * y.den + y.num * x.den, x.den * y.den, noise)

Sum(x, c, y, d) ==
  LET kind == Joint(c, d)
  IN  Outcome(Total(x, y, Lifted(x, c, kind) + Lifted(y, d, kind)), kind)

(* "Multiplication noise grows with message magnitude" (ToyFHE.h:15-17):   *)
(* each message times the noise of the other, and the new noise.           *)
Product(x, c, y, d) ==
  LET spread == Magnitude(Ideal(x, c.scale_power)) * y.noise * y.den
                  + Magnitude(Ideal(y, d.scale_power)) * x.noise * x.den
                  + x.noise * y.noise * x.den * y.den
      noise == Ceiling(spread, Rescaled(c, d).divisor * x.den * y.den)
                 + 1 + params.noise_bound
  IN  IF Joint(c, d) = "FixedPoint" /\ ~(InRange(x, c.scale_power) /\ InRange(y, d.scale_power))
        THEN Lost
        ELSE Outcome(Known(x.num * y.num, x.den * y.den, noise), Joint(c, d))

SumPlain(x, c, s) ==
  IF IsFixed(c) \/ ~IsInteger(s)
    THEN Sum(x, c, Known(s, Unit, Rounding(s)), [c EXCEPT !.encoding = "FixedPoint"])
    ELSE Outcome(Known(x.num + s \div Unit, 1, x.noise), "Integer")

ProductPlain(x, c, s) ==
  LET off == Magnitude(Ideal(x, c.scale_power)) * (s % 2)
      noise == Ceiling(off + 2 * x.noise * Magnitude(Nearest(s, 2)) * x.den,
                       2 * x.den * ScaleFactor(c.scale_power))
                 + 1 + params.noise_bound
  IN  IF IsInteger(s)
        THEN Outcome([x EXCEPT !.num = @ * (s \div Unit), !.noise = @ * Magnitude(s \div Unit)],
                     c.encoding)
      ELSE IF InRange(x, c.scale_power)
        THEN Outcome(Known(x.num * s, x.den * Unit, noise), "FixedPoint")
        ELSE Lost

-----------------------------------------------------------------------------
Init ==
  /\ params \in Parameters
  /\ cipher = [b \in Buffers |-> Lost]
  /\ exact = [b \in Buffers |-> Lost]
  /\ ops = 0

Encrypted(b) == cipher[b] # Lost

Encrypt(b, c, x) ==
  /\ ~Encrypted(b)
  /\ cipher' = [cipher EXCEPT ![b] = c]
  /\ exact' = [exact EXCEPT ![b] = Outcome(x, c.encoding)]
  /\ UNCHANGED <<params, ops>>

EncryptInt64(b) ==
  \E m \in Messages, e \in Noise :
    Encrypt(b, EncryptEncoded(m, 0, "Integer", e), Known(m, 1, params.noise_bound))

EncryptDouble(b) ==
  \E v \in Doubles, e \in Noise :
    Encrypt(b, EncryptEncoded(Nearest(v * scale, Unit), 1, "FixedPoint", e),
            Known(v, Unit, Rounding(v) + params.noise_bound))

(* A kernel writes its result into any buffer, an operand's included.      *)
Kernel(r, c, x) ==
  /\ ops < MaxOps
  /\ cipher' = [cipher EXCEPT ![r] = c]
  /\ exact' = [exact EXCEPT ![r] = x]
  /\ ops' = ops + 1
  /\ UNCHANGED params

If(known, x) == IF known THEN x ELSE Lost

Follows(a) == exact[a] # Lost

AddCC(r, a, b) ==
  /\ Encrypted(a) /\ Encrypted(b)
  /\ Kernel(r, Add(cipher[a], cipher[b]),
            If(Follows(a) /\ Follows(b), Sum(exact[a], cipher[a], exact[b], cipher[b])))

(* There is no subtraction: b is negated and added.                        *)
SubCC(r, a, b) ==
  /\ Encrypted(a) /\ Encrypted(b)
  /\ Kernel(r, Add(cipher[a], Negated(cipher[b])),
            If(Follows(a) /\ Follows(b),
               Sum(exact[a], cipher[a], [exact[b] EXCEPT !.num = -@], cipher[b])))

Negate(r, a) ==
  /\ Encrypted(a)
  /\ Kernel(r, Negated(cipher[a]),
            If(Follows(a), Outcome([exact[a] EXCEPT !.num = -@], cipher[a].encoding)))

(* MULT_CC, and HMULT, which is the same kernel.                           *)
MultCC(r, a, b) ==
  /\ Encrypted(a) /\ Encrypted(b)
  /\ \E e \in Noise :
       Kernel(r, Multiply(cipher[a], cipher[b], e),
              If(Follows(a) /\ Follows(b), Product(exact[a], cipher[a], exact[b], cipher[b])))

AddCS(r, a) ==
  /\ Encrypted(a)
  /\ \E s \in Scalars :
       Kernel(r, AddPlain(cipher[a], s), If(Follows(a), SumPlain(exact[a], cipher[a], s)))

MultCS(r, a) ==
  /\ Encrypted(a)
  /\ \E s \in Scalars, e \in Noise :
       Kernel(r, MultiplyPlain(cipher[a], s, e),
              If(Follows(a), ProductPlain(exact[a], cipher[a], s)))

Next ==
  \/ \E b \in Buffers : EncryptInt64(b) \/ EncryptDouble(b)
  \/ \E r, a \in Buffers : Negate(r, a) \/ AddCS(r, a) \/ MultCS(r, a)
  \/ \E r, a, b \in Buffers : AddCC(r, a, b) \/ SubCC(r, a, b) \/ MultCC(r, a, b)

Spec == Init /\ [][Next]_toyVars

-----------------------------------------------------------------------------
(* Every variable keeps its type; what a ciphertext decodes to is reduced  *)
(* modulo q, and its power of the scale is not negative.                   *)
TypeOK ==
  /\ params \in Parameters
  /\ ops \in 0..MaxOps
  /\ \A b \in Buffers : Encrypted(b) =>
       cipher[b] \in [raw : 0..(q - 1), scale_power : Nat,
                      encoding : {"Integer", "FixedPoint"}]
  /\ \A b \in Buffers : Follows(b) => Encrypted(b) /\ exact[b].noise \in Nat

(* "Every public path keeps scale_power <= 1, so the divisor fits in 64    *)
(* bits" (ToyFHE.cpp:183-184): whatever is computed, integers have no      *)
(* scale and fixed-point numbers one.                                      *)
ScaleDiscipline ==
  \A b \in Buffers : Encrypted(b) =>
    cipher[b].scale_power = IF IsFixed(cipher[b]) THEN 1 ELSE 0

(* Errors grow as the header says and no faster, along any chain of kernel *)
(* calls that mix integers, fixed-point numbers and scalars                *)
(* (ToyFHE.h:15-21).                                                       *)
NoiseBounded ==
  \A b \in Buffers : Follows(b) =>
    LET x == exact[b]
        off == CenteredMod(cipher[b].raw * x.den - Ideal(x, cipher[b].scale_power),
                           q * x.den)
    IN  Magnitude(off) <= x.noise * x.den

(* Within those errors decryption is right: an integer comes out exactly,  *)
(* modulo t and with its sign, a fixed-point number within the error and   *)
(* half a unit of the encoding (ToyFHE.cpp:262-280).                       *)
DecryptsRight ==
  \A b \in Buffers : Follows(b) =>
    LET x == exact[b]
        m == DecryptInt(cipher[b])
    IN  IF IsFixed(cipher[b])
          THEN 2 * delta * Magnitude(m * x.den - scale * x.num)
                 <= (2 * x.noise + delta) * x.den
          ELSE m = x.num
=============================================================================
