----------------------------- MODULE SlotVectors -----------------------------
(***************************************************************************)
(* Vectors of slots, the values a ciphertext packs: nonempty sequences of   *)
(* complex numbers with integer parts.  A vector of fewer slots than        *)
(* another repeats: one value stands for as many equal slots as needed.     *)
(***************************************************************************)
EXTENDS Integers, Sequences

Real(s) == <<s, 0>>

ComplexSum(u, w) == <<u[1] + w[1], u[2] + w[2]>>

ComplexDifference(u, w) == <<u[1] - w[1], u[2] - w[2]>>

ComplexProduct(u, w) == <<u[1] * w[1] - u[2] * w[2], u[1] * w[2] + u[2] * w[1]>>

Conjugate(u) == <<u[1], -u[2]>>

Slot(v, i) == v[1 + ((i - 1) % Len(v))]

Widest(v, w) == IF Len(v) > Len(w) THEN Len(v) ELSE Len(w)

Spread(v, n) == [i \in 1..n |-> Slot(v, i)]

Slotwise(F(_, _), v, w) == [i \in 1..Widest(v, w) |-> F(Slot(v, i), Slot(w, i))]

(* To the left by d, to the right when d is negative.                       *)
Rotated(v, d) == [i \in DOMAIN v |-> Slot(v, i + d)]

Conjugated(v) == [i \in DOMAIN v |-> Conjugate(v[i])]
=============================================================================
