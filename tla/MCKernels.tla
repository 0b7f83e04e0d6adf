----------------------------- MODULE MCKernels -----------------------------
(***************************************************************************)
(* Values for the constants of Kernels.                                     *)
(***************************************************************************)
EXTENDS Kernels, TLC

Engine(d, m, s) == [q |-> d * m, t |-> m, scale |-> s, noise_bound |-> 1]

(* Moduli small enough to go round, one pair of powers of two as in the     *)
(* code's defaults, one of odd numbers.                                    *)
MCParameters == {Engine(64, 32, 2), Engine(45, 31, 3)}
MCMessages == {-15, 3, 5}
MCDoubles == {-21, 6, 9}
MCScalars == {-9, -4, 3, 8}

(* Four slots, all different, so that no two rotations agree; two slots,    *)
(* one with an imaginary part.                                             *)
MCStaged == {<< <<1, 0>>, <<2, 1>>, <<3, 0>>, <<5, 0>> >>, << <<7, 0>>, <<0, 4>> >>}
MCVectors == {<<1, 2, 3, 5>>, <<7, 4>>}
MCValues == {2}
MCFactors == {-3}
MCDistances == {-1, 0, 2, 9}
MCRotationKeys == {1, -5, 8}
MCLevels == -1..2

(* Nothing distinguishes one buffer from another.                           *)
Interchangeable == Permutations(Handles \cup Buffers)
=============================================================================
