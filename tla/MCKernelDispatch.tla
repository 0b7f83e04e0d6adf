-------------------------- MODULE MCKernelDispatch --------------------------
(***************************************************************************)
(* Programs of two instructions, fused and primitive, run against every     *)
(* table a backend could register for them.                                *)
(***************************************************************************)
EXTENDS KernelDispatch

I(op, res, a, b) == [op |-> op, res |-> res, args |-> <<a, b, 0, 0>>, param |-> 0]

Fused == {"HMULT", "HROT", "HROT_ADD", "HCONJ_ADD", "MAD"}

Primitives ==
  {"ADD_CC", "MULT_CC", "MULT_CS", "ROTATE", "CONJUGATE", "RELINEARIZE", "RESCALE"}

Unary == {"HROT", "MULT_CS", "ROTATE", "CONJUGATE"}

(* The second operand of an instruction may not be its own result: the      *)
(* restriction fhn_program.h:53 states for MAD, taken for all.  The first   *)
(* operand may.                                                            *)
First == {I(op, 3, 1, IF op \in Unary THEN 0 ELSE 2) : op \in Fused \cup {"ADD_CC"}}

Second ==
  {I(op, r, a, IF op \in Unary THEN 0 ELSE b) :
     op \in Fused \cup {"ADD_CC"}, r \in {3, 4}, a \in {1, 3}, b \in {2, 3}}

AliasFree(inst) == inst.op # "MAD" => inst.args[2] # inst.res

MCPrograms ==
  {[inputs |-> <<1, 2>>, code |-> <<i, j>>] :
     i \in First, j \in {k \in Second : AliasFree(k)}}

(* Every table over the primitives, with HROT or without, plus a full one.  *)
MCTables ==
  {t \cup u : t \in SUBSET Primitives, u \in {{}, {"HROT"}}}
    \cup {Primitives \cup Fused}

(* In-place programs, the addend included.                                  *)
InPlacePrograms ==
  {[inputs |-> <<1, 2>>, code |-> <<I(op, 2, 1, 2)>>] : op \in Fused \ {"HROT"}}
=============================================================================
