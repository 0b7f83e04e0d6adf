----------------------------- MODULE FhnProgram -----------------------------
(***************************************************************************)
(* The straight-line intermediate representation that every other          *)
(* component exchanges (include/FHN/fhn_program.h), and the def-use facts   *)
(* FhnMovementPlan::analyze derives from it (src/FHN/FhnMovementPlan.cpp).  *)
(*                                                                         *)
(* Positions are 1-based here and 0-based in the code: the code's           *)
(* kBeforeProgram = -1 is position 0, and its kNever (the largest int64)    *)
(* is any number beyond the last instruction.                              *)
(***************************************************************************)
EXTENDS Integers, Sequences, FiniteSets, FiniteSetsExt, Functions

(* The compute opcodes, FHN_NOP and the sentinel left out.                  *)
OpCodes ==
  {"ADD_CC", "ADD_CP", "ADD_CS", "SUB_CC", "SUB_CP", "SUB_SC", "NEGATE",
   "MULT_CC", "MULT_CP", "MULT_CS", "RELINEARIZE", "RESCALE", "ROTATE",
   "CONJUGATE", "MULT_KEY", "MOD_DOWN", "LEVEL_DOWN", "HMULT", "HROT",
   "HROT_ADD", "HCONJ_ADD", "MAD", "AND", "OR", "XOR", "EQ", "LT", "LE"}

(* A buffer id is a uint32_t; 0 in an operand slot means "unused".          *)
Unused == 0

Instruction ==
  [op : OpCodes, res : Nat, args : [1..4 -> Nat], param : Int]

Program == [inputs : Seq(Nat), code : Seq(Instruction)]

-----------------------------------------------------------------------------

Size(p) == Len(p.code)

Positions(p) == 1..Size(p)

Inputs(p) == {p.inputs[k] : k \in DOMAIN p.inputs}

Result(p, i) == p.code[i].res

(* The operand slots an instruction uses.                                   *)
OperandSlots(inst) == {j \in 1..4 : inst.args[j] # Unused}

(* The distinct ids an instruction reads (analyze's operand_set).           *)
Operands(p, i) == {p.code[i].args[j] : j \in 1..4} \ {Unused}

(* The ids that must be on the device together while i runs (working).      *)
WorkingSet(p, i) == {Result(p, i)} \cup Operands(p, i)

Ids(p) == Inputs(p) \cup {Result(p, i) : i \in Positions(p)}

UsesOf(p, id) == {i \in Positions(p) : id \in Operands(p, i)}

-----------------------------------------------------------------------------
(* Single assignment: no id is zero or defined twice, be it as an input or  *)
(* as a result.                                                             *)
SingleAssignment(p) ==
  /\ Unused \notin Ids(p)
  /\ \A k, l \in DOMAIN p.inputs : p.inputs[k] = p.inputs[l] => k = l
  /\ \A i, j \in Positions(p) : Result(p, i) = Result(p, j) => i = j
  /\ \A i \in Positions(p) : Result(p, i) \notin Inputs(p)

(* Every operand is an input or the result of an earlier instruction.       *)
DefinedBeforeUse(p) ==
  \A i \in Positions(p) :
    Operands(p, i) \subseteq Inputs(p) \cup {Result(p, j) : j \in 1..(i - 1)}

WellFormed(p) == SingleAssignment(p) /\ DefinedBeforeUse(p)

-----------------------------------------------------------------------------
(* next_use_after: the first use strictly after pos, and a position past    *)
(* the end of the program when there is none.                               *)
Never(p) == Size(p) + 1

NextUseAfter(p, id, pos) ==
  LET later == {u \in UsesOf(p, id) : u > pos}
  IN  IF later = {} THEN Never(p) ELSE Min(later)
=============================================================================
