------------------------ MODULE InstructionSemantics ------------------------
(***************************************************************************)
(* What one instruction means, fused opcodes included, and an executor that *)
(* evaluates each instruction in one step.  The meaning of a fused opcode   *)
(* is the one fhn_program.h gives it (lines 49-53), in terms of the         *)
(* primitives the backend registers.                                       *)
(*                                                                         *)
(* A buffer's content is a term: <<"INPUT", id>>, or an opcode applied to   *)
(* the contents it read.                                                   *)
(***************************************************************************)
EXTENDS FhnProgram

VARIABLES
  program,   \* the program to run
  table,     \* the opcodes the backend registers a kernel for
  done,      \* how many instructions have been evaluated
  contents,  \* the term in each buffer
  outcome    \* "running", "ok" or "failed"

vars == <<program, table, done, contents, outcome>>

(* The contents of the operands in use, each in its slot.                   *)
Reads(inst, values) == [j \in OperandSlots(inst) |-> values[inst.args[j]]]

Apply(op, terms) == <<op, terms>>

(* The stages a backend registers are applied, the others are not.          *)
IfRegistered(tbl, op, term) == IF op \in tbl THEN Apply(op, <<term>>) ELSE term

Rotation(tbl, term) ==
  IF "HROT" \in tbl THEN Apply("HROT", <<term>>) ELSE Apply("ROTATE", <<term>>)

Meaning(tbl, inst, values) ==
  LET a == values[inst.args[1]]
      b == values[inst.args[2]]
  IN  IF inst.op \in tbl THEN Apply(inst.op, Reads(inst, values))
      ELSE CASE inst.op = "HMULT" ->
                  IfRegistered(tbl, "RESCALE",
                    IfRegistered(tbl, "RELINEARIZE", Apply("MULT_CC", <<a, b>>)))
             [] inst.op = "HROT" -> Rotation(tbl, a)
             [] inst.op = "HROT_ADD" -> Apply("ADD_CC", <<Rotation(tbl, a), b>>)
             [] inst.op = "HCONJ_ADD" ->
                  Apply("ADD_CC", <<Apply("CONJUGATE", <<a>>), b>>)
             [] inst.op = "MAD" -> Apply("ADD_CC", <<Apply("MULT_CS", <<a>>), b>>)
             [] OTHER -> << >>

(* The primitives without which a fused opcode cannot be expanded.          *)
Expandable(tbl, op) ==
  \/ op \in tbl
  \/ op = "HMULT" /\ "MULT_CC" \in tbl
  \/ op = "HROT" /\ "ROTATE" \in tbl
  \/ op = "HROT_ADD" /\ tbl \cap {"HROT", "ROTATE"} # {} /\ "ADD_CC" \in tbl
  \/ op = "HCONJ_ADD" /\ {"CONJUGATE", "ADD_CC"} \subseteq tbl
  \/ op = "MAD" /\ {"MULT_CS", "ADD_CC"} \subseteq tbl

-----------------------------------------------------------------------------
Init ==
  /\ program \in Program
  /\ table \in SUBSET OpCodes
  /\ done = 0
  /\ contents = [id \in Ids(program) \cup {Unused} |-> <<"INPUT", id>>]
  /\ outcome = "running"

Evaluate ==
  /\ outcome = "running"
  /\ done < Size(program)
  /\ LET inst == program.code[done + 1] IN
       /\ Expandable(table, inst.op)
       /\ contents' = [contents EXCEPT ![inst.res] =
                         Meaning(table, inst, contents)]
  /\ done' = done + 1
  /\ UNCHANGED <<program, table, outcome>>

Succeed ==
  /\ outcome = "running"
  /\ done = Size(program)
  /\ outcome' = "ok"
  /\ UNCHANGED <<program, table, done, contents>>

(* A failed instruction may have spoilt its own result and nothing else.    *)
Fail ==
  /\ outcome = "running"
  /\ done < Size(program)
  /\ outcome' = "failed"
  /\ LET r == Result(program, done + 1) IN
       \A id \in DOMAIN contents \ {r} : contents'[id] = contents[id]
  /\ UNCHANGED <<program, table, done>>

(* The program is of another version.                                       *)
Refuse ==
  /\ outcome = "running"
  /\ done = 0
  /\ outcome' = "failed"
  /\ UNCHANGED <<program, table, done, contents>>

Next == Evaluate \/ Succeed \/ Fail \/ Refuse

Spec == Init /\ [][Next]_vars
=============================================================================
