--------------------------- MODULE KernelDispatch ---------------------------
(***************************************************************************)
(* Plain FhnDefaultExecutor::execute and decompose                          *)
(* (src/FHN/FhnDefaultExecutor.cpp, lines 23-57 and 126-211): an opcode     *)
(* with a registered kernel is dispatched to it, a fused opcode without one *)
(* is expanded into primitive calls that pass intermediate values through   *)
(* the result buffer.  Any kernel call may fail.                           *)
(***************************************************************************)
EXTENDS FhnProgram

CONSTANTS
  Programs,  \* the programs to run: not necessarily single-assignment
  Tables     \* the sets of opcodes a backend may register kernels for

ASSUME ProgramsAssumption == Programs \subseteq Program
ASSUME TablesAssumption == Tables \subseteq SUBSET OpCodes

VARIABLES
  program,
  table,     \* dispatch_: the opcodes with a non-null kernel
  pc,        \* "start", "run", "call", "ok" or "failed"
  pos,       \* the instruction being executed
  calls,     \* the kernel calls it still has to make
  contents,  \* the term in each buffer
  before,    \* the contents when the instruction began (a history variable)
  refused    \* why a failed call failed: a kernel's answer, or no kernel

vars == <<program, table, pc, pos, calls, contents, before, refused>>

Kernel(op, res, args) == [op |-> op, res |-> res, args |-> args]

(* A call to an opcode without a kernel: the expansion stops there.         *)
NoKernel == Kernel("NONE", Unused, << >>)

(* Fault: the optional stage is not optional.                               *)
OptionalAlways(op, r) == <<Kernel(op, r, <<r>>)>>

Optional(op, r) == IF op \in table THEN <<Kernel(op, r, <<r>>)>> ELSE << >>

Require(op, r, args) ==
  <<IF op \in table THEN Kernel(op, r, args) ELSE NoKernel>>

(* Fault: no fallback from HROT to ROTATE.                                  *)
RotationCallsFused(r, a) == Require("HROT", r, <<a>>)

(* The rotation inside HROT_ADD: a registered HROT first, else ROTATE.      *)
RotationCalls(r, a) ==
  IF "HROT" \in table THEN Require("HROT", r, <<a>>)
                      ELSE Require("ROTATE", r, <<a>>)

(* decompose: the calls an opcode without a kernel turns into.  HCONJ_ADD   *)
(* and MAD look for both kernels before they call the first; HROT_ADD looks *)
(* for ADD_CC only after the rotation.                                      *)
Decompose(inst) ==
  LET r == inst.res
      a == inst.args[1]
      b == inst.args[2]
  IN  CASE inst.op = "HMULT" ->
             Require("MULT_CC", r, <<a, b>>)
               \o Optional("RELINEARIZE", r) \o Optional("RESCALE", r)
        [] inst.op = "HROT" -> Require("ROTATE", r, <<a>>)
        [] inst.op = "HROT_ADD" ->
             RotationCalls(r, a) \o Require("ADD_CC", r, <<r, b>>)
        [] inst.op = "HCONJ_ADD" /\ {"CONJUGATE", "ADD_CC"} \subseteq table ->
             <<Kernel("CONJUGATE", r, <<a>>), Kernel("ADD_CC", r, <<r, b>>)>>
        [] inst.op = "MAD" /\ b \notin {Unused, r}
             /\ {"MULT_CS", "ADD_CC"} \subseteq table ->
             <<Kernel("MULT_CS", r, <<a>>), Kernel("ADD_CC", r, <<r, b>>)>>
        [] OTHER -> <<NoKernel>>

(* One dispatched kernel receives every operand in use, each in its slot.   *)
CallsOf(inst) ==
  IF inst.op \in table
    THEN <<Kernel(inst.op, inst.res,
                  [j \in OperandSlots(inst) |-> inst.args[j]])>>
    ELSE Decompose(inst)

Init ==
  /\ program \in Programs
  /\ table \in Tables
  /\ pc = "start"
  /\ pos = 1
  /\ calls = << >>
  /\ contents = [id \in Ids(program) \cup {Unused} |-> <<"INPUT", id>>]
  /\ before = contents
  /\ refused = "no"

NextInstruction ==
  /\ pc = "run"
  /\ IF pos > Size(program)
       THEN pc' = "ok" /\ UNCHANGED <<calls, before>>
       ELSE /\ pc' = "call"
            /\ calls' = CallsOf(program.code[pos])
            /\ before' = contents
  /\ UNCHANGED <<program, table, pos, contents, refused>>

(* execute refuses a program of another ABI version before the first one.   *)
Start ==
  /\ pc = "start"
  /\ \/ pc' = "run" /\ refused' = "no"
     \/ pc' = "failed" /\ refused' = "version"
  /\ UNCHANGED <<program, table, pos, calls, contents, before>>

(* A kernel reads its operands before it writes its result, so the two may  *)
(* be the same buffer (fhn_backend_api.h:38-39).                            *)
CallKernel ==
  /\ pc = "call"
  /\ calls # << >> /\ Head(calls) # NoKernel
  /\ LET k == Head(calls) IN
       contents' = [contents EXCEPT ![k.res] =
                      <<k.op, [j \in DOMAIN k.args |-> contents[k.args[j]]]>>]
  /\ calls' = Tail(calls)
  /\ UNCHANGED <<program, table, pc, pos, before, refused>>

(* Fault: the answer of a kernel is dropped and the expansion goes on.      *)
KernelFailureIgnored ==
  /\ pc = "call"
  /\ calls # << >> /\ Head(calls) # NoKernel
  /\ contents' = [contents EXCEPT ![Head(calls).res] = <<"JUNK">>]
  /\ calls' = Tail(calls)
  /\ UNCHANGED <<program, table, pc, pos, before, refused>>

KernelFails ==
  /\ pc = "call"
  /\ calls # << >> /\ Head(calls) # NoKernel
  /\ pc' = "failed"
  /\ refused' = "kernel"
  /\ contents' = [contents EXCEPT ![Head(calls).res] = <<"JUNK">>]
  /\ UNCHANGED <<program, table, pos, calls, before>>

NoSuchKernel ==
  /\ pc = "call"
  /\ calls # << >> /\ Head(calls) = NoKernel
  /\ pc' = "failed"
  /\ refused' = "missing"
  /\ UNCHANGED <<program, table, pos, calls, contents, before>>

InstructionDone ==
  /\ pc = "call"
  /\ calls = << >>
  /\ pc' = "run"
  /\ pos' = pos + 1
  /\ before' = contents
  /\ UNCHANGED <<program, table, calls, contents, refused>>

Next ==
  \/ Start \/ NextInstruction \/ CallKernel \/ KernelFails \/ NoSuchKernel
  \/ InstructionDone

Spec == Init /\ [][Next]_vars

-----------------------------------------------------------------------------
(* Every variable keeps its type.                                           *)
TypeOK ==
  /\ program \in Program
  /\ table \in SUBSET OpCodes
  /\ pc \in {"start", "run", "call", "ok", "failed"}
  /\ pos \in 1..(Size(program) + 1)
  /\ \A k \in Range(calls) : k.op \in table \cup {"NONE"}
  /\ DOMAIN contents = Ids(program) \cup {Unused}
  /\ DOMAIN before = DOMAIN contents
  /\ refused \in {"no", "version", "kernel", "missing"}

Semantics == INSTANCE InstructionSemantics WITH
  done <- pos - 1,
  contents <- IF pc = "failed" THEN contents ELSE before,
  outcome <- IF pc \in {"ok", "failed"} THEN pc ELSE "running"

(* Expanding a fused opcode into primitives that work in place on the       *)
(* result buffer gives the same result as one fused kernel: every           *)
(* instruction is atomic and means what fhn_program.h says, no other buffer *)
(* is touched, and the failure of any call, optional stages included, fails *)
(* the program (FhnDefaultExecutor.cpp:147-155).                             *)
ImplementsSemantics == Semantics!Spec

(* The executor gives up for want of a kernel only on opcodes that really   *)
(* have no expansion in this table, and on a MAD without an addend of its   *)
(* own.                                                                     *)
RefusesOnlyInexpressible ==
  refused = "missing" =>
    LET inst == program.code[pos] IN
      \/ ~Semantics!Expandable(table, inst.op)
      \/ inst.op = "MAD" /\ inst.args[2] \in {Unused, inst.res}

(* "Aliasing: kernels must tolerate result == operands[i] (in-place         *)
(* update)" (fhn_backend_api.h:38-39): where the executor stands in for a   *)
(* fused kernel it must tolerate it too.  After an instruction the result   *)
(* buffer holds the meaning of the instruction on the contents it began     *)
(* with.                                                                   *)
InPlaceUpdateTolerated ==
  pc = "call" /\ calls = << >> =>
    contents[Result(program, pos)] =
      Semantics!Meaning(table, program.code[pos], before)

-----------------------------------------------------------------------------
(* Why these hold (KernelDispatchProofs).  The calls still to make, applied *)
(* to the contents as they are, always give what all the calls of the       *)
(* instruction give on the contents it began with.                          *)

(* What one call, and what up to three calls, make of the contents c.       *)
Written(k, c) ==
  [c EXCEPT ![k.res] = <<k.op, [j \in DOMAIN k.args |-> c[k.args[j]]]>>]

Effect(s, c) ==
  IF Len(s) = 0 THEN c
  ELSE IF Len(s) = 1 THEN Written(s[1], c)
  ELSE IF Len(s) = 2 THEN Written(s[2], Written(s[1], c))
  ELSE Written(s[3], Written(s[2], Written(s[1], c)))

Stops(s) == \E j \in 1..Len(s) : s[j] = NoKernel

Current == program.code[pos]

States ==
  /\ program \in Programs
  /\ table \in Tables
  /\ pc \in {"start", "run", "call", "ok", "failed"}
  /\ pos \in 1..(Size(program) + 1)
  /\ DOMAIN contents = Ids(program) \cup {Unused}
  /\ DOMAIN before = DOMAIN contents
  /\ refused \in {"no", "version", "kernel", "missing"}

Begun == pc = "start" => pos = 1

Between == pc \in {"start", "run"} => calls = << >> /\ contents = before

Finished == pc = "ok" => calls = << >> /\ pos = Size(program) + 1

Expanding ==
  pc = "call" =>
    /\ pos <= Size(program)
    /\ Effect(calls, contents) = Effect(CallsOf(Current), before)
    /\ Stops(calls) <=> Stops(CallsOf(Current))
    /\ \A id \in DOMAIN contents \ {Current.res} : contents[id] = before[id]

Left ==
  calls # << >> => /\ pos <= Size(program)
                  /\ calls \in Seq(Range(CallsOf(Current)))
                  /\ Len(calls) <= 3

GivenUp ==
  refused = "missing" =>
    pc = "failed" /\ pos <= Size(program) /\ Stops(CallsOf(Current))

DispatchInv ==
  States /\ Begun /\ Between /\ Finished /\ Expanding /\ Left /\ GivenUp
=============================================================================
