----------------------------- MODULE ProgramRun -----------------------------
(***************************************************************************)
(* What executing a program promises its caller, whatever plan, budget,     *)
(* memory space or kernel stands behind it: instructions are evaluated in   *)
(* order, a buffer is given up only once nothing will read it, a success    *)
(* leaves the pinned buffers and nothing else, a failure leaves the         *)
(* caller's inputs and nothing the execution made.                          *)
(*                                                                         *)
(* PlanExecutor is shown to implement this.                                *)
(***************************************************************************)
EXTENDS FhnProgram

VARIABLES
  program,    \* what is run
  pinned,     \* the ids the caller keeps
  evaluated,  \* how many instructions have been evaluated
  held,       \* the ids that have a live buffer
  outcome     \* "running", "ok" or "failed"

vars == <<program, pinned, evaluated, held, outcome>>

Init ==
  /\ program \in Program
  /\ pinned \in SUBSET Nat
  /\ evaluated = 0
  /\ held = Inputs(program)
  /\ outcome = "running"

Running == outcome = "running"

Current == evaluated + 1

(* A buffer for the result of the instruction about to be evaluated.        *)
Reserve ==
  /\ Running
  /\ Current \in Positions(program)
  /\ Result(program, Current) \notin held
  /\ held' = held \cup {Result(program, Current)}
  /\ UNCHANGED <<program, pinned, evaluated, outcome>>

(* Evaluation needs every operand and the result's buffer.                  *)
Evaluate ==
  /\ Running
  /\ Current \in Positions(program)
  /\ WorkingSet(program, Current) \subseteq held
  /\ evaluated' = evaluated + 1
  /\ UNCHANGED <<program, pinned, held, outcome>>

(* Give up a buffer nobody will read and the caller does not keep.          *)
Release ==
  /\ Running
  /\ \E id \in held \ pinned :
       /\ \A i \in UsesOf(program, id) : i <= evaluated
       /\ held' = held \ {id}
  /\ UNCHANGED <<program, pinned, evaluated, outcome>>

Succeed ==
  /\ Running
  /\ evaluated = Size(program)
  /\ Size(program) > 0 => held \subseteq pinned
  /\ Ids(program) \cap pinned \subseteq held
  /\ outcome' = "ok"
  /\ UNCHANGED <<program, pinned, evaluated, held>>

(* A failure may come at any point; what the execution made is gone.        *)
Fail ==
  /\ Running
  /\ outcome' = "failed"
  /\ held' = held \cap Inputs(program)
  /\ UNCHANGED <<program, pinned, evaluated>>

Next == Reserve \/ Evaluate \/ Release \/ Succeed \/ Fail

Spec == Init /\ [][Next]_vars
=============================================================================
