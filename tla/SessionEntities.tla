--------------------------- MODULE SessionEntities ---------------------------
(***************************************************************************)
(* What a session works on: Fhenon entities (include/Fhenon.h), what they   *)
(* hold, and the operations recorded on them (include/Scheduler/            *)
(* Operation.h).                                                           *)
(*                                                                         *)
(* An entity is a variable declared outside run() (Callers), one declared   *)
(* in its lambda (Locals), or a shared-owned object an expression made,     *)
(* numbered in order of creation.  A value is a term: <<e>> is what e held  *)
(* at first, <<op, v, w>> the result of an operation on v and w.            *)
(***************************************************************************)
EXTENDS Integers, Sequences, FiniteSets

CONSTANTS
  Callers,   \* variables of the scope enclosing run()
  Locals,    \* addresses of variables declared inside the lambda
  MaxTemps,  \* bound on the objects expressions make in one run
  Nothing    \* a null pointer

ASSUME MaxTempsAssumption == MaxTemps \in Nat

VARIABLES
  phase,      \* how far the run is
  temps,      \* the kind of every object made by an expression
  recording,  \* Session::operations_
  plain,      \* val_
  cipher,     \* ciphertext_: a shared_ptr control block, 0 when there is none
  blocks      \* every control block made: raw buffer, its owner and content

store == <<plain, cipher, blocks>>

Names == Callers \cup Locals

Entities == Names \cup 1..MaxTemps

ASSUME EntitiesAssumption ==
  /\ IsFiniteSet(Callers)
  /\ Callers \cap Locals = {} /\ Names \cap 1..MaxTemps = {}
  /\ Nothing \notin Entities

(* The result of an operation, the encrypted right side of "x = 7", and the *)
(* literal of "x + 5", which alone has isScalar_.                           *)
TempKinds == {"result", "constant", "scalar"}

IsScalar(e) == e \in DOMAIN temps /\ temps[e] = "scalar"

IsEncrypted(e) == cipher[e] # 0

Owner(e) == blocks[cipher[e]].owner

(* What decrypt() answers: val_ stands in when nothing is encrypted.        *)
Holds(e) == IF IsEncrypted(e) THEN blocks[cipher[e]].holds ELSE plain[e]

Block(raw, owner, value) == [raw |-> raw, owner |-> owner, holds |-> value]

-----------------------------------------------------------------------------
Arithmetic == {"Add", "Multiply"}

Operation ==
  [type : Arithmetic \cup {"Assignment"},
   operand1 : Entities, operand2 : Entities, result : Entities \cup {Nothing}]

(* The entity an operation writes.                                          *)
Target(op) == IF op.type = "Assignment" THEN op.operand1 ELSE op.result

(* The reference meaning of a recording: its operations carried out one     *)
(* after the other, the moment they are recorded.                           *)
Written(op, env) ==
  IF op.type = "Assignment" THEN env[op.operand2]
  ELSE <<op.type, env[op.operand1], env[op.operand2]>>

After[k \in 0..Len(recording)] ==
  IF k = 0 THEN [e \in Entities |-> <<e>>]
  ELSE LET op == recording[k]
       IN  [After[k - 1] EXCEPT ![Target(op)] = Written(op, After[k - 1])]
=============================================================================
