------------------------------- MODULE Kernels -------------------------------
(***************************************************************************)
(* The kernels of both backends, and the engine under the reference one.    *)
(* A behaviour is about one of them: the engine's arithmetic with its noise *)
(* (ToyFHE), the reference kernels on ciphertexts and vectors (ToyVectors), *)
(* or the GPU backend (CheddarKernels).                                    *)
(***************************************************************************)
EXTENDS ToyFHE, CheddarKernels, ToyVectors

CONSTANTS
  Backends,  \* which of the three a behaviour may be about
  Width      \* slots of the widest vector

(* The slots of a ciphertext are a power of two of them: of two vectors the *)
(* narrower one repeats a whole number of times in the wider one, and all   *)
(* of them do in one of Width slots.                                       *)
Repeats(n, m) == m % n = 0

ASSUME PackingAssumption ==
  /\ Width \in Nat \ {0}
  /\ Vectors \subseteq Seq(Int)
  /\ \A v \in Vectors : v # << >> => Repeats(Len(v), Width)
  /\ \A v \in Staged : Repeats(Len(v), Width)
  /\ \A v, w \in Staged : Repeats(Len(v), Len(w)) \/ Repeats(Len(w), Len(v))

(* What is no vector is told apart from one.                                *)
ASSUME MarkAssumption == Nothing \notin Seq(Int \X Int) \cup Handles

VARIABLE backend

-----------------------------------------------------------------------------
kernelVars == <<vectorVars, prepared, exited>>

KernelsInit ==
  /\ backend \in Backends
  /\ Init
  /\ backend # "engine" => params = CHOOSE p \in Parameters : TRUE
  /\ prepared = CreateFromJson
  /\ exited = "no"
  /\ loop = Idle
  /\ IF backend = "cheddar" THEN HostInit(EmptyBuffer) ELSE HostInit(FreshBuffer)

KernelsNext ==
  /\ UNCHANGED backend
  /\ \/ backend = "engine" /\ Next /\ UNCHANGED kernelVars
     \/ backend = "toyfhe" /\ VectorsNext /\ UNCHANGED <<toyVars, prepared, exited>>
     \/ backend = "cheddar" /\ CheddarNext /\ UNCHANGED <<toyVars, loop>>

KernelsSpec == KernelsInit /\ [][KernelsNext]_<<toyVars, kernelVars, backend>>

-----------------------------------------------------------------------------
(* A kernel in its loop has answered nothing yet.                           *)
Answered == IF loop.running THEN loop.found ELSE buffers

ToyMeaning(buffer) ==
  CASE buffer.kind = "Empty" -> Nothing
    [] buffer.kind = "Ciphertext" -> Spread(<<Real(buffer.ct)>>, Width)
    [] buffer.kind = "CiphertextVec" ->
         Spread([i \in DOMAIN buffer.ct_vec |-> Real(buffer.ct_vec[i])], Width)

(* Multiplication relinearises and rescales; there are no levels.           *)
ToyTakes(buffer) == IF buffer.kind = "Empty" THEN {} ELSE Uses

CheddarMeaning(buffer) ==
  IF buffer.kind = "Ciphertext" THEN Spread(buffer.ct.values, Width) ELSE Nothing

CheddarTakes(buffer) ==
  IF buffer.kind = "Ciphertext" THEN {op \in Uses : Told(op, buffer.ct)} ELSE {}

Contract ==
  INSTANCE KernelContract WITH
    meaning <- [h \in Handles |->
      IF backend = "cheddar" THEN CheddarMeaning(buffers[h]) ELSE ToyMeaning(Answered[h])],
    takes <- [h \in Handles |->
      IF backend = "cheddar" THEN CheddarTakes(buffers[h]) ELSE ToyTakes(Answered[h])]

(* Both backends' kernels keep the ABI's promise (fhn_backend_api.h:30-40)  *)
(* with the meanings of fhn_program.h:22-53, over chains of calls that      *)
(* change levels, scales and packing, with rotations in either direction:   *)
(* what returns 0 on fit operands has computed what the opcode says, the    *)
(* result over an operand or not, and left a fit operand; nothing else      *)
(* changed.  What is fit: see ToyTakes and Told.                            *)
ImplementsKernelContract == Contract!Spec

(* FHN_ADD_CS is "ciphertext + scalar" (fhn_program.h:27) and a kernel      *)
(* "returns 0 on success, non-zero on error" (fhn_backend_api.h:31-32): a   *)
(* call that returned 0 has added the scalar to every slot of its operand.  *)
ScalarAdded ==
  /\ backend = "toyfhe" /\ call.op = "ADD_CS"
  /\ call.result # call.operands[1] /\ buffers[call.operands[1]].kind # "Empty"

ScalarReachesEverySlot ==
  ScalarAdded =>
    ToyMeaning(buffers[call.result]) =
      Slotwise(ComplexSum, ToyMeaning(buffers[call.operands[1]]), <<Real(call.fparam)>>)
=============================================================================
