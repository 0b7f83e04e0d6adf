--------------------------- MODULE KernelContract ---------------------------
(***************************************************************************)
(* What a backend's kernels promise the executor, whoever wrote them: the   *)
(* kernel signature's contract (include/FHN/fhn_backend_api.h:30-40) with   *)
(* the meaning fhn_program.h:22-53 gives each opcode.  A call that returns  *)
(* 0 has put that meaning into the result, which may be an operand, and     *)
(* touched nothing else; a call that returns anything else has touched      *)
(* nothing.  Scales, keys and packing are the backend's affair; of levels   *)
(* and of relinearisation the contract only knows what a buffer takes: the  *)
(* opcodes whose outcome is promised when it is an operand.                 *)
(***************************************************************************)
EXTENDS SlotVectors, KernelOpcodes

CONSTANTS
  Handles,  \* buffers
  Width,    \* slots of the widest vector; the others are spread over it
  Nothing   \* what a buffer with no ciphertext means

VARIABLES
  meaning,  \* the vector each buffer encrypts, or Nothing
  takes,    \* the opcodes each buffer is a fit operand of
  call      \* the last call: opcode, result, operands, parameters, answer

Scalar(s) == Spread(<<Real(s)>>, Width)

Meaning(op, a, b, n, s) ==
  CASE op = "ADD_CC" -> Slotwise(ComplexSum, a, b)
    [] op = "ADD_CS" -> Slotwise(ComplexSum, a, Scalar(s))
    [] op = "SUB_CC" -> Slotwise(ComplexDifference, a, b)
    [] op = "SUB_SC" -> Slotwise(ComplexDifference, Scalar(s), a)
    [] op = "NEGATE" -> Slotwise(ComplexDifference, Scalar(0), a)
    [] op \in {"MULT_CC", "HMULT"} -> Slotwise(ComplexProduct, a, b)
    [] op = "MULT_CS" -> Slotwise(ComplexProduct, a, Scalar(s))
    [] op \in {"RELINEARIZE", "RESCALE", "LEVEL_DOWN"} -> a
    [] op \in {"ROTATE", "HROT"} -> Rotated(a, n)
    [] op = "CONJUGATE" -> Conjugated(a)
    [] op = "HROT_ADD" -> Slotwise(ComplexSum, Rotated(a, n), b)
    [] op = "HCONJ_ADD" -> Slotwise(ComplexSum, Conjugated(a), b)

(* The meaning of a call, its operands read before anything is written.     *)
Outcome(c) ==
  LET read == [k \in DOMAIN c.operands |-> meaning[c.operands[k]]]
  IN  Meaning(c.op, read[1], read[Len(read)], c.param, c.fparam)

Promised(c) == \A k \in DOMAIN c.operands : c.op \in takes[c.operands[k]]

(* A product has to be relinearised; after that, as after every other       *)
(* operation, it is an ordinary operand again.                             *)
Follows(op) == IF op = "MULT_CC" THEN {"RELINEARIZE"} ELSE Ordinary

Init ==
  /\ meaning = [h \in Handles |-> Nothing]
  /\ takes = [h \in Handles |-> {}]
  /\ call = [op |-> "NOP"]

OthersKept ==
  \A h \in Handles \ {call'.result} : meaning'[h] = meaning[h] /\ takes'[h] = takes[h]

Refusal == call' = [op |-> "REFUSED"] /\ UNCHANGED <<meaning, takes>>

Success ==
  /\ call'.op # "NOP"
  /\ OthersKept
  /\ Promised(call') =>
       /\ meaning'[call'.result] = Outcome(call')
       /\ Follows(call'.op) \subseteq takes'[call'.result]

(* The host reads the first slot of a buffer.                               *)
Decryption ==
  /\ meaning[call'.result] # Nothing
  /\ "DECRYPT" \in takes[call'.result] => call'.answer = meaning[call'.result][1][1]
  /\ UNCHANGED <<meaning, takes>>

(* The host puts data into a buffer of its own, or takes it out.            *)
HostWrite ==
  /\ OthersKept
  /\ meaning'[call'.result] # Nothing => Ordinary \subseteq takes'[call'.result]

Next ==
  IF call'.op = "REFUSED" THEN Refusal
  ELSE IF call'.op = "DECRYPT" THEN Decryption
  ELSE IF call'.op = "HOST" THEN HostWrite
  ELSE Success

Spec == Init /\ [][Next]_<<meaning, takes, call>>
=============================================================================
