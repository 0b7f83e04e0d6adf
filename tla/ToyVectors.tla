----------------------------- MODULE ToyVectors -----------------------------
(***************************************************************************)
(* The reference backend's kernels (src/FHN/ToyFheKernels.cpp) on buffers   *)
(* of either kind: one ciphertext, or a vector of them, one per slot.  What *)
(* the engine does to one ciphertext is ToyFHE's subject: here a ciphertext *)
(* is the integer it encrypts.                                             *)
(***************************************************************************)
EXTENDS KernelCalls

CONSTANTS
  Vectors,          \* sequences of integers to encrypt slot by slot
  ScalarsOnVectors  \* the host calls one-ciphertext kernels on vectors too

(* A kernel on vectors goes through the slots one by one.                   *)
VARIABLE loop  \* its call, the local vector out, and what it found in the buffers

vectorVars == <<hostVars, loop>>

(* FhnBuffer: both payloads stay when the kind changes.                     *)
FreshBuffer == [kind |-> "Empty", ct |-> 0, ct_vec |-> << >>]

Idle == [running |-> FALSE]

VectorsInit == HostInit(FreshBuffer) /\ loop = Idle

toyfhe_is_vec(h) == h # Nothing /\ buffers[h].kind = "CiphertextVec"

-----------------------------------------------------------------------------
AsCiphertext(buffer, value) == [buffer EXCEPT !.kind = "Ciphertext", !.ct = value]

AsVector(buffer, values) == [buffer EXCEPT !.kind = "CiphertextVec", !.ct_vec = values]

(* A kernel refuses, answers at once, or enters its loop.                   *)
Refuse == Calling /\ call' = Refused /\ UNCHANGED <<buffers, loop>>

Answer(called, buffer) ==
  /\ Calling
  /\ call' = called
  /\ buffers' = [buffers EXCEPT ![called.result] = buffer]
  /\ UNCHANGED loop

EnterLoop(called) ==
  /\ Calling
  /\ loop' = [running |-> TRUE, call |-> called, out |-> << >>, found |-> buffers]
  /\ UNCHANGED <<buffers, call>>

SameSize(a, b) ==
  /\ toyfhe_is_vec(a) /\ toyfhe_is_vec(b)
  /\ Len(buffers[a].ct_vec) = Len(buffers[b].ct_vec)

(* Fault: slots move to the right by a positive distance.                   *)
RotatedRight(values, n, i) ==
  values[1 + ((i - 1 + Len(values) - Normalized(n, Len(values))) % Len(values))]

(* The slot that a rotation by n to the left brings to slot i.              *)
RotatedLeft(values, n, i) == values[1 + ((i - 1 + Normalized(n, Len(values))) % Len(values))]

(* What an iteration computes, from the buffers as they are by then.        *)
Computed(c, i) ==
  LET a == buffers[c.operands[1]].ct_vec
      b == buffers[c.operands[Len(c.operands)]].ct_vec
  IN  CASE c.op = "ADD_CC" -> a[i] + b[i]
        [] c.op \in {"MULT_CC", "HMULT"} -> a[i] * b[i]
        [] c.op = "ROTATE" -> RotatedLeft(a, c.param, i)
        [] c.op = "HROT_ADD" -> RotatedLeft(a, c.param, i) + b[i]

Slots == Len(buffers[loop.call.operands[1]].ct_vec)

(* Fault: the result's own vector is written slot by slot.                  *)
IterateInPlace ==
  /\ loop.running /\ Len(loop.out) < Slots
  /\ LET i == Len(loop.out) + 1
         slot == Computed(loop.call, i)
     IN  /\ loop' = [loop EXCEPT !.out = Append(@, slot)]
         /\ buffers' = [buffers EXCEPT ![loop.call.result].ct_vec =
                          [j \in DOMAIN @ |-> IF j = i THEN slot ELSE @[j]]]
  /\ UNCHANGED <<call, calls>>

(* out.push_back.                                                          *)
Iterate ==
  /\ loop.running /\ Len(loop.out) < Slots
  /\ loop' = [loop EXCEPT !.out = Append(@, Computed(loop.call, Len(@) + 1))]
  /\ UNCHANGED hostVars

(* result->ct_vec = std::move(out).                                         *)
FinishLoop ==
  /\ loop.running /\ Len(loop.out) = Slots
  /\ call' = loop.call
  /\ buffers' = [buffers EXCEPT ![loop.call.result] = AsVector(@, loop.out)]
  /\ loop' = Idle
  /\ UNCHANGED calls

(* toyfhe_vec_binary on two vectors, the engine on two ciphertexts, -1 on   *)
(* one of each and on a null pointer.                                      *)
Binary(called, F(_, _)) ==
  LET a == called.operands[1]
      b == called.operands[2]
  IN  IF SameSize(a, b) THEN EnterLoop(called)
      ELSE IF Nothing \in {a, b} \/ toyfhe_is_vec(a) \/ toyfhe_is_vec(b) THEN Refuse
      ELSE Answer(called, AsCiphertext(buffers[called.result], F(buffers[a].ct, buffers[b].ct)))

toyfhe_add_cc(r, a, b) == Binary(Called("ADD_CC", r, <<a, b>>, 0, 0), +)

(* MULT_CC, and HMULT, which is the same kernel.                           *)
toyfhe_mult_cc(op, r, a, b) == Binary(Called(op, r, <<a, b>>, 0, 0), *)

-----------------------------------------------------------------------------
(* The kernels that read ct without looking at the pointer or the kind.     *)
Suitable(S) == ScalarsOnVectors \/ \A h \in S : ~toyfhe_is_vec(h)

OnOneCiphertext(called, value) ==
  /\ Suitable({called.operands[k] : k \in DOMAIN called.operands})
  /\ Answer(called, AsCiphertext(buffers[called.result], value))

toyfhe_add_cs(r, a, s) ==
  OnOneCiphertext(Called("ADD_CS", r, <<a>>, 0, s), buffers[a].ct + s)

toyfhe_mult_cs(r, a, s) ==
  OnOneCiphertext(Called("MULT_CS", r, <<a>>, 0, s), buffers[a].ct * s)

toyfhe_sub_cc(r, a, b) ==
  OnOneCiphertext(Called("SUB_CC", r, <<a, b>>, 0, 0), buffers[a].ct - buffers[b].ct)

toyfhe_negate(r, a) ==
  OnOneCiphertext(Called("NEGATE", r, <<a>>, 0, 0), -buffers[a].ct)

-----------------------------------------------------------------------------
(* One ciphertext has no slots to rotate.                                   *)
toyfhe_rotate(r, a, n) ==
  IF toyfhe_is_vec(a) THEN EnterLoop(Called("ROTATE", r, <<a>>, n, 0)) ELSE Refuse

(* In one pass over the slots.                                             *)
toyfhe_hrot_add(r, a, b, n) ==
  IF SameSize(a, b) THEN EnterLoop(Called("HROT_ADD", r, <<a, b>>, n, 0)) ELSE Refuse

(* RELINEARIZE and RESCALE: multiply has done it already.                   *)
toyfhe_passthrough(op, r, a) ==
  IF a # Nothing /\ buffers[a].kind # "Empty"
    THEN Answer(Called(op, r, <<a>>, 0, 0), buffers[a])
    ELSE Refuse

-----------------------------------------------------------------------------
(* The host's side: any buffer may be used for either kind, one after the   *)
(* other.                                                                  *)
toyfhe_fhn_encrypt_i64(h) ==
  /\ Provisioning
  /\ \E v \in Values : Put(h, AsCiphertext(buffers[h], v))
  /\ UNCHANGED loop

toyfhe_fhn_encrypt_vec_i64(h) ==
  /\ Provisioning
  /\ \E v \in Vectors : v # << >> /\ Put(h, AsVector(buffers[h], v))
  /\ UNCHANGED loop

toyfhe_fhn_decrypt_i64(h) ==
  /\ buffers[h].kind = "Ciphertext"
  /\ call' = Decrypted(h, buffers[h].ct)
  /\ UNCHANGED <<buffers, calls, loop>>

toyfhe_fhn_decrypt_vec_i64(h) ==
  /\ buffers[h].kind = "CiphertextVec"
  /\ call' = Decrypted(h, buffers[h].ct_vec[1])
  /\ UNCHANGED <<buffers, calls, loop>>

-----------------------------------------------------------------------------
Pointers == Handles \cup {Nothing}

DataPlane(h) ==
  \/ toyfhe_fhn_encrypt_i64(h) \/ toyfhe_fhn_encrypt_vec_i64(h)
  \/ toyfhe_fhn_decrypt_i64(h) \/ toyfhe_fhn_decrypt_vec_i64(h)

ToyCalls(r) ==
  \/ \E a \in Handles :
       \/ toyfhe_negate(r, a)
       \/ \E s \in Factors : toyfhe_add_cs(r, a, s) \/ toyfhe_mult_cs(r, a, s)
       \/ \E b \in Handles : toyfhe_sub_cc(r, a, b)
  \/ \E a \in Pointers :
       \/ \E n \in Distances : toyfhe_rotate(r, a, n)
       \/ \E op \in {"RELINEARIZE", "RESCALE"} : toyfhe_passthrough(op, r, a)
  \/ \E a, b \in Pointers :
       \/ toyfhe_add_cc(r, a, b)
       \/ \E op \in {"MULT_CC", "HMULT"} : toyfhe_mult_cc(op, r, a, b)
       \/ \E n \in Distances : toyfhe_hrot_add(r, a, b, n)

VectorsNext ==
  \/ ~loop.running /\ \E h \in Handles : DataPlane(h) \/ ToyCalls(h)
  \/ Iterate \/ FinishLoop

VectorsSpec == VectorsInit /\ [][VectorsNext]_vectorVars
=============================================================================
