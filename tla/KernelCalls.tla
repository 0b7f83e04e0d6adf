----------------------------- MODULE KernelCalls -----------------------------
(***************************************************************************)
(* What the modules of the two backends share: a host that encrypts into    *)
(* its buffers first, then has the executor call kernels on them, in any    *)
(* order and on any operands, the result among them.                       *)
(***************************************************************************)
EXTENDS SlotVectors

CONSTANTS
  Handles,    \* buffers
  Nothing,    \* a null pointer, a buffer without a ciphertext
  Values,     \* numbers to encrypt
  Factors,    \* scalar operands
  Distances,  \* rotation distances, signed
  MaxCalls    \* bound on the kernel calls

VARIABLES
  buffers,  \* FhnBuffer, of the backend at hand
  call,     \* the last call
  calls     \* kernel calls made

hostVars == <<buffers, call, calls>>

(* ((d % n) + n) % n, on C++'s remainder.                                   *)
Normalized(d, n) == d % n

Refused == [op |-> "REFUSED"]

Called(op, r, args, n, s) ==
  [op |-> op, result |-> r, operands |-> args, param |-> n, fparam |-> s]

Decrypted(h, answer) == [op |-> "DECRYPT", result |-> h, answer |-> answer]

HostCall(h) == [op |-> "HOST", result |-> h]

HostInit(empty) ==
  /\ buffers = [h \in Handles |-> empty]
  /\ call = [op |-> "NOP"]
  /\ calls = 0

(* The host writes buffer h.                                                *)
Put(h, buffer) ==
  /\ buffers' = [buffers EXCEPT ![h] = buffer]
  /\ call' = HostCall(h)
  /\ UNCHANGED calls

Provisioning == calls = 0

Calling == calls < MaxCalls /\ calls' = calls + 1
=============================================================================
