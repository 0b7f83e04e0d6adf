---------------------------- MODULE KernelOpcodes ----------------------------
(***************************************************************************)
(* What a ciphertext may be used for: the opcodes of fhn_program.h:22-53    *)
(* that compute, but for MULT_KEY, whose outcome the IR leaves open, and    *)
(* the host's decryption.                                                  *)
(***************************************************************************)

(* On any ciphertext.                                                      *)
Ordinary ==
  {"ADD_CC", "ADD_CS", "SUB_CC", "SUB_SC", "NEGATE", "MULT_CC", "MULT_CS", "ROTATE",
   "HROT", "CONJUGATE", "HROT_ADD", "HCONJ_ADD", "LEVEL_DOWN", "DECRYPT"}

(* On one that has a level to give up.                                     *)
Rescaling == {"RESCALE", "HMULT"}

(* On one that has to be relinearised.                                     *)
Uses == Ordinary \cup Rescaling \cup {"RELINEARIZE"}
=============================================================================
