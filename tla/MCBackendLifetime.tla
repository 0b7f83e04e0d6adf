-------------------------- MODULE MCBackendLifetime --------------------------
(***************************************************************************)
(* A few addresses and entities, one library that may be anything.          *)
(***************************************************************************)
EXTENDS BackendLifetime, TLC

Library(abi, required, data, encrypt) ==
  [abi |-> abi, required |-> required, data |-> data, encrypt |-> encrypt]

Whole == Library("ours", TRUE, TRUE, TRUE)

(* Complete, failing at each step of the loader, and without encryption.    *)
MCCatalogue ==
  {Whole,
   Library("none", TRUE, TRUE, TRUE),
   Library("other", TRUE, TRUE, TRUE),
   Library("ours", FALSE, TRUE, TRUE),
   Library("ours", TRUE, FALSE, TRUE),
   Library("ours", TRUE, TRUE, FALSE)}

WholeOnly == {Whole}

Symmetry == Permutations(Addresses) \cup Permutations(Entities)
=============================================================================
