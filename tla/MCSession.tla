------------------------------ MODULE MCSession ------------------------------
(***************************************************************************)
(* Every short lambda over two caller variables and two local ones, run     *)
(* from every kind of situation.                                           *)
(***************************************************************************)
EXTENDS SessionMeaning

AllOurs == [c \in Callers |-> "ours"]

Situation(owner, known, runtime, statements) ==
  [owner |-> owner, known |-> known, runtime |-> runtime, statements |-> statements]

(* The callers are interchangeable: one of them is enough to be odd.        *)
Odd == CHOOSE c \in Callers : TRUE

(* Everything encrypted, with and without an FHN runtime; one variable      *)
(* encrypted elsewhere, one never encrypted.                                *)
MCStarts ==
  {Situation(AllOurs, {}, TRUE, 3), Situation(AllOurs, {}, FALSE, 2)}
  \cup {Situation([AllOurs EXCEPT ![Odd] = "foreign"], Callers, runtime, 2) :
          runtime \in BOOLEAN}
  \cup {Situation([AllOurs EXCEPT ![Odd] = Nothing], Callers \ {Odd}, runtime, 2) :
          runtime \in BOOLEAN}

(* A variable nobody encrypted.                                             *)
UnencryptedStarts ==
  {Situation([AllOurs EXCEPT ![c] = Nothing], {}, TRUE, 1) : c \in Callers}

(* Long enough to copy a result and write through the copy.                 *)
CopyStarts == {Situation(AllOurs, {}, TRUE, 4)}
=============================================================================
