-------------------------- MODULE SessionRecording --------------------------
(***************************************************************************)
(* What happens while the lambda of Session::run executes: the operators,   *)
(* constructors, assignments and the destructor of Fhenon (src/Fhenon.cpp)  *)
(* record operations on canonical entities, found by address in entity_map_ *)
(* (include/Session/Session.h).                                            *)
(*                                                                         *)
(* One action is one statement of the lambda.  The unnamed temporary an     *)
(* expression returns is a copy registered as standing for its result, and  *)
(* dies with the statement, which erases it again: the statement uses the   *)
(* result itself.                                                          *)
(***************************************************************************)
EXTENDS SessionEntities

CONSTANT Starts  \* situations a run starts from, see Start

(* owner: who encrypted each caller variable, Nothing if nobody did;        *)
(* known: the variables belong() already put into entity_map_;              *)
(* runtime: the backend offers an FHN runtime;                              *)
(* statements: how many statements the lambda has at most.                  *)
Start ==
  [owner : [Callers -> {"ours", "foreign", Nothing}],
   known : SUBSET Callers,
   runtime : BOOLEAN,
   statements : Nat]

ASSUME StartsAssumption == Starts \subseteq Start

VARIABLES
  start,      \* the situation
  map,        \* entity_map_: the canonical entity of an address, or Nothing
  poisoned,   \* poisoned_
  live,       \* the named variables that exist
  left,       \* statements the lambda may still execute
  now,        \* what each name would hold, had everything been computed at once
  moved,      \* caller variables moved from
  clobbered   \* a result several names stood for has been assigned to

userVars == <<live, left, now, moved, clobbered>>
recordingVars == <<start, map, poisoned, userVars>>

(* Encrypted callers have a control block each, in any order.               *)
Index ==
  CHOOSE f \in [Callers -> 1..Cardinality(Callers)] :
    \A c, d \in Callers : f[c] = f[d] => c = d

RecordingInit ==
  /\ start \in Starts
  /\ phase = "record"
  /\ temps = << >> /\ recording = << >>
  /\ plain = [e \in Entities |-> <<e>>]
  /\ cipher = [e \in Entities |->
                 IF e \in Callers /\ start.owner[e] # Nothing THEN Index[e] ELSE 0]
  /\ blocks = [b \in 1..Cardinality(Callers) |->
                 LET c == CHOOSE d \in Callers : Index[d] = b
                 IN  Block(b, start.owner[c], <<c>>)]
  /\ map = [e \in Entities |-> IF e \in start.known THEN e ELSE Nothing]
  /\ poisoned = FALSE
  /\ live = Callers
  /\ left = start.statements
  /\ now = [n \in Names |-> <<n>>]
  /\ moved = {} /\ clobbered = FALSE

-----------------------------------------------------------------------------
(* trackEntity: the canonical entity, registered if it was not.             *)
Canonical(m, e) == IF m[e] = Nothing THEN e ELSE m[e]

Tracked(m, S) ==
  [e \in Entities |-> IF e \in S /\ m[e] = Nothing THEN e ELSE m[e]]

SharedOwned(e) == e \in DOMAIN temps

Usable == live \ moved

Executing == phase = "record" /\ left > 0 /\ left' = left - 1

(* A new object made by an expression: encrypted at once by belong(), or    *)
(* the result of a recorded operation, which holds nothing yet.             *)
Encrypted(k) == Block(Len(blocks) + 1, "ours", <<k>>)

(* What evaluating "y type z" does; z is Nothing for a literal.  belong()   *)
(* needs the profile of y, which only an encrypted variable has: a result   *)
(* recorded in this run has none.                                          *)
Room(n) == Len(temps) + n <= MaxTemps

HasProfile(y) == IsEncrypted(y)

Evaluable(y, z) == IF z = Nothing THEN HasProfile(y) /\ Room(2) ELSE Room(1)

Expression(type, y, z) ==
  LET k == Len(temps) + 1
      second == IF z = Nothing THEN k ELSE z
      r == IF z = Nothing THEN k + 1 ELSE k
      known == Tracked(map, {y, second, r})
  IN  [map |-> known,
       temps |-> temps \o (IF z = Nothing THEN <<"scalar", "result">>
                                          ELSE <<"result">>),
       result |-> r,
       op |-> [type |-> type, operand1 |-> Canonical(known, y),
               operand2 |-> Canonical(known, second), result |-> r],
       cipher |-> IF z = Nothing THEN [cipher EXCEPT ![k] = Len(blocks) + 1]
                                 ELSE cipher,
       blocks |-> IF z = Nothing THEN Append(blocks, Encrypted(k)) ELSE blocks,
       value |-> <<type, now[y], IF z = Nothing THEN <<k>> ELSE now[z]>>]

Assignment(target, source) ==
  [type |-> "Assignment", operand1 |-> target, operand2 |-> source,
   result |-> Nothing]

(* Names that stand for the same entity as x.                               *)
Namesakes(x) == {n \in live \ {x} : Canonical(map, n) = Canonical(map, x)}

Assigning(x) == clobbered' = (clobbered \/ Namesakes(x) # {})

-----------------------------------------------------------------------------
(* x = y type z;                                                           *)
AssignResult ==
  /\ Executing
  /\ \E type \in Arithmetic, x \in Usable, y \in Usable, z \in Usable \cup {Nothing} :
       /\ Evaluable(y, z)
       /\ LET e == Expression(type, y, z) IN
         /\ map' = Tracked(e.map, {x})
         /\ temps' = e.temps /\ cipher' = e.cipher /\ blocks' = e.blocks
         /\ recording' = recording \o
              <<e.op, Assignment(Canonical(e.map, x), e.result)>>
         /\ now' = [now EXCEPT ![x] = e.value]
         /\ Assigning(x)
  /\ UNCHANGED <<phase, plain, start, poisoned, live, moved>>

(* x = y;  a moved right side records the same, a self move returns early.  *)
AssignCopy ==
  /\ Executing
  /\ \E x, y \in Usable :
       LET known == Tracked(map, {x, y}) IN
         /\ map' = known
         /\ recording' = Append(recording,
              Assignment(Canonical(known, x), Canonical(known, y)))
         /\ now' = [now EXCEPT ![x] = now[y]]
         /\ Assigning(x)
  /\ UNCHANGED <<phase, temps, store, start, poisoned, live, moved>>

(* x = 7;                                                                  *)
AssignConstant ==
  /\ Executing
  /\ \E x \in Usable :
       LET k == Len(temps) + 1
           known == Tracked(map, {x, k})
       IN  /\ HasProfile(x) /\ Room(1)
           /\ map' = known
           /\ temps' = Append(temps, "constant")
           /\ cipher' = [cipher EXCEPT ![k] = Len(blocks) + 1]
           /\ blocks' = Append(blocks, Encrypted(k))
           /\ recording' = Append(recording, Assignment(Canonical(known, x), k))
           /\ now' = [now EXCEPT ![x] = <<k>>]
           /\ Assigning(x)
  /\ UNCHANGED <<phase, plain, start, poisoned, live, moved>>

-----------------------------------------------------------------------------
(* Fault: a destructor only forgets the address.                            *)
DestroyedQuietly(S) ==
  /\ poisoned' = poisoned
  /\ map' = [e \in Entities |-> IF e \in S THEN Nothing ELSE map[e]]
  /\ live' = live \ S
  /\ moved' = moved \ S
  /\ cipher' = [e \in Entities |-> IF e \in S THEN 0 ELSE cipher[e]]
  /\ plain' = [e \in Entities |-> IF e \in S THEN <<e>> ELSE plain[e]]

(* ~Fhenon while recording: an entity the recording may refer to poisons    *)
(* it; the address is forgotten either way.                                *)
Destroyed(S) ==
  /\ poisoned' = (poisoned \/ \E n \in S : map[n] = n)
  /\ map' = [e \in Entities |-> IF e \in S THEN Nothing ELSE map[e]]
  /\ live' = live \ S
  /\ moved' = moved \ S
  /\ cipher' = [e \in Entities |-> IF e \in S THEN 0 ELSE cipher[e]]
  /\ plain' = [e \in Entities |-> IF e \in S THEN <<e>> ELSE plain[e]]

-----------------------------------------------------------------------------
(* Declarations take the next free address of the lambda's frame.           *)
Free == CHOOSE t \in Locals : t \notin live

Declaring == Executing /\ Locals \ live # {}

(* Fhenon<int> t = y type z;  the returned copy of the result collapses     *)
(* onto it.                                                                *)
DeclareResult ==
  /\ Declaring
  /\ \E type \in Arithmetic, y \in Usable, z \in Usable \cup {Nothing} :
       /\ Evaluable(y, z)
       /\ LET e == Expression(type, y, z) IN
         /\ map' = [e.map EXCEPT ![Free] = e.result]
         /\ temps' = e.temps /\ cipher' = e.cipher /\ blocks' = e.blocks
         /\ recording' = Append(recording, e.op)
         /\ now' = [now EXCEPT ![Free] = e.value]
  /\ live' = live \cup {Free}
  /\ UNCHANGED <<phase, plain, start, poisoned, moved, clobbered>>

(* Fhenon<int> t = 13;  and perhaps t.belong(...), which registers it.      *)
DeclareVariable ==
  /\ Declaring
  /\ \E belongs \in BOOLEAN :
       IF belongs
         THEN /\ cipher' = [cipher EXCEPT ![Free] = Len(blocks) + 1]
              /\ blocks' = Append(blocks, Encrypted(Free))
              /\ map' = Tracked(map, {Free})
         ELSE UNCHANGED <<cipher, blocks, map>>
  /\ live' = live \cup {Free}
  /\ now' = [now EXCEPT ![Free] = <<Free>>]
  /\ UNCHANGED <<phase, temps, recording, plain, start, poisoned, moved, clobbered>>

(* Fhenon<int> t = y;  a copy of an operation's result collapses onto it, a *)
(* copy of anything else is an error that unwinds the lambda.               *)
DeclareCopy ==
  /\ Declaring
  /\ \E y \in Usable :
       LET source == Canonical(map, y) IN
         IF SharedOwned(source)
           THEN /\ map' = [map EXCEPT ![Free] = source]
                /\ live' = live \cup {Free}
                /\ now' = [now EXCEPT ![Free] = now[y]]
                /\ UNCHANGED <<phase, poisoned, moved, cipher, plain>>
           ELSE /\ phase' = "throw"
                /\ Destroyed(live \cap Locals)
                /\ UNCHANGED now
  /\ UNCHANGED <<temps, recording, blocks, start, clobbered>>

(* Fhenon<int> t = std::move(y);  steals what y holds; moving anything but  *)
(* a result poisons the recording, a noexcept move cannot throw.            *)
DeclareMoved ==
  /\ Declaring
  /\ \E y \in Usable :
       LET source == Canonical(map, y) IN
         /\ IF SharedOwned(source)
              THEN map' = [map EXCEPT ![Free] = source] /\ UNCHANGED poisoned
              ELSE poisoned' = TRUE /\ UNCHANGED map
         /\ cipher' = [cipher EXCEPT ![Free] = cipher[y], ![y] = 0]
         /\ plain' = [plain EXCEPT ![Free] = plain[y], ![y] = <<Nothing>>]
         /\ now' = [now EXCEPT ![Free] = now[y]]
         /\ moved' = moved \cup {y}
  /\ live' = live \cup {Free}
  /\ UNCHANGED <<phase, temps, recording, blocks, start, clobbered>>

-----------------------------------------------------------------------------
(* A variable of an inner block, or one held through a pointer, dies while  *)
(* the lambda runs.                                                        *)
Die ==
  /\ Executing
  /\ \E n \in live : Destroyed({n})
  /\ UNCHANGED <<phase, temps, recording, blocks, start, now, clobbered>>

(* The lambda returns or throws; its variables die first.                   *)
EndLambda ==
  /\ phase = "record"
  /\ phase' \in {"optimize", "throw"}
  /\ Destroyed(live \cap Locals)
  /\ UNCHANGED <<temps, recording, blocks, start, left, now, clobbered>>

Statement ==
  \/ AssignResult \/ AssignCopy \/ AssignConstant
  \/ DeclareResult \/ DeclareVariable \/ DeclareCopy \/ DeclareMoved
  \/ Die
=============================================================================
