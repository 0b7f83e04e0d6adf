----------------------------- MODULE SessionRun -----------------------------
(***************************************************************************)
(* One call of Session::run (include/Session/Session.tpp): the lambda       *)
(* records, optimize (src/Session/Session.cpp) builds the graph and runs    *)
(* it, through the backend's FHN runtime when there is one, and endRun      *)
(* drops the recording whatever happened.                                  *)
(*                                                                         *)
(* Planning and execution themselves appear through what MovementPlanner    *)
(* and ProgramRun promise: a well formed program without a budget is        *)
(* planned; a success leaves every pinned id with its value, a failure      *)
(* leaves the caller's buffers.                                            *)
(***************************************************************************)
EXTENDS SessionRecording, ExecutionGraph

VARIABLE hold  \* input_hold: the control block provisioned for each input id

sessionVars == <<phase, temps, recording, store, recordingVars, graphVars, hold>>

Init == RecordingInit /\ GraphInit /\ hold = << >>

Record == (Statement \/ EndLambda) /\ UNCHANGED <<graphVars, hold>>

(* Session::optimize up to the graph.                                       *)
Optimize ==
  /\ phase = "optimize"
  /\ phase' = IF poisoned THEN "throw"
              ELSE IF recording = << >> THEN "return"
              ELSE "build"
  /\ UNCHANGED <<temps, recording, store, recordingVars, graphVars, hold>>

Walk ==
  /\ GraphNext(IF start.runtime THEN "lower" ELSE "evaluate")
  /\ UNCHANGED <<recordingVars, hold>>

-----------------------------------------------------------------------------
(* The bindings that can provide the buffer of an input: those of encrypted *)
(* entities.  The first one is taken.                                      *)
Providers(id) ==
  {k \in DOMAIN bindings :
     bindings[k].id = id /\ IsEncrypted(bindings[k].entity)}

Provider(id) == bindings[Min(Providers(id))].entity

Provisionable ==
  \A id \in InputIds : Providers(id) # {} /\ Owner(Provider(id)) = "ours"

(* Fault: the buffers are moved out of their entities.                      *)
ProvisionByMove ==
  /\ phase = "lowered"
  /\ IF WellFormed(lowered) /\ Provisionable
       THEN /\ hold' = [id \in InputIds |-> cipher[Provider(id)]]
            /\ cipher' = [e \in Entities |->
                 IF \E id \in InputIds : Provider(id) = e THEN 0 ELSE cipher[e]]
            /\ phase' = "execute"
       ELSE phase' = "throw" /\ UNCHANGED <<hold, cipher>>
  /\ UNCHANGED <<temps, recording, plain, blocks, recordingVars, graphVars>>

(* analyze, then the provisioning of the inputs.                            *)
Provision ==
  /\ phase = "lowered"
  /\ IF WellFormed(lowered) /\ Provisionable
       THEN /\ hold' = [id \in InputIds |-> cipher[Provider(id)]]
            /\ phase' = "execute"
       ELSE phase' = "throw" /\ UNCHANGED hold
  /\ UNCHANGED <<temps, recording, store, recordingVars, graphVars>>

ExecutorFails ==
  /\ phase = "execute"
  /\ phase' = "throw"
  /\ UNCHANGED <<temps, recording, store, recordingVars, graphVars, hold>>

Values == ValueOf([id \in InputIds |-> blocks[hold[id]].holds])

(* The ids whose plan-allocated buffers survive for adoption.               *)
Adopted == {Latest(e) : e \in Bound} \ InputIds

Fresh(id) == Len(blocks) + Cardinality({a \in Adopted : a <= id})

Adopt(id) == IF id \in InputIds THEN hold[id] ELSE Fresh(id)

(* Fault: every entity wraps the raw buffer in a control block of its own.  *)
WriteBackPerEntity ==
  /\ phase = "execute"
  /\ LET rank == CHOOSE f \in [Bound -> 1..Cardinality(Bound)] :
                   \A e, g \in Bound : f[e] = f[g] => e = g
         owner == [k \in 1..Cardinality(Bound) |-> CHOOSE e \in Bound : rank[e] = k]
     IN  /\ blocks' = blocks \o
              [k \in 1..Cardinality(Bound) |->
                 Block(Len(blocks) + Latest(owner[k]), "ours", Values[Latest(owner[k])])]
         /\ cipher' = [e \in Entities |->
              IF e \in Bound THEN Len(blocks) + rank[e] ELSE cipher[e]]
  /\ phase' = "return"
  /\ UNCHANGED <<temps, recording, plain, recordingVars, graphVars, hold>>

(* The executor succeeds; every bound entity adopts the buffer of the last  *)
(* id bound to it, one control block per id.                               *)
WriteBack ==
  /\ phase = "execute"
  /\ blocks' = blocks \o
       [k \in 1..Cardinality(Adopted) |->
          LET id == CHOOSE a \in Adopted : Fresh(a) = Len(blocks) + k
          IN  Block(Len(blocks) + k, "ours", Values[id])]
  /\ cipher' = [e \in Entities |-> IF e \in Bound THEN Adopt(Latest(e)) ELSE cipher[e]]
  /\ phase' = "return"
  /\ UNCHANGED <<temps, recording, plain, recordingVars, graphVars, hold>>

-----------------------------------------------------------------------------
Ending ==
  /\ phase \in {"return", "throw"}
  /\ phase' = IF phase = "return" THEN "ok" ELSE "failed"
  /\ recording' = << >> /\ temps' = << >>
  /\ cipher' = [e \in Entities |-> IF e \in Callers THEN cipher[e] ELSE 0]
  /\ UNCHANGED <<plain, blocks, start, userVars, graphVars, hold>>

(* Fault: entity_map_ survives the run.                                     *)
EndRunKeepsMap == Ending /\ poisoned' = FALSE /\ UNCHANGED map

(* endRun; the operations take the objects expressions made with them.      *)
EndRun ==
  /\ Ending
  /\ map' = [e \in Entities |-> Nothing]
  /\ poisoned' = FALSE

Run == Optimize \/ Walk \/ Provision \/ ExecutorFails \/ WriteBack \/ EndRun

Next == Record \/ Run

Spec == Init /\ [][Next]_sessionVars

-----------------------------------------------------------------------------
Phases ==
  {"record", "optimize", "build", "lower", "lowered", "evaluate", "execute",
   "return", "throw", "ok", "failed"}

(* Every variable keeps its type, and a run that is over has left the       *)
(* session as a new one: nothing recorded, tracked or poisoned              *)
(* (Session.h:131-141).                                                     *)
TypeOK ==
  /\ phase \in Phases
  /\ temps \in Seq(TempKinds)
  /\ recording \in Seq(Operation)
  /\ cipher \in [Entities -> 0..Len(blocks)]
  /\ map \in [Entities -> Entities \cup {Nothing}]
  /\ live \subseteq Names
  /\ DOMAIN hold \subseteq Nat
  /\ phase \in {"ok", "failed"} =>
       recording = << >> /\ ~poisoned /\ \A e \in Entities : map[e] = Nothing

(* Evaluation never reads or writes an object that has died: every entity   *)
(* of the recording is alive and is the one its own address resolves to,    *)
(* or the run was refused (Fhenon.cpp:73-88, Session.h:118-124).             *)
NothingDeadIsEvaluated ==
  phase \in {"build", "lower", "lowered", "evaluate", "execute"} =>
    \A k \in DOMAIN recording :
      LET op == recording[k] IN
        /\ {op.operand1, op.operand2, Target(op)} \subseteq live \cup DOMAIN temps
        /\ map[Target(op)] = Target(op)

(* A run that succeeds leaves in every caller variable what computing each  *)
(* statement at once would have left (Session.h:97-101, SessionTest.cpp:16): *)
(* reads after writes, swaps, overwritten results, addresses reused by      *)
(* later locals.  Results copied under a second name and then assigned to   *)
(* are left to CopyNeverClobbers, operands nobody encrypted to              *)
(* UnencryptedOperandRefused.                                              *)
Delivered == \A c \in live \cap Callers : Holds(c) = now[c]

SuccessIsImmediate ==
  phase = "ok" /\ ~clobbered /\ (\A c \in Callers : start.owner[c] # Nothing) =>
    Delivered

(* A run that fails, for whatever reason and at whatever point, leaves      *)
(* every caller variable as it was, except those the lambda itself moved    *)
(* from.  (Without an FHN runtime operations take effect one by one.)       *)
FailureTouchesNothing ==
  phase = "failed" /\ start.runtime =>
    \A c \in (live \cap Callers) \ moved :
      Holds(c) = <<c>> /\ (IsEncrypted(c) <=> start.owner[c] # Nothing)

(* One control block per buffer: entities that end up with the same value   *)
(* share it, so no buffer is freed twice (Session.cpp:109-133).              *)
BuffersOwnedOnce ==
  \A e, f \in {g \in Entities : IsEncrypted(g)} :
    blocks[cipher[e]].raw = blocks[cipher[f]].raw => cipher[e] = cipher[f]

(* "An operand that was never belong()'d must fail loudly, not silently     *)
(* compute on an empty buffer (and must not be corrupted by write-back)"    *)
(* (SessionTest.cpp:124-125).                                               *)
UnencryptedOperandRefused ==
  phase = "return" =>
    \A k \in DOMAIN recording :
      \A c \in {recording[k].operand1, recording[k].operand2} \cap Callers :
        start.owner[c] # Nothing

(* Copying a session variable inside run() "must fail loudly instead of     *)
(* silently clobbering the source" (SessionTest.cpp:161-163): when a run     *)
(* succeeds, a write through a copy has not reached the variable it was     *)
(* copied from.                                                            *)
CopyNeverClobbers == phase = "ok" => Delivered

-----------------------------------------------------------------------------
(* Why these hold (SessionRunProofs).                                       *)

(* What is recorded, and what entity_map_ says of it: a registered entity   *)
(* is alive, and its canonical entity is canonical itself; the recording    *)
(* mentions canonical entities only, until one of them dies.                *)
Recordable ==
  {op \in Operation : op.type # "Assignment" => op.result \in Entities}

RecordedTyped ==
  /\ temps \in Seq(TempKinds) /\ Len(temps) <= MaxTemps
  /\ recording \in Seq(Recordable)
  /\ start \in Starts
  /\ live \subseteq Names /\ moved \subseteq live

Registered(m, alive, made) ==
  /\ m \in [Entities -> Entities \cup {Nothing}]
  /\ \A e \in Entities :
       m[e] # Nothing =>
         /\ e \in alive \cup 1..made
         /\ m[m[e]] = m[e]
         /\ m[e] = e \/ m[e] \in 1..made
  /\ \A k \in 1..made : m[k] = k

Mentions(op) == {op.operand1, op.operand2, Target(op)}

RecordedCanonical ==
  ~poisoned => \A k \in DOMAIN recording : \A e \in Mentions(recording[k]) : map[e] = e

Translating == {"build", "lower", "lowered", "evaluate", "execute"}

(* Every buffer ever made has its own control block, the one it was made    *)
(* with.                                                                   *)
StoreTyped ==
  /\ blocks \in Seq(Range(blocks))
  /\ \A b \in DOMAIN blocks : blocks[b].raw = b
  /\ cipher \in [Entities -> 0..Len(blocks)]
  /\ DOMAIN plain = Entities

(* Until the results are written back, a run through an FHN runtime has     *)
(* left the variables it may fail for as they were.                         *)
Started(c) == IF start.owner[c] = Nothing THEN 0 ELSE Index[c]

Untouched ==
  start.runtime /\ phase \notin {"return", "ok"} =>
    \A c \in (live \cap Callers) \ moved :
      /\ cipher[c] = Started(c) /\ plain[c] = <<c>>
      /\ Index[c] \in DOMAIN blocks /\ blocks[Index[c]].holds = <<c>>

(* The graph: a leaf, or an operation over nodes made before it.            *)
NodeIn(n, node) ==
  /\ node.entity \in Entities
  /\ \/ node.op = 0 /\ node.children = << >>
     \/ /\ node.op \in DOMAIN recording
        /\ DOMAIN node.children = {1, 2}
        /\ node.children[1] \in 1..(n - 1) /\ node.children[2] \in 1..(n - 1)

GraphIn(g) ==
  /\ DOMAIN g = {"nodes", "of", "roots"}
  /\ g.nodes \in Seq(Range(g.nodes))
  /\ \A n \in DOMAIN g.nodes : NodeIn(n, g.nodes[n])
  /\ g.of \in [Entities -> 0..Len(g.nodes)]
  /\ g.roots \in Seq(DOMAIN g.nodes)

(* The lowered program so far: the ids 1 to NextId - 1, each an input or    *)
(* the result of one instruction, over ids given out before.                *)
Results(n) == {code[i].res : i \in 1..n}

Numbered ==
  /\ inputs \in Seq(Nat) /\ code \in Seq(Range(code))
  /\ InputIds \cup Results(Len(code)) = 1..(NextId - 1)
  /\ InputIds \cap Results(Len(code)) = {}
  /\ \A k, l \in DOMAIN inputs : inputs[k] = inputs[l] => k = l
  /\ \A i, j \in DOMAIN code : code[i].res = code[j].res => i = j
  /\ \A i \in DOMAIN code : \A j \in 1..4 :
       code[i].args[j] \in {Unused} \cup InputIds \cup Results(i - 1)

Lowering ==
  /\ ids \in [DOMAIN graph.nodes -> 0..(NextId - 1)]
  /\ stack \in Seq(DOMAIN graph.nodes)
  /\ bindings \in Seq([id : 1..(NextId - 1), entity : Entities])
  /\ Numbered

(* Where the run is decides what else is known.                             *)
Staged ==
  /\ phase \in Phases
  /\ phase \in Translating => ~poisoned /\ GraphIn(graph)
  /\ phase \in {"record", "optimize"} => graph = EmptyGraph
  /\ phase \in {"record", "optimize", "build"} =>
       /\ next \in Nat \ {0}
       /\ stack = << >> /\ code = << >> /\ inputs = << >> /\ bindings = << >>
  /\ phase \in {"lower", "lowered", "execute"} => Lowering
  /\ phase = "evaluate" => ~start.runtime /\ stack \in Seq(DOMAIN graph.nodes)
  /\ phase = "execute" => hold \in [InputIds -> 0..Len(blocks)]
  /\ phase \in {"lower", "evaluate"} => next \in Nat \ {0}
  /\ DOMAIN hold \subseteq Nat
  /\ phase \in {"ok", "failed"} =>
       recording = << >> /\ ~poisoned /\ \A e \in Entities : map[e] = Nothing

RunInv ==
  /\ RecordedTyped /\ Registered(map, live, Len(temps)) /\ RecordedCanonical
  /\ StoreTyped /\ Untouched /\ Staged
=============================================================================
