--------------------------- MODULE ExecutionGraph ---------------------------
(***************************************************************************)
(* From a recording to something that runs: the graph the scheduler builds  *)
(* (include/Scheduler/Scheduler.h buildAST), its lowering to an FhnProgram  *)
(* (include/Scheduler/LowerToFhnProgram.h), and, for a backend without an   *)
(* FHN runtime, its evaluation operation by operation (ASTNode.h,           *)
(* src/Scheduler/Operation.cpp).                                           *)
(*                                                                         *)
(* Both walks of the graph are recursive in the code; stack is the chain of *)
(* calls, one node per call.                                               *)
(***************************************************************************)
EXTENDS FhnProgram, SessionEntities

VARIABLES
  next,      \* the operation being translated, or the root being walked
  graph,     \* nodes, entityToNodeMap and roots
  stack,     \* the nodes whose lowering or evaluation is under way
  ids,       \* node_ids: the id of each lowered node, 0 before
  code,      \* the instructions emitted
  inputs,    \* the input ids emitted
  bindings,  \* (id, entity) associations, in lowering order
  evaluated  \* the nodes whose evaluated_ flag is set

lowering == <<ids, code, inputs, bindings>>
graphVars == <<next, graph, stack, lowering, evaluated>>

NoNode == 0

EmptyGraph ==
  [nodes |-> << >>, of |-> [e \in Entities |-> NoNode], roots |-> << >>]

GraphInit ==
  /\ next = 1 /\ graph = EmptyGraph /\ stack = << >>
  /\ ids = << >> /\ code = << >> /\ inputs = << >> /\ bindings = << >>
  /\ evaluated = {}

-----------------------------------------------------------------------------
(* buildAST                                                                *)
Node(op, entity, children) ==
  [op |-> op, entity |-> entity, children |-> children]

(* An OperandNode reads an entity nothing has written yet.                  *)
Leaf(e) == Node(0, e, << >>)

IsLeaf(n) == graph.nodes[n].op = 0

WithLeaf(g, e) == [g EXCEPT !.nodes = Append(@, Leaf(e))]

(* The graph in which e has a node: the latest one that writes it, or a     *)
(* leaf made for it.                                                       *)
Reading(g, e) ==
  IF g.of[e] # NoNode THEN g
  ELSE [WithLeaf(g, e) EXCEPT !.of[e] = Len(g.nodes) + 1]

(* Fault: an assignment leaves the map as it was.                           *)
BuildWithoutRebinding ==
  /\ phase = "build" /\ next <= Len(recording)
  /\ LET op == recording[next]
         left == Reading(graph, op.operand1)
         right == IF IsScalar(op.operand2) THEN WithLeaf(left, op.operand2)
                                           ELSE Reading(left, op.operand2)
         second == IF IsScalar(op.operand2) THEN Len(right.nodes)
                                            ELSE right.of[op.operand2]
         n == Len(right.nodes) + 1
     IN  graph' = [right EXCEPT
           !.nodes = Append(@, Node(next, Target(op),
                                    <<left.of[op.operand1], second>>)),
           !.of = IF op.type = "Assignment" THEN @ ELSE [@ EXCEPT ![Target(op)] = n],
           !.roots = Append(@, n)]
  /\ next' = next + 1
  /\ UNCHANGED <<phase, temps, recording, store, stack, lowering, evaluated>>

(* One recorded operation becomes one operator node and one root.  A scalar *)
(* gets a leaf of its own that the map does not know.                       *)
BuildOperation ==
  /\ phase = "build" /\ next <= Len(recording)
  /\ LET op == recording[next]
         left == Reading(graph, op.operand1)
         right == IF IsScalar(op.operand2) THEN WithLeaf(left, op.operand2)
                                           ELSE Reading(left, op.operand2)
         second == IF IsScalar(op.operand2) THEN Len(right.nodes)
                                            ELSE right.of[op.operand2]
         n == Len(right.nodes) + 1
     IN  graph' = [right EXCEPT
           !.nodes = Append(@, Node(next, Target(op),
                                    <<left.of[op.operand1], second>>)),
           !.of[Target(op)] = n,
           !.roots = Append(@, n)]
  /\ next' = next + 1
  /\ UNCHANGED <<phase, temps, recording, store, stack, lowering, evaluated>>

GraphBuilt(walk) ==
  /\ phase = "build" /\ next > Len(recording)
  /\ phase' = walk
  /\ next' = 1
  /\ ids' = [n \in DOMAIN graph.nodes |-> 0]
  /\ UNCHANGED <<temps, recording, store, graph, stack, code, inputs, bindings, evaluated>>

-----------------------------------------------------------------------------
(* The walk shared by lowerNode and evaluate.                               *)
Top == stack[Len(stack)]

Return == stack' = SubSeq(stack, 1, Len(stack) - 1)

Recorded(n) == recording[graph.nodes[n].op]

Children(n) == graph.nodes[n].children

(* A scalar right operand of an arithmetic operation is folded into the     *)
(* instruction and never visited by lowerNode.                              *)
Folds(n) ==
  /\ ~IsLeaf(n)
  /\ Recorded(n).type \in Arithmetic
  /\ IsScalar(graph.nodes[Children(n)[2]].entity)

(* Each child is called once, in order.  A call on a node already done      *)
(* returns at once, so the calls that do something are those on the         *)
(* children not done yet.                                                  *)
ToLower(n) ==
  {j \in DOMAIN Children(n) : ids[Children(n)[j]] = 0 /\ ~(Folds(n) /\ j = 2)}

ToEvaluate(n) == {j \in DOMAIN Children(n) : Children(n)[j] \notin evaluated}

(* Fault: the roots are taken from the last to the first.                   *)
VisitRootsBackwards ==
  /\ phase \in {"lower", "evaluate"}
  /\ stack = << >> /\ next <= Len(graph.roots)
  /\ stack' = <<graph.roots[Len(graph.roots) + 1 - next]>>
  /\ next' = next + 1
  /\ UNCHANGED <<phase, temps, recording, store, graph, lowering, evaluated>>

VisitRoot ==
  /\ phase \in {"lower", "evaluate"}
  /\ stack = << >> /\ next <= Len(graph.roots)
  /\ stack' = <<graph.roots[next]>>
  /\ next' = next + 1
  /\ UNCHANGED <<phase, temps, recording, store, graph, lowering, evaluated>>

VisitChild ==
  /\ stack # << >>
  /\ LET pending == IF phase = "lower" THEN ToLower(Top) ELSE ToEvaluate(Top)
     IN  pending # {} /\ stack' = Append(stack, Children(Top)[Min(pending)])
  /\ UNCHANGED <<phase, temps, recording, store, next, graph, lowering, evaluated>>

-----------------------------------------------------------------------------
(* Fault: results are numbered apart from inputs.                           *)
NextResultId == Len(code) + 1

(* lowerNode, after the children.  Ids are given out in order to inputs and *)
(* results alike (next_id++).                                               *)
NextId == Len(inputs) + Len(code) + 1

Ready == phase = "lower" /\ stack # << >> /\ ToLower(Top) = {}

Bind(n, id) ==
  /\ ids' = [ids EXCEPT ![n] = id]
  /\ bindings' = Append(bindings, [id |-> id, entity |-> graph.nodes[n].entity])

LowerLeaf ==
  /\ Ready /\ IsLeaf(Top)
  /\ inputs' = Append(inputs, NextId)
  /\ Bind(Top, NextId)
  /\ Return
  /\ UNCHANGED <<phase, temps, recording, store, next, graph, code, evaluated>>

(* An assignment emits nothing: its variable is bound to the value's id.    *)
LowerAssignment ==
  /\ Ready /\ ~IsLeaf(Top) /\ Recorded(Top).type = "Assignment"
  /\ Bind(Top, ids[Children(Top)[2]])
  /\ Return
  /\ UNCHANGED <<phase, temps, recording, store, next, graph, code, inputs, evaluated>>

(* mapOpType, and the scalar forms.                                         *)
OpCode(type, folded) ==
  CASE type = "Add" -> IF folded THEN "ADD_CS" ELSE "ADD_CC"
    [] type = "Multiply" -> IF folded THEN "MULT_CS" ELSE "HMULT"

(* fparams[0] is the value of the scalar, named here by its entity.         *)
Emitted(n) ==
  LET c == Children(n) IN
    [op |-> OpCode(Recorded(n).type, Folds(n)),
     res |-> NextId,
     args |-> <<ids[c[1]], IF Folds(n) THEN Unused ELSE ids[c[2]], Unused, Unused>>,
     param |-> 0,
     fparam |-> IF Folds(n) THEN graph.nodes[c[2]].entity ELSE Nothing]

LowerArithmetic ==
  /\ Ready /\ ~IsLeaf(Top) /\ Recorded(Top).type \in Arithmetic
  /\ code' = Append(code, Emitted(Top))
  /\ Bind(Top, NextId)
  /\ Return
  /\ UNCHANGED <<phase, temps, recording, store, next, graph, inputs, evaluated>>

LoweringDone ==
  /\ phase = "lower" /\ stack = << >> /\ next > Len(graph.roots)
  /\ phase' = "lowered"
  /\ UNCHANGED <<temps, recording, store, graphVars>>

lowered == [inputs |-> inputs, code |-> code]

-----------------------------------------------------------------------------
(* evaluate, after the children: reading a leaf changes nothing, an operator*)
(* executes its operation on the entities in place.                         *)
EvaluateReady == phase = "evaluate" /\ stack # << >> /\ ToEvaluate(Top) = {}

EvaluateLeaf ==
  /\ EvaluateReady /\ IsLeaf(Top)
  /\ evaluated' = evaluated \cup {Top}
  /\ Return
  /\ UNCHANGED <<phase, temps, recording, store, next, graph, lowering>>

(* Operation::execute of an assignment: the value always, the ciphertext    *)
(* only from an encrypted right side.                                       *)
ExecuteAssignment ==
  /\ EvaluateReady /\ ~IsLeaf(Top) /\ Recorded(Top).type = "Assignment"
  /\ LET op == Recorded(Top) IN
       /\ plain' = [plain EXCEPT ![op.operand1] = plain[op.operand2]]
       /\ cipher' = IF IsEncrypted(op.operand2)
                      THEN [cipher EXCEPT ![op.operand1] = cipher[op.operand2]]
                      ELSE cipher
  /\ evaluated' = evaluated \cup {Top}
  /\ Return
  /\ UNCHANGED <<phase, temps, recording, blocks, next, graph, lowering>>

(* The backend adds or multiplies what it encrypted itself, into a new      *)
(* buffer; the plaintext of the result is 0.                                *)
Operable(e) == IsEncrypted(e) /\ Owner(e) = "ours"

ExecuteArithmetic ==
  /\ EvaluateReady /\ ~IsLeaf(Top) /\ Recorded(Top).type \in Arithmetic
  /\ LET op == Recorded(Top) IN
       /\ Operable(op.operand1) /\ Operable(op.operand2)
       /\ blocks' = Append(blocks,
            Block(Len(blocks) + 1, "ours",
                  <<op.type, Holds(op.operand1), Holds(op.operand2)>>))
       /\ cipher' = [cipher EXCEPT ![op.result] = Len(blocks) + 1]
       /\ plain' = [plain EXCEPT ![op.result] = <<Nothing>>]
  /\ evaluated' = evaluated \cup {Top}
  /\ Return
  /\ UNCHANGED <<phase, temps, recording, next, graph, lowering>>

(* Any backend operation may throw, and throws on what it cannot operate on.*)
ExecuteThrows ==
  /\ EvaluateReady /\ ~IsLeaf(Top) /\ Recorded(Top).type \in Arithmetic
  /\ phase' = "throw"
  /\ UNCHANGED <<temps, recording, store, graphVars>>

EvaluationDone ==
  /\ phase = "evaluate" /\ stack = << >> /\ next > Len(graph.roots)
  /\ phase' = "return"
  /\ UNCHANGED <<temps, recording, store, graphVars>>

GraphNext(walk) ==
  \/ BuildOperation \/ GraphBuilt(walk)
  \/ VisitRoot \/ VisitChild
  \/ LowerLeaf \/ LowerAssignment \/ LowerArithmetic \/ LoweringDone
  \/ EvaluateLeaf \/ ExecuteAssignment \/ ExecuteArithmetic \/ ExecuteThrows
  \/ EvaluationDone

-----------------------------------------------------------------------------
(* The value each id of the lowered program has, from the values of its     *)
(* inputs.                                                                 *)
ValueOf(start) ==
  LET position(id) == CHOOSE i \in DOMAIN code : code[i].res = id
      value[id \in 1..(NextId - 1)] ==
        IF id \in DOMAIN start THEN start[id]
        ELSE LET i == code[position(id)]
                 x == value[i.args[1]]
             IN  CASE i.op = "ADD_CC"  -> <<"Add", x, value[i.args[2]]>>
                   [] i.op = "HMULT"   -> <<"Multiply", x, value[i.args[2]]>>
                   [] i.op = "ADD_CS"  -> <<"Add", x, <<i.fparam>>>>
                   [] i.op = "MULT_CS" -> <<"Multiply", x, <<i.fparam>>>>
  IN  value

Bound == {bindings[k].entity : k \in DOMAIN bindings}

(* Fault: the first binding of an entity wins.                              *)
Earliest(e) ==
  bindings[Min({k \in DOMAIN bindings : bindings[k].entity = e})].id

(* The last binding of an entity wins (Session.cpp:36-43).                  *)
Latest(e) ==
  bindings[Max({k \in DOMAIN bindings : bindings[k].entity = e})].id

(* The first entity bound to an input is the one the leaf reads.            *)
Reader(id) ==
  bindings[Min({k \in DOMAIN bindings : bindings[k].id = id})].entity

InputIds == {inputs[k] : k \in DOMAIN inputs}

(* The lowered program is one the planner accepts, so the error Session     *)
(* reserves for a plan it cannot make (Session.cpp:58-61) is never raised:  *)
(* single assignment, every operand defined before it is used, whatever was *)
(* recorded (LowerToFhnProgram.h:88-174).                                   *)
LoweredIsPlannable == phase = "lowered" => WellFormed(lowered)

(* Lowered, the program computes what was recorded: run on the values the   *)
(* entities had, the id an entity is finally bound to holds what carrying   *)
(* out the operations one by one leaves in it, whatever was overwritten,    *)
(* copied or read in between (Scheduler.h:57-136,                            *)
(* LowerToFhnProgram.h:88-174).  Evaluated without an FHN runtime, the       *)
(* recursion executes every operation exactly once and in the recorded      *)
(* order: at any moment, also when an exception cuts it short, the entities *)
(* hold what a prefix of the recording leaves (ASTNode.h:26-35,              *)
(* Scheduler.h:153-163).                                                     *)
LoweredMeansRecording ==
  LET value == ValueOf([id \in InputIds |-> <<Reader(id)>>])
      final == After[Len(recording)]
  IN  /\ \A k \in DOMAIN recording : Target(recording[k]) \in Bound
      /\ \A e \in Bound : value[Latest(e)] = final[e]

EvaluatedIsPrefix ==
  LET executed == {graph.nodes[n].op : n \in evaluated} \ {0}
  IN  executed = 1..Cardinality(executed)

GraphMeansRecording ==
  /\ phase = "lowered" => LoweredMeansRecording
  /\ phase = "evaluate" => EvaluatedIsPrefix
==================================================
