---------------------------- MODULE SessionMeaning ----------------------------
(***************************************************************************)
(* What the state of a run means: the invariant of SessionMeaningProofs,    *)
(* which relates every node of the graph, every id of the lowered program   *)
(* and every buffer to the prefix of the recording it stands for            *)
(* (Scheduler.h:57-136, LowerToFhnProgram.h:88-174, Session.cpp:36-133).    *)
(***************************************************************************)
EXTENDS SessionRun

(* What a node of a graph stands for.                                       *)
MeaningIn(g, n) ==
  LET node == g.nodes[n]
  IN  IF node.op = 0 THEN <<node.entity>> ELSE After[node.op][node.entity]

Meaning(n) == MeaningIn(graph, n)

(* Everything a variable of the enclosing scope held was encrypted.         *)
AllEncrypted == \A c \in Callers : start.owner[c] # Nothing

(* What an entity that nothing has written holds.                           *)
Original(e) ==
  /\ IsEncrypted(e) /\ cipher[e] \in DOMAIN blocks
  /\ blocks[cipher[e]].holds = <<e>>

ResultIn(t, e) == e \in DOMAIN t /\ t[e] = "result"

ScalarIn(t, e) == e \in DOMAIN t /\ t[e] = "scalar"

WrittenIn(rec, e, n) == \E j \in 1..n : Target(rec[j]) = e

WrittenBefore(e, n) == WrittenIn(recording, e, n)

(* Scalars are read only as the right operand of an arithmetic operation,   *)
(* and the result of an expression has been computed before anything        *)
(* mentions it.                                                            *)
OperationFits(t, rec, k) ==
  LET op == rec[k] IN
    /\ Mentions(op) \subseteq Names \cup DOMAIN t
    /\ ~ScalarIn(t, Target(op)) /\ ~ScalarIn(t, op.operand1)
    /\ op.type = "Assignment" => ~ScalarIn(t, op.operand2)
    /\ \A e \in {op.operand1, op.operand2} : ResultIn(t, e) => WrittenIn(rec, e, k - 1)

(* A name stands for itself or for such a result, a caller's for itself.    *)
NamesFit(t, m) ==
  /\ \A n \in Names : m[n] \in DOMAIN t => ResultIn(t, m[n])
  /\ \A c \in Callers : m[c] \in {c, Nothing}

ResultsFirst ==
  /\ \A k \in DOMAIN recording : OperationFits(temps, recording, k)
  /\ \A e \in DOMAIN temps :
       ResultIn(temps, e) => WrittenIn(recording, e, Len(recording))
  /\ NamesFit(temps, map)

Sources ==
  {c \in (live \cap Callers) \ moved : start.owner[c] # Nothing}
    \cup {k \in DOMAIN temps : temps[k] # "result"}

Underway == {"record", "optimize"} \cup Translating

(* What the lambda has left alone is as it was.                             *)
SourcesIntact ==
  /\ phase \in Underway /\ (start.runtime \/ phase # "evaluate") =>
       \A e \in Sources : Original(e)
  /\ phase \in Underway /\ ~poisoned => moved \cap Callers = {}
  /\ phase \in {"optimize"} \cup Translating => live \subseteq Callers

(* What each name would hold is what the recording makes of the entity it   *)
(* stands for.                                                              *)
Symbolic(n) == now[n] = After[Len(recording)][Canonical(map, n)]

Intended ==
  /\ DOMAIN now = Names
  /\ phase \in Underway /\ ~poisoned /\ ~clobbered => \A n \in live \ moved : Symbolic(n)

-----------------------------------------------------------------------------
Built == IF phase = "build" THEN next - 1 ELSE Len(recording)

(* Of the operations up to the b-th, each is the node of its root, over     *)
(* what its operands held; a leaf reads what nothing has written.           *)
OperatorMeans(g, b, n) ==
  LET node == g.nodes[n]
      op == recording[node.op]
      operand == <<op.operand1, op.operand2>>
  IN  /\ node.op \in 1..b /\ g.roots[node.op] = n
      /\ node.entity = Target(op)
      /\ \A j \in {1, 2} :
           LET child == node.children[j] IN
             /\ MeaningIn(g, child) = After[node.op - 1][operand[j]]
             /\ g.nodes[child].entity = operand[j]
             /\ g.nodes[child].op < node.op

LeafMeans(e) == ~ResultIn(temps, e) /\ map[e] = e

NodesMean(g, b) ==
  \A n \in DOMAIN g.nodes :
    IF g.nodes[n].op = 0 THEN LeafMeans(g.nodes[n].entity) ELSE OperatorMeans(g, b, n)

EntitiesMean(g, b) ==
  \A e \in Entities :
    IF g.of[e] = NoNode THEN ~WrittenBefore(e, b)
    ELSE g.nodes[g.of[e]].entity = e /\ MeaningIn(g, g.of[e]) = After[b][e]

RootsMean(g, b) ==
  /\ Len(g.roots) = b /\ b <= Len(recording)
  /\ \A k \in 1..b : g.nodes[g.roots[k]].op = k

GraphMeansIn(g, b) == RootsMean(g, b) /\ NodesMean(g, b) /\ EntitiesMean(g, b)

GraphMeans == GraphMeansIn(graph, Built)

-----------------------------------------------------------------------------
(* The roots whose walk is over.                                            *)
Finished == IF stack = << >> THEN next - 1 ELSE next - 2

Visited(n) == IF phase = "evaluate" THEN n \in evaluated ELSE ids[n] # 0

WalkMeans ==
  /\ next - 1 <= Len(graph.roots)
  /\ phase \notin {"lower", "evaluate"} => stack = << >> /\ next = Len(graph.roots) + 1
  /\ \/ stack = << >>
     \/ next >= 2 /\ stack = <<graph.roots[next - 1]>>
     \/ /\ next >= 2 /\ Len(stack) = 2 /\ stack[1] = graph.roots[next - 1]
        /\ \E j \in {1, 2} : stack[2] = Children(stack[1])[j]
        /\ IsLeaf(stack[2]) /\ ~Visited(stack[2])
  /\ evaluated \subseteq DOMAIN graph.nodes
  /\ \A n \in DOMAIN graph.nodes :
       ~IsLeaf(n) => (Visited(n) <=> graph.nodes[n].op <= Finished)

Kind(opcode) == IF opcode \in {"ADD_CC", "ADD_CS"} THEN "Add" ELSE "Multiply"

Follows(i) ==
  \E n, x, y \in DOMAIN graph.nodes :
    /\ ids[n] = code[i].res /\ ids[x] = code[i].args[1] /\ ids[n] # 0 /\ ids[x] # 0
    /\ code[i].op \in {"ADD_CC", "HMULT", "ADD_CS", "MULT_CS"}
    /\ IF code[i].op \in {"ADD_CC", "HMULT"} THEN ids[y] = code[i].args[2] /\ ids[y] # 0
       ELSE IsLeaf(y) /\ graph.nodes[y].entity = code[i].fparam
    /\ Meaning(n) = <<Kind(code[i].op), Meaning(x), Meaning(y)>>

FirstBound(id, e) ==
  \E b \in DOMAIN bindings :
    /\ bindings[b].id = id /\ bindings[b].entity = e
    /\ \A a \in 1..(b - 1) : bindings[a].id # id

LastBound(b) ==
  \A a \in DOMAIN bindings : a > b => bindings[a].entity # bindings[b].entity

LoweringMeans ==
  /\ \A m, n \in DOMAIN graph.nodes :
       ids[m] = ids[n] /\ ids[n] # 0 => Meaning(m) = Meaning(n)
  /\ \A id \in InputIds :
       \E n \in DOMAIN graph.nodes :
         IsLeaf(n) /\ ids[n] = id /\ FirstBound(id, graph.nodes[n].entity)
  /\ \A i \in DOMAIN code : Follows(i)
  /\ \A b \in DOMAIN bindings : LastBound(b) =>
       \E n \in DOMAIN graph.nodes :
         ids[n] = bindings[b].id /\ Meaning(n) = After[Finished][bindings[b].entity]
  /\ \A k \in 1..Finished : Target(recording[k]) \in Bound

HeldMeans ==
  AllEncrypted =>
    \A id \in InputIds : \A n \in DOMAIN graph.nodes :
      ids[n] = id => hold[id] \in DOMAIN blocks /\ blocks[hold[id]].holds = Meaning(n)

EvaluationMeans ==
  AllEncrypted =>
    \A e \in Entities :
      e \in Sources \/ WrittenBefore(e, Finished) =>
        /\ IsEncrypted(e) /\ cipher[e] \in DOMAIN blocks
        /\ blocks[cipher[e]].holds = After[Finished][e]

-----------------------------------------------------------------------------
LambdaInv == ResultsFirst /\ SourcesIntact /\ Intended

Unstarted ==
  /\ phase \in {"record", "optimize"} => next = 1
  /\ phase \in {"record", "optimize", "build"} \/ start.runtime => evaluated = {}

MeaningInv ==
  /\ LambdaInv /\ Unstarted
  /\ phase \in Translating => GraphMeans
  /\ phase \in {"lower", "lowered", "execute", "evaluate"} => WalkMeans
  /\ phase \in {"lower", "lowered", "execute"} => LoweringMeans
  /\ phase = "execute" => HeldMeans
  /\ phase = "evaluate" => EvaluationMeans
  /\ phase \in {"return", "ok"} /\ ~clobbered /\ AllEncrypted => Delivered
=============================================================================
