------------------------ MODULE MovementPlannerProofs ------------------------
(***************************************************************************)
(* The planner's safety for every set of requests: any programs, budgets,   *)
(* pinned sets, policies and level models.  What analyze hands out is       *)
(* sound, and what it turns down is infeasible.                             *)
(***************************************************************************)
EXTENDS MovementPlanner, FiniteSetTheorems, TLAPS

-----------------------------------------------------------------------------
(* The naturals.  Induction is stated of a set, so that a first-order       *)
(* prover can use it.                                                       *)

(* A set of naturals that is not empty has a least element.                 *)
LEMMA LeastExists ==
  ASSUME NEW T, T \subseteq Nat, T # {}
  PROVE  \E x \in T : \A y \in T : x <= y
<1> DEFINE R == OpToRel(<, Nat)
<1>1. \A x, y \in Nat : y < x => <<y, x>> \in R
  BY DEF OpToRel
<1>2. IsWellFoundedOn(R, Nat)
  BY NatLessThanWellFounded, Zenon
<1> HIDE DEF R
<1>3. PICK x \in T : \A y \in T : ~(<<y, x>> \in R)
  BY <1>2, WFMin, Zenon
<1>4. \A y \in T : ~(y < x)
  BY <1>1, <1>3
<1>5. QED
  BY <1>4

(* A bounded one has a greatest element as well.                            *)
LEMMA GreatestExists ==
  ASSUME NEW n \in Nat, NEW T, T \subseteq 0..n, T # {}
  PROVE  \E x \in T : \A y \in T : y <= x
<1> DEFINE U == {n - t : t \in T}
<1>1. U \subseteq Nat /\ U # {}
  <2>1. \A t \in T : n - t \in Nat
    OBVIOUS
  <2>2. PICK t \in T : TRUE
    OBVIOUS
  <2>3. n - t \in U
    OBVIOUS
  <2>4. QED
    BY <2>1, <2>3
<1>2. PICK u \in U : \A w \in U : u <= w
  BY <1>1, LeastExists
<1>3. PICK x \in T : u = n - x
  OBVIOUS
<1>4. \A y \in T : n - y \in U
  OBVIOUS
<1>5. QED
  BY <1>2, <1>3, <1>4

(* Induction: a set that holds 0 and the successor of what it holds.        *)
LEMMA InductionOnSet ==
  ASSUME NEW S, 0 \in S, \A n \in Nat : n \in S => n + 1 \in S
  PROVE  Nat \subseteq S
<1> SUFFICES ASSUME Nat \ S # {}
             PROVE  FALSE
  OBVIOUS
<1>1. PICK x \in Nat \ S : \A y \in Nat \ S : x <= y
  BY LeastExists
<1>2. x - 1 \in Nat /\ x - 1 \in S
  BY <1>1
<1>3. QED
  BY <1>1, <1>2

-----------------------------------------------------------------------------
(* Weight is a sum: it is a natural number, it adds over disjoint sets, and *)
(* a part weighs no more than the whole.                                    *)

(* The cells of one buffer are as many as its cost.                         *)
LEMMA CellsOfOne ==
  ASSUME NEW x, NEW n \in Nat
  PROVE  IsFiniteSet({x} \X (1..n)) /\ Cardinality({x} \X (1..n)) = n
<1>1. IsFiniteSet({x}) /\ Cardinality({x}) = 1
  BY FS_Singleton
<1>2. IsFiniteSet(1..n) /\ Cardinality(1..n) = n
  BY FS_Interval, 1 \in Int, n \in Int
<1>3. /\ IsFiniteSet({x} \X (1..n))
      /\ Cardinality({x} \X (1..n)) = Cardinality({x}) * Cardinality(1..n)
  BY <1>1, <1>2, FS_Product, Zenon
<1>4. Cardinality({x} \X (1..n)) = 1 * n
  BY <1>1, <1>2, <1>3, Zenon
<1>5. QED
  BY <1>3, <1>4

(* Finitely many buffers occupy finitely many cells.                        *)
LEMMA CellsFinite ==
  ASSUME NEW S, NEW c, IsFiniteSet(S), \A x \in S : c[x] \in Nat
  PROVE  IsFiniteSet(Cells(S, c))
<1> DEFINE f == [x \in S |-> {x} \X (1..c[x])]
           R == {{x} \X (1..c[x]) : x \in S}
<1>1. IsFiniteSet(R)
  <2>1. f \in Surjection(S, R)
    BY DEF Surjection
  <2>2. QED
    BY <2>1, FS_Surjection, Zenon
<1>2. ASSUME NEW T \in R
      PROVE  IsFiniteSet(T)
  <2>1. PICK x \in S : T = {x} \X (1..c[x])
    OBVIOUS
  <2>2. QED
    BY <2>1, CellsOfOne, Zenon
<1>3. QED
  BY <1>1, <1>2, FS_UNION DEF Cells

LEMMA WeightType ==
  ASSUME NEW S, NEW c, IsFiniteSet(S), \A x \in S : c[x] \in Nat
  PROVE  Weight(S, c) \in Nat
BY CellsFinite, FS_CardinalityType DEF Weight

LEMMA WeightEmpty ==
  ASSUME NEW c
  PROVE  Weight({}, c) = 0
<1>1. Cells({}, c) = {}
  BY DEF Cells
<1>2. QED
  BY <1>1, FS_EmptySet DEF Weight

LEMMA WeightOne ==
  ASSUME NEW x, NEW c, c[x] \in Nat
  PROVE  Weight({x}, c) = c[x]
<1>1. Cells({x}, c) = {x} \X (1..c[x])
  BY DEF Cells
<1>2. QED
  BY <1>1, CellsOfOne DEF Weight

(* Disjoint sets of buffers share no cell, so their weights add.            *)
THEOREM WeightAdds ==
  ASSUME NEW S, NEW T, NEW c,
         IsFiniteSet(S), IsFiniteSet(T), S \cap T = {},
         \A x \in S \cup T : c[x] \in Nat
  PROVE  Weight(S \cup T, c) = Weight(S, c) + Weight(T, c)
<1>1. Cells(S \cup T, c) = Cells(S, c) \cup Cells(T, c)
  BY DEF Cells
<1>2. Cells(S, c) \cap Cells(T, c) = {}
  <2> SUFFICES ASSUME NEW u \in Cells(S, c), u \in Cells(T, c)
               PROVE  FALSE
    OBVIOUS
  <2>1. PICK x \in S : u \in {x} \X (1..c[x])
    BY DEF Cells
  <2>2. PICK y \in T : u \in {y} \X (1..c[y])
    BY DEF Cells
  <2>3. u[1] = x /\ u[1] = y
    BY <2>1, <2>2
  <2>4. QED
    BY <2>3
<1>3. IsFiniteSet(Cells(S, c)) /\ IsFiniteSet(Cells(T, c))
  BY CellsFinite
<1>4. Cardinality(Cells(S, c) \cap Cells(T, c)) = 0
  BY <1>2, FS_EmptySet
<1>5. Cardinality(Cells(S, c) \cup Cells(T, c))
        = Cardinality(Cells(S, c)) + Cardinality(Cells(T, c))
          - Cardinality(Cells(S, c) \cap Cells(T, c))
  BY <1>3, FS_Union, Zenon
<1>6. Weight(S, c) \in Nat /\ Weight(T, c) \in Nat
  BY WeightType
<1>7. Weight(S \cup T, c) = Weight(S, c) + Weight(T, c) - 0
  BY <1>1, <1>4, <1>5, Zenon DEF Weight
<1>8. QED
  BY <1>6, <1>7

(* What is left after taking T away weighs the difference.                  *)
THEOREM WeightRemoves ==
  ASSUME NEW S, NEW T, NEW c,
         IsFiniteSet(S), T \subseteq S, \A x \in S : c[x] \in Nat
  PROVE  /\ Weight(S \ T, c) = Weight(S, c) - Weight(T, c)
         /\ Weight(T, c) <= Weight(S, c)
<1>1. IsFiniteSet(T) /\ IsFiniteSet(S \ T)
  BY FS_Subset, S \ T \subseteq S
<1>2. (S \ T) \cup T = S /\ (S \ T) \cap T = {}
  OBVIOUS
<1>3. Weight(S, c) = Weight(S \ T, c) + Weight(T, c)
  BY <1>1, <1>2, WeightAdds
<1>4. Weight(S \ T, c) \in Nat /\ Weight(T, c) \in Nat
  BY <1>1, WeightType
<1>5. QED
  BY <1>3, <1>4

-----------------------------------------------------------------------------
(* Facts about programs.                                                    *)

LEMMA ProgramTypes ==
  ASSUME NEW p \in Program
  PROVE  /\ Size(p) \in Nat
         /\ Inputs(p) \subseteq Nat
         /\ \A i \in Positions(p) : Result(p, i) \in Nat
         /\ \A i \in Positions(p) : Operands(p, i) \subseteq Nat
         /\ Ids(p) \subseteq Nat
<1>1. p.inputs \in Seq(Nat) /\ p.code \in Seq(Instruction)
  BY DEF Program
<1>2. Size(p) \in Nat
  BY <1>1 DEF Size
<1>3. \A i \in Positions(p) : p.code[i] \in Instruction
  BY <1>1 DEF Positions, Size
<1>4. Inputs(p) \subseteq Nat
  BY <1>1 DEF Inputs
<1>5. \A i \in Positions(p) : Result(p, i) \in Nat
  BY <1>3 DEF Instruction, Result
<1>6. \A i \in Positions(p) : Operands(p, i) \subseteq Nat
  BY <1>3 DEF Instruction, Operands
<1>7. QED
  BY <1>2, <1>4, <1>5, <1>6 DEF Ids

(* A function takes finitely many values on a finite set.                   *)
LEMMA FiniteRange ==
  ASSUME NEW S, IsFiniteSet(S), NEW f
  PROVE  IsFiniteSet({f[k] : k \in S})
<1> DEFINE R == {f[k] : k \in S}
           g == [k \in S |-> f[k]]
<1>1. IsFiniteSet(R)
  <2>1. g \in Surjection(S, R)
    BY DEF Surjection
  <2>2. QED
    BY <2>1, FS_Surjection, Zenon
<1>2. QED
  BY <1>1

LEMMA FiniteInterval ==
  ASSUME NEW n \in Nat
  PROVE  IsFiniteSet(1..n)
BY FS_Interval, 1 \in Int, n \in Int

LEMMA IdsFinite ==
  ASSUME NEW p \in Program
  PROVE  IsFiniteSet(Ids(p))
<1>1. p.inputs \in Seq(Nat) /\ p.code \in Seq(Instruction)
  BY DEF Program
<1>2. IsFiniteSet(Inputs(p))
  <2>1. Len(p.inputs) \in Nat /\ DOMAIN p.inputs = 1..Len(p.inputs)
    BY <1>1
  <2>2. IsFiniteSet({p.inputs[k] : k \in 1..Len(p.inputs)})
    BY <2>1, FiniteInterval, FiniteRange
  <2>3. QED
    BY <2>1, <2>2 DEF Inputs
<1>3. IsFiniteSet({Result(p, i) : i \in Positions(p)})
  <2> DEFINE f == [i \in Positions(p) |-> Result(p, i)]
  <2>1. Size(p) \in Nat
    BY ProgramTypes
  <2>2. IsFiniteSet({f[i] : i \in 1..Size(p)})
    BY <2>1, FiniteInterval, FiniteRange
  <2>3. {f[i] : i \in 1..Size(p)} = {Result(p, i) : i \in Positions(p)}
    BY DEF Positions
  <2>4. QED
    BY <2>2, <2>3
<1>4. QED
  BY <1>2, <1>3, FS_Union, Zenon DEF Ids

(* In a well-formed program an instruction reads earlier ids only, and its  *)
(* result is none of them.                                                  *)
LEMMA WellFormedFacts ==
  ASSUME NEW p \in Program, WellFormed(p), NEW i \in Positions(p)
  PROVE  /\ Operands(p, i) \subseteq
              Inputs(p) \cup {Result(p, j) : j \in 1..(i - 1)}
         /\ Result(p, i) \notin
              Inputs(p) \cup {Result(p, j) : j \in 1..(i - 1)}
         /\ WorkingSet(p, i) \subseteq Ids(p)
<1>1. Size(p) \in Nat /\ i \in 1..Size(p)
  BY ProgramTypes DEF Positions
<1>2. \A j \in 1..(i - 1) : j \in Positions(p) /\ j # i
  BY <1>1 DEF Positions
<1>3. Operands(p, i) \subseteq Inputs(p) \cup {Result(p, j) : j \in 1..(i - 1)}
  BY DEF WellFormed, DefinedBeforeUse
<1>4. Result(p, i) \notin Inputs(p)
  BY DEF WellFormed, SingleAssignment
<1>5. \A j \in 1..(i - 1) : Result(p, j) # Result(p, i)
  BY <1>2 DEF WellFormed, SingleAssignment
<1>6. WorkingSet(p, i) \subseteq Ids(p)
  BY <1>2, <1>3 DEF WorkingSet, Ids
<1>7. QED
  BY <1>3, <1>4, <1>5, <1>6

LEMMA OperandsInWorkingSet ==
  ASSUME NEW p, NEW i
  PROVE  WorkingSet(p, i) = {Result(p, i)} \cup Operands(p, i)
BY DEF WorkingSet

(* Max of two naturals.                                                     *)
LEMMA MaxOfTwo ==
  ASSUME NEW a \in Nat, NEW b \in Nat
  PROVE  Max({a, b}) \in Nat
<1>1. \E x \in {a, b} : \A y \in {a, b} : x >= y
  OBVIOUS
<1>2. Max({a, b}) \in {a, b}
  BY <1>1 DEF Max
<1>3. QED
  BY <1>2

-----------------------------------------------------------------------------
(* Facts about the planner's state.                                         *)

(* A level the inference accepts is one the size table covers.              *)
LEMMA ResultLevelsCovered ==
  ResultLevels \subseteq 0..job.model.fresh
BY DEF ResultLevels

LEMMA JobTypes ==
  ASSUME TypeOK
  PROVE  /\ prog \in Program
         /\ job.budget \in Nat
         /\ ByteMode => job.model \in LevelModel
BY DEF TypeOK, Job, prog, ByteMode

(* Nothing that happens to a request changes its program or, once the       *)
(* levels are known, its prices.                                            *)
LEMMA SamePrices ==
  ASSUME job' = job, level' = level
  PROVE  prog' = prog /\ ByteMode' = ByteMode /\ cost' = cost
BY DEF prog, ByteMode, cost

(* While planning every id has a price.                                     *)
LEMMA CostType ==
  ASSUME TypeOK, ChecksHold, Planning
  PROVE  \A id \in Ids(prog) : cost[id] \in Nat
<1> SUFFICES ASSUME NEW id \in Ids(prog)
             PROVE  cost[id] \in Nat
  OBVIOUS
<1>1. CASE ~ByteMode
  BY <1>1 DEF cost
<1>2. CASE ByteMode
  <2>1. job.model \in LevelModel
    BY <1>2, JobTypes
  <2>2. job.model.bytes \in Seq(Nat) /\ job.model.fresh \in Int
    BY <2>1 DEF LevelModel
  <2>3. level[id] \in 0..job.model.fresh
    BY <1>2 DEF ChecksHold, Leveled
  <2>4. Len(job.model.bytes) >= job.model.fresh + 1
    BY <1>2 DEF ChecksHold, ModelOK
  <2>5. level[id] + 1 \in 1..Len(job.model.bytes)
    BY <2>2, <2>3, <2>4
  <2>6. job.model.bytes[level[id] + 1] \in Nat
    BY <2>2, <2>5
  <2>7. QED
    BY <1>2, <2>6 DEF cost
<1>3. QED
  BY <1>1, <1>2

(* What the accounting rests on: Units is a sum over the ids of the program.*)
LEMMA UnitsFacts ==
  ASSUME TypeOK, ChecksHold, Planning, NEW S \in SUBSET Ids(prog)
  PROVE  /\ IsFiniteSet(S)
         /\ Units(S) \in Nat
         /\ \A T \in SUBSET S :
              /\ Units(S \ T) = Units(S) - Units(T)
              /\ Units(T) <= Units(S)
              /\ Units(T) \in Nat
<1>1. IsFiniteSet(Ids(prog))
  BY JobTypes, IdsFinite
<1>2. IsFiniteSet(S)
  BY <1>1, FS_Subset
<1>3. \A id \in S : cost[id] \in Nat
  BY CostType
<1>4. Units(S) \in Nat
  BY <1>2, <1>3, WeightType DEF Units
<1>5. ASSUME NEW T \in SUBSET S
      PROVE  /\ Units(S \ T) = Units(S) - Units(T)
             /\ Units(T) <= Units(S)
             /\ Units(T) \in Nat
  <2>1. IsFiniteSet(T)
    BY <1>2, FS_Subset
  <2>2. \A id \in T : cost[id] \in Nat
    BY <1>3
  <2>3. Units(T) \in Nat
    BY <2>1, <2>2, WeightType DEF Units
  <2>4. /\ Weight(S \ T, cost) = Weight(S, cost) - Weight(T, cost)
        /\ Weight(T, cost) <= Weight(S, cost)
    <3>1. T \subseteq S
      OBVIOUS
    <3>2. QED
      BY <1>2, <1>3, <3>1, WeightRemoves, Zenon
  <2>5. QED
    BY <2>3, <2>4 DEF Units
<1>6. QED
  BY <1>2, <1>4, <1>5

LEMMA UnitsAdd ==
  ASSUME TypeOK, ChecksHold, Planning,
         NEW S \in SUBSET Ids(prog), NEW T \in SUBSET Ids(prog),
         S \cap T = {}
  PROVE  Units(S \cup T) = Units(S) + Units(T)
<1>1. IsFiniteSet(S) /\ IsFiniteSet(T)
  BY UnitsFacts
<1>2. \A id \in S \cup T : cost[id] \in Nat
  BY CostType
<1>3. QED
  BY <1>1, <1>2, WeightAdds DEF Units

LEMMA UnitsOne ==
  ASSUME TypeOK, ChecksHold, Planning, NEW id \in Ids(prog)
  PROVE  Units({id}) = cost[id]
BY CostType, WeightOne DEF Units

(* The instruction under way: where its ids come from and what they cost.   *)
LEMMA InstructionFacts ==
  ASSUME TypeOK, ChecksHold, Planning, pos <= Size(prog)
  PROVE  /\ pos \in Positions(prog)
         /\ Result(prog, pos) \in Ids(prog)
         /\ Operands(prog, pos) \subseteq DefinedBefore(pos)
         /\ Result(prog, pos) \notin DefinedBefore(pos)
         /\ WorkingSet(prog, pos) = {Result(prog, pos)} \cup Operands(prog, pos)
         /\ WorkingSet(prog, pos) \subseteq Ids(prog)
         /\ DefinedBefore(pos) \cup {Result(prog, pos)} = DefinedBefore(pos + 1)
<1>1. prog \in Program /\ Size(prog) \in Nat
  BY JobTypes, ProgramTypes
<1>2. pos \in Positions(prog)
  BY <1>1 DEF TypeOK, Positions
<1>3. WellFormed(prog)
  BY DEF ChecksHold
<1>4. /\ Operands(prog, pos) \subseteq DefinedBefore(pos)
      /\ Result(prog, pos) \notin DefinedBefore(pos)
      /\ WorkingSet(prog, pos) \subseteq Ids(prog)
  BY <1>1, <1>2, <1>3, WellFormedFacts DEF DefinedBefore
<1>5. 1..((pos + 1) - 1) = (1..(pos - 1)) \cup {pos}
  BY <1>1, <1>2 DEF Positions
<1>6. DefinedBefore(pos) \cup {Result(prog, pos)} = DefinedBefore(pos + 1)
  BY <1>5 DEF DefinedBefore
<1>7. QED
  BY <1>2, <1>4, <1>6 DEF WorkingSet, Ids

(* What Place brings in is disjoint from what is resident.                  *)
LEMMA IncomingFacts ==
  ASSUME IInv, pc = "fit"
  PROVE  /\ {Result(prog, pos)} \cup missing \subseteq Ids(prog)
         /\ resident \cap ({Result(prog, pos)} \cup missing) = {}
         /\ Incoming = Units({Result(prog, pos)} \cup missing)
         /\ Incoming \in Nat
<1>1. TypeOK /\ ChecksHold /\ Planning /\ pos <= Size(prog)
  BY DEF IInv, Planning, InstructionUnderWay
<1>2. missing = Operands(prog, pos) \ resident /\ resident \subseteq DefinedBefore(pos)
  BY DEF IInv, InstructionUnderWay, ResidentsDefined
<1>3. /\ Result(prog, pos) \in Ids(prog)
      /\ Result(prog, pos) \notin DefinedBefore(pos)
      /\ Operands(prog, pos) \subseteq DefinedBefore(pos)
  BY <1>1, InstructionFacts
<1>4. missing \in SUBSET Ids(prog) /\ {Result(prog, pos)} \in SUBSET Ids(prog)
  BY <1>1, <1>3 DEF TypeOK
<1>5. {Result(prog, pos)} \cap missing = {}
  BY <1>2, <1>3
<1>6. Units({Result(prog, pos)} \cup missing)
        = Units({Result(prog, pos)}) + Units(missing)
  BY <1>1, <1>4, <1>5, UnitsAdd
<1>7. Units({Result(prog, pos)}) = cost[Result(prog, pos)]
  BY <1>1, <1>3, UnitsOne
<1>8. Incoming = Units({Result(prog, pos)} \cup missing)
  BY <1>6, <1>7 DEF Incoming
<1>9. {Result(prog, pos)} \cup missing \in SUBSET Ids(prog)
  BY <1>4
<1>10. Units({Result(prog, pos)} \cup missing) \in Nat
  BY <1>1, <1>9, UnitsFacts
<1>11. QED
  BY <1>2, <1>3, <1>8, <1>9, <1>10

(* The record updates of the eviction loop and of Place keep their types.   *)
LEMMA StatsUpdates ==
  ASSUME NEW s \in Stats, NEW a \in Nat, NEW b \in Nat, NEW c \in Nat,
         NEW d \in Nat
  PROVE  /\ [s EXCEPT !.evict_count = a] \in Stats
         /\ [s EXCEPT !.alloc_count = a, !.prefetch_count = b,
                      !.high_water = c, !.high_water_bytes = d] \in Stats
BY DEF Stats

LEMMA EvictAppends ==
  ASSUME NEW act \in Actions, NEW v \in Nat
  PROVE  [act EXCEPT !.evict = Append(@, v)] \in Actions
<1>1. act.evict \in Seq(Nat)
  BY DEF Actions
<1>2. Append(act.evict, v) \in Seq(Nat)
  BY <1>1
<1>3. QED
  BY <1>2 DEF Actions

-----------------------------------------------------------------------------
(* IInv is inductive: it holds initially and every action keeps it.         *)

LEMMA InitEstablishes ==
  ASSUME Init
  PROVE  IInv
<1>1. job \in Job /\ prog \in Program /\ Size(prog) \in Nat
  BY JobsAssumption, ProgramTypes DEF Init, Job, prog
<1>2. NoActions \in Actions
  BY DEF NoActions, Actions
<1>3. TypeOK
  BY <1>1, <1>2 DEF Init, TypeOK, Unleveled, Stats
<1>4. ChecksHold /\ ResidentsDefined /\ InstructionUnderWay
  BY DEF Init, ChecksHold, ResidentsDefined, InstructionUnderWay, Planning
<1>5. Units(resident) = 0
  BY WeightEmpty DEF Init, Units
<1>6. UnitsExact /\ WithinBudget
  BY <1>1, <1>5 DEF Init, UnitsExact, WithinBudget, Job
<1>7. QED
  BY <1>3, <1>4, <1>6 DEF IInv

LEMMA CheckProgramKeeps ==
  ASSUME IInv, CheckProgram
  PROVE  IInv'
<1>1. TypeOK /\ resident = {} /\ units = 0 /\ pos = 1
  BY DEF IInv, ResidentsDefined, InstructionUnderWay, CheckProgram
<1>2. prog' = prog /\ ByteMode' = ByteMode /\ prog \in Program
  BY <1>1, JobTypes DEF CheckProgram, prog, ByteMode
<1>3. pc' \in {"rejected", "begin", "infer"}
  BY DEF CheckProgram
<1>4. TypeOK'
  <2>1. pc' = "infer" => job.model.fresh \in Int
    BY <1>1, JobTypes DEF CheckProgram, LevelModel
  <2>2. level' \in [Ids(prog) -> Int]
    BY <1>1, <2>1 DEF CheckProgram, TypeOK, Unleveled
  <2>3. QED
    BY <1>1, <1>2, <1>3, <2>2 DEF CheckProgram, TypeOK, device
<1>5. ChecksHold'
  <2>1. CASE pc' = "infer"
    <3>1. WellFormed(prog) /\ ByteMode /\ ModelOK
      BY <2>1 DEF CheckProgram
    <3>2. 0 <= job.model.fresh /\ job.model.fresh \in Int
      BY <1>1, <3>1, JobTypes DEF ModelOK, LevelModel
    <3>3. DefinedBefore(pos)' = Inputs(prog)
      BY <1>1, <1>2 DEF DefinedBefore, CheckProgram
    <3>4. \A id \in Inputs(prog) : level'[id] = job.model.fresh
      BY <2>1 DEF CheckProgram, Ids
    <3>5. \A id \in DefinedBefore(pos)' : Leveled(id)'
      BY <3>2, <3>3, <3>4 DEF CheckProgram, Leveled
    <3>6. ModelOK'
      BY <3>1 DEF CheckProgram, ModelOK
    <3>7. QED
      BY <1>2, <2>1, <3>1, <3>5, <3>6 DEF ChecksHold, Planning, CheckProgram
  <2>2. CASE pc' = "begin"
    BY <1>2, <2>2 DEF ChecksHold, Planning, CheckProgram
  <2>3. CASE pc' = "rejected"
    BY <2>3 DEF ChecksHold, Planning
  <2>4. QED
    BY <1>3, <2>1, <2>2, <2>3
<1>6. ResidentsDefined' /\ InstructionUnderWay'
  BY <1>1, <1>3 DEF ResidentsDefined, InstructionUnderWay, CheckProgram, device
<1>7. Units(resident)' = 0
  BY <1>1, WeightEmpty DEF Units, CheckProgram, device
<1>8. UnitsExact' /\ WithinBudget'
  <2>1. job.budget \in Nat
    BY <1>1, JobTypes
  <2>2. QED
    BY <1>1, <1>7, <2>1 DEF UnitsExact, WithinBudget, CheckProgram, device
<1>9. QED
  BY <1>4, <1>5, <1>6, <1>8 DEF IInv

LEMMA InferLevelKeeps ==
  ASSUME IInv, InferLevel
  PROVE  IInv'
<1>1. TypeOK /\ ChecksHold /\ resident = {} /\ units = 0
  BY DEF IInv, ResidentsDefined, InferLevel
<1>2. prog' = prog /\ ByteMode' = ByteMode /\ prog \in Program
  BY <1>1, JobTypes DEF InferLevel, prog, ByteMode
<1>3. Size(prog) \in Nat /\ pos \in 1..Size(prog) /\ pos \in Positions(prog)
  BY <1>1, <1>2, ProgramTypes DEF InferLevel, TypeOK, Positions
<1>4. Units(resident)' = 0
  BY <1>1, WeightEmpty DEF Units, InferLevel, device
<1>5. UnitsExact' /\ WithinBudget'
  <2>1. job.budget \in Nat
    BY <1>1, JobTypes
  <2>2. QED
    BY <1>1, <1>4, <2>1 DEF UnitsExact, WithinBudget, InferLevel, device
<1>6. CASE pc' = "rejected"
  <2>1. ResultLevels = {} \/ pc' = pc
    BY DEF InferLevel
  <2>2. level' = level /\ pos' = pos
    BY <1>6, <2>1 DEF InferLevel
  <2>3. TypeOK'
    BY <1>1, <1>2, <1>6, <2>2 DEF InferLevel, TypeOK, device
  <2>4. ChecksHold' /\ ResidentsDefined' /\ InstructionUnderWay'
    BY <1>6 DEF ChecksHold, ResidentsDefined, InstructionUnderWay, Planning
  <2>5. QED
    BY <1>5, <2>3, <2>4 DEF IInv
<1>7. CASE pc' # "rejected"
  <2>1. pc' = "infer" /\ pos' = pos + 1
    BY <1>7 DEF InferLevel
  <2>2. PICK l \in ResultLevels :
          level' = [level EXCEPT ![Result(prog, pos)] = l]
    BY <1>7 DEF InferLevel
  <2>3. l \in 0..job.model.fresh /\ l \in Int
    BY ResultLevelsCovered
  <2>4. TypeOK'
    <3>1. level' \in [Ids(prog) -> Int]
      BY <1>1, <2>2, <2>3 DEF TypeOK
    <3>2. pos' \in 1..(Size(prog) + 1)
      BY <1>3, <2>1
    <3>3. QED
      BY <1>1, <1>2, <2>1, <3>1, <3>2 DEF InferLevel, TypeOK, device
  <2>5. ChecksHold'
    <3>1. WellFormed(prog) /\ ByteMode /\ ModelOK
      BY <1>1 DEF ChecksHold, InferLevel
    <3>2. \A id \in DefinedBefore(pos) : Leveled(id)
      BY <1>1 DEF ChecksHold, InferLevel
    <3>3. 1..((pos + 1) - 1) = (1..(pos - 1)) \cup {pos}
      BY <1>3
    <3>4. DefinedBefore(pos)' = DefinedBefore(pos) \cup {Result(prog, pos)}
      BY <1>2, <2>1, <3>3 DEF DefinedBefore
    <3>5. DefinedBefore(pos) \cup {Result(prog, pos)} \subseteq Ids(prog)
      <4>1. 1..(pos - 1) \subseteq Positions(prog)
        BY <1>3 DEF Positions
      <4>2. QED
        BY <1>3, <4>1 DEF DefinedBefore, Ids
    <3>6. \A id \in DefinedBefore(pos) \cup {Result(prog, pos)} :
            level'[id] \in 0..job.model.fresh
      BY <1>1, <2>2, <2>3, <3>2, <3>5 DEF Leveled, TypeOK
    <3>7. \A id \in DefinedBefore(pos)' : Leveled(id)'
      BY <3>4, <3>6 DEF Leveled, InferLevel
    <3>8. ModelOK'
      BY <3>1 DEF InferLevel, ModelOK
    <3>9. QED
      BY <1>2, <2>1, <3>1, <3>7, <3>8 DEF ChecksHold, Planning
  <2>6. ResidentsDefined' /\ InstructionUnderWay'
    BY <1>1, <2>1 DEF ResidentsDefined, InstructionUnderWay, InferLevel, device
  <2>7. QED
    BY <1>5, <2>4, <2>5, <2>6 DEF IInv
<1>8. QED
  BY <1>6, <1>7

LEMMA LevelsInferredKeeps ==
  ASSUME IInv, LevelsInferred
  PROVE  IInv'
<1>1. TypeOK /\ ChecksHold /\ resident = {} /\ units = 0
  BY DEF IInv, ResidentsDefined, LevelsInferred
<1>2. prog' = prog /\ ByteMode' = ByteMode /\ cost' = cost
  BY SamePrices DEF LevelsInferred
<1>3. Size(prog) \in Nat
  BY <1>1, JobTypes, ProgramTypes
<1>4. pos = Size(prog) + 1
  BY <1>1, <1>3 DEF TypeOK, LevelsInferred
<1>5. DefinedBefore(pos) = Ids(prog)
  <2>1. 1..(pos - 1) = Positions(prog)
    BY <1>3, <1>4 DEF Positions
  <2>2. QED
    BY <2>1 DEF DefinedBefore, Ids
<1>6. TypeOK'
  BY <1>1, <1>2, <1>3 DEF LevelsInferred, TypeOK, device
<1>7. ChecksHold'
  <2>1. WellFormed(prog) /\ ByteMode /\ ModelOK
    BY <1>1 DEF ChecksHold, LevelsInferred
  <2>2. \A id \in Ids(prog) : Leveled(id)
    BY <1>1, <1>5 DEF ChecksHold, LevelsInferred
  <2>3. ModelOK' /\ \A id \in Ids(prog) : Leveled(id)'
    BY <2>1, <2>2 DEF LevelsInferred, ModelOK, Leveled
  <2>4. QED
    BY <1>2, <2>1, <2>3 DEF ChecksHold, Planning, LevelsInferred
<1>8. ResidentsDefined' /\ InstructionUnderWay'
  BY <1>1 DEF ResidentsDefined, InstructionUnderWay, LevelsInferred, device
<1>9. Units(resident)' = 0
  BY <1>1, WeightEmpty DEF Units, LevelsInferred, device
<1>10. UnitsExact' /\ WithinBudget'
  <2>1. job.budget \in Nat
    BY <1>1, JobTypes
  <2>2. QED
    BY <1>1, <1>9, <2>1 DEF UnitsExact, WithinBudget, LevelsInferred, device
<1>11. QED
  BY <1>6, <1>7, <1>8, <1>10 DEF IInv

(* Once planning has begun, the checks stay passed while it goes on.        *)
LEMMA ChecksKept ==
  ASSUME ChecksHold, Planning, job' = job, level' = level,
         pc' \in {"begin", "fit", "free", "accepted", "rejected"}
  PROVE  ChecksHold'
<1>1. prog' = prog /\ ByteMode' = ByteMode
  BY SamePrices
<1>2. WellFormed(prog) /\ (ByteMode => ModelOK)
  BY DEF ChecksHold
<1>3. ByteMode => \A id \in Ids(prog) : Leveled(id)
  BY DEF ChecksHold
<1>4. ByteMode => ModelOK' /\ \A id \in Ids(prog) : Leveled(id)'
  BY <1>2, <1>3 DEF ModelOK, Leveled
<1>5. QED
  BY <1>1, <1>2, <1>4 DEF ChecksHold, Planning

LEMMA BeginInstructionKeeps ==
  ASSUME IInv, BeginInstruction
  PROVE  IInv'
<1>1. TypeOK /\ ChecksHold /\ Planning /\ pos <= Size(prog)
  BY DEF IInv, BeginInstruction, Planning
<1>2. prog' = prog /\ ByteMode' = ByteMode /\ cost' = cost
  BY SamePrices DEF BeginInstruction
<1>3. pc' \in {"fit", "rejected"}
  BY DEF BeginInstruction
<1>4. Operands(prog, pos) \subseteq Ids(prog) /\ WorkingSet(prog, pos) \subseteq Ids(prog)
  BY <1>1, InstructionFacts
<1>5. TypeOK'
  BY <1>1, <1>2, <1>3, <1>4 DEF BeginInstruction, TypeOK, device
<1>6. ChecksHold'
  BY <1>1, <1>3, ChecksKept DEF BeginInstruction
<1>7. ResidentsDefined'
  BY <1>2, <1>3
     DEF IInv, ResidentsDefined, BeginInstruction, DefinedBefore, device
<1>8. InstructionUnderWay'
  <2>1. Units(WorkingSet(prog, pos)) \in Nat /\ job.budget \in Nat
    BY <1>1, <1>4, UnitsFacts, JobTypes
  <2>2. pc' = "fit" => missing' = Operands(prog, pos) \ resident
    BY DEF BeginInstruction
  <2>3. pc' = "fit" /\ job.budget > 0
          => Units(WorkingSet(prog, pos)) <= job.budget
    BY <2>1 DEF BeginInstruction
  <2>4. Units(WorkingSet(prog, pos))' = Units(WorkingSet(prog, pos))
    BY <1>2 DEF Units, BeginInstruction
  <2>5. QED
    BY <1>1, <1>2, <1>3, <2>2, <2>3, <2>4
       DEF InstructionUnderWay, BeginInstruction, device
<1>9. UnitsExact' /\ WithinBudget'
  BY <1>2 DEF IInv, UnitsExact, WithinBudget, Units, BeginInstruction, device
<1>10. QED
  BY <1>5, <1>6, <1>7, <1>8, <1>9 DEF IInv

LEMMA MakeRoomKeeps ==
  ASSUME IInv, MakeRoom
  PROVE  IInv'
<1>1. TypeOK /\ ChecksHold /\ Planning /\ pos <= Size(prog)
  BY DEF IInv, MakeRoom, Planning, InstructionUnderWay
<1>2. prog' = prog /\ ByteMode' = ByteMode /\ cost' = cost
  BY SamePrices DEF MakeRoom
<1>3. CASE Candidates = {}
  <2>1. /\ pc' = "rejected"
        /\ UNCHANGED <<plan, resident, units, stats>>
    BY <1>3 DEF MakeRoom
  <2>2. TypeOK'
    BY <1>1, <1>2, <2>1 DEF MakeRoom, TypeOK
  <2>3. ChecksHold' /\ ResidentsDefined' /\ InstructionUnderWay'
    BY <2>1 DEF ChecksHold, ResidentsDefined, InstructionUnderWay, Planning
  <2>4. UnitsExact' /\ WithinBudget'
    BY <1>2, <2>1 DEF IInv, UnitsExact, WithinBudget, Units, MakeRoom
  <2>5. QED
    BY <2>2, <2>3, <2>4 DEF IInv
<1>4. CASE Candidates # {}
  <2>1. PICK v \in Candidates :
          /\ plan' = [plan EXCEPT ![pos].evict = Append(@, v)]
          /\ resident' = resident \ {v}
          /\ units' = units - cost[v]
          /\ stats' = [stats EXCEPT !.evict_count = @ + 1]
          /\ pc' = pc
    BY <1>4 DEF MakeRoom
  <2>2. v \in resident /\ v \notin WorkingSet(prog, pos)
    BY DEF Candidates
  <2>3. resident \in SUBSET Ids(prog) /\ v \in Ids(prog) /\ {v} \in SUBSET resident
    BY <1>1, <2>2 DEF TypeOK
  <2>4. /\ Units(resident \ {v}) = Units(resident) - cost[v]
        /\ Units(resident \ {v}) <= Units(resident)
        /\ Units(resident \ {v}) \in Nat
    <3>1. Units({v}) = cost[v]
      BY <1>1, <2>3, UnitsOne
    <3>2. /\ Units(resident \ {v}) = Units(resident) - Units({v})
          /\ Units({v}) \in Nat /\ Units(resident) \in Nat
      BY <1>1, <2>3, UnitsFacts
    <3>3. resident \ {v} \in SUBSET resident
      OBVIOUS
    <3>4. Units(resident \ {v}) \in Nat
      BY <1>1, <2>3, <3>3, UnitsFacts
    <3>5. QED
      BY <3>1, <3>2, <3>4
  <2>5. units = Units(resident)
    BY DEF IInv, UnitsExact
  <2>6. TypeOK'
    <3>1. v \in Nat
      BY <1>1, <2>3, JobTypes, ProgramTypes
    <3>2. plan' \in [Positions(prog) -> Actions]
      <4>1. plan \in [Positions(prog) -> Actions]
        BY <1>1 DEF TypeOK
      <4>2. [plan[pos] EXCEPT !.evict = Append(@, v)] \in Actions
        BY <1>1, <3>1, <4>1, InstructionFacts, EvictAppends
      <4>3. plan' = [plan EXCEPT ![pos] = [plan[pos] EXCEPT !.evict = Append(@, v)]]
        BY <2>1
      <4>4. QED
        BY <4>1, <4>2, <4>3
    <3>3. units' \in Nat
      BY <2>1, <2>4, <2>5
    <3>4. stats' \in Stats
      <4>1. stats \in Stats
        BY <1>1 DEF TypeOK
      <4>2. stats.evict_count + 1 \in Nat
        BY <4>1 DEF Stats
      <4>3. stats' = [stats EXCEPT !.evict_count = stats.evict_count + 1]
        BY <2>1
      <4>4. QED
        BY <4>1, <4>2, <4>3, StatsUpdates
    <3>5. QED
      BY <1>1, <1>2, <2>1, <3>2, <3>3, <3>4 DEF MakeRoom, TypeOK
  <2>7. ChecksHold'
    BY <1>1, <2>1, ChecksKept DEF MakeRoom
  <2>8. ResidentsDefined'
    BY <1>2, <2>1 DEF IInv, ResidentsDefined, MakeRoom, DefinedBefore
  <2>9. InstructionUnderWay'
    <3>1. missing = Operands(prog, pos) \ resident
      BY DEF IInv, InstructionUnderWay, MakeRoom
    <3>2. missing' = Operands(prog, pos) \ resident'
      BY <2>1, <2>2, <3>1 DEF WorkingSet, MakeRoom
    <3>3. Units(WorkingSet(prog, pos))' = Units(WorkingSet(prog, pos))
      BY <1>2 DEF Units, MakeRoom
    <3>4. job.budget > 0 => Units(WorkingSet(prog, pos)) <= job.budget
      BY DEF IInv, InstructionUnderWay, MakeRoom
    <3>5. QED
      BY <1>1, <1>2, <2>1, <3>2, <3>3, <3>4 DEF InstructionUnderWay, MakeRoom
  <2>10. Units(resident)' = Units(resident \ {v})
    BY <1>2, <2>1 DEF Units
  <2>11. UnitsExact'
    BY <2>1, <2>4, <2>5, <2>10 DEF UnitsExact
  <2>12. WithinBudget'
    <3>1. Units(resident) \in Nat /\ job.budget \in Nat
      BY <1>1, <2>3, UnitsFacts, JobTypes
    <3>2. QED
      BY <2>4, <2>10, <3>1 DEF IInv, WithinBudget, MakeRoom
  <2>13. QED
    BY <2>6, <2>7, <2>8, <2>9, <2>11, <2>12 DEF IInv
<1>5. QED
  BY <1>3, <1>4

LEMMA PlaceKeeps ==
  ASSUME IInv, Place
  PROVE  IInv'
<1> DEFINE new == {Result(prog, pos)} \cup missing
<1>1. TypeOK /\ ChecksHold /\ Planning /\ pos <= Size(prog) /\ pc = "fit"
  BY DEF IInv, Place, Planning, InstructionUnderWay
<1>2. prog' = prog /\ ByteMode' = ByteMode /\ cost' = cost
  BY SamePrices DEF Place
<1>3. /\ pos \in Positions(prog)
      /\ WorkingSet(prog, pos) = {Result(prog, pos)} \cup Operands(prog, pos)
      /\ Operands(prog, pos) \subseteq DefinedBefore(pos)
      /\ DefinedBefore(pos) \cup {Result(prog, pos)} = DefinedBefore(pos + 1)
  BY <1>1, InstructionFacts
<1>4. /\ new \in SUBSET Ids(prog)
      /\ resident \cap new = {}
      /\ Incoming = Units(new)
      /\ Incoming \in Nat
  BY <1>1, IncomingFacts
<1>5. resident' = resident \cup new /\ units' = units + Incoming /\ pc' = "free"
  BY DEF Place
<1>6. resident \in SUBSET Ids(prog) /\ missing \in SUBSET Ids(prog)
  BY <1>1 DEF TypeOK
<1>7. Units(resident \cup new) = units + Incoming
  <2>1. Units(resident \cup new) = Units(resident) + Units(new)
    BY <1>1, <1>4, <1>6, UnitsAdd
  <2>2. QED
    BY <1>4, <2>1 DEF IInv, UnitsExact
<1>8. units' \in Nat
  BY <1>1, <1>4, <1>5 DEF TypeOK
<1>9. missing = Operands(prog, pos) \ resident
  BY <1>1 DEF IInv, InstructionUnderWay
<1>10. TypeOK'
  <2>1. /\ Result(prog, pos) \in Nat
        /\ Ids(prog) \subseteq Nat
        /\ Size(prog) \in Nat
    BY <1>1, <1>3, JobTypes, ProgramTypes
  <2>2. plan' \in [Positions(prog) -> Actions]
    <3>1. missing \subseteq Nat /\ {Result(prog, pos)} \subseteq Nat
      BY <1>6, <2>1
    <3>2. plan' = [plan EXCEPT ![pos].alloc = {Result(prog, pos)},
                               ![pos].prefetch = missing]
      BY DEF Place
    <3>3. QED
      BY <1>1, <3>1, <3>2 DEF TypeOK, Actions
  <2>3. touched' \in [Ids(prog) -> 0..Size(prog)]
    <3>1. pos \in 0..Size(prog)
      BY <1>3, <2>1 DEF Positions
    <3>2. QED
      BY <1>1, <3>1 DEF TypeOK, Place
  <2>4. stats' \in Stats
    <3>1. Cardinality(missing) \in Nat /\ Cardinality(resident') \in Nat
      <4>1. IsFiniteSet(missing)
        BY <1>1, <1>6, UnitsFacts
      <4>2. resident' \in SUBSET Ids(prog)
        BY <1>4, <1>5, <1>6
      <4>3. IsFiniteSet(resident')
        BY <1>1, <4>2, UnitsFacts
      <4>4. QED
        BY <4>1, <4>3, FS_CardinalityType
    <3>2. stats \in Stats
      BY <1>1 DEF TypeOK
    <3>3. /\ Max({stats.high_water, Cardinality(resident')}) \in Nat
          /\ Max({stats.high_water_bytes, units'}) \in Nat
      BY <1>8, <3>1, <3>2, MaxOfTwo DEF Stats
    <3>4. stats.alloc_count + 1 \in Nat /\ stats.prefetch_count + Cardinality(missing) \in Nat
      BY <3>1, <3>2 DEF Stats
    <3> DEFINE bytes == IF ByteMode THEN Max({stats.high_water_bytes, units'})
                                    ELSE stats.high_water_bytes
    <3>5. bytes \in Nat
      BY <3>2, <3>3 DEF Stats
    <3>6. stats' = [stats EXCEPT
            !.alloc_count = stats.alloc_count + 1,
            !.prefetch_count = stats.prefetch_count + Cardinality(missing),
            !.high_water = Max({stats.high_water, Cardinality(resident')}),
            !.high_water_bytes = bytes]
      BY DEF Place
    <3> HIDE DEF bytes
    <3>7. QED
      BY <3>2, <3>3, <3>4, <3>5, <3>6, StatsUpdates
  <2>5. resident' \subseteq Ids(prog)
    BY <1>4, <1>5, <1>6
  <2>6. QED
    BY <1>1, <1>2, <1>5, <1>8, <2>2, <2>3, <2>4, <2>5 DEF Place, TypeOK
<1>11. ChecksHold'
  BY <1>1, <1>5, ChecksKept DEF Place
<1>12. ResidentsDefined'
  <2>1. resident \subseteq DefinedBefore(pos)
    BY <1>1 DEF IInv, ResidentsDefined
  <2>2. resident' \subseteq DefinedBefore(pos + 1)
    BY <1>3, <1>5, <1>9, <2>1
  <2>3. DefinedBefore(pos + 1)' = DefinedBefore(pos + 1)
    BY <1>2 DEF DefinedBefore, Place
  <2>4. QED
    BY <1>5, <2>2, <2>3 DEF ResidentsDefined
<1>13. InstructionUnderWay'
  <2>1. WorkingSet(prog, pos) \subseteq resident'
    BY <1>3, <1>5, <1>9
  <2>2. QED
    BY <1>1, <1>2, <1>5, <2>1 DEF InstructionUnderWay, Place
<1>14. Units(resident)' = Units(resident \cup new)
  BY <1>2, <1>5 DEF Units
<1>15. UnitsExact'
  BY <1>5, <1>7, <1>14 DEF UnitsExact
<1>16. WithinBudget'
  <2>1. units \in Nat /\ job.budget \in Nat
    BY <1>1, JobTypes DEF TypeOK
  <2>2. job.budget > 0 => units + Incoming <= job.budget
    BY <1>4, <2>1 DEF Place, OverBudget
  <2>3. QED
    BY <1>7, <1>14, <2>2 DEF WithinBudget, Place
<1>17. QED
  BY <1>10, <1>11, <1>12, <1>13, <1>15, <1>16 DEF IInv

LEMMA FreeDeadKeeps ==
  ASSUME IInv, FreeDead
  PROVE  IInv'
<1>1. TypeOK /\ ChecksHold /\ Planning /\ pos <= Size(prog) /\ pc = "free"
  BY DEF IInv, FreeDead, Planning, InstructionUnderWay
<1>2. prog' = prog /\ ByteMode' = ByteMode /\ cost' = cost
  BY SamePrices DEF FreeDead
<1>3. /\ resident' = resident \ DeadNow
      /\ units' = units - Units(DeadNow)
      /\ pc' = "begin" /\ pos' = pos + 1
  BY DEF FreeDead
<1>4. DeadNow \in SUBSET resident
  BY <1>1 DEF IInv, InstructionUnderWay, DeadNow
<1>5. resident \in SUBSET Ids(prog)
  BY <1>1 DEF TypeOK
<1>6. /\ Units(resident \ DeadNow) = Units(resident) - Units(DeadNow)
      /\ Units(DeadNow) <= Units(resident)
      /\ Units(DeadNow) \in Nat /\ Units(resident) \in Nat
  BY <1>1, <1>4, <1>5, UnitsFacts
<1>7. units = Units(resident)
  BY DEF IInv, UnitsExact
<1>8. Units(resident)' = Units(resident \ DeadNow)
  BY <1>2, <1>3 DEF Units
<1>9. TypeOK'
  <2>1. Size(prog) \in Nat /\ Ids(prog) \subseteq Nat
    BY <1>1, JobTypes, ProgramTypes
  <2>2. plan' \in [Positions(prog) -> Actions]
    <3>1. DeadNow \subseteq Nat
      BY <1>4, <1>5, <2>1
    <3>2. plan' = [plan EXCEPT ![pos].free = DeadNow]
      BY DEF FreeDead
    <3>3. QED
      BY <1>1, <3>1, <3>2 DEF TypeOK, Actions
  <2>3. units' \in Nat
    BY <1>3, <1>6, <1>7
  <2>4. pos' \in 1..(Size(prog) + 1)
    BY <1>1, <1>3, <2>1 DEF TypeOK
  <2>5. resident' \subseteq Ids(prog) /\ missing' = {}
    BY <1>3, <1>5 DEF FreeDead
  <2>6. QED
    BY <1>1, <1>2, <1>3, <2>2, <2>3, <2>4, <2>5 DEF FreeDead, TypeOK
<1>10. ChecksHold'
  BY <1>1, <1>3, ChecksKept DEF FreeDead
<1>11. ResidentsDefined' /\ InstructionUnderWay'
  <2>1. resident \subseteq DefinedBefore(pos + 1)
    BY <1>1 DEF IInv, ResidentsDefined
  <2>2. DefinedBefore(pos)' = DefinedBefore(pos + 1)
    BY <1>2, <1>3 DEF DefinedBefore
  <2>3. QED
    BY <1>3, <2>1, <2>2 DEF ResidentsDefined, InstructionUnderWay
<1>12. UnitsExact'
  BY <1>3, <1>6, <1>7, <1>8 DEF UnitsExact
<1>13. WithinBudget'
  <2>1. job.budget \in Nat
    BY <1>1, JobTypes
  <2>2. QED
    BY <1>6, <1>8, <2>1 DEF IInv, WithinBudget, FreeDead
<1>14. QED
  BY <1>9, <1>10, <1>11, <1>12, <1>13 DEF IInv

LEMMA FinishKeeps ==
  ASSUME IInv, Finish
  PROVE  IInv'
<1>1. TypeOK /\ ChecksHold /\ Planning
  BY DEF IInv, Finish, Planning
<1>2. prog' = prog /\ ByteMode' = ByteMode /\ cost' = cost
  BY SamePrices DEF Finish
<1>3. pc' = "accepted"
  BY DEF Finish
<1>4. TypeOK'
  <2>1. Size(prog) \in Nat /\ Inputs(prog) \subseteq Nat
    BY <1>1, JobTypes, ProgramTypes
  <2>2. UnusedInputs \subseteq Nat
    BY <2>1 DEF UnusedInputs
  <2>3. CASE Size(prog) = 0
    BY <1>1, <1>2, <1>3, <2>3 DEF Finish, TypeOK, device
  <2>4. CASE Size(prog) # 0
    <3>1. Size(prog) \in Positions(prog)
      BY <2>1, <2>4 DEF Positions
    <3>2. plan' = [plan EXCEPT ![Size(prog)].free = @ \cup UnusedInputs]
      BY <2>4 DEF Finish
    <3>3. plan' \in [Positions(prog) -> Actions]
      BY <1>1, <2>2, <3>1, <3>2 DEF TypeOK, Actions
    <3>4. QED
      BY <1>1, <1>2, <1>3, <3>3 DEF Finish, TypeOK, device
  <2>5. QED
    BY <2>3, <2>4
<1>5. ChecksHold'
  BY <1>1, <1>3, ChecksKept DEF Finish
<1>6. ResidentsDefined' /\ InstructionUnderWay'
  BY <1>3 DEF ResidentsDefined, InstructionUnderWay
<1>7. UnitsExact' /\ WithinBudget'
  BY <1>2 DEF IInv, UnitsExact, WithinBudget, Units, Finish, device
<1>8. QED
  BY <1>4, <1>5, <1>6, <1>7 DEF IInv

LEMMA StutterKeeps ==
  ASSUME IInv, UNCHANGED vars
  PROVE  IInv'
<1>1. prog' = prog /\ ByteMode' = ByteMode /\ cost' = cost
  BY SamePrices DEF vars
<1>2. TypeOK'
  BY <1>1 DEF IInv, TypeOK, vars
<1>3. ChecksHold'
  BY <1>1 DEF IInv, ChecksHold, vars, Planning, ModelOK, DefinedBefore, Leveled
<1>4. ResidentsDefined' /\ InstructionUnderWay'
  BY <1>1
     DEF IInv, ResidentsDefined, InstructionUnderWay, vars, DefinedBefore, Units
<1>5. UnitsExact' /\ WithinBudget'
  BY <1>1 DEF IInv, UnitsExact, WithinBudget, vars, Units
<1>6. QED
  BY <1>2, <1>3, <1>4, <1>5 DEF IInv

(* The inductive invariant holds in every reachable state of analyze.       *)
THEOREM InductiveInvariant == Spec => []IInv
<1>1. Init => IInv
  BY InitEstablishes
<1>2. IInv /\ [Next]_vars => IInv'
  BY CheckProgramKeeps, InferLevelKeeps, LevelsInferredKeeps,
     BeginInstructionKeeps, MakeRoomKeeps, PlaceKeeps, FreeDeadKeeps,
     FinishKeeps, StutterKeeps
     DEF Next
<1>3. QED
  BY <1>1, <1>2, PTL DEF Spec

-----------------------------------------------------------------------------
(* The properties, for every set of requests.                               *)

(* Type correctness; the unsigned totals of analyze never go below zero.    *)
THEOREM TypeCorrect == Spec => []TypeOK
<1>1. IInv => TypeOK
  BY DEF IInv
<1>2. QED
  BY <1>1, InductiveInvariant, PTL

(* The running total of FhnMovementPlan.cpp:145-210 is exact.                *)
THEOREM AccountingExact == Spec => []UnitsExact
<1>1. IInv => UnitsExact
  BY DEF IInv
<1>2. QED
  BY <1>1, InductiveInvariant, PTL

(* No plan ever exceeds the budget it was made for.                         *)
THEOREM BudgetRespected == Spec => []WithinBudget
<1>1. IInv => WithinBudget
  BY DEF IInv
<1>2. QED
  BY <1>1, InductiveInvariant, PTL

(* The prefetch list computed before the eviction loop is right after it.   *)
THEOREM PrefetchListExact == Spec => []MissingStaysExact
<1>1. IInv => MissingStaysExact
  <2> SUFFICES ASSUME IInv, pc = "fit"
               PROVE  /\ missing = Operands(prog, pos) \ resident
                      /\ Result(prog, pos) \notin resident
    BY DEF MissingStaysExact
  <2>1. resident \cap ({Result(prog, pos)} \cup missing) = {}
    BY IncomingFacts
  <2>2. QED
    BY <2>1 DEF IInv, InstructionUnderWay
<1>2. QED
  BY <1>1, InductiveInvariant, PTL

(* The eviction loop never runs out of victims: with only the working set   *)
(* left, what is resident and what comes in is at most the working set,     *)
(* which the feasibility test has already admitted.                         *)
LEMMA VictimExists ==
  ASSUME IInv
  PROVE  VictimAlwaysExists
<1> SUFFICES ASSUME pc = "fit", OverBudget, Candidates = {}
             PROVE  FALSE
  BY DEF VictimAlwaysExists
<1> DEFINE new == {Result(prog, pos)} \cup missing
<1>1. TypeOK /\ ChecksHold /\ Planning /\ pos <= Size(prog)
  BY DEF IInv, Planning, InstructionUnderWay
<1>2. /\ new \in SUBSET Ids(prog)
      /\ resident \cap new = {}
      /\ Incoming = Units(new)
      /\ Incoming \in Nat
  BY IncomingFacts
<1>3. resident \in SUBSET Ids(prog)
  BY <1>1 DEF TypeOK
<1>4. Units(resident \cup new) = units + Incoming
  <2>1. Units(resident \cup new) = Units(resident) + Units(new)
    BY <1>1, <1>2, <1>3, UnitsAdd
  <2>2. QED
    BY <1>2, <2>1 DEF IInv, UnitsExact
<1>5. resident \subseteq WorkingSet(prog, pos)
  BY DEF Candidates
<1>6. /\ WorkingSet(prog, pos) = {Result(prog, pos)} \cup Operands(prog, pos)
      /\ WorkingSet(prog, pos) \in SUBSET Ids(prog)
  BY <1>1, InstructionFacts
<1>7. resident \cup new \in SUBSET WorkingSet(prog, pos)
  BY <1>5, <1>6 DEF IInv, InstructionUnderWay
<1>8. /\ Units(resident \cup new) <= Units(WorkingSet(prog, pos))
      /\ Units(WorkingSet(prog, pos)) \in Nat
  BY <1>1, <1>6, <1>7, UnitsFacts
<1>9. Units(WorkingSet(prog, pos)) <= job.budget /\ job.budget \in Nat
  BY <1>1, JobTypes DEF IInv, InstructionUnderWay, OverBudget
<1>10. units + Incoming > job.budget /\ units \in Nat
  BY <1>1 DEF OverBudget, TypeOK
<1>11. QED
  BY <1>2, <1>4, <1>8, <1>9, <1>10

(* The branch that gives up (FhnMovementPlan.cpp:169-170) is never taken.     *)
THEOREM EvictionNeverStuck == Spec => []VictimAlwaysExists
<1>1. IInv => VictimAlwaysExists
  BY VictimExists
<1>2. QED
  BY <1>1, InductiveInvariant, PTL

-----------------------------------------------------------------------------
(* Replaying a plan.  DeviceAfter is a recursive function of the plan: it   *)
(* exists, and two plans with the same beginning have the same beginning of *)
(* the replay.                                                             *)

Replay(d, pl, n) ==
  d = [i \in 0..n |-> IF i = 0 THEN {}
                      ELSE DeviceDuring(d[i - 1], pl[i]) \ pl[i].free]

Replayed(pl, n) == CHOOSE d : Replay(d, pl, n)

LEMMA ReplayUnfolds ==
  ASSUME NEW d, NEW pl, NEW n \in Nat, Replay(d, pl, n)
  PROVE  /\ d[0] = {}
         /\ \A i \in 1..n : d[i] = DeviceDuring(d[i - 1], pl[i]) \ pl[i].free
<1>1. d[0] = {}
  <2>1. 0 \in 0..n
    OBVIOUS
  <2>2. QED
    BY <2>1 DEF Replay
<1>2. ASSUME NEW i \in 1..n
      PROVE  d[i] = DeviceDuring(d[i - 1], pl[i]) \ pl[i].free
  <2>1. i \in 0..n /\ i # 0
    OBVIOUS
  <2>2. QED
    BY <2>1 DEF Replay
<1>3. QED
  BY <1>1, <1>2

LEMMA ReplayExists ==
  ASSUME NEW pl, NEW n \in Nat
  PROVE  \E d : Replay(d, pl, n)
<1> DEFINE S == {k \in Nat : \E d : Replay(d, pl, k)}
<1>1. 0 \in S
  <2>1. Replay([i \in 0..0 |-> {}], pl, 0)
    BY DEF Replay
  <2>2. QED
    BY <2>1
<1>2. ASSUME NEW k \in Nat, k \in S
      PROVE  k + 1 \in S
  <2>1. PICK d : Replay(d, pl, k)
    BY <1>2
  <2> DEFINE last == DeviceDuring(d[k], pl[k + 1]) \ pl[k + 1].free
             e == [i \in 0..(k + 1) |-> IF i = k + 1 THEN last ELSE d[i]]
  <2>2. e[0] = {}
    BY <2>1, ReplayUnfolds
  <2>3. \A i \in 1..k : e[i] = DeviceDuring(e[i - 1], pl[i]) \ pl[i].free
    BY <2>1, ReplayUnfolds
  <2>4. e[k + 1] = DeviceDuring(e[k], pl[k + 1]) \ pl[k + 1].free
    OBVIOUS
  <2>5. e = [i \in 0..(k + 1) |-> e[i]]
    OBVIOUS
  <2> HIDE DEF e, last
  <2>6. ASSUME NEW i \in 0..(k + 1)
        PROVE  e[i] = IF i = 0 THEN {}
                      ELSE DeviceDuring(e[i - 1], pl[i]) \ pl[i].free
    <3>1. CASE i = 0
      BY <2>2, <3>1
    <3>2. CASE i \in 1..k
      BY <2>3, <3>2
    <3>3. CASE i = k + 1
      <4>1. i - 1 = k /\ i # 0
        BY <3>3
      <4>2. QED
        BY <2>4, <3>3, <4>1
    <3>4. QED
      BY <3>1, <3>2, <3>3
  <2>7. Replay(e, pl, k + 1)
    BY <2>5, <2>6 DEF Replay
  <2>8. QED
    BY <2>7
<1> HIDE DEF S
<1>3. Nat \subseteq S
  BY <1>1, <1>2, InductionOnSet
<1>4. QED
  BY <1>3 DEF S

LEMMA ReplayedReplays ==
  ASSUME NEW pl, NEW n \in Nat
  PROVE  Replay(Replayed(pl, n), pl, n)
BY ReplayExists DEF Replayed

(* Replays of plans that agree up to k agree up to k.                       *)
LEMMA ReplaysAgree ==
  ASSUME NEW d, NEW pl, NEW n \in Nat, Replay(d, pl, n),
         NEW e, NEW ql, NEW m \in Nat, Replay(e, ql, m),
         NEW k \in Nat, k <= n, k <= m, \A i \in 1..k : pl[i] = ql[i]
  PROVE  \A i \in 0..k : d[i] = e[i]
<1> DEFINE S == {i \in Nat : i <= k => d[i] = e[i]}
<1>1. 0 \in S
  BY ReplayUnfolds
<1>2. ASSUME NEW i \in Nat, i \in S
      PROVE  i + 1 \in S
  <2> SUFFICES ASSUME i + 1 <= k
               PROVE  d[i + 1] = e[i + 1]
    OBVIOUS
  <2>1. d[i] = e[i] /\ pl[i + 1] = ql[i + 1]
    BY <1>2
  <2>2. i + 1 \in 1..n /\ i + 1 \in 1..m /\ (i + 1) - 1 = i
    OBVIOUS
  <2>3. d[i + 1] = DeviceDuring(d[i], pl[i + 1]) \ pl[i + 1].free
    BY <2>2, ReplayUnfolds
  <2>4. e[i + 1] = DeviceDuring(e[i], ql[i + 1]) \ ql[i + 1].free
    BY <2>2, ReplayUnfolds
  <2>5. QED
    BY <2>1, <2>3, <2>4
<1> HIDE DEF S
<1>3. Nat \subseteq S
  BY <1>1, <1>2, InductionOnSet
<1>4. QED
  BY <1>3 DEF S

LEMMA DeviceAfterIsReplayed ==
  /\ DeviceAfter = Replayed(plan, Size(prog))
  /\ DeviceAfter' = Replayed(plan', Size(prog'))
BY DEF DeviceAfter, Replayed, Replay

(* The device before and after an instruction.                              *)
LEMMA DeviceAfterUnfolds ==
  ASSUME Size(prog) \in Nat
  PROVE  /\ DeviceAfter[0] = {}
         /\ \A i \in Positions(prog) :
              DeviceAfter[i] = DeviceDuring(DeviceAfter[i - 1], plan[i]) \ plan[i].free
<1>1. Replay(DeviceAfter, plan, Size(prog))
  BY DeviceAfterIsReplayed, ReplayedReplays
<1>2. QED
  BY <1>1, ReplayUnfolds DEF Positions

(* What the actions of later instructions are does not matter.              *)
LEMMA DeviceAfterKept ==
  ASSUME Size(prog) \in Nat, prog' = prog, NEW k \in 0..Size(prog),
         \A i \in 1..k : plan'[i] = plan[i]
  PROVE  \A i \in 0..k : DeviceAfter'[i] = DeviceAfter[i]
<1> DEFINE n == Size(prog)
<1>1. Replay(Replayed(plan, n), plan, n) /\ Replay(Replayed(plan', n), plan', n)
  BY ReplayedReplays
<1>2. DeviceAfter = Replayed(plan, n) /\ DeviceAfter' = Replayed(plan', n)
  BY DeviceAfterIsReplayed
<1>3. k \in Nat /\ k <= n
  OBVIOUS
<1> HIDE DEF n
<1>4. \A i \in 0..k : Replayed(plan', n)[i] = Replayed(plan, n)[i]
  BY <1>1, <1>3, ReplaysAgree DEF n
<1>5. QED
  BY <1>2, <1>4

(* What settled actions say depends on the actions so far only.             *)
LEMMA BeforeKept ==
  ASSUME Size(prog) \in Nat, prog' = prog, NEW i \in Positions(prog),
         \A j \in 1..(i - 1) : plan'[j] = plan[j]
  PROVE  DeviceAfter'[i - 1] = DeviceAfter[i - 1]
<1>1. i - 1 \in 0..Size(prog) /\ i - 1 \in 0..(i - 1)
  BY DEF Positions
<1>2. QED
  BY <1>1, DeviceAfterKept

LEMMA EvictsSparesKept ==
  ASSUME Size(prog) \in Nat, prog' = prog, NEW i \in Positions(prog),
         \A j \in 1..(i - 1) : plan'[j] = plan[j],
         plan'[i].evict = plan[i].evict, EvictsSpares(i)
  PROVE  EvictsSpares(i)'
<1>1. DeviceAfter'[i - 1] = DeviceAfter[i - 1]
  BY BeforeKept
<1>2. QED
  BY <1>1 DEF EvictsSpares

LEMMA FetchesMissingKept ==
  ASSUME Size(prog) \in Nat, job' = job, level' = level, NEW i \in Positions(prog),
         \A j \in 1..(i - 1) : plan'[j] = plan[j],
         plan'[i].evict = plan[i].evict, plan'[i].alloc = plan[i].alloc,
         plan'[i].prefetch = plan[i].prefetch, FetchesMissing(i)
  PROVE  FetchesMissing(i)'
<1>1. prog' = prog /\ cost' = cost
  BY SamePrices
<1>2. DeviceAfter'[i - 1] = DeviceAfter[i - 1]
  BY <1>1, BeforeKept
<1>3. DeviceDuring(DeviceAfter'[i - 1], plan'[i])
        = DeviceDuring(DeviceAfter[i - 1], plan[i])
  BY <1>2 DEF DeviceDuring
<1>4. QED
  BY <1>1, <1>2, <1>3 DEF FetchesMissing, Units

LEMMA SettledKept ==
  ASSUME Size(prog) \in Nat, job' = job, level' = level, NEW i \in Positions(prog),
         \A j \in 1..i : plan'[j] = plan[j],
         Epilogue(i)' = Epilogue(i), Settled(i)
  PROVE  Settled(i)'
<1>1. prog' = prog
  BY SamePrices
<1>2. plan'[i] = plan[i] /\ \A j \in 1..(i - 1) : plan'[j] = plan[j]
  BY DEF Positions
<1>3. EvictsSpares(i)' /\ FetchesMissing(i)'
  BY <1>1, <1>2, EvictsSparesKept, FetchesMissingKept DEF Settled
<1>4. DeviceAfter'[i - 1] = DeviceAfter[i - 1]
  BY <1>1, <1>2, BeforeKept
<1>5. DefinedBefore(i)' = DefinedBefore(i) /\ Expired(i)' = Expired(i)
  BY <1>1 DEF DefinedBefore, Expired
<1>6. QED
  BY <1>2, <1>3, <1>4, <1>5 DEF Settled

-----------------------------------------------------------------------------
(* Lifetimes.                                                              *)

LEMMA MinIsLeast ==
  ASSUME NEW S, S \subseteq Nat, S # {}
  PROVE  Min(S) \in S /\ \A y \in S : Min(S) <= y
<1>1. \E x \in S : \A y \in S : x <= y
  BY LeastExists
<1>2. QED
  BY <1>1 DEF Min

LEMMA NoLaterUse ==
  ASSUME NEW p \in Program, NEW id, NEW k
  PROVE  NextUseAfter(p, id, k) = Never(p) <=> \A u \in UsesOf(p, id) : ~(u > k)
<1> DEFINE later == {u \in UsesOf(p, id) : u > k}
<1>1. Size(p) \in Nat
  BY ProgramTypes
<1>2. CASE later = {}
  BY <1>2 DEF NextUseAfter
<1>3. CASE later # {}
  <2>1. later \subseteq 1..Size(p)
    BY DEF UsesOf, Positions
  <2>2. later \subseteq Nat
    BY <1>1, <2>1
  <2>3. Min(later) \in later
    BY <1>3, <2>2, MinIsLeast
  <2>4. Min(later) # Never(p)
    BY <1>1, <2>1, <2>3 DEF Never
  <2>5. QED
    BY <1>3, <2>4 DEF NextUseAfter
<1>4. QED
  BY <1>2, <1>3

(* Nothing is read before, or by, the instruction that makes it.            *)
LEMMA UsesFollowDefinition ==
  ASSUME NEW p \in Program, WellFormed(p), NEW i \in Positions(p),
         NEW u \in UsesOf(p, Result(p, i))
  PROVE  u > i
<1>1. Size(p) \in Nat
  BY ProgramTypes
<1>2. u \in Positions(p) /\ Result(p, i) \in Operands(p, u)
  BY DEF UsesOf
<1>3. Result(p, i) \in Inputs(p) \cup {Result(p, j) : j \in 1..(u - 1)}
  BY <1>2, WellFormedFacts
<1>4. Result(p, i) \notin Inputs(p)
  BY DEF WellFormed, SingleAssignment
<1>5. PICK j \in 1..(u - 1) : Result(p, i) = Result(p, j)
  BY <1>3, <1>4
<1>6. j \in Positions(p) /\ i \in 1..Size(p) /\ u \in 1..Size(p)
  BY <1>1, <1>2 DEF Positions
<1>7. i = j
  BY <1>5, <1>6 DEF WellFormed, SingleAssignment
<1>8. QED
  BY <1>6, <1>7

(* What analyze finds dead after an instruction is what nothing reads any   *)
(* more.                                                                   *)
LEMMA DeadIsExpired ==
  ASSUME TypeOK, ChecksHold, Planning, pos <= Size(prog)
  PROVE  DeadNow = Expired(pos)
<1>1. prog \in Program /\ WellFormed(prog)
  BY JobTypes DEF ChecksHold
<1>2. pos \in Positions(prog) /\ Size(prog) \in Nat
  BY <1>1, InstructionFacts, ProgramTypes
<1>3. \A id : \A u \in UsesOf(prog, id) : u \in Int /\ pos \in Int
  BY <1>2 DEF UsesOf, Positions
<1>4. \A id : NextUseAfter(prog, id, pos) = Never(prog)
                <=> \A u \in UsesOf(prog, id) : u <= pos
  BY <1>1, <1>3, NoLaterUse
<1>5. UsesOf(prog, Result(prog, pos)) = {}
        <=> \A u \in UsesOf(prog, Result(prog, pos)) : u <= pos
  BY <1>1, <1>2, <1>3, UsesFollowDefinition
<1>6. \A id \in WorkingSet(prog, pos) :
        Dead(id) <=> id \notin job.pinned /\ \A u \in UsesOf(prog, id) : u <= pos
  BY <1>4, <1>5 DEF Dead
<1>7. QED
  BY <1>6 DEF DeadNow, Expired

-----------------------------------------------------------------------------
(* PlanFollowsResident is inductive, given IInv.                            *)

LEMMA RangeOfAppend ==
  ASSUME NEW S, NEW s \in Seq(S), NEW v
  PROVE  /\ Range(Append(s, v)) = Range(s) \cup {v}
         /\ (\A j, k \in DOMAIN s : s[j] = s[k] => j = k) /\ v \notin Range(s)
              => \A j, k \in DOMAIN Append(s, v) :
                   Append(s, v)[j] = Append(s, v)[k] => j = k
<1>1. Len(s) \in Nat /\ DOMAIN s = 1..Len(s)
  OBVIOUS
<1>2. DOMAIN Append(s, v) = 1..(Len(s) + 1)
  OBVIOUS
<1>3. \A j \in 1..Len(s) : Append(s, v)[j] = s[j]
  OBVIOUS
<1>4. Append(s, v)[Len(s) + 1] = v
  OBVIOUS
<1>5. Range(Append(s, v)) = Range(s) \cup {v}
  BY <1>1, <1>2, <1>3, <1>4 DEF Range
<1>6. QED
  BY <1>1, <1>2, <1>3, <1>4, <1>5 DEF Range

LEMMA InitPlan ==
  ASSUME Init
  PROVE  PlanFollowsResident
BY DEF Init, PlanFollowsResident, Planning

(* No instruction is settled until the last one is the last.                *)
LEMMA NoEpilogueYet ==
  ASSUME pc # "accepted", pc' # "accepted", NEW i
  PROVE  Epilogue(i)' = Epilogue(i)
BY DEF Epilogue

(* Steps before planning leave the plan empty.                              *)
LEMMA PreparationPlans ==
  ASSUME PlanInv, IInv', CheckProgram \/ InferLevel \/ LevelsInferred
  PROVE  PlanFollowsResident'
<1>1. /\ pc \in {"check", "infer"}
      /\ prog' = prog /\ plan' = plan
      /\ resident = {} /\ resident' = {}
      /\ Size(prog) \in Nat
  <2>1. job' = job /\ plan' = plan /\ resident' = resident /\ pc \in {"check", "infer"}
    BY DEF CheckProgram, InferLevel, LevelsInferred, device
  <2>2. prog' = prog
    BY <2>1 DEF prog
  <2>3. QED
    BY <2>1, <2>2, JobTypes, ProgramTypes
       DEF PlanInv, IInv, ResidentsDefined
<1>2. \A i \in Positions(prog) : plan[i] = NoActions
  BY <1>1 DEF PlanInv, PlanFollowsResident
<1>3. pc' \in {"check", "infer", "rejected"} \/ (pc' = "begin" /\ pos' = 1)
  <2>1. CASE CheckProgram
    <3>1. pos' = pos /\ pos = 1 /\ pc' \in {"rejected", "begin", "infer"}
      BY <2>1 DEF CheckProgram, PlanInv, IInv, InstructionUnderWay
    <3>2. QED
      BY <3>1
  <2>2. CASE InferLevel
    BY <2>2 DEF InferLevel
  <2>3. CASE LevelsInferred
    BY <2>3 DEF LevelsInferred
  <2>4. QED
    BY <2>1, <2>2, <2>3
<1>4. CASE pc' \in {"check", "infer", "rejected"}
  BY <1>1, <1>2, <1>4 DEF PlanFollowsResident, Planning
<1>5. CASE pc' = "begin" /\ pos' = 1
  <2>1. DeviceAfter'[0] = DeviceAfter[0] /\ DeviceAfter[0] = {}
    <3>1. 0 \in 0..Size(prog) /\ 0 \in 0..0 /\ \A j \in 1..0 : plan'[j] = plan[j]
      BY <1>1
    <3>2. QED
      BY <1>1, <3>1, DeviceAfterKept, DeviceAfterUnfolds
  <2>2. pos' - 1 = 0 /\ 1..(pos' - 1) = {}
    BY <1>5
  <2>3. resident' = DeviceAfter'[pos' - 1]
    BY <1>1, <2>1, <2>2
  <2>4. \A i \in Positions(prog)' : plan'[i] = NoActions
    BY <1>1, <1>2
  <2>5. pos' <= Size(prog') => plan'[pos'] = NoActions
    BY <1>1, <1>2, <1>5 DEF Positions
  <2>6. QED
    BY <1>5, <2>2, <2>3, <2>4, <2>5 DEF PlanFollowsResident
<1>6. QED
  BY <1>3, <1>4, <1>5

(* What the planning steps share.                                           *)
LEMMA PlanningStep ==
  ASSUME IInv, PlanFollowsResident, Planning, pc # "accepted"
  PROVE  /\ TypeOK /\ ChecksHold
         /\ prog \in Program /\ Size(prog) \in Nat
         /\ pos \in 1..(Size(prog) + 1)
         /\ \A i \in 1..(pos - 1) : i \in Positions(prog) /\ Settled(i)
         /\ pos <= Size(prog) => pos \in Positions(prog)
<1>1. TypeOK /\ ChecksHold /\ prog \in Program /\ Size(prog) \in Nat
  BY JobTypes, ProgramTypes DEF IInv
<1>2. pos \in 1..(Size(prog) + 1)
  BY <1>1 DEF TypeOK
<1>3. \A i \in 1..(pos - 1) : i \in Positions(prog)
  BY <1>1, <1>2 DEF Positions
<1>4. QED
  BY <1>1, <1>2, <1>3 DEF PlanFollowsResident, Positions

(* A step at instruction pos leaves what is settled before it.              *)
LEMMA SettledBeforeKept ==
  ASSUME IInv, PlanFollowsResident, Planning, pc # "accepted", pc' # "accepted",
         job' = job, level' = level, \A j \in 1..(pos - 1) : plan'[j] = plan[j]
  PROVE  \A i \in 1..(pos - 1) : Settled(i)'
<1> SUFFICES ASSUME NEW i \in 1..(pos - 1)
             PROVE  Settled(i)'
  OBVIOUS
<1>1. /\ Size(prog) \in Nat /\ pos \in 1..(Size(prog) + 1)
      /\ i \in Positions(prog) /\ Settled(i)
  BY PlanningStep
<1>2. \A j \in 1..i : plan'[j] = plan[j]
  BY <1>1
<1>3. Epilogue(i)' = Epilogue(i)
  BY NoEpilogueYet
<1>4. QED
  BY <1>1, <1>2, <1>3, SettledKept

LEMMA BeginInstructionPlans ==
  ASSUME PlanInv, IInv', BeginInstruction
  PROVE  PlanFollowsResident'
<1>1. /\ IInv /\ PlanFollowsResident /\ Planning /\ pc = "begin"
      /\ pc' \in {"fit", "rejected"} /\ pos <= Size(prog)
      /\ job' = job /\ level' = level /\ plan' = plan
      /\ resident' = resident /\ pos' = pos
  BY DEF BeginInstruction, PlanInv, Planning, device
<1>2. prog' = prog
  BY <1>1, SamePrices
<1>3. /\ TypeOK /\ Size(prog) \in Nat /\ pos \in Positions(prog)
      /\ pos \in 1..(Size(prog) + 1)
  BY <1>1, PlanningStep
<1>4. CASE pc' = "rejected"
  BY <1>4 DEF PlanFollowsResident, Planning
<1>5. CASE pc' = "fit"
  <2>1. /\ resident = DeviceAfter[pos - 1]
        /\ plan[pos] = NoActions
        /\ \A i \in Positions(prog) : i > pos => plan[i] = NoActions
    BY <1>1 DEF PlanFollowsResident
  <2>2. \A i \in 1..(pos - 1) : Settled(i)'
    BY <1>1, <1>5, SettledBeforeKept
  <2>3. DeviceAfter'[pos - 1] = DeviceAfter[pos - 1]
    BY <1>1, <1>2, <1>3, BeforeKept
  <2>4. Range(plan[pos].evict) = {}
    BY <2>1 DEF NoActions, Range
  <2>5. \A j, k \in DOMAIN plan[pos].evict : plan[pos].evict[j] = plan[pos].evict[k] => j = k
    BY <2>1 DEF NoActions
  <2>6. EvictsSpares(pos)'
    BY <1>1, <2>4, <2>5 DEF EvictsSpares
  <2>7. DeviceAfter[pos - 1] \subseteq DefinedBefore(pos)
    BY <1>1, <2>1 DEF IInv, ResidentsDefined
  <2>8. DefinedBefore(pos)' = DefinedBefore(pos)
    BY <1>1, <1>2 DEF DefinedBefore
  <2>9. plan'[pos'] = [NoActions EXCEPT !.evict = plan'[pos'].evict]
    BY <1>1, <2>1 DEF NoActions
  <2>10. resident' = DeviceAfter'[pos' - 1] \ Range(plan'[pos'].evict)
    BY <1>1, <2>1, <2>3, <2>4
  <2>11. DeviceAfter'[pos' - 1] \subseteq DefinedBefore(pos)'
    BY <1>1, <2>3, <2>7, <2>8
  <2>12. \A i \in Positions(prog)' : i > pos' => plan'[i] = NoActions
    BY <1>1, <1>2, <2>1
  <2>13. \A i \in 1..(pos' - 1) : Settled(i)'
    BY <1>1, <2>2
  <2>14. QED
    BY <1>5, <2>6, <2>9, <2>10, <2>11, <2>12, <2>13 DEF PlanFollowsResident
<1>6. QED
  BY <1>1, <1>4, <1>5

LEMMA MakeRoomPlans ==
  ASSUME PlanInv, IInv', MakeRoom
  PROVE  PlanFollowsResident'
<1>1. /\ IInv /\ PlanFollowsResident /\ Planning /\ pc = "fit"
      /\ pos <= Size(prog) /\ job' = job /\ level' = level /\ pos' = pos
  BY DEF MakeRoom, PlanInv, IInv, InstructionUnderWay, Planning
<1>2. prog' = prog
  BY <1>1, SamePrices
<1>3. /\ TypeOK /\ Size(prog) \in Nat /\ pos \in Positions(prog)
      /\ pos \in 1..(Size(prog) + 1) /\ Ids(prog) \subseteq Nat
  BY <1>1, PlanningStep, ProgramTypes
<1>4. CASE Candidates = {}
  <2>1. pc' = "rejected"
    BY <1>4 DEF MakeRoom
  <2>2. QED
    BY <2>1 DEF PlanFollowsResident, Planning
<1>5. CASE Candidates # {}
  <2>1. PICK v \in Candidates :
          /\ plan' = [plan EXCEPT ![pos].evict = Append(@, v)]
          /\ resident' = resident \ {v}
          /\ pc' = pc
    BY <1>5 DEF MakeRoom
  <2> DEFINE evict == plan[pos].evict
             before == DeviceAfter[pos - 1]
  <2>2. /\ plan \in [Positions(prog) -> Actions] /\ plan[pos] \in Actions
        /\ evict \in Seq(Nat)
    BY <1>3 DEF TypeOK, Actions
  <2>3. /\ plan'[pos] = [plan[pos] EXCEPT !.evict = Append(evict, v)]
        /\ plan'[pos].evict = Append(evict, v)
        /\ \A i \in Positions(prog) : i # pos => plan'[i] = plan[i]
    BY <1>3, <2>1, <2>2 DEF Actions
  <2>4. /\ before \subseteq DefinedBefore(pos)
        /\ EvictsSpares(pos)
        /\ plan[pos] = [NoActions EXCEPT !.evict = evict]
        /\ resident = before \ Range(evict)
        /\ \A i \in Positions(prog) : i > pos => plan[i] = NoActions
    BY <1>1 DEF PlanFollowsResident
  <2>5. v \in before /\ v \notin Range(evict) /\ v \notin WorkingSet(prog, pos)
    BY <2>4 DEF Candidates
  <2>6. \A j \in 1..(pos - 1) : plan'[j] = plan[j]
    <3>1. \A j \in 1..(pos - 1) : j \in Positions(prog) /\ j # pos
      BY <1>3 DEF Positions
    <3>2. QED
      BY <2>3, <3>1
  <2>7. DeviceAfter'[pos - 1] = before
    BY <1>2, <1>3, <2>6, BeforeKept
  <2>8. \A i \in 1..(pos' - 1) : Settled(i)'
    BY <1>1, <2>1, <2>6, SettledBeforeKept
  <2>9. Range(Append(evict, v)) = Range(evict) \cup {v}
    BY <2>2, RangeOfAppend
  <2>10. EvictsSpares(pos)'
    <3>1. /\ Range(evict) \subseteq before \ WorkingSet(prog, pos)
          /\ \A j, k \in DOMAIN evict : evict[j] = evict[k] => j = k
      BY <2>4 DEF EvictsSpares
    <3>2. \A j, k \in DOMAIN Append(evict, v) :
            Append(evict, v)[j] = Append(evict, v)[k] => j = k
      BY <2>2, <2>5, <3>1, RangeOfAppend
    <3>3. Range(Append(evict, v)) \subseteq before \ WorkingSet(prog, pos)
      BY <2>5, <2>9, <3>1
    <3>4. QED
      BY <1>1, <1>2, <2>3, <2>7, <3>2, <3>3 DEF EvictsSpares
  <2>11. plan'[pos'] = [NoActions EXCEPT !.evict = plan'[pos'].evict]
    BY <1>1, <2>3, <2>4 DEF NoActions
  <2>12. resident' = DeviceAfter'[pos' - 1] \ Range(plan'[pos'].evict)
    BY <1>1, <2>1, <2>3, <2>4, <2>7, <2>9
  <2>13. DeviceAfter'[pos' - 1] \subseteq DefinedBefore(pos)'
    BY <1>1, <1>2, <2>4, <2>7 DEF DefinedBefore
  <2>14. \A i \in Positions(prog)' : i > pos' => plan'[i] = NoActions
    BY <1>1, <1>2, <1>3, <2>3, <2>4
  <2>15. pc' = "fit"
    BY <1>1, <2>1
  <2>16. QED
    BY <2>8, <2>10, <2>11, <2>12, <2>13, <2>14, <2>15 DEF PlanFollowsResident
<1>6. QED
  BY <1>4, <1>5

LEMMA PlacePlans ==
  ASSUME PlanInv, IInv', Place
  PROVE  PlanFollowsResident'
<1> DEFINE before == DeviceAfter[pos - 1]
           act == plan[pos]
<1>1. /\ IInv /\ PlanFollowsResident /\ Planning /\ pc = "fit" /\ pc' = "free"
      /\ pos <= Size(prog) /\ job' = job /\ level' = level /\ pos' = pos
  BY DEF Place, PlanInv, IInv, InstructionUnderWay, Planning
<1>2. prog' = prog /\ cost' = cost
  BY <1>1, SamePrices
<1>3. /\ TypeOK /\ Size(prog) \in Nat /\ pos \in Positions(prog)
      /\ pos \in 1..(Size(prog) + 1)
  BY <1>1, PlanningStep
<1>4. /\ before \subseteq DefinedBefore(pos)
      /\ EvictsSpares(pos)
      /\ act = [NoActions EXCEPT !.evict = act.evict]
      /\ resident = before \ Range(act.evict)
      /\ \A i \in Positions(prog) : i > pos => plan[i] = NoActions
  BY <1>1 DEF PlanFollowsResident
<1>5. /\ plan'[pos].alloc = {Result(prog, pos)}
      /\ plan'[pos].prefetch = missing
      /\ plan'[pos].evict = act.evict
      /\ plan'[pos].free = {}
      /\ \A i \in Positions(prog) : i # pos => plan'[i] = plan[i]
  <2>1. plan \in [Positions(prog) -> Actions] /\ act \in Actions
    BY <1>3 DEF TypeOK
  <2>2. plan' = [plan EXCEPT ![pos].alloc = {Result(prog, pos)},
                             ![pos].prefetch = missing]
    BY DEF Place
  <2>3. plan'[pos] = [act EXCEPT !.alloc = {Result(prog, pos)}, !.prefetch = missing]
    BY <1>3, <2>1, <2>2
  <2>4. act.free = {}
    BY <1>4 DEF NoActions
  <2>5. QED
    BY <1>3, <2>1, <2>2, <2>3, <2>4 DEF Actions
<1>6. missing = Operands(prog, pos) \ resident
  BY <1>1 DEF IInv, InstructionUnderWay
<1>7. \A j \in 1..(pos - 1) : plan'[j] = plan[j]
  <2>1. \A j \in 1..(pos - 1) : j \in Positions(prog) /\ j # pos
    BY <1>3 DEF Positions
  <2>2. QED
    BY <1>5, <2>1
<1>8. DeviceAfter'[pos - 1] = before
  BY <1>2, <1>3, <1>7, BeforeKept
<1>9. \A i \in 1..(pos' - 1) : Settled(i)'
  BY <1>1, <1>7, SettledBeforeKept
<1>10. EvictsSpares(pos)'
  BY <1>1, <1>2, <1>4, <1>5, <1>8 DEF EvictsSpares
<1>11. resident' = DeviceDuring(before, plan'[pos])
  BY <1>4, <1>5, <1>6 DEF Place, DeviceDuring
<1>12. FetchesMissing(pos)'
  <2>1. job.budget > 0 => Units(resident') <= job.budget
    BY <1>1, <1>2 DEF IInv, WithinBudget, Units
  <2>2. QED
    BY <1>1, <1>2, <1>4, <1>5, <1>6, <1>8, <1>11, <2>1 DEF FetchesMissing, Units
<1>13. DeviceAfter'[pos' - 1] \subseteq DefinedBefore(pos)'
  BY <1>1, <1>2, <1>4, <1>8 DEF DefinedBefore
<1>14. \A i \in Positions(prog)' : i > pos' => plan'[i] = NoActions
  BY <1>1, <1>2, <1>3, <1>4, <1>5
<1>15. plan'[pos'].free = {} /\ resident' = DeviceDuring(DeviceAfter'[pos' - 1], plan'[pos'])
  BY <1>1, <1>5, <1>8, <1>11
<1>16. QED
  BY <1>1, <1>9, <1>10, <1>12, <1>13, <1>14, <1>15 DEF PlanFollowsResident

LEMMA FreeDeadPlans ==
  ASSUME PlanInv, IInv', FreeDead
  PROVE  PlanFollowsResident'
<1> DEFINE before == DeviceAfter[pos - 1]
           act == plan[pos]
<1>1. /\ IInv /\ PlanFollowsResident /\ Planning /\ pc = "free" /\ pc' = "begin"
      /\ pos <= Size(prog) /\ job' = job /\ level' = level /\ pos' = pos + 1
  BY DEF FreeDead, PlanInv, IInv, InstructionUnderWay, Planning
<1>2. prog' = prog /\ cost' = cost
  BY <1>1, SamePrices
<1>3. /\ TypeOK /\ ChecksHold /\ Size(prog) \in Nat /\ pos \in Positions(prog)
      /\ pos \in 1..(Size(prog) + 1)
  BY <1>1, PlanningStep
<1>4. /\ before \subseteq DefinedBefore(pos)
      /\ EvictsSpares(pos)
      /\ FetchesMissing(pos)
      /\ resident = DeviceDuring(before, act)
      /\ \A i \in Positions(prog) : i > pos => plan[i] = NoActions
  BY <1>1 DEF PlanFollowsResident
<1>5. /\ plan'[pos].alloc = act.alloc
      /\ plan'[pos].prefetch = act.prefetch
      /\ plan'[pos].evict = act.evict
      /\ plan'[pos].free = DeadNow
      /\ \A i \in Positions(prog) : i # pos => plan'[i] = plan[i]
  <2>1. plan \in [Positions(prog) -> Actions] /\ act \in Actions
    BY <1>3 DEF TypeOK
  <2>2. plan' = [plan EXCEPT ![pos].free = DeadNow]
    BY DEF FreeDead
  <2>3. plan'[pos] = [act EXCEPT !.free = DeadNow]
    BY <1>3, <2>1, <2>2
  <2>4. QED
    BY <1>3, <2>1, <2>2, <2>3 DEF Actions
<1>6. DeadNow = Expired(pos)
  BY <1>1, <1>3, DeadIsExpired
<1>7. \A j \in 1..(pos - 1) : plan'[j] = plan[j]
  <2>1. \A j \in 1..(pos - 1) : j \in Positions(prog) /\ j # pos
    BY <1>3 DEF Positions
  <2>2. QED
    BY <1>5, <2>1
<1>8. DeviceAfter'[pos - 1] = before
  BY <1>2, <1>3, <1>7, BeforeKept
<1>9. \A i \in 1..(pos - 1) : Settled(i)'
  BY <1>1, <1>7, SettledBeforeKept
<1>10. \A i \in {pos} : Settled(i)'
  <2> SUFFICES ASSUME NEW i \in {pos}
               PROVE  Settled(i)'
    OBVIOUS
  <2>1. i = pos /\ i \in Positions(prog)
    BY <1>3
  <2>2. EvictsSpares(i)'
    BY <1>2, <1>3, <1>4, <1>5, <1>7, <2>1, EvictsSparesKept
  <2>3. FetchesMissing(i)'
    BY <1>1, <1>3, <1>4, <1>5, <1>7, <2>1, FetchesMissingKept
  <2>4. Expired(i)' = Expired(i) /\ Epilogue(i)' = {}
    BY <1>1, <1>2 DEF Expired, Epilogue
  <2>5. plan'[i].free = Expired(i)' \cup Epilogue(i)'
    BY <1>5, <1>6, <2>1, <2>4
  <2>6. DeviceAfter'[i - 1] \subseteq DefinedBefore(i)'
    BY <1>2, <1>4, <1>8, <2>1 DEF DefinedBefore
  <2>7. QED
    BY <2>2, <2>3, <2>5, <2>6 DEF Settled
<1>11. \A i \in 1..(pos' - 1) : Settled(i)'
  <2>1. 1..(pos' - 1) = 1..(pos - 1) \cup {pos}
    BY <1>1, <1>3
  <2>2. QED
    BY <1>9, <1>10, <2>1
<1>12. resident' = DeviceAfter'[pos' - 1]
  <2>1. /\ Size(prog)' \in Nat /\ pos \in Positions(prog)'
    BY <1>2, <1>3
  <2>2. Replay(DeviceAfter', plan', Size(prog))
    BY <1>2, <1>3, DeviceAfterIsReplayed, ReplayedReplays
  <2>3. DeviceAfter'[pos]
          = DeviceDuring(DeviceAfter'[pos - 1], plan'[pos]) \ plan'[pos].free
    BY <1>3, <2>2, ReplayUnfolds DEF Positions
  <2>4. DeviceDuring(before, plan'[pos]) = DeviceDuring(before, act)
    BY <1>5 DEF DeviceDuring
  <2>5. resident' = resident \ DeadNow
    BY DEF FreeDead
  <2>6. pos' - 1 = pos
    BY <1>1, <1>3
  <2>7. QED
    BY <1>4, <1>5, <1>8, <2>3, <2>4, <2>5, <2>6
<1>13. \A i \in Positions(prog)' : i > pos' => plan'[i] = NoActions
  <2>1. \A i \in Positions(prog) : i > pos + 1 => i > pos /\ i # pos
    BY <1>3 DEF Positions
  <2>2. QED
    BY <1>1, <1>2, <1>4, <1>5, <2>1
<1>14. pos' <= Size(prog)' => plan'[pos'] = NoActions
  <2>1. pos + 1 <= Size(prog) =>
          pos + 1 \in Positions(prog) /\ pos + 1 > pos /\ pos + 1 # pos
    BY <1>3 DEF Positions
  <2>2. QED
    BY <1>1, <1>2, <1>4, <1>5, <2>1
<1>15. QED
  BY <1>1, <1>11, <1>12, <1>13, <1>14 DEF PlanFollowsResident

LEMMA FinishPlans ==
  ASSUME PlanInv, IInv', Finish
  PROVE  PlanFollowsResident'
<1>1. /\ IInv /\ PlanFollowsResident /\ Planning /\ pc = "begin" /\ pc' = "accepted"
      /\ pos > Size(prog) /\ job' = job /\ level' = level /\ pos' = pos
  BY DEF Finish, PlanInv, Planning
<1>2. prog' = prog /\ cost' = cost
  BY <1>1, SamePrices
<1>3. /\ TypeOK /\ Size(prog) \in Nat /\ pos = Size(prog) + 1
      /\ \A i \in Positions(prog) : Settled(i)
  <2>1. TypeOK /\ Size(prog) \in Nat /\ pos \in 1..(Size(prog) + 1)
    BY <1>1, PlanningStep
  <2>2. pos = Size(prog) + 1
    BY <1>1, <2>1
  <2>3. QED
    BY <1>1, <2>1, <2>2, PlanningStep DEF Positions
<1>4. /\ \A i \in Positions(prog) : i # Size(prog) => plan'[i] = plan[i]
      /\ \A i \in Positions(prog) :
           /\ plan'[i].alloc = plan[i].alloc
           /\ plan'[i].prefetch = plan[i].prefetch
           /\ plan'[i].evict = plan[i].evict
           /\ plan'[i].free = plan[i].free \cup Epilogue(i)'
  <2>1. plan \in [Positions(prog) -> Actions]
    BY <1>3 DEF TypeOK
  <2>2. CASE Size(prog) = 0
    BY <1>3, <2>2 DEF Positions
  <2>3. CASE Size(prog) # 0
    <3>1. Size(prog) \in Positions(prog)
      BY <1>3, <2>3 DEF Positions
    <3>2. plan' = [plan EXCEPT ![Size(prog)].free = @ \cup UnusedInputs]
      BY <2>3 DEF Finish
    <3>3. plan'[Size(prog)] = [plan[Size(prog)] EXCEPT !.free = @ \cup UnusedInputs]
      BY <2>1, <3>1, <3>2
    <3>4. plan[Size(prog)] \in Actions
      BY <2>1, <3>1
    <3>5. /\ plan'[Size(prog)].alloc = plan[Size(prog)].alloc
          /\ plan'[Size(prog)].prefetch = plan[Size(prog)].prefetch
          /\ plan'[Size(prog)].evict = plan[Size(prog)].evict
          /\ plan'[Size(prog)].free = plan[Size(prog)].free \cup UnusedInputs
      BY <3>3, <3>4 DEF Actions
    <3>6. \A i \in Positions(prog) : i # Size(prog) => plan'[i] = plan[i]
      BY <2>1, <3>1, <3>2
    <3>7. UnusedInputs' = UnusedInputs
      BY <1>1, <1>2 DEF UnusedInputs
    <3>8. \A i \in Positions(prog) :
            Epilogue(i)' = IF i = Size(prog) THEN UnusedInputs ELSE {}
      BY <1>1, <1>2, <3>7 DEF Epilogue
    <3>9. QED
      BY <3>5, <3>6, <3>8
  <2>4. QED
    BY <2>2, <2>3
<1>5. ASSUME NEW i \in Positions(prog)
      PROVE  Settled(i)'
  <2>1. \A j \in 1..(i - 1) : plan'[j] = plan[j]
    <3>1. \A j \in 1..(i - 1) : j \in Positions(prog) /\ j # Size(prog)
      BY <1>3 DEF Positions
    <3>2. QED
      BY <1>4, <3>1
  <2>2. EvictsSpares(i)'
    BY <1>2, <1>3, <1>4, <2>1, EvictsSparesKept DEF Settled
  <2>3. FetchesMissing(i)'
    BY <1>1, <1>3, <1>4, <2>1, FetchesMissingKept DEF Settled
  <2>4. DeviceAfter'[i - 1] = DeviceAfter[i - 1]
    BY <1>2, <1>3, <2>1, BeforeKept
  <2>5. DeviceAfter[i - 1] \subseteq DefinedBefore(i) /\ plan[i].free = Expired(i)
    BY <1>1, <1>3 DEF Settled, Epilogue
  <2>6. Expired(i)' = Expired(i) /\ DefinedBefore(i)' = DefinedBefore(i)
    BY <1>1, <1>2 DEF Expired, DefinedBefore
  <2>7. plan'[i].free = Expired(i)' \cup Epilogue(i)'
    BY <1>4, <2>5, <2>6
  <2>8. QED
    BY <2>2, <2>3, <2>4, <2>5, <2>6, <2>7 DEF Settled
<1>6. \A i \in 1..(pos' - 1) : Settled(i)'
  <2>1. 1..(pos' - 1) = Positions(prog)
    BY <1>1, <1>3 DEF Positions
  <2>2. QED
    BY <1>5, <2>1
<1>7. pos' = Size(prog)' + 1
  BY <1>1, <1>2, <1>3
<1>8. QED
  BY <1>1, <1>6, <1>7 DEF PlanFollowsResident

LEMMA StutterPlans ==
  ASSUME PlanInv, UNCHANGED vars
  PROVE  PlanFollowsResident'
<1>1. prog' = prog /\ cost' = cost /\ DeviceAfter' = DeviceAfter
  BY SamePrices, DeviceAfterIsReplayed DEF vars
<1>2. \A i : /\ EvictsSpares(i)' = EvictsSpares(i)
             /\ FetchesMissing(i)' = FetchesMissing(i)
             /\ DefinedBefore(i)' = DefinedBefore(i)
             /\ Expired(i)' = Expired(i)
             /\ Epilogue(i)' = Epilogue(i)
  <2>1. \A i : EvictsSpares(i)' = EvictsSpares(i)
    BY <1>1 DEF vars, EvictsSpares
  <2>2. \A i : FetchesMissing(i)' = FetchesMissing(i)
    BY <1>1 DEF vars, FetchesMissing, Units
  <2>3. \A i : DefinedBefore(i)' = DefinedBefore(i)
    BY <1>1 DEF DefinedBefore
  <2>4. \A i : Expired(i)' = Expired(i)
    BY <1>1 DEF vars, Expired
  <2>5. \A i : Epilogue(i)' = Epilogue(i)
    BY <1>1 DEF vars, Epilogue, UnusedInputs
  <2>6. QED
    BY <2>1, <2>2, <2>3, <2>4, <2>5
<1>3. \A i : Settled(i)' = Settled(i)
  BY <1>1, <1>2 DEF vars, Settled
<1>4. QED
  BY <1>1, <1>2, <1>3 DEF vars, PlanInv, PlanFollowsResident, Planning

(* The plan under construction is what its replay says, in every reachable  *)
(* state.                                                                  *)
THEOREM PlanInductive == Spec => []PlanInv
<1>1. Init => PlanInv
  BY InitEstablishes, InitPlan DEF PlanInv
<1>2. PlanInv /\ IInv' /\ [Next]_vars => PlanInv'
  BY PreparationPlans, BeginInstructionPlans, MakeRoomPlans, PlacePlans,
     FreeDeadPlans, FinishPlans, StutterPlans
     DEF Next, PlanInv
<1>3. QED
  BY <1>1, <1>2, InductiveInvariant, PTL DEF Spec

-----------------------------------------------------------------------------
(* An accepted plan is sound.                                               *)

(* What holds of every instruction of an accepted plan.                     *)
LEMMA AcceptedFacts ==
  ASSUME PlanInv, pc = "accepted"
  PROVE  /\ TypeOK /\ prog \in Program /\ WellFormed(prog) /\ Size(prog) \in Nat
         /\ \A i \in Positions(prog) : Settled(i)
<1>1. TypeOK /\ prog \in Program /\ Size(prog) \in Nat
  BY JobTypes, ProgramTypes DEF PlanInv, IInv
<1>2. WellFormed(prog)
  BY DEF PlanInv, IInv, ChecksHold, Planning
<1>3. Positions(prog) = 1..(pos - 1)
  BY <1>1 DEF PlanInv, PlanFollowsResident, Positions
<1>4. QED
  BY <1>1, <1>2, <1>3 DEF PlanInv, PlanFollowsResident, Planning

(* A sequence without repetitions has as many elements as it is long.       *)
LEMMA DistinctElements ==
  ASSUME NEW S, NEW s \in Seq(S), \A j, k \in DOMAIN s : s[j] = s[k] => j = k
  PROVE  Cardinality(Range(s)) = Len(s)
<1>1. Len(s) \in Nat /\ DOMAIN s = 1..Len(s)
  OBVIOUS
<1> DEFINE f == [k \in 1..Len(s) |-> s[k]]
<1>2. f \in Bijection(1..Len(s), Range(s))
  BY <1>1 DEF Bijection, Injection, Surjection, IsInjective, Range
<1>3. ExistsBijection(1..Len(s), Range(s))
  BY <1>2 DEF ExistsBijection
<1>4. QED
  BY <1>1, <1>3, FS_CountingElements

LEMMA AcceptedResidency ==
  ASSUME PlanInv, pc = "accepted"
  PROVE  ResidencySound
<1> SUFFICES ASSUME NEW i \in Positions(prog)
             PROVE  LET before == DeviceAfter[i - 1]
                        act == plan[i]
                    IN  /\ WorkingSet(prog, i) \subseteq DeviceDuring(before, act)
                        /\ Range(act.evict) \subseteq before \ WorkingSet(prog, i)
                        /\ Cardinality(Range(act.evict)) = Len(act.evict)
                        /\ act.alloc \cap before = {}
                        /\ act.prefetch \cap (before \ Range(act.evict)) = {}
  BY DEF ResidencySound
<1> DEFINE before == DeviceAfter[i - 1]
           act == plan[i]
<1>1. /\ prog \in Program /\ WellFormed(prog)
      /\ EvictsSpares(i) /\ FetchesMissing(i)
      /\ before \subseteq DefinedBefore(i)
  BY AcceptedFacts DEF Settled
<1>2. act \in Actions /\ act.evict \in Seq(Nat)
  BY AcceptedFacts DEF TypeOK, Actions
<1>3. /\ act.alloc = {Result(prog, i)}
      /\ act.prefetch = Operands(prog, i) \ (before \ Range(act.evict))
  BY <1>1 DEF FetchesMissing
<1>4. WorkingSet(prog, i) \subseteq DeviceDuring(before, act)
  BY <1>3 DEF WorkingSet, DeviceDuring
<1>5. Range(act.evict) \subseteq before \ WorkingSet(prog, i)
  BY <1>1 DEF EvictsSpares
<1>6. Cardinality(Range(act.evict)) = Len(act.evict)
  BY <1>1, <1>2, DistinctElements DEF EvictsSpares
<1>7. Result(prog, i) \notin DefinedBefore(i)
  BY <1>1, WellFormedFacts DEF DefinedBefore
<1>8. QED
  BY <1>1, <1>3, <1>4, <1>5, <1>6, <1>7

(* The instructions that free an id: those its life ends with.              *)
LEMMA AcceptedFrees ==
  ASSUME PlanInv, pc = "accepted", NEW id
  PROVE  {i \in Positions(prog) : id \in plan[i].free}
           = {i \in Positions(prog) : id \in Expired(i)}
               \cup {i \in Positions(prog) : i = Size(prog) /\ id \in UnusedInputs}
<1>1. \A i \in Positions(prog) :
        plan[i].free = Expired(i) \cup (IF i = Size(prog) THEN UnusedInputs ELSE {})
  BY AcceptedFacts DEF Settled, Epilogue
<1>2. QED
  BY <1>1

(* An id expires at one instruction at most, at none if nothing ever        *)
(* touches it, and at its last use or its definition otherwise.             *)
LEMMA ExpiresOnce ==
  ASSUME prog \in Program, WellFormed(prog), NEW id,
         NEW i \in Positions(prog), id \in Expired(i),
         NEW j \in Positions(prog), id \in Expired(j)
  PROVE  i = j
<1>1. Size(prog) \in Nat
  BY ProgramTypes
<1>2. i \in Int /\ j \in Int
  BY <1>1 DEF Positions
<1>3. ASSUME NEW k \in Positions(prog), id \in Expired(k),
             NEW l \in Positions(prog), id \in Expired(l), k < l
      PROVE  FALSE
  <2>1. /\ id \in WorkingSet(prog, k) /\ id \in WorkingSet(prog, l)
        /\ \A u \in UsesOf(prog, id) : u <= k
        /\ k \in Int /\ l \in Int
    BY <1>1, <1>3 DEF Expired, Positions
  <2>2. l \notin UsesOf(prog, id)
    BY <1>3, <2>1
  <2>3. id = Result(prog, l)
    BY <2>1, <2>2 DEF WorkingSet, UsesOf
  <2>4. k \notin UsesOf(prog, id)
    BY <1>3, <2>1, <2>3, UsesFollowDefinition
  <2>5. id = Result(prog, k)
    BY <2>1, <2>4 DEF WorkingSet, UsesOf
  <2>6. \A m, n \in Positions(prog) : Result(prog, m) = Result(prog, n) => m = n
    BY DEF WellFormed, SingleAssignment
  <2>7. k = l
    BY <2>3, <2>5, <2>6
  <2>8. QED
    BY <1>3, <2>1, <2>7
<1>4. QED
  BY <1>2, <1>3

LEMMA ExpiresSomewhere ==
  ASSUME prog \in Program, WellFormed(prog), NEW id \in Ids(prog),
         id \notin job.pinned, id \notin UnusedInputs
  PROVE  \E i \in Positions(prog) : id \in Expired(i)
<1>1. Size(prog) \in Nat
  BY ProgramTypes
<1>2. CASE UsesOf(prog, id) = {}
  <2>1. id \notin Inputs(prog)
    BY <1>2 DEF UnusedInputs
  <2>2. PICK i \in Positions(prog) : id = Result(prog, i)
    BY <2>1 DEF Ids
  <2>3. id \in Expired(i)
    BY <1>2, <2>2 DEF Expired, WorkingSet
  <2>4. QED
    BY <2>3
<1>3. CASE UsesOf(prog, id) # {}
  <2>1. UsesOf(prog, id) \subseteq 0..Size(prog)
    BY <1>1 DEF UsesOf, Positions
  <2>2. PICK i \in UsesOf(prog, id) : \A u \in UsesOf(prog, id) : u <= i
    BY <1>1, <1>3, <2>1, GreatestExists
  <2>3. i \in Positions(prog) /\ id \in WorkingSet(prog, i)
    BY DEF UsesOf, WorkingSet
  <2>4. id \in Expired(i)
    BY <2>2, <2>3 DEF Expired
  <2>5. QED
    BY <2>3, <2>4
<1>4. QED
  BY <1>2, <1>3

LEMMA AcceptedLifetimes ==
  ASSUME PlanInv, pc = "accepted"
  PROVE  LifetimesComplete
<1> SUFFICES ASSUME NEW id \in Ids(prog)
             PROVE  LET frees == {i \in Positions(prog) : id \in plan[i].free} IN
                      IF id \in job.pinned \/ Size(prog) = 0
                        THEN frees = {}
                        ELSE /\ Cardinality(frees) = 1
                             /\ \A i \in frees : \A u \in UsesOf(prog, id) : u <= i
  BY DEF LifetimesComplete
<1> DEFINE frees == {i \in Positions(prog) : id \in plan[i].free}
<1>1. prog \in Program /\ WellFormed(prog) /\ Size(prog) \in Nat
  BY AcceptedFacts
<1>2. frees = {i \in Positions(prog) : id \in Expired(i)}
               \cup {i \in Positions(prog) : i = Size(prog) /\ id \in UnusedInputs}
  BY AcceptedFrees
<1> HIDE DEF frees
<1>3. CASE id \in job.pinned
  <2>1. frees = {}
    BY <1>2, <1>3 DEF Expired, UnusedInputs
  <2>2. QED
    BY <1>3, <2>1 DEF frees
<1>4. CASE Size(prog) = 0
  <2>1. frees = {}
    BY <1>2, <1>4 DEF Positions
  <2>2. QED
    BY <1>4, <2>1 DEF frees
<1>5. CASE id \notin job.pinned /\ Size(prog) # 0
  <2>1. Size(prog) \in Positions(prog)
    BY <1>1, <1>5 DEF Positions
  <2>2. PICK k \in Positions(prog) :
          /\ frees = {k}
          /\ \A u \in UsesOf(prog, id) : u <= k
    <3>1. CASE id \in UnusedInputs
      <4>1. \A i \in Positions(prog) : id \notin Expired(i)
        BY <1>1, <3>1
           DEF UnusedInputs, Expired, WorkingSet, UsesOf, WellFormed, SingleAssignment
      <4>2. frees = {Size(prog)}
        BY <1>2, <2>1, <3>1, <4>1
      <4>3. UsesOf(prog, id) = {}
        BY <3>1 DEF UnusedInputs
      <4>4. QED
        BY <2>1, <4>2, <4>3
    <3>2. CASE id \notin UnusedInputs
      <4>1. PICK i \in Positions(prog) : id \in Expired(i)
        BY <1>1, <1>5, <3>2, ExpiresSomewhere
      <4>2. \A j \in Positions(prog) : id \in Expired(j) => j = i
        BY <1>1, <4>1, ExpiresOnce
      <4>3. frees = {i}
        BY <1>2, <3>2, <4>1, <4>2
      <4>4. QED
        BY <4>1, <4>3 DEF Expired
    <3>3. QED
      BY <3>1, <3>2
  <2>3. Cardinality(frees) = 1
    BY <2>2, FS_Singleton
  <2>4. QED
    BY <1>5, <2>2, <2>3 DEF frees
<1>6. QED
  BY <1>3, <1>4, <1>5 DEF frees

(* A plan that analyze hands out brings every working set in, evicts only   *)
(* what is there and spare, and frees what it owns once, after its last use.*)
THEOREM AcceptedPlanSound == Spec => []AcceptedPlanIsSound
<1>1. PlanInv => AcceptedPlanIsSound
  BY AcceptedResidency, AcceptedLifetimes DEF AcceptedPlanIsSound
<1>2. QED
  BY <1>1, PlanInductive, PTL

-----------------------------------------------------------------------------
(* What analyze turns down.  The level rule of an instruction looks at the  *)
(* ids of its working set only, and it leaves the result one level at most. *)

LEMMA RuleIsLocal ==
  ASSUME NEW lv, NEW kv, NEW i, \A a \in WorkingSet(prog, i) : lv[a] = kv[a],
         LevelRule(lv, i)
  PROVE  LevelRule(kv, i)
<1>1. kv[prog.code[i].res] = lv[prog.code[i].res]
  BY DEF WorkingSet, Result
<1>2. {lv[a] : a \in Operands(prog, i)} = {kv[a] : a \in Operands(prog, i)}
  BY DEF WorkingSet
<1>3. QED
  BY <1>1, <1>2 DEF LevelRule

LEMMA RuleGivesResultLevels ==
  ASSUME NEW lv, \A a \in Operands(prog, pos) : lv[a] = level[a],
         lv[Result(prog, pos)] \in 0..job.model.fresh
  PROVE  LevelRule(lv, pos) <=> lv[Result(prog, pos)] \in ResultLevels
<1> DEFINE inst == prog.code[pos]
           eff == job.model.effect[inst.op]
           r == lv[inst.res]
<1>1. {lv[a] : a \in Operands(prog, pos)} = {level[a] : a \in Operands(prog, pos)}
  OBVIOUS
<1>2. Min({job.model.fresh} \cup {lv[a] : a \in Operands(prog, pos)}) = MinLevel
  BY <1>1 DEF MinLevel
<1>3. r \in 0..job.model.fresh
  BY DEF Result
<1>4. LevelRule(lv, pos) <=>
        \/ eff = "preserve" /\ r = MinLevel
        \/ eff = "consume" /\ r = MinLevel - 1
        \/ eff = "set_param0" /\ r = inst.param /\ inst.param <= MinLevel
  BY <1>2 DEF LevelRule
<1>5. r \in ResultLevels <=>
        \/ eff = "preserve" /\ r = MinLevel
        \/ eff = "consume" /\ r = MinLevel - 1
        \/ eff = "set_param0" /\ r = inst.param /\ inst.param <= MinLevel
  <2> HIDE DEF r
  <2>1. CASE eff = "preserve"
    BY <1>3, <2>1 DEF ResultLevels
  <2>2. CASE eff = "consume"
    BY <1>3, <2>2 DEF ResultLevels
  <2>3. CASE eff = "set_param0"
    BY <1>3, <2>3 DEF ResultLevels
  <2>4. CASE eff \notin {"preserve", "consume", "set_param0"}
    BY <1>3, <2>4 DEF ResultLevels
  <2>5. QED
    BY <2>1, <2>2, <2>3, <2>4
<1>6. QED
  BY <1>4, <1>5 DEF Result

LEMMA OneResultLevel ==
  ASSUME NEW k \in ResultLevels, NEW l \in ResultLevels
  PROVE  k = l
<1> DEFINE eff == job.model.effect[prog.code[pos].op]
<1>1. CASE eff = "preserve"
  BY <1>1 DEF ResultLevels
<1>2. CASE eff = "consume"
  BY <1>2 DEF ResultLevels
<1>3. CASE eff = "set_param0"
  BY <1>3 DEF ResultLevels
<1>4. CASE eff \notin {"preserve", "consume", "set_param0"}
  BY <1>4 DEF ResultLevels
<1>5. QED
  BY <1>1, <1>2, <1>3, <1>4

(* Whether a request is feasible is a matter of its arguments alone.        *)
LEMMA FeasibleKept ==
  ASSUME job' = job
  PROVE  Feasible' <=> Feasible
BY DEF Feasible, LevelTable, LevelRule, CostUnder, ModelOK, ByteMode, prog

(* While the levels are inferred, a valid table agrees with them so far.    *)
LEMMA InferenceFacts ==
  ASSUME FeasibleInv, pc = "infer", pos <= Size(prog)
  PROVE  /\ TypeOK /\ prog \in Program /\ WellFormed(prog) /\ ByteMode
         /\ pos \in Positions(prog) /\ Size(prog) \in Nat
         /\ Operands(prog, pos) \subseteq DefinedBefore(pos)
         /\ Result(prog, pos) \in Ids(prog) \ DefinedBefore(pos)
         /\ \A i \in 1..(pos - 1) : WorkingSet(prog, i) \subseteq DefinedBefore(pos)
         /\ DefinedBefore(pos + 1) = DefinedBefore(pos) \cup {Result(prog, pos)}
         /\ \A id \in Inputs(prog) : level[id] = job.model.fresh
         /\ \A i \in 1..(pos - 1) : LevelRule(level, i)
         /\ \A lv \in [Ids(prog) -> 0..job.model.fresh] :
              LevelTable(lv) => \A id \in DefinedBefore(pos) : lv[id] = level[id]
<1>1. /\ TypeOK /\ WellFormed(prog) /\ ByteMode
      /\ pos \in 1..(Size(prog) + 1)
  BY DEF FeasibleInv, PlanInv, IInv, ChecksHold, TypeOK
<1>2. prog \in Program /\ Size(prog) \in Nat
  BY <1>1, JobTypes, ProgramTypes
<1>3. pos \in Positions(prog) /\ pos \in 1..Size(prog)
  BY <1>1, <1>2 DEF Positions
<1>4. /\ Operands(prog, pos) \subseteq DefinedBefore(pos)
      /\ Result(prog, pos) \notin DefinedBefore(pos)
      /\ Result(prog, pos) \in Ids(prog)
  BY <1>1, <1>2, <1>3, WellFormedFacts DEF DefinedBefore, WorkingSet
<1>5. ASSUME NEW i \in 1..(pos - 1)
      PROVE  WorkingSet(prog, i) \subseteq DefinedBefore(pos)
  <2>1. i \in Positions(prog)
    BY <1>2, <1>3 DEF Positions
  <2>2. Operands(prog, i) \subseteq Inputs(prog) \cup {Result(prog, j) : j \in 1..(i - 1)}
    BY <1>1, <1>2, <2>1, WellFormedFacts
  <2>3. 1..(i - 1) \subseteq 1..(pos - 1)
    BY <1>3
  <2>4. QED
    BY <2>2, <2>3 DEF WorkingSet, DefinedBefore
<1>6. DefinedBefore(pos + 1) = DefinedBefore(pos) \cup {Result(prog, pos)}
  <2>1. 1..((pos + 1) - 1) = (1..(pos - 1)) \cup {pos}
    BY <1>3
  <2>2. QED
    BY <2>1 DEF DefinedBefore
<1>7. Inferred = pos - 1 /\ (pos - 1) + 1 = pos
  BY <1>3 DEF Inferred
<1>8. /\ \A id \in Inputs(prog) : level[id] = job.model.fresh
      /\ \A i \in 1..Inferred : LevelRule(level, i)
      /\ \A lv \in [Ids(prog) -> 0..job.model.fresh] :
           LevelTable(lv) => \A id \in DefinedBefore(Inferred + 1) : lv[id] = level[id]
  BY <1>1 DEF FeasibleInv, LevelsForced
<1>9. QED
  BY <1>1, <1>2, <1>3, <1>4, <1>5, <1>6, <1>7, <1>8

(* A valid table gives the instruction under inference one of the levels    *)
(* its effect allows: if there is none, there is no table.                  *)
LEMMA TableFollowsInference ==
  ASSUME FeasibleInv, pc = "infer", pos <= Size(prog),
         NEW lv \in [Ids(prog) -> 0..job.model.fresh], LevelTable(lv)
  PROVE  /\ \A id \in DefinedBefore(pos) : lv[id] = level[id]
         /\ lv[Result(prog, pos)] \in ResultLevels
<1>1. \A id \in DefinedBefore(pos) : lv[id] = level[id]
  BY InferenceFacts
<1>2. LevelRule(lv, pos)
  BY InferenceFacts DEF LevelTable
<1>3. lv[Result(prog, pos)] \in 0..job.model.fresh
  BY InferenceFacts
<1>4. \A a \in Operands(prog, pos) : lv[a] = level[a]
  BY <1>1, InferenceFacts
<1>5. QED
  BY <1>1, <1>2, <1>3, <1>4, RuleGivesResultLevels

LEMMA InferLevelForces ==
  ASSUME FeasibleInv, IInv', InferLevel, pc' = "infer"
  PROVE  LevelsForced'
<1>1. pc = "infer" /\ pos <= Size(prog) /\ job' = job /\ pos' = pos + 1
  BY DEF InferLevel
<1>2. PICK l \in ResultLevels : level' = [level EXCEPT ![Result(prog, pos)] = l]
  BY <1>1 DEF InferLevel
<1>3. prog' = prog /\ ByteMode' /\ Size(prog) \in Nat /\ pos \in Positions(prog)
  BY <1>1, InferenceFacts DEF prog, ByteMode
<1>4. Inferred' = pos /\ pos \in Nat
  BY <1>1, <1>3 DEF Inferred, Positions
<1>5. level'[Result(prog, pos)] = l
  BY <1>1, <1>2, InferenceFacts DEF TypeOK
<1>6. \A id \in DefinedBefore(pos) : level'[id] = level[id]
  BY <1>1, <1>2, InferenceFacts DEF TypeOK
<1>7. \A id \in Inputs(prog) : level'[id] = job.model.fresh
  BY <1>1, <1>6, InferenceFacts DEF DefinedBefore
<1>8. ASSUME NEW i \in 1..pos
      PROVE  LevelRule(level', i)
  <2>1. CASE i = pos
    <3>1. \A a \in Operands(prog, pos) : level'[a] = level[a]
      BY <1>1, <1>6, InferenceFacts
    <3>2. l \in 0..job.model.fresh
      BY ResultLevelsCovered
    <3>3. QED
      BY <1>5, <2>1, <3>1, <3>2, RuleGivesResultLevels
  <2>2. CASE i # pos
    <3>1. i \in 1..(pos - 1)
      BY <1>3, <2>2 DEF Positions
    <3>2. \A a \in WorkingSet(prog, i) : level[a] = level'[a]
      BY <1>1, <1>6, <3>1, InferenceFacts
    <3>3. LevelRule(level, i)
      BY <1>1, <3>1, InferenceFacts
    <3>4. QED
      BY <3>2, <3>3, RuleIsLocal
  <2>3. QED
    BY <2>1, <2>2
<1>9. \A i \in 1..pos : LevelRule(level, i)'
  BY <1>1, <1>3, <1>8 DEF LevelRule
<1>10. ASSUME NEW lv \in [Ids(prog) -> 0..job.model.fresh], LevelTable(lv),
              NEW id \in DefinedBefore(pos + 1)
       PROVE  lv[id] = level'[id]
  <2>1. \A a \in DefinedBefore(pos) : lv[a] = level[a]
    BY <1>1, <1>10, TableFollowsInference
  <2>2. lv[Result(prog, pos)] = l
    BY <1>1, <1>2, <1>10, TableFollowsInference, OneResultLevel
  <2>3. id \in DefinedBefore(pos) \/ id = Result(prog, pos)
    BY <1>1, <1>10, InferenceFacts
  <2>4. QED
    BY <1>5, <1>6, <2>1, <2>2, <2>3
<1>11. \A lv : LevelTable(lv)' <=> LevelTable(lv)
  BY <1>1, <1>3 DEF LevelTable, LevelRule
<1>12. DefinedBefore(Inferred + 1)' = DefinedBefore(pos + 1)
  BY <1>3, <1>4 DEF DefinedBefore
<1>13. \A i \in 1..Inferred' : LevelRule(level, i)'
  BY <1>4, <1>9
<1>14. \A lv \in [Ids(prog') -> 0..job'.model.fresh] :
         LevelTable(lv)' => \A id \in DefinedBefore(Inferred + 1)' : lv[id] = level'[id]
  BY <1>1, <1>3, <1>10, <1>11, <1>12
<1>15. QED
  BY <1>1, <1>3, <1>7, <1>13, <1>14 DEF LevelsForced

LEMMA InferLevelRefuses ==
  ASSUME FeasibleInv, InferLevel, ResultLevels = {}
  PROVE  ~Feasible
<1>1. pc = "infer" /\ pos <= Size(prog) /\ ByteMode
  BY InferenceFacts DEF InferLevel
<1>2. SUFFICES ASSUME NEW lv \in [Ids(prog) -> 0..job.model.fresh], LevelTable(lv)
               PROVE  FALSE
  BY <1>1 DEF Feasible
<1>3. QED
  BY <1>1, <1>2, TableFollowsInference

LEMMA InitForces ==
  ASSUME Init
  PROVE  LevelsForced /\ (pc = "rejected" => ~Feasible)
BY DEF Init, LevelsForced, Planning

LEMMA CheckProgramForces ==
  ASSUME FeasibleInv, IInv', CheckProgram
  PROVE  LevelsForced' /\ (pc' = "rejected" => ~Feasible')
<1>1. /\ pc = "check" /\ pos = 1 /\ job' = job /\ pos' = pos
      /\ prog' = prog /\ (ByteMode' <=> ByteMode)
  BY DEF CheckProgram, FeasibleInv, PlanInv, IInv, InstructionUnderWay, prog, ByteMode
<1>2. CASE pc' = "infer"
  <2>1. level' = [id \in Ids(prog) |->
                    IF id \in Inputs(prog) THEN job.model.fresh ELSE Unleveled]
    BY <1>2 DEF CheckProgram
  <2>2. \A id \in Inputs(prog) : level'[id] = job.model.fresh
    BY <2>1 DEF Ids
  <2>3. Inferred' = 0
    BY <1>1, <1>2 DEF Inferred
  <2>4. DefinedBefore(Inferred + 1)' = Inputs(prog)
    BY <1>1, <2>3 DEF DefinedBefore
  <2>5. \A i \in 1..Inferred' : LevelRule(level, i)'
    BY <2>3
  <2>6. \A lv : LevelTable(lv)' => \A id \in Inputs(prog) : lv[id] = job.model.fresh
    BY <1>1 DEF LevelTable
  <2>7. \A lv \in [Ids(prog') -> 0..job'.model.fresh] :
          LevelTable(lv)' => \A id \in DefinedBefore(Inferred + 1)' : lv[id] = level'[id]
    BY <2>2, <2>4, <2>6
  <2>8. QED
    BY <1>1, <1>2, <2>2, <2>5, <2>7 DEF LevelsForced
<1>3. CASE pc' # "infer"
  <2>1. /\ pc' = "rejected" => ~WellFormed(prog) \/ (ByteMode /\ ~ModelOK)
        /\ pc' = "begin" => ~ByteMode
        /\ pc' \in {"rejected", "begin"}
    BY <1>3 DEF CheckProgram
  <2>2. pc' = "rejected" => ~Feasible'
    <3>1. pc' = "rejected" => ~Feasible
      BY <2>1 DEF Feasible
    <3>2. QED
      BY <1>1, <3>1, FeasibleKept
  <2>3. QED
    BY <1>1, <1>3, <2>1, <2>2 DEF LevelsForced, Planning
<1>4. QED
  BY <1>2, <1>3

(* After inference nothing about the levels changes any more.               *)
LEMMA ForcedKept ==
  ASSUME LevelsForced, Size(prog) \in Nat, job' = job, level' = level,
         \/ pc \in {"begin", "fit", "free", "accepted"}
         \/ pc = "infer" /\ pos = Size(prog) + 1,
         pc' \in {"begin", "fit", "free", "accepted"}
  PROVE  LevelsForced'
<1>1. prog' = prog /\ (ByteMode' <=> ByteMode)
  BY DEF prog, ByteMode
<1>2. Inferred' = Inferred
  BY <1>1 DEF Inferred
<1>3. /\ \A lv : LevelTable(lv)' <=> LevelTable(lv)
      /\ \A i : LevelRule(level, i)' <=> LevelRule(level, i)
      /\ DefinedBefore(Inferred + 1)' = DefinedBefore(Inferred + 1)
  BY <1>1, <1>2 DEF LevelTable, LevelRule, DefinedBefore
<1>4. pc = "infer" \/ Planning
  BY DEF Planning
<1>5. QED
  BY <1>1, <1>2, <1>3, <1>4 DEF LevelsForced

(* All tables price the buffers alike, so the feasibility test of one       *)
(* instruction speaks for each of them.                                     *)
LEMMA TablesPriceAlike ==
  ASSUME TypeOK, LevelsForced, Planning, NEW lv,
         ByteMode => lv \in [Ids(prog) -> 0..job.model.fresh] /\ LevelTable(lv)
  PROVE  CostUnder(lv) = cost
<1>1. CASE ~ByteMode
  BY <1>1 DEF CostUnder, cost
<1>2. CASE ByteMode
  <2>1. pc # "infer" /\ Inferred = Size(prog)
    BY DEF Planning, Inferred
  <2>2. DefinedBefore(Inferred + 1) = Ids(prog)
    <3>1. Size(prog) \in Nat
      BY JobTypes, ProgramTypes
    <3>2. (Size(prog) + 1) - 1 = Size(prog)
      BY <3>1
    <3>3. QED
      BY <2>1, <3>2 DEF DefinedBefore, Ids, Positions
  <2>3. \A id \in Ids(prog) : lv[id] = level[id]
    BY <1>2, <2>2 DEF LevelsForced
  <2>4. QED
    BY <1>2, <2>3 DEF CostUnder, cost
<1>3. QED
  BY <1>1, <1>2

LEMMA BeginInstructionRefuses ==
  ASSUME FeasibleInv, BeginInstruction, pc' = "rejected"
  PROVE  ~Feasible
<1>1. /\ TypeOK /\ ChecksHold /\ LevelsForced /\ Planning
      /\ job.budget > 0 /\ Units(WorkingSet(prog, pos)) > job.budget
      /\ pos <= Size(prog)
  BY DEF FeasibleInv, PlanInv, IInv, BeginInstruction, Planning
<1>2. pos \in Positions(prog) /\ WorkingSet(prog, pos) \in SUBSET Ids(prog)
  BY <1>1, InstructionFacts
<1>3. Units(WorkingSet(prog, pos)) \in Nat /\ job.budget \in Nat
  BY <1>1, <1>2, UnitsFacts, JobTypes
<1>4. SUFFICES ASSUME Feasible
               PROVE  FALSE
  OBVIOUS
<1>5. PICK lv \in [Ids(prog) -> IF ByteMode THEN 0..job.model.fresh ELSE {0}] :
        /\ ByteMode => LevelTable(lv)
        /\ \A i \in Positions(prog) :
             job.budget > 0 => Weight(WorkingSet(prog, i), CostUnder(lv)) <= job.budget
  BY <1>4 DEF Feasible
<1>6. CostUnder(lv) = cost
  BY <1>1, <1>5, TablesPriceAlike
<1>7. Units(WorkingSet(prog, pos)) <= job.budget
  BY <1>1, <1>2, <1>5, <1>6 DEF Units
<1>8. QED
  BY <1>1, <1>3, <1>7

LEMMA AcceptedIsFeasible ==
  ASSUME PlanInv, LevelsForced, pc = "accepted"
  PROVE  Feasible
<1>1. /\ TypeOK /\ ChecksHold /\ Planning /\ WellFormed(prog)
      /\ prog \in Program /\ Size(prog) \in Nat
      /\ \A i \in Positions(prog) : Settled(i)
  BY AcceptedFacts DEF PlanInv, IInv, Planning
<1>2. ByteMode => ModelOK
  BY <1>1 DEF ChecksHold
<1> DEFINE lv == IF ByteMode THEN level ELSE [id \in Ids(prog) |-> 0]
<1>3. lv \in [Ids(prog) -> IF ByteMode THEN 0..job.model.fresh ELSE {0}]
  <2>1. CASE ByteMode
    <3>1. level \in [Ids(prog) -> Int] /\ \A id \in Ids(prog) : level[id] \in 0..job.model.fresh
      BY <1>1, <2>1 DEF TypeOK, ChecksHold, Leveled
    <3>2. level \in [Ids(prog) -> 0..job.model.fresh]
      BY <3>1
    <3>3. QED
      BY <2>1, <3>2
  <2>2. CASE ~ByteMode
    BY <2>2
  <2>3. QED
    BY <2>1, <2>2
<1>4. ByteMode => LevelTable(lv)
  BY <1>1 DEF LevelTable, LevelsForced, Inferred, Positions
<1>5. CostUnder(lv) = cost
  <2>1. ByteMode => lv \in [Ids(prog) -> 0..job.model.fresh] /\ LevelTable(lv)
    BY <1>3, <1>4
  <2> HIDE DEF lv
  <2>2. QED
    BY <1>1, <2>1, TablesPriceAlike
<1>6. ASSUME NEW i \in Positions(prog), job.budget > 0
      PROVE  Weight(WorkingSet(prog, i), CostUnder(lv)) <= job.budget
  <2> DEFINE during == DeviceDuring(DeviceAfter[i - 1], plan[i])
  <2>1. Settled(i)
    BY <1>1
  <2>2. i \in 1..Size(prog)
    BY DEF Positions
  <2>3. WorkingSet(prog, i) \subseteq during
    BY <2>1 DEF Settled, FetchesMissing, DeviceDuring, WorkingSet
  <2>4. DefinedBefore(i) \subseteq Ids(prog) /\ WorkingSet(prog, i) \subseteq Ids(prog)
    <3>1. 1..(i - 1) \subseteq Positions(prog)
      BY <1>1, <2>2 DEF Positions
    <3>2. QED
      BY <1>1, <3>1, WellFormedFacts DEF DefinedBefore, Ids
  <2>5. during \subseteq Ids(prog)
    BY <2>1, <2>4 DEF Settled, FetchesMissing, DeviceDuring, WorkingSet
  <2>6. Units(during) <= job.budget
    BY <1>6, <2>1 DEF Settled, FetchesMissing
  <2> HIDE DEF during
  <2>7. /\ Units(WorkingSet(prog, i)) <= Units(during)
        /\ Units(WorkingSet(prog, i)) \in Nat /\ Units(during) \in Nat
    BY <1>1, <2>3, <2>5, UnitsFacts
  <2>8. Units(WorkingSet(prog, i)) <= job.budget
    BY <1>1, <2>6, <2>7, JobTypes
  <2>9. QED
    BY <1>5, <2>8 DEF Units
<1>7. QED
  <2> HIDE DEF lv
  <2>1. QED
    BY <1>1, <1>2, <1>3, <1>4, <1>6 DEF Feasible

LEMMA PlanningForces ==
  ASSUME FeasibleInv,
         LevelsInferred \/ BeginInstruction \/ MakeRoom \/ Place \/ FreeDead \/ Finish
  PROVE  LevelsForced' /\ (pc' = "rejected" => ~Feasible')
<1>1. /\ TypeOK /\ LevelsForced /\ job' = job /\ level' = level
      /\ pos \in 1..(Size(prog) + 1) /\ Size(prog) \in Nat
  BY JobTypes, ProgramTypes
     DEF FeasibleInv, PlanInv, IInv, TypeOK, LevelsInferred, BeginInstruction,
         MakeRoom, Place, FreeDead, Finish
<1>2. CASE pc' = "rejected"
  <2>1. BeginInstruction \/ (MakeRoom /\ Candidates = {})
    BY <1>2 DEF LevelsInferred, MakeRoom, Place, FreeDead, Finish
  <2>2. ~(MakeRoom /\ Candidates = {})
    BY VictimExists DEF FeasibleInv, PlanInv, MakeRoom, VictimAlwaysExists
  <2>3. ~Feasible
    BY <1>2, <2>1, <2>2, BeginInstructionRefuses
  <2>4. ~Feasible'
    BY <1>1, <2>3, FeasibleKept
  <2>5. QED
    BY <1>2, <2>4 DEF LevelsForced, Planning
<1>3. CASE pc' # "rejected"
  <2>1. /\ pc' \in {"begin", "fit", "free", "accepted"}
        /\ \/ pc \in {"begin", "fit", "free", "accepted"}
           \/ pc = "infer" /\ pos = Size(prog) + 1
    BY <1>1, <1>3 DEF LevelsInferred, BeginInstruction, MakeRoom, Place, FreeDead, Finish
  <2>2. QED
    BY <1>1, <1>3, <2>1, ForcedKept
<1>4. QED
  BY <1>2, <1>3

LEMMA InferLevelForcesOrRefuses ==
  ASSUME FeasibleInv, IInv', InferLevel
  PROVE  LevelsForced' /\ (pc' = "rejected" => ~Feasible')
<1>1. CASE pc' = "infer"
  BY <1>1, InferLevelForces
<1>2. CASE pc' # "infer"
  <2>1. ResultLevels = {} /\ pc' = "rejected" /\ job' = job
    BY <1>2 DEF InferLevel
  <2>2. ~Feasible'
    BY <2>1, InferLevelRefuses, FeasibleKept
  <2>3. QED
    BY <2>1, <2>2 DEF LevelsForced, Planning
<1>3. QED
  BY <1>1, <1>2

LEMMA StutterForces ==
  ASSUME FeasibleInv, UNCHANGED vars
  PROVE  LevelsForced' /\ (pc' = "rejected" => ~Feasible')
<1>1. /\ job' = job /\ level' = level /\ pc' = pc /\ pos' = pos
      /\ prog' = prog /\ (ByteMode' <=> ByteMode)
  BY DEF vars, prog, ByteMode
<1>2. Inferred' = Inferred
  BY <1>1 DEF Inferred
<1>3. /\ \A lv : LevelTable(lv)' <=> LevelTable(lv)
      /\ \A i : LevelRule(level, i)' <=> LevelRule(level, i)
      /\ DefinedBefore(Inferred + 1)' = DefinedBefore(Inferred + 1)
  BY <1>1, <1>2 DEF LevelTable, LevelRule, DefinedBefore
<1>4. LevelsForced'
  BY <1>1, <1>2, <1>3 DEF FeasibleInv, LevelsForced, Planning
<1>5. QED
  BY <1>1, <1>4, FeasibleKept DEF FeasibleInv

(* Level inference follows the only table there can be, and every refusal   *)
(* is of a request no table makes feasible.                                 *)
THEOREM FeasibleInductive == Spec => []FeasibleInv
<1>1. Init => LevelsForced /\ (pc = "rejected" => ~Feasible)
  BY InitForces
<1>2. PlanInv' /\ FeasibleInv /\ [Next]_vars => FeasibleInv'
  <2> SUFFICES ASSUME PlanInv', FeasibleInv, [Next]_vars
               PROVE  LevelsForced' /\ (pc' = "rejected" => ~Feasible')
    BY DEF FeasibleInv
  <2>1. IInv'
    BY DEF PlanInv
  <2>2. CASE CheckProgram
    BY <2>1, <2>2, CheckProgramForces
  <2>3. CASE InferLevel
    BY <2>1, <2>3, InferLevelForcesOrRefuses
  <2>4. CASE LevelsInferred \/ BeginInstruction \/ MakeRoom \/ Place \/ FreeDead \/ Finish
    BY <2>4, PlanningForces
  <2>5. CASE UNCHANGED vars
    BY <2>5, StutterForces
  <2>6. QED
    BY <2>2, <2>3, <2>4, <2>5 DEF Next
<1>3. PlanInv /\ LevelsForced /\ (pc = "rejected" => ~Feasible) => FeasibleInv
  BY DEF FeasibleInv
<1>4. QED
  BY <1>1, <1>2, <1>3, PlanInductive, PTL DEF Spec

(* analyze hands out a plan exactly when its documentation says it does     *)
(* (FhnMovementPlan.h:69-73): a refused request could not be planned by      *)
(* anyone, and no feasible request is refused.                              *)
THEOREM RefusalExact == Spec => []RejectsExactlyInfeasible
<1>1. FeasibleInv => RejectsExactlyInfeasible
  BY AcceptedIsFeasible DEF FeasibleInv, RejectsExactlyInfeasible, Answered
<1>2. QED
  BY <1>1, FeasibleInductive, PTL
=============================================================================
