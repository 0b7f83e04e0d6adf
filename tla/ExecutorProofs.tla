--------------------------- MODULE ExecutorProofs ---------------------------
(***************************************************************************)
(* Executing a plan on the program it was made for, for every request and   *)
(* every call: kernels find their operands, buffers are freed once, a       *)
(* failure gives back what the execution made, the device stays within its  *)
(* budget, and the whole is a run of the program (ProgramRun).              *)
(***************************************************************************)
EXTENDS PlanExecutor, MovementPlannerProofs

-----------------------------------------------------------------------------
(* A finite set of numbers has a greatest one: the table has a slot for     *)
(* every id.                                                               *)
LEMMA FiniteIsBounded ==
  ASSUME NEW S \in SUBSET Nat, IsFiniteSet(S)
  PROVE  \E n \in Nat : \A x \in S : x <= n
<1> DEFINE Good == {k \in Nat : \A T \in SUBSET Nat :
                      IsFiniteSet(T) /\ Cardinality(T) = k =>
                        \E n \in Nat : \A x \in T : x <= n}
<1>1. 0 \in Good
  <2>1. ASSUME NEW T \in SUBSET Nat, IsFiniteSet(T), Cardinality(T) = 0
        PROVE  \E n \in Nat : \A x \in T : x <= n
    <3>1. T = {}
      BY <2>1, FS_EmptySet
    <3>2. QED
      BY <3>1, 0 \in Nat
  <2>2. QED
    BY <2>1
<1>2. ASSUME NEW k \in Nat, k \in Good
      PROVE  k + 1 \in Good
  <2>1. ASSUME NEW T \in SUBSET Nat, IsFiniteSet(T), Cardinality(T) = k + 1
        PROVE  \E n \in Nat : \A x \in T : x <= n
    <3>1. PICK e : e \in T
      BY <2>1, FS_EmptySet
    <3>2. IsFiniteSet(T \ {e}) /\ Cardinality(T \ {e}) = k
      <4>1. IsFiniteSet(T \ {e}) /\ Cardinality(T \ {e}) = Cardinality(T) - 1
        BY <2>1, <3>1, FS_RemoveElement
      <4>2. (k + 1) - 1 = k
        OBVIOUS
      <4>3. QED
        BY <2>1, <4>1, <4>2
    <3>3. PICK n \in Nat : \A x \in T \ {e} : x <= n
      BY <1>2, <3>2
    <3>4. PICK m \in Nat : n <= m /\ e <= m
      <4>1. e \in Nat
        BY <3>1
      <4>2. n <= n + e /\ e <= n + e /\ n + e \in Nat
        BY <4>1
      <4>3. QED
        BY <4>2
    <3>5. \A x \in T : x <= m
      BY <3>1, <3>3, <3>4
    <3>6. QED
      BY <3>5
  <2>2. k + 1 \in Nat
    OBVIOUS
  <2>3. QED
    BY <2>1, <2>2, Zenon
<1>3. Nat \subseteq Good
  <2> HIDE DEF Good
  <2>1. QED
    BY <1>1, <1>2, InductionOnSet
<1>4. Cardinality(S) \in Good
  BY <1>3, FS_CardinalityType
<1>5. QED
  BY <1>4

LEMMA MaxIsGreatest ==
  ASSUME NEW S \in SUBSET Nat, IsFiniteSet(S), S # {}
  PROVE  Max(S) \in S /\ \A y \in S : y <= Max(S)
<1>1. PICK n \in Nat : \A x \in S : x <= n
  BY FiniteIsBounded
<1>2. S \subseteq 0..n
  BY <1>1
<1>3. \E x \in S : \A y \in S : x >= y
  BY <1>2, GreatestExists
<1>4. Max(S) \in S /\ \A y \in S : Max(S) >= y
  BY <1>3 DEF Max
<1>5. QED
  BY <1>4

LEMMA SlotsCoverIds ==
  ASSUME run \in Program
  PROVE  Ids(run) \subseteq Slots /\ 0 \in Slots /\ Slots \subseteq Nat
<1> DEFINE S == {0} \cup Ids(run)
<1>1. S \in SUBSET Nat
  BY ProgramTypes
<1>2. IsFiniteSet(S)
  BY IdsFinite, FS_Singleton, FS_Union
<1>3. Max(S) \in Nat /\ \A y \in S : y <= Max(S)
  <2> HIDE DEF S
  <2>1. S # {}
    BY DEF S
  <2>2. QED
    BY <1>1, <1>2, <2>1, MaxIsGreatest
<1>4. \A y \in S : y \in 0..Max(S)
  BY <1>1, <1>3
<1>5. Slots = 0..Max(S)
  BY DEF Slots
<1>6. 0 \in S /\ Ids(run) \subseteq S
  OBVIOUS
<1>7. QED
  <2> HIDE DEF S
  <2>1. QED
    BY <1>3, <1>4, <1>5, <1>6

-----------------------------------------------------------------------------
(* What the executor relies on in an accepted plan.                         *)

LEMMA Frees ==
  ASSUME PlanInv, pc = "accepted", NEW i \in Positions(prog),
         NEW id \in plan[i].free
  PROVE  /\ id \in DefinedBefore(i + 1) /\ id \in Ids(prog)
         /\ id \notin job.pinned
         /\ \A u \in UsesOf(prog, id) : u <= i
         /\ \A j \in Positions(prog) : id \in plan[j].free => j = i
<1>1. /\ TypeOK /\ prog \in Program /\ WellFormed(prog) /\ Size(prog) \in Nat
      /\ i \in 1..Size(prog)
      /\ plan[i].free = Expired(i) \cup Epilogue(i)
  BY AcceptedFacts DEF Settled, Positions
<1>2. Inputs(prog) \subseteq Ids(prog) /\ Inputs(prog) \subseteq DefinedBefore(i + 1)
  BY DEF Ids, DefinedBefore
<1>3. /\ WorkingSet(prog, i) \subseteq Ids(prog)
      /\ WorkingSet(prog, i) \subseteq DefinedBefore(i + 1)
  <2>1. /\ Operands(prog, i) \subseteq
             Inputs(prog) \cup {Result(prog, j) : j \in 1..(i - 1)}
        /\ WorkingSet(prog, i) \subseteq Ids(prog)
    BY <1>1, WellFormedFacts
  <2>2. 1..(i - 1) \subseteq 1..((i + 1) - 1) /\ i \in 1..((i + 1) - 1)
    BY <1>1
  <2>3. QED
    BY <2>1, <2>2 DEF WorkingSet, DefinedBefore
<1>4. id \in Ids(prog) /\ id \in DefinedBefore(i + 1) /\ id \notin job.pinned
  BY <1>1, <1>2, <1>3 DEF Expired, Epilogue, UnusedInputs
<1> DEFINE frees == {j \in Positions(prog) : id \in plan[j].free}
<1>5. i \in frees
  OBVIOUS
<1>6. Cardinality(frees) = 1 /\ \A j \in frees : \A u \in UsesOf(prog, id) : u <= j
  BY <1>4, <1>5, AcceptedLifetimes DEF LifetimesComplete
<1>7. \A j \in frees : j = i
  <2>1. IsFiniteSet(frees)
    <3>1. frees \subseteq 1..Size(prog) /\ IsFiniteSet(1..Size(prog))
      BY <1>1, FiniteInterval DEF Positions
    <3>2. QED
      BY <3>1, FS_Subset
  <2> HIDE DEF frees
  <2>2. \E x : frees = {x}
    BY <1>6, <2>1, FS_Singleton
  <2>3. QED
    BY <1>5, <2>2
<1>8. QED
  BY <1>4, <1>5, <1>6, <1>7

LEMMA PlanFacts ==
  ASSUME PlanInv, pc = "accepted", NEW i \in Positions(prog)
  PROVE  /\ plan[i].alloc = {Result(prog, i)}
         /\ Range(plan[i].evict) \subseteq DeviceAfter[i - 1] \ WorkingSet(prog, i)
         /\ plan[i].prefetch =
              Operands(prog, i) \ (DeviceAfter[i - 1] \ Range(plan[i].evict))
         /\ DeviceAfter[i - 1] \subseteq DefinedBefore(i)
         /\ DeviceAfter[i] = DeviceDuring(DeviceAfter[i - 1], plan[i]) \ plan[i].free
         /\ Operands(prog, i) \subseteq DefinedBefore(i) \ Gone(i)
         /\ Result(prog, i) \notin DefinedBefore(i) \cup Gone(i)
         /\ DefinedBefore(i + 1) = DefinedBefore(i) \cup {Result(prog, i)}
         /\ Gone(i + 1) = Gone(i) \cup plan[i].free
         /\ plan[i].free \cap Gone(i) = {}
         /\ plan[i].free \subseteq Ids(prog) \ job.pinned
         /\ DefinedBefore(i + 1) \subseteq Ids(prog)
<1>1. /\ TypeOK /\ prog \in Program /\ WellFormed(prog) /\ Size(prog) \in Nat
      /\ i \in 1..Size(prog) /\ Settled(i)
  BY AcceptedFacts DEF Positions
<1>2. /\ plan[i].alloc = {Result(prog, i)}
      /\ Range(plan[i].evict) \subseteq DeviceAfter[i - 1] \ WorkingSet(prog, i)
      /\ plan[i].prefetch =
           Operands(prog, i) \ (DeviceAfter[i - 1] \ Range(plan[i].evict))
      /\ DeviceAfter[i - 1] \subseteq DefinedBefore(i)
  BY <1>1 DEF Settled, FetchesMissing, EvictsSpares
<1>3. DeviceAfter[i] = DeviceDuring(DeviceAfter[i - 1], plan[i]) \ plan[i].free
  BY <1>1, DeviceAfterUnfolds
<1>4. (i + 1) - 1 = i /\ 1..i = 1..(i - 1) \cup {i} /\ i \notin 1..(i - 1)
      /\ 1..i \subseteq Positions(prog)
  BY <1>1 DEF Positions
<1>5. /\ DefinedBefore(i + 1) = DefinedBefore(i) \cup {Result(prog, i)}
      /\ Gone(i + 1) = Gone(i) \cup plan[i].free
      /\ DefinedBefore(i + 1) \subseteq Ids(prog)
  BY <1>4 DEF DefinedBefore, Gone, Ids
<1>6. /\ Operands(prog, i) \subseteq DefinedBefore(i)
      /\ Result(prog, i) \notin DefinedBefore(i)
  BY <1>1, WellFormedFacts DEF DefinedBefore
<1>7. ASSUME NEW id \in Gone(i)
      PROVE  \E j \in Positions(prog) : j < i /\ id \in plan[j].free
  BY <1>1, <1>7 DEF Gone, Positions
<1>8. ASSUME NEW id \in Gone(i)
      PROVE  id \notin Operands(prog, i) /\ id # Result(prog, i) /\ id \notin plan[i].free
  <2>1. PICK j \in Positions(prog) : j < i /\ id \in plan[j].free
    BY <1>7
  <2>2. /\ id \in DefinedBefore(j + 1)
        /\ \A u \in UsesOf(prog, id) : u <= j
        /\ i \in Positions(prog) => (id \in plan[i].free => i = j)
    BY <2>1, Frees
  <2>3. id \notin Operands(prog, i)
    BY <1>1, <2>1, <2>2 DEF UsesOf, Positions
  <2>4. DefinedBefore(j + 1) \subseteq DefinedBefore(i)
    <3>1. 1..((j + 1) - 1) \subseteq 1..(i - 1)
      BY <1>1, <2>1 DEF Positions
    <3>2. QED
      BY <3>1 DEF DefinedBefore
  <2>5. QED
    BY <1>6, <2>1, <2>2, <2>3, <2>4 DEF Positions
<1>9. plan[i].free \subseteq Ids(prog) \ job.pinned
  BY Frees
<1>10. QED
  BY <1>2, <1>3, <1>5, <1>6, <1>8, <1>9

(* At the start nothing is on the device; at the end only what the caller   *)
(* pinned has not been given up.                                            *)
LEMMA PlanEnds ==
  ASSUME PlanInv, pc = "accepted"
  PROVE  /\ DefinedBefore(1) = Inputs(prog) /\ Gone(1) = {} /\ DeviceAfter[0] = {}
         /\ DefinedBefore(Size(prog) + 1) = Ids(prog)
         /\ Size(prog) > 0 =>
              DefinedBefore(Size(prog) + 1) \ Gone(Size(prog) + 1) = Ids(prog) \cap job.pinned
<1>1. /\ prog \in Program /\ Size(prog) \in Nat
  BY AcceptedFacts
<1>2. DefinedBefore(1) = Inputs(prog) /\ Gone(1) = {}
  BY DEF DefinedBefore, Gone
<1>3. DeviceAfter[0] = {}
  BY <1>1, DeviceAfterUnfolds
<1>4. (Size(prog) + 1) - 1 = Size(prog)
  BY <1>1
<1>5. DefinedBefore(Size(prog) + 1) = Ids(prog)
  BY <1>4 DEF DefinedBefore, Ids, Positions
<1>6. Gone(Size(prog) + 1) = UNION {plan[j].free : j \in Positions(prog)}
  BY <1>4 DEF Gone, Positions
<1>7. ASSUME NEW id \in Ids(prog), Size(prog) > 0
      PROVE  id \in Gone(Size(prog) + 1) <=> id \notin job.pinned
  <2> DEFINE frees == {j \in Positions(prog) : id \in plan[j].free}
  <2>1. id \in Gone(Size(prog) + 1) <=> frees # {}
    BY <1>6
  <2>2. IF id \in job.pinned THEN frees = {} ELSE Cardinality(frees) = 1
    BY <1>1, <1>7, AcceptedLifetimes DEF LifetimesComplete
  <2> HIDE DEF frees
  <2>3. frees = {} => Cardinality(frees) = 0
    BY FS_EmptySet
  <2>4. QED
    BY <2>1, <2>2, <2>3
<1>8. QED
  BY <1>2, <1>3, <1>5, <1>7

(* What the budget allows while an instruction runs.                        *)
LEMMA PlanBudget ==
  ASSUME PlanInv, pc = "accepted", NEW i \in Positions(prog), job.budget > 0
  PROVE  /\ DeviceDuring(DeviceAfter[i - 1], plan[i]) \subseteq DefinedBefore(i + 1)
         /\ \A S : S \subseteq DeviceDuring(DeviceAfter[i - 1], plan[i])
                     => Units(S) <= job.budget
<1> DEFINE during == DeviceDuring(DeviceAfter[i - 1], plan[i])
<1>1. TypeOK /\ ChecksHold /\ Planning /\ Settled(i) /\ job.budget \in Nat
  BY AcceptedFacts, JobTypes DEF PlanInv, IInv, Planning
<1>2. during \subseteq DefinedBefore(i + 1) /\ during \subseteq Ids(prog)
  BY PlanFacts DEF DeviceDuring
<1>3. Units(during) <= job.budget
  BY <1>1 DEF Settled, FetchesMissing
<1>4. ASSUME NEW S, S \subseteq during
      PROVE  Units(S) <= job.budget
  <2> HIDE DEF during
  <2>1. Units(S) <= Units(during) /\ Units(S) \in Nat /\ Units(during) \in Nat
    BY <1>1, <1>2, <1>4, UnitsFacts
  <2>2. QED
    BY <1>1, <1>3, <2>1
<1>5. QED
  BY <1>2, <1>4

-----------------------------------------------------------------------------
(* The heap and its buffers.                                                *)

LEMMA HeapWritten ==
  ASSUME NEW hp \in Seq(Buffer), NEW b \in DOMAIN hp, NEW new \in Buffer,
         NEW hq, hq = [hp EXCEPT ![b] = new]
  PROVE  /\ hq \in Seq(Buffer) /\ DOMAIN hq = DOMAIN hp /\ Len(hq) = Len(hp)
         /\ hq[b] = new
         /\ \A h \in DOMAIN hp : h # b => hq[h] = hp[h]
BY DEF Buffer

LEMMA BufferWritten ==
  ASSUME NEW buf \in Buffer, NEW place \in {"host", "device"}, NEW value \in Nat
  PROVE  /\ [buf EXCEPT !.at = place] \in Buffer
         /\ [buf EXCEPT !.at = place].at = place
         /\ [buf EXCEPT !.at = place].of = buf.of
         /\ [buf EXCEPT !.at = place].live = buf.live
         /\ [buf EXCEPT !.at = place].holds = buf.holds
         /\ [buf EXCEPT !.live = FALSE] \in Buffer
         /\ [buf EXCEPT !.live = FALSE].live = FALSE
         /\ [buf EXCEPT !.live = FALSE].of = buf.of
         /\ [buf EXCEPT !.live = FALSE].at = buf.at
         /\ [buf EXCEPT !.live = FALSE].holds = buf.holds
         /\ [buf EXCEPT !.holds = value] \in Buffer
         /\ [buf EXCEPT !.holds = value].holds = value
         /\ [buf EXCEPT !.holds = value].of = buf.of
         /\ [buf EXCEPT !.holds = value].at = buf.at
         /\ [buf EXCEPT !.holds = value].live = buf.live
BY DEF Buffer

(* While the executor runs, the plan and the program stand still.           *)
LEMMA PlanStands ==
  ASSUME UNCHANGED vars, call' = call
  PROVE  /\ prog' = prog /\ run' = run /\ Slots' = Slots
         /\ \A i : DefinedBefore(i)' = DefinedBefore(i)
         /\ \A i : Gone(i)' = Gone(i)
         /\ DeviceAfter' = DeviceAfter
         /\ InputTable' = InputTable /\ InputHeap' = InputHeap
         /\ \A S : Units(S)' = Units(S)
         /\ \A h : PlanMade(h)' = PlanMade(h)
<1>1. prog' = prog /\ run' = run /\ (ByteMode' <=> ByteMode)
  BY DEF vars, prog, run, ByteMode
<1>2. Slots' = Slots
  BY <1>1 DEF Slots
<1>3. DeviceAfter' = DeviceAfter
  BY <1>1, DeviceAfterIsReplayed DEF vars
<1>4. InputTable' = InputTable /\ InputHeap' = InputHeap
  BY <1>1, <1>2 DEF InputTable, InputHeap
<1>5. \A S : Units(S)' = Units(S)
  BY <1>1 DEF vars, Units, cost
<1>6. QED
  BY <1>1, <1>2, <1>3, <1>4, <1>5 DEF vars, DefinedBefore, Gone, PlanMade

LEMMA RunFacts ==
  ASSUME PlanInv, XInv
  PROVE  /\ run = prog /\ prog \in Program /\ Size(prog) \in Nat
         /\ Ids(prog) \subseteq Slots /\ 0 \in Slots /\ Slots \subseteq Nat
         /\ Inputs(prog) \subseteq Ids(prog)
         /\ Handles = 1..Len(heap) /\ Len(heap) \in Nat
         /\ \A h \in Handles : heap[h] \in Buffer
         /\ heap \in Seq(Buffer)
         /\ buffers \in [Slots -> Handles \cup {Null}]
         /\ 0 \notin Handles /\ Null = 0
<1>1. run = prog /\ prog \in Program /\ Size(prog) \in Nat
  BY JobTypes, ProgramTypes DEF PlanInv, IInv, XInv
<1>2. Ids(prog) \subseteq Slots /\ 0 \in Slots /\ Slots \subseteq Nat
  BY <1>1, SlotsCoverIds
<1>3. heap \in Seq(Buffer) /\ buffers \in [Slots -> Handles \cup {Null}]
  BY DEF XInv, XTypeOK
<1>4. /\ Handles = 1..Len(heap) /\ Len(heap) \in Nat
      /\ \A h \in Handles : heap[h] \in Buffer
      /\ 0 \notin Handles /\ Null = 0
  BY <1>3 DEF Handles, Null
<1>5. QED
  BY <1>1, <1>2, <1>3, <1>4 DEF Ids

(* From the first instruction to the return.                                *)
LEMMA StartedFacts ==
  ASSUME PlanInv, XInv, Started
  PROVE  /\ pc = "accepted" /\ inst \in Nat
         /\ Alive \subseteq Ids(prog) /\ Placed \subseteq Alive
         /\ \A id \in Alive : /\ id \in Slots /\ buffers[id] \in Handles
                              /\ heap[buffers[id]].live /\ heap[buffers[id]].of = id
         /\ \A h \in Handles : heap[h].live =>
              /\ heap[h].of \in Alive /\ buffers[heap[h].of] = h
         /\ \A a, b \in Alive : buffers[a] = buffers[b] => a = b
         /\ \A id \in Slots \ Alive : buffers[id] = Null
         /\ owned = Alive \ Inputs(prog)
<1>1. /\ pc = "accepted" /\ TableMatchesHeap /\ BuffersFollowPlan
  BY DEF XInv, Started, Executing
<1>2. inst \in Nat /\ Alive \subseteq Ids(prog)
  <2>1. CASE Executing
    <3>1. inst \in Positions(prog) /\ inst \in Nat
      BY <2>1 DEF XInv, InStep, Positions
    <3>2. QED
      BY <1>1, <2>1, <3>1, PlanFacts DEF Alive, Executing
  <2>2. CASE xpc = "ok"
    <3>1. inst = Size(prog) + 1 /\ inst \in Nat
      BY <2>2, RunFacts DEF XInv, InStep
    <3>2. QED
      BY <1>1, <2>2, <3>1, PlanEnds DEF Alive
  <2>3. QED
    BY <2>1, <2>2 DEF Started
<1>3. Alive \subseteq Slots
  BY <1>2, RunFacts
<1>4. \A id \in Alive : /\ id \in Slots /\ buffers[id] \in Handles
                        /\ heap[buffers[id]].live /\ heap[buffers[id]].of = id
  BY <1>1, <1>3, RunFacts DEF TableMatchesHeap, BuffersFollowPlan
<1>5. \A h \in Handles : heap[h].live =>
        /\ heap[h].of \in Alive /\ buffers[heap[h].of] = h
  BY <1>1, RunFacts DEF TableMatchesHeap, BuffersFollowPlan
<1>6. QED
  BY <1>1, <1>2, <1>4, <1>5, RunFacts DEF BuffersFollowPlan

(* In the middle of an instruction.                                         *)
LEMMA ExecutingFacts ==
  ASSUME PlanInv, XInv, Executing
  PROVE  /\ Started /\ pc = "accepted" /\ inst \in Positions(prog) /\ inst \in Nat
         /\ Alive \subseteq DefinedBefore(inst + 1) /\ Alive \subseteq Ids(prog)
         /\ Placed \subseteq Alive
         /\ \A id \in Alive : /\ id \in Slots /\ buffers[id] \in Handles
                              /\ heap[buffers[id]].live /\ heap[buffers[id]].of = id
         /\ \A a, b \in Alive : buffers[a] = buffers[b] => a = b
<1>1. Started /\ inst \in Positions(prog) /\ pc = "accepted"
  BY DEF XInv, InStep, Positions, Executing, Started
<1>2. Alive \subseteq DefinedBefore(inst + 1)
  BY <1>1, PlanFacts DEF Alive, Executing
<1>3. QED
  BY <1>1, <1>2, StartedFacts

-----------------------------------------------------------------------------
(* What the invariant says of the stated properties.                        *)

LEMMA ReplayFits ==
  ASSUME PlanInv, pc = "accepted", job.budget > 0, NEW i \in 0..Size(prog),
         NEW S, S \subseteq DeviceAfter[i]
  PROVE  Units(S) <= job.budget
<1>1. Size(prog) \in Nat /\ job.budget \in Nat
  BY AcceptedFacts, JobTypes
<1>2. CASE i = 0
  <2>1. S = {}
    BY <1>2, PlanEnds
  <2>2. Units(S) = 0
    BY <2>1, WeightEmpty DEF Units
  <2>3. QED
    BY <1>1, <2>2
<1>3. CASE i # 0
  <2>1. i \in Positions(prog)
    BY <1>1, <1>3 DEF Positions
  <2>2. S \subseteq DeviceDuring(DeviceAfter[i - 1], plan[i])
    BY <2>1, PlanFacts
  <2>3. QED
    BY <2>1, <2>2, PlanBudget
<1>4. QED
  BY <1>2, <1>3

LEMMA BudgetHolds ==
  ASSUME PlanInv, XInv
  PROVE  DeviceWithinBudget
<1> SUFFICES ASSUME xpc # "idle", call.movement, job.budget > 0
             PROVE  Units(OnDevice) <= job.budget
  BY DEF DeviceWithinBudget
<1>1. pc = "accepted" /\ Size(prog) \in Nat /\ run = prog
  BY RunFacts DEF XInv
<1>2. CASE xpc = "failed"
  BY <1>2 DEF XInv, DeviceWithinBudget
<1>3. CASE xpc = "refused"
  <2>1. heap = InputHeap
    BY <1>3 DEF XInv, Untouched
  <2>2. OnDevice = {}
    BY <2>1 DEF OnDevice, Handles, InputHeap
  <2>3. {} \subseteq DeviceAfter[0] /\ 0 \in 0..Size(prog)
    BY <1>1
  <2>4. QED
    BY <1>1, <2>2, <2>3, ReplayFits
<1>4. CASE Started
  <2>1. OnDevice \subseteq Placed
    <3>1. /\ \A h \in Handles : heap[h].live =>
               heap[h].of \in Slots /\ buffers[heap[h].of] = h
          /\ \A id \in Slots : buffers[id] # Null <=> id \in Alive
          /\ \A id \in Alive : heap[buffers[id]].at = "device" <=> id \in Placed
      BY <1>4 DEF XInv, TableMatchesHeap, BuffersFollowPlan
    <3>2. ASSUME NEW h \in Handles, heap[h].live, heap[h].at = "device"
          PROVE  heap[h].of \in Placed
      BY <3>1, <3>2, RunFacts
    <3>3. QED
      BY <3>2 DEF OnDevice
  <2>2. CASE xpc = "ok" \/ xpc = "evict"
    <3>1. (inst - 1) \in 0..Size(prog)
      BY <1>1, <2>2 DEF XInv, InStep, Executing
    <3>2. Placed \subseteq DeviceAfter[inst - 1]
      BY <2>2 DEF Placed
    <3>3. QED
      BY <1>1, <2>1, <3>1, <3>2, ReplayFits
  <2>3. CASE xpc \in {"alloc", "prefetch", "dispatch", "free"}
    <3>1. inst \in Positions(prog)
      BY <2>3 DEF XInv, InStep, Executing, Positions
    <3>2. Placed \subseteq DeviceDuring(DeviceAfter[inst - 1], plan[inst])
      BY <2>3 DEF Placed, DeviceDuring, XInv, InStep
    <3>3. QED
      BY <1>1, <2>1, <3>1, <3>2, PlanBudget
  <2>4. QED
    BY <1>4, <2>2, <2>3 DEF Started, Executing
<1>5. QED
  BY <1>2, <1>3, <1>4 DEF XInv, XTypeOK, Started, Executing

LEMMA CallsHold ==
  ASSUME PlanInv, XInv
  PROVE  CallsGetTheirBuffers
<1>1. ASSUME xpc = "dispatch"
      PROVE  OperandsInPlace
  <2> DEFINE r == Result(prog, inst)
             act == plan[inst]
  <2>1. Executing /\ Started
    BY <1>1 DEF Executing, Started
  <2>2. inst \in Positions(prog) /\ pc = "accepted" /\ run = prog
    BY <2>1, ExecutingFacts, RunFacts
  <2>3. Alive = (DefinedBefore(inst) \ Gone(inst)) \cup act.alloc
    BY <1>1 DEF Alive
  <2>4. Placed = DeviceDuring(DeviceAfter[inst - 1], act)
    BY <1>1 DEF Placed
  <2>5. r \in Placed /\ Operands(prog, inst) \subseteq Placed
    BY <2>2, <2>4, PlanFacts DEF DeviceDuring
  <2>6. Placed \subseteq Alive
    BY <2>1, ExecutingFacts
  <2>7. ASSUME NEW id \in Placed
        PROVE  Reachable(id)
    <3>1. heap[buffers[id]].at = "device"
      BY <2>1, <2>6, <2>7 DEF XInv, BuffersFollowPlan
    <3>2. QED
      BY <2>1, <2>6, <2>7, <3>1, ExecutingFacts, RunFacts DEF Reachable
  <2>8. ASSUME NEW a \in Operands(prog, inst)
        PROVE  Holds(a, a) /\ buffers[a] # buffers[r]
    <3>1. a \in DefinedBefore(inst) /\ a # r /\ a \in Alive /\ r \in Alive
      BY <2>2, <2>5, <2>6, PlanFacts
    <3>2. Computed = DefinedBefore(inst)
      BY <1>1 DEF Computed
    <3>3. heap[buffers[a]].holds = a
      BY <2>1, <3>1, <3>2 DEF XInv, BuffersFollowPlan
    <3>4. buffers[a] # buffers[r]
      BY <2>1, <3>1, ExecutingFacts
    <3>5. QED
      BY <2>5, <2>7, <3>3, <3>4 DEF Holds
  <2>9. QED
    BY <2>2, <2>5, <2>7, <2>8 DEF OperandsInPlace
<1>2. ASSUME NEW id \in todo, xpc \in {"evict", "prefetch", "free"}
      PROVE  buffers[id] # Null /\ heap[buffers[id]].live
  <2>1. Executing
    BY <1>2 DEF Executing
  <2>2. inst \in Positions(prog) /\ pc = "accepted"
    BY <2>1, ExecutingFacts
  <2>3. id \in Alive
    <3>1. CASE xpc = "evict"
      <4>1. id \in Placed
        BY <1>2, <2>2, <3>1, PlanFacts DEF XInv, InStep, Placed
      <4>2. QED
        BY <2>1, <4>1, ExecutingFacts
    <3>2. CASE xpc = "prefetch"
      BY <1>2, <2>2, <3>2, PlanFacts DEF XInv, InStep, Alive
    <3>3. CASE xpc = "free"
      <4>1. id \in plan[inst].free
        BY <1>2, <3>3 DEF XInv, InStep
      <4>2. id \in DefinedBefore(inst + 1) /\ id \notin Gone(inst)
        BY <2>2, <4>1, Frees, PlanFacts
      <4>3. QED
        BY <1>2, <2>2, <3>3, <4>2, PlanFacts DEF Alive
    <3>4. QED
      BY <1>2, <3>1, <3>2, <3>3
  <2>4. QED
    BY <2>1, <2>3, ExecutingFacts, RunFacts
<1>3. ASSUME NEW id \in todo, xpc = "alloc"
      PROVE  buffers[id] = Null
  <2>1. Executing /\ Started
    BY <1>3 DEF Executing, Started
  <2>2. inst \in Positions(prog) /\ pc = "accepted"
    BY <2>1, ExecutingFacts
  <2>3. id = Result(prog, inst)
    BY <1>3, <2>2, PlanFacts DEF XInv, InStep
  <2>4. id \notin Alive
    BY <1>3, <2>2, <2>3, PlanFacts DEF Alive
  <2>5. id \in Slots
    BY <2>2, <2>3, RunFacts DEF Ids
  <2>6. QED
    BY <2>1, <2>4, <2>5 DEF XInv, BuffersFollowPlan
<1>4. QED
  BY <1>1, <1>2, <1>3 DEF CallsGetTheirBuffers

LEMMA OwnedHolds ==
  ASSUME PlanInv, XInv
  PROVE  OwnedIsExact
<1>1. CASE xpc \in {"idle", "refused"}
  <2>1. heap = InputHeap /\ owned = {} /\ run = prog
    BY <1>1 DEF XInv, Untouched
  <2>2. \A h \in Handles : ~PlanMade(h)
    <3>1. prog.inputs \in Seq(Nat)
      BY RunFacts DEF Program
    <3>2. Handles = 1..Len(run.inputs)
      BY <2>1, <3>1 DEF Handles, InputHeap
    <3>3. QED
      BY <2>1, <3>1, <3>2 DEF PlanMade
  <2>3. QED
    BY <2>1, <2>2 DEF OwnedIsExact
<1>2. CASE Started
  <2>1. \A id \in Alive : PlanMade(buffers[id]) <=> id \in owned
    BY <1>2, StartedFacts DEF XInv, BuffersFollowPlan
  <2>2. \A id \in owned : /\ buffers[id] \in Handles /\ PlanMade(buffers[id])
                          /\ heap[buffers[id]].live /\ heap[buffers[id]].of = id
    BY <1>2, <2>1, StartedFacts
  <2>3. ASSUME NEW h \in Handles, PlanMade(h), heap[h].live
        PROVE  heap[h].of \in owned /\ buffers[heap[h].of] = h
    BY <1>2, <2>1, <2>3, StartedFacts
  <2>4. QED
    BY <2>2, <2>3 DEF OwnedIsExact
<1>3. QED
  BY <1>1, <1>2 DEF XInv, XTypeOK, OwnedIsExact, Started, Executing

LEMMA OutcomeHolds ==
  ASSUME PlanInv, XInv
  PROVE  OutcomeContract
<1>1. CASE xpc = "failed"
  BY <1>1 DEF XInv
<1>2. CASE xpc = "refused"
  <2>1. buffers = InputTable /\ heap = InputHeap /\ owned = {} /\ run = prog
        /\ pc = "accepted"
    BY <1>2 DEF XInv, Untouched
  <2>2. prog.inputs \in Seq(Nat) /\ Handles = DOMAIN prog.inputs /\ WellFormed(prog)
    <3>1. prog.inputs \in Seq(Nat)
      BY RunFacts DEF Program
    <3>2. QED
      BY <2>1, <3>1, AcceptedFacts DEF Handles, InputHeap
  <2>3. \A h \in Handles : ~PlanMade(h)
    BY <2>1, <2>2 DEF PlanMade
  <2>4. ASSUME NEW id \in Inputs(prog)
        PROVE  KeepsItsValue(id)
    <3>1. PICK k \in DOMAIN prog.inputs : prog.inputs[k] = id
      BY DEF Inputs
    <3>2. id \in Slots /\ Slots = DOMAIN buffers
      BY RunFacts
    <3>3. /\ buffers[id] \in DOMAIN prog.inputs /\ prog.inputs[buffers[id]] = id
      BY <2>1, <3>1, <3>2 DEF InputTable
    <3>4. heap[buffers[id]].live /\ heap[buffers[id]].holds = id
      BY <2>1, <3>3 DEF InputHeap
    <3>5. QED
      BY <2>2, <3>3, <3>4, RunFacts DEF KeepsItsValue
  <2>5. ASSUME NEW id \in Slots, buffers[id] # Null
        PROVE  heap[buffers[id]].live
    <3>1. id \in Inputs(prog)
      BY <2>1, <2>5 DEF InputTable
    <3>2. QED
      BY <2>4, <3>1 DEF KeepsItsValue
  <2>6. QED
    BY <1>2, <2>1, <2>3, <2>4, <2>5 DEF OutcomeContract
<1>3. CASE xpc = "ok"
  <2>1. Started /\ run = prog /\ inst = Size(prog) + 1 /\ pc = "accepted"
    BY <1>3 DEF XInv, Started, InStep
  <2>2. Alive = DefinedBefore(Size(prog) + 1) \ Gone(Size(prog) + 1)
    BY <1>3, <2>1 DEF Alive
  <2>3. {heap[h].of : h \in {g \in Handles : heap[g].live}} = Alive
    BY <2>1, StartedFacts
  <2>4. Size(prog) > 0 => Alive = Ids(prog) \cap job.pinned
    BY <2>1, <2>2, PlanEnds
  <2>5. ASSUME NEW id \in Alive
        PROVE  KeepsItsValue(id)
    <3>1. id \in Computed
      BY <1>3, <2>1, <2>2, <2>5 DEF Computed
    <3>2. heap[buffers[id]].holds = id
      BY <2>1, <2>5, <3>1 DEF XInv, BuffersFollowPlan
    <3>3. QED
      BY <2>1, <2>5, <3>2, StartedFacts, RunFacts DEF KeepsItsValue
  <2>6. QED
    BY <1>3, <2>1, <2>3, <2>4, <2>5 DEF OutcomeContract
<1>4. QED
  BY <1>1, <1>2, <1>3 DEF OutcomeContract

-----------------------------------------------------------------------------
(* The initial state, and planning.                                         *)

LEMMA InputsTyped ==
  ASSUME run \in Program
  PROVE  /\ InputHeap \in Seq(Buffer) /\ DOMAIN InputHeap = DOMAIN run.inputs
         /\ InputTable \in [Slots -> DOMAIN run.inputs \cup {Null}]
<1>1. run.inputs \in Seq(Nat)
  BY DEF Program
<1>2. /\ DOMAIN InputHeap = DOMAIN run.inputs
      /\ \A k \in DOMAIN run.inputs : InputHeap[k] \in Buffer
  BY <1>1 DEF InputHeap, Buffer
<1>3. InputHeap \in [1..Len(run.inputs) -> Buffer]
  <2>1. InputHeap = [k \in DOMAIN InputHeap |-> InputHeap[k]]
    BY DEF InputHeap
  <2>2. DOMAIN InputHeap = 1..Len(run.inputs)
    BY <1>1, <1>2
  <2>3. QED
    BY <1>2, <2>1, <2>2
<1>4. InputHeap \in Seq(Buffer)
  <2>1. Len(run.inputs) \in Nat
    BY <1>1
  <2>2. QED
    BY <1>3, <2>1
<1>5. ASSUME NEW id \in Slots
      PROVE  InputTable[id] \in DOMAIN run.inputs \cup {Null}
  BY DEF InputTable, Inputs
<1>6. QED
  BY <1>2, <1>4, <1>5 DEF InputTable

LEMMA InitHolds ==
  ASSUME XInit, IInv, run = prog
  PROVE  XInv
<1>1. prog \in Program /\ Size(prog) \in Nat
  BY JobTypes, ProgramTypes DEF IInv
<1>2. call \in Call
  BY CallsAssumption DEF XInit
<1>3. heap = InputHeap /\ buffers = InputTable /\ owned = {} /\ todo = {}
      /\ inst = 0 /\ xpc = "idle"
  BY DEF XInit
<1>4. heap \in Seq(Buffer) /\ buffers \in [Slots -> Handles \cup {Null}]
  BY <1>1, <1>3, InputsTyped DEF Handles
<1>5. XTypeOK
  BY <1>1, <1>2, <1>3, <1>4 DEF XTypeOK
<1>6. QED
  BY <1>3, <1>5 DEF XInv, Untouched, InStep, Executing, Started

LEMMA PlanningIsIdle ==
  ASSUME XInv, Next
  PROVE  xpc = "idle" /\ job' = job
BY DEF XInv, Next, CheckProgram, InferLevel, LevelsInferred, BeginInstruction,
       MakeRoom, Place, FreeDead, Finish

LEMMA IdleKept ==
  ASSUME XInv, xpc = "idle", job' = job, UNCHANGED xvars
  PROVE  XInv'
<1>1. prog' = prog /\ run' = run
  BY DEF prog, run, xvars
<1>2. Slots' = Slots
  BY <1>1 DEF Slots
<1>3. InputTable' = InputTable /\ InputHeap' = InputHeap
  BY <1>1, <1>2 DEF InputTable, InputHeap, xvars
<1>4. XTypeOK'
  BY <1>1, <1>2 DEF XInv, XTypeOK, xvars, Handles
<1>5. QED
  BY <1>1, <1>3, <1>4 DEF XInv, xvars, Untouched, InStep, Executing, Started

-----------------------------------------------------------------------------
(* Between two instructions: what has been defined and not been given up    *)
(* has a buffer, and what the replay keeps is on the device.                *)
AtBoundary(i) ==
  LET kept == DefinedBefore(i) \ Gone(i) IN
    /\ TableMatchesHeap
    /\ \A id \in Slots : buffers[id] # Null <=> id \in kept
    /\ \A id \in kept :
         /\ PlanMade(buffers[id]) <=> id \notin Inputs(prog)
         /\ heap[buffers[id]].at = "device" <=> ~call.movement \/ id \in DeviceAfter[i - 1]
         /\ heap[buffers[id]].holds = id
    /\ owned = kept \ Inputs(prog)
    /\ DeviceAfter[i - 1] \subseteq kept

LEMMA TableKept ==
  ASSUME TableMatchesHeap, run' = run, Slots' = Slots, UNCHANGED <<heap, buffers>>
  PROVE  TableMatchesHeap'
BY DEF TableMatchesHeap, Handles

LEMMA StartOnKeeps ==
  ASSUME PlanInv, XInv, pc = "accepted", UNCHANGED vars,
         UNCHANGED <<call, buffers, heap, owned>>,
         NEW i \in 1..(Size(prog) + 1), StartOn(i), AtBoundary(i)
  PROVE  XInv'
<1> DEFINE kept == DefinedBefore(i) \ Gone(i)
<1>1. /\ run = prog /\ prog' = prog /\ run' = run /\ Slots' = Slots
      /\ Size(prog) \in Nat /\ i \in Nat /\ pc' = pc /\ plan' = plan
  BY RunFacts, PlanStands DEF vars
<1>2. i <= Size(prog) => i \in Positions(prog)
  BY <1>1 DEF Positions
<1>3. inst' = i /\ IF i > Size(prog) THEN xpc' = "ok" /\ todo' = {}
                   ELSE xpc' = "evict" /\ todo' = Range(plan[i].evict)
  BY <1>1 DEF StartOn
<1>4. i <= Size(prog) => Range(plan[i].evict) \subseteq DeviceAfter[i - 1]
                         /\ DeviceAfter[i - 1] \subseteq Ids(prog)
  <2>1. SUFFICES ASSUME i <= Size(prog)
                 PROVE  Range(plan[i].evict) \subseteq DeviceAfter[i - 1]
                        /\ DeviceAfter[i - 1] \subseteq Ids(prog)
    OBVIOUS
  <2>2. i \in Positions(prog)
    BY <1>2, <2>1
  <2>3. QED
    BY <2>2, PlanFacts
<1>5. todo' \subseteq Ids(prog)
  BY <1>1, <1>3, <1>4
<1>6. XTypeOK'
  BY <1>1, <1>3, <1>5 DEF XInv, XTypeOK, Handles
<1>7. /\ \A j : DefinedBefore(j)' = DefinedBefore(j)
      /\ \A j : Gone(j)' = Gone(j)
      /\ DeviceAfter' = DeviceAfter
      /\ \A h : PlanMade(h)' = PlanMade(h)
  BY PlanStands
<1>8. Alive' = kept
  BY <1>1, <1>3, <1>7 DEF Alive
<1>9. Placed' = DeviceAfter[i - 1]
  <2>1. CASE i > Size(prog)
    BY <1>1, <1>3, <1>7, <2>1 DEF Placed
  <2>2. CASE ~(i > Size(prog))
    <3>1. Placed' = (DeviceAfter[i - 1] \ Range(plan[i].evict))
                      \cup (DeviceAfter[i - 1] \cap Range(plan[i].evict))
      BY <1>1, <1>3, <1>7, <2>2 DEF Placed
    <3>2. QED
      BY <3>1
  <2>3. QED
    BY <2>1, <2>2
<1>10. Computed' = DefinedBefore(i)
  BY <1>1, <1>3, <1>7 DEF Computed
<1>11. TableMatchesHeap'
  BY <1>1, TableKept DEF AtBoundary
<1>12. BuffersFollowPlan'
  <2> HIDE DEF kept
  <2>1. /\ \A id \in Slots : buffers[id] # Null <=> id \in kept
        /\ \A id \in kept :
             /\ PlanMade(buffers[id]) <=> id \notin Inputs(prog)
             /\ heap[buffers[id]].at = "device" <=> ~call.movement \/ id \in DeviceAfter[i - 1]
             /\ heap[buffers[id]].holds = id
        /\ owned = kept \ Inputs(prog)
        /\ DeviceAfter[i - 1] \subseteq kept
    BY DEF AtBoundary, kept
  <2>2. QED
    BY <1>1, <1>7, <1>8, <1>9, <1>10, <2>1 DEF BuffersFollowPlan
<1>13. InStep'
  BY <1>1, <1>3 DEF InStep, Executing
<1>14. QED
  BY <1>1, <1>3, <1>6, <1>11, <1>12, <1>13 DEF XInv, Started, Executing

LEMMA StartsAtBoundary ==
  ASSUME PlanInv, XInv, pc = "accepted", xpc = "idle"
  PROVE  AtBoundary(1)
<1>1. /\ buffers = InputTable /\ heap = InputHeap /\ owned = {} /\ run = prog
      /\ WellFormed(prog) /\ prog \in Program
  BY AcceptedFacts DEF XInv, Untouched
<1>2. DefinedBefore(1) \ Gone(1) = Inputs(prog) /\ DeviceAfter[1 - 1] = {}
  BY PlanEnds
<1>3. prog.inputs \in Seq(Nat) /\ Handles = DOMAIN prog.inputs
  BY <1>1 DEF Program, Handles, InputHeap
<1>4. ASSUME NEW id \in Inputs(prog)
      PROVE  /\ buffers[id] \in DOMAIN prog.inputs /\ prog.inputs[buffers[id]] = id
             /\ id \in Slots
  <2>1. \E k \in DOMAIN prog.inputs : prog.inputs[k] = id
    BY DEF Inputs
  <2>2. id \in Slots
    BY RunFacts
  <2>3. QED
    BY <1>1, <2>1, <2>2 DEF InputTable
<1>5. ASSUME NEW id \in Slots \ Inputs(prog)
      PROVE  buffers[id] = Null
  BY <1>1 DEF InputTable
<1>6. ASSUME NEW k \in DOMAIN prog.inputs
      PROVE  /\ heap[k].of = prog.inputs[k] /\ heap[k].live /\ ~PlanMade(k)
             /\ heap[k].holds = prog.inputs[k] /\ k # Null
             /\ heap[k].at = "device" <=> ~call.movement
             /\ prog.inputs[k] \in Inputs(prog)
  <2>1. /\ heap[k].of = prog.inputs[k] /\ heap[k].live
        /\ heap[k].holds = prog.inputs[k]
        /\ heap[k].at = "device" <=> ~call.movement
    BY <1>1 DEF InputHeap
  <2>2. ~PlanMade(k) /\ k # Null
    BY <1>1, <1>3 DEF PlanMade, Null
  <2>3. QED
    BY <2>1, <2>2 DEF Inputs
<1>7. ASSUME NEW k \in DOMAIN prog.inputs
      PROVE  buffers[prog.inputs[k]] = k
  BY <1>1, <1>4, <1>6 DEF WellFormed, SingleAssignment
<1>8. TableMatchesHeap
  BY <1>1, <1>3, <1>4, <1>5, <1>6, <1>7 DEF TableMatchesHeap
<1>9. QED
  BY <1>1, <1>2, <1>4, <1>5, <1>6, <1>8 DEF AtBoundary

LEMMA StartKeeps ==
  ASSUME PlanInv, XInv, pc = "accepted", UNCHANGED vars, Start
  PROVE  XInv'
<1>1. 1 \in 1..(Size(prog) + 1)
  BY RunFacts
<1>2. QED
  BY <1>1, StartsAtBoundary, StartOnKeeps DEF Start

LEMMA RefuseKeeps ==
  ASSUME PlanInv, XInv, pc = "accepted", UNCHANGED vars, Refuse
  PROVE  XInv'
<1>1. /\ prog' = prog /\ run' = run /\ Slots' = Slots /\ pc' = pc
      /\ InputTable' = InputTable /\ InputHeap' = InputHeap
      /\ UNCHANGED <<call, inst, todo, buffers, heap, owned>>
      /\ xpc = "idle" /\ xpc' = "refused"
  BY PlanStands DEF Refuse, vars
<1>2. XTypeOK'
  BY <1>1 DEF XInv, XTypeOK, Handles
<1>3. QED
  BY <1>1, <1>2 DEF XInv, Untouched, InStep, Executing, Started

LEMMA InstructionEndsAtBoundary ==
  ASSUME PlanInv, XInv, xpc = "free", todo = {}
  PROVE  AtBoundary(inst + 1)
<1>1. Executing /\ Started
  BY DEF Executing, Started
<1>2. inst \in Positions(prog) /\ pc = "accepted" /\ inst \in Nat
  BY <1>1, ExecutingFacts
<1>3. Alive = DefinedBefore(inst + 1) \ Gone(inst + 1)
  <2>1. Alive = ((DefinedBefore(inst) \ Gone(inst)) \cup {Result(prog, inst)})
                  \ plan[inst].free
    BY <1>2, PlanFacts DEF Alive
  <2>2. QED
    BY <1>2, <2>1, PlanFacts
<1>4. Placed = DeviceAfter[inst]
  BY <1>2, PlanFacts DEF Placed
<1>5. Computed = DefinedBefore(inst + 1) /\ (inst + 1) - 1 = inst
  BY <1>2 DEF Computed
<1>6. QED
  BY <1>1, <1>3, <1>4, <1>5 DEF XInv, BuffersFollowPlan, AtBoundary

LEMMA NextInstructionKeeps ==
  ASSUME PlanInv, XInv, pc = "accepted", UNCHANGED vars, NextInstruction
  PROVE  XInv'
<1>1. inst + 1 \in 1..(Size(prog) + 1)
  <2>1. inst \in 1..Size(prog) /\ Size(prog) \in Nat
    BY RunFacts DEF NextInstruction, XInv, InStep, Executing
  <2>2. QED
    BY <2>1
<1>2. QED
  BY <1>1, InstructionEndsAtBoundary, StartOnKeeps DEF NextInstruction

-----------------------------------------------------------------------------
(* The steps inside an instruction.                                         *)

LEMMA NextListKeeps ==
  ASSUME PlanInv, XInv, pc = "accepted", UNCHANGED vars, NextList
  PROVE  XInv'
<1>1. /\ prog' = prog /\ run' = run /\ Slots' = Slots /\ pc' = pc /\ plan' = plan
      /\ \A j : DefinedBefore(j)' = DefinedBefore(j)
      /\ \A j : Gone(j)' = Gone(j)
      /\ DeviceAfter' = DeviceAfter
      /\ \A h : PlanMade(h)' = PlanMade(h)
  BY PlanStands DEF vars, NextList
<1>2. UNCHANGED <<call, inst, buffers, heap, owned>> /\ todo = {}
      /\ xpc \in {"evict", "alloc", "prefetch"}
  BY DEF NextList
<1>3. Executing /\ Started
  BY <1>2 DEF Executing, Started
<1>4. inst \in Positions(prog)
  BY <1>3, ExecutingFacts
<1>5. Alive' = Alive /\ Placed' = Placed /\ Computed' = Computed
  <2>1. CASE xpc = "evict"
    <3>1. xpc' = "alloc" /\ todo' = plan[inst].alloc
      BY <2>1 DEF NextList
    <3>2. Alive' = Alive
      BY <1>1, <1>2, <2>1, <3>1 DEF Alive
    <3>3. Placed' = Placed
      BY <1>1, <1>2, <2>1, <3>1 DEF Placed
    <3>4. QED
      BY <1>1, <1>2, <2>1, <3>1, <3>2, <3>3 DEF Computed
  <2>2. CASE xpc = "alloc"
    <3>1. xpc' = "prefetch" /\ todo' = plan[inst].prefetch
      BY <2>2 DEF NextList
    <3>2. Alive' = Alive
      BY <1>1, <1>2, <2>2, <3>1 DEF Alive
    <3>3. Placed' = Placed
      BY <1>1, <1>2, <2>2, <3>1 DEF Placed
    <3>4. QED
      BY <1>1, <1>2, <2>2, <3>1, <3>2, <3>3 DEF Computed
  <2>3. CASE xpc = "prefetch"
    <3>1. xpc' = "dispatch" /\ todo' = {}
      BY <2>3 DEF NextList
    <3>2. Alive' = Alive
      BY <1>1, <1>2, <2>3, <3>1 DEF Alive
    <3>3. Placed' = Placed
      BY <1>1, <1>2, <2>3, <3>1 DEF Placed, DeviceDuring
    <3>4. QED
      BY <1>1, <1>2, <2>3, <3>1, <3>2, <3>3 DEF Computed
  <2>4. QED
    BY <1>2, <2>1, <2>2, <2>3
<1>6. xpc' \in {"alloc", "prefetch", "dispatch"} /\ InStep'
  <2>1. inst \in 1..Size(prog)
    BY <1>3 DEF XInv, InStep
  <2>2. QED
    BY <1>1, <1>2, <2>1 DEF NextList, InStep, Executing
<1>7. XTypeOK'
  <2>1. todo' \subseteq Ids(prog)
    <3>1. plan[inst].alloc \subseteq Ids(prog) /\ plan[inst].prefetch \subseteq Ids(prog)
      BY <1>4, PlanFacts
    <3>2. QED
      BY <3>1 DEF NextList
  <2>2. QED
    BY <1>1, <1>2, <1>6, <2>1 DEF XInv, XTypeOK, Handles
<1>8. TableMatchesHeap' /\ BuffersFollowPlan'
  <2>1. TableMatchesHeap'
    BY <1>1, <1>2, <1>3, TableKept DEF XInv
  <2>2. BuffersFollowPlan'
    BY <1>1, <1>2, <1>3, <1>5 DEF XInv, BuffersFollowPlan
  <2>3. QED
    BY <2>1, <2>2
<1>9. QED
  BY <1>1, <1>2, <1>6, <1>7, <1>8 DEF XInv, Started, Executing

(* The table does not care where a buffer is or what it holds.              *)
LEMMA TableKeptUnder ==
  ASSUME PlanInv, XInv, TableMatchesHeap, run' = run, Slots' = Slots,
         Handles' = Handles, buffers' = buffers,
         \A h \in Handles : heap'[h].live = heap[h].live /\ heap'[h].of = heap[h].of
  PROVE  TableMatchesHeap'
<1>1. ASSUME NEW id \in Slots, buffers[id] # Null
      PROVE  heap'[buffers[id]].live /\ heap'[buffers[id]].of = id
  <2>1. buffers[id] \in Handles
    BY <1>1, RunFacts
  <2>2. QED
    BY <1>1, <2>1 DEF TableMatchesHeap
<1>2. ASSUME NEW h \in Handles, heap'[h].live
      PROVE  heap'[h].of \in Slots /\ buffers[heap'[h].of] = h
  BY <1>2 DEF TableMatchesHeap
<1>3. (DOMAIN run.inputs \subseteq Handles)'
  BY DEF TableMatchesHeap
<1>4. QED
  BY <1>1, <1>2, <1>3 DEF TableMatchesHeap

(* One buffer changes place: the table stands, and what is on the device    *)
(* changes by that buffer.                                                  *)
LEMMA MoveKeeps ==
  ASSUME PlanInv, XInv, UNCHANGED vars, Executing,
         UNCHANGED <<call, xpc, inst, buffers, owned>>,
         NEW id \in Alive, todo' = todo \ {id},
         NEW place \in {"host", "device"},
         IF call.movement THEN Moved(id, place) ELSE UNCHANGED heap,
         Alive' = Alive,
         Placed' = IF place = "device" THEN Placed \cup {id} ELSE Placed \ {id}
  PROVE  XInv'
<1>1. /\ prog' = prog /\ run' = run /\ Slots' = Slots /\ pc' = pc /\ plan' = plan
      /\ \A j : DefinedBefore(j)' = DefinedBefore(j)
      /\ \A h : PlanMade(h)' = PlanMade(h)
  BY PlanStands DEF vars
<1>2. Started /\ id \in Slots /\ buffers[id] \in Handles
      /\ \A a \in Alive : buffers[a] \in Handles /\ (buffers[a] = buffers[id] => a = id)
  BY ExecutingFacts
<1>3. /\ heap' \in Seq(Buffer) /\ Handles' = Handles
      /\ \A h \in Handles : /\ heap'[h].live = heap[h].live
                            /\ heap'[h].of = heap[h].of
                            /\ heap'[h].holds = heap[h].holds
                            /\ h # buffers[id] => heap'[h].at = heap[h].at
      /\ call.movement => heap'[buffers[id]].at = place
      /\ ~call.movement => heap' = heap
  <2>1. CASE call.movement
    <3> DEFINE new == [heap[buffers[id]] EXCEPT !.at = place]
    <3>1. heap' = [heap EXCEPT ![buffers[id]] = new]
      BY <2>1 DEF Moved
    <3>2. heap \in Seq(Buffer) /\ heap[buffers[id]] \in Buffer
      BY <1>2, RunFacts
    <3>3. /\ new \in Buffer /\ new.at = place /\ new.of = heap[buffers[id]].of
          /\ new.live = heap[buffers[id]].live /\ new.holds = heap[buffers[id]].holds
      BY <3>2, BufferWritten, 0 \in Nat
    <3> HIDE DEF new
    <3>4. /\ heap' \in Seq(Buffer) /\ DOMAIN heap' = DOMAIN heap
          /\ heap'[buffers[id]] = new
          /\ \A h \in DOMAIN heap : h # buffers[id] => heap'[h] = heap[h]
      BY <1>2, <3>1, <3>2, <3>3, HeapWritten DEF Handles
    <3>5. QED
      BY <2>1, <3>3, <3>4 DEF Handles
  <2>2. CASE ~call.movement
    BY <2>2, RunFacts DEF Handles
  <2>3. QED
    BY <2>1, <2>2
<1>4. XTypeOK'
  BY <1>1, <1>3 DEF XInv, XTypeOK
<1>5. TableMatchesHeap'
  <2>1. TableMatchesHeap /\ buffers' = buffers
    BY <1>2 DEF XInv
  <2>2. QED
    BY <1>1, <1>3, <2>1, TableKeptUnder
<1>6. Computed' = Computed
  BY <1>1 DEF Computed
<1>7. BuffersFollowPlan'
  <2>1. BuffersFollowPlan
    BY <1>2 DEF XInv
  <2>2. Placed' \subseteq Alive
    BY <2>1 DEF BuffersFollowPlan
  <2>3. ASSUME NEW a \in Alive
        PROVE  /\ heap'[buffers[a]].holds = heap[buffers[a]].holds
               /\ heap'[buffers[a]].at = "device" <=> ~call.movement \/ a \in Placed'
    <3>1. heap[buffers[a]].at = "device" <=> ~call.movement \/ a \in Placed
      BY <2>1 DEF BuffersFollowPlan
    <3>2. CASE a = id
      BY <1>2, <1>3, <3>1, <3>2
    <3>3. CASE a # id
      <4>1. buffers[a] # buffers[id] /\ buffers[a] \in Handles
        BY <1>2, <3>3
      <4>2. a \in Placed' <=> a \in Placed
        BY <3>3
      <4>3. QED
        BY <1>3, <3>1, <4>1, <4>2
    <3>4. QED
      BY <3>2, <3>3
  <2>4. QED
    BY <1>1, <1>6, <2>1, <2>2, <2>3 DEF BuffersFollowPlan
<1>8. InStep'
  BY <1>1 DEF XInv, InStep, Executing
<1>9. QED
  BY <1>1, <1>4, <1>5, <1>7, <1>8 DEF XInv, Started, Executing

LEMMA EvictOneKeeps ==
  ASSUME PlanInv, XInv, pc = "accepted", UNCHANGED vars, EvictOne
  PROVE  XInv'
<1>1. xpc = "evict" /\ UNCHANGED <<call, xpc, inst, buffers, owned>> /\ Executing
  BY DEF EvictOne, Executing
<1>2. PICK id \in todo :
        /\ todo' = todo \ {id}
        /\ IF call.movement THEN Moved(id, "host") ELSE UNCHANGED heap
  BY DEF EvictOne
<1>3. /\ plan' = plan /\ DeviceAfter' = DeviceAfter
      /\ \A j : DefinedBefore(j)' = DefinedBefore(j)
      /\ \A j : Gone(j)' = Gone(j)
  BY <1>1, PlanStands DEF vars
<1>4. inst \in Positions(prog) /\ id \in Range(plan[inst].evict)
  BY <1>1, <1>2, ExecutingFacts DEF XInv, InStep
<1>5. id \in DeviceAfter[inst - 1]
  BY <1>4, PlanFacts
<1>6. id \in Alive
  BY <1>1, <1>2, <1>5, ExecutingFacts DEF Placed
<1>7. Alive' = Alive
  BY <1>1, <1>3 DEF Alive
<1>8. Placed' = Placed \ {id}
  BY <1>1, <1>2, <1>3, <1>4 DEF Placed
<1>9. QED
  BY <1>1, <1>2, <1>6, <1>7, <1>8, MoveKeeps

LEMMA PrefetchOneKeeps ==
  ASSUME PlanInv, XInv, pc = "accepted", UNCHANGED vars, PrefetchOne
  PROVE  XInv'
<1>1. xpc = "prefetch" /\ UNCHANGED <<call, xpc, inst, buffers, owned>> /\ Executing
  BY DEF PrefetchOne, Executing
<1>2. PICK id \in todo :
        /\ todo' = todo \ {id}
        /\ IF call.movement THEN Moved(id, "device") ELSE UNCHANGED heap
  BY DEF PrefetchOne
<1>3. /\ plan' = plan /\ DeviceAfter' = DeviceAfter
      /\ \A j : DefinedBefore(j)' = DefinedBefore(j)
      /\ \A j : Gone(j)' = Gone(j)
  BY <1>1, PlanStands DEF vars
<1>4. inst \in Positions(prog) /\ id \in plan[inst].prefetch
  BY <1>1, <1>2, ExecutingFacts DEF XInv, InStep
<1>5. id \in DefinedBefore(inst) \ Gone(inst)
  BY <1>4, PlanFacts
<1>6. id \in Alive
  BY <1>1, <1>5 DEF Alive
<1>7. Alive' = Alive
  BY <1>1, <1>3 DEF Alive
<1>8. Placed' = Placed \cup {id}
  BY <1>1, <1>2, <1>3, <1>4 DEF Placed
<1>9. QED
  BY <1>1, <1>2, <1>6, <1>7, <1>8, MoveKeeps

LEMMA HeapAppended ==
  ASSUME NEW hp \in Seq(Buffer), NEW new \in Buffer, NEW hq, hq = Append(hp, new)
  PROVE  /\ hq \in Seq(Buffer) /\ DOMAIN hq = DOMAIN hp \cup {Len(hp) + 1}
         /\ hq[Len(hp) + 1] = new /\ Len(hp) + 1 \notin DOMAIN hp
         /\ \A h \in DOMAIN hp : hq[h] = hp[h]
<1>1. Len(hp) \in Nat /\ DOMAIN hp = 1..Len(hp)
  OBVIOUS
<1>2. 1..(Len(hp) + 1) = 1..Len(hp) \cup {Len(hp) + 1} /\ Len(hp) + 1 \notin 1..Len(hp)
  BY <1>1
<1>3. hq \in Seq(Buffer) /\ Len(hq) = Len(hp) + 1 /\ DOMAIN hq = 1..(Len(hp) + 1)
  OBVIOUS
<1>4. hq[Len(hp) + 1] = new /\ \A h \in 1..Len(hp) : hq[h] = hp[h]
  OBVIOUS
<1>5. QED
  BY <1>1, <1>2, <1>3, <1>4

LEMMA AllocOneKeeps ==
  ASSUME PlanInv, XInv, pc = "accepted", UNCHANGED vars, AllocOne
  PROVE  XInv'
<1> DEFINE new == Len(heap) + 1
<1>1. xpc = "alloc" /\ UNCHANGED <<call, xpc, inst>> /\ Executing /\ Started
  BY DEF AllocOne, Executing, Started
<1>2. PICK id \in todo :
        /\ todo' = todo \ {id}
        /\ heap' = Append(heap, [of |-> id, live |-> TRUE,
                                 at |-> "device", holds |-> Junk])
        /\ buffers' = [buffers EXCEPT ![id] = Len(heap) + 1]
        /\ owned' = owned \cup {id}
  BY DEF AllocOne
<1>3. /\ prog' = prog /\ run' = run /\ Slots' = Slots /\ pc' = pc /\ plan' = plan
      /\ DeviceAfter' = DeviceAfter
      /\ \A j : DefinedBefore(j)' = DefinedBefore(j)
      /\ \A j : Gone(j)' = Gone(j)
      /\ \A h : PlanMade(h)' = PlanMade(h)
  BY <1>1, PlanStands DEF vars
<1>4. /\ inst \in Positions(prog) /\ id = Result(prog, inst)
      /\ plan[inst].alloc = {id} /\ id \notin DefinedBefore(inst) \cup Gone(inst)
      /\ id \in Ids(prog) /\ id \in Slots /\ id \in Nat
  <2>1. inst \in Positions(prog) /\ plan[inst].alloc = {Result(prog, inst)}
    BY <1>1, ExecutingFacts, PlanFacts
  <2>2. id = Result(prog, inst)
    BY <1>1, <1>2, <2>1 DEF XInv, InStep
  <2>3. id \in Ids(prog)
    BY <2>1, <2>2 DEF Ids
  <2>4. QED
    BY <2>1, <2>2, <2>3, PlanFacts, RunFacts
<1>5. Alive' = Alive \cup {id} /\ id \notin Alive /\ Placed' = Placed \cup {id}
  BY <1>1, <1>2, <1>3, <1>4 DEF Alive, Placed
<1>6. /\ heap' \in Seq(Buffer) /\ Handles' = Handles \cup {new}
      /\ heap'[new] = [of |-> id, live |-> TRUE, at |-> "device", holds |-> Junk]
      /\ new \notin Handles
      /\ \A h \in Handles : heap'[h] = heap[h]
  <2>1. [of |-> id, live |-> TRUE, at |-> "device", holds |-> Junk] \in Buffer
    BY <1>4 DEF Buffer, Junk
  <2>2. heap \in Seq(Buffer)
    BY RunFacts
  <2>3. QED
    BY <1>2, <2>1, <2>2, HeapAppended DEF Handles
<1>7. /\ buffers' \in [Slots -> Handles' \cup {Null}]
      /\ buffers'[id] = new
      /\ \A a \in Slots : a # id => buffers'[a] = buffers[a]
  BY <1>2, <1>4, <1>6, RunFacts
<1>8. XTypeOK'
  BY <1>1, <1>2, <1>3, <1>4, <1>6, <1>7 DEF XInv, XTypeOK
<1>9. TableMatchesHeap'
  <2>1. ASSUME NEW a \in Slots, buffers'[a] # Null
        PROVE  heap'[buffers'[a]].live /\ heap'[buffers'[a]].of = a
    <3>1. CASE a = id
      BY <1>6, <1>7, <3>1
    <3>2. CASE a # id
      <4>1. a \in Alive /\ buffers'[a] = buffers[a]
        BY <1>1, <1>7, <2>1, <3>2, StartedFacts
      <4>2. QED
        BY <1>1, <1>6, <4>1, StartedFacts
    <3>3. QED
      BY <3>1, <3>2
  <2>2. ASSUME NEW h \in Handles \cup {new}, heap'[h].live
        PROVE  heap'[h].of \in Slots /\ buffers'[heap'[h].of] = h
    <3>1. CASE h = new
      BY <1>4, <1>6, <1>7, <3>1
    <3>2. CASE h # new
      <4>1. h \in Handles /\ heap[h].live /\ heap'[h].of = heap[h].of
        BY <1>6, <2>2, <3>2
      <4>2. heap[h].of \in Alive /\ buffers[heap[h].of] = h /\ heap[h].of \in Slots
        BY <1>1, <4>1, StartedFacts
      <4>3. QED
        BY <1>5, <1>7, <4>1, <4>2
    <3>3. QED
      BY <3>1, <3>2
  <2>3. DOMAIN run.inputs \subseteq Handles
    BY <1>1 DEF XInv, TableMatchesHeap
  <2>4. QED
    BY <1>3, <1>6, <2>1, <2>2, <2>3 DEF TableMatchesHeap
<1>10. Computed' = Computed /\ id \notin Computed
  BY <1>1, <1>3, <1>4 DEF Computed
<1>11. BuffersFollowPlan'
  <2>1. BuffersFollowPlan
    BY <1>1 DEF XInv
  <2>2. PlanMade(new)
    <3>1. prog.inputs \in Seq(Nat) /\ Len(heap) \in Nat /\ Handles = 1..Len(heap)
          /\ run = prog /\ DOMAIN run.inputs \subseteq Handles
      BY <1>1, RunFacts DEF Program, XInv, TableMatchesHeap
    <3>2. Len(prog.inputs) \in Nat /\ DOMAIN prog.inputs = 1..Len(prog.inputs)
      BY <3>1
    <3>3. Len(prog.inputs) <= Len(heap)
      BY <3>1, <3>2
    <3>4. QED
      BY <3>1, <3>2, <3>3 DEF PlanMade
  <2>3. id \notin Inputs(prog)
    BY <1>4 DEF DefinedBefore
  <2>4. \A a \in Alive : buffers'[a] = buffers[a] /\ heap'[buffers[a]] = heap[buffers[a]]
    BY <1>1, <1>5, <1>6, <1>7, StartedFacts
  <2>5. \A a \in Slots : buffers'[a] # Null <=> a \in Alive'
    <3>1. new # Null
      BY RunFacts
    <3>2. QED
      BY <1>5, <1>7, <2>1, <3>1 DEF BuffersFollowPlan
  <2>6. \A a \in Alive' : PlanMade(buffers'[a]) <=> a \notin Inputs(prog)
    BY <1>5, <1>7, <2>1, <2>2, <2>3, <2>4 DEF BuffersFollowPlan
  <2>7. owned' = Alive' \ Inputs(prog)
    BY <1>2, <1>5, <2>1, <2>3 DEF BuffersFollowPlan
  <2>8. \A a \in Alive' :
          heap'[buffers'[a]].at = "device" <=> ~call.movement \/ a \in Placed'
    BY <1>5, <1>6, <1>7, <2>1, <2>4 DEF BuffersFollowPlan
  <2>9. \A a \in Alive' \cap Computed' : heap'[buffers'[a]].holds = a
    BY <1>5, <1>10, <2>1, <2>4 DEF BuffersFollowPlan
  <2>10. Placed' \subseteq Alive'
    BY <1>5, <2>1 DEF BuffersFollowPlan
  <2>11. QED
    BY <1>1, <1>3, <2>5, <2>6, <2>7, <2>8, <2>9, <2>10 DEF BuffersFollowPlan
<1>12. InStep'
  BY <1>1, <1>2, <1>3 DEF XInv, InStep, Executing
<1>13. QED
  BY <1>1, <1>3, <1>8, <1>9, <1>11, <1>12 DEF XInv, Started, Executing

LEMMA DispatchKeeps ==
  ASSUME PlanInv, XInv, pc = "accepted", UNCHANGED vars, Dispatch
  PROVE  XInv'
<1> DEFINE r == Result(prog, inst)
           b == buffers[r]
           new == [heap[b] EXCEPT !.holds = r]
<1>1. /\ xpc = "dispatch" /\ UNCHANGED <<call, inst, buffers, owned>>
      /\ xpc' = "free" /\ todo' = plan[inst].free /\ Executing /\ Started
  BY DEF Dispatch, Executing, Started
<1>2. /\ prog' = prog /\ run' = run /\ Slots' = Slots /\ pc' = pc /\ plan' = plan
      /\ DeviceAfter' = DeviceAfter /\ run = prog
      /\ \A j : DefinedBefore(j)' = DefinedBefore(j)
      /\ \A j : Gone(j)' = Gone(j)
      /\ \A h : PlanMade(h)' = PlanMade(h)
  BY <1>1, PlanStands, RunFacts DEF vars
<1>3. inst \in Positions(prog) /\ inst \in Nat
  BY <1>1, ExecutingFacts
<1>4. heap' = [heap EXCEPT ![b] = new]
  <2>1. \A a \in Operands(run, inst) : Holds(a, a)
    BY <1>1, CallsHold DEF CallsGetTheirBuffers, OperandsInPlace
  <2>2. QED
    BY <1>2, <2>1 DEF Dispatch
<1>5. Alive' = Alive /\ Placed' = Placed /\ r \in Alive
  <2>1. Alive' = Alive /\ Placed' = Placed
    BY <1>1, <1>2 DEF Alive, Placed
  <2>2. r \in Alive
    BY <1>1, <1>3, PlanFacts DEF Alive
  <2>3. QED
    BY <2>1, <2>2
<1>6. b \in Handles /\ heap[b] \in Buffer /\ heap \in Seq(Buffer) /\ r \in Nat
      /\ \A a \in Alive : buffers[a] \in Handles /\ (buffers[a] = b => a = r)
  <2>1. b \in Handles /\ r \in Slots
    BY <1>1, <1>5, StartedFacts
  <2>2. r \in Nat
    BY <2>1, RunFacts
  <2>3. \A a \in Alive : buffers[a] \in Handles /\ (buffers[a] = b => a = r)
    BY <1>1, <1>5, StartedFacts
  <2>4. heap \in Seq(Buffer)
    BY RunFacts
  <2>5. heap[b] \in Buffer
    BY <2>1, RunFacts
  <2>6. QED
    BY <2>1, <2>2, <2>3, <2>4, <2>5
<1>7. /\ new \in Buffer /\ new.holds = r /\ new.of = heap[b].of
      /\ new.at = heap[b].at /\ new.live = heap[b].live
  <2>1. PICK h : h = heap[b]
    OBVIOUS
  <2>2. h \in Buffer /\ r \in Nat
    BY <1>6, <2>1
  <2> HIDE DEF r, b
  <2>3. /\ [h EXCEPT !.holds = r] \in Buffer /\ [h EXCEPT !.holds = r].holds = r
        /\ [h EXCEPT !.holds = r].of = h.of /\ [h EXCEPT !.holds = r].at = h.at
        /\ [h EXCEPT !.holds = r].live = h.live
    BY <2>2, BufferWritten, Zenon
  <2>4. QED
    BY <2>1, <2>3, Zenon
<1>8. Computed' = DefinedBefore(inst + 1) /\ Computed = DefinedBefore(inst)
      /\ Computed' = Computed \cup {r}
  <2>1. Computed' = DefinedBefore(inst + 1)
    BY <1>1, <1>2 DEF Computed
  <2>2. Computed = DefinedBefore(inst)
    BY <1>1 DEF Computed
  <2>3. QED
    BY <1>3, <2>1, <2>2, PlanFacts
<1> HIDE DEF new, b, r
<1>9. /\ heap' \in Seq(Buffer) /\ Handles' = Handles /\ heap'[b] = new
      /\ \A h \in Handles : h # b => heap'[h] = heap[h]
  BY <1>4, <1>6, <1>7, HeapWritten DEF Handles
<1>10. XTypeOK'
  <2>1. todo' \subseteq Ids(prog)
    BY <1>1, <1>3, PlanFacts
  <2>2. QED
    BY <1>1, <1>2, <1>9, <2>1 DEF XInv, XTypeOK
<1>11. TableMatchesHeap'
  <2>1. \A h \in Handles : heap'[h].live = heap[h].live /\ heap'[h].of = heap[h].of
    BY <1>7, <1>9
  <2>2. TableMatchesHeap /\ buffers' = buffers
    BY <1>1 DEF XInv
  <2>3. QED
    BY <1>2, <1>9, <2>1, <2>2, TableKeptUnder
<1>12. BuffersFollowPlan'
  <2>1. BuffersFollowPlan
    BY <1>1 DEF XInv
  <2>2. ASSUME NEW a \in Alive
        PROVE  /\ heap'[buffers[a]].at = heap[buffers[a]].at
               /\ a \in Computed' => heap'[buffers[a]].holds = a
    <3>1. CASE a = r
      BY <1>7, <1>9, <3>1 DEF b
    <3>2. CASE a # r
      <4>1. heap'[buffers[a]] = heap[buffers[a]]
        BY <1>6, <1>9, <3>2
      <4>2. a \in Computed' => a \in Computed
        BY <1>8, <3>2
      <4>3. QED
        BY <2>1, <4>1, <4>2 DEF BuffersFollowPlan
    <3>3. QED
      BY <3>1, <3>2
  <2>3. QED
    BY <1>1, <1>2, <1>5, <2>1, <2>2 DEF BuffersFollowPlan
<1>13. InStep'
  BY <1>1, <1>2 DEF XInv, InStep, Executing
<1>14. QED
  BY <1>1, <1>2, <1>10, <1>11, <1>12, <1>13 DEF XInv, Started, Executing

LEMMA FreeOneKeeps ==
  ASSUME PlanInv, XInv, pc = "accepted", UNCHANGED vars, FreeOne
  PROVE  XInv'
<1>1. xpc = "free" /\ UNCHANGED <<call, xpc, inst>> /\ Executing /\ Started
  BY DEF FreeOne, Executing, Started
<1>2. PICK id \in todo :
        /\ todo' = todo \ {id}
        /\ heap' = [heap EXCEPT ![buffers[id]].live = FALSE]
        /\ buffers' = [buffers EXCEPT ![id] = Null]
        /\ owned' = owned \ {id}
  BY DEF FreeOne
<1> DEFINE b == buffers[id]
           new == [heap[b] EXCEPT !.live = FALSE]
<1>3. /\ prog' = prog /\ run' = run /\ Slots' = Slots /\ pc' = pc /\ plan' = plan
      /\ DeviceAfter' = DeviceAfter
      /\ \A j : DefinedBefore(j)' = DefinedBefore(j)
      /\ \A j : Gone(j)' = Gone(j)
      /\ \A h : PlanMade(h)' = PlanMade(h)
  BY <1>1, PlanStands DEF vars
<1>4. /\ inst \in Positions(prog) /\ id \in plan[inst].free
      /\ id \in DefinedBefore(inst + 1) /\ id \notin Gone(inst)
  <2>1. inst \in Positions(prog) /\ id \in plan[inst].free
    BY <1>1, <1>2, ExecutingFacts DEF XInv, InStep
  <2>2. QED
    BY <2>1, Frees, PlanFacts
<1>5. id \in Alive /\ Alive' = Alive \ {id} /\ Placed' = Placed \ {id}
  <2>1. id \in Alive
    BY <1>1, <1>2, <1>4, PlanFacts DEF Alive
  <2>2. Alive' = Alive \ {id} /\ Placed' = Placed \ {id}
    BY <1>1, <1>2, <1>3, <1>4 DEF Alive, Placed
  <2>3. QED
    BY <2>1, <2>2
<1>6. b \in Handles /\ heap[b] \in Buffer /\ heap \in Seq(Buffer) /\ id \in Slots
      /\ \A a \in Alive : buffers[a] \in Handles /\ (buffers[a] = b => a = id)
  <2>1. b \in Handles /\ id \in Slots
    BY <1>1, <1>5, StartedFacts
  <2>2. \A a \in Alive : buffers[a] \in Handles /\ (buffers[a] = b => a = id)
    BY <1>1, <1>5, StartedFacts
  <2>3. QED
    BY <2>1, <2>2, RunFacts
<1>7. heap' = [heap EXCEPT ![b] = new] /\ new \in Buffer /\ new.live = FALSE
  BY <1>2, <1>6, BufferWritten, 0 \in Nat, "host" \in {"host", "device"}
<1> HIDE DEF new, b
<1>8. /\ heap' \in Seq(Buffer) /\ Handles' = Handles /\ heap'[b] = new
      /\ \A h \in Handles : h # b => heap'[h] = heap[h]
  BY <1>6, <1>7, HeapWritten DEF Handles
<1>9. /\ buffers' \in [Slots -> Handles \cup {Null}]
      /\ buffers'[id] = Null
      /\ \A a \in Slots : a # id => buffers'[a] = buffers[a]
  BY <1>2, <1>6, RunFacts
<1>10. XTypeOK'
  BY <1>1, <1>2, <1>3, <1>8, <1>9 DEF XInv, XTypeOK
<1>11. \A a \in Alive' : /\ buffers'[a] = buffers[a] /\ buffers[a] \in Handles
                         /\ heap'[buffers[a]] = heap[buffers[a]]
  <2>1. ASSUME NEW a \in Alive, a # id
        PROVE  /\ buffers'[a] = buffers[a] /\ buffers[a] \in Handles
               /\ heap'[buffers[a]] = heap[buffers[a]]
    <3>1. a \in Slots
      BY <1>1, StartedFacts
    <3>2. buffers[a] # b
      BY <1>6, <2>1
    <3>3. QED
      BY <1>6, <1>8, <1>9, <2>1, <3>1, <3>2
  <2>2. QED
    BY <1>5, <2>1
<1>12. \A a \in Slots : buffers'[a] # Null <=> a \in Alive'
  <2>1. \A a \in Slots : buffers[a] # Null <=> a \in Alive
    BY <1>1 DEF XInv, BuffersFollowPlan
  <2>2. QED
    BY <1>5, <1>9, <2>1
<1>13. TableMatchesHeap'
  <2>1. ASSUME NEW a \in Slots, buffers'[a] # Null
        PROVE  heap'[buffers'[a]].live /\ heap'[buffers'[a]].of = a
    <3>1. a \in Alive /\ a \in Alive'
      BY <1>5, <1>12, <2>1
    <3>2. QED
      BY <1>1, <1>11, <3>1, StartedFacts
  <2>2. ASSUME NEW h \in Handles, heap'[h].live
        PROVE  heap'[h].of \in Slots /\ buffers'[heap'[h].of] = h
    <3>1. h # b /\ heap'[h] = heap[h]
      BY <1>7, <1>8, <2>2
    <3>2. heap[h].of \in Alive /\ buffers[heap[h].of] = h /\ heap[h].of \in Slots
      BY <1>1, <2>2, <3>1, StartedFacts
    <3>3. heap[h].of # id
      BY <3>1, <3>2 DEF b
    <3>4. QED
      BY <1>9, <3>1, <3>2, <3>3
  <2>3. DOMAIN run.inputs \subseteq Handles
    BY <1>1 DEF XInv, TableMatchesHeap
  <2>4. QED
    BY <1>3, <1>8, <2>1, <2>2, <2>3 DEF TableMatchesHeap
<1>14. Computed' = Computed
  BY <1>1, <1>3 DEF Computed
<1>15. BuffersFollowPlan'
  <2>1. BuffersFollowPlan
    BY <1>1 DEF XInv
  <2>2. /\ \A a \in Alive' : PlanMade(buffers'[a]) <=> a \notin Inputs(prog)
        /\ owned' = Alive' \ Inputs(prog)
        /\ Placed' \subseteq Alive'
        /\ \A a \in Alive' :
             heap'[buffers'[a]].at = "device" <=> ~call.movement \/ a \in Placed'
        /\ \A a \in Alive' \cap Computed' : heap'[buffers'[a]].holds = a
    BY <1>2, <1>5, <1>11, <1>14, <2>1 DEF BuffersFollowPlan
  <2>3. QED
    BY <1>1, <1>3, <1>12, <2>2 DEF BuffersFollowPlan
<1>16. InStep'
  BY <1>1, <1>2, <1>3 DEF XInv, InStep, Executing
<1>17. QED
  BY <1>1, <1>3, <1>10, <1>13, <1>15, <1>16 DEF XInv, Started, Executing

-----------------------------------------------------------------------------
(* Failing, anywhere in an instruction.                                     *)

LEMMA PinnedInputsAlive ==
  ASSUME PlanInv, XInv, Executing, NEW id \in Inputs(prog) \cap job.pinned
  PROVE  id \in Alive \ owned /\ heap[buffers[id]].holds = id
<1>1. Started /\ inst \in Positions(prog) /\ pc = "accepted" /\ inst \in 1..Size(prog)
      /\ Size(prog) \in Nat
  BY ExecutingFacts, RunFacts DEF XInv, InStep
<1>2. id \in DefinedBefore(inst) /\ id \in Computed
  BY DEF DefinedBefore, Computed
<1>3. id \notin Gone(inst)
  <2>1. \A j \in 1..(inst - 1) : j \in Positions(prog)
    BY <1>1 DEF Positions
  <2>2. QED
    BY <1>1, <2>1, PlanFacts DEF Gone
<1>4. id \notin plan[inst].free
  BY <1>1, PlanFacts
<1>5. id \in Alive
  BY <1>2, <1>3, <1>4 DEF Alive, Executing
<1>6. QED
  BY <1>1, <1>2, <1>5 DEF XInv, BuffersFollowPlan

Dropped == {buffers[id] : id \in owned}

LEMMA FailHeap ==
  ASSUME PlanInv, XInv, pc = "accepted", UNCHANGED vars, Executing,
         NEW hp \in Seq(Buffer), DOMAIN hp = Handles,
         \A h \in Handles : /\ hp[h].live = heap[h].live /\ hp[h].of = heap[h].of
                            /\ hp[h].at = heap[h].at,
         \A h \in Handles \ {buffers[id] : id \in owned} : hp[h].holds = heap[h].holds,
         Fail(hp, buffers)
  PROVE  /\ xpc' = "failed" /\ UNCHANGED <<call, inst, todo, owned>>
         /\ buffers' = [id \in Slots |-> IF id \in owned THEN Null ELSE buffers[id]]
         /\ \A h \in Handles :
              /\ heap'[h].of = heap[h].of /\ heap'[h].at = heap[h].at
              /\ heap'[h].live <=> heap[h].live /\ h \notin Dropped
              /\ h \notin Dropped => heap'[h].holds = heap[h].holds
         /\ heap' \in Seq(Buffer) /\ Handles' = Handles
<1>1. /\ prog' = prog /\ run' = run /\ Slots' = Slots /\ pc' = pc /\ plan' = plan
      /\ DeviceAfter' = DeviceAfter /\ run = prog /\ job' = job
      /\ \A S : Units(S)' = Units(S)
      /\ \A h : PlanMade(h)' = PlanMade(h)
  BY PlanStands, RunFacts DEF vars, Fail
<1>2. Started /\ xpc # "failed" /\ owned \subseteq Alive
  <2>1. Started
    BY ExecutingFacts
  <2>2. QED
    BY <2>1, StartedFacts DEF Executing
<1>3. /\ xpc' = "failed" /\ UNCHANGED <<call, inst, todo, owned>>
      /\ heap' = [h \in Handles |->
                    IF h \in Dropped THEN [hp[h] EXCEPT !.live = FALSE] ELSE hp[h]]
      /\ buffers' = [id \in Slots |-> IF id \in owned THEN Null ELSE buffers[id]]
  <2>1. Null \notin Dropped /\ DOMAIN buffers = Slots
    BY <1>2, StartedFacts, RunFacts DEF Dropped
  <2>2. Dropped \ {Null} = Dropped
    BY <2>1
  <2>3. QED
    BY <2>1, <2>2 DEF Fail, Dropped
<1>4. \A h \in Handles : hp[h] \in Buffer
  <2>1. \A h \in DOMAIN hp : hp[h] \in Buffer
    OBVIOUS
  <2>2. QED
    BY <2>1
<1>5. \A h \in Handles :
        /\ heap'[h] \in Buffer /\ heap'[h].of = heap[h].of /\ heap'[h].at = heap[h].at
        /\ heap'[h].live <=> heap[h].live /\ h \notin Dropped
        /\ h \notin Dropped => heap'[h].holds = heap[h].holds
  <2>1. ASSUME NEW h \in Handles
        PROVE  /\ [hp[h] EXCEPT !.live = FALSE] \in Buffer
               /\ [hp[h] EXCEPT !.live = FALSE].live = FALSE
               /\ [hp[h] EXCEPT !.live = FALSE].of = hp[h].of
               /\ [hp[h] EXCEPT !.live = FALSE].at = hp[h].at
    BY <1>4, BufferWritten, 0 \in Nat, "host" \in {"host", "device"}
  <2>2. ASSUME NEW h \in Handles, h \in Dropped
        PROVE  /\ heap'[h] \in Buffer /\ heap'[h].of = heap[h].of
               /\ heap'[h].at = heap[h].at /\ heap'[h].live = FALSE
    BY <1>3, <2>1, <2>2
  <2>3. ASSUME NEW h \in Handles, h \notin Dropped
        PROVE  heap'[h] = hp[h]
    BY <1>3, <2>3
  <2>4. \A h \in Handles \ Dropped : hp[h].holds = heap[h].holds
    BY DEF Dropped
  <2>5. ASSUME NEW h \in Handles, h \notin Dropped
        PROVE  /\ heap'[h] \in Buffer /\ heap'[h].of = heap[h].of
               /\ heap'[h].at = heap[h].at /\ heap'[h].live = heap[h].live
               /\ heap'[h].holds = heap[h].holds
    BY <1>4, <2>3, <2>4, <2>5
  <2>6. QED
    BY <2>2, <2>5
<1>6. heap' \in Seq(Buffer) /\ Handles' = Handles
  <2>1. DOMAIN heap' = Handles
    BY <1>3
  <2>2. heap' = [h \in Handles |-> heap'[h]]
    BY <1>3
  <2>3. Handles = 1..Len(heap) /\ Len(heap) \in Nat
    BY RunFacts
  <2>4. heap' \in [1..Len(heap) -> Buffer]
    BY <1>5, <2>2, <2>3
  <2>5. heap' \in Seq(Buffer)
    BY <2>3, <2>4
  <2>6. QED
    BY <2>1, <2>5 DEF Handles
<1>7. QED
  BY <1>3, <1>5, <1>6

LEMMA FailKeeps ==
  ASSUME PlanInv, XInv, pc = "accepted", UNCHANGED vars, Executing,
         NEW hp \in Seq(Buffer), DOMAIN hp = Handles,
         \A h \in Handles : /\ hp[h].live = heap[h].live /\ hp[h].of = heap[h].of
                            /\ hp[h].at = heap[h].at,
         \A h \in Handles \ {buffers[id] : id \in owned} : hp[h].holds = heap[h].holds,
         Fail(hp, buffers)
  PROVE  XInv'
<1>1. /\ prog' = prog /\ run' = run /\ Slots' = Slots /\ pc' = pc /\ plan' = plan
      /\ DeviceAfter' = DeviceAfter /\ run = prog /\ job' = job
      /\ \A S : Units(S)' = Units(S)
      /\ \A h : PlanMade(h)' = PlanMade(h)
  BY PlanStands, RunFacts DEF vars, Fail
<1>2. Started /\ xpc # "failed" /\ owned \subseteq Alive
  <2>1. Started
    BY ExecutingFacts
  <2>2. QED
    BY <2>1, StartedFacts DEF Executing
<1>3. /\ xpc' = "failed" /\ UNCHANGED <<call, inst, todo, owned>>
      /\ buffers' = [id \in Slots |-> IF id \in owned THEN Null ELSE buffers[id]]
  BY FailHeap
<1>5. \A h \in Handles :
        /\ heap'[h].of = heap[h].of /\ heap'[h].at = heap[h].at
        /\ heap'[h].live <=> heap[h].live /\ h \notin Dropped
        /\ h \notin Dropped => heap'[h].holds = heap[h].holds
  BY FailHeap
<1>6. heap' \in Seq(Buffer) /\ Handles' = Handles
  BY FailHeap
<1>7. XTypeOK'
  <2>1. buffers' \in [Slots -> Handles \cup {Null}]
    BY <1>3, RunFacts
  <2>2. QED
    BY <1>1, <1>3, <1>6, <2>1 DEF XInv, XTypeOK
<1>8. ASSUME NEW id \in Alive \ owned
      PROVE  buffers'[id] = buffers[id] /\ buffers[id] \in Handles \ Dropped
  <2>1. id \in Slots /\ buffers[id] \in Handles
    BY <1>2, StartedFacts
  <2>2. \A a \in owned : buffers[a] # buffers[id]
    BY <1>2, StartedFacts
  <2>3. QED
    BY <1>3, <2>1, <2>2 DEF Dropped
<1>9. OutcomeContract'
  <2>1. ASSUME NEW h \in Handles, PlanMade(h)
        PROVE  ~heap'[h].live
    <3>1. heap[h].live => h \in Dropped
      BY <1>2, <2>1, OwnedHolds DEF OwnedIsExact, Dropped
    <3>2. QED
      BY <1>5, <3>1
  <2>2. ASSUME NEW id \in Slots, buffers'[id] # Null
        PROVE  heap'[buffers'[id]].live
    <3>1. id \notin owned /\ buffers[id] # Null
      BY <1>3, <2>2
    <3>2. id \in Alive
      BY <1>2, <3>1, StartedFacts
    <3>3. heap[buffers[id]].live
      BY <1>2, <3>2, StartedFacts
    <3>4. QED
      BY <1>5, <1>8, <3>1, <3>2, <3>3
  <2>3. ASSUME NEW id \in Inputs(prog) \cap job.pinned
        PROVE  KeepsItsValue(id)'
    <3>1. id \in Alive \ owned /\ heap[buffers[id]].holds = id
      BY PinnedInputsAlive
    <3>2. heap[buffers[id]].live /\ buffers[id] # Null
      BY <1>2, <3>1, StartedFacts, RunFacts
    <3>3. QED
      BY <1>5, <1>8, <3>1, <3>2 DEF KeepsItsValue
  <2>4. QED
    BY <1>1, <1>3, <1>6, <2>1, <2>2, <2>3 DEF OutcomeContract
<1>10. DeviceWithinBudget'
  <2>1. SUFFICES ASSUME call.movement, job.budget > 0
                 PROVE  Units(OnDevice') <= job.budget
    BY <1>1, <1>3 DEF DeviceWithinBudget
  <2>2. Units(OnDevice) <= job.budget
    BY <1>2, <2>1, BudgetHolds DEF DeviceWithinBudget, Started, Executing
  <2>3. OnDevice' \subseteq OnDevice
    BY <1>5, <1>6 DEF OnDevice
  <2>4. OnDevice \subseteq Ids(prog)
    BY <1>2, StartedFacts DEF OnDevice
  <2>5. TypeOK /\ ChecksHold /\ Planning /\ job.budget \in Nat
    BY AcceptedFacts, JobTypes DEF PlanInv, IInv, Planning
  <2>6. /\ Units(OnDevice') <= Units(OnDevice)
        /\ Units(OnDevice') \in Nat /\ Units(OnDevice) \in Nat
    BY <2>3, <2>4, <2>5, UnitsFacts
  <2>7. QED
    BY <2>2, <2>5, <2>6
<1>11. InStep'
  BY <1>3 DEF InStep, Executing
<1>12. QED
  BY <1>1, <1>3, <1>7, <1>9, <1>10, <1>11 DEF XInv, Started, Executing

(* What a failure leaves is what a call of fail leaves: the slot a null      *)
(* allocation overwrote was null, and a half-written result is dropped.     *)
FailsWith(hp) ==
  /\ hp \in Seq(Buffer) /\ DOMAIN hp = Handles
  /\ \A h \in Handles : /\ hp[h].live = heap[h].live /\ hp[h].of = heap[h].of
                        /\ hp[h].at = heap[h].at
  /\ \A h \in Handles \ Dropped : hp[h].holds = heap[h].holds
  /\ Fail(hp, buffers)

LEMMA HookFails ==
  ASSUME PlanInv, XInv, EvictFails \/ AllocFails \/ PrefetchFails
  PROVE  Executing /\ FailsWith(heap)
<1>1. Executing
  BY DEF Executing, EvictFails, AllocFails, PrefetchFails
<1>2. heap \in Seq(Buffer) /\ DOMAIN heap = Handles
  BY RunFacts DEF Handles
<1>3. Fail(heap, buffers)
  <2>1. CASE AllocFails
    <3>1. PICK id \in todo : Fail(heap, [buffers EXCEPT ![id] = Null]) /\ xpc = "alloc"
      BY <2>1 DEF AllocFails
    <3>2. buffers[id] = Null
      BY <3>1, CallsHold DEF CallsGetTheirBuffers
    <3>3. [buffers EXCEPT ![id] = Null] = buffers
      BY <3>2, RunFacts
    <3>4. QED
      BY <3>1, <3>3
  <2>2. CASE ~AllocFails
    BY <2>2 DEF EvictFails, PrefetchFails
  <2>3. QED
    BY <2>1, <2>2
<1>4. QED
  BY <1>1, <1>2, <1>3 DEF FailsWith

LEMMA KernelFailure ==
  ASSUME PlanInv, XInv, KernelFails
  PROVE  Executing /\ \E hp : FailsWith(hp)
<1> DEFINE r == Result(prog, inst)
           b == buffers[r]
           new == [heap[b] EXCEPT !.holds = Junk]
           hp == [heap EXCEPT ![b] = new]
<1>1. xpc = "dispatch" /\ Executing /\ Started /\ run = prog
  BY RunFacts DEF KernelFails, Executing, Started
<1>2. Fail(hp, buffers)
  BY <1>1 DEF KernelFails
<1>3. inst \in Positions(prog) /\ pc = "accepted"
  BY <1>1, ExecutingFacts
<1>4. r \in Alive /\ r \notin Inputs(prog)
  BY <1>1, <1>3, PlanFacts DEF Alive, DefinedBefore
<1>5. r \in owned
  BY <1>1, <1>4, StartedFacts
<1>6. b \in Handles /\ heap[b] \in Buffer /\ heap \in Seq(Buffer)
  BY <1>1, <1>4, StartedFacts, RunFacts
<1>7. /\ new \in Buffer /\ new.of = heap[b].of
      /\ new.at = heap[b].at /\ new.live = heap[b].live
  <2>1. Junk \in Nat /\ "host" \in {"host", "device"}
    BY DEF Junk
  <2> HIDE DEF b
  <2>2. QED
    BY <1>6, <2>1, BufferWritten
<1>8. /\ hp \in Seq(Buffer) /\ DOMAIN hp = Handles /\ hp[b] = new
      /\ \A h \in Handles : h # b => hp[h] = heap[h]
  <2> HIDE DEF new
  <2>1. QED
    BY <1>6, <1>7, HeapWritten DEF Handles
<1>9. b \in Dropped
  BY <1>5 DEF Dropped
<1> HIDE DEF hp, new, b
<1>10. \A h \in Handles : /\ hp[h].live = heap[h].live /\ hp[h].of = heap[h].of
                          /\ hp[h].at = heap[h].at
  BY <1>7, <1>8
<1>11. \A h \in Handles \ Dropped : hp[h].holds = heap[h].holds
  BY <1>8, <1>9
<1>12. QED
  BY <1>1, <1>2, <1>8, <1>10, <1>11 DEF FailsWith

Failing == EvictFails \/ AllocFails \/ PrefetchFails \/ KernelFails

LEMMA FailingFails ==
  ASSUME PlanInv, XInv, Failing
  PROVE  Executing /\ \E hp : FailsWith(hp)
BY HookFails, KernelFailure DEF Failing

LEMMA FailingKeeps ==
  ASSUME PlanInv, XInv, pc = "accepted", UNCHANGED vars, Failing
  PROVE  XInv'
<1>1. Executing
  BY FailingFails
<1>2. PICK hp : FailsWith(hp)
  BY FailingFails
<1>3. QED
  BY <1>1, <1>2, FailKeeps DEF FailsWith, Dropped

-----------------------------------------------------------------------------
(* The theorems, for an execution of a plan on the program it was made for. *)

LEMMA ExecuteKeeps ==
  ASSUME PlanInv, XInv, pc = "accepted", UNCHANGED vars, Execute
  PROVE  XInv'
<1>1. CASE Start
  BY <1>1, StartKeeps
<1>2. CASE Refuse
  BY <1>2, RefuseKeeps
<1>3. CASE EvictOne
  BY <1>3, EvictOneKeeps
<1>4. CASE Failing
  BY <1>4, FailingKeeps
<1>5. CASE AllocOne
  BY <1>5, AllocOneKeeps
<1>6. CASE PrefetchOne
  BY <1>6, PrefetchOneKeeps
<1>7. CASE NextList
  BY <1>7, NextListKeeps
<1>8. CASE Dispatch
  BY <1>8, DispatchKeeps
<1>9. CASE FreeOne
  BY <1>9, FreeOneKeeps
<1>10. CASE NextInstruction
  BY <1>10, NextInstructionKeeps
<1>11. QED
  BY <1>1, <1>2, <1>3, <1>4, <1>5, <1>6, <1>7, <1>8, <1>9, <1>10
     DEF Execute, Failing

LEMMA StandingStill ==
  ASSUME PlanInv, XInv, UNCHANGED allVars
  PROVE  XInv'
<1>1. UNCHANGED vars /\ UNCHANGED xvars
  BY DEF allVars
<1>2. job' = job /\ pc' = pc /\ plan' = plan /\ call' = call /\ xpc' = xpc
      /\ inst' = inst /\ todo' = todo /\ buffers' = buffers /\ heap' = heap
      /\ owned' = owned
  BY <1>1 DEF vars, xvars
<1>3. CASE xpc = "idle"
  BY <1>1, <1>2, <1>3, IdleKept
<1>4. CASE xpc # "idle"
  <2>1. /\ prog' = prog /\ run' = run /\ Slots' = Slots
        /\ InputTable' = InputTable /\ InputHeap' = InputHeap
        /\ DeviceAfter' = DeviceAfter
        /\ \A i : DefinedBefore(i)' = DefinedBefore(i)
        /\ \A i : Gone(i)' = Gone(i)
        /\ \A S : Units(S)' = Units(S)
        /\ \A h : PlanMade(h)' = PlanMade(h)
    BY <1>1, <1>2, PlanStands
  <2>2. Handles' = Handles /\ OnDevice' = OnDevice
    BY <1>2 DEF Handles, OnDevice
  <2>3. XTypeOK' /\ (Untouched' <=> Untouched)
    BY <1>2, <2>1, <2>2 DEF XInv, XTypeOK, Untouched
  <2>4. InStep' /\ (Started' <=> Started)
    BY <1>2, <2>1 DEF XInv, InStep, Executing, Started
  <2>5. TableMatchesHeap' <=> TableMatchesHeap
    BY <1>2, <2>1, <2>2 DEF TableMatchesHeap
  <2>6. Alive' = Alive /\ Placed' = Placed /\ Computed' = Computed
    BY <1>2, <2>1 DEF Alive, Placed, Computed
  <2>7. BuffersFollowPlan' <=> BuffersFollowPlan
    BY <1>2, <2>1, <2>6 DEF BuffersFollowPlan
  <2>8. \A id : KeepsItsValue(id)' <=> KeepsItsValue(id)
    BY <1>2 DEF KeepsItsValue
  <2>9. OutcomeContract' <=> OutcomeContract
    BY <1>2, <2>1, <2>2, <2>8 DEF OutcomeContract
  <2>10. DeviceWithinBudget' <=> DeviceWithinBudget
    BY <1>2, <2>1, <2>2 DEF DeviceWithinBudget
  <2>11. QED
    BY <1>2, <2>1, <2>3, <2>4, <2>5, <2>7, <2>9, <2>10 DEF XInv
<1>5. QED
  BY <1>3, <1>4

(* Execute is called with the program the plan was made for, or an equal    *)
(* one: nothing in the code checks more than the number of instructions     *)
(* (FhnDefaultExecutor.cpp:66), and StalePlanNeverDispatches shows what a    *)
(* plan for another program of that length does.                            *)
OwnPlanSpec == XSpec /\ run = prog

LEMMA PlannerRuns == XSpec => Spec
<1>1. XInit => Init
  BY DEF XInit
<1>2. [XNext]_allVars => [Next]_vars
  BY DEF XNext, allVars
<1>3. QED
  BY <1>1, <1>2, PTL DEF XSpec, Spec

(* Between any two steps of an execution the buffers are where the plan's   *)
(* replay puts them (FhnDefaultExecutor.cpp:59-124).                         *)
THEOREM ExecutionInductive == OwnPlanSpec => []XInv
<1>1. XInit /\ run = prog => XInv
  BY InitEstablishes, InitHolds DEF XInit
<1>2. PlanInv /\ XInv /\ [XNext]_allVars => XInv'
  <2> SUFFICES ASSUME PlanInv, XInv, [XNext]_allVars
               PROVE  XInv'
    OBVIOUS
  <2>1. CASE Next /\ UNCHANGED xvars
    BY <2>1, PlanningIsIdle, IdleKept
  <2>2. CASE pc = "accepted" /\ Execute /\ UNCHANGED vars
    BY <2>2, ExecuteKeeps
  <2>3. CASE UNCHANGED allVars
    BY <2>3, StandingStill
  <2>4. QED
    BY <2>1, <2>2, <2>3 DEF XNext
<1>3. QED
  BY <1>1, <1>2, PlannerRuns, PlanInductive, PTL DEF OwnPlanSpec, XSpec

(* Every variable of the executor keeps its type.                           *)
THEOREM ExecutorTypeCorrect == OwnPlanSpec => []XTypeOK
<1>1. XInv => XTypeOK
  BY DEF XInv
<1>2. QED
  BY <1>1, ExecutionInductive, PTL

(* Kernels find their operands, hooks get live buffers, and nothing is      *)
(* freed twice (FhnDefaultExecutor.cpp:85-120).                              *)
THEOREM CallsSound == OwnPlanSpec => []CallsGetTheirBuffers
BY CallsHold, ExecutionInductive, PlannerRuns, PlanInductive, PTL DEF OwnPlanSpec

(* owned is what the plan allocated and has not freed                       *)
(* (FhnDefaultExecutor.cpp:71-80, 93, 119).                                 *)
THEOREM OwnershipExact == OwnPlanSpec => []OwnedIsExact
BY OwnedHolds, ExecutionInductive, PlannerRuns, PlanInductive, PTL DEF OwnPlanSpec

(* A failure gives back what the execution made, a success leaves the       *)
(* pinned buffers with their values (FhnDefaultExecutor.h:30-33).            *)
THEOREM OutcomeAsPromised == OwnPlanSpec => []OutcomeContract
BY OutcomeHolds, ExecutionInductive, PlannerRuns, PlanInductive, PTL DEF OwnPlanSpec

(* Device memory stays within the budget in the middle of an instruction's  *)
(* actions, and after a failure (FhnDefaultExecutor.cpp:85-98).              *)
THEOREM DeviceFits == OwnPlanSpec => []DeviceWithinBudget
BY BudgetHolds, ExecutionInductive, PlannerRuns, PlanInductive, PTL DEF OwnPlanSpec

-----------------------------------------------------------------------------
(* The execution is a run of the program.  How far it has come:             *)

EvaluatedAt(i, x, n) ==
  CASE i = 0 -> 0
    [] x = "free" \/ i > n -> Min({i, n})
    [] OTHER -> i - 1

LEMMA EvaluatedCounts ==
  ASSUME NEW i \in Nat, NEW x, NEW n \in Nat
  PROVE  /\ i = 0 => EvaluatedAt(i, x, n) = 0
         /\ i \in 1..n /\ x # "free" => EvaluatedAt(i, x, n) = i - 1
         /\ i \in 1..n /\ x = "free" => EvaluatedAt(i, x, n) = i
         /\ i = n + 1 => EvaluatedAt(i, x, n) = n
<1>1. Min({i, n}) \in {i, n} /\ Min({i, n}) <= i /\ Min({i, n}) <= n
  BY MinIsLeast
<1>2. Min({i, n}) = IF i <= n THEN i ELSE n
  BY <1>1
<1>3. CASE i = 0
  BY <1>2, <1>3 DEF EvaluatedAt
<1>4. CASE i \in 1..n /\ x # "free"
  BY <1>4 DEF EvaluatedAt
<1>5. CASE i \in 1..n /\ x = "free"
  BY <1>2, <1>5 DEF EvaluatedAt
<1>6. CASE i = n + 1
  BY <1>2, <1>6 DEF EvaluatedAt
<1>7. QED
  BY <1>3, <1>4, <1>5, <1>6

LEMMA EvaluatedIs ==
  /\ Evaluated = EvaluatedAt(inst, xpc, Size(run))
  /\ Evaluated' = EvaluatedAt(inst', xpc', Size(run'))
BY DEF Evaluated, EvaluatedAt

LEMMA LiveIsAlive ==
  ASSUME PlanInv, XInv, Started
  PROVE  LiveIds = Alive
BY StartedFacts DEF LiveIds

LEMMA LiveInputs ==
  ASSUME heap = InputHeap
  PROVE  LiveIds = Inputs(run)
BY DEF LiveIds, Handles, InputHeap, Inputs

(* The vocabulary of ProgramRun is that of FhnProgram.                      *)
LEMMA SameWords ==
  /\ Run!Program = Program
  /\ \A p : Run!Size(p) = Size(p) /\ Run!Positions(p) = Positions(p)
  /\ \A p : Run!Inputs(p) = Inputs(p) /\ Run!Ids(p) = Ids(p)
  /\ \A p, i : Run!Result(p, i) = Result(p, i) /\ Run!WorkingSet(p, i) = WorkingSet(p, i)
  /\ \A p, id : Run!UsesOf(p, id) = UsesOf(p, id)
BY DEF Run!Program, Program, Run!Instruction, Instruction, Run!OpCodes, OpCodes,
       Run!Size, Size, Run!Positions, Positions, Run!Inputs, Inputs, Run!Ids, Ids,
       Run!Result, Result, Run!WorkingSet, WorkingSet, Run!Operands, Operands,
       Run!Unused, Unused, Run!UsesOf, UsesOf

LEMMA RunInit ==
  ASSUME XInit, IInv, run = prog
  PROVE  Run!Init
<1>1. xpc = "idle" /\ inst = 0 /\ heap = InputHeap
  BY DEF XInit
<1>2. LiveIds = Inputs(run)
  BY <1>1, LiveInputs
<1>3. run \in Program /\ job.pinned \in SUBSET Nat /\ Size(run) \in Nat
  BY JobTypes, ProgramTypes DEF IInv, TypeOK, Job
<1>4. Evaluated = 0
  BY <1>1, <1>3, EvaluatedIs, EvaluatedCounts, 0 \in Nat
<1>5. QED
  BY <1>1, <1>2, <1>3, <1>4, SameWords DEF Run!Init

Final == {"ok", "failed", "refused"}

LEMMA RunStands ==
  ASSUME run' = run, job' = job, Evaluated' = Evaluated, LiveIds' = LiveIds,
         xpc \notin Final, xpc' \notin Final
  PROVE  UNCHANGED Run!vars
BY DEF Run!vars, Final

LEMMA RunReserves ==
  ASSUME run' = run, job' = job, Evaluated' = Evaluated,
         xpc \notin Final, xpc' \notin Final,
         NEW i \in Positions(run), i = Evaluated + 1, Result(run, i) \notin LiveIds,
         LiveIds' = LiveIds \cup {Result(run, i)}
  PROVE  Run!Next
<1>1. Run!Running /\ Run!Current = i
  BY DEF Run!Running, Run!Current, Final
<1>2. Run!Reserve
  BY <1>1, SameWords DEF Run!Reserve, Final
<1>3. QED
  BY <1>2 DEF Run!Next

LEMMA RunEvaluates ==
  ASSUME run' = run, job' = job, Evaluated' = Evaluated + 1, LiveIds' = LiveIds,
         xpc \notin Final, xpc' \notin Final,
         NEW i \in Positions(run), i = Evaluated + 1,
         WorkingSet(run, i) \subseteq LiveIds
  PROVE  Run!Next
<1>1. Run!Running /\ Run!Current = i
  BY DEF Run!Running, Run!Current, Final
<1>2. Run!Evaluate
  BY <1>1, SameWords DEF Run!Evaluate, Final
<1>3. QED
  BY <1>2 DEF Run!Next

LEMMA RunReleases ==
  ASSUME run' = run, job' = job, Evaluated' = Evaluated,
         xpc \notin Final, xpc' \notin Final,
         NEW id \in LiveIds, id \notin job.pinned,
         \A u \in UsesOf(run, id) : u <= Evaluated, LiveIds' = LiveIds \ {id}
  PROVE  Run!Next
<1>1. Run!Running
  BY DEF Run!Running, Final
<1>2. Run!Release
  BY <1>1, SameWords DEF Run!Release, Final
<1>3. QED
  BY <1>2 DEF Run!Next

LEMMA RunSucceeds ==
  ASSUME run' = run, job' = job, Evaluated' = Evaluated, LiveIds' = LiveIds,
         xpc \notin Final, xpc' = "ok", Evaluated = Size(run),
         Size(run) > 0 => LiveIds \subseteq job.pinned,
         Ids(run) \cap job.pinned \subseteq LiveIds
  PROVE  Run!Next
<1>1. Run!Running
  BY DEF Run!Running, Final
<1>2. Run!Succeed
  BY <1>1, SameWords DEF Run!Succeed
<1>3. QED
  BY <1>2 DEF Run!Next

LEMMA RunFails ==
  ASSUME run' = run, job' = job, Evaluated' = Evaluated,
         xpc \notin Final, xpc' \in {"failed", "refused"},
         LiveIds' = LiveIds \cap Inputs(run)
  PROVE  Run!Next
<1>1. Run!Running
  BY DEF Run!Running, Final
<1>2. Run!Fail
  BY <1>1, SameWords DEF Run!Fail
<1>3. QED
  BY <1>2 DEF Run!Next

(* Step by step.  Mirrors is what the invariant says of LiveIds; it is      *)
(* needed before and after each step.                                       *)
Mirrors == Started => LiveIds = Alive

LEMMA StepFacts ==
  ASSUME PlanInv, XInv, UNCHANGED vars, call' = call
  PROVE  /\ run' = run /\ run = prog /\ prog' = prog /\ job' = job /\ plan' = plan
         /\ Size(run) \in Nat
         /\ \A i : DefinedBefore(i)' = DefinedBefore(i)
         /\ \A i : Gone(i)' = Gone(i)
         /\ inst \in 1..Size(run) /\ xpc # "free" => Evaluated = inst - 1
         /\ inst \in 1..Size(run) /\ xpc = "free" => Evaluated = inst
         /\ inst = 0 => Evaluated = 0
         /\ inst' \in 1..Size(run) /\ xpc' # "free" => Evaluated' = inst' - 1
         /\ inst' \in 1..Size(run) /\ xpc' = "free" => Evaluated' = inst'
         /\ inst' = 0 => Evaluated' = 0
         /\ inst' = Size(run) + 1 => Evaluated' = Size(run)
         /\ Executing => inst \in 1..Size(run)
<1>1. /\ run' = run /\ run = prog /\ prog' = prog /\ job' = job /\ plan' = plan
      /\ Size(run) \in Nat
      /\ \A i : DefinedBefore(i)' = DefinedBefore(i)
      /\ \A i : Gone(i)' = Gone(i)
  BY PlanStands, RunFacts DEF vars
<1>2. ASSUME NEW i \in Nat, NEW x
      PROVE  /\ i = 0 => EvaluatedAt(i, x, Size(run)) = 0
             /\ i \in 1..Size(run) /\ x # "free" => EvaluatedAt(i, x, Size(run)) = i - 1
             /\ i \in 1..Size(run) /\ x = "free" => EvaluatedAt(i, x, Size(run)) = i
             /\ i = Size(run) + 1 => EvaluatedAt(i, x, Size(run)) = Size(run)
  BY <1>1, EvaluatedCounts
<1>3. Evaluated = EvaluatedAt(inst, xpc, Size(run))
      /\ Evaluated' = EvaluatedAt(inst', xpc', Size(run))
  BY <1>1, EvaluatedIs
<1>4. /\ inst \in 1..Size(run) /\ xpc # "free" => Evaluated = inst - 1
      /\ inst \in 1..Size(run) /\ xpc = "free" => Evaluated = inst
      /\ inst = 0 => Evaluated = 0
  <2>1. CASE inst \in Nat
    BY <1>2, <1>3, <2>1
  <2>2. CASE inst \notin Nat
    BY <1>1, <2>2
  <2>3. QED
    BY <2>1, <2>2
<1>5. /\ inst' \in 1..Size(run) /\ xpc' # "free" => Evaluated' = inst' - 1
      /\ inst' \in 1..Size(run) /\ xpc' = "free" => Evaluated' = inst'
      /\ inst' = 0 => Evaluated' = 0
      /\ inst' = Size(run) + 1 => Evaluated' = Size(run)
  <2>1. CASE inst' \in Nat
    BY <1>2, <1>3, <2>1
  <2>2. CASE inst' \notin Nat
    BY <1>1, <2>2
  <2>3. QED
    BY <2>1, <2>2
<1>6. Executing => inst \in 1..Size(run)
  BY <1>1 DEF XInv, InStep
<1>7. QED
  BY <1>1, <1>4, <1>5, <1>6

LEMMA StartMaps ==
  ASSUME PlanInv, XInv, pc = "accepted", UNCHANGED vars, Start
  PROVE  Run!Next \/ UNCHANGED Run!vars
<1>1. /\ xpc = "idle" /\ inst = 0 /\ heap = InputHeap /\ heap' = heap /\ call' = call
      /\ StartOn(1)
  BY DEF Start, XInv, Untouched
<1>2. LiveIds' = LiveIds /\ LiveIds = Inputs(run)
  BY <1>1, LiveInputs DEF LiveIds, Handles
<1>3. CASE 1 > Size(run)
  <2>1. Size(run) = 0 /\ inst' = Size(run) + 1 /\ xpc' = "ok"
    BY <1>1, <1>3, StepFacts DEF StartOn
  <2>2. Evaluated = 0 /\ Evaluated' = Size(run)
    BY <1>1, <2>1, StepFacts
  <2>3. Ids(run) = Inputs(run)
    BY <2>1 DEF Ids, Positions
  <2>4. QED
    BY <1>1, <1>2, <2>1, <2>2, <2>3, StepFacts, RunSucceeds DEF Final
<1>4. CASE ~(1 > Size(run))
  <2>1. inst' = 1 /\ xpc' = "evict" /\ 1 \in 1..Size(run)
    BY <1>1, <1>4, StepFacts DEF StartOn
  <2>2. Evaluated = 0 /\ Evaluated' = 1 - 1
    BY <1>1, <2>1, StepFacts
  <2>3. QED
    BY <1>1, <1>2, <2>1, <2>2, StepFacts, RunStands DEF Final
<1>5. QED
  BY <1>3, <1>4

LEMMA RefuseMaps ==
  ASSUME PlanInv, XInv, pc = "accepted", UNCHANGED vars, Refuse
  PROVE  Run!Next
<1>1. /\ xpc = "idle" /\ inst = 0 /\ inst' = 0 /\ heap = InputHeap /\ heap' = heap
      /\ call' = call /\ xpc' = "refused"
  BY DEF Refuse, XInv, Untouched
<1>2. LiveIds' = LiveIds /\ LiveIds = Inputs(run)
  BY <1>1, LiveInputs DEF LiveIds, Handles
<1>3. Evaluated = 0 /\ Evaluated' = 0
  BY <1>1, StepFacts
<1>4. QED
  BY <1>1, <1>2, <1>3, StepFacts, RunFails DEF Final

LEMMA MovesMap ==
  ASSUME PlanInv, XInv, Mirrors, Mirrors', pc = "accepted", UNCHANGED vars,
         EvictOne \/ PrefetchOne \/ NextList
  PROVE  UNCHANGED Run!vars
<1>1. /\ call' = call /\ inst' = inst /\ Executing /\ Started
      /\ xpc' \in {"evict", "alloc", "prefetch", "dispatch"} /\ xpc # "free"
      /\ Executing' /\ Started'
  BY DEF EvictOne, PrefetchOne, NextList, Executing, Started
<1>2. Evaluated' = Evaluated
  BY <1>1, StepFacts
<1>3. LiveIds' = LiveIds
  <2>1. CASE EvictOne
    <3>1. Alive' = Alive
      BY <1>1, <2>1, StepFacts DEF EvictOne, Alive
    <3>2. QED
      BY <1>1, <3>1 DEF Mirrors
  <2>2. CASE PrefetchOne
    <3>1. Alive' = Alive
      BY <1>1, <2>2, StepFacts DEF PrefetchOne, Alive
    <3>2. QED
      BY <1>1, <3>1 DEF Mirrors
  <2>3. CASE NextList
    BY <2>3 DEF NextList, LiveIds, Handles
  <2>4. QED
    BY <2>1, <2>2, <2>3
<1>4. QED
  BY <1>1, <1>2, <1>3, StepFacts, RunStands DEF Final, Executing

LEMMA AllocMaps ==
  ASSUME PlanInv, XInv, Mirrors, Mirrors', pc = "accepted", UNCHANGED vars, AllocOne
  PROVE  Run!Next
<1>1. /\ call' = call /\ inst' = inst /\ xpc = "alloc" /\ xpc' = "alloc"
      /\ Executing /\ Started /\ Started'
  BY DEF AllocOne, Executing, Started
<1>2. PICK id \in todo : todo' = todo \ {id}
  BY DEF AllocOne
<1>3. /\ inst \in Positions(prog) /\ id = Result(prog, inst) /\ id \in todo
      /\ plan[inst].alloc = {id} /\ id \notin DefinedBefore(inst) \cup Gone(inst)
  BY <1>1, <1>2, ExecutingFacts, PlanFacts DEF XInv, InStep
<1>4. Alive' = Alive \cup {id} /\ id \notin Alive
  BY <1>1, <1>2, <1>3, StepFacts DEF Alive
<1>5. LiveIds' = LiveIds \cup {id} /\ id \notin LiveIds
  BY <1>1, <1>4 DEF Mirrors
<1>6. Evaluated' = Evaluated /\ inst = Evaluated + 1
  BY <1>1, StepFacts
<1>7. QED
  BY <1>1, <1>3, <1>5, <1>6, StepFacts, RunReserves DEF Final

LEMMA DispatchMaps ==
  ASSUME PlanInv, XInv, Mirrors, Mirrors', pc = "accepted", UNCHANGED vars, Dispatch
  PROVE  Run!Next
<1>1. /\ call' = call /\ inst' = inst /\ xpc = "dispatch" /\ xpc' = "free"
      /\ todo' = plan[inst].free /\ Executing /\ Started /\ Started'
  BY DEF Dispatch, Executing, Started
<1>2. inst \in Positions(prog)
  BY <1>1, ExecutingFacts
<1>3. Alive' = Alive
  BY <1>1, StepFacts DEF Alive
<1>4. WorkingSet(prog, inst) \subseteq Alive
  BY <1>1, <1>2, PlanFacts DEF Alive, WorkingSet
<1>5. LiveIds' = LiveIds /\ WorkingSet(prog, inst) \subseteq LiveIds
  BY <1>1, <1>3, <1>4 DEF Mirrors
<1>6. Evaluated' = Evaluated + 1 /\ inst = Evaluated + 1
  BY <1>1, StepFacts
<1>7. QED
  BY <1>1, <1>2, <1>5, <1>6, StepFacts, RunEvaluates DEF Final

LEMMA FreeMaps ==
  ASSUME PlanInv, XInv, Mirrors, Mirrors', pc = "accepted", UNCHANGED vars, FreeOne
  PROVE  Run!Next
<1>1. /\ call' = call /\ inst' = inst /\ xpc = "free" /\ xpc' = "free"
      /\ Executing /\ Started /\ Started'
  BY DEF FreeOne, Executing, Started
<1>2. PICK id \in todo : todo' = todo \ {id}
  BY DEF FreeOne
<1>3. inst \in Positions(prog) /\ id \in plan[inst].free
  BY <1>1, <1>2, ExecutingFacts DEF XInv, InStep
<1>4. /\ id \in DefinedBefore(inst + 1) /\ id \notin job.pinned /\ id \notin Gone(inst)
      /\ \A u \in UsesOf(prog, id) : u <= inst
  BY <1>3, Frees, PlanFacts
<1>5. id \in Alive /\ Alive' = Alive \ {id}
  <2>1. id \in Alive
    BY <1>1, <1>2, <1>3, <1>4, PlanFacts DEF Alive
  <2>2. Alive' = Alive \ {id}
    BY <1>1, <1>2, <1>3, StepFacts DEF Alive
  <2>3. QED
    BY <2>1, <2>2
<1>6. id \in LiveIds /\ LiveIds' = LiveIds \ {id}
  BY <1>1, <1>5 DEF Mirrors
<1>7. Evaluated' = Evaluated /\ Evaluated = inst
  BY <1>1, StepFacts
<1>8. QED
  BY <1>1, <1>4, <1>6, <1>7, StepFacts, RunReleases DEF Final

LEMMA NextInstructionMaps ==
  ASSUME PlanInv, XInv, Mirrors, pc = "accepted", UNCHANGED vars, NextInstruction
  PROVE  Run!Next \/ UNCHANGED Run!vars
<1>1. /\ call' = call /\ xpc = "free" /\ Executing /\ Started /\ heap' = heap
      /\ StartOn(inst + 1) /\ todo = {}
  BY DEF NextInstruction, Executing, Started
<1>2. LiveIds' = LiveIds
  BY <1>1 DEF LiveIds, Handles
<1>3. inst \in 1..Size(run) /\ Evaluated = inst /\ Size(run) \in Nat /\ run = prog
  BY <1>1, StepFacts
<1>4. CASE inst + 1 > Size(run)
  <2>1. inst' = Size(run) + 1 /\ xpc' = "ok" /\ inst = Size(run)
    BY <1>1, <1>3, <1>4 DEF StartOn
  <2>2. Evaluated' = Size(run)
    BY <1>1, <2>1, StepFacts
  <2>3. AtBoundary(inst + 1)
    BY <1>1, InstructionEndsAtBoundary
  <2>4. DefinedBefore(inst + 1) \ Gone(inst + 1) = Ids(run) \cap job.pinned
    BY <1>3, <2>1, PlanEnds
  <2>5. Alive = DefinedBefore(inst + 1) \ Gone(inst + 1)
    <3>1. \A id \in Slots : id \in Alive <=> id \in Ids(run) \cap job.pinned
      BY <1>1, <2>3, <2>4 DEF AtBoundary, XInv, BuffersFollowPlan
    <3>2. Alive \subseteq Slots /\ Ids(run) \subseteq Slots
      BY <1>1, <1>3, StartedFacts, RunFacts
    <3>3. QED
      BY <2>4, <3>1, <3>2
  <2>6. LiveIds = Ids(run) \cap job.pinned
    BY <1>1, <2>4, <2>5 DEF Mirrors
  <2>7. QED
    BY <1>1, <1>2, <1>3, <2>1, <2>2, <2>6, StepFacts, RunSucceeds DEF Final
<1>5. CASE ~(inst + 1 > Size(run))
  <2>1. inst' = inst + 1 /\ xpc' = "evict" /\ inst + 1 \in 1..Size(run)
    BY <1>1, <1>3, <1>5 DEF StartOn
  <2>2. Evaluated' = (inst + 1) - 1
    BY <1>1, <2>1, StepFacts
  <2>3. Evaluated' = Evaluated
    BY <1>3, <2>2
  <2>4. QED
    BY <1>1, <1>2, <2>1, <2>3, StepFacts, RunStands DEF Final
<1>6. QED
  BY <1>4, <1>5

LEMMA FailingMaps ==
  ASSUME PlanInv, XInv, Mirrors, pc = "accepted", UNCHANGED vars, Failing
  PROVE  Run!Next
<1>1. Executing /\ Started /\ xpc \notin Final /\ xpc # "free"
  BY FailingFails, ExecutingFacts
     DEF Executing, Final, Failing, EvictFails, AllocFails, PrefetchFails, KernelFails
<1>2. PICK hp : FailsWith(hp)
  BY FailingFails
<1>3. /\ xpc' = "failed" /\ UNCHANGED <<call, inst, todo, owned>>
      /\ \A h \in Handles : /\ heap'[h].of = heap[h].of
                            /\ heap'[h].live <=> heap[h].live /\ h \notin Dropped
      /\ Handles' = Handles
  BY <1>1, <1>2, FailHeap DEF FailsWith, Dropped
<1>4. Evaluated' = Evaluated
  BY <1>1, <1>3, StepFacts
<1>5. LiveIds = Alive /\ owned = Alive \ Inputs(prog) /\ run = prog
  BY <1>1, StartedFacts, RunFacts DEF Mirrors
<1>6. ASSUME NEW h \in Handles, heap[h].live
      PROVE  h \notin Dropped <=> heap[h].of \in Inputs(prog)
  <2>1. heap[h].of \in Alive /\ buffers[heap[h].of] = h
    BY <1>1, <1>6, StartedFacts
  <2>2. h \in Dropped <=> heap[h].of \in owned
    BY <1>1, <1>5, <2>1, StartedFacts DEF Dropped
  <2>3. QED
    BY <1>5, <2>1, <2>2
<1>7. LiveIds' = LiveIds \cap Inputs(run)
  BY <1>3, <1>5, <1>6 DEF LiveIds
<1>8. QED
  BY <1>1, <1>3, <1>4, <1>7, StepFacts, RunFails

LEMMA StepMaps ==
  ASSUME PlanInv, XInv, Mirrors, Mirrors', [XNext]_allVars
  PROVE  Run!Next \/ UNCHANGED Run!vars
<1>1. CASE Next /\ UNCHANGED xvars
  <2>1. xpc = "idle" /\ job' = job
    BY <1>1, PlanningIsIdle
  <2>2. run' = run /\ LiveIds' = LiveIds
    BY <1>1, <2>1 DEF run, prog, xvars, LiveIds, Handles
  <2>3. Evaluated' = Evaluated
    BY <1>1, <2>2, EvaluatedIs DEF xvars
  <2>4. QED
    BY <1>1, <2>1, <2>2, <2>3, RunStands DEF xvars, Final
<1>2. CASE pc = "accepted" /\ Execute /\ UNCHANGED vars
  <2>1. CASE Start
    BY <1>2, <2>1, StartMaps
  <2>2. CASE Refuse
    BY <1>2, <2>2, RefuseMaps
  <2>3. CASE EvictOne \/ PrefetchOne \/ NextList
    BY <1>2, <2>3, MovesMap
  <2>4. CASE AllocOne
    BY <1>2, <2>4, AllocMaps
  <2>5. CASE Dispatch
    BY <1>2, <2>5, DispatchMaps
  <2>6. CASE FreeOne
    BY <1>2, <2>6, FreeMaps
  <2>7. CASE NextInstruction
    BY <1>2, <2>7, NextInstructionMaps
  <2>8. CASE Failing
    BY <1>2, <2>8, FailingMaps
  <2>9. QED
    BY <1>2, <2>1, <2>2, <2>3, <2>4, <2>5, <2>6, <2>7, <2>8 DEF Execute, Failing
<1>3. CASE UNCHANGED allVars
  <2>1. job' = job /\ call' = call /\ xpc' = xpc /\ inst' = inst /\ heap' = heap
    BY <1>3 DEF allVars, vars, xvars
  <2>2. run' = run /\ LiveIds' = LiveIds
    BY <2>1 DEF run, prog, LiveIds, Handles
  <2>3. Evaluated' = Evaluated
    BY <2>1, <2>2, EvaluatedIs
  <2>4. QED
    BY <2>1, <2>2, <2>3 DEF Run!vars
<1>4. QED
  BY <1>1, <1>2, <1>3 DEF XNext

(* Whatever the plan, the budget and the hooks do, and wherever they fail,  *)
(* the caller sees a run of the program: instructions in order, a buffer    *)
(* given up only after its last use, the pinned buffers at the end, nothing *)
(* but the inputs after a failure (FhnDefaultExecutor.h:30-34).              *)
THEOREM ProgramRunImplemented == OwnPlanSpec => ImplementsProgramRun
<1>1. XInit /\ run = prog => Run!Init
  BY InitEstablishes, RunInit DEF XInit
<1>2. PlanInv /\ XInv => Mirrors
  BY LiveIsAlive DEF Mirrors
<1>3. PlanInv /\ XInv /\ Mirrors /\ Mirrors' /\ [XNext]_allVars => [Run!Next]_(Run!vars)
  BY StepMaps
<1>4. QED
  BY <1>1, <1>2, <1>3, PlannerRuns, PlanInductive, ExecutionInductive, PTL
     DEF OwnPlanSpec, XSpec, ImplementsProgramRun, Run!Spec
=============================================================================
