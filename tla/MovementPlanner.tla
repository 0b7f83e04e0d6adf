--------------------------- MODULE MovementPlanner ---------------------------
(***************************************************************************)
(* FhnMovementPlan::analyze (src/FHN/FhnMovementPlan.cpp): one pass over a  *)
(* straight-line program that decides, for every instruction, which buffers *)
(* leave the device before it, which are allocated and fetched for it, and  *)
(* which are freed after it, keeping the device within a budget.            *)
(*                                                                         *)
(* One behaviour is one call.  A call answers "accepted" (the plan in plan) *)
(* or "rejected" (std::nullopt).  The steps are the iterations of its       *)
(* loops: one per instruction of level inference, and per instruction of    *)
(* planning one for the feasibility test, one per evicted buffer, one for   *)
(* alloc and prefetch, one for the frees.                                   *)
(***************************************************************************)
EXTENDS FhnProgram, Weights

CONSTANTS
  Jobs,     \* the calls to explore: a set of requests, see Job
  NoModel   \* stands for model == nullptr: slot mode

(* FhnLevelModel: bytes[l + 1] is the size of a buffer at level l; effect   *)
(* says what an opcode does to the level, "undeclared" when the map has no  *)
(* entry, "unknown" for a value outside FhnLevelEffect.                     *)
Effects == {"preserve", "consume", "set_param0", "undeclared", "unknown"}

LevelModel ==
  [fresh : Int, bytes : Seq(Nat), effect : [OpCodes -> Effects]]

Policies == {"belady", "lru"}

(* The arguments of one call.  budget = 0 is "unlimited".                   *)
Job == [prog   : Program,
        pinned : SUBSET Nat,
        budget : Nat,
        policy : Policies,
        model  : LevelModel \cup {NoModel}]

ASSUME JobsAssumption == Jobs \subseteq Job

VARIABLES
  job,       \* the call's arguments
  pc,        \* where the call is
  pos,       \* the instruction being inferred or planned
  level,     \* level_of: the level of each id, Unleveled when not inferred
  plan,      \* plan.actions_, one record per instruction
  resident,  \* ids on the device
  units,     \* resident_units: the running total of their costs
  touched,   \* last_touch: position of the latest def, prefetch or use
  missing,   \* to_prefetch: operands of pos found off the device
  stats      \* plan.stats_

vars == <<job, pc, pos, level, plan, resident, units, touched, missing, stats>>

Unleveled == -1

Actions == [evict : Seq(Nat), alloc : SUBSET Nat,
            prefetch : SUBSET Nat, free : SUBSET Nat]

NoActions == [evict |-> << >>, alloc |-> {}, prefetch |-> {}, free |-> {}]

Stats == [high_water : Nat, high_water_bytes : Nat,
          alloc_count : Nat, prefetch_count : Nat, evict_count : Nat]

prog == job.prog

ByteMode == job.model # NoModel

-----------------------------------------------------------------------------
(* What it costs to hold an id on the device: its bytes at its level, or    *)
(* one slot.                                                               *)
cost ==
  [id \in Ids(prog) |->
     IF ByteMode THEN job.model.bytes[level[id] + 1] ELSE 1]

Units(S) == Weight(S, cost)

(* Fault: resident operands are charged again.                              *)
IncomingEverything == cost[Result(prog, pos)] + Units(Operands(prog, pos))

(* What is about to enter the device: the result and the missing operands.  *)
Incoming == cost[Result(prog, pos)] + Units(missing)

(* Faults: the test forgets what is about to come in; the budget is strict. *)
OverBudgetAlready == job.budget > 0 /\ units > job.budget

OverBudgetWhenFull == job.budget > 0 /\ units + Incoming >= job.budget

OverBudget == job.budget > 0 /\ units + Incoming > job.budget

-----------------------------------------------------------------------------
(* Fault: an operand of the instruction may be evicted.                     *)
CandidatesInUse == resident \ {Result(prog, pos)}

(* Eviction never touches the working set of the instruction.               *)
Candidates == resident \ WorkingSet(prog, pos)

(* Fault: the policy argument is ignored.                                   *)
PreferOldest(v, w) == touched[v] < touched[w] \/ (touched[v] = touched[w] /\ v <= w)

(* Belady evicts the farthest next use, LRU the oldest touch; both take     *)
(* the lower id on a tie.                                                   *)
Prefer(v, w) ==
  LET kv == IF job.policy = "belady" THEN -NextUseAfter(prog, v, pos - 1)
                                     ELSE touched[v]
      kw == IF job.policy = "belady" THEN -NextUseAfter(prog, w, pos - 1)
                                     ELSE touched[w]
  IN  kv < kw \/ (kv = kw /\ v <= w)

(* Fault: the scan skips a pinned victim and tries again.                   *)
IsVictimUnpinned(v) ==
  v \in Candidates \ job.pinned /\ \A w \in Candidates : Prefer(v, w)

IsVictim(v) == v \in Candidates /\ \A w \in Candidates : Prefer(v, w)

(* Fault: pinned ids die like the others.                                   *)
DeadEvenPinned(id) ==
  IF id = Result(prog, pos) THEN UsesOf(prog, id) = {}
                            ELSE NextUseAfter(prog, id, pos) = Never(prog)

(* An id whose last use has passed: an operand not used after pos, or a     *)
(* result nothing reads.  Pinned ids never die.                             *)
Dead(id) ==
  /\ id \notin job.pinned
  /\ IF id = Result(prog, pos) THEN UsesOf(prog, id) = {}
                               ELSE NextUseAfter(prog, id, pos) = Never(prog)

(* Fault: every dead id is freed again after each instruction.              *)
DeadAnywhere == {id \in Ids(prog) : Dead(id)}

DeadNow == {id \in WorkingSet(prog, pos) : Dead(id)}

(* Inputs no instruction reads: never resident, freed by the epilogue.      *)
UnusedInputs ==
  {id \in Inputs(prog) : id \notin job.pinned /\ UsesOf(prog, id) = {}}

-----------------------------------------------------------------------------
(* Level inference (byte mode only).                                        *)
ModelOK ==
  /\ job.model.fresh >= 0
  /\ Len(job.model.bytes) >= job.model.fresh + 1
  /\ \A k \in DOMAIN job.model.bytes : job.model.bytes[k] # 0

(* The lowest level among the operands; the fresh level if there are none.  *)
MinLevel ==
  Min({job.model.fresh} \cup {level[a] : a \in Operands(prog, pos)})

(* Fault: an opcode that sets the level may raise it.                       *)
ResultLevelsUnchecked ==
  LET inst == prog.code[pos]
      effect == job.model.effect[inst.op]
      wanted == CASE effect = "preserve"   -> {MinLevel}
                  [] effect = "consume"    -> {MinLevel - 1}
                  [] effect = "set_param0" -> {inst.param}
                  [] OTHER -> {}
  IN  wanted \cap (0..job.model.fresh)

(* The levels the declared effect allows the result: one, or none when the  *)
(* model does not cover the opcode, raises a level or underflows.           *)
ResultLevels ==
  LET inst == prog.code[pos]
      effect == job.model.effect[inst.op]
      wanted == CASE effect = "preserve"   -> {MinLevel}
                  [] effect = "consume"    -> {MinLevel - 1}
                  [] effect = "set_param0" ->
                       {l \in {inst.param} : l <= MinLevel}
                  [] OTHER -> {}
  IN  wanted \cap (0..job.model.fresh)

-----------------------------------------------------------------------------
Init ==
  /\ job \in Jobs
  /\ pc = "check"
  /\ pos = 1
  /\ level = [id \in Ids(prog) |-> Unleveled]
  /\ plan = [i \in Positions(prog) |-> NoActions]
  /\ resident = {}
  /\ units = 0
  /\ touched = [id \in Ids(prog) |-> 0]
  /\ missing = {}
  /\ stats = [high_water |-> 0, high_water_bytes |-> 0,
              alloc_count |-> 0, prefetch_count |-> 0, evict_count |-> 0]

device == <<resident, units, touched>>

(* The two loops over the definitions and the uses, and the model's shape.  *)
CheckProgram ==
  /\ pc = "check"
  /\ pc' = IF ~WellFormed(prog) THEN "rejected"
           ELSE IF ~ByteMode THEN "begin"
           ELSE IF ~ModelOK THEN "rejected"
           ELSE "infer"
  /\ level' = IF pc' = "infer"
                THEN [id \in Ids(prog) |->
                        IF id \in Inputs(prog) THEN job.model.fresh
                                               ELSE Unleveled]
                ELSE level
  /\ UNCHANGED <<job, pos, plan, missing, stats, device>>

InferLevel ==
  /\ pc = "infer"
  /\ pos <= Size(prog)
  /\ IF ResultLevels = {}
       THEN /\ pc' = "rejected"
            /\ UNCHANGED <<level, pos>>
       ELSE /\ \E l \in ResultLevels :
                 level' = [level EXCEPT ![Result(prog, pos)] = l]
            /\ pos' = pos + 1
            /\ UNCHANGED pc
  /\ UNCHANGED <<job, plan, missing, stats, device>>

LevelsInferred ==
  /\ pc = "infer"
  /\ pos > Size(prog)
  /\ pc' = "begin"
  /\ pos' = 1
  /\ UNCHANGED <<job, level, plan, missing, stats, device>>

(* One instruction whose working set alone exceeds the budget is infeasible.*)
BeginInstruction ==
  /\ pc = "begin"
  /\ pos <= Size(prog)
  /\ IF job.budget > 0 /\ Units(WorkingSet(prog, pos)) > job.budget
       THEN /\ pc' = "rejected"
            /\ UNCHANGED missing
       ELSE /\ pc' = "fit"
            /\ missing' = Operands(prog, pos) \ resident
  /\ UNCHANGED <<job, pos, level, plan, stats, device>>

(* One round of the eviction loop; nothing left to evict rejects the call.  *)
MakeRoom ==
  /\ pc = "fit"
  /\ OverBudget
  /\ IF Candidates = {}
       THEN /\ pc' = "rejected"
            /\ UNCHANGED <<plan, resident, units, stats>>
       ELSE \E v \in Candidates :
              /\ IsVictim(v)
              /\ plan' = [plan EXCEPT ![pos].evict = Append(@, v)]
              /\ resident' = resident \ {v}
              /\ units' = units - cost[v]
              /\ stats' = [stats EXCEPT !.evict_count = @ + 1]
              /\ UNCHANGED pc
  /\ UNCHANGED <<job, pos, level, touched, missing>>

(* Allocate the result, fetch the missing operands, note the high water.    *)
Place ==
  /\ pc = "fit"
  /\ ~OverBudget
  /\ LET new == {Result(prog, pos)} \cup missing IN
       /\ plan' = [plan EXCEPT ![pos].alloc = {Result(prog, pos)},
                               ![pos].prefetch = missing]
       /\ resident' = resident \cup new
       /\ units' = units + Incoming
       /\ touched' = [id \in DOMAIN touched |->
                        IF id \in WorkingSet(prog, pos) THEN pos
                                                        ELSE touched[id]]
       /\ stats' = [stats EXCEPT
            !.alloc_count = @ + 1,
            !.prefetch_count = @ + Cardinality(missing),
            !.high_water = Max({@, Cardinality(resident')}),
            !.high_water_bytes = IF ByteMode THEN Max({@, units'}) ELSE @]
  /\ pc' = "free"
  /\ UNCHANGED <<job, pos, level, missing>>

FreeDead ==
  /\ pc = "free"
  /\ plan' = [plan EXCEPT ![pos].free = DeadNow]
  /\ resident' = resident \ DeadNow
  /\ units' = units - Units(DeadNow)
  /\ pc' = "begin"
  /\ pos' = pos + 1
  /\ missing' = {}
  /\ UNCHANGED <<job, level, touched, stats>>

(* The epilogue and the return.                                             *)
Finish ==
  /\ pc = "begin"
  /\ pos > Size(prog)
  /\ plan' = IF Size(prog) = 0 THEN plan
             ELSE [plan EXCEPT ![Size(prog)].free = @ \cup UnusedInputs]
  /\ pc' = "accepted"
  /\ UNCHANGED <<job, pos, level, missing, stats, device>>

Answered == pc \in {"accepted", "rejected"}

Next ==
  \/ CheckProgram
  \/ InferLevel
  \/ LevelsInferred
  \/ BeginInstruction
  \/ MakeRoom
  \/ Place
  \/ FreeDead
  \/ Finish

Spec == Init /\ [][Next]_vars

-----------------------------------------------------------------------------
(* Every variable keeps its type, whatever request is being planned.  In    *)
(* particular the unsigned running totals of the code never go below zero.  *)
TypeOK ==
  /\ job \in Job
  /\ pc \in {"check", "infer", "begin", "fit", "free", "accepted", "rejected"}
  /\ pos \in 1..(Size(prog) + 1)
  /\ level \in [Ids(prog) -> Int]
  /\ plan \in [Positions(prog) -> Actions]
  /\ resident \subseteq Ids(prog)
  /\ units \in Nat
  /\ touched \in [Ids(prog) -> 0..Size(prog)]
  /\ missing \subseteq Ids(prog)
  /\ stats \in Stats

(* resident_units, kept by additions and subtractions scattered over the    *)
(* loop (FhnMovementPlan.cpp:145-210), is always the exact cost of what is   *)
(* resident: nothing is subtracted twice, forgotten or re-priced.           *)
UnitsExact == units = Units(resident)

(* At every point of the plan the buffers on the device fit in the budget,  *)
(* in slots or in bytes (FhnMovementPlan.cpp:133-176).                       *)
WithinBudget == job.budget > 0 => Units(resident) <= job.budget

(* The branch that gives up because nothing can be evicted                  *)
(* (FhnMovementPlan.cpp:169-170) is never taken: the feasibility test made   *)
(* before the loop already guarantees that evicting everything outside the  *)
(* working set makes enough room.                                           *)
VictimAlwaysExists == pc = "fit" /\ OverBudget => Candidates # {}

(* The missing operands are computed before the eviction loop and used      *)
(* after it (FhnMovementPlan.cpp:128-190): evictions must not make the list  *)
(* stale.                                                                  *)
MissingStaysExact ==
  pc = "fit" => /\ missing = Operands(prog, pos) \ resident
                /\ Result(prog, pos) \notin resident

-----------------------------------------------------------------------------
(* The inductive invariant behind these: what each phase may rely on.       *)
Planning == pc \in {"begin", "fit", "free", "accepted"}

Leveled(id) == level[id] \in 0..job.model.fresh

DefinedBefore(i) == Inputs(prog) \cup {Result(prog, j) : j \in 1..(i - 1)}

(* Past the checks the program is well formed and, in byte mode, every id   *)
(* inferred so far has a level the size table covers.                       *)
ChecksHold ==
  /\ pc = "infer" \/ Planning => WellFormed(prog)
  /\ ByteMode /\ (pc = "infer" \/ Planning) => ModelOK
  /\ pc = "infer" => ByteMode /\ \A id \in DefinedBefore(pos) : Leveled(id)
  /\ ByteMode /\ Planning => \A id \in Ids(prog) : Leveled(id)

(* Nothing is resident before planning; while planning, only ids already    *)
(* defined are, so the result about to be allocated is not.                 *)
ResidentsDefined ==
  /\ pc \in {"check", "infer"} => resident = {} /\ units = 0
  /\ pc \in {"begin", "fit"} => resident \subseteq DefinedBefore(pos)
  /\ pc = "free" => resident \subseteq DefinedBefore(pos + 1)

(* Between two steps of one instruction.                                    *)
InstructionUnderWay ==
  /\ pc = "check" => pos = 1
  /\ pc \in {"fit", "free"} => pos <= Size(prog)
  /\ pc = "fit" =>
       /\ missing = Operands(prog, pos) \ resident
       /\ job.budget > 0 => Units(WorkingSet(prog, pos)) <= job.budget
  /\ pc = "free" => WorkingSet(prog, pos) \subseteq resident

IInv ==
  /\ TypeOK
  /\ ChecksHold
  /\ ResidentsDefined
  /\ InstructionUnderWay
  /\ UnitsExact
  /\ WithinBudget

-----------------------------------------------------------------------------
(* What a plan promises, stated on the plan alone.  Replaying its actions   *)
(* gives the buffers on the device after each instruction.                  *)
DeviceDuring(before, act) ==
  (before \ Range(act.evict)) \cup act.alloc \cup act.prefetch

DeviceAfter[i \in 0..Size(prog)] ==
  IF i = 0 THEN {}
  ELSE DeviceDuring(DeviceAfter[i - 1], plan[i]) \ plan[i].free

(* Each instruction finds its whole working set on the device; only         *)
(* buffers that are there and not needed are evicted, none twice; only      *)
(* absent ones are brought in.                                              *)
ResidencySound ==
  \A i \in Positions(prog) :
    LET before == DeviceAfter[i - 1]
        act == plan[i]
    IN  /\ WorkingSet(prog, i) \subseteq DeviceDuring(before, act)
        /\ Range(act.evict) \subseteq before \ WorkingSet(prog, i)
        /\ Cardinality(Range(act.evict)) = Len(act.evict)
        /\ act.alloc \cap before = {}
        /\ act.prefetch \cap (before \ Range(act.evict)) = {}

(* Every id the plan owns is freed exactly once, after its last use; a      *)
(* pinned id never is.                                                      *)
LifetimesComplete ==
  \A id \in Ids(prog) :
    LET frees == {i \in Positions(prog) : id \in plan[i].free} IN
      IF id \in job.pinned \/ Size(prog) = 0
        THEN frees = {}
        ELSE /\ Cardinality(frees) = 1
             /\ \A i \in frees : \A u \in UsesOf(prog, id) : u <= i

(* A plan that analyze hands out (FhnMovementPlan.h:29-46) is sound.         *)
AcceptedPlanIsSound ==
  pc = "accepted" => ResidencySound /\ LifetimesComplete

(* Why it is: what each instruction's actions are once settled, in terms of *)
(* the replay of those before it.                                           *)
Expired(i) ==
  {id \in WorkingSet(prog, i) :
     id \notin job.pinned /\ \A u \in UsesOf(prog, id) : u <= i}

EvictsSpares(i) ==
  LET evict == plan[i].evict IN
    /\ Range(evict) \subseteq DeviceAfter[i - 1] \ WorkingSet(prog, i)
    /\ \A j, k \in DOMAIN evict : evict[j] = evict[k] => j = k

FetchesMissing(i) ==
  LET act == plan[i]
      during == DeviceDuring(DeviceAfter[i - 1], act)
  IN  /\ act.alloc = {Result(prog, i)}
      /\ act.prefetch = Operands(prog, i) \ (DeviceAfter[i - 1] \ Range(act.evict))
      /\ job.budget > 0 => Units(during) <= job.budget

Epilogue(i) == IF pc = "accepted" /\ i = Size(prog) THEN UnusedInputs ELSE {}

Settled(i) ==
  /\ DeviceAfter[i - 1] \subseteq DefinedBefore(i)
  /\ EvictsSpares(i)
  /\ FetchesMissing(i)
  /\ plan[i].free = Expired(i) \cup Epilogue(i)

(* The plan grows front to back, in step with what is resident.             *)
PlanFollowsResident ==
  /\ pc = "accepted" => pos = Size(prog) + 1
  /\ Planning => \A i \in 1..(pos - 1) : Settled(i)
  /\ pc \in {"check", "infer"} => \A i \in Positions(prog) : plan[i] = NoActions
  /\ pc \in {"begin", "fit", "free"} =>
       \A i \in Positions(prog) : i > pos => plan[i] = NoActions
  /\ pc = "begin" =>
       /\ resident = DeviceAfter[pos - 1]
       /\ pos <= Size(prog) => plan[pos] = NoActions
  /\ pc = "fit" =>
       /\ DeviceAfter[pos - 1] \subseteq DefinedBefore(pos)
       /\ EvictsSpares(pos)
       /\ plan[pos] = [NoActions EXCEPT !.evict = plan[pos].evict]
       /\ resident = DeviceAfter[pos - 1] \ Range(plan[pos].evict)
  /\ pc = "free" =>
       /\ DeviceAfter[pos - 1] \subseteq DefinedBefore(pos)
       /\ EvictsSpares(pos)
       /\ FetchesMissing(pos)
       /\ plan[pos].free = {}
       /\ resident = DeviceDuring(DeviceAfter[pos - 1], plan[pos])

PlanInv == IInv /\ PlanFollowsResident

-----------------------------------------------------------------------------
(* A level table that agrees with the declared effects on every             *)
(* instruction, stated without computing it.                                *)
LevelRule(lv, i) ==
  LET inst == prog.code[i]
      eff == job.model.effect[inst.op]
      least == Min({job.model.fresh} \cup {lv[a] : a \in Operands(prog, i)})
  IN  \/ eff = "preserve" /\ lv[inst.res] = least
      \/ eff = "consume" /\ lv[inst.res] = least - 1
      \/ /\ eff = "set_param0"
         /\ lv[inst.res] = inst.param
         /\ inst.param <= least

LevelTable(lv) ==
  /\ \A id \in Inputs(prog) : lv[id] = job.model.fresh
  /\ \A i \in Positions(prog) : LevelRule(lv, i)

CostUnder(lv) ==
  [id \in Ids(prog) |-> IF ByteMode THEN job.model.bytes[lv[id] + 1] ELSE 1]

(* The request can be planned: the program is well formed, its level trace  *)
(* is valid, and every single working set fits in the budget.               *)
Feasible ==
  /\ WellFormed(prog)
  /\ ByteMode => ModelOK
  /\ \E lv \in [Ids(prog) -> IF ByteMode THEN 0..job.model.fresh ELSE {0}] :
       /\ ByteMode => LevelTable(lv)
       /\ \A i \in Positions(prog) :
            job.budget > 0 =>
              Weight(WorkingSet(prog, i), CostUnder(lv)) <= job.budget

(* analyze answers nullopt exactly on the requests its documentation names  *)
(* (FhnMovementPlan.h:69-73): no feasible request is turned down, no         *)
(* infeasible one gets a plan.                                              *)
RejectsExactlyInfeasible ==
  Answered => (pc = "accepted" <=> Feasible)

(* Why it does: level inference has no choice, and it refuses only when     *)
(* there is no table at all.                                                *)
Inferred == IF pc = "infer" THEN pos - 1 ELSE Size(prog)

LevelsForced ==
  ByteMode /\ (pc = "infer" \/ Planning) =>
    /\ \A id \in Inputs(prog) : level[id] = job.model.fresh
    /\ \A i \in 1..Inferred : LevelRule(level, i)
    /\ \A lv \in [Ids(prog) -> 0..job.model.fresh] :
         LevelTable(lv) =>
           \A id \in DefinedBefore(Inferred + 1) : lv[id] = level[id]

FeasibleInv ==
  /\ PlanInv
  /\ LevelsForced
  /\ pc = "rejected" => ~Feasible
=============================================================================
