------------------------------ MODULE MCBelady ------------------------------
(***************************************************************************)
(* Is the eviction policy as good as its comment says?  FhnMovementPlan.h  *)
(* calls it "exact optimal"; here the plan is compared with the best of all*)
(* residency schedules, found by exhaustive search.                        *)
(***************************************************************************)
EXTENDS MCMovementPlanner

(* The fewest buffers any schedule fetches from instruction i on, with the *)
(* buffers of D on the device: before each instruction any residents       *)
(* outside its working set may leave, dead buffers are freed after it.     *)
DeadAfter(i) ==
  {id \in Ids(prog) \ job.pinned :
     NextUseAfter(prog, id, i) = Never(prog)}

FewestFetches[i \in 1..(Size(prog) + 1), D \in SUBSET Ids(prog)] ==
  IF i > Size(prog) THEN 0
  ELSE LET working == WorkingSet(prog, i)
           keeps == {K \in SUBSET (D \ working) :
                       job.budget = 0 \/ Units(K \cup working) <= job.budget}
       IN  Cardinality(Operands(prog, i) \ D)
           + Min({FewestFetches[i + 1, (K \cup working) \ DeadAfter(i)] :
                    K \in keeps})

FetchesLeast == stats.prefetch_count = FewestFetches[1, {}]

(* In slots, where one buffer makes as much room as another, a Belady plan  *)
(* fetches as few buffers as any schedule within the budget could: it is    *)
(* "exact optimal", "exact here, not a heuristic, because the future is     *)
(* fully known" (FhnMovementPlan.h:13-17, 44-46; the choice is made at      *)
(* FhnMovementPlan.cpp:146-170).                                            *)
BeladyBestInSlots ==
  pc = "accepted" /\ job.model = NoModel /\ job.policy = "belady" => FetchesLeast

(* Slot mode: four binary instructions over three inputs, with room for one *)
(* buffer beside the working set, so that there is something to choose;     *)
(* beside every request of MCMovementPlanner.                              *)
OptimalityJobs ==
  {r \in {Request(p, {7}, 4, "belady", NoModel) :
            p \in Shapes(3, <<"ADD_CC", "ADD_CC", "ADD_CC", "ADD_CC">>)} :
     \A i \in 1..4 : r.prog.code[i].args[2] # Unused}

PlannerJobs == (FaultJobs \cup OptimalityJobs) \cup (ByteJobs \cup SlotJobs)
=============================================================================
