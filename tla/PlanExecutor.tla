---------------------------- MODULE PlanExecutor ----------------------------
(***************************************************************************)
(* Plan-aware FhnDefaultExecutor::execute (src/FHN/FhnDefaultExecutor.cpp   *)
(* lines 59-124) running the plan MovementPlanner made: around every        *)
(* instruction it evicts, allocates, prefetches, dispatches and frees, and  *)
(* any hook or kernel may fail.                                            *)
(*                                                                         *)
(* Buffers are handles into a heap that remembers, per handle, whether it   *)
(* is live, in which memory it is, and whose value it holds.  The ids of    *)
(* one action list are handled in any order: they are different buffers,    *)
(* so the order of the list makes no difference to anything stated here.    *)
(***************************************************************************)
EXTENDS MovementPlanner

CONSTANTS
  Calls,        \* the executor calls to explore, see Call
  PlannedProgram  \* stands for "the program the plan was made for"

(* foreign: the program passed to execute, when it is not the planned one;  *)
(* usable: version, table and required hooks are all there;                 *)
(* movement: the prefetch and evict hooks are there (External.cpp resolves  *)
(* them as a pair).                                                        *)
Call == [foreign  : Program \cup {PlannedProgram},
         usable   : BOOLEAN,
         movement : BOOLEAN]

ASSUME CallsAssumption == Calls \subseteq Call

VARIABLES
  call,     \* the arguments of the call
  xpc,      \* where the executor is
  inst,     \* i: the instruction being executed
  todo,     \* what is left of the action list being applied
  buffers,  \* the caller's table: id -> handle, or Null
  heap,     \* every buffer ever made, by handle
  owned     \* owned: plan-allocated ids not yet freed

xvars == <<call, xpc, inst, todo, buffers, heap, owned>>
allVars == <<vars, xvars>>

Null == 0

Buffer == [of : Nat, live : BOOLEAN, at : {"host", "device"}, holds : Nat]

Junk == 0

(* The program actually handed to execute.                                  *)
run == IF call.foreign = PlannedProgram THEN prog ELSE call.foreign

Handles == DOMAIN heap

(* The caller fills the table with its inputs: encrypted values, in host    *)
(* memory when the backend has a memory space of its own.                   *)
InputHeap ==
  [k \in DOMAIN run.inputs |->
     [of |-> run.inputs[k], live |-> TRUE, holds |-> run.inputs[k],
      at |-> IF call.movement THEN "host" ELSE "device"]]

(* The table has one slot per id up to the largest (Session.cpp:63-72).     *)
Slots == 0..Max({0} \cup Ids(run))

InputTable ==
  [id \in Slots |->
     IF id \in Inputs(run)
       THEN CHOOSE k \in DOMAIN run.inputs : run.inputs[k] = id
       ELSE Null]

XInit ==
  /\ Init
  /\ call \in Calls
  /\ xpc = "idle"
  /\ inst = 0
  /\ todo = {}
  /\ buffers = InputTable
  /\ heap = InputHeap
  /\ owned = {}

-----------------------------------------------------------------------------
(* Faults: nothing is freed; the whole table is.                            *)
FailKeepsAll(hp, bufs) ==
  /\ heap' = hp /\ buffers' = bufs /\ xpc' = "failed"
  /\ UNCHANGED <<call, inst, todo, owned>>

FailFreesAll(hp, bufs) ==
  /\ heap' = [h \in DOMAIN hp |-> [hp[h] EXCEPT !.live = FALSE]]
  /\ buffers' = [id \in DOMAIN bufs |-> Null]
  /\ xpc' = "failed"
  /\ UNCHANGED <<call, inst, todo, owned>>

(* fail(rc): free and null every owned id that still has a buffer.          *)
Fail(hp, bufs) ==
  LET dropped == {bufs[id] : id \in owned} \ {Null} IN
    /\ heap' = [h \in DOMAIN hp |->
                  IF h \in dropped THEN [hp[h] EXCEPT !.live = FALSE] ELSE hp[h]]
    /\ buffers' = [id \in DOMAIN bufs |->
                     IF id \in owned THEN Null ELSE bufs[id]]
    /\ xpc' = "failed"
    /\ UNCHANGED <<call, inst, todo, owned>>

Moved(id, place) ==
  heap' = [heap EXCEPT ![buffers[id]].at = place]

(* A plan for another number of instructions, a program of another ABI      *)
(* version or missing hooks: refused before anything is touched.            *)
Refuse ==
  /\ xpc = "idle"
  /\ ~call.usable \/ Size(prog) # Size(run)
  /\ xpc' = "refused"
  /\ UNCHANGED <<call, inst, todo, buffers, heap, owned>>

StartOn(i) ==
  /\ inst' = i
  /\ IF i > Size(run)
       THEN xpc' = "ok" /\ todo' = {}
       ELSE xpc' = "evict" /\ todo' = Range(plan[i].evict)

Start ==
  /\ xpc = "idle"
  /\ call.usable
  /\ Size(prog) = Size(run)
  /\ StartOn(1)
  /\ UNCHANGED <<call, buffers, heap, owned>>

(* Faults: the hook's work is lost; eviction discards the buffer.           *)
EvictNothing ==
  /\ xpc = "evict"
  /\ \E id \in todo : todo' = todo \ {id}
  /\ UNCHANGED <<call, xpc, inst, buffers, heap, owned>>

EvictDiscards ==
  /\ xpc = "evict"
  /\ \E id \in todo :
       /\ todo' = todo \ {id}
       /\ heap' = [heap EXCEPT ![buffers[id]].live = FALSE]
  /\ UNCHANGED <<call, xpc, inst, buffers, owned>>

EvictOne ==
  /\ xpc = "evict"
  /\ \E id \in todo :
       /\ todo' = todo \ {id}
       /\ IF call.movement THEN Moved(id, "host") ELSE UNCHANGED heap
  /\ UNCHANGED <<call, xpc, inst, buffers, owned>>

EvictFails ==
  /\ xpc = "evict" /\ todo # {} /\ call.movement
  /\ Fail(heap, buffers)

AllocOne ==
  /\ xpc = "alloc"
  /\ \E id \in todo :
       /\ todo' = todo \ {id}
       /\ heap' = Append(heap, [of |-> id, live |-> TRUE,
                                at |-> "device", holds |-> Junk])
       /\ buffers' = [buffers EXCEPT ![id] = Len(heap) + 1]
       /\ owned' = owned \cup {id}
  /\ UNCHANGED <<call, xpc, inst>>

(* A null answer has already overwritten the slot.                          *)
AllocFails ==
  /\ xpc = "alloc"
  /\ \E id \in todo : Fail(heap, [buffers EXCEPT ![id] = Null])

(* Fault: the operand stays where it was.                                   *)
PrefetchNothing ==
  /\ xpc = "prefetch"
  /\ \E id \in todo : todo' = todo \ {id}
  /\ UNCHANGED <<call, xpc, inst, buffers, heap, owned>>

PrefetchOne ==
  /\ xpc = "prefetch"
  /\ \E id \in todo :
       /\ todo' = todo \ {id}
       /\ IF call.movement THEN Moved(id, "device") ELSE UNCHANGED heap
  /\ UNCHANGED <<call, xpc, inst, buffers, owned>>

PrefetchFails ==
  /\ xpc = "prefetch" /\ todo # {} /\ call.movement
  /\ Fail(heap, buffers)

(* The lists of one instruction are applied one after the other.            *)
NextList ==
  /\ todo = {}
  /\ \/ xpc = "evict" /\ xpc' = "alloc" /\ todo' = plan[inst].alloc
     \/ xpc = "alloc" /\ xpc' = "prefetch" /\ todo' = plan[inst].prefetch
     \/ xpc = "prefetch" /\ xpc' = "dispatch" /\ todo' = {}
  /\ UNCHANGED <<call, inst, buffers, heap, owned>>

(* A kernel can use a buffer that is there, live and in device memory.      *)
Reachable(id) ==
  /\ buffers[id] # Null
  /\ heap[buffers[id]].live
  /\ heap[buffers[id]].at = "device"

Holds(id, value) == Reachable(id) /\ heap[buffers[id]].holds = value

(* The result is right when the operands are; otherwise it is junk.         *)
Dispatch ==
  /\ xpc = "dispatch"
  /\ LET r == Result(run, inst) IN
       heap' = [heap EXCEPT ![buffers[r]].holds =
                  IF \A a \in Operands(run, inst) : Holds(a, a)
                    THEN r ELSE Junk]
  /\ xpc' = "free"
  /\ todo' = plan[inst].free
  /\ UNCHANGED <<call, inst, buffers, owned>>

(* A kernel that fails may have written half a result.                      *)
KernelFails ==
  /\ xpc = "dispatch"
  /\ Fail([heap EXCEPT ![buffers[Result(run, inst)]].holds = Junk], buffers)

(* Faults: a freed id stays in owned; only owned buffers are freed.         *)
FreeStaysOwned ==
  /\ xpc = "free"
  /\ \E id \in todo :
       /\ todo' = todo \ {id}
       /\ heap' = [heap EXCEPT ![buffers[id]].live = FALSE]
       /\ buffers' = [buffers EXCEPT ![id] = Null]
  /\ UNCHANGED <<call, xpc, inst, owned>>

FreeOnlyOwned ==
  /\ xpc = "free"
  /\ \E id \in todo :
       /\ todo' = todo \ {id}
       /\ heap' = IF id \in owned THEN [heap EXCEPT ![buffers[id]].live = FALSE]
                                 ELSE heap
       /\ buffers' = [buffers EXCEPT ![id] = Null]
       /\ owned' = owned \ {id}
  /\ UNCHANGED <<call, xpc, inst>>

FreeOne ==
  /\ xpc = "free"
  /\ \E id \in todo :
       /\ todo' = todo \ {id}
       /\ heap' = [heap EXCEPT ![buffers[id]].live = FALSE]
       /\ buffers' = [buffers EXCEPT ![id] = Null]
       /\ owned' = owned \ {id}
  /\ UNCHANGED <<call, xpc, inst>>

(* Fault: an instruction is skipped.                                        *)
NextButOne ==
  /\ xpc = "free"
  /\ todo = {}
  /\ StartOn(inst + 2)
  /\ UNCHANGED <<call, buffers, heap, owned>>

NextInstruction ==
  /\ xpc = "free"
  /\ todo = {}
  /\ StartOn(inst + 1)
  /\ UNCHANGED <<call, buffers, heap, owned>>

Execute ==
  \/ Start \/ Refuse
  \/ EvictOne \/ EvictFails
  \/ AllocOne \/ AllocFails
  \/ PrefetchOne \/ PrefetchFails
  \/ NextList
  \/ Dispatch \/ KernelFails
  \/ FreeOne \/ NextInstruction

(* First analyze, then, on an accepted plan, execute.                       *)
XNext ==
  \/ Next /\ UNCHANGED xvars
  \/ pc = "accepted" /\ Execute /\ UNCHANGED vars

XSpec == XInit /\ [][XNext]_allVars

-----------------------------------------------------------------------------
(* Every variable of the executor keeps its type.                           *)
XTypeOK ==
  /\ call \in Call
  /\ xpc \in {"idle", "refused", "evict", "alloc", "prefetch", "dispatch",
              "free", "ok", "failed"}
  /\ inst \in 0..(Size(run) + 1)
  /\ todo \subseteq Ids(prog)
  /\ heap \in Seq(Buffer)
  /\ buffers \in [Slots -> Handles \cup {Null}]
  /\ owned \subseteq Ids(prog)

(* When an instruction is dispatched, every operand is live, in device      *)
(* memory and holds the value of its id, and the result goes to a live      *)
(* device buffer that is none of the operands; no hook is ever handed a     *)
(* null or freed buffer, so nothing is freed twice or used after free, and  *)
(* no allocation overwrites a live handle (FhnDefaultExecutor.cpp:85-120).   *)
OperandsInPlace ==
  LET r == Result(run, inst) IN
    /\ Reachable(r)
    /\ \A a \in Operands(run, inst) :
         Holds(a, a) /\ buffers[a] # buffers[r]

CallsGetTheirBuffers ==
  /\ xpc = "dispatch" => OperandsInPlace
  /\ \A id \in todo :
       /\ xpc \in {"evict", "prefetch", "free"} =>
            buffers[id] # Null /\ heap[buffers[id]].live
       /\ xpc = "alloc" => buffers[id] = Null

(* owned is exactly the set of ids whose plan-allocated buffer is live, so  *)
(* fail() frees all of them, and none of the caller's                       *)
(* (FhnDefaultExecutor.cpp:71-80, 93, 119).                                 *)
PlanMade(h) == h > Len(run.inputs)

OwnedIsExact ==
  xpc # "failed" =>
    /\ {h \in Handles : PlanMade(h) /\ heap[h].live}
         = {buffers[id] : id \in owned}
    /\ \A id \in owned : heap[buffers[id]].of = id

(* "On failure every plan-allocated id not yet freed is freed and nulled"   *)
(* (FhnDefaultExecutor.h:30-33), and the caller's pinned buffers survive; a  *)
(* success leaves exactly the pinned buffers, each with its own value       *)
(* (FhnMovementPlan.h:59-61; Session.cpp:109-133 adopts them).              *)
KeepsItsValue(id) ==
  /\ buffers[id] # Null
  /\ heap[buffers[id]].live
  /\ heap[buffers[id]].holds = id

OutcomeContract ==
  /\ xpc \in {"failed", "refused"} =>
       /\ \A h \in Handles : PlanMade(h) => ~heap[h].live
       /\ \A id \in Slots : buffers[id] # Null => heap[buffers[id]].live
       /\ \A id \in Inputs(run) \cap job.pinned : KeepsItsValue(id)
  /\ xpc = "ok" /\ Size(run) > 0 =>
       /\ {heap[h].of : h \in {g \in Handles : heap[g].live}}
            = Ids(run) \cap job.pinned
       /\ \A id \in Ids(run) \cap job.pinned : KeepsItsValue(id)

(* What the budget is for: the buffers actually in device memory never      *)
(* exceed it, in the middle of an instruction's actions included: evict     *)
(* comes before alloc, and alloc before prefetch                            *)
(* (FhnDefaultExecutor.cpp:85-98, FhnMovementPlan.h:29-31).                  *)
OnDevice == {heap[h].of : h \in {g \in Handles : /\ heap[g].live
                                                 /\ heap[g].at = "device"}}

DeviceWithinBudget ==
  xpc # "idle" /\ call.movement /\ job.budget > 0 =>
    Units(OnDevice) <= job.budget

(* The executor answers every call made with an accepted plan.              *)
ExecutionEnds ==
  <>(pc = "rejected" \/ xpc \in {"ok", "failed", "refused"})

(* A plan made for another program is rejected "instead of dispatching      *)
(* against it" (FhnDefaultExecutor.cpp:65-67; FhnMovementPlan.h:81 "Used to  *)
(* reject executing a plan against a different program"): no kernel ever    *)
(* runs on buffers that such a plan freed, or never brought in.             *)
StalePlanNeverDispatches ==
  xpc = "dispatch" /\ run # prog =>
    \A id \in WorkingSet(run, inst) : Reachable(id)

-----------------------------------------------------------------------------
(* The plan-aware executor implements ProgramRun: seen from the caller, the *)
(* movement, the budget and the plan are invisible.                         *)
LiveIds == {heap[h].of : h \in {g \in Handles : heap[g].live}}

Evaluated ==
  CASE inst = 0 -> 0
    [] xpc = "free" \/ inst > Size(run) -> Min({inst, Size(run)})
    [] OTHER -> inst - 1

Run == INSTANCE ProgramRun WITH
  program <- run,
  pinned <- job.pinned,
  evaluated <- Evaluated,
  held <- LiveIds,
  outcome <- CASE xpc = "ok" -> "ok"
               [] xpc \in {"failed", "refused"} -> "failed"
               [] OTHER -> "running"

ImplementsProgramRun == Run!Spec

-----------------------------------------------------------------------------
(* Why all this holds when the plan is executed on the program it was made  *)
(* for: between any two steps of one instruction the buffers are where the  *)
(* replay of the plan puts them.                                            *)
Executing == xpc \in {"evict", "alloc", "prefetch", "dispatch", "free"}

Started == Executing \/ xpc = "ok"

Gone(i) == UNION {plan[j].free : j \in 1..(i - 1)}

(* The ids that have a buffer.                                              *)
Alive ==
  LET kept == DefinedBefore(inst) \ Gone(inst)
      act == plan[inst]
  IN  CASE xpc = "alloc" -> kept \cup (act.alloc \ todo)
        [] xpc \in {"prefetch", "dispatch"} -> kept \cup act.alloc
        [] xpc = "free" -> (kept \cup act.alloc) \ (act.free \ todo)
        [] OTHER -> kept

(* Those in device memory, when the backend has a memory space of its own.  *)
Placed ==
  LET before == DeviceAfter[inst - 1]
      act == plan[inst]
      spared == before \ Range(act.evict)
  IN  CASE xpc = "evict" -> spared \cup (before \cap todo)
        [] xpc = "alloc" -> spared \cup (act.alloc \ todo)
        [] xpc = "prefetch" -> spared \cup act.alloc \cup (act.prefetch \ todo)
        [] xpc = "dispatch" -> DeviceDuring(before, act)
        [] xpc = "free" -> DeviceDuring(before, act) \ (act.free \ todo)
        [] OTHER -> before

(* Those whose value has been computed, or came with the call.              *)
Computed == DefinedBefore(IF xpc = "free" THEN inst + 1 ELSE inst)

(* Each action list is worked off from the plan.                            *)
InStep ==
  /\ Executing => inst \in 1..Size(prog)
  /\ xpc = "ok" => inst = Size(prog) + 1
  /\ xpc = "evict" => todo \subseteq Range(plan[inst].evict)
  /\ xpc = "alloc" => todo \subseteq plan[inst].alloc
  /\ xpc = "prefetch" => todo \subseteq plan[inst].prefetch
  /\ xpc = "free" => todo \subseteq plan[inst].free
  /\ xpc \notin {"evict", "alloc", "prefetch", "free", "failed"} => todo = {}

(* The table and the live part of the heap are two views of one bijection.  *)
TableMatchesHeap ==
  /\ \A id \in Slots : buffers[id] # Null =>
       heap[buffers[id]].live /\ heap[buffers[id]].of = id
  /\ \A h \in Handles : heap[h].live =>
       heap[h].of \in Slots /\ buffers[heap[h].of] = h
  /\ DOMAIN run.inputs \subseteq Handles

BuffersFollowPlan ==
  /\ \A id \in Slots : buffers[id] # Null <=> id \in Alive
  /\ \A id \in Alive : PlanMade(buffers[id]) <=> id \notin Inputs(prog)
  /\ owned = Alive \ Inputs(prog)
  /\ Placed \subseteq Alive
  /\ \A id \in Alive :
       heap[buffers[id]].at = "device" <=> ~call.movement \/ id \in Placed
  /\ \A id \in Alive \cap Computed : heap[buffers[id]].holds = id

Untouched == buffers = InputTable /\ heap = InputHeap /\ owned = {}

XInv ==
  /\ run = prog
  /\ XTypeOK
  /\ xpc # "idle" => pc = "accepted"
  /\ xpc = "idle" => inst = 0
  /\ xpc \in {"idle", "refused"} => Untouched
  /\ InStep
  /\ Started => TableMatchesHeap /\ BuffersFollowPlan
  /\ xpc = "failed" => OutcomeContract /\ DeviceWithinBudget
=============================================================================
