# fhenomenon: models and proofs

TLA+ models of fhenomenon, a C++ runtime for homomorphic encryption, with the
TLC configurations that check them and TLAPS proofs about them. Paths such as
`FhnMovementPlan.cpp:133` name lines of the repository.

## 1. The system

A program written with `Fhenon` values either computes at once, or records its
operations in a `Session`; the recorded graph is optimised, lowered to a
straight-line program (FHN IR), planned, and executed by a backend's kernels.

    Fhenon ops --record--> Session --Scheduler--> AST --LowerToFhnProgram--> FhnProgram
                                                                            |
          backend (Builtin / External .so / Cheddar) <--kernels, hooks-- FhnDefaultExecutor
                                                                            ^
                                                        FhnMovementPlan::analyze

| Component | State | Operations | Correct when |
|---|---|---|---|
| FHN IR (`fhn_program.h`) | instructions, input and output ids | build, free | single assignment, definition before use |
| Movement planner (`FhnMovementPlan.cpp`) | resident set, running cost, per-instruction actions | `analyze` | device within budget; operands on the device; each buffer freed once, after its last use; rejects exactly what cannot be planned |
| Executor (`FhnDefaultExecutor.cpp`) | buffer table, owned ids | `execute` (plain and plan-aware), `decompose` | the caller sees an ordinary execution; a failure at any call leaks nothing; fused opcodes mean what the IR says |
| Session (`Session.*`) | recorded operations, entity map, poison flag | `run`, `optimize`, `executeThroughFhnRuntime`, write-back | values after a run are those of immediate execution, or the run fails without touching them |
| Fhenon (`Fhenon.*`) | plaintext cache, ciphertext, owner tag | constructors, assignments, operators, `belong`, `decrypt` | a ciphertext has one owner; copies do not alias |
| Scheduler (`Scheduler/*`) | AST roots, graph, passes | `buildAST`, passes, `lower` | the lowered program is well formed and means what was recorded |
| Backends (`Backend/*`) | singleton, buffers, loaded library | transform, add, multiply, decrypt; load and unload | every buffer is freed once, by the library that made it, while it is loaded |
| ToyFHE (`Crypto/ToyFHE.cpp`, `ToyFheKernels.cpp`) | scaled residues | encode, add, multiply, decode | decoding recovers the value within range |
| Cheddar backend (`FHN/cheddar/CheddarFhnBackend.cpp`) | buffers, prepared rotation keys | 20 kernels, encryption, decryption | kernels compute what the opcodes say, and their guards catch what the library would assert, which would end the process |
| TFHE, benchmarks, parameters | | | not modelled, see section 8 |

Everything runs in the caller's thread (the current session is `thread_local`).
What is hard is not concurrency but long interactions: failures between two
steps, state computed before a loop and used after it, ownership passing
between caller, plan and executor, records and plans that outlive what they
describe. `PROJECT.json` lists every such hazard at its line, with the property
that covers it or the reason why none does.

How the parts interact: `Fhenon` operators call the current `Session`
(recording) or the backend (at once); `Session::run` calls the user's lambda,
then `optimize`, which builds the graph, lowers it, plans it with
`FhnMovementPlan::analyze`, executes it with `FhnDefaultExecutor` through the
hooks and the context of the backend's `FhnRuntime`, and writes buffers back
into the entities. Entities, session and backend share buffers through
`shared_ptr`s whose deleters keep the backend's context and library alive.

## 2. Modules

    FhnProgram ---+-- MovementPlanner --+-- PlanExecutor ==> ProgramRun
    Weights ------+
    FhnProgram ------ KernelDispatch ==> InstructionSemantics
    SessionEntities --+-- SessionRecording --+-- SessionRun
    FhnProgram -------+-- ExecutionGraph ----+
    SessionSequence
    KernelOpcodes ---------------+-- CheddarKernels --+
    SlotVectors -- KernelCalls --+                    |
                                 +-- ToyVectors ------+-- Kernels ==> KernelContract
                                     ToyFHE ----------+
    BackendLifetime

    theorems:
    MovementPlannerProofs -- ExecutorProofs
    SessionRunProofs -- SessionMeaningProofs
    SessionSequenceProofs   KernelDispatchProofs   BackendLifetimeProofs
    KernelProofs (of Kernels: ToyFHE, CheddarKernels, the contract)

`==>` is refinement: the abstract specification is instantiated with a mapping
and checked as a property of the detailed one. The `MC...` modules give the
constants of a specification their values for TLC. A `...Proofs` module extends
the module it is named for; the inductive invariant it proves stands at the end
of that module, under a heading that begins with "Why" (for kernels, in
`KernelProofs`). The invariant of `SessionMeaningProofs` has a module of its own,
`SessionMeaning`, without proofs: `MCSession` extends it, so that adding
`INVARIANT MeaningInv` to `Session.cfg` has TLC check it.

| Module | Models | State | Actions |
|---|---|---|---|
| `FhnProgram` | `fhn_program.h`; the checks and def-use facts of `analyze` | | |
| `Weights` | the cost of a set of buffers, without recursion | | |
| `MovementPlanner` | `FhnMovementPlan::analyze` | the locals of `analyze`: `level_of`, the action lists, the resident set, `resident_units`, `last_touch`, `to_prefetch`, statistics | one per loop iteration: checks, level inference, feasibility test, one eviction, alloc and prefetch, frees, epilogue |
| `PlanExecutor` | plan-aware `FhnDefaultExecutor::execute`, run after the planner | the buffer table, `owned`, a heap with the place and the value of every buffer | one per hook or kernel call, with its failing twin |
| `ProgramRun` | what an execution promises its caller | evaluated instructions, buffers held | reserve, evaluate, release, succeed, fail |
| `KernelDispatch` | plain `execute`, `decompose` | the calls an instruction still has to make, the contents of buffers as terms | one per kernel call, with its failing twin |
| `InstructionSemantics` | what opcodes mean (`fhn_program.h:49-53`), one instruction at a time | | evaluate, succeed, fail |
| `SessionEntities` | entities, recorded operations, the reference meaning of a recording | | |
| `SessionRecording` | `Fhenon` operators, constructors, assignments, destructor while `Session::run` executes the lambda | `entity_map_`, `operations_`, `poisoned_`, the variables and what each should hold | one per kind of statement; variables dying; the lambda ending or throwing |
| `ExecutionGraph` | `buildAST`, `LowerToFhnProgram::lower`, `ASTNode::evaluate`, `Operation::execute` | nodes, entity-to-node map, roots, the recursion's stack, ids, bindings, code | one per operation, node visited, node lowered or evaluated |
| `SessionRun` | `Session::run`, `optimize`, `executeThroughFhnRuntime`, `endRun` | all of the session's, and `input_hold` | refusal, the walks, provisioning, execution, write-back, the end of the run |
| `SessionMeaning` | nothing of its own: what the state of `SessionRun` means in terms of the recording | | |
| `BackendLifetime` | `ExternalBackend`'s loader, `LibCore`, buffer deleters; `BuiltinBackend`; ownership by entities | backends by address, library handles, contexts, buffers, pending destructor calls | one per loader step with its failure; encryption; assignment; destructors one call at a time |
| `SessionSequence` | `Session::create`, `run`, `endRun` of several sessions; `Fhenon` assignments and `belong`, recorded or immediate | current session, active flags, recorded operations, the nest of `run` calls, plaintext mirror and ciphertext of each variable | one per statement kind, create, begin, return, throw, catch |
| `Kernels` | the three of them side by side, and what their buffers mean to the contract | which of the three a behaviour is about | one step of that one |
| `KernelContract` | what a kernel promises (`fhn_backend_api.h:30-40`), opcode meanings over slots | what each buffer means, and which opcodes it is a fit operand of | success, refusal, the host's reads and writes |
| `KernelCalls`, `SlotVectors`, `KernelOpcodes` | a host that encrypts, then has kernels called; vectors of slots; the opcodes by what they ask of an operand | buffers, the last call | |
| `CheddarKernels` | `CheddarFhnBackend.cpp` | buffers (kind, ciphertext, message; of a ciphertext also whether it is a product still to be relinearised, and whether anything is known of it), `prepared_rotation_keys`, whether the library has ended the process and over what | one per kernel and data-plane export |
| `ToyVectors` | `ToyFheKernels.cpp` on buffers of either kind | buffers (kind, ciphertext, vector); the call a loop over slots is in and its local `out` | one per kernel and data-plane export; one per loop iteration and one for the move of `out` into the result |
| `ToyFHE` | `toyfhe::Engine` and its kernels on single ciphertexts | the ciphertext in each buffer, as what `decodeRaw` returns, its scale and encoding; beside it the exact value and a bound on the error | one per kernel and per way to encrypt |

Correspondence worth knowing when reading them:

* Positions are 1-based in the models, 0-based in the code.
* Buffer contents and plaintexts are terms: what was computed from what. Two
  different computations are never equal by accident.
* In `PlanExecutor` the ids of one action list are handled in any order.
* A statement of a lambda is one action; the temporary an expression returns
  lives and dies within it.
* A call of `analyze` that succeeds is followed by the executor's; in
  `SessionRun`, `analyze` is the test `WellFormed`, because with an unlimited
  budget in slot mode nothing else can reject a program (the planner's run
  checks exactly that), and the execution gives every id its value, which is what
  `OutcomeContract` and `ImplementsSemantics` establish of the executor.
* `SessionSequence` takes one run's outcome from `SessionRun`: a run that
  succeeds has the effect of its statements in order, on the ciphertexts, one
  that fails has none.
* In `CheddarKernels` a ciphertext is a level (`GetNP`), a power of the scale and
  its slots. Operations of the library are external: modelled from the calls,
  and from the assertions the adapter's comments name. `Told` lists what the
  repository tells of it: relinearising a product, rescaling with a level left,
  everything else on a ciphertext that is no product. The kernels hand over other
  operands just as well; then the model does either of two things, end the process or
  leave a ciphertext nothing is known of (`known`). One raw key switch (MULT_KEY) leaves
  such a ciphertext always.
* In `ToyVectors` a ciphertext is the integer it encrypts; `ToyFHE` has the
  arithmetic. A vector kernel is entered, computes one slot per step from the buffers
  as they are at that step, and moves its local vector into the result; no other
  call comes in between, as everything runs in one thread.
* Operators whose comment begins with "Fault" are not part of a specification.
  Each states a plausible mistake in the definition that follows it, and
  replacing that definition by it makes a property of section 3 fail.

## 3. Runs and what they show

| Run (`.cfg`) | States | Checks |
|---|---|---|
| `PlanExecutor` | 333 k | planner: `TypeOK`, `UnitsExact`, `WithinBudget`, `VictimAlwaysExists`, `MissingStaysExact`, `AcceptedPlanIsSound`, `RejectsExactlyInfeasible`, `BeladyBestInSlots`; executor: `XTypeOK`, `CallsGetTheirBuffers`, `OwnedIsExact`, `OutcomeContract`, `DeviceWithinBudget`, `ImplementsProgramRun`, `ExecutionEnds` |
| `KernelDispatch` | 468 k | `TypeOK`, `RefusesOnlyInexpressible`, `ImplementsSemantics` |
| `Session` | 1.0 M | `TypeOK`, `NothingDeadIsEvaluated`, `LoweredIsPlannable`, `GraphMeansRecording`, `SuccessIsImmediate`, `FailureTouchesNothing`, `BuffersOwnedOnce` |
| `SessionSequence` | 1.9 M | `TypeOK`, `EffectsInOrder`, `FailedRunChangesNothing` |
| `BackendLifetime` | 634 k | `TypeOK`, `CallsReachLoadedCode`, `FreedOnceUnheld`, `NothingLeaks`, `OwnerTagSeparates` |
| `Kernels` | 1.1 M | `TypeOK`, `ScaleDiscipline`, `NoiseBounded`, `DecryptsRight`, `GuardsCatchAssertions`, `ImplementsKernelContract` |
| `StalePlan`, `InPlace`, `SessionUnencrypted`, `SessionCopy`, `BackendReuse`, `VectorScalars` | | one statement of a comment or a test each, which the code does not keep: section 4 |

**Planner.** `AcceptedPlanIsSound` replays the plan by itself: every working set
resident when its instruction runs, evictions only of what is there and not
needed, every owned id freed once and after its last use. `RejectsExactlyInfeasible`
compares the answer with a definition of feasibility that computes no plan: a
rejected request really has no level table or an instruction that cannot fit.
`VictimAlwaysExists` shows the give-up branch of the eviction loop dead.
Bounds: all programs of three instructions over three inputs with any one or
two operands each (slots; budgets unlimited, below, at and above the working
set; both policies; two ways to pin), over two inputs with level-consuming and
level-preserving opcodes (bytes), and a malformed request for every test in the
code. Three instructions are the shortest program in which a buffer is
evicted, fetched again and freed; a buffer id plays no role beyond tie-breaking.

`BeladyBestInSlots` compares the plan's fetches with the best residency
schedule an exhaustive search finds (`MCBelady`), also for programs of four
binary instructions with room for one buffer beside the working set. It says nothing of bytes: where
buffers differ in size, farthest next use is not the best choice (three fetches
where two suffice, in a program of four instructions), whatever the comment.

**Executor.** In the same run, the plans of the smaller requests are executed: plans of the planner model, budgets tight enough to evict and
fetch again, byte mode, unlimited, the empty program; with movement hooks,
without, and unusable calls; every hook and kernel call may fail.

**Dispatch.** All programs of two instructions, the second possibly in place
over the first's result, under every table over eight primitives, and a full
table. The second operand is not the result (section 4); two instructions
suffice because an instruction's expansion reads no other state.

**Session.** Every lambda of up to three statements over two caller variables,
two local addresses and two expression objects, everything encrypted, with an
FHN runtime; up to two statements without a runtime, or with a variable that is
foreign or was never encrypted. Two names and an expression object are what
swaps, aliasing, address reuse and write-after-read need. One run of one
session, see below for several; `clobbered` and unencrypted callers are excluded from
`SuccessIsImmediate` because the runs of section 4 show the code departs there.

**Backend lifetime.** Three addresses, three entities, one library that exports
everything or fails at each loader step, three contexts, three buffers;
addresses and entities are interchangeable (symmetry). Three of each let a
buffer outlive its backend while another backend uses the library again.
Here an address is never used for a second backend; `BackendReuse` drops that.

**Session sequences.** Two sessions, created in any order or made elsewhere, two
variables, three statements, three runs, nested in any way; every run may fail
and the lambda around it may catch that. `EffectsInOrder`: the ciphertexts are
always those some prefix of the statements would have left, all of them once no
run is in progress. Three runs let one fail between two others, or nest three
deep; a recording is kept as a list, so that dropping, repeating or reordering
shows. What the run taught, and no document says: a session that is not the
current one executes its lambda at once, so a failure in it does not undo
anything (`FailedRunChangesNothing` therefore speaks of the current session);
a nested run of the same session carries out everything recorded so far and
the rest of the outer lambda takes effect at once; if it fails and is caught,
the outer statements recorded before it are dropped. Left out of
`EffectsInOrder`, because they break it: creating a session while another has
operations pending, and `belong` on a variable whose plaintext mirror is older
than its ciphertext, to which it reverts.

**Kernels.** One run explores three machines, one per behaviour. *Cheddar*: two
buffers, two kernel calls, messages of four slots (all different), of two (one
imaginary), of one; levels 0 and 1; distances of both signs, zero and larger
than the vector; keys configured for three distances, one negative and one that
reduces to nothing. `GuardsCatchAssertions`: the guards that the code has catch
the assertions the comments name, the hard case being a rotation's key, which is
prepared at the slots of a full ciphertext and asked for at those of the operand.
It does not say that the process never ends: RESCALE and HMULT at the last level, a
product used before it is relinearised, and RELINEARIZE of anything else go to the
library unguarded, and nothing in the repository says what it does.
`ImplementsKernelContract`: what returns 0 on fit operands has computed the
opcode's meaning on every slot, left a buffer that is fit for what may
follow, and touched nothing else, whatever the levels, scales and packings. A
product is fit for nothing but its relinearisation, a ciphertext at the last level
not for RESCALE or HMULT; of a call on any other operand the contract promises only that
the other buffers stay. Two calls are the least that makes operands differ in level
and scale or leaves a product unrelinearised before the next call; the proof of section
6 removes the bound. *ToyFHE's vectors*: the same contract on buffers of both kinds,
empty ones included, vectors of four and two slots, null operands of the kernels that
look at the pointer; host calls of one-ciphertext kernels on vectors are left to
`VectorScalars` (section 4). In place: the reference loops take a step per slot, so a
result written before its last read would show; what cheddar does when its output
is its operand is the library's affair, and the model has it compute from what was there.

**ToyFHE.** Two buffers, up to two kernel calls in any combination, the result
possibly over an operand, all noise values up to 1, integers and fixed-point
numbers of both signs, scalars with and without a fraction, one engine with
powers of two as in the code's defaults and one with odd numbers, where halves
and centring differ. Beside each ciphertext the model keeps the exact value and
a bound on the error, computed by the header's own formula (each message times
the noise of the other, `ToyFHE.h:15-21`); `NoiseBounded` says the formula is
right along chains of calls, `DecryptsRight` that decryption is right within it.
A result out of range, or an integer with noise of delta / 2 and more, is
followed no further: the header promises nothing of it. Two calls let every
operation consume the result of every other one.

Deadlock is not checked: a call, an execution, a run of a session ends, and a
program may stop using its backends at any point.

## 4. Where the code departs from what it says

* `StalePlan`: the guard against a plan of another program compares instruction
  counts only (`FhnDefaultExecutor.cpp:68`).
* `InPlace`: in-place updates must be tolerated (`fhn_backend_api.h:38`), but the
  expansions of HROT_ADD and HCONJ_ADD overwrite an addend that is the result.
* `SessionUnencrypted`: `b = a` with `a` never encrypted succeeds instead of
  failing loudly: `b` itself provides the input's ciphertext (`Session.cpp:80`).
* `SessionCopy`: a copy of an operation's result made inside `run()` stands for
  the same entity as its source (`Fhenon.cpp:32`); writing one changes the other.
* `BackendReuse`: the owner tag is the backend's address (`External.cpp:175`); a
  backend constructed where a destroyed one was accepts its ciphertexts. The
  counterexample is a behaviour of five states: construct, encrypt, destroy,
  construct at the same address.
* `VectorScalars`: ADD_CS on a vector buffer returns 0 without adding anything to
  the vector: `toyfhe_add_cs` reads the buffer's other payload
  (`ToyFheKernels.cpp:85`; the same holds of MULT_CS, SUB_CC and NEGATE).

## 5. Fairness

`RunsSpec` (`MCPlanExecutor`) asks weak fairness of the whole next-state
relation: `analyze` and `execute` are loops of the calling thread, and a hook or kernel
returns, with success or failure. No step is assumed to succeed: failing twins are
never disfavoured. Termination then is a property of `analyze`'s eviction loop, the
one loop that is not bounded by its header, and a seeded fault (a victim scan that
skips pinned buffers) does break it. No other run states a liveness property: the
walks of a session's run are recursions over a finite graph without cycles, and the kernels'
loops go over a vector, so that they end for no reason worth checking.

## 6. Proofs

Eight modules hold theorems; `PROJECT.json` lists those a reader should know of,
with the property each one states. All of them are of the form
`Spec => []Property` for every value of the constants, or a refinement
`Spec => Abstract!Spec`. No property below is inductive as it stands; each
paragraph says what had to be added. TLC found no
counterexample to the strengthened invariants on the configurations of section 3 before they were
proved. The only assumptions are the named ones of the
modules (they give constants their types, TLC evaluates them on every run) and,
for four theorems, a hypothesis stated with the theorem.

**Costs** (the first part of `MovementPlannerProofs`): disjoint sets add up (`WeightAdds`), removing buffers
lowers the cost by exactly theirs (`WeightRemoves`). The cost of a set is defined
as the cardinality of a set of cells, `c[x]` of them for each `x`, so that this
needs no recursion. Induction over the natural numbers is used, here and in the
session proofs, as the statement that a set of naturals closed under successor
is all of them (`InductionOnSet`), which needs no operator parameter.

**Planner** (`MovementPlannerProofs`), for every set of requests (any program,
well formed or not, any pinned set, budget, policy, level model;
`JobsAssumption`). Three layers:

* `IInv` gives `TypeCorrect`, `AccountingExact`, `BudgetRespected`,
  `PrefetchListExact`, `EvictionNeverStuck`. That the running total cannot go
  below zero needs it to be exact; exactness needs that the result about to be
  placed is not resident and the missing operands are still missing; the first
  needs that only ids defined before the current instruction are resident and
  that definitions are unique; prices are naturals only if every id has a level
  the size table covers, which the checks and level inference establish.
* `PlanInv` adds that the replay of the plan so far (`DeviceAfter`, a recursive
  function) is the resident set the planner has, and that buffers are freed
  where they were last used. It gives `AcceptedPlanSound`: the plan, replayed by
  itself, has every working set on the device and no buffer freed early or twice.
* `FeasibleInv` adds that the levels inferred so far are forced: any table that
  satisfies every instruction's declared effect has them. It gives `RefusalExact`: a
  rejection is not an artefact of the order in which the code looks at things.

**Executor** (`ExecutorProofs`), on top of `PlanInv`: `ExecutorTypeCorrect`,
`CallsSound`, `OwnershipExact`, `OutcomeAsPromised`, `DeviceFits`, and the refinement
`ProgramRunImplemented`. They speak of `OwnPlanSpec`: the plan is executed on the
program it was made for. Without this they are false, which is the finding
`StalePlan`. `XInv` says what holds between any two hook or kernel calls: the buffer
table and the live part of the heap are two views of one bijection, the ids that
have a buffer (`Alive`), those on the device (`Placed`) and those computed are what
the replay of the plan says at this point of this action list, and what is still to
do of the list is part of the plan. Failure is the reason for the detail: any call
may fail, and cleanup has only `owned` to go by. Every hook and kernel call is a step
of `ProgramRun` or a stutter.

**Dispatch** (`KernelDispatchProofs`): `DispatchTypeCorrect`, `RefusalsJustified`,
and `SemanticsImplemented`: expansions into primitives that overwrite the result
buffer compute what the fused opcode means. `DispatchInv` has the one idea: the calls
still to make, applied to the contents as they are, give what all the calls of the
instruction give on the contents it began with. `SemanticsImplemented` has the hypothesis
`AddendsApart`: operands have buffers, and the addend of a HROT_ADD or HCONJ_ADD is not
the result; that is the finding `InPlace` turned into what a caller must
respect.

**Backend lifetime** (`BackendLifetimeProofs`), any number of addresses,
libraries, entities: `LifeTypeCorrect`, `CallsReachable`, `FreedOnce`, `NothingLeft`,
`TagsSeparate` (with the hypothesis `~Reuse`; with reuse it is the finding
`BackendReuse`). Destructors run one call at a time, so "exactly the needed contexts are
alive" is false in the middle of them; `LifeInv` accounts every live buffer, context and
library handle either to a holder or to the pending destructor call that will
give it up, and says that these calls are one of four chains. `AddressesAssumption`
is needed because library handles are counted.

**Sessions in sequence** (`SessionSequenceProofs`): `SequenceTypeCorrect`,
`EffectsOrdered`, `FailedRunTraceless`. `SequenceInv` relates three things a step at a time:
what is recorded and not carried out belongs to the current session, is the tail of what the
program has executed, and carrying it out (a recursive function over the
recording) leads from the ciphertexts to what all statements would leave.

**One run** (`SessionRunProofs`), any number of variables, statements, temporaries, any
lambda, failing wherever it may: `SessionTypeCorrect`, `NothingDead`, `LoweredPlannable`,
`FailureTraceless`, `OwnedOnce`. `RunInv` has four parts.
*Registered*: whatever `entity_map_` knows is alive, canonical entities map to
themselves, and an alias only ever stands for a temporary. *RecordedCanonical*: until a canonical
entity dies, the recording mentions nothing else; this is what the poison
flag is for. *Untouched*: with an FHN runtime, buffers and plaintexts of the
caller are those it came with until write-back. *Staged*: what each phase may assume,
above all `GraphIn` (an operation's children were made before it, so that both
walks terminate and ids come before uses) and `Numbered` (the ids given out are
1 to `NextId - 1`, each an input or the result of one instruction, over earlier ones).
`LoweredPlannable` then is short: the fields of `Numbered` are the planner's checks.

**What a run computes** (`SessionMeaningProofs`), under the same generality: `GraphMeant`,
that the lowered program computes what was recorded, and `ImmediateSuccess`, that a
run that succeeds leaves what computing each statement at once would have. The
reference, `After[k]`, is what each entity holds once the first `k` recorded operations
have been carried out one by one. `MeaningInv`, which is inductive given `RunInv`, relates
each phase's state to it:

* While recording (`LambdaInv`): what a name should hold is what the recording so far
  makes of the entity it stands for, sources nobody has written hold what they came
  with, and a temporary is mentioned only once the operation that computes it is recorded.
* The graph (`GraphMeans`): the root of the `k`-th operation stands for the value that
  operation writes; its children stand for what the operands held before it, that is
  in `After[k - 1]`, and were made by earlier operations, whatever has been written to
  the operands since; a leaf reads an entity nothing had written. This carries the
  read-after-write and write-after-read cases through any sequence of swaps and
  self-assignments.
* The walks (`WalkMeans`): the recursion meets no unfinished operation below a root,
  because the children's operations come earlier; so it finishes the operations in the
  recorded order, and exactly those of the roots behind it. This is `EvaluatedIsPrefix`.
* Lowering (`LoweringMeans`): nodes that share an id share a meaning (an assignment
  takes its source's id); an instruction's result stands for its opcode over what its
  arguments stand for; the first binding of an input is the leaf that reads it, the
  last binding of an entity is what it finally holds. The value of the lowered program
  is defined by recursion over instructions; that such a function exists, is unique
  and agrees with the meaning of every id is three inductions over the code.
* Buffers (`HeldMeans`, `EvaluationMeans`): what provisioning hands over, and what
  evaluation without a runtime has produced, is that meaning, if whatever the caller
  brought was encrypted; `SessionUnencrypted` (section 4) shows that the hypothesis
  is needed. Write-back then delivers it.

**ToyFHE** (`KernelProofs`), whatever the moduli, the scale, the noise bound, the
inputs and the sequence of calls: `ToyTypeCorrect`, `ScaleDisciplineHolds`
(`ToyFHE.cpp:183-184` relies on it, "every public path keeps scale_power <= 1, so the
divisor fits in 64 bits", and checks it nowhere), `NoiseBoundedHolds`,
`DecryptsRightHolds`. `EngineInvariant` adds to the error bound what makes it last:
a fixed-point number that is followed is in range, an integer is kept as its centred
residue modulo `t` with noise below `delta / 2`. Sums, multiples and fresh noise keep the
predicate `Within` (an error bound modulo `q`) as it is. A product does not: the raw
values are centred first, and only being in range makes the centred value the one that
has not wrapped (`CenteredNear`); for an integer of `t / 2` it can be the one of the
other sign, which is the same residue and the same magnitude (`CenteredWhole`). Then
`NearProduct` bounds what the rounded division leaves. For decryption, `FixedDecrypts`
and `WholeDecrypts` show that rounding to `delta` and centring modulo `t` find the
value again. Assumed are what `initialize` insists on (`ParametersAssumption`), integer
inputs and that `Lost` is not a ciphertext.

**Cheddar** (`KernelProofs`): `GuardsCatchAssertionsHold`, for every degree, set of
configured keys, message, distance and target level, and calls in any number, those with an
unknown outcome included. A distance is reduced modulo the slots of a ciphertext,
which only works if there is one: `CheddarInvariant` adds that every ciphertext and staged
message packs a slot and that prepared keys are distances of a full ciphertext
(`ConfigurationAssumption`, `StagedAssumption`). Where a guard compares what the assertion
compares, there is little to show; the substance is the rotation key.

**The kernels' contract** (`KernelProofs`): `ContractImplemented`, that both backends'
kernels are a refinement of `KernelContract`, for all of the above and any vectors. The
mapping spreads what a buffer holds over `Width` slots, so that vectors of different sizes
can be compared, and maps what is told of the library (`Told`) to what a buffer is a fit
operand of (`takes`). The argument has three parts.

* Vectors. A slot of a narrow vector is found by a remainder, so spreading has to agree
  with what the kernels do at the vectors' own sizes: slot by slot between two sizes
  (`SpreadSlotwise`), rotation by a distance of either sign that was reduced modulo the
  smaller size (`SpreadRotated`, `DistanceReduced`), rotation at the wider of two sizes
  (`RotatedSumResults`, the fused HROT_ADD). This is where sizes must divide each other:
  `PackingAssumption` says that staged messages do, as powers of two do, and that every
  vector divides `Width`. With sizes 2 and 3 the sum of two ciphertexts would have
  three slots, and the narrow one would not come round in them.
* Calls. A call that succeeds changes one buffer, to the meaning of its opcode over the
  operands as they were before (`ContractSuccess`); a refusal changes none. With this each
  kernel is a statement about the value it computes, in place or not. A call on an operand that
  is not fit leaves a ciphertext known for nothing, which is all the contract asks of it. The
  reference loops are stutters of the contract until the last step, which moves the
  local vector into the result.
* Invariants. `CheddarPacked`: every ciphertext and message, those in buffers of another
  kind included (an Empty buffer still has a ciphertext), has a size of the
  chain. `VectorsInvariant`: a vector of the reference backend is not empty and divides `Width`.
  While a kernel is in its loop the buffers are those it was entered with, and the slots done
  so far are those of the whole result (`Swept`); this is where a write before the last read
  would break the proof.

The hypothesis `~ScalarsOnVectors` is the finding `VectorScalars` turned into what a host must
respect. `MarkAssumption` says that the mark for "no ciphertext", which is the null pointer too,
is neither a vector nor a buffer.

### What is only model-checked

* Liveness (`ExecutionEnds`): fairness and ENABLED are beyond the prover.
* `BeladyBestInSlots`: the optimum comes from an exhaustive search over all
  residency schedules, a RECURSIVE operator; optimality would be an exchange argument
  over it.
* The six findings of section 4, which are counterexamples.

### What the proofs changed in the models

ToyFHE's exact values carry their denominator, where they carried a power of
`Unit`: the same fractions, without exponentiation. Three definitions did not say what was meant and were corrected against the source.
`InstructionSemantics.Meaning` was a CASE in which the arm of a registered opcode overlapped
with the opcode's own. The type invariant of `SessionSequence` had a conjunct that
parsed differently from its layout. Which children of a node remain to be lowered or
evaluated is now a set of positions, as the loops over `i` in the code have it, where it
was a filtered sequence.

## 7. Plan

Done, in this order: IR and planner, executor with its abstract specification,
dispatch with its, planner proofs, session recording / graph / run, backend
lifetime, ToyFHE's arithmetic and its scale discipline, the kernels of both backends
against one contract, the guards of the GPU kernels, several runs of several sessions;
proofs of every safety property of planner (but for the optimality of its fetches),
executor, dispatch, backend lifetime, session runs, session sequences and kernels, and of
all three refinements.
To do: noise inside ToyFHE's vectors, an optimality proof of the eviction policy.

## 8. Not modelled

* Bit and comparison operators: calls into a backend with no state of their own.
  Subtraction and rotations exist as opcodes, but no `Fhenon` operator records
  them. Destroying a session; several threads (the current session is per thread).
* Optimisation passes: the fusing and rewriting passes are not installed
  (`Session.cpp:167-170`); the two that are recognise matrix products, which
  changes no program, and print.
* `uint64_t` wrap-around of costs and levels: sizes are naturals here.
* Allocation failure of the host, `fhn_program_alloc` included.
* The optional submit/poll entry points, resolved and never called; the rule
  that drops half a pair of hooks, one comparison with a test of its own.
* Inside the Cheddar backend: the parsing of its configuration; what ADD_CP,
  SUB_CP and MULT_CP would compute (no export makes the plaintext buffer they
  accept, so they always refuse); the 1e-12 margin of the scale comparison; the
  library itself. A rescale at level 0, a product used before it is relinearised and a
  relinearisation of anything else are steps of the model, but nothing is said of their
  outcome: the repository does not tell what the library does.
* In the reference kernels, null operands of those that read `operands[0]->ct`
  without looking at the pointer (SUB_CC, NEGATE, the scalar ones): undefined behaviour,
  which the host is taken to avoid.
* The TFHE backend (calls into an external Rust library), benchmarks,
  parameters, profiles, keys and configuration (plain data).
* In ToyFHE the masks `c0` and `c1` apart (a result depends on
  `c0 + c1 * s` only), overflow of 64-bit sums (twice a modulus
  of 2^58 stays below it), the approximation used where there are no 128-bit
  integers. The executor's models rely on `fhn_backend_api.h`, not on ToyFHE.
