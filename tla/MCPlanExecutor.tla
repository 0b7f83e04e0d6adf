--------------------------- MODULE MCPlanExecutor ---------------------------
(***************************************************************************)
(* Plans for small programs, executed with every hook and kernel able to    *)
(* fail at every call.                                                     *)
(***************************************************************************)
EXTENDS PlanExecutor, MCBelady

(* Budgets tight enough to evict and to fetch again; outputs pinned, or the *)
(* inputs too; unlimited as in Session; an empty program.                   *)
ExecJobs ==
  {Request(p, pinned, budget, policy, NoModel) :
     p \in Shapes(2, <<"ADD_CC", "ADD_CC", "ADD_CC">>),
     pinned \in {{5}, {1, 4, 5}}, budget \in {0, 2, 3}, policy \in Policies}
  \cup
  {Request(p, {5}, 7, "belady", Bytes) :
     p \in Shapes(2, <<"ADD_CC", "MULT_CC", "ADD_CC">>)}
  \cup
  {Request([inputs |-> <<1, 2>>, code |-> << >>], {1}, 0, "belady", NoModel)}

SameProgram(usable, movement) ==
  [foreign |-> PlannedProgram, usable |-> usable, movement |-> movement]

ExecCalls ==
  {SameProgram(TRUE, TRUE), SameProgram(TRUE, FALSE), SameProgram(FALSE, TRUE)}

(* Every request is planned; the plans of ExecJobs are executed as well.    *)
AllJobs == PlannerJobs \cup ExecJobs

PlanOrExecute ==
  XInit /\ (job \in ExecJobs \/ call = SameProgram(FALSE, TRUE))

(* Both run to completion in the caller's thread; hooks return.             *)
RunsSpec == PlanOrExecute /\ [][XNext]_allVars /\ WF_allVars(XNext)

(* A plan kept while the program was lowered again, into another one of the *)
(* same or of another length.                                              *)
StaleJobs ==
  {Request(p, {4}, 0, "belady", NoModel) : p \in Shapes(2, <<"ADD_CC", "ADD_CC">>)}

StaleCalls ==
  {[foreign |-> p, usable |-> TRUE, movement |-> TRUE] :
     p \in Shapes(2, <<"ADD_CC", "ADD_CC">>) \cup Shapes(2, <<"ADD_CC">>)}
=============================================================================
