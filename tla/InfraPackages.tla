---------------------------- MODULE InfraPackages ----------------------------
(***************************************************************************)
(* Execution packages of Infra Again: an implementation plan is approved,  *)
(* packaged, checked (preflight) and executed task by task, and the run    *)
(* ends with a verifier's decision (execution/api.py, verifier.py,         *)
(* preflight.py, implementation/api.py).                                   *)
(*                                                                         *)
(* The handlers run on one event loop and await only the executors, so     *)
(* anything may happen between the steps of a run, a restart included: the *)
(* database survives it, the packages in memory do not, and a package that *)
(* is executed from its row has no tasks.                                  *)
(***************************************************************************)
EXTENDS Naturals, FiniteSets

CONSTANTS
  MaxPlans,    \* bound: plans of the design, numbered as they are created
  Packages,    \* execution packages
  Tasks,       \* the tasks of a package
  Starts       \* bound: execution runs

ASSUME PackagesAssumption == MaxPlans \in Nat /\ IsFiniteSet(Tasks)

VARIABLES
  plan,        \* the status of each plan
  current,     \* the plans whose bindings match the architecture as it is
  package,     \* exec_packages rows
  memory,      \* what _packages holds of each package
  start        \* the execution runs

packageVars == <<plan, current, package, memory, start>>

Plans        == 1..MaxPlans
PlanStatuses == {"NONE", "REVIEW_READY", "APPROVED_FOR_EXECUTION", "CHANGE_REQUESTED", "BASELINE_INVALIDATED"}
PackageRow   == [plan : Plans, status : {"DRAFT", "PREFLIGHT_PASSED", "PREFLIGHT_FAILED", "COMPLETED", "FAILED"}]

\* todo, failed, passed: the tasks still to run, and how the others ended; busy: the
\* executor is at work on one of them.
RunRow == [package : Packages, todo : SUBSET Tasks, failed : SUBSET Tasks, passed : SUBSET Tasks,
           busy : SUBSET Tasks, verifier : {"NONE", "UNVERIFIED", "VERIFIED_SUCCESS"}]
Missing   == [status |-> "NONE"]

PackageInit ==
  /\ plan    = [i \in Plans |-> "NONE"]
  /\ current = {}
  /\ package = [k \in Packages |-> Missing]
  /\ memory  = [k \in Packages |-> "absent"]
  /\ start   = [r \in Starts |-> Missing]

-----------------------------------------------------------------------------
(* Plans and the architecture under them *)

\* Plans of one design, each made from the architecture as it is.
CreatePlan(i) ==
  /\ plan[i] = "NONE"
  /\ \A j \in Plans : j < i => plan[j] # "NONE"
  /\ plan'    = [plan EXCEPT ![i] = "REVIEW_READY"]
  /\ current' = current \cup {i}
  /\ UNCHANGED <<package, memory, start>>

ApprovePlan(i) ==
  /\ plan[i] = "REVIEW_READY"
  /\ plan' = [plan EXCEPT ![i] = "APPROVED_FOR_EXECUTION"]
  /\ UNCHANGED <<current, package, memory, start>>

RequestChange(i) ==
  /\ plan[i] # "NONE"
  /\ plan' = [plan EXCEPT ![i] = "CHANGE_REQUESTED"]
  /\ UNCHANGED <<current, package, memory, start>>

\* get_plan_status: reading the status of a plan that went stale invalidates it.
ReadPlanStatus(i) ==
  /\ plan[i] = "APPROVED_FOR_EXECUTION"
  /\ i \notin current
  /\ plan' = [plan EXCEPT ![i] = "BASELINE_INVALIDATED"]
  /\ UNCHANGED <<current, package, memory, start>>

\* A new architecture revision, another provider catalogue or another feasibility.
ArchitectureMoves ==
  /\ current' = {}
  /\ UNCHANGED <<plan, package, memory, start>>

-----------------------------------------------------------------------------
(* Packages *)

Executable(i) == plan[i] = "APPROVED_FOR_EXECUTION" /\ i \in current

CreatePackage(k) ==
  /\ package[k] = Missing
  /\ \E i \in Plans :
       /\ plan[i] = "APPROVED_FOR_EXECUTION"
       /\ package' = [package EXCEPT ![k] = [plan |-> i, status |-> "DRAFT"]]
  /\ memory' = [memory EXCEPT ![k] = "whole"]
  /\ UNCHANGED <<plan, current, start>>

\* Any status but that of a package only the database has: rebuilding its target from
\* the row raises. Other checks may fail as well.
RunPreflight(k) ==
  /\ memory[k] # "absent"
  /\ \E s \in {"PREFLIGHT_PASSED", "PREFLIGHT_FAILED"} :
       /\ s = "PREFLIGHT_PASSED" => Executable(package[k].plan)
       /\ package' = [package EXCEPT ![k].status = s]
  /\ UNCHANGED <<plan, current, memory, start>>

-----------------------------------------------------------------------------
(* execute_package *)

LatestApproved(i) == \A j \in Plans : j > i => plan[j] # "APPROVED_FOR_EXECUTION"

\* A package that is not in memory is rebuilt from its row, without its tasks, and
\* stays in memory like that even when a gate then refuses it.
BeginRun(r, k) ==
  LET kept == IF memory[k] = "absent" THEN "taskless" ELSE memory[k]  i == package[k].plan IN
  /\ start[r] = Missing
  /\ package[k] # Missing
  /\ memory' = [memory EXCEPT ![k] = kept]
  /\ IF package[k].status = "PREFLIGHT_PASSED" /\ LatestApproved(i) /\ Executable(i)
     THEN start' = [start EXCEPT ![r] =
            [package |-> k, todo |-> IF kept = "whole" THEN Tasks ELSE {}, failed |-> {},
             passed |-> {}, busy |-> {}, verifier |-> "NONE"]]
     ELSE memory[k] = "absent" /\ UNCHANGED start
  /\ UNCHANGED <<plan, current, package>>

\* One task after the other, each awaited.
ExecuteTask(r) ==
  /\ start[r] # Missing /\ start[r].busy = {}
  /\ \E t \in start[r].todo :
       start' = [start EXCEPT ![r].todo = @ \ {t}, ![r].busy = {t}]
  /\ UNCHANGED <<plan, current, package, memory>>

\* The task completes only when the executor completed, the target was observed, and
\* validation and verification agree; nothing tells apart which of them did not.
TaskEnds(r) ==
  /\ start[r] # Missing /\ start[r].busy # {}
  /\ start' \in {[start EXCEPT ![r].busy = {}, ![r].passed = @ \cup start[r].busy],
                 [start EXCEPT ![r].busy = {}, ![r].failed = @ \cup start[r].busy]}
  /\ UNCHANGED <<plan, current, package, memory>>

\* Mutant: no verification is as good as all of them passed.
NothingFailed(run) == IF run.failed = {} THEN "VERIFIED_SUCCESS" ELSE "UNVERIFIED"

\* determine_verifier_decision: a task that did not pass has failed, and a run with a
\* failed task is UNVERIFIED, as is one with no verification at all.
VerifierDecision(run) ==
  IF run.failed = {} /\ run.passed # {} THEN "VERIFIED_SUCCESS" ELSE "UNVERIFIED"

EndRun(r) ==
  LET run == start[r]  k == run.package IN
  /\ run # Missing /\ run.verifier = "NONE"
  /\ run.todo = {} /\ run.busy = {}
  /\ start'   = [start EXCEPT ![r].verifier = VerifierDecision(run)]
  /\ package' = [package EXCEPT ![k].status = IF run.failed = {} THEN "COMPLETED" ELSE "FAILED"]
  /\ UNCHANGED <<plan, current, memory>>

\* The runs at work are gone: a run is kept only when it ends.
Restart ==
  /\ memory' = [k \in Packages |-> "absent"]
  /\ start'  = [r \in Starts |-> IF start[r] # Missing /\ start[r].verifier = "NONE" THEN Missing ELSE start[r]]
  /\ UNCHANGED <<plan, current, package>>

PackageNext ==
  \/ \E i \in Plans : CreatePlan(i) \/ ApprovePlan(i) \/ RequestChange(i) \/ ReadPlanStatus(i)
  \/ \E k \in Packages : CreatePackage(k) \/ RunPreflight(k)
  \/ \E r \in Starts, k \in Packages : BeginRun(r, k)
  \/ \E r \in Starts : ExecuteTask(r) \/ TaskEnds(r) \/ EndRun(r)
  \/ ArchitectureMoves
  \/ Restart

PackageSpec == PackageInit /\ [][PackageNext]_packageVars

-----------------------------------------------------------------------------
(* Properties *)

PackageTypeOK ==
  /\ plan \in [Plans -> PlanStatuses]
  /\ current \subseteq Plans
  /\ package \in [Packages -> {Missing} \cup PackageRow]
  /\ memory \in [Packages -> {"absent", "whole", "taskless"}]
  /\ start \in [Starts -> {Missing} \cup RunRow]

\* A run that is told as VERIFIED_SUCCESS ran every task its package was made with, and
\* each was observed, validated and verified: no restart, which makes the tasks of a
\* package vanish, and no run beside it makes a success of nothing.
VerifiedIsEarned ==
  \A r \in Starts : start[r] # Missing /\ start[r].verifier = "VERIFIED_SUCCESS" => start[r].passed = Tasks
=============================================================================
