----------------------------- MODULE InfraProofs -----------------------------
(***************************************************************************)
(* Theorems about Infra Again's promotions and execution packages, for any  *)
(* number of people, plans, packages, tasks and runs.                       *)
(***************************************************************************)
EXTENDS InfraPromotions, InfraPackages, TLAPS

(* Promotions *)

\* No handler computes a digest for a refused or invalidated record, so the seal of one
\* never fits its status.
SealsOK ==
  /\ promotion # Absent => promotion.seal \in {"PENDING_APPROVAL", "APPROVED", "CONSUMED"}
  /\ uat # Absent => uat.seal \in {"NOT_STARTED", "PASSED"}

PromotionInv == PromotionTypeOK /\ SealsOK /\ RefusalLasts

LEMMA InitPromotionInv == PromotionInit => PromotionInv
<1> SUFFICES ASSUME PromotionInit PROVE PromotionInv
  OBVIOUS
<1>1. PromotionTypeOK
  BY DEF PromotionInit, PromotionTypeOK
<1>2. SealsOK /\ RefusalLasts
  BY DEF PromotionInit, SealsOK, RefusalLasts
<1> QED BY <1>1, <1>2 DEF PromotionInv

\* The handlers of a promotion touch nothing else.
LEMMA PromotionSteps ==
  ASSUME PromotionInv,
         CreatePromotion \/ RejectPromotion \/ ConsumePromotion \/ VerifyPromotion
         \/ \E p \in People : ApprovePromotion(p)
  PROVE  PromotionInv'
<1> DEFINE Kept == UNCHANGED <<uat, rollback, planMoved, expired, failed, readiness>>
           Good == /\ promotion' \in Promotion
                   /\ promotion'.seal \in {"PENDING_APPROVAL", "APPROVED", "CONSUMED"}
                   /\ rejected' => promotion'.status \in {"REJECTED", "INVALIDATED"}
                   /\ rejected' \in BOOLEAN
<1>0. ASSUME Kept, Good PROVE PromotionInv'
  <2>1. PromotionTypeOK'
    BY <1>0 DEF PromotionInv, PromotionTypeOK
  <2>2. SealsOK' /\ RefusalLasts'
    BY <1>0 DEF PromotionInv, SealsOK, RefusalLasts
  <2> QED BY <2>1, <2>2 DEF PromotionInv
<1>1. /\ promotion # Absent =>
           /\ promotion \in Promotion
           /\ promotion.seal \in {"PENDING_APPROVAL", "APPROVED", "CONSUMED"}
      /\ rejected => promotion.status \in {"REJECTED", "INVALIDATED"}
      /\ rejected \in BOOLEAN
  BY DEF PromotionInv, PromotionTypeOK, SealsOK, RefusalLasts
<1>2. CASE CreatePromotion
  <2>1. PICK s \in Sources, p \in People :
          promotion' = [status |-> "PENDING_APPROVAL", seal |-> "PENDING_APPROVAL", source |-> s,
                        requestedBy |-> p, approvedBy |-> NoName, consumed |-> 0]
    BY <1>2 DEF CreatePromotion
  <2>2. promotion' \in Promotion
    BY <2>1, PeopleAssumption DEF Promotion, PromotionStatuses
  <2>3. ~ rejected /\ rejected' = rejected
    <3>1. promotion.status = "NONE" /\ rejected' = rejected
      BY <1>2 DEF CreatePromotion, Absent
    <3> QED BY <1>1, <3>1
  <2>4. Kept
    BY <1>2 DEF CreatePromotion
  <2>5. promotion'.seal \in {"PENDING_APPROVAL", "APPROVED", "CONSUMED"}
    BY <2>1
  <2> QED BY <1>0, <1>1, <2>2, <2>3, <2>4, <2>5
<1>3. CASE RejectPromotion
  <2>1. promotion # Absent /\ promotion' = [promotion EXCEPT !.status = "REJECTED"] /\ Kept
    BY <1>3 DEF RejectPromotion, Set
  <2>2. /\ promotion' \in Promotion /\ promotion'.status = "REJECTED"
        /\ promotion'.seal = promotion.seal
    BY <1>1, <2>1 DEF Promotion, PromotionStatuses
  <2>3. rejected' = TRUE
    BY <1>3 DEF RejectPromotion
  <2> QED BY <1>0, <1>1, <2>1, <2>2, <2>3
<1>4. CASE ConsumePromotion
  <2>1. /\ promotion # Absent /\ promotion.status = "APPROVED" /\ promotion.consumed = 0
        /\ rejected' = rejected /\ Kept
    BY <1>4 DEF ConsumePromotion, Spendable
  <2>2. \/ promotion' = [promotion EXCEPT !.status = "INVALIDATED"]
        \/ promotion' = [promotion EXCEPT !.status = "CONSUMED", !.seal = "CONSUMED", !.consumed = @ + 1]
    BY <1>1, <1>4, <2>1 DEF ConsumePromotion, Set, Seal, Promotion
  <2>3. /\ promotion' \in Promotion
        /\ promotion'.seal \in {"PENDING_APPROVAL", "APPROVED", "CONSUMED"}
    <3>1. promotion \in Promotion /\ 0 + 1 = 1 /\ 1 \in 0..1
      BY <1>1, <2>1
    <3>2. CASE promotion' = [promotion EXCEPT !.status = "INVALIDATED"]
      BY <1>1, <2>1, <3>1, <3>2 DEF Promotion, PromotionStatuses
    <3>3. CASE promotion' = [promotion EXCEPT !.status = "CONSUMED", !.seal = "CONSUMED", !.consumed = @ + 1]
      <4> DEFINE sealed == [promotion EXCEPT !.status = "CONSUMED", !.seal = "CONSUMED"]
      <4>1. sealed \in Promotion /\ sealed.consumed = 0 /\ sealed.seal = "CONSUMED"
        BY <2>1, <3>1 DEF Promotion, PromotionStatuses
      <4>2. promotion' = [sealed EXCEPT !.consumed = sealed.consumed + 1]
        BY <3>3
      <4> HIDE DEF sealed
      <4>3. promotion' = [sealed EXCEPT !.consumed = 1]
        BY <3>1, <4>1, <4>2
      <4> QED BY <3>1, <4>1, <4>3 DEF Promotion
    <3> QED BY <2>2, <3>2, <3>3
  <2>4. ~ rejected
    BY <1>1, <2>1
  <2> QED BY <1>0, <1>1, <2>1, <2>3, <2>4
<1>5. CASE VerifyPromotion
  <2>1. /\ promotion # Absent /\ rejected' = rejected /\ Kept
        /\ promotion' = promotion \/ promotion' = [promotion EXCEPT !.status = "INVALIDATED"]
    BY <1>5 DEF VerifyPromotion, Set
  <2>2. /\ promotion' \in Promotion /\ promotion'.seal = promotion.seal
       
        /\ promotion'.status \in {promotion.status, "INVALIDATED"}
    BY <1>1, <2>1 DEF Promotion, PromotionStatuses
  <2> QED BY <1>0, <1>1, <2>1, <2>2
<1>6. ASSUME NEW p \in People, ApprovePromotion(p) PROVE PromotionInv'
  <2>1. /\ promotion.status = "PENDING_APPROVAL" /\ promotion # Absent
        /\ rejected' = rejected /\ Kept
    BY <1>6 DEF ApprovePromotion, Absent
  <2>2. \/ promotion' = [promotion EXCEPT !.status = "INVALIDATED"]
        \/ promotion' = [promotion EXCEPT !.status = "APPROVED", !.seal = "APPROVED", !.approvedBy = p]
    BY <1>1, <1>6, <2>1 DEF ApprovePromotion, Set, Seal, Promotion
  <2>3. /\ promotion' \in Promotion
        /\ promotion'.seal \in {"PENDING_APPROVAL", "APPROVED", "CONSUMED"}
    BY <1>1, <2>1, <2>2 DEF Promotion, PromotionStatuses
  <2>4. ~ rejected
    BY <1>1, <2>1
  <2> QED BY <1>0, <1>1, <2>1, <2>3, <2>4
<1> QED BY <1>2, <1>3, <1>4, <1>5, <1>6

LEMMA UatSteps ==
  ASSUME PromotionInv, CreateUat \/ FailUat \/ \E p, q \in People : PassUat(p, q)
  PROVE  PromotionInv'
<1> DEFINE Records == [status : UatStatuses, seal : UatStatuses, performedBy : People, approvedBy : People]
           Kept == UNCHANGED <<promotion, rollback, planMoved, expired, rejected, readiness>>
           Good == /\ uat' \in Records
                   /\ uat'.seal \in {"NOT_STARTED", "PASSED"}
                   /\ failed' => uat'.status \in {"FAILED", "INVALIDATED"}
                   /\ failed' \in BOOLEAN
<1>0. ASSUME Kept, Good PROVE PromotionInv'
  <2>1. PromotionTypeOK'
    BY <1>0 DEF PromotionInv, PromotionTypeOK
  <2>2. SealsOK' /\ RefusalLasts'
    BY <1>0 DEF PromotionInv, SealsOK, RefusalLasts
  <2> QED BY <2>1, <2>2 DEF PromotionInv
<1>1. /\ uat # Absent => uat \in Records /\ uat.seal \in {"NOT_STARTED", "PASSED"}
      /\ failed => uat.status \in {"FAILED", "INVALIDATED"}
      /\ failed \in BOOLEAN
  BY DEF PromotionInv, PromotionTypeOK, SealsOK, RefusalLasts
<1>2. CASE CreateUat
  <2>1. /\ ~ failed /\ failed' = failed /\ Kept
        /\ uat' = [status |-> "NOT_STARTED", seal |-> "NOT_STARTED", performedBy |-> NoName, approvedBy |-> NoName]
    BY <1>1, <1>2 DEF CreateUat, Absent
  <2>2. uat' \in Records /\ uat'.seal = "NOT_STARTED"
    BY <2>1, PeopleAssumption DEF UatStatuses
  <2> QED BY <1>0, <1>1, <2>1, <2>2
<1>3. CASE FailUat
  <2>1. uat # Absent /\ uat' = [uat EXCEPT !.status = "FAILED"] /\ failed' = TRUE /\ Kept
    BY <1>3 DEF FailUat, Set
  <2>2. uat' \in Records /\ uat'.seal = uat.seal /\ uat'.status = "FAILED"
    BY <1>1, <2>1 DEF UatStatuses
  <2> QED BY <1>0, <1>1, <2>1, <2>2
<1>4. ASSUME NEW p \in People, NEW q \in People, PassUat(p, q) PROVE PromotionInv'
  <2>1. uat # Absent /\ failed' = failed /\ Kept
    BY <1>4 DEF PassUat
  <2>2. CASE Sealed(uat)
    <3>1. uat' = [uat EXCEPT !.status = "PASSED", !.seal = "PASSED", !.performedBy = p, !.approvedBy = q]
      BY <1>1, <1>4, <2>1, <2>2 DEF PassUat, Seal
    <3>2. uat' \in Records /\ uat'.seal = "PASSED"
      BY <1>1, <2>1, <3>1 DEF UatStatuses
    <3>3. ~ failed
      BY <1>1, <2>1, <2>2 DEF Sealed
    <3> QED BY <1>0, <1>1, <2>1, <3>2, <3>3
  <2>3. CASE ~ Sealed(uat)
    <3>1. uat' = [uat EXCEPT !.status = "INVALIDATED"]
      BY <1>4, <2>3 DEF PassUat, Set
    <3>2. uat' \in Records /\ uat'.seal = uat.seal /\ uat'.status = "INVALIDATED"
      BY <1>1, <2>1, <3>1 DEF UatStatuses
    <3> QED BY <1>0, <1>1, <2>1, <3>2
  <2> QED BY <2>2, <2>3
<1> QED BY <1>2, <1>3, <1>4

LEMMA OtherSteps ==
  ASSUME PromotionInv,
         \/ CreateRollback \/ ApproveRollback \/ EvaluatePromotion \/ PlanMoves \/ TimePasses
         \/ UNCHANGED promotionVars
  PROVE  PromotionInv'
<1>1. UNCHANGED <<promotion, uat, rejected, failed>>
  BY DEF CreateRollback, ApproveRollback, EvaluatePromotion, PlanMoves, TimePasses, promotionVars
<1>2. rollback' \in {Absent} \cup [status : RollbackStatuses, seal : RollbackStatuses]
  <2>1. CASE CreateRollback
    BY <2>1 DEF CreateRollback, RollbackStatuses
  <2>2. CASE ApproveRollback
    BY <2>2 DEF ApproveRollback, Set, Seal, RollbackStatuses, PromotionInv, PromotionTypeOK, Absent
  <2>3. CASE EvaluatePromotion \/ PlanMoves \/ TimePasses \/ UNCHANGED promotionVars
    BY <2>3 DEF EvaluatePromotion, PlanMoves, TimePasses, promotionVars, PromotionInv, PromotionTypeOK
  <2> QED BY <2>1, <2>2, <2>3
<1>3. planMoved' \in BOOLEAN /\ expired' \in BOOLEAN
  BY DEF CreateRollback, ApproveRollback, EvaluatePromotion, PlanMoves, TimePasses, promotionVars,
         PromotionInv, PromotionTypeOK
<1>4. readiness' \in {"NONE", "READY", "NOT_READY"}
  BY DEF CreateRollback, ApproveRollback, EvaluatePromotion, PlanMoves, TimePasses, promotionVars,
         PromotionInv, PromotionTypeOK
<1>5. PromotionTypeOK'
  BY <1>1, <1>2, <1>3, <1>4 DEF PromotionInv, PromotionTypeOK
<1> QED BY <1>1, <1>5 DEF PromotionInv, SealsOK, RefusalLasts

LEMMA NextPromotionInv == PromotionInv /\ [PromotionNext]_promotionVars => PromotionInv'
BY PromotionSteps, UatSteps, OtherSteps DEF PromotionNext

\* A refused promotion or UAT stays refused, whatever sequence of calls follows.
THEOREM RefusedForGood == PromotionSpec => []RefusalLasts
<1>1. PromotionInv => RefusalLasts
  BY DEF PromotionInv
<1> QED BY <1>1, InitPromotionInv, NextPromotionInv, PTL DEF PromotionSpec

-----------------------------------------------------------------------------
(* Execution packages *)

\* A run's tasks are split among what is still to run, at work, failed and passed; a run
\* of a package rebuilt from its row has none. After its end nothing is left to run.
RunOK(run) ==
  /\ (run.todo \cup run.busy \cup run.failed \cup run.passed) \in {Tasks, {}}
  /\ run.verifier # "NONE" => run.todo = {} /\ run.busy = {}
  /\ run.verifier = "VERIFIED_SUCCESS" => run.passed = Tasks

PackageInv ==
  /\ PackageTypeOK
  /\ \A k \in Packages : memory[k] # "absent" => package[k] # Missing
  /\ \A r \in Starts : start[r] # Missing => package[start[r].package] # Missing /\ RunOK(start[r])

LEMMA InitPackageInv == PackageInit => PackageInv
BY DEF PackageInit, PackageInv, PackageTypeOK, PlanStatuses

\* The steps of the plans.
LEMMA PlanSteps ==
  ASSUME PackageInv,
         \/ \E i \in Plans : CreatePlan(i) \/ ApprovePlan(i) \/ RequestChange(i) \/ ReadPlanStatus(i)
         \/ ArchitectureMoves \/ UNCHANGED packageVars
  PROVE  PackageInv'
<1>1. UNCHANGED <<package, memory, start>>
  BY DEF CreatePlan, ApprovePlan, RequestChange, ReadPlanStatus, ArchitectureMoves, packageVars
<1>2. plan' \in [Plans -> PlanStatuses]
  BY DEF CreatePlan, ApprovePlan, RequestChange, ReadPlanStatus, ArchitectureMoves, packageVars,
         PackageInv, PackageTypeOK, PlanStatuses
<1>3. current' \subseteq Plans
  BY DEF CreatePlan, ApprovePlan, RequestChange, ReadPlanStatus, ArchitectureMoves, packageVars,
         PackageInv, PackageTypeOK
<1> QED BY <1>1, <1>2, <1>3 DEF PackageInv, PackageTypeOK, RunOK

LEMMA PackageSteps ==
  ASSUME PackageInv, NEW k \in Packages, CreatePackage(k) \/ RunPreflight(k)
  PROVE  PackageInv'
<1>1. UNCHANGED <<plan, current, start>>
  BY DEF CreatePackage, RunPreflight
<1>2. PICK row \in PackageRow : package' = [package EXCEPT ![k] = row]
  <2>1. CASE CreatePackage(k)
    BY <2>1 DEF CreatePackage, PackageRow
  <2>2. CASE RunPreflight(k)
    <3>1. PICK s \in {"PREFLIGHT_PASSED", "PREFLIGHT_FAILED"} :
            package' = [package EXCEPT ![k].status = s]
      BY <2>2 DEF RunPreflight
    <3>2. package[k] \in PackageRow
      BY <2>2 DEF RunPreflight, PackageInv, PackageTypeOK
    <3>3. [package[k] EXCEPT !.status = s] \in PackageRow
      BY <3>2 DEF PackageRow
    <3> QED BY <3>1, <3>3
  <2> QED BY <2>1, <2>2
<1>3. row # Missing
  BY DEF PackageRow, Missing
<1>4. package' \in [Packages -> {Missing} \cup PackageRow]
  BY <1>2 DEF PackageInv, PackageTypeOK
<1>5. memory' \in [Packages -> {"absent", "whole", "taskless"}]
  BY DEF CreatePackage, RunPreflight, PackageInv, PackageTypeOK
<1>6. PackageTypeOK'
  BY <1>1, <1>4, <1>5 DEF PackageInv, PackageTypeOK
<1>7. \A j \in Packages : package[j] # Missing => package'[j] # Missing
  BY <1>2, <1>3 DEF PackageInv, PackageTypeOK
<1>8. \A j \in Packages : memory'[j] # "absent" => package'[j] # Missing
  BY <1>2, <1>3, <1>7 DEF CreatePackage, RunPreflight, PackageInv, PackageTypeOK
<1>9. \A r \in Starts : start'[r] # Missing => package'[start'[r].package] # Missing /\ RunOK(start'[r])
  BY <1>1, <1>7 DEF PackageInv, PackageTypeOK, RunRow, RunOK
<1> QED BY <1>6, <1>8, <1>9 DEF PackageInv, RunOK

\* One run changes, and becomes what a run may be.
LEMMA OneRun ==
  ASSUME PackageInv, NEW r \in Starts, NEW run \in RunRow,
         package[run.package] # Missing, RunOK(run),
         start' = [start EXCEPT ![r] = run], UNCHANGED <<plan, current, package>>,
         memory' \in [Packages -> {"absent", "whole", "taskless"}],
         \A k \in Packages : memory'[k] # "absent" => package[k] # Missing
  PROVE  PackageInv'
<1>1. start' \in [Starts -> {Missing} \cup RunRow]
  BY DEF PackageInv, PackageTypeOK
<1>2. PackageTypeOK'
  BY <1>1 DEF PackageInv, PackageTypeOK
<1>3. ASSUME NEW s \in Starts, start'[s] # Missing
      PROVE  package'[start'[s].package] # Missing /\ RunOK(start'[s])
  BY <1>3 DEF PackageInv, PackageTypeOK
<1> QED BY <1>2, <1>3 DEF PackageInv, RunOK

LEMMA BeginSteps ==
  ASSUME PackageInv, NEW r \in Starts, NEW k \in Packages, BeginRun(r, k)
  PROVE  PackageInv'
<1> DEFINE kept == IF memory[k] = "absent" THEN "taskless" ELSE memory[k]
           run == [package |-> k, todo |-> IF kept = "whole" THEN Tasks ELSE {}, failed |-> {},
                   passed |-> {}, busy |-> {}, verifier |-> "NONE"]
<1>1. /\ package[k] # Missing /\ UNCHANGED <<plan, current, package>>
      /\ memory' = [memory EXCEPT ![k] = kept]
      /\ start' = [start EXCEPT ![r] = run] \/ start' = start
  BY DEF BeginRun
<1>2. /\ memory' \in [Packages -> {"absent", "whole", "taskless"}]
      /\ \A j \in Packages : memory'[j] # "absent" => package[j] # Missing
  BY <1>1 DEF PackageInv, PackageTypeOK
<1>3. run \in RunRow /\ run.package = k
  BY DEF RunRow
<1>4. RunOK(run)
  BY DEF RunOK
<1>5. CASE start' = [start EXCEPT ![r] = run]
  <2> HIDE DEF run
  <2> QED BY <1>1, <1>2, <1>3, <1>4, <1>5, OneRun
<1>6. CASE start' = start
  BY <1>1, <1>2, <1>6 DEF PackageInv, PackageTypeOK, RunOK
<1> QED BY <1>1, <1>5, <1>6

LEMMA TaskSteps ==
  ASSUME PackageInv, NEW r \in Starts, ExecuteTask(r) \/ TaskEnds(r)
  PROVE  PackageInv'
<1> DEFINE now == start[r]
<1>1. now \in RunRow /\ RunOK(now) /\ package[now.package] # Missing
  BY DEF ExecuteTask, TaskEnds, PackageInv, PackageTypeOK
<1>2. UNCHANGED <<plan, current, package, memory>>
  BY DEF ExecuteTask, TaskEnds
<1>3. now.todo \cup now.busy # {}
  BY DEF ExecuteTask, TaskEnds
<1>4. now.verifier = "NONE"
  BY <1>1, <1>3 DEF RunOK, RunRow
<1>5. CASE ExecuteTask(r)
  <2>1. PICK t \in now.todo : start' = [start EXCEPT ![r].todo = @ \ {t}, ![r].busy = {t}]
    BY <1>5 DEF ExecuteTask
  <2> DEFINE run == [now EXCEPT !.todo = @ \ {t}, !.busy = {t}]
  <2>2. start' = [start EXCEPT ![r] = run]
    BY <2>1 DEF PackageInv, PackageTypeOK
  <2>3. now.busy = {}
    BY <1>5 DEF ExecuteTask
  <2>4. run \in RunRow /\ run.package = now.package
    BY <1>1 DEF RunRow
  <2>5. /\ run.todo = now.todo \ {t} /\ run.busy = {t} /\ run.failed = now.failed
        /\ run.passed = now.passed /\ run.verifier = "NONE"
    BY <1>1, <1>4 DEF RunRow
  <2>6. run.todo \cup run.busy \cup run.failed \cup run.passed
          = now.todo \cup now.busy \cup now.failed \cup now.passed
    BY <2>3, <2>5
  <2>7. RunOK(run)
    BY <1>1, <2>5, <2>6 DEF RunOK
  <2> HIDE DEF run
  <2> QED BY <1>1, <1>2, <2>2, <2>4, <2>7, OneRun DEF PackageInv, PackageTypeOK
<1>6. CASE TaskEnds(r)
  <2> DEFINE good == [now EXCEPT !.busy = {}, !.passed = @ \cup now.busy]
             bad  == [now EXCEPT !.busy = {}, !.failed = @ \cup now.busy]
  <2>1. start' = [start EXCEPT ![r] = good] \/ start' = [start EXCEPT ![r] = bad]
    BY <1>6 DEF TaskEnds, PackageInv, PackageTypeOK
  <2>2. good \in RunRow /\ good.package = now.package /\ bad \in RunRow /\ bad.package = now.package
    BY <1>1 DEF RunRow
  <2>3. /\ good.todo = now.todo /\ good.busy = {} /\ good.failed = now.failed
        /\ good.passed = now.passed \cup now.busy /\ good.verifier = "NONE"
    BY <1>1, <1>4 DEF RunRow
  <2>4. /\ bad.todo = now.todo /\ bad.busy = {} /\ bad.failed = now.failed \cup now.busy
        /\ bad.passed = now.passed /\ bad.verifier = "NONE"
    BY <1>1, <1>4 DEF RunRow
  <2>5. /\ good.todo \cup good.busy \cup good.failed \cup good.passed
             = now.todo \cup now.busy \cup now.failed \cup now.passed
        /\ bad.todo \cup bad.busy \cup bad.failed \cup bad.passed
             = now.todo \cup now.busy \cup now.failed \cup now.passed
    BY <2>3, <2>4
  <2>6. RunOK(good) /\ RunOK(bad)
    BY <1>1, <2>3, <2>4, <2>5 DEF RunOK
  <2> HIDE DEF good, bad
  <2> QED BY <1>1, <1>2, <2>1, <2>2, <2>6, OneRun DEF PackageInv, PackageTypeOK
<1> QED BY <1>5, <1>6

LEMMA EndSteps ==
  ASSUME PackageInv, NEW r \in Starts, EndRun(r)
  PROVE  PackageInv'
<1> DEFINE now == start[r]
           k   == now.package
           run == [now EXCEPT !.verifier = VerifierDecision(now)]
           row == [package[k] EXCEPT !.status = IF now.failed = {} THEN "COMPLETED" ELSE "FAILED"]
<1>1. now \in RunRow /\ RunOK(now) /\ package[k] # Missing /\ k \in Packages
  BY DEF EndRun, PackageInv, PackageTypeOK, RunRow
<1>2. /\ now.todo = {} /\ now.busy = {} /\ UNCHANGED <<plan, current, memory>>
      /\ start' = [start EXCEPT ![r] = run] /\ package' = [package EXCEPT ![k] = row]
  BY DEF EndRun, PackageInv, PackageTypeOK
<1>3. package[k] \in PackageRow
  BY <1>1 DEF PackageInv, PackageTypeOK
<1>4. row \in PackageRow /\ row # Missing
  BY <1>3 DEF PackageRow, Missing
<1>5. run \in RunRow /\ run.package = k
  BY <1>1 DEF RunRow, VerifierDecision
<1>6. /\ run.todo = {} /\ run.busy = {} /\ run.failed = now.failed /\ run.passed = now.passed
      /\ run.verifier = VerifierDecision(now)
  BY <1>1, <1>2 DEF RunRow
<1>7. run.verifier = "VERIFIED_SUCCESS" => run.passed = Tasks
  <2> SUFFICES ASSUME VerifierDecision(now) = "VERIFIED_SUCCESS" PROVE now.passed = Tasks
    BY <1>6
  <2>1. now.failed = {} /\ now.passed # {}
    BY DEF VerifierDecision
  <2>2. now.todo \cup now.busy \cup now.failed \cup now.passed = now.passed
    BY <1>2, <2>1
  <2> QED BY <1>1, <2>1, <2>2 DEF RunOK
<1>8. RunOK(run)
  BY <1>1, <1>2, <1>6, <1>7 DEF RunOK
<1> HIDE DEF run, row
<1>9. /\ start' \in [Starts -> {Missing} \cup RunRow]
      /\ package' \in [Packages -> {Missing} \cup PackageRow]
  BY <1>2, <1>4, <1>5 DEF PackageInv, PackageTypeOK
<1>10. PackageTypeOK'
  BY <1>2, <1>9 DEF PackageInv, PackageTypeOK
<1>11. \A j \in Packages : package[j] # Missing => package'[j] # Missing
  BY <1>1, <1>2, <1>4 DEF PackageInv, PackageTypeOK
<1>12. ASSUME NEW s \in Starts, start'[s] # Missing
       PROVE  package'[start'[s].package] # Missing /\ RunOK(start'[s])
  <2>1. CASE s = r
    BY <1>1, <1>2, <1>5, <1>8, <1>11, <2>1 DEF PackageInv, PackageTypeOK
  <2>2. CASE s # r
    <3>1. start'[s] = start[s]
      BY <1>2, <2>2 DEF PackageInv, PackageTypeOK
    <3>2. start[s] \in RunRow /\ RunOK(start[s]) /\ package[start[s].package] # Missing
      BY <1>12, <3>1 DEF PackageInv, PackageTypeOK
    <3> QED BY <1>11, <3>1, <3>2 DEF RunRow
  <2> QED BY <2>1, <2>2
<1>13. \A j \in Packages : memory'[j] # "absent" => package'[j] # Missing
  BY <1>2, <1>11 DEF PackageInv
<1> QED BY <1>10, <1>12, <1>13 DEF PackageInv, RunOK

LEMMA RestartSteps ==
  ASSUME PackageInv, Restart
  PROVE  PackageInv'
<1>1. UNCHANGED <<plan, current, package>> /\ \A k \in Packages : memory'[k] = "absent"
  BY DEF Restart
<1>2. memory' \in [Packages -> {"absent", "whole", "taskless"}]
  BY DEF Restart
<1>3. \A r \in Starts : start'[r] \in {Missing, start[r]}
  BY DEF Restart
<1>4. start' \in [Starts -> {Missing} \cup RunRow]
  BY DEF Restart, PackageInv, PackageTypeOK
<1>5. PackageTypeOK'
  BY <1>1, <1>2, <1>4 DEF PackageInv, PackageTypeOK
<1> QED BY <1>1, <1>3, <1>5 DEF PackageInv, RunOK

LEMMA NextPackageInv == PackageInv /\ [PackageNext]_packageVars => PackageInv'
BY PlanSteps, PackageSteps, BeginSteps, TaskSteps, EndSteps, RestartSteps DEF PackageNext

\* Whatever restarts empty the memory, and however runs of a package overlap: a run told
\* as VERIFIED_SUCCESS has seen every task pass.
THEOREM SuccessIsEarned == PackageSpec => []VerifiedIsEarned
<1>1. PackageInv => VerifiedIsEarned
  BY DEF PackageInv, VerifiedIsEarned, RunOK
<1> QED BY <1>1, InitPackageInv, NextPackageInv, PTL DEF PackageSpec
=============================================================================
