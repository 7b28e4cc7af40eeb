--------------------------- MODULE InfraPromotions ---------------------------
(***************************************************************************)
(* One promotion of Infra Again with its UAT record and its rollback plan, *)
(* up to the readiness decision that rests on the three                    *)
(* (execution/phase9_api.py, phase9_persistence.py).                       *)
(*                                                                         *)
(* Every handler reloads its record and awaits nothing: each is one step.  *)
(* What guards a record is the digest stored in it. It covers the status,  *)
(* so a handler that sets a status and not the digest leaves a seal that   *)
(* no longer fits. Nothing else the digest covers ever changes, so the     *)
(* seal is the status it was computed for.                                 *)
(***************************************************************************)
EXTENDS Naturals

CONSTANT People     \* who may request, approve and perform

\* The empty name, the default of every field, is accepted like another.
NoName == "no name"

ASSUME PeopleAssumption == NoName \in People

VARIABLES
  promotion,   \* the promotion_packages row
  uat,         \* the uat_records row
  rollback,    \* the rollback_plans row
  planMoved,   \* has the package's plan checksum changed since?
  expired,     \* has the expiresAt of the records passed?
  rejected,    \* was the promotion ever rejected?
  failed,      \* was the UAT ever failed?
  readiness    \* the production_readiness row; one is enough

promotionVars == <<promotion, uat, rollback, planMoved, expired, rejected, failed, readiness>>

PromotionStatuses == {"PENDING_APPROVAL", "APPROVED", "REJECTED", "CONSUMED", "INVALIDATED"}
UatStatuses       == {"NOT_STARTED", "PASSED", "FAILED", "INVALIDATED"}
RollbackStatuses  == {"DRAFT", "APPROVED", "INVALIDATED"}

Absent == [status |-> "NONE"]

Sources == {"named", "not named"}

\* source: does it name the execution it comes from? consumed: how many consume requests
\* were answered with CONSUMED.
Promotion == [status : PromotionStatuses, seal : PromotionStatuses, source : Sources,
              requestedBy : People, approvedBy : People, consumed : 0..1]

PromotionInit ==
  /\ promotion = Absent /\ uat = Absent /\ rollback = Absent
  /\ planMoved = FALSE /\ expired = FALSE /\ rejected = FALSE /\ failed = FALSE
  /\ readiness = "NONE"

\* Mutant: the digest does not cover the status.
SealIgnored(r) == TRUE

Sealed(r) == r.seal = r.status

Set(r, status)  == [r EXCEPT !.status = status]
Seal(r, status) == [r EXCEPT !.status = status, !.seal = status]

-----------------------------------------------------------------------------
(* Promotions *)

CreatePromotion ==
  /\ promotion = Absent
  /\ promotion' \in {[status |-> "PENDING_APPROVAL", seal |-> "PENDING_APPROVAL", source |-> s,
                      requestedBy |-> p, approvedBy |-> NoName, consumed |-> 0] :
                       s \in Sources, p \in People}
  /\ UNCHANGED <<uat, rollback, planMoved, expired, rejected, failed, readiness>>

\* Invalidated by a broken seal, by a plan that moved, or because a source execution is
\* named: the reloaded run has no validation and no verification, which block.
ApprovePromotion(by) ==
  /\ promotion.status = "PENDING_APPROVAL"
  /\ promotion.requestedBy # by
  /\ promotion' = IF ~Sealed(promotion) \/ planMoved \/ promotion.source = "named"
                  THEN Set(promotion, "INVALIDATED")
                  ELSE [Seal(promotion, "APPROVED") EXCEPT !.approvedBy = by]
  /\ UNCHANGED <<uat, rollback, planMoved, expired, rejected, failed, readiness>>

\* No status is refused, and the seal stays.
RejectPromotion ==
  /\ promotion # Absent
  /\ promotion' = Set(promotion, "REJECTED")
  /\ rejected'  = TRUE
  /\ UNCHANGED <<uat, rollback, planMoved, expired, failed, readiness>>

Spendable(p) == p.status = "APPROVED" /\ p.consumed = 0

ConsumePromotion ==
  /\ promotion # Absent
  /\ Spendable(promotion)
  /\ promotion' = IF ~Sealed(promotion) THEN Set(promotion, "INVALIDATED")
                  ELSE [Seal(promotion, "CONSUMED") EXCEPT !.consumed = @ + 1]
  /\ UNCHANGED <<uat, rollback, planMoved, expired, rejected, failed, readiness>>

VerifyPromotion ==
  /\ promotion # Absent
  /\ promotion' = IF Sealed(promotion) THEN promotion ELSE Set(promotion, "INVALIDATED")
  /\ UNCHANGED <<uat, rollback, planMoved, expired, rejected, failed, readiness>>

-----------------------------------------------------------------------------
(* UAT records and rollback plans *)

CreateUat ==
  /\ uat = Absent
  /\ uat' = [status |-> "NOT_STARTED", seal |-> "NOT_STARTED", performedBy |-> NoName, approvedBy |-> NoName]
  /\ UNCHANGED <<promotion, rollback, planMoved, expired, rejected, failed, readiness>>

\* Any status may pass, if its seal fits.
PassUat(performer, approver) ==
  /\ uat # Absent
  /\ performer # approver
  /\ uat' = IF ~Sealed(uat) THEN Set(uat, "INVALIDATED")
            ELSE [Seal(uat, "PASSED") EXCEPT !.performedBy = performer, !.approvedBy = approver]
  /\ UNCHANGED <<promotion, rollback, planMoved, expired, rejected, failed, readiness>>

FailUat ==
  /\ uat # Absent
  /\ uat'    = Set(uat, "FAILED")
  /\ failed' = TRUE
  /\ UNCHANGED <<promotion, rollback, planMoved, expired, rejected, readiness>>

CreateRollback ==
  /\ rollback = Absent
  /\ rollback' = [status |-> "DRAFT", seal |-> "DRAFT"]
  /\ UNCHANGED <<promotion, uat, planMoved, expired, rejected, failed, readiness>>

ApproveRollback ==
  /\ rollback # Absent
  /\ rollback.status = "DRAFT"
  /\ rollback' = IF ~Sealed(rollback) THEN Set(rollback, "INVALIDATED") ELSE Seal(rollback, "APPROVED")
  /\ UNCHANGED <<promotion, uat, planMoved, expired, rejected, failed, readiness>>

-----------------------------------------------------------------------------
(* The readiness decision, and what happens around it *)

PromotionStands ==
  /\ promotion.status = "APPROVED" /\ promotion.consumed = 0 /\ Sealed(promotion)
  /\ promotion.approvedBy \notin {NoName, promotion.requestedBy}

RollbackStands == rollback.status = "APPROVED" /\ Sealed(rollback)
UatStands      == uat.status = "PASSED" /\ Sealed(uat)

\* evaluate_readiness; the fields of its body may block as well.
EvaluatePromotion ==
  /\ readiness = "NONE"
  /\ \/ readiness' = "NOT_READY"
     \/ /\ promotion # Absent /\ uat # Absent /\ rollback # Absent
        /\ PromotionStands /\ RollbackStands /\ UatStands /\ ~expired
        /\ readiness' = "READY"
  /\ UNCHANGED <<promotion, uat, rollback, planMoved, expired, rejected, failed>>

PlanMoves ==
  /\ planMoved' = TRUE
  /\ UNCHANGED <<promotion, uat, rollback, expired, rejected, failed, readiness>>

TimePasses ==
  /\ expired' = TRUE
  /\ UNCHANGED <<promotion, uat, rollback, planMoved, rejected, failed, readiness>>

PromotionNext ==
  \/ CreatePromotion \/ RejectPromotion \/ ConsumePromotion \/ VerifyPromotion
  \/ \E p \in People : ApprovePromotion(p)
  \/ CreateUat \/ FailUat \/ CreateRollback \/ ApproveRollback
  \/ \E p, q \in People : PassUat(p, q)
  \/ EvaluatePromotion \/ PlanMoves \/ TimePasses

PromotionSpec == PromotionInit /\ [][PromotionNext]_promotionVars

-----------------------------------------------------------------------------
(* Properties *)

PromotionTypeOK ==
  /\ promotion \in {Absent} \cup Promotion
  /\ uat \in {Absent} \cup [status : UatStatuses, seal : UatStatuses, performedBy : People, approvedBy : People]
  /\ rollback \in {Absent} \cup [status : RollbackStatuses, seal : RollbackStatuses]
  /\ planMoved \in BOOLEAN /\ expired \in BOOLEAN /\ rejected \in BOOLEAN /\ failed \in BOOLEAN
  /\ readiness \in {"NONE", "READY", "NOT_READY"}

\* A refusal lasts: no sequence of approvals, verifications and passes makes a promotion
\* that was rejected APPROVED or a UAT that was failed PASSED again, although rejecting
\* and failing look at no status and store no digest; so READY never rests on one.
RefusalLasts ==
  /\ rejected => promotion.status \in {"REJECTED", "INVALIDATED"}
  /\ failed   => uat.status \in {"FAILED", "INVALIDATED"}
=============================================================================
