--------------------------- MODULE ServicesProofs ----------------------------
(***************************************************************************)
(* Theorems about Services: a behaviour of the parts taken together is a   *)
(* behaviour of each of them, so that what the other proof modules show of *)
(* a part holds beside the others, for every value of the constants.       *)
(***************************************************************************)
EXTENDS Services, DesignProofs, HandoffProofs, QaCampaignProofs, InfraProofs, WorkflowProofs

-----------------------------------------------------------------------------
(* Each part by itself *)

LEMMA StartOfParts ==
  ServicesInit => /\ PolicyInit /\ DesignInit /\ HandoffInit /\ EvidenceInit /\ CampaignInit
                  /\ HybridInit /\ PackageInit /\ PromotionInit /\ UsageInit /\ ChangeInit
                  /\ DeliberationInit
BY DEF ServicesInit

LEMMA StepOfParts ==
  ASSUME [ServicesNext]_servicesVars
  PROVE  /\ [PolicyNext]_inputs /\ [DesignNext]_designVars /\ [HandoffNext]_handoffVars
         /\ [EvidenceNext]_evidenceVars /\ [CampaignNext]_campaignVars /\ [HybridNext]_hybridVars
         /\ [PackageNext]_packageVars /\ [PromotionNext]_promotionVars /\ [UsageNext]_usageVars
         /\ [ChangeNext]_changeVars /\ [DeliberationNext]_deliberationVars
         /\ part' = part
<1>1. CASE UNCHANGED servicesVars
  BY <1>1 DEF servicesVars
<1>2. CASE ServicesNext
  BY <1>2 DEF ServicesNext, OnlyPolicy, OnlyDesign, OnlyHandoffs, OnlyEvidence, OnlyCampaign,
     OnlyHybrid, OnlyPackages, OnlyPromotions, OnlyUsage, OnlyChanges, OnlyDeliberation
<1> QED BY <1>1, <1>2

LEMMA EachPart ==
  ServicesSpec => /\ PolicySpec /\ DesignSpec /\ HandoffSpec /\ EvidenceSpec /\ CampaignSpec
                  /\ HybridSpec /\ PackageSpec /\ PromotionSpec /\ UsageSpec /\ ChangeSpec
                  /\ DeliberationSpec
<1>1. [ServicesNext]_servicesVars =>
        /\ [PolicyNext]_inputs /\ [DesignNext]_designVars /\ [HandoffNext]_handoffVars
        /\ [EvidenceNext]_evidenceVars /\ [CampaignNext]_campaignVars /\ [HybridNext]_hybridVars
        /\ [PackageNext]_packageVars /\ [PromotionNext]_promotionVars /\ [UsageNext]_usageVars
        /\ [ChangeNext]_changeVars /\ [DeliberationNext]_deliberationVars
  BY StepOfParts
<1> QED BY <1>1, StartOfParts, PTL
        DEF ServicesSpec, PolicySpec, DesignSpec, HandoffSpec, EvidenceSpec, CampaignSpec,
            HybridSpec, PackageSpec, PromotionSpec, UsageSpec, ChangeSpec, DeliberationSpec

-----------------------------------------------------------------------------
(* Types *)

LEMMA PartAlways == ServicesSpec => [](part \in Parts)
<1>1. ServicesInit => part \in Parts
  BY DEF ServicesInit
<1>2. part \in Parts /\ [ServicesNext]_servicesVars => (part \in Parts)'
  BY StepOfParts
<1> QED BY <1>1, <1>2, PTL DEF ServicesSpec

LEMMA TypesOfParts ==
  /\ HandoffSpec => []HandoffTypeOK
  /\ CampaignSpec => []CampaignTypeOK
  /\ HybridSpec => []HybridTypeOK
  /\ PackageSpec => []PackageTypeOK
  /\ PromotionSpec => []PromotionTypeOK
  /\ ChangeSpec => []ChangeTypeOK
  /\ DeliberationSpec => []DeliberationTypeOK
<1>1. HandoffSpec => []HandoffTypeOK
  <2>1. HandoffInv => HandoffTypeOK
    BY DEF HandoffInv, RowTypes, CouriersOK, CourierOK, HandoffTypeOK
  <2> QED BY <2>1, HandoffInvAlways, PTL
<1>2. CampaignSpec => []CampaignTypeOK
  <2>1. CampaignInv => CampaignTypeOK
    BY DEF CampaignInv
  <2> QED BY <2>1, InitCampaignInv, NextCampaignInv, PTL DEF CampaignSpec
<1>3. HybridSpec => []HybridTypeOK
  <2>1. PassInv => HybridTypeOK
    BY DEF PassInv
  <2> QED BY <2>1, InitPassInv, NextPassInv, PTL DEF HybridSpec
<1>4. PackageSpec => []PackageTypeOK
  <2>1. PackageInv => PackageTypeOK
    BY DEF PackageInv
  <2> QED BY <2>1, InitPackageInv, NextPackageInv, PTL DEF PackageSpec
<1>5. PromotionSpec => []PromotionTypeOK
  <2>1. PromotionInv => PromotionTypeOK
    BY DEF PromotionInv
  <2> QED BY <2>1, InitPromotionInv, NextPromotionInv, PTL DEF PromotionSpec
<1>6. ChangeSpec => []ChangeTypeOK
  <2>1. ChangeInv => ChangeTypeOK
    BY DEF ChangeInv
  <2> QED BY <2>1, InitChangeInv, NextChangeInv, PTL DEF ChangeSpec
<1>7. DeliberationSpec => []DeliberationTypeOK
  <2>1. DeliberationInv => DeliberationTypeOK
    BY DEF DeliberationInv
  <2> QED BY <2>1, InitDeliberationInv, NextDeliberationInv, PTL DEF DeliberationSpec
<1> QED BY <1>1, <1>2, <1>3, <1>4, <1>5, <1>6, <1>7

\* Every row, thread and message of the parts keeps one of the forms their code gives
\* it: what a request writes from what it loaded is never a row that is not there, a
\* status its table does not know or a number beyond the last.
THEOREM ServicesTypeCorrect == ServicesSpec => []ServicesTypeOK
<1>1. /\ part \in Parts /\ PolicyTypeOK /\ DesignTypeOK /\ HandoffTypeOK /\ EvidenceTypeOK
      /\ CampaignTypeOK /\ HybridTypeOK /\ PackageTypeOK /\ PromotionTypeOK /\ UsageTypeOK
      /\ ChangeTypeOK /\ DeliberationTypeOK
      => ServicesTypeOK
  BY DEF ServicesTypeOK
<1> QED BY <1>1, EachPart, PartAlways, TypesOfParts, PolicyTypeCorrect, DesignTypeCorrect,
           EvidenceTypeCorrect, UsageTypeCorrect, PTL

-----------------------------------------------------------------------------
(* What the parts promise, together *)

\* What the services promise about each other's rows and their own histories holds of
\* them side by side, however many threads, clients, uploads and clerks each has at work
\* and whatever their requests overlap with; each promise names what it leaves out.
THEOREM PromisesOfTheServices ==
  ServicesSpec =>
    /\ []ReadyExactlyWhenEarned /\ []BaselineBindsConfirmed /\ ConfirmedIsFrozen
    /\ []ReferenceIsReal /\ []MappedIsPlanned
    /\ []AcceptedWithinQuota /\ []RowHasObject
    /\ []PassIsReleased /\ []ApprovedWasExecuted /\ []AcceptedAsReviewed
    /\ []RefusalLasts /\ []VerifiedIsEarned
    /\ []UsageOncePerKey /\ []ScopeNeedsSignoff /\ []CompleteWhenAllSubmitted
    /\ WorseEngineeringNeverUnblocks /\ RelayAckIsFinal
BY EachPart, FirstMatchIsTheRule, BaselinesBindTheConfirmed, ConfirmedIsImmutable,
   ReferencesAreReal, PlannedBeforeMapped, AcceptedFitsQuota, EvidenceHasObject,
   PassNeedsRelease, ApprovalNeedsExecution, ReviewedAsSeen, RefusedForGood, SuccessIsEarned,
   UsageCountsOnce, NothingBeforeSignoff, RoundEndsWithAll, WorseNewsNeverHelps,
   AcknowledgedForGood, PTL

\* Three promises are broken by requests that overlap. While no two requests overlap in
\* Document Again's design tables, and one human decides at the checkpoints beside any
\* number of runners, an artifact has one current revision, a requirement shows the
\* revision that is confirmed, and a run that ended stays as it ended.
THEOREM PromisesOneAtATime ==
  ASSUME \A d, e \in Editors : d = e, \A g, h \in Humans : g = h
  PROVE  ServicesSpec => []OneCurrentRevision /\ []RequirementShowsConfirmed /\ EndIsFinal
<1>1. DesignSpec => []OneCurrentRevision /\ []RequirementShowsConfirmed
  BY OneRevisionCurrent, RequirementIsConfirmed
<1>2. HybridSpec => EndIsFinal
  BY EndedStaysEnded
<1> QED BY <1>1, <1>2, EachPart, PTL
=============================================================================
