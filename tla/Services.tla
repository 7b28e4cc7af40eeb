------------------------------ MODULE Services ------------------------------
(***************************************************************************)
(* The parts of the OIDA services that meet nowhere in the code: each      *)
(* keeps rows of its own, and no request of one reads or writes another's. *)
(* Interleaving them would only multiply their states, so a behaviour      *)
(* picks one part at the start and moves that one; the rest stay as they   *)
(* were when their databases were created.                                 *)
(***************************************************************************)
EXTENDS ReadinessWalk, DesignChanges, Handoffs, QaEvidence, QaCampaign, HybridRuns,
        InfraPackages, InfraPromotions, AccountUsage, ChangeRequests, Deliberation

VARIABLE part

servicesVars ==
  <<part, inputs, designVars, handoffVars, evidenceVars, campaignVars, hybridVars,
    packageVars, promotionVars, usageVars, changeVars, deliberationVars>>

Parts == {"policy", "design", "handoffs", "evidence", "campaign", "hybrid",
          "packages", "promotions", "usage", "changes", "deliberation"}

ServicesInit ==
  /\ part \in Parts
  /\ PolicyInit
  /\ part = "policy" \/ inputs.assigned = {}
  /\ DesignInit
  /\ part = "design" \/ requirement = CHOOSE t \in Contents : TRUE
  /\ HandoffInit /\ EvidenceInit /\ CampaignInit /\ HybridInit
  /\ PackageInit /\ PromotionInit /\ UsageInit /\ ChangeInit /\ DeliberationInit

OnlyPolicy     == part = "policy"     /\ PolicyNext
OnlyDesign     == part = "design"     /\ DesignNext
OnlyHandoffs   == part = "handoffs"   /\ HandoffNext
OnlyEvidence   == part = "evidence"   /\ EvidenceNext
OnlyCampaign   == part = "campaign"   /\ CampaignNext
OnlyHybrid     == part = "hybrid"     /\ HybridNext
OnlyPackages   == part = "packages"   /\ PackageNext
OnlyPromotions == part = "promotions" /\ PromotionNext
OnlyUsage      == part = "usage"      /\ UsageNext
OnlyChanges    == part = "changes"    /\ ChangeNext
OnlyDeliberation == part = "deliberation" /\ DeliberationNext

ServicesNext ==
  \/ OnlyPolicy /\ UNCHANGED <<part, designVars, handoffVars, evidenceVars,
                               campaignVars, hybridVars, packageVars, promotionVars,
                               usageVars, changeVars, deliberationVars>>
  \/ OnlyDesign /\ UNCHANGED <<part, inputs, handoffVars, evidenceVars, campaignVars,
                               hybridVars, packageVars, promotionVars, usageVars,
                               changeVars, deliberationVars>>
  \/ OnlyHandoffs /\ UNCHANGED <<part, inputs, designVars, evidenceVars, campaignVars,
                                 hybridVars, packageVars, promotionVars, usageVars,
                                 changeVars, deliberationVars>>
  \/ OnlyEvidence /\ UNCHANGED <<part, inputs, designVars, handoffVars, campaignVars,
                                 hybridVars, packageVars, promotionVars, usageVars,
                                 changeVars, deliberationVars>>
  \/ OnlyCampaign /\ UNCHANGED <<part, inputs, designVars, handoffVars, evidenceVars,
                                 hybridVars, packageVars, promotionVars, usageVars,
                                 changeVars, deliberationVars>>
  \/ OnlyHybrid /\ UNCHANGED <<part, inputs, designVars, handoffVars, evidenceVars,
                               campaignVars, packageVars, promotionVars, usageVars,
                               changeVars, deliberationVars>>
  \/ OnlyPackages /\ UNCHANGED <<part, inputs, designVars, handoffVars, evidenceVars,
                                 campaignVars, hybridVars, promotionVars, usageVars,
                                 changeVars, deliberationVars>>
  \/ OnlyPromotions /\ UNCHANGED <<part, inputs, designVars, handoffVars, evidenceVars,
                                   campaignVars, hybridVars, packageVars, usageVars,
                                   changeVars, deliberationVars>>
  \/ OnlyUsage /\ UNCHANGED <<part, inputs, designVars, handoffVars, evidenceVars,
                              campaignVars, hybridVars, packageVars, promotionVars,
                              changeVars, deliberationVars>>
  \/ OnlyChanges /\ UNCHANGED <<part, inputs, designVars, handoffVars, evidenceVars,
                                campaignVars, hybridVars, packageVars, promotionVars,
                                usageVars, deliberationVars>>
  \/ OnlyDeliberation /\ UNCHANGED <<part, inputs, designVars, handoffVars,
                                     evidenceVars, campaignVars, hybridVars,
                                     packageVars, promotionVars, usageVars, changeVars>>

ServicesSpec == ServicesInit /\ [][ServicesNext]_servicesVars

\* Every row, thread and message of the parts has one of the forms their code gives it.
ServicesTypeOK ==
  /\ part \in Parts
  /\ PolicyTypeOK
  /\ DesignTypeOK /\ HandoffTypeOK /\ EvidenceTypeOK /\ CampaignTypeOK /\ HybridTypeOK
  /\ PackageTypeOK /\ PromotionTypeOK /\ UsageTypeOK /\ ChangeTypeOK /\ DeliberationTypeOK

=============================================================================
