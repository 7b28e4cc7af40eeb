----------------------------- MODULE QaService -----------------------------
(***************************************************************************)
(* What QA Again promises of a QARequest, whatever its databases, threads  *)
(* and deliveries: it is registered once, starts one test campaign ever,   *)
(* and is reported as mapped only after that, with exactly one execution   *)
(* attempt; only then is it run again. Deleting a project takes its        *)
(* campaigns away, and neither mapping nor running again looks whether the *)
(* campaign is still there. QaIntake implements it.                        *)
(***************************************************************************)
EXTENDS Naturals

CONSTANT Keys    \* Idempotency-Key values

VARIABLES
  stage,     \* what is known of the request of each key
  campaign,  \* its test campaign: not started yet, running, or lost in a deletion
  runs       \* how often it was attempted

serviceVars == <<stage, campaign, runs>>

Campaigns == {"none", "running", "lost"}

ServiceInit ==
  /\ stage    = [k \in Keys |-> "unknown"]
  /\ campaign = [k \in Keys |-> "none"]
  /\ runs     = [k \in Keys |-> 0]

Receive(k) ==
  /\ stage[k] = "unknown"
  /\ stage' = [stage EXCEPT ![k] = "RECEIVED"]
  /\ UNCHANGED <<campaign, runs>>

StartCampaign(k) ==
  /\ stage[k] = "RECEIVED" /\ campaign[k] = "none"
  /\ campaign' = [campaign EXCEPT ![k] = "running"]
  /\ UNCHANGED <<stage, runs>>

FirstRun(k) ==
  /\ stage[k] = "RECEIVED" /\ campaign[k] # "none" /\ runs[k] = 0
  /\ runs' = [runs EXCEPT ![k] = 1]
  /\ UNCHANGED <<stage, campaign>>

ReportMapped(k) ==
  /\ stage[k] = "RECEIVED" /\ campaign[k] # "none"
  /\ campaign[k] = "running" => runs[k] = 1
  /\ stage' = [stage EXCEPT ![k] = "MAPPED"]
  /\ UNCHANGED <<campaign, runs>>

RunAgain(k) ==
  /\ stage[k] = "MAPPED"
  /\ runs' = [runs EXCEPT ![k] = @ + 1]
  /\ UNCHANGED <<stage, campaign>>

\* An administrator deletes a project, and with it the campaigns of some requests.
Discard ==
  /\ UNCHANGED stage
  /\ \E K \in SUBSET Keys :
       /\ campaign' = [k \in Keys |-> IF k \in K THEN "lost" ELSE campaign[k]]
       /\ runs'     = [k \in Keys |-> IF k \in K THEN 0 ELSE runs[k]]
       /\ \A k \in K : campaign[k] # "none"

ServiceNext ==
  \/ Discard
  \/ \E k \in Keys : \/ Receive(k) \/ StartCampaign(k) \/ FirstRun(k)
                     \/ ReportMapped(k) \/ RunAgain(k)

ServiceSpec == ServiceInit /\ [][ServiceNext]_serviceVars

=============================================================================
