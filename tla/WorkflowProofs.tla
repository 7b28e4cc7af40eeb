--------------------------- MODULE WorkflowProofs ---------------------------
(***************************************************************************)
(* Theorems about the readiness policy, driven by any order of reports,    *)
(* and about AccountUsage, ChangeRequests and Deliberation, for any number *)
(* of keys, requests, documents and panel members, and of requests that    *)
(* overlap.                                                                *)
(***************************************************************************)
EXTENDS ReadinessWalk, AccountUsage, ChangeRequests, Deliberation, TLAPS

-----------------------------------------------------------------------------
(* The readiness policy: its inputs *)

\* conductorPolicy.blocking accompanies a report that is PARTIAL, nothing else.
PolicyInv == PolicyTypeOK /\ (inputs.blocking => inputs.eng = "PARTIAL")

LEMMA InitPolicyInv == PolicyInit => PolicyInv
BY DEF PolicyInit, PolicyInv, PolicyTypeOK, ReadinessInputs

LEMMA NextPolicyInv == PolicyInv /\ [PolicyNext]_inputs => PolicyInv'
<1> SUFFICES ASSUME PolicyInv, [PolicyNext]_inputs PROVE PolicyInv'
  OBVIOUS
<1> USE DEF PolicyInv, PolicyTypeOK, ReadinessInputs
<1>1. CASE ReportEngineering
  BY <1>1 DEF ReportEngineering
<1>2. CASE ReportInfrastructure
  BY <1>2 DEF ReportInfrastructure
<1>3. CASE ReportQa
  BY <1>3 DEF ReportQa
<1>4. CASE UNCHANGED inputs
  BY <1>4
<1> QED BY <1>1, <1>2, <1>3, <1>4 DEF PolicyNext

\* Every record of inputs the policy is given has one of the values its code knows.
THEOREM PolicyTypeCorrect == PolicySpec => []PolicyTypeOK
<1>1. PolicyInv => PolicyTypeOK
  BY DEF PolicyInv
<1> QED BY <1>1, InitPolicyInv, NextPolicyInv, PTL DEF PolicySpec

-----------------------------------------------------------------------------
(* The policy *)

\* The code is one of the READY codes exactly when no branch before them applies and
\* one of theirs does.
LEMMA ReadyByBranches ==
  ASSUME NEW in
  PROVE  Ready(in) <=>
           /\ ~ MissingResult(in) /\ ~ EngineeringFailed(in)
           /\ ~ (in.eng = "PARTIAL" /\ in.blocking)
           /\ in.infra # "FAILED" /\ in.qa # "REJECTED" /\ ~ QaUndecided(in)
           /\ CaveatPasses(in) \/ AllGatesPass(in)
<1>1. Ready(in) <=> ReasonCode(in) \in ReadyCodes
  BY DEF Ready, EvaluateReadiness
<1> QED BY <1>1 DEF ReasonCode, ReadyCodes

LEMMA PolicyMeaning ==
  ASSUME NEW in \in ReadinessInputs, ~ CaveatInDispute(in)
  PROVE  Ready(in) <=> NoBlockingReport(in) /\ AssignedReportsSuffice(in)
<1> DEFINE Clear == /\ in.eng # "FAILED" /\ in.infra # "FAILED"
                    /\ in.qa # "REJECTED" /\ in.qa # "PENDING"
                    /\ ~ (in.eng = "PARTIAL" /\ in.blocking)
<1>1. NoBlockingReport(in) <=> Clear
  BY DEF NoBlockingReport
<1>2. Ready(in) <=> Clear /\ ~ MissingResult(in) /\ (CaveatPasses(in) \/ AllGatesPass(in))
  BY ReadyByBranches DEF EngineeringFailed, QaUndecided
<1>3. ASSUME Clear
      PROVE  ~ MissingResult(in) /\ (CaveatPasses(in) \/ AllGatesPass(in))
               <=> AssignedReportsSuffice(in)
  <2> /\ in.eng \in EngineeringStatuses \cup {NoStatus}
      /\ in.infra \in InfrastructureStatuses \cup {NoStatus}
      /\ in.qa \in QualityGates \cup {NoStatus}
      /\ in.blocking \in BOOLEAN
    BY DEF ReadinessInputs
  <2> USE DEF EngineeringStatuses, InfrastructureStatuses, QualityGates, NoStatus
  <2>1. CASE in.eng = "PARTIAL"
    BY <1>3, <2>1 DEF MissingResult, CaveatPasses, AllGatesPass, GatePasses, AssignedReportsSuffice, CaveatInDispute
  <2>2. CASE in.eng # "PARTIAL"
    BY <1>3, <2>2 DEF MissingResult, CaveatPasses, AllGatesPass, GatePasses, AssignedReportsSuffice, CaveatInDispute
  <2> QED BY <2>1, <2>2
<1> QED BY <1>1, <1>2, <1>3

\* The first match over the branches of readiness.py:49-108 is the order-free rule, in
\* every state that reports can lead to, the disputed caveat aside.
THEOREM FirstMatchIsTheRule == PolicySpec => []ReadyExactlyWhenEarned
<1>1. PolicyInv => ReadyExactlyWhenEarned
  BY PolicyMeaning DEF PolicyInv, PolicyTypeOK, ReadyExactlyWhenEarned
<1> QED BY <1>1, InitPolicyInv, NextPolicyInv, PTL DEF PolicySpec

\* A worse engineering report unblocks nothing, unless infrastructure is PARTIAL.
LEMMA WorseStep ==
  ASSUME PolicyInv, PolicyNext,
         EngineeringMerit(inputs') < EngineeringMerit(inputs),
         inputs.infra # "PARTIAL", ~ Ready(inputs)
  PROVE  ~ Ready(inputs')
<1>1. inputs \in ReadinessInputs /\ inputs' \in ReadinessInputs
  BY NextPolicyInv DEF PolicyInv, PolicyTypeOK
<1> USE DEF EngineeringStatuses, NoStatus
<1>2. CASE ReportEngineering
  <2>1. PICK s \in EngineeringStatuses, b \in BOOLEAN :
          (b => s = "PARTIAL") /\ inputs' = [inputs EXCEPT !.eng = s, !.blocking = b]
    BY <1>2 DEF ReportEngineering
  <2>2. /\ inputs'.eng = s /\ inputs'.blocking = b
        /\ inputs'.assigned = inputs.assigned /\ inputs'.infra = inputs.infra
        /\ inputs'.qa = inputs.qa
    BY <1>1, <2>1 DEF ReadinessInputs
  <2>0. ~ CaveatInDispute(inputs) /\ ~ CaveatInDispute(inputs')
    BY <2>2 DEF CaveatInDispute
  <2>3. SUFFICES ASSUME Ready(inputs') PROVE FALSE
    OBVIOUS
  <2>4. NoBlockingReport(inputs') /\ AssignedReportsSuffice(inputs')
    BY <1>1, <2>0, <2>3, PolicyMeaning
  <2>5. inputs.eng \in EngineeringStatuses \cup {NoStatus}
    BY <1>1 DEF ReadinessInputs
  <2>6. s # "FAILED" /\ ~ (s = "PARTIAL" /\ b)
    BY <2>2, <2>4 DEF NoBlockingReport
  <2>7. inputs.eng \in {"SUCCESS", "REPAIRED"}
    BY <2>2, <2>5, <2>6 DEF EngineeringMerit, PolicyInv
  <2>8. NoBlockingReport(inputs) /\ AssignedReportsSuffice(inputs)
    BY <2>2, <2>4, <2>7 DEF NoBlockingReport, AssignedReportsSuffice
  <2> QED BY <1>1, <2>0, <2>8, PolicyMeaning
<1>3. CASE ReportInfrastructure \/ ReportQa
  <2>1. inputs'.eng = inputs.eng /\ inputs'.blocking = inputs.blocking
    BY <1>1, <1>3 DEF ReportInfrastructure, ReportQa, ReadinessInputs
  <2>2. EngineeringMerit(inputs') = EngineeringMerit(inputs)
    BY <2>1 DEF EngineeringMerit
  <2>3. EngineeringMerit(inputs) \in Nat
    BY <1>1 DEF ReadinessInputs, EngineeringMerit
  <2> QED BY <2>2, <2>3
<1> QED BY <1>2, <1>3 DEF PolicyNext

\* A worse engineering report never turns NOT_READY into READY, except under the caveat
\* that infrastructure is PARTIAL (readiness.py:49-108).
THEOREM WorseNewsNeverHelps == PolicySpec => WorseEngineeringNeverUnblocks
<1>1. PolicyInv /\ [PolicyNext]_inputs =>
        [ /\ EngineeringMerit(inputs') < EngineeringMerit(inputs)
          /\ inputs.infra # "PARTIAL"
          /\ ~ Ready(inputs)
          => ~ Ready(inputs') ]_inputs
  BY WorseStep
<1> QED BY <1>1, InitPolicyInv, NextPolicyInv, PTL DEF PolicySpec, WorseEngineeringNeverUnblocks


-----------------------------------------------------------------------------
(* Usage of Account Again *)

UsageInv == UsageTypeOK /\ UsageOncePerKey

LEMMA InitUsageInv == UsageInit => UsageInv
<1> SUFFICES ASSUME UsageInit PROVE UsageInv
  OBVIOUS
<1>1. token \in BOOLEAN
  BY DEF UsageInit
<1>2. /\ keyRow \in [UsageKeys -> Operations \cup {"free"}]
      /\ usageRows \in [UsageKeys \cup {Unkeyed} -> Nat]
      /\ identity \in {"ACTIVE", "REVOKED"}
      /\ serving \in [Callers -> KeyedCalls \cup {NotServing}]
  BY DEF UsageInit
<1>3. UsageOncePerKey
  BY DEF UsageInit, UsageOncePerKey
<1> QED BY <1>1, <1>2, <1>3 DEF UsageInv, UsageTypeOK

LEMMA CommitKeepsUsageInv ==
  ASSUME UsageInv, NEW c \in Callers, CommitCall(c)
  PROVE  UsageInv'
<1> DEFINE q == serving[c]
<1>1. q \in KeyedCalls
  BY DEF UsageInv, UsageTypeOK, CommitCall, NotServing
<1>2. q.does \in Operations /\ q.key \in UsageKeys \cup {Unkeyed}
  BY <1>1 DEF KeyedCalls
<1>3. serving' \in [Callers -> KeyedCalls \cup {NotServing}]
  BY DEF UsageInv, UsageTypeOK, CommitCall
<1>4. identity' = identity /\ token' = token
  BY DEF CommitCall
<1>5. CASE q.key = Unkeyed \/ KeyIsFree(q.key)
  <2>1. /\ keyRow' = [k \in UsageKeys |-> IF k = q.key THEN q.does ELSE keyRow[k]]
        /\ usageRows' = IF q.does = "usage" THEN [usageRows EXCEPT ![q.key] = @ + 1]
                                            ELSE usageRows
    BY <1>5 DEF CommitCall
  <2>2. keyRow' \in [UsageKeys -> Operations \cup {"free"}]
    BY <1>2, <2>1 DEF UsageInv, UsageTypeOK
  <2>3. usageRows' \in [UsageKeys \cup {Unkeyed} -> Nat]
    BY <1>2, <2>1 DEF UsageInv, UsageTypeOK
  <2>4. ASSUME NEW k \in UsageKeys
        PROVE  usageRows'[k] = IF keyRow'[k] = "usage" THEN 1 ELSE 0
    <3>1. usageRows[k] = IF keyRow[k] = "usage" THEN 1 ELSE 0
      BY DEF UsageInv, UsageOncePerKey
    <3>2. CASE k = q.key
      <4>1. keyRow[k] = "free"
        BY <1>5, <3>2, UnkeyedAssumption DEF KeyIsFree
      <4> QED BY <1>2, <2>1, <3>1, <3>2, <4>1 DEF UsageInv, UsageTypeOK, Operations
    <3>3. CASE k # q.key
      BY <1>2, <2>1, <3>1, <3>3 DEF UsageInv, UsageTypeOK
    <3> QED BY <3>2, <3>3
  <2> QED BY <1>3, <1>4, <2>2, <2>3, <2>4 DEF UsageInv, UsageTypeOK, UsageOncePerKey
<1>6. CASE ~ (q.key = Unkeyed \/ KeyIsFree(q.key))
  <2>1. UNCHANGED <<keyRow, usageRows>>
    BY <1>6 DEF CommitCall
  <2> QED BY <1>3, <1>4, <2>1 DEF UsageInv, UsageTypeOK, UsageOncePerKey
<1> QED BY <1>5, <1>6

LEMMA NextUsageInv == UsageInv /\ [UsageNext]_usageVars => UsageInv'
<1> SUFFICES ASSUME UsageInv, [UsageNext]_usageVars PROVE UsageInv'
  OBVIOUS
<1> USE DEF UsageInv, UsageTypeOK, UsageOncePerKey
<1>1. CASE IssueToken
  BY <1>1 DEF IssueToken
<1>2. CASE TokenExpires
  BY <1>2 DEF TokenExpires
<1>3. CASE RevokeIdentity
  BY <1>3 DEF RevokeIdentity
<1>4. CASE AccountStops
  BY <1>4 DEF AccountStops
<1>5. ASSUME NEW c \in Callers, BeginCall(c) PROVE UsageInv'
  BY <1>5 DEF BeginCall, KeyedCalls
<1>6. ASSUME NEW c \in Callers, CheckIdempotent(c) PROVE UsageInv'
  BY <1>6 DEF CheckIdempotent, KeyedCalls, NotServing
<1>7. ASSUME NEW c \in Callers, CommitCall(c) PROVE UsageInv'
  BY <1>7, CommitKeepsUsageInv
<1>8. CASE UNCHANGED usageVars
  BY <1>8 DEF usageVars
<1> QED BY <1>1, <1>2, <1>3, <1>4, <1>5, <1>6, <1>7, <1>8 DEF UsageNext

\* Every key, record and call of Account Again stays well formed.
THEOREM UsageTypeCorrect == UsageSpec => []UsageTypeOK
<1>1. UsageInv => UsageTypeOK
  BY DEF UsageInv
<1> QED BY <1>1, InitUsageInv, NextUsageInv, PTL DEF UsageSpec

\* Usage submitted under a key is counted once: the key and the record are one commit,
\* and a key taken since it was looked up refuses both.
THEOREM UsageCountsOnce == UsageSpec => []UsageOncePerKey
<1>1. UsageInv => UsageOncePerKey
  BY DEF UsageInv
<1> QED BY <1>1, InitUsageInv, NextUsageInv, PTL DEF UsageSpec

-----------------------------------------------------------------------------
(* Change requests of PM Again *)

\* What the commits rest on: a confirmation leaves its trace, and a request past the
\* gate is about a row that is there and had its document signed off - unless the row
\* it read has been deleted.
ClerkOK(k) ==
  /\ clerk[k].does \in {"gate", "impacts", "approve"} => changeRequest[clerk[k].request] # "none"
  /\ clerk[k].does = "gate" => clerk[k].document \in attached[clerk[k].request]
  /\ clerk[k].does \in {"impacts", "approve"} => clerk[k].request \in backed

ChangeInv ==
  /\ ChangeTypeOK
  /\ \A c \in RequestIds : linked[c] # NoDocument => linked[c] \in attached[c]
  /\ \A c \in RequestIds : \A d \in attached[c] : document[d] = "Confirmed" => c \in backed
  /\ \A k \in Clerks \ late : ClerkOK(k)
  /\ ScopeNeedsSignoff

\* What is remembered of a row only grows while the row is there.
LEMMA TracesGrow ==
  ASSUME ChangeTypeOK, [ChangeNext]_changeVars
  PROVE  \A c \in RequestIds : changeRequest[c] # "none" =>
           (c \in backed => c \in backed') /\ attached[c] \subseteq attached'[c]
<1> USE DEF ChangeTypeOK, Takes, Goes, KeepsDocuments, KeepsRequests, Ends
<1>1. CASE UNCHANGED changeVars
  BY <1>1 DEF changeVars
<1>2. ASSUME NEW c \in RequestIds, DeleteChangeRequest(c) \/ DeleteImpact(c)
      PROVE  UNCHANGED <<backed, attached>>
  BY <1>2 DEF DeleteChangeRequest, DeleteImpact
<1>3. ASSUME NEW c \in RequestIds, NEW k \in Clerks,
             \/ BeginStatus(k, c) \/ BeginApproval(k, c)
             \/ BeginSubmitApproval(k, c) \/ BeginAddImpact(k, c)
      PROVE  UNCHANGED <<backed, attached>>
  BY <1>3 DEF BeginStatus, BeginApproval, BeginSubmitApproval, BeginAddImpact
<1>4. ASSUME NEW d \in DocumentIds, CreateDocument(d) \/ DeleteDocument(d)
      PROVE  UNCHANGED <<backed, attached>>
  BY <1>4 DEF CreateDocument, DeleteDocument
<1>5. ASSUME NEW d \in DocumentIds, NEW k \in Clerks,
             BeginUpdateDocument(k, d) \/ BeginSubmitReview(k, d) \/ BeginSignoff(k, d)
      PROVE  UNCHANGED <<backed, attached>>
  BY <1>5 DEF BeginUpdateDocument, BeginSubmitReview, BeginSignoff
<1>6. ASSUME NEW k \in Clerks,
             \/ CommitStatus(k) \/ PassGate(k) \/ ReadImpacts(k) \/ CommitApproval(k)
             \/ CommitAddImpact(k) \/ ClerkFails(k)
      PROVE  UNCHANGED <<backed, attached>>
  BY <1>6 DEF CommitStatus, PassGate, ReadImpacts, CommitApproval, CommitAddImpact,
              ClerkFails
<1>7. ASSUME NEW k \in Clerks, CommitSubmitApproval(k)
      PROVE  UNCHANGED backed /\ \A c \in RequestIds : attached[c] \subseteq attached'[c]
  BY <1>7 DEF CommitSubmitApproval
<1>8. ASSUME NEW k \in Clerks, CommitDocument(k)
      PROVE  backed \subseteq backed' /\ UNCHANGED attached
  BY <1>8 DEF CommitDocument
<1>9. ASSUME NEW c \in RequestIds, CreateChangeRequest(c)
      PROVE  /\ changeRequest[c] = "none"
             /\ \A x \in RequestIds : x # c => attached'[x] = attached[x] /\ (x \in backed => x \in backed')
  BY <1>9 DEF CreateChangeRequest, IsNextId
<1> QED BY <1>1, <1>2, <1>3, <1>4, <1>5, <1>6, <1>7, <1>8, <1>9 DEF ChangeNext

LEMMA InitChangeInv == ChangeInit => ChangeInv
<1> SUFFICES ASSUME ChangeInit PROVE ChangeInv
  OBVIOUS
<1>1. ChangeTypeOK
  BY DEF ChangeInit, ChangeTypeOK
<1>2. \A k \in Clerks : clerk[k] = Free
  BY DEF ChangeInit
<1> QED BY <1>1, <1>2 DEF ChangeInit, ChangeInv, ClerkOK, ScopeNeedsSignoff, Free

\* A request that takes a job, ends one or passes to its next step disturbs no row.
LEMMA JobKeepsChangeInv ==
  ASSUME ChangeInv, KeepsRequests, KeepsDocuments,
         NEW k \in Clerks, NEW job \in ClerkJob \cup {Free},
         clerk' = [clerk EXCEPT ![k] = job],
         (job = Free /\ late' = late \ {k}) \/ late' = late,
         k \notin late /\ job.does \in {"gate", "impacts", "approve"} =>
           /\ changeRequest[job.request] # "none"
           /\ job.does = "gate" => job.document \in attached[job.request]
           /\ job.does # "gate" => job.request \in backed
  PROVE  ChangeInv'
<1> USE DEF KeepsRequests, KeepsDocuments, ChangeInv
<1>1. ChangeTypeOK'
  BY DEF ChangeTypeOK
<1>2. ASSUME NEW other \in Clerks
      PROVE  clerk'[other] = IF other = k THEN job ELSE clerk[other]
  BY DEF ChangeTypeOK
<1>3. ScopeNeedsSignoff'
  BY DEF ScopeNeedsSignoff
<1>4. ASSUME NEW other \in Clerks \ late' PROVE ClerkOK(other)'
  <2>1. CASE other # k
    <3>1. ClerkOK(other) /\ clerk'[other] = clerk[other]
      BY <1>2, <2>1
    <3> QED BY <3>1 DEF ClerkOK
  <2>2. CASE other = k
    <3>1. clerk'[k] = job /\ (job = Free \/ k \notin late)
      BY <1>2, <2>2
    <3> QED BY <2>2, <3>1 DEF ClerkOK, Free
  <2> QED BY <2>1, <2>2
<1> QED BY <1>1, <1>3, <1>4

\* The handlers' reads.
LEMMA ReadKeepsChangeInv ==
  ASSUME ChangeInv, NEW k \in Clerks,
         \/ \E c \in RequestIds : \/ BeginStatus(k, c) \/ BeginApproval(k, c)
                                  \/ BeginSubmitApproval(k, c) \/ BeginAddImpact(k, c)
         \/ \E d \in DocumentIds :
              BeginUpdateDocument(k, d) \/ BeginSubmitReview(k, d) \/ BeginSignoff(k, d)
         \/ PassGate(k) \/ ReadImpacts(k) \/ ClerkFails(k)
  PROVE  ChangeInv'
<1> USE DEF Takes, Goes, Ends
<1>1. ASSUME NEW c \in RequestIds, BeginStatus(k, c) PROVE ChangeInv'
  <2>1. PICK to \in CHANGE_REQUEST_TRANSITIONS[changeRequest[c]] \ {"Approved"} :
          clerk' = [clerk EXCEPT ![k] = [does |-> "status", request |-> c, to |-> to]]
    BY <1>1 DEF BeginStatus
  <2>2. changeRequest[c] \in RequestStatuses
    BY <1>1 DEF BeginStatus, ChangeInv, ChangeTypeOK
  <2>3. to \in RequestStatuses
    BY <2>1, <2>2 DEF CHANGE_REQUEST_TRANSITIONS, RequestStatuses
  <2> QED BY <1>1, <2>1, <2>3, JobKeepsChangeInv DEF BeginStatus, ClerkJob
<1>2. ASSUME NEW c \in RequestIds, BeginApproval(k, c) PROVE ChangeInv'
  <2>1. linked[c] \in DocumentIds /\ linked[c] \in attached[c]
    BY <1>2 DEF BeginApproval, ChangeInv, ChangeTypeOK
  <2> QED BY <1>2, <2>1, JobKeepsChangeInv DEF BeginApproval, ClerkJob
<1>3. ASSUME NEW c \in RequestIds, BeginSubmitApproval(k, c) PROVE ChangeInv'
  <2>1. (linked[c] = NoDocument) \in BOOLEAN /\ (changeRequest[c] # "PendingApproval") \in BOOLEAN
    OBVIOUS
  <2> QED BY <1>3, <2>1, JobKeepsChangeInv DEF BeginSubmitApproval, ClerkJob
<1>4. ASSUME NEW c \in RequestIds, BeginAddImpact(k, c) PROVE ChangeInv'
  BY <1>4, JobKeepsChangeInv DEF BeginAddImpact, ClerkJob
<1>5. ASSUME NEW d \in DocumentIds,
             BeginUpdateDocument(k, d) \/ BeginSubmitReview(k, d) \/ BeginSignoff(k, d)
      PROVE  ChangeInv'
  <2>1. PICK to \in DocumentStatuses :
          clerk' = [clerk EXCEPT ![k] = [does |-> "document", document |-> d, to |-> to]]
    BY <1>5 DEF BeginUpdateDocument, BeginSubmitReview, BeginSignoff, DocumentStatuses
  <2>2. KeepsDocuments /\ KeepsRequests /\ UNCHANGED late
    BY <1>5 DEF BeginUpdateDocument, BeginSubmitReview, BeginSignoff
  <2> QED BY <2>1, <2>2, JobKeepsChangeInv DEF ClerkJob
<1>6. CASE PassGate(k)
  <2>1. clerk[k] \in ClerkJob /\ clerk[k].does = "gate"
    BY <1>6 DEF PassGate, ChangeInv, ChangeTypeOK, Free
  <2>2. clerk[k].request \in RequestIds /\ clerk[k].document \in DocumentIds
    BY <2>1 DEF ClerkJob
  <2>3. k \notin late => changeRequest[clerk[k].request] # "none" /\ clerk[k].request \in backed
    BY <1>6, <2>1, <2>2 DEF PassGate, SignedOffNow, ChangeInv, ClerkOK
  <2> QED BY <1>6, <2>2, <2>3, JobKeepsChangeInv DEF PassGate, ClerkJob
<1>7. CASE ReadImpacts(k)
  <2>1. clerk[k] \in ClerkJob /\ clerk[k].does = "impacts"
    BY <1>7 DEF ReadImpacts, ChangeInv, ChangeTypeOK, Free
  <2>2. /\ clerk[k].request \in RequestIds
        /\ k \notin late => changeRequest[clerk[k].request] # "none" /\ clerk[k].request \in backed
    BY <2>1 DEF ClerkJob, ChangeInv, ClerkOK
  <2>3. (impact[clerk[k].request] = "open") \in BOOLEAN
    OBVIOUS
  <2> QED BY <1>7, <2>2, <2>3, JobKeepsChangeInv DEF ReadImpacts, ClerkJob
<1>8. CASE ClerkFails(k)
  BY <1>8, JobKeepsChangeInv DEF ClerkFails, Free
<1> QED BY <1>1, <1>2, <1>3, <1>4, <1>5, <1>6, <1>7, <1>8

\* What backs a row stays while it is there, so the jobs of the requests stay justified:
\* a commit has to show only what it does to the rows.
LEMMA CommitKeepsChangeInv ==
  ASSUME ChangeInv, [ChangeNext]_changeVars, ChangeTypeOK',
         \A k \in Clerks : clerk'[k] = Free \/ (clerk'[k] = clerk[k] /\ (k \in late => k \in late')),
         \A c \in RequestIds : changeRequest'[c] = "none" /\ changeRequest[c] # "none" => About(c) \subseteq late',
         \A c \in RequestIds : linked'[c] # NoDocument => linked'[c] \in attached'[c],
         \A c \in RequestIds : \A d \in attached'[c] : document'[d] = "Confirmed" => c \in backed',
         \A c \in RequestIds : changeRequest'[c] = "Approved" \/ functions'[c] =>
           \/ c \in mistaken'
           \/ c \in backed'
  PROVE  ChangeInv'
<1>1. \A c \in RequestIds : changeRequest[c] # "none" =>
        (c \in backed => c \in backed') /\ attached[c] \subseteq attached'[c]
  BY TracesGrow DEF ChangeInv
<1>2. ASSUME NEW k \in Clerks \ late' PROVE ClerkOK(k)'
  <2>1. CASE clerk'[k] = Free
    BY <2>1 DEF ClerkOK, Free
  <2>2. CASE clerk'[k] = clerk[k] /\ clerk[k].does \in {"gate", "impacts", "approve"}
    <3>1. clerk[k] \in ClerkJob
      BY <2>2 DEF ChangeInv, ChangeTypeOK, Free
    <3>2. clerk[k].request \in RequestIds
      BY <2>2, <3>1 DEF ClerkJob
    <3>3. CASE clerk'[k] = Free
      BY <3>3 DEF ClerkOK, Free
    <3>4. CASE clerk'[k] # Free
      <4>1. k \notin late /\ ClerkOK(k)
        BY <3>4 DEF ChangeInv
      <4>2. changeRequest'[clerk[k].request] # "none"
        BY <2>2, <3>2, <4>1 DEF ClerkOK, About
      <4> QED BY <1>1, <2>2, <3>2, <4>1, <4>2 DEF ClerkOK
    <3> QED BY <3>3, <3>4
  <2>3. CASE clerk'[k] = clerk[k] /\ clerk[k].does \notin {"gate", "impacts", "approve"}
    BY <2>3 DEF ClerkOK
  <2> QED BY <2>1, <2>2, <2>3
<1>3. ScopeNeedsSignoff'
  BY DEF ScopeNeedsSignoff
<1> QED BY <1>2, <1>3 DEF ChangeInv

LEMMA NextChangeInv == ChangeInv /\ [ChangeNext]_changeVars => ChangeInv'
<1> SUFFICES ASSUME ChangeInv, [ChangeNext]_changeVars PROVE ChangeInv'
  OBVIOUS
<1> USE DEF KeepsDocuments, KeepsRequests, Ends, Waits, ScopeNeedsSignoff
<1>1. CASE UNCHANGED changeVars
  <2>1. ChangeTypeOK'
    BY <1>1 DEF changeVars, ChangeInv, ChangeTypeOK
  <2> QED BY <1>1, <2>1, CommitKeepsChangeInv DEF changeVars, ChangeInv
<1>2. ASSUME NEW c \in RequestIds, CreateChangeRequest(c) PROVE ChangeInv'
  <2>1. ChangeTypeOK'
    BY <1>2 DEF CreateChangeRequest, ChangeInv, ChangeTypeOK, RequestStatuses
  <2>2. \A x \in RequestIds :
          /\ changeRequest'[x] = IF x = c THEN "Draft" ELSE changeRequest[x]
          /\ linked'[x] = IF x = c THEN NoDocument ELSE linked[x]
          /\ functions'[x] = IF x = c THEN FALSE ELSE functions[x]
          /\ attached'[x] = IF x = c THEN {} ELSE attached[x]
          /\ x # c => (x \in backed' <=> x \in backed) /\ (x \in mistaken' <=> x \in mistaken)
    BY <1>2 DEF CreateChangeRequest, ChangeInv, ChangeTypeOK
  <2>3. UNCHANGED <<document, clerk, late>>
    BY <1>2 DEF CreateChangeRequest
  <2> QED BY <1>2, <2>1, <2>2, <2>3, CommitKeepsChangeInv DEF ChangeInv
<1>3. ASSUME NEW c \in RequestIds, DeleteChangeRequest(c) PROVE ChangeInv'
  <2>1. ChangeTypeOK'
    BY <1>3 DEF DeleteChangeRequest, About, ChangeInv, ChangeTypeOK
  <2> QED BY <1>3, <2>1, CommitKeepsChangeInv DEF DeleteChangeRequest, ChangeInv, ChangeTypeOK
<1>4. ASSUME NEW c \in RequestIds, DeleteImpact(c) PROVE ChangeInv'
  <2>1. ChangeTypeOK'
    BY <1>4 DEF DeleteImpact, ChangeInv, ChangeTypeOK
  <2> QED BY <1>4, <2>1, CommitKeepsChangeInv DEF DeleteImpact, ChangeInv
<1>5. ASSUME NEW d \in DocumentIds, CreateDocument(d) PROVE ChangeInv'
  <2>1. ChangeTypeOK'
    BY <1>5 DEF CreateDocument, ChangeInv, ChangeTypeOK, DocumentStatuses
  <2> QED BY <1>5, <2>1, CommitKeepsChangeInv DEF CreateDocument, ChangeInv, ChangeTypeOK
<1>6. ASSUME NEW d \in DocumentIds, DeleteDocument(d) PROVE ChangeInv'
  <2>1. ChangeTypeOK'
    BY <1>6 DEF DeleteDocument, ChangeInv, ChangeTypeOK
  <2> QED BY <1>6, <2>1, CommitKeepsChangeInv DEF DeleteDocument, ChangeInv, ChangeTypeOK
<1>7. ASSUME NEW k \in Clerks, CommitStatus(k) PROVE ChangeInv'
  <2>1. clerk[k] \in ClerkJob
    BY <1>7 DEF CommitStatus, ChangeInv, ChangeTypeOK, Free
  <2>2. clerk[k].request \in RequestIds /\ clerk[k].to \in RequestStatuses \ {"Approved"}
    BY <1>7, <2>1 DEF CommitStatus, ClerkJob
  <2>3. ChangeTypeOK'
    BY <1>7, <2>2 DEF CommitStatus, ChangeInv, ChangeTypeOK
  <2> QED BY <1>7, <2>2, <2>3, CommitKeepsChangeInv DEF CommitStatus, ChangeInv, ChangeTypeOK, RequestStatuses
<1>8. ASSUME NEW k \in Clerks, CommitApproval(k) PROVE ChangeInv'
  <2>1. clerk[k] \in ClerkJob
    BY <1>8 DEF CommitApproval, ChangeInv, ChangeTypeOK, Free
  <2>2. clerk[k].request \in RequestIds /\ clerk[k].creates \in BOOLEAN
    BY <1>8, <2>1 DEF CommitApproval, ClerkJob
  <2>3. clerk[k].request \in mistaken' \/ clerk[k].request \in backed'
    BY <1>8 DEF CommitApproval, ChangeInv, ClerkOK
  <2>4. ChangeTypeOK'
    BY <1>8, <2>2 DEF CommitApproval, ChangeInv, ChangeTypeOK, RequestStatuses
  <2> QED BY <1>8, <2>2, <2>3, <2>4, CommitKeepsChangeInv DEF CommitApproval, ChangeInv, ChangeTypeOK
<1>9. ASSUME NEW k \in Clerks, CommitSubmitApproval(k) PROVE ChangeInv'
  <2> DEFINE c == clerk[k].request
  <2>1. clerk[k] \in ClerkJob
    BY <1>9 DEF CommitSubmitApproval, ChangeInv, ChangeTypeOK, Free
  <2>2. c \in RequestIds /\ clerk[k].moves \in BOOLEAN
    BY <1>9, <2>1 DEF CommitSubmitApproval, ClerkJob
  <2>3. /\ changeRequest' = [changeRequest EXCEPT ![c] = IF clerk[k].moves
                                                          THEN "PendingApproval" ELSE @]
        /\ clerk' = [clerk EXCEPT ![k] = Free]
        /\ UNCHANGED <<impact, functions, backed, mistaken>> /\ late' = late \ {k}
    BY <1>9 DEF CommitSubmitApproval
  <2>4. \/ \E d \in DocumentIds : /\ document' = [document EXCEPT ![d] = "Draft"]
                                  /\ linked'   = [linked EXCEPT ![c] = d]
                                  /\ attached' = [attached EXCEPT ![c] = @ \cup {d}]
        \/ UNCHANGED <<document, linked, attached>>
    BY <1>9 DEF CommitSubmitApproval
  <2>5. ChangeTypeOK'
    BY <2>2, <2>3, <2>4 DEF ChangeInv, ChangeTypeOK, RequestStatuses, DocumentStatuses
  <2>6. \A x \in RequestIds : linked'[x] # NoDocument => linked'[x] \in attached'[x]
    BY <2>2, <2>4 DEF ChangeInv, ChangeTypeOK
  <2>7. \A x \in RequestIds : \A d \in attached'[x] : document'[d] = "Confirmed" => x \in backed'
    BY <2>2, <2>3, <2>4 DEF ChangeInv, ChangeTypeOK
  <2>8. \A other \in Clerks : clerk'[other] = Free \/ (clerk'[other] = clerk[other] /\ (other \in late => other \in late'))
    BY <2>3 DEF ChangeInv, ChangeTypeOK
  <2>9. \A x \in RequestIds : changeRequest'[x] = "Approved" \/ functions'[x] =>
          x \in mistaken' \/ x \in backed'
    BY <2>2, <2>3 DEF ChangeInv, ChangeTypeOK
  <2>10. \A x \in RequestIds : changeRequest'[x] = "none" => changeRequest[x] = "none"
    BY <1>9, <2>2, <2>3 DEF CommitSubmitApproval, ChangeInv, ChangeTypeOK
  <2> QED BY <2>5, <2>6, <2>7, <2>8, <2>9, <2>10, CommitKeepsChangeInv
<1>10. ASSUME NEW k \in Clerks, CommitAddImpact(k) PROVE ChangeInv'
  <2>1. clerk[k] \in ClerkJob
    BY <1>10 DEF CommitAddImpact, ChangeInv, ChangeTypeOK, Free
  <2>2. clerk[k].request \in RequestIds
    BY <1>10, <2>1 DEF CommitAddImpact, ClerkJob
  <2>3. ChangeTypeOK'
    BY <1>10, <2>2 DEF CommitAddImpact, ChangeInv, ChangeTypeOK
  <2> QED BY <1>10, <2>3, CommitKeepsChangeInv DEF CommitAddImpact, ChangeInv, ChangeTypeOK
<1>11. ASSUME NEW k \in Clerks, CommitDocument(k) PROVE ChangeInv'
  <2>1. clerk[k] \in ClerkJob
    BY <1>11 DEF CommitDocument, ChangeInv, ChangeTypeOK, Free
  <2>2. clerk[k].document \in DocumentIds /\ clerk[k].to \in DocumentStatuses
    BY <1>11, <2>1 DEF CommitDocument, ClerkJob
  <2>3. ChangeTypeOK'
    BY <1>11, <2>2 DEF CommitDocument, ChangeInv, ChangeTypeOK
  <2>4. \A x \in RequestIds : \A d \in attached'[x] : document'[d] = "Confirmed" => x \in backed'
    BY <1>11, <2>2 DEF CommitDocument, ChangeInv, ChangeTypeOK
  <2> QED BY <1>11, <2>3, <2>4, CommitKeepsChangeInv DEF CommitDocument, ChangeInv, ChangeTypeOK
<1> QED BY <1>1, <1>2, <1>3, <1>4, <1>5, <1>6, <1>7, <1>8, <1>9, <1>10, <1>11,
           ReadKeepsChangeInv DEF ChangeNext

\* However the requests overlap, PM Again approves nothing and creates no function for
\* a change request before a document that was linked to it had been signed off.
THEOREM NothingBeforeSignoff == ChangeSpec => []ScopeNeedsSignoff
<1>1. ChangeInv => ScopeNeedsSignoff
  BY DEF ChangeInv
<1> QED BY <1>1, InitChangeInv, NextChangeInv, PTL DEF ChangeSpec

-----------------------------------------------------------------------------
(* Deliberation *)

\* A flag is set with a row, and a request that found itself the last one leaves no
\* other member's flag open.
DeliberationInv ==
  /\ DeliberationTypeOK
  /\ \A m \in Members : hasSubmitted[m] => submissions[m] > 0
  /\ \A s \in Sessions : session[s].does = "submit" /\ session[s].last =>
       \A m \in Members \ {session[s].member} : hasSubmitted[m]
  /\ \A s \in Sessions : session[s].does = "move" => session[s].to # "independent_complete"
  /\ CompleteWhenAllSubmitted

LEMMA CommitSubmissionKeeps ==
  ASSUME DeliberationInv, NEW s \in Sessions, CommitSubmission(s)
  PROVE  DeliberationInv'
<1> DEFINE m == session[s].member
<1>1. session[s] \in SessionJob
  BY DEF CommitSubmission, DeliberationInv, DeliberationTypeOK, NoSession
<1>2. m \in Members /\ session[s].last \in BOOLEAN
  BY <1>1 DEF CommitSubmission, SessionJob
<1>3. /\ submissions'  = [submissions EXCEPT ![m] = @ + 1]
      /\ hasSubmitted' = [hasSubmitted EXCEPT ![m] = TRUE]
      /\ session' = [session EXCEPT ![s] = NoSession]
      /\ submissions[m] < MaxSubmissions
  BY DEF CommitSubmission
<1>4. /\ \A x \in Members : submissions'[x] = IF x = m THEN submissions[x] + 1 ELSE submissions[x]
      /\ hasSubmitted'[m] = TRUE
      /\ \A x \in Members \ {m} : hasSubmitted'[x] = hasSubmitted[x]
      /\ \A x \in Sessions : session'[x] = IF x = s THEN NoSession ELSE session[x]
  BY <1>2, <1>3 DEF DeliberationInv, DeliberationTypeOK
<1>5. deliberation' = IF session[s].last THEN "independent_complete" ELSE deliberation
  BY DEF CommitSubmission
<1>6. \A x \in Members : submissions[x] \in Nat
  BY MembersAssumption DEF DeliberationInv, DeliberationTypeOK
<1>7. DeliberationTypeOK'
  BY <1>2, <1>3, <1>5, <1>6, MembersAssumption
     DEF DeliberationInv, DeliberationTypeOK, LaterRounds
<1>8. \A x \in Members : hasSubmitted'[x] => submissions'[x] > 0
  BY <1>4, <1>6 DEF DeliberationInv
<1>9. CompleteWhenAllSubmitted'
  BY <1>2, <1>4, <1>5, <1>8 DEF DeliberationInv, CompleteWhenAllSubmitted, CommitSubmission
<1> QED BY <1>4, <1>7, <1>8, <1>9 DEF DeliberationInv, NoSession

LEMMA CommitMoveKeeps ==
  ASSUME DeliberationInv, NEW s \in Sessions, CommitMove(s)
  PROVE  DeliberationInv'
<1>1. session[s] \in SessionJob
  BY DEF CommitMove, DeliberationInv, DeliberationTypeOK, NoSession
<1>2. session[s].to \in LaterRounds /\ session[s].to # "independent_complete"
  BY <1>1 DEF CommitMove, SessionJob, DeliberationInv
<1>3. deliberation' = deliberation \/ deliberation' = session[s].to
  BY DEF CommitMove
<1>4. DeliberationTypeOK'
  BY <1>2, <1>3 DEF CommitMove, DeliberationInv, DeliberationTypeOK
<1>5. \A x \in Sessions : session'[x] = IF x = s THEN NoSession ELSE session[x]
  BY DEF CommitMove, DeliberationInv, DeliberationTypeOK
<1>6. UNCHANGED <<hasSubmitted, submissions>>
  BY DEF CommitMove
<1> QED BY <1>2, <1>3, <1>4, <1>5, <1>6 DEF DeliberationInv, NoSession, CompleteWhenAllSubmitted

\* A request that takes a job, goes to its next step or ends changes nothing else.
LEMMA SessionKeeps ==
  ASSUME DeliberationInv, NEW s \in Sessions, NEW job \in SessionJob \cup {NoSession},
         session' = [session EXCEPT ![s] = job],
         UNCHANGED <<deliberation, hasSubmitted, submissions>>,
         job.does = "submit" => (job.last => AllSubmitted(job.member)),
         job.does = "move" => job.to # "independent_complete"
  PROVE  DeliberationInv'
<1>1. DeliberationTypeOK'
  BY DEF DeliberationInv, DeliberationTypeOK
<1>2. \A x \in Sessions : session'[x] = IF x = s THEN job ELSE session[x]
  BY DEF DeliberationInv, DeliberationTypeOK
<1> QED BY <1>1, <1>2 DEF DeliberationInv, AllSubmitted, CompleteWhenAllSubmitted

LEMMA NextDeliberationInv == DeliberationInv /\ [DeliberationNext]_deliberationVars => DeliberationInv'
<1> SUFFICES ASSUME DeliberationInv, [DeliberationNext]_deliberationVars PROVE DeliberationInv'
  OBVIOUS
<1>1. CASE UNCHANGED deliberationVars
  BY <1>1 DEF deliberationVars, DeliberationInv, DeliberationTypeOK, CompleteWhenAllSubmitted
<1>2. CASE StartDeliberation
  BY <1>2 DEF StartDeliberation, DeliberationInv, DeliberationTypeOK,
              CompleteWhenAllSubmitted, OpenForSubmissions
<1>3. ASSUME NEW s \in Sessions, NEW m \in Members, BeginSubmission(s, m) \/ BeginGenerate(s, m)
      PROVE  DeliberationInv'
  BY <1>3, SessionKeeps DEF BeginSubmission, BeginGenerate, Opens, SessionJob
<1>4. ASSUME NEW s \in Sessions, ReadPanel(s) PROVE DeliberationInv'
  <2>1. session[s] \in SessionJob
    BY <1>4 DEF ReadPanel, DeliberationInv, DeliberationTypeOK, NoSession
  <2>2. session[s].member \in Members
    BY <1>4, <2>1 DEF ReadPanel, SessionJob
  <2>3. AllSubmitted(session[s].member) \in BOOLEAN
    BY DEF AllSubmitted
  <2> QED BY <1>4, <2>2, <2>3, SessionKeeps DEF ReadPanel, SessionJob
<1>5. ASSUME NEW s \in Sessions, BeginCritique(s) \/ BeginRevision(s) \/ BeginDecision(s)
      PROVE  DeliberationInv'
  <2>1. deliberation \in OpenForSubmissions \cup LaterRounds
    BY <1>5 DEF BeginCritique, BeginRevision, BeginDecision, DeliberationInv, DeliberationTypeOK
  <2> QED BY <1>5, <2>1, SessionKeeps
          DEF BeginCritique, BeginRevision, BeginDecision, Opens, SessionJob, LaterRounds
<1>6. ASSUME NEW s \in Sessions, SessionFails(s) PROVE DeliberationInv'
  BY <1>6, SessionKeeps DEF SessionFails, NoSession
<1> QED BY <1>1, <1>2, <1>3, <1>4, <1>5, <1>6, CommitSubmissionKeeps, CommitMoveKeeps
        DEF DeliberationNext

LEMMA InitDeliberationInv == DeliberationInit => DeliberationInv
BY MembersAssumption DEF DeliberationInit, DeliberationInv, DeliberationTypeOK,
   CompleteWhenAllSubmitted, NoSession

\* For any panel and any overlapping requests, a deliberation whose independent round
\* is complete has a submission of every member.
THEOREM RoundEndsWithAll == DeliberationSpec => []CompleteWhenAllSubmitted
<1>1. DeliberationInv => CompleteWhenAllSubmitted
  BY DEF DeliberationInv
<1> QED BY <1>1, InitDeliberationInv, NextDeliberationInv, PTL DEF DeliberationSpec
=============================================================================
