----------------------------- MODULE QaCampaign ------------------------------
(***************************************************************************)
(* One test cycle of QA Again: its results, their review, its sign-offs,   *)
(* its defects and the quality gate it reports (routers/cycles.py,         *)
(* cycle_results.py, signoffs.py, defects.py, metrics.py,                  *)
(* qa_result_service.py).                                                  *)
(*                                                                         *)
(* A handler that changes the cycle or a result loads rows, tests them and *)
(* commits what differs from what it loaded; what others commit falls      *)
(* between the two. A report is five queries, and between two of them      *)
(* anything may be committed.                                              *)
(***************************************************************************)
CONSTANTS
  Cases,      \* the cases of the cycle's revision
  Critical,   \* those of priority P0
  Reasons,    \* texts of na_reason
  Clients     \* handlers that may change the cycle at one time

ASSUME CampaignAssumption == Critical \subseteq Cases

VARIABLES
  cycle,      \* TestCycle.status
  result,     \* CycleTestResult rows by case
  history,    \* does a CycleResultHistory row of the case say PASS or NOT_APPLICABLE?
  reviewed,   \* the reason the admin's request had loaded when the review was kept
  crossed,    \* history: cases where a review and an update overlapped, until one that did not
  signoff,    \* what the latest sign-off of each type comes to
  blocking,   \* is a P0 or P1 defect of the cycle open?
  client,
  report,     \* the report that is being built
  reported    \* the quality gate of the last one, until the next begins

resultRows   == <<result, history, reviewed, crossed>>
gateRows     == <<signoff, blocking>>
campaignVars == <<cycle, resultRows, gateRows, client, report, reported>>

CycleStatuses == {"READY", "IN_PROGRESS", "COMPLETED", "LOCKED", "CANCELLED"}
\* FAIL stands for BLOCKED as well: nothing tells them apart.
Results   == {"NOT_RUN", "PASS", "FAIL", "NOT_APPLICABLE"}
Reviews   == {"UNREVIEWED", "ACCEPTED", "CHANGES_REQUESTED"}
Signoffs  == {"APPROVED", "REJECTED", "PENDING"}

ResultRow == [status : Results, reason : Reasons \cup {"none"}, review : Reviews]

NoClient == [does |-> "nothing"]
NoReport == [at |-> "idle", settled |-> FALSE, signoff |-> "PENDING", ready |-> TRUE]

CampaignInit ==
  /\ cycle    = "READY"
  /\ result   = [k \in Cases |-> [status |-> "NOT_RUN", reason |-> "none", review |-> "UNREVIEWED"]]
  /\ history  = [k \in Cases |-> FALSE]
  /\ reviewed = [k \in Cases |-> "none"]
  /\ crossed  = {}
  /\ signoff  = "PENDING"
  /\ blocking = FALSE
  /\ client   = [c \in Clients |-> NoClient]
  /\ report   = NoReport
  /\ reported = "PENDING"

-----------------------------------------------------------------------------
(* The handlers that change the cycle and its results *)

\* What a handler asks for, where the rows it loads allow it. outrun (history): the case
\* it loaded has since been reviewed, if it updates, or updated, if it reviews.
UpdateResult ==
  IF cycle = "LOCKED" THEN {}
  ELSE {[does |-> "update", case |-> k, cycle |-> cycle, loaded |-> result[k], status |-> s, reason |-> n,
         outrun |-> FALSE] : k \in Cases, s \in Results, n \in Reasons \cup {"none"}}

\* NOT_APPLICABLE needs its reason.
WellFormed(q) == q.does = "update" => ((q.status = "NOT_APPLICABLE") = (q.reason # "none"))

ReviewResult ==
  {[does |-> "review", case |-> k, loaded |-> result[k], review |-> v, outrun |-> FALSE] :
     k \in {i \in Cases : result[i].status = "NOT_APPLICABLE"}, v \in {"ACCEPTED", "CHANGES_REQUESTED"}}

UpdateCycle ==
  IF cycle = "LOCKED" THEN {}
  ELSE {[does |-> "cycle", loaded |-> cycle, status |-> s] : s \in CycleStatuses \ {"LOCKED"}}

LockCycle   == IF cycle = "LOCKED" THEN {} ELSE {[does |-> "cycle", loaded |-> cycle, status |-> "LOCKED"]}
ReopenCycle == IF cycle # "LOCKED" THEN {} ELSE {[does |-> "cycle", loaded |-> cycle, status |-> "IN_PROGRESS"]}

Load(c) ==
  /\ client[c] = NoClient
  /\ \E q \in UpdateResult \cup ReviewResult \cup UpdateCycle \cup LockCycle \cup ReopenCycle :
       /\ WellFormed(q)
       /\ client' = [client EXCEPT ![c] = q]
  /\ UNCHANGED <<cycle, resultRows, gateRows, report, reported>>

\* A session writes an attribute only when it differs from the one it loaded.
Saved(loaded, new, now) == IF new = loaded THEN now ELSE new

\* Mutant: a result set to NOT_APPLICABLE again keeps its review.
ReviewKept(q) == q.loaded.review

ReviewAfter(q) == IF q.status = "NOT_APPLICABLE" THEN "UNREVIEWED" ELSE q.loaded.review

\* Handler c is done; those that are about to do that to the same case are outrun.
DoneBefore(c, that) ==
  client' = [d \in Clients |->
    IF d = c THEN NoClient
    ELSE IF client[d].does = that /\ client[d].case = client[c].case
         THEN [client[d] EXCEPT !.outrun = TRUE] ELSE client[d]]

CommitUpdate(c) ==
  LET q == client[c]  k == q.case  row == q.loaded IN
  /\ q.does = "update"
  /\ result' = [result EXCEPT ![k] =
       [status |-> Saved(row.status, q.status, @.status),
        reason |-> Saved(row.reason, q.reason, @.reason),
        review |-> Saved(row.review, ReviewAfter(q), @.review)]]
  /\ history' = IF q.status = row.status /\ q.reason = row.reason THEN history
                ELSE [history EXCEPT ![k] = @ \/ q.status \in {"PASS", "NOT_APPLICABLE"}]
  /\ crossed' = IF q.outrun THEN crossed \cup {k}
                ELSE IF q.status = "NOT_APPLICABLE" THEN crossed \ {k} ELSE crossed
  /\ cycle' = IF q.cycle = "READY" /\ q.status # "NOT_RUN" THEN "IN_PROGRESS" ELSE cycle
  /\ DoneBefore(c, "review")
  /\ UNCHANGED <<reviewed, gateRows, report, reported>>

CommitReview(c) ==
  LET q == client[c]  k == q.case IN
  /\ q.does = "review"
  /\ result'   = [result EXCEPT ![k].review = Saved(q.loaded.review, q.review, @)]
  /\ reviewed' = [reviewed EXCEPT ![k] = q.loaded.reason]
  /\ crossed'  = IF q.outrun THEN crossed \cup {k} ELSE crossed \ {k}
  /\ DoneBefore(c, "update")
  /\ UNCHANGED <<cycle, history, gateRows, report, reported>>

CommitCycle(c) ==
  LET q == client[c] IN
  /\ q.does = "cycle"
  /\ cycle'  = Saved(q.loaded, q.status, cycle)
  /\ client' = [client EXCEPT ![c] = NoClient]
  /\ UNCHANGED <<resultRows, gateRows, report, reported>>

\* The handler stops before its commit.
Lost(c) ==
  /\ client[c] # NoClient
  /\ client' = [client EXCEPT ![c] = NoClient]
  /\ UNCHANGED <<cycle, resultRows, gateRows, report, reported>>

\* create_signoff tests nothing of the cycle; neither does a defect. One REJECTED of
\* any type rejects, QA_REVIEW approves.
CreateSignoff ==
  /\ signoff' \in Signoffs
  /\ UNCHANGED <<cycle, resultRows, blocking, client, report, reported>>

CreateOrUpdateDefect ==
  /\ blocking' = ~blocking
  /\ UNCHANGED <<cycle, resultRows, signoff, client, report, reported>>

-----------------------------------------------------------------------------
(* build_qa_result: one query after the other, the gate from what they found *)

BeginReport ==
  /\ report = NoReport
  /\ report' = [NoReport EXCEPT !.at = "signoffs", !.settled = cycle \in {"COMPLETED", "LOCKED"}]
  /\ reported' = "PENDING"
  /\ UNCHANGED <<cycle, resultRows, gateRows, client>>

ReadSignoffs ==
  /\ report.at = "signoffs"
  /\ report' = [report EXCEPT !.at = "results", !.signoff = signoff]
  /\ UNCHANGED <<cycle, resultRows, gateRows, client, reported>>

\* Mutant: a case that was not run does not block.
FailedOnly == {"FAIL"}

Blocks == {"FAIL", "NOT_RUN"}

ReadResults ==
  /\ report.at = "results"
  /\ report' = [report EXCEPT !.at = "reviews",
                              !.ready = \A k \in Critical : result[k].status \notin Blocks]
  /\ UNCHANGED <<cycle, resultRows, gateRows, client, reported>>

ReadReviews ==
  /\ report.at = "reviews"
  /\ report' = [report EXCEPT !.at = "defects",
       !.ready = @ /\ \A k \in Critical :
                        result[k].status = "NOT_APPLICABLE" => result[k].review = "ACCEPTED"]
  /\ UNCHANGED <<cycle, resultRows, gateRows, client, reported>>

QualityGate(r, ready) ==
  CASE r.signoff = "REJECTED" -> "REJECTED"
    [] ~r.settled             -> "PENDING"
    [] ~ready                 -> "REJECTED"
    [] OTHER                  -> r.signoff

ReadDefectsAndAnswer ==
  /\ report.at = "defects"
  /\ reported' = QualityGate(report, report.ready /\ ~blocking)
  /\ report'   = NoReport
  /\ UNCHANGED <<cycle, resultRows, gateRows, client>>

CampaignNext ==
  \/ \E c \in Clients : Load(c) \/ CommitUpdate(c) \/ CommitReview(c) \/ CommitCycle(c) \/ Lost(c)
  \/ CreateSignoff
  \/ CreateOrUpdateDefect
  \/ BeginReport \/ ReadSignoffs \/ ReadResults \/ ReadReviews \/ ReadDefectsAndAnswer

CampaignSpec == CampaignInit /\ [][CampaignNext]_campaignVars

-----------------------------------------------------------------------------
(* Properties *)

CampaignTypeOK ==
  /\ cycle \in CycleStatuses
  /\ result \in [Cases -> ResultRow]
  /\ history \in [Cases -> BOOLEAN]
  /\ reviewed \in [Cases -> Reasons \cup {"none"}]
  /\ crossed \subseteq Cases
  /\ signoff \in Signoffs
  /\ blocking \in BOOLEAN
  /\ report.at \in {"idle", "signoffs", "results", "reviews", "defects"}
  /\ reported \in Signoffs

\* An APPROVED QAResult never covers a P0 case nobody executed: each has a PASS or a
\* NOT_APPLICABLE in its history, whatever was committed between the report's queries.
ApprovedWasExecuted ==
  reported = "APPROVED" => \A k \in Critical : history[k]

\* An accepted NOT_APPLICABLE has the reason the admin's request found: a result set to
\* NOT_APPLICABLE again is reviewed again (cycle_results.py:128-129). Left out is a case
\* whose row one handler reviewed and another updated, neither looking at it again before
\* its commit, until it is reviewed or set to NOT_APPLICABLE with nobody in between.
AcceptedAsReviewed ==
  \A k \in Cases \ crossed :
    result[k].status = "NOT_APPLICABLE" /\ result[k].review = "ACCEPTED" => reviewed[k] = result[k].reason
=============================================================================
