-------------------------- MODULE QaCampaignProofs ---------------------------
(***************************************************************************)
(* Theorems about the quality gate of a test cycle, hybrid runs and         *)
(* evidence files, for any number of cases, runs, clients, humans, uploads  *)
(* and files; where one client or one human is assumed, the theorem says    *)
(* so. The quota is about a sum over a set, defined by recursion: what is   *)
(* true of every subset is shown by taking a least one of which it is not.  *)
(***************************************************************************)
EXTENDS QaCampaign, HybridRuns, QaEvidence, FiniteSetTheorems, WellFoundedInduction, TLAPS

(* Hybrid runs *)

\* A request that will finish its run was loaded after a PASS, and nothing but the
\* runner's own next request sends the run to wait again.
PassInv ==
  /\ HybridTypeOK
  /\ PassIsReleased
  /\ \A r \in Runs : runner[r].does = "finish" => released[r]

LEMMA InitPassInv == HybridInit => PassInv
<1> SUFFICES ASSUME HybridInit PROVE PassInv
  OBVIOUS
<1>1. HybridTypeOK
  BY DEF HybridInit, HybridTypeOK
<1>2. PassIsReleased /\ \A r \in Runs : runner[r].does = "finish" => released[r]
  BY DEF HybridInit, PassIsReleased, NoRequest
<1> QED BY <1>1, <1>2 DEF PassInv

LEMMA DecisionOutcomes ==
  ASSUME NEW d \in CheckpointDecisions
  PROVE  /\ DecisionToStatus(d) \in {"RESUMING"} \cup TERMINAL_STATUSES
         /\ DecisionToStatus(d) # "PASSED"
         /\ DecisionToStatus(d) = "RESUMING" => d = "PASS"
BY DEF CheckpointDecisions, DecisionToStatus, TERMINAL_STATUSES

\* What a request holds while it is at work.
LEMMA HoldsRequest ==
  ASSUME HybridTypeOK, NEW r \in Runs, runner[r].does # "nothing"
  PROVE  runner[r] \in Request
BY DEF HybridTypeOK, NoRequest

LEMMA NextPassInv == PassInv /\ [HybridNext]_hybridVars => PassInv'
<1> SUFFICES ASSUME PassInv, [HybridNext]_hybridVars PROVE PassInv'
  OBVIOUS
<1> USE DEF PassInv
<1> DEFINE States == {"NONE", "RUNNING", "WAITING_FOR_HUMAN", "RESUMING"} \cup TERMINAL_STATUSES
<1>1. ASSUME NEW r \in Runs, CreateRun(r) PROVE PassInv'
  BY <1>1 DEF CreateRun, HybridTypeOK, PassIsReleased
<1>2. ASSUME NEW r \in Runs, LoadForEvent(r) PROVE PassInv'
  <2>1. PICK does \in {"event", "wait"} :
          runner' = [runner EXCEPT ![r] = [run |-> r, loaded |-> run[r], does |-> does]]
    BY <1>2 DEF LoadForEvent
  <2>2. run[r] \in {"RUNNING", "WAITING_FOR_HUMAN", "RESUMING"}
    BY <1>2 DEF LoadForEvent, HybridTypeOK
  <2>3. [run |-> r, loaded |-> run[r], does |-> does] \in Request
    BY <2>2 DEF Request
  <2> QED BY <1>2, <2>1, <2>3 DEF LoadForEvent, HybridTypeOK, PassIsReleased
<1>3. ASSUME NEW r \in Runs, CommitEvent(r) PROVE PassInv'
  <2>1. runner' = [runner EXCEPT ![r] = NoRequest] /\ human' = human
    BY <1>3 DEF CommitEvent
  <2>2. \/ UNCHANGED <<run, released>>
        \/ /\ run' = [run EXCEPT ![r] = "WAITING_FOR_HUMAN"]
           /\ released' = [released EXCEPT ![r] = FALSE]
    BY <1>3 DEF CommitEvent
  <2>3. HybridTypeOK'
    BY <2>1, <2>2 DEF HybridTypeOK
  <2>4. PassIsReleased'
    BY <2>2 DEF HybridTypeOK, PassIsReleased
  <2>5. \A s \in Runs : runner'[s].does = "finish" => released'[s]
    BY <2>1, <2>2 DEF HybridTypeOK, NoRequest
  <2> QED BY <2>3, <2>4, <2>5
<1>4. ASSUME NEW r \in Runs, LoadForFinish(r) PROVE PassInv'
  <2>1. run[r] = "RESUMING"
    BY <1>4 DEF LoadForFinish, Finishable
  <2>2. [run |-> r, loaded |-> run[r], does |-> "finish"] \in Request
    BY <2>1 DEF Request
  <2> QED BY <1>4, <2>1, <2>2 DEF LoadForFinish, HybridTypeOK, PassIsReleased
<1>5. ASSUME NEW r \in Runs, CommitFinish(r) PROVE PassInv'
  <2>1. released[r]
    BY <1>5 DEF CommitFinish
  <2>2. "PASSED" \in States
    BY DEF TERMINAL_STATUSES
  <2>3. HybridTypeOK'
    BY <1>5, <2>2 DEF CommitFinish, HybridTypeOK
  <2>4. PassIsReleased'
    BY <1>5, <2>1 DEF CommitFinish, HybridTypeOK, PassIsReleased
  <2>5. \A s \in Runs : runner'[s].does = "finish" => released'[s]
    BY <1>5 DEF CommitFinish, HybridTypeOK, NoRequest
  <2> QED BY <2>3, <2>4, <2>5
<1>6. ASSUME NEW r \in Runs, RequestLost(r) PROVE PassInv'
  BY <1>6 DEF RequestLost, HybridTypeOK, PassIsReleased, NoRequest
<1>7. ASSUME NEW h \in Humans, LoadForDecision(h) PROVE PassInv'
  BY <1>7 DEF LoadForDecision, HybridTypeOK, PassIsReleased, Choice
<1>8. ASSUME NEW h \in Humans, CommitDecision(h) PROVE PassInv'
  <2> DEFINE r == human[h].run
             d == human[h].decision
  <2>1. human[h] \in Choice
    BY <1>8 DEF CommitDecision, HybridTypeOK
  <2>2. r \in Runs /\ d \in CheckpointDecisions
    BY <2>1 DEF Choice
  <2>3. /\ run' = [run EXCEPT ![r] = DecisionToStatus(d)]
        /\ released' = [released EXCEPT ![r] = @ \/ d = "PASS"]
        /\ human' = [human EXCEPT ![h] = NoRequest] /\ runner' = runner
    BY <1>8 DEF CommitDecision
  <2>4. \A s \in Runs : released[s] => released'[s]
    BY <2>2, <2>3 DEF HybridTypeOK
  <2>5. DecisionToStatus(d) = "RESUMING" => released'[r]
    BY <2>2, <2>3, DecisionOutcomes DEF HybridTypeOK
  <2>6. released' \in [Runs -> BOOLEAN]
    BY <2>2, <2>3 DEF HybridTypeOK
  <2>7. run' \in [Runs -> States]
    BY <2>2, <2>3, DecisionOutcomes DEF HybridTypeOK
  <2>8. human' \in [Humans -> {NoRequest} \cup Choice]
    BY <2>3 DEF HybridTypeOK
  <2>9. HybridTypeOK'
    BY <2>3, <2>6, <2>7, <2>8 DEF HybridTypeOK
  <2>10. PassIsReleased'
    BY <2>2, <2>3, <2>4, <2>5, DecisionOutcomes DEF HybridTypeOK, PassIsReleased
  <2> QED BY <2>3, <2>4, <2>9, <2>10
<1>9. ASSUME NEW h \in Humans, DecisionLost(h) PROVE PassInv'
  BY <1>9 DEF DecisionLost, HybridTypeOK, PassIsReleased
<1>10. CASE UNCHANGED hybridVars
  BY <1>10 DEF hybridVars, HybridTypeOK, PassIsReleased
<1> QED BY <1>1, <1>2, <1>3, <1>4, <1>5, <1>6, <1>7, <1>8, <1>9, <1>10 DEF HybridNext

\* However many humans decide at once and whatever the runner posts, a run resumes
\* or passes only on a PASS recorded since it was last sent to wait.
THEOREM PassNeedsRelease == HybridSpec => []PassIsReleased
<1>1. PassInv => PassIsReleased
  BY DEF PassInv
<1> QED BY <1>1, InitPassInv, NextPassInv, PTL DEF HybridSpec

-----------------------------------------------------------------------------
(* One human *)

\* A run rests as its runner, or the one human, found it until their request commits.
RestInv ==
  /\ HybridTypeOK
  /\ \A r \in Runs :
       /\ runner[r].does = "finish" => run[r] = "RESUMING"
       /\ runner[r].does \in {"event", "wait"} /\ runner[r].loaded # "WAITING_FOR_HUMAN"
            => run[r] = runner[r].loaded
  /\ \A h \in Humans : human[h] # NoRequest => run[human[h].run] = "WAITING_FOR_HUMAN"

\* PassInv is used for HybridTypeOK only.
LEMMA NextHybridType == PassInv /\ [HybridNext]_hybridVars => HybridTypeOK'
BY NextPassInv DEF PassInv

LEMMA InitRestInv == HybridInit => RestInv
BY InitPassInv DEF HybridInit, RestInv, PassInv, NoRequest

LEMMA StepRestInv ==
  ASSUME \A g, h \in Humans : g = h, PassInv, RestInv, [HybridNext]_hybridVars
  PROVE  /\ RestInv'
         /\ \A s \in Runs : run[s] \in TERMINAL_STATUSES => run'[s] = run[s]
<1> DEFINE Final == \A s \in Runs : run[s] \in TERMINAL_STATUSES => run'[s] = run[s]
           Goal  == RestInv' /\ Final
<1> SUFFICES Goal
  OBVIOUS
<1>0. HybridTypeOK'
  BY NextHybridType
<1> USE DEF RestInv
<1>1. ASSUME NEW r \in Runs, CreateRun(r) PROVE Goal
  BY <1>0, <1>1 DEF CreateRun, HybridTypeOK, TERMINAL_STATUSES, Request, Choice, NoRequest
<1>2. ASSUME NEW r \in Runs, LoadForEvent(r) PROVE Goal
  BY <1>0, <1>2 DEF LoadForEvent, HybridTypeOK
<1>3. ASSUME NEW r \in Runs, CommitEvent(r) PROVE Goal
  <2>1. runner' = [runner EXCEPT ![r] = NoRequest] /\ human' = human
    BY <1>3 DEF CommitEvent
  <2>2. CASE run' = run
    BY <1>0, <2>1, <2>2 DEF HybridTypeOK, NoRequest
  <2>3. CASE run' # run
    <3>1. run' = [run EXCEPT ![r] = "WAITING_FOR_HUMAN"]
      BY <1>3, <2>3 DEF CommitEvent
    <3>2. runner[r].does \in {"event", "wait"} /\ runner[r].loaded # "WAITING_FOR_HUMAN"
      BY <1>3, <2>3 DEF CommitEvent, WritesWaiting
    <3>3. run[r] = runner[r].loaded
      BY <3>2
    <3>4. run[r] \in {"RUNNING", "RESUMING"}
      BY <3>2, <3>3, HoldsRequest DEF Request
    <3>5. Final
      BY <3>1, <3>4 DEF HybridTypeOK, TERMINAL_STATUSES
    <3>6. \A h \in Humans : human'[h] # NoRequest => run'[human'[h].run] = "WAITING_FOR_HUMAN"
      BY <2>1, <3>1 DEF HybridTypeOK, Choice
    <3>7. \A s \in Runs : s # r => run'[s] = run[s] /\ runner'[s] = runner[s]
      BY <2>1, <3>1 DEF HybridTypeOK
    <3>8. runner'[r].does = "nothing"
      BY <2>1 DEF HybridTypeOK, NoRequest
    <3> QED BY <1>0, <3>5, <3>6, <3>7, <3>8
  <2> QED BY <2>2, <2>3
<1>4. ASSUME NEW r \in Runs, LoadForFinish(r) PROVE Goal
  BY <1>0, <1>4 DEF LoadForFinish, Finishable, HybridTypeOK
<1>5. ASSUME NEW r \in Runs, CommitFinish(r) PROVE Goal
  <2>1. run[r] = "RESUMING"
    BY <1>5 DEF CommitFinish
  <2>2. /\ run' = [run EXCEPT ![r] = "PASSED"] /\ human' = human
        /\ runner' = [runner EXCEPT ![r] = NoRequest]
    BY <1>5 DEF CommitFinish
  <2>3. \A s \in Runs : s # r => run'[s] = run[s] /\ runner'[s] = runner[s]
    BY <2>2 DEF HybridTypeOK
  <2>4. runner'[r].does = "nothing"
    BY <2>2 DEF HybridTypeOK, NoRequest
  <2>5. Final
    BY <2>1, <2>3 DEF TERMINAL_STATUSES
  <2>6. \A h \in Humans : human'[h] # NoRequest => run'[human'[h].run] = "WAITING_FOR_HUMAN"
    BY <2>1, <2>2 DEF HybridTypeOK, Choice
  <2> QED BY <1>0, <2>3, <2>4, <2>5, <2>6
<1>6. ASSUME NEW r \in Runs, RequestLost(r) PROVE Goal
  BY <1>0, <1>6 DEF RequestLost, HybridTypeOK, NoRequest
<1>7. ASSUME NEW h \in Humans, LoadForDecision(h) PROVE Goal
  BY <1>0, <1>7 DEF LoadForDecision, HybridTypeOK
<1>8. ASSUME NEW h \in Humans, CommitDecision(h) PROVE Goal
  <2> DEFINE r == human[h].run
  <2>1. r \in Runs /\ run[r] = "WAITING_FOR_HUMAN"
    BY <1>8 DEF CommitDecision, HybridTypeOK, Choice
  <2>2. /\ run' = [run EXCEPT ![r] = DecisionToStatus(human[h].decision)]
        /\ human' = [human EXCEPT ![h] = NoRequest] /\ runner' = runner
    BY <1>8 DEF CommitDecision
  <2>3. \A s \in Runs : s # r => run'[s] = run[s]
    BY <2>1, <2>2 DEF HybridTypeOK
  <2>4. Final
    BY <2>1, <2>3 DEF TERMINAL_STATUSES
  <2>5. \A g \in Humans : human'[g] = NoRequest
    BY <2>2 DEF HybridTypeOK
  <2>6. runner[r].does # "finish" /\
        (runner[r].does \in {"event", "wait"} => runner[r].loaded = "WAITING_FOR_HUMAN")
    BY <2>1
  <2> QED BY <1>0, <2>2, <2>3, <2>4, <2>5, <2>6
<1>9. ASSUME NEW h \in Humans, DecisionLost(h) PROVE Goal
  BY <1>0, <1>9 DEF DecisionLost, HybridTypeOK
<1>10. CASE UNCHANGED hybridVars
  BY <1>0, <1>10 DEF hybridVars
<1> QED BY <1>1, <1>2, <1>3, <1>4, <1>5, <1>6, <1>7, <1>8, <1>9, <1>10 DEF HybridNext

\* With one human deciding, no request that loaded a run before its end changes it after.
THEOREM EndedStaysEnded ==
  ASSUME \A g, h \in Humans : g = h
  PROVE  HybridSpec => EndIsFinal
<1>1. PassInv /\ RestInv /\ [HybridNext]_hybridVars => RestInv'
  BY StepRestInv
<1>2. PassInv /\ RestInv /\ [HybridNext]_hybridVars =>
        [\A r \in Runs : run[r] \in TERMINAL_STATUSES => run'[r] = run[r]]_hybridVars
  BY StepRestInv
<1> QED BY <1>1, <1>2, InitPassInv, NextPassInv, InitRestInv, PTL DEF HybridSpec, EndIsFinal

-----------------------------------------------------------------------------
(* The test cycle *)

UpdateRequests ==
  [does : {"update"}, case : Cases, cycle : CycleStatuses, loaded : ResultRow,
   status : Results, reason : Reasons \cup {"none"}, outrun : BOOLEAN]
ReviewRequests ==
  [does : {"review"}, case : Cases, loaded : ResultRow, review : Reviews, outrun : BOOLEAN]
CycleRequests  == [does : {"cycle"}, loaded : CycleStatuses, status : CycleStatuses]

ClientOK == client \in [Clients -> {NoClient} \cup UpdateRequests \cup ReviewRequests \cup CycleRequests]

ReportOK ==
  report \in [at : {"idle", "signoffs", "results", "reviews", "defects"},
              settled : BOOLEAN, signoff : Signoffs, ready : BOOLEAN]

\* A result that does not block has been executed, and history forgets nothing; so a
\* report past its results knows of an execution of every critical case.
ExecutedOK ==
  /\ \A k \in Cases : result[k].status \notin Blocks => history[k]
  /\ report.at \in {"reviews", "defects"} /\ report.ready => \A k \in Critical : history[k]

CampaignInv == CampaignTypeOK /\ ClientOK /\ ReportOK /\ ExecutedOK /\ ApprovedWasExecuted

LEMMA InitCampaignInv == CampaignInit => CampaignInv
<1> SUFFICES ASSUME CampaignInit PROVE CampaignInv
  OBVIOUS
<1>1. /\ cycle \in CycleStatuses /\ result \in [Cases -> ResultRow]
      /\ history \in [Cases -> BOOLEAN] /\ reviewed \in [Cases -> Reasons \cup {"none"}]
      /\ crossed \subseteq Cases /\ signoff \in Signoffs /\ reported \in Signoffs
  BY DEF CampaignInit, CycleStatuses, ResultRow, Results, Reviews, Signoffs
<1>2. blocking \in BOOLEAN
  BY DEF CampaignInit
<1>3. ReportOK /\ report.at = "idle"
  BY DEF CampaignInit, ReportOK, NoReport, Signoffs
<1>4. ClientOK
  BY DEF CampaignInit, ClientOK
<1>5. ExecutedOK
  BY <1>3 DEF CampaignInit, ExecutedOK, Blocks
<1>6. ApprovedWasExecuted
  BY DEF CampaignInit, ApprovedWasExecuted
<1> QED BY <1>1, <1>2, <1>3, <1>4, <1>5, <1>6 DEF CampaignInv, CampaignTypeOK

\* What Load may load.
LEMMA LoadsRequest ==
  ASSUME CampaignInv,
         NEW q \in UpdateResult \cup ReviewResult \cup UpdateCycle \cup LockCycle \cup ReopenCycle
  PROVE  q \in UpdateRequests \cup ReviewRequests \cup CycleRequests
<1> USE DEF CampaignInv, CampaignTypeOK
<1> DEFINE no == FALSE
<1>0. no \in BOOLEAN
  OBVIOUS
<1>1. CASE q \in UpdateResult
  <2>1. PICK k \in Cases, s \in Results, n \in Reasons \cup {"none"} :
          q = [does |-> "update", case |-> k, cycle |-> cycle, loaded |-> result[k], status |-> s,
               reason |-> n, outrun |-> no]
    BY <1>1 DEF UpdateResult
  <2> HIDE DEF no
  <2> QED BY <1>0, <2>1 DEF UpdateRequests
<1>2. CASE q \in ReviewResult
  <2>1. PICK k \in Cases, v \in Reviews :
          q = [does |-> "review", case |-> k, loaded |-> result[k], review |-> v, outrun |-> no]
    BY <1>2 DEF ReviewResult, Reviews
  <2> HIDE DEF no
  <2> QED BY <1>0, <2>1 DEF ReviewRequests
<1>3. CASE q \in UpdateCycle \cup LockCycle \cup ReopenCycle
  BY <1>3 DEF UpdateCycle, LockCycle, ReopenCycle, CycleRequests, CycleStatuses
<1> QED BY <1>1, <1>2, <1>3

\* A handler that is done leaves the others what they asked for.
LEMMA DoneBeforeOK ==
  ASSUME ClientOK, NEW c \in Clients, NEW that \in {"update", "review"}, DoneBefore(c, that)
  PROVE  /\ ClientOK' /\ client'[c] = NoClient
         /\ \A d \in Clients : d # c =>
              client'[d] = IF client[d].does = that /\ client[d].case = client[c].case
                           THEN [client[d] EXCEPT !.outrun = TRUE] ELSE client[d]
<1> DEFINE Requests == {NoClient} \cup UpdateRequests \cup ReviewRequests \cup CycleRequests
           marked(d) == client[d].does = that /\ client[d].case = client[c].case
           mark(d) == [client[d] EXCEPT !.outrun = TRUE]
<1>1. \A d \in Clients : client[d] \in Requests
  BY DEF ClientOK
<1>2. ASSUME NEW d \in Clients, client[d].does = that PROVE mark(d) \in Requests
  <2>1. client[d] \in UpdateRequests \cup ReviewRequests
    BY <1>1, <1>2 DEF NoClient, CycleRequests
  <2> QED BY <2>1 DEF UpdateRequests, ReviewRequests
<1>3. client' = [d \in Clients |-> IF d = c THEN NoClient ELSE IF marked(d) THEN mark(d) ELSE client[d]]
  BY DEF DoneBefore
<1>4. \A d \in Clients : client'[d] = IF d = c THEN NoClient ELSE IF marked(d) THEN mark(d) ELSE client[d]
  BY <1>3
<1>5. \A d \in Clients : client'[d] \in Requests
  BY <1>1, <1>2, <1>4
<1>6. ClientOK'
  BY <1>3, <1>5 DEF ClientOK
<1> QED BY <1>4, <1>6

\* A step that keeps the results and the history keeps what rests on them.
LEMMA HistoryGrows ==
  ASSUME CampaignInv, CampaignTypeOK', ClientOK',
         report' = report, reported' = reported,
         \A k \in Cases : history[k] => history'[k],
         \A k \in Cases : result'[k].status \notin Blocks => history'[k]
  PROVE  CampaignInv'
<1>1. Critical \subseteq Cases
  BY CampaignAssumption
<1>2. ReportOK'
  BY DEF CampaignInv, ReportOK
<1>3. ExecutedOK'
  BY <1>1 DEF CampaignInv, ExecutedOK
<1>4. ApprovedWasExecuted'
  BY <1>1 DEF CampaignInv, ApprovedWasExecuted
<1> QED BY <1>2, <1>3, <1>4 DEF CampaignInv

LEMMA UpdateKeepsCampaignInv ==
  ASSUME CampaignInv, NEW c \in Clients, CommitUpdate(c)
  PROVE  CampaignInv'
<1> DEFINE q == client[c]
           k == q.case
           row == q.loaded
           changed == ~ (q.status = row.status /\ q.reason = row.reason)
<1>1. q \in UpdateRequests
  BY DEF CommitUpdate, CampaignInv, ClientOK, NoClient, ReviewRequests, CycleRequests
<1>2. /\ k \in Cases /\ row \in ResultRow /\ q.status \in Results
      /\ q.reason \in Reasons \cup {"none"}
  BY <1>1 DEF UpdateRequests
<1>3. /\ result[k] \in ResultRow
      /\ row.status \in Results /\ row.reason \in Reasons \cup {"none"} /\ row.review \in Reviews
      /\ ReviewAfter(q) \in Reviews
  BY <1>2 DEF CampaignInv, CampaignTypeOK, ResultRow, ReviewAfter, Reviews
<1> DEFINE new == [status |-> Saved(row.status, q.status, result[k].status),
                   reason |-> Saved(row.reason, q.reason, result[k].reason),
                   review |-> Saved(row.review, ReviewAfter(q), result[k].review)]
<1>4. new \in ResultRow
  BY <1>2, <1>3 DEF ResultRow, Saved
<1>5. result' = [result EXCEPT ![k] = new]
  BY DEF CommitUpdate
<1>6. result' \in [Cases -> ResultRow]
  BY <1>2, <1>4, <1>5 DEF CampaignInv, CampaignTypeOK
<1>7. history' = IF changed THEN [history EXCEPT ![k] = @ \/ q.status \in {"PASS", "NOT_APPLICABLE"}]
                            ELSE history
  BY DEF CommitUpdate
<1>8. history' \in [Cases -> BOOLEAN]
  BY <1>2, <1>7 DEF CampaignInv, CampaignTypeOK
<1>9. \A i \in Cases : history[i] => history'[i]
  BY <1>2, <1>7 DEF CampaignInv, CampaignTypeOK
<1>10. ASSUME NEW i \in Cases, result'[i].status \notin Blocks PROVE history'[i]
  <2>1. CASE i # k \/ q.status = row.status
    <3>1. result'[i].status = result[i].status
      BY <1>2, <1>5, <2>1 DEF CampaignInv, CampaignTypeOK, Saved
    <3> QED BY <1>9, <1>10, <3>1 DEF CampaignInv, ExecutedOK
  <2>2. CASE i = k /\ q.status # row.status
    <3>1. result'[i].status = q.status
      BY <1>2, <1>5, <2>2 DEF CampaignInv, CampaignTypeOK, Saved
    <3>2. q.status \in {"PASS", "NOT_APPLICABLE"}
      BY <1>2, <1>10, <3>1 DEF Results, Blocks
    <3> QED BY <1>2, <1>7, <2>2, <3>2 DEF CampaignInv, CampaignTypeOK
  <2> QED BY <2>1, <2>2
<1>11. cycle' \in CycleStatuses
  BY DEF CommitUpdate, CampaignInv, CampaignTypeOK, CycleStatuses
<1>12. ClientOK'
  BY DoneBeforeOK DEF CommitUpdate, CampaignInv
<1>13. UNCHANGED <<reviewed, signoff, blocking, report, reported>> /\ crossed' \subseteq Cases
  BY <1>2 DEF CommitUpdate, gateRows, CampaignInv, CampaignTypeOK
<1>14. CampaignTypeOK'
  BY <1>6, <1>8, <1>11, <1>13 DEF CampaignInv, CampaignTypeOK
<1> QED BY <1>9, <1>10, <1>12, <1>13, <1>14, HistoryGrows

LEMMA ReviewKeepsCampaignInv ==
  ASSUME CampaignInv, NEW c \in Clients, CommitReview(c)
  PROVE  CampaignInv'
<1> DEFINE q == client[c]
           k == q.case
<1>1. q \in ReviewRequests
  BY DEF CommitReview, CampaignInv, ClientOK, NoClient, UpdateRequests, CycleRequests
<1>2. k \in Cases /\ q.loaded \in ResultRow /\ q.review \in Reviews /\ result[k] \in ResultRow
  BY <1>1 DEF ReviewRequests, CampaignInv, CampaignTypeOK
<1> DEFINE v == Saved(q.loaded.review, q.review, result[k].review)
<1>3. v \in Reviews /\ q.loaded.reason \in Reasons \cup {"none"}
  BY <1>2 DEF ResultRow, Saved
<1>4. result' = [result EXCEPT ![k].review = v]
  BY DEF CommitReview
<1>5. result' \in [Cases -> ResultRow] /\ \A i \in Cases : result'[i].status = result[i].status
  BY <1>2, <1>3, <1>4 DEF CampaignInv, CampaignTypeOK, ResultRow
<1>6. reviewed' \in [Cases -> Reasons \cup {"none"}] /\ crossed' \subseteq Cases
  BY <1>2, <1>3 DEF CommitReview, CampaignInv, CampaignTypeOK
<1>7. ClientOK'
  BY DoneBeforeOK DEF CommitReview, CampaignInv
<1>8. UNCHANGED <<cycle, history, signoff, blocking, report, reported>>
  BY DEF CommitReview, gateRows
<1>9. CampaignTypeOK'
  BY <1>5, <1>6, <1>8 DEF CampaignInv, CampaignTypeOK
<1>10. \A i \in Cases : result'[i].status \notin Blocks => history'[i]
  BY <1>5, <1>8 DEF CampaignInv, ExecutedOK
<1> QED BY <1>7, <1>8, <1>9, <1>10, HistoryGrows

LEMMA CycleKeepsCampaignInv ==
  ASSUME CampaignInv, NEW c \in Clients, CommitCycle(c)
  PROVE  CampaignInv'
<1>1. client[c] \in CycleRequests
  BY DEF CommitCycle, CampaignInv, ClientOK, NoClient, UpdateRequests, ReviewRequests
<1>2. cycle' \in CycleStatuses
  BY <1>1 DEF CommitCycle, CampaignInv, CampaignTypeOK, CycleRequests, Saved
<1>3. ClientOK'
  BY DEF CommitCycle, CampaignInv, ClientOK
<1>4. UNCHANGED <<result, history, reviewed, crossed, signoff, blocking, report, reported>>
  BY DEF CommitCycle, resultRows, gateRows
<1>5. CampaignTypeOK'
  BY <1>2, <1>4 DEF CampaignInv, CampaignTypeOK
<1>6. \A i \in Cases : result'[i].status \notin Blocks => history'[i]
  BY <1>4 DEF CampaignInv, ExecutedOK
<1> QED BY <1>3, <1>4, <1>5, <1>6, HistoryGrows

\* Steps of the report: the rows stay, and the report keeps what it is.
LEMMA RowsStay ==
  ASSUME CampaignInv, UNCHANGED <<cycle, resultRows, gateRows, client>>,
         ReportOK', reported' \in Signoffs
  PROVE  CampaignTypeOK' /\ ClientOK' /\ ReportOK'
         /\ \A k \in Cases : result'[k].status \notin Blocks => history'[k]
<1>1. UNCHANGED <<cycle, result, history, reviewed, crossed, signoff, blocking, client>>
  BY DEF resultRows, gateRows
<1>2. report'.at \in {"idle", "signoffs", "results", "reviews", "defects"}
  BY DEF ReportOK
<1>3. CampaignTypeOK'
  BY <1>1, <1>2 DEF CampaignInv, CampaignTypeOK
<1>4. ClientOK'
  BY <1>1 DEF CampaignInv, ClientOK
<1> QED BY <1>1, <1>3, <1>4 DEF CampaignInv, ExecutedOK

LEMMA ReportKeepsCampaignInv ==
  ASSUME CampaignInv,
         BeginReport \/ ReadSignoffs \/ ReadResults \/ ReadReviews \/ ReadDefectsAndAnswer
  PROVE  CampaignInv'
<1>0. Critical \subseteq Cases /\ ReportOK /\ CampaignTypeOK
  BY CampaignAssumption DEF CampaignInv
<1>1. CASE BeginReport
  <2>1. (cycle \in {"COMPLETED", "LOCKED"}) \in BOOLEAN
    OBVIOUS
  <2>2. ReportOK' /\ report'.at = "signoffs"
    BY <1>1, <2>1 DEF BeginReport, NoReport, ReportOK, Signoffs
  <2>3. reported' = "PENDING" /\ UNCHANGED <<cycle, resultRows, gateRows, client>>
    BY <1>1 DEF BeginReport
  <2>4. ApprovedWasExecuted'
    BY <2>3 DEF ApprovedWasExecuted
  <2> QED BY <2>2, <2>3, <2>4, RowsStay DEF CampaignInv, ExecutedOK, Signoffs
<1>2. CASE ReadSignoffs
  <2>1. ReportOK' /\ report'.at = "results"
    BY <1>0, <1>2 DEF ReadSignoffs, ReportOK, CampaignTypeOK
  <2>2. reported' = reported /\ history' = history /\ UNCHANGED <<cycle, resultRows, gateRows, client>>
    BY <1>2 DEF ReadSignoffs, resultRows
  <2>3. ApprovedWasExecuted'
    BY <2>2 DEF CampaignInv, ApprovedWasExecuted
  <2> QED BY <1>0, <2>1, <2>2, <2>3, RowsStay DEF CampaignInv, ExecutedOK, CampaignTypeOK
<1>3. CASE ReadResults
  <2> DEFINE none == \A k \in Critical : result[k].status \notin Blocks
  <2>1. report' = [report EXCEPT !.at = "reviews", !.ready = none]
    BY <1>3 DEF ReadResults
  <2>2. none \in BOOLEAN
    OBVIOUS
  <2>3. ReportOK' /\ report'.ready = none
    BY <1>0, <2>1, <2>2 DEF ReportOK
  <2>4. reported' = reported /\ history' = history /\ UNCHANGED <<cycle, resultRows, gateRows, client>>
    BY <1>3 DEF ReadResults, resultRows
  <2>5. ApprovedWasExecuted'
    BY <2>4 DEF CampaignInv, ApprovedWasExecuted
  <2>6. report'.ready => \A k \in Critical : history'[k]
    BY <1>0, <2>3, <2>4 DEF CampaignInv, ExecutedOK
  <2> QED BY <1>0, <2>3, <2>4, <2>5, <2>6, RowsStay DEF CampaignInv, ExecutedOK, CampaignTypeOK
<1>4. CASE ReadReviews
  <2> DEFINE agreed == \A k \in Critical :
               result[k].status = "NOT_APPLICABLE" => result[k].review = "ACCEPTED"
  <2>1. report' = [report EXCEPT !.at = "defects", !.ready = @ /\ agreed] /\ report.at = "reviews"
    BY <1>4 DEF ReadReviews
  <2>2. ReportOK' /\ (report'.ready => report.ready)
    BY <1>0, <2>1 DEF ReportOK
  <2>3. reported' = reported /\ history' = history /\ UNCHANGED <<cycle, resultRows, gateRows, client>>
    BY <1>4 DEF ReadReviews, resultRows
  <2>4. ApprovedWasExecuted'
    BY <2>3 DEF CampaignInv, ApprovedWasExecuted
  <2>5. report'.ready => \A k \in Critical : history'[k]
    BY <2>1, <2>2, <2>3 DEF CampaignInv, ExecutedOK
  <2> QED BY <1>0, <2>2, <2>3, <2>4, <2>5, RowsStay DEF CampaignInv, ExecutedOK, CampaignTypeOK
<1>5. CASE ReadDefectsAndAnswer
  <2>1. /\ reported' = QualityGate(report, report.ready /\ ~ blocking)
        /\ report' = NoReport /\ report.at = "defects"
        /\ UNCHANGED <<cycle, resultRows, gateRows, client>>
    BY <1>5 DEF ReadDefectsAndAnswer
  <2>2. report.signoff \in Signoffs
    BY <1>0 DEF ReportOK
  <2>3. reported' \in Signoffs /\ (reported' = "APPROVED" => report.ready)
    BY <2>1, <2>2 DEF QualityGate, Signoffs
  <2>4. ReportOK' /\ report'.at = "idle"
    BY <2>1 DEF ReportOK, NoReport, Signoffs
  <2>5. history' = history
    BY <2>1 DEF resultRows
  <2>6. ApprovedWasExecuted'
    BY <2>1, <2>3, <2>5 DEF CampaignInv, ExecutedOK, ApprovedWasExecuted
  <2> QED BY <2>1, <2>3, <2>4, <2>6, RowsStay DEF CampaignInv, ExecutedOK
<1> QED BY <1>1, <1>2, <1>3, <1>4, <1>5

LEMMA NextCampaignInv == CampaignInv /\ [CampaignNext]_campaignVars => CampaignInv'
<1> SUFFICES ASSUME CampaignInv, [CampaignNext]_campaignVars PROVE CampaignInv'
  OBVIOUS
<1> DEFINE Same == UNCHANGED <<cycle, result, history, reviewed, crossed, report, reported>>
<1>0. ASSUME Same, signoff' \in Signoffs, blocking' \in BOOLEAN, ClientOK' PROVE CampaignInv'
  <2>1. CampaignTypeOK'
    BY <1>0 DEF CampaignInv, CampaignTypeOK
  <2> QED BY <1>0, <2>1, HistoryGrows DEF CampaignInv, ExecutedOK
<1>1. ASSUME NEW c \in Clients, Load(c) PROVE CampaignInv'
  <2>1. ClientOK'
    BY <1>1, LoadsRequest DEF Load, CampaignInv, ClientOK
  <2> QED BY <1>0, <1>1, <2>1 DEF Load, resultRows, gateRows, CampaignInv, CampaignTypeOK
<1>2. ASSUME NEW c \in Clients, Lost(c) PROVE CampaignInv'
  <2>1. ClientOK'
    BY <1>2 DEF Lost, CampaignInv, ClientOK
  <2> QED BY <1>0, <1>2, <2>1 DEF Lost, resultRows, gateRows, CampaignInv, CampaignTypeOK
<1>3. CASE CreateSignoff
  <2>1. ClientOK'
    BY <1>3 DEF CreateSignoff, CampaignInv, ClientOK
  <2> QED BY <1>0, <1>3, <2>1 DEF CreateSignoff, resultRows, CampaignInv, CampaignTypeOK
<1>4. CASE CreateOrUpdateDefect
  <2>1. ClientOK' /\ blocking' \in BOOLEAN
    BY <1>4 DEF CreateOrUpdateDefect, CampaignInv, ClientOK
  <2> QED BY <1>0, <1>4, <2>1 DEF CreateOrUpdateDefect, resultRows, CampaignInv, CampaignTypeOK
<1>5. CASE UNCHANGED campaignVars
  <2>1. ClientOK'
    BY <1>5 DEF campaignVars, CampaignInv, ClientOK
  <2> QED BY <1>0, <1>5, <2>1 DEF campaignVars, resultRows, gateRows, CampaignInv, CampaignTypeOK
<1> QED BY <1>1, <1>2, <1>3, <1>4, <1>5, UpdateKeepsCampaignInv, ReviewKeepsCampaignInv,
           CycleKeepsCampaignInv, ReportKeepsCampaignInv DEF CampaignNext

\* For any number of clients, commits between the queries of a report included: an
\* APPROVED QAResult never covers a P0 case that nobody executed.
THEOREM ApprovalNeedsExecution == CampaignSpec => []ApprovedWasExecuted
<1>1. CampaignInv => ApprovedWasExecuted
  BY DEF CampaignInv
<1> QED BY <1>1, InitCampaignInv, NextCampaignInv, PTL DEF CampaignSpec

-----------------------------------------------------------------------------
(* Reviews *)

NotApplicable(row) == row.status = "NOT_APPLICABLE"

\* What a handler that nobody outran may rely on of the row it loaded. A reviewer's
\* reason still stands. An updater's row has the review it had, or none; and if it has
\* become NOT_APPLICABLE meanwhile, nobody has accepted that, or the case is crossed.
RequestOK(q, rows, odd) ==
  /\ q.does = "review" /\ ~q.outrun => rows[q.case].reason = q.loaded.reason
  /\ q.does = "update" /\ ~q.outrun =>
       /\ rows[q.case].review \in {q.loaded.review, "UNREVIEWED"}
       /\ NotApplicable(rows[q.case]) =>
            NotApplicable(q.loaded) \/ rows[q.case].review = "UNREVIEWED" \/ q.case \in odd

LoadedOK == \A c \in Clients : RequestOK(client[c], result, crossed)

LEMMA NobodyLoaded == \A rows, odd : RequestOK(NoClient, rows, odd)
BY DEF NoClient, RequestOK

\* The case of a committing update, and of the handlers it does not outrun.
LEMMA UpdateStep ==
  ASSUME CampaignInv, LoadedOK, AcceptedAsReviewed, NEW c \in Clients, CommitUpdate(c)
  PROVE  LoadedOK' /\ AcceptedAsReviewed'
<1> DEFINE q == client[c]
           k == q.case
           row == result[k]
           old == q.loaded
<1>0. /\ CampaignTypeOK /\ ClientOK /\ q.does = "update"
      /\ DoneBefore(c, "review") /\ UNCHANGED reviewed
  BY DEF CampaignInv, CommitUpdate
<1>1. q \in UpdateRequests /\ RequestOK(q, result, crossed)
  BY <1>0 DEF ClientOK, NoClient, ReviewRequests, CycleRequests, LoadedOK
<1>2. /\ k \in Cases /\ row \in ResultRow /\ old \in ResultRow
      /\ q.status \in Results /\ q.outrun \in BOOLEAN
  BY <1>0, <1>1 DEF UpdateRequests, CampaignTypeOK
<1>3. crossed' = IF q.outrun THEN crossed \cup {k}
                 ELSE IF q.status = "NOT_APPLICABLE" THEN crossed \ {k} ELSE crossed
  BY DEF CommitUpdate
<1> DEFINE new == result'[k]
<1>4. /\ \A i \in Cases : i # k => result'[i] = result[i]
      /\ new.status = Saved(old.status, q.status, row.status)
      /\ new.review = Saved(old.review, ReviewAfter(q), row.review)
  BY <1>0, <1>2 DEF CommitUpdate, CampaignTypeOK
<1>5. new.review \in {row.review, "UNREVIEWED"}
  BY <1>4 DEF Saved, ReviewAfter
<1>6. ~q.outrun /\ q.status = "NOT_APPLICABLE" => new.review = "UNREVIEWED"
  BY <1>1, <1>0, <1>4 DEF Saved, ReviewAfter, RequestOK
<1>7. ~q.outrun /\ q.status # "NOT_APPLICABLE" /\ NotApplicable(new) =>
        NotApplicable(row) /\ ~NotApplicable(old)
  BY <1>4 DEF Saved, NotApplicable
<1>8. NotApplicable(new) => new.review = "UNREVIEWED" \/ k \in crossed'
  BY <1>0, <1>1, <1>2, <1>3, <1>5, <1>6, <1>7 DEF RequestOK
<1>9. \A i \in Cases : i # k => (i \in crossed' <=> i \in crossed)
  BY <1>3
<1>10. AcceptedAsReviewed'
  BY <1>0, <1>2, <1>4, <1>8, <1>9 DEF AcceptedAsReviewed, NotApplicable
<1>11. /\ client'[c] = NoClient
       /\ \A d \in Clients : d # c =>
            client'[d] = IF client[d].does = "review" /\ client[d].case = k
                         THEN [client[d] EXCEPT !.outrun = TRUE] ELSE client[d]
  BY <1>0, DoneBeforeOK
<1>12. ASSUME NEW d \in Clients, NEW p, p = client[d], NEW z, z = client'[d]
      PROVE  RequestOK(z, result', crossed')
  <2>1. p \in {NoClient} \cup UpdateRequests \cup ReviewRequests \cup CycleRequests
        /\ RequestOK(p, result, crossed)
    BY <1>0, <1>12 DEF ClientOK, LoadedOK
  <2>2. CASE d = c
    BY <1>11, <1>12, <2>2, NobodyLoaded
  <2>3. CASE d # c /\ p.does = "review" /\ p.case = k
    <3>1. p \in ReviewRequests
      BY <2>1, <2>3 DEF NoClient, UpdateRequests, CycleRequests
    <3>2. z = [p EXCEPT !.outrun = TRUE]
      BY <1>11, <1>12, <2>3
    <3>3. z.outrun /\ z.does = "review"
      BY <3>1, <3>2, <2>3 DEF ReviewRequests
    <3> QED BY <3>3 DEF RequestOK
  <2>4. CASE d # c /\ p.does = "review" /\ p.case # k
    <3>0. z = p
      BY <1>11, <1>12, <2>4
    <3>1. p.case \in Cases
      BY <2>1, <2>4 DEF NoClient, UpdateRequests, CycleRequests, ReviewRequests
    <3> QED BY <1>4, <2>1, <2>4, <3>0, <3>1 DEF RequestOK
  <2>5. CASE d # c /\ p.does = "update"
    <3>0. z = p
      BY <1>11, <1>12, <2>5
    <3>1. p.case \in Cases
      BY <2>1, <2>5 DEF NoClient, UpdateRequests, CycleRequests, ReviewRequests
    <3>2. CASE p.case = k
      <4> HIDE DEF k
      <4> QED BY <1>5, <1>8, <2>1, <2>5, <3>0, <3>1, <3>2 DEF RequestOK
    <3>3. CASE p.case # k
      <4> HIDE DEF k
      <4> QED BY <1>4, <1>9, <2>1, <2>5, <3>0, <3>1, <3>3 DEF RequestOK
    <3> QED BY <3>2, <3>3
  <2>6. CASE d # c /\ p.does \notin {"update", "review"}
    BY <1>11, <1>12, <2>6 DEF RequestOK
  <2> QED BY <2>2, <2>3, <2>4, <2>5, <2>6
<1> QED BY <1>10, <1>12 DEF LoadedOK

\* A committing review outruns the updates of its case; a reviewer's own reason stands.
LEMMA ReviewStep ==
  ASSUME CampaignInv, LoadedOK, AcceptedAsReviewed, NEW c \in Clients, CommitReview(c)
  PROVE  LoadedOK' /\ AcceptedAsReviewed'
<1> DEFINE q == client[c]
           k == q.case
<1>0. CampaignTypeOK /\ ClientOK /\ q.does = "review" /\ DoneBefore(c, "update")
  BY DEF CampaignInv, CommitReview
<1>1. q \in ReviewRequests /\ RequestOK(q, result, crossed)
  BY <1>0 DEF ClientOK, NoClient, UpdateRequests, CycleRequests, LoadedOK
<1>2. k \in Cases /\ q.outrun \in BOOLEAN /\ result[k] \in ResultRow
  BY <1>0, <1>1 DEF ReviewRequests, CampaignTypeOK
<1>3. crossed' = IF q.outrun THEN crossed \cup {k} ELSE crossed \ {k}
  BY DEF CommitReview
<1>4. /\ \A i \in Cases : i # k => result'[i] = result[i] /\ reviewed'[i] = reviewed[i]
      /\ \A i \in Cases : result'[i].status = result[i].status /\ result'[i].reason = result[i].reason
      /\ reviewed'[k] = q.loaded.reason
  BY <1>0, <1>2 DEF CommitReview, CampaignTypeOK, ResultRow
<1>5. ~q.outrun => result'[k].reason = reviewed'[k]
  BY <1>0, <1>1, <1>2, <1>4 DEF RequestOK
<1>6. \A i \in Cases : i # k => (i \in crossed' <=> i \in crossed)
  BY <1>3
<1>7. AcceptedAsReviewed'
  BY <1>2, <1>3, <1>4, <1>5, <1>6 DEF AcceptedAsReviewed
<1>8. /\ client'[c] = NoClient
      /\ \A d \in Clients : d # c =>
           client'[d] = IF client[d].does = "update" /\ client[d].case = k
                        THEN [client[d] EXCEPT !.outrun = TRUE] ELSE client[d]
  BY <1>0, DoneBeforeOK
<1>9. ASSUME NEW d \in Clients, NEW p, p = client[d], NEW z, z = client'[d]
      PROVE  RequestOK(z, result', crossed')
  <2>1. p \in {NoClient} \cup UpdateRequests \cup ReviewRequests \cup CycleRequests
        /\ RequestOK(p, result, crossed)
    BY <1>0, <1>9 DEF ClientOK, LoadedOK
  <2>2. CASE d = c
    BY <1>8, <1>9, <2>2, NobodyLoaded
  <2>3. CASE d # c /\ p.does = "update" /\ p.case = k
    <3>1. p \in UpdateRequests
      BY <2>1, <2>3 DEF NoClient, ReviewRequests, CycleRequests
    <3>2. z = [p EXCEPT !.outrun = TRUE]
      BY <1>8, <1>9, <2>3
    <3>3. z.outrun /\ z.does = "update"
      BY <3>1, <3>2, <2>3 DEF UpdateRequests
    <3> QED BY <3>3 DEF RequestOK
  <2>4. CASE d # c /\ p.does = "update" /\ p.case # k
    <3>0. z = p
      BY <1>8, <1>9, <2>4
    <3>1. p.case \in Cases
      BY <2>1, <2>4 DEF NoClient, UpdateRequests, CycleRequests, ReviewRequests
    <3>2. result'[p.case] = result[p.case] /\ (p.case \in crossed' <=> p.case \in crossed)
      BY <1>4, <1>6, <2>4, <3>1
    <3> QED BY <2>1, <2>4, <3>0, <3>1, <3>2 DEF RequestOK
  <2>5. CASE d # c /\ p.does = "review"
    <3>0. z = p
      BY <1>8, <1>9, <2>5
    <3>1. p.case \in Cases
      BY <2>1, <2>5 DEF NoClient, UpdateRequests, CycleRequests, ReviewRequests
    <3> QED BY <1>4, <2>1, <2>5, <3>0, <3>1 DEF RequestOK
  <2>6. CASE d # c /\ p.does \notin {"update", "review"}
    BY <1>8, <1>9, <2>6 DEF RequestOK
  <2> QED BY <2>2, <2>3, <2>4, <2>5, <2>6
<1> QED BY <1>7, <1>9 DEF LoadedOK

\* CampaignInv is used for its types.
LEMMA NextReviewInv ==
  ASSUME CampaignInv, LoadedOK, AcceptedAsReviewed, [CampaignNext]_campaignVars
  PROVE  LoadedOK' /\ AcceptedAsReviewed'
<1> DEFINE Goal == LoadedOK' /\ AcceptedAsReviewed'
<1>0. ClientOK
  BY DEF CampaignInv
<1>1. ASSUME NEW c \in Clients, NEW q, client' = [client EXCEPT ![c] = q],
             UNCHANGED <<result, reviewed, crossed>>, RequestOK(q, result, crossed)
      PROVE  Goal
  <2>1. \A d \in Clients : client'[d] = IF d = c THEN q ELSE client[d]
    BY <1>0, <1>1 DEF ClientOK
  <2>2. LoadedOK'
    BY <1>1, <2>1 DEF LoadedOK
  <2> QED BY <1>1, <2>2 DEF AcceptedAsReviewed
<1>2. ASSUME NEW c \in Clients, Load(c) PROVE Goal
  <2>1. PICK q \in UpdateResult \cup ReviewResult \cup UpdateCycle \cup LockCycle \cup ReopenCycle :
          client' = [client EXCEPT ![c] = q]
    BY <1>2 DEF Load
  <2>2. q.does \in {"update", "review"} => q.loaded = result[q.case]
    BY DEF UpdateResult, ReviewResult, UpdateCycle, LockCycle, ReopenCycle
  <2>3. RequestOK(q, result, crossed)
    BY <2>2 DEF RequestOK
  <2> QED BY <1>1, <1>2, <2>1, <2>3 DEF Load, resultRows
<1>3. ASSUME NEW c \in Clients, CommitCycle(c) \/ Lost(c) PROVE Goal
  BY <1>1, <1>3, NobodyLoaded DEF CommitCycle, Lost, resultRows
<1>4. CASE \/ CreateSignoff \/ CreateOrUpdateDefect \/ UNCHANGED campaignVars
           \/ BeginReport \/ ReadSignoffs \/ ReadResults \/ ReadReviews \/ ReadDefectsAndAnswer
  <2>1. UNCHANGED <<result, reviewed, crossed, client>>
    BY <1>4 DEF CreateSignoff, CreateOrUpdateDefect, campaignVars, resultRows, gateRows,
                BeginReport, ReadSignoffs, ReadResults, ReadReviews, ReadDefectsAndAnswer
  <2> QED BY <2>1 DEF LoadedOK, AcceptedAsReviewed
<1>5. ASSUME NEW c \in Clients, CommitUpdate(c) PROVE Goal
  BY <1>5, UpdateStep
<1>6. ASSUME NEW c \in Clients, CommitReview(c) PROVE Goal
  BY <1>6, ReviewStep
<1> QED BY <1>2, <1>3, <1>4, <1>5, <1>6 DEF CampaignNext

\* For any number of clients: a NOT_APPLICABLE result counts as accepted only with the
\* reason the admin saw, and is reviewed again whenever it is set again, unless a review
\* and an update of it overlapped and nobody reviewed or set it since.
THEOREM ReviewedAsSeen == CampaignSpec => []AcceptedAsReviewed
<1>1. CampaignInit => LoadedOK /\ AcceptedAsReviewed
  BY NobodyLoaded DEF CampaignInit, LoadedOK, AcceptedAsReviewed
<1>2. CampaignInv /\ LoadedOK /\ AcceptedAsReviewed /\ [CampaignNext]_campaignVars
        => LoadedOK' /\ AcceptedAsReviewed'
  BY NextReviewInv
<1> QED BY <1>1, <1>2, InitCampaignInv, NextCampaignInv, PTL DEF CampaignSpec

-----------------------------------------------------------------------------
(* Evidence files *)

\* The steps of an upload that has put an object.
Holding == {"insert", "recheck", "evict", "compensate"}

\* The key an upload holds is its own. Its row is there from the commit of the insert
\* to the eviction, and nobody was answered with it before the last sum. What it takes
\* back has no row, or one that it disowned.
HeldOK(u) ==
  LET k == upload[u].key IN
  /\ upload[u].at # "idle" => upload[u].file \in Files
  /\ upload[u].at \in Holding =>
       /\ k \in 1..keys
       /\ \A v \in Uploads \ {u} : upload[v].at \in Holding => upload[v].key # k
  /\ upload[u].at = "insert" => k \in objects
  /\ upload[u].at \in {"insert", "recheck"} => k \notin disowned
  /\ upload[u].at = "insert" => evidence[k] = NoItem
  /\ upload[u].at = "compensate" => evidence[k] = NoItem \/ k \in disowned \ accepted
  /\ upload[u].at \in {"recheck", "evict"} => evidence[k] # NoItem /\ k \notin accepted

\* Keys that were not made up yet have neither object nor row.
EvidenceInv ==
  /\ EvidenceTypeOK
  /\ \A u \in Uploads : HeldOK(u)
  /\ RowHasObject
  /\ objects \cup Rows \cup disowned \subseteq 1..keys

LEMMA InitEvidenceInv == EvidenceInit => EvidenceInv
<1> SUFFICES ASSUME EvidenceInit PROVE EvidenceInv
  OBVIOUS
<1>1. Rows = {}
  BY DEF EvidenceInit, Rows
<1>2. EvidenceTypeOK
  <2>1. NoUpload \in [at : {"idle", "quota", "dedupe", "put", "insert", "recheck", "evict", "compensate"},
                      file : Files \cup {0}, key : Keys \cup {0}]
    BY DEF NoUpload
  <2>2. keys \in 0..MaxObjects
    BY EvidenceAssumption DEF EvidenceInit
  <2> QED BY <1>1, <2>1, <2>2 DEF EvidenceInit, EvidenceTypeOK
<1>3. \A u \in Uploads : HeldOK(u)
  BY DEF EvidenceInit, HeldOK, Holding, NoUpload
<1> QED BY <1>1, <1>2, <1>3 DEF EvidenceInit, EvidenceInv, RowHasObject

\* A step of upload u that puts no object and writes no row.
LEMMA QuietUploadStep ==
  ASSUME EvidenceInv, NEW u \in Uploads, NEW up,
         upload' = [upload EXCEPT ![u] = up],
         up \in [at : {"idle", "quota", "dedupe", "put", "insert", "recheck", "evict", "compensate"},
                 file : Files \cup {0}, key : Keys \cup {0}],
         up.at # "idle" => up.file \in Files,
         up.at \in Holding => upload[u].at \in Holding /\ up.key = upload[u].key,
         up.at = "insert" => upload[u].at = "insert",
         up.at = "compensate" => upload[u].at \in {"insert", "compensate"},
         up.at = "recheck" => upload[u].at = "recheck",
         up.at \in {"recheck", "evict"} => upload[u].at \in {"recheck", "evict"},
         UNCHANGED <<evidence, objects, keys, accepted, disowned, closed, orphans>>
  PROVE  EvidenceInv'
<1>1. \A v \in Uploads : upload'[v] = IF v = u THEN up ELSE upload[v]
  BY DEF EvidenceInv, EvidenceTypeOK
<1>2. Rows' = Rows
  BY DEF Rows
<1>3. EvidenceTypeOK'
  BY <1>2 DEF EvidenceInv, EvidenceTypeOK
<1>4. ASSUME NEW v \in Uploads PROVE HeldOK(v)'
  BY <1>1 DEF EvidenceInv, HeldOK, Holding
<1> QED BY <1>2, <1>3, <1>4 DEF EvidenceInv, RowHasObject

LEMMA PutKeepsEvidence ==
  ASSUME EvidenceInv, NEW u \in Uploads, PutObject(u)
  PROVE  EvidenceInv'
<1>1. /\ keys \in Nat /\ keys + 1 \in Keys /\ MaxObjects \in Nat
      /\ keys' = keys + 1 /\ objects' = objects \cup {keys + 1}
      /\ UNCHANGED <<evidence, accepted, disowned, closed, orphans>>
  BY EvidenceAssumption DEF PutObject, EvidenceInv, EvidenceTypeOK, Keys
<1>2. \A v \in Uploads : upload'[v] = IF v = u THEN [upload[u] EXCEPT !.at = "insert", !.key = keys + 1]
                                      ELSE upload[v]
  BY DEF PutObject, EvidenceInv, EvidenceTypeOK
<1>3. /\ upload'[u].at = "insert" /\ upload'[u].key = keys + 1 /\ upload'[u].file = upload[u].file
      /\ upload[u].file \in Files
  BY <1>2 DEF PutObject, EvidenceInv, EvidenceTypeOK, HeldOK
<1>4. Rows' = Rows /\ keys + 1 \notin Rows \cup disowned /\ evidence[keys + 1] = NoItem
  <2>1. keys + 1 \notin Rows \cup disowned
    BY <1>1 DEF EvidenceInv
  <2> QED BY <1>1, <2>1 DEF Rows
<1>5. EvidenceTypeOK'
  <2>1. upload' \in [Uploads ->
       [at : {"idle", "quota", "dedupe", "put", "insert", "recheck", "evict", "compensate"},
        file : Files \cup {0}, key : Keys \cup {0}]]
    <3>1. upload[u] \in
           [at : {"idle", "quota", "dedupe", "put", "insert", "recheck", "evict", "compensate"},
            file : Files \cup {0}, key : Keys \cup {0}]
      BY DEF EvidenceInv, EvidenceTypeOK
    <3>2. [upload[u] EXCEPT !.at = "insert", !.key = keys + 1] \in
           [at : {"idle", "quota", "dedupe", "put", "insert", "recheck", "evict", "compensate"},
            file : Files \cup {0}, key : Keys \cup {0}]
      BY <1>1, <3>1
    <3>3. upload' = [upload EXCEPT ![u] = [upload[u] EXCEPT !.at = "insert", !.key = keys + 1]]
      BY DEF PutObject
    <3> QED BY <3>2, <3>3 DEF EvidenceInv, EvidenceTypeOK
  <2>2. keys' \in 0..MaxObjects /\ objects' \subseteq Keys
    BY <1>1 DEF PutObject, EvidenceInv, EvidenceTypeOK
  <2> QED BY <1>1, <1>4, <2>1, <2>2 DEF EvidenceInv, EvidenceTypeOK
<1>6. ASSUME NEW v \in Uploads PROVE HeldOK(v)'
  <2>1. \A w \in Uploads : upload[w].at \in Holding => upload[w].key \in 1..keys
    BY DEF EvidenceInv, HeldOK
  <2>2. CASE v = u
    BY <1>1, <1>2, <1>3, <1>4, <2>1, <2>2 DEF HeldOK, Holding
  <2>3. CASE v # u
    BY <1>1, <1>2, <1>3, <2>1, <2>3 DEF EvidenceInv, HeldOK, Holding
  <2> QED BY <2>2, <2>3
<1>7. RowHasObject' /\ objects' \cup Rows' \cup disowned' \subseteq 1..keys'
  BY <1>1, <1>4 DEF EvidenceInv, RowHasObject
<1> QED BY <1>5, <1>6, <1>7 DEF EvidenceInv

\* A step of upload u that writes, or deletes, the row of the key it holds.
LEMMA RowWritten ==
  ASSUME EvidenceInv, NEW u \in Uploads, NEW item,
         item = NoItem \/ item \in [file : Files, status : {"ACTIVE", "ARCHIVED"}],
         upload[u].at \in Holding,
         evidence' = [evidence EXCEPT ![upload[u].key] = item]
  PROVE  /\ upload[u].key \in Keys
         /\ evidence' \in [Keys -> {NoItem} \cup [file : Files, status : {"ACTIVE", "ARCHIVED"}]]
         /\ \A k \in Keys : evidence'[k] = IF k = upload[u].key THEN item ELSE evidence[k]
         /\ \A v \in Uploads \ {u} : upload[v].at \in Holding => evidence'[upload[v].key] = evidence[upload[v].key]
<1>1. /\ \A v \in Uploads : upload[v].at \in Holding => upload[v].key \in Keys
      /\ \A v \in Uploads \ {u} : upload[v].at \in Holding => upload[v].key # upload[u].key
  BY EvidenceAssumption DEF EvidenceInv, EvidenceTypeOK, HeldOK, Keys
<1> QED BY <1>1 DEF EvidenceInv, EvidenceTypeOK

\* A row that is committed, whether its upload goes on or takes the insert for failed.
LEMMA CommitKeepsEvidence ==
  ASSUME EvidenceInv, NEW u \in Uploads, upload[u].at = "insert", CommitRow(u), NEW at,
         \/ at = "recheck" /\ disowned' = disowned
         \/ at = "compensate" /\ disowned' = disowned \cup {upload[u].key},
         Goto(u, at), UNCHANGED <<objects, keys, accepted, closed, orphans>>
  PROVE  EvidenceInv'
<1> DEFINE k == upload[u].key
           item == [file |-> upload[u].file, status |-> "ACTIVE"]
<1>1. /\ upload[u].at = "insert" /\ upload[u].file \in Files
      /\ evidence' = [evidence EXCEPT ![k] = item]
      /\ UNCHANGED <<objects, keys, accepted, closed, orphans>>
      /\ evidence[k] = NoItem /\ k \in objects
  BY DEF EvidenceInv, HeldOK, CommitRow
<1>2. item # NoItem /\ item \in [file : Files, status : {"ACTIVE", "ARCHIVED"}]
  BY <1>1 DEF NoItem
<1>3. /\ \A v \in Uploads : upload'[v] = IF v = u THEN [upload[u] EXCEPT !.at = at] ELSE upload[v]
      /\ upload'[u].at = at /\ upload'[u].key = k /\ upload'[u].file = upload[u].file
      /\ upload' \in [Uploads ->
           [at : {"idle", "quota", "dedupe", "put", "insert", "recheck", "evict", "compensate"},
            file : Files \cup {0}, key : Keys \cup {0}]]
  BY DEF Goto, EvidenceInv, EvidenceTypeOK
<1> HIDE DEF item
<1>0. disowned \subseteq disowned' /\ (at = "compensate" => k \in disowned')
  OBVIOUS
<1>4. /\ k \in Keys
      /\ evidence' \in [Keys -> {NoItem} \cup [file : Files, status : {"ACTIVE", "ARCHIVED"}]]
      /\ \A j \in Keys : evidence'[j] = IF j = k THEN item ELSE evidence[j]
      /\ \A v \in Uploads \ {u} : upload[v].at \in Holding => evidence'[upload[v].key] = evidence[upload[v].key]
  BY <1>1, <1>2, RowWritten DEF Holding
<1>5. k \notin accepted /\ accepted \subseteq Rows
  BY <1>1 DEF EvidenceInv, EvidenceTypeOK, Rows
<1>6. Rows' = Rows \cup {k}
  BY <1>2, <1>4 DEF Rows
<1>7. EvidenceTypeOK'
  <2>1. disowned' \subseteq Keys
    BY <1>4 DEF EvidenceInv, EvidenceTypeOK
  <2> QED BY <1>1, <1>3, <1>4, <1>5, <1>6, <2>1 DEF EvidenceInv, EvidenceTypeOK
<1>8. ASSUME NEW v \in Uploads PROVE HeldOK(v)'
  <2>1. HeldOK(v) /\ HeldOK(u)
    BY DEF EvidenceInv
  <2>2. CASE v = u
    BY <1>0, <1>1, <1>2, <1>3, <1>4, <1>5, <2>1, <2>2 DEF HeldOK, Holding
  <2>3. CASE v # u
    <3>1. upload'[v] = upload[v] /\ upload'[u].key = k /\ upload[u].at \in Holding
      BY <1>1, <1>3, <2>3 DEF Holding
    <3>2. \A w \in Uploads \ {v} : upload'[w].at \in Holding => upload[w].at \in Holding /\ upload'[w].key = upload[w].key
      BY <1>3, <3>1
    <3> QED BY <1>0, <1>1, <1>4, <2>1, <2>3, <3>1, <3>2 DEF HeldOK, Holding
  <2> QED BY <2>2, <2>3
<1>9. RowHasObject' /\ objects' \cup Rows' \cup disowned' \subseteq 1..keys'
  BY <1>0, <1>1, <1>6 DEF EvidenceInv, RowHasObject
<1> QED BY <1>7, <1>8, <1>9 DEF EvidenceInv

LEMMA EvictKeepsEvidence ==
  ASSUME EvidenceInv, NEW u \in Uploads, EvictRow(u)
  PROVE  EvidenceInv'
<1> DEFINE k == upload[u].key
<1>1. /\ upload[u].at = "evict" /\ upload[u].file \in Files
      /\ evidence' = [evidence EXCEPT ![k] = NoItem]
      /\ UNCHANGED <<objects, keys, accepted, disowned, closed, orphans>>
      /\ k \notin accepted
  BY DEF EvidenceInv, HeldOK, EvictRow
<1>2. /\ \A v \in Uploads : upload'[v] = IF v = u THEN [upload[u] EXCEPT !.at = "compensate"] ELSE upload[v]
      /\ upload'[u].at = "compensate" /\ upload'[u].key = k /\ upload'[u].file = upload[u].file
      /\ upload' \in [Uploads ->
           [at : {"idle", "quota", "dedupe", "put", "insert", "recheck", "evict", "compensate"},
            file : Files \cup {0}, key : Keys \cup {0}]]
  BY DEF EvictRow, Goto, EvidenceInv, EvidenceTypeOK
<1>3. /\ k \in Keys
      /\ evidence' \in [Keys -> {NoItem} \cup [file : Files, status : {"ACTIVE", "ARCHIVED"}]]
      /\ \A j \in Keys : evidence'[j] = IF j = k THEN NoItem ELSE evidence[j]
      /\ \A v \in Uploads \ {u} : upload[v].at \in Holding => evidence'[upload[v].key] = evidence[upload[v].key]
  BY <1>1, RowWritten DEF Holding
<1>4. Rows' = Rows \ {k}
  BY <1>3 DEF Rows
<1>5. EvidenceTypeOK'
  BY <1>1, <1>2, <1>3, <1>4 DEF EvidenceInv, EvidenceTypeOK
<1>6. ASSUME NEW v \in Uploads PROVE HeldOK(v)'
  <2>1. HeldOK(v) /\ HeldOK(u)
    BY DEF EvidenceInv
  <2>2. CASE v = u
    BY <1>1, <1>2, <1>3, <2>1, <2>2 DEF HeldOK, Holding
  <2>3. CASE v # u
    <3>1. upload'[v] = upload[v] /\ upload'[u].key = k /\ upload[u].at \in Holding
      BY <1>1, <1>2, <2>3 DEF Holding
    <3>2. \A w \in Uploads \ {v} : upload'[w].at \in Holding => upload[w].at \in Holding /\ upload'[w].key = upload[w].key
      BY <1>2, <3>1
    <3> QED BY <1>1, <1>3, <2>1, <2>3, <3>1, <3>2 DEF HeldOK, Holding
  <2> QED BY <2>2, <2>3
<1>7. RowHasObject' /\ objects' \cup Rows' \cup disowned' \subseteq 1..keys'
  BY <1>1, <1>4 DEF EvidenceInv, RowHasObject
<1> QED BY <1>5, <1>6, <1>7 DEF EvidenceInv

LEMMA RecheckKeepsEvidence ==
  ASSUME EvidenceInv, NEW u \in Uploads, RecheckQuota(u)
  PROVE  EvidenceInv'
<1> DEFINE k == upload[u].key
<1>1. HeldOK(u) /\ upload[u].at = "recheck" /\ k \in Keys
  BY EvidenceAssumption DEF EvidenceInv, EvidenceTypeOK, RecheckQuota, HeldOK, Holding, Keys
<1>2. CASE OverQuota
  <2>1. upload' = [upload EXCEPT ![u] = [upload[u] EXCEPT !.at = "evict"]]
    BY <1>2 DEF RecheckQuota, Goto
  <2>2. /\ [upload[u] EXCEPT !.at = "evict"].at = "evict"
        /\ [upload[u] EXCEPT !.at = "evict"].key = k
        /\ [upload[u] EXCEPT !.at = "evict"].file = upload[u].file
        /\ [upload[u] EXCEPT !.at = "evict"] \in
             [at : {"idle", "quota", "dedupe", "put", "insert", "recheck", "evict", "compensate"},
              file : Files \cup {0}, key : Keys \cup {0}]
    BY DEF EvidenceInv, EvidenceTypeOK
  <2>3. UNCHANGED <<evidence, objects, keys, accepted, disowned, closed, orphans>>
    BY <1>2 DEF RecheckQuota
  <2> HIDE DEF k
  <2> QED BY <1>1, <2>1, <2>2, <2>3, QuietUploadStep DEF HeldOK, Holding, k
<1>3. CASE ~ OverQuota
  <2>1. /\ accepted' = accepted \cup {k} /\ UNCHANGED <<evidence, objects, keys, disowned, closed, orphans>>
        /\ \A v \in Uploads : upload'[v] = IF v = u THEN NoUpload ELSE upload[v]
        /\ upload' \in [Uploads ->
             [at : {"idle", "quota", "dedupe", "put", "insert", "recheck", "evict", "compensate"},
              file : Files \cup {0}, key : Keys \cup {0}]]
    BY <1>3 DEF RecheckQuota, Leave, EvidenceInv, EvidenceTypeOK, NoUpload
  <2>2. Rows' = Rows /\ k \in Rows
    BY <1>1, <2>1 DEF Rows, HeldOK
  <2>3. EvidenceTypeOK'
    BY <2>1, <2>2 DEF EvidenceInv, EvidenceTypeOK
  <2>4. ASSUME NEW v \in Uploads PROVE HeldOK(v)'
    <3>1. v # u /\ upload[v].at \in Holding => upload[v].key # k
      BY <1>1 DEF HeldOK, Holding
    <3>2. CASE v = u
      BY <2>1, <3>2 DEF HeldOK, Holding, NoUpload
    <3>3. CASE v # u
      <4>1. HeldOK(v) /\ \A w \in Uploads \ {v} : upload'[w].at \in Holding => upload'[w] = upload[w]
        BY <2>1 DEF EvidenceInv, Holding, NoUpload
      <4> QED BY <2>1, <3>1, <3>3, <4>1 DEF HeldOK, Holding
    <3> QED BY <3>2, <3>3
  <2>5. RowHasObject' /\ objects' \cup Rows' \cup disowned' \subseteq 1..keys'
    BY <1>1, <2>1, <2>2 DEF EvidenceInv, RowHasObject, HeldOK
  <2> QED BY <2>3, <2>4, <2>5 DEF EvidenceInv
<1> QED BY <1>2, <1>3

\* Objects go only where no row is, and never under an upload about to insert.
LEMMA ObjectsRemoved ==
  ASSUME EvidenceInv, UNCHANGED <<evidence, keys, accepted, disowned, upload>>, closed' \in BOOLEAN,
         orphans' \subseteq Keys, objects' \subseteq objects,
         \A k \in objects \ objects' : k \notin Rows /\ ~ InFlight(k)
  PROVE  EvidenceInv'
<1>1. Rows' = Rows
  BY DEF Rows
<1>2. EvidenceTypeOK'
  BY <1>1 DEF EvidenceInv, EvidenceTypeOK
<1>3. ASSUME NEW u \in Uploads PROVE HeldOK(u)'
  BY DEF EvidenceInv, HeldOK, InFlight
<1>4. RowHasObject' /\ objects' \cup Rows' \cup disowned' \subseteq 1..keys'
  BY <1>1 DEF EvidenceInv, RowHasObject
<1> QED BY <1>2, <1>3, <1>4 DEF EvidenceInv

LEMMA CompensateKeepsEvidence ==
  ASSUME EvidenceInv, NEW u \in Uploads, Compensate(u)
  PROVE  EvidenceInv'
<1> DEFINE k == upload[u].key
<1>1. /\ HeldOK(u) /\ upload[u].at = "compensate"
      /\ objects' \in {objects, objects \ {k}}
      /\ \A v \in Uploads : upload'[v] = IF v = u THEN NoUpload ELSE upload[v]
      /\ upload' \in [Uploads ->
           [at : {"idle", "quota", "dedupe", "put", "insert", "recheck", "evict", "compensate"},
            file : Files \cup {0}, key : Keys \cup {0}]]
      /\ UNCHANGED <<evidence, keys, accepted, disowned, closed, orphans>>
  BY DEF Compensate, Leave, EvidenceInv, EvidenceTypeOK, NoUpload
<1>2. Rows' = Rows /\ (k \in Rows => k \in disowned \ accepted)
  BY <1>1 DEF Rows, HeldOK
<1>3. EvidenceTypeOK'
  BY <1>1, <1>2 DEF EvidenceInv, EvidenceTypeOK
<1>4. ASSUME NEW v \in Uploads PROVE HeldOK(v)'
  <2>1. v # u /\ upload[v].at \in Holding => upload[v].key # k
    BY <1>1 DEF HeldOK, Holding
  <2> QED BY <1>1, <2>1 DEF EvidenceInv, HeldOK, Holding, NoUpload
<1>5. RowHasObject' /\ objects' \cup Rows' \cup disowned' \subseteq 1..keys'
  BY <1>1, <1>2 DEF EvidenceInv, RowHasObject
<1> QED BY <1>3, <1>4, <1>5 DEF EvidenceInv

LEMMA ArchiveKeepsEvidence ==
  ASSUME EvidenceInv, NEW k \in Keys, ArchiveEvidence(k)
  PROVE  EvidenceInv'
<1>1. /\ evidence[k] \in [file : Files, status : {"ACTIVE", "ARCHIVED"}]
      /\ evidence[k] # NoItem
      /\ evidence' = [evidence EXCEPT ![k] = [evidence[k] EXCEPT !.status = "ARCHIVED"]]
      /\ UNCHANGED <<objects, keys, accepted, disowned, closed, upload, orphans>>
  BY DEF ArchiveEvidence, EvidenceInv, EvidenceTypeOK, NoItem
<1>2. /\ [evidence[k] EXCEPT !.status = "ARCHIVED"] # NoItem
      /\ [evidence[k] EXCEPT !.status = "ARCHIVED"] \in [file : Files, status : {"ACTIVE", "ARCHIVED"}]
  BY <1>1 DEF NoItem
<1>3. /\ evidence' \in [Keys -> {NoItem} \cup [file : Files, status : {"ACTIVE", "ARCHIVED"}]]
      /\ \A j \in Keys : (evidence'[j] = NoItem) <=> (evidence[j] = NoItem)
  BY <1>1, <1>2 DEF EvidenceInv, EvidenceTypeOK
<1>4. Rows' = Rows
  BY <1>3 DEF Rows
<1>5. EvidenceTypeOK'
  BY <1>1, <1>3, <1>4 DEF EvidenceInv, EvidenceTypeOK
<1>6. ASSUME NEW u \in Uploads PROVE HeldOK(u)'
  <2>1. upload[u].at \in Holding => upload[u].key \in Keys
    BY EvidenceAssumption DEF EvidenceInv, EvidenceTypeOK, HeldOK, Keys
  <2> QED BY <1>1, <1>3, <2>1 DEF EvidenceInv, HeldOK, Holding
<1>7. RowHasObject' /\ objects' \cup Rows' \cup disowned' \subseteq 1..keys'
  BY <1>1, <1>4 DEF EvidenceInv, RowHasObject
<1> QED BY <1>5, <1>6, <1>7 DEF EvidenceInv

LEMMA QuietUploads ==
  ASSUME EvidenceInv, NEW u \in Uploads,
         \/ BeginUpload(u) \/ CheckQuota(u) \/ Dedupe(u) \/ PutFails(u) \/ UploadStops(u)
         \/ InsertFails(u) /\ UNCHANGED <<evidence, disowned>>
  PROVE  EvidenceInv'
<1> DEFINE Forms == [at : {"idle", "quota", "dedupe", "put", "insert", "recheck", "evict", "compensate"},
                     file : Files \cup {0}, key : Keys \cup {0}]
<1>1. /\ UNCHANGED <<evidence, objects, keys, accepted, disowned, closed, orphans>>
      /\ upload \in [Uploads -> Forms] /\ upload[u] \in Forms /\ HeldOK(u)
  BY DEF EvidenceInv, EvidenceTypeOK, BeginUpload, CheckQuota, Dedupe, PutFails, InsertFails, UploadStops
<1>2. NoUpload \in Forms /\ NoUpload.at = "idle"
  BY DEF NoUpload
<1>3. CASE upload' = [upload EXCEPT ![u] = NoUpload]
  <2> HIDE DEF Forms
  <2> QED BY <1>1, <1>2, <1>3, QuietUploadStep DEF Forms, Holding
<1>4. CASE BeginUpload(u)
  <2>1. PICK f \in Files : upload' = [upload EXCEPT ![u] = [at |-> "quota", file |-> f, key |-> 0]]
    BY <1>4 DEF BeginUpload
  <2>2. [at |-> "quota", file |-> f, key |-> 0] \in Forms
    OBVIOUS
  <2> QED BY <1>1, <2>1, <2>2, QuietUploadStep DEF Holding
<1>5. ASSUME NEW at \in {"dedupe", "put", "compensate"}, Goto(u, at), upload[u].at # "idle",
             at = "compensate" => upload[u].at = "insert"
      PROVE  EvidenceInv'
  <2> DEFINE up == [upload[u] EXCEPT !.at = at]
  <2>1. upload' = [upload EXCEPT ![u] = up]
    BY <1>5 DEF Goto
  <2>2. up \in Forms /\ up.at = at /\ up.key = upload[u].key /\ up.file = upload[u].file
    BY <1>1
  <2>3. upload[u].file \in Files
    BY <1>1, <1>5 DEF HeldOK
  <2> HIDE DEF up
  <2> QED BY <1>1, <1>5, <2>1, <2>2, <2>3, QuietUploadStep DEF Holding
<1> HIDE DEF Forms
<1> QED BY <1>3, <1>4, <1>5 DEF CheckQuota, Dedupe, PutFails, InsertFails, UploadStops, Leave

LEMMA NextEvidenceInv == EvidenceInv /\ [EvidenceNext]_evidenceVars => EvidenceInv'
<1> SUFFICES ASSUME EvidenceInv, [EvidenceNext]_evidenceVars PROVE EvidenceInv'
  OBVIOUS
<1>1. ASSUME NEW k \in Keys, DeleteOrphan(k) PROVE EvidenceInv'
  <2>1. \A j \in objects \ objects' : j = k /\ k \notin Rows /\ ~ InFlight(k)
    BY <1>1 DEF DeleteOrphan, StillReferenced
  <2>2. /\ UNCHANGED <<evidence, keys, accepted, disowned, upload>> /\ closed' \in BOOLEAN
        /\ orphans' \subseteq Keys /\ objects' \subseteq objects
    BY <1>1 DEF DeleteOrphan, EvidenceInv, EvidenceTypeOK
  <2> QED BY <2>1, <2>2, ObjectsRemoved
<1>2. CASE LockOrReopen
  BY <1>2, ObjectsRemoved DEF LockOrReopen, EvidenceInv, EvidenceTypeOK
<1>3. CASE ListOrphans
  BY <1>3, ObjectsRemoved DEF ListOrphans, EvidenceInv, EvidenceTypeOK
<1>4. CASE UNCHANGED evidenceVars
  BY <1>4, ObjectsRemoved DEF evidenceVars, EvidenceInv, EvidenceTypeOK
<1>5. ASSUME NEW u \in Uploads, InsertRow(u) \/ InsertFails(u) PROVE EvidenceInv'
  <2>1. CASE InsertRow(u)
    BY <2>1, CommitKeepsEvidence DEF InsertRow
  <2>2. CASE InsertFails(u) /\ UNCHANGED <<evidence, disowned>>
    BY <2>2, QuietUploads
  <2>3. CASE InsertFails(u) /\ CommitRow(u) /\ disowned' = disowned \cup {upload[u].key}
    BY <2>3, CommitKeepsEvidence DEF InsertFails
  <2> QED BY <1>5, <2>1, <2>2, <2>3 DEF InsertFails
<1> QED BY <1>1, <1>2, <1>3, <1>4, <1>5, QuietUploads, PutKeepsEvidence,
     RecheckKeepsEvidence, EvictKeepsEvidence, CompensateKeepsEvidence, ArchiveKeepsEvidence DEF EvidenceNext

LEMMA EvidenceInvAlways == EvidenceSpec => []EvidenceInv
BY InitEvidenceInv, NextEvidenceInv, PTL DEF EvidenceSpec

\* Rows, objects and uploads keep their forms, and whoever was answered with a row
\* still has it: neither an eviction nor a deletion takes an accepted file.
THEOREM EvidenceTypeCorrect == EvidenceSpec => []EvidenceTypeOK
BY EvidenceInvAlways, PTL DEF EvidenceInv

\* A row has its object, though the object and the row are written in two systems,
\* workers stop between the two, deletions fail and the reconciliation deletes beside
\* them: a key is made up once, and an object goes only where no row is. Not so the row
\* of an upload that took its own commit for failed, which the property leaves out.
THEOREM EvidenceHasObject == EvidenceSpec => []RowHasObject
BY EvidenceInvAlways, PTL DEF EvidenceInv

-----------------------------------------------------------------------------
(* Sums over finite sets *)

\* The element the folds of the community modules take out of a set next.
Chosen(s) == CHOOSE x \in s : TRUE

\* g is the sum of f over every subset of S, the way MapThenSumSet adds it up.
IsSum(g, f, S) ==
  g = [s \in SUBSET S |-> IF s = {} THEN 0 ELSE f[Chosen(s)] + g[s \ {Chosen(s)}]]

LEMMA ChosenIsMember == ASSUME NEW s, s # {} PROVE Chosen(s) \in s
BY DEF Chosen

\* A non-empty set of subsets of a finite set has a member of least size.
LEMMA LeastSubset ==
  ASSUME NEW S, IsFiniteSet(S), NEW B, B \subseteq SUBSET S, B # {}
  PROVE  \E s \in B : \A t \in B : ~ (t \subseteq s /\ t # s)
<1>1. FiniteSubsetsOf(S) = SUBSET S
  BY FS_FiniteSubsetsOfFinite
<1>2. IsWellFoundedOn(StrictSubsetOrdering(S), SUBSET S)
  BY <1>1, FS_StrictSubsetOrderingWellFounded
<1>3. PICK s \in B : \A t \in B : ~ (<<t, s>> \in StrictSubsetOrdering(S))
  BY <1>2, WFMin
<1> QED BY <1>3 DEF StrictSubsetOrdering

LEMMA LeastNumber ==
  ASSUME NEW B, B \subseteq Nat, B # {}
  PROVE  \E n \in B : \A m \in B : ~ (m < n)
<1>1. PICK n \in B : \A m \in B : ~ (<<m, n>> \in OpToRel(<, Nat))
  BY NatLessThanWellFounded, WFMin
<1>2. ASSUME NEW m \in B, m < n PROVE FALSE
  <2>1. <<m, n>> \in OpToRel(<, Nat)
    BY <1>2 DEF OpToRel
  <2> QED BY <1>1, <2>1
<1> QED BY <1>2

LEMMA SubsetSizes ==
  ASSUME NEW S, IsFiniteSet(S), NEW s \in SUBSET S
  PROVE  /\ IsFiniteSet(s) /\ Cardinality(s) \in Nat
         /\ (Cardinality(s) = 0) <=> (s = {})
         /\ s # {} => /\ s \ {Chosen(s)} \in SUBSET S
                      /\ Cardinality(s \ {Chosen(s)}) = Cardinality(s) - 1
<1>1. IsFiniteSet(s)
  BY FS_Subset
<1>2. Cardinality(s) \in Nat /\ ((Cardinality(s) = 0) <=> (s = {}))
  BY <1>1, FS_CardinalityType, FS_EmptySet
<1>3. s # {} => Cardinality(s \ {Chosen(s)}) = Cardinality(s) - 1
  BY <1>1, ChosenIsMember, FS_RemoveElement
<1> QED BY <1>1, <1>2, <1>3

\* The sums of the subsets with at most n elements.
IsSumTo(g, f, S, n) ==
  \A s \in SUBSET S : Cardinality(s) <= n =>
     g[s] = IF s = {} THEN 0 ELSE f[Chosen(s)] + g[s \ {Chosen(s)}]

LEMMA SumsExist ==
  ASSUME NEW S, IsFiniteSet(S), NEW f, NEW n \in Nat
  PROVE  \E g : g = [s \in SUBSET S |-> g[s]] /\ IsSumTo(g, f, S, n)
<1> DEFINE Has(m) == \E g : g = [s \in SUBSET S |-> g[s]] /\ IsSumTo(g, f, S, m)
           B == {m \in Nat : ~ Has(m)}
<1>1. SUFFICES ASSUME B # {} PROVE FALSE
  OBVIOUS
<1>2. PICK m \in B : \A k \in B : ~ (k < m)
  BY <1>1, LeastNumber
<1>3. m # 0
  <2>1. SUFFICES ASSUME m = 0 PROVE FALSE
    OBVIOUS
  <2>2. PICK g : g = [s \in SUBSET S |-> 0]
    OBVIOUS
  <2>3. g = [s \in SUBSET S |-> g[s]]
    BY <2>2
  <2>4. ASSUME NEW s \in SUBSET S, Cardinality(s) <= 0 PROVE s = {} /\ g[s] = 0
    <3>1. Cardinality(s) \in Nat /\ ((Cardinality(s) = 0) <=> (s = {}))
      BY SubsetSizes
    <3>2. s = {}
      BY <2>4, <3>1
    <3> QED BY <2>2, <3>2
  <2>5. IsSumTo(g, f, S, 0)
    BY <2>4 DEF IsSumTo
  <2> QED BY <1>2, <2>1, <2>3, <2>5
<1>4. m - 1 \in Nat /\ m \in Nat /\ Has(m - 1)
  BY <1>2, <1>3
<1>5. PICK g : g = [s \in SUBSET S |-> g[s]] /\ IsSumTo(g, f, S, m - 1)
  BY <1>4
<1>6. PICK h : h = [s \in SUBSET S |-> IF Cardinality(s) <= m - 1 THEN g[s]
                                       ELSE f[Chosen(s)] + g[s \ {Chosen(s)}]]
  OBVIOUS
<1>7. ASSUME NEW s \in SUBSET S, Cardinality(s) <= m
      PROVE  h[s] = IF s = {} THEN 0 ELSE f[Chosen(s)] + h[s \ {Chosen(s)}]
  <2>1. CASE Cardinality(s) <= m - 1
    <3>1. h[s] = g[s]
      BY <1>6, <2>1
    <3>2. s # {} => h[s \ {Chosen(s)}] = g[s \ {Chosen(s)}]
      BY SubsetSizes, <1>4, <1>6, <2>1
    <3> QED BY <1>5, <2>1, <3>1, <3>2 DEF IsSumTo
  <2>2. CASE ~ (Cardinality(s) <= m - 1)
    <3>1. h[s] = f[Chosen(s)] + g[s \ {Chosen(s)}]
      BY <1>6, <2>2
    <3>2. s # {} /\ s \ {Chosen(s)} \in SUBSET S /\ Cardinality(s \ {Chosen(s)}) <= m - 1
      BY SubsetSizes, <1>4, <1>7, <2>2
    <3>3. h[s \ {Chosen(s)}] = g[s \ {Chosen(s)}]
      BY <1>6, <3>2
    <3> QED BY <3>1, <3>2, <3>3
  <2> QED BY <2>1, <2>2
<1>8. IsSumTo(h, f, S, m)
  BY <1>7 DEF IsSumTo
<1>9. h = [s \in SUBSET S |-> h[s]]
  BY <1>6
<1> QED BY <1>2, <1>8, <1>9

LEMMA SumExists ==
  ASSUME NEW S, IsFiniteSet(S), NEW f
  PROVE  \E g : IsSum(g, f, S)
<1>1. Cardinality(S) \in Nat
  BY FS_CardinalityType
<1>2. PICK g : g = [s \in SUBSET S |-> g[s]] /\ IsSumTo(g, f, S, Cardinality(S))
  BY <1>1, SumsExist
<1>3. \A s \in SUBSET S : Cardinality(s) <= Cardinality(S)
  BY FS_Subset
<1>4. \A s \in SUBSET S : g[s] = IF s = {} THEN 0 ELSE f[Chosen(s)] + g[s \ {Chosen(s)}]
  BY <1>2, <1>3 DEF IsSumTo
<1>5. g = [s \in SUBSET S |-> IF s = {} THEN 0 ELSE f[Chosen(s)] + g[s \ {Chosen(s)}]]
  BY <1>2, <1>4
<1> QED BY <1>5 DEF IsSum

LEMMA SumOfSubset ==
  ASSUME NEW g, NEW f, NEW S, IsSum(g, f, S), NEW s \in SUBSET S
  PROVE  /\ s = {} => g[s] = 0
         /\ s # {} => /\ Chosen(s) \in s /\ s \ {Chosen(s)} \in SUBSET S
                      /\ s \ {Chosen(s)} \subseteq s /\ s \ {Chosen(s)} # s
                      /\ g[s] = f[Chosen(s)] + g[s \ {Chosen(s)}]
<1>1. g = [r \in SUBSET S |-> IF r = {} THEN 0 ELSE f[Chosen(r)] + g[r \ {Chosen(r)}]]
  BY DEF IsSum
<1>2. g[s] = IF s = {} THEN 0 ELSE f[Chosen(s)] + g[s \ {Chosen(s)}]
  BY <1>1
<1> QED BY <1>2, ChosenIsMember

LEMMA SumStep ==
  ASSUME NEW g, NEW f, NEW S, IsSum(g, f, S)
  PROVE  \A s : s \subseteq S /\ s # {} => g[s] = f[Chosen(s)] + g[s \ {Chosen(s)}]
BY SumOfSubset

LEMMA SumIsNatural ==
  ASSUME NEW g, NEW f, NEW S, IsFiniteSet(S), IsSum(g, f, S), \A x \in S : f[x] \in Nat
  PROVE  \A s \in SUBSET S : g[s] \in Nat
<1> DEFINE B == {s \in SUBSET S : g[s] \notin Nat}
<1>1. SUFFICES ASSUME B # {} PROVE FALSE
  OBVIOUS
<1>2. PICK s \in B : \A t \in B : ~ (t \subseteq s /\ t # s)
  <2>1. B \subseteq SUBSET S
    OBVIOUS
  <2> HIDE DEF B
  <2> QED BY <1>1, <2>1, LeastSubset
<1>3. s # {} /\ Chosen(s) \in S /\ g[s] = f[Chosen(s)] + g[s \ {Chosen(s)}]
  BY <1>2, SumOfSubset
<1>4. g[s \ {Chosen(s)}] \in Nat
  BY <1>2, <1>3, SumOfSubset
<1> QED BY <1>2, <1>3, <1>4

\* Two sums agree on what they both add up.
LEMMA SumsAgree ==
  ASSUME NEW g, NEW f, NEW S, IsSum(g, f, S), NEW h, NEW e, NEW T, IsSum(h, e, T),
         NEW U, U \subseteq S, U \subseteq T, IsFiniteSet(U), \A x \in U : f[x] = e[x]
  PROVE  g[U] = h[U]
<1> DEFINE B == {s \in SUBSET U : g[s] # h[s]}
<1>1. SUFFICES ASSUME B # {} PROVE FALSE
  OBVIOUS
<1>2. PICK s \in B : \A t \in B : ~ (t \subseteq s /\ t # s)
  <2>1. B \subseteq SUBSET U
    OBVIOUS
  <2> HIDE DEF B
  <2> QED BY <1>1, <2>1, LeastSubset
<1>3. s \in SUBSET S /\ s \in SUBSET T /\ s \in SUBSET U /\ g[s] # h[s]
  BY <1>2
<1>4. s # {}
  BY <1>3, SumOfSubset
<1>5. s \subseteq S /\ s \subseteq T
  BY <1>3
<1>6. /\ g[s] = f[Chosen(s)] + g[s \ {Chosen(s)}] /\ h[s] = e[Chosen(s)] + h[s \ {Chosen(s)}]
      /\ Chosen(s) \in s /\ s \ {Chosen(s)} \subseteq s /\ s \ {Chosen(s)} # s
  <2> HIDE DEF B
  <2>1. \A r : r \subseteq S /\ r # {} => g[r] = f[Chosen(r)] + g[r \ {Chosen(r)}]
    <3>1. IsSum(g, f, S)
      OBVIOUS
    <3> QED BY ONLY <3>1, SumStep
  <2>2. \A r : r \subseteq T /\ r # {} => h[r] = e[Chosen(r)] + h[r \ {Chosen(r)}]
    <3>1. IsSum(h, e, T)
      OBVIOUS
    <3> QED BY ONLY <3>1, SumStep
  <2>3. Chosen(s) \in s
    BY <1>4, ChosenIsMember
  <2> QED BY <1>5, <1>4, <2>1, <2>2, <2>3
<1>7. g[s \ {Chosen(s)}] = h[s \ {Chosen(s)}] /\ f[Chosen(s)] = e[Chosen(s)]
  BY <1>2, <1>3, <1>6
<1> QED BY <1>3, <1>6, <1>7

\* Any member may be the one that is added last.
LEMMA SumSplits ==
  ASSUME NEW g, NEW f, NEW S, IsFiniteSet(S), IsSum(g, f, S), \A x \in S : f[x] \in Nat
  PROVE  \A s \in SUBSET S : \A x \in s : g[s] = f[x] + g[s \ {x}]
<1> DEFINE B == {s \in SUBSET S : \E x \in s : g[s] # f[x] + g[s \ {x}]}
<1>1. SUFFICES ASSUME B # {} PROVE FALSE
  OBVIOUS
<1>2. PICK s \in B : \A t \in B : ~ (t \subseteq s /\ t # s)
  <2>1. B \subseteq SUBSET S
    OBVIOUS
  <2> HIDE DEF B
  <2> QED BY <1>1, <2>1, LeastSubset
<1>3. PICK x \in s : g[s] # f[x] + g[s \ {x}]
  BY <1>2
<1> DEFINE y == Chosen(s)
<1>4. s \in SUBSET S /\ y \in s /\ g[s] = f[y] + g[s \ {y}]
  BY <1>2, <1>3, SumOfSubset
<1> HIDE DEF y
<1>5. x # y
  BY <1>3, <1>4
<1>6. g[s \ {y}] = f[x] + g[(s \ {y}) \ {x}]
  <2>1. s \ {y} \in SUBSET S /\ s \ {y} \subseteq s /\ s \ {y} # s /\ x \in s \ {y}
    BY <1>3, <1>4, <1>5
  <2> QED BY <1>2, <2>1
<1>7. g[s \ {x}] = f[y] + g[(s \ {x}) \ {y}]
  <2>1. s \ {x} \in SUBSET S /\ s \ {x} \subseteq s /\ s \ {x} # s /\ y \in s \ {x}
    BY <1>3, <1>4, <1>5
  <2> QED BY <1>2, <2>1
<1>8. (s \ {x}) \ {y} = (s \ {y}) \ {x}
  OBVIOUS
<1>9. f[x] \in Nat /\ f[y] \in Nat /\ g[(s \ {y}) \ {x}] \in Nat
  BY <1>3, <1>4, SumIsNatural
<1> DEFINE c == g[(s \ {y}) \ {x}]
<1>10. g[s] = f[y] + (f[x] + c) /\ g[s \ {x}] = f[y] + c
  BY <1>4, <1>6, <1>7, <1>8
<1>11. f[x] \in Nat /\ f[y] \in Nat /\ c \in Nat
  BY <1>9
<1> HIDE DEF c
<1> QED BY <1>3, <1>10, <1>11

LEMMA SumIsMonotone ==
  ASSUME NEW g, NEW f, NEW S, IsFiniteSet(S), IsSum(g, f, S), \A x \in S : f[x] \in Nat
  PROVE  \A s \in SUBSET S : \A t \in SUBSET s : g[t] <= g[s]
<1> DEFINE B == {s \in SUBSET S : \E t \in SUBSET s : ~ (g[t] <= g[s])}
<1>1. SUFFICES ASSUME B # {} PROVE FALSE
  OBVIOUS
<1>2. PICK s \in B : \A r \in B : ~ (r \subseteq s /\ r # s)
  <2>1. B \subseteq SUBSET S
    OBVIOUS
  <2> HIDE DEF B
  <2> QED BY <1>1, <2>1, LeastSubset
<1>3. PICK t \in SUBSET s : ~ (g[t] <= g[s])
  BY <1>2
<1>4. \A r \in SUBSET S : g[r] \in Nat
  BY SumIsNatural
<1>5. PICK x \in s : x \notin t
  <2>1. s \in SUBSET S /\ g[s] \in Nat
    BY <1>2, <1>4
  <2>2. t # s
    BY <1>3, <2>1
  <2> QED BY <2>2
<1>6. g[s] = f[x] + g[s \ {x}]
  BY <1>2, SumSplits
<1>7. g[t] <= g[s \ {x}]
  <2>1. s \ {x} \in SUBSET S /\ s \ {x} \subseteq s /\ s \ {x} # s /\ t \in SUBSET (s \ {x})
    BY <1>2, <1>3, <1>5
  <2> QED BY <1>2, <2>1
<1>8. g[t] \in Nat /\ g[s \ {x}] \in Nat /\ f[x] \in Nat
  BY <1>2, <1>3, <1>4
<1> QED BY <1>3, <1>6, <1>7, <1>8

-----------------------------------------------------------------------------
(* The files that count *)

FilesOf(ev, S) == MapThenSumSet(LAMBDA k : ev[k].file, S)
SizesOf(ev)    == [k \in Keys |-> ev[k].file]

\* The function the folds make of FilesOf.
IsFileSum(g, ev, S) ==
  g = [s \in SUBSET S |-> IF s = {} THEN 0 ELSE ev[Chosen(s)].file + g[s \ {Chosen(s)}]]

LEMMA FilesUnfold ==
  ASSUME NEW ev, NEW S
  PROVE  FilesOf(ev, S) = (CHOOSE g : IsFileSum(g, ev, S))[S]
BY DEF FilesOf, MapThenSumSet, MapThenFoldSet, IsFileSum, Chosen

LEMMA FileSumIsSum ==
  ASSUME NEW ev, NEW S, S \subseteq Keys, NEW g
  PROVE  IsFileSum(g, ev, S) <=> IsSum(g, SizesOf(ev), S)
<1>1. \A s \in SUBSET S : s # {} => ev[Chosen(s)].file = SizesOf(ev)[Chosen(s)]
  BY ChosenIsMember DEF SizesOf
<1>2. [s \in SUBSET S |-> IF s = {} THEN 0 ELSE ev[Chosen(s)].file + g[s \ {Chosen(s)}]]
        = [s \in SUBSET S |-> IF s = {} THEN 0 ELSE SizesOf(ev)[Chosen(s)] + g[s \ {Chosen(s)}]]
  BY <1>1
<1> QED BY <1>2 DEF IsFileSum, IsSum

LEMMA FilesAddUp ==
  ASSUME NEW ev, NEW S, S \subseteq Keys
  PROVE  /\ IsFiniteSet(S)
         /\ \E g : IsSum(g, SizesOf(ev), S) /\ FilesOf(ev, S) = g[S]
<1>1. IsFiniteSet(S)
  <2>1. MaxObjects \in Int /\ 1 \in Int
    BY EvidenceAssumption
  <2>2. IsFiniteSet(1..MaxObjects)
    BY <2>1, FS_Interval
  <2> QED BY <2>2, FS_Subset DEF Keys
<1>2. \E g : IsFileSum(g, ev, S)
  BY <1>1, SumExists, FileSumIsSum
<1>3. IsFileSum(CHOOSE g : IsFileSum(g, ev, S), ev, S)
  BY <1>2
<1>4. IsSum(CHOOSE g : IsFileSum(g, ev, S), SizesOf(ev), S)
  BY <1>3, FileSumIsSum
<1> QED BY <1>1, <1>4, FilesUnfold

LEMMA FilesAgree ==
  ASSUME NEW ev, NEW ew, NEW S, S \subseteq Keys, \A k \in S : ev[k].file = ew[k].file
  PROVE  FilesOf(ev, S) = FilesOf(ew, S)
<1>1. PICK g : IsSum(g, SizesOf(ev), S) /\ FilesOf(ev, S) = g[S]
  BY FilesAddUp
<1>2. PICK h : IsSum(h, SizesOf(ew), S) /\ FilesOf(ew, S) = h[S]
  BY FilesAddUp
<1>3. \A k \in S : SizesOf(ev)[k] = SizesOf(ew)[k]
  BY DEF SizesOf
<1>4. g[S] = h[S]
  BY <1>1, <1>2, <1>3, FilesAddUp, SumsAgree
<1> QED BY <1>1, <1>2, <1>4

LEMMA FilesFit ==
  ASSUME NEW ev, NEW S, NEW T, S \subseteq T, T \subseteq Keys, \A k \in T : ev[k].file \in Nat
  PROVE  FilesOf(ev, S) <= FilesOf(ev, T) /\ FilesOf(ev, S) \in Nat /\ FilesOf(ev, T) \in Nat
<1>1. PICK g : IsSum(g, SizesOf(ev), S) /\ FilesOf(ev, S) = g[S]
  BY FilesAddUp
<1>2. PICK h : IsSum(h, SizesOf(ev), T) /\ FilesOf(ev, T) = h[T]
  BY FilesAddUp
<1>3. IsFiniteSet(S) /\ IsFiniteSet(T) /\ \A k \in T : SizesOf(ev)[k] \in Nat
  BY FilesAddUp DEF SizesOf
<1>4. g[S] = h[S]
  BY <1>1, <1>2, <1>3, SumsAgree
<1>5. h[S] <= h[T]
  BY <1>2, <1>3, SumIsMonotone
<1>6. h[S] \in Nat /\ h[T] \in Nat
  BY <1>2, <1>3, SumIsNatural
<1> QED BY <1>1, <1>2, <1>4, <1>5, <1>6

AcceptedFit == FilesOf(evidence, accepted) <= Quota

LEMMA SumsAreFiles ==
  /\ AcceptedWithinQuota <=> AcceptedFit
  /\ OverQuota <=> FilesOf(evidence, Rows) > Quota
<1>1. AcceptedWithinQuota <=> AcceptedFit
  BY Zenon DEF AcceptedWithinQuota, AcceptedFit, FilesOf
<1>2. OverQuota <=> FilesOf(evidence, Rows) > Quota
  BY Zenon DEF OverQuota, Usage, FilesOf
<1> QED BY <1>1, <1>2

LEMMA InitQuota == EvidenceInit => AcceptedFit
<1> SUFFICES ASSUME EvidenceInit PROVE FilesOf(evidence, {}) <= Quota
  BY DEF AcceptedFit, EvidenceInit
<1>1. PICK g : IsSum(g, SizesOf(evidence), {}) /\ FilesOf(evidence, {}) = g[{}]
  BY FilesAddUp
<1>2. g[{}] = 0
  BY <1>1, SumOfSubset
<1> QED BY <1>1, <1>2, EvidenceAssumption

\* No step changes the file of an accepted row, and only a recheck accepts one.
LEMMA AcceptedFilesStay ==
  ASSUME EvidenceInv, [EvidenceNext]_evidenceVars
  PROVE  /\ \A k \in accepted : evidence'[k].file = evidence[k].file
         /\ accepted' = accepted \/ \E u \in Uploads : RecheckQuota(u)
<1>1. accepted \subseteq Keys /\ \A k \in accepted : evidence[k] # NoItem
  BY DEF EvidenceInv, EvidenceTypeOK, Rows
<1>2. ASSUME NEW u \in Uploads, InsertRow(u) \/ InsertFails(u) \/ EvictRow(u)
      PROVE  /\ accepted' = accepted
             /\ \A k \in accepted : evidence'[k] = evidence[k]
  <2>1. HeldOK(u) /\ upload[u].key \notin accepted
    BY <1>1, <1>2 DEF EvidenceInv, EvidenceTypeOK, Rows, HeldOK, InsertRow, InsertFails, EvictRow
  <2> QED BY <1>1, <1>2, <2>1 DEF InsertRow, InsertFails, CommitRow, EvictRow, EvidenceInv, EvidenceTypeOK
<1>3. ASSUME NEW k \in Keys, ArchiveEvidence(k)
      PROVE  accepted' = accepted /\ \A j \in accepted : evidence'[j].file = evidence[j].file
  <2>1. evidence[k] \in [file : Files, status : {"ACTIVE", "ARCHIVED"}]
    BY <1>3 DEF ArchiveEvidence, EvidenceInv, EvidenceTypeOK, NoItem
  <2> QED BY <1>1, <1>3, <2>1 DEF ArchiveEvidence, EvidenceInv, EvidenceTypeOK
<1>4. CASE UNCHANGED <<evidence, accepted>>
  BY <1>4
<1>5. ASSUME NEW u \in Uploads, RecheckQuota(u) PROVE evidence' = evidence
  BY <1>5 DEF RecheckQuota
<1> QED BY <1>2, <1>3, <1>4, <1>5
     DEF EvidenceNext, evidenceVars, BeginUpload, CheckQuota, Dedupe, PutObject, PutFails,
         InsertFails, Compensate, UploadStops, LockOrReopen, ListOrphans, DeleteOrphan

LEMMA NextQuota ==
  ASSUME EvidenceInv, AcceptedFit, [EvidenceNext]_evidenceVars
  PROVE  AcceptedFit'
<1>1. accepted \subseteq Rows /\ Rows \subseteq Keys
  BY DEF EvidenceInv, EvidenceTypeOK, Rows
<1>2. FilesOf(evidence', accepted) = FilesOf(evidence, accepted)
  BY <1>1, AcceptedFilesStay, FilesAgree
<1>3. CASE accepted' = accepted
  BY <1>2, <1>3 DEF AcceptedFit
<1>4. ASSUME NEW u \in Uploads, RecheckQuota(u), accepted' # accepted
      PROVE  AcceptedFit'
  <2>1. ~ OverQuota /\ accepted' = accepted \cup {upload[u].key} /\ evidence' = evidence
    BY <1>4 DEF RecheckQuota
  <2>2. upload[u].key \in Rows
    BY <1>4, EvidenceAssumption DEF RecheckQuota, EvidenceInv, EvidenceTypeOK, HeldOK, Holding, Rows, Keys
  <2>3. \A k \in Rows : evidence[k].file \in Nat
    BY EvidenceAssumption DEF EvidenceInv, EvidenceTypeOK, Rows
  <2>4. accepted' \subseteq Rows
    BY <1>1, <2>1, <2>2
  <2>5. /\ FilesOf(evidence, accepted') <= FilesOf(evidence, Rows)
        /\ FilesOf(evidence, accepted') \in Nat /\ FilesOf(evidence, Rows) \in Nat
    BY <1>1, <2>3, <2>4, FilesFit
  <2>6. ~ (FilesOf(evidence, Rows) > Quota)
    BY <2>1, SumsAreFiles
  <2>7. FilesOf(evidence', accepted') <= Quota
    BY <2>1, <2>5, <2>6, EvidenceAssumption
  <2> QED BY <2>7 DEF AcceptedFit
<1> QED BY <1>3, <1>4, AcceptedFilesStay

\* The files answered as saved never exceed the quota: the sum taken after the commit
\* counts every row that is accepted, the rows still under way beside them, and sizes
\* are natural numbers, so no part of a sum that fits exceeds the quota.
THEOREM AcceptedFitsQuota == EvidenceSpec => []AcceptedWithinQuota
<1>1. EvidenceInit => AcceptedFit
  BY InitQuota
<1>2. EvidenceInv /\ AcceptedFit /\ [EvidenceNext]_evidenceVars => AcceptedFit'
  BY NextQuota
<1>3. AcceptedFit => AcceptedWithinQuota
  BY SumsAreFiles
<1> QED BY <1>1, <1>2, <1>3, EvidenceInvAlways, PTL DEF EvidenceSpec
=============================================================================
