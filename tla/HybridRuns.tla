----------------------------- MODULE HybridRuns ------------------------------
(***************************************************************************)
(* Hybrid runs of QA Again: a runner executes, stops at a checkpoint, a    *)
(* human releases it or ends the run (routers/hybrid.py).                  *)
(*                                                                         *)
(* Every handler loads the run, tests its status and commits: two steps,   *)
(* with the commits of others between them. The session writes a status    *)
(* only when it differs from the one it loaded. A runner makes one request *)
(* after the other.                                                        *)
(***************************************************************************)
CONSTANTS
  Runs,
  Humans      \* users who may decide at one time

VARIABLES
  run,         \* HybridRun.status
  released,    \* is there a HybridCheckpointDecision PASS since it was last sent to wait?
  runner,      \* what the runner's request loaded and will write
  human        \* what each user's decision loaded and will write

hybridVars == <<run, released, runner, human>>

TERMINAL_STATUSES == {"PASSED", "FAILED", "BLOCKED", "NOT_APPLICABLE", "CANCELLED"}
CheckpointDecisions == {"PASS", "FAIL", "BLOCKED", "NOT_APPLICABLE"}
DecisionToStatus(d) ==
  CASE d = "PASS" -> "RESUMING" [] d = "FAIL" -> "FAILED" [] OTHER -> d

Request == [run : Runs, loaded : {"RUNNING", "WAITING_FOR_HUMAN", "RESUMING"},
            does : {"event", "wait", "finish"}]
Choice  == [run : Runs, decision : CheckpointDecisions]
NoRequest    == [does |-> "nothing"]

HybridInit ==
  /\ run       = [r \in Runs |-> "NONE"]
  /\ released  = [r \in Runs |-> FALSE]
  /\ runner    = [r \in Runs |-> NoRequest]
  /\ human     = [h \in Humans |-> NoRequest]

-----------------------------------------------------------------------------
(* The runner *)

CreateRun(r) ==
  /\ run[r] = "NONE"
  /\ run' = [run EXCEPT ![r] = "RUNNING"]
  /\ UNCHANGED <<released, runner, human>>

\* post_event, and update_provenance, which tests and keeps the status like an event.
LoadForEvent(r) ==
  /\ runner[r] = NoRequest
  /\ run[r] \notin TERMINAL_STATUSES \cup {"NONE"}
  /\ \E does \in {"event", "wait"} :
       runner' = [runner EXCEPT ![r] = [run |-> r, loaded |-> run[r], does |-> does]]
  /\ UNCHANGED <<run, released, human>>

\* Mutant: the status is written whatever was loaded.
AlwaysWritten(q) == TRUE

WritesWaiting(q) == q.loaded # "WAITING_FOR_HUMAN"

CommitEvent(r) ==
  LET q == runner[r] IN
  /\ q.does \in {"event", "wait"}
  /\ IF q.does = "wait" /\ WritesWaiting(q)
     THEN /\ run'      = [run EXCEPT ![r] = "WAITING_FOR_HUMAN"]
          /\ released' = [released EXCEPT ![r] = FALSE]
     ELSE UNCHANGED <<run, released>>
  /\ runner' = [runner EXCEPT ![r] = NoRequest]
  /\ UNCHANGED human

\* Mutant: a run that still waits may be finished.
NotEnded(status) == status \notin TERMINAL_STATUSES \cup {"NONE", "RUNNING"}

Finishable(status) == status = "RESUMING"

LoadForFinish(r) ==
  /\ runner[r] = NoRequest
  /\ Finishable(run[r])
  /\ runner' = [runner EXCEPT ![r] = [run |-> r, loaded |-> run[r], does |-> "finish"]]
  /\ UNCHANGED <<run, released, human>>

CommitFinish(r) ==
  /\ runner[r].does = "finish"
  /\ run'    = [run EXCEPT ![r] = "PASSED"]
  /\ runner' = [runner EXCEPT ![r] = NoRequest]
  /\ UNCHANGED <<released, human>>

\* The request fails, or its process stops, before the commit.
RequestLost(r) ==
  /\ runner[r] # NoRequest
  /\ runner' = [runner EXCEPT ![r] = NoRequest]
  /\ UNCHANGED <<run, released, human>>

-----------------------------------------------------------------------------
(* decide_checkpoint *)

LoadForDecision(h) ==
  /\ human[h] = NoRequest
  /\ \E r \in Runs, d \in CheckpointDecisions :
       /\ run[r] = "WAITING_FOR_HUMAN"
       /\ human' = [human EXCEPT ![h] = [run |-> r, decision |-> d]]
  /\ UNCHANGED <<run, released, runner>>

CommitDecision(h) ==
  /\ human[h] # NoRequest
  /\ LET r == human[h].run  d == human[h].decision IN
     /\ run'      = [run EXCEPT ![r] = DecisionToStatus(d)]
     /\ released' = [released EXCEPT ![r] = @ \/ d = "PASS"]
  /\ human' = [human EXCEPT ![h] = NoRequest]
  /\ UNCHANGED runner

DecisionLost(h) ==
  /\ human[h] # NoRequest
  /\ human' = [human EXCEPT ![h] = NoRequest]
  /\ UNCHANGED <<run, released, runner>>

HybridNext ==
  \/ \E r \in Runs :
       \/ CreateRun(r) \/ LoadForEvent(r) \/ CommitEvent(r)
       \/ LoadForFinish(r) \/ CommitFinish(r) \/ RequestLost(r)
  \/ \E h \in Humans : LoadForDecision(h) \/ CommitDecision(h) \/ DecisionLost(h)

HybridSpec == HybridInit /\ [][HybridNext]_hybridVars

-----------------------------------------------------------------------------
(* Properties *)

HybridTypeOK ==
  /\ run \in [Runs -> {"NONE", "RUNNING", "WAITING_FOR_HUMAN", "RESUMING"} \cup TERMINAL_STATUSES]
  /\ released \in [Runs -> BOOLEAN]
  /\ runner \in [Runs -> {NoRequest} \cup Request]
  /\ human \in [Humans -> {NoRequest} \cup Choice]

\* A run resumes or passes only on a human's PASS recorded since the run was last
\* sent to wait at a checkpoint (finish_run: it can never turn a decision that is
\* not a PASS into one).
PassIsReleased == \A r \in Runs : run[r] \in {"RESUMING", "PASSED"} => released[r]

\* A run that ended stays as it ended, although the request of its runner may have loaded
\* it before a human ended it and commits afterwards (hybrid.py:194). One user decides at
\* a time.
EndIsFinal == [][\A r \in Runs : run[r] \in TERMINAL_STATUSES => run'[r] = run[r]]_hybridVars
=============================================================================
