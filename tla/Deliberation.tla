---------------------------- MODULE Deliberation ----------------------------
(***************************************************************************)
(* One deliberation case of Conductor Again, from its panel to its         *)
(* decision (routers/deliberation.py).                                     *)
(*                                                                         *)
(* A handler loads the case, may wait for a language model, reads the      *)
(* panel and commits; the session flushes nothing before the commit, so it *)
(* sees its own member's flag and the committed ones of the others. A      *)
(* status is written when it differs from the one loaded.                  *)
(***************************************************************************)
EXTENDS Naturals, FiniteSets, FiniteSetsExt

CONSTANTS
  Members,          \* the panel of the case
  Sessions,         \* requests that are served at one time
  MaxSubmissions    \* bound on the submissions of one member

ASSUME MembersAssumption == MaxSubmissions \in Nat

VARIABLES
  deliberation,   \* DeliberationCase.status
  hasSubmitted,   \* PanelMember.has_submitted
  submissions,    \* how many IndependentSubmission rows a member has
  session         \* what a request has read and is about to do

deliberationVars == <<deliberation, hasSubmitted, submissions, session>>

\* Of the statuses in which a case takes submissions, independent_round is never set.
OpenForSubmissions == {"panel_selected"}
LaterRounds == {"independent_complete", "blind_review", "private_revision", "decided"}

SessionJob ==
  [does : {"answer"},        member : Members]
    \cup [does : {"submit"}, member : Members, last : BOOLEAN]
    \cup [does : {"move"},   loaded : OpenForSubmissions \cup LaterRounds, to : LaterRounds]
NoSession == [does |-> "nothing"]

DeliberationInit ==
  /\ deliberation = "none"
  /\ hasSubmitted = [m \in Members |-> FALSE]
  /\ submissions  = [m \in Members |-> 0]
  /\ session      = [s \in Sessions |-> NoSession]

Opens(s, job) ==
  /\ session[s] = NoSession
  /\ session' = [session EXCEPT ![s] = job]
  /\ UNCHANGED <<deliberation, hasSubmitted, submissions>>

StartDeliberation ==
  /\ deliberation = "none"
  /\ deliberation' = "panel_selected"
  /\ UNCHANGED <<hasSubmitted, submissions, session>>

-----------------------------------------------------------------------------
(* The independent round *)

\* submit_independent takes the answer of a member who has submitted before.
BeginSubmission(s, m) ==
  /\ deliberation \in OpenForSubmissions
  /\ Opens(s, [does |-> "answer", member |-> m])

\* generate_independent_submission does not; the model answers while it waits.
BeginGenerate(s, m) ==
  /\ deliberation \in OpenForSubmissions
  /\ ~hasSubmitted[m]
  /\ Opens(s, [does |-> "answer", member |-> m])

\* Mutant: the submissions are counted, not the members who made one.
EnoughRows(m) ==
  1 + MapThenSumSet(LAMBDA x : submissions[x], Members) >= Cardinality(Members)

AllSubmitted(m) == \A other \in Members \ {m} : hasSubmitted[other]

ReadPanel(s) ==
  /\ session[s].does = "answer"
  /\ LET m == session[s].member IN
     session' = [session EXCEPT ![s] =
                   [does |-> "submit", member |-> m, last |-> AllSubmitted(m)]]
  /\ UNCHANGED <<deliberation, hasSubmitted, submissions>>

CommitSubmission(s) ==
  /\ session[s].does = "submit"
  /\ LET m == session[s].member IN
     /\ submissions[m] < MaxSubmissions
     /\ submissions'  = [submissions EXCEPT ![m] = @ + 1]
     /\ hasSubmitted' = [hasSubmitted EXCEPT ![m] = TRUE]
     /\ deliberation' = IF session[s].last THEN "independent_complete" ELSE deliberation
  /\ session' = [session EXCEPT ![s] = NoSession]

-----------------------------------------------------------------------------
(* The later rounds *)

\* submit_critique leaves a case that is complete or under review as it is.
BeginCritique(s) ==
  /\ deliberation \notin {"none", "independent_complete", "blind_review"}
  /\ Opens(s, [does |-> "move", loaded |-> deliberation, to |-> "blind_review"])

\* submit_revision asks for a submission, which may be another case's.
BeginRevision(s) ==
  /\ deliberation # "none"
  /\ Opens(s, [does |-> "move", loaded |-> deliberation, to |-> "private_revision"])

BeginDecision(s) ==
  /\ deliberation # "none"
  /\ Opens(s, [does |-> "move", loaded |-> deliberation, to |-> "decided"])

CommitMove(s) ==
  /\ session[s].does = "move"
  /\ deliberation' = IF session[s].loaded # session[s].to THEN session[s].to
                                                          ELSE deliberation
  /\ session' = [session EXCEPT ![s] = NoSession]
  /\ UNCHANGED <<hasSubmitted, submissions>>

\* The model fails (502), the request is refused, or the machine stops.
SessionFails(s) ==
  /\ session[s] # NoSession
  /\ session' = [session EXCEPT ![s] = NoSession]
  /\ UNCHANGED <<deliberation, hasSubmitted, submissions>>

DeliberationNext ==
  \/ StartDeliberation
  \/ \E s \in Sessions, m \in Members : BeginSubmission(s, m) \/ BeginGenerate(s, m)
  \/ \E s \in Sessions :
       \/ ReadPanel(s) \/ CommitSubmission(s)
       \/ BeginCritique(s) \/ BeginRevision(s) \/ BeginDecision(s) \/ CommitMove(s)
       \/ SessionFails(s)

DeliberationSpec == DeliberationInit /\ [][DeliberationNext]_deliberationVars

-----------------------------------------------------------------------------
(* Properties *)

DeliberationTypeOK ==
  /\ deliberation \in {"none"} \cup OpenForSubmissions \cup LaterRounds
  /\ hasSubmitted \in [Members -> BOOLEAN]
  /\ submissions \in [Members -> 0..MaxSubmissions]
  /\ session \in [Sessions -> SessionJob \cup {NoSession}]

\* The independent round is called complete only when every member of the panel has a
\* submission - not when there are as many submissions as members, of which one member
\* may have made several, and however the members' requests overlap.
CompleteWhenAllSubmitted ==
  deliberation = "independent_complete" =>
    \A m \in Members : hasSubmitted[m] /\ submissions[m] > 0
=============================================================================
