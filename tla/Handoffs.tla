------------------------------ MODULE Handoffs -------------------------------
(***************************************************************************)
(* A design handoff on its way: Document Again keeps it and delivers it to *)
(* Conductor Again (services.py: deliver_handoff_to_conductor), Conductor  *)
(* relays it (routers/document_handoff.py), PM Again registers it and      *)
(* plans it in a project (ecosystem/intake_service.py, mapping_service.py).*)
(* Each service has its own database and no transaction spans two of them. *)
(*                                                                         *)
(* A courier is one delivery: a request of Document Again, the request it  *)
(* makes to Conductor and the one Conductor makes to PM Again. A service   *)
(* that waits may give up (Document after 15 s, Conductor after 30) or     *)
(* stop while the one it called goes on.                                   *)
(*                                                                         *)
(* The handoffs are EXECUTION handoffs of one Document Again project, so   *)
(* of one business intent. What QA Again does with the other kind is       *)
(* module QaIntake.                                                        *)
(***************************************************************************)
EXTENDS Naturals

CONSTANTS
  Handoffs,      \* their ids
  Couriers,      \* how many deliveries may be on their way
  Stamps,        \* values of createdAt that a relayed package may carry
  MaxProjects    \* bound: projects of PM Again

ASSUME MaxProjectsAssumption == MaxProjects \in Nat \ {0}

VARIABLES
  handoff,   \* Document Again's ExecutionHandoff rows
  relayed,   \* Conductor Again's DocumentHandoff rows, by handoff_id
  work,      \* PM Again's ExternalWorkReference rows of work packages, by handoff
  intent,    \* PM Again's ExternalWorkReference row of the business intent
  projects,  \* how many projects PM Again has; they are numbered by slug
  planned,   \* the projects whose file has the tasks of a handoff
  courier

pmRows      == <<work, intent, projects, planned>>
handoffRows == <<handoff, relayed, pmRows>>
handoffVars == <<handoffRows, courier>>

-----------------------------------------------------------------------------
(* Rows *)

NoRow == [status |-> "NONE"]

HandoffRow == [status : {"NEW", "QUEUED", "ACKNOWLEDGED", "FAILED"}, reference : BOOLEAN]
RelayRow   == [status : {"QUEUED", "ACKNOWLEDGED", "FAILED"}, reference : BOOLEAN]
WorkRow    == [status : {"RECEIVED", "MAPPED"}, stamp : Stamps, project : 0..MaxProjects]
IntentRow  == [status : {"RECEIVED", "MAPPED"}, project : 0..MaxProjects]

\* deliver, relay, pm: what the delivery does next in each service; held, found: the
\* status Document Again's and Conductor's sessions loaded; stamp, project: what the
\* request of PM Again has in hand; answer, pmAnswer: what came back.
Courier ==
  [handoff  : Handoffs \cup {"NONE"},
   deliver  : {"idle", "queue", "wait"},
   held     : {"NONE", "NEW", "QUEUED", "FAILED"},
   relay    : {"idle", "lookup", "insert", "dispatch", "wait"},
   found    : {"NONE", "QUEUED", "FAILED"},
   pm       : {"idle", "lookup", "register", "project", "create",
              "find_intent", "record", "attach", "plan", "map"},
   stamp    : Stamps \cup {"NONE"},
   project  : 0..MaxProjects,
   answer   : {"NONE", "error", "reference", "no_reference"},
   pmAnswer : {"NONE", "error", "refused", "reference"}]

NoCourier ==
  [handoff |-> "NONE", deliver |-> "idle", held |-> "NONE", relay |-> "idle", found |-> "NONE",
   pm |-> "idle", stamp |-> "NONE", project |-> 0, answer |-> "NONE", pmAnswer |-> "NONE"]

\* A delivery is over when no service works on it; an answer nobody waits for is lost.
Tidy(j) ==
  IF j.deliver = "idle" /\ j.relay = "idle" /\ j.pm = "idle" THEN NoCourier
  ELSE [j EXCEPT !.answer   = IF j.deliver = "wait" THEN @ ELSE "NONE",
                 !.pmAnswer = IF j.relay = "wait" THEN @ ELSE "NONE"]

Go(c, j)         == courier' = [courier EXCEPT ![c] = Tidy(j)]
LeaveDeliver(c, j) == Go(c, [j EXCEPT !.deliver = "idle", !.held = "NONE"])
Answer(c, a)     == Go(c, [courier[c] EXCEPT !.relay = "idle", !.found = "NONE", !.answer = a])
PmAnswers(c, a)  == Go(c, [courier[c] EXCEPT !.pm = "idle", !.stamp = "NONE", !.project = 0,
                                             !.pmAnswer = a])

HandoffInit ==
  /\ handoff  = [h \in Handoffs |-> NoRow]
  /\ relayed  = [h \in Handoffs |-> NoRow]
  /\ work     = [h \in Handoffs |-> NoRow]
  /\ intent   = NoRow
  /\ projects = 0
  /\ planned  = [h \in Handoffs |-> {}]
  /\ courier  = [c \in Couriers |-> NoCourier]

-----------------------------------------------------------------------------
(* Document Again *)

\* create_execution_handoff: READY or DRAFT, which nothing tells apart. Its event
\* waits in the outbox, which nothing empties.
CreateHandoff(h) ==
  /\ handoff[h] = NoRow
  /\ handoff' = [handoff EXCEPT ![h] = [status |-> "NEW", reference |-> FALSE]]
  /\ UNCHANGED <<relayed, pmRows, courier>>

Deliverable(h) == handoff[h].status \notin {"NONE", "ACKNOWLEDGED"}

BeginDeliver(c) ==
  /\ courier[c] = NoCourier
  /\ \E h \in Handoffs :
       /\ Deliverable(h)
       /\ Go(c, [NoCourier EXCEPT !.handoff = h, !.deliver = "queue", !.held = handoff[h].status])
  /\ UNCHANGED handoffRows

\* QUEUED is written unless the session loaded a row that was QUEUED already.
Queue(c) ==
  LET j == courier[c] IN
  /\ j.deliver = "queue"
  /\ handoff' = IF j.held = "QUEUED" THEN handoff
                ELSE [handoff EXCEPT ![j.handoff].status = "QUEUED"]
  /\ Go(c, [j EXCEPT !.deliver = "wait", !.held = "QUEUED", !.relay = "lookup"])
  /\ UNCHANGED <<relayed, pmRows>>

\* A refusal, no answer within 15 s, no service token.
DeliverFails(c) ==
  LET j == courier[c] IN
  /\ j.deliver = "wait"
  /\ j.answer \in {"NONE", "error"}
  /\ handoff' = [handoff EXCEPT ![j.handoff].status = "FAILED"]
  /\ LeaveDeliver(c, j)
  /\ UNCHANGED <<relayed, pmRows>>

\* Any 2xx answer: ACKNOWLEDGED, with the reference if it brings one.
DeliverAcknowledged(c) ==
  LET j == courier[c] IN
  /\ j.deliver = "wait"
  /\ j.answer \in {"reference", "no_reference"}
  /\ handoff' = [handoff EXCEPT ![j.handoff] =
       [status |-> "ACKNOWLEDGED", reference |-> @.reference \/ j.answer = "reference"]]
  /\ LeaveDeliver(c, j)
  /\ UNCHANGED <<relayed, pmRows>>

-----------------------------------------------------------------------------
(* Conductor Again: accept_document_handoff *)

RelayLookup(c) ==
  LET j == courier[c]  row == relayed[j.handoff] IN
  /\ j.relay = "lookup"
  /\ CASE row = NoRow           -> Go(c, [j EXCEPT !.relay = "insert"])
       [] row.status = "FAILED" -> Go(c, [j EXCEPT !.relay = "dispatch", !.found = "FAILED"])
       [] OTHER -> Answer(c, IF row.reference THEN "reference" ELSE "no_reference")
  /\ UNCHANGED handoffRows

\* handoff_id is unique: the second of two first deliveries is answered 500.
RelayInsert(c) ==
  LET j == courier[c]  h == j.handoff IN
  /\ j.relay = "insert"
  /\ IF relayed[h] # NoRow THEN Answer(c, "error") /\ UNCHANGED relayed
     ELSE /\ relayed' = [relayed EXCEPT ![h] = [status |-> "QUEUED", reference |-> FALSE]]
          /\ Go(c, [j EXCEPT !.relay = "dispatch", !.found = "QUEUED"])
  /\ UNCHANGED <<handoff, pmRows>>

\* _map_execution stamps the package with the time of this attempt.
Dispatch(c) ==
  LET j == courier[c] IN
  /\ j.relay = "dispatch"
  /\ j.pm = "idle"
  /\ \E s \in Stamps : Go(c, [j EXCEPT !.relay = "wait", !.pm = "lookup", !.stamp = s])
  /\ UNCHANGED handoffRows

\* Mutant: FAILED is written whatever the session loaded.
AlwaysFailed(c) == TRUE

\* The ORM writes FAILED only over a status it loaded as something else.
FailedIsNews(c) == courier[c].found # "FAILED"

\* No token, no answer within 30 s, an error or a 409 of PM Again.
DispatchFails(c) ==
  LET j == courier[c] IN
  /\ \/ j.relay = "dispatch"
     \/ j.relay = "wait" /\ j.pmAnswer \in {"NONE", "error", "refused"}
  /\ relayed' = IF FailedIsNews(c) THEN [relayed EXCEPT ![j.handoff].status = "FAILED"]
                                   ELSE relayed
  /\ Answer(c, "error")
  /\ UNCHANGED <<handoff, pmRows>>

\* Mutant: the relay acknowledges what it has only sent.
Sent(c) == courier[c].relay = "wait"

Taken(c) == courier[c].relay = "wait" /\ courier[c].pmAnswer = "reference"

Dispatched(c) ==
  /\ Taken(c)
  /\ relayed' = [relayed EXCEPT ![courier[c].handoff] =
       [status |-> "ACKNOWLEDGED", reference |-> TRUE]]
  /\ Answer(c, "reference")
  /\ UNCHANGED <<handoff, pmRows>>

-----------------------------------------------------------------------------
(* PM Again: record_external_work, intake_delivery_work_package *)

\* The same key with another payload, createdAt included, is a conflict (409).
PmLookup(c) ==
  LET j == courier[c]  row == work[j.handoff] IN
  /\ j.pm = "lookup"
  /\ CASE row = NoRow          -> Go(c, [j EXCEPT !.pm = "register"])
       [] row # NoRow /\ row.stamp = j.stamp -> PmAnswers(c, "reference")
       [] OTHER                -> PmAnswers(c, "refused")
  /\ UNCHANGED handoffRows

WorkKeyFree(h) == work[h] = NoRow

PmRegister(c) ==
  LET j == courier[c]  h == j.handoff IN
  /\ j.pm = "register"
  /\ IF ~WorkKeyFree(h) THEN PmAnswers(c, "error") /\ UNCHANGED work
     ELSE /\ work' = [work EXCEPT ![h] = [status |-> "RECEIVED", stamp |-> j.stamp, project |-> 0]]
          /\ Go(c, [j EXCEPT !.pm = "project"])
  /\ UNCHANGED <<handoff, relayed, intent, projects, planned>>

\* _find_or_create_project: the linked project, or the first free slug for a new one.
PmProject(c) ==
  LET j == courier[c] IN
  /\ j.pm = "project"
  /\ IF intent # NoRow /\ intent.project # 0
     THEN Go(c, [j EXCEPT !.pm = "plan", !.project = intent.project])
     ELSE /\ projects < MaxProjects
          /\ Go(c, [j EXCEPT !.pm = "create", !.project = projects + 1])
  /\ UNCHANGED handoffRows

\* The slug is unique.
PmCreate(c) ==
  LET j == courier[c] IN
  /\ j.pm = "create"
  /\ IF j.project <= projects THEN PmAnswers(c, "error") /\ UNCHANGED projects
     ELSE projects' = j.project /\ Go(c, [j EXCEPT !.pm = "find_intent"])
  /\ UNCHANGED <<handoff, relayed, work, intent, planned>>

\* The intent's own row: its key is looked up, inserted, and unique.
PmFindIntent(c) ==
  LET j == courier[c] IN
  /\ j.pm = "find_intent"
  /\ Go(c, [j EXCEPT !.pm = IF intent = NoRow THEN "record" ELSE "attach"])
  /\ UNCHANGED handoffRows

PmRecord(c) ==
  LET j == courier[c] IN
  /\ j.pm = "record"
  /\ IF intent # NoRow THEN PmAnswers(c, "error") /\ UNCHANGED intent
     ELSE /\ intent' = [status |-> "RECEIVED", project |-> 0]
          /\ Go(c, [j EXCEPT !.pm = "attach"])
  /\ UNCHANGED <<handoff, relayed, work, projects, planned>>

PmAttach(c) ==
  LET j == courier[c] IN
  /\ j.pm = "attach"
  /\ intent' = [status |-> "MAPPED", project |-> j.project]
  /\ Go(c, [j EXCEPT !.pm = "plan"])
  /\ UNCHANGED <<handoff, relayed, work, projects, planned>>

\* Mutant: the reference is mapped before its tasks are committed.
PlannedNowhere(j) == planned

PlannedIn(j) == [planned EXCEPT ![j.handoff] = @ \cup {j.project}]

PmPlan(c) ==
  LET j == courier[c] IN
  /\ j.pm = "plan"
  /\ planned' = PlannedIn(j)
  /\ Go(c, [j EXCEPT !.pm = "map"])
  /\ UNCHANGED <<handoff, relayed, work, intent, projects>>

PmMap(c) ==
  LET j == courier[c]  h == j.handoff IN
  /\ j.pm = "map"
  /\ work' = [work EXCEPT ![h] = [@ EXCEPT !.status = "MAPPED", !.project = j.project]]
  /\ PmAnswers(c, "reference")
  /\ UNCHANGED <<handoff, relayed, intent, projects, planned>>

\* Packages of the same intent that are none of Handoffs, taken by the same code: each
\* may create a project, record the intent's row and move it to its project.
OtherPackage ==
  /\ \/ projects < MaxProjects /\ projects' = projects + 1 /\ UNCHANGED intent
     \/ intent = NoRow /\ intent' = [status |-> "RECEIVED", project |-> 0] /\ UNCHANGED projects
     \/ /\ intent # NoRow
        /\ \E p \in 1..projects : intent' = [status |-> "MAPPED", project |-> p]
        /\ UNCHANGED projects
  /\ UNCHANGED <<handoff, relayed, work, planned, courier>>

-----------------------------------------------------------------------------
(* A machine stops: its requests are gone, the others go on. *)

DocumentStops ==
  /\ courier' = [c \in Couriers |->
       Tidy([courier[c] EXCEPT !.deliver = "idle", !.held = "NONE"])]
  /\ UNCHANGED handoffRows

ConductorStops ==
  /\ courier' = [c \in Couriers |->
       Tidy([courier[c] EXCEPT !.relay = "idle", !.found = "NONE"])]
  /\ UNCHANGED handoffRows

PmStops ==
  /\ courier' = [c \in Couriers |->
       Tidy([courier[c] EXCEPT !.pm = "idle", !.stamp = "NONE", !.project = 0])]
  /\ UNCHANGED handoffRows

HandoffNext ==
  \/ \E h \in Handoffs : CreateHandoff(h)
  \/ \E c \in Couriers :
       \/ BeginDeliver(c) \/ Queue(c) \/ DeliverFails(c) \/ DeliverAcknowledged(c)
       \/ RelayLookup(c) \/ RelayInsert(c) \/ Dispatch(c) \/ DispatchFails(c) \/ Dispatched(c)
       \/ PmLookup(c) \/ PmRegister(c) \/ PmProject(c) \/ PmCreate(c)
       \/ PmFindIntent(c) \/ PmRecord(c) \/ PmAttach(c) \/ PmPlan(c) \/ PmMap(c)
  \/ OtherPackage
  \/ DocumentStops \/ ConductorStops \/ PmStops

HandoffSpec == HandoffInit /\ [][HandoffNext]_handoffVars

-----------------------------------------------------------------------------
(* Properties *)

HandoffTypeOK ==
  /\ handoff \in [Handoffs -> HandoffRow \cup {NoRow}]
  /\ relayed \in [Handoffs -> RelayRow \cup {NoRow}]
  /\ work \in [Handoffs -> WorkRow \cup {NoRow}]
  /\ intent \in IntentRow \cup {NoRow}
  /\ projects \in 0..MaxProjects
  /\ planned \in [Handoffs -> SUBSET (1..MaxProjects)]
  /\ courier \in [Couriers -> Courier]

\* A reference is never made up: what Document Again shows, Conductor relayed, and
\* what Conductor relayed, PM Again has registered, whichever of the three gave up
\* or stopped on the way (services.py:5397, document_handoff.py:175-188).
ReferenceIsReal ==
  \A h \in Handoffs :
    /\ handoff[h] # NoRow /\ handoff[h].reference => relayed[h] # NoRow /\ relayed[h].reference
    /\ relayed[h] # NoRow /\ relayed[h].reference =>
         relayed[h].status = "ACKNOWLEDGED" /\ work[h] # NoRow

\* Once PM Again has taken a handoff for good, no retry that was already on its way
\* turns Conductor's acknowledgement back into FAILED (document_handoff.py:146, 175-178).
RelayAckIsFinal ==
  [][ \A h \in Handoffs :
        relayed[h].status = "ACKNOWLEDGED" => relayed'[h] = relayed[h] ]_handoffVars

\* A work package is planned once, in one project, and MAPPED only there and only
\* after its tasks are committed in that project's own file (mapping_service.py:237-264).
MappedIsPlanned ==
  \A h \in Handoffs :
    /\ \A p, q \in planned[h] : p = q
    /\ work[h].status = "MAPPED" => planned[h] = {work[h].project}

\* "on failure it becomes FAILED with the error retained (safe to retry)"
\* (services.py:5366): PM Again refuses no delivery of a handoff as a conflict.
RetryIsAccepted ==
  \A c \in Couriers : courier[c].pmAnswer # "refused"

=============================================================================
