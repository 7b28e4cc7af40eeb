------------------------------ MODULE QaIntake ------------------------------
(***************************************************************************)
(* QA Again's side of dispatch-qa: app/routers/ecosystem_intake.py over    *)
(* ecosystem_intake.py and ecosystem/mapping_service.py. A QARequest is    *)
(* registered once per idempotency key, its work package is given a QA     *)
(* project, and a published revision of that project becomes a test cycle  *)
(* with execution attempt 1. Explicit re-runs add attempts.                *)
(*                                                                         *)
(* Requests, projects and links are rows of the master database, cycles    *)
(* and attempts rows of one SQLite file per project, so nothing spans the  *)
(* two in one transaction: every commit is a step, and so is every query   *)
(* whose answer is used later. As in Orchestration, pc[q] is the next step *)
(* of the thread q, call[q] its arguments, seen[q] what it has in hand.    *)
(***************************************************************************)
EXTENDS Naturals, Sequences, FiniteSets

CONSTANTS
  Keys,          \* Idempotency-Key values
  Ids,           \* qaRequestIds
  WorkPackages,
  Tenants,
  Bases,         \* slugs that slugify gives
  BaseSlug,      \* the one of each work package; two may share one
  Deliveries,    \* the requests callers make
  Requests,      \* threads
  MaxSuffix,     \* bound: projects per base slug
  MaxId,         \* bound: project ids
  MaxCycles,     \* bound: cycles per project
  MaxAttempts,   \* bound: attempts per cycle
  MayCrash,      \* whether the machine may stop and a database refuse a statement
  MayDelete      \* whether an administrator may delete a project

None == "NONE"

ASSUME BaseSlugAssumption   == BaseSlug \in [WorkPackages -> Bases]
ASSUME BoundsAssumption     == {MaxSuffix, MaxId, MaxCycles, MaxAttempts} \subseteq Nat \ {0}
ASSUME SwitchesAssumption   == {MayCrash, MayDelete} \subseteq BOOLEAN
ASSUME NoneAssumption       == None \notin Keys \cup Ids \cup WorkPackages \cup Tenants

Calls == [key : Keys, id : Ids, wp : WorkPackages, tenant : Tenants \cup {None}]

ASSUME DeliveriesAssumption == Deliveries \subseteq Calls

VARIABLES
  request,     \* ExternalQARequest rows, by idempotency key
  newest,      \* the key of the newest row of each qaRequestId
  project,     \* Project rows, by slug
  link,        \* ExternalQAProjectLink rows: the project id of a work package
  published,   \* whether a project has a published revision with test cases
  cycles,      \* each project's test cycles: the request each was created for
  attempts,    \* QAExecutionAttempt rows of each cycle, in order of insertion
  doomed,      \* how many deletions of each slug have yet to remove its file
  orphaned,    \* history: requests whose project was deleted while they had it in hand,
  lost,        \*   and those whose cycle was removed with its file. No action reads them.
  pc, call, seen

master   == <<request, newest, project, link>>
files    == <<published, cycles, attempts>>
deletion == <<doomed, orphaned, lost>>
threads  == <<pc, call, seen>>
vars     == <<master, files, deletion, threads>>

-----------------------------------------------------------------------------
(* Rows *)

Slugs    == Bases \X (1..MaxSuffix)
CycleNos == 1..MaxCycles

NoRequest == [status |-> None]
NoSlug    == <<>>
Unmapped  == [slug |-> NoSlug, cycle |-> 0]

RequestRow ==
  [id : Ids, wp : WorkPackages, tenant : Tenants \cup {None}, status : {"RECEIVED"},
   at : {Unmapped}]
  \cup
  [id : Ids, wp : WorkPackages, tenant : Tenants \cup {None}, status : {"MAPPED"},
   at : [slug : Slugs, cycle : CycleNos]]

NoProject  == [id |-> 0, tenant |-> None]
ProjectRow == [id : 1..MaxId, tenant : Tenants \cup {None}]

Attempt == [key : Keys, no : Nat \ {0}]

Live(s) == project[s] # NoProject

IsCycleOf(s, c, k) == c <= Len(cycles[s]) /\ cycles[s][c] = k

\* SQLite gives a row one more than the greatest id in the table, so the id of a
\* deleted project is used again when it was the greatest.
NextIds ==
  {n \in 1..MaxId : /\ \A s \in Slugs : project[s].id < n
                    /\ n = 1 \/ \E s \in Slugs : project[s].id = n - 1}

-----------------------------------------------------------------------------
(* Threads *)

PCs == {"idle", "register", "find_link", "choose_slug", "create_project",
        "link_project", "reload_project", "find_revision", "create_cycle", "find_attempt",
        "record_attempt", "mark_mapped", "read_last", "append_attempt"}

NoCall  == [key |-> None, id |-> None, wp |-> None, tenant |-> None]
Nothing == [slug |-> NoSlug, id |-> 0, cycle |-> 0, last |-> 0]
Seen    == [slug : Slugs \cup {NoSlug}, id : 0..MaxId, cycle : CycleNos \cup {0}, last : Nat]

Goto(q, label) ==
  /\ pc' = [pc EXCEPT ![q] = label]
  /\ UNCHANGED call

Finish(q) ==
  /\ pc'   = [pc EXCEPT ![q] = "idle"]
  /\ call' = [call EXCEPT ![q] = NoCall]
  /\ seen' = [seen EXCEPT ![q] = Nothing]

\* Nobody catches the exception, such as of a unique constraint: 500.
Refuse(q) == Finish(q)

See(q, field, value) == seen' = [seen EXCEPT ![q][field] = value]

Init ==
  /\ request   = [k \in Keys |-> NoRequest]
  /\ newest    = [i \in Ids |-> None]
  /\ project   = [s \in Slugs |-> NoProject]
  /\ link      = [w \in WorkPackages |-> 0]
  /\ published = [s \in Slugs |-> FALSE]
  /\ cycles    = [s \in Slugs |-> <<>>]
  /\ attempts  = [s \in Slugs |-> [c \in CycleNos |-> <<>>]]
  /\ doomed    = [s \in Slugs |-> 0]
  /\ orphaned  = {}
  /\ lost      = {}
  /\ pc        = [q \in Requests |-> "idle"]
  /\ call      = [q \in Requests |-> NoCall]
  /\ seen      = [q \in Requests |-> Nothing]

-----------------------------------------------------------------------------
(* POST /qa-requests: register_external_qa_request *)

\* A payload that does not conform to the contract never gets here. A key already
\* known is a replay, answered with the row as it is, or a different payload, answered
\* with 409: neither does anything again.
BeginIntake(q) ==
  \E d \in Deliveries :
    /\ pc[q] = "idle"
    /\ IF request[d.key] = NoRequest
       THEN /\ pc'   = [pc EXCEPT ![q] = "register"]
            /\ call' = [call EXCEPT ![q] = d]
            /\ UNCHANGED <<master, files, deletion, seen>>
       ELSE UNCHANGED vars

\* Mutant: the column without its unique constraint.
AlwaysFree(k) == k \in Keys

KeyFree(k) == request[k] = NoRequest

Register(q) ==
  LET c == call[q] IN
  /\ pc[q] = "register"
  /\ IF KeyFree(c.key)
     THEN /\ request' = [request EXCEPT ![c.key] =
                [id |-> c.id, wp |-> c.wp, tenant |-> c.tenant, status |-> "RECEIVED",
                 at |-> Unmapped]]
          /\ newest'  = [newest EXCEPT ![c.id] = c.key]
          /\ Goto(q, "find_link") /\ UNCHANGED seen
     ELSE Refuse(q) /\ UNCHANGED <<request, newest>>
  /\ UNCHANGED <<project, link, files, deletion>>

-----------------------------------------------------------------------------
(* _find_or_create_project *)

\* The project a work package's link names: none if it has no link, or if that
\* project was deleted. Nothing ever removes or changes a link.
Linked(w) == {s \in Slugs : Live(s) /\ project[s].id = link[w]}

TenantMismatch(s, t) == None \notin {project[s].tenant, t} /\ project[s].tenant # t

\* The thread q holds the project of slug s as a row it need not read again.
Hold(q, s) ==
  /\ Goto(q, "find_revision")
  /\ seen' = [seen EXCEPT ![q] = [slug |-> s, id |-> 0, cycle |-> 0, last |-> 0]]

\* It committed since it read that row, and so reads it again, by its id, when it
\* needs the slug.
HoldExpired(q, s, id) ==
  /\ Goto(q, "reload_project")
  /\ seen' = [seen EXCEPT ![q] = [slug |-> s, id |-> id, cycle |-> 0, last |-> 0]]

\* TenantMismatch is 403; the request stays registered. A project whose name
\* follows the design is renamed, which commits.
FindLink(q) ==
  LET c == call[q] IN
  /\ pc[q] = "find_link"
  /\ \/ /\ Linked(c.wp) = {}
        /\ Goto(q, "choose_slug") /\ UNCHANGED seen
     \/ \E s \in Linked(c.wp) :
          IF TenantMismatch(s, c.tenant) THEN Finish(q)
          ELSE Hold(q, s) \/ HoldExpired(q, s, project[s].id)
  /\ UNCHANGED <<master, files, deletion>>

\* The first suffix that is free; the queries of the loop are one step.
ChooseSlug(q) ==
  LET b == BaseSlug[call[q].wp] IN
  /\ pc[q] = "choose_slug"
  /\ \E n \in 1..MaxSuffix :
       /\ ~ Live(<<b, n>>)
       /\ \A m \in 1..(n-1) : Live(<<b, m>>)
       /\ See(q, "slug", <<b, n>>)
  /\ Goto(q, "create_project")
  /\ UNCHANGED <<master, files, deletion>>

\* The slug is unique.
CreateProject(q) ==
  LET s == seen[q].slug IN
  /\ pc[q] = "create_project"
  /\ IF Live(s) THEN Refuse(q) /\ UNCHANGED project
     ELSE /\ \E n \in NextIds :
               project' = [project EXCEPT ![s] = [id |-> n, tenant |-> call[q].tenant]]
               /\ See(q, "id", n)
          /\ Goto(q, "link_project")
  /\ UNCHANGED <<request, newest, link, files, deletion>>

\* Mutant: the link without its unique constraint.
AlwaysUnlinked(w) == w \in WorkPackages

NoLink(w) == link[w] = 0

\* work_package_id is unique; a project whose link is refused stays behind.
LinkProject(q) ==
  LET w == call[q].wp IN
  /\ pc[q] = "link_project"
  /\ IF NoLink(w) THEN /\ link' = [link EXCEPT ![w] = seen[q].id]
                       /\ HoldExpired(q, seen[q].slug, seen[q].id)
                  ELSE Refuse(q) /\ UNCHANGED link
  /\ UNCHANGED <<request, newest, project, files, deletion>>

-----------------------------------------------------------------------------
(* intake_qa_request, from the project on *)

\* project.slug, after a commit. If the row was deleted, its id may be another's.
ReloadProject(q) ==
  LET found == {s \in Slugs : Live(s) /\ project[s].id = seen[q].id} IN
  /\ pc[q] = "reload_project"
  /\ \/ found = {} /\ Refuse(q)
     \/ \E s \in found : Hold(q, s)
  /\ UNCHANGED <<master, files, deletion>>

\* Mutant: a request that cannot be mapped is removed, for its retry to try again.
ForgetUnmapped(q) ==
  LET k == call[q].key IN
  /\ pc[q] = "find_revision"
  /\ IF published[seen[q].slug]
     THEN Goto(q, "create_cycle") /\ UNCHANGED <<seen, request, newest>>
     ELSE /\ request' = [request EXCEPT ![k] = NoRequest]
          /\ newest'  = [i \in Ids |-> IF newest[i] = k THEN None ELSE newest[i]]
          /\ Finish(q)
  /\ UNCHANGED <<project, link, files, deletion>>

\* Without a published revision the request stays RECEIVED.
FindRevision(q) ==
  /\ pc[q] = "find_revision"
  /\ IF published[seen[q].slug] THEN Goto(q, "create_cycle") /\ UNCHANGED seen
                                ELSE Finish(q)
  /\ UNCHANGED <<master, files, deletion>>

CreateCycle(q) ==
  LET s == seen[q].slug IN
  /\ pc[q] = "create_cycle"
  /\ Len(cycles[s]) < MaxCycles
  /\ cycles' = [cycles EXCEPT ![s] = Append(@, call[q].key)]
  /\ See(q, "cycle", Len(cycles[s]) + 1)
  /\ Goto(q, "find_attempt")
  /\ UNCHANGED <<master, published, attempts, deletion>>

HasFirstAttempt(s, k) ==
  \E c \in CycleNos : \E i \in DOMAIN attempts[s][c] : attempts[s][c][i] = [key |-> k, no |-> 1]

\* Mutant: the mapping is committed before the attempt is looked for.
MappedAtOnce(q) ==
  /\ pc[q] = "find_attempt"
  /\ Goto(q, "mark_mapped")
  /\ UNCHANGED <<master, files, deletion, seen>>

\* map_to_cycle, the query: a request that has its attempt 1 is not mapped again.
FindAttempt(q) ==
  /\ pc[q] = "find_attempt"
  /\ IF HasFirstAttempt(seen[q].slug, call[q].key) THEN Finish(q)
     ELSE Goto(q, "record_attempt") /\ UNCHANGED seen
  /\ UNCHANGED <<master, files, deletion>>

\* Mutant: the attempts without their unique constraint.
AnyAttempt(s, c, no) == no \in Nat

AttemptFree(s, c, no) == \A i \in DOMAIN attempts[s][c] : attempts[s][c][i].no # no

\* (cycle_id, attempt_no) is unique.
InsertAttempt(q, no) ==
  LET s == seen[q].slug  c == seen[q].cycle IN
  /\ AttemptFree(s, c, no)
  /\ attempts' = [attempts EXCEPT ![s][c] = Append(@, [key |-> call[q].key, no |-> no])]

RefuseAttempt(q, no) ==
  /\ ~ AttemptFree(seen[q].slug, seen[q].cycle, no)
  /\ Refuse(q)
  /\ UNCHANGED attempts

RecordAttempt(q) ==
  /\ pc[q] = "record_attempt"
  /\ \/ InsertAttempt(q, 1) /\ Goto(q, "mark_mapped") /\ UNCHANGED seen
     \/ RefuseAttempt(q, 1)
  /\ UNCHANGED <<master, published, cycles, deletion>>

\* Mutant: the cycle is not stored on the request.
MapStatusOnly(q) ==
  /\ pc[q] = "mark_mapped"
  /\ request' = [request EXCEPT ![call[q].key].status = "MAPPED"]
  /\ Finish(q)
  /\ UNCHANGED <<newest, project, link, files, deletion>>

MarkMapped(q) ==
  /\ pc[q] = "mark_mapped"
  /\ request' = [request EXCEPT ![call[q].key] =
       [@ EXCEPT !.status = "MAPPED",
                 !.at = [slug |-> seen[q].slug, cycle |-> seen[q].cycle]]]
  /\ Finish(q)
  /\ UNCHANGED <<newest, project, link, files, deletion>>

-----------------------------------------------------------------------------
(* POST /qa-requests/{id}/rerun *)

\* 404 for an unknown id or another tenant, 409 while unmapped: else the newest
\* request of that id is re-run.
BeginRerun(q) ==
  \E i \in Ids, t \in Tenants \cup {None} :
    /\ pc[q] = "idle"
    /\ newest[i] # None
    /\ LET row == request[newest[i]] IN
       /\ row.tenant \in {None, t}
       /\ row.status = "MAPPED"
       /\ Len(attempts[row.at.slug][row.at.cycle]) < MaxAttempts
       /\ pc'   = [pc EXCEPT ![q] = "read_last"]
       /\ call' = [call EXCEPT ![q] = [key |-> newest[i], id |-> i, wp |-> row.wp, tenant |-> t]]
       /\ seen' = [seen EXCEPT ![q] =
            [slug |-> row.at.slug, id |-> 0, cycle |-> row.at.cycle, last |-> 0]]
    /\ UNCHANGED <<master, files, deletion>>

\* ORDER BY attempt_no DESC LIMIT 1, or 0.
LastAttempt(s, c) ==
  LET nos == {attempts[s][c][i].no : i \in DOMAIN attempts[s][c]}
  IN  CHOOSE n \in nos \cup {0} : \A m \in nos : m <= n

ReadLast(q) ==
  /\ pc[q] = "read_last"
  /\ See(q, "last", LastAttempt(seen[q].slug, seen[q].cycle))
  /\ Goto(q, "append_attempt")
  /\ UNCHANGED <<master, files, deletion>>

AppendAttempt(q) ==
  LET no == seen[q].last + 1 IN
  /\ pc[q] = "append_attempt"
  /\ \/ InsertAttempt(q, no) /\ Finish(q)
     \/ RefuseAttempt(q, no)
  /\ UNCHANGED <<master, published, cycles, deletion>>

-----------------------------------------------------------------------------
(* Surroundings *)

\* Any statement may be refused, of a locked database or of a row that is gone.
Fail(q) ==
  /\ MayCrash
  /\ pc[q] # "idle"
  /\ Refuse(q)
  /\ UNCHANGED <<master, files, deletion>>

\* POST /revisions/{id}/publish looks at the file alone. Bound: no revision is
\* published in a file of no project.
Publish(s) ==
  /\ Live(s) \/ doomed[s] > 0
  /\ ~ published[s]
  /\ published' = [published EXCEPT ![s] = TRUE]
  /\ UNCHANGED <<master, cycles, attempts, deletion, threads>>

\* The threads that hold the project of slug s, and the requests they serve.
WithProject == {"link_project", "reload_project", "find_revision", "create_cycle",
                "find_attempt", "record_attempt", "mark_mapped"}
InHand(s)   == {call[q].key : q \in {p \in Requests : pc[p] \in WithProject /\ seen[p].slug = s}}

\* DELETE /projects/{slug} removes the row, whoever works on the project, not the link ...
DeleteProject(s) ==
  /\ MayDelete
  /\ Live(s)
  /\ project'  = [project EXCEPT ![s] = NoProject]
  /\ doomed'   = [doomed EXCEPT ![s] = @ + 1]
  /\ orphaned' = orphaned \cup InHand(s)
  /\ UNCHANGED <<request, newest, link, files, lost, threads>>

\* SQLite refuses to write a file that was removed after it was opened. Whoever
\* opens the slug again gets an empty file.
Writing == {"create_cycle", "record_attempt", "append_attempt"}

\* ... and then the file, even if it is another project's by now.
RemoveFile(s) ==
  /\ doomed[s] > 0
  /\ doomed'    = [doomed EXCEPT ![s] = @ - 1]
  /\ published' = [published EXCEPT ![s] = FALSE]
  /\ cycles'    = [cycles EXCEPT ![s] = <<>>]
  /\ attempts'  = [attempts EXCEPT ![s] = [c \in CycleNos |-> <<>>]]
  /\ lost' = lost \cup {k \in Keys : \E c \in CycleNos : IsCycleOf(s, c, k)}
  /\ LET stuck == {q \in Requests : pc[q] \in Writing /\ seen[q].slug = s} IN
     /\ pc'   = [q \in Requests |-> IF q \in stuck THEN "idle" ELSE pc[q]]
     /\ call' = [q \in Requests |-> IF q \in stuck THEN NoCall ELSE call[q]]
     /\ seen' = [q \in Requests |-> IF q \in stuck THEN Nothing ELSE seen[q]]
  /\ UNCHANGED <<master, orphaned>>

\* A stop within a deletion leaves the file to the next project of that slug.
Crash ==
  /\ MayCrash
  /\ (\E q \in Requests : pc[q] # "idle") \/ (\E s \in Slugs : doomed[s] > 0)
  /\ pc'     = [q \in Requests |-> "idle"]
  /\ call'   = [q \in Requests |-> NoCall]
  /\ seen'   = [q \in Requests |-> Nothing]
  /\ doomed' = [s \in Slugs |-> 0]
  /\ UNCHANGED <<master, files, orphaned, lost>>

ServeRequest(q) ==
  \/ Register(q)
  \/ FindLink(q) \/ ChooseSlug(q) \/ CreateProject(q) \/ LinkProject(q)
  \/ ReloadProject(q) \/ FindRevision(q) \/ CreateCycle(q)
  \/ FindAttempt(q) \/ RecordAttempt(q) \/ MarkMapped(q)
  \/ ReadLast(q) \/ AppendAttempt(q)

Next ==
  \/ \E q \in Requests : BeginIntake(q) \/ BeginRerun(q) \/ ServeRequest(q) \/ Fail(q)
  \/ \E s \in Slugs : Publish(s) \/ DeleteProject(s) \/ RemoveFile(s)
  \/ Crash

Spec == Init /\ [][Next]_vars

\* A request in progress is served.
ServedSpec == Spec /\ \A q \in Requests : WF_vars(ServeRequest(q))

-----------------------------------------------------------------------------
(* Properties *)

TypeOK ==
  /\ request \in [Keys -> RequestRow \cup {NoRequest}]
  /\ newest \in [Ids -> Keys \cup {None}]
  /\ project \in [Slugs -> ProjectRow \cup {NoProject}]
  /\ link \in [WorkPackages -> 0..MaxId]
  /\ published \in [Slugs -> BOOLEAN]
  /\ cycles \in [Slugs -> Seq(Keys)]
  /\ attempts \in [Slugs -> [CycleNos -> Seq(Attempt)]]
  /\ doomed \in [Slugs -> Nat]
  /\ orphaned \subseteq Keys /\ lost \subseteq Keys
  /\ pc \in [Requests -> PCs]
  /\ call \in [Requests -> Calls \cup {NoCall}]
  /\ seen \in [Requests -> Seen]

\* However often a QARequest is delivered, and however its deliveries overlap,
\* it starts at most one test campaign (ecosystem_intake.py:58-60).
OneCampaignPerRequest ==
  \A k \in Keys : \A s, t \in Slugs : \A c, d \in CycleNos :
    IsCycleOf(s, c, k) /\ IsCycleOf(t, d, k) => s = t /\ c = d

Mapping(k) == request[k].status # "MAPPED" /\ request'[k].status = "MAPPED"

\* A request is mapped only once its cycle and, in another database, the first
\* attempt of that cycle are committed, both for this very request; unless an
\* administrator removed that database after the cycle was created.
MappedIsBacked ==
  [][ \A k \in Keys \ lost : Mapping(k) =>
        LET s == request'[k].at.slug  c == request'[k].at.cycle IN
        /\ IsCycleOf(s, c, k)
        /\ Len(attempts[s][c]) > 0 /\ attempts[s][c][1] = [key |-> k, no |-> 1] ]_vars

\* A request is mapped only in the project its work package is linked to, which
\* belongs to the request's tenant if both name one; unless that project was
\* deleted while the request had it in hand.
MappedInItsProject ==
  [][ \A k \in Keys \ orphaned : Mapping(k) =>
        LET s == request'[k].at.slug IN
        /\ project[s].id = link[request[k].wp]
        /\ None \notin {project[s].tenant, request[k].tenant} =>
             project[s].tenant = request[k].tenant ]_vars

\* Attempts of a cycle are numbered in order, without gaps or duplicates, though
\* a re-run reads the last number and inserts the next in two steps.
AttemptsNumbered ==
  \A s \in Slugs, c \in CycleNos :
    \A i \in DOMAIN attempts[s][c] : attempts[s][c][i].no = i

\* "Every QARequest for a given workPackageId is executed against the same QA
\* project" (models.py:542).
OneProjectPerWorkPackage ==
  \A j, k \in Keys :
    /\ request[j].status = "MAPPED" /\ request[k].status = "MAPPED"
    /\ request[j].wp = request[k].wp
    => request[j].at.slug = request[k].at.slug

\* "ExternalQARequest stays RECEIVED, unmapped, until either a revision is
\* published or an operator maps it manually" (ecosystem/mapping_service.py:188).
MappedOncePublished ==
  \A k \in Keys, s \in Slugs :
    (request[k].status = "RECEIVED" /\ s \in Linked(request[k].wp) /\ published[s])
      ~> (request[k].status = "MAPPED")

-----------------------------------------------------------------------------
(* QaIntake implements QaService *)

StageOf(k) == IF request[k] = NoRequest THEN "unknown" ELSE request[k].status

CampaignOf(k) ==
  IF k \in lost THEN "lost"
  ELSE IF \E s \in Slugs, c \in CycleNos : IsCycleOf(s, c, k) THEN "running" ELSE "none"

\* The attempts made for k: those of one cycle, so that their numbers tell them apart.
Attempted(k, s, c, n) == n \in DOMAIN attempts[s][c] /\ attempts[s][c][n].key = k

RunsOf(k) ==
  Cardinality(UNION {{n \in DOMAIN attempts[s][c] : attempts[s][c][n].key = k} : s \in Slugs, c \in CycleNos})

Service == INSTANCE QaService WITH
             stage    <- [k \in Keys |-> StageOf(k)],
             campaign <- [k \in Keys |-> CampaignOf(k)],
             runs     <- [k \in Keys |-> RunsOf(k)]

\* Over two databases, several threads, redeliveries, crashes, refused statements and
\* deletions of a project that requests are working on, a request goes through the
\* stages of QaService, one at a time and none twice (intake_qa_request,
\* map_to_cycle, rerun_qa_request, delete_project).
ImplementsService == Service!ServiceSpec

=============================================================================
