---------------------------- MODULE DesignChanges ----------------------------
(***************************************************************************)
(* Document Again's design truth: revisions of artifacts, confirmations,   *)
(* baselines, and the controlled change of a requirement that ends in a    *)
(* new baseline (app/services.py). Everything happens in one database, but *)
(* the sessions neither lock nor re-read what they loaded, and an          *)
(* operation built from others commits inside each of them.                *)
(*                                                                         *)
(* job[e] is what the request served by thread e does next (at) and what   *)
(* it has in hand. A query whose answer is used later is a step, and so is *)
(* a commit. A request answered with an error before it changed anything   *)
(* does not appear.                                                        *)
(***************************************************************************)
EXTENDS Naturals, Sequences, FiniteSets

CONSTANTS
  Artifacts,
  Designs,        \* the artifacts whose confirmation rewrites the snapshot (DR, DB schema, architecture)
  Contents,       \* snapshots of a revision, texts of a requirement
  Editors,        \* threads
  MaxRevisions,   \* bound: revisions per artifact
  MaxDrafts,      \* bound: revisions of the requirement
  MaxBaselines,   \* bound
  EditorsMayStop  \* whether the machine may stop

ASSUME DesignsAssumption      == Designs \subseteq Artifacts
ASSUME DesignBoundsAssumption == {MaxRevisions, MaxDrafts, MaxBaselines} \subseteq Nat \ {0}
ASSUME EditorsStopAssumption  == EditorsMayStop \in BOOLEAN

VARIABLES
  revision,     \* ArtifactRevision rows, by artifact and number
  confirmed,    \* the revisions that have a Confirmation row
  overtaken,    \* history: those confirmed while another request was about to change them
  baselines,    \* Baseline rows with their bindings, in order of insertion
  reqRevision,  \* RequirementRevision rows of one requirement, by number
  requirement,  \* the text its Requirement row shows
  change,       \* RequirementChange rows, in order of insertion
  job

designRows == <<revision, confirmed, overtaken, baselines>>
changeRows == <<reqRevision, requirement, change>>
designVars == <<designRows, changeRows, job>>

-----------------------------------------------------------------------------
(* Rows *)

Revisions == Artifacts \X (1..MaxRevisions)
Of(r)     == r[1]
NoRev     == <<>>

RevisionStatus == {"DRAFT", "IN_REVIEW", "CONFIRMED", "SUPERSEDED"}

Unwritten   == [status |-> "NONE"]
RevisionRow == [status : RevisionStatus, snapshot : Contents]

Written(a)  == {r \in Revisions : Of(r) = a /\ revision[r] # Unwritten}
Latest(a)   == CHOOSE r \in Written(a) : \A s \in Written(a) : s[2] <= r[2]
WithStatus(S) == {r \in Revisions : revision[r].status \in S}

BaselineRow == [binds : SUBSET Revisions, change : Nat]

RequirementRow == [status : {"DRAFT", "CONFIRMED", "SUPERSEDED"}, text : Contents]

ChangeStatus == {"DRAFT", "IMPACT_READY", "REGENERATED", "CONFIRMED"}
ChangeRow ==
  [status : ChangeStatus, to : Nat \ {0}, affected : SUBSET Artifacts,
   generated : SUBSET Revisions, baseline : Nat]

OpenChanges  == {k \in DOMAIN change : change[k].status # "CONFIRMED"}
DraftOf(k)   == reqRevision[change[k].to]

-----------------------------------------------------------------------------
(* Requests in progress *)

Steps == {"idle", "save", "submit", "return", "siblings", "confirm", "number", "insert",
          "pick", "freeze", "find_open", "insert_draft", "edit", "impact", "regenerate",
          "reauth", "next_generated", "close"}

\* rev: the revision worked on, or the parent of a new one; snapshot, draft: what
\* was read of it, or of the requirement's draft (text); others, olds: the rows to
\* supersede; todo and made: the revisions a loop still has to do, and all of them;
\* targets: the artifacts still to regenerate; change: 0 outside a change.
Job == [at : Steps, rev : Revisions \cup {NoRev}, snapshot : Contents \cup {"NONE"},
        text : Contents \cup {"NONE"}, draft : BOOLEAN, number : Nat,
        others : SUBSET Revisions, olds : SUBSET Nat,
        todo : SUBSET Revisions, made : SUBSET Revisions,
        targets : SUBSET Artifacts, change : Nat]

NoJob == [at |-> "idle", rev |-> NoRev, snapshot |-> "NONE", text |-> "NONE", draft |-> FALSE,
          number |-> 0, others |-> {}, olds |-> {}, todo |-> {}, made |-> {}, targets |-> {},
          change |-> 0]

Start(e, j)    == job[e] = NoJob /\ job' = [job EXCEPT ![e] = j]
Continue(e, j) == job' = [job EXCEPT ![e] = j]
Done(e)        == job' = [job EXCEPT ![e] = NoJob]

DesignInit ==
  /\ revision    = [r \in Revisions |-> Unwritten]
  /\ confirmed   = {}
  /\ overtaken   = {}
  /\ baselines   = <<>>
  /\ \E t \in Contents : /\ reqRevision = <<[status |-> "DRAFT", text |-> t]>>
                         /\ requirement = t
  /\ change      = <<>>
  /\ job         = [e \in Editors |-> NoJob]

-----------------------------------------------------------------------------
(* Revisions *)

CreateArtifact(a) ==
  /\ Written(a) = {}
  /\ \E c \in Contents :
       revision' = [revision EXCEPT ![<<a, 1>>] = [status |-> "DRAFT", snapshot |-> c]]
  /\ UNCHANGED <<confirmed, overtaken, baselines, changeRows, job>>

\* create_revision clones the revision it is given, or the latest one. A snapshot
\* brought by the caller is a save that follows.
BeginCreate(e) ==
  /\ \E r \in WithStatus(RevisionStatus) :
       Start(e, [NoJob EXCEPT !.at = "number", !.rev = r, !.snapshot = revision[r].snapshot,
                              !.draft = revision[r].status = "DRAFT"])
  /\ UNCHANGED <<designRows, changeRows>>

ReadNumber(e) ==
  LET a == Of(job[e].rev) IN
  /\ job[e].at = "number"
  /\ Latest(a)[2] < MaxRevisions
  /\ Continue(e, [job[e] EXCEPT !.at = "insert", !.number = Latest(a)[2] + 1])
  /\ UNCHANGED <<designRows, changeRows>>

\* (artifact_id, revision_number) is unique. The parent is superseded if it was a
\* DRAFT when it was read. Inside a regeneration the loop goes on.
InsertRevision(e) ==
  LET j == job[e]  new == <<Of(j.rev), j.number>> IN
  /\ j.at = "insert"
  /\ IF revision[new] # Unwritten THEN Done(e) /\ UNCHANGED revision
     ELSE /\ revision' =
               [r \in Revisions |->
                  IF r = new THEN [status |-> "DRAFT", snapshot |-> j.snapshot]
                  ELSE IF r = j.rev /\ j.draft THEN [revision[r] EXCEPT !.status = "SUPERSEDED"]
                  ELSE revision[r]]
          /\ IF j.change = 0 THEN Done(e)
             ELSE Continue(e, [NoJob EXCEPT !.at = "regenerate", !.targets = j.targets,
                                            !.made = j.made \cup {new}, !.change = j.change])
  /\ UNCHANGED <<confirmed, overtaken, baselines, changeRows>>

\* Mutant: require_editable forgets that a revision in review is not a draft, and
\* that a confirmed one is not.
AnyEditable(r) == revision[r] # Unwritten

Editable(r) == revision[r].status = "DRAFT"

\* update_revision_snapshot, save_document, snapshot_database_into_revision
BeginSave(e) ==
  /\ \E r \in Revisions :
       Editable(r) /\ Start(e, [NoJob EXCEPT !.at = "save", !.rev = r])
  /\ UNCHANGED <<designRows, changeRows>>

Save(e) ==
  /\ job[e].at = "save"
  /\ \E c \in Contents : revision' = [revision EXCEPT ![job[e].rev].snapshot = c]
  /\ Done(e)
  /\ UNCHANGED <<confirmed, overtaken, baselines, changeRows>>

BeginSubmit(e) ==
  /\ \E r \in WithStatus({"DRAFT"}) : Start(e, [NoJob EXCEPT !.at = "submit", !.rev = r])
  /\ UNCHANGED <<designRows, changeRows>>

Submit(e) ==
  /\ job[e].at = "submit"
  /\ revision' = [revision EXCEPT ![job[e].rev].status = "IN_REVIEW"]
  /\ Done(e)
  /\ UNCHANGED <<confirmed, overtaken, baselines, changeRows>>

InReview == WithStatus({"IN_REVIEW"})

BeginReturn(e) ==
  /\ \E r \in InReview : Start(e, [NoJob EXCEPT !.at = "return", !.rev = r])
  /\ UNCHANGED <<designRows, changeRows>>

ReturnToDraft(e) ==
  /\ job[e].at = "return"
  /\ revision' = [revision EXCEPT ![job[e].rev].status = "DRAFT"]
  /\ Done(e)
  /\ UNCHANGED <<confirmed, overtaken, baselines, changeRows>>

-----------------------------------------------------------------------------
(* confirm_revision, alone or for a change *)

BeginConfirm(e) ==
  /\ \E r \in WithStatus({"DRAFT", "IN_REVIEW"}) :
       Start(e, [NoJob EXCEPT !.at = "siblings", !.rev = r, !.snapshot = revision[r].snapshot])
  /\ UNCHANGED <<designRows, changeRows>>

ReadSiblings(e) ==
  LET r == job[e].rev IN
  /\ job[e].at = "siblings"
  /\ Continue(e, [job[e] EXCEPT !.at = "confirm",
                    !.others = {s \in WithStatus({"CONFIRMED"}) : Of(s) = Of(r) /\ s # r}])
  /\ UNCHANGED <<designRows, changeRows>>

\* Mutant: the revisions it replaces are left as they are.
OldsKept(j) ==
  /\ reqRevision' = [reqRevision EXCEPT ![change[j.change].to].status = "CONFIRMED"]
  /\ requirement' = j.text

\* What the session of confirm_change has pending until its first commit: the
\* requirement's draft, the revisions it replaces, the requirement's own row.
ConfirmDraft(j) ==
  LET n == change[j.change].to IN
  /\ reqRevision' = [i \in DOMAIN reqRevision |->
       IF i = n THEN [reqRevision[i] EXCEPT !.status = "CONFIRMED"]
       ELSE IF i \in j.olds THEN [reqRevision[i] EXCEPT !.status = "SUPERSEDED"]
       ELSE reqRevision[i]]
  /\ requirement' = j.text

\* Mutant: the siblings are left as they are.
KeepSiblings(j) ==
  revision' = [revision EXCEPT ![j.rev].status = "CONFIRMED",
                               ![j.rev].snapshot = IF Of(j.rev) \in Designs THEN j.snapshot ELSE @]

\* A design artifact's snapshot is written back as it was read, with the technical
\* design put in.
Freeze(j) ==
  revision' = [r \in Revisions |->
    IF r = j.rev THEN [status   |-> "CONFIRMED",
                       snapshot |-> IF Of(r) \in Designs THEN j.snapshot
                                                         ELSE revision[r].snapshot]
    ELSE IF r \in j.others THEN [revision[r] EXCEPT !.status = "SUPERSEDED"]
    ELSE revision[r]]

\* The revisions that were editable when a request that changes them read them.
InHand == {job[e].rev : e \in {d \in Editors : job[d].at \in {"save", "submit", "return"}}}

\* artifact_revision_id is unique among the confirmations: the second of two
\* overlapping ones is rolled back and answered 500.
Confirm(e) ==
  LET j == job[e] IN
  /\ j.at = "confirm"
  /\ IF j.rev \in confirmed THEN Done(e) /\ UNCHANGED <<revision, confirmed, overtaken, reqRevision, requirement>>
     ELSE /\ Freeze(j)
          /\ confirmed' = confirmed \cup {j.rev}
          /\ overtaken' = overtaken \cup ({j.rev} \cap InHand)
          /\ IF j.change # 0 /\ j.todo = j.made THEN ConfirmDraft(j)
                                               ELSE UNCHANGED <<reqRevision, requirement>>
          /\ IF j.change = 0 THEN Done(e)
             ELSE Continue(e, [j EXCEPT !.at = "next_generated", !.todo = @ \ {j.rev},
                                        !.rev = NoRev, !.snapshot = "NONE", !.others = {}])
  /\ UNCHANGED <<baselines, change>>

-----------------------------------------------------------------------------
(* create_baseline *)

\* Mutant: create_baseline takes what is in review too.
Submitted == WithStatus({"IN_REVIEW", "CONFIRMED"})

Bindable == WithStatus({"CONFIRMED"})

\* A revision per artifact; each is read, and refused unless CONFIRMED, in turn.
BeginBaseline(e) ==
  /\ \E S \in SUBSET WithStatus(RevisionStatus) :
       /\ S # {}
       /\ \A r, s \in S : Of(r) = Of(s) => r = s
       /\ Start(e, [NoJob EXCEPT !.at = "pick", !.todo = S, !.made = S])
  /\ UNCHANGED <<designRows, changeRows>>

Pick(e) ==
  LET j == job[e] IN
  /\ j.at = "pick"
  /\ \E r \in j.todo :
       IF r \in Bindable
       THEN Continue(e, [j EXCEPT !.todo = @ \ {r}, !.at = IF j.todo = {r} THEN "freeze" ELSE "pick"])
       ELSE Done(e)
  /\ UNCHANGED <<designRows, changeRows>>

\* For a change the revisions are not read again: the session has them CONFIRMED.
FreezeBaseline(e) ==
  LET j == job[e] IN
  /\ j.at = "freeze"
  /\ Len(baselines) < MaxBaselines
  /\ baselines' = Append(baselines, [binds |-> j.made, change |-> j.change])
  /\ IF j.change = 0 THEN Done(e)
     ELSE Continue(e, [NoJob EXCEPT !.at = "close", !.change = j.change,
                                    !.number = Len(baselines) + 1])
  /\ UNCHANGED <<revision, confirmed, overtaken, changeRows>>

-----------------------------------------------------------------------------
(* A requirement's draft *)

BeginDraft(e) ==
  LET last == Len(reqRevision) IN
  /\ last < MaxDrafts
  /\ Start(e, [NoJob EXCEPT !.at = "find_open", !.number = last + 1,
                            !.text = reqRevision[last].text])
  /\ UNCHANGED <<designRows, changeRows>>

\* The first open change, in no order, is looked at, no other.
FindOpen(e) ==
  /\ job[e].at = "find_open"
  /\ \/ /\ \E k \in OpenChanges : DraftOf(k).status = "DRAFT"
        /\ Done(e)
     \/ /\ OpenChanges = {} \/ \E k \in OpenChanges : DraftOf(k).status # "DRAFT"
        /\ Continue(e, [job[e] EXCEPT !.at = "insert_draft"])
  /\ UNCHANGED <<designRows, changeRows>>

\* (requirement_id, revision_number) is unique.
InsertDraft(e) ==
  LET j == job[e] IN
  /\ j.at = "insert_draft"
  /\ IF j.number <= Len(reqRevision) THEN UNCHANGED <<reqRevision, change>>
     ELSE /\ reqRevision' = Append(reqRevision, [status |-> "DRAFT", text |-> j.text])
          /\ change' = Append(change, [status |-> "DRAFT", to |-> j.number, affected |-> {},
                                       generated |-> {}, baseline |-> 0])
  /\ Done(e)
  /\ UNCHANGED <<designRows, requirement>>

EditableDraft(n) == reqRevision[n].status = "DRAFT"

\* update_requirement_draft
BeginEdit(e) ==
  /\ \E n \in DOMAIN reqRevision :
       /\ EditableDraft(n)
       /\ Start(e, [NoJob EXCEPT !.at = "edit", !.number = n])
  /\ UNCHANGED <<designRows, changeRows>>

Edit(e) ==
  /\ job[e].at = "edit"
  /\ \E t \in Contents : reqRevision' = [reqRevision EXCEPT ![job[e].number].text = t]
  /\ Done(e)
  /\ UNCHANGED <<designRows, requirement, change>>

-----------------------------------------------------------------------------
(* Impact and regeneration *)

\* GET /changes/{id}/impact. Which artifacts are affected is what the trace links
\* say: any. draft: whether the change was a DRAFT when it was read.
BeginImpact(e) ==
  /\ \E k \in DOMAIN change :
       Start(e, [NoJob EXCEPT !.at = "impact", !.change = k, !.draft = change[k].status = "DRAFT"])
  /\ UNCHANGED <<designRows, changeRows>>

StoreImpact(e) ==
  LET j == job[e] IN
  /\ j.at = "impact"
  /\ \E S \in SUBSET Artifacts :
       change' = [change EXCEPT ![j.change].affected = S,
                                ![j.change].status = IF j.draft THEN "IMPACT_READY" ELSE @]
  /\ Done(e)
  /\ UNCHANGED <<designRows, reqRevision, requirement>>

\* mode "full" or "affected". Nothing ever makes a change REVIEWED.
BeginRegenerate(e) ==
  /\ \E k \in DOMAIN change, S \in SUBSET Artifacts :
       /\ change[k].status = "IMPACT_READY"
       /\ S \in {Artifacts, change[k].affected}
       /\ Start(e, [NoJob EXCEPT !.at = "regenerate", !.change = k,
                                 !.targets = {a \in S : Written(a) # {}}])
  /\ UNCHANGED <<designRows, changeRows>>

\* The next artifact's latest revision is cloned by create_revision.
NextTarget(e) ==
  LET j == job[e] IN
  /\ j.at = "regenerate"
  /\ \E a \in j.targets :
       LET r == Latest(a) IN
       Continue(e, [j EXCEPT !.at = "number", !.targets = @ \ {a}, !.rev = r,
                             !.snapshot = revision[r].snapshot,
                             !.draft = revision[r].status = "DRAFT"])
  /\ UNCHANGED <<designRows, changeRows>>

CloseRegenerate(e) ==
  LET j == job[e] IN
  /\ j.at = "regenerate"
  /\ j.targets = {}
  /\ change' = [change EXCEPT ![j.change] =
       [@ EXCEPT !.generated = j.made, !.status = "REGENERATED"]]
  /\ Done(e)
  /\ UNCHANGED <<designRows, reqRevision, requirement>>

-----------------------------------------------------------------------------
(* confirm_change *)

Regenerated(k) == change[k].status = "REGENERATED"

BeginConfirmChange(e) ==
  /\ \E k \in DOMAIN change :
       /\ Regenerated(k)
       /\ Start(e, [NoJob EXCEPT !.at = "reauth", !.change = k, !.todo = change[k].generated,
                                 !.made = change[k].generated])
  /\ UNCHANGED <<designRows, changeRows>>

StillDraft(k) == DraftOf(k).status = "DRAFT"

\* Account Again may refuse the token. Then the requirement's draft is read.
Reauthenticate(e) ==
  LET j == job[e] IN
  /\ j.at = "reauth"
  /\ \/ Done(e)
     \/ /\ StillDraft(j.change)
        /\ Continue(e, [j EXCEPT !.at = "next_generated", !.text = DraftOf(j.change).text,
                          !.olds = {i \in DOMAIN reqRevision :
                                      /\ reqRevision[i].status = "CONFIRMED"
                                      /\ i # change[j.change].to}])
  /\ UNCHANGED <<designRows, changeRows>>

\* confirm_revision refuses what is neither DRAFT nor IN_REVIEW: the request ends,
\* what it committed stays.
NextGenerated(e) ==
  LET j == job[e] IN
  /\ j.at = "next_generated"
  /\ \E r \in j.todo :
       IF revision[r].status \in {"DRAFT", "IN_REVIEW"}
       THEN Continue(e, [j EXCEPT !.at = "siblings", !.rev = r, !.snapshot = revision[r].snapshot])
       ELSE Done(e)
  /\ UNCHANGED <<designRows, changeRows>>

\* Nothing was regenerated: the draft is confirmed, and create_baseline refuses an
\* empty baseline.
NothingToBind(e) ==
  LET j == job[e] IN
  /\ j.at = "next_generated"
  /\ j.made = {}
  /\ ConfirmDraft(j)
  /\ Done(e)
  /\ UNCHANGED <<designRows, change>>

AllConfirmed(e) ==
  LET j == job[e] IN
  /\ j.at = "next_generated"
  /\ j.todo = {} /\ j.made # {}
  /\ Continue(e, [j EXCEPT !.at = "freeze", !.text = "NONE", !.olds = {}])
  /\ UNCHANGED <<designRows, changeRows>>

\* After the handoffs, whose outcome is only reported.
CloseChange(e) ==
  LET j == job[e] IN
  /\ j.at = "close"
  /\ change' = [change EXCEPT ![j.change] =
       [@ EXCEPT !.status = "CONFIRMED", !.baseline = j.number]]
  /\ Done(e)
  /\ UNCHANGED <<designRows, reqRevision, requirement>>

-----------------------------------------------------------------------------

EditorsStop ==
  /\ EditorsMayStop
  /\ \E e \in Editors : job[e] # NoJob
  /\ job' = [e \in Editors |-> NoJob]
  /\ UNCHANGED <<designRows, changeRows>>

BeginEditing(e) ==
  \/ BeginCreate(e) \/ BeginSave(e) \/ BeginSubmit(e) \/ BeginReturn(e)
  \/ BeginConfirm(e) \/ BeginBaseline(e)
  \/ BeginDraft(e) \/ BeginEdit(e) \/ BeginImpact(e) \/ BeginRegenerate(e)
  \/ BeginConfirmChange(e)

GoOnEditing(e) ==
  \/ ReadNumber(e) \/ InsertRevision(e) \/ Save(e) \/ Submit(e) \/ ReturnToDraft(e)
  \/ ReadSiblings(e) \/ Confirm(e) \/ Pick(e) \/ FreezeBaseline(e)
  \/ FindOpen(e) \/ InsertDraft(e) \/ Edit(e) \/ StoreImpact(e)
  \/ NextTarget(e) \/ CloseRegenerate(e)
  \/ Reauthenticate(e) \/ NextGenerated(e) \/ NothingToBind(e) \/ AllConfirmed(e)
  \/ CloseChange(e)

DesignNext ==
  \/ \E a \in Artifacts : CreateArtifact(a)
  \/ \E e \in Editors : BeginEditing(e) \/ GoOnEditing(e)
  \/ EditorsStop

DesignSpec == DesignInit /\ [][DesignNext]_designVars

-----------------------------------------------------------------------------
(* Properties *)

DesignTypeOK ==
  /\ revision \in [Revisions -> RevisionRow \cup {Unwritten}]
  /\ confirmed \subseteq Revisions /\ overtaken \subseteq Revisions
  /\ baselines \in Seq(BaselineRow)
  /\ reqRevision \in Seq(RequirementRow)
  /\ requirement \in Contents
  /\ change \in Seq(ChangeRow)
  /\ job \in [Editors -> Job]

\* A baseline binds only revisions somebody confirmed, whatever requests overlap:
\* each was CONFIRMED when create_baseline read it (services.py:893), and a status
\* CONFIRMED is committed together with its Confirmation row.
BaselineBindsConfirmed ==
  \A i \in DOMAIN baselines : baselines[i].binds \subseteq confirmed

\* "A confirmed revision is immutable" (REVISION_BASELINE_MODEL.md:3): once it has a
\* Confirmation row, its snapshot never changes and it is never editable again. Left out
\* is a revision that was confirmed between the editable test of another request and
\* its commit, which tests nothing again (services.py:653-657).
ConfirmedIsFrozen ==
  [][ \A r \in confirmed \ overtaken :
        /\ revision'[r].snapshot = revision[r].snapshot
        /\ revision'[r].status \in {"CONFIRMED", "SUPERSEDED"} ]_designVars

\* Confirming a revision supersedes the one before: an artifact has one current
\* confirmed revision (services.py:732-741), stops included.
OneCurrentRevision ==
  \A r, s \in WithStatus({"CONFIRMED"}) : Of(r) = Of(s) => r = s

\* The requirement's row shows its one CONFIRMED revision (services.py:1657-1671),
\* though that revision is confirmed inside the first of several commits.
RequirementShowsConfirmed ==
  \A i, k \in DOMAIN reqRevision :
    reqRevision[i].status = "CONFIRMED" /\ reqRevision[k].status = "CONFIRMED"
      => i = k /\ requirement = reqRevision[i].text

=============================================================================
