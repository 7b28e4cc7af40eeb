----------------------------- MODULE DesignProofs -----------------------------
(***************************************************************************)
(* Theorems about DesignChanges. What a baseline binds, that what is       *)
(* confirmed is frozen, and the types hold for any number of threads whose *)
(* requests overlap, wherever the machine stops them. That what is         *)
(* confirmed is unique and shown holds while no two requests overlap: the  *)
(* sessions neither lock nor re-read what they loaded, and overlapping     *)
(* ones break both.                                                        *)
(***************************************************************************)
EXTENDS DesignChanges, SequenceTheorems, WellFoundedInduction, TLAPS

Fields == {"at", "rev", "snapshot", "text", "draft", "number", "others", "olds", "todo",
           "made", "targets", "change"}

\* What a request that gathers revisions for a baseline may rely on, given the revisions
\* that have a Confirmation row: the ones it has dealt with have one, for good.
JobOK(j, done) ==
  /\ DOMAIN j = Fields
  /\ j.at = "reauth" => j.made = j.todo
  /\ j.at \in {"pick", "siblings", "confirm", "next_generated"} => j.made \ j.todo \subseteq done
  /\ j.at = "freeze" => j.made \subseteq done

\* The status CONFIRMED is never without its Confirmation row.
StatusOK(rows, done) ==
  \A r \in Revisions : rows[r].status = "CONFIRMED" => r \in done

DesignInv ==
  /\ DOMAIN revision = Revisions
  /\ \A r \in Revisions : "status" \in DOMAIN revision[r]
  /\ StatusOK(revision, confirmed)
  /\ DOMAIN job = Editors
  /\ \A e \in Editors : JobOK(job[e], confirmed)
  /\ baselines \in Seq({baselines[i] : i \in DOMAIN baselines})
  /\ BaselineBindsConfirmed

LEMMA NoJobOK == \A done : JobOK(NoJob, done) /\ NoJob.made = {} /\ NoJob.todo = {}
BY DEF NoJob, JobOK, Fields

\* Rows and requests change, no baseline: Confirmation rows only come.
LEMMA DesignMoves ==
  ASSUME DesignInv, confirmed \subseteq confirmed', UNCHANGED baselines,
         DOMAIN revision' = Revisions,
         \A r \in Revisions : "status" \in DOMAIN revision'[r],
         StatusOK(revision', confirmed'),
         DOMAIN job' = Editors,
         \A e \in Editors : JobOK(job'[e], confirmed')
  PROVE  DesignInv'
BY DEF DesignInv, BaselineBindsConfirmed

\* The requests of the other threads stand.
LEMMA OthersOK ==
  ASSUME DesignInv, NEW e \in Editors, NEW k, job' = [job EXCEPT ![e] = k],
         confirmed \subseteq confirmed', JobOK(k, confirmed')
  PROVE  DOMAIN job' = Editors /\ \A d \in Editors : JobOK(job'[d], confirmed')
<1>1. \A d \in Editors : d # e => JobOK(job'[d], confirmed')
  BY DEF DesignInv, JobOK
<1>2. job'[e] = k /\ DOMAIN job' = Editors
  BY DEF DesignInv
<1> QED BY <1>1, <1>2

\* A request goes on and no revision changes.
LEMMA OnlyJob ==
  ASSUME DesignInv, NEW e \in Editors, NEW k, job' = [job EXCEPT ![e] = k],
         UNCHANGED designRows, JobOK(k, confirmed)
  PROVE  DesignInv'
<1>1. UNCHANGED <<revision, confirmed, baselines>>
  BY DEF designRows
<1>2. DOMAIN job' = Editors /\ \A d \in Editors : JobOK(job'[d], confirmed')
  <2>1. JobOK(k, confirmed') /\ confirmed \subseteq confirmed'
    BY <1>1
  <2> QED BY <2>1, OthersOK
<1> QED BY <1>1, <1>2, DesignMoves DEF DesignInv

\* A request ends or moves to a step that gathers nothing, whatever rows it writes, if
\* none of them becomes CONFIRMED.
LEMMA WritesRows ==
  ASSUME DesignInv, NEW e \in Editors, NEW k, job' = [job EXCEPT ![e] = k],
         UNCHANGED <<confirmed, baselines>>, JobOK(k, confirmed),
         DOMAIN revision' = Revisions,
         \A r \in Revisions :
           /\ "status" \in DOMAIN revision'[r]
           /\ revision'[r].status = "CONFIRMED" => revision[r].status = "CONFIRMED"
  PROVE  DesignInv'
<1>1. DOMAIN job' = Editors /\ \A d \in Editors : JobOK(job'[d], confirmed')
  <2>1. JobOK(k, confirmed') /\ confirmed \subseteq confirmed'
    OBVIOUS
  <2> QED BY <2>1, OthersOK
<1>2. StatusOK(revision', confirmed')
  BY DEF DesignInv, StatusOK
<1> QED BY <1>1, <1>2, DesignMoves

LEMMA InitDesignInv == DesignInit => DesignInv
<1> SUFFICES ASSUME DesignInit PROVE DesignInv
  OBVIOUS
<1>1. /\ DOMAIN revision = Revisions /\ \A r \in Revisions : revision[r] = Unwritten
      /\ baselines = <<>> /\ job = [e \in Editors |-> NoJob]
  BY DEF DesignInit
<1>2. \A r \in Revisions : "status" \in DOMAIN revision[r] /\ revision[r].status # "CONFIRMED"
  BY <1>1 DEF Unwritten
<1>3. baselines \in Seq({baselines[i] : i \in DOMAIN baselines}) /\ BaselineBindsConfirmed
  BY <1>1 DEF BaselineBindsConfirmed
<1> QED BY <1>1, <1>2, <1>3, NoJobOK DEF DesignInv, StatusOK

-----------------------------------------------------------------------------
(* Requests that begin *)

LEMMA CreateArtifactStep ==
  ASSUME DesignInv, NEW a \in Artifacts, CreateArtifact(a)
  PROVE  DesignInv'
<1>1. PICK c \in Contents :
        revision' = [revision EXCEPT ![<<a, 1>>] = [status |-> "DRAFT", snapshot |-> c]]
  BY DEF CreateArtifact
<1> DEFINE row == [status |-> "DRAFT", snapshot |-> c]
<1>2. UNCHANGED <<confirmed, baselines, job>>
  BY DEF CreateArtifact
<1>3. "status" \in DOMAIN row /\ row.status # "CONFIRMED"
  OBVIOUS
<1>4. /\ DOMAIN revision' = Revisions
      /\ \A r \in Revisions : revision'[r] \in {revision[r], row}
  BY <1>1 DEF DesignInv
<1> HIDE DEF row
<1>5. /\ \A r \in Revisions : "status" \in DOMAIN revision'[r]
      /\ StatusOK(revision', confirmed')
  BY <1>2, <1>3, <1>4 DEF DesignInv, StatusOK
<1> QED BY <1>2, <1>4, <1>5, DesignMoves DEF DesignInv

LEMMA BeginEditingStep ==
  ASSUME DesignInv, NEW e \in Editors, BeginEditing(e)
  PROVE  DesignInv'
<1> USE DEF Start, NoJob, JobOK, Fields
<1>1. ASSUME BeginCreate(e) PROVE DesignInv'
  <2>1. PICK r \in WithStatus(RevisionStatus) :
          job' = [job EXCEPT ![e] = [NoJob EXCEPT !.at = "number", !.rev = r,
                    !.snapshot = revision[r].snapshot, !.draft = revision[r].status = "DRAFT"]]
    BY <1>1 DEF BeginCreate
  <2> DEFINE k == [NoJob EXCEPT !.at = "number", !.rev = r,
                    !.snapshot = revision[r].snapshot, !.draft = revision[r].status = "DRAFT"]
  <2>2. JobOK(k, confirmed)
    OBVIOUS
  <2>3. UNCHANGED designRows
    BY <1>1 DEF BeginCreate
  <2> HIDE DEF JobOK, k
  <2> QED BY <2>1, <2>2, <2>3, OnlyJob DEF k
<1>2. ASSUME BeginSave(e) PROVE DesignInv'
  <2>1. PICK r \in Revisions : job' = [job EXCEPT ![e] = [NoJob EXCEPT !.at = "save", !.rev = r]]
    BY <1>2 DEF BeginSave
  <2>2. JobOK([NoJob EXCEPT !.at = "save", !.rev = r], confirmed) /\ UNCHANGED designRows
    BY <1>2 DEF BeginSave
  <2> HIDE DEF JobOK, NoJob
  <2> QED BY <2>1, <2>2, OnlyJob
<1>3. ASSUME BeginSubmit(e) PROVE DesignInv'
  <2>1. PICK r \in WithStatus({"DRAFT"}) :
          job' = [job EXCEPT ![e] = [NoJob EXCEPT !.at = "submit", !.rev = r]]
    BY <1>3 DEF BeginSubmit
  <2>2. JobOK([NoJob EXCEPT !.at = "submit", !.rev = r], confirmed) /\ UNCHANGED designRows
    BY <1>3 DEF BeginSubmit
  <2> HIDE DEF JobOK, NoJob
  <2> QED BY <2>1, <2>2, OnlyJob
<1>4. ASSUME BeginReturn(e) PROVE DesignInv'
  <2>1. PICK r \in InReview : job' = [job EXCEPT ![e] = [NoJob EXCEPT !.at = "return", !.rev = r]]
    BY <1>4 DEF BeginReturn
  <2>2. JobOK([NoJob EXCEPT !.at = "return", !.rev = r], confirmed) /\ UNCHANGED designRows
    BY <1>4 DEF BeginReturn
  <2> HIDE DEF JobOK, NoJob
  <2> QED BY <2>1, <2>2, OnlyJob
<1>5. ASSUME BeginConfirm(e) PROVE DesignInv'
  <2>1. PICK r \in WithStatus({"DRAFT", "IN_REVIEW"}) :
          job' = [job EXCEPT ![e] = [NoJob EXCEPT !.at = "siblings", !.rev = r,
                                                  !.snapshot = revision[r].snapshot]]
    BY <1>5 DEF BeginConfirm
  <2>2. /\ JobOK([NoJob EXCEPT !.at = "siblings", !.rev = r,
                               !.snapshot = revision[r].snapshot], confirmed)
        /\ UNCHANGED designRows
    BY <1>5 DEF BeginConfirm
  <2> HIDE DEF JobOK, NoJob
  <2> QED BY <2>1, <2>2, OnlyJob
<1>6. ASSUME BeginBaseline(e) PROVE DesignInv'
  <2>1. PICK S \in SUBSET WithStatus(RevisionStatus) :
          job' = [job EXCEPT ![e] = [NoJob EXCEPT !.at = "pick", !.todo = S, !.made = S]]
    BY <1>6 DEF BeginBaseline
  <2>2. /\ JobOK([NoJob EXCEPT !.at = "pick", !.todo = S, !.made = S], confirmed)
        /\ UNCHANGED designRows
    BY <1>6 DEF BeginBaseline
  <2> HIDE DEF JobOK, NoJob
  <2> QED BY <2>1, <2>2, OnlyJob
<1>7. ASSUME BeginDraft(e) PROVE DesignInv'
  <2> DEFINE k == [NoJob EXCEPT !.at = "find_open", !.number = Len(reqRevision) + 1,
                                !.text = reqRevision[Len(reqRevision)].text]
  <2>1. job' = [job EXCEPT ![e] = k] /\ UNCHANGED designRows
    BY <1>7 DEF BeginDraft
  <2>2. JobOK(k, confirmed)
    OBVIOUS
  <2> HIDE DEF JobOK, k
  <2> QED BY <2>1, <2>2, OnlyJob
<1>8. ASSUME BeginEdit(e) PROVE DesignInv'
  <2>1. PICK n \in DOMAIN reqRevision :
          job' = [job EXCEPT ![e] = [NoJob EXCEPT !.at = "edit", !.number = n]]
    BY <1>8 DEF BeginEdit
  <2>2. JobOK([NoJob EXCEPT !.at = "edit", !.number = n], confirmed) /\ UNCHANGED designRows
    BY <1>8 DEF BeginEdit
  <2> HIDE DEF JobOK, NoJob
  <2> QED BY <2>1, <2>2, OnlyJob
<1>9. ASSUME BeginImpact(e) PROVE DesignInv'
  <2>1. PICK n \in DOMAIN change :
          job' = [job EXCEPT ![e] = [NoJob EXCEPT !.at = "impact", !.change = n,
                                                  !.draft = change[n].status = "DRAFT"]]
    BY <1>9 DEF BeginImpact
  <2> DEFINE k == [NoJob EXCEPT !.at = "impact", !.change = n, !.draft = change[n].status = "DRAFT"]
  <2>2. JobOK(k, confirmed) /\ UNCHANGED designRows
    BY <1>9 DEF BeginImpact
  <2>3. job' = [job EXCEPT ![e] = k]
    BY <2>1
  <2> HIDE DEF JobOK, k
  <2> QED BY <2>2, <2>3, OnlyJob
<1>10. ASSUME BeginRegenerate(e) PROVE DesignInv'
  <2>1. PICK n \in DOMAIN change, S \in SUBSET Artifacts :
          job' = [job EXCEPT ![e] = [NoJob EXCEPT !.at = "regenerate", !.change = n,
                                                  !.targets = {a \in S : Written(a) # {}}]]
    BY <1>10 DEF BeginRegenerate
  <2> DEFINE T == {a \in S : Written(a) # {}}
  <2>2. JobOK([NoJob EXCEPT !.at = "regenerate", !.change = n, !.targets = T], confirmed)
    <3> HIDE DEF T
    <3> QED OBVIOUS
  <2>3. UNCHANGED designRows
    BY <1>10 DEF BeginRegenerate
  <2>4. job' = [job EXCEPT ![e] = [NoJob EXCEPT !.at = "regenerate", !.change = n, !.targets = T]]
    BY <2>1
  <2> HIDE DEF JobOK, NoJob, T
  <2> QED BY <2>2, <2>3, <2>4, OnlyJob
<1>11. ASSUME BeginConfirmChange(e) PROVE DesignInv'
  <2>1. PICK n \in DOMAIN change :
          job' = [job EXCEPT ![e] = [NoJob EXCEPT !.at = "reauth", !.change = n,
                     !.todo = change[n].generated, !.made = change[n].generated]]
    BY <1>11 DEF BeginConfirmChange
  <2> DEFINE G == change[n].generated
  <2>2. JobOK([NoJob EXCEPT !.at = "reauth", !.change = n, !.todo = G, !.made = G], confirmed)
    <3> HIDE DEF G
    <3> QED OBVIOUS
  <2>3. UNCHANGED designRows
    BY <1>11 DEF BeginConfirmChange
  <2> HIDE DEF JobOK, NoJob
  <2> QED BY <2>1, <2>2, <2>3, OnlyJob
<1> HIDE DEF Start, NoJob, JobOK, Fields
<1> QED BY <1>1, <1>2, <1>3, <1>4, <1>5, <1>6, <1>7, <1>8, <1>9, <1>10, <1>11 DEF BeginEditing

-----------------------------------------------------------------------------
(* Requests that go on *)

\* A request that ends writes no baseline.
LEMMA RequestEnds ==
  ASSUME DesignInv, NEW e \in Editors, Done(e), UNCHANGED designRows
  PROVE  DesignInv'
BY OnlyJob, NoJobOK DEF Done

\* Steps that change no row of DesignInv.
LEMMA ReadingSteps ==
  ASSUME DesignInv, NEW e \in Editors,
         \/ ReadNumber(e) \/ ReadSiblings(e) \/ Pick(e) \/ FindOpen(e) \/ InsertDraft(e)
         \/ Edit(e) \/ StoreImpact(e) \/ NextTarget(e) \/ CloseRegenerate(e)
         \/ Reauthenticate(e) \/ NextGenerated(e) \/ NothingToBind(e) \/ AllConfirmed(e)
         \/ CloseChange(e)
  PROVE  DesignInv'
<1> DEFINE j == job[e]
<1>0. JobOK(j, confirmed)
  BY DEF DesignInv
<1>1. UNCHANGED designRows
  BY DEF ReadNumber, ReadSiblings, Pick, FindOpen, InsertDraft, Edit, StoreImpact, NextTarget,
     CloseRegenerate, Reauthenticate, NextGenerated, NothingToBind, AllConfirmed, CloseChange
<1>2. CASE Done(e)
  BY <1>1, <1>2, RequestEnds
<1>3. ASSUME ReadNumber(e) PROVE DesignInv'
  <2> DEFINE k == [j EXCEPT !.at = "insert", !.number = Latest(Of(j.rev))[2] + 1]
  <2>1. job' = [job EXCEPT ![e] = k]
    BY <1>3 DEF ReadNumber, Continue
  <2> HIDE DEF j
  <2>2. JobOK(k, confirmed)
    BY <1>0 DEF JobOK, Fields
  <2> HIDE DEF k
  <2> QED BY <1>1, <2>1, <2>2, OnlyJob
<1>4. ASSUME ReadSiblings(e) PROVE DesignInv'
  <2> DEFINE S == {s \in WithStatus({"CONFIRMED"}) : Of(s) = Of(j.rev) /\ s # j.rev}
             k == [j EXCEPT !.at = "confirm", !.others = S]
  <2>1. job' = [job EXCEPT ![e] = k] /\ j.at = "siblings"
    BY <1>4 DEF ReadSiblings, Continue
  <2> HIDE DEF j, S
  <2>2. JobOK(k, confirmed)
    BY <1>0, <2>1 DEF JobOK, Fields
  <2> HIDE DEF k
  <2> QED BY <1>1, <2>1, <2>2, OnlyJob
<1>5. ASSUME Pick(e), ~ Done(e) PROVE DesignInv'
  <2>1. PICK r \in j.todo :
          /\ r \in Bindable /\ j.at = "pick"
          /\ job' = [job EXCEPT ![e] = [j EXCEPT !.todo = @ \ {r},
                       !.at = IF j.todo = {r} THEN "freeze" ELSE "pick"]]
    BY <1>5 DEF Pick, Continue
  <2> DEFINE a == IF j.todo = {r} THEN "freeze" ELSE "pick"
             t == j.todo \ {r}
             k == [j EXCEPT !.todo = t, !.at = a]
  <2>2. job' = [job EXCEPT ![e] = k]
    BY <2>1
  <2>3. r \in confirmed
    BY <2>1 DEF Bindable, WithStatus, DesignInv, StatusOK
  <2>4. j.made \ t \subseteq confirmed /\ a \in {"pick", "freeze"} /\ (a = "freeze" => t = {})
    BY <1>0, <2>1, <2>3 DEF JobOK
  <2> HIDE DEF a, t, j
  <2>5. k.at = a /\ k.todo = t /\ k.made = j.made /\ DOMAIN k = Fields
    BY <1>0 DEF JobOK, Fields
  <2> HIDE DEF k
  <2>6. JobOK(k, confirmed)
    BY <2>4, <2>5 DEF JobOK
  <2> QED BY <1>1, <2>2, <2>6, OnlyJob
<1>6. ASSUME FindOpen(e), ~ Done(e) PROVE DesignInv'
  <2> DEFINE k == [j EXCEPT !.at = "insert_draft"]
  <2>1. job' = [job EXCEPT ![e] = k]
    BY <1>6 DEF FindOpen, Continue
  <2> HIDE DEF j
  <2>2. JobOK(k, confirmed)
    BY <1>0 DEF JobOK, Fields
  <2> HIDE DEF k
  <2> QED BY <1>1, <2>1, <2>2, OnlyJob
<1>7. ASSUME NextTarget(e) PROVE DesignInv'
  <2>1. PICK a \in j.targets :
          job' = [job EXCEPT ![e] = [j EXCEPT !.at = "number", !.targets = @ \ {a},
                    !.rev = Latest(a), !.snapshot = revision[Latest(a)].snapshot,
                    !.draft = revision[Latest(a)].status = "DRAFT"]]
    BY <1>7 DEF NextTarget, Continue
  <2> DEFINE T == j.targets \ {a}
             v == Latest(a)
             s == revision[v].snapshot
             d == revision[v].status = "DRAFT"
             k == [j EXCEPT !.at = "number", !.targets = T, !.rev = v, !.snapshot = s, !.draft = d]
  <2>2. job' = [job EXCEPT ![e] = k]
    BY <2>1
  <2> HIDE DEF j, T, v, s, d
  <2>3. k.at = "number" /\ DOMAIN k = Fields
    BY <1>0 DEF JobOK, Fields
  <2> HIDE DEF k
  <2>4. JobOK(k, confirmed)
    BY <2>3 DEF JobOK
  <2> QED BY <1>1, <2>2, <2>4, OnlyJob
<1>8. ASSUME Reauthenticate(e), ~ Done(e) PROVE DesignInv'
  <2> DEFINE O == {i \in DOMAIN reqRevision : /\ reqRevision[i].status = "CONFIRMED"
                                              /\ i # change[j.change].to}
             x == DraftOf(j.change).text
             k == [j EXCEPT !.at = "next_generated", !.text = x, !.olds = O]
  <2>1. job' = [job EXCEPT ![e] = k] /\ j.at = "reauth"
    BY <1>8 DEF Reauthenticate, Continue
  <2> HIDE DEF j, O, x
  <2>2. k.at = "next_generated" /\ k.made = j.made /\ k.todo = j.todo /\ DOMAIN k = Fields
    BY <1>0 DEF JobOK, Fields
  <2> HIDE DEF k
  <2>3. JobOK(k, confirmed)
    BY <1>0, <2>1, <2>2 DEF JobOK
  <2> QED BY <1>1, <2>1, <2>3, OnlyJob
<1>9. ASSUME NextGenerated(e), ~ Done(e) PROVE DesignInv'
  <2>1. PICK r \in j.todo :
          /\ j.at = "next_generated"
          /\ job' = [job EXCEPT ![e] = [j EXCEPT !.at = "siblings", !.rev = r,
                                                 !.snapshot = revision[r].snapshot]]
    BY <1>9 DEF NextGenerated, Continue
  <2> DEFINE s == revision[r].snapshot
             k == [j EXCEPT !.at = "siblings", !.rev = r, !.snapshot = s]
  <2>2. job' = [job EXCEPT ![e] = k]
    BY <2>1
  <2> HIDE DEF j, s
  <2>3. k.at = "siblings" /\ k.made = j.made /\ k.todo = j.todo /\ DOMAIN k = Fields
    BY <1>0 DEF JobOK, Fields
  <2> HIDE DEF k
  <2>4. JobOK(k, confirmed)
    BY <1>0, <2>1, <2>3 DEF JobOK
  <2> QED BY <1>1, <2>2, <2>4, OnlyJob
<1>10. ASSUME AllConfirmed(e) PROVE DesignInv'
  <2> DEFINE k == [j EXCEPT !.at = "freeze", !.text = "NONE", !.olds = {}]
  <2>1. job' = [job EXCEPT ![e] = k] /\ j.at = "next_generated" /\ j.todo = {}
    BY <1>10 DEF AllConfirmed, Continue
  <2> HIDE DEF j
  <2>2. k.at = "freeze" /\ k.made = j.made /\ DOMAIN k = Fields
    BY <1>0 DEF JobOK, Fields
  <2> HIDE DEF k
  <2>3. JobOK(k, confirmed)
    BY <1>0, <2>1, <2>2 DEF JobOK
  <2> QED BY <1>1, <2>1, <2>3, OnlyJob
<1>11. ASSUME InsertDraft(e) \/ Edit(e) \/ StoreImpact(e) \/ CloseRegenerate(e)
              \/ NothingToBind(e) \/ CloseChange(e)
       PROVE  Done(e)
  BY <1>11 DEF InsertDraft, Edit, StoreImpact, CloseRegenerate, NothingToBind, CloseChange
<1> QED BY <1>2, <1>3, <1>4, <1>5, <1>6, <1>7, <1>8, <1>9, <1>10, <1>11


\* Saving, submitting and returning end the request.
LEMMA EditingSteps ==
  ASSUME DesignInv, NEW e \in Editors, Save(e) \/ Submit(e) \/ ReturnToDraft(e)
  PROVE  DesignInv'
<1> DEFINE g == job[e].rev
<1>1. job' = [job EXCEPT ![e] = NoJob] /\ UNCHANGED <<confirmed, baselines>>
  BY DEF Save, Submit, ReturnToDraft, Done
<1> DEFINE Kept == /\ DOMAIN revision' = Revisions
                   /\ \A r \in Revisions :
                        /\ "status" \in DOMAIN revision'[r]
                        /\ revision'[r].status = "CONFIRMED" => revision[r].status = "CONFIRMED"
<1>2. ASSUME Save(e) PROVE Kept
  <2>1. PICK v \in Contents : revision' = [revision EXCEPT ![g].snapshot = v]
    BY <1>2 DEF Save
  <2> HIDE DEF g
  <2> QED BY <2>1 DEF DesignInv
<1>3. ASSUME Submit(e) PROVE Kept
  <2>1. revision' = [revision EXCEPT ![g].status = "IN_REVIEW"]
    BY <1>3 DEF Submit
  <2> HIDE DEF g
  <2> QED BY <2>1 DEF DesignInv
<1>4. ASSUME ReturnToDraft(e) PROVE Kept
  <2>1. revision' = [revision EXCEPT ![g].status = "DRAFT"]
    BY <1>4 DEF ReturnToDraft
  <2> HIDE DEF g
  <2> QED BY <2>1 DEF DesignInv
<1> QED BY <1>1, <1>2, <1>3, <1>4, NoJobOK, WritesRows

LEMMA InsertRevisionStep ==
  ASSUME DesignInv, NEW e \in Editors, InsertRevision(e)
  PROVE  DesignInv'
<1> DEFINE j == job[e]
           new == <<Of(j.rev), j.number>>
           row == [status |-> "DRAFT", snapshot |-> j.snapshot]
           loop == [NoJob EXCEPT !.at = "regenerate", !.targets = j.targets,
                                 !.made = j.made \cup {new}, !.change = j.change]
<1>1. CASE revision[new] # Unwritten
  <2>1. Done(e) /\ UNCHANGED designRows
    BY <1>1 DEF InsertRevision, designRows
  <2> QED BY <2>1, RequestEnds
<1>2. CASE revision[new] = Unwritten
  <2>1. /\ revision' = [r \in Revisions |->
                          IF r = new THEN row
                          ELSE IF r = j.rev /\ j.draft THEN [revision[r] EXCEPT !.status = "SUPERSEDED"]
                          ELSE revision[r]]
        /\ job' = [job EXCEPT ![e] = NoJob] \/ job' = [job EXCEPT ![e] = loop]
        /\ UNCHANGED <<confirmed, baselines>>
    BY <1>2 DEF InsertRevision, Done, Continue
  <2>2. JobOK(loop, confirmed)
    <3> DEFINE t == j.targets
               m == j.made \cup {new}
               n == j.change
    <3>1. loop = [NoJob EXCEPT !.at = "regenerate", !.targets = t, !.made = m, !.change = n]
      OBVIOUS
    <3> HIDE DEF t, m, n, loop
    <3> QED BY <3>1 DEF JobOK, NoJob, Fields
  <2>3. "status" \in DOMAIN row /\ row.status = "DRAFT"
    OBVIOUS
  <2> HIDE DEF loop, row, new, j
  <2>4. /\ DOMAIN revision' = Revisions
        /\ \A r \in Revisions :
             /\ "status" \in DOMAIN revision'[r]
             /\ revision'[r].status = "CONFIRMED" => revision[r].status = "CONFIRMED"
    BY <2>1, <2>3 DEF DesignInv
  <2> QED BY <2>1, <2>2, <2>4, NoJobOK, WritesRows
<1> QED BY <1>1, <1>2

LEMMA ConfirmStep ==
  ASSUME DesignInv, NEW e \in Editors, Confirm(e)
  PROVE  DesignInv'
<1> DEFINE j == job[e]
           g == j.rev
           t == j.todo \ {g}
           k == [j EXCEPT !.at = "next_generated", !.todo = t, !.rev = NoRev,
                          !.snapshot = "NONE", !.others = {}]
<1>0. JobOK(j, confirmed)
  BY DEF DesignInv
<1>1. CASE g \in confirmed
  <2>1. Done(e) /\ UNCHANGED designRows
    BY <1>1 DEF Confirm, designRows
  <2> QED BY <2>1, RequestEnds
<1>2. CASE g \notin confirmed
  <2>1. /\ j.at = "confirm" /\ Freeze(j) /\ confirmed' = confirmed \cup {g}
        /\ UNCHANGED baselines
        /\ job' = [job EXCEPT ![e] = NoJob] \/ job' = [job EXCEPT ![e] = k]
    BY <1>2 DEF Confirm, Done, Continue
  <2>2. k.at = "next_generated" /\ k.todo = t /\ k.made = j.made /\ DOMAIN k = Fields
    <3> HIDE DEF j, t
    <3> QED BY <1>0 DEF JobOK, Fields
  <2>3. j.made \ t \subseteq confirmed'
    BY <1>0, <2>1 DEF JobOK
  <2> DEFINE s == IF Of(g) \in Designs THEN j.snapshot ELSE revision[g].snapshot
             row == [status |-> "CONFIRMED", snapshot |-> s]
             O == j.others
  <2>4. revision' = [r \in Revisions |->
                       IF r = g THEN row
                       ELSE IF r \in O THEN [revision[r] EXCEPT !.status = "SUPERSEDED"]
                       ELSE revision[r]]
    BY <2>1 DEF Freeze
  <2>5. "status" \in DOMAIN row /\ row.status = "CONFIRMED"
    OBVIOUS
  <2> HIDE DEF k, t, row, O, g, j
  <2>6. JobOK(k, confirmed')
    BY <2>2, <2>3 DEF JobOK
  <2>7. DOMAIN job' = Editors /\ \A d \in Editors : JobOK(job'[d], confirmed')
    <3>1. confirmed \subseteq confirmed'
      BY <2>1
    <3> QED BY <2>1, <2>6, <3>1, NoJobOK, OthersOK
  <2>8. /\ DOMAIN revision' = Revisions
        /\ \A r \in Revisions :
             /\ "status" \in DOMAIN revision'[r]
             /\ revision'[r].status = "CONFIRMED" => r = g \/ revision[r].status = "CONFIRMED"
    BY <2>4, <2>5 DEF DesignInv
  <2>9. StatusOK(revision', confirmed')
    BY <2>1, <2>8 DEF DesignInv, StatusOK
  <2>10. confirmed \subseteq confirmed'
    BY <2>1
  <2> QED BY <2>1, <2>7, <2>8, <2>9, <2>10, DesignMoves
<1> QED BY <1>1, <1>2

\* One more baseline, of revisions that are confirmed.
LEMMA FreezeBaselineStep ==
  ASSUME DesignInv, NEW e \in Editors, FreezeBaseline(e)
  PROVE  DesignInv'
<1> DEFINE j == job[e]
           b == [binds |-> j.made, change |-> j.change]
           S == {baselines[i] : i \in DOMAIN baselines} \cup {b}
           close == [NoJob EXCEPT !.at = "close", !.change = j.change, !.number = Len(baselines) + 1]
<1>1. /\ j.at = "freeze" /\ baselines' = Append(baselines, b)
      /\ UNCHANGED <<revision, confirmed>>
      /\ job' = [job EXCEPT ![e] = NoJob] \/ job' = [job EXCEPT ![e] = close]
  BY DEF FreezeBaseline, Done, Continue
<1>2. JobOK(close, confirmed)
  <2> DEFINE n == j.change
             l == Len(baselines) + 1
  <2>1. close = [NoJob EXCEPT !.at = "close", !.change = n, !.number = l]
    OBVIOUS
  <2> HIDE DEF n, l, close
  <2> QED BY <2>1 DEF JobOK, NoJob, Fields
<1>3. b.binds \subseteq confirmed
  BY <1>1 DEF DesignInv, JobOK
<1> HIDE DEF j, b, close
<1>4. baselines \in Seq(S) /\ b \in S
  <2>1. \A U, V : U \subseteq V => Seq(U) \subseteq Seq(V)
    OBVIOUS
  <2> QED BY <2>1 DEF DesignInv
<1> HIDE DEF S
<1>5. /\ Append(baselines, b) \in Seq(S)
      /\ Len(Append(baselines, b)) = Len(baselines) + 1
      /\ \A i \in 1..Len(baselines) : Append(baselines, b)[i] = baselines[i]
      /\ Append(baselines, b)[Len(baselines) + 1] = b
  BY <1>4, AppendProperties
<1>6. /\ DOMAIN baselines' = 1..(Len(baselines) + 1)
      /\ DOMAIN baselines = 1..Len(baselines) /\ Len(baselines) \in Nat
      /\ \A i \in DOMAIN baselines' :
           baselines'[i] = IF i = Len(baselines) + 1 THEN b ELSE baselines[i]
  BY <1>1, <1>4, <1>5
<1>7. baselines' \in Seq({baselines'[i] : i \in DOMAIN baselines'})
  <2> DEFINE q == baselines'
  <2>1. q \in Seq(S)
    BY <1>1, <1>5
  <2> HIDE DEF q
  <2>2. q \in Seq({q[i] : i \in DOMAIN q})
    BY <2>1
  <2> QED BY <2>2 DEF q
<1>8. BaselineBindsConfirmed'
  BY <1>1, <1>3, <1>6 DEF DesignInv, BaselineBindsConfirmed
<1>9. DOMAIN job' = Editors /\ \A d \in Editors : JobOK(job'[d], confirmed')
  <2>1. confirmed \subseteq confirmed' /\ JobOK(close, confirmed') /\ JobOK(NoJob, confirmed')
    BY <1>1, <1>2, NoJobOK
  <2> QED BY <1>1, <2>1, OthersOK
<1> QED BY <1>1, <1>7, <1>8, <1>9 DEF DesignInv, StatusOK

LEMMA EditorsStopStep == DesignInv /\ EditorsStop => DesignInv'
<1> SUFFICES ASSUME DesignInv, EditorsStop PROVE DesignInv'
  OBVIOUS
<1>1. UNCHANGED <<revision, confirmed, baselines>> /\ job' = [e \in Editors |-> NoJob]
  BY DEF EditorsStop, designRows
<1>2. DOMAIN job' = Editors /\ \A e \in Editors : JobOK(job'[e], confirmed')
  BY <1>1, NoJobOK
<1> QED BY <1>1, <1>2, DesignMoves DEF DesignInv

-----------------------------------------------------------------------------

LEMMA NextDesignInv == DesignInv /\ [DesignNext]_designVars => DesignInv'
<1> SUFFICES ASSUME DesignInv, [DesignNext]_designVars PROVE DesignInv'
  OBVIOUS
<1>1. CASE UNCHANGED designVars
  BY <1>1, DesignMoves DEF designVars, designRows, DesignInv
<1>2. ASSUME NEW a \in Artifacts, CreateArtifact(a) PROVE DesignInv'
  BY <1>2, CreateArtifactStep
<1>3. ASSUME NEW e \in Editors, BeginEditing(e) PROVE DesignInv'
  BY <1>3, BeginEditingStep
<1>4. ASSUME NEW e \in Editors, GoOnEditing(e) PROVE DesignInv'
  BY <1>4, ReadingSteps, EditingSteps, InsertRevisionStep, ConfirmStep, FreezeBaselineStep
     DEF GoOnEditing
<1> QED BY <1>1, <1>2, <1>3, <1>4, EditorsStopStep DEF DesignNext

\* A baseline binds only revisions that somebody confirmed, however many requests
\* overlap and wherever the machine stops: create_baseline reads each of them CONFIRMED
\* before it inserts (services.py:893), a confirmed status comes with its Confirmation
\* row in one commit (services.py:743-755), and no row of either is ever taken back.
THEOREM BaselinesBindTheConfirmed == DesignSpec => []BaselineBindsConfirmed
<1>1. DesignInv => BaselineBindsConfirmed
  BY DEF DesignInv
<1> QED BY <1>1, InitDesignInv, NextDesignInv, PTL DEF DesignSpec

-----------------------------------------------------------------------------
(* Types *)

AllWritten == {r \in Revisions : revision[r] # Unwritten}

DesignRowsOK ==
  /\ revision \in [Revisions -> RevisionRow \cup {Unwritten}]
  /\ confirmed \subseteq Revisions
  /\ baselines \in Seq(BaselineRow)
  /\ reqRevision \in Seq(RequirementRow) /\ reqRevision # <<>>
  /\ requirement \in Contents
  /\ change \in Seq(ChangeRow)
  /\ \A k \in DOMAIN change : change[k].to \in DOMAIN reqRevision

\* What a request has in hand when it reaches a step, given the revisions that are
\* written and how many drafts and changes there are: none of them ever becomes less.
JobReady(j, written, drafts, changes) ==
  /\ j \in Job
  /\ j.at \in {"save", "submit", "return", "siblings", "confirm", "number", "insert"} => j.rev \in written
  /\ j.at \in {"siblings", "confirm", "number", "insert"} => j.snapshot \in Contents
  /\ j.at = "insert" => j.number \in 1..MaxRevisions
  /\ j.at = "confirm" => j.others \subseteq written
  /\ j.at \in {"find_open", "insert_draft"} => j.text \in Contents /\ j.number \in 1..(drafts + 1)
  /\ j.at = "edit" => j.number \in 1..drafts
  /\ j.change \in 0..changes
  /\ j.at \in {"impact", "regenerate", "reauth", "next_generated", "close"} => j.change # 0
  /\ j.at \in {"next_generated", "siblings", "confirm"} /\ j.change # 0 => j.text \in Contents
  /\ \A a \in j.targets : \E r \in written : Of(r) = a

DesignTypeInv ==
  /\ DesignRowsOK
  /\ job \in [Editors -> Job]
  /\ \A e \in Editors : JobReady(job[e], AllWritten, Len(reqRevision), Len(change))

LEMMA JobReadyGrows ==
  ASSUME NEW j, NEW W, NEW d \in Nat, NEW c \in Nat, JobReady(j, W, d, c),
         NEW V, W \subseteq V, NEW m \in Nat, d <= m, NEW n \in Nat, c <= n
  PROVE  JobReady(j, V, m, n)
BY DEF JobReady

LEMMA NoJobReady ==
  ASSUME NEW W, NEW d \in Nat, NEW c \in Nat
  PROVE  JobReady(NoJob, W, d, c) /\ NoJob \in Job
BY DEF JobReady, NoJob, Job, Steps

LEMMA RowFacts ==
  ASSUME DesignRowsOK
  PROVE  /\ \A r \in AllWritten : revision[r] \in RevisionRow
         /\ \A r \in Revisions : revision[r].status \in RevisionStatus => r \in AllWritten
         /\ Len(reqRevision) \in Nat \ {0} /\ DOMAIN reqRevision = 1..Len(reqRevision)
         /\ \A i \in 1..Len(reqRevision) : reqRevision[i] \in RequirementRow
         /\ Len(change) \in Nat /\ DOMAIN change = 1..Len(change)
         /\ \A k \in 1..Len(change) : change[k] \in ChangeRow
<1>1. \A r \in AllWritten : revision[r] \in RevisionRow
  BY DEF DesignRowsOK, AllWritten
<1>2. \A r \in Revisions : revision[r].status \in RevisionStatus => r \in AllWritten
  BY DEF DesignRowsOK, AllWritten, Unwritten, RevisionStatus
<1>3. Len(reqRevision) \in Nat /\ DOMAIN reqRevision = 1..Len(reqRevision)
  BY DEF DesignRowsOK
<1>4. Len(reqRevision) # 0
  BY <1>3, EmptySeq DEF DesignRowsOK
<1>5. Len(change) \in Nat /\ DOMAIN change = 1..Len(change)
  BY DEF DesignRowsOK
<1> QED BY <1>1, <1>2, <1>3, <1>4, <1>5 DEF DesignRowsOK

\* A step of request e, whatever rows it writes.
LEMMA RequestStep ==
  ASSUME DesignTypeInv, DesignRowsOK', AllWritten \subseteq AllWritten',
         Len(reqRevision) <= Len(reqRevision'), Len(change) <= Len(change'),
         NEW e \in Editors, NEW k, job' = [job EXCEPT ![e] = k],
         JobReady(k, AllWritten', Len(reqRevision'), Len(change'))
  PROVE  DesignTypeInv'
<1>1. /\ Len(reqRevision) \in Nat /\ Len(change) \in Nat
      /\ Len(reqRevision') \in Nat /\ Len(change') \in Nat
  BY DEF DesignRowsOK, DesignTypeInv
<1>2. k \in Job
  BY DEF JobReady
<1>3. job' \in [Editors -> Job] /\ \A d \in Editors : job'[d] = IF d = e THEN k ELSE job[d]
  BY <1>2 DEF DesignTypeInv
<1>4. ASSUME NEW d \in Editors PROVE JobReady(job'[d], AllWritten', Len(reqRevision'), Len(change'))
  <2>1. JobReady(job[d], AllWritten, Len(reqRevision), Len(change))
    BY DEF DesignTypeInv
  <2>2. JobReady(job[d], AllWritten', Len(reqRevision'), Len(change'))
    BY <1>1, <2>1, JobReadyGrows
  <2> QED BY <1>3, <2>2
<1> QED BY <1>3, <1>4 DEF DesignTypeInv

\* A step of request e that writes no row.
LEMMA OnlyRequest ==
  ASSUME DesignTypeInv, UNCHANGED <<designRows, changeRows>>,
         NEW e \in Editors, NEW k, job' = [job EXCEPT ![e] = k],
         JobReady(k, AllWritten, Len(reqRevision), Len(change))
  PROVE  DesignTypeInv'
<1>1. /\ UNCHANGED <<revision, confirmed, baselines, reqRevision, requirement, change>>
      /\ AllWritten' = AllWritten
  BY DEF designRows, changeRows, AllWritten
<1>2. DesignRowsOK'
  BY <1>1 DEF DesignTypeInv, DesignRowsOK
<1>3. Len(reqRevision) <= Len(reqRevision') /\ Len(change) <= Len(change')
  BY <1>1 DEF DesignTypeInv, DesignRowsOK
<1>4. JobReady(k, AllWritten', Len(reqRevision'), Len(change'))
  BY <1>1
<1> QED BY <1>1, <1>2, <1>3, <1>4, RequestStep

LEMMA InitDesignType == DesignInit => DesignTypeInv
<1> SUFFICES ASSUME DesignInit PROVE DesignTypeInv
  OBVIOUS
<1>1. PICK t \in Contents : reqRevision = <<[status |-> "DRAFT", text |-> t]>> /\ requirement = t
  BY DEF DesignInit
<1>2. reqRevision \in Seq(RequirementRow) /\ reqRevision # <<>> /\ Len(reqRevision) = 1
  <2>1. [status |-> "DRAFT", text |-> t] \in RequirementRow
    BY DEF RequirementRow
  <2> QED BY <1>1, <2>1
<1>3. change \in Seq(ChangeRow) /\ baselines \in Seq(BaselineRow) /\ Len(change) = 0 /\ DOMAIN change = {}
  BY DEF DesignInit
<1>4. DesignRowsOK
  BY <1>1, <1>2, <1>3 DEF DesignInit, DesignRowsOK
<1>5. job = [e \in Editors |-> NoJob] /\ NoJob \in Job
      /\ JobReady(NoJob, AllWritten, Len(reqRevision), Len(change))
  BY <1>2, <1>3, NoJobReady DEF DesignInit
<1> QED BY <1>4, <1>5 DEF DesignTypeInv

\* Among the revisions of an artifact one has the highest number.
LEMMA LatestIsWritten ==
  ASSUME DesignRowsOK, NEW a, Written(a) # {}
  PROVE  Latest(a) \in Written(a) /\ \A s \in Written(a) : s[2] <= Latest(a)[2]
<1> DEFINE B == {MaxRevisions - r[2] : r \in Written(a)}
<1>1. MaxRevisions \in Nat /\ \A r \in Written(a) : r[2] \in 1..MaxRevisions
  BY DesignBoundsAssumption DEF Written, Revisions
<1>2. B \subseteq Nat /\ B # {}
  BY <1>1
<1>3. PICK n \in B : \A m \in B : ~ (<<m, n>> \in OpToRel(<, Nat))
  <2> HIDE DEF B
  <2> QED BY <1>2, NatLessThanWellFounded, WFMin
<1>4. \A m \in B : ~ (m < n)
  <2>1. ASSUME NEW m \in B, m < n PROVE FALSE
    <3> HIDE DEF B
    <3>1. <<m, n>> \in OpToRel(<, Nat)
      BY <1>2, <2>1 DEF OpToRel
    <3> QED BY <1>3, <3>1
  <2> QED BY <2>1
<1>5. PICK r \in Written(a) : n = MaxRevisions - r[2]
  BY <1>3
<1>6. ASSUME NEW s \in Written(a) PROVE s[2] <= r[2]
  <2>1. ~ (MaxRevisions - s[2] < n)
    BY <1>4
  <2> QED BY <1>1, <1>5, <2>1
<1> QED BY <1>6 DEF Latest

-----------------------------------------------------------------------------
(* Requests that begin, and their types *)

LEMMA CreateArtifactType ==
  ASSUME DesignTypeInv, NEW a \in Artifacts, CreateArtifact(a)
  PROVE  DesignTypeInv'
<1>1. PICK c \in Contents :
        revision' = [revision EXCEPT ![<<a, 1>>] = [status |-> "DRAFT", snapshot |-> c]]
  BY DEF CreateArtifact
<1> DEFINE row == [status |-> "DRAFT", snapshot |-> c]
<1>2. row \in RevisionRow /\ row # Unwritten
  BY DEF RevisionRow, RevisionStatus, Unwritten
<1>3. UNCHANGED <<confirmed, baselines, reqRevision, requirement, change, job>>
  BY DEF CreateArtifact, changeRows
<1> HIDE DEF row
<1>4. /\ revision' \in [Revisions -> RevisionRow \cup {Unwritten}]
      /\ AllWritten \subseteq AllWritten'
  BY <1>1, <1>2 DEF DesignTypeInv, DesignRowsOK, AllWritten, row
<1>5. DesignRowsOK'
  BY <1>3, <1>4 DEF DesignTypeInv, DesignRowsOK
<1>6. Len(reqRevision) \in Nat /\ Len(change) \in Nat
  BY DEF DesignTypeInv, DesignRowsOK
<1>7. \A e \in Editors : JobReady(job'[e], AllWritten', Len(reqRevision'), Len(change'))
  <2> SUFFICES ASSUME NEW e \in Editors
               PROVE  JobReady(job'[e], AllWritten', Len(reqRevision'), Len(change'))
    OBVIOUS
  <2>1. JobReady(job[e], AllWritten, Len(reqRevision), Len(change))
    BY DEF DesignTypeInv
  <2>2. JobReady(job[e], AllWritten', Len(reqRevision), Len(change))
    BY <1>4, <1>6, <2>1, JobReadyGrows
  <2> QED BY <1>3, <2>2
<1> QED BY <1>3, <1>5, <1>7 DEF DesignTypeInv

LEMMA BeginEditingType ==
  ASSUME DesignTypeInv, NEW e \in Editors, BeginEditing(e)
  PROVE  DesignTypeInv'
<1> DEFINE Ready(k) == JobReady(k, AllWritten, Len(reqRevision), Len(change))
<1>0. /\ UNCHANGED <<designRows, changeRows>>
      /\ DesignRowsOK
      /\ \A k : job' = [job EXCEPT ![e] = k] /\ Ready(k) => DesignTypeInv'
  <2>1. UNCHANGED <<designRows, changeRows>>
    BY DEF BeginEditing, BeginCreate, BeginSave, BeginSubmit, BeginReturn, BeginConfirm,
       BeginBaseline, BeginDraft, BeginEdit, BeginImpact, BeginRegenerate, BeginConfirmChange
  <2> QED BY <2>1, OnlyRequest DEF DesignTypeInv
<1>1. /\ \A r \in AllWritten : revision[r] \in RevisionRow
      /\ \A r \in Revisions : revision[r].status \in RevisionStatus => r \in AllWritten
      /\ Len(reqRevision) \in Nat \ {0} /\ DOMAIN reqRevision = 1..Len(reqRevision)
      /\ \A i \in 1..Len(reqRevision) : reqRevision[i] \in RequirementRow
      /\ Len(change) \in Nat /\ DOMAIN change = 1..Len(change)
      /\ \A i \in 1..Len(change) : change[i] \in ChangeRow
      /\ AllWritten \subseteq Revisions
  BY <1>0, RowFacts DEF AllWritten
<1>2. ASSUME BeginCreate(e) PROVE DesignTypeInv'
  <2>1. PICK r \in WithStatus(RevisionStatus) :
          job' = [job EXCEPT ![e] = [NoJob EXCEPT !.at = "number", !.rev = r,
                    !.snapshot = revision[r].snapshot, !.draft = revision[r].status = "DRAFT"]]
    BY <1>2 DEF BeginCreate, Start
  <2> DEFINE s == revision[r].snapshot
             d == revision[r].status = "DRAFT"
             k == [NoJob EXCEPT !.at = "number", !.rev = r, !.snapshot = s, !.draft = d]
  <2>2. r \in AllWritten /\ r \in Revisions /\ s \in Contents /\ d \in BOOLEAN
    BY <1>1, <2>1 DEF WithStatus, RevisionRow
  <2>3. job' = [job EXCEPT ![e] = k]
    BY <2>1
  <2> HIDE DEF s, d
  <2>4. Ready(k)
    <3>1. k \in Job
      BY <2>2 DEF NoJob, Job, Steps
    <3>2. k.at = "number" /\ k.rev = r /\ k.snapshot = s /\ k.draft = d /\ k.change = 0 /\ k.targets = {}
      BY DEF NoJob
    <3> HIDE DEF k
    <3> QED BY <1>1, <2>2, <3>1, <3>2 DEF JobReady
  <2> HIDE DEF k, Ready
  <2> QED BY <1>0, <2>3, <2>4
<1>3. ASSUME NEW r \in Revisions, NEW at \in {"save", "submit", "return"},
             job' = [job EXCEPT ![e] = [NoJob EXCEPT !.at = at, !.rev = r]],
             revision[r].status \in RevisionStatus
      PROVE  DesignTypeInv'
  <2> DEFINE k == [NoJob EXCEPT !.at = at, !.rev = r]
  <2>1. Ready(k)
    <3>1. k \in Job
      BY <1>3 DEF NoJob, Job, Steps
    <3>2. k.at = at /\ k.rev = r /\ k.change = 0 /\ k.targets = {}
      BY DEF NoJob
    <3> HIDE DEF k
    <3> QED BY <1>1, <1>3, <3>1, <3>2 DEF JobReady
  <2> HIDE DEF Ready
  <2> QED BY <1>0, <1>3, <2>1
<1>4. ASSUME BeginSave(e) \/ BeginSubmit(e) \/ BeginReturn(e) PROVE DesignTypeInv'
  BY <1>3, <1>4 DEF BeginSave, BeginSubmit, BeginReturn, Start, Editable, InReview, WithStatus, RevisionStatus
<1>5. ASSUME BeginConfirm(e) PROVE DesignTypeInv'
  <2>1. PICK r \in WithStatus({"DRAFT", "IN_REVIEW"}) :
          job' = [job EXCEPT ![e] = [NoJob EXCEPT !.at = "siblings", !.rev = r,
                                                  !.snapshot = revision[r].snapshot]]
    BY <1>5 DEF BeginConfirm, Start
  <2> DEFINE s == revision[r].snapshot
             k == [NoJob EXCEPT !.at = "siblings", !.rev = r, !.snapshot = s]
  <2>2. r \in AllWritten /\ r \in Revisions /\ s \in Contents
    BY <1>1, <2>1 DEF WithStatus, RevisionRow, RevisionStatus
  <2>3. job' = [job EXCEPT ![e] = k]
    BY <2>1
  <2> HIDE DEF s
  <2>4. Ready(k)
    <3>1. k \in Job
      BY <2>2 DEF NoJob, Job, Steps
    <3>2. k.at = "siblings" /\ k.rev = r /\ k.snapshot = s /\ k.change = 0 /\ k.targets = {}
      BY DEF NoJob
    <3> HIDE DEF k
    <3> QED BY <1>1, <2>2, <3>1, <3>2 DEF JobReady
  <2> HIDE DEF k, Ready
  <2> QED BY <1>0, <2>3, <2>4
<1>6. ASSUME BeginBaseline(e) PROVE DesignTypeInv'
  <2>1. PICK S \in SUBSET WithStatus(RevisionStatus) :
          job' = [job EXCEPT ![e] = [NoJob EXCEPT !.at = "pick", !.todo = S, !.made = S]]
    BY <1>6 DEF BeginBaseline, Start
  <2> DEFINE k == [NoJob EXCEPT !.at = "pick", !.todo = S, !.made = S]
  <2>2. S \in SUBSET Revisions
    BY <2>1 DEF WithStatus
  <2>3. Ready(k)
    <3>1. k \in Job
      BY <2>2 DEF NoJob, Job, Steps
    <3>2. k.at = "pick" /\ k.todo = S /\ k.made = S /\ k.change = 0 /\ k.targets = {}
      BY DEF NoJob
    <3> HIDE DEF k
    <3> QED BY <1>1, <2>2, <3>1, <3>2 DEF JobReady
  <2> HIDE DEF Ready
  <2> QED BY <1>0, <2>1, <2>3
<1>7. ASSUME BeginDraft(e) PROVE DesignTypeInv'
  <2> DEFINE n == Len(reqRevision) + 1
             x == reqRevision[Len(reqRevision)].text
             k == [NoJob EXCEPT !.at = "find_open", !.number = n, !.text = x]
  <2>1. job' = [job EXCEPT ![e] = k]
    BY <1>7 DEF BeginDraft, Start
  <2>2. n \in 1..(Len(reqRevision) + 1) /\ n \in Nat /\ x \in Contents
    BY <1>1 DEF RequirementRow
  <2> HIDE DEF n, x
  <2>3. Ready(k)
    <3>1. k \in Job
      BY <2>2 DEF NoJob, Job, Steps
    <3>2. k.at = "find_open" /\ k.number = n /\ k.text = x /\ k.change = 0 /\ k.targets = {}
      BY DEF NoJob
    <3> HIDE DEF k
    <3> QED BY <1>1, <2>2, <3>1, <3>2 DEF JobReady
  <2> HIDE DEF k, Ready
  <2> QED BY <1>0, <2>1, <2>3
<1>8. ASSUME BeginEdit(e) PROVE DesignTypeInv'
  <2>1. PICK n \in DOMAIN reqRevision :
          job' = [job EXCEPT ![e] = [NoJob EXCEPT !.at = "edit", !.number = n]]
    BY <1>8 DEF BeginEdit, Start
  <2> DEFINE k == [NoJob EXCEPT !.at = "edit", !.number = n]
  <2>3. n \in Nat /\ n \in 1..Len(reqRevision)
    BY <1>1, <2>1
  <2>2. Ready(k)
    <3>1. k \in Job
      BY <2>3 DEF NoJob, Job, Steps
    <3>2. k.at = "edit" /\ k.number = n /\ k.change = 0 /\ k.targets = {}
      BY DEF NoJob
    <3> HIDE DEF k
    <3> QED BY <1>1, <2>3, <3>1, <3>2 DEF JobReady
  <2> HIDE DEF Ready
  <2> QED BY <1>0, <2>1, <2>2
<1>9. ASSUME BeginImpact(e) PROVE DesignTypeInv'
  <2>1. PICK n \in DOMAIN change :
          job' = [job EXCEPT ![e] = [NoJob EXCEPT !.at = "impact", !.change = n,
                                                  !.draft = change[n].status = "DRAFT"]]
    BY <1>9 DEF BeginImpact, Start
  <2> DEFINE d == change[n].status = "DRAFT"
             k == [NoJob EXCEPT !.at = "impact", !.change = n, !.draft = d]
  <2>2. job' = [job EXCEPT ![e] = k] /\ d \in BOOLEAN /\ n \in 1..Len(change) /\ n \in Nat
    BY <1>1, <2>1
  <2> HIDE DEF d
  <2>3. Ready(k)
    <3>1. k \in Job
      BY <2>2 DEF NoJob, Job, Steps
    <3>2. k.at = "impact" /\ k.change = n /\ k.draft = d /\ k.targets = {}
      BY DEF NoJob
    <3> HIDE DEF k
    <3> QED BY <1>1, <2>2, <3>1, <3>2 DEF JobReady
  <2> HIDE DEF k, Ready
  <2> QED BY <1>0, <2>2, <2>3
<1>10. ASSUME BeginRegenerate(e) PROVE DesignTypeInv'
  <2>1. PICK n \in DOMAIN change, S \in SUBSET Artifacts :
          job' = [job EXCEPT ![e] = [NoJob EXCEPT !.at = "regenerate", !.change = n,
                                                  !.targets = {a \in S : Written(a) # {}}]]
    BY <1>10 DEF BeginRegenerate, Start
  <2> DEFINE T == {a \in S : Written(a) # {}}
             k == [NoJob EXCEPT !.at = "regenerate", !.change = n, !.targets = T]
  <2>2. /\ job' = [job EXCEPT ![e] = k] /\ n \in 1..Len(change) /\ n \in Nat
        /\ T \in SUBSET Artifacts
    BY <1>1, <2>1
  <2>3. \A a \in T : \E r \in AllWritten : Of(r) = a
    BY DEF Written, AllWritten
  <2> HIDE DEF T
  <2>4. Ready(k)
    <3>1. k \in Job
      BY <2>2, <2>3 DEF NoJob, Job, Steps
    <3>2. k.at = "regenerate" /\ k.change = n /\ k.targets = T
      BY DEF NoJob
    <3> HIDE DEF k
    <3> QED BY <1>1, <2>2, <2>3, <3>1, <3>2 DEF JobReady
  <2> HIDE DEF k, Ready
  <2> QED BY <1>0, <2>2, <2>4
<1>11. ASSUME BeginConfirmChange(e) PROVE DesignTypeInv'
  <2>1. PICK n \in DOMAIN change :
          job' = [job EXCEPT ![e] = [NoJob EXCEPT !.at = "reauth", !.change = n,
                     !.todo = change[n].generated, !.made = change[n].generated]]
    BY <1>11 DEF BeginConfirmChange, Start
  <2> DEFINE G == change[n].generated
             k == [NoJob EXCEPT !.at = "reauth", !.change = n, !.todo = G, !.made = G]
  <2>2. /\ job' = [job EXCEPT ![e] = k] /\ n \in 1..Len(change) /\ n \in Nat
        /\ G \in SUBSET Revisions
    BY <1>1, <2>1 DEF ChangeRow
  <2> HIDE DEF G
  <2>3. Ready(k)
    <3>1. k \in Job
      BY <2>2 DEF NoJob, Job, Steps
    <3>2. k.at = "reauth" /\ k.change = n /\ k.todo = G /\ k.made = G /\ k.targets = {}
      BY DEF NoJob
    <3> HIDE DEF k
    <3> QED BY <1>1, <2>2, <3>1, <3>2 DEF JobReady
  <2> HIDE DEF k, Ready
  <2> QED BY <1>0, <2>2, <2>3
<1> QED BY <1>2, <1>4, <1>5, <1>6, <1>7, <1>8, <1>9, <1>10, <1>11 DEF BeginEditing

-----------------------------------------------------------------------------
(* Requests that go on, and their types *)

\* The facts a step of request e starts from.
LEMMA RequestFacts ==
  ASSUME DesignTypeInv, NEW e \in Editors
  PROVE  /\ DesignRowsOK
         /\ JobReady(job[e], AllWritten, Len(reqRevision), Len(change)) /\ job[e] \in Job
         /\ Len(reqRevision) \in Nat \ {0} /\ Len(change) \in Nat
         /\ job[e].change # 0 => /\ job[e].change \in 1..Len(change)
                                 /\ change[job[e].change] \in ChangeRow
                                 /\ change[job[e].change].to \in 1..Len(reqRevision)
<1>1. DesignRowsOK /\ JobReady(job[e], AllWritten, Len(reqRevision), Len(change))
  BY DEF DesignTypeInv
<1>2. job[e] \in Job /\ job[e].change \in 0..Len(change)
  BY <1>1 DEF JobReady
<1> QED BY <1>1, <1>2, RowFacts DEF DesignRowsOK

LEMMA ReadingTypes ==
  ASSUME DesignTypeInv, NEW e \in Editors,
         \/ ReadNumber(e) \/ ReadSiblings(e) \/ Pick(e) \/ FindOpen(e) \/ NextTarget(e)
         \/ Reauthenticate(e) \/ NextGenerated(e) \/ AllConfirmed(e)
  PROVE  DesignTypeInv'
<1> DEFINE j == job[e]
           Ready(k) == JobReady(k, AllWritten, Len(reqRevision), Len(change))
<1>0. /\ Ready(j) /\ j \in Job /\ DesignRowsOK
      /\ Len(reqRevision) \in Nat \ {0} /\ Len(change) \in Nat
      /\ j.change # 0 => /\ j.change \in 1..Len(change)
                         /\ change[j.change].to \in 1..Len(reqRevision)
  BY RequestFacts
<1>1. \A k : job' = [job EXCEPT ![e] = k] /\ Ready(k) => DesignTypeInv'
  <2>1. UNCHANGED <<designRows, changeRows>>
    BY DEF ReadNumber, ReadSiblings, Pick, FindOpen, NextTarget, Reauthenticate, NextGenerated, AllConfirmed
  <2> QED BY <2>1, OnlyRequest
<1>2. /\ \A r \in AllWritten : revision[r] \in RevisionRow
      /\ \A r \in Revisions : revision[r].status \in RevisionStatus => r \in AllWritten
      /\ \A i \in 1..Len(reqRevision) : reqRevision[i] \in RequirementRow
      /\ DOMAIN reqRevision = 1..Len(reqRevision)
      /\ AllWritten \subseteq Revisions
  BY <1>0, RowFacts DEF AllWritten
<1>3. CASE Done(e)
  <2>1. Ready(NoJob)
    BY <1>0, NoJobReady
  <2> HIDE DEF Ready
  <2> QED BY <1>1, <1>3, <2>1 DEF Done
<1>4. ASSUME NEW a, \E r \in AllWritten : Of(r) = a
      PROVE  Latest(a) \in AllWritten /\ Latest(a) \in Revisions /\ Latest(a)[2] \in 1..MaxRevisions
  <2>1. Written(a) # {}
    BY <1>4 DEF Written, AllWritten
  <2>2. Latest(a) \in Written(a)
    BY <1>0, <2>1, LatestIsWritten
  <2> QED BY <2>2 DEF Written, AllWritten, Revisions
<1>5. ASSUME ReadNumber(e) PROVE DesignTypeInv'
  <2> DEFINE n == Latest(Of(j.rev))[2] + 1
             k == [j EXCEPT !.at = "insert", !.number = n]
  <2>1. job' = [job EXCEPT ![e] = k] /\ j.at = "number" /\ Latest(Of(j.rev))[2] < MaxRevisions
    BY <1>5 DEF ReadNumber, Continue
  <2>2. j.rev \in AllWritten /\ j.snapshot \in Contents
    BY <1>0, <2>1 DEF JobReady
  <2>3. n \in 1..MaxRevisions /\ n \in Nat
    <3>1. Latest(Of(j.rev))[2] \in 1..MaxRevisions
      BY <1>4, <2>2
    <3> QED BY <2>1, <3>1, DesignBoundsAssumption
  <2> HIDE DEF n, j
  <2>4. k \in Job
    BY <1>0, <2>3 DEF Job, Steps
  <2>5. /\ k.at = "insert" /\ k.number = n /\ k.rev = j.rev /\ k.snapshot = j.snapshot
        /\ k.change = j.change /\ k.targets = j.targets
    BY <1>0 DEF Job
  <2> HIDE DEF k
  <2>6. Ready(k)
    BY <1>0, <2>2, <2>3, <2>4, <2>5 DEF JobReady
  <2> HIDE DEF Ready
  <2> QED BY <1>1, <2>1, <2>6
<1>6. ASSUME ReadSiblings(e) PROVE DesignTypeInv'
  <2> DEFINE O == {s \in WithStatus({"CONFIRMED"}) : Of(s) = Of(j.rev) /\ s # j.rev}
             k == [j EXCEPT !.at = "confirm", !.others = O]
  <2>1. job' = [job EXCEPT ![e] = k] /\ j.at = "siblings"
    BY <1>6 DEF ReadSiblings, Continue
  <2>2. O \in SUBSET Revisions /\ O \subseteq AllWritten
    BY <1>2 DEF WithStatus, RevisionStatus
  <2> HIDE DEF O, j
  <2>3. k \in Job
    BY <1>0, <2>2 DEF Job, Steps
  <2>4. /\ k.at = "confirm" /\ k.others = O /\ k.rev = j.rev /\ k.snapshot = j.snapshot /\ k.text = j.text
        /\ k.change = j.change /\ k.targets = j.targets
    BY <1>0 DEF Job
  <2> HIDE DEF k
  <2>5. Ready(k)
    BY <1>0, <2>1, <2>2, <2>3, <2>4 DEF JobReady
  <2> HIDE DEF Ready
  <2> QED BY <1>1, <2>1, <2>5
<1>7. ASSUME Pick(e), ~ Done(e) PROVE DesignTypeInv'
  <2>1. PICK r \in j.todo :
          /\ j.at = "pick"
          /\ job' = [job EXCEPT ![e] = [j EXCEPT !.todo = @ \ {r},
                       !.at = IF j.todo = {r} THEN "freeze" ELSE "pick"]]
    BY <1>7 DEF Pick, Continue
  <2> DEFINE a == IF j.todo = {r} THEN "freeze" ELSE "pick"
             t == j.todo \ {r}
             k == [j EXCEPT !.todo = t, !.at = a]
  <2>2. job' = [job EXCEPT ![e] = k] /\ a \in {"freeze", "pick"} /\ t \in SUBSET Revisions
    BY <1>0, <2>1 DEF Job
  <2> HIDE DEF a, t, j
  <2>3. k \in Job
    BY <1>0, <2>2 DEF Job, Steps
  <2>4. k.at = a /\ k.change = j.change /\ k.targets = j.targets
    BY <1>0 DEF Job
  <2> HIDE DEF k
  <2>5. Ready(k)
    BY <1>0, <2>2, <2>3, <2>4 DEF JobReady
  <2> HIDE DEF Ready
  <2> QED BY <1>1, <2>2, <2>5
<1>8. ASSUME FindOpen(e), ~ Done(e) PROVE DesignTypeInv'
  <2> DEFINE k == [j EXCEPT !.at = "insert_draft"]
  <2>1. job' = [job EXCEPT ![e] = k] /\ j.at = "find_open"
    BY <1>8 DEF FindOpen, Continue
  <2> HIDE DEF j
  <2>2. k \in Job
    BY <1>0 DEF Job, Steps
  <2>3. /\ k.at = "insert_draft" /\ k.text = j.text /\ k.number = j.number
        /\ k.change = j.change /\ k.targets = j.targets
    BY <1>0 DEF Job
  <2> HIDE DEF k
  <2>4. Ready(k)
    BY <1>0, <2>1, <2>2, <2>3 DEF JobReady
  <2> HIDE DEF Ready
  <2> QED BY <1>1, <2>1, <2>4
<1>9. ASSUME NextTarget(e) PROVE DesignTypeInv'
  <2>1. PICK a \in j.targets :
          job' = [job EXCEPT ![e] = [j EXCEPT !.at = "number", !.targets = @ \ {a},
                    !.rev = Latest(a), !.snapshot = revision[Latest(a)].snapshot,
                    !.draft = revision[Latest(a)].status = "DRAFT"]]
    BY <1>9 DEF NextTarget, Continue
  <2> DEFINE T == j.targets \ {a}
             v == Latest(a)
             s == revision[v].snapshot
             d == revision[v].status = "DRAFT"
             k == [j EXCEPT !.at = "number", !.targets = T, !.rev = v, !.snapshot = s, !.draft = d]
  <2>2. job' = [job EXCEPT ![e] = k]
    BY <2>1
  <2>3. v \in AllWritten /\ v \in Revisions
    BY <1>0, <1>4, <2>1 DEF JobReady
  <2>4. s \in Contents /\ d \in BOOLEAN /\ T \in SUBSET Artifacts
    BY <1>0, <1>2, <2>3 DEF Job, RevisionRow
  <2>5. \A b \in T : \E r \in AllWritten : Of(r) = b
    BY <1>0 DEF JobReady
  <2> HIDE DEF j, T, v, s, d
  <2>6. k \in Job
    BY <1>0, <2>3, <2>4 DEF Job, Steps
  <2>7. k.at = "number" /\ k.rev = v /\ k.snapshot = s /\ k.change = j.change /\ k.targets = T
    BY <1>0 DEF Job
  <2> HIDE DEF k
  <2>8. Ready(k)
    BY <1>0, <2>3, <2>4, <2>5, <2>6, <2>7 DEF JobReady
  <2> HIDE DEF Ready
  <2> QED BY <1>1, <2>2, <2>8
<1>10. ASSUME Reauthenticate(e), ~ Done(e) PROVE DesignTypeInv'
  <2> DEFINE O == {i \in DOMAIN reqRevision : /\ reqRevision[i].status = "CONFIRMED"
                                              /\ i # change[j.change].to}
             x == DraftOf(j.change).text
             k == [j EXCEPT !.at = "next_generated", !.text = x, !.olds = O]
  <2>1. job' = [job EXCEPT ![e] = k] /\ j.at = "reauth"
    BY <1>10 DEF Reauthenticate, Continue
  <2>2. j.change # 0
    BY <1>0, <2>1 DEF JobReady
  <2>3. x \in Contents /\ O \in SUBSET Nat
    BY <1>0, <1>2, <2>2 DEF DraftOf, RequirementRow
  <2> HIDE DEF j, O, x
  <2>4. k \in Job
    BY <1>0, <2>3 DEF Job, Steps
  <2>5. k.at = "next_generated" /\ k.text = x /\ k.change = j.change /\ k.targets = j.targets
    BY <1>0 DEF Job
  <2> HIDE DEF k
  <2>6. Ready(k)
    BY <1>0, <2>2, <2>3, <2>4, <2>5 DEF JobReady
  <2> HIDE DEF Ready
  <2> QED BY <1>1, <2>1, <2>6
<1>11. ASSUME NextGenerated(e), ~ Done(e) PROVE DesignTypeInv'
  <2>1. PICK r \in j.todo :
          /\ j.at = "next_generated" /\ revision[r].status \in {"DRAFT", "IN_REVIEW"}
          /\ job' = [job EXCEPT ![e] = [j EXCEPT !.at = "siblings", !.rev = r,
                                                 !.snapshot = revision[r].snapshot]]
    BY <1>11 DEF NextGenerated, Continue
  <2> DEFINE s == revision[r].snapshot
             k == [j EXCEPT !.at = "siblings", !.rev = r, !.snapshot = s]
  <2>2. job' = [job EXCEPT ![e] = k]
    BY <2>1
  <2>3. r \in Revisions /\ r \in AllWritten /\ s \in Contents
    BY <1>0, <1>2, <2>1 DEF Job, RevisionStatus, RevisionRow
  <2>4. j.change # 0 /\ j.text \in Contents
    BY <1>0, <2>1 DEF JobReady
  <2> HIDE DEF j, s
  <2>5. k \in Job
    BY <1>0, <2>3 DEF Job, Steps
  <2>6. /\ k.at = "siblings" /\ k.rev = r /\ k.snapshot = s /\ k.text = j.text
        /\ k.change = j.change /\ k.targets = j.targets
    BY <1>0 DEF Job
  <2> HIDE DEF k
  <2>7. Ready(k)
    BY <1>0, <2>3, <2>4, <2>5, <2>6 DEF JobReady
  <2> HIDE DEF Ready
  <2> QED BY <1>1, <2>2, <2>7
<1>12. ASSUME AllConfirmed(e) PROVE DesignTypeInv'
  <2> DEFINE k == [j EXCEPT !.at = "freeze", !.text = "NONE", !.olds = {}]
  <2>1. job' = [job EXCEPT ![e] = k]
    BY <1>12 DEF AllConfirmed, Continue
  <2> HIDE DEF j
  <2>2. k \in Job
    BY <1>0 DEF Job, Steps
  <2>3. k.at = "freeze" /\ k.change = j.change /\ k.targets = j.targets
    BY <1>0 DEF Job
  <2> HIDE DEF k
  <2>4. Ready(k)
    BY <1>0, <2>2, <2>3 DEF JobReady
  <2> HIDE DEF Ready
  <2> QED BY <1>1, <2>1, <2>4
<1> HIDE DEF j, Ready
<1> QED BY <1>3, <1>5, <1>6, <1>7, <1>8, <1>9, <1>10, <1>11, <1>12

-----------------------------------------------------------------------------
(* Requests that write, and the types of the rows *)

\* A request ends, whatever rows it leaves.
LEMMA EndsTyped ==
  ASSUME DesignTypeInv, DesignRowsOK', AllWritten \subseteq AllWritten',
         Len(reqRevision) <= Len(reqRevision'), Len(change) <= Len(change'),
         NEW e \in Editors, Done(e)
  PROVE  DesignTypeInv'
<1>1. Len(reqRevision') \in Nat /\ Len(change') \in Nat
  BY DEF DesignRowsOK
<1>2. JobReady(NoJob, AllWritten', Len(reqRevision'), Len(change'))
  BY <1>1, NoJobReady
<1> QED BY <1>2, RequestStep DEF Done

\* A row is replaced in a sequence of rows.
LEMMA RowReplaced ==
  ASSUME NEW S, NEW q \in Seq(S), NEW i \in 1..Len(q), NEW row \in S
  PROVE  /\ [q EXCEPT ![i] = row] \in Seq(S) /\ Len([q EXCEPT ![i] = row]) = Len(q)
         /\ DOMAIN [q EXCEPT ![i] = row] = DOMAIN q
         /\ \A k \in DOMAIN q : [q EXCEPT ![i] = row][k] = IF k = i THEN row ELSE q[k]
BY ExceptSeq

LEMMA RevisionWriters ==
  ASSUME DesignTypeInv, NEW e \in Editors, Save(e) \/ Submit(e) \/ ReturnToDraft(e)
  PROVE  DesignTypeInv'
<1> DEFINE g == job[e].rev
<1>0. DesignRowsOK /\ g \in AllWritten /\ g \in Revisions /\ revision[g] \in RevisionRow
  <2>1. job[e].at \in {"save", "submit", "return"}
    BY DEF Save, Submit, ReturnToDraft
  <2> QED BY <2>1, RequestFacts, RowFacts DEF JobReady, AllWritten
<1>1. PICK row \in RevisionRow : revision' = [revision EXCEPT ![g] = row]
  <2>1. CASE Save(e)
    <3>1. PICK c \in Contents : revision' = [revision EXCEPT ![g] = [revision[g] EXCEPT !.snapshot = c]]
      BY <2>1 DEF Save
    <3>2. [revision[g] EXCEPT !.snapshot = c] \in RevisionRow
      BY <1>0 DEF RevisionRow
    <3> QED BY <3>1, <3>2
  <2>2. CASE Submit(e)
    <3>1. revision' = [revision EXCEPT ![g] = [revision[g] EXCEPT !.status = "IN_REVIEW"]]
      BY <2>2 DEF Submit
    <3>2. [revision[g] EXCEPT !.status = "IN_REVIEW"] \in RevisionRow
      BY <1>0 DEF RevisionRow, RevisionStatus
    <3> QED BY <3>1, <3>2
  <2>3. CASE ReturnToDraft(e)
    <3>1. revision' = [revision EXCEPT ![g] = [revision[g] EXCEPT !.status = "DRAFT"]]
      BY <2>3 DEF ReturnToDraft
    <3>2. [revision[g] EXCEPT !.status = "DRAFT"] \in RevisionRow
      BY <1>0 DEF RevisionRow, RevisionStatus
    <3> QED BY <3>1, <3>2
  <2> QED BY <2>1, <2>2, <2>3
<1>2. UNCHANGED <<confirmed, baselines, reqRevision, requirement, change>> /\ Done(e)
  BY DEF Save, Submit, ReturnToDraft, changeRows
<1> HIDE DEF g
<1>3. row # Unwritten
  BY DEF RevisionRow, RevisionStatus, Unwritten
<1>4. /\ revision' \in [Revisions -> RevisionRow \cup {Unwritten}]
      /\ AllWritten \subseteq AllWritten'
  BY <1>0, <1>1, <1>3 DEF DesignRowsOK, AllWritten
<1>5. DesignRowsOK' /\ Len(reqRevision) <= Len(reqRevision') /\ Len(change) <= Len(change')
  BY <1>0, <1>2, <1>4 DEF DesignRowsOK
<1> QED BY <1>2, <1>4, <1>5, EndsTyped

LEMMA InsertRevisionType ==
  ASSUME DesignTypeInv, NEW e \in Editors, InsertRevision(e)
  PROVE  DesignTypeInv'
<1> DEFINE j == job[e]
           new == <<Of(j.rev), j.number>>
           row == [status |-> "DRAFT", snapshot |-> j.snapshot]
           t == j.targets
           m == j.made \cup {new}
           n == j.change
           loop == [NoJob EXCEPT !.at = "regenerate", !.targets = t, !.made = m, !.change = n]
<1>0. /\ DesignRowsOK /\ JobReady(j, AllWritten, Len(reqRevision), Len(change)) /\ j \in Job
      /\ Len(reqRevision) \in Nat \ {0} /\ Len(change) \in Nat
      /\ j.rev \in Revisions /\ j.rev \in AllWritten /\ revision[j.rev] \in RevisionRow
      /\ j.snapshot \in Contents /\ j.number \in 1..MaxRevisions
      /\ \A r \in AllWritten : revision[r] \in RevisionRow
  <2>1. j.at = "insert"
    BY DEF InsertRevision
  <2> QED BY <2>1, RequestFacts, RowFacts DEF JobReady, AllWritten
<1>1. new \in Revisions /\ row \in RevisionRow /\ row # Unwritten
  BY <1>0 DEF Revisions, Of, RevisionRow, RevisionStatus, Unwritten
<1>2. UNCHANGED <<confirmed, baselines, reqRevision, requirement, change>>
  BY DEF InsertRevision, changeRows
<1>3. CASE revision[new] # Unwritten
  <2>1. Done(e) /\ UNCHANGED revision
    BY <1>3 DEF InsertRevision
  <2>2. DesignRowsOK' /\ AllWritten \subseteq AllWritten'
    BY <1>0, <1>2, <2>1 DEF DesignRowsOK, AllWritten
  <2> QED BY <1>0, <1>2, <2>1, <2>2, EndsTyped
<1>4. CASE revision[new] = Unwritten
  <2>1. /\ revision' = [r \in Revisions |->
                          IF r = new THEN row
                          ELSE IF r = j.rev /\ j.draft THEN [revision[r] EXCEPT !.status = "SUPERSEDED"]
                          ELSE revision[r]]
        /\ Done(e) \/ job' = [job EXCEPT ![e] = loop]
        /\ Done(e) \/ n # 0
    BY <1>4 DEF InsertRevision, Continue
  <2>2. /\ [revision[j.rev] EXCEPT !.status = "SUPERSEDED"] \in RevisionRow
        /\ \A r \in RevisionRow : r # Unwritten
    BY <1>0 DEF RevisionRow, RevisionStatus, Unwritten
  <2> DEFINE old == [revision[j.rev] EXCEPT !.status = "SUPERSEDED"]
  <2>3. \A r \in Revisions : revision'[r] = IF r = new THEN row
                               ELSE IF r = j.rev /\ j.draft THEN old ELSE revision[r]
    BY <2>1
  <2>4. revision' \in [Revisions -> RevisionRow \cup {Unwritten}]
    <3> HIDE DEF old, row, new, j
    <3> QED BY <1>0, <1>1, <2>1, <2>2, <2>3 DEF DesignRowsOK, old
  <2>5. AllWritten \subseteq AllWritten'
    <3> HIDE DEF old, row, new, j
    <3> QED BY <1>1, <2>2, <2>3 DEF AllWritten, old
  <2>6. DesignRowsOK'
    BY <1>0, <1>2, <2>4 DEF DesignRowsOK
  <2>7. CASE Done(e)
    BY <1>0, <1>2, <2>5, <2>6, <2>7, EndsTyped
  <2>8. CASE job' = [job EXCEPT ![e] = loop] /\ n # 0
    <3>1. /\ t \in SUBSET Artifacts /\ m \in SUBSET Revisions /\ n \in 1..Len(change) /\ n \in Nat
          /\ \A a \in t : \E r \in AllWritten : Of(r) = a
      BY <1>0, <1>1, <2>8 DEF JobReady, Job
    <3> HIDE DEF t, m, n
    <3>2. loop \in Job
      BY <3>1 DEF NoJob, Job, Steps
    <3>3. loop.at = "regenerate" /\ loop.change = n /\ loop.targets = t
      BY DEF NoJob
    <3> HIDE DEF loop, j, new, row
    <3>4. JobReady(loop, AllWritten, Len(reqRevision), Len(change))
      BY <1>0, <2>8, <3>1, <3>2, <3>3 DEF JobReady
    <3>5. JobReady(loop, AllWritten', Len(reqRevision'), Len(change'))
      BY <1>0, <1>2, <2>5, <3>4, JobReadyGrows
    <3>6. Len(reqRevision) <= Len(reqRevision') /\ Len(change) <= Len(change')
      BY <1>0, <1>2
    <3> QED BY <2>5, <2>6, <2>8, <3>5, <3>6, RequestStep
  <2> QED BY <2>1, <2>7, <2>8
<1> QED BY <1>3, <1>4

LEMMA FreezeBaselineType ==
  ASSUME DesignTypeInv, NEW e \in Editors, FreezeBaseline(e)
  PROVE  DesignTypeInv'
<1> DEFINE j == job[e]
           n == j.change
           l == Len(baselines) + 1
           b == [binds |-> j.made, change |-> n]
           close == [NoJob EXCEPT !.at = "close", !.change = n, !.number = l]
<1>0. /\ DesignRowsOK /\ JobReady(j, AllWritten, Len(reqRevision), Len(change)) /\ j \in Job
      /\ Len(reqRevision) \in Nat \ {0} /\ Len(change) \in Nat
  BY RequestFacts
<1>1. /\ baselines' = Append(baselines, b)
      /\ UNCHANGED <<revision, confirmed, reqRevision, requirement, change>>
      /\ Done(e) \/ (job' = [job EXCEPT ![e] = close] /\ n # 0)
  BY DEF FreezeBaseline, Continue, changeRows
<1>2. b \in BaselineRow
  BY <1>0 DEF BaselineRow, Job
<1> HIDE DEF b
<1>3. baselines' \in Seq(BaselineRow) /\ l \in Nat
  BY <1>0, <1>1, <1>2 DEF DesignRowsOK
<1>4. DesignRowsOK' /\ AllWritten' = AllWritten
  BY <1>0, <1>1, <1>3 DEF DesignRowsOK, AllWritten
<1>5. CASE Done(e)
  BY <1>0, <1>1, <1>4, <1>5, EndsTyped
<1>6. CASE job' = [job EXCEPT ![e] = close] /\ n # 0
  <2>1. n \in 1..Len(change) /\ n \in Nat
    BY <1>0, <1>6 DEF JobReady
  <2> HIDE DEF n, l
  <2>2. close \in Job
    BY <1>3, <2>1 DEF NoJob, Job, Steps
  <2>3. close.at = "close" /\ close.change = n /\ close.targets = {}
    BY DEF NoJob
  <2> HIDE DEF close, j
  <2>4. JobReady(close, AllWritten', Len(reqRevision'), Len(change'))
    BY <1>0, <1>1, <1>4, <1>6, <2>1, <2>2, <2>3 DEF JobReady
  <2>5. Len(reqRevision) <= Len(reqRevision') /\ Len(change) <= Len(change')
    BY <1>0, <1>1
  <2> QED BY <1>4, <1>6, <2>4, <2>5, RequestStep
<1> QED BY <1>1, <1>5, <1>6

\* What the rows of the requirement are after ConfirmDraft.
LEMMA ConfirmDraftRows ==
  ASSUME DesignRowsOK, NEW j \in Job, j.change # 0 => j.change \in 1..Len(change), j.change # 0,
         j.text \in Contents, ConfirmDraft(j)
  PROVE  /\ reqRevision' \in Seq(RequirementRow) /\ requirement' \in Contents
         /\ reqRevision' # <<>>
         /\ DOMAIN reqRevision' = DOMAIN reqRevision /\ Len(reqRevision') = Len(reqRevision)
<1> DEFINE n == change[j.change].to
           row(i) == IF i = n THEN [reqRevision[i] EXCEPT !.status = "CONFIRMED"]
                     ELSE IF i \in j.olds THEN [reqRevision[i] EXCEPT !.status = "SUPERSEDED"]
                     ELSE reqRevision[i]
<1>1. /\ Len(reqRevision) \in Nat \ {0} /\ DOMAIN reqRevision = 1..Len(reqRevision)
      /\ \A i \in 1..Len(reqRevision) : reqRevision[i] \in RequirementRow
  BY RowFacts
<1>2. reqRevision' = [i \in 1..Len(reqRevision) |-> row(i)] /\ requirement' = j.text
  BY <1>1 DEF ConfirmDraft
<1>3. \A i \in 1..Len(reqRevision) : row(i) \in RequirementRow
  BY <1>1 DEF RequirementRow
<1> HIDE DEF row
<1>4. reqRevision' \in Seq(RequirementRow) /\ Len(reqRevision') = Len(reqRevision)
  BY <1>1, <1>2, <1>3
<1>5. DOMAIN reqRevision' = DOMAIN reqRevision /\ reqRevision' # <<>>
  BY <1>1, <1>2, <1>4
<1> QED BY <1>2, <1>4, <1>5

LEMMA ConfirmType ==
  ASSUME DesignTypeInv, NEW e \in Editors, Confirm(e)
  PROVE  DesignTypeInv'
<1> DEFINE j == job[e]
           g == j.rev
           t == j.todo \ {g}
           k == [j EXCEPT !.at = "next_generated", !.todo = t, !.rev = NoRev,
                          !.snapshot = "NONE", !.others = {}]
<1>0. /\ DesignRowsOK /\ JobReady(j, AllWritten, Len(reqRevision), Len(change)) /\ j \in Job
      /\ Len(reqRevision) \in Nat \ {0} /\ Len(change) \in Nat
      /\ g \in Revisions /\ g \in AllWritten
      /\ j.snapshot \in Contents /\ (j.change # 0 => j.text \in Contents /\ j.change \in 1..Len(change))
      /\ \A r \in AllWritten : revision[r] \in RevisionRow
  <2>1. j.at = "confirm"
    BY DEF Confirm
  <2> QED BY <2>1, RequestFacts, RowFacts DEF JobReady, AllWritten
<1>1. UNCHANGED <<baselines, change>>
  BY DEF Confirm
<1>2. CASE g \in confirmed
  <2>1. Done(e) /\ UNCHANGED <<revision, confirmed, reqRevision, requirement>>
    BY <1>2 DEF Confirm
  <2>2. DesignRowsOK' /\ AllWritten \subseteq AllWritten'
    BY <1>0, <1>1, <2>1 DEF DesignRowsOK, AllWritten
  <2> QED BY <1>0, <1>1, <2>1, <2>2, EndsTyped
<1>3. CASE g \notin confirmed
  <2>1. /\ Freeze(j) /\ confirmed' = confirmed \cup {g}
        /\ (j.change # 0 /\ ConfirmDraft(j)) \/ UNCHANGED <<reqRevision, requirement>>
        /\ Done(e) \/ (job' = [job EXCEPT ![e] = k] /\ j.change # 0)
    BY <1>3 DEF Confirm, Continue
  <2> DEFINE s == IF Of(g) \in Designs THEN j.snapshot ELSE revision[g].snapshot
             row == [status |-> "CONFIRMED", snapshot |-> s]
             O == j.others
  <2>2. revision' = [r \in Revisions |->
                       IF r = g THEN row
                       ELSE IF r \in O THEN [revision[r] EXCEPT !.status = "SUPERSEDED"]
                       ELSE revision[r]]
    BY <2>1 DEF Freeze
  <2>3. row \in RevisionRow
    BY <1>0 DEF RevisionRow, RevisionStatus
  <2>4. confirmed' \subseteq Revisions
    BY <1>0, <2>1 DEF DesignRowsOK
  <2>5. /\ reqRevision' \in Seq(RequirementRow) /\ requirement' \in Contents /\ reqRevision' # <<>>
        /\ DOMAIN reqRevision' = DOMAIN reqRevision /\ Len(reqRevision') = Len(reqRevision)
    <3>1. CASE j.change # 0 /\ ConfirmDraft(j)
      <4> HIDE DEF j
      <4> QED BY <1>0, <3>1, ConfirmDraftRows
    <3>2. CASE UNCHANGED <<reqRevision, requirement>>
      BY <1>0, <3>2 DEF DesignRowsOK
    <3> QED BY <2>1, <3>1, <3>2
  <2>6. O \subseteq AllWritten
    BY <1>0 DEF JobReady, Confirm
  <2>7. t \in SUBSET Revisions
    BY <1>0 DEF Job
  <2>8. /\ \A r \in O : [revision[r] EXCEPT !.status = "SUPERSEDED"] \in RevisionRow
        /\ \A r \in RevisionRow : r # Unwritten
    <3> HIDE DEF O
    <3> QED BY <1>0, <2>6 DEF RevisionRow, RevisionStatus, Unwritten
  <2> DEFINE old(r) == [revision[r] EXCEPT !.status = "SUPERSEDED"]
  <2>9. \A r \in Revisions : revision'[r] = IF r = g THEN row ELSE IF r \in O THEN old(r) ELSE revision[r]
    <3> HIDE DEF O, row, j
    <3> QED BY <2>2
  <2>10. \A r \in O : old(r) \in RevisionRow
    BY <2>8
  <2> HIDE DEF old, row, O
  <2>11. revision' \in [Revisions -> RevisionRow \cup {Unwritten}]
    <3>1. \A r \in Revisions : revision'[r] \in RevisionRow \cup {Unwritten}
      BY <1>0, <2>3, <2>9, <2>10 DEF DesignRowsOK
    <3>2. revision' = [r \in Revisions |-> revision'[r]]
      BY <2>2
    <3> QED BY <3>1, <3>2
  <2>12. AllWritten \subseteq AllWritten'
    BY <2>3, <2>8, <2>9, <2>10 DEF AllWritten
  <2>13. DesignRowsOK'
    BY <1>0, <1>1, <2>4, <2>5, <2>11 DEF DesignRowsOK
  <2>14. Len(reqRevision) <= Len(reqRevision') /\ Len(change) <= Len(change')
    BY <1>0, <1>1, <2>5
  <2>15. CASE Done(e)
    BY <2>12, <2>13, <2>14, <2>15, EndsTyped
  <2>16. CASE job' = [job EXCEPT ![e] = k] /\ j.change # 0
    <3> HIDE DEF j, t
    <3>1. k \in Job
      BY <1>0, <2>7 DEF Job, Steps
    <3>2. /\ k.at = "next_generated" /\ k.text = j.text /\ k.change = j.change
          /\ k.targets = j.targets
      BY <1>0 DEF Job
    <3> HIDE DEF k
    <3>3. JobReady(k, AllWritten, Len(reqRevision), Len(change))
      BY <1>0, <2>16, <3>1, <3>2 DEF JobReady
    <3>4. JobReady(k, AllWritten', Len(reqRevision'), Len(change'))
      BY <1>0, <1>1, <2>5, <2>12, <3>3, JobReadyGrows
    <3> QED BY <2>12, <2>13, <2>14, <2>16, <3>4, RequestStep
  <2> QED BY <2>1, <2>15, <2>16
<1> QED BY <1>2, <1>3

-----------------------------------------------------------------------------
(* The requirement, its changes *)

\* A request that ends and writes rows of the requirement or its changes only.
LEMMA ChangeRowsTyped ==
  ASSUME DesignTypeInv, UNCHANGED designRows, NEW e \in Editors, Done(e),
         reqRevision' \in Seq(RequirementRow), Len(reqRevision) <= Len(reqRevision'),
         requirement' \in Contents,
         change' \in Seq(ChangeRow), Len(change) <= Len(change'),
         \A k \in DOMAIN change' : change'[k].to \in 1..Len(reqRevision')
  PROVE  DesignTypeInv'
<1>1. UNCHANGED <<revision, confirmed, baselines>> /\ DesignRowsOK
      /\ Len(reqRevision) \in Nat \ {0}
  BY RowFacts DEF designRows, DesignTypeInv
<1>2. DOMAIN reqRevision' = 1..Len(reqRevision') /\ Len(reqRevision') \in Nat
  OBVIOUS
<1>3. reqRevision' # <<>>
  BY <1>1, <1>2
<1>4. DesignRowsOK' /\ AllWritten' = AllWritten
  BY <1>1, <1>2, <1>3 DEF DesignRowsOK, AllWritten
<1> QED BY <1>4, EndsTyped

LEMMA ChangeRowWritten ==
  ASSUME DesignTypeInv, NEW e \in Editors, job[e].change # 0, UNCHANGED <<designRows, reqRevision, requirement>>,
         NEW row \in ChangeRow, row.to = change[job[e].change].to,
         change' = [change EXCEPT ![job[e].change] = row], Done(e)
  PROVE  DesignTypeInv'
<1> DEFINE n == job[e].change
<1>1. /\ DesignRowsOK /\ n \in 1..Len(change) /\ change[n].to \in 1..Len(reqRevision)
      /\ change \in Seq(ChangeRow) /\ Len(change) \in Nat /\ Len(reqRevision) \in Nat
      /\ DOMAIN change = 1..Len(change) /\ DOMAIN reqRevision = 1..Len(reqRevision)
  BY RequestFacts, RowFacts DEF DesignRowsOK
<1> HIDE DEF n
<1>2. /\ change' \in Seq(ChangeRow) /\ Len(change') = Len(change) /\ DOMAIN change' = DOMAIN change
      /\ \A k \in DOMAIN change : change'[k] = IF k = n THEN row ELSE change[k]
  BY <1>1, RowReplaced DEF n
<1>3. \A k \in DOMAIN change' : change'[k].to \in 1..Len(reqRevision')
  BY <1>1, <1>2 DEF n, DesignRowsOK
<1>4. /\ reqRevision' \in Seq(RequirementRow) /\ requirement' \in Contents
      /\ Len(reqRevision) <= Len(reqRevision') /\ Len(change) <= Len(change')
  BY <1>1, <1>2 DEF DesignRowsOK
<1> QED BY <1>2, <1>3, <1>4, ChangeRowsTyped

LEMMA ChangeWriters ==
  ASSUME DesignTypeInv, NEW e \in Editors, StoreImpact(e) \/ CloseRegenerate(e) \/ CloseChange(e)
  PROVE  DesignTypeInv'
<1> DEFINE j == job[e]
           n == j.change
<1>0. /\ JobReady(j, AllWritten, Len(reqRevision), Len(change)) /\ j \in Job
      /\ n # 0 /\ n \in 1..Len(change) /\ change[n] \in ChangeRow /\ change \in Seq(ChangeRow)
      /\ UNCHANGED <<designRows, reqRevision, requirement>> /\ Done(e)
  <2>1. j.at \in {"impact", "regenerate", "close"}
    BY DEF StoreImpact, CloseRegenerate, CloseChange
  <2>2. n # 0
    BY <2>1, RequestFacts DEF JobReady
  <2> QED BY <2>2, RequestFacts DEF DesignRowsOK, StoreImpact, CloseRegenerate, CloseChange
<1>1. CASE StoreImpact(e)
  <2>1. PICK S \in SUBSET Artifacts :
          change' = [change EXCEPT ![n].affected = S,
                                   ![n].status = IF j.draft THEN "IMPACT_READY" ELSE @]
    BY <1>1 DEF StoreImpact
  <2> DEFINE w == IF j.draft THEN "IMPACT_READY" ELSE change[n].status
             row == [change[n] EXCEPT !.affected = S, !.status = w]
  <2>2. change' = [change EXCEPT ![n] = row] /\ w \in ChangeStatus
    <3>1. w \in ChangeStatus
      BY <1>0 DEF ChangeRow, ChangeStatus
    <3>2. change' = [change EXCEPT ![n] = row]
      BY <1>0, <2>1 DEF ChangeRow
    <3> QED BY <3>1, <3>2
  <2> HIDE DEF w
  <2>3. row \in ChangeRow /\ row.to = change[n].to
    BY <1>0, <2>2 DEF ChangeRow
  <2> HIDE DEF row
  <2> QED BY <1>0, <2>2, <2>3, ChangeRowWritten
<1>2. CASE CloseRegenerate(e)
  <2> DEFINE m == j.made
             row == [change[n] EXCEPT !.generated = m, !.status = "REGENERATED"]
  <2>1. change' = [change EXCEPT ![n] = row] /\ m \in SUBSET Revisions
    BY <1>0, <1>2 DEF CloseRegenerate, Job
  <2> HIDE DEF m
  <2>2. row \in ChangeRow /\ row.to = change[n].to
    BY <1>0, <2>1 DEF ChangeRow, ChangeStatus
  <2> HIDE DEF row
  <2> QED BY <1>0, <2>1, <2>2, ChangeRowWritten
<1>3. CASE CloseChange(e)
  <2> DEFINE b == j.number
             row == [change[n] EXCEPT !.status = "CONFIRMED", !.baseline = b]
  <2>1. change' = [change EXCEPT ![n] = row] /\ b \in Nat
    BY <1>0, <1>3 DEF CloseChange, Job
  <2> HIDE DEF b
  <2>2. row \in ChangeRow /\ row.to = change[n].to
    BY <1>0, <2>1 DEF ChangeRow, ChangeStatus
  <2> HIDE DEF row
  <2> QED BY <1>0, <2>1, <2>2, ChangeRowWritten
<1> QED BY <1>1, <1>2, <1>3

LEMMA DraftWriters ==
  ASSUME DesignTypeInv, NEW e \in Editors, InsertDraft(e) \/ Edit(e) \/ NothingToBind(e)
  PROVE  DesignTypeInv'
<1> DEFINE j == job[e]
<1>0. /\ DesignRowsOK /\ JobReady(j, AllWritten, Len(reqRevision), Len(change)) /\ j \in Job
      /\ Len(reqRevision) \in Nat \ {0} /\ Len(change) \in Nat
      /\ DOMAIN reqRevision = 1..Len(reqRevision) /\ DOMAIN change = 1..Len(change)
      /\ \A i \in 1..Len(reqRevision) : reqRevision[i] \in RequirementRow
      /\ UNCHANGED designRows /\ Done(e)
  BY RequestFacts, RowFacts DEF InsertDraft, Edit, NothingToBind
<1>1. CASE InsertDraft(e)
  <2> DEFINE x == j.text
             n == j.number
             draft == [status |-> "DRAFT", text |-> x]
             row == [status |-> "DRAFT", to |-> n, affected |-> {}, generated |-> {}, baseline |-> 0]
  <2>1. /\ UNCHANGED requirement
        /\ \/ UNCHANGED <<reqRevision, change>>
           \/ /\ ~ (n <= Len(reqRevision))
              /\ reqRevision' = Append(reqRevision, draft) /\ change' = Append(change, row)
    BY <1>1 DEF InsertDraft
  <2>2. n \in 1..(Len(reqRevision) + 1) /\ x \in Contents /\ n \in Nat \ {0}
    BY <1>0, <1>1 DEF JobReady, InsertDraft
  <2>3. draft \in RequirementRow /\ row \in ChangeRow /\ row.to = n
    BY <2>2 DEF RequirementRow, ChangeRow, ChangeStatus
  <2> HIDE DEF draft, row, x, n, j
  <2>4. CASE UNCHANGED <<reqRevision, change>>
    <3>1. /\ reqRevision' \in Seq(RequirementRow) /\ Len(reqRevision) <= Len(reqRevision')
          /\ requirement' \in Contents /\ change' \in Seq(ChangeRow) /\ Len(change) <= Len(change')
          /\ \A k \in DOMAIN change' : change'[k].to \in 1..Len(reqRevision')
      BY <1>0, <2>1, <2>4 DEF DesignRowsOK
    <3> QED BY <1>0, <3>1, ChangeRowsTyped
  <2>5. CASE ~ (n <= Len(reqRevision)) /\ reqRevision' = Append(reqRevision, draft) /\ change' = Append(change, row)
    <3>1. n = Len(reqRevision) + 1
      BY <1>0, <2>2, <2>5
    <3>2. reqRevision' \in Seq(RequirementRow) /\ Len(reqRevision') = Len(reqRevision) + 1
      BY <1>0, <2>3, <2>5 DEF DesignRowsOK
    <3>3. /\ change' \in Seq(ChangeRow) /\ Len(change') = Len(change) + 1
          /\ DOMAIN change' = 1..(Len(change) + 1)
          /\ \A k \in 1..(Len(change) + 1) : change'[k] = IF k = Len(change) + 1 THEN row ELSE change[k]
      BY <1>0, <2>3, <2>5 DEF DesignRowsOK
    <3>4. \A k \in DOMAIN change' : change'[k].to \in 1..Len(reqRevision')
      BY <1>0, <2>2, <2>3, <3>1, <3>2, <3>3 DEF DesignRowsOK
    <3>5. /\ requirement' \in Contents
          /\ Len(reqRevision) <= Len(reqRevision') /\ Len(change) <= Len(change')
      BY <1>0, <2>1, <3>2, <3>3 DEF DesignRowsOK
    <3> QED BY <1>0, <3>2, <3>3, <3>4, <3>5, ChangeRowsTyped
  <2> QED BY <2>1, <2>4, <2>5
<1>2. CASE Edit(e)
  <2> DEFINE n == j.number
  <2>1. PICK t \in Contents : reqRevision' = [reqRevision EXCEPT ![n] = [reqRevision[n] EXCEPT !.text = t]]
    BY <1>2 DEF Edit
  <2> DEFINE row == [reqRevision[n] EXCEPT !.text = t]
  <2>2. n \in 1..Len(reqRevision) /\ UNCHANGED <<requirement, change>>
    BY <1>0, <1>2 DEF JobReady, Edit
  <2>3. row \in RequirementRow
    BY <1>0, <2>2 DEF RequirementRow
  <2>4. reqRevision' = [reqRevision EXCEPT ![n] = row]
    BY <2>1
  <2> HIDE DEF row, n, j
  <2>5. reqRevision' \in Seq(RequirementRow) /\ Len(reqRevision') = Len(reqRevision)
    BY <1>0, <2>2, <2>3, <2>4, RowReplaced DEF DesignRowsOK
  <2>6. /\ requirement' \in Contents /\ change' \in Seq(ChangeRow)
        /\ Len(reqRevision) <= Len(reqRevision') /\ Len(change) <= Len(change')
        /\ \A k \in DOMAIN change' : change'[k].to \in 1..Len(reqRevision')
    BY <1>0, <2>2, <2>5 DEF DesignRowsOK
  <2> QED BY <1>0, <2>5, <2>6, ChangeRowsTyped
<1>3. CASE NothingToBind(e)
  <2>1. ConfirmDraft(j) /\ change' = change /\ j.at = "next_generated"
    BY <1>3 DEF NothingToBind
  <2>2. j.change # 0 /\ j.text \in Contents /\ j.change \in 1..Len(change)
    BY <1>0, <2>1 DEF JobReady
  <2> HIDE DEF j
  <2>3. /\ reqRevision' \in Seq(RequirementRow) /\ requirement' \in Contents
        /\ Len(reqRevision') = Len(reqRevision)
    BY <1>0, <2>1, <2>2, ConfirmDraftRows
  <2>4. /\ change' \in Seq(ChangeRow)
        /\ Len(reqRevision) <= Len(reqRevision') /\ Len(change) <= Len(change')
        /\ \A k \in DOMAIN change' : change'[k].to \in 1..Len(reqRevision')
    BY <1>0, <2>1, <2>3 DEF DesignRowsOK
  <2> QED BY <1>0, <2>3, <2>4, ChangeRowsTyped
<1> HIDE DEF j
<1> QED BY <1>1, <1>2, <1>3

LEMMA EditorsStopType ==
  ASSUME DesignTypeInv, EditorsStop
  PROVE  DesignTypeInv'
<1>1. /\ UNCHANGED <<revision, confirmed, baselines, reqRevision, requirement, change>>
      /\ job' = [e \in Editors |-> NoJob]
  BY DEF EditorsStop, designRows, changeRows
<1>2. DesignRowsOK' /\ Len(reqRevision') \in Nat /\ Len(change') \in Nat
  BY <1>1 DEF DesignTypeInv, DesignRowsOK
<1>3. NoJob \in Job /\ JobReady(NoJob, AllWritten', Len(reqRevision'), Len(change'))
  BY <1>2, NoJobReady
<1> QED BY <1>1, <1>2, <1>3 DEF DesignTypeInv

LEMMA NextDesignType == DesignTypeInv /\ [DesignNext]_designVars => DesignTypeInv'
<1> SUFFICES ASSUME DesignTypeInv, [DesignNext]_designVars PROVE DesignTypeInv'
  OBVIOUS
<1>1. CASE UNCHANGED designVars
  BY <1>1 DEF designVars, designRows, changeRows, DesignTypeInv, DesignRowsOK, AllWritten
<1>2. ASSUME NEW e \in Editors, GoOnEditing(e) PROVE DesignTypeInv'
  BY <1>2, ReadingTypes, RevisionWriters, InsertRevisionType, FreezeBaselineType, ConfirmType,
     ChangeWriters, DraftWriters DEF GoOnEditing
<1> QED BY <1>1, <1>2, CreateArtifactType, BeginEditingType, EditorsStopType DEF DesignNext

LEMMA DesignTypeAlways == DesignSpec => []DesignTypeInv
BY InitDesignType, NextDesignType, PTL DEF DesignSpec

-----------------------------------------------------------------------------
(* What is confirmed stays as it is *)

Changing == {"save", "submit", "return"}

\* A revision that was confirmed while no request had it in hand keeps a status in
\* which none takes it in hand.
FrozenInv ==
  /\ overtaken \subseteq confirmed
  /\ \A r \in confirmed \ overtaken : /\ revision[r].status \in {"CONFIRMED", "SUPERSEDED"}
                                      /\ r \notin InHand

\* What ConfirmedIsFrozen says of one step.
StaysFrozen ==
  \A r \in confirmed \ overtaken :
    /\ revision'[r].snapshot = revision[r].snapshot
    /\ revision'[r].status \in {"CONFIRMED", "SUPERSEDED"}

\* Request e goes on; what it takes in hand is editable or in review.
LEMMA HandsFollow ==
  ASSUME DesignTypeInv, FrozenInv, UNCHANGED <<confirmed, overtaken>>, StaysFrozen,
         NEW e \in Editors, NEW k, job' = [job EXCEPT ![e] = k],
         k.at \in Changing => revision[k.rev].status \in {"DRAFT", "IN_REVIEW"}
  PROVE  FrozenInv' /\ StaysFrozen
<1>1. \A d \in Editors : job'[d] = IF d = e THEN k ELSE job[d]
  BY DEF DesignTypeInv
<1>2. InHand' = {job'[d].rev : d \in {c \in Editors : job'[c].at \in Changing}}
  BY DEF InHand, Changing
<1>3. ASSUME NEW r \in confirmed \ overtaken, r \in InHand' PROVE FALSE
  <2>1. PICK d \in Editors : job'[d].at \in Changing /\ job'[d].rev = r
    BY <1>2, <1>3
  <2>2. revision[r].status \in {"CONFIRMED", "SUPERSEDED"} /\ r \notin InHand
    BY DEF FrozenInv
  <2>3. CASE d = e
    BY <1>1, <2>1, <2>2, <2>3
  <2>4. CASE d # e
    BY <1>1, <2>1, <2>2, <2>4 DEF InHand, Changing
  <2> QED BY <2>3, <2>4
<1> QED BY <1>3 DEF FrozenInv, StaysFrozen

LEMMA EndFollows ==
  ASSUME DesignTypeInv, FrozenInv, UNCHANGED <<confirmed, overtaken>>, StaysFrozen,
         NEW e \in Editors, Done(e)
  PROVE  FrozenInv' /\ StaysFrozen
BY HandsFollow DEF Done, NoJob, Changing

\* Revisions as they were.
LEMMA SameStaysFrozen ==
  ASSUME FrozenInv, UNCHANGED revision
  PROVE  StaysFrozen
BY DEF FrozenInv, StaysFrozen

LEMMA BeginEditingFrozen ==
  ASSUME DesignTypeInv, FrozenInv, NEW e \in Editors, BeginEditing(e)
  PROVE  FrozenInv' /\ StaysFrozen
<1>0. UNCHANGED <<revision, confirmed, overtaken>>
  BY DEF BeginEditing, BeginCreate, BeginSave, BeginSubmit, BeginReturn, BeginConfirm, designRows,
     BeginBaseline, BeginDraft, BeginEdit, BeginImpact, BeginRegenerate, BeginConfirmChange
<1>1. \A k : job' = [job EXCEPT ![e] = k] /\ k.at \notin Changing => FrozenInv' /\ StaysFrozen
  BY <1>0, HandsFollow, SameStaysFrozen
<1>2. CASE BeginCreate(e)
  <2>1. PICK r \in Revisions :
          job' = [job EXCEPT ![e] = [NoJob EXCEPT !.at = "number", !.rev = r,
                    !.snapshot = revision[r].snapshot, !.draft = revision[r].status = "DRAFT"]]
    BY <1>2 DEF BeginCreate, Start, WithStatus
  <2> DEFINE s == revision[r].snapshot
             d == revision[r].status = "DRAFT"
             k == [NoJob EXCEPT !.at = "number", !.rev = r, !.snapshot = s, !.draft = d]
  <2>2. job' = [job EXCEPT ![e] = k]
    BY <2>1
  <2> HIDE DEF s, d
  <2>3. k.at \notin Changing
    BY DEF NoJob, Changing
  <2> QED BY <1>1, <2>2, <2>3
<1>3. CASE BeginBaseline(e)
  <2>1. PICK S : job' = [job EXCEPT ![e] = [NoJob EXCEPT !.at = "pick", !.todo = S, !.made = S]]
    BY <1>3 DEF BeginBaseline, Start
  <2>2. [NoJob EXCEPT !.at = "pick", !.todo = S, !.made = S].at \notin Changing
    BY DEF NoJob, Changing
  <2> QED BY <1>1, <2>1, <2>2
<1>4. CASE BeginDraft(e)
  <2>1. PICK n, x : job' = [job EXCEPT ![e] = [NoJob EXCEPT !.at = "find_open", !.number = n, !.text = x]]
    BY <1>4 DEF BeginDraft, Start
  <2>2. [NoJob EXCEPT !.at = "find_open", !.number = n, !.text = x].at \notin Changing
    BY DEF NoJob, Changing
  <2> QED BY <1>1, <2>1, <2>2
<1>5. CASE BeginImpact(e)
  <2>1. PICK n : job' = [job EXCEPT ![e] = [NoJob EXCEPT !.at = "impact", !.change = n,
                                                         !.draft = change[n].status = "DRAFT"]]
    BY <1>5 DEF BeginImpact, Start
  <2> DEFINE d == change[n].status = "DRAFT"
             k == [NoJob EXCEPT !.at = "impact", !.change = n, !.draft = d]
  <2>2. job' = [job EXCEPT ![e] = k]
    BY <2>1
  <2> HIDE DEF d
  <2>3. k.at \notin Changing
    BY DEF NoJob, Changing
  <2> QED BY <1>1, <2>2, <2>3
<1>6. CASE BeginRegenerate(e)
  <2>1. PICK n, T : job' = [job EXCEPT ![e] = [NoJob EXCEPT !.at = "regenerate", !.change = n, !.targets = T]]
    BY <1>6 DEF BeginRegenerate, Start
  <2>2. [NoJob EXCEPT !.at = "regenerate", !.change = n, !.targets = T].at \notin Changing
    BY DEF NoJob, Changing
  <2> QED BY <1>1, <2>1, <2>2
<1>7. CASE BeginSave(e) \/ BeginSubmit(e) \/ BeginReturn(e)
  <2>1. PICK r \in Revisions, at \in Changing :
          /\ job' = [job EXCEPT ![e] = [NoJob EXCEPT !.at = at, !.rev = r]]
          /\ revision[r].status \in {"DRAFT", "IN_REVIEW"}
    BY <1>7 DEF BeginSave, BeginSubmit, BeginReturn, Start, Editable, InReview, WithStatus, Changing
  <2> DEFINE k == [NoJob EXCEPT !.at = at, !.rev = r]
  <2>2. k.rev = r
    BY DEF NoJob
  <2> HIDE DEF k
  <2>3. job' = [job EXCEPT ![e] = k]
    BY <2>1 DEF k
  <2> QED BY <1>0, <2>1, <2>2, <2>3, HandsFollow, SameStaysFrozen
<1>8. CASE BeginConfirm(e)
  <2>1. PICK r, s : job' = [job EXCEPT ![e] = [NoJob EXCEPT !.at = "siblings", !.rev = r, !.snapshot = s]]
    BY <1>8 DEF BeginConfirm, Start
  <2>2. [NoJob EXCEPT !.at = "siblings", !.rev = r, !.snapshot = s].at \notin Changing
    BY DEF NoJob, Changing
  <2> QED BY <1>1, <2>1, <2>2
<1>9. CASE BeginEdit(e)
  <2>1. PICK n : job' = [job EXCEPT ![e] = [NoJob EXCEPT !.at = "edit", !.number = n]]
    BY <1>9 DEF BeginEdit, Start
  <2>2. [NoJob EXCEPT !.at = "edit", !.number = n].at \notin Changing
    BY DEF NoJob, Changing
  <2> QED BY <1>1, <2>1, <2>2
<1>10. CASE BeginConfirmChange(e)
  <2>1. PICK n, G : job' = [job EXCEPT ![e] = [NoJob EXCEPT !.at = "reauth", !.change = n, !.todo = G, !.made = G]]
    BY <1>10 DEF BeginConfirmChange, Start
  <2>2. [NoJob EXCEPT !.at = "reauth", !.change = n, !.todo = G, !.made = G].at \notin Changing
    BY DEF NoJob, Changing
  <2> QED BY <1>1, <2>1, <2>2
<1> QED BY <1>2, <1>3, <1>4, <1>5, <1>6, <1>7, <1>8, <1>9, <1>10 DEF BeginEditing

\* A request that has nothing in hand and goes on to a step that changes no revision.
LEMMA ReadingFrozen ==
  ASSUME DesignTypeInv, FrozenInv, NEW e \in Editors,
         \/ ReadNumber(e) \/ ReadSiblings(e) \/ Pick(e) \/ FindOpen(e) \/ NextTarget(e)
         \/ Reauthenticate(e) \/ NextGenerated(e) \/ AllConfirmed(e)
  PROVE  FrozenInv' /\ StaysFrozen
<1> DEFINE j == job[e]
<1>0. UNCHANGED <<revision, confirmed, overtaken>> /\ j \in Job
  BY DEF ReadNumber, ReadSiblings, Pick, FindOpen, NextTarget, Reauthenticate, NextGenerated,
     AllConfirmed, designRows, DesignTypeInv
<1>1. \A k : job' = [job EXCEPT ![e] = k] /\ k.at \notin Changing => FrozenInv' /\ StaysFrozen
  BY <1>0, HandsFollow, SameStaysFrozen
<1>2. CASE Done(e)
  BY <1>0, <1>2, EndFollows, SameStaysFrozen
<1>3. CASE ReadNumber(e)
  <2>1. PICK n : job' = [job EXCEPT ![e] = [j EXCEPT !.at = "insert", !.number = n]]
    BY <1>3 DEF ReadNumber, Continue
  <2> HIDE DEF j
  <2>2. [j EXCEPT !.at = "insert", !.number = n].at \notin Changing
    BY <1>0 DEF Job, Changing
  <2> QED BY <1>1, <2>1, <2>2
<1>4. CASE ReadSiblings(e)
  <2>1. PICK O : job' = [job EXCEPT ![e] = [j EXCEPT !.at = "confirm", !.others = O]]
    BY <1>4 DEF ReadSiblings, Continue
  <2> HIDE DEF j
  <2>2. [j EXCEPT !.at = "confirm", !.others = O].at \notin Changing
    BY <1>0 DEF Job, Changing
  <2> QED BY <1>1, <2>1, <2>2
<1>5. CASE Pick(e) /\ ~ Done(e)
  <2>0. PICK r \in j.todo :
          job' = [job EXCEPT ![e] = [j EXCEPT !.todo = @ \ {r},
                                              !.at = IF j.todo = {r} THEN "freeze" ELSE "pick"]]
    BY <1>5 DEF Pick, Continue
  <2> DEFINE t == j.todo \ {r}
             a == IF j.todo = {r} THEN "freeze" ELSE "pick"
  <2>1. job' = [job EXCEPT ![e] = [j EXCEPT !.todo = t, !.at = a]] /\ a \in {"freeze", "pick"}
    BY <2>0
  <2> HIDE DEF t, a
  <2> HIDE DEF j
  <2>2. [j EXCEPT !.todo = t, !.at = a].at \notin Changing
    BY <1>0, <2>1 DEF Job, Changing
  <2> QED BY <1>1, <2>1, <2>2
<1>6. CASE FindOpen(e) /\ ~ Done(e)
  <2>1. job' = [job EXCEPT ![e] = [j EXCEPT !.at = "insert_draft"]]
    BY <1>6 DEF FindOpen, Continue
  <2> HIDE DEF j
  <2>2. [j EXCEPT !.at = "insert_draft"].at \notin Changing
    BY <1>0 DEF Job, Changing
  <2> QED BY <1>1, <2>1, <2>2
<1>7. CASE NextTarget(e)
  <2>0. PICK a \in j.targets :
          job' = [job EXCEPT ![e] = [j EXCEPT !.at = "number", !.targets = @ \ {a}, !.rev = Latest(a),
                                              !.snapshot = revision[Latest(a)].snapshot,
                                              !.draft = revision[Latest(a)].status = "DRAFT"]]
    BY <1>7 DEF NextTarget, Continue
  <2> DEFINE T == j.targets \ {a}
             v == Latest(a)
             s == revision[v].snapshot
             d == revision[v].status = "DRAFT"
  <2>1. job' = [job EXCEPT ![e] = [j EXCEPT !.at = "number", !.targets = T, !.rev = v,
                                            !.snapshot = s, !.draft = d]]
    BY <2>0
  <2> HIDE DEF T, v, s, d
  <2> HIDE DEF j
  <2>2. [j EXCEPT !.at = "number", !.targets = T, !.rev = v, !.snapshot = s, !.draft = d].at \notin Changing
    BY <1>0 DEF Job, Changing
  <2> QED BY <1>1, <2>1, <2>2
<1>8. CASE AllConfirmed(e)
  <2>1. job' = [job EXCEPT ![e] = [j EXCEPT !.at = "freeze", !.text = "NONE", !.olds = {}]]
    BY <1>8 DEF AllConfirmed, Continue
  <2> HIDE DEF j
  <2>2. [j EXCEPT !.at = "freeze", !.text = "NONE", !.olds = {}].at \notin Changing
    BY <1>0 DEF Job, Changing
  <2> QED BY <1>1, <2>1, <2>2
<1>9. CASE Reauthenticate(e) /\ ~ Done(e)
  <2>1. PICK x, O : job' = [job EXCEPT ![e] = [j EXCEPT !.at = "next_generated", !.text = x, !.olds = O]]
    BY <1>9 DEF Reauthenticate, Continue
  <2> HIDE DEF j
  <2>2. [j EXCEPT !.at = "next_generated", !.text = x, !.olds = O].at \notin Changing
    BY <1>0 DEF Job, Changing
  <2> QED BY <1>1, <2>1, <2>2
<1>10. CASE NextGenerated(e) /\ ~ Done(e)
  <2>1. PICK r, s : job' = [job EXCEPT ![e] = [j EXCEPT !.at = "siblings", !.rev = r, !.snapshot = s]]
    BY <1>10 DEF NextGenerated, Continue
  <2> HIDE DEF j
  <2>2. [j EXCEPT !.at = "siblings", !.rev = r, !.snapshot = s].at \notin Changing
    BY <1>0 DEF Job, Changing
  <2> QED BY <1>1, <2>1, <2>2
<1> HIDE DEF j
<1> QED BY <1>2, <1>3, <1>4, <1>5, <1>6, <1>7, <1>8, <1>9, <1>10

\* What a request changes it has in hand: nothing that was confirmed since.
LEMMA WritersFrozen ==
  ASSUME DesignTypeInv, FrozenInv, NEW e \in Editors,
         Save(e) \/ Submit(e) \/ ReturnToDraft(e)
  PROVE  FrozenInv' /\ StaysFrozen
<1> DEFINE g == job[e].rev
<1>1. UNCHANGED <<confirmed, overtaken>> /\ Done(e) /\ g \in InHand
  BY DEF Save, Submit, ReturnToDraft, InHand
<1>2. PICK row : revision' = [revision EXCEPT ![g] = row]
  BY DEF Save, Submit, ReturnToDraft
<1>3. \A r \in Revisions : r # g => revision'[r] = revision[r]
  BY <1>2 DEF DesignTypeInv, DesignRowsOK
<1>4. confirmed \subseteq Revisions /\ g \notin confirmed \ overtaken
  BY <1>1 DEF FrozenInv, DesignTypeInv, DesignRowsOK
<1> HIDE DEF g
<1>5. StaysFrozen
  BY <1>3, <1>4 DEF StaysFrozen, FrozenInv
<1> QED BY <1>1, <1>5, EndFollows

\* A new number has no row, so nobody confirmed it; a parent only leaves its status.
LEMMA InsertRevisionFrozen ==
  ASSUME DesignTypeInv, FrozenInv, NEW e \in Editors, InsertRevision(e)
  PROVE  FrozenInv' /\ StaysFrozen
<1> DEFINE j == job[e]
           new == <<Of(j.rev), j.number>>
           row == [status |-> "DRAFT", snapshot |-> j.snapshot]
           t == j.targets
           m == j.made \cup {new}
           n == j.change
           loop == [NoJob EXCEPT !.at = "regenerate", !.targets = t, !.made = m, !.change = n]
           old == [revision[j.rev] EXCEPT !.status = "SUPERSEDED"]
<1>0. DesignRowsOK /\ j.rev \in Revisions /\ revision[j.rev] \in RevisionRow
  <2>1. j.at = "insert"
    BY DEF InsertRevision
  <2> QED BY <2>1, RequestFacts, RowFacts DEF JobReady, AllWritten
<1>1. UNCHANGED <<confirmed, overtaken>>
  BY DEF InsertRevision
<1>2. StaysFrozen
  <2>1. CASE revision[new] # Unwritten
    BY <2>1, SameStaysFrozen DEF InsertRevision
  <2>2. CASE revision[new] = Unwritten
    <3>1. \A r \in Revisions : revision'[r] = IF r = new THEN row
                                 ELSE IF r = j.rev /\ j.draft THEN old ELSE revision[r]
      BY <2>2 DEF InsertRevision
    <3>2. old.snapshot = revision[j.rev].snapshot /\ old.status = "SUPERSEDED"
      BY <1>0 DEF RevisionRow
    <3>3. new \notin confirmed \ overtaken /\ confirmed \subseteq Revisions
      <4> HIDE DEF new
      <4>1. revision[new].status = "NONE"
        BY <2>2 DEF Unwritten
      <4> QED BY <1>0, <4>1 DEF FrozenInv, DesignRowsOK
    <3> HIDE DEF old, row, new, j
    <3> QED BY <3>1, <3>2, <3>3 DEF StaysFrozen, FrozenInv
  <2> QED BY <2>1, <2>2
<1>3. Done(e) \/ job' = [job EXCEPT ![e] = loop]
  BY DEF InsertRevision, Continue
<1>4. loop.at \notin Changing
  BY DEF NoJob, Changing
<1> HIDE DEF loop
<1> QED BY <1>1, <1>2, <1>3, <1>4, EndFollows, HandsFollow

\* The revision confirmed is marked if somebody has it in hand; siblings leave their status.
LEMMA ConfirmFrozen ==
  ASSUME DesignTypeInv, FrozenInv, NEW e \in Editors, Confirm(e)
  PROVE  FrozenInv' /\ StaysFrozen
<1> DEFINE j == job[e]
           g == j.rev
           t == j.todo \ {g}
           k == [j EXCEPT !.at = "next_generated", !.todo = t, !.rev = NoRev,
                          !.snapshot = "NONE", !.others = {}]
<1>0. /\ DesignRowsOK /\ j \in Job /\ g \in Revisions /\ j.others \subseteq AllWritten
      /\ \A r \in AllWritten : revision[r] \in RevisionRow
  <2>1. j.at = "confirm"
    BY DEF Confirm
  <2> QED BY <2>1, RequestFacts, RowFacts DEF JobReady, AllWritten
<1>1. CASE g \in confirmed
  <2>1. Done(e) /\ UNCHANGED <<revision, confirmed, overtaken>>
    BY <1>1 DEF Confirm
  <2> QED BY <2>1, SameStaysFrozen, EndFollows
<1>2. CASE g \notin confirmed
  <2> DEFINE s == IF Of(g) \in Designs THEN j.snapshot ELSE revision[g].snapshot
             row == [status |-> "CONFIRMED", snapshot |-> s]
             O == j.others
             old(r) == [revision[r] EXCEPT !.status = "SUPERSEDED"]
  <2>1. /\ Freeze(j) /\ confirmed' = confirmed \cup {g}
        /\ overtaken' = overtaken \cup ({g} \cap InHand)
        /\ Done(e) \/ job' = [job EXCEPT ![e] = k]
    BY <1>2 DEF Confirm, Continue
  <2>2. \A r \in Revisions : revision'[r] = IF r = g THEN row ELSE IF r \in O THEN old(r) ELSE revision[r]
    <3>1. revision' = [r \in Revisions |-> IF r = g THEN row ELSE IF r \in O THEN old(r) ELSE revision[r]]
      BY <2>1 DEF Freeze
    <3> HIDE DEF row, O, old, g, j
    <3> QED BY <3>1
  <2>3. \A r \in O : old(r).status = "SUPERSEDED" /\ old(r).snapshot = revision[r].snapshot
    <3>1. \A r \in O : revision[r] \in RevisionRow
      BY <1>0
    <3> HIDE DEF O
    <3> QED BY <3>1 DEF RevisionRow
  <2>4. row.status = "CONFIRMED"
    OBVIOUS
  <2>5. confirmed \subseteq Revisions
    BY <1>0 DEF DesignRowsOK
  <2>6. NoJob.at \notin Changing /\ k.at \notin Changing
    <3> HIDE DEF j, t
    <3> QED BY <1>0 DEF NoJob, Changing, Job
  <2> HIDE DEF row, old, O
  <2>7. StaysFrozen
    <3> HIDE DEF j
    <3> QED BY <1>2, <2>2, <2>3, <2>5 DEF StaysFrozen, FrozenInv
  <2>8. InHand' \subseteq InHand
    <3>1. PICK q : job' = [job EXCEPT ![e] = q] /\ q.at \notin Changing
      <4> HIDE DEF k
      <4> QED BY <2>1, <2>6 DEF Done
    <3>2. \A d \in Editors : job'[d] = IF d = e THEN q ELSE job[d]
      BY <3>1 DEF DesignTypeInv
    <3>3. InHand' = {job'[d].rev : d \in {c \in Editors : job'[c].at \in Changing}}
      BY DEF InHand, Changing
    <3>4. \A d \in Editors : job'[d].at \in Changing => d # e /\ job'[d] = job[d]
      BY <3>1, <3>2
    <3> QED BY <3>3, <3>4 DEF InHand, Changing
  <2>9. overtaken' \subseteq confirmed'
    <3> HIDE DEF g
    <3> QED BY <2>1 DEF FrozenInv
  <2>10. ASSUME NEW r \in confirmed' \ overtaken'
         PROVE  revision'[r].status \in {"CONFIRMED", "SUPERSEDED"} /\ r \notin InHand'
    <3> HIDE DEF g, k
    <3>1. CASE r = g
      BY <1>0, <2>1, <2>2, <2>4, <2>8, <2>10, <3>1
    <3>2. CASE r # g
      BY <2>1, <2>7, <2>8, <2>10, <3>2 DEF StaysFrozen, FrozenInv
    <3> QED BY <3>1, <3>2
  <2>11. FrozenInv'
    BY <2>9, <2>10 DEF FrozenInv
  <2> QED BY <2>7, <2>11
<1> QED BY <1>1, <1>2

\* Requests that write other rows, and end or go on to close their change.
LEMMA OtherWritersFrozen ==
  ASSUME DesignTypeInv, FrozenInv, NEW e \in Editors,
         \/ FreezeBaseline(e) \/ StoreImpact(e) \/ CloseRegenerate(e) \/ CloseChange(e)
         \/ InsertDraft(e) \/ Edit(e) \/ NothingToBind(e)
  PROVE  FrozenInv' /\ StaysFrozen
<1> DEFINE n == job[e].change
           l == Len(baselines) + 1
           close == [NoJob EXCEPT !.at = "close", !.change = n, !.number = l]
<1>1. UNCHANGED <<revision, confirmed, overtaken>> /\ (Done(e) \/ job' = [job EXCEPT ![e] = close])
  BY DEF FreezeBaseline, StoreImpact, CloseRegenerate, CloseChange, InsertDraft, Edit, NothingToBind,
     Continue, designRows
<1>2. close.at \notin Changing
  BY DEF NoJob, Changing
<1> HIDE DEF close
<1> QED BY <1>1, <1>2, SameStaysFrozen, EndFollows, HandsFollow

LEMMA NextFrozen ==
  DesignTypeInv /\ FrozenInv /\ [DesignNext]_designVars => FrozenInv' /\ StaysFrozen
<1> SUFFICES ASSUME DesignTypeInv, FrozenInv, [DesignNext]_designVars PROVE FrozenInv' /\ StaysFrozen
  OBVIOUS
<1>1. CASE UNCHANGED designVars
  <2>1. UNCHANGED <<revision, confirmed, overtaken, job>>
    BY <1>1 DEF designVars, designRows
  <2> QED BY <2>1, SameStaysFrozen DEF FrozenInv, InHand
<1>2. ASSUME NEW a \in Artifacts, CreateArtifact(a) PROVE FrozenInv' /\ StaysFrozen
  <2> DEFINE new == <<a, 1>>
  <2>1. PICK row : revision' = [revision EXCEPT ![new] = row]
    BY <1>2 DEF CreateArtifact
  <2>2. UNCHANGED <<confirmed, overtaken, job>> /\ InHand' = InHand
    BY <1>2 DEF CreateArtifact, InHand
  <2>3. new \in Revisions
    BY DesignBoundsAssumption DEF Revisions
  <2>4. revision[new].status = "NONE"
    BY <1>2, <2>3 DEF CreateArtifact, Written, Of, Unwritten
  <2> HIDE DEF new
  <2>5. /\ \A r \in Revisions : r # new => revision'[r] = revision[r]
        /\ confirmed \subseteq Revisions
    BY <2>1 DEF DesignTypeInv, DesignRowsOK
  <2>6. new \notin confirmed \ overtaken
    BY <2>4 DEF FrozenInv
  <2>7. StaysFrozen
    BY <2>5, <2>6 DEF StaysFrozen, FrozenInv
  <2> QED BY <2>2, <2>7 DEF FrozenInv, StaysFrozen
<1>3. ASSUME EditorsStop PROVE FrozenInv' /\ StaysFrozen
  <2>1. UNCHANGED <<revision, confirmed, overtaken>> /\ \A e \in Editors : job'[e] = NoJob
    BY <1>3 DEF EditorsStop, designRows
  <2>2. InHand' = {job'[d].rev : d \in {c \in Editors : job'[c].at \in Changing}}
    BY DEF InHand, Changing
  <2>3. InHand' = {}
    BY <2>1, <2>2 DEF NoJob, Changing
  <2> QED BY <2>1, <2>3, SameStaysFrozen DEF FrozenInv
<1>4. ASSUME NEW e \in Editors, GoOnEditing(e) PROVE FrozenInv' /\ StaysFrozen
  BY <1>4, ReadingFrozen, WritersFrozen, InsertRevisionFrozen, ConfirmFrozen, OtherWritersFrozen
     DEF GoOnEditing
<1> QED BY <1>1, <1>2, <1>3, <1>4, BeginEditingFrozen DEF DesignNext

LEMMA FrozenAlways == DesignSpec => []FrozenInv
<1>1. DesignInit => FrozenInv
  BY DEF DesignInit, FrozenInv
<1> QED BY <1>1, NextFrozen, DesignTypeAlways, PTL DEF DesignSpec

\* Revisions, baselines, the requirement's drafts and its changes keep their forms,
\* and so does what every request carries between its queries and its commit: it
\* never writes a revision or a draft that is not there, nor a number beyond the last.
THEOREM DesignTypeCorrect == DesignSpec => []DesignTypeOK
<1>1. DesignTypeInv /\ FrozenInv => DesignTypeOK
  BY DEF DesignTypeInv, DesignTypeOK, DesignRowsOK, FrozenInv
<1> QED BY <1>1, DesignTypeAlways, FrozenAlways, PTL

\* "A confirmed revision is immutable" (REVISION_BASELINE_MODEL.md:3), whatever
\* requests overlap and wherever they are cut off, unless the confirmation came between
\* the editable test of another request and its commit (services.py:653-657).
THEOREM ConfirmedIsImmutable == DesignSpec => ConfirmedIsFrozen
<1>1. DesignTypeInv /\ FrozenInv /\ [DesignNext]_designVars => [StaysFrozen]_designVars
  BY NextFrozen
<1>2. DesignSpec => [][StaysFrozen]_designVars
  BY <1>1, DesignTypeAlways, FrozenAlways, PTL DEF DesignSpec
<1> QED BY <1>2 DEF ConfirmedIsFrozen, StaysFrozen

-----------------------------------------------------------------------------
(* One request at a time *)

\* The draft a change confirms is as confirm_change read it, and so is what it replaces.
DraftInHand(j, drafts, changes) ==
  LET n == changes[j.change].to IN
  /\ j.text = drafts[n].text
  /\ j.olds = {i \in DOMAIN drafts : drafts[i].status = "CONFIRMED" /\ i # n}

\* What a request read is still so, while no other request is at work. The draft in
\* hand is confirmed with the first revision of the change, and only with it.
StillSo(j, rows, drafts, changes) ==
  /\ j.at \in {"save", "submit"} => rows[j.rev].status = "DRAFT"
  /\ j.at = "return" => rows[j.rev].status = "IN_REVIEW"
  /\ j.at = "confirm" =>
       j.others = {s \in Revisions : rows[s].status = "CONFIRMED" /\ Of(s) = Of(j.rev) /\ s # j.rev}
  /\ j.at = "edit" => drafts[j.number].status = "DRAFT"
  /\ j.at = "reauth" => j.todo = j.made
  /\ j.at \in {"next_generated", "siblings", "confirm"} /\ j.change # 0 =>
       /\ j.todo \subseteq j.made
       /\ j.at # "next_generated" => j.rev \in j.todo
       /\ j.todo = j.made => DraftInHand(j, drafts, changes)

\* The steps that rely on nothing read before.
ReliesOnNothing == {"idle", "number", "insert", "pick", "freeze", "find_open", "insert_draft",
                    "impact", "regenerate", "close"}

ConfirmedStay == \A r \in confirmed : revision[r].status \in {"CONFIRMED", "SUPERSEDED"}

SoleInv ==
  /\ \A e \in Editors : StillSo(job[e], revision, reqRevision, change)
  /\ ConfirmedStay
  /\ OneCurrentRevision
  /\ RequirementShowsConfirmed

\* No confirmed revision changes but to be superseded.
FrozenStep ==
  \A r \in confirmed :
    /\ revision'[r].snapshot = revision[r].snapshot
    /\ revision'[r].status \in {"CONFIRMED", "SUPERSEDED"}

LEMMA QuietStep ==
  ASSUME NEW j, j.at \in ReliesOnNothing, NEW rows, NEW drafts, NEW changes
  PROVE  StillSo(j, rows, drafts, changes)
BY DEF StillSo, ReliesOnNothing

\* A step of the one request: no other one is there to be misled.
LEMMA SoleRequest ==
  ASSUME \A d, e \in Editors : d = e, DesignTypeInv,
         NEW e \in Editors, NEW k, job' = [job EXCEPT ![e] = k],
         StillSo(k, revision', reqRevision', change')
  PROVE  \A d \in Editors : StillSo(job'[d], revision', reqRevision', change')
<1>1. job'[e] = k
  BY DEF DesignTypeInv
<1> QED BY <1>1

\* Nothing becomes CONFIRMED and what was confirmed stays.
LEMMA NothingConfirmed ==
  ASSUME SoleInv, FrozenStep, UNCHANGED confirmed,
         \A r \in Revisions : revision'[r].status = "CONFIRMED" => revision[r].status = "CONFIRMED"
  PROVE  ConfirmedStay' /\ OneCurrentRevision'
BY DEF SoleInv, FrozenStep, ConfirmedStay, OneCurrentRevision, WithStatus

LEMMA SameRevisions ==
  ASSUME SoleInv, UNCHANGED designRows
  PROVE  ConfirmedStay' /\ OneCurrentRevision' /\ FrozenStep
<1>1. UNCHANGED <<revision, confirmed>>
  BY DEF designRows
<1>2. FrozenStep
  BY <1>1 DEF SoleInv, ConfirmedStay, FrozenStep
<1> QED BY <1>1, <1>2, NothingConfirmed

LEMMA SameRequirement ==
  ASSUME SoleInv, UNCHANGED <<reqRevision, requirement>>
  PROVE  RequirementShowsConfirmed'
BY DEF SoleInv, RequirementShowsConfirmed

\* A request that reads, or begins.
LEMMA SoleReads ==
  ASSUME \A d, e \in Editors : d = e, DesignTypeInv, SoleInv,
         UNCHANGED <<designRows, changeRows>>,
         NEW e \in Editors, NEW k, job' = [job EXCEPT ![e] = k],
         StillSo(k, revision, reqRevision, change)
  PROVE  SoleInv' /\ FrozenStep
<1>1. UNCHANGED <<revision, reqRevision, requirement, change>>
  BY DEF designRows, changeRows
<1>2. StillSo(k, revision', reqRevision', change')
  BY <1>1
<1> QED BY <1>1, <1>2, SoleRequest, SameRevisions, SameRequirement DEF SoleInv

LEMMA InitSole == DesignInit => SoleInv
<1> SUFFICES ASSUME DesignInit PROVE SoleInv
  OBVIOUS
<1>1. \A e \in Editors : StillSo(job[e], revision, reqRevision, change)
  BY QuietStep DEF DesignInit, NoJob, ReliesOnNothing
<1>2. OneCurrentRevision /\ ConfirmedStay
  BY DEF DesignInit, OneCurrentRevision, ConfirmedStay, WithStatus, Unwritten
<1>3. RequirementShowsConfirmed
  BY DEF DesignInit, RequirementShowsConfirmed
<1> QED BY <1>1, <1>2, <1>3 DEF SoleInv

LEMMA CreateArtifactSole ==
  ASSUME DesignTypeInv, SoleInv, NEW a \in Artifacts, CreateArtifact(a)
  PROVE  SoleInv' /\ FrozenStep
<1> DEFINE new == <<a, 1>>
<1>1. PICK row \in RevisionRow : revision' = [revision EXCEPT ![new] = row] /\ row.status = "DRAFT"
  <2>1. PICK c \in Contents : revision' = [revision EXCEPT ![new] = [status |-> "DRAFT", snapshot |-> c]]
    BY DEF CreateArtifact
  <2>2. [status |-> "DRAFT", snapshot |-> c] \in RevisionRow
    BY DEF RevisionRow, RevisionStatus
  <2> QED BY <2>1, <2>2
<1>2. /\ new \in Revisions /\ revision[new] = Unwritten
      /\ UNCHANGED <<confirmed, reqRevision, requirement, change, job>>
  <2>1. new \in Revisions
    BY DesignBoundsAssumption DEF Revisions
  <2>2. revision[new] = Unwritten
    BY <2>1 DEF CreateArtifact, Written, Of
  <2> QED BY <2>1, <2>2 DEF CreateArtifact, changeRows
<1> HIDE DEF new
<1>3. \A r \in Revisions : revision'[r] = IF r = new THEN row ELSE revision[r]
  BY <1>1 DEF DesignTypeInv, DesignRowsOK
<1>4. new \notin confirmed /\ confirmed \subseteq Revisions
  BY <1>2 DEF SoleInv, ConfirmedStay, Unwritten, DesignTypeInv, DesignRowsOK
<1>5. FrozenStep
  BY <1>3, <1>4 DEF SoleInv, ConfirmedStay, FrozenStep
<1>6. \A r \in Revisions : (revision'[r].status = "CONFIRMED") <=> (revision[r].status = "CONFIRMED")
  BY <1>1, <1>2, <1>3 DEF Unwritten
<1>7. ASSUME NEW e \in Editors PROVE StillSo(job'[e], revision', reqRevision', change')
  <2> DEFINE j == job[e]
  <2>1. StillSo(j, revision, reqRevision, change) /\ job'[e] = j /\ reqRevision' = reqRevision /\ change' = change
    BY <1>2 DEF SoleInv
  <2>2. j.at \in {"save", "submit", "return"} => j.rev # new /\ j.rev \in Revisions
    BY <1>2 DEF DesignTypeInv, JobReady, AllWritten
  <2> HIDE DEF j
  <2> QED BY <1>3, <1>6, <2>1, <2>2 DEF StillSo
<1> QED BY <1>2, <1>5, <1>6, <1>7, NothingConfirmed, SameRequirement DEF SoleInv

LEMMA BeginEditingSole ==
  ASSUME \A d, c \in Editors : d = c, DesignTypeInv, SoleInv, NEW e \in Editors, BeginEditing(e)
  PROVE  SoleInv' /\ FrozenStep
<1> DEFINE Still(k) == StillSo(k, revision, reqRevision, change)
<1>0. \A k : job' = [job EXCEPT ![e] = k] /\ Still(k) => SoleInv' /\ FrozenStep
  <2>1. UNCHANGED <<designRows, changeRows>>
    BY DEF BeginEditing, BeginCreate, BeginSave, BeginSubmit, BeginReturn, BeginConfirm,
       BeginBaseline, BeginDraft, BeginEdit, BeginImpact, BeginRegenerate, BeginConfirmChange
  <2> QED BY <2>1, SoleReads
<1>1. \A k : job' = [job EXCEPT ![e] = k] /\ k.at \in ReliesOnNothing => SoleInv' /\ FrozenStep
  BY <1>0, QuietStep
<1>2. CASE BeginCreate(e)
  <2>1. PICK r \in Revisions :
          job' = [job EXCEPT ![e] = [NoJob EXCEPT !.at = "number", !.rev = r,
                    !.snapshot = revision[r].snapshot, !.draft = revision[r].status = "DRAFT"]]
    BY <1>2 DEF BeginCreate, Start, WithStatus
  <2> DEFINE s == revision[r].snapshot
             d == revision[r].status = "DRAFT"
  <2>3. job' = [job EXCEPT ![e] = [NoJob EXCEPT !.at = "number", !.rev = r, !.snapshot = s, !.draft = d]]
    BY <2>1
  <2> HIDE DEF s, d
  <2>2. [NoJob EXCEPT !.at = "number", !.rev = r, !.snapshot = s, !.draft = d].at = "number"
    BY DEF NoJob
  <2> QED BY <1>1, <2>3, <2>2 DEF ReliesOnNothing
<1>3. CASE BeginBaseline(e)
  <2>1. PICK S : job' = [job EXCEPT ![e] = [NoJob EXCEPT !.at = "pick", !.todo = S, !.made = S]]
    BY <1>3 DEF BeginBaseline, Start
  <2>2. [NoJob EXCEPT !.at = "pick", !.todo = S, !.made = S].at = "pick"
    BY DEF NoJob
  <2> QED BY <1>1, <2>1, <2>2 DEF ReliesOnNothing
<1>4. CASE BeginDraft(e)
  <2>1. PICK n, x : job' = [job EXCEPT ![e] = [NoJob EXCEPT !.at = "find_open", !.number = n, !.text = x]]
    BY <1>4 DEF BeginDraft, Start
  <2>2. [NoJob EXCEPT !.at = "find_open", !.number = n, !.text = x].at = "find_open"
    BY DEF NoJob
  <2> QED BY <1>1, <2>1, <2>2 DEF ReliesOnNothing
<1>5. CASE BeginImpact(e)
  <2>0. PICK n : job' = [job EXCEPT ![e] = [NoJob EXCEPT !.at = "impact", !.change = n,
                                                         !.draft = change[n].status = "DRAFT"]]
    BY <1>5 DEF BeginImpact, Start
  <2> DEFINE d == change[n].status = "DRAFT"
  <2>1. job' = [job EXCEPT ![e] = [NoJob EXCEPT !.at = "impact", !.change = n, !.draft = d]]
    BY <2>0
  <2> HIDE DEF d
  <2>2. [NoJob EXCEPT !.at = "impact", !.change = n, !.draft = d].at = "impact"
    BY DEF NoJob
  <2> QED BY <1>1, <2>1, <2>2 DEF ReliesOnNothing
<1>6. CASE BeginRegenerate(e)
  <2>1. PICK n, T : job' = [job EXCEPT ![e] = [NoJob EXCEPT !.at = "regenerate", !.change = n, !.targets = T]]
    BY <1>6 DEF BeginRegenerate, Start
  <2>2. [NoJob EXCEPT !.at = "regenerate", !.change = n, !.targets = T].at = "regenerate"
    BY DEF NoJob
  <2> QED BY <1>1, <2>1, <2>2 DEF ReliesOnNothing
<1>7. CASE BeginSave(e) \/ BeginSubmit(e) \/ BeginReturn(e)
  <2>1. PICK r \in Revisions, at \in {"save", "submit", "return"} :
          /\ job' = [job EXCEPT ![e] = [NoJob EXCEPT !.at = at, !.rev = r]]
          /\ revision[r].status = IF at = "return" THEN "IN_REVIEW" ELSE "DRAFT"
    BY <1>7 DEF BeginSave, BeginSubmit, BeginReturn, Start, Editable, InReview, WithStatus
  <2> DEFINE k == [NoJob EXCEPT !.at = at, !.rev = r]
  <2>2. k.at = at /\ k.rev = r
    BY DEF NoJob
  <2> HIDE DEF k
  <2>3. Still(k)
    BY <2>1, <2>2 DEF StillSo
  <2> HIDE DEF Still
  <2> QED BY <1>0, <2>1, <2>3 DEF k
<1>8. CASE BeginConfirm(e)
  <2>1. PICK r, s : job' = [job EXCEPT ![e] = [NoJob EXCEPT !.at = "siblings", !.rev = r, !.snapshot = s]]
    BY <1>8 DEF BeginConfirm, Start
  <2> DEFINE k == [NoJob EXCEPT !.at = "siblings", !.rev = r, !.snapshot = s]
  <2>2. k.at = "siblings" /\ k.change = 0
    BY DEF NoJob
  <2> HIDE DEF k
  <2>3. Still(k)
    BY <2>2 DEF StillSo
  <2> HIDE DEF Still
  <2> QED BY <1>0, <2>1, <2>3 DEF k
<1>9. CASE BeginEdit(e)
  <2>1. PICK n : /\ job' = [job EXCEPT ![e] = [NoJob EXCEPT !.at = "edit", !.number = n]]
                 /\ reqRevision[n].status = "DRAFT"
    BY <1>9 DEF BeginEdit, Start, EditableDraft
  <2> DEFINE k == [NoJob EXCEPT !.at = "edit", !.number = n]
  <2>2. k.at = "edit" /\ k.number = n
    BY DEF NoJob
  <2> HIDE DEF k
  <2>3. Still(k)
    BY <2>1, <2>2 DEF StillSo
  <2> HIDE DEF Still
  <2> QED BY <1>0, <2>1, <2>3 DEF k
<1>10. CASE BeginConfirmChange(e)
  <2>1. PICK n, G : job' = [job EXCEPT ![e] = [NoJob EXCEPT !.at = "reauth", !.change = n, !.todo = G, !.made = G]]
    BY <1>10 DEF BeginConfirmChange, Start
  <2> DEFINE k == [NoJob EXCEPT !.at = "reauth", !.change = n, !.todo = G, !.made = G]
  <2>2. k.at = "reauth" /\ k.todo = G /\ k.made = G
    BY DEF NoJob
  <2> HIDE DEF k
  <2>3. Still(k)
    BY <2>2 DEF StillSo
  <2> HIDE DEF Still
  <2> QED BY <1>0, <2>1, <2>3 DEF k
<1> HIDE DEF Still
<1> QED BY <1>2, <1>3, <1>4, <1>5, <1>6, <1>7, <1>8, <1>9, <1>10 DEF BeginEditing

LEMMA ReadingSole ==
  ASSUME \A d, c \in Editors : d = c, DesignTypeInv, SoleInv, NEW e \in Editors,
         \/ ReadNumber(e) \/ ReadSiblings(e) \/ Pick(e) \/ FindOpen(e) \/ NextTarget(e)
         \/ Reauthenticate(e) \/ NextGenerated(e) \/ AllConfirmed(e)
  PROVE  SoleInv' /\ FrozenStep
<1> DEFINE j == job[e]
           Still(k) == StillSo(k, revision, reqRevision, change)
<1>0. /\ Still(j) /\ j \in Job
      /\ JobReady(j, AllWritten, Len(reqRevision), Len(change))
      /\ \A k : job' = [job EXCEPT ![e] = k] /\ Still(k) => SoleInv' /\ FrozenStep
  <2>1. UNCHANGED <<designRows, changeRows>>
    BY DEF ReadNumber, ReadSiblings, Pick, FindOpen, NextTarget, Reauthenticate, NextGenerated, AllConfirmed
  <2> QED BY <2>1, SoleReads, RequestFacts DEF SoleInv
<1>1. \A k : job' = [job EXCEPT ![e] = k] /\ k.at \in ReliesOnNothing => SoleInv' /\ FrozenStep
  BY <1>0, QuietStep
<1>2. CASE Done(e)
  BY <1>1, <1>2 DEF Done, NoJob, ReliesOnNothing
<1>3. CASE ReadNumber(e)
  <2>1. PICK n : job' = [job EXCEPT ![e] = [j EXCEPT !.at = "insert", !.number = n]]
    BY <1>3 DEF ReadNumber, Continue
  <2> HIDE DEF j
  <2>2. [j EXCEPT !.at = "insert", !.number = n].at = "insert"
    BY <1>0 DEF Job
  <2> QED BY <1>1, <2>1, <2>2 DEF ReliesOnNothing
<1>4. CASE ReadSiblings(e)
  <2> DEFINE O == {s \in WithStatus({"CONFIRMED"}) : Of(s) = Of(j.rev) /\ s # j.rev}
             k == [j EXCEPT !.at = "confirm", !.others = O]
  <2>1. job' = [job EXCEPT ![e] = k] /\ j.at = "siblings"
    BY <1>4 DEF ReadSiblings, Continue
  <2>2. O = {s \in Revisions : revision[s].status = "CONFIRMED" /\ Of(s) = Of(j.rev) /\ s # j.rev}
    BY DEF WithStatus
  <2> HIDE DEF O, j
  <2>3. /\ k.at = "confirm" /\ k.others = O /\ k.rev = j.rev /\ k.change = j.change /\ k.todo = j.todo
        /\ k.made = j.made /\ k.text = j.text /\ k.olds = j.olds
    BY <1>0 DEF Job
  <2> HIDE DEF k
  <2>4. Still(k)
    BY <1>0, <2>1, <2>2, <2>3 DEF StillSo, DraftInHand
  <2> HIDE DEF Still
  <2> QED BY <1>0, <2>1, <2>4
<1>5. CASE Pick(e) /\ ~ Done(e)
  <2>0. PICK r \in j.todo :
          job' = [job EXCEPT ![e] = [j EXCEPT !.todo = @ \ {r},
                                              !.at = IF j.todo = {r} THEN "freeze" ELSE "pick"]]
    BY <1>5 DEF Pick, Continue
  <2> DEFINE t == j.todo \ {r}
             a == IF j.todo = {r} THEN "freeze" ELSE "pick"
  <2>1. job' = [job EXCEPT ![e] = [j EXCEPT !.todo = t, !.at = a]] /\ a \in {"freeze", "pick"}
    BY <2>0
  <2> HIDE DEF t, a
  <2> HIDE DEF j
  <2>2. [j EXCEPT !.todo = t, !.at = a].at = a
    BY <1>0 DEF Job
  <2> QED BY <1>1, <2>1, <2>2 DEF ReliesOnNothing
<1>6. CASE FindOpen(e) /\ ~ Done(e)
  <2>1. job' = [job EXCEPT ![e] = [j EXCEPT !.at = "insert_draft"]]
    BY <1>6 DEF FindOpen, Continue
  <2> HIDE DEF j
  <2>2. [j EXCEPT !.at = "insert_draft"].at = "insert_draft"
    BY <1>0 DEF Job
  <2> QED BY <1>1, <2>1, <2>2 DEF ReliesOnNothing
<1>7. CASE NextTarget(e)
  <2>0. PICK a \in j.targets :
          job' = [job EXCEPT ![e] = [j EXCEPT !.at = "number", !.targets = @ \ {a}, !.rev = Latest(a),
                                              !.snapshot = revision[Latest(a)].snapshot,
                                              !.draft = revision[Latest(a)].status = "DRAFT"]]
    BY <1>7 DEF NextTarget, Continue
  <2> DEFINE T == j.targets \ {a}
             v == Latest(a)
             s == revision[v].snapshot
             d == revision[v].status = "DRAFT"
  <2>1. job' = [job EXCEPT ![e] = [j EXCEPT !.at = "number", !.targets = T, !.rev = v,
                                            !.snapshot = s, !.draft = d]]
    BY <2>0
  <2> HIDE DEF T, v, s, d
  <2> HIDE DEF j
  <2>2. [j EXCEPT !.at = "number", !.targets = T, !.rev = v, !.snapshot = s, !.draft = d].at = "number"
    BY <1>0 DEF Job
  <2> QED BY <1>1, <2>1, <2>2 DEF ReliesOnNothing
<1>8. CASE AllConfirmed(e)
  <2>1. job' = [job EXCEPT ![e] = [j EXCEPT !.at = "freeze", !.text = "NONE", !.olds = {}]]
    BY <1>8 DEF AllConfirmed, Continue
  <2> HIDE DEF j
  <2>2. [j EXCEPT !.at = "freeze", !.text = "NONE", !.olds = {}].at = "freeze"
    BY <1>0 DEF Job
  <2> QED BY <1>1, <2>1, <2>2 DEF ReliesOnNothing
<1>9. CASE Reauthenticate(e) /\ ~ Done(e)
  <2> DEFINE n == change[j.change].to
             O == {i \in DOMAIN reqRevision : /\ reqRevision[i].status = "CONFIRMED"
                                              /\ i # n}
             x == DraftOf(j.change).text
             k == [j EXCEPT !.at = "next_generated", !.text = x, !.olds = O]
  <2>1. job' = [job EXCEPT ![e] = k] /\ j.at = "reauth"
    BY <1>9 DEF Reauthenticate, Continue
  <2>2. x = reqRevision[n].text
    BY DEF DraftOf
  <2> HIDE DEF j, O, x
  <2>3. /\ k.at = "next_generated" /\ k.change = j.change /\ k.todo = j.todo
        /\ k.made = j.made /\ k.text = x /\ k.olds = O
    BY <1>0 DEF Job
  <2> HIDE DEF k
  <2>4. DraftInHand(k, reqRevision, change)
    BY <2>2, <2>3 DEF DraftInHand, O
  <2>5. Still(k)
    BY <1>0, <2>1, <2>3, <2>4 DEF StillSo
  <2> HIDE DEF Still
  <2> QED BY <1>0, <2>1, <2>5
<1>10. CASE NextGenerated(e) /\ ~ Done(e)
  <2>1. PICK r \in j.todo :
          /\ j.at = "next_generated"
          /\ job' = [job EXCEPT ![e] = [j EXCEPT !.at = "siblings", !.rev = r,
                                                 !.snapshot = revision[r].snapshot]]
    BY <1>10 DEF NextGenerated, Continue
  <2> DEFINE s == revision[r].snapshot
             k == [j EXCEPT !.at = "siblings", !.rev = r, !.snapshot = s]
  <2>2. j.change # 0 /\ job' = [job EXCEPT ![e] = k]
    BY <1>0, <2>1 DEF JobReady
  <2> HIDE DEF j, s
  <2>3. /\ k.at = "siblings" /\ k.rev = r /\ k.change = j.change /\ k.todo = j.todo
        /\ k.made = j.made /\ k.text = j.text /\ k.olds = j.olds
    BY <1>0 DEF Job
  <2> HIDE DEF k
  <2>4. Still(k)
    BY <1>0, <2>1, <2>2, <2>3 DEF StillSo, DraftInHand
  <2> HIDE DEF Still
  <2> QED BY <1>0, <2>2, <2>4
<1> HIDE DEF j, Still
<1> QED BY <1>2, <1>3, <1>4, <1>5, <1>6, <1>7, <1>8, <1>9, <1>10

LEMMA EndsSole ==
  ASSUME \A d, c \in Editors : d = c, DesignTypeInv, NEW e \in Editors, Done(e)
  PROVE  \A d \in Editors : StillSo(job'[d], revision', reqRevision', change')
<1>1. NoJob.at \in ReliesOnNothing
  BY DEF NoJob, ReliesOnNothing
<1>2. StillSo(NoJob, revision', reqRevision', change')
  BY <1>1, QuietStep
<1> QED BY <1>2, SoleRequest DEF Done

\* Only revisions that nobody confirmed are edited, submitted and returned.
LEMMA RevisionWritersSole ==
  ASSUME \A d, c \in Editors : d = c, DesignTypeInv, SoleInv, NEW e \in Editors,
         Save(e) \/ Submit(e) \/ ReturnToDraft(e)
  PROVE  SoleInv' /\ FrozenStep
<1> DEFINE g == job[e].rev
<1>0. /\ DesignRowsOK /\ g \in Revisions /\ revision[g] \in RevisionRow
      /\ revision[g].status \in {"DRAFT", "IN_REVIEW"}
  <2>1. job[e].at \in {"save", "submit", "return"}
    BY DEF Save, Submit, ReturnToDraft
  <2>2. g \in AllWritten /\ DesignRowsOK
    BY <2>1, RequestFacts DEF JobReady
  <2>3. revision[g].status \in {"DRAFT", "IN_REVIEW"}
    BY <2>1 DEF SoleInv, StillSo
  <2> QED BY <2>2, <2>3, RowFacts DEF AllWritten
<1>1. PICK row : revision' = [revision EXCEPT ![g] = row] /\ row.status # "CONFIRMED"
  <2>1. CASE Save(e)
    <3>1. PICK c \in Contents : revision' = [revision EXCEPT ![g] = [revision[g] EXCEPT !.snapshot = c]]
      BY <2>1 DEF Save
    <3>2. [revision[g] EXCEPT !.snapshot = c].status # "CONFIRMED"
      BY <1>0 DEF RevisionRow
    <3> QED BY <3>1, <3>2
  <2>2. CASE Submit(e)
    <3>1. revision' = [revision EXCEPT ![g] = [revision[g] EXCEPT !.status = "IN_REVIEW"]]
      BY <2>2 DEF Submit
    <3>2. [revision[g] EXCEPT !.status = "IN_REVIEW"].status # "CONFIRMED"
      BY <1>0 DEF RevisionRow
    <3> QED BY <3>1, <3>2
  <2>3. CASE ReturnToDraft(e)
    <3>1. revision' = [revision EXCEPT ![g] = [revision[g] EXCEPT !.status = "DRAFT"]]
      BY <2>3 DEF ReturnToDraft
    <3>2. [revision[g] EXCEPT !.status = "DRAFT"].status # "CONFIRMED"
      BY <1>0 DEF RevisionRow
    <3> QED BY <3>1, <3>2
  <2> QED BY <2>1, <2>2, <2>3
<1>2. UNCHANGED <<confirmed, reqRevision, requirement>> /\ Done(e)
  BY DEF Save, Submit, ReturnToDraft, changeRows
<1> HIDE DEF g
<1>3. \A r \in Revisions : revision'[r] = IF r = g THEN row ELSE revision[r]
  BY <1>0, <1>1 DEF DesignRowsOK
<1>4. g \notin confirmed /\ confirmed \subseteq Revisions
  BY <1>0 DEF SoleInv, ConfirmedStay, DesignRowsOK
<1>5. FrozenStep
  BY <1>3, <1>4 DEF FrozenStep, SoleInv, ConfirmedStay
<1>6. \A r \in Revisions : revision'[r].status = "CONFIRMED" => revision[r].status = "CONFIRMED"
  BY <1>1, <1>3
<1> QED BY <1>2, <1>5, <1>6, EndsSole, NothingConfirmed, SameRequirement DEF SoleInv

\* A number is new, or nothing is inserted; a parent only leaves its status.
LEMMA InsertRevisionSole ==
  ASSUME \A d, c \in Editors : d = c, DesignTypeInv, SoleInv, NEW e \in Editors, InsertRevision(e)
  PROVE  SoleInv' /\ FrozenStep
<1> DEFINE j == job[e]
           new == <<Of(j.rev), j.number>>
           row == [status |-> "DRAFT", snapshot |-> j.snapshot]
           t == j.targets
           m == j.made \cup {new}
           n == j.change
           loop == [NoJob EXCEPT !.at = "regenerate", !.targets = t, !.made = m, !.change = n]
           old == [revision[j.rev] EXCEPT !.status = "SUPERSEDED"]
<1>0. DesignRowsOK /\ j.rev \in Revisions /\ revision[j.rev] \in RevisionRow
  <2>1. j.at = "insert"
    BY DEF InsertRevision
  <2> QED BY <2>1, RequestFacts, RowFacts DEF JobReady, AllWritten
<1>1. UNCHANGED <<confirmed, reqRevision, requirement>>
  BY DEF InsertRevision, changeRows
<1>2. \A d \in Editors : StillSo(job'[d], revision', reqRevision', change')
  <2>1. Done(e) \/ job' = [job EXCEPT ![e] = loop]
    BY DEF InsertRevision, Continue
  <2>2. loop.at = "regenerate"
    BY DEF NoJob
  <2> HIDE DEF loop
  <2>3. StillSo(loop, revision', reqRevision', change')
    BY <2>2, QuietStep DEF ReliesOnNothing
  <2> QED BY <2>1, <2>3, EndsSole, SoleRequest
<1>3. CASE revision[new] # Unwritten
  <2>1. UNCHANGED revision
    BY <1>3 DEF InsertRevision
  <2>2. FrozenStep
    BY <1>1, <2>1 DEF FrozenStep, SoleInv, ConfirmedStay
  <2> QED BY <1>1, <1>2, <2>1, <2>2, NothingConfirmed, SameRequirement DEF SoleInv
<1>4. CASE revision[new] = Unwritten
  <2>1. \A r \in Revisions : revision'[r] = IF r = new THEN row
                               ELSE IF r = j.rev /\ j.draft THEN old ELSE revision[r]
    BY <1>4 DEF InsertRevision
  <2>2. old.snapshot = revision[j.rev].snapshot /\ old.status = "SUPERSEDED" /\ row.status = "DRAFT"
    BY <1>0 DEF RevisionRow
  <2>3. new \notin confirmed /\ confirmed \subseteq Revisions
    <3> HIDE DEF new
    <3>1. revision[new].status = "NONE"
      BY <1>4 DEF Unwritten
    <3> QED BY <1>0, <3>1 DEF SoleInv, ConfirmedStay, DesignRowsOK
  <2> HIDE DEF old, row, new, j
  <2>4. FrozenStep
    BY <2>1, <2>2, <2>3 DEF FrozenStep, SoleInv, ConfirmedStay
  <2>5. \A r \in Revisions : revision'[r].status = "CONFIRMED" => revision[r].status = "CONFIRMED"
    BY <2>1, <2>2
  <2> QED BY <1>1, <1>2, <2>4, <2>5, NothingConfirmed, SameRequirement DEF SoleInv
<1> QED BY <1>3, <1>4

LEMMA FreezeBaselineSole ==
  ASSUME \A d, c \in Editors : d = c, DesignTypeInv, SoleInv, NEW e \in Editors, FreezeBaseline(e)
  PROVE  SoleInv' /\ FrozenStep
<1> DEFINE n == job[e].change
           l == Len(baselines) + 1
           close == [NoJob EXCEPT !.at = "close", !.change = n, !.number = l]
<1>1. /\ UNCHANGED <<revision, confirmed, reqRevision, requirement>>
      /\ Done(e) \/ job' = [job EXCEPT ![e] = close]
  BY DEF FreezeBaseline, Continue, changeRows
<1>2. close.at = "close"
  BY DEF NoJob
<1> HIDE DEF close
<1>3. StillSo(close, revision', reqRevision', change')
  BY <1>2, QuietStep DEF ReliesOnNothing
<1>4. \A d \in Editors : StillSo(job'[d], revision', reqRevision', change')
  BY <1>1, <1>3, EndsSole, SoleRequest
<1>5. FrozenStep
  BY <1>1 DEF FrozenStep, SoleInv, ConfirmedStay
<1> QED BY <1>1, <1>4, <1>5, NothingConfirmed, SameRequirement DEF SoleInv

\* The draft in hand becomes the one CONFIRMED revision of the requirement.
LEMMA ConfirmDraftSole ==
  ASSUME DesignRowsOK, NEW j, DraftInHand(j, reqRevision, change), ConfirmDraft(j)
  PROVE  RequirementShowsConfirmed'
<1> DEFINE n == change[j.change].to
           row(i) == [reqRevision[i] EXCEPT !.status = "CONFIRMED"]
           old(i) == [reqRevision[i] EXCEPT !.status = "SUPERSEDED"]
<1>1. /\ DOMAIN reqRevision = 1..Len(reqRevision)
      /\ \A i \in 1..Len(reqRevision) : reqRevision[i] \in RequirementRow
  BY RowFacts
<1>2. /\ DOMAIN reqRevision' = DOMAIN reqRevision /\ requirement' = j.text
      /\ \A i \in DOMAIN reqRevision : reqRevision'[i] = IF i = n THEN row(i)
                                         ELSE IF i \in j.olds THEN old(i) ELSE reqRevision[i]
  BY DEF ConfirmDraft
<1>3. \A i \in DOMAIN reqRevision : row(i).text = reqRevision[i].text /\ old(i).status = "SUPERSEDED"
  BY <1>1 DEF RequirementRow
<1>4. /\ j.text = reqRevision[n].text
      /\ \A i \in DOMAIN reqRevision : i # n /\ reqRevision[i].status = "CONFIRMED" => i \in j.olds
  BY DEF DraftInHand
<1> HIDE DEF n, row, old
<1>5. \A i \in DOMAIN reqRevision' : reqRevision'[i].status = "CONFIRMED" => i = n
  BY <1>2, <1>3, <1>4
<1>6. \A i \in DOMAIN reqRevision' : i = n => requirement' = reqRevision'[i].text
  BY <1>2, <1>3, <1>4
<1> QED BY <1>5, <1>6 DEF RequirementShowsConfirmed

\* The siblings of a revision are those it was confirmed after: none stays CONFIRMED.
LEMMA ConfirmSole ==
  ASSUME \A d, c \in Editors : d = c, DesignTypeInv, SoleInv, NEW e \in Editors, Confirm(e)
  PROVE  SoleInv' /\ FrozenStep
<1> DEFINE j == job[e]
           g == j.rev
           t == j.todo \ {g}
           k == [j EXCEPT !.at = "next_generated", !.todo = t, !.rev = NoRev,
                          !.snapshot = "NONE", !.others = {}]
<1>0. /\ DesignRowsOK /\ j \in Job /\ g \in Revisions /\ j.at = "confirm"
      /\ StillSo(j, revision, reqRevision, change)
      /\ \A r \in AllWritten : revision[r] \in RevisionRow
      /\ j.others = {s \in Revisions : revision[s].status = "CONFIRMED" /\ Of(s) = Of(g) /\ s # g}
  <2>1. j.at = "confirm" /\ StillSo(j, revision, reqRevision, change)
    BY DEF Confirm, SoleInv
  <2> QED BY <2>1, RequestFacts, RowFacts DEF JobReady, AllWritten, StillSo
<1>1. CASE g \in confirmed
  <2>1. Done(e) /\ UNCHANGED <<revision, confirmed, reqRevision, requirement>>
    BY <1>1 DEF Confirm
  <2>2. FrozenStep
    BY <2>1 DEF FrozenStep, SoleInv, ConfirmedStay
  <2> QED BY <2>1, <2>2, EndsSole, NothingConfirmed, SameRequirement DEF SoleInv
<1>2. CASE g \notin confirmed
  <2> DEFINE s == IF Of(g) \in Designs THEN j.snapshot ELSE revision[g].snapshot
             row == [status |-> "CONFIRMED", snapshot |-> s]
             O == j.others
             old(r) == [revision[r] EXCEPT !.status = "SUPERSEDED"]
  <2>1. /\ Freeze(j) /\ confirmed' = confirmed \cup {g} /\ change' = change
        /\ \/ j.change # 0 /\ j.todo = j.made /\ ConfirmDraft(j)
           \/ UNCHANGED <<reqRevision, requirement>>
        /\ Done(e) \/ (job' = [job EXCEPT ![e] = k] /\ j.change # 0)
    BY <1>2 DEF Confirm, Continue
  <2>2. \A r \in Revisions : revision'[r] = IF r = g THEN row ELSE IF r \in O THEN old(r) ELSE revision[r]
    <3>1. revision' = [r \in Revisions |-> IF r = g THEN row ELSE IF r \in O THEN old(r) ELSE revision[r]]
      BY <2>1 DEF Freeze
    <3> HIDE DEF row, O, old, g, j
    <3> QED BY <3>1
  <2>3. \A r \in O : old(r).status = "SUPERSEDED" /\ old(r).snapshot = revision[r].snapshot
    <3>1. \A r \in O : revision[r] \in RevisionRow
      BY <1>0, RowFacts DEF RevisionStatus
    <3> HIDE DEF O
    <3> QED BY <3>1 DEF RevisionRow
  <2>4. row.status = "CONFIRMED"
    OBVIOUS
  <2>5. \A r \in Revisions : r \in O <=> revision[r].status = "CONFIRMED" /\ Of(r) = Of(g) /\ r # g
    BY <1>0
  <2>6. confirmed \subseteq Revisions
    BY <1>0 DEF DesignRowsOK
  <2> HIDE DEF row, old, O
  <2>7. FrozenStep
    <3> HIDE DEF j
    <3> QED BY <1>2, <2>2, <2>3, <2>6 DEF FrozenStep, SoleInv, ConfirmedStay
  <2>8. ConfirmedStay'
    <3> HIDE DEF g
    <3> QED BY <2>1, <2>2, <2>4, <2>7, <1>0 DEF FrozenStep, ConfirmedStay
  <2>9. OneCurrentRevision'
    <3> HIDE DEF g
    <3>1. ASSUME NEW r \in Revisions, NEW q \in Revisions, Of(r) = Of(q),
                 revision'[r].status = "CONFIRMED", revision'[q].status = "CONFIRMED"
          PROVE  r = q
      <4>1. /\ r \notin O \/ r = g
            /\ q \notin O \/ q = g
        BY <2>2, <2>3, <3>1
      <4>2. \A p \in {r, q} : p # g => revision[p].status = "CONFIRMED" /\ Of(p) # Of(g)
        BY <2>2, <2>5, <3>1, <4>1
      <4>3. CASE r = g \/ q = g
        BY <3>1, <4>2, <4>3
      <4>4. CASE r # g /\ q # g
        BY <3>1, <4>2, <4>4 DEF SoleInv, OneCurrentRevision, WithStatus
      <4> QED BY <4>3, <4>4
    <3> QED BY <3>1 DEF OneCurrentRevision, WithStatus
  <2>10. RequirementShowsConfirmed'
    <3>1. CASE j.change # 0 /\ j.todo = j.made /\ ConfirmDraft(j)
      <4>1. DraftInHand(j, reqRevision, change)
        BY <1>0, <3>1 DEF StillSo
      <4> HIDE DEF j
      <4> QED BY <1>0, <3>1, <4>1, ConfirmDraftSole
    <3>2. CASE UNCHANGED <<reqRevision, requirement>>
      BY <3>2, SameRequirement
    <3> QED BY <2>1, <3>1, <3>2
  <2>11. CASE Done(e)
    BY <2>8, <2>9, <2>10, <2>7, <2>11, EndsSole DEF SoleInv
  <2>12. CASE job' = [job EXCEPT ![e] = k] /\ j.change # 0
    <3>1. j.todo \subseteq j.made /\ g \in j.todo
      BY <1>0, <2>12 DEF StillSo
    <3>2. t \subseteq j.made /\ t # j.made
      BY <3>1
    <3> HIDE DEF t, j
    <3>3. k.at = "next_generated" /\ k.todo = t /\ k.made = j.made
      BY <1>0 DEF Job
    <3> HIDE DEF k
    <3>4. StillSo(k, revision', reqRevision', change')
      BY <3>2, <3>3 DEF StillSo
    <3> QED BY <2>7, <2>8, <2>9, <2>10, <2>12, <3>4, SoleRequest DEF SoleInv
  <2> QED BY <2>1, <2>11, <2>12
<1> QED BY <1>1, <1>2

\* What changes is the requirement's drafts, and the request ends.
LEMMA DraftWritersSole ==
  ASSUME \A d, c \in Editors : d = c, DesignTypeInv, SoleInv, NEW e \in Editors,
         InsertDraft(e) \/ Edit(e) \/ NothingToBind(e)
  PROVE  SoleInv' /\ FrozenStep
<1> DEFINE j == job[e]
<1>0. /\ DesignRowsOK /\ JobReady(j, AllWritten, Len(reqRevision), Len(change)) /\ j \in Job
      /\ Len(reqRevision) \in Nat /\ reqRevision \in Seq(RequirementRow)
      /\ DOMAIN reqRevision = 1..Len(reqRevision)
      /\ \A i \in 1..Len(reqRevision) : reqRevision[i] \in RequirementRow
      /\ StillSo(j, revision, reqRevision, change)
      /\ UNCHANGED designRows /\ Done(e)
  BY RequestFacts, RowFacts DEF InsertDraft, Edit, NothingToBind, SoleInv, DesignRowsOK
<1>1. CASE InsertDraft(e)
  <2> DEFINE x == j.text
             n == j.number
             draft == [status |-> "DRAFT", text |-> x]
  <2>1. UNCHANGED requirement /\ (UNCHANGED reqRevision \/ reqRevision' = Append(reqRevision, draft))
    BY <1>1 DEF InsertDraft
  <2>2. draft.status = "DRAFT"
    OBVIOUS
  <2>3. CASE UNCHANGED reqRevision
    BY <2>1, <2>3, SameRequirement, SameRevisions, <1>0, EndsSole DEF SoleInv
  <2>4. CASE reqRevision' = Append(reqRevision, draft)
    <3> HIDE DEF draft
    <3>1. /\ DOMAIN reqRevision' = 1..(Len(reqRevision) + 1)
          /\ \A i \in DOMAIN reqRevision' :
               reqRevision'[i] = IF i = Len(reqRevision) + 1 THEN draft ELSE reqRevision[i]
      BY <1>0, <2>4
    <3>2. \A i \in DOMAIN reqRevision' : reqRevision'[i].status = "CONFIRMED" =>
            /\ i \in DOMAIN reqRevision /\ reqRevision'[i] = reqRevision[i]
      BY <1>0, <2>2, <3>1
    <3>3. RequirementShowsConfirmed'
      BY <2>1, <3>2 DEF SoleInv, RequirementShowsConfirmed
    <3> QED BY <3>3, SameRevisions, <1>0, EndsSole DEF SoleInv
  <2> QED BY <2>1, <2>3, <2>4
<1>2. CASE Edit(e)
  <2> DEFINE n == j.number
  <2>1. PICK t \in Contents : reqRevision' = [reqRevision EXCEPT ![n] = [reqRevision[n] EXCEPT !.text = t]]
    BY <1>2 DEF Edit
  <2> DEFINE row == [reqRevision[n] EXCEPT !.text = t]
  <2>2. n \in 1..Len(reqRevision) /\ UNCHANGED requirement /\ reqRevision[n].status = "DRAFT"
    BY <1>0, <1>2 DEF JobReady, Edit, StillSo
  <2>3. row.status = "DRAFT"
    BY <1>0, <2>2 DEF RequirementRow
  <2>4. reqRevision' = [reqRevision EXCEPT ![n] = row]
    BY <2>1
  <2> HIDE DEF row, n, j
  <2>5. /\ DOMAIN reqRevision' = DOMAIN reqRevision
        /\ \A i \in DOMAIN reqRevision : reqRevision'[i] = IF i = n THEN row ELSE reqRevision[i]
    BY <1>0, <2>4
  <2>6. RequirementShowsConfirmed'
    BY <2>2, <2>3, <2>5 DEF SoleInv, RequirementShowsConfirmed
  <2> QED BY <2>6, SameRevisions, <1>0, EndsSole DEF SoleInv
<1>3. CASE NothingToBind(e)
  <2>1. ConfirmDraft(j) /\ j.made = {} /\ j.at = "next_generated"
    BY <1>3 DEF NothingToBind
  <2>2. j.change # 0
    BY <1>0, <2>1 DEF JobReady
  <2>3. DraftInHand(j, reqRevision, change)
    BY <1>0, <2>1, <2>2 DEF StillSo
  <2> HIDE DEF j
  <2>4. RequirementShowsConfirmed'
    BY <1>0, <2>1, <2>3, ConfirmDraftSole
  <2> QED BY <2>4, SameRevisions, <1>0, EndsSole DEF SoleInv
<1> HIDE DEF j
<1> QED BY <1>1, <1>2, <1>3

LEMMA ChangeWritersSole ==
  ASSUME \A d, c \in Editors : d = c, DesignTypeInv, SoleInv, NEW e \in Editors,
         StoreImpact(e) \/ CloseRegenerate(e) \/ CloseChange(e)
  PROVE  SoleInv' /\ FrozenStep
<1>1. UNCHANGED <<designRows, reqRevision, requirement>> /\ Done(e)
  BY DEF StoreImpact, CloseRegenerate, CloseChange
<1> QED BY <1>1, SameRevisions, SameRequirement, EndsSole DEF SoleInv

LEMMA EditorsStopSole ==
  ASSUME SoleInv, EditorsStop
  PROVE  SoleInv' /\ FrozenStep
<1>1. job' = [e \in Editors |-> NoJob] /\ UNCHANGED <<designRows, reqRevision, requirement>>
  BY DEF EditorsStop, changeRows
<1>2. NoJob.at \in ReliesOnNothing
  BY DEF NoJob, ReliesOnNothing
<1>3. StillSo(NoJob, revision', reqRevision', change')
  BY <1>2, QuietStep
<1> QED BY <1>1, <1>3, SameRevisions, SameRequirement DEF SoleInv

LEMMA NextSole ==
  ASSUME \A d, c \in Editors : d = c, DesignTypeInv, SoleInv, [DesignNext]_designVars
  PROVE  SoleInv' /\ FrozenStep
<1>1. CASE UNCHANGED designVars
  <2>1. UNCHANGED <<designRows, reqRevision, requirement, change, job, revision>>
    BY <1>1 DEF designVars, changeRows, designRows
  <2>2. \A e \in Editors : StillSo(job'[e], revision', reqRevision', change')
    BY <2>1 DEF SoleInv
  <2> QED BY <2>1, <2>2, SameRevisions, SameRequirement DEF SoleInv
<1>2. ASSUME NEW e \in Editors, GoOnEditing(e) PROVE SoleInv' /\ FrozenStep
  BY <1>2, ReadingSole, RevisionWritersSole, InsertRevisionSole, FreezeBaselineSole, ConfirmSole,
     ChangeWritersSole, DraftWritersSole DEF GoOnEditing
<1> QED BY <1>1, <1>2, CreateArtifactSole, BeginEditingSole, EditorsStopSole DEF DesignNext

\* SoleInv relies on the types, and they hold of any number of editors.
LEMMA SoleAlways ==
  ASSUME \A d, c \in Editors : d = c
  PROVE  DesignSpec => [](DesignTypeInv /\ SoleInv)
<1>1. DesignInit => SoleInv
  BY InitSole
<1>2. DesignTypeInv /\ SoleInv /\ [DesignNext]_designVars => SoleInv'
  BY NextSole
<1> QED BY <1>1, <1>2, InitDesignType, NextDesignType, PTL DEF DesignSpec

\* Of one artifact at most one revision is CONFIRMED, while no two requests overlap:
\* confirm_revision supersedes exactly the siblings that are CONFIRMED when it
\* commits, wherever a request is cut off by a stop (services.py:732-741).
THEOREM OneRevisionCurrent ==
  ASSUME \A d, e \in Editors : d = e
  PROVE  DesignSpec => []OneCurrentRevision
<1>0. DesignSpec => [](DesignTypeInv /\ SoleInv)
  BY SoleAlways
<1>1. SoleInv => OneCurrentRevision
  BY DEF SoleInv
<1> QED BY <1>0, <1>1, PTL

\* The requirement's row shows its one CONFIRMED revision while no two requests
\* overlap, and a stop between the commits of confirm_change does not part them.
THEOREM RequirementIsConfirmed ==
  ASSUME \A d, e \in Editors : d = e
  PROVE  DesignSpec => []RequirementShowsConfirmed
<1>0. DesignSpec => [](DesignTypeInv /\ SoleInv)
  BY SoleAlways
<1>1. SoleInv => RequirementShowsConfirmed
  BY DEF SoleInv
<1> QED BY <1>0, <1>1, PTL

=============================================================================
