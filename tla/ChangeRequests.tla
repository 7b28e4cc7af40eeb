--------------------------- MODULE ChangeRequests ---------------------------
(***************************************************************************)
(* Change requests of PM Again and the documents that sign them off        *)
(* (routers/change_requests.py, routers/documents.py), in one project.     *)
(*                                                                         *)
(* A handler reads the rows it decides on and commits later; the rows may  *)
(* have changed in between, and what it writes depends on what it read.    *)
(* SQLite gives the id after the last one, so a deleted last row's id is   *)
(* given again, while a change request keeps the document id it has. The   *)
(* impact row of a change request stands for all its rows of type `new`.   *)
(***************************************************************************)
EXTENDS Naturals

CONSTANTS
  Clerks,         \* requests that PM Again serves at one time
  MaxRequests,    \* bound on the ids of change requests
  MaxDocuments    \* bound on the ids of documents

ASSUME ClerksAssumption == MaxRequests \in Nat /\ MaxDocuments \in Nat

VARIABLES
  changeRequest,  \* ChangeRequest.status by id
  linked,         \* ChangeRequest.linked_document_id
  document,       \* Document.status by id
  impact,         \* is there a ChangeRequestImpact, and is it wired to a function?
  functions,      \* have functions been created for the impacts of the row?
  attached,       \* history: the document ids the row was ever linked to
  backed,         \* history: the rows that had such a document signed off as Approved
  mistaken,       \* history: the rows approved by a request that read an earlier row
  late,           \* history: the requests whose change request was deleted under them
  clerk           \* what a request has read and is about to do

changeVars ==
  <<changeRequest, linked, document, impact, functions, attached, backed, mistaken, late,
    clerk>>

RequestIds  == 1..MaxRequests
DocumentIds == 1..MaxDocuments
NoDocument  == 0

CHANGE_REQUEST_TRANSITIONS ==
  [Draft           |-> {"UnderAnalysis", "Rejected", "Deferred"},
   UnderAnalysis   |-> {"PendingApproval", "Rejected", "Deferred", "Draft"},
   PendingApproval |-> {"Approved", "Rejected", "Deferred", "UnderAnalysis"},
   Approved        |-> {},
   Rejected        |-> {"Draft"},
   Deferred        |-> {"Draft", "UnderAnalysis"}]

DOCUMENT_TRANSITIONS ==
  [Draft     |-> {"InReview"},
   InReview  |-> {"Confirmed", "Rejected"},
   Confirmed |-> {"Draft"},
   Rejected  |-> {"Draft"}]

RequestStatuses  == {"Draft", "UnderAnalysis", "PendingApproval", "Approved",
                     "Rejected", "Deferred"}
DocumentStatuses == {"Draft", "InReview", "Confirmed", "Rejected"}

ClerkJob ==
  [does : {"status"},          request : RequestIds, to : RequestStatuses \ {"Approved"}]
    \cup [does : {"gate"},     request : RequestIds, document : DocumentIds]
    \cup [does : {"impacts"},  request : RequestIds]
    \cup [does : {"approve"},  request : RequestIds, creates : BOOLEAN]
    \cup [does : {"submit"},   request : RequestIds, unlinked : BOOLEAN, moves : BOOLEAN]
    \cup [does : {"impact"},   request : RequestIds]
    \cup [does : {"document"}, document : DocumentIds, to : DocumentStatuses]
Free == [does |-> "nothing"]

ChangeInit ==
  /\ changeRequest = [c \in RequestIds |-> "none"]
  /\ linked        = [c \in RequestIds |-> NoDocument]
  /\ document      = [d \in DocumentIds |-> "none"]
  /\ impact        = [c \in RequestIds |-> "none"]
  /\ functions     = [c \in RequestIds |-> FALSE]
  /\ attached      = [c \in RequestIds |-> {}]
  /\ backed        = {}
  /\ mistaken      = {}
  /\ late          = {}
  /\ clerk         = [k \in Clerks |-> Free]

\* The rows of a table have ids 1..n with gaps; the next one is one past the last.
IsNextId(table, id) ==
  /\ table[id] = "none"
  /\ \A other \in DOMAIN table : other > id => table[other] = "none"
  /\ id > 1 => table[id - 1] # "none"

Goes(k, job)   == clerk' = [clerk EXCEPT ![k] = job] /\ UNCHANGED late
Takes(k, job)  == clerk[k] = Free /\ Goes(k, job)
Ends(k)        == clerk' = [clerk EXCEPT ![k] = Free] /\ late' = late \ {k}
Waits          == UNCHANGED <<clerk, late>>
KeepsDocuments == UNCHANGED <<document, backed>>
KeepsRequests  == UNCHANGED <<changeRequest, linked, impact, functions, attached, mistaken>>

-----------------------------------------------------------------------------
(* Change requests *)

\* A new row, whatever is remembered of an earlier one with its id.
CreateChangeRequest(c) ==
  /\ IsNextId(changeRequest, c)
  /\ changeRequest' = [changeRequest EXCEPT ![c] = "Draft"]
  /\ linked'    = [linked EXCEPT ![c] = NoDocument]
  /\ functions' = [functions EXCEPT ![c] = FALSE]
  /\ attached'  = [attached EXCEPT ![c] = {}]
  /\ backed'    = backed \ {c}
  /\ mistaken'  = mistaken \ {c}
  /\ Waits
  /\ UNCHANGED <<impact, document>>

About(c) == {k \in Clerks : clerk[k].does \notin {"nothing", "document"} /\ clerk[k].request = c}

\* The rows of the moment are deleted, whatever they were when the request was read.
DeleteChangeRequest(c) ==
  /\ changeRequest[c] # "none"
  /\ changeRequest' = [changeRequest EXCEPT ![c] = "none"]
  /\ impact' = [impact EXCEPT ![c] = "none"]
  /\ late' = late \cup About(c)
  /\ KeepsDocuments
  /\ UNCHANGED <<linked, functions, attached, mistaken, clerk>>

\* update_change_request to any status but Approved.
BeginStatus(k, c) ==
  /\ changeRequest[c] # "none"
  /\ \E to \in CHANGE_REQUEST_TRANSITIONS[changeRequest[c]] \ {"Approved"} :
       Takes(k, [does |-> "status", request |-> c, to |-> to])
  /\ KeepsDocuments /\ KeepsRequests

CommitStatus(k) ==
  /\ clerk[k].does = "status"
  /\ LET c == clerk[k].request IN
     /\ changeRequest[c] # "none"
     /\ changeRequest' = [changeRequest EXCEPT ![c] = clerk[k].to]
  /\ Ends(k)
  /\ KeepsDocuments
  /\ UNCHANGED <<linked, impact, functions, attached, mistaken>>

\* update_change_request to Approved: the row, then its document, then its impacts.
BeginApproval(k, c) ==
  /\ changeRequest[c] # "none"
  /\ "Approved" \in CHANGE_REQUEST_TRANSITIONS[changeRequest[c]]
  /\ linked[c] # NoDocument
  /\ Takes(k, [does |-> "gate", request |-> c, document |-> linked[c]])
  /\ KeepsDocuments /\ KeepsRequests

\* Mutant: it is enough that the document exists.
Exists(d) == document[d] # "none"

SignedOffNow(d) == document[d] = "Confirmed"

PassGate(k) ==
  /\ clerk[k].does = "gate"
  /\ SignedOffNow(clerk[k].document)
  /\ Goes(k, [does |-> "impacts", request |-> clerk[k].request])
  /\ KeepsDocuments /\ KeepsRequests

ReadImpacts(k) ==
  /\ clerk[k].does = "impacts"
  /\ LET c == clerk[k].request IN
     Goes(k, [does |-> "approve", request |-> c, creates |-> impact[c] = "open"])
  /\ KeepsDocuments /\ KeepsRequests

\* A row that was read and is gone makes the update of it, and so the request, fail.
CommitApproval(k) ==
  /\ clerk[k].does = "approve"
  /\ LET c == clerk[k].request IN
     /\ changeRequest[c] # "none"
     /\ clerk[k].creates => impact[c] # "none"
     /\ changeRequest' = [changeRequest EXCEPT ![c] = "Approved"]
     /\ impact'    = [impact EXCEPT ![c] = IF clerk[k].creates THEN "wired" ELSE @]
     /\ functions' = [functions EXCEPT ![c] = @ \/ clerk[k].creates]
     /\ mistaken'  = IF k \in late THEN mistaken \cup {c} ELSE mistaken
  /\ Ends(k)
  /\ KeepsDocuments
  /\ UNCHANGED <<linked, attached>>

\* A Draft is let in by the first test of submit_for_approval and refused by the second.
BeginSubmitApproval(k, c) ==
  /\ changeRequest[c] \in {"UnderAnalysis", "PendingApproval"}
  /\ Takes(k, [does |-> "submit", request |-> c, unlinked |-> linked[c] = NoDocument,
               moves |-> changeRequest[c] # "PendingApproval"])
  /\ KeepsDocuments /\ KeepsRequests

CommitSubmitApproval(k) ==
  /\ clerk[k].does = "submit"
  /\ LET c == clerk[k].request IN
     /\ changeRequest[c] # "none"
     /\ changeRequest' = [changeRequest EXCEPT
                            ![c] = IF clerk[k].moves THEN "PendingApproval" ELSE @]
     /\ \/ /\ clerk[k].unlinked
           /\ \E d \in DocumentIds :
                /\ IsNextId(document, d)
                /\ document' = [document EXCEPT ![d] = "Draft"]
                /\ linked'   = [linked EXCEPT ![c] = d]
                /\ attached' = [attached EXCEPT ![c] = @ \cup {d}]
        \/ /\ ~clerk[k].unlinked
           /\ UNCHANGED <<document, linked, attached>>
  /\ Ends(k)
  /\ UNCHANGED <<impact, functions, backed, mistaken>>

\* A row that names its function is left out: approval passes it over.
BeginAddImpact(k, c) ==
  /\ changeRequest[c] # "none"
  /\ Takes(k, [does |-> "impact", request |-> c])
  /\ KeepsDocuments /\ KeepsRequests

CommitAddImpact(k) ==
  /\ clerk[k].does = "impact"
  /\ LET c == clerk[k].request IN
     /\ impact[c] = "none"
     /\ impact' = [impact EXCEPT ![c] = "open"]
  /\ Ends(k)
  /\ KeepsDocuments
  /\ UNCHANGED <<changeRequest, linked, functions, attached, mistaken>>

DeleteImpact(c) ==
  /\ impact[c] # "none"
  /\ impact' = [impact EXCEPT ![c] = "none"]
  /\ KeepsDocuments
  /\ Waits
  /\ UNCHANGED <<changeRequest, linked, functions, attached, mistaken>>

-----------------------------------------------------------------------------
(* Documents *)

CreateDocument(d) ==
  /\ IsNextId(document, d)
  /\ document' = [document EXCEPT ![d] = "Draft"]
  /\ KeepsRequests
  /\ Waits
  /\ UNCHANGED backed

\* The change requests that are linked to it keep its id.
DeleteDocument(d) ==
  /\ document[d] # "none"
  /\ document' = [document EXCEPT ![d] = "none"]
  /\ KeepsRequests
  /\ Waits
  /\ UNCHANGED backed

\* A Confirmed or Rejected document goes back to Draft; of another the status is kept.
BeginUpdateDocument(k, d) ==
  /\ document[d] \in {"Confirmed", "Rejected"}
  /\ Takes(k, [does |-> "document", document |-> d, to |-> "Draft"])
  /\ KeepsDocuments /\ KeepsRequests

BeginSubmitReview(k, d) ==
  /\ document[d] # "none"
  /\ "InReview" \in DOCUMENT_TRANSITIONS[document[d]]
  /\ Takes(k, [does |-> "document", document |-> d, to |-> "InReview"])
  /\ KeepsDocuments /\ KeepsRequests

BeginSignoff(k, d) ==
  /\ document[d] # "none"
  /\ \E to \in {"Confirmed", "Rejected"} \cap DOCUMENT_TRANSITIONS[document[d]] :
       Takes(k, [does |-> "document", document |-> d, to |-> to])
  /\ KeepsDocuments /\ KeepsRequests

CommitDocument(k) ==
  /\ clerk[k].does = "document"
  /\ LET d == clerk[k].document IN
     /\ document[d] # "none"
     /\ document' = [document EXCEPT ![d] = clerk[k].to]
     /\ backed' = IF clerk[k].to = "Confirmed" THEN backed \cup {c \in RequestIds : d \in attached[c]}
                 ELSE backed
  /\ Ends(k)
  /\ KeepsRequests

\* A request is refused, finds its row gone at the commit, or its process stops.
ClerkFails(k) ==
  /\ clerk[k] # Free
  /\ Ends(k)
  /\ KeepsDocuments /\ KeepsRequests

ChangeNext ==
  \/ \E c \in RequestIds :
       \/ CreateChangeRequest(c) \/ DeleteChangeRequest(c) \/ DeleteImpact(c)
       \/ \E k \in Clerks :
            \/ BeginStatus(k, c) \/ BeginApproval(k, c)
            \/ BeginSubmitApproval(k, c) \/ BeginAddImpact(k, c)
  \/ \E d \in DocumentIds :
       \/ CreateDocument(d) \/ DeleteDocument(d)
       \/ \E k \in Clerks :
            BeginUpdateDocument(k, d) \/ BeginSubmitReview(k, d) \/ BeginSignoff(k, d)
  \/ \E k \in Clerks :
       \/ CommitStatus(k) \/ PassGate(k) \/ ReadImpacts(k) \/ CommitApproval(k)
       \/ CommitSubmitApproval(k) \/ CommitAddImpact(k) \/ CommitDocument(k)
       \/ ClerkFails(k)

ChangeSpec == ChangeInit /\ [][ChangeNext]_changeVars

-----------------------------------------------------------------------------
(* Properties *)

ChangeTypeOK ==
  /\ changeRequest \in [RequestIds -> RequestStatuses \cup {"none"}]
  /\ linked \in [RequestIds -> DocumentIds \cup {NoDocument}]
  /\ document \in [DocumentIds -> DocumentStatuses \cup {"none"}]
  /\ impact \in [RequestIds -> {"none", "open", "wired"}]
  /\ functions \in [RequestIds -> BOOLEAN]
  /\ attached \in [RequestIds -> SUBSET DocumentIds]
  /\ backed \subseteq RequestIds /\ mistaken \subseteq RequestIds
  /\ late \subseteq Clerks
  /\ clerk \in [Clerks -> ClerkJob \cup {Free}]

\* The anti-scope-creep rule of workflow_definitions.py: nothing is committed to the
\* scope, neither the change request nor a function for its impacts, before a document
\* it was linked to had been signed off - however the requests overlap, and although
\* the document may be edited, deleted or replaced between the gate and the commit, and
\* ids are given again. A document is what has the id of the link. Left out is the row
\* that takes the id of a deleted change request while an approval of that one is at
\* work: the approval commits onto it (change_requests.py:104, 161).
ScopeNeedsSignoff ==
  \A c \in RequestIds \ mistaken : changeRequest[c] = "Approved" \/ functions[c] => c \in backed
=============================================================================
