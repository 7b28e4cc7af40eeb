----------------------------- MODULE QaEvidence ------------------------------
(***************************************************************************)
(* Evidence files of QA Again: a row in the project database, an object in *)
(* the storage, and no transaction over the two (routers/evidence.py,      *)
(* quota.py, reconciliation.py, scripts/reconcile_evidence.py).            *)
(*                                                                         *)
(* Uploads run in several workers. Each query of an upload sees the newest *)
(* commit, and between two of its queries anything may happen, a stop      *)
(* included. The script that deletes orphaned objects runs beside them.    *)
(***************************************************************************)
EXTENDS Naturals, FiniteSets, FiniteSetsExt

CONSTANTS
  Uploads,      \* upload requests at work at one time
  Files,        \* file contents, each known by its size
  Quota,        \* storage_quota_bytes of the project
  MaxObjects    \* bound: object keys

ASSUME EvidenceAssumption == Files \subseteq Nat \ {0} /\ Quota \in Nat /\ MaxObjects \in Nat

VARIABLES
  evidence,    \* EvidenceItem rows by object key
  objects,     \* the keys the storage holds
  keys,        \* how many keys were made up
  accepted,    \* the rows whose own upload was answered with them
  disowned,    \* history: those whose upload took the commit of the row for failed
  closed,      \* is the cycle LOCKED?
  upload,
  orphans      \* the candidates the reconciliation has listed

evidenceVars == <<evidence, objects, keys, accepted, disowned, closed, upload, orphans>>

Keys == 1..MaxObjects

NoItem == [file |-> 0, status |-> "NONE"]
Rows   == {k \in Keys : evidence[k] # NoItem}
NoUpload == [at |-> "idle", file |-> 0, key |-> 0]

\* project_storage_usage_bytes: ACTIVE and ARCHIVED rows alike.
Usage == MapThenSumSet(LAMBDA k : evidence[k].file, Rows)

EvidenceInit ==
  /\ evidence = [k \in Keys |-> NoItem]
  /\ objects  = {}
  /\ keys     = 0
  /\ accepted = {}
  /\ disowned = {}
  /\ closed   = FALSE
  /\ upload   = [u \in Uploads |-> NoUpload]
  /\ orphans  = {}

Goto(u, at) == upload' = [upload EXCEPT ![u].at = at]
Leave(u)    == upload' = [upload EXCEPT ![u] = NoUpload]

-----------------------------------------------------------------------------
(* upload_evidence *)

BeginUpload(u) ==
  /\ upload[u] = NoUpload
  /\ ~closed
  /\ \E f \in Files : upload' = [upload EXCEPT ![u] = [at |-> "quota", file |-> f, key |-> 0]]
  /\ UNCHANGED <<evidence, objects, keys, accepted, disowned, closed, orphans>>

\* The quota before anything is written, and the same file saved for the same result.
CheckQuota(u) ==
  /\ upload[u].at = "quota"
  /\ IF Usage + upload[u].file > Quota THEN Leave(u) ELSE Goto(u, "dedupe")
  /\ UNCHANGED <<evidence, objects, keys, accepted, disowned, closed, orphans>>

SameFile(u) == \E k \in Rows : evidence[k] = [file |-> upload[u].file, status |-> "ACTIVE"]

Dedupe(u) ==
  /\ upload[u].at = "dedupe"
  /\ IF SameFile(u) THEN Leave(u) ELSE Goto(u, "put")
  /\ UNCHANGED <<evidence, objects, keys, accepted, disowned, closed, orphans>>

PutObject(u) ==
  /\ upload[u].at = "put"
  /\ keys < MaxObjects
  /\ keys'    = keys + 1
  /\ objects' = objects \cup {keys + 1}
  /\ upload'  = [upload EXCEPT ![u].at = "insert", ![u].key = keys + 1]
  /\ UNCHANGED <<evidence, accepted, disowned, closed, orphans>>

PutFails(u) ==
  /\ upload[u].at = "put"
  /\ Leave(u)
  /\ UNCHANGED <<evidence, objects, keys, accepted, disowned, closed, orphans>>

CommitRow(u) ==
  evidence' = [evidence EXCEPT ![upload[u].key] = [file |-> upload[u].file, status |-> "ACTIVE"]]

InsertRow(u) ==
  /\ upload[u].at = "insert"
  /\ CommitRow(u)
  /\ Goto(u, "recheck")
  /\ UNCHANGED <<objects, keys, accepted, disowned, closed, orphans>>

\* The commit fails, or the row is committed and its refresh fails: both are taken for
\* an insert that did not happen.
InsertFails(u) ==
  /\ upload[u].at = "insert"
  /\ \/ UNCHANGED <<evidence, disowned>>
     \/ CommitRow(u) /\ disowned' = disowned \cup {upload[u].key}
  /\ Goto(u, "compensate")
  /\ UNCHANGED <<objects, keys, accepted, closed, orphans>>

\* Mutant: the quota is checked before the insert only.
NeverOver == FALSE

OverQuota == Usage > Quota

\* The fresh sum after the commit: the upload answers, or takes its own row back.
RecheckQuota(u) ==
  LET k == upload[u].key IN
  /\ upload[u].at = "recheck"
  /\ IF OverQuota
     THEN Goto(u, "evict") /\ UNCHANGED accepted
     ELSE Leave(u) /\ accepted' = accepted \cup {k}
  /\ UNCHANGED <<evidence, objects, keys, disowned, closed, orphans>>

EvictRow(u) ==
  /\ upload[u].at = "evict"
  /\ evidence' = [evidence EXCEPT ![upload[u].key] = NoItem]
  /\ Goto(u, "compensate")
  /\ UNCHANGED <<objects, keys, accepted, disowned, closed, orphans>>

\* _compensate_delete: a deletion that fails leaves an orphan behind.
Compensate(u) ==
  /\ upload[u].at = "compensate"
  /\ objects' \in {objects, objects \ {upload[u].key}}
  /\ Leave(u)
  /\ UNCHANGED <<evidence, keys, accepted, disowned, closed, orphans>>

\* The worker stops in the middle of an upload.
UploadStops(u) ==
  /\ upload[u].at # "idle"
  /\ Leave(u)
  /\ UNCHANGED <<evidence, objects, keys, accepted, disowned, closed, orphans>>

-----------------------------------------------------------------------------
(* The other handlers and the reconciliation script *)

ArchiveEvidence(k) ==
  /\ ~closed
  /\ evidence[k].status = "ACTIVE"
  /\ evidence' = [evidence EXCEPT ![k].status = "ARCHIVED"]
  /\ UNCHANGED <<objects, keys, accepted, disowned, closed, upload, orphans>>

\* lock_cycle and reopen_cycle.
LockOrReopen ==
  /\ closed' = ~closed
  /\ UNCHANGED <<evidence, objects, keys, accepted, disowned, upload, orphans>>

\* find_orphan_keys: the keys of the storage, less those of the rows.
ListOrphans ==
  /\ orphans' = objects \ Rows
  /\ UNCHANGED <<evidence, objects, keys, accepted, disowned, closed, upload>>

\* Mutant: a candidate is not looked up again.
NeverReferenced(k) == FALSE

StillReferenced(k) == k \in Rows

\* An upload has put its object and not yet committed its row: the window in which
\* the module's notes ask the operator not to run the script.
InFlight(k) == \E u \in Uploads : upload[u].at = "insert" /\ upload[u].key = k

\* delete_orphans, one candidate: looked up again, then deleted if it is there.
DeleteOrphan(k) ==
  /\ k \in orphans
  /\ ~InFlight(k)
  /\ orphans' = orphans \ {k}
  /\ objects' = IF StillReferenced(k) THEN objects ELSE objects \ {k}
  /\ UNCHANGED <<evidence, keys, accepted, disowned, closed, upload>>

EvidenceNext ==
  \/ \E u \in Uploads :
       \/ BeginUpload(u) \/ CheckQuota(u) \/ Dedupe(u)
       \/ PutObject(u) \/ PutFails(u) \/ InsertRow(u) \/ InsertFails(u)
       \/ RecheckQuota(u) \/ EvictRow(u) \/ Compensate(u) \/ UploadStops(u)
  \/ \E k \in Keys : ArchiveEvidence(k) \/ DeleteOrphan(k)
  \/ LockOrReopen
  \/ ListOrphans

EvidenceSpec == EvidenceInit /\ [][EvidenceNext]_evidenceVars

-----------------------------------------------------------------------------
(* Properties *)

EvidenceTypeOK ==
  /\ evidence \in [Keys -> {NoItem} \cup [file : Files, status : {"ACTIVE", "ARCHIVED"}]]
  /\ objects \subseteq Keys /\ orphans \subseteq Keys /\ disowned \subseteq Keys
  /\ accepted \subseteq Rows
  /\ keys \in 0..MaxObjects
  /\ closed \in BOOLEAN
  /\ upload \in [Uploads ->
       [at : {"idle", "quota", "dedupe", "put", "insert", "recheck", "evict", "compensate"},
        file : Files \cup {0}, key : Keys \cup {0}]]

\* The files whose uploads were answered as saved fit the quota, however the uploads
\* of several workers fall between each other's sums, commits and evictions, and
\* whichever of them stop on the way.
AcceptedWithinQuota == MapThenSumSet(LAMBDA k : evidence[k].file, accepted) <= Quota

\* A row has its object: nothing an upload takes back and nothing the script deletes
\* is the file of a row that stays. Left out are the rows whose refresh failed after
\* their commit: upload_evidence takes the commit for failed and removes the object
\* (routers/evidence.py:173-184).
RowHasObject == \A k \in Rows : k \in objects \/ k \in disowned \ accepted
=============================================================================
