--------------------------- MODULE QaIntakeProofs ---------------------------
(***************************************************************************)
(* Theorems about QaIntake, for any number of requests, projects, threads   *)
(* and re-runs, whoever deletes projects and whenever the machine stops.    *)
(***************************************************************************)
EXTENDS QaIntake, FiniteSetTheorems, TLAPS

\* A request past its registration, a thread that has chosen a project, a cycle.
Owned  == {"find_link", "choose_slug", "create_project", "link_project", "reload_project",
           "find_revision", "create_cycle", "find_attempt", "record_attempt", "mark_mapped"}
Homed  == {"reload_project", "find_revision", "create_cycle", "find_attempt", "record_attempt",
           "mark_mapped"}
Reruns == {"read_last", "append_attempt"}
Placed == {"create_project", "link_project"} \cup Homed \cup Reruns
Cycled == {"find_attempt", "record_attempt", "mark_mapped"} \cup Reruns

\* What a thread at a given step has in hand.
HandOK(q) ==
  /\ pc[q] # "idle" => call[q] \in Calls
  /\ pc[q] \in Placed => seen[q].slug \in Slugs
  /\ pc[q] \in Cycled => seen[q].cycle \in CycleNos
  /\ pc[q] \in Owned => request[call[q].key] # NoRequest
  /\ pc[q] = "append_attempt" => seen[q].last <= Len(attempts[seen[q].slug][seen[q].cycle])

TypeInv == TypeOK /\ AttemptsNumbered /\ \A q \in Requests : HandOK(q)

-----------------------------------------------------------------------------
(* Rows and threads are well formed, attempts are numbered *)

LEMMA Bounds ==
  /\ MaxSuffix \in Nat \ {0} /\ MaxId \in Nat \ {0}
  /\ MaxCycles \in Nat \ {0} /\ MaxAttempts \in Nat \ {0}
BY BoundsAssumption

LEMMA InitTypeInv == Init => TypeInv
<1> SUFFICES ASSUME Init PROVE TypeInv
  OBVIOUS
<1>1. TypeOK
  BY Bounds DEF Init, TypeOK, NoRequest, NoProject, NoCall, Nothing, Seen, PCs, Attempt
<1>2. AttemptsNumbered
  BY DEF Init, AttemptsNumbered
<1>3. \A q \in Requests : HandOK(q)
  BY DEF Init, HandOK, Placed, Homed, Cycled, Reruns, Owned
<1> QED BY <1>1, <1>2, <1>3 DEF TypeInv

\* Every thread but q is where it was.
Others(q) ==
  \A p \in Requests \ {q} :
    pc'[p] = pc[p] /\ call'[p] = call[p] /\ seen'[p] = seen[p]

LEMMA Went ==
  ASSUME TypeOK, NEW q \in Requests, NEW label, Goto(q, label)
  PROVE  /\ pc'[q] = label /\ call'[q] = call[q]
         /\ \A p \in Requests \ {q} : pc'[p] = pc[p] /\ call'[p] = call[p]
         /\ label \in PCs => pc' \in [Requests -> PCs]
         /\ call' = call
BY DEF Goto, TypeOK

LEMMA Finished ==
  ASSUME TypeOK, NEW q \in Requests, Finish(q)
  PROVE  /\ pc'[q] = "idle" /\ Others(q)
         /\ pc' \in [Requests -> PCs]
         /\ call' \in [Requests -> Calls \cup {NoCall}]
         /\ seen' \in [Requests -> Seen]
BY Bounds DEF Finish, TypeOK, Others, PCs, Nothing, Seen

LEMMA Refused ==
  ASSUME TypeOK, NEW q \in Requests, Refuse(q)
  PROVE  /\ pc'[q] = "idle" /\ Others(q)
         /\ pc' \in [Requests -> PCs]
         /\ call' \in [Requests -> Calls \cup {NoCall}]
         /\ seen' \in [Requests -> Seen]
BY Finished DEF Refuse

\* What a thread that has found its project has in hand.
LEMMA Held ==
  ASSUME TypeOK, NEW q \in Requests, NEW s \in Slugs, NEW id \in 0..MaxId,
         Hold(q, s) \/ HoldExpired(q, s, id)
  PROVE  /\ pc'[q] = IF Hold(q, s) THEN "find_revision" ELSE "reload_project"
         /\ call' = call /\ Others(q)
         /\ pc' \in [Requests -> PCs] /\ seen' \in [Requests -> Seen]
         /\ seen'[q].slug = s /\ (~ Hold(q, s) => seen'[q].id = id)
<1>1. PICK label \in {"find_revision", "reload_project"}, n \in 0..MaxId :
        /\ Goto(q, label) /\ (label = "find_revision" <=> Hold(q, s))
        /\ (~ Hold(q, s) => n = id)
        /\ seen' = [seen EXCEPT ![q] = [slug |-> s, id |-> n, cycle |-> 0, last |-> 0]]
  <2>1. 0 \in 0..MaxId
    BY Bounds
  <2> QED BY <2>1 DEF Hold, HoldExpired
<1> DEFINE row == [slug |-> s, id |-> n, cycle |-> 0, last |-> 0]
<1>2. row \in Seen /\ row.slug = s /\ row.id = n
  BY DEF Seen
<1>3. seen' = [seen EXCEPT ![q] = row]
  BY <1>1
<1> HIDE DEF row
<1>4. seen'[q] = row /\ seen' \in [Requests -> Seen]
      /\ \A p \in Requests \ {q} : seen'[p] = seen[p]
  BY <1>2, <1>3 DEF TypeOK
<1>5. label \in PCs
  BY DEF PCs
<1> QED BY <1>1, <1>2, <1>4, <1>5, Went DEF Others

\* Attempts of a cycle in use only grow, and only at their end.
AttemptsGrow ==
  \A s \in Slugs, c \in CycleNos :
    (\E q \in Requests : seen[q].slug = s) =>
      /\ Len(attempts[s][c]) <= Len(attempts'[s][c])
      /\ \A i \in DOMAIN attempts[s][c] : attempts'[s][c][i] = attempts[s][c][i]

\* What appending does to a sequence.
LEMMA Appended ==
  ASSUME NEW S, NEW row \in Seq(S), NEW x \in S
  PROVE  /\ Append(row, x) \in Seq(S)
         /\ Len(row) \in Nat /\ Len(Append(row, x)) = Len(row) + 1
         /\ DOMAIN row = 1..Len(row) /\ DOMAIN Append(row, x) = 1..(Len(row) + 1)
         /\ \A i \in 1..Len(row) : Append(row, x)[i] = row[i]
         /\ Append(row, x)[Len(row) + 1] = x
OBVIOUS

\* The number refused is the only one that would not follow.
LEMMA Inserted ==
  ASSUME TypeInv, NEW q \in Requests, NEW no \in Nat \ {0}, InsertAttempt(q, no),
         seen[q].slug \in Slugs, seen[q].cycle \in CycleNos, call[q] \in Calls,
         no <= Len(attempts[seen[q].slug][seen[q].cycle]) + 1
  PROVE  /\ attempts' \in [Slugs -> [CycleNos -> Seq(Attempt)]]
         /\ AttemptsNumbered'
         /\ AttemptsGrow
         /\ attempts'[seen[q].slug][seen[q].cycle][no] = [key |-> call[q].key, no |-> no]
         /\ Len(attempts'[seen[q].slug][seen[q].cycle]) = no
<1> DEFINE s == seen[q].slug
           c == seen[q].cycle
           row == attempts[s][c]
           new == [key |-> call[q].key, no |-> no]
           longer == Append(row, new)
<1>1. s \in Slugs /\ c \in CycleNos
  OBVIOUS
<1>2. row \in Seq(Attempt)
  BY <1>1 DEF TypeInv, TypeOK
<1>3. new \in Attempt /\ new.no = no
  BY DEF Attempt, Calls
<1>4. \A i \in DOMAIN row : row[i].no = i
  BY <1>1 DEF TypeInv, AttemptsNumbered
<1>5. no \notin DOMAIN row
  BY <1>4 DEF InsertAttempt, AttemptFree
<1>6. /\ longer \in Seq(Attempt)
      /\ Len(row) \in Nat /\ Len(longer) = Len(row) + 1
      /\ DOMAIN row = 1..Len(row) /\ DOMAIN longer = 1..(Len(row) + 1)
      /\ \A i \in 1..Len(row) : longer[i] = row[i]
      /\ longer[Len(row) + 1] = new
  <2> HIDE DEF row, new
  <2> QED BY <1>2, <1>3, Appended
<1>7. no = Len(row) + 1
  <2>1. no <= Len(row) + 1 /\ no \in Nat /\ no >= 1
    OBVIOUS
  <2> HIDE DEF row
  <2> QED BY <1>5, <1>6, <2>1
<1>8. attempts' = [attempts EXCEPT ![s][c] = longer]
  BY DEF InsertAttempt
<1> HIDE DEF longer, new
<1>9. ASSUME NEW i \in DOMAIN longer PROVE longer[i].no = i
  <2> HIDE DEF row
  <2>1. CASE i \in 1..Len(row)
    BY <1>4, <1>6, <2>1
  <2>2. CASE i = Len(row) + 1
    BY <1>3, <1>6, <1>7, <2>2
  <2> QED BY <1>6, <2>1, <2>2
<1>10. /\ attempts'[s][c] = longer
       /\ \A t \in Slugs, d \in CycleNos : t # s \/ d # c => attempts'[t][d] = attempts[t][d]
       /\ attempts' \in [Slugs -> [CycleNos -> Seq(Attempt)]]
  <2>1. attempts \in [Slugs -> [CycleNos -> Seq(Attempt)]]
    BY DEF TypeInv, TypeOK
  <2> QED BY <1>1, <1>6, <1>8, <2>1
<1>11. AttemptsNumbered'
  BY <1>9, <1>10 DEF TypeInv, AttemptsNumbered
<1>12. AttemptsGrow
  <2> SUFFICES ASSUME NEW t \in Slugs, NEW d \in CycleNos
               PROVE  /\ Len(attempts[t][d]) <= Len(attempts'[t][d])
                      /\ \A i \in DOMAIN attempts[t][d] : attempts'[t][d][i] = attempts[t][d][i]
    BY DEF AttemptsGrow
  <2>1. CASE t = s /\ d = c
    <3>1. attempts[t][d] = row /\ attempts'[t][d] = longer
      BY <1>10, <2>1
    <3> HIDE DEF row
    <3> QED BY <1>6, <3>1
  <2>2. CASE t # s \/ d # c
    <3>1. Len(attempts[t][d]) \in Nat
      BY DEF TypeInv, TypeOK
    <3> QED BY <1>10, <2>2, <3>1
  <2> QED BY <2>1, <2>2
<1> QED BY <1>6, <1>7, <1>10, <1>11, <1>12 DEF new

RowsKept == \A k \in Keys : request[k] # NoRequest => request'[k] # NoRequest

\* A step of q leaves what the other threads have in hand.
LEMMA OthersKeepHands ==
  ASSUME TypeInv, TypeOK', NEW q \in Requests, Others(q), RowsKept, AttemptsGrow,
         NEW p \in Requests \ {q}
  PROVE  HandOK(p)'
<1>1. pc'[p] = pc[p] /\ call'[p] = call[p] /\ seen'[p] = seen[p] /\ HandOK(p)
  BY DEF Others, TypeInv
<1>2. pc[p] \in Owned => call[p].key \in Keys
  BY <1>1 DEF HandOK, Owned, Calls
<1>3. ASSUME pc[p] = "append_attempt"
      PROVE  seen[p].last <= Len(attempts'[seen[p].slug][seen[p].cycle])
  <2>1. seen[p].slug \in Slugs /\ seen[p].cycle \in CycleNos
    BY <1>1, <1>3 DEF HandOK, Placed, Cycled, Reruns
  <2>2. /\ Len(attempts[seen[p].slug][seen[p].cycle]) \in Nat
        /\ Len(attempts'[seen[p].slug][seen[p].cycle]) \in Nat
        /\ seen[p].last \in Nat
    BY <2>1 DEF TypeInv, TypeOK, Seen
  <2>3. seen[p].last <= Len(attempts[seen[p].slug][seen[p].cycle])
    BY <1>1, <1>3 DEF HandOK
  <2>4. Len(attempts[seen[p].slug][seen[p].cycle]) <= Len(attempts'[seen[p].slug][seen[p].cycle])
    BY <2>1 DEF AttemptsGrow
  <2>5. \A x, y, z \in Nat : x <= y /\ y <= z => x <= z
    OBVIOUS
  <2> QED BY <2>2, <2>3, <2>4, <2>5
<1> QED BY <1>1, <1>2, <1>3 DEF HandOK, RowsKept

LEMMA Untouched ==
  ASSUME TypeInv, UNCHANGED <<request, attempts>>
  PROVE  RowsKept /\ AttemptsGrow /\ AttemptsNumbered'
<1>1. \A s \in Slugs, c \in CycleNos : Len(attempts[s][c]) \in Nat
  BY DEF TypeInv, TypeOK
<1>2. RowsKept
  BY DEF RowsKept
<1>3. AttemptsGrow
  BY <1>1 DEF AttemptsGrow
<1>4. AttemptsNumbered'
  BY DEF TypeInv, AttemptsNumbered
<1> QED BY <1>2, <1>3, <1>4

\* What is left to show of a step of q that keeps the rows it must.
LEMMA StepKeepsTypes ==
  ASSUME TypeInv, TypeOK', AttemptsNumbered', NEW q \in Requests, Others(q),
         RowsKept, AttemptsGrow, HandOK(q)'
  PROVE  TypeInv'
<1>1. \A p \in Requests \ {q} : HandOK(p)'
  BY OthersKeepHands
<1> QED BY <1>1 DEF TypeInv

\* The steps that only read.
LEMMA ReadingKeepsTypes ==
  ASSUME TypeInv, NEW q \in Requests,
         \/ BeginIntake(q) \/ BeginRerun(q) \/ FindLink(q) \/ ChooseSlug(q) \/ ReloadProject(q)
         \/ FindRevision(q) \/ FindAttempt(q) \/ ReadLast(q) \/ Fail(q)
  PROVE  TypeInv'
<1>1. UNCHANGED <<master, files, deletion>>
  BY DEF BeginIntake, BeginRerun, FindLink, ChooseSlug, ReloadProject, FindRevision,
    FindAttempt, ReadLast, Fail, vars
<1>2. RowsKept /\ AttemptsGrow /\ AttemptsNumbered'
  BY <1>1, Untouched DEF master, files
<1>3. TypeOK /\ HandOK(q)
  BY DEF TypeInv
<1> DEFINE Fine == /\ pc' \in [Requests -> PCs]
                   /\ call' \in [Requests -> Calls \cup {NoCall}]
                   /\ seen' \in [Requests -> Seen]
                   /\ Others(q) /\ HandOK(q)'
<1>4. SUFFICES Fine
  <2>1. ASSUME Fine PROVE TypeOK'
    BY <1>1, <1>3, <2>1 DEF TypeOK, master, files, deletion
  <2> QED BY <1>2, <2>1, StepKeepsTypes
<1>5. CASE Finish(q)
  BY <1>3, <1>5, Finished DEF HandOK, Placed, Homed, Cycled, Reruns, Owned
<1>6. CASE BeginIntake(q)
  <2>1. CASE UNCHANGED vars
    BY <1>3, <2>1 DEF vars, master, files, threads, TypeOK, Others, HandOK
  <2>2. CASE ~ UNCHANGED vars
    BY <1>3, <1>6, <2>2, DeliveriesAssumption
    DEF BeginIntake, TypeOK, Others, PCs, HandOK, Placed, Homed, Cycled, Reruns, Owned
  <2> QED BY <2>1, <2>2
<1>7. CASE BeginRerun(q)
  <2>1. PICK i \in Ids, t \in Tenants \cup {None} :
          /\ newest[i] # None
          /\ request[newest[i]].status = "MAPPED"
          /\ pc'   = [pc EXCEPT ![q] = "read_last"]
          /\ call' = [call EXCEPT ![q] = [key |-> newest[i], id |-> i,
                                         wp |-> request[newest[i]].wp, tenant |-> t]]
          /\ seen' = [seen EXCEPT ![q] = [slug |-> request[newest[i]].at.slug, id |-> 0,
                                         cycle |-> request[newest[i]].at.cycle, last |-> 0]]
    BY <1>7 DEF BeginRerun, Nothing
  <2>2. newest[i] \in Keys
    BY <1>3, <2>1 DEF TypeOK
  <2>3. request[newest[i]] \in RequestRow /\ request[newest[i]].status = "MAPPED"
    BY <1>3, <2>1, <2>2 DEF TypeOK, NoRequest, None
  <2>4. /\ request[newest[i]].wp \in WorkPackages
        /\ request[newest[i]].at.slug \in Slugs /\ request[newest[i]].at.cycle \in CycleNos
    BY <2>3 DEF RequestRow
  <2>5. [slug |-> request[newest[i]].at.slug, id |-> 0,
         cycle |-> request[newest[i]].at.cycle, last |-> 0] \in Seen
    BY <2>4, Bounds DEF Seen
  <2>6. [key |-> newest[i], id |-> i, wp |-> request[newest[i]].wp, tenant |-> t] \in Calls
    BY <2>2, <2>4 DEF Calls
  <2> QED BY <1>3, <2>1, <2>4, <2>5, <2>6
      DEF TypeOK, Others, PCs, HandOK, Placed, Homed, Cycled, Reruns, Owned
<1>8. CASE ReloadProject(q) /\ ~ Finish(q)
  <2>1. call[q] \in Calls /\ request[call[q].key] # NoRequest /\ call[q].key \in Keys
    BY <1>3, <1>8 DEF ReloadProject, HandOK, Owned, Calls
  <2>2. PICK s \in Slugs : Hold(q, s)
    BY <1>8 DEF ReloadProject, Refuse
  <2>3. 0 \in 0..MaxId
    BY Bounds
  <2> QED BY <1>1, <1>3, <2>1, <2>2, <2>3, Held
      DEF TypeOK, Others, HandOK, Placed, Homed, Cycled, Reruns, Owned, master
<1>9. CASE FindLink(q) /\ ~ Finish(q)
  <2>1. call[q] \in Calls /\ call[q].key \in Keys /\ request[call[q].key] # NoRequest
    BY <1>3, <1>9 DEF FindLink, HandOK, Owned, Calls
  <2>2. CASE Goto(q, "choose_slug") /\ UNCHANGED seen
    BY <1>1, <1>3, <2>1, <2>2, Went
    DEF TypeOK, Others, PCs, HandOK, Placed, Homed, Cycled, Reruns, Owned, master
  <2>3. ASSUME NEW s \in Slugs, Hold(q, s) \/ HoldExpired(q, s, project[s].id) PROVE Fine
    <3>1. project[s].id \in 0..MaxId
      BY <1>3, Bounds DEF TypeOK, ProjectRow, NoProject
    <3> QED BY <1>1, <1>3, <2>1, <2>3, <3>1, Held
        DEF TypeOK, Others, HandOK, Placed, Homed, Cycled, Reruns, Owned, master
  <2> QED BY <1>9, <2>2, <2>3 DEF FindLink, Linked
<1>10. CASE ChooseSlug(q)
  <2>1. call[q] \in Calls /\ call[q].key \in Keys /\ request[call[q].key] # NoRequest
    BY <1>3, <1>10 DEF ChooseSlug, HandOK, Owned, Calls
  <2>2. PICK n \in 1..MaxSuffix : See(q, "slug", <<BaseSlug[call[q].wp], n>>)
    BY <1>10 DEF ChooseSlug
  <2>3. <<BaseSlug[call[q].wp], n>> \in Slugs
    BY <2>1, BaseSlugAssumption DEF Slugs, Calls
  <2>4. seen' = [seen EXCEPT ![q].slug = <<BaseSlug[call[q].wp], n>>]
    BY <2>2 DEF See
  <2>5. seen' \in [Requests -> Seen] /\ seen'[q].slug \in Slugs
        /\ \A p \in Requests \ {q} : seen'[p] = seen[p]
    BY <1>3, <2>3, <2>4 DEF TypeOK, Seen
  <2>6. Goto(q, "create_project")
    BY <1>10 DEF ChooseSlug
  <2> QED BY <1>1, <1>3, <2>1, <2>5, <2>6, Went
      DEF TypeOK, Others, PCs, HandOK, Placed, Homed, Cycled, Reruns, Owned, master
<1>11. CASE FindRevision(q) /\ ~ Finish(q)
  BY <1>1, <1>3, <1>11, Went
  DEF FindRevision, TypeOK, Others, PCs, HandOK, Placed, Homed, Cycled, Reruns, Owned, master
<1>12. CASE FindAttempt(q) /\ ~ Finish(q)
  BY <1>1, <1>3, <1>12, Went
  DEF FindAttempt, TypeOK, Others, PCs, HandOK, Placed, Homed, Cycled, Reruns, Owned, master
<1>13. CASE ReadLast(q)
  <2>1. seen[q].slug \in Slugs /\ seen[q].cycle \in CycleNos /\ call[q] \in Calls
    BY <1>3, <1>13 DEF ReadLast, HandOK, Placed, Cycled, Reruns
  <2> DEFINE row == attempts[seen[q].slug][seen[q].cycle]
             last == LastAttempt(seen[q].slug, seen[q].cycle)
  <2>2. last \in Nat /\ last <= Len(row)
    <3>1. row \in Seq(Attempt) /\ \A i \in DOMAIN row : row[i].no = i
      BY <2>1 DEF TypeInv, TypeOK, AttemptsNumbered
    <3>2. DOMAIN row = 1..Len(row) /\ Len(row) \in Nat
      BY <3>1
    <3>3. {row[i].no : i \in DOMAIN row} = 1..Len(row)
      <4> HIDE DEF row
      <4> QED BY <3>1, <3>2
    <3>4. last = CHOOSE n \in (1..Len(row)) \cup {0} : \A m \in 1..Len(row) : m <= n
      BY <3>3 DEF LastAttempt
    <3>5. \E n \in (1..Len(row)) \cup {0} : \A m \in 1..Len(row) : m <= n
      <4> HIDE DEF row
      <4> WITNESS Len(row) \in (1..Len(row)) \cup {0}
      <4> QED BY <3>2
    <3>6. last \in (1..Len(row)) \cup {0}
      <4> HIDE DEF row
      <4> QED BY <3>4, <3>5
    <3> HIDE DEF row, last
    <3> QED BY <3>2, <3>6
  <2>3. seen' = [seen EXCEPT ![q].last = last]
    BY <1>13 DEF ReadLast, See
  <2> HIDE DEF last
  <2>4. seen' \in [Requests -> Seen] /\ seen'[q] = [seen[q] EXCEPT !.last = last]
        /\ \A p \in Requests \ {q} : seen'[p] = seen[p]
    BY <1>3, <2>2, <2>3 DEF TypeOK, Seen
  <2>5. seen'[q].slug = seen[q].slug /\ seen'[q].cycle = seen[q].cycle /\ seen'[q].last = last
    BY <1>3, <2>4 DEF TypeOK, Seen
  <2>6. Goto(q, "append_attempt")
    BY <1>13 DEF ReadLast
  <2> QED BY <1>1, <1>3, <2>1, <2>2, <2>4, <2>5, <2>6, Went
      DEF TypeOK, Others, PCs, HandOK, Placed, Homed, Cycled, Reruns, Owned, files
<1> QED BY <1>5, <1>6, <1>7, <1>8, <1>9, <1>10, <1>11, <1>12, <1>13 DEF Fail, Refuse

\* The steps that write, one lemma each.
LEMMA RegisterKeepsTypes ==
  ASSUME TypeInv, NEW q \in Requests, Register(q)
  PROVE  TypeInv'
<1>1. TypeOK /\ HandOK(q) /\ call[q] \in Calls
  BY DEF TypeInv, Register, HandOK
<1>2. AttemptsGrow /\ AttemptsNumbered'
  <2>1. \A s \in Slugs, c \in CycleNos : Len(attempts[s][c]) \in Nat
    BY <1>1 DEF TypeOK
  <2> QED BY <2>1 DEF Register, files, AttemptsGrow, TypeInv, AttemptsNumbered
<1>3. CASE KeyFree(call[q].key)
  <2> DEFINE k == call[q].key
             row == [id |-> call[q].id, wp |-> call[q].wp, tenant |-> call[q].tenant,
                     status |-> "RECEIVED", at |-> Unmapped]
  <2>1. k \in Keys /\ row \in RequestRow /\ row # NoRequest
    BY <1>1 DEF Calls, RequestRow, NoRequest, None
  <2>2. request' = [request EXCEPT ![k] = row] /\ newest' = [newest EXCEPT ![call[q].id] = k]
        /\ Goto(q, "find_link") /\ UNCHANGED <<seen, project, link, files, deletion>>
    BY <1>3 DEF Register
  <2> HIDE DEF k, row
  <2>3. request' \in [Keys -> RequestRow \cup {NoRequest}] /\ request'[k] # NoRequest /\ RowsKept
    BY <1>1, <2>1, <2>2 DEF TypeOK, RowsKept
  <2>4. newest' \in [Ids -> Keys \cup {None}]
    BY <1>1, <2>1, <2>2 DEF TypeOK
  <2>5. TypeOK' /\ Others(q)
    BY <1>1, <2>2, <2>3, <2>4, Went DEF TypeOK, Others, PCs, files, deletion
  <2>6. HandOK(q)'
    BY <1>1, <2>2, <2>3, Went DEF HandOK, Placed, Homed, Cycled, Reruns, Owned, k
  <2> QED BY <1>2, <2>3, <2>5, <2>6, StepKeepsTypes
<1>4. CASE ~ KeyFree(call[q].key)
  <2>1. Refuse(q) /\ UNCHANGED <<master, files, deletion>>
    BY <1>4 DEF Register, master
  <2>2. RowsKept /\ TypeOK' /\ Others(q) /\ HandOK(q)'
    BY <1>1, <2>1, Refused
    DEF RowsKept, TypeOK, master, files, deletion, HandOK, Placed, Homed, Cycled, Reruns, Owned
  <2> QED BY <1>2, <2>2, StepKeepsTypes
<1> QED BY <1>3, <1>4

\* A step that writes neither requests nor attempts.
LEMMA OtherWriteKeepsTypes ==
  ASSUME TypeInv, NEW q \in Requests, CreateProject(q) \/ LinkProject(q) \/ CreateCycle(q)
  PROVE  TypeInv'
<1>1. TypeOK /\ HandOK(q) /\ call[q] \in Calls /\ seen[q].slug \in Slugs
      /\ request[call[q].key] # NoRequest
  BY DEF TypeInv, CreateProject, LinkProject, CreateCycle, HandOK, Placed, Homed, Owned
<1>2. UNCHANGED <<request, newest, attempts>>
  BY DEF CreateProject, LinkProject, CreateCycle, master, files
<1>3. RowsKept /\ AttemptsGrow /\ AttemptsNumbered'
  BY <1>2, Untouched
<1>4. SUFFICES TypeOK' /\ Others(q) /\ HandOK(q)'
  BY <1>3, StepKeepsTypes
<1>5. CASE Refuse(q) /\ UNCHANGED <<master, files, deletion>>
  BY <1>1, <1>5, Refused DEF TypeOK, master, files, deletion, HandOK, Placed, Homed, Cycled, Reruns, Owned
<1>6. CASE CreateProject(q) /\ ~ Live(seen[q].slug)
  <2>1. PICK n \in NextIds :
          /\ project' = [project EXCEPT ![seen[q].slug] = [id |-> n, tenant |-> call[q].tenant]]
          /\ See(q, "id", n)
    BY <1>6 DEF CreateProject
  <2>2. [id |-> n, tenant |-> call[q].tenant] \in ProjectRow
    BY <1>1 DEF NextIds, ProjectRow, Calls
  <2>3. project' \in [Slugs -> ProjectRow \cup {NoProject}]
    BY <1>1, <2>1, <2>2 DEF TypeOK
  <2>4. Goto(q, "link_project") /\ UNCHANGED <<link, files, deletion>>
    BY <1>6 DEF CreateProject
  <2>5. /\ seen' \in [Requests -> Seen] /\ seen'[q].slug = seen[q].slug
        /\ \A p \in Requests \ {q} : seen'[p] = seen[p]
    <3>1. seen' = [seen EXCEPT ![q].id = n]
      BY <2>1 DEF See
    <3>2. n \in 0..MaxId
      BY Bounds DEF NextIds
    <3> QED BY <1>1, <3>1, <3>2 DEF TypeOK, Seen
  <2> QED BY <1>1, <1>2, <2>3, <2>4, <2>5, Went
      DEF TypeOK, Others, PCs, files, deletion, HandOK, Placed, Homed, Cycled, Reruns, Owned
<1>7. CASE LinkProject(q) /\ NoLink(call[q].wp)
  <2>1. seen[q].id \in 0..MaxId
    BY <1>1 DEF TypeOK, Seen
  <2>2. link' = [link EXCEPT ![call[q].wp] = seen[q].id]
        /\ HoldExpired(q, seen[q].slug, seen[q].id) /\ UNCHANGED <<project, files, deletion>>
    BY <1>7 DEF LinkProject
  <2>3. link' \in [WorkPackages -> 0..MaxId]
    BY <1>1, <2>1, <2>2 DEF TypeOK
  <2> QED BY <1>1, <1>2, <2>1, <2>2, <2>3, Held
      DEF TypeOK, Others, files, deletion, HandOK, Placed, Homed, Cycled, Reruns, Owned
<1>8. CASE CreateCycle(q)
  <2> DEFINE s == seen[q].slug
  <2>1. cycles[s] \in Seq(Keys) /\ call[q].key \in Keys /\ Len(cycles[s]) \in Nat
    BY <1>1 DEF TypeOK, Calls
  <2>2. Append(cycles[s], call[q].key) \in Seq(Keys)
    BY <2>1
  <2>3. cycles' = [cycles EXCEPT ![s] = Append(@, call[q].key)]
        /\ seen' = [seen EXCEPT ![q].cycle = Len(cycles[s]) + 1]
        /\ Goto(q, "find_attempt") /\ UNCHANGED <<master, published, attempts, deletion>>
        /\ Len(cycles[s]) < MaxCycles
    BY <1>8 DEF CreateCycle, See
  <2>4. cycles' \in [Slugs -> Seq(Keys)]
    BY <1>1, <2>2, <2>3 DEF TypeOK
  <2>5. Len(cycles[s]) + 1 \in CycleNos
    BY <2>1, <2>3, Bounds DEF CycleNos
  <2>6. seen' \in [Requests -> Seen] /\ seen'[q].cycle \in CycleNos /\ seen'[q].slug = s
        /\ \A p \in Requests \ {q} : seen'[p] = seen[p]
    <3> DEFINE n == Len(cycles[s]) + 1
    <3>1. n \in CycleNos /\ seen' = [seen EXCEPT ![q].cycle = n]
      BY <2>3, <2>5
    <3> HIDE DEF n
    <3> QED BY <1>1, <3>1 DEF TypeOK, Seen
  <2> QED BY <1>1, <1>2, <2>3, <2>4, <2>6, Went
      DEF TypeOK, Others, PCs, master, deletion, HandOK, Placed, Homed, Cycled, Reruns, Owned
<1> QED BY <1>5, <1>6, <1>7, <1>8 DEF CreateProject, LinkProject, master, files

\* Both inserts follow the last attempt; a first one is the request's own.
LEMMA Followed ==
  ASSUME TypeInv, NEW q \in Requests, RecordAttempt(q) \/ AppendAttempt(q)
  PROVE  /\ attempts' \in [Slugs -> [CycleNos -> Seq(Attempt)]]
         /\ AttemptsNumbered' /\ AttemptsGrow
         /\ pc'[q] = "mark_mapped" =>
              /\ Len(attempts'[seen[q].slug][seen[q].cycle]) = 1
              /\ attempts'[seen[q].slug][seen[q].cycle][1] = [key |-> call[q].key, no |-> 1]
<1>1. /\ TypeOK /\ HandOK(q) /\ call[q] \in Calls
      /\ seen[q].slug \in Slugs /\ seen[q].cycle \in CycleNos
  BY DEF TypeInv, RecordAttempt, AppendAttempt, HandOK, Placed, Homed, Cycled, Reruns
<1> DEFINE n == Len(attempts[seen[q].slug][seen[q].cycle])
<1>2. n \in Nat
  BY <1>1 DEF TypeOK
<1>3. CASE Refuse(q) /\ UNCHANGED <<request, attempts>>
  <2>1. pc'[q] # "mark_mapped"
    BY <1>1, <1>3, Refused
  <2> QED BY <1>1, <1>3, <2>1, Untouched DEF TypeOK
<1>4. CASE RecordAttempt(q) /\ InsertAttempt(q, 1)
  <2> DEFINE no == 1
  <2>1. no \in Nat \ {0} /\ no <= n + 1
    <3> HIDE DEF n
    <3> QED BY <1>2
  <2>2. InsertAttempt(q, no)
    BY <1>4
  <2> HIDE DEF no
  <2>3. /\ attempts' \in [Slugs -> [CycleNos -> Seq(Attempt)]]
        /\ AttemptsNumbered' /\ AttemptsGrow
        /\ Len(attempts'[seen[q].slug][seen[q].cycle]) = no
        /\ attempts'[seen[q].slug][seen[q].cycle][no] = [key |-> call[q].key, no |-> no]
    BY <1>1, <2>1, <2>2, Inserted
  <2> QED BY <2>3 DEF no
<1>5. CASE AppendAttempt(q) /\ InsertAttempt(q, seen[q].last + 1)
  <2>1. seen[q].last \in Nat /\ seen[q].last <= n
    BY <1>1, <1>5 DEF AppendAttempt, HandOK, TypeOK, Seen
  <2>2. seen[q].last + 1 \in Nat \ {0} /\ seen[q].last + 1 <= n + 1
    BY <1>2, <2>1
  <2>3. pc'[q] # "mark_mapped"
    BY <1>1, <1>5, Finished DEF AppendAttempt, RefuseAttempt, InsertAttempt
  <2> QED BY <1>1, <1>5, <2>2, <2>3, Inserted
<1> QED BY <1>3, <1>4, <1>5 DEF RecordAttempt, AppendAttempt, RefuseAttempt, master

LEMMA AttemptKeepsTypes ==
  ASSUME TypeInv, NEW q \in Requests, RecordAttempt(q) \/ AppendAttempt(q)
  PROVE  TypeInv'
<1>1. TypeOK /\ HandOK(q) /\ call[q] \in Calls
  BY DEF TypeInv, RecordAttempt, AppendAttempt, HandOK
<1>2. UNCHANGED <<master, published, cycles, deletion>> /\ RowsKept
  BY DEF RecordAttempt, AppendAttempt, RowsKept, master
<1>3. TypeOK' /\ Others(q) /\ HandOK(q)'
  <2>1. CASE Refuse(q)
    BY <1>1, <1>2, <2>1, Followed, Refused
    DEF TypeOK, master, deletion, HandOK, Placed, Homed, Cycled, Reruns, Owned
  <2>2. CASE Finish(q)
    BY <1>1, <1>2, <2>2, Followed, Finished
    DEF TypeOK, master, deletion, HandOK, Placed, Homed, Cycled, Reruns, Owned
  <2>3. CASE RecordAttempt(q) /\ Goto(q, "mark_mapped") /\ UNCHANGED seen
    <3>1. /\ seen[q].slug \in Slugs /\ seen[q].cycle \in CycleNos
          /\ request[call[q].key] # NoRequest
      BY <1>1, <2>3 DEF RecordAttempt, HandOK, Placed, Homed, Cycled, Owned
    <3>2. attempts' \in [Slugs -> [CycleNos -> Seq(Attempt)]]
      BY Followed
    <3>3. pc' \in [Requests -> PCs] /\ pc'[q] = "mark_mapped" /\ Others(q)
      BY <1>1, <2>3 DEF Goto, Others, TypeOK, PCs
    <3>4. TypeOK'
      BY <1>1, <1>2, <2>3, <3>2, <3>3 DEF Goto, TypeOK, master, deletion
    <3>5. HandOK(q)'
      BY <1>1, <1>2, <2>3, <3>1, <3>3
      DEF Goto, HandOK, master, Placed, Homed, Cycled, Reruns, Owned
    <3> QED BY <3>3, <3>4, <3>5
  <2> QED BY <2>1, <2>2, <2>3 DEF RecordAttempt, AppendAttempt, RefuseAttempt
<1> QED BY <1>2, <1>3, Followed, StepKeepsTypes

\* What mark_mapped writes.
LEMMA Marked ==
  ASSUME TypeInv, NEW q \in Requests, MarkMapped(q)
  PROVE  /\ call[q].key \in Keys /\ request[call[q].key] \in RequestRow
         /\ seen[q].slug \in Slugs /\ seen[q].cycle \in CycleNos
         /\ request' = [request EXCEPT ![call[q].key] =
              [@ EXCEPT !.status = "MAPPED",
                        !.at = [slug |-> seen[q].slug, cycle |-> seen[q].cycle]]]
         /\ request'[call[q].key] \in RequestRow
         /\ request'[call[q].key].status = "MAPPED"
         /\ request'[call[q].key].at = [slug |-> seen[q].slug, cycle |-> seen[q].cycle]
         /\ request'[call[q].key].wp = request[call[q].key].wp
         /\ \A k \in Keys : k # call[q].key => request'[k] = request[k]
<1>1. /\ call[q].key \in Keys /\ request[call[q].key] # NoRequest
      /\ seen[q].slug \in Slugs /\ seen[q].cycle \in CycleNos
  BY DEF TypeInv, MarkMapped, HandOK, Placed, Homed, Cycled, Owned, Calls
<1>2. request[call[q].key] \in RequestRow /\ request \in [Keys -> RequestRow \cup {NoRequest}]
  BY <1>1 DEF TypeInv, TypeOK
<1> DEFINE row == [request[call[q].key] EXCEPT !.status = "MAPPED",
                      !.at = [slug |-> seen[q].slug, cycle |-> seen[q].cycle]]
<1>3. /\ row \in RequestRow /\ row.status = "MAPPED" /\ row.wp = request[call[q].key].wp
      /\ row.at = [slug |-> seen[q].slug, cycle |-> seen[q].cycle]
  BY <1>1, <1>2 DEF RequestRow
<1>4. request' = [request EXCEPT ![call[q].key] = row]
  BY DEF MarkMapped
<1> HIDE DEF row
<1>5. request'[call[q].key] = row /\ \A k \in Keys : k # call[q].key => request'[k] = request[k]
  BY <1>1, <1>2, <1>4
<1> QED BY <1>1, <1>2, <1>3, <1>4, <1>5 DEF row

LEMMA MarkMappedKeepsTypes ==
  ASSUME TypeInv, NEW q \in Requests, MarkMapped(q)
  PROVE  TypeInv'
<1>1. TypeOK /\ Finish(q) /\ UNCHANGED <<newest, project, link, files, deletion>>
  BY DEF TypeInv, MarkMapped
<1>2. request' \in [Keys -> RequestRow \cup {NoRequest}] /\ RowsKept
  <2>1. \A x \in RequestRow : x # NoRequest
    BY DEF RequestRow, NoRequest, None
  <2> QED BY <1>1, <2>1, Marked DEF TypeOK, RowsKept
<1>3. AttemptsGrow /\ AttemptsNumbered'
  <2>1. \A s \in Slugs, c \in CycleNos : Len(attempts[s][c]) \in Nat
    BY <1>1 DEF TypeOK
  <2> QED BY <1>1, <2>1 DEF files, AttemptsGrow, TypeInv, AttemptsNumbered
<1>4. TypeOK' /\ Others(q) /\ HandOK(q)'
  BY <1>1, <1>2, Finished DEF TypeOK, files, deletion, HandOK, Placed, Homed, Cycled, Reruns, Owned
<1> QED BY <1>2, <1>3, <1>4, StepKeepsTypes

\* IsCycleOf and Attempted in the state a step leads to, of what is in hand in this one.
IsThenCycleOf(s, c, k) == c <= Len(cycles'[s]) /\ cycles'[s][c] = k

ThenAttempted(k, s, c, n) == n \in DOMAIN attempts'[s][c] /\ attempts'[s][c][n].key = k

\* What the removal of a file leaves: the rows of other projects, and the threads that
\* were not about to write to that file.
LEMMA FileRemoved ==
  ASSUME TypeOK, NEW s \in Slugs, RemoveFile(s)
  PROVE  /\ UNCHANGED <<master, orphaned>>
         /\ pc' \in [Requests -> PCs]
         /\ call' \in [Requests -> Calls \cup {NoCall}]
         /\ seen' \in [Requests -> Seen]
         /\ \A q \in Requests :
              \/ pc'[q] = "idle"
              \/ /\ pc'[q] = pc[q] /\ call'[q] = call[q] /\ seen'[q] = seen[q]
                 /\ pc[q] \in Writing => seen[q].slug # s
         /\ \A t \in Slugs : t # s => cycles'[t] = cycles[t] /\ attempts'[t] = attempts[t]
         /\ cycles'[s] = <<>> /\ attempts'[s] = [c \in CycleNos |-> <<>>]
         /\ \A k \in Keys : k \in lost' <=> k \in lost \/ \E c \in CycleNos : IsCycleOf(s, c, k)
<1>1. PICK stuck : stuck = {q \in Requests : pc[q] \in Writing /\ seen[q].slug = s}
  OBVIOUS
<1>2. /\ pc'   = [q \in Requests |-> IF q \in stuck THEN "idle" ELSE pc[q]]
      /\ call' = [q \in Requests |-> IF q \in stuck THEN NoCall ELSE call[q]]
      /\ seen' = [q \in Requests |-> IF q \in stuck THEN Nothing ELSE seen[q]]
  BY <1>1 DEF RemoveFile
<1>3. Nothing \in Seen /\ "idle" \in PCs
  BY Bounds DEF Nothing, Seen, PCs
<1>4. /\ pc' \in [Requests -> PCs]
      /\ call' \in [Requests -> Calls \cup {NoCall}]
      /\ seen' \in [Requests -> Seen]
  BY <1>2, <1>3 DEF TypeOK
<1>5. /\ \A t \in Slugs : t # s => cycles'[t] = cycles[t] /\ attempts'[t] = attempts[t]
      /\ cycles'[s] = <<>> /\ attempts'[s] = [c \in CycleNos |-> <<>>]
  BY DEF RemoveFile, TypeOK
<1> QED BY <1>1, <1>2, <1>4, <1>5 DEF RemoveFile

LEMMA RemoveFileKeepsTypes ==
  ASSUME TypeInv, NEW s \in Slugs, RemoveFile(s)
  PROVE  TypeInv'
<1>1. TypeOK
  BY DEF TypeInv
<1>2. /\ \A t \in Slugs : t # s => attempts'[t] = attempts[t]
      /\ \A c \in CycleNos : attempts'[s][c] = <<>>
  BY <1>1, FileRemoved
<1>3. TypeOK'
  <2>1. /\ published' \in [Slugs -> BOOLEAN] /\ cycles' \in [Slugs -> Seq(Keys)]
        /\ attempts' \in [Slugs -> [CycleNos -> Seq(Attempt)]]
    BY <1>1 DEF RemoveFile, TypeOK
  <2>2. doomed' \in [Slugs -> Nat]
    <3>1. doomed[s] - 1 \in Nat /\ doomed' = [doomed EXCEPT ![s] = doomed[s] - 1]
      BY <1>1 DEF RemoveFile, TypeOK
    <3> QED BY <1>1, <3>1 DEF TypeOK
  <2>3. lost' \subseteq Keys
    BY <1>1 DEF RemoveFile, TypeOK
  <2> QED BY <1>1, <2>1, <2>2, <2>3, FileRemoved DEF TypeOK, master
<1>4. AttemptsNumbered'
  <2> SUFFICES ASSUME NEW t \in Slugs, NEW c \in CycleNos
               PROVE  \A i \in DOMAIN attempts'[t][c] : attempts'[t][c][i].no = i
    BY DEF AttemptsNumbered
  <2>1. CASE t = s
    BY <1>2, <2>1
  <2>2. CASE t # s
    BY <1>2, <2>2 DEF TypeInv, AttemptsNumbered
  <2> QED BY <2>1, <2>2
<1>5. ASSUME NEW q \in Requests PROVE HandOK(q)'
  <2>1. CASE pc'[q] = "idle"
    BY <2>1 DEF HandOK, Placed, Homed, Cycled, Reruns, Owned
  <2>2. CASE /\ pc'[q] = pc[q] /\ call'[q] = call[q] /\ seen'[q] = seen[q]
             /\ pc[q] \in Writing => seen[q].slug # s
    <3>1. request' = request /\ HandOK(q)
      BY <1>1, FileRemoved DEF master, TypeInv
    <3>2. pc[q] = "append_attempt" => attempts'[seen[q].slug] = attempts[seen[q].slug]
      BY <1>2, <2>2, <3>1 DEF HandOK, Placed, Reruns, Writing
    <3> QED BY <2>2, <3>1, <3>2 DEF HandOK
  <2> QED BY <1>1, <2>1, <2>2, FileRemoved
<1> QED BY <1>3, <1>4, <1>5 DEF TypeInv

LEMMA SurroundingsKeepTypes ==
  ASSUME TypeInv,
         \/ \E s \in Slugs : Publish(s) \/ DeleteProject(s)
         \/ Crash
         \/ UNCHANGED vars
  PROVE  TypeInv'
<1>1. TypeOK
  BY DEF TypeInv
<1>2. CASE Crash
  <2>1. TypeOK'
    <3>1. /\ pc' \in [Requests -> PCs]
          /\ call' \in [Requests -> Calls \cup {NoCall}]
          /\ seen' \in [Requests -> Seen]
          /\ doomed' \in [Slugs -> Nat]
      BY <1>2, Bounds DEF Crash, PCs, Nothing, Seen
    <3> QED BY <1>1, <1>2, <3>1 DEF Crash, TypeOK, master, files
  <2>2. AttemptsNumbered'
    BY <1>2 DEF Crash, files, TypeInv, AttemptsNumbered
  <2>3. \A q \in Requests : HandOK(q)'
    BY <1>2 DEF Crash, HandOK, Placed, Homed, Cycled, Reruns, Owned
  <2> QED BY <2>1, <2>2, <2>3 DEF TypeInv
<1>3. ASSUME NEW s \in Slugs, DeleteProject(s) PROVE TypeInv'
  <2>1. UNCHANGED <<request, newest, link, files, lost, threads>>
    BY <1>3 DEF DeleteProject
  <2>2. project' \in [Slugs -> ProjectRow \cup {NoProject}] /\ doomed' \in [Slugs -> Nat]
    BY <1>1, <1>3 DEF DeleteProject, TypeOK
  <2>3. orphaned' \subseteq Keys
    <3>1. \A q \in Requests : pc[q] \in WithProject => call[q].key \in Keys
      BY DEF TypeInv, HandOK, WithProject, Calls
    <3>2. InHand(s) \subseteq Keys
      BY <3>1 DEF InHand
    <3> QED BY <1>1, <1>3, <3>2 DEF DeleteProject, TypeOK
  <2>4. TypeOK'
    BY <1>1, <2>1, <2>2, <2>3 DEF TypeOK, files, threads
  <2>5. AttemptsNumbered' /\ \A q \in Requests : HandOK(q)'
    BY <2>1 DEF TypeInv, AttemptsNumbered, HandOK, files, threads
  <2> QED BY <2>4, <2>5 DEF TypeInv
<1>4. CASE (\E s \in Slugs : Publish(s)) \/ UNCHANGED vars
  <2>1. /\ UNCHANGED <<master, cycles, attempts, deletion, threads>>
        /\ published' \in [Slugs -> BOOLEAN]
    BY <1>1, <1>4 DEF Publish, vars, files, TypeOK
  <2>2. TypeOK'
    BY <1>1, <2>1 DEF TypeOK, master, deletion, threads
  <2>3. AttemptsNumbered' /\ \A q \in Requests : HandOK(q)'
    BY <2>1 DEF TypeInv, AttemptsNumbered, HandOK, master, threads
  <2> QED BY <2>2, <2>3 DEF TypeInv
<1> QED BY <1>2, <1>3, <1>4

LEMMA TypeInvNext == TypeInv /\ [Next]_vars => TypeInv'
BY ReadingKeepsTypes, RegisterKeepsTypes, OtherWriteKeepsTypes, AttemptKeepsTypes,
   MarkMappedKeepsTypes, RemoveFileKeepsTypes, SurroundingsKeepTypes
   DEF Next, ServeRequest

LEMMA TypeInvariant == Spec => []TypeInv
BY InitTypeInv, TypeInvNext, PTL DEF Spec

\* Every row and every thread stays well formed.
THEOREM TypeCorrect == Spec => []TypeOK
<1>1. TypeInv => TypeOK
  BY DEF TypeInv
<1> QED BY <1>1, TypeInvariant, PTL

\* The attempts of a cycle are 1, 2, 3, ... in the order they were made, whatever
\* re-runs overlap: the unique constraint turns the loser of a race into a 500.
THEOREM AttemptsInOrder == Spec => []AttemptsNumbered
<1>1. TypeInv => AttemptsNumbered
  BY DEF TypeInv
<1> QED BY <1>1, TypeInvariant, PTL

-----------------------------------------------------------------------------
(* One campaign per request *)

\* No two threads work on one request.
OneOwner ==
  \A p, q \in Requests :
    pc[p] \in Owned /\ pc[q] \in Owned /\ call[p].key = call[q].key => p = q

\* The request a thread works on is the one it registered; it has no cycle until
\* create_cycle, exactly the one in hand after it, and then attempt 1, until the file
\* with both is removed.
OwnedOK(q) ==
  pc[q] \in Owned =>
    LET k == call[q].key  s == seen[q].slug  c == seen[q].cycle IN
    /\ request[k].status = "RECEIVED"
    /\ request[k].wp = call[q].wp /\ request[k].tenant = call[q].tenant
    /\ pc[q] \notin Cycled => k \notin lost /\ \A t \in Slugs, d \in CycleNos : ~ IsCycleOf(t, d, k)
    /\ pc[q] \in Cycled => k \in lost \/ IsCycleOf(s, c, k)
    /\ pc[q] = "mark_mapped" =>
         k \in lost \/ (Len(attempts[s][c]) > 0 /\ attempts[s][c][1] = [key |-> k, no |-> 1])

\* Neither an unknown request nor one whose cycle was removed has a cycle.
UnknownHasNoCycle ==
  \A k \in Keys :
    /\ request[k] = NoRequest => k \notin lost
    /\ k \in lost \/ request[k] = NoRequest =>
         \A s \in Slugs, c \in CycleNos : ~ IsCycleOf(s, c, k)

CampaignInv ==
  TypeInv /\ OneOwner /\ (\A q \in Requests : OwnedOK(q))
  /\ OneCampaignPerRequest /\ UnknownHasNoCycle

LEMMA InitCampaignInv == Init => CampaignInv
<1> SUFFICES ASSUME Init PROVE CampaignInv
  OBVIOUS
<1>1. \A s \in Slugs, c \in CycleNos, k \in Keys : ~ IsCycleOf(s, c, k)
  <2>1. Len(<<>>) = 0 /\ \A c \in CycleNos : ~ (c <= 0)
    BY Bounds DEF CycleNos
  <2> QED BY <2>1 DEF Init, IsCycleOf
<1>2. \A q \in Requests : pc[q] \notin Owned
  BY DEF Init, Owned
<1>3. lost = {}
  BY DEF Init
<1> QED BY <1>1, <1>2, <1>3, InitTypeInv
    DEF CampaignInv, OneOwner, OwnedOK, OneCampaignPerRequest, UnknownHasNoCycle

LEMMA OthersKeepCampaigns ==
  ASSUME CampaignInv, TypeInv', NEW q \in Requests, Others(q), AttemptsGrow, NEW p \in Requests \ {q},
         lost' = lost,
         pc[p] \in Owned => request'[call[p].key] = request[call[p].key],
         \A s \in Slugs, c \in CycleNos :
           pc[p] \in Owned => (IsThenCycleOf(s, c, call[p].key) <=> IsCycleOf(s, c, call[p].key))
  PROVE  OwnedOK(p)'
<1>1. pc'[p] = pc[p] /\ call'[p] = call[p] /\ seen'[p] = seen[p] /\ OwnedOK(p)
  BY DEF Others, CampaignInv
<1>2. TypeOK /\ HandOK(p)
  BY DEF CampaignInv, TypeInv
<1>3. ASSUME pc[p] \in Owned, pc[p] \in Cycled, call[p].key \notin lost
      PROVE  IsThenCycleOf(seen[p].slug, seen[p].cycle, call[p].key)
  <2>1. seen[p].slug \in Slugs /\ seen[p].cycle \in CycleNos
    BY <1>2, <1>3 DEF HandOK, Placed, Homed, Cycled, Reruns
  <2> QED BY <1>1, <1>3, <2>1 DEF OwnedOK
<1>4. ASSUME pc[p] = "mark_mapped", call[p].key \notin lost
      PROVE  LET row == attempts'[seen[p].slug][seen[p].cycle] IN
             Len(row) > 0 /\ row[1] = [key |-> call[p].key, no |-> 1]
  <2>1. seen[p].slug \in Slugs /\ seen[p].cycle \in CycleNos
    BY <1>2, <1>4 DEF HandOK, Placed, Homed, Cycled, Reruns
  <2> DEFINE old == attempts[seen[p].slug][seen[p].cycle]
             row == attempts'[seen[p].slug][seen[p].cycle]
  <2>2. old \in Seq(Attempt) /\ Len(old) > 0 /\ old[1] = [key |-> call[p].key, no |-> 1]
    BY <1>1, <1>2, <1>4, <2>1 DEF OwnedOK, Owned, TypeOK
  <2>3. row \in Seq(Attempt)
    BY <2>1 DEF TypeInv, TypeOK
  <2>4. Len(old) <= Len(row) /\ \A i \in DOMAIN old : row[i] = old[i]
    BY <2>1 DEF AttemptsGrow
  <2> HIDE DEF old, row
  <2>5. Len(row) > 0 /\ row[1] = [key |-> call[p].key, no |-> 1]
    <3>1. Len(old) \in Nat /\ Len(row) \in Nat /\ 1 \in DOMAIN old
      BY <2>2, <2>3
    <3> QED BY <2>2, <2>4, <3>1
  <2> QED BY <2>5 DEF row
<1>5. "mark_mapped" \in Owned
  BY DEF Owned
<1>6. ASSUME pc[p] \in Owned, pc[p] \notin Cycled
      PROVE  \A t \in Slugs, d \in CycleNos : ~ IsThenCycleOf(t, d, call[p].key)
  BY <1>1, <1>6 DEF OwnedOK
<1>7. \A s, c, k : IsCycleOf(s, c, k)' <=> IsThenCycleOf(s, c, k)
  BY DEF IsCycleOf, IsThenCycleOf
<1> QED BY <1>1, <1>3, <1>4, <1>5, <1>6, <1>7 DEF OwnedOK, IsCycleOf, IsThenCycleOf

LEMMA OneThreadMoves ==
  ASSUME TypeInv, NEW q \in Requests,
         BeginIntake(q) \/ BeginRerun(q) \/ ServeRequest(q) \/ Fail(q)
  PROVE  Others(q)
<1>0. TypeOK
  BY DEF TypeInv
<1>1. CASE Finish(q)
  BY <1>0, <1>1, Finished
<1>2. CASE Refuse(q)
  BY <1>0, <1>2, Refused
<1>3. CASE (\E label \in PCs : Goto(q, label)) /\ UNCHANGED seen
  BY <1>0, <1>3, Went DEF Others
<1>4. ASSUME NEW label \in PCs, Goto(q, label), NEW field, NEW value, See(q, field, value)
      PROVE  Others(q)
  <2>1. seen' = [seen EXCEPT ![q][field] = value]
    BY <1>4 DEF See
  <2>2. \A p \in Requests \ {q} : seen'[p] = seen[p]
    BY <1>0, <2>1 DEF TypeOK
  <2> QED BY <1>0, <1>4, <2>2, Went DEF Others
<1>5. CASE BeginIntake(q) \/ BeginRerun(q)
  BY <1>0, <1>5 DEF BeginIntake, BeginRerun, Others, TypeOK, vars, threads
<1>6. {"register", "find_link", "choose_slug", "create_project", "link_project",
       "find_revision", "create_cycle", "find_attempt", "record_attempt", "mark_mapped",
       "append_attempt"} \subseteq PCs
  BY DEF PCs
<1>7. CASE Register(q) \/ Fail(q)
  BY <1>1, <1>2, <1>3, <1>6, <1>7 DEF Register, Fail
<1>8. CASE FindLink(q)
  <2>1. ASSUME NEW s \in Slugs, Hold(q, s) \/ HoldExpired(q, s, project[s].id) PROVE Others(q)
    <3>1. project[s].id \in 0..MaxId
      BY <1>0, Bounds DEF TypeOK, ProjectRow, NoProject
    <3> QED BY <1>0, <2>1, <3>1, Held
  <2> QED BY <1>1, <1>3, <1>6, <1>8, <2>1 DEF FindLink, Linked
<1>9. CASE ChooseSlug(q)
  BY <1>4, <1>6, <1>9 DEF ChooseSlug
<1>10. CASE CreateProject(q) \/ FindRevision(q)
  BY <1>1, <1>2, <1>3, <1>4, <1>6, <1>10 DEF CreateProject, FindRevision
<1>11. CASE LinkProject(q)
  <2>1. CASE HoldExpired(q, seen[q].slug, seen[q].id)
    <3>1. seen[q].slug \in Slugs /\ seen[q].id \in 0..MaxId
      BY <1>0, <1>11 DEF TypeInv, LinkProject, HandOK, Placed, TypeOK, Seen
    <3> QED BY <1>0, <2>1, <3>1, Held
  <2> QED BY <1>2, <1>11, <2>1 DEF LinkProject
<1>12. CASE ReloadProject(q)
  <2>1. ASSUME NEW s \in Slugs, Hold(q, s) PROVE Others(q)
    <3>1. 0 \in 0..MaxId
      BY Bounds
    <3> QED BY <1>0, <2>1, <3>1, Held
  <2> QED BY <1>2, <1>12, <2>1 DEF ReloadProject
<1>13. CASE CreateCycle(q) \/ ReadLast(q)
  BY <1>4, <1>6, <1>13 DEF CreateCycle, ReadLast
<1>14. CASE FindAttempt(q) \/ RecordAttempt(q) \/ MarkMapped(q) \/ AppendAttempt(q)
  BY <1>1, <1>2, <1>3, <1>6, <1>14
  DEF FindAttempt, RecordAttempt, MarkMapped, AppendAttempt, RefuseAttempt
<1> QED BY <1>5, <1>7, <1>8, <1>9, <1>10, <1>11, <1>12, <1>13, <1>14 DEF ServeRequest

\* A step of q that writes neither requests nor cycles, and after which q, if on
\* any request, is on the one it was on and has the cycle it had.
Quiet(q) ==
  /\ UNCHANGED <<request, cycles, lost>>
  /\ pc'[q] \in Owned =>
       /\ pc[q] \in Owned /\ call'[q] = call[q]
       /\ pc'[q] \in Cycled <=> pc[q] \in Cycled
       /\ pc[q] \in Cycled => seen'[q] = seen[q]
       /\ pc'[q] = "mark_mapped" =>
            /\ Len(attempts'[seen[q].slug][seen[q].cycle]) > 0
            /\ attempts'[seen[q].slug][seen[q].cycle][1] = [key |-> call[q].key, no |-> 1]

LEMMA QuietKeepsCampaigns ==
  ASSUME CampaignInv, TypeInv', NEW q \in Requests, Others(q), AttemptsGrow, Quiet(q)
  PROVE  CampaignInv'
<1>1. \A s, c, k : IsCycleOf(s, c, k)' <=> IsCycleOf(s, c, k)
  BY DEF Quiet, IsCycleOf
<1>2. OneCampaignPerRequest' /\ UnknownHasNoCycle'
  BY <1>1 DEF Quiet, CampaignInv, OneCampaignPerRequest, UnknownHasNoCycle
<1>3. OneOwner'
  BY DEF Quiet, Others, CampaignInv, OneOwner
<1>4. ASSUME NEW p \in Requests \ {q} PROVE OwnedOK(p)'
  <2>1. request' = request
    BY DEF Quiet
  <2>2. \A s \in Slugs, c \in CycleNos :
          pc[p] \in Owned => (IsThenCycleOf(s, c, call[p].key) <=> IsCycleOf(s, c, call[p].key))
    BY DEF Quiet, IsCycleOf, IsThenCycleOf
  <2>3. lost' = lost
    BY DEF Quiet
  <2> QED BY <2>1, <2>2, <2>3, OthersKeepCampaigns
<1>5. OwnedOK(q)'
  <2>1. OwnedOK(q)
    BY DEF CampaignInv
  <2>2. pc'[q] = "mark_mapped" => pc'[q] \in Owned /\ pc'[q] \in Cycled
    BY DEF Owned, Cycled
  <2> QED BY <1>1, <2>1, <2>2 DEF Quiet, OwnedOK
<1> QED BY <1>2, <1>3, <1>4, <1>5 DEF CampaignInv

LEMMA MostAreQuiet ==
  ASSUME TypeInv, NEW q \in Requests,
         \/ BeginIntake(q) \/ BeginRerun(q) \/ FindLink(q) \/ ChooseSlug(q) \/ CreateProject(q)
         \/ LinkProject(q) \/ ReloadProject(q) \/ FindRevision(q) \/ FindAttempt(q)
         \/ RecordAttempt(q) \/ ReadLast(q) \/ AppendAttempt(q) \/ Fail(q)
         \/ Register(q) /\ ~ KeyFree(call[q].key)
  PROVE  Quiet(q) /\ AttemptsGrow
<1>1. TypeOK
  BY DEF TypeInv
<1>2. UNCHANGED <<request, cycles, lost>>
  BY DEF BeginIntake, BeginRerun, FindLink, ChooseSlug, CreateProject, LinkProject,
     ReloadProject, FindRevision, FindAttempt, RecordAttempt, ReadLast, AppendAttempt, Fail,
     Register, vars, master, files, deletion
<1>3. AttemptsGrow
  <2>1. CASE RecordAttempt(q) \/ AppendAttempt(q)
    BY <2>1, Followed
  <2>2. CASE UNCHANGED attempts
    BY <1>2, <2>2, Untouched
  <2> QED BY <2>1, <2>2
      DEF BeginIntake, BeginRerun, FindLink, ChooseSlug, CreateProject, LinkProject,
      ReloadProject, FindRevision, FindAttempt, ReadLast, Fail, Register, vars, files
<1>4. SUFFICES Quiet(q)
  BY <1>3
<1>5. CASE Finish(q)
  BY <1>1, <1>2, <1>5, Finished DEF Quiet, Owned
<1>6. CASE Refuse(q)
  BY <1>1, <1>2, <1>6, Refused DEF Quiet, Owned
<1>7. CASE BeginIntake(q) \/ BeginRerun(q)
  BY <1>1, <1>2, <1>7
  DEF BeginIntake, BeginRerun, TypeOK, Quiet, Owned, Cycled, Reruns, vars, threads
<1>8. CASE /\ ~ Finish(q) /\ ~ Refuse(q)
           /\ \/ LinkProject(q) \/ ReloadProject(q)
              \/ FindLink(q) /\ ~ Goto(q, "choose_slug")
  <2>1. pc[q] \in Owned \ Cycled
    BY <1>8 DEF FindLink, LinkProject, ReloadProject, Owned, Cycled, Reruns
  <2>2. \E label \in {"find_revision", "reload_project"} : Goto(q, label)
    BY <1>8 DEF FindLink, LinkProject, ReloadProject, Hold, HoldExpired
  <2>3. call'[q] = call[q] /\ pc'[q] \in {"find_revision", "reload_project"}
    BY <1>1, <2>2, Went
  <2> QED BY <1>2, <2>1, <2>3 DEF Quiet, Cycled, Reruns
<1>9. CASE \/ (ChooseSlug(q) \/ CreateProject(q) \/ FindRevision(q)) /\ ~ Finish(q) /\ ~ Refuse(q)
           \/ FindLink(q) /\ Goto(q, "choose_slug")
  <2>1. pc[q] \in Owned \ Cycled
    BY <1>9 DEF FindLink, ChooseSlug, CreateProject, FindRevision, Owned, Cycled, Reruns
  <2>2. \E label \in {"choose_slug", "create_project", "link_project", "create_cycle"} :
          Goto(q, label)
    BY <1>9 DEF ChooseSlug, CreateProject, FindRevision
  <2>3. call'[q] = call[q] /\ pc'[q] \notin Cycled
    BY <1>1, <2>2, Went DEF Cycled, Reruns
  <2> QED BY <1>2, <2>1, <2>3 DEF Quiet, Cycled
<1>10. CASE FindAttempt(q) /\ ~ Finish(q)
  BY <1>1, <1>2, <1>10, Went DEF FindAttempt, Quiet, Owned, Cycled
<1>11. CASE RecordAttempt(q) /\ ~ Refuse(q)
  <2>1. Goto(q, "mark_mapped") /\ UNCHANGED seen /\ pc[q] = "record_attempt"
    BY <1>11 DEF RecordAttempt, RefuseAttempt
  <2>2. pc'[q] = "mark_mapped" /\ call'[q] = call[q]
    BY <1>1, <2>1, Went
  <2>3. /\ Len(attempts'[seen[q].slug][seen[q].cycle]) = 1
        /\ attempts'[seen[q].slug][seen[q].cycle][1] = [key |-> call[q].key, no |-> 1]
    BY <1>11, <2>2, Followed
  <2>4. Len(attempts'[seen[q].slug][seen[q].cycle]) > 0
    BY <2>3
  <2>5. pc[q] \in Owned /\ pc[q] \in Cycled /\ pc'[q] \in Cycled
    BY <2>1, <2>2 DEF Owned, Cycled
  <2>6. seen'[q] = seen[q]
    BY <2>1
  <2> QED BY <1>2, <2>2, <2>3, <2>4, <2>5, <2>6, Zenon DEF Quiet
<1>12. CASE ReadLast(q)
  BY <1>1, <1>2, <1>12, Went DEF ReadLast, Quiet, Owned
<1> QED BY <1>5, <1>6, <1>7, <1>8, <1>9, <1>10, <1>11, <1>12
    DEF Fail, AppendAttempt, RefuseAttempt, Register

LEMMA RegisterKeepsCampaigns ==
  ASSUME CampaignInv, TypeInv', NEW q \in Requests, Register(q), KeyFree(call[q].key)
  PROVE  CampaignInv'
<1> DEFINE k == call[q].key
           row == [id |-> call[q].id, wp |-> call[q].wp, tenant |-> call[q].tenant,
                   status |-> "RECEIVED", at |-> Unmapped]
<1>1. /\ TypeInv /\ TypeOK /\ call[q] \in Calls /\ k \in Keys /\ request[k] = NoRequest
      /\ pc[q] = "register"
  BY DEF CampaignInv, TypeInv, HandOK, Register, KeyFree, Calls
<1>2. /\ request' = [request EXCEPT ![k] = row]
      /\ Goto(q, "find_link") /\ UNCHANGED <<seen, files, lost>>
  BY DEF Register, deletion
<1>3. /\ request'[k] = row
      /\ \A j \in Keys : j # k => request'[j] = request[j]
  <2> HIDE DEF row, k
  <2> QED BY <1>1, <1>2 DEF TypeOK
<1>4. /\ pc'[q] = "find_link" /\ call'[q] = call[q] /\ Others(q)
  BY <1>1, <1>2, Went DEF Others
<1>5. \A s, c, j : IsCycleOf(s, c, j)' <=> IsCycleOf(s, c, j)
  BY <1>2 DEF files, IsCycleOf
<1>6. \A p \in Requests \ {q} : pc[p] \in Owned => call[p].key \in Keys /\ call[p].key # k
  <2> SUFFICES ASSUME NEW p \in Requests \ {q}, pc[p] \in Owned
               PROVE  call[p].key \in Keys /\ request[call[p].key] # NoRequest
    BY <1>1
  <2> QED BY <1>1 DEF TypeInv, HandOK, Owned, Calls
<1>7. OneOwner'
  BY <1>4, <1>6 DEF Others, CampaignInv, OneOwner
<1>8. ASSUME NEW p \in Requests \ {q} PROVE OwnedOK(p)'
  <2>1. AttemptsGrow
    <3>1. \A s \in Slugs, c \in CycleNos : Len(attempts[s][c]) \in Nat
      BY <1>1 DEF TypeOK
    <3> QED BY <1>2, <3>1 DEF files, AttemptsGrow
  <2>2. pc[p] \in Owned => request'[call[p].key] = request[call[p].key]
    BY <1>3, <1>6
  <2>3. \A s \in Slugs, c \in CycleNos :
          pc[p] \in Owned => (IsThenCycleOf(s, c, call[p].key) <=> IsCycleOf(s, c, call[p].key))
    BY <1>2 DEF files, IsCycleOf, IsThenCycleOf
  <2> QED BY <1>2, <1>4, <2>1, <2>2, <2>3, OthersKeepCampaigns
<1>9. OwnedOK(q)'
  <2>1. k \notin lost' /\ \A s \in Slugs, c \in CycleNos : ~ IsCycleOf(s, c, k)
    BY <1>1, <1>2 DEF CampaignInv, UnknownHasNoCycle
  <2>2. "find_link" \notin Cycled
    BY DEF Cycled, Reruns
  <2>3. \A s \in Slugs, c \in CycleNos : ~ IsCycleOf(s, c, call[q].key)'
    BY <1>2, <1>4, <2>1 DEF files, IsCycleOf
  <2>4. pc'[q] # "mark_mapped"
    BY <1>4
  <2> QED BY <1>3, <1>4, <2>1, <2>2, <2>3, <2>4 DEF OwnedOK
<1>10. OneCampaignPerRequest' /\ UnknownHasNoCycle'
  <2>1. row # NoRequest
    BY DEF NoRequest, None
  <2> HIDE DEF row
  <2> QED BY <1>2, <1>3, <1>5, <2>1 DEF CampaignInv, OneCampaignPerRequest, UnknownHasNoCycle
<1> QED BY <1>7, <1>8, <1>9, <1>10 DEF CampaignInv

LEMMA CreateCycleKeepsCampaigns ==
  ASSUME CampaignInv, TypeInv', NEW q \in Requests, CreateCycle(q)
  PROVE  CampaignInv'
<1> DEFINE k == call[q].key
           s == seen[q].slug
           n == Len(cycles[s]) + 1
<1>1. /\ TypeInv /\ TypeOK /\ call[q] \in Calls /\ k \in Keys /\ s \in Slugs
      /\ pc[q] = "create_cycle"
  BY DEF CampaignInv, TypeInv, HandOK, CreateCycle, Calls, Placed, Homed
<1>2. /\ cycles' = [cycles EXCEPT ![s] = Append(@, k)]
      /\ seen' = [seen EXCEPT ![q].cycle = n]
      /\ Goto(q, "find_attempt") /\ UNCHANGED <<request, attempts, lost>>
  BY DEF CreateCycle, See, master, deletion
<1>3. /\ cycles'[s] = Append(cycles[s], k) /\ cycles[s] \in Seq(Keys)
      /\ \A t \in Slugs : t # s => cycles'[t] = cycles[t]
  <2> HIDE DEF k, s
  <2> QED BY <1>1, <1>2 DEF TypeOK
<1>4. n \in CycleNos
  BY <1>1, Bounds DEF CreateCycle, CycleNos, TypeOK
<1>5. \A c \in CycleNos, j \in Keys :
        IsThenCycleOf(s, c, j) <=> IsCycleOf(s, c, j) \/ (c = n /\ j = k)
  <2> DEFINE old == cycles[s]
             new == cycles'[s]
  <2>1. old \in Seq(Keys) /\ new = Append(old, k) /\ n = Len(old) + 1
    BY <1>3
  <2>2. \A c \in CycleNos : c \in Nat /\ c >= 1
    BY Bounds DEF CycleNos
  <2> HIDE DEF old, new, k, n
  <2>3. /\ Len(old) \in Nat /\ Len(new) = Len(old) + 1 /\ new[Len(old) + 1] = k
        /\ \A i \in 1..Len(old) : new[i] = old[i]
    BY <1>1, <2>1, Appended
  <2>4. \A c \in CycleNos, j \in Keys :
          c <= Len(new) /\ new[c] = j <=> (c <= Len(old) /\ old[c] = j) \/ (c = n /\ j = k)
    <3> SUFFICES ASSUME NEW c \in CycleNos, NEW j \in Keys
                 PROVE  c <= Len(new) /\ new[c] = j
                          <=> (c <= Len(old) /\ old[c] = j) \/ (c = n /\ j = k)
      OBVIOUS
    <3>1. CASE c <= Len(old)
      <4>1. c \in 1..Len(old) /\ c <= Len(new) /\ c # n
        BY <2>1, <2>2, <2>3, <3>1
      <4> QED BY <2>3, <3>1, <4>1
    <3>2. CASE c = n
      BY <2>1, <2>3, <3>2
    <3>3. CASE ~ (c <= Len(old)) /\ c # n
      BY <2>1, <2>2, <2>3, <3>3
    <3> QED BY <3>1, <3>2, <3>3
  <2> QED BY <2>4 DEF IsCycleOf, IsThenCycleOf, old, new
<1>6. \A t \in Slugs, c \in CycleNos, j \in Keys :
        IsThenCycleOf(t, c, j) <=> IsCycleOf(t, c, j) \/ (t = s /\ c = n /\ j = k)
  <2> HIDE DEF k, s, n
  <2>1. ASSUME NEW t \in Slugs, t # s, NEW c \in CycleNos, NEW j \in Keys
        PROVE  IsThenCycleOf(t, c, j) <=> IsCycleOf(t, c, j)
    BY <1>3, <2>1 DEF IsCycleOf, IsThenCycleOf
  <2> QED BY <1>5, <2>1
<1>7. k \notin lost /\ \A t \in Slugs, c \in CycleNos : ~ IsCycleOf(t, c, k)
  <2>1. pc[q] \in Owned \ Cycled
    BY <1>1 DEF Owned, Cycled, Reruns
  <2> QED BY <2>1 DEF CampaignInv, OwnedOK
<1> HIDE DEF n
<1>8. /\ pc'[q] = "find_attempt" /\ call'[q] = call[q] /\ Others(q)
      /\ seen'[q].slug = s /\ seen'[q].cycle = n
  <2>1. /\ \A p \in Requests \ {q} : seen'[p] = seen[p]
        /\ seen'[q].slug = s /\ seen'[q].cycle = n
    BY <1>1, <1>2 DEF TypeOK, Seen
  <2> QED BY <1>1, <1>2, <2>1, Went DEF Others
<1>9. "create_cycle" \in Owned /\ "find_attempt" \in Owned \cap Cycled
  BY DEF Owned, Cycled
<1>10. OneOwner'
  BY <1>1, <1>8, <1>9 DEF Others, CampaignInv, OneOwner
<1>11. ASSUME NEW p \in Requests \ {q} PROVE OwnedOK(p)'
  <2>1. AttemptsGrow
    BY <1>1, <1>2, Untouched
  <2>2. pc[p] \in Owned => call[p].key # k /\ call[p].key \in Keys
    <3>1. pc[p] \in Owned => call[p].key # k
      BY <1>1, <1>9 DEF CampaignInv, OneOwner
    <3>2. pc[p] \in Owned => call[p].key \in Keys
      BY <1>1 DEF TypeInv, HandOK, Owned, Calls
    <3> QED BY <3>1, <3>2
  <2>3. \A t \in Slugs, c \in CycleNos :
          pc[p] \in Owned => (IsThenCycleOf(t, c, call[p].key) <=> IsCycleOf(t, c, call[p].key))
    BY <1>6, <2>2
  <2>4. request' = request
    BY <1>2
  <2>5. lost' = lost
    BY <1>2
  <2> QED BY <1>8, <2>1, <2>3, <2>4, <2>5, OthersKeepCampaigns
<1>12. OwnedOK(q)'
  <2>1. OwnedOK(q)
    BY DEF CampaignInv
  <2>2. IsThenCycleOf(s, n, k)
    BY <1>1, <1>4, <1>6
  <2>3. IsCycleOf(seen[q].slug, seen[q].cycle, call[q].key)'
    BY <1>8, <2>2 DEF IsCycleOf, IsThenCycleOf
  <2>4. pc'[q] # "mark_mapped"
    BY <1>8
  <2> QED BY <1>1, <1>2, <1>8, <1>9, <2>1, <2>3, <2>4 DEF OwnedOK
<1>13. OneCampaignPerRequest'
  <2>1. \A t \in Slugs, c \in CycleNos, j \in Keys :
          IsCycleOf(t, c, j)' <=> IsThenCycleOf(t, c, j)
    BY DEF IsCycleOf, IsThenCycleOf
  <2> HIDE DEF k, s
  <2> QED BY <1>6, <1>7, <2>1 DEF CampaignInv, OneCampaignPerRequest
<1>14. UnknownHasNoCycle'
  <2>1. request[k] # NoRequest
    BY <1>1, <1>9 DEF TypeInv, HandOK
  <2>2. \A t \in Slugs, c \in CycleNos, j \in Keys :
          IsCycleOf(t, c, j)' <=> IsThenCycleOf(t, c, j)
    BY DEF IsCycleOf, IsThenCycleOf
  <2> HIDE DEF k, s
  <2>3. request' = request /\ lost' = lost
    BY <1>2
  <2> QED BY <1>6, <1>7, <2>1, <2>2, <2>3 DEF CampaignInv, UnknownHasNoCycle
<1> QED BY <1>10, <1>11, <1>12, <1>13, <1>14 DEF CampaignInv

LEMMA MarkMappedKeepsCampaigns ==
  ASSUME CampaignInv, TypeInv', NEW q \in Requests, MarkMapped(q)
  PROVE  CampaignInv'
<1>1. TypeInv /\ TypeOK /\ Finish(q) /\ UNCHANGED <<cycles, attempts, lost>> /\ pc[q] = "mark_mapped"
  BY DEF CampaignInv, TypeInv, MarkMapped, files, deletion
<1>2. pc'[q] = "idle" /\ Others(q)
  BY <1>1, Finished
<1>3. "idle" \notin Owned /\ "mark_mapped" \in Owned
  BY DEF Owned
<1>4. OneOwner'
  BY <1>2, <1>3 DEF Others, CampaignInv, OneOwner
<1>5. ASSUME NEW p \in Requests \ {q} PROVE OwnedOK(p)'
  <2>1. AttemptsGrow
    <3>1. \A s \in Slugs, c \in CycleNos : Len(attempts[s][c]) \in Nat
      BY <1>1 DEF TypeOK
    <3> QED BY <1>1, <3>1 DEF AttemptsGrow
  <2>2. pc[p] \in Owned => call[p].key \in Keys /\ call[p].key # call[q].key
    <3>1. pc[p] \in Owned => call[p].key \in Keys
      BY <1>1 DEF TypeInv, HandOK, Owned, Calls
    <3>2. pc[p] \in Owned => call[p].key # call[q].key
      BY <1>1, <1>3 DEF CampaignInv, OneOwner
    <3> QED BY <3>1, <3>2
  <2>3. pc[p] \in Owned => request'[call[p].key] = request[call[p].key]
    BY <1>1, <2>2, Marked
  <2>4. \A s \in Slugs, c \in CycleNos :
          pc[p] \in Owned => (IsThenCycleOf(s, c, call[p].key) <=> IsCycleOf(s, c, call[p].key))
    BY <1>1 DEF IsCycleOf, IsThenCycleOf
  <2> QED BY <1>1, <1>2, <2>1, <2>3, <2>4, OthersKeepCampaigns
<1>6. OwnedOK(q)'
  BY <1>2, <1>3 DEF OwnedOK
<1>7. \A s, c, k : IsCycleOf(s, c, k)' <=> IsCycleOf(s, c, k)
  BY <1>1 DEF IsCycleOf
<1>8. \A k \in Keys : request'[k] = NoRequest => request[k] = NoRequest
  <2>1. request'[call[q].key] # NoRequest
    <3>1. \A row \in RequestRow : row # NoRequest
      BY DEF RequestRow, NoRequest, None
    <3> QED BY <1>1, <3>1, Marked
  <2> QED BY <1>1, <2>1, Marked
<1>9. OneCampaignPerRequest' /\ UnknownHasNoCycle'
  BY <1>1, <1>7, <1>8 DEF CampaignInv, OneCampaignPerRequest, UnknownHasNoCycle
<1> QED BY <1>4, <1>5, <1>6, <1>9 DEF CampaignInv

\* What the removal of a file takes away: the cycles and attempts of that project.
LEMMA RowsRemoved ==
  ASSUME TypeOK, NEW s \in Slugs, RemoveFile(s)
  PROVE  /\ \A t \in Slugs, c \in CycleNos, k \in Keys :
              IsThenCycleOf(t, c, k) <=> t # s /\ IsCycleOf(t, c, k)
         /\ \A t \in Slugs, c \in CycleNos, k \in Keys : \A n \in Nat :
              ThenAttempted(k, t, c, n) <=> t # s /\ Attempted(k, t, c, n)
         /\ \A k \in Keys : k \in lost' <=> k \in lost \/ \E c \in CycleNos : IsCycleOf(s, c, k)
<1>1. /\ \A t \in Slugs : t # s => cycles'[t] = cycles[t] /\ attempts'[t] = attempts[t]
      /\ cycles'[s] = <<>> /\ \A c \in CycleNos : attempts'[s][c] = <<>>
      /\ \A k \in Keys : k \in lost' <=> k \in lost \/ \E c \in CycleNos : IsCycleOf(s, c, k)
  BY FileRemoved
<1>2. \A c \in CycleNos : ~ (c <= Len(<<>>))
  <2>1. Len(<<>>) = 0 /\ \A c \in CycleNos : ~ (c <= 0)
    BY Bounds DEF CycleNos
  <2> QED BY <2>1
<1>3. \A t \in Slugs, c \in CycleNos, k \in Keys :
        IsThenCycleOf(t, c, k) <=> t # s /\ IsCycleOf(t, c, k)
  BY <1>1, <1>2 DEF IsCycleOf, IsThenCycleOf
<1>4. \A t \in Slugs, c \in CycleNos, k \in Keys : \A n \in Nat :
        ThenAttempted(k, t, c, n) <=> t # s /\ Attempted(k, t, c, n)
  <2>1. \A n : n \notin DOMAIN <<>>
    OBVIOUS
  <2> QED BY <1>1, <2>1 DEF Attempted, ThenAttempted
<1> QED BY <1>1, <1>3, <1>4

LEMMA RemoveFileKeepsCampaigns ==
  ASSUME CampaignInv, TypeInv', NEW s \in Slugs, RemoveFile(s)
  PROVE  CampaignInv'
<1>1. TypeOK /\ TypeInv
  BY DEF CampaignInv, TypeInv
<1>2. /\ request' = request
      /\ \A t \in Slugs, c \in CycleNos, k \in Keys :
           IsCycleOf(t, c, k)' <=> t # s /\ IsCycleOf(t, c, k)
      /\ \A k \in Keys : k \in lost' <=> k \in lost \/ \E c \in CycleNos : IsCycleOf(s, c, k)
  <2>1. \A t, c, k : IsCycleOf(t, c, k)' <=> IsThenCycleOf(t, c, k)
    BY DEF IsCycleOf, IsThenCycleOf
  <2> QED BY <1>1, <2>1, FileRemoved, RowsRemoved DEF master
<1>3. OneCampaignPerRequest' /\ UnknownHasNoCycle'
  BY <1>2 DEF CampaignInv, OneCampaignPerRequest, UnknownHasNoCycle
<1>4. \A q \in Requests :
        pc'[q] = "idle" \/ (pc'[q] = pc[q] /\ call'[q] = call[q] /\ seen'[q] = seen[q])
  BY <1>1, FileRemoved
<1>5. OneOwner'
  <2>1. \A q \in Requests : pc'[q] \in Owned => pc[q] \in Owned /\ call'[q] = call[q]
    BY <1>4 DEF Owned
  <2> QED BY <2>1 DEF CampaignInv, OneOwner
<1>6. ASSUME NEW q \in Requests, pc'[q] \in Owned PROVE OwnedOK(q)'
  <2>1. /\ pc'[q] = pc[q] /\ call'[q] = call[q] /\ seen'[q] = seen[q]
        /\ OwnedOK(q) /\ HandOK(q)
    BY <1>1, <1>4, <1>6 DEF Owned, CampaignInv, TypeInv
  <2>2. call[q].key \in Keys
    BY <1>6, <2>1 DEF HandOK, Owned, Calls
  <2>3. ASSUME pc[q] \notin Cycled
        PROVE  call[q].key \notin lost'
               /\ \A t \in Slugs, d \in CycleNos : ~ IsThenCycleOf(t, d, call[q].key)
    BY <1>1, <1>6, <2>1, <2>2, <2>3, RowsRemoved DEF OwnedOK
  <2>4. ASSUME pc[q] \in Cycled
        PROVE  /\ seen[q].slug \in Slugs /\ seen[q].cycle \in CycleNos
               /\ call[q].key \in lost' \/ IsThenCycleOf(seen[q].slug, seen[q].cycle, call[q].key)
    <3>1. seen[q].slug \in Slugs /\ seen[q].cycle \in CycleNos
      BY <1>6, <2>1, <2>4 DEF HandOK, Owned, Cycled, Reruns, Placed, Homed
    <3>2. call[q].key \in lost \/ IsCycleOf(seen[q].slug, seen[q].cycle, call[q].key)
      BY <1>6, <2>1, <2>4 DEF OwnedOK
    <3> QED BY <1>1, <2>2, <3>1, <3>2, RowsRemoved
  <2>5. ASSUME pc[q] = "mark_mapped", call[q].key \notin lost'
        PROVE  attempts'[seen[q].slug] = attempts[seen[q].slug] /\ call[q].key \notin lost
    <3>1. pc[q] \in Cycled
      BY <2>5 DEF Cycled
    <3>2. call[q].key \notin lost /\ IsThenCycleOf(seen[q].slug, seen[q].cycle, call[q].key)
      BY <1>1, <2>2, <2>4, <2>5, <3>1, RowsRemoved
    <3>3. seen[q].slug # s
      BY <1>1, <2>2, <2>4, <3>1, <3>2, RowsRemoved
    <3> QED BY <1>1, <2>4, <3>1, <3>2, <3>3, FileRemoved
  <2>6. \A t, d : IsCycleOf(t, d, call[q].key)' <=> IsThenCycleOf(t, d, call'[q].key)
    BY DEF IsCycleOf, IsThenCycleOf
  <2>7. IsCycleOf(seen[q].slug, seen[q].cycle, call[q].key)'
          <=> IsThenCycleOf(seen'[q].slug, seen'[q].cycle, call'[q].key)
    BY DEF IsCycleOf, IsThenCycleOf
  <2> QED BY <1>2, <1>6, <2>1, <2>3, <2>4, <2>5, <2>6, <2>7 DEF OwnedOK
<1>7. \A q \in Requests : OwnedOK(q)'
  BY <1>6 DEF OwnedOK
<1> QED BY <1>3, <1>5, <1>7 DEF CampaignInv

LEMMA SurroundingsKeepCampaigns ==
  ASSUME CampaignInv, TypeInv',
         \/ \E s \in Slugs : Publish(s) \/ DeleteProject(s)
         \/ Crash
         \/ UNCHANGED vars
  PROVE  CampaignInv'
<1>1. UNCHANGED <<request, cycles, attempts, lost>>
  BY DEF Publish, DeleteProject, Crash, vars, master, files, deletion
<1>2. OneCampaignPerRequest' /\ UnknownHasNoCycle'
  BY <1>1 DEF CampaignInv, OneCampaignPerRequest, UnknownHasNoCycle, IsCycleOf
<1>3. CASE Crash
  <2>1. \A q \in Requests : pc'[q] \notin Owned
    BY <1>3 DEF Crash, Owned
  <2> QED BY <1>2, <2>1 DEF CampaignInv, OneOwner, OwnedOK
<1>4. CASE UNCHANGED threads
  <2>1. OneOwner'
    BY <1>4 DEF CampaignInv, OneOwner, threads
  <2>2. \A q \in Requests : OwnedOK(q)'
    BY <1>1, <1>4 DEF CampaignInv, OwnedOK, IsCycleOf, threads
  <2> QED BY <1>2, <2>1, <2>2 DEF CampaignInv
<1> QED BY <1>3, <1>4 DEF Publish, DeleteProject, vars

LEMMA CampaignInvNext == CampaignInv /\ [Next]_vars => CampaignInv'
<1> SUFFICES ASSUME CampaignInv, [Next]_vars PROVE CampaignInv'
  OBVIOUS
<1>1. TypeInv' /\ TypeInv /\ TypeOK
  BY TypeInvNext DEF CampaignInv, TypeInv
<1>2. ASSUME NEW q \in Requests,
             BeginIntake(q) \/ BeginRerun(q) \/ ServeRequest(q) \/ Fail(q)
      PROVE  CampaignInv'
  <2>1. CASE Register(q) /\ KeyFree(call[q].key)
    BY <1>1, <2>1, RegisterKeepsCampaigns
  <2>2. CASE CreateCycle(q)
    BY <1>1, <2>2, CreateCycleKeepsCampaigns
  <2>3. CASE MarkMapped(q)
    BY <1>1, <2>3, MarkMappedKeepsCampaigns
  <2>4. CASE ~ (Register(q) /\ KeyFree(call[q].key)) /\ ~ CreateCycle(q) /\ ~ MarkMapped(q)
    <3>1. Quiet(q) /\ AttemptsGrow
      BY <1>1, <1>2, <2>4, MostAreQuiet DEF ServeRequest
    <3>2. Others(q)
      BY <1>1, <1>2, OneThreadMoves
    <3> QED BY <1>1, <3>1, <3>2, QuietKeepsCampaigns
  <2> QED BY <2>1, <2>2, <2>3, <2>4
<1> QED BY <1>1, <1>2, RemoveFileKeepsCampaigns, SurroundingsKeepCampaigns DEF Next

LEMMA CampaignInvariant == Spec => []CampaignInv
BY InitCampaignInv, CampaignInvNext, PTL DEF Spec

\* A request starts at most one test campaign, however its deliveries overlap,
\* wherever the machine stops and whichever projects are deleted under it.
THEOREM OneCampaign == Spec => []OneCampaignPerRequest
<1>1. CampaignInv => OneCampaignPerRequest
  BY DEF CampaignInv
<1> QED BY <1>1, CampaignInvariant, PTL

\* Only mark_mapped maps a request, and it maps the one in hand.
LEMMA MappingIsMarkMapped ==
  ASSUME TypeInv, [Next]_vars, NEW k \in Keys, Mapping(k)
  PROVE  \E q \in Requests : MarkMapped(q) /\ k = call[q].key
<1>1. request'[k] # request[k]
  BY DEF Mapping
<1>2. ASSUME NEW q \in Requests, Register(q) PROVE FALSE
  <2> DEFINE row == [id |-> call[q].id, wp |-> call[q].wp, tenant |-> call[q].tenant,
                     status |-> "RECEIVED", at |-> Unmapped]
  <2>1. request' = [request EXCEPT ![call[q].key] = row]
    BY <1>1, <1>2 DEF Register
  <2>2. row.status # "MAPPED"
    OBVIOUS
  <2> HIDE DEF row
  <2>3. request'[k] = row
    BY <1>1, <2>1 DEF TypeInv, TypeOK
  <2> QED BY <2>2, <2>3 DEF Mapping
<1>3. \E q \in Requests : MarkMapped(q)
  <2>1. ASSUME NEW q \in Requests,
               BeginIntake(q) \/ BeginRerun(q) \/ ServeRequest(q) \/ Fail(q), ~ MarkMapped(q)
        PROVE  FALSE
    <3>1. request' = request \/ Register(q)
      BY <2>1 DEF BeginIntake, BeginRerun, ServeRequest, FindLink, ChooseSlug, CreateProject,
         LinkProject, ReloadProject, FindRevision, CreateCycle, FindAttempt, RecordAttempt,
         ReadLast, AppendAttempt, Fail, vars, master
    <3> QED BY <1>1, <1>2, <3>1
  <2>2. CASE \/ \E s \in Slugs : Publish(s) \/ DeleteProject(s) \/ RemoveFile(s)
           \/ Crash \/ UNCHANGED vars
    BY <1>1, <2>2 DEF Publish, DeleteProject, RemoveFile, Crash, vars, master
  <2> QED BY <2>1, <2>2 DEF Next
<1>4. PICK q \in Requests : MarkMapped(q)
  BY <1>3
<1> QED BY <1>1, <1>4, Marked

\* A request whose file nobody removed since its cycle was created becomes MAPPED only
\* when that cycle and its attempt 1, rows of another database, are committed, wherever
\* the machine stops.
THEOREM MappedWithItsRows == Spec => MappedIsBacked
<1> DEFINE Backed(k) ==
      LET s == request'[k].at.slug  c == request'[k].at.cycle IN
      /\ IsCycleOf(s, c, k)
      /\ Len(attempts[s][c]) > 0 /\ attempts[s][c][1] = [key |-> k, no |-> 1]
<1>1. ASSUME CampaignInv, [Next]_vars, NEW k \in Keys \ lost, Mapping(k) PROVE Backed(k)
  <2>1. TypeInv
    BY <1>1 DEF CampaignInv
  <2>2. PICK q \in Requests : MarkMapped(q) /\ k = call[q].key
    BY <1>1, <2>1, MappingIsMarkMapped
  <2>3. request'[k].at = [slug |-> seen[q].slug, cycle |-> seen[q].cycle]
    BY <2>1, <2>2, Marked
  <2>4. pc[q] = "mark_mapped" /\ OwnedOK(q) /\ call[q].key \notin lost
    BY <1>1, <2>2 DEF MarkMapped, CampaignInv
  <2> QED BY <2>2, <2>3, <2>4 DEF OwnedOK, Owned, Cycled
<1>2. CampaignInv /\ [Next]_vars => [\A k \in Keys \ lost : Mapping(k) => Backed(k)]_vars
  BY <1>1
<1> QED BY <1>2, CampaignInvariant, PTL DEF Spec, MappedIsBacked

-----------------------------------------------------------------------------
(* In its own project *)

TenantsAgree(s, t) ==
  None \notin {project[s].tenant, t} => project[s].tenant = t

\* No two projects have one id: SQLite gives a new row an id past those in the table.
UniqueIds ==
  \A s, t \in Slugs : Live(s) /\ project[s].id = project[t].id => s = t

\* The project in hand exists, agrees with the caller, and is the one linked once
\* there is a link; until somebody deletes it.
PlaceOK(q) ==
  pc[q] \in WithProject /\ call[q].key \notin orphaned =>
    LET s == seen[q].slug IN
    /\ Live(s) /\ TenantsAgree(s, call[q].tenant)
    /\ pc[q] \in {"link_project", "reload_project"} => seen[q].id = project[s].id
    /\ pc[q] # "link_project" => project[s].id = link[call[q].wp]

PlaceInv == CampaignInv /\ UniqueIds /\ \A q \in Requests : PlaceOK(q)

\* A step that leaves the projects and links of those who have one.
LEMMA OthersKeepPlaces ==
  ASSUME PlaceInv, NEW p \in Requests, orphaned \subseteq orphaned',
         pc'[p] = pc[p], call'[p] = call[p], seen'[p] = seen[p],
         pc[p] \in WithProject /\ call[p].key \notin orphaned' =>
           project'[seen[p].slug] = project[seen[p].slug],
         pc[p] \in WithProject \ {"link_project"} /\ call[p].key \notin orphaned' =>
           link'[call[p].wp] = link[call[p].wp]
  PROVE  PlaceOK(p)'
<1> SUFFICES ASSUME pc[p] \in WithProject, call[p].key \notin orphaned'
             PROVE  PlaceOK(p)'
  BY DEF PlaceOK
<1>1. PlaceOK(p) /\ call[p].key \notin orphaned
  BY DEF PlaceInv
<1>2. project'[seen[p].slug] = project[seen[p].slug]
  OBVIOUS
<1>3. pc[p] # "link_project" => link'[call[p].wp] = link[call[p].wp]
  OBVIOUS
<1> QED BY <1>1, <1>2, <1>3 DEF PlaceOK, Live, TenantsAgree

LEMMA ProjectOf ==
  ASSUME TypeInv, NEW q \in Requests, pc[q] \in WithProject \cup {"create_project"}
  PROVE  /\ seen[q].slug \in Slugs /\ seen[q].id \in 0..MaxId
         /\ call[q] \in Calls /\ call[q].wp \in WorkPackages
         /\ Live(seen[q].slug) => project[seen[q].slug].id \in 1..MaxId
BY DEF TypeInv, TypeOK, HandOK, Placed, Homed, WithProject, Live, ProjectRow, Calls, Seen

\* What q does with its thread alone.
LEMMA OnlyThreadMoves ==
  ASSUME PlaceInv, NEW q \in Requests, Others(q), UNCHANGED <<project, link, orphaned>>,
         PlaceOK(q)'
  PROVE  UniqueIds' /\ \A p \in Requests : PlaceOK(p)'
<1>1. UniqueIds'
  BY DEF PlaceInv, UniqueIds, Live
<1>2. \A p \in Requests \ {q} : PlaceOK(p)'
  BY OthersKeepPlaces DEF Others
<1> QED BY <1>1, <1>2

LEMMA CreateProjectKeepsPlaces ==
  ASSUME PlaceInv, NEW q \in Requests, CreateProject(q), ~ Live(seen[q].slug), Others(q)
  PROVE  UniqueIds' /\ \A p \in Requests : PlaceOK(p)'
<1> DEFINE s == seen[q].slug
<1>1. TypeInv /\ TypeOK /\ UniqueIds
  BY DEF PlaceInv, CampaignInv, TypeInv
<1>2. PICK n \in NextIds :
        /\ project' = [project EXCEPT ![s] = [id |-> n, tenant |-> call[q].tenant]]
        /\ See(q, "id", n)
  BY DEF CreateProject
<1>3. Goto(q, "link_project") /\ UNCHANGED <<link, orphaned>> /\ pc[q] = "create_project"
  BY DEF CreateProject, deletion
<1>4. s \in Slugs /\ call[q] \in Calls /\ n \in 1..MaxId
      /\ \A t \in Slugs : project[t].id < n
  BY <1>1, <1>3, ProjectOf DEF NextIds
<1>5. /\ project'[s] = [id |-> n, tenant |-> call[q].tenant]
      /\ \A t \in Slugs : t # s => project'[t] = project[t]
  <2> DEFINE row == [id |-> n, tenant |-> call[q].tenant]
  <2>1. project' = [project EXCEPT ![s] = row] /\ project \in [Slugs -> ProjectRow \cup {NoProject}]
    BY <1>1, <1>2 DEF TypeOK
  <2> HIDE DEF row, s
  <2>2. project'[s] = row /\ \A t \in Slugs : t # s => project'[t] = project[t]
    BY <1>4, <2>1
  <2> QED BY <2>2 DEF row
<1>6. UniqueIds'
  <2>1. \A t \in Slugs : project[t].id \in Nat /\ project[t].id # n
    <3>1. \A t \in Slugs : project[t].id \in Nat
      BY <1>1, Bounds DEF TypeOK, ProjectRow, NoProject
    <3>2. n \in Nat /\ \A m \in Nat : m < n => m # n
      BY <1>4, Bounds
    <3> QED BY <1>4, <3>1, <3>2
  <2>2. \A t \in Slugs : project'[t] = IF t = s THEN [id |-> n, tenant |-> call[q].tenant]
                                       ELSE project[t]
    BY <1>5
  <2> HIDE DEF s
  <2>3. ASSUME NEW t \in Slugs, NEW u \in Slugs, project'[t] # NoProject,
               project'[t].id = project'[u].id
        PROVE  t = u
    <3>1. CASE t = s \/ u = s
      BY <2>1, <2>2, <2>3, <3>1
    <3>2. CASE t # s /\ u # s
      BY <1>1, <2>2, <2>3, <3>2 DEF UniqueIds, Live
    <3> QED BY <3>1, <3>2
  <2> QED BY <2>3 DEF UniqueIds, Live
<1>7. ASSUME NEW p \in Requests \ {q} PROVE PlaceOK(p)'
  <2>1. pc[p] \in WithProject /\ call[p].key \notin orphaned => seen[p].slug \in Slugs /\ seen[p].slug # s
    BY <1>1, ProjectOf DEF PlaceInv, PlaceOK
  <2>2. pc[p] \in WithProject /\ call[p].key \notin orphaned =>
          project'[seen[p].slug] = project[seen[p].slug]
    BY <1>5, <2>1
  <2> QED BY <1>3, <2>2, OthersKeepPlaces DEF Others
<1>8. PlaceOK(q)'
  <2>1. pc'[q] = "link_project" /\ call'[q] = call[q]
    BY <1>1, <1>3, Went
  <2>2. seen'[q].slug = s /\ seen'[q].id = n
    <3>1. seen' = [seen EXCEPT ![q].id = n]
      BY <1>2 DEF See
    <3> QED BY <1>1, <3>1 DEF TypeOK, Seen
  <2>3. project'[s] # NoProject /\ project'[s].tenant = call[q].tenant /\ project'[s].id = n
    <3>1. n # 0
      BY <1>4, Bounds
    <3> QED BY <1>5, <3>1 DEF NoProject
  <2> HIDE DEF s
  <2> QED BY <2>1, <2>2, <2>3 DEF PlaceOK, Live, TenantsAgree
<1> QED BY <1>6, <1>7, <1>8

LEMMA LinkProjectKeepsPlaces ==
  ASSUME PlaceInv, NEW q \in Requests, LinkProject(q), NoLink(call[q].wp), Others(q)
  PROVE  UniqueIds' /\ \A p \in Requests : PlaceOK(p)'
<1>1. TypeInv /\ TypeOK /\ UniqueIds
  BY DEF PlaceInv, CampaignInv, TypeInv
<1>2. /\ link' = [link EXCEPT ![call[q].wp] = seen[q].id]
      /\ HoldExpired(q, seen[q].slug, seen[q].id)
      /\ UNCHANGED <<project, orphaned>> /\ pc[q] = "link_project"
  BY DEF LinkProject, deletion
<1>3. call[q].wp \in WorkPackages /\ seen[q].slug \in Slugs /\ seen[q].id \in 0..MaxId
  BY <1>1, <1>2, ProjectOf DEF WithProject
<1>4. /\ link'[call[q].wp] = seen[q].id
      /\ \A w \in WorkPackages : w # call[q].wp => link'[w] = link[w]
  BY <1>1, <1>2, <1>3 DEF TypeOK
<1>5. UniqueIds'
  BY <1>1, <1>2 DEF UniqueIds, Live
<1>6. ASSUME NEW p \in Requests \ {q} PROVE PlaceOK(p)'
  <2>1. ASSUME pc[p] \in WithProject \ {"link_project"}, call[p].key \notin orphaned
        PROVE  call[p].wp \in WorkPackages /\ call[p].wp # call[q].wp
    <3>1. /\ call[p].wp \in WorkPackages /\ project[seen[p].slug].id \in 1..MaxId
          /\ project[seen[p].slug].id = link[call[p].wp]
      BY <1>1, <2>1, ProjectOf DEF PlaceInv, PlaceOK
    <3>2. \A n \in 1..MaxId : n # 0
      BY Bounds
    <3> QED BY <3>1, <3>2 DEF NoLink
  <2>2. pc[p] \in WithProject \ {"link_project"} /\ call[p].key \notin orphaned =>
          link'[call[p].wp] = link[call[p].wp]
    BY <1>4, <2>1
  <2> QED BY <1>2, <2>2, OthersKeepPlaces DEF Others
<1>7. PlaceOK(q)'
  <2>1. /\ pc'[q] \in {"reload_project", "find_revision"} /\ call'[q] = call[q]
        /\ seen'[q].slug = seen[q].slug /\ (pc'[q] = "reload_project" => seen'[q].id = seen[q].id)
    BY <1>1, <1>2, <1>3, Held
  <2>2. PlaceOK(q) /\ "link_project" \in WithProject
    BY DEF PlaceInv, WithProject
  <2>3. call[q].key \notin orphaned =>
          /\ Live(seen[q].slug) /\ TenantsAgree(seen[q].slug, call[q].tenant)
          /\ seen[q].id = project[seen[q].slug].id
    BY <1>2, <2>2 DEF PlaceOK
  <2> QED BY <1>2, <1>4, <2>1, <2>3 DEF PlaceOK, Live, TenantsAgree
<1> QED BY <1>5, <1>6, <1>7

\* The steps that write neither projects nor links: what q holds next is what it held,
\* or what it has just read.
LEMMA ReadingKeepsPlace ==
  ASSUME PlaceInv, NEW q \in Requests,
         BeginIntake(q) \/ BeginRerun(q) \/ ServeRequest(q) \/ Fail(q),
         UNCHANGED <<project, link, orphaned>>,
         ~ (LinkProject(q) /\ NoLink(call[q].wp)), ~ (CreateProject(q) /\ ~ Live(seen[q].slug))
  PROVE  PlaceOK(q)'
<1>1. TypeInv /\ TypeOK /\ PlaceOK(q) /\ UniqueIds
  BY DEF PlaceInv, CampaignInv, TypeInv
<1>2. CASE Finish(q) \/ Refuse(q)
  BY <1>1, <1>2, Finished, Refused DEF PlaceOK, WithProject
<1>3. CASE BeginIntake(q) \/ BeginRerun(q)
  <2>1. CASE UNCHANGED vars
    BY <1>1, <2>1, OthersKeepPlaces DEF vars, master, deletion, threads
  <2>2. CASE ~ UNCHANGED vars
    BY <1>1, <1>3, <2>2 DEF BeginIntake, BeginRerun, TypeOK, PlaceOK, WithProject
  <2> QED BY <2>1, <2>2
<1>4. CASE \E label \in {"find_link", "choose_slug", "create_project", "append_attempt"} :
             Goto(q, label)
  BY <1>1, <1>4, Went DEF PlaceOK, WithProject
<1>5. CASE FindLink(q) /\ ~ Finish(q) /\ ~ Goto(q, "choose_slug")
  <2>1. PICK s \in Linked(call[q].wp) :
          /\ ~ TenantMismatch(s, call[q].tenant)
          /\ Hold(q, s) \/ HoldExpired(q, s, project[s].id)
    BY <1>5 DEF FindLink
  <2>2. s \in Slugs /\ Live(s) /\ project[s].id = link[call[q].wp]
    BY DEF Linked
  <2>3. project[s].id \in 0..MaxId
    BY <1>1, <2>2, Bounds DEF TypeOK, ProjectRow, NoProject
  <2>4. /\ pc'[q] \in {"find_revision", "reload_project"} /\ call'[q] = call[q]
        /\ seen'[q].slug = s /\ (pc'[q] = "reload_project" => seen'[q].id = project[s].id)
    BY <1>1, <2>1, <2>2, <2>3, Held
  <2> QED BY <2>1, <2>2, <2>4 DEF PlaceOK, Live, TenantsAgree, TenantMismatch
<1>6. CASE ReloadProject(q) /\ ~ Refuse(q)
  <2>1. PICK s \in Slugs : Live(s) /\ project[s].id = seen[q].id /\ Hold(q, s)
    BY <1>6 DEF ReloadProject
  <2>2. 0 \in 0..MaxId
    BY Bounds
  <2>3. pc'[q] = "find_revision" /\ call'[q] = call[q] /\ seen'[q].slug = s
    BY <1>1, <2>1, <2>2, Held
  <2>4. pc[q] = "reload_project" /\ pc[q] \in WithProject /\ seen[q].slug \in Slugs
    BY <1>1, <1>6, ProjectOf DEF ReloadProject, WithProject
  <2>5. call[q].key \notin orphaned => s = seen[q].slug
    BY <1>1, <2>1, <2>4 DEF PlaceOK, UniqueIds
  <2> QED BY <1>1, <2>3, <2>4, <2>5 DEF PlaceOK, Live, TenantsAgree
<1>7. CASE (FindRevision(q) \/ CreateCycle(q) \/ FindAttempt(q) \/ RecordAttempt(q))
           /\ ~ Finish(q) /\ ~ Refuse(q)
  <2>1. /\ pc[q] \in {"find_revision", "create_cycle", "find_attempt", "record_attempt"}
        /\ \E label \in {"create_cycle", "find_attempt", "record_attempt", "mark_mapped"} :
             Goto(q, label)
    BY <1>7 DEF FindRevision, CreateCycle, FindAttempt, RecordAttempt, RefuseAttempt
  <2>2. /\ pc'[q] \in {"create_cycle", "find_attempt", "record_attempt", "mark_mapped"}
        /\ call'[q] = call[q]
    BY <1>1, <2>1, Went
  <2>3. seen'[q].slug = seen[q].slug
    <3>1. CASE CreateCycle(q)
      <4> DEFINE n == Len(cycles[seen[q].slug]) + 1
      <4>1. seen' = [seen EXCEPT ![q].cycle = n]
        BY <3>1 DEF CreateCycle, See
      <4> HIDE DEF n
      <4> QED BY <1>1, <4>1 DEF TypeOK, Seen
    <3>2. CASE UNCHANGED seen
      BY <3>2
    <3> QED BY <1>7, <3>1, <3>2 DEF FindRevision, FindAttempt, RecordAttempt, RefuseAttempt
  <2> QED BY <1>1, <2>1, <2>2, <2>3 DEF PlaceOK, Live, TenantsAgree, WithProject
<1>8. CASE Register(q) \/ ChooseSlug(q) \/ ReadLast(q)
  BY <1>2, <1>4, <1>8 DEF Register, ChooseSlug, ReadLast
<1>9. CASE CreateProject(q) \/ LinkProject(q) \/ MarkMapped(q) \/ AppendAttempt(q) \/ Fail(q)
  BY <1>2, <1>9 DEF CreateProject, LinkProject, MarkMapped, AppendAttempt, RefuseAttempt, Fail
<1> QED BY <1>2, <1>3, <1>4, <1>5, <1>6, <1>7, <1>8, <1>9 DEF ServeRequest

LEMMA ThreadKeepsPlaces ==
  ASSUME PlaceInv, NEW q \in Requests,
         BeginIntake(q) \/ BeginRerun(q) \/ ServeRequest(q) \/ Fail(q)
  PROVE  UniqueIds' /\ \A p \in Requests : PlaceOK(p)'
<1>1. Others(q)
  BY OneThreadMoves DEF PlaceInv, CampaignInv
<1>2. CASE CreateProject(q) /\ ~ Live(seen[q].slug)
  BY <1>1, <1>2, CreateProjectKeepsPlaces
<1>3. CASE LinkProject(q) /\ NoLink(call[q].wp)
  BY <1>1, <1>3, LinkProjectKeepsPlaces
<1>4. CASE ~ (CreateProject(q) /\ ~ Live(seen[q].slug)) /\ ~ (LinkProject(q) /\ NoLink(call[q].wp))
  <2>1. UNCHANGED <<project, link, orphaned>>
    BY <1>4 DEF BeginIntake, BeginRerun, ServeRequest, Register, FindLink, ChooseSlug,
       CreateProject, LinkProject, ReloadProject, FindRevision, CreateCycle, FindAttempt,
       RecordAttempt, MarkMapped, ReadLast, AppendAttempt, Fail, vars, master, deletion
  <2> QED BY <1>1, <1>4, <2>1, ReadingKeepsPlace, OnlyThreadMoves
<1> QED BY <1>2, <1>3, <1>4

LEMMA InitPlaceInv == Init => PlaceInv
<1>1. Init => UniqueIds /\ \A q \in Requests : PlaceOK(q)
  BY DEF Init, PlaceOK, WithProject, UniqueIds, Live
<1> QED BY <1>1, InitCampaignInv DEF PlaceInv

LEMMA PlaceInvNext == PlaceInv /\ [Next]_vars => PlaceInv'
<1> SUFFICES ASSUME PlaceInv, [Next]_vars PROVE PlaceInv'
  OBVIOUS
<1>1. CampaignInv' /\ TypeInv /\ TypeOK /\ UniqueIds
  BY CampaignInvNext DEF PlaceInv, CampaignInv, TypeInv
<1>2. SUFFICES UniqueIds' /\ \A q \in Requests : PlaceOK(q)'
  BY <1>1 DEF PlaceInv
<1>3. CASE \E q \in Requests : BeginIntake(q) \/ BeginRerun(q) \/ ServeRequest(q) \/ Fail(q)
  BY <1>3, ThreadKeepsPlaces
<1>4. UNCHANGED project => UniqueIds'
  BY <1>1 DEF UniqueIds, Live
<1>5. CASE Crash
  BY <1>4, <1>5 DEF Crash, PlaceOK, WithProject, master
<1>6. ASSUME NEW s \in Slugs, DeleteProject(s) PROVE UniqueIds' /\ \A q \in Requests : PlaceOK(q)'
  <2>1. /\ UNCHANGED <<link, threads>> /\ orphaned' = orphaned \cup InHand(s)
        /\ project'[s] = NoProject /\ \A t \in Slugs : t # s => project'[t] = project[t]
    BY <1>1, <1>6 DEF DeleteProject, TypeOK
  <2>2. UniqueIds'
    <3>1. \A t \in Slugs : project'[t] # NoProject =>
            t # s /\ project[t] # NoProject /\ project[t].id # 0
      <4>1. \A t \in Slugs : project[t] # NoProject => project[t].id \in 1..MaxId
        BY <1>1 DEF TypeOK, ProjectRow
      <4>2. 0 \notin 1..MaxId
        OBVIOUS
      <4> QED BY <2>1, <4>1, <4>2
    <3>2. ASSUME NEW t \in Slugs, NEW u \in Slugs, project'[t] # NoProject,
                 project'[t].id = project'[u].id
          PROVE  t = u
      <4>1. u # s
        BY <2>1, <3>1, <3>2 DEF NoProject
      <4> QED BY <1>1, <2>1, <3>1, <3>2, <4>1 DEF UniqueIds, Live
    <3> QED BY <3>2 DEF UniqueIds, Live
  <2>3. ASSUME NEW q \in Requests PROVE PlaceOK(q)'
    <3>1. pc[q] \in WithProject /\ call[q].key \notin orphaned' =>
            seen[q].slug \in Slugs /\ seen[q].slug # s
      BY <1>1, <2>1, ProjectOf DEF InHand
    <3>2. pc[q] \in WithProject /\ call[q].key \notin orphaned' =>
            project'[seen[q].slug] = project[seen[q].slug]
      BY <2>1, <3>1
    <3> QED BY <2>1, <3>2, OthersKeepPlaces DEF threads
  <2> QED BY <2>2, <2>3
<1>7. ASSUME NEW s \in Slugs, RemoveFile(s) PROVE UniqueIds' /\ \A q \in Requests : PlaceOK(q)'
  <2>1. UNCHANGED <<project, link, orphaned>>
    BY <1>1, <1>7, FileRemoved DEF master
  <2>2. ASSUME NEW q \in Requests PROVE PlaceOK(q)'
    <3>1. \/ pc'[q] = "idle"
          \/ pc'[q] = pc[q] /\ call'[q] = call[q] /\ seen'[q] = seen[q]
      BY <1>1, <1>7, FileRemoved
    <3>2. CASE pc'[q] = "idle"
      BY <3>2 DEF PlaceOK, WithProject
    <3> QED BY <2>1, <3>1, <3>2, OthersKeepPlaces
  <2> QED BY <1>4, <2>1, <2>2
<1>8. CASE (\E s \in Slugs : Publish(s)) \/ UNCHANGED vars
  BY <1>4, <1>8, OthersKeepPlaces DEF Publish, vars, master, deletion, threads
<1> QED BY <1>3, <1>5, <1>6, <1>7, <1>8 DEF Next

LEMMA PlaceInvariant == Spec => []PlaceInv
BY InitPlaceInv, PlaceInvNext, PTL DEF Spec

\* A request whose project nobody deleted while it had it in hand becomes MAPPED only
\* in the project its work package is linked to, of its own tenant, however first
\* deliveries race to create the project and whichever projects are deleted.
THEOREM MappedAtHome == Spec => MappedInItsProject
<1> DEFINE AtHome(k) ==
      LET s == request'[k].at.slug IN
      /\ project[s].id = link[request[k].wp]
      /\ None \notin {project[s].tenant, request[k].tenant} =>
           project[s].tenant = request[k].tenant
<1>1. ASSUME PlaceInv, [Next]_vars, NEW k \in Keys \ orphaned, Mapping(k) PROVE AtHome(k)
  <2>1. TypeInv
    BY <1>1 DEF PlaceInv, CampaignInv
  <2>2. PICK q \in Requests : MarkMapped(q) /\ k = call[q].key
    BY <1>1, <2>1, MappingIsMarkMapped
  <2>3. request'[k].at.slug = seen[q].slug
    <3>1. request'[k].at = [slug |-> seen[q].slug, cycle |-> seen[q].cycle]
      BY <2>1, <2>2, Marked
    <3> QED BY <3>1
  <2>4. pc[q] = "mark_mapped" /\ OwnedOK(q) /\ PlaceOK(q) /\ call[q].key \notin orphaned
    BY <1>1, <2>2 DEF MarkMapped, PlaceInv, CampaignInv
  <2> QED BY <2>2, <2>3, <2>4 DEF OwnedOK, PlaceOK, TenantsAgree, Owned, WithProject
<1>2. PlaceInv /\ [Next]_vars => [\A k \in Keys \ orphaned : Mapping(k) => AtHome(k)]_vars
  BY <1>1
<1> QED BY <1>2, PlaceInvariant, PTL DEF Spec, MappedInItsProject

-----------------------------------------------------------------------------
(* QaIntake implements QaService *)

\* The attempts made for a request are in one place: in the cycle it is mapped to, and
\* before that it is the first of the cycle that was made for it, or of what is there
\* since the file with that cycle was removed.
KeptAt(k) ==
  /\ \A s \in Slugs, c \in CycleNos : \A n \in Nat : Attempted(k, s, c, n) =>
       IF request[k].status = "MAPPED" THEN request[k].at = [slug |-> s, cycle |-> c]
                                       ELSE n = 1 /\ (k \in lost \/ IsCycleOf(s, c, k))
  /\ \A s, t \in Slugs, c, d \in CycleNos : \A m, n \in Nat :
       Attempted(k, s, c, m) /\ Attempted(k, t, d, n) => s = t /\ c = d
  /\ request[k].status = "MAPPED" =>
       /\ k \in lost \/ \E s \in Slugs, c \in CycleNos : IsCycleOf(s, c, k)
       /\ \A s \in Slugs, c \in CycleNos :
            IsCycleOf(s, c, k) => request[k].at = [slug |-> s, cycle |-> c]

\* A first attempt is recorded for a request that has none, and is all that request
\* has when it is mapped; a re-run is of a mapped request in the cycle it is mapped to.
RunOK(q) ==
  /\ pc[q] \in {"find_attempt", "record_attempt"} =>
       \A s \in Slugs, c \in CycleNos : \A n \in Nat : ~ Attempted(call[q].key, s, c, n)
  /\ pc[q] = "mark_mapped" =>
       \A s \in Slugs, c \in CycleNos : \A n \in Nat :
         Attempted(call[q].key, s, c, n) => s = seen[q].slug /\ c = seen[q].cycle /\ n = 1
  /\ pc[q] \in Reruns =>
       /\ request[call[q].key].status = "MAPPED"
       /\ request[call[q].key].at = [slug |-> seen[q].slug, cycle |-> seen[q].cycle]

\* The threads whose RunOK speaks of attempts.
Counting == {"find_attempt", "record_attempt", "mark_mapped"}

ServiceInv == CampaignInv /\ (\A k \in Keys : KeptAt(k)) /\ \A q \in Requests : RunOK(q)

LEMMA InitServiceInv == Init => ServiceInv
<1> SUFFICES ASSUME Init PROVE ServiceInv
  OBVIOUS
<1>1. \A k \in Keys, s \in Slugs, c \in CycleNos : \A n \in Nat : ~ Attempted(k, s, c, n)
  BY DEF Init, Attempted
<1>2. \A k \in Keys : request[k].status # "MAPPED"
  BY DEF Init, NoRequest, None
<1>3. \A q \in Requests : pc[q] \notin Reruns
  BY DEF Init, Reruns
<1>4. \A q \in Requests : pc[q] \notin Counting
  BY DEF Init, Counting
<1> QED BY <1>1, <1>2, <1>3, <1>4, InitCampaignInv DEF ServiceInv, KeptAt, RunOK, Counting

\* A thread on a request has a key, and a re-run one that is mapped.
LEMMA KeyInHand ==
  ASSUME ServiceInv, NEW q \in Requests
  PROVE  /\ pc[q] \in Owned => call[q].key \in Keys /\ request[call[q].key].status = "RECEIVED"
         /\ pc[q] \in Reruns => call[q].key \in Keys /\ request[call[q].key].status = "MAPPED"
<1>1. HandOK(q) /\ OwnedOK(q) /\ RunOK(q)
  BY DEF ServiceInv, CampaignInv, TypeInv
<1>2. pc[q] \in Owned \cup Reruns => pc[q] # "idle"
  BY DEF Owned, Reruns
<1> QED BY <1>1, <1>2 DEF HandOK, OwnedOK, RunOK, Calls

\* The steps that write no request, no cycle and no attempt.
LEMMA RowsAloneKeepService ==
  ASSUME ServiceInv, CampaignInv', NEW q \in Requests,
         BeginIntake(q) \/ BeginRerun(q) \/ ServeRequest(q) \/ Fail(q),
         UNCHANGED <<request, cycles, attempts, lost>>
  PROVE  ServiceInv'
<1>1. TypeOK /\ Others(q)
  BY OneThreadMoves DEF ServiceInv, CampaignInv, TypeInv
<1>2. \A s, c, k, n : (Attempted(k, s, c, n)' <=> Attempted(k, s, c, n))
                      /\ (IsCycleOf(s, c, k)' <=> IsCycleOf(s, c, k))
  BY DEF Attempted, IsCycleOf
<1>3. \A k \in Keys : KeptAt(k)'
  BY <1>2 DEF ServiceInv, KeptAt
<1>4. \A p \in Requests \ {q} : RunOK(p)'
  BY <1>1, <1>2 DEF ServiceInv, RunOK, Others
<1>5. CASE pc'[q] \notin Reruns \cup Counting
  <2>1. RunOK(q)'
    BY <1>5 DEF RunOK, Counting
  <2> QED BY <1>3, <1>4, <2>1 DEF ServiceInv
<1>6. CASE BeginRerun(q)
  <2>1. pc'[q] = "read_last"
        /\ \E i \in Ids : /\ call'[q].key = newest[i]
                          /\ request[newest[i]].status = "MAPPED"
                          /\ seen'[q].slug = request[newest[i]].at.slug
                          /\ seen'[q].cycle = request[newest[i]].at.cycle
                          /\ newest[i] \in Keys
    <3>1. PICK i \in Ids, t \in Tenants \cup {None} :
            /\ newest[i] # None
            /\ request[newest[i]].status = "MAPPED"
            /\ pc' = [pc EXCEPT ![q] = "read_last"]
            /\ call' = [call EXCEPT ![q] = [key |-> newest[i], id |-> i,
                          wp |-> request[newest[i]].wp, tenant |-> t]]
            /\ seen' = [seen EXCEPT ![q] = [slug |-> request[newest[i]].at.slug, id |-> 0,
                          cycle |-> request[newest[i]].at.cycle, last |-> 0]]
      BY <1>6 DEF BeginRerun
    <3> QED BY <1>1, <3>1 DEF TypeOK
  <2>2. PICK i \in Ids : /\ call'[q].key = newest[i] /\ newest[i] \in Keys
                         /\ request[newest[i]].status = "MAPPED"
                         /\ seen'[q].slug = request[newest[i]].at.slug
                         /\ seen'[q].cycle = request[newest[i]].at.cycle
    BY <2>1
  <2>3. request[newest[i]] \in RequestRow
    BY <1>1, <2>2 DEF TypeOK, NoRequest, None
  <2>4. request[newest[i]].at = [slug |-> request[newest[i]].at.slug,
                                 cycle |-> request[newest[i]].at.cycle]
    BY <2>2, <2>3 DEF RequestRow
  <2>5. RunOK(q)'
    BY <2>1, <2>2, <2>4 DEF RunOK
  <2> QED BY <1>3, <1>4, <2>5 DEF ServiceInv
<1>7. CASE FindAttempt(q) /\ ~ Finish(q)
  <2>1. pc[q] = "find_attempt" /\ pc'[q] = "record_attempt" /\ call'[q] = call[q]
    BY <1>1, <1>7, Went DEF FindAttempt
  <2>2. \A s \in Slugs, c \in CycleNos : \A n \in Nat : ~ Attempted(call[q].key, s, c, n)
    BY <2>1 DEF ServiceInv, RunOK
  <2>3. (\A s \in Slugs, c \in CycleNos : \A n \in Nat : ~ Attempted(call[q].key, s, c, n))'
    BY <2>1, <2>2 DEF Attempted
  <2>4. RunOK(q)'
    BY <2>1, <2>3 DEF RunOK, Reruns
  <2> QED BY <1>3, <1>4, <2>4 DEF ServiceInv
<1>8. CASE ReadLast(q)
  <2>1. /\ pc[q] = "read_last" /\ pc'[q] = "append_attempt" /\ call'[q] = call[q]
        /\ seen'[q].slug = seen[q].slug /\ seen'[q].cycle = seen[q].cycle
    <3>1. pc[q] = "read_last" /\ pc'[q] = "append_attempt" /\ call'[q] = call[q]
      BY <1>1, <1>8, Went DEF ReadLast
    <3>2. seen' = [seen EXCEPT ![q].last = LastAttempt(seen[q].slug, seen[q].cycle)]
      BY <1>8 DEF ReadLast, See
    <3> QED BY <1>1, <3>1, <3>2 DEF TypeOK, Seen
  <2>2. RunOK(q)'
    BY <2>1 DEF ServiceInv, RunOK, Reruns
  <2> QED BY <1>3, <1>4, <2>2 DEF ServiceInv
<1>9. CASE ~ BeginRerun(q) /\ ~ ReadLast(q) /\ ~ (FindAttempt(q) /\ ~ Finish(q))
  <2>1. CASE Finish(q) \/ Refuse(q)
    BY <1>1, <1>5, <2>1, Finished, Refused DEF Reruns, Counting
  <2>2. CASE \E label \in {"choose_slug", "create_project", "link_project", "reload_project",
                           "find_revision", "create_cycle", "find_link"} :
               Goto(q, label)
    BY <1>1, <1>5, <2>2, Went DEF Reruns, Counting
  <2>3. CASE BeginIntake(q)
    <3>1. CASE UNCHANGED vars
      BY <1>2, <1>3, <1>4, <3>1 DEF vars, threads, ServiceInv, RunOK
    <3>2. CASE pc' = [pc EXCEPT ![q] = "register"]
      BY <1>1, <1>5, <3>2 DEF TypeOK, Reruns, Counting
    <3> QED BY <2>3, <3>1, <3>2 DEF BeginIntake
  <2>4. CASE CreateCycle(q)
    <3>1. cycles' = [cycles EXCEPT ![seen[q].slug] = Append(cycles[seen[q].slug], call[q].key)]
          /\ seen[q].slug \in Slugs /\ call[q].key \in Keys
      BY <2>4, KeyInHand DEF CreateCycle, ServiceInv, CampaignInv, TypeInv, HandOK,
         Placed, Homed, Owned
    <3>2. cycles[seen[q].slug] \in Seq(Keys)
      BY <1>1, <3>1 DEF TypeOK
    <3>3. Len(cycles'[seen[q].slug]) = Len(cycles[seen[q].slug]) + 1
          /\ Len(cycles[seen[q].slug]) \in Nat
      BY <1>1, <3>1, <3>2 DEF TypeOK
    <3> QED BY <3>3
  <2>5. CASE \E no : InsertAttempt(q, no) /\ (RecordAttempt(q) \/ AppendAttempt(q))
    <3>1. PICK no : InsertAttempt(q, no)
      BY <2>5
    <3> DEFINE row == attempts[seen[q].slug][seen[q].cycle]
               new == [key |-> call[q].key, no |-> no]
    <3>2. seen[q].slug \in Slugs /\ seen[q].cycle \in CycleNos /\ call[q].key \in Keys
      BY <2>5, KeyInHand DEF RecordAttempt, AppendAttempt, ServiceInv, CampaignInv, TypeInv,
         HandOK, Placed, Homed, Cycled, Reruns, Owned
    <3>3. attempts' = [attempts EXCEPT ![seen[q].slug][seen[q].cycle] = Append(row, new)]
      BY <3>1 DEF InsertAttempt
    <3>4. attempts'[seen[q].slug][seen[q].cycle] = Append(row, new)
      <4> HIDE DEF row, new
      <4> QED BY <1>1, <3>2, <3>3 DEF TypeOK
    <3>5. row \in Seq(Attempt)
      BY <1>1, <3>2 DEF TypeOK
    <3>6. Append(row, new) # row
      <4> HIDE DEF row, new
      <4>1. Len(row) \in Nat /\ Len(Append(row, new)) = Len(row) + 1
        BY <3>5
      <4> QED BY <4>1
    <3> QED BY <3>4, <3>6
  <2>7. CASE MarkMapped(q) \/ Fail(q)
    BY <2>1, <2>7 DEF MarkMapped, Fail
  <2> QED BY <1>9, <2>1, <2>2, <2>3, <2>4, <2>5, <2>7
      DEF ServeRequest, Register, FindLink, ChooseSlug, CreateProject, LinkProject,
      ReloadProject, Hold, HoldExpired, FindRevision, FindAttempt, RecordAttempt,
      AppendAttempt, RefuseAttempt
<1> QED BY <1>6, <1>7, <1>8, <1>9

LEMMA RegisterKeepsService ==
  ASSUME ServiceInv, CampaignInv', NEW q \in Requests, Register(q), KeyFree(call[q].key)
  PROVE  ServiceInv'
<1> DEFINE k == call[q].key
           row == [id |-> call[q].id, wp |-> call[q].wp, tenant |-> call[q].tenant,
                   status |-> "RECEIVED", at |-> Unmapped]
<1>1. /\ TypeOK /\ Others(q) /\ k \in Keys /\ request[k] = NoRequest
      /\ request' = [request EXCEPT ![k] = row] /\ Goto(q, "find_link")
      /\ UNCHANGED <<files, lost>>
  <2>1. TypeOK /\ TypeInv /\ HandOK(q)
    BY DEF ServiceInv, CampaignInv, TypeInv
  <2>2. Others(q)
    BY <2>1, OneThreadMoves DEF ServeRequest
  <2> QED BY <2>1, <2>2 DEF Register, KeyFree, HandOK, Calls, deletion
<1>2. request'[k].status = "RECEIVED" /\ request[k].status # "MAPPED"
      /\ \A j \in Keys : j # k => request'[j] = request[j]
  <2>1. row.status = "RECEIVED" /\ request[k].status # "MAPPED"
    BY <1>1 DEF NoRequest, None
  <2> HIDE DEF k, row
  <2> QED BY <1>1, <2>1 DEF TypeOK
<1> HIDE DEF row
<1>3. \A s, c, j, n : (Attempted(j, s, c, n)' <=> Attempted(j, s, c, n))
                      /\ (IsCycleOf(s, c, j)' <=> IsCycleOf(s, c, j))
  BY <1>1 DEF files, Attempted, IsCycleOf
<1>4. ASSUME NEW j \in Keys PROVE KeptAt(j)'
  <2>1. KeptAt(j) /\ lost' = lost
    BY <1>1 DEF ServiceInv
  <2>2. \/ request'[j] = request[j]
        \/ request'[j].status # "MAPPED" /\ request[j].status # "MAPPED"
    BY <1>2
  <2> HIDE DEF k
  <2> QED BY <1>3, <2>1, <2>2 DEF KeptAt
<1>5. ASSUME NEW p \in Requests \ {q} PROVE RunOK(p)'
  <2>1. pc[p] \in Reruns => request'[call[p].key] = request[call[p].key]
    BY <1>2, KeyInHand
  <2> QED BY <1>1, <1>3, <2>1 DEF ServiceInv, RunOK, Others
<1>6. RunOK(q)'
  <2>1. pc'[q] = "find_link"
    BY <1>1, Went
  <2>2. "find_link" \notin Reruns \cup {"find_attempt", "record_attempt", "mark_mapped"}
    BY DEF Reruns
  <2> QED BY <2>1, <2>2 DEF RunOK
<1> QED BY <1>4, <1>5, <1>6 DEF ServiceInv

\* What create_cycle adds: one cycle, of a request that had none.
LEMMA CycleCreated ==
  ASSUME ServiceInv, NEW q \in Requests, CreateCycle(q)
  PROVE  /\ call[q].key \in Keys /\ request[call[q].key].status = "RECEIVED"
         /\ UNCHANGED <<request, attempts, lost>> /\ call[q].key \notin lost
         /\ \A t \in Slugs, c \in CycleNos : ~ IsCycleOf(t, c, call[q].key)
         /\ \E s \in Slugs, n \in CycleNos :
              \A t \in Slugs, c \in CycleNos, j \in Keys :
                IsThenCycleOf(t, c, j)
                  <=> IsCycleOf(t, c, j) \/ (t = s /\ c = n /\ j = call[q].key)
<1> DEFINE k == call[q].key
           s == seen[q].slug
           n == Len(cycles[s]) + 1
<1>1. /\ TypeOK /\ k \in Keys /\ s \in Slugs /\ pc[q] = "create_cycle"
      /\ request[k].status = "RECEIVED" /\ OwnedOK(q)
  BY KeyInHand DEF ServiceInv, CampaignInv, TypeInv, HandOK, CreateCycle, Placed, Homed, Owned
<1>2. cycles' = [cycles EXCEPT ![s] = Append(@, k)] /\ UNCHANGED <<request, attempts, lost>>
  BY DEF CreateCycle, master, deletion
<1>3. /\ cycles'[s] = Append(cycles[s], k) /\ cycles[s] \in Seq(Keys)
      /\ \A t \in Slugs : t # s => cycles'[t] = cycles[t]
  <2> HIDE DEF k, s
  <2> QED BY <1>1, <1>2 DEF TypeOK
<1>4. n \in CycleNos
  BY <1>1, Bounds DEF CreateCycle, CycleNos, TypeOK
<1>5. \A c \in CycleNos, j \in Keys :
        IsThenCycleOf(s, c, j) <=> IsCycleOf(s, c, j) \/ (c = n /\ j = k)
  <2> DEFINE old == cycles[s]
             new == cycles'[s]
  <2>1. old \in Seq(Keys) /\ new = Append(old, k) /\ n = Len(old) + 1
    BY <1>3
  <2>2. \A c \in CycleNos : c \in Nat /\ c >= 1
    BY Bounds DEF CycleNos
  <2> HIDE DEF old, new, k, n
  <2>3. /\ Len(old) \in Nat /\ Len(new) = Len(old) + 1 /\ new[Len(old) + 1] = k
        /\ \A i \in 1..Len(old) : new[i] = old[i]
    BY <1>1, <2>1, Appended
  <2>4. ASSUME NEW c \in CycleNos, NEW j \in Keys
        PROVE  c <= Len(new) /\ new[c] = j <=> (c <= Len(old) /\ old[c] = j) \/ (c = n /\ j = k)
    <3>1. CASE c <= Len(old)
      <4>1. c \in 1..Len(old) /\ c <= Len(new) /\ c # n
        BY <2>1, <2>2, <2>3, <3>1
      <4> QED BY <2>3, <3>1, <4>1
    <3>2. CASE c = n
      BY <2>1, <2>3, <3>2
    <3>3. CASE ~ (c <= Len(old)) /\ c # n
      BY <2>1, <2>2, <2>3, <3>3
    <3> QED BY <3>1, <3>2, <3>3
  <2> QED BY <2>4 DEF IsCycleOf, IsThenCycleOf, old, new
<1>6. \A t \in Slugs, c \in CycleNos, j \in Keys :
        IsThenCycleOf(t, c, j) <=> IsCycleOf(t, c, j) \/ (t = s /\ c = n /\ j = k)
  <2> HIDE DEF k, s, n
  <2>1. ASSUME NEW t \in Slugs, t # s, NEW c \in CycleNos, NEW j \in Keys
        PROVE  IsThenCycleOf(t, c, j) <=> IsCycleOf(t, c, j)
    BY <1>3, <2>1 DEF IsCycleOf, IsThenCycleOf
  <2> QED BY <1>5, <2>1
<1>7. k \notin lost /\ \A t \in Slugs, c \in CycleNos : ~ IsCycleOf(t, c, k)
  BY <1>1 DEF OwnedOK, Owned, Cycled, Reruns
<1> HIDE DEF n, s
<1> QED BY <1>1, <1>2, <1>4, <1>6, <1>7

\* No attempt was made for a request that has no cycle.
LEMMA NoneWithoutCycle ==
  ASSUME NEW k \in Keys, KeptAt(k), request[k].status # "MAPPED", k \notin lost,
         \A s \in Slugs, c \in CycleNos : ~ IsCycleOf(s, c, k)
  PROVE  \A s \in Slugs, c \in CycleNos : \A n \in Nat : ~ Attempted(k, s, c, n)
BY DEF KeptAt

LEMMA CreateCycleKeepsService ==
  ASSUME ServiceInv, CampaignInv', NEW q \in Requests, CreateCycle(q)
  PROVE  ServiceInv'
<1> DEFINE k == call[q].key
<1>1. /\ k \in Keys /\ request[k].status = "RECEIVED"
      /\ UNCHANGED <<request, attempts, lost>> /\ k \notin lost
      /\ \A s \in Slugs, c \in CycleNos : ~ IsCycleOf(s, c, k)
  BY CycleCreated
<1>2. \A s \in Slugs, c \in CycleNos, j \in Keys :
        /\ IsCycleOf(s, c, j) => IsThenCycleOf(s, c, j)
        /\ j # k => (IsThenCycleOf(s, c, j) => IsCycleOf(s, c, j))
  BY CycleCreated
<1>3. Others(q) /\ pc'[q] = "find_attempt" /\ call'[q] = call[q]
  <2>1. TypeOK /\ TypeInv
    BY DEF ServiceInv, CampaignInv, TypeInv
  <2> QED BY <2>1, OneThreadMoves, Went DEF ServeRequest, CreateCycle
<1>4. \A s, c, j, n : Attempted(j, s, c, n)' <=> Attempted(j, s, c, n)
  BY <1>1 DEF Attempted
<1>5. \A s, c, j : IsCycleOf(s, c, j)' <=> IsThenCycleOf(s, c, j)
  BY DEF IsCycleOf, IsThenCycleOf
<1>6. ASSUME NEW j \in Keys PROVE KeptAt(j)'
  <2>1. KeptAt(j) /\ request'[j] = request[j] /\ lost' = lost
    BY <1>1 DEF ServiceInv
  <2>2. request[j].status = "MAPPED" => j # k
    BY <1>1
  <2> HIDE DEF k
  <2> QED BY <1>2, <1>4, <1>5, <2>1, <2>2 DEF KeptAt
<1>7. \A p \in Requests \ {q} : RunOK(p)'
  BY <1>1, <1>3, <1>4 DEF ServiceInv, RunOK, Others
<1>8. RunOK(q)'
  <2>1. KeptAt(k)
    BY <1>1 DEF ServiceInv
  <2>2. \A s \in Slugs, c \in CycleNos : \A n \in Nat : ~ Attempted(k, s, c, n)
    BY <1>1, <2>1, NoneWithoutCycle
  <2> QED BY <1>3, <1>4, <2>2 DEF RunOK, Reruns
<1> QED BY <1>6, <1>7, <1>8 DEF ServiceInv

\* What an insert of an attempt adds: one attempt, of the key in hand.
LEMMA AttemptMade ==
  ASSUME ServiceInv, NEW q \in Requests, NEW no \in Nat \ {0}, InsertAttempt(q, no),
         \/ RecordAttempt(q) /\ no = 1
         \/ AppendAttempt(q) /\ no = seen[q].last + 1
  PROVE  /\ call[q].key \in Keys /\ seen[q].slug \in Slugs /\ seen[q].cycle \in CycleNos
         /\ UNCHANGED <<request, cycles, lost>>
         /\ ~ Attempted(call[q].key, seen[q].slug, seen[q].cycle, no)
         /\ \A t \in Slugs, d \in CycleNos, j \in Keys : \A n \in Nat :
              ThenAttempted(j, t, d, n)
                <=> \/ Attempted(j, t, d, n)
                    \/ j = call[q].key /\ t = seen[q].slug /\ d = seen[q].cycle /\ n = no
<1> DEFINE s == seen[q].slug
           c == seen[q].cycle
           k == call[q].key
           row == attempts[s][c]
           new == [key |-> k, no |-> no]
<1>1. /\ TypeInv /\ TypeOK /\ HandOK(q) /\ call[q] \in Calls /\ k \in Keys
      /\ s \in Slugs /\ c \in CycleNos /\ UNCHANGED <<request, cycles, lost>>
  BY DEF ServiceInv, CampaignInv, TypeInv, RecordAttempt, AppendAttempt, HandOK, Placed,
     Homed, Cycled, Reruns, Calls, master, deletion
<1>2. row \in Seq(Attempt) /\ new \in Attempt /\ \A i \in DOMAIN row : row[i].no = i
  <2>1. row \in Seq(Attempt)
    BY <1>1 DEF TypeOK
  <2>2. new \in Attempt
    BY <1>1 DEF Attempt
  <2> QED BY <1>1, <2>1, <2>2 DEF TypeInv, AttemptsNumbered
<1>3. attempts' = [attempts EXCEPT ![s][c] = Append(row, new)] /\ no \notin DOMAIN row
  BY <1>2 DEF InsertAttempt, AttemptFree
<1>4. no <= Len(row) + 1
  <2>1. Len(row) \in Nat
    BY <1>2
  <2>2. CASE RecordAttempt(q) /\ no = 1
    <3> HIDE DEF row
    <3> QED BY <2>1, <2>2
  <2>3. CASE AppendAttempt(q) /\ no = seen[q].last + 1
    <3>1. seen[q].last <= Len(row) /\ seen[q].last \in Nat
      BY <1>1, <2>3 DEF AppendAttempt, HandOK, TypeOK, Seen
    <3> HIDE DEF row
    <3> QED BY <2>1, <2>3, <3>1
  <2> QED BY <2>2, <2>3
<1>5. /\ Len(row) \in Nat /\ DOMAIN row = 1..Len(row)
      /\ DOMAIN Append(row, new) = 1..(Len(row) + 1)
      /\ \A i \in 1..Len(row) : Append(row, new)[i] = row[i]
      /\ Append(row, new)[Len(row) + 1] = new
  <2> HIDE DEF row, new
  <2> QED BY <1>2, Appended
<1>6. no = Len(row) + 1
  <2> HIDE DEF row
  <2> QED BY <1>3, <1>4, <1>5
<1>7. /\ attempts'[s][c] = Append(row, new)
      /\ \A t \in Slugs, d \in CycleNos : t # s \/ d # c => attempts'[t][d] = attempts[t][d]
  <2> HIDE DEF row, new, s, c
  <2> QED BY <1>1, <1>3 DEF TypeOK
<1>8. \A n \in Nat, j \in Keys :
        ThenAttempted(j, s, c, n) <=> Attempted(j, s, c, n) \/ (j = k /\ n = no)
  <2>1. new.key = k
    OBVIOUS
  <2> DEFINE longer == attempts'[s][c]
  <2>2. DOMAIN longer = 1..(Len(row) + 1) /\ longer[no] = new
        /\ \A i \in 1..Len(row) : longer[i] = row[i]
    BY <1>5, <1>6, <1>7
  <2>3. ASSUME NEW n \in Nat, NEW j \in Keys
        PROVE  n \in DOMAIN longer /\ longer[n].key = j
                 <=> (n \in DOMAIN row /\ row[n].key = j) \/ (j = k /\ n = no)
    <3> HIDE DEF longer, row, new, k
    <3>1. CASE n = no
      BY <1>3, <1>5, <1>6, <2>1, <2>2, <3>1
    <3>2. CASE n # no
      <4>1. n \in DOMAIN longer <=> n \in DOMAIN row
        BY <1>5, <1>6, <2>2, <3>2
      <4> QED BY <1>5, <2>2, <3>2, <4>1
    <3> QED BY <3>1, <3>2
  <2>4. \A n \in Nat, j \in Keys :
          ThenAttempted(j, s, c, n) <=> n \in DOMAIN longer /\ longer[n].key = j
    BY DEF ThenAttempted
  <2> HIDE DEF longer, new, k
  <2> QED BY <2>3, <2>4 DEF Attempted
<1>9. ~ Attempted(k, s, c, no)
  BY <1>3 DEF Attempted
<1>10. ASSUME NEW t \in Slugs, NEW d \in CycleNos, t # s \/ d # c, NEW j \in Keys, NEW n \in Nat
       PROVE  ThenAttempted(j, t, d, n) <=> Attempted(j, t, d, n)
  BY <1>7, <1>10 DEF Attempted, ThenAttempted
<1> HIDE DEF row, new
<1> QED BY <1>1, <1>8, <1>9, <1>10

LEMMA InsertKeepsService ==
  ASSUME ServiceInv, CampaignInv', NEW q \in Requests, NEW no \in Nat \ {0},
         InsertAttempt(q, no),
         \/ RecordAttempt(q) /\ no = 1
         \/ AppendAttempt(q) /\ no = seen[q].last + 1
  PROVE  ServiceInv'
<1> DEFINE s == seen[q].slug
           c == seen[q].cycle
           k == call[q].key
<1>1. /\ k \in Keys /\ s \in Slugs /\ c \in CycleNos /\ UNCHANGED <<request, cycles, lost>>
      /\ \A t \in Slugs, d \in CycleNos, j \in Keys : \A n \in Nat :
           ThenAttempted(j, t, d, n)
             <=> Attempted(j, t, d, n) \/ (j = k /\ t = s /\ d = c /\ n = no)
  BY AttemptMade
<1>2. /\ \A t, d, j, n : Attempted(j, t, d, n)' <=> ThenAttempted(j, t, d, n)
      /\ \A t, d, j : IsCycleOf(t, d, j)' <=> IsCycleOf(t, d, j)
  BY <1>1 DEF Attempted, ThenAttempted, IsCycleOf
<1>3. /\ TypeOK /\ Others(q) /\ KeptAt(k) /\ RunOK(q) /\ OwnedOK(q)
      /\ RecordAttempt(q) => pc[q] = "record_attempt" /\ UNCHANGED seen
      /\ AppendAttempt(q) => pc[q] = "append_attempt"
  <2>1. TypeOK /\ KeptAt(k) /\ RunOK(q) /\ OwnedOK(q)
    BY <1>1 DEF ServiceInv, CampaignInv, TypeInv
  <2>2. Others(q)
    BY OneThreadMoves DEF ServeRequest, ServiceInv, CampaignInv
  <2>3. RecordAttempt(q) => UNCHANGED seen
    BY DEF RecordAttempt, AppendAttempt, RefuseAttempt, InsertAttempt
  <2> QED BY <2>1, <2>2, <2>3 DEF RecordAttempt, AppendAttempt
\* Of the key in hand there was no attempt, or it is mapped and they are all here.
<1>4. /\ RecordAttempt(q) =>
           /\ \A t \in Slugs, d \in CycleNos : \A n \in Nat : ~ Attempted(k, t, d, n)
           /\ no = 1 /\ request[k].status = "RECEIVED" /\ (k \in lost \/ IsCycleOf(s, c, k))
      /\ AppendAttempt(q) =>
           request[k].status = "MAPPED" /\ request[k].at = [slug |-> s, cycle |-> c]
  <2>1. "record_attempt" \in Owned \cap Cycled /\ "append_attempt" \in Reruns
    BY DEF Owned, Cycled, Reruns
  <2>2. RecordAttempt(q) => no = 1
    <3>1. RecordAttempt(q) => ~ AppendAttempt(q)
      BY DEF RecordAttempt, AppendAttempt
    <3> QED BY <3>1
  <2> QED BY <1>3, <2>1, <2>2 DEF RunOK, OwnedOK
<1>5. ASSUME NEW p \in Requests \ {q}, pc[p] \in Counting
      PROVE  call[p].key # k /\ call[p].key \in Keys
  <2>1. pc[p] \in Owned /\ call[p].key \in Keys /\ request[call[p].key].status = "RECEIVED"
    BY <1>5, KeyInHand DEF Owned, Counting
  <2>2. CASE RecordAttempt(q)
    BY <2>1, <2>2 DEF RecordAttempt, Owned, ServiceInv, CampaignInv, OneOwner
  <2>3. CASE AppendAttempt(q)
    BY <1>4, <2>1, <2>3
  <2> QED BY <2>1, <2>2, <2>3
<1> HIDE DEF s, c, k
<1>6. ASSUME NEW j \in Keys PROVE KeptAt(j)'
  <2>1. KeptAt(j)
    BY DEF ServiceInv
  <2>2. CASE j # k
    BY <1>1, <1>2, <2>1, <2>2 DEF KeptAt
  <2>3. CASE j = k /\ RecordAttempt(q)
    <3>1. \A t \in Slugs, d \in CycleNos : \A n \in Nat :
            ThenAttempted(k, t, d, n) <=> t = s /\ d = c /\ n = 1
      BY <1>1, <1>4, <2>3
    <3> QED BY <1>1, <1>2, <1>4, <2>1, <2>3, <3>1 DEF KeptAt
  <2>4. CASE j = k /\ AppendAttempt(q)
    <3>1. request[k].status = "MAPPED" /\ request[k].at = [slug |-> s, cycle |-> c]
      BY <1>4, <2>4
    <3>2. \A t \in Slugs, d \in CycleNos : request[k].at = [slug |-> t, cycle |-> d] => t = s /\ d = c
      BY <3>1
    <3>3. \A t \in Slugs, d \in CycleNos : \A n \in Nat :
            ThenAttempted(k, t, d, n) => t = s /\ d = c
      <4>1. KeptAt(k)
        BY <1>3
      <4>2. \A t \in Slugs, d \in CycleNos : \A n \in Nat : Attempted(k, t, d, n) => t = s /\ d = c
        BY <3>1, <3>2, <4>1 DEF KeptAt
      <4> QED BY <1>1, <4>2
    <3> QED BY <1>1, <1>2, <2>1, <2>4, <3>1, <3>3 DEF KeptAt
  <2> QED BY <2>2, <2>3, <2>4
<1>7. ASSUME NEW p \in Requests \ {q} PROVE RunOK(p)'
  <2>1. RunOK(p)
    BY DEF ServiceInv
  <2>2. ASSUME pc[p] \in Counting, NEW t \in Slugs, NEW d \in CycleNos, NEW n \in Nat
        PROVE  ThenAttempted(call[p].key, t, d, n) <=> Attempted(call[p].key, t, d, n)
    BY <1>1, <1>5, <2>2
  <2>3. pc'[p] = pc[p] /\ call'[p] = call[p] /\ seen'[p] = seen[p]
    BY <1>3 DEF Others
  <2> QED BY <1>1, <1>2, <2>1, <2>2, <2>3 DEF RunOK, Counting
<1>8. RunOK(q)'
  <2>1. CASE pc'[q] = "idle"
    BY <2>1 DEF RunOK, Reruns
  <2>2. CASE RecordAttempt(q) /\ Goto(q, "mark_mapped")
    <3>1. pc'[q] = "mark_mapped" /\ call'[q] = call[q] /\ seen'[q] = seen[q]
      BY <1>3, <2>2, Went
    <3>2. \A t \in Slugs, d \in CycleNos : \A n \in Nat :
            ThenAttempted(call'[q].key, t, d, n)
              => t = seen'[q].slug /\ d = seen'[q].cycle /\ n = 1
      BY <1>1, <1>4, <2>2, <3>1 DEF s, c, k
    <3> QED BY <1>2, <3>1, <3>2 DEF RunOK, Reruns
  <2>3. CASE Finish(q) \/ Refuse(q)
    BY <1>3, <2>1, <2>3, Finished, Refused
  <2> QED BY <2>2, <2>3 DEF RecordAttempt, AppendAttempt, RefuseAttempt
<1> QED BY <1>6, <1>7, <1>8 DEF ServiceInv

\* A request about to be reported as mapped has no attempt but attempt 1, and unless
\* the file was removed has it, in its cycle.
LEMMA OneAttemptAtMapping ==
  ASSUME ServiceInv, NEW q \in Requests, pc[q] = "mark_mapped"
  PROVE  LET k == call[q].key  s == seen[q].slug  c == seen[q].cycle IN
         /\ k \in Keys /\ request[k].status = "RECEIVED"
         /\ s \in Slugs /\ c \in CycleNos
         /\ k \in lost \/ (IsCycleOf(s, c, k) /\ Attempted(k, s, c, 1))
         /\ \A t \in Slugs, d \in CycleNos : IsCycleOf(t, d, k) => t = s /\ d = c
         /\ \A t \in Slugs, d \in CycleNos : \A n \in Nat :
              Attempted(k, t, d, n) => t = s /\ d = c /\ n = 1
<1> DEFINE k == call[q].key
           s == seen[q].slug
           c == seen[q].cycle
<1>1. /\ k \in Keys /\ request[k].status = "RECEIVED" /\ s \in Slugs /\ c \in CycleNos
      /\ OwnedOK(q) /\ TypeOK /\ RunOK(q)
  BY KeyInHand DEF Owned, ServiceInv, CampaignInv, TypeInv, HandOK, Placed, Homed, Cycled
<1>2. \/ k \in lost
      \/ /\ IsCycleOf(s, c, k) /\ Len(attempts[s][c]) > 0
         /\ attempts[s][c][1] = [key |-> k, no |-> 1]
  BY <1>1 DEF OwnedOK, Owned, Cycled
<1>3. k \notin lost => Attempted(k, s, c, 1)
  <2> SUFFICES ASSUME k \notin lost PROVE Attempted(k, s, c, 1)
    OBVIOUS
  <2> DEFINE row == attempts[s][c]
  <2>1. row \in Seq(Attempt) /\ Len(row) > 0
    BY <1>1, <1>2 DEF TypeOK
  <2>2. 1 \in DOMAIN row
    <3> HIDE DEF row
    <3> QED BY <2>1
  <2> QED BY <1>2, <2>2 DEF Attempted
<1>4. \A t \in Slugs, d \in CycleNos : IsCycleOf(t, d, k) => t = s /\ d = c
  <2>1. CASE k \in lost
    BY <1>1, <2>1 DEF ServiceInv, CampaignInv, UnknownHasNoCycle
  <2>2. CASE k \notin lost
    BY <1>1, <1>2, <2>2 DEF ServiceInv, CampaignInv, OneCampaignPerRequest
  <2> QED BY <2>1, <2>2
<1>5. \A t \in Slugs, d \in CycleNos : \A n \in Nat :
        Attempted(k, t, d, n) => t = s /\ d = c /\ n = 1
  BY <1>1 DEF RunOK
<1> HIDE DEF k, s, c
<1> QED BY <1>1, <1>2, <1>3, <1>4, <1>5 DEF k, s, c

LEMMA MarkMappedKeepsService ==
  ASSUME ServiceInv, CampaignInv', NEW q \in Requests, MarkMapped(q)
  PROVE  ServiceInv'
<1> DEFINE k == call[q].key
<1>1. /\ TypeInv /\ TypeOK /\ pc[q] = "mark_mapped" /\ Finish(q)
      /\ UNCHANGED <<cycles, attempts, lost>>
  BY DEF ServiceInv, CampaignInv, TypeInv, MarkMapped, files, deletion
<1>2. /\ k \in Keys /\ request[k].status = "RECEIVED"
      /\ request'[k].status = "MAPPED"
      /\ request'[k].at = [slug |-> seen[q].slug, cycle |-> seen[q].cycle]
      /\ \A j \in Keys : j # k => request'[j] = request[j]
  BY <1>1, OneAttemptAtMapping, Marked
<1>3. /\ k \in lost \/ IsCycleOf(seen[q].slug, seen[q].cycle, k)
      /\ seen[q].slug \in Slugs /\ seen[q].cycle \in CycleNos
      /\ \A t \in Slugs, d \in CycleNos :
           IsCycleOf(t, d, k) => t = seen[q].slug /\ d = seen[q].cycle
      /\ \A t \in Slugs, d \in CycleNos : \A n \in Nat :
           Attempted(k, t, d, n) => t = seen[q].slug /\ d = seen[q].cycle
  BY <1>1, OneAttemptAtMapping
<1>4. \A s, c, j, n : (Attempted(j, s, c, n)' <=> Attempted(j, s, c, n))
                      /\ (IsCycleOf(s, c, j)' <=> IsCycleOf(s, c, j))
  BY <1>1 DEF Attempted, IsCycleOf
<1>5. Others(q) /\ pc'[q] = "idle"
  BY <1>1, Finished
<1> HIDE DEF k
<1>6. ASSUME NEW j \in Keys PROVE KeptAt(j)'
  <2>1. CASE j = k
    <3>1. \A t \in Slugs, d \in CycleNos :
            t = seen[q].slug /\ d = seen[q].cycle => request'[k].at = [slug |-> t, cycle |-> d]
      BY <1>2
    <3>2. request'[k].status = "MAPPED" /\ lost' = lost
      BY <1>1, <1>2
    <3>3. /\ j \in lost' \/ \E t \in Slugs, d \in CycleNos : IsCycleOf(t, d, j)'
          /\ \A t \in Slugs, d \in CycleNos :
               IsCycleOf(t, d, j)' => request'[j].at = [slug |-> t, cycle |-> d]
      BY <1>3, <1>4, <2>1, <3>1, <3>2
    <3>4. \A t \in Slugs, d \in CycleNos : \A n \in Nat :
            Attempted(j, t, d, n)' => request'[j].at = [slug |-> t, cycle |-> d]
      BY <1>3, <1>4, <2>1, <3>1
    <3>5. \A t, u \in Slugs, c, d \in CycleNos : \A m, n \in Nat :
            Attempted(j, t, c, m)' /\ Attempted(j, u, d, n)' => t = u /\ c = d
      BY <1>3, <1>4, <2>1
    <3> QED BY ONLY <2>1, <3>2, <3>3, <3>4, <3>5 DEF KeptAt
  <2>2. CASE j # k
    BY <1>1, <1>2, <1>4, <2>2 DEF ServiceInv, KeptAt
  <2> QED BY <2>1, <2>2
<1>7. ASSUME NEW p \in Requests \ {q} PROVE RunOK(p)'
  <2>1. pc[p] \in Reruns => request'[call[p].key] = request[call[p].key]
    BY <1>2, KeyInHand
  <2> QED BY <1>4, <1>5, <2>1 DEF ServiceInv, RunOK, Others
<1>8. RunOK(q)'
  BY <1>5 DEF RunOK, Reruns
<1> QED BY <1>6, <1>7, <1>8 DEF ServiceInv

LEMMA RemoveFileKeepsService ==
  ASSUME ServiceInv, CampaignInv', NEW s \in Slugs, RemoveFile(s)
  PROVE  ServiceInv'
<1>1. TypeOK
  BY DEF ServiceInv, CampaignInv, TypeInv
<1>2. /\ request' = request
      /\ \A q \in Requests :
           pc'[q] = "idle" \/ (pc'[q] = pc[q] /\ call'[q] = call[q] /\ seen'[q] = seen[q])
      /\ \A t \in Slugs, c \in CycleNos, k \in Keys :
           IsThenCycleOf(t, c, k) <=> t # s /\ IsCycleOf(t, c, k)
      /\ \A t \in Slugs, c \in CycleNos, k \in Keys : \A n \in Nat :
           ThenAttempted(k, t, c, n) <=> t # s /\ Attempted(k, t, c, n)
      /\ \A k \in Keys : k \in lost' <=> k \in lost \/ \E c \in CycleNos : IsCycleOf(s, c, k)
  BY <1>1, FileRemoved, RowsRemoved DEF master
<1>3. /\ \A t, d, j, n : Attempted(j, t, d, n)' <=> ThenAttempted(j, t, d, n)
      /\ \A t, d, j : IsCycleOf(t, d, j)' <=> IsThenCycleOf(t, d, j)
  BY DEF Attempted, ThenAttempted, IsCycleOf, IsThenCycleOf
<1>4. ASSUME NEW k \in Keys PROVE KeptAt(k)'
  <2>1. KeptAt(k)
    BY DEF ServiceInv
  <2>2. \A t \in Slugs, c \in CycleNos :
          IsCycleOf(t, c, k) => k \in lost' \/ IsThenCycleOf(t, c, k)
    BY <1>2
  <2>3. k \in lost => k \in lost'
    BY <1>2
  <2> QED BY <1>2, <1>3, <2>1, <2>2, <2>3 DEF KeptAt
<1>5. ASSUME NEW q \in Requests PROVE RunOK(q)'
  <2>1. CASE pc'[q] = "idle"
    BY <2>1 DEF RunOK, Reruns
  <2>2. CASE pc'[q] = pc[q] /\ call'[q] = call[q] /\ seen'[q] = seen[q]
    <3>1. pc[q] \in Counting => call[q].key \in Keys
      BY KeyInHand DEF Owned, Counting
    <3>2. RunOK(q)
      BY DEF ServiceInv
    <3> QED BY <1>2, <1>3, <2>2, <3>1, <3>2 DEF RunOK, Counting
  <2> QED BY <1>2, <2>1, <2>2
<1> QED BY <1>4, <1>5 DEF ServiceInv

LEMMA SurroundingsKeepService ==
  ASSUME ServiceInv, CampaignInv',
         \/ \E s \in Slugs : Publish(s) \/ DeleteProject(s)
         \/ Crash
         \/ UNCHANGED vars
  PROVE  ServiceInv'
<1>1. UNCHANGED <<request, cycles, attempts, lost>>
  BY DEF Publish, DeleteProject, Crash, vars, master, files, deletion
<1>2. \A s, c, j, n : (Attempted(j, s, c, n)' <=> Attempted(j, s, c, n))
                      /\ (IsCycleOf(s, c, j)' <=> IsCycleOf(s, c, j))
  BY <1>1 DEF Attempted, IsCycleOf
<1>3. \A k \in Keys : KeptAt(k)'
  BY <1>1, <1>2 DEF ServiceInv, KeptAt
<1>4. CASE Crash
  <2>1. \A q \in Requests : pc'[q] = "idle"
    BY <1>4 DEF Crash
  <2> QED BY <1>3, <2>1 DEF ServiceInv, RunOK, Reruns
<1>5. CASE UNCHANGED threads
  BY <1>1, <1>2, <1>3, <1>5 DEF ServiceInv, threads, RunOK
<1> QED BY <1>4, <1>5 DEF Publish, DeleteProject, Crash, vars

LEMMA ServiceInvNext == ServiceInv /\ [Next]_vars => ServiceInv'
<1> SUFFICES ASSUME ServiceInv, [Next]_vars PROVE ServiceInv'
  OBVIOUS
<1>1. CampaignInv'
  BY CampaignInvNext DEF ServiceInv
<1>2. ASSUME NEW q \in Requests,
             BeginIntake(q) \/ BeginRerun(q) \/ ServeRequest(q) \/ Fail(q)
      PROVE  ServiceInv'
  <2>1. CASE Register(q) /\ KeyFree(call[q].key)
    BY <1>1, <2>1, RegisterKeepsService
  <2>2. CASE CreateCycle(q)
    BY <1>1, <2>2, CreateCycleKeepsService
  <2>3. CASE MarkMapped(q)
    BY <1>1, <2>3, MarkMappedKeepsService
  <2>4. CASE RecordAttempt(q) /\ InsertAttempt(q, 1)
    BY <1>1, <2>4, InsertKeepsService
  <2>5. CASE AppendAttempt(q) /\ InsertAttempt(q, seen[q].last + 1)
    <3>1. seen[q].last + 1 \in Nat \ {0}
      <4>1. seen[q].last \in Nat
        BY DEF ServiceInv, CampaignInv, TypeInv, TypeOK, Seen
      <4> QED BY <4>1
    <3> QED BY <1>1, <2>5, <3>1, InsertKeepsService
  <2>6. CASE /\ ~ (Register(q) /\ KeyFree(call[q].key)) /\ ~ CreateCycle(q) /\ ~ MarkMapped(q)
             /\ ~ (RecordAttempt(q) /\ InsertAttempt(q, 1))
             /\ ~ (AppendAttempt(q) /\ InsertAttempt(q, seen[q].last + 1))
    <3>1. UNCHANGED <<request, cycles, attempts, lost>>
      BY <1>2, <2>6 DEF BeginIntake, BeginRerun, ServeRequest, Register, FindLink, ChooseSlug,
         CreateProject, LinkProject, ReloadProject, FindRevision, FindAttempt, RecordAttempt,
         RefuseAttempt, ReadLast, AppendAttempt, Fail, vars, master, files, deletion
    <3> QED BY <1>1, <1>2, <3>1, RowsAloneKeepService
  <2> QED BY <2>1, <2>2, <2>3, <2>4, <2>5, <2>6
<1> QED BY <1>1, <1>2, RemoveFileKeepsService, SurroundingsKeepService DEF Next

LEMMA ServiceInvariant == Spec => []ServiceInv
BY InitServiceInv, ServiceInvNext, PTL DEF Spec

\* The numbers of the attempts made for a request: RunsOf counts them.
NumbersOf(k) == {n \in Nat : \E s \in Slugs, c \in CycleNos : Attempted(k, s, c, n)}

LEMMA NumbersAreFinite ==
  ASSUME TypeOK, NEW k \in Keys, KeptAt(k)
  PROVE  IsFiniteSet(NumbersOf(k)) /\ RunsOf(k) = Cardinality(NumbersOf(k)) /\ RunsOf(k) \in Nat
<1>1. \A s \in Slugs, c \in CycleNos :
        Len(attempts[s][c]) \in Nat /\ DOMAIN attempts[s][c] = 1..Len(attempts[s][c])
  BY DEF TypeOK
<1>2. RunsOf(k) = Cardinality(NumbersOf(k))
  <2> DEFINE Here(s, c) == {n \in DOMAIN attempts[s][c] : attempts[s][c][n].key = k}
             U == UNION {Here(s, c) : s \in Slugs, c \in CycleNos}
  <2>1. \A s \in Slugs, c \in CycleNos : \A n :
          n \in Here(s, c) <=> n \in Nat /\ Attempted(k, s, c, n)
    BY <1>1 DEF Attempted
  <2>2. RunsOf(k) = Cardinality(U)
    BY DEF RunsOf
  <2> HIDE DEF Here
  <2>3. \A n : n \in U <=> \E s \in Slugs, c \in CycleNos : n \in Here(s, c)
    OBVIOUS
  <2> HIDE DEF U
  <2>4. \A n : n \in U <=> n \in NumbersOf(k)
    BY <2>1, <2>3 DEF NumbersOf
  <2> QED BY <2>2, <2>4
<1>3. IsFiniteSet(NumbersOf(k))
  <2>1. CASE \E s \in Slugs, c \in CycleNos : \E n \in Nat : Attempted(k, s, c, n)
    <3>1. PICK s \in Slugs, c \in CycleNos : \E n \in Nat : Attempted(k, s, c, n)
      BY <2>1
    <3>2. \A t \in Slugs, d \in CycleNos : \A n \in Nat : Attempted(k, t, d, n) => t = s /\ d = c
      BY <3>1 DEF KeptAt
    <3>3. NumbersOf(k) \subseteq 1..Len(attempts[s][c])
      BY <1>1, <3>2 DEF NumbersOf, Attempted
    <3>4. IsFiniteSet(1..Len(attempts[s][c]))
      BY <1>1, FS_Interval
    <3> QED BY <3>3, <3>4, FS_Subset
  <2>2. CASE ~ \E s \in Slugs, c \in CycleNos : \E n \in Nat : Attempted(k, s, c, n)
    <3>1. NumbersOf(k) = {}
      BY <2>2 DEF NumbersOf
    <3> QED BY <3>1, FS_EmptySet
  <2> QED BY <2>1, <2>2
<1> QED BY <1>2, <1>3, FS_CardinalityType

LEMMA NumbersAfter ==
  ASSUME TypeOK', NEW k \in Keys
  PROVE  RunsOf(k)' = Cardinality({n \in Nat : \E s \in Slugs, c \in CycleNos : ThenAttempted(k, s, c, n)})
<1>1. \A s \in Slugs, c \in CycleNos : DOMAIN attempts'[s][c] = 1..Len(attempts'[s][c])
                                      /\ Len(attempts'[s][c]) \in Nat
  BY DEF TypeOK
<1> DEFINE Here(s, c) == {n \in DOMAIN attempts'[s][c] : attempts'[s][c][n].key = k}
           U == UNION {Here(s, c) : s \in Slugs, c \in CycleNos}
           V == {n \in Nat : \E s \in Slugs, c \in CycleNos : ThenAttempted(k, s, c, n)}
<1>2. \A s \in Slugs, c \in CycleNos : \A n :
        n \in Here(s, c) <=> n \in Nat /\ ThenAttempted(k, s, c, n)
  BY <1>1 DEF ThenAttempted
<1>3. RunsOf(k)' = Cardinality(U)
  BY DEF RunsOf
<1> HIDE DEF Here
<1>4. \A n : n \in U <=> \E s \in Slugs, c \in CycleNos : n \in Here(s, c)
  OBVIOUS
<1> HIDE DEF U
<1>5. \A n : n \in U <=> n \in V
  BY <1>2, <1>4
<1> HIDE DEF V
<1>6. U = V
  BY <1>5
<1> QED BY <1>3, <1>6 DEF V

LEMMA NoNumbers ==
  ASSUME TypeOK, NEW k \in Keys, KeptAt(k),
         \A s \in Slugs, c \in CycleNos : \A n \in Nat : ~ Attempted(k, s, c, n)
  PROVE  RunsOf(k) = 0
<1>1. NumbersOf(k) = {}
  BY DEF NumbersOf
<1> QED BY <1>1, NumbersAreFinite, FS_EmptySet

\* A step shows of the requests only what it does to these four.
LEMMA ShownAlike ==
  ASSUME UNCHANGED <<request, cycles, attempts, lost>>
  PROVE  UNCHANGED Service!serviceVars
<1>1. \A k \in Keys : /\ StageOf(k)' = StageOf(k)
                      /\ CampaignOf(k)' = CampaignOf(k)
                      /\ RunsOf(k)' = RunsOf(k)
  BY DEF StageOf, CampaignOf, IsCycleOf, RunsOf
<1> QED BY <1>1 DEF Service!serviceVars

LEMMA InitIsService == Init => Service!ServiceInit
<1> SUFFICES ASSUME Init PROVE Service!ServiceInit
  OBVIOUS
<1>1. \A k \in Keys : StageOf(k) = "unknown"
  BY DEF Init, StageOf
<1>2. \A k \in Keys : CampaignOf(k) = "none"
  <2>1. Len(<<>>) = 0 /\ \A c \in CycleNos : ~ (c <= 0)
    BY Bounds DEF CycleNos
  <2> QED BY <2>1 DEF Init, CampaignOf, IsCycleOf
<1>3. \A k \in Keys : RunsOf(k) = 0
  <2>1. TypeOK /\ \A k \in Keys : KeptAt(k)
    BY InitServiceInv DEF ServiceInv, CampaignInv, TypeInv
  <2>2. \A k \in Keys, s \in Slugs, c \in CycleNos : \A n \in Nat : ~ Attempted(k, s, c, n)
    BY DEF Init, Attempted
  <2> QED BY <2>1, <2>2, NoNumbers
<1> QED BY <1>1, <1>2, <1>3 DEF Service!ServiceInit

LEMMA RegisterReceives ==
  ASSUME ServiceInv, NEW q \in Requests, Register(q), KeyFree(call[q].key)
  PROVE  Service!Receive(call[q].key) /\ call[q].key \in Keys
<1> DEFINE k == call[q].key
           row == [id |-> call[q].id, wp |-> call[q].wp, tenant |-> call[q].tenant,
                   status |-> "RECEIVED", at |-> Unmapped]
<1>1. /\ TypeOK /\ k \in Keys /\ request[k] = NoRequest
      /\ request' = [request EXCEPT ![k] = row] /\ UNCHANGED <<files, lost>>
  BY DEF ServiceInv, CampaignInv, TypeInv, Register, KeyFree, HandOK, Calls, deletion
<1>2. row # NoRequest /\ row.status = "RECEIVED"
  BY DEF NoRequest, None
<1> HIDE DEF k, row
<1>3. /\ request'[k] = row /\ \A j \in Keys : j # k => request'[j] = request[j]
  BY <1>1 DEF TypeOK
<1>4. StageOf(k) = "unknown" /\ \A j \in Keys :
        StageOf(j)' = IF j = k THEN "RECEIVED" ELSE StageOf(j)
  BY <1>1, <1>2, <1>3 DEF StageOf
<1>5. \A j \in Keys : CampaignOf(j)' = CampaignOf(j) /\ RunsOf(j)' = RunsOf(j)
  BY <1>1 DEF files, CampaignOf, IsCycleOf, RunsOf
<1> QED BY <1>1, <1>4, <1>5 DEF Service!Receive, k

LEMMA CreateCycleStarts ==
  ASSUME ServiceInv, NEW q \in Requests, CreateCycle(q)
  PROVE  Service!StartCampaign(call[q].key) /\ call[q].key \in Keys
<1> DEFINE k == call[q].key
<1>1. /\ k \in Keys /\ request[k].status = "RECEIVED" /\ UNCHANGED <<request, attempts, lost>>
      /\ k \notin lost /\ \A t \in Slugs, c \in CycleNos : ~ IsCycleOf(t, c, k)
      /\ KeptAt(k) /\ TypeOK
  BY CycleCreated DEF ServiceInv, CampaignInv, TypeInv
<1>2. PICK s \in Slugs, n \in CycleNos :
        \A t \in Slugs, c \in CycleNos, j \in Keys :
          IsThenCycleOf(t, c, j) <=> IsCycleOf(t, c, j) \/ (t = s /\ c = n /\ j = k)
  BY CycleCreated
<1> HIDE DEF k
<1>3. StageOf(k) = "RECEIVED" /\ \A j \in Keys : StageOf(j)' = StageOf(j) /\ RunsOf(j)' = RunsOf(j)
  <2>1. request[k] # NoRequest
    BY <1>1 DEF NoRequest, None
  <2> QED BY <1>1, <2>1 DEF StageOf, RunsOf
<1>4. RunsOf(k) = 0
  BY <1>1, NoneWithoutCycle, NoNumbers
<1>5. CampaignOf(k) = "none"
  BY <1>1 DEF CampaignOf
<1>6. ASSUME NEW j \in Keys PROVE CampaignOf(j)' = IF j = k THEN "running" ELSE CampaignOf(j)
  <2> DEFINE Then == \E t \in Slugs, c \in CycleNos : IsThenCycleOf(t, c, j)
             Now  == \E t \in Slugs, c \in CycleNos : IsCycleOf(t, c, j)
  <2>1. /\ CampaignOf(j)' = IF j \in lost THEN "lost" ELSE IF Then THEN "running" ELSE "none"
        /\ CampaignOf(j) = IF j \in lost THEN "lost" ELSE IF Now THEN "running" ELSE "none"
    BY <1>1 DEF CampaignOf, IsCycleOf, IsThenCycleOf
  <2>2. CASE j = k
    <3>1. Then /\ j \notin lost
      BY <1>1, <1>2, <2>2
    <3> HIDE DEF Then, Now
    <3> QED BY <2>1, <2>2, <3>1
  <2>3. CASE j # k
    <3>1. Then <=> Now
      BY <1>2, <2>3
    <3> HIDE DEF Then, Now
    <3> QED BY <2>1, <2>3, <3>1
  <2> QED BY <2>2, <2>3
<1> QED BY <1>1, <1>3, <1>4, <1>5, <1>6 DEF Service!StartCampaign, k

\* What an insert shows: one run more.
LEMMA InsertCounts ==
  ASSUME ServiceInv, TypeOK', NEW q \in Requests, NEW no \in Nat \ {0}, InsertAttempt(q, no),
         \/ RecordAttempt(q) /\ no = 1
         \/ AppendAttempt(q) /\ no = seen[q].last + 1
  PROVE  /\ \A j \in Keys : StageOf(j)' = StageOf(j) /\ CampaignOf(j)' = CampaignOf(j)
         /\ \A j \in Keys : RunsOf(j)' = IF j = call[q].key THEN RunsOf(j) + 1 ELSE RunsOf(j)
<1> DEFINE k == call[q].key
           s == seen[q].slug
           c == seen[q].cycle
           Numbers(j) == {n \in Nat : \E t \in Slugs, d \in CycleNos : ThenAttempted(j, t, d, n)}
<1>1. /\ k \in Keys /\ s \in Slugs /\ c \in CycleNos /\ UNCHANGED <<request, cycles, lost>>
      /\ ~ Attempted(k, s, c, no)
      /\ \A t \in Slugs, d \in CycleNos, j \in Keys : \A n \in Nat :
           ThenAttempted(j, t, d, n)
             <=> Attempted(j, t, d, n) \/ (j = k /\ t = s /\ d = c /\ n = no)
  BY AttemptMade
<1>2. \A j \in Keys : StageOf(j)' = StageOf(j) /\ CampaignOf(j)' = CampaignOf(j)
  BY <1>1 DEF StageOf, CampaignOf, IsCycleOf
<1>3. no \notin NumbersOf(k)
  <2> SUFFICES ASSUME NEW t \in Slugs, NEW d \in CycleNos, Attempted(k, t, d, no)
               PROVE  t = s /\ d = c
    BY <1>1 DEF NumbersOf
  <2>1. KeptAt(k) /\ RunOK(q)
    BY <1>1 DEF ServiceInv
  <2>2. CASE RecordAttempt(q)
    BY <1>1, <2>1, <2>2 DEF RecordAttempt, RunOK
  <2>3. CASE AppendAttempt(q)
    <3>1. request[k].status = "MAPPED" /\ request[k].at = [slug |-> s, cycle |-> c]
      BY <2>1, <2>3 DEF AppendAttempt, RunOK, Reruns
    <3>2. request[k].at = [slug |-> t, cycle |-> d]
      BY <2>1, <3>1 DEF KeptAt
    <3> HIDE DEF k, s, c
    <3> QED BY <3>1, <3>2
  <2> QED BY <2>2, <2>3
<1>4. \A j \in Keys : RunsOf(j)' = Cardinality(Numbers(j))
  BY NumbersAfter
<1> HIDE DEF k, s, c
<1>5. \A j \in Keys : j # k => Numbers(j) = NumbersOf(j)
  BY <1>1 DEF NumbersOf
<1>6. Numbers(k) = NumbersOf(k) \cup {no}
  BY <1>1 DEF NumbersOf
<1> HIDE DEF Numbers
<1>7. \A j \in Keys : IsFiniteSet(NumbersOf(j)) /\ RunsOf(j) = Cardinality(NumbersOf(j))
  BY NumbersAreFinite DEF ServiceInv, CampaignInv, TypeInv
<1>8. ASSUME NEW j \in Keys, j = k PROVE RunsOf(j)' = RunsOf(j) + 1
  <2>1. IsFiniteSet(NumbersOf(j)) /\ RunsOf(j) = Cardinality(NumbersOf(j))
        /\ RunsOf(j)' = Cardinality(NumbersOf(j) \cup {no}) /\ no \notin NumbersOf(j)
    BY <1>3, <1>4, <1>6, <1>7, <1>8
  <2>2. Cardinality(NumbersOf(j) \cup {no}) = Cardinality(NumbersOf(j)) + 1
    BY <2>1, FS_AddElement
  <2> QED BY <2>1, <2>2
<1>9. ASSUME NEW j \in Keys, j # k PROVE RunsOf(j)' = RunsOf(j)
  <2>1. Numbers(j) = NumbersOf(j)
    BY <1>5, <1>9
  <2> QED BY <1>4, <1>7, <2>1
<1>10. \A j \in Keys : RunsOf(j)' = IF j = k THEN RunsOf(j) + 1 ELSE RunsOf(j)
  BY <1>8, <1>9
<1> QED BY <1>2, <1>10 DEF k

LEMMA RecordIsFirstRun ==
  ASSUME ServiceInv, TypeOK', NEW q \in Requests, RecordAttempt(q), InsertAttempt(q, 1)
  PROVE  Service!FirstRun(call[q].key) /\ call[q].key \in Keys
<1> DEFINE k == call[q].key
           no == 1
<1>1. /\ k \in Keys /\ request[k].status = "RECEIVED" /\ OwnedOK(q) /\ RunOK(q) /\ HandOK(q)
      /\ TypeOK /\ KeptAt(k)
  BY KeyInHand DEF RecordAttempt, Owned, ServiceInv, CampaignInv, TypeInv
<1>2. StageOf(k) = "RECEIVED"
  BY <1>1 DEF StageOf, NoRequest, None
<1>3. CampaignOf(k) # "none"
  BY <1>1 DEF CampaignOf, OwnedOK, Owned, Cycled, RecordAttempt, HandOK, Placed, Homed
<1>4. RunsOf(k) = 0
  BY <1>1, NoNumbers DEF RunOK, RecordAttempt
<1>5. no \in Nat \ {0} /\ no = 1 /\ InsertAttempt(q, no)
  OBVIOUS
<1> HIDE DEF no
<1>6. /\ \A j \in Keys : StageOf(j)' = StageOf(j) /\ CampaignOf(j)' = CampaignOf(j)
      /\ \A j \in Keys : RunsOf(j)' = IF j = k THEN RunsOf(j) + 1 ELSE RunsOf(j)
  BY <1>5, InsertCounts
<1> HIDE DEF k
<1>7. \A j \in Keys : RunsOf(j)' = IF j = k THEN 1 ELSE RunsOf(j)
  BY <1>4, <1>6
<1> QED BY <1>1, <1>2, <1>3, <1>4, <1>6, <1>7 DEF Service!FirstRun, k

LEMMA AppendRunsAgain ==
  ASSUME ServiceInv, TypeOK', NEW q \in Requests, AppendAttempt(q),
         InsertAttempt(q, seen[q].last + 1)
  PROVE  Service!RunAgain(call[q].key) /\ call[q].key \in Keys
<1> DEFINE k == call[q].key
           no == seen[q].last + 1
<1>1. k \in Keys /\ request[k].status = "MAPPED"
  BY KeyInHand DEF AppendAttempt, Reruns
<1>2. StageOf(k) = "MAPPED"
  BY <1>1 DEF StageOf, NoRequest, None
<1>3. no \in Nat \ {0}
  <2>1. seen[q].last \in Nat
    BY DEF ServiceInv, CampaignInv, TypeInv, TypeOK, Seen
  <2> QED BY <2>1
<1>4. InsertAttempt(q, no) /\ no = seen[q].last + 1
  OBVIOUS
<1> HIDE DEF no
<1>5. /\ \A j \in Keys : StageOf(j)' = StageOf(j) /\ CampaignOf(j)' = CampaignOf(j)
      /\ \A j \in Keys : RunsOf(j)' = IF j = k THEN RunsOf(j) + 1 ELSE RunsOf(j)
  BY <1>3, <1>4, InsertCounts
<1> HIDE DEF k
<1> QED BY <1>1, <1>2, <1>5 DEF Service!RunAgain, k

LEMMA MarkMappedReports ==
  ASSUME ServiceInv, NEW q \in Requests, MarkMapped(q)
  PROVE  Service!ReportMapped(call[q].key) /\ call[q].key \in Keys
<1> DEFINE k == call[q].key
           s == seen[q].slug
           c == seen[q].cycle
<1>1. TypeInv /\ TypeOK /\ pc[q] = "mark_mapped" /\ UNCHANGED <<cycles, attempts, lost>>
  BY DEF ServiceInv, CampaignInv, TypeInv, MarkMapped, files, deletion
<1>2. /\ k \in Keys /\ request[k].status = "RECEIVED"
      /\ s \in Slugs /\ c \in CycleNos /\ (k \in lost \/ (IsCycleOf(s, c, k) /\ Attempted(k, s, c, 1)))
      /\ \A t \in Slugs, d \in CycleNos : \A n \in Nat : Attempted(k, t, d, n) => n = 1
      /\ KeptAt(k)
  BY <1>1, OneAttemptAtMapping DEF ServiceInv
<1>3. request'[k].status = "MAPPED" /\ \A j \in Keys : j # k => request'[j] = request[j]
  BY <1>1, Marked
<1> HIDE DEF k, s, c
<1>4. StageOf(k) = "RECEIVED" /\ \A j \in Keys :
        StageOf(j)' = IF j = k THEN "MAPPED" ELSE StageOf(j)
  BY <1>2, <1>3 DEF StageOf, NoRequest, None
<1>5. \A j \in Keys : CampaignOf(j)' = CampaignOf(j) /\ RunsOf(j)' = RunsOf(j)
  BY <1>1 DEF CampaignOf, IsCycleOf, RunsOf
<1>6. CampaignOf(k) # "none"
  BY <1>2 DEF CampaignOf
<1>7. CampaignOf(k) = "running" => RunsOf(k) = 1
  <2> SUFFICES ASSUME k \notin lost PROVE RunsOf(k) = 1
    BY DEF CampaignOf
  <2>1. NumbersOf(k) = {1}
    BY <1>2 DEF NumbersOf
  <2>2. Cardinality({1}) = 1
    BY FS_Singleton
  <2> QED BY <1>1, <1>2, <2>1, <2>2, NumbersAreFinite
<1> QED BY <1>2, <1>4, <1>5, <1>6, <1>7 DEF Service!ReportMapped, k

\* The removal of a file discards the requests with a cycle or attempts in it: those
\* of one request are in one file.
LEMMA RemovalDiscards ==
  ASSUME ServiceInv, TypeOK', NEW s \in Slugs, RemoveFile(s)
  PROVE  Service!Discard
<1> DEFINE K == {k \in Keys : \E c \in CycleNos :
                   IsCycleOf(s, c, k) \/ \E n \in Nat : Attempted(k, s, c, n)}
<1>1. TypeOK
  BY DEF ServiceInv, CampaignInv, TypeInv
<1>2. /\ request' = request
      /\ \A t \in Slugs, c \in CycleNos, k \in Keys :
           IsThenCycleOf(t, c, k) <=> t # s /\ IsCycleOf(t, c, k)
      /\ \A t \in Slugs, c \in CycleNos, k \in Keys : \A n \in Nat :
           ThenAttempted(k, t, c, n) <=> t # s /\ Attempted(k, t, c, n)
      /\ \A k \in Keys : k \in lost' <=> k \in lost \/ \E c \in CycleNos : IsCycleOf(s, c, k)
  BY <1>1, FileRemoved, RowsRemoved DEF master
<1>3. \A k \in Keys : StageOf(k)' = StageOf(k)
  BY <1>2 DEF StageOf
\* A request with an attempt in this file and a campaign has its cycle here too.
<1>4. ASSUME NEW k \in K
      PROVE  /\ k \in lost \/ \E c \in CycleNos : IsCycleOf(s, c, k)
             /\ \A t \in Slugs, c \in CycleNos : \A n \in Nat : Attempted(k, t, c, n) => t = s
  <2>1. KeptAt(k)
    BY DEF ServiceInv
  <2>2. PICK c \in CycleNos : IsCycleOf(s, c, k) \/ \E n \in Nat : Attempted(k, s, c, n)
    OBVIOUS
  <2>3. CASE request[k].status = "MAPPED"
    <3>1. request[k].at = [slug |-> s, cycle |-> c]
      BY <2>1, <2>2, <2>3 DEF KeptAt
    <3>2. \A t \in Slugs, d \in CycleNos :
            request[k].at = [slug |-> t, cycle |-> d] => t = s /\ d = c
      BY <3>1
    <3>3. k \in lost \/ \E t \in Slugs, d \in CycleNos : IsCycleOf(t, d, k)
      BY <2>1, <2>3 DEF KeptAt
    <3>4. \A t \in Slugs, d \in CycleNos : IsCycleOf(t, d, k) => t = s /\ d = c
      BY <2>1, <2>3, <3>2 DEF KeptAt
    <3>5. \A t \in Slugs, d \in CycleNos : \A n \in Nat : Attempted(k, t, d, n) => t = s
      BY <2>1, <2>3, <3>2 DEF KeptAt
    <3> QED BY <3>3, <3>4, <3>5
  <2>4. CASE request[k].status # "MAPPED"
    <3>1. \A t \in Slugs, d \in CycleNos : \A n \in Nat :
            Attempted(k, t, d, n) => k \in lost \/ IsCycleOf(t, d, k)
      BY <2>1, <2>4 DEF KeptAt
    <3>2. k \in lost \/ \E d \in CycleNos : IsCycleOf(s, d, k)
      BY <2>2, <3>1
    <3>3. k \in lost => \A t \in Slugs, d \in CycleNos : ~ IsCycleOf(t, d, k)
      BY DEF ServiceInv, CampaignInv, UnknownHasNoCycle
    <3>4. \A t \in Slugs, d \in CycleNos : \A n \in Nat : Attempted(k, t, d, n) => t = s
      <4>1. CASE \E n \in Nat : Attempted(k, s, c, n)
        BY <2>1, <4>1 DEF KeptAt
      <4>2. CASE IsCycleOf(s, c, k)
        BY <3>1, <3>3, <4>2 DEF ServiceInv, CampaignInv, OneCampaignPerRequest
      <4> QED BY <2>2, <4>1, <4>2
    <3> QED BY <3>2, <3>4
  <2> QED BY <2>3, <2>4
<1>5. ASSUME NEW k \in Keys
      PROVE  /\ CampaignOf(k)' = IF k \in K THEN "lost" ELSE CampaignOf(k)
             /\ k \in K => CampaignOf(k) # "none"
  <2> DEFINE Then == \E t \in Slugs, c \in CycleNos : IsThenCycleOf(t, c, k)
             Now  == \E t \in Slugs, c \in CycleNos : IsCycleOf(t, c, k)
  <2>1. /\ CampaignOf(k)' = IF k \in lost' THEN "lost" ELSE IF Then THEN "running" ELSE "none"
        /\ CampaignOf(k) = IF k \in lost THEN "lost" ELSE IF Now THEN "running" ELSE "none"
    BY DEF CampaignOf, IsCycleOf, IsThenCycleOf
  <2>2. CASE k \in K
    <3>1. k \in lost' /\ (k \in lost \/ Now)
      BY <1>2, <1>4, <2>2
    <3> HIDE DEF Then, Now, K
    <3> QED BY <2>1, <2>2, <3>1
  <2>3. CASE k \notin K
    <3>1. (Then <=> Now) /\ (k \in lost' <=> k \in lost)
      BY <1>2, <2>3
    <3> HIDE DEF Then, Now, K
    <3> QED BY <2>1, <2>3, <3>1
  <2> QED BY <2>2, <2>3
<1>6. ASSUME NEW k \in Keys PROVE RunsOf(k)' = IF k \in K THEN 0 ELSE RunsOf(k)
  <2> DEFINE Numbers == {n \in Nat : \E t \in Slugs, c \in CycleNos : ThenAttempted(k, t, c, n)}
  <2>1. RunsOf(k)' = Cardinality(Numbers)
    BY NumbersAfter
  <2>2. k \in K => Numbers = {}
    BY <1>2, <1>4
  <2>3. k \notin K => Numbers = NumbersOf(k)
    BY <1>2 DEF NumbersOf
  <2>4. RunsOf(k) = Cardinality(NumbersOf(k))
    BY <1>1, NumbersAreFinite DEF ServiceInv
  <2> HIDE DEF Numbers, K
  <2> QED BY <2>1, <2>2, <2>3, <2>4, FS_EmptySet
<1>7. K \in SUBSET Keys
  OBVIOUS
<1> HIDE DEF K
<1> QED BY <1>3, <1>5, <1>6, <1>7 DEF Service!Discard

LEMMA StepIsService == ServiceInv /\ [Next]_vars => [Service!ServiceNext]_(Service!serviceVars)
<1> SUFFICES ASSUME ServiceInv, [Next]_vars
             PROVE  Service!ServiceNext \/ UNCHANGED Service!serviceVars
  OBVIOUS
<1>1. CASE UNCHANGED <<request, cycles, attempts, lost>>
  BY <1>1, ShownAlike
<1>2. TypeOK'
  BY ServiceInvNext DEF ServiceInv, CampaignInv, TypeInv
<1>3. ASSUME NEW q \in Requests, BeginIntake(q) \/ BeginRerun(q) \/ ServeRequest(q) \/ Fail(q),
             ~ UNCHANGED <<request, cycles, attempts, lost>>
      PROVE  Service!ServiceNext \/ UNCHANGED Service!serviceVars
  <2>1. CASE Register(q) /\ KeyFree(call[q].key)
    BY <2>1, RegisterReceives DEF Service!ServiceNext
  <2>2. CASE CreateCycle(q)
    BY <2>2, CreateCycleStarts DEF Service!ServiceNext
  <2>3. CASE MarkMapped(q)
    BY <2>3, MarkMappedReports DEF Service!ServiceNext
  <2>4. CASE RecordAttempt(q) /\ InsertAttempt(q, 1)
    BY <1>2, <2>4, RecordIsFirstRun DEF Service!ServiceNext
  <2>5. CASE AppendAttempt(q) /\ InsertAttempt(q, seen[q].last + 1)
    BY <1>2, <2>5, AppendRunsAgain DEF Service!ServiceNext
  <2> QED BY <1>3, <2>1, <2>2, <2>3, <2>4, <2>5
      DEF BeginIntake, BeginRerun, ServeRequest, Register, FindLink, ChooseSlug,
      CreateProject, LinkProject, ReloadProject, FindRevision, FindAttempt, RecordAttempt,
      RefuseAttempt, ReadLast, AppendAttempt, Fail, vars, master, files, deletion
<1>4. ASSUME NEW s \in Slugs, RemoveFile(s) PROVE Service!ServiceNext
  BY <1>2, <1>4, RemovalDiscards DEF Service!ServiceNext
<1>5. CASE (\E s \in Slugs : Publish(s) \/ DeleteProject(s)) \/ Crash \/ UNCHANGED vars
  <2>1. UNCHANGED <<request, cycles, attempts, lost>>
    BY <1>5 DEF Publish, DeleteProject, Crash, vars, master, files, deletion
  <2> QED BY <2>1, ShownAlike
<1> QED BY <1>1, <1>3, <1>4, <1>5 DEF Next

\* However deliveries, re-runs, stops, refused statements and deletions of projects in
\* hand interleave over the two databases, a request is received, given one campaign
\* ever, run a first time and only then reported as mapped, unless its campaign was
\* lost with its file before; nothing happens to it twice or out of that order.
THEOREM QaIntakeImplementsQaService == Spec => ImplementsService
BY InitIsService, StepIsService, ServiceInvariant, PTL
   DEF Spec, ImplementsService, Service!ServiceSpec
=============================================================================
