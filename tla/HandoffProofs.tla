---------------------------- MODULE HandoffProofs ----------------------------
(***************************************************************************)
(* Theorems about Handoffs, for any number of handoffs and deliveries on    *)
(* their way at once, whichever machine stops and whoever gives up waiting. *)
(***************************************************************************)
EXTENDS Handoffs, TLAPS

Relaying   == {"dispatch", "wait"}
Placed     == {"create", "find_intent", "record", "attach", "plan", "map"}
Registered == {"project"} \cup Placed

\* What a delivery at a given step may rely on, in the rows of Document Again (ho),
\* Conductor (re) and PM Again (wo, pl): a relay that loaded QUEUED has inserted that row
\* itself and nobody else may change it; a reference it brings is on record behind it; a
\* package that is registered and not yet mapped is planned only by the request at map.
CourierOK(j, ho, re, wo, pl) ==
  /\ j \in Courier
  /\ j.deliver # "idle" \/ j.relay # "idle" \/ j.pm # "idle" => j.handoff \in Handoffs
  /\ j.deliver # "idle" => ho[j.handoff] # NoRow
  /\ j.relay \in Relaying =>
       /\ re[j.handoff] # NoRow
       /\ \/ j.found = "QUEUED" /\ re[j.handoff].status = "QUEUED"
          \/ j.found = "FAILED" /\ re[j.handoff].status \in {"FAILED", "ACKNOWLEDGED"}
  /\ j.answer = "reference" =>
       /\ j.handoff \in Handoffs /\ re[j.handoff] # NoRow
       /\ re[j.handoff].status = "ACKNOWLEDGED"
  /\ j.pmAnswer = "reference" => j.handoff \in Handoffs /\ wo[j.handoff] # NoRow
  /\ j.pm # "idle" => j.stamp \in Stamps
  /\ j.pm \in Placed => j.project \in 1..MaxProjects
  /\ j.pm \in Registered =>
       /\ wo[j.handoff] # NoRow /\ wo[j.handoff].status = "RECEIVED"
       /\ pl[j.handoff] = IF j.pm = "map" THEN {j.project} ELSE {}

Holds(j, h) == j.handoff = h /\ j.relay \in Relaying /\ j.found = "QUEUED"
Works(j, h) == j.handoff = h /\ j.pm \in Registered

\* Nobody else holds the QUEUED row, or works on the registered package.
Alone ==
  \A c, d \in Couriers, h \in Handoffs :
    \/ Holds(courier[c], h) /\ Holds(courier[d], h)
    \/ Works(courier[c], h) /\ Works(courier[d], h)
    => c = d

RowTypes ==
  /\ handoff \in [Handoffs -> HandoffRow \cup {NoRow}]
  /\ relayed \in [Handoffs -> RelayRow \cup {NoRow}]
  /\ work \in [Handoffs -> WorkRow \cup {NoRow}]
  /\ intent \in IntentRow \cup {NoRow}
  /\ projects \in 0..MaxProjects
  /\ planned \in [Handoffs -> SUBSET (1..MaxProjects)]

RowsOK ==
  \A h \in Handoffs :
    /\ relayed[h] # NoRow => (relayed[h].reference <=> relayed[h].status = "ACKNOWLEDGED")
    /\ relayed[h] # NoRow /\ relayed[h].status = "ACKNOWLEDGED" => work[h] # NoRow
    /\ handoff[h] # NoRow /\ handoff[h].reference =>
         relayed[h] # NoRow /\ relayed[h].status = "ACKNOWLEDGED"
    /\ \A p, q \in planned[h] : p = q
    /\ work[h] = NoRow => planned[h] = {}
    /\ work[h].status = "MAPPED" => planned[h] = {work[h].project}

CouriersOK ==
  /\ DOMAIN courier = Couriers /\ courier = [c \in Couriers |-> courier[c]]
  /\ \A c \in Couriers : CourierOK(courier[c], handoff, relayed, work, planned)

HandoffInv == RowTypes /\ RowsOK /\ CouriersOK /\ Alone

-----------------------------------------------------------------------------
(* Deliveries *)

LEMMA IdleOK ==
  ASSUME NEW ho, NEW re, NEW wo, NEW pl
  PROVE  CourierOK(NoCourier, ho, re, wo, pl)
<1>1. NoCourier \in Courier
  BY MaxProjectsAssumption DEF NoCourier, Courier
<1> QED BY <1>1 DEF NoCourier, CourierOK, Relaying, Registered, Placed

\* The types of a delivery's fields, by name: a proof that a delivery keeps its type
\* needs only that the new values are in them.
Delivers  == {"idle", "queue", "wait"}
Helds     == {"NONE", "NEW", "QUEUED", "FAILED"}
Relays    == {"idle", "lookup", "insert", "dispatch", "wait"}
Founds    == {"NONE", "QUEUED", "FAILED"}
Pms       == {"idle", "lookup", "register", "project", "create",
              "find_intent", "record", "attach", "plan", "map"}
Answers   == {"NONE", "error", "reference", "no_reference"}
Replies   == {"NONE", "error", "refused", "reference"}
Targets   == Handoffs \cup {"NONE"}
Times     == Stamps \cup {"NONE"}
Numbers   == 0..MaxProjects

LEMMA CourierType ==
  Courier = [handoff : Targets, deliver : Delivers, held : Helds, relay : Relays,
             found : Founds, pm : Pms, stamp : Times, project : Numbers,
             answer : Answers, pmAnswer : Replies]
BY DEF Courier, Targets, Delivers, Helds, Relays, Founds, Pms, Times, Numbers, Answers, Replies

LEMMA Values ==
  /\ "idle" \in Delivers /\ "queue" \in Delivers /\ "wait" \in Delivers
  /\ "NONE" \in Helds /\ "QUEUED" \in Helds
  /\ "idle" \in Relays /\ "lookup" \in Relays /\ "insert" \in Relays
  /\ "dispatch" \in Relays /\ "wait" \in Relays
  /\ "NONE" \in Founds /\ "QUEUED" \in Founds /\ "FAILED" \in Founds
  /\ "idle" \in Pms /\ "lookup" \in Pms /\ "register" \in Pms /\ "project" \in Pms
  /\ "create" \in Pms /\ "find_intent" \in Pms /\ "record" \in Pms
  /\ "attach" \in Pms /\ "plan" \in Pms /\ "map" \in Pms
  /\ "NONE" \in Answers /\ "error" \in Answers
  /\ "reference" \in Answers /\ "no_reference" \in Answers
  /\ "NONE" \in Replies /\ "error" \in Replies
  /\ "refused" \in Replies /\ "reference" \in Replies
  /\ "NONE" \in Times /\ "NONE" \in Targets /\ 0 \in Numbers
BY MaxProjectsAssumption DEF Targets, Delivers, Helds, Relays, Founds, Pms, Times, Numbers,
   Answers, Replies

\* Tidying changes nothing a delivery relies on.
LEMMA TidyOK ==
  ASSUME NEW j, NEW ho, NEW re, NEW wo, NEW pl, CourierOK(j, ho, re, wo, pl)
  PROVE  /\ CourierOK(Tidy(j), ho, re, wo, pl)
         /\ \A h : Holds(Tidy(j), h) => Holds(j, h)
         /\ \A h : Works(Tidy(j), h) => Works(j, h)
<1> DEFINE k == [j EXCEPT !.answer   = IF j.deliver = "wait" THEN @ ELSE "NONE",
                          !.pmAnswer = IF j.relay = "wait" THEN @ ELSE "NONE"]
<1>1. CASE j.deliver = "idle" /\ j.relay = "idle" /\ j.pm = "idle"
  BY <1>1, IdleOK DEF Tidy, Holds, Works, NoCourier, Relaying, Registered, Placed
<1>2. CASE ~ (j.deliver = "idle" /\ j.relay = "idle" /\ j.pm = "idle")
  <2>1. Tidy(j) = k
    BY <1>2 DEF Tidy
  <2> DEFINE a == IF j.deliver = "wait" THEN j.answer ELSE "NONE"
             b == IF j.relay = "wait" THEN j.pmAnswer ELSE "NONE"
             l == [j EXCEPT !.answer = a, !.pmAnswer = b]
  <2>2. j \in Courier
    BY DEF CourierOK
  <2>a. a \in {j.answer, "NONE"} /\ b \in {j.pmAnswer, "NONE"}
    OBVIOUS
  <2>b. k = l
    OBVIOUS
  <2>c. /\ l.handoff = j.handoff /\ l.deliver = j.deliver /\ l.held = j.held
        /\ l.relay = j.relay /\ l.found = j.found /\ l.pm = j.pm /\ l.stamp = j.stamp
        /\ l.project = j.project /\ l.answer = a /\ l.pmAnswer = b
    <3> HIDE DEF a, b
    <3> QED BY <2>2 DEF Courier
  <2>d. l \in Courier
    <3>1. a \in Answers /\ b \in Replies
      BY <2>2, CourierType, Values
    <3> HIDE DEF a, b
    <3> QED BY <2>2, <3>1, CourierType
  <2>3. /\ k.handoff = j.handoff /\ k.deliver = j.deliver /\ k.held = j.held
        /\ k.relay = j.relay /\ k.found = j.found /\ k.pm = j.pm /\ k.stamp = j.stamp
        /\ k.project = j.project /\ k.answer \in {j.answer, "NONE"}
        /\ k.pmAnswer \in {j.pmAnswer, "NONE"} /\ k \in Courier
    <3> HIDE DEF a, b, k, l
    <3> QED BY <2>a, <2>b, <2>c, <2>d
  <2>4. CourierOK(k, ho, re, wo, pl)
    <3> HIDE DEF k
    <3> QED BY <2>3 DEF CourierOK
  <2>5. \A h : (Holds(k, h) => Holds(j, h)) /\ (Works(k, h) => Works(j, h))
    <3> HIDE DEF k
    <3> QED BY <2>3 DEF Holds, Works
  <2> QED BY <2>1, <2>4, <2>5
<1> QED BY <1>1, <1>2

\* One delivery moves to j, the rows may change under the others.
LEMMA OneMoves ==
  ASSUME HandoffInv, NEW c \in Couriers, NEW j, Go(c, j),
         CourierOK(j, handoff', relayed', work', planned'),
         \A d \in Couriers : d # c => CourierOK(courier[d], handoff', relayed', work', planned'),
         \A h \in Handoffs :
           /\ Holds(j, h) => \A d \in Couriers : d # c => ~ Holds(courier[d], h)
           /\ Works(j, h) => \A d \in Couriers : d # c => ~ Works(courier[d], h),
         RowTypes', RowsOK'
  PROVE  HandoffInv'
<1>1. courier' = [courier EXCEPT ![c] = Tidy(j)]
  BY DEF Go
<1>2. courier'[c] = Tidy(j) /\ \A d \in Couriers : d # c => courier'[d] = courier[d]
  BY <1>1 DEF HandoffInv, CouriersOK
<1>3. \A d \in Couriers : CourierOK(courier'[d], handoff', relayed', work', planned')
  BY <1>2, TidyOK
<1>4. CouriersOK'
  BY <1>1, <1>3 DEF HandoffInv, CouriersOK
<1>5. \A h \in Handoffs :
        (Holds(courier'[c], h) => Holds(j, h)) /\ (Works(courier'[c], h) => Works(j, h))
  BY <1>2, TidyOK
<1>6. Alone'
  <2> SUFFICES ASSUME NEW a \in Couriers, NEW b \in Couriers, NEW h \in Handoffs,
                      \/ Holds(courier'[a], h) /\ Holds(courier'[b], h)
                      \/ Works(courier'[a], h) /\ Works(courier'[b], h),
                      a # b
               PROVE  FALSE
    BY DEF Alone
  <2>1. CASE a # c /\ b # c
    BY <1>2, <2>1 DEF HandoffInv, Alone
  <2>2. CASE a = c \/ b = c
    BY <1>2, <1>5, <2>2
  <2> QED BY <2>1, <2>2
<1> QED BY <1>4, <1>6 DEF HandoffInv

\* A delivery that holds and works on what it did already leaves the others alone.
LEMMA StillAlone ==
  ASSUME HandoffInv, NEW c \in Couriers, NEW j,
         \A h \in Handoffs : Holds(j, h) => Holds(courier[c], h),
         \A h \in Handoffs : Works(j, h) => Works(courier[c], h)
  PROVE  \A h \in Handoffs :
           /\ Holds(j, h) => \A d \in Couriers : d # c => ~ Holds(courier[d], h)
           /\ Works(j, h) => \A d \in Couriers : d # c => ~ Works(courier[d], h)
BY DEF HandoffInv, Alone

\* Nothing but the delivery changes.
LEMMA OnlyMoves ==
  ASSUME HandoffInv, NEW c \in Couriers, NEW j, Go(c, j), UNCHANGED handoffRows,
         CourierOK(j, handoff, relayed, work, planned),
         \A h \in Handoffs : Holds(j, h) => Holds(courier[c], h),
         \A h \in Handoffs : Works(j, h) => Works(courier[c], h)
  PROVE  HandoffInv'
<1>1. UNCHANGED <<handoff, relayed, work, intent, projects, planned>>
  BY DEF handoffRows, pmRows
<1>2. RowTypes' /\ RowsOK'
  BY <1>1 DEF HandoffInv, RowTypes, RowsOK
<1>3. CourierOK(j, handoff', relayed', work', planned')
  BY <1>1
<1>4. \A d \in Couriers : CourierOK(courier[d], handoff', relayed', work', planned')
  BY <1>1 DEF HandoffInv, CouriersOK
<1> QED BY <1>2, <1>3, <1>4, OneMoves, StillAlone

LEMMA InitHandoffInv == HandoffInit => HandoffInv
<1> SUFFICES ASSUME HandoffInit PROVE HandoffInv
  OBVIOUS
<1>1. RowTypes
  BY MaxProjectsAssumption DEF HandoffInit, RowTypes
<1>2. RowsOK
  BY DEF HandoffInit, RowsOK, NoRow
<1>3. CouriersOK
  BY IdleOK DEF HandoffInit, CouriersOK
<1>4. Alone
  BY DEF HandoffInit, Alone, Holds, Works, NoCourier, Relaying, Registered, Placed
<1> QED BY <1>1, <1>2, <1>3, <1>4 DEF HandoffInv

\* What the invariant says of one delivery.
LEMMA MineOK ==
  ASSUME HandoffInv, NEW c \in Couriers
  PROVE  /\ courier[c] \in Courier
         /\ CourierOK(courier[c], handoff, relayed, work, planned)
BY DEF HandoffInv, CouriersOK, CourierOK

-----------------------------------------------------------------------------
(* Document Again's steps *)

LEMMA CreateHandoffStep ==
  ASSUME HandoffInv, NEW h \in Handoffs, CreateHandoff(h)
  PROVE  HandoffInv'
<1>1. /\ handoff' = [handoff EXCEPT ![h] = [status |-> "NEW", reference |-> FALSE]]
      /\ UNCHANGED <<relayed, work, intent, projects, planned, courier>>
      /\ handoff[h] = NoRow
  BY DEF CreateHandoff, pmRows
<1>2. RowTypes'
  BY <1>1 DEF HandoffInv, RowTypes, HandoffRow
<1>3. RowsOK'
  BY <1>1 DEF HandoffInv, RowTypes, RowsOK
<1>4. \A x \in Handoffs : handoff[x] # NoRow => handoff'[x] # NoRow
  BY <1>1 DEF HandoffInv, RowTypes
<1>5. CouriersOK'
  <2>1. \A d \in Couriers : CourierOK(courier[d], handoff', relayed, work, planned)
    BY <1>4, MineOK DEF CourierOK
  <2> QED BY <1>1, <2>1 DEF HandoffInv, CouriersOK
<1>6. Alone'
  BY <1>1 DEF HandoffInv, Alone
<1> QED BY <1>2, <1>3, <1>5, <1>6 DEF HandoffInv

LEMMA BeginDeliverStep ==
  ASSUME HandoffInv, NEW c \in Couriers, BeginDeliver(c)
  PROVE  HandoffInv'
<1>1. PICK h \in Handoffs :
        /\ Deliverable(h)
        /\ Go(c, [NoCourier EXCEPT !.handoff = h, !.deliver = "queue",
                                   !.held = handoff[h].status])
  BY DEF BeginDeliver
<1> DEFINE v == handoff[h].status
           k == [NoCourier EXCEPT !.handoff = h, !.deliver = "queue", !.held = v]
<1>2. v \in Helds /\ handoff[h] # NoRow /\ h \in Targets
  BY <1>1 DEF HandoffInv, RowTypes, HandoffRow, NoRow, Deliverable, Helds, Targets
<1>3. NoCourier \in Courier
  BY IdleOK DEF CourierOK
<1>4. /\ k \in Courier /\ k.handoff = h /\ k.deliver = "queue" /\ k.relay = "idle"
      /\ k.pm = "idle" /\ k.answer = "NONE" /\ k.pmAnswer = "NONE"
  <2> HIDE DEF v
  <2> QED BY <1>2, <1>3, CourierType, Values DEF NoCourier
<1> HIDE DEF k
<1>5. CourierOK(k, handoff, relayed, work, planned)
  BY <1>2, <1>4 DEF CourierOK, Relaying, Registered, Placed
<1>6. \A x : ~ Holds(k, x) /\ ~ Works(k, x)
  BY <1>4 DEF Holds, Works, Relaying, Registered, Placed
<1>7. UNCHANGED handoffRows
  BY DEF BeginDeliver
<1>8. Go(c, k)
  BY <1>1 DEF k
<1> QED BY <1>5, <1>6, <1>7, <1>8, OnlyMoves

\* A step of Document Again writes at most the row of its handoff, and a reference only
\* where it brings one.
LEMMA DocumentMoves ==
  ASSUME HandoffInv, NEW c \in Couriers, NEW k, NEW row \in HandoffRow, Go(c, k),
         courier[c].deliver # "idle",
         \/ handoff' = handoff
         \/ handoff' = [handoff EXCEPT ![courier[c].handoff] = row],
         row.reference => \/ handoff[courier[c].handoff].reference
                          \/ courier[c].answer = "reference",
         UNCHANGED <<relayed, pmRows>>,
         k \in Courier, k.handoff = courier[c].handoff,
         k.relay \in {courier[c].relay, "lookup"}, k.found = courier[c].found,
         k.pm = courier[c].pm, k.stamp = courier[c].stamp, k.project = courier[c].project,
         k.answer = courier[c].answer, k.pmAnswer = courier[c].pmAnswer
  PROVE  HandoffInv'
<1> DEFINE j == courier[c]
           g == j.handoff
<1>0. UNCHANGED <<relayed, work, intent, projects, planned>>
  BY DEF pmRows
<1>1. j \in Courier /\ CourierOK(j, handoff, relayed, work, planned)
  BY MineOK
<1>2. g \in Handoffs /\ handoff[g] # NoRow
  BY <1>1 DEF CourierOK
<1>3. row # NoRow /\ row \in HandoffRow \cup {NoRow}
  BY DEF HandoffRow, NoRow
<1>4. /\ \A x \in Handoffs : x # g => handoff'[x] = handoff[x]
      /\ handoff'[g] \in {handoff[g], row}
      /\ handoff' \in [Handoffs -> HandoffRow \cup {NoRow}]
  BY <1>2, <1>3 DEF HandoffInv, RowTypes
<1> HIDE DEF g
<1>5. \A x \in Handoffs : handoff[x] # NoRow => handoff'[x] # NoRow
  BY <1>3, <1>4
<1>6. RowTypes'
  BY <1>0, <1>4 DEF HandoffInv, RowTypes
<1>7. handoff'[g].reference => relayed[g] # NoRow /\ relayed[g].status = "ACKNOWLEDGED"
  BY <1>1, <1>2, <1>4 DEF CourierOK, HandoffInv, RowsOK, g
<1>8. RowsOK'
  BY <1>0, <1>4, <1>7 DEF HandoffInv, RowsOK
<1>9. \A d \in Couriers : CourierOK(courier[d], handoff', relayed', work', planned')
  BY <1>0, <1>5, MineOK DEF CourierOK
<1>10. CourierOK(k, handoff', relayed', work', planned')
  BY <1>0, <1>1, <1>2, <1>5 DEF CourierOK, Relaying, g
<1>11. \A x : (Holds(k, x) => Holds(j, x)) /\ (Works(k, x) => Works(j, x))
  BY DEF Holds, Works, Relaying
<1> QED BY <1>6, <1>8, <1>9, <1>10, <1>11, OneMoves, StillAlone

LEMMA QueueStep ==
  ASSUME HandoffInv, NEW c \in Couriers, Queue(c)
  PROVE  HandoffInv'
<1> DEFINE j == courier[c]
           k == [j EXCEPT !.deliver = "wait", !.held = "QUEUED", !.relay = "lookup"]
           row == [handoff[j.handoff] EXCEPT !.status = "QUEUED"]
<1>1. j \in Courier /\ CourierOK(j, handoff, relayed, work, planned)
  BY MineOK
<1>2. /\ j.deliver = "queue" /\ Go(c, k) /\ UNCHANGED <<relayed, pmRows>>
      /\ handoff' = handoff \/ handoff' = [handoff EXCEPT ![j.handoff] = row]
  BY DEF Queue
<1>3. /\ k \in Courier /\ k.handoff = j.handoff /\ k.relay = "lookup" /\ k.found = j.found
      /\ k.pm = j.pm /\ k.stamp = j.stamp /\ k.project = j.project
      /\ k.answer = j.answer /\ k.pmAnswer = j.pmAnswer
  <2> HIDE DEF j
  <2> QED BY <1>1, CourierType, Values
<1>4. handoff[j.handoff] \in HandoffRow
  BY <1>1, <1>2 DEF CourierOK, HandoffInv, RowTypes
<1>5. row \in HandoffRow /\ row.reference = handoff[j.handoff].reference
  <2> HIDE DEF j
  <2> QED BY <1>4 DEF HandoffRow
<1> HIDE DEF k, row
<1> QED BY <1>2, <1>3, <1>5, DocumentMoves

LEMMA DeliverFailsStep ==
  ASSUME HandoffInv, NEW c \in Couriers, DeliverFails(c)
  PROVE  HandoffInv'
<1> DEFINE j == courier[c]
           k == [j EXCEPT !.deliver = "idle", !.held = "NONE"]
           row == [handoff[j.handoff] EXCEPT !.status = "FAILED"]
<1>1. j \in Courier /\ CourierOK(j, handoff, relayed, work, planned)
  BY MineOK
<1>2. /\ j.deliver = "wait" /\ Go(c, k) /\ UNCHANGED <<relayed, pmRows>>
      /\ handoff' = [handoff EXCEPT ![j.handoff] = row]
  BY DEF DeliverFails, LeaveDeliver
<1>3. /\ k \in Courier /\ k.handoff = j.handoff /\ k.relay = j.relay /\ k.found = j.found
      /\ k.pm = j.pm /\ k.stamp = j.stamp /\ k.project = j.project
      /\ k.answer = j.answer /\ k.pmAnswer = j.pmAnswer
  <2> HIDE DEF j
  <2> QED BY <1>1, CourierType, Values
<1>4. handoff[j.handoff] \in HandoffRow
  BY <1>1, <1>2 DEF CourierOK, HandoffInv, RowTypes
<1>5. row \in HandoffRow /\ row.reference = handoff[j.handoff].reference
  <2> HIDE DEF j
  <2> QED BY <1>4 DEF HandoffRow
<1> HIDE DEF k, row
<1> QED BY <1>2, <1>3, <1>5, DocumentMoves

LEMMA DeliverAcknowledgedStep ==
  ASSUME HandoffInv, NEW c \in Couriers, DeliverAcknowledged(c)
  PROVE  HandoffInv'
<1> DEFINE j == courier[c]
           k == [j EXCEPT !.deliver = "idle", !.held = "NONE"]
           f == handoff[j.handoff].reference \/ j.answer = "reference"
           row == [status |-> "ACKNOWLEDGED", reference |-> f]
<1>1. j \in Courier /\ CourierOK(j, handoff, relayed, work, planned)
  BY MineOK
<1>2. /\ j.deliver = "wait" /\ Go(c, k) /\ UNCHANGED <<relayed, pmRows>>
      /\ handoff' = [handoff EXCEPT ![j.handoff] = row]
  BY DEF DeliverAcknowledged, LeaveDeliver
<1>3. /\ k \in Courier /\ k.handoff = j.handoff /\ k.relay = j.relay /\ k.found = j.found
      /\ k.pm = j.pm /\ k.stamp = j.stamp /\ k.project = j.project
      /\ k.answer = j.answer /\ k.pmAnswer = j.pmAnswer
  <2> HIDE DEF j
  <2> QED BY <1>1, CourierType, Values
<1>4. handoff[j.handoff] \in HandoffRow
  BY <1>1, <1>2 DEF CourierOK, HandoffInv, RowTypes
<1>5. f \in BOOLEAN
  OBVIOUS
<1>6. row \in HandoffRow
  <2> HIDE DEF f
  <2> QED BY <1>5 DEF HandoffRow
<1>7. row.reference = f
  OBVIOUS
<1> HIDE DEF k, row
<1> QED BY <1>2, <1>3, <1>6, <1>7, DocumentMoves

-----------------------------------------------------------------------------
(* Conductor Again's steps *)

\* An answer to Document Again ends the relay.
LEMMA AnswerFields ==
  ASSUME NEW j \in Courier, NEW a \in Answers
  PROVE  LET k == [j EXCEPT !.relay = "idle", !.found = "NONE", !.answer = a] IN
         /\ k \in Courier /\ k.handoff = j.handoff /\ k.deliver = j.deliver
         /\ k.relay = "idle" /\ k.pm = j.pm /\ k.stamp = j.stamp
         /\ k.project = j.project /\ k.answer = a /\ k.pmAnswer = j.pmAnswer
         /\ \A h : ~ Holds(k, h) /\ (Works(k, h) => Works(j, h))
<1> DEFINE k == [j EXCEPT !.relay = "idle", !.found = "NONE", !.answer = a]
<1>1. /\ k \in Courier /\ k.handoff = j.handoff /\ k.deliver = j.deliver
      /\ k.relay = "idle" /\ k.pm = j.pm /\ k.stamp = j.stamp
      /\ k.project = j.project /\ k.answer = a /\ k.pmAnswer = j.pmAnswer
  BY CourierType, Values
<1> HIDE DEF k
<1>2. \A h : ~ Holds(k, h) /\ (Works(k, h) => Works(j, h))
  BY <1>1 DEF Holds, Works, Relaying
<1> QED BY <1>1, <1>2 DEF k

LEMMA RelayLookupStep ==
  ASSUME HandoffInv, NEW c \in Couriers, RelayLookup(c)
  PROVE  HandoffInv'
<1> DEFINE j == courier[c]
           row == relayed[j.handoff]
<1>1. j \in Courier /\ CourierOK(j, handoff, relayed, work, planned)
  BY MineOK
<1>2. j.relay = "lookup" /\ UNCHANGED handoffRows /\ j.handoff \in Handoffs
  BY <1>1 DEF RelayLookup, CourierOK
<1>3. row \in RelayRow \cup {NoRow}
  BY <1>2 DEF HandoffInv, RowTypes
<1>4. row # NoRow =>
        /\ row.status \in {"QUEUED", "ACKNOWLEDGED", "FAILED"}
        /\ row.reference <=> row.status = "ACKNOWLEDGED"
  BY <1>2, <1>3 DEF HandoffInv, RowsOK, RelayRow
<1>5. \/ row = NoRow /\ Go(c, [j EXCEPT !.relay = "insert"])
      \/ row # NoRow /\ row.status = "FAILED"
           /\ Go(c, [j EXCEPT !.relay = "dispatch", !.found = "FAILED"])
      \/ row # NoRow /\ Answer(c, IF row.reference THEN "reference" ELSE "no_reference")
  <2>1. CASE row = NoRow
    <3>1. row.status # "FAILED"
      BY <2>1 DEF NoRow
    <3> QED BY <2>1, <3>1 DEF RelayLookup
  <2>2. CASE row # NoRow
    BY <2>2 DEF RelayLookup
  <2> QED BY <2>1, <2>2
<1>6. CASE row = NoRow /\ Go(c, [j EXCEPT !.relay = "insert"])
  <2> DEFINE k == [j EXCEPT !.relay = "insert"]
  <2>1. /\ k \in Courier /\ k.handoff = j.handoff /\ k.deliver = j.deliver
        /\ k.relay = "insert" /\ k.found = j.found /\ k.pm = j.pm /\ k.stamp = j.stamp
        /\ k.project = j.project /\ k.answer = j.answer /\ k.pmAnswer = j.pmAnswer
    <3> HIDE DEF j
    <3> QED BY <1>1, CourierType, Values
  <2>2. Go(c, k)
    BY <1>6
  <2> HIDE DEF k, row, j
  <2>3. CourierOK(k, handoff, relayed, work, planned)
    BY <1>1, <1>2, <2>1 DEF CourierOK, Relaying
  <2>4. \A h : ~ Holds(k, h) /\ (Works(k, h) => Works(j, h))
    BY <2>1 DEF Holds, Works, Relaying
  <2> QED BY <1>2, <2>2, <2>3, <2>4, OnlyMoves DEF j
<1>7. CASE row # NoRow /\ row.status = "FAILED"
             /\ Go(c, [j EXCEPT !.relay = "dispatch", !.found = "FAILED"])
  <2> DEFINE k == [j EXCEPT !.relay = "dispatch", !.found = "FAILED"]
  <2>1. /\ k \in Courier /\ k.handoff = j.handoff /\ k.deliver = j.deliver
        /\ k.relay = "dispatch" /\ k.found = "FAILED" /\ k.pm = j.pm /\ k.stamp = j.stamp
        /\ k.project = j.project /\ k.answer = j.answer /\ k.pmAnswer = j.pmAnswer
    <3> HIDE DEF j
    <3> QED BY <1>1, CourierType, Values
  <2>2. Go(c, k) /\ relayed[j.handoff] # NoRow /\ relayed[j.handoff].status = "FAILED"
    BY <1>7
  <2> HIDE DEF k, row, j
  <2>3. CourierOK(k, handoff, relayed, work, planned)
    BY <1>1, <1>2, <2>1, <2>2 DEF CourierOK, Relaying
  <2>4. \A h : ~ Holds(k, h) /\ (Works(k, h) => Works(j, h))
    BY <2>1 DEF Holds, Works, Relaying
  <2> QED BY <1>2, <2>2, <2>3, <2>4, OnlyMoves DEF j
<1>8. CASE row # NoRow /\ Answer(c, IF row.reference THEN "reference" ELSE "no_reference")
  <2> DEFINE a == IF row.reference THEN "reference" ELSE "no_reference"
             k == [j EXCEPT !.relay = "idle", !.found = "NONE", !.answer = a]
  <2>1. /\ a \in Answers
        /\ a = "reference" =>
             relayed[j.handoff] # NoRow /\ relayed[j.handoff].status = "ACKNOWLEDGED"
    BY <1>4, <1>8, Values
  <2>2. Go(c, k)
    BY <1>8 DEF Answer
  <2> HIDE DEF a, j
  <2>3. /\ k \in Courier /\ k.handoff = j.handoff /\ k.deliver = j.deliver
        /\ k.relay = "idle" /\ k.pm = j.pm /\ k.stamp = j.stamp
        /\ k.project = j.project /\ k.answer = a /\ k.pmAnswer = j.pmAnswer
        /\ \A h : ~ Holds(k, h) /\ (Works(k, h) => Works(j, h))
    BY <1>1, <2>1, AnswerFields
  <2> HIDE DEF k, row
  <2>4. CourierOK(k, handoff, relayed, work, planned)
    BY <1>1, <1>2, <2>1, <2>3 DEF CourierOK, Relaying
  <2> QED BY <1>2, <2>2, <2>3, <2>4, OnlyMoves DEF j
<1> QED BY <1>5, <1>6, <1>7, <1>8

LEMMA DispatchStep ==
  ASSUME HandoffInv, NEW c \in Couriers, Dispatch(c)
  PROVE  HandoffInv'
<1> DEFINE j == courier[c]
<1>1. j \in Courier /\ CourierOK(j, handoff, relayed, work, planned)
  BY MineOK
<1>2. PICK s \in Stamps : Go(c, [j EXCEPT !.relay = "wait", !.pm = "lookup", !.stamp = s])
  BY DEF Dispatch
<1> DEFINE k == [j EXCEPT !.relay = "wait", !.pm = "lookup", !.stamp = s]
<1>3. j.relay = "dispatch" /\ UNCHANGED handoffRows /\ s \in Times
  BY DEF Dispatch, Times
<1>4. /\ k \in Courier /\ k.handoff = j.handoff /\ k.deliver = j.deliver
      /\ k.relay = "wait" /\ k.found = j.found /\ k.pm = "lookup" /\ k.stamp = s
      /\ k.project = j.project /\ k.answer = j.answer /\ k.pmAnswer = j.pmAnswer
  <2> HIDE DEF j
  <2> QED BY <1>1, <1>3, CourierType, Values
<1>5. Go(c, k)
  BY <1>2
<1> HIDE DEF k, j
<1>6. CourierOK(k, handoff, relayed, work, planned)
  BY <1>1, <1>3, <1>4 DEF CourierOK, Relaying, Registered, Placed
<1>7. \A h : (Holds(k, h) => Holds(j, h)) /\ ~ Works(k, h)
  BY <1>3, <1>4 DEF Holds, Works, Relaying, Registered, Placed
<1> QED BY <1>3, <1>5, <1>6, <1>7, OnlyMoves DEF j

\* A new row r of Conductor for handoff g that keeps what Document Again's reference
\* and the deliveries other than c rely on.
Fits(r, g) ==
  /\ r.reference <=> r.status = "ACKNOWLEDGED"
  /\ r.status = "ACKNOWLEDGED" => work[g] # NoRow
  /\ relayed[g] # NoRow /\ relayed[g].status = "ACKNOWLEDGED" => r.status = "ACKNOWLEDGED"

Spares(c, r, g) ==
  \A d \in Couriers : d # c /\ courier[d].handoff = g /\ courier[d].relay \in Relaying =>
    courier[d].found = "FAILED" /\ r.status = "ACKNOWLEDGED"

\* No delivery but c holds the QUEUED row that k holds, and k works on nothing new.
KeepsAlone(c, k) ==
  \A h \in Handoffs :
    /\ Holds(k, h) => \A d \in Couriers : d # c => ~ Holds(courier[d], h)
    /\ Works(k, h) => Works(courier[c], h)

\* Conductor writes the row of one handoff.
LEMMA RelayMoves ==
  ASSUME HandoffInv, NEW c \in Couriers, NEW k, NEW g \in Handoffs, NEW r \in RelayRow, Go(c, k),
         relayed' = [relayed EXCEPT ![g] = r], UNCHANGED <<handoff, pmRows>>,
         Fits(r, g), Spares(c, r, g), KeepsAlone(c, k),
         CourierOK(k, handoff, relayed', work, planned)
  PROVE  HandoffInv'
<1>0. UNCHANGED <<handoff, work, intent, projects, planned>>
  BY DEF pmRows
<1>1. r # NoRow
  BY DEF RelayRow, NoRow
<1>2. /\ relayed' \in [Handoffs -> RelayRow \cup {NoRow}]
      /\ relayed'[g] = r
      /\ \A x \in Handoffs : x # g => relayed'[x] = relayed[x]
  BY DEF HandoffInv, RowTypes
<1>3. RowTypes'
  BY <1>0, <1>2 DEF HandoffInv, RowTypes
<1>4. RowsOK'
  <2> SUFFICES ASSUME NEW h \in Handoffs
               PROVE  /\ relayed'[h] # NoRow =>
                           (relayed'[h].reference <=> relayed'[h].status = "ACKNOWLEDGED")
                      /\ relayed'[h] # NoRow /\ relayed'[h].status = "ACKNOWLEDGED" =>
                           work[h] # NoRow
                      /\ handoff[h] # NoRow /\ handoff[h].reference =>
                           relayed'[h] # NoRow /\ relayed'[h].status = "ACKNOWLEDGED"
    BY <1>0 DEF HandoffInv, RowsOK
  <2>1. CASE h = g
    BY <1>1, <1>2, <2>1 DEF HandoffInv, RowsOK, Fits
  <2>2. CASE h # g
    BY <1>2, <2>2 DEF HandoffInv, RowsOK
  <2> QED BY <2>1, <2>2
<1>5. ASSUME NEW d \in Couriers, d # c
      PROVE  CourierOK(courier[d], handoff', relayed', work', planned')
  <2> DEFINE j == courier[d]
  <2>1. CourierOK(j, handoff, relayed, work, planned)
    BY MineOK
  <2>2. j.handoff = g /\ j.relay \in Relaying => j.found = "FAILED" /\ r.status = "ACKNOWLEDGED"
    BY <1>5 DEF Spares
  <2> HIDE DEF j
  <2>3. j.relay \in Relaying => j.handoff \in Handoffs
    BY <2>1 DEF CourierOK, Relaying
  <2>4. CourierOK(j, handoff, relayed', work, planned)
    BY <1>1, <1>2, <2>1, <2>2, <2>3 DEF CourierOK, Fits
  <2> QED BY <1>0, <2>4 DEF j
<1>6. CourierOK(k, handoff', relayed', work', planned')
  BY <1>0
<1>7. \A h \in Handoffs :
        /\ Holds(k, h) => \A d \in Couriers : d # c => ~ Holds(courier[d], h)
        /\ Works(k, h) => \A d \in Couriers : d # c => ~ Works(courier[d], h)
  BY DEF HandoffInv, Alone, KeepsAlone
<1> QED BY <1>3, <1>4, <1>5, <1>6, <1>7, OneMoves

LEMMA RelayInsertStep ==
  ASSUME HandoffInv, NEW c \in Couriers, RelayInsert(c)
  PROVE  HandoffInv'
<1> DEFINE j == courier[c]
           g == j.handoff
           r == [status |-> "QUEUED", reference |-> FALSE]
<1>1. j \in Courier /\ CourierOK(j, handoff, relayed, work, planned)
  BY MineOK
<1>2. j.relay = "insert" /\ UNCHANGED <<handoff, pmRows>> /\ g \in Handoffs
  BY <1>1 DEF RelayInsert, CourierOK
<1>3. CASE relayed[g] # NoRow
  <2> DEFINE k == [j EXCEPT !.relay = "idle", !.found = "NONE", !.answer = "error"]
  <2>1. Go(c, k) /\ UNCHANGED handoffRows
    BY <1>2, <1>3 DEF RelayInsert, Answer, handoffRows
  <2> HIDE DEF j, g
  <2>2. /\ k \in Courier /\ k.handoff = j.handoff /\ k.deliver = j.deliver
        /\ k.relay = "idle" /\ k.pm = j.pm /\ k.stamp = j.stamp
        /\ k.project = j.project /\ k.answer = "error" /\ k.pmAnswer = j.pmAnswer
        /\ \A h : ~ Holds(k, h) /\ (Works(k, h) => Works(j, h))
    BY <1>1, Values, AnswerFields
  <2> HIDE DEF k
  <2>3. CourierOK(k, handoff, relayed, work, planned)
    BY <1>1, <1>2, <2>2 DEF CourierOK, Relaying
  <2> QED BY <2>1, <2>2, <2>3, OnlyMoves DEF j
<1>4. CASE relayed[g] = NoRow
  <2> DEFINE k == [j EXCEPT !.relay = "dispatch", !.found = "QUEUED"]
  <2>1. Go(c, k) /\ relayed' = [relayed EXCEPT ![g] = r]
    BY <1>4 DEF RelayInsert
  <2>2. /\ k \in Courier /\ k.handoff = j.handoff /\ k.deliver = j.deliver
        /\ k.relay = "dispatch" /\ k.found = "QUEUED" /\ k.pm = j.pm /\ k.stamp = j.stamp
        /\ k.project = j.project /\ k.answer = j.answer /\ k.pmAnswer = j.pmAnswer
    <3> HIDE DEF j
    <3> QED BY <1>1, CourierType, Values
  <2>3. r \in RelayRow /\ r.status = "QUEUED" /\ (r.reference <=> r.status = "ACKNOWLEDGED")
    BY DEF RelayRow
  <2>4. \A d \in Couriers : courier[d].handoff = g => courier[d].relay \notin Relaying
    BY <1>4, MineOK DEF CourierOK
  <2>5. relayed'[g] = r /\ r # NoRow
    BY <1>2, <2>1, <2>3 DEF HandoffInv, RowTypes, NoRow
  <2> HIDE DEF k, r
  <2>6. \A x \in Handoffs : x # g => relayed'[x] = relayed[x]
    BY <2>1 DEF HandoffInv, RowTypes
  <2>7. CourierOK(k, handoff, relayed', work, planned)
    <3>1. relayed'[g] # NoRow /\ relayed'[g].status = "QUEUED" /\ k.handoff = g
      BY <2>2, <2>3, <2>5
    <3>2. j.handoff = g
      OBVIOUS
    <3> HIDE DEF j, g
    <3> QED BY <1>1, <1>2, <1>4, <2>2, <3>1, <3>2 DEF CourierOK
  <2>8. \A h : Works(k, h) => Works(j, h)
    <3> HIDE DEF j
    <3> QED BY <2>2 DEF Works
  <2>9. \A h : Holds(k, h) => \A d \in Couriers : ~ Holds(courier[d], h)
    BY <2>2, <2>4 DEF Holds
  <2>10. KeepsAlone(c, k)
    BY <2>8, <2>9 DEF KeepsAlone
  <2>11. Fits(r, g)
    BY <1>4, <2>3 DEF Fits
  <2>12. Spares(c, r, g)
    BY <2>4 DEF Spares
  <2> HIDE DEF g, j
  <2> QED BY <1>2, <2>1, <2>3, <2>7, <2>10, <2>11, <2>12, RelayMoves
<1> QED BY <1>3, <1>4

\* A relay that loaded QUEUED is the only one of its handoff.
LEMMA AloneAtQueued ==
  ASSUME HandoffInv, NEW c \in Couriers, NEW d \in Couriers, d # c,
         courier[c].relay \in Relaying, courier[c].found = "QUEUED",
         courier[d].relay \in Relaying, courier[d].handoff = courier[c].handoff
  PROVE  FALSE
<1>1. courier[c].handoff \in Handoffs /\ relayed[courier[c].handoff].status = "QUEUED"
  BY MineOK DEF CourierOK, Relaying
<1>2. courier[d].found = "QUEUED"
  BY <1>1, MineOK DEF CourierOK
<1> QED BY <1>1, <1>2 DEF HandoffInv, Alone, Holds

LEMMA DispatchFailsStep ==
  ASSUME HandoffInv, NEW c \in Couriers, DispatchFails(c)
  PROVE  HandoffInv'
<1> DEFINE j == courier[c]
           g == j.handoff
           r == [relayed[g] EXCEPT !.status = "FAILED"]
           k == [j EXCEPT !.relay = "idle", !.found = "NONE", !.answer = "error"]
<1>1. j \in Courier /\ CourierOK(j, handoff, relayed, work, planned)
  BY MineOK
<1>2. /\ j.relay \in Relaying /\ Go(c, k) /\ UNCHANGED <<handoff, pmRows>>
      /\ relayed' = IF FailedIsNews(c) THEN [relayed EXCEPT ![g] = r] ELSE relayed
  BY DEF DispatchFails, Answer, Relaying
<1>3. g \in Handoffs /\ relayed[g] # NoRow
  BY <1>1, <1>2 DEF CourierOK, Relaying
<1>4. /\ k \in Courier /\ k.handoff = j.handoff /\ k.deliver = j.deliver
      /\ k.relay = "idle" /\ k.pm = j.pm /\ k.stamp = j.stamp
      /\ k.project = j.project /\ k.answer = "error" /\ k.pmAnswer = j.pmAnswer
      /\ \A h : ~ Holds(k, h) /\ (Works(k, h) => Works(j, h))
  <2> HIDE DEF j
  <2> QED BY <1>1, Values, AnswerFields
<1> HIDE DEF k
<1>5. CASE ~ FailedIsNews(c)
  <2>1. UNCHANGED handoffRows
    BY <1>2, <1>5 DEF handoffRows
  <2>2. CourierOK(k, handoff, relayed, work, planned)
    <3> HIDE DEF j
    <3> QED BY <1>1, <1>4 DEF CourierOK, Relaying
  <2> QED BY <1>2, <1>4, <2>1, <2>2, OnlyMoves
<1>6. CASE FailedIsNews(c)
  <2>1. j.found = "QUEUED" /\ relayed[g].status = "QUEUED"
    BY <1>1, <1>2, <1>6 DEF FailedIsNews, CourierOK
  <2>2. relayed[g] \in RelayRow /\ ~ relayed[g].reference
    BY <1>3, <2>1 DEF HandoffInv, RowTypes, RowsOK
  <2>3. r \in RelayRow /\ r.status = "FAILED" /\ r.reference = relayed[g].reference
    <3> HIDE DEF g
    <3> QED BY <2>2 DEF RelayRow
  <2>4. relayed' = [relayed EXCEPT ![g] = r]
    BY <1>2, <1>6
  <2>5. \A d \in Couriers : d # c /\ courier[d].handoff = g => courier[d].relay \notin Relaying
    BY <1>2, <2>1, AloneAtQueued
  <2> HIDE DEF r
  <2>6. relayed'[g] = r /\ r # NoRow /\ \A x \in Handoffs : x # g => relayed'[x] = relayed[x]
    BY <1>3, <2>3, <2>4 DEF HandoffInv, RowTypes, RelayRow, NoRow
  <2>7. j.answer # "reference"
    BY <1>1, <2>1 DEF CourierOK
  <2>8. CourierOK(k, handoff, relayed', work, planned)
    <3> HIDE DEF j
    <3> QED BY <1>1, <1>4, <2>6 DEF CourierOK, Relaying
  <2>9. KeepsAlone(c, k)
    BY <1>4 DEF KeepsAlone
  <2>10. Fits(r, g)
    BY <2>1, <2>2, <2>3 DEF Fits
  <2>11. Spares(c, r, g)
    BY <2>5 DEF Spares
  <2> HIDE DEF g, j
  <2> QED BY <1>2, <1>3, <2>3, <2>4, <2>8, <2>9, <2>10, <2>11, RelayMoves
<1> QED BY <1>5, <1>6

LEMMA DispatchedStep ==
  ASSUME HandoffInv, NEW c \in Couriers, Dispatched(c)
  PROVE  HandoffInv'
<1> DEFINE j == courier[c]
           g == j.handoff
           r == [status |-> "ACKNOWLEDGED", reference |-> TRUE]
           k == [j EXCEPT !.relay = "idle", !.found = "NONE", !.answer = "reference"]
<1>1. j \in Courier /\ CourierOK(j, handoff, relayed, work, planned)
  BY MineOK
<1>2. /\ j.relay = "wait" /\ j.pmAnswer = "reference" /\ Go(c, k)
      /\ UNCHANGED <<handoff, pmRows>> /\ relayed' = [relayed EXCEPT ![g] = r]
  BY DEF Dispatched, Taken, Answer
<1>3. g \in Handoffs /\ relayed[g] # NoRow /\ work[g] # NoRow /\ j.relay \in Relaying
  BY <1>1, <1>2 DEF CourierOK, Relaying
<1>4. /\ k \in Courier /\ k.handoff = j.handoff /\ k.deliver = j.deliver
      /\ k.relay = "idle" /\ k.pm = j.pm /\ k.stamp = j.stamp
      /\ k.project = j.project /\ k.answer = "reference" /\ k.pmAnswer = j.pmAnswer
      /\ \A h : ~ Holds(k, h) /\ (Works(k, h) => Works(j, h))
  <2> HIDE DEF j
  <2> QED BY <1>1, Values, AnswerFields
<1>5. r \in RelayRow /\ r.status = "ACKNOWLEDGED" /\ r.reference
  BY DEF RelayRow
<1> HIDE DEF k, r
<1>6. relayed'[g] = r /\ r # NoRow
  BY <1>2, <1>3, <1>5 DEF HandoffInv, RowTypes, NoRow
<1>7. ASSUME NEW d \in Couriers, d # c, courier[d].handoff = g, courier[d].relay \in Relaying
      PROVE  courier[d].found = "FAILED"
  <2>1. courier[d].found \in {"QUEUED", "FAILED"}
    BY <1>7, MineOK DEF CourierOK
  <2> QED BY <1>3, <1>7, <2>1, AloneAtQueued
<1>8. CourierOK(k, handoff, relayed', work, planned)
  <2> HIDE DEF j
  <2> QED BY <1>1, <1>3, <1>4, <1>5, <1>6 DEF CourierOK, Relaying
<1>9. KeepsAlone(c, k)
  BY <1>4 DEF KeepsAlone
<1>10. Fits(r, g)
  BY <1>3, <1>5 DEF Fits
<1>11. Spares(c, r, g)
  BY <1>5, <1>7 DEF Spares
<1> HIDE DEF g, j
<1> QED BY <1>2, <1>3, <1>5, <1>8, <1>9, <1>10, <1>11, RelayMoves

-----------------------------------------------------------------------------
(* PM Again's steps *)

\* A step of PM Again that writes nothing: the package moves on to pm = p with v for its
\* project, or is answered.
PmFields(k, j, p, v) ==
  /\ k \in Courier /\ k.handoff = j.handoff /\ k.deliver = j.deliver /\ k.relay = j.relay
  /\ k.found = j.found /\ k.pm = p /\ k.stamp = j.stamp /\ k.project = v
  /\ k.answer = j.answer /\ k.pmAnswer = j.pmAnswer

PmDone(k, j, a) ==
  /\ k \in Courier /\ k.handoff = j.handoff /\ k.deliver = j.deliver /\ k.relay = j.relay
  /\ k.found = j.found /\ k.pm = "idle" /\ k.answer = j.answer /\ k.pmAnswer = a

LEMMA PmMoves ==
  ASSUME NEW j \in Courier, NEW p \in Pms, NEW v \in Numbers
  PROVE  /\ PmFields([j EXCEPT !.pm = p], j, p, j.project)
         /\ PmFields([j EXCEPT !.pm = p, !.project = v], j, p, v)
BY CourierType DEF PmFields

LEMMA PmAnswered ==
  ASSUME NEW j \in Courier, NEW a \in Replies
  PROVE  PmDone([j EXCEPT !.pm = "idle", !.stamp = "NONE", !.project = 0, !.pmAnswer = a], j, a)
BY CourierType, Values DEF PmDone

\* The rows of PM Again that a delivery other than the one moving relies on stay.
PmKeeps(c) ==
  \A d \in Couriers : d # c =>
    LET h == courier[d].handoff IN
    /\ h \in Handoffs /\ work[h] # NoRow => work'[h] # NoRow
    /\ courier[d].pm \in Registered => work'[h] = work[h] /\ planned'[h] = planned[h]

\* PM Again moves one delivery and writes its own rows only.
LEMMA PmWrites ==
  ASSUME HandoffInv, NEW c \in Couriers, NEW k, Go(c, k), UNCHANGED <<handoff, relayed>>,
         k.handoff = courier[c].handoff, k.relay = courier[c].relay, k.found = courier[c].found,
         CourierOK(k, handoff, relayed, work', planned'), PmKeeps(c),
         \A h \in Handoffs : Works(k, h) => \A d \in Couriers : d # c => ~ Works(courier[d], h),
         RowTypes', RowsOK'
  PROVE  HandoffInv'
<1>1. ASSUME NEW d \in Couriers, d # c
      PROVE  CourierOK(courier[d], handoff', relayed', work', planned')
  <2> DEFINE j == courier[d]
  <2>1. CourierOK(j, handoff, relayed, work, planned)
    BY MineOK
  <2>2. /\ j.handoff \in Handoffs /\ work[j.handoff] # NoRow => work'[j.handoff] # NoRow
        /\ j.pm \in Registered =>
             work'[j.handoff] = work[j.handoff] /\ planned'[j.handoff] = planned[j.handoff]
    BY <1>1 DEF PmKeeps
  <2> HIDE DEF j
  <2>3. CourierOK(j, handoff, relayed, work', planned')
    BY <2>1, <2>2 DEF CourierOK
  <2> QED BY <2>3 DEF j
<1>2. CourierOK(k, handoff', relayed', work', planned')
  OBVIOUS
<1>3. \A h \in Handoffs : Holds(k, h) => \A d \in Couriers : d # c => ~ Holds(courier[d], h)
  BY DEF HandoffInv, Alone, Holds
<1> QED BY <1>1, <1>2, <1>3, OneMoves

\* PM Again changes none of the rows of packages: the intent's row, or how many
\* projects there are.
LEMMA PmLeavesWork ==
  ASSUME HandoffInv, NEW c \in Couriers, NEW k, Go(c, k),
         UNCHANGED <<handoff, relayed, work, planned>>,
         k.handoff = courier[c].handoff, k.relay = courier[c].relay, k.found = courier[c].found,
         CourierOK(k, handoff, relayed, work, planned),
         k.pm \in Registered => courier[c].pm \in Registered,
         intent' \in IntentRow \cup {NoRow}, projects' \in 0..MaxProjects
  PROVE  HandoffInv'
<1>1. RowTypes' /\ RowsOK'
  BY DEF HandoffInv, RowTypes, RowsOK
<1>2. PmKeeps(c)
  BY DEF PmKeeps
<1>3. \A h \in Handoffs : Works(k, h) => \A d \in Couriers : d # c => ~ Works(courier[d], h)
  BY DEF HandoffInv, Alone, Works
<1>4. CourierOK(k, handoff, relayed, work', planned')
  OBVIOUS
<1> QED BY <1>1, <1>2, <1>3, <1>4, PmWrites

\* An answer that brings no reference, nothing written.
LEMMA PmRefuses ==
  ASSUME HandoffInv, NEW c \in Couriers, NEW a \in {"error", "refused", "reference"},
         PmAnswers(c, a), courier[c].pm # "idle", UNCHANGED handoffRows,
         a = "reference" => work[courier[c].handoff] # NoRow
  PROVE  HandoffInv'
<1> DEFINE j == courier[c]
           k == [j EXCEPT !.pm = "idle", !.stamp = "NONE", !.project = 0, !.pmAnswer = a]
<1>1. j \in Courier /\ CourierOK(j, handoff, relayed, work, planned)
  BY MineOK
<1>2. Go(c, k) /\ j.pm # "idle" /\ (a = "reference" => work[j.handoff] # NoRow)
  BY DEF PmAnswers
<1>3. PmDone(k, j, a)
  <2> HIDE DEF j
  <2> QED BY <1>1, PmAnswered, Values
<1> HIDE DEF j, k
<1>4. CourierOK(k, handoff, relayed, work, planned)
  BY <1>1, <1>2, <1>3 DEF CourierOK, PmDone, Registered, Placed
<1>5. \A h : (Holds(k, h) => Holds(j, h)) /\ ~ Works(k, h)
  BY <1>3 DEF Holds, Works, PmDone, Registered, Placed
<1> QED BY <1>2, <1>4, <1>5, OnlyMoves DEF j

LEMMA PmLookupStep ==
  ASSUME HandoffInv, NEW c \in Couriers, PmLookup(c)
  PROVE  HandoffInv'
<1> DEFINE j == courier[c]
<1>1. j \in Courier /\ CourierOK(j, handoff, relayed, work, planned)
  BY MineOK
<1>2. j.pm = "lookup" /\ UNCHANGED handoffRows
  BY DEF PmLookup
<1>3. \/ work[j.handoff] = NoRow /\ Go(c, [j EXCEPT !.pm = "register"])
      \/ work[j.handoff] # NoRow /\ PmAnswers(c, "reference")
      \/ PmAnswers(c, "refused")
  BY DEF PmLookup
<1>4. CASE work[j.handoff] = NoRow /\ Go(c, [j EXCEPT !.pm = "register"])
  <2> DEFINE k == [j EXCEPT !.pm = "register"]
  <2>1. Go(c, k)
    BY <1>4
  <2> HIDE DEF j
  <2>2. PmFields(k, j, "register", j.project)
    BY <1>1, PmMoves, Values, CourierType
  <2> HIDE DEF k
  <2>3. CourierOK(k, handoff, relayed, work, planned)
    BY <1>1, <1>2, <2>2 DEF CourierOK, PmFields, Registered, Placed
  <2>4. \A h : (Holds(k, h) => Holds(j, h)) /\ ~ Works(k, h)
    BY <2>2 DEF Holds, Works, PmFields, Registered, Placed
  <2> QED BY <1>2, <2>1, <2>3, <2>4, OnlyMoves DEF j
<1>5. CASE work[j.handoff] # NoRow /\ PmAnswers(c, "reference")
  BY <1>2, <1>5, PmRefuses
<1>6. CASE PmAnswers(c, "refused")
  BY <1>2, <1>6, PmRefuses
<1> QED BY <1>3, <1>4, <1>5, <1>6

LEMMA PmRegisterStep ==
  ASSUME HandoffInv, NEW c \in Couriers, PmRegister(c)
  PROVE  HandoffInv'
<1> DEFINE j == courier[c]
           g == j.handoff
           r == [status |-> "RECEIVED", stamp |-> j.stamp, project |-> 0]
           k == [j EXCEPT !.pm = "project"]
<1>1. j \in Courier /\ CourierOK(j, handoff, relayed, work, planned)
  BY MineOK
<1>2. /\ j.pm = "register" /\ UNCHANGED <<handoff, relayed, intent, projects, planned>>
      /\ g \in Handoffs /\ j.stamp \in Stamps
  BY <1>1 DEF PmRegister, CourierOK
<1>3. CASE work[g] # NoRow
  <2>1. PmAnswers(c, "error") /\ UNCHANGED handoffRows
    BY <1>2, <1>3 DEF PmRegister, WorkKeyFree, handoffRows, pmRows
  <2> QED BY <1>2, <2>1, PmRefuses
<1>4. CASE work[g] = NoRow
  <2>1. Go(c, k) /\ work' = [work EXCEPT ![g] = r]
    BY <1>4 DEF PmRegister, WorkKeyFree
  <2>2. r \in WorkRow /\ r # NoRow /\ r.status = "RECEIVED"
    BY <1>2, MaxProjectsAssumption DEF WorkRow, NoRow
  <2>3. PmFields(k, j, "project", j.project)
    <3> HIDE DEF j
    <3> QED BY <1>1, PmMoves, Values, CourierType
  <2> HIDE DEF k, r
  <2>4. /\ work' \in [Handoffs -> WorkRow \cup {NoRow}] /\ work'[g] = r
        /\ \A x \in Handoffs : x # g => work'[x] = work[x]
    BY <1>2, <2>1, <2>2 DEF HandoffInv, RowTypes
  <2>5. planned[g] = {}
    BY <1>2, <1>4 DEF HandoffInv, RowsOK
  <2>6. \A d \in Couriers : courier[d].handoff = g => courier[d].pm \notin Registered
    BY <1>4, MineOK DEF CourierOK
  <2>7. PmKeeps(c)
    <3> SUFFICES ASSUME NEW d \in Couriers
                 PROVE  LET h == courier[d].handoff IN
                        /\ h \in Handoffs /\ work[h] # NoRow => work'[h] # NoRow
                        /\ courier[d].pm \in Registered => work'[h] = work[h]
      BY <1>2 DEF PmKeeps
    <3>1. courier[d].pm \in Registered => courier[d].handoff \in Handoffs
      BY MineOK DEF CourierOK, Registered, Placed
    <3> QED BY <1>4, <2>4, <2>6, <3>1
  <2>8. CourierOK(k, handoff, relayed, work', planned')
    <3> HIDE DEF j
    <3> QED BY <1>1, <1>2, <2>2, <2>3, <2>4, <2>5 DEF CourierOK, PmFields, Placed
  <2>9. \A h \in Handoffs : Works(k, h) => \A d \in Couriers : d # c => ~ Works(courier[d], h)
    BY <2>3, <2>6 DEF Works, PmFields
  <2>10. RowTypes'
    BY <1>2, <2>4 DEF HandoffInv, RowTypes
  <2>11. RowsOK'
    BY <1>2, <1>4, <2>2, <2>4 DEF HandoffInv, RowsOK
  <2> QED BY <1>2, <2>1, <2>3, <2>7, <2>8, <2>9, <2>10, <2>11, PmWrites DEF PmFields
<1> QED BY <1>3, <1>4

LEMMA PmProjectStep ==
  ASSUME HandoffInv, NEW c \in Couriers, PmProject(c)
  PROVE  HandoffInv'
<1> DEFINE j == courier[c]
<1>1. j \in Courier /\ CourierOK(j, handoff, relayed, work, planned)
  BY MineOK
<1>2. j.pm = "project" /\ UNCHANGED handoffRows
  BY DEF PmProject
<1>3. PICK p \in {"plan", "create"}, v \in 1..MaxProjects :
        Go(c, [j EXCEPT !.pm = p, !.project = v])
  <2>1. CASE intent # NoRow /\ intent.project # 0
    <3>1. intent.project \in 1..MaxProjects
      BY <2>1, MaxProjectsAssumption DEF HandoffInv, RowTypes, IntentRow
    <3> QED BY <2>1, <3>1 DEF PmProject
  <2>2. CASE ~ (intent # NoRow /\ intent.project # 0)
    <3>1. projects + 1 \in 1..MaxProjects
      BY <2>2, MaxProjectsAssumption DEF HandoffInv, RowTypes, PmProject
    <3> QED BY <2>2, <3>1 DEF PmProject
  <2> QED BY <2>1, <2>2
<1> DEFINE k == [j EXCEPT !.pm = p, !.project = v]
<1>4. p \in Pms /\ v \in Numbers
  BY Values, MaxProjectsAssumption DEF Numbers
<1>5. PmFields(k, j, p, v) /\ Go(c, k)
  <2> HIDE DEF j
  <2> QED BY <1>1, <1>3, <1>4, PmMoves
<1> HIDE DEF j, k
<1>6. CourierOK(k, handoff, relayed, work, planned)
  BY <1>1, <1>2, <1>5 DEF CourierOK, PmFields, Registered, Placed
<1>7. \A h : (Holds(k, h) => Holds(j, h)) /\ (Works(k, h) => Works(j, h))
  BY <1>2, <1>5 DEF Holds, Works, PmFields, Registered
<1> QED BY <1>2, <1>5, <1>6, <1>7, OnlyMoves DEF j

\* A step between registering a package and planning it.
LEMMA PmGoesOn ==
  ASSUME HandoffInv, NEW c \in Couriers, NEW p \in Placed, p # "map",
         courier[c].pm \in Placed, courier[c].pm # "map",
         Go(c, [courier[c] EXCEPT !.pm = p]),
         UNCHANGED <<handoff, relayed, work, planned>>,
         intent' \in IntentRow \cup {NoRow}, projects' \in 0..MaxProjects
  PROVE  HandoffInv'
<1> DEFINE j == courier[c]
           k == [j EXCEPT !.pm = p]
<1>1. j \in Courier /\ CourierOK(j, handoff, relayed, work, planned)
  BY MineOK
<1>2. p \in Pms
  BY Values DEF Placed
<1>3. PmFields(k, j, p, j.project)
  <2> HIDE DEF j
  <2> QED BY <1>1, <1>2, PmMoves, CourierType
<1>4. Go(c, k)
  OBVIOUS
<1> HIDE DEF k
<1>5. CourierOK(k, handoff, relayed, work, planned)
  <2>1. /\ p \in Registered /\ j.pm \in Registered /\ j.pm \in Placed
        /\ p # "idle" /\ j.pm # "idle" /\ p # "map" /\ j.pm # "map"
    BY DEF Registered, Placed
  <2> HIDE DEF j
  <2> QED BY <1>1, <1>3, <2>1 DEF CourierOK, PmFields
<1>6. courier[c].pm \in Registered
  BY DEF Registered
<1> QED BY <1>3, <1>4, <1>5, <1>6, PmLeavesWork DEF PmFields

\* A unique key was taken.
LEMMA PmRefused ==
  ASSUME HandoffInv, NEW c \in Couriers, PmAnswers(c, "error"), courier[c].pm # "idle",
         UNCHANGED <<handoff, relayed, work, intent, projects, planned>>
  PROVE  HandoffInv'
BY PmRefuses DEF handoffRows, pmRows

LEMMA PmCreateStep ==
  ASSUME HandoffInv, NEW c \in Couriers, PmCreate(c)
  PROVE  HandoffInv'
<1> DEFINE j == courier[c]
<1>1. CourierOK(j, handoff, relayed, work, planned)
  BY MineOK
<1>2. j.pm = "create" /\ UNCHANGED <<handoff, relayed, work, intent, planned>>
  BY DEF PmCreate
<1>3. CASE j.project <= projects
  BY <1>2, <1>3, PmRefused DEF PmCreate
<1>4. CASE ~ (j.project <= projects)
  <2>1. projects' = j.project /\ Go(c, [j EXCEPT !.pm = "find_intent"])
    BY <1>4 DEF PmCreate
  <2>2. "create" \in Placed /\ "find_intent" \in Placed
    BY DEF Placed
  <2>3. projects' \in 0..MaxProjects
    BY <1>1, <1>2, <2>1, <2>2, MaxProjectsAssumption DEF CourierOK
  <2>4. intent' \in IntentRow \cup {NoRow}
    BY <1>2 DEF HandoffInv, RowTypes
  <2> QED BY <1>2, <2>1, <2>2, <2>3, <2>4, PmGoesOn
<1> QED BY <1>3, <1>4

LEMMA PmFindIntentStep ==
  ASSUME HandoffInv, NEW c \in Couriers, PmFindIntent(c)
  PROVE  HandoffInv'
<1>1. PICK p \in {"record", "attach"} : Go(c, [courier[c] EXCEPT !.pm = p])
  BY DEF PmFindIntent
<1>2. courier[c].pm = "find_intent" /\ UNCHANGED <<handoff, relayed, work, intent, projects, planned>>
  BY DEF PmFindIntent, handoffRows, pmRows
<1>3. "find_intent" \in Placed /\ p \in Placed /\ p # "map"
  BY DEF Placed
<1>4. intent' \in IntentRow \cup {NoRow} /\ projects' \in 0..MaxProjects
  BY <1>2 DEF HandoffInv, RowTypes
<1> QED BY <1>1, <1>2, <1>3, <1>4, PmGoesOn

LEMMA PmRecordStep ==
  ASSUME HandoffInv, NEW c \in Couriers, PmRecord(c)
  PROVE  HandoffInv'
<1>1. courier[c].pm = "record" /\ UNCHANGED <<handoff, relayed, work, projects, planned>>
  BY DEF PmRecord
<1>2. CASE intent # NoRow
  BY <1>1, <1>2, PmRefused DEF PmRecord
<1>3. CASE intent = NoRow
  <2>1. /\ intent' = [status |-> "RECEIVED", project |-> 0]
        /\ Go(c, [courier[c] EXCEPT !.pm = "attach"])
    BY <1>3 DEF PmRecord
  <2>2. intent' \in IntentRow \cup {NoRow} /\ projects' \in 0..MaxProjects
    BY <1>1, <2>1, MaxProjectsAssumption DEF HandoffInv, RowTypes, IntentRow
  <2>3. "record" \in Placed /\ "attach" \in Placed
    BY DEF Placed
  <2> QED BY <1>1, <2>1, <2>2, <2>3, PmGoesOn
<1> QED BY <1>2, <1>3

LEMMA PmAttachStep ==
  ASSUME HandoffInv, NEW c \in Couriers, PmAttach(c)
  PROVE  HandoffInv'
<1>1. /\ courier[c].pm = "attach" /\ UNCHANGED <<handoff, relayed, work, projects, planned>>
      /\ intent' = [status |-> "MAPPED", project |-> courier[c].project]
      /\ Go(c, [courier[c] EXCEPT !.pm = "plan"])
  BY DEF PmAttach
<1>2. "attach" \in Placed /\ "plan" \in Placed
  BY DEF Placed
<1>3. courier[c].project \in 0..MaxProjects
  <2>1. CourierOK(courier[c], handoff, relayed, work, planned)
    BY MineOK
  <2>2. courier[c].project \in 1..MaxProjects
    BY <1>1, <1>2, <2>1 DEF CourierOK
  <2> QED BY <2>2, MaxProjectsAssumption
<1>4. intent' \in IntentRow \cup {NoRow} /\ projects' \in 0..MaxProjects
  BY <1>1, <1>3 DEF HandoffInv, RowTypes, IntentRow
<1> QED BY <1>1, <1>2, <1>4, PmGoesOn

LEMMA PmPlanStep ==
  ASSUME HandoffInv, NEW c \in Couriers, PmPlan(c)
  PROVE  HandoffInv'
<1> DEFINE j == courier[c]
           g == j.handoff
           k == [j EXCEPT !.pm = "map"]
<1>1. j \in Courier /\ CourierOK(j, handoff, relayed, work, planned)
  BY MineOK
<1>2. /\ j.pm = "plan" /\ Go(c, k) /\ UNCHANGED <<handoff, relayed, work, intent, projects>>
      /\ planned' = [planned EXCEPT ![g] = @ \cup {j.project}]
  BY DEF PmPlan, PlannedIn
<1>3. "plan" \in Placed /\ "plan" \in Registered /\ "map" \in Placed /\ "map" \in Registered
  BY DEF Registered, Placed
<1>4. /\ g \in Handoffs /\ work[g] # NoRow /\ work[g].status = "RECEIVED"
      /\ planned[g] = {} /\ j.project \in 1..MaxProjects /\ j.stamp \in Stamps
  BY <1>1, <1>2, <1>3 DEF CourierOK
<1>5. PmFields(k, j, "map", j.project)
  <2> HIDE DEF j
  <2> QED BY <1>1, PmMoves, Values, CourierType
<1> HIDE DEF k
<1>6. /\ planned' \in [Handoffs -> SUBSET (1..MaxProjects)]
      /\ planned'[g] = {j.project} /\ \A x \in Handoffs : x # g => planned'[x] = planned[x]
  BY <1>2, <1>4 DEF HandoffInv, RowTypes
<1>7. \A d \in Couriers : d # c /\ courier[d].handoff = g => courier[d].pm \notin Registered
  BY <1>2, <1>3, <1>4 DEF HandoffInv, Alone, Works
<1>8. PmKeeps(c)
  <2> SUFFICES ASSUME NEW d \in Couriers, d # c, courier[d].pm \in Registered
               PROVE  planned'[courier[d].handoff] = planned[courier[d].handoff]
    BY <1>2 DEF PmKeeps
  <2>1. courier[d].handoff \in Handoffs
    BY MineOK DEF CourierOK, Registered, Placed
  <2> QED BY <1>6, <1>7, <2>1
<1>9. CourierOK(k, handoff, relayed, work', planned')
  <2> HIDE DEF j
  <2> QED BY <1>1, <1>2, <1>3, <1>4, <1>5, <1>6 DEF CourierOK, PmFields
<1>10. \A h \in Handoffs : Works(k, h) => \A d \in Couriers : d # c => ~ Works(courier[d], h)
  BY <1>5, <1>7 DEF Works, PmFields
<1>11. RowTypes'
  BY <1>2, <1>6 DEF HandoffInv, RowTypes
<1>12. RowsOK'
  BY <1>2, <1>4, <1>6 DEF HandoffInv, RowsOK
<1> QED BY <1>2, <1>5, <1>8, <1>9, <1>10, <1>11, <1>12, PmWrites DEF PmFields

LEMMA PmMapStep ==
  ASSUME HandoffInv, NEW c \in Couriers, PmMap(c)
  PROVE  HandoffInv'
<1> DEFINE j == courier[c]
           g == j.handoff
           r == [work[g] EXCEPT !.status = "MAPPED", !.project = j.project]
           k == [j EXCEPT !.pm = "idle", !.stamp = "NONE", !.project = 0, !.pmAnswer = "reference"]
<1>1. j \in Courier /\ CourierOK(j, handoff, relayed, work, planned)
  BY MineOK
<1>2. /\ j.pm = "map" /\ Go(c, k) /\ UNCHANGED <<handoff, relayed, intent, projects, planned>>
      /\ work' = [work EXCEPT ![g] = r]
  BY DEF PmMap, PmAnswers
<1>3. "map" \in Placed /\ "map" \in Registered
  BY DEF Registered, Placed
<1>4. /\ g \in Handoffs /\ work[g] # NoRow /\ planned[g] = {j.project}
      /\ j.project \in 0..MaxProjects
  BY <1>1, <1>2, <1>3, MaxProjectsAssumption DEF CourierOK
<1>5. work[g] \in WorkRow
  BY <1>4 DEF HandoffInv, RowTypes
<1>6. r \in WorkRow /\ r.status = "MAPPED" /\ r.project = j.project /\ r # NoRow
  <2> HIDE DEF g, j
  <2> QED BY <1>4, <1>5 DEF WorkRow, NoRow
<1>7. PmDone(k, j, "reference")
  <2> HIDE DEF j
  <2> QED BY <1>1, PmAnswered, Values
<1> HIDE DEF k, r
<1>8. /\ work' \in [Handoffs -> WorkRow \cup {NoRow}] /\ work'[g] = r
      /\ \A x \in Handoffs : x # g => work'[x] = work[x]
  BY <1>2, <1>4, <1>6 DEF HandoffInv, RowTypes
<1>9. \A d \in Couriers : d # c /\ courier[d].handoff = g => courier[d].pm \notin Registered
  BY <1>2, <1>3, <1>4 DEF HandoffInv, Alone, Works
<1>10. PmKeeps(c)
  <2> SUFFICES ASSUME NEW d \in Couriers, d # c
               PROVE  LET h == courier[d].handoff IN
                      /\ h \in Handoffs /\ work[h] # NoRow => work'[h] # NoRow
                      /\ courier[d].pm \in Registered => work'[h] = work[h]
    BY <1>2 DEF PmKeeps
  <2>1. courier[d].pm \in Registered => courier[d].handoff \in Handoffs
    BY MineOK DEF CourierOK, Registered, Placed
  <2> QED BY <1>6, <1>8, <1>9, <2>1
<1>11. CourierOK(k, handoff, relayed, work', planned')
  <2> HIDE DEF j
  <2> QED BY <1>1, <1>2, <1>4, <1>6, <1>7, <1>8 DEF CourierOK, PmDone, Registered, Placed
<1>12. \A h : ~ Works(k, h)
  BY <1>7 DEF Works, PmDone, Registered, Placed
<1>13. RowTypes'
  BY <1>2, <1>8 DEF HandoffInv, RowTypes
<1>14. RowsOK'
  <2> HIDE DEF g, j
  <2>1. /\ planned[g] = {work'[g].project} /\ work'[g] # NoRow
        /\ \A p, q \in planned[g] : p = q
    BY <1>4, <1>6, <1>8
  <2> QED BY <1>2, <1>8, <2>1 DEF HandoffInv, RowsOK
<1> QED BY <1>2, <1>7, <1>10, <1>11, <1>12, <1>13, <1>14, PmWrites DEF PmDone

LEMMA OtherPackageStep == HandoffInv /\ OtherPackage => HandoffInv'
<1> SUFFICES ASSUME HandoffInv, OtherPackage PROVE HandoffInv'
  OBVIOUS
<1>1. UNCHANGED <<handoff, relayed, work, planned, courier>>
  BY DEF OtherPackage
<1>2. intent' \in IntentRow \cup {NoRow} /\ projects' \in 0..MaxProjects
  BY MaxProjectsAssumption DEF HandoffInv, RowTypes, IntentRow, OtherPackage
<1>3. RowTypes' /\ RowsOK'
  BY <1>1, <1>2 DEF HandoffInv, RowTypes, RowsOK
<1>4. CouriersOK' /\ Alone'
  BY <1>1 DEF HandoffInv, CouriersOK, Alone
<1> QED BY <1>3, <1>4 DEF HandoffInv

-----------------------------------------------------------------------------
(* A machine stops *)

\* Every delivery becomes one that relies on no more than it did.
LEMMA AllMove ==
  ASSUME HandoffInv, NEW f, courier' = [c \in Couriers |-> Tidy(f[c])], UNCHANGED handoffRows,
         \A c \in Couriers :
           /\ CourierOK(f[c], handoff, relayed, work, planned)
           /\ \A h : (Holds(f[c], h) => Holds(courier[c], h)) /\
                     (Works(f[c], h) => Works(courier[c], h))
  PROVE  HandoffInv'
<1>1. UNCHANGED <<handoff, relayed, work, intent, projects, planned>>
  BY DEF handoffRows, pmRows
<1>2. RowTypes' /\ RowsOK'
  BY <1>1 DEF HandoffInv, RowTypes, RowsOK
<1>3. \A c \in Couriers : CourierOK(courier'[c], handoff, relayed, work, planned)
  BY TidyOK
<1>4. CouriersOK'
  BY <1>1, <1>3 DEF CouriersOK
<1>5. \A c \in Couriers, h \in Handoffs :
        /\ Holds(courier'[c], h) => Holds(courier[c], h)
        /\ Works(courier'[c], h) => Works(courier[c], h)
  BY TidyOK
<1>6. Alone'
  BY <1>5 DEF HandoffInv, Alone
<1> QED BY <1>2, <1>4, <1>6 DEF HandoffInv

LEMMA DocumentStopsStep == HandoffInv /\ DocumentStops => HandoffInv'
<1> SUFFICES ASSUME HandoffInv, DocumentStops PROVE HandoffInv'
  OBVIOUS
<1> DEFINE f == [c \in Couriers |-> [courier[c] EXCEPT !.deliver = "idle", !.held = "NONE"]]
<1>1. courier' = [c \in Couriers |-> Tidy(f[c])] /\ UNCHANGED handoffRows
  BY DEF DocumentStops
<1>2. ASSUME NEW c \in Couriers
      PROVE  /\ CourierOK(f[c], handoff, relayed, work, planned)
             /\ \A h : (Holds(f[c], h) => Holds(courier[c], h)) /\
                       (Works(f[c], h) => Works(courier[c], h))
  <2> DEFINE j == courier[c]
             k == [j EXCEPT !.deliver = "idle", !.held = "NONE"]
  <2>1. j \in Courier /\ CourierOK(j, handoff, relayed, work, planned)
    BY MineOK
  <2>2. f[c] = k
    OBVIOUS
  <2>3. /\ k \in Courier /\ k.handoff = j.handoff /\ k.deliver = "idle" /\ k.relay = j.relay
        /\ k.found = j.found /\ k.pm = j.pm /\ k.stamp = j.stamp /\ k.project = j.project
        /\ k.answer = j.answer /\ k.pmAnswer = j.pmAnswer
    <3> HIDE DEF j
    <3> QED BY <2>1, CourierType, Values
  <2> HIDE DEF f, j, k
  <2>4. CourierOK(k, handoff, relayed, work, planned)
    BY <2>1, <2>3 DEF CourierOK
  <2>5. \A h : (Holds(k, h) => Holds(j, h)) /\ (Works(k, h) => Works(j, h))
    BY <2>3 DEF Holds, Works
  <2> QED BY <2>2, <2>4, <2>5 DEF j
<1> HIDE DEF f
<1> QED BY <1>1, <1>2, AllMove

LEMMA ConductorStopsStep == HandoffInv /\ ConductorStops => HandoffInv'
<1> SUFFICES ASSUME HandoffInv, ConductorStops PROVE HandoffInv'
  OBVIOUS
<1> DEFINE f == [c \in Couriers |-> [courier[c] EXCEPT !.relay = "idle", !.found = "NONE"]]
<1>1. courier' = [c \in Couriers |-> Tidy(f[c])] /\ UNCHANGED handoffRows
  BY DEF ConductorStops
<1>2. ASSUME NEW c \in Couriers
      PROVE  /\ CourierOK(f[c], handoff, relayed, work, planned)
             /\ \A h : (Holds(f[c], h) => Holds(courier[c], h)) /\
                       (Works(f[c], h) => Works(courier[c], h))
  <2> DEFINE j == courier[c]
             k == [j EXCEPT !.relay = "idle", !.found = "NONE"]
  <2>1. j \in Courier /\ CourierOK(j, handoff, relayed, work, planned)
    BY MineOK
  <2>2. f[c] = k
    OBVIOUS
  <2>3. /\ k \in Courier /\ k.handoff = j.handoff /\ k.deliver = j.deliver /\ k.relay = "idle"
        /\ k.pm = j.pm /\ k.stamp = j.stamp /\ k.project = j.project
        /\ k.answer = j.answer /\ k.pmAnswer = j.pmAnswer
    <3> HIDE DEF j
    <3> QED BY <2>1, CourierType, Values
  <2> HIDE DEF f, j, k
  <2>4. CourierOK(k, handoff, relayed, work, planned)
    BY <2>1, <2>3 DEF CourierOK, Relaying
  <2>5. \A h : (Holds(k, h) => Holds(j, h)) /\ (Works(k, h) => Works(j, h))
    BY <2>3 DEF Holds, Works, Relaying
  <2> QED BY <2>2, <2>4, <2>5 DEF j
<1> HIDE DEF f
<1> QED BY <1>1, <1>2, AllMove

LEMMA PmStopsStep == HandoffInv /\ PmStops => HandoffInv'
<1> SUFFICES ASSUME HandoffInv, PmStops PROVE HandoffInv'
  OBVIOUS
<1> DEFINE f == [c \in Couriers |->
                   [courier[c] EXCEPT !.pm = "idle", !.stamp = "NONE", !.project = 0]]
<1>1. courier' = [c \in Couriers |-> Tidy(f[c])] /\ UNCHANGED handoffRows
  BY DEF PmStops
<1>2. ASSUME NEW c \in Couriers
      PROVE  /\ CourierOK(f[c], handoff, relayed, work, planned)
             /\ \A h : (Holds(f[c], h) => Holds(courier[c], h)) /\
                       (Works(f[c], h) => Works(courier[c], h))
  <2> DEFINE j == courier[c]
             k == [j EXCEPT !.pm = "idle", !.stamp = "NONE", !.project = 0]
  <2>1. j \in Courier /\ CourierOK(j, handoff, relayed, work, planned)
    BY MineOK
  <2>2. f[c] = k
    OBVIOUS
  <2>3. PmDone(k, j, j.pmAnswer)
    <3> HIDE DEF j
    <3> QED BY <2>1, CourierType, Values DEF PmDone
  <2> HIDE DEF f, j, k
  <2>4. CourierOK(k, handoff, relayed, work, planned)
    BY <2>1, <2>3 DEF CourierOK, PmDone, Registered, Placed
  <2>5. \A h : (Holds(k, h) => Holds(j, h)) /\ (Works(k, h) => Works(j, h))
    BY <2>3 DEF Holds, Works, PmDone, Registered, Placed
  <2> QED BY <2>2, <2>4, <2>5 DEF j
<1> HIDE DEF f
<1> QED BY <1>1, <1>2, AllMove

-----------------------------------------------------------------------------
(* Every step, and the theorems *)

LEMMA NextHandoffInv == HandoffInv /\ [HandoffNext]_handoffVars => HandoffInv'
<1> SUFFICES ASSUME HandoffInv, [HandoffNext]_handoffVars PROVE HandoffInv'
  OBVIOUS
<1>1. CASE UNCHANGED handoffVars
  <2>1. UNCHANGED <<handoff, relayed, work, intent, projects, planned, courier>>
    BY <1>1 DEF handoffVars, handoffRows, pmRows
  <2> QED BY <2>1 DEF HandoffInv, RowTypes, RowsOK, CouriersOK, Alone
<1>2. ASSUME NEW h \in Handoffs, CreateHandoff(h) PROVE HandoffInv'
  BY <1>2, CreateHandoffStep
<1>3. ASSUME NEW c \in Couriers,
             \/ BeginDeliver(c) \/ Queue(c) \/ DeliverFails(c) \/ DeliverAcknowledged(c)
             \/ RelayLookup(c) \/ RelayInsert(c) \/ Dispatch(c) \/ DispatchFails(c) \/ Dispatched(c)
             \/ PmLookup(c) \/ PmRegister(c) \/ PmProject(c) \/ PmCreate(c)
             \/ PmFindIntent(c) \/ PmRecord(c) \/ PmAttach(c) \/ PmPlan(c) \/ PmMap(c)
      PROVE  HandoffInv'
  BY <1>3, BeginDeliverStep, QueueStep, DeliverFailsStep, DeliverAcknowledgedStep,
     RelayLookupStep, RelayInsertStep, DispatchStep, DispatchFailsStep, DispatchedStep,
     PmLookupStep, PmRegisterStep, PmProjectStep, PmCreateStep, PmFindIntentStep,
     PmRecordStep, PmAttachStep, PmPlanStep, PmMapStep
<1>4. CASE OtherPackage \/ DocumentStops \/ ConductorStops \/ PmStops
  BY <1>4, OtherPackageStep, DocumentStopsStep, ConductorStopsStep, PmStopsStep
<1> QED BY <1>1, <1>2, <1>3, <1>4 DEF HandoffNext

LEMMA HandoffInvAlways == HandoffSpec => []HandoffInv
BY InitHandoffInv, NextHandoffInv, PTL DEF HandoffSpec

\* No reference is made up: what Document Again shows, Conductor has relayed, and what
\* Conductor has relayed, PM Again has registered (services.py:5397, document_handoff.py:208).
THEOREM ReferencesAreReal == HandoffSpec => []ReferenceIsReal
<1>1. HandoffInv => ReferenceIsReal
  BY DEF HandoffInv, RowsOK, ReferenceIsReal
<1> QED BY <1>1, HandoffInvAlways, PTL

\* A package is planned in one project at most, and MAPPED only after its tasks are in
\* that project's file, whoever stops and however often it is sent (mapping_service.py:237).
THEOREM PlannedBeforeMapped == HandoffSpec => []MappedIsPlanned
<1>1. HandoffInv => MappedIsPlanned
  BY DEF HandoffInv, RowsOK, MappedIsPlanned
<1> QED BY <1>1, HandoffInvAlways, PTL

\* Conductor's acknowledgement is never taken back by a retry that was already on its
\* way and failed (document_handoff.py:201).
THEOREM AcknowledgedForGood == HandoffSpec => RelayAckIsFinal
<1> DEFINE Final == \A h \in Handoffs :
                      relayed[h].status = "ACKNOWLEDGED" => relayed'[h] = relayed[h]
<1>1. HandoffInv /\ [HandoffNext]_handoffVars => [Final]_handoffVars
  <2> SUFFICES ASSUME HandoffInv, HandoffNext, NEW h \in Handoffs,
                      relayed[h].status = "ACKNOWLEDGED"
               PROVE  relayed'[h] = relayed[h]
    OBVIOUS
  <2>1. relayed[h] # NoRow
    BY DEF NoRow
  <2>2. ASSUME NEW c \in Couriers, RelayInsert(c) PROVE relayed'[h] = relayed[h]
    BY <2>1, <2>2 DEF RelayInsert, HandoffInv, RowTypes
  <2>3. ASSUME NEW c \in Couriers, DispatchFails(c) PROVE relayed'[h] = relayed[h]
    <3>1. courier[c].relay \in Relaying
      BY <2>3 DEF DispatchFails, Relaying
    <3>2. CourierOK(courier[c], handoff, relayed, work, planned)
      BY MineOK
    <3>3. FailedIsNews(c) => courier[c].handoff # h
      BY <3>1, <3>2 DEF FailedIsNews, CourierOK
    <3> QED BY <2>3, <3>3 DEF DispatchFails, HandoffInv, RowTypes
  <2>4. ASSUME NEW c \in Couriers, Dispatched(c) PROVE relayed'[h] = relayed[h]
    <3> DEFINE r == [status |-> "ACKNOWLEDGED", reference |-> TRUE]
    <3>1. relayed[h].reference /\ relayed[h] \in RelayRow
      BY <2>1 DEF HandoffInv, RowTypes, RowsOK
    <3>2. relayed[h] = r
      BY <3>1 DEF RelayRow
    <3>3. relayed' = [relayed EXCEPT ![courier[c].handoff] = r]
      BY <2>4 DEF Dispatched
    <3> HIDE DEF r
    <3> QED BY <3>2, <3>3 DEF HandoffInv, RowTypes
  <2> QED BY <2>2, <2>3, <2>4
       DEF HandoffNext, CreateHandoff, BeginDeliver, Queue, DeliverFails, DeliverAcknowledged,
           RelayLookup, Dispatch, PmLookup, PmRegister, PmProject, PmCreate, PmFindIntent,
           PmRecord, PmAttach, PmPlan, PmMap, OtherPackage, DocumentStops, ConductorStops,
           PmStops, handoffRows, pmRows
<1>2. HandoffSpec => [][Final]_handoffVars
  BY <1>1, HandoffInvAlways, PTL DEF HandoffSpec
<1> QED BY <1>2 DEF RelayAckIsFinal
=============================================================================
