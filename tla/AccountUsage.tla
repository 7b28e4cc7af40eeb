---------------------------- MODULE AccountUsage ----------------------------
(***************************************************************************)
(* Usage records and idempotency keys of Account Again (api/routes.py over *)
(* services/idempotency.py). POST /usage and POST /entitlements/evaluate   *)
(* look a key up, work, and commit the key with what they produced; they   *)
(* share one table of keys. A service's token is checked against its       *)
(* identity first. Callers repeat calls whose answer was lost, under the   *)
(* same key and at the same time, and the service may stop.                *)
(***************************************************************************)
EXTENDS Naturals

CONSTANTS
  UsageKeys,     \* idempotency keys
  Callers,       \* calls served at one time
  MaxUnkeyed     \* bound: usage submitted without a key

Unkeyed == "NO_KEY"

ASSUME UnkeyedAssumption    == Unkeyed \notin UsageKeys
ASSUME MaxUnkeyedAssumption == MaxUnkeyed \in Nat

VARIABLES
  keyRow,     \* IdempotencyRecord rows: what the key was first used for
  usageRows,  \* how many UsageRecord rows were submitted under a key
  identity,   \* ServiceIdentity.status
  token,      \* does the service hold a token that has not expired?
  serving     \* each call: what it does, its key, and its next step

usageVars == <<keyRow, usageRows, identity, token, serving>>

Operations == {"usage", "evaluate"}
KeyedCalls == [does : Operations, key : UsageKeys \cup {Unkeyed}, step : {"check", "commit"}]
NotServing == [step |-> "idle"]

UsageInit ==
  /\ keyRow    = [k \in UsageKeys |-> "free"]
  /\ usageRows = [k \in UsageKeys \cup {Unkeyed} |-> 0]
  /\ identity  = "ACTIVE"
  /\ token     = FALSE
  /\ serving   = [c \in Callers |-> NotServing]

-----------------------------------------------------------------------------

IssueToken ==
  /\ identity = "ACTIVE" /\ ~ token
  /\ token' = TRUE
  /\ UNCHANGED <<keyRow, usageRows, identity, serving>>

TokenExpires ==
  /\ token
  /\ token' = FALSE
  /\ UNCHANGED <<keyRow, usageRows, identity, serving>>

\* No operation makes it ACTIVE again.
RevokeIdentity ==
  /\ identity = "ACTIVE"
  /\ identity' = "REVOKED"
  /\ UNCHANGED <<keyRow, usageRows, token, serving>>

\* /usage requires a token, /entitlements/evaluate takes one if there is one; the
\* identity it names must not have been revoked since.
BeginCall(c) ==
  /\ serving[c] = NotServing
  /\ \E does \in Operations, k \in UsageKeys \cup {Unkeyed} :
       /\ does = "usage" => token /\ identity = "ACTIVE"
       /\ k = Unkeyed => does = "usage" /\ usageRows[Unkeyed] < MaxUnkeyed
       /\ serving' = [serving EXCEPT ![c] = [does |-> does, key |-> k, step |-> "check"]]
  /\ UNCHANGED <<keyRow, usageRows, identity, token>>

\* A key that is known, whatever it was used for, is answered DUPLICATE.
CheckIdempotent(c) ==
  LET q == serving[c] IN
  /\ q.step = "check"
  /\ serving' = [serving EXCEPT ![c] =
       IF q.key \in UsageKeys /\ keyRow[q.key] # "free" THEN NotServing
                                                        ELSE [q EXCEPT !.step = "commit"]]
  /\ UNCHANGED <<keyRow, usageRows, identity, token>>

\* Mutant: the key is an ordinary column.
AnyKey(k) == k \in UsageKeys

KeyIsFree(k) == keyRow[k] = "free"

\* One commit holds the key and the usage record; when the key was taken since the
\* check, the constraint refuses both: 500.
CommitCall(c) ==
  LET q == serving[c] IN
  /\ q.step = "commit"
  /\ IF q.key = Unkeyed \/ KeyIsFree(q.key)
     THEN /\ keyRow'    = [k \in UsageKeys |-> IF k = q.key THEN q.does ELSE keyRow[k]]
          /\ usageRows' = IF q.does = "usage"
                          THEN [usageRows EXCEPT ![q.key] = @ + 1] ELSE usageRows
     ELSE UNCHANGED <<keyRow, usageRows>>
  /\ serving' = [serving EXCEPT ![c] = NotServing]
  /\ UNCHANGED <<identity, token>>

AccountStops ==
  /\ \E c \in Callers : serving[c] # NotServing
  /\ serving' = [c \in Callers |-> NotServing]
  /\ UNCHANGED <<keyRow, usageRows, identity, token>>

UsageNext ==
  \/ IssueToken \/ TokenExpires \/ RevokeIdentity \/ AccountStops
  \/ \E c \in Callers : BeginCall(c) \/ CheckIdempotent(c) \/ CommitCall(c)

UsageSpec == UsageInit /\ [][UsageNext]_usageVars

-----------------------------------------------------------------------------

UsageTypeOK ==
  /\ keyRow \in [UsageKeys -> Operations \cup {"free"}]
  /\ usageRows \in [UsageKeys \cup {Unkeyed} -> Nat]
  /\ identity \in {"ACTIVE", "REVOKED"}
  /\ token \in BOOLEAN
  /\ serving \in [Callers -> KeyedCalls \cup {NotServing}]

\* However often a usage submission is repeated, and however the repeats overlap,
\* it is counted once, and counted whenever its key is on record for usage: the
\* quota adds these rows up (routes.py:916-919, entitlement_engine.py:235-241).
UsageOncePerKey ==
  \A k \in UsageKeys : usageRows[k] = IF keyRow[k] = "usage" THEN 1 ELSE 0

=============================================================================
