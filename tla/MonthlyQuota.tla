---------------------------- MODULE MonthlyQuota ----------------------------
(***************************************************************************)
(* The monthly cost limits (store/quota.py, tables/quota.py).  A metered   *)
(* call charges up to six counters, one upsert after another in one        *)
(* transaction: the deployment's and the caller's operations, then both    *)
(* for writes or both for web calls.  An upsert waits for the row's lock,  *)
(* and spends only if the row has room for the whole cost; the first full  *)
(* row raises QuotaExceededError, which rolls the others back.  A          *)
(* serialization failure (CockroachDB) rolls back and tries again.         *)
(*                                                                         *)
(* The counters are charged in one fixed order for every call, so a rank   *)
(* 1..6 names a counter of a call.  A row is locked by the transaction     *)
(* that has charged it and has not ended.                                  *)
(***************************************************************************)
EXTENDS Naturals, FiniteSets

CONSTANTS Users,         \* callers
          System,        \* the subject of the deployment's own counters
          MeteredCalls,  \* metered calls, each made once
          UserOf,        \* UserOf[c]: its caller
          ClassOf,       \* ClassOf[c]: "read", "keep" or "web"
          Cost,          \* Cost[c]: units, a provider's own credits for a search
          Total,         \* Total[kind]: the deployment's limit, or NoLimit
          PerUser,       \* PerUser[kind]: a caller's limit, or NoLimit
          NoLimit,
          Attempts,      \* transactions tried for one call
          Months         \* bound: how many months pass

Kinds == {"operation", "keep", "web"}
Ranks == 1..6
Subjects == Users \cup {System}
Rows == Subjects \X Kinds \X (1..Months)

QuotaAssumption ==
    /\ System \notin Users
    /\ UserOf \in [MeteredCalls -> Users]
    /\ ClassOf \in [MeteredCalls -> {"read", "keep", "web"}]
    /\ Cost \in [MeteredCalls -> Nat]
    /\ Total \in [Kinds -> Nat \cup {NoLimit}]
    /\ PerUser \in [Kinds -> Nat \cup {NoLimit}]
    /\ NoLimit \notin Nat
    /\ Attempts \in Nat \ {0}
    /\ Months \in Nat \ {0}

VARIABLES used,     \* used[row]: committed units of one row of monthly_quota_counter
          month,    \* the current month
          phase,    \* phase[c]: where the call is
          period,   \* period[c]: the month it charges, 0 before it begins
          charged,  \* charged[c]: the ranks its open transaction has charged
          attempt   \* attempt[c]: which transaction it is at

quotaVars == <<used, month, phase, period, charged, attempt>>

KindOf(r) == IF r <= 2 THEN "operation" ELSE IF r <= 4 THEN "keep" ELSE "web"
SubjectOf(c, r) == IF r \in {1, 3, 5} THEN System ELSE UserOf[c]
RowOf(c, r, m) == <<SubjectOf(c, r), KindOf(r), m>>
LimitOf(row) == IF row[1] = System THEN Total[row[2]] ELSE PerUser[row[2]]

\* The counters of a call that have a limit at all.
Due(c) == {r \in Ranks :
              /\ KindOf(r) \in {"operation", ClassOf[c]}
              /\ LimitOf(RowOf(c, r, 1)) # NoLimit}

Holds(c, row) == \E r \in charged[c] : RowOf(c, r, period[c]) = row
Locked(c, row) == \E d \in MeteredCalls \ {c} : Holds(d, row)

\* The next counter in the order of `limits`.
Turn(c, r) == r \in Due(c) \ charged[c] /\ \A s \in Due(c) \ charged[c] : r <= s

QuotaInit ==
         /\ used = [row \in Rows |-> 0]
         /\ month = 1
         /\ phase = [c \in MeteredCalls |-> "idle"]
         /\ period = [c \in MeteredCalls |-> 0]
         /\ charged = [c \in MeteredCalls |-> {}]
         /\ attempt = [c \in MeteredCalls |-> 0]

End(c, p) ==
    /\ phase' = [phase EXCEPT ![c] = p]
    /\ charged' = [charged EXCEPT ![c] = {}]

\* The month is read once, before the first transaction.  A call without a
\* limit to keep returns before it opens one.
Begin(c) ==
    /\ phase[c] = "idle"
    /\ Due(c) # {}
    /\ phase' = [phase EXCEPT ![c] = "charging"]
    /\ period' = [period EXCEPT ![c] = month]
    /\ attempt' = [attempt EXCEPT ![c] = 1]
    /\ UNCHANGED <<used, month, charged>>

\* Room for something, whatever the call costs.
AnyRoom(c, row) == used[row] < LimitOf(row)

\* One upsert takes the row's lock and finds room for the whole cost.
Room(c, row) == used[row] + Cost[c] <= LimitOf(row)

Charge(c) ==
    /\ phase[c] = "charging"
    /\ \E r \in Ranks :
          LET row == RowOf(c, r, period[c]) IN
          /\ Turn(c, r)
          /\ ~Locked(c, row)
          /\ Room(c, row)
          /\ charged' = [charged EXCEPT ![c] = @ \cup {r}]
    /\ UNCHANGED <<used, month, phase, period, attempt>>

\* A refusal judged by what other open transactions have spent as well.
RefuseDirty(c) ==
    /\ phase[c] = "charging"
    /\ \E r \in Ranks :
          LET row == RowOf(c, r, period[c]) IN
          /\ Turn(c, r)
          /\ ~Room(c, row) \/ Locked(c, row)
    /\ End(c, "refused")
    /\ UNCHANGED <<used, month, period, attempt>>

Paid(c) == {RowOf(c, r, period[c]) : r \in charged[c]}

\* A refusal that keeps what the transaction had already charged.
RefuseAndKeep(c) ==
    /\ phase[c] = "charging"
    /\ \E r \in Ranks :
          /\ Turn(c, r)
          /\ ~Locked(c, RowOf(c, r, period[c]))
          /\ ~Room(c, RowOf(c, r, period[c]))
    /\ used' = [row \in Rows |-> IF row \in Paid(c) THEN used[row] + Cost[c] ELSE used[row]]
    /\ End(c, "refused")
    /\ UNCHANGED <<month, period, attempt>>

\* No row comes back: QuotaExceededError rolls the transaction back.  A cost above
\* the limit selects no row to insert, so it is refused without waiting for a lock.
Refuse(c) ==
    /\ phase[c] = "charging"
    /\ \E r \in Ranks :
          LET row == RowOf(c, r, period[c]) IN
          /\ Turn(c, r)
          /\ ~Locked(c, row) \/ Cost[c] > LimitOf(row)
          /\ ~Room(c, row)
    /\ End(c, "refused")
    /\ UNCHANGED <<used, month, period, attempt>>

\* The transaction commits; the answer may be lost with the connection.
Commit(c) ==
    /\ phase[c] = "charging"
    /\ charged[c] = Due(c)
    /\ used' = [row \in Rows |-> IF row \in Paid(c) THEN used[row] + Cost[c] ELSE used[row]]
    /\ \E p \in {"admitted", "uncertain"} : End(c, p)
    /\ UNCHANGED <<month, period, attempt>>

\* SQLSTATE 40001: rolled back, and tried again while attempts are left.
Conflict(c) ==
    /\ phase[c] = "charging"
    /\ IF attempt[c] = Attempts
          THEN End(c, "failed") /\ UNCHANGED attempt
          ELSE /\ charged' = [charged EXCEPT ![c] = {}]
               /\ attempt' = [attempt EXCEPT ![c] = @ + 1]
               /\ UNCHANGED phase
    /\ UNCHANGED <<used, month, period>>

\* Any other database error is raised at once.
Break(c) ==
    /\ phase[c] = "charging"
    /\ End(c, "failed")
    /\ UNCHANGED <<used, month, period, attempt>>

NewMonth ==
    /\ month < Months
    /\ month' = month + 1
    /\ UNCHANGED <<used, phase, period, charged, attempt>>

Step(c) == Charge(c) \/ Refuse(c) \/ Commit(c)
QuotaNext ==
    \/ \E c \in MeteredCalls :
         Begin(c) \/ Charge(c) \/ Refuse(c) \/ Commit(c) \/ Conflict(c) \/ Break(c)
    \/ NewMonth

\* A started call is a coroutine the event loop resumes and a statement the
\* database answers: it does not stop in the middle of its own accord.
QuotaSpec == QuotaInit /\ [][QuotaNext]_quotaVars
-----------------------------------------------------------------------------
Settled == {"admitted", "uncertain", "refused", "failed"}

\* Types; an idle call has no month, and only an open transaction charges.
QuotaTypeOK ==
    /\ used \in [Rows -> Nat]
    /\ month \in 1..Months
    /\ phase \in [MeteredCalls -> {"idle", "charging"} \cup Settled]
    /\ period \in [MeteredCalls -> 0..Months]
    /\ charged \in [MeteredCalls -> SUBSET Ranks]
    /\ attempt \in [MeteredCalls -> 0..Attempts]
    /\ \A c \in MeteredCalls : /\ phase[c] = "idle" <=> period[c] = 0
                               /\ charged[c] \subseteq Due(c)
                               /\ charged[c] # {} => phase[c] = "charging"

\* "a limit is never crossed by an operation that happened to be expensive"
\* (MonthlyQuotaCounter.consume), whatever calls overlap, retry or fail, and
\* a counter without a limit is never written.
NeverOver ==
    \A row \in Rows : IF LimitOf(row) = NoLimit THEN used[row] = 0 ELSE used[row] <= LimitOf(row)

\* Rollback-safe: the units of a row are exactly those of the calls that were
\* let through in its month; a refused or failed call left nothing anywhere.
LetThrough(row) == {c \in MeteredCalls : /\ phase[c] \in {"admitted", "uncertain"}
                                         /\ \E r \in Due(c) : RowOf(c, r, period[c]) = row}
Units(c) == {c} \X (1..Cost[c])
UnitsPaid(row) == UNION {Units(c) : c \in LetThrough(row)}
PaidInFull == \A row \in Rows : used[row] = Cardinality(UnitsPaid(row))

\* A metered call that was made and has no verdict.
Charging(c) == phase[c] = "charging"

\* The transaction of upserts implements the one-step quota: whatever it
\* interleaves with, a call is charged or refused as if it had run alone.
Verdict == [c \in MeteredCalls |-> IF phase[c] \in Settled THEN phase[c] ELSE "none"]
Atomic == INSTANCE AtomicQuota WITH
              Calls <- MeteredCalls,
              Owed <- [c \in MeteredCalls |-> [m \in 1..Months |-> {RowOf(c, r, m) : r \in Due(c)}]],
              Cap <- [row \in Rows |-> LimitOf(row)],
              verdict <- Verdict,
              asked <- period
IsAtomic == Atomic!Spec
=============================================================================
