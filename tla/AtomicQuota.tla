---------------------------- MODULE AtomicQuota ----------------------------
(***************************************************************************)
(* What the monthly quota promises a metered call (store/quota.py,         *)
(* `consume`: "Consume every applicable allowance in one rollback-safe     *)
(* transaction").  A call is settled in one step: it pays every counter it *)
(* owes, all of them having room for the whole cost, or it pays none.      *)
(* Counters are kept by month; a call pays those of the month it asked in. *)
(***************************************************************************)
EXTENDS Naturals

CONSTANTS Calls,   \* metered calls
          Rows,    \* counter rows, one for each subject, kind and month
          Owed,    \* Owed[c][m]: the rows call c pays when it asks in month m
          Cost,    \* Cost[c]: the units call c spends against every row
          Cap,     \* Cap[row]: the limit configured for a row
          Months   \* the number of months considered

VARIABLES used,    \* used[row]: the units spent
          verdict, \* verdict[c]: what call c was told
          asked    \* asked[c]: the month in which c asked, 0 before it does

vars == <<used, verdict, asked>>

Init ==
    /\ used = [row \in Rows |-> 0]
    /\ verdict = [c \in Calls |-> "none"]
    /\ asked = [c \in Calls |-> 0]

\* Months only move on: a call asks no earlier than those before it.
Ask(c) ==
    /\ asked[c] = 0
    /\ asked'[c] \in 1..Months
    /\ \A d \in Calls : asked[d] <= asked'[c]
    /\ asked' = [asked EXCEPT ![c] = asked'[c]]
    /\ UNCHANGED <<used, verdict>>

Open(c) == asked[c] # 0 /\ verdict[c] = "none"

\* Every row has room: all are charged.  The caller may never hear of it, when
\* the connection is lost after the commit.
Admit(c) ==
    /\ Open(c)
    /\ \A row \in Owed[c][asked[c]] : used[row] + Cost[c] <= Cap[row]
    /\ used' = [row \in Rows |-> IF row \in Owed[c][asked[c]]
                                    THEN used[row] + Cost[c] ELSE used[row]]
    /\ \E v \in {"admitted", "uncertain"} : verdict' = [verdict EXCEPT ![c] = v]
    /\ UNCHANGED asked

\* A refusal is for a row that really is full, and charges nothing.
Refuse(c) ==
    /\ Open(c)
    /\ \E row \in Owed[c][asked[c]] : used[row] + Cost[c] > Cap[row]
    /\ verdict' = [verdict EXCEPT ![c] = "refused"]
    /\ UNCHANGED <<used, asked>>

\* The database fails the call, which then charges nothing.
Fail(c) ==
    /\ Open(c)
    /\ verdict' = [verdict EXCEPT ![c] = "failed"]
    /\ UNCHANGED <<used, asked>>

Next == \E c \in Calls : Ask(c) \/ Admit(c) \/ Refuse(c) \/ Fail(c)

Spec == Init /\ [][Next]_vars
=============================================================================
