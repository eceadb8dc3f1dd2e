---------------------------- MODULE UsageLedger ----------------------------
(***************************************************************************)
(* Durable usage accounting (usage.py, api/middleware.py, mcp/middleware.py*)
(* and tables/usage.py).  A transport call runs its operation, which may   *)
(* record provider calls of its own, and before its reply is released the  *)
(* recorder enqueues one accounting job, up to `attempts` times.  A worker *)
(* inserts the row and then acknowledges the job; it may crash or be       *)
(* reclaimed in between.                                                   *)
(*                                                                         *)
(* A capture's key holds the request's identity, and for a provider call   *)
(* its step and ordinal too; the ledger's column is Width characters wide. *)
(***************************************************************************)
EXTENDS Naturals

CONSTANTS Calls,        \* transport calls
          Steps,        \* Steps[c]: how many provider calls it records
          StepLength,   \* characters of ":" step ":" ordinal in a step's key
          RequestLength,\* characters of a request key: trace ":" span, or a hex UUID
          Width,        \* capture_key's max_length
          Attempts,     \* recorder attempts
          MaxAttempts,  \* handler attempts before the job is held as failed
          Workers,
          Faults        \* "enqueue", "reply", "crash", "reclaim", "database"

LedgerAssumption ==
    /\ Steps \in [Calls -> Nat]
    /\ StepLength \in Nat /\ RequestLength \in Nat /\ Width \in Nat
    /\ Attempts \in Nat \ {0} /\ MaxAttempts \in Nat \ {0}
    /\ Faults \subseteq {"enqueue", "reply", "crash", "reclaim", "database"}

VARIABLES phase,    \* phase[c]: where the call is
          step,     \* step[c]: provider calls recorded; the call itself is the last capture
          attempt,  \* attempt[c]: the recorder's attempt
          job,      \* job[k]: the accounting job under dedupe key k
          tries,    \* tries[k]: failed handler attempts of that job
          row,      \* row[k]: ledger rows with capture key k
          work,     \* work[w]: the job a worker runs, and whether its row is inserted
          recorded  \* captures whose recording returned
vars == <<phase, step, attempt, job, tries, row, work, recorded>>

\* A key: the call, which of its captures, and which attempt made it (0 always,
\* since the capture is built once before the recorder's loop).
Keys == UNION {{<<c, s, n>> : s \in 0..Steps[c], n \in 0..Attempts} : c \in Calls}
KeyOf(c) == <<c, step[c], 0>>
Own(k) == k[2] = Steps[k[1]]
LengthOf(k) == IF Own(k) THEN RequestLength ELSE RequestLength + StepLength
Idle == [key |-> <<>>, inserted |-> FALSE]

Init ==
    /\ phase = [c \in Calls |-> "idle"]
    /\ step = [c \in Calls |-> 0]
    /\ attempt = [c \in Calls |-> 0]
    /\ job = [k \in Keys |-> "none"]
    /\ tries = [k \in Keys |-> 0]
    /\ row = [k \in Keys |-> 0]
    /\ work = [w \in Workers |-> Idle]
    /\ recorded = {}

\* The operation's next provider call, or its success, reaches the recorder.
Start(c) ==
    /\ phase[c] = "idle"
    /\ phase' = [phase EXCEPT ![c] = "recording"]
    /\ attempt' = [attempt EXCEPT ![c] = 1]
    /\ UNCHANGED <<step, job, tries, row, work, recorded>>

\* A failed operation is not accounted: no reply, or an error status.
OperationFails(c) ==
    /\ phase[c] = "idle"
    /\ phase' = [phase EXCEPT ![c] = "error"]
    /\ UNCHANGED <<step, attempt, job, tries, row, work, recorded>>

\* Enqueue under the capture's key; a job already queued, picked or held under
\* it makes this one a duplicate, which is as good.
Admit(k) ==
    IF job[k] = "none"
       THEN job' = [job EXCEPT ![k] = "queued"] /\ tries' = [tries EXCEPT ![k] = 0]
       ELSE UNCHANGED <<job, tries>>

\* The reply is released only after the call's own capture.
Recorded(c) ==
    /\ recorded' = recorded \cup {KeyOf(c)}
    /\ IF step[c] = Steps[c]
          THEN phase' = [phase EXCEPT ![c] = "replied"] /\ UNCHANGED step
          ELSE phase' = [phase EXCEPT ![c] = "idle"] /\ step' = [step EXCEPT ![c] = @ + 1]

Record(c) ==
    /\ phase[c] = "recording"
    /\ Admit(KeyOf(c))
    /\ Recorded(c)
    /\ UNCHANGED <<attempt, row, work>>

GiveUpOrRetry(c) ==
    IF attempt[c] = Attempts
       THEN phase' = [phase EXCEPT ![c] = "error"] /\ UNCHANGED attempt
       ELSE attempt' = [attempt EXCEPT ![c] = @ + 1] /\ UNCHANGED phase

\* The connection fails before the job is stored, or after.
RecordFails(c) ==
    /\ phase[c] = "recording"
    /\ \/ "enqueue" \in Faults /\ UNCHANGED <<job, tries>>
       \/ "reply" \in Faults /\ Admit(KeyOf(c))
    /\ GiveUpOrRetry(c)
    /\ UNCHANGED <<step, row, work, recorded>>

Pick(w, k) ==
    /\ work[w] = Idle
    /\ job[k] = "queued"
    /\ job' = [job EXCEPT ![k] = "picked"]
    /\ work' = [work EXCEPT ![w] = [key |-> k, inserted |-> FALSE]]
    /\ UNCHANGED <<phase, step, attempt, tries, row, recorded>>

\* The handler's insert: nothing on a conflict of capture_key.
Fits(k) == LengthOf(k) <= Width

Insert(w) ==
    /\ work[w] # Idle /\ ~work[w].inserted
    /\ Fits(work[w].key)
    /\ row' = [row EXCEPT ![work[w].key] = IF @ = 0 THEN 1 ELSE @]
    /\ work' = [work EXCEPT ![w].inserted = TRUE]
    /\ UNCHANGED <<phase, step, attempt, job, tries, recorded>>

\* The job is deleted, whoever runs it by then.  (A later job under its key,
\* which the code would leave, only repeats a row that is there.)
Ack(w) ==
    /\ work[w] # Idle /\ work[w].inserted
    /\ job' = [job EXCEPT ![work[w].key] = "none"]
    /\ work' = [work EXCEPT ![w] = Idle]
    /\ UNCHANGED <<phase, step, attempt, tries, row, recorded>>

\* The handler's transaction fails: a value the column cannot hold, or the
\* database.  The job is tried again and at last held as failed.
HandlerFails(w) ==
    LET k == work[w].key IN
    /\ work[w] # Idle /\ ~work[w].inserted
    /\ "database" \in Faults \/ ~Fits(k)
    /\ tries[k] < MaxAttempts
    /\ tries' = [tries EXCEPT ![k] = @ + 1]
    /\ job' = [job EXCEPT ![k] = IF @ # "picked" THEN @
                                  ELSE IF tries[k] + 1 = MaxAttempts THEN "failed" ELSE "queued"]
    /\ work' = [work EXCEPT ![w] = Idle]
    /\ UNCHANGED <<phase, step, attempt, row, recorded>>

\* A worker dies with its job, or a job is reclaimed while its worker goes on.
Crash(w) ==
    /\ "crash" \in Faults
    /\ work[w] # Idle
    /\ job' = [job EXCEPT ![work[w].key] = IF @ = "picked" THEN "queued" ELSE @]
    /\ work' = [work EXCEPT ![w] = Idle]
    /\ UNCHANGED <<phase, step, attempt, tries, row, recorded>>

Reclaim(k) ==
    /\ "reclaim" \in Faults
    /\ job[k] = "picked"
    /\ job' = [job EXCEPT ![k] = "queued"]
    /\ UNCHANGED <<phase, step, attempt, tries, row, work, recorded>>

CallStep(c) == Start(c) \/ Record(c)
WorkStep(w) == (\E k \in Keys : Pick(w, k)) \/ Insert(w) \/ Ack(w)

Next ==
    \/ \E c \in Calls : CallStep(c) \/ OperationFails(c) \/ RecordFails(c)
    \/ \E w \in Workers : WorkStep(w) \/ HandlerFails(w) \/ Crash(w)
    \/ \E k \in Keys : Reclaim(k)

Spec == Init /\ [][Next]_vars
-----------------------------------------------------------------------------
TypeOK ==
    /\ phase \in [Calls -> {"idle", "recording", "replied", "error"}]
    /\ \A c \in Calls : step[c] \in 0..Steps[c] /\ attempt[c] \in 0..Attempts
    /\ job \in [Keys -> {"none", "queued", "picked", "failed"}]
    /\ tries \in [Keys -> 0..MaxAttempts]
    /\ row \in [Keys -> {0, 1}]
    /\ \A w \in Workers : work[w] = Idle \/ work[w].key \in Keys
    /\ recorded \subseteq Keys

\* "a reply is never delivered before its accounting is durable"
\* (interfaces/http-api.md): its job is in the queue, or its row in the ledger.
DurableBeforeReply ==
    \A c \in Calls : phase[c] = "replied" =>
        \E k \in Keys : k[1] = c /\ Own(k) /\ (job[k] # "none" \/ row[k] = 1)

\* However often the recorder and the workers retry, a capture is one row.
RowsOf(c, s) == {k \in Keys : k[1] = c /\ k[2] = s /\ row[k] = 1}
OneRow == \A c \in Calls : \A s \in 0..Steps[c] : \A k, l \in RowsOf(c, s) : k = l

\* What was recorded is never lost: whoever runs, reclaims or acknowledges its
\* job, the job is held or waits, or the row is there.
Durable(k) == job[k] # "none" \/ row[k] = 1
NothingLost == \A k \in recorded : Durable(k)

\* Why that is so: a job goes only when a worker that has seen its row does, and
\* an attempt that is made again makes no key of its own.
Firsts == {k \in Keys : k[3] = 0}
Run == [key : Firsts, inserted : BOOLEAN]
Kept ==
    /\ job \in [Keys -> {"none", "queued", "picked", "failed"}]
    /\ row \in [Keys -> {0, 1}]
    /\ work \in [Workers -> {Idle} \cup Run]
    /\ \A w \in Workers : work[w] # Idle /\ work[w].inserted => row[work[w].key] = 1
    /\ \A k \in Keys \ Firsts : job[k] = "none" /\ row[k] = 0
Recordings ==
    /\ phase \in [Calls -> {"idle", "recording", "replied", "error"}]
    /\ step \in [Calls -> Nat] /\ \A c \in Calls : step[c] <= Steps[c]
    /\ recorded \subseteq Keys
    /\ \A c \in Calls : phase[c] = "replied" => <<c, Steps[c], 0>> \in recorded
LedgerInv == Kept /\ Recordings /\ NothingLost

\* What the recorder admitted, and what the ledger has.
Admitted(k) == k \in recorded
Booked(k) == row[k] = 1

\* No accounting job ends as a held failure while the database is well: every
\* capture is a row the ledger can take.
NothingHeld == \A k \in Keys : job[k] # "failed"
=============================================================================
