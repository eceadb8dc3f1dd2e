---------------------------- MODULE QueueDoctor ----------------------------
(***************************************************************************)
(* `aizk admin queue doctor` (ops/doctor.py) and the reading of it that    *)
(* the worker leaves for the console (ops/snapshot.py), over conversions   *)
(* whose job and whose stored state move while they are read.              *)
(*                                                                         *)
(* One conversion job per artifact content, under its content id; what     *)
(* happens to jobs and contents is PortableQueue and ArtifactLifecycle     *)
(* seen from the doctor.  Ages are in ticks and stop at MaxAge; the        *)
(* diagnosis itself is short on that scale, so no tick falls inside one.   *)
(* The three statements over artifact_content are read at once, which is   *)
(* exact on CockroachDB.  The queue steward, which reads what the worker   *)
(* left, follows as a specification of its own (StewardInit, StewardNext). *)
(***************************************************************************)
EXTENDS Integers, Sequences, FiniteSets, TLC

CONSTANTS
    Contents,     \* artifact_content rows
    Backend,      \* "portable" (CockroachDB) or "pgqueuer"
    Lease,        \* queue_lease_seconds
    StaleAfter, LongRunningAfter,   \* the doctor's windows
    SnapshotStale,  \* doctor_snapshot_stale_minutes
    Readers,      \* who runs it: the worker's snapshot job, an operator
    MaxFaults     \* bound: crashes, lapsed leases and unexpected errors

WindowsAssumption ==
    /\ Backend \in {"portable", "pgqueuer"} /\ Readers \subseteq {"worker", "operator"}
    /\ {Lease, StaleAfter, LongRunningAfter, SnapshotStale} \subseteq Nat \ {0}
    /\ Lease <= StaleAfter /\ StaleAfter <= LongRunningAfter

MaxAge == 1 + (IF StaleAfter + SnapshotStale > LongRunningAfter
               THEN StaleAfter + SnapshotStale ELSE LongRunningAfter)

VARIABLES
    state, quiet,   \* ArtifactContent.state and the age of its updated_at
    hand,           \* the hand-off of a new original to the queue
    job,            \* status, age of heartbeat and of updated of its job
    run, late,      \* the run that holds the lease, and one that lost it
    held,           \* history: for how long a live run has held the lease
    worker,         \* "up" or "down"
    faults,
    reading,        \* the diagnosis in progress
    stored,         \* operator_snapshot: what the worker's last reading says, and its age
    lasting,        \* history: blockers there throughout the reading
    inspection,     \* the steward's inspection in progress, with what it has read
    verdict,        \* severity and action of its last one
    present         \* history: what was wrong all through the inspection

truth == <<state, quiet, hand, job, run, late, held, worker, faults>>
vars == <<truth, reading, stored, lasting>>

NoJob == [status |-> "none", beat |-> 0, age |-> 0]
NoReading == [pc |-> "idle", by |-> "none"]
NoReport == [healthy |-> FALSE, stale |-> FALSE, long |-> FALSE, age |-> 0]

Init ==
    /\ state = [c \in Contents |-> "pending"]
    /\ quiet = [c \in Contents |-> 0]
    /\ hand = [c \in Contents |-> "listed"]
    /\ job = [c \in Contents |-> NoJob]
    /\ run = [c \in Contents |-> "none"] /\ late = [c \in Contents |-> "none"]
    /\ held = [c \in Contents |-> 0]
    /\ worker = "up" /\ faults = 0
    /\ reading = NoReading /\ stored = NoReport /\ lasting = {}

-----------------------------------------------------------------------------
(* The jobs and the contents.                                              *)

Writes(c, s) ==
    /\ state' = [state EXCEPT ![c] = s]
    /\ quiet' = [quiet EXCEPT ![c] = 0]

Puts(c, s) == job' = [job EXCEPT ![c] = [status |-> s, beat |-> 0, age |-> 0]]

Enqueue(c) ==
    /\ hand[c] = "listed" /\ job[c].status = "none"
    /\ Puts(c, "queued")
    /\ hand' = [hand EXCEPT ![c] = "enqueued"]
    /\ UNCHANGED <<state, quiet, run, late, held, worker, faults>>

MarkQueued(c) ==   \* set_state(queued), whatever the worker did meanwhile
    /\ hand[c] = "enqueued"
    /\ Writes(c, "queued")
    /\ hand' = [hand EXCEPT ![c] = "done"]
    /\ UNCHANGED <<job, run, late, held, worker, faults>>

Claim(c) ==
    /\ worker = "up" /\ run[c] = "none" /\ job[c].status = "queued"
    /\ Puts(c, "picked")
    /\ run' = [run EXCEPT ![c] = "claimed"] /\ held' = [held EXCEPT ![c] = 0]
    /\ UNCHANGED <<state, quiet, hand, late, worker, faults>>

\* A step of the run that holds the lease, or of the one that lost it.
Goes(c, from, to) ==
    \/ run[c] = from /\ run' = [run EXCEPT ![c] = to] /\ UNCHANGED late
    \/ late[c] = from /\ late' = [late EXCEPT ![c] = to] /\ UNCHANGED run

Begin(c) ==
    /\ Goes(c, "claimed", "working")
    /\ Writes(c, "processing")
    /\ UNCHANGED <<hand, job, held, worker, faults>>

Settle(c) ==
    /\ \/ \E s \in {"ready", "unreadable"} : Goes(c, "working", "settled") /\ Writes(c, s)
       \/ Goes(c, "working", "failing") /\ Writes(c, "failed")
    /\ UNCHANGED <<hand, job, held, worker, faults>>

Escape(c) ==   \* an error outside what the processor records
    /\ faults < MaxFaults /\ faults' = faults + 1
    /\ \E from \in {"claimed", "working"} : Goes(c, from, "failing")
    /\ UNCHANGED <<state, quiet, hand, job, held, worker>>

Finish(c) ==
    /\ Goes(c, "settled", "none")
    /\ job' = [job EXCEPT ![c] = NoJob]
    /\ UNCHANGED <<state, quiet, hand, held, worker, faults>>

Fail(c) ==
    /\ Goes(c, "failing", "none")
    /\ Puts(c, "queued") \/ Puts(c, "failed")
    /\ UNCHANGED <<state, quiet, hand, held, worker, faults>>

Lapse(c) ==   \* heartbeats come too late: claim() takes the lease away
    /\ worker = "up" /\ run[c] # "none" /\ late[c] = "none"
    /\ faults < MaxFaults /\ faults' = faults + 1
    /\ Puts(c, "queued")
    /\ late' = [late EXCEPT ![c] = run[c]] /\ run' = [run EXCEPT ![c] = "none"]
    /\ UNCHANGED <<state, quiet, hand, held, worker>>

Reclaim(c) ==   \* claim() again, the owner being dead
    /\ worker = "up" /\ run[c] = "none"
    /\ job[c].status = "picked" /\ job[c].beat >= Lease
    /\ Puts(c, "queued")
    /\ UNCHANGED <<state, quiet, hand, run, late, held, worker, faults>>

Retry(c) ==   \* `aizk admin queue retry conversion`
    /\ \/ job[c].status = "failed" /\ Puts(c, "queued") /\ UNCHANGED <<state, quiet>>
       \/ state[c] = "failed" /\ job[c].status = "none" /\ Puts(c, "queued")
          /\ Writes(c, "queued")
    /\ UNCHANGED <<hand, run, late, held, worker, faults>>

Die ==
    /\ worker = "up" /\ worker' = "down"
    /\ faults < MaxFaults /\ faults' = faults + 1
    /\ run' = [c \in Contents |-> "none"] /\ late' = [c \in Contents |-> "none"]
    /\ UNCHANGED <<state, quiet, hand, job, held>>

Start ==
    /\ worker = "down" /\ worker' = "up"
    /\ UNCHANGED <<state, quiet, hand, job, run, late, held, faults>>

Older(n) == IF n < MaxAge THEN n + 1 ELSE n

BeatTouches == Backend = "portable"

Aged(c) ==
    IF job[c].status = "picked" /\ run[c] # "none"
    THEN [job[c] EXCEPT !.beat = 0, !.age = IF BeatTouches THEN 0 ELSE Older(@)]
    ELSE [job[c] EXCEPT !.beat = IF job[c].status = "picked" THEN Older(@) ELSE 0,
                        !.age = IF job[c].status \in {"picked", "failed"} THEN Older(@) ELSE 0]

\* One lapse of time: running jobs beat, everything else grows older.
Tick ==
    /\ job' = [c \in Contents |-> Aged(c)]
    /\ quiet' = [c \in Contents |-> IF state[c] \in {"queued", "processing"}
                                     THEN Older(quiet[c]) ELSE 0]
    /\ held' = [c \in Contents |-> IF run[c] # "none" THEN Older(held[c]) ELSE 0]
    /\ UNCHANGED <<state, hand, run, late, worker, faults>>

Moves ==
    \/ \E c \in Contents :
         \/ Enqueue(c) \/ MarkQueued(c) \/ Claim(c) \/ Begin(c) \/ Settle(c) \/ Escape(c)
         \/ Finish(c) \/ Fail(c) \/ Lapse(c) \/ Reclaim(c) \/ Retry(c)
    \/ Die \/ Start

-----------------------------------------------------------------------------
(* The diagnosis.                                                          *)

Having(s) == {c \in Contents : job[c].status = s}
Stale == {c \in Having("picked") : job[c].beat >= StaleAfter}
LongRunning == {c \in Having("picked") \ Stale : job[c].age >= LongRunningAfter}

Counts == [failed |-> Cardinality(Having("failed")), stale |-> Cardinality(Stale),
           long |-> Cardinality(LongRunning)]

\* Jobs of one content by what they say about it: a failed one, a live one.
JobsNow == [failed |-> Having("failed"), queued |-> Having("queued"),
            picked |-> Having("picked")]

Diagnose(by) ==   \* the worker's own, or an operator's
    /\ reading = NoReading
    /\ by = "worker" => worker = "up"
    /\ reading' = [pc |-> "counts", by |-> by]
    /\ UNCHANGED stored

\* The portable queue is read in one transaction, PgQueuer's in several.
ReadCounts ==
    /\ reading.pc = "counts"
    /\ reading' = IF Backend = "portable"
                  THEN [pc |-> "contents", by |-> reading.by, counts |-> Counts, jobs |-> JobsNow]
                  ELSE [pc |-> "jobs", by |-> reading.by, counts |-> Counts]
    /\ UNCHANGED stored

ReadJobs ==
    /\ reading.pc = "jobs"
    /\ reading' = [pc |-> "contents", by |-> reading.by, counts |-> reading.counts,
                   jobs |-> JobsNow]
    /\ UNCHANGED stored

InState(S) == {c \in Contents : state[c] \in S}

Conversions(jobs) ==
    LET live == jobs.queued \cup jobs.picked
        unowned == InState({"processing"}) \ (jobs.failed \cup live)
    IN [failed |-> InState({"failed"}) \ live,
        orphaned |-> InState({"processing"}) \cap jobs.failed,
        stale |-> {c \in unowned : quiet[c] >= LongRunningAfter}]

\* ConversionDiagnostics.diagnostic: the class each listed row is shown with.
Class(c, jobs) ==
    CASE state[c] \notin {"failed", "unreadable", "processing"} -> "unlisted"
      [] c \in jobs.queued -> "active_queued"
      [] c \in jobs.picked -> "active_fresh"
      [] state[c] \in {"failed", "unreadable"} -> state[c]
      [] c \in jobs.failed -> "active_terminal_queue"
      [] OTHER -> IF quiet[c] >= LongRunningAfter THEN "active_stale" ELSE "active_fresh"

\* findings(): a long-running lease is a warning and unreadable files are not
\* an error; everything else here is.
Healthy(counts, found) ==
    /\ counts.failed = 0 /\ counts.stale = 0
    /\ found.failed = {} /\ found.orphaned = {} /\ found.stale = {}

ReadContents ==
    /\ reading.pc = "contents"
    /\ reading' = [pc |-> "reported", by |-> reading.by, counts |-> reading.counts,
                   healthy |-> Healthy(reading.counts, Conversions(reading.jobs)),
                   class |-> [c \in Contents |-> Class(c, reading.jobs)]]
    /\ UNCHANGED stored

\* The operator reads the report; the worker's is stored (OperatorSnapshot.store).
Keep ==
    /\ reading.pc = "reported"
    /\ stored' = IF reading.by = "worker"
                 THEN [healthy |-> reading.healthy, age |-> 0,
                       stale |-> reading.counts.stale > 0, long |-> reading.counts.long > 0]
                 ELSE stored
    /\ reading' = NoReading

Diagnosis == (\E by \in Readers : Diagnose(by)) \/ ReadCounts \/ ReadJobs
             \/ ReadContents \/ Keep

\* What observability.md has the doctor look for.
Abandoned(c) ==
    state[c] = "processing" /\ job[c].status = "none" /\ quiet[c] >= LongRunningAfter
Blockers ==
    {<<"job failed", c>> : c \in Having("failed")} \cup {<<"lease stale", c>> : c \in Stale}
    \cup {<<"conversion failed", c>> :
             c \in {d \in InState({"failed"}) : job[d].status = "none"}}
    \cup {<<"abandoned", c>> : c \in {d \in Contents : Abandoned(d)}}

Watched == lasting' = IF reading'.pc = "idle" THEN {}
                      ELSE IF reading.pc = "idle" THEN Blockers' ELSE lasting \cap Blockers'

Next ==
    /\ \/ Moves /\ UNCHANGED stored
          /\ reading' = IF worker' = "down" /\ reading.by = "worker" THEN NoReading ELSE reading
       \/ /\ Tick /\ reading = NoReading
          /\ stored' = IF stored.healthy THEN [stored EXCEPT !.age = Older(@)] ELSE stored
          /\ UNCHANGED reading
       \/ Diagnosis /\ UNCHANGED truth
    /\ Watched

Spec == Init /\ [][Next]_vars

-----------------------------------------------------------------------------
Statuses == {"none", "queued", "picked", "failed"}
Ages == 0..MaxAge

TypeOK ==
    /\ state \in [Contents -> {"pending", "queued", "processing", "ready", "failed",
                               "unreadable"}]
    /\ quiet \in [Contents -> Ages]
    /\ job \in [Contents -> [status: Statuses, beat: Ages, age: Ages]]
    /\ worker = "down" => \A c \in Contents : run[c] = "none" /\ late[c] = "none"
    /\ \A c \in Contents : job[c].status \in {"none", "queued"} => job[c].beat = 0
    /\ reading.pc \in {"idle", "counts", "jobs", "contents", "reported"}
    /\ stored.age \in Ages

Reported == reading.pc = "reported"

\* "`aizk admin queue doctor` exits zero, meaning no current blockers"
\* (release-gate.md:69): a failed job, a lease that stopped, a failed or an
\* abandoned conversion that is there all through a diagnosis is reported by
\* it, whatever else moves between its transactions.
ExitZeroMeansNoBlockers == Reported /\ reading.healthy => lasting = {}

\* The exit code follows from counts and the list from an if-chain of its own:
\* a report is unhealthy exactly when a job failed, a lease stopped or a listed
\* conversion is shown as failed, terminal or stale (diagnostic, findings).
ListExplainsExit ==
    Reported =>
        (reading.healthy <=>
            /\ reading.counts.failed = 0 /\ reading.counts.stale = 0
            /\ \A c \in Contents : reading.class[c] \notin
                   {"failed", "active_terminal_queue", "active_stale"})

\* "`updated_at` is what makes a stale reading visible as stale rather than
\* passed off as current" (operator.py:32): while the console shows a healthy
\* diagnosis as current, no job has been failed, and no lease silent, for
\* longer than it takes a reading to age out.
ConsoleIsCurrent ==
    stored.healthy /\ stored.age <= SnapshotStale =>
        \A c \in Contents :
            /\ job[c].status = "failed" => job[c].age <= SnapshotStale
            /\ job[c].status = "picked" => job[c].beat < StaleAfter + SnapshotStale + 1

\* "reports [...] long-running live leases" (observability.md:85): a live run
\* that has held its lease for the whole window is counted.
LongRunningSeen ==
    reading.pc = "counts" /\ reading'.pc \in {"jobs", "contents"}
      /\ (\E c \in Contents : run[c] # "none" /\ job[c].status = "picked"
                              /\ held[c] >= LongRunningAfter)
    => reading'.counts.long > 0
-----------------------------------------------------------------------------
(***************************************************************************)
(* The queue steward (hackathon/operator/steward.py) on top of the queue   *)
(* and the doctor's stored reading: a collector sends its fixed calls one  *)
(* after the other, a model classifies the snapshot they add up to, and    *)
(* RepairPolicy turns the two into a verdict.                              *)
(*                                                                         *)
(* The worker's diagnosis is one step of it: what moves inside one is in   *)
(* Next.  The model may answer anything it has a type for.  The cluster's  *)
(* state and the database's own jobs (get_cluster and SHOW JOBS, read      *)
(* beside the other calls) are external and may be anything, so what they  *)
(* answered is chosen when it is used.                                     *)
(***************************************************************************)
Severities == {"healthy", "degraded", "unsafe"}
Actions == {"no_action", "retry_conversion", "retry_graph", "retry_profile",
            "inspect_worker", "human_review"}
Calls == <<"queue_task", "operator_snapshot", "artifact_content">>

NoInspection == [next |-> 0]
NoVerdict == [severity |-> "none", action |-> "none"]

\* What is wrong now, as the reader of a verdict would see it.
Wrong ==
    {<<"failed job", c>> : c \in Having("failed")}
    \cup {<<"failed conversion", c>> : c \in InState({"failed"})}
    \cup {<<"stale lease", c>> : c \in Stale}

StewardInit ==
    /\ Init
    /\ inspection = NoInspection /\ verdict = NoVerdict /\ present = {}

-----------------------------------------------------------------------------
(* QueueSnapshotCollector.                                                 *)

Inspect ==
    /\ inspection = NoInspection
    /\ inspection' = [next |-> 1]
    /\ verdict' = NoVerdict

\* The stored diagnosis is taken for what it says, without its updated_at.
Evidence(call) ==
    CASE call = "queue_task"        -> Cardinality(Having("failed"))
      [] call = "artifact_content"  -> Cardinality(InState({"failed"}))
      [] call = "operator_snapshot" -> [stored EXCEPT !.age = 0]

Collect ==
    /\ inspection.next \in 1..Len(Calls)
    /\ LET call == Calls[inspection.next]
       IN inspection' = (call :> Evidence(call)) @@ [inspection EXCEPT !.next = @ + 1]
    /\ UNCHANGED verdict

-----------------------------------------------------------------------------
(* QueueSnapshot.policy_severity and RepairPolicy.                         *)

Degraded(i) ==
    \/ ~ i.operator_snapshot.healthy \/ i.operator_snapshot.long
    \/ i.queue_task > 0 \/ i.artifact_content > 0 \/ i.jobs = "problem"

Severity(i) ==
    IF i.get_cluster # "running" THEN "unsafe"
    ELSE IF Degraded(i) THEN "degraded" ELSE "healthy"

ActionFor(i, proposed) ==
    CASE Severity(i) = "healthy" -> "no_action"
      [] Severity(i) = "unsafe" \/ i.jobs = "problem" -> "human_review"
      [] Severity(i) = "degraded" /\ i.jobs # "problem" ->
           IF i.operator_snapshot.stale \/ i.operator_snapshot.long
           THEN IF proposed \in {"inspect_worker", "human_review"} THEN proposed
                ELSE "inspect_worker"
           ELSE "human_review"

Judge ==
    /\ inspection.next > Len(Calls) /\ verdict = NoVerdict
    /\ \E proposed \in Actions, cluster \in {"running", "other"},
          jobs \in {"clear", "problem", "unavailable"} :
         LET i == [get_cluster |-> cluster, jobs |-> jobs] @@ inspection IN
         verdict' = [severity |-> Severity(i), action |-> ActionFor(i, proposed), jobs |-> jobs]
    /\ UNCHANGED inspection

Close ==
    /\ verdict # NoVerdict
    /\ verdict' = NoVerdict /\ inspection' = NoInspection

Snapshot ==   \* DoctorSnapshotJob
    /\ worker = "up"
    /\ stored' = [healthy |-> Healthy(Counts, Conversions(JobsNow)), age |-> 0,
                  stale |-> Stale # {}, long |-> LongRunning # {}]
    /\ UNCHANGED truth

Watches ==
    present' = IF inspection'.next = 0 THEN {}
               ELSE IF inspection.next = 0 THEN Wrong' ELSE present \cap Wrong'

StewardNext ==
    /\ \/ Moves /\ UNCHANGED <<stored, inspection, verdict>>
       \/ /\ Tick /\ UNCHANGED <<inspection, verdict>>
          /\ stored' = IF stored.healthy THEN [stored EXCEPT !.age = Older(@)] ELSE stored
       \/ Snapshot /\ UNCHANGED <<inspection, verdict>>
       \/ (Inspect \/ Collect \/ Judge \/ Close) /\ UNCHANGED <<truth, stored>>
    /\ Watches /\ UNCHANGED <<reading, lasting>>

-----------------------------------------------------------------------------
Judged == verdict # NoVerdict

StewardTypeOK ==
    /\ Judged => verdict.severity \in Severities /\ verdict.action \in Actions
    /\ inspection.next \in 0..(Len(Calls) + 1)
    /\ \A i \in 1..Len(Calls) : (Calls[i] \in DOMAIN inspection) <=> inspection.next > i

\* A verdict of "healthy" overlooks no failed job and no failed conversion that
\* was there all through the inspection, whatever the stored diagnosis said
\* and whatever the model proposed (policy_severity).
FailuresAreSeen ==
    Judged /\ verdict.severity = "healthy" =>
        ~ \E c \in Contents : <<"failed job", c>> \in present
                              \/ <<"failed conversion", c>> \in present

\* "Never recommend a retry without current failure evidence" (steward.py:513),
\* and never against a database with problems of its own: an action other than
\* waiting or asking a person rests on a lease the worker reported.
ActionsRestOnEvidence ==
    Judged /\ verdict.action \notin {"no_action", "human_review"} =>
        /\ inspection.operator_snapshot.stale \/ inspection.operator_snapshot.long
        /\ verdict.jobs # "problem" /\ verdict.action = "inspect_worker"
=============================================================================
