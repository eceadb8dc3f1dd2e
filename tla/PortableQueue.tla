--------------------------- MODULE PortableQueue ---------------------------
(***************************************************************************)
(* The CockroachDB queue: rows of `queue_task`, the producers that insert  *)
(* them under a deduplication key, and replicas of PortableWorker that     *)
(* lease, heartbeat, finish and fail them.  One action per transaction of  *)
(* background/portable.py and background/queue.py; a worker's run of a     *)
(* task is the coroutine PortableWorker.execute between two transactions.  *)
(*                                                                         *)
(* Time is abstract.  A heartbeat is "fresh" or "stale" (older than        *)
(* queue_lease_seconds), a row is ready when available_at has passed.      *)
(***************************************************************************)
EXTENDS Integers, FiniteSets

CONSTANTS
  MaxRows,       \* bound on the rows producers ever insert
  Worker,        \* PortableWorker replicas
  Entrypoint,    \* job types
  Registered,    \* entrypoints this deployment's workers know
  Priority,      \* JobPriority of each entrypoint, larger first
  SlotLimit,     \* Semaphore of each entrypoint within one worker
  Request,       \* the enqueue calls producers make: [entrypoint, key]
  BatchSize,     \* queue_batch_size
  MaxAttempts,   \* QueueJob.max_attempts
  RequeueLimit,  \* the `limit` of requeue_failed
  RecoveryJob,   \* entrypoint swept by ChunkRecoveryJob
  MaxCycles,     \* chunk_recovery_max_cycles
  MaxRequeues,   \* bound on operator retries of one row
  MaxCrashes,    \* bound on worker crashes
  MaxStalls,     \* bound on heartbeats that come too late or break
  SlotKey        \* any one deduplication key, for KeyIsSlot

QueueAssumption ==
  /\ MaxRows \in Nat \ {0} /\ BatchSize \in Nat \ {0}
  /\ MaxAttempts \in Nat \ {0} /\ RequeueLimit \in Nat \ {0}
  /\ MaxCycles \in Nat /\ MaxRequeues \in Nat
  /\ MaxCrashes \in Nat /\ MaxStalls \in Nat
  /\ Registered \subseteq Entrypoint /\ RecoveryJob \in Entrypoint
  /\ Priority \in [Entrypoint -> Nat]
  /\ SlotLimit \in [Entrypoint -> Nat \ {0}]
  /\ \A r \in Request : r.entrypoint \in Entrypoint
  /\ IsFiniteSet(Worker)

Task == 1..MaxRows   \* in insertion order, which is the created_at, id order

VARIABLES
  status,     \* queue_task.status, "absent" before the insert
  request,    \* entrypoint and dedupe_key of the row
  attempts,   \* queue_task.attempts
  ready,      \* available_at <= now
  heartbeat,  \* heartbeat_at: "null", "fresh" or "stale"
  event,      \* queue_event rows written for the task, per outcome
  run,        \* where worker w's execute(t) stands
  beat,       \* the heartbeat coroutine of that run
  requeues,   \* history: times requeue_failed took the row
  reclaims,   \* history: times claim() expired the row's lease
  cycles,     \* history: terminal failures of the row
  crashes, stalls

rowVars == <<status, request, attempts, ready, heartbeat, event>>
historyVars == <<requeues, reclaims, cycles>>
queueVars == <<rowVars, run, beat, historyVars, crashes, stalls>>

Statuses == {"absent", "queued", "picked", "successful", "failed"}
Active == {"queued", "picked", "failed"}   \* uq_queue_task_active_dedupe
Phases == {"idle", "waiting", "running", "returned", "raised"}
Beats == {"off", "on", "ended", "broken"}

NoRequest == [entrypoint |-> "none", key |-> "none"]

QueueTypeOK ==
  /\ status \in [Task -> Statuses]
  /\ request \in [Task -> Request \cup {NoRequest}]
  /\ attempts \in [Task -> Nat]
  /\ ready \in [Task -> BOOLEAN]
  /\ heartbeat \in [Task -> {"null", "fresh", "stale"}]
  /\ event \in [Task -> [successful: Nat, failed: Nat]]
  /\ run \in [Worker -> [Task -> Phases]]
  /\ beat \in [Worker -> [Task -> Beats]]
  /\ requeues \in [Task -> Nat]
  /\ reclaims \in [Task -> Nat]
  /\ cycles \in [Task -> Nat]
  /\ crashes \in 0..MaxCrashes
  /\ stalls \in 0..MaxStalls

QueueInit ==
  /\ status = [t \in Task |-> "absent"]
  /\ request = [t \in Task |-> NoRequest]
  /\ attempts = [t \in Task |-> 0]
  /\ ready = [t \in Task |-> FALSE]
  /\ heartbeat = [t \in Task |-> "null"]
  /\ event = [t \in Task |-> [successful |-> 0, failed |-> 0]]
  /\ run = [w \in Worker |-> [t \in Task |-> "idle"]]
  /\ beat = [w \in Worker |-> [t \in Task |-> "off"]]
  /\ requeues = [t \in Task |-> 0]
  /\ reclaims = [t \in Task |-> 0]
  /\ cycles = [t \in Task |-> 0]
  /\ crashes = 0 /\ stalls = 0

-----------------------------------------------------------------------------
(* Producers.                                                              *)

\* The partial unique index over queued, picked and failed rows.  It holds
\* the key alone: two entrypoints sharing a key exclude each other.
KeyTakenByLive(k) ==   \* mutant: the index leaves failed rows out
  \E t \in Task : status[t] \in {"queued", "picked"} /\ request[t].key = k
KeyTaken(k) == \E t \in Task : status[t] \in Active /\ request[t].key = k

\* Queue.enqueue: INSERT ... ON CONFLICT DO NOTHING.  A conflict inserts
\* nothing and reports False.
Enqueue(r) ==
  \E t \in Task :
    /\ status[t] = "absent"
    /\ \A u \in Task : u < t => status[u] # "absent"
    /\ ~ KeyTaken(r.key)
    /\ status' = [status EXCEPT ![t] = "queued"]
    /\ request' = [request EXCEPT ![t] = r]
    /\ ready' = [ready EXCEPT ![t] = TRUE]
    /\ UNCHANGED <<attempts, heartbeat, event, run, beat, historyVars, crashes, stalls>>

\* Queue.requeue_failed takes up to RequeueLimit of the retained failures
\* it selects and leaves their attempts as they are.  Which of them come
\* first (updated_at) is abstracted to any choice.
Requeue(selected) ==
  \E S \in SUBSET selected :
    /\ S # {}
    /\ Cardinality(S) <= RequeueLimit
    /\ S = selected \/ Cardinality(S) = RequeueLimit
    /\ status' = [t \in Task |-> IF t \in S THEN "queued" ELSE status[t]]
    /\ ready' = [t \in Task |-> IF t \in S THEN TRUE ELSE ready[t]]
    /\ requeues' = [t \in Task |-> IF t \in S THEN requeues[t] + 1 ELSE requeues[t]]
    /\ UNCHANGED <<request, attempts, heartbeat, event, run, beat, reclaims, cycles,
                   crashes, stalls>>

FailedOf(e) == {t \in Task : status[t] = "failed" /\ request[t].entrypoint = e}

\* requeue_failed without a cap: the operator's retry, and the retry
\* ArtifactQueue.enqueue makes when its own insert met a conflict.
OperatorRetry(e) ==
  /\ \A t \in FailedOf(e) : requeues[t] < MaxRequeues
  /\ Requeue(FailedOf(e))

\* What the capped sweep selects: the query compares the row's attempts.
Recoverable(t) == attempts[t] < MaxCycles

\* ChunkRecoveryJob.execute.
ChunkRecovery == Requeue({t \in FailedOf(RecoveryJob) : Recoverable(t)})

-----------------------------------------------------------------------------
(* PortableWorker.                                                         *)

\* ORDER BY priority DESC, created_at, id.
Precedes(t, u) ==
  LET p(x) == Priority[request[x].entrypoint]
  IN  p(t) > p(u) \/ (p(t) = p(u) /\ t < u)

ExpiredNever == {}   \* mutant: claim recovers no stale row
ExpiredAlways == {t \in Task : status[t] = "picked"}   \* mutant: heartbeat_at not compared
Expired == {t \in Task : status[t] = "picked" /\ heartbeat[t] = "stale"}
Ready == {t \in Task : status[t] = "queued" /\ ready[t]}

\* The first BatchSize of S in the claim order.
IsBatch(B, S) ==
  /\ Cardinality(B) <= BatchSize
  /\ B = S \/ Cardinality(B) = BatchSize
  /\ \A t \in B, u \in S \ B : Precedes(t, u)

AttemptedDown(t) == attempts[t] - 1   \* mutant: attempts counted down
Attempted(t) == attempts[t] + 1

Idle(w) == \A t \in Task : run[w][t] = "idle"

\* PortableWorker.claim: expired leases go back to the queue and may be
\* picked again by the same transaction.  run_once gathers its whole batch,
\* so only an idle worker claims.  An unregistered entrypoint raises before
\* its heartbeat starts.
Claim(w) ==
  LET claimable == Expired \cup Ready IN
  /\ Idle(w)
  /\ claimable # {}
  /\ \E B \in SUBSET claimable :
       /\ IsBatch(B, claimable)
       /\ status' = [t \in Task |-> IF t \in B THEN "picked"
                                    ELSE IF t \in Expired THEN "queued" ELSE status[t]]
       /\ attempts' = [t \in Task |-> IF t \in B THEN Attempted(t) ELSE attempts[t]]
       /\ ready' = [t \in Task |-> IF t \in Expired THEN TRUE ELSE ready[t]]
       /\ heartbeat' = [t \in Task |-> IF t \in B THEN "fresh"
                                       ELSE IF t \in Expired THEN "null" ELSE heartbeat[t]]
       /\ run' = [run EXCEPT ![w] =
            [t \in Task |-> IF t \notin B THEN "idle"
                            ELSE IF request[t].entrypoint \in Registered
                                 THEN "waiting" ELSE "raised"]]
       /\ beat' = [beat EXCEPT ![w] =
            [t \in Task |-> IF t \in B /\ request[t].entrypoint \in Registered
                            THEN "on" ELSE "off"]]
  /\ reclaims' = [t \in Task |-> IF t \in Expired THEN reclaims[t] + 1 ELSE reclaims[t]]
  /\ UNCHANGED <<request, event, requeues, cycles, crashes, stalls>>

\* execute passes the entrypoint's semaphore and calls the handler.
Start(w, t) ==
  LET busy == {u \in Task : run[w][u] = "running"
                            /\ request[u].entrypoint = request[t].entrypoint} IN
  /\ run[w][t] = "waiting"
  /\ Cardinality(busy) < SlotLimit[request[t].entrypoint]
  /\ run' = [run EXCEPT ![w][t] = "running"]
  /\ UNCHANGED <<rowVars, beat, historyVars, crashes, stalls>>

\* One lap of the heartbeat loop.  It ends at a row that is no longer
\* picked, and does not ask whose claim it is refreshing.
Heartbeat(w, t) ==
  /\ run[w][t] # "idle" /\ beat[w][t] = "on"
  /\ IF status[t] = "picked"
     THEN /\ heartbeat' = [heartbeat EXCEPT ![t] = "fresh"]
          /\ beat' = beat
     ELSE /\ beat' = [beat EXCEPT ![w][t] = "ended"]
          /\ heartbeat' = heartbeat
  /\ UNCHANGED <<status, request, attempts, ready, event, run, historyVars, crashes, stalls>>

\* A database error kills the heartbeat coroutine while its handler runs on.
HeartbeatBreaks(w, t) ==
  /\ run[w][t] # "idle" /\ beat[w][t] = "on"
  /\ stalls < MaxStalls
  /\ stalls' = stalls + 1
  /\ beat' = [beat EXCEPT ![w][t] = "broken"]
  /\ UNCHANGED <<rowVars, run, historyVars, crashes>>

\* The worker process is gone and comes back idle; its rows stay picked.
Dies(w) ==
  /\ run' = [run EXCEPT ![w] = [t \in Task |-> "idle"]]
  /\ beat' = [beat EXCEPT ![w] = [t \in Task |-> "off"]]

\* The handler returned: the finally clause cancels the heartbeat.  Awaiting
\* a broken one raises its error past finish() and out of run().
HandlerReturns(w, t) ==
  /\ run[w][t] = "running"
  /\ IF beat[w][t] = "broken" THEN Dies(w)
     ELSE /\ run' = [run EXCEPT ![w][t] = "returned"]
          /\ beat' = [beat EXCEPT ![w][t] = "off"]
  /\ UNCHANGED <<rowVars, historyVars, crashes, stalls>>

\* The handler raised: fail() runs inside the except clause, before the
\* finally clause stops the heartbeat.
HandlerRaises(w, t) ==
  /\ run[w][t] = "running"
  /\ run' = [run EXCEPT ![w][t] = "raised"]
  /\ UNCHANGED <<rowVars, beat, historyVars, crashes, stalls>>

\* execute(t) is over.
Leaves(w, t) ==
  /\ run' = [run EXCEPT ![w][t] = "idle"]
  /\ beat' = [beat EXCEPT ![w][t] = "off"]

\* PortableWorker.finish reads neither the row's status nor its owner.
Finish(w, t) ==
  /\ run[w][t] = "returned"
  /\ status' = [status EXCEPT ![t] = "successful"]
  /\ heartbeat' = [heartbeat EXCEPT ![t] = "null"]
  /\ event' = [event EXCEPT ![t].successful = @ + 1]
  /\ Leaves(w, t)
  /\ UNCHANGED <<request, attempts, ready, historyVars, crashes, stalls>>

TerminalLate(t) == attempts[t] > MaxAttempts   \* mutant: off by one
Terminal(t) == attempts[t] >= MaxAttempts

\* Putting t back under the index would duplicate a key admitted meanwhile.
Conflicts(t) == status[t] \notin Active /\ KeyTaken(request[t].key)

\* PortableWorker.fail: retry after a backoff or retain as terminal, again
\* without reading the row's status or owner.
Fail(w, t) ==
  /\ run[w][t] = "raised"
  /\ ~ Conflicts(t)
  /\ status' = [status EXCEPT ![t] = IF Terminal(t) THEN "failed" ELSE "queued"]
  /\ cycles' = [cycles EXCEPT ![t] = IF Terminal(t) THEN @ + 1 ELSE @]
  /\ ready' = [ready EXCEPT ![t] = FALSE]
  /\ heartbeat' = [heartbeat EXCEPT ![t] = "null"]
  /\ event' = [event EXCEPT ![t].failed = @ + 1]
  /\ IF beat[w][t] = "broken" THEN Dies(w) ELSE Leaves(w, t)
  /\ UNCHANGED <<request, attempts, requeues, reclaims, crashes, stalls>>

\* The unique index refuses the update: the error escapes execute() and run().
FailConflicts(w, t) ==
  /\ run[w][t] = "raised"
  /\ Conflicts(t)
  /\ Dies(w)
  /\ UNCHANGED <<rowVars, historyVars, crashes, stalls>>

-----------------------------------------------------------------------------
(* Time and faults.                                                        *)

\* A run whose heartbeat is still being refreshed, or which is about to
\* commit its outcome.
Held(t) == \E w \in Worker : run[w][t] # "idle" /\ beat[w][t] \in {"off", "on"}

\* queue_lease_seconds pass without a heartbeat.  A held row only gets there
\* through a stalled event loop or a partitioned worker.
LeaseExpires(t) ==
  /\ status[t] = "picked" /\ heartbeat[t] = "fresh"
  /\ ~ Held(t)
  /\ heartbeat' = [heartbeat EXCEPT ![t] = "stale"]
  /\ UNCHANGED <<status, request, attempts, ready, event, run, beat, historyVars, crashes,
                 stalls>>

HeldLeaseExpires(t) ==
  /\ status[t] = "picked" /\ heartbeat[t] = "fresh"
  /\ Held(t)
  /\ stalls < MaxStalls
  /\ stalls' = stalls + 1
  /\ heartbeat' = [heartbeat EXCEPT ![t] = "stale"]
  /\ UNCHANGED <<status, request, attempts, ready, event, run, beat, historyVars, crashes>>

BackoffElapses(t) ==
  /\ status[t] \in {"queued", "failed"} /\ ~ ready[t]
  /\ ready' = [ready EXCEPT ![t] = TRUE]
  /\ UNCHANGED <<status, request, attempts, heartbeat, event, run, beat, historyVars, crashes,
                 stalls>>

\* A crash, a redeploy or a failed transaction; CancelledError is re-raised
\* by execute without touching the row, so a shutdown looks the same.
Crash(w) ==
  /\ crashes < MaxCrashes
  /\ ~ Idle(w)
  /\ crashes' = crashes + 1
  /\ Dies(w)
  /\ UNCHANGED <<rowVars, historyVars, stalls>>

RunStep(w, t) ==
  \/ Start(w, t)
  \/ Heartbeat(w, t)
  \/ HeartbeatBreaks(w, t)
  \/ HandlerReturns(w, t)
  \/ HandlerRaises(w, t)
  \/ Finish(w, t)
  \/ Fail(w, t)
  \/ FailConflicts(w, t)

QueueNext ==
  \/ \E r \in Request : Enqueue(r)
  \/ \E e \in Entrypoint : OperatorRetry(e)
  \/ ChunkRecovery
  \/ \E w \in Worker : Claim(w)
  \/ \E w \in Worker, t \in Task : RunStep(w, t)
  \/ \E t \in Task : LeaseExpires(t)
  \/ \E t \in Task : HeldLeaseExpires(t)
  \/ \E t \in Task : BackoffElapses(t)
  \/ \E w \in Worker : Crash(w)

QueueSpec == QueueInit /\ [][QueueNext]_queueVars

-----------------------------------------------------------------------------
(* The rows of one deduplication key as a JobSlot.                         *)

Has(s) == \E t \in Task : request[t].key = SlotKey /\ status[t] = s

SlotPhase ==
  IF Has("picked") THEN "running"
  ELSE IF Has("queued") THEN "waiting"
  ELSE IF Has("failed") THEN "retained" ELSE "free"
SlotHolder == {w \in Worker : \E t \in Task : request[t].key = SlotKey /\ run[w][t] # "idle"}

Slot == INSTANCE JobSlot WITH phase <- SlotPhase, holder <- SlotHolder

-----------------------------------------------------------------------------
(* What the queue promises.                                                *)

\* At any moment at most one active row carries a deduplication key, so one
\* key never has two queued, picked or retained jobs, whatever late
\* outcomes stalled workers commit (queue_task's partial unique index as
\* Enqueue, requeue_failed and fail meet it).
UniqueActiveKey ==
  \A t, u \in Task :
    /\ status[t] \in Active /\ status[u] \in Active
    /\ request[t].key = request[u].key
    => t = u

\* No two workers run the job of one deduplication key at the same time.
\* It needs timely heartbeats (MaxStalls = 0): claim() then takes back only
\* the rows of dead workers.
KeyExclusive ==
  \A v, w \in Worker, t, u \in Task :
    /\ run[v][t] # "idle" /\ run[w][u] # "idle"
    /\ request[t].key = request[u].key
    => v = w /\ t = u

\* With timely heartbeats the rows, leases and retries of a key are a
\* JobSlot: whatever the workers, claim(), finish(), fail(), requeue_failed
\* and crashes do to its rows is one offer, one holder and one outcome.
KeyIsSlot == Slot!Spec

\* With timely heartbeats an outcome is final: a successful row stays
\* successful, and a retained failure leaves only through requeue_failed.
OutcomesFinalStep ==
  \A t \in Task :
    /\ status[t] = "successful" => status'[t] = "successful"
    /\ status[t] = "failed" /\ status'[t] # "failed" =>
         status'[t] = "queued" /\ requeues'[t] = requeues[t] + 1
OutcomesFinal == [][OutcomesFinalStep]_queueVars

\* fail() bounds the attempts: a row is attempted more often than
\* max_attempts only when a retry put it back or a lease ran out on it.
AttemptsPaid ==
  \A t \in Task : attempts[t] <= MaxAttempts + requeues[t] + reclaims[t]

\* The workers inside execute(t).
Runners(t) == {w \in Worker : run[w][t] # "idle"}

\* Every claim of a row leads to at most one queue_event: the events and the
\* runs still under way never outnumber the attempts.
EventsAccounted ==
  \A t \in Task :
    event[t].successful + event[t].failed + Cardinality(Runners(t)) <= attempts[t]

\* A row that waits or runs (MCService: it comes to an outcome).
Unsettled(t) == status[t] \in {"queued", "picked"}

\* A held failure of the recovered entrypoint with fewer cycles than the cap.
HeldRetriable(t) ==
  status[t] = "failed" /\ request[t].entrypoint = RecoveryJob /\ cycles[t] < MaxCycles
=============================================================================
