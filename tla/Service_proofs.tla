---------------------------- MODULE Service_proofs ---------------------------
(***************************************************************************)
(* Safety of PortableQueue, MonthlyQuota and CallerTransactions, for every *)
(* number of rows, workers, entrypoints, callers, calls, tasks and         *)
(* connections, all limits and every bound.                                *)
(***************************************************************************)
EXTENDS PortableQueue, MonthlyQuota, CallerTransactions,
        FiniteSetTheorems, SequenceTheorems, TLAPS

-----------------------------------------------------------------------------
(* Type correctness.                                                       *)

\* The initial rows, runs and counters have their types.
LEMMA TypeInit == ASSUME QueueAssumption PROVE QueueInit => QueueTypeOK
  BY QueueAssumption DEF QueueAssumption, QueueInit, QueueTypeOK, Statuses, Phases, Beats

\* One entry of a worker's table of runs or heartbeats changes.
LEMMA RunEntry ==
    ASSUME QueueAssumption, QueueTypeOK, NEW w \in Worker, NEW t \in Task, NEW p \in Phases, NEW b \in Beats
  PROVE  /\ [run EXCEPT ![w][t] = p] \in [Worker -> [Task -> Phases]]
         /\ [beat EXCEPT ![w][t] = b] \in [Worker -> [Task -> Beats]]
<1>1. run \in [Worker -> [Task -> Phases]] /\ beat \in [Worker -> [Task -> Beats]]
  BY DEF QueueTypeOK
<1>2. [run[w] EXCEPT ![t] = p] \in [Task -> Phases] /\ [beat[w] EXCEPT ![t] = b] \in [Task -> Beats]
  BY <1>1
<1> QED
  BY <1>1, <1>2

\* A dead worker comes back with well-typed empty tables.
LEMMA TypeDies ==
    ASSUME QueueAssumption, QueueTypeOK, NEW w \in Worker, Dies(w)
  PROVE  run' \in [Worker -> [Task -> Phases]] /\ beat' \in [Worker -> [Task -> Beats]]
<1>1. [t \in Task |-> "idle"] \in [Task -> Phases] /\ [t \in Task |-> "off"] \in [Task -> Beats]
  BY DEF Phases, Beats
<1> QED
  BY <1>1 DEF Dies, QueueTypeOK

\* So does the table of a worker that leaves one run.
LEMMA TypeLeaves ==
    ASSUME QueueAssumption, QueueTypeOK, NEW w \in Worker, NEW t \in Task, Leaves(w, t)
  PROVE  run' \in [Worker -> [Task -> Phases]] /\ beat' \in [Worker -> [Task -> Beats]]
<1>1. "idle" \in Phases /\ "off" \in Beats
  BY DEF Phases, Beats
<1> QED
  BY <1>1, RunEntry DEF Leaves

\* One more event of either outcome keeps the counters natural.
LEMMA TypeEvent ==
    ASSUME QueueAssumption, QueueTypeOK, NEW t \in Task
  PROVE  /\ [event EXCEPT ![t].successful = @ + 1] \in [Task -> [successful: Nat, failed: Nat]]
         /\ [event EXCEPT ![t].failed = @ + 1] \in [Task -> [successful: Nat, failed: Nat]]
<1> DEFINE s == [event[t] EXCEPT !.successful = @ + 1]
           f == [event[t] EXCEPT !.failed = @ + 1]
<1>1. event \in [Task -> [successful: Nat, failed: Nat]]
  BY DEF QueueTypeOK
<1>2. s \in [successful: Nat, failed: Nat] /\ f \in [successful: Nat, failed: Nat]
  BY <1>1
<1> QED
  BY <1>1, <1>2

\* requeue_failed keeps the types, whatever it selects.
LEMMA TypeRequeue ==
    ASSUME QueueAssumption, QueueTypeOK, NEW selected, Requeue(selected)
  PROVE  QueueTypeOK'
<1>1. PICK S \in SUBSET selected :
       /\ status' = [t \in Task |-> IF t \in S THEN "queued" ELSE status[t]]
       /\ ready' = [t \in Task |-> IF t \in S THEN TRUE ELSE ready[t]]
       /\ requeues' = [t \in Task |-> IF t \in S THEN requeues[t] + 1 ELSE requeues[t]]
       /\ UNCHANGED <<request, attempts, heartbeat, event, run, beat, reclaims, cycles,
                      crashes, stalls>>
  BY DEF Requeue
<1>2. status' \in [Task -> Statuses]
  BY <1>1 DEF QueueTypeOK, Statuses
<1>3. ready' \in [Task -> BOOLEAN]
  BY <1>1, Zenon DEF QueueTypeOK
<1>4. requeues' \in [Task -> Nat]
  BY <1>1 DEF QueueTypeOK
<1> QED
  BY <1>1, <1>2, <1>3, <1>4 DEF QueueTypeOK

\* What claim() writes, with the batch it chose named.
ClaimBatch(w, B) ==
  /\ status' = [t \in Task |-> IF t \in B THEN "picked"
                               ELSE IF t \in Expired THEN "queued" ELSE status[t]]
  /\ attempts' = [t \in Task |-> IF t \in B THEN attempts[t] + 1 ELSE attempts[t]]
  /\ ready' = [t \in Task |-> IF t \in Expired THEN TRUE ELSE ready[t]]
  /\ heartbeat' = [t \in Task |-> IF t \in B THEN "fresh"
                                  ELSE IF t \in Expired THEN "null" ELSE heartbeat[t]]
  /\ run' = [run EXCEPT ![w] =
       [t \in Task |-> IF t \notin B THEN "idle"
                       ELSE IF request[t].entrypoint \in Registered
                            THEN "waiting" ELSE "raised"]]
  /\ beat' = [beat EXCEPT ![w] =
       [t \in Task |-> IF t \in B /\ request[t].entrypoint \in Registered
                       THEN "on" ELSE "off"]]
  /\ reclaims' = [t \in Task |-> IF t \in Expired THEN reclaims[t] + 1 ELSE reclaims[t]]
  /\ UNCHANGED <<request, event, requeues, cycles, crashes, stalls>>

\* Every claim chooses its batch among the expired and the ready rows.
LEMMA ClaimHasBatch ==
    ASSUME QueueAssumption, NEW w \in Worker, Claim(w)
  PROVE  \E B \in SUBSET (Expired \cup Ready) : ClaimBatch(w, B)
  BY DEF Claim, ClaimBatch, Attempted

\* claim() keeps the types.
LEMMA TypeClaim ==
    ASSUME QueueAssumption, QueueTypeOK, NEW w \in Worker, Claim(w)
  PROVE  QueueTypeOK'
<1>0. PICK B \in SUBSET (Expired \cup Ready) : ClaimBatch(w, B)
  BY ClaimHasBatch
<1>1. run' \in [Worker -> [Task -> Phases]]
  BY <1>0 DEF QueueTypeOK, Phases, ClaimBatch
<1>2. beat' \in [Worker -> [Task -> Beats]]
  BY <1>0 DEF QueueTypeOK, Beats, ClaimBatch
<1>3. /\ status' \in [Task -> Statuses]
      /\ heartbeat' \in [Task -> {"null", "fresh", "stale"}]
  BY <1>0 DEF QueueTypeOK, Statuses, ClaimBatch
<1>4. attempts' \in [Task -> Nat] /\ reclaims' \in [Task -> Nat]
  BY <1>0 DEF QueueTypeOK, ClaimBatch
<1>5. ready' \in [Task -> BOOLEAN]
  BY <1>0, Zenon DEF QueueTypeOK, ClaimBatch
<1> QED
  BY <1>0, <1>1, <1>2, <1>3, <1>4, <1>5 DEF QueueTypeOK, ClaimBatch

\* Every step of execute() keeps the types.
LEMMA TypeRunStep ==
    ASSUME QueueAssumption, QueueTypeOK, NEW w \in Worker, NEW t \in Task, RunStep(w, t)
  PROVE  QueueTypeOK'
<1> USE DEF rowVars, historyVars
<1>p. /\ Phases = {"idle", "waiting", "running", "returned", "raised"}
      /\ Beats = {"off", "on", "ended", "broken"}
  BY DEF Phases, Beats
<1>1. CASE Start(w, t)
  BY <1>1, <1>p, RunEntry DEF Start, QueueTypeOK
<1>2. CASE Heartbeat(w, t)
  <2>1. beat' \in [Worker -> [Task -> Beats]]
    <3>1. CASE status[t] = "picked"
      BY <1>2, <3>1 DEF Heartbeat, QueueTypeOK
    <3>2. CASE status[t] # "picked"
      <4>1. "idle" \in Phases /\ "ended" \in Beats
        BY <1>p
      <4>2. [beat EXCEPT ![w][t] = "ended"] \in [Worker -> [Task -> Beats]]
        BY <4>1, RunEntry
      <4> QED  BY <1>2, <3>2, <4>2 DEF Heartbeat
    <3> QED  BY <3>1, <3>2
  <2>2. heartbeat' \in [Task -> {"null", "fresh", "stale"}]
    BY <1>2 DEF Heartbeat, QueueTypeOK
  <2> QED  BY <1>2, <2>1, <2>2 DEF Heartbeat, QueueTypeOK
<1>3. CASE HeartbeatBreaks(w, t)
  BY <1>3, <1>p, RunEntry, QueueAssumption DEF QueueAssumption, HeartbeatBreaks, QueueTypeOK
<1>4. CASE HandlerReturns(w, t)
  <2>1. run' \in [Worker -> [Task -> Phases]] /\ beat' \in [Worker -> [Task -> Beats]]
    <3>1. CASE beat[w][t] = "broken"
      BY <1>4, <3>1, TypeDies DEF HandlerReturns
    <3>2. CASE beat[w][t] # "broken"
      <4>1. "returned" \in Phases /\ "off" \in Beats
        BY <1>p
      <4>2. /\ [run EXCEPT ![w][t] = "returned"] \in [Worker -> [Task -> Phases]]
            /\ [beat EXCEPT ![w][t] = "off"] \in [Worker -> [Task -> Beats]]
        BY <4>1, RunEntry
      <4> QED  BY <1>4, <3>2, <4>2 DEF HandlerReturns
    <3> QED  BY <3>1, <3>2
  <2> QED  BY <1>4, <2>1 DEF HandlerReturns, QueueTypeOK
<1>5. CASE HandlerRaises(w, t)
  BY <1>5, <1>p, RunEntry DEF HandlerRaises, QueueTypeOK
<1>6. CASE Finish(w, t)
  <2>1. event' \in [Task -> [successful: Nat, failed: Nat]]
    BY <1>6, TypeEvent DEF Finish
  <2>2. run' \in [Worker -> [Task -> Phases]] /\ beat' \in [Worker -> [Task -> Beats]]
    BY <1>6, TypeLeaves DEF Finish
  <2>3. status' \in [Task -> Statuses] /\ heartbeat' \in [Task -> {"null", "fresh", "stale"}]
    BY <1>6 DEF Finish, Statuses, QueueTypeOK
  <2> QED  BY <1>6, <2>1, <2>2, <2>3 DEF Finish, QueueTypeOK
<1>7. CASE Fail(w, t)
  <2>1. event' \in [Task -> [successful: Nat, failed: Nat]]
    BY <1>7, TypeEvent DEF Fail
  <2>2. run' \in [Worker -> [Task -> Phases]] /\ beat' \in [Worker -> [Task -> Beats]]
    BY <1>7, TypeLeaves, TypeDies DEF Fail
  <2>3. status' \in [Task -> Statuses] /\ heartbeat' \in [Task -> {"null", "fresh", "stale"}]
    BY <1>7 DEF Fail, Statuses, QueueTypeOK
  <2>4. cycles' \in [Task -> Nat] /\ ready' \in [Task -> BOOLEAN]
    BY <1>7 DEF Fail, QueueTypeOK
  <2> QED  BY <1>7, <2>1, <2>2, <2>3, <2>4 DEF Fail, QueueTypeOK
<1>8. CASE FailConflicts(w, t)
  BY <1>8, TypeDies DEF FailConflicts, QueueTypeOK
<1> QED
  BY <1>1, <1>2, <1>3, <1>4, <1>5, <1>6, <1>7, <1>8 DEF RunStep

\* Every step keeps the types.
LEMMA TypeNext == ASSUME QueueAssumption PROVE QueueTypeOK /\ [QueueNext]_queueVars => QueueTypeOK'
<1> SUFFICES ASSUME QueueTypeOK, [QueueNext]_queueVars PROVE QueueTypeOK'
  OBVIOUS
<1>1. ASSUME NEW r \in Request, Enqueue(r) PROVE QueueTypeOK'
  BY <1>1 DEF Enqueue, QueueTypeOK, Statuses, historyVars
<1>2. ASSUME NEW e \in Entrypoint, OperatorRetry(e) PROVE QueueTypeOK'
  BY <1>2, TypeRequeue DEF OperatorRetry, FailedOf
<1>3. CASE ChunkRecovery
  BY <1>3, TypeRequeue DEF ChunkRecovery, FailedOf
<1>4. ASSUME NEW w \in Worker, Claim(w) PROVE QueueTypeOK'
  BY <1>4, TypeClaim
<1>5. ASSUME NEW w \in Worker, NEW t \in Task, RunStep(w, t) PROVE QueueTypeOK'
  BY <1>5, TypeRunStep
<1>6. ASSUME NEW t \in Task, LeaseExpires(t) PROVE QueueTypeOK'
  BY <1>6 DEF LeaseExpires, QueueTypeOK, historyVars
<1>7. ASSUME NEW t \in Task, HeldLeaseExpires(t) PROVE QueueTypeOK'
  BY <1>7, QueueAssumption DEF QueueAssumption, HeldLeaseExpires, QueueTypeOK, historyVars
<1>8. ASSUME NEW t \in Task, BackoffElapses(t) PROVE QueueTypeOK'
  BY <1>8 DEF BackoffElapses, QueueTypeOK, historyVars
<1>9. ASSUME NEW w \in Worker, Crash(w) PROVE QueueTypeOK'
  BY <1>9, TypeDies, QueueAssumption DEF QueueAssumption, Crash, QueueTypeOK, rowVars, historyVars
<1>10. CASE UNCHANGED queueVars
  BY <1>10 DEF queueVars, rowVars, historyVars, QueueTypeOK
<1> QED
  BY <1>1, <1>2, <1>3, <1>4, <1>5, <1>6, <1>7, <1>8, <1>9, <1>10 DEF QueueNext

\* Every variable of the queue keeps its type: statuses, phases and heartbeat
\* marks stay in their sets and the fault budgets are never exceeded.
THEOREM TypeCorrect == ASSUME QueueAssumption PROVE QueueSpec => []QueueTypeOK
<1>1. QueueInit => QueueTypeOK
  BY TypeInit
<1>2. QueueTypeOK /\ [QueueNext]_queueVars => QueueTypeOK'
  BY TypeNext
<1> QED
  BY <1>1, <1>2, PTL DEF QueueSpec

-----------------------------------------------------------------------------
(* One active row per deduplication key.                                   *)

\* A step that rewrites no request and lets no row become active keeps keys
\* unique.
LEMMA KeysKept ==
    ASSUME QueueAssumption, UniqueActiveKey, request' = request,
         \A t \in Task : status'[t] \in Active => status[t] \in Active
  PROVE  UniqueActiveKey'
  BY DEF UniqueActiveKey

\* fail() reactivates a row only when its key is free.
LEMMA KeysFail ==
    ASSUME QueueAssumption, QueueTypeOK, UniqueActiveKey, NEW w \in Worker, NEW t \in Task, Fail(w, t)
  PROVE  UniqueActiveKey'
<1>1. /\ request' = request
      /\ \A u \in Task : u # t => status'[u] = status[u]
      /\ status[t] \in Active \/ ~ KeyTaken(request[t].key)
  BY DEF Fail, Conflicts, QueueTypeOK
<1>2. CASE status[t] \in Active
  BY <1>1, <1>2, KeysKept
<1>3. CASE ~ KeyTaken(request[t].key)
  BY <1>1, <1>3 DEF UniqueActiveKey, KeyTaken
<1> QED
  BY <1>1, <1>2, <1>3

\* Every step keeps the active keys unique.
LEMMA KeysNext == ASSUME QueueAssumption PROVE QueueTypeOK /\ UniqueActiveKey /\ [QueueNext]_queueVars => UniqueActiveKey'
<1> SUFFICES ASSUME QueueTypeOK, UniqueActiveKey, [QueueNext]_queueVars PROVE UniqueActiveKey'
  OBVIOUS
<1> USE DEF historyVars, rowVars
<1>1. ASSUME NEW r \in Request, Enqueue(r) PROVE UniqueActiveKey'
  <2>1. PICK t \in Task :
          /\ ~ KeyTaken(r.key)
          /\ status' = [status EXCEPT ![t] = "queued"]
          /\ request' = [request EXCEPT ![t] = r]
    BY <1>1 DEF Enqueue
  <2>2. /\ request'[t] = r
        /\ \A u \in Task : u # t => status'[u] = status[u] /\ request'[u] = request[u]
    BY <2>1 DEF QueueTypeOK
  <2> QED
    BY <2>1, <2>2 DEF UniqueActiveKey, KeyTaken
<1>2. ASSUME NEW e \in Entrypoint, Requeue(FailedOf(e)) PROVE UniqueActiveKey'
  BY <1>2, KeysKept DEF Requeue, FailedOf, Active, QueueTypeOK
<1>3. CASE ChunkRecovery
  BY <1>3, KeysKept DEF ChunkRecovery, Requeue, FailedOf, Active, QueueTypeOK
<1>4. ASSUME NEW w \in Worker, Claim(w) PROVE UniqueActiveKey'
  <2>1. PICK B \in SUBSET (Expired \cup Ready) : ClaimBatch(w, B)
    BY <1>4, ClaimHasBatch
  <2> QED
    BY <2>1, KeysKept DEF ClaimBatch, Expired, Ready, Active, QueueTypeOK
<1>5. ASSUME NEW w \in Worker, NEW t \in Task, RunStep(w, t) PROVE UniqueActiveKey'
  <2>1. CASE Finish(w, t)
    BY <2>1, KeysKept DEF Finish, Active, QueueTypeOK
  <2>2. CASE Fail(w, t)
    BY <2>2, KeysFail
  <2>3. CASE status' = status /\ request' = request
    BY <2>3, KeysKept
  <2> QED
    BY <1>5, <2>1, <2>2, <2>3
    DEF RunStep, Start, Heartbeat, HeartbeatBreaks, HandlerReturns, HandlerRaises, FailConflicts
<1>6. CASE status' = status /\ request' = request
  BY <1>6, KeysKept
<1> QED
  BY <1>1, <1>2, <1>3, <1>4, <1>5, <1>6
  DEF QueueNext, OperatorRetry, LeaseExpires, HeldLeaseExpires, BackoffElapses, Crash, queueVars

\* Whatever stalled workers commit late, no two active rows share a
\* deduplication key.
THEOREM KeysUnique == ASSUME QueueAssumption PROVE QueueSpec => []UniqueActiveKey
<1>1. QueueInit => UniqueActiveKey
  BY DEF QueueInit, UniqueActiveKey, Active
<1>2. QueueTypeOK /\ UniqueActiveKey /\ [QueueNext]_queueVars => UniqueActiveKey'
  BY KeysNext
<1>3. QueueSpec => []QueueTypeOK
  BY TypeCorrect
<1> QED
  BY <1>1, <1>2, <1>3, PTL DEF QueueSpec

-----------------------------------------------------------------------------
(* Exclusive execution under timely heartbeats.                            *)

\* A run holds a fresh lease that its own heartbeat keeps, and is alone on
\* its row.
LeaseInv ==
  /\ \A w \in Worker, t \in Task :
       run[w][t] # "idle" =>
         status[t] = "picked" /\ heartbeat[t] = "fresh" /\ beat[w][t] \in {"off", "on"}
  /\ \A v, w \in Worker, t \in Task : run[v][t] # "idle" /\ run[w][t] # "idle" => v = w

\* Runs that end leave the others as they were.
LEMMA LeaseDies ==
    ASSUME QueueAssumption, QueueTypeOK, LeaseInv, NEW w \in Worker, Dies(w), status' = status, heartbeat' = heartbeat
  PROVE  LeaseInv'
<1>1. \A v \in Worker, t \in Task :
        run'[v][t] # "idle" => run'[v][t] = run[v][t] /\ beat'[v][t] = beat[v][t] /\ v # w
  BY DEF Dies, QueueTypeOK
<1> QED
  BY <1>1 DEF LeaseInv

\* The outcome of a run changes its own row only.
LEMMA LeaseLeaves ==
    ASSUME QueueAssumption, QueueTypeOK, LeaseInv, NEW w \in Worker, NEW t \in Task,
         run[w][t] # "idle", Leaves(w, t),
         \A u \in Task : u # t => status'[u] = status[u] /\ heartbeat'[u] = heartbeat[u]
  PROVE  LeaseInv'
<1>1. \A v \in Worker, u \in Task :
        run'[v][u] # "idle" =>
          /\ run'[v][u] = run[v][u] /\ beat'[v][u] = beat[v][u]
          /\ <<v, u>> # <<w, t>>
  BY DEF Leaves, QueueTypeOK
<1>2. \A v \in Worker : run'[v][t] = "idle"
  BY <1>1 DEF LeaseInv
<1> QED
  BY <1>1, <1>2 DEF LeaseInv

\* Every step of execute() keeps the leases held.
LEMMA LeaseRunStep ==
    ASSUME QueueAssumption, QueueTypeOK, LeaseInv, MaxStalls = 0,
         NEW w \in Worker, NEW t \in Task, RunStep(w, t)
  PROVE  LeaseInv'
<1> USE DEF rowVars, historyVars
<1>1. CASE Start(w, t)
  <2>1. /\ \A v \in Worker, u \in Task : run'[v][u] # "idle" => run[v][u] # "idle"
        /\ status' = status /\ heartbeat' = heartbeat /\ beat' = beat
    BY <1>1 DEF Start, QueueTypeOK
  <2> QED  BY <2>1 DEF LeaseInv
<1>2. CASE Heartbeat(w, t)
  <2>1. status[t] = "picked"
    BY <1>2 DEF Heartbeat, LeaseInv
  <2>2. status' = status /\ run' = run /\ beat' = beat /\ heartbeat' = [heartbeat EXCEPT ![t] = "fresh"]
    BY <1>2, <2>1 DEF Heartbeat
  <2> QED  BY <2>2 DEF LeaseInv, QueueTypeOK
<1>3. CASE HeartbeatBreaks(w, t)
  BY <1>3 DEF HeartbeatBreaks, QueueTypeOK
<1>4. CASE HandlerReturns(w, t)
  <2>1. beat[w][t] # "broken"
    BY <1>4 DEF HandlerReturns, LeaseInv
  <2>2. /\ \A v \in Worker, u \in Task :
             /\ run'[v][u] # "idle" => run[v][u] # "idle"
             /\ beat'[v][u] \in {beat[v][u], "off"}
        /\ status' = status /\ heartbeat' = heartbeat
    <3>1. /\ run' = [run EXCEPT ![w][t] = "returned"] /\ beat' = [beat EXCEPT ![w][t] = "off"]
          /\ status' = status /\ heartbeat' = heartbeat /\ run[w][t] = "running"
      BY <1>4, <2>1 DEF HandlerReturns
    <3>2. run \in [Worker -> [Task -> Phases]] /\ beat \in [Worker -> [Task -> Beats]]
      BY DEF QueueTypeOK
    <3>3. \A v \in Worker, u \in Task : run'[v][u] # "idle" => run[v][u] # "idle"
      BY <3>1, <3>2
    <3>4. \A v \in Worker, u \in Task : beat'[v][u] \in {beat[v][u], "off"}
      BY <3>1, <3>2
    <3> QED  BY <3>1, <3>3, <3>4
  <2> QED  BY <2>2 DEF LeaseInv
<1>5. CASE HandlerRaises(w, t)
  <2>1. /\ \A v \in Worker, u \in Task : run'[v][u] # "idle" => run[v][u] # "idle"
        /\ status' = status /\ heartbeat' = heartbeat /\ beat' = beat
    BY <1>5 DEF HandlerRaises, QueueTypeOK
  <2> QED  BY <2>1 DEF LeaseInv
<1>6. CASE Finish(w, t)
  <2>1. /\ run[w][t] # "idle" /\ Leaves(w, t)
        /\ \A u \in Task : u # t => status'[u] = status[u] /\ heartbeat'[u] = heartbeat[u]
    BY <1>6 DEF Finish, QueueTypeOK
  <2> QED  BY <2>1, LeaseLeaves
<1>7. CASE Fail(w, t)
  <2>1. /\ run[w][t] # "idle" /\ Leaves(w, t)
        /\ \A u \in Task : u # t => status'[u] = status[u] /\ heartbeat'[u] = heartbeat[u]
    BY <1>7 DEF Fail, QueueTypeOK, LeaseInv
  <2> QED  BY <2>1, LeaseLeaves
<1>8. CASE FailConflicts(w, t)
  BY <1>8, LeaseDies DEF FailConflicts
<1> QED
  BY <1>1, <1>2, <1>3, <1>4, <1>5, <1>6, <1>7, <1>8 DEF RunStep

\* claim() takes only rows nobody runs and leases them to one worker.
LEMMA LeaseClaim ==
    ASSUME QueueAssumption, QueueTypeOK, LeaseInv, NEW w \in Worker, Claim(w)
  PROVE  LeaseInv'
<1>1. PICK B \in SUBSET (Expired \cup Ready) : ClaimBatch(w, B)
  BY ClaimHasBatch
<1>2. \A v \in Worker, t \in Task : v # w /\ run[v][t] # "idle" => t \notin Expired \cup Ready
  BY DEF LeaseInv, Expired, Ready
<1>3. \A v \in Worker, t \in Task : v # w => run'[v][t] = run[v][t] /\ beat'[v][t] = beat[v][t]
  BY <1>1 DEF ClaimBatch, QueueTypeOK
<1>4. \A t \in Task : run'[w][t] # "idle" => t \in B /\ beat'[w][t] \in {"on", "off"}
  BY <1>1 DEF ClaimBatch, QueueTypeOK
<1>5. \A t \in Task : t \in B => status'[t] = "picked" /\ heartbeat'[t] = "fresh"
  BY <1>1 DEF ClaimBatch
<1>6. \A t \in Task : t \notin Expired \cup Ready =>
        status'[t] = status[t] /\ heartbeat'[t] = heartbeat[t]
  BY <1>1 DEF ClaimBatch
<1> QED
  BY <1>2, <1>3, <1>4, <1>5, <1>6 DEF LeaseInv

\* Every step keeps the leases held when no heartbeat stalls.
LEMMA LeaseNext ==
    ASSUME QueueAssumption, MaxStalls = 0
  PROVE  QueueTypeOK /\ LeaseInv /\ [QueueNext]_queueVars => LeaseInv'
<1> SUFFICES ASSUME QueueTypeOK, LeaseInv, [QueueNext]_queueVars PROVE LeaseInv'
  OBVIOUS
<1> USE DEF rowVars, historyVars
<1>1. ASSUME NEW r \in Request, Enqueue(r) PROVE LeaseInv'
  <2>1. PICK t \in Task :
          /\ status[t] = "absent"
          /\ status' = [status EXCEPT ![t] = "queued"]
          /\ UNCHANGED <<heartbeat, run, beat>>
    BY <1>1 DEF Enqueue
  <2> QED  BY <2>1 DEF LeaseInv, QueueTypeOK
<1>2. ASSUME NEW e \in Entrypoint, Requeue(FailedOf(e)) PROVE LeaseInv'
  BY <1>2 DEF Requeue, FailedOf, LeaseInv, QueueTypeOK
<1>3. CASE ChunkRecovery
  BY <1>3 DEF ChunkRecovery, Requeue, FailedOf, LeaseInv, QueueTypeOK
<1>4. ASSUME NEW t \in Task, LeaseExpires(t) PROVE LeaseInv'
  BY <1>4 DEF LeaseExpires, Held, LeaseInv, QueueTypeOK
<1>5. ASSUME NEW t \in Task, HeldLeaseExpires(t) PROVE FALSE
  BY <1>5 DEF HeldLeaseExpires, QueueTypeOK
<1>6. ASSUME NEW w \in Worker, Crash(w) PROVE LeaseInv'
  BY <1>6, LeaseDies DEF Crash
<1>7. CASE UNCHANGED <<status, heartbeat, run, beat>>
  BY <1>7 DEF LeaseInv
<1> QED
  BY <1>1, <1>2, <1>3, <1>4, <1>5, <1>6, <1>7, LeaseClaim, LeaseRunStep
  DEF QueueNext, OperatorRetry, BackoffElapses, queueVars

\* With timely heartbeats every run holds the fresh lease of a picked row.
THEOREM LeasesHeld ==
    ASSUME QueueAssumption, MaxStalls = 0
  PROVE  QueueSpec => []LeaseInv
<1>1. QueueInit => LeaseInv
  BY DEF QueueInit, LeaseInv
<1>2. QueueTypeOK /\ LeaseInv /\ [QueueNext]_queueVars => LeaseInv'
  BY LeaseNext
<1>3. QueueSpec => []QueueTypeOK
  BY TypeCorrect
<1> QED
  BY <1>1, <1>2, <1>3, PTL DEF QueueSpec

\* With timely heartbeats two workers never run the job of one
\* deduplication key at once, whatever crashes.
THEOREM KeysExclusive ==
    ASSUME QueueAssumption, MaxStalls = 0
  PROVE  QueueSpec => []KeyExclusive
<1>1. UniqueActiveKey /\ LeaseInv => KeyExclusive
  BY DEF UniqueActiveKey, LeaseInv, KeyExclusive, Active
<1>2. QueueSpec => []UniqueActiveKey
  BY KeysUnique
<1>3. QueueSpec => []LeaseInv
  BY LeasesHeld
<1> QED
  BY <1>1, <1>2, <1>3, PTL

\* With timely heartbeats a successful row stays successful and a retained
\* failure leaves only through requeue_failed.
THEOREM OutcomesAreFinal ==
    ASSUME QueueAssumption, MaxStalls = 0
  PROVE  QueueSpec => OutcomesFinal
<1> DEFINE Kept ==
      \A t \in Task :
        /\ status[t] = "successful" => status'[t] = "successful"
        /\ status[t] = "failed" /\ status'[t] # "failed" =>
             status'[t] = "queued" /\ requeues'[t] = requeues[t] + 1
<1>1. QueueTypeOK /\ LeaseInv /\ [QueueNext]_queueVars => Kept
  <2> SUFFICES ASSUME QueueTypeOK, LeaseInv, [QueueNext]_queueVars PROVE Kept
    OBVIOUS
  <2> USE DEF rowVars, historyVars
  <2>1. ASSUME NEW r \in Request, Enqueue(r) PROVE Kept
    BY <2>1 DEF Enqueue, QueueTypeOK
  <2>2. ASSUME NEW e \in Entrypoint, Requeue(FailedOf(e)) PROVE Kept
    BY <2>2 DEF Requeue, FailedOf, QueueTypeOK
  <2>3. CASE ChunkRecovery
    BY <2>3 DEF ChunkRecovery, Requeue, FailedOf, QueueTypeOK
  <2>4. ASSUME NEW w \in Worker, Claim(w) PROVE Kept
    <3>1. PICK B \in SUBSET (Expired \cup Ready) : ClaimBatch(w, B)
      BY <2>4, ClaimHasBatch
    <3> QED  BY <3>1 DEF ClaimBatch, Expired, Ready, QueueTypeOK
  <2>5. ASSUME NEW w \in Worker, NEW t \in Task, RunStep(w, t) PROVE Kept
    <3>1. CASE Finish(w, t)
      BY <3>1 DEF Finish, QueueTypeOK, LeaseInv
    <3>2. CASE Fail(w, t)
      BY <3>2 DEF Fail, QueueTypeOK, LeaseInv
    <3>3. CASE status' = status
      BY <3>3
    <3> QED
      BY <2>5, <3>1, <3>2, <3>3
      DEF RunStep, Start, Heartbeat, HeartbeatBreaks, HandlerReturns, HandlerRaises, FailConflicts
  <2>6. CASE status' = status
    BY <2>6
  <2> QED
    BY <2>1, <2>2, <2>3, <2>4, <2>5, <2>6
    DEF QueueNext, OperatorRetry, LeaseExpires, HeldLeaseExpires, BackoffElapses, Crash, queueVars
<1>2. QueueSpec => []QueueTypeOK
  BY TypeCorrect
<1>3. QueueSpec => []LeaseInv
  BY LeasesHeld
<1> QED
  BY <1>1, <1>2, <1>3, PTL DEF QueueSpec, OutcomesFinal, OutcomesFinalStep

-----------------------------------------------------------------------------
(* Attempts and events, whatever the faults.                               *)

\* A row that waits to be claimed, and one whose lease may still expire,
\* leave room for one more attempt.
AttemptsInv ==
  \A t \in Task :
    /\ attempts[t] <= MaxAttempts + requeues[t] + reclaims[t]
    /\ status[t] = "queued" => attempts[t] < MaxAttempts + requeues[t] + reclaims[t]
    /\ status[t] = "absent" => attempts[t] = 0 \/ attempts[t] < MaxAttempts + requeues[t] + reclaims[t]

\* Every step keeps the attempts within what retries and leases paid for.
LEMMA AttemptsNext == ASSUME QueueAssumption PROVE QueueTypeOK /\ AttemptsInv /\ [QueueNext]_queueVars => AttemptsInv'
<1> SUFFICES ASSUME QueueTypeOK, AttemptsInv, [QueueNext]_queueVars PROVE AttemptsInv'
  OBVIOUS
<1> USE DEF rowVars, historyVars
<1>0. MaxAttempts \in Nat /\ MaxAttempts > 0
  BY QueueAssumption DEF QueueAssumption
<1>1. ASSUME NEW r \in Request, Enqueue(r) PROVE AttemptsInv'
  BY <1>0, <1>1 DEF Enqueue, QueueTypeOK, AttemptsInv
<1>2. ASSUME NEW e \in Entrypoint, Requeue(FailedOf(e)) PROVE AttemptsInv'
  BY <1>0, <1>2 DEF Requeue, FailedOf, QueueTypeOK, AttemptsInv
<1>3. CASE ChunkRecovery
  BY <1>0, <1>3 DEF ChunkRecovery, Requeue, FailedOf, QueueTypeOK, AttemptsInv
<1>4. ASSUME NEW w \in Worker, Claim(w) PROVE AttemptsInv'
  <2>1. PICK B \in SUBSET (Expired \cup Ready) : ClaimBatch(w, B)
    BY <1>4, ClaimHasBatch
  <2> QED  BY <1>0, <2>1 DEF ClaimBatch, Expired, Ready, QueueTypeOK, AttemptsInv
<1>5. ASSUME NEW w \in Worker, NEW t \in Task, RunStep(w, t) PROVE AttemptsInv'
  <2>1. CASE Finish(w, t)
    BY <1>0, <2>1 DEF Finish, QueueTypeOK, AttemptsInv
  <2>2. CASE Fail(w, t)
    BY <1>0, <2>2 DEF Fail, Terminal, QueueTypeOK, AttemptsInv
  <2>3. CASE UNCHANGED <<status, attempts, requeues, reclaims>>
    BY <2>3 DEF AttemptsInv
  <2> QED
    BY <1>5, <2>1, <2>2, <2>3
    DEF RunStep, Start, Heartbeat, HeartbeatBreaks, HandlerReturns, HandlerRaises, FailConflicts
<1>6. CASE UNCHANGED <<status, attempts, requeues, reclaims>>
  BY <1>6 DEF AttemptsInv
<1> QED
  BY <1>1, <1>2, <1>3, <1>4, <1>5, <1>6
  DEF QueueNext, OperatorRetry, LeaseExpires, HeldLeaseExpires, BackoffElapses, Crash, queueVars

\* A row is attempted beyond max_attempts only once per retry and once per
\* lease that ran out on it.
THEOREM AttemptsArePaid == ASSUME QueueAssumption PROVE QueueSpec => []AttemptsPaid
<1>1. QueueInit => AttemptsInv
  BY QueueAssumption DEF QueueAssumption, QueueInit, AttemptsInv
<1>2. AttemptsInv => AttemptsPaid
  BY DEF AttemptsInv, AttemptsPaid
<1>3. QueueTypeOK /\ AttemptsInv /\ [QueueNext]_queueVars => AttemptsInv'
  BY AttemptsNext
<1>4. QueueSpec => []QueueTypeOK
  BY TypeCorrect
<1> QED
  BY <1>1, <1>2, <1>3, <1>4, PTL DEF QueueSpec

\* Fewer runners count no more.
LEMMA FewerRunners ==
  ASSUME NEW S, IsFiniteSet(S), NEW R \in SUBSET S
  PROVE  Cardinality(R) \in Nat /\ Cardinality(S) \in Nat /\ Cardinality(R) <= Cardinality(S)
  BY FS_Subset, FS_CardinalityType

\* The workers inside one run can be counted.
LEMMA RunnersFinite == ASSUME QueueAssumption PROVE \A t \in Task : IsFiniteSet(Runners(t)) /\ Cardinality(Runners(t)) \in Nat
<1>1. \A t \in Task : Runners(t) \in SUBSET Worker
  BY DEF Runners
<1> QED
  BY <1>1, QueueAssumption, FS_Subset, FS_CardinalityType DEF QueueAssumption

\* A step that starts no run, claims nothing and writes no event.
LEMMA EventsKept ==
    ASSUME QueueAssumption, QueueTypeOK, EventsAccounted, event' = event, attempts' = attempts,
         \A t \in Task : Runners(t)' \subseteq Runners(t)
  PROVE  EventsAccounted'
<1> SUFFICES ASSUME NEW t \in Task
             PROVE  event[t].successful + event[t].failed + Cardinality(Runners(t)') <= attempts[t]
  BY DEF EventsAccounted
<1>1. Cardinality(Runners(t)') \in Nat /\ Cardinality(Runners(t)') <= Cardinality(Runners(t))
  BY RunnersFinite, FewerRunners
<1>2. event[t].successful \in Nat /\ event[t].failed \in Nat /\ attempts[t] \in Nat
  BY DEF QueueTypeOK
<1> QED
  BY <1>1, <1>2, RunnersFinite DEF EventsAccounted

\* finish() and fail() trade the run for an event.
LEMMA EventsOutcome ==
    ASSUME QueueAssumption, QueueTypeOK, EventsAccounted, NEW w \in Worker, NEW t \in Task,
         run[w][t] # "idle", attempts' = attempts,
         \/ event' = [event EXCEPT ![t].successful = @ + 1]
         \/ event' = [event EXCEPT ![t].failed = @ + 1],
         Dies(w) \/ Leaves(w, t)
  PROVE  EventsAccounted'
<1>1. \A u \in Task : Runners(u)' \subseteq Runners(u)
  BY DEF Runners, Dies, Leaves, QueueTypeOK
<1>2. Runners(t)' \subseteq Runners(t) \ {w} /\ w \in Runners(t)
  BY DEF Runners, Dies, Leaves, QueueTypeOK
<1>3. \A u \in Task :
        /\ event[u].successful \in Nat /\ event[u].failed \in Nat /\ attempts[u] \in Nat
        /\ event'[u].successful + event'[u].failed
             = event[u].successful + event[u].failed + (IF u = t THEN 1 ELSE 0)
  <2>1. event \in [Task -> [successful: Nat, failed: Nat]] /\ attempts \in [Task -> Nat]
    BY DEF QueueTypeOK
  <2>2. \A u \in Task : event[u].successful \in Nat /\ event[u].failed \in Nat /\ attempts[u] \in Nat
    BY <2>1
  <2>3. \A u \in Task : u # t => event'[u] = event[u]
    BY <2>1
  <2>4. \/ event'[t] = [event[t] EXCEPT !.successful = @ + 1]
        \/ event'[t] = [event[t] EXCEPT !.failed = @ + 1]
    BY <2>1
  <2>5. event[t] \in [successful: Nat, failed: Nat]
    BY <2>1
  <2>6. event'[t].successful + event'[t].failed = event[t].successful + event[t].failed + 1
    BY <2>4, <2>5
  <2> QED
    BY <2>2, <2>3, <2>6
<1> SUFFICES ASSUME NEW u \in Task
             PROVE  event'[u].successful + event'[u].failed + Cardinality(Runners(u)')
                      <= attempts[u]
  BY DEF EventsAccounted
<1>4. Cardinality(Runners(u)') \in Nat /\ Cardinality(Runners(u)') <= Cardinality(Runners(u))
  BY <1>1, RunnersFinite, FewerRunners
<1>5. CASE u # t
  BY <1>3, <1>4, <1>5, RunnersFinite DEF EventsAccounted
<1>6. CASE u = t
  <2>1. IsFiniteSet(Runners(t) \ {w}) /\ Cardinality(Runners(t) \ {w}) = Cardinality(Runners(t)) - 1
    BY <1>2, RunnersFinite, FS_RemoveElement
  <2>2. Cardinality(Runners(t)') <= Cardinality(Runners(t)) - 1
    BY <1>2, <2>1, FewerRunners
  <2> QED
    BY <1>3, <1>4, <1>6, <2>2, RunnersFinite DEF EventsAccounted
<1> QED
  BY <1>5, <1>6

\* claim() adds one runner at most for the attempt it counts.
LEMMA EventsClaim ==
    ASSUME QueueAssumption, QueueTypeOK, EventsAccounted, NEW w \in Worker, Claim(w)
  PROVE  EventsAccounted'
<1>1. PICK B \in SUBSET (Expired \cup Ready) : ClaimBatch(w, B)
  BY ClaimHasBatch
<1>2. \A t \in Task : Runners(t)' \subseteq Runners(t) \cup (IF t \in B THEN {w} ELSE {})
  BY <1>1 DEF Runners, ClaimBatch, QueueTypeOK
<1>3. event' = event
      /\ \A t \in Task : attempts'[t] = attempts[t] + (IF t \in B THEN 1 ELSE 0)
  BY <1>1 DEF ClaimBatch, QueueTypeOK
<1> SUFFICES ASSUME NEW t \in Task
             PROVE  event[t].successful + event[t].failed + Cardinality(Runners(t)')
                      <= attempts'[t]
  BY <1>3 DEF EventsAccounted
<1>4. event[t].successful \in Nat /\ event[t].failed \in Nat /\ attempts[t] \in Nat
  BY DEF QueueTypeOK
<1>5. CASE t \in B
  <2>1. IsFiniteSet(Runners(t) \cup {w}) /\ Cardinality(Runners(t) \cup {w}) <= Cardinality(Runners(t)) + 1
    BY RunnersFinite, FS_AddElement
  <2>2. Runners(t)' \in SUBSET (Runners(t) \cup {w})
    BY <1>2, <1>5
  <2>3. Cardinality(Runners(t)') \in Nat /\ Cardinality(Runners(t)') <= Cardinality(Runners(t) \cup {w})
        /\ Cardinality(Runners(t) \cup {w}) \in Nat
    BY <2>1, <2>2, FewerRunners
  <2> QED
    BY <1>3, <1>4, <1>5, <2>1, <2>3, RunnersFinite DEF EventsAccounted
<1>6. CASE t \notin B
  <2>1. Runners(t)' \in SUBSET Runners(t)
    BY <1>2, <1>6
  <2>2. Cardinality(Runners(t)') \in Nat /\ Cardinality(Runners(t)') <= Cardinality(Runners(t))
    BY <2>1, RunnersFinite, FewerRunners
  <2> QED
    BY <1>3, <1>4, <1>6, <2>2, RunnersFinite DEF EventsAccounted
<1> QED
  BY <1>5, <1>6

\* Every step of execute() keeps the account.
LEMMA EventsRunStep ==
    ASSUME QueueAssumption, QueueTypeOK, EventsAccounted, NEW w \in Worker, NEW t \in Task, RunStep(w, t)
  PROVE  EventsAccounted'
<1> USE DEF rowVars, historyVars
<1>1. CASE Finish(w, t)
  BY <1>1, EventsOutcome DEF Finish
<1>2. CASE Fail(w, t)
  <2>1. Dies(w) \/ Leaves(w, t)
    BY <1>2 DEF Fail
  <2> QED  BY <1>2, <2>1, EventsOutcome DEF Fail
<1>3. CASE Start(w, t) \/ HandlerRaises(w, t)
  <2>1. \A u \in Task : Runners(u)' \subseteq Runners(u)
    BY <1>3 DEF Start, HandlerRaises, Runners, QueueTypeOK
  <2> QED  BY <1>3, <2>1, EventsKept DEF Start, HandlerRaises
<1>4. CASE Heartbeat(w, t) \/ HeartbeatBreaks(w, t)
  <2>1. run' = run /\ event' = event /\ attempts' = attempts
    BY <1>4 DEF Heartbeat, HeartbeatBreaks
  <2>2. \A u \in Task : Runners(u)' \subseteq Runners(u)
    BY <2>1 DEF Runners
  <2> QED  BY <2>1, <2>2, EventsKept
<1>5. CASE HandlerReturns(w, t) \/ FailConflicts(w, t)
  <2>1. Dies(w) \/ (run[w][t] # "idle" /\ run' = [run EXCEPT ![w][t] = "returned"])
    BY <1>5 DEF HandlerReturns, FailConflicts
  <2>2. \A u \in Task : Runners(u)' \subseteq Runners(u)
    BY <2>1 DEF Dies, Runners, QueueTypeOK
  <2> QED  BY <1>5, <2>2, EventsKept DEF HandlerReturns, FailConflicts
<1> QED
  BY <1>1, <1>2, <1>3, <1>4, <1>5 DEF RunStep

\* Every step keeps the account.
LEMMA EventsNext == ASSUME QueueAssumption PROVE QueueTypeOK /\ EventsAccounted /\ [QueueNext]_queueVars => EventsAccounted'
<1> SUFFICES ASSUME QueueTypeOK, EventsAccounted, [QueueNext]_queueVars PROVE EventsAccounted'
  OBVIOUS
<1> USE DEF rowVars, historyVars
<1>1. CASE UNCHANGED <<run, event, attempts>>
  <2>1. \A t \in Task : Runners(t)' \subseteq Runners(t)
    BY <1>1 DEF Runners
  <2> QED  BY <1>1, <2>1, EventsKept
<1>2. ASSUME NEW w \in Worker, Crash(w) PROVE EventsAccounted'
  <2>1. \A t \in Task : Runners(t)' \subseteq Runners(t)
    BY <1>2 DEF Crash, Dies, Runners, QueueTypeOK
  <2> QED  BY <1>2, <2>1, EventsKept DEF Crash
<1> QED
  BY <1>1, <1>2, EventsClaim, EventsRunStep
  DEF QueueNext, Enqueue, OperatorRetry, ChunkRecovery, Requeue, LeaseExpires, HeldLeaseExpires,
      BackoffElapses, queueVars

\* The events of a row and its runs under way never outnumber its claims:
\* no claim is ever accounted twice, however workers stall and die.
THEOREM EventsAreAccounted == ASSUME QueueAssumption PROVE QueueSpec => []EventsAccounted
<1>1. QueueInit => EventsAccounted
  <2> SUFFICES ASSUME QueueInit, NEW t \in Task
               PROVE  event[t].successful + event[t].failed + Cardinality(Runners(t)) <= attempts[t]
    BY DEF EventsAccounted
  <2>1. Runners(t) = {}
    BY DEF QueueInit, Runners
  <2> QED  BY <2>1, FS_EmptySet DEF QueueInit
<1>2. QueueTypeOK /\ EventsAccounted /\ [QueueNext]_queueVars => EventsAccounted'
  BY EventsNext
<1>3. QueueSpec => []QueueTypeOK
  BY TypeCorrect
<1> QED
  BY <1>1, <1>2, <1>3, PTL DEF QueueSpec

-----------------------------------------------------------------------------
(* With timely heartbeats the rows of one key implement a JobSlot.         *)

\* What a step may do to one row: nothing, a claim, an expiry, an outcome,
\* the death of its worker, a retry.
RowStep(t) ==
  \/ status'[t] = status[t] /\ Runners(t)' = Runners(t)
  \/ /\ status[t] \in {"queued", "picked"} /\ Runners(t) = {}
     /\ status'[t] = "picked" /\ \E w \in Worker : Runners(t)' = {w}
  \/ /\ status[t] = "picked" /\ Runners(t) = {}
     /\ status'[t] = "queued" /\ Runners(t)' = {}
  \/ /\ status[t] = "picked" /\ Runners(t) # {} /\ Runners(t)' = {}
     /\ status'[t] \in {"queued", "failed", "successful", "picked"}
  \/ /\ status[t] = "failed" /\ Runners(t) = {}
     /\ status'[t] = "queued" /\ Runners(t)' = {}

\* A held lease has one runner, of a picked row.
LEMMA LeaseRunners ==
    ASSUME QueueAssumption, LeaseInv, NEW t \in Task
  PROVE  /\ Runners(t) # {} => status[t] = "picked"
         /\ \A w \in Worker : run[w][t] # "idle" => Runners(t) = {w}
  BY DEF LeaseInv, Runners

\* A step that leaves the runners alone changes rows by retries and expiries.
LEMMA RowStatus ==
    ASSUME QueueAssumption, NEW t \in Task, run' = run, LeaseInv,
         \/ status'[t] = status[t]
         \/ status[t] = "failed" /\ status'[t] = "queued"
  PROVE  RowStep(t)
  BY LeaseRunners DEF RowStep, Runners

\* A worker that dies or leaves its run touches no row but t.
LEMMA RowDies ==
    ASSUME QueueAssumption, QueueTypeOK, LeaseInv, NEW w \in Worker, Dies(w), status' = status, NEW t \in Task
  PROVE  RowStep(t)
<1>1. \A v \in Worker : run'[v][t] = IF v = w THEN "idle" ELSE run[v][t]
  BY DEF Dies, QueueTypeOK
<1>2. CASE run[w][t] = "idle"
  BY <1>1, <1>2 DEF RowStep, Runners
<1>3. CASE run[w][t] # "idle"
  <2>1. Runners(t) = {w} /\ status[t] = "picked"
    BY <1>3, LeaseRunners
  <2>2. Runners(t)' = {}
    BY <1>1, <2>1 DEF Runners
  <2> QED  BY <2>1, <2>2 DEF RowStep
<1> QED
  BY <1>2, <1>3

\* The outcome of a run settles its own row.
LEMMA RowLeaves ==
    ASSUME QueueAssumption, QueueTypeOK, LeaseInv, NEW w \in Worker, NEW u \in Task, run[w][u] # "idle", Leaves(w, u),
         \A x \in Task : x # u => status'[x] = status[x],
         status'[u] \in {"queued", "failed", "successful"}, NEW t \in Task
  PROVE  RowStep(t)
<1>1. \A v \in Worker, x \in Task :
        run'[v][x] = IF v = w /\ x = u THEN "idle" ELSE run[v][x]
  BY DEF Leaves, QueueTypeOK
<1>2. CASE t # u
  BY <1>1, <1>2 DEF RowStep, Runners
<1>3. CASE t = u
  <2>1. Runners(t) = {w} /\ status[t] = "picked"
    BY <1>3, LeaseRunners
  <2>2. Runners(t)' = {}
    BY <1>1, <1>3, <2>1 DEF Runners
  <2> QED  BY <1>3, <2>1, <2>2 DEF RowStep
<1> QED
  BY <1>2, <1>3

\* A step of execute() settles its own row or kills its worker.
LEMMA RowRunStep ==
    ASSUME QueueAssumption, QueueTypeOK, LeaseInv, NEW w \in Worker, NEW u \in Task, RunStep(w, u), NEW t \in Task
  PROVE  RowStep(t)
<1> USE DEF rowVars, historyVars
<1>1. CASE Finish(w, u)
  <2>1. /\ run[w][u] # "idle" /\ Leaves(w, u)
        /\ \A x \in Task : x # u => status'[x] = status[x]
        /\ status'[u] = "successful"
    BY <1>1 DEF Finish, QueueTypeOK
  <2> QED  BY <2>1, RowLeaves
<1>2. CASE Fail(w, u)
  <2>1. /\ run[w][u] # "idle" /\ Leaves(w, u)
        /\ \A x \in Task : x # u => status'[x] = status[x]
        /\ status'[u] \in {"failed", "queued"}
    BY <1>2 DEF Fail, QueueTypeOK, LeaseInv
  <2> QED  BY <2>1, RowLeaves
<1>3. CASE FailConflicts(w, u)
  BY <1>3, RowDies DEF FailConflicts
<1>4. CASE HandlerReturns(w, u)
  <2>1. beat[w][u] # "broken"
    BY <1>4 DEF HandlerReturns, LeaseInv
  <2>2. /\ run' = [run EXCEPT ![w][u] = "returned"] /\ status' = status
        /\ run[w][u] = "running"
    BY <1>4, <2>1 DEF HandlerReturns
  <2>3. \A v \in Worker : run'[v][t] # "idle" <=> run[v][t] # "idle"
    BY <2>2 DEF QueueTypeOK
  <2> QED  BY <2>2, <2>3 DEF RowStep, Runners
<1>5. CASE HandlerRaises(w, u)
  <2>1. \A v \in Worker : run'[v][t] # "idle" <=> run[v][t] # "idle"
    BY <1>5 DEF HandlerRaises, QueueTypeOK
  <2> QED  BY <1>5, <2>1 DEF HandlerRaises, RowStep, Runners
<1>6. CASE Start(w, u)
  <2>1. \A v \in Worker : run'[v][t] # "idle" <=> run[v][t] # "idle"
    BY <1>6 DEF Start, QueueTypeOK
  <2> QED  BY <1>6, <2>1 DEF Start, RowStep, Runners
<1>7. CASE Heartbeat(w, u)
  BY <1>7 DEF Heartbeat, RowStep, Runners
<1>8. CASE HeartbeatBreaks(w, u)
  BY <1>8 DEF HeartbeatBreaks, RowStep, Runners
<1> QED
  BY <1>1, <1>2, <1>3, <1>4, <1>5, <1>6, <1>7, <1>8 DEF RunStep

\* claim() expires and takes rows nobody runs.
LEMMA RowClaim ==
    ASSUME QueueAssumption, QueueTypeOK, LeaseInv, NEW w \in Worker, Claim(w), NEW t \in Task
  PROVE  RowStep(t)
<1>1. PICK B \in SUBSET (Expired \cup Ready) : ClaimBatch(w, B)
  BY ClaimHasBatch
<1>2. \A v \in Worker : v # w => run'[v][t] = run[v][t]
  BY <1>1 DEF ClaimBatch, QueueTypeOK
<1>3. run'[w][t] # "idle" <=> t \in B
  BY <1>1 DEF ClaimBatch, QueueTypeOK
<1>4. run[w][t] = "idle"
  BY DEF Claim, Idle
<1>5. CASE t \in Expired \cup Ready
  <2>1. Runners(t) = {} /\ status[t] \in {"queued", "picked"}
    BY <1>5 DEF LeaseInv, Expired, Ready, Runners
  <2>2. CASE t \in B
    <3>1. Runners(t)' = {w}
      BY <1>2, <1>3, <2>1, <2>2 DEF Runners
    <3>2. status'[t] = "picked"
      BY <1>1, <2>2 DEF ClaimBatch
    <3> QED  BY <2>1, <3>1, <3>2 DEF RowStep
  <2>3. CASE t \notin B
    <3>1. Runners(t)' = {}
      BY <1>2, <1>3, <2>1, <2>3 DEF Runners
    <3>2. status'[t] = IF t \in Expired THEN "queued" ELSE status[t]
      BY <1>1, <2>3 DEF ClaimBatch
    <3>3. t \in Expired => status[t] = "picked"
      BY DEF Expired
    <3> QED  BY <2>1, <3>1, <3>2, <3>3 DEF RowStep
  <2> QED  BY <2>2, <2>3
<1>6. CASE t \notin Expired \cup Ready
  <2>1. status'[t] = status[t]
    BY <1>1, <1>6 DEF ClaimBatch
  <2>2. Runners(t)' = Runners(t)
    BY <1>1, <1>2, <1>3, <1>4, <1>6 DEF Runners
  <2> QED  BY <2>1, <2>2 DEF RowStep
<1> QED
  BY <1>5, <1>6

\* Requeueing puts retained failures back and nothing else.
LEMMA RowRequeue ==
    ASSUME QueueAssumption, NEW selected, selected \subseteq {t \in Task : status[t] = "failed"},
         Requeue(selected), LeaseInv, NEW t \in Task
  PROVE  RowStep(t)
<1>1. run' = run /\ (status'[t] = status[t] \/ (status[t] = "failed" /\ status'[t] = "queued"))
  BY DEF Requeue
<1> QED
  BY <1>1, RowStatus

\* A step that keeps every request moves each row by a RowStep.
LEMMA RowNext ==
    ASSUME QueueAssumption, MaxStalls = 0, QueueTypeOK, LeaseInv, [QueueNext]_queueVars, NEW t \in Task
  PROVE  \/ request' = request /\ RowStep(t)
         \/ \E r \in Request : Enqueue(r)
<1> USE DEF rowVars, historyVars
<1>1. CASE \E r \in Request : Enqueue(r)
  BY <1>1
<1>2. ASSUME NEW e \in Entrypoint, OperatorRetry(e) PROVE request' = request /\ RowStep(t)
  BY <1>2, RowRequeue DEF OperatorRetry, FailedOf, Requeue
<1>3. ASSUME ChunkRecovery PROVE request' = request /\ RowStep(t)
  BY <1>3, RowRequeue DEF ChunkRecovery, FailedOf, Requeue
<1>4. ASSUME NEW w \in Worker, Claim(w) PROVE request' = request /\ RowStep(t)
  BY <1>4, RowClaim DEF Claim
<1>5. ASSUME NEW w \in Worker, NEW u \in Task, RunStep(w, u) PROVE request' = request /\ RowStep(t)
  BY <1>5, RowRunStep
  DEF RunStep, Start, Heartbeat, HeartbeatBreaks, HandlerReturns, HandlerRaises, Finish, Fail,
      FailConflicts
<1>6. ASSUME NEW w \in Worker, Crash(w) PROVE request' = request /\ RowStep(t)
  BY <1>6, RowDies DEF Crash
<1>7. CASE UNCHANGED <<status, request, run>>
  BY <1>7 DEF RowStep, Runners
<1> QED
  BY <1>1, <1>2, <1>3, <1>4, <1>5, <1>6, <1>7
  DEF QueueNext, LeaseExpires, HeldLeaseExpires, BackoffElapses, queueVars

\* The slot's phase, read from the status of the key's active row.
PhaseOf(s) ==
  IF s = "picked" THEN "running"
  ELSE IF s = "queued" THEN "waiting"
  ELSE IF s = "failed" THEN "retained" ELSE "free"

\* A key with an active row has that row's phase and that row's runners.
LEMMA SlotOfRow ==
    ASSUME QueueAssumption, UniqueActiveKey, LeaseInv, NEW t \in Task, request[t].key = SlotKey, status[t] \in Active
  PROVE  SlotPhase = PhaseOf(status[t]) /\ SlotHolder = Runners(t)
<1>1. \A u \in Task : request[u].key = SlotKey /\ status[u] \in Active => u = t
  BY DEF UniqueActiveKey
<1>2. SlotPhase = PhaseOf(status[t])
  BY <1>1 DEF SlotPhase, PhaseOf, Has, Active
<1>3. SlotHolder = Runners(t)
  BY <1>1 DEF SlotHolder, Runners, LeaseInv, Active
<1> QED
  BY <1>2, <1>3

\* A key without an active row is a free slot.
LEMMA SlotFree ==
    ASSUME QueueAssumption, LeaseInv, \A t \in Task : request[t].key = SlotKey => status[t] \notin Active
  PROVE  SlotPhase = "free" /\ SlotHolder = {}
  BY DEF SlotPhase, Has, SlotHolder, LeaseInv, Active

\* An insert under the key offers the slot its work; any other one leaves
\* the slot alone.
LEMMA SlotEnqueue ==
    ASSUME QueueAssumption, QueueTypeOK, UniqueActiveKey, LeaseInv, UniqueActiveKey', LeaseInv',
         NEW r \in Request, Enqueue(r)
  PROVE  [Slot!Next]_(Slot!vars)
<1> USE DEF historyVars
<1>1. PICK t \in Task :
        /\ status[t] = "absent" /\ ~ KeyTaken(r.key)
        /\ status' = [status EXCEPT ![t] = "queued"]
        /\ request' = [request EXCEPT ![t] = r]
        /\ run' = run
  BY DEF Enqueue
<1>2. request'[t] = r /\ status'[t] = "queued"
  BY <1>1 DEF QueueTypeOK
<1>3. \A u \in Task : u # t => request'[u] = request[u] /\ status'[u] = status[u]
  BY <1>1 DEF QueueTypeOK
<1>4. \A w \in Worker : run[w][t] = "idle"
  BY <1>1 DEF LeaseInv
<1>5. CASE r.key = SlotKey
  <2>1. \A u \in Task : request[u].key = SlotKey => status[u] \notin Active
    BY <1>1, <1>5 DEF KeyTaken
  <2>2. SlotPhase = "free" /\ SlotHolder = {}
    BY <2>1, SlotFree
  <2>3. SlotPhase' = "waiting"
    BY <1>1, <1>2, <1>3, <1>5, <2>1 DEF SlotPhase, Has, Active
  <2>4. SlotHolder' = {}
    BY <1>1, <1>2, <1>3, <1>4, <2>2 DEF SlotHolder
  <2> QED  BY <2>2, <2>3, <2>4 DEF Slot!Next, Slot!Offer
<1>6. CASE r.key # SlotKey
  <2>1. \A s : s \in {"picked", "queued", "failed"} => (Has(s)' <=> Has(s))
    BY <1>1, <1>2, <1>3, <1>6 DEF Has
  <2>2. SlotPhase' = SlotPhase
    BY <2>1 DEF SlotPhase
  <2>3. SlotHolder' = SlotHolder
    BY <1>1, <1>2, <1>3, <1>4, <1>6 DEF SlotHolder
  <2> QED  BY <2>2, <2>3 DEF Slot!vars
<1> QED
  BY <1>5, <1>6

\* A RowStep of the key's active row is a step of the slot.
LEMMA SlotRow ==
    ASSUME QueueAssumption, UniqueActiveKey, LeaseInv, UniqueActiveKey', LeaseInv', request' = request,
         \A u \in Task : RowStep(u)
  PROVE  [Slot!Next]_(Slot!vars)
<1>1. \A u \in Task : status'[u] \in Active => status[u] \in Active
  BY DEF RowStep, Active
<1>2. CASE \A u \in Task : request[u].key = SlotKey => status[u] \notin Active
  <2>1. SlotPhase = "free" /\ SlotHolder = {}
    BY <1>2, SlotFree
  <2>2. \A u \in Task : request'[u].key = SlotKey => status'[u] \notin Active
    BY <1>1, <1>2
  <2>3. SlotPhase' = "free" /\ SlotHolder' = {}
    BY <2>2 DEF SlotPhase, Has, SlotHolder, LeaseInv, Active
  <2> QED  BY <2>1, <2>3 DEF Slot!vars
<1>3. ASSUME NEW t \in Task, request[t].key = SlotKey, status[t] \in Active
      PROVE  [Slot!Next]_(Slot!vars)
  <2>1. SlotPhase = PhaseOf(status[t]) /\ SlotHolder = Runners(t)
    BY <1>3, SlotOfRow
  <2>2. \A u \in Task : request'[u].key = SlotKey /\ status'[u] \in Active => u = t
    BY <1>1, <1>3 DEF UniqueActiveKey
  <2>3. SlotPhase' = PhaseOf(status'[t])
    BY <1>3, <2>2 DEF SlotPhase, PhaseOf, Has, Active
  <2>4. SlotHolder' = Runners(t)'
    BY <1>3, <2>2 DEF SlotHolder, Runners, LeaseInv, Active
  <2>5. RowStep(t)
    BY <1>3
  <2>6. CASE status'[t] = status[t] /\ Runners(t)' = Runners(t)
    BY <2>1, <2>3, <2>4, <2>6 DEF Slot!vars
  <2>7. CASE /\ status[t] \in {"queued", "picked"} /\ Runners(t) = {}
             /\ status'[t] = "picked" /\ \E w \in Worker : Runners(t)' = {w}
    BY <2>1, <2>3, <2>4, <2>7 DEF Slot!Next, Slot!Take, PhaseOf
  <2>8. CASE /\ status[t] = "picked" /\ Runners(t) = {}
             /\ status'[t] = "queued" /\ Runners(t)' = {}
    BY <2>1, <2>3, <2>4, <2>8 DEF Slot!Next, Slot!Expire, PhaseOf
  <2>9. CASE /\ status[t] = "picked" /\ Runners(t) # {} /\ Runners(t)' = {}
             /\ status'[t] \in {"queued", "failed", "successful", "picked"}
    BY <2>1, <2>3, <2>4, <2>9 DEF Slot!Next, Slot!Settle, Slot!Die, PhaseOf
  <2>10. CASE /\ status[t] = "failed" /\ Runners(t) = {}
              /\ status'[t] = "queued" /\ Runners(t)' = {}
    BY <2>1, <2>3, <2>4, <2>10 DEF Slot!Next, Slot!Retry, PhaseOf
  <2> QED  BY <2>5, <2>6, <2>7, <2>8, <2>9, <2>10 DEF RowStep
<1> QED
  BY <1>2, <1>3

\* With timely heartbeats the rows of any key, as workers, producers,
\* retries and crashes move them, implement the JobSlot specification.
THEOREM KeyIsASlot ==
    ASSUME QueueAssumption, MaxStalls = 0
  PROVE  QueueSpec => KeyIsSlot
<1>1. QueueInit => Slot!Init
  BY DEF QueueInit, Slot!Init, SlotPhase, SlotHolder, Has
<1>2. /\ QueueTypeOK /\ UniqueActiveKey /\ LeaseInv
      /\ UniqueActiveKey' /\ LeaseInv' /\ [QueueNext]_queueVars
      => [Slot!Next]_(Slot!vars)
  <2> SUFFICES ASSUME QueueTypeOK, UniqueActiveKey, LeaseInv, UniqueActiveKey', LeaseInv', [QueueNext]_queueVars
               PROVE  [Slot!Next]_(Slot!vars)
    OBVIOUS
  <2>1. CASE \E r \in Request : Enqueue(r)
    BY <2>1, SlotEnqueue
  <2>2. CASE ~ \E r \in Request : Enqueue(r)
    <3>1. Task # {}
      BY QueueAssumption DEF QueueAssumption, Task
    <3>2. \A t \in Task : request' = request /\ RowStep(t)
      BY <2>2, RowNext
    <3> QED  BY <3>1, <3>2, SlotRow
  <2> QED  BY <2>1, <2>2
<1>3. QueueSpec => []QueueTypeOK
  BY TypeCorrect
<1>4. QueueSpec => []UniqueActiveKey
  BY KeysUnique
<1>5. QueueSpec => []LeaseInv
  BY LeasesHeld
<1> QED
  BY <1>1, <1>2, <1>3, <1>4, <1>5, PTL DEF QueueSpec, KeyIsSlot, Slot!Spec
-----------------------------------------------------------------------------
(***************************************************************************)
(* Proofs, for every number of callers, calls, months and attempts, and    *)
(* all limits.  A transaction's charges hold because it keeps the locks:   *)
(* what it found room for stays free until it ends (Reserved), and no two  *)
(* transactions charge one row (Exclusive).                                *)
(***************************************************************************)
\* Every charge of an open transaction still fits.
Reserved ==
    \A c \in MeteredCalls : \A r \in charged[c] :
        used[RowOf(c, r, period[c])] + Cost[c] <= LimitOf(RowOf(c, r, period[c]))

\* A row is charged by one open transaction at a time.
Exclusive ==
    \A c, d \in MeteredCalls : c # d =>
        \A r \in charged[c], s \in charged[d] : RowOf(c, r, period[c]) # RowOf(d, s, period[d])

\* A call asked in a month that has come.
Past == \A c \in MeteredCalls : period[c] <= month

IInv == QuotaTypeOK /\ NeverOver /\ Reserved /\ Exclusive /\ Past

\* A counter of a call is a row of the table.
LEMMA RowTyped ==
    ASSUME QuotaAssumption, NEW c \in MeteredCalls, NEW r \in Ranks, NEW m \in 1..Months
    PROVE  RowOf(c, r, m) \in Rows
<1>1. SubjectOf(c, r) \in Subjects
    BY QuotaAssumption DEF QuotaAssumption, SubjectOf, Subjects
<1>2. KindOf(r) \in Kinds
    BY DEF KindOf, Kinds
<1> QED BY <1>1, <1>2 DEF RowOf, Rows

\* A counter that is due has a limit, the same in every month.
LEMMA DueLimited ==
    ASSUME QuotaAssumption, NEW c \in MeteredCalls, NEW r \in Due(c), NEW m
    PROVE  /\ LimitOf(RowOf(c, r, m)) \in Nat
           /\ LimitOf(RowOf(c, r, m)) # NoLimit
<1>1. r \in Ranks /\ LimitOf(RowOf(c, r, 1)) # NoLimit
    BY DEF Due
<1>2. KindOf(r) \in Kinds
    BY <1>1 DEF KindOf, Kinds
<1>3. LimitOf(RowOf(c, r, m)) = LimitOf(RowOf(c, r, 1))
    BY DEF LimitOf, RowOf
<1>4. LimitOf(RowOf(c, r, 1)) \in Nat \cup {NoLimit}
    BY <1>2, QuotaAssumption DEF QuotaAssumption, LimitOf, RowOf
<1> QED BY <1>1, <1>3, <1>4, QuotaAssumption DEF QuotaAssumption

\* Nothing is used or charged when the program starts.
LEMMA InitIInv == ASSUME QuotaAssumption PROVE QuotaInit => IInv
<1> SUFFICES ASSUME QuotaInit PROVE IInv
    OBVIOUS
<1>1. QuotaTypeOK
    BY QuotaAssumption DEF QuotaAssumption, QuotaInit, QuotaTypeOK, Settled
<1>2. NeverOver
  <2> SUFFICES ASSUME NEW row \in Rows, LimitOf(row) # NoLimit
               PROVE  used[row] = 0 /\ 0 <= LimitOf(row)
      BY DEF NeverOver, QuotaInit
  <2>1. LimitOf(row) \in Nat
      BY QuotaAssumption DEF QuotaAssumption, LimitOf, Rows, Subjects
  <2> QED BY <2>1 DEF QuotaInit
<1>3. Reserved /\ Exclusive
    BY DEF QuotaInit, Reserved, Exclusive
<1>4. Past
    BY DEF QuotaInit, Past
<1> QED BY <1>1, <1>2, <1>3, <1>4 DEF IInv

\* A call that leaves the others' transactions and the counters as they are,
\* and charges nothing itself, keeps what holds of the charges.
LEMMA EmptyKeeps ==
    ASSUME QuotaAssumption, IInv, NEW c \in MeteredCalls, UNCHANGED used,
           charged' = [charged EXCEPT ![c] = {}],
           \A d \in MeteredCalls \ {c} : period'[d] = period[d]
    PROVE  NeverOver' /\ Reserved' /\ Exclusive'
<1> USE DEF IInv
<1>1. charged'[c] = {} /\ \A d \in MeteredCalls \ {c} : charged'[d] = charged[d]
    BY DEF QuotaTypeOK
<1>2. NeverOver'
    BY DEF NeverOver
<1>3. Reserved'
    BY <1>1 DEF Reserved
<1>4. Exclusive'
    BY <1>1 DEF Exclusive
<1> QED BY <1>2, <1>3, <1>4

\* A call that begins has charged nothing.
LEMMA BeginKeeps ==
    ASSUME QuotaAssumption, IInv, NEW c \in MeteredCalls, Begin(c) PROVE IInv'
<1> USE DEF IInv
<1>1. charged[c] = {} /\ charged' = charged
    BY DEF Begin, QuotaTypeOK
<1>2. QuotaTypeOK'
    BY QuotaAssumption DEF QuotaAssumption, QuotaTypeOK, Begin, Settled
<1>3. NeverOver' /\ Reserved' /\ Exclusive'
  <2>1. charged' = [charged EXCEPT ![c] = {}]
      BY <1>1 DEF QuotaTypeOK
  <2>2. UNCHANGED used /\ \A d \in MeteredCalls \ {c} : period'[d] = period[d]
      BY DEF Begin, QuotaTypeOK
  <2> QED BY <2>1, <2>2, EmptyKeeps
<1>4. Past'
    BY DEF Past, Begin, QuotaTypeOK
<1> QED BY <1>2, <1>3, <1>4

\* A charge takes a row nobody holds, with room for the cost.
LEMMA ChargeKeeps ==
    ASSUME QuotaAssumption, IInv, NEW c \in MeteredCalls, Charge(c) PROVE IInv'
<1> USE DEF IInv
<1>1. PICK r \in Ranks : /\ Turn(c, r)
                         /\ ~Locked(c, RowOf(c, r, period[c]))
                         /\ Room(c, RowOf(c, r, period[c]))
                         /\ charged' = [charged EXCEPT ![c] = @ \cup {r}]
    BY DEF Charge
<1>2. r \in Due(c)
    BY <1>1 DEF Turn
<1>3. UNCHANGED <<used, month, phase, period, attempt>> /\ phase[c] = "charging"
    BY DEF Charge
<1>4. charged'[c] = charged[c] \cup {r} /\ \A d \in MeteredCalls \ {c} : charged'[d] = charged[d]
    BY <1>1 DEF QuotaTypeOK
<1>5. QuotaTypeOK'
    BY <1>1, <1>2, <1>3, <1>4 DEF QuotaTypeOK, Settled
<1>6. NeverOver' /\ Past'
    BY <1>3 DEF NeverOver, Past
<1>7. Reserved'
    BY <1>1, <1>3, <1>4 DEF Reserved, Room
<1>8. Exclusive'
  <2>1. \A d \in MeteredCalls \ {c} : \A s \in charged[d] :
            RowOf(d, s, period[d]) # RowOf(c, r, period[c])
      BY <1>1 DEF Locked, Holds
  <2> QED BY <2>1, <1>3, <1>4 DEF Exclusive
<1> QED BY <1>5, <1>6, <1>7, <1>8

\* A transaction that ends without a commit leaves the rows as they were.
LEMMA RollbackKeeps ==
    ASSUME QuotaAssumption, IInv, NEW c \in MeteredCalls, phase[c] = "charging", NEW p \in Settled, End(c, p),
           UNCHANGED <<used, month, period, attempt>>
    PROVE  IInv'
<1> USE DEF IInv
<1>1. QuotaTypeOK'
    BY DEF QuotaTypeOK, End, Settled
<1>2. NeverOver' /\ Reserved' /\ Exclusive'
    BY EmptyKeeps DEF End
<1>3. Past'
    BY DEF Past
<1> QED BY <1>1, <1>2, <1>3

\* A conflict rolls everything back.
LEMMA ConflictKeeps ==
    ASSUME QuotaAssumption, IInv, NEW c \in MeteredCalls, Conflict(c) PROVE IInv'
<1> USE DEF IInv
<1>1. CASE attempt[c] = Attempts
    BY <1>1, RollbackKeeps DEF Conflict, Settled
<1>2. CASE attempt[c] # Attempts
  <2>1. QuotaTypeOK'
      BY <1>2, QuotaAssumption DEF QuotaAssumption, QuotaTypeOK, Conflict, Settled
  <2>2. NeverOver' /\ Reserved' /\ Exclusive'
      BY <1>2, EmptyKeeps DEF Conflict
  <2>3. Past'
      BY DEF Past, Conflict
  <2> QED BY <2>1, <2>2, <2>3
<1> QED BY <1>1, <1>2

\* A commit spends what was found free, on rows it holds alone.
LEMMA CommitKeeps ==
    ASSUME QuotaAssumption, IInv, NEW c \in MeteredCalls, Commit(c) PROVE IInv'
<1> USE DEF IInv
<1>1. /\ phase[c] = "charging" /\ charged[c] = Due(c)
      /\ used' = [row \in Rows |-> IF row \in Paid(c) THEN used[row] + Cost[c] ELSE used[row]]
      /\ UNCHANGED <<month, period, attempt>>
    BY DEF Commit
<1>2. PICK p \in Settled : End(c, p)
    BY DEF Commit, Settled
<1>3. charged'[c] = {} /\ \A d \in MeteredCalls \ {c} : charged'[d] = charged[d]
    BY <1>2 DEF QuotaTypeOK, End
<1>4. QuotaTypeOK'
  <2>1. used' \in [Rows -> Nat]
      BY <1>1, QuotaAssumption DEF QuotaAssumption, QuotaTypeOK
  <2> QED BY <1>1, <1>2, <2>1 DEF QuotaTypeOK, End, Settled
<1>5. NeverOver'
  <2> SUFFICES ASSUME NEW row \in Rows
               PROVE  IF LimitOf(row) = NoLimit THEN used'[row] = 0 ELSE used'[row] <= LimitOf(row)
      BY DEF NeverOver
  <2>1. CASE row \in Paid(c)
    <3>1. PICK r \in charged[c] : row = RowOf(c, r, period[c])
        BY <2>1 DEF Paid
    <3>2. LimitOf(row) # NoLimit
        BY <3>1, <1>1, DueLimited
    <3>3. used[row] + Cost[c] <= LimitOf(row)
        BY <3>1 DEF Reserved
    <3> QED BY <2>1, <3>2, <3>3, <1>1
  <2>2. CASE row \notin Paid(c)
      BY <2>2, <1>1 DEF NeverOver
  <2> QED BY <2>1, <2>2
<1>6. Reserved'
  <2> SUFFICES ASSUME NEW d \in MeteredCalls \ {c}, NEW s \in charged[d]
               PROVE  used'[RowOf(d, s, period[d])] = used[RowOf(d, s, period[d])]
      BY <1>1, <1>3 DEF Reserved
  <2>1. RowOf(d, s, period[d]) \notin Paid(c)
      BY DEF Paid, Exclusive
  <2>2. s \in Ranks /\ period[d] \in 1..Months
      BY QuotaAssumption DEF QuotaAssumption, QuotaTypeOK
  <2>3. RowOf(d, s, period[d]) \in Rows
      BY <2>2, RowTyped
  <2> QED BY <1>1, <2>1, <2>3
<1>7. Exclusive'
    BY <1>1, <1>3 DEF Exclusive
<1>8. Past'
    BY <1>1 DEF Past
<1> QED BY <1>4, <1>5, <1>6, <1>7, <1>8

\* A new month changes no call.
LEMMA NewMonthKeeps ==
    ASSUME QuotaAssumption, IInv, NewMonth PROVE IInv'
<1> USE DEF IInv
<1>1. QuotaTypeOK'
    BY QuotaAssumption DEF QuotaAssumption, QuotaTypeOK, NewMonth
<1>2. NeverOver' /\ Reserved' /\ Exclusive'
    BY DEF NeverOver, Reserved, Exclusive, NewMonth
<1>3. Past'
    BY QuotaAssumption DEF QuotaAssumption, Past, NewMonth, QuotaTypeOK
<1> QED BY <1>1, <1>2, <1>3

\* Every step keeps the invariant.
LEMMA StepIInv == ASSUME QuotaAssumption PROVE IInv /\ [QuotaNext]_quotaVars => IInv'
<1> SUFFICES ASSUME IInv, [QuotaNext]_quotaVars PROVE IInv'
    OBVIOUS
<1>1. ASSUME NEW c \in MeteredCalls, Begin(c) PROVE IInv'
    BY <1>1, BeginKeeps
<1>2. ASSUME NEW c \in MeteredCalls, Charge(c) PROVE IInv'
    BY <1>2, ChargeKeeps
<1>3. ASSUME NEW c \in MeteredCalls, Refuse(c) PROVE IInv'
    BY <1>3, RollbackKeeps DEF Refuse, Settled
<1>4. ASSUME NEW c \in MeteredCalls, Commit(c) PROVE IInv'
    BY <1>4, CommitKeeps
<1>5. ASSUME NEW c \in MeteredCalls, Conflict(c) PROVE IInv'
    BY <1>5, ConflictKeeps
<1>6. ASSUME NEW c \in MeteredCalls, Break(c) PROVE IInv'
    BY <1>6, RollbackKeeps DEF Break, Settled
<1>7. CASE NewMonth
    BY <1>7, NewMonthKeeps
<1>8. CASE UNCHANGED quotaVars
    BY <1>8 DEF quotaVars, IInv, QuotaTypeOK, NeverOver, Reserved, Exclusive, Past
<1> QED BY <1>1, <1>2, <1>3, <1>4, <1>5, <1>6, <1>7, <1>8 DEF QuotaNext

\* The types of the model hold for every instance.
THEOREM QuotaTypeCorrect == ASSUME QuotaAssumption PROVE QuotaSpec => []QuotaTypeOK
<1>1. IInv => QuotaTypeOK
    BY DEF IInv
<1>2. QuotaInit => IInv
    BY InitIInv
<1>3. IInv /\ [QuotaNext]_quotaVars => IInv'
    BY StepIInv
<1> QED BY <1>1, <1>2, <1>3, PTL DEF QuotaSpec

\* "a limit is never crossed by an operation that happened to be expensive":
\* no counter passes its limit, however calls overlap, retry and fail.
THEOREM LimitsHold == ASSUME QuotaAssumption PROVE QuotaSpec => []NeverOver
<1>1. IInv => NeverOver
    BY DEF IInv
<1>2. QuotaInit => IInv
    BY InitIInv
<1>3. IInv /\ [QuotaNext]_quotaVars => IInv'
    BY StepIInv
<1> QED BY <1>1, <1>2, <1>3, PTL DEF QuotaSpec

-----------------------------------------------------------------------------
(***************************************************************************)
(* The refinement: a transaction is seen only when it ends.                *)
(***************************************************************************)

OwedRows == [c \in MeteredCalls |-> [m \in 1..Months |-> {RowOf(c, r, m) : r \in Due(c)}]]
Caps == [row \in Rows |-> LimitOf(row)]

\* A call that ends gets its verdict, and the others keep theirs.
LEMMA VerdictOfEnd ==
    ASSUME QuotaAssumption, QuotaTypeOK, NEW c \in MeteredCalls, phase[c] = "charging", NEW p \in Settled,
           phase' = [phase EXCEPT ![c] = p]
    PROVE  Verdict' = [Verdict EXCEPT ![c] = p]
<1>1. phase'[c] = p /\ \A d \in MeteredCalls \ {c} : phase'[d] = phase[d]
    BY DEF QuotaTypeOK
<1> QED BY <1>1 DEF Verdict

\* An open call has no verdict and a month.
LEMMA VerdictOpen ==
    ASSUME QuotaAssumption, QuotaTypeOK, NEW c \in MeteredCalls, phase[c] = "charging"
    PROVE  Verdict[c] = "none" /\ period[c] # 0 /\ period[c] \in 1..Months
<1>1. phase[c] \notin Settled
    BY DEF Settled
<1> QED BY <1>1, QuotaAssumption DEF QuotaAssumption, Verdict, QuotaTypeOK

\* A call that begins asks, in the abstract quota.
LEMMA BeginAsks ==
    ASSUME QuotaAssumption, IInv, NEW c \in MeteredCalls, Begin(c) PROVE Atomic!Ask(c)
<1>1. period[c] = 0 /\ month \in 1..Months
    BY DEF IInv, QuotaTypeOK, Begin
<1>2. \A d \in MeteredCalls : period[d] <= month
    BY <1>1 DEF IInv, Past, QuotaTypeOK
<1>3. /\ period' = [period EXCEPT ![c] = month] /\ UNCHANGED used
      /\ period'[c] = month
    BY DEF Begin, IInv, QuotaTypeOK
<1>4. UNCHANGED Verdict
  <2>1. phase[c] = "idle" /\ phase'[c] = "charging"
            /\ \A d \in MeteredCalls \ {c} : phase'[d] = phase[d]
      BY DEF Begin, IInv, QuotaTypeOK
  <2>2. \A d \in MeteredCalls : (phase'[d] \in Settled <=> phase[d] \in Settled)
                                /\ (phase[d] \in Settled => phase'[d] = phase[d])
      BY <2>1 DEF Settled
  <2> QED BY <2>2 DEF Verdict
<1> QED BY <1>1, <1>2, <1>3, <1>4 DEF Atomic!Ask

\* A call that gives up fails there.
LEMMA FailFails ==
    ASSUME QuotaAssumption, IInv, NEW c \in MeteredCalls, phase[c] = "charging", End(c, "failed"),
           UNCHANGED <<used, period>>
    PROVE  Atomic!Fail(c)
<1>1. Verdict' = [Verdict EXCEPT ![c] = "failed"]
    BY VerdictOfEnd DEF IInv, End, Settled
<1> QED BY <1>1, VerdictOpen DEF Atomic!Fail, Atomic!Open, IInv

\* A refusal is one there, for a counter without room.
LEMMA RefuseRefuses ==
    ASSUME QuotaAssumption, IInv, NEW c \in MeteredCalls, Refuse(c) PROVE Atomic!Refuse(c)
<1>1. PICK r \in Ranks : Turn(c, r) /\ ~Room(c, RowOf(c, r, period[c]))
    BY DEF Refuse
<1>2. r \in Due(c) /\ phase[c] = "charging" /\ UNCHANGED <<used, period>>
    BY <1>1 DEF Turn, Refuse
<1>3. Verdict[c] = "none" /\ period[c] # 0 /\ period[c] \in 1..Months
    BY <1>2, VerdictOpen DEF IInv
<1>4. RowOf(c, r, period[c]) \in Rows
    BY <1>3, RowTyped
<1> DEFINE row == RowOf(c, r, period[c])
<1>5. row \in OwedRows[c][period[c]]
    BY <1>2, <1>3 DEF OwedRows
<1>6. used[row] + Cost[c] > Caps[row]
  <2>1. used[row] \in Nat /\ Cost[c] \in Nat /\ LimitOf(row) \in Nat
      BY <1>2, <1>4, DueLimited, QuotaAssumption DEF QuotaAssumption, IInv, QuotaTypeOK
  <2> QED BY <1>1, <1>4, <2>1 DEF Room, Caps
<1>7. Verdict' = [Verdict EXCEPT ![c] = "refused"]
    BY <1>2, VerdictOfEnd DEF IInv, Refuse, End, Settled
<1> HIDE DEF row
<1> QED BY <1>2, <1>3, <1>5, <1>6, <1>7 DEF Atomic!Refuse, Atomic!Open, OwedRows, Caps

\* A commit pays all a call owes at once.
LEMMA CommitAdmits ==
    ASSUME QuotaAssumption, IInv, NEW c \in MeteredCalls, Commit(c) PROVE Atomic!Admit(c)
<1>1. /\ phase[c] = "charging" /\ charged[c] = Due(c) /\ UNCHANGED period
      /\ used' = [row \in Rows |-> IF row \in Paid(c) THEN used[row] + Cost[c] ELSE used[row]]
    BY DEF Commit
<1>2. Verdict[c] = "none" /\ period[c] # 0 /\ period[c] \in 1..Months
    BY <1>1, VerdictOpen DEF IInv
<1>3. Paid(c) = OwedRows[c][period[c]]
    BY <1>1, <1>2 DEF Paid, OwedRows
<1>4. \A row \in OwedRows[c][period[c]] : used[row] + Cost[c] <= Caps[row]
  <2> SUFFICES ASSUME NEW r \in charged[c]
               PROVE  used[RowOf(c, r, period[c])] + Cost[c] <= Caps[RowOf(c, r, period[c])]
      BY <1>3 DEF Paid
  <2>1. RowOf(c, r, period[c]) \in Rows
      BY <1>2, RowTyped DEF IInv, QuotaTypeOK
  <2> QED BY <2>1 DEF IInv, Reserved, Caps
<1>5. PICK p \in {"admitted", "uncertain"} : phase' = [phase EXCEPT ![c] = p]
    BY DEF Commit, End
<1>6. Verdict' = [Verdict EXCEPT ![c] = p]
    BY <1>1, <1>5, VerdictOfEnd DEF IInv, Settled
<1> QED BY <1>1, <1>2, <1>3, <1>4, <1>6 DEF Atomic!Admit, Atomic!Open, OwedRows, Caps

\* Every step is one of the abstract quota or a stutter.
LEMMA StepAtomic == ASSUME QuotaAssumption PROVE IInv /\ [QuotaNext]_quotaVars => [Atomic!Next]_(Atomic!vars)
<1> SUFFICES ASSUME IInv, [QuotaNext]_quotaVars PROVE Atomic!Next \/ UNCHANGED <<used, Verdict, period>>
    BY DEF Atomic!vars
<1>1. ASSUME NEW c \in MeteredCalls, Begin(c) PROVE Atomic!Ask(c)
    BY <1>1, BeginAsks
<1>2. ASSUME NEW c \in MeteredCalls, Charge(c) PROVE UNCHANGED <<used, Verdict, period>>
    BY <1>2 DEF Charge, Verdict
<1>3. ASSUME NEW c \in MeteredCalls, Refuse(c) PROVE Atomic!Refuse(c)
    BY <1>3, RefuseRefuses
<1>4. ASSUME NEW c \in MeteredCalls, Commit(c) PROVE Atomic!Admit(c)
    BY <1>4, CommitAdmits
<1>5. ASSUME NEW c \in MeteredCalls, Conflict(c)
      PROVE  Atomic!Fail(c) \/ UNCHANGED <<used, Verdict, period>>
  <2>1. CASE attempt[c] = Attempts
      BY <1>5, <2>1, FailFails DEF Conflict
  <2>2. CASE attempt[c] # Attempts
      BY <1>5, <2>2 DEF Conflict, Verdict
  <2> QED BY <2>1, <2>2
<1>6. ASSUME NEW c \in MeteredCalls, Break(c) PROVE Atomic!Fail(c)
    BY <1>6, FailFails DEF Break
<1>7. CASE NewMonth
    BY <1>7 DEF NewMonth, Verdict
<1>8. CASE UNCHANGED quotaVars
    BY <1>8 DEF quotaVars, Verdict
<1> QED BY <1>1, <1>2, <1>3, <1>4, <1>5, <1>6, <1>7, <1>8 DEF QuotaNext, Atomic!Next

\* The initial states are initial there.
LEMMA InitAtomic == ASSUME QuotaAssumption PROVE QuotaInit => Atomic!Init
<1> SUFFICES ASSUME QuotaInit PROVE Atomic!Init
    OBVIOUS
<1>1. Verdict = [c \in MeteredCalls |-> "none"]
    BY DEF QuotaInit, Verdict, Settled
<1> QED BY <1>1 DEF QuotaInit, Atomic!Init

\* "Consume every applicable allowance in one rollback-safe transaction": the
\* upserts, their locks, rollbacks and retries implement the one-step quota.
THEOREM RefinesAtomic == ASSUME QuotaAssumption PROVE QuotaSpec => IsAtomic
<1>1. QuotaInit => IInv /\ Atomic!Init
    BY InitIInv, InitAtomic
<1>2. IInv /\ [QuotaNext]_quotaVars => IInv'
    BY StepIInv
<1>3. IInv /\ [QuotaNext]_quotaVars => [Atomic!Next]_(Atomic!vars)
    BY StepAtomic
<1> QED BY <1>1, <1>2, <1>3, PTL DEF QuotaSpec, IsAtomic, Atomic!Spec
-----------------------------------------------------------------------------
(* What the counters of a month add up to.                                 *)

\* A call pays on a counter what it costs.
LEMMA UnitsCounted ==
    ASSUME QuotaAssumption, NEW c \in MeteredCalls
    PROVE  IsFiniteSet(Units(c)) /\ Cardinality(Units(c)) = Cost[c]
<1>1. Cost[c] \in Nat
    BY QuotaAssumption DEF QuotaAssumption
<1>2. IsFiniteSet(1..Cost[c]) /\ Cardinality(1..Cost[c]) = Cost[c]
    BY <1>1, FS_Interval
<1>3. IsFiniteSet({c}) /\ Cardinality({c}) = 1
    BY FS_Singleton
<1>4. IsFiniteSet({c} \X (1..Cost[c]))
      /\ Cardinality({c} \X (1..Cost[c])) = Cardinality({c}) * Cardinality(1..Cost[c])
    BY <1>2, <1>3, FS_Product
<1> QED BY <1>1, <1>2, <1>3, <1>4 DEF Units

PaidInv == \A row \in Rows : IsFiniteSet(UnitsPaid(row)) /\ used[row] = Cardinality(UnitsPaid(row))

\* A call that is not let through adds to no counter.
LEMMA NobodyPays ==
    ASSUME QuotaAssumption, IInv, PaidInv, UNCHANGED used,
           \A c \in MeteredCalls : \/ /\ phase'[c] \in {"admitted", "uncertain"}
                                      /\ UNCHANGED <<phase[c], period[c]>>
                                   \/ /\ phase[c] \notin {"admitted", "uncertain"}
                                      /\ phase'[c] \notin {"admitted", "uncertain"}
    PROVE  PaidInv'
<1>1. ASSUME NEW row \in Rows PROVE LetThrough(row)' = LetThrough(row)
    BY DEF LetThrough
<1>2. ASSUME NEW row \in Rows PROVE UnitsPaid(row)' = UnitsPaid(row)
    BY <1>1 DEF UnitsPaid
<1> QED BY <1>2 DEF PaidInv

\* A commit pays what the call costs on each of its counters, once.
LEMMA CommitPays ==
    ASSUME QuotaAssumption, IInv, PaidInv, NEW c \in MeteredCalls, Commit(c) PROVE PaidInv'
<1> SUFFICES ASSUME NEW row \in Rows
             PROVE  IsFiniteSet(UnitsPaid(row)') /\ used'[row] = Cardinality(UnitsPaid(row)')
    BY DEF PaidInv
<1>1. /\ phase[c] = "charging" /\ charged[c] = Due(c)
      /\ used' = [x \in Rows |-> IF x \in Paid(c) THEN used[x] + Cost[c] ELSE used[x]]
      /\ UNCHANGED <<month, period, attempt>>
    BY DEF Commit
<1>2. PICK p \in {"admitted", "uncertain"} : phase' = [phase EXCEPT ![c] = p]
    BY DEF Commit, End
<1>3. IsFiniteSet(UnitsPaid(row)) /\ used[row] = Cardinality(UnitsPaid(row))
    BY DEF PaidInv
<1>4. phase \in [MeteredCalls -> {"idle", "charging"} \cup Settled] /\ used \in [Rows -> Nat]
    BY DEF IInv, QuotaTypeOK
<1>5. /\ phase'[c] \in {"admitted", "uncertain"}
      /\ \A d \in MeteredCalls \ {c} : phase'[d] = phase[d]
      /\ c \notin LetThrough(row)
    BY <1>1, <1>2, <1>4 DEF LetThrough
<1>6. CASE row \in Paid(c)
  <2>1. \E r \in Due(c) : RowOf(c, r, period[c]) = row
      BY <1>1, <1>6 DEF Paid
  <2>2. LetThrough(row)' = LetThrough(row) \cup {c}
      BY <1>1, <1>5, <2>1 DEF LetThrough
  <2>3. UnitsPaid(row)' = UnitsPaid(row) \cup Units(c)
      BY <2>2 DEF UnitsPaid
  <2>4. UnitsPaid(row) \cap Units(c) = {}
      BY <1>5 DEF UnitsPaid, Units
  <2>5. IsFiniteSet(Units(c)) /\ Cardinality(Units(c)) = Cost[c]
      BY UnitsCounted
  <2>6. /\ IsFiniteSet(UnitsPaid(row) \cup Units(c))
        /\ Cardinality(UnitsPaid(row) \cup Units(c))
             = Cardinality(UnitsPaid(row)) + Cardinality(Units(c)) - Cardinality(UnitsPaid(row) \cap Units(c))
      BY <1>3, <2>5, FS_Union
  <2>7. Cardinality(UnitsPaid(row) \cap Units(c)) = 0
      BY <2>4, FS_EmptySet
  <2>8. used'[row] = used[row] + Cost[c] /\ used[row] \in Nat /\ Cost[c] \in Nat
      BY <1>1, <1>4, <1>6, QuotaAssumption DEF QuotaAssumption
  <2>9. Cardinality(UnitsPaid(row) \cup Units(c)) = used'[row]
      BY <1>3, <2>5, <2>6, <2>7, <2>8
  <2> QED BY <2>3, <2>6, <2>9
<1>7. CASE row \notin Paid(c)
  <2>1. ~ \E r \in Due(c) : RowOf(c, r, period[c]) = row
      BY <1>1, <1>7 DEF Paid
  <2>2. LetThrough(row)' = LetThrough(row)
      BY <1>1, <1>5, <2>1 DEF LetThrough
  <2>3. UnitsPaid(row)' = UnitsPaid(row)
      BY <2>2 DEF UnitsPaid
  <2> QED BY <1>1, <1>3, <1>7, <2>3
<1> QED BY <1>6, <1>7

\* "Rollback-safe": a counter is at exactly what the calls that were let
\* through in its month cost, however calls overlap, retry and fail.
THEOREM CallsPayInFull == ASSUME QuotaAssumption PROVE QuotaSpec => []PaidInFull
<1>1. QuotaInit => IInv /\ PaidInv
  <2> SUFFICES ASSUME QuotaInit PROVE PaidInv
      BY InitIInv
  <2>1. ASSUME NEW row \in Rows PROVE UnitsPaid(row) = {} /\ used[row] = 0
      BY <2>1 DEF QuotaInit, UnitsPaid, LetThrough
  <2> QED BY <2>1, FS_EmptySet DEF PaidInv
<1>2. IInv /\ PaidInv /\ [QuotaNext]_quotaVars => (IInv /\ PaidInv)'
  <2> SUFFICES ASSUME IInv, PaidInv, [QuotaNext]_quotaVars PROVE PaidInv'
      BY StepIInv
  <2>1. phase \in [MeteredCalls -> {"idle", "charging"} \cup Settled]
        /\ period \in [MeteredCalls -> 0..Months]
      BY DEF IInv, QuotaTypeOK
  <2>2. ASSUME NEW c \in MeteredCalls, Commit(c) PROVE PaidInv'
      BY <2>2, CommitPays
  <2>3. ASSUME NEW c \in MeteredCalls,
               Begin(c) \/ Charge(c) \/ Refuse(c) \/ Conflict(c) \/ Break(c)
        PROVE  PaidInv'
    <3>1. UNCHANGED used /\ phase[c] \notin {"admitted", "uncertain"}
          /\ phase'[c] \notin {"admitted", "uncertain"}
          /\ \A d \in MeteredCalls \ {c} : UNCHANGED <<phase[d], period[d]>>
        BY <2>1, <2>3 DEF Begin, Charge, Refuse, Conflict, Break, End
    <3> QED BY <3>1, NobodyPays
  <2>4. CASE NewMonth \/ UNCHANGED quotaVars
      BY <2>4, NobodyPays DEF NewMonth, quotaVars
  <2> QED BY <2>2, <2>3, <2>4 DEF QuotaNext
<1>3. PaidInv => PaidInFull
    BY DEF PaidInv, PaidInFull
<1> QED BY <1>1, <1>2, <1>3, PTL DEF QuotaSpec
-----------------------------------------------------------------------------
(* Proofs.  The scopes a task has open lie on top of the stack it sees, and *)
(* each is its own.  A connection in use works for an open scope, and a     *)
(* task waits for one for an open scope only.                               *)

TxTyped ==
  /\ doing \in [Tasks -> {"new", "running", "waiting", "unwinding", "done"}]
  /\ wants \in [Tasks -> BlockScope \cup {Null}]
  /\ opened \in [Tasks -> 0 .. MaxDepth]
  /\ openedAs \in [BlockScope -> Callers \cup {Null}]
  /\ stack \in [Tasks -> Seq(BlockScope)]
  /\ block \in [Tasks -> Seq(BlockScope)]
  /\ holder \in [Connections -> BlockScope \cup {Null}]
  /\ standing \in [Connections -> Callers \cup {Null}]

\* Nothing is popped below what the task inherited.
OnTop(t) ==
  /\ Len(block[t]) <= Len(stack[t])
  /\ \A i \in 1 .. Len(block[t]) :
       block[t][i] = stack[t][Len(stack[t]) - Len(block[t]) + i]
\* A task's open blocks are scopes of its own, opened already.
OwnBlocks(t) ==
  \A i \in 1 .. Len(block[t]) : block[t][i].task = t /\ block[t][i].n <= opened[t]
\* A task that was not spawned yet has opened nothing.
NewIsEmpty(t) == doing[t] = "new" => Len(block[t]) = 0
\* A statement that waits for its connection is in an open block.
OpenScope(s) == \E i \in 1 .. Len(block[s.task]) : block[s.task][i] = s
WaitsInside(t) == doing[t] = "waiting" => wants[t] \in BlockScope /\ wants[t].task = t /\ OpenScope(wants[t])

ScopesInv ==
  /\ TxTyped
  /\ \A t \in Tasks : OnTop(t) /\ OwnBlocks(t) /\ NewIsEmpty(t) /\ WaitsInside(t)
  /\ \A c \in Connections : ~ Unused(c) => OpenScope(holder[c])
  /\ StandingIsCallers

\* A scope is what its fields say, and NULL is none.
LEMMA ScopeTyped ==
    ASSUME CallersAssumption, NEW s \in BlockScope
    PROVE  s.task \in Tasks /\ s.n \in Nat /\ s # Null
BY DEF BlockScope, CallersAssumption

\* The last scope of the context is the one the innermost block opened.
LEMMA TopIsOwn ==
    ASSUME ScopesInv, NEW t \in Tasks, block[t] # <<>>
    PROVE  /\ Len(block[t]) \in Nat \ {0} /\ Len(stack[t]) \in Nat \ {0}
           /\ stack[t][Len(stack[t])] = block[t][Len(block[t])]
           /\ block[t][Len(block[t])] \in BlockScope
<1>1. block[t] \in Seq(BlockScope) /\ stack[t] \in Seq(BlockScope)
    BY DEF ScopesInv, TxTyped
<1>2. Len(block[t]) \in Nat \ {0} /\ Len(stack[t]) \in Nat
    BY <1>1, EmptySeq, LenProperties
<1>3. OnTop(t)
    BY DEF ScopesInv
<1>4. Len(block[t]) <= Len(stack[t]) /\ stack[t][Len(stack[t]) - Len(block[t]) + Len(block[t])]
                                             = block[t][Len(block[t])]
  <2>1. Len(block[t]) \in 1..Len(block[t])
      BY <1>2
  <2> QED BY <1>3, <2>1, Zenon DEF OnTop
<1>5. Len(stack[t]) - Len(block[t]) + Len(block[t]) = Len(stack[t]) /\ Len(stack[t]) # 0
    BY <1>2, <1>4
<1>6. block[t][Len(block[t])] \in BlockScope
    BY <1>1, <1>2, ElementOfSeq
<1> QED BY <1>2, <1>4, <1>5, <1>6

\* A step that leaves the connections, the blocks and the stacks alone.
LEMMA IdleStep ==
    ASSUME ScopesInv, TxTyped',
           UNCHANGED <<opened, openedAs, stack, block, holder, standing>>,
           \A t \in Tasks : doing'[t] = "new" => doing[t] = "new",
           \A t \in Tasks : WaitsInside(t)'
    PROVE  ScopesInv'
<1>1. ASSUME NEW t \in Tasks PROVE (OnTop(t) /\ OwnBlocks(t) /\ NewIsEmpty(t))'
    BY DEF ScopesInv, OnTop, OwnBlocks, NewIsEmpty
<1>2. (\A c \in Connections : ~ Unused(c) => OpenScope(holder[c]))' /\ StandingIsCallers'
    BY DEF ScopesInv, StandingIsCallers, Unused, OpenScope
<1> QED BY <1>1, <1>2 DEF ScopesInv

\* A statement that asks for a connection waits inside an open block.
LEMMA AskKeeps ==
    ASSUME CallersAssumption, ScopesInv, NEW t \in Tasks, NEW i \in 1 .. Len(block[t]), Ask(t, i)
    PROVE  ScopesInv'
<1>1. block[t] \in Seq(BlockScope)
    BY DEF ScopesInv, TxTyped
<1>2. block[t][i] \in BlockScope /\ block[t][i].task = t
    BY <1>1, ElementOfSeq DEF ScopesInv, OwnBlocks
<1>3. TxTyped'
    BY <1>2 DEF Ask, ScopesInv, TxTyped
<1>4. ASSUME NEW u \in Tasks PROVE WaitsInside(u)'
  <2>1. CASE u = t
    <3>1. wants'[u] = block[t][i] /\ block' = block
        BY <2>1 DEF Ask, ScopesInv, TxTyped
    <3> QED BY <1>2, <2>1, <3>1 DEF WaitsInside, OpenScope
  <2>2. CASE u # t
    <3>1. wants'[u] = wants[u] /\ doing'[u] = doing[u] /\ block' = block
        BY <2>2 DEF Ask, ScopesInv, TxTyped
    <3>2. WaitsInside(u)
        BY DEF ScopesInv
    <3> QED BY <3>1, <3>2 DEF WaitsInside, OpenScope
  <2> QED BY <2>1, <2>2
<1> QED BY <1>3, <1>4, IdleStep DEF Ask, ScopesInv, TxTyped

\* A task that stops waiting, unwinds or ends keeps its blocks and connections.
LEMMA LeaveKeeps ==
    ASSUME ScopesInv, NEW t \in Tasks, NEW p \in {"unwinding", "done"},
           doing' = [doing EXCEPT ![t] = p], wants' = [wants EXCEPT ![t] = Null] \/ wants' = wants,
           UNCHANGED <<opened, openedAs, stack, block, holder, standing>>
    PROVE  ScopesInv'
<1>1. TxTyped'
    BY DEF ScopesInv, TxTyped
<1>2. ASSUME NEW u \in Tasks PROVE WaitsInside(u)'
  <2>1. doing'[u] = "waiting" => doing[u] = "waiting" /\ wants'[u] = wants[u] /\ u # t
      BY DEF ScopesInv, TxTyped
  <2> QED BY <2>1 DEF ScopesInv, WaitsInside, OpenScope
<1>3. \A u \in Tasks : doing'[u] = "new" => doing[u] = "new"
    BY DEF ScopesInv, TxTyped
<1> QED BY <1>1, <1>2, <1>3, IdleStep

\* A spawned task sees its parent's stack and has opened nothing.
LEMMA SpawnKeeps ==
    ASSUME ScopesInv, NEW t \in Tasks, NEW new \in Tasks, Spawn(t, new) PROVE ScopesInv'
<1>1. TxTyped'
    BY DEF Spawn, ScopesInv, TxTyped
<1>2. ASSUME NEW u \in Tasks PROVE (OnTop(u) /\ OwnBlocks(u) /\ NewIsEmpty(u) /\ WaitsInside(u))'
  <2>1. OnTop(u) /\ OwnBlocks(u) /\ NewIsEmpty(u) /\ WaitsInside(u) /\ Len(stack'[u]) \in Nat
      BY <1>1, LenProperties DEF ScopesInv, TxTyped
  <2>0. /\ UNCHANGED <<opened, block, wants>>
        /\ doing'[u] = "waiting" => doing[u] = "waiting"
      BY DEF Spawn, ScopesInv, TxTyped
  <2>4. (OwnBlocks(u) /\ WaitsInside(u))'
      BY <2>0, <2>1 DEF OwnBlocks, WaitsInside, OpenScope
  <2>2. CASE u = new
    <3>1. Len(block[u]) = 0 /\ block' = block
        BY <2>1, <2>2 DEF Spawn, NewIsEmpty
    <3>2. Len(block'[u]) = 0 /\ 1 .. Len(block'[u]) = {}
        BY <3>1
    <3>3. OnTop(u)'
        BY <2>1, <3>2 DEF OnTop
    <3> QED BY <2>4, <3>2, <3>3 DEF NewIsEmpty
  <2>3. CASE u # new
    <3>1. stack'[u] = stack[u] /\ doing'[u] = doing[u]
        BY <2>3 DEF Spawn, ScopesInv, TxTyped
    <3> QED BY <2>0, <2>1, <2>4, <3>1 DEF OnTop, NewIsEmpty
  <2> QED BY <2>2, <2>3
<1>3. (\A c \in Connections : ~ Unused(c) => OpenScope(holder[c]))' /\ StandingIsCallers'
    BY DEF Spawn, ScopesInv, StandingIsCallers, Unused, OpenScope
<1> QED BY <1>1, <1>2, <1>3 DEF ScopesInv

\* A block that opens is a scope no connection works for yet.
LEMMA EnterKeeps ==
    ASSUME CallersAssumption, ScopesInv, NEW t \in Tasks, NEW v \in Callers, Enter(t, v)
    PROVE  ScopesInv'
<1> DEFINE s == [task |-> t, n |-> opened[t] + 1]
<1>1. /\ block[t] \in Seq(BlockScope) /\ stack[t] \in Seq(BlockScope)
      /\ Len(block[t]) \in Nat /\ Len(stack[t]) \in Nat /\ opened[t] \in Nat
      /\ MaxDepth \in Nat /\ opened[t] < MaxDepth
    BY LenProperties DEF Enter, ScopesInv, TxTyped, CallersAssumption
<1>2. s \in BlockScope /\ s.task = t /\ s.n = opened[t] + 1
    BY <1>1 DEF BlockScope
<1>3. /\ stack' = [stack EXCEPT ![t] = Append(stack[t], s)]
      /\ block' = [block EXCEPT ![t] = Append(block[t], s)]
      /\ opened' = [opened EXCEPT ![t] = opened[t] + 1]
      /\ openedAs' = [openedAs EXCEPT ![s] = v]
      /\ UNCHANGED <<doing, wants, holder, standing>>
    BY DEF Enter, Push
<1> HIDE DEF s
<1>4. /\ Append(stack[t], s) \in Seq(BlockScope) /\ Append(block[t], s) \in Seq(BlockScope)
      /\ Len(Append(stack[t], s)) = Len(stack[t]) + 1
      /\ Len(Append(block[t], s)) = Len(block[t]) + 1
      /\ \A i \in 1 .. Len(block[t]) : Append(block[t], s)[i] = block[t][i]
      /\ \A i \in 1 .. Len(stack[t]) : Append(stack[t], s)[i] = stack[t][i]
      /\ Append(stack[t], s)[Len(stack[t]) + 1] = s
      /\ Append(block[t], s)[Len(block[t]) + 1] = s
    BY <1>1, <1>2, AppendProperties
<1>5. TxTyped'
    BY <1>1, <1>2, <1>3, <1>4 DEF ScopesInv, TxTyped
<1>6. ASSUME NEW u \in Tasks, u # t
      PROVE  stack'[u] = stack[u] /\ block'[u] = block[u] /\ opened'[u] = opened[u]
    BY <1>3, <1>6 DEF ScopesInv, TxTyped
<1>7. /\ stack'[t] = Append(stack[t], s) /\ block'[t] = Append(block[t], s)
      /\ opened'[t] = opened[t] + 1
    BY <1>3 DEF ScopesInv, TxTyped
<1>8. ASSUME NEW r \in BlockScope, OpenScope(r) PROVE OpenScope(r)' /\ r # s
  <2>1. r.task \in Tasks
      BY ScopeTyped
  <2>2. PICK i \in 1 .. Len(block[r.task]) : block[r.task][i] = r
      BY <1>8 DEF OpenScope
  <2>3. r.n <= opened[r.task]
      BY <2>1, <2>2 DEF ScopesInv, OwnBlocks
  <2>4. r # s
      BY <1>1, <1>2, <2>3, ScopeTyped
  <2>5. CASE r.task = t
    <3>1. i \in 1 .. Len(block'[r.task]) /\ block'[r.task][i] = r
        BY <1>1, <1>4, <1>7, <2>2, <2>5
    <3> QED BY <2>4, <3>1 DEF OpenScope
  <2>6. CASE r.task # t
      BY <1>6, <2>1, <2>2, <2>4, <2>6 DEF OpenScope
  <2> QED BY <2>5, <2>6
<1>9. ASSUME NEW u \in Tasks PROVE (OnTop(u) /\ OwnBlocks(u) /\ NewIsEmpty(u) /\ WaitsInside(u))'
  <2>1. OnTop(u) /\ OwnBlocks(u) /\ NewIsEmpty(u) /\ WaitsInside(u)
      BY DEF ScopesInv
  <2>2. WaitsInside(u)'
      BY <1>3, <1>8, <2>1 DEF WaitsInside
  <2>3. CASE u = t
    <3>1. doing[u] # "new" /\ doing'[u] = doing[u]
        BY <1>3, <2>3 DEF Enter
    <3>2. OnTop(u)'
      <4>0. Len(block[t]) <= Len(stack[t])
          BY <2>1, <2>3 DEF OnTop
      <4>1. Len(block'[u]) = Len(block[t]) + 1 /\ Len(stack'[u]) = Len(stack[t]) + 1
          BY <1>4, <1>7, <2>3
      <4>2. ASSUME NEW i \in 1 .. Len(block'[u])
            PROVE  block'[u][i] = stack'[u][Len(stack'[u]) - Len(block'[u]) + i]
        <5>1. CASE i = Len(block[t]) + 1
          <6> DEFINE b == Len(block[t])
                     k == Len(stack[t])
          <6>0. b \in Nat /\ k \in Nat /\ i = b + 1
              BY <1>1, <5>1
          <6> HIDE DEF b, k
          <6>3. (k + 1) - (b + 1) + i = k + 1
              BY <6>0
          <6> USE DEF b, k
          <6>1. Len(stack'[u]) - Len(block'[u]) + i = Len(stack[t]) + 1
              BY <4>1, <6>3
          <6>2. block'[u][i] = s /\ stack'[u][Len(stack[t]) + 1] = s
              BY <1>4, <1>7, <2>3, <5>1
          <6> QED BY <6>1, <6>2
        <5>2. CASE i # Len(block[t]) + 1
          <6> DEFINE b == Len(block[t])
                     k == Len(stack[t])
          <6>0. b \in Nat /\ k \in Nat /\ b <= k /\ i \in 1 .. (b + 1) /\ i # b + 1
              BY <1>1, <4>0, <4>1, <5>2
          <6> HIDE DEF b, k
          <6>1. i \in 1 .. b /\ k - b + i \in 1 .. k
              BY <6>0
          <6> USE DEF b, k
          <6>2. Len(stack'[u]) - Len(block'[u]) + i = Len(stack[t]) - Len(block[t]) + i
              BY <1>1, <4>1, <6>1
          <6> QED BY <1>4, <1>7, <2>1, <2>3, <6>1, <6>2 DEF OnTop
        <5> QED BY <5>1, <5>2
      <4>3. Len(block'[u]) <= Len(stack'[u])
          BY <1>1, <4>0, <4>1
      <4> QED BY <4>2, <4>3 DEF OnTop
    <3>3. OwnBlocks(u)'
      <4>1. ASSUME NEW i \in 1 .. Len(block'[u])
            PROVE  block'[u][i].task = u /\ block'[u][i].n <= opened'[u]
        <5>1. CASE i = Len(block[t]) + 1
          <6>1. block'[u][i] = s
              BY <1>4, <1>7, <2>3, <5>1
          <6>2. s.n <= opened'[t]
              BY <1>1, <1>2, <1>7
          <6> QED BY <1>2, <2>3, <6>1, <6>2
        <5>2. CASE i # Len(block[t]) + 1
          <6> DEFINE b == Len(block[t])
          <6>0. b \in Nat /\ i \in 1 .. (b + 1) /\ i # b + 1
              BY <1>1, <1>4, <1>7, <2>3, <5>2
          <6> HIDE DEF b
          <6>4. i \in 1 .. b
              BY <6>0
          <6> USE DEF b
          <6>1. i \in 1 .. Len(block[t]) /\ block'[u][i] = block[t][i]
              BY <1>4, <1>7, <2>3, <6>4
          <6>2. block[t][i].n <= opened[t] /\ block[t][i].task = t
              BY <2>1, <2>3, <6>1 DEF OwnBlocks
          <6>3. block[t][i].n \in Nat
              BY <1>1, <6>1, ElementOfSeq, ScopeTyped
          <6> QED BY <1>1, <1>7, <2>3, <6>1, <6>2, <6>3
        <5> QED BY <5>1, <5>2
      <4> QED BY <4>1 DEF OwnBlocks
    <3> QED BY <2>2, <3>1, <3>2, <3>3 DEF NewIsEmpty
  <2>4. CASE u # t
      BY <1>3, <1>6, <2>1, <2>2, <2>4 DEF OnTop, OwnBlocks, NewIsEmpty
  <2> QED BY <2>3, <2>4
<1>10. (\A c \in Connections : ~ Unused(c) => OpenScope(holder[c]))'
  <2>1. ASSUME NEW c \in Connections, (~ Unused(c))' PROVE OpenScope(holder[c])'
    <3>1. ~ Unused(c) /\ holder'[c] = holder[c] /\ holder[c] \in BlockScope
        BY <1>3, <2>1 DEF Unused, ScopesInv, TxTyped
    <3>2. OpenScope(holder[c])
        BY <3>1 DEF ScopesInv
    <3>3. PICK r \in BlockScope : r = holder[c]
        BY <3>1
    <3>4. OpenScope(r)'
        BY <1>8, <3>2, <3>3
    <3>5. holder'[c] = r
        BY <3>1, <3>3
    <3> QED BY <3>4, <3>5 DEF OpenScope
  <2> QED BY <2>1
<1>11. StandingIsCallers'
  <2>1. ASSUME NEW c \in Connections
        PROVE  standing'[c] = IF Unused(c)' THEN Null ELSE openedAs'[holder'[c]]
    <3>1. standing'[c] = standing[c] /\ holder'[c] = holder[c]
        BY <1>3
    <3>2. CASE Unused(c)
        BY <3>1, <3>2 DEF Unused, ScopesInv, StandingIsCallers
    <3>3. CASE ~ Unused(c)
      <4>1. holder[c] \in BlockScope /\ OpenScope(holder[c])
          BY <3>3 DEF Unused, ScopesInv, TxTyped
      <4>2. openedAs'[holder[c]] = openedAs[holder[c]]
          BY <1>3, <1>8, <4>1 DEF ScopesInv, TxTyped
      <4> QED BY <3>1, <3>3, <4>2 DEF Unused, ScopesInv, StandingIsCallers
    <3> QED BY <3>2, <3>3
  <2> QED BY <2>1 DEF StandingIsCallers
<1> QED BY <1>5, <1>9, <1>10, <1>11 DEF ScopesInv

\* A connection that is taken works for the scope that asked for it, with the
\* standing that scope was opened with.
LEMMA ConnectKeeps ==
    ASSUME CallersAssumption, ScopesInv, NEW t \in Tasks, NEW c \in Connections, Connect(t, c)
    PROVE  ScopesInv'
<1>1. doing[t] = "waiting" /\ wants[t] \in BlockScope /\ OpenScope(wants[t]) /\ wants[t] # Null
    BY ScopeTyped DEF Connect, ScopesInv, WaitsInside
<1>2. TxTyped'
    BY <1>1 DEF Connect, ScopesInv, TxTyped
<1>3. ASSUME NEW u \in Tasks PROVE (OnTop(u) /\ OwnBlocks(u) /\ NewIsEmpty(u) /\ WaitsInside(u))'
  <2>1. OnTop(u) /\ OwnBlocks(u) /\ NewIsEmpty(u) /\ WaitsInside(u)
      BY DEF ScopesInv
  <2>2. UNCHANGED <<opened, stack, block>>
      BY DEF Connect
  <2>3. /\ doing'[u] = "new" => doing[u] = "new"
        /\ doing'[u] = "waiting" => doing[u] = "waiting" /\ wants'[u] = wants[u]
      BY DEF Connect, ScopesInv, TxTyped
  <2> QED BY <2>1, <2>2, <2>3 DEF OnTop, OwnBlocks, NewIsEmpty, WaitsInside, OpenScope
<1>4. /\ holder'[c] = wants[t] /\ standing'[c] = openedAs[wants[t]]
      /\ \A d \in Connections \ {c} : holder'[d] = holder[d] /\ standing'[d] = standing[d]
      /\ UNCHANGED <<block, openedAs>>
    BY DEF Connect, ScopesInv, TxTyped
<1>5. (\A d \in Connections : ~ Unused(d) => OpenScope(holder[d]))'
    BY <1>1, <1>4 DEF ScopesInv, Unused, OpenScope
<1>6. StandingIsCallers'
    BY <1>1, <1>4 DEF ScopesInv, StandingIsCallers, Unused
<1> QED BY <1>2, <1>3, <1>5, <1>6 DEF ScopesInv

\* A sequence without its last element.
LEMMA WithoutLast ==
    ASSUME NEW q \in Seq(BlockScope), Len(q) \in Nat \ {0}
    PROVE  LET front == SubSeq(q, 1, Len(q) - 1)
           IN /\ front \in Seq(BlockScope) /\ Len(front) = Len(q) - 1
              /\ \A i \in 1 .. (Len(q) - 1) : front[i] = q[i]
<1> DEFINE b == Len(q)
           front == SubSeq(q, 1, b - 1)
<1>1. \A i \in 1 .. (b - 1) : q[i] \in BlockScope
    BY ElementOfSeq
<1>2. b \in Nat \ {0}
    OBVIOUS
<1> HIDE DEF b
<1>3. 1 \in Int /\ b - 1 \in Int
    BY <1>2
<1>4. /\ front \in Seq(BlockScope)
      /\ Len(front) = IF 1 <= b - 1 THEN b - 1 - 1 + 1 ELSE 0
      /\ \A i \in 1 .. b - 1 - 1 + 1 : front[i] = q[1 + i - 1]
    BY <1>1, <1>3, SubSeqProperties
<1>5. /\ front \in Seq(BlockScope) /\ Len(front) = b - 1
      /\ \A i \in 1 .. (b - 1) : front[i] = q[i]
    BY <1>2, <1>4
<1> QED BY <1>5 DEF b

\* Leaving a block ends the transaction that block opened, and no other.
LEMMA ExitKeeps ==
    ASSUME CallersAssumption, ScopesInv, NEW t \in Tasks, Exit(t) PROVE ScopesInv'
<1> DEFINE b == Len(block[t])
           k == Len(stack[t])
           shorter == SubSeq(block[t], 1, b - 1)
           lower == SubSeq(stack[t], 1, k - 1)
           s == block[t][b]
<1>1. /\ block[t] \in Seq(BlockScope) /\ stack[t] \in Seq(BlockScope)
      /\ b \in Nat \ {0} /\ k \in Nat \ {0}
      /\ stack[t][k] = s /\ s \in BlockScope
    BY TopIsOwn DEF Exit, ScopesInv, TxTyped
<1>2. /\ shorter \in Seq(BlockScope) /\ Len(shorter) = b - 1
      /\ \A i \in 1 .. (b - 1) : shorter[i] = block[t][i]
    BY <1>1, WithoutLast
<1>3. /\ lower \in Seq(BlockScope) /\ Len(lower) = k - 1
      /\ \A i \in 1 .. (k - 1) : lower[i] = stack[t][i]
    BY <1>1, WithoutLast
<1>4. /\ stack' = [stack EXCEPT ![t] = lower] /\ block' = [block EXCEPT ![t] = shorter]
      /\ holder' = [c \in Connections |-> IF holder[c] = s THEN Null ELSE holder[c]]
      /\ standing' = [c \in Connections |-> IF holder[c] = s THEN Null ELSE standing[c]]
      /\ UNCHANGED <<doing, wants, opened, openedAs>> /\ doing[t] \in {"running", "unwinding"}
    BY <1>1 DEF Exit, ReleaseConnection
<1> HIDE DEF shorter, lower
<1>5. TxTyped'
    BY <1>2, <1>3, <1>4 DEF ScopesInv, TxTyped
<1>6. /\ stack'[t] = lower /\ block'[t] = shorter
      /\ \A u \in Tasks : u # t => stack'[u] = stack[u] /\ block'[u] = block[u]
    BY <1>4 DEF ScopesInv, TxTyped
<1>7. OnTop(t) /\ OwnBlocks(t) /\ \A i \in 1 .. (b - 1) : i \in 1 .. b
    BY <1>1 DEF ScopesInv
\* Every other open scope stays open.
<1>8. ASSUME NEW r \in BlockScope, OpenScope(r), r # s PROVE OpenScope(r)'
  <2>1. r.task \in Tasks
      BY ScopeTyped
  <2>2. PICK i \in 1 .. Len(block[r.task]) : block[r.task][i] = r
      BY <1>8 DEF OpenScope
  <2>3. CASE r.task = t
    <3>1. i \in 1 .. b /\ i # b
        BY <1>8, <2>2, <2>3
    <3>2. i \in 1 .. (b - 1)
      <4> HIDE DEF b, s
      <4> QED BY <1>1, <3>1
    <3>3. i \in 1 .. Len(block'[r.task]) /\ block'[r.task][i] = r
        BY <1>2, <1>6, <2>2, <2>3, <3>2
    <3> QED BY <3>3 DEF OpenScope
  <2>4. CASE r.task # t
    <3>1. block'[r.task] = block[r.task]
        BY <1>6, <2>1, <2>4
    <3> QED BY <2>2, <3>1 DEF OpenScope
  <2> QED BY <2>3, <2>4
<1>9. OnTop(t)'
  <2>1. b <= k /\ \A i \in 1 .. b : block[t][i] = stack[t][k - b + i]
      BY <1>7 DEF OnTop
  <2> HIDE DEF b, k, s
  <2>2. Len(shorter) <= Len(lower)
      BY <1>1, <1>2, <1>3, <2>1
  <2>3. ASSUME NEW i \in 1 .. (b - 1) PROVE shorter[i] = lower[Len(lower) - Len(shorter) + i]
    <3>1. i \in 1 .. b /\ k - b + i \in 1 .. (k - 1) /\ (k - 1) - (b - 1) + i = k - b + i
        BY <1>1, <2>1
    <3> QED BY <1>2, <1>3, <2>1, <3>1
  <2> QED BY <1>2, <1>6, <2>2, <2>3 DEF OnTop
<1>10. OwnBlocks(t)'
    BY <1>2, <1>4, <1>6, <1>7 DEF OwnBlocks
<1>11. ASSUME NEW u \in Tasks PROVE (OnTop(u) /\ OwnBlocks(u) /\ NewIsEmpty(u) /\ WaitsInside(u))'
  <2>1. OnTop(u) /\ OwnBlocks(u) /\ NewIsEmpty(u) /\ WaitsInside(u)
      BY DEF ScopesInv
  <2>2. CASE u = t
      BY <1>4, <1>9, <1>10, <2>2 DEF NewIsEmpty, WaitsInside
  <2>3. CASE u # t
    <3>1. UNCHANGED <<stack[u], block[u], opened[u], doing[u], wants[u]>>
        BY <1>4, <1>6, <2>3
    <3> QED BY <2>1, <3>1, <2>3 DEF OnTop, OwnBlocks, NewIsEmpty, WaitsInside, OpenScope
  <2> QED BY <2>2, <2>3
<1>12. (\A c \in Connections : ~ Unused(c) => OpenScope(holder[c]))'
  <2>1. ASSUME NEW c \in Connections, (~ Unused(c))' PROVE OpenScope(holder[c])'
    <3>1. holder'[c] = holder[c] /\ holder[c] # s /\ holder[c] # Null
        BY <1>4, <2>1 DEF Unused
    <3>2. holder[c] \in BlockScope /\ OpenScope(holder[c])
        BY <3>1 DEF Unused, ScopesInv, TxTyped
    <3>3. PICK r \in BlockScope : r = holder[c]
        BY <3>2
    <3>4. OpenScope(r) /\ r # s /\ holder'[c] = r
        BY <3>1, <3>2, <3>3
    <3> HIDE DEF s
    <3>5. OpenScope(r)'
        BY <1>8, <3>4
    <3> QED BY <3>4, <3>5 DEF OpenScope
  <2> QED BY <2>1
<1>13. StandingIsCallers'
  <2>1. s # Null
      BY <1>1, ScopeTyped
  <2> HIDE DEF s
  <2> QED BY <1>4, <2>1 DEF ScopesInv, StandingIsCallers, Unused
<1> QED BY <1>5, <1>11, <1>12, <1>13 DEF ScopesInv

-----------------------------------------------------------------------------
\* Nothing is open when the program starts.
LEMMA TxInitStands == ASSUME CallersAssumption, TxInit PROVE ScopesInv
<1>1. TxTyped
    BY EmptySeq DEF TxInit, TxTyped, CallersAssumption
<1>2. \A t \in Tasks : stack[t] = <<>> /\ block[t] = <<>> /\ Len(block[t]) = 0 /\ Len(stack[t]) = 0
    BY EmptySeq DEF TxInit
<1>3. ASSUME NEW t \in Tasks PROVE OnTop(t) /\ OwnBlocks(t) /\ NewIsEmpty(t) /\ WaitsInside(t)
  <2>1. Len(block[t]) = 0 /\ Len(stack[t]) = 0 /\ 1 .. Len(block[t]) = {} /\ doing[t] # "waiting"
      BY <1>2 DEF TxInit
  <2> QED BY <2>1 DEF OnTop, OwnBlocks, NewIsEmpty, WaitsInside
<1>4. (\A c \in Connections : ~ Unused(c) => OpenScope(holder[c])) /\ StandingIsCallers
    BY DEF TxInit, StandingIsCallers, Unused
<1> QED BY <1>1, <1>3, <1>4 DEF ScopesInv

\* Every step keeps the invariant, action by action.
LEMMA TxNextStands ==
    ASSUME CallersAssumption, ScopesInv, [TxNext]_txVars PROVE ScopesInv'
<1>1. ASSUME NEW t \in Tasks,
             \/ \E c \in Connections : ConnectFails(t, c)
             \/ PoolTimeout(t) \/ Raise(t) \/ Ends(t)
      PROVE  ScopesInv'
  <2>1. PICK p \in {"unwinding", "done"} : doing' = [doing EXCEPT ![t] = p]
      BY <1>1 DEF ConnectFails, PoolTimeout, Raise, Ends
  <2>2. /\ UNCHANGED <<opened, openedAs, stack, block, holder, standing>>
        /\ wants' = [wants EXCEPT ![t] = Null] \/ wants' = wants
      BY <1>1 DEF ConnectFails, PoolTimeout, Raise, Ends
  <2> QED BY <2>1, <2>2, LeaveKeeps
<1>2. CASE UNCHANGED txVars
  <2>1. TxTyped'
      BY <1>2 DEF txVars, ScopesInv, TxTyped
  <2>2. \A t \in Tasks : WaitsInside(t)'
      BY <1>2 DEF txVars, ScopesInv, WaitsInside, OpenScope
  <2> QED BY <1>2, <2>1, <2>2, IdleStep DEF txVars
<1> QED BY <1>1, <1>2, SpawnKeeps, EnterKeeps, AskKeeps, ConnectKeeps, ExitKeeps DEF TxNext

\* OpenScope scopes lie on top of the stack their task sees, each is its own, and
\* every connection in use works for one of them.
THEOREM ScopesStand == ASSUME CallersAssumption PROVE TxSpec => []ScopesInv
<1>1. TxInit => ScopesInv
    BY TxInitStands
<1>2. ScopesInv /\ [TxNext]_txVars => ScopesInv'
    BY TxNextStands
<1> QED BY <1>1, <1>2, PTL DEF TxSpec

\* A transaction runs with the standing of its caller, and an idle pooled
\* connection with nobody's, for any number of tasks and depth of nesting.
THEOREM StandingsHold == ASSUME CallersAssumption PROVE TxSpec => []StandingIsCallers
<1>1. ScopesInv => StandingIsCallers
    BY DEF ScopesInv
<1> QED BY <1>1, ScopesStand, PTL

\* Whatever fails, every connection in use belongs to an open block.
THEOREM NoneIsLost == ASSUME CallersAssumption PROVE TxSpec => []NoConnectionLost
<1>1. ASSUME ScopesInv, NEW c \in Connections, ~ Unused(c)
      PROVE  \E i \in DOMAIN block[holder[c].task] : block[holder[c].task][i] = holder[c]
  <2>1. holder[c] \in BlockScope /\ OpenScope(holder[c])
      BY <1>1 DEF ScopesInv, TxTyped, Unused
  <2>2. holder[c].task \in Tasks
      BY <2>1 DEF BlockScope
  <2>3. DOMAIN block[holder[c].task] = 1 .. Len(block[holder[c].task])
      BY <1>1, <2>2, LenProperties DEF ScopesInv, TxTyped
  <2> QED BY <2>1, <2>3 DEF OpenScope
<1>2. ScopesInv => NoConnectionLost
    BY <1>1 DEF NoConnectionLost
<1> QED BY <1>2, ScopesStand, PTL

\* A task pops what its own innermost block opened, though tasks inherit the
\* stacks of one another.
THEOREM PopsAreOwn == ASSUME CallersAssumption PROVE TxSpec => []PopsOwnScope
<1>1. ASSUME ScopesInv, NEW t \in Tasks
      PROVE  /\ Len(block[t]) <= Len(stack[t])
             /\ block[t] = SubSeq(stack[t], Len(stack[t]) - Len(block[t]) + 1, Len(stack[t]))
             /\ \A i \in DOMAIN block[t] : block[t][i].task = t
  <2> DEFINE b == Len(block[t])
             s == Len(stack[t])
             top == SubSeq(stack[t], s - b + 1, s)
  <2>1. /\ block[t] \in Seq(BlockScope) /\ stack[t] \in Seq(BlockScope)
        /\ OnTop(t) /\ OwnBlocks(t)
      BY <1>1 DEF ScopesInv, TxTyped
  <2>2. b \in Nat /\ s \in Nat /\ b <= s /\ DOMAIN block[t] = 1 .. b
      BY <2>1, LenProperties DEF OnTop
  <2>3. \A i \in (s - b + 1) .. s : stack[t][i] \in BlockScope
      BY <2>1, <2>2, ElementOfSeq
  <2>4. \A i \in 1 .. b : block[t][i] = stack[t][s - b + i]
      BY <2>1 DEF OnTop
  <2>5. \A i \in 1 .. b : block[t][i].task = t
      BY <2>1 DEF OwnBlocks
  <2>6. block[t] = top
    <3> HIDE DEF b, s
    <3>1. s - b + 1 \in Int /\ s \in Int /\ s - (s - b + 1) + 1 = b
          /\ (s - b + 1 <= s \/ b = 0)
        BY <2>2
    <3>2. /\ top \in Seq(BlockScope)
          /\ Len(top) = IF s - b + 1 <= s THEN s - (s - b + 1) + 1 ELSE 0
          /\ \A i \in 1 .. s - (s - b + 1) + 1 : top[i] = stack[t][s - b + 1 + i - 1]
        BY <2>3, <3>1, SubSeqProperties
    <3>3. Len(top) = b
        BY <2>2, <3>1, <3>2
    <3>4. ASSUME NEW i \in 1 .. b PROVE block[t][i] = top[i]
      <4>1. s - b + 1 + i - 1 = s - b + i
          BY <2>2
      <4> QED BY <2>4, <3>1, <3>2, <4>1
    <3> QED BY <2>1, <3>2, <3>3, <3>4, SeqEqual DEF b
  <2> QED BY <2>2, <2>5, <2>6
<1>2. ScopesInv => PopsOwnScope
    BY <1>1 DEF PopsOwnScope
<1> QED BY <1>2, ScopesStand, PTL
=============================================================================
