----------------------------- MODULE Schedules -----------------------------
(***************************************************************************)
(* The cron side of PortableWorker: durable schedule cursors, replicas     *)
(* that fire them one by one before they claim, the fan-out of a scoped    *)
(* pass into one queue row per scope set, and the runs of those rows       *)
(* (background/portable.py, background/schedule.py).                       *)
(*                                                                         *)
(* A cursor is due or not.  Rows are the JobSlot of their key, the job's   *)
(* name joined to its sorted scopes.  A batch holds every waiting row.     *)
(* A cadence is longer than one fire_schedules loop: a schedule that a     *)
(* replica has fired is not due again before that loop ends.               *)
(***************************************************************************)
EXTENDS Integers

CONSTANTS
  Replica,      \* PortableWorker processes
  Scoped,       \* enabled ScopedScheduledJob schedules
  System,       \* enabled SystemScheduledJob schedules
  Scope,        \* scope sets
  MaxAttempts,  \* QueueJob.max_attempts
  MaxFails,     \* bound on failed executions and failed callbacks
  MaxCrashes    \* bound on replica crashes

SchedulesAssumption ==
  /\ Scoped \cap System = {}
  /\ MaxAttempts \in Nat \ {0} /\ MaxFails \in Nat /\ MaxCrashes \in Nat

Schedule == Scoped \cup System
Key == Scoped \X Scope

VARIABLES
  due,       \* schedules whose next_run has passed
  holding,   \* scope sets with stored memory
  phase,     \* where run_once stands: "poll", "read", "call", "claim" or "work"
  fired,     \* schedules the replica's current fire_schedules loop has fired
  call,      \* the schedule whose callback the replica runs
  todo,      \* scope sets its fan-out has read and not yet offered
  batch,     \* rows the replica executes
  slot,      \* per key: "free", "queued", "picked" or "failed"
  attempts,  \* attempts of the key's row
  fails, crashes,
  \* What was promised, to judge the behaviour by:
  owed,      \* keys of an occurrence that was fired and has not been offered
  cut        \* schedules whose latest callback a crash or an error ended

replicaVars == <<phase, fired, call, todo, batch>>
promiseVars == <<owed, cut>>
vars == <<due, holding, replicaVars, slot, attempts, fails, crashes, promiseVars>>

NoCall == "none"

TypeOK ==
  /\ due \subseteq Schedule /\ holding \subseteq Scope
  /\ phase \in [Replica -> {"poll", "read", "call", "claim", "work"}]
  /\ fired \in [Replica -> SUBSET Schedule]
  /\ call \in [Replica -> Schedule \cup {NoCall}]
  /\ todo \in [Replica -> SUBSET Scope]
  /\ batch \in [Replica -> SUBSET Key]
  /\ slot \in [Key -> {"free", "queued", "picked", "failed"}]
  /\ attempts \in [Key -> 0..(MaxAttempts + MaxCrashes)]
  /\ fails \in 0..MaxFails /\ crashes \in 0..MaxCrashes
  /\ owed \subseteq Key /\ cut \subseteq Schedule

Init ==
  /\ due = {} /\ holding = {}
  /\ phase = [r \in Replica |-> "poll"]
  /\ fired = [r \in Replica |-> {}]
  /\ call = [r \in Replica |-> NoCall]
  /\ todo = [r \in Replica |-> {}]
  /\ batch = [r \in Replica |-> {}]
  /\ slot = [k \in Key |-> "free"]
  /\ attempts = [k \in Key |-> 0]
  /\ fails = 0 /\ crashes = 0
  /\ owed = {} /\ cut = {}

-----------------------------------------------------------------------------
(* Time and writes.                                                         *)

\* next_run passes.  Occurrences nobody fired in time collapse into one,
\* since next_run is computed from the time of the firing.
Tick(j) ==
  /\ j \notin due /\ \A r \in Replica : j \notin fired[r]
  /\ due' = due \cup {j}
  /\ UNCHANGED <<holding, replicaVars, slot, attempts, fails, crashes, promiseVars>>

\* A first document, artifact or working item of a scope set.
Store(s) ==
  /\ s \notin holding
  /\ holding' = holding \cup {s}
  /\ UNCHANGED <<due, replicaVars, slot, attempts, fails, crashes, promiseVars>>

-----------------------------------------------------------------------------
(* PortableWorker.run_once.                                                 *)

\* fire_schedules takes one due row with skip_locked, moves its cursor and
\* commits before the callback.
Fire(r, j) ==
  /\ phase[r] = "poll" /\ j \in due
  /\ due' = due \ {j}
  /\ phase' = [phase EXCEPT ![r] = IF j \in Scoped THEN "read" ELSE "call"]
  /\ fired' = [fired EXCEPT ![r] = @ \cup {j}]
  /\ call' = [call EXCEPT ![r] = j]
  /\ owed' = owed \cup (({j} \cap Scoped) \X holding)
  /\ cut' = cut \ {j}
  /\ UNCHANGED <<holding, todo, batch, slot, attempts, fails, crashes>>

\* scope_roster: every exact scope set with stored memory.
FirstPage == IF holding = {} THEN {} ELSE {CHOOSE s \in holding : TRUE}   \* mutant: a roster of one scope set
Roster == holding

ReadRoster(r) ==
  /\ phase[r] = "read"
  /\ phase' = [phase EXCEPT ![r] = "call"]
  /\ todo' = [todo EXCEPT ![r] = Roster]
  /\ UNCHANGED <<due, holding, fired, call, batch, slot, attempts, fails, crashes, promiseVars>>

\* fan_out enqueues one scope set after the other; a key that is queued,
\* picked or retained swallows the offer.  A new row has made no attempt.
FreeNever(k) == slot[k] = "free" /\ attempts[k] = 0   \* mutant: the index covers settled rows
Free(k) == slot[k] = "free"

NewAttempts(k) == 0

Offer(r, s) ==
  LET k == <<call[r], s>> IN
  /\ phase[r] = "call" /\ s \in todo[r]
  /\ todo' = [todo EXCEPT ![r] = @ \ {s}]
  /\ IF Free(k)
     THEN /\ slot' = [slot EXCEPT ![k] = "queued"]
          /\ attempts' = [attempts EXCEPT ![k] = NewAttempts(k)]
     ELSE UNCHANGED <<slot, attempts>>
  /\ owed' = owed \ {k}
  /\ UNCHANGED <<due, holding, phase, fired, call, batch, fails, crashes, cut>>

Leaves(r) ==
  /\ phase' = [phase EXCEPT ![r] = "poll"]
  /\ call' = [call EXCEPT ![r] = NoCall]
  /\ todo' = [todo EXCEPT ![r] = {}]

\* The callback, a fan-out or the body of a system job, is over.
Returns(r) ==
  /\ phase[r] = "call" /\ todo[r] = {}
  /\ Leaves(r)
  /\ UNCHANGED <<due, holding, fired, batch, slot, attempts, fails, crashes, promiseVars>>

\* It raises: logged, and the rest of the fan-out is dropped.
CallFails(r) ==
  /\ phase[r] \in {"read", "call"} /\ fails < MaxFails
  /\ fails' = fails + 1
  /\ Leaves(r)
  /\ cut' = cut \cup {call[r]}
  /\ UNCHANGED <<due, holding, fired, batch, slot, attempts, crashes, owed>>

\* The loop ends when it finds nothing due.
FiredAll(r) ==
  /\ phase[r] = "poll" /\ due = {}
  /\ phase' = [phase EXCEPT ![r] = "claim"]
  /\ fired' = [fired EXCEPT ![r] = {}]
  /\ UNCHANGED <<due, holding, call, todo, batch, slot, attempts, fails, crashes, promiseVars>>

Waiting == {k \in Key : slot[k] = "queued"}

Claim(r) ==
  LET B == Waiting IN
  /\ phase[r] = "claim"
  /\ phase' = [phase EXCEPT ![r] = IF B = {} THEN "poll" ELSE "work"]
  /\ batch' = [batch EXCEPT ![r] = B]
  /\ slot' = [k \in Key |-> IF k \in B THEN "picked" ELSE slot[k]]
  /\ attempts' = [k \in Key |-> IF k \in B THEN attempts[k] + 1 ELSE attempts[k]]
  /\ UNCHANGED <<due, holding, fired, call, todo, fails, crashes, promiseVars>>

\* The replica looks at its schedules again when the whole batch is done.
Left(r, k) ==
  /\ batch' = [batch EXCEPT ![r] = @ \ {k}]
  /\ phase' = [phase EXCEPT ![r] = IF batch[r] = {k} THEN "poll" ELSE "work"]

JobDone(r, k) ==
  /\ k \in batch[r]
  /\ slot' = [slot EXCEPT ![k] = "free"]
  /\ Left(r, k)
  /\ UNCHANGED <<due, holding, fired, call, todo, attempts, fails, crashes, promiseVars>>

Outcome(k) == IF attempts[k] >= MaxAttempts THEN "failed" ELSE "queued"

JobFails(r, k) ==
  /\ k \in batch[r] /\ fails < MaxFails
  /\ fails' = fails + 1
  /\ slot' = [slot EXCEPT ![k] = Outcome(k)]
  /\ Left(r, k)
  /\ UNCHANGED <<due, holding, fired, call, todo, attempts, crashes, promiseVars>>

\* A replica dies; the leases of its rows run out.  A schedule it had fired
\* stays fired.  It comes back through install_schedules, which keeps the
\* cursors as they are.
Crash(r) ==
  /\ crashes < MaxCrashes /\ phase[r] # "poll"
  /\ crashes' = crashes + 1
  /\ slot' = [k \in Key |-> IF k \in batch[r] THEN "queued" ELSE slot[k]]
  /\ batch' = [batch EXCEPT ![r] = {}]
  /\ fired' = [fired EXCEPT ![r] = {}]
  /\ Leaves(r)
  /\ cut' = cut \cup ({call[r]} \ {NoCall})
  /\ UNCHANGED <<due, holding, attempts, fails, owed>>

Next ==
  \/ \E j \in Schedule : Tick(j)
  \/ \E s \in Scope : Store(s)
  \/ \E r \in Replica :
       \/ \E j \in Schedule : Fire(r, j)
       \/ \E s \in Scope : Offer(r, s)
       \/ \E k \in Key : JobDone(r, k) \/ JobFails(r, k)
       \/ FiredAll(r) \/ ReadRoster(r) \/ Returns(r) \/ CallFails(r) \/ Claim(r) \/ Crash(r)

Spec == Init /\ [][Next]_vars

-----------------------------------------------------------------------------
(* What the clock promises.                                                 *)

\* A row is executed by one replica at a time, and every picked row is in
\* some replica's batch, whatever crashes in between.
PickedIsExecuted ==
  /\ \A k \in Key : slot[k] = "picked" <=> \E r \in Replica : k \in batch[r]
  /\ \A q, r \in Replica : batch[q] \cap batch[r] # {} => q = r

\* The replica that fired schedule j has yet to offer its pass of scope set s.
Handing(j, s) ==
  \E r \in Replica :
    /\ call[r] = j
    /\ phase[r] = "read" \/ (phase[r] = "call" /\ s \in todo[r])

\* No occurrence is lost in silence: of a schedule whose cron time was taken,
\* every scope set that held memory then has been offered to the queue, or is
\* being handed out by a living replica, or the callback was cut short by a
\* crash or an error.  And a later callback that is not cut makes up for it.
PassesAccounted ==
  \A j \in Scoped, s \in Scope : <<j, s>> \in owed => Handing(j, s) \/ j \in cut

\* Why that is so: what is owed is in the roster a replica is about to read, and
\* a replica runs no callback while it polls.
PromisesHeld ==
  /\ holding \subseteq Scope
  /\ call \in [Replica -> Schedule \cup {NoCall}]
  /\ todo \in [Replica -> SUBSET Scope]
  /\ owed \subseteq Scoped \X holding
  /\ PassesAccounted

\* Why batches are held: only a replica that works holds rows, so that a claim never
\* drops the batch of the replica that makes it.
BatchesHeld ==
  /\ phase \in [Replica -> {"poll", "read", "call", "claim", "work"}]
  /\ batch \in [Replica -> SUBSET Key]
  /\ slot \in [Key -> {"free", "queued", "picked", "failed"}]
  /\ \A r \in Replica : phase[r] # "work" => batch[r] = {}
  /\ PickedIsExecuted

\* What MCService says of the passes of a scope set over time.
Wanted(k) == k[2] \in holding
RunsNow(k) == slot[k] = "picked"
RetainedFailed(k) == slot[k] = "failed"
=============================================================================
