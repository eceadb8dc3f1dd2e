---------------------------- MODULE Provisioning ----------------------------
(***************************************************************************)
(* Bringing a PostgreSQL database to a ready state while several services  *)
(* start at once (src/aizk/ops/provision.py, src/aizk/background/queue.py).*)
(*                                                                         *)
(* The MCP and the API service both call `setup` when they start.  It      *)
(* migrates, verifies row security, registers the tokenizer, installs the  *)
(* queue with its dedupe index, grants the application role, and refreshes *)
(* the vocabulary.  Only the queue installation is under an advisory lock; *)
(* the migration and the tokenizer are not.  Services of the previous      *)
(* release keep enqueueing while a deploy rebuilds the index, and any      *)
(* service may crash between two statements.                               *)
(***************************************************************************)
EXTENDS Naturals, FiniteSets, FiniteSetsExt

CONSTANTS
    Services,       \* services that call setup when they start
    Keys,           \* dedupe keys of jobs
    MaxRows,        \* bound: rows of one key and status
    MaxCrashes,     \* bound: crashes of starting services
    Release,        \* the state the database is in at first: "fresh" or "former"
    AdminNames,     \* databases the owner DSN may name
    AppNames        \* databases the application DSN may name

ReleaseKnown == Release \in {"fresh", "former"}

Maintenance == {"defaultdb", "postgres", "template1"}

VARIABLES
    migrated,     \* the stamped revision is the head
    tokenizer,    \* the BM25 tokenizer is registered
    tables,       \* the queue tables exist
    index,        \* definition of the dedupe index: "none", "former", "declared"
    rows,         \* rows[k]: how many jobs of the key are active, and held as failed
    granted,      \* the application role may use the queue tables
    vocabulary,   \* the ontology has been refreshed from the settings
    lock,         \* the service that holds the advisory lock, or "free"
    pc,           \* where each service is in setup
    seen,         \* what a service's last read returned
    raced,        \* services that found another one's index when they created theirs
    dropped,      \* databases reset has dropped
    admin, app,   \* the databases the two DSNs name
    crashes

database == <<migrated, tokenizer, tables, index, rows, granted, vocabulary>>
dsns == <<admin, app>>
vars == <<database, lock, pc, seen, raced, dropped, dsns, crashes>>

Starting == {"down", "upgrading", "migrated", "unprepared", "prepared", "locked",
             "installed", "unindexed", "indexed", "queued", "privileged"}

TypeOK ==
    /\ {migrated, tokenizer, tables, granted, vocabulary} \subseteq BOOLEAN
    /\ index \in {"none", "former", "declared"}
    /\ rows \in [Keys -> [active : 0..MaxRows, failed : 0..MaxRows]]
    /\ lock \in Services \cup {"free"}
    /\ pc \in [Services -> Starting \cup {"ready"}]
    /\ seen \in [Services -> BOOLEAN]
    /\ raced \subseteq Services
    /\ dropped \subseteq AdminNames
    /\ admin \in AdminNames /\ app \in AppNames
    /\ crashes \in 0..MaxCrashes

Init ==
    /\ migrated = (Release = "former") /\ tokenizer = migrated /\ tables = migrated
    /\ granted = migrated /\ vocabulary = migrated
    /\ index = IF migrated THEN "former" ELSE "none"
    /\ rows = [k \in Keys |-> [active |-> 0, failed |-> 0]]
    /\ lock = "free"
    /\ pc = [s \in Services |-> "down"]
    /\ seen = [s \in Services |-> FALSE]
    /\ raced = {} /\ dropped = {}
    /\ admin \in AdminNames /\ app \in AppNames
    /\ crashes = 0

At(s, here, next) == pc[s] = here /\ pc' = [pc EXCEPT ![s] = next]

-----------------------------------------------------------------------------
(* setup, statement by statement.                                          *)

\* Alembic reads the stamped revision and runs what is missing in one transaction.
BeginUpgrade(s) ==
    /\ At(s, "down", "upgrading")
    /\ seen' = [seen EXCEPT ![s] = migrated]
    /\ UNCHANGED <<database, lock, raced, dropped, dsns, crashes>>

\* Of two services that saw the same revision the second to commit finds the
\* objects already there: its transaction is rolled back and the service exits.
CommitUpgrade(s) ==
    /\ IF seen[s] = migrated THEN At(s, "upgrading", "migrated")
                             ELSE At(s, "upgrading", "down")
    /\ migrated' = TRUE
    /\ UNCHANGED <<tokenizer, tables, index, rows, granted, vocabulary>>
    /\ UNCHANGED <<lock, seen, raced, dropped, dsns, crashes>>

\* The probe tokenizes a word; it fails when the tokenizer is not registered.
ProbeTokenizer(s) ==
    /\ At(s, "migrated", IF tokenizer THEN "prepared" ELSE "unprepared")
    /\ UNCHANGED <<database, lock, seen, raced, dropped, dsns, crashes>>

\* Registering it a second time is an error, which ends the service.
CreateTokenizer(s) ==
    /\ At(s, "unprepared", IF tokenizer THEN "down" ELSE "prepared")
    /\ tokenizer' = TRUE
    /\ UNCHANGED <<migrated, tables, index, rows, granted, vocabulary>>
    /\ UNCHANGED <<lock, seen, raced, dropped, dsns, crashes>>

MutantLockNotAwaited(s) ==
    /\ At(s, "prepared", "locked")
    /\ lock' = s
    /\ UNCHANGED <<database, seen, raced, dropped, dsns, crashes>>

TakeLock(s) ==
    /\ lock = "free"
    /\ At(s, "prepared", "locked")
    /\ lock' = s
    /\ UNCHANGED <<database, seen, raced, dropped, dsns, crashes>>

\* Two jobs of one key that an index of definition d would both cover.
Covered(k, d) ==
    CASE d = "declared" -> rows[k].active + rows[k].failed
      [] d = "former"   -> rows[k].active
      [] OTHER          -> 0
Unique(d) == \A k \in Keys : Covered(k, d) <= 1

\* The library creates its tables and an index of its own over queued and picked
\* jobs; an upgrade of existing tables may put that index back when it is gone.
LibraryInstall(s) ==
    /\ At(s, "locked", "installed")
    /\ tables' = TRUE
    /\ index' \in {IF tables THEN index ELSE "former",
                   IF index = "none" /\ Unique("former") THEN "former" ELSE index}
    /\ UNCHANGED <<migrated, tokenizer, rows, granted, vocabulary>>
    /\ UNCHANGED <<lock, seen, raced, dropped, dsns, crashes>>

\* `definition_current` decides whether the index is dropped, a statement of its own.
CheckIndex(s) ==
    /\ IF index = "declared"
       THEN At(s, "installed", "indexed") /\ index' = index
       ELSE At(s, "installed", "unindexed") /\ index' = "none"
    /\ UNCHANGED <<migrated, tokenizer, tables, rows, granted, vocabulary>>
    /\ UNCHANGED <<lock, seen, raced, dropped, dsns, crashes>>

Release_(s) == IF lock = s THEN "free" ELSE lock

\* CREATE UNIQUE INDEX fails when jobs share a key or an index has its name.
CreateIndex(s) ==
    /\ IF index = "none" /\ Unique("declared")
       THEN /\ At(s, "unindexed", "indexed")
            /\ index' = "declared" /\ lock' = lock
       ELSE /\ At(s, "unindexed", "down")
            /\ index' = index /\ lock' = Release_(s)
    /\ raced' = IF index = "none" THEN raced ELSE raced \cup {s}
    /\ UNCHANGED <<migrated, tokenizer, tables, rows, granted, vocabulary>>
    /\ UNCHANGED <<seen, dropped, dsns, crashes>>

\* Mutant: the connection goes back to a pool instead of closing.
MutantKeepsLock(s) ==
    /\ At(s, "indexed", "queued")
    /\ granted' = TRUE
    /\ lock' = lock
    /\ UNCHANGED <<migrated, tokenizer, tables, index, rows, vocabulary>>
    /\ UNCHANGED <<seen, raced, dropped, dsns, crashes>>

\* The grants on the queue's objects, then the connection closes and the lock goes.
GrantQueue(s) ==
    /\ At(s, "indexed", "queued")
    /\ granted' = TRUE
    /\ lock' = Release_(s)
    /\ UNCHANGED <<migrated, tokenizer, tables, index, rows, vocabulary>>
    /\ UNCHANGED <<seen, raced, dropped, dsns, crashes>>

GrantRole(s) ==
    /\ At(s, "queued", "privileged")
    /\ granted' = TRUE
    /\ UNCHANGED <<migrated, tokenizer, tables, index, rows, vocabulary>>
    /\ UNCHANGED <<lock, seen, raced, dropped, dsns, crashes>>

RefreshVocabulary(s) ==
    /\ At(s, "privileged", "ready")
    /\ vocabulary' = TRUE
    /\ UNCHANGED <<migrated, tokenizer, tables, index, rows, granted>>
    /\ UNCHANGED <<lock, seen, raced, dropped, dsns, crashes>>

\* The process dies; PostgreSQL rolls its transaction back and frees its lock.
Crash(s) ==
    /\ crashes < MaxCrashes
    /\ pc[s] # "down" /\ pc' = [pc EXCEPT ![s] = "down"]
    /\ lock' = Release_(s)
    /\ crashes' = crashes + 1
    /\ UNCHANGED <<database, seen, raced, dropped, dsns>>

-----------------------------------------------------------------------------
(* The database reset names, and the services that use the queue.          *)

\* `_reset_target`: the one database both DSNs name, never a maintenance one.
ResetTarget == IF admin \in Maintenance \/ app # admin THEN "refused" ELSE admin

\* Reset runs from the command line on a database that no service uses.
Reset ==
    /\ \A s \in Services : pc[s] = "down"
    /\ ResetTarget # "refused" /\ dropped = {}
    /\ dropped' = {ResetTarget}
    /\ migrated' = FALSE /\ tokenizer' = FALSE /\ tables' = FALSE
    /\ granted' = FALSE /\ vocabulary' = FALSE /\ index' = "none"
    /\ rows' = [k \in Keys |-> [active |-> 0, failed |-> 0]]
    /\ UNCHANGED <<lock, pc, seen, raced, dsns, crashes>>

Jobs(k, active, failed) ==
    /\ rows' = [rows EXCEPT ![k] = [active |-> active, failed |-> failed]]
    /\ UNCHANGED <<migrated, tokenizer, tables, index, granted, vocabulary>>
    /\ UNCHANGED <<lock, pc, seen, raced, dropped, dsns, crashes>>

\* An insert is refused by the index that covers the key (DuplicateJobError).
Enqueue(k) ==
    /\ tables /\ granted
    /\ Covered(k, index) = 0 /\ rows[k].active < MaxRows
    /\ Jobs(k, rows[k].active + 1, rows[k].failed)

Finish(k) == rows[k].active > 0 /\ Jobs(k, rows[k].active - 1, rows[k].failed)

\* A job out of attempts is held (on_failure="hold"), its key with it.
Hold(k) ==
    /\ rows[k].active > 0 /\ rows[k].failed < MaxRows
    /\ Jobs(k, rows[k].active - 1, rows[k].failed + 1)

RequeueFailed(k) ==
    /\ rows[k].failed > 0 /\ rows[k].active < MaxRows
    /\ index # "former" \/ rows[k].active = 0
    /\ Jobs(k, rows[k].active + 1, rows[k].failed - 1)

-----------------------------------------------------------------------------
Setup(s) ==
    \/ BeginUpgrade(s)
    \/ CommitUpgrade(s)
    \/ ProbeTokenizer(s)
    \/ CreateTokenizer(s)
    \/ TakeLock(s)
    \/ LibraryInstall(s)
    \/ CheckIndex(s)
    \/ CreateIndex(s)
    \/ GrantQueue(s)
    \/ GrantRole(s)
    \/ RefreshVocabulary(s)

Use(k) ==
    \/ Enqueue(k)
    \/ Finish(k)
    \/ Hold(k)
    \/ RequeueFailed(k)

Next ==
    \/ \E s \in Services : Setup(s) \/ Crash(s)
    \/ \E k \in Keys : Use(k)
    \/ Reset

Spec == Init /\ [][Next]_vars

-----------------------------------------------------------------------------
(* Once a service is up, no two active or held jobs share a dedupe key,    *)
(* whatever the services of the previous release enqueued while the index  *)
(* was being rebuilt and whichever setup crashed halfway.                  *)
UniqueWhenServed ==
    (\E s \in Services : pc[s] = "ready") => Unique("declared")

(* A service that is up finds everything it depends on: the head schema,   *)
(* the tokenizer, the live index, its grants and the vocabulary, also when *)
(* another service that started at the same moment failed or crashed.      *)
ServedComplete ==
    (\E s \in Services : pc[s] = "ready") =>
        migrated /\ tokenizer /\ tables /\ granted /\ vocabulary /\ index = "declared"

(* Two services that start at the same instant never race the rebuild of   *)
(* the index: none finds the index of the other when it creates its own.   *)
RebuildNeverRaced == raced = {}

(* Reset drops no database but the one both DSNs name, and never a         *)
(* maintenance database.                                                   *)
DropsOnlyTheAgreed == dropped \subseteq {app} \ Maintenance

(* A startup over a current index never weakens live deduplication: the    *)
(* index goes only with the whole database.                                *)
SteadyStartKeepsIndex ==
    index = "declared" => index' = "declared" \/ dropped' # dropped

\* A service that is up.
Serves(s) == pc[s] = "ready"
=============================================================================
