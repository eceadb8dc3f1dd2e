------------------------------ MODULE Backups ------------------------------
(***************************************************************************)
(* The self-hosted database's archives (src/aizk/backup.py): the scheduled *)
(* dump and its pruning, dumps on demand, and restoring one in place.      *)
(* Every dump writes into the file it will be found under, so a failed or  *)
(* killed one leaves a truncated archive beside the complete ones.         *)
(*                                                                         *)
(* The database is the number of the last write it holds; an archive is    *)
(* the generation pg_dump's snapshot saw.                                  *)
(***************************************************************************)
EXTENDS Naturals, FiniteSets

CONSTANTS
    Scheduled,  \* names of the scheduled dumps, one stamp each
    Manual,     \* names an operator dumps to, which the prune's pattern matches
    KeepDays,   \* backup_keep_days
    MaxDay, MaxWrites   \* bounds: days that pass, writes to the database

BackupAssumption ==
    /\ Scheduled \cap Manual = {}
    /\ KeepDays \in Nat \ {0} /\ MaxDay \in Nat /\ MaxWrites \in Nat \ {0}

Names == Scheduled \cup Manual
Torn == MaxWrites + 1      \* what a truncated archive or half a restore holds

VARIABLES
    day,
    database,   \* its generation
    tokenizer,  \* the bm25 tokenizer is registered
    archive,    \* archive[n]: None or [holds, day]
    dumping,    \* dumping[n]: the generation a running dump of n reads, or Idle
    pruning,    \* the scheduled dump that succeeded and prunes next, or {}
    restoring,  \* what pg_restore is streaming, or {}
    ensuring,   \* a restore committed and its tokenizer is to be probed
    best,       \* the newest generation a scheduled dump reported
    served      \* the generations the database was in, in this history

vars == <<day, database, tokenizer, archive, dumping, pruning, restoring, ensuring, best, served>>

None == [holds |-> 0, day |-> MaxDay + 1]
Idle == Torn
Exists(n) == archive[n] # None

TypeOK ==
    /\ day \in 0..MaxDay /\ database \in 0..Torn /\ tokenizer \in BOOLEAN
    /\ archive \in [Names -> [holds : 0..Torn, day : 0..MaxDay + 1]]
    /\ dumping \in [Names -> 0..Idle]
    /\ pruning \in SUBSET Scheduled /\ restoring \in SUBSET [name : Names, holds : 0..Torn] /\ ensuring \in BOOLEAN
    /\ best \in 0..MaxWrites /\ served \in SUBSET (0..MaxWrites)
    /\ \A n \in Names : dumping[n] # Idle => archive[n].holds = Torn
    /\ Cardinality(pruning) <= 1 /\ Cardinality(restoring) <= 1

Init ==
    /\ day = 0 /\ database = 1 /\ tokenizer = TRUE
    /\ archive = [n \in Names |-> None]
    /\ dumping = [n \in Names |-> Idle]
    /\ pruning = {} /\ restoring = {} /\ ensuring = FALSE
    /\ best = 0 /\ served = {1}

Write ==
    /\ Cardinality(served) < MaxWrites
    /\ database' = Cardinality(served) + 1
    /\ served' = served \cup {database'}
    /\ UNCHANGED <<day, tokenizer, archive, dumping, pruning, restoring, ensuring, best>>

\* Nothing is awaited between a dump's report and its prune.
Tomorrow ==
    /\ pruning = {} /\ day < MaxDay /\ day' = day + 1
    /\ UNCHANGED <<database, tokenizer, archive, dumping, pruning, restoring, ensuring, best, served>>

-----------------------------------------------------------------------------
(* Dumping.                                                                *)

\* The schedule has one dump at a time, each under a new stamp.
FreeStamp(n) == ~ Exists(n) /\ pruning = {} /\ \A m \in Scheduled : dumping[m] = Idle

\* Opening truncates whatever stood under the name.
Open(n) ==
    /\ dumping[n] = Idle
    /\ n \in Scheduled => FreeStamp(n)
    /\ archive' = [archive EXCEPT ![n] = [holds |-> Torn, day |-> day]]
    /\ dumping' = [dumping EXCEPT ![n] = database]
    /\ restoring' = {IF r.name = n THEN [r EXCEPT !.holds = Torn] ELSE r : r \in restoring}
    /\ UNCHANGED <<day, database, tokenizer, pruning, ensuring, best, served>>

Close(n) ==
    /\ dumping[n] # Idle /\ Exists(n)
    /\ archive' = [archive EXCEPT ![n] = [holds |-> dumping[n], day |-> day]]
    /\ dumping' = [dumping EXCEPT ![n] = Idle]
    /\ pruning' = IF n \in Scheduled THEN {n} ELSE pruning
    /\ best' = IF n \in Scheduled THEN dumping[n] ELSE best
    /\ UNCHANGED <<day, database, tokenizer, restoring, ensuring, served>>

\* pg_dump exits non-zero or its worker dies: the torn file stays.
DumpFails(n) ==
    /\ dumping[n] # Idle
    /\ dumping' = [dumping EXCEPT ![n] = Idle]
    /\ UNCHANGED <<day, database, tokenizer, archive, pruning, restoring, ensuring, best, served>>

\* Older than the days to keep, by the file's own time.
Expired(n) == Exists(n) /\ day - archive[n].day > KeepDays

Prune ==
    /\ pruning # {} /\ pruning' = {}
    /\ archive' = [n \in Names |-> IF Expired(n) THEN None ELSE archive[n]]
    /\ dumping' = [n \in Names |-> IF Expired(n) THEN Idle ELSE dumping[n]]
    /\ UNCHANGED <<day, database, tokenizer, restoring, ensuring, best, served>>

\* The worker dies in between.
PruneNever ==
    /\ pruning # {} /\ pruning' = {}
    /\ UNCHANGED <<day, database, tokenizer, archive, dumping, restoring, ensuring, best, served>>

-----------------------------------------------------------------------------
(* Restoring the configured database.                                      *)

\* A restore that died before its probe leaves it to the next one.
Restore(n) ==
    /\ Exists(n) /\ restoring = {} /\ dumping[n] = Idle
    /\ restoring' = {[name |-> n, holds |-> archive[n].holds]}
    /\ UNCHANGED <<day, database, tokenizer, archive, dumping, pruning, ensuring, best, served>>

\* One transaction: a torn archive is rolled back, a complete one replaces the
\* database; extension state may not come with it.
Replace(r) ==
    /\ restoring' = {}
    /\ \/ /\ r.holds # Torn
          /\ database' = r.holds
          /\ tokenizer' \in {TRUE, FALSE} /\ ensuring' = TRUE
       \/ UNCHANGED <<database, tokenizer, ensuring>>
    /\ UNCHANGED <<day, archive, dumping, pruning, best, served>>

\* The tokenizer is probed and created when the probe fails.
Ensure ==
    /\ ensuring /\ ensuring' = FALSE
    /\ tokenizer' = TRUE
    /\ UNCHANGED <<day, database, archive, dumping, pruning, restoring, best, served>>

Next ==
    \/ Write \/ Tomorrow \/ Prune \/ PruneNever \/ Ensure
    \/ \E n \in Names : Open(n) \/ Close(n) \/ DumpFails(n) \/ Restore(n)
    \/ \E r \in restoring : Replace(r)

Spec == Init /\ [][Next]_vars

-----------------------------------------------------------------------------
(* Once a scheduled dump has succeeded there is always a complete archive  *)
(* at least as new, whatever fails, is pruned or is dumped by hand.        *)
Recoverable ==
    best > 0 => \E n \in Scheduled : Exists(n) /\ archive[n].holds = best

(* Pruning removes only what is past its days and never a running dump.    *)
PruneKeepsYoung ==
    \A n \in Names :
       Exists(n) /\ archive'[n] = None =>
           day - archive[n].day > KeepDays

(* The database is always one whole generation it once was in.             *)
RestoredWhole == database \in served

(* When a restore is over the lexical lane's tokenizer stands again.       *)
LexicalStands == ~ ensuring => tokenizer
=============================================================================
