---------------------------- MODULE ObjectStore ----------------------------
(***************************************************************************)
(* The bytes of uploaded originals: objects in the bucket, the blob rows   *)
(* that point at them, intake, compaction (ArtifactCompaction), deferred   *)
(* deletion (ArtifactRetirement) and readers.  Database rows and objects   *)
(* change in separate steps, any process may die between two of them, and  *)
(* several compactions and collections may overlap.                        *)
(*                                                                         *)
(* A key is fresh randomness, so it is put at most once.  The layout of a  *)
(* blob is its key and its encoding level, 0 for NULL; sizes only decide   *)
(* whether a replacement is denser.                                        *)
(***************************************************************************)
EXTENDS Integers, FiniteSets

CONSTANTS
  Key,             \* storage keys the stores will ever draw
  BlobRow,         \* rows of `blob`
  Compactor,       \* runs of `aizk admin storage compact`
  Collector,       \* runs of the nightly cleanup
  Reader,          \* conversions reading an original
  NoKey,           \* SQL NULL
  MaxLevel,        \* object_store_compression_level values in use, 1..MaxLevel
  MaxStoreFaults,  \* bound on deaths and failed deletions
  MaxSlow          \* bound on reads that outlast a retirement grace

StoreAssumption ==
  /\ MaxLevel \in Nat /\ MaxStoreFaults \in Nat /\ MaxSlow \in Nat
  /\ NoKey \notin Key /\ IsFiniteSet(Key) /\ IsFiniteSet(Reader)

VARIABLES
  object,   \* the bucket: "free" (never put), "stored" or "deleted"
  pointer,  \* Blob.storage_key, NoKey before create_original
  level,    \* Blob.encoding_level
  retired,  \* the object_retirement row of a key
  owner,    \* the collector whose lease set that row's delete_after
  intake,   \* the key accept() has put for a blob it has not created yet
  compact,  \* each compaction: what it observed and where it stands
  collect,  \* each collection: the keys it leased and where it stands
  read,     \* each reader
  storeFaults, slow

storeRowVars == <<pointer, level, retired, owner>>
storeVars == <<object, storeRowVars, intake, compact, collect, read, storeFaults, slow>>

Level == 0..MaxLevel
NoCompaction == [pc |-> "idle", blob |-> NoKey, key |-> NoKey, level |-> 0, target |-> 0,
                 fresh |-> NoKey]
NoCollection == [pc |-> "idle", items |-> {}, key |-> NoKey]
NoRead == [pc |-> "idle", blob |-> NoKey, key |-> NoKey]

StoreTypeOK ==
  /\ object \in [Key -> {"free", "stored", "deleted"}]
  /\ pointer \in [BlobRow -> Key \cup {NoKey}]
  /\ level \in [BlobRow -> Level]
  /\ retired \in [Key -> {"none", "grace", "due", "leased", "gone"}]
  /\ owner \in [Key -> Collector \cup {NoKey}]
  /\ intake \in [BlobRow -> Key \cup {NoKey}]
  /\ compact \in [Compactor ->
       [pc: {"observed", "denser", "same", "stamp", "lost"}, blob: BlobRow, key: Key,
        level: Level, target: Level, fresh: Key \cup {NoKey}] \cup {NoCompaction}]
  /\ collect \in [Collector ->
       [pc: {"idle", "delete", "forget"}, items: SUBSET Key, key: Key \cup {NoKey}]]
  /\ read \in [Reader ->
       [pc: {"holding", "retrying", "failed"}, blob: BlobRow, key: Key] \cup {NoRead}]
  /\ storeFaults \in 0..MaxStoreFaults
  /\ slow \in 0..MaxSlow

StoreInit ==
  /\ object = [k \in Key |-> "free"]
  /\ pointer = [b \in BlobRow |-> NoKey]
  /\ level = [b \in BlobRow |-> 0]
  /\ retired = [k \in Key |-> "none"]
  /\ owner = [k \in Key |-> NoKey]
  /\ intake = [b \in BlobRow |-> NoKey]
  /\ compact = [p \in Compactor |-> NoCompaction]
  /\ collect = [g \in Collector |-> NoCollection]
  /\ read = [r \in Reader |-> NoRead]
  /\ storeFaults = 0 /\ slow = 0

\* ByteStore.put under a key nobody has drawn before.
Put(k) == object[k] = "free" /\ object' = [object EXCEPT ![k] = "stored"]
Delete(k) == object' = [object EXCEPT ![k] = "deleted"]
Fault == storeFaults < MaxStoreFaults /\ storeFaults' = storeFaults + 1

-----------------------------------------------------------------------------
(* ArtifactIntake.accept.                                                  *)

IntakePuts(b, k) ==
  /\ pointer[b] = NoKey /\ intake[b] = NoKey
  /\ Put(k)
  /\ intake' = [intake EXCEPT ![b] = k]
  /\ UNCHANGED <<storeRowVars, compact, collect, read, storeFaults, slow>>

\* create_original; compression may be off, which records no level.
IntakeCreates(b, l) ==
  /\ intake[b] # NoKey
  /\ pointer' = [pointer EXCEPT ![b] = intake[b]]
  /\ level' = [level EXCEPT ![b] = l]
  /\ intake' = [intake EXCEPT ![b] = NoKey]
  /\ UNCHANGED <<object, retired, owner, compact, collect, read, storeFaults, slow>>

\* A database error or a spent quota deletes the object again.
IntakeRefused(b) ==
  /\ intake[b] # NoKey
  /\ Delete(intake[b])
  /\ intake' = [intake EXCEPT ![b] = NoKey]
  /\ UNCHANGED <<storeRowVars, compact, collect, read, storeFaults, slow>>

\* Death, another exception or a failed deletion leaves the object behind.
IntakeDies(b) ==
  /\ intake[b] # NoKey
  /\ Fault
  /\ intake' = [intake EXCEPT ![b] = NoKey]
  /\ UNCHANGED <<object, storeRowVars, compact, collect, read, slow>>

-----------------------------------------------------------------------------
(* ArtifactCompaction.rewrite, under the level of its own deployment.      *)

CompactAt(p, pc) == compact[p].pc = pc
CompactEnds(p) == compact' = [compact EXCEPT ![p] = NoCompaction]

\* compaction_candidates.
Observes(p, b, t) ==
  /\ CompactAt(p, "idle")
  /\ pointer[b] # NoKey /\ level[b] < t
  /\ compact' = [compact EXCEPT ![p] =
       [pc |-> "observed", blob |-> b, key |-> pointer[b], level |-> level[b], target |-> t,
        fresh |-> NoKey]]
  /\ UNCHANGED <<object, storeRowVars, intake, collect, read, storeFaults, slow>>

\* get the observed object, put it again under a fresh key.
Rewrites(p, k, denser) ==
  /\ CompactAt(p, "observed")
  /\ object[compact[p].key] = "stored"
  /\ Put(k)
  /\ compact' = [compact EXCEPT ![p].fresh = k,
                                ![p].pc = IF denser THEN "denser" ELSE "same"]
  /\ UNCHANGED <<storeRowVars, intake, collect, read, storeFaults, slow>>

\* The object cannot be read or written: reported and left a candidate.
RewriteErrs(p) ==
  /\ CompactAt(p, "observed")
  /\ CompactEnds(p)
  /\ UNCHANGED <<object, storeRowVars, intake, collect, read, storeFaults, slow>>

\* Not denser: the replacement goes before the row is stamped.
Discards(p) ==
  /\ CompactAt(p, "same")
  /\ Delete(compact[p].fresh)
  /\ compact' = [compact EXCEPT ![p].fresh = NoKey, ![p].pc = "stamp"]
  /\ UNCHANGED <<storeRowVars, intake, collect, read, storeFaults, slow>>

StillCurrentKey(p) ==   \* mutant: the prior encoding level is not compared
  pointer[compact[p].blob] = compact[p].key
StillCurrentAny(p) == TRUE   \* mutant: the layout is not compared
\* _observed_layout: the row still carries exactly what was read.
StillCurrent(p) ==
  LET b == compact[p].blob IN
  pointer[b] = compact[p].key /\ level[b] = compact[p].level

\* record_compaction without a replacement; a conflict changes nothing.
StampsLevel(p) ==
  /\ CompactAt(p, "stamp")
  /\ level' = IF StillCurrent(p)
              THEN [level EXCEPT ![compact[p].blob] = compact[p].target] ELSE level
  /\ CompactEnds(p)
  /\ UNCHANGED <<object, pointer, retired, owner, intake, collect, read, storeFaults, slow>>

\* record_compaction with one: repoint and retire in one transaction.
Repoints(p) ==
  /\ CompactAt(p, "denser")
  /\ IF StillCurrent(p)
     THEN /\ pointer' = [pointer EXCEPT ![compact[p].blob] = compact[p].fresh]
          /\ level' = [level EXCEPT ![compact[p].blob] = compact[p].target]
          /\ retired' = [retired EXCEPT ![compact[p].key] = "grace"]
          /\ CompactEnds(p)
     ELSE /\ compact' = [compact EXCEPT ![p].pc = "lost"]
          /\ UNCHANGED <<pointer, level, retired>>
  /\ UNCHANGED <<object, owner, intake, collect, read, storeFaults, slow>>

LostLayoutObserved(p) == compact[p].key   \* mutant: the layout it observed goes
LostLayout(p) == compact[p].fresh

\* The loser deletes its own replacement.
Abandons(p) ==
  /\ CompactAt(p, "lost")
  /\ Delete(LostLayout(p))
  /\ CompactEnds(p)
  /\ UNCHANGED <<storeRowVars, intake, collect, read, storeFaults, slow>>

\* Death, a database error or a failed deletion ends the pass.
CompactorDies(p) ==
  /\ ~ CompactAt(p, "idle")
  /\ Fault
  /\ CompactEnds(p)
  /\ UNCHANGED <<object, storeRowVars, intake, collect, read, slow>>

-----------------------------------------------------------------------------
(* ArtifactRetirement.collect.                                             *)

CollectAt(g, pc) == collect[g].pc = pc
ItemEnds(g) == collect' = [collect EXCEPT ![g].pc = "idle", ![g].key = NoKey]

\* delete_after <= now; the grace runs from the repointing.  A reader that
\* still holds the key when it ends is a slow one.
GraceElapses(k) ==
  LET holders == {r \in Reader : read[r].pc \in {"holding", "retrying"} /\ read[r].key = k} IN
  /\ retired[k] = "grace"
  /\ retired' = [retired EXCEPT ![k] = "due"]
  /\ slow + Cardinality(holders) <= MaxSlow
  /\ slow' = slow + Cardinality(holders)
  /\ UNCHANGED <<object, pointer, level, owner, intake, compact, collect, read, storeFaults>>

Due == {k \in Key : retired[k] = "due"}

\* claim_retirements: one transaction leases part of what is due.
Leases(g) ==
  /\ collect[g] = NoCollection
  /\ \E S \in SUBSET Due :
       /\ S # {}
       /\ retired' = [k \in Key |-> IF k \in S THEN "leased" ELSE retired[k]]
       /\ owner' = [k \in Key |-> IF k \in S THEN g ELSE owner[k]]
       /\ collect' = [collect EXCEPT ![g].items = S]
  /\ UNCHANGED <<object, pointer, level, intake, compact, read, storeFaults, slow>>

\* The five minutes pass, whether or not the collector is still at it.
LeaseElapses(k) ==
  /\ retired[k] = "leased"
  /\ retired' = [retired EXCEPT ![k] = "due"]
  /\ UNCHANGED <<object, pointer, level, owner, intake, compact, collect, read, storeFaults, slow>>

Unreferenced(k) == \A b \in BlobRow : pointer[b] # k

\* The next item of the batch; a referenced key is reported and kept.
Takes(g, k) ==
  /\ CollectAt(g, "idle") /\ k \in collect[g].items
  /\ collect' = [collect EXCEPT ![g].items = @ \ {k},
                                ![g].pc = IF Unreferenced(k) THEN "delete" ELSE "idle",
                                ![g].key = IF Unreferenced(k) THEN k ELSE NoKey]
  /\ UNCHANGED <<object, storeRowVars, intake, compact, read, storeFaults, slow>>

Collects(g) ==
  /\ CollectAt(g, "delete")
  /\ Delete(collect[g].key)
  /\ collect' = [collect EXCEPT ![g].pc = "forget"]
  /\ UNCHANGED <<storeRowVars, intake, compact, read, storeFaults, slow>>

\* A deletion the bucket refuses is retained for the next pass.
CollectErrs(g) ==
  /\ CollectAt(g, "delete")
  /\ Fault
  /\ ItemEnds(g)
  /\ UNCHANGED <<object, storeRowVars, intake, compact, read, slow>>

\* forget_retirement: unless a later lease has moved delete_after.
LeasedBy(g) ==
  LET k == collect[g].key IN
  retired[k] \in {"leased", "due"} /\ owner[k] = g /\ Unreferenced(k)
Forgets(g) ==
  /\ CollectAt(g, "forget")
  /\ retired' = IF LeasedBy(g) THEN [retired EXCEPT ![collect[g].key] = "gone"] ELSE retired
  /\ ItemEnds(g)
  /\ UNCHANGED <<object, pointer, level, owner, intake, compact, read, storeFaults, slow>>

CollectorDies(g) ==
  /\ collect[g] # NoCollection
  /\ Fault
  /\ collect' = [collect EXCEPT ![g] = NoCollection]
  /\ UNCHANGED <<object, storeRowVars, intake, compact, read, slow>>

-----------------------------------------------------------------------------
(* ArtifactProcessor.read_original.                                        *)

\* repository.original reads the pointer.
Looks(r, b) ==
  /\ read[r] = NoRead
  /\ pointer[b] # NoKey
  /\ read' = [read EXCEPT ![r] = [pc |-> "holding", blob |-> b, key |-> pointer[b]]]
  /\ UNCHANGED <<object, storeRowVars, intake, compact, collect, storeFaults, slow>>

Gets(r) ==
  /\ read[r].pc \in {"holding", "retrying"}
  /\ object[read[r].key] = "stored"
  /\ read' = [read EXCEPT ![r] = NoRead]
  /\ UNCHANGED <<object, storeRowVars, intake, compact, collect, storeFaults, slow>>

RefreshedStale(r) == read[r].key   \* mutant: retried through the observed pointer
Refreshed(r) == pointer[read[r].blob]

\* The object is gone: once, and only if the pointer moved, try again.
Misses(r) ==
  /\ read[r].pc \in {"holding", "retrying"}
  /\ object[read[r].key] # "stored"
  /\ read' = [read EXCEPT ![r] =
       IF @.pc = "holding" /\ Refreshed(r) # @.key
       THEN [@ EXCEPT !.pc = "retrying", !.key = Refreshed(r)]
       ELSE [@ EXCEPT !.pc = "failed"]]
  /\ UNCHANGED <<object, storeRowVars, intake, compact, collect, storeFaults, slow>>

-----------------------------------------------------------------------------
Intake(b) ==
  \/ \E k \in Key : IntakePuts(b, k)
  \/ \E l \in Level : IntakeCreates(b, l)
  \/ IntakeRefused(b)
  \/ IntakeDies(b)

Compaction(p) ==
  \/ \E b \in BlobRow, t \in Level : Observes(p, b, t)
  \/ \E k \in Key, denser \in BOOLEAN : Rewrites(p, k, denser)
  \/ RewriteErrs(p)
  \/ Discards(p)
  \/ StampsLevel(p)
  \/ Repoints(p)
  \/ Abandons(p)
  \/ CompactorDies(p)

Collection(g) ==
  \/ Leases(g)
  \/ \E k \in Key : Takes(g, k)
  \/ Collects(g)
  \/ CollectErrs(g)
  \/ Forgets(g)
  \/ CollectorDies(g)

Reading(r) ==
  \/ \E b \in BlobRow : Looks(r, b)
  \/ Gets(r)
  \/ Misses(r)

StoreNext ==
  \/ \E b \in BlobRow : Intake(b)
  \/ \E p \in Compactor : Compaction(p)
  \/ \E g \in Collector : Collection(g)
  \/ \E r \in Reader : Reading(r)
  \/ \E k \in Key : GraceElapses(k)
  \/ \E k \in Key : LeaseElapses(k)

StoreSpec == StoreInit /\ [][StoreNext]_storeVars

-----------------------------------------------------------------------------
(* What the store promises.                                                *)

\* The pointer of a blob always names a stored object: neither a lost
\* compaction race nor an overlapping or late collection deletes it
\* (record_compaction, rewrite, collect).
PointerLive == \A b \in BlobRow : pointer[b] # NoKey => object[pointer[b]] = "stored"

\* A conversion that outlasts one retirement grace still reads its original,
\* through the pointer that replaced the one it held (read_original).
ReadsSurvive == \A r \in Reader : read[r].pc # "failed"

\* Objects nothing refers to any more and nobody is going to delete.
Leaked ==
  {k \in Key :
    /\ object[k] = "stored" /\ retired[k] \in {"none", "gone"}
    /\ Unreferenced(k)
    /\ \A b \in BlobRow : intake[b] # k
    /\ \A p \in Compactor : compact[p].fresh # k}

\* Compensations leave no object behind: each leaked one is paid for by a
\* death or a failed deletion (accept's except clause, rewrite's loser,
\* the retirement rows).
LeaksPaid == Cardinality(Leaked) <= storeFaults

\* "Concurrent or stale workers therefore cannot overwrite a newer layout":
\* a recorded blob's encoding level never goes down, whatever levels the
\* overlapping compactions run at (_observed_layout).
LevelNeverDropsStep ==
  \A b \in BlobRow : pointer[b] # NoKey => level'[b] >= level[b]
LevelNeverDrops == [][LevelNeverDropsStep]_storeVars

\* A retired layout that is still in the bucket.
IsRetired(k) == retired[k] # "none" /\ object[k] = "stored"
=============================================================================
