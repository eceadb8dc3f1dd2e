--------------------------- MODULE Component_proofs ---------------------------
(***************************************************************************)
(* Proofs about components for every value of their constants.  About      *)
(* ObjectStore: type correctness, that a blob's pointer always names a     *)
(* stored object, that its encoding level never goes down, that faults pay *)
(* for what is left behind, and what a late reader still finds; about      *)
(* Uploads: that grants are redeemed once and stay in their cap; about     *)
(* CoordinationLocks: that transactions never wait in a circle; about      *)
(* ArtifactLifecycle: what a ready and an unreadable revision have.        *)
(*                                                                         *)
(* Then, each through an instance and constants and variables of its own:  *)
(* UsageLedger, that what was answered is accounted once; Provisioning,    *)
(* that what is served was set up and that its index stays; Backups, that  *)
(* an archive of what was served is kept and restored whole; and           *)
(* Organizations, that every member without a role is owed one by a call.  *)
(***************************************************************************)
EXTENDS ObjectStore, Uploads, ArtifactLifecycle, CoordinationLocks,
        FiniteSetTheorems, WellFoundedInduction, TLAPS

-----------------------------------------------------------------------------
(* Types.                                                                  *)

\* The program starts in a well-typed state.
LEMMA TypeInit == ASSUME StoreAssumption PROVE StoreInit => StoreTypeOK
BY StoreAssumption
DEF StoreAssumption, StoreInit, StoreTypeOK, Level, NoCompaction, NoCollection, NoRead

CompactRecord ==
  [pc: {"observed", "denser", "same", "stamp", "lost"}, blob: BlobRow, key: Key,
   level: Level, target: Level, fresh: Key \cup {NoKey}]

\* A compaction that has begun is a typed record; an idle one has no pc of
\* these.
LEMMA CompactEntry ==
    ASSUME StoreAssumption, StoreTypeOK, NEW p \in Compactor, compact[p].pc # "idle"
  PROVE  compact[p] \in CompactRecord
BY DEF StoreTypeOK, CompactRecord, NoCompaction

\* Whatever its state, a compaction's replacement is a key or NULL.
LEMMA FreshKey ==
    ASSUME StoreAssumption, StoreTypeOK, NEW p \in Compactor
  PROVE  compact[p].fresh \in Key \cup {NoKey}
BY DEF StoreTypeOK, NoCompaction

\* Intake keeps the types.
LEMMA TypeIntake ==
    ASSUME StoreAssumption, StoreTypeOK, NEW b \in BlobRow, Intake(b)
  PROVE  StoreTypeOK'
<1>1. ASSUME NEW k \in Key, IntakePuts(b, k) PROVE StoreTypeOK'
  BY <1>1 DEF StoreTypeOK, IntakePuts, Put, storeRowVars
<1>2. ASSUME NEW l \in Level, IntakeCreates(b, l) PROVE StoreTypeOK'
  BY <1>2 DEF StoreTypeOK, IntakeCreates
<1>3. CASE IntakeRefused(b)
  BY <1>3 DEF StoreTypeOK, IntakeRefused, Delete, storeRowVars
<1>4. CASE IntakeDies(b)
  BY <1>4, StoreAssumption DEF StoreAssumption, StoreTypeOK, IntakeDies, Fault, storeRowVars
<1> QED
  BY <1>1, <1>2, <1>3, <1>4 DEF Intake

\* Compactions keep the types.
LEMMA TypeCompaction ==
    ASSUME StoreAssumption, StoreTypeOK, NEW p \in Compactor, Compaction(p)
  PROVE  StoreTypeOK'
<1> DEFINE Entries == [Compactor -> CompactRecord \cup {NoCompaction}]
<1>0. /\ compact \in Entries
      /\ compact' \in Entries /\ object' \in [Key -> {"free", "stored", "deleted"}]
         /\ pointer' \in [BlobRow -> Key \cup {NoKey}] /\ level' \in [BlobRow -> Level]
         /\ retired' \in [Key -> {"none", "grace", "due", "leased", "gone"}]
         /\ storeFaults' \in 0..MaxStoreFaults
         /\ UNCHANGED <<owner, intake, collect, read, slow>>
         => StoreTypeOK'
  BY DEF StoreTypeOK, CompactRecord
<1>1. ASSUME NEW b \in BlobRow, NEW t \in Level, Observes(p, b, t) PROVE StoreTypeOK'
  <2>1. [pc |-> "observed", blob |-> b, key |-> pointer[b], level |-> level[b],
         target |-> t, fresh |-> NoKey] \in CompactRecord
    BY <1>1 DEF Observes, StoreTypeOK, CompactRecord
  <2> QED
    BY <1>0, <1>1, <2>1 DEF Observes, storeRowVars, StoreTypeOK
<1>2. ASSUME NEW k \in Key, NEW denser \in BOOLEAN, Rewrites(p, k, denser) PROVE StoreTypeOK'
  <2>1. compact[p] \in CompactRecord
    BY <1>2, CompactEntry DEF Rewrites, CompactAt
  <2>2. compact' = [compact EXCEPT ![p] =
          [compact[p] EXCEPT !.fresh = k, !.pc = IF denser THEN "denser" ELSE "same"]]
    BY <1>2 DEF Rewrites
  <2>3. [compact[p] EXCEPT !.fresh = k, !.pc = IF denser THEN "denser" ELSE "same"]
          \in CompactRecord
    BY <2>1 DEF CompactRecord
  <2> QED
    BY <1>0, <1>2, <2>2, <2>3 DEF Rewrites, Put, storeRowVars, StoreTypeOK
<1>3. CASE RewriteErrs(p)
  BY <1>0, <1>3 DEF RewriteErrs, CompactEnds, storeRowVars, StoreTypeOK
<1>4. CASE Discards(p)
  <2>1. compact[p] \in CompactRecord
    BY <1>4, CompactEntry DEF Discards, CompactAt
  <2>2. [compact[p] EXCEPT !.fresh = NoKey, !.pc = "stamp"] \in CompactRecord
    BY <2>1 DEF CompactRecord
  <2>3. compact' = [compact EXCEPT ![p] = [compact[p] EXCEPT !.fresh = NoKey, !.pc = "stamp"]]
    BY <1>4 DEF Discards
  <2> QED
    BY <1>0, <1>4, <2>2, <2>3 DEF Discards, Delete, storeRowVars, StoreTypeOK
<1>5. CASE StampsLevel(p)
  <2>1. compact[p] \in CompactRecord
    BY <1>5, CompactEntry DEF StampsLevel, CompactAt
  <2>2. level' \in [BlobRow -> Level]
    BY <1>5, <2>1 DEF StampsLevel, StoreTypeOK, CompactRecord
  <2> QED
    BY <1>0, <1>5, <2>2 DEF StampsLevel, CompactEnds, StoreTypeOK
<1>6. CASE Repoints(p)
  <2>1. compact[p] \in CompactRecord
    BY <1>6, CompactEntry DEF Repoints, CompactAt
  <2>2. /\ level' \in [BlobRow -> Level] /\ pointer' \in [BlobRow -> Key \cup {NoKey}]
        /\ retired' \in [Key -> {"none", "grace", "due", "leased", "gone"}]
    BY <1>6, <2>1 DEF Repoints, StoreTypeOK, CompactRecord
  <2>3. compact' \in Entries
    <3>1. [compact[p] EXCEPT !.pc = "lost"] \in CompactRecord
      BY <2>1 DEF CompactRecord
    <3> QED
      BY <1>0, <1>6, <3>1 DEF Repoints, CompactEnds
  <2> QED
    BY <1>0, <1>6, <2>2, <2>3 DEF Repoints, StoreTypeOK
<1>7. CASE Abandons(p)
  BY <1>0, <1>7 DEF Abandons, CompactEnds, Delete, storeRowVars, StoreTypeOK
<1>8. CASE CompactorDies(p)
  BY <1>0, <1>8, StoreAssumption DEF StoreAssumption, CompactorDies, CompactEnds, Fault, storeRowVars, StoreTypeOK
<1> QED
  BY <1>1, <1>2, <1>3, <1>4, <1>5, <1>6, <1>7, <1>8 DEF Compaction

\* Collections keep the types.
LEMMA TypeCollection ==
    ASSUME StoreAssumption, StoreTypeOK, NEW g \in Collector, Collection(g)
  PROVE  StoreTypeOK'
<1> DEFINE Entry == [pc: {"idle", "delete", "forget"}, items: SUBSET Key, key: Key \cup {NoKey}]
<1>0. /\ collect \in [Collector -> Entry] /\ collect[g] \in Entry
      /\ NoCollection \in Entry
  BY DEF StoreTypeOK, NoCollection
<1>1. CASE Leases(g)
  BY <1>0, <1>1 DEF Leases, Due, StoreTypeOK
<1>2. ASSUME NEW k \in Key, Takes(g, k) PROVE StoreTypeOK'
  <2> DEFINE e == [collect[g] EXCEPT !.items = @ \ {k},
                                     !.pc = IF Unreferenced(k) THEN "delete" ELSE "idle",
                                     !.key = IF Unreferenced(k) THEN k ELSE NoKey]
  <2>1. e \in Entry /\ collect' = [collect EXCEPT ![g] = e]
    BY <1>0, <1>2 DEF Takes
  <2> QED
    BY <1>2, <2>1 DEF Takes, storeRowVars, StoreTypeOK
<1>3. CASE Collects(g)
  <2>1. collect' \in [Collector -> Entry]
    BY <1>0, <1>3 DEF Collects
  <2> QED
    BY <1>3, <2>1 DEF Collects, Delete, storeRowVars, StoreTypeOK
<1>4. CASE CollectErrs(g)
  <2>1. collect' \in [Collector -> Entry]
    BY <1>0, <1>4 DEF CollectErrs, ItemEnds
  <2> QED
    BY <1>4, <2>1, StoreAssumption DEF StoreAssumption, CollectErrs, Fault, storeRowVars, StoreTypeOK
<1>5. CASE Forgets(g)
  <2>1. collect' \in [Collector -> Entry]
    BY <1>0, <1>5 DEF Forgets, ItemEnds
  <2> QED
    BY <1>5, <2>1 DEF Forgets, StoreTypeOK
<1>6. CASE CollectorDies(g)
  BY <1>0, <1>6, StoreAssumption DEF StoreAssumption, CollectorDies, Fault, storeRowVars, StoreTypeOK
<1> QED
  BY <1>1, <1>2, <1>3, <1>4, <1>5, <1>6 DEF Collection

-----------------------------------------------------------------------------
(* The invariant: every key is held by at most one blob, intake or         *)
(* compaction, and a key that is being retired is held by none of them.    *)

\* A pointer names a stored object that is not retired, and no two blobs
\* share one.
PointersKept ==
  \A b \in BlobRow : pointer[b] # NoKey =>
    /\ object[pointer[b]] = "stored" /\ retired[pointer[b]] = "none"
    /\ \A c \in BlobRow : pointer[c] = pointer[b] => c = b

\* So does the key of an intake, whose blob has no pointer yet.
IntakesKept ==
  \A b \in BlobRow : intake[b] # NoKey =>
    /\ pointer[b] = NoKey
    /\ object[intake[b]] = "stored" /\ retired[intake[b]] = "none"
    /\ \A c \in BlobRow : pointer[c] # intake[b] /\ (intake[c] = intake[b] => c = b)

\* And the replacement a compaction has put.
ReplacementsKept ==
  \A p \in Compactor : compact[p].fresh # NoKey =>
    /\ object[compact[p].fresh] = "stored" /\ retired[compact[p].fresh] = "none"
    /\ \A b \in BlobRow : pointer[b] # compact[p].fresh /\ intake[b] # compact[p].fresh
    /\ \A q \in Compactor : compact[q].fresh = compact[p].fresh => q = p

\* A compaction raises the level, and holds a replacement while it decides.
CompactionsStand ==
  \A p \in Compactor :
    /\ compact[p].pc # "idle" => compact[p].level < compact[p].target
    /\ compact[p].pc \in {"denser", "same", "lost"} => compact[p].fresh # NoKey

\* Only keys that have been put are retired.
RetiredPut == \A k \in Key : retired[k] # "none" => object[k] # "free"

\* A collection works on retired keys only.
CollectionsRetired ==
  \A g \in Collector :
    /\ \A k \in collect[g].items : retired[k] # "none"
    /\ collect[g].pc # "idle" => collect[g].key \in Key /\ retired[collect[g].key] # "none"

\* A reader looks at a blob that has a pointer.
ReadersPointed ==
  \A r \in Reader : read[r].pc # "idle" => pointer[read[r].blob] # NoKey

StoreInv ==
  /\ PointersKept /\ IntakesKept /\ ReplacementsKept /\ CompactionsStand
  /\ RetiredPut /\ CollectionsRetired /\ ReadersPointed

\* Readers keep the types: the pointer a second attempt takes is not NULL.
LEMMA TypeReading ==
    ASSUME StoreAssumption, StoreTypeOK, ReadersPointed, NEW r \in Reader, Reading(r)
  PROVE  StoreTypeOK'
<1> DEFINE Entry == [pc: {"holding", "retrying", "failed"}, blob: BlobRow, key: Key]
<1>0. read \in [Reader -> Entry \cup {NoRead}]
  BY DEF StoreTypeOK
<1>1. ASSUME NEW b \in BlobRow, Looks(r, b) PROVE StoreTypeOK'
  <2>1. [pc |-> "holding", blob |-> b, key |-> pointer[b]] \in Entry
    BY <1>1 DEF Looks, StoreTypeOK
  <2> QED
    BY <1>0, <1>1, <2>1 DEF Looks, StoreTypeOK, storeRowVars
<1>2. CASE Gets(r)
  BY <1>0, <1>2 DEF Gets, StoreTypeOK, storeRowVars
<1>3. CASE Misses(r)
  <2>1. read[r] \in Entry
    BY <1>0, <1>3 DEF Misses, NoRead
  <2>2. Refreshed(r) \in Key
    BY <1>3, <2>1 DEF Misses, Refreshed, ReadersPointed, StoreTypeOK
  <2>3. /\ [read[r] EXCEPT !.pc = "retrying", !.key = Refreshed(r)] \in Entry
        /\ [read[r] EXCEPT !.pc = "failed"] \in Entry
    BY <2>1, <2>2
  <2> QED
    BY <1>0, <1>3, <2>3 DEF Misses, StoreTypeOK, storeRowVars
<1> QED
  BY <1>1, <1>2, <1>3 DEF Reading

\* So does time.
LEMMA TypeTime ==
    ASSUME StoreAssumption, StoreTypeOK, NEW k \in Key, GraceElapses(k) \/ LeaseElapses(k)
  PROVE  StoreTypeOK'
<1>1. CASE GraceElapses(k)
  <2> DEFINE holders == {r \in Reader : read[r].pc \in {"holding", "retrying"} /\ read[r].key = k}
  <2>1. slow' = slow + Cardinality(holders) /\ slow' <= MaxSlow
    BY <1>1 DEF GraceElapses
  <2>2. Cardinality(holders) \in Nat
    BY StoreAssumption, FS_Subset, FS_CardinalityType DEF StoreAssumption
  <2>3. slow' \in 0..MaxSlow
    BY <2>1, <2>2, StoreAssumption DEF StoreAssumption, StoreTypeOK
  <2> QED
    BY <1>1, <2>3 DEF GraceElapses, StoreTypeOK
<1>2. CASE LeaseElapses(k)
  BY <1>2 DEF LeaseElapses, StoreTypeOK
<1> QED
  BY <1>1, <1>2

-----------------------------------------------------------------------------
(* The invariant is inductive, process by process.                         *)

\* Nothing is held when the program starts.
LEMMA InvInit == ASSUME StoreAssumption PROVE StoreInit => StoreInv
BY DEF StoreInit, StoreInv, PointersKept, IntakesKept, ReplacementsKept, CompactionsStand,
       RetiredPut, CollectionsRetired, ReadersPointed, NoCompaction, NoCollection, NoRead

\* Intake puts under a key nobody holds, and hands it to one blob.
LEMMA InvIntake ==
    ASSUME StoreAssumption, StoreTypeOK, StoreInv, NEW b \in BlobRow, Intake(b)
  PROVE  StoreInv'
<1>1. CompactionsStand' /\ CollectionsRetired'
  BY DEF Intake, IntakePuts, IntakeCreates, IntakeRefused, IntakeDies, storeRowVars,
         StoreInv, CompactionsStand, CollectionsRetired
<1>2. ASSUME NEW k \in Key, IntakePuts(b, k) PROVE StoreInv'
  <2>1. PointersKept'
    BY <1>2 DEF IntakePuts, Put, storeRowVars, StoreInv, PointersKept, StoreTypeOK
  <2>2. IntakesKept'
    BY <1>2 DEF IntakePuts, Put, storeRowVars, StoreInv, PointersKept, IntakesKept, RetiredPut, StoreTypeOK
  <2>3. ReplacementsKept'
    BY <1>2 DEF IntakePuts, Put, storeRowVars, StoreInv, ReplacementsKept, StoreTypeOK
  <2>4. RetiredPut' /\ ReadersPointed'
    BY <1>2 DEF IntakePuts, Put, storeRowVars, StoreInv, RetiredPut, ReadersPointed, StoreTypeOK
  <2> QED
    BY <1>1, <2>1, <2>2, <2>3, <2>4 DEF StoreInv
<1>3. ASSUME NEW l \in Level, IntakeCreates(b, l) PROVE StoreInv'
  <2>1. PointersKept'
    BY <1>3 DEF IntakeCreates, StoreInv, PointersKept, IntakesKept, StoreTypeOK
  <2>2. IntakesKept'
    BY <1>3 DEF IntakeCreates, StoreInv, IntakesKept, StoreTypeOK
  <2>3. ReplacementsKept'
    BY <1>3 DEF IntakeCreates, StoreInv, ReplacementsKept, StoreTypeOK
  <2>4. RetiredPut' /\ ReadersPointed'
    BY <1>3 DEF IntakeCreates, StoreInv, RetiredPut, ReadersPointed, StoreTypeOK
  <2> QED
    BY <1>1, <2>1, <2>2, <2>3, <2>4 DEF StoreInv
<1>4. CASE IntakeRefused(b)
  <2>1. PointersKept'
    BY <1>4 DEF IntakeRefused, Delete, storeRowVars, StoreInv, PointersKept, IntakesKept, StoreTypeOK
  <2>2. IntakesKept'
    BY <1>4 DEF IntakeRefused, Delete, storeRowVars, StoreInv, IntakesKept, StoreTypeOK
  <2>3. ReplacementsKept'
    BY <1>4 DEF IntakeRefused, Delete, storeRowVars, StoreInv, ReplacementsKept, StoreTypeOK
  <2>4. RetiredPut' /\ ReadersPointed'
    BY <1>4 DEF IntakeRefused, Delete, storeRowVars, StoreInv, RetiredPut, ReadersPointed, StoreTypeOK
  <2> QED
    BY <1>1, <2>1, <2>2, <2>3, <2>4 DEF StoreInv
<1>5. CASE IntakeDies(b)
  BY <1>1, <1>5 DEF IntakeDies, storeRowVars, StoreInv, PointersKept, IntakesKept, ReplacementsKept,
                    RetiredPut, ReadersPointed, StoreTypeOK
<1> QED
  BY <1>2, <1>3, <1>4, <1>5 DEF Intake

\* A collection deletes retired keys, which nobody holds.
LEMMA InvCollection ==
    ASSUME StoreAssumption, StoreTypeOK, StoreInv, NEW g \in Collector, Collection(g)
  PROVE  StoreInv'
<1>1. CompactionsStand' /\ ReadersPointed'
  BY DEF Collection, Leases, Takes, Collects, CollectErrs, Forgets, CollectorDies, storeRowVars,
         StoreInv, CompactionsStand, ReadersPointed
<1>2. CASE Leases(g)
  <2>1. PointersKept' /\ IntakesKept'
    BY <1>2 DEF Leases, Due, StoreInv, PointersKept, IntakesKept, StoreTypeOK
  <2>2. ReplacementsKept' /\ RetiredPut'
    <3>1. \A k \in Key : retired'[k] = "none" <=> retired[k] = "none"
      BY <1>2 DEF Leases, Due, StoreTypeOK
    <3>2. ReplacementsKept'
      BY <1>2, <3>1, FreshKey DEF Leases, StoreInv, ReplacementsKept
    <3>3. RetiredPut'
      BY <1>2, <3>1 DEF Leases, StoreInv, RetiredPut
    <3> QED
      BY <3>2, <3>3
  <2>3. CollectionsRetired'
    BY <1>2 DEF Leases, Due, StoreInv, CollectionsRetired, StoreTypeOK, NoCollection
  <2> QED
    BY <1>1, <2>1, <2>2, <2>3 DEF StoreInv
<1>3. ASSUME NEW k \in Key, Takes(g, k) PROVE StoreInv'
  <2>1. CollectionsRetired'
    BY <1>3 DEF Takes, CollectAt, storeRowVars, StoreInv, CollectionsRetired, StoreTypeOK
  <2> QED
    BY <1>1, <1>3, <2>1 DEF Takes, storeRowVars, StoreInv, PointersKept, IntakesKept,
                            ReplacementsKept, RetiredPut
<1>4. CASE Collects(g)
  <2>1. collect[g].key \in Key /\ retired[collect[g].key] # "none"
    BY <1>4 DEF Collects, CollectAt, StoreInv, CollectionsRetired
  <2>2. PointersKept' /\ IntakesKept'
    BY <1>4, <2>1 DEF Collects, Delete, storeRowVars, StoreInv, PointersKept, IntakesKept, StoreTypeOK
  <2>3. ReplacementsKept' /\ RetiredPut'
    BY <1>4, <2>1 DEF Collects, Delete, storeRowVars, StoreInv, ReplacementsKept, RetiredPut, StoreTypeOK
  <2>4. CollectionsRetired'
    BY <1>4, <2>1 DEF Collects, storeRowVars, StoreInv, CollectionsRetired, StoreTypeOK
  <2> QED
    BY <1>1, <2>2, <2>3, <2>4 DEF StoreInv
<1>5. CASE CollectErrs(g)
  <2>1. CollectionsRetired'
    BY <1>5 DEF CollectErrs, ItemEnds, storeRowVars, StoreInv, CollectionsRetired, StoreTypeOK
  <2> QED
    BY <1>1, <1>5, <2>1 DEF CollectErrs, storeRowVars, StoreInv, PointersKept, IntakesKept,
                            ReplacementsKept, RetiredPut
<1>6. CASE Forgets(g)
  <2>1. \A k \in Key : retired'[k] = "none" <=> retired[k] = "none"
    BY <1>6 DEF Forgets, LeasedBy, StoreTypeOK
  <2>2. PointersKept' /\ IntakesKept'
    BY <1>6, <2>1 DEF Forgets, StoreInv, PointersKept, IntakesKept, StoreTypeOK
  <2>3. ReplacementsKept' /\ RetiredPut'
    BY <1>6, <2>1 DEF Forgets, StoreInv, ReplacementsKept, RetiredPut, StoreTypeOK
  <2>4. CollectionsRetired'
    BY <1>6, <2>1 DEF Forgets, ItemEnds, StoreInv, CollectionsRetired, StoreTypeOK
  <2> QED
    BY <1>1, <2>2, <2>3, <2>4 DEF StoreInv
<1>7. CASE CollectorDies(g)
  <2>1. CollectionsRetired'
    BY <1>7 DEF CollectorDies, NoCollection, storeRowVars, StoreInv, CollectionsRetired, StoreTypeOK
  <2> QED
    BY <1>1, <1>7, <2>1 DEF CollectorDies, storeRowVars, StoreInv, PointersKept, IntakesKept,
                            ReplacementsKept, RetiredPut
<1> QED
  BY <1>2, <1>3, <1>4, <1>5, <1>6, <1>7 DEF Collection

\* Readers change nothing but what they hold.
LEMMA InvReading ==
    ASSUME StoreAssumption, StoreTypeOK, StoreInv, NEW r \in Reader, Reading(r)
  PROVE  StoreInv'
<1>1. UNCHANGED <<object, pointer, retired, intake, compact, collect>>
  BY DEF Reading, Looks, Gets, Misses, storeRowVars
<1>2. /\ PointersKept' /\ IntakesKept' /\ ReplacementsKept'
      /\ CompactionsStand' /\ RetiredPut' /\ CollectionsRetired'
  BY <1>1 DEF StoreInv, PointersKept, IntakesKept, ReplacementsKept, CompactionsStand,
              RetiredPut, CollectionsRetired
<1>3. ReadersPointed'
  <2>1. ASSUME NEW b \in BlobRow, Looks(r, b) PROVE ReadersPointed'
    BY <2>1 DEF Looks, storeRowVars, StoreInv, ReadersPointed, StoreTypeOK
  <2>2. CASE Gets(r)
    BY <2>2 DEF Gets, NoRead, storeRowVars, StoreInv, ReadersPointed, StoreTypeOK
  <2>3. CASE Misses(r)
    <3>1. read'[r].blob = read[r].blob /\ read[r].pc # "idle"
      BY <2>3 DEF Misses, StoreTypeOK, NoRead
    <3> QED
      BY <2>3, <3>1 DEF Misses, storeRowVars, StoreInv, ReadersPointed, StoreTypeOK
  <2> QED
    BY <2>1, <2>2, <2>3 DEF Reading
<1> QED
  BY <1>2, <1>3 DEF StoreInv

\* Time moves retired keys between the stages of their retirement.
LEMMA InvTime ==
    ASSUME StoreAssumption, StoreTypeOK, StoreInv, NEW k \in Key, GraceElapses(k) \/ LeaseElapses(k)
  PROVE  StoreInv'
<1>1. /\ UNCHANGED <<object, pointer, intake, compact, collect, read>>
      /\ \A i \in Key : retired'[i] = "none" <=> retired[i] = "none"
  BY DEF GraceElapses, LeaseElapses, StoreTypeOK
<1>2. PointersKept' /\ IntakesKept'
  BY <1>1 DEF StoreInv, PointersKept, IntakesKept, StoreTypeOK
<1>3. ReplacementsKept'
  BY <1>1, FreshKey DEF StoreInv, ReplacementsKept
<1>4. CompactionsStand' /\ RetiredPut' /\ ReadersPointed'
  BY <1>1 DEF StoreInv, CompactionsStand, RetiredPut, ReadersPointed
<1>5. CollectionsRetired'
  BY <1>1 DEF StoreInv, CollectionsRetired, StoreTypeOK
<1> QED
  BY <1>2, <1>3, <1>4, <1>5 DEF StoreInv

\* A compaction that ends holds nothing, and the others stand as before.
LEMMA CompactionEnds ==
    ASSUME StoreAssumption, StoreTypeOK, StoreInv, NEW p \in Compactor, CompactEnds(p)
  PROVE  /\ CompactionsStand'
         /\ compact'[p].fresh = NoKey
         /\ \A q \in Compactor \ {p} : compact'[q] = compact[q]
<1>1. compact'[p] = NoCompaction /\ \A q \in Compactor \ {p} : compact'[q] = compact[q]
  BY DEF CompactEnds, StoreTypeOK
<1> QED
  BY <1>1 DEF StoreInv, CompactionsStand, NoCompaction

\* A compaction that lets go of a replacement may delete it: nobody else
\* holds that key, and it is not retired.
LEMMA ReplacementGoes ==
    ASSUME StoreAssumption, StoreTypeOK, StoreInv, NEW p \in Compactor, compact[p].fresh # NoKey,
         Delete(compact[p].fresh), UNCHANGED <<pointer, retired, intake>>,
         compact'[p].fresh = NoKey, \A q \in Compactor \ {p} : compact'[q] = compact[q]
  PROVE  PointersKept' /\ IntakesKept' /\ ReplacementsKept' /\ RetiredPut'
<1> DEFINE k == compact[p].fresh
<1>1. k \in Key /\ \A q \in Compactor : compact[q].fresh \in Key \cup {NoKey}
  BY FreshKey
<1>2. object' = [object EXCEPT ![k] = "deleted"]
  BY DEF Delete
<1>3. PointersKept' /\ IntakesKept'
  BY <1>1, <1>2 DEF StoreInv, PointersKept, IntakesKept, ReplacementsKept, StoreTypeOK
<1>4. ReplacementsKept'
  <2>1. \A q \in Compactor \ {p} : compact[q].fresh # k
    BY DEF StoreInv, ReplacementsKept
  <2> QED
    BY <1>1, <1>2, <2>1 DEF StoreInv, ReplacementsKept, StoreTypeOK
<1>5. RetiredPut'
  BY <1>1, <1>2 DEF StoreInv, RetiredPut, StoreTypeOK
<1> QED
  BY <1>3, <1>4, <1>5

\* Repointing hands the replacement to the blob and retires what it had.
LEMMA InvRepoints ==
    ASSUME StoreAssumption, StoreTypeOK, StoreInv, NEW p \in Compactor, Repoints(p), StillCurrent(p)
  PROVE  StoreInv'
<1> DEFINE b == compact[p].blob
           old == compact[p].key
           k == compact[p].fresh
<1>1. compact[p] \in CompactRecord /\ k # NoKey
  BY CompactEntry DEF Repoints, CompactAt, StoreInv, CompactionsStand
<1>2. b \in BlobRow /\ old \in Key /\ k \in Key /\ pointer[b] = old /\ old # NoKey
  BY <1>1, StoreAssumption DEF StoreAssumption, CompactRecord, StillCurrent
<1>3. /\ object[old] = "stored" /\ old # k
      /\ \A c \in BlobRow : (pointer[c] = old => c = b) /\ intake[c] # old
  BY <1>1, <1>2 DEF StoreInv, PointersKept, IntakesKept, ReplacementsKept
<1>4. \A q \in Compactor : compact[q].fresh # old
  BY <1>2 DEF StoreInv, ReplacementsKept
<1>5. /\ object[k] = "stored" /\ retired[k] = "none"
      /\ \A c \in BlobRow : pointer[c] # k /\ intake[c] # k
      /\ \A q \in Compactor \ {p} : compact[q].fresh # k
  BY <1>1 DEF StoreInv, ReplacementsKept
<1>6. /\ pointer' = [pointer EXCEPT ![b] = k]
      /\ retired' = [retired EXCEPT ![old] = "grace"]
      /\ CompactEnds(p)
      /\ UNCHANGED <<object, intake, collect, read>>
  BY DEF Repoints
<1>7. PointersKept'
  BY <1>2, <1>3, <1>5, <1>6 DEF StoreInv, PointersKept, StoreTypeOK
<1>8. IntakesKept'
  BY <1>2, <1>3, <1>5, <1>6 DEF StoreInv, IntakesKept, StoreTypeOK
<1>9. ReplacementsKept' /\ CompactionsStand'
  <2>1. /\ CompactionsStand' /\ compact'[p].fresh = NoKey
        /\ \A q \in Compactor \ {p} : compact'[q] = compact[q]
    BY <1>6, CompactionEnds
  <2>2. \A q \in Compactor : compact[q].fresh \in Key \cup {NoKey}
    BY FreshKey
  <2> QED
    BY <1>2, <1>4, <1>5, <1>6, <2>1, <2>2 DEF StoreInv, ReplacementsKept, StoreTypeOK
<1>10. RetiredPut' /\ CollectionsRetired'
  BY <1>2, <1>3, <1>6 DEF StoreInv, RetiredPut, CollectionsRetired, StoreTypeOK
<1>11. ReadersPointed'
  BY <1>1, <1>2, <1>6 DEF StoreInv, ReadersPointed, StoreTypeOK
<1> QED
  BY <1>7, <1>8, <1>9, <1>10, <1>11 DEF StoreInv

\* A compaction puts under a key nobody holds, hands it to the blob whose
\* pointer it retires, and deletes only what it put itself.
LEMMA InvCompaction ==
    ASSUME StoreAssumption, StoreTypeOK, StoreInv, NEW p \in Compactor, Compaction(p)
  PROVE  StoreInv'
<1>1. ASSUME NEW b \in BlobRow, NEW t \in Level, Observes(p, b, t) PROVE StoreInv'
  <2>1. /\ compact'[p].fresh = NoKey /\ compact'[p].pc = "observed"
        /\ compact'[p].level < compact'[p].target
        /\ \A q \in Compactor \ {p} : compact'[q] = compact[q]
    BY <1>1 DEF Observes, StoreTypeOK
  <2>2. CompactionsStand' /\ ReplacementsKept'
    BY <1>1, <2>1 DEF Observes, storeRowVars, StoreInv, CompactionsStand, ReplacementsKept
  <2> QED
    BY <1>1, <2>2 DEF Observes, storeRowVars, StoreInv, PointersKept, IntakesKept, RetiredPut,
                      CollectionsRetired, ReadersPointed
<1>2. ASSUME NEW k \in Key, NEW denser \in BOOLEAN, Rewrites(p, k, denser) PROVE StoreInv'
  <2>1. compact[p] \in CompactRecord
    BY <1>2, CompactEntry DEF Rewrites, CompactAt
  <2>2. /\ compact'[p].fresh = k /\ compact'[p].pc # "idle"
        /\ compact'[p].level = compact[p].level /\ compact'[p].target = compact[p].target
        /\ \A q \in Compactor \ {p} : compact'[q] = compact[q]
    BY <1>2, <2>1 DEF Rewrites, StoreTypeOK, CompactRecord
  <2>3. /\ object[k] = "free" /\ object' = [object EXCEPT ![k] = "stored"]
        /\ retired[k] = "none" /\ UNCHANGED <<pointer, retired, intake, collect, read>>
    BY <1>2 DEF Rewrites, Put, storeRowVars, StoreInv, RetiredPut
  <2>4. PointersKept' /\ IntakesKept'
    BY <2>3 DEF StoreInv, PointersKept, IntakesKept, StoreTypeOK
  <2>5. ReplacementsKept'
    <3>1. \A q \in Compactor : compact[q].fresh \in Key \cup {NoKey} /\ compact[q].fresh # k
      BY <2>3, FreshKey, StoreAssumption DEF StoreAssumption, StoreInv, ReplacementsKept
    <3>2. \A c \in BlobRow : pointer[c] # k /\ intake[c] # k
      BY <2>3, StoreAssumption DEF StoreAssumption, StoreInv, PointersKept, IntakesKept
    <3> QED
      BY <2>2, <2>3, <3>1, <3>2 DEF StoreInv, ReplacementsKept, StoreTypeOK
  <2>6. CompactionsStand'
    BY <1>2, <2>2, StoreAssumption DEF StoreAssumption, Rewrites, CompactAt, StoreInv, CompactionsStand
  <2>7. RetiredPut' /\ CollectionsRetired' /\ ReadersPointed'
    BY <2>3 DEF StoreInv, RetiredPut, CollectionsRetired, ReadersPointed, StoreTypeOK
  <2> QED
    BY <2>4, <2>5, <2>6, <2>7 DEF StoreInv
<1>3. CASE RewriteErrs(p) \/ StampsLevel(p) \/ CompactorDies(p)
  <2>1. CompactEnds(p) /\ UNCHANGED <<object, pointer, retired, intake, collect, read>>
    BY <1>3 DEF RewriteErrs, StampsLevel, CompactorDies, storeRowVars
  <2>2. /\ CompactionsStand' /\ compact'[p].fresh = NoKey
        /\ \A q \in Compactor \ {p} : compact'[q] = compact[q]
    BY <2>1, CompactionEnds
  <2>3. ReplacementsKept'
    BY <2>1, <2>2 DEF StoreInv, ReplacementsKept
  <2> QED
    BY <2>1, <2>2, <2>3 DEF StoreInv, PointersKept, IntakesKept, RetiredPut,
                            CollectionsRetired, ReadersPointed
<1>4. CASE Discards(p)
  <2>1. compact[p] \in CompactRecord /\ compact[p].fresh # NoKey
    BY <1>4, CompactEntry DEF Discards, CompactAt, StoreInv, CompactionsStand
  <2>2. /\ compact'[p].fresh = NoKey /\ compact'[p].pc = "stamp" /\ compact[p].pc = "same"
        /\ compact'[p].level = compact[p].level /\ compact'[p].target = compact[p].target
        /\ \A q \in Compactor \ {p} : compact'[q] = compact[q]
    BY <1>4, <2>1 DEF Discards, CompactAt, StoreTypeOK, CompactRecord
  <2>3. CompactionsStand'
    BY <2>2 DEF StoreInv, CompactionsStand
  <2>4. PointersKept' /\ IntakesKept' /\ ReplacementsKept' /\ RetiredPut'
    BY <1>4, <2>1, <2>2, ReplacementGoes DEF Discards, storeRowVars
  <2> QED
    BY <1>4, <2>3, <2>4 DEF Discards, storeRowVars, StoreInv, CollectionsRetired, ReadersPointed
<1>5. CASE Repoints(p)
  <2>1. CASE StillCurrent(p)
    BY <1>5, <2>1, InvRepoints
  <2>2. CASE ~ StillCurrent(p)
    <3>1. compact[p] \in CompactRecord /\ compact[p].pc = "denser"
      BY <1>5, CompactEntry DEF Repoints, CompactAt
    <3>2. /\ compact'[p].fresh = compact[p].fresh /\ compact'[p].pc = "lost"
          /\ compact'[p].level = compact[p].level /\ compact'[p].target = compact[p].target
          /\ \A q \in Compactor \ {p} : compact'[q] = compact[q]
      BY <1>5, <2>2, <3>1 DEF Repoints, StoreTypeOK, CompactRecord
    <3>3. UNCHANGED <<object, pointer, retired, intake, collect, read>>
      BY <1>5, <2>2 DEF Repoints
    <3>4. CompactionsStand'
      BY <3>1, <3>2 DEF StoreInv, CompactionsStand
    <3>5. ReplacementsKept'
      BY <3>2, <3>3 DEF StoreInv, ReplacementsKept
    <3> QED
      BY <3>3, <3>4, <3>5 DEF StoreInv, PointersKept, IntakesKept, RetiredPut,
                              CollectionsRetired, ReadersPointed
  <2> QED
    BY <2>1, <2>2
<1>6. CASE Abandons(p)
  <2>1. compact[p].fresh # NoKey /\ CompactEnds(p) /\ Delete(compact[p].fresh)
    BY <1>6 DEF Abandons, LostLayout, CompactAt, StoreInv, CompactionsStand
  <2>2. /\ CompactionsStand' /\ compact'[p].fresh = NoKey
        /\ \A q \in Compactor \ {p} : compact'[q] = compact[q]
    BY <2>1, CompactionEnds
  <2>3. PointersKept' /\ IntakesKept' /\ ReplacementsKept' /\ RetiredPut'
    BY <1>6, <2>1, <2>2, ReplacementGoes DEF Abandons, storeRowVars
  <2> QED
    BY <1>6, <2>2, <2>3 DEF Abandons, storeRowVars, StoreInv, CollectionsRetired, ReadersPointed
<1> QED
  BY <1>1, <1>2, <1>3, <1>4, <1>5, <1>6 DEF Compaction

-----------------------------------------------------------------------------
(* The theorems.                                                           *)

IInv == StoreTypeOK /\ StoreInv

\* Every step of the store keeps its types and who holds which key.
LEMMA IInvStep == ASSUME StoreAssumption PROVE IInv /\ [StoreNext]_storeVars => IInv'
<1> SUFFICES ASSUME StoreTypeOK, StoreInv, [StoreNext]_storeVars PROVE StoreTypeOK' /\ StoreInv'
  BY DEF IInv
<1>0. ReadersPointed
  BY DEF StoreInv
<1>1. ASSUME NEW b \in BlobRow, Intake(b) PROVE StoreTypeOK' /\ StoreInv'
  BY <1>1, TypeIntake, InvIntake
<1>2. ASSUME NEW p \in Compactor, Compaction(p) PROVE StoreTypeOK' /\ StoreInv'
  BY <1>2, TypeCompaction, InvCompaction
<1>3. ASSUME NEW g \in Collector, Collection(g) PROVE StoreTypeOK' /\ StoreInv'
  BY <1>3, TypeCollection, InvCollection
<1>4. ASSUME NEW r \in Reader, Reading(r) PROVE StoreTypeOK' /\ StoreInv'
  BY <1>0, <1>4, TypeReading, InvReading
<1>5. ASSUME NEW k \in Key, GraceElapses(k) \/ LeaseElapses(k) PROVE StoreTypeOK' /\ StoreInv'
  BY <1>5, TypeTime, InvTime
<1>6. CASE UNCHANGED storeVars
  BY <1>6 DEF storeVars, storeRowVars, StoreTypeOK, StoreInv, PointersKept, IntakesKept, ReplacementsKept,
              CompactionsStand, RetiredPut, CollectionsRetired, ReadersPointed
<1> QED
  BY <1>1, <1>2, <1>3, <1>4, <1>5, <1>6 DEF StoreNext

\* In every reachable state each key has at most one holder and no held key
\* is being retired.
THEOREM StoreInvariant == ASSUME StoreAssumption PROVE StoreSpec => []IInv
<1>1. StoreInit => IInv
  BY TypeInit, InvInit DEF IInv
<1>2. IInv /\ [StoreNext]_storeVars => IInv'
  BY IInvStep
<1> QED
  BY <1>1, <1>2, PTL DEF StoreSpec

\* The rows, objects and processes of the store keep their types.
THEOREM StoreTypeCorrect == ASSUME StoreAssumption PROVE StoreSpec => []StoreTypeOK
<1>1. IInv => StoreTypeOK
  BY DEF IInv
<1>2. StoreSpec => []IInv
  BY StoreInvariant
<1> QED
  BY <1>1, <1>2, PTL

\* However uploads, compactions, collections, readers, deaths and delays
\* interleave, the pointer of a blob always names a stored object: no
\* original is lost (record_compaction, rewrite, collect).
THEOREM PointerAlwaysLive == ASSUME StoreAssumption PROVE StoreSpec => []PointerLive
<1>1. IInv => PointerLive
  BY DEF IInv, StoreInv, PointersKept, PointerLive
<1>2. StoreSpec => []IInv
  BY StoreInvariant
<1> QED
  BY <1>1, <1>2, PTL

\* No compaction, at whatever level it runs and however stale, lowers the
\* encoding level of a recorded blob (_observed_layout).
THEOREM LevelsNeverDrop == ASSUME StoreAssumption PROVE StoreSpec => LevelNeverDrops
<1> DEFINE Kept == \A b \in BlobRow : pointer[b] # NoKey => level'[b] >= level[b]
<1>1. IInv /\ [StoreNext]_storeVars => [Kept]_storeVars
  <2> SUFFICES ASSUME StoreTypeOK, StoreInv, StoreNext PROVE Kept
    BY DEF IInv
  <2>0. \A b \in BlobRow : level[b] \in Int
    BY StoreAssumption DEF StoreAssumption, StoreTypeOK, Level
  <2>1. CASE UNCHANGED level
    BY <2>0, <2>1
  <2>2. ASSUME NEW b \in BlobRow, NEW l \in Level, IntakeCreates(b, l) PROVE Kept
    BY <2>0, <2>2 DEF IntakeCreates, StoreInv, IntakesKept, StoreTypeOK
  <2>3. ASSUME NEW p \in Compactor, StampsLevel(p) \/ Repoints(p) PROVE Kept
    <3>1. compact[p] \in CompactRecord /\ compact[p].level < compact[p].target
      BY <2>3, CompactEntry DEF StampsLevel, Repoints, CompactAt, StoreInv, CompactionsStand
    <3>2. \/ UNCHANGED level
          \/ /\ level[compact[p].blob] = compact[p].level
             /\ level' = [level EXCEPT ![compact[p].blob] = compact[p].target]
      BY <2>3 DEF StampsLevel, Repoints, StillCurrent
    <3> QED
      BY <2>0, <3>1, <3>2, StoreAssumption DEF StoreAssumption, CompactRecord, Level, StoreTypeOK
  <2> QED
    BY <2>1, <2>2, <2>3
    DEF StoreNext, Intake, IntakePuts, IntakeRefused, IntakeDies,
        Compaction, Observes, Rewrites, RewriteErrs, Discards, Abandons, CompactorDies,
        Collection, Leases, Takes, Collects, CollectErrs, Forgets, CollectorDies,
        Reading, Looks, Gets, Misses, GraceElapses, LeaseElapses, storeRowVars
<1>2. StoreSpec => []IInv
  BY StoreInvariant
<1> QED
  BY <1>1, <1>2, PTL DEF StoreSpec, LevelNeverDrops, LevelNeverDropsStep
-----------------------------------------------------------------------------
(* What is left behind, and what a late reader still finds.                *)

\* Collections work on keys whose grace is over.
CollectionsDue ==
  \A g \in Collector :
    /\ \A k \in collect[g].items : retired[k] \in {"due", "leased", "gone"}
    /\ collect[g].pc # "idle" => retired[collect[g].key] \in {"due", "leased", "gone"}

\* A retirement is forgotten, or about to be, only after the object is gone,
\* and an object in its grace is still there.
RetirementsStand ==
  /\ \A k \in Key : /\ retired[k] = "grace" => object[k] = "stored"
                    /\ retired[k] = "gone" => object[k] = "deleted"
  /\ \A g \in Collector : collect[g].pc = "forget" => object[collect[g].key] = "deleted"

\* A compaction holds no replacement before it has put one, nor after it has
\* discarded it.
NothingPut ==
  \A p \in Compactor : compact[p].pc \in {"idle", "observed", "stamp"} => compact[p].fresh = NoKey

\* What a reader holds is the pointer still, or was until this very grace, or
\* its grace has ended under it.
HoldsStill(r) ==
  \/ retired[read[r].key] = "none" /\ pointer[read[r].blob] = read[r].key
  \/ retired[read[r].key] = "grace"

\* Each time a reader loses what it holds a grace has elapsed under it.
ReadersStand ==
  /\ slow \in Nat
  /\ \A r \in Reader :
       /\ read[r].pc = "holding" => HoldsStill(r) \/ slow >= 1
       /\ read[r].pc = "retrying" => slow >= 1 /\ (HoldsStill(r) \/ slow >= 2)
       /\ read[r].pc = "failed" => slow >= 2

\* Every leaked key is paid for by a fault.
LeaksCounted == IsFiniteSet(Leaked) /\ Cardinality(Leaked) <= storeFaults

AfterInv == CollectionsDue /\ RetirementsStand /\ NothingPut /\ ReadersStand

Over == {"due", "leased", "gone"}

\* A deleted object never comes back, and a grace that is over stays over.
LEMMA KeysMove ==
    ASSUME StoreAssumption, IInv, StoreNext, NEW k \in Key
  PROVE  /\ object[k] = "deleted" => object'[k] = "deleted"
         /\ retired[k] \in Over => retired'[k] \in Over
<1>1. /\ object \in [Key -> {"free", "stored", "deleted"}]
      /\ retired \in [Key -> {"none", "grace", "due", "leased", "gone"}]
  BY DEF IInv, StoreTypeOK
<1>2. object[k] = "deleted" => object'[k] = "deleted"
  BY <1>1
  DEF StoreNext, Intake, IntakePuts, IntakeCreates, IntakeRefused, IntakeDies,
      Compaction, Observes, Rewrites, RewriteErrs, Discards, StampsLevel, Repoints, Abandons,
      CompactorDies, Collection, Leases, Takes, Collects, CollectErrs, Forgets, CollectorDies,
      Reading, Looks, Gets, Misses, GraceElapses, LeaseElapses, Put, Delete
<1>3. ASSUME NEW p \in Compactor, Repoints(p), StillCurrent(p)
      PROVE  retired[compact[p].key] = "none" /\ compact[p].key \in Key
  <2>1. compact[p] \in CompactRecord
    BY <1>3, CompactEntry DEF Repoints, CompactAt, IInv
  <2> QED
    BY <1>3, <2>1, StoreAssumption DEF StoreAssumption, IInv, StoreInv, PointersKept, StillCurrent, CompactRecord
<1>4. ASSUME NEW p \in Compactor, Repoints(p) PROVE retired[k] \in Over => retired'[k] \in Over
  BY <1>1, <1>3, <1>4 DEF Repoints, Over
<1>5. ASSUME NEW g \in Collector, Leases(g) \/ Forgets(g)
      PROVE  retired[k] \in Over => retired'[k] \in Over
  BY <1>1, <1>5 DEF Leases, Forgets, Over
<1>6. ASSUME NEW i \in Key, GraceElapses(i) \/ LeaseElapses(i)
      PROVE  retired[k] \in Over => retired'[k] \in Over
  BY <1>1, <1>6 DEF GraceElapses, LeaseElapses, Over
<1>7. ASSUME UNCHANGED retired PROVE retired[k] \in Over => retired'[k] \in Over
  BY <1>7
<1> QED
  BY <1>2, <1>4, <1>5, <1>6, <1>7
  DEF StoreNext, Intake, IntakePuts, IntakeCreates, IntakeRefused, IntakeDies,
      Compaction, Observes, Rewrites, RewriteErrs, Discards, StampsLevel, Abandons,
      CompactorDies, Collection, Takes, Collects, CollectErrs, CollectorDies,
      Reading, Looks, Gets, Misses, storeRowVars

\* Collections are handed keys whose grace is over.
LEMMA CollectionsStayDue ==
    ASSUME StoreAssumption, IInv, AfterInv, StoreNext
  PROVE  CollectionsDue'
<1> SUFFICES ASSUME NEW g \in Collector
             PROVE  /\ \A k \in collect'[g].items : retired'[k] \in Over
                    /\ collect'[g].pc # "idle" => retired'[collect'[g].key] \in Over
  BY DEF CollectionsDue, Over
<1>1. /\ \A k \in collect[g].items : k \in Key /\ retired[k] \in Over
      /\ collect[g].pc # "idle" => collect[g].key \in Key /\ retired[collect[g].key] \in Over
  BY DEF AfterInv, CollectionsDue, IInv, StoreInv, CollectionsRetired, StoreTypeOK, NoCollection, Over
<1>2. \A k \in Key : retired[k] \in Over => retired'[k] \in Over
  BY KeysMove
<1>3. CASE collect'[g] = collect[g]
  BY <1>1, <1>2, <1>3
<1>4. collect \in [Collector -> [pc: {"idle", "delete", "forget"}, items: SUBSET Key,
                                 key: Key \cup {NoKey}]]
  BY DEF IInv, StoreTypeOK
<1>5. ASSUME NEW h \in Collector, Leases(h), h = g PROVE collect'[g].pc = "idle" /\ \A k \in collect'[g].items : retired'[k] \in Over
  <2>1. PICK S \in SUBSET Due : /\ retired' = [k \in Key |-> IF k \in S THEN "leased" ELSE retired[k]]
                                /\ collect' = [collect EXCEPT ![g].items = S]
    BY <1>5 DEF Leases
  <2>2. collect[g] = NoCollection
    BY <1>5 DEF Leases
  <2>3. collect'[g].items = S /\ collect'[g].pc = collect[g].pc
    BY <1>4, <2>1
  <2> QED
    BY <2>1, <2>2, <2>3 DEF Due, Over, NoCollection
<1>6. ASSUME NEW h \in Collector, NEW i \in Key, Takes(h, i), h = g
      PROVE  /\ collect'[g].items \subseteq collect[g].items
             /\ collect'[g].pc # "idle" => collect'[g].key \in collect[g].items
  BY <1>4, <1>6 DEF Takes
<1>7. ASSUME NEW h \in Collector, Collects(h), h = g
      PROVE  collect'[g].items = collect[g].items /\ collect'[g].key = collect[g].key /\ collect[g].pc # "idle"
  BY <1>4, <1>7 DEF Collects, CollectAt
<1>8. ASSUME NEW h \in Collector, CollectErrs(h) \/ Forgets(h), h = g
      PROVE  collect'[g].items = collect[g].items /\ collect'[g].pc = "idle"
  BY <1>4, <1>8 DEF CollectErrs, Forgets, ItemEnds
<1>9. ASSUME NEW h \in Collector, CollectorDies(h), h = g
      PROVE  collect'[g].items = {} /\ collect'[g].pc = "idle"
  BY <1>4, <1>9 DEF CollectorDies, NoCollection
<1>10. ASSUME NEW h \in Collector, Collection(h)
       PROVE  /\ \A k \in collect'[g].items : retired'[k] \in Over
              /\ collect'[g].pc # "idle" => retired'[collect'[g].key] \in Over
  <2>1. CASE h = g
    BY <1>1, <1>2, <1>5, <1>6, <1>7, <1>8, <1>9, <1>10, <2>1 DEF Collection
  <2>2. CASE h # g
    <3>1. collect'[g] = collect[g]
      BY <1>4, <1>10, <2>2
      DEF Collection, Leases, Takes, Collects, CollectErrs, Forgets, CollectorDies, ItemEnds
    <3> QED
      BY <1>3, <3>1
  <2> QED
    BY <2>1, <2>2
<1> QED
  BY <1>3, <1>10
  DEF StoreNext, Intake, IntakePuts, IntakeCreates, IntakeRefused, IntakeDies,
      Compaction, Observes, Rewrites, RewriteErrs, Discards, StampsLevel, Repoints, Abandons,
      CompactorDies, Reading, Looks, Gets, Misses, GraceElapses, LeaseElapses

\* A compaction that begins, discards or ends holds nothing.
LEMMA NothingPutYet ==
    ASSUME StoreAssumption, IInv, AfterInv, StoreNext
  PROVE  NothingPut'
<1> SUFFICES ASSUME NEW p \in Compactor, compact'[p].pc \in {"idle", "observed", "stamp"}
             PROVE  compact'[p].fresh = NoKey
  BY DEF NothingPut
<1>0. /\ StoreTypeOK
      /\ compact[p].pc \in {"idle", "observed", "stamp"} => compact[p].fresh = NoKey
  BY DEF AfterInv, NothingPut, IInv
<1>1. CASE compact'[p] = compact[p]
  BY <1>0, <1>1
<1>2. ASSUME NEW q \in Compactor, Compaction(q), q # p PROVE compact'[p] = compact[p]
  BY <1>0, <1>2
  DEF Compaction, Observes, Rewrites, RewriteErrs, Discards, StampsLevel, Repoints, Abandons,
      CompactorDies, CompactEnds, StoreTypeOK
<1>3. CASE Compaction(p)
  <2>1. CASE CompactEnds(p)
    BY <1>0, <2>1 DEF CompactEnds, NoCompaction, StoreTypeOK
  <2>2. ASSUME NEW b \in BlobRow, NEW t \in Level, Observes(p, b, t) PROVE compact'[p].fresh = NoKey
    BY <1>0, <2>2 DEF Observes, StoreTypeOK
  <2>3. ASSUME NEW k \in Key, NEW denser \in BOOLEAN, Rewrites(p, k, denser)
        PROVE  compact'[p].pc \in {"denser", "same"}
    <3>1. compact[p] \in CompactRecord
      BY <1>0, <2>3, CompactEntry DEF Rewrites, CompactAt
    <3> QED
      BY <1>0, <2>3, <3>1 DEF Rewrites, CompactRecord, StoreTypeOK
  <2>4. ASSUME Discards(p) PROVE compact'[p].fresh = NoKey
    <3>1. compact[p] \in CompactRecord
      BY <1>0, <2>4, CompactEntry DEF Discards, CompactAt
    <3> QED
      BY <1>0, <2>4, <3>1 DEF Discards, CompactRecord, StoreTypeOK
  <2>5. ASSUME Repoints(p), ~ StillCurrent(p) PROVE compact'[p].pc = "lost"
    <3>1. compact[p] \in CompactRecord
      BY <1>0, <2>5, CompactEntry DEF Repoints, CompactAt
    <3> QED
      BY <1>0, <2>5, <3>1 DEF Repoints, CompactRecord, StoreTypeOK
  <2> QED
    BY <1>3, <2>1, <2>2, <2>3, <2>4, <2>5
    DEF Compaction, RewriteErrs, StampsLevel, Repoints, Abandons, CompactorDies
<1> QED
  BY <1>1, <1>2, <1>3
  DEF StoreNext, Intake, IntakePuts, IntakeCreates, IntakeRefused, IntakeDies,
      Collection, Leases, Takes, Collects, CollectErrs, Forgets, CollectorDies,
      Reading, Looks, Gets, Misses, GraceElapses, LeaseElapses

\* An object goes only when nobody is to read it: a lost replacement, a
\* refused intake or a key whose grace is over.
LEMMA OnlyOverGoes ==
    ASSUME StoreAssumption, IInv, AfterInv, StoreNext, NEW k \in Key,
           object[k] = "stored", object'[k] # "stored"
  PROVE  /\ retired'[k] = retired[k] /\ retired[k] # "grace"
         /\ retired[k] = "none" => \A b \in BlobRow : pointer[b] # k
<1>1. /\ object \in [Key -> {"free", "stored", "deleted"}] /\ StoreTypeOK /\ StoreInv
      /\ \A g \in Collector : collect[g].pc # "idle" => retired[collect[g].key] \in Over
  BY DEF IInv, AfterInv, CollectionsDue, StoreTypeOK, Over
<1>2. ASSUME NEW b \in BlobRow, IntakeRefused(b)
      PROVE  /\ retired'[k] = retired[k] /\ retired[k] = "none"
             /\ \A c \in BlobRow : pointer[c] # k
  BY <1>1, <1>2 DEF IntakeRefused, Delete, storeRowVars, StoreInv, IntakesKept
<1>3. ASSUME NEW p \in Compactor, Discards(p) \/ Abandons(p)
      PROVE  /\ retired'[k] = retired[k] /\ retired[k] = "none"
             /\ \A c \in BlobRow : pointer[c] # k
  <2>1. compact[p].fresh # NoKey /\ Delete(compact[p].fresh) /\ UNCHANGED retired
    BY <1>1, <1>3 DEF Discards, Abandons, LostLayout, CompactAt, StoreInv, CompactionsStand, storeRowVars
  <2>2. k = compact[p].fresh
    BY <1>1, <2>1 DEF Delete
  <2> QED
    BY <1>1, <2>1, <2>2 DEF StoreInv, ReplacementsKept
<1>4. ASSUME NEW g \in Collector, Collects(g)
      PROVE  retired'[k] = retired[k] /\ retired[k] \in Over
  BY <1>1, <1>4 DEF Collects, CollectAt, Delete, storeRowVars
<1>5. ASSUME NEW i \in Key, Put(i) PROVE FALSE
  BY <1>1, <1>5 DEF Put
<1>6. CASE UNCHANGED object
  BY <1>6
<1> QED
  BY <1>2, <1>3, <1>4, <1>5, <1>6
  DEF StoreNext, Intake, IntakePuts, IntakeCreates, IntakeDies,
      Compaction, Observes, Rewrites, RewriteErrs, StampsLevel, Repoints,
      CompactorDies, Collection, Leases, Takes, CollectErrs, Forgets, CollectorDies,
      Reading, Looks, Gets, Misses, GraceElapses, LeaseElapses, Over, storeRowVars

\* Only the key a blob's pointer leaves is given a grace, and its object is
\* there.
LEMMA GraceIsNew ==
    ASSUME StoreAssumption, IInv, StoreNext, NEW k \in Key,
           retired'[k] = "grace", retired[k] # "grace"
  PROVE  object'[k] = "stored"
<1>1. StoreTypeOK /\ StoreInv /\ retired \in [Key -> {"none", "grace", "due", "leased", "gone"}]
  BY DEF IInv, StoreTypeOK
<1>2. PICK p \in Compactor : Repoints(p) /\ StillCurrent(p) /\ k = compact[p].key
  <2>1. ASSUME NEW p \in Compactor, Repoints(p) PROVE StillCurrent(p) /\ k = compact[p].key
    BY <1>1, <2>1 DEF Repoints
  <2>2. ASSUME NEW g \in Collector, Leases(g) \/ Forgets(g) PROVE FALSE
    BY <1>1, <2>2 DEF Leases, Forgets
  <2>3. ASSUME NEW i \in Key, GraceElapses(i) \/ LeaseElapses(i) PROVE FALSE
    BY <1>1, <2>3 DEF GraceElapses, LeaseElapses
  <2>4. ASSUME UNCHANGED retired PROVE FALSE
    BY <2>4
  <2> QED
    BY <2>1, <2>2, <2>3, <2>4
    DEF StoreNext, Intake, IntakePuts, IntakeCreates, IntakeRefused, IntakeDies,
        Compaction, Observes, Rewrites, RewriteErrs, Discards, StampsLevel, Abandons,
        CompactorDies, Collection, Takes, Collects, CollectErrs, CollectorDies,
        Reading, Looks, Gets, Misses, storeRowVars
<1>3. compact[p] \in CompactRecord
  BY <1>1, <1>2, CompactEntry DEF Repoints, CompactAt
<1>4. UNCHANGED object
  BY <1>2 DEF Repoints
<1> QED
  BY <1>1, <1>2, <1>3, <1>4, StoreAssumption
  DEF StoreAssumption, CompactRecord, StillCurrent, StoreInv, PointersKept

\* The stages of a retirement go with those of its object.
LEMMA RetirementsStandOn ==
    ASSUME StoreAssumption, IInv, IInv', AfterInv, StoreNext
  PROVE  RetirementsStand'
<1>1. /\ retired \in [Key -> {"none", "grace", "due", "leased", "gone"}]
      /\ \A k \in Key : /\ retired[k] = "grace" => object[k] = "stored"
                        /\ retired[k] = "gone" => object[k] = "deleted"
      /\ \A g \in Collector : collect[g].pc = "forget" => object[collect[g].key] = "deleted"
      /\ \A g \in Collector : collect[g].pc # "idle" => collect[g].key \in Key
  BY DEF IInv, AfterInv, RetirementsStand, StoreTypeOK, StoreInv, CollectionsRetired
<1>2. ASSUME NEW k \in Key, retired'[k] = "grace" PROVE object'[k] = "stored"
  BY <1>1, <1>2, OnlyOverGoes, GraceIsNew
<1>3. ASSUME NEW k \in Key, retired'[k] = "gone" PROVE object'[k] = "deleted"
  <2>1. CASE retired[k] = "gone"
    BY <1>1, <2>1, KeysMove
  <2>2. CASE retired[k] # "gone"
    <3>1. ASSUME NEW g \in Collector, Forgets(g) PROVE object'[k] = "deleted"
      BY <1>1, <1>3, <2>2, <3>1 DEF Forgets, CollectAt
    <3>2. ASSUME NEW g \in Collector, Leases(g) PROVE FALSE
      BY <1>1, <1>3, <2>2, <3>2 DEF Leases
    <3>3. ASSUME NEW p \in Compactor, Repoints(p) PROVE FALSE
      BY <1>1, <1>3, <2>2, <3>3 DEF Repoints
    <3>4. ASSUME NEW i \in Key, GraceElapses(i) \/ LeaseElapses(i) PROVE FALSE
      BY <1>1, <1>3, <2>2, <3>4 DEF GraceElapses, LeaseElapses
    <3>5. ASSUME UNCHANGED retired PROVE FALSE
      BY <1>3, <2>2, <3>5
    <3> QED
      BY <3>1, <3>2, <3>3, <3>4, <3>5
      DEF StoreNext, Intake, IntakePuts, IntakeCreates, IntakeRefused, IntakeDies,
          Compaction, Observes, Rewrites, RewriteErrs, Discards, StampsLevel, Abandons,
          CompactorDies, Collection, Takes, Collects, CollectErrs, CollectorDies,
          Reading, Looks, Gets, Misses, storeRowVars
  <2> QED
    BY <2>1, <2>2
<1>4. ASSUME NEW g \in Collector, collect'[g].pc = "forget" PROVE object'[collect'[g].key] = "deleted"
  <2>1. CASE collect'[g] = collect[g]
    BY <1>1, <1>4, <2>1, KeysMove
  <2>2. CASE collect'[g] # collect[g]
    <3>1. collect \in [Collector -> [pc: {"idle", "delete", "forget"}, items: SUBSET Key,
                                     key: Key \cup {NoKey}]]
      BY DEF IInv, StoreTypeOK
    <3>2. ASSUME NEW h \in Collector, Leases(h) PROVE FALSE
      BY <1>4, <2>2, <3>1, <3>2 DEF Leases, NoCollection
    <3>3. ASSUME NEW h \in Collector, NEW i \in Key, Takes(h, i) PROVE FALSE
      BY <1>4, <2>2, <3>1, <3>3 DEF Takes
    <3>4. ASSUME NEW h \in Collector, CollectErrs(h) \/ Forgets(h) PROVE FALSE
      BY <1>4, <2>2, <3>1, <3>4 DEF CollectErrs, Forgets, ItemEnds
    <3>5. ASSUME NEW h \in Collector, CollectorDies(h) PROVE FALSE
      BY <1>4, <2>2, <3>1, <3>5 DEF CollectorDies, NoCollection
    <3>6. ASSUME NEW h \in Collector, Collects(h) PROVE object'[collect'[g].key] = "deleted"
      <4>1. h = g /\ collect'[g].key = collect[g].key /\ collect[g].pc = "delete"
        BY <2>2, <3>1, <3>6 DEF Collects, CollectAt
      <4>2. collect[g].key \in Key /\ object \in [Key -> {"free", "stored", "deleted"}]
        BY <1>1, <4>1 DEF IInv, StoreTypeOK
      <4> QED
        BY <3>6, <4>1, <4>2 DEF Collects, Delete
    <3> QED
      BY <2>2, <3>2, <3>3, <3>4, <3>5, <3>6
      DEF StoreNext, Intake, IntakePuts, IntakeCreates, IntakeRefused, IntakeDies,
          Compaction, Observes, Rewrites, RewriteErrs, Discards, StampsLevel, Repoints, Abandons,
          CompactorDies, Collection, Reading, Looks, Gets, Misses, GraceElapses, LeaseElapses
  <2> QED
    BY <2>1, <2>2
<1> QED
  BY <1>2, <1>3, <1>4 DEF RetirementsStand

\* Only a grace that ends counts as slow, and it counts every reader that
\* still holds its key.
LEMMA SlowGrows ==
    ASSUME StoreAssumption, IInv, IInv', AfterInv, StoreNext
  PROVE  /\ slow \in Nat /\ slow' \in Nat /\ slow' >= slow
         /\ \A r \in Reader : /\ read[r].pc \in {"holding", "retrying"}
                              /\ retired[read[r].key] = "grace" /\ retired'[read[r].key] # "grace"
                              => slow' >= slow + 1
<1>1. slow \in Nat /\ slow' \in Nat
  BY StoreAssumption DEF StoreAssumption, IInv, StoreTypeOK
<1>2. \A r \in Reader : read[r].pc \in {"holding", "retrying"} => read[r].key \in Key
  BY DEF IInv, StoreTypeOK, NoRead
<1>3. retired \in [Key -> {"none", "grace", "due", "leased", "gone"}]
  BY DEF IInv, StoreTypeOK
<1>4. ASSUME NEW k \in Key, GraceElapses(k)
      PROVE  /\ slow' >= slow
             /\ \A r \in Reader : /\ read[r].pc \in {"holding", "retrying"}
                                  /\ retired[read[r].key] = "grace" /\ retired'[read[r].key] # "grace"
                                  => slow' >= slow + 1
  <2> DEFINE holders == {r \in Reader : read[r].pc \in {"holding", "retrying"} /\ read[r].key = k}
  <2>1. slow' = slow + Cardinality(holders)
    BY <1>4 DEF GraceElapses
  <2>2. IsFiniteSet(holders)
    BY StoreAssumption, FS_Subset DEF StoreAssumption
  <2>3. Cardinality(holders) \in Nat
    BY <2>2, FS_CardinalityType
  <2>4. ASSUME NEW r \in Reader, read[r].pc \in {"holding", "retrying"},
               retired[read[r].key] = "grace", retired'[read[r].key] # "grace"
        PROVE  Cardinality(holders) # 0
    <3>1. read[r].key = k
      BY <1>2, <1>3, <1>4, <2>4 DEF GraceElapses
    <3>2. holders # {}
      BY <2>4, <3>1
    <3> QED
      BY <2>2, <3>2, FS_EmptySet
  <2>5. slow' >= slow
    BY <1>1, <2>1, <2>3
  <2>6. Cardinality(holders) # 0 => slow' >= slow + 1
    BY <1>1, <2>1, <2>3
  <2> HIDE DEF holders
  <2> QED
    BY <2>4, <2>5, <2>6
<1>5. ASSUME ~ \E k \in Key : GraceElapses(k) PROVE slow' = slow
  BY <1>5
  DEF StoreNext, Intake, IntakePuts, IntakeCreates, IntakeRefused, IntakeDies,
      Compaction, Observes, Rewrites, RewriteErrs, Discards, StampsLevel, Repoints, Abandons,
      CompactorDies, Collection, Leases, Takes, Collects, CollectErrs, Forgets, CollectorDies,
      Reading, Looks, Gets, Misses, LeaseElapses
<1>6. ASSUME NEW k \in Key, retired[k] = "grace", retired'[k] # "grace" PROVE GraceElapses(k)
  <2>1. ASSUME NEW g \in Collector, Leases(g) \/ Forgets(g) PROVE FALSE
    BY <1>3, <1>6, <2>1 DEF Leases, Due, Forgets, LeasedBy
  <2>2. ASSUME NEW p \in Compactor, Repoints(p) PROVE FALSE
    BY <1>3, <1>6, <2>2 DEF Repoints
  <2>3. ASSUME NEW i \in Key, LeaseElapses(i) PROVE FALSE
    BY <1>3, <1>6, <2>3 DEF LeaseElapses
  <2>4. ASSUME NEW i \in Key, GraceElapses(i) PROVE i = k
    BY <1>3, <1>6, <2>4 DEF GraceElapses
  <2>5. ASSUME UNCHANGED retired PROVE FALSE
    BY <1>6, <2>5
  <2> QED
    BY <2>1, <2>2, <2>3, <2>4, <2>5
    DEF StoreNext, Intake, IntakePuts, IntakeCreates, IntakeRefused, IntakeDies,
        Compaction, Observes, Rewrites, RewriteErrs, Discards, StampsLevel, Abandons,
        CompactorDies, Collection, Takes, Collects, CollectErrs, CollectorDies,
        Reading, Looks, Gets, Misses, storeRowVars
<1> QED
  BY <1>1, <1>2, <1>4, <1>5, <1>6

\* A pointer leaves a key only when that key is given its grace.
LEMMA PointersMove ==
    ASSUME StoreAssumption, IInv, StoreNext, NEW b \in BlobRow, pointer[b] # NoKey,
           pointer'[b] # pointer[b]
  PROVE  retired'[pointer[b]] = "grace"
<1>1. StoreTypeOK /\ StoreInv
  BY DEF IInv
<1>2. ASSUME NEW c \in BlobRow, NEW l \in Level, IntakeCreates(c, l) PROVE FALSE
  BY <1>1, <1>2 DEF IntakeCreates, StoreInv, IntakesKept, StoreTypeOK
<1>3. ASSUME NEW p \in Compactor, Repoints(p) PROVE retired'[pointer[b]] = "grace"
  <2>1. compact[p] \in CompactRecord
    BY <1>1, <1>3, CompactEntry DEF Repoints, CompactAt
  <2> QED
    BY <1>1, <1>3, <2>1 DEF Repoints, StillCurrent, CompactRecord, StoreTypeOK
<1>4. ASSUME UNCHANGED pointer PROVE FALSE
  BY <1>4
<1> QED
  BY <1>2, <1>3, <1>4
  DEF StoreNext, Intake, IntakePuts, IntakeRefused, IntakeDies,
      Compaction, Observes, Rewrites, RewriteErrs, Discards, StampsLevel, Abandons,
      CompactorDies, Collection, Leases, Takes, Collects, CollectErrs, Forgets, CollectorDies,
      Reading, Looks, Gets, Misses, GraceElapses, LeaseElapses, storeRowVars

\* A key that is nobody's to retire leaves that state only into its grace.
LEMMA GraceComesFirst ==
    ASSUME StoreAssumption, IInv, StoreNext, NEW k \in Key, retired[k] = "none",
           retired'[k] # "none"
  PROVE  retired'[k] = "grace"
<1>1. retired \in [Key -> {"none", "grace", "due", "leased", "gone"}]
  BY DEF IInv, StoreTypeOK
<1>2. ASSUME NEW p \in Compactor, Repoints(p) PROVE retired'[k] = "grace"
  BY <1>1, <1>2 DEF Repoints
<1>3. ASSUME NEW g \in Collector, Leases(g) \/ Forgets(g) PROVE FALSE
  BY <1>1, <1>3 DEF Leases, Due, Forgets, LeasedBy
<1>4. ASSUME NEW i \in Key, GraceElapses(i) \/ LeaseElapses(i) PROVE FALSE
  BY <1>1, <1>4 DEF GraceElapses, LeaseElapses
<1>5. ASSUME UNCHANGED retired PROVE FALSE
  BY <1>5
<1> QED
  BY <1>2, <1>3, <1>4, <1>5
  DEF StoreNext, Intake, IntakePuts, IntakeCreates, IntakeRefused, IntakeDies,
      Compaction, Observes, Rewrites, RewriteErrs, Discards, StampsLevel, Abandons,
      CompactorDies, Collection, Takes, Collects, CollectErrs, CollectorDies,
      Reading, Looks, Gets, Misses, storeRowVars

\* What a reader holds stays so unless a grace ends under it.
LEMMA HeldOrSlow ==
    ASSUME StoreAssumption, IInv, IInv', AfterInv, StoreNext, NEW r \in Reader,
           read[r].pc \in {"holding", "retrying"}, read'[r] = read[r], HoldsStill(r)
  PROVE  HoldsStill(r)' \/ slow' >= slow + 1
<1>1. read[r].key \in Key /\ read[r].blob \in BlobRow
  BY DEF IInv, StoreTypeOK, NoRead
<1>2. CASE retired[read[r].key] = "grace"
  BY <1>2, SlowGrows DEF HoldsStill
<1>3. CASE retired[read[r].key] = "none" /\ pointer[read[r].blob] = read[r].key
  BY <1>1, <1>3, PointersMove, GraceComesFirst, StoreAssumption DEF StoreAssumption, HoldsStill
<1> QED
  BY <1>2, <1>3 DEF HoldsStill

\* A reader gives up only on its second miss, and each miss has cost a grace.
LEMMA ReadersStandOn ==
    ASSUME StoreAssumption, IInv, IInv', AfterInv, StoreNext
  PROVE  ReadersStand'
<1> SUFFICES ASSUME NEW r \in Reader
             PROVE  /\ read'[r].pc = "holding" => HoldsStill(r)' \/ slow' >= 1
                    /\ read'[r].pc = "retrying" => slow' >= 1 /\ (HoldsStill(r)' \/ slow' >= 2)
                    /\ read'[r].pc = "failed" => slow' >= 2
  BY SlowGrows DEF ReadersStand
<1>1. /\ slow \in Nat /\ slow' \in Nat /\ slow' >= slow
      /\ read[r].pc = "holding" => HoldsStill(r) \/ slow >= 1
      /\ read[r].pc = "retrying" => slow >= 1 /\ (HoldsStill(r) \/ slow >= 2)
      /\ read[r].pc = "failed" => slow >= 2
  BY SlowGrows DEF AfterInv, ReadersStand
<1>2. read \in [Reader -> [pc: {"holding", "retrying", "failed"}, blob: BlobRow, key: Key]
                           \cup {NoRead}]
  BY DEF IInv, StoreTypeOK
<1>3. CASE read'[r] = read[r]
  <2>1. read[r].pc \in {"holding", "retrying"} /\ HoldsStill(r)
        => HoldsStill(r)' \/ slow' >= slow + 1
    BY <1>3, HeldOrSlow
  <2> QED
    BY <1>1, <1>3, <2>1
<1>4. ASSUME NEW b \in BlobRow, Looks(r, b) PROVE read'[r].pc = "holding" /\ HoldsStill(r)'
  <2>1. /\ read'[r] = [pc |-> "holding", blob |-> b, key |-> pointer[b]]
        /\ UNCHANGED <<pointer, retired>> /\ pointer[b] # NoKey
    BY <1>2, <1>4 DEF Looks, storeRowVars
  <2> QED
    BY <2>1 DEF HoldsStill, IInv, StoreInv, PointersKept
<1>5. CASE Gets(r)
  <2>1. read'[r].pc = "idle"
    BY <1>2, <1>5 DEF Gets, NoRead
  <2> QED
    BY <2>1
<1>6. CASE Misses(r)
  <2>1. /\ read[r] \in [pc: {"holding", "retrying"}, blob: BlobRow, key: Key]
        /\ object[read[r].key] # "stored" /\ UNCHANGED <<pointer, retired, slow>>
        /\ pointer[read[r].blob] # NoKey
    BY <1>2, <1>6 DEF Misses, NoRead, storeRowVars, IInv, StoreInv, ReadersPointed
  <2>2. ~ HoldsStill(r)
    BY <2>1 DEF HoldsStill, IInv, StoreInv, PointersKept, AfterInv, RetirementsStand
  <2>3. read[r].pc = "holding" => slow >= 1
    BY <1>1, <2>2
  <2>4. read[r].pc = "retrying" => slow >= 2
    BY <1>1, <2>2
  <2>5. CASE read[r].pc = "holding" /\ Refreshed(r) # read[r].key
    <3>1. read'[r].pc = "retrying" /\ read'[r].key = pointer[read[r].blob] /\ read'[r].blob = read[r].blob
      BY <1>2, <1>6, <2>1, <2>5 DEF Misses, Refreshed
    <3>2. HoldsStill(r)'
      BY <2>1, <3>1 DEF HoldsStill, IInv, StoreInv, PointersKept
    <3> QED
      BY <1>1, <2>1, <2>3, <2>5, <3>1, <3>2
  <2>6. CASE read[r].pc = "holding" /\ Refreshed(r) = read[r].key
    BY <2>1, <2>6 DEF Refreshed, IInv, StoreInv, PointersKept
  <2>7. CASE read[r].pc = "retrying"
    <3>1. read'[r].pc = "failed"
      BY <1>2, <1>6, <2>1, <2>7 DEF Misses
    <3> QED
      BY <2>1, <2>4, <2>7, <3>1
  <2> QED
    BY <2>1, <2>5, <2>6, <2>7
<1>7. ASSUME NEW s \in Reader, Reading(s), s # r PROVE read'[r] = read[r]
  BY <1>2, <1>7 DEF Reading, Looks, Gets, Misses
<1> QED
  BY <1>3, <1>4, <1>5, <1>6, <1>7
  DEF StoreNext, Intake, IntakePuts, IntakeCreates, IntakeRefused, IntakeDies,
      Compaction, Observes, Rewrites, RewriteErrs, Discards, StampsLevel, Repoints, Abandons,
      CompactorDies, Collection, Leases, Takes, Collects, CollectErrs, Forgets, CollectorDies,
      Reading, GraceElapses, LeaseElapses

\* What a step leaves behind was left behind before, or a fault pays for it.
LEMMA LeaksGrow ==
    ASSUME StoreAssumption, IInv, IInv', AfterInv, AfterInv', StoreNext
  PROVE  \/ Leaked' \subseteq Leaked /\ storeFaults' >= storeFaults
         \/ \E k \in Key : Leaked' \subseteq Leaked \cup {k} /\ storeFaults' = storeFaults + 1
<1> DEFINE Left(k) == /\ object[k] = "stored" /\ retired[k] \in {"none", "gone"}
                      /\ \A b \in BlobRow : pointer[b] # k /\ intake[b] # k
                      /\ \A p \in Compactor : compact[p].fresh # k
<1>0. /\ StoreTypeOK /\ StoreInv /\ storeFaults \in Nat
      /\ \A p \in Compactor : compact[p].pc \in {"idle", "observed", "stamp"} => compact[p].fresh = NoKey
      /\ NoKey \notin Key
  BY StoreAssumption DEF StoreAssumption, IInv, AfterInv, NothingPut, StoreTypeOK
<1>1. Leaked = {k \in Key : Left(k)} /\ Leaked' = {k \in Key : Left(k)'}
  BY DEF Leaked, Unreferenced
<1> HIDE DEF Left
\* Intake.
<1>2. ASSUME NEW b \in BlobRow, Intake(b), ~ IntakeDies(b), NEW k \in Key, Left(k)' PROVE Left(k)
  <2>1. ASSUME NEW i \in Key, IntakePuts(b, i) PROVE Left(k)
    BY <1>0, <1>2, <2>1 DEF Left, IntakePuts, Put, storeRowVars, StoreTypeOK
  <2>2. ASSUME NEW l \in Level, IntakeCreates(b, l) PROVE Left(k)
    BY <1>0, <1>2, <2>2 DEF Left, IntakeCreates, StoreTypeOK, StoreInv, IntakesKept
  <2>3. CASE IntakeRefused(b)
    BY <1>0, <1>2, <2>3 DEF Left, IntakeRefused, Delete, storeRowVars, StoreTypeOK
  <2> QED
    BY <1>2, <2>1, <2>2, <2>3 DEF Intake
<1>3. ASSUME NEW b \in BlobRow, IntakeDies(b), NEW k \in Key, Left(k)', k # intake[b] PROVE Left(k)
  BY <1>0, <1>3 DEF Left, IntakeDies, storeRowVars, StoreTypeOK
\* Compaction.
<1>4. ASSUME NEW p \in Compactor, CompactEnds(p), UNCHANGED <<object, pointer, retired, intake>>,
             NEW k \in Key, Left(k)', k # compact[p].fresh
      PROVE  Left(k)
  <2>1. \A q \in Compactor \ {p} : compact'[q] = compact[q]
    BY <1>0, <1>4, CompactionEnds DEF IInv
  <2> QED
    BY <1>4, <2>1 DEF Left
<1>5. ASSUME NEW p \in Compactor, Compaction(p), ~ CompactorDies(p), NEW k \in Key, Left(k)' PROVE Left(k)
  <2>1. ASSUME NEW b \in BlobRow, NEW t \in Level, Observes(p, b, t) PROVE Left(k)
    <3>1. compact[p].fresh = NoKey /\ \A q \in Compactor \ {p} : compact'[q] = compact[q]
      BY <1>0, <2>1 DEF Observes, CompactAt, StoreTypeOK
    <3> QED
      BY <1>0, <1>5, <2>1, <3>1 DEF Left, Observes, storeRowVars
  <2>2. ASSUME NEW i \in Key, NEW denser \in BOOLEAN, Rewrites(p, i, denser) PROVE Left(k)
    <3>1. compact[p] \in CompactRecord /\ compact[p].fresh = NoKey
      BY <1>0, <2>2, CompactEntry DEF Rewrites, CompactAt
    <3>2. compact'[p].fresh = i /\ \A q \in Compactor \ {p} : compact'[q] = compact[q]
      BY <1>0, <2>2, <3>1 DEF Rewrites, CompactRecord, StoreTypeOK
    <3> QED
      BY <1>0, <1>5, <2>2, <3>1, <3>2 DEF Left, Rewrites, Put, storeRowVars, StoreTypeOK
  <2>3. CASE RewriteErrs(p) \/ StampsLevel(p)
    <3>1. /\ CompactEnds(p) /\ compact[p].fresh = NoKey
          /\ UNCHANGED <<object, pointer, retired, intake>>
      BY <1>0, <2>3 DEF RewriteErrs, StampsLevel, CompactAt, storeRowVars
    <3> QED
      BY <1>0, <1>4, <1>5, <3>1
  <2>4. CASE Discards(p)
    <3>1. compact[p] \in CompactRecord /\ compact[p].fresh \in Key
      BY <1>0, <2>4, CompactEntry DEF Discards, CompactAt, StoreInv, CompactionsStand, CompactRecord
    <3>2. compact'[p].fresh = NoKey /\ \A q \in Compactor \ {p} : compact'[q] = compact[q]
      BY <1>0, <2>4, <3>1 DEF Discards, CompactRecord, StoreTypeOK
    <3> QED
      BY <1>0, <1>5, <2>4, <3>1, <3>2 DEF Left, Discards, Delete, storeRowVars, StoreTypeOK
  <2>5. CASE Repoints(p) /\ StillCurrent(p)
    <3> DEFINE b == compact[p].blob
    <3>1. /\ compact[p] \in CompactRecord /\ b \in BlobRow
      BY <1>0, <2>5, CompactEntry DEF Repoints, CompactAt, CompactRecord
    <3>2. \A q \in Compactor \ {p} : compact'[q] = compact[q]
      BY <1>0, <2>5, CompactionEnds DEF Repoints, IInv
    <3>3. /\ pointer'[b] = compact[p].fresh /\ \A c \in BlobRow \ {b} : pointer'[c] = pointer[c]
          /\ pointer[b] = compact[p].key
          /\ retired' = [retired EXCEPT ![compact[p].key] = "grace"]
          /\ UNCHANGED <<object, intake>>
      BY <1>0, <2>5, <3>1 DEF Repoints, StillCurrent, StoreTypeOK
    <3>4. k # compact[p].key
      BY <1>0, <1>5, <3>1, <3>3 DEF Left, StoreTypeOK, CompactRecord
    <3> QED
      BY <1>0, <1>5, <3>1, <3>2, <3>3, <3>4 DEF Left, StoreTypeOK
  <2>6. CASE Repoints(p) /\ ~ StillCurrent(p)
    <3>1. compact[p] \in CompactRecord
      BY <1>0, <2>6, CompactEntry DEF Repoints, CompactAt
    <3>2. compact'[p].fresh = compact[p].fresh /\ \A q \in Compactor \ {p} : compact'[q] = compact[q]
      BY <1>0, <2>6, <3>1 DEF Repoints, CompactRecord, StoreTypeOK
    <3> QED
      BY <1>5, <2>6, <3>2 DEF Left, Repoints
  <2>7. CASE Abandons(p)
    <3>1. compact[p].fresh \in Key /\ CompactEnds(p) /\ Delete(compact[p].fresh)
          /\ UNCHANGED <<pointer, retired, intake>>
      BY <1>0, <2>7, FreshKey DEF Abandons, LostLayout, CompactAt, StoreInv, CompactionsStand, storeRowVars
    <3>2. \A q \in Compactor \ {p} : compact'[q] = compact[q]
      BY <1>0, <3>1, CompactionEnds DEF IInv
    <3> QED
      BY <1>0, <1>5, <3>1, <3>2 DEF Left, Delete, StoreTypeOK
  <2> QED
    BY <1>5, <2>1, <2>2, <2>3, <2>4, <2>5, <2>6, <2>7 DEF Compaction
\* Retirement and readers.
<1>6. ASSUME UNCHANGED <<pointer, intake, compact>>, \A k \in Key : object'[k] = "stored" => object[k] = "stored",
             NEW k \in Key, Left(k)', retired'[k] # "none" \/ retired[k] = "none"
      PROVE  Left(k)
  <2>1. retired'[k] # "gone"
    BY <1>6 DEF Left, AfterInv, RetirementsStand
  <2> QED
    BY <1>6, <2>1 DEF Left
<1>7. ASSUME NEW g \in Collector, Collection(g), NEW k \in Key, Left(k)' PROVE Left(k)
  <2>1. /\ UNCHANGED <<pointer, intake, compact>>
        /\ \A i \in Key : object'[i] = "stored" => object[i] = "stored"
        /\ retired'[k] # "none" \/ retired[k] = "none"
    BY <1>0, <1>7 DEF Collection, Leases, Takes, Collects, CollectErrs, Forgets, CollectorDies, Delete,
                      storeRowVars, StoreTypeOK
  <2> QED
    BY <1>6, <1>7, <2>1
<1>8. ASSUME NEW i \in Key, GraceElapses(i) \/ LeaseElapses(i), NEW k \in Key, Left(k)' PROVE Left(k)
  <2>1. /\ UNCHANGED <<object, pointer, intake, compact>>
        /\ retired'[k] # "none" \/ retired[k] = "none"
    BY <1>0, <1>8 DEF GraceElapses, LeaseElapses, StoreTypeOK
  <2> QED
    BY <1>6, <1>8, <2>1
<1>9. ASSUME NEW r \in Reader, Reading(r), NEW k \in Key, Left(k)' PROVE Left(k)
  BY <1>9 DEF Left, Reading, Looks, Gets, Misses, storeRowVars
\* A death leaves one key.
<1>10. CASE \E b \in BlobRow : IntakeDies(b)
  <2>1. PICK b \in BlobRow : IntakeDies(b)
    BY <1>10
  <2>2. intake[b] \in Key /\ storeFaults' = storeFaults + 1
    BY <1>0, <2>1 DEF IntakeDies, Fault, StoreTypeOK
  <2> QED
    BY <1>1, <1>3, <2>1, <2>2
<1>11. CASE \E p \in Compactor : CompactorDies(p)
  <2>1. PICK p \in Compactor : CompactorDies(p)
    BY <1>11
  <2>2. /\ CompactEnds(p) /\ UNCHANGED <<object, pointer, retired, intake>>
        /\ storeFaults' = storeFaults + 1 /\ compact[p].fresh \in Key \cup {NoKey}
    BY <1>0, <2>1, FreshKey DEF CompactorDies, Fault, storeRowVars
  <2>3. CASE compact[p].fresh \in Key
    BY <1>1, <1>4, <2>2, <2>3
  <2>4. CASE compact[p].fresh = NoKey
    <3>1. Leaked' \subseteq Leaked
      BY <1>0, <1>1, <1>4, <2>2, <2>4
    <3> QED
      BY <1>0, <2>2, <3>1
  <2> QED
    BY <2>2, <2>3, <2>4
<1>12. CASE /\ ~ \E b \in BlobRow : IntakeDies(b)
            /\ ~ \E p \in Compactor : CompactorDies(p)
  <2>1. Leaked' \subseteq Leaked
    BY <1>1, <1>2, <1>5, <1>7, <1>8, <1>9, <1>12 DEF StoreNext
  <2>2. storeFaults' = storeFaults \/ storeFaults' = storeFaults + 1
    BY <1>12
    DEF StoreNext, Intake, IntakePuts, IntakeCreates, IntakeRefused,
        Compaction, Observes, Rewrites, RewriteErrs, Discards, StampsLevel, Repoints, Abandons,
        Collection, Leases, Takes, Collects, CollectErrs, Forgets, CollectorDies,
        Reading, Looks, Gets, Misses, GraceElapses, LeaseElapses, Fault
  <2> QED
    BY <1>0, <2>1, <2>2
<1> QED
  BY <1>10, <1>11, <1>12

\* Adding one element adds at most one to the size.
LEMMA OneMore ==
    ASSUME NEW S, IsFiniteSet(S), NEW T, NEW e, T \subseteq S \cup {e}
  PROVE  /\ IsFiniteSet(T) /\ Cardinality(T) \in Nat /\ Cardinality(S) \in Nat
         /\ Cardinality(T) <= Cardinality(S) + 1
         /\ T \subseteq S => Cardinality(T) <= Cardinality(S)
<1>1. IsFiniteSet(S \cup {e}) /\ Cardinality(S) \in Nat
  BY FS_AddElement, FS_CardinalityType
<1>2. IsFiniteSet(T) /\ Cardinality(T) \in Nat /\ Cardinality(T) <= Cardinality(S \cup {e})
      /\ (T \subseteq S => Cardinality(T) <= Cardinality(S))
  BY <1>1, FS_Subset, FS_CardinalityType
<1>3. CASE e \in S
  <2>1. T \subseteq S
    BY <1>3
  <2> QED
    BY <1>1, <1>2, <2>1
<1>4. CASE e \notin S
  <2>1. Cardinality(S \cup {e}) = Cardinality(S) + 1
    BY <1>4, FS_AddElement
  <2> QED
    BY <1>1, <1>2, <2>1
<1> QED
  BY <1>3, <1>4

\* Leaks stay within the faults.
LEMMA LeaksStayCounted ==
    ASSUME StoreAssumption, IInv, IInv', AfterInv, AfterInv', LeaksCounted, StoreNext
  PROVE  LeaksCounted'
<1>0. IsFiniteSet(Leaked) /\ Cardinality(Leaked) <= storeFaults
      /\ storeFaults \in Nat /\ storeFaults' \in Nat
  BY StoreAssumption DEF StoreAssumption, LeaksCounted, IInv, StoreTypeOK
<1>1. CASE Leaked' \subseteq Leaked /\ storeFaults' >= storeFaults
  <2>1. IsFiniteSet(Leaked') /\ Cardinality(Leaked') \in Nat /\ Cardinality(Leaked) \in Nat
        /\ Cardinality(Leaked') <= Cardinality(Leaked)
    BY <1>0, <1>1, FS_Subset, FS_CardinalityType
  <2> QED
    BY <1>0, <1>1, <2>1 DEF LeaksCounted
<1>2. ASSUME NEW k \in Key, Leaked' \subseteq Leaked \cup {k}, storeFaults' = storeFaults + 1
      PROVE  LeaksCounted'
  <2>1. IsFiniteSet(Leaked') /\ Cardinality(Leaked') \in Nat /\ Cardinality(Leaked) \in Nat
        /\ Cardinality(Leaked') <= Cardinality(Leaked) + 1
    BY <1>0, <1>2, OneMore
  <2> QED
    BY <1>0, <1>2, <2>1 DEF LeaksCounted
<1> QED
  BY <1>1, <1>2, LeaksGrow

LateInv == IInv /\ AfterInv /\ LeaksCounted

\* Retirements and readers stand where they should, and faults pay for leaks.
THEOREM LateInvariant == ASSUME StoreAssumption PROVE StoreSpec => []LateInv
<1>1. StoreInit => LateInv
  <2> SUFFICES ASSUME StoreInit PROVE LateInv
    OBVIOUS
  <2>1. IInv
    BY TypeInit, InvInit DEF IInv
  <2>2. AfterInv
    BY DEF StoreInit, AfterInv, CollectionsDue, RetirementsStand, NothingPut, ReadersStand,
           NoCollection, NoCompaction, NoRead
  <2>3. Leaked = {} /\ storeFaults = 0
    BY DEF StoreInit, Leaked
  <2>4. LeaksCounted
    BY <2>3, FS_EmptySet DEF LeaksCounted
  <2> QED
    BY <2>1, <2>2, <2>4 DEF LateInv
<1>2. LateInv /\ [StoreNext]_storeVars => LateInv'
  <2> SUFFICES ASSUME IInv, AfterInv, LeaksCounted, [StoreNext]_storeVars PROVE LateInv'
    BY DEF LateInv
  <2>1. IInv'
    BY IInvStep
  <2>2. CASE StoreNext
    <3>1. AfterInv'
      BY <2>1, <2>2, CollectionsStayDue, RetirementsStandOn, NothingPutYet, ReadersStandOn DEF AfterInv
    <3> QED
      BY <2>1, <2>2, <3>1, LeaksStayCounted DEF LateInv
  <2>3. CASE UNCHANGED storeVars
    <3>1. AfterInv'
      BY <2>3 DEF AfterInv, CollectionsDue, RetirementsStand, NothingPut, ReadersStand, HoldsStill,
                  storeVars, storeRowVars
    <3>2. LeaksCounted'
      BY <2>3 DEF LeaksCounted, Leaked, Unreferenced, storeVars, storeRowVars
    <3> QED
      BY <2>1, <3>1, <3>2 DEF LateInv
  <2> QED
    BY <2>2, <2>3
<1> QED
  BY <1>1, <1>2, PTL DEF StoreSpec

\* A conversion fails to read its original only when two graces have ended
\* while readers held their keys; so if at most one does, every read is
\* answered (read_original's one retry through the refreshed pointer).
THEOREM ReadsAlwaysSurvive ==
    ASSUME StoreAssumption, MaxSlow <= 1 PROVE StoreSpec => []ReadsSurvive
<1>1. LateInv => ReadsSurvive
  <2> SUFFICES ASSUME LateInv, NEW r \in Reader, read[r].pc = "failed" PROVE FALSE
    BY DEF ReadsSurvive
  <2>1. slow >= 2 /\ slow \in 0..MaxSlow
    BY DEF LateInv, IInv, StoreTypeOK, AfterInv, ReadersStand
  <2> QED
    BY <2>1, StoreAssumption DEF StoreAssumption
<1> QED
  BY <1>1, LateInvariant, PTL

\* Every object left in the bucket with nothing that refers to it or will
\* delete it is paid for by a death or a failed deletion of its own, however
\* many compactions, collections and intakes overlap.
THEOREM LeaksArePaid == ASSUME StoreAssumption PROVE StoreSpec => []LeaksPaid
<1>1. LateInv => LeaksPaid
  BY DEF LateInv, LeaksCounted, LeaksPaid
<1> QED
  BY <1>1, LateInvariant, PTL

-----------------------------------------------------------------------------
(* Uploads.  A grant that a request works with is gone from the table for    *)
(* good, and who has counted a user's live grants is alone until it adds    *)
(* its own.                                                                 *)

Redeeming(p) == phase[p] \notin {"idle", "refused"}

RedeemInv ==
    /\ \A p \in Puts : /\ phase[p] = "idle" => item[p] = none
                       /\ Redeeming(p) => /\ item[p] \in Grants
                                       /\ phase[item[p]] = "granted"
                                       /\ item[p] \notin rows
    /\ SingleUse

CountInv ==
    /\ IsFiniteSet(rows)
    /\ \A g \in Grants : stamp[g] <= clock
    /\ \A g, h \in Grants : /\ phase[g] = "counted" /\ phase[h] = "counted"
                            /\ Owner[g] = Owner[h]
                            => g = h
    /\ \A g \in Grants : phase[g] = "counted"
                            => Cardinality(Live(Owner[g], stamp[g])) < Cap
    /\ CapHolds

UploadInv == UploadTypeOK /\ RedeemInv /\ CountInv

UploadPhases == {"idle", "waiting", "counted", "granted", "claimed",
                 "stored", "summed", "kept", "refused"}

\* A call or a request moves from one phase to another.
LEMMA MovesTo ==
    ASSUME UploadTypeOK, NEW x \in Grants \cup Requests, NEW p \in UploadPhases, Go(x, p)
    PROVE  /\ phase' \in [Grants \cup Requests -> UploadPhases]
           /\ phase'[x] = p
           /\ \A y \in (Grants \cup Requests) \ {x} : phase'[y] = phase[y]
BY DEF UploadTypeOK, UploadPhases, Go

\* A step that takes grants away, or none, and lets no redeemed one return.
LEMMA RedeemedStay ==
    ASSUME UploadInv, rows' \subseteq rows, item' = item,
           \A g \in Grants : phase[g] = "granted" => phase'[g] = "granted",
           \A p \in Puts : /\ phase'[p] = "idle" => phase[p] = "idle"
                           /\ Redeeming(p)' => Redeeming(p)
                           /\ phase[p] = "refused" => phase'[p] = "refused"
    PROVE  RedeemInv'
BY DEF UploadInv, RedeemInv, SingleUse, Redeeming

\* Fewer grants are live to a later clock, and in a smaller table.
LEMMA FewerLive ==
    ASSUME UploadsAssumption, UploadTypeOK, IsFiniteSet(rows), NEW u, NEW m \in Nat, NEW n \in Nat,
           m <= n, rows' \subseteq rows, stamp' = stamp
    PROVE  /\ IsFiniteSet(Live(u, m)) /\ Cardinality(Live(u, m)) \in Nat
           /\ IsFiniteSet(Live(u, n)')
           /\ Cardinality(Live(u, n)') <= Cardinality(Live(u, m))
           /\ Cardinality(Live(u, n)') \in Nat
<1>1. Live(u, m) \subseteq rows
    BY DEF Live
<1>2. Live(u, n)' \subseteq Live(u, m)
  <2>1. ASSUME NEW g \in rows, ~ (stamp[g] + Ttl < n) PROVE ~ (stamp[g] + Ttl < m)
    <3>1. stamp[g] \in Nat /\ Ttl \in Nat
        BY DEF UploadTypeOK, UploadsAssumption
    <3> QED BY <2>1, <3>1
  <2> QED BY <2>1 DEF Live, Expired
<1>3. IsFiniteSet(Live(u, m)) /\ Cardinality(Live(u, m)) \in Nat
    BY <1>1, FS_Subset, FS_CardinalityType
<1> QED BY <1>2, <1>3, FS_Subset, FS_CardinalityType

\* A step that takes grants away, or none, and counts nobody's.
LEMMA CountsStay ==
    ASSUME UploadsAssumption, UploadInv, rows' \subseteq rows, stamp' = stamp,
           clock' \in Nat, clock <= clock',
           \A g \in Grants : phase'[g] = "counted" => phase[g] = "counted"
    PROVE  CountInv'
<1>1. IsFiniteSet(rows')
    BY FS_Subset DEF UploadInv, CountInv
<1>2. clock \in Nat /\ \A g \in Grants : stamp[g] \in Nat
    BY DEF UploadInv, UploadTypeOK, UploadsAssumption
<1>3. ASSUME NEW g \in Grants, phase'[g] = "counted"
      PROVE  Cardinality(Live(Owner[g], stamp[g]))' < Cap
  <2>1. PICK n \in Nat : n = stamp[g] /\ n = stamp'[g]
      BY <1>2
  <2>2. Live(Owner[g], n) = Live(Owner[g], stamp[g]) /\ Live(Owner[g], n)' = Live(Owner[g], stamp[g])'
      BY <2>1 DEF Live, Expired
  <2>3. Cardinality(Live(Owner[g], n)) < Cap
      BY <1>3, <2>2 DEF UploadInv, CountInv
  <2>4. /\ Cardinality(Live(Owner[g], n)) \in Nat /\ Cardinality(Live(Owner[g], n)') \in Nat
        /\ Cardinality(Live(Owner[g], n)') <= Cardinality(Live(Owner[g], n))
      BY FewerLive DEF UploadInv, CountInv
  <2>5. Cardinality(Live(Owner[g], n)') < Cap
      BY <2>3, <2>4 DEF UploadsAssumption
  <2> QED BY <2>2, <2>5
<1>4. ASSUME NEW u \in Users PROVE Cardinality(Live(u, clock))' <= Cap
  <2>1. PICK m \in Nat, n \in Nat : m = clock /\ n = clock' /\ m <= n
      BY <1>2
  <2>2. Live(u, m) = Live(u, clock) /\ Live(u, n)' = Live(u, clock)'
      BY <2>1 DEF Live, Expired
  <2>3. Cardinality(Live(u, m)) <= Cap
      BY <2>2 DEF UploadInv, CountInv, CapHolds
  <2>4. /\ Cardinality(Live(u, m)) \in Nat /\ Cardinality(Live(u, n)') \in Nat
        /\ Cardinality(Live(u, n)') <= Cardinality(Live(u, m))
      BY <2>1, FewerLive DEF UploadInv, CountInv
  <2>5. Cardinality(Live(u, n)') <= Cap
      BY <2>3, <2>4 DEF UploadsAssumption
  <2> QED BY <2>2, <2>5
<1>5. /\ \A g \in Grants : stamp'[g] <= clock'
      /\ \A g, h \in Grants : /\ phase'[g] = "counted" /\ phase'[h] = "counted"
                              /\ Owner[g] = Owner[h]
                              => g = h
    BY <1>2 DEF UploadInv, CountInv
<1> QED BY <1>1, <1>3, <1>4, <1>5 DEF CountInv, CapHolds

\* A request that received its body or answers.
LEMMA RequestKeeps ==
    ASSUME UploadsAssumption, UploadInv, NEW r \in Requests,
           NEW p \in {"stored", "summed", "kept", "refused"}, Go(r, p),
           phase[r] \in {"claimed", "stored", "summed"} \/ (r \in Uris /\ phase[r] = "idle"),
           UNCHANGED <<clock, stamp, rows, item>>,
           kept' = IF p = "kept" THEN kept \cup {r} ELSE kept
    PROVE  UploadInv'
<1>1. /\ phase' \in [Grants \cup Requests -> UploadPhases] /\ phase'[r] = p
      /\ \A y \in (Grants \cup Requests) \ {r} : phase'[y] = phase[y]
  <2>1. p \in UploadPhases /\ r \in Grants \cup Requests
      BY DEF UploadPhases
  <2> QED BY <2>1, MovesTo DEF UploadInv
<1>2. r \notin Grants /\ \A q \in Puts : q \in Requests /\ q \notin Grants /\ q \notin Uris
    BY DEF UploadsAssumption, Requests
<1>3. UploadTypeOK'
  <2>1. rows' \subseteq {g \in Grants : phase'[g] = "granted"}
      BY <1>1, <1>2 DEF UploadInv, UploadTypeOK
  <2>2. kept' = {q \in Requests : phase'[q] = "kept"}
      BY <1>1 DEF UploadInv, UploadTypeOK
  <2> QED BY <1>1, <2>1, <2>2 DEF UploadInv, UploadTypeOK, UploadPhases
<1>4. \A g \in Grants : phase'[g] = phase[g]
    BY <1>1, <1>2
<1>5. \A q \in Puts : /\ phase'[q] = "idle" => phase[q] = "idle"
                      /\ Redeeming(q)' => Redeeming(q)
                      /\ phase[q] = "refused" => phase'[q] = "refused"
    BY <1>1, <1>2 DEF Redeeming
<1>6. RedeemInv'
    BY <1>4, <1>5, RedeemedStay
<1>7. CountInv'
    BY <1>4, CountsStay DEF UploadInv, UploadTypeOK, UploadsAssumption
<1> QED BY <1>3, <1>6, <1>7 DEF UploadInv

\* The other steps of a request's handler redeem nothing.
LEMMA HandleKeeps ==
    ASSUME UploadsAssumption, UploadInv, NEW r \in Requests, Handle(r) PROVE UploadInv'
<1>1. CASE Receive(r)
  <2>1. PICK p \in {"stored", "refused"} : Go(r, p)
      BY <1>1 DEF Receive
  <2> QED BY <1>1, <2>1, RequestKeeps DEF Receive
<1>2. CASE Sum(r)
  <2>1. PICK p \in {"summed", "refused"} : Go(r, p)
      BY <1>2 DEF Sum
  <2> QED BY <1>2, <2>1, RequestKeeps DEF Sum
<1>3. CASE Fail(r)
    BY <1>3, RequestKeeps DEF Fail
<1>4. CASE Register(r)
    BY <1>4, RequestKeeps DEF Register
<1> QED BY <1>1, <1>2, <1>3, <1>4 DEF Handle

\* DELETE .. RETURNING hands a grant to one request.
LEMMA ClaimGrantKeeps ==
    ASSUME UploadsAssumption, UploadInv, NEW p \in Puts, NEW g \in Grants, ClaimGrant(p, g)
    PROVE  UploadInv'
<1> DEFINE v == IF g \in rows /\ ~Expired(g, clock) THEN "claimed" ELSE "refused"
<1>1. /\ phase[p] = "idle" /\ phase[g] = "granted" /\ rows' = rows \ {g}
      /\ item' = [item EXCEPT ![p] = g] /\ Go(p, v) /\ UNCHANGED <<clock, stamp, kept>>
    BY DEF ClaimGrant
<1>2. v \in UploadPhases /\ v \in {"claimed", "refused"} /\ (v = "claimed" => g \in rows)
    BY DEF UploadPhases
<1> HIDE DEF v
<1>3. /\ phase' \in [Grants \cup Requests -> UploadPhases] /\ phase'[p] = v
      /\ \A y \in (Grants \cup Requests) \ {p} : phase'[y] = phase[y]
    BY <1>1, <1>2, MovesTo DEF UploadInv, Requests
<1>4. /\ p \in Requests /\ p \notin Grants /\ \A q \in Puts : q \in Requests /\ q \notin Grants
      /\ g \in Items /\ g # none
    BY DEF UploadsAssumption, Requests, Items
<1>5. \A x \in Grants : phase'[x] = phase[x]
    BY <1>3, <1>4
<1>6. item' \in [Requests -> Items \cup {none}] /\ item'[p] = g
      /\ \A q \in Requests \ {p} : item'[q] = item[q]
    BY <1>1, <1>4 DEF UploadInv, UploadTypeOK
<1>7. UploadTypeOK'
  <2>1. rows' \subseteq {x \in Grants : phase'[x] = "granted"}
      BY <1>1, <1>5 DEF UploadInv, UploadTypeOK
  <2>2. kept' = {q \in Requests : phase'[q] = "kept"}
      BY <1>1, <1>2, <1>3, <1>4 DEF UploadInv, UploadTypeOK
  <2> QED BY <1>1, <1>3, <1>6, <2>1, <2>2 DEF UploadInv, UploadTypeOK, UploadPhases
<1>8. RedeemInv'
  <2>1. ASSUME NEW q \in Puts
        PROVE  /\ phase'[q] = "idle" => item'[q] = none
               /\ Redeeming(q)' => /\ item'[q] \in Grants /\ phase'[item'[q]] = "granted"
                                   /\ item'[q] \notin rows'
    <3>1. CASE q = p
        BY <1>1, <1>2, <1>3, <1>5, <1>6, <3>1 DEF Redeeming
    <3>2. CASE q # p
      <4>1. phase'[q] = phase[q] /\ item'[q] = item[q]
          BY <1>3, <1>4, <1>6, <3>2
      <4>2. /\ phase[q] = "idle" => item[q] = none
            /\ Redeeming(q) => /\ item[q] \in Grants /\ phase[item[q]] = "granted"
                               /\ item[q] \notin rows
          BY DEF UploadInv, RedeemInv
      <4> QED BY <1>1, <1>5, <4>1, <4>2 DEF Redeeming
    <3> QED BY <3>1, <3>2
  <2>2. ASSUME NEW q \in Puts, NEW r \in Puts, q # r, item'[q] = item'[r],
               phase'[q] \notin {"idle", "refused"}
        PROVE  phase'[r] = "refused"
    <3>1. CASE q = p
      <4>1. g \in rows /\ item[r] = g /\ phase'[r] = phase[r]
          BY <1>2, <1>3, <1>4, <1>6, <2>2, <3>1
      <4>2. phase[r] # "idle" /\ ~ Redeeming(r)
          BY <1>4, <4>1 DEF UploadInv, RedeemInv
      <4> QED BY <4>1, <4>2 DEF Redeeming
    <3>2. CASE r = p
      <4>1. item[q] = g /\ phase'[q] = phase[q] /\ Redeeming(q)
          BY <1>3, <1>4, <1>6, <2>2, <3>2 DEF Redeeming
      <4>2. g \notin rows
          BY <4>1 DEF UploadInv, RedeemInv
      <4> QED BY <1>2, <1>3, <3>2, <4>2
    <3>3. CASE q # p /\ r # p
        BY <1>3, <1>4, <1>6, <2>2, <3>3 DEF UploadInv, RedeemInv, SingleUse
    <3> QED BY <3>1, <3>2, <3>3
  <2> QED BY <2>1, <2>2 DEF RedeemInv, SingleUse
<1>9. CountInv'
    BY <1>1, <1>5, CountsStay DEF UploadInv, UploadTypeOK, UploadsAssumption
<1> QED BY <1>7, <1>8, <1>9 DEF UploadInv

\* As time passes live grants only get fewer.
LEMMA TickKeeps ==
    ASSUME UploadsAssumption, UploadInv, Tick PROVE UploadInv'
<1>1. clock \in Nat /\ clock' \in 0..LastTick /\ clock' \in Nat /\ clock <= clock'
    BY DEF Tick, UploadInv, UploadTypeOK, UploadsAssumption
<1>2. UploadTypeOK'
    BY <1>1 DEF Tick, UploadInv, UploadTypeOK
<1>3. RedeemInv'
    BY RedeemedStay DEF Tick, Redeeming
<1>4. CountInv'
    BY <1>1, CountsStay DEF Tick
<1> QED BY <1>2, <1>3, <1>4 DEF UploadInv

\* A step of a mint call between two phases a grant is not yet granted in.
LEMMA MintTypes ==
    ASSUME UploadsAssumption, UploadInv, NEW g \in Grants, phase[g] \in {"idle", "waiting", "counted"},
           NEW p \in {"waiting", "counted", "granted", "refused"}, Go(g, p),
           stamp' \in [Grants -> 0..LastTick], UNCHANGED <<clock, item, kept>>,
           rows' \subseteq rows \cup {h \in {g} : p = "granted"}
    PROVE  /\ UploadTypeOK'
           /\ phase'[g] = p
           /\ \A x \in (Grants \cup Requests) \ {g} : phase'[x] = phase[x]
           /\ \A q \in Puts : phase'[q] = phase[q]
<1>1. /\ phase' \in [Grants \cup Requests -> UploadPhases] /\ phase'[g] = p
      /\ \A y \in (Grants \cup Requests) \ {g} : phase'[y] = phase[y]
    BY MovesTo DEF UploadInv, UploadPhases
<1>2. \A q \in Requests : q \in (Grants \cup Requests) \ {g}
    BY DEF UploadsAssumption
<1>3. kept' = {q \in Requests : phase'[q] = "kept"}
    BY <1>1, <1>2 DEF UploadInv, UploadTypeOK
<1>4. rows' \subseteq {x \in Grants : phase'[x] = "granted"}
    BY <1>1 DEF UploadInv, UploadTypeOK
<1> QED BY <1>1, <1>2, <1>3, <1>4 DEF UploadInv, UploadTypeOK, UploadPhases, Requests

\* A mint request that arrives reads the clock and counts nothing yet.
LEMMA ArriveKeeps ==
    ASSUME UploadsAssumption, UploadInv, NEW g \in Grants, Arrive(g) PROVE UploadInv'
<1>1. /\ stamp' = [stamp EXCEPT ![g] = clock] /\ stamp' \in [Grants -> 0..LastTick]
      /\ clock \in Nat /\ \A h \in Grants : stamp[h] \in Nat
    BY DEF Arrive, UploadInv, UploadTypeOK, UploadsAssumption
<1>2. UploadTypeOK' /\ phase'[g] = "waiting"
      /\ (\A x \in (Grants \cup Requests) \ {g} : phase'[x] = phase[x])
      /\ \A q \in Puts : phase'[q] = phase[q]
    BY <1>1, MintTypes DEF Arrive
<1>3. RedeemInv'
    BY <1>2, RedeemedStay DEF Arrive, Redeeming
\* The stamp of a grant in the table stands.
<1>4. g \notin rows /\ stamp'[g] = clock /\ \A h \in Grants \ {g} : stamp'[h] = stamp[h]
    BY <1>1 DEF Arrive, UploadInv, UploadTypeOK
<1>5. \A u, n : Live(u, n)' = Live(u, n)
  <2> TAKE u, n
  <2>1. rows' = rows /\ \A h \in rows : stamp'[h] = stamp[h]
      BY <1>4 DEF Arrive, UploadInv, UploadTypeOK
  <2>2. \A h \in rows : Expired(h, n)' <=> Expired(h, n)
      BY <2>1 DEF Expired
  <2> QED BY <2>1, <2>2 DEF Live
<1>6. ASSUME NEW h \in Grants, phase'[h] = "counted"
      PROVE  phase[h] = "counted" /\ Cardinality(Live(Owner[h], stamp[h]))' < Cap
  <2>1. phase[h] = "counted" /\ stamp'[h] = stamp[h]
      BY <1>2, <1>4, <1>6
  <2>2. PICK n : n = stamp[h] /\ n = stamp'[h]
      BY <2>1
  <2>3. Live(Owner[h], stamp[h])' = Live(Owner[h], n)' /\ Live(Owner[h], n) = Live(Owner[h], stamp[h])
      BY <2>2 DEF Live, Expired
  <2>4. Live(Owner[h], stamp[h])' = Live(Owner[h], stamp[h])
      BY <1>5, <2>3
  <2> QED BY <2>1, <2>4 DEF UploadInv, CountInv
<1>7. ASSUME NEW u \in Users PROVE Cardinality(Live(u, clock))' <= Cap
  <2>1. PICK n : n = clock /\ n = clock'
      BY DEF Arrive
  <2>2. Live(u, clock)' = Live(u, n)' /\ Live(u, n) = Live(u, clock)
      BY <2>1 DEF Live, Expired
  <2>3. Live(u, clock)' = Live(u, clock)
      BY <1>5, <2>2
  <2> QED BY <2>3 DEF UploadInv, CountInv, CapHolds
<1>8. CountInv'
    BY <1>1, <1>4, <1>6, <1>7 DEF Arrive, UploadInv, CountInv, CapHolds
<1> QED BY <1>2, <1>3, <1>8 DEF UploadInv

\* mint counts under the user's lock, which nobody else of the user holds.
LEMMA CountGrantsKeeps ==
    ASSUME UploadsAssumption, UploadInv, NEW g \in Grants, CountGrants(g) PROVE UploadInv'
<1> DEFINE v == IF Cardinality(Live(Owner[g], stamp[g])) < Cap THEN "counted" ELSE "refused"
<1>1. /\ v \in {"counted", "refused"}
      /\ v = "counted" => Cardinality(Live(Owner[g], stamp[g])) < Cap
      /\ phase[g] = "waiting" /\ Go(g, v) /\ UNCHANGED <<clock, stamp, rows, item, kept>>
    BY DEF CountGrants
<1> HIDE DEF v
<1>2. UploadTypeOK' /\ phase'[g] = v
      /\ (\A x \in (Grants \cup Requests) \ {g} : phase'[x] = phase[x])
      /\ \A q \in Puts : phase'[q] = phase[q]
    BY <1>1, MintTypes DEF UploadInv, UploadTypeOK
<1>3. RedeemInv'
    BY <1>1, <1>2, RedeemedStay DEF Redeeming
<1>4. \A u, n : Live(u, n)' = Live(u, n)
    BY <1>1 DEF Live, Expired
<1>5. ASSUME NEW h \in Grants, phase'[h] = "counted"
      PROVE  Cardinality(Live(Owner[h], stamp[h]))' < Cap
  <2>1. Live(Owner[h], stamp[h])' = Live(Owner[h], stamp[h])
      BY <1>1 DEF Live, Expired
  <2>2. Cardinality(Live(Owner[h], stamp[h])) < Cap
      BY <1>1, <1>2, <1>5 DEF UploadInv, CountInv
  <2> QED BY <2>1, <2>2
<1>6. ASSUME NEW h \in Grants, NEW k \in Grants, phase'[h] = "counted", phase'[k] = "counted",
             Owner[h] = Owner[k]
      PROVE  h = k
  <2>1. \A x \in Grants : Owner[x] = Owner[g] => phase[x] # "counted"
      BY DEF CountGrants, MintLocked
  <2> QED BY <1>2, <1>6, <2>1 DEF UploadInv, CountInv
<1>7. ASSUME NEW u \in Users PROVE Cardinality(Live(u, clock))' <= Cap
  <2>1. Live(u, clock)' = Live(u, clock)
      BY <1>1 DEF Live, Expired
  <2> QED BY <2>1 DEF UploadInv, CountInv, CapHolds
<1>8. CountInv'
    BY <1>1, <1>5, <1>6, <1>7 DEF UploadInv, CountInv, CapHolds
<1> QED BY <1>2, <1>3, <1>8 DEF UploadInv

\* The grant that was counted for is one more at most.
LEMMA GrantKeeps ==
    ASSUME UploadsAssumption, UploadInv, NEW g \in Grants, Grant(g) PROVE UploadInv'
<1>1. /\ phase[g] = "counted" /\ Go(g, "granted") /\ UNCHANGED <<clock, stamp, item, kept>>
      /\ rows' = {h \in rows : ~Expired(h, stamp[g])} \cup {g}
    BY DEF Grant
<1>2. UploadTypeOK' /\ phase'[g] = "granted"
      /\ (\A x \in (Grants \cup Requests) \ {g} : phase'[x] = phase[x])
      /\ \A q \in Puts : phase'[q] = phase[q]
    BY <1>1, MintTypes DEF UploadInv, UploadTypeOK
<1>3. RedeemInv'
  <2>1. ASSUME NEW p \in Puts, Redeeming(p)
        PROVE  item[p] \in Grants /\ phase'[item[p]] = "granted" /\ item[p] \notin rows'
    <3>1. item[p] \in Grants /\ phase[item[p]] = "granted" /\ item[p] \notin rows
        BY <2>1 DEF UploadInv, RedeemInv
    <3> QED BY <1>1, <1>2, <3>1
  <2>2. SingleUse'
      BY <1>1, <1>2 DEF UploadInv, RedeemInv, SingleUse
  <2>3. \A p \in Puts : phase[p] = "idle" => item[p] = none
      BY DEF UploadInv, RedeemInv
  <2> QED BY <1>1, <1>2, <2>1, <2>2, <2>3 DEF RedeemInv, Redeeming
<1>4. IsFiniteSet(rows) /\ IsFiniteSet(rows')
    BY <1>1, FS_Subset, FS_AddElement DEF UploadInv, CountInv
<1>5. /\ clock \in Nat /\ Ttl \in Nat /\ Cap \in Nat
      /\ \A h \in Grants : stamp[h] \in Nat /\ stamp[h] <= clock
      /\ rows \subseteq Grants
    BY DEF UploadInv, UploadTypeOK, CountInv, UploadsAssumption
\* Of another user nothing is added.
<1>6. ASSUME NEW u, u # Owner[g], NEW n PROVE Cardinality(Live(u, n)') <= Cardinality(Live(u, n))
  <2>1. Live(u, n)' \subseteq Live(u, n) /\ Live(u, n) \subseteq rows
      BY <1>1, <1>6 DEF Live, Expired
  <2> QED BY <1>4, <2>1, FS_Subset
<1>7. \A u, n : Cardinality(Live(u, n)) \in Nat /\ Cardinality(Live(u, n)') \in Nat
  <2>1. \A u, n : Live(u, n) \subseteq rows /\ Live(u, n)' \subseteq rows'
      BY DEF Live
  <2> QED BY <1>4, <2>1, FS_Subset, FS_CardinalityType
<1>8. ASSUME NEW h \in Grants, phase'[h] = "counted"
      PROVE  Cardinality(Live(Owner[h], stamp[h]))' < Cap
  <2>1. phase[h] = "counted" /\ Owner[h] # Owner[g]
      BY <1>1, <1>2, <1>8 DEF UploadInv, CountInv
  <2>2. PICK n : n = stamp[h] /\ n = stamp'[h]
      BY <1>1
  <2>3. Live(Owner[h], stamp[h])' = Live(Owner[h], n)' /\ Live(Owner[h], n) = Live(Owner[h], stamp[h])
      BY <2>2 DEF Live, Expired
  <2>4. Cardinality(Live(Owner[h], n)) < Cap
      BY <2>1, <2>3 DEF UploadInv, CountInv
  <2>5. Cardinality(Live(Owner[h], n)') < Cap
      BY <1>5, <1>6, <1>7, <2>1, <2>4
  <2> QED BY <2>3, <2>5
<1>9. ASSUME NEW u \in Users PROVE Cardinality(Live(u, clock))' <= Cap
  <2>1. PICK n \in Nat, m \in Nat : n = clock /\ n = clock' /\ m = stamp[g] /\ m <= n
      BY <1>1, <1>5
  <2>2. Live(u, clock)' = Live(u, n)' /\ Live(u, n) = Live(u, clock)
        /\ Live(Owner[g], m) = Live(Owner[g], stamp[g])
      BY <2>1 DEF Live, Expired
  <2>3. CASE u # Owner[g]
    <3>1. Cardinality(Live(u, n)) <= Cap
        BY <2>2 DEF UploadInv, CountInv, CapHolds
    <3>2. Cardinality(Live(u, n)') <= Cap
        BY <1>5, <1>6, <1>7, <2>3, <3>1
    <3> QED BY <2>2, <3>2
  <2>4. CASE u = Owner[g]
    <3>1. Cardinality(Live(u, m)) < Cap
        BY <1>1, <2>2, <2>4 DEF UploadInv, CountInv
    <3>2. Live(u, n)' \subseteq Live(u, m) \cup {g}
      <4>1. ASSUME NEW h \in rows, ~ (stamp[h] + Ttl < m) PROVE ~ Expired(h, m)
          BY <4>1 DEF Expired
      <4>2. \A h \in rows : ~ Expired(h, stamp[g]) => ~ (stamp[h] + Ttl < m)
          BY <2>1 DEF Expired
      <4> QED BY <1>1, <4>1, <4>2 DEF Live
    <3>3. IsFiniteSet(Live(u, m))
        BY <1>4, FS_Subset DEF Live
    <3>4. IsFiniteSet(Live(u, m) \cup {g})
          /\ Cardinality(Live(u, m) \cup {g}) <= Cardinality(Live(u, m)) + 1
      <4>1. IsFiniteSet(Live(u, m) \cup {g})
          BY <3>3, FS_AddElement
      <4>2. Cardinality(Live(u, m)) \in Nat
          BY <3>3, FS_CardinalityType
      <4>3. CASE g \in Live(u, m)
        <5>1. Live(u, m) \cup {g} = Live(u, m)
            BY <4>3
        <5>2. Cardinality(Live(u, m) \cup {g}) = Cardinality(Live(u, m))
            BY <5>1, Zenon
        <5> QED BY <4>1, <4>2, <5>2
      <4>4. CASE g \notin Live(u, m)
        <5>1. Cardinality(Live(u, m) \cup {g}) = Cardinality(Live(u, m)) + 1
            BY <3>3, <4>4, FS_AddElement
        <5> QED BY <4>1, <4>2, <5>1
      <4> QED BY <4>3, <4>4
    <3>5. Cardinality(Live(u, m) \cup {g}) \in Nat
        BY <3>4, FS_CardinalityType
    <3>6. Cardinality(Live(u, n)') <= Cardinality(Live(u, m) \cup {g})
        BY <3>2, <3>4, FS_Subset
    <3>7. Cardinality(Live(u, n)') <= Cap
        BY <1>5, <1>7, <3>1, <3>4, <3>5, <3>6
    <3> QED BY <2>2, <3>7
  <2> QED BY <2>3, <2>4
<1>10. CountInv'
  <2>1. \A h, k \in Grants : /\ phase'[h] = "counted" /\ phase'[k] = "counted" /\ Owner[h] = Owner[k]
                             => h = k
      BY <1>2 DEF UploadInv, CountInv
  <2> QED BY <1>1, <1>4, <1>5, <1>8, <1>9, <2>1 DEF CountInv, CapHolds
<1> QED BY <1>2, <1>3, <1>10 DEF UploadInv

-----------------------------------------------------------------------------
\* Nothing is granted or redeemed when the program starts.
LEMMA UploadInitStands == ASSUME UploadsAssumption, UploadInit PROVE UploadInv
<1>1. /\ rows = {} /\ clock = 0 /\ kept = {}
      /\ phase = [x \in Grants \cup Requests |-> "idle"] /\ stamp = [g \in Grants |-> 0]
      /\ item = [r \in Requests |-> IF r \in Uris THEN r ELSE none]
    BY DEF UploadInit
<1>2. UploadTypeOK
  <2>1. item \in [Requests -> Items \cup {none}]
      BY <1>1 DEF Items
  <2>2. kept = {r \in Requests : phase[r] = "kept"}
      BY <1>1
  <2>3. LastTick \in Nat
      BY DEF UploadsAssumption
  <2> QED BY <1>1, <2>1, <2>2, <2>3 DEF UploadTypeOK
<1>3. RedeemInv
  <2>1. \A p \in Puts : phase[p] = "idle" /\ item[p] = none
      BY <1>1 DEF UploadsAssumption, Requests
  <2> QED BY <2>1 DEF RedeemInv, Redeeming, SingleUse
<1>4. CountInv
  <2>1. \A u, n : Live(u, n) = {}
      BY <1>1 DEF Live
  <2>2. \A g \in Grants : phase[g] = "idle" /\ stamp[g] = 0
      BY <1>1
  <2>3. IsFiniteSet(rows)
      BY <1>1, FS_EmptySet
  <2>4. CapHolds
    <3>1. Cardinality({}) = 0
        BY FS_EmptySet
    <3> QED BY <2>1, <3>1 DEF CapHolds, UploadsAssumption
  <2>5. \A g \in Grants : stamp[g] <= clock
      BY <1>1, <2>2
  <2>6. \A g \in Grants : phase[g] # "counted"
      BY <2>2
  <2> QED BY <2>3, <2>4, <2>5, <2>6, Zenon DEF CountInv
<1> QED BY <1>2, <1>3, <1>4 DEF UploadInv

\* Every step keeps the invariant, action by action.
LEMMA UploadNextStands ==
    ASSUME UploadsAssumption, UploadInv, [UploadNext]_uploadVars PROVE UploadInv'
<1>1. CASE UNCHANGED uploadVars
  <2>1. UploadTypeOK'
      BY <1>1 DEF uploadVars, UploadInv, UploadTypeOK
  <2>2. RedeemInv'
      BY <1>1, RedeemedStay DEF uploadVars, Redeeming
  <2>3. CountInv'
      BY <1>1, CountsStay DEF uploadVars, UploadInv, UploadTypeOK, UploadsAssumption
  <2> QED BY <2>1, <2>2, <2>3 DEF UploadInv
<1> QED BY <1>1, TickKeeps, ArriveKeeps, CountGrantsKeeps, GrantKeeps, ClaimGrantKeeps,
           HandleKeeps DEF UploadNext, Mint

\* What a request redeems is gone for good, and live grants are within the
\* cap and counted by one mint call at a time.
THEOREM UploadsStand == ASSUME UploadsAssumption PROVE UploadSpec => []UploadInv
<1>1. UploadInit => UploadInv
    BY UploadInitStands
<1>2. UploadInv /\ [UploadNext]_uploadVars => UploadInv'
    BY UploadNextStands
<1> QED BY <1>1, <1>2, PTL DEF UploadSpec

\* No two PUTs take one grant, for any number of grants, requests and users.
THEOREM RedemptionIsSingle == ASSUME UploadsAssumption PROVE UploadSpec => []SingleUse
<1>1. UploadInv => SingleUse
    BY DEF UploadInv, RedeemInv
<1> QED BY <1>1, UploadsStand, PTL

\* No user ever holds more live grants than the cap, however mints race.
THEOREM LiveGrantsCapped == ASSUME UploadsAssumption PROVE UploadSpec => []CapHolds
<1>1. UploadInv => CapHolds
    BY DEF UploadInv, CountInv
<1> QED BY <1>1, UploadsStand, PTL
-----------------------------------------------------------------------------
(***************************************************************************)
(* Proofs: transactions do not wait in a circle, when their acquire_locks  *)
(* calls ascend but for keys each takes behind a guard.  Every ordered key *)
(* a transaction holds lies below every ordered key it still wants; and    *)
(* whoever asks for a guarded key has its guard to itself.                 *)
(***************************************************************************)
Reached(t) == \A k \in held[t] : \E m \in 1..Len(Calls[t]) :
                  m <= stage[t] /\ k \in Calls[t][m]
Below(t, order, keys) ==
    Running(t) => \A j \in held[t] \cap keys : \A k \in Awaited(t) \cap keys :
                      order[j] < order[k]

LockInv(order, keys) ==
    /\ LockTypeOK
    /\ \A t \in Transactions : Reached(t) /\ Below(t, order, keys)

\* Each call of a transaction names a set of keys.
LEMMA TypesOfCalls ==
    ASSUME LocksAssumption, NEW t \in Transactions
    PROVE  /\ Len(Calls[t]) \in Nat
           /\ \A n \in 1..Len(Calls[t]) : Calls[t][n] \in SUBSET LockKey
BY LocksAssumption DEF LocksAssumption

\* Every set of naturals that is not empty has a least element.
LEMMA LeastOf ==
    ASSUME NEW T \in SUBSET Nat, T # {}
    PROVE  \E n \in T : \A m \in T : n <= m
<1> DEFINE R == OpToRel(<, Nat)
<1>1. PICK n \in T : \A m \in T : <<m, n>> \notin R
  <2>1. IsWellFoundedOn(R, Nat)
      BY NatLessThanWellFounded
  <2> QED BY <2>1, WFMin
<1>2. \A m \in T : ~(m < n)
    BY <1>1 DEF OpToRel
<1> QED BY <1>2

\* The program starts in a well-typed state.
LEMMA LockTypeInit == ASSUME LocksAssumption PROVE LockInit => LockTypeOK
<1> SUFFICES ASSUME LockInit PROVE LockTypeOK
    OBVIOUS
<1>1. \A t \in Transactions : stage[t] = 1 /\ held[t] = {}
    BY DEF LockInit
<1> QED BY <1>1, TypesOfCalls DEF LockInit, LockTypeOK

\* Every step keeps the types.
LEMMA TypeStep ==
    ASSUME LocksAssumption, LockTypeOK, [LockNext]_lockVars PROVE LockTypeOK'
<1>1. CASE UNCHANGED lockVars
    BY <1>1 DEF LockTypeOK, lockVars
<1>2. ASSUME NEW t \in Transactions, Take(t) PROVE LockTypeOK'
    BY <1>2, TypesOfCalls DEF LockTypeOK, Take, Running
<1>3. ASSUME NEW t \in Transactions, Return(t) PROVE LockTypeOK'
    BY <1>3, TypesOfCalls DEF LockTypeOK, Return, Running
<1>4. ASSUME NEW t \in Transactions, End(t) PROVE LockTypeOK'
    BY <1>4, TypesOfCalls DEF LockTypeOK, End
<1> QED BY <1>1, <1>2, <1>3, <1>4 DEF LockNext, Step

\* A transaction's locks are of its calls and gone after its end, whatever the
\* calls of the others are (LockTypeOK of the runs).
THEOREM LockTypeCorrect == ASSUME LocksAssumption PROVE LockSpec => []LockTypeOK
<1>1. LockInit => LockTypeOK
    BY LockTypeInit
<1>2. LockTypeOK /\ [LockNext]_lockVars => LockTypeOK'
    BY TypeStep
<1> QED BY <1>1, <1>2, PTL DEF LockSpec

\* Nobody holds or waits when the program starts.
LEMMA LockInvInit ==
    ASSUME LocksAssumption, NEW order, NEW keys PROVE LockInit => LockInv(order, keys)
BY LockTypeInit DEF LockInit, LockInv, Reached, Below

\* The steps of one transaction leave the others' parts alone.
LEMMA TakeKeeps ==
    ASSUME LocksAssumption, NEW order, NEW keys, GlobalOrder(order, keys),
           LockInv(order, keys), NEW t \in Transactions, Take(t)
    PROVE  LockInv(order, keys)'
<1>0. LockTypeOK'
    BY TypeStep DEF LockInv, LockNext, Step
<1>1. PICK k \in LockKey : NextKey(t, k) /\ held' = [held EXCEPT ![t] = @ \cup {k}]
    BY DEF Take
<1>2. stage' = stage /\ Running(t) /\ stage[t] \in 1..Len(Calls[t])
    BY TypesOfCalls DEF Take, LockInv, LockTypeOK, Running
<1>3. k \in Calls[t][stage[t]] /\ held'[t] = held[t] \cup {k}
    BY <1>1 DEF NextKey, Awaited, LockInv, LockTypeOK
<1>4. ASSUME NEW u \in Transactions, u # t PROVE Reached(u)' /\ Below(u, order, keys)'
    BY <1>1, <1>2, <1>4 DEF LockInv, LockTypeOK, Reached, Below, Running, Awaited
<1>5. Reached(t)'
    BY <1>2, <1>3 DEF LockInv, LockTypeOK, Reached
<1>6. Below(t, order, keys)'
  <2>1. SUFFICES ASSUME NEW j \in held'[t] \cap keys, NEW l \in Awaited(t)' \cap keys
                 PROVE  order[j] < order[l]
      BY DEF Below
  <2>2. l \in Awaited(t) /\ l # k /\ l \in LockKey
      BY <1>2, <1>3, TypesOfCalls DEF Awaited
  <2>3. CASE j = k
    <3>1. l \in Awaited(t) /\ l \in Calls[t][stage[t]] /\ Rank[k] < Rank[l]
        BY <2>2, <1>1, LocksAssumption DEF LocksAssumption, NextKey, Awaited
    <3>2. k \in Calls[t][stage[t]] \cap keys /\ l \in Calls[t][stage[t]] \cap keys /\ k # l
        BY <2>1, <2>2, <2>3, <3>1, <1>3
    <3> QED BY <3>1, <3>2, <2>3, <1>2 DEF GlobalOrder
  <2>4. CASE j \in held[t]
      BY <2>2, <2>4, <1>2 DEF LockInv, Below
  <2> QED BY <2>3, <2>4, <1>3
<1> QED BY <1>0, <1>4, <1>5, <1>6 DEF LockInv

\* The next call asks for keys above all that is held, in a global order.
LEMMA ReturnKeeps ==
    ASSUME LocksAssumption, NEW order, NEW keys, GlobalOrder(order, keys),
           LockInv(order, keys), NEW t \in Transactions, Return(t)
    PROVE  LockInv(order, keys)'
<1>0. LockTypeOK'
    BY TypeStep DEF LockInv, LockNext, Step
<1>1. /\ held' = held
      /\ stage[t] \in 1..Len(Calls[t])
      /\ stage'[t] = stage[t] + 1
      /\ \A u \in Transactions \ {t} : stage'[u] = stage[u]
    BY TypesOfCalls DEF Return, LockInv, LockTypeOK, Running
<1>2. ASSUME NEW u \in Transactions, u # t PROVE Reached(u)' /\ Below(u, order, keys)'
    BY <1>1, <1>2 DEF LockInv, Reached, Below, Running, Awaited
<1>3. Reached(t)'
    BY <1>1, TypesOfCalls DEF LockInv, Reached
<1>4. Below(t, order, keys)'
  <2>1. SUFFICES ASSUME Running(t)', NEW j \in held[t] \cap keys,
                        NEW l \in Awaited(t)' \cap keys
                 PROVE  order[j] < order[l]
      BY <1>1 DEF Below, Awaited
  <2>2. stage'[t] \in 1..Len(Calls[t])
      BY <2>1, <1>1, TypesOfCalls DEF Running
  <2>3. PICK m \in 1..Len(Calls[t]) : m <= stage[t] /\ j \in Calls[t][m]
      BY DEF LockInv, Reached
  <2>4. m < stage'[t]
      BY <2>3, <1>1, TypesOfCalls
  <2>5. l \in Calls[t][stage'[t]] /\ j # l
      BY <2>1, <1>1 DEF Awaited
  <2> QED BY <2>1, <2>2, <2>3, <2>4, <2>5 DEF GlobalOrder
<1> QED BY <1>0, <1>2, <1>3, <1>4 DEF LockInv

\* A transaction that ends lets go of all it holds.
LEMMA EndStep ==
    ASSUME LocksAssumption, NEW order, NEW keys, LockInv(order, keys), NEW t \in Transactions, End(t)
    PROVE  LockInv(order, keys)'
<1>0. LockTypeOK'
    BY TypeStep DEF LockInv, LockNext, Step
<1>1. held'[t] = {}
    BY DEF End, LockInv, LockTypeOK
<1>2. ASSUME NEW u \in Transactions, u # t PROVE Reached(u)' /\ Below(u, order, keys)'
    BY <1>2 DEF End, LockInv, LockTypeOK, Reached, Below, Running, Awaited
<1>3. Reached(t)' /\ Below(t, order, keys)'
    BY <1>1 DEF Reached, Below
<1> QED BY <1>0, <1>2, <1>3 DEF LockInv

\* Every step keeps what is held below what is waited for.
LEMMA InvStep ==
    ASSUME LocksAssumption, NEW order, NEW keys, GlobalOrder(order, keys), LockInv(order, keys), [LockNext]_lockVars
    PROVE  LockInv(order, keys)'
<1>1. CASE UNCHANGED lockVars
    BY <1>1 DEF lockVars, LockInv, LockTypeOK, Reached, Below, Running, Awaited
<1>2. CASE LockNext
    BY <1>2, TakeKeeps, ReturnKeeps, EndStep DEF LockNext, Step
<1> QED BY <1>1, <1>2

\* In such a state every wait goes from a lower key to a higher one.
LEMMA RiseFromInv ==
    ASSUME LocksAssumption, NEW order, NEW keys \in SUBSET LockKey, LockInv(order, keys)
    PROVE  RiseIn(order, keys)
<1> SUFFICES ASSUME NEW t \in Transactions, NEW u \in Transactions, WaitsFor(t, u),
                    NEW j \in keys, NEW k \in keys,
                    NextKey(t, j), Running(u), NextKey(u, k)
             PROVE  order[j] < order[k]
    BY DEF RiseIn
<1>1. PICK h \in held[u] : NextKey(t, h)
    BY DEF WaitsFor
<1>2. h \in LockKey
    BY DEF LockInv, LockTypeOK
<1>3. j = h
    BY <1>1, <1>2, LocksAssumption DEF LocksAssumption, NextKey
<1>4. order[h] < order[k]
    BY <1>1, <1>3 DEF LockInv, Below, NextKey
<1> QED BY <1>3, <1>4

\* If every transaction's calls ascend among the sorted strings, as the single
\* calls of a graph write or a RAPTOR build do, a transaction always waits for a
\* key below the next key of whoever holds it.
THEOREM WaitsRise ==
    ASSUME LocksAssumption, GlobalOrder(Rank, LockKey) PROVE LockSpec => []KeysRise
<1>1. LockInit => LockInv(Rank, LockKey)
    BY LockInvInit
<1>2. LockInv(Rank, LockKey) /\ [LockNext]_lockVars => LockInv(Rank, LockKey)'
    BY InvStep
<1>3. LockInv(Rank, LockKey) => KeysRise
    BY RiseFromInv DEF KeysRise
<1> QED BY <1>1, <1>2, <1>3, PTL DEF LockSpec

\* Two transactions hold no key in common, and a transaction holds what its
\* finished calls named.
Passed(t) ==
    stage[t] <= Len(Calls[t]) + 1 =>
        \A m \in 1..Len(Calls[t]) : m < stage[t] => Calls[t][m] \subseteq held[t]
HeldInv ==
    /\ LockTypeOK
    /\ \A t, u \in Transactions : t # u => held[t] \cap held[u] = {}
    /\ \A t \in Transactions : Reached(t) /\ Passed(t)

\* Nothing is held when the program starts, and no call is finished.
LEMMA HeldInvInit == ASSUME LocksAssumption PROVE LockInit => HeldInv
<1> SUFFICES ASSUME LockInit PROVE HeldInv
    OBVIOUS
<1>1. LockTypeOK
    BY LockTypeInit
<1>2. \A t \in Transactions : stage[t] = 1 /\ held[t] = {}
    BY DEF LockInit
<1> QED BY <1>1, <1>2 DEF HeldInv, Reached, Passed

\* A key is taken when nobody else holds it; a call returns with all its keys;
\* the end of a transaction gives all of them back.
LEMMA HeldInvStep ==
    ASSUME LocksAssumption, HeldInv, [LockNext]_lockVars PROVE HeldInv'
<1>0. LockTypeOK'
    BY TypeStep DEF HeldInv
<1>1. CASE UNCHANGED lockVars
    BY <1>0, <1>1 DEF HeldInv, Reached, Passed, lockVars
<1>2. ASSUME NEW t \in Transactions, Take(t) PROVE HeldInv'
  <2>1. PICK k \in LockKey : NextKey(t, k) /\ (\A u \in Transactions \ {t} : k \notin held[u])
                             /\ held' = [held EXCEPT ![t] = @ \cup {k}]
      BY <1>2 DEF Take
  <2>2. /\ stage' = stage
        /\ stage[t] \in 1..Len(Calls[t]) /\ k \in Calls[t][stage[t]]
        /\ held'[t] = held[t] \cup {k}
        /\ \A u \in Transactions \ {t} : held'[u] = held[u]
      BY <1>2, <2>1, TypesOfCalls DEF Take, HeldInv, LockTypeOK, Running, NextKey, Awaited
  <2>3. \A u, v \in Transactions : u # v => held'[u] \cap held'[v] = {}
      BY <2>1, <2>2 DEF HeldInv
  <2>4. \A u \in Transactions : Reached(u)'
      BY <2>2 DEF HeldInv, Reached
  <2>5. \A u \in Transactions : Passed(u)'
    <3>1. TAKE u \in Transactions
    <3>2. held[u] \subseteq held'[u] /\ stage'[u] = stage[u] /\ Passed(u)
        BY <2>2 DEF HeldInv
    <3> QED BY <3>2 DEF Passed
  <2> QED BY <1>0, <2>3, <2>4, <2>5 DEF HeldInv
<1>3. ASSUME NEW t \in Transactions, Return(t) PROVE HeldInv'
  <2>1. /\ held' = held
        /\ stage[t] \in 1..Len(Calls[t])
        /\ stage'[t] = stage[t] + 1
        /\ Calls[t][stage[t]] \subseteq held[t]
        /\ \A u \in Transactions \ {t} : stage'[u] = stage[u]
      BY <1>3, TypesOfCalls DEF Return, HeldInv, LockTypeOK, Running, Awaited
  <2>2. \A u \in Transactions : Reached(u)'
      BY <2>1, TypesOfCalls DEF HeldInv, Reached
  <2>3. \A u \in Transactions : Passed(u)'
    <3>1. TAKE u \in Transactions
    <3>2. CASE u = t
      <4>1. SUFFICES ASSUME NEW m \in 1..Len(Calls[t]), m < stage[t] + 1
                     PROVE  Calls[t][m] \subseteq held[t]
          BY <2>1, <3>2 DEF Passed
      <4>2. CASE m = stage[t]
          BY <4>2, <2>1
      <4>3. CASE m # stage[t]
        <5>1. m < stage[t] /\ stage[t] <= Len(Calls[t]) + 1
            BY <4>1, <4>3, <2>1, TypesOfCalls
        <5> QED BY <5>1 DEF HeldInv, Passed
      <4> QED BY <4>2, <4>3
    <3>3. CASE u # t
        BY <3>3, <2>1 DEF HeldInv, Passed
    <3> QED BY <3>2, <3>3
  <2> QED BY <1>0, <2>1, <2>2, <2>3 DEF HeldInv
<1>4. ASSUME NEW t \in Transactions, End(t) PROVE HeldInv'
  <2>1. /\ held'[t] = {} /\ stage'[t] = Len(Calls[t]) + 2
        /\ \A u \in Transactions \ {t} : held'[u] = held[u] /\ stage'[u] = stage[u]
      BY <1>4, TypesOfCalls DEF End, HeldInv, LockTypeOK
  <2>2. \A u, v \in Transactions : u # v => held'[u] \cap held'[v] = {}
      BY <2>1 DEF HeldInv
  <2>3. ASSUME NEW u \in Transactions PROVE Reached(u)' /\ Passed(u)'
    <3>1. CASE u = t
        BY <3>1, <2>1, TypesOfCalls DEF Reached, Passed
    <3>2. CASE u # t
        BY <3>2, <2>1 DEF HeldInv, Reached, Passed
    <3> QED BY <3>1, <3>2
  <2> QED BY <1>0, <2>2, <2>3 DEF HeldInv
<1> QED BY <1>1, <1>2, <1>3, <1>4 DEF LockNext, Step

\* Nobody waits for a guarded key: whoever holds it holds its guard too, which
\* the one that asks for it has to itself.
WaitsAmong(keys) ==
    \A t, u \in Transactions : WaitsFor(t, u) =>
        \A k \in LockKey : NextKey(t, k) => k \in keys

LEMMA GuardedUncontended ==
    ASSUME LocksAssumption, NEW guard, Guarded(guard), HeldInv
    PROVE  WaitsAmong(LockKey \ DOMAIN guard)
<1> SUFFICES ASSUME NEW t \in Transactions, NEW u \in Transactions, WaitsFor(t, u),
                    NEW k \in LockKey, NextKey(t, k), k \in DOMAIN guard
             PROVE  FALSE
    BY DEF WaitsAmong
<1>1. t # u /\ Running(t) /\ k \in held[u]
  <2>1. PICK h \in held[u] : NextKey(t, h)
      BY DEF WaitsFor
  <2>2. h \in LockKey
      BY DEF HeldInv, LockTypeOK
  <2>3. h = k
      BY <2>1, <2>2, LocksAssumption DEF LocksAssumption, NextKey
  <2> QED BY <2>3 DEF WaitsFor
<1>2. stage[t] \in 1..Len(Calls[t]) /\ k \in Calls[t][stage[t]]
    BY <1>1, TypesOfCalls DEF HeldInv, LockTypeOK, Running, NextKey, Awaited
<1>3. guard[k] \in held[t]
  <2>1. PICK m \in 1..Len(Calls[t]) : m < stage[t] /\ guard[k] \in Calls[t][m]
      BY <1>2 DEF Guarded
  <2>2. stage[t] <= Len(Calls[t]) + 1
      BY <1>2, TypesOfCalls
  <2> QED BY <2>1, <2>2 DEF HeldInv, Passed
<1>4. guard[k] \in held[u]
  <2>1. PICK n \in 1..Len(Calls[u]) : n <= stage[u] /\ k \in Calls[u][n]
      BY <1>1 DEF HeldInv, Reached
  <2>2. PICK m \in 1..Len(Calls[u]) : m < n /\ guard[k] \in Calls[u][m]
      BY <2>1 DEF Guarded
  <2>3. stage[u] \in 1..(Len(Calls[u]) + 2) /\ stage[u] # Len(Calls[u]) + 2
      BY <1>1 DEF HeldInv, LockTypeOK
  <2>4. stage[u] <= Len(Calls[u]) + 1 /\ m < stage[u]
      BY <2>1, <2>2, <2>3, TypesOfCalls
  <2> QED BY <2>2, <2>4 DEF HeldInv, Passed
<1> QED BY <1>1, <1>3, <1>4 DEF HeldInv

\* A rising chain of waits does not close: of the transactions of a circle, the
\* one whose next key ranks highest waits for none of them.
LEMMA NoCircle ==
    ASSUME LocksAssumption, NEW order \in [LockKey -> Nat], NEW keys \in SUBSET LockKey,
           RiseIn(order, keys), WaitsAmong(keys), LockTypeOK, NEW B \in Nat,
           \A k \in LockKey : order[k] <= B
    PROVE  NoCircularWait
<1> SUFFICES ASSUME NEW S \in (SUBSET Transactions) \ {{}},
                    \A t \in S : \E u \in S : WaitsFor(t, u)
             PROVE  FALSE
    BY DEF NoCircularWait
<1> DEFINE Gaps == {n \in Nat : \E t \in S : \E k \in keys :
                        Running(t) /\ NextKey(t, k) /\ n = B - order[k]}
<1>1. ASSUME NEW t \in S PROVE \E k \in keys : Running(t) /\ NextKey(t, k)
  <2>1. t \in Transactions /\ \E u \in S : WaitsFor(t, u)
      BY <1>1
  <2>2. Running(t) /\ \E k \in UNION {held[u] : u \in Transactions} : NextKey(t, k)
      BY <2>1 DEF WaitsFor
  <2>3. UNION {held[u] : u \in Transactions} \subseteq LockKey
      BY DEF LockTypeOK
  <2> QED BY <2>1, <2>2, <2>3 DEF WaitsAmong
<1>2. Gaps # {}
  <2>1. PICK t \in S : TRUE
      OBVIOUS
  <2>2. PICK k \in keys : Running(t) /\ NextKey(t, k)
      BY <1>1
  <2>3. B - order[k] \in Nat
      OBVIOUS
  <2>4. B - order[k] \in Gaps
      BY <2>2, <2>3
  <2> QED BY <2>4
<1>3. PICK n \in Gaps : \A m \in Gaps : n <= m
    BY <1>2, LeastOf
<1>4. PICK t \in S, k \in keys : Running(t) /\ NextKey(t, k) /\ n = B - order[k]
    BY <1>3
<1>5. PICK u \in S : WaitsFor(t, u)
    BY <1>4
<1>6. PICK l \in keys : Running(u) /\ NextKey(u, l)
    BY <1>1
<1>7. order[k] < order[l]
    BY <1>4, <1>5, <1>6 DEF RiseIn
<1>8. B - order[l] \in Nat /\ B - order[l] < n
  <2>1. order[k] \in Nat /\ order[l] \in Nat /\ order[l] <= B /\ n = B - order[k]
      BY <1>4
  <2> QED BY <2>1, <1>7
<1>9. B - order[l] \in Gaps
    BY <1>6, <1>8
<1> QED BY <1>3, <1>8, <1>9

\* Hence no circular wait, for any number of transactions and of keys, when the
\* calls ascend in one order but for keys taken behind a guard: what promote.py
\* promises of batches in opposite document order, whose documents and artifacts
\* are ordered and whose finer lock per document is behind the artifact's.  The
\* premise fails where that lock is not the artifact's own (promote.py:124) and
\* for ingested batches of several documents (ingest.py:188).
THEOREM NoDeadlock ==
    ASSUME LocksAssumption, NEW order, NEW guard, Guarded(guard),
           GlobalOrder(order, LockKey \ DOMAIN guard),
           NEW B \in Nat, \A k \in LockKey : order[k] <= B
    PROVE  LockSpec => []NoCircularWait
<1> DEFINE keys == LockKey \ DOMAIN guard
<1>1. LockInit => LockInv(order, keys) /\ HeldInv
    BY LockInvInit, HeldInvInit
<1>2. LockInv(order, keys) /\ HeldInv /\ [LockNext]_lockVars => (LockInv(order, keys) /\ HeldInv)'
    BY InvStep, HeldInvStep
<1>3. LockInv(order, keys) /\ HeldInv => NoCircularWait
  <2>1. HeldInv => WaitsAmong(keys) /\ LockTypeOK
      BY GuardedUncontended DEF HeldInv
  <2>2. order \in [LockKey -> Nat]
      BY DEF GlobalOrder
  <2>3. LockInv(order, keys) => RiseIn(order, keys)
      BY RiseFromInv
  <2> QED BY <2>1, <2>2, <2>3, NoCircle
<1> QED BY <1>1, <1>2, <1>3, PTL DEF LockSpec
-----------------------------------------------------------------------------
(* Proofs.  A content id has one runner, whose row nobody else promotes    *)
(* into: what a run has learned of its row stays true until it ends.       *)

\* The queue's slot: a run has the picked row of its content to itself.
RunsAlone ==
  /\ \A w \in Worker : run[w] # NoRun => job[run[w].content].status = "picked"
  /\ \A v, w \in Worker :
       run[v] # NoRun /\ run[w] # NoRun /\ run[v].content = run[w].content => v = w

\* A row by itself: what is promoted was indexed before.
RowStands(c) ==
  /\ state[c] = "ready" => markdown[c] # NoValue
  /\ state[c] = "unreadable" => markdown[c] = NoValue
  /\ markdown[c] # NoValue => document # NoDocument

\* A run and its row.  `seen` is the production text the run compares with,
\* until it promotes its own; a run that raises has one to go back to unless
\* it is about to fail the revision.
SeenStands(w) ==
  LET c == run[w].content IN
  /\ run[w].seen # NoValue => markdown[c] # NoValue
  /\ run[w].pc \in {"convert", "record", "plan", "store", "promote"} /\ ~ run[w].raises
       => markdown[c] = run[w].seen
  /\ run[w].pc \in {"load", "convert", "record", "plan", "store", "promote", "quarantine", "settle"}
       => state[c] # "unreadable"
VerdictStands(w) ==
  LET c == run[w].content IN
  /\ run[w].verdict = "unreadable" => markdown[c] = NoValue /\ run[w].seen = NoValue
  /\ run[w].pc \in {"plan", "store", "promote", "quarantine", "settle"} => run[w].verdict # "none"
  /\ run[w].pc = "settle" /\ run[w].verdict = "ready" => markdown[c] # NoValue
  /\ run[w].pc = "promote" => run[w].verdict = "ready"
  /\ run[w].pc = "quarantine" => run[w].seen # NoValue
  /\ run[w].pc \in {"plan", "store"} /\ run[w].raises => run[w].seen # NoValue
  /\ run[w].pc \in {"begin", "load", "convert", "record", "promote"} => ~ run[w].raises
CandidateStands(w) ==
  LET c == run[w].content IN
  /\ \/ run[w].pc \in {"plan", "store"} /\ run[w].verdict = "ready" /\ ~ run[w].raises
     \/ run[w].pc = "promote"
     => run[w].tried /\ candidate[c] = [text |-> run[w].text, policy |-> run[w].policy]
  /\ run[w].pc = "promote" => document # NoDocument
  /\ run[w].pc = "store" /\ run[w].plan \in {"same", "metadata"} => document # NoDocument
RunStands(w) == SeenStands(w) /\ VerdictStands(w) /\ CandidateStands(w)

LifecycleInv ==
  /\ ArtifactTypeOK
  /\ RunsAlone
  /\ \A c \in Content : RowStands(c)
  /\ \A w \in Worker : run[w] # NoRun => RunStands(w)
-----------------------------------------------------------------------------
\* A run under way is a typed record, of a job that has been picked.
LEMMA RunningTyped ==
    ASSUME ArtifactTypeOK, NEW w \in Worker, run[w] # NoRun \/ run[w].pc # "idle"
    PROVE  run[w] \in Run /\ run[w] # NoRun /\ run[w].content \in Content /\ run[w].pc # "idle"
<1>1. run[w] \in Run \cup {NoRun}
    BY DEF ArtifactTypeOK
<1>2. run[w] # NoRun
    BY DEF NoRun
<1>3. run[w] \in Run
    BY <1>1, <1>2
<1> QED BY <1>2, <1>3 DEF Run

\* What other actors do leaves a run as it stands.
LEMMA OthersStand ==
    ASSUME NEW w \in Worker, RunStands(w), run'[w] = run[w],
           markdown'[run[w].content] = markdown[run[w].content],
           candidate'[run[w].content] = candidate[run[w].content],
           \/ state'[run[w].content] = state[run[w].content]
           \/ state'[run[w].content] # "unreadable",
           document # NoDocument => document' # NoDocument
    PROVE  RunStands(w)'
<1>1. SeenStands(w)'
    BY DEF RunStands, SeenStands
<1>2. VerdictStands(w)'
    BY DEF RunStands, VerdictStands
<1>3. CandidateStands(w)'
    BY DEF RunStands, CandidateStands
<1> QED BY <1>1, <1>2, <1>3 DEF RunStands

\* A step of the intake, the queue, the operator or a sweep.
LEMMA OutsideStep ==
    ASSUME LifecycleInv, ArtifactTypeOK', UNCHANGED <<markdown, candidate, document, run>>,
           \A c \in Content : state'[c] = state[c] \/ state'[c] \in {"pending", "queued"},
           \A w \in Worker : run[w] # NoRun => job'[run[w].content].status = "picked"
    PROVE  LifecycleInv'
<1>1. RunsAlone'
    BY DEF LifecycleInv, RunsAlone
<1>2. ASSUME NEW c \in Content PROVE RowStands(c)'
    BY DEF LifecycleInv, RowStands
<1>3. ASSUME NEW w \in Worker, run'[w] # NoRun PROVE RunStands(w)'
  <2>1. run[w] # NoRun /\ RunStands(w) /\ run[w].content \in Content
      BY <1>3, RunningTyped DEF LifecycleInv
  <2> QED BY <2>1, OthersStand
<1> QED BY <1>1, <1>2, <1>3 DEF LifecycleInv

\* A step of one run, which touches no row but its own.
LEMMA RunStep ==
    ASSUME LifecycleInv, ArtifactTypeOK', NEW w \in Worker, NEW c \in Content,
           run[w] # NoRun, run[w].content = c,
           \A v \in Worker \ {w} : run'[v] = run[v],
           \A d \in Content \ {c} :
              /\ state'[d] = state[d] /\ markdown'[d] = markdown[d]
              /\ candidate'[d] = candidate[d] /\ job'[d].status = job[d].status,
           document # NoDocument => document' # NoDocument,
           run'[w] # NoRun => /\ run'[w].content = c
                              /\ job'[c].status = "picked"
                              /\ RunStands(w)',
           RowStands(c)'
    PROVE  LifecycleInv'
<1>1. ASSUME NEW v \in Worker \ {w}, run[v] # NoRun
      PROVE  run[v].content \in Content \ {c}
    BY <1>1, RunningTyped DEF LifecycleInv, RunsAlone
<1>2. RunsAlone'
  <2>1. ASSUME NEW v \in Worker, run'[v] # NoRun PROVE job'[run'[v].content].status = "picked"
      BY <2>1, <1>1 DEF LifecycleInv, RunsAlone
  <2>2. ASSUME NEW u \in Worker, NEW v \in Worker, run'[u] # NoRun, run'[v] # NoRun,
               run'[u].content = run'[v].content
        PROVE  u = v
      BY <2>2, <1>1 DEF LifecycleInv, RunsAlone
  <2> QED BY <2>1, <2>2 DEF RunsAlone
<1>3. ASSUME NEW d \in Content PROVE RowStands(d)'
  <2>1. CASE d = c
      BY <2>1
  <2>2. CASE d # c
      BY <2>2 DEF LifecycleInv, RowStands
  <2> QED BY <2>1, <2>2
<1>4. ASSUME NEW v \in Worker, run'[v] # NoRun PROVE RunStands(v)'
  <2>1. CASE v = w
      BY <2>1, <1>4
  <2>2. CASE v # w
    <3>1. run'[v] = run[v] /\ run[v] # NoRun /\ RunStands(v)
        BY <2>2, <1>4 DEF LifecycleInv
    <3>2. run[v].content \in Content \ {c}
        BY <3>1, <2>2, <1>1
    <3>3. /\ markdown'[run[v].content] = markdown[run[v].content]
          /\ candidate'[run[v].content] = candidate[run[v].content]
          /\ state'[run[v].content] = state[run[v].content]
        BY <3>2
    <3> QED BY <3>1, <3>3, OthersStand
  <2> QED BY <2>1, <2>2
<1> QED BY <1>2, <1>3, <1>4 DEF LifecycleInv
-----------------------------------------------------------------------------
(* The steps around the runs.                                              *)

\* The job of a content id is a typed record or none.
LEMMA JobTyped ==
    ASSUME ArtifactTypeOK, NEW c \in Content, job[c].status # "none"
    PROVE  job[c] \in Job
BY DEF ArtifactTypeOK, NoJob

\* Putting retained conversions back leaves the picked rows alone.
LEMMA RequeueKeeps ==
    ASSUME ArtifactTypeOK, RequeueHeld
    PROVE  /\ job' \in [Content -> Job \cup {NoJob}]
           /\ \A c \in Content : job[c].status = "picked" => job'[c].status = "picked"
<1>1. ASSUME NEW c \in Held PROVE job[c] \in Job /\ [job[c] EXCEPT !.status = "queued"] \in Job
  <2>1. job[c] \in Job
      BY JobTyped DEF Held
  <2> QED BY <2>1 DEF Job
<1> QED BY <1>1 DEF RequeueHeld, Held, ArtifactTypeOK

\* A job that is enqueued is a typed record.
LEMMA NewJobTyped ==
    ASSUME BoundsAssumption, NEW k \in {"convert", "rechunk"}, NEW p \in Policy \cup {NoValue}
    PROVE  NewJob(k, p) \in Job
BY DEF NewJob, Job, BoundsAssumption

\* Accepting a revision touches no run.
LEMMA AcceptKeeps ==
    ASSUME LifecycleInv, NEW c \in Content, Accept(c) PROVE LifecycleInv'
<1>1. ArtifactTypeOK'
    BY DEF Accept, LifecycleInv, ArtifactTypeOK, rowVars, States, Hand
<1>2. \A d \in Content : state'[d] = state[d] \/ state'[d] \in {"pending", "queued"}
    BY DEF Accept, LifecycleInv, ArtifactTypeOK
<1> QED BY <1>1, <1>2, OutsideStep DEF Accept, LifecycleInv, RunsAlone

\* Handing a revision over touches no run.
LEMMA HandoffKeeps ==
    ASSUME BoundsAssumption, LifecycleInv, NEW h \in Hand, NEW c \in Content,
           Handoff(h, c) \/ HandDies(h, c)
    PROVE  LifecycleInv'
<1>1. CASE HandEnqueues(h, c)
  <2>1. NewJob("convert", DefaultPolicy) \in Job
      BY NewJobTyped DEF Policy
  <2>2. ArtifactTypeOK'
    <3>1. hand' \in [Hand -> [Content -> {"none", "listed", "refused", "enqueued"}]]
      <4>1. PICK v \in {"refused", "enqueued"} : hand' = [hand EXCEPT ![h][c] = v]
          BY <1>1 DEF HandEnqueues
      <4> QED BY <4>1 DEF LifecycleInv, ArtifactTypeOK
    <3>2. job' \in [Content -> Job \cup {NoJob}]
        BY <1>1, <2>1 DEF HandEnqueues, LifecycleInv, ArtifactTypeOK
    <3> QED BY <1>1, <3>1, <3>2 DEF HandEnqueues, LifecycleInv, ArtifactTypeOK, rowVars
  <2>3. ASSUME NEW w \in Worker, run[w] # NoRun PROVE job'[run[w].content].status = "picked"
    <3>1. job[run[w].content].status = "picked" /\ run[w].content \in Content
        BY <2>3, RunningTyped DEF LifecycleInv, RunsAlone
    <3>2. job' = job \/ (job[c] = NoJob /\ job' = [job EXCEPT ![c] = NewJob("convert", DefaultPolicy)])
        BY <1>1 DEF HandEnqueues, Admits
    <3>3. job[run[w].content] # NoJob
        BY <3>1 DEF NoJob
    <3> QED BY <3>1, <3>2, <3>3 DEF LifecycleInv, ArtifactTypeOK
  <2> QED BY <1>1, <2>2, <2>3, OutsideStep DEF HandEnqueues, rowVars
<1>2. CASE HandRequeues(h, c)
  <2>1. ArtifactTypeOK'
      BY <1>2, RequeueKeeps DEF HandRequeues, LifecycleInv, ArtifactTypeOK, rowVars
  <2> QED BY <1>2, <2>1, RequeueKeeps, RunningTyped, OutsideStep
          DEF HandRequeues, rowVars, LifecycleInv, RunsAlone
<1>3. CASE HandMarksQueued(h, c)
  <2>1. ArtifactTypeOK'
      BY <1>3 DEF HandMarksQueued, LifecycleInv, ArtifactTypeOK, States
  <2>2. \A d \in Content : state'[d] = state[d] \/ state'[d] \in {"pending", "queued"}
      BY <1>3 DEF HandMarksQueued, LifecycleInv, ArtifactTypeOK
  <2> QED BY <1>3, <2>1, <2>2, OutsideStep DEF HandMarksQueued, LifecycleInv, RunsAlone
<1>4. CASE HandDies(h, c)
  <2>1. hand' \in [Hand -> [Content -> {"none", "listed", "refused", "enqueued"}]]
      BY <1>4 DEF HandDies, LifecycleInv, ArtifactTypeOK
  <2>2. ArtifactTypeOK'
      BY <1>4, <2>1 DEF HandDies, LifecycleInv, ArtifactTypeOK, rowVars, BoundsAssumption
  <2> QED BY <1>4, <2>2, OutsideStep DEF HandDies, rowVars, LifecycleInv, RunsAlone
<1> QED BY <1>1, <1>2, <1>3, <1>4 DEF Handoff

\* Dispatching enqueues a job, which nobody runs yet.
LEMMA DispatchKeeps ==
    ASSUME LifecycleInv, DispatchReads PROVE LifecycleInv'
<1>1. ArtifactTypeOK'
    BY DEF DispatchReads, LifecycleInv, ArtifactTypeOK, rowVars, Hand
<1> QED BY <1>1, OutsideStep DEF DispatchReads, rowVars, LifecycleInv, RunsAlone

\* A lease expires only for a job that nobody runs.
LEMMA LeaseKeeps ==
    ASSUME LifecycleInv, NEW c \in Content, LeaseExpires(c) PROVE LifecycleInv'
<1>1. job[c] \in Job
    BY JobTyped DEF LeaseExpires, LifecycleInv
<1>2. [job[c] EXCEPT !.status = "queued"] \in Job
    BY <1>1 DEF Job
<1>3. ArtifactTypeOK'
    BY <1>2 DEF LeaseExpires, LifecycleInv, ArtifactTypeOK, rowVars
<1>4. ASSUME NEW w \in Worker, run[w] # NoRun PROVE job'[run[w].content].status = "picked"
  <2>1. run[w].content \in Content \ {c}
      BY <1>4, RunningTyped DEF LifecycleInv, LeaseExpires
  <2> QED BY <1>4, <2>1 DEF LeaseExpires, LifecycleInv, ArtifactTypeOK, RunsAlone
<1> QED BY <1>3, <1>4, OutsideStep DEF LeaseExpires, rowVars

\* The operator's retry and the doctor's recovery touch no picked job.
LEMMA OperatorKeeps ==
    ASSUME BoundsAssumption, LifecycleInv, RetryHeld \/ (\E c \in Content : RecoverOrphan(c))
    PROVE  LifecycleInv'
<1>1. CASE RetryHeld
  <2>1. ArtifactTypeOK'
      BY <1>1, RequeueKeeps DEF RetryHeld, LifecycleInv, ArtifactTypeOK, rowVars
  <2> QED BY <1>1, <2>1, RequeueKeeps, RunningTyped, OutsideStep
          DEF RetryHeld, rowVars, LifecycleInv, RunsAlone
<1>2. ASSUME NEW c \in Content, RecoverOrphan(c) PROVE LifecycleInv'
  <2>1. NewJob("convert", DefaultPolicy) \in Job
      BY NewJobTyped DEF Policy
  <2>2. /\ job' \in [Content -> Job \cup {NoJob}] /\ state' \in [Content -> States]
        /\ faults' \in 0..MaxFaults
      BY <1>2, <2>1 DEF RecoverOrphan, LifecycleInv, ArtifactTypeOK, States, BoundsAssumption
  <2>3. ArtifactTypeOK'
      BY <1>2, <2>2 DEF RecoverOrphan, LifecycleInv, ArtifactTypeOK
  <2>4. ASSUME NEW w \in Worker, run[w] # NoRun PROVE job'[run[w].content].status = "picked"
    <3>1. job[run[w].content].status = "picked" /\ run[w].content \in Content
        BY <2>4, RunningTyped DEF LifecycleInv, RunsAlone
    <3> QED BY <1>2, <3>1 DEF RecoverOrphan, Admits, NoJob, LifecycleInv, ArtifactTypeOK
  <2>5. \A d \in Content : state'[d] = state[d] \/ state'[d] \in {"pending", "queued"}
      BY <1>2 DEF RecoverOrphan, LifecycleInv, ArtifactTypeOK
  <2> QED BY <1>2, <2>3, <2>4, <2>5, OutsideStep DEF RecoverOrphan
<1> QED BY <1>1, <1>2

\* A sweep enqueues only where no job is active.
LEMMA SweepKeeps ==
    ASSUME BoundsAssumption, LifecycleInv, NEW s \in Sweeper,
           SweepReads(s) \/ (\E c \in Content : SweepEnqueues(s, c))
    PROVE  LifecycleInv'
<1>1. CASE SweepReads(s)
  <2>1. ArtifactTypeOK'
      BY <1>1 DEF SweepReads, LifecycleInv, ArtifactTypeOK, rowVars
  <2> QED BY <1>1, <2>1, OutsideStep DEF SweepReads, rowVars, LifecycleInv, RunsAlone
<1>2. ASSUME NEW c \in Content, SweepEnqueues(s, c) PROVE LifecycleInv'
  <2>1. NewJob("rechunk", NoValue) \in Job
      BY NewJobTyped
  <2>2. s # RechunkSweep => NewJob("convert", s) \in Job
      BY NewJobTyped DEF Policy, Sweeper
  <2>3. ArtifactTypeOK'
      BY <1>2, <2>1, <2>2 DEF SweepEnqueues, LifecycleInv, ArtifactTypeOK, rowVars
  <2>4. ASSUME NEW w \in Worker, run[w] # NoRun PROVE job'[run[w].content].status = "picked"
    <3>1. job[run[w].content].status = "picked" /\ run[w].content \in Content
        BY <2>4, RunningTyped DEF LifecycleInv, RunsAlone
    <3> QED BY <1>2, <3>1 DEF SweepEnqueues, Admits, NoJob, LifecycleInv, ArtifactTypeOK
  <2> QED BY <1>2, <2>3, <2>4, OutsideStep DEF SweepEnqueues, rowVars
<1> QED BY <1>1, <1>2
-----------------------------------------------------------------------------
(* The steps of a run.                                                     *)

\* What holds of a run that is under way.
LEMMA Underway ==
    ASSUME LifecycleInv, NEW w \in Worker, run[w].pc # "idle" \/ run[w] # NoRun
    PROVE  /\ run[w] \in Run /\ run[w] # NoRun /\ run[w].content \in Content
           /\ SeenStands(w) /\ VerdictStands(w) /\ CandidateStands(w)
           /\ RowStands(run[w].content)
           /\ job[run[w].content].status = "picked"
           /\ job[run[w].content] \in Job
<1>1. run[w] \in Run /\ run[w] # NoRun /\ run[w].content \in Content
    BY RunningTyped DEF LifecycleInv
<1>2. RunStands(w) /\ RowStands(run[w].content) /\ job[run[w].content].status = "picked"
    BY <1>1 DEF LifecycleInv, RunsAlone
<1> QED BY <1>1, <1>2, JobTyped DEF RunStands, LifecycleInv

\* A step that only moves the run itself.
LEMMA QuietStep ==
    ASSUME LifecycleInv, NEW w \in Worker, run[w] # NoRun,
           NEW r \in Run, r.content = run[w].content, run' = [run EXCEPT ![w] = r],
           UNCHANGED <<rowVars, document, job, hand, offered>>, faults' \in 0..MaxFaults,
           SeenStands(w)', VerdictStands(w)', CandidateStands(w)'
    PROVE  LifecycleInv'
<1> DEFINE c == run[w].content
<1>1. run[w] \in Run /\ c \in Content /\ RowStands(c) /\ job[c].status = "picked"
    BY Underway
<1>2. ArtifactTypeOK'
    BY DEF LifecycleInv, ArtifactTypeOK, rowVars
<1>3. run'[w] = r /\ \A v \in Worker \ {w} : run'[v] = run[v]
    BY DEF LifecycleInv, ArtifactTypeOK
<1>4. RunStands(w)'
    BY DEF RunStands
<1> QED BY <1>1, <1>2, <1>3, <1>4, RunStep DEF rowVars, RowStands

\* A run that loads has just seen its row.
LEMMA LoadKeeps ==
    ASSUME LifecycleInv, NEW w \in Worker, Load(w) PROVE LifecycleInv'
<1> DEFINE c == run[w].content
           r == [run[w] EXCEPT !.seen = markdown[c], !.pc = "convert"]
<1>1. /\ run[w] \in Run /\ run[w] # NoRun /\ c \in Content /\ run[w].pc = "load"
      /\ SeenStands(w) /\ VerdictStands(w) /\ CandidateStands(w)
    BY Underway DEF Load, At
<1>2. markdown[c] \in Text \cup {NoValue}
    BY <1>1 DEF LifecycleInv, ArtifactTypeOK
<1>3. r \in Run /\ r.content = c
    BY <1>1, <1>2 DEF Run
<1>4. run' = [run EXCEPT ![w] = r]
    BY DEF Load
<1>5. run'[w] = r /\ UNCHANGED <<rowVars, document, job, hand, offered, faults>>
    BY <1>4 DEF Load, LifecycleInv, ArtifactTypeOK
<1>6. SeenStands(w)' /\ VerdictStands(w)' /\ CandidateStands(w)'
    BY <1>1, <1>5 DEF SeenStands, VerdictStands, CandidateStands, rowVars, Run
<1> QED BY <1>1, <1>3, <1>4, <1>5, <1>6, QuietStep DEF LifecycleInv, ArtifactTypeOK

\* A converted text is the run's own and changes no row yet.
LEMMA ConvertsKeeps ==
    ASSUME LifecycleInv, NEW w \in Worker, NEW x \in Text, Converts(w, x) PROVE LifecycleInv'
<1> DEFINE r == [run[w] EXCEPT !.text = x, !.pc = "record"]
<1>1. /\ run[w] \in Run /\ run[w] # NoRun /\ run[w].pc = "convert"
      /\ SeenStands(w) /\ VerdictStands(w) /\ CandidateStands(w)
    BY Underway DEF Converts, At
<1>2. r \in Run /\ r.content = run[w].content
    BY <1>1 DEF Run
<1>3. run' = [run EXCEPT ![w] = r]
    BY DEF Converts
<1>4. run'[w] = r /\ UNCHANGED <<rowVars, document, job, hand, offered, faults>>
    BY <1>3 DEF Converts, LifecycleInv, ArtifactTypeOK
<1>5. SeenStands(w)' /\ VerdictStands(w)' /\ CandidateStands(w)'
    BY <1>1, <1>4 DEF SeenStands, VerdictStands, CandidateStands, rowVars, Run
<1> QED BY <1>1, <1>2, <1>3, <1>4, <1>5, QuietStep DEF LifecycleInv, ArtifactTypeOK

\* A refused original fails its revision only if nothing was seen in production.
LEMMA RejectsKeeps ==
    ASSUME LifecycleInv, NEW w \in Worker, NEW v \in {"failed", "unreadable"}, Rejects(w, v)
    PROVE  LifecycleInv'
<1>1. /\ run[w] \in Run /\ run[w] # NoRun /\ run[w].pc = "convert"
      /\ SeenStands(w) /\ VerdictStands(w) /\ CandidateStands(w)
    BY Underway DEF Rejects, At
<1>2. PICK r \in {[run[w] EXCEPT !.verdict = "ready", !.pc = "quarantine"],
                  [run[w] EXCEPT !.verdict = v, !.pc = "plan"]} :
         /\ run' = [run EXCEPT ![w] = r]
         /\ r.pc = "quarantine" <=> run[w].seen # NoValue
    BY <1>1 DEF Rejects, Run
<1>3. /\ r \in Run /\ r.content = run[w].content
      /\ r.seen = run[w].seen /\ r.raises = run[w].raises
      /\ \/ r.pc = "quarantine" /\ r.verdict = "ready"
         \/ r.pc = "plan" /\ r.verdict = v
    BY <1>1, <1>2 DEF Run
<1>4. run'[w] = r /\ UNCHANGED <<rowVars, document, job, hand, offered, faults>>
    BY <1>2 DEF Rejects, LifecycleInv, ArtifactTypeOK
<1>5. SeenStands(w)' /\ VerdictStands(w)' /\ CandidateStands(w)'
    BY <1>1, <1>2, <1>3, <1>4 DEF SeenStands, VerdictStands, CandidateStands, rowVars
<1> QED BY <1>1, <1>2, <1>3, <1>4, <1>5, QuietStep DEF LifecycleInv, ArtifactTypeOK

\* A plan is made over the candidate the run has just recorded.
LEMMA PlansKeeps ==
    ASSUME PoliciesAssumption, LifecycleInv, NEW w \in Worker, Plans(w) PROVE LifecycleInv'
<1> DEFINE c == run[w].content
           r == [run[w] EXCEPT !.plan = PlanFor(c), !.pc = "store"]
<1>1. /\ run[w] \in Run /\ run[w] # NoRun /\ c \in Content /\ run[w].pc = "plan"
      /\ SeenStands(w) /\ VerdictStands(w) /\ CandidateStands(w)
    BY Underway DEF Plans, At
<1>2. r \in Run /\ r.content = c
    BY <1>1 DEF Run, PlanFor
<1>3. run' = [run EXCEPT ![w] = r]
    BY DEF Plans
<1>4. run'[w] = r /\ UNCHANGED <<rowVars, document, job, hand, offered, faults>>
    BY <1>3 DEF Plans, LifecycleInv, ArtifactTypeOK
<1>5. PlanFor(c) \in {"same", "metadata"} => document # NoDocument
    BY <1>1 DEF PlanFor, NoDocument, PoliciesAssumption
<1>6. SeenStands(w)' /\ VerdictStands(w)' /\ CandidateStands(w)'
    BY <1>1, <1>4, <1>5 DEF SeenStands, VerdictStands, CandidateStands, rowVars, Run
<1> QED BY <1>1, <1>2, <1>3, <1>4, <1>6, QuietStep DEF LifecycleInv, ArtifactTypeOK

\* A run that is to be settled by the queue has nothing more to promise.
LEMMA EndsKeeps ==
    ASSUME LifecycleInv, NEW w \in Worker, run[w].pc # "idle", NEW p \in {"returned", "raised"},
           Goto(w, p), UNCHANGED <<rowVars, document, job, hand, offered>>,
           faults' \in 0..MaxFaults
    PROVE  LifecycleInv'
<1> DEFINE r == [run[w] EXCEPT !.pc = p]
<1>1. /\ run[w] \in Run /\ run[w] # NoRun
      /\ SeenStands(w) /\ VerdictStands(w) /\ CandidateStands(w)
    BY Underway
<1>2. r \in Run /\ r.content = run[w].content
    BY <1>1 DEF Run
<1>3. run' = [run EXCEPT ![w] = r]
    BY DEF Goto
<1>4. run'[w] = r
    BY <1>3 DEF LifecycleInv, ArtifactTypeOK
<1>5. SeenStands(w)' /\ VerdictStands(w)' /\ CandidateStands(w)'
    BY <1>1, <1>4 DEF SeenStands, VerdictStands, CandidateStands, rowVars, Run
<1> QED BY <1>1, <1>2, <1>3, <1>5, QuietStep

\* A run that raises to the queue changes no row.
LEMMA EscapesKeeps ==
    ASSUME BoundsAssumption, LifecycleInv, NEW w \in Worker, Escapes(w) PROVE LifecycleInv'
BY EndsKeeps DEF Escapes, LifecycleInv, ArtifactTypeOK, BoundsAssumption

\* The stamp of a re-chunking orders sweeps and changes nothing here.
LEMMA StampsKeeps ==
    ASSUME LifecycleInv, NEW w \in Worker, Stamps(w) PROVE LifecycleInv'
BY EndsKeeps DEF Stamps, At, LifecycleInv, ArtifactTypeOK

\* An error turns a run back to the production it saw, or to failing its revision.
LEMMA ErrsKeeps ==
    ASSUME BoundsAssumption, LifecycleInv, NEW w \in Worker, Errs(w) PROVE LifecycleInv'
<1> DEFINE r == Rescued(w)
<1>1. /\ run[w] \in Run /\ run[w] # NoRun /\ run[w].content \in Content
      /\ SeenStands(w) /\ VerdictStands(w) /\ CandidateStands(w)
    BY Underway DEF Errs
<1>2. r \in Run /\ r.content = run[w].content
    BY <1>1 DEF Rescued, Run
<1>3. run' = [run EXCEPT ![w] = r]
    BY DEF Errs
<1>4. run'[w] = r /\ UNCHANGED <<rowVars, document, job, hand, offered>>
    BY <1>3 DEF Errs, LifecycleInv, ArtifactTypeOK
<1>5. /\ r.seen = run[w].seen /\ r.raises
      /\ \/ r.verdict = "ready" /\ r.pc \in {"plan", "quarantine"} /\ r.seen # NoValue
            /\ r.plan = run[w].plan
         \/ r.verdict = "failed" /\ r.pc = "settle"
    BY <1>1 DEF Rescued, Preserves, Run
<1>6. SeenStands(w)' /\ VerdictStands(w)' /\ CandidateStands(w)'
    BY <1>1, <1>2, <1>4, <1>5 DEF Errs, SeenStands, VerdictStands, CandidateStands, rowVars
<1>7. faults' \in 0..MaxFaults
    BY DEF Errs, LifecycleInv, ArtifactTypeOK, BoundsAssumption
<1> QED BY <1>1, <1>2, <1>3, <1>4, <1>6, <1>7, QuietStep

\* A re-chunking run raises when there is no production text to read.
LEMMA ReadsKeeps ==
    ASSUME LifecycleInv, NEW w \in Worker, Reads(w) PROVE LifecycleInv'
<1> DEFINE c == run[w].content
           r == [run[w] EXCEPT !.text = markdown[c],
                               !.pc = IF markdown[c] = NoValue THEN "raised" ELSE "rebuild"]
<1>1. /\ run[w] \in Run /\ run[w] # NoRun /\ c \in Content
      /\ SeenStands(w) /\ VerdictStands(w) /\ CandidateStands(w)
    BY Underway DEF Reads, At
<1>2. markdown[c] \in Text \cup {NoValue}
    BY <1>1 DEF LifecycleInv, ArtifactTypeOK
<1>3. r \in Run /\ r.content = c
    BY <1>1, <1>2 DEF Run
<1>4. run' = [run EXCEPT ![w] = r]
    BY DEF Reads
<1>5. run'[w] = r /\ UNCHANGED <<rowVars, document, job, hand, offered, faults>>
    BY <1>4 DEF Reads, LifecycleInv, ArtifactTypeOK
<1>6. SeenStands(w)' /\ VerdictStands(w)' /\ CandidateStands(w)'
    BY <1>1, <1>5 DEF SeenStands, VerdictStands, CandidateStands, rowVars, Run
<1> QED BY <1>1, <1>3, <1>4, <1>5, <1>6, QuietStep DEF LifecycleInv, ArtifactTypeOK

\* process marks the row before it looks at it.
LEMMA BeginKeeps ==
    ASSUME LifecycleInv, NEW w \in Worker, Begin(w) PROVE LifecycleInv'
<1> DEFINE c == run[w].content
           r == [run[w] EXCEPT !.pc = "load"]
<1>1. /\ run[w] \in Run /\ run[w] # NoRun /\ c \in Content /\ run[w].pc = "begin"
      /\ SeenStands(w) /\ VerdictStands(w) /\ CandidateStands(w) /\ RowStands(c)
      /\ job[c].status = "picked"
    BY Underway DEF Begin, At
<1>2. r \in Run /\ r.content = c
    BY <1>1 DEF Run
<1>3. run' = [run EXCEPT ![w] = r] /\ state' = [state EXCEPT ![c] = "processing"]
    BY DEF Begin, Goto
<1>4. run'[w] = r /\ state'[c] = "processing"
      /\ UNCHANGED <<markdown, policy, candidate, document, job, hand, offered, faults>>
    BY <1>1, <1>3 DEF Begin, LifecycleInv, ArtifactTypeOK
<1>5. RunStands(w)'
    BY <1>1, <1>4 DEF RunStands, SeenStands, VerdictStands, CandidateStands, Run
<1>6. RowStands(c)'
    BY <1>1, <1>4 DEF RowStands
<1>7. ArtifactTypeOK'
    BY <1>1, <1>2, <1>3, <1>4 DEF LifecycleInv, ArtifactTypeOK, States
<1> QED BY <1>1, <1>2, <1>3, <1>4, <1>5, <1>6, <1>7, RunStep DEF LifecycleInv, ArtifactTypeOK

\* A first text is accepted; a later one may be kept as a candidate only.
LEMMA RecordsKeeps ==
    ASSUME LifecycleInv, NEW w \in Worker, NEW accepted \in BOOLEAN, Records(w, accepted)
    PROVE  LifecycleInv'
<1> DEFINE c == run[w].content
           k == [text |-> run[w].text, policy |-> run[w].policy]
           r == [run[w] EXCEPT !.verdict = "ready", !.tried = accepted,
                               !.pc = IF accepted THEN "plan" ELSE "settle"]
<1>1. /\ run[w] \in Run /\ run[w] # NoRun /\ c \in Content /\ run[w].pc = "record"
      /\ SeenStands(w) /\ VerdictStands(w) /\ CandidateStands(w) /\ RowStands(c)
      /\ job[c].status = "picked"
    BY Underway DEF Records, At
<1>2. r \in Run /\ r.content = c
    BY <1>1 DEF Run
<1>3. k \in [text: Text \cup {NoValue}, policy: Policy \cup {NoValue}]
    BY <1>1 DEF Run
<1>4. run' = [run EXCEPT ![w] = r] /\ candidate' = [candidate EXCEPT ![c] = k]
      /\ (accepted \/ run[w].seen # NoValue)
    BY DEF Records
<1>5. run'[w] = r /\ candidate'[c] = k
      /\ UNCHANGED <<state, markdown, policy, document, job, hand, offered, faults>>
    BY <1>1, <1>4 DEF Records, LifecycleInv, ArtifactTypeOK
<1>6. SeenStands(w)' /\ VerdictStands(w)'
    BY <1>1, <1>4, <1>5 DEF SeenStands, VerdictStands, Run
<1>7. CandidateStands(w)'
    BY <1>1, <1>5 DEF CandidateStands, VerdictStands, Run
<1>8. RowStands(c)'
    BY <1>1, <1>5 DEF RowStands
<1>9. ArtifactTypeOK'
    BY <1>1, <1>2, <1>3, <1>4, <1>5 DEF LifecycleInv, ArtifactTypeOK
<1> QED BY <1>1, <1>2, <1>4, <1>5, <1>6, <1>7, <1>8, <1>9, RunStep
        DEF LifecycleInv, ArtifactTypeOK, RunStands

\* Once a run has indexed its text or its metadata the document exists.
LEMMA StoresKeeps ==
    ASSUME PoliciesAssumption, LifecycleInv, NEW w \in Worker, Stores(w) PROVE LifecycleInv'
<1> DEFINE c == run[w].content
           r == [run[w] EXCEPT !.plan = "none",
                               !.pc = IF run[w].raises THEN "quarantine"
                                      ELSE IF run[w].verdict = "ready" THEN "promote"
                                      ELSE "settle"]
<1>1. /\ run[w] \in Run /\ run[w] # NoRun /\ c \in Content /\ run[w].pc = "store"
      /\ SeenStands(w) /\ VerdictStands(w) /\ CandidateStands(w) /\ RowStands(c)
      /\ job[c].status = "picked"
    BY Underway DEF Stores, At
<1>2. r \in Run /\ r.content = c
    BY <1>1 DEF Run
<1>3. run' = [run EXCEPT ![w] = r]
    BY DEF Stores
<1>4. run'[w] = r /\ UNCHANGED <<rowVars, job, hand, offered, faults>>
    BY <1>3 DEF Stores, LifecycleInv, ArtifactTypeOK
<1>5. document' # NoDocument /\ document' \in Document
  <2>1. document \in Document \cup {NoDocument} /\ BlobOf[c] \in Blob /\ BlobOf[c] # NoValue
      BY <1>1 DEF LifecycleInv, ArtifactTypeOK, Document, PoliciesAssumption
  <2>2. Rendered(w) \in Document
      BY <1>1, <2>1 DEF Rendered, Document, Run
  <2>3. document # NoDocument => [document EXCEPT !.content = c] \in Document
      BY <1>1, <2>1 DEF Document
  <2>4. document # NoDocument => document \in Document
      BY <2>1
  <2>5. document.blob = BlobOf[c] => document # NoDocument
      BY <2>1 DEF NoDocument
  <2>6. document' \in Document
      BY <1>1, <2>2, <2>3, <2>4, <2>5 DEF Stores, Indexed, CandidateStands
  <2>7. \A d \in Document : d # NoDocument
      BY DEF Document, NoDocument, PoliciesAssumption
  <2> QED BY <2>6, <2>7
<1>6. SeenStands(w)'
    BY <1>1, <1>4 DEF SeenStands, rowVars, Run
<1>7. VerdictStands(w)'
    BY <1>1, <1>4 DEF VerdictStands, rowVars, Run
<1>8. CandidateStands(w)'
    BY <1>1, <1>4, <1>5 DEF CandidateStands, rowVars, Run
<1>9. RowStands(c)'
    BY <1>1, <1>4, <1>5 DEF RowStands, rowVars
<1>10. ArtifactTypeOK'
    BY <1>2, <1>3, <1>4, <1>5 DEF LifecycleInv, ArtifactTypeOK, rowVars, Document
<1> QED BY <1>1, <1>2, <1>3, <1>4, <1>5, <1>6, <1>7, <1>8, <1>9, <1>10, RunStep
        DEF LifecycleInv, ArtifactTypeOK, RunStands, rowVars

\* The candidate a run promotes is the text it converted.
LEMMA PromotesKeeps ==
    ASSUME PoliciesAssumption, LifecycleInv, NEW w \in Worker, Promotes(w) PROVE LifecycleInv'
<1> DEFINE c == run[w].content
           k == candidate[c]
           r == [run[w] EXCEPT !.pc = "settle"]
<1>1. /\ run[w] \in Run /\ run[w] # NoRun /\ c \in Content /\ run[w].pc = "promote"
      /\ SeenStands(w) /\ VerdictStands(w) /\ CandidateStands(w) /\ RowStands(c)
      /\ job[c].status = "picked"
    BY Underway DEF Promotes, At
<1>2. CASE ~ (k.policy = run[w].policy /\ k.text # NoValue)
    BY <1>1, <1>2, EndsKeeps DEF Promotes, rowVars, LifecycleInv, ArtifactTypeOK
<1>3. CASE k.policy = run[w].policy /\ k.text # NoValue
  <2>1. r \in Run /\ r.content = c
      BY <1>1 DEF Run
  <2>2. /\ run' = [run EXCEPT ![w] = r]
        /\ markdown' = [markdown EXCEPT ![c] = k.text]
        /\ policy' = [policy EXCEPT ![c] = run[w].policy]
        /\ candidate' = [candidate EXCEPT ![c] = NoCandidate]
        /\ UNCHANGED <<state, document, job, hand, offered, faults>>
      BY <1>3 DEF Promotes, Promoted, Goto
  <2>3. run'[w] = r /\ markdown'[c] # NoValue
      BY <1>1, <1>3, <2>2 DEF LifecycleInv, ArtifactTypeOK
  <2>4. SeenStands(w)' /\ VerdictStands(w)' /\ CandidateStands(w)'
    <3>1. run[w].verdict = "ready"
        BY <1>1 DEF VerdictStands
    <3> QED BY <1>1, <2>2, <2>3, <3>1 DEF SeenStands, VerdictStands, CandidateStands, Run
  <2>5. RowStands(c)'
      BY <1>1, <2>2, <2>3 DEF RowStands, SeenStands, CandidateStands
  <2>6. ArtifactTypeOK'
    <3>1. k.text \in Text \cup {NoValue} /\ run[w].policy \in Policy \cup {NoValue}
        BY <1>1 DEF LifecycleInv, ArtifactTypeOK, Run
    <3>2. NoCandidate \in [text: Text \cup {NoValue}, policy: Policy \cup {NoValue}]
        BY DEF NoCandidate
    <3> QED BY <1>1, <2>1, <2>2, <3>1, <3>2 DEF LifecycleInv, ArtifactTypeOK
  <2> QED BY <1>1, <2>1, <2>2, <2>3, <2>4, <2>5, <2>6, RunStep
          DEF LifecycleInv, ArtifactTypeOK, RunStands
<1> QED BY <1>2, <1>3

\* A quarantine marks the candidate and keeps production as it was seen.
LEMMA QuarantinesKeeps ==
    ASSUME LifecycleInv, NEW w \in Worker, Quarantines(w) PROVE LifecycleInv'
<1> DEFINE c == run[w].content
           k == [candidate[c] EXCEPT !.policy = run[w].policy]
           r == [run[w] EXCEPT !.pc = "settle"]
<1>1. /\ run[w] \in Run /\ run[w] # NoRun /\ c \in Content /\ run[w].pc = "quarantine"
      /\ SeenStands(w) /\ VerdictStands(w) /\ CandidateStands(w) /\ RowStands(c)
      /\ job[c].status = "picked"
    BY Underway DEF Quarantines, At
<1>2. r \in Run /\ r.content = c
    BY <1>1 DEF Run
<1>3. k \in [text: Text \cup {NoValue}, policy: Policy \cup {NoValue}]
    BY <1>1 DEF LifecycleInv, ArtifactTypeOK, Run
<1>4. /\ run' = [run EXCEPT ![w] = r]
      /\ candidate' = [candidate EXCEPT ![c] = k]
      /\ UNCHANGED <<state, markdown, policy, document, job, hand, offered, faults>>
    BY DEF Quarantines, Goto
<1>5. run'[w] = r
    BY <1>4 DEF LifecycleInv, ArtifactTypeOK
<1>6. SeenStands(w)' /\ VerdictStands(w)' /\ CandidateStands(w)'
    BY <1>1, <1>4, <1>5 DEF SeenStands, VerdictStands, CandidateStands, Run
<1>7. RowStands(c)'
    BY <1>1, <1>4 DEF RowStands
<1>8. ArtifactTypeOK'
    BY <1>1, <1>2, <1>3, <1>4 DEF LifecycleInv, ArtifactTypeOK
<1> QED BY <1>1, <1>2, <1>4, <1>5, <1>6, <1>7, <1>8, RunStep
        DEF LifecycleInv, ArtifactTypeOK, RunStands

\* The closing set_state: ready only with Markdown in production, which the
\* document came before.
LEMMA SettlesKeeps ==
    ASSUME LifecycleInv, NEW w \in Worker, Settles(w) PROVE LifecycleInv'
<1> DEFINE c == run[w].content
           r == [run[w] EXCEPT !.pc = IF run[w].raises THEN "raised" ELSE "returned"]
<1>1. /\ run[w] \in Run /\ run[w] # NoRun /\ c \in Content /\ run[w].pc = "settle"
      /\ SeenStands(w) /\ VerdictStands(w) /\ CandidateStands(w) /\ RowStands(c)
      /\ job[c].status = "picked"
    BY Underway DEF Settles, At
<1>2. r \in Run /\ r.content = c
    BY <1>1 DEF Run
<1>3. /\ run' = [run EXCEPT ![w] = r]
      /\ state' = [state EXCEPT ![c] = run[w].verdict]
      /\ UNCHANGED <<markdown, policy, candidate, document, job, hand, offered, faults>>
    BY DEF Settles, Goto
<1>4. run'[w] = r /\ state'[c] = run[w].verdict
    BY <1>1, <1>3 DEF LifecycleInv, ArtifactTypeOK
<1>5. SeenStands(w)' /\ VerdictStands(w)' /\ CandidateStands(w)'
    BY <1>1, <1>3, <1>4 DEF SeenStands, VerdictStands, CandidateStands, Run
<1>6. RowStands(c)'
    BY <1>1, <1>3, <1>4 DEF RowStands, VerdictStands
<1>7. run[w].verdict \in States
    BY <1>1 DEF VerdictStands, Run, States
<1>8. ArtifactTypeOK'
    BY <1>1, <1>2, <1>3, <1>7 DEF LifecycleInv, ArtifactTypeOK
<1> QED BY <1>1, <1>2, <1>3, <1>4, <1>5, <1>6, <1>8, RunStep
        DEF LifecycleInv, ArtifactTypeOK, RunStands

\* A rebuild leaves a document behind.
LEMMA RebuildsKeeps ==
    ASSUME PoliciesAssumption, LifecycleInv, NEW w \in Worker, Rebuilds(w) PROVE LifecycleInv'
<1> DEFINE c == run[w].content
           r == [run[w] EXCEPT !.pc = "stamp"]
<1>1. /\ run[w] \in Run /\ run[w] # NoRun /\ c \in Content /\ run[w].pc = "rebuild"
      /\ SeenStands(w) /\ VerdictStands(w) /\ CandidateStands(w) /\ RowStands(c)
      /\ job[c].status = "picked"
    BY Underway DEF Rebuilds, At
<1>2. r \in Run /\ r.content = c
    BY <1>1 DEF Run
<1>3. run' = [run EXCEPT ![w] = r] /\ document' = Rendered(w)
      /\ UNCHANGED <<rowVars, job, hand, offered, faults>>
    BY DEF Rebuilds, Goto
<1>4. run'[w] = r
    BY <1>3 DEF LifecycleInv, ArtifactTypeOK
<1>5. document' \in Document /\ document' # NoDocument
    BY <1>1, <1>3 DEF Rendered, Document, NoDocument, Run, PoliciesAssumption
<1>6. SeenStands(w)' /\ VerdictStands(w)' /\ CandidateStands(w)'
    BY <1>1, <1>3, <1>4 DEF SeenStands, VerdictStands, CandidateStands, Run, rowVars
<1>7. RowStands(c)'
    BY <1>1, <1>3, <1>5 DEF RowStands, rowVars
<1>8. ArtifactTypeOK'
    BY <1>1, <1>2, <1>3, <1>5 DEF LifecycleInv, ArtifactTypeOK, rowVars
<1> QED BY <1>1, <1>2, <1>3, <1>4, <1>5, <1>6, <1>7, <1>8, RunStep
        DEF LifecycleInv, ArtifactTypeOK, RunStands, rowVars

\* A run that ends, or whose worker dies.
LEMMA EndKeeps ==
    ASSUME BoundsAssumption, LifecycleInv, NEW w \in Worker,
           Succeeds(w) \/ Fails(w) \/ Crash(w)
    PROVE  LifecycleInv'
<1>1. PICK c \in Content :
         /\ run[w] \in Run /\ run[w] # NoRun /\ run[w].content = c
         /\ RowStands(c) /\ job[c] \in Job
    BY Underway DEF Succeeds, Fails, Crash, At
<1>2. /\ run' = [run EXCEPT ![w] = NoRun]
      /\ UNCHANGED <<rowVars, document, hand, offered>>
      /\ faults' \in 0..MaxFaults
    BY DEF Succeeds, Fails, Crash, LifecycleInv, ArtifactTypeOK, BoundsAssumption
<1>3. \E j \in Job \cup {NoJob} : job' = [job EXCEPT ![c] = j]
  <2>1. CASE Succeeds(w)
      BY <1>1, <2>1 DEF Succeeds
  <2>2. CASE Fails(w)
    <3> DEFINE s == IF job[c].attempts >= MaxAttempts THEN "failed" ELSE "queued"
    <3>1. [job[c] EXCEPT !.status = s] \in Job
        BY <1>1 DEF Job
    <3>2. job' = [job EXCEPT ![c] = [job[c] EXCEPT !.status = s]]
        BY <1>1, <2>2 DEF Fails
    <3> QED BY <3>1, <3>2
  <2>3. CASE Crash(w)
      BY <1>1, <2>3 DEF Crash, LifecycleInv, ArtifactTypeOK
  <2> QED BY <2>1, <2>2, <2>3
<1>4. run'[w] = NoRun /\ (\A v \in Worker \ {w} : run'[v] = run[v])
      /\ \A d \in Content \ {c} : job'[d].status = job[d].status
    BY <1>1, <1>2, <1>3 DEF LifecycleInv, ArtifactTypeOK
<1>5. ArtifactTypeOK'
    BY <1>1, <1>2, <1>3 DEF LifecycleInv, ArtifactTypeOK, rowVars
<1>6. RowStands(c)'
    BY <1>1, <1>2 DEF RowStands, rowVars
<1> QED BY <1>1, <1>2, <1>4, <1>5, <1>6, RunStep DEF rowVars

\* A worker takes a queued row: no other run has it.
LEMMA ClaimKeeps ==
    ASSUME BoundsAssumption, LifecycleInv, NEW w \in Worker, NEW c \in Content, Claim(w, c)
    PROVE  LifecycleInv'
<1> DEFINE r == [NoRun EXCEPT !.content = c, !.policy = job[c].policy,
                              !.pc = IF job[c].kind = "convert" THEN "begin" ELSE "read"]
           n == IF job[c].attempts < MaxAttempts THEN job[c].attempts + 1 ELSE job[c].attempts
           j == [job[c] EXCEPT !.status = "picked", !.attempts = n]
<1>1. job[c] \in Job /\ job[c].status = "queued" /\ run[w] = NoRun
    BY JobTyped DEF Claim, Claimable, LifecycleInv
<1>2. r \in Run /\ r.content = c
    BY <1>1 DEF Run, NoRun, Job
<1>3. j \in Job /\ j.status = "picked"
  <2>1. n \in 0..MaxAttempts
      BY <1>1 DEF Job, BoundsAssumption
  <2> HIDE DEF n
  <2> QED BY <1>1, <2>1 DEF Job
<1>4. run' = [run EXCEPT ![w] = r] /\ job' = [job EXCEPT ![c] = j]
      /\ UNCHANGED <<rowVars, document, hand, offered, faults>>
    BY <1>1 DEF Claim
<1>5. /\ run'[w] = r /\ \A v \in Worker \ {w} : run'[v] = run[v]
      /\ job'[c].status = "picked" /\ \A d \in Content \ {c} : job'[d] = job[d]
    BY <1>3, <1>4 DEF LifecycleInv, ArtifactTypeOK
<1>6. ArtifactTypeOK'
    BY <1>2, <1>3, <1>4 DEF LifecycleInv, ArtifactTypeOK, rowVars
<1>7. ASSUME NEW v \in Worker \ {w}, run[v] # NoRun
      PROVE  /\ run[v].content \in Content \ {c} /\ job[run[v].content].status = "picked"
             /\ RunStands(v)
    BY <1>1, <1>7, RunningTyped DEF LifecycleInv, RunsAlone
<1> HIDE DEF r
<1>8. RunsAlone'
  <2>1. ASSUME NEW v \in Worker, run'[v] # NoRun PROVE job'[run'[v].content].status = "picked"
      BY <2>1, <1>2, <1>5, <1>7
  <2>2. ASSUME NEW u \in Worker, NEW v \in Worker, run'[u] # NoRun, run'[v] # NoRun,
               run'[u].content = run'[v].content
        PROVE  u = v
      BY <2>2, <1>2, <1>5, <1>7 DEF LifecycleInv, RunsAlone
  <2> QED BY <2>1, <2>2 DEF RunsAlone
<1>9. ASSUME NEW d \in Content PROVE RowStands(d)'
    BY <1>4 DEF LifecycleInv, RowStands, rowVars
<1>10. ASSUME NEW v \in Worker, run'[v] # NoRun PROVE RunStands(v)'
  <2>1. CASE v = w
    <3>1. /\ run'[v] = r /\ r.seen = NoValue /\ r.pc \in {"begin", "read"} /\ ~ r.raises
          /\ r.verdict = "none"
        BY <2>1, <1>5 DEF NoRun, r
    <3> QED BY <3>1 DEF RunStands, SeenStands, VerdictStands, CandidateStands
  <2>2. CASE v # w
    <3>1. run'[v] = run[v] /\ RunStands(v)
        BY <2>2, <1>5, <1>7, <1>10
    <3> QED BY <3>1, <1>4, OthersStand DEF rowVars
  <2> QED BY <2>1, <2>2
<1> QED BY <1>6, <1>8, <1>9, <1>10 DEF LifecycleInv
-----------------------------------------------------------------------------
\* No run is under way when the program starts.
LEMMA InitStands ==
    ASSUME PoliciesAssumption, BoundsAssumption, ArtifactInit PROVE LifecycleInv
<1>1. ArtifactTypeOK
    BY DEF ArtifactInit, ArtifactTypeOK, States, NoCandidate, BoundsAssumption
<1>2. RunsAlone /\ \A w \in Worker : run[w] = NoRun
    BY DEF ArtifactInit, RunsAlone
<1>3. \A c \in Content : RowStands(c)
    BY DEF ArtifactInit, RowStands
<1> QED BY <1>1, <1>2, <1>3 DEF LifecycleInv

\* Every step keeps the invariant, action by action.
LEMMA NextStands ==
    ASSUME PoliciesAssumption, BoundsAssumption, LifecycleInv, [ArtifactNext]_artifactVars
    PROVE  LifecycleInv'
<1>1. CASE \E c \in Content : Accept(c) \/ LeaseExpires(c)
    BY <1>1, AcceptKeeps, LeaseKeeps
<1>2. CASE DispatchReads
    BY <1>2, DispatchKeeps
<1>3. CASE \E h \in Hand, c \in Content : Handoff(h, c) \/ HandDies(h, c)
    BY <1>3, HandoffKeeps
<1>4. CASE \E w \in Worker, c \in Content : Claim(w, c)
    BY <1>4, ClaimKeeps
<1>5. ASSUME NEW w \in Worker, Process(w) PROVE LifecycleInv'
    BY <1>5, BeginKeeps, LoadKeeps, ConvertsKeeps, RejectsKeeps, RecordsKeeps, PlansKeeps,
       StoresKeeps, PromotesKeeps, QuarantinesKeeps, SettlesKeeps, ReadsKeeps, RebuildsKeeps,
       StampsKeeps, EndKeeps DEF Process
<1>6. CASE \E w \in Worker : Errs(w) \/ Escapes(w) \/ Crash(w)
    BY <1>6, ErrsKeeps, EscapesKeeps, EndKeeps
<1>7. CASE RetryHeld \/ \E c \in Content : RecoverOrphan(c)
    BY <1>7, OperatorKeeps
<1>8. CASE \E s \in Sweeper : SweepReads(s) \/ \E c \in Content : SweepEnqueues(s, c)
    BY <1>8, SweepKeeps
<1>9. CASE UNCHANGED artifactVars
  <2>1. ArtifactTypeOK'
      BY <1>9 DEF LifecycleInv, ArtifactTypeOK, artifactVars, rowVars
  <2> QED BY <1>9, <2>1, OutsideStep DEF artifactVars, rowVars, LifecycleInv, RunsAlone
<1> QED BY <1>1, <1>2, <1>3, <1>4, <1>5, <1>6, <1>7, <1>8, <1>9 DEF ArtifactNext

\* What a run has learned of its row stays true, however replicas, crashes,
\* retries, the operator and the sweeps interleave.
THEOREM RunsStand ==
    ASSUME PoliciesAssumption, BoundsAssumption PROVE ArtifactSpec => []LifecycleInv
<1>1. ArtifactInit => LifecycleInv
    BY InitStands
<1>2. LifecycleInv /\ [ArtifactNext]_artifactVars => LifecycleInv'
    BY NextStands
<1> QED BY <1>1, <1>2, PTL DEF ArtifactSpec

\* A revision is ready only with its Markdown in production and a document
\* that makes it findable, for any number of revisions, workers and faults.
THEOREM ReadyIsFindable ==
    ASSUME PoliciesAssumption, BoundsAssumption PROVE ArtifactSpec => []ReadyFindable
<1>1. LifecycleInv => ReadyFindable
    BY DEF LifecycleInv, RowStands, ReadyFindable
<1> QED BY <1>1, RunsStand, PTL

\* A final refusal of the converter never hides a production text.
THEOREM UnreadableIsEmpty ==
    ASSUME PoliciesAssumption, BoundsAssumption PROVE ArtifactSpec => []UnreadableHasNoProduction
<1>1. LifecycleInv => UnreadableHasNoProduction
    BY DEF LifecycleInv, RowStands, UnreadableHasNoProduction
<1> QED BY <1>1, RunsStand, PTL

\* A promotion writes the run's own candidate over what it saw.
LEMMA PromotionIsOwn ==
    ASSUME LifecycleInv, [ArtifactNext]_artifactVars PROVE PromotesOwnCandidateStep
<1>1. ASSUME NEW w \in Worker, Promotes(w) PROVE PromotesOwnCandidateStep
  <2> DEFINE c == run[w].content
  <2>1. /\ c \in Content /\ run[w].pc = "promote"
        /\ SeenStands(w) /\ VerdictStands(w) /\ CandidateStands(w)
      BY <1>1, Underway DEF Promotes, At
  <2>2. \/ markdown' = [markdown EXCEPT ![c] = candidate[c].text]
        \/ markdown' = markdown
      BY <1>1 DEF Promotes
  <2>3. candidate[c].text = run[w].text /\ run[w].tried /\ markdown[c] = run[w].seen
      BY <2>1 DEF CandidateStands, SeenStands, VerdictStands
  <2>4. ASSUME NEW d \in Content, markdown'[d] # markdown[d]
        PROVE  d = c /\ markdown'[d] = run[w].text
      BY <2>2, <2>3, <2>4 DEF LifecycleInv, ArtifactTypeOK
  <2> QED BY <2>3, <2>4 DEF PromotesOwnCandidateStep
<1>2. ASSUME NEW w \in Worker, Process(w), ~ Promotes(w) PROVE UNCHANGED markdown
    BY <1>2 DEF Process, Begin, Load, Converts, Rejects, Records, Plans, Stores, Quarantines,
       Settles, Reads, Rebuilds, Stamps, Succeeds, Fails, rowVars
<1>3. ASSUME NEW w \in Worker, Errs(w) \/ Escapes(w) \/ Crash(w) \/ (\E c \in Content : Claim(w, c))
      PROVE  UNCHANGED markdown
    BY <1>3 DEF Errs, Escapes, Crash, Claim, rowVars
<1>4. ASSUME NEW h \in Hand, NEW c \in Content, Handoff(h, c) \/ HandDies(h, c)
      PROVE  UNCHANGED markdown
    BY <1>4 DEF Handoff, HandEnqueues, HandRequeues, HandMarksQueued, HandDies, rowVars
<1>5. ASSUME NEW c \in Content, Accept(c) \/ LeaseExpires(c) \/ RecoverOrphan(c)
      PROVE  UNCHANGED markdown
    BY <1>5 DEF Accept, LeaseExpires, RecoverOrphan, rowVars
<1>6. ASSUME NEW s \in Sweeper, SweepReads(s) \/ \E c \in Content : SweepEnqueues(s, c)
      PROVE  UNCHANGED markdown
    BY <1>6 DEF SweepReads, SweepEnqueues, rowVars
<1>7. CASE DispatchReads \/ RetryHeld \/ UNCHANGED artifactVars
    BY <1>7 DEF DispatchReads, RetryHeld, artifactVars, rowVars, PromotesOwnCandidateStep
<1>8. UNCHANGED markdown => PromotesOwnCandidateStep
    BY DEF PromotesOwnCandidateStep
<1> QED BY <1>1, <1>2, <1>3, <1>4, <1>5, <1>6, <1>7, <1>8 DEF ArtifactNext

\* Production text changes only by a run promoting what it converted itself,
\* over the very text it compared its own with.
THEOREM RunsPromoteTheirOwn ==
    ASSUME PoliciesAssumption, BoundsAssumption PROVE ArtifactSpec => PromotesOwnCandidate
<1>1. LifecycleInv /\ [ArtifactNext]_artifactVars => [PromotesOwnCandidateStep]_artifactVars
    BY PromotionIsOwn
<1> QED BY <1>1, RunsStand, PTL DEF ArtifactSpec, PromotesOwnCandidate

-----------------------------------------------------------------------------
(* Usage accounting.                                                       *)
CONSTANTS Steps, StepLength, RequestLength, Width, Attempts, Workers, Faults
VARIABLES step, attempt, tries, row, work, recorded
Usage == INSTANCE UsageLedger

\* Keys are constant.
LEMMA KeysFixed == /\ Usage!Keys' = Usage!Keys /\ Usage!Firsts' = Usage!Firsts
                   /\ Usage!Run' = Usage!Run /\ Usage!Idle' = Usage!Idle
  BY DEF Usage!Keys, Usage!Firsts, Usage!Run, Usage!Idle

\* The keys of first attempts are keys.
LEMMA FirstKeys == Usage!Firsts \subseteq Usage!Keys
  BY DEF Usage!Firsts

\* A key is a call, one of its captures and an attempt.
LEMMA KeyShape ==
  ASSUME NEW k
  PROVE  k \in Usage!Keys <=>
           \E c \in Calls : \E s \in 0..Steps[c], n \in 0..Attempts : k = <<c, s, n>>
  BY DEF Usage!Keys

\* The key of what a call records next is of a first attempt.
LEMMA LaterKey ==
  ASSUME Usage!LedgerAssumption, Usage!Recordings, NEW c \in Calls
  PROVE  Usage!KeyOf(c) \in Usage!Firsts /\ Usage!KeyOf(c) \in Usage!Keys
<1>1. step[c] \in Nat /\ step[c] <= Steps[c] /\ Steps[c] \in Nat /\ Attempts \in Nat
  BY DEF Usage!LedgerAssumption, Usage!Recordings
<1>2. step[c] \in 0..Steps[c] /\ 0 \in 0..Attempts
  BY <1>1
<1>3. Usage!KeyOf(c) \in Usage!Keys
  BY <1>2, KeyShape DEF Usage!KeyOf
<1>4. Usage!KeyOf(c)[3] = 0
  BY DEF Usage!KeyOf
<1>. QED  BY <1>3, <1>4 DEF Usage!Firsts

\* The recorder admits jobs and never takes one away.
LEMMA Admission ==
  ASSUME Usage!Kept, NEW k \in Usage!Firsts, Usage!Admit(k)
  PROVE  /\ job' \in [Usage!Keys -> {"none", "queued", "picked", "failed"}]
         /\ \A l \in Usage!Keys : job[l] # "none" => job'[l] # "none"
         /\ \A l \in Usage!Keys \ Usage!Firsts : job'[l] = job[l]
         /\ job'[k] # "none"
<1>1. k \in Usage!Keys
  BY DEF Usage!Firsts
<1>. QED  BY <1>1 DEF Usage!Admit, Usage!Kept

\* Jobs may come while no row and no work moves.
LEMMA JobsCome ==
  ASSUME Usage!Kept, UNCHANGED <<row, work>>,
         job' \in [Usage!Keys -> {"none", "queued", "picked", "failed"}],
         \A k \in Usage!Keys \ Usage!Firsts : job'[k] = job[k]
  PROVE  Usage!Kept'
  BY KeysFixed DEF Usage!Kept

\* What was recorded stays while jobs and rows only come.
LEMMA NoneGoes ==
  ASSUME Usage!NothingLost, Usage!Recordings,
         \A k \in Usage!Keys : job[k] # "none" => job'[k] # "none" \/ row'[k] = 1,
         \A k \in Usage!Keys : row[k] = 1 => row'[k] = 1,
         \A k \in recorded' \ recorded : job'[k] # "none"
  PROVE  Usage!NothingLost'
  BY DEF Usage!NothingLost, Usage!Recordings, Usage!Durable

\* A step of a worker touches no call.
LEMMA CallsStand ==
  ASSUME Usage!Recordings, UNCHANGED <<phase, step, recorded>>
  PROVE  Usage!Recordings'
  BY KeysFixed DEF Usage!Recordings

\* A worker's move: no row goes, and a job only when its row is there.
LEMMA WorkKeeps ==
  ASSUME Usage!LedgerInv, UNCHANGED <<phase, step, recorded>>, Usage!Kept',
         \A k \in Usage!Keys : job[k] # "none" => job'[k] # "none" \/ row'[k] = 1,
         \A k \in Usage!Keys : row[k] = 1 => row'[k] = 1
  PROVE  Usage!LedgerInv'
  BY NoneGoes, CallsStand DEF Usage!LedgerInv

\* A call's move before it has recorded what it records.
LEMMA CallsKeep ==
  ASSUME Usage!LedgerAssumption, Usage!LedgerInv, NEW c \in Calls,
         Usage!Start(c) \/ Usage!OperationFails(c) \/ Usage!RecordFails(c)
  PROVE  Usage!LedgerInv'
<1>1. UNCHANGED <<step, row, work, recorded>>
  BY DEF Usage!Start, Usage!OperationFails, Usage!RecordFails
<1>2. /\ job' \in [Usage!Keys -> {"none", "queued", "picked", "failed"}]
      /\ \A k \in Usage!Keys : job[k] # "none" => job'[k] # "none"
      /\ \A k \in Usage!Keys \ Usage!Firsts : job'[k] = job[k]
  <2>1. CASE UNCHANGED job
    BY <2>1 DEF Usage!LedgerInv, Usage!Kept
  <2>2. CASE Usage!Admit(Usage!KeyOf(c))
    BY <2>2, LaterKey, Admission DEF Usage!LedgerInv
  <2>. QED  BY <2>1, <2>2 DEF Usage!Start, Usage!OperationFails, Usage!RecordFails
<1>3. /\ phase' \in [Calls -> {"idle", "recording", "replied", "error"}]
      /\ \A d \in Calls : phase'[d] = "replied" => phase[d] = "replied"
  BY DEF Usage!Start, Usage!OperationFails, Usage!RecordFails, Usage!GiveUpOrRetry,
     Usage!LedgerInv, Usage!Recordings
<1>4. Usage!Recordings'
  BY <1>1, <1>3, KeysFixed DEF Usage!LedgerInv, Usage!Recordings
<1>5. Usage!Kept'
  BY <1>1, <1>2, JobsCome DEF Usage!LedgerInv
<1>6. Usage!NothingLost'
  BY <1>1, <1>2, NoneGoes DEF Usage!LedgerInv
<1>. QED  BY <1>4, <1>5, <1>6 DEF Usage!LedgerInv

\* A recording that returns leaves its job in the queue.
LEMMA RecordingKeeps ==
  ASSUME Usage!LedgerAssumption, Usage!LedgerInv, NEW c \in Calls, Usage!Record(c)
  PROVE  Usage!LedgerInv'
<1>1. recorded' = recorded \cup {Usage!KeyOf(c)} /\ UNCHANGED <<row, work>>
  BY DEF Usage!Record, Usage!Recorded
<1>2. Usage!KeyOf(c) \in Usage!Firsts /\ Usage!KeyOf(c) \in Usage!Keys
  BY LaterKey DEF Usage!LedgerInv
<1>3. /\ job' \in [Usage!Keys -> {"none", "queued", "picked", "failed"}]
      /\ \A k \in Usage!Keys : job[k] # "none" => job'[k] # "none"
      /\ \A k \in Usage!Keys \ Usage!Firsts : job'[k] = job[k]
      /\ job'[Usage!KeyOf(c)] # "none"
  BY <1>2, Admission DEF Usage!Record, Usage!LedgerInv
<1>4. /\ phase' \in [Calls -> {"idle", "recording", "replied", "error"}]
      /\ \A d \in Calls : phase'[d] = "replied" =>
            phase[d] = "replied" \/ (d = c /\ step[c] = Steps[c])
  BY DEF Usage!Record, Usage!Recorded, Usage!LedgerInv, Usage!Recordings
<1>5. step' \in [Calls -> Nat] /\ \A d \in Calls : step'[d] <= Steps[d]
  BY DEF Usage!Record, Usage!Recorded, Usage!LedgerInv, Usage!Recordings, Usage!LedgerAssumption
<1>6. step[c] = Steps[c] => <<c, Steps[c], 0>> \in recorded'
  BY <1>1 DEF Usage!KeyOf
<1>7. Usage!Recordings'
  BY <1>1, <1>2, <1>4, <1>5, <1>6, KeysFixed DEF Usage!LedgerInv, Usage!Recordings
<1>8. Usage!Kept'
  BY <1>1, <1>3, JobsCome DEF Usage!LedgerInv
<1>9. Usage!NothingLost'
  BY <1>1, <1>3, NoneGoes DEF Usage!LedgerInv
<1>. QED  BY <1>7, <1>8, <1>9 DEF Usage!LedgerInv

\* Every step of the accounting keeps what was recorded.
LEMMA LedgerStays ==
  ASSUME Usage!LedgerAssumption, Usage!LedgerInv, [Usage!Next]_(Usage!vars)
  PROVE  Usage!LedgerInv'
<1>. USE KeysFixed, FirstKeys DEF Usage!LedgerInv
<1>1. ASSUME NEW w \in Workers, NEW k \in Usage!Keys, Usage!Pick(w, k) PROVE Usage!LedgerInv'
  <2>1. Usage!Kept'
    BY <1>1 DEF Usage!Pick, Usage!Kept, Usage!Run
  <2>. QED  BY <1>1, <2>1, WorkKeeps DEF Usage!Pick, Usage!Kept
<1>2. ASSUME NEW w \in Workers, Usage!Insert(w) PROVE Usage!LedgerInv'
  <2>1. work[w] \in Usage!Run /\ row' = [row EXCEPT ![work[w].key] = 1]
    BY <1>2 DEF Usage!Insert, Usage!Kept, Usage!Run
  <2>2. work' = [work EXCEPT ![w].inserted = TRUE] /\ UNCHANGED <<phase, step, job, recorded>>
    BY <1>2 DEF Usage!Insert
  <2>3. [work[w] EXCEPT !.inserted = TRUE] \in Usage!Run
    BY <2>1 DEF Usage!Run
  <2>4. work' \in [Workers -> {Usage!Idle} \cup Usage!Run]
    BY <2>2, <2>3 DEF Usage!Kept
  <2>5. Usage!Kept'
    BY <1>2, <2>1, <2>2, <2>4 DEF Usage!Insert, Usage!Kept, Usage!Run
  <2>. QED  BY <2>1, <2>2, <2>5, WorkKeeps DEF Usage!Kept, Usage!Run
<1>3. ASSUME NEW w \in Workers, Usage!Ack(w) PROVE Usage!LedgerInv'
  <2>1. Usage!Kept'
    BY <1>3 DEF Usage!Ack, Usage!Kept, Usage!Run
  <2>. QED  BY <1>3, <2>1, WorkKeeps DEF Usage!Ack, Usage!Kept
<1>4. ASSUME NEW w \in Workers, Usage!HandlerFails(w) PROVE Usage!LedgerInv'
  <2>1. Usage!Kept'
    BY <1>4 DEF Usage!HandlerFails, Usage!Kept, Usage!Run
  <2>. QED  BY <1>4, <2>1, WorkKeeps DEF Usage!HandlerFails, Usage!Kept
<1>5. ASSUME NEW w \in Workers, Usage!Crash(w) PROVE Usage!LedgerInv'
  <2>1. Usage!Kept'
    BY <1>5 DEF Usage!Crash, Usage!Kept, Usage!Run
  <2>. QED  BY <1>5, <2>1, WorkKeeps DEF Usage!Crash, Usage!Kept
<1>6. ASSUME NEW k \in Usage!Keys, Usage!Reclaim(k) PROVE Usage!LedgerInv'
  <2>1. Usage!Kept'
    BY <1>6 DEF Usage!Reclaim, Usage!Kept, Usage!Run
  <2>. QED  BY <1>6, <2>1, WorkKeeps DEF Usage!Reclaim, Usage!Kept
<1>7. CASE UNCHANGED Usage!vars
  <2>1. Usage!Kept'
    BY <1>7 DEF Usage!vars, Usage!Kept
  <2>. QED  BY <1>7, <2>1, WorkKeeps DEF Usage!vars
<1>. QED
  BY <1>1, <1>2, <1>3, <1>4, <1>5, <1>6, <1>7, CallsKeep, RecordingKeeps
  DEF Usage!Next, Usage!CallStep, Usage!WorkStep

\* What was recorded stays durable, for any number of calls, captures, workers
\* and attempts, and whatever fails.
THEOREM AccountingStands ==
  ASSUME Usage!LedgerAssumption PROVE Usage!Spec => []Usage!LedgerInv
<1>1. Usage!Init => Usage!LedgerInv
  BY DEF Usage!Init, Usage!LedgerInv, Usage!Kept, Usage!Recordings, Usage!NothingLost,
     Usage!LedgerAssumption
<1>2. Usage!LedgerInv /\ [Usage!Next]_(Usage!vars) => Usage!LedgerInv'
  BY LedgerStays
<1>. QED  BY <1>1, <1>2, PTL DEF Usage!Spec

\* A reply is never delivered before its accounting is durable.
THEOREM RepliesAreAccounted ==
  ASSUME Usage!LedgerAssumption PROVE Usage!Spec => []Usage!DurableBeforeReply
<1>1. ASSUME Usage!LedgerInv, NEW c \in Calls, phase[c] = "replied"
      PROVE  \E k \in Usage!Keys : k[1] = c /\ Usage!Own(k) /\ (job[k] # "none" \/ row[k] = 1)
  <2>1. <<c, Steps[c], 0>> \in recorded /\ recorded \subseteq Usage!Keys
    BY <1>1 DEF Usage!LedgerInv, Usage!Recordings
  <2>2. Usage!Durable(<<c, Steps[c], 0>>)
    BY <1>1, <2>1 DEF Usage!LedgerInv, Usage!NothingLost
  <2>3. <<c, Steps[c], 0>>[1] = c /\ Usage!Own(<<c, Steps[c], 0>>)
    BY DEF Usage!Own
  <2>. QED  BY <2>1, <2>2, <2>3 DEF Usage!Durable
<1>2. Usage!LedgerInv => Usage!DurableBeforeReply
  BY <1>1, Zenon DEF Usage!DurableBeforeReply
<1>. QED  BY <1>2, AccountingStands, PTL

\* A capture is one row however often it is recorded and its job is run.
THEOREM CapturesAreOneRow ==
  ASSUME Usage!LedgerAssumption PROVE Usage!Spec => []Usage!OneRow
<1>1. ASSUME Usage!LedgerInv, NEW c \in Calls, NEW s \in 0..Steps[c],
             NEW k \in Usage!RowsOf(c, s)
      PROVE  k = <<c, s, 0>>
  <2>1. k \in Usage!Keys /\ k[1] = c /\ k[2] = s /\ row[k] = 1
    BY <1>1 DEF Usage!RowsOf
  <2>2. k \in Usage!Firsts
    BY <1>1, <2>1 DEF Usage!LedgerInv, Usage!Kept
  <2>3. PICK d \in Calls : \E t \in 0..Steps[d], n \in 0..Attempts : k = <<d, t, n>>
    BY <2>1, KeyShape
  <2>4. k[3] = 0
    BY <2>2 DEF Usage!Firsts
  <2>. QED  BY <2>1, <2>3, <2>4
<1>2. Usage!LedgerInv => Usage!OneRow
  BY <1>1, Zenon DEF Usage!OneRow
<1>. QED  BY <1>2, AccountingStands, PTL

-----------------------------------------------------------------------------
(* Provisioning.                                                           *)
CONSTANTS Services, Keys, MaxRows, MaxCrashes, Release, AdminNames, AppNames
VARIABLES migrated, tokenizer, tables, index, granted, vocabulary, lock, pc,
  seen, raced, dropped, admin, app, crashes
Setup == INSTANCE Provisioning

\* Where a service is while it holds the advisory lock.
Installing == {"locked", "installed", "unindexed", "indexed"}

\* What a service that has come so far can rely on, whatever the others do:
\* only the holder of the lock touches the index, a declared index stays until
\* the database goes, and it covers every job of a key.
ProvisionInv ==
  /\ pc \in [Services -> Setup!Starting \cup {"ready"}]
  /\ rows \in [Keys -> [active : Nat, failed : Nat]]
  /\ \A s \in Services : pc[s] \in Installing => lock = s
  /\ \A s \in Services : pc[s] \notin {"down", "upgrading"} => migrated
  /\ \A s \in Services : pc[s] \notin {"down", "upgrading", "migrated", "unprepared"} => tokenizer
  /\ \A s \in Services :
       pc[s] \in {"installed", "unindexed", "indexed", "queued", "privileged", "ready"} => tables
  /\ \A s \in Services : pc[s] = "unindexed" => index = "none"
  /\ \A s \in Services : pc[s] \in {"indexed", "queued", "privileged", "ready"} => index = "declared"
  /\ \A s \in Services : pc[s] \in {"queued", "privileged", "ready"} => granted
  /\ \A s \in Services : pc[s] = "ready" => vocabulary
  /\ index # "none" => tables
  /\ index = "declared" => Setup!Unique("declared")
  /\ raced = {}
  /\ Setup!DropsOnlyTheAgreed

\* Steps of setup leave the jobs and what was dropped alone.
LEMMA SetupStays ==
  ASSUME "free" \notin Services, ProvisionInv, NEW s \in Services, Setup!Setup(s)
  PROVE  ProvisionInv'
<1>. USE DEF ProvisionInv, Installing, Setup!At, Setup!Starting, Setup!database, Setup!dsns,
             Setup!DropsOnlyTheAgreed
<1>0. UNCHANGED rows => (Setup!Unique("declared") => Setup!Unique("declared")')
  BY DEF Setup!Unique, Setup!Covered
<1>. HIDE <1>0
<1>1. CASE Setup!BeginUpgrade(s)
  BY <1>0, <1>1 DEF Setup!BeginUpgrade
<1>2. CASE Setup!CommitUpgrade(s)
  BY <1>0, <1>2 DEF Setup!CommitUpgrade
<1>3. CASE Setup!ProbeTokenizer(s)
  BY <1>0, <1>3 DEF Setup!ProbeTokenizer
<1>4. CASE Setup!CreateTokenizer(s)
  BY <1>0, <1>4 DEF Setup!CreateTokenizer
<1>5. CASE Setup!TakeLock(s)
  BY <1>0, <1>5 DEF Setup!TakeLock
<1>6. CASE Setup!LibraryInstall(s)
  BY <1>0, <1>6 DEF Setup!LibraryInstall
<1>7. CASE Setup!CheckIndex(s)
  BY <1>0, <1>7 DEF Setup!CheckIndex
<1>8. CASE Setup!CreateIndex(s)
  <2>1. pc[s] = "unindexed" /\ index = "none" /\ lock = s /\ tables
    BY <1>8 DEF Setup!CreateIndex
  <2>2. UNCHANGED <<migrated, tokenizer, tables, rows, granted, vocabulary, dropped, admin, app>>
    BY <1>8 DEF Setup!CreateIndex
  <2>3. raced' = {}
    BY <1>8, <2>1 DEF Setup!CreateIndex
  <2>4. CASE Setup!Unique("declared")
    <3>1. pc' = [pc EXCEPT ![s] = "indexed"] /\ index' = "declared" /\ lock' = lock
      BY <1>8, <2>1, <2>4 DEF Setup!CreateIndex
    <3>. QED  BY <1>0, <2>1, <2>2, <2>3, <2>4, <3>1
  <2>5. CASE ~ Setup!Unique("declared")
    <3>1. pc' = [pc EXCEPT ![s] = "down"] /\ index' = "none" /\ lock' = "free"
      BY <1>8, <2>1, <2>5 DEF Setup!CreateIndex, Setup!Release_
    <3>. QED  BY <2>1, <2>2, <2>3, <3>1
  <2>. QED  BY <2>4, <2>5
<1>9. CASE Setup!GrantQueue(s)
  BY <1>0, <1>9 DEF Setup!GrantQueue, Setup!Release_
<1>10. CASE Setup!GrantRole(s)
  BY <1>0, <1>10 DEF Setup!GrantRole
<1>11. CASE Setup!RefreshVocabulary(s)
  BY <1>0, <1>11 DEF Setup!RefreshVocabulary
<1>. QED
  BY <1>1, <1>2, <1>3, <1>4, <1>5, <1>6, <1>7, <1>8, <1>9, <1>10, <1>11 DEF Setup!Setup

\* Jobs of a key change to what a declared index can cover.
LEMMA JobsMove ==
  ASSUME ProvisionInv, NEW k \in Keys, NEW a \in Nat, NEW f \in Nat, Setup!Jobs(k, a, f),
         index = "declared" => a + f <= 1
  PROVE  ProvisionInv'
<1>1. /\ rows' = [rows EXCEPT ![k] = [active |-> a, failed |-> f]]
      /\ UNCHANGED <<migrated, tokenizer, tables, index, granted, vocabulary, lock, pc, seen,
                     raced, dropped, admin, app, crashes>>
  BY DEF Setup!Jobs, Setup!dsns
<1>2. rows' \in [Keys -> [active : Nat, failed : Nat]]
  BY <1>1 DEF ProvisionInv
<1>3. index' = "declared" => Setup!Unique("declared")'
  BY <1>1 DEF ProvisionInv, Setup!Unique, Setup!Covered
<1>. QED
  BY <1>1, <1>2, <1>3 DEF ProvisionInv, Installing, Setup!Starting, Setup!DropsOnlyTheAgreed

\* A job that is enqueued, ends, is held or requeued keeps a declared index true.
LEMMA JobsStayUnique ==
  ASSUME ProvisionInv, NEW k \in Keys, Setup!Use(k)
  PROVE  ProvisionInv'
<1>1. rows[k].active \in Nat /\ rows[k].failed \in Nat
  BY DEF ProvisionInv
<1>2. index = "declared" => rows[k].active + rows[k].failed <= 1
  BY DEF ProvisionInv, Setup!Unique, Setup!Covered
<1>3. CASE Setup!Enqueue(k)
  <2>1. index = "declared" => rows[k].active + rows[k].failed = 0
    BY <1>3 DEF Setup!Enqueue, Setup!Covered
  <2>2. Setup!Jobs(k, rows[k].active + 1, rows[k].failed)
    BY <1>3 DEF Setup!Enqueue
  <2>. QED  BY <1>1, <2>1, <2>2, JobsMove
<1>4. CASE Setup!Finish(k)
  <2>1. Setup!Jobs(k, rows[k].active - 1, rows[k].failed) /\ rows[k].active - 1 \in Nat
    BY <1>1, <1>4 DEF Setup!Finish
  <2>. QED  BY <1>1, <1>2, <2>1, JobsMove
<1>5. CASE Setup!Hold(k)
  <2>1. /\ Setup!Jobs(k, rows[k].active - 1, rows[k].failed + 1)
        /\ rows[k].active - 1 \in Nat /\ rows[k].failed + 1 \in Nat
    BY <1>1, <1>5 DEF Setup!Hold
  <2>. QED  BY <1>1, <1>2, <2>1, JobsMove
<1>6. CASE Setup!RequeueFailed(k)
  <2>1. /\ Setup!Jobs(k, rows[k].active + 1, rows[k].failed - 1)
        /\ rows[k].active + 1 \in Nat /\ rows[k].failed - 1 \in Nat
    BY <1>1, <1>6 DEF Setup!RequeueFailed
  <2>. QED  BY <1>1, <1>2, <2>1, JobsMove
<1>. QED  BY <1>3, <1>4, <1>5, <1>6 DEF Setup!Use

\* Every step of setup, of the jobs and of a reset keeps it.
LEMMA ProvisionStays ==
  ASSUME "free" \notin Services, ProvisionInv, [Setup!Next]_(Setup!vars)
  PROVE  ProvisionInv'
<1>. USE DEF Setup!database, Setup!dsns
<1>1. CASE Setup!Reset
  <2>1. /\ rows' = [k \in Keys |-> [active |-> 0, failed |-> 0]]
        /\ index' = "none" /\ UNCHANGED <<lock, pc, raced>>
        /\ \A s \in Services : pc[s] = "down"
    BY <1>1 DEF Setup!Reset
  <2>2. Setup!DropsOnlyTheAgreed'
    BY <1>1 DEF Setup!Reset, Setup!ResetTarget, Setup!DropsOnlyTheAgreed, Setup!Maintenance
  <2>. QED  BY <2>1, <2>2 DEF ProvisionInv, Installing, Setup!Starting
<1>2. ASSUME NEW s \in Services, Setup!Crash(s) PROVE ProvisionInv'
  <2>1. /\ pc' = [pc EXCEPT ![s] = "down"] /\ lock' = IF lock = s THEN "free" ELSE lock
        /\ UNCHANGED <<migrated, tokenizer, tables, index, rows, granted, vocabulary, raced,
                       dropped, admin, app>>
    BY <1>2 DEF Setup!Crash, Setup!Release_
  <2>2. Setup!Unique("declared") => Setup!Unique("declared")'
    BY <2>1 DEF Setup!Unique, Setup!Covered
  <2>. QED
    BY <2>1, <2>2 DEF ProvisionInv, Installing, Setup!Starting, Setup!DropsOnlyTheAgreed
<1>3. CASE UNCHANGED Setup!vars
  BY <1>3 DEF Setup!vars, ProvisionInv, Installing, Setup!Starting, Setup!DropsOnlyTheAgreed,
     Setup!Unique, Setup!Covered
<1>. QED  BY <1>1, <1>2, <1>3, SetupStays, JobsStayUnique DEF Setup!Next

\* Whatever crashes and whoever starts at once, what ProvisionInv says stands.
THEOREM ProvisioningStands ==
  ASSUME "free" \notin Services PROVE Setup!Spec => []ProvisionInv
<1>1. Setup!Init => ProvisionInv
  BY DEF Setup!Init, ProvisionInv, Installing, Setup!Starting, Setup!Unique, Setup!Covered,
     Setup!DropsOnlyTheAgreed
<1>2. ProvisionInv /\ [Setup!Next]_(Setup!vars) => ProvisionInv'
  BY ProvisionStays
<1>. QED  BY <1>1, <1>2, PTL DEF Setup!Spec

\* A service that is up finds everything it depends on, no two jobs share a
\* dedupe key, the rebuild of the index is never raced, and reset drops only
\* the database both DSNs name.
THEOREM ServedDatabasesStand ==
  ASSUME "free" \notin Services
  PROVE  Setup!Spec => /\ []Setup!ServedComplete /\ []Setup!UniqueWhenServed
                       /\ []Setup!RebuildNeverRaced /\ []Setup!DropsOnlyTheAgreed
<1>1. ProvisionInv => Setup!ServedComplete
  BY DEF ProvisionInv, Setup!ServedComplete
<1>2. ProvisionInv => Setup!UniqueWhenServed
  BY DEF ProvisionInv, Setup!UniqueWhenServed
<1>3. ProvisionInv => Setup!RebuildNeverRaced /\ Setup!DropsOnlyTheAgreed
  BY DEF ProvisionInv, Setup!RebuildNeverRaced
<1>. QED  BY <1>1, <1>2, <1>3, ProvisioningStands, PTL

\* A start over a declared index never takes it away.
THEOREM IndexStays ==
  ASSUME "free" \notin Services
  PROVE  Setup!Spec => [][Setup!SteadyStartKeepsIndex]_(Setup!vars)
<1>1. ProvisionInv /\ [Setup!Next]_(Setup!vars) => [Setup!SteadyStartKeepsIndex]_(Setup!vars)
  <2>. SUFFICES ASSUME ProvisionInv, Setup!Next, index = "declared"
                PROVE  index' = "declared" \/ dropped' # dropped
    BY DEF Setup!SteadyStartKeepsIndex
  <2>1. CASE Setup!Reset
    BY <2>1 DEF Setup!Reset
  <2>2. ASSUME NEW s \in Services, Setup!Setup(s) PROVE index' = "declared"
    BY <2>2 DEF Setup!Setup, Setup!BeginUpgrade, Setup!CommitUpgrade, Setup!ProbeTokenizer,
       Setup!CreateTokenizer, Setup!TakeLock, Setup!LibraryInstall, Setup!CheckIndex,
       Setup!CreateIndex, Setup!GrantQueue, Setup!GrantRole, Setup!RefreshVocabulary,
       Setup!At, Setup!database, ProvisionInv
  <2>3. ASSUME NEW s \in Services, Setup!Crash(s) PROVE index' = "declared"
    BY <2>3 DEF Setup!Crash, Setup!database
  <2>4. ASSUME NEW k \in Keys, Setup!Use(k) PROVE index' = "declared"
    BY <2>4 DEF Setup!Use, Setup!Enqueue, Setup!Finish, Setup!Hold, Setup!RequeueFailed, Setup!Jobs
  <2>. QED  BY <2>1, <2>2, <2>3, <2>4 DEF Setup!Next
<1>. QED  BY <1>1, ProvisioningStands, PTL DEF Setup!Spec

-----------------------------------------------------------------------------
(* Archives.                                                               *)
CONSTANTS Scheduled, Manual, KeepDays, MaxDay, MaxWrites
VARIABLES day, database, archive, dumping, pruning, restoring, ensuring,
  best, served
Dumps == INSTANCE Backups

\* Cardinality is the one the library's theorems speak of.
LEMMA SameCardinality ==
  ASSUME NEW S PROVE Dumps!Cardinality(S) = Cardinality(S)
  BY DEF Dumps!Cardinality, Cardinality

\* Archives, dumps and restores hold generations that were served, or are torn.
Generations(g) ==
  /\ g \in SUBSET (1..MaxWrites)
  /\ day \in 0..MaxDay /\ database \in g
  /\ archive \in [Dumps!Names -> [holds : g \cup {Dumps!Torn}, day : 0..MaxDay] \cup {Dumps!None}]
  /\ dumping \in [Dumps!Names -> g \cup {Dumps!Torn}]
  /\ restoring \in SUBSET [name : Dumps!Names, holds : g \cup {Dumps!Torn}]

\* The newest scheduled archive is complete, and it is today's while a prune is due.
Newest(n) ==
  /\ archive[n] # Dumps!None /\ archive[n].holds = best /\ dumping[n] = Dumps!Torn
  /\ pruning # {} => archive[n].day = day

BackupInv ==
  /\ Generations(served) /\ best \in 0..MaxWrites
  /\ best > 0 => \E n \in Scheduled : Newest(n)
  /\ Dumps!LexicalStands

\* What names and tokens are does not change.
LEMMA BackupsFixed == /\ Dumps!Names' = Dumps!Names /\ Dumps!Torn' = Dumps!Torn
                      /\ Dumps!None' = Dumps!None
  BY DEF Dumps!Names, Dumps!Torn, Dumps!None

\* A write is a generation of its own, below what a torn archive holds.
LEMMA WriteIsServed ==
  ASSUME Dumps!BackupAssumption, Generations(served), Dumps!Write
  PROVE  /\ served' \in SUBSET (1..MaxWrites) /\ served \subseteq served'
         /\ database' \in served'
<1>1. IsFiniteSet(1..MaxWrites)
  BY FS_Interval DEF Dumps!BackupAssumption
<1>2. IsFiniteSet(served)
  BY <1>1, FS_Subset DEF Generations
<1>3. Cardinality(served) \in Nat
  BY <1>2, FS_CardinalityType
<1>4. /\ Cardinality(served) < MaxWrites /\ database' = Cardinality(served) + 1
      /\ served' = served \cup {database'}
  BY SameCardinality DEF Dumps!Write
<1>5. database' \in 1..MaxWrites
  BY <1>3, <1>4 DEF Dumps!BackupAssumption
<1>. QED  BY <1>4, <1>5 DEF Generations

\* More generations are served and nothing else moves.
LEMMA GenerationsGrow ==
  ASSUME NEW g, NEW h, Generations(g), g \subseteq h, h \in SUBSET (1..MaxWrites)
  PROVE  Generations(h)
  BY DEF Generations

\* A name that is dumped to, or dumped: a torn or a complete archive of today.
LEMMA ArchivesMove ==
  ASSUME Dumps!BackupAssumption, BackupInv, NEW n \in Dumps!Names, NEW d \in served \cup {Dumps!Torn},
         NEW h \in served \cup {Dumps!Torn},
         archive' = [archive EXCEPT ![n] = [holds |-> h, day |-> day]],
         dumping' = [dumping EXCEPT ![n] = d],
         UNCHANGED <<day, database, served>>,
         restoring' \in SUBSET [name : Dumps!Names, holds : served \cup {Dumps!Torn}]
  PROVE  Generations(served)' /\ archive'[n] # Dumps!None
  BY BackupsFixed DEF BackupInv, Generations, Dumps!None, Dumps!BackupAssumption

\* Every step keeps the newest scheduled archive.
LEMMA BackupsStay ==
  ASSUME Dumps!BackupAssumption, BackupInv, [Dumps!Next]_(Dumps!vars)
  PROVE  BackupInv'
<1>. USE BackupsFixed
<1>1. CASE Dumps!Write
  <2>1. UNCHANGED <<day, tokenizer, archive, dumping, pruning, restoring, ensuring, best>>
    BY <1>1 DEF Dumps!Write
  <2>2. Generations(served')
    BY <1>1, WriteIsServed, GenerationsGrow DEF BackupInv
  <2>3. database' \in served'
    BY <1>1, WriteIsServed DEF BackupInv
  <2>4. Generations(served)'
    BY <2>1, <2>2, <2>3 DEF Generations
  <2>. QED  BY <2>1, <2>4 DEF BackupInv, Newest, Dumps!LexicalStands
<1>2. CASE Dumps!Tomorrow
  <2>1. /\ pruning = {} /\ day < MaxDay /\ day' = day + 1
        /\ UNCHANGED <<database, tokenizer, archive, dumping, pruning, restoring, ensuring, best,
                       served>>
    BY <1>2 DEF Dumps!Tomorrow
  <2>2. day' \in 0..MaxDay
    BY <2>1 DEF BackupInv, Generations, Dumps!BackupAssumption
  <2>. QED  BY <2>1, <2>2 DEF BackupInv, Generations, Newest, Dumps!LexicalStands
<1>3. CASE Dumps!Prune
  <2>1. /\ pruning # {} /\ pruning' = {}
        /\ archive' = [n \in Dumps!Names |-> IF Dumps!Expired(n) THEN Dumps!None ELSE archive[n]]
        /\ dumping' = [n \in Dumps!Names |-> IF Dumps!Expired(n) THEN Dumps!Torn ELSE dumping[n]]
        /\ UNCHANGED <<day, database, tokenizer, restoring, ensuring, best, served>>
    BY <1>3 DEF Dumps!Prune, Dumps!Idle
  <2>2. Generations(served)'
    BY <2>1 DEF BackupInv, Generations
  <2>3. ASSUME NEW n \in Scheduled, Newest(n) PROVE Newest(n)'
    <3>1. archive[n].day = day /\ n \in Dumps!Names
      BY <2>1, <2>3 DEF Newest, Dumps!Names
    <3>2. ~ Dumps!Expired(n)
      BY <3>1 DEF Dumps!Expired, Dumps!BackupAssumption, BackupInv, Generations
    <3>. QED  BY <2>1, <2>3, <3>1, <3>2 DEF Newest
  <2>. QED  BY <2>1, <2>2, <2>3 DEF BackupInv, Dumps!LexicalStands
<1>4. CASE Dumps!PruneNever
  BY <1>4 DEF Dumps!PruneNever, BackupInv, Generations, Newest, Dumps!LexicalStands
<1>5. CASE Dumps!Ensure
  BY <1>5 DEF Dumps!Ensure, BackupInv, Generations, Newest, Dumps!LexicalStands
<1>6. ASSUME NEW n \in Dumps!Names, Dumps!Open(n) PROVE BackupInv'
  <2>1. /\ archive' = [archive EXCEPT ![n] = [holds |-> Dumps!Torn, day |-> day]]
        /\ dumping' = [dumping EXCEPT ![n] = database]
        /\ UNCHANGED <<day, database, tokenizer, pruning, ensuring, best, served>>
        /\ n \in Scheduled => archive[n] = Dumps!None
    BY <1>6 DEF Dumps!Open, Dumps!FreeStamp, Dumps!Exists
  <2>2. restoring' \in SUBSET [name : Dumps!Names, holds : served \cup {Dumps!Torn}]
    BY <1>6 DEF Dumps!Open, BackupInv, Generations
  <2>3. Generations(served)'
    BY <2>1, <2>2, ArchivesMove DEF BackupInv, Generations
  <2>4. ASSUME NEW m \in Scheduled, Newest(m) PROVE Newest(m)'
    <3>1. m # n /\ m \in Dumps!Names
      BY <2>1, <2>4 DEF Newest, Dumps!Names
    <3>. QED  BY <2>1, <2>4, <3>1 DEF Newest, BackupInv, Generations
  <2>. QED  BY <2>1, <2>3, <2>4 DEF BackupInv, Dumps!LexicalStands
<1>7. ASSUME NEW n \in Dumps!Names, Dumps!Close(n) PROVE BackupInv'
  <2>1. /\ archive' = [archive EXCEPT ![n] = [holds |-> dumping[n], day |-> day]]
        /\ dumping' = [dumping EXCEPT ![n] = Dumps!Torn]
        /\ UNCHANGED <<day, database, tokenizer, restoring, ensuring, served>>
        /\ dumping[n] # Dumps!Torn
    BY <1>7 DEF Dumps!Close, Dumps!Idle
  <2>2. dumping[n] \in served /\ dumping[n] \in 1..MaxWrites
    BY <2>1 DEF BackupInv, Generations
  <2>3. Generations(served)' /\ archive'[n] # Dumps!None
    BY <2>1, <2>2, ArchivesMove DEF BackupInv, Generations
  <2>4. CASE n \in Scheduled
    <3>1. best' = dumping[n]
      BY <1>7, <2>4 DEF Dumps!Close
    <3>2. /\ archive'[n] = [holds |-> dumping[n], day |-> day]
          /\ dumping'[n] = Dumps!Torn
      BY <2>1 DEF BackupInv, Generations
    <3>4. Newest(n)'
      BY <2>1, <2>3, <3>1, <3>2 DEF Newest
    <3>3. best' \in 0..MaxWrites
      BY <2>2, <3>1 DEF Dumps!BackupAssumption
    <3>. QED  BY <2>1, <2>3, <2>4, <3>3, <3>4 DEF BackupInv, Dumps!LexicalStands
  <2>5. CASE n \notin Scheduled
    <3>1. UNCHANGED <<pruning, best>>
      BY <1>7, <2>5 DEF Dumps!Close
    <3>2. ASSUME NEW m \in Scheduled, Newest(m) PROVE Newest(m)'
      <4>1. m # n /\ m \in Dumps!Names
        BY <2>5 DEF Dumps!Names
      <4>. QED  BY <2>1, <3>1, <3>2, <4>1 DEF Newest, BackupInv, Generations
    <3>. QED  BY <2>1, <2>3, <3>1, <3>2 DEF BackupInv, Dumps!LexicalStands
  <2>. QED  BY <2>4, <2>5
<1>8. ASSUME NEW n \in Dumps!Names, Dumps!DumpFails(n) PROVE BackupInv'
  <2>1. /\ dumping' = [dumping EXCEPT ![n] = Dumps!Torn]
        /\ UNCHANGED <<day, database, tokenizer, archive, pruning, restoring, ensuring, best, served>>
    BY <1>8 DEF Dumps!DumpFails, Dumps!Idle
  <2>2. Generations(served)'
    BY <2>1 DEF BackupInv, Generations
  <2>3. ASSUME NEW m \in Scheduled, Newest(m) PROVE Newest(m)'
    BY <2>1, <2>3 DEF Newest, BackupInv, Generations, Dumps!Names
  <2>. QED  BY <2>1, <2>2, <2>3 DEF BackupInv, Dumps!LexicalStands
<1>9. ASSUME NEW n \in Dumps!Names, Dumps!Restore(n) PROVE BackupInv'
  <2>1. /\ restoring' = {[name |-> n, holds |-> archive[n].holds]} /\ archive[n] # Dumps!None
        /\ UNCHANGED <<day, database, tokenizer, archive, dumping, pruning, ensuring, best, served>>
    BY <1>9 DEF Dumps!Restore, Dumps!Exists
  <2>2. Generations(served)'
    BY <2>1 DEF BackupInv, Generations
  <2>. QED  BY <2>1, <2>2 DEF BackupInv, Newest, Dumps!LexicalStands
<1>10. ASSUME NEW r \in restoring, Dumps!Replace(r) PROVE BackupInv'
  <2>1. /\ restoring' = {} /\ UNCHANGED <<day, archive, dumping, pruning, best, served>>
        /\ \/ r.holds # Dumps!Torn /\ database' = r.holds /\ ensuring'
           \/ UNCHANGED <<database, tokenizer, ensuring>>
    BY <1>10 DEF Dumps!Replace
  <2>2. Generations(served)'
    BY <2>1 DEF BackupInv, Generations
  <2>. QED  BY <2>1, <2>2 DEF BackupInv, Newest, Dumps!LexicalStands
<1>11. CASE UNCHANGED Dumps!vars
  BY <1>11 DEF Dumps!vars, BackupInv, Generations, Newest, Dumps!LexicalStands
<1>. QED
  BY <1>1, <1>2, <1>3, <1>4, <1>5, <1>6, <1>7, <1>8, <1>9, <1>10, <1>11 DEF Dumps!Next

\* Backups keep their invariant.
LEMMA BackupsInvariant ==
  ASSUME Dumps!BackupAssumption PROVE Dumps!Spec => []BackupInv
<1>1. Dumps!Init => BackupInv
  BY DEF Dumps!Init, BackupInv, Generations, Dumps!LexicalStands, Dumps!BackupAssumption,
     Dumps!Idle
<1>2. BackupInv /\ [Dumps!Next]_(Dumps!vars) => BackupInv'
  BY BackupsStay
<1>. QED  BY <1>1, <1>2, PTL DEF Dumps!Spec

\* After a scheduled dump has succeeded a complete archive at least as new is
\* there, the database is one generation it was in, and after a restore the
\* tokenizer stands again: for any days, names and writes, whatever fails.
THEOREM BackupsStand ==
  ASSUME Dumps!BackupAssumption
  PROVE  Dumps!Spec => []Dumps!Recoverable /\ []Dumps!RestoredWhole /\ []Dumps!LexicalStands
<1>1. BackupInv => Dumps!Recoverable
  BY DEF BackupInv, Newest, Dumps!Recoverable, Dumps!Exists
<1>2. BackupInv => Dumps!RestoredWhole /\ Dumps!LexicalStands
  BY DEF BackupInv, Generations, Dumps!RestoredWhole
<1>. QED  BY <1>1, <1>2, BackupsInvariant, PTL

\* Pruning takes nothing that is not past its days, whatever runs beside it.
THEOREM YoungArchivesStay ==
  ASSUME Dumps!BackupAssumption
  PROVE  Dumps!Spec => [][Dumps!PruneKeepsYoung]_(Dumps!vars)
<1>1. BackupInv /\ [Dumps!Next]_(Dumps!vars) => [Dumps!PruneKeepsYoung]_(Dumps!vars)
  <2>. SUFFICES ASSUME BackupInv, Dumps!Next, NEW n \in Dumps!Names,
                       archive[n] # Dumps!None, archive'[n] = Dumps!None
                PROVE  day - archive[n].day > KeepDays
    BY BackupsFixed DEF Dumps!PruneKeepsYoung, Dumps!Exists
  <2>1. CASE Dumps!Prune
    BY <2>1 DEF Dumps!Prune, Dumps!Expired
  <2>2. ASSUME NEW m \in Dumps!Names, Dumps!Open(m) \/ Dumps!Close(m) PROVE FALSE
    <3>1. PICK h : archive' = [archive EXCEPT ![m] = [holds |-> h, day |-> day]]
      BY <2>2 DEF Dumps!Open, Dumps!Close
    <3>2. [holds |-> h, day |-> day] # Dumps!None
      BY DEF BackupInv, Generations, Dumps!None, Dumps!BackupAssumption
    <3>. QED  BY <3>1, <3>2 DEF BackupInv, Generations
  <2>3. CASE UNCHANGED archive
    BY <2>3
  <2>. QED
    BY <2>1, <2>2, <2>3 DEF Dumps!Next, Dumps!Write, Dumps!Tomorrow, Dumps!PruneNever, Dumps!Ensure,
       Dumps!DumpFails, Dumps!Restore, Dumps!Replace
<1>. QED  BY <1>1, BackupsInvariant, PTL DEF Dumps!Spec

-----------------------------------------------------------------------------
(* Organizations.                                                          *)
CONSTANTS People, Roles, Titles, Orgs, Founded, MaxCalls
VARIABLES title, directory, call, excused, begun
Org == INSTANCE Organizations

\* A call has the steps of its operation, and no organization before its post.
CallRecord == [step : {"idle"} \cup Org!Requests,
               op : {"none", "create", "add", "set_role", "remove"},
               by : People \cup {"none"}, who : People \cup {"none"}, org : Orgs \cup {"none"},
               role : Roles \cup {"none"}, title : Titles \cup {"none"}]
CallShape(k) ==
  /\ k.step \in {"post", "join", "assign", "undo"} <=> k.op \in {"create", "add"}
  /\ k.step = "post" <=> k.op = "create" /\ k.org = "none"
  /\ k.step = "replace" <=> k.op = "set_role"
  /\ k.step = "delete" <=> k.op = "remove"
  /\ k.op = "create" => k.role = "admin"
  /\ k.op # "none" => k.who \in People

\* A member p of o without any role, and one that a call works on or that is
\* left of one that could not clean up.
Bare(o, p) == o \in DOMAIN directory /\ p \in DOMAIN directory[o] /\ directory[o][p] = {}
Owes(k, o, p) == k.op \in {"add", "create"} /\ k.org = o /\ k.who = p
Owed(o, p) == (\E c \in Calls : Owes(call[c], o, p)) \/ \E k \in excused : Owes(k, o, p)

Members == \A o \in DOMAIN directory : o \in Orgs /\ DOMAIN directory[o] \subseteq People
BareInv ==
  /\ Members
  /\ call \in [Calls -> CallRecord] /\ \A c \in Calls : CallShape(call[c])
  /\ \A o, p : Bare(o, p) => Owed(o, p)

\* What Logto does to members without a role for a request it admits.
LEMMA ActedBare ==
  ASSUME BareInv, NEW k \in CallRecord, CallShape(k), k.step \in Org!Requests,
         Org!Admitted(k), Org!Acted(k), NEW o, NEW p, Bare(o, p)'
  PROVE  /\ Bare(o, p) \/ (k.step = "join" /\ o = k.org /\ p = k.who)
         /\ k.step \in {"assign", "undo"} => ~ (o = k.org /\ p = k.who)
<1>. USE DEF Bare, Org!Acted, Org!With, Org!Without, Org!Existing, Org!Requests, CallShape
<1>1. CASE k.step = "post"
  BY <1>1
<1>2. CASE k.step = "join"
  BY <1>2 DEF Org!Admitted, Org!Joined
<1>3. CASE k.step = "assign"
  BY <1>3 DEF Org!Admitted
<1>4. CASE k.step = "replace"
  BY <1>4 DEF Org!Admitted
<1>5. CASE k.step = "delete"
  BY <1>5 DEF Org!Admitted, Org!Expelled
<1>6. CASE k.step = "undo" /\ k.op = "create"
  BY <1>6 DEF Org!Admitted
<1>7. CASE k.step = "undo" /\ k.op # "create"
  BY <1>7 DEF Org!Admitted, Org!Expelled
<1>. QED  BY <1>1, <1>2, <1>3, <1>4, <1>5, <1>6, <1>7

\* Directories stay among the ids Logto may give out, members among the people.
LEMMA ActedMembers ==
  ASSUME BareInv, NEW k \in CallRecord, CallShape(k), k.step \in Org!Requests,
         Org!Admitted(k), Org!Acted(k)
  PROVE  /\ Members'
         /\ k.step = "post" => Org!NewOrg(k) \in Orgs /\ Org!NewOrg(k) \notin DOMAIN directory
<1>. USE DEF Org!Acted, Org!With, Org!Without, Org!Existing, Org!Requests, CallShape, BareInv,
             Members
<1>0. k.step = "post" => Org!NewOrg(k) \in Orgs /\ Org!NewOrg(k) \notin DOMAIN directory
  BY DEF Org!Admitted, Org!NewOrg
<1>1. CASE k.step = "post"
  BY <1>0, <1>1
<1>2. CASE k.step = "join"
  BY <1>2 DEF Org!Admitted, Org!Joined
<1>3. CASE k.step \in {"assign", "replace"}
  BY <1>3 DEF Org!Admitted
<1>4. CASE k.step = "delete" \/ (k.step = "undo" /\ k.op # "create")
  BY <1>4 DEF Org!Admitted, Org!Expelled
<1>5. CASE k.step = "undo" /\ k.op = "create"
  BY <1>5 DEF Org!Admitted
<1>. QED  BY <1>0, <1>1, <1>2, <1>3, <1>4, <1>5

\* A call becomes new while what it owed is settled, excused or owed by new.
LEMMA CallMoves ==
  ASSUME BareInv, NEW c \in Calls, NEW new \in CallRecord, CallShape(new),
         call' = [call EXCEPT ![c] = new], excused \subseteq excused',
         Members',
         \A o, p : Bare(o, p)' => \/ Bare(o, p) /\ ~ Owes(call[c], o, p)
                                  \/ Owes(new, o, p)
                                  \/ \E k \in excused' : Owes(k, o, p)
  PROVE  BareInv'
<1>1. call' \in [Calls -> CallRecord] /\ \A d \in Calls : CallShape(call'[d])
  BY DEF BareInv
<1>2. ASSUME NEW o, NEW p, Bare(o, p)' PROVE Owed(o, p)'
  <2>1. CASE Bare(o, p) /\ ~ Owes(call[c], o, p)
    <3>1. CASE \E k \in excused : Owes(k, o, p)
      BY <3>1 DEF Owed, Owes
    <3>2. ASSUME NEW d \in Calls, Owes(call[d], o, p) PROVE Owed(o, p)'
      <4>1. d # c
        BY <2>1, <3>2
      <4>2. call'[d] = call[d]
        BY <4>1 DEF BareInv
      <4>. QED  BY <3>2, <4>2 DEF Owed, Owes
    <3>. QED  BY <2>1, <3>1, <3>2 DEF BareInv, Owed
  <2>2. CASE Owes(new, o, p)
    <3>1. call'[c] = new
      BY DEF BareInv
    <3>. QED  BY <2>2, <3>1 DEF Owed, Owes
  <2>3. CASE \E k \in excused' : Owes(k, o, p)
    BY <2>3 DEF Owed, Owes
  <2>. QED  BY <1>2, <2>1, <2>2, <2>3
<1>3. (CallRecord' = CallRecord) /\ \A k : CallShape(k)' <=> CallShape(k)
  BY DEF CallRecord, CallShape, Org!Requests
<1>. QED  BY <1>1, <1>2, <1>3 DEF BareInv, CallShape

\* Where a call goes: on with what it is about, or to rest.
Onward(k, to) == IF to \in Org!Requests THEN [k EXCEPT !.step = to] ELSE Org!IdleCall

\* It keeps its shape, and owes what it owed unless it rests.
LEMMA GoesOn ==
  ASSUME NEW k \in CallRecord, CallShape(k), k.step \in Org!Requests \ {"post"},
         NEW to \in {Org!After(k), Org!AfterError(k)}
  PROVE  /\ Onward(k, to) \in CallRecord /\ CallShape(Onward(k, to))
         /\ to \in Org!Requests => \A o, p : Owes(k, o, p) <=> Owes(Onward(k, to), o, p)
  BY DEF CallRecord, CallShape, Org!After, Org!AfterError, Org!Requests, Onward, Owes, Org!IdleCall,
     Org!None

\* At rest a call owes nothing.
LEMMA RestOwesNothing ==
  /\ Org!IdleCall \in CallRecord /\ CallShape(Org!IdleCall)
  /\ \A o, p : ~ Owes(Org!IdleCall, o, p)
  BY DEF CallRecord, CallShape, Org!IdleCall, Org!None, Org!Requests, Owes

\* A call that opens was at rest and owes nobody yet.
LEMMA OpenKeepsBare ==
  ASSUME BareInv, NEW c \in Calls, NEW new \in CallRecord, CallShape(new), Org!Open(c, new)
  PROVE  BareInv'
<1>1. /\ call[c] = Org!IdleCall /\ call' = [call EXCEPT ![c] = new]
      /\ UNCHANGED <<directory, excused>>
  BY DEF Org!Open
<1>2. Members' /\ excused \subseteq excused'
  BY <1>1 DEF BareInv, Members
<1>3. \A o, p : Bare(o, p)' => Bare(o, p) /\ ~ Owes(call[c], o, p)
  BY <1>1, RestOwesNothing DEF Bare
<1>. QED  BY <1>1, <1>2, <1>3, CallMoves

\* The calls that begin.
LEMMA BeginKeepsBare ==
  ASSUME Org!OrganizationsAssumption, BareInv, NEW c \in Calls,
         Org!Create(c) \/ Org!Add(c) \/ Org!SetRole(c) \/ Org!Remove(c)
  PROVE  BareInv'
<1>. USE DEF CallRecord, CallShape, Org!IdleCall, Org!None, Org!Requests, Org!Existing,
             Org!OrganizationsAssumption
<1>0. \A o \in DOMAIN directory : o \in Orgs /\ DOMAIN directory[o] \subseteq People
  BY DEF BareInv, Members
<1>1. CASE Org!Create(c)
  <2>1. PICK p \in People, t \in Titles :
          Org!Open(c, [Org!IdleCall EXCEPT !.op = "create", !.by = p, !.who = p, !.role = "admin",
                                           !.title = t, !.step = "post"])
    BY <1>1 DEF Org!Create
  <2>. DEFINE new == [Org!IdleCall EXCEPT !.op = "create", !.by = p, !.who = p, !.role = "admin",
                                          !.title = t, !.step = "post"]
  <2>2. new \in CallRecord /\ CallShape(new)
    OBVIOUS
  <2>. HIDE DEF new
  <2>. QED  BY <2>1, <2>2, OpenKeepsBare DEF new
<1>2. CASE Org!Add(c)
  <2>1. PICK p, who \in People, o \in Org!Existing, role \in Roles :
          Org!Open(c, [Org!IdleCall EXCEPT !.op = "add", !.by = p, !.who = who, !.org = o,
                                           !.role = role, !.step = "join"])
    BY <1>2 DEF Org!Add
  <2>. DEFINE new == [Org!IdleCall EXCEPT !.op = "add", !.by = p, !.who = who, !.org = o,
                                           !.role = role, !.step = "join"]
  <2>2. new \in CallRecord /\ CallShape(new)
    BY <1>0
  <2>. HIDE DEF new
  <2>. QED  BY <2>1, <2>2, OpenKeepsBare DEF new
<1>3. CASE Org!SetRole(c)
  <2>1. PICK p \in People, o \in Org!Existing, role \in Roles : \E who \in DOMAIN directory[o] :
          Org!Open(c, [Org!IdleCall EXCEPT !.op = "set_role", !.by = p, !.who = who, !.org = o,
                                           !.role = role, !.step = "replace"])
    BY <1>3 DEF Org!SetRole
  <2>3. PICK who \in DOMAIN directory[o] :
          Org!Open(c, [Org!IdleCall EXCEPT !.op = "set_role", !.by = p, !.who = who, !.org = o,
                                           !.role = role, !.step = "replace"])
    BY <2>1
  <2>. DEFINE new == [Org!IdleCall EXCEPT !.op = "set_role", !.by = p, !.who = who, !.org = o,
                                           !.role = role, !.step = "replace"]
  <2>2. new \in CallRecord /\ CallShape(new)
    BY <1>0
  <2>. HIDE DEF new
  <2>. QED  BY <2>2, <2>3, OpenKeepsBare DEF new
<1>4. CASE Org!Remove(c)
  <2>1. PICK p \in People, o \in Org!Existing : \E who \in DOMAIN directory[o] :
          Org!Open(c, [Org!IdleCall EXCEPT !.op = "remove", !.by = p, !.who = who, !.org = o,
                                           !.step = "delete"])
    BY <1>4 DEF Org!Remove
  <2>3. PICK who \in DOMAIN directory[o] :
          Org!Open(c, [Org!IdleCall EXCEPT !.op = "remove", !.by = p, !.who = who, !.org = o,
                                           !.step = "delete"])
    BY <2>1
  <2>. DEFINE new == [Org!IdleCall EXCEPT !.op = "remove", !.by = p, !.who = who, !.org = o,
                                           !.step = "delete"]
  <2>2. new \in CallRecord /\ CallShape(new)
    BY <1>0
  <2>. HIDE DEF new
  <2>. QED  BY <2>2, <2>3, OpenKeepsBare DEF new
<1>. QED  BY <1>1, <1>2, <1>3, <1>4

\* A request is answered.
LEMMA AnswerKeepsBare ==
  ASSUME Org!OrganizationsAssumption, BareInv, NEW c \in Calls, Org!Answer(c)
  PROVE  BareInv'
<1>1. PICK k : k = call[c]
  OBVIOUS
<1>2. /\ k \in CallRecord /\ CallShape(k) /\ k.step \in Org!Requests
      /\ Org!Admitted(k) /\ Org!Acted(k) /\ excused' = excused
  BY <1>1 DEF Org!Answer, BareInv
<1>3. Members' /\ (k.step = "post" => Org!NewOrg(k) \in Orgs)
  BY <1>2, ActedMembers
<1>4. ASSUME NEW o, NEW p, Bare(o, p)'
      PROVE  /\ Bare(o, p) \/ (k.step = "join" /\ o = k.org /\ p = k.who)
             /\ k.step \in {"assign", "undo"} => ~ (o = k.org /\ p = k.who)
  BY <1>2, <1>4, ActedBare
<1>5. CASE k.step = "post"
  <2>1. PICK new : new = [k EXCEPT !.step = "join", !.org = Org!NewOrg(k)]
    OBVIOUS
  <2>2. call' = [call EXCEPT ![c] = new]
    BY <1>1, <1>5, <2>1 DEF Org!Answer
  <2>3. new \in CallRecord /\ CallShape(new)
    BY <1>2, <1>3, <1>5, <2>1 DEF CallRecord, CallShape, Org!Requests, Org!OrganizationsAssumption
  <2>4. ASSUME NEW o, NEW p, Bare(o, p)' PROVE Bare(o, p) /\ ~ Owes(call[c], o, p)
    <3>1. Bare(o, p)
      BY <1>4, <1>5, <2>4
    <3>2. o # "none" /\ k.org = "none"
      BY <1>2, <1>5, <3>1 DEF Bare, BareInv, Members, CallShape, Org!OrganizationsAssumption
    <3>. QED  BY <1>1, <3>1, <3>2 DEF Owes
  <2>. QED  BY <1>2, <1>3, <2>2, <2>3, <2>4, CallMoves
<1>6. CASE k.step # "post"
  <2>1. PICK new : new = Onward(k, Org!After(k))
    OBVIOUS
  <2>2. call' = [call EXCEPT ![c] = new]
    BY <1>1, <1>6, <2>1 DEF Org!Answer, Org!Goto, Onward
  <2>3. new \in CallRecord /\ CallShape(new)
    BY <1>2, <1>6, <2>1, GoesOn
  <2>4. ASSUME NEW o, NEW p, Bare(o, p)'
        PROVE  Owes(new, o, p) \/ (Bare(o, p) /\ ~ Owes(k, o, p))
    <3>1. CASE k.step = "join"
      <4>1. Owes(k, o, p) <=> Owes(new, o, p)
        BY <1>2, <1>6, <2>1, <3>1, GoesOn DEF Org!After, Org!Requests
      <4>2. o = k.org /\ p = k.who => Owes(k, o, p)
        BY <1>2, <3>1 DEF Owes, CallShape
      <4>. QED  BY <1>4, <2>4, <4>1, <4>2
    <3>2. CASE k.step # "join"
      <4>1. Bare(o, p)
        BY <1>4, <2>4, <3>2
      <4>2. ~ Owes(k, o, p)
        BY <1>2, <1>4, <1>6, <2>4, <3>2 DEF Owes, CallShape, Org!Requests
      <4>. QED  BY <4>1, <4>2
    <3>. QED  BY <3>1, <3>2
  <2>. QED  BY <1>1, <1>2, <1>3, <2>2, <2>3, <2>4, CallMoves
<1>. QED  BY <1>5, <1>6

\* What a request is about is gone, and with it what its call owed.
LEMMA RefusalKeepsBare ==
  ASSUME Org!OrganizationsAssumption, BareInv, NEW c \in Calls, Org!Refuse(c)
  PROVE  BareInv'
<1>1. PICK k : k = call[c]
  OBVIOUS
<1>2. /\ k \in CallRecord /\ CallShape(k) /\ k.step \in Org!Requests
      /\ ~ Org!Admitted(k) /\ UNCHANGED <<directory, excused>>
  BY <1>1 DEF Org!Refuse, BareInv
<1>3. PICK new : new = Onward(k, Org!AfterError(k))
  OBVIOUS
<1>4. call' = [call EXCEPT ![c] = new]
  BY <1>1, <1>3 DEF Org!Refuse, Org!Goto, Onward
<1>5. Members'
  BY <1>2 DEF BareInv, Members
<1>6. CASE k.step = "post" \/ Org!AfterError(k) \notin Org!Requests
  <2>1. new = Org!IdleCall
    BY <1>2, <1>3, <1>6 DEF Onward, Org!AfterError, Org!Requests
  <2>2. ASSUME NEW o, NEW p, Bare(o, p)' PROVE Bare(o, p) /\ ~ Owes(k, o, p)
    <3>1. Bare(o, p) /\ o \in DOMAIN directory /\ o # "none"
      BY <1>2, <2>2 DEF Bare, BareInv, Members, Org!OrganizationsAssumption
    <3>2. CASE k.step = "post"
      BY <1>2, <3>1, <3>2 DEF Owes, CallShape
    <3>3. CASE k.step \in {"join", "undo"}
      BY <1>2, <3>1, <3>3 DEF Owes, Org!Admitted, Org!Existing
    <3>4. CASE k.step \in {"replace", "delete"}
      BY <1>2, <3>1, <3>4 DEF Owes, CallShape
    <3>. QED  BY <1>2, <1>6, <3>1, <3>2, <3>3, <3>4 DEF Org!Requests, Org!AfterError
  <2>. QED  BY <1>1, <1>2, <1>4, <1>5, <2>1, <2>2, RestOwesNothing, CallMoves
<1>7. CASE k.step # "post" /\ Org!AfterError(k) \in Org!Requests
  <2>1. new \in CallRecord /\ CallShape(new) /\ \A o, p : Owes(k, o, p) <=> Owes(new, o, p)
    BY <1>2, <1>3, <1>7, GoesOn
  <2>2. ASSUME NEW o, NEW p, Bare(o, p)' PROVE Bare(o, p)
    BY <1>2, <2>2 DEF Bare
  <2>. QED  BY <1>1, <1>2, <1>4, <1>5, <2>1, <2>2, CallMoves
<1>. QED  BY <1>6, <1>7

\* What a call owed when it fails for good or dies is excused.
LEMMA Excused ==
  ASSUME NEW k \in CallRecord, CallShape(k), k.step \in Org!Requests, NEW crashed \in BOOLEAN,
         crashed \/ (Org!AfterError(k) \notin Org!Requests), k.op \in {"create", "add"}
  PROVE  \E e \in Org!Excuses(k, crashed) : \A o, p : Owes(k, o, p) => Owes(e, o, p)
<1>1. Org!Excuses(k, crashed) = {[op |-> k.op, who |-> k.who, org |-> k.org, title |-> k.title]}
  BY DEF Org!Excuses, Org!AfterError, Org!Requests, CallShape
<1>. QED  BY <1>1 DEF Owes

\* An answer is lost, or the process dies, before or after the request acted.
LEMMA LossKeepsBare ==
  ASSUME Org!OrganizationsAssumption, BareInv, NEW c \in Calls, NEW crashed \in BOOLEAN,
         NEW k, k = call[c], k.step \in Org!Requests,
         UNCHANGED <<title, directory>> \/ (Org!Admitted(k) /\ Org!Acted(k)),
         excused' = excused \cup Org!Excuses(k, crashed),
         NEW new, call' = [call EXCEPT ![c] = new],
         new = IF crashed THEN Org!IdleCall ELSE Onward(k, Org!AfterError(k))
  PROVE  BareInv'
<1>1. k \in CallRecord /\ CallShape(k)
  BY DEF BareInv
<1>2. Members'
  <2>1. CASE UNCHANGED directory
    BY <2>1 DEF BareInv, Members
  <2>2. CASE Org!Admitted(k) /\ Org!Acted(k)
    BY <1>1, <2>2, ActedMembers
  <2>. QED  BY <2>1, <2>2
<1>3. ASSUME NEW o, NEW p, Bare(o, p)'
      PROVE  Bare(o, p) \/ (k.step = "join" /\ o = k.org /\ p = k.who)
  <2>1. CASE UNCHANGED directory
    BY <1>3, <2>1 DEF Bare
  <2>2. CASE Org!Admitted(k) /\ Org!Acted(k)
    BY <1>1, <1>3, <2>2, ActedBare
  <2>. QED  BY <2>1, <2>2
<1>4. k.step = "join" => Owes(k, k.org, k.who)
  BY <1>1 DEF Owes, CallShape
<1>5. CASE crashed \/ Org!AfterError(k) \notin Org!Requests
  <2>1. new = Org!IdleCall
    BY <1>5 DEF Onward
  <2>2. ASSUME NEW o, NEW p, Owes(k, o, p) PROVE \E e \in excused' : Owes(e, o, p)
    BY <1>1, <1>5, <2>2, Excused DEF Owes
  <2>. QED  BY <1>2, <1>3, <1>4, <2>1, <2>2, RestOwesNothing, CallMoves
<1>6. CASE ~ crashed /\ Org!AfterError(k) \in Org!Requests
  <2>1. k.step # "post"
    BY <1>6 DEF Org!AfterError, Org!Requests
  <2>2. new \in CallRecord /\ CallShape(new) /\ \A o, p : Owes(k, o, p) <=> Owes(new, o, p)
    BY <1>1, <1>6, <2>1, GoesOn
  <2>. QED  BY <1>2, <1>3, <1>4, <2>2, CallMoves
<1>. QED  BY <1>5, <1>6

\* Every step of every call keeps it.
LEMMA BareStays ==
  ASSUME Org!OrganizationsAssumption, BareInv, [Org!Next]_(Org!vars)
  PROVE  BareInv'
<1>1. ASSUME NEW c \in Calls, Org!Lose(c) PROVE BareInv'
  <2>1. call' = [call EXCEPT ![c] = Onward(call[c], Org!AfterError(call[c]))]
    BY <1>1 DEF Org!Lose, Org!Goto, Onward
  <2>. QED  BY <1>1, <2>1, LossKeepsBare DEF Org!Lose
<1>2. ASSUME NEW c \in Calls, Org!Crash(c) PROVE BareInv'
  BY <1>2, LossKeepsBare DEF Org!Crash
<1>3. CASE UNCHANGED Org!vars
  BY <1>3 DEF Org!vars, BareInv, Members, Bare, Owed, Owes, CallShape, CallRecord, Org!Requests
<1>. QED
  BY <1>1, <1>2, <1>3, BeginKeepsBare, AnswerKeepsBare, RefusalKeepsBare DEF Org!Next

\* However many calls interleave and whatever is lost or dies, a member without
\* any role is one that an add or a create still works on or could not clean up.
THEOREM BareMembersAreOwed ==
  ASSUME Org!OrganizationsAssumption,
         \A o \in DOMAIN Founded : \A p \in DOMAIN Founded[o] : Founded[o][p] # {}
  PROVE  Org!Spec => []Org!NoBareMembers
<1>1. Org!Init => BareInv
  BY RestOwesNothing DEF Org!Init, BareInv, Members, Bare, Org!OrganizationsAssumption
<1>2. BareInv /\ [Org!Next]_(Org!vars) => BareInv'
  BY BareStays
<1>3. BareInv => Org!NoBareMembers
  BY DEF BareInv, Bare, Owed, Owes, Org!NoBareMembers, Org!Existing
<1>. QED  BY <1>1, <1>2, <1>3, PTL DEF Org!Spec

=============================================================================
