# A TLA+ verification of aizk

aizk is a self-hosted memory for language-model agents: it keeps documents and
files, converts and chunks them, projects a graph of entities and facts, and
answers retrieval queries. The implementation is the Python package under
`src/src/aizk/` (source paths below are relative to it unless they start with
`src/`). Several processes share one database (PostgreSQL or CockroachDB) and
one object bucket: web and MCP servers accept writes, one or more workers run a
durable queue, crons and operators start maintenance passes. Nothing but
database transactions, unique indexes and a few row or advisory locks
coordinates them, and every external call (the bucket, the converter, models,
Logto) sits between two transactions. That is where this development looks.

## Inventory

| component | state | operations | hard behaviour | correct when |
|---|---|---|---|---|
| Portable queue (`background/portable.py`, `queue.py`) | `queue_task`, `queue_event`; runs and heartbeats of each worker | enqueue, requeue, claim, heartbeat, finish, fail | worker death, stalls, late outcomes, retries | one live row per key, one runner per key, outcomes final, every row settles |
| Schedules (`background/schedule.py`) | `queue_schedule.next_run` | fire, fan out per scope set | a crash between claim and callback, retained keys | every scope set served again and again |
| Artifact conversion (`artifacts/`, `background/jobs/conversion.py`) | `artifact_content`: state, Markdown, policy, candidate | accept, dispatch, process, reject, reindex, recovery, sweeps, lanes, captions | two transactions per hand-off, failure between index and promote, stale reads | ready means findable, production text is replaced by an assessed candidate only, sweeps end |
| Object storage (`storage.py`, compaction, retirement) | bucket objects, `blob` pointers and levels, `object_retirement` | put, rewrite, collect, read | bucket and row change separately, overlapping passes, slow readers | a pointer is always readable, nothing leaks without a fault |
| Text ingestion, sharing (`extract/ingest.py`, `graph/promote.py`) | `document`, `chunk`, claims, copies | ingest, refresh, re-chunk, share, move | plan in one transaction and store in a later one, READ COMMITTED | spans are those of the newest text |
| Chunk projection (`background/jobs/projection.py`, `graph/writer.py`) | facts, claims, `processed_at` | plan, consult, revise, dispute | a model call between reading and writing a slot | one current claim of a slot, history only closes |
| Session tier (`graph/session_tier.py`) | session items | keep, promote, dispatch | at-least-once promotion | only what is due is promoted, and all of it |
| Profiles, insight, growth (`graph/profiles.py`, `insight.py`, `jobs/maintenance.py`) | profiles, watermarks, generations | rebuild, observe, gate | a watermark that overtakes its input | nothing skipped, everything claimed once |
| Communities, RAPTOR, repair (`graph/`) | themes, tree, merged entities | partition, summarize, swap, merge | builds that overlap, writers between two transactions | one generation, every level rises, no history lost |
| Grounding, extraction (`graph/grounding.py`, `extract/`, `serving/extract/`) | none | decide what a model's proposal is worth | boundaries of words, windows and sentences | nothing is stored that is more certain than its source |
| Retrieval (`retrieval/`, `store/models/views/`) | access records | rank, walk, fuse, pack | facts retired between statement and answer, ties, cut-offs | nothing lost without reason, order respected, the budget kept |
| Uploads and quotas (`artifacts/uploads.py`, `store/quota.py`) | grants, stored bytes, monthly counters | mint, redeem, accept, consume | one grant and two requests, serialization retries | at most one use, no counter passes its limit, all or nothing is paid |
| Coordination locks (`store/locking.py`) | lock rows | acquire_locks | several calls in one transaction | nobody waits in a circle |
| Identity and row security (`auth.py`, `integrations/logto/client.py`, `store/`) | caches, the standing bound to a transaction, policies, the vector projection | resolve, bind, read, write | caches, tasks that share a user, pooled connections | no row outside the caller's scopes is read |
| Logto policy, organizations (`integrations/logto/`) | Logto's tenant (external) | audit, apply, create, add, set_role, remove | several requests without a lock, lost answers | convergence, nobody locked out, an administrator stays |
| Usage accounting (`usage.py`) | captures, jobs, ledger rows | capture, enqueue, insert, acknowledge | crash between insert and acknowledgement | counted exactly once, durable before the reply |
| Web (`web/`, `integrations/web/`, `integrations/docling/`) | the cache, charges, receipts | plan, search, read | a deadline at any await, redirects, liars about length | only sanctioned queries leave, paid before asked, bytes bounded |
| Servers (`mcp/`, `api/`) | token buckets | limit | a bounded table of buckets | callers are independent |
| Operations (`ops/`, `backup.py`, `src/hackathon/operator/`) | readings, archives, the schema | diagnose, steward, provision, dump, restore | reading what moves, starting together, dying halfway | a healthy report is true, a served database is complete, an archive restores |
| Evaluation (`src/src/eval/`) | corpora, studies | prepare, ask, purge, score | runs that share a corpus and die | answers see the whole corpus, arms are comparable |
| Model serving, importers, ontology, configuration, migrations | none of their own | | | not modelled |

`PROJECT.json` lists the components with their files and what is left out of
each, and under `hazards` what is hard to test in this code, at the line where
it bites, with the properties that cover it or the reason none does.

## How the project is built

Every component is a module of its own with its state as VARIABLES, one action
per handler, transaction or external call, and its properties. Three modules
compose the components for TLC, by the part of the system they serve:

- `MCService`: the queue, its clock and its doctors, provisioning, identity and
  administration;
- `MCIntake`: what takes memory in, from an upload or a find to stored text;
- `MCMemory`: what turns text into memory, tends it and recalls it.

In each of them the constant `Exercised` names the parts a run exercises, and the
variable `part` which of them a behaviour is about: `Init` chooses it and no step
changes it. The components that have theorems are extended (`PortableQueue`,
`MonthlyQuota`, `CallerTransactions` in `MCService`; `ArtifactLifecycle`,
`ObjectStore`, `CoordinationLocks`, `Uploads` in `MCIntake`; `EntityMerge` in
`MCMemory`), keep their own variables and rest while another part is exercised:
the property a run checks is the very definition a theorem states. Of the other
components the bank of variables `v1`, `v2`, ... is the state, through
`INSTANCE ... WITH`. Components in different parts share no state, so their
state spaces add up instead of multiplying. Components that do interact are
composed inside a part: `ArtifactLifecycle` has the job slot of the queue,
ingestion's document and the handing producers in one state, `Documents` has
ingestion, shares, re-chunking and projection, `SessionTier` its promotion with
finds and dispatch, `QueueDoctor` the doctor's stored reading,
`GraphGenerations` two jobs and their queue keys, `UsageLedger` the transports,
the queue and the ledger.

Properties of instantiated components are grouped by what they promise together:
`OperationsTrue`, `AccessGuarded`, `Administered`, `WorkIsAccounted`;
`DocumentsStand`, `ConversionKeeps`, `AccountsReconcile`; `GraphKeeps`,
`ExtractionKeeps`, `RetrievalKeeps`, `EvaluationKeeps`. A group says of each part
what the component's own properties say (`part = "deploy" =>
Deploy!ServedComplete`), the invariants of the parts under one `[]`, their action
properties under one `[][...]_vars`. The mutants change the components
themselves.

Assumptions on constants are definitions of the component modules
(`QueueAssumption`, `LockAssumption`, ...), as weak as the code justifies.
`ASSUME PartsAssumption` in every composite makes TLC evaluate them for every
part, and the theorems have them as hypotheses.

| abstract specification | implemented by | how |
|---|---|---|
| `JobSlot`: one deduplication key is offered, held by one worker, settled | `PortableQueue`, for every key while heartbeats are timely | `KeyIsSlot` in the runs, `KeyIsASlot` by proof |
| `AtomicQuota`: a metered call pays all it owes in one step or nothing | `MonthlyQuota`, upsert by upsert with row locks, rollbacks and retries | `IsAtomic` in the runs, `RefinesAtomic` by proof |

`ArtifactLifecycle`, `Schedules` and `GraphGenerations` use the slot of
`JobSlot` for the keys they enqueue: what is proved of the queue is what they
assume of it.

## Modules

| module | models | properties |
|---|---|---|
| `PortableQueue`, `Service_proofs` | one action per transaction on `queue_task`; runs, heartbeats, crashes, stalls | `KeyExclusive`, `OutcomesFinal` (timely heartbeats), `UniqueActiveKey`, `AttemptsPaid`, `EventsAccounted`, `Settles` |
| `JobSlot` | the queue's promise about one key | refined by `PortableQueue` |
| `Schedules` | cursors, replicas that fire, claim and run fanned-out passes | `PickedIsExecuted`, `PassesAccounted`, `PassesRecur` |
| `QueueDoctor` | the diagnosis over moving jobs and contents, its stored reading, and the operator agent over it: collector, model, policy | `ExitZeroMeansNoBlockers`, `ListExplainsExit`, `ConsoleIsCurrent`, `LongRunningSeen`, `FailuresAreSeen`, `ActionsRestOnEvidence` |
| `Provisioning`, `Component_proofs` | several services set up one database while others serve | `ServedComplete`, `DropsOnlyTheAgreed`, `UniqueWhenServed`, `RebuildNeverRaced`, `SteadyStartKeepsIndex`, `ServiceProceeds` |
| `Backups`, `Component_proofs` | dumps, pruning, restoring in place | `Recoverable`, `RestoredWhole`, `LexicalStands`, `PruneKeepsYoung` |
| `ProcessingStatus` | backlog, range and state told to a caller | `RangeOrdered`, `IdleIsDone`, `EnrichedNotEarly`, `ActiveIsEstimated` |
| `CallerLimits` | per-user token buckets in a bounded table | `BurstBound`, `Independent`, `IdlestGoes`, `RefusalsAreFree` |
| `RowSecurity` | forced policies of scoped rows, parents and children, contents, blobs | `NoForeignRead`, `NothingHidden`, `ChildSeenAsParent`, `WrittenWithStanding`, `BlobsNotPulled` |
| `CallerTransactions`, `Service_proofs` | scopes pushed and popped by tasks, connections taken at a scope's first statement, the standing bound to them | `PopsOwnScope`, `StandingIsCallers`, `NoConnectionLost`, `ServiceProceeds` |
| `AuthorityCache` | the caches behind a caller's standing, evictions | `StandingIsRecent`, `OwnChangesShow`, `PublicIsRecent` |
| `LogtoPolicy` | plan and apply of the tenant's roles, stage by stage | `Converges`, `CleanIsConfigured`, `LeavesOthersAlone`, `LocksNobodyOut`, `OwnSnapshotsDie`, `ServiceProceeds` |
| `Organizations`, `Component_proofs` | create, add, set_role, remove, request by request | `TitlesUnique`, `NoOrphans`, `NoBareMembers`, `KeepsAnAdmin` |
| `ArtifactLifecycle`, `Component_proofs` | all revisions of one upload, from intake to findable text | `ReadyFindable`, `UnreadableHasNoProduction`, `PromotesOwnCandidate`, `SweepsQuiesce`, `IntakeProceeds` |
| `ConversionLanes` | the conversion attempts of one original: lanes, processes, cancellation, verdicts, captions | `NothingLeftRunning`, `EachItsOwn`, `LeavesOnce`, `LadderHeld` |
| `WebBoilerplate` | the pass that drops a page's chrome, against a declarative definition | `OnlyChromeGoes`, `NoEmptySection`, `IndexSurvives` |
| `PageReaders` | bounded reads of sources, redirects, page readers with their charges and rows | `BoundedBytes`, `HopsVetted`, `WireSizes` |
| `ObjectStore`, `Component_proofs` | objects, pointers, compaction, retirement, readers | `PointerLive`, `ReadsSurvive`, `LeaksPaid`, `LevelNeverDrops`, `IntakeProceeds` |
| `Uploads`, `Component_proofs` | grants and the stored-byte allowance under the user's lock | `SingleUse`, `CapHolds`, `ObjectsReconcile`, `TargetAllowanceHolds` |
| `MonthlyQuota`, `AtomicQuota`, `Service_proofs` | monthly counters, upsert by upsert | `NeverOver`, `PaidInFull`, `IsAtomic`, `ServiceProceeds` |
| `Documents` | a document, its copy, spans and claims under READ COMMITTED | `SpansMatchText`, `CarriesTheSource`, `MoveLands`, `NewerNotRetired` (violated), `IntakeProceeds` |
| `SessionTier` | working memory and its promotion in four transactions | `OnlyDuePromoted`, `FoundSomewhere`, `NewestStood`, `IntakeProceeds` |
| `CoordinationLocks`, `Component_proofs` | acquire_locks and the calls of each kind of transaction | `KeysRise`, `NoCircularWait`, `IntakeProceeds` |
| `WebEgress` | the web half of find under one deadline | `ReceiptTells`, `OnlySanctionedLeave`, `LedgerReconciles`, `PaidBefore`, `IntakeProceeds` |
| `UsageLedger`, `Component_proofs` | captures from transport to ledger | `DurableBeforeReply`, `OneRow`, `NothingHeld`, `IntakeProceeds` |
| `FactLedger` | the bi-temporal claims of one slot | `SingleCurrent`, `RefutedStaysOut`, `HistoryOnlyCloses`, `ProjectionsSettle` |
| `EntityMerge` | merging duplicate entities beside writers | `NamesStayHeld`, `ReadFactsKept`, `HistoryKeptStep` (one scope set, no writers), `DuplicatesMerge` |
| `VectorProjection` | the private vector table, its triggers and definer functions | `VectorIsClaims`, `CurrentProjected`, `ClosedLeaves`, `MergedIsGlobal` |
| `Grounding` | quote, certainty and endpoints of a proposal | `NothingOverstated`, `EndpointsWritten`, `NoSelfRelation`, `AuditExplains` |
| `SpanExtraction` | overlapping windows merged, relations to facts | `NeighboursMeet`, `StrongestKept`, `QuoteNamesEnds`, `EndsAreEntities`, `SurestType` |
| `BoundedExtraction` | requests that overflow are halved | `Whole`, `NeverTheSame` |
| `SummaryTree` | the planning of the summary tree, level by level | `OneClaimEach`, `EdgesClaimed`, `EverythingRises`, `LevelsShrink` |
| `Themes` | partition, summaries and the swap of community generations | `OneGeneration` (serializable), `GenerationsBounded`, `AloneLeavesOne`, `Readable`, `UnmovedKeepsSummary`, `AbandonKeeps` |
| `FindRanking` | rerank, drop the spoken for, pack, record accesses | `EveryRowRanked`, `WithinBudget`, `DroppedIsSpokenFor`, `MeritIsOfferedFirst`, `TraceAgrees`, `StrengthensOnlyTheShown` |
| `GraphWalk` | the fact lane: seeds, neighbours, diffused mass | `MentionsDecide`, `EachStatementOnce`, `FirstStaysFirst`, `HopNeverAmplifies` |
| `SourceFusion` | the source lane and the selection of documents to share | `NamedSourceLeads`, `NoDocumentFloods`, `CopiesDoNotCrowd`, `PaidOutOfSlack` |
| `Profiles` | dirty watermarks and three rebuilds | `DirtyCovers`, `ProfilesAdvance`, `ReachesProfile` |
| `GraphGenerations` | growth gate, communities and RAPTOR jobs of a scope | `GrowthNotConsumed`, `HandOversPaid`, `GrowthRebuilds` |
| `Insight` | grounded observations under their own identities | `ClaimedOnce`, `Unsuppressed` |
| `BenchmarkCorpora` | benchmark runs over shared corpora, killed anywhere | `AnswersSeeWholeCorpus`, `PublishableIsSound`, `LeavesNothing`, `PurgesOnlyTheUnkept`, `BenchmarkEnds` |
| `RetrievalStudy` | probes, arms under overlays, scores | `ProbesNeedBoth`, `SettingsRestored`, `ArmsPaired`, `OneCreditEach` |
| `ExtractionStudy` | cases extracted concurrently and matched | `HonestMatches`, `FailureCosts`, `RatiosAreRatios` |

Every module's head says what is abstracted. In general: a text, a name, a
score or a key is a model value or a small number; time is "fresh or stale",
"due or not" or a few ticks; formatting and wording are left out unless a
property is about them. The code of `src/` that a definition stands for is in
`PROJECT.json` under `map`.

## Runs

| run | asks | parts | result |
|---|---|---|---|
| `service_safety` | of the queue, the quota and the callers' transactions their own properties; `WorkIsAccounted`, `OperationsTrue`, `AccessGuarded`, `Administered` of the rest | 24 | passes |
| `service_live` | `Settles`, `PassesRecur`, `ServiceProceeds` | 7 | passes |
| `intake_safety` | of artifacts, objects, locks and uploads their own properties; `DocumentsStand`, `ConversionKeeps`, `AccountsReconcile` of the rest | 16 | passes |
| `intake_live` | `SweepsQuiesce`, `IntakeProceeds` | 7 | passes |
| `memory_safety` | `NamesStayHeld` of entity merges; `GraphKeeps`, `ExtractionKeeps`, `RetrievalKeeps`, `EvaluationKeeps` | 28 | passes |
| `memory_live` | `MemoryProceeds` | 5 | passes |
| `queue_recovery` | `HeldFailureRetried`, the automatic retry of the docs | `recovery` | violated |
| `artifact_rechunked` | `DocumentCarriesMarkdown` | `artifact` | violated |
| `artifact_queued` | `QueuedIsPicked` | `sweeps` | violated |
| `newer_retired` | `NewerStands` | `share` | violated |

`TypeOK` of each composite is the conjunction of its parts' type invariants, in
the three safety runs. The components' properties have these names in the
groups, so a violated group is narrowed down by setting `Exercised` to one part.

Bounds. Each part is the smallest instance in which every action of its
component fires and the cases its properties are about occur: two workers to
overlap, a second request of the same key, one attempt more than a retry
needs, two faults so that a fault can strike the repair of the first, a third
object key for the loser of a compaction. Where one instance would be too large
a component has several parts (`queue` with timely heartbeats and `stalls`;
`grants`, `allowance` and `targets` of `Uploads`; four shapes of `RowSecurity`),
each with what its properties need. The constants of each part stand beside its
`INSTANCE` with the reason. Counters of the environment (crashes, stalls,
retries, faults) are bounded by constants named `Max...`, and history variables
that no guard reads count what a property pays for with them. For the
properties under "Proofs" the theorems remove the bounds.

`CHECK_DEADLOCK FALSE` is set everywhere because rows, keys, retries and faults
are bounded: when they are used up the system is legitimately at rest. No
symmetry is declared: it is unsound for the liveness runs, and the safety runs do
without.

Mutants. Every property of a passing run has one in `PROJECT.json`: a small
plausible change of a mapped definition (a missing guard, an off-by-one, a stale
read, a swapped order), written as an operator just before the original.

### Liveness and fairness

The work of a live run is finite: rows, crashes, retries, uploads and edits are
bounded. "Whoever waits gets on" is then `[]<>~SomeoneWaits`: time and again, and
so at the end for ever, nobody waits. `SomeoneWaits` (`MCService`) names who waits
in each part: a task for a pooled connection, a metered call for its verdict, a
service for its turn to set up, an operator for the end of a policy run.
`Unfinished` (`MCIntake`) names what is due: an original without its conversion
job, a retired layout in the bucket, a span without its projection, a kept item
outside the graph, a capture outside the ledger, a find without its answer, a
transaction that waits for a lock. `Settles`, `SweepsQuiesce` and the conjuncts of
`MemoryProceeds` say it of queue rows, sweeps and passes.

Fairness is stated part by part in the composites (`QueueFairness`,
`LocksFairness`, ...). Weak fairness is assumed of what the code schedules by
itself: polling workers claim (`run` loops), bodies end (each external call has a
timeout), heartbeats, leases and backoffs run on the clock, dispatch, recovery and
cleanup crons fire, and a process that is neither dead nor failed goes on with
its next step. Nothing is assumed of uploads, operators, edits, sweeps being
started or faults, and faults are bounded, as liveness under endless faults
would be false.

Strong fairness is not part of any specification. The properties that need it
have it as their antecedent, named for what it asks of the database: row and
advisory locks are granted to whoever keeps waiting (`LockIsGranted`,
`SlotIsGranted`), replicas that poll one cursor take turns
(`ReplicasTakeTurns`), a worker gets through a job that is delivered over and
over (`WorkersGetThrough`), a pass that is started over and over completes
(`PassesComplete`).

### Findings

1. `queue_recovery`: on CockroachDB the capped retry of held chunk failures
   compares `attempts` (5 or more for a held row) with `max_cycles` (3) and
   never selects one; `dev/passes/recovery.md` and `dev/passes/jobs.md` promise
   three cycles.
2. `artifact_rechunked`: ingestion takes the hash of the original bytes as the
   document digest, so a revision whose Markdown changes (converted on a retry
   after a refusal, or reconverted) keeps its old chunks; `dev/write/ocr.mdx`
   and `boilerplate.mdx` say the ingest pass re-chunks it.
3. `artifact_queued`: `accept` and `dispatch_pending` set the state `queued`
   after enqueuing, over whatever a fast worker has settled; the revision then
   stays `queued` with no job that would pick it up.
4. `newer_retired`: `DocumentStore.store` (`extract/ingest.py:182`) selects the
   document before it waits for the lock of its revision (line 188). After a move
   that committed meanwhile it writes the newer text, with `expires_at` as it was
   loaded: unchanged, and so left out of the UPDATE. The document stays retired
   and the copy holds the older text. The comment at line 185 says the lock is
   there "so a move cannot copy this document's previous revision and retire the
   source underneath the newer one committed here". `MoveLands`, which passes,
   says what the lock does give: the retiring step itself never retires a newer
   text than the one it copied.

Other divergences between the code and what the repository says of it, read off the
code while modelling. The models have the code's behaviour; the properties
of the passing runs say what holds in spite of them, and no run states these.

- `graph/profiles.py:165`: refresh_profiles reads its snapshot before the model calls
  and upserts it unconditionally (profiles.py:163-166, store 108-129). A minute pass
  that reads later, stores and consumes the counters in between is overwritten by the
  older summary, and the entity is no longer dirty. store/models/tables/profile.py:13
  says a profile is a "Scoped, embedded summary of an entity's current facts."; the run
  ends with nothing in flight, no entity dirty and a current fact missing from the
  summary.
- `graph/profiles.py:73`: Watermarks are bumped by projections only (projection.py:53):
  a refutation, a retracted source, a forget or the decay pass closes a claim without
  making its entities dirty, and an entity left without live facts has no grounding at
  all (profiles.py:73), so even the weekly rebuild leaves its profile.
  store/models/tables/profile.py:13 says a profile is a "Scoped, embedded summary of an
  entity's current facts."; the run shows one that rests on a closed fact with nothing
  left to do.
- `background/jobs/maintenance.py:322`: run_if_grown commits the fact_count watermark
  (maintenance.py:153-154) before CommunitiesJob enqueues RaptorJob (322). A crash or a
  failed enqueue in between retries the job, which now finds no growth and returns
  before the hand-over, so RAPTOR is not queued until another communities_every_n_facts
  claims are recorded. docs/dev/passes/raptor.md:11 says "The community pass queues this
  one the moment it finishes replacing a generation"; in the run the new generation
  stays without a tree and nothing is queued.
- `graph/raptor.py:336`: recorded_fact_count counts every claim of the scope set, and
  RaptorBuilder.replace deletes the part_of claims of the tree it replaces
  (raptor.py:336-340), so the count can fall below the stored watermark.
  docs/dev/passes/communities.md:21 says "closed and archived claims still count and the
  number only rises" (maintenance.py:128 "a monotonic growth signal").
- `background/schedule.py:31`: fan_out offers every scope set under a key that a failed
  row still holds (uq_queue_task_active_dedupe covers failed), and no command or sweep
  requeues a maintenance row, so the scope set never gets that pass again.
  docs/dev/passes/jobs.md says "A cron tick therefore produces one job per set that
  actually holds memory".
- `store/models/tables/fact.py:215`: revise trims a backdated claim against the claims
  that are current now and no others: after a [2,..) and a backdated b [0,2), a value c
  from 1 becomes [1,2) beside b. docs/dev/write/consolidation.mdx says of revise
  "History stays a clean partition."
- `store/models/tables/fact.py:224`: revise sets valid_to of the closed row in place, so
  a read as of a day between the new valid_from and the correction finds neither claim.
  docs/user/concepts/time.md says "aizk can still say what it believed before the
  correction landed" and draws that very case ("what did we believe Jul 1").
- `graph/writer.py:358`: The insert does nothing when an open claim of the statement
  exists, even one whose valid range has ended, so a value that returns closes the
  current claim and leaves the slot empty. docs/user/concepts/time.md says a change
  "closes the old one and opens a new one beside it."
- `graph/writer.py:166`: The batch collapses state facts of the same window only; two
  windows in one chunk both revise the current claim, UPDATE ... RETURNING answers one
  ordinal, and _write_rows raises KeyError for the other on every attempt. The comment
  at graph/writer.py:158 says one interval holds one value and that letting both through
  "would revise the same current claim twice in one write".
- `graph/consolidation.py:61`: decide answers UPDATE for any state fact with another
  object, and apply_plans closes the standing claim whatever the stance of the new fact.
  provenance.py:73 says any stance other than settled and refuted "is never grounds to
  retract a claim that somebody committed to memory."
- `extract/ingest.py:431`: rechunk loads the standing row, then waits for the lock and
  refreshes the loaded object (424-431): an ingestion that committed meanwhile keeps its
  content_hash, because the column equals the value loaded and is left out of the
  UPDATE, over the spans of the re-chunked text. store/locking.py:16 says "A document's
  spans and its content hash change together, so any two writers of the same document
  must be serialized rather than merely consistent on their own"; every later ingestion
  of that text is skipped as a match.
- `graph/promote.py:254`: Promoter.carry locks its sources only, so refresh rewrites the
  destination row without its document_revision lock, beside an ingestion into the
  destination that holds it; the DELETE of one does not see the chunks of the other and
  both generations stay. store/locking.py:14 says the lock is "The lock every writer of
  one document's revision holds until it commits."
- `background/jobs/projection.py:52`: A chunk pending or in flight when its document
  moves is projected afterwards: nothing in the projection asks whether the document
  still holds, so the fact is live in the scope it left and, through the copied pending
  chunk, in the destination. graph/promote.py:332 says both halves run in one
  transaction so a move can never end in what "would leave the same knowledge live in
  two scopes with no record that anything was owed".
- `extract/ingest.py:246`: update_metadata clears processed_at while a projection of the
  chunk runs; enqueue_document is refused by the running job's key, and the running job
  then writes claims with the capture it read and stamps processed_at.
  extract/ingest.py:222 says "Update validity and requeue graph projection without
  re-embedding chunks."
- `extract/ingest.py:207`: refresh retracts and deletes in two statements: a claim a
  projection commits in between is missed by the first and loses its source_chunk_id to
  the second (ON DELETE SET NULL), so it stays live with no source.
  store/models/tables/fact.py:308 says "Close live claims derived from documents before
  their chunks change."
- `background/jobs/conversion.py:298`: ArtifactRechunk offers every ready revision of an
  original, and rechunk resolves each by artifact_id to the one document of the
  artifact, replacing its text and hash by the older revision's.
  background/jobs/conversion.py:282 says "The original keeps its `ready` state
  throughout because its conversion is still current, and it is only the chunks beneath
  it that are rebuilt".
- `graph/repair.py:188`: affected_fact_ids selects under the row security of the pass's
  scope set, while merge_duplicates deletes the duplicate as the owner, so facts only
  other scope sets claim are not repointed and go with it (subject_id ON DELETE
  CASCADE), their claim history too. docs/dev/passes/profiles-insights.md:113 says the
  pass "replays the claims, so no history is lost".
- `graph/repair.py:189`: The affected facts are read in one transaction and repointed in
  the next: a fact a projection of the same scope set commits in between still names the
  duplicate when it is deleted, and goes with it while its chunk counts as processed.
  docs/dev/passes/profiles-insights.md:113 says the pass "replays the claims, so no
  history is lost".
- `web/service.py:131`: When the deadline passes after providers were asked, run returns
  WebOutcome.refused(provider_failure), whose receipt says no search provider was
  contacted; the list of providers reached is lost with the cancelled egress.
  docs/user/using/web.md says: 'A call that contacted providers and got nothing back
  still says it contacted them', and models.py (WebOutcome.fruitless): 'Reaching a
  provider and getting nothing is still reaching a provider.'
- `web/service.py:127`: A deadline between the charge of a provider call and its account
  loses the call's ledger row, though the allowance was spent. service.py
  (WebSearch.account) says: 'so a month's bill can be reconciled against the ledger
  without asking the provider.'
- `web/service.py:317`: account awaits the recorder, which after its third attempt
  raises the OSError or PostgresError it met, and run catches TimeoutError alone: the
  find fails, memory half included. service.py (WebSearch) says: 'A web problem is never
  an error the caller sees', and docs/user/using/web.md: 'Every one of them degrades to
  memory alone plus a receipt naming the cause'.
- `store/models/tables/usage.py:64`: capture_key holds 64 characters, but a provider
  call's key is trace:span (49) plus ':web_search:exa:0' (17) or longer, so its insert
  fails on every attempt and the job is held as failed: no web provider call made inside
  a request span gets its ledger row. web/service.py:309 says: 'Record one external
  provider call as its own durable ledger row.'
- `graph/promote.py:124`: Promoter.artifact_keys locks the artifacts of a batch, but
  Artifact.share then locks the original's locator and target once per document, in
  document order, and different artifacts can have one locator: two shares of them in
  opposite order each hold what the other waits for. graph/promote.py:124 says: 'so two
  batches that touch the same originals in opposite document order cannot deadlock.'
- `extract/ingest.py:188`: TextIngestor._store takes the lock of each document it
  refreshes in the order of its sources, within one transaction; a share of the same
  documents takes them sorted, so the two can wait for each other. graph/promote.py:71
  says: 'so two batches that overlap on either resource queue behind each other instead
  of each holding what the other waits for.' and store/locking.py:18 that ingestion
  takes part in that lock.
- `artifacts/uploads.py:153`: TicketRecord.restore gives the redeemed caller the target
  scopes only, so create_original's sum over artifact_content, filtered by row security,
  misses the caller's originals in every other scope, and uploads into n scopes store up
  to n times the allowance. artifacts/repository.py:56 says: 'The caller has no room for
  another original in its stored-byte allowance.' and
  src/tests/store/test_artifact.py:566
  test_repository_serializes_and_enforces_each_users_stored_byte_quota.
- `graph/session_tier.py:56`: The ingestion commits before the stamp, in another
  transaction, so the item is served from working memory and its document from the graph
  in between, and until the next schedule after a crash.
  docs/dev/passes/promotion.md:45-46 says: 'an item is served from working memory until
  the graph has a better version of it and never from both at once.'
- `extract/ingest.py:373`: A batch skips the sources that match the documents its plan
  saw, in an earlier transaction and for the whole batch at once: with revisions v1, v2
  of one subject and v2 standing, v1 refreshes the document and v2 is skipped as
  unchanged. extract/ingest.py:307 says: 'Ingest sources in order after removing
  unchanged documents before embedding.'
- `integrations/logto/policy.py:147`: apply runs in the `aizk admin auth apply` process
  (commands/admin.py:449) and invalidate_all clears that process's caches, which hold
  nothing; the API and MCP servers keep theirs for logto_cache_seconds.
  integrations/logto/policy.py:145-146 says: 'every cached authority snapshot must die
  with them rather than outlive a revocation.'
- `integrations/logto/policy.py:287`: The plan deletes an unnamed role under the prefix
  only when its type is User, while roles() reports every one.
  integrations/logto/policy.py:153-154 says: 'A role the configuration no longer names
  is reported as unmanaged, which is exactly what the next `apply` deletes.'
- `integrations/logto/organizations.py:113`: The count of administrators is taken from a
  directory read before the request is sent, with no lock: two calls in flight each see
  the other's administrator and both go through. docs/dev/run/release-gate.md:55-56
  says: 'Organization management adds only an existing account by exact email and
  refuses to demote or remove the last administrator.'
- `integrations/logto/organizations.py:40`: The name is compared with the catalog and
  posted in a later request, and Logto does not make names unique, so two creates both
  succeed; `organization()` then picks the first of that name.
  integrations/logto/organizations.py:44 says: 'That organization name is already in
  use.'
- `auth.py:119`: The browser API resolves its caller with Auth.bearer -> identify ->
  LogtoClient.user, which reads the caches with fresh=False and never calls
  _screen_account or _screen_roles; no code under src/src calls
  user_subject(fresh=True). docs/dev/run/security.md:45-47 says: 'The browser path skips
  that cache. Every protected load re-reads the account and its global roles, so a
  deleted or suspended account, or one lacking the `aizk-user` role, is rejected on the
  next decision'.
- `integrations/logto/client.py:165`: Standing is served from a per-process cache for
  logto_cache_seconds. docs/user/concepts/scopes.md:98-100 says: 'When somebody joins a
  team there, their next question to aizk sees that team's memory. When they leave, it
  stops.'
- `integrations/logto/organizations.py:114`: set_role, remove and add evict after the
  request returns, with no finally: when Logto applied the change and the answer was
  lost the call raises and this process keeps the old snapshot (LogtoPolicy.apply does
  evict in a finally). integrations/logto/client.py:60 says: 'Evict every authority
  snapshot affected by a Management API mutation.'
- `ops/doctor.py:797`: A hand-off that marks its content queued after the worker settled
  it leaves `queued` with no job; the doctor lists and counts only failed, unreadable
  and processing contents, so the report is healthy. docs/dev/run/observability.md:87
  says it reports "conversions whose durable active state points at a job the queue has
  already finished. That last class is the usual cause of a conversion that looks busy
  forever".
- `ops/doctor.py:547`: PortableWorker.heartbeat updates the row through the ORM, whose
  UpdatedAt.onupdate refreshes updated_at with every beat, so `heartbeat_at >=
  stale_before AND updated_at < long_running_before` never holds of a live job.
  docs/dev/run/observability.md:86 says the doctor "reports stale picked leases,
  long-running live leases".
- `src/hackathon/operator/steward.py:398`: The steward reads the stored doctor report
  without its updated_at, so the last healthy reading of a worker that died makes the
  severity healthy while its leases are stale. src/hackathon/operator/steward.py:269
  says "Derive the minimum truthful severity from current evidence."
- `src/src/eval/runner.py:186`: purge_scope deletes facts, entities and chunks before
  documents, and corpus_state counts only documents and pending chunks: a run killed
  inside its purge leaves a corpus that ensure_prepared accepts. src/src/eval/runner.py
  says of it "Fail before scoring when reuse points at an absent or incomplete corpus."
- `src/src/eval/runner.py:225`: The scope is a function of the fingerprint, so two runs
  of one dataset share it and the first to end purges it while the other is asking.
  src/src/eval/runner.py says run will "Evaluate an isolated corpus and remove it unless
  retention is requested."
- `retrieval/packing/budget.py:61`: pack steps over an item too large for the room left
  and keeps later ones; docs/dev/read/packing.md:23 says of the walk "It is a prefix
  cut, not a knapsack." and read/overview.md:92 that it "keeps the longest prefix that
  fits".
- `retrieval/packing/budget.py:38`: An excerpt is dropped as soon as one settled fact of
  its span ranks above it, also when a hedged fact of the same span is returned; the
  docstring at retrieval/packing/budget.py:19 says of an unsettled fact that "the
  excerpt under it travels with it, which is what makes \"the source wins\" a property
  of what find returns".
- `store/models/views/live_fact.py:350`: connected outer-joins the object and takes a
  dangling share of the subject's mass whenever the object has none, not only when the
  fact has no object; docs/dev/read/lanes.mdx:98 says a fact "needs standing at both
  ends rather than one popular one" and store/models/views/live_fact.py:341 says "A
  connecting fact needs standing at both endpoints".
- `retrieval/find/orchestrator.py:155`: documents narrows only the source lane before
  its cut; the fact lane keeps one claim of a statement and one cut over every scope,
  and filters afterwards. retrieval/find/orchestrator.py:138 says of the narrowing "That
  ordering is what makes a repeated share stable".
- `src/src/eval/plans.py:564`: measure_arm runs the production find, which records an
  access of every fact it keeps (find_access_recording_enabled defaults to true), and
  the dense cut of later finds ranks by that recency and frequency.
  docs/dev/eval/retrieval.md:83 says of the ablation arms "removing one lane is a paired
  comparison rather than a rerun".
- `artifacts/service.py:318`: An error of the converter itself (Pandoc, LiteParse, the
  UTF-8 decoder, the Docling subprocess, an HTTP status of the service) is raised past
  reject() to the except clause, which sets `failed` and indexes nothing; only a verdict
  in a Docling Serve answer gets the metadata-only document.
  docs/user/using/files.mdx:100 says "The original is still stored and a note is still
  created from what is known", and :104 "So a file that failed to convert is still
  findable by name".
- `artifacts/boilerplate.py:197`: Under a chrome heading a block goes unless it is
  content_like, which asks for link labels below link_density whatever its prose, so a
  paragraph of 200 readable characters with 300 in labels is dropped before chrome() is
  asked. docs/dev/write/boilerplate.mdx:37 says a block "holding at least
  `min_prose_chars` readable characters of its own text, 200 by default, stays whatever
  its links look like", and :57 that min_intro_chars of prose ends the discarding.
- `artifacts/boilerplate.py:195`: A chrome heading inside a chrome section overwrites
  chrome_level with its own deeper level, so the next heading between the two closes
  both and a menu after it, still under the outer heading, is kept.
  docs/dev/write/boilerplate.mdx:60 says "The rest of the section stays chrome context
  for rule four above, until a heading of the same rank or higher closes it."
- `store/migrations/cockroachdb/scoped_cspann.py:276`: The fact trigger computes
  keep_row from now() when the claim is inserted or updated, and no schedule touches the
  projection afterwards, so a claim whose valid_to passes stays projected and keeps a
  place among the candidates of every search; its docstring says "Build the fact-claim
  trigger that excludes claims outside their live interval."
  (store/migrations/cockroachdb/scoped_cspann.py:256). In the same way a claim dated
  ahead is not projected when its valid_from comes.
- `background/queue.py:451`: install_queue_schema drops the former dedupe index and
  creates the declared one as two statements that commit on their own, and the advisory
  lock keeps other setups out but not the services that enqueue. A job enqueued in
  between, or held as failed under a former index that covered only queued and picked
  jobs, makes two rows of one key; CREATE UNIQUE INDEX then fails, setup raises with no
  index left, and so does every later start. The docstring says the opposite of a
  changed definition, background/queue.py:387: "changing the declared definition makes
  the check fail and rebuilds it under the same lock during deploys."
- `graph/grounding.py:79`: sentence_around looks for the closing break from the end of
  the quote on, so for a quote that already ends with its full stop it runs on to the
  end of the next sentence: a faithful fact is refused as stripped, or stored as hedged,
  because of a neighbour it does not mention. The docstring, graph/grounding.py:77,
  calls it "The smallest sentence-like span of `text` that contains the half-open
  range."
- `graph/raptor.py:220`: A summary entity is identified by its label, so a rollup that
  the model labels like a node below it becomes that node (stage returns False and
  connect only drops the edge of an entity to itself). Two levels of such labels give A
  part_of B and B part_of A, and the summaries of a level attach to an entity of
  another. docs/dev/passes/raptor.md:3 speaks of "Rolling community summaries into a
  bounded recursive tree."
- `graph/communities.py:298`: The swap deletes by statement snapshot: two builds of one
  scope (the job and `admin graph communities`, which takes no lock) that swap at once
  each delete the rows they see, and PostgreSQL at READ COMMITTED commits both, so two
  generations of overlapping themes stand. docs/dev/passes/communities.md:95 says
  "Storage is a generation swap. Inside one transaction the pass deletes every
  `community` row whose `scopes` equals this exact array and inserts the new ones".
- `integrations/converter.py:233`: Pandoc and the one-shot Docling kill and reap their
  process on TimeoutError only. When the job is cancelled while it waits in communicate,
  as on the shutdown of a worker, the temporary directory goes and the process is left
  to end by itself, with its memory. integrations/converter.py:168 says "Run the heavy
  layout and OCR lane in a process whose memory dies with the job."
  `NothingLeftRunning` therefore excepts the attempts that were cancelled.
- `graph/communities.py:179`: A roster that was stored (the failures stayed under the
  ratio) is carried forward with degraded FALSE while its members do not move, so it is
  never summarized and never counted as degraded again. The docstring at
  graph/communities.py:108 says "One cluster's label and summary, and whether a model
  actually wrote it."
- `integrations/web/providers.py:497`: The house reader turns only
  DoclingConversionError, UnsafeArtifactError, httpx.HTTPError and ValueError into
  ProviderUnavailable. resolve_host raises socket.gaierror (an OSError) for a host
  without an address, before the emptiness check of validate_public_url, and it escapes
  fetch, read and egress up to the find, which catches TimeoutError only.
  integrations/web/providers.py:386 says "Read one page as Markdown, raising
  `ProviderUnavailable` when it cannot."
- `integrations/docling/models.py:218`: from_response rejects a missing md_content, not
  an empty one, so a page that converts to nothing (an image-only or script-only page)
  is served as a finding without text, while the Firecrawl reader refuses it.
  web/service.py:231 says "A hit whose page nobody could read still carries the title
  and snippet the search provider returned, so a fetch chain that is down degrades the
  answer instead of emptying it."
- `status.py:263`: A stage with a failed original is delayed whatever its completions.
  docs/user/using/web-app.md:106 says "Delayed does not mean broken. It means recent
  completions are too sparse to make an honest estimate, and the app says so rather than
  inventing a number."
- `status.py:249`: The projection stage is estimated with running and failed None and
  counts every chunk without processed_at as queued. A chunk whose job exhausted its
  attempts and is held stays in that backlog, so recent completions of other chunks keep
  promising a range (and "active") for work nobody will do. status.py:215 says
  "Caller-visible processing stages and honest ETA ranges."
- `src/src/eval/extraction.py:193`: The proposals are matched by the case-folded
  spelling the model used and the accepted facts by the spelling of the entity with the
  same slug, so a target proposed as "self-query" is a miss before grounding and a hit
  after it: accepted recall exceeds proposal recall. docs/dev/eval/extraction.md:34 says
  "Proposal recall says what the model saw, accepted precision, recall and F1 say what
  survived grounding".
- `graph/insight.py:82`: write_observation returns True after claim_fact whether or not
  its on_conflict_do_nothing inserted a row, so a pass that lost the race to an
  overlapping one reports the observation as its own; graph/insight.py:62 says it writes
  "one gated observation as an observes fact, returning whether it was new".

## Proofs

`tlapm` checks every theorem below for all values of the constants that satisfy
the assumptions it names, which are the definitions TLC evaluates in
`PartsAssumption`. Where a theorem names no assumption it has none.

| module | theorem | establishes | argument |
|---|---|---|---|
| `Service_proofs` | `TypeCorrect` | Every reachable state of the queue is type correct, for any number of rows, workers and entrypoints. | `TypeOK` is inductive |
| `Service_proofs` | `KeysUnique`, of `UniqueActiveKey` | At most one active row carries a key, whatever stalls, crashes and late outcomes. | inductive: only `Enqueue` and `Fail` make a row active, both under the index |
| `Service_proofs` | `LeasesHeld` | With timely heartbeats every run that may still write holds the picked row of its task, and holds it alone. | `LeaseInv`, for `MaxStalls = 0`: every run has a picked row with a fresh heartbeat it still keeps, and is alone on it. Neither half is inductive without the other: a row is claimed again only when its lease is stale, which a live run prevents |
| `Service_proofs` | `KeysExclusive`, of `KeyExclusive` | With timely heartbeats one key's job is run by one worker at a time. | from `LeaseInv` and `UniqueActiveKey` |
| `Service_proofs` | `OutcomesAreFinal`, of `OutcomesFinal` | With timely heartbeats no late outcome undoes a success or a retained failure. | from `LeaseInv`: an outcome is written only by the one run of a picked row |
| `Service_proofs` | `AttemptsArePaid`, of `AttemptsPaid` | Attempts beyond max_attempts are paid for by retries and expired leases. | strengthened with what a queued row still has left (`AttemptsInv`) |
| `Service_proofs` | `EventsAreAccounted` | Events and runs under way never outnumber the attempts of a row. | inductive, with `FiniteSetTheorems` for the runners a step adds or removes |
| `Component_proofs` | `StoreInvariant` | Each storage key has at most one holder among blobs, intakes and compactions, a held key is stored and not being retired, and collections touch only retired keys. | `TypeOK` and `StoreInv` are inductive together; `TypeOK` alone is not, since `Misses` reads a pointer that must not be NULL |
| `Component_proofs` | `PointerAlwaysLive`, of `PointerLive` | A blob's pointer always names a stored object, for any number of overlapping compactions, collections and intakes and any faults and delays. | weaker than `PointersKept` of `StoreInv`; not inductive alone, since nothing in it keeps a collection or a losing compaction away from a pointer's key |
| `Component_proofs` | `LevelsNeverDrop`, of `LevelNeverDrops` | No compaction, however stale and at whatever level, lowers a recorded blob's encoding level. | a compaction's target exceeds the level it observed (`CompactionsStand`), and `StillCurrent` makes that level the row's own when it writes |
| `Service_proofs` | `KeyIsASlot`, of `KeyIsSlot` | With timely heartbeats the rows of any deduplication key implement the abstract JobSlot specification, for any number of rows, workers and crashes. | a refinement mapping per key; each action maps to one of the slot's or to a stutter, from `LeaseInv` and `UniqueActiveKey` |
| `Service_proofs` | `LimitsHold`, of `NeverOver` | No monthly counter ever passes its limit, for any number of callers, calls, units, months and attempts. | `IInv`: what is committed and what an open transaction adds to a locked row stay within the limit |
| `Service_proofs` | `RefinesAtomic`, of `IsAtomic` | The transaction of upserts with row locks, rollbacks and retries implements the quota that settles a call in one step. | a commit maps to the abstract admission, a refusal or a give-up to its verdict, every other step to a stutter |
| `Service_proofs` | `CallsPayInFull`, of `PaidInFull` | A counter is at exactly what the calls let through in its month cost, for any number of calls, units, months and attempts. | `PaidInv`: each unit a call pays is an element of a set, so that a commit adds a disjoint set of `Cost` elements; every other step lets nobody through |
| `Component_proofs` | `WaitsRise` | Transactions whose calls ascend among the sorted keys only ever wait upwards. | what a transaction holds lies below what it waits for |
| `Component_proofs` | `NoDeadlock`, of `NoCircularWait` | No set of transactions waits in a circle, for any number of them and of keys, when the calls ascend in one order but for keys behind a guard that is taken first: as shares in opposite document order do. | a key behind a guard is never waited for: who takes it holds its guard, which a holder of the key would hold too (`GuardedUncontended`); among the other keys a circle of waits would have a highest-ranking one (`NoCircle`, by the least of a set of naturals). Which order and guard meet the hypotheses at the calls of the runs, TLC evaluates (`CallsGuarded` in `MCIntake`) |
| `Component_proofs` | `LeaksArePaid`, of `LeaksPaid` | Each stored object that nothing refers to and nothing will delete is paid for by its own death or failed deletion, whatever compactions, collections and intakes overlap. | each step leaves what was left before, or one key more and one fault more (`LeaksGrow`). It needs that a forgotten key's object is gone (`RetirementsStand`) and that a compaction holds nothing before it has put (`NothingPut`) |
| `Component_proofs` | `ReadsAlwaysSurvive`, of `ReadsSurvive` | If at most one retirement grace ends under a reader, no conversion fails to read its original, for any number of readers, compactions and collections. | `ReadersStand`: a reader's key is still the pointer or in its grace, unless a grace ended under it, and it gives up only after that happened twice. The hypothesis `MaxSlow <= 1` bounds those graces |
| `Component_proofs` | `RunsStand` | What a conversion run has learned of its row stays true until it ends, and a content id has one run, for any number of revisions, workers and faults. | `LifecycleInv`. `ReadyFindable` alone is not inductive: a run settles a revision on what it read many steps earlier, which holds because the row has one run (`RunsAlone`) and nobody else promotes into it (`SeenStands`, `VerdictStands`, `CandidateStands`) |
| `Component_proofs` | `ReadyIsFindable`, of `ReadyFindable` | A revision is ready only with its Markdown in production and a document that makes it findable. | from `LifecycleInv` |
| `Component_proofs` | `UnreadableIsEmpty`, of `UnreadableHasNoProduction` | A revision the converter finally refused has no production text. | from `LifecycleInv` |
| `Component_proofs` | `RunsPromoteTheirOwn`, of `PromotesOwnCandidate` | Production text changes only when a run promotes its own candidate over the text it compared it with. | action by action from `LifecycleInv`: only a promotion writes the production text |
| `Service_proofs` | `ScopesStand` | The open scopes of a task lie on top of the stack it sees and are its own, and every connection in use works for an open scope. | `ScopesInv`: a task's blocks are the top of the inherited stack (`OnTop`), scopes of its own already opened (`OwnBlocks`), so that a scope that opens is one no connection works for; a statement waits inside an open block (`WaitsInside`), so that the connection it gets works for one |
| `Service_proofs` | `StandingsHold`, of `StandingIsCallers` | Every connection in use has its caller's standing and every idle one nobody's, however deep blocks nest and tasks inherit stacks. | part of `ScopesInv` |
| `Service_proofs` | `NoneIsLost`, of `NoConnectionLost` | Every connection in use belongs to an open block, whatever fails. | part of `ScopesInv`: leaving a block returns the connection of its scope, and every other open scope stays open |
| `Service_proofs` | `PopsAreOwn` | A block that ends pops the scope it pushed, for any nesting of blocks and spawned tasks. | from `OnTop` |
| `EntityMerge` | `ReadFactsAreKept` | However stale its reading, a merge deletes no claim it read of a named subject: what goes is a claim on a duplicate that its scope set did not see or that was written in between. | from `MergeInv`, which is inductive: a pass that is not stale redirects what it read to rows that stay (`RedirectStays`), so a claim goes only with an unread fact; that a set of names has a first one is by well-founded descent on the naturals (`FirstOf`) |
| `EntityMerge` | `NamesAreKept`, of `NamesStayHeld` | No merge, however stale its reading, takes the last entity of a name from any scope set. | what a merge takes from a scope set it puts on the keeper, which is named and outside the duplicates (`MergeInv`) |
| `Component_proofs` | `UploadsStand` | What a request redeems is gone for good, and live grants are counted by one mint call per user at a time. | `UploadInv`: a redeemed grant has left `rows` for good (`RedeemInv`), and a mint that has counted is alone with its user and below the cap at the time it stamped (`CountInv`), since live grants only get fewer as time passes (`FewerLive`) |
| `Component_proofs` | `RedemptionIsSingle`, of `SingleUse` | No two PUTs redeem one grant, for any number of grants, requests and users. | part of `RedeemInv` |
| `Component_proofs` | `LiveGrantsCapped` | No user holds more live grants than the cap, however mint calls race and time passes. | part of `CountInv` |
| `FactLedger` | `LedgerStands` | What a job locked its slot on is, until it writes, changed by closings only; it decided on what it matched, and a statement is open in one claim. | `LedgerInv` is inductive: outside the lock a step only closes rows (`ClosesOrWrites`), and the holder of the lock is alone in adding, revising or refuting one |
| `FactLedger` | `RefutationHolds` | A refuted statement is open again only in a claim that a later source wrote, however projections, decay and retractions interleave. | part of `LedgerInv`: what a write revises was not refuted when the slot was locked, and only its own write could refute it since; so no refuted row's end moves |
| `FactLedger` | `StatementsOpenOnce` | No statement is open in two claims of a slot at a time. | part of `LedgerInv`: the unique index, row by row |
| `FactLedger` | `HistoryIsAppended` | Where no source dates a fact past its own writing, no step removes a claim, reopens one, moves its start or prolongs it. | under `Ahead = 0` every fact of a locked job starts before the claims it matched end, so that revising one brings its end forward; `RewrittenRow` |
| `FactLedger` | `OneValueIsCurrent` | Where a chunk gives the slot one fact, stated outright and not ahead of its source, one claim of the slot is current at a time, whatever closes claims between planning and writing. | under `Simple`, `SoleInv`: all that is current was matched, so the one fact written revises it, or ends before it began; needed because nothing becomes current with time alone |
| `AuthorityCache` | `AuthorityStands` | Every cached entry is what Logto held when it was kept and is younger than the TTL, every load in flight is waited for by the request that began it, and both public entries are one reading. | `AuthorityInv` is inductive: what an entry was kept for must be remembered per tick (`Backed`), and that no tick passes under a load rests on who waits for it |
| `AuthorityCache` | `StandingWithinTTL` | No request acts on more standing than Logto granted its caller within the last TTL, whatever loads fail, overlap with changes or are shared. | from `AuthorityInv`; a load reads the list and the permissions in one tick, and a failed read yields less |
| `AuthorityCache` | `PublicWithinTTL` | Nothing is read as public that was not public within the last TTL: the public entry and the catalog's entry it is filled from do not add up. | from `AuthorityInv`: nobody else fills the catalog's entry, so both are kept and go together |
| `AuthorityCache` | `OwnChangesSeen` | A request that begins in a process after a change made there sees the change, a load in flight meanwhile notwithstanding. | from `AuthorityInv`: an entry and a load that is still to become one were read after the last eviction |
| `RowSecurity` | `RowsStand` | Rows keep their types, a child keeps its parent's scopes, and the policies of two releases meet only inside a transition. | `RowsInv` is inductive; which tables a transition has replaced is read off those it has left |
| `RowSecurity` | `ReadersStand` | Whoever reads a row stands in every scope stored on it, or the row is one public scope, on either backend and at every point of a policy transition. | from `RowsInv`: on PostgreSQL the parent's scopes are the child's |
| `RowSecurity` | `ReadersSeeTheirs` | Between transitions a session of the installed release reads every row its caller stands in. | from `RowsInv` |
| `RowSecurity` | `ShortcutAgrees` | Between transitions CockroachDB's policy on a child decides as PostgreSQL's policy on its parent. | from `RowsInv`: outside a transition every table has the same carrier |
| `RowSecurity` | `WritersStand` | A child row appears, changes or goes only by a caller that may write every scope of the row as it was and as it becomes. | `ChildWrite` of the old and of the new row; no statement alters a parent's scopes |
| `RowSecurity` | `BlobsStay` | On PostgreSQL a blob that revisions reference is attached to another revision only by a caller entitled to read one of those. | `Attachable`; assumes `~Cockroach`, as the PostgreSQL baseline alone installs the check |
| `CallerLimits` | `LimitsStand` | The inductive invariant of the caller limits: each bucket in the table is paid for (what it holds and what it admitted is at most a full bucket and its refills), a user has one bucket at most, and the table is in the order of the refills. | Every action keeps it: a tick makes no bucket older, and a call moves its user's bucket to the end (lemmas `Removed`, `TouchedMoves`), refilled and charged (`ChargeIsPaid`). The products of variables are cut into two lemmas, `CostTimes` and `RateTimes`. |
| `CallerLimits` | `BurstIsBounded` | However the calls of one user's clients interleave, at most the burst and the elapsed refills are admitted while its bucket is kept, for every rate, cost, burst and table size. | From the invariant, as what a bucket holds is not negative. |
| `CallerLimits` | `UsersAreIndependent` | A call takes tokens of its own user only, and none loses its bucket while the table has room. | From what a call changes (`CallCharges`) and which bucket it can drop (`CallKeeps`). |
| `CallerLimits` | `TheIdlestGoes` | The bucket a full table drops is the one that was refilled longest ago. | Only the first of the table is dropped (`CallKeeps`), and the table is in order. |
| `CallerLimits` | `RefusalsCostNothing` | What a user may spend falls only by a call that was admitted, so a refused client that retries is not put off. | A refill right after a refill adds nothing, and a tick only adds (`SpendableIs`). |
| `MCService` | `AccessIsGuarded`, of `AccessGuarded` | All that MCService checks of access follows from the theorems of the components it instantiates: no more is admitted than the limits allow, a caller sees and writes what its standing allows, a task sees its own scope again, and standing is recent. | A behaviour exercises one part (`StepOfPart`, `PartStays`), so it is a behaviour of that part's module, whose theorem then speaks of it; one lemma a part (`LimitsGuarded`, `AuthorityGuarded`, ...). |
| `MCService` | `WorkStaysAccounted`, of `WorkIsAccounted` | At the constants of the run, under expiring leases one active row carries a key and attempts and events stay accounted for; a row that schedules had picked is in the batch of exactly one replica; and a scheduled pass whose time was taken has been offered, is being offered, or its callback is known to be cut. | The queue's part is a behaviour of `PortableQueue` with `MaxStalls = 1`, whose theorems hold for any number of stalls; the schedules' part is inductive with `BatchesHeld` (only a replica that works holds rows, so no claim drops its own batch) and `PromisesHeld` (what is owed is owed to scope sets with memory and is in hand or cut). |
| `Component_proofs` | `RepliesAreAccounted` | For any number of calls, captures, workers and attempts: a call that answered has its accounting job in the queue or its row in the ledger, whatever fails. | from `LedgerInv`: a job leaves the queue only with a worker that has seen its row, and a key recorded again adds none; assumes `LedgerAssumption` |
| `Component_proofs` | `CapturesAreOneRow` | However often a capture is recorded, reclaimed and run, it is one row of the ledger. | from `LedgerInv`: only the key of a first attempt is ever queued or inserted |
| `Component_proofs` | `ServedDatabasesStand` | For any number of services that start together, crash and start again: one that is up finds all it depends on, no two live jobs share a key, the index is rebuilt under no one, and reset drops only what both DSNs name. | from `ProvisionInv`, which says for each pc what its service may rely on whatever the others do; assumes that no service is called "free", the lock's value when nobody holds it |
| `Component_proofs` | `IndexStays` | A start over a declared index never takes it away. | from `ProvisionInv`: who is to rebuild it holds the lock and has seen it undeclared |
| `Component_proofs` | `BackupsStand` | For any days, stamps and writes: after a scheduled dump has succeeded a complete archive at least as new as the newest reported stays, the database is one whole generation, and a restore leaves the tokenizer standing. | from `BackupInv`: the newest complete archive is of the youngest day, so pruning, which counts days, spares it; assumes `BackupAssumption` |
| `Component_proofs` | `YoungArchivesStay` | Pruning takes nothing that is not past its days, whatever dumps and restores run beside it. | from `BackupInv` and the guard of each step that removes an archive |
| `Component_proofs` | `BareMembersAreOwed` | For any number of organizations, people and interleaved calls: a member without a role is one that an add or a create still works on or could not clean up. | `BareInv` adds to it the shape of a call in flight; assumes `OrganizationsAssumption` and that founding members have roles |

Each inductive invariant was checked by TLC on the parts of its component before
it was proved, and is stated in the module that holds its proof. The proofs of
`PortableQueue`, `MonthlyQuota` and `CallerTransactions` are in `Service_proofs`,
those of `ObjectStore`, `Uploads`, `ArtifactLifecycle`, `CoordinationLocks`,
`UsageLedger`, `Provisioning`, `Backups` and `Organizations` in
`Component_proofs`; `EntityMerge`, `FactLedger`, `AuthorityCache`, `RowSecurity` and
`CallerLimits` hold their own.

`AccessIsGuarded` composes: a behaviour of `MCService` exercises one part, so the
theorem of that part's module, which speaks of every value of its constants,
holds of it at the constants `MCService` gives it. It is therefore about the
instances of that run, and says nothing of larger ones that the component
theorems do not say already; what it adds is that the conjunction the run checks
follows from them, for behaviours of any length. `WorkStaysAccounted` does the
same for `WorkIsAccounted`: the queue's part is the theorems of `Service_proofs`,
instantiated at one stalled heartbeat, and the schedules' part is proved where it
stands, at the schedules of the run, from `BatchesHeld`: only a replica at work
holds a batch, and a row is picked exactly when it is in the batch of one replica,
and from `PromisesHeld`: an occurrence that was taken is owed to every scope set
that had memory, until it is offered, while it is in the hands of one replica or
its callback is known to be cut.

`NoDeadlock` is stated of calls as the code makes them. A share sorts the
documents of its batch and then the artifacts, and takes a finer lock per document
only behind the artifact's, in document order; two shares in opposite order take
those finer locks in opposite orders, and no global order of all keys exists.
`Guarded` says which keys are taken only by who holds their guard, and
`GlobalOrder` asks for one order among the rest. The premise is false of two
batches in the code, listed above (`graph/promote.py:124`, `extract/ingest.py:188`),
which do wait for each other.

What stays with TLC:

- every liveness property: fairness and ENABLED are outside the prover;
- what a recursive definition computes for every input (the boilerplate pass,
  the packing walk, the window merges): induction over data is out of reach
  here, and tlapm has no SMT backend in a module with a RECURSIVE operator;
- `HistoryKeptStep` of `EntityMerge` is checked for one scope set without
  writers only. It is no theorem in general: a merge on an older reading deletes
  entities that other scope sets have put facts on since, and the foreign keys
  cascade to those facts. What holds in general is `ReadFactsKept`: what the pass
  has read is kept;
- `OneGeneration` of `Themes` is checked of a serializable database (parts `themes`
  and `cuts`). At READ COMMITTED (part `swaps`) it is false; what holds there is
  that no more generations stand than builders overlapped (`GenerationsBounded`)
  and that a swap that meets no other leaves its own (`AloneLeavesOne`);
- `SingleCurrent` where a chunk may give one slot several facts or contest what
  is there: TLC finds several values current then, so it is no theorem;
- the type invariants of the three `MC` modules, which are conjunctions over
  all their parts: the components' own are theorems where a component has one;
- the other properties that speak for several components at once:
  `OperationsTrue` and `Administered` of `MCService`,
  `DocumentsStand`, `ConversionKeeps` and `AccountsReconcile` of `MCIntake`,
  `GraphKeeps`, `ExtractionKeeps`, `RetrievalKeeps` and `EvaluationKeeps` of
  `MCMemory`. Parts of them are theorems of their components: what `GraphKeeps`
  says of `FactLedger`, `AccountsReconcile` of the usage ledger's rows,
  `OperationsTrue` of provisioning and archives, and `Administered` of members
  without a role. The other parts stay on their small instances, and the pure
  operators the rest speak of are evaluated on bounded inputs.

## Not modelled

Model serving, the importers, the ontology catalogue, settings and the schema
history have no protocol of their own. Inside modelled components the following
is left out: clustering and distances over embeddings, prompts and what a model
answers (any answer its type allows is an input), the quality gate's scores,
SQL text, reports, wire formats and encodings. `PROJECT.json` says so component
by component.

## Running

`tlc -config MCService_safety.cfg MCService.tla`, and likewise for the other
configurations; each finishes within five minutes with two workers.
`tlapm <module>.tla` checks the proofs of a module that has theorems.
