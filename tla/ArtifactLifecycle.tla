------------------------- MODULE ArtifactLifecycle -------------------------
(***************************************************************************)
(* The revisions of one uploaded file, from intake to findable text:       *)
(* ArtifactIntake and its dispatch cron, the conversion worker             *)
(* (ArtifactProcessor.process), the re-chunk worker (ArtifactReindexer),   *)
(* the operator's recovery and the reconversion and re-chunk sweeps.  All  *)
(* revisions are rendered into the one Document of the artifact.           *)
(*                                                                         *)
(* The queue is one slot per content id, the deduplication key of both     *)
(* conversion and re-chunk jobs, with one runner at a time: what           *)
(* KeysUnique and KeysExclusive prove of PortableQueue when heartbeats are *)
(* timely.  Texts are what the converter may answer; the file keeps its    *)
(* name, so a document's title never changes.                              *)
(***************************************************************************)
EXTENDS Naturals

CONSTANTS
  Content,        \* revisions of the artifact (artifact_content rows)
  Worker,         \* replicas running artifact jobs
  Text,           \* Markdown the converter may return
  Blob,           \* hashes of original bytes
  BlobOf,         \* content_hash of each revision's blob
  SweepPolicy,    \* ReconversionSweep.policy values
  Matches,        \* revisions whose media type each sweep matches
  DefaultPolicy,  \* "converter-v2", the policy of an ordinary conversion
  RechunkSweep,   \* the re-chunk sweep
  NoValue,        \* SQL NULL
  MaxAttempts,    \* QueueJob.max_attempts
  MaxFaults       \* bound on crashes and infrastructure errors

Policy == SweepPolicy \cup {DefaultPolicy}
Sweeper == SweepPolicy \cup {RechunkSweep}
Hand == {"accept", "dispatch"}   \* who hands a content id to the queue

PoliciesAssumption ==
  /\ DefaultPolicy \notin SweepPolicy /\ RechunkSweep \notin Policy
  /\ NoValue \notin Text \cup Policy \cup Content \cup Blob
  /\ Matches \in [SweepPolicy -> SUBSET Content]
  /\ BlobOf \in [Content -> Blob]
BoundsAssumption ==
  MaxAttempts \in Nat \ {0} /\ MaxFaults \in Nat

VARIABLES
  state,      \* ArtifactContent.state, "absent" before create_original
  markdown,   \* the production derivative
  policy,     \* conversion_policy of that derivative
  candidate,  \* candidate_markdown and candidate_policy
  document,   \* the artifact's Document: revision, content_hash, chunked text
  job,        \* the queue's active or retained row under each content id
  run,        \* what each worker is executing
  hand,       \* where accept() and dispatch_pending() stand with a content
  offered,    \* what a sweep has read and not yet enqueued
  faults

rowVars == <<state, markdown, policy, candidate>>
artifactVars == <<rowVars, document, job, run, hand, offered, faults>>

States == {"absent", "pending", "queued", "processing", "ready", "failed", "unreadable"}

NoCandidate == [text |-> NoValue, policy |-> NoValue]
NoDocument == [content |-> NoValue, blob |-> NoValue, text |-> NoValue]
NoJob == [kind |-> "none", policy |-> NoValue, status |-> "none", attempts |-> 0]
NoRun == [content |-> NoValue, pc |-> "idle", policy |-> NoValue, seen |-> NoValue, text |-> NoValue,
          tried |-> FALSE, plan |-> "none", verdict |-> "none", raises |-> FALSE]

Job == [kind: {"convert", "rechunk"}, policy: Policy \cup {NoValue},
        status: {"queued", "picked", "failed"}, attempts: 0..MaxAttempts]
Document == [content: Content, blob: Blob, text: Text \cup {NoValue}]
Run == [content: Content, policy: Policy \cup {NoValue},
        pc: {"begin", "load", "convert", "record", "plan", "store", "promote", "quarantine",
             "settle", "read", "rebuild", "stamp", "returned", "raised"},
        seen: Text \cup {NoValue}, text: Text \cup {NoValue}, tried: BOOLEAN,
        plan: {"none", "same", "metadata", "changed"},
        verdict: {"none", "ready", "failed", "unreadable"}, raises: BOOLEAN]

ArtifactTypeOK ==
  /\ state \in [Content -> States]
  /\ markdown \in [Content -> Text \cup {NoValue}]
  /\ policy \in [Content -> Policy \cup {NoValue}]
  /\ candidate \in [Content -> [text: Text \cup {NoValue}, policy: Policy \cup {NoValue}]]
  /\ document \in Document \cup {NoDocument}
  /\ job \in [Content -> Job \cup {NoJob}]
  /\ run \in [Worker -> Run \cup {NoRun}]
  /\ hand \in [Hand -> [Content -> {"none", "listed", "refused", "enqueued"}]]
  /\ offered \in [Sweeper -> SUBSET Content]
  /\ faults \in 0..MaxFaults

ArtifactInit ==
  /\ state = [c \in Content |-> "absent"]
  /\ markdown = [c \in Content |-> NoValue]
  /\ policy = [c \in Content |-> NoValue]
  /\ candidate = [c \in Content |-> NoCandidate]
  /\ document = NoDocument
  /\ job = [c \in Content |-> NoJob]
  /\ run = [w \in Worker |-> NoRun]
  /\ hand = [h \in Hand |-> [c \in Content |-> "none"]]
  /\ offered = [s \in Sweeper |-> {}]
  /\ faults = 0

-----------------------------------------------------------------------------
(* The queue slot of a content id.                                         *)

NewJob(k, p) == [kind |-> k, policy |-> p, status |-> "queued", attempts |-> 0]

\* Queue.enqueue under the content id: refused while any row, conversion or
\* re-chunk, holds the key.
Admits(c) == job[c] = NoJob

\* requeue_failed(DoclingConversionJob), whose limit of 100 exceeds Content.
Held == {c \in Content : job[c].kind = "convert" /\ job[c].status = "failed"}
RequeueHeld == job' = [c \in Content |-> IF c \in Held THEN [job[c] EXCEPT !.status = "queued"]
                                         ELSE job[c]]

\* Active under active_payloads of the conversion entrypoint.
Converting(c) == job[c].kind = "convert"

-----------------------------------------------------------------------------
(* Intake: create_original, then the handoff that dispatch_pending repeats *)
(* for originals it still finds pending.                                   *)

Accept(c) ==
  /\ state[c] = "absent"
  /\ state' = [state EXCEPT ![c] = "pending"]
  /\ hand' = [hand EXCEPT !["accept"][c] = "listed"]
  /\ UNCHANGED <<markdown, policy, candidate, document, job, run, offered, faults>>

Dispatchable(c) == state[c] = "pending"

\* ArtifactDispatchJob reads its batch once the previous pass is over.
DispatchReads ==
  LET batch == {c \in Content : Dispatchable(c)} IN
  /\ \A c \in Content : hand["dispatch"][c] = "none"
  /\ batch # {}
  /\ hand' = [hand EXCEPT !["dispatch"] = [c \in Content |-> IF c \in batch THEN "listed"
                                                             ELSE "none"]]
  /\ UNCHANGED <<rowVars, document, job, run, offered, faults>>

\* ArtifactQueue.enqueue, first transaction.  dispatch_pending takes the
\* contents of its batch one after the other.
HandEnqueues(h, c) ==
  /\ hand[h][c] = "listed"
  /\ h = "dispatch" => \A d \in Content : hand[h][d] \in {"none", "listed"}
  /\ IF Admits(c)
     THEN /\ job' = [job EXCEPT ![c] = NewJob("convert", DefaultPolicy)]
          /\ hand' = [hand EXCEPT ![h][c] = "enqueued"]
     ELSE /\ job' = job
          /\ hand' = [hand EXCEPT ![h][c] = "refused"]
  /\ UNCHANGED <<rowVars, document, run, offered, faults>>

\* ArtifactQueue.enqueue, after a refusal: retained conversions go back.
HandRequeues(h, c) ==
  /\ hand[h][c] = "refused"
  /\ RequeueHeld
  /\ hand' = [hand EXCEPT ![h][c] = "enqueued"]
  /\ UNCHANGED <<rowVars, document, run, offered, faults>>

\* set_state(queued), whatever the worker made of the job meanwhile.
HandMarksQueued(h, c) ==
  /\ hand[h][c] = "enqueued"
  /\ state' = [state EXCEPT ![c] = "queued"]
  /\ hand' = [hand EXCEPT ![h][c] = "none"]
  /\ UNCHANGED <<markdown, policy, candidate, document, job, run, offered, faults>>

\* The process dies in between.
HandDies(h, c) ==
  /\ hand[h][c] # "none"
  /\ faults < MaxFaults
  /\ faults' = faults + 1
  /\ hand' = [hand EXCEPT ![h] = IF h = "dispatch" THEN [d \in Content |-> "none"]
                                 ELSE [@ EXCEPT ![c] = "none"]]
  /\ UNCHANGED <<rowVars, document, job, run, offered>>

-----------------------------------------------------------------------------
(* A worker's run of one job.                                              *)

Goto(w, pc) == run' = [run EXCEPT ![w].pc = pc]
At(w, pc) == run[w].pc = pc

ClaimableShared(c) ==   \* mutant: a picked row is claimed again while it runs
  job[c].status \in {"queued", "picked"}
ClaimableAny(c) ==   \* mutant: the status of the row is not asked
  job[c].status # "picked"
Claimable(c) == job[c].status = "queued"

Claim(w, c) ==
  /\ run[w] = NoRun
  /\ Claimable(c)
  /\ job' = [job EXCEPT ![c].status = "picked",
                        ![c].attempts = IF @ < MaxAttempts THEN @ + 1 ELSE @]
  /\ run' = [run EXCEPT ![w] =
       [NoRun EXCEPT !.content = c, !.policy = job[c].policy,
                     !.pc = IF job[c].kind = "convert" THEN "begin" ELSE "read"]]
  /\ UNCHANGED <<rowVars, document, hand, offered, faults>>

\* process: set_state(processing), outside the try.
Begin(w) ==
  /\ At(w, "begin")
  /\ state' = [state EXCEPT ![run[w].content] = "processing"]
  /\ Goto(w, "load")
  /\ UNCHANGED <<markdown, policy, candidate, document, job, hand, offered, faults>>

\* repository.original and read_original.
Load(w) ==
  /\ At(w, "load")
  /\ run' = [run EXCEPT ![w].seen = markdown[run[w].content], ![w].pc = "convert"]
  /\ UNCHANGED <<rowVars, document, job, hand, offered, faults>>

\* The converter answers with Markdown (and enrichment succeeds).
Converts(w, x) ==
  /\ At(w, "convert")
  /\ run' = [run EXCEPT ![w].text = x, ![w].pc = "record"]
  /\ UNCHANGED <<rowVars, document, job, hand, offered, faults>>

\* Docling refuses the file: reject() keeps a converted revision ready and
\* otherwise indexes its metadata alone.
Rejects(w, v) ==
  /\ At(w, "convert")
  /\ IF run[w].seen # NoValue
     THEN run' = [run EXCEPT ![w].verdict = "ready", ![w].pc = "quarantine"]
     ELSE run' = [run EXCEPT ![w].verdict = v, ![w].pc = "plan"]
  /\ UNCHANGED <<rowVars, document, job, hand, offered, faults>>

\* record_candidate and the quality gate, which accepts every first text.
Records(w, accepted) ==
  LET c == run[w].content IN
  /\ At(w, "record")
  /\ accepted \/ run[w].seen # NoValue
  /\ candidate' = [candidate EXCEPT ![c] = [text |-> run[w].text, policy |-> run[w].policy]]
  /\ run' = [run EXCEPT ![w].verdict = "ready", ![w].tried = accepted,
                        ![w].pc = IF accepted THEN "plan" ELSE "settle"]
  /\ UNCHANGED <<state, markdown, policy, document, job, hand, offered, faults>>

\* index, first transaction: TextIngestor._plans compares the standing
\* document with the hash of the original bytes.
PlanFor(c) ==
  IF document.blob # BlobOf[c] THEN "changed"
  ELSE IF document.content = c THEN "same" ELSE "metadata"
Plans(w) ==
  /\ At(w, "plan")
  /\ run' = [run EXCEPT ![w].plan = PlanFor(run[w].content), ![w].pc = "store"]
  /\ UNCHANGED <<rowVars, document, job, hand, offered, faults>>

Rendered(w) == [content |-> run[w].content, blob |-> BlobOf[run[w].content],
                text |-> run[w].text]

\* index, second transaction: TextIngestor._store follows the plan; only
\* DocumentStore.store reads the document again.
Indexed(w) ==
  IF run[w].plan = "same" THEN document
  ELSE IF run[w].plan = "metadata" THEN [document EXCEPT !.content = run[w].content]
  ELSE IF document.blob = BlobOf[run[w].content] THEN document
  ELSE Rendered(w)
Stores(w) ==
  /\ At(w, "store")
  /\ document' = Indexed(w)
  /\ run' = [run EXCEPT ![w].plan = "none",
                        ![w].pc = IF run[w].raises THEN "quarantine"
                                  ELSE IF run[w].verdict = "ready" THEN "promote"
                                  ELSE "settle"]
  /\ UNCHANGED <<rowVars, job, hand, offered, faults>>

PromotedUnstamped(w) == policy   \* mutant: conversion_policy is not written
Promoted(w) == [policy EXCEPT ![run[w].content] = run[w].policy]

\* promote_candidate; a candidate of another policy is a LookupError.
Promotes(w) ==
  LET c == run[w].content IN
  /\ At(w, "promote")
  /\ IF candidate[c].policy = run[w].policy /\ candidate[c].text # NoValue
     THEN /\ markdown' = [markdown EXCEPT ![c] = candidate[c].text]
          /\ policy' = Promoted(w)
          /\ candidate' = [candidate EXCEPT ![c] = NoCandidate]
          /\ Goto(w, "settle")
     ELSE /\ Goto(w, "raised")
          /\ UNCHANGED <<markdown, policy, candidate>>
  /\ UNCHANGED <<state, document, job, hand, offered, faults>>

\* record_candidate_error.
Quarantines(w) ==
  /\ At(w, "quarantine")
  /\ candidate' = [candidate EXCEPT ![run[w].content].policy = run[w].policy]
  /\ Goto(w, "settle")
  /\ UNCHANGED <<state, markdown, policy, document, job, hand, offered, faults>>

\* The closing set_state.
Settles(w) ==
  /\ At(w, "settle")
  /\ state' = [state EXCEPT ![run[w].content] = run[w].verdict]
  /\ Goto(w, IF run[w].raises THEN "raised" ELSE "returned")
  /\ UNCHANGED <<markdown, policy, candidate, document, job, hand, offered, faults>>

\* process's except clause: a converted revision goes back to its old text
\* and stays ready, another one fails.
PreservesAlways(w) == TRUE   \* mutant: not asked whether there is a production text
Preserves(w) == run[w].seen # NoValue
Rescued(w) ==
  IF Preserves(w)
  THEN [run[w] EXCEPT !.raises = TRUE, !.verdict = "ready", !.text = run[w].seen,
                      !.pc = IF run[w].tried THEN "plan" ELSE "quarantine"]
  ELSE [run[w] EXCEPT !.raises = TRUE, !.verdict = "failed", !.pc = "settle"]

\* An exception the except clause lists: SQL, HTTP, caption, integrity.
Errs(w) ==
  /\ run[w].pc \in {"load", "convert", "record", "plan", "store", "promote", "quarantine",
                    "settle"}
  /\ ~ run[w].raises
  /\ faults < MaxFaults
  /\ faults' = faults + 1
  /\ run' = [run EXCEPT ![w] = Rescued(w)]
  /\ UNCHANGED <<rowVars, document, job, hand, offered>>

\* Any other exception, or one raised outside the try, goes to the queue.
Escapes(w) ==
  /\ run[w].pc \notin {"idle", "returned", "raised"}
  /\ faults < MaxFaults
  /\ faults' = faults + 1
  /\ Goto(w, "raised")
  /\ UNCHANGED <<rowVars, document, job, hand, offered>>

\* ArtifactReindexer.reindex: repository.converted, LookupError without
\* Markdown; rechunk replaces the document's chunks unconditionally;
\* record_indexing stamps indexed_at, which only orders the sweep.
Reads(w) ==
  LET text == markdown[run[w].content] IN
  /\ At(w, "read")
  /\ run' = [run EXCEPT ![w].text = text, ![w].pc = IF text = NoValue THEN "raised" ELSE "rebuild"]
  /\ UNCHANGED <<rowVars, document, job, hand, offered, faults>>
Rebuilds(w) ==
  /\ At(w, "rebuild")
  /\ document' = Rendered(w)
  /\ Goto(w, "stamp")
  /\ UNCHANGED <<rowVars, job, hand, offered, faults>>
Stamps(w) ==
  /\ At(w, "stamp")
  /\ Goto(w, "returned")
  /\ UNCHANGED <<rowVars, document, job, hand, offered, faults>>

\* The queue's outcome: finish() frees the key, fail() retries or retains.
Succeeds(w) ==
  /\ At(w, "returned")
  /\ job' = [job EXCEPT ![run[w].content] = NoJob]
  /\ run' = [run EXCEPT ![w] = NoRun]
  /\ UNCHANGED <<rowVars, document, hand, offered, faults>>
Fails(w) ==
  /\ At(w, "raised")
  /\ job' = [job EXCEPT ![run[w].content].status =
               IF job[run[w].content].attempts >= MaxAttempts THEN "failed" ELSE "queued"]
  /\ run' = [run EXCEPT ![w] = NoRun]
  /\ UNCHANGED <<rowVars, document, hand, offered, faults>>

\* A worker dies; the lease of its job expires later.
Crash(w) ==
  /\ run[w] # NoRun
  /\ faults < MaxFaults
  /\ faults' = faults + 1
  /\ run' = [run EXCEPT ![w] = NoRun]
  /\ UNCHANGED <<rowVars, document, job, hand, offered>>
LeaseExpires(c) ==
  /\ job[c].status = "picked"
  /\ \A w \in Worker : run[w].content # c
  /\ job' = [job EXCEPT ![c].status = "queued"]
  /\ UNCHANGED <<rowVars, document, run, hand, offered, faults>>

-----------------------------------------------------------------------------
(* The operator's commands.                                                *)

\* ArtifactRecovery.retry, retained jobs first.
RetryHeld ==
  /\ Held # {}
  /\ RequeueHeld
  /\ UNCHANGED <<rowVars, document, run, hand, offered, faults>>

\* enqueue_orphans holds the row's lock from its read to its commit, while
\* the job commits at once; dying in between leaves the state as it was.
RecoverOrphan(c) ==
  /\ state[c] = "failed" /\ Admits(c)
  /\ job' = [job EXCEPT ![c] = NewJob("convert", DefaultPolicy)]
  /\ \/ /\ state' = [state EXCEPT ![c] = "queued"]
        /\ faults' = faults
     \/ /\ faults < MaxFaults
        /\ faults' = faults + 1
        /\ state' = state
  /\ UNCHANGED <<markdown, policy, candidate, document, run, hand, offered>>

\* What a pass reads: ready revisions with Markdown, and for a reconversion
\* those its policy has neither converted nor tried, without a live job.
Wanted(s, c) ==
  /\ state[c] = "ready" /\ markdown[c] # NoValue
  /\ s \in SweepPolicy => /\ c \in Matches[s]
                          /\ policy[c] # s /\ candidate[c].policy # s
                          /\ ~ Converting(c)

\* ArtifactReconversion.originals and ArtifactRechunk.converted; which part
\* the limit and the order pick is abstracted to any.
SweepReads(s) ==
  /\ offered[s] = {}
  /\ \E S \in SUBSET {c \in Content : Wanted(s, c)} :
       /\ S # {}
       /\ offered' = [offered EXCEPT ![s] = S]
  /\ UNCHANGED <<rowVars, document, job, run, hand, faults>>
SweepEnqueues(s, c) ==
  /\ c \in offered[s]
  /\ offered' = [offered EXCEPT ![s] = @ \ {c}]
  /\ job' = IF ~ Admits(c) THEN job
            ELSE [job EXCEPT ![c] = IF s = RechunkSweep THEN NewJob("rechunk", NoValue)
                                    ELSE NewJob("convert", s)]
  /\ UNCHANGED <<rowVars, document, run, hand, faults>>

-----------------------------------------------------------------------------
Process(w) ==
  \/ Begin(w)
  \/ Load(w)
  \/ \E x \in Text : Converts(w, x)
  \/ \E v \in {"failed", "unreadable"} : Rejects(w, v)
  \/ \E accepted \in BOOLEAN : Records(w, accepted)
  \/ Plans(w)
  \/ Stores(w)
  \/ Promotes(w)
  \/ Quarantines(w)
  \/ Settles(w)
  \/ Reads(w)
  \/ Rebuilds(w)
  \/ Stamps(w)
  \/ Succeeds(w)
  \/ Fails(w)

Handoff(h, c) ==
  \/ HandEnqueues(h, c)
  \/ HandRequeues(h, c)
  \/ HandMarksQueued(h, c)

ArtifactNext ==
  \/ \E c \in Content : Accept(c)
  \/ DispatchReads
  \/ \E h \in Hand, c \in Content : Handoff(h, c)
  \/ \E h \in Hand, c \in Content : HandDies(h, c)
  \/ \E w \in Worker, c \in Content : Claim(w, c)
  \/ \E w \in Worker : Process(w)
  \/ \E w \in Worker : Errs(w)
  \/ \E w \in Worker : Escapes(w)
  \/ \E w \in Worker : Crash(w)
  \/ \E c \in Content : LeaseExpires(c)
  \/ RetryHeld
  \/ \E c \in Content : RecoverOrphan(c)
  \/ \E s \in Sweeper : SweepReads(s)
  \/ \E s \in Sweeper, c \in Content : SweepEnqueues(s, c)

ArtifactSpec == ArtifactInit /\ [][ArtifactNext]_artifactVars

-----------------------------------------------------------------------------
(* What the pipeline promises.                                             *)

\* "make its text findable before marking it ready": a ready revision has
\* its Markdown in production and the artifact a document, whatever failed,
\* crashed or was retried on the way (ArtifactProcessor.process).
ReadyFindable ==
  \A c \in Content : state[c] = "ready" => markdown[c] # NoValue /\ document # NoDocument

\* Production text changes only by a worker promoting the very text it
\* converted and indexed, assessed against the text it replaces
\* (promote_candidate copies whatever candidate the row holds).
PromotesOwnCandidateStep ==
  \A c \in Content : markdown'[c] # markdown[c] =>
    \E w \in Worker :
      /\ run[w].content = c /\ run[w].tried
      /\ markdown'[c] = run[w].text /\ markdown[c] = run[w].seen
PromotesOwnCandidate == [][PromotesOwnCandidateStep]_artifactVars

\* Docling's final refusal never buries a production derivative (reject).
UnreadableHasNoProduction ==
  \A c \in Content : state[c] = "unreadable" => markdown[c] = NoValue

\* A reconversion that policy s enqueued is waiting or running.
Reconverts(s, c) == job[c].policy = s /\ job[c].status \in {"queued", "picked"}

\* An accepted original no job was enqueued for, and one whose job waits.
IsPending(c) == state[c] = "pending"
IsQueued(c) == state[c] = "queued"

\* docs/dev/write/boilerplate.mdx: "The conversion job rewrites the stored
\* Markdown and the ingest pass rechunks it".  A ready revision no job is
\* working on, and whose document it is, is chunked from its Markdown.
DocumentCarriesMarkdown ==
  \A c \in Content :
    /\ state[c] = "ready" /\ job[c] = NoJob
    /\ document.content = c
    => document.text = markdown[c]
=============================================================================
