----------------------------- MODULE Documents -----------------------------
(***************************************************************************)
(* One source document, the copy a share makes of it in another scope set, *)
(* their spans (chunks) and the live claims the spans ground.  Writers are  *)
(* the transactions of extract/ingest.py (ingestion, re-chunking) and       *)
(* graph/promote.py (share and move); projection jobs turn a span into a    *)
(* claim.  Transactions run at READ COMMITTED, as store/backend.py opens    *)
(* them on PostgreSQL: each statement sees what is committed when it runs,  *)
(* and what a transaction writes shows at its commit.                       *)
(*                                                                          *)
(* A document has one span per revision (a text is split the same way every *)
(* time), a span yields one fact, named by its text, and `meta` stands for  *)
(* what a capture says besides the text (observed time, artifact content).  *)
(***************************************************************************)
EXTENDS Naturals, FiniteSets

CONSTANTS
  Ingestors,   \* tasks that keep or index a text
  Rechunkers,  \* workers that re-chunk a converted original
  Sharers,     \* tasks that share or move the original
  Texts,       \* revisions of the text, positive numbers
  Metas,       \* captures
  Into,        \* the documents an ingested text may identify
  Moves,       \* which kinds of share happen: FALSE copies, TRUE moves
  MaxCalls,    \* bound on the operations started
  MaxCrashes,  \* bound on projections a crash interrupts
  None         \* no transaction

Docs == {"original", "copy"}
Writers == Ingestors \cup Rechunkers \cup Sharers

DocumentsAssumption ==
  /\ Texts \subseteq Nat \ {0}
  /\ Into \subseteq Docs
  /\ Moves \subseteq BOOLEAN
  /\ MaxCalls \in Nat
  /\ MaxCrashes \in Nat
  /\ None \notin Writers

(* Text 0 is a row that does not exist.                                     *)
Rows == [text : Texts \cup {0}, meta : Metas, retired : BOOLEAN]
NoRow == [text |-> 0, meta |-> CHOOSE m \in Metas : TRUE, retired |-> FALSE]

SpanIds == 1..(MaxCalls + 1)
Spans == [doc : Docs, id : SpanIds, text : Texts, meta : Metas, done : BOOLEAN]

(* Span 0 is a claim whose source_chunk_id the database set to null.        *)
Claims == [doc : Docs, span : SpanIds \cup {0}, text : Texts, meta : Metas]

JobStates == {"idle", "queued", "running"}

NoTx == [pc |-> "idle", doc |-> "original", text |-> 0, meta |-> NoRow.meta, move |-> FALSE,
         snap |-> NoRow, source |-> NoRow, spans |-> {}, facts |-> {},
         closing |-> {}, dropping |-> {}]

VARIABLES
  row,      \* Docs -> the committed document row
  spans,    \* the committed chunks
  claims,   \* the live claims
  born,     \* span ids given out
  tx,       \* Writers -> the transaction (or the plan) in progress
  revision, \* Docs -> the holder of the document_revision lock
  rowlock,  \* Docs -> the transaction with an uncommitted update of the row
  job,      \* SpanIds -> the projection job of the span
  seen,     \* SpanIds -> the capture a running projection read
  kept,     \* texts whose stored conversion a re-chunk may be given
  calls, crashes

vars == <<row, spans, claims, born, tx, revision, rowlock, job, seen, kept, calls, crashes>>

TypeOK ==
  /\ row \in [Docs -> Rows]
  /\ spans \subseteq Spans
  /\ claims \subseteq Claims
  /\ born \in 0..(MaxCalls + 1)
  /\ \A t \in Writers : tx[t].doc \in Docs /\ tx[t].snap \in Rows
  /\ revision \in [Docs -> Writers \cup {None}]
  /\ rowlock \in [Docs -> Writers \cup {None}]
  /\ job \in [SpanIds -> JobStates]
  /\ seen \in [SpanIds -> Metas]
  /\ kept \subseteq Texts
  /\ calls \in 0..MaxCalls
  /\ crashes \in 0..MaxCrashes

Init ==
  /\ row = [d \in Docs |-> NoRow]
  /\ spans = {}
  /\ claims = {}
  /\ born = 0
  /\ tx = [t \in Writers |-> NoTx]
  /\ revision = [d \in Docs |-> None]
  /\ rowlock = [d \in Docs |-> None]
  /\ job = [i \in SpanIds |-> "idle"]
  /\ seen = [i \in SpanIds |-> NoRow.meta]
  /\ kept = {}
  /\ calls = 0
  /\ crashes = 0

----------------------------------------------------------------------------
Exists(d) == row[d].text # 0
SpansOf(d) == {s \in spans : s.doc = d}
Ids(S) == {s.id : s \in S}

(* Claims a statement selects through chunk.document_id.                    *)
ClaimsOf(d) == {c \in claims : c.span \in Ids(SpansOf(d))}

At(t, label) == tx[t].pc = label
Step(t, label) == tx' = [tx EXCEPT ![t].pc = label]
Wanted(t) == [text |-> tx[t].text, meta |-> tx[t].meta, retired |-> FALSE]

(* The mapped update writes only the columns that differ from the row the   *)
(* session loaded; the others keep what is committed.                       *)
Overlay(current, loaded, new) ==
  [f \in DOMAIN new |-> IF new[f] = loaded[f] THEN current[f] ELSE new[f]]

(* Deleting a chunk sets source_chunk_id to null on the claims that still   *)
(* name it; those the transaction closed are no longer live.                *)
Unsource(C, ids) ==
  {IF c.span \in ids THEN [c EXCEPT !.span = 0] ELSE c : c \in C}

(* The partial unique index on live claims: one per fact and scope set.     *)
Claimed(C, new) ==
  C \cup {n \in new : \A c \in C : ~(c.doc = n.doc /\ c.text = n.text)}

Release(t) ==
  /\ revision' = [d \in Docs |-> IF revision[d] = t THEN None ELSE revision[d]]
  /\ rowlock' = [d \in Docs |-> IF rowlock[d] = t THEN None ELSE rowlock[d]]

Free(t, d) == rowlock[d] \in {None, t}
Holding == {"flush", "publish"}

(* Spans an uncommitted DELETE holds.                                       *)
Locked == UNION {tx[t].dropping : t \in {u \in Writers : tx[u].pc \in Holding}}

Queued(ids) == [i \in SpanIds |-> IF i \in ids /\ job[i] = "idle" THEN "queued" ELSE job[i]]

----------------------------------------------------------------------------
(* Ingestion.                                                               *)

(* TextIngestor._plans: hash the text and look the document up in a         *)
(* transaction of its own, before the embedding call.  A source that        *)
(* matches altogether changes nothing.                                      *)
Plan(t) ==
  /\ t \in Ingestors /\ At(t, "idle") /\ calls < MaxCalls
  /\ \E d \in Into, text \in Texts, meta \in Metas :
       LET same == row[d].text = text
           new == [text |-> text, meta |-> meta, retired |-> FALSE]
       IN /\ row[d] # new
          /\ tx' = [tx EXCEPT ![t] = [NoTx EXCEPT !.doc = d, !.text = text, !.meta = meta,
                                       !.snap = row[d],
                                       !.pc = IF same THEN "revalidate" ELSE "store"]]
  /\ calls' = calls + 1
  /\ UNCHANGED <<row, spans, claims, born, revision, rowlock, job, seen, kept, crashes>>

(* DocumentStore.update_metadata on the planned document: the UPDATE of the *)
(* row and the retraction, neither of them after another look.              *)
Revalidate(t) ==
  /\ At(t, "revalidate") /\ Free(t, tx[t].doc)
  /\ tx' = [tx EXCEPT ![t].pc = "revalidated", ![t].closing = ClaimsOf(tx[t].doc)]
  /\ rowlock' = [rowlock EXCEPT ![tx[t].doc] = t]
  /\ UNCHANGED <<row, spans, claims, born, revision, job, seen, kept, calls, crashes>>

(* Its last statement clears processed_at, and the transaction commits.     *)
RevalidateCommit(t) ==
  /\ At(t, "revalidated")
  /\ LET d == tx[t].doc
     IN /\ row' = [row EXCEPT ![d].meta = tx[t].meta, ![d].retired = FALSE]
        /\ spans' = {IF s.doc = d THEN [s EXCEPT !.meta = tx[t].meta, !.done = FALSE] ELSE s
                     : s \in spans}
  /\ claims' = claims \ tx[t].closing
  /\ tx' = [tx EXCEPT ![t] = [NoTx EXCEPT !.pc = "enqueue", !.doc = tx[t].doc]]
  /\ Release(t)
  /\ UNCHANGED <<born, job, seen, kept, calls, crashes>>

(* DocumentStore.store and the second transaction of rechunk select the     *)
(* standing row; no lock is held yet.                                       *)
Find(t) ==
  /\ At(t, "store")
  /\ LET found == row[tx[t].doc]
     IN tx' = [tx EXCEPT ![t].snap = found,
                         ![t].pc = CASE found.text = 0 -> "insert"
                                     [] found.text = tx[t].text /\ t \in Ingestors -> "enqueue"
                                     [] OTHER -> "lock"]
  /\ UNCHANGED <<row, spans, claims, born, revision, rowlock, job, seen, kept, calls, crashes>>

(* A document nobody stored yet, with its chunks; when somebody else did    *)
(* since the SELECT, the unique source locator refuses it.                  *)
Insert(t) ==
  /\ At(t, "insert")
  /\ IF Exists(tx[t].doc)
     THEN /\ tx' = [tx EXCEPT ![t] = NoTx]
          /\ UNCHANGED <<row, spans, born, kept>>
     ELSE /\ row' = [row EXCEPT ![tx[t].doc] = Wanted(t)]
          /\ born' = born + 1
          /\ spans' = spans \cup {[doc |-> tx[t].doc, id |-> born', text |-> tx[t].text,
                                   meta |-> tx[t].meta, done |-> FALSE]}
          /\ kept' = kept \cup {tx[t].text}
          /\ Step(t, "enqueue")
  /\ UNCHANGED <<claims, revision, rowlock, job, seen, calls, crashes>>

(* acquire_locks(document_revision(...)): of the document found, or of the  *)
(* source of a share.                                                       *)
Lock(t) ==
  /\ At(t, "lock")
  /\ LET d == IF t \in Sharers THEN "original" ELSE tx[t].doc
     IN /\ revision[d] = None
        /\ revision' = [revision EXCEPT ![d] = t]
  /\ Step(t, IF t \in Sharers THEN "read" ELSE "retract")
  /\ UNCHANGED <<row, spans, claims, born, rowlock, job, seen, kept, calls, crashes>>

(* DocumentStore.refresh on the row loaded by Find: the update of the       *)
(* changed columns goes out ahead of the retraction.  Promoter.refresh      *)
(* starts with the retraction.                                              *)
Retract(t) ==
  /\ At(t, "retract")
  /\ LET d == tx[t].doc
         writes == t \notin Sharers /\ Wanted(t) # tx[t].snap
     IN /\ writes => Free(t, d)
        /\ rowlock' = IF writes THEN [rowlock EXCEPT ![d] = t] ELSE rowlock
        /\ tx' = [tx EXCEPT ![t].pc = "delete", ![t].closing = ClaimsOf(d)]
  /\ UNCHANGED <<row, spans, claims, born, revision, job, seen, kept, calls, crashes>>

(* The DELETE of the document's chunks: what is there when it starts ...    *)
Delete(t) ==
  /\ At(t, "delete")
  /\ tx' = [tx EXCEPT ![t].pc = "drop", ![t].dropping = Ids(SpansOf(tx[t].doc))]
  /\ UNCHANGED <<row, spans, claims, born, revision, rowlock, job, seen, kept, calls, crashes>>

(* ... and, when another DELETE holds one of them, not before that commits. *)
Drop(t) ==
  /\ At(t, "drop")
  /\ tx[t].dropping \cap Locked = {}
  /\ Step(t, IF t \in Sharers THEN "publish" ELSE "flush")
  /\ UNCHANGED <<row, spans, claims, born, revision, rowlock, job, seen, kept, calls, crashes>>

(* The new chunks and the commit.                                           *)
Commit(t) ==
  /\ At(t, "flush")
  /\ LET d == tx[t].doc
     IN /\ row' = [row EXCEPT ![d] = Overlay(row[d], tx[t].snap, Wanted(t))]
        /\ born' = born + 1
        /\ spans' = {s \in spans : s.id \notin tx[t].dropping}
                    \cup {[doc |-> d, id |-> born', text |-> tx[t].text,
                           meta |-> tx[t].meta, done |-> FALSE]}
  /\ kept' = kept \cup {tx[t].text}
  /\ claims' = Unsource(claims \ tx[t].closing, tx[t].dropping)
  /\ tx' = [tx EXCEPT ![t] = [NoTx EXCEPT !.pc = "enqueue", !.doc = tx[t].doc]]
  /\ Release(t)
  /\ UNCHANGED <<job, seen, calls, crashes>>

(* enqueue_document: a job per pending chunk, keyed by the chunk, so one    *)
(* still queued or running stands for it.                                   *)
Enqueue(t) ==
  /\ At(t, "enqueue")
  /\ job' = Queued(Ids({s \in SpansOf(tx[t].doc) : ~s.done}))
  /\ tx' = [tx EXCEPT ![t] = NoTx]
  /\ UNCHANGED <<row, spans, claims, born, revision, rowlock, seen, kept, calls, crashes>>

(* ArtifactReindexer.reindex: re-chunk the stored Markdown of one converted *)
(* revision, whatever the document holds.  Every converted revision of the  *)
(* original is offered in its turn, the superseded ones too.                *)
Rechunk(t) ==
  /\ t \in Rechunkers /\ At(t, "idle") /\ calls < MaxCalls
  /\ \E text \in kept :
       tx' = [tx EXCEPT ![t] = [NoTx EXCEPT !.pc = "store", !.text = text,
                                             !.meta = row["original"].meta]]
  /\ calls' = calls + 1
  /\ UNCHANGED <<row, spans, claims, born, revision, rowlock, job, seen, kept, crashes>>

----------------------------------------------------------------------------
(* Sharing.                                                                 *)

Share(t) ==
  /\ t \in Sharers /\ At(t, "idle") /\ calls < MaxCalls
  /\ Exists("original")
  /\ \E move \in Moves :
       tx' = [tx EXCEPT ![t] = [NoTx EXCEPT !.pc = "lock", !.doc = "copy", !.move = move]]
  /\ calls' = calls + 1
  /\ UNCHANGED <<row, spans, claims, born, revision, rowlock, job, seen, kept, crashes>>

(* Promoter.stands_for                                                      *)
StandsFor(copy, source) ==
  copy.text = source.text /\ (~copy.retired \/ source.retired)

(* Promoter.inherited_expiry                                                *)
InheritedExpiry(copy, source) ==
  IF ~source.retired \/ copy.retired THEN source.retired ELSE copy.retired

(* Promoter.carry under the source's lock: the source with its chunks, the  *)
(* standing copy, the live facts, and which of the three outcomes it is.    *)
Read(t) ==
  /\ At(t, "read")
  /\ tx' = [tx EXCEPT ![t].source = row["original"],
                      ![t].spans = SpansOf("original"),
                      ![t].facts = ClaimsOf("original"),
                      ![t].snap = row["copy"],
                      ![t].pc = CASE ~Exists("copy") -> "publish"
                                  [] Exists("copy") /\ StandsFor(row["copy"], row["original"])
                                     -> "current"
                                  [] OTHER -> "retract"]
  /\ UNCHANGED <<row, spans, claims, born, revision, rowlock, job, seen, kept, calls, crashes>>

(* retire: close the original's claims and expire it, when this is a move.  *)
(* What the transaction closed on the copy is closed with it.               *)
Retired(t, C) ==
  IF tx[t].move THEN C \ ClaimsOf("original") ELSE C
RetiredRow(t, r) ==
  IF tx[t].move THEN [r EXCEPT !.retired = TRUE] ELSE r

(* The copy is current: nothing to carry, the move's second half remains.   *)
Current(t) ==
  /\ At(t, "current") /\ Free(t, "original")
  /\ row' = [row EXCEPT !["original"] = RetiredRow(t, @)]
  /\ claims' = Retired(t, claims)
  /\ tx' = [tx EXCEPT ![t] = NoTx]
  /\ Release(t)
  /\ UNCHANGED <<spans, born, job, seen, kept, calls, crashes>>

(* Promoter.create or the rest of Promoter.refresh, ground (the source's    *)
(* chunks as they were read, its facts claimed again for the destination),  *)
(* and transfer's retirement, in one commit.  A second copy of one source   *)
(* in one scope set is refused by its unique index.                         *)
Publish(t) ==
  /\ At(t, "publish") /\ Free(t, "original") /\ Free(t, "copy")
  /\ LET source == tx[t].source
         fresh == tx[t].snap.text = 0
         carried == [source EXCEPT !.retired =
                       IF fresh THEN source.retired ELSE InheritedExpiry(tx[t].snap, source)]
         grounded == {[s EXCEPT !.doc = "copy", !.id = born'] : s \in tx[t].spans}
         facts == {[f EXCEPT !.doc = "copy", !.span = born'] : f \in tx[t].facts}
     IN /\ fresh => ~Exists("copy")
        /\ born' = born + 1
        /\ row' = [row EXCEPT !["original"] = RetiredRow(t, @),
                              !["copy"] = IF fresh THEN carried
                                          ELSE Overlay(@, tx[t].snap, carried)]
        /\ spans' = {s \in spans : s.id \notin tx[t].dropping} \cup grounded
        /\ claims' = Claimed(Unsource(Retired(t, claims) \ tx[t].closing, tx[t].dropping),
                             facts)
  /\ tx' = [tx EXCEPT ![t] = NoTx]
  /\ Release(t)
  /\ UNCHANGED <<job, seen, kept, calls, crashes>>

(* The copy stops holding on its own (its capture expires, or it is moved   *)
(* on), at a moment no share is deciding by it.                             *)
Lapse ==
  /\ Exists("copy") /\ ~row["copy"].retired
  /\ rowlock["copy"] = None
  /\ \A t \in Sharers : At(t, "idle")
  /\ calls < MaxCalls
  /\ calls' = calls + 1
  /\ row' = [row EXCEPT !["copy"].retired = TRUE]
  /\ UNCHANGED <<spans, claims, born, tx, revision, rowlock, job, seen, kept, crashes>>

(* A transaction that ends without a commit: a lost connection, a deadlock  *)
(* the database breaks, a cancelled request.                                *)
Abort(t) ==
  /\ ~At(t, "idle")
  /\ tx' = [tx EXCEPT ![t] = NoTx]
  /\ Release(t)
  /\ UNCHANGED <<row, spans, claims, born, job, seen, kept, calls, crashes>>

----------------------------------------------------------------------------
(* Projection.                                                              *)

SpanAt(i) == CHOOSE s \in spans : s.id = i
Pending(i) == \E s \in spans : s.id = i /\ ~s.done

(* ChunkProjectionJob.handle up to the model calls: skip a chunk that is    *)
(* gone or projected, keep what was read of the others.                     *)
StartProjection(i) ==
  /\ job[i] = "queued"
  /\ job' = [job EXCEPT ![i] = IF Pending(i) THEN "running" ELSE "idle"]
  /\ seen' = IF Pending(i) THEN [seen EXCEPT ![i] = SpanAt(i).meta] ELSE seen
  /\ UNCHANGED <<row, spans, claims, born, tx, revision, rowlock, kept, calls, crashes>>

(* A bug: processed_at is not written with the claim.                       *)
FinishUnmarked(i) ==
  /\ job[i] = "running"
  /\ i \notin Locked
  /\ job' = [job EXCEPT ![i] = "idle"]
  /\ claims' = IF i \in Ids(spans)
               THEN Claimed(claims, {[doc |-> SpanAt(i).doc, span |-> i,
                                      text |-> SpanAt(i).text, meta |-> seen[i]]})
               ELSE claims
  /\ UNCHANGED <<row, spans, born, tx, revision, rowlock, seen, kept, calls, crashes>>

(* The write transaction: the claim and processed_at together.  A chunk     *)
(* deleted meanwhile fails the foreign key and the job with it; a chunk an  *)
(* open transaction deletes makes the insert wait.                          *)
FinishProjection(i) ==
  /\ job[i] = "running"
  /\ i \notin Locked
  /\ job' = [job EXCEPT ![i] = "idle"]
  /\ IF i \in Ids(spans)
     THEN /\ claims' = Claimed(claims, {[doc |-> SpanAt(i).doc, span |-> i,
                                         text |-> SpanAt(i).text, meta |-> seen[i]]})
          /\ spans' = {IF s.id = i THEN [s EXCEPT !.done = TRUE] ELSE s : s \in spans}
     ELSE UNCHANGED <<claims, spans>>
  /\ UNCHANGED <<row, born, tx, revision, rowlock, seen, kept, calls, crashes>>

(* A worker dies with the job; its lease runs out and the row is claimed    *)
(* again (module PortableQueue).                                            *)
Redeliver(i) ==
  /\ job[i] = "running" /\ crashes < MaxCrashes
  /\ job' = [job EXCEPT ![i] = "queued"]
  /\ crashes' = crashes + 1
  /\ UNCHANGED <<row, spans, claims, born, tx, revision, rowlock, seen, kept, calls>>

(* The recovery pass offers every pending chunk (enqueue_pending).          *)
Sweep(i) ==
  /\ Pending(i) /\ job[i] = "idle"
  /\ job' = Queued({i})
  /\ UNCHANGED <<row, spans, claims, born, tx, revision, rowlock, seen, kept, calls, crashes>>

----------------------------------------------------------------------------
WriterStep(t) ==
  \/ Plan(t) \/ Revalidate(t) \/ RevalidateCommit(t)
  \/ Find(t) \/ Insert(t) \/ Lock(t) \/ Retract(t) \/ Delete(t) \/ Drop(t)
  \/ Commit(t) \/ Enqueue(t) \/ Rechunk(t)
  \/ Share(t) \/ Read(t) \/ Current(t) \/ Publish(t) \/ Abort(t)

Next ==
  \/ \E t \in Writers : WriterStep(t)
  \/ \E i \in SpanIds : StartProjection(i) \/ FinishProjection(i) \/ Redeliver(i) \/ Sweep(i)
  \/ Lapse

Spec == Init /\ [][Next]_vars

----------------------------------------------------------------------------

(* A document's hash and its spans say the same thing: ingestion skips a    *)
(* source whose hash matches, so a document whose spans are of another text *)
(* would never be corrected, and one with two generations of spans answers  *)
(* with both.                                                               *)
SpansMatchText ==
  \A d \in Docs :
    Exists(d) => /\ Cardinality(SpansOf(d)) = 1
                 /\ \A s \in SpansOf(d) : s.text = row[d].text

(* What a share leaves in the destination is what the source holds at that  *)
(* moment, whatever ingestion did around the copying.                       *)
CarriesTheSource ==
  \A t \in Sharers : Publish(t) => row'["copy"].text = row["original"].text

(* A move retires its original only when the destination stands for it:     *)
(* there, active, and with the same text.  It is the retiring step that is  *)
(* judged: a writer that found the row before the move writes its columns   *)
(* after it and leaves expires_at retired (ingest.py:182, NewerNotRetired). *)
MoveLands ==
  (~row["original"].retired /\ row'["original"].retired)
   => /\ row'["copy"].text = row'["original"].text
      /\ ~row'["copy"].retired

(* ingest.py:185: the lock is there "so a move cannot copy this document's  *)
(* previous revision and retire the source underneath the newer one         *)
(* committed here": a newer text is committed into a document that stands.  *)
NewerNotRetired ==
  row'["original"].text # row["original"].text => ~row'["original"].retired
============================================================================
