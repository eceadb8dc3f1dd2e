---------------------------- MODULE SessionTier ----------------------------
(***************************************************************************)
(* Working memory and its promotion (graph/session_tier.py).  Items enter  *)
(* in the order of their numbers.  A promotion reads the due items in one  *)
(* transaction, plans their ingestion in a second (which documents stand), *)
(* stores in a third, stamps the items in a fourth and enqueues the chunks *)
(* without projection; a crash ends it anywhere, and the schedule starts   *)
(* another.  Find serves the items that are not stamped and the documents. *)
(***************************************************************************)
EXTENDS Naturals, Sequences, SequencesExt, FiniteSets

CONSTANTS Count,      \* items are 1..Count, by created_at
          Workers,
          Subject,    \* Subject[i]: the identity of the document its text makes
          Text,       \* Text[i]: what it says, by content hash
          Threshold,  \* session_promote_threshold
          MaxCrashes
Items == 1..Count
none == 0

SessionAssumption ==
    /\ Count \in Nat /\ Threshold \in Nat /\ MaxCrashes \in Nat
    /\ DOMAIN Subject = Items /\ DOMAIN Text = Items

Subjects == {Subject[i] : i \in Items}

VARIABLES item,     \* item[i]: unborn, working or promoted
          aged,     \* items older than session_promote_age_minutes
          doc,      \* doc[s]: the item whose text the document of s holds
          pending,  \* subjects whose chunks have no projection
          jobs,     \* subjects whose chunks have a projection job
          phase, due, standing,  \* of each worker: its step, its items, its plan
          crashes,
          said      \* history: said[s]: the texts the document of s has had
vars == <<item, aged, doc, pending, jobs, phase, due, standing, crashes, said>>
tier == <<item, aged>>
graph == <<doc, pending, jobs, said>>
work == <<phase, due, standing>>

Init ==
    /\ item = [i \in Items |-> "unborn"]
    /\ aged = {}
    /\ doc = [s \in Subjects |-> none]
    /\ pending = {} /\ jobs = {}
    /\ phase = [w \in Workers |-> "idle"]
    /\ due = [w \in Workers |-> <<>>]
    /\ standing = [w \in Workers |-> doc]
    /\ crashes = 0
    /\ said = [s \in Subjects |-> {}]

Go(w, p) == phase' = [phase EXCEPT ![w] = p]
-----------------------------------------------------------------------------
\* keep_session.
Keep(i) ==
    /\ item[i] = "unborn"
    /\ \A j \in 1..(i - 1) : item[j] # "unborn"
    /\ item' = [item EXCEPT ![i] = "working"]
    /\ UNCHANGED <<aged, graph, work, crashes>>

Age(i) ==
    /\ item[i] # "unborn" /\ i \notin aged
    /\ \A j \in 1..(i - 1) : j \in aged
    /\ aged' = aged \cup {i}
    /\ UNCHANGED <<item, graph, work, crashes>>

\* The aged items, and the oldest ones past the threshold.
Working == {i \in Items : item[i] = "working"}
Position(i) == Cardinality({j \in Working : j <= i})
Overflow(i) == Position(i) + Threshold <= Cardinality(Working)
Due == SetToSortSeq({i \in Working : i \in aged \/ Overflow(i)}, <)

\* A mutant: the stamp comes before the ingestion commits.
ReadAndMark(w) ==
    /\ phase[w] = "idle"
    /\ Due # <<>>
    /\ due' = [due EXCEPT ![w] = Due]
    /\ item' = [i \in Items |-> IF i \in ToSet(Due) THEN "promoted" ELSE item[i]]
    /\ Go(w, "planning")
    /\ UNCHANGED <<aged, graph, standing, crashes>>

ReadDue(w) ==
    /\ phase[w] = "idle"
    /\ Due # <<>>
    /\ due' = [due EXCEPT ![w] = Due]
    /\ Go(w, "planning")
    /\ UNCHANGED <<tier, graph, standing, crashes>>

\* TextIngestor._plans, then the embedding of what changed.
Plan(w) ==
    /\ phase[w] = "planning"
    /\ standing' = [standing EXCEPT ![w] = doc]
    /\ Go(w, "storing")
    /\ UNCHANGED <<tier, graph, due, crashes>>

Says(d, i) == d # none /\ Text[d] = Text[i]

\* A source that matches the document its plan saw is left out; the others find
\* the document as the batch has left it, and refresh it unless it says the same.
StoreOne(plan, d, i) == IF Says(plan[Subject[i]], i) \/ Says(d[Subject[i]], i)
                        THEN d ELSE [d EXCEPT ![Subject[i]] = i]
Stored(w) == FoldLeft(LAMBDA d, i : StoreOne(standing[w], d, i), doc, due[w])

Store(w) ==
    /\ phase[w] = "storing"
    /\ doc' = Stored(w)
    /\ pending' = pending \cup {s \in Subjects : doc'[s] # doc[s]}
    /\ said' = [s \in Subjects |-> said[s] \cup {Text[i] : i \in {doc'[s]} \ {none}}]
    /\ Go(w, "marking")
    /\ UNCHANGED <<tier, jobs, due, standing, crashes>>

Mark(w) ==
    /\ phase[w] = "marking"
    /\ item' = [i \in Items |-> IF i \in ToSet(due[w]) THEN "promoted" ELSE item[i]]
    /\ Go(w, "enqueuing")
    /\ UNCHANGED <<aged, graph, due, standing, crashes>>

\* enqueue_pending covers every pending chunk of the scope.
Enqueue(w) ==
    /\ phase[w] = "enqueuing"
    /\ jobs' = jobs \cup pending
    /\ Go(w, "idle")
    /\ UNCHANGED <<tier, doc, pending, said, due, standing, crashes>>

Crash(w) ==
    /\ phase[w] # "idle" /\ crashes < MaxCrashes
    /\ crashes' = crashes + 1
    /\ Go(w, "idle")
    /\ UNCHANGED <<tier, graph, due, standing>>

\* ChunkDispatchJob sweeps up what a crash left unqueued; the job projects.
Dispatch == jobs' = jobs \cup pending
            /\ UNCHANGED <<tier, doc, pending, said, work, crashes>>

Project(s) ==
    /\ s \in jobs
    /\ jobs' = jobs \ {s}
    /\ pending' = pending \ {s}
    /\ UNCHANGED <<tier, doc, said, work, crashes>>

Promote(w) == ReadDue(w) \/ Plan(w) \/ Store(w) \/ Mark(w) \/ Enqueue(w)
Next == \/ \E i \in Items : Keep(i) \/ Age(i)
        \/ \E w \in Workers : Promote(w) \/ Crash(w)
        \/ Dispatch
        \/ \E s \in Subjects : Project(s)

Spec == Init /\ [][Next]_vars
-----------------------------------------------------------------------------
TypeOK ==
    /\ item \in [Items -> {"unborn", "working", "promoted"}]
    /\ aged \subseteq Items
    /\ doc \in [Subjects -> Items \cup {none}]
    /\ pending \subseteq {s \in Subjects : doc[s] # none}
    /\ jobs \subseteq pending
    /\ phase \in [Workers -> {"idle", "planning", "storing", "marking", "enqueuing"}]
    /\ due \in [Workers -> Seq(Items)]
    /\ crashes \in 0..MaxCrashes

\* Whatever find's working lane gave up, a document of the item's own identity
\* took over, and its text is one that was kept there.
FoundSomewhere ==
    \A i \in Items : item[i] = "promoted" =>
        /\ doc[Subject[i]] # none
        /\ Subject[doc[Subject[i]]] = Subject[i]

\* An item nobody was due to promote keeps its place in working memory.
OnlyDuePromoted ==
    \A i \in Items : item[i] = "promoted" =>
        i \in aged \/ Cardinality({j \in Items : j > i /\ item[j] # "unborn"}) >= Threshold

\* "Ingest sources in order" (TextIngestor.ingest_many): before the last item of
\* a subject is stamped, the document has said what it says, whichever worker
\* stored it.  It need not stay so: a batch skips what matches the document its
\* plan saw, so one that runs again after a crash can write the older item over
\* the newer one (ingest.py:373).
NewestStood ==
    \A i \in Items :
        item[i] = "promoted" /\ (\A j \in Items : Subject[j] = Subject[i] => j <= i)
        => Text[i] \in said[Subject[i]]

\* A kept item of the session that is not in the graph and projected yet.
IsKept(i) == item[i] = "working" \/ (item[i] = "promoted" /\ Subject[i] \in pending)
=============================================================================
