---------------------------- MODULE SourceFusion ----------------------------
(***************************************************************************)
(* The source lane of the find statement: chunk rankings cut in a window   *)
(* before their documents are joined, fused by reciprocal rank, capped by  *)
(* document and by k (chunk.py); and the selection of documents to share,  *)
(* which reads the whole merit ordering of the sources and of the facts    *)
(* (orchestrator.documents), repeated after a share has left copies.       *)
(*                                                                         *)
(* Distances, text scores and merit are data: an ordering of the texts.  A *)
(* copy has the text, the title and the statements of its original and     *)
(* stands beside it in every ordering, before or after.  Equal scores      *)
(* resolve to the smaller chunk, on every run of the statement alike.      *)
(***************************************************************************)
EXTENDS Integers, FiniteSets, Sequences, SequencesExt, FiniteSetsExt

CONSTANTS
    Docs, ChunksPerDoc,      \* private documents, and the chunks of each
    DenseOrders, LexicalOrders,   \* orderings of some of the texts <<document, ord>>
    FactOrders,              \* orderings of the documents with a fact
    Merits,                  \* orderings of the lines: texts, and <<document, 0>> for facts
    Depth, Overfetch, K, PerDoc, FactLimit, Limit,
    RrfK, Scale, PromotedBonus, NamedBonus

SourceFusionAssumption ==
    /\ {Depth, Overfetch, K, PerDoc, FactLimit, Limit} \subseteq Nat \ {0}
    /\ NamedBonus > PromotedBonus + 3 * (Scale \div (RrfK + 1))

\* What a find of these documents runs over, and how far a selection has come.
VARIABLES owned, expired, named, shared, copiesFirst,   \* the caller and the corpus
          dense, lexical, facts, merit,                 \* the question
          pc, ranked, hits, picked, round, before       \* the statement and the selection

corpus == <<owned, expired, named, copiesFirst>>
question == <<dense, lexical, facts, merit>>
vars == <<corpus, shared, question, pc, ranked, hits, picked, round, before>>

Texts == Docs \X (1..ChunksPerDoc)
Chunk(t, copy) == <<t[1], t[2], copy>>
Document(c) == <<c[1], c[3]>>
IsCopy(c) == c[3] = 1

Live == {Chunk(t, 0) : t \in Texts} \cup {Chunk(t, 1) : t \in shared \X (1..ChunksPerDoc)}
IsActive(c) == c[1] \notin expired
Named(c) == c[1] \in named

InOrder(c, d) == c[1] < d[1] \/ (c[1] = d[1] /\ (c[2] < d[2] \/ (c[2] = d[2] /\ c[3] < d[3])))

Init ==
    /\ owned \in BOOLEAN /\ expired \in SUBSET Docs /\ named \in SUBSET Docs
    /\ shared \in (IF owned THEN {{}} ELSE SUBSET Docs) /\ copiesFirst \in BOOLEAN
    /\ dense \in DenseOrders /\ lexical \in LexicalOrders
    /\ facts \in FactOrders /\ merit \in Merits
    /\ pc = "rank" /\ ranked = <<>> /\ hits = <<>> /\ picked = <<>>
    /\ round = 1 /\ before = <<>>

-----------------------------------------------------------------------------
Cut(s, n) == SubSeq(s, 1, Min({n, Len(s)}))

\* ORDER BY a total order: the n-th has n - 1 before it.
Ordered(S, earlier(_, _)) ==
    [n \in 1..Cardinality(S) |->
        CHOOSE c \in S : Cardinality({d \in S : earlier(d, c)}) = n - 1]

\* An ordering of texts as the caller's chunks: row security hides nothing of
\* a caller's own documents and of the organization's copies.
Rows(order) ==
    LET beside(t) == IF t[1] \notin shared THEN <<Chunk(t, 0)>>
                     ELSE IF copiesFirst THEN <<Chunk(t, 1), Chunk(t, 0)>>
                     ELSE <<Chunk(t, 0), Chunk(t, 1)>>
    IN FlattenSeq([n \in 1..Len(order) |-> beside(order[n])])

Sources(c) == IsActive(c) /\ (owned => ~ IsCopy(c))

Ranking(order) ==
    IF owned THEN Cut(SelectSeq(Rows(order), Sources), Depth)
    ELSE Cut(SelectSeq(Cut(Rows(order), Depth * Overfetch), Sources), Depth)

\* Chunks of the documents the question names, in order of the title.
Titled ==
    Cut(Ordered({c \in Live : Named(c) /\ Sources(c)}, InOrder), Depth)

Rank ==
    /\ pc = "rank" /\ pc' = "cap"
    /\ ranked' = <<Ranking(dense), Ranking(lexical), Titled>>
    /\ UNCHANGED <<corpus, shared, question, hits, picked, round, before>>

Fused(c) ==
    MapThenSumSet(LAMBDA l : MapThenSumSet(LAMBDA n : IF ranked[l][n] = c
                                                      THEN Scale \div (RrfK + n) ELSE 0,
                                           1..Len(ranked[l])), 1..3)

Score(c) == Fused(c) + (IF IsCopy(c) THEN PromotedBonus ELSE 0)
                     + (IF Named(c) THEN NamedBonus ELSE 0)

Better(c, d) == Score(c) > Score(d) \/ (Score(c) = Score(d) /\ InOrder(c, d))

HybridHits ==   \* Chunk.hybrid
    LET fused == UNION {ToSet(ranked[l]) : l \in 1..3}
        DocumentRank(c) == Cardinality({d \in fused : Document(d) = Document(c) /\ Better(d, c)}) + 1
    IN Cut(Ordered({c \in fused : DocumentRank(c) <= PerDoc}, Better), K)

Cap ==
    /\ pc = "cap" /\ hits' = HybridHits
    /\ pc' = IF owned THEN "select" ELSE "found"
    /\ UNCHANGED <<corpus, shared, question, ranked, picked, round, before>>

-----------------------------------------------------------------------------
\* The fact lane: the claim of each statement that stands first, cut, then
\* narrowed to the caller's own scope like every candidate.
FactDocuments ==
    LET lane == Cut(facts, FactLimit)
    IN {lane[n] : n \in 1..Len(lane)} \ (IF copiesFirst THEN shared ELSE {})

\* orchestrator.documents: named sources first, then merit, once per document.
Selection ==
    LET lines == {<<c[1], c[2]>> : c \in ToSet(hits)} \cup {<<d, 0>> : d \in FactDocuments}
        direct(l) == l[2] > 0 /\ l[1] \in named
        ordered == SelectSeq(merit, LAMBDA l : l \in lines /\ direct(l))
                   \o SelectSeq(merit, LAMBDA l : l \in lines /\ ~ direct(l))
        first(n) == ~ \E m \in 1..(n - 1) : ordered[m][1] = ordered[n][1]
        firsts == Ordered({n \in 1..Len(ordered) : first(n)}, LAMBDA m, n : m < n)
    IN Cut([n \in 1..Len(firsts) |-> ordered[firsts[n]][1]], Limit)

Preview ==   \* Memory.share with a query selects and stops
    /\ pc = "select" /\ picked' = Selection
    /\ pc' = IF round = 1 THEN "share" ELSE "found"
    /\ UNCHANGED <<corpus, shared, question, ranked, hits, round, before>>

Share ==   \* Memory.share with the previewed documents, then the preview again
    /\ pc = "share" /\ pc' = "rank" /\ round' = 2
    /\ shared' = shared \cup ToSet(picked)
    /\ before' = [hits |-> hits, picked |-> picked]
    /\ UNCHANGED <<corpus, question, ranked, hits, picked>>

Next == Rank \/ Cap \/ Preview \/ Share

Spec == Init /\ [][Next]_vars

-----------------------------------------------------------------------------
TypeOK ==
    /\ pc \in {"rank", "cap", "select", "share", "found"} /\ round \in {1, 2}
    /\ shared \subseteq Docs
    /\ \A l \in 1..Len(ranked) : Len(ranked[l]) <= Depth /\ ToSet(ranked[l]) \subseteq Live
    /\ Len(hits) <= K /\ Len(picked) <= Limit

\* The chunks of expired sources are paid for out of the window's slack: a
\* chunk of a live source is lost to them only once they outnumber the slack,
\* and an owned query never loses one (Chunk.ranking).
PaidOutOfSlack ==
    pc = "cap" =>
        \A l \in {1, 2} :
            LET rows == Rows(<<dense, lexical>>[l])
                spent == {n \in 1..Min({Depth * Overfetch, Len(rows)}) : ~ Sources(rows[n])}
            IN Cardinality(spent) <= Depth * (Overfetch - 1) \/ owned
                 => ranked[l] = Cut(SelectSeq(rows, Sources), Depth)

\* A source the question names leads the lane whatever the other rankings and
\* the promoted bonus say of the rest (Chunk.hybrid).
NamedSourceLeads ==
    hits # <<>> /\ (\E d \in named : d \notin expired) => Named(hits[1])

\* A document with many matching chunks cannot fill the lane: it takes PerDoc
\* places, and gives up its others to the next document (Chunk.hybrid).
NoDocumentFloods ==
    pc \in {"select", "found"} =>
        /\ \A c \in ToSet(hits) :
             Cardinality({d \in ToSet(hits) : Document(d) = Document(c)}) <= PerDoc
        /\ \A c \in UNION {ToSet(ranked[l]) : l \in 1..3} :
             Len(hits) < K => \E d \in ToSet(hits) : Document(d) = Document(c)

\* What the sources say a repeated share should carry is what they said the
\* first time, whatever copies it left in between (Chunk.fused).
CopiesDoNotCrowd ==
    round = 2 /\ pc = "select" => hits = before.hits
=============================================================================
