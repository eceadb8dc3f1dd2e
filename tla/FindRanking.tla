----------------------------- MODULE FindRanking -----------------------------
(***************************************************************************)
(* What find does with the rows of its statement (retrieval/): order them  *)
(* by merit under a cross-encoder, drop excerpts that better evidence      *)
(* already speaks for, walk the token budget, and record what was shown.   *)
(*                                                                         *)
(* The statement, the reranking and the access record are separate awaits: *)
(* a fact may be retired between any two of them.  Scores are whatever the *)
(* reranker answers.  A token stands for find_chars_per_token characters.  *)
(***************************************************************************)
EXTENDS Integers, FiniteSets, Sequences, SequencesExt, FiniteSetsExt, TLC

CONSTANTS
    Rows,       \* the evidence rows a statement may return
    MaxRows,    \* bound: rows of one statement
    Depth,      \* rerank_depth
    Budgets,    \* token budgets
    Merits,     \* scores of the reranker
    Inside,     \* <<t, u>>: title t is strictly contained in title u
    MaxFinds    \* bound: finds and traces run

\* lane order of Plan.maximal
Priority == [facts |-> 1, sources |-> 2, overview |-> 3]

Fits(a, b) ==   \* two rows one statement may hold, a before b
    /\ Priority[a.lane] <= Priority[b.lane]
    /\ a.lane = b.lane /\ a.lane # "overview" => a.id # b.id

Statements ==
    {s \in BoundedSeq(Rows, MaxRows) :
        \A i, j \in 1..Len(s) : i < j => Fits(s[i], s[j])}

VARIABLES
    pc, records,       \* the step of this request, and whether it is a find
    rows,              \* what the statement returned
    budget,
    scores, ranked,    \* merit order: a permutation of the rows' positions
    kept,              \* what was packed
    live, accessed     \* claims not retired, and their access_count

vars == <<pc, records, rows, budget, scores, ranked, kept, live, accessed>>

Facts == {r.id : r \in {q \in Rows : q.lane = "facts"}}

Init ==
    /\ pc = "idle" /\ records = FALSE /\ rows = <<>> /\ budget = 0
    /\ scores = <<>> /\ ranked = <<>> /\ kept = <<>>
    /\ live = Facts /\ accessed = [f \in Facts |-> 0]

-----------------------------------------------------------------------------
(* rerank/rescore.py *)

\* dict(zip(ids, scores)): the last score of an evidence id stands for it, and
\* a row beyond the depth has the score of a scored row that shares its id.
ScoredBy(i) == {j \in 1..Min({Depth, Len(rows)}) : rows[j].id = rows[i].id}

Scored == {i \in 1..Len(rows) : ScoredBy(i) # {}}

Score(i, s) == s[Max(ScoredBy(i))]

NamedTitles == {r.title : r \in {q \in ToSet(rows) : q.direct}}

Shadowed == {t \in NamedTitles : \E u \in NamedTitles : <<t, u>> \in Inside}

Named(i) == rows[i].direct /\ rows[i].title \notin Shadowed

Before(s, i, j) ==
    LET a == <<IF Named(i) THEN 0 ELSE 1, 0 - Score(i, s), rows[i].id, i>>
        b == <<IF Named(j) THEN 0 ELSE 1, 0 - Score(j, s), rows[j].id, j>>
        first == {n \in 1..4 : a[n] # b[n]}
    IN first # {} /\ a[Min(first)] < b[Min(first)]

Reordered(s) ==
    SetToSortSeq(Scored, LAMBDA i, j : Before(s, i, j))
    \o SetToSortSeq((1..Len(rows)) \ Scored, <)

-----------------------------------------------------------------------------
(* packing/budget.py *)

Deduplicate(order) ==
    FoldLeft(LAMBDA acc, i :
        IF rows[i].lane = "sources" /\ rows[i].chunk \in acc.represented THEN acc
        ELSE [kept |-> Append(acc.kept, i),
              represented |-> acc.represented
                  \cup IF rows[i].chunk # 0 /\ rows[i].stance = "settled" THEN {rows[i].chunk}
                       ELSE {}],
        [kept |-> <<>>, represented |-> {}], order).kept

Whole(i) == [row |-> i, cost |-> rows[i].text + rows[i].notes + 1, trimmed |-> FALSE]

\* The excerpt is cut to what the handles and the marker leave of the budget.
Trimmed(i) ==
    [row |-> i, trimmed |-> TRUE,
     cost |-> Max({1, budget - 1 - rows[i].notes}) + rows[i].notes + 1]

PackCheapest(order) ==   \* (faulty) fills the budget with the cheapest rows
    LET cheap == SetToSortSeq(ToSet(order), LAMBDA i, j :
                     (Whole(i).cost < Whole(j).cost \/ (Whole(i).cost = Whole(j).cost /\ i < j)))
        walked == FoldLeft(LAMBDA acc, i :
                      IF Whole(i).cost <= acc.room
                      THEN [kept |-> Append(acc.kept, Whole(i)), room |-> acc.room - Whole(i).cost]
                      ELSE acc,
                      [kept |-> <<>>, room |-> budget], cheap).kept
    IN IF walked # <<>> \/ order = <<>> THEN walked ELSE <<Trimmed(order[1])>>

Pack(order) ==
    LET walked == FoldLeft(LAMBDA acc, i :
                      IF Whole(i).cost <= acc.room
                      THEN [kept |-> Append(acc.kept, Whole(i)), room |-> acc.room - Whole(i).cost]
                      ELSE acc,
                      [kept |-> <<>>, room |-> budget], order).kept
    IN IF walked # <<>> \/ order = <<>> THEN walked ELSE <<Trimmed(order[1])>>

-----------------------------------------------------------------------------
(* find/orchestrator.py *)

Execute ==
    /\ pc = "idle" /\ FoldFunction(+, 0, accessed) < MaxFinds
    /\ \E s \in Statements, b \in Budgets, r \in BOOLEAN :
         /\ \A i \in 1..Len(s) : s[i].lane = "facts" => s[i].id \in live
         /\ rows' = s /\ budget' = b /\ records' = r
    /\ pc' = "rerank" /\ scores' = <<>> /\ ranked' = <<>> /\ kept' = <<>>
    /\ UNCHANGED <<live, accessed>>

Rerank ==
    /\ pc = "rerank" /\ pc' = "pack"
    /\ scores' \in [1..Min({Depth, Len(rows)}) -> Merits]
    /\ ranked' = Reordered(scores')
    /\ UNCHANGED <<records, rows, budget, kept, live, accessed>>

PackFound ==
    /\ pc = "pack" /\ kept' = Pack(Deduplicate(ranked))
    /\ pc' = IF records THEN "record" ELSE "done"
    /\ UNCHANGED <<records, rows, budget, scores, ranked, live, accessed>>

Shown == {rows[kept[n].row].id : n \in {m \in 1..Len(kept) : rows[kept[m].row].lane = "facts"}}

RecordAccess ==
    /\ pc = "record" /\ pc' = "done"
    /\ accessed' = [f \in Facts |-> accessed[f] + IF f \in Shown \cap live THEN 1 ELSE 0]
    /\ UNCHANGED <<records, rows, budget, scores, ranked, kept, live>>

Answered ==
    /\ pc = "done" /\ pc' = "idle"
    /\ rows' = <<>> /\ budget' = 0 /\ records' = FALSE /\ scores' = <<>> /\ ranked' = <<>>
    /\ kept' = <<>> /\ UNCHANGED <<live, accessed>>

Retired ==   \* a claim superseded, retracted or forgotten by someone else
    /\ pc \in {"rerank", "record"}
    /\ \E f \in live \cap {r.id : r \in ToSet(rows)} : live' = live \ {f}
    /\ UNCHANGED <<pc, records, rows, budget, scores, ranked, kept, accessed>>

Next == Execute \/ Rerank \/ PackFound \/ RecordAccess \/ Answered \/ Retired

Spec == Init /\ [][Next]_vars

-----------------------------------------------------------------------------

Selected ==
    LET recognised == {kept[n].row : n \in {m \in 1..Len(kept) : ~ kept[m].trimmed}}
    IN recognised \cup IF Cardinality(recognised) < Len(kept) /\ ranked # <<>>
                       THEN {ranked[1]} ELSE {}

KeptRows == {kept[n].row : n \in 1..Len(kept)}

Spent == FoldLeft(LAMBDA acc, k : acc + k.cost, 0, kept)

Position(i) == CHOOSE n \in 1..Len(ranked) : ranked[n] = i

Packed == pc \in {"record", "done"}

TypeOK ==
    /\ pc \in {"idle", "rerank", "pack", "record", "done"}
    /\ rows \in Statements /\ live \subseteq Facts /\ accessed \in [Facts -> Nat]
    /\ ToSet(ranked) \subseteq 1..Len(rows) /\ KeptRows \subseteq 1..Len(rows)

\* Merit ordering loses and repeats nothing: what lies beyond the depth the
\* cross-encoder reads, or shares an evidence id with what it read, is still
\* ranked exactly once (rescore.reordered).
EveryRowRanked == pc \in {"pack", "record", "done"} =>
                      Len(ranked) = Len(rows) /\ ToSet(ranked) = 1..Len(rows)

\* The budget bounds the rendered answer, unless the handles of the single best
\* item are more than it alone (pack, Candidate.trimmed).
WithinBudget ==
    Packed => \/ Spent <= budget
              \/ Len(kept) = 1 /\ kept[1].trimmed /\ Spent = rows[kept[1].row].notes + 2

\* An excerpt falls away only under settled evidence of its own span that
\* ranks above it; a hedged or refuted claim takes no excerpt from the reader
\* by itself (deduplicate).
DroppedIsSpokenFor ==
    Packed => LET left == ToSet(Deduplicate(ranked)) IN
              \A i \in (1..Len(rows)) \ left :
                 /\ rows[i].lane = "sources"
                 /\ \E j \in left : /\ rows[j].chunk = rows[i].chunk /\ rows[j].stance = "settled"
                                    /\ Position(j) < Position(i)

\* A row the budget passes over would not have fitted beside what ranks above
\* it: merit order is offered its place first (pack).
MeritIsOfferedFirst ==
    Packed => \A i \in ToSet(Deduplicate(ranked)) \ KeptRows :
                 Whole(i).cost + FoldLeft(LAMBDA acc, k :
                     acc + IF Position(k.row) < Position(i) THEN k.cost ELSE 0, 0, kept) > budget

\* The trace of a find flags as many rows as the find returned, also when two
\* rows carry one evidence id or the only row was trimmed (FindTrace).
TraceAgrees == Packed => Cardinality(Selected) = Len(kept)

\* Retrieval strengthens exactly what it surfaced: a step may raise a count by
\* one, of a claim that is still live, and only of one packed by a find and not
\* by a trace (record_access).
StrengthensOnlyTheShown ==
    \A f \in Facts : accessed'[f] # accessed[f] =>
       /\ accessed'[f] = accessed[f] + 1 /\ f \in live /\ records
       /\ \E i \in KeptRows : rows[i].id = f
=============================================================================
