--------------------------- MODULE RetrievalStudy ---------------------------
(***************************************************************************)
(* The retrieval benchmark (eval/plans.py): multihop probes generated from *)
(* pairs of live facts, then every arm of a study run over the same        *)
(* questions, each arm under an overlay of the process's settings, each    *)
(* answer scored against the texts its question came from.                 *)
(*                                                                         *)
(* A find is the order a question has the stored lines in, cut with those  *)
(* recently surfaced first and without the lanes the arm leaves out; it    *)
(* surfaces what it returns (find records accesses).                       *)
(***************************************************************************)
EXTENDS Integers, FiniteSets, Sequences, SequencesExt, FiniteSetsExt

CONSTANTS
    Edges,        \* the possible lists of graph edges, each <<subject, object, statement>>
    PerStratum,   \* questions wanted
    PathFactor,   \* two_hop_paths reads this many pairs for each question
    Arms,         \* a sequence of arms
    Overlay,      \* the value each arm gives the setting, Default to leave it alone
    Carries,      \* the statements each line a find may return contains
    Orders,       \* the orders a question may have the lines in
    LeftOut,      \* the lines no lane of the arm returns
    Default, K

VARIABLES edges, paths, at, questions, seen,   \* generation
          order, setting, warm, arm, asked, rows, pc

generation == <<edges, paths, at, questions, seen>>
study == <<order, setting, warm, arm, asked, rows>>
vars == <<generation, study, pc>>

Lines == DOMAIN Carries

Init ==
    /\ edges \in Edges /\ paths = <<>> /\ at = 1 /\ questions = <<>> /\ seen = {}
    /\ order \in [1..PerStratum -> Orders] /\ setting = Default /\ warm = {} /\ arm = 1 /\ asked = 0
    /\ rows = <<>> /\ pc = "paths"

-----------------------------------------------------------------------------

Cut(s, n) == SubSeq(s, 1, Min({n, Len(s)}))

TwoHop(f, s) == f[2] = s[1] /\ f # s /\ s[2] # f[1] /\ s[3] # f[3]

TwoHopPaths(limit) ==
    LET from(n) == SelectSeq(edges, LAMBDA s : TwoHop(edges[n], s))
        pairs(n) == [m \in 1..Len(from(n)) |-> <<edges[n], from(n)[m]>>]
    IN Cut(FlattenSeq([n \in 1..Len(edges) |-> pairs(n)]), limit)

Paths ==
    /\ pc = "paths" /\ pc' = "generate"
    /\ paths' = TwoHopPaths(PerStratum * PathFactor)
    /\ UNCHANGED <<edges, at, questions, seen, study>>

\* What the model wrote: unanchored questions and repetitions are dropped.
Generated(anchored, text) ==
    IF ~ anchored \/ text \in seen THEN UNCHANGED <<questions, seen>>
    ELSE /\ questions' = Append(questions, [text |-> text, expected |-> paths[at]])
         /\ seen' = seen \cup {text}

Generate ==
    /\ pc = "generate" /\ at <= Len(paths) /\ Len(questions) < PerStratum
    /\ \E anchored \in BOOLEAN, text \in 1..(PerStratum + 1) : Generated(anchored, text)
    /\ at' = at + 1
    /\ UNCHANGED <<edges, paths, study, pc>>

\* RetrievalBenchmark.run: the arms over the questions of the stratum, if any.
Generation ==
    /\ pc = "generate" /\ (at > Len(paths) \/ Len(questions) = PerStratum)
    /\ pc' = IF questions = <<>> THEN "done" ELSE "enter"
    /\ UNCHANGED <<generation, study>>

-----------------------------------------------------------------------------
Expected(q) == <<questions[q].expected[1][3], questions[q].expected[2][3]>>

\* The lanes cut by distance and warmth, the cross-encoder orders what is left.
Ranking(warmed, a, q) ==
    LET shown(l) == l \notin LeftOut[a]
        kept == ToSet(Cut(SelectSeq(order[q], LAMBDA l : shown(l) /\ l \in warmed)
                          \o SelectSeq(order[q], LAMBDA l : shown(l) /\ l \notin warmed), K))
    IN SelectSeq(order[q], LAMBDA l : l \in kept)

Carried(q, line) == {x \in {1, 2} : Expected(q)[x] \in Carries[line]}

\* question_scores: a candidate is relevant for the first text it carries that
\* no earlier candidate was relevant for.
Relevant(q, result) ==
    LET matched[n \in 0..Len(result)] ==
            IF n = 0 THEN {}
            ELSE LET open == Carried(q, result[n]) \ matched[n - 1]
                 IN matched[n - 1] \cup (IF open = {} THEN {} ELSE {Min(open)})
    IN {n \in 1..Len(result) : matched[n] # matched[n - 1]}

Row(a, q, result) ==   \* ranking_metrics
    LET relevant == Relevant(q, result)
    IN [arm |-> a, question |-> q, result |-> result, hits |-> Cardinality(relevant),
        first |-> IF relevant = {} THEN 0 ELSE Min(relevant)]

Enter ==   \* SettingsOverlay.__enter__
    /\ pc = "enter" /\ pc' = "find" /\ asked' = 0
    /\ setting' = IF Overlay[arm] = Default THEN setting ELSE Overlay[arm]
    /\ UNCHANGED <<generation, order, warm, arm, rows>>

Find ==
    /\ pc = "find" /\ asked < Len(questions) /\ asked' = asked + 1
    /\ LET result == Ranking(warm, arm, asked + 1)
       IN /\ rows' = Append(rows, Row(arm, asked + 1, result))
          /\ warm' = warm \cup ToSet(result)
    /\ UNCHANGED <<generation, order, setting, arm, pc>>

Fail ==   \* a find or a judge raises: the overlay unwinds, the study is lost
    /\ pc = "find" /\ asked < Len(questions) /\ pc' = "failed"
    /\ setting' = Default
    /\ UNCHANGED <<generation, order, warm, arm, asked, rows>>

Leave ==   \* SettingsOverlay.__exit__
    /\ pc = "find" /\ asked = Len(questions)
    /\ setting' = Default /\ arm' = arm + 1
    /\ pc' = IF arm = Len(Arms) THEN "done" ELSE "enter"
    /\ UNCHANGED <<generation, order, warm, asked, rows>>

Next == Paths \/ Generate \/ Generation \/ Enter \/ Find \/ Fail \/ Leave

Spec == Init /\ [][Next]_vars

-----------------------------------------------------------------------------
TypeOK ==
    /\ pc \in {"paths", "generate", "enter", "find", "failed", "done"}
    /\ Len(questions) <= PerStratum /\ Len(paths) <= PerStratum * PathFactor
    /\ arm \in 1..(Len(Arms) + 1) /\ asked \in 0..PerStratum /\ warm \subseteq Lines

\* A probe needs both of its facts: they are chained by a shared entity, they
\* do not lead back, and no two probes ask the same (multihop_questions).
ProbesNeedBoth ==
    \A q \in 1..Len(questions) :
        LET f == questions[q].expected[1]
            s == questions[q].expected[2]
        IN /\ f[2] = s[1] /\ s[2] # f[1] /\ f[3] # s[3]
           /\ \A p \in 1..(q - 1) : questions[p].text # questions[q].text

\* Outside an arm the process has its own settings again, a failed arm
\* included (SettingsOverlay.__exit__).
SettingsRestored == pc \in {"enter", "failed", "done"} => setting = Default

\* A finished study compares its arms on the same questions, each asked once
\* of each (RetrievalBenchmark.run, measure_arm).
ArmsPaired ==
    pc = "done" /\ questions # <<>> =>
        \A a \in 1..Len(Arms), q \in 1..Len(questions) :
            Cardinality({n \in 1..Len(rows) : rows[n].arm = a /\ rows[n].question = q}) = 1

\* A row scores each of its question's texts once: two candidates of the same
\* text are one hit, one candidate of both texts is one, and the first
\* relevant candidate is the first that carries any (question_scores).
OneCreditEach ==
    \A n \in 1..Len(rows) :
        LET row == rows[n]
            carrying == {m \in 1..Len(row.result) : Carried(row.question, row.result[m]) # {}}
        IN /\ row.hits <= Cardinality(UNION {Carried(row.question, row.result[m]) : m \in carrying})
           /\ row.hits <= Cardinality(carrying)
           /\ row.first = IF carrying = {} THEN 0 ELSE Min(carrying)
=============================================================================
