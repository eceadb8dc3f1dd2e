------------------------------ MODULE MCMemory ------------------------------
(* The components that turn text into memory, tend it and recall it: `part`    *)
(* names the one a behaviour exercises.  The one this module extends keeps its *)
(* variables, of the others `part` gives v1, v2, ... their meaning.            *)
EXTENDS EntityMerge,
        Integers, Sequences, FiniteSets, FiniteSetsExt, SequencesExt, TLC

CONSTANTS Exercised, Null

VARIABLES part, v1, v2, v3, v4, v5, v6, v7, v8, v9, v10, v11, v12, v13, v14, v15
bank == <<v1, v2, v3, v4, v5, v6, v7, v8, v9, v10, v11, v12, v13, v14, v15>>
vars == <<part, bank, mergeVars>>
-----------------------------------------------------------------------------
\* Two projections of dated facts; 100 is Endless.
History == INSTANCE FactLedger WITH
    Job <- {"j1", "j2"}, Statement <- {"a", "b"}, Froms <- {0, 1}, Tos <- {2, 100},
    Readings <- {"plain"}, BatchSize <- 1, Ahead <- 0, MaxNow <- 2, MaxRounds <- 4,
    MaxTries <- 1, MaxClosings <- 1,
    now <- v1, claims <- v2, phase <- v3, batch <- v4, cand <- v5, matches <- v6,
    verdict <- v7, rounds <- v8, tries <- v9, lock <- v10, closings <- v11

\* Three projections that may correct or doubt.
Contested == INSTANCE FactLedger WITH
    Job <- {"j1", "j2", "j3"}, Statement <- {"a", "b"}, Froms <- {0}, Tos <- {100},
    Readings <- {"plain", "corrects"}, BatchSize <- 1, Ahead <- 0, MaxNow <- 1,
    MaxRounds <- 1, MaxTries <- 1, MaxClosings <- 0,
    now <- v1, claims <- v2, phase <- v3, batch <- v4, cand <- v5, matches <- v6,
    verdict <- v7, rounds <- v8, tries <- v9, lock <- v10, closings <- v11

\* One name claimed under four identifiers in two scopes.

\* Every history of three facts, merged with nothing else running.
MergingAlone == INSTANCE EntityMerge WITH
    Scopes <- {"s1"}, Identifiers <- {1, 2, 3, 4}, CurrentId <- 2, Nameless <- {4},
    FactIds <- {"f1", "f2", "f3"}, MaxWrites <- 0,
    content <- v1, held <- v2, subject <- v3, known <- v4, pass <- v5, resolved <- v6,
    writes <- v7

FactVectors == INSTANCE VectorProjection WITH
    Claims <- {"c", "d"}, Contents <- {"x", "y"}, Scopes <- {"mine", "team"},
    Read <- {"mine"}, Public <- {"team"}, Distances <- {1}, Timed <- TRUE, Ahead <- 0,
    Horizon <- 2, Limit <- 1,
    now <- v1, embedding <- v2, claim <- v3, vector <- v4

EntityVectors == INSTANCE VectorProjection WITH
    Claims <- {"c", "d", "e"}, Contents <- {"x", "y"}, Scopes <- {"mine", "team"},
    Read <- {"mine"}, Public <- {"team"}, Distances <- {1, 2}, Timed <- FALSE,
    Ahead <- 0, Horizon <- 0, Limit <- 2,
    now <- v1, embedding <- v2, claim <- v3, vector <- v4

Seqs(words, n) == UNION {[1..k -> words] : k \in 1..n}
GroundNorm == [n \in {"Model", "model", "Other", "/path", ""} |->
                  CASE n = "Other" -> "o" [] n \in {"/path", ""} -> "" [] OTHER -> "m"]
StanceTexts ==
    Seqs({"a", "maybe", "not"}, 3) \cup Seqs({"a", "said", "wrong", "."}, 3)
    \cup {<<"maybe", "a", ".", "a">>, <<"a", ".", "maybe", "a">>, <<"a", "maybe", ".", "a">>}
StanceQuotes == {<<>>} \cup Seqs({"a", "maybe"}, 2)
StanceStatements == [rank : {0, 2, 4}, negated : {TRUE, FALSE}]
Certainty == INSTANCE Grounding WITH
    Texts <- StanceTexts, Quotes <- StanceQuotes, Statements <- StanceStatements,
    Proposals <- {<<"Model", "Other">>}, Endpoints <- {"Model", "Other"},
    Predicates <- {"uses"}, Proposed <- {0, 3}, Norm <- GroundNorm, MaxFacts <- 1,
    source <- v1, names <- v2, considered <- v3, facts <- v4, used <- v5, rejected <- v6

EndQuotes == {<<>>, <<"a">>, <<"maybe">>}
EndProposals == {<<"Model", "Other">>, <<"model", "Model", "/path">>, <<"Other", "model">>}
Ends == INSTANCE Grounding WITH
    Texts <- {<<"a", ".">>}, Quotes <- EndQuotes,
    Statements <- {[rank |-> 0, negated |-> FALSE]}, Proposals <- EndProposals,
    Endpoints <- {"Model", "model", "Other", "/path", ""},
    Predicates <- {"uses", "related_to"}, Proposed <- {0}, Norm <- GroundNorm,
    MaxFacts <- 2,
    source <- v1, names <- v2, considered <- v3, facts <- v4, used <- v5, rejected <- v6

Spans == INSTANCE SpanExtraction WITH
    Texts <- {<<"a", "b", ".", "c", "b">>}, WindowSize <- 4, Overlap <- 1,
    Kinds <- {"Person"}, Predicates <- {"uses"}, Confidences <- {1, 2},
    MaxRelations <- 1, MaxEntities <- 2,
    text <- v1, todo <- v2, entities <- v3, relations <- v4, seen <- v5, graph <- v6

Typing == INSTANCE SpanExtraction WITH
    Texts <- {<<"a", "b", ".", "b">>}, WindowSize <- 3, Overlap <- 1,
    Kinds <- {"Person", "Tool"}, Predicates <- {"uses"}, Confidences <- {1, 2},
    MaxRelations <- 1, MaxEntities <- 2,
    text <- v1, todo <- v2, entities <- v3, relations <- v4, seen <- v5, graph <- v6

Bounded == INSTANCE BoundedExtraction WITH
    MaxLength <- 7, WindowSize <- 4,
    size <- v1, todo <- v2, asked <- v3, wires <- v4, outcome <- v5

TreeLeaves == {<<"A">>, <<"A", "A">>, <<"A", "B", "A">>,
                <<"A", "B", "C">>}
Tree == INSTANCE SummaryTree WITH
    Labels <- {"A", "B", "C", "D", "E"}, Meanings <- {1, 2}, Leaves <- TreeLeaves,
    BranchFactor <- 2, Concurrency <- 2, RootMax <- 1, MaxLevels <- 3,
    phase <- v1, nodes <- v2, level <- v3, groups <- v4, batch <- v5, summary <- v6,
    parents <- v7, next <- v8, claims <- v9, edges <- v10

\* The job and the operator build one scope, serializably.
Theming == INSTANCE Themes WITH
    Builders <- {"job", "command"}, Graphs <- {{"a", "b"}, {"a", "b", "c"}},
    MaxSize <- 2, MinSize <- 1, MaxDepth <- 2, FailNum <- 1, FailDen <- 2,
    Serializable <- TRUE, MaxBuilds <- 2,
    stored <- v1, pc <- v2, build <- v3, held <- v4, graph <- v5, pending <- v6,
    leaves <- v7, whole <- v8, drafts <- v9, deleting <- v10, builds <- v11

\* The two swap at READ COMMITTED, and one of them again.
Swapping == INSTANCE Themes WITH
    Builders <- {"job", "command"}, Graphs <- {{"a", "b"}}, MaxSize <- 2, MinSize <- 1,
    MaxDepth <- 1, FailNum <- 1, FailDen <- 2, Serializable <- FALSE, MaxBuilds <- 4,
    stored <- v1, pc <- v2, build <- v3, held <- v4, graph <- v5, pending <- v6,
    leaves <- v7, whole <- v8, drafts <- v9, deleting <- v10, builds <- v11

\* One build of a larger graph.
Cutting == INSTANCE Themes WITH
    Builders <- {"job"}, Graphs <- {{"a", "b", "c", "d"}}, MaxSize <- 2, MinSize <- 1,
    MaxDepth <- 2, FailNum <- 1, FailDen <- 2, Serializable <- TRUE, MaxBuilds <- 1,
    stored <- v1, pc <- v2, build <- v3, held <- v4, graph <- v5, pending <- v6,
    leaves <- v7, whole <- v8, drafts <- v9, deleting <- v10, builds <- v11

\* Rows of two sizes against three budgets.
PackRows ==
    {[lane |-> "facts", id |-> f, chunk |-> IF f = 3 THEN 12 ELSE 11, stance |-> s,
      direct |-> FALSE, title |-> 0, text |-> t, notes |-> 0] :
        f \in {1, 2}, s \in {"settled", "hedged"}, t \in {1, 3}}
    \cup {[lane |-> "sources", id |-> c, chunk |-> c, stance |-> "settled",
           direct |-> d, title |-> c - 10, text |-> t, notes |-> 1] :
             c \in {11, 12}, d \in {FALSE}, t \in {1, 3}}
    \cup {[lane |-> "overview", id |-> 21, chunk |-> 0, stance |-> "settled",
           direct |-> FALSE, title |-> 0, text |-> 1, notes |-> 0]}
Packing == INSTANCE FindRanking WITH
    Rows <- PackRows, MaxRows <- 3, Depth <- 3, Budgets <- {2, 4}, Merits <- {1, 2},
    Inside <- {<<1, 2>>}, MaxFinds <- 1,
    pc <- v1, records <- v2, rows <- v3, budget <- v4, scores <- v5, ranked <- v6,
    kept <- v7, live <- v8, accessed <- v9

\* Directly named sources, of one size.
DirectRows ==
    {[lane |-> "facts", id |-> f, chunk |-> IF f = 3 THEN 12 ELSE 11, stance |-> s,
      direct |-> FALSE, title |-> 0, text |-> t, notes |-> 0] :
        f \in {1, 3}, s \in {"settled", "hedged"}, t \in {1}}
    \cup {[lane |-> "sources", id |-> c, chunk |-> c, stance |-> "settled",
           direct |-> d, title |-> c - 10, text |-> t, notes |-> 1] :
             c \in {11, 12}, d \in BOOLEAN, t \in {1}}
    \cup {[lane |-> "overview", id |-> 21, chunk |-> 0, stance |-> "settled",
           direct |-> FALSE, title |-> 0, text |-> 1, notes |-> 0]}
Direct == INSTANCE FindRanking WITH
    Rows <- DirectRows, MaxRows <- 4, Depth <- 3, Budgets <- {4}, Merits <- {1, 2},
    Inside <- {<<1, 2>>}, MaxFinds <- 1,
    pc <- v1, records <- v2, rows <- v3, budget <- v4, scores <- v5, ranked <- v6,
    kept <- v7, live <- v8, accessed <- v9

\* Three facts, the first and the last of one statement.
WalkShapes(e) == {<<s, o>> \in e \X (e \cup {0}) : s <= o \/ o = 0}
Walk == INSTANCE GraphWalk WITH
    Entities <- {1, 2, 3}, FactIds <- {1, 2, 3}, Shapes <- WalkShapes({1, 2, 3}),
    Statements <- <<1, 2, 1>>, Mention <- 144000, Near <- 14400, Endpoint <- 14400,
    Frontier <- 2, Window <- 2, Hops <- 2, K <- 1, FactsK <- 3, Limit <- 2,
    pc <- v1, facts <- v2, dense <- v3, named <- v4, hop <- v5, previous <- v6,
    spread <- v7, mass <- v8, parts <- v9, lane <- v10

Lane == INSTANCE GraphWalk WITH
    Entities <- {1, 2}, FactIds <- {1, 2, 3, 4}, Shapes <- WalkShapes({1, 2}),
    Statements <- <<1, 2, 3, 4>>, Mention <- 144000, Near <- 14400, Endpoint <- 14400,
    Frontier <- 2, Window <- 2, Hops <- 1, K <- 1, FactsK <- 4, Limit <- 3,
    pc <- v1, facts <- v2, dense <- v3, named <- v4, hop <- v5, previous <- v6,
    spread <- v7, mass <- v8, parts <- v9, lane <- v10

SourceTexts == {1, 2} \X (1..2)
SourceOrders == {s \in BoundedSeq(SourceTexts, 4) : IsInjective(s)}
FullOrders == {s \in SourceOrders : Len(s) = 4}
ShortOrders == {s \in SourceOrders : Len(s) \in {0, 1}}
OneMerit == {<<<<2, 1>>, <<1, 1>>, <<2, 2>>, <<1, 2>>>>}
Sources == INSTANCE SourceFusion WITH
    Docs <- {1, 2}, ChunksPerDoc <- 2, DenseOrders <- FullOrders,
    LexicalOrders <- ShortOrders, FactOrders <- {<<>>}, Merits <- OneMerit, Depth <- 2,
    Overfetch <- 2, K <- 3, PerDoc <- 1, FactLimit <- 1, Limit <- 1, RrfK <- 60,
    Scale <- 1000000, PromotedBonus <- 10000, NamedBonus <- 1000000,
    owned <- v1, expired <- v2, named <- v3, shared <- v4, copiesFirst <- v5,
    dense <- v6, lexical <- v7, facts <- v8, merit <- v9, pc <- v10, ranked <- v11,
    hits <- v12, picked <- v13, round <- v14, before <- v15

ProbeEdges ==
    {<<<<1, 2, "a">>, <<2, 3, "b">>, <<3, 1, "c">>>>,
     <<<<1, 2, "a">>, <<2, 1, "b">>, <<1, 3, "c">>>>,
     <<<<1, 1, "a">>, <<1, 2, "b">>, <<2, 3, "b">>>>,
     <<<<1, 2, "a">>, <<2, 3, "b">>, <<2, 2, "c">>>>,
     <<<<1, 2, "a">>, <<3, 2, "b">>, <<3, 1, "c">>>>}
ProbeCarries == "a" :> {"a"} @@ "b" :> {"b"} @@ "ab" :> {"a", "b"} @@ "other" :> {}
ProbeOrders == {<<"ab", "a", "b", "other">>, <<"other", "b", "ab", "a">>,
                <<"a", "other", "ab", "b">>, <<"other", "a", "ab", "b">>}
Study == INSTANCE RetrievalStudy WITH
    Edges <- ProbeEdges, PerStratum <- 2, PathFactor <- 1,
    Arms <- <<"maximal", "focused", "seeding=off">>, Overlay <- <<"on", "on", "off">>,
    Carries <- ProbeCarries, Orders <- ProbeOrders, LeftOut <- <<{}, {"ab"}, {}>>,
    Default <- "on", K <- 3,
    edges <- v1, paths <- v2, at <- v3, questions <- v4, seen <- v5, order <- v6,
    setting <- v7, warm <- v8, arm <- v9, asked <- v10, rows <- v11, pc <- v12

StudyLabel == {"self query", "self-query", "uses"}
StudyTargets == "first" :> <<{"self query", "uses"}, {"self query"}>> @@ "second" :> <<{"uses"}>>
StudySpellings == {[l \in StudyLabel |-> IF l = "uses" THEN l ELSE name] :
                      name \in {"self query", "self-query"}}
StudyFacts == {f \in [label : StudyLabel, right : BOOLEAN] : f.label = "uses" => f.right}
StudyOutputs == {<<>>} \cup {<<f>> : f \in StudyFacts}
                \cup {<<f, g>> : f \in StudyFacts, g \in StudyFacts}
Triples == INSTANCE ExtractionStudy WITH
    Case <- {"first", "second"}, Label <- StudyLabel, Targets <- StudyTargets,
    Spellings <- StudySpellings, Outputs <- StudyOutputs, Concurrency <- 1,
    phase <- v1, proposed <- v2, accepted <- v3, result <- v4, report <- v5

\* f2 touches both entities, and the first fact may be retracted.
Profiling == INSTANCE Profiles WITH
    Entity <- {"e1", "e2"}, Fact <- {"f1", "f2", "f3"},
    Touches <- "f1" :> {"e1"} @@ "f2" :> {"e1", "e2"} @@ "f3" :> {"e2"},
    Pass <- {"daily"}, Kind <- "daily" :> "dirty", BatchSize <- 1, Retracts <- {"f1"},
    MaxCrashes <- 1,
    chunk <- v1, claim <- v2, counter <- v3, age <- v4, profile <- v5, pass <- v6,
    crashes <- v7

Growth == INSTANCE GraphGenerations WITH
    Threshold <- 2, MaxFacts <- 3, MaxEdges <- 1, MaxAttempts <- 2, MaxFails <- 2,
    MaxCrashes <- 1,
    facts <- v1, edges <- v2, mark <- v3, gen <- v4, tree <- v5, slot <- v6,
    attempts <- v7, run <- v8, genFacts <- v9, markFacts <- v10, handed <- v11,
    fails <- v12, crashes <- v13

Observing == INSTANCE Insight WITH
    Pass <- {"p1", "p2"}, Scope <- {"s1", "s2"}, Statement <- {"a", "b"},
    Levels <- {1, 2, 3}, Gate <- 2, InsightMax <- 1, MaxRuns <- 3,
    facts <- v1, live <- v2, closed <- v3, phase <- v4, scope <- v5, kept <- v6,
    wrote <- v7, checked <- v8, written <- v9, fresh <- v10, runs <- v11

BenchMessages == "cA" :> {"m1", "m2"} @@ "cB" :> {"m1"}
Reuse == INSTANCE BenchmarkCorpora WITH
    Corpora <- {"cA", "cB"}, MessagesOf <- BenchMessages, Runs <- {"r1"},
    Reuses <- TRUE, Questions <- 2, MaxRuns <- 4, MaxFaults <- 0,
    rows <- v1, content <- v2, run <- v3, begun <- v4, faults <- v5

Faulty == INSTANCE BenchmarkCorpora WITH
    Corpora <- {"cA", "cB"}, MessagesOf <- BenchMessages, Runs <- {"r1"},
    Reuses <- FALSE, Questions <- 2, MaxRuns <- 4, MaxFaults <- 2,
    rows <- v1, content <- v2, run <- v3, begun <- v4, faults <- v5

Twice == INSTANCE BenchmarkCorpora WITH
    Corpora <- {"cA", "cB"}, MessagesOf <- BenchMessages, Runs <- {"r1", "r2"},
    Reuses <- TRUE, Questions <- 1, MaxRuns <- 2, MaxFaults <- 0,
    rows <- v1, content <- v2, run <- v3, begun <- v4, faults <- v5

\* Two projections of one slot, each abandoned at most twice.
Contending == INSTANCE FactLedger WITH
    Job <- {"j1", "j2"}, Statement <- {"a", "b", "c"}, Froms <- {0, 1}, Tos <- {100},
    Readings <- {"plain"}, BatchSize <- 2, Ahead <- 0, MaxNow <- 1, MaxRounds <- 2,
    MaxTries <- 2, MaxClosings <- 0,
    now <- v1, claims <- v2, phase <- v3, batch <- v4, cand <- v5, matches <- v6,
    verdict <- v7, rounds <- v8, tries <- v9, lock <- v10, closings <- v11

\* A dirty, a weekly and a single-entity pass.
Mixing == INSTANCE Profiles WITH
    Entity <- {"e1", "e2"}, Fact <- {"f1", "f2"},
    Touches <- "f1" :> {"e1"} @@ "f2" :> {"e1", "e2"},
    Pass <- {"daily", "other", "third"},
    Kind <- "daily" :> "dirty" @@ "other" :> "weekly" @@ "third" :> "single",
    BatchSize <- 2, Retracts <- {"f1"}, MaxCrashes <- 1,
    chunk <- v1, claim <- v2, counter <- v3, age <- v4, profile <- v5, pass <- v6,
    crashes <- v7

\* What the components ask of their constants, and the proofs start from.
ASSUME PartsAssumption ==
    /\ History!LedgerAssumption /\ Contested!LedgerAssumption
    /\ EntityMergeAssumption /\ MergingAlone!EntityMergeAssumption
    /\ FactVectors!ProjectionAssumption /\ EntityVectors!ProjectionAssumption
    /\ Certainty!NormNames /\ Ends!NormNames /\ Spans!WindowAssumption
    /\ Spans!LimitAssumption /\ Typing!WindowAssumption /\ Typing!LimitAssumption
    /\ Bounded!WindowAssumption /\ Tree!Branching /\ Sources!SourceFusionAssumption
    /\ Triples!StudyAssumption /\ Profiling!TouchesAssumption
    /\ Profiling!KindAssumption /\ Profiling!ProfileBoundsAssumption
    /\ Growth!GenerationsAssumption /\ Observing!InsightAssumption
    /\ Reuse!CorporaAssumption /\ Faulty!CorporaAssumption
    /\ Twice!CorporaAssumption /\ Contending!LedgerAssumption
    /\ Mixing!TouchesAssumption /\ Mixing!KindAssumption
    /\ Mixing!ProfileBoundsAssumption
-----------------------------------------------------------------------------
\* The components of this module itself rest in the other parts.
Init ==
    /\ part \in Exercised
    /\ MergeInit
    /\ part # "merge" => held = {} /\ known = {} /\ subject = [f \in FactIds |-> 0]
    /\ \/ /\ part \in {"merge"}
          /\ v1 = 0 /\ v2 = 0 /\ v3 = 0 /\ v4 = 0 /\ v5 = 0 /\ v6 = 0 /\ v7 = 0 /\ v8 = 0 /\ v9 = 0 /\ v10 = 0
          /\ v11 = 0 /\ v12 = 0 /\ v13 = 0 /\ v14 = 0 /\ v15 = 0
       \/ /\ part = "history" /\ History!Init
          /\ v12 = 0 /\ v13 = 0 /\ v14 = 0 /\ v15 = 0
       \/ /\ part = "contested" /\ Contested!Init
          /\ v12 = 0 /\ v13 = 0 /\ v14 = 0 /\ v15 = 0
       \/ /\ part = "merge_alone" /\ MergingAlone!MergeInit
          /\ v8 = 0 /\ v9 = 0 /\ v10 = 0 /\ v11 = 0 /\ v12 = 0 /\ v13 = 0 /\ v14 = 0 /\ v15 = 0
       \/ /\ part = "fact_vectors" /\ FactVectors!Init
          /\ v5 = 0 /\ v6 = 0 /\ v7 = 0 /\ v8 = 0 /\ v9 = 0 /\ v10 = 0 /\ v11 = 0 /\ v12 = 0 /\ v13 = 0 /\ v14 = 0
          /\ v15 = 0
       \/ /\ part = "entity_vectors" /\ EntityVectors!Init
          /\ v5 = 0 /\ v6 = 0 /\ v7 = 0 /\ v8 = 0 /\ v9 = 0 /\ v10 = 0 /\ v11 = 0 /\ v12 = 0 /\ v13 = 0 /\ v14 = 0
          /\ v15 = 0
       \/ /\ part = "certainty" /\ Certainty!Init
          /\ v7 = 0 /\ v8 = 0 /\ v9 = 0 /\ v10 = 0 /\ v11 = 0 /\ v12 = 0 /\ v13 = 0 /\ v14 = 0 /\ v15 = 0
       \/ /\ part = "endpoints" /\ Ends!Init
          /\ v7 = 0 /\ v8 = 0 /\ v9 = 0 /\ v10 = 0 /\ v11 = 0 /\ v12 = 0 /\ v13 = 0 /\ v14 = 0 /\ v15 = 0
       \/ /\ part = "spans" /\ Spans!Init
          /\ v7 = 0 /\ v8 = 0 /\ v9 = 0 /\ v10 = 0 /\ v11 = 0 /\ v12 = 0 /\ v13 = 0 /\ v14 = 0 /\ v15 = 0
       \/ /\ part = "kinds" /\ Typing!Init
          /\ v7 = 0 /\ v8 = 0 /\ v9 = 0 /\ v10 = 0 /\ v11 = 0 /\ v12 = 0 /\ v13 = 0 /\ v14 = 0 /\ v15 = 0
       \/ /\ part = "bounded" /\ Bounded!Init
          /\ v6 = 0 /\ v7 = 0 /\ v8 = 0 /\ v9 = 0 /\ v10 = 0 /\ v11 = 0 /\ v12 = 0 /\ v13 = 0 /\ v14 = 0 /\ v15 = 0
       \/ /\ part = "tree" /\ Tree!Init
          /\ v11 = 0 /\ v12 = 0 /\ v13 = 0 /\ v14 = 0 /\ v15 = 0
       \/ /\ part = "themes" /\ Theming!Init
          /\ v12 = 0 /\ v13 = 0 /\ v14 = 0 /\ v15 = 0
       \/ /\ part = "swaps" /\ Swapping!Init
          /\ v12 = 0 /\ v13 = 0 /\ v14 = 0 /\ v15 = 0
       \/ /\ part = "cuts" /\ Cutting!Init
          /\ v12 = 0 /\ v13 = 0 /\ v14 = 0 /\ v15 = 0
       \/ /\ part = "pack" /\ Packing!Init
          /\ v10 = 0 /\ v11 = 0 /\ v12 = 0 /\ v13 = 0 /\ v14 = 0 /\ v15 = 0
       \/ /\ part = "merit" /\ Direct!Init
          /\ v10 = 0 /\ v11 = 0 /\ v12 = 0 /\ v13 = 0 /\ v14 = 0 /\ v15 = 0
       \/ /\ part = "walk" /\ Walk!Init
          /\ v11 = 0 /\ v12 = 0 /\ v13 = 0 /\ v14 = 0 /\ v15 = 0
       \/ /\ part = "lane" /\ Lane!Init
          /\ v11 = 0 /\ v12 = 0 /\ v13 = 0 /\ v14 = 0 /\ v15 = 0
       \/ /\ part = "sources" /\ Sources!Init
       \/ /\ part = "study" /\ Study!Init
          /\ v13 = 0 /\ v14 = 0 /\ v15 = 0
       \/ /\ part = "triples" /\ Triples!Init
          /\ v6 = 0 /\ v7 = 0 /\ v8 = 0 /\ v9 = 0 /\ v10 = 0 /\ v11 = 0 /\ v12 = 0 /\ v13 = 0 /\ v14 = 0 /\ v15 = 0
       \/ /\ part = "profiles" /\ Profiling!Init
          /\ v8 = 0 /\ v9 = 0 /\ v10 = 0 /\ v11 = 0 /\ v12 = 0 /\ v13 = 0 /\ v14 = 0 /\ v15 = 0
       \/ /\ part = "growth" /\ Growth!Init
          /\ v14 = 0 /\ v15 = 0
       \/ /\ part = "insight" /\ Observing!Init
          /\ v12 = 0 /\ v13 = 0 /\ v14 = 0 /\ v15 = 0
       \/ /\ part = "reuse" /\ Reuse!Init
          /\ v6 = 0 /\ v7 = 0 /\ v8 = 0 /\ v9 = 0 /\ v10 = 0 /\ v11 = 0 /\ v12 = 0 /\ v13 = 0 /\ v14 = 0 /\ v15 = 0
       \/ /\ part = "faults" /\ Faulty!Init
          /\ v6 = 0 /\ v7 = 0 /\ v8 = 0 /\ v9 = 0 /\ v10 = 0 /\ v11 = 0 /\ v12 = 0 /\ v13 = 0 /\ v14 = 0 /\ v15 = 0
       \/ /\ part = "two" /\ Twice!Init
          /\ v6 = 0 /\ v7 = 0 /\ v8 = 0 /\ v9 = 0 /\ v10 = 0 /\ v11 = 0 /\ v12 = 0 /\ v13 = 0 /\ v14 = 0 /\ v15 = 0
       \/ /\ part = "settles" /\ Contending!Init
          /\ v12 = 0 /\ v13 = 0 /\ v14 = 0 /\ v15 = 0
       \/ /\ part = "mixed" /\ Mixing!Init
          /\ v8 = 0 /\ v9 = 0 /\ v10 = 0 /\ v11 = 0 /\ v12 = 0 /\ v13 = 0 /\ v14 = 0 /\ v15 = 0

Resting == UNCHANGED <<part, mergeVars>>
MergingRest == part = "merge" /\ UNCHANGED <<part, bank>>
HistoryRest == part = "history" /\ Resting /\ UNCHANGED <<v12, v13, v14, v15>>
ContestedRest == part = "contested" /\ Resting /\ UNCHANGED <<v12, v13, v14, v15>>
MergingAloneRest == part = "merge_alone" /\ Resting /\ UNCHANGED <<v8, v9, v10, v11,
                                                       v12, v13, v14, v15>>
FactVectorsRest == part = "fact_vectors" /\ Resting /\ UNCHANGED <<v5, v6, v7, v8, v9,
                                                       v10, v11, v12, v13, v14, v15>>
EntityVectorsRest == part = "entity_vectors" /\ Resting /\ UNCHANGED <<v5, v6, v7, v8,
                                                           v9, v10, v11, v12, v13, v14,
                                                           v15>>
CertaintyRest == part = "certainty" /\ Resting /\ UNCHANGED <<v7, v8, v9, v10, v11, v12,
                                                  v13, v14, v15>>
EndsRest == part = "endpoints" /\ Resting /\ UNCHANGED <<v7, v8, v9, v10, v11, v12, v13,
                                             v14, v15>>
SpansRest == part = "spans" /\ Resting /\ UNCHANGED <<v7, v8, v9, v10, v11, v12, v13,
                                          v14, v15>>
TypingRest == part = "kinds" /\ Resting /\ UNCHANGED <<v7, v8, v9, v10, v11, v12, v13,
                                           v14, v15>>
BoundedRest == part = "bounded" /\ Resting /\ UNCHANGED <<v6, v7, v8, v9, v10, v11, v12,
                                              v13, v14, v15>>
TreeRest == part = "tree" /\ Resting /\ UNCHANGED <<v11, v12, v13, v14, v15>>
ThemingRest == part = "themes" /\ Resting /\ UNCHANGED <<v12, v13, v14, v15>>
SwappingRest == part = "swaps" /\ Resting /\ UNCHANGED <<v12, v13, v14, v15>>
CuttingRest == part = "cuts" /\ Resting /\ UNCHANGED <<v12, v13, v14, v15>>
PackingRest == part = "pack" /\ Resting /\ UNCHANGED <<v10, v11, v12, v13, v14, v15>>
DirectRest == part = "merit" /\ Resting /\ UNCHANGED <<v10, v11, v12, v13, v14, v15>>
WalkRest == part = "walk" /\ Resting /\ UNCHANGED <<v11, v12, v13, v14, v15>>
LaneRest == part = "lane" /\ Resting /\ UNCHANGED <<v11, v12, v13, v14, v15>>
SourcesRest == part = "sources" /\ Resting
StudyRest == part = "study" /\ Resting /\ UNCHANGED <<v13, v14, v15>>
TriplesRest == part = "triples" /\ Resting /\ UNCHANGED <<v6, v7, v8, v9, v10, v11, v12,
                                              v13, v14, v15>>
ProfilingRest == part = "profiles" /\ Resting /\ UNCHANGED <<v8, v9, v10, v11, v12, v13,
                                                 v14, v15>>
GrowthRest == part = "growth" /\ Resting /\ UNCHANGED <<v14, v15>>
ObservingRest == part = "insight" /\ Resting /\ UNCHANGED <<v12, v13, v14, v15>>
ReuseRest == part = "reuse" /\ Resting /\ UNCHANGED <<v6, v7, v8, v9, v10, v11, v12,
                                          v13, v14, v15>>
FaultyRest == part = "faults" /\ Resting /\ UNCHANGED <<v6, v7, v8, v9, v10, v11, v12,
                                            v13, v14, v15>>
TwiceRest == part = "two" /\ Resting /\ UNCHANGED <<v6, v7, v8, v9, v10, v11, v12, v13,
                                        v14, v15>>
ContendingRest == part = "settles" /\ Resting /\ UNCHANGED <<v12, v13, v14, v15>>
MixingRest == part = "mixed" /\ Resting /\ UNCHANGED <<v8, v9, v10, v11, v12, v13, v14,
                                           v15>>

HistoryStep == HistoryRest /\ History!Next
ContestedStep == ContestedRest /\ Contested!Next
MergingStep == MergingRest /\ MergeNext
MergingAloneStep == MergingAloneRest /\ MergingAlone!MergeNext
FactVectorsStep == FactVectorsRest /\ FactVectors!Next
EntityVectorsStep == EntityVectorsRest /\ EntityVectors!Next
CertaintyStep == CertaintyRest /\ Certainty!Next
EndsStep == EndsRest /\ Ends!Next
SpansStep == SpansRest /\ Spans!Next
TypingStep == TypingRest /\ Typing!Next
BoundedStep == BoundedRest /\ Bounded!Next
TreeStep == TreeRest /\ Tree!Next
ThemingStep == ThemingRest /\ Theming!Next
SwappingStep == SwappingRest /\ Swapping!Next
CuttingStep == CuttingRest /\ Cutting!Next
PackingStep == PackingRest /\ Packing!Next
DirectStep == DirectRest /\ Direct!Next
WalkStep == WalkRest /\ Walk!Next
LaneStep == LaneRest /\ Lane!Next
SourcesStep == SourcesRest /\ Sources!Next
StudyStep == StudyRest /\ Study!Next
TriplesStep == TriplesRest /\ Triples!Next
ProfilingStep == ProfilingRest /\ Profiling!Next
GrowthStep == GrowthRest /\ Growth!Next
ObservingStep == ObservingRest /\ Observing!Next
ReuseStep == ReuseRest /\ Reuse!Next
FaultyStep == FaultyRest /\ Faulty!Next
TwiceStep == TwiceRest /\ Twice!Next
ContendingStep == ContendingRest /\ Contending!Next
MixingStep == MixingRest /\ Mixing!Next

Next == HistoryStep \/ ContestedStep \/ MergingStep \/ MergingAloneStep \/
        FactVectorsStep \/ EntityVectorsStep \/ CertaintyStep \/ EndsStep \/
        SpansStep \/ TypingStep \/ BoundedStep \/ TreeStep \/ ThemingStep \/
        SwappingStep \/ CuttingStep \/ PackingStep \/ DirectStep \/ WalkStep \/ LaneStep \/
        SourcesStep \/ StudyStep \/ TriplesStep \/ ProfilingStep \/ GrowthStep \/
        ObservingStep \/ ReuseStep \/ FaultyStep \/ TwiceStep \/ ContendingStep \/
        MixingStep
Spec == Init /\ [][Next]_vars
-----------------------------------------------------------------------------
(* Each part keeps its type.                                              *)
TypeOK ==
    /\ part = "history" => History!TypeOK
    /\ part = "contested" => Contested!TypeOK
    /\ part = "merge" => MergeTypeOK
    /\ part = "merge_alone" => MergingAlone!MergeTypeOK
    /\ part = "fact_vectors" => FactVectors!TypeOK
    /\ part = "entity_vectors" => EntityVectors!TypeOK
    /\ part = "certainty" => Certainty!TypeOK
    /\ part = "endpoints" => Ends!TypeOK
    /\ part = "spans" => Spans!TypeOK
    /\ part = "kinds" => Typing!TypeOK
    /\ part = "bounded" => Bounded!TypeOK
    /\ part = "tree" => Tree!TypeOK
    /\ part = "themes" => Theming!TypeOK
    /\ part = "swaps" => Swapping!TypeOK
    /\ part = "cuts" => Cutting!TypeOK
    /\ part = "pack" => Packing!TypeOK
    /\ part = "merit" => Direct!TypeOK
    /\ part = "walk" => Walk!TypeOK
    /\ part = "lane" => Lane!TypeOK
    /\ part = "sources" => Sources!TypeOK
    /\ part = "study" => Study!TypeOK
    /\ part = "triples" => Triples!TypeOK
    /\ part = "profiles" => Profiling!TypeOK
    /\ part = "growth" => Growth!TypeOK
    /\ part = "insight" => Observing!TypeOK
    /\ part = "reuse" => Reuse!TypeOK
    /\ part = "faults" => Faulty!TypeOK
    /\ part = "two" => Twice!TypeOK

\* What the graph says stays true under concurrent projections and rewrites:
\* one current fact of a slot, history that only closes, no claim lost to a merge
\* that has read it (and none at all to one that runs alone), vectors that follow
\* their facts, profiles, generations and observations that stand on what was
\* read.
GraphKeeps ==
    /\ [](/\ part = "history" => History!SingleCurrent
          /\ part = "contested" => Contested!RefutedStaysOut
          /\ part = "fact_vectors" => /\ FactVectors!VectorIsClaims
                                      /\ FactVectors!CurrentProjected
                                      /\ FactVectors!ClosedLeaves
          /\ part = "entity_vectors" => EntityVectors!MergedIsGlobal
          /\ part = "profiles" => Profiling!DirtyCovers
          /\ part = "growth" => /\ Growth!GrowthNotConsumed
                                /\ Growth!HandOversPaid
          /\ part = "insight" => Observing!ClaimedOnce)
    /\ [][(/\ part = "history" => History!HistoryOnlyCloses
           /\ part = "merge" => ReadFactsKeptStep
           /\ part = "merge_alone" => MergingAlone!HistoryKeptStep
           /\ part = "profiles" => Profiling!ProfilesAdvance
           /\ part = "insight" => Observing!Unsuppressed)]_vars

\* Extraction overstates nothing and loses nothing: certainty and ends of a
\* relation are those of the quoted text, windows meet, a source is proposed
\* whole, and summaries are claimed once.  The stored themes are one generation
\* where transactions serialize; at READ COMMITTED swaps that overlap leave one
\* generation each at most, and the next that runs alone leaves one.
ExtractionKeeps ==
    /\ [](/\ part = "certainty" => Certainty!NothingOverstated
          /\ part = "endpoints" => /\ Ends!EndpointsWritten
                                   /\ Ends!NoSelfRelation
                                   /\ Ends!AuditExplains
          /\ part = "spans" => /\ Spans!NeighboursMeet
                               /\ Spans!StrongestKept
                               /\ Spans!QuoteNamesEnds
                               /\ Spans!EndsAreEntities
          /\ part = "kinds" => Typing!SurestType
          /\ part = "bounded" => Bounded!Whole
          /\ part = "tree" => /\ Tree!OneClaimEach
                              /\ Tree!EdgesClaimed
                              /\ Tree!EverythingRises
          /\ part = "themes" => Theming!OneGeneration
          /\ part = "swaps" => Swapping!GenerationsBounded
          /\ part = "cuts" => Cutting!Readable)
    /\ [][(/\ part = "bounded" => Bounded!NeverTheSame
           /\ part = "tree" => Tree!LevelsShrink
           /\ part = "themes" => /\ Theming!UnmovedKeepsSummary
                                 /\ Theming!AbandonKeeps
           /\ part = "swaps" => /\ Swapping!AloneLeavesOne
                                /\ Swapping!AbandonKeeps)]_vars

\* Recall ranks every row, stays in budget, says what it dropped, and walks and
\* fuses without amplifying, flooding or crowding out.
RetrievalKeeps ==
    /\ [](/\ part = "pack" => /\ Packing!EveryRowRanked
                              /\ Packing!WithinBudget
                              /\ Packing!DroppedIsSpokenFor
                              /\ Packing!MeritIsOfferedFirst
                              /\ Packing!TraceAgrees
          /\ part = "merit" => /\ Direct!EveryRowRanked
                               /\ Direct!DroppedIsSpokenFor
                               /\ Direct!TraceAgrees
          /\ part = "walk" => /\ Walk!MentionsDecide
                              /\ Walk!EachStatementOnce
          /\ part = "lane" => Lane!FirstStaysFirst
          /\ part = "sources" => /\ Sources!PaidOutOfSlack
                                 /\ Sources!NamedSourceLeads
                                 /\ Sources!NoDocumentFloods
                                 /\ Sources!CopiesDoNotCrowd)
    /\ [][(/\ part = "pack" => Packing!StrengthensOnlyTheShown
           /\ part = "walk" => Walk!HopNeverAmplifies)]_vars

\* A study pairs its arms and restores its settings, credits nothing twice, and
\* a benchmark answers from its whole corpus and purges only what nobody keeps.
EvaluationKeeps ==
    /\ [](/\ part = "study" => /\ Study!ProbesNeedBoth
                               /\ Study!SettingsRestored
                               /\ Study!ArmsPaired
                               /\ Study!OneCreditEach
          /\ part = "triples" => /\ Triples!HonestMatches
                                 /\ Triples!FailureCosts
                                 /\ Triples!RatiosAreRatios
          /\ part = "reuse" => Reuse!AnswersSeeWholeCorpus
          /\ part = "faults" => /\ Faulty!AnswersSeeWholeCorpus
                                /\ Faulty!PublishableIsSound)
    /\ [][(/\ part = "reuse" => /\ Reuse!LeavesNothing
                                /\ Reuse!PurgesOnlyTheUnkept
           /\ part = "two" => Twice!PurgesOnlyTheUnkept)]_vars

-----------------------------------------------------------------------------
(***************************************************************************)
(* Progress.  A job's next step is taken, a cron fires and a run goes on:     *)
(* these are weakly fair.  An advisory lock comes to whoever waits for it,    *)
(* and a pass that is retried completes now and then: the properties that     *)
(* need that ask for it.                                                      *)
(***************************************************************************)
ContendingFairness ==
    \A j \in {"j1", "j2"} :
      WF_vars(ContendingRest /\ (\/ Contending!Prepare(j) \/ Contending!Plan(j)
                                 \/ Contending!Abandon(j) \/ Contending!Apply(j)))

MergingFairness ==
    \A s \in {"s1", "s2"} :
      WF_vars(MergingRest /\ (Write(s) \/ Look(s) \/ Apply(s)))

MixingFairness ==
    /\ \A f \in {"f1", "f2"} : WF_vars(MixingRest /\ Mixing!BumpMany(f))
    /\ \A p \in {"daily", "other", "third"} : WF_vars(MixingRest /\ Mixing!BeginDirty(p))

GrowthFairness ==
    /\ WF_vars(GrowthRest /\ Growth!CronFires)
    /\ WF_vars(GrowthRest /\ Growth!SwapCommunities)
    /\ WF_vars(GrowthRest /\ Growth!SwapTree)
    /\ WF_vars(GrowthRest /\ Growth!HandOver)
    /\ \A j \in Growth!Job : WF_vars(GrowthRest /\ Growth!JobStep(j))

FaultyFairness == WF_vars(FaultyRest /\ Faulty!Works("r1"))

LiveSpec ==
    Spec /\ ContendingFairness /\ MergingFairness /\ MixingFairness /\ GrowthFairness
    /\ FaultyFairness

\* PostgreSQL queues the advisory locks of a slot's writers.
SlotIsGranted == \A j \in {"j1", "j2"} : SF_vars(ContendingRest /\ Contending!Lock(j))

\* However writers of one slot abandon each other's rounds, each projection
\* ends: written, given up with its chunk, or retained as failed.
ProjectionsSettle ==
    SlotIsGranted =>
      \A j \in {"j1", "j2"} :
        (part = "settles" /\ Contending!Awaits(j)) ~> (part = "settles" /\ Contending!HasSettled(j))

\* The passes converge: a scope set with two entities of one name has one in
\* the end, whatever the passes of the others merged meanwhile.
DuplicatesMerge ==
    \A s \in {"s1", "s2"} :
      (part = "merge" /\ Doubled(s)) ~> (part = "merge" /\ ~Doubled(s))

\* A pass whose model call failed or whose worker died is run again, and one
\* of its runs completes.
PassesComplete ==
    \A p \in {"daily", "other", "third"} : SF_vars(MixingRest /\ Mixing!Finish(p))

\* A fact whose chunk is bumped is in the profile of its entities at some time,
\* or is closed, though a rebuild with an older snapshot may overwrite it later.
ReachesProfile ==
    PassesComplete =>
      \A f \in {"f1", "f2"}, e \in {"e1", "e2"} :
        <>(part = "mixed" /\ Mixing!Bumped(f, e)) => <>(part = "mixed" /\ Mixing!Reflected(f, e))

\* Growth past the threshold is rebuilt from, or a smaller tree took it back,
\* unless the pass is retained as failed.
GrowthRebuilds ==
    (part = "growth" /\ Growth!Overgrown) ~> (part = "growth" /\ ~Growth!Overgrown)

\* A run that began ends, with answers or without, whatever faults it met.
BenchmarkEnds ==
    (part = "faults" /\ Faulty!HasBegun("r1")) ~> (part = "faults" /\ Faulty!IsOver("r1"))

\* What was begun comes to its end: projections, merges, profiles, the rebuild
\* of what has grown, and benchmark runs.
MemoryProceeds ==
    ProjectionsSettle /\ DuplicatesMerge /\ ReachesProfile /\ GrowthRebuilds /\ BenchmarkEnds
=============================================================================
