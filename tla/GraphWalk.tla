------------------------------ MODULE GraphWalk ------------------------------
(***************************************************************************)
(* The fact lane of the find statement: dense seeds, their one-hop         *)
(* neighbours, and personalised PageRank mass diffused from the query's    *)
(* entities over the live facts (live_fact.py, namespaces.py), merged by   *)
(* rank (lanes/facts.py).                                                  *)
(*                                                                         *)
(* Distances and recency are data: which facts are dense, in what order,   *)
(* and which entities are named or near, is chosen freely; otherwise a     *)
(* smaller number is nearer.  The damping is one half.                     *)
(***************************************************************************)
EXTENDS Integers, FiniteSets, Sequences, SequencesExt, FiniteSetsExt, TLC

CONSTANTS
    Entities, FactIds,   \* entities and live fact claims, numbered
    Shapes,              \* the <<subject, object>> a fact may have, object 0 for none
    Statements,          \* the statement (of one perspective) of each fact
    Mention, Near, Endpoint,   \* seed weights: graph_mention_mass and the fallbacks,
                               \* multiples of every divisor the hops use
    Frontier, Window,    \* graph_ppr_frontier, graph_mass_window
    Hops, K, FactsK, Limit     \* multihop_max_hops, k, graph_facts_k, k * fact_candidate_factor

None == 0

VARIABLES pc, facts, dense, named, hop, previous, spread, mass, parts, lane

vars == <<pc, facts, dense, named, hop, previous, spread, mass, parts, lane>>

Subject(f) == facts[f][1]
Object(f) == facts[f][2]
Touches(f, e) == e \in {Subject(f), Object(f)} \ {None}

Total(m) == MapThenSumSet(LAMBDA e : m[e], DOMAIN m)

DenseChoices == {s \in BoundedSeq(FactIds, K) : IsInjective(s)}

Init ==
    /\ pc = "seed" /\ facts \in [FactIds -> Shapes] /\ dense \in DenseChoices
    /\ named \in {{}} \cup {{e} : e \in Entities} /\ hop = 0
    /\ previous = <<>> /\ spread = <<>> /\ mass = <<>> /\ parts = <<>> /\ lane = <<>>

-----------------------------------------------------------------------------
\* Entity.seed_mass: mentions decide, and only without them do the nearest
\* entities and the endpoints of the dense facts seed the walk.
Fallback(near) ==
    [e \in near \cup {x \in Entities : \E n \in 1..Len(dense) : Touches(dense[n], x)} |->
        (IF e \in near THEN Near ELSE 0)
        + Endpoint * MapThenSumSet(LAMBDA n : (IF Subject(dense[n]) = e THEN 1 ELSE 0)
                                              + (IF Object(dense[n]) = e THEN 1 ELSE 0),
                                   1..Len(dense))]

Seed ==
    /\ pc = "seed" /\ pc' = "hop"
    /\ IF named # {} THEN previous' = [e \in named |-> Mention]
       ELSE \E near \in {{}} \cup {{e} : e \in Entities} : previous' = Fallback(near)
    /\ spread' = previous'
    /\ UNCHANGED <<facts, dense, named, hop, mass, parts, lane>>

\* ORDER BY mass DESC LIMIT n: any n of the heaviest.
Heaviest(m, n) ==
    {F \in SUBSET (DOMAIN m) :
        /\ Cardinality(F) = Min({n, Cardinality(DOMAIN m)})
        /\ \A e \in F, x \in DOMAIN m \ F : m[e] >= m[x]}

\* Both directions of every fact between two entities, counted.
Edges(a, b) ==
    Cardinality({f \in FactIds : Subject(f) = a /\ Object(f) = b})
    + Cardinality({f \in FactIds : Object(f) = a /\ Subject(f) = b})

Degree(a) == MapThenSumSet(LAMBDA b : Edges(a, b), Entities)

Diffuse ==   \* one hop from the heaviest of the frontier
    /\ pc = "hop" /\ hop < Hops /\ hop' = hop + 1
    /\ \E F \in Heaviest(previous, Frontier) :
         previous' = [b \in {x \in Entities : \E a \in F : Edges(a, x) > 0} |->
                        MapThenSumSet(LAMBDA a : (previous[a] * Edges(a, b))
                                                 \div (2 * Max({1, Degree(a)})), F)]
    /\ spread' = [e \in DOMAIN spread \cup DOMAIN previous' |->
                    (IF e \in DOMAIN spread THEN spread[e] ELSE 0)
                    + (IF e \in DOMAIN previous' THEN previous'[e] ELSE 0)]
    /\ UNCHANGED <<pc, facts, dense, named, mass, parts, lane>>

Diffused ==   \* entity_mass, cut to the mass window
    /\ pc = "hop" /\ hop = Hops /\ pc' = "parts"
    /\ \E W \in Heaviest(spread, Window) : mass' = [e \in W |-> spread[e]]
    /\ UNCHANGED <<facts, dense, named, hop, previous, spread, parts, lane>>

-----------------------------------------------------------------------------
Cut(s, n) == SubSeq(s, 1, Min({n, Len(s)}))

Neighbors ==
    LET seeds == {e \in Entities : \E n \in 1..Len(dense) : Touches(dense[n], e)}
    IN Cut(SetToSortSeq({f \in FactIds \ ToSet(dense) : \E e \in seeds : Touches(f, e)}, <), K)

\* The weaker endpoint; an object with no mass, or no object, dangles at a
\* half of the subject's (graph_dangling_factor).
Connection(f) ==
    LET s == mass[Subject(f)]
        o == IF Object(f) \in DOMAIN mass THEN mass[Object(f)] ELSE s \div 2
    IN Min({s, o})

Connected ==
    Cut(SetToSortSeq({f \in FactIds : Subject(f) \in DOMAIN mass},
                     LAMBDA f, g : Connection(f) > Connection(g)
                                   \/ (Connection(f) = Connection(g) /\ f < g)), FactsK)

Parts ==
    /\ pc = "parts" /\ pc' = "merge"
    /\ parts' = <<dense, Neighbors, Connected>>
    /\ UNCHANGED <<facts, dense, named, hop, previous, spread, mass, lane>>

Ranks(f) == {n \in 1..Len(dense) + Cardinality(FactIds) :
                \E p \in 1..Len(parts) : n <= Len(parts[p]) /\ parts[p][n] = f}

Candidates == {f \in FactIds : Ranks(f) # {}}

Rank(f) == Min(Ranks(f))

Earlier(f, g) == Rank(f) < Rank(g) \/ (Rank(f) = Rank(g) /\ f < g)

FirstOfEach ==
    {f \in Candidates : ~ \E g \in Candidates : Statements[g] = Statements[f] /\ Earlier(g, f)}

Merge ==
    /\ pc = "merge" /\ pc' = "done"
    /\ lane' = Cut(SetToSortSeq(FirstOfEach, Earlier), Limit)
    /\ UNCHANGED <<facts, dense, named, hop, previous, spread, mass, parts>>

Next == Seed \/ Diffuse \/ Diffused \/ Parts \/ Merge

Spec == Init /\ [][Next]_vars

-----------------------------------------------------------------------------
Adjacent(a, b) == Edges(a, b) > 0
Reach[n \in 0..Hops] ==
    IF n = 0 THEN named
    ELSE Reach[n - 1] \cup {b \in Entities : \E a \in Reach[n - 1] : Adjacent(a, b)}

TypeOK ==
    /\ pc \in {"seed", "hop", "parts", "merge", "done"} /\ hop \in 0..Hops
    /\ DOMAIN previous \subseteq Entities /\ DOMAIN mass \subseteq DOMAIN spread
    /\ Cardinality(DOMAIN mass) <= Window /\ Len(lane) <= Limit
    /\ \A e \in DOMAIN previous : previous[e] > 0

\* A hop hands on no more than the damped half of the mass it started from,
\* whatever the number of parallel facts and loops: no entity manufactures
\* standing (LiveFact.diffused, degree_scale).
HopNeverAmplifies == hop' # hop => 2 * Total(previous') <= Total(previous)

\* When the query names an entity, mass comes from the mentions alone: what
\* has mass is within the hops of what was named (Entity.seed_mass).
MentionsDecide ==
    named # {} => \A e \in DOMAIN spread : e \in Reach[hop]

\* What a part ranks first comes out among the first rows of the lane, itself
\* or as another claim of its statement, however poorly the other parts rank
\* it (FactLane.merged).
FirstStaysFirst ==
    pc = "done" =>
        \A p \in 1..Len(parts) : parts[p] # <<>> =>
            \E n \in 1..Min({Len(parts), Len(lane)}) :
                Statements[lane[n]] = Statements[parts[p][1]]

\* One row for each statement, and a statement of any part is missing only
\* from a full lane.
EachStatementOnce ==
    pc = "done" =>
        /\ \A i, j \in 1..Len(lane) : Statements[lane[i]] = Statements[lane[j]] => i = j
        /\ Len(lane) < Limit =>
             \A f \in Candidates : \E n \in 1..Len(lane) : Statements[lane[n]] = Statements[f]
=============================================================================
