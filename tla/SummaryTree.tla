---------------------------- MODULE SummaryTree -----------------------------
(***************************************************************************)
(* The recursive tree of summaries RAPTOR plans over the communities of    *)
(* one scope set (src/aizk/graph/raptor.py): level by level the nodes are  *)
(* grouped by similarity and each group is summarized by a model, several  *)
(* groups at a time, while all of them stage into the same builder.        *)
(*                                                                         *)
(* A summary entity is identified by its label, which a model writes, so   *)
(* two summaries of any levels may be one entity.                          *)
(***************************************************************************)
EXTENDS Naturals, Sequences, FiniteSets, FiniteSetsExt, SequencesExt

CONSTANTS
    Labels,       \* labels, already folded to an entity identity
    Meanings,     \* embeddings of summaries; equal ones are near-duplicates
    Leaves,       \* what the communities may be: sequences of labels, biggest first
    BranchFactor, Concurrency, RootMax,
    MaxLevels     \* raptor_max_levels

Branching == BranchFactor >= 2 /\ Concurrency >= 1 /\ RootMax >= 1

VARIABLES
    phase,     \* "leaves", "climb", "level", "done" or "failed"
    nodes,     \* the nodes of the current level, a sequence of labels
    level,
    groups,    \* the groups of this level still to be summarized, each a sequence
    batch,     \* positions of the groups that are being summarized now
    summary,   \* the parent each of them got, "" until it has one
    parents,   \* parents staged on this level, with the meaning of their summaries
    next,      \* the nodes of the level above
    claims,    \* staged claims in order: [label, level]
    edges      \* staged part_of edges in order: <<child, parent>>

vars == <<phase, nodes, level, groups, batch, summary, parents, next, claims, edges>>

Staged == {claims[i].label : i \in DOMAIN claims}
Edges == Range(edges)

TypeOK ==
    /\ phase \in {"leaves", "climb", "level", "done", "failed"}
    /\ Range(nodes) \cup Range(next) \subseteq Labels
    /\ level \in 1..(MaxLevels + 1)
    /\ batch \subseteq DOMAIN groups
    /\ DOMAIN summary = batch
    /\ \A i \in DOMAIN claims : claims[i].label \in Labels /\ claims[i].level \in 0..MaxLevels
    /\ Edges \subseteq Labels \X Labels

-----------------------------------------------------------------------------
Init ==
    /\ phase = "leaves"
    /\ nodes \in Leaves
    /\ level = 1
    /\ groups = <<>> /\ batch = {} /\ summary = <<>>
    /\ parents = <<>> /\ next = <<>> /\ claims = <<>> /\ edges = <<>>

\* The first staging of an identity wins; later ones reuse it.
Stage(label, at) ==
    IF label \in Staged THEN claims ELSE Append(claims, [label |-> label, level |-> at])

\* One leaf per distinct label, the biggest theme first; fewer than two
\* communities are nothing to roll up.
StageLeaves ==
    /\ phase = "leaves"
    /\ nodes' = IF Len(nodes) < 2 THEN <<>>
                ELSE FoldLeft(LAMBDA seen, label :
                         IF label \in Range(seen) THEN seen ELSE Append(seen, label), <<>>, nodes)
    /\ claims' = [i \in DOMAIN nodes' |-> [label |-> nodes'[i], level |-> 0]]
    /\ phase' = "climb"
    /\ UNCHANGED <<level, groups, batch, summary, parents, next, edges>>

\* Modularity partitions the positions; each part is cut into branches.
Branches(part) ==
    [k \in 1..((Len(part) + BranchFactor - 1) \div BranchFactor) |->
        SubSeq(part, (k - 1) * BranchFactor + 1, Min({k * BranchFactor, Len(part)}))]

Positions(set) == SetToSortSeq(set, <)
Partitions(set) == {p \in SUBSET (SUBSET set \ {{}}) :
    UNION p = set /\ \A a, b \in p : a # b => a \cap b = {}}
Cut(partition) ==
    FlattenSeq([i \in DOMAIN partition |-> Branches(Positions(partition[i]))])
Ordered(partition) == SetToSortSeq(partition, LAMBDA a, b : Min(a) < Min(b))

NoProgress(partition) == Len(Cut(Ordered(partition))) >= Len(nodes)

\* The climb ends at few enough roots, at the last level, or without progress.
Climb ==
    /\ phase = "climb"
    /\ IF Len(nodes) > RootMax /\ level <= MaxLevels
       THEN \E partition \in Partitions(DOMAIN nodes) :
              IF NoProgress(partition)
              THEN phase' = "done" /\ UNCHANGED groups
              ELSE /\ phase' = "level"
                   /\ groups' = [g \in DOMAIN Cut(Ordered(partition)) |->
                         [m \in DOMAIN Cut(Ordered(partition))[g] |->
                             nodes[Cut(Ordered(partition))[g][m]]]]
       ELSE phase' = "done" /\ UNCHANGED groups
    /\ UNCHANGED <<nodes, level, batch, summary, parents, next, claims, edges>>

\* The next groups go to the model together; one of a single member skips it.
StartBatch ==
    /\ phase = "level" /\ batch = {} /\ groups # <<>>
    /\ batch' = 1..Min({Concurrency, Len(groups)})
    /\ summary' = [g \in batch' |-> IF Len(groups[g]) = 1 THEN groups[g][1] ELSE ""]
    /\ UNCHANGED <<phase, nodes, level, groups, parents, next, claims, edges>>

\* Edges to the parent, but none of an entity to itself and none twice.
Connect(members, parent) ==
    FoldLeft(LAMBDA staged, child :
        IF child = parent \/ <<child, parent>> \in Range(staged) THEN staged
        ELSE Append(staged, <<child, parent>>), edges, members)

\* The summary of one group comes back.  A near-duplicate of a parent of this
\* level reuses it, whatever label the model wrote.
Summarize(g, label, meaning) ==
    /\ phase = "level" /\ g \in batch /\ summary[g] = ""
    /\ LET twins  == {i \in DOMAIN parents : parents[i].meaning = meaning}
           parent == IF twins = {} THEN label ELSE parents[Min(twins)].label
       IN /\ summary' = [summary EXCEPT ![g] = parent]
          /\ claims' = IF twins = {} THEN Stage(label, level) ELSE claims
          /\ parents' = IF twins = {} THEN Append(parents, [label |-> label, meaning |-> meaning])
                                      ELSE parents
          /\ edges' = Connect(groups[g], parent)
    /\ UNCHANGED <<phase, nodes, level, groups, batch, next>>

\* The whole batch is back: its parents rise in order, each identity once.
EndBatch ==
    /\ phase = "level" /\ batch # {} /\ \A g \in batch : summary[g] # ""
    /\ next' = FoldLeft(LAMBDA rising, parent :
                   IF parent \in Range(rising) THEN rising ELSE Append(rising, parent),
                   next, [g \in batch |-> summary[g]])
    /\ groups' = SubSeq(groups, Cardinality(batch) + 1, Len(groups))
    /\ batch' = {} /\ summary' = <<>>
    /\ UNCHANGED <<phase, nodes, level, parents, claims, edges>>

EndLevel ==
    /\ phase = "level" /\ batch = {} /\ groups = <<>>
    /\ phase' = "climb"
    /\ nodes' = next /\ level' = level + 1
    /\ next' = <<>> /\ parents' = <<>>
    /\ UNCHANGED <<groups, batch, summary, claims, edges>>

\* A refused model call ends the build before anything is replaced.
Refused ==
    /\ phase = "level" /\ \E g \in batch : summary[g] = ""
    /\ phase' = "failed"
    /\ UNCHANGED <<nodes, level, groups, batch, summary, parents, next, claims, edges>>

Step ==
    \/ StageLeaves
    \/ Climb
    \/ StartBatch
    \/ EndBatch
    \/ EndLevel
    \/ \E g \in batch, label \in Labels, meaning \in Meanings : Summarize(g, label, meaning)
    \/ Refused

Done == phase \in {"done", "failed"} /\ UNCHANGED vars

Next == Step \/ Done
Spec == Init /\ [][Next]_vars

-----------------------------------------------------------------------------
(* One claim of one summary: the unique index on (content, scopes) cannot  *)
(* refuse the generation, whichever labels collide on whichever levels.    *)
OneClaimEach == Len(claims) = Cardinality(Staged)

(* One live edge of one pair, never of an entity with itself, and only     *)
(* between entities this generation claims.                                *)
EdgesClaimed ==
    /\ Len(edges) = Cardinality(Edges)
    /\ \A e \in Edges : e[1] # e[2] /\ {e[1], e[2]} \subseteq Staged

Above(label) ==
    LET Up[n \in Nat] == IF n = 0 THEN {label}
                         ELSE Up[n - 1] \cup {e[2] : e \in {x \in Edges : x[1] \in Up[n - 1]}}
    IN Up[Cardinality(Labels)]

(* No theme is lost on the way: between two levels every summary staged so *)
(* far reaches a node that rises, and no node rises twice.                 *)
EverythingRises ==
    phase \in {"climb", "done"} =>
        /\ \A label \in Staged : Above(label) \cap Range(nodes) # {}
        /\ IsInjective(nodes)

(* Every level has fewer nodes than the one below, so the climb ends.      *)
LevelsShrink == level' # level => Len(nodes') < Len(nodes)
=============================================================================
