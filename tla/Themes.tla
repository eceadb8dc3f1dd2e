------------------------------- MODULE Themes -------------------------------
(***************************************************************************)
(* How the community pass cuts one scope's entity graph into themes,       *)
(* summarizes them and swaps the stored generation                         *)
(* (src/aizk/graph/communities.py).  The scheduled job and the operator's  *)
(* `admin graph communities` may build the same scope at once; snapshot,   *)
(* model calls and swap are in different transactions.                     *)
(*                                                                         *)
(* Louvain is any partition of the cluster it is given.  A row is its      *)
(* members, who wrote its summary, and the build that stored it.           *)
(***************************************************************************)
EXTENDS Naturals, Sequences, FiniteSets, FiniteSetsExt, SequencesExt

CONSTANTS
    Builders,        \* the job and the operator's command
    Graphs,          \* the entity sets the live facts may connect
    MaxSize, MinSize, MaxDepth,
    FailNum, FailDen,\* community_summary_failure_ratio as a fraction
    Serializable,    \* CockroachDB's isolation; PostgreSQL runs READ COMMITTED
    MaxBuilds        \* bound: builds of this scope

VARIABLES
    stored,      \* the community rows of the scope
    pc,          \* where each builder is
    build,       \* the number of its build
    held,        \* the rows its snapshot read
    graph,       \* the entities its snapshot read
    pending,     \* clusters still to be cut: [members, depth], in order
    leaves,      \* clusters that stay
    whole,       \* of those, the ones Louvain returned whole or depth kept
    drafts,      \* theme |-> [text, degraded]
    deleting,    \* the rows its swap deletes
    builds       \* builds begun

vars == <<stored, pc, build, held, graph, pending, leaves, whole, drafts, deleting, builds>>
detection == <<held, graph, pending, leaves, whole>>

Texts == {"written", "roster"}
Rows == [members : SUBSET UNION Graphs, text : Texts, by : 1..MaxBuilds]

TypeOK ==
    /\ stored \subseteq Rows
    /\ pc \in [Builders -> {"idle", "cutting", "asking", "checking", "swapping", "deleted"}]
    /\ build \in [Builders -> 0..MaxBuilds] /\ builds \in 0..MaxBuilds
    /\ \A b \in Builders :
          /\ held[b] \cup deleting[b] \subseteq Rows
          /\ graph[b] \in Graphs \cup {{}}
          /\ whole[b] \subseteq leaves[b]
          /\ UNION leaves[b] \subseteq graph[b]

Init ==
    /\ stored = {}
    /\ pc = [b \in Builders |-> "idle"]
    /\ build = [b \in Builders |-> 0]
    /\ held = [b \in Builders |-> {}]
    /\ graph = [b \in Builders |-> {}]
    /\ pending = [b \in Builders |-> <<>>]
    /\ leaves = [b \in Builders |-> {}]
    /\ whole = [b \in Builders |-> {}]
    /\ drafts = [b \in Builders |-> <<>>]
    /\ deleting = [b \in Builders |-> {}]
    /\ builds = 0

At(b, here, next) == pc[b] = here /\ pc' = [pc EXCEPT ![b] = next]

\* A build that ends leaves nothing of its detector and drafts.
Ends(b) ==
    /\ pc' = [pc EXCEPT ![b] = "idle"]
    /\ held' = [held EXCEPT ![b] = {}]
    /\ graph' = [graph EXCEPT ![b] = {}]
    /\ pending' = [pending EXCEPT ![b] = <<>>]
    /\ leaves' = [leaves EXCEPT ![b] = {}]
    /\ whole' = [whole EXCEPT ![b] = {}]
    /\ drafts' = [drafts EXCEPT ![b] = <<>>]
    /\ deleting' = [deleting EXCEPT ![b] = {}]

Louvain(set) == {p \in SUBSET ((SUBSET set) \ {{}}) :
    UNION p = set /\ \A x, y \in p : x # y => x \cap y = {}}

Queued(partition, depth) ==
    LET clusters == SetToSeq(partition)
    IN [i \in DOMAIN clusters |-> [members |-> clusters[i], depth |-> depth]]

\* One transaction reads the live facts and the stored generation; the first
\* pass cuts the whole graph.
Snapshot(b) ==
    /\ At(b, "idle", "cutting")
    /\ builds < MaxBuilds
    /\ builds' = builds + 1
    /\ build' = [build EXCEPT ![b] = builds']
    /\ held' = [held EXCEPT ![b] = stored]
    /\ \E g \in Graphs : \E p \in Louvain(g) :
          /\ graph' = [graph EXCEPT ![b] = g]
          /\ pending' = [pending EXCEPT ![b] = Queued(p, 0)]
    /\ UNCHANGED <<stored, leaves, whole, drafts, deleting>>

\* A cluster that is too large is cut again, unless it is the whole graph, which
\* the first pass just cut, or deep enough.
Refines(b, cluster) ==
    /\ Cardinality(cluster.members) > MaxSize
    /\ cluster.depth < MaxDepth
    /\ ~ (cluster.depth = 0 /\ cluster.members = graph[b])

\* One returned whole stays as it is.
Cut(b) ==
    /\ pc[b] = "cutting" /\ pending[b] # <<>>
    /\ LET cluster == Head(pending[b]) IN
       \E p \in IF Refines(b, cluster) THEN Louvain(cluster.members) ELSE {{}} :
          IF Cardinality(p) > 1
          THEN /\ pending' = [pending EXCEPT ![b] = Tail(@) \o Queued(p, cluster.depth + 1)]
               /\ UNCHANGED <<leaves, whole>>
          ELSE /\ pending' = [pending EXCEPT ![b] = Tail(@)]
               /\ leaves' = [leaves EXCEPT ![b] = @ \cup {cluster.members}]
               /\ whole' = [whole EXCEPT ![b] = IF p # {} \/ cluster.depth = MaxDepth
                                                   \/ cluster.members = graph[b]
                                                THEN @ \cup {cluster.members} ELSE @]
    /\ UNCHANGED <<stored, pc, build, held, graph, drafts, deleting, builds>>

Detected(b) ==
    /\ pending[b] = <<>>
    /\ At(b, "cutting", "asking")
    /\ UNCHANGED <<stored, build, detection, drafts, deleting, builds>>

Clusters(b) == {cluster \in leaves[b] : Cardinality(cluster) >= MinSize}

\* The stored theme of exactly these members.
Carried(b, cluster) == {row \in held[b] : row.members = cluster}

\* A changed theme is summarized, or named from its roster when the call fails; an
\* unchanged one keeps its summary.
Ask(b) ==
    /\ At(b, "asking", "checking")
    /\ \E failed \in SUBSET {c \in Clusters(b) : Carried(b, c) = {}} :
         drafts' = [drafts EXCEPT ![b] = [c \in Clusters(b) |->
            IF Carried(b, c) # {}
            THEN [text |-> (CHOOSE row \in Carried(b, c) : TRUE).text, degraded |-> FALSE]
            ELSE IF c \in failed THEN [text |-> "roster", degraded |-> TRUE]
                                 ELSE [text |-> "written", degraded |-> FALSE]]]
    /\ UNCHANGED <<stored, build, detection, deleting, builds>>

Degraded(b) == {c \in DOMAIN drafts[b] : drafts[b][c].degraded}

TooManyFailed(b) ==
    Cardinality(Degraded(b)) * FailDen > Cardinality(DOMAIN drafts[b]) * FailNum

\* Too many failures abandon the generation; so does a failed embedding call.
Check(b) ==
    /\ pc[b] = "checking"
    /\ \/ /\ ~ TooManyFailed(b) /\ At(b, "checking", "swapping")
          /\ UNCHANGED <<detection, drafts, deleting>>
       \/ Ends(b)
    /\ UNCHANGED <<stored, build, builds>>

\* The swap deletes the rows its statement sees,
Delete(b) ==
    /\ At(b, "swapping", "deleted")
    /\ deleting' = [deleting EXCEPT ![b] = stored]
    /\ UNCHANGED <<stored, build, detection, drafts, builds>>

Fresh(b) == {[members |-> c, text |-> drafts[b][c].text, by |-> build[b]] : c \in DOMAIN drafts[b]}

\* Mutant: the old generation is left beside the new one.
MutantAppends(b) ==
    /\ pc[b] = "deleted" /\ Ends(b)
    /\ stored' = stored \cup Fresh(b)
    /\ UNCHANGED <<build, builds>>

\* ... adds the new ones and commits.  A serializable database refuses a swap
\* whose scope changed in between.
Commit(b) ==
    /\ pc[b] = "deleted" /\ Ends(b)
    /\ stored' = IF Serializable /\ deleting[b] # stored THEN stored
                 ELSE (stored \ deleting[b]) \cup Fresh(b)
    /\ UNCHANGED <<build, builds>>

\* The process dies, or a snapshot or a swap is refused: nothing was written.
Fail(b) ==
    /\ pc[b] # "idle" /\ Ends(b)
    /\ UNCHANGED <<stored, build, builds>>

Next == \E b \in Builders :
    \/ Snapshot(b)
    \/ Cut(b)
    \/ Detected(b)
    \/ Ask(b)
    \/ Check(b)
    \/ Delete(b)
    \/ Commit(b)
    \/ Fail(b)

Spec == Init /\ [][Next]_vars

-----------------------------------------------------------------------------
(* The themes of a scope are one generation: rows of one build only, which *)
(* share no entity.  communities.md:95, "Storage is a generation swap", on *)
(* a serializable database; READ COMMITTED keeps the two that follow.      *)
Generations(rows) == {row.by : row \in rows}
OneGeneration ==
    /\ Cardinality(Generations(stored)) <= 1
    /\ \A x, y \in stored : x # y => x.members \cap y.members = {}

(* Swaps that overlap do not see each other's rows: each may leave its     *)
(* generation, and no more than one of each builder, however many builds   *)
(* there are.                                                              *)
GenerationsBounded == Cardinality(Generations(stored)) <= Cardinality(Builders)

(* A swap that overlaps no other puts that right, whatever it finds: it    *)
(* leaves its own generation only.                                         *)
AloneLeavesOne ==
    \A b \in Builders :
       pc[b] = "deleted" /\ pc'[b] = "idle" /\ deleting[b] = stored /\ stored' # stored =>
          Generations(stored') = {build[b]}

(* A stored theme is readable: it is no larger than the bound, unless      *)
(* Louvain had nothing to cut or the depth guard ended the refinement.     *)
Readable ==
    \A b \in Builders : pc[b] \notin {"idle", "cutting"} =>
        \A c \in Clusters(b) : Cardinality(c) \in MinSize..MaxSize \/ c \in whole[b]

(* A theme whose members did not move keeps its summary, whatever else was *)
(* cut anew around it, in a build that replaces the generation it read.    *)
UnmovedKeepsSummary ==
    \A b \in Builders :
       pc[b] = "deleted" /\ held[b] = stored /\ stored' # stored =>
          \A old \in stored, new \in stored' :
              old.members = new.members => old.text = new.text

(* A run in which too many summaries failed leaves the generation standing. *)
AbandonKeeps ==
    stored' # stored =>
      \E b \in Builders :
         LET mine == {row \in stored' : row.by = build[b]} IN
         /\ pc[b] = "deleted"
         /\ Cardinality({row \in mine : row.text = "roster"
                /\ \A old \in held[b] : old.members # row.members}) * FailDen
               <= Cardinality(mine) * FailNum
=============================================================================
