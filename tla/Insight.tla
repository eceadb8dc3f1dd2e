------------------------------ MODULE Insight ------------------------------
(***************************************************************************)
(* The insight pass of a scope set (src/aizk/graph/insight.py): it grounds *)
(* on the live facts in one transaction, asks the model, and writes the    *)
(* significant observations as facts in another, each under an identity    *)
(* made of its statement.  Decay archives observations as it does facts.   *)
(* Two passes of a scope overlap when a stalled worker's job is reclaimed. *)
(***************************************************************************)
EXTENDS Naturals, FiniteSets, FiniteSetsExt

CONSTANTS
    Pass, Scope,
    Statement,    \* what an observation may say
    Levels,       \* significances
    Gate,         \* insight_min_significance
    InsightMax,   \* insight_max
    MaxRuns       \* bound on the runs of the job

InsightAssumption ==
    Levels \subseteq Nat /\ Gate \in Nat /\ InsightMax \in Nat /\ MaxRuns \in Nat

Claim == [scope : Scope, statement : Statement]

VARIABLES
    facts,     \* live facts of each scope that are no observations, counted to two
    live,      \* observes claims that are current
    closed,    \* how many of each were archived
    phase, scope,
    kept,      \* observations of a pass left to write
    wrote,     \* claims a pass inserted and has not committed
    checked,   \* the observation it looked up and found unclaimed
    written,   \* how many it takes for new
    fresh,     \* claims committed since a pass began
    runs

pass == <<phase, scope, kept, wrote, checked, written>>
vars == <<facts, live, closed, pass, fresh, runs>>

TypeOK ==
    /\ facts \in [Scope -> 0..2] /\ live \subseteq Claim /\ closed \in [Claim -> Nat]
    /\ phase \in [Pass -> {"idle", "asking", "writing", "done"}] /\ scope \in [Pass -> Scope]
    /\ kept \in [Pass -> SUBSET Statement] /\ wrote \in [Pass -> SUBSET Claim]
    /\ checked \in [Pass -> SUBSET Statement] /\ \A p \in Pass : checked[p] \subseteq kept[p]
    /\ written \in [Pass -> 0..InsightMax] /\ fresh \in [Pass -> SUBSET Claim]
    /\ runs \in 0..MaxRuns

Init ==
    /\ facts = [s \in Scope |-> 0]
    /\ live = {} /\ closed = [c \in Claim |-> 0]
    /\ phase = [p \in Pass |-> "idle"] /\ scope \in [Pass -> Scope]
    /\ kept = [p \in Pass |-> {}] /\ wrote = [p \in Pass |-> {}]
    /\ checked = [p \in Pass |-> {}] /\ written = [p \in Pass |-> 0]
    /\ fresh = [p \in Pass |-> {}] /\ runs = 0

Of(p, o) == [scope |-> scope[p], statement |-> o]

\* Facts come and go while passes run.
Project(s) ==
    /\ \E n \in {facts[s] - 1, facts[s] + 1} \cap 0..2 : facts' = [facts EXCEPT ![s] = n]
    /\ UNCHANGED <<live, closed, pass, fresh, runs>>

\* grounding(): too few facts end the pass.
Ground(p) ==
    /\ phase[p] \in {"idle", "done"} /\ runs < MaxRuns
    /\ phase' = [phase EXCEPT ![p] = IF facts[scope[p]] < 2 THEN "done" ELSE "asking"]
    /\ kept' = [kept EXCEPT ![p] = {}] /\ written' = [written EXCEPT ![p] = 0]
    /\ fresh' = [fresh EXCEPT ![p] = {}]
    /\ runs' = runs + 1
    /\ UNCHANGED <<facts, live, closed, scope, wrote, checked>>

\* kept_observations: the significant ones, the most significant first, at
\* most InsightMax.  A report gives a statement one significance.
Kept(level) ==
    LET significant == {o \in DOMAIN level : level[o] >= Gate}
    IN {k \in SUBSET significant :
          /\ Cardinality(k) = Min({InsightMax, Cardinality(significant)})
          /\ \A o \in k, q \in significant \ k : level[o] >= level[q]}

Answer(p) ==
    /\ phase[p] = "asking"
    /\ \E said \in SUBSET Statement : \E level \in [said -> Levels] : \E k \in Kept(level) :
         /\ kept' = [kept EXCEPT ![p] = k]
         /\ phase' = [phase EXCEPT ![p] = IF k = {} THEN "done" ELSE "writing"]
    /\ UNCHANGED <<facts, live, closed, scope, wrote, checked, written, fresh, runs>>

Claimed(p, o) == Of(p, o) \in live \cup wrote[p] \/ closed[Of(p, o)] > 0

\* observation_already_claimed; an observation already claimed is skipped.
Look(p, o) ==
    /\ phase[p] = "writing" /\ checked[p] = {} /\ o \in kept[p]
    /\ IF Claimed(p, o)
       THEN /\ kept' = [kept EXCEPT ![p] = @ \ {o}] /\ UNCHANGED checked
       ELSE /\ checked' = [checked EXCEPT ![p] = {o}] /\ UNCHANGED kept
    /\ UNCHANGED <<facts, live, closed, phase, scope, wrote, written, fresh, runs>>

\* on_conflict_do_nothing on the index of the current claims.
Inserts(p, c) == {c} \ live

\* mint and claim_fact.  The index makes the insert wait for a pass that
\* has inserted the same claim and not committed.
Write(p) ==
    /\ phase[p] = "writing"
    /\ \E o \in checked[p] :
         /\ \A q \in Pass \ {p} : Of(p, o) \notin wrote[q]
         /\ wrote' = [wrote EXCEPT ![p] = @ \cup Inserts(p, Of(p, o))]
         /\ kept' = [kept EXCEPT ![p] = @ \ {o}]
    /\ checked' = [checked EXCEPT ![p] = {}]
    /\ written' = [written EXCEPT ![p] = @ + 1]
    /\ UNCHANGED <<facts, live, closed, phase, scope, fresh, runs>>

Commit(p) ==
    /\ phase[p] = "writing" /\ kept[p] = {} /\ checked[p] = {}
    /\ live' = live \cup wrote[p]
    /\ fresh' = [q \in Pass |-> fresh[q] \cup wrote[p]]
    /\ wrote' = [wrote EXCEPT ![p] = {}]
    /\ phase' = [phase EXCEPT ![p] = "done"]
    /\ UNCHANGED <<facts, closed, scope, kept, checked, written, runs>>

\* The worker stops, or the model or the embedder fails: nothing is written.
Abort(p) ==
    /\ phase[p] \in {"asking", "writing"}
    /\ phase' = [phase EXCEPT ![p] = "idle"]
    /\ kept' = [kept EXCEPT ![p] = {}] /\ wrote' = [wrote EXCEPT ![p] = {}]
    /\ checked' = [checked EXCEPT ![p] = {}] /\ written' = [written EXCEPT ![p] = 0]
    /\ UNCHANGED <<facts, live, closed, scope, fresh, runs>>

\* archive_stale takes claims that are days old, so none that was committed
\* while a pass was under way.
Decay(c) ==
    /\ c \in live /\ \A p \in Pass : phase[p] \in {"asking", "writing"} => c \notin fresh[p]
    /\ live' = live \ {c} /\ closed' = [closed EXCEPT ![c] = @ + 1]
    /\ UNCHANGED <<facts, pass, fresh, runs>>

Next ==
    \/ \E s \in Scope : Project(s)
    \/ \E p \in Pass : \/ Ground(p) \/ Answer(p) \/ Write(p) \/ Commit(p) \/ Abort(p)
                       \/ \E o \in Statement : Look(p, o)
    \/ \E c \in Claim : Decay(c)

Spec == Init /\ [][Next]_vars

-----------------------------------------------------------------------------
(* Properties.                                                             *)

Ever(c) == closed[c] + (IF c \in live THEN 1 ELSE 0)

\* A statement is asserted at most once per scope, ever: a repeated insight
\* is not claimed again and an archived one is not brought back, even when
\* two passes of the scope overlap.
ClaimedOnce == \A c \in Claim : Ever(c) <= 1

\* A pass that ends leaves no gated observation unwritten: what the same
\* statement did in another scope, or an aborted pass, does not suppress it.
Unsuppressed ==
    \A p \in Pass : phase[p] = "writing" /\ phase'[p] = "writing" =>
       \A o \in kept[p] \ kept'[p] : Of(p, o) \in wrote'[p] \/ Ever(Of(p, o)) > 0
=============================================================================
