------------------------------ MODULE Profiles ------------------------------
(***************************************************************************)
(* Entity profiles of one scope set: the `profile` rows, the entity_dirty  *)
(* watermarks that projections bump, and the passes that rebuild profiles  *)
(* (graph/profiles.py, store/models/tables/watermark.py,                   *)
(* background/jobs/projection.py).  Every pass reads in one transaction,   *)
(* calls the models, and writes in another.                                *)
(*                                                                         *)
(* A profile is the set of facts its summary was written from.  The facts  *)
(* never outnumber profile_facts_k, so a snapshot holds every live one.    *)
(***************************************************************************)
EXTENDS Naturals, Sequences, FiniteSets

CONSTANTS
  Entity,       \* entities claimed in the scope set
  Fact,         \* facts, one per projected chunk
  Touches,      \* the entities each fact's projection touched
  Pass,         \* executions of a rebuild that may be in flight together
  Kind,         \* "dirty", "weekly" or "single", per pass
  BatchSize,    \* profile_batch_size
  Retracts,     \* facts that some later correction, forget or decay closes
  MaxCrashes    \* bound on crashes of projections

TouchesAssumption == Touches \in [Fact -> (SUBSET Entity) \ {{}}]
KindAssumption == Kind \in [Pass -> {"dirty", "weekly", "single"}]
ProfileBoundsAssumption ==
  /\ BatchSize \in Nat \ {0} /\ MaxCrashes \in Nat /\ Retracts \subseteq Fact

VARIABLES
  chunk,     \* projection of the fact's chunk: "pending", "committed", "bumped", "lost"
  claim,     \* the fact's claim: "none", "live", "closed"
  counter,   \* watermark.counter of kind entity_dirty, 0 also when there is no row
  age,       \* entities with a watermark row, in the order of its updated_at
  profile,   \* facts behind the stored summary, {} when there is no row
  pass,      \* [on, counters, drafts] of each rebuild
  crashes

vars == <<chunk, claim, counter, age, profile, pass, crashes>>

Off == [on |-> FALSE, counters |-> [e \in Entity |-> 0], drafts |-> [e \in Entity |-> {}]]

TypeOK ==
  /\ chunk \in [Fact -> {"pending", "committed", "bumped", "lost"}]
  /\ claim \in [Fact -> {"none", "live", "closed"}]
  /\ counter \in [Entity -> Nat]
  /\ age \in Seq(Entity)
  /\ \A i, j \in DOMAIN age : age[i] = age[j] => i = j   \* one row per (scopes, kind, ref)
  /\ profile \in [Entity -> SUBSET Fact]
  /\ pass \in [Pass -> [on : BOOLEAN, counters : [Entity -> Nat],
                        drafts : [Entity -> SUBSET Fact]]]
  /\ crashes \in 0..MaxCrashes

Init ==
  /\ chunk = [f \in Fact |-> "pending"]
  /\ claim = [f \in Fact |-> "none"]
  /\ counter = [e \in Entity |-> 0]
  /\ age = <<>>
  /\ profile = [e \in Entity |-> {}]
  /\ pass = [p \in Pass |-> Off]
  /\ crashes = 0

-----------------------------------------------------------------------------
(* ChunkProjectionJob.handle: the graph slice commits, and the watermarks   *)
(* are bumped in a later transaction.                                       *)

\* updated_at = now() puts the rows of es behind every other one.
Touched(seq, es) ==
  {SelectSeq(seq, LAMBDA e : e \notin es) \o tail :
     tail \in {s \in [1..Cardinality(es) -> es] : \A i, j \in DOMAIN s : s[i] = s[j] => i = j}}

SliceCommits(f) ==
  /\ chunk[f] = "pending"
  /\ chunk' = [chunk EXCEPT ![f] = "committed"]
  /\ claim' = [claim EXCEPT ![f] = "live"]
  /\ UNCHANGED <<counter, age, profile, pass, crashes>>

\* Watermark.bump_many.
BumpMany(f) ==
  /\ chunk[f] = "committed"
  /\ chunk' = [chunk EXCEPT ![f] = "bumped"]
  /\ counter' = [e \in Entity |-> IF e \in Touches[f] THEN counter[e] + 1 ELSE counter[e]]
  /\ age' \in Touched(age, Touches[f])
  /\ UNCHANGED <<claim, profile, pass, crashes>>

\* The worker dies in between.  The retried job finds the chunk processed
\* and returns before the bump.
ProjectionCrashes(f) ==
  /\ crashes < MaxCrashes
  /\ chunk[f] = "committed"
  /\ chunk' = [chunk EXCEPT ![f] = "lost"]
  /\ crashes' = crashes + 1
  /\ UNCHANGED <<claim, counter, age, profile, pass>>

\* A refutation, a retracted source, a forget or the decay pass: none of
\* them bumps a watermark.
ClaimCloses(f) ==
  /\ f \in Retracts
  /\ claim[f] = "live"
  /\ claim' = [claim EXCEPT ![f] = "closed"]
  /\ UNCHANGED <<chunk, counter, age, profile, pass, crashes>>

-----------------------------------------------------------------------------
(* ProfileBuilder.                                                          *)

\* ProfileBuilder.snapshot over a roster: an entity without live facts has
\* no grounding, written {}.
LiveFacts(e) == {f \in Fact : claim[f] = "live" /\ e \in Touches[f]}
Groundings(roster) == [e \in Entity |-> IF e \in roster THEN LiveFacts(e) ELSE {}]

\* Watermark.pending_refs: the oldest rows with a positive counter.
PendingRefs ==
  LET dirty == SelectSeq(age, LAMBDA e : counter[e] > 0)
  IN  {dirty[i] : i \in {j \in DOMAIN dirty : j <= BatchSize}}

Begin(p, roster, refs) ==
  /\ ~ pass[p].on
  /\ pass' = [pass EXCEPT ![p] =
       [on |-> TRUE,
        counters |-> [e \in Entity |-> IF e \in refs THEN counter[e] ELSE 0],
        drafts |-> Groundings(roster)]]
  /\ UNCHANGED <<chunk, claim, counter, age, profile, crashes>>

\* The read transaction of refresh_dirty_profiles.
BeginDirty(p) == Kind[p] = "dirty" /\ PendingRefs # {} /\ Begin(p, PendingRefs, PendingRefs)

\* The read transaction of refresh_profiles, the weekly rebuild.
BeginWeekly(p) == Kind[p] = "weekly" /\ Begin(p, Entity, {})

\* build_profile refuses an entity without facts.
BeginSingle(p, e) == Kind[p] = "single" /\ LiveFacts(e) # {} /\ Begin(p, {e}, {})

Stored(p) == [e \in Entity |-> IF pass[p].drafts[e] # {} THEN pass[p].drafts[e] ELSE profile[e]]

Consumed(p) ==
  [e \in Entity |-> IF counter[e] > pass[p].counters[e] THEN counter[e] - pass[p].counters[e]
                    ELSE 0]

\* The write transaction.
Finish(p) ==
  /\ pass[p].on
  /\ profile' = Stored(p)
  /\ counter' = Consumed(p)
  /\ age' \in Touched(age, {e \in Entity : pass[p].counters[e] > 0})
  /\ pass' = [pass EXCEPT ![p] = Off]
  /\ UNCHANGED <<chunk, claim, crashes>>

\* A model call fails or the worker dies: nothing was written.
Fails(p) ==
  /\ pass[p].on
  /\ pass' = [pass EXCEPT ![p] = Off]
  /\ UNCHANGED <<chunk, claim, counter, age, profile, crashes>>

Next ==
  \/ \E f \in Fact : SliceCommits(f) \/ BumpMany(f) \/ ProjectionCrashes(f) \/ ClaimCloses(f)
  \/ \E p \in Pass : BeginDirty(p) \/ BeginWeekly(p) \/ Finish(p) \/ Fails(p)
  \/ \E p \in Pass, e \in Entity : BeginSingle(p, e)

Spec == Init /\ [][Next]_vars

-----------------------------------------------------------------------------
(* What the dirty counters are for.                                         *)

\* A live fact whose projection bumped its entities is in their profiles or
\* the entity is still dirty: consume takes back only what its own snapshot
\* saw, so a bump that arrived during the model calls is not erased.
DirtyCovers ==
  \A f \in Fact : \A e \in Touches[f] :
    chunk[f] = "bumped" /\ claim[f] = "live" => f \in profile[e] \/ counter[e] > 0

\* A profile never goes back in time: what replaces a summary was read from
\* a later graph, so a live fact it was written from stays in it.
ProfilesAdvance ==
  \A e \in Entity : \A f \in profile[e] : claim[f] = "live" => f \in profile'[e]

\* A bumped fact of the entity, and one its profile has, or that was closed.
Bumped(f, e) == chunk[f] = "bumped" /\ e \in Touches[f]
Reflected(f, e) == f \in profile[e] \/ claim[f] = "closed"
=============================================================================
