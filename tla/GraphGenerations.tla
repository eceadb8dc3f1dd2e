-------------------------- MODULE GraphGenerations --------------------------
(***************************************************************************)
(* The two growth-gated passes of one scope set: CommunitiesJob replaces   *)
(* the community generation and hands over to RaptorJob, which replaces    *)
(* the summary tree (background/jobs/maintenance.py, graph/communities.py, *)
(* graph/raptor.py).  Each pass counts, reads, builds, swaps and marks in  *)
(* separate transactions, under one queue key of its own.                  *)
(*                                                                         *)
(* A generation is its number.  The two jobs' keys are slots as in JobSlot.*)
(***************************************************************************)
EXTENDS Integers, FiniteSets

CONSTANTS
  Threshold,    \* communities_every_n_facts and raptor_every_n_facts, both 50
  MaxFacts,     \* bound on the claims projections record
  MaxEdges,     \* bound on the part_of claims of one tree
  MaxAttempts,  \* QueueJob.max_attempts
  MaxFails,     \* bound on failed executions
  MaxCrashes    \* bound on worker crashes

GenerationsAssumption ==
  /\ Threshold \in Nat \ {0} /\ MaxAttempts \in Nat \ {0}
  /\ MaxFacts \in Nat /\ MaxEdges \in Nat /\ MaxFails \in Nat /\ MaxCrashes \in Nat

Job == {"communities", "raptor"}

VARIABLES
  facts,      \* claims of the scope set other than tree edges, closed ones included
  edges,      \* part_of claims of the stored tree
  mark,       \* the fact_count and raptor_fact_count watermarks
  gen,        \* number of the stored community generation
  tree,       \* generation the stored tree was built from
  slot,       \* the job's queue row: "free", "queued", "picked" or "failed"
  attempts,   \* attempts of that row
  run,        \* [at, current, read] of the job's execution
  genFacts,   \* history: claims the stored generation was read from
  markFacts,  \* history: of the claims the community watermark counts, those of projections
  handed,     \* history: generations for which RaptorJob was enqueued
  fails, crashes

jobVars == <<slot, attempts, run>>
stored == <<facts, edges, mark, gen, tree, genFacts, markFacts>>
vars == <<stored, jobVars, handed, fails, crashes>>

\* What an execution carries between its transactions: the count it read,
\* the part of it that is not tree edges, and what its snapshot read.
Idle == [at |-> "idle", current |-> 0, facts |-> 0, read |-> 0]
Stages == {"idle", "start", "grown", "built", "swapped", "marked", "done"}

TypeOK ==
  /\ facts \in 0..MaxFacts /\ edges \in 0..MaxEdges
  /\ mark \in [Job -> Nat]
  /\ gen \in Nat /\ tree \in 0..gen
  /\ slot \in [Job -> {"free", "queued", "picked", "failed"}]
  /\ attempts \in [Job -> Nat]
  /\ run \in [Job -> [at : Stages, current : Nat, facts : Nat, read : Nat]]
  /\ \A j \in Job : run[j].at # "idle" <=> slot[j] = "picked"
  /\ genFacts \in 0..facts /\ markFacts \in 0..facts
  /\ handed \subseteq 1..gen
  /\ fails \in 0..MaxFails /\ crashes \in 0..MaxCrashes

Init ==
  /\ facts = 0 /\ edges = 0 /\ gen = 0 /\ tree = 0
  /\ mark = [j \in Job |-> 0]
  /\ slot = [j \in Job |-> "free"]
  /\ attempts = [j \in Job |-> 0]
  /\ run = [j \in Job |-> Idle]
  /\ genFacts = 0 /\ markFacts = 0 /\ handed = {}
  /\ fails = 0 /\ crashes = 0

-----------------------------------------------------------------------------
\* A projection records one more claim.
Record ==
  /\ facts < MaxFacts
  /\ facts' = facts + 1
  /\ UNCHANGED <<edges, mark, gen, tree, genFacts, markFacts, jobVars, handed, fails, crashes>>

\* The weekly fan-out; raptor_enabled is off, so RAPTOR has no clock.
CronFires ==
  /\ slot["communities"] = "free"
  /\ slot' = [slot EXCEPT !["communities"] = "queued"]
  /\ attempts' = [attempts EXCEPT !["communities"] = 0]
  /\ UNCHANGED <<stored, run, handed, fails, crashes>>

Pick(j) ==
  /\ slot[j] = "queued"
  /\ slot' = [slot EXCEPT ![j] = "picked"]
  /\ attempts' = [attempts EXCEPT ![j] = @ + 1]
  /\ run' = [run EXCEPT ![j] = [Idle EXCEPT !.at = "start"]]
  /\ UNCHANGED <<stored, handed, fails, crashes>>

\* recorded_fact_count: every claim of the exact scope set, tree edges too.
Recorded == facts + edges

Grown(j) == Recorded - mark[j] >= Threshold

\* The first transaction of run_if_grown.
Count(j) ==
  /\ run[j].at = "start"
  /\ run' = [run EXCEPT ![j] =
       [at |-> IF Grown(j) THEN "grown" ELSE "done",
        current |-> Recorded, facts |-> facts, read |-> 0]]
  /\ UNCHANGED <<stored, slot, attempts, handed, fails, crashes>>

\* build_communities and build_raptor read what they build from, and then
\* detect, summarize and embed outside any transaction.
Snapshot(j) ==
  /\ run[j].at = "grown"
  /\ run' = [run EXCEPT ![j].at = "built",
                        ![j].read = IF j = "communities" THEN facts ELSE gen]
  /\ UNCHANGED <<stored, slot, attempts, handed, fails, crashes>>

\* The generation swap of build_communities.
SwapCommunities ==
  /\ run["communities"].at = "built"
  /\ gen' = gen + 1
  /\ genFacts' = run["communities"].read
  /\ run' = [run EXCEPT !["communities"].at = "swapped"]
  /\ UNCHANGED <<facts, edges, mark, tree, markFacts, slot, attempts, handed, fails, crashes>>

\* RaptorBuilder.replace deletes the edge claims of the tree it replaces and
\* adds its own, none when fewer than two communities were read.
SwapTree ==
  /\ run["raptor"].at = "built"
  /\ tree' = run["raptor"].read
  /\ edges' \in 0..MaxEdges
  /\ run' = [run EXCEPT !["raptor"].at = "swapped"]
  /\ UNCHANGED <<facts, mark, gen, genFacts, markFacts, slot, attempts, handed, fails, crashes>>

Marked(j) == [current |-> run[j].current, facts |-> run[j].facts]

AfterMark(j) == IF j = "communities" THEN "marked" ELSE "done"

SetMark(j) ==
  /\ run[j].at = "swapped"
  /\ mark' = [mark EXCEPT ![j] = Marked(j).current]
  /\ markFacts' = IF j = "communities" THEN Marked(j).facts ELSE markFacts
  /\ run' = [run EXCEPT ![j].at = AfterMark(j)]
  /\ UNCHANGED <<facts, edges, gen, tree, genFacts, slot, attempts, handed, fails, crashes>>

\* CommunitiesJob enqueues RaptorJob; a queued, running or retained one
\* under the same key swallows it.
HandOver ==
  /\ run["communities"].at = "marked"
  /\ IF slot["raptor"] = "free"
     THEN /\ slot' = [slot EXCEPT !["raptor"] = "queued"]
          /\ attempts' = [attempts EXCEPT !["raptor"] = 0]
     ELSE UNCHANGED <<slot, attempts>>
  /\ handed' = handed \cup {gen}
  /\ run' = [run EXCEPT !["communities"].at = "done"]
  /\ UNCHANGED <<stored, fails, crashes>>

Finish(j) ==
  /\ run[j].at = "done"
  /\ slot' = [slot EXCEPT ![j] = "free"]
  /\ run' = [run EXCEPT ![j] = Idle]
  /\ UNCHANGED <<stored, attempts, handed, fails, crashes>>

\* A model call or a transaction fails: the row is retried or retained.
\* Too many degraded summaries raise as well and keep the old generation.
Fails(j) ==
  /\ fails < MaxFails
  /\ run[j].at \in {"start", "grown", "built", "swapped", "marked"}
  /\ fails' = fails + 1
  /\ slot' = [slot EXCEPT ![j] = IF attempts[j] >= MaxAttempts THEN "failed" ELSE "queued"]
  /\ run' = [run EXCEPT ![j] = Idle]
  /\ UNCHANGED <<stored, attempts, handed, crashes>>

\* The worker dies; its lease expires and the row is offered again.
Crash(j) ==
  /\ crashes < MaxCrashes
  /\ run[j].at # "idle"
  /\ crashes' = crashes + 1
  /\ slot' = [slot EXCEPT ![j] = "queued"]
  /\ run' = [run EXCEPT ![j] = Idle]
  /\ UNCHANGED <<stored, attempts, handed, fails>>

JobStep(j) == Pick(j) \/ Count(j) \/ Snapshot(j) \/ SetMark(j) \/ Finish(j)

Next ==
  \/ Record \/ CronFires \/ SwapCommunities \/ SwapTree \/ HandOver
  \/ \E j \in Job : JobStep(j) \/ Fails(j) \/ Crash(j)

Spec == Init /\ [][Next]_vars

-----------------------------------------------------------------------------
(* What the gate and the hand-over promise.                                *)

\* The watermark never counts a claim the stored generation did not read:
\* what projections record while a pass builds stays growth for the next
\* one (run_if_grown counts before it builds and stores that count).
GrowthNotConsumed == markFacts <= genFacts

\* Every stored generation was handed to RAPTOR, but for the one under way
\* and one for each failure or crash (the swap and the mark commit first).
HandOversPaid ==
  Cardinality((1..gen) \ handed) <=
    fails + crashes + (IF run["communities"].at \in {"swapped", "marked"} THEN 1 ELSE 0)

\* Growth past the threshold that no pass has taken up, unless it is retained
\* as failed.
Overgrown ==
  Recorded - mark["communities"] >= Threshold /\ slot["communities"] # "failed"
=============================================================================
