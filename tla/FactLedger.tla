----------------------------- MODULE FactLedger -----------------------------
(***************************************************************************)
(* The bi-temporal claims of one slot of the graph: one subject, one       *)
(* predicate of policy "state", one perspective and one scope set.  Chunk  *)
(* projections plan against the current claims, ask a model about the      *)
(* ambiguous ones, take the slot's lock, plan again and write              *)
(* (graph/build.py, graph/writer.py, graph/consolidation.py); decay and    *)
(* retraction close claims without that lock (store/models/tables/fact.py).*)
(***************************************************************************)
EXTENDS Integers, FiniteSets, FiniteSetTheorems, TLAPS

CONSTANTS
  Job,        \* chunk projections
  Statement,  \* fact identities, each with an object of its own
  Froms,      \* valid_from of extracted facts
  Tos,        \* valid_to of extracted facts, Endless for an open one
  Readings,   \* how a source may state a fact
  BatchSize,  \* facts of one chunk
  Ahead,      \* how far a valid_from lies past the writing of its source
  MaxNow,     \* bound on the clock
  MaxRounds,  \* consolidation rounds of an attempt, 4 in the code
  MaxTries,   \* queue attempts of a job
  MaxClosings \* bound on decayed claims and retracted chunks

Endless == 100
NoJob == "no job"

LedgerAssumption ==
  /\ MaxNow \in 0..(Endless - 1) /\ MaxTries \in Nat \ {0} /\ MaxRounds \in Nat \ {0} /\ MaxClosings \in Nat
  /\ BatchSize \in Nat /\ Ahead \in Nat
  /\ Froms \subseteq Nat /\ Tos \subseteq Nat
  /\ Readings \subseteq {"plain", "hedged", "corrects", "doubts"}
  /\ NoJob \notin Job

VARIABLES
  now,
  claims,   \* fact_claim rows by their key
  phase,    \* where a job stands
  batch,    \* the dated facts extraction finds in its chunk
  cand,     \* the candidates left of them
  matches,  \* keys of the current claims its last planning found
  verdict,  \* what it decided on each candidate
  rounds,   \* abandoned consolidation rounds of this attempt
  tries,    \* failed attempts
  lock,     \* the job inside the slot's advisory lock
  closings

jobVars == <<phase, batch, cand, matches, verdict, rounds, tries>>
vars == <<now, claims, jobVars, lock, closings>>

Key == Job \X Statement   \* a job writes a statement at most once
Fact == [statement : Statement, from : Froms, to : Tos, reading : Readings]
\* TimedFact.contests and Stance.decisive
Contests(f) == f.reading \in {"corrects", "doubts"}
Decisive(f) == f.reading \in {"plain", "corrects"}
Claim == [from : Nat, to : Nat, since : Nat, until : Nat,
          stance : {"settled", "hedged", "disputed", "refuted"}]
Verdict == [action : {"ADD", "NOOP"}] \cup [action : {"UPDATE", "REFUTE"}, on : Key]

Phases == {"unwritten", "queued", "new", "planned", "locked", "done", "gone", "failed"}

TypeOK ==
  /\ now \in 0..MaxNow
  /\ DOMAIN claims \subseteq Key /\ \A k \in DOMAIN claims : claims[k] \in Claim
  /\ phase \in [Job -> Phases]
  /\ batch \in [Job -> SUBSET Fact] /\ \A j \in Job : Cardinality(batch[j]) <= BatchSize
  /\ cand \in [Job -> SUBSET Fact] /\ matches \in [Job -> SUBSET Key]
  /\ \A j \in Job : DOMAIN verdict[j] \subseteq Fact /\ \A f \in DOMAIN verdict[j] : verdict[j][f] \in Verdict
  /\ rounds \in [Job -> 0..(MaxRounds - 1)] /\ tries \in [Job -> 0..MaxTries]
  /\ lock \in Job \cup {NoJob} /\ closings \in 0..MaxClosings

Init ==
  /\ now = 0 /\ claims = <<>>
  /\ phase = [j \in Job |-> "unwritten"]
  /\ batch = [j \in Job |-> {}] /\ cand = [j \in Job |-> {}]
  /\ matches = [j \in Job |-> {}]
  /\ verdict = [j \in Job |-> <<>>]
  /\ rounds = [j \in Job |-> 0] /\ tries = [j \in Job |-> 0]
  /\ lock = NoJob /\ closings = 0

LeastOf(a, b) == IF a < b THEN a ELSE b
GreatestOf(a, b) == IF a > b THEN a ELSE b

\* FactClaim.is_current and visible_at, both ends of a range half open.
Holds(c, t) == c.from <= t /\ t < c.to
Open(c) == c.until = Endless
Current == {k \in DOMAIN claims : Open(claims[k]) /\ Holds(claims[k], now)}

Close(c) == IF Open(c) THEN [c EXCEPT !.until = now] ELSE c

-----------------------------------------------------------------------------
(* Sources, the clock, and the closings that take no lock.                  *)

Tick ==
  /\ now < MaxNow
  /\ now' = now + 1
  /\ UNCHANGED <<claims, jobVars, lock, closings>>

\* A chunk is stored and its projection queued; extraction reads facts F,
\* each statement once.
Written(j, F) ==
  /\ phase[j] = "unwritten"
  /\ IsFiniteSet(F) /\ Cardinality(F) <= BatchSize
  /\ \A f \in F : f.from <= now + Ahead /\ f.from < f.to
  /\ \A f, g \in F : f.statement = g.statement => f = g
  /\ phase' = [phase EXCEPT ![j] = "queued"]
  /\ batch' = [batch EXCEPT ![j] = F]
  /\ UNCHANGED <<now, claims, cand, matches, verdict, rounds, tries, lock, closings>>

\* What a finished job planned is of no further use.
Forgets(j) ==
  /\ batch' = [batch EXCEPT ![j] = {}]
  /\ cand' = [cand EXCEPT ![j] = {}]
  /\ matches' = [matches EXCEPT ![j] = {}]
  /\ verdict' = [verdict EXCEPT ![j] = <<>>]
  /\ rounds' = [rounds EXCEPT ![j] = 0]

\* retract_from_documents closes what the chunk contributed, and the chunk
\* goes: a projection under way can no longer name it.
Retract(j) ==
  /\ phase[j] \notin {"unwritten", "gone"} /\ closings < MaxClosings
  /\ closings' = closings + 1
  /\ claims' = [k \in DOMAIN claims |-> IF k[1] = j THEN Close(claims[k]) ELSE claims[k]]
  /\ phase' = [phase EXCEPT ![j] = "gone"]
  /\ lock' = IF lock = j THEN NoJob ELSE lock
  /\ Forgets(j)
  /\ UNCHANGED <<now, tries>>

\* archive_stale closes a current claim that is no longer read.
Decay(k) ==
  /\ k \in Current /\ closings < MaxClosings
  /\ closings' = closings + 1
  /\ claims' = [claims EXCEPT ![k] = Close(@)]
  /\ UNCHANGED <<now, jobVars, lock>>

-----------------------------------------------------------------------------
(* Consolidation.                                                           *)

Add == [action |-> "ADD"]
Noop == [action |-> "NOOP"]
On(action, k) == [action |-> action, on |-> k]

\* Consolidator.decide and, for what it leaves open, the model, whose target
\* must come from the candidate's own catalog.
Decide(f, M) ==
  IF M = {} THEN {Add}
  ELSE IF Contests(f) THEN {Add, Noop} \cup {On(a, k) : a \in {"UPDATE", "REFUTE"}, k \in M}
  ELSE IF \E k \in M : M = {k} /\ k[2] = f.statement THEN {Noop}
  ELSE {On("UPDATE", k) : k \in M}

\* new_candidates: of the state facts of one window the first one, if no
\* current claim states it.
Collapsed(F) ==
  {G \in SUBSET F : \A f \in F : Cardinality({g \in G : g.from = f.from /\ g.to = f.to}) = 1}
Unclaimed(F) == {f \in F : \A k \in Current : k[2] # f.statement}

Prepare(j) ==
  /\ phase[j] = "queued"
  /\ phase' = [phase EXCEPT ![j] = "new"]
  /\ \E G \in Collapsed(batch[j]) : cand' = [cand EXCEPT ![j] = Unclaimed(G)]
  /\ UNCHANGED <<now, claims, batch, matches, verdict, rounds, tries, lock, closings>>

\* plan_facts, and resolve_ambiguous on what it leaves open.
Plans(j) ==
  /\ matches' = [matches EXCEPT ![j] = Current]
  /\ phase' = [phase EXCEPT ![j] = "planned"]
  /\ \E v \in [cand[j] -> UNION {Decide(f, Current) : f \in cand[j]}] :
       /\ \A f \in cand[j] : v[f] \in Decide(f, Current)
       /\ verdict' = [verdict EXCEPT ![j] = v]

Plan(j) ==
  /\ phase[j] = "new"
  /\ Plans(j)
  /\ UNCHANGED <<now, claims, batch, cand, rounds, tries, lock, closings>>

\* An attempt that raises starts over until the queue retains the job.
TriesForgotten(j) == 0   \* mutant: a requeue starts counting again
Attempts(j) == tries[j] + 1
Spent(n) == n >= MaxTries

Raises(j) ==
  /\ tries' = [tries EXCEPT ![j] = Attempts(j)]
  /\ IF Spent(Attempts(j))
     THEN phase' = [phase EXCEPT ![j] = "failed"] /\ Forgets(j)
     ELSE /\ phase' = [phase EXCEPT ![j] = "queued"]
          /\ rounds' = [rounds EXCEPT ![j] = 0]
          /\ UNCHANGED <<batch, cand, matches, verdict>>

RestsOnCurrent(j) == matches[j] = Current

Lock(j) ==
  /\ phase[j] = "planned" /\ lock = NoJob
  /\ RestsOnCurrent(j)
  /\ phase' = [phase EXCEPT ![j] = "locked"]
  /\ lock' = j
  /\ UNCHANGED <<now, claims, batch, cand, matches, verdict, rounds, tries, closings>>

Abandon(j) ==
  /\ phase[j] = "planned" /\ lock = NoJob
  /\ ~RestsOnCurrent(j)
  /\ IF rounds[j] + 1 < MaxRounds
     THEN /\ rounds' = [rounds EXCEPT ![j] = rounds[j] + 1]
          /\ Plans(j)
          /\ UNCHANGED <<batch, cand, tries>>
     ELSE Raises(j)
  /\ UNCHANGED <<now, claims, lock, closings>>

-----------------------------------------------------------------------------
(* apply_plans: revise, settle the contradictions, insert.                  *)

Deciding(v, action) == {f \in DOMAIN v : v[f].action = action}
Kept(v) == DOMAIN v \ Deciding(v, "NOOP")

\* revise leaves a claim that starts later alone and closes any other in
\* both times, without asking whether it is still open.
Backdated(f, c) == f.from < c.from

Revise(f, c) ==
  IF Backdated(f, c) THEN c
  ELSE [c EXCEPT !.to = GreatestOf(f.from, c.from), !.until = now]

\* The end of the new claim that one revised row returns.
EndAgainst(f, c) == IF Backdated(f, c) THEN LeastOf(f.to, c.from) ELSE f.to

\* One UPDATE statement joins revisions to rows: a row that several facts
\* revise takes one of them, by[k], and returns an end to that one only.
\* A state fact revises every match.
Revisers(j) ==
  IF Deciding(verdict[j], "UPDATE") = {} THEN {<<>>} ELSE [matches[j] -> Deciding(verdict[j], "UPDATE")]

Ends(by, f) ==
  IF f \in Deciding(verdict[lock], "UPDATE")
  THEN {EndAgainst(f, claims[k]) : k \in {x \in DOMAIN by : by[x] = f}}
  ELSE {f.to}

\* A refutation that is itself definite closes the claim, any other contests it.
Refuters(v, k) == {f \in Deciding(v, "REFUTE") : v[f].on = k}
Settled(v, k, c) ==
  IF ~Open(c) \/ Refuters(v, k) = {} THEN c
  ELSE IF \E f \in Refuters(v, k) : Decisive(f)
  THEN [c EXCEPT !.until = now, !.stance = "refuted"]
  ELSE [c EXCEPT !.stance = "disputed"]

\* Of the facts that contest a claim the last one joins the standoff.
Joiners(v) ==
  LET hedged == {f \in Deciding(v, "REFUTE") : ~Decisive(f)} IN
  {J \in SUBSET hedged : \A f \in hedged : Cardinality({g \in J : v[g].on = v[f].on}) = 1}

\* The insert yields to an open claim of the statement, current or not, and
\* to an earlier row of the batch.
FreeAlways(C, s) == TRUE   \* mutant: the unique index is gone
Free(C, s) == \A k \in DOMAIN C : k[2] = s => ~Open(C[k])
With(C, j, W, end, J) ==
  LET new == {f \in W : Free(C, f.statement)}
      first == [s \in {f.statement : f \in new} |-> CHOOSE f \in new : f.statement = s] IN
  [k \in DOMAIN C \cup {<<j, s>> : s \in DOMAIN first} |->
     IF k \in DOMAIN C THEN C[k]
     ELSE LET f == first[k[2]] IN
          [from |-> f.from, to |-> end[f], since |-> now, until |-> Endless,
           stance |-> IF f \in J THEN "disputed" ELSE IF Decisive(f) THEN "settled" ELSE "hedged"]]

\* Without an end for one of its updates the write raises and rolls back.
Apply(j) ==
  /\ phase[j] = "locked"
  /\ \E by \in Revisers(j) :
       LET W == Kept(verdict[j])
           C == [k \in DOMAIN claims |->
                   Settled(verdict[j], k, IF k \in DOMAIN by THEN Revise(by[k], claims[k]) ELSE claims[k])] IN
       \/ /\ \E f \in W : Ends(by, f) = {}
          /\ Raises(j)
          /\ UNCHANGED claims
       \/ /\ \A f \in W : Ends(by, f) # {}
          /\ \E end \in [W -> UNION {Ends(by, f) : f \in W}], J \in Joiners(verdict[j]) :
               /\ \A f \in W : end[f] \in Ends(by, f)
               /\ claims' = With(C, j, W, end, J)
          /\ phase' = [phase EXCEPT ![j] = "done"]
          /\ Forgets(j)
          /\ UNCHANGED tries
  /\ lock' = NoJob
  /\ UNCHANGED <<now, closings>>

Next ==
  \/ Tick
  \/ \E k \in Key : Decay(k)
  \/ \E j \in Job :
       \/ \E F \in SUBSET Fact : Written(j, F)
       \/ Retract(j) \/ Prepare(j) \/ Plan(j) \/ Lock(j) \/ Abandon(j) \/ Apply(j)

Spec == Init /\ [][Next]_vars

-----------------------------------------------------------------------------
(* What the slot promises.                                                  *)

\* One value of a state relation is current at a time, however plans,
\* writes, backdated sources, expiries, decay and retractions interleave.
SingleCurrent == Cardinality(Current) <= 1

\* History is append-only: no claim disappears, a closed one stays closed,
\* and no write moves the start of a claim or lets it hold longer.
HistoryOnlyCloses ==
  \A k \in DOMAIN claims :
    /\ k \in DOMAIN claims'
    /\ claims'[k].from = claims[k].from /\ claims'[k].since = claims[k].since
    /\ claims'[k].to <= claims[k].to
    /\ ~Open(claims[k]) => claims'[k].until # Endless

\* A projection that waits in the queue, and one that has ended: written, given
\* up with its chunk, or retained as failed.
Awaits(j) == phase[j] = "queued"
HasSettled(j) == phase[j] \in {"done", "gone", "failed"}

\* A refuted claim stays out: its statement is open again only in a claim
\* that a later source wrote.
RefutedStaysOut ==
  \A k, l \in DOMAIN claims :
    k[2] = l[2] /\ claims[k].stance = "refuted" /\ Open(claims[l]) => claims[l].since >= claims[k].until

-----------------------------------------------------------------------------
(* Proofs.  What a job locked the slot on was current when it locked, and  *)
(* only the job inside the lock adds a claim, moves its end or refutes it: *)
(* in between a claim can only be closed.                                  *)

\* Transaction times lie in the past, and a refuted claim is closed.
ClaimsStand ==
  \A k \in DOMAIN claims :
    /\ claims[k].since <= now
    /\ Open(claims[k]) \/ claims[k].until <= now
    /\ claims[k].stance = "refuted" => ~ Open(claims[k])

\* The unique index: a statement is open in one claim.
OneOpen ==
  \A k, l \in DOMAIN claims : k[2] = l[2] /\ Open(claims[k]) /\ Open(claims[l]) => k = l

\* A job plans on what its own chunk says, written by now.
BatchStands(j) ==
  /\ IsFiniteSet(batch[j]) /\ cand[j] \subseteq batch[j] /\ DOMAIN verdict[j] \subseteq batch[j]
  /\ \A f \in batch[j] : f.from <= now + Ahead /\ f.from < f.to
  /\ phase[j] = "unwritten" => batch[j] = {}

\* A job that has not ended has attempts left.
TriesStand(j) == phase[j] \in {"done", "gone", "failed"} \/ tries[j] < MaxTries

\* What a job decided, it decided on what it matched.
VerdictStands(j) ==
  phase[j] \in {"planned", "locked"} => \A f \in DOMAIN verdict[j] : verdict[j][f] \in Decide(f, matches[j])

\* The job in the slot's lock, and the claims it locked the slot on.
LockStands(j) ==
  /\ phase[j] = "locked" <=> lock = j
  /\ phase[j] = "locked" =>
       \A k \in matches[j] :
         /\ k \in DOMAIN claims /\ claims[k].stance # "refuted"
         /\ claims[k].from < claims[k].to
         /\ Ahead = 0 => \A f \in batch[j] : f.from < claims[k].to

JobStands(j) == BatchStands(j) /\ TriesStand(j) /\ VerdictStands(j) /\ LockStands(j)

LedgerInv ==
  /\ TypeOK /\ DOMAIN verdict = Job
  /\ ClaimsStand /\ OneOpen /\ RefutedStaysOut
  /\ \A j \in Job : JobStands(j)

\* Where a slot has one fact to a chunk, stated outright and no later than its
\* source, the job in the lock has matched every claim that is current.
Simple == Ahead = 0 /\ BatchSize <= 1 /\ \A f \in Fact : ~Contests(f)

SoleInv ==
  /\ \A k \in DOMAIN claims : claims[k].from <= now
  /\ \A j \in Job : \A f, g \in batch[j] : f = g
  /\ \A k, l \in Current : k = l
  /\ \A j \in Job : phase[j] = "locked" => Current \subseteq matches[j] /\ \A k, l \in matches[j] : k = l

\* What the lock's holder makes of the claims it found, before it adds its own.
Rewritten(j, by) ==
  [k \in DOMAIN claims |->
     Settled(verdict[j], k, IF k \in DOMAIN by THEN Revise(by[k], claims[k]) ELSE claims[k])]

\* What the insert adds to the claims C.
Row(f, end, J) ==
  [from |-> f.from, to |-> end[f], since |-> now, until |-> Endless,
   stance |-> IF f \in J THEN "disputed" ELSE IF Decisive(f) THEN "settled" ELSE "hedged"]

\* The insert keeps every row and adds some of the facts it was given, whose
\* statement no row has open.
LEMMA InsertedRows ==
  ASSUME NEW C, NEW j, NEW W, NEW end, NEW J
  PROVE  /\ \A k \in DOMAIN C : k \in DOMAIN With(C, j, W, end, J) /\ With(C, j, W, end, J)[k] = C[k]
         /\ \A k \in DOMAIN With(C, j, W, end, J) \ DOMAIN C :
              \E f \in W : /\ k = <<j, f.statement>> /\ Free(C, f.statement)
                           /\ With(C, j, W, end, J)[k] = Row(f, end, J)
<1> DEFINE new == {f \in W : Free(C, f.statement)}
           first == [s \in {f.statement : f \in new} |-> CHOOSE f \in new : f.statement = s]
           ks == DOMAIN C \cup {<<j, s>> : s \in DOMAIN first}
<1>1. With(C, j, W, end, J) = [k \in ks |-> IF k \in DOMAIN C THEN C[k] ELSE Row(first[k[2]], end, J)]
  BY DEF With, Row
<1>2. \A s \in DOMAIN first : first[s] \in new /\ first[s].statement = s
  OBVIOUS
<1>3. ASSUME NEW k \in ks, k \notin DOMAIN C
      PROVE  \E f \in W : /\ k = <<j, f.statement>> /\ Free(C, f.statement)
                          /\ With(C, j, W, end, J)[k] = Row(f, end, J)
  <2>1. PICK s \in DOMAIN first : k = <<j, s>>
    BY <1>3
  <2>2. k[2] = s
    BY <2>1
  <2> HIDE DEF first, ks
  <2>3. first[s] \in W /\ Free(C, first[s].statement) /\ first[s].statement = s
    BY <2>1, <1>2
  <2> QED
    BY <2>1, <2>2, <2>3, <1>1, <1>3
<1> HIDE DEF first
<1>4. QED
  BY <1>1, <1>3

\* Revising and settling keep a row's start, and close it or leave it as it is;
\* only a row that was open is newly refuted.
LEMMA RewrittenRow ==
  ASSUME LedgerAssumption, LedgerInv, NEW j \in Job, phase[j] = "locked", NEW by \in Revisers(j),
         NEW k \in DOMAIN claims
  PROVE  LET c == claims[k]  d == Rewritten(j, by)[k] IN
         /\ d \in Claim /\ d.from = c.from /\ d.since = c.since
         /\ Ahead = 0 => d.to <= c.to
         /\ Open(d) => Open(c)
         /\ ~ Open(d) => d.until <= now
         /\ d.stance = "refuted" => ~ Open(d) /\ (Open(c) \/ d = c)
<1> DEFINE c == claims[k]
           r == IF k \in DOMAIN by THEN Revise(by[k], c) ELSE c
           d == Settled(verdict[j], k, r)
<1>1. Rewritten(j, by)[k] = d
  BY DEF Rewritten
<1>2. /\ c \in Claim /\ now \in 0..MaxNow /\ MaxNow \in 0..99 /\ Endless = 100
      /\ c.since <= now /\ (Open(c) \/ c.until <= now) /\ (c.stance = "refuted" => ~ Open(c))
  BY DEF LedgerInv, TypeOK, ClaimsStand, LedgerAssumption, Endless
<1>3. ASSUME k \in DOMAIN by
      PROVE  /\ by[k] \in Fact /\ by[k] \in batch[j] /\ c.stance # "refuted" /\ c.from < c.to
             /\ Ahead = 0 => by[k].from < c.to
  <2>1. by \in [matches[j] -> Deciding(verdict[j], "UPDATE")]
    BY <1>3 DEF Revisers
  <2>2. by[k] \in DOMAIN verdict[j] /\ k \in matches[j]
    BY <2>1, <1>3 DEF Deciding
  <2>3. by[k] \in batch[j] /\ by[k] \in Fact
    BY <2>2 DEF LedgerInv, TypeOK, JobStands, BatchStands
  <2> QED
    BY <2>2, <2>3 DEF LedgerInv, JobStands, LockStands
<1>4. /\ r \in Claim /\ r.from = c.from /\ r.since = c.since /\ r.stance = c.stance
      /\ Ahead = 0 => r.to <= c.to
      /\ r = c \/ (r.until = now /\ c.stance # "refuted")
  <2>1. CASE k \in DOMAIN by /\ ~ Backdated(by[k], c)
    <3>1. r = [c EXCEPT !.to = GreatestOf(by[k].from, c.from), !.until = now]
      BY <2>1 DEF Revise
    <3>2. by[k].from \in Nat
      BY <1>3, <2>1 DEF Fact, LedgerAssumption
    <3>3. GreatestOf(by[k].from, c.from) \in Nat /\ (Ahead = 0 => GreatestOf(by[k].from, c.from) <= c.to)
      BY <3>2, <1>2, <1>3, <2>1 DEF GreatestOf, Claim
    <3> HIDE DEF r, c
    <3> DEFINE g == GreatestOf(by[k].from, c.from)
    <3>4. c \in Claim /\ g \in Nat /\ now \in Nat /\ c.stance # "refuted" /\ (Ahead = 0 => g <= c.to)
      BY <3>3, <1>2, <1>3, <2>1
    <3> HIDE DEF r, c, g
    <3>5. r \in Claim /\ r.from = c.from /\ r.since = c.since /\ r.stance = c.stance /\ r.to = g /\ r.until = now
      BY <3>1, <3>4 DEF Claim, g
    <3> QED
      BY <3>4, <3>5
  <2>2. CASE k \in DOMAIN by /\ Backdated(by[k], c)
    BY <2>2, <1>2 DEF Revise, Claim
  <2>3. CASE k \notin DOMAIN by
    BY <2>3, <1>2 DEF Claim
  <2> QED
    BY <2>1, <2>2, <2>3
<1> HIDE DEF r
<1>5. \/ d = r
      \/ Open(r) /\ d = [r EXCEPT !.until = now, !.stance = "refuted"]
      \/ Open(r) /\ d = [r EXCEPT !.stance = "disputed"]
  BY DEF Settled
<1> HIDE DEF d, c
<1>6. Open(r) => r = c
  BY <1>2, <1>4 DEF Open
<1>7. CASE d = r
  BY <1>1, <1>2, <1>4, <1>6, <1>7 DEF Open, c
<1>8. CASE Open(r) /\ d = [r EXCEPT !.until = now, !.stance = "refuted"]
  <2>1. /\ d \in Claim /\ d.from = r.from /\ d.to = r.to /\ d.since = r.since /\ d.until = now /\ d.stance = "refuted"
    <3>1. now \in Nat
      BY <1>2
    <3> QED
      BY <3>1, <1>4, <1>8 DEF Claim
  <2> QED
    BY <1>1, <1>2, <1>4, <1>6, <1>8, <2>1 DEF Open, c
<1>9. CASE Open(r) /\ d = [r EXCEPT !.stance = "disputed"]
  <2>1. /\ d \in Claim /\ d.from = r.from /\ d.to = r.to /\ d.since = r.since /\ d.until = r.until /\ d.stance = "disputed"
    BY <1>4, <1>9 DEF Claim
  <2> QED
    BY <1>1, <1>2, <1>4, <1>6, <1>9, <2>1 DEF Open, c
<1>10. QED
  BY <1>5, <1>7, <1>8, <1>9

\* What a step leaves of the claims: typed rows, and what holds of them.
RowsStand ==
  /\ DOMAIN claims \subseteq Key /\ \A k \in DOMAIN claims : claims[k] \in Claim
  /\ ClaimsStand /\ OneOpen /\ RefutedStaysOut

\* The passing of time and closing rows that are open leave the claims standing.
LEMMA ClosingsStand ==
  ASSUME LedgerAssumption, LedgerInv, now' \in 0..MaxNow, now <= now', DOMAIN claims' = DOMAIN claims,
         \A k \in DOMAIN claims : claims'[k] = claims[k] \/ (claims'[k] = Close(claims[k]) /\ now' = now)
  PROVE  /\ RowsStand'
         /\ \A k \in DOMAIN claims :
              /\ claims'[k].from = claims[k].from /\ claims'[k].to = claims[k].to
              /\ claims'[k].since = claims[k].since /\ claims'[k].stance = claims[k].stance
              /\ Open(claims'[k]) => Open(claims[k])
<1>1. ASSUME NEW k \in DOMAIN claims
      PROVE  /\ claims'[k] \in Claim
             /\ claims'[k].from = claims[k].from /\ claims'[k].to = claims[k].to
             /\ claims'[k].since = claims[k].since /\ claims'[k].stance = claims[k].stance
             /\ Open(claims'[k]) => Open(claims[k])
             /\ Open(claims'[k]) \/ claims'[k].until <= now'
             /\ claims'[k].since <= now'
             /\ ~ Open(claims[k]) => claims'[k] = claims[k]
  <2> DEFINE c == claims[k]
             d == claims'[k]
  <2>1. /\ c \in Claim /\ now \in 0..MaxNow /\ MaxNow \in 0..99 /\ Endless = 100 /\ now' \in Nat
        /\ c.since <= now /\ (Open(c) \/ c.until <= now)
    BY <1>1 DEF LedgerInv, TypeOK, ClaimsStand, LedgerAssumption, Endless
  <2>2. d = c \/ (Open(c) /\ d = [c EXCEPT !.until = now] /\ now' = now)
    BY <1>1 DEF Close
  <2> HIDE DEF c, d
  <2>3. CASE d = c
    BY <2>1, <2>3 DEF c, d, Claim
  <2>4. CASE Open(c) /\ d = [c EXCEPT !.until = now] /\ now' = now
    <3>1. now \in Nat
      BY <2>1
    <3>2. /\ d \in Claim /\ d.from = c.from /\ d.to = c.to /\ d.since = c.since /\ d.stance = c.stance
          /\ d.until = now
      BY <2>1, <2>4, <3>1 DEF Claim
    <3> QED
      BY <2>1, <2>4, <3>2 DEF c, d, Open
  <2> QED
    BY <2>2, <2>3, <2>4
<1>2. ClaimsStand' /\ OneOpen' /\ RefutedStaysOut'
  <2>1. ClaimsStand'
    BY <1>1 DEF LedgerInv, ClaimsStand, Open
  <2>2. OneOpen'
    BY <1>1 DEF LedgerInv, OneOpen, Open
  <2>3. RefutedStaysOut'
    <3> SUFFICES ASSUME NEW k \in DOMAIN claims, NEW l \in DOMAIN claims, k[2] = l[2],
                        claims'[k].stance = "refuted", Open(claims'[l])
                 PROVE  claims'[l].since >= claims'[k].until
      BY DEF RefutedStaysOut, Open
    <3>1. claims[k].stance = "refuted" /\ claims'[k] = claims[k] /\ Open(claims[l])
      BY <1>1 DEF LedgerInv, ClaimsStand
    <3>2. claims[l].since >= claims[k].until
      BY <3>1 DEF LedgerInv, RefutedStaysOut
    <3> QED
      BY <1>1, <3>1, <3>2
  <2> QED
    BY <2>1, <2>2, <2>3
<1>3. QED
  BY <1>1, <1>2 DEF RowsStand, LedgerInv, TypeOK

\* The write of the lock's holder, with what the update returned and joins.
Inserts(j, by, end, J) ==
  /\ phase[j] = "locked" /\ now' = now
  /\ \A f \in Kept(verdict[j]) : end[f] \in Ends(by, f)
  /\ claims' = With(Rewritten(j, by), j, Kept(verdict[j]), end, J)

\* What the lock's holder writes leaves them standing, too.
LEMMA InsertsStand ==
  ASSUME LedgerAssumption, LedgerInv, NEW j \in Job, NEW by \in Revisers(j),
         NEW end, NEW J, Inserts(j, by, end, J)
  PROVE  /\ RowsStand'
         /\ Ahead = 0 => HistoryOnlyCloses
         /\ \A k \in DOMAIN claims : k \in DOMAIN claims' /\ claims'[k] = Rewritten(j, by)[k]
         /\ \A k \in DOMAIN claims' \ DOMAIN claims :
              \E f \in Kept(verdict[j]) : k = <<j, f.statement>> /\ claims'[k] = Row(f, end, J)
<1> DEFINE C == Rewritten(j, by)
           W == Kept(verdict[j])
<1>0. /\ phase[j] = "locked" /\ now' = now /\ \A f \in W : end[f] \in Ends(by, f)
      /\ claims' = With(C, j, W, end, J)
  BY DEF Inserts
<1>1. DOMAIN C = DOMAIN claims
  BY DEF Rewritten
<1>2. lock = j /\ W \subseteq DOMAIN verdict[j] /\ DOMAIN verdict[j] \subseteq Fact
  BY <1>0 DEF Kept, LedgerInv, JobStands, LockStands, TypeOK
<1>3. \A k \in DOMAIN by : k \in DOMAIN claims
  BY <1>0 DEF Revisers, LedgerInv, JobStands, LockStands
<1>4. \A f \in W : end[f] \in Nat
  <2> SUFFICES ASSUME NEW f \in W
               PROVE  end[f] \in Nat
    OBVIOUS
  <2>1. f.to \in Nat /\ \A k \in DOMAIN by : claims[k].from \in Nat
    <3> HIDE DEF W
    <3>1. f \in Fact
      BY <1>2
    <3>2. f.to \in Tos
      BY <3>1 DEF Fact
    <3>3. \A k \in DOMAIN by : claims[k] \in Claim
      BY <1>3 DEF LedgerInv, TypeOK
    <3> QED
      BY <3>2, <3>3 DEF LedgerAssumption, Claim
  <2>2. end[f] = f.to \/ \E k \in DOMAIN by : end[f] = EndAgainst(f, claims[k])
    <3>1. end[f] \in Ends(by, f)
      BY <1>0
    <3> QED
      BY <3>1 DEF Ends
  <2> QED
    BY <2>1, <2>2 DEF EndAgainst, LeastOf
<1>5. ASSUME NEW k \in DOMAIN claims
      PROVE  k \in DOMAIN claims' /\ claims'[k] = C[k]
  BY <1>0, <1>1, <1>5, InsertedRows
<1>6. ASSUME NEW k \in DOMAIN claims', k \notin DOMAIN claims
      PROVE  /\ \E f \in W : /\ k = <<j, f.statement>> /\ Free(C, f.statement)
                             /\ claims'[k] = Row(f, end, J)
             /\ k \in Key /\ k[1] = j /\ Free(C, k[2])
             /\ claims'[k] \in Claim /\ claims'[k].since = now /\ Open(claims'[k])
             /\ claims'[k].stance # "refuted"
  <2>1. PICK f \in W : k = <<j, f.statement>> /\ Free(C, f.statement) /\ claims'[k] = Row(f, end, J)
    BY <1>0, <1>1, <1>6, InsertedRows
  <2>2. f \in Fact /\ end[f] \in Nat /\ now \in Nat /\ f.statement \in Statement /\ f.from \in Nat
    <3> HIDE DEF W
    <3>1. f \in Fact /\ end[f] \in Nat
      BY <1>2, <1>4
    <3>2. f.statement \in Statement /\ f.from \in Froms
      BY <3>1 DEF Fact
    <3>3. now \in Nat
      BY DEF LedgerInv, TypeOK
    <3> QED
      BY <3>1, <3>2, <3>3 DEF LedgerAssumption
  <2> DEFINE r == claims'[k]
  <2>3. r \in Claim /\ r.since = now /\ r.until = Endless /\ r.stance # "refuted"
    BY <2>1, <2>2 DEF Row, Claim, Endless
  <2> QED
    BY <2>1, <2>2, <2>3 DEF Key, Open
<1> HIDE DEF C, W
<1>7. ASSUME NEW k \in DOMAIN claims
      PROVE  /\ claims'[k] \in Claim
             /\ claims'[k].from = claims[k].from /\ claims'[k].since = claims[k].since
             /\ Ahead = 0 => claims'[k].to <= claims[k].to
             /\ Open(claims'[k]) => Open(claims[k])
             /\ ~ Open(claims'[k]) => claims'[k].until <= now
             /\ claims'[k].stance = "refuted" =>
                  ~ Open(claims'[k]) /\ (Open(claims[k]) \/ claims'[k] = claims[k])
  BY <1>0, <1>5, <1>7, RewrittenRow DEF C
<1>8. ASSUME NEW k \in DOMAIN claims', NEW l \in DOMAIN claims', k[2] = l[2],
             Open(claims'[k]), l \notin DOMAIN claims
      PROVE  k = l
  <2>1. CASE k \in DOMAIN claims
    BY <1>1, <1>5, <1>6, <1>8, <2>1 DEF Free
  <2>2. CASE k \notin DOMAIN claims
    BY <1>6, <1>8, <2>2
  <2> QED
    BY <2>1, <2>2
<1>9. OneOpen'
  <2> SUFFICES ASSUME NEW k \in DOMAIN claims', NEW l \in DOMAIN claims', k[2] = l[2],
                      Open(claims'[k]), Open(claims'[l])
               PROVE  k = l
    BY DEF OneOpen, Open
  <2>1. CASE k \in DOMAIN claims /\ l \in DOMAIN claims
    BY <1>7, <2>1 DEF LedgerInv, OneOpen
  <2> QED
    BY <1>8, <2>1
<1>10. RefutedStaysOut'
  <2> SUFFICES ASSUME NEW k \in DOMAIN claims', NEW l \in DOMAIN claims', k[2] = l[2],
                      claims'[k].stance = "refuted", Open(claims'[l])
               PROVE  claims'[l].since >= claims'[k].until
    BY DEF RefutedStaysOut, Open
  <2>1. k \in DOMAIN claims
    BY <1>6
  <2>2. ~ Open(claims'[k]) /\ claims'[k].until <= now /\ claims'[k].until \in Nat /\ now \in Nat
    BY <1>7, <2>1 DEF Claim, LedgerInv, TypeOK
  <2>3. CASE l \notin DOMAIN claims
    BY <1>6, <2>2, <2>3
  <2>4. CASE l \in DOMAIN claims /\ Open(claims[k])
    BY <1>7, <2>1, <2>2, <2>4 DEF LedgerInv, OneOpen
  <2>5. CASE l \in DOMAIN claims /\ claims'[k] = claims[k]
    <3>1. claims[l].since >= claims[k].until
      BY <1>7, <2>1, <2>5 DEF LedgerInv, RefutedStaysOut
    <3> QED
      BY <1>7, <2>5, <3>1
  <2> QED
    BY <1>7, <2>1, <2>3, <2>4, <2>5
<1>11. ClaimsStand'
  <2> SUFFICES ASSUME NEW k \in DOMAIN claims'
               PROVE  /\ claims'[k].since <= now
                      /\ Open(claims'[k]) \/ claims'[k].until <= now
                      /\ claims'[k].stance = "refuted" => ~ Open(claims'[k])
    BY <1>0 DEF ClaimsStand, Open
  <2>1. now \in Nat
    BY DEF LedgerInv, TypeOK
  <2>2. CASE k \in DOMAIN claims
    BY <1>7, <2>2 DEF LedgerInv, ClaimsStand
  <2>3. CASE k \notin DOMAIN claims
    BY <1>6, <2>1, <2>3
  <2> QED
    BY <2>2, <2>3
<1>12. Ahead = 0 => HistoryOnlyCloses
  <2> SUFFICES ASSUME Ahead = 0, NEW k \in DOMAIN claims
               PROVE  /\ k \in DOMAIN claims'
                      /\ claims'[k].from = claims[k].from /\ claims'[k].since = claims[k].since
                      /\ claims'[k].to <= claims[k].to
                      /\ ~Open(claims[k]) => claims'[k].until # Endless
    BY DEF HistoryOnlyCloses
  <2> QED
    BY <1>5, <1>7 DEF Open
<1>13. RowsStand'
  <2>1. DOMAIN claims' \subseteq Key
    BY <1>6 DEF LedgerInv, TypeOK
  <2>2. \A k \in DOMAIN claims' : claims'[k] \in Claim
    BY <1>6, <1>7
  <2> QED
    BY <1>9, <1>10, <1>11, <2>1, <2>2 DEF RowsStand
<1>14. QED
  BY <1>5, <1>6, <1>12, <1>13 DEF C, W

\* The variables of the jobs are of their types.
JobsTyped ==
  /\ phase \in [Job -> Phases]
  /\ batch \in [Job -> SUBSET Fact] /\ \A j \in Job : Cardinality(batch[j]) <= BatchSize
  /\ cand \in [Job -> SUBSET Fact] /\ matches \in [Job -> SUBSET Key]
  /\ DOMAIN verdict = Job
  /\ \A j \in Job : DOMAIN verdict[j] \subseteq Fact /\ \A f \in DOMAIN verdict[j] : verdict[j][f] \in Verdict
  /\ rounds \in [Job -> 0..(MaxRounds - 1)] /\ tries \in [Job -> 0..MaxTries]

\* The invariant in parts, as a step finds it and as it restores it.
LEMMA InvParts ==
  LedgerInv <=> /\ now \in 0..MaxNow /\ lock \in Job \cup {NoJob} /\ closings \in 0..MaxClosings
                /\ JobsTyped /\ RowsStand /\ \A j \in Job : JobStands(j)
BY DEF LedgerInv, TypeOK, JobsTyped, RowsStand

\* A step that restores the parts restores the invariant.
LEMMA InvRestored ==
  ASSUME now' \in 0..MaxNow, lock' \in Job \cup {NoJob}, closings' \in 0..MaxClosings,
         JobsTyped', RowsStand', \A j \in Job : JobStands(j)'
  PROVE  LedgerInv'
BY DEF LedgerInv, TypeOK, JobsTyped, RowsStand

\* A job a step does not touch stands as it stood, while time passes and rows
\* are at most closed.
LEMMA OthersStand ==
  ASSUME LedgerAssumption, LedgerInv, NEW i \in Job,
         phase'[i] = phase[i], batch'[i] = batch[i], cand'[i] = cand[i],
         matches'[i] = matches[i], verdict'[i] = verdict[i], tries'[i] = tries[i],
         now' \in Nat, now <= now', lock' = i <=> lock = i,
         phase[i] = "locked" => \A k \in DOMAIN claims :
             /\ k \in DOMAIN claims' /\ claims'[k].from = claims[k].from
             /\ claims'[k].to = claims[k].to /\ claims'[k].stance = claims[k].stance
  PROVE  JobStands(i)'
<1>1. JobStands(i) /\ now \in Nat
  BY DEF LedgerInv, TypeOK
<1>2. BatchStands(i)'
  <2>1. \A f \in batch[i] : f.from \in Nat
    <3>1. \A f \in batch[i] : f \in Fact
      BY DEF LedgerInv, TypeOK
    <3> QED
      BY <3>1 DEF Fact, LedgerAssumption
  <2>2. Ahead \in Nat
    BY DEF LedgerAssumption
  <2>3. BatchStands(i)
    BY <1>1 DEF JobStands
  <2>4. \A f \in batch[i] : f.from <= now' + Ahead /\ f.from < f.to
    BY <1>1, <2>1, <2>2, <2>3 DEF BatchStands
  <2> QED
    BY <2>3, <2>4 DEF BatchStands
<1>3. TriesStand(i)' /\ VerdictStands(i)'
  BY <1>1 DEF JobStands, TriesStand, VerdictStands
<1>4. LockStands(i)'
  BY <1>1 DEF JobStands, LockStands
<1>5. QED
  BY <1>2, <1>3, <1>4 DEF JobStands

\* What a job that has ended leaves.
LEMMA ForgottenStand ==
  ASSUME LedgerAssumption, LedgerInv, NEW j \in Job, Forgets(j), NEW p \in {"done", "gone", "failed"},
         phase' = [phase EXCEPT ![j] = p], tries' \in [Job -> 0..MaxTries], lock' # j
  PROVE  JobsTyped' /\ JobStands(j)'
<1>1. JobsTyped
  BY InvParts
<1>2. batch'[j] = {} /\ cand'[j] = {} /\ matches'[j] = {} /\ verdict'[j] = <<>> /\ rounds'[j] = 0 /\ phase'[j] = p
  BY <1>1 DEF Forgets, JobsTyped
<1>3. DOMAIN verdict'[j] = {}
  BY <1>2
<1>4. Cardinality(batch'[j]) = 0 /\ IsFiniteSet(batch'[j])
  BY <1>2, FS_EmptySet
<1>5. JobsTyped'
  <2>1. phase' \in [Job -> Phases]
    BY <1>1 DEF JobsTyped, Phases
  <2>2. batch' \in [Job -> SUBSET Fact] /\ cand' \in [Job -> SUBSET Fact] /\ matches' \in [Job -> SUBSET Key]
    BY <1>1 DEF JobsTyped, Forgets
  <2>3. \A i \in Job : Cardinality(batch'[i]) <= BatchSize
    BY <1>1, <1>4 DEF JobsTyped, Forgets, LedgerAssumption
  <2>4. DOMAIN verdict' = Job /\ \A i \in Job : DOMAIN verdict'[i] \subseteq Fact
                              /\ \A f \in DOMAIN verdict'[i] : verdict'[i][f] \in Verdict
    <3>1. verdict' = [verdict EXCEPT ![j] = <<>>]
      BY DEF Forgets
    <3>2. \A i \in Job : i # j => verdict'[i] = verdict[i]
      BY <3>1, <1>1 DEF JobsTyped
    <3> QED
      BY <3>1, <3>2, <1>1, <1>3 DEF JobsTyped
  <2>5. rounds' \in [Job -> 0..(MaxRounds - 1)]
    BY <1>1 DEF JobsTyped, Forgets, LedgerAssumption
  <2> QED
    BY <2>1, <2>2, <2>3, <2>4, <2>5 DEF JobsTyped, Verdict, Fact, Key
<1>6. JobStands(j)'
  BY <1>2, <1>3, <1>4 DEF JobStands, BatchStands, TriesStand, VerdictStands, LockStands
<1>7. QED
  BY <1>5, <1>6

\* Nothing is decided but adding, nothing, or one of what was matched.
LEMMA DecisionsTyped ==
  ASSUME NEW f \in Fact, NEW M \in SUBSET Key, NEW d \in Decide(f, M)
  PROVE  d \in Verdict
BY DEF Decide, Verdict, Add, Noop, On

\* A job that plans stands on its new plan.
LEMMA PlannedStand ==
  ASSUME LedgerAssumption, LedgerInv, NEW j \in Job, Plans(j), tries[j] < MaxTries, lock # j,
         rounds' \in [Job -> 0..(MaxRounds - 1)],
         UNCHANGED <<now, claims, batch, cand, tries, lock>>
  PROVE  JobsTyped' /\ JobStands(j)'
<1>1. JobsTyped /\ JobStands(j)
  BY InvParts
<1>2. Current \in SUBSET Key
  BY DEF Current, LedgerInv, TypeOK
<1>3. PICK v \in [cand[j] -> UNION {Decide(f, Current) : f \in cand[j]}] :
        (\A f \in cand[j] : v[f] \in Decide(f, Current)) /\ verdict' = [verdict EXCEPT ![j] = v]
  BY DEF Plans
<1>4. verdict'[j] = v /\ DOMAIN v = cand[j] /\ matches'[j] = Current /\ phase'[j] = "planned"
  BY <1>1, <1>3 DEF Plans, JobsTyped
<1>5. cand[j] \subseteq Fact /\ cand[j] \subseteq batch[j]
  BY <1>1 DEF JobsTyped, JobStands, BatchStands
<1>6. JobsTyped'
  <2>1. phase' \in [Job -> Phases] /\ matches' \in [Job -> SUBSET Key]
    BY <1>1, <1>2 DEF JobsTyped, Plans, Phases
  <2>2. \A f \in cand[j] : v[f] \in Verdict
    BY <1>2, <1>3, <1>5, DecisionsTyped
  <2>3. DOMAIN verdict' = Job /\ \A i \in Job : DOMAIN verdict'[i] \subseteq Fact
                              /\ \A f \in DOMAIN verdict'[i] : verdict'[i][f] \in Verdict
    <3>1. \A i \in Job : i # j => verdict'[i] = verdict[i]
      BY <1>1, <1>3 DEF JobsTyped
    <3> QED
      BY <1>1, <1>3, <1>4, <1>5, <2>2, <3>1 DEF JobsTyped
  <2> QED
    BY <1>1, <2>1, <2>3 DEF JobsTyped, Verdict, Fact, Key
<1>7. BatchStands(j)' /\ TriesStand(j)'
  <2>1. BatchStands(j) /\ DOMAIN verdict'[j] = cand[j]
    BY <1>1, <1>4 DEF JobStands
  <2>2. BatchStands(j)'
    BY <2>1, <1>4 DEF BatchStands
  <2> QED
    BY <2>2 DEF TriesStand
<1>8. VerdictStands(j)'
  BY <1>3, <1>4 DEF VerdictStands
<1>9. LockStands(j)'
  BY <1>4 DEF LockStands
<1>10. QED
  BY <1>6, <1>7, <1>8, <1>9 DEF JobStands

\* A job whose attempt raises stands, whether it is tried again or given up.
LEMMA RaisedStand ==
  ASSUME LedgerAssumption, LedgerInv, NEW j \in Job, Raises(j), phase[j] \in {"planned", "locked"},
         UNCHANGED now, lock' # j
  PROVE  JobsTyped' /\ JobStands(j)'
<1>1. JobsTyped /\ JobStands(j) /\ MaxTries \in Nat /\ MaxRounds \in Nat \ {0}
  BY InvParts DEF LedgerAssumption
<1>2. tries[j] < MaxTries /\ tries[j] \in Nat
  BY <1>1 DEF JobStands, TriesStand, JobsTyped
<1>3. tries' \in [Job -> 0..MaxTries] /\ tries'[j] = tries[j] + 1
  BY <1>1, <1>2 DEF Raises, Attempts, JobsTyped
<1>4. CASE Spent(Attempts(j))
  <2>1. phase' = [phase EXCEPT ![j] = "failed"] /\ Forgets(j)
    BY <1>4 DEF Raises
  <2> QED
    BY <2>1, <1>3, ForgottenStand
<1>5. CASE ~ Spent(Attempts(j))
  <2>1. /\ phase' = [phase EXCEPT ![j] = "queued"] /\ rounds' = [rounds EXCEPT ![j] = 0]
        /\ UNCHANGED <<batch, cand, matches, verdict>>
    BY <1>5 DEF Raises
  <2>2. phase'[j] = "queued" /\ phase' \in [Job -> Phases] /\ rounds' \in [Job -> 0..(MaxRounds - 1)]
    BY <2>1, <1>1 DEF JobsTyped, Phases
  <2>3. JobsTyped'
    BY <2>1, <2>2, <1>1, <1>3 DEF JobsTyped, Verdict, Fact, Key
  <2>4. BatchStands(j)'
    BY <2>1, <2>2, <1>1 DEF JobStands, BatchStands
  <2>5. TriesStand(j)'
    BY <1>1, <1>2, <1>3, <1>5 DEF TriesStand, Spent, Attempts
  <2>6. VerdictStands(j)' /\ LockStands(j)'
    BY <2>2 DEF VerdictStands, LockStands
  <2> QED
    BY <2>3, <2>4, <2>5, <2>6 DEF JobStands
<1>6. QED
  BY <1>4, <1>5

-----------------------------------------------------------------------------
(* Every step keeps the invariant.                                          *)

\* An empty slot stands.
LEMMA InitInv == LedgerAssumption /\ Init => LedgerInv
<1> SUFFICES ASSUME LedgerAssumption, Init
             PROVE  LedgerInv
  OBVIOUS
<1>1. DOMAIN claims = {} /\ \A j \in Job : DOMAIN verdict[j] = {}
  BY DEF Init
<1>2. JobsTyped
  <2>1. \A j \in Job : Cardinality(batch[j]) <= BatchSize
    BY FS_EmptySet DEF Init, LedgerAssumption
  <2> QED
    BY <1>1, <2>1 DEF Init, JobsTyped, Phases, LedgerAssumption
<1>3. RowsStand
  BY <1>1 DEF RowsStand, ClaimsStand, OneOpen, RefutedStaysOut
<1>4. ASSUME NEW j \in Job
      PROVE  JobStands(j)
  <2>1. BatchStands(j)
    BY <1>1, FS_EmptySet DEF Init, BatchStands
  <2>2. lock # j /\ phase[j] = "unwritten"
    BY DEF Init, LedgerAssumption
  <2>3. TriesStand(j)
    BY DEF Init, TriesStand, LedgerAssumption
  <2> QED
    BY <2>1, <2>2, <2>3 DEF JobStands, VerdictStands, LockStands
<1>5. now \in 0..MaxNow /\ lock \in Job \cup {NoJob} /\ closings \in 0..MaxClosings
  BY DEF Init, LedgerAssumption, Endless
<1>6. QED
  BY <1>2, <1>3, <1>4, <1>5, InvParts

\* Time moves no plan, and closes nothing in transaction time.
LEMMA TickInv == LedgerAssumption /\ LedgerInv /\ Tick => LedgerInv'
<1> SUFFICES ASSUME LedgerAssumption, LedgerInv, Tick
             PROVE  LedgerInv'
  OBVIOUS
<1>1. now' \in 0..MaxNow /\ now <= now' /\ now' \in Nat
  BY InvParts DEF Tick, LedgerAssumption
<1>2. RowsStand'
  BY <1>1, ClosingsStand DEF Tick
<1>3. ASSUME NEW i \in Job
      PROVE  JobStands(i)'
  <2>1. UNCHANGED <<phase, batch, cand, matches, verdict, rounds, tries, lock, claims>>
    BY DEF Tick, jobVars
  <2> QED
    BY <2>1, <1>1, OthersStand
<1>4. JobsTyped'
  BY InvParts DEF Tick, jobVars, JobsTyped, Verdict, Fact, Key
<1>5. lock' = lock /\ closings' = closings
  BY DEF Tick
<1>6. QED
  BY <1>1, <1>2, <1>3, <1>4, <1>5, InvParts, InvRestored

\* Decay closes one row, whoever is in the lock.
LEMMA DecayInv ==
  ASSUME LedgerAssumption, LedgerInv, NEW k \in Key, Decay(k)
  PROVE  LedgerInv'
<1>1. now' = now /\ now \in 0..MaxNow /\ now' \in Nat /\ closings' \in 0..MaxClosings
  BY InvParts DEF Decay, LedgerAssumption
<1>2. DOMAIN claims' = DOMAIN claims
  BY DEF Decay
<1>3. \A l \in DOMAIN claims : claims'[l] = claims[l] \/ (claims'[l] = Close(claims[l]) /\ now' = now)
  BY <1>1 DEF Decay
<1>4. /\ RowsStand'
      /\ \A l \in DOMAIN claims : /\ claims'[l].from = claims[l].from /\ claims'[l].to = claims[l].to
                                  /\ claims'[l].stance = claims[l].stance
  BY <1>1, <1>2, <1>3, ClosingsStand
<1>5. UNCHANGED <<phase, batch, cand, matches, verdict, rounds, tries, lock>>
  BY DEF Decay, jobVars
<1>6. ASSUME NEW i \in Job
      PROVE  JobStands(i)'
  BY <1>1, <1>2, <1>4, <1>5, OthersStand
<1>7. JobsTyped'
  BY <1>5, InvParts DEF JobsTyped, Verdict, Fact, Key
<1>8. QED
  BY <1>1, <1>4, <1>5, <1>6, <1>7, InvParts, InvRestored

\* A source brings facts of its own time to a job that has planned nothing.
LEMMA WrittenInv ==
  ASSUME LedgerAssumption, LedgerInv, NEW j \in Job, NEW F \in SUBSET Fact, Written(j, F)
  PROVE  LedgerInv'
<1>1. JobsTyped /\ JobStands(j) /\ now \in Nat
  BY InvParts
<1>2. UNCHANGED <<now, claims, cand, matches, verdict, rounds, tries, lock, closings>>
  BY DEF Written
<1>3. phase'[j] = "queued" /\ batch'[j] = F /\ \A i \in Job \ {j} : phase'[i] = phase[i] /\ batch'[i] = batch[i]
  BY <1>1 DEF Written, JobsTyped
<1>4. JobsTyped'
  <2>1. phase' \in [Job -> Phases] /\ batch' \in [Job -> SUBSET Fact]
    BY <1>1 DEF Written, JobsTyped, Phases
  <2>2. \A i \in Job : Cardinality(batch'[i]) <= BatchSize
    BY <1>1, <1>3 DEF Written, JobsTyped
  <2> QED
    BY <1>1, <1>2, <2>1, <2>2 DEF JobsTyped, Verdict, Fact, Key
<1>5. RowsStand'
  BY <1>1, <1>2, ClosingsStand, InvParts
<1>6. JobStands(j)'
  <2>1. BatchStands(j) /\ phase[j] = "unwritten" /\ LockStands(j) /\ TriesStand(j)
    BY <1>1 DEF JobStands, Written
  <2>2. cand[j] = {} /\ DOMAIN verdict[j] = {} /\ lock # j /\ tries[j] < MaxTries
    BY <2>1 DEF BatchStands, LockStands, TriesStand
  <2>3. BatchStands(j)'
    BY <1>2, <1>3, <2>2 DEF BatchStands, Written
  <2> QED
    BY <1>2, <1>3, <2>2, <2>3 DEF JobStands, TriesStand, VerdictStands, LockStands
<1>7. ASSUME NEW i \in Job, i # j
      PROVE  JobStands(i)'
  BY <1>1, <1>2, <1>3, <1>7, OthersStand
<1>8. QED
  BY <1>2, <1>4, <1>5, <1>6, <1>7, InvParts, InvRestored

\* A retraction closes what a job wrote and takes the job out of the lock.
LEMMA RetractInv ==
  ASSUME LedgerAssumption, LedgerInv, NEW j \in Job, Retract(j)
  PROVE  LedgerInv'
<1>1. JobsTyped /\ now \in 0..MaxNow /\ now' = now /\ now' \in Nat /\ closings' \in 0..MaxClosings
  BY InvParts DEF Retract, LedgerAssumption
<1>2. DOMAIN claims' = DOMAIN claims
  BY DEF Retract
<1>3. \A l \in DOMAIN claims : claims'[l] = claims[l] \/ (claims'[l] = Close(claims[l]) /\ now' = now)
  BY <1>1 DEF Retract
<1>4. /\ RowsStand'
      /\ \A l \in DOMAIN claims : /\ claims'[l].from = claims[l].from /\ claims'[l].to = claims[l].to
                                  /\ claims'[l].stance = claims[l].stance
  BY <1>1, <1>2, <1>3, ClosingsStand
<1>5. /\ lock' # j /\ lock' \in Job \cup {NoJob} /\ \A i \in Job \ {j} : lock' = i <=> lock = i
  BY InvParts DEF Retract, LedgerAssumption
<1>6. JobsTyped' /\ JobStands(j)'
  <2>1. tries' \in [Job -> 0..MaxTries] /\ Forgets(j) /\ phase' = [phase EXCEPT ![j] = "gone"]
    BY <1>1 DEF Retract, JobsTyped
  <2> QED
    BY <1>5, <2>1, ForgottenStand
<1>7. ASSUME NEW i \in Job, i # j
      PROVE  JobStands(i)'
  <2>1. /\ phase'[i] = phase[i] /\ batch'[i] = batch[i] /\ cand'[i] = cand[i]
        /\ matches'[i] = matches[i] /\ verdict'[i] = verdict[i] /\ tries'[i] = tries[i]
    BY <1>1, <1>7 DEF Retract, Forgets, JobsTyped
  <2> QED
    BY <1>1, <1>2, <1>4, <1>5, <1>7, <2>1, OthersStand
<1>8. QED
  BY <1>1, <1>4, <1>5, <1>6, <1>7, InvParts, InvRestored

\* What is left of a batch are facts of the batch.
LEMMA PrepareInv ==
  ASSUME LedgerAssumption, LedgerInv, NEW j \in Job, Prepare(j)
  PROVE  LedgerInv'
<1>1. JobsTyped /\ JobStands(j) /\ now \in Nat
  BY InvParts
<1>2. UNCHANGED <<now, claims, batch, matches, verdict, rounds, tries, lock, closings>>
  BY DEF Prepare
<1>3. PICK G \in Collapsed(batch[j]) : cand' = [cand EXCEPT ![j] = Unclaimed(G)]
  BY DEF Prepare
<1>4. Unclaimed(G) \subseteq batch[j]
  BY DEF Unclaimed, Collapsed
<1>5. /\ phase'[j] = "new" /\ cand'[j] \subseteq batch[j]
      /\ \A i \in Job \ {j} : phase'[i] = phase[i] /\ cand'[i] = cand[i]
  BY <1>1, <1>3, <1>4 DEF Prepare, JobsTyped
<1>6. JobsTyped'
  <2>1. phase' \in [Job -> Phases] /\ cand' \in [Job -> SUBSET Fact]
    BY <1>1, <1>3, <1>4 DEF Prepare, JobsTyped, Phases
  <2> QED
    BY <1>1, <1>2, <2>1 DEF JobsTyped, Verdict, Fact, Key
<1>7. RowsStand'
  BY <1>1, <1>2, ClosingsStand, InvParts
<1>8. JobStands(j)'
  <2>1. BatchStands(j) /\ phase[j] = "queued" /\ LockStands(j) /\ TriesStand(j)
    BY <1>1 DEF JobStands, Prepare
  <2>2. BatchStands(j)'
    BY <1>2, <1>5, <2>1 DEF BatchStands
  <2> QED
    BY <1>2, <1>5, <2>1, <2>2 DEF JobStands, TriesStand, VerdictStands, LockStands
<1>9. ASSUME NEW i \in Job, i # j
      PROVE  JobStands(i)'
  BY <1>1, <1>2, <1>5, <1>9, OthersStand
<1>10. QED
  BY <1>2, <1>6, <1>7, <1>8, <1>9, InvParts, InvRestored

\* A plan is decided on what is current, outside the lock.
LEMMA PlanInv ==
  ASSUME LedgerAssumption, LedgerInv, NEW j \in Job, Plan(j)
  PROVE  LedgerInv'
<1>1. JobsTyped /\ JobStands(j) /\ now \in Nat
  BY InvParts
<1>2. phase[j] = "new" /\ Plans(j) /\ UNCHANGED <<now, claims, batch, cand, rounds, tries, lock, closings>>
  BY DEF Plan
<1>3. tries[j] < MaxTries /\ lock # j
  BY <1>1, <1>2 DEF JobStands, TriesStand, LockStands
<1>4. JobsTyped' /\ JobStands(j)'
  BY <1>1, <1>2, <1>3, PlannedStand DEF JobsTyped
<1>5. RowsStand'
  BY <1>1, <1>2, ClosingsStand, InvParts
<1>6. ASSUME NEW i \in Job, i # j
      PROVE  JobStands(i)'
  <2>1. phase'[i] = phase[i] /\ matches'[i] = matches[i] /\ verdict'[i] = verdict[i]
    BY <1>1, <1>2, <1>6 DEF Plans, JobsTyped
  <2> QED
    BY <1>1, <1>2, <2>1, OthersStand
<1>7. QED
  BY <1>2, <1>4, <1>5, <1>6, InvParts, InvRestored

\* What a job locks the slot on is current: open, not refuted, and not yet over.
LEMMA LockInv ==
  ASSUME LedgerAssumption, LedgerInv, NEW j \in Job, Lock(j)
  PROVE  LedgerInv'
<1>1. JobsTyped /\ JobStands(j) /\ now \in 0..MaxNow /\ now \in Nat /\ NoJob \notin Job
  BY InvParts DEF LedgerAssumption
<1>2. /\ phase[j] = "planned" /\ lock = NoJob /\ matches[j] = Current /\ lock' = j
      /\ UNCHANGED <<now, claims, batch, cand, matches, verdict, rounds, tries, closings>>
  BY DEF Lock, RestsOnCurrent
<1>3. phase'[j] = "locked" /\ \A i \in Job \ {j} : phase'[i] = phase[i]
  BY <1>1 DEF Lock, JobsTyped
<1>4. JobsTyped'
  <2>1. phase' \in [Job -> Phases]
    BY <1>1 DEF Lock, JobsTyped, Phases
  <2> QED
    BY <1>1, <1>2, <2>1 DEF JobsTyped, Verdict, Fact, Key
<1>5. RowsStand'
  BY <1>1, <1>2, ClosingsStand, InvParts
<1>6. JobStands(j)'
  <2>1. BatchStands(j) /\ TriesStand(j) /\ VerdictStands(j)
    BY <1>1 DEF JobStands
  <2>2. ASSUME NEW k \in Current
        PROVE  /\ k \in DOMAIN claims /\ claims[k].stance # "refuted"
               /\ claims[k].from < claims[k].to
               /\ Ahead = 0 => \A f \in batch[j] : f.from < claims[k].to
    <3>1. k \in DOMAIN claims /\ Open(claims[k]) /\ claims[k].from <= now /\ now < claims[k].to
      BY DEF Current, Holds
    <3>2. claims[k].stance # "refuted"
      BY <3>1 DEF LedgerInv, ClaimsStand
    <3>3. claims[k].from \in Nat /\ claims[k].to \in Nat
      BY <3>1 DEF LedgerInv, TypeOK, Claim
    <3>4. \A f \in batch[j] : f.from \in Nat /\ f.from <= now + Ahead
      <4>1. \A f \in batch[j] : f \in Fact
        BY <1>1 DEF JobsTyped
      <4> QED
        BY <4>1, <2>1 DEF Fact, LedgerAssumption, BatchStands
    <3> QED
      BY <1>1, <3>1, <3>2, <3>3, <3>4
  <2>3. LockStands(j)'
    BY <1>2, <1>3, <2>2 DEF LockStands
  <2>4. BatchStands(j)'
    BY <1>2, <1>3, <2>1 DEF BatchStands
  <2>5. TriesStand(j)' /\ VerdictStands(j)'
    BY <1>2, <1>3, <2>1 DEF TriesStand, VerdictStands
  <2> QED
    BY <2>3, <2>4, <2>5 DEF JobStands
<1>7. ASSUME NEW i \in Job, i # j
      PROVE  JobStands(i)'
  BY <1>1, <1>2, <1>3, <1>7, OthersStand
<1>8. QED
  BY <1>1, <1>2, <1>4, <1>5, <1>6, <1>7, InvParts, InvRestored

\* A stale plan is planned again or costs an attempt; no claim moves.
LEMMA AbandonInv ==
  ASSUME LedgerAssumption, LedgerInv, NEW j \in Job, Abandon(j)
  PROVE  LedgerInv'
<1>1. JobsTyped /\ JobStands(j) /\ now \in Nat /\ NoJob \notin Job /\ MaxRounds \in Nat
  BY InvParts DEF LedgerAssumption
<1>2. phase[j] = "planned" /\ lock # j /\ UNCHANGED <<now, claims, lock, closings>>
  BY <1>1 DEF Abandon
<1>3. tries[j] < MaxTries
  BY <1>1, <1>2 DEF JobStands, TriesStand
<1>4. /\ JobsTyped' /\ JobStands(j)'
      /\ \A i \in Job \ {j} : /\ phase'[i] = phase[i] /\ batch'[i] = batch[i] /\ cand'[i] = cand[i]
                              /\ matches'[i] = matches[i] /\ verdict'[i] = verdict[i] /\ tries'[i] = tries[i]
  <2>1. CASE rounds[j] + 1 < MaxRounds
    <3>1. Plans(j) /\ UNCHANGED <<batch, cand, tries>> /\ rounds' = [rounds EXCEPT ![j] = rounds[j] + 1]
      BY <2>1 DEF Abandon
    <3>2. rounds' \in [Job -> 0..(MaxRounds - 1)]
      BY <1>1, <2>1, <3>1 DEF JobsTyped
    <3>3. JobsTyped' /\ JobStands(j)'
      BY <1>2, <1>3, <3>1, <3>2, PlannedStand
    <3> QED
      BY <1>1, <3>1, <3>3 DEF Plans, JobsTyped
  <2>2. CASE ~ (rounds[j] + 1 < MaxRounds)
    <3>1. Raises(j)
      BY <2>2 DEF Abandon
    <3>2. JobsTyped' /\ JobStands(j)'
      BY <1>2, <3>1, RaisedStand
    <3> QED
      BY <1>1, <3>1, <3>2 DEF Raises, Forgets, JobsTyped
  <2> QED
    BY <2>1, <2>2
<1>5. RowsStand'
  BY <1>1, <1>2, ClosingsStand, InvParts
<1>6. ASSUME NEW i \in Job, i # j
      PROVE  JobStands(i)'
  BY <1>1, <1>2, <1>4, <1>6, OthersStand
<1>7. QED
  BY <1>2, <1>4, <1>5, <1>6, InvParts, InvRestored

\* What the holder of the lock does: it raises, or it writes and is done.
LEMMA ApplyCases ==
  ASSUME LedgerAssumption, LedgerInv, NEW j \in Job, Apply(j)
  PROVE  /\ phase[j] = "locked" /\ lock = j /\ lock' = NoJob /\ UNCHANGED <<now, closings>>
         /\ \/ Raises(j) /\ UNCHANGED claims
            \/ /\ phase' = [phase EXCEPT ![j] = "done"] /\ Forgets(j) /\ UNCHANGED tries
               /\ \E by \in Revisers(j) : \E end, J : Inserts(j, by, end, J)
<1>1. phase[j] = "locked" /\ lock' = NoJob /\ UNCHANGED <<now, closings>>
  BY DEF Apply
<1>2. lock = j
  BY <1>1 DEF LedgerInv, JobStands, LockStands
<1>3. PICK by \in Revisers(j) :
        \/ Raises(j) /\ UNCHANGED claims
        \/ /\ \E end \in [Kept(verdict[j]) -> UNION {Ends(by, f) : f \in Kept(verdict[j])}],
                 J \in Joiners(verdict[j]) :
                /\ \A f \in Kept(verdict[j]) : end[f] \in Ends(by, f)
                /\ claims' = With(Rewritten(j, by), j, Kept(verdict[j]), end, J)
           /\ phase' = [phase EXCEPT ![j] = "done"] /\ Forgets(j) /\ UNCHANGED tries
  BY DEF Apply, Rewritten
<1>4. QED
  BY <1>1, <1>2, <1>3 DEF Inserts

\* The write leaves the claims standing and the lock free.
LEMMA ApplyInv ==
  ASSUME LedgerAssumption, LedgerInv, NEW j \in Job, Apply(j)
  PROVE  LedgerInv'
<1>1. JobsTyped /\ JobStands(j) /\ now \in 0..MaxNow /\ now \in Nat /\ NoJob \notin Job
  BY InvParts DEF LedgerAssumption
<1>2. phase[j] = "locked" /\ lock = j /\ lock' = NoJob /\ UNCHANGED <<now, closings>>
  BY ApplyCases
<1>3. /\ JobsTyped' /\ JobStands(j)' /\ RowsStand'
      /\ \A i \in Job \ {j} : /\ phase'[i] = phase[i] /\ batch'[i] = batch[i] /\ cand'[i] = cand[i]
                              /\ matches'[i] = matches[i] /\ verdict'[i] = verdict[i] /\ tries'[i] = tries[i]
  <2>1. CASE Raises(j) /\ UNCHANGED claims
    <3>1. JobsTyped' /\ JobStands(j)'
      BY <1>1, <1>2, <2>1, RaisedStand
    <3>2. RowsStand'
      BY <1>1, <1>2, <2>1, ClosingsStand
    <3> QED
      BY <1>1, <2>1, <3>1, <3>2 DEF Raises, Forgets, JobsTyped
  <2>2. CASE /\ phase' = [phase EXCEPT ![j] = "done"] /\ Forgets(j) /\ UNCHANGED tries
             /\ \E by \in Revisers(j) : \E end, J : Inserts(j, by, end, J)
    <3>1. JobsTyped' /\ JobStands(j)'
      <4>1. tries' \in [Job -> 0..MaxTries] /\ lock' # j
        BY <1>1, <1>2, <2>2 DEF JobsTyped
      <4> QED
        BY <2>2, <4>1, ForgottenStand
    <3>2. RowsStand'
      BY <1>2, <2>2, InsertsStand
    <3> QED
      BY <1>1, <2>2, <3>1, <3>2 DEF Forgets, JobsTyped
  <2> QED
    BY <2>1, <2>2, ApplyCases
<1>4. ASSUME NEW i \in Job, i # j
      PROVE  JobStands(i)'
  <2>1. phase[i] # "locked"
    BY <1>2, <1>4 DEF LedgerInv, JobStands, LockStands
  <2>2. lock' # i /\ lock # i
    BY <1>1, <1>2, <1>4
  <2> QED
    BY <1>1, <1>2, <1>3, <1>4, <2>1, <2>2, OthersStand
<1>5. lock' \in Job \cup {NoJob} /\ closings' \in 0..MaxClosings
  BY <1>2, InvParts
<1>6. QED
  BY <1>1, <1>2, <1>3, <1>4, <1>5, InvRestored

\* Every step keeps the invariant.
LEMMA StepInv == LedgerAssumption /\ LedgerInv /\ [Next]_vars => LedgerInv'
<1> SUFFICES ASSUME LedgerAssumption, LedgerInv, [Next]_vars
             PROVE  LedgerInv'
  OBVIOUS
<1>1. CASE Tick
  BY <1>1, TickInv
<1>2. CASE \E k \in Key : Decay(k)
  BY <1>2, DecayInv
<1>3. CASE \E j \in Job, F \in SUBSET Fact : Written(j, F)
  BY <1>3, WrittenInv
<1>4. CASE \E j \in Job : Retract(j)
  BY <1>4, RetractInv
<1>5. CASE \E j \in Job : Prepare(j)
  BY <1>5, PrepareInv
<1>6. CASE \E j \in Job : Plan(j)
  BY <1>6, PlanInv
<1>7. CASE \E j \in Job : Lock(j)
  BY <1>7, LockInv
<1>8. CASE \E j \in Job : Abandon(j)
  BY <1>8, AbandonInv
<1>9. CASE \E j \in Job : Apply(j)
  BY <1>9, ApplyInv
<1>10. CASE UNCHANGED vars
  BY <1>10 DEF vars, jobVars, LedgerInv, TypeOK, ClaimsStand, OneOpen, RefutedStaysOut, JobStands,
     BatchStands, TriesStand, VerdictStands, LockStands
<1>11. QED
  BY <1>1, <1>2, <1>3, <1>4, <1>5, <1>6, <1>7, <1>8, <1>9, <1>10 DEF Next

\* Rows are closed and time passes, and a job writes.
Closes ==
  /\ now' \in 0..MaxNow /\ now <= now' /\ DOMAIN claims' = DOMAIN claims
  /\ \A k \in DOMAIN claims : claims'[k] = claims[k] \/ (claims'[k] = Close(claims[k]) /\ now' = now)

Writes(j) ==
  /\ phase[j] = "locked" /\ now' = now
  /\ phase' = [phase EXCEPT ![j] = "done"] /\ batch' = [batch EXCEPT ![j] = {}]
  /\ \E by \in Revisers(j) : \E end, J : Inserts(j, by, end, J)

\* A step closes rows and lets time pass, or it is the write of the lock's holder.
LEMMA ClosesOrWrites ==
  ASSUME LedgerAssumption, LedgerInv, [Next]_vars
  PROVE  Closes \/ \E j \in Job : Writes(j)
<1>1. now \in 0..MaxNow /\ now \in Nat /\ MaxNow \in Nat
  BY InvParts DEF LedgerAssumption
<1>2. CASE Tick
  BY <1>1, <1>2 DEF Tick, Closes
<1>3. CASE \E k \in Key : Decay(k)
  BY <1>1, <1>3 DEF Decay, Closes
<1>4. CASE \E j \in Job : Retract(j)
  BY <1>1, <1>4 DEF Retract, Closes
<1>5. CASE UNCHANGED <<now, claims>>
  BY <1>1, <1>5 DEF Closes
<1>6. CASE \E j \in Job : Apply(j)
  <2>1. PICK j \in Job : Apply(j)
    BY <1>6
  <2>2. CASE UNCHANGED claims
    BY <2>1, <2>2, <1>1, ApplyCases DEF Closes
  <2>3. CASE Writes(j)
    BY <2>3
  <2> QED
    BY <2>1, <2>2, <2>3, ApplyCases DEF Writes, Forgets
<1>7. QED
  BY <1>2, <1>3, <1>4, <1>5, <1>6 DEF Next, vars, Written, Prepare, Plan, Lock, Abandon

\* What a step may make of the facts a job plans on, and of what it is locked on.
LEMMA JobSteps ==
  ASSUME LedgerAssumption, LedgerInv, [Next]_vars, NEW i \in Job
  PROVE  /\ \/ batch'[i] = batch[i] \/ batch'[i] = {}
            \/ /\ batch'[i] \in SUBSET Fact /\ IsFiniteSet(batch'[i]) /\ Cardinality(batch'[i]) <= BatchSize
         /\ phase'[i] = "locked" =>
              \/ phase[i] = "locked" /\ matches'[i] = matches[i]
              \/ matches'[i] = Current /\ UNCHANGED <<now, claims>>
<1>1. JobsTyped
  BY InvParts
<1>2. CASE UNCHANGED <<phase, batch, matches>>
  BY <1>2
<1>3. CASE \E j \in Job, F \in SUBSET Fact : Written(j, F)
  <2>1. PICK j \in Job, F \in SUBSET Fact : Written(j, F)
    BY <1>3
  <2>2. batch'[i] = IF i = j THEN F ELSE batch[i]
    BY <2>1, <1>1 DEF Written, JobsTyped
  <2>3. phase'[i] = IF i = j THEN "queued" ELSE phase[i]
    BY <2>1, <1>1 DEF Written, JobsTyped
  <2> QED
    BY <2>1, <2>2, <2>3 DEF Written
<1>4. CASE \E j \in Job : Retract(j)
  <2>1. PICK j \in Job : Retract(j)
    BY <1>4
  <2>2. phase'[i] = IF i = j THEN "gone" ELSE phase[i]
    BY <2>1, <1>1 DEF Retract, JobsTyped
  <2> QED
    BY <2>1, <2>2, <1>1 DEF Retract, Forgets, JobsTyped
<1>5. CASE \E j \in Job : Prepare(j)
  BY <1>1, <1>5 DEF Prepare, JobsTyped
<1>6. CASE \E j \in Job : Plan(j)
  BY <1>1, <1>6 DEF Plan, Plans, JobsTyped
<1>7. CASE \E j \in Job : Lock(j)
  BY <1>1, <1>7 DEF Lock, RestsOnCurrent, JobsTyped
<1>8. CASE \E j \in Job : Abandon(j)
  BY <1>1, <1>8 DEF Abandon, Plans, Raises, Forgets, JobsTyped
<1>9. CASE \E j \in Job : Apply(j)
  <2>1. PICK j \in Job : Apply(j)
    BY <1>9
  <2>2. Raises(j) \/ (phase' = [phase EXCEPT ![j] = "done"] /\ Forgets(j))
    BY <2>1, ApplyCases
  <2> QED
    BY <2>2, <1>1 DEF Raises, Forgets, JobsTyped
<1>10. QED
  BY <1>2, <1>3, <1>4, <1>5, <1>6, <1>7, <1>8, <1>9 DEF Next, vars, jobVars, Tick, Decay

\* A claim of the past that a step does not open is current afterwards only if
\* it was before.
LEMMA CurrentShrinks ==
  ASSUME LedgerAssumption, LedgerInv, Closes, \A k \in DOMAIN claims : claims[k].from <= now
  PROVE  /\ \A k \in DOMAIN claims' : claims'[k].from <= now'
         /\ Current' \subseteq Current
<1>1. /\ now' \in 0..MaxNow /\ now <= now' /\ now \in Nat /\ now' \in Nat
      /\ \A k \in DOMAIN claims : claims[k] \in Claim
  BY DEF Closes, LedgerInv, TypeOK, LedgerAssumption
<1>2. /\ DOMAIN claims' = DOMAIN claims
      /\ \A k \in DOMAIN claims : /\ claims'[k].from = claims[k].from /\ claims'[k].to = claims[k].to
                                  /\ Open(claims'[k]) => Open(claims[k])
  BY ClosingsStand DEF Closes
<1>3. \A k \in DOMAIN claims' : claims'[k].from <= now'
  BY <1>1, <1>2 DEF Claim
<1>4. ASSUME NEW k \in Current'
      PROVE  k \in Current
  <2>1. k \in DOMAIN claims /\ Open(claims'[k]) /\ now' < claims'[k].to
    BY <1>2 DEF Current, Open, Holds
  <2>2. Open(claims[k]) /\ now' < claims[k].to /\ claims[k].to \in Nat
    BY <1>1, <1>2, <2>1 DEF Claim
  <2> QED
    BY <1>1, <2>1, <2>2 DEF Current, Holds
<1>5. QED
  BY <1>3, <1>4

\* The write of a job that matched all that was current leaves one claim current.
LEMMA WriteIsSole ==
  ASSUME LedgerAssumption, LedgerInv, Simple, SoleInv, NEW j \in Job, Writes(j)
  PROVE  /\ \A k \in DOMAIN claims' : claims'[k].from <= now'
         /\ \A k, l \in Current' : k = l
<1>1. PICK by \in Revisers(j) : \E end, J : Inserts(j, by, end, J)
  BY DEF Writes
<1>2. PICK end, J : Inserts(j, by, end, J)
  BY <1>1
<1>3. /\ phase[j] = "locked" /\ lock = j /\ now' = now /\ now \in Nat /\ Ahead = 0
      /\ Current \subseteq matches[j] /\ (\A k, l \in matches[j] : k = l)
      /\ BatchStands(j) /\ VerdictStands(j)
  BY DEF Writes, Simple, SoleInv, LedgerInv, TypeOK, JobStands, LockStands
<1>4. /\ \A k \in DOMAIN claims : k \in DOMAIN claims' /\ claims'[k] = Rewritten(j, by)[k]
      /\ \A k \in DOMAIN claims' \ DOMAIN claims :
           \E f \in Kept(verdict[j]) : k = <<j, f.statement>> /\ claims'[k] = Row(f, end, J)
  BY <1>2, InsertsStand
<1> DEFINE W == Kept(verdict[j])
<1>5. \A k \in DOMAIN claims :
        /\ claims'[k].from = claims[k].from /\ claims'[k].from <= now
        /\ claims[k] \in Claim /\ claims'[k] \in Claim
        /\ claims'[k].to <= claims[k].to /\ (Open(claims'[k]) => Open(claims[k]))
  <2> SUFFICES ASSUME NEW k \in DOMAIN claims
               PROVE  /\ claims'[k].from = claims[k].from /\ claims'[k].from <= now
                      /\ claims[k] \in Claim /\ claims'[k] \in Claim
                      /\ claims'[k].to <= claims[k].to /\ (Open(claims'[k]) => Open(claims[k]))
    OBVIOUS
  <2> QED
    BY <1>3, <1>4, RewrittenRow DEF SoleInv, LedgerInv, TypeOK
<1>6. /\ W \subseteq batch[j] /\ W \subseteq DOMAIN verdict[j] /\ W \subseteq Fact
      /\ \A f \in W : verdict[j][f].action # "NOOP" /\ f.from <= now
      /\ \A f, g \in W : f = g
  <2>1. W \subseteq DOMAIN verdict[j] /\ DOMAIN verdict[j] \subseteq batch[j]
    BY <1>3 DEF Kept, BatchStands
  <2>2. \A f \in W : verdict[j][f].action # "NOOP"
    BY DEF Kept, Deciding
  <2>3. batch[j] \subseteq Fact /\ \A f, g \in batch[j] : f = g
    BY DEF LedgerInv, TypeOK, SoleInv
  <2>4. \A f \in batch[j] : f.from \in Nat
    BY <2>3 DEF Fact, LedgerAssumption
  <2>5. \A f \in batch[j] : f.from <= now
    BY <1>3, <2>4 DEF BatchStands
  <2> HIDE DEF W
  <2> QED
    BY <2>1, <2>2, <2>3, <2>5
<1> HIDE DEF W
<1>7. ASSUME NEW k \in DOMAIN claims', k \notin DOMAIN claims
      PROVE  \E f \in W : /\ k = <<j, f.statement>>
                          /\ claims'[k].from = f.from /\ claims'[k].to = end[f]
  BY <1>4, <1>7 DEF Row, W
<1>8. \A k \in DOMAIN claims' : claims'[k].from <= now'
  BY <1>3, <1>5, <1>6, <1>7
<1>9. ASSUME NEW k \in Current', k \in DOMAIN claims
      PROVE  k \in Current /\ k \in matches[j] /\ Open(claims'[k])
  <2>1. Open(claims'[k]) /\ now < claims'[k].to
    BY <1>3 DEF Current, Open, Holds
  <2>2. Open(claims[k]) /\ now < claims[k].to /\ claims[k].from <= now
    BY <1>3, <1>5, <1>9, <2>1 DEF Claim
  <2> QED
    BY <1>3, <1>9, <2>1, <2>2 DEF Current, Holds
<1>10. ASSUME NEW k \in Current', NEW l \in Current', k \in DOMAIN claims, l \notin DOMAIN claims
      PROVE  FALSE
  <2>1. k \in matches[j] /\ Open(claims'[k]) /\ Open(claims[k])
    BY <1>5, <1>9, <1>10
  <2>2. l \in DOMAIN claims' /\ now < claims'[l].to
    BY <1>3 DEF Current, Holds
  <2>3. PICK f \in W : claims'[l].to = end[f]
    BY <1>7, <1>10, <2>2
  <2>4. /\ f \in batch[j] /\ f \in DOMAIN verdict[j] /\ f \in Fact
        /\ verdict[j][f] \in Decide(f, matches[j]) /\ ~ Contests(f)
    BY <1>3, <1>6 DEF VerdictStands, Simple
  <2>5. verdict[j][f].action = "UPDATE"
    <3>1. \/ verdict[j][f] = Noop
          \/ \E m \in matches[j] : verdict[j][f] = On("UPDATE", m)
      BY <2>1, <2>4 DEF Decide
    <3>2. Noop.action = "NOOP" /\ \A m : On("UPDATE", m).action = "UPDATE"
      BY DEF Noop, On
    <3>3. verdict[j][f].action # "NOOP"
      BY <1>6
    <3> QED
      BY <3>1, <3>2, <3>3
  <2>6. f \in Deciding(verdict[j], "UPDATE")
    BY <2>4, <2>5 DEF Deciding
  <2>7. by \in [matches[j] -> Deciding(verdict[j], "UPDATE")]
    BY <2>6 DEF Revisers
  <2>8. k \in DOMAIN by /\ by[k] = f /\ \A x \in DOMAIN by : x = k
    <3>1. by[k] \in batch[j]
      BY <1>3, <2>1, <2>7 DEF Deciding, BatchStands
    <3> QED
      BY <1>3, <2>1, <2>4, <2>7, <3>1 DEF SoleInv
  <2>9. end[f] = EndAgainst(f, claims[k])
    <3>1. end[f] \in Ends(by, f)
      BY <1>2 DEF W, Inserts
    <3>2. Ends(by, f) = {EndAgainst(f, claims[x]) : x \in {x \in DOMAIN by : by[x] = f}}
      BY <1>3, <2>6 DEF Ends
    <3> QED
      BY <2>8, <3>1, <3>2
  <2>10. Backdated(f, claims[k])
    <3>1. SUFFICES ASSUME ~ Backdated(f, claims[k])
                   PROVE  FALSE
      OBVIOUS
    <3> DEFINE r == Revise(f, claims[k])
    <3>2. r.until = now
      BY <1>5, <1>10, <3>1 DEF Revise, Claim
    <3>3. ~ Open(r)
      BY <3>2, <1>3 DEF Open, Endless, LedgerInv, TypeOK, LedgerAssumption
    <3>4. claims'[k] = Settled(verdict[j], k, r)
      BY <1>4, <1>10, <2>8 DEF Rewritten
    <3> HIDE DEF r
    <3>5. claims'[k] = r
      BY <3>3, <3>4 DEF Settled
    <3> QED
      BY <2>1, <3>3, <3>5
  <2>11. end[f] <= claims[k].from /\ end[f] \in Nat
    <3>1. f.to \in Nat /\ claims[k].from \in Nat
      BY <1>5, <1>10, <2>4 DEF Fact, Claim, LedgerAssumption
    <3> QED
      BY <2>9, <2>10, <3>1 DEF EndAgainst, LeastOf
  <2> QED
    BY <1>3, <1>5, <1>10, <2>2, <2>3, <2>11 DEF Claim
<1>11. ASSUME NEW k \in Current', NEW l \in Current'
       PROVE  k = l
  <2>1. k \in DOMAIN claims' /\ l \in DOMAIN claims'
    BY DEF Current
  <2>2. CASE k \in DOMAIN claims /\ l \in DOMAIN claims
    BY <1>3, <1>9, <2>2
  <2>3. CASE k \notin DOMAIN claims /\ l \notin DOMAIN claims
    BY <1>6, <1>7, <2>1, <2>3
  <2> QED
    BY <1>10, <2>2, <2>3
<1>12. QED
  BY <1>8, <1>11

\* Every step keeps the one current claim, and what the lock rests on.
LEMMA SoleStep ==
  ASSUME LedgerAssumption, Simple, LedgerInv, SoleInv, [Next]_vars
  PROVE  SoleInv'
<1>1. \A i \in Job : \A f, g \in batch'[i] : f = g
  <2> SUFFICES ASSUME NEW i \in Job, NEW f \in batch'[i], NEW g \in batch'[i]
               PROVE  f = g
    OBVIOUS
  <2>1. CASE batch'[i] = batch[i] \/ batch'[i] = {}
    BY <2>1 DEF SoleInv
  <2>2. CASE IsFiniteSet(batch'[i]) /\ Cardinality(batch'[i]) <= BatchSize
    <3>1. Cardinality(batch'[i]) \in Nat /\ BatchSize \in Nat /\ BatchSize <= 1
      BY <2>2, FS_CardinalityType DEF Simple, LedgerAssumption
    <3>2. {f, g} \subseteq batch'[i]
      OBVIOUS
    <3>3. Cardinality({f, g}) <= 1 /\ IsFiniteSet({f, g})
      <4> DEFINE B == batch'[i]
                 S == {f, g}
      <4>1. IsFiniteSet(B) /\ S \subseteq B /\ Cardinality(B) \in Nat /\ Cardinality(B) <= 1
        BY <2>2, <3>1, <3>2
      <4> HIDE DEF B, S
      <4>2. IsFiniteSet(S) /\ Cardinality(S) <= Cardinality(B) /\ Cardinality(S) \in Nat
        BY <4>1, FS_Subset, FS_CardinalityType
      <4> QED
        BY <4>1, <4>2 DEF S
    <3>4. SUFFICES ASSUME f # g PROVE FALSE
      OBVIOUS
    <3>5. Cardinality({f}) = 1 /\ IsFiniteSet({f})
      BY FS_Singleton
    <3>6. Cardinality({f} \cup {g}) = 2
      <4> DEFINE S == {f}
      <4>1. IsFiniteSet(S) /\ g \notin S /\ Cardinality(S) = 1
        BY <3>4, <3>5
      <4> HIDE DEF S
      <4>2. Cardinality(S \cup {g}) = Cardinality(S) + 1
        BY <4>1, FS_AddElement
      <4> QED
        BY <4>1, <4>2 DEF S
    <3>7. {f} \cup {g} = {f, g}
      OBVIOUS
    <3> QED
      BY <3>3, <3>6, <3>7
  <2> QED
    BY <2>1, <2>2, JobSteps
<1>2. CASE Closes
  <2>1. /\ \A k \in DOMAIN claims' : claims'[k].from <= now'
        /\ Current' \subseteq Current
    BY <1>2, CurrentShrinks DEF SoleInv
  <2>2. \A k, l \in Current' : k = l
    BY <2>1 DEF SoleInv
  <2>3. ASSUME NEW i \in Job, phase'[i] = "locked"
        PROVE  Current' \subseteq matches'[i] /\ \A k, l \in matches'[i] : k = l
    BY <2>1, <2>3, JobSteps DEF SoleInv
  <2> QED
    BY <1>1, <2>1, <2>2, <2>3 DEF SoleInv
<1>3. CASE \E j \in Job : Writes(j)
  <2>1. PICK j \in Job : Writes(j)
    BY <1>3
  <2>2. /\ \A k \in DOMAIN claims' : claims'[k].from <= now'
        /\ \A k, l \in Current' : k = l
    BY <2>1, WriteIsSole
  <2>3. \A i \in Job : phase'[i] # "locked"
    BY <2>1 DEF Writes, LedgerInv, TypeOK, JobStands, LockStands
  <2> QED
    BY <1>1, <2>2, <2>3 DEF SoleInv
<1>4. QED
  BY <1>2, <1>3, ClosesOrWrites

-----------------------------------------------------------------------------
\* What a job locked the slot on stays as it was, but for closings.
THEOREM LedgerStands == ASSUME LedgerAssumption PROVE Spec => []LedgerInv
<1>1. LedgerAssumption
  OBVIOUS
<1>2. Init => LedgerInv
  BY <1>1, InitInv
<1>3. LedgerInv /\ [Next]_vars => LedgerInv'
  BY <1>1, StepInv
<1>4. QED
  BY <1>2, <1>3, PTL DEF Spec

\* The slot's claims and the jobs on it are typed, whatever the sources say.
THEOREM LedgerTyped == ASSUME LedgerAssumption PROVE Spec => []TypeOK
<1>1. LedgerInv => TypeOK
  BY DEF LedgerInv
<1>2. QED
  BY <1>1, LedgerStands, PTL

\* A refuted statement is open again only in a claim of a later source.
THEOREM RefutationHolds == ASSUME LedgerAssumption PROVE Spec => []RefutedStaysOut
<1>1. LedgerInv => RefutedStaysOut
  BY DEF LedgerInv
<1>2. QED
  BY <1>1, LedgerStands, PTL

\* However projections, decay and retractions interleave, a statement is open
\* in one claim at a time.
THEOREM StatementsOpenOnce == ASSUME LedgerAssumption PROVE Spec => []OneOpen
<1>1. LedgerInv => OneOpen
  BY DEF LedgerInv
<1>2. QED
  BY <1>1, LedgerStands, PTL

\* Where no source dates a fact past its own writing, history is append-only:
\* no step removes a claim, reopens one, moves its start or prolongs it.
THEOREM HistoryIsAppended ==
  ASSUME LedgerAssumption, Ahead = 0
  PROVE  Spec => [][HistoryOnlyCloses]_vars
<1>1. LedgerInv /\ [Next]_vars => [HistoryOnlyCloses]_vars
  <2> SUFFICES ASSUME LedgerInv, [Next]_vars
               PROVE  HistoryOnlyCloses
    OBVIOUS
  <2>1. CASE Closes
    <3>1. \A k \in DOMAIN claims :
            /\ claims'[k].from = claims[k].from /\ claims'[k].to = claims[k].to
            /\ claims'[k].since = claims[k].since /\ (Open(claims'[k]) => Open(claims[k]))
      BY <2>1, ClosingsStand DEF Closes
    <3>2. \A k \in DOMAIN claims : claims[k].to <= claims[k].to
      BY DEF LedgerInv, TypeOK, Claim
    <3> QED
      BY <2>1, <3>1, <3>2 DEF Closes, HistoryOnlyCloses, Open
  <2>2. CASE \E j \in Job : Writes(j)
    BY <2>2, InsertsStand DEF Writes
  <2> QED
    BY <2>1, <2>2, ClosesOrWrites
<1>2. QED
  BY <1>1, LedgerStands, PTL DEF Spec

\* One value of a slot is current at a time, for any number of projections and
\* whatever closes claims between their planning and their writing, where a
\* chunk gives the slot one fact, stated outright and no later than its source.
THEOREM OneValueIsCurrent ==
  ASSUME LedgerAssumption, Simple
  PROVE  Spec => []SingleCurrent
<1>1. Init => SoleInv
  <2>1. ASSUME Init
        PROVE  DOMAIN claims = {} /\ \A j \in Job : batch[j] = {} /\ matches[j] = {} /\ phase[j] = "unwritten"
    BY <2>1 DEF Init
  <2> QED
    BY <2>1 DEF SoleInv, Current
<1>2. LedgerInv /\ SoleInv /\ [Next]_vars => SoleInv'
  BY SoleStep
<1>3. SoleInv => SingleCurrent
  <2> SUFFICES ASSUME SoleInv
               PROVE  Cardinality(Current) <= 1
    BY DEF SingleCurrent
  <2>1. CASE Current = {}
    BY <2>1, FS_EmptySet
  <2>2. CASE Current # {}
    <3>1. PICK k \in Current : Current = {k}
      BY <2>2 DEF SoleInv
    <3>2. Cardinality({k}) = 1
      BY FS_Singleton
    <3> QED
      BY <3>1, <3>2
  <2> QED
    BY <2>1, <2>2
<1>4. QED
  BY <1>1, <1>2, <1>3, LedgerStands, PTL DEF Spec
=============================================================================
