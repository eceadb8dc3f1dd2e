------------------------- MODULE CoordinationLocks -------------------------
(***************************************************************************)
(* Transaction-scoped locks (store/locking.py).  A transaction calls       *)
(* acquire_locks any number of times; each call sorts its keys and takes   *)
(* them one after another, waiting for those that others hold, and all are *)
(* released when the transaction ends.  One call is safe by itself; what   *)
(* several calls of one transaction take is up to its caller:              *)
(*   - a share (graph/promote.py) takes its documents, then the artifacts  *)
(*     of those documents, then for each document in the order given the   *)
(*     lock of its original in the target;                                 *)
(*   - an ingested batch (extract/ingest.py) takes the lock of each        *)
(*     document it refreshes, in the order of its sources;                 *)
(*   - a graph write, a RAPTOR build, an upload grant take theirs at once. *)
(* A key is <<family, name>>, ordered by Rank as the strings are.          *)
(***************************************************************************)
EXTENDS Naturals, Sequences, FiniteSets, Functions

CONSTANTS Transactions,
          LockKey,
          Rank,  \* Rank[k]: the place of a key among the sorted strings
          Calls  \* Calls[t]: the key sets of t's acquire_locks calls, in order

LocksAssumption ==
    /\ Rank \in [LockKey -> Nat]
    /\ \A j, k \in LockKey : Rank[j] = Rank[k] => j = k
    /\ Calls \in [Transactions -> Seq(SUBSET LockKey)]

-----------------------------------------------------------------------------
(* What the code's transactions take, given its documents and artifacts.   *)

DocumentKey(d) == <<"document", d>>
ArtifactKey(a) == <<"artifact", a>>
ShareKey(uri) == <<"artifact_share", uri>>

\* Promoter.carry of documents `docs` into one target.
ShareCalls(docs, artifactOf, uriOf) ==
    <<{DocumentKey(docs[i]) : i \in DOMAIN docs},
      {ArtifactKey(artifactOf[docs[i]]) : i \in DOMAIN docs}>>
    \o [i \in DOMAIN docs |-> {ShareKey(uriOf[artifactOf[docs[i]]])}]

\* GraphWriter: every slot of a batch's facts, in one call.
WriteCalls(slots) == <<{<<"fact", s>> : s \in slots}>>

\* TextIngestor._store of changed sources that replace documents `docs`.
IngestCalls(docs) == [i \in DOMAIN docs |-> {DocumentKey(docs[i])}]

-----------------------------------------------------------------------------
VARIABLES held,  \* held[t]: the keys t has taken
          stage  \* stage[t]: the call it is in; past the last, it works and ends
lockVars == <<held, stage>>

LockInit ==
        /\ held = [t \in Transactions |-> {}]
        /\ stage = [t \in Transactions |-> 1]

Running(t) == stage[t] <= Len(Calls[t])
Awaited(t) == Calls[t][stage[t]] \ held[t]

NextUnsorted(t, k) == k \in Awaited(t)   \* mutant: the keys of a call as they come
NextKey(t, k) == k \in Awaited(t) /\ \A j \in Awaited(t) : Rank[k] <= Rank[j]

Take(t) ==
    /\ Running(t)
    /\ \E k \in LockKey :
          /\ NextKey(t, k)
          /\ \A u \in Transactions \ {t} : k \notin held[u]
          /\ held' = [held EXCEPT ![t] = @ \cup {k}]
    /\ UNCHANGED stage

\* The call returns, and the transaction goes on to its next one.
Return(t) ==
    /\ Running(t)
    /\ Awaited(t) = {}
    /\ stage' = [stage EXCEPT ![t] = @ + 1]
    /\ UNCHANGED held

\* Commit or rollback releases every lock.
End(t) ==
    /\ stage[t] = Len(Calls[t]) + 1
    /\ stage' = [stage EXCEPT ![t] = @ + 1]
    /\ held' = [held EXCEPT ![t] = {}]

Step(t) == Take(t) \/ Return(t) \/ End(t)
LockNext == \E t \in Transactions : Step(t)

LockSpec == LockInit /\ [][LockNext]_lockVars
-----------------------------------------------------------------------------
LockTypeOK ==
    /\ held \in [Transactions -> SUBSET LockKey]
    /\ stage \in [Transactions -> Nat]
    /\ \A t \in Transactions : /\ stage[t] \in 1..(Len(Calls[t]) + 2)
                               /\ stage[t] = Len(Calls[t]) + 2 => held[t] = {}

\* t waits for u: the key t needs next is u's.
WaitsFor(t, u) == t # u /\ Running(t) /\ \E k \in held[u] : NextKey(t, k)

\* "queue behind each other instead of each holding what the other waits for"
\* (Promoter.carry): no set of transactions in which each waits for another.
NoCircularWait ==
    \A S \in (SUBSET Transactions) \ {{}} : \E t \in S : \A u \in S : ~WaitsFor(t, u)

\* Whoever waits for one of `keys` needs a key above those of them it holds, so
\* along a chain of waiting transactions the keys only rise.
RiseIn(order, keys) ==
    \A t, u \in Transactions : WaitsFor(t, u) =>
        \A j, k \in keys : NextKey(t, j) /\ Running(u) /\ NextKey(u, k) => order[j] < order[k]
KeysRise == RiseIn(Rank, LockKey)

\* "Locks are taken in one global order" (Promoter.carry): as far as `keys` go,
\* each call sorts along `order` and a later call takes keys above those of the
\* earlier ones.
GlobalOrder(order, keys) ==
    /\ order \in [LockKey -> Nat]
    /\ \A t \in Transactions : \A m, n \in 1..Len(Calls[t]) :
          \A j \in Calls[t][m] \cap keys, k \in Calls[t][n] \cap keys :
              j # k /\ (m < n \/ (m = n /\ Rank[j] < Rank[k])) => order[j] < order[k]

\* "every promoter queues on the same keys in the same order before it reaches
\* that finer lock" (Promoter.artifact_keys): whoever asks for a key of guard's
\* domain has asked for its guard in an earlier call.
Guarded(guard) ==
    \A t \in Transactions : \A n \in 1..Len(Calls[t]) :
        \A k \in Calls[t][n] \cap DOMAIN guard :
            \E m \in 1..Len(Calls[t]) : m < n /\ guard[k] \in Calls[t][m]

\* A transaction that has neither committed nor rolled back.
IsOpen(t) == stage[t] # Len(Calls[t]) + 2
=============================================================================
