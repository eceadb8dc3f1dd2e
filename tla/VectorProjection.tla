-------------------------- MODULE VectorProjection --------------------------
(***************************************************************************)
(* The scoped vector projection of the CockroachDB profile: a private      *)
(* table with one vector per claim, kept by triggers, and read only        *)
(* through two definer functions that check the caller's scopes            *)
(* themselves (migrations/cockroachdb/scoped_cspann.py, store/vector.py).  *)
(*                                                                         *)
(* A fact claim is current between valid_from and valid_to and while its   *)
(* recorded range is open; entity claims have no interval (Timed is        *)
(* FALSE), and a chunk, community, profile or session item is projected as *)
(* such a claim that is its own content.  The triggers run when a row is   *)
(* written, never when the clock moves.  CockroachDB transactions are      *)
(* serializable, so a statement and its triggers are one step.  An         *)
(* embedding is abstracted to its distance from the one query asked.       *)
(***************************************************************************)
EXTENDS Naturals, FiniteSets

CONSTANTS
  Claims, Contents,
  Scopes,           \* scopes a claim may be filed under, singly or together
  Read, Public,     \* the caller's readable and public scopes
  Distances,        \* the distances an embedding may have, a set of numbers
  Timed,            \* fact claims, else entity claims
  Ahead,            \* how far ahead of the clock a claim may be dated
  Horizon,          \* bound on the clock
  Limit,            \* candidates a search returns
  Null

ProjectionAssumption ==
  /\ Timed \in BOOLEAN /\ {Ahead, Horizon} \subseteq Nat /\ Limit \in Nat \ {0}
  /\ Distances \subseteq Nat /\ Read \cup Public \subseteq Scopes

VARIABLES
  now,
  embedding,        \* embedding[x] of a content: its distance, or Null
  claim,            \* claim[c]: Null, or the stored claim
  vector            \* vector[c]: Null, or the projected row of claim c

vars == <<now, embedding, claim, vector>>

RowScopes == SUBSET Scopes \ {{}}
Times == 0 .. Horizon + Ahead + 1

Init ==
  /\ now = 0
  /\ embedding = [x \in Contents |-> Null]
  /\ claim = [c \in Claims |-> Null]
  /\ vector = [c \in Claims |-> Null]

\* recorded_to IS NULL, valid_from not in the future, valid_to not passed.
Current(k, at) ==
  k.open /\ (Timed => (k.from <= at /\ (k.to = Null \/ k.to > at)))

-----------------------------------------------------------------------------
(* The definer helpers the triggers call.                                  *)

\* write_vector: the old row goes, and a kept row with an embedding comes.
Projected(k, x, keep) ==
  IF keep /\ embedding[x] # Null
  THEN [content |-> x, scopes |-> k.scopes, distance |-> embedding[x]]
  ELSE Null

Sync(c, k) ==
  vector' = [vector EXCEPT ![c] = Projected(k, k.content, Current(k, now))]

Refresh(x, e) ==
  vector' = [c \in Claims |->
    IF claim[c] = Null \/ claim[c].content # x THEN vector[c]
    ELSE IF e = Null \/ ~ Current(claim[c], now) THEN Null
    ELSE [content |-> x, scopes |-> claim[c].scopes, distance |-> e]]

-----------------------------------------------------------------------------
(* The writers.                                                            *)

\* A content gets its embedding, or another one after a change of model.
Embed(x, e) ==
  /\ embedding[x] # e
  /\ embedding' = [embedding EXCEPT ![x] = e]
  /\ Refresh(x, e)
  /\ UNCHANGED <<now, claim>>

\* A claim is filed on a stored content, dated by its statement or source.
File(c, x, scopes, from, to) ==
  /\ claim[c] = Null
  /\ from <= now + Ahead /\ (to # Null => to > from)
  /\ LET k == [content |-> x, scopes |-> scopes, from |-> from, to |-> to, open |-> TRUE]
     IN /\ claim' = [claim EXCEPT ![c] = k]
        /\ Sync(c, k)
  /\ UNCHANGED <<now, embedding>>

\* A correction, a decay or a retraction closes the recorded range; a merge
\* of entities points the claim at the surviving content.
Rewrite(c, k) ==
  /\ claim' = [claim EXCEPT ![c] = k]
  /\ Sync(c, k)
  /\ UNCHANGED <<now, embedding>>

Close(c) ==
  claim[c] # Null /\ claim[c].open /\ Timed /\ Rewrite(c, [claim[c] EXCEPT !.open = FALSE])

Repoint(c, x) ==
  /\ claim[c] # Null /\ claim[c].content # x
  /\ Rewrite(c, [claim[c] EXCEPT !.content = x])

Delete(c) ==
  /\ claim[c] # Null
  /\ claim' = [claim EXCEPT ![c] = Null]
  /\ vector' = [vector EXCEPT ![c] = Null]
  /\ UNCHANGED <<now, embedding>>

Tick == now < Horizon /\ now' = now + 1 /\ UNCHANGED <<embedding, claim, vector>>

Next ==
  \/ Tick
  \/ \E x \in Contents, e \in Distances : Embed(x, e)
  \/ \E c \in Claims, x \in Contents, s \in RowScopes, from \in Times, to \in Times \cup {Null} :
       /\ Timed \/ (from = 0 /\ to = Null)
       /\ File(c, x, s, from, to)
  \/ \E c \in Claims : Close(c) \/ Delete(c) \/ \E x \in Contents : Repoint(c, x)

Spec == Init /\ [][Next]_vars

-----------------------------------------------------------------------------
(* The readers.                                                            *)

Authorized(scopes) ==
  \/ scopes \subseteq Read
  \/ Cardinality(scopes) = 1 /\ scopes \subseteq Public

Partitions ==
  {s \in RowScopes : Authorized(s) /\ \E c \in Claims : vector[c] # Null /\ vector[c].scopes = s}

\* The nearest rows of a set, at most Limit of them; ids break ties.
Before(rank, c, d) ==
  \/ vector[c].distance < vector[d].distance
  \/ vector[c].distance = vector[d].distance /\ rank[c] < rank[d]
Nearest(rank, rows) ==
  {c \in rows : Cardinality({d \in rows : Before(rank, d, c)}) < Limit}

\* cspann_search refuses a scope set the caller has no standing in.
Search(rank, scopes) ==
  IF Authorized(scopes)
  THEN Nearest(rank, {c \in Claims : vector[c] # Null /\ vector[c].scopes = scopes})
  ELSE {}

\* scoped_vector_candidates: each visible partition searched, then merged.
Candidates(rank) ==
  Nearest(rank, UNION {Search(rank, s) : s \in Partitions})

-----------------------------------------------------------------------------
TypeOK ==
  /\ now \in 0 .. Horizon
  /\ embedding \in [Contents -> Distances \cup {Null}]
  /\ \A c \in Claims : claim[c] # Null =>
       /\ claim[c].content \in Contents /\ claim[c].scopes \in RowScopes
       /\ claim[c].from \in Times /\ claim[c].to \in Times \cup {Null}
  /\ \A c \in Claims : vector[c] # Null =>
       vector[c].scopes \in RowScopes /\ vector[c].distance \in Distances

\* A projected vector is the vector of a stored claim: it carries the content
\* the claim points at now, that content's embedding, and the claim's scopes,
\* through every order of embeddings, corrections, merges and deletes.
VectorIsClaims ==
  \A c \in Claims : vector[c] # Null =>
    /\ claim[c] # Null
    /\ vector[c].content = claim[c].content
    /\ vector[c].scopes = claim[c].scopes
    /\ vector[c].distance = embedding[claim[c].content]

\* A claim that is current and embedded is a candidate for the searches of
\* its scope set.  It holds while no claim is dated ahead of the clock: a
\* claim filed before its valid_from is projected only if something writes
\* the row or re-embeds its content after that moment.
CurrentProjected ==
  \A c \in Claims :
    (claim[c] # Null /\ Current(claim[c], now) /\ embedding[claim[c].content] # Null)
       => vector[c] # Null

\* A claim that was closed leaves the projection for good.
ClosedLeaves ==
  \A c \in Claims : (claim[c] # Null /\ ~ claim[c].open) => vector[c] = Null

\* Searching partition by partition and merging returns the nearest visible
\* rows, as one search over all that the caller may see would.
MergedIsGlobal ==
  \A rank \in {[c \in Claims |-> Cardinality({d \in Claims : r[d] < r[c]})] :
                 r \in {f \in [Claims -> 1 .. Cardinality(Claims)] :
                          \A c, d \in Claims : f[c] = f[d] => c = d}} :
    Candidates(rank) = Nearest(rank, {c \in Claims : vector[c] # Null /\ Authorized(vector[c].scopes)})
=============================================================================
