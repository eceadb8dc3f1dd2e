------------------------------ MODULE Uploads ------------------------------
(***************************************************************************)
(* Uploads: single-use grants and the stored-byte quota.                   *)
(*   artifacts/uploads.py     mint, claim, deliver                         *)
(*   artifacts/service.py     accept: scan, store, register                *)
(*   artifacts/repository.py  create_original under the user's quota lock  *)
(* A grant is minted under the lock of its user: prune, count, insert.  A  *)
(* request is a PUT with a grant's address or a file kept by its URI.  The *)
(* transaction of a request sees the originals of the scopes its user may  *)
(* read: a user of a redeemed grant reads only the grant's target, a user  *)
(* who keeps a URI reads every scope.                                      *)
(***************************************************************************)
EXTENDS Naturals, FiniteSets, FiniteSetsExt

CONSTANTS Grants,               \* mint calls, each of which makes at most one grant
          Puts,                 \* PUT requests to upload addresses
          Uris,                 \* files kept by their URI
          Users, Scopes,
          Owner, Target, Size,  \* of grants and URIs: who, where to, how many bytes
          Cap,                  \* api_upload_live_grants_per_caller
          Ttl,                  \* api_upload_ttl_seconds
          Limit,                \* object_store_user_byte_limit
          LastTick              \* bound of the clock
none == "none"

Items == Grants \cup Uris
Requests == Puts \cup Uris

UploadsAssumption ==
    /\ \A x \in Items : Owner[x] \in Users /\ Target[x] \in Scopes /\ Size[x] \in Nat
    /\ Grants \cap Requests = {} /\ Puts \cap Uris = {} /\ none \notin Items
    /\ Cap \in Nat /\ Ttl \in Nat /\ Limit \in Nat /\ LastTick \in Nat

VARIABLES clock,
          phase,    \* of each mint call and request
          stamp,    \* stamp[g]: `now` of the mint call
          rows,     \* upload_capability: the grants not yet consumed or pruned
          item,     \* item[r]: what the request stores
          objects,  \* requests whose object is in the bucket
          kept      \* requests whose original is registered
uploadVars == <<clock, phase, stamp, rows, item, objects, kept>>

UploadInit ==
          /\ clock = 0
          /\ phase = [x \in Grants \cup Requests |-> "idle"]
          /\ stamp = [g \in Grants |-> 0]
          /\ rows = {}
          /\ item = [r \in Requests |-> IF r \in Uris THEN r ELSE none]
          /\ objects = {}
          /\ kept = {}

Go(x, p) == phase' = [phase EXCEPT ![x] = p]

Tick == clock < LastTick /\ clock' = clock + 1
        /\ UNCHANGED <<phase, stamp, rows, item, objects, kept>>
-----------------------------------------------------------------------------
(* UploadBox.mint.                                                         *)

Expired(g, now) == stamp[g] + Ttl < now
Live(u, now) == {g \in rows : Owner[g] = u /\ ~Expired(g, now)}
MintLocked(u) == \E g \in Grants : Owner[g] = u /\ phase[g] = "counted"

\* `now` is taken before the transaction waits for the lock.
Arrive(g) ==
    /\ phase[g] = "idle"
    /\ stamp' = [stamp EXCEPT ![g] = clock]
    /\ Go(g, "waiting")
    /\ UNCHANGED <<clock, rows, item, objects, kept>>

\* The prune is the transaction's own until it commits; a refusal rolls it back.
CountGrants(g) ==
    /\ phase[g] = "waiting"
    /\ ~MintLocked(Owner[g])
    /\ Go(g, IF Cardinality(Live(Owner[g], stamp[g])) < Cap THEN "counted" ELSE "refused")
    /\ UNCHANGED <<clock, stamp, rows, item, objects, kept>>

Grant(g) ==
    /\ phase[g] = "counted"
    /\ rows' = {h \in rows : ~Expired(h, stamp[g])} \cup {g}
    /\ Go(g, "granted")
    /\ UNCHANGED <<clock, stamp, item, objects, kept>>
-----------------------------------------------------------------------------
(* A PUT: UploadBox.claim, the body, UploadBox.deliver.                    *)

\* A mutant: the row is read and left to the prune.
ClaimStays(p, g) ==
    /\ phase[p] = "idle" /\ phase[g] = "granted"
    /\ item' = [item EXCEPT ![p] = g]
    /\ Go(p, IF g \in rows /\ ~Expired(g, clock) THEN "claimed" ELSE "refused")
    /\ UNCHANGED <<clock, stamp, rows, objects, kept>>

\* DELETE .. RETURNING; an expired row is consumed too.
ClaimGrant(p, g) ==
    /\ phase[p] = "idle" /\ phase[g] = "granted"
    /\ item' = [item EXCEPT ![p] = g]
    /\ Go(p, IF g \in rows /\ ~Expired(g, clock) THEN "claimed" ELSE "refused")
    /\ rows' = rows \ {g}
    /\ UNCHANGED <<clock, stamp, objects, kept>>

\* The body has the declared size and hash and passes the scan, or the grant is
\* spent for nothing.
Receive(p) ==
    /\ \/ phase[p] = "claimed"
       \/ p \in Uris /\ phase[p] = "idle"
    /\ \/ objects' = objects \cup {p} /\ Go(p, "stored")
       \/ UNCHANGED objects /\ Go(p, "refused")
    /\ UNCHANGED <<clock, stamp, rows, item, kept>>
-----------------------------------------------------------------------------
(* ArtifactRepository.create_original.                                     *)

QuotaLocked(u) == \E r \in Requests : phase[r] = "summed" /\ Owner[item[r]] = u

\* What the user of the request may read.
Readable(r) == IF r \in Puts THEN {Target[item[r]]} ELSE Scopes

Bytes(S) == MapThenSumSet(LAMBDA r : Size[item[r]], S)
Own(u) == {r \in kept : Owner[item[r]] = u}
Used(r) == Bytes({o \in Own(Owner[item[r]]) : Target[item[o]] \in Readable(r)})

\* A mutant: sums without the lock.
SumUnlocked(r) ==
    /\ phase[r] = "stored"
    /\ IF Used(r) + Size[item[r]] <= Limit
       THEN Go(r, "summed") /\ UNCHANGED objects
       ELSE Go(r, "refused") /\ objects' = objects \ {r}
    /\ UNCHANGED <<clock, stamp, rows, item, kept>>

\* The sum fits, or the request is refused and its object deleted.
Sum(r) ==
    /\ phase[r] = "stored"
    /\ ~QuotaLocked(Owner[item[r]])
    /\ IF Used(r) + Size[item[r]] <= Limit
       THEN Go(r, "summed") /\ UNCHANGED objects
       ELSE Go(r, "refused") /\ objects' = objects \ {r}
    /\ UNCHANGED <<clock, stamp, rows, item, kept>>

\* A database error: rolled back, and the object is deleted.
Fail(r) ==
    /\ phase[r] = "summed"
    /\ Go(r, "refused")
    /\ objects' = objects \ {r}
    /\ UNCHANGED <<clock, stamp, rows, item, kept>>

Register(r) ==
    /\ phase[r] = "summed"
    /\ Go(r, "kept")
    /\ kept' = kept \cup {r}
    /\ UNCHANGED <<clock, stamp, rows, item, objects>>

Mint(g) == Arrive(g) \/ CountGrants(g) \/ Grant(g)
Handle(r) == Receive(r) \/ Sum(r) \/ Fail(r) \/ Register(r)
UploadNext == \/ Tick
              \/ \E g \in Grants : Mint(g)
              \/ \E p \in Puts, g \in Grants : ClaimGrant(p, g)
              \/ \E r \in Requests : Handle(r)

UploadSpec == UploadInit /\ [][UploadNext]_uploadVars
-----------------------------------------------------------------------------
UploadTypeOK ==
    /\ clock \in 0..LastTick
    /\ phase \in [Grants \cup Requests -> {"idle", "waiting", "counted", "granted", "claimed",
                                           "stored", "summed", "kept", "refused"}]
    /\ stamp \in [Grants -> 0..LastTick]
    /\ rows \subseteq {g \in Grants : phase[g] = "granted"}
    /\ item \in [Requests -> Items \cup {none}]
    /\ kept = {r \in Requests : phase[r] = "kept"}

\* "Redemption is single use" (dev/write/artifacts.mdx): no two PUTs take one
\* grant, however they race.
SingleUse ==
    \A p, q \in Puts : /\ p # q /\ item[p] = item[q]
                       /\ phase[p] \notin {"idle", "refused"}
                       => phase[q] = "refused"

\* "a caller may hold at most api_upload_live_grants_per_caller": however its
\* mints race, no user holds more addresses that a claim would still honour.
CapHolds == \A u \in Users : Cardinality(Live(u, clock)) <= Cap

\* A request that was refused leaves nothing in the bucket, and one that was
\* kept has its bytes there.
ObjectsReconcile ==
    /\ kept \subseteq objects
    /\ \A r \in Requests : phase[r] = "refused" => r \notin objects

\* "each users stored byte quota" (tests/store/test_artifact.py), as the code
\* keeps it: what a user has kept in one target never exceeds the allowance.  A
\* PUT sums what the restored caller can read, which is its target alone
\* (UploadTicket.restore), so two targets may take the allowance twice.
TargetAllowanceHolds ==
    \A u \in Users, s \in Scopes : Bytes({r \in Own(u) : Target[item[r]] = s}) <= Limit
=============================================================================
