--------------------------- MODULE AuthorityCache ---------------------------
(***************************************************************************)
(* How a request learns what its caller may read and write (auth.py,       *)
(* integrations/logto/client.py).  Every process resolves callers from     *)
(* Logto through caches whose entries live logto_cache_seconds (TTL): one  *)
(* of the caller's organizations, one of the organization catalog and one  *)
(* of the public organizations, which is itself loaded from the catalog's  *)
(* cache.  A load that fails is held as "nothing".  Organization changes   *)
(* made through a process evict that process's entries when they succeed   *)
(* (OrganizationManager); Logto's console and other processes do not.      *)
(*                                                                         *)
(* One caller and one organization.  The caller's load lists organizations *)
(* and then reads permissions; requests for the same entry share the load  *)
(* in flight, and an eviction makes later requests start another.  Time is *)
(* in ticks; a request is resolved in the tick in which it began.          *)
(***************************************************************************)
EXTENDS Naturals, TLAPS

CONSTANTS
    Processes,    \* servers, each with its own caches
    Requests,     \* requests in flight at once
    TTL,          \* logto_cache_seconds, in ticks
    PublicFlags,  \* what the organization's public flag may be
    MaxTime, MaxChanges, MaxFaults   \* bounds

CacheAssumption ==
    PublicFlags \subseteq BOOLEAN /\ TTL \in Nat \ {0} /\ MaxTime \in Nat /\ MaxChanges \in Nat

Standings == {"out", "reader", "writer"}

VARIABLES
    standing, public, account,   \* what Logto holds
    version,                     \* number of changes Logto has seen
    now,
    held, heldPublic,            \* history: what each tick saw
    slot,                        \* _cached_user_orgs of each process
    catalog, publics,            \* _cached_organizations, _cached_public_orgs
    request, load,               \* each request, and the load it started
    manager, evicted,            \* organization changes, the version last evicted for
    faults

vars == <<standing, public, account, version, now, held, heldPublic, slot, catalog,
          publics, request, load, manager, evicted, faults>>

truth == <<standing, public, account, version, held, heldPublic>>

Empty == [kind |-> "empty"]
IdleRequest == [stage |-> "idle"]
NoLoad == [stage |-> "none"]
Ticks == 0..MaxTime

Init ==
    /\ standing \in Standings /\ public \in PublicFlags /\ account = "active"
    /\ version = 0 /\ now = 0 /\ faults = 0
    /\ held = [t \in Ticks |-> IF t = 0 THEN {standing} ELSE {}]
    /\ heldPublic = [t \in Ticks |-> IF t = 0 THEN {public} ELSE {}]
    /\ slot = [p \in Processes |-> Empty]
    /\ catalog = [p \in Processes |-> Empty] /\ publics = [p \in Processes |-> Empty]
    /\ request = [r \in Requests |-> IdleRequest]
    /\ load = [r \in Requests |-> NoLoad]
    /\ manager = [p \in Processes |-> "idle"]
    /\ evicted = [p \in Processes |-> 0]

-----------------------------------------------------------------------------
(* Logto (external) and time.                                              *)

Becomes(s, b, a) ==
    /\ version < MaxChanges /\ version' = version + 1
    /\ standing' = s /\ public' = b /\ account' = a
    /\ held' = [held EXCEPT ![now] = @ \cup {s}]
    /\ heldPublic' = [heldPublic EXCEPT ![now] = @ \cup {b}]

Console ==
    /\ \/ \E s \in Standings \ {standing} : Becomes(s, public, account)
       \/ \E b \in PublicFlags \ {public} : Becomes(standing, b, account)
       \/ account = "active" /\ Becomes(standing, public, "suspended")
    /\ UNCHANGED <<now, slot, catalog, publics, request, load, manager, evicted, faults>>

Expired(e) == e.kind = "value" /\ now + 1 >= e.kept + TTL

Tick ==
    /\ now < MaxTime /\ now' = now + 1
    /\ \A r \in Requests : request[r].stage \in {"idle", "served"}
    /\ held' = [held EXCEPT ![now + 1] = {standing}]
    /\ heldPublic' = [heldPublic EXCEPT ![now + 1] = {public}]
    /\ slot' = [p \in Processes |-> IF Expired(slot[p]) THEN Empty ELSE slot[p]]
    /\ catalog' = [p \in Processes |-> IF Expired(catalog[p]) THEN Empty ELSE catalog[p]]
    /\ publics' = [p \in Processes |-> IF Expired(publics[p]) THEN Empty ELSE publics[p]]
    /\ UNCHANGED <<standing, public, account, version, request, load, manager, evicted,
                   faults>>

-----------------------------------------------------------------------------
(* An organization change made through a process.                          *)

Change(p) ==   \* Logto answers the request
    /\ manager[p] = "idle"
    /\ \E s \in Standings \ {standing} : Becomes(s, public, account)
    /\ \/ manager' = [manager EXCEPT ![p] = "changed"] /\ UNCHANGED faults
       \/ /\ faults < MaxFaults /\ faults' = faults + 1   \* the answer is lost: it raises
          /\ manager' = [manager EXCEPT ![p] = "raised"]
    /\ UNCHANGED <<now, slot, catalog, publics, request, load, evicted>>

EvictAll(p) ==   \* caches.invalidate(subject, ...)
    /\ slot' = [slot EXCEPT ![p] = Empty]
    /\ catalog' = [catalog EXCEPT ![p] = Empty]
    /\ publics' = [publics EXCEPT ![p] = Empty]

Evict(p) ==
    /\ manager[p] = "changed"
    /\ manager' = [manager EXCEPT ![p] = "idle"]
    /\ EvictAll(p)
    /\ evicted' = [evicted EXCEPT ![p] = version]
    /\ UNCHANGED <<truth, now, request, load, faults>>

-----------------------------------------------------------------------------
(* A request resolves its caller.                                          *)

\* `floor` and `suspended` are history: what the request may no longer miss.
Begin(r) ==
    /\ request[r].stage \in {"idle", "served"}
    /\ load[r].stage \in {"none", "done"}
    /\ \A q \in Requests : request[q].stage = "waiting" => request[q].on # r
    /\ \E p \in Processes :
         LET new(stage, on) == [stage |-> stage, at |-> p, on |-> on, floor |-> evicted[p],
                                floorAll |-> version, suspended |-> account = "suspended"]
         IN CASE slot[p].kind = "value" ->
                  /\ request' = [request EXCEPT ![r] = new("known", r)]
                  /\ load' = [load EXCEPT ![r] = [stage |-> "done", value |-> slot[p].value,
                                                  version |-> slot[p].version]]
                  /\ UNCHANGED slot
              [] slot[p].kind = "task" ->
                  /\ request' = [request EXCEPT ![r] = new("waiting", slot[p].of)]
                  /\ load' = [load EXCEPT ![r] = NoLoad]
                  /\ UNCHANGED slot
              [] slot[p].kind = "empty" ->
                  /\ request' = [request EXCEPT ![r] = new("waiting", r)]
                  /\ load' = [load EXCEPT ![r] = [stage |-> "listing", at |-> p]]
                  /\ slot' = [slot EXCEPT ![p] = [kind |-> "task", of |-> r]]
    /\ UNCHANGED <<truth, now, catalog, publics, manager, evicted, faults>>

\* (faulty) a load puts its entry back whatever happened to the slot
KeepAnyway(r, p, v, n) ==
    /\ load' = [load EXCEPT ![r] = [stage |-> "done", value |-> v, version |-> n]]
    /\ slot' = [slot EXCEPT ![p] = [kind |-> "value", value |-> v, version |-> n, kept |-> now]]

Keep(r, p, v, n) ==   \* the load is over; its entry is kept unless it was evicted
    /\ load' = [load EXCEPT ![r] = [stage |-> "done", value |-> v, version |-> n]]
    /\ slot' = IF slot[p] = [kind |-> "task", of |-> r]
               THEN [slot EXCEPT ![p] = [kind |-> "value", value |-> v, version |-> n,
                                         kept |-> now]]
               ELSE slot

List(r) ==   \* GET the caller's organizations
    /\ load[r].stage = "listing"
    /\ IF standing = "out"
       THEN Keep(r, load[r].at, "out", version)
       ELSE /\ load' = [load EXCEPT ![r] = [stage |-> "scopes", at |-> @.at,
                                            version |-> version]]
            /\ UNCHANGED slot
    /\ UNCHANGED <<truth, now, catalog, publics, request, manager, evicted, faults>>

\* What a failed read of the permissions leaves the caller with.
Closed == "reader"

\* GET the caller's permissions there; the list is not read again.
Permit(r) ==
    /\ load[r].stage = "scopes"
    /\ \/ /\ Keep(r, load[r].at, IF standing = "writer" THEN "writer" ELSE "reader",
                  load[r].version)
          /\ UNCHANGED faults
       \/ /\ faults < MaxFaults /\ faults' = faults + 1
          /\ Keep(r, load[r].at, Closed, load[r].version)
    /\ UNCHANGED <<truth, now, catalog, publics, request, manager, evicted>>

LoadFails(r) ==   \* _closed: the whole load failed, and nothing is cached as the answer
    /\ load[r].stage = "listing"
    /\ faults < MaxFaults /\ faults' = faults + 1
    /\ Keep(r, load[r].at, "out", version)
    /\ UNCHANGED <<truth, now, catalog, publics, request, manager, evicted>>

\* public_orgs(): from its own entry, or from the catalog's, or from Logto.
Publics(p) ==
    IF publics[p].kind = "value" THEN publics[p]
    ELSE [kind |-> "value", kept |-> now,
          value |-> IF catalog[p].kind = "value" THEN catalog[p].value ELSE public]

Known(r) == load[request[r].on].stage = "done"

\* The caller's authority is complete: read what it is a member of or what is
\* public, write what it is permitted to (User.authorized).
Serve(r) ==
    LET k == request[r]  p == k.at  got == load[k.on] IN
    /\ k.stage \in {"known", "waiting"} /\ Known(r)
    /\ publics' = [publics EXCEPT ![p] = Publics(p)]
    /\ catalog' = [catalog EXCEPT ![p] =
                     IF publics[p].kind = "empty" /\ @.kind = "empty"
                     THEN [kind |-> "value", kept |-> now, value |-> public] ELSE @]
    /\ request' = [request EXCEPT ![r] =
          [stage |-> "served", at |-> p, floor |-> k.floor, floorAll |-> k.floorAll,
           suspended |-> k.suspended, version |-> got.version, when |-> now,
           member |-> got.value # "out", write |-> got.value = "writer",
           public |-> Publics(p).value]]
    /\ UNCHANGED <<truth, now, slot, load, manager, evicted, faults>>

Next ==
    \/ Console \/ Tick
    \/ \E p \in Processes : Change(p) \/ Evict(p)
    \/ \E r \in Requests : Begin(r) \/ List(r) \/ Permit(r) \/ LoadFails(r) \/ Serve(r)

Spec == Init /\ [][Next]_vars

-----------------------------------------------------------------------------
TypeOK ==
    /\ standing \in Standings /\ public \in BOOLEAN /\ account \in {"active", "suspended"}
    /\ version \in 0..MaxChanges /\ now \in Ticks
    /\ \A p \in Processes :
         /\ slot[p].kind = "value" => slot[p].value \in Standings /\ slot[p].kept <= now
         /\ slot[p].kind = "task" => load[slot[p].of].stage \in {"listing", "scopes"}

Served == {r \in Requests : request[r].stage = "served"}
Recent(r, n) == {t \in Ticks : t <= request[r].when /\ t + n > request[r].when}

\* No request acts on more standing than Logto granted its caller within the
\* last TTL, though loads fail, overlap with changes and are shared: a failure
\* closes access instead of keeping it (_closed, alru_cache).
StandingIsRecent ==
    \A r \in Served :
        /\ request[r].member =>
             \E t \in Recent(r, TTL) : held[t] \cap {"reader", "writer"} # {}
        /\ request[r].write => \E t \in Recent(r, TTL) : "writer" \in held[t]

\* Nothing is read as public that was not public within the last TTL, though
\* the public entry is filled from the catalog's entry and both expire alone:
\* "the change reaches aizk within about a minute, because authority is cached
\* for 60 seconds" (troubleshooting.md:70).
PublicIsRecent ==
    \A r \in Served : request[r].public => \E t \in Recent(r, TTL) : TRUE \in heldPublic[t]

\* A change made through a process shows in every request that begins there
\* once the change is over, a load in flight meanwhile notwithstanding.
OwnChangesShow == \A r \in Served : request[r].version >= request[r].floor
-----------------------------------------------------------------------------
(***************************************************************************)
(* Proofs, for every number of processes and requests and every TTL.  An   *)
(* entry was true at the tick it was kept in and goes before TTL ticks are *)
(* over; a load lists and reads permissions within one tick, as its        *)
(* request waits for it; and both public entries are one reading.          *)
(***************************************************************************)

\* Standing v is one Logto granted the caller in tick t.
Backed(v, t) ==
    /\ v # "out" => held[t] \cap {"reader", "writer"} # {}
    /\ v = "writer" => "writer" \in held[t]

\* An entry kept in tick t is still there in tick n.
Alive(t, n) == t \in Ticks /\ t <= n /\ n < t + TTL

Histories ==
    /\ standing \in Standings /\ public \in BOOLEAN
    /\ account \in {"active", "suspended"}
    /\ version \in 0..MaxChanges /\ now \in Ticks
    /\ held \in [Ticks -> SUBSET Standings] /\ heldPublic \in [Ticks -> SUBSET BOOLEAN]
    /\ standing \in held[now] /\ public \in heldPublic[now]
    /\ \A p \in Processes : evicted[p] \in Nat /\ evicted[p] <= version

Shapes ==
    /\ DOMAIN slot = Processes /\ DOMAIN catalog = Processes /\ DOMAIN publics = Processes
    /\ DOMAIN request = Requests /\ DOMAIN load = Requests
    /\ DOMAIN evicted = Processes

InFlight(r) == load[r].stage \in {"listing", "scopes"}
Resolving(q) == request[q].stage \in {"known", "waiting"}

\* A kept entry was true when it was kept, and was read after the last eviction.
SlotStands(p) ==
    \/ slot[p] = Empty
    \/ /\ slot[p].kind = "value" /\ slot[p].value \in Standings
       /\ Alive(slot[p].kept, now) /\ Backed(slot[p].value, slot[p].kept)
       /\ slot[p].version \in Nat /\ evicted[p] <= slot[p].version /\ slot[p].version <= version
    \/ \E r \in Requests :
         /\ slot[p] = [kind |-> "task", of |-> r] /\ InFlight(r) /\ load[r].at = p
         /\ load[r].stage = "scopes" => evicted[p] <= load[r].version

\* Both public entries are one reading.
PublicStands(p) ==
    /\ catalog[p] = publics[p]
    /\ \/ publics[p] = Empty
       \/ /\ publics[p].kind = "value" /\ publics[p].value \in BOOLEAN
          /\ Alive(publics[p].kept, now)
          /\ publics[p].value => TRUE \in heldPublic[publics[p].kept]

\* A load in flight is waited for by the request that began it.
LoadStands(r) ==
    /\ load[r].stage \in {"none", "listing", "scopes", "done"}
    /\ InFlight(r) => /\ load[r].at \in Processes
                      /\ request[r].stage = "waiting" /\ request[r].on = r
    /\ load[r].stage = "scopes" => held[now] \cap {"reader", "writer"} # {}
    /\ load[r].stage \in {"scopes", "done"} => load[r].version \in Nat /\ load[r].version <= version
    /\ load[r].stage = "done" => load[r].value \in Standings

\* What a request waits for or was told holds, and reflects its process's changes.
RequestStands(q) ==
    /\ request[q].stage \in {"idle", "known", "waiting", "served"}
    /\ Resolving(q) =>
         LET r == request[q].on IN
         /\ r \in Requests /\ request[q].at \in Processes
         /\ load[r].stage # "none"
         /\ request[q].stage = "known" => r = q
         /\ request[q].floor \in Nat /\ request[q].floor <= version
         /\ load[r].stage \in {"scopes", "done"} => request[q].floor <= load[r].version
         /\ load[r].stage = "done" => \E t \in Ticks : Alive(t, now) /\ Backed(load[r].value, t)

\* What a served request acted on was so within the last TTL.
ServedStands(q) ==
    request[q].stage = "served" =>
      /\ request[q].when \in Ticks /\ request[q].when <= now
      /\ request[q].version >= request[q].floor
      /\ request[q].member =>
           \E t \in Recent(q, TTL) : held[t] \cap {"reader", "writer"} # {}
      /\ request[q].write => \E t \in Recent(q, TTL) : "writer" \in held[t]
      /\ request[q].public => \E t \in Recent(q, TTL) : TRUE \in heldPublic[t]

AuthorityInv ==
    /\ Histories /\ Shapes
    /\ \A p \in Processes : SlotStands(p) /\ PublicStands(p)
    /\ \A r \in Requests : LoadStands(r) /\ RequestStands(r) /\ ServedStands(r)
-----------------------------------------------------------------------------
\* Time goes on and what Logto is seen to have held is never forgotten.
Grows ==
    /\ now' \in Ticks /\ now <= now'
    /\ \A t \in Ticks : t <= now => held[t] \subseteq held'[t] /\ heldPublic[t] \subseteq heldPublic'[t]

\* Nothing is cached, loaded or asked at first.
LEMMA AuthorityInit == ASSUME CacheAssumption PROVE Init => AuthorityInv
<1> SUFFICES ASSUME Init PROVE AuthorityInv
    OBVIOUS
<1> USE CacheAssumption DEF CacheAssumption
<1>1. now \in Ticks /\ version \in 0..MaxChanges /\ standing \in Standings /\ public \in BOOLEAN
    BY DEF Init, Ticks
<1>2. Histories
    BY <1>1 DEF Init, Histories, Standings
<1>3. Shapes
    BY DEF Init, Shapes
<1>4. ASSUME NEW p \in Processes PROVE SlotStands(p) /\ PublicStands(p)
    BY DEF Init, SlotStands, PublicStands, Empty
<1>5. ASSUME NEW r \in Requests PROVE LoadStands(r) /\ RequestStands(r) /\ ServedStands(r)
    BY DEF Init, LoadStands, RequestStands, ServedStands, Resolving, InFlight, IdleRequest, NoLoad
<1> QED BY <1>2, <1>3, <1>4, <1>5 DEF AuthorityInv

\* What a served request acted on stays so.
LEMMA ServedKept ==
    ASSUME Grows, now \in Ticks, MaxTime \in Nat, NEW q \in Requests, ServedStands(q),
           request'[q] = request[q]
    PROVE  ServedStands(q)'
<1>1. \A t \in Recent(q, TTL) : t \in Ticks /\ t \in Recent(q, TTL)' /\ t <= request[q].when
    BY DEF Recent
<1> SUFFICES ASSUME request[q].stage = "served"
             PROVE  ServedStands(q)'
    BY DEF ServedStands
<1>2. /\ request[q].when \in Ticks /\ request[q].when <= now
      /\ request[q].version >= request[q].floor
      /\ request[q].member =>
           \E t \in Recent(q, TTL) : held[t] \cap {"reader", "writer"} # {}
      /\ request[q].write => \E t \in Recent(q, TTL) : "writer" \in held[t]
      /\ request[q].public => \E t \in Recent(q, TTL) : TRUE \in heldPublic[t]
    BY DEF ServedStands
<1>3. \A t \in Recent(q, TTL) : t <= now
    BY <1>1, <1>2 DEF Ticks
<1>4. \A t \in Recent(q, TTL) : held[t] \subseteq held'[t] /\ heldPublic[t] \subseteq heldPublic'[t]
    BY <1>1, <1>3 DEF Grows
<1>5. request[q].when <= now'
    BY <1>2 DEF Grows, Ticks
<1>6. request'[q].member => \E t \in Recent(q, TTL)' : held'[t] \cap {"reader", "writer"} # {}
    BY <1>1, <1>2, <1>4
<1>7. request'[q].write => \E t \in Recent(q, TTL)' : "writer" \in held'[t]
    BY <1>1, <1>2, <1>4
<1>8. request'[q].public => \E t \in Recent(q, TTL)' : TRUE \in heldPublic'[t]
    BY <1>1, <1>2, <1>4
<1> QED BY <1>2, <1>5, <1>6, <1>7, <1>8 DEF ServedStands

\* Logto grants, revokes or suspends: what the processes hold is as true as before.
LEMMA LogtoChanges ==
    ASSUME CacheAssumption, AuthorityInv, NEW s \in Standings, NEW b \in BOOLEAN,
           NEW a \in {"active", "suspended"}, Becomes(s, b, a),
           UNCHANGED <<now, slot, catalog, publics, request, load, evicted>>
    PROVE  AuthorityInv'
<1> USE CacheAssumption DEF CacheAssumption
<1>1. now \in Ticks /\ now' = now /\ version \in Nat /\ version' = version + 1 /\ version' \in 0..MaxChanges
    BY DEF AuthorityInv, Histories, Becomes
<1>2. \A t \in Ticks : held[t] \subseteq held'[t] /\ heldPublic[t] \subseteq heldPublic'[t]
    BY DEF AuthorityInv, Histories, Becomes
<1>3. Grows
    BY <1>1, <1>2 DEF Grows, Ticks
<1>4. Histories'
  <2>1. held' \in [Ticks -> SUBSET Standings] /\ heldPublic' \in [Ticks -> SUBSET BOOLEAN]
      BY DEF AuthorityInv, Histories, Becomes
  <2>2. standing' \in held'[now'] /\ public' \in heldPublic'[now'] /\ standing' \in Standings
        /\ public' \in BOOLEAN /\ account' \in {"active", "suspended"}
      BY <1>1 DEF AuthorityInv, Histories, Becomes
  <2>3. \A p \in Processes : evicted'[p] \in Nat /\ evicted'[p] <= version'
      BY <1>1 DEF AuthorityInv, Histories
  <2> QED BY <1>1, <2>1, <2>2, <2>3 DEF Histories
<1>5. Shapes'
    BY DEF AuthorityInv, Shapes
<1>6. ASSUME NEW p \in Processes PROVE SlotStands(p)' /\ PublicStands(p)'
  <2>1. SlotStands(p) /\ PublicStands(p)
      BY DEF AuthorityInv
  <2>2. PublicStands(p)'
      BY <1>1, <1>2, <2>1 DEF PublicStands, Alive
  <2>3. \A v, t : Alive(t, now) /\ Backed(v, t) => Alive(t, now)' /\ Backed(v, t)'
      BY <1>1, <1>2 DEF Alive, Backed
  <2>4. CASE slot[p] = Empty
      BY <2>2, <2>4 DEF SlotStands, Empty
  <2>5. CASE slot[p].kind = "value" /\ slot[p] # Empty
    <3>1. slot[p].kind = "value" /\ ~ \E r \in Requests : slot[p] = [kind |-> "task", of |-> r]
        BY <2>5, \A r : [kind |-> "task", of |-> r].kind = "task"
    <3>2. /\ slot[p].value \in Standings
          /\ Alive(slot[p].kept, now) /\ Backed(slot[p].value, slot[p].kept)
          /\ slot[p].version \in Nat /\ evicted[p] <= slot[p].version /\ slot[p].version <= version
        BY <2>1, <2>5, <3>1 DEF SlotStands
    <3>3. Alive(slot[p].kept, now)' /\ Backed(slot[p].value, slot[p].kept)'
        BY <1>1, <1>2, <3>2 DEF Alive, Backed
    <3> QED BY <1>1, <2>2, <3>1, <3>2, <3>3 DEF SlotStands, Empty
  <2>6. CASE \E r \in Requests :
               /\ slot[p] = [kind |-> "task", of |-> r] /\ InFlight(r) /\ load[r].at = p
               /\ load[r].stage = "scopes" => evicted[p] <= load[r].version
      BY <1>1, <2>2, <2>6 DEF SlotStands, InFlight, Empty
  <2> QED BY <2>1, <2>2, <2>4, <2>5, <2>6 DEF SlotStands
<1>7. ASSUME NEW r \in Requests PROVE LoadStands(r)' /\ RequestStands(r)' /\ ServedStands(r)'
  <2>1. LoadStands(r) /\ RequestStands(r) /\ ServedStands(r)
      BY DEF AuthorityInv
  <2>2. LoadStands(r)'
      BY <1>1, <1>2, <2>1 DEF LoadStands, InFlight
  <2>3. RequestStands(r)'
    <3>1. \A q \in Requests : (\E t \in Ticks : Alive(t, now) /\ Backed(load[q].value, t))
                => \E t \in Ticks : Alive(t, now)' /\ Backed(load[q].value, t)'
        BY <1>1, <1>2 DEF Alive, Backed
    <3> QED BY <1>1, <2>1, <3>1 DEF RequestStands, Resolving
  <2>4. ServedStands(r)'
      BY <1>1, <1>3, <2>1, ServedKept
  <2> QED BY <2>2, <2>3, <2>4
<1> QED BY <1>4, <1>5, <1>6, <1>7 DEF AuthorityInv

\* What Logto holds and the evictions stay.
LEMMA HistoriesKept ==
    ASSUME AuthorityInv, UNCHANGED <<truth, now, evicted>>
    PROVE  Histories' /\ Grows
BY DEF AuthorityInv, Histories, Grows, truth, Ticks

\* The kind of an entry tells which of the three it is.
LEMMA SlotKinds ==
    ASSUME NEW p \in Processes, SlotStands(p)
    PROVE  /\ slot[p].kind \in {"value", "task", "empty"}
           /\ slot[p].kind = "value" =>
                /\ slot[p].value \in Standings
                /\ Alive(slot[p].kept, now) /\ Backed(slot[p].value, slot[p].kept)
                /\ slot[p].version \in Nat /\ evicted[p] <= slot[p].version
                /\ slot[p].version <= version
           /\ slot[p].kind = "task" =>
                \E r \in Requests :
                  /\ slot[p] = [kind |-> "task", of |-> r] /\ InFlight(r) /\ load[r].at = p
                  /\ load[r].stage = "scopes" => evicted[p] <= load[r].version
<1>1. CASE slot[p] = Empty
  <2>1. slot[p].kind = "empty"
      BY <1>1 DEF Empty
  <2> QED BY <2>1
<1>2. CASE \E r \in Requests :
             /\ slot[p] = [kind |-> "task", of |-> r] /\ InFlight(r) /\ load[r].at = p
             /\ load[r].stage = "scopes" => evicted[p] <= load[r].version
  <2>1. slot[p].kind = "task"
      BY <1>2
  <2> QED BY <1>2, <2>1
<1>3. CASE slot[p] # Empty /\ ~ \E r \in Requests :
             /\ slot[p] = [kind |-> "task", of |-> r] /\ InFlight(r) /\ load[r].at = p
             /\ load[r].stage = "scopes" => evicted[p] <= load[r].version
    BY <1>3 DEF SlotStands
<1> QED BY <1>1, <1>2, <1>3

\* An entry of a process nobody touched, whose load goes on.
LEMMA SlotKept ==
    ASSUME NEW p \in Processes, SlotStands(p), slot'[p] = slot[p],
           UNCHANGED <<truth, now, evicted>>,
           \A q \in Requests : slot[p] = [kind |-> "task", of |-> q] => load'[q] = load[q]
    PROVE  SlotStands(p)'
BY DEF SlotStands, Empty, InFlight, Alive, Backed, truth

\* A load that goes on, and the request that waits for it.
LEMMA LoadKept ==
    ASSUME NEW r \in Requests, LoadStands(r), load'[r] = load[r], UNCHANGED <<truth, now>>,
           InFlight(r) => request'[r] = request[r]
    PROVE  LoadStands(r)'
BY DEF LoadStands, InFlight, truth

\* A request nobody touched, whose load goes on.
LEMMA RequestKept ==
    ASSUME NEW q \in Requests, RequestStands(q), request'[q] = request[q],
           UNCHANGED <<truth, now>>,
           Resolving(q) => load'[request[q].on] = load[request[q].on]
    PROVE  RequestStands(q)'
BY DEF RequestStands, Resolving, Alive, Backed, truth

\* A load ends with a standing that holds now: it answers whoever waits for it,
\* and its entry stays unless it was evicted meanwhile.
LEMMA KeepStands ==
    ASSUME CacheAssumption, AuthorityInv, NEW r \in Requests, InFlight(r),
           NEW v \in Standings, Backed(v, now), NEW n \in Nat, n <= version,
           load[r].stage = "scopes" => load[r].version <= n,
           load[r].stage = "listing" => n = version,
           Keep(r, load[r].at, v, n),
           UNCHANGED <<truth, now, catalog, publics, request, evicted>>
    PROVE  AuthorityInv'
<1>1. Histories' /\ Grows /\ now \in Ticks /\ MaxTime \in Nat /\ TTL \in Nat \ {0} /\ version \in Nat
    BY HistoriesKept DEF AuthorityInv, CacheAssumption, Histories
<1>2. /\ load[r].at \in Processes /\ request[r].on = r /\ request[r].stage = "waiting"
      /\ load[r].stage = "scopes" => load[r].version \in Nat
    BY DEF AuthorityInv, LoadStands
<1>3. /\ load'[r] = [stage |-> "done", value |-> v, version |-> n]
      /\ \A q \in Requests \ {r} : load'[q] = load[q]
      /\ DOMAIN load' = Requests
    BY DEF Keep, AuthorityInv, Shapes
<1>4. /\ DOMAIN slot' = Processes
      /\ \A p \in Processes :
           IF p = load[r].at /\ slot[p] = [kind |-> "task", of |-> r]
           THEN slot'[p] = [kind |-> "value", value |-> v, version |-> n, kept |-> now]
           ELSE slot'[p] = slot[p]
    BY DEF Keep, AuthorityInv, Shapes
<1>5. Shapes'
    BY <1>3, <1>4 DEF AuthorityInv, Shapes
<1>6. Alive(now, now)
    BY <1>1 DEF Alive, Ticks
<1>7. ASSUME NEW p \in Processes PROVE SlotStands(p)' /\ PublicStands(p)'
  <2>1. SlotStands(p) /\ PublicStands(p) /\ evicted[p] \in Nat /\ evicted[p] <= version
      BY DEF AuthorityInv, Histories
  <2>2. PublicStands(p)'
      BY <2>1 DEF PublicStands, Alive, truth, Empty
  <2>3. CASE slot[p] = [kind |-> "task", of |-> r]
    <3>1. slot[p].kind = "task" /\ slot[p].of = r
        BY <2>3
    <3>2. load[r].at = p /\ (load[r].stage = "scopes" => evicted[p] <= load[r].version)
      <4>1. slot[p] # Empty /\ slot[p].kind # "value"
          BY <3>1 DEF Empty
      <4>2. PICK q \in Requests :
                /\ slot[p] = [kind |-> "task", of |-> q] /\ load[q].at = p
                /\ load[q].stage = "scopes" => evicted[p] <= load[q].version
          BY <2>1, <4>1 DEF SlotStands
      <4>3. q = r
          BY <3>1, <4>2
      <4> QED BY <4>2, <4>3
    <3>3. slot'[p] = [kind |-> "value", value |-> v, version |-> n, kept |-> now]
        BY <1>4, <2>3, <3>2
    <3>4. evicted[p] <= n
        BY <1>2, <2>1, <3>2 DEF InFlight
    <3>5. Alive(now, now)' /\ Backed(v, now)'
        BY <1>6 DEF Alive, Backed, truth
    <3> QED BY <2>2, <3>3, <3>4, <3>5 DEF SlotStands, truth
  <2>4. CASE slot[p] # [kind |-> "task", of |-> r]
    <3>1. slot'[p] = slot[p]
        BY <1>4, <2>4
    <3>2. \A q \in Requests : slot[p] = [kind |-> "task", of |-> q] => load'[q] = load[q]
        BY <1>3, <2>4
    <3> QED BY <2>1, <2>2, <3>1, <3>2, SlotKept
  <2> QED BY <2>3, <2>4
<1>8. ASSUME NEW q \in Requests PROVE LoadStands(q)' /\ RequestStands(q)' /\ ServedStands(q)'
  <2>1. LoadStands(q) /\ RequestStands(q) /\ ServedStands(q)
      BY DEF AuthorityInv
  <2>2. LoadStands(q)'
    <3>1. CASE q = r
        BY <1>3, <3>1 DEF LoadStands, InFlight, truth
    <3>2. CASE q # r
        BY <1>3, <2>1, <3>2, LoadKept
    <3> QED BY <3>1, <3>2
  <2>3. RequestStands(q)'
    <3>1. CASE Resolving(q) /\ request[q].on = r
      <4>1. /\ r \in Requests /\ request[q].at \in Processes
            /\ request[q].stage = "known" => r = q
            /\ request[q].floor \in Nat /\ request[q].floor <= version
            /\ load[r].stage \in {"scopes", "done"} => request[q].floor <= load[r].version
          BY <2>1, <3>1 DEF RequestStands
      <4>2. request[q].floor <= n
          BY <1>2, <4>1 DEF InFlight
      <4>3. Alive(now, now)' /\ Backed(v, now)'
          BY <1>6 DEF Alive, Backed, truth
      <4>4. now \in Ticks' /\ request'[q].stage \in {"idle", "known", "waiting", "served"}
          BY <1>1, <3>1 DEF Ticks, Resolving
      <4> QED BY <1>3, <3>1, <4>1, <4>2, <4>3, <4>4 DEF RequestStands, Resolving, truth
    <3>2. CASE ~(Resolving(q) /\ request[q].on = r)
      <4>1. Resolving(q) => request[q].on \in Requests \ {r}
          BY <2>1, <3>2 DEF RequestStands
      <4> QED BY <1>3, <2>1, <4>1, RequestKept
    <3> QED BY <3>1, <3>2
  <2>4. ServedStands(q)'
      BY <1>1, <2>1, ServedKept
  <2> QED BY <2>2, <2>3, <2>4
<1> QED BY <1>1, <1>5, <1>7, <1>8 DEF AuthorityInv

\* A tick passes between requests: what is as old as the TTL goes.
LEMMA TickStands == ASSUME CacheAssumption, AuthorityInv, Tick PROVE AuthorityInv'
<1> USE CacheAssumption DEF CacheAssumption
<1>1. /\ now \in Ticks /\ now + 1 \in Ticks /\ now' = now + 1 /\ now \in Nat /\ MaxTime \in Nat
      /\ TTL \in Nat \ {0} /\ version \in Nat
    BY DEF AuthorityInv, Histories, Tick, Ticks
<1>2. /\ \A t \in Ticks : t # now + 1 => held'[t] = held[t] /\ heldPublic'[t] = heldPublic[t]
      /\ held'[now'] = {standing} /\ heldPublic'[now'] = {public}
      /\ held' \in [Ticks -> SUBSET Standings] /\ heldPublic' \in [Ticks -> SUBSET BOOLEAN]
    BY <1>1 DEF AuthorityInv, Histories, Tick
<1>3. Histories'
    BY <1>1, <1>2 DEF AuthorityInv, Histories, Tick
<1>4. Grows
    BY <1>1, <1>2 DEF Grows, Ticks
<1>5. Shapes'
    BY DEF AuthorityInv, Shapes, Tick
<1>6. \A q \in Requests : ~ Resolving(q)
    BY DEF Tick, Resolving
<1>7. \A q \in Requests : ~ InFlight(q)
    BY <1>6 DEF AuthorityInv, LoadStands, Resolving
<1>8. ASSUME NEW p \in Processes PROVE SlotStands(p)' /\ PublicStands(p)'
  <2>1. SlotStands(p) /\ PublicStands(p)
      BY DEF AuthorityInv
  <2>2. /\ slot'[p] = (IF Expired(slot[p]) THEN Empty ELSE slot[p])
        /\ catalog'[p] = (IF Expired(catalog[p]) THEN Empty ELSE catalog[p])
        /\ publics'[p] = (IF Expired(publics[p]) THEN Empty ELSE publics[p])
      BY DEF Tick
  <2>3. SlotStands(p)'
    <3>1. CASE slot'[p] = Empty
        BY <3>1 DEF SlotStands, Empty
    <3>2. CASE slot'[p] # Empty
      <4>1. slot'[p] = slot[p] /\ slot[p] # Empty /\ ~ Expired(slot[p])
          BY <2>2, <3>2
      <4>2. /\ slot[p].kind = "value" /\ slot[p].value \in Standings
            /\ Alive(slot[p].kept, now) /\ Backed(slot[p].value, slot[p].kept)
            /\ slot[p].version \in Nat /\ evicted[p] <= slot[p].version
            /\ slot[p].version <= version
          BY <1>7, <2>1, <4>1 DEF SlotStands
      <4>3. slot[p].kept \in Ticks /\ slot[p].kept <= now /\ ~(now + 1 >= slot[p].kept + TTL)
          BY <4>1, <4>2 DEF Alive, Expired
      <4>4. Alive(slot[p].kept, now)' /\ slot[p].kept # now + 1
          BY <1>1, <4>1, <4>3 DEF Alive, Ticks
      <4>5. Backed(slot[p].value, slot[p].kept)'
          BY <1>2, <4>1, <4>2, <4>3, <4>4 DEF Backed
      <4> QED BY <4>1, <4>2, <4>4, <4>5 DEF SlotStands, Tick
    <3> QED BY <3>1, <3>2
  <2>4. PublicStands(p)'
    <3>1. catalog'[p] = publics'[p]
        BY <2>1, <2>2 DEF PublicStands
    <3>2. CASE publics'[p] = Empty
        BY <3>1, <3>2 DEF PublicStands, Empty
    <3>3. CASE publics'[p] # Empty
      <4>1. publics'[p] = publics[p] /\ publics[p] # Empty /\ ~ Expired(publics[p])
          BY <2>2, <3>3
      <4>2. /\ publics[p].kind = "value" /\ publics[p].value \in BOOLEAN
            /\ Alive(publics[p].kept, now)
            /\ publics[p].value => TRUE \in heldPublic[publics[p].kept]
          BY <2>1, <4>1 DEF PublicStands
      <4>3. publics[p].kept \in Ticks /\ publics[p].kept <= now
            /\ ~(now + 1 >= publics[p].kept + TTL)
          BY <4>1, <4>2 DEF Alive, Expired
      <4>4. Alive(publics[p].kept, now)' /\ publics[p].kept # now + 1
          BY <1>1, <4>1, <4>3 DEF Alive, Ticks
      <4>5. publics[p].value => TRUE \in heldPublic'[publics[p].kept]
          BY <1>2, <4>2, <4>3, <4>4
      <4> QED BY <3>1, <4>1, <4>2, <4>4, <4>5 DEF PublicStands
    <3> QED BY <3>2, <3>3
  <2> QED BY <2>3, <2>4
<1>9. ASSUME NEW q \in Requests PROVE LoadStands(q)' /\ RequestStands(q)' /\ ServedStands(q)'
  <2>1. LoadStands(q) /\ RequestStands(q) /\ ServedStands(q) /\ ~ InFlight(q) /\ ~ Resolving(q)
      BY <1>6, <1>7 DEF AuthorityInv
  <2>2. UNCHANGED <<request, load, version>>
      BY DEF Tick
  <2>3. LoadStands(q)'
      BY <2>1, <2>2 DEF LoadStands, InFlight
  <2>4. RequestStands(q)'
      BY <2>1, <2>2 DEF RequestStands, Resolving
  <2>5. ServedStands(q)'
      BY <1>1, <1>4, <2>1, <2>2, ServedKept
  <2> QED BY <2>3, <2>4, <2>5
<1> QED BY <1>3, <1>5, <1>8, <1>9 DEF AuthorityInv

\* An eviction leaves the loads in flight to those who wait for them.
LEMMA EvictStands ==
    ASSUME CacheAssumption, AuthorityInv, NEW p \in Processes, Evict(p)
    PROVE  AuthorityInv'
<1> USE DEF Evict, EvictAll
<1>1. UNCHANGED <<truth, now, request, load, faults>>
    OBVIOUS
<1>2. /\ now \in Ticks /\ MaxTime \in Nat /\ version \in Nat /\ version' = version
      /\ standing' = standing /\ public' = public /\ account' = account /\ held' = held
      /\ heldPublic' = heldPublic /\ now' = now /\ request' = request /\ load' = load
    BY <1>1 DEF AuthorityInv, Histories, CacheAssumption, truth
<1>3. \A o \in Processes : o # p => /\ evicted'[o] = evicted[o] /\ slot'[o] = slot[o]
                                    /\ publics'[o] = publics[o] /\ catalog'[o] = catalog[o]
    OBVIOUS
<1>4. /\ evicted'[p] = version /\ slot'[p] = Empty /\ catalog'[p] = Empty /\ publics'[p] = Empty
    BY DEF AuthorityInv, Shapes
<1>5. Histories' /\ Shapes' /\ Grows
  <2>1. \A o \in Processes : evicted'[o] \in Nat /\ evicted'[o] <= version
      BY <1>2, <1>3, <1>4 DEF AuthorityInv, Histories
  <2>2. Histories'
      BY <1>2, <2>1 DEF AuthorityInv, Histories
  <2>3. Shapes'
      BY <1>2 DEF AuthorityInv, Shapes
  <2>4. Grows
      BY <1>2 DEF Grows, Ticks
  <2> QED BY <2>2, <2>3, <2>4
<1>6. ASSUME NEW o \in Processes PROVE SlotStands(o)' /\ PublicStands(o)'
  <2>1. CASE o = p
      BY <1>4, <2>1 DEF SlotStands, PublicStands, Empty
  <2>2. CASE o # p
    <3>1. SlotStands(o) /\ PublicStands(o)
        BY DEF AuthorityInv
    <3>2. SlotStands(o)'
        BY <1>2, <1>3, <2>2, <3>1 DEF SlotStands, InFlight, Alive, Backed, Empty
    <3>3. PublicStands(o)'
        BY <1>2, <1>3, <2>2, <3>1 DEF PublicStands, Alive, Empty
    <3> QED BY <3>2, <3>3
  <2> QED BY <2>1, <2>2
<1>7. ASSUME NEW q \in Requests PROVE LoadStands(q)' /\ RequestStands(q)' /\ ServedStands(q)'
  <2>1. LoadStands(q) /\ RequestStands(q) /\ ServedStands(q)
      BY DEF AuthorityInv
  <2> QED BY <1>1, <1>2, <1>5, <2>1, LoadKept, RequestKept, ServedKept
<1> QED BY <1>5, <1>6, <1>7 DEF AuthorityInv

\* A request is answered from its process's entry, joins a load or begins one.
LEMMA BeginStands ==
    ASSUME CacheAssumption, AuthorityInv, NEW r \in Requests, Begin(r)
    PROVE  AuthorityInv'
<1> USE CacheAssumption DEF CacheAssumption
<1>1. /\ Histories' /\ Grows /\ now \in Ticks /\ version \in Nat
      /\ UNCHANGED <<truth, now, catalog, publics, evicted>>
    BY HistoriesKept DEF AuthorityInv, Histories, Begin, Ticks
<1>2. /\ load[r].stage \in {"none", "done"}
      /\ \A q \in Requests : request[q].stage = "waiting" => request[q].on # r
    BY DEF Begin
<1> DEFINE new(p, stage, on) == [stage |-> stage, at |-> p, on |-> on, floor |-> evicted[p],
                                floorAll |-> version, suspended |-> account = "suspended"]
<1>3. PICK p \in Processes :
        \/ /\ slot[p].kind = "value"
           /\ request' = [request EXCEPT ![r] = new(p, "known", r)]
           /\ load' = [load EXCEPT ![r] = [stage |-> "done", value |-> slot[p].value,
                                           version |-> slot[p].version]]
           /\ slot' = slot
        \/ /\ slot[p].kind = "task"
           /\ request' = [request EXCEPT ![r] = new(p, "waiting", slot[p].of)]
           /\ load' = [load EXCEPT ![r] = NoLoad]
           /\ slot' = slot
        \/ /\ slot[p].kind = "empty"
           /\ request' = [request EXCEPT ![r] = new(p, "waiting", r)]
           /\ load' = [load EXCEPT ![r] = [stage |-> "listing", at |-> p]]
           /\ slot' = [slot EXCEPT ![p] = [kind |-> "task", of |-> r]]
  <2>1. \A p \in Processes : slot[p].kind \in {"value", "task", "empty"}
      BY SlotKinds DEF AuthorityInv
  <2> QED BY <2>1 DEF Begin
<1>4. SlotStands(p) /\ evicted[p] \in Nat /\ evicted[p] <= version
    BY DEF AuthorityInv, Histories
<1>5. /\ Shapes'
      /\ \A q \in Requests \ {r} : request'[q] = request[q] /\ load'[q] = load[q]
      /\ \A o \in Processes \ {p} : slot'[o] = slot[o]
    BY <1>1, <1>3 DEF AuthorityInv, Shapes
<1>6. ~ InFlight(r)
    BY <1>2 DEF InFlight
<1>7. ASSUME NEW o \in Processes PROVE PublicStands(o)'
    BY <1>1 DEF AuthorityInv, PublicStands, Alive, Empty, truth
<1>8. ASSUME NEW o \in Processes, slot'[o] = slot[o] PROVE SlotStands(o)'
  <2>1. SlotStands(o) /\ slot[o] # [kind |-> "task", of |-> r]
    <3>1. SlotStands(o)
        BY DEF AuthorityInv
    <3>2. ASSUME slot[o] = [kind |-> "task", of |-> r] PROVE FALSE
      <4>1. slot[o].kind = "task" /\ slot[o].of = r /\ slot[o] # Empty
          BY <3>2 DEF Empty
      <4>2. PICK q \in Requests : slot[o] = [kind |-> "task", of |-> q] /\ InFlight(q)
          BY <3>1, <4>1 DEF SlotStands
      <4>3. q = r
          BY <4>1, <4>2
      <4> QED BY <1>6, <4>2, <4>3
    <3> QED BY <3>1, <3>2
  <2>2. \A q \in Requests : slot[o] = [kind |-> "task", of |-> q] => load'[q] = load[q]
      BY <1>5, <2>1
  <2> QED BY <1>1, <1>8, <2>1, <2>2, SlotKept
<1>9. ASSUME NEW q \in Requests \ {r}
      PROVE  LoadStands(q)' /\ RequestStands(q)' /\ ServedStands(q)'
  <2>1. LoadStands(q) /\ RequestStands(q) /\ ServedStands(q)
      BY DEF AuthorityInv
  <2>2. Resolving(q) => request[q].on \in Requests \ {r}
      BY <1>2, <2>1 DEF RequestStands, Resolving
  <2> QED BY <1>1, <1>5, <2>1, <2>2, LoadKept, RequestKept, ServedKept
<1>10. CASE slot[p].kind = "value"
  <2>1. /\ request'[r] = new(p, "known", r) /\ slot' = slot
        /\ load'[r] = [stage |-> "done", value |-> slot[p].value, version |-> slot[p].version]
      BY <1>3, <1>10 DEF AuthorityInv, Shapes
  <2>2. /\ slot[p].value \in Standings
        /\ Alive(slot[p].kept, now) /\ Backed(slot[p].value, slot[p].kept)
        /\ slot[p].version \in Nat /\ evicted[p] <= slot[p].version /\ slot[p].version <= version
      BY <1>4, <1>10, SlotKinds
  <2>3. LoadStands(r)'
      BY <1>1, <2>1, <2>2 DEF LoadStands, InFlight, truth
  <2>4. RequestStands(r)'
    <3>1. slot[p].kept \in Ticks
        BY <2>2 DEF Alive
    <3>2. Alive(slot[p].kept, now)' /\ Backed(slot[p].value, slot[p].kept)'
        BY <1>1, <2>1, <2>2 DEF Alive, Backed, truth
    <3> QED BY <1>1, <1>4, <2>1, <2>2, <3>1, <3>2 DEF RequestStands, Resolving, truth, Ticks
  <2>5. ServedStands(r)'
      BY <2>1 DEF ServedStands
  <2> QED BY <1>1, <1>5, <1>7, <1>8, <1>9, <2>1, <2>3, <2>4, <2>5 DEF AuthorityInv
<1>11. CASE slot[p].kind = "task"
  <2>1. request'[r] = new(p, "waiting", slot[p].of) /\ load'[r] = NoLoad /\ slot' = slot
      BY <1>3, <1>11 DEF AuthorityInv, Shapes
  <2>2. PICK t \in Requests :
          /\ slot[p] = [kind |-> "task", of |-> t] /\ InFlight(t) /\ load[t].at = p
          /\ load[t].stage = "scopes" => evicted[p] <= load[t].version
      BY <1>4, <1>11 DEF SlotStands, Empty
  <2>3. slot[p].of = t /\ t # r /\ load'[t] = load[t] /\ LoadStands(t)
      BY <1>5, <1>6, <2>2 DEF AuthorityInv
  <2>4. LoadStands(r)'
      BY <2>1 DEF LoadStands, InFlight, NoLoad
  <2>5. RequestStands(r)'
      BY <1>1, <1>4, <2>1, <2>2, <2>3 DEF RequestStands, Resolving, truth, InFlight
  <2>6. ServedStands(r)'
      BY <2>1 DEF ServedStands
  <2> QED BY <1>1, <1>5, <1>7, <1>8, <1>9, <2>1, <2>4, <2>5, <2>6 DEF AuthorityInv
<1>12. CASE slot[p].kind = "empty"
  <2>1. /\ request'[r] = new(p, "waiting", r) /\ load'[r] = [stage |-> "listing", at |-> p]
        /\ slot'[p] = [kind |-> "task", of |-> r]
      BY <1>3, <1>12 DEF AuthorityInv, Shapes
  <2>2. SlotStands(p)'
      BY <2>1 DEF SlotStands, InFlight
  <2>3. LoadStands(r)'
      BY <2>1 DEF LoadStands, InFlight
  <2>4. RequestStands(r)'
      BY <1>1, <1>4, <2>1 DEF RequestStands, Resolving, truth
  <2>5. ServedStands(r)'
      BY <2>1 DEF ServedStands
  <2> QED BY <1>1, <1>5, <1>7, <1>8, <1>9, <2>2, <2>3, <2>4, <2>5 DEF AuthorityInv
<1> QED BY <1>3, <1>10, <1>11, <1>12

\* The list says who is a member: not one, and the load is over.
LEMMA ListStands ==
    ASSUME CacheAssumption, AuthorityInv, NEW r \in Requests, List(r)
    PROVE  AuthorityInv'
<1>1. /\ version \in Nat /\ now \in Ticks /\ standing \in Standings /\ standing \in held[now]
      /\ InFlight(r) /\ load[r].stage = "listing"
      /\ UNCHANGED <<truth, now, catalog, publics, request, manager, evicted, faults>>
    BY DEF AuthorityInv, Histories, CacheAssumption, List, InFlight
<1>2. CASE standing = "out"
  <2>1. Backed("out", now) /\ "out" \in Standings
      BY DEF Backed, Standings
  <2>2. Keep(r, load[r].at, "out", version)
      BY <1>2 DEF List
  <2> QED BY <1>1, <2>1, <2>2, KeepStands
<1>3. CASE standing # "out"
  <2>1. /\ load' = [load EXCEPT ![r] = [stage |-> "scopes", at |-> @.at, version |-> version]]
        /\ slot' = slot
      BY <1>3 DEF List
  <2>2. held[now] \cap {"reader", "writer"} # {}
      BY <1>1, <1>3 DEF Standings
  <2>3. Histories' /\ Grows
      BY <1>1, HistoriesKept
  <2>4. /\ Shapes'
        /\ load'[r] = [stage |-> "scopes", at |-> load[r].at, version |-> version]
        /\ \A q \in Requests \ {r} : load'[q] = load[q]
      BY <1>1, <2>1 DEF AuthorityInv, Shapes
  <2>5. ASSUME NEW p \in Processes PROVE SlotStands(p)' /\ PublicStands(p)'
    <3>1. SlotStands(p) /\ evicted[p] \in Nat /\ evicted[p] <= version /\ PublicStands(p)
        BY DEF AuthorityInv, Histories
    <3>2. PublicStands(p)'
        BY <1>1, <3>1 DEF PublicStands, Alive, Empty, truth
    <3>3. CASE slot[p] = [kind |-> "task", of |-> r]
      <4>1. slot[p].kind = "task" /\ slot[p].of = r
          BY <3>3
      <4>2. PICK q \in Requests : slot[p] = [kind |-> "task", of |-> q] /\ load[q].at = p
          BY <3>1, <4>1, SlotKinds
      <4>3. load[r].at = p
          BY <4>1, <4>2
      <4> QED BY <1>1, <2>1, <2>4, <3>1, <3>2, <3>3, <4>3 DEF SlotStands, InFlight
    <3>4. CASE slot[p] # [kind |-> "task", of |-> r]
      <4>1. \A q \in Requests : slot[p] = [kind |-> "task", of |-> q] => load'[q] = load[q]
          BY <2>4, <3>4
      <4> QED BY <1>1, <2>1, <3>1, <3>2, <4>1, SlotKept
    <3> QED BY <3>3, <3>4
  <2>6. ASSUME NEW q \in Requests PROVE LoadStands(q)' /\ RequestStands(q)' /\ ServedStands(q)'
    <3>1. LoadStands(q) /\ RequestStands(q) /\ ServedStands(q) /\ LoadStands(r)
        BY DEF AuthorityInv
    <3>2. LoadStands(q)'
      <4>1. CASE q = r
          BY <1>1, <2>2, <2>4, <3>1, <4>1 DEF LoadStands, InFlight, truth
      <4>2. CASE q # r
          BY <1>1, <2>4, <3>1, <4>2, LoadKept
      <4> QED BY <4>1, <4>2
    <3>3. RequestStands(q)'
      <4>1. CASE Resolving(q) /\ request[q].on = r
          BY <1>1, <2>4, <3>1, <4>1 DEF RequestStands, Resolving, truth
      <4>2. CASE ~(Resolving(q) /\ request[q].on = r)
        <5>1. Resolving(q) => request[q].on \in Requests \ {r}
            BY <3>1, <4>2 DEF RequestStands
        <5> QED BY <1>1, <2>4, <3>1, <5>1, RequestKept
      <4> QED BY <4>1, <4>2
    <3>4. ServedStands(q)'
        BY <1>1, <2>3, <3>1, ServedKept DEF CacheAssumption
    <3> QED BY <3>2, <3>3, <3>4
  <2> QED BY <2>3, <2>4, <2>5, <2>6 DEF AuthorityInv
<1> QED BY <1>2, <1>3

\* The permissions say who writes; without them the caller reads.
LEMMA PermitStands ==
    ASSUME CacheAssumption, AuthorityInv, NEW r \in Requests, Permit(r)
    PROVE  AuthorityInv'
<1>1. /\ version \in Nat /\ now \in Ticks /\ standing \in held[now]
      /\ InFlight(r) /\ load[r].stage = "scopes" /\ LoadStands(r)
      /\ UNCHANGED <<truth, now, catalog, publics, request, manager, evicted>>
    BY DEF AuthorityInv, Histories, CacheAssumption, Permit, InFlight
<1>2. held[now] \cap {"reader", "writer"} # {} /\ load[r].version \in Nat /\ load[r].version <= version
    BY <1>1 DEF LoadStands
<1>3. PICK v \in {"reader", "writer"} :
        /\ v = "writer" => standing = "writer"
        /\ Keep(r, load[r].at, v, load[r].version)
    BY DEF Permit, Closed
<1>4. v \in Standings /\ Backed(v, now)
    BY <1>1, <1>2, <1>3 DEF Backed, Standings
<1> QED BY <1>1, <1>2, <1>3, <1>4, KeepStands

\* A load that failed is held as no standing at all.
LEMMA FailureStands ==
    ASSUME CacheAssumption, AuthorityInv, NEW r \in Requests, LoadFails(r)
    PROVE  AuthorityInv'
<1>1. /\ version \in Nat /\ InFlight(r) /\ load[r].stage = "listing"
      /\ UNCHANGED <<truth, now, catalog, publics, request, evicted>>
      /\ Keep(r, load[r].at, "out", version)
    BY DEF AuthorityInv, Histories, CacheAssumption, LoadFails, InFlight
<1>2. Backed("out", now) /\ "out" \in Standings
    BY DEF Backed, Standings
<1> QED BY <1>1, <1>2, KeepStands

\* A request acts on what it was told in the tick it began, and on one reading
\* of what is public.
LEMMA ServeStands ==
    ASSUME CacheAssumption, AuthorityInv, NEW r \in Requests, Serve(r)
    PROVE  AuthorityInv'
<1> DEFINE p == request[r].at
           got == load[request[r].on]
<1>1. /\ version \in Nat /\ now \in Ticks /\ public \in BOOLEAN /\ public \in heldPublic[now]
      /\ MaxTime \in Nat /\ TTL \in Nat \ {0}
    BY DEF AuthorityInv, Histories, CacheAssumption
<1>2. /\ UNCHANGED <<truth, now, slot, load, manager, evicted, faults>>
      /\ request[r].stage \in {"known", "waiting"} /\ got.stage = "done"
    BY DEF Serve, Known
<1>3. Histories' /\ Grows
    BY <1>2, HistoriesKept
<1>4. RequestStands(r) /\ Resolving(r)
    BY <1>2 DEF AuthorityInv, Resolving
<1>5. p \in Processes /\ request[r].on \in Requests
    BY <1>4 DEF RequestStands
<1>6. PublicStands(p)
    BY <1>5 DEF AuthorityInv
<1>7. /\ Publics(p) = IF publics[p].kind = "value" THEN publics[p]
                      ELSE [kind |-> "value", kept |-> now, value |-> public]
      /\ publics' = [publics EXCEPT ![p] = Publics(p)]
      /\ catalog'[p] = Publics(p)
      /\ \A o \in Processes \ {p} : catalog'[o] = catalog[o]
      /\ DOMAIN catalog' = Processes
  <2>1. publics[p].kind \in {"value", "empty"} /\ catalog[p] = publics[p]
    <3>1. Empty.kind = "empty"
        BY DEF Empty
    <3>2. publics[p] = Empty \/ publics[p].kind = "value"
        BY <1>6 DEF PublicStands
    <3>3. catalog[p] = publics[p]
        BY <1>6 DEF PublicStands
    <3> QED BY <3>1, <3>2, <3>3
  <2>2. Publics(p) = IF publics[p].kind = "value" THEN publics[p]
                     ELSE [kind |-> "value", kept |-> now, value |-> public]
      BY <2>1 DEF Publics
  <2>3. publics' = [publics EXCEPT ![p] = Publics(p)]
      BY DEF Serve
  <2>4. catalog' = [catalog EXCEPT ![p] =
                     IF publics[p].kind = "empty" /\ @.kind = "empty"
                     THEN [kind |-> "value", kept |-> now, value |-> public] ELSE @]
      BY DEF Serve
  <2>5. DOMAIN catalog = Processes
      BY DEF AuthorityInv, Shapes
  <2>6. catalog'[p] = IF publics[p].kind = "empty" /\ catalog[p].kind = "empty"
                      THEN [kind |-> "value", kept |-> now, value |-> public] ELSE catalog[p]
      BY <1>5, <2>4, <2>5
  <2>7. catalog'[p] = Publics(p)
      BY <2>1, <2>2, <2>6
  <2>8. \A o \in Processes \ {p} : catalog'[o] = catalog[o]
      BY <2>4, <2>5
  <2>9. DOMAIN catalog' = Processes
      BY <2>4, <2>5
  <2> QED BY <2>2, <2>3, <2>7, <2>8, <2>9
<1>8. /\ Publics(p).kind = "value" /\ Publics(p).value \in BOOLEAN
      /\ Alive(Publics(p).kept, now)
      /\ Publics(p).value => TRUE \in heldPublic[Publics(p).kept]
  <2>1. CASE publics[p].kind = "value"
    <3>1. publics[p] # Empty
        BY <2>1 DEF Empty
    <3> QED BY <1>6, <1>7, <2>1, <3>1 DEF PublicStands
  <2>2. CASE publics[p].kind # "value"
    <3>1. Publics(p) = [kind |-> "value", kept |-> now, value |-> public]
        BY <1>7, <2>2
    <3>2. Alive(now, now)
        BY <1>1 DEF Alive, Ticks
    <3>3. Publics(p).kind = "value" /\ Publics(p).kept = now /\ Publics(p).value = public
        BY <3>1
    <3> HIDE DEF p
    <3> QED BY <1>1, <3>2, <3>3
  <2> QED BY <2>1, <2>2
<1>9. request' = [request EXCEPT ![r] =
          [stage |-> "served", at |-> p, floor |-> request[r].floor,
           floorAll |-> request[r].floorAll,
           suspended |-> request[r].suspended, version |-> got.version, when |-> now,
           member |-> got.value # "out", write |-> got.value = "writer",
           public |-> Publics(p).value]]
    BY DEF Serve
<1>10. /\ request'[r] =
          [stage |-> "served", at |-> p, floor |-> request[r].floor,
           floorAll |-> request[r].floorAll,
           suspended |-> request[r].suspended, version |-> got.version, when |-> now,
           member |-> got.value # "out", write |-> got.value = "writer",
           public |-> Publics(p).value]
       /\ \A q \in Requests \ {r} : request'[q] = request[q]
       /\ DOMAIN request' = Requests
    BY <1>9 DEF AuthorityInv, Shapes
<1>11. Shapes'
    BY <1>2, <1>7, <1>10 DEF AuthorityInv, Shapes
<1>12. ~ InFlight(r)
  <2>1. InFlight(r) => request[r].on = r
      BY DEF AuthorityInv, LoadStands
  <2> QED BY <1>2, <2>1 DEF InFlight
<1>13. ASSUME NEW o \in Processes PROVE SlotStands(o)' /\ PublicStands(o)'
  <2>1. SlotStands(o) /\ PublicStands(o)
      BY DEF AuthorityInv
  <2>2. SlotStands(o)'
      BY <1>2, <2>1, SlotKept
  <2>3. PublicStands(o)'
    <3>1. CASE o = p
      <4>1. publics'[p] = Publics(p)
          BY <1>5, <1>7 DEF AuthorityInv, Shapes
      <4>2. Alive(Publics(p).kept, now')
          BY <1>2, <1>8
      <4>3. Publics(p).value => TRUE \in heldPublic'[Publics(p).kept]
          BY <1>2, <1>8 DEF truth
      <4> HIDE DEF p
      <4> QED BY <1>7, <1>8, <3>1, <4>1, <4>2, <4>3 DEF PublicStands, Alive
    <3>2. CASE o # p
      <4>1. publics'[o] = publics[o] /\ catalog'[o] = catalog[o]
          BY <1>7, <3>2 DEF AuthorityInv, Shapes
      <4> QED BY <1>2, <2>1, <4>1 DEF PublicStands, Alive, Empty, truth
    <3> QED BY <3>1, <3>2
  <2> QED BY <2>2, <2>3
<1>14. ServedStands(r)'
  <2>1. PICK t \in Ticks : Alive(t, now) /\ Backed(got.value, t)
      BY <1>2, <1>4 DEF RequestStands
  <2>2. request'[r].when = now /\ now' = now /\ held' = held /\ heldPublic' = heldPublic
      BY <1>2, <1>10 DEF truth
  <2>3. t \in Recent(r, TTL)' /\ Publics(p).kept \in Recent(r, TTL)'
      BY <1>1, <1>8, <2>1, <2>2 DEF Recent, Alive, Ticks
  <2>4. request'[r].version >= request'[r].floor
      BY <1>1, <1>2, <1>4, <1>10 DEF RequestStands, AuthorityInv, LoadStands
  <2>5. /\ request'[r].member = (got.value # "out") /\ request'[r].write = (got.value = "writer")
        /\ request'[r].public = Publics(p).value
      BY <1>10
  <2>6. /\ request'[r].member => held'[t] \cap {"reader", "writer"} # {}
        /\ request'[r].write => "writer" \in held'[t]
      BY <2>1, <2>2, <2>5 DEF Backed
  <2>7. request'[r].public => TRUE \in heldPublic'[Publics(p).kept]
      BY <1>8, <2>2, <2>5
  <2>8. request'[r].when \in Ticks' /\ request'[r].when <= now'
      BY <1>1, <2>2 DEF Ticks
  <2> QED BY <2>3, <2>4, <2>5, <2>6, <2>7, <2>8 DEF ServedStands
<1>15. ASSUME NEW q \in Requests PROVE LoadStands(q)' /\ RequestStands(q)' /\ ServedStands(q)'
  <2>1. LoadStands(q) /\ RequestStands(q) /\ ServedStands(q)
      BY DEF AuthorityInv
  <2>2. LoadStands(q)'
    <3>1. InFlight(q) => request'[q] = request[q]
        BY <1>10, <1>12
    <3> QED BY <1>2, <2>1, <3>1, LoadKept
  <2>3. CASE q = r
      BY <1>10, <1>14, <2>2, <2>3 DEF RequestStands, Resolving
  <2>4. CASE q # r
      BY <1>1, <1>2, <1>3, <1>10, <2>1, <2>2, <2>4, RequestKept, ServedKept
  <2> QED BY <2>3, <2>4
<1> QED BY <1>3, <1>11, <1>13, <1>15 DEF AuthorityInv

\* Every step keeps the caches true.
LEMMA AuthorityStep ==
    ASSUME CacheAssumption, AuthorityInv, [Next]_vars
    PROVE  AuthorityInv'
<1>1. CASE UNCHANGED vars
  <2>1. Histories' /\ Shapes'
      BY <1>1 DEF AuthorityInv, Histories, Shapes, vars
  <2>2. ASSUME NEW p \in Processes PROVE SlotStands(p)' /\ PublicStands(p)'
      BY <1>1, SlotKept DEF AuthorityInv, vars, truth, PublicStands, Alive, Empty
  <2>3. Grows
      BY <1>1 DEF AuthorityInv, Histories, Grows, vars, Ticks
  <2>4. now \in Ticks /\ MaxTime \in Nat /\ UNCHANGED <<truth, now, load, request>>
      BY <1>1 DEF AuthorityInv, Histories, vars, truth, CacheAssumption
  <2>5. ASSUME NEW r \in Requests PROVE LoadStands(r)' /\ RequestStands(r)' /\ ServedStands(r)'
      BY <2>3, <2>4, LoadKept, RequestKept, ServedKept DEF AuthorityInv
  <2> QED BY <2>1, <2>2, <2>5 DEF AuthorityInv
<1>2. CASE Console
  <2>1. PICK s \in Standings, b \in BOOLEAN, a \in {"active", "suspended"} : Becomes(s, b, a)
      BY <1>2 DEF Console, AuthorityInv, Histories, CacheAssumption
  <2>2. UNCHANGED <<now, slot, catalog, publics, request, load, evicted>>
      BY <1>2 DEF Console
  <2> QED BY <2>1, <2>2, LogtoChanges
<1>3. CASE Tick
    BY <1>3, TickStands
<1>4. ASSUME NEW p \in Processes, Change(p) PROVE AuthorityInv'
  <2>1. PICK s \in Standings : Becomes(s, public, account)
      BY <1>4 DEF Change
  <2>2. public \in BOOLEAN /\ account \in {"active", "suspended"}
      BY DEF AuthorityInv, Histories
  <2>3. UNCHANGED <<now, slot, catalog, publics, request, load, evicted>>
      BY <1>4 DEF Change
  <2> QED BY <2>1, <2>2, <2>3, LogtoChanges
<1>5. ASSUME NEW p \in Processes, Evict(p) PROVE AuthorityInv'
    BY <1>5, EvictStands
<1>6. ASSUME NEW r \in Requests, Begin(r) \/ List(r) \/ Permit(r) \/ LoadFails(r) \/ Serve(r)
      PROVE  AuthorityInv'
    BY <1>6, BeginStands, ListStands, PermitStands, FailureStands, ServeStands
<1> QED BY <1>1, <1>2, <1>3, <1>4, <1>5, <1>6 DEF Next

\* The caches hold what Logto held within the TTL, and a request waits for a
\* load that is no older than its process's own changes.
THEOREM AuthorityStands == ASSUME CacheAssumption PROVE Spec => []AuthorityInv
<1>1. Init => AuthorityInv
    BY AuthorityInit
<1>2. AuthorityInv /\ [Next]_vars => AuthorityInv'
    BY AuthorityStep
<1> QED BY <1>1, <1>2, PTL DEF Spec

\* Types, and that a shared load belongs to a request in flight.
THEOREM AuthorityTyped == ASSUME CacheAssumption PROVE Spec => []TypeOK
<1>1. AuthorityInv => TypeOK
  <2> SUFFICES ASSUME AuthorityInv PROVE TypeOK
      OBVIOUS
  <2>1. ASSUME NEW p \in Processes
        PROVE  /\ slot[p].kind = "value" => slot[p].value \in Standings /\ slot[p].kept <= now
               /\ slot[p].kind = "task" => load[slot[p].of].stage \in {"listing", "scopes"}
    <3>1. SlotStands(p)
        BY DEF AuthorityInv
    <3>2. CASE slot[p].kind = "task"
      <4>1. PICK r \in Requests : slot[p] = [kind |-> "task", of |-> r] /\ InFlight(r)
          BY <3>1, <3>2, SlotKinds
      <4>2. slot[p].of = r
          BY <4>1
      <4> QED BY <3>2, <4>1, <4>2 DEF InFlight
    <3>3. CASE slot[p].kind # "task"
        BY <3>1, <3>3, SlotKinds DEF Alive
    <3> QED BY <3>2, <3>3
  <2> QED BY <2>1 DEF AuthorityInv, Histories, TypeOK
<1> QED BY <1>1, AuthorityStands, PTL

\* No request acts on more standing than Logto granted within the last TTL.
THEOREM StandingWithinTTL == ASSUME CacheAssumption PROVE Spec => []StandingIsRecent
<1>1. AuthorityInv => StandingIsRecent
    BY DEF AuthorityInv, StandingIsRecent, ServedStands, Served
<1> QED BY <1>1, AuthorityStands, PTL

\* Nothing is read as public that was not public within the last TTL, because
\* both public entries are one reading and go together.
THEOREM PublicWithinTTL == ASSUME CacheAssumption PROVE Spec => []PublicIsRecent
<1>1. AuthorityInv => PublicIsRecent
    BY DEF AuthorityInv, PublicIsRecent, ServedStands, Served
<1> QED BY <1>1, AuthorityStands, PTL

\* A request that begins after a change made through its process sees it.
THEOREM OwnChangesSeen == ASSUME CacheAssumption PROVE Spec => []OwnChangesShow
<1>1. AuthorityInv => OwnChangesShow
    BY DEF AuthorityInv, OwnChangesShow, ServedStands, Served
<1> QED BY <1>1, AuthorityStands, PTL
=============================================================================
