---------------------------- MODULE LogtoPolicy ----------------------------
(***************************************************************************)
(* `aizk admin auth apply` (integrations/logto/policy.py): a command that  *)
(* reads a Logto tenant stage by stage, plans the requests that would      *)
(* bring it to the configured policy, sends them, and plans again, for up  *)
(* to MaxPasses passes, until a plan comes out empty.                      *)
(*                                                                         *)
(* The tenant is Logto's (external): a request on an object that is gone,  *)
(* or that would make a second one of a name, is refused.  A global role   *)
(* has an id, so a role made anew is not the one an older plan read.       *)
(* Descriptions, default flags and lifetimes are one bit.  The pages of a  *)
(* stage are read together; other appliers, and edits in Logto's console,  *)
(* interleave between stages and between requests.  The requests of one    *)
(* stage touch distinct objects or commute: they are sent in any order.    *)
(***************************************************************************)
EXTENDS Naturals, Sequences, FiniteSets, TLC

CONSTANTS
    Owned,          \* the global roles of _managed_roles()
    Obsolete,       \* other role names under logto_managed_role_prefix
    Foreign,        \* role names outside the prefix
    Required,       \* logto_required_scopes
    Permissions,    \* logto_organization_permissions
    Retired,        \* logto_retired_organization_permissions
    Unmanaged,      \* organization permissions AIZK does not know
    OrgRoles,       \* logto_organization_roles
    Wanted,         \* logto_role_permissions
    Tenants,        \* the tenants a run may start from
    Appliers,       \* processes that run `admin auth apply`
    Servers,        \* other processes holding authority snapshots
    MaxPasses,      \* the 8 of apply()
    MaxRuns, MaxFaults, MaxEdits   \* bounds of the model

PolicyAssumption ==
    /\ Owned \cap Obsolete = {} /\ Owned \cap Foreign = {} /\ Obsolete \cap Foreign = {}
    /\ Permissions \cap Retired = {} /\ Unmanaged \cap (Permissions \cup Retired) = {}
    /\ Wanted \in [OrgRoles -> SUBSET Permissions]
    /\ Appliers \cap Servers = {} /\ MaxPasses \in Nat \ {0}

VARIABLES
    tenant,      \* what Logto holds
    phase,       \* where each run of apply() is
    stage,       \* the stage its plan reads next
    pending,     \* the planned requests, one set per stage
    seen,        \* the organization permissions its plan read
    passes,      \* plans made so far by the run
    snapshot,    \* per process: "none", "fresh", or "stale" cached authority
    runs, faults, edits

vars == <<tenant, phase, stage, pending, seen, passes, snapshot, runs, faults, edits>>

Names == Owned \cup Obsolete \cup Foreign
AllPermissions == Permissions \cup Retired \cup Unmanaged
RoleTypes == {"User", "MachineToMachine"}
PartOf(f, S, T) == DOMAIN f \subseteq S /\ \A x \in DOMAIN f : f[x] \in T

IsTenant(t) ==
    /\ t.resource \in {"absent", "drifted", "current"}
    /\ t.scopes \subseteq Required
    /\ t.made \in Nat   \* global roles created so far, the source of their ids
    /\ PartOf(t.roles, Names, [id : Nat, type : RoleTypes, current : BOOLEAN,
                               grants : SUBSET Required])
    /\ PartOf(t.permissions, AllPermissions, BOOLEAN)
    /\ PartOf(t.orgRoles, OrgRoles, [type : RoleTypes, current : BOOLEAN,
                                     grants : SUBSET DOMAIN t.permissions])

Ended == {"clean", "failed", "exhausted"}

-----------------------------------------------------------------------------
(* What one stage of _plan reads, and the requests it plans from it.       *)

Change(do, on, name, what) ==
    [do |-> do, on |-> on, name |-> name, what |-> what, id |-> 0]

\* Requests on an existing global role go to its id.
RoleChange(t, do, r, what) == [Change(do, "role", r, what) EXCEPT !.id = t.roles[r].id]

ResourceChanges(t) ==
    CASE t.resource = "absent"  -> {Change("create", "resource", "api", {})}
      [] t.resource = "drifted" -> {Change("update", "resource", "api", {})}
      [] OTHER -> {}

ResourceScopeChanges(t) ==
    {Change("create", "scope", n, {}) : n \in Required \ t.scopes}

ManagedRoleChanges(t, r) ==
    IF r \notin DOMAIN t.roles THEN {Change("create", "role", r, Required)}
    ELSE IF t.roles[r].type # "User" THEN {RoleChange(t, "delete", r, {})}
    ELSE {c \in {RoleChange(t, "update", r, {}),
                 RoleChange(t, "grant", r, Required \ t.roles[r].grants)} :
            \/ c.do = "update" /\ ~t.roles[r].current
            \/ c.do = "grant" /\ c.what # {}}

RolesReady(t) == \A r \in Owned \cap DOMAIN t.roles : t.roles[r].type = "User"

\* (faulty) the operator role is not counted among the owned ones
IsNotDefault(t, r) == r \in Obsolete \cup {"aizk-admin"} /\ t.roles[r].type = "User"

IsObsolete(t, r) == r \in Obsolete /\ t.roles[r].type = "User"

GlobalRoleChanges(t) ==
    UNION {ManagedRoleChanges(t, r) : r \in Owned}
      \cup {RoleChange(t, "delete", r, {}) :
              r \in {x \in DOMAIN t.roles : RolesReady(t) /\ IsObsolete(t, x)}}

OrganizationScopeChanges(t) ==
    {Change("create", "permission", p, {}) : p \in Permissions \ DOMAIN t.permissions}
      \cup {Change("update", "permission", p, {}) :
              p \in {q \in Permissions \cap DOMAIN t.permissions : ~t.permissions[q]}}

OrganizationRoleChanges(t, r) ==
    IF r \notin DOMAIN t.orgRoles THEN {Change("create", "orgRole", r, Wanted[r])}
    ELSE LET held == t.orgRoles[r].grants IN
         {c \in {Change("update", "orgRole", r, {}),
                 Change("grant", "orgRole", r, Wanted[r] \ held)} :
            \/ c.do = "update" /\ (~t.orgRoles[r].current \/ t.orgRoles[r].type # "User")
            \/ c.do = "grant" /\ c.what # {}}
           \cup {Change("revoke", "orgRole", r, {p}) :
                   p \in (held \cap (Permissions \cup Retired)) \ Wanted[r]}

RetiredChanges(known) ==
    {Change("delete", "permission", p, {}) : p \in Retired \cap known}

\* The requests a plan adds when it reads stage k of tenant t.
StageChanges(t, k, known) ==
    CASE k = 1 -> <<ResourceChanges(t)>>
      [] k = 2 -> <<ResourceScopeChanges(t)>>
      [] k = 3 -> <<GlobalRoleChanges(t)>>
      [] k = 4 -> <<OrganizationScopeChanges(t)>>
      [] k = 5 -> <<UNION {OrganizationRoleChanges(t, r) : r \in OrgRoles},
                    RetiredChanges(known)>>

\* The plan stops where a later stage needs what this one has yet to create.
StopsAt(t, k) ==
    CASE k = 1 -> t.resource = "absent"
      [] k = 2 -> ~(Required \subseteq t.scopes)
      [] k = 3 -> ~RolesReady(t)
      [] k = 4 -> ~(Permissions \subseteq DOMAIN t.permissions)
      [] k = 5 -> TRUE

-----------------------------------------------------------------------------
(* Logto's answer to a request (external).                                 *)

Without(f, x) == [y \in DOMAIN f \ {x} |-> f[y]]
With(f, x, v) == [y \in DOMAIN f \cup {x} |-> IF y = x THEN v ELSE f[y]]
NewRole(grants) == [type |-> "User", current |-> TRUE, grants |-> grants]

Exists(t, c) ==
    CASE c.on = "resource"   -> t.resource # "absent"
      [] c.on = "scope"      -> c.name \in t.scopes
      [] c.on = "role"       -> /\ c.name \in DOMAIN t.roles
                                /\ c.do # "create" => t.roles[c.name].id = c.id
      [] c.on = "permission" -> c.name \in DOMAIN t.permissions
      [] c.on = "orgRole"    -> c.name \in DOMAIN t.orgRoles

Targets(t, c) ==   \* the scopes or permissions a grant names still exist
    CASE c.on = "role"    -> c.what \subseteq t.scopes
      [] c.on = "orgRole" -> c.what \subseteq DOMAIN t.permissions
      [] OTHER -> TRUE

Admitted(t, c) ==
    /\ Exists(t, c) = (c.do # "create")
    /\ c.do \in {"create", "grant"} => Targets(t, c)
    /\ c.on = "scope" => t.resource # "absent"

OnRole(t, c) ==
    CASE c.do = "create" -> With(t.roles, c.name, [id |-> t.made + 1] @@ NewRole(c.what))
      [] c.do = "delete" -> Without(t.roles, c.name)
      [] c.do = "update" -> [t.roles EXCEPT ![c.name].current = TRUE]
      [] c.do = "grant"  -> [t.roles EXCEPT ![c.name].grants = @ \cup c.what]

OnOrgRole(t, c) ==
    CASE c.do = "create" -> With(t.orgRoles, c.name, NewRole(c.what))
      [] c.do = "update" -> [t.orgRoles EXCEPT ![c.name].current = TRUE,
                                               ![c.name].type = "User"]
      [] c.do = "grant"  -> [t.orgRoles EXCEPT ![c.name].grants = @ \cup c.what]
      [] c.do = "revoke" -> [t.orgRoles EXCEPT ![c.name].grants = @ \ c.what]

\* Deleting a permission takes it from every role that carried it.
DropPermission(t, p) ==
    [t EXCEPT !.permissions = Without(@, p),
              !.orgRoles = [r \in DOMAIN @ |-> [@[r] EXCEPT !.grants = @ \ {p}]]]

Answered(t, c) ==
    CASE c.on = "resource"   -> [t EXCEPT !.resource = "current"]
      [] c.on = "scope"      -> [t EXCEPT !.scopes = @ \cup {c.name}]
      [] c.on = "role"       -> [t EXCEPT !.roles = OnRole(t, c),
                                       !.made = IF c.do = "create" THEN @ + 1 ELSE @]
      [] c.on = "orgRole"    -> [t EXCEPT !.orgRoles = OnOrgRole(t, c)]
      [] c.on = "permission" ->
            IF c.do = "delete" THEN DropPermission(t, c.name)
            ELSE [t EXCEPT !.permissions = With(@, c.name, TRUE)]

-----------------------------------------------------------------------------
Init ==
    /\ tenant \in Tenants
    /\ phase = [a \in Appliers |-> "idle"]
    /\ stage = [a \in Appliers |-> 1]
    /\ pending = [a \in Appliers |-> <<>>]
    /\ seen = [a \in Appliers |-> {}]
    /\ passes = [a \in Appliers |-> 0]
    /\ snapshot = [p \in Appliers \cup Servers |-> "none"]
    /\ runs = 0 /\ faults = 0 /\ edits = 0

Begin(a) ==   \* an operator runs the command
    /\ phase[a] \in {"idle"} \cup Ended /\ runs < MaxRuns
    /\ phase' = [phase EXCEPT ![a] = "planning"]
    /\ passes' = [passes EXCEPT ![a] = 1]
    /\ stage' = [stage EXCEPT ![a] = 1]
    /\ pending' = [pending EXCEPT ![a] = <<>>]
    /\ seen' = [seen EXCEPT ![a] = {}]
    /\ runs' = runs + 1
    /\ UNCHANGED <<tenant, snapshot, faults, edits>>

NonEmpty(batches) == SelectSeq(batches, LAMBDA s : s # {})

Plan(a) ==   \* read one stage
    LET k == stage[a]
        known == IF k = 4 THEN DOMAIN tenant.permissions ELSE seen[a]
        planned == pending[a] \o NonEmpty(StageChanges(tenant, k, known))
    IN
    /\ phase[a] = "planning"
    /\ pending' = [pending EXCEPT ![a] = planned]
    /\ seen' = [seen EXCEPT ![a] = known]
    /\ IF ~StopsAt(tenant, k)
       THEN stage' = [stage EXCEPT ![a] = k + 1] /\ UNCHANGED phase
       ELSE /\ stage' = [stage EXCEPT ![a] = 1]
            /\ phase' = [phase EXCEPT ![a] = IF planned = <<>> THEN "clean" ELSE "applying"]
    /\ UNCHANGED <<tenant, passes, snapshot, runs, faults, edits>>

\* The tenant changed under every snapshot taken before.
Aged == [p \in DOMAIN snapshot |-> IF snapshot[p] = "none" THEN "none" ELSE "stale"]

Sent(a, c) ==   \* the rest of the plan once request c is answered
    LET left == Head(pending[a]) \ {c} IN
    IF left = {} THEN Tail(pending[a]) ELSE <<left>> \o Tail(pending[a])

Send(a) ==
    /\ phase[a] = "applying" /\ pending[a] # <<>>
    /\ \E c \in Head(pending[a]) :
         /\ Admitted(tenant, c)
         /\ tenant' = Answered(tenant, c)
         /\ pending' = [pending EXCEPT ![a] = Sent(a, c)]
    /\ snapshot' = Aged
    /\ UNCHANGED <<phase, stage, seen, passes, runs, faults, edits>>

Evict(a) == [snapshot EXCEPT ![a] = "none"]   \* invalidate_all() of this process

NextPass(a) ==   \* the plan is sent: evict, and plan again or give up
    /\ phase[a] = "applying" /\ pending[a] = <<>>
    /\ snapshot' = Evict(a)
    /\ phase' = [phase EXCEPT ![a] = IF passes[a] < MaxPasses THEN "planning" ELSE "exhausted"]
    /\ passes' = [passes EXCEPT ![a] = IF passes[a] < MaxPasses THEN @ + 1 ELSE @]
    /\ seen' = [seen EXCEPT ![a] = {}]
    /\ UNCHANGED <<tenant, stage, pending, runs, faults, edits>>

\* A request raises: Logto refuses it, or the answer is lost before or after
\* Logto acted (a POST or PATCH is not sent twice).  `finally` still evicts.
Raise(a) ==
    /\ phase[a] = "applying" /\ pending[a] # <<>>
    /\ \E c \in Head(pending[a]) :
         \/ /\ ~Admitted(tenant, c)
            /\ UNCHANGED <<tenant, faults>>
         \/ /\ faults < MaxFaults /\ faults' = faults + 1
            /\ UNCHANGED tenant
         \/ /\ faults < MaxFaults /\ faults' = faults + 1
            /\ Admitted(tenant, c)
            /\ tenant' = Answered(tenant, c)
    /\ snapshot' = [p \in DOMAIN snapshot |->
                      IF p # a /\ tenant' # tenant THEN Aged[p] ELSE Evict(a)[p]]
    /\ phase' = [phase EXCEPT ![a] = "failed"]
    /\ pending' = [pending EXCEPT ![a] = <<>>]
    /\ seen' = [seen EXCEPT ![a] = {}]
    /\ UNCHANGED <<stage, passes, runs, edits>>

Load(p) ==   \* a process caches what it reads of some caller's authority
    /\ snapshot[p] = "none"
    /\ snapshot' = [snapshot EXCEPT ![p] = "fresh"]
    /\ UNCHANGED <<tenant, phase, stage, pending, seen, passes, runs, faults, edits>>

Expire(p) ==   \* logto_cache_seconds have passed
    /\ snapshot[p] # "none"
    /\ snapshot' = [snapshot EXCEPT ![p] = "none"]
    /\ UNCHANGED <<tenant, phase, stage, pending, seen, passes, runs, faults, edits>>

\* Someone changes a role or a permission in Logto's console.
Edit ==
    /\ edits < MaxEdits /\ edits' = edits + 1
    /\ \/ \E r \in DOMAIN tenant.roles :
            \/ tenant' = [tenant EXCEPT !.roles = Without(@, r)]
            \/ tenant' = [tenant EXCEPT !.roles[r].grants = {}]
       \/ \E r \in DOMAIN tenant.orgRoles, p \in DOMAIN tenant.permissions :
            tenant' = [tenant EXCEPT !.orgRoles[r].grants =
                         IF p \in @ THEN @ \ {p} ELSE @ \cup {p}]
       \/ \E p \in DOMAIN tenant.permissions : tenant' = DropPermission(tenant, p)
    /\ snapshot' = Aged
    /\ UNCHANGED <<phase, stage, pending, seen, passes, runs, faults>>

Next ==
    \/ \E a \in Appliers : Begin(a) \/ Plan(a) \/ Send(a) \/ NextPass(a) \/ Raise(a)
    \/ \E p \in Appliers \cup Servers : Load(p) \/ Expire(p)
    \/ Edit

Spec == Init /\ [][Next]_vars

-----------------------------------------------------------------------------
TypeOK ==
    /\ IsTenant(tenant)
    /\ phase \in [Appliers -> {"idle", "planning", "applying"} \cup Ended]
    /\ stage \in [Appliers -> 1..5]
    /\ seen \in [Appliers -> SUBSET AllPermissions]
    /\ passes \in [Appliers -> 0..MaxPasses]
    /\ snapshot \in [Appliers \cup Servers -> {"none", "fresh", "stale"}]

\* What the configuration asks of a tenant, said without reference to a plan.
Configured(t) ==
    /\ t.resource = "current" /\ t.scopes = Required
    /\ \A r \in Owned :
         /\ r \in DOMAIN t.roles
         /\ t.roles[r].type = "User" /\ t.roles[r].current
         /\ t.roles[r].grants = Required
    /\ \A r \in Obsolete \cap DOMAIN t.roles : t.roles[r].type # "User"
    /\ \A p \in Permissions : p \in DOMAIN t.permissions /\ t.permissions[p]
    /\ Retired \cap DOMAIN t.permissions = {}
    /\ \A r \in OrgRoles :
         /\ r \in DOMAIN t.orgRoles
         /\ t.orgRoles[r].type = "User" /\ t.orgRoles[r].current
         /\ t.orgRoles[r].grants \ Unmanaged = Wanted[r]

\* A run that reports "clean" leaves the tenant as the configuration asks,
\* though it read the stages one by one while other runs were sending and
\* failing (apply, _plan): nothing another run does undoes a stage already read.
CleanIsConfigured ==
    \A a \in Appliers : phase[a] # "clean" /\ phase'[a] = "clean" => Configured(tenant')

\* Whatever the tenant looked like, a run that is left alone ends clean, within
\* the passes apply() allows and without a request Logto refuses.
Converges == \A a \in Appliers : phase[a] \notin {"failed", "exhausted"}

\* A run under way.
UnderWay(a) == phase[a] \notin {"idle"} \cup Ended

\* The part of the tenant the policy must leave alone.
NotOurs(t) ==
    [roles |-> [r \in {x \in DOMAIN t.roles \ Owned :
                         x \in Foreign \/ t.roles[x].type # "User"} |-> t.roles[r]],
     permissions |-> [p \in Unmanaged \cap DOMAIN t.permissions |-> t.permissions[p]],
     grants |-> [r \in DOMAIN t.orgRoles |-> t.orgRoles[r].grants \cap Unmanaged]]

\* No request of apply() touches a role outside the prefix, a permission AIZK
\* does not know, or such a permission's place in a role AIZK manages.
LeavesOthersAlone ==
    edits' = edits =>
      LET before == NotOurs(tenant)  after == NotOurs(tenant') IN
      /\ after.roles = before.roles
      /\ after.permissions = before.permissions
      /\ \A r \in DOMAIN before.grants :
           r \in DOMAIN after.grants /\ after.grants[r] = before.grants[r]

\* Applying never locks out someone the policy admits: an owned role of type
\* User, its API permissions, and what an organization role should carry are
\* never taken away on the way, and failing midway does not either.
LocksNobodyOut ==
    edits' = edits =>
      /\ \A r \in Owned \cap DOMAIN tenant.roles : tenant.roles[r].type = "User" =>
           /\ r \in DOMAIN tenant'.roles
           /\ tenant.roles[r].grants \subseteq tenant'.roles[r].grants
      /\ \A r \in DOMAIN tenant.orgRoles :
           tenant.orgRoles[r].grants \cap Wanted[r] \subseteq tenant'.orgRoles[r].grants

\* When a pass is over, cleanly or by an error, the applying process holds no
\* snapshot taken before one of the pass's changes.
OwnSnapshotsDie ==
    \A a \in Appliers : phase[a] = "applying" /\ phase'[a] # "applying"
       => snapshot'[a] # "stale"
=============================================================================
