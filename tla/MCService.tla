----------------------------- MODULE MCService ------------------------------
(* The components that serve and operate the system: `part` names the one a   *)
(* behaviour exercises.  Those this module extends, through their proofs, keep *)
(* their variables, of the others `part` gives v1, v2, ... their meaning.      *)
EXTENDS Service_proofs, Integers, Sequences, FiniteSets, FiniteSetsExt, SequencesExt, TLC

CONSTANTS Exercised

VARIABLES part, v1, v2, v3, v4, v5, v6, v7, v8, v9, v10, v11, v12, v13, v14, v15
bank == <<v1, v2, v3, v4, v5, v6, v7, v8, v9, v10, v11, v12, v13, v14, v15>>
vars == <<part, bank, queueVars, quotaVars, txVars>>
-----------------------------------------------------------------------------
\* The portable queue while heartbeats come in time.
\* A conversion and a chunk projection; two producers share k1, as
\* conversion and re-chunk jobs share the content id.
QueuePriority == ("chunk" :> 50) @@ ("artifact" :> 75) @@ ("unknown" :> 10)
QueueSlots == ("chunk" :> 1) @@ ("artifact" :> 2) @@ ("unknown" :> 1)
QueueRequests == {[entrypoint |-> "chunk", key |-> "k1"], [entrypoint |-> "artifact", key |-> "k2"],
               [entrypoint |-> "artifact", key |-> "k1"]}

\* The same queue when a worker stalls past its lease, and a job nobody
\* registered.
StallsUnknownRequests == {[entrypoint |-> "chunk", key |-> "k1"], [entrypoint |-> "unknown", key |-> "k1"]}
Stalls == INSTANCE Service_proofs WITH
    MaxRows <- 3, Worker <- {"w1", "w2"},
    Entrypoint <- {"chunk", "artifact", "unknown"}, Registered <- {"chunk", "artifact"},
    Priority <- QueuePriority, SlotLimit <- QueueSlots,
    Request <- StallsUnknownRequests, BatchSize <- 1, MaxAttempts <- 2,
    RequeueLimit <- 1, RecoveryJob <- "chunk", MaxCycles <- 3, MaxRequeues <- 1,
    MaxCrashes <- 0, MaxStalls <- 1, SlotKey <- "k1",
    status <- v1, request <- v2, attempts <- v3, ready <- v4, heartbeat <- v5,
    event <- v6, run <- v7, beat <- v8, requeues <- v9, reclaims <- v10, cycles <- v11,
    crashes <- v12, stalls <- v13

\* Two replicas, one scoped and one system pass.
Clock == INSTANCE Schedules WITH
    Replica <- {"r1", "r2"}, Scoped <- {"profiles"}, System <- {"cleanup"},
    Scope <- {"s1", "s2"}, MaxAttempts <- 2, MaxFails <- 1, MaxCrashes <- 1,
    due <- v1, holding <- v2, phase <- v3, fired <- v4, call <- v5, todo <- v6,
    batch <- v7, slot <- v8, attempts <- v9, fails <- v10, crashes <- v11,
    owed <- v12, cut <- v13

\* Two callers and three calls that share counters.
QuotaKinds == {"operation", "keep", "web"}
QuotaUser == "c1" :> "u1" @@ "c2" :> "u1" @@ "c3" :> "u2"
QuotaClass == "c1" :> "keep" @@ "c2" :> "web" @@ "c3" :> "keep"
QuotaCost == "c1" :> 1 @@ "c2" :> 2 @@ "c3" :> 1
QuotaTotal == [k \in QuotaKinds |-> IF k = "web" THEN NoLimit ELSE 3]
QuotaPerUser == [k \in QuotaKinds |-> IF k = "operation" THEN 2 ELSE 1]

\* A diagnosis over the portable queue, which is read in one transaction.
Doctor == INSTANCE QueueDoctor WITH
    Contents <- {"c1"}, Backend <- "portable", Lease <- 1, StaleAfter <- 1,
    LongRunningAfter <- 2, SnapshotStale <- 1, Readers <- {"worker"},
    MaxFaults <- 1,
    state <- v1, quiet <- v2, hand <- v3, job <- v4, run <- v5, late <- v6, held <- v7,
    worker <- v8, faults <- v9, reading <- v10, stored <- v11, lasting <- v12,
    inspection <- v13, verdict <- v14, present <- v15

\* The same over PgQueuer, which is read in several.
Doctors == INSTANCE QueueDoctor WITH
    Contents <- {"c1"}, Backend <- "pgqueuer", Lease <- 1, StaleAfter <- 1,
    LongRunningAfter <- 2, SnapshotStale <- 1, Readers <- {"operator"}, MaxFaults <- 1,
    state <- v1, quiet <- v2, hand <- v3, job <- v4, run <- v5, late <- v6, held <- v7,
    worker <- v8, faults <- v9, reading <- v10, stored <- v11, lasting <- v12,
    inspection <- v13, verdict <- v14, present <- v15

\* An inspection by the operator agent.
Steward == INSTANCE QueueDoctor WITH
    Contents <- {"c1"}, Backend <- "portable", Lease <- 1, StaleAfter <- 1,
    LongRunningAfter <- 1, SnapshotStale <- 1, Readers <- {"worker"}, MaxFaults <- 0,
    state <- v1, quiet <- v2, hand <- v3, job <- v4, run <- v5, late <- v6, held <- v7,
    worker <- v8, faults <- v9, reading <- v10, stored <- v11, lasting <- v12,
    inspection <- v13, verdict <- v14, present <- v15

\* Two services start on an empty database.
Fresh == INSTANCE Provisioning WITH
    Services <- {"s1", "s2"}, Keys <- {"k1"}, MaxRows <- 2, MaxCrashes <- 1,
    Release <- "fresh", AdminNames <- {"aizk", "postgres"},
    AppNames <- {"aizk", "other"},
    migrated <- v1, tokenizer <- v2, tables <- v3, index <- v4, rows <- v5,
    granted <- v6, vocabulary <- v7, lock <- v8, pc <- v9, seen <- v10, raced <- v11,
    dropped <- v12, admin <- v13, app <- v14, crashes <- v15

\* Two services start on the former release.
Deploy == INSTANCE Provisioning WITH
    Services <- {"s1", "s2"}, Keys <- {"k1"}, MaxRows <- 2, MaxCrashes <- 1,
    Release <- "former", AdminNames <- {"aizk", "postgres"},
    AppNames <- {"aizk", "other"},
    migrated <- v1, tokenizer <- v2, tables <- v3, index <- v4, rows <- v5,
    granted <- v6, vocabulary <- v7, lock <- v8, pc <- v9, seen <- v10, raced <- v11,
    dropped <- v12, admin <- v13, app <- v14, crashes <- v15

\* Two scheduled stamps and one manual dump, over three days and two generations.
Dumps == INSTANCE Backups WITH
    Scheduled <- {"s1", "s2"}, Manual <- {"m"}, KeepDays <- 1, MaxDay <- 2,
    MaxWrites <- 2,
    day <- v1, database <- v2, tokenizer <- v3, archive <- v4, dumping <- v5,
    pruning <- v6, restoring <- v7, ensuring <- v8, best <- v9, served <- v10

\* Two originals and four chunks.
Status == INSTANCE ProcessingStatus WITH
    Artifacts <- {"a1", "a2"}, Chunks <- {"c1", "c2", "c3"}, Short <- 1, Middle <- 2,
    Day <- 3, Sample <- 2, Large <- 3, Second <- 60,
    original <- v1, finished <- v2, chunk <- v3, projected <- v4

\* Two clients of one user, one of another, and the anonymous calls.
LimitsUserOf == [c \in {"phone", "laptop", "guest", "none"} |->
               CASE c \in {"phone", "laptop"} -> "ada" [] c = "guest" -> "bob" [] OTHER -> "anonymous"]
Limits == INSTANCE CallerLimits WITH
    Credential <- {"phone", "laptop", "guest", "none"}, UserOf <- LimitsUserOf,
    Cost <- 2, Rate <- 1, BurstTicks <- 3, TableSize <- 2, MaxNow <- 5,
    now <- v1, order <- v2, bucket <- v3, born <- v4, admitted <- v5

\* A member who writes a personal scope and a team, an owner who writes one of
\* them and reads both, and a guest who reads what is public and nothing else;
\* callers may write the reports scope and none of them may read it.
Standings ==
    "owner" :> [read |-> {"mine", "team"}, write |-> {"mine", "reports"}, public |-> {}]
    @@ "member" :> [read |-> {"mine", "team"}, write |-> {"mine", "team", "reports"},
                    public |-> {}]
    @@ "guest" :> [read |-> {}, write |-> {}, public |-> {"team"}]
\* Two callers with nothing in common, and the guest.
StandingsApart ==
    "owner" :> [read |-> {"mine"}, write |-> {"mine"}, public |-> {}]
    @@ "member" :> [read |-> {"team"}, write |-> {"team"}, public |-> {}]
    @@ "guest" :> [read |-> {}, write |-> {}, public |-> {"team"}]
DocumentRows == INSTANCE RowSecurity WITH
    Callers <- {"owner", "member", "guest"}, Standing <- Standings,
    Scopes <- {"mine", "team", "reports"}, Parents <- {"d1", "d2"},
    Children <- {"c1", "c2"}, Blobs <- {}, Claims <- {}, Contents <- {},
    Deletable <- TRUE, Cockroach <- FALSE,
    parent <- v1, child <- v2, claim <- v3, policies <- v4, replacing <- v5, actor <- v6

\* Originals whose blobs others may share.
BlobRows == INSTANCE RowSecurity WITH
    Callers <- {"owner", "member", "guest"}, Standing <- StandingsApart,
    Scopes <- {"mine", "team"}, Parents <- {"a1", "a2"},
    Children <- {"v1", "v2"}, Blobs <- {"b1", "b2"}, Claims <- {}, Contents <- {},
    Deletable <- FALSE, Cockroach <- FALSE,
    parent <- v1, child <- v2, claim <- v3, policies <- v4, replacing <- v5, actor <- v6

\* Claims on shared contents.
ClaimRows == INSTANCE RowSecurity WITH
    Callers <- {"owner", "member", "guest"}, Standing <- Standings,
    Scopes <- {"mine", "team", "reports"}, Parents <- {}, Children <- {}, Blobs <- {},
    Claims <- {"k1", "k2"}, Contents <- {"x1", "x2"}, Deletable <- TRUE,
    Cockroach <- FALSE,
    parent <- v1, child <- v2, claim <- v3, policies <- v4, replacing <- v5, actor <- v6

\* The policies CockroachDB gets.
Provisioned == INSTANCE RowSecurity WITH
    Callers <- {"owner", "member", "guest"}, Standing <- Standings,
    Scopes <- {"mine", "team", "reports"}, Parents <- {"d1", "d2"},
    Children <- {"c1", "c2"}, Blobs <- {}, Claims <- {}, Contents <- {},
    Deletable <- TRUE, Cockroach <- TRUE,
    parent <- v1, child <- v2, claim <- v3, policies <- v4, replacing <- v5, actor <- v6

\* Two tasks over two pooled connections.

\* One process, two concurrent requests of one subject.
Authority == INSTANCE AuthorityCache WITH
    Processes <- {"api"}, Requests <- {1, 2}, TTL <- 2, PublicFlags <- {FALSE},
    MaxTime <- 2, MaxChanges <- 1, MaxFaults <- 1,
    standing <- v1, public <- v2, account <- v3, version <- v4, now <- v5, held <- v6,
    heldPublic <- v7, slot <- v8, catalog <- v9, publics <- v10, request <- v11,
    load <- v12, manager <- v13, evicted <- v14, faults <- v15

\* The public scopes, which a request reads beside its standing.
Publicity == INSTANCE AuthorityCache WITH
    Processes <- {"api"}, Requests <- {1}, TTL <- 2, PublicFlags <- {TRUE, FALSE},
    MaxTime <- 3, MaxChanges <- 1, MaxFaults <- 0,
    standing <- v1, public <- v2, account <- v3, version <- v4, now <- v5, held <- v6,
    heldPublic <- v7, slot <- v8, catalog <- v9, publics <- v10, request <- v11,
    load <- v12, manager <- v13, evicted <- v14, faults <- v15

PolicyOwned == {"aizk-user", "aizk-admin"}
PolicyAll == {"write", "invite", "billing"}
PolicyOrgRoles == {"admin", "viewer"}
PolicyWanted == [r \in PolicyOrgRoles |-> IF r = "admin" THEN {"write"} ELSE {}]
PolicyRole(type, current, grants) == [type |-> type, current |-> current, grants |-> grants]
PolicyGlobal(type, current, grants) == [id |-> 0] @@ PolicyRole(type, current, grants)
OnSome(S, T) == UNION {[D -> T] : D \in SUBSET S}   \* functions on part of S
\* Every state of the global roles, over an organization template in place.
RoleTenants ==
    {t \in [resource : {"absent", "drifted"},
            scopes : {{}, {"control"}},
            made : {0},
            roles : OnSome(PolicyOwned \cup {"aizk-old", "support"},
                           [id : {0}, type : {"User", "MachineToMachine"}, current : BOOLEAN,
                            grants : {{}, {"control"}}]),
            permissions : {[p \in {"write"} |-> TRUE]},
            orgRoles : {[r \in PolicyOrgRoles |-> PolicyRole("User", TRUE, PolicyWanted[r])]}] :
       /\ t.resource = "absent" => t.scopes = {}
       /\ \A r \in DOMAIN t.roles : t.roles[r].grants \subseteq t.scopes
       /\ "support" \in DOMAIN t.roles /\ t.roles["support"].current}
PolicyRoles == INSTANCE LogtoPolicy WITH
    Owned <- PolicyOwned, Obsolete <- {"aizk-old"}, Foreign <- {"support"},
    Required <- {"control"}, Permissions <- {"write"}, Retired <- {"invite"},
    Unmanaged <- {"billing"}, OrgRoles <- PolicyOrgRoles, Wanted <- PolicyWanted,
    Tenants <- RoleTenants, Appliers <- {"cli"}, Servers <- {}, MaxPasses <- 8,
    MaxRuns <- 1, MaxFaults <- 0, MaxEdits <- 0,
    tenant <- v1, phase <- v2, stage <- v3, pending <- v4, seen <- v5, passes <- v6,
    snapshot <- v7, runs <- v8, faults <- v9, edits <- v10

\* Every state of the organization template, over global roles in place.
TemplateTenants ==
    {t \in [resource : {"current"},
            scopes : {{"control"}},
            made : {0},
            roles : {[r \in PolicyOwned |-> PolicyGlobal("User", TRUE, {"control"})]},
            permissions : OnSome(PolicyAll, BOOLEAN),
            orgRoles : OnSome(PolicyOrgRoles, [type : {"User", "MachineToMachine"},
                                               current : {TRUE}, grants : SUBSET PolicyAll])] :
       /\ \A r \in DOMAIN t.orgRoles : t.orgRoles[r].grants \subseteq DOMAIN t.permissions
       /\ \A p \in DOMAIN t.permissions \ {"write"} : t.permissions[p]}
PolicyTemplate == INSTANCE LogtoPolicy WITH
    Owned <- PolicyOwned, Obsolete <- {"aizk-old"}, Foreign <- {"support"},
    Required <- {"control"}, Permissions <- {"write"}, Retired <- {"invite"},
    Unmanaged <- {"billing"}, OrgRoles <- PolicyOrgRoles, Wanted <- PolicyWanted,
    Tenants <- TemplateTenants, Appliers <- {"cli"}, Servers <- {}, MaxPasses <- 8,
    MaxRuns <- 1, MaxFaults <- 0, MaxEdits <- 0,
    tenant <- v1, phase <- v2, stage <- v3, pending <- v4, seen <- v5, passes <- v6,
    snapshot <- v7, runs <- v8, faults <- v9, edits <- v10

\* Two appliers of one tenant.
\* A tenant nobody has configured, and one with everything wrong with it.
FewTenants ==
    {[resource |-> "absent", scopes |-> {}, made |-> 0, roles |-> <<>>,
      permissions |-> <<>>, orgRoles |-> <<>>],
     [resource |-> "drifted", scopes |-> {"control"}, made |-> 0,
      roles |-> [r \in PolicyOwned \cup {"aizk-old", "support"} |->
                   PolicyGlobal(IF r = "aizk-user" THEN "MachineToMachine" ELSE "User", FALSE, {})],
      permissions |-> [p \in {"invite", "billing"} |-> TRUE],
      orgRoles |-> [r \in PolicyOrgRoles |-> PolicyRole("User", FALSE, {"invite", "billing"})]]}
Policy == INSTANCE LogtoPolicy WITH
    Owned <- PolicyOwned, Obsolete <- {"aizk-old"}, Foreign <- {"support"},
    Required <- {"control"}, Permissions <- {"write"}, Retired <- {"invite"},
    Unmanaged <- {"billing"}, OrgRoles <- PolicyOrgRoles, Wanted <- PolicyWanted,
    Tenants <- FewTenants, Appliers <- {"cli", "ci"}, Servers <- {}, MaxPasses <- 8,
    MaxRuns <- 1, MaxFaults <- 1, MaxEdits <- 0,
    tenant <- v1, phase <- v2, stage <- v3, pending <- v4, seen <- v5, passes <- v6,
    snapshot <- v7, runs <- v8, faults <- v9, edits <- v10

\* One organization of two administrators, and ids for new ones; one call at
\* a time.
AdminFounded == [o \in {"o1"} |-> [p \in {"ann", "bob"} |-> {"admin"}]]
Admin == INSTANCE Organizations WITH
    People <- {"ann", "bob", "cat"}, Roles <- {"admin", "viewer"},
    Titles <- {"Lab", "Ops"}, Orgs <- {"o1", "o2", "o3"}, Founded <- AdminFounded,
    Calls <- {1}, MaxCalls <- 3, MaxFaults <- 2,
    title <- v1, directory <- v2, call <- v3, excused <- v4, begun <- v5, faults <- v6

\* Two calls at a time.
Admins == INSTANCE Organizations WITH
    People <- {"ann", "bob", "cat"}, Roles <- {"admin", "viewer"},
    Titles <- {"Lab", "Ops"}, Orgs <- {"o1", "o2", "o3"}, Founded <- AdminFounded,
    Calls <- {1, 2}, MaxCalls <- 2, MaxFaults <- 1,
    title <- v1, directory <- v2, call <- v3, excused <- v4, begun <- v5, faults <- v6

\* One applier, and edits of the console while it runs.
PolicyEdited == INSTANCE LogtoPolicy WITH
    Owned <- PolicyOwned, Obsolete <- {"aizk-old"}, Foreign <- {"support"},
    Required <- {"control"}, Permissions <- {"write"}, Retired <- {"invite"},
    Unmanaged <- {"billing"}, OrgRoles <- PolicyOrgRoles, Wanted <- PolicyWanted,
    Tenants <- FewTenants, Appliers <- {"cli"}, Servers <- {}, MaxPasses <- 8,
    MaxRuns <- 1, MaxFaults <- 1, MaxEdits <- 1,
    tenant <- v1, phase <- v2, stage <- v3, pending <- v4, seen <- v5, passes <- v6,
    snapshot <- v7, runs <- v8, faults <- v9, edits <- v10

\* One row of the recovered entrypoint and one worker.
RecoveryOneRequest == {[entrypoint |-> "chunk", key |-> "k1"]}
Recovery == INSTANCE PortableQueue WITH
    MaxRows <- 1, Worker <- {"w1"}, Entrypoint <- {"chunk", "artifact", "unknown"},
    Registered <- {"chunk", "artifact"}, Priority <- QueuePriority,
    SlotLimit <- QueueSlots, Request <- RecoveryOneRequest, BatchSize <- 1,
    MaxAttempts <- 5, RequeueLimit <- 1, RecoveryJob <- "chunk", MaxCycles <- 3,
    MaxRequeues <- 0, MaxCrashes <- 0, MaxStalls <- 0, SlotKey <- "k1",
    status <- v1, request <- v2, attempts <- v3, ready <- v4, heartbeat <- v5,
    event <- v6, run <- v7, beat <- v8, requeues <- v9, reclaims <- v10, cycles <- v11,
    crashes <- v12, stalls <- v13

\* What the components ask of their constants, and the proofs start from.
ASSUME PartsAssumption ==
    /\ QueueAssumption /\ Stalls!QueueAssumption /\ Clock!SchedulesAssumption
    /\ QuotaAssumption /\ Doctor!WindowsAssumption /\ Doctors!WindowsAssumption
    /\ Fresh!ReleaseKnown /\ Deploy!ReleaseKnown /\ Dumps!BackupAssumption
    /\ Status!StatusAssumption /\ Limits!LimitAssumption
    /\ DocumentRows!RowsAssumption /\ BlobRows!RowsAssumption
    /\ ClaimRows!RowsAssumption /\ Provisioned!RowsAssumption
    /\ CallersAssumption /\ Authority!CacheAssumption /\ Publicity!CacheAssumption
    /\ PolicyRoles!PolicyAssumption /\ PolicyTemplate!PolicyAssumption
    /\ Policy!PolicyAssumption /\ Admin!OrganizationsAssumption
    /\ Admins!OrganizationsAssumption /\ PolicyEdited!PolicyAssumption
    /\ Recovery!QueueAssumption
-----------------------------------------------------------------------------
\* The components of this module itself rest in the other parts.
Init ==
    /\ part \in Exercised
    /\ QueueInit
    /\ QuotaInit
    /\ TxInit
    /\ part # "transactions" => doing["t1"] = "running"
    /\ \/ /\ part \in {"queue", "quota", "transactions"}
          /\ v1 = 0 /\ v2 = 0 /\ v3 = 0 /\ v4 = 0 /\ v5 = 0 /\ v6 = 0 /\ v7 = 0 /\ v8 = 0 /\ v9 = 0 /\ v10 = 0
          /\ v11 = 0 /\ v12 = 0 /\ v13 = 0 /\ v14 = 0 /\ v15 = 0
       \/ /\ part = "stalls" /\ Stalls!QueueInit
          /\ v14 = 0 /\ v15 = 0
       \/ /\ part = "schedules" /\ Clock!Init
          /\ v14 = 0 /\ v15 = 0
       \/ /\ part = "doctor" /\ Doctor!Init
          /\ v13 = 0 /\ v14 = 0 /\ v15 = 0
       \/ /\ part = "doctor_pgqueuer" /\ Doctors!Init
          /\ v13 = 0 /\ v14 = 0 /\ v15 = 0
       \/ /\ part = "steward" /\ Steward!StewardInit
       \/ /\ part = "fresh" /\ Fresh!Init
       \/ /\ part = "deploy" /\ Deploy!Init
       \/ /\ part = "backups" /\ Dumps!Init
          /\ v11 = 0 /\ v12 = 0 /\ v13 = 0 /\ v14 = 0 /\ v15 = 0
       \/ /\ part = "status" /\ Status!Init
          /\ v5 = 0 /\ v6 = 0 /\ v7 = 0 /\ v8 = 0 /\ v9 = 0 /\ v10 = 0 /\ v11 = 0 /\ v12 = 0 /\ v13 = 0 /\ v14 = 0
          /\ v15 = 0
       \/ /\ part = "limits" /\ Limits!Init
          /\ v6 = 0 /\ v7 = 0 /\ v8 = 0 /\ v9 = 0 /\ v10 = 0 /\ v11 = 0 /\ v12 = 0 /\ v13 = 0 /\ v14 = 0 /\ v15 = 0
       \/ /\ part = "documents" /\ DocumentRows!Init
          /\ v7 = 0 /\ v8 = 0 /\ v9 = 0 /\ v10 = 0 /\ v11 = 0 /\ v12 = 0 /\ v13 = 0 /\ v14 = 0 /\ v15 = 0
       \/ /\ part = "blobs" /\ BlobRows!Init
          /\ v7 = 0 /\ v8 = 0 /\ v9 = 0 /\ v10 = 0 /\ v11 = 0 /\ v12 = 0 /\ v13 = 0 /\ v14 = 0 /\ v15 = 0
       \/ /\ part = "claims" /\ ClaimRows!Init
          /\ v7 = 0 /\ v8 = 0 /\ v9 = 0 /\ v10 = 0 /\ v11 = 0 /\ v12 = 0 /\ v13 = 0 /\ v14 = 0 /\ v15 = 0
       \/ /\ part = "cockroach" /\ Provisioned!Init
          /\ v7 = 0 /\ v8 = 0 /\ v9 = 0 /\ v10 = 0 /\ v11 = 0 /\ v12 = 0 /\ v13 = 0 /\ v14 = 0 /\ v15 = 0
       \/ /\ part = "authority" /\ Authority!Init
       \/ /\ part = "public" /\ Publicity!Init
       \/ /\ part = "roles" /\ PolicyRoles!Init
          /\ v11 = 0 /\ v12 = 0 /\ v13 = 0 /\ v14 = 0 /\ v15 = 0
       \/ /\ part = "template" /\ PolicyTemplate!Init
          /\ v11 = 0 /\ v12 = 0 /\ v13 = 0 /\ v14 = 0 /\ v15 = 0
       \/ /\ part = "appliers" /\ Policy!Init
          /\ v11 = 0 /\ v12 = 0 /\ v13 = 0 /\ v14 = 0 /\ v15 = 0
       \/ /\ part = "admin" /\ Admin!Init
          /\ v7 = 0 /\ v8 = 0 /\ v9 = 0 /\ v10 = 0 /\ v11 = 0 /\ v12 = 0 /\ v13 = 0 /\ v14 = 0 /\ v15 = 0
       \/ /\ part = "admins" /\ Admins!Init
          /\ v7 = 0 /\ v8 = 0 /\ v9 = 0 /\ v10 = 0 /\ v11 = 0 /\ v12 = 0 /\ v13 = 0 /\ v14 = 0 /\ v15 = 0
       \/ /\ part = "edited" /\ PolicyEdited!Init
          /\ v11 = 0 /\ v12 = 0 /\ v13 = 0 /\ v14 = 0 /\ v15 = 0
       \/ /\ part = "recovery" /\ Recovery!QueueInit
          /\ v14 = 0 /\ v15 = 0

Resting == UNCHANGED <<part, queueVars, quotaVars, txVars>>
QueueRest == part = "queue" /\ UNCHANGED <<part, bank, quotaVars, txVars>>
QuotaRest == part = "quota" /\ UNCHANGED <<part, bank, queueVars, txVars>>
TransactionsRest == part = "transactions" /\ UNCHANGED <<part, bank, queueVars, quotaVars>>
StallsRest == part = "stalls" /\ Resting /\ UNCHANGED <<v14, v15>>
ClockRest == part = "schedules" /\ Resting /\ UNCHANGED <<v14, v15>>
DoctorRest == part = "doctor" /\ Resting /\ UNCHANGED <<v13, v14, v15>>
DoctorsRest == part = "doctor_pgqueuer" /\ Resting /\ UNCHANGED <<v13, v14, v15>>
StewardRest == part = "steward" /\ Resting
FreshRest == part = "fresh" /\ Resting
DeployRest == part = "deploy" /\ Resting
DumpsRest == part = "backups" /\ Resting /\ UNCHANGED <<v11, v12, v13, v14, v15>>
StatusRest == part = "status" /\ Resting /\ UNCHANGED <<v5, v6, v7, v8, v9, v10, v11,
                                            v12, v13, v14, v15>>
LimitsRest == part = "limits" /\ Resting /\ UNCHANGED <<v6, v7, v8, v9, v10, v11, v12,
                                            v13, v14, v15>>
DocumentRowsRest == part = "documents" /\ Resting /\ UNCHANGED <<v7, v8, v9, v10, v11,
                                                     v12, v13, v14, v15>>
BlobRowsRest == part = "blobs" /\ Resting /\ UNCHANGED <<v7, v8, v9, v10, v11, v12, v13,
                                             v14, v15>>
ClaimRowsRest == part = "claims" /\ Resting /\ UNCHANGED <<v7, v8, v9, v10, v11, v12,
                                               v13, v14, v15>>
ProvisionedRest == part = "cockroach" /\ Resting /\ UNCHANGED <<v7, v8, v9, v10, v11,
                                                    v12, v13, v14, v15>>
AuthorityRest == part = "authority" /\ Resting
PublicityRest == part = "public" /\ Resting
PolicyRolesRest == part = "roles" /\ Resting /\ UNCHANGED <<v11, v12, v13, v14, v15>>
PolicyTemplateRest == part = "template" /\ Resting /\ UNCHANGED <<v11, v12, v13, v14,
                                                      v15>>
PolicyRest == part = "appliers" /\ Resting /\ UNCHANGED <<v11, v12, v13, v14, v15>>
AdminRest == part = "admin" /\ Resting /\ UNCHANGED <<v7, v8, v9, v10, v11, v12, v13,
                                          v14, v15>>
AdminsRest == part = "admins" /\ Resting /\ UNCHANGED <<v7, v8, v9, v10, v11, v12, v13,
                                            v14, v15>>
PolicyEditedRest == part = "edited" /\ Resting /\ UNCHANGED <<v11, v12, v13, v14, v15>>
RecoveryRest == part = "recovery" /\ Resting /\ UNCHANGED <<v14, v15>>

QueueStep == QueueRest /\ QueueNext
StallsStep == StallsRest /\ Stalls!QueueNext
ClockStep == ClockRest /\ Clock!Next
QuotaStep == QuotaRest /\ QuotaNext
DoctorStep == DoctorRest /\ Doctor!Next
DoctorsStep == DoctorsRest /\ Doctors!Next
StewardStep == StewardRest /\ Steward!StewardNext
FreshStep == FreshRest /\ Fresh!Next
DeployStep == DeployRest /\ Deploy!Next
DumpsStep == DumpsRest /\ Dumps!Next
StatusStep == StatusRest /\ Status!Next
LimitsStep == LimitsRest /\ Limits!Next
DocumentRowsStep == DocumentRowsRest /\ DocumentRows!Next
BlobRowsStep == BlobRowsRest /\ BlobRows!Next
ClaimRowsStep == ClaimRowsRest /\ ClaimRows!Next
ProvisionedStep == ProvisionedRest /\ Provisioned!Next
TransactionsStep == TransactionsRest /\ TxNext
AuthorityStep == AuthorityRest /\ Authority!Next
PublicityStep == PublicityRest /\ Publicity!Next
PolicyRolesStep == PolicyRolesRest /\ PolicyRoles!Next
PolicyTemplateStep == PolicyTemplateRest /\ PolicyTemplate!Next
PolicyStep == PolicyRest /\ Policy!Next
AdminStep == AdminRest /\ Admin!Next
AdminsStep == AdminsRest /\ Admins!Next
PolicyEditedStep == PolicyEditedRest /\ PolicyEdited!Next
RecoveryStep == RecoveryRest /\ Recovery!QueueNext

Next == QueueStep \/ StallsStep \/ ClockStep \/ QuotaStep \/ DoctorStep \/
        DoctorsStep \/ StewardStep \/ FreshStep \/ DeployStep \/ DumpsStep \/
        StatusStep \/ LimitsStep \/ DocumentRowsStep \/ BlobRowsStep \/
        ClaimRowsStep \/ ProvisionedStep \/ TransactionsStep \/ AuthorityStep \/
        PublicityStep \/ PolicyRolesStep \/ PolicyTemplateStep \/ PolicyStep \/
        AdminStep \/ AdminsStep \/ PolicyEditedStep \/ RecoveryStep
Spec == Init /\ [][Next]_vars
-----------------------------------------------------------------------------
(* Each part keeps its type.                                              *)
TypeOK ==
    /\ part = "queue" => QueueTypeOK
    /\ part = "stalls" => Stalls!QueueTypeOK
    /\ part = "schedules" => Clock!TypeOK
    /\ part = "quota" => QuotaTypeOK
    /\ part = "doctor" => Doctor!TypeOK
    /\ part = "doctor_pgqueuer" => Doctors!TypeOK
    /\ part = "steward" => Steward!StewardTypeOK
    /\ part = "fresh" => Fresh!TypeOK
    /\ part = "deploy" => Deploy!TypeOK
    /\ part = "backups" => Dumps!TypeOK
    /\ part = "status" => Status!TypeOK
    /\ part = "limits" => Limits!TypeOK
    /\ part = "documents" => DocumentRows!TypeOK
    /\ part = "blobs" => BlobRows!TypeOK
    /\ part = "claims" => ClaimRows!TypeOK
    /\ part = "cockroach" => Provisioned!TypeOK
    /\ part = "transactions" => TxTypeOK
    /\ part = "authority" => Authority!TypeOK
    /\ part = "public" => Publicity!TypeOK
    /\ part = "roles" => PolicyRoles!TypeOK
    /\ part = "template" => PolicyTemplate!TypeOK
    /\ part = "appliers" => Policy!TypeOK
    /\ part = "admin" => Admin!TypeOK
    /\ part = "admins" => Admins!TypeOK

\* Whatever stalls, dies or is retried, a key has one active row, a row is
\* attempted no more often than its retries and lost leases pay for, and its
\* outcomes were attempts.  A scheduled row that is picked is in the batch of
\* exactly one replica; and a pass whose cron time was taken has been offered
\* for every scope set with memory, or is being offered, or its callback was
\* cut by a crash or an error, which the next whole callback makes up for.
WorkIsAccounted ==
    /\ [](/\ part = "stalls" => /\ Stalls!UniqueActiveKey
                                /\ Stalls!AttemptsPaid
                                /\ Stalls!EventsAccounted
          /\ part = "schedules" => Clock!PickedIsExecuted /\ Clock!PassesAccounted)

\* What operators are told and rely on is so: a diagnosis explains its exit
\* code by the queue it read, an inspection misses no failure and acts on
\* evidence, the status of an original is its jobs' status, a service that
\* serves has the whole schema, and a dump that is kept can be restored.
OperationsTrue ==
    /\ [](/\ part = "doctor" => /\ Doctor!ListExplainsExit
                                /\ Doctor!ConsoleIsCurrent
                                /\ Doctor!ExitZeroMeansNoBlockers
          /\ part = "doctor_pgqueuer" => Doctors!ExitZeroMeansNoBlockers
          /\ part = "steward" => /\ Steward!FailuresAreSeen
                                 /\ Steward!ActionsRestOnEvidence
          /\ part = "status" => /\ Status!RangeOrdered
                                /\ Status!IdleIsDone
                                /\ Status!EnrichedNotEarly
                                /\ Status!ActiveIsEstimated
          /\ part = "fresh" => /\ Fresh!ServedComplete
                               /\ Fresh!DropsOnlyTheAgreed
          /\ part = "deploy" => /\ Deploy!UniqueWhenServed
                                /\ Deploy!ServedComplete
                                /\ Deploy!RebuildNeverRaced
          /\ part = "backups" => /\ Dumps!Recoverable
                                 /\ Dumps!RestoredWhole
                                 /\ Dumps!LexicalStands)
    /\ [][(/\ part = "doctor_pgqueuer" => Doctors!LongRunningSeen
           /\ part = "deploy" => Deploy!SteadyStartKeepsIndex
           /\ part = "backups" => Dumps!PruneKeepsYoung)]_vars

\* Row security shows a caller its own rows and no other, a task sees its own
\* scope again when a block ends, standing is recent, and nobody is admitted
\* past the limits.
AccessGuarded ==
    /\ [](/\ part = "limits" => Limits!BurstBound
          /\ part = "documents" => /\ DocumentRows!NoForeignRead
                                   /\ DocumentRows!NothingHidden
          /\ part = "claims" => /\ ClaimRows!NoForeignRead
                                /\ ClaimRows!NothingHidden
          /\ part = "cockroach" => /\ Provisioned!ChildSeenAsParent
                                   /\ Provisioned!NothingHidden
          /\ part = "transactions" => PopsOwnScope
          /\ part = "authority" => /\ Authority!StandingIsRecent
                                   /\ Authority!OwnChangesShow
          /\ part = "public" => Publicity!PublicIsRecent)
    /\ [][(/\ part = "limits" => /\ Limits!Independent
                                 /\ Limits!IdlestGoes
                                 /\ Limits!RefusalsAreFree
           /\ part = "documents" => DocumentRows!WrittenWithStanding
           /\ part = "blobs" => BlobRows!BlobsNotPulled
           /\ part = "cockroach" => Provisioned!WrittenWithStanding)]_vars

\* Changes to the tenant and to organizations leave what they are meant to
\* leave: the policy converges, spares what it does not own and locks nobody
\* out, and an organization keeps a title of its own and an administrator.
Administered ==
    /\ [](/\ part = "roles" => PolicyRoles!Converges
          /\ part = "template" => PolicyTemplate!Converges
          /\ part = "admin" => /\ Admin!TitlesUnique
                               /\ Admin!NoOrphans
          /\ part = "admins" => Admins!NoBareMembers)
    /\ [][(/\ part = "roles" => /\ PolicyRoles!CleanIsConfigured
                                /\ PolicyRoles!LeavesOthersAlone
                                /\ PolicyRoles!LocksNobodyOut
           /\ part = "template" => /\ PolicyTemplate!CleanIsConfigured
                                   /\ PolicyTemplate!LeavesOthersAlone
                                   /\ PolicyTemplate!LocksNobodyOut
           /\ part = "appliers" => /\ Policy!CleanIsConfigured
                                   /\ Policy!OwnSnapshotsDie
                                   /\ Policy!LocksNobodyOut
           /\ part = "admin" => Admin!KeepsAnAdmin)]_vars

-----------------------------------------------------------------------------
(***************************************************************************)
(* Progress.  Workers poll, the reaper and the timers run, and a body that    *)
(* started returns or raises: these are weakly fair.  What is free only now   *)
(* and again, and comes to whoever waits for it then, is strongly fair; that  *)
(* is asked by the properties that need it.                                   *)
(***************************************************************************)
QueueFairness ==
    /\ \A w \in {"w1", "w2"} : WF_vars(QueueRest /\ Claim(w))
    /\ \A w \in {"w1", "w2"}, t \in Task :
         WF_vars(QueueRest /\ (\/ Start(w, t) \/ Finish(w, t)
                               \/ HandlerReturns(w, t) \/ HandlerRaises(w, t)
                               \/ Fail(w, t) \/ FailConflicts(w, t)))
    /\ \A t \in Task :
         /\ WF_vars(QueueRest /\ LeaseExpires(t))
         /\ WF_vars(QueueRest /\ BackoffElapses(t))
    /\ WF_vars(QueueRest /\ ChunkRecovery)

RecoveryFairness ==
    /\ WF_vars(RecoveryRest /\ Recovery!Claim("w1"))
    /\ \A t \in Recovery!Task :
         /\ WF_vars(RecoveryRest
                      /\ (\/ Recovery!Start("w1", t) \/ Recovery!Finish("w1", t)
                          \/ Recovery!HandlerReturns("w1", t) \/ Recovery!HandlerRaises("w1", t)
                          \/ Recovery!Fail("w1", t) \/ Recovery!FailConflicts("w1", t)))
         /\ WF_vars(RecoveryRest /\ (Recovery!LeaseExpires(t) \/ Recovery!BackoffElapses(t)))
    /\ WF_vars(RecoveryRest /\ Recovery!ChunkRecovery)

\* Cron times pass, each replica's loop goes on and each job ends.
ClockFairness ==
    /\ \A j \in Clock!Schedule : WF_vars(ClockRest /\ Clock!Tick(j))
    /\ \A r \in {"r1", "r2"} :
         /\ WF_vars(ClockRest /\ (\/ Clock!Claim(r) \/ Clock!ReadRoster(r) \/ Clock!Returns(r)
                                  \/ \E s \in {"s1", "s2"} : Clock!Offer(r, s)))
         /\ \A k \in Clock!Key :
              WF_vars(ClockRest /\ (Clock!JobDone(r, k) \/ Clock!JobFails(r, k)))

\* A transaction ends, and SQLAlchemy's pool hands a free connection to a
\* waiter or gives it a TimeoutError.
TransactionsFairness ==
    \A t \in {"t1", "t2"} :
      WF_vars(TransactionsRest
                /\ (\/ Ends(t) \/ Exit(t)
                    \/ PoolTimeout(t)
                    \/ \E c \in {"k1", "k2"} :
                         Connect(t, c) \/ ConnectFails(t, c)))

QuotaFairness == \A c \in MeteredCalls : WF_vars(QuotaRest /\ Step(c))

FreshFairness ==
    /\ \A s \in {"s1", "s2"} : WF_vars(FreshRest /\ Fresh!Setup(s))
    /\ WF_vars(FreshRest /\ (Fresh!Finish("k1") \/ Fresh!Hold("k1")))

\* The applier's requests return or raise.
PolicyFairness ==
    WF_vars(PolicyEditedRest /\ (\/ PolicyEdited!Plan("cli") \/ PolicyEdited!Send("cli")
                                 \/ PolicyEdited!NextPass("cli") \/ PolicyEdited!Raise("cli")))

LiveSpec ==
    Spec /\ QueueFairness /\ RecoveryFairness /\ ClockFairness /\ TransactionsFairness
    /\ QuotaFairness /\ FreshFairness /\ PolicyFairness

\* "Every job body is idempotent ... safe to re-run" (PortableQueue): rows
\* come to an outcome, whatever workers die, leases expire and bodies raise.
Settles == []<>~(part = "queue" /\ \E t \in Task : Unsettled(t))

\* The row of a due schedule is locked by one replica at a time, and a replica
\* that polls sees it free, or nothing due, over and over.
ReplicasTakeTurns ==
    /\ \A j \in Clock!Schedule :
         SF_vars(ClockRest /\ \E r \in {"r1", "r2"} : Clock!Fire(r, j))
    /\ \A r \in {"r1", "r2"} : SF_vars(ClockRest /\ Clock!FiredAll(r))

\* A pass of a scope set that holds memory runs again and again, whichever
\* replica fires it, unless its job is retained as failed.
PassesRecur ==
    ReplicasTakeTurns =>
      \A k \in Clock!Key :
        <>[](part = "schedules" /\ Clock!Wanted(k))
          => \/ []<>(part = "schedules" /\ Clock!RunsNow(k))
             \/ <>[](part = "schedules" /\ Clock!RetainedFailed(k))

\* PostgreSQL grants the setup's advisory lock to whoever waits for it.
LockIsGranted == \A s \in {"s1", "s2"} : SF_vars(FreshRest /\ Fresh!TakeLock(s))

(***************************************************************************)
(* Who waits: a task for a pooled connection, a metered call for its verdict, *)
(* a service on an empty database until it is up, an operator for the end of  *)
(* a policy run.                                                              *)
(***************************************************************************)
SomeoneWaits ==
    \/ part = "transactions" /\ \E t \in Tasks : Waits(t)
    \/ part = "quota" /\ \E c \in MeteredCalls : Charging(c)
    \/ part = "fresh" /\ \E s \in {"s1", "s2"} : ~Fresh!Serves(s)
    \/ part = "edited" /\ PolicyEdited!UnderWay("cli")

\* Nobody waits for ever: not for the connections other tasks hold, through the
\* conflicts and retries of a charge, behind whoever builds the schema and crashes
\* on the way, or while the console is edited under the run.
ServiceProceeds == LockIsGranted => []<>~SomeoneWaits

\* docs/dev/passes/recovery.md: a held chunk failure is retried until it has
\* used its recovery cycles.
HeldFailureRetried ==
    \A t \in Recovery!Task :
      (part = "recovery" /\ Recovery!HeldRetriable(t))
        ~> (part = "recovery" /\ ~Recovery!HeldRetriable(t))

-----------------------------------------------------------------------------
(* The parts of MCService that guard access, whose theorems are in their   *)
(* own modules.                                                            *)

\* A step is one of the part a behaviour exercises, and the part stays.
LEMMA StepOfPart ==
  ASSUME Next
  PROVE  /\ part' = part
         /\ part = "limits" => LimitsStep
         /\ part = "documents" => DocumentRowsStep
         /\ part = "blobs" => BlobRowsStep
         /\ part = "claims" => ClaimRowsStep
         /\ part = "cockroach" => ProvisionedStep
         /\ part = "authority" => AuthorityStep
         /\ part = "public" => PublicityStep
         /\ part = "stalls" => StallsStep
         /\ part = "schedules" => ClockStep
  BY DEF Next, Resting, QueueStep, QueueRest, StallsStep, StallsRest,
         ClockStep, ClockRest, QuotaStep, QuotaRest, DoctorStep, DoctorRest,
         DoctorsStep, DoctorsRest, StewardStep, StewardRest, FreshStep,
         FreshRest, DeployStep, DeployRest, DumpsStep, DumpsRest, StatusStep,
         StatusRest, LimitsStep, LimitsRest, DocumentRowsStep,
         DocumentRowsRest, BlobRowsStep, BlobRowsRest, ClaimRowsStep,
         ClaimRowsRest, ProvisionedStep, ProvisionedRest, TransactionsStep,
         TransactionsRest, AuthorityStep, AuthorityRest, PublicityStep,
         PublicityRest, PolicyRolesStep, PolicyRolesRest, PolicyTemplateStep,
         PolicyTemplateRest, PolicyStep, PolicyRest, AdminStep, AdminRest,
         AdminsStep, AdminsRest, PolicyEditedStep, PolicyEditedRest,
         RecoveryStep, RecoveryRest

\* No step changes the part.
LEMMA PartStays == ASSUME [Next]_vars PROVE part' = part
  BY StepOfPart DEF vars

\* A behaviour that exercises the caller limits is one of their module, which proves
\* what it keeps.
LEMMA LimitsGuarded ==
  Spec => /\ [](part = "limits" => Limits!BurstBound)
          /\ [][part = "limits" => Limits!Independent]_vars
          /\ [][part = "limits" => Limits!IdlestGoes]_vars
          /\ [][part = "limits" => Limits!RefusalsAreFree]_vars
<1>1. Init /\ part = "limits" => Limits!Init
  BY DEF Init
<1>2. part = "limits" /\ [Next]_vars =>
         /\ [Limits!Next]_(Limits!vars)
         /\ UNCHANGED Limits!vars => UNCHANGED vars
  <2>. SUFFICES ASSUME part = "limits", [Next]_vars
                PROVE  /\ [Limits!Next]_(Limits!vars)
                       /\ UNCHANGED Limits!vars => UNCHANGED vars
    OBVIOUS
  <2>1. CASE UNCHANGED vars
    BY <2>1 DEF vars, bank, Limits!vars
  <2>2. CASE Next
    BY <2>2, StepOfPart DEF LimitsStep, LimitsRest, Resting, vars, bank, Limits!vars
  <2>. QED  BY <2>1, <2>2
<1>3. [Next]_vars => (part = "limits" <=> (part = "limits")')
  BY PartStays
<1>4. Limits!LimitAssumption
  BY PartsAssumption
<1>5. Limits!Spec => /\ []Limits!BurstBound
                     /\ [][Limits!Independent]_(Limits!vars)
                     /\ [][Limits!IdlestGoes]_(Limits!vars)
                     /\ [][Limits!RefusalsAreFree]_(Limits!vars)
  BY <1>4, Limits!BurstIsBounded, Limits!UsersAreIndependent, Limits!TheIdlestGoes, Limits!RefusalsCostNothing
<1>6. Spec /\ part = "limits" => Limits!Spec
  BY <1>1, <1>2, <1>3, PTL DEF Spec, Limits!Spec
<1>. QED  BY <1>2, <1>3, <1>5, <1>6, PTL DEF Spec

\* A behaviour that exercises documents and chunks is one of their module, which proves
\* what it keeps.
LEMMA DocumentRowsGuarded ==
  Spec => /\ [](part = "documents" => DocumentRows!NoForeignRead /\ DocumentRows!NothingHidden)
          /\ [][part = "documents" => DocumentRows!WrittenWithStanding]_vars
<1>1. Init /\ part = "documents" => DocumentRows!Init
  BY DEF Init
<1>2. part = "documents" /\ [Next]_vars =>
         /\ [DocumentRows!Next]_(DocumentRows!vars)
         /\ UNCHANGED DocumentRows!vars => UNCHANGED vars
  <2>. SUFFICES ASSUME part = "documents", [Next]_vars
                PROVE  /\ [DocumentRows!Next]_(DocumentRows!vars)
                       /\ UNCHANGED DocumentRows!vars => UNCHANGED vars
    OBVIOUS
  <2>1. CASE UNCHANGED vars
    BY <2>1 DEF vars, bank, DocumentRows!vars
  <2>2. CASE Next
    BY <2>2, StepOfPart DEF DocumentRowsStep, DocumentRowsRest, Resting, vars, bank, DocumentRows!vars
  <2>. QED  BY <2>1, <2>2
<1>3. [Next]_vars => (part = "documents" <=> (part = "documents")')
  BY PartStays
<1>4. DocumentRows!RowsAssumption
  BY PartsAssumption
<1>5. DocumentRows!Spec => /\ []DocumentRows!NoForeignRead
                     /\ []DocumentRows!NothingHidden
                     /\ [][DocumentRows!WrittenWithStanding]_(DocumentRows!vars)
  BY <1>4, DocumentRows!ReadersStand, DocumentRows!ReadersSeeTheirs, DocumentRows!WritersStand
<1>6. Spec /\ part = "documents" => DocumentRows!Spec
  BY <1>1, <1>2, <1>3, PTL DEF Spec, DocumentRows!Spec
<1>. QED  BY <1>2, <1>3, <1>5, <1>6, PTL DEF Spec

\* A behaviour that exercises originals and blobs is one of their module, which proves
\* what it keeps.
LEMMA BlobRowsGuarded ==
  Spec => [][part = "blobs" => BlobRows!BlobsNotPulled]_vars
<1>1. Init /\ part = "blobs" => BlobRows!Init
  BY DEF Init
<1>2. part = "blobs" /\ [Next]_vars =>
         /\ [BlobRows!Next]_(BlobRows!vars)
         /\ UNCHANGED BlobRows!vars => UNCHANGED vars
  <2>. SUFFICES ASSUME part = "blobs", [Next]_vars
                PROVE  /\ [BlobRows!Next]_(BlobRows!vars)
                       /\ UNCHANGED BlobRows!vars => UNCHANGED vars
    OBVIOUS
  <2>1. CASE UNCHANGED vars
    BY <2>1 DEF vars, bank, BlobRows!vars
  <2>2. CASE Next
    BY <2>2, StepOfPart DEF BlobRowsStep, BlobRowsRest, Resting, vars, bank, BlobRows!vars
  <2>. QED  BY <2>1, <2>2
<1>3. [Next]_vars => (part = "blobs" <=> (part = "blobs")')
  BY PartStays
<1>4. BlobRows!RowsAssumption
  BY PartsAssumption
<1>5. BlobRows!Spec => [][BlobRows!BlobsNotPulled]_(BlobRows!vars)
  BY <1>4, BlobRows!BlobsStay
<1>6. Spec /\ part = "blobs" => BlobRows!Spec
  BY <1>1, <1>2, <1>3, PTL DEF Spec, BlobRows!Spec
<1>. QED  BY <1>2, <1>3, <1>5, <1>6, PTL DEF Spec

\* A behaviour that exercises claims is one of their module, which proves
\* what it keeps.
LEMMA ClaimRowsGuarded ==
  Spec => [](part = "claims" => ClaimRows!NoForeignRead /\ ClaimRows!NothingHidden)
<1>1. Init /\ part = "claims" => ClaimRows!Init
  BY DEF Init
<1>2. part = "claims" /\ [Next]_vars =>
         /\ [ClaimRows!Next]_(ClaimRows!vars)
         /\ UNCHANGED ClaimRows!vars => UNCHANGED vars
  <2>. SUFFICES ASSUME part = "claims", [Next]_vars
                PROVE  /\ [ClaimRows!Next]_(ClaimRows!vars)
                       /\ UNCHANGED ClaimRows!vars => UNCHANGED vars
    OBVIOUS
  <2>1. CASE UNCHANGED vars
    BY <2>1 DEF vars, bank, ClaimRows!vars
  <2>2. CASE Next
    BY <2>2, StepOfPart DEF ClaimRowsStep, ClaimRowsRest, Resting, vars, bank, ClaimRows!vars
  <2>. QED  BY <2>1, <2>2
<1>3. [Next]_vars => (part = "claims" <=> (part = "claims")')
  BY PartStays
<1>4. ClaimRows!RowsAssumption
  BY PartsAssumption
<1>5. ClaimRows!Spec => /\ []ClaimRows!NoForeignRead
                     /\ []ClaimRows!NothingHidden
  BY <1>4, ClaimRows!ReadersStand, ClaimRows!ReadersSeeTheirs
<1>6. Spec /\ part = "claims" => ClaimRows!Spec
  BY <1>1, <1>2, <1>3, PTL DEF Spec, ClaimRows!Spec
<1>. QED  BY <1>2, <1>3, <1>5, <1>6, PTL DEF Spec

\* A behaviour that exercises the policies of CockroachDB is one of their module, which proves
\* what it keeps.
LEMMA ProvisionedGuarded ==
  Spec => /\ [](part = "cockroach" => Provisioned!ChildSeenAsParent /\ Provisioned!NothingHidden)
          /\ [][part = "cockroach" => Provisioned!WrittenWithStanding]_vars
<1>1. Init /\ part = "cockroach" => Provisioned!Init
  BY DEF Init
<1>2. part = "cockroach" /\ [Next]_vars =>
         /\ [Provisioned!Next]_(Provisioned!vars)
         /\ UNCHANGED Provisioned!vars => UNCHANGED vars
  <2>. SUFFICES ASSUME part = "cockroach", [Next]_vars
                PROVE  /\ [Provisioned!Next]_(Provisioned!vars)
                       /\ UNCHANGED Provisioned!vars => UNCHANGED vars
    OBVIOUS
  <2>1. CASE UNCHANGED vars
    BY <2>1 DEF vars, bank, Provisioned!vars
  <2>2. CASE Next
    BY <2>2, StepOfPart DEF ProvisionedStep, ProvisionedRest, Resting, vars, bank, Provisioned!vars
  <2>. QED  BY <2>1, <2>2
<1>3. [Next]_vars => (part = "cockroach" <=> (part = "cockroach")')
  BY PartStays
<1>4. Provisioned!RowsAssumption
  BY PartsAssumption
<1>5. Provisioned!Spec => /\ []Provisioned!ChildSeenAsParent
                     /\ []Provisioned!NothingHidden
                     /\ [][Provisioned!WrittenWithStanding]_(Provisioned!vars)
  BY <1>4, Provisioned!ShortcutAgrees, Provisioned!ReadersSeeTheirs, Provisioned!WritersStand
<1>6. Spec /\ part = "cockroach" => Provisioned!Spec
  BY <1>1, <1>2, <1>3, PTL DEF Spec, Provisioned!Spec
<1>. QED  BY <1>2, <1>3, <1>5, <1>6, PTL DEF Spec

\* A behaviour that exercises the authority cache is one of their module, which proves
\* what it keeps.
LEMMA AuthorityGuarded ==
  Spec => [](part = "authority" => Authority!StandingIsRecent /\ Authority!OwnChangesShow)
<1>1. Init /\ part = "authority" => Authority!Init
  BY DEF Init
<1>2. part = "authority" /\ [Next]_vars =>
         /\ [Authority!Next]_(Authority!vars)
         /\ UNCHANGED Authority!vars => UNCHANGED vars
  <2>. SUFFICES ASSUME part = "authority", [Next]_vars
                PROVE  /\ [Authority!Next]_(Authority!vars)
                       /\ UNCHANGED Authority!vars => UNCHANGED vars
    OBVIOUS
  <2>1. CASE UNCHANGED vars
    BY <2>1 DEF vars, bank, Authority!vars
  <2>2. CASE Next
    BY <2>2, StepOfPart DEF AuthorityStep, AuthorityRest, Resting, vars, bank, Authority!vars
  <2>. QED  BY <2>1, <2>2
<1>3. [Next]_vars => (part = "authority" <=> (part = "authority")')
  BY PartStays
<1>4. Authority!CacheAssumption
  BY PartsAssumption
<1>5. Authority!Spec => /\ []Authority!StandingIsRecent
                     /\ []Authority!OwnChangesShow
  BY <1>4, Authority!StandingWithinTTL, Authority!OwnChangesSeen
<1>6. Spec /\ part = "authority" => Authority!Spec
  BY <1>1, <1>2, <1>3, PTL DEF Spec, Authority!Spec
<1>. QED  BY <1>2, <1>3, <1>5, <1>6, PTL DEF Spec

\* A behaviour that exercises the public scopes is one of their module, which proves
\* what it keeps.
LEMMA PublicityGuarded ==
  Spec => [](part = "public" => Publicity!PublicIsRecent)
<1>1. Init /\ part = "public" => Publicity!Init
  BY DEF Init
<1>2. part = "public" /\ [Next]_vars =>
         /\ [Publicity!Next]_(Publicity!vars)
         /\ UNCHANGED Publicity!vars => UNCHANGED vars
  <2>. SUFFICES ASSUME part = "public", [Next]_vars
                PROVE  /\ [Publicity!Next]_(Publicity!vars)
                       /\ UNCHANGED Publicity!vars => UNCHANGED vars
    OBVIOUS
  <2>1. CASE UNCHANGED vars
    BY <2>1 DEF vars, bank, Publicity!vars
  <2>2. CASE Next
    BY <2>2, StepOfPart DEF PublicityStep, PublicityRest, Resting, vars, bank, Publicity!vars
  <2>. QED  BY <2>1, <2>2
<1>3. [Next]_vars => (part = "public" <=> (part = "public")')
  BY PartStays
<1>4. Publicity!CacheAssumption
  BY PartsAssumption
<1>5. Publicity!Spec => []Publicity!PublicIsRecent
  BY <1>4, Publicity!PublicWithinTTL
<1>6. Spec /\ part = "public" => Publicity!Spec
  BY <1>1, <1>2, <1>3, PTL DEF Spec, Publicity!Spec
<1>. QED  BY <1>2, <1>3, <1>5, <1>6, PTL DEF Spec

\* The context stacks are guarded in every part, as those of the other parts
\* rest.
LEMMA TransactionsGuarded == Spec => []PopsOwnScope
<1>1. Init => TxInit
  BY DEF Init
<1>2. [Next]_vars => [TxNext]_txVars
  <2>1. CASE UNCHANGED vars
    BY <2>1 DEF vars
  <2>2. ASSUME Next PROVE [TxNext]_txVars
    BY <2>2 DEF Next, Resting, QueueStep, QueueRest, StallsStep, StallsRest,
           ClockStep, ClockRest, QuotaStep, QuotaRest, DoctorStep,
           DoctorRest, DoctorsStep, DoctorsRest, StewardStep, StewardRest,
           FreshStep, FreshRest, DeployStep, DeployRest, DumpsStep,
           DumpsRest, StatusStep, StatusRest, LimitsStep, LimitsRest,
           DocumentRowsStep, DocumentRowsRest, BlobRowsStep, BlobRowsRest,
           ClaimRowsStep, ClaimRowsRest, ProvisionedStep, ProvisionedRest,
           TransactionsStep, TransactionsRest, AuthorityStep, AuthorityRest,
           PublicityStep, PublicityRest, PolicyRolesStep, PolicyRolesRest,
           PolicyTemplateStep, PolicyTemplateRest, PolicyStep, PolicyRest,
           AdminStep, AdminRest, AdminsStep, AdminsRest, PolicyEditedStep,
           PolicyEditedRest, RecoveryStep, RecoveryRest
  <2>. QED  BY <2>1, <2>2
<1>3. CallersAssumption
  BY PartsAssumption
<1>4. TxSpec => []PopsOwnScope
  BY <1>3, PopsAreOwn
<1>. QED  BY <1>1, <1>2, <1>4, PTL DEF Spec, TxSpec

\* What MCService_safety checks of access: no more is admitted than the limits
\* allow, a caller sees and writes what its standing allows and no other, a
\* task sees its own scope again, and standing is recent.
THEOREM AccessIsGuarded == Spec => AccessGuarded
  BY LimitsGuarded, DocumentRowsGuarded, BlobRowsGuarded, ClaimRowsGuarded,
     ProvisionedGuarded, AuthorityGuarded, PublicityGuarded, TransactionsGuarded,
     PTL DEF AccessGuarded

\* A behaviour that exercises the stalling queue is one of the portable queue,
\* whatever its leases do.
LEMMA StallsAccounted ==
  Spec => [](part = "stalls" => /\ Stalls!UniqueActiveKey
                                /\ Stalls!AttemptsPaid
                                /\ Stalls!EventsAccounted)
<1>1. Init /\ part = "stalls" => Stalls!QueueInit
  BY DEF Init
<1>2. part = "stalls" /\ [Next]_vars => [Stalls!QueueNext]_(Stalls!queueVars)
  <2>. SUFFICES ASSUME part = "stalls", [Next]_vars
                PROVE  [Stalls!QueueNext]_(Stalls!queueVars)
    OBVIOUS
  <2>1. CASE UNCHANGED vars
    BY <2>1 DEF vars, bank, Stalls!queueVars, Stalls!rowVars, Stalls!historyVars
  <2>2. CASE Next
    BY <2>2, StepOfPart DEF StallsStep
  <2>. QED  BY <2>1, <2>2
<1>3. [Next]_vars => (part = "stalls" <=> (part = "stalls")')
  BY PartStays
<1>4. Stalls!QueueAssumption
  BY PartsAssumption
<1>5. Stalls!QueueSpec => /\ []Stalls!UniqueActiveKey
                          /\ []Stalls!AttemptsPaid
                          /\ []Stalls!EventsAccounted
  BY <1>4, Stalls!KeysUnique, Stalls!AttemptsArePaid, Stalls!EventsAreAccounted
<1>6. Spec /\ part = "stalls" => Stalls!QueueSpec
  BY <1>1, <1>2, <1>3, PTL DEF Spec, Stalls!QueueSpec
<1>. QED  BY <1>3, <1>5, <1>6, PTL DEF Spec

\* What BatchesHeld says one replica and one row at a time.
LEMMA HeldRows ==
  ASSUME Clock!BatchesHeld
  PROVE  /\ \A r \in {"r1", "r2"} : v7[r] \in SUBSET Clock!Key
         /\ \A r \in {"r1", "r2"}, k \in Clock!Key : k \in v7[r] => v8[k] = "picked"
         /\ \A q, r \in {"r1", "r2"}, k \in Clock!Key : k \in v7[q] /\ k \in v7[r] => q = r
  BY DEF Clock!BatchesHeld, Clock!PickedIsExecuted

\* Offers, firings and a fan-out that ends leave batches and picked rows alone.
LEMMA OffersHold ==
  ASSUME Clock!BatchesHeld, v7' = v7,
         v3' \in [{"r1", "r2"} -> {"poll", "read", "call", "claim", "work"}],
         \A r \in {"r1", "r2"} : v3[r] = "work" => v3'[r] = "work",
         v8' \in [Clock!Key -> {"free", "queued", "picked", "failed"}],
         \A k \in Clock!Key : v8[k] = "picked" <=> v8'[k] = "picked"
  PROVE  Clock!BatchesHeld'
  BY DEF Clock!BatchesHeld, Clock!PickedIsExecuted, Clock!Key

\* Every step of the clock keeps the batches apart.
LEMMA BatchesStay ==
  ASSUME Clock!BatchesHeld, Clock!Next
  PROVE  Clock!BatchesHeld'
<1>1. ASSUME NEW j \in Clock!Schedule, Clock!Tick(j) PROVE Clock!BatchesHeld'
  BY <1>1, OffersHold DEF Clock!Tick, Clock!replicaVars, Clock!BatchesHeld
<1>2. ASSUME NEW s \in {"s1", "s2"}, Clock!Store(s) PROVE Clock!BatchesHeld'
  BY <1>2, OffersHold DEF Clock!Store, Clock!replicaVars, Clock!BatchesHeld
<1>3. ASSUME NEW r \in {"r1", "r2"}, NEW j \in Clock!Schedule, Clock!Fire(r, j)
      PROVE  Clock!BatchesHeld'
  BY <1>3, OffersHold DEF Clock!Fire, Clock!BatchesHeld
<1>4. ASSUME NEW r \in {"r1", "r2"}, NEW s \in {"s1", "s2"}, Clock!Offer(r, s)
      PROVE  Clock!BatchesHeld'
  <2>1. /\ v8' \in [Clock!Key -> {"free", "queued", "picked", "failed"}]
        /\ \A k \in Clock!Key : v8[k] = "picked" <=> v8'[k] = "picked"
    BY <1>4 DEF Clock!Offer, Clock!Free, Clock!BatchesHeld
  <2>. QED  BY <1>4, <2>1, OffersHold DEF Clock!Offer, Clock!BatchesHeld
<1>5. ASSUME NEW r \in {"r1", "r2"},
             Clock!ReadRoster(r) \/ Clock!Returns(r) \/ Clock!CallFails(r) \/ Clock!FiredAll(r)
      PROVE  Clock!BatchesHeld'
  BY <1>5, OffersHold DEF Clock!ReadRoster, Clock!Returns, Clock!CallFails, Clock!FiredAll,
     Clock!Leaves, Clock!BatchesHeld
<1>6. ASSUME NEW r \in {"r1", "r2"}, Clock!Claim(r) PROVE Clock!BatchesHeld'
  <2>1. v7[r] = {}
    BY <1>6 DEF Clock!Claim, Clock!BatchesHeld
  <2>2. Clock!Waiting \subseteq Clock!Key /\ \A k \in Clock!Waiting : v8[k] = "queued"
    BY DEF Clock!Waiting
  <2>3. \A q \in {"r1", "r2"} : v7[q] \cap Clock!Waiting = {}
    BY <2>2, HeldRows
  <2>4. /\ v7' = [v7 EXCEPT ![r] = Clock!Waiting]
        /\ v3' = [v3 EXCEPT ![r] = IF Clock!Waiting = {} THEN "poll" ELSE "work"]
        /\ v8' = [k \in Clock!Key |-> IF k \in Clock!Waiting THEN "picked" ELSE v8[k]]
    BY <1>6 DEF Clock!Claim
  <2>. QED  BY <2>1, <2>2, <2>3, <2>4 DEF Clock!BatchesHeld, Clock!PickedIsExecuted, Clock!Key
<1>7. ASSUME NEW r \in {"r1", "r2"}, NEW k \in Clock!Key,
             Clock!JobDone(r, k) \/ Clock!JobFails(r, k)
      PROVE  Clock!BatchesHeld'
  <2>1. PICK left \in {"free", "queued", "failed"} : v8' = [v8 EXCEPT ![k] = left]
    BY <1>7 DEF Clock!JobDone, Clock!JobFails, Clock!Outcome
  <2>2. /\ k \in v7[r] /\ v7' = [v7 EXCEPT ![r] = @ \ {k}]
        /\ v3' = [v3 EXCEPT ![r] = IF v7[r] = {k} THEN "poll" ELSE "work"]
    BY <1>7 DEF Clock!JobDone, Clock!JobFails, Clock!Left
  <2>. QED  BY <2>1, <2>2, HeldRows DEF Clock!BatchesHeld, Clock!PickedIsExecuted, Clock!Key
<1>8. ASSUME NEW r \in {"r1", "r2"}, Clock!Crash(r) PROVE Clock!BatchesHeld'
  <2>1. /\ v7' = [v7 EXCEPT ![r] = {}] /\ v3' = [v3 EXCEPT ![r] = "poll"]
        /\ v8' = [k \in Clock!Key |-> IF k \in v7[r] THEN "queued" ELSE v8[k]]
    BY <1>8 DEF Clock!Crash, Clock!Leaves
  <2>. QED  BY <2>1, HeldRows DEF Clock!BatchesHeld, Clock!PickedIsExecuted, Clock!Key
<1>. QED  BY <1>1, <1>2, <1>3, <1>4, <1>5, <1>6, <1>7, <1>8 DEF Clock!Next

\* What is owed stays in sight while replicas go on: the replica that hands a
\* scope set out still does, or its callback was cut.
LEMMA PromisesKept ==
  ASSUME Clock!PromisesHeld, v12' \subseteq v12, v13 \subseteq v13', v2 \subseteq v2',
         v2' \subseteq {"s1", "s2"},
         v5' \in [{"r1", "r2"} -> Clock!Schedule \cup {"none"}],
         v6' \in [{"r1", "r2"} -> SUBSET {"s1", "s2"}],
         \A j \in {"profiles"}, s \in {"s1", "s2"} :
            <<j, s>> \in v12' /\ Clock!Handing(j, s) => Clock!Handing(j, s)' \/ j \in v13'
  PROVE  Clock!PromisesHeld'
  BY DEF Clock!PromisesHeld, Clock!PassesAccounted, Clock!NoCall

\* A replica that is in no callback may move as it likes.
LEMMA OthersHandOut ==
  ASSUME NEW r \in {"r1", "r2"}, v3[r] \notin {"read", "call"},
         \A q \in {"r1", "r2"} \ {r} : v3'[q] = v3[q] /\ v5'[q] = v5[q] /\ v6'[q] = v6[q],
         NEW j, NEW s, Clock!Handing(j, s)
  PROVE  Clock!Handing(j, s)'
  BY DEF Clock!Handing

\* Firings, and the read of the roster, take in hand what they promise.
LEMMA PromisesMade ==
  ASSUME Clock!BatchesHeld, Clock!PromisesHeld, NEW r \in {"r1", "r2"},
         NEW j \in Clock!Schedule, Clock!Fire(r, j)
  PROVE  Clock!PromisesHeld'
<1>1. /\ v3' = [v3 EXCEPT ![r] = IF j \in {"profiles"} THEN "read" ELSE "call"]
      /\ v5' = [v5 EXCEPT ![r] = j] /\ v6' = v6 /\ v2' = v2 /\ v3[r] = "poll"
      /\ v12' = v12 \cup (({j} \cap {"profiles"}) \X v2) /\ v13' = v13 \ {j}
  BY DEF Clock!Fire
<1>2. /\ v12' \subseteq {"profiles"} \X v2'
      /\ v5' \in [{"r1", "r2"} -> Clock!Schedule \cup {"none"}]
  BY <1>1 DEF Clock!PromisesHeld, Clock!NoCall
<1>3. ASSUME NEW i \in {"profiles"}, NEW s \in {"s1", "s2"}, <<i, s>> \in v12'
      PROVE  Clock!Handing(i, s)' \/ i \in v13'
  <2>1. CASE i = j
    <3>1. v5'[r] = i /\ v3'[r] = "read"
      BY <1>1, <2>1 DEF Clock!BatchesHeld, Clock!PromisesHeld
    <3>. QED  BY <3>1 DEF Clock!Handing
  <2>2. CASE i # j
    <3>1. <<i, s>> \in v12
      BY <1>1, <1>3, <2>2
    <3>2. Clock!Handing(i, s) \/ i \in v13
      BY <3>1 DEF Clock!PromisesHeld, Clock!PassesAccounted
    <3>3. Clock!Handing(i, s) => Clock!Handing(i, s)'
      BY <1>1, OthersHandOut
    <3>. QED  BY <1>1, <2>2, <3>2, <3>3
  <2>. QED  BY <2>1, <2>2
<1>. QED  BY <1>1, <1>2, <1>3 DEF Clock!PromisesHeld, Clock!PassesAccounted, Clock!NoCall

\* An offer pays what is owed, and a fan-out that ends without a failure owes
\* nothing more.
LEMMA PromisesPaid ==
  ASSUME Clock!BatchesHeld, Clock!PromisesHeld, NEW r \in {"r1", "r2"}, NEW s \in {"s1", "s2"},
         Clock!Offer(r, s) \/ Clock!ReadRoster(r) \/ Clock!Returns(r)
  PROVE  Clock!PromisesHeld'
<1>1. CASE Clock!Offer(r, s)
  <2>1. /\ v3' = v3 /\ v5' = v5 /\ v6' = [v6 EXCEPT ![r] = @ \ {s}] /\ v2' = v2
        /\ v12' = v12 \ {<<v5[r], s>>} /\ v13' = v13
    BY <1>1 DEF Clock!Offer
  <2>2. v6' \in [{"r1", "r2"} -> SUBSET {"s1", "s2"}]
    BY <2>1 DEF Clock!PromisesHeld
  <2>3. ASSUME NEW i \in {"profiles"}, NEW t \in {"s1", "s2"}, <<i, t>> \in v12', Clock!Handing(i, t)
        PROVE  Clock!Handing(i, t)'
    <3>1. PICK q \in {"r1", "r2"} :
            v5[q] = i /\ (v3[q] = "read" \/ (v3[q] = "call" /\ t \in v6[q]))
      BY <2>3 DEF Clock!Handing
    <3>2. q = r => t # s
      BY <2>1, <2>3, <3>1
    <3>3. t \in v6[q] => t \in v6'[q]
      BY <2>1, <3>2 DEF Clock!PromisesHeld
    <3>. QED  BY <2>1, <3>1, <3>3 DEF Clock!Handing
  <2>. QED  BY <2>1, <2>2, <2>3, PromisesKept DEF Clock!PromisesHeld, Clock!NoCall
<1>2. CASE Clock!ReadRoster(r)
  <2>1. /\ v3' = [v3 EXCEPT ![r] = "call"] /\ v5' = v5 /\ v6' = [v6 EXCEPT ![r] = v2]
        /\ v2' = v2 /\ v12' = v12 /\ v13' = v13
    BY <1>2 DEF Clock!ReadRoster, Clock!Roster, Clock!promiseVars
  <2>2. ASSUME NEW i \in {"profiles"}, NEW t \in {"s1", "s2"}, <<i, t>> \in v12', Clock!Handing(i, t)
        PROVE  Clock!Handing(i, t)'
    <3>1. PICK q \in {"r1", "r2"} :
            v5[q] = i /\ (v3[q] = "read" \/ (v3[q] = "call" /\ t \in v6[q]))
      BY <2>2 DEF Clock!Handing
    <3>2. t \in v2
      BY <2>1, <2>2 DEF Clock!PromisesHeld
    <3>3. q = r => v3'[q] = "call" /\ t \in v6'[q]
      BY <2>1, <3>2 DEF Clock!BatchesHeld, Clock!PromisesHeld
    <3>4. q # r => v3'[q] = v3[q] /\ v6'[q] = v6[q]
      BY <2>1 DEF Clock!BatchesHeld, Clock!PromisesHeld
    <3>. QED  BY <2>1, <3>1, <3>3, <3>4 DEF Clock!Handing
  <2>3. v6' \in [{"r1", "r2"} -> SUBSET {"s1", "s2"}]
    BY <2>1 DEF Clock!PromisesHeld
  <2>. QED  BY <2>1, <2>2, <2>3, PromisesKept DEF Clock!PromisesHeld, Clock!NoCall
<1>3. CASE Clock!Returns(r)
  <2>1. /\ v3' = [v3 EXCEPT ![r] = "poll"] /\ v5' = [v5 EXCEPT ![r] = "none"]
        /\ v6' = [v6 EXCEPT ![r] = {}] /\ v6[r] = {} /\ v3[r] = "call"
        /\ v2' = v2 /\ v12' = v12 /\ v13' = v13
    BY <1>3 DEF Clock!Returns, Clock!Leaves, Clock!NoCall, Clock!promiseVars
  <2>2. ASSUME NEW i \in {"profiles"}, NEW t \in {"s1", "s2"}, Clock!Handing(i, t)
        PROVE  Clock!Handing(i, t)'
    <3>1. PICK q \in {"r1", "r2"} :
            v5[q] = i /\ (v3[q] = "read" \/ (v3[q] = "call" /\ t \in v6[q]))
      BY <2>2 DEF Clock!Handing
    <3>2. q # r
      BY <2>1, <3>1
    <3>3. v3'[q] = v3[q] /\ v5'[q] = v5[q] /\ v6'[q] = v6[q]
      BY <2>1, <3>2 DEF Clock!BatchesHeld, Clock!PromisesHeld
    <3>. QED  BY <3>1, <3>3 DEF Clock!Handing
  <2>3. /\ v5' \in [{"r1", "r2"} -> Clock!Schedule \cup {"none"}]
        /\ v6' \in [{"r1", "r2"} -> SUBSET {"s1", "s2"}]
    BY <2>1 DEF Clock!PromisesHeld, Clock!NoCall
  <2>. QED  BY <2>1, <2>2, <2>3, PromisesKept DEF Clock!PromisesHeld
<1>. QED  BY <1>1, <1>2, <1>3

\* What a crash or a failed callback leaves undone, its schedule is marked by.
LEMMA PromisesCut ==
  ASSUME Clock!BatchesHeld, Clock!PromisesHeld, NEW r \in {"r1", "r2"},
         Clock!CallFails(r) \/ Clock!Crash(r)
  PROVE  Clock!PromisesHeld'
<1>1. /\ v3' = [v3 EXCEPT ![r] = "poll"] /\ v5' = [v5 EXCEPT ![r] = "none"]
      /\ v6' = [v6 EXCEPT ![r] = {}] /\ v2' = v2 /\ v12' = v12
      /\ v13 \subseteq v13' /\ (v5[r] # "none" => v5[r] \in v13')
  BY DEF Clock!CallFails, Clock!Crash, Clock!Leaves, Clock!NoCall
<1>2. ASSUME NEW i \in {"profiles"}, NEW t \in {"s1", "s2"}, Clock!Handing(i, t)
      PROVE  Clock!Handing(i, t)' \/ i \in v13'
  <2>1. PICK q \in {"r1", "r2"} :
            v5[q] = i /\ (v3[q] = "read" \/ (v3[q] = "call" /\ t \in v6[q]))
    BY <1>2 DEF Clock!Handing
  <2>2. q # r => v3'[q] = v3[q] /\ v5'[q] = v5[q] /\ v6'[q] = v6[q]
    BY <1>1 DEF Clock!BatchesHeld, Clock!PromisesHeld
  <2>3. q # r => Clock!Handing(i, t)'
    BY <2>1, <2>2 DEF Clock!Handing
  <2>. QED  BY <1>1, <2>1, <2>3
<1>3. /\ v5' \in [{"r1", "r2"} -> Clock!Schedule \cup {"none"}]
      /\ v6' \in [{"r1", "r2"} -> SUBSET {"s1", "s2"}]
  BY <1>1 DEF Clock!PromisesHeld, Clock!NoCall
<1>. QED  BY <1>1, <1>2, <1>3, PromisesKept DEF Clock!PromisesHeld

\* Every step of the clock keeps its promises.
LEMMA PromisesStay ==
  ASSUME Clock!BatchesHeld, Clock!PromisesHeld, Clock!Next
  PROVE  Clock!PromisesHeld'
<1>1. ASSUME NEW j \in Clock!Schedule, Clock!Tick(j) PROVE Clock!PromisesHeld'
  BY <1>1 DEF Clock!Tick, Clock!replicaVars, Clock!promiseVars, Clock!Handing,
     Clock!PromisesHeld, Clock!PassesAccounted
<1>2. ASSUME NEW s \in {"s1", "s2"}, Clock!Store(s) PROVE Clock!PromisesHeld'
  BY <1>2 DEF Clock!Store, Clock!replicaVars, Clock!promiseVars, Clock!Handing,
     Clock!PromisesHeld, Clock!PassesAccounted
<1>3. ASSUME NEW r \in {"r1", "r2"}, NEW k \in Clock!Key,
             Clock!FiredAll(r) \/ Clock!Claim(r) \/ Clock!JobDone(r, k) \/ Clock!JobFails(r, k)
      PROVE  Clock!PromisesHeld'
  <2>1. v3[r] \notin {"read", "call"}
    BY <1>3, HeldRows DEF Clock!FiredAll, Clock!Claim, Clock!JobDone, Clock!JobFails, Clock!BatchesHeld
  <2>2. /\ v3' = [v3 EXCEPT ![r] = v3'[r]] /\ v5' = v5 /\ v6' = v6 /\ v2' = v2
        /\ v12' = v12 /\ v13' = v13
    BY <1>3 DEF Clock!FiredAll, Clock!Claim, Clock!JobDone, Clock!JobFails, Clock!Left,
       Clock!promiseVars, Clock!BatchesHeld
  <2>3. \A q \in {"r1", "r2"} \ {r} : v3'[q] = v3[q] /\ v5'[q] = v5[q] /\ v6'[q] = v6[q]
    BY <2>2 DEF Clock!BatchesHeld
  <2>4. \A i \in {"profiles"}, t \in {"s1", "s2"} : Clock!Handing(i, t) => Clock!Handing(i, t)'
    BY <2>1, <2>3, OthersHandOut
  <2>. QED  BY <2>2, <2>4, PromisesKept DEF Clock!PromisesHeld, Clock!NoCall
<1>4. <<"profiles", "s1">> \in Clock!Key
  BY DEF Clock!Key
<1>. QED  BY <1>1, <1>2, <1>3, <1>4, PromisesMade, PromisesPaid, PromisesCut DEF Clock!Next

\* A behaviour that exercises the schedules is one of their module.
LEMMA SchedulesAccounted ==
  Spec => [](part = "schedules" => Clock!PickedIsExecuted /\ Clock!PassesAccounted)
<1> DEFINE Kept == part = "schedules" => Clock!BatchesHeld /\ Clock!PromisesHeld
<1>1. Init => Kept
  BY DEF Init, Clock!Init, Clock!BatchesHeld, Clock!PickedIsExecuted, Clock!Key,
     Clock!PromisesHeld, Clock!PassesAccounted
<1>2. Kept /\ [Next]_vars => Kept'
  <2>. SUFFICES ASSUME part = "schedules", Clock!BatchesHeld, Clock!PromisesHeld, [Next]_vars
                PROVE  Clock!BatchesHeld' /\ Clock!PromisesHeld'
    BY PartStays
  <2>1. CASE UNCHANGED vars
    <3>1. Clock!BatchesHeld'
      BY <2>1 DEF vars, bank, Clock!BatchesHeld, Clock!PickedIsExecuted, Clock!Key
    <3>2. Clock!PromisesHeld'
      BY <2>1 DEF vars, bank, Clock!PromisesHeld, Clock!PassesAccounted, Clock!Handing
    <3>. QED  BY <3>1, <3>2
  <2>2. CASE Next
    BY <2>2, StepOfPart, BatchesStay, PromisesStay DEF ClockStep
  <2>. QED  BY <2>1, <2>2
<1>3. Kept => (part = "schedules" => Clock!PickedIsExecuted /\ Clock!PassesAccounted)
  BY DEF Clock!BatchesHeld, Clock!PromisesHeld
<1>. HIDE DEF Kept
<1>. QED  BY <1>1, <1>2, <1>3, PTL DEF Spec

\* What MCService_safety checks of the work: one active row a key, attempts and
\* events accounted for when leases expire under live workers, every row that
\* schedules had picked in the batch of one replica, and every occurrence that
\* was taken offered, in hand or known to be cut.
THEOREM WorkStaysAccounted == Spec => WorkIsAccounted
  BY StallsAccounted, SchedulesAccounted, PTL DEF WorkIsAccounted
=============================================================================
