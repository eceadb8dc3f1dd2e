--------------------------- MODULE Organizations ---------------------------
(***************************************************************************)
(* Organization administration through AIZK's web API                      *)
(* (integrations/logto/organizations.py): create, add, set_role and remove *)
(* each read Logto, decide, and then send one to three requests, with      *)
(* nothing held in between.  Logto (external) keeps the directories: one   *)
(* request is atomic there, and several calls, of one or more API          *)
(* processes, interleave between requests.                                 *)
(*                                                                         *)
(* A directory maps each member to the roles it holds.  `admin` is         *)
(* settings.logto_creator_role, the one role with manage:member and        *)
(* delete:member.  Looking up the account, the role template and the       *)
(* checks on the wording of a request change nothing and are left out.     *)
(***************************************************************************)
EXTENDS Naturals, FiniteSets, TLC

CONSTANTS
    People, Roles, Titles,
    Orgs,         \* organization ids Logto may give out
    Founded,      \* the directories of the organizations there at first
    Calls,        \* calls in progress at once
    MaxCalls,     \* bound: calls begun
    MaxFaults     \* bound: lost answers and crashes

OrganizationsAssumption ==
    /\ "admin" \in Roles /\ "none" \notin Orgs
    /\ DOMAIN Founded \subseteq Orgs
    /\ \A o \in DOMAIN Founded : DOMAIN Founded[o] \subseteq People

VARIABLES
    title,        \* name of each organization that exists
    directory,    \* members of each, and their roles
    call,         \* the calls in progress
    excused,      \* history: calls that ended without cleaning up, and why they could not
    begun, faults

vars == <<title, directory, call, excused, begun, faults>>

None == "none"
Directories == UNION {[M -> SUBSET Roles] : M \in SUBSET People}
Existing == DOMAIN directory

\* The steps of a call are the requests it sends.
Requests == {"post", "join", "assign", "replace", "delete", "undo"}

IdleCall == [step |-> "idle", op |-> None, by |-> None, who |-> None,
             org |-> None, role |-> None, title |-> None]

Without(f, x) == [y \in DOMAIN f \ {x} |-> f[y]]
With(f, x, v) == [y \in DOMAIN f \cup {x} |-> IF y = x THEN v ELSE f[y]]

Admins(dir) == {p \in DOMAIN dir : "admin" \in dir[p]}

Init ==
    /\ directory = Founded
    /\ title \in [DOMAIN Founded -> Titles]
    /\ \A o, u \in DOMAIN Founded : title[o] = title[u] => o = u
    /\ call = [c \in Calls |-> IdleCall]
    /\ excused = {} /\ begun = 0 /\ faults = 0

-----------------------------------------------------------------------------
(* The reads and checks a call makes before its first request.             *)

\* A call that checked out goes on to its first request; one that did not
\* raises and changes nothing.
Open(c, new) ==
    /\ call[c] = IdleCall /\ begun < MaxCalls
    /\ begun' = begun + 1
    /\ call' = [call EXCEPT ![c] = new]
    /\ UNCHANGED <<title, directory, excused, faults>>

\* organization(): a directory the caller may manage, as it is read now.
Manages(p, o) == o \in Existing /\ p \in Admins(directory[o])

\* ensure_admin_survives()
AdminSurvives(dir, who, role) ==
    "admin" \in dir[who] /\ role # "admin" => Cardinality(Admins(dir)) # 1

TitleFree(t) == \A o \in Existing : title[o] # t

Create(c) ==
    \E p \in People, t \in Titles :
        /\ TitleFree(t)
        /\ Open(c, [IdleCall EXCEPT !.op = "create", !.by = p, !.who = p, !.role = "admin",
                                     !.title = t, !.step = "post"])

Add(c) ==
    \E p, who \in People, o \in Existing, role \in Roles :
        /\ Manages(p, o)
        /\ who \notin DOMAIN directory[o]
        /\ Open(c, [IdleCall EXCEPT !.op = "add", !.by = p, !.who = who, !.org = o,
                                     !.role = role, !.step = "join"])

SetRole(c) ==
    \E p \in People, o \in Existing, role \in Roles :
        /\ Manages(p, o)
        /\ \E who \in DOMAIN directory[o] :
             /\ AdminSurvives(directory[o], who, role)
             /\ Open(c, [IdleCall EXCEPT !.op = "set_role", !.by = p, !.who = who, !.org = o,
                                          !.role = role, !.step = "replace"])

Remove(c) ==
    \E p \in People, o \in Existing :
        /\ Manages(p, o)
        /\ \E who \in DOMAIN directory[o] \ {p} :
             /\ AdminSurvives(directory[o], who, None)
             /\ Open(c, [IdleCall EXCEPT !.op = "remove", !.by = p, !.who = who, !.org = o,
                                          !.step = "delete"])

-----------------------------------------------------------------------------
(* Logto's part of one request (external).                                 *)

NewOrg(k) == CHOOSE o \in Orgs : o \notin Existing

Admitted(k) ==
    CASE k.step = "post"    -> Orgs \ Existing # {}
      [] k.step = "join"    -> k.org \in Existing
      [] k.step = "undo"    -> k.org \in Existing
      [] OTHER -> k.org \in Existing /\ k.who \in DOMAIN directory[k.org]

Joined(dir, p) == IF p \in DOMAIN dir THEN dir ELSE With(dir, p, {})

Expelled(k) == Without(directory[k.org], k.who)

Acted(k) ==
    CASE k.step = "post" ->
            /\ directory' = With(directory, NewOrg(k), [p \in {} |-> {}])
            /\ title' = With(title, NewOrg(k), k.title)
      [] k.step = "undo" /\ k.op = "create" ->
            /\ directory' = Without(directory, k.org)
            /\ title' = Without(title, k.org)
      [] OTHER ->
            /\ directory' = [directory EXCEPT ![k.org] =
                 CASE k.step = "join"    -> Joined(@, k.who)
                   [] k.step = "assign"  -> [@ EXCEPT ![k.who] = @ \cup {k.role}]
                   [] k.step = "replace" -> [@ EXCEPT ![k.who] = {k.role}]
                   [] k.step \in {"delete", "undo"} -> Expelled(k)]
            /\ UNCHANGED title

-----------------------------------------------------------------------------
(* The request of a call is answered, or raises.                           *)

\* Where a call goes when its request is answered ...
After(k) ==
    CASE k.step = "post" -> "join"
      [] k.step = "join" -> "assign"
      [] k.step \in {"assign", "replace", "delete"} -> "done"
      [] k.step = "undo" -> "failed"

\* ... and when it raises: only the steps inside `try` are compensated.
AfterError(k) ==
    CASE k.step = "assign" -> "undo"
      [] k.step = "join" /\ k.op = "create" -> "undo"
      [] OTHER -> "failed"

Goto(c, step) ==
    call' = [call EXCEPT ![c] = IF step \in Requests THEN [@ EXCEPT !.step = step]
                                ELSE IdleCall]

Answer(c) ==
    LET k == call[c] IN
    /\ k.step \in Requests
    /\ Admitted(k)
    /\ Acted(k)
    /\ IF k.step = "post"
       THEN call' = [call EXCEPT ![c] = [@ EXCEPT !.step = "join", !.org = NewOrg(k)]]
       ELSE Goto(c, After(k))
    /\ UNCHANGED <<excused, begun, faults>>

\* What remains is nobody's to clean up: the create has no id to delete, the
\* add's first request is outside `try`, the compensation itself failed.
Excuses(k, crashed) ==
    IF crashed \/ k.step \in {"post", "undo"} \/ (k.step = "join" /\ k.op = "add")
    THEN {[op |-> k.op, who |-> k.who, org |-> k.org, title |-> k.title]} ELSE {}

Refuse(c) ==   \* what the request is about is gone
    /\ call[c].step \in Requests
    /\ ~Admitted(call[c])
    /\ Goto(c, AfterError(call[c]))
    /\ UNCHANGED <<title, directory, excused, begun, faults>>

\* The answer is lost, after Logto acted or before.  PUT and DELETE are sent
\* again, but a DELETE that had acted then finds nothing and raises as well.
Lose(c) ==
    LET k == call[c] IN
    /\ k.step \in Requests /\ Admitted(k)
    /\ faults < MaxFaults /\ faults' = faults + 1
    /\ \/ UNCHANGED <<title, directory>>
       \/ Acted(k)
    /\ Goto(c, AfterError(k))
    /\ excused' = excused \cup Excuses(k, FALSE)
    /\ UNCHANGED begun

\* The API process dies with the request in flight or not yet sent.
Crash(c) ==
    LET k == call[c] IN
    /\ k.step \in Requests
    /\ faults < MaxFaults /\ faults' = faults + 1
    /\ \/ UNCHANGED <<title, directory>>
       \/ Admitted(k) /\ Acted(k)
    /\ call' = [call EXCEPT ![c] = IdleCall]
    /\ excused' = excused \cup Excuses(k, TRUE)
    /\ UNCHANGED begun

Next == \E c \in Calls :
    \/ Create(c) \/ Add(c) \/ SetRole(c) \/ Remove(c)
    \/ Answer(c) \/ Refuse(c) \/ Lose(c) \/ Crash(c)

Spec == Init /\ [][Next]_vars

-----------------------------------------------------------------------------
TypeOK ==
    /\ Existing \subseteq Orgs /\ \A o \in Existing : directory[o] \in Directories
    /\ title \in [Existing -> Titles]
    /\ \A c \in Calls :
         /\ call[c].step \in {"idle"} \cup Requests
         /\ call[c].step \in Requests \ {"post"} => call[c].org \in Orgs

\* "refuses to demote or remove the last administrator" (release-gate.md:55):
\* an organization that has an administrator keeps one for as long as it exists.
KeepsAnAdmin ==
    \A o \in Existing : Admins(directory[o]) # {} /\ o \in DOMAIN directory'
       => Admins(directory'[o]) # {}

\* "That organization name is already in use." (organizations.py:44)
TitlesUnique == \A o, u \in Existing : title[o] = title[u] => o = u

\* An organization in which nobody has a role is one a create is still working on,
\* or what is left of a create that could not clean up: its first answer was
\* lost, it died, or the compensating delete failed as well (create).
NoOrphans ==
    \A o \in Existing : (\A p \in DOMAIN directory[o] : directory[o][p] = {}) =>
        \/ \E c \in Calls : call[c].op = "create" /\ call[c].title = title[o]
        \/ \E k \in excused : k.op = "create" /\ k.title = title[o]

\* A member without any role is one an add or a create is still working on, or
\* what is left of one that could not clean up (add, create).
NoBareMembers ==
    \A o \in Existing : \A p \in {q \in DOMAIN directory[o] : directory[o][q] = {}} :
        \E k \in excused \cup {call[c] : c \in Calls} :
            k.op \in {"add", "create"} /\ k.org = o /\ k.who = p
=============================================================================
