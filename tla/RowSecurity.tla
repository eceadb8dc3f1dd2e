---------------------------- MODULE RowSecurity ----------------------------
(***************************************************************************)
(* Forced row security over the scope lattice.  A scoped row carries a     *)
(* nonempty set of scopes; the application role may run any statement, and *)
(* the policies of store/mixins/scoped.py decide from the standing bound   *)
(* to its transaction which rows it reads and writes.  A parent table      *)
(* (document, artifact), its child (chunk, artifact_content), the claims   *)
(* that open a shared content row, and the blobs that revisions reference  *)
(* are the four shapes a policy has.                                       *)
(*                                                                         *)
(* The policies themselves move: a migration replaces them table by table, *)
(* from the legacy carrier of the standing to typed settings or back,      *)
(* while processes of both releases keep running statements.  A session    *)
(* binds the carrier of its own release only.  No statement of the         *)
(* application changes the scopes of a stored row.                         *)
(***************************************************************************)
EXTENDS Naturals, FiniteSets, Sequences, FiniteSetTheorems, TLAPS

CONSTANTS
  Callers,      \* verified callers
  Standing,     \* Standing[u] is u's [read, write, public] sets of scopes
  Scopes,       \* organizations and personal scopes
  Parents,      \* documents, or artifacts
  Children,     \* chunks, or revisions of artifacts
  Blobs,        \* the blobs revisions reference; none where children are chunks
  Claims,       \* fact or entity claims
  Contents,     \* the immutable contents that claims open
  Deletable,    \* whether the child table has a delete policy
  Cockroach,    \* the backend: CockroachDB, else PostgreSQL
  Null

StandingAssumption ==
  \A u \in Callers :
    /\ Standing[u].read \subseteq Scopes
    /\ Standing[u].write \subseteq Scopes
    /\ Standing[u].public \subseteq Scopes

BackendAssumption == {Deletable, Cockroach} \subseteq BOOLEAN

VARIABLES
  parent,       \* parent[p]: the scopes of a stored parent, or {}
  child,        \* child[k]: Null, or the stored child row
  claim,        \* claim[c]: Null, or the stored claim
  policies,     \* policies[t]: the carriers of the policies installed on table t
  replacing,    \* Null, or [to, left]: the transition that is running
  actor         \* who ran the last statement; Null after a migration's step

rows == <<parent, child, claim>>
vars == <<parent, child, claim, policies, replacing, actor>>

Carriers == {"legacy", "typed"}
Tables == {"parent", "child", "claim", "content", "blob"}
InOrder == <<"parent", "child", "blob", "claim", "content">>
RowScopes == (SUBSET Scopes) \ {{}}
Attached == IF Blobs = {} THEN {Null} ELSE Blobs
ChildRow == [parent : Parents, scopes : RowScopes, blob : Attached]
ClaimRow == [content : Contents, scopes : RowScopes]

TypeOK ==
  /\ parent \in [Parents -> SUBSET Scopes]
  /\ \A k \in Children : child[k] \in ChildRow \cup {Null}
  /\ \A c \in Claims : claim[c] \in ClaimRow \cup {Null}
  /\ policies \in [Tables -> SUBSET Carriers]
  /\ \/ replacing = Null
     \/ replacing.to \in Carriers /\ \A i \in DOMAIN replacing.left : replacing.left[i] \in Tables
  /\ actor \in Callers \cup {Null}

Init ==
  /\ parent = [p \in Parents |-> {}]
  /\ child = [k \in Children |-> Null]
  /\ claim = [c \in Claims |-> Null]
  /\ \E r \in Carriers : policies = [t \in Tables |-> {r}]
  /\ replacing = Null
  /\ actor = Null

-----------------------------------------------------------------------------
(* The standing a policy reads back, and the predicates built from it.     *)
(* r is the release of the session: the carrier it bound.                  *)

\* A policy of the other carrier reads an unset setting, which denies.
Authority(u, r, t, permission) ==
  IF r \in policies[t] THEN Standing[u][permission] ELSE {}

ScopedRead(u, r, t, scopes) ==
  /\ scopes # {}
  /\ \/ scopes \subseteq Authority(u, r, t, "read")
     \/ Cardinality(scopes) = 1 /\ scopes \subseteq Authority(u, r, t, "public")

ScopedWrite(u, r, t, scopes) ==
  scopes # {} /\ scopes \subseteq Authority(u, r, t, "write")

ParentSeen(u, r, p) == ScopedRead(u, r, "parent", parent[p])

\* PostgreSQL reads a child through its parent's own policy; CockroachDB
\* reads the child's scopes, which a composite foreign key ties to the parent.
ChildSeen(u, r, k) ==
  /\ child[k] # Null
  /\ policies["child"] # {}
  /\ IF Cockroach THEN ScopedRead(u, r, "child", child[k].scopes)
                  ELSE ParentSeen(u, r, child[k].parent)

ClaimSeen(u, r, c) ==
  claim[c] # Null /\ ScopedRead(u, r, "claim", claim[c].scopes)

ContentSeen(u, r, x) ==
  /\ policies["content"] # {}
  /\ \E c \in Claims : ClaimSeen(u, r, c) /\ claim[c].content = x

Referencing(b) == {k \in Children : child[k] # Null /\ child[k].blob = b}

\* The child's row must name a visible parent together with its exact scopes.
ParentScope(u, r, row) ==
  /\ ParentSeen(u, r, row.parent)
  /\ parent[row.parent] = row.scopes

ChildWrite(u, r, row) ==
  /\ ScopedWrite(u, r, "child", row.scopes)
  /\ ParentScope(u, r, row)

\* On CockroachDB the foreign key spans the scopes too.
ForeignKey(row) ==
  parent[row.parent] # {} /\ (Cockroach => parent[row.parent] = row.scopes)

\* artifact_content_blob_attachable: a blob nothing references yet, or one a
\* revision in the caller's readable scopes already references.  It reads the
\* typed settings under either set of policies, and the PostgreSQL baseline
\* alone installs it.
Attachable(u, r, b) ==
  \/ b = Null \/ Cockroach
  \/ Referencing(b) = {}
  \/ /\ r = "typed"
     /\ \E k \in Referencing(b) :
          \/ child[k].scopes \subseteq Standing[u].read
          \/ /\ Cardinality(child[k].scopes) = 1
             /\ child[k].scopes \subseteq Standing[u].public

-----------------------------------------------------------------------------
(* Statements of the application role, for caller u in a session of r.     *)

InsertParent(u, r, p, scopes) ==
  /\ parent[p] = {}
  /\ ScopedWrite(u, r, "parent", scopes)
  /\ parent' = [parent EXCEPT ![p] = scopes]
  /\ UNCHANGED <<child, claim, policies, replacing>>

InsertChild(u, r, k, row) ==
  /\ child[k] = Null
  /\ ForeignKey(row)
  /\ ChildWrite(u, r, row)
  /\ Attachable(u, r, row.blob)
  /\ child' = [child EXCEPT ![k] = row]
  /\ UNCHANGED <<parent, claim, policies, replacing>>

\* The old row passes USING and the new row the check; the trigger keeps the
\* blob of a revision for good.
UpdateChild(u, r, k, row) ==
  /\ child[k] # Null /\ ChildSeen(u, r, k)
  /\ ChildWrite(u, r, child[k])
  /\ ChildWrite(u, r, row) /\ ForeignKey(row)
  /\ row.blob = child[k].blob
  /\ child' = [child EXCEPT ![k] = row]
  /\ UNCHANGED <<parent, claim, policies, replacing>>

DeleteChild(u, r, k) ==
  /\ Deletable
  /\ child[k] # Null /\ ChildSeen(u, r, k)
  /\ ChildWrite(u, r, child[k])
  /\ child' = [child EXCEPT ![k] = Null]
  /\ UNCHANGED <<parent, claim, policies, replacing>>

\* Content is inserted freely and opened by the claim filed with it.
InsertClaim(u, r, c, row) ==
  /\ claim[c] = Null
  /\ policies["content"] # {}
  /\ ScopedWrite(u, r, "claim", row.scopes)
  /\ claim' = [claim EXCEPT ![c] = row]
  /\ UNCHANGED <<parent, child, policies, replacing>>

Statement(u, r) ==
  \/ \E p \in Parents, s \in RowScopes : InsertParent(u, r, p, s)
  \/ \E k \in Children, row \in ChildRow :
       InsertChild(u, r, k, row) \/ UpdateChild(u, r, k, row)
  \/ \E k \in Children : DeleteChild(u, r, k)
  \/ \E c \in Claims, row \in ClaimRow : InsertClaim(u, r, c, row)

-----------------------------------------------------------------------------
(* The policy transition, table by table in a fixed order: every policy of *)
(* either side is dropped, then the new side's are created.  Row security  *)
(* stays enabled and forced, so a table without a policy denies.           *)

Replace(to) ==
  /\ replacing = Null
  /\ replacing' = [to |-> to, left |-> InOrder]
  /\ UNCHANGED <<rows, policies>>

DropPolicies ==
  /\ replacing # Null /\ replacing.left # <<>>
  /\ policies[Head(replacing.left)] # {}
  /\ policies' = [policies EXCEPT ![Head(replacing.left)] = {}]
  /\ UNCHANGED <<rows, replacing>>

CreatePolicies ==
  /\ replacing # Null /\ replacing.left # <<>>
  /\ policies[Head(replacing.left)] = {}
  /\ policies' = [policies EXCEPT ![Head(replacing.left)] = {replacing.to}]
  /\ replacing' = IF Len(replacing.left) = 1
                  THEN Null
                  ELSE [replacing EXCEPT !.left = Tail(@)]
  /\ UNCHANGED rows

Transition == (\E to \in Carriers : Replace(to)) \/ DropPolicies \/ CreatePolicies

Next ==
  \/ Transition /\ actor' = Null
  \/ \E u \in Callers, r \in Carriers : Statement(u, r) /\ actor' = u

Spec == Init /\ [][Next]_vars

-----------------------------------------------------------------------------
(* The lattice, said of a caller and a set of scopes.                      *)

Granted(u, scopes) ==
  \/ \A s \in scopes : s \in Standing[u].read
  \/ \E s \in Standing[u].public : scopes = {s}

\* CockroachDB's shortcut decides as the parent's own policy would.
ChildSeenAsParent ==
  \A u \in Callers, r \in Carriers, k \in Children :
    (child[k] # Null /\ replacing = Null) =>
       (ChildSeen(u, r, k) <=> ParentSeen(u, r, child[k].parent))

\* Whoever reads a row stands in every scope stored on that very row, or it
\* is one public scope: through the parent of a child, through the claim of a
\* content, and at every point of a policy transition.
NoForeignRead ==
  \A u \in Callers, r \in Carriers :
    /\ \A p \in Parents : ParentSeen(u, r, p) => Granted(u, parent[p])
    /\ \A k \in Children : ChildSeen(u, r, k) => Granted(u, child[k].scopes)
    /\ \A x \in Contents : ContentSeen(u, r, x) =>
         \E c \in Claims : /\ claim[c] # Null /\ claim[c].content = x
                           /\ Granted(u, claim[c].scopes)

\* Between transitions a session of the installed carrier is refused nothing
\* it stands in.
NothingHidden ==
  \A u \in Callers, r \in Carriers :
    (replacing = Null /\ policies = [t \in Tables |-> {r}]) =>
      /\ \A k \in Children :
           (child[k] # Null /\ Granted(u, child[k].scopes)) => ChildSeen(u, r, k)
      /\ \A c \in Claims : (claim[c] # Null /\ Granted(u, claim[c].scopes)) =>
           ContentSeen(u, r, claim[c].content)

\* A child row appears, changes or goes only by a caller that may write every
\* scope of the row as it was and as it becomes.
ScopesOf(row) == IF row = Null THEN {} ELSE row.scopes
WrittenWithStanding ==
  \A k \in Children : child'[k] # child[k] =>
    /\ actor' # Null
    /\ ScopesOf(child[k]) \cup ScopesOf(child'[k]) \subseteq Standing[actor'].write

\* A blob that revisions already reference is attached to another row only by
\* a caller that was entitled to read one of those revisions.
BlobsNotPulled ==
  \A b \in Blobs, k \in Children :
    (Referencing(b) # {} /\ child[k] = Null /\ k \in Referencing(b)') =>
      \E j \in Referencing(b) : Granted(actor', child[j].scopes)
-----------------------------------------------------------------------------
(***************************************************************************)
(* Proofs, for all callers, standings, rows and statements, on either      *)
(* backend.  The carriers of two releases meet only inside a transition,   *)
(* which reaches every table, and a child keeps the scopes of its parent,  *)
(* whose own never change.                                                 *)
(***************************************************************************)

ChildrenAgree ==
  \A k \in Children : child[k] # Null => parent[child[k].parent] = child[k].scopes

\* The tables a transition has still to reach, and those it has replaced.
Remaining == {<<"parent", "child", "blob", "claim", "content">>,
              <<"child", "blob", "claim", "content">>, <<"blob", "claim", "content">>,
              <<"claim", "content">>, <<"content">>}
Replaced(left) ==
  Tables \ {left[i] : i \in DOMAIN left}

\* A tenant has finitely many scopes, and NULL is neither a row, a blob, a
\* caller nor a transition.
RowsAssumption ==
  /\ StandingAssumption /\ BackendAssumption
  /\ IsFiniteSet(Scopes)
  /\ Null \notin ChildRow \cup ClaimRow \cup Blobs \cup Callers
  /\ Null \notin [to : Carriers, left : Remaining]

PoliciesStand ==
  \/ replacing = Null /\ \E r \in Carriers : policies = [t \in Tables |-> {r}]
  \/ \E to \in Carriers, left \in Remaining :
       /\ replacing = [to |-> to, left |-> left]
       /\ \A t \in Replaced(left) : policies[t] = {to}

RowsTyped ==
  /\ parent \in [Parents -> SUBSET Scopes]
  /\ child \in [Children -> ChildRow \cup {Null}]
  /\ claim \in [Claims -> ClaimRow \cup {Null}]
  /\ policies \in [Tables -> SUBSET Carriers]
  /\ actor \in Callers \cup {Null}

RowsInv == RowsTyped /\ ChildrenAgree /\ PoliciesStand
-----------------------------------------------------------------------------
\* What a policy lets a session read, its caller stands in.
LEMMA ReadsAreGranted ==
  ASSUME RowsAssumption, NEW u \in Callers, NEW r \in Carriers, NEW t \in Tables,
         NEW scopes \in SUBSET Scopes, ScopedRead(u, r, t, scopes)
  PROVE  Granted(u, scopes)
<1>1. CASE scopes \subseteq Authority(u, r, t, "read")
    BY <1>1 DEF Authority, Granted
<1>2. CASE Cardinality(scopes) = 1 /\ scopes \subseteq Authority(u, r, t, "public")
  <2>1. IsFiniteSet(scopes)
      BY FS_Subset DEF RowsAssumption
  <2>2. PICK s : scopes = {s}
      BY <1>2, <2>1, FS_Singleton
  <2>3. s \in Standing[u].public
      BY <1>2, <2>2 DEF Authority
  <2> QED BY <2>2, <2>3 DEF Granted
<1> QED BY <1>1, <1>2 DEF ScopedRead

\* And where the session's carrier is installed, it is let read what it stands in.
LEMMA GrantedIsRead ==
  ASSUME RowsAssumption, NEW u \in Callers, NEW r \in Carriers, NEW t \in Tables,
         r \in policies[t],
         NEW scopes \in SUBSET Scopes, scopes # {}, Granted(u, scopes)
  PROVE  ScopedRead(u, r, t, scopes)
<1>1. CASE \A s \in scopes : s \in Standing[u].read
    BY <1>1 DEF Authority, ScopedRead
<1>2. CASE \E s \in Standing[u].public : scopes = {s}
  <2>1. Cardinality(scopes) = 1
      BY <1>2, FS_Singleton
  <2> QED BY <1>2, <2>1 DEF Authority, ScopedRead
<1> QED BY <1>1, <1>2 DEF Granted

\* Nothing is stored at first, and one release's policies are installed.
LEMMA RowsInit == ASSUME RowsAssumption PROVE Init => RowsInv
BY DEF Init, RowsInv, RowsTyped, ChildrenAgree, PoliciesStand, RowScopes, RowsAssumption

\* A statement writes a row whose scopes are its parent's.
LEMMA StatementStands ==
  ASSUME RowsAssumption, RowsInv, NEW u \in Callers, NEW r \in Carriers, Statement(u, r),
         actor' = u
  PROVE  RowsInv'
<1>1. UNCHANGED <<policies, replacing>>
    BY DEF Statement, InsertParent, InsertChild, UpdateChild, DeleteChild, InsertClaim
<1>2. PoliciesStand'
    BY <1>1 DEF RowsInv, PoliciesStand, Replaced
<1>3. RowsTyped /\ ChildrenAgree
    BY DEF RowsInv
<1>4. ASSUME NEW p \in Parents, NEW s \in RowScopes, InsertParent(u, r, p, s)
      PROVE  RowsTyped' /\ ChildrenAgree'
  <2>1. RowsTyped'
      BY <1>1, <1>3, <1>4 DEF RowsTyped, InsertParent, RowScopes
  <2>2. ASSUME NEW k \in Children, child[k] # Null
        PROVE  parent'[child[k].parent] = child[k].scopes
    <3>1. child[k] \in ChildRow /\ child[k].scopes # {} /\ child[k].parent \in Parents
      <4>1. child[k] \in ChildRow
          BY <1>3, <2>2 DEF RowsTyped
      <4>2. child[k].scopes \in RowScopes /\ child[k].parent \in Parents
          BY <4>1 DEF ChildRow
      <4> QED BY <4>1, <4>2 DEF RowScopes
    <3>2. parent[child[k].parent] # {}
        BY <1>3, <2>2, <3>1 DEF ChildrenAgree
    <3> QED BY <1>3, <1>4, <2>2, <3>1, <3>2 DEF InsertParent, ChildrenAgree, RowsTyped
  <2> QED BY <1>4, <2>1, <2>2 DEF ChildrenAgree, InsertParent
<1>5. ASSUME NEW k \in Children, NEW row \in ChildRow,
             InsertChild(u, r, k, row) \/ UpdateChild(u, r, k, row)
      PROVE  RowsTyped' /\ ChildrenAgree'
  <2>1. /\ child' = [child EXCEPT ![k] = row] /\ UNCHANGED <<parent, claim>>
        /\ parent[row.parent] = row.scopes
      BY <1>5 DEF InsertChild, UpdateChild, ChildWrite, ParentScope
  <2>2. RowsTyped'
      BY <1>1, <1>3, <2>1 DEF RowsTyped
  <2> QED BY <1>3, <2>1, <2>2 DEF ChildrenAgree, RowsTyped
<1>6. ASSUME NEW k \in Children, DeleteChild(u, r, k)
      PROVE  RowsTyped' /\ ChildrenAgree'
    BY <1>1, <1>3, <1>6 DEF RowsTyped, ChildrenAgree, DeleteChild
<1>7. ASSUME NEW c \in Claims, NEW row \in ClaimRow, InsertClaim(u, r, c, row)
      PROVE  RowsTyped' /\ ChildrenAgree'
    BY <1>1, <1>3, <1>7 DEF RowsTyped, ChildrenAgree, InsertClaim
<1> QED BY <1>2, <1>4, <1>5, <1>6, <1>7 DEF Statement, RowsInv

\* What the remaining tables are after one of them is done.
LEMMA NextTable ==
  ASSUME NEW left \in Remaining
  PROVE  /\ left # <<>> /\ Head(left) \in Tables
         /\ Len(left) # 1 => /\ Tail(left) \in Remaining
                             /\ Replaced(Tail(left)) = Replaced(left) \cup {Head(left)}
         /\ Len(left) = 1 => Tables = Replaced(left) \cup {Head(left)}
         /\ Head(left) \notin Replaced(left)
<1>1. CASE left = <<"parent", "child", "blob", "claim", "content">>
    BY <1>1 DEF Remaining, Replaced, Tables
<1>2. CASE left = <<"child", "blob", "claim", "content">>
    BY <1>2 DEF Remaining, Replaced, Tables
<1>3. CASE left = <<"blob", "claim", "content">>
    BY <1>3 DEF Remaining, Replaced, Tables
<1>4. CASE left = <<"claim", "content">>
    BY <1>4 DEF Remaining, Replaced, Tables
<1>5. CASE left = <<"content">>
    BY <1>5 DEF Remaining, Replaced, Tables
<1> QED BY <1>1, <1>2, <1>3, <1>4, <1>5 DEF Remaining

\* A transition replaces table after table, and ends with all of them replaced.
LEMMA TransitionStands ==
  ASSUME RowsAssumption, RowsInv, Transition, actor' = Null
  PROVE  RowsInv'
<1>1. UNCHANGED rows /\ RowsTyped /\ ChildrenAgree /\ PoliciesStand
    BY DEF Transition, Replace, DropPolicies, CreatePolicies, RowsInv
<1>2. ChildrenAgree'
    BY <1>1 DEF ChildrenAgree, rows
<1>3. ASSUME NEW to \in Carriers, Replace(to) PROVE RowsInv'
  <2>1. RowsTyped'
      BY <1>1, <1>3 DEF Replace, RowsTyped, rows
  <2>2. InOrder \in Remaining /\ Replaced(InOrder) = {}
      BY DEF InOrder, Remaining, Replaced, Tables
  <2>3. PoliciesStand'
      BY <1>3, <2>2 DEF Replace, PoliciesStand, Replaced
  <2> QED BY <1>2, <2>1, <2>3 DEF RowsInv
<1>4. CASE DropPolicies \/ CreatePolicies
  <2>1. PICK to \in Carriers, left \in Remaining :
          /\ replacing = [to |-> to, left |-> left]
          /\ \A t \in Replaced(left) : policies[t] = {to}
      BY <1>1, <1>4 DEF PoliciesStand, DropPolicies, CreatePolicies
  <2>2. replacing.to = to /\ replacing.left = left
      BY <2>1
  <2>3. CASE DropPolicies
    <3>1. policies' = [policies EXCEPT ![Head(left)] = {}] /\ replacing' = replacing
        BY <2>2, <2>3 DEF DropPolicies
    <3>2. RowsTyped'
        BY <1>1, <3>1 DEF RowsTyped, rows
    <3>3. \A t \in Replaced(left) : policies'[t] = {to}
        BY <1>1, <2>1, <3>1, NextTable DEF RowsTyped, Replaced
    <3>4. PoliciesStand'
        BY <2>1, <3>1, <3>3 DEF PoliciesStand, Replaced
    <3> QED BY <1>2, <3>2, <3>4 DEF RowsInv
  <2>4. CASE CreatePolicies
    <3>1. /\ policies' = [policies EXCEPT ![Head(left)] = {to}]
          /\ replacing' = IF Len(left) = 1 THEN Null ELSE [replacing EXCEPT !.left = Tail(@)]
        BY <2>2, <2>4 DEF CreatePolicies
    <3>2. RowsTyped'
        BY <1>1, <3>1 DEF RowsTyped, rows
    <3>3. \A t \in Replaced(left) \cup {Head(left)} : policies'[t] = {to}
        BY <1>1, <2>1, <3>1, NextTable DEF RowsTyped, Replaced
    <3>4. CASE Len(left) = 1
      <4>1. \A t \in Tables : policies'[t] = {to}
          BY <3>3, <3>4, NextTable
      <4>2. policies' = [t \in Tables |-> {to}]
          BY <3>2, <4>1 DEF RowsTyped
      <4> QED BY <1>2, <3>1, <3>2, <3>4, <4>2 DEF RowsInv, PoliciesStand
    <3>5. CASE Len(left) # 1
      <4>1. Tail(left) \in Remaining /\ Replaced(Tail(left)) = Replaced(left) \cup {Head(left)}
          BY <3>5, NextTable
      <4>2. replacing' = [to |-> to, left |-> Tail(left)]
          BY <2>1, <3>1, <3>5
      <4>3. \A t \in Replaced(Tail(left)) : policies'[t] = {to}
          BY <3>3, <4>1
      <4>4. PoliciesStand'
          BY <4>1, <4>2, <4>3 DEF PoliciesStand, Replaced
      <4> QED BY <1>2, <3>2, <4>4 DEF RowsInv
    <3> QED BY <3>4, <3>5
  <2> QED BY <1>4, <2>3, <2>4
<1> QED BY <1>3, <1>4 DEF Transition

\* Rows keep their types, children their parents' scopes and policies one release.
THEOREM RowsStand == ASSUME RowsAssumption PROVE Spec => []RowsInv
<1>1. Init => RowsInv
    BY RowsInit
<1>2. RowsInv /\ [Next]_vars => RowsInv'
  <2> SUFFICES ASSUME RowsInv, [Next]_vars PROVE RowsInv'
      OBVIOUS
  <2>1. CASE UNCHANGED vars
      BY <2>1 DEF vars, rows, RowsInv, RowsTyped, ChildrenAgree, PoliciesStand, Replaced
  <2>2. CASE Next
      BY <2>2, StatementStands, TransitionStands DEF Next
  <2> QED BY <2>1, <2>2
<1> QED BY <1>1, <1>2, PTL DEF Spec

\* Types.
THEOREM RowsAreTyped == ASSUME RowsAssumption PROVE Spec => []TypeOK
<1>1. RowsInv => TypeOK
  <2> SUFFICES ASSUME RowsInv PROVE TypeOK
      OBVIOUS
  <2>1. \/ replacing = Null
        \/ replacing.to \in Carriers /\ \A i \in DOMAIN replacing.left : replacing.left[i] \in Tables
      BY DEF RowsInv, PoliciesStand, Remaining, Tables
  <2> QED BY <2>1 DEF RowsInv, RowsTyped, TypeOK
<1> QED BY <1>1, RowsStand, PTL

\* A stored child's scopes are its parent's, which some row stores.
LEMMA ChildTyped ==
  ASSUME RowsInv, NEW k \in Children, child[k] # Null
  PROVE  /\ child[k].parent \in Parents /\ parent[child[k].parent] = child[k].scopes
         /\ child[k].scopes \in SUBSET Scopes /\ child[k].scopes # {}
<1>1. child[k] \in ChildRow
    BY DEF RowsInv, RowsTyped
<1>2. child[k].scopes \in RowScopes /\ child[k].parent \in Parents
    BY <1>1 DEF ChildRow
<1> QED BY <1>2 DEF RowScopes, RowsInv, ChildrenAgree

\* A stored claim's content and scopes.
LEMMA ClaimTyped ==
  ASSUME RowsInv, NEW c \in Claims, claim[c] # Null
  PROVE  /\ claim[c].content \in Contents
         /\ claim[c].scopes \in SUBSET Scopes /\ claim[c].scopes # {}
<1>1. claim[c] \in ClaimRow
    BY DEF RowsInv, RowsTyped
<1>2. claim[c].scopes \in RowScopes /\ claim[c].content \in Contents
    BY <1>1 DEF ClaimRow
<1> QED BY <1>2 DEF RowScopes

\* Whoever reads a row stands in every scope stored on it, or the row is one
\* public scope, at every point of a policy transition.
THEOREM ReadersStand == ASSUME RowsAssumption PROVE Spec => []NoForeignRead
<1>1. RowsInv => NoForeignRead
  <2> SUFFICES ASSUME RowsInv, NEW u \in Callers, NEW r \in Carriers
               PROVE  /\ \A p \in Parents : ParentSeen(u, r, p) => Granted(u, parent[p])
                      /\ \A k \in Children : ChildSeen(u, r, k) => Granted(u, child[k].scopes)
                      /\ \A x \in Contents : ContentSeen(u, r, x) =>
                           \E c \in Claims : /\ claim[c] # Null /\ claim[c].content = x
                                             /\ Granted(u, claim[c].scopes)
      BY DEF NoForeignRead
  <2>1. {"parent", "child", "claim"} \subseteq Tables
      BY DEF Tables
  <2>2. ASSUME NEW p \in Parents, ParentSeen(u, r, p) PROVE Granted(u, parent[p])
    <3>1. parent[p] \in SUBSET Scopes
        BY DEF RowsInv, RowsTyped
    <3> QED BY <2>1, <2>2, <3>1, ReadsAreGranted DEF ParentSeen
  <2>3. ASSUME NEW k \in Children, ChildSeen(u, r, k) PROVE Granted(u, child[k].scopes)
    <3>1. child[k] # Null
        BY <2>3 DEF ChildSeen
    <3>2. CASE Cockroach
        BY <2>1, <2>3, <3>1, <3>2, ChildTyped, ReadsAreGranted DEF ChildSeen
    <3>3. CASE ~Cockroach
        BY <2>2, <2>3, <3>1, <3>3, ChildTyped DEF ChildSeen
    <3> QED BY <3>2, <3>3
  <2>4. ASSUME NEW x \in Contents, ContentSeen(u, r, x)
        PROVE  \E c \in Claims : /\ claim[c] # Null /\ claim[c].content = x
                                 /\ Granted(u, claim[c].scopes)
    <3>1. PICK c \in Claims : ClaimSeen(u, r, c) /\ claim[c].content = x
        BY <2>4 DEF ContentSeen
    <3>2. claim[c] # Null /\ ScopedRead(u, r, "claim", claim[c].scopes)
        BY <3>1 DEF ClaimSeen
    <3>3. Granted(u, claim[c].scopes)
        BY <2>1, <3>2, ClaimTyped, ReadsAreGranted
    <3> QED BY <3>1, <3>2, <3>3
  <2> QED BY <2>2, <2>3, <2>4
<1> QED BY <1>1, RowsStand, PTL

\* Between transitions a session of the installed carrier reads all it stands in.
THEOREM ReadersSeeTheirs == ASSUME RowsAssumption PROVE Spec => []NothingHidden
<1>1. RowsInv => NothingHidden
  <2> SUFFICES ASSUME RowsInv, NEW u \in Callers, NEW r \in Carriers,
                      policies = [t \in Tables |-> {r}]
               PROVE  /\ \A k \in Children :
                           (child[k] # Null /\ Granted(u, child[k].scopes)) => ChildSeen(u, r, k)
                      /\ \A c \in Claims : (claim[c] # Null /\ Granted(u, claim[c].scopes)) =>
                           ContentSeen(u, r, claim[c].content)
      BY DEF NothingHidden
  <2>1. /\ {"parent", "child", "claim", "content"} \subseteq Tables
        /\ \A t \in Tables : r \in policies[t] /\ policies[t] # {}
      BY DEF Tables
  <2>2. ASSUME NEW k \in Children, child[k] # Null, Granted(u, child[k].scopes)
        PROVE  ChildSeen(u, r, k)
    <3>1. /\ ScopedRead(u, r, "child", child[k].scopes)
          /\ ScopedRead(u, r, "parent", child[k].scopes)
        BY <2>1, <2>2, ChildTyped, GrantedIsRead
    <3> QED BY <2>1, <2>2, <3>1, ChildTyped DEF ChildSeen, ParentSeen
  <2>3. ASSUME NEW c \in Claims, claim[c] # Null, Granted(u, claim[c].scopes)
        PROVE  ContentSeen(u, r, claim[c].content)
    <3>1. ScopedRead(u, r, "claim", claim[c].scopes)
        BY <2>1, <2>3, ClaimTyped, GrantedIsRead
    <3> QED BY <2>1, <2>3, <3>1 DEF ContentSeen, ClaimSeen
  <2> QED BY <2>2, <2>3
<1> QED BY <1>1, RowsStand, PTL

\* Between transitions CockroachDB's shortcut decides as the parent's policy.
THEOREM ShortcutAgrees == ASSUME RowsAssumption PROVE Spec => []ChildSeenAsParent
<1>1. RowsInv => ChildSeenAsParent
  <2> SUFFICES ASSUME RowsInv, NEW u \in Callers, NEW r \in Carriers, NEW k \in Children,
                      child[k] # Null, replacing = Null
               PROVE  ChildSeen(u, r, k) <=> ParentSeen(u, r, child[k].parent)
      BY DEF ChildSeenAsParent
  <2>1. PICK o \in Carriers : policies = [t \in Tables |-> {o}]
      BY DEF RowsInv, PoliciesStand, RowsAssumption
  <2>2. policies["child"] = {o} /\ policies["parent"] = {o}
      BY <2>1 DEF Tables
  <2>3. \A s : ScopedRead(u, r, "child", s) <=> ScopedRead(u, r, "parent", s)
      BY <2>2 DEF ScopedRead, Authority
  <2> QED BY <2>2, <2>3, ChildTyped DEF ChildSeen, ParentSeen
<1> QED BY <1>1, RowsStand, PTL

\* A child row is written only by a caller that may write all its scopes, those
\* it had and those it gets.
THEOREM WritersStand == ASSUME RowsAssumption PROVE Spec => [][WrittenWithStanding]_vars
<1>1. ASSUME RowsInv, Next PROVE WrittenWithStanding
  <2>1. CASE Transition
      BY <2>1 DEF Transition, Replace, DropPolicies, CreatePolicies, rows, WrittenWithStanding
  <2>2. ASSUME NEW u \in Callers, NEW r \in Carriers, Statement(u, r), actor' = u
        PROVE  WrittenWithStanding
    <3>1. u # Null /\ actor' = u
        BY <2>2 DEF RowsAssumption
    <3>2. \A row : ChildWrite(u, r, row) => row.scopes \subseteq Standing[u].write
        BY DEF ChildWrite, ScopedWrite, Authority
    <3>3. ASSUME NEW p \in Parents, NEW s \in RowScopes, InsertParent(u, r, p, s)
          PROVE  WrittenWithStanding
        BY <3>3 DEF InsertParent, WrittenWithStanding
    <3>4. ASSUME NEW c \in Claims, NEW row \in ClaimRow, InsertClaim(u, r, c, row)
          PROVE  WrittenWithStanding
        BY <3>4 DEF InsertClaim, WrittenWithStanding
    <3>5. ASSUME NEW j \in Children, NEW new \in ChildRow \cup {Null},
                 child' = [child EXCEPT ![j] = new],
                 new # Null => new.scopes \subseteq Standing[u].write,
                 child[j] # Null => child[j].scopes \subseteq Standing[u].write
          PROVE  WrittenWithStanding
      <4> SUFFICES ASSUME NEW k \in Children, child'[k] # child[k]
                   PROVE  ScopesOf(child[k]) \cup ScopesOf(child'[k]) \subseteq Standing[u].write
          BY <3>1 DEF WrittenWithStanding
      <4>1. k = j /\ child'[k] = new
          BY <1>1, <3>5 DEF RowsInv, RowsTyped
      <4> QED BY <3>5, <4>1 DEF ScopesOf
    <3>6. ASSUME NEW k \in Children, NEW row \in ChildRow,
                 InsertChild(u, r, k, row) \/ UpdateChild(u, r, k, row)
          PROVE  WrittenWithStanding
      <4>1. /\ child' = [child EXCEPT ![k] = row] /\ ChildWrite(u, r, row)
            /\ child[k] # Null => ChildWrite(u, r, child[k])
          BY <3>6 DEF InsertChild, UpdateChild
      <4> QED BY <3>2, <3>5, <4>1
    <3>7. ASSUME NEW k \in Children, DeleteChild(u, r, k)
          PROVE  WrittenWithStanding
      <4>1. child' = [child EXCEPT ![k] = Null] /\ ChildWrite(u, r, child[k])
          BY <3>7 DEF DeleteChild
      <4> QED BY <3>2, <3>5, <4>1
    <3> QED BY <2>2, <3>3, <3>4, <3>6, <3>7 DEF Statement
  <2> QED BY <1>1, <2>1, <2>2 DEF Next
<1>2. RowsInv /\ [Next]_vars => [WrittenWithStanding]_vars
    BY <1>1
<1> QED BY <1>2, RowsStand, PTL DEF Spec

\* On PostgreSQL, whose baseline installs the check, a blob revisions reference
\* is attached to another one only by a caller that could read one of those.
THEOREM BlobsStay ==
  ASSUME RowsAssumption, ~Cockroach
  PROVE  Spec => [][BlobsNotPulled]_vars
<1>1. ASSUME RowsInv, Next PROVE BlobsNotPulled
  <2> SUFFICES ASSUME NEW b \in Blobs, NEW k \in Children, Referencing(b) # {},
                      child[k] = Null, k \in Referencing(b)'
               PROVE  \E j \in Referencing(b) : Granted(actor', child[j].scopes)
      BY DEF BlobsNotPulled
  <2>1. child'[k] # Null /\ child'[k].blob = b /\ b # Null
      BY DEF Referencing, RowsAssumption
  <2>2. ~Transition
      BY <2>1 DEF Transition, Replace, DropPolicies, CreatePolicies, rows
  <2>3. PICK u \in Callers, r \in Carriers : Statement(u, r) /\ actor' = u
      BY <1>1, <2>2 DEF Next
  <2>4. PICK j \in Children, row \in ChildRow : InsertChild(u, r, j, row) \/ UpdateChild(u, r, j, row)
    <3>1. \A p \in Parents, s \in RowScopes : ~InsertParent(u, r, p, s)
        BY <2>1 DEF InsertParent
    <3>2. \A c \in Claims, row \in ClaimRow : ~InsertClaim(u, r, c, row)
        BY <2>1 DEF InsertClaim
    <3>3. \A j \in Children : ~DeleteChild(u, r, j)
        BY <1>1, <2>1 DEF DeleteChild, RowsInv, RowsTyped
    <3> QED BY <2>3, <3>1, <3>2, <3>3 DEF Statement
  <2>5. child' = [child EXCEPT ![j] = row]
      BY <2>4 DEF InsertChild, UpdateChild
  <2>6. j = k /\ row.blob = b
      BY <1>1, <2>1, <2>5 DEF RowsInv, RowsTyped
  <2>7. Attachable(u, r, b)
      BY <2>4, <2>6 DEF InsertChild, UpdateChild
  <2>8. PICK i \in Referencing(b) :
          \/ child[i].scopes \subseteq Standing[u].read
          \/ /\ Cardinality(child[i].scopes) = 1
             /\ child[i].scopes \subseteq Standing[u].public
      BY <2>1, <2>7 DEF Attachable
  <2>9. i \in Children /\ child[i] # Null
      BY <2>8 DEF Referencing
  <2>10. Granted(u, child[i].scopes)
    <3>1. CASE child[i].scopes \subseteq Standing[u].read
        BY <3>1 DEF Granted
    <3>2. CASE Cardinality(child[i].scopes) = 1 /\ child[i].scopes \subseteq Standing[u].public
      <4>1. IsFiniteSet(child[i].scopes)
          BY <1>1, <2>9, ChildTyped, FS_Subset DEF RowsAssumption
      <4>2. PICK s : child[i].scopes = {s}
          BY <3>2, <4>1, FS_Singleton
      <4> QED BY <3>2, <4>2 DEF Granted
    <3> QED BY <2>8, <3>1, <3>2
  <2> QED BY <2>3, <2>8, <2>10
<1>2. RowsInv /\ [Next]_vars => [BlobsNotPulled]_vars
    BY <1>1
<1> QED BY <1>2, RowsStand, PTL DEF Spec
=============================================================================
