---------------------------- MODULE EntityMerge ----------------------------
(***************************************************************************)
(* The nightly merge of entities that share a normalized name and type     *)
(* (graph/repair.py), beside the projections that resolve names and write  *)
(* facts (graph/writer.py).  Content rows are global; who sees one is      *)
(* decided by the claims its scope sets hold.  The pass reads under the    *)
(* row security of one scope set and writes, in a second transaction, as   *)
(* the database owner.                                                     *)
(*                                                                         *)
(* Every entity that has a name has the same name and type: entities of    *)
(* different names do not meet in a merge.  Identifiers are numbers, in    *)
(* their byte order.  A fact has a subject and no object.                  *)
(***************************************************************************)
EXTENDS Naturals, FiniteSets, WellFoundedInduction, TLAPS

CONSTANTS
  Scopes,       \* scope sets
  Identifiers,  \* identifiers, positive numbers
  CurrentId,    \* the one entity_id() derives for the name today
  Nameless,     \* those whose name normalizes to nothing
  FactIds,      \* identities of facts
  NoFact,       \* no fact
  MaxWrites     \* bound on the facts projected

EntityMergeAssumption ==
  /\ Identifiers \subseteq Nat \ {0}
  /\ CurrentId \in Identifiers \ Nameless
  /\ NoFact \notin FactIds
  /\ MaxWrites \in Nat

VARIABLES
  content,   \* entity content rows
  held,      \* entity claims: entity and scope set
  subject,   \* FactIds -> subject of the fact content row, 0 when there is none
  known,     \* fact claims of any age: fact and scope set
  pass,      \* Scopes -> what the pass of the scope set read
  resolved,  \* Scopes -> the fact whose names a projection has resolved
  writes     \* projections begun

mergeVars == <<content, held, subject, known, pass, resolved, writes>>

Idle == [on |-> FALSE, duplicates |-> {}, keeper |-> 0, affected |-> {}]

MergeTypeOK ==
  /\ content \subseteq Identifiers
  /\ held \subseteq content \X Scopes
  /\ subject \in [FactIds -> content \cup {0}]
  /\ known \subseteq {f \in FactIds : subject[f] # 0} \X Scopes
  /\ \A s \in Scopes : /\ pass[s].duplicates \subseteq Identifiers
                       /\ pass[s].keeper \in (Identifiers \ Nameless) \cup {0}
                       /\ pass[s].affected \subseteq FactIds
  /\ resolved \in [Scopes -> FactIds \cup {NoFact}]
  /\ writes \in 0..MaxWrites

(* Rows from before a change of the naming rules: any of the identifiers   *)
(* the name had, and the facts read from them.                             *)
MergeInit ==
  /\ held \in SUBSET ((Identifiers \ {CurrentId}) \X Scopes)
  /\ content = {h[1] : h \in held}
  /\ subject \in [FactIds -> content \cup {0}]
  /\ known \in SUBSET {k \in FactIds \X Scopes : <<subject[k[1]], k[2]>> \in held}
  /\ \A f \in FactIds : subject[f] # 0 => \E s \in Scopes : <<f, s>> \in known
  /\ pass = [s \in Scopes |-> Idle]
  /\ resolved = [s \in Scopes |-> NoFact]
  /\ writes = 0

----------------------------------------------------------------------------
(* Projection: resolve_all commits the entity and its claim ...            *)
Resolve(s) ==
  /\ resolved[s] = NoFact /\ writes < MaxWrites
  /\ \E f \in FactIds : <<f, s>> \notin known /\ resolved' = [resolved EXCEPT ![s] = f]
  /\ content' = content \cup {CurrentId}
  /\ held' = held \cup {<<CurrentId, s>>}
  /\ writes' = writes + 1
  /\ UNCHANGED <<subject, known, pass>>

(* ... and apply_plans, in a later transaction, the fact content (left     *)
(* alone when the identity exists) and its claim.  Without the entity the  *)
(* foreign key fails and the job with it.                                  *)
Write(s) ==
  LET f == resolved[s]
      stands == f # NoFact /\ (subject[f] # 0 \/ CurrentId \in content)
  IN /\ f # NoFact
     /\ resolved' = [resolved EXCEPT ![s] = NoFact]
     /\ subject' = IF stands /\ subject[f] = 0 THEN [subject EXCEPT ![f] = CurrentId] ELSE subject
     /\ known' = IF stands THEN known \cup {<<f, s>>} ELSE known
     /\ UNCHANGED <<content, held, pass, writes>>

----------------------------------------------------------------------------
Visible(s) == {e \in content : <<e, s>> \in held}
Named(s) == Visible(s) \ Nameless

(* find_duplicates: the first identifier in byte order keeps the name.     *)
Keeper(s) == IF Named(s) = {} THEN 0 ELSE CHOOSE e \in Named(s) : \A o \in Named(s) : e <= o

Duplicates(s) == Visible(s) \ {Keeper(s)}

(* affected_fact_ids, of the facts the scope set sees                      *)
Affected(s) == {f \in FactIds : <<f, s>> \in known /\ subject[f] \in Duplicates(s)}

(* The reading transaction: the redirect map and the facts it touches.     *)
Look(s) ==
  /\ ~pass[s].on
  /\ Duplicates(s) # {}
  /\ pass' = [pass EXCEPT ![s] =
       [on |-> TRUE, duplicates |-> Duplicates(s), keeper |-> Keeper(s),
        affected |-> Affected(s)]]
  /\ UNCHANGED <<content, held, subject, known, resolved, writes>>

(* redirect_entity: where an affected fact, or a claim on a duplicate, goes*)
Redirect(s, e) ==
  IF e \notin pass[s].duplicates THEN e
  ELSE IF e \in Nameless THEN 0 ELSE pass[s].keeper

(* repoint_fact_content                                                    *)
Repointed(s) ==
  [f \in FactIds |-> IF f \in pass[s].affected THEN Redirect(s, subject[f]) ELSE subject[f]]

(* A bug: the claims of the duplicate go with it.                          *)
MigratedNone(s) == {h \in held : h[1] \notin pass[s].duplicates}

(* migrate_entity_claims, for every scope set that claims the duplicate    *)
Migrated(s) == {<<Redirect(s, h[1]), h[2]>> : h \in {k \in held : Redirect(s, k[1]) # 0}}

(* A bug: nothing is read again in the owner's transaction.                *)
StaleNever(s) == FALSE

(* The writing transaction fails when an affected fact is gone, or the     *)
(* keeper is, with something to put on it.                                 *)
Stale(s) ==
  \/ \E f \in pass[s].affected : subject[f] = 0
  \/ /\ pass[s].keeper \notin content
     /\ (pass[s].duplicates \cap content) \ Nameless # {}

(* merge_duplicates: repoint, migrate, delete the duplicates.  The delete  *)
(* cascades to every fact that still names one, and to its claims.         *)
Apply(s) ==
  /\ pass[s].on
  /\ pass' = [pass EXCEPT ![s] = Idle]
  /\ IF Stale(s) THEN UNCHANGED <<content, held, subject, known>>
     ELSE /\ content' = content \ pass[s].duplicates
          /\ held' = Migrated(s)
          /\ subject' = [f \in FactIds |->
               IF Repointed(s)[f] \in pass[s].duplicates THEN 0 ELSE Repointed(s)[f]]
          /\ known' = {k \in known : subject'[k[1]] # 0}
  /\ UNCHANGED <<resolved, writes>>

MergeNext == \E s \in Scopes : Resolve(s) \/ Write(s) \/ Look(s) \/ Apply(s)

MergeSpec == MergeInit /\ [][MergeNext]_mergeVars

----------------------------------------------------------------------------
(* A merge takes no name from a scope set: whoever holds an entity of the  *)
(* name before still holds one after, whichever scope set's pass merged it.*)
NamesStayHeldStep ==
  \A s \in Scopes : Named(s) # {} => (Named(s))' # {}
NamesStayHeld == [][NamesStayHeldStep]_mergeVars

\* A scope set has two entities of one name.
Doubled(s) == Cardinality(Named(s)) > 1

(* profiles-insights.md:113, "so no history is lost": no claim, live or     *)
(* closed, goes away but those of a fact whose subject has no name.  That   *)
(* is so of a pass that runs alone, with no other scope set on its entities.*)
HistoryKeptStep ==
  \A k \in known \ known' : subject[k[1]] \in Nameless
HistoryKept == [][HistoryKeptStep]_mergeVars

(* Beside projections and the passes of other scope sets, what a pass has   *)
(* read survives its merge: a claim that goes is of a fact whose subject    *)
(* has no name, or one on a duplicate that the pass has not read, because   *)
(* its scope set does not see it or it was written in between               *)
(* (repair.py:188, :189).                                                   *)
Merges(s) == pass[s].on /\ ~pass'[s].on
ReadFactsKeptStep ==
  \A k \in known \ known' :
    \/ subject[k[1]] \in Nameless
    \/ \E s \in Scopes : /\ Merges(s)
                         /\ subject[k[1]] \in pass[s].duplicates
                         /\ k[1] \notin pass[s].affected
ReadFactsKept == [][ReadFactsKeptStep]_mergeVars
----------------------------------------------------------------------------
(* Proofs.  A pass never merges into an entity it is about to delete.      *)

Passes == [on: BOOLEAN, duplicates: SUBSET Identifiers,
           keeper: (Identifiers \ Nameless) \cup {0}, affected: SUBSET FactIds]

MergeInv ==
  /\ MergeTypeOK
  /\ pass \in [Scopes -> Passes]
  /\ \A s \in Scopes : pass[s].on => pass[s].keeper \notin pass[s].duplicates

\* A non-empty set of naturals has a first element, and CHOOSE finds it.
LEMMA FirstOf ==
    ASSUME NEW S \in SUBSET Nat, S # {}
    PROVE  (CHOOSE e \in S : \A o \in S : e <= o) \in S
<1> DEFINE Less == OpToRel(<, Nat)
<1>1. PICK e \in S : \A o \in S : <<o, e>> \notin Less
    BY NatLessThanWellFounded, WFMin
<1>2. \A o \in S : ~ (o < e)
    BY <1>1 DEF OpToRel
<1>3. \A o \in S : e <= o
    BY <1>2
<1> QED BY <1>3

\* The keeper is a named entity the scope set sees, or none.
LEMMA KeeperTyped ==
    ASSUME EntityMergeAssumption, MergeTypeOK, NEW s \in Scopes
    PROVE  Keeper(s) \in (Identifiers \ Nameless) \cup {0} /\ Keeper(s) \notin Duplicates(s)
<1>1. Named(s) \subseteq Identifiers \ Nameless /\ Named(s) \in SUBSET Nat
    BY DEF Named, Visible, MergeTypeOK, EntityMergeAssumption
<1> HIDE DEF Named
<1>2. Named(s) # {} => (CHOOSE e \in Named(s) : \A o \in Named(s) : e <= o) \in Named(s)
    BY <1>1, FirstOf
<1> QED BY <1>1, <1>2 DEF Keeper, Duplicates

\* Resolving adds an entity and a claim on it.
LEMMA ResolveKeeps ==
    ASSUME EntityMergeAssumption, MergeInv, NEW s \in Scopes, Resolve(s) PROVE MergeInv'
<1>1. content' \subseteq Identifiers /\ held' \subseteq content' \X Scopes
    BY DEF Resolve, MergeInv, MergeTypeOK, EntityMergeAssumption
<1>2. subject' \in [FactIds -> content' \cup {0}]
      /\ known' \subseteq {f \in FactIds : subject'[f] # 0} \X Scopes
    BY DEF Resolve, MergeInv, MergeTypeOK
<1>3. resolved' \in [Scopes -> FactIds \cup {NoFact}] /\ writes' \in 0..MaxWrites
    BY DEF Resolve, MergeInv, MergeTypeOK, EntityMergeAssumption
<1> QED BY <1>1, <1>2, <1>3 DEF Resolve, MergeInv, MergeTypeOK

\* A fact is written on an entity that stands.
LEMMA WriteKeeps ==
    ASSUME EntityMergeAssumption, MergeInv, NEW s \in Scopes, Write(s) PROVE MergeInv'
<1> DEFINE f == resolved[s]
<1>1. f \in FactIds
    BY DEF Write, MergeInv, MergeTypeOK
<1>2. UNCHANGED <<content, held, pass, writes>> /\ resolved' \in [Scopes -> FactIds \cup {NoFact}]
    BY DEF Write, MergeInv, MergeTypeOK
<1>3. CASE subject[f] # 0 \/ CurrentId \in content
  <2>1. /\ subject' = IF subject[f] = 0 THEN [subject EXCEPT ![f] = CurrentId] ELSE subject
        /\ known' = known \cup {<<f, s>>}
      BY <1>1, <1>3 DEF Write
  <2>2. subject' \in [FactIds -> content' \cup {0}]
      BY <1>1, <1>2, <1>3, <2>1 DEF MergeInv, MergeTypeOK
  <2>3. \A g \in FactIds : subject[g] # 0 => subject'[g] # 0
      BY <1>1, <2>1 DEF MergeInv, MergeTypeOK
  <2>4. subject'[f] # 0
      BY <1>1, <2>1 DEF MergeInv, MergeTypeOK, EntityMergeAssumption
  <2> HIDE DEF f
  <2>5. known' \subseteq {g \in FactIds : subject'[g] # 0} \X Scopes
      BY <1>1, <2>1, <2>3, <2>4 DEF MergeInv, MergeTypeOK
  <2> QED BY <1>2, <2>2, <2>5 DEF MergeInv, MergeTypeOK
<1>4. CASE ~ (subject[f] # 0 \/ CurrentId \in content)
    BY <1>2, <1>4 DEF Write, MergeInv, MergeTypeOK
<1> QED BY <1>3, <1>4

\* A pass that looks keeps one entity out of the duplicates.
LEMMA LookKeeps ==
    ASSUME EntityMergeAssumption, MergeInv, NEW s \in Scopes, Look(s) PROVE MergeInv'
<1> DEFINE p == [on |-> TRUE, duplicates |-> Duplicates(s), keeper |-> Keeper(s),
                 affected |-> {f \in FactIds : <<f, s>> \in known /\ subject[f] \in Duplicates(s)}]
<1>1. p \in Passes /\ p.keeper \notin p.duplicates
    BY KeeperTyped DEF Passes, Duplicates, Visible, MergeInv, MergeTypeOK
<1>2. pass' = [pass EXCEPT ![s] = p] /\ UNCHANGED <<content, held, subject, known, resolved, writes>>
    BY DEF Look, Affected
<1> HIDE DEF p
<1>3. pass' \in [Scopes -> Passes]
      /\ \A r \in Scopes : pass'[r].on => pass'[r].keeper \notin pass'[r].duplicates
    BY <1>1, <1>2 DEF MergeInv
<1>4. MergeTypeOK'
    BY <1>2, <1>3 DEF MergeInv, MergeTypeOK, Passes
<1> QED BY <1>3, <1>4 DEF MergeInv

(* What a pass that is not stale redirects lands on rows that stay.        *)
LEMMA RedirectStays ==
    ASSUME EntityMergeAssumption, MergeInv, NEW s \in Scopes, pass[s].on, ~ Stale(s),
           NEW e \in content
    PROVE  LET d == Redirect(s, e) IN
           /\ d = 0 \/ d \in content \ pass[s].duplicates
           /\ e \notin Nameless => d # 0 /\ d \notin Nameless
<1>1. pass[s] \in Passes /\ pass[s].keeper \notin pass[s].duplicates /\ e \in Identifiers /\ e # 0
    BY DEF MergeInv, MergeTypeOK, EntityMergeAssumption
<1>2. CASE e \notin pass[s].duplicates
    BY <1>1, <1>2 DEF Redirect
<1>3. CASE e \in pass[s].duplicates /\ e \in Nameless
    BY <1>3 DEF Redirect
<1>4. CASE e \in pass[s].duplicates /\ e \notin Nameless
  <2>1. pass[s].keeper \in content
      BY <1>4 DEF Stale
  <2>2. pass[s].keeper \in Identifiers \ Nameless /\ pass[s].keeper # 0
      BY <1>1, <2>1 DEF Passes, MergeInv, MergeTypeOK, EntityMergeAssumption
  <2> QED BY <1>1, <1>4, <2>1, <2>2 DEF Redirect
<1> QED BY <1>2, <1>3, <1>4

\* A merge deletes the duplicates with everything that names them.
LEMMA ApplyKeeps ==
    ASSUME EntityMergeAssumption, MergeInv, NEW s \in Scopes, Apply(s) PROVE MergeInv'
<1>1. Idle \in Passes /\ ~ Idle.on
    BY DEF Idle, Passes
<1>2. /\ pass' \in [Scopes -> Passes]
      /\ \A r \in Scopes : pass'[r].on => pass'[r].keeper \notin pass'[r].duplicates
    BY <1>1 DEF Apply, MergeInv
<1>3. CASE Stale(s)
    BY <1>2, <1>3 DEF Apply, MergeInv, MergeTypeOK, Passes
<1>4. CASE ~ Stale(s)
  <2> DEFINE g == [f \in FactIds |-> IF Repointed(s)[f] \in pass[s].duplicates THEN 0
                                    ELSE Repointed(s)[f]]
  <2>1. /\ content' = content \ pass[s].duplicates /\ held' = Migrated(s)
        /\ subject' = g
        /\ known' = {k \in known : subject'[k[1]] # 0}
        /\ UNCHANGED <<resolved, writes>> /\ pass[s].on
      BY <1>4 DEF Apply
  <2>2. held' \subseteq content' \X Scopes
    <3>1. ASSUME NEW h \in held, Redirect(s, h[1]) # 0
          PROVE  <<Redirect(s, h[1]), h[2]>> \in content' \X Scopes
      <4>1. h[1] \in content /\ h[2] \in Scopes
          BY DEF MergeInv, MergeTypeOK
      <4> QED BY <1>4, <2>1, <3>1, <4>1, RedirectStays
    <3> QED BY <2>1, <3>1 DEF Migrated
  <2>3. ASSUME NEW f \in FactIds PROVE g[f] \in content' \cup {0}
    <3>1. subject[f] \in content \cup {0} /\ 0 \notin pass[s].duplicates
        BY DEF MergeInv, MergeTypeOK, Passes, EntityMergeAssumption
    <3>2. CASE subject[f] = 0
        BY <2>1, <3>1, <3>2 DEF Repointed, Redirect
    <3>3. CASE subject[f] # 0
        BY <1>4, <2>1, <3>1, <3>3, RedirectStays DEF Repointed
    <3> QED BY <3>2, <3>3
  <2>4. subject' \in [FactIds -> content' \cup {0}]
      BY <2>1, <2>3
  <2>5. known' \subseteq {f \in FactIds : subject'[f] # 0} \X Scopes
      BY <2>1 DEF MergeInv, MergeTypeOK
  <2> QED BY <1>2, <2>1, <2>2, <2>4, <2>5 DEF MergeInv, MergeTypeOK, Passes
<1> QED BY <1>3, <1>4

\* The rows a merge finds are consistent.
LEMMA MergeInitStands == ASSUME EntityMergeAssumption, MergeInit PROVE MergeInv
<1>1. content \subseteq Identifiers /\ held \subseteq content \X Scopes
    BY DEF MergeInit
<1>2. known \subseteq {f \in FactIds : subject[f] # 0} \X Scopes
  <2>1. ASSUME NEW k \in known PROVE k \in FactIds \X Scopes /\ subject[k[1]] # 0
    <3>1. k \in FactIds \X Scopes /\ <<subject[k[1]], k[2]>> \in held
        BY DEF MergeInit
    <3>2. subject[k[1]] \in Identifiers
        BY <1>1, <3>1
    <3> QED BY <3>1, <3>2 DEF EntityMergeAssumption
  <2> QED BY <2>1
<1>3. Idle \in Passes /\ ~ Idle.on
    BY DEF Idle, Passes
<1>4. pass \in [Scopes -> Passes] /\ \A s \in Scopes : ~ pass[s].on
    BY <1>3 DEF MergeInit
<1> QED BY <1>1, <1>2, <1>4 DEF MergeInit, MergeInv, MergeTypeOK, Passes, EntityMergeAssumption

\* Every step keeps the invariant.
LEMMA MergeNextStands ==
    ASSUME EntityMergeAssumption, MergeInv, [MergeNext]_mergeVars PROVE MergeInv'
<1>1. CASE UNCHANGED mergeVars
    BY <1>1 DEF mergeVars, MergeInv, MergeTypeOK
<1> QED BY <1>1, ResolveKeeps, WriteKeeps, LookKeeps, ApplyKeeps DEF MergeNext

(* The rows, claims and facts stay consistent with one another, and no     *)
(* pass is about to delete the entity it merges into.                      *)
THEOREM MergeStands == ASSUME EntityMergeAssumption PROVE MergeSpec => []MergeInv
<1>1. MergeInit => MergeInv
    BY MergeInitStands
<1>2. MergeInv /\ [MergeNext]_mergeVars => MergeInv'
    BY MergeNextStands
<1> QED BY <1>1, <1>2, PTL DEF MergeSpec

\* A merge that goes through leaves every scope set a named entity.
LEMMA NamesStay ==
    ASSUME EntityMergeAssumption, MergeInv, [MergeNext]_mergeVars PROVE NamesStayHeldStep
<1> SUFFICES ASSUME NEW r \in Scopes, NEW e \in Named(r) PROVE (Named(r))' # {}
    BY DEF NamesStayHeldStep
<1>1. e \in content /\ <<e, r>> \in held /\ e \notin Nameless
    BY DEF Named, Visible
<1>2. CASE content \subseteq content' /\ held \subseteq held'
    BY <1>1, <1>2 DEF Named, Visible
<1>3. ASSUME NEW s \in Scopes, Apply(s), ~ Stale(s) PROVE (Named(r))' # {}
  <2> DEFINE d == Redirect(s, e)
  <2>1. d \in content \ pass[s].duplicates /\ d # 0 /\ d \notin Nameless
      BY <1>1, <1>3, RedirectStays DEF Apply
  <2>2. content' = content \ pass[s].duplicates /\ held' = Migrated(s)
      BY <1>3 DEF Apply
  <2>3. <<d, r>> \in Migrated(s)
    <3>1. <<e, r>>[1] = e /\ <<e, r>>[2] = r
        OBVIOUS
    <3> QED BY <1>1, <2>1, <3>1 DEF Migrated
  <2> QED BY <2>1, <2>2, <2>3 DEF Named, Visible
<1>4. \A s \in Scopes : Resolve(s) \/ Write(s) \/ Look(s) \/ (Apply(s) /\ Stale(s))
        => content \subseteq content' /\ held \subseteq held'
    BY DEF Resolve, Write, Look, Apply
<1> QED BY <1>2, <1>3, <1>4 DEF MergeNext, mergeVars

(* Whichever scope set's pass merges, and whatever it has read before, no  *)
(* scope set loses its last entity of the name.                            *)
THEOREM NamesAreKept == ASSUME EntityMergeAssumption PROVE MergeSpec => NamesStayHeld
<1>1. MergeInv /\ [MergeNext]_mergeVars /\ EntityMergeAssumption => [NamesStayHeldStep]_mergeVars
    BY NamesStay
<1> QED BY <1>1, MergeStands, PTL DEF MergeSpec, NamesStayHeld
\* A merge lets go only of what its reading left on a duplicate.
LEMMA ReadFactsStay ==
    ASSUME EntityMergeAssumption, MergeInv, [MergeNext]_mergeVars PROVE ReadFactsKeptStep
<1> SUFFICES ASSUME NEW k \in known \ known', subject[k[1]] \notin Nameless
             PROVE  \E s \in Scopes : /\ Merges(s)
                                      /\ subject[k[1]] \in pass[s].duplicates
                                      /\ k[1] \notin pass[s].affected
    BY DEF ReadFactsKeptStep
<1>1. k[1] \in FactIds /\ subject[k[1]] # 0 /\ subject[k[1]] \in content
    BY DEF MergeInv, MergeTypeOK
<1>2. PICK s \in Scopes : Apply(s) /\ ~ Stale(s)
    BY DEF MergeNext, mergeVars, Resolve, Write, Look, Apply
<1>3. Merges(s)
    BY <1>2 DEF Merges, Apply, Idle, MergeInv
<1>4. Repointed(s)[k[1]] = 0 \/ Repointed(s)[k[1]] \in pass[s].duplicates
  <2>1. subject'[k[1]] = 0
      BY <1>2 DEF Apply
  <2>2. subject'[k[1]] = IF Repointed(s)[k[1]] \in pass[s].duplicates THEN 0 ELSE Repointed(s)[k[1]]
      BY <1>1, <1>2 DEF Apply
  <2> QED BY <2>1, <2>2
<1>5. k[1] \notin pass[s].affected
  <2>1. LET d == Redirect(s, subject[k[1]]) IN d # 0 /\ d \notin pass[s].duplicates
      BY <1>1, <1>2, RedirectStays DEF Apply
  <2> QED BY <1>1, <1>4, <2>1 DEF Repointed
<1>6. subject[k[1]] \in pass[s].duplicates
    BY <1>1, <1>4, <1>5 DEF Repointed
<1> QED BY <1>3, <1>5, <1>6

(* However stale a reading, and whatever projections and other passes       *)
(* write, a merge deletes no claim that it read: what goes is of a nameless *)
(* subject, or on a duplicate and unread.                                   *)
THEOREM ReadFactsAreKept == ASSUME EntityMergeAssumption PROVE MergeSpec => ReadFactsKept
<1>1. MergeInv /\ [MergeNext]_mergeVars /\ EntityMergeAssumption => [ReadFactsKeptStep]_mergeVars
    BY ReadFactsStay
<1> QED BY <1>1, MergeStands, PTL DEF MergeSpec, ReadFactsKept
=============================================================================
