-------------------------- MODULE ExtractionStudy --------------------------
(***************************************************************************)
(* The extraction benchmark (src/eval/extraction.py): the cases of a file  *)
(* are extracted at most Concurrency at a time, the facts of each are      *)
(* matched with its targets before and after grounding, and the sums make  *)
(* the report a model is chosen by.                                        *)
(*                                                                         *)
(* A label is one spelling of a triple as eval.extraction.normalized       *)
(* leaves it.  Grounding replaces both names by the spelling of the        *)
(* entity with the same canonical key, so it may change a label.           *)
(***************************************************************************)
EXTENDS Naturals, Sequences, FiniteSets, FiniteSetsExt, SequencesExt

CONSTANTS
    Case,        \* the cases of the file
    Label,       \* spellings of a triple
    Targets,     \* the targets of each case: sets of acceptable labels
    Spellings,   \* how an entity table may respell the labels, functions
    Outputs,     \* what a model may propose: sequences of facts
    Concurrency

StudyAssumption ==
    /\ Concurrency \in Nat \ {0}
    /\ \A c \in Case : Range(Targets[c]) \subseteq SUBSET Label
    /\ Spellings \subseteq [Label -> Label]

Fact == [label : Label, right : BOOLEAN]  \* right: its kind, stance and date

VARIABLES
    phase,     \* of each case
    proposed,  \* the facts extracted for it
    accepted,  \* those grounding kept
    result,    \* its score
    report     \* of the run

vars == <<phase, proposed, accepted, result, report>>

None == [status |-> "running"]
Lost == [status |-> "lost"]    \* an error the benchmark does not keep

NoMatch == [proposedMatches |-> 0, acceptedMatches |-> 0, correct |-> 0, error |-> FALSE]
Failure == [NoMatch EXCEPT !.error = TRUE]

TypeOK ==
    /\ phase \in [Case -> {"waiting", "extracting", "scored"}]
    /\ \A c \in Case : proposed[c] \in Outputs
    /\ \A c \in Case : Range(accepted[c]) \subseteq Fact
    /\ \A c \in Case : DOMAIN result[c] = DOMAIN NoMatch
    /\ report \in {None, Lost} \/ DOMAIN report = {"cases", "failed", "targets", "proposed",
           "accepted", "proposedMatches", "acceptedMatches", "checked", "correct"}

Init ==
    /\ phase = [c \in Case |-> "waiting"]
    /\ proposed = [c \in Case |-> <<>>] /\ accepted = [c \in Case |-> <<>>]
    /\ result = [c \in Case |-> NoMatch]
    /\ report = None

-----------------------------------------------------------------------------
(* Matching.  Each target in turn takes the first fact left that it        *)
(* accepts.                                                                *)
FirstMatch(target, facts) ==
    LET hits == {i \in DOMAIN facts : facts[i].label \in target}
    IN IF hits = {} THEN 0 ELSE Min(hits)

Take(tally, target) ==
    LET i == FirstMatch(target, tally.left)
    IN IF i = 0 THEN tally
       ELSE [left |-> RemoveAt(tally.left, i), matched |-> tally.matched + 1,
             correct |-> tally.correct + (IF tally.left[i].right THEN 1 ELSE 0)]

Matches(targets, facts) ==
    FoldLeft(Take, [left |-> facts, matched |-> 0, correct |-> 0], targets)

-----------------------------------------------------------------------------
Running == {c \in Case : phase[c] = "extracting"}

\* A case passes the limiter.
Start(c) ==
    /\ report = None /\ phase[c] = "waiting" /\ Cardinality(Running) < Concurrency
    /\ phase' = [phase EXCEPT ![c] = "extracting"]
    /\ UNCHANGED <<proposed, accepted, result, report>>

\* What grounding leaves of the proposals: some, in order, each spelled as
\* the entities proposed with them are.
Grounded(facts) ==
    {[i \in 1..Cardinality(kept) |->
        LET at == SetToSortSeq(kept, <)[i]
        IN [facts[at] EXCEPT !.label = spelling[@]]] :
     kept \in SUBSET (DOMAIN facts), spelling \in Spellings}

\* The model answers and the case is scored.
Score(c) ==
    /\ report = None /\ phase[c] = "extracting"
    /\ \E facts \in Outputs : \E kept \in Grounded(facts) :
         /\ proposed' = [proposed EXCEPT ![c] = facts]
         /\ accepted' = [accepted EXCEPT ![c] = kept]
         /\ result' = [result EXCEPT ![c] =
              [proposedMatches |-> Matches(Targets[c], facts).matched,
               acceptedMatches |-> Matches(Targets[c], kept).matched,
               correct |-> Matches(Targets[c], kept).correct, error |-> FALSE]]
    /\ phase' = [phase EXCEPT ![c] = "scored"]
    /\ UNCHANGED report

\* One of the five errors case() keeps: truncation, an HTTP status, odd
\* model behaviour, a validation or a value error.
Fail(c) ==
    /\ report = None /\ phase[c] = "extracting"
    /\ result' = [result EXCEPT ![c] = Failure]
    /\ phase' = [phase EXCEPT ![c] = "scored"]
    /\ UNCHANGED <<proposed, accepted, report>>

\* Any other, a timeout of the connection say, leaves gather at once.
Escape(c) ==
    /\ report = None /\ phase[c] = "extracting"
    /\ report' = Lost
    /\ UNCHANGED <<phase, proposed, accepted, result>>

Denominator == Case

Report ==
    /\ report = None /\ \A c \in Case : phase[c] = "scored"
    /\ report' =
         [cases |-> Cardinality(Case),
          failed |-> Cardinality({c \in Case : result[c].error}),
          targets |-> MapThenSumSet(LAMBDA c : Len(Targets[c]), Denominator),
          proposed |-> MapThenSumSet(LAMBDA c : Len(proposed[c]), Case),
          accepted |-> MapThenSumSet(LAMBDA c : Len(accepted[c]), Case),
          proposedMatches |-> MapThenSumSet(LAMBDA c : result[c].proposedMatches, Case),
          acceptedMatches |-> MapThenSumSet(LAMBDA c : result[c].acceptedMatches, Case),
          checked |-> MapThenSumSet(LAMBDA c : result[c].acceptedMatches, Case),
          correct |-> MapThenSumSet(LAMBDA c : result[c].correct, Case)]
    /\ UNCHANGED <<phase, proposed, accepted, result>>

Next ==
    \/ \E c \in Case : Start(c) \/ Score(c) \/ Fail(c) \/ Escape(c)
    \/ Report

Spec == Init /\ [][Next]_vars

-----------------------------------------------------------------------------
(* Properties.                                                             *)

Assignments(targets, facts) ==
    {m \in [DOMAIN targets -> {0} \cup DOMAIN facts] :
        /\ \A t \in DOMAIN targets : m[t] # 0 => facts[m[t]].label \in targets[t]
        /\ \A t, u \in DOMAIN targets : t # u /\ m[t] # 0 => m[t] # m[u]}
Size(m) == Cardinality({t \in DOMAIN m : m[t] # 0})
Best(targets, facts) == Max({Size(m) : m \in Assignments(targets, facts)})

\* Matching is one-to-one: a score never exceeds the largest assignment of
\* facts to targets, and taking the first fact that fits never loses more
\* than half of it, whatever the order of the file and of the reply.
HonestMatches ==
    \A c \in Case : phase[c] = "scored" /\ ~result[c].error =>
        LET best == Best(Targets[c], accepted[c])
        IN result[c].acceptedMatches <= best /\ 2 * result[c].acceptedMatches >= best

\* A perfect recall means every case answered: a case whose model turn
\* failed keeps its targets in the denominator and brings no match.
FailureCosts ==
    report \notin {None, Lost} =>
        /\ report.acceptedMatches <= report.targets
        /\ \A c \in Case : result[c].error /\ Targets[c] # <<>> =>
               report.acceptedMatches < report.targets

\* Precision and the metadata accuracy are ratios of what was counted: a
\* match is an accepted fact, a right field belongs to a match.
RatiosAreRatios ==
    report \notin {None, Lost} =>
        /\ report.acceptedMatches <= report.accepted /\ report.accepted <= report.proposed
        /\ report.correct <= report.checked
=============================================================================
