----------------------------- MODULE Grounding ------------------------------
(***************************************************************************)
(* Which facts a model proposes from a chunk are written to the graph      *)
(* (src/aizk/graph/grounding.py): the quote must occur in the text, the    *)
(* statement must not be more certain than the sentence around the quote,  *)
(* and the endpoints must be two distinct proposed entities.               *)
(*                                                                         *)
(* A text is a sequence of words.  A register marker, a negation, a full   *)
(* stop and one word in two cases stand for the words the code tells       *)
(* apart; of a statement only its register and its polarity matter.        *)
(***************************************************************************)
EXTENDS Naturals, Sequences, FiniteSets, FiniteSetsExt, SequencesExt

CONSTANTS
    Texts,       \* source texts, sequences over Words
    Quotes,      \* quotes a model may propose; <<>> is a missing one
    Statements,  \* [rank, negated] of a fact's statement
    Proposals,   \* entity names a model may propose with a text, sequences
    Endpoints,   \* names a fact may use; "" is an absent object
    Predicates,
    Proposed,    \* ranks of the stance the model proposes
    Norm,        \* the canonical key of each name, "" for a path
    MaxFacts     \* bound: facts proposed for one text

Generic == "related_to"
Reasons == {"missing_quote", "unsupported_quote", "stripped_qualifier",
            "unresolved_endpoint", "self_relation", "generic_relation"}

NormNames ==
    \A n \in Endpoints \cup UNION {Range(p) : p \in Proposals} : n \in DOMAIN Norm

VARIABLES
    source,      \* the chunk's text
    names,       \* the entity names proposed for it
    considered,  \* the facts read so far, in order
    facts,       \* the accepted ones, as they will be stored
    used,        \* the entity keys they mention
    rejected     \* how many were refused, by reason

vars == <<source, names, considered, facts, used, rejected>>

-----------------------------------------------------------------------------
(* The ladder of stances, and the register a span speaks in.               *)
Rank(word) ==
    CASE word = "said" -> 1 [] word = "maybe" -> 2 [] word = "wrong" -> 4 [] OTHER -> 0
Distorting(rank) == rank >= 2
Refuted == 4

Certainty(span) == Max({0} \cup {Rank(span[i]) : i \in DOMAIN span})
Negates(span) == \E i \in DOMAIN span : span[i] = "not"

Fold(word) == IF word = "A" THEN "a" ELSE word
Folded(text) == [i \in DOMAIN text |-> Fold(text[i])]

\* Where the quote starts in the text, 0 when it does not occur.
Find(quote, text) ==
    LET starts == {i \in 1..(Len(text) + 1 - Len(quote)) :
                      SubSeq(text, i, i + Len(quote) - 1) = quote}
    IN IF starts = {} THEN 0 ELSE Min(starts)

\* The first exact occurrence, else the first one up to case and spacing.
QuoteStart(quote, text) ==
    IF Find(quote, text) > 0 THEN Find(quote, text)
                             ELSE Find(Folded(quote), Folded(text))

\* From the last break before the span to the first one after it.
SentenceAround(text, start, end) ==
    LET breaks == {i \in DOMAIN text : text[i] = "."}
        left   == Max({0} \cup {i \in breaks : i < start})
        right  == Min({Len(text)} \cup {i \in breaks : i > end})
    IN SubSeq(text, left + 1, right)

Sentence(fact) ==
    LET start == QuoteStart(fact.quote, source)
    IN SentenceAround(source, start, start + Len(fact.quote) - 1)

Stripped(fact) ==
    \/ LET rank == Certainty(Sentence(fact)) IN Distorting(rank) /\ rank > fact.rank
    \/ Negates(Sentence(fact)) /\ ~fact.negated

-----------------------------------------------------------------------------
(* The entity table.  Grounding keeps the first spelling of a name, the    *)
(* audit the last; both are looked up by the canonical key.                *)
Keyed == {i \in DOMAIN names : Norm[names[i]] # ""}
Keys == {Norm[names[i]] : i \in Keyed}
FirstOf(key) == names[Min({i \in Keyed : Norm[names[i]] = key})]
LastOf(key)  == names[Max({i \in Keyed : Norm[names[i]] = key})]

\* The first rule a fact breaks.
Rejection(fact, keys) ==
    LET subject == Norm[fact.subject]
        object  == Norm[fact.object]
    IN CASE fact.quote = <<>> -> "missing_quote"
         [] QuoteStart(fact.quote, source) = 0 -> "unsupported_quote"
         [] Stripped(fact) -> "stripped_qualifier"
         [] subject \notin keys \/ (fact.object # "" /\ object \notin keys) -> "unresolved_endpoint"
         [] subject = object -> "self_relation"
         [] fact.predicate = Generic -> "generic_relation"
         [] OTHER -> "none"

-----------------------------------------------------------------------------
Init ==
    /\ source \in Texts
    /\ names \in Proposals
    /\ considered = <<>> /\ facts = <<>> /\ used = {}
    /\ rejected = [r \in Reasons |-> 0]

ProposedFacts ==
    {[quote |-> q, rank |-> st.rank, negated |-> st.negated, stance |-> p,
      subject |-> s, object |-> o, predicate |-> r] :
        q \in Quotes, st \in Statements, p \in Proposed,
        s \in Endpoints \ {""}, o \in Endpoints, r \in Predicates}

Refuse(fact) ==
    /\ Rejection(fact, Keys) # "none"
    /\ rejected' = [rejected EXCEPT ![Rejection(fact, Keys)] = @ + 1]
    /\ UNCHANGED <<facts, used>>

\* An accepted fact names its entities as they will be stored, and its stance is
\* never more settled than its sentence; it corrects when the sentence refutes.
Grounded(fact) ==
    LET rank == Certainty(Sentence(fact))
    IN [subject |-> FirstOf(Norm[fact.subject]),
        object |-> IF fact.object = "" THEN "" ELSE FirstOf(Norm[fact.object]),
        stance |-> Max({fact.stance, rank}), correcting |-> rank = Refuted, from |-> fact]

Accept(fact) ==
    /\ Rejection(fact, Keys) = "none"
    /\ facts' = Append(facts, Grounded(fact))
    /\ used' = used \cup ({Norm[fact.subject], Norm[fact.object]} \ {""})
    /\ UNCHANGED rejected

Consider(fact) ==
    /\ Len(considered) < MaxFacts
    /\ considered' = Append(considered, fact)
    /\ Refuse(fact) \/ Accept(fact)
    /\ UNCHANGED <<source, names>>

Next == \E fact \in ProposedFacts : Consider(fact)
Spec == Init /\ [][Next]_vars

\* The entities that are written, and the audit an operator reads beside them.
Entities == {FirstOf(key) : key \in used}
Audit(i) == Rejection(considered[i], {Norm[LastOf(key)] : key \in Keys})

-----------------------------------------------------------------------------
TypeOK ==
    /\ source \in Texts /\ names \in Proposals
    /\ Range(considered) \subseteq ProposedFacts
    /\ \A i \in DOMAIN facts : facts[i].stance \in 0..4 /\ facts[i].from \in ProposedFacts
    /\ used \subseteq Keys
    /\ \A r \in Reasons : rejected[r] \in 0..MaxFacts

(* The sentences a stretch of the text lies in, by cutting the text at its *)
(* full stops.                                                             *)
Number(i) == Cardinality({j \in 1..(i - 1) : source[j] = "."})
OwnSentences(start, quote) ==
    LET numbers == {Number(i) : i \in start..(start + Len(quote) - 1)}
        inside  == {i \in DOMAIN source : Number(i) \in numbers}
    IN SubSeq(source, Min(inside), Max(inside))

Occurrences(quote) ==
    {i \in 1..(Len(source) + 1 - Len(quote)) :
        SubSeq(Folded(source), i, i + Len(quote) - 1) = Folded(quote)}

(* No stored fact asserts what its source qualified: somewhere in the text *)
(* its quote stands in sentences whose doubt, dispute, withdrawal or       *)
(* negation the statement kept, and its stance is no more settled than     *)
(* them.  A quote cut from the confident half of a sentence does not pass. *)
NothingOverstated ==
    \A i \in DOMAIN facts : LET from == facts[i].from IN
        \E start \in Occurrences(from.quote) :
            LET own == OwnSentences(start, from.quote) IN
                /\ Distorting(Certainty(own)) => from.rank >= Certainty(own)
                /\ Negates(own) => from.negated
                /\ facts[i].stance >= Certainty(own)

(* The entities that are written are those the accepted facts name, and a  *)
(* fact whose object was a path or an unknown name is not written without  *)
(* it.                                                                     *)
EndpointsWritten ==
    /\ Entities = UNION {{facts[i].subject, facts[i].object} : i \in DOMAIN facts} \ {""}
    /\ \A i \in DOMAIN facts : (facts[i].object = "") = (facts[i].from.object = "")

(* No entity is related to itself, however its name was spelled.           *)
NoSelfRelation ==
    \A i \in DOMAIN facts : facts[i].subject # facts[i].object

(* The audit shown to an operator refuses exactly the facts that were not  *)
(* written, for the reasons that were counted.                             *)
AuditExplains ==
    /\ Len(facts) = Cardinality({i \in DOMAIN considered : Audit(i) = "none"})
    /\ \A r \in Reasons :
          rejected[r] = Cardinality({i \in DOMAIN considered : Audit(i) = r})
=============================================================================
