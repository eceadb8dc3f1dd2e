--------------------------- MODULE SpanExtraction --------------------------
(***************************************************************************)
(* The GLiNER graph backend: the sidecar reads a long text in overlapping  *)
(* word windows and merges what each returned at its place in the source   *)
(* (serving/extract/long_text.py), and the client turns the strongest      *)
(* relations and entities into an extraction (extract/extractor.py).       *)
(*                                                                         *)
(* A text is a sequence of words, a full stop being a word; a span is the  *)
(* position of one word, and words are their own case-folded names.        *)
(***************************************************************************)
EXTENDS Naturals, Sequences, FiniteSets, FiniteSetsExt, Functions

CONSTANTS
    Texts,
    WindowSize, Overlap,  \* in words
    Kinds, Predicates,    \* of the ontology
    Confidences,
    MaxRelations,         \* 8 in the code
    MaxEntities           \* 16 in the code

WindowAssumption ==   \* LongTextExtractor.__post_init__
    WindowSize \in Nat /\ Overlap \in Nat /\ WindowSize > Overlap
LimitAssumption ==
    MaxRelations \in Nat \ {0} /\ MaxEntities >= 2 * MaxRelations

VARIABLES
    text,
    todo,       \* starts of the windows not merged yet
    entities,   \* [kind, at] -> [word, confidence]
    relations,  \* [predicate, head, tail] -> [head, tail], two such spans
    seen,       \* every span the model returned, at its place in the text
    graph       \* the extraction, once converted

vars == <<text, todo, entities, relations, seen, graph>>

Concept == "Concept"
NoGraph == [names |-> {}, facts |-> {}, ready |-> FALSE]

-----------------------------------------------------------------------------
(* The windows of a text.                                                  *)
Step == WindowSize - Overlap

\* range(0, n - overlap, step), counted from one.
Starts(n) ==
    IF n <= WindowSize THEN {1}
    ELSE {i \in 1..(n - Overlap) : (i - 1) % Step = 0}

Window(start, n) == start..Min({start + WindowSize - 1, n})

Init ==
    /\ text \in Texts
    /\ todo = Starts(Len(text))
    /\ entities = <<>> /\ relations = <<>> /\ seen = {} /\ graph = NoGraph

-----------------------------------------------------------------------------
(* Merging one window.  The model answers in positions of the window.      *)
Word(start, local) == text[start + local - 1]

Shift(start, local) == start + local - 1

Stronger(table, key, confidence) ==
    key \notin DOMAIN table \/ confidence > table[key].confidence

MergeEntity(start, found) ==
    LET key == [kind |-> found.kind, at |-> Shift(start, found.local)]
        span == [word |-> Word(start, found.local), confidence |-> found.confidence]
    IN IF Stronger(entities, key, found.confidence)
       THEN entities' = [k \in {key} \cup DOMAIN entities |-> IF k = key THEN span ELSE entities[k]]
       ELSE UNCHANGED entities

\* A relation is as sure as the less sure of its ends.
MergeRelation(start, found) ==
    LET key == [predicate |-> found.predicate,
                head |-> Shift(start, found.head), tail |-> Shift(start, found.tail)]
        link == [head |-> Word(start, found.head), tail |-> Word(start, found.tail),
                 confidence |-> Min({found.sureHead, found.sureTail})]
    IN IF Stronger(relations, key, link.confidence)
       THEN relations' = [k \in {key} \cup DOMAIN relations |-> IF k = key THEN link ELSE relations[k]]
       ELSE UNCHANGED relations

\* The places of a window the model may mark: its words, not the stops.
Marks(start) ==
    {i \in 1..Cardinality(Window(start, Len(text))) : Word(start, i) # "."}

\* What one window may return; at most one entity and one relation, so that
\* two windows already disagree about the same span.
Found(start) ==
    [entity : {<<>>} \cup {<<e>> : e \in [kind : Kinds, local : Marks(start),
                                         confidence : Confidences]},
     relation : {<<>>} \cup {<<r>> : r \in [predicate : Predicates, head : Marks(start),
         tail : Marks(start), sureHead : Confidences, sureTail : Confidences]}]

Merge ==
    /\ todo # {}
    /\ LET start == Min(todo) IN \E found \in Found(start) :
         /\ todo' = todo \ {start}
         /\ IF found.entity = <<>> THEN UNCHANGED entities
            ELSE MergeEntity(start, found.entity[1])
         /\ IF found.relation = <<>> THEN UNCHANGED relations
            ELSE MergeRelation(start, found.relation[1])
         /\ seen' = seen
              \cup {<<e.kind, start + e.local - 1, e.confidence>> : e \in Range(found.entity)}
              \cup {<<r.predicate, start + r.head - 1, start + r.tail - 1,
                      Min({r.sureHead, r.sureTail})>> : r \in Range(found.relation)}
    /\ UNCHANGED <<text, graph>>

-----------------------------------------------------------------------------
(* The conversion.                                                         *)
Strongest(table, keys, kept) ==
    \A k \in kept, l \in keys \ kept : table[k].confidence >= table[l].confidence

\* _ranked_relations: at most MaxRelations links between distinct names.
RankedRelations ==
    LET proper == {k \in DOMAIN relations : relations[k].head # relations[k].tail}
    IN {kept \in SUBSET proper :
          /\ Cardinality(kept) = Min({MaxRelations, Cardinality(proper)})
          /\ Strongest(relations, proper, kept)}

\* The kinds a name may be given: those of its strongest detection.
KindsOf(name) ==
    LET hits == {k \in DOMAIN entities : entities[k].word = name}
    IN {k.kind : k \in {h \in hits : Strongest(entities, hits, {h})}}

\* The ends of the kept relations come first and all fit; detected names
\* follow up to the limit.
Names(ends, detected, chosen) ==
    /\ ends \subseteq chosen /\ chosen \subseteq ends \cup detected
    /\ Cardinality(chosen) = Max({Cardinality(ends),
                                  Min({MaxEntities, Cardinality(ends \cup detected)})})

Excerpt(head, tail) ==
    LET stops == {i \in DOMAIN text : text[i] = "."}
        left  == Max({0} \cup {i \in stops : i < Min({head, tail})})
        right == Min({Len(text)} \cup {i \in stops : i > Max({head, tail})})
    IN (left + 1)..right

\* Facts are a set of these: one per subject, predicate, object and quote.
FactOf(key) ==
    [subject |-> relations[key].head, predicate |-> key.predicate,
     object |-> relations[key].tail, quote |-> Excerpt(key.head, key.tail)]

Types(name) == IF KindsOf(name) = {} THEN {Concept} ELSE KindsOf(name)

Convert ==
    /\ todo = {} /\ ~graph.ready
    /\ \E kept \in RankedRelations :
       LET ends == {relations[k].head : k \in kept} \cup {relations[k].tail : k \in kept}
           detected == {entities[k].word : k \in DOMAIN entities}
       IN \E chosen \in SUBSET (ends \cup detected) :
            /\ Names(ends, detected, chosen)
            /\ \E type \in {t \in [chosen -> Kinds \cup {Concept}] :
                              \A name \in chosen : t[name] \in Types(name)} :
                 graph' = [names |-> {<<name, type[name]>> : name \in chosen},
                           facts |-> {FactOf(k) : k \in kept}, ready |-> TRUE]
    /\ UNCHANGED <<text, todo, entities, relations, seen>>

Next == Merge \/ Convert

Spec == Init /\ [][Next]_vars

-----------------------------------------------------------------------------
(* Properties.                                                             *)

Fact == [subject : Range(text), predicate : Predicates, object : Range(text),
         quote : SUBSET (DOMAIN text)]

TypeOK ==
    /\ todo \subseteq Starts(Len(text))
    /\ \A k \in DOMAIN entities : k.kind \in Kinds /\ k.at \in DOMAIN text
    /\ \A k \in DOMAIN relations : {k.head, k.tail} \subseteq DOMAIN text
    /\ graph.facts \subseteq Fact

\* The windows of a text lose nothing at a boundary: two words at most
\* Overlap apart are read together in one of them, and no window is read
\* that only repeats another, in texts of up to four windows' length.
NeighboursMeet ==
    \A n \in {Len(text)} \cup 1..(4 * WindowSize) :
        /\ \A i, j \in 1..n : i <= j /\ j <= i + Overlap =>
              \E s \in Starts(n) : {i, j} \subseteq Window(s, n)
        /\ \A s, t \in Starts(n) : Window(s, n) \subseteq Window(t, n) => s = t

\* Of the copies that overlapping windows return of one span, the merged
\* graph holds the surest, whichever window came first.
StrongestKept ==
    \A s \in seen :
        IF Len(s) = 3
        THEN LET key == [kind |-> s[1], at |-> s[2]]
             IN key \in DOMAIN entities /\ entities[key].confidence >= s[3]
        ELSE LET key == [predicate |-> s[1], head |-> s[2], tail |-> s[3]]
             IN key \in DOMAIN relations /\ relations[key].confidence >= s[4]

\* A fact quotes the place it was found at: both its names occur in the
\* quote, for facts of every window.  Grounding looks for that quote.
QuoteNamesEnds ==
    \A f \in graph.facts : {f.subject, f.object} \subseteq {text[i] : i \in f.quote}

\* Grounding refuses a fact whose names are not among the entities: the
\* limits never separate a kept relation from its ends.
EndsAreEntities ==
    \A f \in graph.facts : \E n, m \in graph.names : n[1] = f.subject /\ m[1] = f.object

\* An entity has one type, that of the surest span of its name anywhere in
\* the text, even when only a relation brought the name in.
SurestType ==
    /\ \A n, m \in graph.names : n[1] = m[1] => n = m
    /\ graph.ready => \A n \in graph.names : \A s \in seen :
         Len(s) = 3 /\ text[s[2]] = n[1] =>
           \E t \in seen : Len(t) = 3 /\ text[t[2]] = n[1] /\ t[1] = n[2] /\ t[3] >= s[3]
=============================================================================
