------------------------- MODULE BoundedExtraction -------------------------
(***************************************************************************)
(* One extraction through the language model (src/aizk/extract/            *)
(* extractor.py, LLMExtractor): the text is cut into windows, each is one  *)
(* request, and a request that overflows the model's context is replaced   *)
(* by requests for its halves.  A span is an interval of characters.       *)
(***************************************************************************)
EXTENDS Naturals, Sequences, FiniteSets, FiniteSetsExt, SequencesExt

CONSTANTS
    MaxLength,   \* bound on the length of the text
    WindowSize   \* extract_window_size

WindowAssumption == WindowSize \in Nat \ {0} /\ MaxLength \in Nat \ {0}

VARIABLES
    size,     \* the length of the text
    todo,     \* spans to request, in order
    asked,    \* the spans requested so far
    wires,    \* spans of the answers collected, in order
    outcome

vars == <<size, todo, asked, wires, outcome>>

Length(span) == span[2] + 1 - span[1]

\* chunk_text: a span in consecutive pieces of at most limit characters. White
\* space at a cut, which it strips, is not counted as a character.
Pieces(span, limit) ==
    LET cuts == {e \in SUBSET (span[1]..span[2]) :
                   /\ span[2] \in e
                   /\ \A i \in span[1]..(span[2] + 1 - limit) :
                         e \cap i..(i + limit - 1) # {}}
    IN {[i \in 1..Cardinality(e) |->
           LET ends == SetToSortSeq(e, <)
           IN <<IF i = 1 THEN span[1] ELSE ends[i - 1] + 1, ends[i]>>] : e \in cuts}

Init ==
    /\ size \in 1..MaxLength
    /\ todo \in Pieces(<<1, size>>, WindowSize)
    /\ asked = {} /\ wires = <<>> /\ outcome = "running"

\* The model answers.
Answer ==
    /\ outcome = "running" /\ todo # <<>>
    /\ wires' = Append(wires, Head(todo)) /\ todo' = Tail(todo)
    /\ asked' = asked \cup {Head(todo)}
    /\ UNCHANGED <<size, outcome>>

Resume(pieces) == pieces \o Tail(todo)

Half(span) == Max({1, Length(span) \div 2})

\* A context overflow, which depends on the tokens of the span and not only
\* on its length: that span alone is asked again, in two or more smaller ones.
Overflow ==
    /\ outcome = "running" /\ todo # <<>> /\ Length(Head(todo)) >= 2
    /\ \E p \in Pieces(Head(todo), Half(Head(todo))) : Len(p) >= 2 /\ todo' = Resume(p)
    /\ asked' = asked \cup {Head(todo)}
    /\ UNCHANGED <<size, wires, outcome>>

\* A character that still overflows, a span that is not cut, or any other error
\* fails the chunk.
Fail ==
    /\ outcome = "running" /\ todo # <<>>
    /\ outcome' = "failed" /\ asked' = asked \cup {Head(todo)}
    /\ UNCHANGED <<size, todo, wires>>

Finish ==
    /\ outcome = "running" /\ todo = <<>>
    /\ outcome' = "extracted"
    /\ UNCHANGED <<size, todo, asked, wires>>

Next == Answer \/ Overflow \/ Fail \/ Finish

Spec == Init /\ [][Next]_vars

-----------------------------------------------------------------------------
(* Properties.                                                             *)

TypeOK ==
    /\ size \in 1..MaxLength
    /\ \A s \in Range(todo) \cup Range(wires) \cup asked : 1 <= s[1] /\ s[1] <= s[2] /\ s[2] <= size
    /\ outcome \in {"running", "extracted", "failed"}

\* An extraction covers its text: whatever overflowed on the way, its answers
\* come from consecutive spans that begin with the first character and end
\* with the last, each read once and in the order of the source.
Whole ==
    /\ \A i \in DOMAIN wires : wires[i][1] = IF i = 1 THEN 1 ELSE wires[i - 1][2] + 1
    /\ outcome = "extracted" => wires # <<>> /\ Last(wires)[2] = size

\* A step never asks for a span that was asked before: a retry is always of
\* something smaller, so a model that overflows for ever runs out of spans.
NeverTheSame == todo # todo' => Head(todo) \notin asked
=============================================================================
