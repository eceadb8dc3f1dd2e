-------------------------- MODULE ProcessingStatus --------------------------
(***************************************************************************)
(* What a caller is told about the work still to be done for what they     *)
(* stored (src/aizk/status.py, the counts of store/models/tables/artifact  *)
(* and chunk): the backlog and the recent completions of conversion and of *)
(* graph projection, a range for when each clears, and one overall state.  *)
(*                                                                         *)
(* The work itself is ArtifactLifecycle and JobSlot; here an original or a *)
(* chunk is only waiting, worked on, given up or finished some hours ago.  *)
(***************************************************************************)
EXTENDS Naturals, FiniteSets

CONSTANTS
    Artifacts, Chunks,
    Short, Middle, Day,      \* the windows of one, six and twenty-four hours
    Sample, Large,           \* the completions a fair and a high confidence need (20, 100)
    Second                   \* the seconds of one hour

StatusAssumption ==
    /\ Short \in Nat \ {0} /\ Middle > Short /\ Day > Middle
    /\ Sample \in Nat \ {0} /\ Large >= Sample /\ Second \in Nat \ {0}

VARIABLES
    original,   \* original[a]: its state
    finished,   \* finished[a]: hours since its last verdict, Day for "longer ago"
    chunk,      \* chunk[c]: "absent", "waiting", "held" or "done"
    projected   \* projected[c]: hours since processed_at

vars == <<original, finished, chunk, projected>>

States == {"absent", "pending", "queued", "processing", "ready", "failed", "unreadable"}
Ages == 0..Day

TypeOK ==
    /\ original \in [Artifacts -> States] /\ finished \in [Artifacts -> Ages]
    /\ chunk \in [Chunks -> {"absent", "waiting", "held", "done"}]
    /\ projected \in [Chunks -> Ages]

Init ==
    /\ original = [a \in Artifacts |-> "absent"]
    /\ finished = [a \in Artifacts |-> Day]
    /\ chunk = [c \in Chunks |-> "absent"]
    /\ projected = [c \in Chunks |-> Day]

-----------------------------------------------------------------------------
(* The work.                                                               *)

Verdicts == {"ready", "failed", "unreadable"}

\* Every change of state stamps or clears the verdict's time.
Move(a, from, to) ==
    /\ original[a] \in from
    /\ original' = [original EXCEPT ![a] = to]
    /\ finished' = [finished EXCEPT ![a] = IF to \in Verdicts THEN 0 ELSE Day]

Accept(a) == Move(a, {"absent"}, "pending") /\ UNCHANGED <<chunk, projected>>
Enqueue(a) == Move(a, {"pending", "failed"}, "queued") /\ UNCHANGED <<chunk, projected>>
Claim(a) == Move(a, {"queued"}, "processing") /\ UNCHANGED <<chunk, projected>>
Refuse(a) ==
    /\ Move(a, {"processing"}, "failed") \/ Move(a, {"processing"}, "unreadable")
    /\ UNCHANGED <<chunk, projected>>

\* A conversion brings the chunks of its document.
Convert(a) ==
    /\ Move(a, {"processing"}, "ready")
    /\ \E new \in SUBSET {c \in Chunks : chunk[c] = "absent"} :
          chunk' = [c \in Chunks |-> IF c \in new THEN "waiting" ELSE chunk[c]]
    /\ UNCHANGED projected

Project(c) ==
    /\ chunk[c] = "waiting"
    /\ chunk' = [chunk EXCEPT ![c] = "done"]
    /\ projected' = [projected EXCEPT ![c] = 0]
    /\ UNCHANGED <<original, finished>>

\* Its attempts are used up: the job is held and the row keeps waiting.
Hold(c) ==
    /\ chunk[c] = "waiting"
    /\ chunk' = [chunk EXCEPT ![c] = "held"]
    /\ UNCHANGED <<original, finished, projected>>

\* A held job is retried, or a refresh revises a chunk.
Again(c) ==
    /\ chunk[c] \in {"held", "done"}
    /\ chunk' = [chunk EXCEPT ![c] = "waiting"]
    /\ projected' = [projected EXCEPT ![c] = Day]
    /\ UNCHANGED <<original, finished>>

Tick ==
    /\ finished' = [a \in Artifacts |-> IF finished[a] < Day THEN finished[a] + 1 ELSE Day]
    /\ projected' = [c \in Chunks |-> IF projected[c] < Day THEN projected[c] + 1 ELSE Day]
    /\ UNCHANGED <<original, chunk>>

Next ==
    \/ \E a \in Artifacts : Accept(a) \/ Enqueue(a) \/ Claim(a) \/ Refuse(a) \/ Convert(a)
    \/ \E c \in Chunks : Project(c) \/ Hold(c) \/ Again(c)
    \/ Tick

Spec == Init /\ [][Next]_vars

-----------------------------------------------------------------------------
(* The report.                                                             *)

ArtifactsIn(states) == Cardinality({a \in Artifacts : original[a] \in states})
Conversion ==
    LET within(hours) == Cardinality({a \in Artifacts : original[a] = "ready" /\ finished[a] < hours})
    IN [queued |-> ArtifactsIn({"pending", "queued"}), running |-> ArtifactsIn({"processing"}),
        failed |-> ArtifactsIn({"failed"}),
        short |-> within(Short), middle |-> within(Middle), day |-> within(Day)]

\* A held chunk is one that waits: neither its running nor its failed jobs are
\* counted.
Projection ==
    LET within(hours) == Cardinality({c \in Chunks : chunk[c] = "done" /\ projected[c] < hours})
    IN [queued |-> Cardinality({c \in Chunks : chunk[c] \in {"waiting", "held"}}),
        running |-> 0, failed |-> 0,
        short |-> within(Short), middle |-> within(Middle), day |-> within(Day)]

Backlog(stage) == stage.queued + stage.running

\* min(20, max(1, backlog))
Required(stage) == IF Backlog(stage) = 0 THEN 1
                   ELSE IF Backlog(stage) < Sample THEN Backlog(stage) ELSE Sample

\* The shortest window with enough completions; else the shortest with any.
Window(stage) ==
    LET hour == [sample |-> stage.short, hours |-> Short]
        six == [sample |-> stage.middle, hours |-> Middle]
    IN IF stage.short >= Required(stage) THEN hour
       ELSE IF stage.middle >= Required(stage) THEN six
       ELSE IF stage.short > 0 THEN hour ELSE six

\* max(a, b) <= num/den * min(a, b) for the current and the day's rate.
Drifts(stage, num, den) ==
    LET now == Window(stage).sample * Day
        usual == stage.day * Window(stage).hours
    IN ~ (usual > 0 /\ now * den <= num * usual /\ usual * den <= num * now)

\* How far below and above the current rate the work may run.
Bounds(stage) ==
    IF Window(stage).sample >= Large /\ ~ Drifts(stage, 3, 2)
    THEN [slow |-> <<4, 5>>, fast |-> <<6, 5>>]
    ELSE IF Window(stage).sample >= Sample /\ ~ Drifts(stage, 3, 1)
    THEN [slow |-> <<2, 3>>, fast |-> <<3, 2>>]
    ELSE [slow |-> <<1, 2>>, fast |-> <<2, 1>>]

Ceil(num, den) == (num + den - 1) \div den

\* The seconds at pace[1]/pace[2] times the current rate.
Clears(stage, pace) ==
    Ceil(Backlog(stage) * Window(stage).hours * Second * pace[2], Window(stage).sample * pace[1])

Nothing == [kind |-> "none", lower |-> 0, upper |-> 0]

EtaRange(stage) ==
    [kind |-> "range", lower |-> Clears(stage, Bounds(stage).fast),
                       upper |-> Clears(stage, Bounds(stage).slow)]

\* Failed work blocks, no backlog is complete, too few completions say nothing.
Estimate(stage) ==
    IF stage.failed > 0 THEN Nothing
    ELSE IF Backlog(stage) = 0 THEN [kind |-> "complete", lower |-> 0, upper |-> 0]
    ELSE IF Window(stage).sample < Required(stage) THEN Nothing
    ELSE EtaRange(stage)

Outstanding(stage) == Backlog(stage) > 0 \/ stage.failed > 0

Unavailable(stage) == Estimate(stage).kind = "none"

Overall ==
    IF ~ Outstanding(Conversion) /\ ~ Outstanding(Projection) THEN "idle"
    ELSE IF \/ Conversion.failed > 0
            \/ \E stage \in {Conversion, Projection} : Backlog(stage) > 0 /\ Unavailable(stage)
         THEN "delayed" ELSE "active"

Enriched == IF Outstanding(Conversion) THEN Nothing ELSE Estimate(Projection)

-----------------------------------------------------------------------------
(* A range is ordered and never promises work in no time, and it is only   *)
(* given on as many completions as the backlog asks for.                   *)
RangeOrdered ==
    \A stage \in {Conversion, Projection} :
        LET e == Estimate(stage) IN
        e.kind = "range" =>
            /\ 0 < e.lower /\ e.lower <= e.upper
            /\ stage.middle >= Required(stage)

(* Idle means that nothing visible is still to be processed, and nothing   *)
(* else is called idle.                                                    *)
IdleIsDone ==
    Overall = "idle" <=>
        /\ \A a \in Artifacts : original[a] \in {"absent", "ready", "unreadable"}
        /\ \A c \in Chunks : chunk[c] \in {"absent", "done"}

(* Full enrichment is not predicted while a conversion may still bring     *)
(* chunks that do not exist yet.                                           *)
EnrichedNotEarly ==
    Enriched.kind # "none" =>
        \A a \in Artifacts : original[a] \in {"absent", "ready", "unreadable"}

(* When the state is active every stage with work left has a range.        *)
ActiveIsEstimated ==
    Overall = "active" =>
        /\ \E stage \in {Conversion, Projection} : Estimate(stage).kind = "range"
        /\ \A a \in Artifacts : original[a] # "failed"
=============================================================================
