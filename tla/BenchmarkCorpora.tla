-------------------------- MODULE BenchmarkCorpora --------------------------
(***************************************************************************)
(* Runs of an external conversation benchmark (eval/runner.py) over one    *)
(* evaluation database: prepare a corpus under the scope of its            *)
(* fingerprint, check it, ask every question of it, and purge the scope    *)
(* row by row (eval/cleanup.py) unless the corpus is kept.                 *)
(*                                                                         *)
(* A run is a process of its own and may be killed.  One message is one    *)
(* document of one chunk, and its statement is one fact_content row that   *)
(* every corpus with the message shares.  Models of questions and judges   *)
(* are external: an answer may fail.                                       *)
(***************************************************************************)
EXTENDS Integers, FiniteSets, Sequences, TLC

CONSTANTS
    Corpora,      \* fingerprints
    MessagesOf,   \* the messages each of them selects
    Runs,         \* processes
    Reuses,       \* whether a run may be asked to skip preparation (prepare=False)
    Questions,    \* bound: questions of a dataset
    MaxRuns,      \* bound: how many runs are begun
    MaxFaults     \* bound: failed slices, failed answers and killed processes

CorporaAssumption ==
    /\ DOMAIN MessagesOf = Corpora /\ Reuses \in BOOLEAN
    /\ {Questions, MaxRuns, MaxFaults} \subseteq Nat

Messages == UNION {MessagesOf[c] : c \in Corpora}

VARIABLES
    rows,     \* of each corpus and message: what is stored of it
    content,  \* statements with a fact_content row
    run,      \* what each process is doing
    begun, faults

vars == <<rows, content, run, begun, faults>>

\* "processed" is Chunk.processed_at; "fact" stands for the fact's and its
\* entities' claims, which a slice writes in one transaction.
Stored == {"document", "chunk", "processed", "fact"}

Purged == <<{"fact"}, {"chunk", "processed"}, {"document"}>>

Idle == [pc |-> "idle"]

Init ==
    /\ rows = [c \in Corpora |-> [m \in Messages |-> {}]]
    /\ content = {} /\ run = [r \in Runs |-> Idle]
    /\ begun = 0 /\ faults = 0

Whole(c) == \A m \in MessagesOf[c] : rows[c][m] = Stored

-----------------------------------------------------------------------------
Goes(r, pc) == run' = [run EXCEPT ![r].pc = pc]
Left(r) == IF run[r].keep THEN "done" ELSE "purge"

Fault == faults < MaxFaults /\ faults' = faults + 1

Begin(r) ==
    /\ run[r].pc \in {"idle", "done"} /\ begun < MaxRuns /\ begun' = begun + 1
    /\ \E c \in Corpora, prepare \in (IF Reuses THEN BOOLEAN ELSE {TRUE}), keep \in BOOLEAN :
         run' = [run EXCEPT ![r] =
                   [pc |-> IF prepare THEN "reset" ELSE "check", corpus |-> c,
                    prepare |-> prepare, keep |-> keep, todo |-> {}, failures |-> 0,
                    left |-> Questions, short |-> FALSE, stage |-> 1, publishable |-> FALSE]]
    /\ UNCHANGED <<rows, content, faults>>

Reset(r) ==   \* the CLI recreates the database before a run that prepares
    /\ run[r].pc = "reset"
    /\ rows' = [c \in Corpora |-> [m \in Messages |-> {}]] /\ content' = {}
    /\ Goes(r, "ingest")
    /\ UNCHANGED <<begun, faults>>

Ingest(r) ==   \* a document of the same content is left as it is
    LET c == run[r].corpus
        new == {m \in MessagesOf[c] : "document" \notin rows[c][m]}
        stored == [rows EXCEPT ![c] = [m \in Messages |-> IF m \in new THEN {"document", "chunk"}
                                                          ELSE rows[c][m]]]
    IN /\ run[r].pc = "ingest"
       /\ rows' = stored
       /\ run' = [run EXCEPT ![r].pc = "build",
                             ![r].todo = {m \in MessagesOf[c] : /\ "chunk" \in stored[c][m]
                                                                /\ "processed" \notin stored[c][m]}]
       /\ UNCHANGED <<content, begun, faults>>

Slice(r, m) ==   \* a chunk that was deleted meanwhile fails on its foreign key
    LET c == run[r].corpus IN
    /\ run[r].pc = "build" /\ m \in run[r].todo
    /\ IF "chunk" \in rows[c][m]
       THEN /\ rows' = [rows EXCEPT ![c][m] = @ \cup {"processed", "fact"}]
            /\ content' = content \cup {m}
            /\ run' = [run EXCEPT ![r].todo = @ \ {m}]
       ELSE /\ run' = [run EXCEPT ![r].todo = @ \ {m}, ![r].failures = 1]
            /\ UNCHANGED <<rows, content>>
    /\ UNCHANGED <<begun, faults>>

SliceFails(r, m) ==
    /\ run[r].pc = "build" /\ m \in run[r].todo /\ Fault
    /\ run' = [run EXCEPT ![r].todo = @ \ {m}, ![r].failures = 1]
    /\ UNCHANGED <<rows, content, begun>>

Built(r) ==   \* raise_failures, after every slice has been tried
    /\ run[r].pc = "build" /\ run[r].todo = {}
    /\ IF run[r].failures = 0 THEN Goes(r, "check") ELSE Goes(r, Left(r))
    /\ UNCHANGED <<rows, content, begun, faults>>

\* BenchmarkCorpusState.ready over corpus_state's two counts.
Ready(c) ==
    /\ Cardinality({m \in MessagesOf[c] : "document" \in rows[c][m]}) = Cardinality(MessagesOf[c])
    /\ ~ \E m \in MessagesOf[c] : {"document", "chunk"} \subseteq rows[c][m]
                                  /\ "processed" \notin rows[c][m]

Check(r) ==   \* the end of prepare, or ensure_prepared
    /\ run[r].pc = "check"
    /\ IF Ready(run[r].corpus) THEN Goes(r, "ask") ELSE Goes(r, Left(r))
    /\ UNCHANGED <<rows, content, begun, faults>>

Answer(r) ==
    /\ run[r].pc = "ask" /\ run[r].left > 0
    /\ run' = [run EXCEPT ![r].left = @ - 1, ![r].short = @ \/ ~ Whole(run[r].corpus)]
    /\ UNCHANGED <<rows, content, begun, faults>>

AnswerFails(r) ==   \* kept apart from wrong answers
    /\ run[r].pc = "ask" /\ run[r].left > 0 /\ Fault
    /\ run' = [run EXCEPT ![r].left = @ - 1, ![r].failures = @ + 1]
    /\ UNCHANGED <<rows, content, begun>>

Report(r) ==
    /\ run[r].pc = "ask" /\ run[r].left = 0
    /\ run' = [run EXCEPT ![r].pc = Left(r),
                          ![r].publishable = run[r].failures = 0]
    /\ UNCHANGED <<rows, content, begun, faults>>

\* One row, or the move to the next table.
PurgeRow(r) ==
    LET c == run[r].corpus  table == Purged[run[r].stage]
        held == {m \in Messages : table \cap rows[c][m] # {}}
    IN /\ run[r].pc = "purge" /\ run[r].stage <= Len(Purged)
       /\ IF held # {}
          THEN \E m \in held : rows' = [rows EXCEPT ![c][m] = @ \ table] /\ UNCHANGED run
          ELSE run' = [run EXCEPT ![r].stage = @ + 1] /\ UNCHANGED rows
       /\ UNCHANGED <<content, begun, faults>>

Claimed(m) == \E c \in Corpora : "fact" \in rows[c][m]
UnclaimedOwn(c) == MessagesOf[c] \cap content   \* (faulty) what another scope claims goes too
Unclaimed(c) == {m \in content : ~ Claimed(m)}

\* fact_content goes with its claims: the foreign key cascades.
PurgeContent(r) ==
    /\ run[r].pc = "purge" /\ run[r].stage > Len(Purged)
    /\ IF Unclaimed(run[r].corpus) # {}
       THEN \E m \in Unclaimed(run[r].corpus) :
              /\ content' = content \ {m}
              /\ rows' = [c \in Corpora |-> [rows[c] EXCEPT ![m] = @ \ {"fact"}]]
              /\ UNCHANGED run
       ELSE Goes(r, "done") /\ UNCHANGED <<rows, content>>
    /\ UNCHANGED <<begun, faults>>

Killed(r) ==
    /\ run[r].pc \notin {"idle", "done"} /\ Fault
    /\ run' = [run EXCEPT ![r] = Idle]
    /\ UNCHANGED <<rows, content, begun>>

Works(r) ==
    \/ Reset(r) \/ Ingest(r) \/ Built(r) \/ Check(r) \/ Answer(r) \/ Report(r)
    \/ PurgeRow(r) \/ PurgeContent(r) \/ \E m \in Messages : Slice(r, m)

Next == \E r \in Runs :
    Begin(r) \/ Works(r) \/ AnswerFails(r) \/ Killed(r) \/ \E m \in Messages : SliceFails(r, m)

Spec == Init /\ [][Next]_vars

-----------------------------------------------------------------------------
Pcs == {"idle", "reset", "ingest", "build", "check", "ask", "purge", "done"}

TypeOK ==
    /\ \A c \in Corpora, m \in Messages : rows[c][m] \subseteq Stored
    /\ \A c \in Corpora, m \in Messages : "processed" \in rows[c][m] => "chunk" \in rows[c][m]
    /\ content \subseteq Messages
    /\ \A r \in Runs : run[r].pc \in Pcs

\* "The runner refuses to score a corpus that is short a document or still has
\* pending chunks" (external.md:46), and what it does score is the corpus it
\* prepared: no question is asked of a corpus with a part missing.
AnswersSeeWholeCorpus == \A r \in Runs : run[r].pc # "idle" => ~ run[r].short

\* A scorecard that calls itself publishable has no failed question and no
\* question asked of part of the corpus (BenchmarkReport.publishable).
PublishableIsSound ==
    \A r \in Runs : run[r].pc # "idle" /\ run[r].publishable =>
                        run[r].failures = 0 /\ run[r].left = 0 /\ ~ run[r].short

\* A corpus loses a row only to a reset or to the purge of a run over it that
\* does not keep it: not to a run over it that does, and not to the purge of
\* another corpus with the same message, whose statement it claims too.
PurgesOnlyTheUnkept ==
    \A c \in Corpora, m \in Messages :
       ~ (rows[c][m] \subseteq rows'[c][m])
       => \E r \in Runs : \/ run[r].pc = "reset"
                          \/ run[r].pc = "purge" /\ run[r].corpus = c /\ ~ run[r].keep

\* "The isolated scope is purged after the run unless you pass --keep": a run
\* that ends without it leaves no row of its scope and no statement that only
\* its scope claimed.
LeavesNothing ==
    \A r \in Runs : run[r].pc = "purge" /\ run'[r].pc = "done" =>
       /\ \A m \in Messages : rows'[run[r].corpus][m] = {}
       /\ \A m \in content' : \E c \in Corpora : "fact" \in rows'[c][m]

\* A run that has begun, and one that is over.
HasBegun(r) == run[r].pc = "reset"
IsOver(r) == run[r].pc \in {"idle", "done"}
=============================================================================
