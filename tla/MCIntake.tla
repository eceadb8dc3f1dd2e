------------------------------ MODULE MCIntake ------------------------------
(* The components that take memory in: `part` names the one a behaviour        *)
(* exercises.  Those this module extends keep their variables, of the others   *)
(* `part` gives v1, v2, ... their meaning.                                     *)
EXTENDS ArtifactLifecycle, ObjectStore, Uploads, CoordinationLocks,
        Integers, Sequences, FiniteSets, FiniteSetsExt, SequencesExt, TLC

CONSTANTS Exercised, Nil, converter, rechunk

VARIABLES part, v1, v2, v3, v4, v5, v6, v7, v8, v9, v10, v11, v12
bank == <<v1, v2, v3, v4, v5, v6, v7, v8, v9, v10, v11, v12>>
vars == <<part, bank, artifactVars, storeVars, uploadVars, lockVars>>
-----------------------------------------------------------------------------
\* One original through two conversion workers.
ArtifactBlob == "r1" :> "b1"
ArtifactMatches == "web" :> {"r1"}

\* One blob, two compactors and a collector over three object keys.

\* Two users mint grants that two PUTs redeem.
UploadItems == {"g1", "g2", "g3", "p1", "p2", "p3", "w1"}
UploadOwners == [x \in UploadItems |-> IF x = "g3" THEN "u2" ELSE "u1"]
UploadOwner == [x \in UploadItems |-> "u1"]
UploadScope == [x \in UploadItems |-> "s1"]
\* The second grant files into another scope.
UploadScopes == [x \in UploadItems |-> IF x = "g2" THEN "s2" ELSE "s1"]
UploadSizes == [x \in UploadItems |-> IF x = "w1" THEN 1 ELSE 2]
UploadEven == [x \in UploadItems |-> 2]

\* One user with one scope fills an allowance, by upload and by URI.
Uploading == INSTANCE Uploads WITH
    Grants <- {"g1", "g2"}, Puts <- {"p1", "p2", "p3"}, Uris <- {"w1"},
    Users <- {"u1", "u2"}, Scopes <- {"s1"}, Owner <- UploadOwner,
    Target <- UploadScope, Size <- UploadSizes, Cap <- 2, Ttl <- 1, Limit <- 3,
    LastTick <- 0,
    clock <- v1, phase <- v2, stamp <- v3, rows <- v4, item <- v5, objects <- v6,
    kept <- v7

\* The same user files into two scopes.
Targets == INSTANCE Uploads WITH
    Grants <- {"g1", "g2"}, Puts <- {"p1", "p2", "p3"}, Uris <- {"w1"},
    Users <- {"u1", "u2"}, Scopes <- {"s1", "s2"}, Owner <- UploadOwner,
    Target <- UploadScopes, Size <- UploadEven, Cap <- 2, Ttl <- 1, Limit <- 3,
    LastTick <- 0,
    clock <- v1, phase <- v2, stamp <- v3, rows <- v4, item <- v5, objects <- v6,
    kept <- v7

LanesRaster(image) == [form |-> "raster", image |-> image]
LanesOther(form) == [form |-> form, image |-> "a"]
LanesPlain == {[media |-> media, figures |-> <<>>] : media \in {"pdf", "office", "text", "other"}}
LanesDrawn ==
  {[media |-> "image", figures |-> <<LanesRaster(image)>>] : image \in {"a", "big"}}
  \cup {[media |-> "pdf", figures |-> figures] : figures \in
         {<<LanesRaster("a"), LanesRaster("b"), LanesRaster("a")>>, <<LanesRaster("b"), LanesOther("svg"), LanesRaster("b")>>,
          <<LanesRaster("a"), LanesRaster("big")>>, <<LanesRaster("a"), LanesOther("garbled")>>,
          <<LanesOther("odd"), LanesRaster("b")>>}}
LanesAllPages == LanesPlain \cup LanesDrawn
LanesTwoModels == <<"primary", "fallback">>
Lanes == INSTANCE ConversionLanes WITH
    Image <- {"a", "b", "big"}, Large <- {"big"}, Page <- LanesAllPages,
    Models <- LanesTwoModels, Attempts <- 2, OneShot <- TRUE, Captions <- TRUE,
    MaxTries <- 2,
    page <- v1, pc <- v2, process <- v3, scratch <- v4, words <- v5, cached <- v6,
    ask <- v7, calls <- v8, tries <- v9, state <- v10, note <- v11,
    cut <- v12

BoilerplateText(prose, labels, links, local, signature) ==
  [fenced |-> FALSE, level |-> 0, chrome |-> FALSE, prose |-> prose, labels |-> labels,
   links |-> links, local |-> local, signature |-> signature]
BoilerplateTitled(depth, names) ==
  [fenced |-> FALSE, level |-> depth, chrome |-> names, prose |-> 1, labels |-> 0,
   links |-> 0, local |-> TRUE, signature |-> 9]
BoilerplateArticle == BoilerplateText(8, 0, 0, TRUE, 1)
BoilerplateDense == BoilerplateText(8, 12, 5, TRUE, 2)
BoilerplateIntro == BoilerplateText(1, 0, 0, TRUE, 3)
BoilerplateScrap == BoilerplateText(0, 0, 0, TRUE, 4)
BoilerplateMenu == BoilerplateText(0, 6, 4, TRUE, 5)
BoilerplateShort == BoilerplateText(0, 1, 1, TRUE, 6)
BoilerplateBadges == BoilerplateText(0, 0, 2, FALSE, 7)
BoilerplateReferences == BoilerplateText(2, 4, 3, FALSE, 8)
BoilerplateFence == [BoilerplateScrap EXCEPT !.fenced = TRUE]
BoilerplateAllBlocks == {BoilerplateArticle, BoilerplateDense, BoilerplateIntro, BoilerplateScrap, BoilerplateMenu, BoilerplateShort, BoilerplateBadges, BoilerplateReferences, BoilerplateFence,
              BoilerplateTitled(1, FALSE), BoilerplateTitled(2, FALSE), BoilerplateTitled(1, TRUE), BoilerplateTitled(2, TRUE)}
Boilerplate == INSTANCE WebBoilerplate WITH
    Block <- BoilerplateAllBlocks, MaxBlocks <- 3, MinProse <- 8, MinIntro <- 1,
    MinLinks <- 3, MaxMenu <- 1,
    page <- v1, at <- v2, level <- v3, discarding <- v4, kept <- v5, done <- v6

PageReadingDeployedChain == <<"firecrawl", "docling">>
PageReading == INSTANCE PageReaders WITH
    Callers <- {"find", "keep", "file"}, Chain <- PageReadingDeployedChain,
    MaxBytes <- 4, MaxRedirects <- 3, MaxChunk <- 3,
    Resolutions <- {"public", "private", "none"}, Texts <- {"text", "empty"},
    pc <- v1, caller <- v2, reader <- v3, hop <- v4, vetted <- v5, requested <- v6,
    body <- v7, traffic <- v8, outcome <- v9, page <- v10, charges <- v11, rows <- v12

\* Two ingestors of one locator, three texts, and a share.
Ingest == INSTANCE Documents WITH
    None <- Nil,
    Ingestors <- {"i1", "i2"}, Rechunkers <- {}, Sharers <- {"s1"}, Texts <- {1, 2, 3},
    Metas <- {"m1"}, Into <- {"original"}, Moves <- {FALSE}, MaxCalls <- 3,
    MaxCrashes <- 0,
    row <- v1, spans <- v2, claims <- v3, born <- v4, tx <- v5, revision <- v6,
    rowlock <- v7, job <- v8, seen <- v9, kept <- v10, calls <- v11, crashes <- v12

\* Two shares, one of them a move, beside an ingestion.
Sharing == INSTANCE Documents WITH
    None <- Nil,
    Ingestors <- {"i1"}, Rechunkers <- {}, Sharers <- {"s1", "s2"}, Texts <- {1, 2},
    Metas <- {"m1"}, Into <- {"original"}, Moves <- {FALSE, TRUE}, MaxCalls <- 4,
    MaxCrashes <- 0,
    row <- v1, spans <- v2, claims <- v3, born <- v4, tx <- v5, revision <- v6,
    rowlock <- v7, job <- v8, seen <- v9, kept <- v10, calls <- v11, crashes <- v12

\* Three items, the last of which revises what the first says.
SessionApartSubject == <<"a", "b", "a">>
SessionApartText == <<"x", "y", "z">>
Session == INSTANCE SessionTier WITH
    Count <- 3, Workers <- {"w1", "w2"}, Subject <- SessionApartSubject,
    Text <- SessionApartText, Threshold <- 1, MaxCrashes <- 1,
    item <- v1, aged <- v2, doc <- v3, pending <- v4, jobs <- v5, phase <- v6,
    due <- v7, standing <- v8, crashes <- v9, said <- v10

\* Two overlapping shares in opposite order, a re-ingest, a third share.
\* Documents, artifacts and locators are numbers, so that keys of one family
\* sort by their number; each document has its own original, from a locator of
\* its own.
LockKeys == {"document", "artifact", "artifact_share", "fact"} \X (1..4)
LockRank ==
    [k \in LockKeys |->
       k[2] + (CASE k[1] = "artifact" -> 0 [] k[1] = "artifact_share" -> 10
                 [] k[1] = "document" -> 20 [] k[1] = "fact" -> 30)]
LockOwn == [d \in 1..4 |-> d]
LockCalls ==
    "t1" :> ShareCalls(<<1, 2>>, LockOwn, LockOwn)
    @@ "t2" :> ShareCalls(<<2, 1>>, LockOwn, LockOwn)
    @@ "t3" :> IngestCalls(<<1>>)
    @@ "t4" :> ShareCalls(<<3, 2>>, LockOwn, LockOwn)

\* What the theorem NoDeadlock asks of such calls: documents come before
\* artifacts, and the lock of an original in the target comes behind the
\* artifact's.
LockOrder ==
    [k \in LockKeys |-> k[2] + (CASE k[1] = "document" -> 0 [] k[1] = "artifact" -> 10
                                  [] k[1] = "artifact_share" -> 20 [] k[1] = "fact" -> 30)]
LockGuard == [k \in {"artifact_share"} \X (1..4) |-> <<"artifact", k[2]>>]
\* Graph writes, which take every slot of a chunk in one call.
SlotCalls ==
    "t1" :> WriteCalls({1, 2, 3}) @@ "t2" :> WriteCalls({2, 3, 4})
    @@ "t3" :> WriteCalls({1, 4}) @@ "t4" :> WriteCalls({1, 3})
Slots == INSTANCE CoordinationLocks WITH
    Transactions <- {"t1", "t2", "t3", "t4"}, LockKey <- LockKeys, Rank <- LockRank,
    Calls <- SlotCalls,
    held <- v1, stage <- v2

\* The theorems NoDeadlock and WaitsRise apply to these calls.
ASSUME CallsGuarded ==
    /\ GlobalOrder(LockOrder, LockKeys \ DOMAIN LockGuard) /\ Guarded(LockGuard)
    /\ Slots!GlobalOrder(LockRank, LockKeys)

\* One find over two searchers and two page readers.
EgressSearchers == <<"exa", "jina">>
EgressFetchers == <<"firecrawl", "docling">>
EgressSpend == "exa" :> 2 @@ "jina" :> 1 @@ "firecrawl" :> 1 @@ "docling" :> 1
Egress == INSTANCE WebEgress WITH
    Finds <- {"f1"}, Searchers <- EgressSearchers, Fetchers <- EgressFetchers,
    Spend <- EgressSpend, Pages <- 2, Allowance <- 6, Modes <- {"auto", "off", "force"},
    Faults <- {"deadline", "recorder", "store"},
    phase <- v1, call <- v2, at <- v3, reached <- v4, charged <- v5, outcome <- v6,
    ledger <- v7

\* Two finds that share one allowance.
SharedFinds == INSTANCE WebEgress WITH
    Finds <- {"f1", "f2"}, Searchers <- EgressSearchers, Fetchers <- <<"firecrawl">>,
    Spend <- EgressSpend, Pages <- 1, Allowance <- 4, Modes <- {"auto"},
    Faults <- {"deadline"},
    phase <- v1, call <- v2, at <- v3, reached <- v4, charged <- v5, outcome <- v6,
    ledger <- v7

\* Two calls and two workers.
\* Lengths are the code's: 32 + 1 + 16 characters of trace and span, the suffix
\* of a provider call after it, and a column of 64.
UsageSuffix == 1 + (10 + 1 + 3) + 1 + 1
Usage == INSTANCE UsageLedger WITH
    Calls <- {"c1", "c2"}, Steps <- [c \in {"c1", "c2"} |-> 0],
    StepLength <- UsageSuffix, RequestLength <- 49, Width <- 64, Attempts <- 2,
    MaxAttempts <- 2, Workers <- {"w1", "w2"},
    Faults <- {"enqueue", "reply", "crash", "reclaim", "database"},
    phase <- v1, step <- v2, attempt <- v3, job <- v4, tries <- v5, row <- v6,
    work <- v7, recorded <- v8

\* One worker and one text, for what must come about.
Swept == INSTANCE ArtifactLifecycle WITH
    Content <- {"r1"}, Worker <- {"w1"}, Text <- {"x1"}, Blob <- {"b1"},
    BlobOf <- ArtifactBlob, SweepPolicy <- {"web"}, Matches <- ArtifactMatches,
    DefaultPolicy <- converter, RechunkSweep <- rechunk, NoValue <- Nil,
    MaxAttempts <- 2, MaxFaults <- 1,
    state <- v1, markdown <- v2, policy <- v3, candidate <- v4, document <- v5,
    job <- v6, run <- v7, hand <- v8, offered <- v9, faults <- v10

\* One of each maintenance task.
Collected == INSTANCE ObjectStore WITH
    Key <- {"k1", "k2", "k3"}, BlobRow <- {"b1"}, Compactor <- {"p1"},
    Collector <- {"g1"}, Reader <- {"q1"}, NoKey <- Nil, MaxLevel <- 1,
    MaxStoreFaults <- 2, MaxSlow <- 1,
    object <- v1, pointer <- v2, level <- v3, retired <- v4, owner <- v5, intake <- v6,
    compact <- v7, collect <- v8, read <- v9, storeFaults <- v10, slow <- v11

\* One ingestor and one re-chunk.
Settling == INSTANCE Documents WITH
    None <- Nil,
    Ingestors <- {"i1"}, Rechunkers <- {"w1"}, Sharers <- {}, Texts <- {1, 2},
    Metas <- {"m1", "m2"}, Into <- {"original"}, Moves <- {}, MaxCalls <- 2,
    MaxCrashes <- 1,
    row <- v1, spans <- v2, claims <- v3, born <- v4, tx <- v5, revision <- v6,
    rowlock <- v7, job <- v8, seen <- v9, kept <- v10, calls <- v11, crashes <- v12

\* One promoter, which may die twice.
ReachingSubject == <<"a", "a", "b">>
ReachingText == <<"x", "y", "z">>
Reaching == INSTANCE SessionTier WITH
    Count <- 3, Workers <- {"w1"}, Subject <- ReachingSubject, Text <- ReachingText,
    Threshold <- 1, MaxCrashes <- 2,
    item <- v1, aged <- v2, doc <- v3, pending <- v4, jobs <- v5, phase <- v6,
    due <- v7, standing <- v8, crashes <- v9, said <- v10

\* Two recorded calls and two workers.
Booking == INSTANCE UsageLedger WITH
    Calls <- {"c1", "c2"}, Steps <- [c \in {"c1", "c2"} |-> 0],
    StepLength <- UsageSuffix, RequestLength <- 49, Width <- 64, Attempts <- 2,
    MaxAttempts <- 2, Workers <- {"w1", "w2"},
    Faults <- {"enqueue", "reply", "crash", "reclaim"},
    phase <- v1, step <- v2, attempt <- v3, job <- v4, tries <- v5, row <- v6,
    work <- v7, recorded <- v8

\* One find.
Finding == INSTANCE WebEgress WITH
    Finds <- {"f1"}, Searchers <- EgressSearchers, Fetchers <- EgressFetchers,
    Spend <- EgressSpend, Pages <- 1, Allowance <- 4, Modes <- {"auto", "force"},
    Faults <- {"deadline", "recorder", "store"},
    phase <- v1, call <- v2, at <- v3, reached <- v4, charged <- v5, outcome <- v6,
    ledger <- v7

\* What the components ask of their constants, and the proofs start from.
ASSUME PartsAssumption ==
    /\ PoliciesAssumption /\ BoundsAssumption /\ StoreAssumption
    /\ UploadsAssumption /\ Uploading!UploadsAssumption /\ Targets!UploadsAssumption
    /\ Lanes!LaneAssumption /\ Boilerplate!CleanerAssumption
    /\ PageReading!ReaderAssumption /\ Ingest!DocumentsAssumption
    /\ Sharing!DocumentsAssumption /\ Session!SessionAssumption /\ LocksAssumption
    /\ Slots!LocksAssumption /\ Egress!WebAssumption /\ SharedFinds!WebAssumption
    /\ Usage!LedgerAssumption /\ Swept!PoliciesAssumption /\ Swept!BoundsAssumption
    /\ Collected!StoreAssumption /\ Settling!DocumentsAssumption
    /\ Reaching!SessionAssumption /\ Booking!LedgerAssumption
    /\ Finding!WebAssumption
-----------------------------------------------------------------------------
\* The components of this module itself rest in the other parts.
Init ==
    /\ part \in Exercised
    /\ ArtifactInit
    /\ StoreInit
    /\ UploadInit
    /\ LockInit
    /\ \/ /\ part \in {"artifact", "store", "grants", "locks"}
          /\ v1 = 0 /\ v2 = 0 /\ v3 = 0 /\ v4 = 0 /\ v5 = 0 /\ v6 = 0 /\ v7 = 0 /\ v8 = 0 /\ v9 = 0 /\ v10 = 0
          /\ v11 = 0 /\ v12 = 0
       \/ /\ part = "allowance" /\ Uploading!UploadInit
          /\ v8 = 0 /\ v9 = 0 /\ v10 = 0 /\ v11 = 0 /\ v12 = 0
       \/ /\ part = "targets" /\ Targets!UploadInit
          /\ v8 = 0 /\ v9 = 0 /\ v10 = 0 /\ v11 = 0 /\ v12 = 0
       \/ /\ part = "lanes" /\ Lanes!Init
       \/ /\ part = "boilerplate" /\ Boilerplate!Init
          /\ v7 = 0 /\ v8 = 0 /\ v9 = 0 /\ v10 = 0 /\ v11 = 0 /\ v12 = 0
       \/ /\ part = "pages" /\ PageReading!Init
       \/ /\ part = "ingest" /\ Ingest!Init
       \/ /\ part = "share" /\ Sharing!Init
       \/ /\ part = "session" /\ Session!Init
          /\ v11 = 0 /\ v12 = 0
       \/ /\ part = "slots" /\ Slots!LockInit
          /\ v3 = 0 /\ v4 = 0 /\ v5 = 0 /\ v6 = 0 /\ v7 = 0 /\ v8 = 0 /\ v9 = 0 /\ v10 = 0 /\ v11 = 0 /\ v12 = 0
       \/ /\ part = "egress" /\ Egress!Init
          /\ v8 = 0 /\ v9 = 0 /\ v10 = 0 /\ v11 = 0 /\ v12 = 0
       \/ /\ part = "finds" /\ SharedFinds!Init
          /\ v8 = 0 /\ v9 = 0 /\ v10 = 0 /\ v11 = 0 /\ v12 = 0
       \/ /\ part = "usage" /\ Usage!Init
          /\ v9 = 0 /\ v10 = 0 /\ v11 = 0 /\ v12 = 0
       \/ /\ part = "sweeps" /\ Swept!ArtifactInit
          /\ v11 = 0 /\ v12 = 0
       \/ /\ part = "collected" /\ Collected!StoreInit
          /\ v12 = 0
       \/ /\ part = "settle" /\ Settling!Init
       \/ /\ part = "reaches" /\ Reaching!Init
          /\ v11 = 0 /\ v12 = 0
       \/ /\ part = "ledger" /\ Booking!Init
          /\ v9 = 0 /\ v10 = 0 /\ v11 = 0 /\ v12 = 0
       \/ /\ part = "returns" /\ Finding!Init
          /\ v8 = 0 /\ v9 = 0 /\ v10 = 0 /\ v11 = 0 /\ v12 = 0

Resting == UNCHANGED <<part, artifactVars, storeVars, uploadVars, lockVars>>
ArtifactRest == part = "artifact" /\ UNCHANGED <<part, bank, storeVars, uploadVars, lockVars>>
StoreRest == part = "store" /\ UNCHANGED <<part, bank, artifactVars, uploadVars, lockVars>>
TicketsRest == part = "grants" /\ UNCHANGED <<part, bank, artifactVars, storeVars, lockVars>>
LocksRest == part = "locks" /\ UNCHANGED <<part, bank, artifactVars, storeVars, uploadVars>>
UploadingRest == part = "allowance" /\ Resting /\ UNCHANGED <<v8, v9, v10, v11, v12>>
TargetsRest == part = "targets" /\ Resting /\ UNCHANGED <<v8, v9, v10, v11, v12>>
LanesRest == part = "lanes" /\ Resting
BoilerplateRest == part = "boilerplate" /\ Resting /\ UNCHANGED <<v7, v8, v9, v10, v11,
                                                      v12>>
PageReadingRest == part = "pages" /\ Resting
IngestRest == part = "ingest" /\ Resting
SharingRest == part = "share" /\ Resting
SessionRest == part = "session" /\ Resting /\ UNCHANGED <<v11, v12>>
SlotsRest == part = "slots" /\ Resting /\ UNCHANGED <<v3, v4, v5, v6, v7, v8, v9, v10,
                                          v11, v12>>
EgressRest == part = "egress" /\ Resting /\ UNCHANGED <<v8, v9, v10, v11, v12>>
SharedFindsRest == part = "finds" /\ Resting /\ UNCHANGED <<v8, v9, v10, v11, v12>>
UsageRest == part = "usage" /\ Resting /\ UNCHANGED <<v9, v10, v11, v12>>
SweptRest == part = "sweeps" /\ Resting /\ UNCHANGED <<v11, v12>>
CollectedRest == part = "collected" /\ Resting /\ UNCHANGED <<v12>>
SettlingRest == part = "settle" /\ Resting
ReachingRest == part = "reaches" /\ Resting /\ UNCHANGED <<v11, v12>>
BookingRest == part = "ledger" /\ Resting /\ UNCHANGED <<v9, v10, v11, v12>>
FindingRest == part = "returns" /\ Resting /\ UNCHANGED <<v8, v9, v10, v11, v12>>

ArtifactStep == ArtifactRest /\ ArtifactNext
StoreStep == StoreRest /\ StoreNext
TicketsStep == TicketsRest /\ UploadNext
UploadingStep == UploadingRest /\ Uploading!UploadNext
TargetsStep == TargetsRest /\ Targets!UploadNext
LanesStep == LanesRest /\ Lanes!Next
BoilerplateStep == BoilerplateRest /\ Boilerplate!Next
PageReadingStep == PageReadingRest /\ PageReading!Next
IngestStep == IngestRest /\ Ingest!Next
SharingStep == SharingRest /\ Sharing!Next
SessionStep == SessionRest /\ Session!Next
LocksStep == LocksRest /\ LockNext
SlotsStep == SlotsRest /\ Slots!LockNext
EgressStep == EgressRest /\ Egress!Next
SharedFindsStep == SharedFindsRest /\ SharedFinds!Next
UsageStep == UsageRest /\ Usage!Next
SweptStep == SweptRest /\ Swept!ArtifactNext
CollectedStep == CollectedRest /\ Collected!StoreNext
SettlingStep == SettlingRest /\ Settling!Next
ReachingStep == ReachingRest /\ Reaching!Next
BookingStep == BookingRest /\ Booking!Next
FindingStep == FindingRest /\ Finding!Next

Next == ArtifactStep \/ StoreStep \/ TicketsStep \/ UploadingStep \/ TargetsStep \/
        LanesStep \/ BoilerplateStep \/ PageReadingStep \/ IngestStep \/ SharingStep
        \/ SessionStep \/ LocksStep \/ SlotsStep \/ EgressStep \/ SharedFindsStep \/
        UsageStep \/ SweptStep \/ CollectedStep \/ SettlingStep \/ ReachingStep \/
        BookingStep \/ FindingStep
Spec == Init /\ [][Next]_vars
-----------------------------------------------------------------------------
(* Each part keeps its type.                                              *)
TypeOK ==
    /\ part = "artifact" => ArtifactTypeOK
    /\ part = "store" => StoreTypeOK
    /\ part = "grants" => UploadTypeOK
    /\ part = "allowance" => Uploading!UploadTypeOK
    /\ part = "targets" => Targets!UploadTypeOK
    /\ part = "lanes" => Lanes!TypeOK
    /\ part = "boilerplate" => Boilerplate!TypeOK
    /\ part = "pages" => PageReading!TypeOK
    /\ part = "ingest" => Ingest!TypeOK
    /\ part = "share" => Sharing!TypeOK
    /\ part = "session" => Session!TypeOK
    /\ part = "locks" => LockTypeOK
    /\ part = "slots" => Slots!LockTypeOK
    /\ part = "egress" => Egress!TypeOK
    /\ part = "finds" => SharedFinds!TypeOK
    /\ part = "usage" => Usage!TypeOK

\* Through ingestions of several writers a document keeps the spans of one text,
\* its own; a share leaves in the copy what the source holds when it publishes,
\* and a move retires an original only while its copy says the same.  What a
\* session kept is promoted only when due, a document of its subject takes over,
\* and the last thing kept of a subject has reached it.
DocumentsStand ==
    /\ [](/\ part = "ingest" => Ingest!SpansMatchText
          /\ part = "session" => /\ Session!FoundSomewhere
                                 /\ Session!OnlyDuePromoted
                                 /\ Session!NewestStood)
    /\ [][(/\ part = "share" => /\ Sharing!CarriesTheSource
                                /\ Sharing!MoveLands)]_vars

\* A converter that hangs or overruns leaves nothing behind and answers only
\* its own question; cleaning takes only chrome; what a page reader fetches is
\* bounded and vetted.
ConversionKeeps ==
    /\ [](/\ part = "lanes" => /\ Lanes!NothingLeftRunning
                               /\ Lanes!EachItsOwn
                               /\ Lanes!LeavesOnce
                               /\ Lanes!LadderHeld
          /\ part = "boilerplate" => /\ Boilerplate!OnlyChromeGoes
                                     /\ Boilerplate!NoEmptySection
                                     /\ Boilerplate!IndexSurvives
          /\ part = "pages" => /\ PageReading!BoundedBytes
                               /\ PageReading!HopsVetted
                               /\ PageReading!WireSizes)

\* What was granted, stored, spent and recorded agrees: the bytes kept for a
\* target with its allowance, addresses with the cap, captures with the ledger,
\* waiting locks with their order.  The spending of a find agrees with its
\* receipt and its rows, but for one a deadline or an error cut: that one may
\* have paid for one call that neither tells.
AccountsReconcile ==
    /\ [](/\ part = "grants" => CapHolds
          /\ part = "allowance" => /\ Uploading!ObjectsReconcile
                                   /\ Uploading!TargetAllowanceHolds
          /\ part = "targets" => Targets!TargetAllowanceHolds
          /\ part = "egress" => /\ Egress!ReceiptTells
                                /\ Egress!OnlySanctionedLeave
                                /\ Egress!LedgerReconciles
          /\ part = "finds" => /\ SharedFinds!PaidBefore
                               /\ SharedFinds!ReceiptTells
                               /\ SharedFinds!LedgerReconciles
          /\ part = "usage" => /\ Usage!DurableBeforeReply
                               /\ Usage!OneRow
          /\ part = "slots" => /\ Slots!NoCircularWait
                               /\ Slots!KeysRise)

-----------------------------------------------------------------------------
(***************************************************************************)
(* Progress.  Jobs are claimed, handlers return or die, leases and grace      *)
(* periods run out, and a coroutine whose database call returned goes on:     *)
(* these are weakly fair.                                                     *)
(***************************************************************************)
SweptFairness ==
    /\ WF_vars(SweptRest /\ Swept!DispatchReads)
    /\ \A h \in Swept!Hand, c \in {"r1"} : WF_vars(SweptRest /\ Swept!Handoff(h, c))
    /\ WF_vars(SweptRest /\ Swept!Claim("w1", "r1"))
    /\ WF_vars(SweptRest /\ Swept!Process("w1"))
    /\ WF_vars(SweptRest /\ Swept!LeaseExpires("r1"))
    /\ \A s \in Swept!Sweeper : WF_vars(SweptRest /\ Swept!SweepEnqueues(s, "r1"))

CollectedFairness ==
    /\ \A k \in {"k1", "k2", "k3"} :
         /\ WF_vars(CollectedRest /\ Collected!GraceElapses(k))
         /\ WF_vars(CollectedRest /\ Collected!LeaseElapses(k))
    /\ WF_vars(CollectedRest
                 /\ (\/ Collected!Leases("g1") \/ Collected!Collects("g1")
                     \/ Collected!Forgets("g1")
                     \/ \E k \in {"k1", "k2", "k3"} : Collected!Takes("g1", k)))
    /\ WF_vars(CollectedRest /\ (Collected!Gets("q1") \/ Collected!Misses("q1")))

SettlingFairness ==
    /\ \A i \in Settling!SpanIds :
         /\ WF_vars(SettlingRest /\ (Settling!StartProjection(i) \/ Settling!FinishProjection(i)))
         /\ WF_vars(SettlingRest /\ Settling!Sweep(i))
    /\ \A t \in Settling!Writers :
         WF_vars(SettlingRest /\ (Settling!Drop(t) \/ Settling!Commit(t) \/ Settling!Publish(t)))

\* Time passes, the fifteen-minute schedule starts promotions, the sweep runs.
ReachingFairness ==
    /\ \A i \in Reaching!Items : WF_vars(ReachingRest /\ Reaching!Age(i))
    /\ WF_vars(ReachingRest /\ Reaching!Promote("w1"))
    /\ WF_vars(ReachingRest /\ Reaching!Dispatch)
    /\ \A s \in Reaching!Subjects : WF_vars(ReachingRest /\ Reaching!Project(s))

\* A model or a provider may hang; the service's own steps and its timer go on.
FindingFairness ==
    /\ WF_vars(FindingRest /\ Finding!Own("f1")) /\ WF_vars(FindingRest /\ Finding!TimeOut("f1"))

LocksFairness == \A t \in Transactions : WF_vars(LocksRest /\ Step(t))

LiveSpec ==
    Spec /\ SweptFairness /\ CollectedFairness /\ SettlingFairness
    /\ ReachingFairness /\ FindingFairness /\ LocksFairness

\* docs/dev/write/boilerplate.mdx: "A boilerplate policy change is a sweep, not
\* a per-original decision": a sweep reconverts what it has to and then rests,
\* whatever dies in between.
SweepsQuiesce ==
    \A s \in Swept!Sweeper : <>[](part = "sweeps" => ~Swept!Reconverts(s, "r1"))

\* docs/dev/write/artifacts.mdx, the state machine: from queued a revision is
\* picked.
QueuedIsPicked ==
    (part = "sweeps" /\ Swept!IsQueued("r1"))
      ~> (part = "sweeps" /\ ~Swept!IsQueued("r1"))

\* extract/ingest.py:185: a newer text is committed into a document that stands,
\* never into one a move retired meanwhile.
NewerStands == [][part = "share" => Sharing!NewerNotRetired]_vars

\* No accounting job of an operation ends as a held failure while the database
\* is well: every capture is a row the ledger can take.
NothingHeld == [](part = "ledger" => Booking!NothingHeld)

\* Workers keep claiming and finishing; between two crashes a handler of one
\* insert gets through.
WorkersGetThrough ==
    /\ SF_vars(BookingRest /\ \E w \in {"w1", "w2"}, k \in Booking!Keys : Booking!Pick(w, k))
    /\ SF_vars(BookingRest /\ \E w \in {"w1", "w2"} : Booking!Insert(w))
    /\ SF_vars(BookingRest /\ \E w \in {"w1", "w2"} : Booking!Ack(w))

(***************************************************************************)
(* What was begun and is not through: an original that was accepted and not   *)
(* dispatched, a layout that was replaced and is still in the bucket, a       *)
(* stored span that is neither projected nor gone, an item kept in a session  *)
(* that is not in the graph, a capture the recorder admitted that is not in   *)
(* the ledger, a find that did not return, a transaction that takes           *)
(* coordination locks and did not end.                                        *)
(***************************************************************************)
Unfinished ==
    \/ part = "sweeps" /\ Swept!IsPending("r1")
    \/ part = "collected" /\ \E k \in {"k1", "k2", "k3"} : Collected!IsRetired(k)
    \/ part = "settle" /\ \E i \in Settling!SpanIds : Settling!Pending(i)
    \/ part = "reaches" /\ \E i \in Reaching!Items : Reaching!IsKept(i)
    \/ part = "ledger" /\ \E k \in Booking!Keys : Booking!Admitted(k) /\ ~Booking!Booked(k)
    \/ part = "returns" /\ Finding!Searching("f1")
    \/ part = "locks" /\ \E t \in Transactions : IsOpen(t)

\* What was accepted comes through, though workers die with it, hand-offs are lost
\* and documents are written again meanwhile: each part has finitely much to do,
\* and again and again nothing of it is left open.
IntakeProceeds ==
    /\ NothingHeld
    /\ WorkersGetThrough => []<>~Unfinished
=============================================================================
