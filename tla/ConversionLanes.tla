--------------------------- MODULE ConversionLanes ---------------------------
(***************************************************************************)
(* What one attempt to convert a new original does between "processing"    *)
(* and its outcome: the lanes of ConversionRouter (LiteParse, Pandoc, text,*)
(* image, Docling as a subprocess or as a service), the verdict read from  *)
(* the answer, and the captions of the figures in the Markdown, asked of a *)
(* ladder of vision models with retries.  The queue repeats a raised       *)
(* attempt until its limit and then holds the job.  An attempt may be      *)
(* cancelled at any await, when a heartbeat of its worker's batch fails;   *)
(* the lease of its row runs out, and the row is taken again.              *)
(*                                                                         *)
(* Markdown is the sequence of its figures: what surrounds them does not   *)
(* change.  A converter may answer any Page of the original's media type.  *)
(***************************************************************************)
EXTENDS Naturals, Sequences

CONSTANTS
  Image,     \* bytes of images
  Large,     \* those over caption_image_byte_limit
  Page,      \* [media, figures]: originals, by the figures in their Markdown
  Models,    \* caption_models, a sequence
  Attempts,  \* caption_max_attempts
  OneShot,   \* docling_artifacts_path is set: Docling runs as a subprocess
  Captions,  \* caption_enabled
  MaxTries   \* QueueJob.max_attempts, and the bound of cancelled attempts

Media == {"pdf", "office", "text", "image", "other"}
Form == {"raster", "svg", "garbled", "odd"}   \* odd: matched by no pattern
Answer == {"caption", "empty", "network", "busy", "missing", "refused"}

LaneAssumption ==
  /\ Large \subseteq Image
  /\ Page \subseteq [media: Media, figures: Seq([form: Form, image: Image])]
  /\ Models # <<>> /\ Attempts \in Nat \ {0} /\ MaxTries \in Nat \ {0}
  /\ OneShot \in BOOLEAN /\ Captions \in BOOLEAN

VARIABLES
  page,     \* the original
  pc,       \* where the attempt stands
  process,  \* the Pandoc or Docling subprocess of each attempt
  scratch,  \* the TemporaryDirectory of the Docling lane exists
  words,    \* what replaces each figure treated so far: the image described, or "alt"
  cached,   \* images described in this attempt
  ask,      \* [model, attempt] of the caption request to make next
  calls,    \* caption requests of this attempt and how they were answered
  tries,    \* attempts of the queue's job
  state,    \* ArtifactContent.state
  note,     \* the artifact's Document
  cut       \* attempts that were cancelled

laneVars == <<process, scratch, cut>>
figureVars == <<words, cached, ask, calls>>
vars == <<page, pc, laneVars, figureVars, tries, state, note>>

First == [model |-> 1, attempt |-> 1]
Waiting == {"queued", "held", "done"}
AtWork == {"route", "inspect", "parse", "decode", "spawn", "run", "post", "figures", "caption",
           "index"}

TypeOK ==
  /\ page \in Page
  /\ pc \in Waiting \cup AtWork
  /\ process \in [1..MaxTries -> {"none", "running", "exited", "killed"}]
  /\ cut \subseteq 1..MaxTries
  /\ scratch \in BOOLEAN
  /\ Len(words) <= Len(page.figures) + 1
  /\ \A i \in 1..Len(words) : words[i] \in Image \cup {"alt"}
  /\ cached \subseteq Image
  /\ ask \in [model: 1..Len(Models), attempt: 1..Attempts]
  /\ \A n \in 1..Len(calls) :
       calls[n] \in [image: Image, model: 1..Len(Models), answer: Answer]
  /\ tries \in 0..MaxTries
  /\ state \in {"queued", "processing", "ready", "failed", "unreadable"}
  /\ note \in {"none", "metadata", "text"}

Init ==
  /\ page \in Page
  /\ pc = "queued" /\ process = [n \in 1..MaxTries |-> "none"] /\ scratch = FALSE /\ cut = {}
  /\ words = <<>> /\ cached = {} /\ ask = First /\ calls = <<>>
  /\ tries = 0 /\ state = "queued" /\ note = "none"

-----------------------------------------------------------------------------
(* How an attempt ends.                                                    *)

\* The queue repeats a raised job until max_attempts and then holds it.
Requeued == pc' = IF tries < MaxTries THEN "queued" ELSE "held"

\* The except clause of process: `failed`, then the error goes on.
Raises ==
  /\ state' = "failed"
  /\ Requeued
  /\ UNCHANGED <<page, figureVars, tries, note>>

\* An error the clause does not list, httpx.RequestError of the service.
Escapes ==
  /\ Requeued
  /\ UNCHANGED <<page, figureVars, tries, state, note>>

\* ArtifactProcessor.reject: a metadata-only document and the verdict.
Rejects(verdict) ==
  /\ note' = "metadata"
  /\ state' = verdict
  /\ pc' = "done"
  /\ UNCHANGED <<page, figureVars, tries>>

Continues(step) ==
  /\ pc' = step
  /\ UNCHANGED <<page, figureVars, tries, state, note>>

Still == UNCHANGED laneVars

-----------------------------------------------------------------------------
(* ConversionRouter.convert and its lanes.                                 *)

Begin ==
  /\ pc = "queued"
  /\ pc' = "route" /\ tries' = tries + 1 /\ state' = "processing"
  /\ words' = <<>> /\ cached' = {} /\ ask' = First /\ calls' = <<>>
  /\ UNCHANGED <<page, laneVars, note>>

Heavy == IF OneShot THEN "spawn" ELSE "post"

Route ==
  /\ pc = "route"
  /\ Continues(CASE page.media = "pdf" -> "inspect"
                 [] page.media = "office" -> "spawn"
                 [] page.media = "text" -> "decode"
                 [] page.media = "image" -> "figures"
                 [] OTHER -> Heavy)
  /\ Still

\* LiteParseConverter.inspect: a complex or unreadable PDF goes to Docling.
Inspects ==
  /\ pc = "inspect"
  /\ \E simple \in BOOLEAN : Continues(IF simple THEN "parse" ELSE Heavy)
  /\ Still

\* LiteParse and the UTF-8 decoder answer or raise.
Reads ==
  /\ pc \in {"parse", "decode"}
  /\ \E good \in BOOLEAN : IF good THEN Continues("figures") ELSE Raises
  /\ Still

\* create_subprocess_exec.  Docling gets a directory of its own, which is
\* gone however its block ends.
Docling == page.media # "office"
Becomes(n, status) == process' = [process EXCEPT ![n] = status]
Spawns ==
  /\ pc = "spawn"
  /\ \/ /\ Becomes(tries, "running") /\ scratch' = Docling /\ UNCHANGED cut
        /\ Continues("run")
     \/ /\ UNCHANGED laneVars
        /\ Raises

\* communicate returns: a zero code with output, or any error of the lane.
Exits ==
  /\ pc = "run"
  /\ Becomes(tries, "exited") /\ scratch' = FALSE /\ UNCHANGED cut
  /\ \E good \in BOOLEAN : IF good THEN Continues("figures") ELSE Raises

TimesOut ==
  /\ pc = "run"
  /\ Becomes(tries, "killed") /\ scratch' = FALSE /\ UNCHANGED cut
  /\ Raises

\* Cancelled: Docling's directory goes with its block; a process that is being
\* waited for is not killed, since only TimeoutError is caught.  The state
\* stays, and the row is taken again when its lease is over.
Cancelled ==
  /\ pc \in AtWork /\ tries < MaxTries
  /\ pc' = "queued"
  /\ scratch' = FALSE /\ cut' = cut \cup {tries}
  /\ UNCHANGED <<page, process, figureVars, tries, state, note>>

\* A process nobody waits for ends by itself, or never.
Expires(n) ==
  /\ n \in cut /\ process[n] = "running"
  /\ Becomes(n, "exited")
  /\ UNCHANGED <<page, pc, scratch, cut, figureVars, tries, state, note>>

\* DoclingClient.convert and DoclingOutput.from_response.
Posts ==
  /\ pc = "post"
  /\ \/ Continues("figures")        \* success or partial_success
     \/ Rejects("unreadable")       \* an error of category `policy`
     \/ Rejects("failed")           \* skipped, failure, or no Markdown
     \/ Raises                      \* HTTPStatusError
     \/ Escapes                     \* RequestError
  /\ Still

-----------------------------------------------------------------------------
(* ImageDescriptionEnricher.enrich and OpenRouterImageCaptioner.caption.   *)

\* The figures to treat: those of the Markdown, or the original itself.
Figures == IF page.media = "image" THEN <<[form |-> "raster", image |-> page.figures[1].image]>>
           ELSE page.figures
Here == Figures[Len(words) + 1]
Odd == \E i \in 1..Len(Figures) : Figures[i].form = "odd"

Known(image) == image

Described(image) ==
  /\ words' = Append(words, Known(image))
  /\ cached' = cached \cup {image}
  /\ ask' = First

\* Without captions the Markdown has placeholders, nothing to describe.  Image
\* data that no pattern matched fails the attempt once the rest is described.
Finishes ==
  /\ pc = "figures"
  /\ ~ Captions \/ Len(words) = Len(Figures)
  /\ IF Captions /\ Odd THEN Raises ELSE Continues("index")
  /\ Still

\* An svg becomes its alternative text, what no pattern matches stays, and a
\* figure described before is not asked for again.
Skips ==
  /\ pc = "figures" /\ Captions /\ Len(words) < Len(Figures)
  /\ \/ /\ Here.form \in {"svg", "odd"}
        /\ words' = Append(words, "alt")
     \/ /\ Here.form = "raster" /\ Here.image \in cached
        /\ words' = Append(words, Known(Here.image))
  /\ UNCHANGED <<page, pc, laneVars, cached, ask, calls, tries, state, note>>

TooLarge(image) == image \in Large
Declines ==
  /\ pc = "figures" /\ Captions /\ Len(words) < Len(Figures)
  /\ \/ Here.form = "garbled"
     \/ Here.form = "raster" /\ Here.image \notin cached /\ TooLarge(Here.image)
  /\ Raises
  /\ Still

Describes ==
  /\ pc = "figures" /\ Captions /\ Len(words) < Len(Figures)
  /\ Here.form = "raster" /\ Here.image \notin cached /\ ~ TooLarge(Here.image)
  /\ Continues("caption")
  /\ Still

FollowsUp(answer) ==
  CASE answer = "caption" -> "done"
    [] answer = "refused" -> "error"
    [] answer = "missing" -> "next"
    [] OTHER -> IF ask.attempt < Attempts THEN "again" ELSE "next"

Asks(answer) ==
  LET then == FollowsUp(answer)
      last == ask.model = Len(Models)
  IN
  /\ pc = "caption"
  /\ calls' = Append(calls, [image |-> Here.image, model |-> ask.model, answer |-> answer])
  /\ CASE then = "done" -> Described(Here.image) /\ pc' = "figures" /\ UNCHANGED state
       [] then = "again" -> /\ ask' = [ask EXCEPT !.attempt = @ + 1]
                            /\ UNCHANGED <<words, cached, pc, state>>
       [] then = "next" /\ ~ last -> /\ ask' = [model |-> ask.model + 1, attempt |-> 1]
                                     /\ UNCHANGED <<words, cached, pc, state>>
       [] OTHER -> /\ state' = "failed" /\ Requeued
                   /\ UNCHANGED <<words, cached, ask>>
  /\ UNCHANGED <<page, laneVars, tries, note>>

\* index, promote_candidate and set_state.
Indexes ==
  /\ pc = "index"
  /\ note' = "text" /\ state' = "ready" /\ pc' = "done"
  /\ UNCHANGED <<page, laneVars, figureVars, tries>>

Prompt ==
  \/ Begin \/ Route \/ Inspects \/ Reads \/ Spawns \/ TimesOut \/ Posts
  \/ Finishes \/ Skips \/ Declines \/ Describes \/ Indexes
  \/ \E answer \in Answer : Asks(answer)

Next == Prompt \/ Exits \/ Cancelled \/ \E n \in 1..MaxTries : Expires(n)

Spec == Init /\ [][Next]_vars

-----------------------------------------------------------------------------
(* Properties.                                                             *)

\* No Pandoc or Docling process outlives the attempt that started it, however
\* that ends short of being cancelled (converter.py: "a process whose memory
\* dies with the job"), and Docling's directory outlives none.
NothingLeftRunning ==
  /\ \A n \in 1..MaxTries :
       process[n] = "running" => (pc = "run" /\ n = tries) \/ n \in cut
  /\ scratch => pc = "run"

\* A document that becomes ready with captions on has every figure replaced
\* by the description of its own bytes, or by its own alternative text, and
\* no image data left.
EachItsOwn ==
  pc = "done" /\ state = "ready" /\ Captions =>
    /\ Len(words) = Len(Figures)
    /\ \A i \in 1..Len(Figures) :
         \/ Figures[i].form = "raster" /\ words[i] = Figures[i].image
         \/ Figures[i].form = "svg" /\ words[i] = "alt"

\* An image leaves the deployment at most once successfully in an attempt, and
\* never over the byte limit, whichever figures share its bytes.
LeavesOnce ==
  /\ \A n \in 1..Len(calls) : calls[n].image \notin Large
  /\ \A n, m \in 1..Len(calls) :
       n < m /\ calls[n].answer = "caption" => calls[m].image # calls[n].image

\* The ladder: a model is asked at most Attempts times for an image, the next
\* one only when the last answer said 404 or the attempts are spent, and
\* nothing is asked after a refusal.
LadderHeld ==
  /\ \A n \in 1..Len(calls) : calls[n].answer = "refused" => n = Len(calls)
  /\ \A n \in 1..(Len(calls) - 1) :
       LET here == calls[n]
           then == calls[n + 1]
           spent == {m \in 1..n : calls[m].image = here.image /\ calls[m].model = here.model}
       IN
       here.image = then.image =>
         \/ /\ then.model = here.model
            /\ here.answer \in {"busy", "network", "empty"}
            /\ n + 1 - Attempts \notin spent
         \/ /\ then.model = here.model + 1
            /\ here.answer = "missing" \/ n + 1 - Attempts \in spent
=============================================================================
