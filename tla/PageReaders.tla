---------------------------- MODULE PageReaders ----------------------------
(***************************************************************************)
(* How one source is read into bounded bytes, and one page into Markdown   *)
(* (src/aizk/integrations/docling/client.py and models.py,                 *)
(* src/aizk/integrations/web/providers.py, WebSearch.fetch).  A find walks *)
(* its chain of page readers, Firecrawl before the house reader: each is   *)
(* charged before it is asked and accounted after it answered or failed.   *)
(* A keep reads a URI and a staged file is read from disk.                 *)
(*                                                                         *)
(* The network is any network: a host may not resolve or resolve to a      *)
(* private address, a server redirects, refuses, lies about its length or  *)
(* breaks off, a file changes after it was measured.                       *)
(***************************************************************************)
EXTENDS Naturals, Sequences, FiniteSets, Functions

CONSTANTS
    Callers,       \* subset of {"find", "keep", "file"}
    Chain,         \* the page readers of a find, in preference order
    MaxBytes,      \* artifact_max_bytes
    MaxRedirects,
    MaxChunk,      \* bound: the bytes one network chunk brings
    Resolutions,   \* what DNS may say: subset of {"public", "private", "none"}
    Texts          \* what a conversion yields: subset of {"text", "empty"}

ReaderAssumption ==
    /\ MaxBytes \in Nat /\ MaxRedirects \in Nat /\ MaxChunk \in Nat \ {0}
    /\ Resolutions \subseteq {"public", "private", "none"}

VARIABLES
    pc,          \* the await the call is at
    caller,
    reader,      \* position in the chain
    hop,         \* redirects followed
    vetted,      \* hops whose host was checked
    requested,   \* hops a request was sent to
    body,        \* bytes read so far
    traffic,     \* the response bytes of the reader's call
    outcome,     \* what the call ended with
    page,        \* what the reader made of it, until that is accounted
    charges,     \* fetches charged to the month
    rows         \* the ledger: a reader and its bytes for each fetch

network == <<hop, vetted, requested>>
ledger == <<charges, rows>>
vars == <<pc, caller, reader, network, body, traffic, outcome, page, ledger>>

Pending == "pending"
Unread == "unread"             \* ProviderUnavailable
Escapes == "escapes"           \* any other exception
Outcomes == {Pending, "page", "blank", "bytes", "refused", "none", Escapes}

TypeOK ==
    /\ pc \in {"start", "charge", "ask", "vet", "request", "collect", "convert", "account",
             "stat", "read", "done"}
    /\ caller \in Callers
    /\ reader \in 1..Len(Chain) + 1
    /\ hop \in 0..MaxRedirects
    /\ vetted \subseteq 0..MaxRedirects /\ requested \subseteq 0..MaxRedirects
    /\ body \in 0..MaxBytes + MaxChunk
    /\ traffic \in 0..MaxBytes + MaxChunk
    /\ outcome \in Outcomes /\ (outcome = Pending <=> pc # "done")
    /\ page \in {Unread, "page", "blank"}
    /\ charges \in 0..Len(Chain)
    /\ rows \in Seq([reader : Range(Chain), bytes : 0..MaxBytes + MaxChunk])

Init ==
    /\ pc = "start" /\ caller \in Callers
    /\ reader = 1 /\ hop = 0
    /\ vetted = {} /\ requested = {}
    /\ body = 0 /\ traffic = 0
    /\ outcome = Pending /\ page = Unread
    /\ charges = 0 /\ rows = <<>>

Ends(with) == pc' = "done" /\ outcome' = with

Start ==
    /\ pc = "start"
    /\ pc' = [find |-> "charge", keep |-> "vet", file |-> "stat"][caller]
    /\ UNCHANGED <<caller, reader, network, body, traffic, outcome, page, ledger>>

\* Each reader of the chain is charged before it is asked.  A find that ran
\* out of readers or of the month's allowance renders the search row.
ChargeFetch ==
    /\ pc = "charge"
    /\ \/ reader <= Len(Chain) /\ charges' = charges + 1 /\ pc' = "ask" /\ UNCHANGED outcome
       \/ Ends("none") /\ UNCHANGED charges
    /\ UNCHANGED <<caller, reader, network, body, traffic, page, rows>>

\* A fetch in the ledger, with the response bytes its reader measured.
Row == [reader |-> Chain[reader], bytes |-> traffic]

\* The reader is through: with a page, or with ProviderUnavailable.
Answers(with) == pc' = "account" /\ page' = with /\ UNCHANGED outcome

\* The fetch gets its row, and a page is returned.  Without one the next reader
\* starts from nothing.
AccountFetch ==
    /\ pc = "account"
    /\ rows' = Append(rows, Row)
    /\ IF page = Unread
       THEN /\ reader' = reader + 1 /\ pc' = "charge"
            /\ hop' = 0 /\ vetted' = {} /\ requested' = {} /\ body' = 0 /\ traffic' = 0
            /\ UNCHANGED outcome
       ELSE Ends(page) /\ UNCHANGED <<reader, network, body, traffic>>
    /\ UNCHANGED <<caller, page, charges>>

\* An exception the house reader names becomes ProviderUnavailable, and
\* nothing is measured; a keep reports it.
Refuse == IF caller = "find" THEN Answers(Unread) ELSE Ends("refused") /\ UNCHANGED page

\* A reply is measured whatever becomes of it: a refusal, an unparsable body
\* and an empty text are all the same event, as is no reply.
FetchJson ==
    \/ /\ \E size \in 0..MaxBytes + 1 : traffic' = size /\ body' = size
       /\ Answers("page") \/ Answers(Unread)
    \/ Answers(Unread) /\ UNCHANGED <<traffic, body>>

AskFirecrawl ==
    /\ pc = "ask" /\ Chain[reader] = "firecrawl"
    /\ FetchJson
    /\ UNCHANGED <<caller, reader, network, ledger>>

\* The hit's address becomes a source, or is none that may be read.
AskHouse ==
    /\ pc = "ask" /\ Chain[reader] = "docling"
    /\ \/ pc' = "vet" /\ UNCHANGED <<outcome, page>>
       \/ Refuse
    /\ UNCHANGED <<caller, reader, network, body, traffic, ledger>>

\* Mutant: only the first hop is checked.
MutantVetsOnce ==
    /\ pc = "vet"
    /\ \/ /\ pc' = "request"
          /\ vetted' = IF hop = 0 THEN vetted \cup {hop} ELSE vetted
          /\ UNCHANGED <<outcome, page>>
       \/ hop = 0 /\ Refuse /\ UNCHANGED vetted
    /\ UNCHANGED <<caller, reader, hop, requested, body, traffic, ledger>>

\* Every hop's URL and every address of its host are checked before it is
\* requested.  The resolver raises for a host that has no address.
Vet ==
    /\ pc = "vet"
    /\ \E dns \in Resolutions :
          \/ /\ dns = "public" /\ pc' = "request"
             /\ vetted' = vetted \cup {hop}
             /\ UNCHANGED <<outcome, page>>
          \/ dns = "private" /\ Refuse /\ UNCHANGED vetted
          \/ dns = "none" /\ Ends(Escapes) /\ UNCHANGED <<vetted, page>>
    /\ UNCHANGED <<caller, reader, hop, requested, body, traffic, ledger>>

\* A redirect is followed up to the limit; anything else is collected.
Request ==
    /\ pc = "request"
    /\ requested' = requested \cup {hop}
    /\ \/ pc' = "collect" /\ UNCHANGED <<hop, outcome, page>>
       \/ /\ hop < MaxRedirects
          /\ hop' = hop + 1 /\ pc' = "vet"
          /\ UNCHANGED <<outcome, page>>
       \/ Refuse /\ UNCHANGED hop
    /\ UNCHANGED <<caller, reader, vetted, body, traffic, ledger>>

\* The bytes so far still fit.
Fits(size) == body + size <= MaxBytes

\* Chunks arrive until the body is complete, too long or breaks off; a bad
\* status or too long a declared length ends it before the first.
Collect ==
    /\ pc = "collect"
    /\ \/ \E size \in 1..MaxChunk :
             /\ body' = body + size
             /\ IF Fits(size) THEN UNCHANGED <<pc, outcome, page>> ELSE Refuse
       \/ /\ UNCHANGED <<body, page>>
          /\ IF caller = "find" THEN pc' = "convert" /\ UNCHANGED outcome ELSE Ends("bytes")
       \/ UNCHANGED body /\ Refuse
    /\ UNCHANGED <<caller, reader, network, traffic, ledger>>

\* Docling's answer: skipped, failed, without Markdown or refused by its policy,
\* or Markdown, which is measured by the bytes that were read.
Convert ==
    /\ pc = "convert"
    /\ \/ \E text \in Texts :
             /\ Answers(IF text = "text" THEN "page" ELSE "blank")
             /\ traffic' = body
       \/ Refuse /\ UNCHANGED traffic
    /\ UNCHANGED <<caller, reader, network, body, ledger>>

\* A staged file is measured inside its root, and read afterwards, one byte
\* beyond the limit at most.
Stat ==
    /\ pc = "stat"
    /\ \/ pc' = "read" /\ UNCHANGED outcome
       \/ Ends("refused")
    /\ UNCHANGED <<caller, reader, network, body, traffic, page, ledger>>

ReadFile ==
    /\ pc = "read"
    /\ \E size \in 0..MaxBytes + 1 :
          /\ body' = size
          /\ IF size > MaxBytes THEN Ends("refused") ELSE Ends("bytes")
    /\ UNCHANGED <<caller, reader, network, traffic, page, ledger>>

\* The deadline of a find ends it wherever it is; the charge or the row it was
\* waiting for may be committed all the same.
Deadline ==
    /\ caller = "find" /\ pc # "done"
    /\ Ends("none")
    /\ \/ UNCHANGED ledger
       \/ pc = "charge" /\ reader <= Len(Chain) /\ charges' = charges + 1 /\ UNCHANGED rows
       \/ pc = "account" /\ rows' = Append(rows, Row) /\ UNCHANGED charges
    /\ UNCHANGED <<caller, reader, network, body, traffic, page>>

Next ==
    \/ Start \/ ChargeFetch \/ AccountFetch \/ Deadline
    \/ AskFirecrawl \/ AskHouse \/ Vet \/ Request \/ Collect \/ Convert
    \/ Stat \/ ReadFile

Spec == Init /\ [][Next]_vars

-----------------------------------------------------------------------------
(* What our own reads hand on never exceeds the byte limit, whatever the   *)
(* server declared and however the file grew after it was measured.        *)
BoundedBytes ==
    /\ outcome \in {"page", "blank", "bytes"}
    /\ caller = "find" => Chain[reader] = "docling"
    => body <= MaxBytes

(* No hop of a redirect chain is requested before its own host was checked.*)
HopsVetted == requested \subseteq vetted

(* Every fetch but the one under way has its row, nothing is in the ledger *)
(* that was not charged, and the row of a served page carries exactly the  *)
(* bytes that were read for it.                                            *)
WireSizes ==
    /\ Len(rows) \in {charges, charges - 1}
    /\ \A i \in DOMAIN rows : rows[i].reader = Chain[i]
    /\ outcome \in {"page", "blank"} =>
          charges = reader /\ rows[charges] = [reader |-> Chain[reader], bytes |-> body]
=============================================================================
