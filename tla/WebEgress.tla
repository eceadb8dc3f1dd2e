----------------------------- MODULE WebEgress -----------------------------
(***************************************************************************)
(* The web half of `find` (web/service.py, router.py, cache.py): the       *)
(* switches, the signals memory already has, the planner, the sanitizer,   *)
(* then the chain of search providers and, for every hit, the chain of     *)
(* page readers.  Each provider call is charged to the monthly allowance   *)
(* before it is made and recorded in the usage ledger after it, and the    *)
(* whole runs under one deadline that can cut it at any await.  A find     *)
(* ends with findings and a privacy receipt.                               *)
(*                                                                         *)
(* The allowance is the one counter of MonthlyQuota that the web calls of  *)
(* all finds share.  A ledger row is the accounting job UsageRecorder has  *)
(* enqueued (UsageLedger follows it to the table).                         *)
(***************************************************************************)
EXTENDS Naturals, FiniteSets, Sequences, FiniteSetsExt

CONSTANTS Finds,
          Searchers, \* the lane's providers in preference order
          Fetchers,  \* the page readers in preference order
          Spend,     \* Spend[p]: credits one call of provider p costs
          Pages,     \* web_search_pages: hits that are read
          Allowance, \* web units left this month
          Modes,     \* the per-call modes callers use
          Faults     \* what may go wrong: "deadline", "recorder", "store"

WebAssumption ==
    /\ Modes \subseteq {"auto", "off", "force"}
    /\ Faults \subseteq {"deadline", "recorder", "store"}
    /\ Pages \in Nat /\ Allowance \in Nat

VARIABLES phase,   \* phase[f]: the await the find is at
          call,    \* call[f]: its mode, freshness and the signals it was judged by
          at,      \* at[f]: the searcher, page and reader it is at, and what it has found
          reached, \* reached[f]: `providers`, every provider call made, in order
          charged, \* charged[f]: web units spent for it
          outcome, \* outcome[f]: the receipt it ended with
          ledger   \* recorded provider calls
vars == <<phase, call, at, reached, charged, outcome, ledger>>

None == [kind |-> "none", reason |-> "none", named |-> {}]
Refused(r) == [kind |-> "refused", reason |-> r, named |-> {}]
Signals == [mode : Modes, fresh : BOOLEAN, permitted : BOOLEAN, sufficient : BOOLEAN,
            roster : BOOLEAN, marker : BOOLEAN]
NoHits == [search |-> 1, hits |-> 0, page |-> 1, fetch |-> 1, found |-> <<>>, kept |-> 0]

Init ==
    /\ phase = [f \in Finds |-> "idle"]
    /\ call \in [Finds -> Signals]
    /\ at = [f \in Finds |-> NoHits]
    /\ reached = [f \in Finds |-> <<>>]
    /\ charged = [f \in Finds |-> 0]
    /\ outcome = [f \in Finds |-> None]
    /\ ledger = {}

Names(f) == {reached[f][i] : i \in DOMAIN reached[f]}
Goto(f, p) == phase' = [phase EXCEPT ![f] = p]
End(f, o) == Goto(f, "done") /\ outcome' = [outcome EXCEPT ![f] = o]
Quiet == UNCHANGED <<reached, charged, ledger>>

\* nothing_found: told apart by whether anyone was asked.
NothingFound(f, reason) ==
    IF reached[f] = <<>> THEN Refused(reason)
    ELSE [kind |-> "fruitless", reason |-> reason, named |-> Names(f)]

\* run: the mode, then the two switches, before the question is read.
Ask(f) ==
    /\ phase[f] = "idle"
    /\ CASE call[f].mode = "off" -> End(f, Refused("web_off"))
         [] call[f].mode # "off" /\ ~call[f].permitted -> End(f, Refused("not_permitted"))
         [] OTHER -> Goto(f, "routing") /\ UNCHANGED outcome
    /\ UNCHANGED <<call, at>> /\ Quiet

\* WebRouter.plan before the model is asked.  A private subject is stopped
\* unless the question points outward; `fresh` skips sufficiency only.
SkipSufficiency(f) == call[f].mode = "force" \/ call[f].fresh
SkipRoster(f) == call[f].mode = "force"
Private(f) == ~SkipRoster(f) /\ call[f].roster /\ ~call[f].marker

Route(f) ==
    /\ phase[f] = "routing"
    /\ CASE ~SkipSufficiency(f) /\ call[f].sufficient -> End(f, Refused("memory_answered"))
         [] (SkipSufficiency(f) \/ ~call[f].sufficient) /\ Private(f) ->
               End(f, Refused("private_subject"))
         [] OTHER -> Goto(f, "planning") /\ UNCHANGED outcome
    /\ UNCHANGED <<call, at>> /\ Quiet

\* The planner: no answer, no need, no rewrite, or a plan the sanitizer then
\* clears or not.
PlanEnds(f) ==
    /\ phase[f] = "planning"
    /\ \E reason \in {"planner_unavailable", "planner_declined", "sanitizer_refused"} :
          /\ reason = "planner_declined" => ~SkipSufficiency(f)
          /\ End(f, Refused(reason))
    /\ UNCHANGED <<call, at>> /\ Quiet

Plan(f) ==
    /\ phase[f] = "planning"
    /\ Goto(f, "checking")
    /\ UNCHANGED <<call, at, outcome>> /\ Quiet

Sanitize(f) ==
    /\ phase[f] = "checking"
    /\ \/ End(f, Refused("sanitizer_refused"))
       \/ Goto(f, "searching") /\ UNCHANGED outcome
    /\ UNCHANGED <<call, at>> /\ Quiet

SumCharged == MapThenSumSet(LAMBDA f : charged[f], Finds)
Room(p) == SumCharged + Spend[p] <= Allowance

\* Charge first, then call: `providers.append` follows the charge at once.
ChargeAndCall(f, p, next) ==
    /\ charged' = [charged EXCEPT ![f] = @ + Spend[p]]
    /\ reached' = [reached EXCEPT ![f] = Append(@, p)]
    /\ Goto(f, next)

\* The next searcher of the lane, or the end of the chain or of the allowance.
Search(f) ==
    /\ phase[f] = "searching"
    /\ at[f].search <= Len(Searchers)
    /\ Room(Searchers[at[f].search])
    /\ ChargeAndCall(f, Searchers[at[f].search], "called")
    /\ UNCHANGED <<call, at, outcome, ledger>>

SearchEnds(f) ==
    /\ phase[f] = "searching"
    /\ \/ /\ at[f].search > Len(Searchers)
          /\ End(f, NothingFound(f, "provider_failure"))
       \/ /\ at[f].search <= Len(Searchers)
          /\ ~Room(Searchers[at[f].search])
          /\ End(f, NothingFound(f, "quota_exhausted"))
    /\ UNCHANGED <<call, at>> /\ Quiet

\* The provider answers: unavailable, nothing, or up to Pages hits.
Answer(f) ==
    /\ phase[f] = "called"
    /\ \E n \in 0..Pages :
          at' = [at EXCEPT ![f].hits = n]
    /\ Goto(f, "recording")
    /\ UNCHANGED <<call, outcome>> /\ Quiet

\* account: a search is numbered by its attempt, a fetch by the calls made so
\* far, so no two calls of one find share a row.
RowOf(f, op, p, n) == [find |-> f, op |-> op, provider |-> p, ordinal |-> n, items |-> Spend[p]]
Ordinal(f) == Len(reached[f]) - 1

Record(f) ==
    /\ phase[f] = "recording"
    /\ ledger' = ledger \cup
          {RowOf(f, "web_search", Searchers[at[f].search], at[f].search - 1)}
    /\ IF at[f].hits = 0
          THEN at' = [at EXCEPT ![f].search = @ + 1] /\ Goto(f, "searching")
          ELSE Goto(f, "reading") /\ UNCHANGED at
    /\ UNCHANGED <<call, reached, charged, outcome>>

NextPage(f, what) ==
    at' = [at EXCEPT ![f].page = @ + 1, ![f].fetch = 1, ![f].found = Append(@, what)]

\* fetch: the next reader for the page; without room or readers the hit is
\* answered by its own preview.
Fetch(f) ==
    /\ phase[f] = "reading"
    /\ at[f].page <= at[f].hits
    /\ at[f].fetch <= Len(Fetchers)
    /\ Room(Fetchers[at[f].fetch])
    /\ ChargeAndCall(f, Fetchers[at[f].fetch], "fetching")
    /\ UNCHANGED <<call, at, outcome, ledger>>

Preview(f) ==
    /\ phase[f] = "reading"
    /\ at[f].page <= at[f].hits
    /\ at[f].fetch <= Len(Fetchers) => ~Room(Fetchers[at[f].fetch])
    /\ NextPage(f, "preview")
    /\ UNCHANGED <<phase, call, outcome>> /\ Quiet

\* The reader answers; account; the page is found, or the next reader tried.
FetchAnswers(f) ==
    /\ phase[f] = "fetching"
    /\ \E p \in {"page", "unavailable"} : Goto(f, p)
    /\ UNCHANGED <<call, at, outcome>> /\ Quiet

RecordFetch(f) ==
    /\ phase[f] \in {"page", "unavailable"}
    /\ ledger' = ledger \cup {RowOf(f, "web_fetch", Fetchers[at[f].fetch], Ordinal(f))}
    /\ IF phase[f] = "page" THEN NextPage(f, "page")
       ELSE at' = [at EXCEPT ![f].fetch = @ + 1]
    /\ Goto(f, "reading")
    /\ UNCHANGED <<call, reached, charged, outcome>>

\* cache.keep, one finding after another: a malicious page is dropped from the
\* answer, and a store that refuses a page (ValueError) only leaves it uncached.
Keep(f) ==
    /\ phase[f] = "reading"
    /\ at[f].page > at[f].hits
    /\ at[f].kept < Len(at[f].found)
    /\ \/ at' = [at EXCEPT ![f].kept = @ + 1]
       \/ /\ at[f].found[at[f].kept + 1] = "page"
          /\ at' = [at EXCEPT ![f].kept = @ + 1, ![f].found[at[f].kept + 1] = "malicious"]
    /\ UNCHANGED <<phase, call, outcome>> /\ Quiet

Sent(f) ==
    /\ phase[f] = "reading"
    /\ at[f].page > at[f].hits
    /\ at[f].kept = Len(at[f].found)
    /\ End(f, [kind |-> "sent", reason |-> "none", named |-> Names(f)])
    /\ UNCHANGED <<call, at>> /\ Quiet

\* The deadline cuts any await after the switches: the rows still to be recorded
\* and the findings are gone, and the find degrades to a refusal.
Awaiting == {"routing", "planning", "checking", "searching", "called", "recording",
             "reading", "fetching", "page", "unavailable"}
TimesOut == Awaiting

TimeOut(f) ==
    /\ "deadline" \in Faults
    /\ phase[f] \in TimesOut
    /\ End(f, Refused("provider_failure"))
    /\ UNCHANGED <<call, at>> /\ Quiet

\* The deadline cuts the charge after it has committed: paid, but not called.
TimeOutCharged(f) ==
    /\ "deadline" \in Faults
    /\ \E p \in DOMAIN Spend :
          /\ \/ phase[f] = "searching" /\ at[f].search <= Len(Searchers) /\ p = Searchers[at[f].search]
             \/ /\ phase[f] = "reading" /\ at[f].page <= at[f].hits
                /\ at[f].fetch <= Len(Fetchers) /\ p = Fetchers[at[f].fetch]
          /\ Room(p)
          /\ charged' = [charged EXCEPT ![f] = @ + Spend[p]]
    /\ End(f, Refused("provider_failure"))
    /\ UNCHANGED <<call, at, reached, ledger>>

\* The recorder gives up after its attempts and raises; a database error of the
\* cache that is no ValueError is raised too.
RecorderFails(f) ==
    /\ "recorder" \in Faults
    /\ phase[f] \in {"recording", "page", "unavailable"}
    /\ End(f, [kind |-> "error", reason |-> "recorder", named |-> {}])
    /\ UNCHANGED <<call, at>> /\ Quiet

StoreFails(f) ==
    /\ "store" \in Faults
    /\ phase[f] = "reading" /\ at[f].page > at[f].hits /\ at[f].kept < Len(at[f].found)
    /\ at[f].found[at[f].kept + 1] = "page"
    /\ End(f, [kind |-> "error", reason |-> "store", named |-> {}])
    /\ UNCHANGED <<call, at>> /\ Quiet

Own(f) ==
    \/ Ask(f) \/ Route(f) \/ Sanitize(f) \/ Search(f) \/ SearchEnds(f) \/ Record(f)
    \/ Fetch(f) \/ Preview(f) \/ RecordFetch(f) \/ Keep(f) \/ Sent(f)
External(f) == PlanEnds(f) \/ Plan(f) \/ Answer(f) \/ FetchAnswers(f)
Fails(f) == TimeOut(f) \/ TimeOutCharged(f) \/ RecorderFails(f) \/ StoreFails(f)

Next == \E f \in Finds : Own(f) \/ External(f) \/ Fails(f)

Spec == Init /\ [][Next]_vars
-----------------------------------------------------------------------------
Reasons == {"none", "web_off", "not_permitted", "memory_answered", "private_subject",
            "planner_unavailable", "planner_declined", "sanitizer_refused",
            "quota_exhausted", "provider_failure", "recorder", "store"}

TypeOK ==
    /\ phase \in [Finds -> {"idle", "done"} \cup Awaiting]
    /\ call \in [Finds -> Signals]
    /\ \A f \in Finds :
          /\ at[f].search \in 1..(Len(Searchers) + 1) /\ at[f].fetch \in 1..(Len(Fetchers) + 1)
          /\ at[f].hits \in 0..Pages /\ Len(at[f].found) = at[f].page - 1
          /\ at[f].kept <= Len(at[f].found)
          /\ outcome[f].reason \in Reasons
          /\ outcome[f].kind \in {"none", "refused", "fruitless", "sent", "error"}
          /\ phase[f] = "done" <=> outcome[f].kind # "none"

\* "Reaching a provider and getting nothing is still reaching a provider"
\* (WebOutcome.fruitless): a receipt that names providers names exactly those
\* that saw the question, and a refusal names none: nobody saw it, save that
\* `provider_failure` is also what a find answers that its deadline cut, whoever
\* it had asked by then (run's TimeoutError branch).
ReceiptTells ==
    \A f \in Finds :
        /\ outcome[f].kind \in {"fruitless", "sent"} =>
              outcome[f].named = Names(f) /\ Names(f) # {}
        /\ outcome[f].kind = "refused" /\ outcome[f].reason # "provider_failure" =>
              reached[f] = <<>>

\* A provider sees a question only if the caller may reach the web and asked to,
\* memory did not settle it and it was not about the caller's own world, unless
\* the caller overruled that; `fresh` does not overrule the second.
OnlySanctionedLeave ==
    \A f \in Finds : reached[f] # <<>> =>
        /\ call[f].permitted /\ call[f].mode # "off"
        /\ call[f].sufficient => call[f].fresh \/ call[f].mode = "force"
        /\ call[f].roster => call[f].marker \/ call[f].mode = "force"

\* "a month's bill can be reconciled against the ledger" (WebSearch.account):
\* when a find ends with a receipt of what it asked, its rows add up to what it
\* was charged; cut by the deadline or by the recorder, they fall short of it by
\* the one call under way and never by more.
ItemsOf(f) == MapThenSumSet(LAMBDA r : r.items, {r \in ledger : r.find = f})
Short(f) == charged[f] - ItemsOf(f)
WasCut(f) ==
    \/ outcome[f].kind = "refused" /\ outcome[f].reason = "provider_failure"
    \/ outcome[f].kind = "error" /\ outcome[f].reason = "recorder"
LedgerReconciles ==
    \A f \in Finds : phase[f] = "done" =>
        IF WasCut(f) THEN Short(f) \in {0} \cup {Spend[p] : p \in DOMAIN Spend}
        ELSE Short(f) = 0

\* The finds together spend no more than the month allows, and no provider is
\* called that was not paid for.
CreditsOf(f) == MapThenSumSet(LAMBDA i : Spend[reached[f][i]], DOMAIN reached[f])
PaidBefore == SumCharged <= Allowance /\ \A f \in Finds : CreditsOf(f) <= charged[f]

\* A find that has begun and not returned.
Searching(f) == phase[f] \notin {"idle", "done"}
=============================================================================
