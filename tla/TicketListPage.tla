--------------------------- MODULE TicketListPage ---------------------------
(***************************************************************************)
(* The ticket list in the browser: filters, search and pages ask the       *)
(* server for rows and counts, live events ask for them again after a      *)
(* short delay, and the totals on the buttons and the escalation history   *)
(* are asked for apart from the rows.  Every answer may come late; one to  *)
(* a question that has been replaced is ignored.                           *)
(*                                                                         *)
(* The server is a version number and the number of pages the list has.    *)
(***************************************************************************)
EXTENDS Integers, FiniteSets

CONSTANTS ListFilters,            \* tab, period, scope and further filters
          ToRate,                 \* the filter whose counts are asked for apart
          Searches,
          NoRows,
          MaxListChanges, MaxListMoves

ASSUME ListAssumption == /\ ToRate \in ListFilters /\ Searches # {}
                         /\ MaxListChanges \in Nat /\ MaxListMoves \in Nat

VARIABLES
  tlServer,      \* version and pages of the list
  tlEvent,       \* a change the browser has not been told of yet
  tlTimer,       \* told, and waiting 750 ms for more
  tlView,        \* filter, search, page
  tlDraft,       \* what is typed in the search field
  tlRows, tlPages, tlCounts,
  tlLoading, tlError, tlCountsError,
  tlAsked,       \* requests for rows and counts
  tlInFlight, tlQueued,
  tlSide,        \* the totals, or the escalation history
  tlSaved,       \* the filter kept for the next visit
  tlSwallowed,   \* history variable: an event's delay was cancelled
  tlShrunk,      \* history variable: the list lost pages, or a page was chosen by
                 \* the number of pages of the view before
  tlMoves
tlVars == <<tlServer, tlEvent, tlTimer, tlView, tlDraft, tlRows, tlPages, tlCounts, tlLoading, tlError,
            tlCountsError, tlAsked, tlInFlight, tlQueued, tlSide, tlSaved, tlSwallowed, tlShrunk, tlMoves>>

rowsState == <<tlRows, tlPages, tlCounts, tlLoading, tlError, tlCountsError, tlAsked, tlInFlight, tlQueued>>

move == tlMoves < MaxListMoves /\ tlMoves' = tlMoves + 1

----------------------------------------------------------------------------
(* Asking for the rows                                                     *)

isCurrent(q) == q.live

\* At most one replaced request of each kind is remembered; what it reads after
\* that does not matter.
aborted == {[q EXCEPT !.live = FALSE, !.read = IF @ = NoRows THEN tlServer ELSE @] : q \in {x \in tlAsked : x.live}}
request(kind, view, silent) == [kind |-> kind, view |-> view, silent |-> silent, read |-> NoRows, live |-> TRUE]

mustWait(busy, silent) == silent /\ busy

\* What remains of rows, errors and requests once the rows of a view are asked
\* for: an event waits for the request that runs, everything else replaces it.
fetchTickets(view, silent, busy, rows, loading, error) ==
  IF mustWait(busy, silent)
  THEN [rows |-> rows, loading |-> loading, error |-> error, asked |-> tlAsked, inFlight |-> TRUE, queued |-> TRUE,
        countsError |-> tlCountsError]
  ELSE [rows |-> IF silent THEN rows ELSE NoRows, loading |-> ~silent \/ loading, error |-> silent /\ error,
        asked |-> aborted \cup {request("list", view, silent)}
                    \cup (IF view.filter = ToRate THEN {request("counts", view, silent)} ELSE {}),
        inFlight |-> TRUE, queued |-> FALSE,
        countsError |-> view.filter = ToRate /\ tlCountsError]

become(r) == /\ tlRows' = r.rows /\ tlLoading' = r.loading /\ tlError' = r.error /\ tlAsked' = r.asked
             /\ tlInFlight' = r.inFlight /\ tlQueued' = r.queued /\ tlCountsError' = r.countsError

\* The totals, or the history, that only while it is shown
sideAsked == IF tlSide.shown THEN [tlSide EXCEPT !.asked = TRUE, !.read = NoRows] ELSE tlSide

\* The history takes the place of the list and its filters; it is forgotten, and
\* asked for if it is shown.
listShown == tlSide.of = "summary" \/ ~tlSide.shown
historyAnew(shown) == [tlSide EXCEPT !.ver = NoRows, !.read = NoRows, !.asked = shown, !.error = FALSE, !.shown = shown]

firstPage(view) == [view EXCEPT !.page = 1]

lookAt(view) ==
  /\ tlView' = view /\ tlTimer' = FALSE
  /\ tlSwallowed' = (tlSwallowed \/ tlTimer)
  /\ become(fetchTickets(view, FALSE, FALSE, tlRows, tlLoading, tlError))
  /\ tlSaved' = view.filter
  /\ UNCHANGED <<tlPages, tlCounts>>

----------------------------------------------------------------------------
(* The user                                                                *)

blank == CHOOSE x \in Searches : TRUE

ChangeFilter(f) ==
  /\ move /\ listShown /\ f # tlView.filter
  /\ lookAt(firstPage([tlView EXCEPT !.filter = f]))
  /\ UNCHANGED <<tlShrunk, tlServer, tlEvent, tlDraft, tlSide>>

\* Typing goes to page one at once and searches 300 ms later
Type(s) ==
  /\ move /\ listShown /\ s # tlDraft /\ tlDraft' = s
  /\ IF tlView.page # 1 THEN lookAt([tlView EXCEPT !.page = 1])
     ELSE UNCHANGED <<tlView, tlTimer, tlSwallowed, tlSaved, rowsState>>
  /\ UNCHANGED <<tlShrunk, tlServer, tlEvent, tlSide>>

SearchFires ==
  /\ tlDraft # tlView.search
  /\ lookAt(firstPage([tlView EXCEPT !.search = tlDraft]))
  /\ UNCHANGED <<tlShrunk, tlServer, tlEvent, tlDraft, tlSide, tlMoves>>

resetTicketFilters(f) ==
  /\ move /\ listShown
  /\ tlDraft' = blank /\ lookAt([filter |-> f, search |-> blank, page |-> 1])
  /\ UNCHANGED <<tlShrunk, tlServer, tlEvent, tlSide>>

TurnPage(n) ==
  /\ listShown /\ n \in 1..tlPages /\ n # tlView.page
  /\ lookAt([tlView EXCEPT !.page = n])
  /\ tlShrunk' = (tlShrunk \/ tlRows = NoRows)
  /\ UNCHANGED <<tlServer, tlEvent, tlDraft, tlSide, tlMoves>>

\* From the banner over the list, or the one for the counts or the history
Retry(ofRows) ==
  /\ move
  /\ ofRows => listShown /\ tlError /\ ~tlLoading
  /\ ~ofRows => tlCountsError \/ tlSide.error
  /\ IF ofRows \/ tlCountsError
     THEN become(fetchTickets(tlView, FALSE, tlInFlight, tlRows, tlLoading, tlError)) /\ UNCHANGED <<tlPages, tlCounts>>
     ELSE UNCHANGED rowsState
  /\ tlSide' = IF ofRows THEN tlSide ELSE sideAsked
  /\ UNCHANGED <<tlServer, tlEvent, tlTimer, tlView, tlDraft, tlSaved, tlSwallowed, tlShrunk>>

\* Leaving for another page of the application and coming back, or following a
\* link that names a filter: what was saved counts only without a link's.
resolveTicketListEntry(linked) == [filter |-> linked, search |-> blank, page |-> 1]
restoreTicketListEntry == [filter |-> tlSaved, search |-> tlDraft, page |-> 1]

Enter(linked) ==
  /\ move
  /\ LET entry == IF linked = NoRows THEN restoreTicketListEntry ELSE resolveTicketListEntry(linked)
     IN  tlDraft' = entry.search /\ lookAt(entry)
  /\ tlSide' = IF tlSide.of = "summary" THEN sideAsked ELSE historyAnew(tlSide.shown /\ linked = NoRows)
  /\ UNCHANGED <<tlShrunk, tlServer, tlEvent>>

ShowEscalations ==
  /\ move
  /\ tlSide.of = "history" /\ tlSide' = historyAnew(~tlSide.shown)
  /\ UNCHANGED <<tlServer, tlEvent, tlTimer, tlView, tlDraft, rowsState, tlSaved, tlSwallowed, tlShrunk>>

----------------------------------------------------------------------------
(* Changes, events and answers                                             *)

changed(pages) ==
  /\ tlServer.ver < MaxListChanges /\ pages \in 1..2
  /\ tlServer' = [ver |-> tlServer.ver + 1, pages |-> pages] /\ tlEvent' = TRUE
  /\ tlShrunk' = (tlShrunk \/ pages < tlServer.pages)

OthersChange(pages) ==
  /\ changed(pages)
  /\ UNCHANGED <<tlTimer, tlView, tlDraft, rowsState, tlSide, tlSaved, tlSwallowed, tlMoves>>

\* The user's own: after an assignment or a correction the rows are refreshed in
\* the background, after anything else they are asked for afresh.  The dialog
\* lies over the list, so the view is still the one the change was made in.
OwnChange(pages, silent) ==
  /\ changed(pages) /\ move
  /\ become(fetchTickets(tlView, silent, tlInFlight, tlRows, tlLoading, tlError))
  /\ tlSide' = IF silent /\ tlSide.of = "history" THEN tlSide ELSE sideAsked
  /\ UNCHANGED <<tlTimer, tlView, tlDraft, tlPages, tlCounts, tlSaved, tlSwallowed>>

Told ==
  /\ tlEvent /\ tlEvent' = FALSE /\ tlTimer' = TRUE
  /\ UNCHANGED <<tlServer, tlView, tlDraft, rowsState, tlSide, tlSaved, tlSwallowed, tlShrunk, tlMoves>>

liveSides == sideAsked

TimerFires ==
  /\ tlTimer /\ tlTimer' = FALSE
  /\ become(fetchTickets(tlView, TRUE, tlInFlight, tlRows, tlLoading, tlError))
  /\ tlSide' = liveSides
  /\ UNCHANGED <<tlServer, tlEvent, tlView, tlDraft, tlPages, tlCounts, tlSaved, tlSwallowed, tlShrunk, tlMoves>>

ServerReads(q) ==
  /\ q.read = NoRows
  /\ tlAsked' = (tlAsked \ {q}) \cup {[q EXCEPT !.read = tlServer]}
  /\ UNCHANGED <<tlServer, tlEvent, tlTimer, tlView, tlDraft, tlRows, tlPages, tlCounts, tlLoading, tlError,
                 tlCountsError, tlInFlight, tlQueued, tlSide, tlSaved, tlSwallowed, tlShrunk, tlMoves>>

spinning(error) == FALSE

\* Mutant: the refresh that waited is forgotten
neverAgain == FALSE
startsAgain == tlQueued

pagesOf(view, server) == IF view.filter = ToRate THEN 1 ELSE server.pages

\* What was queued while the request ran starts when it ends
settled(q, rows, error) ==
  LET left == tlAsked \ {q}
  IN  IF ~startsAgain
      THEN /\ tlRows' = rows /\ tlError' = error /\ tlLoading' = spinning(error) /\ tlInFlight' = FALSE /\ tlQueued' = FALSE
           /\ tlAsked' = left /\ UNCHANGED tlCountsError
      ELSE LET r == fetchTickets(tlView, TRUE, FALSE, rows, FALSE, error)
           IN  become([r EXCEPT !.asked = @ \ {[q EXCEPT !.live = FALSE]}])

ignored(q) == /\ tlAsked' = tlAsked \ {q}
              /\ UNCHANGED <<tlRows, tlPages, tlCounts, tlLoading, tlError, tlCountsError, tlInFlight, tlQueued>>

ListAnswers(q) ==
  /\ q.kind = "list" /\ q.read # NoRows
  /\ IF ~isCurrent(q) THEN ignored(q)
     ELSE /\ settled(q, [view |-> q.view, ver |-> q.read.ver], FALSE)
          /\ tlPages' = pagesOf(q.view, q.read)
          /\ tlCounts' = IF q.view.filter = ToRate THEN tlCounts ELSE [filter |-> q.view.filter, ver |-> q.read.ver]
  /\ UNCHANGED <<tlServer, tlEvent, tlTimer, tlView, tlDraft, tlSide, tlSaved, tlSwallowed, tlShrunk, tlMoves>>

\* Refused, the rows are taken away; failed, they stay
ListFails(q, denied) ==
  /\ move /\ q.kind = "list" /\ isCurrent(q)
  /\ settled(q, IF denied THEN NoRows ELSE tlRows, TRUE)
  /\ UNCHANGED <<tlServer, tlEvent, tlTimer, tlView, tlDraft, tlPages, tlCounts, tlSide, tlSaved, tlSwallowed, tlShrunk>>

CountsAnswer(q, ok) ==
  /\ q.kind = "counts" /\ (ok => q.read # NoRows) /\ (~ok => tlMoves < MaxListMoves)
  /\ tlMoves' = IF ok THEN tlMoves ELSE tlMoves + 1
  /\ tlAsked' = tlAsked \ {q}
  /\ tlCounts' = IF ok /\ isCurrent(q) THEN [filter |-> ToRate, ver |-> q.read.ver] ELSE tlCounts
  /\ tlCountsError' = IF isCurrent(q) THEN ~ok ELSE tlCountsError
  /\ UNCHANGED <<tlServer, tlEvent, tlTimer, tlView, tlDraft, tlRows, tlPages, tlLoading, tlError, tlInFlight, tlQueued,
                 tlSide, tlSaved, tlSwallowed, tlShrunk>>

SideReads ==
  /\ tlSide.asked /\ tlSide.read = NoRows
  /\ tlSide' = [tlSide EXCEPT !.read = tlServer.ver]
  /\ UNCHANGED <<tlServer, tlEvent, tlTimer, tlView, tlDraft, rowsState, tlSaved, tlSwallowed, tlShrunk, tlMoves>>

SideAnswers(ok) ==
  /\ tlSide.asked /\ (ok => tlSide.read # NoRows) /\ (~ok => tlMoves < MaxListMoves)
  /\ tlMoves' = IF ok THEN tlMoves ELSE tlMoves + 1
  /\ tlSide' = [tlSide EXCEPT !.asked = FALSE, !.read = NoRows, !.error = ~ok, !.ver = IF ok THEN tlSide.read ELSE @]
  /\ UNCHANGED <<tlServer, tlEvent, tlTimer, tlView, tlDraft, rowsState, tlSaved, tlSwallowed, tlShrunk>>

----------------------------------------------------------------------------
ListInit ==
  /\ tlServer \in [ver : {0}, pages : 1..2] /\ tlEvent = FALSE /\ tlTimer = FALSE
  /\ \E f \in ListFilters, s \in {CHOOSE x \in Searches : TRUE} :
       /\ tlView = [filter |-> f, search |-> s, page |-> 1] /\ tlDraft = s /\ tlSaved = f
       /\ tlAsked = {[kind |-> k, view |-> tlView, silent |-> FALSE, read |-> NoRows, live |-> TRUE] :
                       k \in IF f = ToRate THEN {"list", "counts"} ELSE {"list"}}
  /\ tlRows = NoRows /\ tlPages = 1 /\ tlCounts = NoRows /\ tlLoading = TRUE /\ tlError = FALSE /\ tlCountsError = FALSE
  /\ tlInFlight = TRUE /\ tlQueued = FALSE
  /\ \E s \in {"summary", "history"} :
       tlSide = [of |-> s, ver |-> NoRows, read |-> NoRows, asked |-> s = "summary", error |-> FALSE, shown |-> s = "summary"]
  /\ tlSwallowed = FALSE /\ tlShrunk = FALSE /\ tlMoves = 0

ListNext ==
  \/ \E f \in ListFilters : ChangeFilter(f) \/ resetTicketFilters(f) \/ Enter(f)
  \/ \E s \in Searches : Type(s)
  \/ \E n \in 1..2 : TurnPage(n) \/ OthersChange(n) \/ \E silent \in BOOLEAN : OwnChange(n, silent)
  \/ SearchFires \/ Retry(TRUE) \/ Retry(FALSE) \/ Enter(NoRows) \/ ShowEscalations \/ Told \/ TimerFires
  \/ \E q \in tlAsked : \/ ServerReads(q) \/ ListAnswers(q)
                        \/ \E b \in BOOLEAN : ListFails(q, b) \/ CountsAnswer(q, b)
  \/ SideReads \/ \E ok \in BOOLEAN : SideAnswers(ok)

ListSpec == ListInit /\ [][ListNext]_tlVars

----------------------------------------------------------------------------
(* Properties                                                              *)

Quiet == ~tlEvent /\ ~tlTimer /\ ~tlQueued /\ tlDraft = tlView.search /\ \A q \in tlAsked : ~q.live

\* The rows shown are those of the filter, search and page selected, whatever
\* order the answers come in.
RowsOfTheView == tlRows # NoRows => tlRows.view = tlView

\* When nothing is on its way and no failure is shown, the rows and the counts
\* on the tabs are as the server has them: no event is lost to a request that
\* was running, or to a filter changed meanwhile.
QuietListIsCurrent ==
  Quiet /\ ~tlError /\ ~tlCountsError =>
    /\ tlRows = [view |-> tlView, ver |-> tlServer.ver]
    /\ tlCounts = [filter |-> tlView.filter, ver |-> tlServer.ver]

\* So are the totals and the history, unless changing the view cancelled the
\* delay of an event, which only asks for the rows again.
QuietTotalsAreCurrent ==
  Quiet /\ ~tlSwallowed /\ ~tlSide.asked /\ ~tlSide.error /\ tlSide.shown => tlSide.ver = tlServer.ver

\* A spinner always has a request that will end it.
SpinnerEnds == tlLoading => \E q \in tlAsked : q.live /\ q.kind = "list"

\* An empty page beyond the last one is shown only after the list has shrunk, or
\* when the page was turned while the rows of a new filter were missing, by the
\* page count of the one before: the page is never brought back into the list.
PageWithinList == Quiet /\ ~tlError /\ tlView.page > tlPages => tlShrunk

\* Rows, counts, totals, spinner and page of the list fit the view and the server.
ListHolds == RowsOfTheView /\ QuietListIsCurrent /\ QuietTotalsAreCurrent /\ SpinnerEnds /\ PageWithinList
=============================================================================
