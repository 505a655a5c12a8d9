------------------------------ MODULE ListSlots ------------------------------
(***************************************************************************)
(* The request slots of the clearing, settlement, card and prepaid Visa    *)
(* screens, by the habits RequestSlot distinguishes.                       *)
(***************************************************************************)
EXTENDS SlotHabits

\* Lists of clearing and settlement: a loop fetches up to 20 pages of a range.
ClearedThunk == [paged |-> TRUE, timed |-> TRUE]
ClearedSlice ==
    [PlainSlice EXCEPT !.drops = "all", !.aborted = "ignore", !.marks = TRUE,
                       !.clears = {"rows", "loading", "owner"}]
ClearedPage ==
    [PlainPage EXCEPT !.cancel = "abort", !.paging = "auto", !.opens = FALSE,
                      !.empties = "keeps", !.leaves = TRUE]
ClearedSlot == [thunk |-> ClearedThunk, slice |-> ClearedSlice, screens |-> {ClearedPage}]

UnclearedThunk == ClearedThunk
UnclearedSlice == ClearedSlice
UnclearedPage == ClearedPage
UnclearedSlot == [thunk |-> UnclearedThunk, slice |-> UnclearedSlice, screens |-> {UnclearedPage}]

SettledThunk == ClearedThunk
SettledSlice == ClearedSlice
SettledPage == ClearedPage
SettledSlot == [thunk |-> SettledThunk, slice |-> SettledSlice, screens |-> {SettledPage}]

UnsettledThunk == ClearedThunk
UnsettledSlice == ClearedSlice
UnsettledPage == ClearedPage
UnsettledSlot == [thunk |-> UnsettledThunk, slice |-> UnsettledSlice, screens |-> {UnsettledPage}]

\* The records of a settlement file or of a range: choosing either asks, and nothing
\* stops what was asked before.
VisaRecordsThunk == PlainThunk
VisaRecordsSlice ==
    [PlainSlice EXCEPT !.wipes = "always", !.aborted = "ignore", !.clears = {"rows"}]
VisaRecordsPage == [PlainPage EXCEPT !.starts = "pick", !.opens = FALSE]
VisaRecordsSlot ==
    [thunk |-> VisaRecordsThunk, slice |-> VisaRecordsSlice, screens |-> {VisaRecordsPage}]

IPMRecordsThunk == VisaRecordsThunk
IPMRecordsSlice == VisaRecordsSlice
IPMRecordsPage == VisaRecordsPage
IPMRecordsSlot ==
    [thunk |-> IPMRecordsThunk, slice |-> IPMRecordsSlice, screens |-> {IPMRecordsPage}]

-----------------------------------------------------------------------------
\* The lists of the prepaid Visa cards: they open with a range, are not cleared when
\* they are left, and a failure takes the rows away.
TransactionsThunk == [paged |-> TRUE, timed |-> TRUE]
TransactionsSlice == [ClearedSlice EXCEPT !.wipes = "always"]
TransactionsPage == [ClearedPage EXCEPT !.opens = TRUE, !.leaves = FALSE]
TransactionsSlot ==
    [thunk |-> TransactionsThunk, slice |-> TransactionsSlice, screens |-> {TransactionsPage}]

TopUpsThunk == TransactionsThunk
TopUpsSlice == TransactionsSlice
TopUpsPage == TransactionsPage
TopUpsSlot == [thunk |-> TopUpsThunk, slice |-> TopUpsSlice, screens |-> {TopUpsPage}]

UnloadsThunk == TransactionsThunk
UnloadsSlice == TransactionsSlice
UnloadsPage == TransactionsPage
UnloadsSlot == [thunk |-> UnloadsThunk, slice |-> UnloadsSlice, screens |-> {UnloadsPage}]

\* The answers of one page compare the request's id.
DashboardThunk == [PlainThunk EXCEPT !.timed = TRUE]
DashboardSlice ==
    [PlainSlice EXCEPT !.claims = "id", !.drops = "all", !.wipes = "always", !.aborted = "settle"]
DashboardPage == [PlainPage EXCEPT !.cancel = "abort", !.empties = "keeps"]
DashboardSlot == [thunk |-> DashboardThunk, slice |-> DashboardSlice, screens |-> {DashboardPage}]

ReconcileThunk == DashboardThunk
ReconcileSlice == DashboardSlice
ReconcilePage == [DashboardPage EXCEPT !.empties = "no"]
ReconcileSlot == [thunk |-> ReconcileThunk, slice |-> ReconcileSlice, screens |-> {ReconcilePage}]

\* The sheet of one card of the reconciliation; its sections grow by a button.
CardThunk == [paged |-> TRUE, timed |-> TRUE]
CardSlice ==
    [DashboardSlice EXCEPT !.wipes = "first", !.clears = {"rows", "loading", "owner"}]
CardSheet ==
    [PlainPage EXCEPT !.starts = "sheet", !.cancel = "abort", !.paging = "ask", !.opens = FALSE,
                      !.empties = "clears"]
CardSlot == [thunk |-> CardThunk, slice |-> CardSlice, screens |-> {CardSheet}]

PrepaidSearchThunk == DashboardThunk
PrepaidSearchSlice == [DashboardSlice EXCEPT !.clears = {"rows", "loading", "owner"}]
PrepaidSearchPage ==
    [PlainPage EXCEPT !.starts = "submit", !.opens = FALSE, !.empties = "idle"]
PrepaidSearchSlot ==
    [thunk |-> PrepaidSearchThunk, slice |-> PrepaidSearchSlice, screens |-> {PrepaidSearchPage}]

-----------------------------------------------------------------------------
\* Cards per status.
CardStatusThunk == [PlainThunk EXCEPT !.timed = TRUE]
CardStatusSlice ==
    [PlainSlice EXCEPT !.drops = "all", !.heals = TRUE, !.aborted = "ignore",
                       !.clears = {"rows", "loading", "owner"}]
CardStatusPage == [PlainPage EXCEPT !.cancel = "abort", !.leaves = TRUE]
CardStatusSlot == [thunk |-> CardStatusThunk, slice |-> CardStatusSlice, screens |-> {CardStatusPage}]

\* Card activity: the organisation's days, and the branches of a range.
ActivityThunk == [PlainThunk EXCEPT !.timed = TRUE]
ActivitySlice == [CardStatusSlice EXCEPT !.drops = "no"]
ActivityPage == [PlainPage EXCEPT !.cancel = "abort", !.leaves = TRUE]
ActivitySlot == [thunk |-> ActivityThunk, slice |-> ActivitySlice, screens |-> {ActivityPage}]

ByBranchThunk == ActivityThunk
ByBranchSlice == ActivitySlice
ByBranchSection == ActivityPage
ByBranchSlot == [thunk |-> ByBranchThunk, slice |-> ByBranchSlice, screens |-> {ByBranchSection}]

\* The days of one branch.  Choosing a branch drops the trend of the last one; a new
\* range chooses none, until the branches of that range are there.
BranchTrendThunk == ActivityThunk
BranchTrendSlice ==
    [CardStatusSlice EXCEPT !.claims = "rows", !.clears = {"rows", "owner"}]
BranchTrendSection == [ActivityPage EXCEPT !.opens = FALSE, !.empties = "clears"]
BranchTrendSlot ==
    [thunk |-> BranchTrendThunk, slice |-> BranchTrendSlice, screens |-> {BranchTrendSection}]

\* The cards behind a number of the card activity, page by page.  Refresh goes back to
\* the first page and starts no loop; Load more adds one.
CardDetailThunk == [paged |-> TRUE, timed |-> TRUE]
CardDetailSlice == [CardStatusSlice EXCEPT !.drops = "group", !.dedups = TRUE]
CardDetailSheet ==
    [PlainPage EXCEPT !.starts = "sheet", !.cancel = "stop", !.paging = "auto",
                      !.buttons = TRUE, !.leaves = TRUE]
CardDetailSlot == [thunk |-> CardDetailThunk, slice |-> CardDetailSlice, screens |-> {CardDetailSheet}]

ListSlots ==
    {ClearedSlot, UnclearedSlot, SettledSlot, UnsettledSlot, VisaRecordsSlot, IPMRecordsSlot,
     TransactionsSlot, TopUpsSlot,
     UnloadsSlot, DashboardSlot, ReconcileSlot, CardSlot, PrepaidSearchSlot, CardStatusSlot,
     ActivitySlot, ByBranchSlot, BranchTrendSlot, CardDetailSlot}
=============================================================================
