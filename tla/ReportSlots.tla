---------------------------- MODULE ReportSlots ----------------------------
(***************************************************************************)
(* The request slots of the success-rate, terminal and coverage reports,   *)
(* by the habits RequestSlot distinguishes.                                *)
(***************************************************************************)
EXTENDS SlotHabits

\* Success rate of a channel and flow; the home page asks for today's and does not
\* abort when it is left.
SuccessRateThunk == [PlainThunk EXCEPT !.timed = TRUE]
SuccessRateSlice ==
    [PlainSlice EXCEPT !.claims = "id", !.drops = "all", !.aborted = "ignore", !.clears = {"rows"}]
SuccessRatePage == [PlainPage EXCEPT !.cancel = "abort"]
SuccessRateHome == PlainPage
SuccessRateSlot ==
    [thunk |-> SuccessRateThunk, slice |-> SuccessRateSlice,
     screens |-> {SuccessRatePage, SuccessRateHome}]

TrendThunk == [PlainThunk EXCEPT !.timed = TRUE]
TrendSlice == [SuccessRateSlice EXCEPT !.wipes = "always"]
TrendPage == [PlainPage EXCEPT !.cancel = "abort"]
TrendSlot == [thunk |-> TrendThunk, slice |-> TrendSlice, screens |-> {TrendPage}]

MixThunk == [PlainThunk EXCEPT !.timed = TRUE]
MixSlice == TrendSlice
MixPage == [PlainPage EXCEPT !.cancel = "abort"]
MixSlot == [thunk |-> MixThunk, slice |-> MixSlice, screens |-> {MixPage}]

\* Card products: only the page keeps late answers away.
CardProductThunk == [PlainThunk EXCEPT !.timed = TRUE]
CardProductSlice ==
    [PlainSlice EXCEPT !.drops = "all", !.wipes = "always", !.aborted = "ignore", !.clears = {"rows"}]
CardProductPage == [PlainPage EXCEPT !.cancel = "abort", !.empties = "keeps"]
CardProductSlot ==
    [thunk |-> CardProductThunk, slice |-> CardProductSlice, screens |-> {CardProductPage}]

\* Success rate per terminal: an answer for the channel that was set last is adopted,
\* whatever range it is for, and the page aborts nothing.
TerminalRateThunk == [PlainThunk EXCEPT !.timed = TRUE]
TerminalRateSlice ==
    [CardProductSlice EXCEPT !.claims = "group", !.clears = {"rows", "owner"}]
TerminalRatePage == [PlainPage EXCEPT !.empties = "keeps"]
TerminalRateSlot ==
    [thunk |-> TerminalRateThunk, slice |-> TerminalRateSlice, screens |-> {TerminalRatePage}]

-----------------------------------------------------------------------------
\* The transactions behind a number: the cleanup of the sheet's effect clears the rows
\* when the sheet is closed and before each question.
SuccessBrowseThunk == PlainThunk
SuccessBrowseSlice == [PlainSlice EXCEPT !.drops = "all", !.wipes = "always", !.clears = {"rows"}]
SuccessBrowseSheet ==
    [PlainPage EXCEPT !.starts = "sheet", !.buttons = TRUE, !.leaves = TRUE]
SuccessBrowseSlot ==
    [thunk |-> SuccessBrowseThunk, slice |-> SuccessBrowseSlice, screens |-> {SuccessBrowseSheet}]

EbirrThunk == PlainThunk
EbirrSlice == [PlainSlice EXCEPT !.clears = {"rows"}]
EbirrPage == PlainPage
EbirrSlot == [thunk |-> EbirrThunk, slice |-> EbirrSlice, screens |-> {EbirrPage}]

\* The transactions of one terminal, chosen on the page or named by its route.
TerminalTransactionsThunk == PlainThunk
TerminalTransactionsSlice == [PlainSlice EXCEPT !.wipes = "always", !.clears = {"rows"}]
TerminalTransactionsPage == [PlainPage EXCEPT !.opens = FALSE, !.empties = "clears", !.leaves = TRUE]
TerminalTransactionsRoute == [TerminalTransactionsPage EXCEPT !.opens = TRUE]
TerminalTransactionsSlot ==
    [thunk |-> TerminalTransactionsThunk, slice |-> TerminalTransactionsSlice,
     screens |-> {TerminalTransactionsPage, TerminalTransactionsRoute}]

ComparisonThunk == PlainThunk
ComparisonSlice == [PlainSlice EXCEPT !.wipes = "always", !.clears = {"rows"}]
ComparisonPage == [PlainPage EXCEPT !.empties = "keeps", !.leaves = TRUE]
ComparisonSlot ==
    [thunk |-> ComparisonThunk, slice |-> ComparisonSlice, screens |-> {ComparisonPage}]

-----------------------------------------------------------------------------
\* Journals per terminal and day: the slice compares the request's id.
CoverageThunk == PlainThunk
CoverageSlice == [PlainSlice EXCEPT !.claims = "id", !.clears = {"rows", "loading", "owner"}]
CoveragePage == [PlainPage EXCEPT !.empties = "keeps", !.leaves = TRUE]
CoverageSlot == [thunk |-> CoverageThunk, slice |-> CoverageSlice, screens |-> {CoveragePage}]

\* Deposits per terminal; the home page asks for today's.
DepositThunk == PlainThunk
DepositSlice == [PlainSlice EXCEPT !.clears = {"rows"}]
DepositPage == PlainPage
DepositHome == PlainPage
DepositSlot ==
    [thunk |-> DepositThunk, slice |-> DepositSlice, screens |-> {DepositPage, DepositHome}]

\* The fleets of terminals, which several pages fetch as they open and nothing clears.
AtmTerminalsThunk == PlainThunk
AtmTerminalsSlice == [PlainSlice EXCEPT !.clears = {"rows"}]
AtmTerminalsPage == PlainPage
AtmDashboard == PlainPage
AtmTerminalsSlot ==
    [thunk |-> AtmTerminalsThunk, slice |-> AtmTerminalsSlice,
     screens |-> {AtmTerminalsPage, AtmDashboard}]

PosTerminalsThunk == PlainThunk
PosTerminalsSlice == AtmTerminalsSlice
PosTerminalsPage == PlainPage
PosDashboard == PlainPage
PosTerminalsSlot ==
    [thunk |-> PosTerminalsThunk, slice |-> PosTerminalsSlice,
     screens |-> {PosTerminalsPage, PosDashboard}]

ReportSlots ==
    {SuccessRateSlot, TrendSlot, MixSlot, CardProductSlot, TerminalRateSlot, SuccessBrowseSlot,
     EbirrSlot, TerminalTransactionsSlot, ComparisonSlot, CoverageSlot, DepositSlot,
     AtmTerminalsSlot, PosTerminalsSlot}
=============================================================================
