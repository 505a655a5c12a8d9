----------------------------- MODULE ReportViews -----------------------------
(***************************************************************************)
(* How the success-rate, terminal and coverage reports and the home page   *)
(* show their slots, in the terms of Sight.                                *)
(***************************************************************************)
EXTENDS ReportSlots, ViewHabits

\* The success rate shows the answer to what its controls say and nothing else; where
\* there is none its charts say so.  The home page shows the answer it has, the failure
\* in the hint of a tile, and charts of nothing.
SuccessRateTile == TileShows
SuccessRateTiles == SuccessRateTile
SuccessRateCharts == [loading |-> "covers", nothing |-> "says", failure |-> "no"]
SuccessRateView ==
    [View(SuccessRateSlot, SuccessRatePage, {SuccessRateTiles, SuccessRateCharts, TableShows})
        EXCEPT !.compares = TRUE, !.exports = {"idle"}]
HomeTiles == [TileShows EXCEPT !.failure = "beside"]
HomeCharts == [FirstShows EXCEPT !.nothing = "blank"]
SuccessRateHomeView ==
    [View(SuccessRateSlot, SuccessRateHome, {HomeTiles, HomeCharts}) EXCEPT !.toasts = FALSE]

\* The trend shows a skeleton wherever it has no answer to what its controls say.
TrendTiles == [loading |-> "covers", nothing |-> "waits", failure |-> "no"]
TrendCharts == TrendTiles
TrendTable == BlankShows
TrendExport == {"idle"}
TrendView ==
    [View(TrendSlot, TrendPage, {TrendTiles, TrendCharts, TrendTable}) EXCEPT
        !.compares = TRUE, !.exports = TrendExport]

MixTiles == TileShows
MixBreakdown == [loading |-> "covers", nothing |-> "says", failure |-> "no"]
MixView ==
    [View(MixSlot, MixPage, {MixTiles, MixBreakdown, TableShows}) EXCEPT
        !.compares = TRUE, !.exports = {"idle"}]

\* The error of the card products stands above them.
CardProductTiles == [TileShows EXCEPT !.failure = "beside"]
CardProductChart == [loading |-> "covers", nothing |-> "says", failure |-> "beside"]
CardProductView ==
    [View(CardProductSlot, CardProductPage, {CardProductTiles, CardProductChart, TableShows})
        EXCEPT !.exports = TableExports]

\* The terminals' rates show no failure.
TerminalRateTiles == TileShows
TerminalRateHealth == [loading |-> "covers", nothing |-> "says", failure |-> "no"]
TerminalRateBusiest == BlankShows
TerminalRateDeclined == BlankShows
TerminalRateView ==
    [View(TerminalRateSlot, TerminalRatePage,
          {TerminalRateTiles, TerminalRateHealth, TerminalRateBusiest, TerminalRateDeclined,
           TableShows}) EXCEPT !.toasts = FALSE, !.exports = TableExports]

-----------------------------------------------------------------------------
\* A caption above the table says that the transactions load, why they failed, or how
\* many there are.
SuccessBrowseCaption == [loading |-> "covers", nothing |-> "says", failure |-> "beside"]
SuccessBrowseView ==
    [View(SuccessBrowseSlot, SuccessBrowseSheet, {SuccessBrowseCaption, TableShows}) EXCEPT
        !.toasts = FALSE, !.exports = TableExports]

\* Where a skeleton covers the first answer only, the last one stays in the tiles and
\* charts while the table says that it is loading.
EbirrTiles == FirstShows
EbirrByTerminal == FirstShows
EbirrView ==
    [View(EbirrSlot, EbirrPage, {EbirrTiles, EbirrByTerminal, TableShows}) EXCEPT
        !.exports = TableExports]

TerminalTransactionsTiles == FirstShows
TerminalTransactionsView ==
    [View(TerminalTransactionsSlot, TerminalTransactionsPage,
          {TerminalTransactionsTiles, TableShows}) EXCEPT !.exports = TableExports]
TerminalTransactionsRouteView ==
    [TerminalTransactionsView EXCEPT !.screen = TerminalTransactionsRoute]

ComparisonTiles == FirstShows
ComparisonPerformers == FirstShows
ComparisonView ==
    [View(ComparisonSlot, ComparisonPage, {ComparisonTiles, ComparisonPerformers, TableShows})
        EXCEPT !.exports = TableExports]

CoverageTiles == FirstShows
CoverageDays == FirstShows
CoverageView ==
    [View(CoverageSlot, CoveragePage, {CoverageTiles, CoverageDays, TableShows}) EXCEPT
        !.exports = TableExports]

\* Deposits: a table on their own page, a chart or the error on the home page.
DepositView == [View(DepositSlot, DepositPage, {TableShows}) EXCEPT !.exports = TableExports]
DepositHomePanel == [loading |-> "covers", nothing |-> "says", failure |-> "instead"]
DepositHomeView ==
    [View(DepositSlot, DepositHome, {DepositHomePanel}) EXCEPT !.toasts = FALSE]

-----------------------------------------------------------------------------
\* The fleets: a table on one page, tiles, charts and a table of districts on another.
AtmTerminalsView ==
    [View(AtmTerminalsSlot, AtmTerminalsPage, {TableShows}) EXCEPT !.exports = TableExports]
PosTerminalsView ==
    [View(PosTerminalsSlot, PosTerminalsPage, {TableShows}) EXCEPT !.exports = TableExports]

FleetChange == [loading |-> "covers", nothing |-> "says", failure |-> "no"]
FleetPie == [loading |-> "covers", nothing |-> "says", failure |-> "no"]
FleetRankList == FleetPie
FleetStackedBar == FleetPie
AtmDistricts == FleetPie
PosDistricts == FleetPie
AtmDashboardView ==
    View(AtmTerminalsSlot, AtmDashboard,
         {TileShows, FleetChange, FleetPie, FleetStackedBar, FleetRankList, AtmDistricts})
PosDashboardView ==
    View(PosTerminalsSlot, PosDashboard,
         {TileShows, FleetChange, FleetPie, FleetStackedBar, FleetRankList, PosDistricts})

ReportViews ==
    {SuccessRateView, SuccessRateHomeView, TrendView, MixView, CardProductView, TerminalRateView,
     SuccessBrowseView, EbirrView, TerminalTransactionsView, TerminalTransactionsRouteView,
     ComparisonView, CoverageView, DepositView, DepositHomeView, AtmTerminalsView,
     PosTerminalsView, AtmDashboardView, PosDashboardView}
=============================================================================
