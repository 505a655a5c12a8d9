----------------------------- MODULE ListViews -----------------------------
(***************************************************************************)
(* How the clearing, settlement, card and prepaid Visa screens show their  *)
(* slots, in the terms of Sight.                                           *)
(***************************************************************************)
EXTENDS ListSlots, ViewHabits

\* Lists of clearing and settlement: a banner while pages follow, a notice at the limit.
ClearedView ==
    [View(ClearedSlot, ClearedPage, {TableShows}) EXCEPT
        !.notice = TRUE, !.more = TRUE, !.exports = TableExports \ {"more"}]
UnclearedView ==
    [View(UnclearedSlot, UnclearedPage, {TableShows}) EXCEPT
        !.notice = TRUE, !.more = TRUE, !.exports = TableExports \ {"more"}]
SettledView ==
    [View(SettledSlot, SettledPage, {TableShows}) EXCEPT
        !.notice = TRUE, !.more = TRUE, !.exports = TableExports \ {"more"}]
UnsettledView ==
    [View(UnsettledSlot, UnsettledPage, {TableShows}) EXCEPT
        !.notice = TRUE, !.more = TRUE, !.exports = TableExports \ {"more"}]

\* Records of a settlement file: a caption says that they load, how many there are or
\* that there are none, under the error; nothing is handed to the table while it loads.
RecordsCaption == [loading |-> "covers", nothing |-> "says", failure |-> "beside"]
VisaRecordsView ==
    [View(VisaRecordsSlot, VisaRecordsPage, {RecordsCaption, TableShows}) EXCEPT
        !.toasts = FALSE, !.exports = {"idle"}]
IPMRecordsView ==
    [View(IPMRecordsSlot, IPMRecordsPage, {RecordsCaption, TableShows}) EXCEPT
        !.toasts = FALSE, !.exports = {"idle"}]

-----------------------------------------------------------------------------
\* Prepaid Visa.
TransactionsView ==
    [View(TransactionsSlot, TransactionsPage, {TileShows, TableShows}) EXCEPT
        !.notice = TRUE, !.more = TRUE, !.exports = TableExports \ {"more"}]
TopUpsView ==
    [View(TopUpsSlot, TopUpsPage, {TileShows, TableShows}) EXCEPT
        !.notice = TRUE, !.more = TRUE, !.exports = TableExports \ {"more"}]
UnloadsView ==
    [View(UnloadsSlot, UnloadsPage, {TileShows, TableShows}) EXCEPT
        !.notice = TRUE, !.more = TRUE, !.exports = TableExports \ {"more"}]

DashboardTiles == TileShows
DashboardChart == [loading |-> "covers", nothing |-> "says", failure |-> "no"]
DashboardMerchants == DashboardChart
DashboardProducts == DashboardChart
DashboardLinks == [loading |-> "covers", nothing |-> "blank", failure |-> "no"]
DashboardView ==
    View(DashboardSlot, DashboardPage,
         {DashboardTiles, DashboardChart, DashboardMerchants, DashboardProducts, DashboardLinks})

ReconcileView ==
    [View(ReconcileSlot, ReconcilePage, {TileShows, TableShows}) EXCEPT !.exports = TableExports]

\* The sheet of a card: an error takes the place of all its sections, and a section
\* that can grow has a button that says when it does.
CardSheetWallet == [loading |-> "covers", nothing |-> "blank", failure |-> "instead"]
CardSheetLedger == [loading |-> "covers", nothing |-> "says", failure |-> "instead"]
CardSheetView ==
    [View(CardSlot, CardSheet, {CardSheetWallet, CardSheetLedger}) EXCEPT !.more = TRUE]

\* The hint of a search takes the place of its table: what to do, the error, or no rows.
SearchHint == [loading |-> "covers", nothing |-> "says", failure |-> "instead"]
PrepaidSearchView ==
    [View(PrepaidSearchSlot, PrepaidSearchPage, {SearchHint}) EXCEPT !.exports = {"idle"}]

-----------------------------------------------------------------------------
\* Cards per status.  The health summary goes with the rows, which a request empties.
CardStatusHealth == [loading |-> "keeps", nothing |-> "blank", failure |-> "no"]
CardStatusView ==
    [View(CardStatusSlot, CardStatusPage, {TableShows, CardStatusHealth}) EXCEPT
        !.exports = TableExports]

\* Card activity.  The comparison of the range stays while another range loads.
ActivityTiles == TileShows
ActivityChart == [loading |-> "covers", nothing |-> "says", failure |-> "no"]
ActivityBreakdown == ActivityChart
ActivityComparison == [loading |-> "keeps", nothing |-> "blank", failure |-> "no"]
ActivityExport == {"idle"}
ActivityView ==
    [View(ActivitySlot, ActivityPage,
          {ActivityTiles, ActivityChart, ActivityBreakdown, ActivityComparison}) EXCEPT
        !.exports = ActivityExport]

\* Its branches: leaders, best and worst, and the list, which can be exported whenever
\* there is one.
BranchLeaders == [loading |-> "covers", nothing |-> "says", failure |-> "no"]
BranchRanks == BranchLeaders
BranchList == BranchLeaders
BranchExport == TableExports
ByBranchView ==
    [View(ByBranchSlot, ByBranchSection, {BranchLeaders, BranchRanks, BranchList}) EXCEPT
        !.exports = BranchExport]
BranchTrendView ==
    View(BranchTrendSlot, BranchTrendSection,
         {[loading |-> "covers", nothing |-> "says", failure |-> "no"]})

\* The cards behind a number.  The notice is worked out by the sheet itself.
CardDetailCaption == [loading |-> "covers", nothing |-> "says", failure |-> "instead"]
CardDetailView ==
    [View(CardDetailSlot, CardDetailSheet, {CardDetailCaption, TableShows}) EXCEPT
        !.notice = TRUE, !.more = TRUE, !.exports = TableExports \ {"more"}]

ListViews ==
    {ClearedView, UnclearedView, SettledView, UnsettledView, VisaRecordsView, IPMRecordsView,
     TransactionsView, TopUpsView, UnloadsView, DashboardView, ReconcileView, CardSheetView,
     PrepaidSearchView, CardStatusView, ActivityView, ByBranchView, BranchTrendView,
     CardDetailView}
=============================================================================
