----------------------------- MODULE HomeScreens -----------------------------
(***************************************************************************)
(* The home pages of the card and of the reconciliation teams.  Their      *)
(* requests are kept in the component, not in the store: leaving the page  *)
(* forgets everything, and the cleanup of the one effect aborts all of     *)
(* them.  A question is the session: a refreshed one asks again.           *)
(***************************************************************************)
EXTENDS SlotHabits, ViewHabits

HomePage == [PlainPage EXCEPT !.cancel = "abort", !.leaves = TRUE]

\* An answer or a failure that comes after the abort is dropped.
HomeSlice ==
    [PlainSlice EXCEPT !.wipes = "always", !.aborted = "ignore",
                       !.clears = {"rows", "loading", "owner"}]

\* Card activity, inventory and prepaid Visa; every one has a timeout.
HomeActivityThunk == [PlainThunk EXCEPT !.timed = TRUE]
HomeActivitySlice == HomeSlice
CardHomePage == HomePage
HomeActivitySlot ==
    [thunk |-> HomeActivityThunk, slice |-> HomeActivitySlice, screens |-> {CardHomePage}]
HomeTile == TileShows
HomeActivityTiles == [HomeTile EXCEPT !.failure = "beside"]
HomeActivityChart == [loading |-> "covers", nothing |-> "says", failure |-> "instead"]
HomeActivityView ==
    [View(HomeActivitySlot, CardHomePage, {HomeActivityTiles, HomeActivityChart}) EXCEPT
        !.toasts = FALSE]

HomeInventoryThunk == HomeActivityThunk
HomeInventorySlice == HomeSlice
HomeInventorySlot ==
    [thunk |-> HomeInventoryThunk, slice |-> HomeInventorySlice, screens |-> {CardHomePage}]
HomeInventoryTiles == HomeActivityTiles
HomeInventoryMix == HomeActivityChart
HomeInventoryView ==
    [View(HomeInventorySlot, CardHomePage, {HomeInventoryTiles, HomeInventoryMix}) EXCEPT
        !.toasts = FALSE]

HomePrepaidThunk == HomeActivityThunk
HomePrepaidSlice == HomeSlice
HomePrepaidSlot ==
    [thunk |-> HomePrepaidThunk, slice |-> HomePrepaidSlice, screens |-> {CardHomePage}]
HomePrepaidTiles == HomeActivityTiles
HomePrepaidView ==
    [View(HomePrepaidSlot, CardHomePage, {HomePrepaidTiles}) EXCEPT !.toasts = FALSE]

-----------------------------------------------------------------------------
\* The queue of one scheme, uncleared or unsettled: asking empties its row.  The tiles add
\* the rows up, one that failed counting as nothing; its row says that it is unavailable.
QueueThunk == [PlainThunk EXCEPT !.timed = TRUE]
UnclearedQueueSlice == [HomeSlice EXCEPT !.drops = "all", !.wipes = "never"]
UnsettledQueueSlice == UnclearedQueueSlice
ReconHomePage == HomePage
UnclearedQueueSlot ==
    [thunk |-> QueueThunk, slice |-> UnclearedQueueSlice, screens |-> {ReconHomePage}]
UnsettledQueueSlot ==
    [thunk |-> QueueThunk, slice |-> UnsettledQueueSlice, screens |-> {ReconHomePage}]
QueueTable == [loading |-> "covers", nothing |-> "says", failure |-> "instead"]
ReconTile == TileShows
UnclearedTiles == ReconTile
UnsettledTiles == ReconTile
UnclearedQueueView ==
    [View(UnclearedQueueSlot, ReconHomePage, {UnclearedTiles, QueueTable}) EXCEPT !.toasts = FALSE]
UnsettledQueueView ==
    [View(UnsettledQueueSlot, ReconHomePage, {UnsettledTiles, QueueTable}) EXCEPT !.toasts = FALSE]

\* Journals of today, without a timeout.
HomeCoverageThunk == PlainThunk
HomeCoverageSlice == HomeSlice
HomeCoverageSlot ==
    [thunk |-> HomeCoverageThunk, slice |-> HomeCoverageSlice, screens |-> {ReconHomePage}]
HomeCoverageTiles == [ReconTile EXCEPT !.failure = "beside"]
HomeCoverageMix == [loading |-> "covers", nothing |-> "says", failure |-> "beside"]
HomeCoverageView ==
    [View(HomeCoverageSlot, ReconHomePage, {HomeCoverageTiles, HomeCoverageMix}) EXCEPT
        !.toasts = FALSE]

HomeSlots ==
    {HomeActivitySlot, HomeInventorySlot, HomePrepaidSlot, UnclearedQueueSlot, UnsettledQueueSlot,
     HomeCoverageSlot}

HomeViews ==
    {HomeActivityView, HomeInventoryView, HomePrepaidView, UnclearedQueueView, UnsettledQueueView,
     HomeCoverageView}
=============================================================================
