----------------------------- MODULE SearchViews -----------------------------
(***************************************************************************)
(* How the transaction searches and the journal browser show their slots,  *)
(* in the terms of Sight.                                                  *)
(***************************************************************************)
EXTENDS SearchSlots, ViewHabits

\* The hint of a search stands where its table would: what to do, the error, or that
\* there are no rows.  The submit button and the one for more say when they wait.
CortexSearchHint == [loading |-> "covers", nothing |-> "says", failure |-> "instead"]
CortexSearchForm == [loading |-> "marks", nothing |-> "blank", failure |-> "instead"]
CortexSearchResults == [loading |-> "covers", nothing |-> "blank", failure |-> "instead"]
CortexSearchView ==
    [View(CortexSearchSlot, CortexSearchPage,
          {CortexSearchHint, CortexSearchForm, CortexSearchResults}) EXCEPT
        !.toasts = FALSE, !.more = TRUE, !.exports = {"idle"}]

CortexDetailView ==
    [View(CortexDetailSlot, CortexDetailSheet,
          {[loading |-> "covers", nothing |-> "blank", failure |-> "instead"]}) EXCEPT
        !.toasts = FALSE]

SwitchSearchHint == CortexSearchHint
SwitchSearchForm == CortexSearchForm
SwitchSearchResults == CortexSearchResults
SwitchSearchView ==
    [View(SwitchSearchSlot, SwitchSearchPage,
          {SwitchSearchHint, SwitchSearchForm, SwitchSearchResults}) EXCEPT
        !.toasts = FALSE, !.more = TRUE, !.exports = {"idle"}]

SwitchDetailView ==
    [View(SwitchDetailSlot, SwitchDetailSheet,
          {[loading |-> "covers", nothing |-> "blank", failure |-> "instead"]}) EXCEPT
        !.toasts = FALSE]

-----------------------------------------------------------------------------
\* The table of the journal search says that there are no results while it is searching;
\* only the submit button tells them apart.
EJSearchHint == [loading |-> "covers", nothing |-> "says", failure |-> "instead"]
EJSearchForm == [loading |-> "marks", nothing |-> "blank", failure |-> "instead"]
EJSearchResults == [loading |-> "keeps", nothing |-> "says", failure |-> "instead"]
EJSearchView ==
    [View(EJSearchSlot, EJSearchPage, {EJSearchHint, EJSearchForm, EJSearchResults}) EXCEPT
        !.toasts = FALSE, !.more = TRUE, !.exports = {"idle", "more"}]

\* The viewer of journals, for a block and for a file.
JournalViewer == [loading |-> "covers", nothing |-> "blank", failure |-> "instead"]
EJJournalView ==
    [View(EJJournalSlot, EJJournalSheet, {JournalViewer}) EXCEPT !.toasts = FALSE]
EJFileView == [View(EJFileSlot, EJFileSheet, {JournalViewer}) EXCEPT !.toasts = FALSE]
BrowseJournalView ==
    [View(BrowseJournalSlot, BrowseJournalSheet, {JournalViewer}) EXCEPT !.toasts = FALSE]

\* Journals by terminal: a hint instead of the terminals, or of the files of one.
BrowseHint == EJSearchHint
BrowseForm == [loading |-> "marks", nothing |-> "blank", failure |-> "instead"]
BrowseTable == [loading |-> "covers", nothing |-> "says", failure |-> "instead"]
BrowseTerminalsView ==
    [View(BrowseTerminalsSlot, BrowseTerminalsPage, {BrowseHint, BrowseForm, BrowseTable}) EXCEPT
        !.toasts = FALSE, !.exports = {"idle"}]
BrowseFilesView ==
    [View(BrowseFilesSlot, BrowseFilesPage, {BrowseHint, BrowseTable}) EXCEPT
        !.toasts = FALSE, !.exports = {"idle"}]

SearchViews ==
    {CortexSearchView, CortexDetailView, SwitchSearchView, SwitchDetailView, EJSearchView,
     EJJournalView, EJFileView, BrowseJournalView, BrowseTerminalsView, BrowseFilesView}
=============================================================================
