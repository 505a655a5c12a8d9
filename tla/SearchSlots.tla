---------------------------- MODULE SearchSlots ----------------------------
(***************************************************************************)
(* The request slots of the transaction searches and of the journal        *)
(* browser, by the habits RequestSlot distinguishes.  The journal thunks   *)
(* take an abort signal that no screen uses.                               *)
(***************************************************************************)
EXTENDS SlotHabits

\* A search is submitted by a button that is disabled while it runs and grows by a
\* button; an aborted one would settle without an error.
CortexSearchThunk == [paged |-> TRUE, timed |-> TRUE]
CortexSearchSlice ==
    [PlainSlice EXCEPT !.claims = "id", !.drops = "all", !.wipes = "first", !.aborted = "settle",
                       !.clears = {"rows", "loading", "owner"}]
CortexSearchPage ==
    [PlainPage EXCEPT !.starts = "submit", !.paging = "ask", !.opens = FALSE, !.empties = "idle"]
CortexSearchSlot ==
    [thunk |-> CortexSearchThunk, slice |-> CortexSearchSlice, screens |-> {CortexSearchPage}]

\* The detail of a row; closing its sheet clears it.
CortexDetailThunk == [PlainThunk EXCEPT !.timed = TRUE]
CortexDetailSlice == [CortexSearchSlice EXCEPT !.wipes = "always"]
CortexDetailSheet == [PlainPage EXCEPT !.starts = "sheet", !.opens = FALSE, !.empties = "clears"]
CortexDetailSlot ==
    [thunk |-> CortexDetailThunk, slice |-> CortexDetailSlice, screens |-> {CortexDetailSheet}]

\* In the switch search the pages of older and older windows follow those of the first.
SwitchSearchThunk == CortexSearchThunk
SwitchSearchSlice == CortexSearchSlice
SwitchSearchPage == CortexSearchPage
SwitchSearchSlot ==
    [thunk |-> SwitchSearchThunk, slice |-> SwitchSearchSlice, screens |-> {SwitchSearchPage}]

SwitchDetailThunk == CortexDetailThunk
SwitchDetailSlice == CortexDetailSlice
SwitchDetailSheet == CortexDetailSheet
SwitchDetailSlot ==
    [thunk |-> SwitchDetailThunk, slice |-> SwitchDetailSlice, screens |-> {SwitchDetailSheet}]

-----------------------------------------------------------------------------
\* Journal transactions.  The button that clears is not disabled while a search runs.
EJSearchThunk == [PlainThunk EXCEPT !.paged = TRUE]
EJSearchSlice ==
    [PlainSlice EXCEPT !.claims = "id", !.drops = "all", !.aborted = "ignore",
                       !.clears = {"rows", "loading", "owner"}]
EJSearchPage ==
    [PlainPage EXCEPT !.starts = "submit", !.paging = "ask", !.opens = FALSE, !.empties = "clears"]
EJSearchSlot == [thunk |-> EJSearchThunk, slice |-> EJSearchSlice, screens |-> {EJSearchPage}]

\* The journal block of a row, and the whole file: any answer is adopted.
EJJournalThunk == PlainThunk
EJJournalSlice ==
    [PlainSlice EXCEPT !.heals = TRUE, !.wipes = "always", !.aborted = "ignore",
                       !.clears = {"rows", "loading"}]
EJJournalSheet == [PlainPage EXCEPT !.starts = "sheet", !.opens = FALSE, !.empties = "clears"]
EJJournalSlot == [thunk |-> EJJournalThunk, slice |-> EJJournalSlice, screens |-> {EJJournalSheet}]

EJFileThunk == EJJournalThunk
EJFileSlice == EJJournalSlice
EJFileSheet == EJJournalSheet
EJFileSlot == [thunk |-> EJFileThunk, slice |-> EJFileSlice, screens |-> {EJFileSheet}]

-----------------------------------------------------------------------------
\* Journals by terminal: the terminals of a range, the files of one of them (whose
\* error is kept with the terminals') and a file.
BrowseTerminalsThunk == PlainThunk
BrowseTerminalsSlice ==
    [PlainSlice EXCEPT !.drops = "all", !.wipes = "always", !.aborted = "ignore",
                       !.clears = {"rows", "loading", "owner"}]
BrowseTerminalsPage == [PlainPage EXCEPT !.starts = "submit", !.opens = FALSE, !.empties = "clears"]
BrowseTerminalsSlot ==
    [thunk |-> BrowseTerminalsThunk, slice |-> BrowseTerminalsSlice,
     screens |-> {BrowseTerminalsPage}]

BrowseFilesThunk == PlainThunk
BrowseFilesSlice == [BrowseTerminalsSlice EXCEPT !.clears = {"rows", "loading"}]
BrowseFilesPage == [PlainPage EXCEPT !.starts = "pick", !.opens = FALSE, !.empties = "clears"]
BrowseFilesSlot ==
    [thunk |-> BrowseFilesThunk, slice |-> BrowseFilesSlice, screens |-> {BrowseFilesPage}]

BrowseJournalThunk == [PlainThunk EXCEPT !.timed = TRUE]
BrowseJournalSlice == BrowseFilesSlice
BrowseJournalSheet == [BrowseFilesPage EXCEPT !.starts = "sheet"]
BrowseJournalSlot ==
    [thunk |-> BrowseJournalThunk, slice |-> BrowseJournalSlice, screens |-> {BrowseJournalSheet}]

SearchSlots ==
    {CortexSearchSlot, CortexDetailSlot, SwitchSearchSlot, SwitchDetailSlot, EJSearchSlot,
     EJJournalSlot, EJFileSlot, BrowseTerminalsSlot, BrowseFilesSlot, BrowseJournalSlot}
=============================================================================
