------------------------------- MODULE Sight -------------------------------
(***************************************************************************)
(* What the user sees of a request slot.  The habits of RequestSlot say    *)
(* what the store holds; a view says how a screen's markup shows it:       *)
(*                                                                         *)
(*   slot, screen   whose view it is                                       *)
(*   parts          the tables, tiles, charts and texts, each of them with *)
(*     loading      a skeleton instead of the rows ("covers"), only while  *)
(*                  there are none ("first"), a sign beside them ("marks") *)
(*                  or nothing ("keeps")                                   *)
(*     nothing      without rows it says that there are none, is blank, or *)
(*                  waits for some with a skeleton or a spinner            *)
(*     failure      the error is shown "instead" of the rows, "beside"     *)
(*                  them, or not                                           *)
(*   toasts         a failure is announced                                 *)
(*   compares       the page shows only an answer whose own range and kind *)
(*                  are those of its controls                              *)
(*   notice         a list that stopped at the page limit says so          *)
(*   more           a banner or button says that pages are on their way    *)
(*   exports        when the rows can be exported: "idle", "loading" or    *)
(*                  while "more" are fetched                               *)
(***************************************************************************)
EXTENDS RequestSlot

CONSTANTS
    Views,      \* what the screens show of the slots
    Silent,     \* those of them that show no sign of loading, or none of a failure
    Lingering,  \* those that leave an older answer under the announcement of a failure
    Endless     \* those that go on waiting after a failure

Parts ==
    [loading : {"covers", "first", "marks", "keeps"}, nothing : {"says", "blank", "waits"},
     failure : {"instead", "beside", "no"}]

ASSUME ViewAssumption ==
    /\ \A v \in Views : /\ v.slot \in Slots /\ v.screen \in v.slot.screens
                        /\ v.parts \subseteq Parts /\ v.parts # {}
                        /\ v.toasts \in BOOLEAN /\ v.compares \in BOOLEAN
                        /\ v.notice \in BOOLEAN /\ v.more \in BOOLEAN
                        /\ v.exports \subseteq {"idle", "loading", "more"}
    /\ Silent \cup Lingering \cup Endless \subseteq Views

\* What the views have in common, but for the exceptions: a sign of loading (a part that
\* is covered until the first answer shows one if its slot drops the old rows), a sign of
\* a failure, no older rows in a part that shows no failure, no waiting after a failure.
ASSUME SignAssumption ==
    /\ \A v \in Views \ Silent :
          /\ \E p \in v.parts : \/ p.loading \in {"covers", "marks"}
                                \/ p.loading = "first" /\ v.slot.slice.drops = "all"
          /\ v.toasts \/ \E p \in v.parts : p.failure # "no"
    /\ \A v \in Views \ Lingering : \A p \in v.parts :
          p.failure = "no" => v.slot.slice.drops = "all" \/ v.slot.slice.wipes # "never"
    /\ \A v \in Views \ Endless : \A p \in v.parts :
          p.nothing = "waits" => p.failure = "instead"

\* Where a loop fetches the rows there is a notice at its limit, and nothing is exported
\* before it ends.
ASSUME ExportAssumption ==
    \A v \in Views \ Silent :
        v.screen.paging = "auto" /\ v.exports # {} => v.notice /\ "more" \notin v.exports

ViewsOf == [s \in Slots |-> [sc \in s.screens |-> {v \in Views : v.slot = s /\ v.screen = sc}]]

-----------------------------------------------------------------------------
(* What a view makes of the store.                                         *)

\* The rows, unless they fail the comparison with the controls.
Matched(v) ==
    IF v.compares /\ \E i \in DOMAIN store.rows : store.rows[i].query # asked THEN <<>> ELSE store.rows

\* Mutant: older rows are shown as they are while the new ones load.
Covered_First(v, p) == store.loading /\ p.loading \in {"covers", "first"} /\ Matched(v) = <<>>

Covered(v, p) ==
    /\ store.loading
    /\ p.loading = "covers" \/ (p.loading = "first" /\ Matched(v) = <<>>)

Hidden(v, p) == Covered(v, p) \/ (store.failed /\ p.failure = "instead")

Seen(v, p) == IF Hidden(v, p) THEN <<>> ELSE Matched(v)

Nothing(v, p, how) == ~Hidden(v, p) /\ Matched(v) = <<>> /\ p.nothing = how

\* The screen says that something is still to come, or went wrong.
Busy(v) ==
    \/ store.more /\ v.more
    \/ \E p \in v.parts :
          Covered(v, p) \/ (store.loading /\ p.loading = "marks") \/ Nothing(v, p, "waits")

Trouble(v) == store.failed /\ (v.toasts \/ \E p \in v.parts : p.failure # "no")

\* The list says that it is not the whole answer.
Notice(v) ==
    /\ v.notice
    /\ \/ store.truncated
       \/ store.hasMore /\ store.rows # <<>> /\ store.rows[Len(store.rows)].page >= MaxAutoPages

Phase_NoMore == IF store.loading THEN "loading" ELSE "idle" \* mutant: later pages are forgotten

Phase == IF store.loading THEN "loading" ELSE IF store.more THEN "more" ELSE "idle"

CanExport(v) == Phase \in v.exports

\* The user took over from the loop by a button of the sheet, which goes on offering the
\* next page: nothing else says that the rows are not all.
TakenOver(v) ==
    v.screen.buttons /\ store.hasMore /\ ~store.rows[Len(store.rows)].looped

-----------------------------------------------------------------------------
(* What the user may conclude.                                             *)

\* The question was asked on a screen whose store keeps late answers away, or while no
\* other request was under way.
Undisturbed == (Protected \/ ~overlapped) /\ open /\ asked # None

\* Every row a screen shows answers what its controls say, and a screen that says there
\* is nothing has been told so, unless it also says that it is loading or has failed.
SeenIsTrue ==
    Undisturbed =>
        \A v \in ViewsOf[slot][screen] \ Silent :
            \/ Busy(v) \/ Trouble(v)
            \/ \A p \in v.parts : ~Nothing(v, p, "says") /\ PagesOf(Seen(v, p), asked)

\* After a failure, which may have been announced minutes ago, a screen shows no rows of
\* an older answer under the new controls.
FailureLeavesNothingOld ==
    Undisturbed /\ store.failed /\ ~store.loading =>
        \A v \in ViewsOf[slot][screen] \ Lingering :
            \A p \in v.parts : p.failure = "no" => PagesOf(Seen(v, p), asked)

\* A screen that has asked and still waits has a request under way.
WaitsForSomething ==
    Undisturbed =>
        \A v \in ViewsOf[slot][screen] \ Endless : Busy(v) => \E r \in flight : ~r.aborted

\* What can be exported is the answer to what the controls say, from the first page on;
\* where a loop fetches the pages it is all of it, or a notice or a failure says otherwise,
\* until the user takes over by a button.  (While a slot that keeps its rows is loading, the
\* export offers those.)
ExportsAreWhole ==
    Undisturbed =>
        \A v \in ViewsOf[slot][screen] \ Silent :
            CanExport(v) /\ (store.loading => slot.slice.drops = "all") =>
                \/ Trouble(v)
                \/ /\ PagesOf(store.rows, asked)
                   /\ screen.paging = "auto" /\ store.rows # <<>> =>
                        Notice(v) \/ TakenOver(v) \/ store.rows[Len(store.rows)].last
=============================================================================
