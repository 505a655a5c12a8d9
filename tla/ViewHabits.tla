----------------------------- MODULE ViewHabits -----------------------------
(***************************************************************************)
(* The pieces the screens are put together from.  A part of a screen says  *)
(* what it shows while the slot is loading, when there are no rows, and    *)
(* after a failure; Sight explains the fields.                             *)
(***************************************************************************)

\* The shared table: skeleton rows while loading, "No results." without rows.
TableShows == [loading |-> "covers", nothing |-> "says", failure |-> "no"]

\* The shared tile: a skeleton while loading, otherwise its number, 0 or "-".
TileShows == [loading |-> "covers", nothing |-> "says", failure |-> "no"]

\* What the table offers to export: the rows it was given, whenever there is a table.
TableExports == {"idle", "loading", "more"}

\* A skeleton only until there is an answer; afterwards the last one stays.
FirstShows == [loading |-> "first", nothing |-> "says", failure |-> "no"]

\* A chart that is left blank, or not drawn, when there is nothing to draw.
BlankShows == [loading |-> "covers", nothing |-> "blank", failure |-> "no"]

View(s, sc, ps) ==
    [slot |-> s, screen |-> sc, parts |-> ps, toasts |-> TRUE, compares |-> FALSE,
     notice |-> FALSE, more |-> FALSE, exports |-> {}]
=============================================================================
