---------------------------- MODULE LatestAnswer ----------------------------
(***************************************************************************)
(* What a screen of the portal promises about the data it shows.  The user *)
(* asks; the next thing shown is the first page of the answer to exactly   *)
(* that question, later pages follow one by one, and a failure is shown as *)
(* a failure.  Nothing that was asked earlier ever comes back.             *)
(***************************************************************************)
EXTENDS Naturals

CONSTANTS Queries, None

VARIABLES
    asked,      \* what the controls of the screen say, or None
    status,     \* "idle", "waiting", "shown" or "failed"
    pages       \* how many pages of the answer to `asked' are shown

vars == <<asked, status, pages>>

Init == asked = None /\ status = "idle" /\ pages = 0

Ask(q) == asked' = q /\ status' = "waiting" /\ pages' = 0

Leave == asked' = None /\ status' = "idle" /\ pages' = 0

First == status = "waiting" /\ status' = "shown" /\ pages' = 1 /\ asked' = asked

More == status = "shown" /\ pages' = pages + 1 /\ UNCHANGED <<asked, status>>

\* A failure may keep the pages that are there or take them away.
Fail ==
    /\ status \in {"waiting", "shown"}
    /\ status' = "failed" /\ pages' \in {0, pages} /\ asked' = asked

\* A later page may be asked for again after it failed.
Resume == status = "failed" /\ pages > 0 /\ status' = "shown" /\ UNCHANGED <<asked, pages>>

Next ==
    \/ \E q \in Queries : Ask(q)
    \/ Leave
    \/ First
    \/ More
    \/ Fail
    \/ Resume

Spec == Init /\ [][Next]_vars
=============================================================================
