---------------------------- MODULE RequestSlot ----------------------------
(***************************************************************************)
(* One request slot of the frontend: the part of the Redux store that      *)
(* holds the answer to one kind of request (a slice of features), the      *)
(* requests under way for it, and the screens that ask for it.  Every slot *)
(* follows one of a few habits, and the habits decide what a late answer   *)
(* can do.  A slot is a record of                                          *)
(*                                                                         *)
(*   thunk.paged    the answer is one page and says whether more follow    *)
(*   thunk.timed    the request is given up after a timeout                *)
(*                                                                         *)
(*   slice.claims   which answers the reducers adopt: "id" those of the    *)
(*                  request that is pending last, "group" those whose      *)
(*                  argument (channel, branch) is the one last set, "rows" *)
(*                  as "group", but any answer ends the loading, "none"    *)
(*                  all of them                                            *)
(*   slice.drops    a new first page drops the old rows at once: "all",    *)
(*                  "group" (when the metric changes) or "no"              *)
(*   slice.heals    a fulfilled request removes an earlier error           *)
(*   slice.wipes    whether a failure removes the rows: "always", "first"  *)
(*                  (of a first page only) or "never"                      *)
(*   slice.aborted  what an aborted request does: nothing ("ignore"), end  *)
(*                  the loading without an error ("settle"), or what a     *)
(*                  failure does ("fail")                                  *)
(*   slice.marks    a list that stops at the page limit says so            *)
(*   slice.dedups   rows that are already there are not appended again     *)
(*   slice.clears   what the slice's clear action resets                   *)
(*                                                                         *)
(* and of the screens that show it, each of them                           *)
(*                                                                         *)
(*   starts         a request starts when the controls change ("effect"),  *)
(*                  by a button that is disabled while loading ("submit"), *)
(*                  by choosing a row ("pick"), or so that the answer is   *)
(*                  shown in a sheet that covers the screen ("sheet")      *)
(*   cancel         what happens to the requests of the previous question: *)
(*                  "abort", "stop" (only the page loop ends) or "none"    *)
(*   paging         later pages are fetched by a loop ("auto"), by a       *)
(*                  button ("ask"), or not ("none")                        *)
(*   buttons        a sheet has buttons of its own: one asks again, one    *)
(*                  for the page after those the loop has fetched          *)
(*   opens          the screen asks as soon as it is opened                *)
(*   empties        whether the controls can be emptied, so that nothing   *)
(*                  is asked: "no", "keeps" the store, "clears" it, or     *)
(*                  "idle": clears it by a button disabled while loading   *)
(*   leaves         leaving the screen dispatches the clear action         *)
(***************************************************************************)
EXTENDS Naturals, Sequences, FiniteSets

CONSTANTS
    Slots,          \* the slots of the frontend
    Queries,        \* what the controls can say: ranges, products, ids ...
    Group,          \* the channel or branch of a query
    None,
    MaxAutoPages,   \* the page limit of the loops (20 in the code)
    LastPage,       \* bound: pages the server has
    MaxFlight       \* bound: requests that are under way at once

Thunks == [paged : BOOLEAN, timed : BOOLEAN]

Slices ==
    [claims : {"id", "group", "rows", "none"}, drops : {"all", "group", "no"}, heals : BOOLEAN,
     wipes : {"always", "first", "never"}, aborted : {"ignore", "settle", "fail"},
     marks : BOOLEAN, dedups : BOOLEAN, clears : SUBSET {"rows", "loading", "owner"}]

Screens ==
    [starts : {"effect", "submit", "pick", "sheet"}, cancel : {"abort", "stop", "none"},
     paging : {"auto", "ask", "none"}, buttons : BOOLEAN, opens : BOOLEAN,
     empties : {"no", "keeps", "clears", "idle"}, leaves : BOOLEAN]

ASSUME SlotAssumption ==
    /\ \A s \in Slots : /\ s = [thunk |-> s.thunk, slice |-> s.slice, screens |-> s.screens]
                        /\ s.thunk \in Thunks /\ s.slice \in Slices
                        /\ s.screens \subseteq Screens
    /\ None \notin Queries
    /\ DOMAIN Group = Queries
    /\ MaxAutoPages \in Nat \ {0} /\ LastPage \in Nat \ {0} /\ MaxFlight \in Nat

\* A habit keeps late answers away from a protected slot: it compares the request's
\* id, or every screen aborts what it no longer waits for.
ProtectedSlot(s) ==
    \/ s.slice.claims = "id"
    \/ \A sc \in s.screens : sc.cancel = "abort"

\* What goes together in every slot.  Where a screen aborts, the slice ignores what was
\* aborted or knows it by its id; a list that grows by a button starts from nothing and
\* compares ids; a slice that says where a list stops has screens that all fetch by a loop;
\* a slice that drops by group adopts every answer; a slice that settles what was aborted
\* does not forget the owner of a loading alone.
ASSUME HabitAssumption ==
    \A s \in Slots :
        /\ \A sc \in s.screens :
              /\ sc.cancel = "abort" => s.slice.claims = "id" \/ s.slice.aborted = "ignore"
              /\ sc.paging = "ask" => s.slice.claims = "id" /\ s.slice.drops = "all"
              /\ s.slice.marks => sc.paging = "auto"
        /\ s.slice.drops = "group" => s.slice.claims = "none"
        /\ s.slice.aborted = "settle" /\ "owner" \in s.slice.clears => "loading" \in s.slice.clears

\* In a protected slot a page loop stops with its question, and is the only way to page.
ASSUME LoopAssumption ==
    \A s \in Slots : ProtectedSlot(s) =>
        \A sc, o \in s.screens :
            /\ ~o.buttons
            /\ sc.paging = "auto" => o.cancel # "none" /\ o.paging # "ask"

\* Controls that are emptied by a clear action which ends the loading belong to screens
\* that abort nothing, or to a slice that takes notice of what is aborted.
ASSUME ClearAssumption ==
    \A s \in Slots : \A sc, o \in s.screens :
        sc.empties = "clears" /\ "loading" \in s.slice.clears /\ o.cancel = "abort"
            => s.slice.aborted # "ignore"

VARIABLES
    slot,       \* the slot this behaviour is about; it never changes
    open,       \* a screen of the slot is mounted
    screen,     \* which one, or the last that was
    asked,      \* what its controls say, or None
    store,      \* the slot's part of the Redux store
    flight,     \* requests that are not settled
    overlapped  \* a request was under way when the last question was sent, or since, or
                \* a page was then added to rows that do not answer it

vars == <<slot, open, screen, asked, store, flight, overlapped>>

-----------------------------------------------------------------------------
(* The store and its reducers.                                             *)

\* A request in flight has an id; the ids of settled requests are used again.
Ids == 1 .. MaxFlight + 1

NoOwner == [id |-> 0, query |-> None]

Empty ==
    [rows |-> <<>>, loading |-> FALSE, more |-> FALSE, failed |-> FALSE,
     hasMore |-> FALSE, truncated |-> FALSE, owner |-> NoOwner]

Request == [id : Ids, query : Queries, page : 1 .. LastPage, live : BOOLEAN, aborted : BOOLEAN]

\* looped: a loop fetched it that was not stopped before.
Page == [query : Queries, page : 1 .. LastPage, last : BOOLEAN, looped : BOOLEAN]

\* The rows are the pages 1, 2, ... of the answer to q.
PagesOf(rows, q) == \A i \in DOMAIN rows : rows[i].query = q /\ rows[i].page = i

SameGroup(s, r) == s.owner.query # None /\ Group[s.owner.query] = Group[r.query]

Ends_Any(s, r) == slot.slice.claims = "group" => SameGroup(s, r) \* mutant: the id is not compared

\* What settles request r ends the loading, and is adopted.
Ends(s, r) ==
    \/ slot.slice.claims \in {"none", "rows"}
    \/ slot.slice.claims = "id" /\ s.owner.id = r.id
    \/ slot.slice.claims = "group" /\ SameGroup(s, r)

Adopts(s, r) == Ends(s, r) /\ (slot.slice.claims = "rows" => SameGroup(s, r))

\* What a slice that drops by group is told before a new question is sent.
Prepared(s, q) ==
    LET named == [s EXCEPT !.owner.query = q]
    IN  IF slot.slice.drops # "group" THEN s
        ELSE IF s.owner.query # None /\ Group[s.owner.query] = Group[q] THEN named
        ELSE [named EXCEPT !.rows = <<>>, !.hasMore = FALSE, !.truncated = FALSE, !.failed = FALSE]

\* pending.  A first page of a slot that drops starts from an empty list.
Pending(s, r) ==
    LET owner == [id |-> r.id,
                  query |-> IF slot.slice.drops = "group" THEN s.owner.query ELSE r.query]
        claimed == [s EXCEPT !.failed = FALSE, !.owner = owner]
        first == [claimed EXCEPT !.loading = TRUE]
    IN  IF r.page > 1 THEN [claimed EXCEPT !.more = TRUE]
        ELSE IF slot.slice.drops = "all"
        THEN [first EXCEPT !.rows = <<>>, !.hasMore = FALSE, !.truncated = FALSE, !.more = FALSE]
        ELSE first

\* fulfilled: `last' says that the server has no further page.
Shown(s, r, last) ==
    LET new == [query |-> r.query, page |-> r.page, last |-> last, looped |-> r.live]
        there == \E i \in DOMAIN s.rows : s.rows[i].query = r.query /\ s.rows[i].page = r.page
    IN  IF r.page = 1 THEN <<new>>
        ELSE IF slot.slice.dedups /\ there THEN s.rows
        ELSE Append(s.rows, new)

Fulfilled(s, r, last) ==
    LET capped == slot.slice.marks /\ r.page >= MaxAutoPages /\ ~last
        ended == [s EXCEPT !.loading = FALSE, !.more = FALSE,
                           !.failed = @ /\ ~slot.slice.heals]
    IN  IF ~Ends(s, r) THEN s
        ELSE IF ~Adopts(s, r) THEN ended
        ELSE [ended EXCEPT !.rows = Shown(s, r, last),
                           !.hasMore = ~last /\ ~capped,
                           !.truncated = @ \/ capped,
                           !.owner.query = IF slot.slice.drops = "group" THEN r.query ELSE @]

\* rejected.
Wiped_Kept(s, r) == s.rows \* mutant: a failure keeps the rows

Wiped(s, r) ==
    IF slot.slice.wipes = "always" \/ (slot.slice.wipes = "first" /\ r.page = 1) THEN <<>> ELSE s.rows

\* Mutants: a failure leaves no trace, or the spinner turning.
Rejected_Silent(s, r) ==
    IF ~Ends(s, r) \/ (r.aborted /\ slot.slice.aborted = "ignore") THEN s
    ELSE [s EXCEPT !.loading = FALSE, !.more = FALSE, !.rows = Wiped(s, r)]

Rejected_Spins(s, r) ==
    IF ~Ends(s, r) \/ r.aborted THEN s
    ELSE [s EXCEPT !.rows = Wiped(s, r), !.failed = TRUE]

Rejected(s, r) ==
    IF ~Ends(s, r) \/ (r.aborted /\ slot.slice.aborted = "ignore") THEN s
    ELSE [s EXCEPT !.loading = FALSE, !.more = FALSE, !.rows = Wiped(s, r),
                   !.failed = @ \/ ~(r.aborted /\ slot.slice.aborted = "settle")]

\* Mutants: the rows are cleared to null, or the loading is forgotten.
Cleared_Null(s) == [s EXCEPT !.rows = None, !.loading = FALSE, !.more = FALSE, !.owner = NoOwner]

Cleared_Spins(s) == [s EXCEPT !.rows = <<>>, !.failed = FALSE, !.owner = NoOwner]

\* The slice's clear action.
Cleared(s) ==
    LET what == slot.slice.clears
    IN  IF what = {"rows", "loading", "owner"} THEN Empty
        ELSE [s EXCEPT !.rows = IF "rows" \in what THEN <<>> ELSE @,
                       !.failed = @ /\ "rows" \notin what,
                       !.loading = @ /\ "loading" \notin what,
                       !.more = @ /\ "loading" \notin what,
                       !.owner = IF "owner" \in what THEN NoOwner ELSE @]

-----------------------------------------------------------------------------
(* The screens.                                                            *)

Init ==
    /\ slot \in Slots
    /\ open = FALSE
    /\ screen \in slot.screens
    /\ asked = None
    /\ store = Empty
    /\ flight = {}
    /\ overlapped = FALSE

Superseded_Kept == flight \* mutant: the effect has no cleanup

\* The cleanup of the effect, or what the screen does to its previous request.
Superseded ==
    {[r EXCEPT !.live = @ /\ screen.cancel = "none",
               !.aborted = @ \/ screen.cancel = "abort"] : r \in flight}

\* A dispatch of the thunk: the pending action, then the request is under way.  A live one
\* has a loop waiting for it, if the screen has one.
Send(reqs, s, q, p, live) ==
    /\ Cardinality(reqs) < MaxFlight
    /\ \E i \in Ids \ ({r.id : r \in reqs} \cup {s.owner.id}) :
          LET r == [id |-> i, query |-> q, page |-> p, live |-> live, aborted |-> FALSE]
          IN  /\ \A j \in 1 .. i - 1 : j = s.owner.id \/ \E o \in reqs : o.id = j
              /\ flight' = reqs \cup {r}
              /\ store' = Pending(s, r)
    /\ overlapped' = \/ \E o \in reqs : ~o.aborted
                     \/ p > 1 /\ (overlapped \/ ~PagesOf(s.rows, q))

Opens(sc, q) ==
    /\ ~open
    /\ open' = TRUE
    /\ screen' = sc
    /\ \/ sc.opens /\ asked' = q /\ Send(flight, Prepared(store, q), q, 1, TRUE)
       \/ ~sc.opens /\ asked' = None /\ UNCHANGED <<store, flight, overlapped>>
    /\ UNCHANGED slot

\* The user changes the controls, presses the button or chooses a row.
Ask(q) ==
    /\ open
    /\ screen.starts = "effect" => q # asked
    /\ screen.starts = "submit" => ~store.loading
    /\ screen.starts = "sheet" => asked = None
    /\ asked' = q
    /\ Send(Superseded, Prepared(store, q), q, 1, TRUE)
    /\ UNCHANGED <<slot, open, screen>>

\* The controls are emptied: an effect returns early after its cleanup, a button
\* of a search or the closing of a sheet also clears the slice.
AskNothing ==
    /\ open /\ screen.empties # "no" /\ asked # None
    /\ screen.empties = "idle" => ~store.loading /\ ~store.more
    /\ asked' = None
    /\ flight' = Superseded
    /\ store' = IF screen.empties = "keeps" THEN store ELSE Cleared(store)
    /\ UNCHANGED <<slot, open, screen, overlapped>>

\* The button for the next page.
LoadMore ==
    /\ open /\ screen.paging = "ask" /\ asked # None
    /\ store.hasMore /\ ~store.loading /\ ~store.more
    /\ store.rows # <<>> /\ store.rows[Len(store.rows)].page < LastPage
    /\ Send(flight, store, store.owner.query, store.rows[Len(store.rows)].page + 1, TRUE)
    /\ UNCHANGED <<slot, open, screen, asked>>

\* The buttons of a sheet: they stop the loop, if it is still there, and nothing waits for
\* what they ask.
ByButton(p) ==
    /\ open /\ screen.buttons /\ asked # None
    /\ ~store.loading /\ ~store.more
    /\ Send(Superseded, store, asked, p, FALSE)
    /\ UNCHANGED <<slot, open, screen, asked>>

Refresh == ByButton(1)

\* The page after the one answered last: the last of the list, or, where late answers may
\* bring a page a second time, any of it.
FollowingPage ==
    /\ screen.paging = "auto" /\ store.hasMore
    /\ \E i \in DOMAIN store.rows :
          /\ i = Len(store.rows) \/ (slot.slice.dedups /\ overlapped)
          /\ store.rows[i].page < MaxAutoPages /\ store.rows[i].page < LastPage
          /\ ByButton(store.rows[i].page + 1)

Leave ==
    /\ open
    /\ open' = FALSE
    /\ asked' = None
    /\ flight' = Superseded
    /\ store' = IF screen.leaves THEN Cleared(store) ELSE store
    /\ UNCHANGED <<slot, screen, overlapped>>

-----------------------------------------------------------------------------
(* Requests settle.  The loop that waits for one goes on in the same turn  *)
(* of the event loop, before any event of the user.                        *)

\* Mutant: the page limit is off by one.
GoesOn_Early(r, last) ==
    /\ screen.paging = "auto" /\ r.live
    /\ ~last /\ r.page + 1 < MaxAutoPages

GoesOn(r, last) ==
    /\ screen.paging = "auto" /\ r.live
    /\ ~last /\ r.page < MaxAutoPages

Answer(r, last) ==
    LET s == Fulfilled(store, r, last) IN
    /\ r \in flight /\ ~r.aborted
    /\ ~last => slot.thunk.paged /\ r.page < LastPage
    /\ \/ GoesOn(r, last) /\ Send(flight \ {r}, s, r.query, r.page + 1, TRUE)
       \/ ~GoesOn(r, last) /\ store' = s /\ flight' = flight \ {r} /\ UNCHANGED overlapped
    /\ UNCHANGED <<slot, open, screen, asked>>

\* The server refuses, the timeout passes, or an abort takes effect.
Reject(r) ==
    /\ r \in flight
    /\ store' = Rejected(store, r)
    /\ flight' = flight \ {r}
    /\ UNCHANGED <<slot, open, screen, asked, overlapped>>

Settle(r) == Reject(r) \/ \E last \in BOOLEAN : Answer(r, last)

Next ==
    \/ \E q \in Queries : Ask(q) \/ \E sc \in slot.screens : Opens(sc, q)
    \/ AskNothing
    \/ LoadMore \/ Refresh \/ FollowingPage
    \/ Leave
    \/ \E r \in flight : Settle(r)

Spec == Init /\ [][Next]_vars

\* A request with a timeout settles, and an aborted one always does.
Fairness ==
    \A i \in Ids : WF_vars(\E r \in flight : r.id = i /\ (slot.thunk.timed \/ r.aborted) /\ Settle(r))

FairSpec == Spec /\ Fairness

-----------------------------------------------------------------------------
(* What the screens show.                                                  *)

Owner == [id : 0 .. MaxFlight + 1, query : Queries \cup {None}]

Store ==
    [rows : Seq(Page), loading : BOOLEAN, more : BOOLEAN, failed : BOOLEAN, hasMore : BOOLEAN,
     truncated : BOOLEAN, owner : Owner]

TypeOK ==
    /\ slot \in Slots
    /\ open \in BOOLEAN
    /\ screen \in slot.screens
    /\ asked \in Queries \cup {None}
    /\ store \in Store
    /\ flight \subseteq Request
    /\ overlapped \in BOOLEAN

Protected == ProtectedSlot(slot)

Settled == ~store.loading /\ ~store.failed

\* A protected slot shows pages 1, 2, ... of what its screen asks now, however late,
\* in whatever order and after however many other questions the answers come.
ShowsWhatIsAsked ==
    Protected /\ open /\ asked # None /\ (Settled \/ slot.slice.drops = "all")
        => PagesOf(store.rows, asked)

\* Every slot, whatever its habits, shows what is asked when its last question was
\* sent while no other request was under way: only requests that overlap mislead, and
\* a button that adds a page to what a late one left.
OnlyOverlapsMislead ==
    ~overlapped /\ open /\ asked # None /\ Settled => PagesOf(store.rows, asked)

\* A list is made of pages of one answer.
NeverMixes == \A i, j \in DOMAIN store.rows : store.rows[i].query = store.rows[j].query

\* A list that a loop fetches is complete when it stops loading, or says it is not.
WholeOrMarked ==
    /\ Protected /\ slot.slice.marks /\ open /\ asked # None
    /\ Settled /\ ~store.more
    => store.truncated \/ (store.rows # <<>> /\ store.rows[Len(store.rows)].last)

\* A spinner has a request whose end ends it, unless the slot ignores aborts and its
\* controls were emptied while it was loading.
SpinnerHasRequest ==
    /\ open /\ (store.loading \/ store.more)
    /\ \/ asked # None
       \/ slot.slice.aborted = "settle"
       \/ screen.empties = "clears" /\ "loading" \in slot.slice.clears
    => \E r \in flight : Ends(store, r) /\ (r.aborted => slot.slice.aborted # "ignore")

\* The spinner of a request with a timeout ends.
SpinnerEnds ==
    \A i \in Ids :
        (open /\ asked # None /\ slot.thunk.timed /\ (store.loading \/ store.more) /\ store.owner.id = i)
            ~> ~(open /\ asked # None /\ (store.loading \/ store.more) /\ store.owner.id = i)

\* What the promise of LatestAnswer is about: the question, the state and the pages
\* of a protected slot.  What is left of an earlier answer does not count.
ShownAsked == IF Protected /\ open THEN asked ELSE None

ShownStatus ==
    IF ShownAsked = None THEN "idle"
    ELSE IF store.loading THEN "waiting"
    ELSE IF store.failed THEN "failed" ELSE "shown"

ShownPages ==
    IF \/ ShownAsked = None \/ store.loading
       \/ store.failed /\ slot.slice.drops # "all"
       \/ ~PagesOf(store.rows, asked)
    THEN 0 ELSE Len(store.rows)

Promise == INSTANCE LatestAnswer WITH
    asked <- ShownAsked, status <- ShownStatus, pages <- ShownPages

\* Refinement: a protected slot implements the promise of LatestAnswer.
KeepsPromise == Promise!Spec
=============================================================================
