------------------------- MODULE RequestSlotProofs -------------------------
(***************************************************************************)
(* What holds of a request slot for every table of slots whose habits go   *)
(* together, and for every number of questions, pages and requests under   *)
(* way.  Latest, the heart of the inductive invariant, says which requests *)
(* a screen still waits for where none can mislead it, and how the list    *)
(* was left for their answers; SpinInv says what turns a spinner.          *)
(***************************************************************************)
EXTENDS RequestSlot, TLAPS

\* A screen is open and its controls say what it wants to see.
Showing == open /\ asked # None

\* No answer but that to the last question counts: the slot keeps the others away, or
\* there are none.
Calm == Protected \/ ~overlapped

\* The requests that such a slot still waits for.
Due(r) == IF slot.slice.claims = "id" THEN r.id = store.owner.id ELSE ~r.aborted

\* The pages 1 .. p of what is asked are there.
Whole(p) == PagesOf(store.rows, asked) /\ Len(store.rows) = p

\* What waits for a due request, and how it was left for its answer.
Waits(r) ==
    /\ r.query = asked /\ (r.live \/ screen.buttons) /\ ~r.aborted /\ ~store.failed
    /\ IF r.page = 1 THEN store.loading ELSE ~store.loading /\ Whole(r.page - 1)

Loops == \E sc \in slot.screens : sc.paging = "auto"

TypeInv == TypeOK /\ (asked # None => open /\ store.owner.query # None)

IdsDiffer == \A r, o \in flight : r.id = o.id => r = o

\* A request that is aborted is told from the others.
Told(reqs) ==
    \A r \in reqs : r.aborted => slot.slice.claims = "id" \/ slot.slice.aborted = "ignore"

\* Which rows answer what is asked: those shown at rest, those of a slot that drops the
\* old ones, and those that a failure leaves where it wipes any.
Fresh ==
    /\ Settled => store.rows # <<>> /\ PagesOf(store.rows, asked)
    /\ slot.slice.drops = "all" => PagesOf(store.rows, asked) /\ (store.loading => store.rows = <<>>)
    /\ store.failed => ~store.loading /\ (slot.slice.wipes # "never" => PagesOf(store.rows, asked))

\* A loop stopped at the end of the answer, or at its limit, and can tell; or a button
\* has stopped it, and more is known to follow.
Ended ==
    LET end == store.rows[Len(store.rows)]
    IN  \/ end.last
        \/ end.page >= MaxAutoPages /\ IF slot.slice.marks THEN store.truncated ELSE store.hasMore
        \/ screen.buttons /\ ~end.looped /\ store.hasMore

\* The inductive invariant where no other answer counts ...
Latest ==
    Calm /\ Showing =>
        /\ slot.slice.drops # "group" => store.owner.query = asked
        /\ Fresh
        /\ \A r \in flight : Due(r) => Waits(r)
        /\ \A r, o \in flight : Due(r) /\ Due(o) => r = o
        /\ store.loading \/ store.more => \E r \in flight : Due(r)
        /\ screen.paging = "auto" /\ Settled /\ ~store.more => Ended

\* ... and what a protected slot keeps from one question to the next.
Kept ==
    Protected =>
        /\ ~Showing /\ slot.slice.claims # "id" => \A r \in flight : r.aborted
        /\ Loops => \A r \in flight : r.live => Showing /\ Due(r)

IInv == TypeInv /\ IdsDiffer /\ Told(flight) /\ Latest /\ Kept

-----------------------------------------------------------------------------
(* The reducers, field by field.                                           *)

LEMMA SlotFacts ==
    ASSUME slot \in Slots
    PROVE  /\ slot.thunk \in Thunks /\ slot.slice \in Slices /\ slot.screens \subseteq Screens
           /\ None \notin Queries /\ DOMAIN Group = Queries
           /\ MaxAutoPages \in Nat \ {0} /\ LastPage \in Nat \ {0} /\ MaxFlight \in Nat
BY SlotAssumption

LEMMA PreparedFacts ==
    ASSUME slot \in Slots, NEW s \in Store, NEW q \in Queries
    PROVE  LET p == Prepared(s, q)
           IN  /\ p \in Store
               /\ slot.slice.drops # "group" => p = s
               /\ slot.slice.drops = "group" => p.owner.query = q
<1>1. s.owner \in Owner /\ <<>> \in Seq(Page)
  BY DEF Store
<1> DEFINE owner == [s.owner EXCEPT !.query = q]
           named == [s EXCEPT !.owner = owner]
           emptied == [named EXCEPT !.rows = <<>>, !.hasMore = FALSE, !.truncated = FALSE,
                                    !.failed = FALSE]
<1>2. owner \in Owner /\ owner.query = q
  BY <1>1 DEF Owner
<1> HIDE DEF owner
<1>3. named \in Store /\ named.owner = owner
  BY <1>2 DEF Store
<1> HIDE DEF named
<1>4. emptied \in Store /\ emptied.owner = owner
  BY <1>1, <1>3 DEF Store
<1>5. /\ slot.slice.drops # "group" => Prepared(s, q) = s
      /\ slot.slice.drops = "group" => Prepared(s, q) \in {named, emptied}
  BY DEF Prepared, named, owner
<1> HIDE DEF emptied
<1> QED BY <1>2, <1>3, <1>4, <1>5

LEMMA PendingFacts ==
    ASSUME slot \in Slots, NEW s \in Store, NEW r \in Request
    PROVE  LET p == Pending(s, r)
           IN  /\ p \in Store
               /\ ~p.failed /\ p.owner.id = r.id
               /\ p.owner.query = IF slot.slice.drops = "group" THEN s.owner.query ELSE r.query
               /\ p.rows = s.rows \/ p.rows = <<>>
               /\ r.page = 1 => p.loading /\ (slot.slice.drops = "all" => p.rows = <<>>)
               /\ r.page # 1 => p.rows = s.rows /\ p.loading = s.loading /\ p.more
<1>1. slot.slice \in Slices /\ LastPage \in Nat \ {0} /\ MaxFlight \in Nat
  BY SlotFacts
<1>2. r.page \in 1 .. LastPage /\ r.id \in Ids /\ r.query \in Queries
  BY DEF Request
<1>3. <<>> \in Seq(Page)
  OBVIOUS
<1> DEFINE query == IF slot.slice.drops = "group" THEN s.owner.query ELSE r.query
           owner == [id |-> r.id, query |-> query]
           claimed == [s EXCEPT !.failed = FALSE, !.owner = owner]
           first == [claimed EXCEPT !.loading = TRUE]
           emptied == [first EXCEPT !.rows = <<>>, !.hasMore = FALSE, !.truncated = FALSE,
                                    !.more = FALSE]
<1>9. owner \in Owner /\ owner.id = r.id /\ owner.query = query
  BY <1>1, <1>2 DEF Ids, Owner, Store
<1> HIDE DEF owner
<1>4. /\ claimed \in Store /\ ~claimed.failed /\ claimed.owner = owner
      /\ claimed.rows = s.rows /\ claimed.loading = s.loading
  BY <1>9 DEF Store
<1> HIDE DEF claimed
<1>5. /\ first \in Store /\ ~first.failed /\ first.owner = owner
      /\ first.rows = s.rows /\ first.loading
      /\ [claimed EXCEPT !.more = TRUE] \in Store
  BY <1>4 DEF Store
<1> HIDE DEF first
<1>6. /\ emptied \in Store /\ ~emptied.failed /\ emptied.owner = owner
      /\ emptied.rows = <<>> /\ emptied.loading
  BY <1>3, <1>5 DEF Store
<1>7. /\ ~[claimed EXCEPT !.more = TRUE].failed
      /\ [claimed EXCEPT !.more = TRUE].owner = owner
      /\ [claimed EXCEPT !.more = TRUE].rows = s.rows
      /\ [claimed EXCEPT !.more = TRUE].loading = s.loading
      /\ [claimed EXCEPT !.more = TRUE].more
  BY <1>4 DEF Store
<1>8. Pending(s, r) = IF r.page > 1 THEN [claimed EXCEPT !.more = TRUE]
                      ELSE IF slot.slice.drops = "all" THEN emptied ELSE first
  BY DEF Pending, claimed, first, owner
<1> HIDE DEF emptied
<1> QED BY <1>2, <1>5, <1>6, <1>7, <1>8, <1>9

LEMMA ShownFacts ==
    ASSUME slot \in Slots, NEW s \in Store, NEW r \in Request, NEW last \in BOOLEAN
    PROVE  Shown(s, r, last) \in Seq(Page)
<1> DEFINE new == [query |-> r.query, page |-> r.page, last |-> last, looped |-> r.live]
<1>1. new \in Page
  BY DEF Request, Page
<1>2. s.rows \in Seq(Page)
  BY DEF Store
<1>3. <<new>> \in Seq(Page) /\ Append(s.rows, new) \in Seq(Page)
  BY <1>1, <1>2
<1> QED BY <1>2, <1>3 DEF Shown

LEMMA FulfilledFacts ==
    ASSUME slot \in Slots, NEW s \in Store, NEW r \in Request, NEW last \in BOOLEAN
    PROVE  LET f == Fulfilled(s, r, last)
           IN  /\ f \in Store
               /\ ~Ends(s, r) => f = s
               /\ Ends(s, r) => ~f.loading /\ ~f.more /\ (f.failed => s.failed)
               /\ Adopts(s, r) => f.rows = Shown(s, r, last)
               /\ Adopts(s, r) /\ ~last /\ r.page >= MaxAutoPages =>
                    IF slot.slice.marks THEN f.truncated ELSE f.hasMore
               /\ Adopts(s, r) /\ ~last /\ r.page < MaxAutoPages => f.hasMore
               /\ f.owner.id = s.owner.id
               /\ f.owner.query \in {s.owner.query, r.query}
               /\ Adopts(s, r) /\ slot.slice.drops = "group" => f.owner.query = r.query
               /\ slot.slice.drops # "group" => f.owner.query = s.owner.query
<1>1. Shown(s, r, last) \in Seq(Page)
  BY ShownFacts
<1>2. r.query \in Queries /\ r.page \in 1 .. LastPage
  BY DEF Request
<1>3. slot.slice \in Slices
  BY SlotFacts
<1>4. Adopts(s, r) => Ends(s, r)
  BY DEF Adopts
<1> DEFINE capped == slot.slice.marks /\ r.page >= MaxAutoPages /\ ~last
           ended == [s EXCEPT !.loading = FALSE, !.more = FALSE,
                              !.failed = @ /\ ~slot.slice.heals]
           adopted == [ended EXCEPT !.rows = Shown(s, r, last), !.hasMore = ~last /\ ~capped,
                                    !.truncated = @ \/ capped,
                                    !.owner.query = IF slot.slice.drops = "group" THEN r.query ELSE @]
<1>5. /\ ended \in Store /\ ~ended.loading /\ ~ended.more /\ (ended.failed => s.failed)
      /\ ended.owner = s.owner
  BY <1>3 DEF Store, Slices
<1>6. /\ adopted \in Store /\ ~adopted.loading /\ ~adopted.more /\ (adopted.failed => s.failed)
      /\ adopted.rows = Shown(s, r, last)
      /\ adopted.owner.id = s.owner.id
      /\ adopted.owner.query = IF slot.slice.drops = "group" THEN r.query ELSE s.owner.query
      /\ adopted.hasMore = (~last /\ ~capped) /\ adopted.truncated = (ended.truncated \/ capped)
  <2> HIDE DEF ended, capped
  <2> DEFINE owner == [ended.owner EXCEPT !.query = IF slot.slice.drops = "group" THEN r.query ELSE @]
             hasMore == ~last /\ ~capped
             truncated == ended.truncated \/ capped
             rows == Shown(s, r, last)
  <2>1. hasMore \in BOOLEAN /\ truncated \in BOOLEAN
    OBVIOUS
  <2>2. /\ owner \in Owner /\ owner.id = ended.owner.id
        /\ owner.query = IF slot.slice.drops = "group" THEN r.query ELSE ended.owner.query
    BY <1>2, <1>5 DEF Store, Owner
  <2>3. adopted = [ended EXCEPT !.rows = rows, !.hasMore = hasMore, !.truncated = truncated,
                                !.owner = owner]
    OBVIOUS
  <2> HIDE DEF owner, hasMore, truncated, rows, adopted
  <2>4. rows \in Seq(Page)
    BY <1>1 DEF rows
  <2>5. /\ adopted \in Store /\ adopted.loading = ended.loading /\ adopted.failed = ended.failed
        /\ adopted.rows = rows /\ adopted.owner = owner /\ adopted.more = ended.more
        /\ adopted.hasMore = hasMore /\ adopted.truncated = truncated
    BY <1>5, <2>1, <2>2, <2>3, <2>4 DEF Store
  <2> QED BY <1>5, <2>2, <2>5 DEF rows, hasMore, truncated
<1>7. Fulfilled(s, r, last) = IF ~Ends(s, r) THEN s ELSE IF ~Adopts(s, r) THEN ended ELSE adopted
  BY DEF Fulfilled
<1> HIDE DEF ended, adopted
<1>8. Adopts(s, r) /\ ~last /\ r.page >= MaxAutoPages =>
         IF slot.slice.marks THEN adopted.truncated ELSE adopted.hasMore
  BY <1>6
<1>9. ~last /\ r.page < MaxAutoPages => adopted.hasMore
  <2>1. r.page \in 1 .. LastPage /\ LastPage \in Nat /\ MaxAutoPages \in Nat
    BY <1>2, SlotFacts
  <2>2. r.page < MaxAutoPages => ~capped
    BY <2>1
  <2> HIDE DEF capped, adopted
  <2> QED BY <1>6, <2>2
<1> HIDE DEF capped
<1> QED BY <1>4, <1>5, <1>6, <1>7, <1>8, <1>9

LEMMA RejectedFacts ==
    ASSUME slot \in Slots, NEW s \in Store, NEW r \in Request
    PROVE  LET f == Rejected(s, r)
           IN  /\ f \in Store /\ f.owner = s.owner
               /\ ~Ends(s, r) \/ (r.aborted /\ slot.slice.aborted = "ignore") => f = s
               /\ ~r.aborted /\ Ends(s, r) =>
                    ~f.loading /\ ~f.more /\ f.failed /\ f.rows = Wiped(s, r)
               /\ f.rows = s.rows \/ f.rows = <<>>
<1>1. slot.slice \in Slices /\ r.aborted \in BOOLEAN
  BY SlotFacts DEF Request
<1>2. Wiped(s, r) \in {s.rows, <<>>} /\ s.rows \in Seq(Page) /\ <<>> \in Seq(Page)
  BY DEF Wiped, Store
<1> QED BY <1>1, <1>2 DEF Rejected, Store, Slices

LEMMA ClearedFacts ==
    ASSUME slot \in Slots, NEW s \in Store
    PROVE  LET c == Cleared(s)
           IN  /\ c \in Store
               /\ (c.loading => s.loading) /\ (c.more => s.more)
               /\ "loading" \in slot.slice.clears => ~c.loading /\ ~c.more
               /\ {"owner", "loading"} \cap slot.slice.clears = {} => c.owner = s.owner
<1>1. slot.slice \in Slices /\ MaxFlight \in Nat
  BY SlotFacts
<1>2. s.rows \in Seq(Page) /\ <<>> \in Seq(Page)
  BY DEF Store
<1>3. NoOwner \in Owner
  BY <1>1 DEF NoOwner, Owner
<1>4. Empty \in Store /\ ~Empty.loading /\ ~Empty.more
  BY <1>2, <1>3 DEF Empty, Store
<1> DEFINE what == slot.slice.clears
           kept == [s EXCEPT !.rows = IF "rows" \in what THEN <<>> ELSE @,
                             !.failed = @ /\ "rows" \notin what,
                             !.loading = @ /\ "loading" \notin what,
                             !.more = @ /\ "loading" \notin what,
                             !.owner = IF "owner" \in what THEN NoOwner ELSE @]
<1>5. Cleared(s) = IF what = {"rows", "loading", "owner"} THEN Empty ELSE kept
  BY DEF Cleared
<1> HIDE DEF what
<1>6. /\ kept \in Store
      /\ (kept.loading => s.loading) /\ (kept.more => s.more)
      /\ "loading" \in what => ~kept.loading /\ ~kept.more
      /\ {"owner", "loading"} \cap what = {} => kept.owner = s.owner
  <2> DEFINE rows == IF "rows" \in what THEN <<>> ELSE s.rows
             failed == s.failed /\ "rows" \notin what
             loading == s.loading /\ "loading" \notin what
             more == s.more /\ "loading" \notin what
             owner == IF "owner" \in what THEN NoOwner ELSE s.owner
  <2>1. rows \in Seq(Page) /\ owner \in Owner
    BY <1>2, <1>3 DEF Store
  <2>2. failed \in BOOLEAN /\ loading \in BOOLEAN /\ more \in BOOLEAN
    OBVIOUS
  <2>3. kept = [s EXCEPT !.rows = rows, !.failed = failed, !.loading = loading,
                         !.more = more, !.owner = owner]
    OBVIOUS
  <2> HIDE DEF rows, failed, loading, more, owner, kept
  <2>4. kept \in Store /\ kept.loading = loading /\ kept.more = more /\ kept.owner = owner
    BY <2>1, <2>2, <2>3 DEF Store
  <2> QED BY <2>4 DEF loading, more, owner
<1> HIDE DEF kept
<1> QED BY <1>4, <1>5, <1>6 DEF what

-----------------------------------------------------------------------------
(* Requests: which are under way after a step, and how they are sent.      *)

LEMMA HabitFacts ==
    ASSUME slot \in Slots
    PROVE  /\ \A sc \in slot.screens :
                 /\ sc.cancel = "abort" => slot.slice.claims = "id" \/ slot.slice.aborted = "ignore"
                 /\ sc.paging = "ask" => slot.slice.claims = "id" /\ slot.slice.drops = "all"
           /\ slot.slice.drops = "group" => slot.slice.claims = "none"
           /\ Protected /\ slot.slice.claims # "id" => \A sc \in slot.screens : sc.cancel = "abort"
           /\ Protected => \A sc \in slot.screens : ~sc.buttons
           /\ Protected /\ Loops => \A sc \in slot.screens : sc.cancel # "none" /\ sc.paging # "ask"
BY HabitAssumption, LoopAssumption DEF Protected, ProtectedSlot, Loops

LEMMA SupersededFacts ==
    ASSUME TypeOK, IdsDiffer, Told(flight)
    PROVE  /\ Superseded \in SUBSET Request
           /\ \A r, o \in Superseded : r.id = o.id => r = o
           /\ screen.cancel = "abort" => \A r \in Superseded : r.aborted
           /\ screen.cancel # "none" => \A r \in Superseded : ~r.live
           /\ \A r \in flight : \E o \in Superseded :
                 /\ o.id = r.id /\ o.query = r.query
                 /\ o.aborted => r.aborted \/ screen.cancel = "abort"
           /\ Told(Superseded)
<1> DEFINE S(r) == [r EXCEPT !.live = @ /\ screen.cancel = "none",
                             !.aborted = @ \/ screen.cancel = "abort"]
<1>1. Superseded = {S(r) : r \in flight}
  BY DEF Superseded
<1>2. \A r \in flight :
         /\ S(r) \in Request /\ S(r).id = r.id /\ S(r).query = r.query
         /\ S(r).aborted <=> r.aborted \/ screen.cancel = "abort"
         /\ screen.cancel # "none" => ~S(r).live
  <2>1. TAKE r \in flight
  <2> DEFINE live == r.live /\ screen.cancel = "none"
             aborted == r.aborted \/ screen.cancel = "abort"
  <2>2. r \in Request /\ live \in BOOLEAN /\ aborted \in BOOLEAN
    BY DEF TypeOK
  <2>3. S(r) = [r EXCEPT !.live = live, !.aborted = aborted]
    OBVIOUS
  <2>4. /\ aborted <=> r.aborted \/ screen.cancel = "abort"
        /\ screen.cancel # "none" => ~live
    OBVIOUS
  <2> HIDE DEF live, aborted, S
  <2> QED BY <2>2, <2>3, <2>4 DEF Request
<1> HIDE DEF S
<1>3. \A r, o \in flight : S(r).id = S(o).id => r = o
  BY <1>2 DEF IdsDiffer
<1>4. Told(Superseded)
  <2>1. slot \in Slots /\ screen \in slot.screens
    BY DEF TypeOK
  <2> QED BY <1>1, <1>2, <2>1, HabitFacts DEF Told
<1>5. ASSUME NEW r \in flight
      PROVE  \E o \in Superseded : /\ o.id = r.id /\ o.query = r.query
                                   /\ o.aborted => r.aborted \/ screen.cancel = "abort"
  <2>1. S(r) \in Superseded
    BY <1>1
  <2> QED BY <1>2, <2>1
<1>6. Superseded \in SUBSET Request
  BY <1>1, <1>2
<1> QED BY <1>1, <1>2, <1>3, <1>4, <1>5, <1>6

LEMMA SendFacts ==
    ASSUME slot \in Slots, NEW reqs \in SUBSET Request, NEW s \in Store,
           NEW q \in Queries, NEW p \in 1 .. LastPage, NEW live \in BOOLEAN,
           Send(reqs, s, q, p, live)
    PROVE  /\ \E r \in Request :
                 /\ r.query = q /\ r.page = p /\ r.live = live /\ ~r.aborted
                 /\ r.id # s.owner.id /\ \A o \in reqs : o.id # r.id
                 /\ flight' = reqs \cup {r}
                 /\ store' = Pending(s, r)
           /\ overlapped' \in BOOLEAN
           /\ ~overlapped' => /\ \A o \in reqs : o.aborted
                              /\ p > 1 => ~overlapped /\ PagesOf(s.rows, q)
<1>1. PICK i \in Ids \ ({r.id : r \in reqs} \cup {s.owner.id}) :
         LET r == [id |-> i, query |-> q, page |-> p, live |-> live, aborted |-> FALSE]
         IN  flight' = reqs \cup {r} /\ store' = Pending(s, r)
  BY DEF Send
<1> DEFINE r == [id |-> i, query |-> q, page |-> p, live |-> live, aborted |-> FALSE]
<1>2. r \in Request /\ r.id = i /\ r.query = q /\ r.page = p /\ r.live = live /\ ~r.aborted
  BY <1>1 DEF Request
<1>3. flight' = reqs \cup {r} /\ store' = Pending(s, r)
  BY <1>1
<1>4. i # s.owner.id /\ \A o \in reqs : o.id # i
  BY <1>1
<1>5. overlapped' = ((\E o \in reqs : ~o.aborted) \/ (p > 1 /\ (overlapped \/ ~PagesOf(s.rows, q))))
  BY DEF Send
<1> HIDE DEF r
<1> QED BY <1>2, <1>3, <1>4, <1>5

\* A new question leaves only its own request due.
LEMMA NewQuestion ==
    ASSUME slot \in Slots, slot' = slot, NEW s \in Store,
           slot.slice.drops = "group" => s.owner.query # None,
           NEW reqs \in SUBSET Request, \A r, o \in reqs : r.id = o.id => r = o, Told(reqs),
           Protected /\ slot.slice.claims # "id" => \A r \in reqs : r.aborted,
           Protected /\ Loops => \A r \in reqs : ~r.live,
           NEW q \in Queries, NEW live \in BOOLEAN, Send(reqs, s, q, 1, live),
           open' = TRUE, asked' = q, screen' \in slot.screens, live \/ screen'.buttons
    PROVE  /\ IInv'
           /\ store'.loading /\ (slot.slice.drops = "all" => store'.rows = <<>>)
<1>1. 1 \in 1 .. LastPage /\ q # None
  BY SlotAssumption
<1>2. PICK r \in Request :
              /\ r.query = q /\ r.page = 1 /\ r.live = live /\ ~r.aborted
              /\ r.id # s.owner.id /\ \A o \in reqs : o.id # r.id
              /\ flight' = reqs \cup {r}
              /\ store' = Pending(s, r)
  BY <1>1, SendFacts
<1>3. /\ store' \in Store /\ ~store'.failed /\ store'.owner.id = r.id
      /\ store'.owner.query # None /\ (slot.slice.drops # "group" => store'.owner.query = q)
      /\ store'.loading /\ (slot.slice.drops = "all" => store'.rows = <<>>)
  BY <1>1, <1>2, PendingFacts
<1>4. TypeInv'
  BY <1>1, <1>2, <1>3, SendFacts DEF TypeInv, TypeOK
<1>5. IdsDiffer' /\ Told(flight)'
  BY <1>2 DEF IdsDiffer, Told
<1>6. Showing' /\ Loops' = Loops /\ Protected' = Protected
  BY <1>1 DEF Showing, Loops, Protected
<1>7. r \in flight' /\ Due(r)' /\ Waits(r)'
  BY <1>2, <1>3 DEF Due, Waits
<1>8. Latest'
  <2> SUFFICES ASSUME Calm' PROVE Latest'
    BY DEF Latest
  <2>1. slot.slice.claims # "id" => \A o \in reqs : o.aborted
    BY <1>1, <1>6, SendFacts DEF Calm
  <2>2. \A o \in flight' : Due(o)' => o = r
    BY <1>2, <1>3, <2>1 DEF Due
  <2>3. Fresh'
    BY <1>3 DEF Fresh, Settled, PagesOf
  <2> QED BY <1>2, <1>3, <1>6, <1>7, <2>2, <2>3 DEF Latest, Settled
<1>9. Kept'
  BY <1>2, <1>6, <1>7 DEF Kept
<1> QED BY <1>3, <1>4, <1>5, <1>8, <1>9 DEF IInv

\* Without a question nothing is due.
LEMMA NoQuestion ==
    ASSUME slot \in Slots, slot' = slot, store' \in Store, asked' = None,
           flight' \subseteq Request, \A r, o \in flight' : r.id = o.id => r = o, Told(flight'),
           Protected /\ slot.slice.claims # "id" => \A r \in flight' : r.aborted,
           Protected /\ Loops => \A r \in flight' : ~r.live,
           open' \in BOOLEAN, screen' \in slot.screens, overlapped' \in BOOLEAN
    PROVE  IInv'
<1>1. TypeInv'
  BY DEF TypeInv, TypeOK
<1>2. IdsDiffer' /\ Told(flight)'
  BY DEF IdsDiffer, Told
<1>3. Latest' /\ Kept'
  BY DEF Latest, Kept, Showing, Protected, Loops
<1> QED BY <1>1, <1>2, <1>3 DEF IInv

\* What a due request waits for is what its answer finds: the answer is adopted, and
\* adds its page to the pages before it.
LEMMA DueAnswer ==
    ASSUME TypeInv, Calm, Latest, NEW r \in flight, Showing, Due(r), ~r.aborted,
           NEW last \in BOOLEAN
    PROVE  LET f == Fulfilled(store, r, last)
           IN  /\ f \in Store /\ ~f.loading /\ ~f.more /\ ~f.failed
               /\ f.owner.id = store.owner.id /\ f.owner.query = asked
               /\ f.rows[r.page].looped = r.live
               /\ ~last /\ r.page < MaxAutoPages => f.hasMore
               /\ PagesOf(f.rows, asked) /\ Len(f.rows) = r.page /\ f.rows # <<>>
               /\ f.rows[r.page].page = r.page /\ f.rows[r.page].last = last
               /\ ~last /\ r.page >= MaxAutoPages =>
                    IF slot.slice.marks THEN f.truncated ELSE f.hasMore
<1>1. /\ slot \in Slots /\ store \in Store /\ r \in Request
      /\ r.page \in 1 .. LastPage /\ LastPage \in Nat
  BY SlotAssumption DEF TypeInv, TypeOK, Request
<1>2. /\ slot.slice.drops # "group" => store.owner.query = asked
      /\ Waits(r) /\ asked # None /\ r.query = asked
  BY DEF Latest, Waits, Showing
<1>3. slot.slice.drops # "group" => SameGroup(store, r)
  BY <1>2 DEF SameGroup
<1>4. Adopts(store, r)
  BY <1>1, <1>3, SlotFacts, HabitFacts DEF Adopts, Ends, Due, Slices
<1> DEFINE f == Fulfilled(store, r, last)
           new == [query |-> r.query, page |-> r.page, last |-> last, looped |-> r.live]
<1>5. /\ f \in Store /\ ~f.loading /\ ~f.more /\ ~f.failed /\ f.owner.id = store.owner.id
      /\ f.owner.query = asked /\ f.rows = Shown(store, r, last)
      /\ ~last /\ r.page < MaxAutoPages => f.hasMore
      /\ ~last /\ r.page >= MaxAutoPages =>
           IF slot.slice.marks THEN f.truncated ELSE f.hasMore
  BY <1>1, <1>2, <1>4, FulfilledFacts DEF Adopts, Waits
<1>6. /\ new.query = asked /\ new.page = r.page /\ new.last = last /\ new.looped = r.live
      /\ new \in Page
  BY <1>1, <1>2 DEF Page, Request
<1> HIDE DEF f
<1>7. PagesOf(f.rows, asked) /\ Len(f.rows) = r.page /\ f.rows[r.page] = new
  <2>1. CASE r.page = 1
    <3>1. f.rows = <<new>>
      BY <1>5, <2>1 DEF Shown
    <3> QED BY <1>6, <2>1, <3>1 DEF PagesOf
  <2>2. CASE r.page # 1
    <3>1. PagesOf(store.rows, asked) /\ Len(store.rows) = r.page - 1 /\ store.rows \in Seq(Page)
      BY <1>1, <1>2, <2>2 DEF Waits, Whole, Store
    <3>2. ~ \E i \in DOMAIN store.rows : store.rows[i].query = r.query /\ store.rows[i].page = r.page
      BY <1>1, <3>1 DEF PagesOf
    <3>3. f.rows = Append(store.rows, new)
      BY <1>5, <2>2, <3>2 DEF Shown
    <3> HIDE DEF new
    <3>4. Len(f.rows) = r.page /\ f.rows[r.page] = new
      BY <1>1, <1>6, <3>1, <3>3
    <3>5. ASSUME NEW i \in DOMAIN f.rows
          PROVE  f.rows[i].query = asked /\ f.rows[i].page = i
      <4>1. i \in 1 .. r.page /\ i \in Nat
        BY <1>1, <1>6, <3>1, <3>3
      <4>2. CASE i = r.page
        BY <1>1, <1>6, <3>4, <4>2
      <4>3. CASE i # r.page
        <5>1. i \in DOMAIN store.rows /\ f.rows[i] = store.rows[i]
          BY <1>1, <1>6, <3>1, <3>3, <4>1, <4>3
        <5> QED BY <3>1, <5>1 DEF PagesOf
      <4> QED BY <4>2, <4>3
    <3> QED BY <3>4, <3>5 DEF PagesOf
  <2> QED BY <2>1, <2>2
<1>8. f.rows # <<>>
  BY <1>1, <1>7
<1> HIDE DEF new
<1> QED BY <1>5, <1>6, <1>7, <1>8 DEF f

\* What is no longer due changes nothing that is shown.
LEMMA NotDue ==
    ASSUME TypeInv, Told(flight), Calm, Kept, Showing, NEW r \in flight, ~Due(r)
    PROVE  /\ \A last \in BOOLEAN : ~r.aborted =>
                 Fulfilled(store, r, last) = store /\ ~GoesOn(r, last)
           /\ Rejected(store, r) = store
<1>1. slot \in Slots /\ store \in Store /\ r \in Request /\ screen \in slot.screens
  BY DEF TypeInv, TypeOK
<1>2. /\ slot.slice.claims = "id" => ~Ends(store, r) /\ Protected
      /\ slot.slice.claims # "id" => r.aborted /\ slot.slice.aborted = "ignore"
  BY <1>1 DEF Ends, Due, Told, Protected, ProtectedSlot
<1>3. Rejected(store, r) = store
  BY <1>1, <1>2, RejectedFacts
<1>4. ASSUME NEW last \in BOOLEAN, ~r.aborted
      PROVE  Fulfilled(store, r, last) = store /\ ~GoesOn(r, last)
  <2>1. Fulfilled(store, r, last) = store
    BY <1>1, <1>2, <1>4, FulfilledFacts
  <2>2. ~GoesOn(r, last)
    BY <1>1, <1>2, <1>4 DEF GoesOn, Kept, Loops
  <2> QED BY <2>1, <2>2
<1> QED BY <1>3, <1>4

-----------------------------------------------------------------------------
(* The invariant, action by action.                                        *)

LEMMA InitStep == Init => IInv
<1> SUFFICES ASSUME Init PROVE IInv
  OBVIOUS
<1>1. slot \in Slots /\ MaxFlight \in Nat
  BY SlotAssumption DEF Init
<1>2. NoOwner \in Owner
  BY <1>1 DEF NoOwner, Owner
<1>3. Empty \in Store
  BY <1>2 DEF Empty, Store
<1>4. TypeInv
  BY <1>1, <1>3 DEF Init, TypeInv, TypeOK
<1> QED BY <1>4 DEF Init, IInv, IdsDiffer, Told, Latest, Kept, Showing, Loops

LEMMA AskStep ==
    ASSUME IInv, NEW q \in Queries, Ask(q)
    PROVE  /\ IInv'
           /\ store'.loading /\ (slot.slice.drops = "all" => store'.rows = <<>>)
<1>1. /\ slot \in Slots /\ store \in Store /\ screen \in slot.screens
      /\ TypeOK /\ IdsDiffer /\ Told(flight)
  BY DEF IInv, TypeInv, TypeOK
<1>2. /\ Superseded \in SUBSET Request /\ Told(Superseded)
      /\ \A r, o \in Superseded : r.id = o.id => r = o
      /\ screen.cancel = "abort" => \A r \in Superseded : r.aborted
      /\ screen.cancel # "none" => \A r \in Superseded : ~r.live
  BY <1>1, SupersededFacts
<1>3. /\ Protected /\ slot.slice.claims # "id" => \A r \in Superseded : r.aborted
      /\ Protected /\ Loops => \A r \in Superseded : ~r.live
  BY <1>1, <1>2, HabitFacts
<1>4. /\ open' = TRUE /\ asked' = q /\ screen' \in slot.screens /\ slot' = slot
      /\ Send(Superseded, Prepared(store, q), q, 1, TRUE)
  BY <1>1 DEF Ask, TypeOK
<1>5. /\ Prepared(store, q) \in Store
      /\ slot.slice.drops = "group" => Prepared(store, q).owner.query # None
  BY <1>1, PreparedFacts, SlotAssumption
<1> QED BY <1>1, <1>2, <1>3, <1>4, <1>5, NewQuestion

LEMMA OpensStep ==
    ASSUME IInv, NEW q \in Queries, NEW sc \in slot.screens, Opens(sc, q)
    PROVE  /\ IInv'
           /\ asked' = None \/ (asked' = q /\ store'.loading
                                /\ (slot.slice.drops = "all" => store'.rows = <<>>))
<1>1. /\ slot \in Slots /\ store \in Store /\ flight \in SUBSET Request /\ Told(flight)
      /\ \A r, o \in flight : r.id = o.id => r = o
      /\ overlapped \in BOOLEAN
  BY DEF IInv, TypeInv, TypeOK, IdsDiffer
<1>2. /\ Protected /\ slot.slice.claims # "id" => \A r \in flight : r.aborted
      /\ Protected /\ Loops => \A r \in flight : ~r.live
  BY DEF IInv, Kept, Showing, Opens
<1>3. open' = TRUE /\ screen' \in slot.screens /\ slot' = slot
  BY DEF Opens
<1>4. CASE asked' = q /\ Send(flight, Prepared(store, q), q, 1, TRUE)
  <2>1. /\ Prepared(store, q) \in Store
        /\ slot.slice.drops = "group" => Prepared(store, q).owner.query # None
    BY <1>1, PreparedFacts, SlotAssumption
  <2> QED BY <1>1, <1>2, <1>3, <1>4, <2>1, NewQuestion
<1>5. CASE asked' = None /\ UNCHANGED <<store, flight, overlapped>>
  BY <1>1, <1>2, <1>3, <1>5, NoQuestion
<1> QED BY <1>4, <1>5 DEF Opens

LEMMA CloseStep ==
    ASSUME IInv, AskNothing \/ Leave
    PROVE  IInv' /\ asked' = None /\ slot' = slot
<1>1. /\ slot \in Slots /\ store \in Store /\ screen \in slot.screens
      /\ TypeOK /\ IdsDiffer /\ Told(flight)
      /\ overlapped \in BOOLEAN /\ open \in BOOLEAN
  BY DEF IInv, TypeInv, TypeOK
<1>2. /\ Superseded \in SUBSET Request /\ Told(Superseded)
      /\ \A r, o \in Superseded : r.id = o.id => r = o
      /\ screen.cancel = "abort" => \A r \in Superseded : r.aborted
      /\ screen.cancel # "none" => \A r \in Superseded : ~r.live
  BY <1>1, SupersededFacts
<1>3. /\ Protected /\ slot.slice.claims # "id" => \A r \in Superseded : r.aborted
      /\ Protected /\ Loops => \A r \in Superseded : ~r.live
  BY <1>1, <1>2, HabitFacts
<1>4. store' \in Store
  BY <1>1, ClearedFacts DEF AskNothing, Leave
<1>5. /\ slot' = slot /\ asked' = None /\ flight' = Superseded /\ overlapped' = overlapped
      /\ open' \in BOOLEAN /\ screen' \in slot.screens
  BY <1>1 DEF AskNothing, Leave
<1> QED BY <1>1, <1>2, <1>3, <1>4, <1>5, NoQuestion

\* A later page is asked for of the answer that is shown, and is the next one.
LEMMA NextPage ==
    ASSUME TypeInv, IdsDiffer, Told(flight), Showing, UNCHANGED <<slot, open, screen, asked>>,
           NEW reqs \in SUBSET Request, \A r, o \in reqs : r.id = o.id => r = o, Told(reqs),
           NEW s \in Store, NEW p \in 1 .. LastPage, NEW live \in BOOLEAN,
           Send(reqs, s, asked, p, live), p > 1, live \/ screen.buttons,
           IF slot.slice.drops = "group" THEN s.owner.query # None ELSE s.owner.query = asked,
           ~s.loading, PagesOf(s.rows, asked), Len(s.rows) = p - 1,
           slot.slice.claims # "id" => \A r \in reqs : r.aborted,
           Protected /\ Loops => \A r \in reqs : ~r.live
    PROVE  /\ IInv'
           /\ store'.rows = s.rows /\ ~store'.loading /\ ~store'.failed
<1>1. slot \in Slots /\ asked \in Queries /\ open \in BOOLEAN
      /\ screen \in slot.screens /\ asked # None
  BY DEF TypeInv, TypeOK, Showing
<1>2. PICK r \in Request :
              /\ r.query = asked /\ r.page = p /\ r.live = live /\ ~r.aborted
              /\ r.id # s.owner.id /\ \A o \in reqs : o.id # r.id
              /\ flight' = reqs \cup {r}
              /\ store' = Pending(s, r)
  BY <1>1, SendFacts
<1>3. /\ store' \in Store /\ ~store'.failed /\ store'.owner.id = r.id
      /\ store'.owner.query # None /\ (slot.slice.drops # "group" => store'.owner.query = asked)
      /\ store'.rows = s.rows /\ ~store'.loading /\ store'.more
  BY <1>1, <1>2, PendingFacts
<1>4. TypeInv'
  BY <1>1, <1>2, <1>3, SendFacts DEF TypeInv, TypeOK, Showing
<1>5. IdsDiffer' /\ Told(flight)'
  BY <1>2 DEF IdsDiffer, Told
<1>6. Showing' /\ Loops' = Loops /\ Protected' = Protected
  BY DEF Showing, Loops, Protected
<1>7. r \in flight' /\ \A o \in flight' : Due(o)' <=> o = r
  BY <1>2, <1>3 DEF Due
<1>8. Waits(r)'
  BY <1>2, <1>3 DEF Waits, Whole
<1>9. Fresh'
  <2>1. s.rows # <<>>
    OBVIOUS
  <2> QED BY <1>3, <2>1 DEF Fresh, PagesOf
<1>10. Latest'
  BY <1>2, <1>3, <1>7, <1>8, <1>9 DEF Latest
<1>11. Kept'
  BY <1>2, <1>6, <1>7 DEF Kept
<1> QED BY <1>3, <1>4, <1>5, <1>10, <1>11 DEF IInv

\* Only a slot that compares ids has a button for more.
LEMMA LoadMoreStep ==
    ASSUME IInv, LoadMore
    PROVE  /\ IInv' /\ Protected
           /\ PagesOf(store.rows, asked) /\ store.rows # <<>> /\ slot.slice.drops = "all"
           /\ store'.rows = store.rows /\ ~store'.loading /\ ~store'.failed
<1> DEFINE rows == store.rows
           p == rows[Len(rows)].page + 1
<1>1. /\ slot \in Slots /\ store \in Store /\ screen \in slot.screens
      /\ TypeInv /\ IdsDiffer /\ Told(flight) /\ Latest /\ Kept /\ flight \in SUBSET Request
      /\ asked # None /\ open /\ store.owner.query \in Queries /\ Showing
      /\ LastPage \in Nat /\ rows \in Seq(Page) /\ screen.paging = "ask" /\ ~store.loading
      /\ slot' = slot /\ open' = open /\ screen' = screen /\ asked' = asked
  BY SlotAssumption DEF IInv, TypeInv, TypeOK, LoadMore, Store, Owner, Showing
<1>2. Len(rows) \in 1 .. Len(rows) /\ rows[Len(rows)] \in Page /\ rows # <<>>
  BY <1>1 DEF LoadMore
<1>3. p \in 1 .. LastPage /\ p > 1
  BY <1>1, <1>2 DEF LoadMore, Page
<1>4. Send(flight, store, store.owner.query, p, TRUE)
  BY DEF LoadMore
<1> HIDE DEF p, rows
<1>5. /\ slot.slice.drops = "all" /\ slot.slice.claims = "id" /\ Protected
      /\ ~(Protected /\ Loops)
  BY <1>1, HabitFacts DEF Protected, ProtectedSlot
<1>6. store.owner.query = asked /\ PagesOf(rows, asked)
  BY <1>1, <1>5 DEF Latest, Fresh, Calm, rows
<1>7. Len(rows) = p - 1
  BY <1>1, <1>2, <1>6 DEF PagesOf, p
<1>8. \A r, o \in flight : r.id = o.id => r = o
  BY <1>1 DEF IdsDiffer
<1> QED BY <1>1, <1>2, <1>3, <1>4, <1>5, <1>6, <1>7, <1>8, NextPage DEF rows

\* A button of a sheet asks again, or for the next page where the list can be trusted.
LEMMA ButtonStep ==
    ASSUME IInv, Refresh \/ FollowingPage
    PROVE  IInv' /\ ~Protected
<1>1. /\ slot \in Slots /\ store \in Store /\ screen \in slot.screens
      /\ TypeInv /\ TypeOK /\ IdsDiffer /\ Told(flight) /\ Latest /\ Kept
      /\ LastPage \in Nat /\ 1 \in 1 .. LastPage
  BY SlotAssumption DEF IInv, TypeInv, TypeOK
<1>2. /\ screen.buttons /\ Showing /\ asked \in Queries /\ open = TRUE
      /\ ~store.loading /\ ~store.more /\ store.owner.query # None
      /\ UNCHANGED <<slot, open, screen, asked>>
  BY <1>1 DEF Refresh, FollowingPage, ByButton, Showing, TypeInv, TypeOK
<1>3. ~Protected /\ (slot.slice.drops = "group" => slot.slice.claims = "none")
  BY <1>1, <1>2, HabitFacts
<1>4. /\ Superseded \in SUBSET Request /\ Told(Superseded)
      /\ \A r, o \in Superseded : r.id = o.id => r = o
  BY <1>1, SupersededFacts
<1>5. CASE Refresh
  <2>1. Send(Superseded, store, asked, 1, FALSE) /\ screen' \in slot.screens /\ screen'.buttons
    BY <1>1, <1>2, <1>5 DEF Refresh, ByButton
  <2>2. open' = TRUE /\ asked' = asked
    BY <1>2
  <2> QED BY <1>1, <1>2, <1>3, <1>4, <2>1, <2>2, NewQuestion
<1>6. CASE FollowingPage
  <2>1. PICK i \in DOMAIN store.rows : /\ i = Len(store.rows) \/ (slot.slice.dedups /\ overlapped)
                                       /\ store.rows[i].page < LastPage
                                       /\ ByButton(store.rows[i].page + 1)
    BY <1>6 DEF FollowingPage
  <2> DEFINE p == store.rows[i].page + 1
  <2>2. store.rows \in Seq(Page) /\ store.rows[i] \in Page
    BY <1>1, <2>1 DEF Store
  <2>3. p \in 1 .. LastPage /\ p > 1
    BY <1>1, <2>1, <2>2 DEF Page
  <2>4. Send(Superseded, store, asked, p, FALSE)
    BY <2>1 DEF ByButton
  <2>5. CASE overlapped'
    <3> HIDE DEF p
    <3>1. ASSUME NEW live \in BOOLEAN, Send(Superseded, store, asked, p, live)
          PROVE  /\ \E r \in Request : /\ r.query = asked /\ ~r.aborted
                                       /\ \A o \in Superseded : o.id # r.id
                                       /\ flight' = Superseded \cup {r}
                                       /\ store' = Pending(store, r)
                 /\ overlapped' \in BOOLEAN
      BY <1>1, <1>2, <1>4, <2>3, <3>1, SendFacts
    <3>2. PICK r \in Request :
              /\ r.query = asked /\ ~r.aborted
              /\ \A o \in Superseded : o.id # r.id
              /\ flight' = Superseded \cup {r}
              /\ store' = Pending(store, r)
      BY <2>4, <3>1
    <3>3. store' \in Store /\ store'.owner.query # None
      BY <1>1, <1>2, <3>2, PendingFacts, SlotAssumption
    <3>4. TypeInv'
      BY <1>1, <1>2, <1>4, <2>4, <3>2, <3>3, <3>1 DEF TypeInv, TypeOK
    <3>5. IdsDiffer' /\ Told(flight)'
      BY <1>2, <1>4, <3>2 DEF IdsDiffer, Told
    <3>6. Latest' /\ Kept'
      BY <1>2, <1>3, <2>5 DEF Latest, Kept, Calm, Protected
    <3> QED BY <1>3, <3>4, <3>5, <3>6 DEF IInv
  <2>6. CASE ~overlapped'
    <3>1. (\A o \in Superseded : o.aborted) /\ ~overlapped /\ PagesOf(store.rows, asked)
      BY <1>1, <1>2, <1>4, <2>3, <2>4, <2>6, SendFacts
    <3>2. Len(store.rows) = p - 1
      BY <2>1, <2>2, <3>1 DEF PagesOf
    <3>3. IF slot.slice.drops = "group" THEN store.owner.query # None ELSE store.owner.query = asked
      BY <1>1, <1>2, <3>1 DEF Latest, Calm
    <3> HIDE DEF p
    <3> QED BY <1>1, <1>2, <1>3, <1>4, <2>3, <2>4, <3>1, <3>2, <3>3, NextPage
  <2> QED BY <2>5, <2>6
<1> QED BY <1>3, <1>5, <1>6

\* A request ends and none follows it.
LEMMA EndStep ==
    ASSUME IInv, NEW r \in flight, UNCHANGED <<slot, open, screen, asked>>,
           flight' = flight \ {r}, overlapped' = overlapped,
           store' \in Store, asked # None => store'.owner.query # None,
           Calm /\ Showing =>
              IF Due(r) THEN /\ store'.owner.id = store.owner.id
                             /\ slot.slice.drops # "group" => store'.owner.query = asked
                             /\ ~store'.loading /\ ~store'.more /\ Fresh'
                             /\ screen.paging = "auto" /\ Settled' => Ended'
              ELSE store' = store
    PROVE  IInv'
<1>1. TypeInv /\ IdsDiffer /\ Told(flight) /\ Latest /\ Kept
  BY DEF IInv
<1>2. TypeInv'
  BY <1>1 DEF TypeInv, TypeOK
<1>3. IdsDiffer' /\ Told(flight)'
  BY <1>1 DEF IdsDiffer, Told
<1>4. Showing' = Showing /\ Loops' = Loops /\ Protected' = Protected /\ Calm' = Calm
  BY DEF Showing, Loops, Protected, Calm
<1>5. CASE ~(Calm /\ Showing)
  <2>1. Latest'
    BY <1>4, <1>5 DEF Latest
  <2>2. Protected => ~Showing
    BY <1>5 DEF Calm
  <2>3. Kept'
    BY <1>1, <1>4, <2>2 DEF Kept
  <2> QED BY <1>2, <1>3, <2>1, <2>3 DEF IInv
<1>6. CASE Calm /\ Showing /\ ~Due(r)
  <2>1. store' = store
    BY <1>6
  <2>2. /\ Fresh' = Fresh /\ Settled' = Settled /\ Ended' = Ended
        /\ \A o \in flight : Due(o)' = Due(o) /\ Waits(o)' = Waits(o)
    BY <2>1 DEF Fresh, Settled, Ended, PagesOf, Due, Waits, Whole
  <2>3. Latest'
    BY <1>1, <1>4, <1>6, <2>1, <2>2 DEF Latest
  <2>4. Kept'
    BY <1>1, <1>4, <1>6, <2>2 DEF Kept
  <2> QED BY <1>2, <1>3, <2>3, <2>4 DEF IInv
<1>7. CASE Calm /\ Showing /\ Due(r)
  <2>1. \A o \in flight : Due(o)' <=> Due(o)
    BY <1>7 DEF Due
  <2>2. \A o \in flight' : ~Due(o)'
    BY <1>1, <1>7, <2>1 DEF Latest
  <2>3. Latest'
    BY <1>7, <2>2 DEF Latest
  <2>4. Kept'
    BY <1>1, <1>4, <1>7, <2>1, <2>2 DEF Kept
  <2> QED BY <1>2, <1>3, <2>3, <2>4 DEF IInv
<1> QED BY <1>5, <1>6, <1>7

LEMMA RejectStep ==
    ASSUME IInv, NEW r \in flight, Reject(r)
    PROVE  /\ IInv'
           /\ Calm /\ Showing =>
                IF Due(r) THEN /\ Waits(r) /\ ~store'.loading /\ store'.failed
                               /\ store'.rows = store.rows \/ store'.rows = <<>>
                ELSE store' = store
<1>1. /\ slot \in Slots /\ store \in Store /\ r \in Request
      /\ TypeInv /\ Told(flight) /\ Latest /\ Kept
      /\ store' = Rejected(store, r) /\ flight' = flight \ {r} /\ overlapped' = overlapped
      /\ UNCHANGED <<slot, open, screen, asked>>
  BY DEF IInv, TypeInv, TypeOK, Reject
<1>2. /\ store' \in Store /\ store'.owner = store.owner
      /\ ~r.aborted /\ Ends(store, r) =>
           ~store'.loading /\ ~store'.more /\ store'.failed /\ store'.rows = Wiped(store, r)
      /\ store'.rows = store.rows \/ store'.rows = <<>>
  BY <1>1, RejectedFacts
<1>3. asked # None => store'.owner.query # None
  BY <1>1, <1>2 DEF TypeInv
<1>4. ASSUME Calm, Showing, Due(r)
      PROVE  /\ Waits(r) /\ ~store'.loading /\ ~store'.more /\ store'.failed /\ Fresh'
             /\ slot.slice.drops # "group" => store'.owner.query = asked
  <2>1. /\ Waits(r) /\ Fresh /\ asked # None /\ slot.slice \in Slices
        /\ slot.slice.drops # "group" => store.owner.query = asked
        /\ slot.slice.drops = "group" => slot.slice.claims = "none"
    BY <1>1, <1>4, SlotFacts, HabitFacts DEF Latest, Showing
  <2>2. Ends(store, r)
    BY <2>1, <1>4 DEF Ends, Due, Waits, SameGroup, Slices
  <2>3. ~store'.loading /\ ~store'.more /\ store'.failed /\ store'.rows = Wiped(store, r)
    BY <1>2, <2>1, <2>2 DEF Waits
  <2>4. slot.slice.drops = "all" => PagesOf(store'.rows, asked)
    BY <1>2, <2>1 DEF Fresh, PagesOf
  <2>5. slot.slice.wipes # "never" => PagesOf(store'.rows, asked)
    <3>1. slot.slice.wipes \in {"always", "first", "never"}
      BY <2>1 DEF Slices
    <3>2. slot.slice.wipes = "always" \/ r.page = 1 => PagesOf(<<>>, asked)
      BY DEF PagesOf
    <3>3. r.page # 1 => PagesOf(store.rows, asked)
      BY <2>1 DEF Waits, Whole
    <3> QED BY <2>3, <3>1, <3>2, <3>3 DEF Wiped
  <2> QED BY <1>1, <1>2, <2>1, <2>3, <2>4, <2>5 DEF Fresh, Settled, PagesOf
<1>5. Calm /\ Showing /\ ~Due(r) => store' = store
  BY <1>1, NotDue
<1>6. IInv'
  BY <1>1, <1>2, <1>3, <1>4, <1>5, EndStep DEF Settled
<1> QED BY <1>2, <1>4, <1>5, <1>6

LEMMA AnswerStep ==
    ASSUME IInv, NEW r \in flight, NEW last \in BOOLEAN, Answer(r, last)
    PROVE  /\ IInv'
           /\ Calm /\ Showing =>
                IF Due(r) THEN /\ Waits(r) /\ ~store'.loading /\ ~store'.failed
                               /\ PagesOf(store'.rows, asked) /\ Len(store'.rows) = r.page
                ELSE store' = store
<1> DEFINE f == Fulfilled(store, r, last)
<1>1. /\ slot \in Slots /\ store \in Store /\ r \in Request
      /\ TypeInv /\ IdsDiffer /\ Told(flight) /\ Latest /\ Kept
      /\ flight \in SUBSET Request /\ UNCHANGED <<slot, open, screen, asked>> /\ ~r.aborted
      /\ screen \in slot.screens /\ None \notin Queries /\ asked \in Queries \cup {None}
      /\ LastPage \in Nat /\ r.page \in 1 .. LastPage /\ r.query \in Queries
      /\ open \in BOOLEAN /\ MaxAutoPages \in Nat
  BY SlotAssumption DEF IInv, TypeInv, TypeOK, Answer, Request
<1>2. f \in Store /\ f.owner.query \in {store.owner.query, r.query}
  BY <1>1, FulfilledFacts
<1>3. ASSUME Calm, Showing, Due(r)
      PROVE  /\ Waits(r) /\ ~f.loading /\ ~f.more /\ ~f.failed
             /\ f.owner.id = store.owner.id /\ f.owner.query = asked
             /\ PagesOf(f.rows, asked) /\ Len(f.rows) = r.page /\ f.rows # <<>>
             /\ f.rows[r.page].page = r.page /\ f.rows[r.page].last = last
             /\ f.rows[r.page].looped = r.live
             /\ ~last /\ r.page < MaxAutoPages => f.hasMore
             /\ ~last /\ r.page >= MaxAutoPages =>
                  IF slot.slice.marks THEN f.truncated ELSE f.hasMore
  BY <1>1, <1>3, DueAnswer DEF Latest
<1>4. Calm /\ Showing /\ ~Due(r) => f = store /\ ~GoesOn(r, last)
  BY <1>1, NotDue
<1>5. CASE ~GoesOn(r, last)
  <2> HIDE DEF f
  <2>1. store' = f /\ flight' = flight \ {r} /\ overlapped' = overlapped
    BY <1>5 DEF Answer, f
  <2>2. asked # None => store'.owner.query # None
    BY <1>1, <1>2, <2>1 DEF TypeInv
  <2>3. ASSUME Calm, Showing, Due(r)
        PROVE  Fresh' /\ (screen.paging = "auto" => Ended')
    <3>1. Fresh'
      BY <1>1, <1>3, <2>1, <2>3 DEF Fresh, PagesOf
    <3>2. screen.paging = "auto" =>
            last \/ r.page >= MaxAutoPages \/ (screen.buttons /\ ~r.live /\ r.page < MaxAutoPages)
      BY <1>1, <1>3, <1>5, <2>3 DEF GoesOn, Waits
    <3>3. screen.paging = "auto" => Ended'
      BY <1>1, <1>3, <2>1, <2>3, <3>2 DEF Ended
    <3> QED BY <3>1, <3>3
  <2>4. IInv'
    BY <1>1, <1>2, <1>3, <1>4, <2>1, <2>2, <2>3, EndStep
  <2> QED BY <1>3, <1>4, <2>1, <2>4
<1>6. CASE GoesOn(r, last)
  <2> HIDE DEF f
  <2> DEFINE p == r.page + 1
             reqs == flight \ {r}
  <2>1. Send(reqs, f, r.query, p, TRUE) /\ screen.paging = "auto" /\ r.live /\ r.page < LastPage
    BY <1>6 DEF Answer, GoesOn, f
  <2>2. p \in 1 .. LastPage /\ p > 1 /\ reqs \in SUBSET flight /\ reqs \in SUBSET Request
    BY <1>1, <2>1
  <2>3. Protected => Showing /\ Due(r) /\ Loops
    BY <1>1, <2>1 DEF Kept, Loops
  <2>4. CASE Calm /\ Showing
    <3>1. Due(r)
      BY <1>4, <1>6, <2>4
    <3>2. r.query = asked /\ p - 1 = r.page
      BY <1>1, <1>3, <2>4, <3>1 DEF Waits
    <3>3. \A o \in reqs : ~Due(o)
      BY <1>1, <2>4, <3>1 DEF Latest
    <3>4. /\ slot.slice.claims # "id" => \A o \in reqs : o.aborted
          /\ Protected /\ Loops => \A o \in reqs : ~o.live
      BY <1>1, <3>3 DEF Due, Kept
    <3> HIDE DEF p, reqs
    <3>5. Send(reqs, f, asked, p, TRUE)
      BY <2>1, <3>2
    <3>6. Told(reqs) /\ \A o, b \in reqs : o.id = b.id => o = b
      BY <1>1, <2>2 DEF Told, IdsDiffer
    <3>7. f.owner.query # None
      BY <1>3, <2>4, <3>1 DEF Showing
    <3>8. IInv' /\ store'.rows = f.rows /\ ~store'.loading /\ ~store'.failed
      BY <1>1, <1>2, <1>3, <2>2, <2>4, <3>1, <3>2, <3>4, <3>5, <3>6, <3>7, NextPage
    <3> QED BY <1>3, <2>4, <3>1, <3>8
  <2>5. CASE ~(Calm /\ Showing)
    <3>1. ~Protected
      BY <2>3, <2>5 DEF Calm
    <3> HIDE DEF p
    <3>2. ASSUME NEW live \in BOOLEAN, Send(reqs, f, r.query, p, live)
          PROVE  \E o \in Request : /\ o.query = r.query /\ ~o.aborted
                                    /\ \A b \in reqs : b.id # o.id
                                    /\ flight' = reqs \cup {o}
                                    /\ store' = Pending(f, o)
      BY <1>1, <1>2, <2>2, <3>2, SendFacts
    <3>3. PICK o \in Request :
              /\ o.query = r.query /\ ~o.aborted
              /\ \A b \in reqs : b.id # o.id
              /\ flight' = reqs \cup {o}
              /\ store' = Pending(f, o)
      BY <2>1, <3>2
    <3>4. store' \in Store /\ (asked # None => store'.owner.query # None)
      BY <1>1, <1>2, <3>3, PendingFacts DEF TypeInv
    <3>5. overlapped' \in BOOLEAN /\ (~overlapped' => ~overlapped)
      BY <1>1, <1>2, <2>1, <2>2, SendFacts
    <3>6. TypeInv'
      BY <1>1, <2>2, <3>3, <3>4, <3>5 DEF TypeInv, TypeOK
    <3>7. IdsDiffer' /\ Told(flight)'
      BY <1>1, <3>3 DEF IdsDiffer, Told
    <3>8. Latest' /\ Kept'
      BY <1>1, <2>5, <3>1, <3>5 DEF Latest, Kept, Calm, Protected, Showing
    <3> QED BY <2>5, <3>6, <3>7, <3>8 DEF IInv
  <2> QED BY <2>4, <2>5
<1> QED BY <1>5, <1>6

LEMMA NextStep ==
    ASSUME IInv, [Next]_vars
    PROVE  IInv'
<1>1. CASE UNCHANGED vars
  BY <1>1 DEF vars, IInv, TypeInv, TypeOK, IdsDiffer, Told, Latest, Kept, Showing, Fresh, Settled,
              Ended, PagesOf, Due, Waits, Whole, Loops, Protected, Calm
<1>2. ASSUME NEW q \in Queries, Ask(q)
      PROVE  IInv'
  BY <1>2, AskStep
<1>3. ASSUME NEW q \in Queries, NEW sc \in slot.screens, Opens(sc, q)
      PROVE  IInv'
  BY <1>3, OpensStep
<1>4. CASE AskNothing \/ Leave
  BY <1>4, CloseStep
<1>5. CASE LoadMore
  BY <1>5, LoadMoreStep
<1>6. ASSUME NEW r \in flight, Settle(r)
      PROVE  IInv'
  BY <1>6, RejectStep, AnswerStep DEF Settle
<1>7. CASE Refresh \/ FollowingPage
  BY <1>7, ButtonStep
<1> QED BY <1>1, <1>2, <1>3, <1>4, <1>5, <1>6, <1>7 DEF Next

\* The inductive invariant holds throughout.
THEOREM Invariance == Spec => []IInv
<1>1. Init => IInv
  BY InitStep
<1>2. IInv /\ [Next]_vars => IInv'
  BY NextStep
<1> QED BY <1>1, <1>2, PTL DEF Spec

\* TypeOK: the slot, its requests and its screens keep to their types, and no more
\* requests get ids than there are.
THEOREM TypeCorrect == Spec => []TypeOK
<1>1. IInv => TypeOK
  BY DEF IInv, TypeInv
<1> QED BY <1>1, Invariance, PTL

\* ShowsWhatIsAsked: whatever table of slots the habit assumptions admit, and however
\* many requests overlap, a protected slot shows pages of what is asked.
THEOREM ShowsLatest == Spec => []ShowsWhatIsAsked
<1>1. IInv => ShowsWhatIsAsked
  BY DEF IInv, Latest, Fresh, Calm, Showing, ShowsWhatIsAsked
<1> QED BY <1>1, Invariance, PTL

\* OnlyOverlapsMislead: without any habit that keeps late answers away, a screen whose
\* last question was sent while no other request was under way shows what it asks.
THEOREM OverlapsAloneMislead == Spec => []OnlyOverlapsMislead
<1>1. IInv => OnlyOverlapsMislead
  BY DEF IInv, Latest, Fresh, Calm, Showing, OnlyOverlapsMislead
<1> QED BY <1>1, Invariance, PTL

\* WholeOrMarked: when a page loop has stopped, for any page limit and any length of the
\* answer, its list is the whole answer or says that it is cut.
THEOREM ListsWholeOrMarked == Spec => []WholeOrMarked
<1>1. ASSUME IInv PROVE WholeOrMarked
  <2> SUFFICES ASSUME Protected, slot.slice.marks, open, asked # None, Settled, ~store.more
               PROVE  store.truncated \/ (store.rows # <<>> /\ store.rows[Len(store.rows)].last)
    BY DEF WholeOrMarked
  <2>1. screen.paging = "auto" /\ ~screen.buttons
    BY <1>1, HabitAssumption, HabitFacts DEF IInv, TypeInv, TypeOK
  <2>2. Fresh /\ Ended
    BY <1>1, <2>1 DEF IInv, Latest, Calm, Showing
  <2> QED BY <2>1, <2>2 DEF Fresh, Ended
<1> QED BY <1>1, Invariance, PTL

-----------------------------------------------------------------------------
(* What turns a spinner.                                                   *)

\* The slot ends its spinner even when its controls are emptied: it settles what is
\* aborted, or clears the loading.
Tends ==
    \/ slot.slice.aborted = "settle"
    \/ "loading" \in slot.slice.clears /\ \E sc \in slot.screens : sc.empties = "clears"

\* The requests whose end ends the spinner.
EndsSpinner(r) == Ends(store, r) /\ (r.aborted => slot.slice.aborted # "ignore")

\* The invariant, which a slot that tends to its spinner keeps without a question and
\* while no screen is open.
SpinInv ==
    (store.loading \/ store.more) /\ (Showing \/ Tends) => \E r \in flight : EndsSpinner(r)

LEMMA SentSpins ==
    ASSUME slot \in Slots, slot' = slot, NEW reqs \in SUBSET Request, NEW s \in Store,
           NEW q \in Queries, NEW p \in 1 .. LastPage, NEW live \in BOOLEAN,
           Send(reqs, s, q, p, live)
    PROVE  SpinInv'
<1>1. PICK r \in Request : /\ r.query = q /\ ~r.aborted
                           /\ flight' = reqs \cup {r} /\ store' = Pending(s, r)
  BY SendFacts
<1>2. /\ store'.owner.id = r.id /\ r.query # None
      /\ slot.slice.drops # "group" => store'.owner.query = r.query
      /\ slot.slice.drops = "group" => slot.slice.claims = "none"
  BY <1>1, PendingFacts, HabitFacts, SlotAssumption
<1>3. Ends(store, r)'
  BY <1>2, SlotFacts DEF Ends, SameGroup, Slices
<1> QED BY <1>1, <1>3 DEF SpinInv, EndsSpinner

\* Closing, emptying and leaving: what is aborted is taken notice of, or what loads is
\* no longer said to load.
LEMMA ClosedSpins ==
    ASSUME IInv, SpinInv, AskNothing \/ Leave
    PROVE  SpinInv'
<1>1. /\ slot \in Slots /\ slot' = slot /\ slot.slice \in Slices
      /\ store \in Store /\ screen \in slot.screens
      /\ TypeOK /\ IdsDiffer /\ Told(flight) /\ flight' = Superseded /\ asked' = None
  BY SlotFacts DEF IInv, TypeInv, TypeOK, AskNothing, Leave
<1> SUFFICES ASSUME store'.loading \/ store'.more, Tends
             PROVE  \E r \in flight' : EndsSpinner(r)'
  BY <1>1 DEF SpinInv, Showing, Tends
<1>2. /\ store.loading \/ store.more
      /\ store' = store \/ (store' = Cleared(store) /\ "loading" \notin slot.slice.clears)
  BY <1>1, ClearedFacts DEF AskNothing, Leave
<1>3. PICK r \in flight : EndsSpinner(r)
  BY <1>2 DEF SpinInv
<1>4. PICK o \in Superseded : /\ o.id = r.id /\ o.query = r.query
                              /\ o.aborted => r.aborted \/ screen.cancel = "abort"
  BY <1>1, SupersededFacts
<1>5. "loading" \notin slot.slice.clears => slot.slice.aborted = "settle"
  BY DEF Tends
<1>6. store'.owner = store.owner
  <2>1. CASE store' = store
    BY <2>1
  <2>2. CASE store' = Cleared(store) /\ "loading" \notin slot.slice.clears
    <3>1. {"owner", "loading"} \cap slot.slice.clears = {}
      BY <1>1, <1>5, <2>2, HabitAssumption
    <3> QED BY <1>1, <2>2, <3>1, ClearedFacts
  <2> QED BY <1>2, <2>1, <2>2
<1>7. Ends(store, o)'
  BY <1>1, <1>3, <1>4, <1>6 DEF EndsSpinner, Ends, SameGroup
<1>8. o.aborted => slot.slice.aborted # "ignore"
  <2>1. screen.cancel = "abort" => slot.slice.aborted # "ignore"
    BY <1>1, ClearAssumption DEF Tends
  <2> QED BY <1>3, <1>4, <2>1 DEF EndsSpinner
<1> QED BY <1>1, <1>4, <1>7, <1>8 DEF EndsSpinner

\* The spinner stops with the request that ends it, and turns on when another settles.
LEMMA SettledSpins ==
    ASSUME IInv, SpinInv, NEW r \in flight, Settle(r)
    PROVE  SpinInv'
<1>1. /\ slot \in Slots /\ store \in Store /\ r \in Request /\ flight \in SUBSET Request
      /\ slot' = slot /\ open' = open /\ asked' = asked
  BY DEF IInv, TypeInv, TypeOK, Settle, Reject, Answer
<1>2. ASSUME flight' = flight \ {r},
             IF EndsSpinner(r) THEN ~store'.loading /\ ~store'.more ELSE store' = store
      PROVE  SpinInv'
  <2>1. CASE EndsSpinner(r)
    BY <1>2, <2>1 DEF SpinInv
  <2>2. CASE ~EndsSpinner(r)
    <3>1. store' = store
      BY <1>2, <2>2
    <3>2. \A o \in flight : EndsSpinner(o)' = EndsSpinner(o)
      BY <1>1, <3>1 DEF EndsSpinner, Ends, SameGroup
    <3> QED BY <1>1, <1>2, <2>2, <3>1, <3>2 DEF SpinInv, Showing, Tends
  <2> QED BY <2>1, <2>2
<1>3. CASE Reject(r)
  <2>1. store' = Rejected(store, r) /\ flight' = flight \ {r}
    BY <1>3 DEF Reject
  <2>2. ~EndsSpinner(r) => store' = store
    BY <1>1, <2>1, RejectedFacts DEF EndsSpinner
  <2>3. EndsSpinner(r) => ~store'.loading /\ ~store'.more
    BY <1>1, <2>1 DEF EndsSpinner, Rejected, Store
  <2> QED BY <1>2, <2>1, <2>2, <2>3
<1>4. ASSUME NEW last \in BOOLEAN, Answer(r, last)
      PROVE  SpinInv'
  <2> DEFINE f == Fulfilled(store, r, last)
  <2>1. f \in Store
    BY <1>1, FulfilledFacts
  <2>2. ~r.aborted /\ (IF EndsSpinner(r) THEN ~f.loading /\ ~f.more ELSE f = store)
    BY <1>1, <1>4, FulfilledFacts DEF EndsSpinner, Answer
  <2> HIDE DEF f
  <2>3. CASE ~GoesOn(r, last)
    <3>1. store' = f /\ flight' = flight \ {r}
      BY <1>4, <2>3 DEF Answer, f
    <3> QED BY <1>2, <2>2, <3>1
  <2>4. CASE GoesOn(r, last)
    <3>1. Send(flight \ {r}, f, r.query, r.page + 1, TRUE) /\ r.page < LastPage
      BY <1>4, <2>4 DEF Answer, GoesOn, f
    <3>2. r.page + 1 \in 1 .. LastPage /\ r.query \in Queries
      BY <1>1, <3>1, SlotAssumption DEF Request
    <3> QED BY <1>1, <2>1, <3>1, <3>2, SentSpins
  <2> QED BY <2>3, <2>4
<1> QED BY <1>3, <1>4 DEF Settle

LEMMA NextSpins ==
    ASSUME IInv, SpinInv, [Next]_vars
    PROVE  SpinInv'
<1>1. /\ slot \in Slots /\ store \in Store /\ flight \in SUBSET Request
      /\ screen \in slot.screens /\ TypeOK /\ IdsDiffer /\ Told(flight)
      /\ 1 \in 1 .. LastPage
  BY SlotAssumption DEF IInv, TypeInv, TypeOK
<1>2. CASE UNCHANGED vars
  BY <1>2 DEF vars, SpinInv, Showing, Tends, EndsSpinner, Ends, SameGroup
<1>3. ASSUME NEW q \in Queries, Ask(q)
      PROVE  SpinInv'
  <2>1. Send(Superseded, Prepared(store, q), q, 1, TRUE) /\ slot' = slot
    BY <1>3 DEF Ask
  <2>2. Superseded \in SUBSET Request /\ Prepared(store, q) \in Store
    BY <1>1, SupersededFacts, PreparedFacts
  <2> QED BY <1>1, <2>1, <2>2, SentSpins
<1>4. ASSUME NEW q \in Queries, NEW sc \in slot.screens, Opens(sc, q)
      PROVE  SpinInv'
  <2>1. CASE Send(flight, Prepared(store, q), q, 1, TRUE)
    BY <1>1, <1>4, <2>1, SentSpins, PreparedFacts DEF Opens
  <2>2. CASE asked' = None /\ UNCHANGED <<store, flight, overlapped>>
    BY <1>4, <2>2 DEF Opens, SpinInv, Showing, Tends, EndsSpinner, Ends, SameGroup
  <2> QED BY <1>4, <2>1, <2>2 DEF Opens
<1>5. CASE AskNothing \/ Leave
  BY <1>5, ClosedSpins
<1>6. CASE LoadMore
  <2> DEFINE p == store.rows[Len(store.rows)].page + 1
  <2>1. Send(flight, store, store.owner.query, p, TRUE) /\ slot' = slot
    BY <1>6 DEF LoadMore
  <2>2. store.owner.query \in Queries
    BY <1>6 DEF IInv, TypeInv, TypeOK, Store, Owner, LoadMore
  <2>3. p \in 1 .. LastPage
    <3>1. store.rows \in Seq(Page) /\ store.rows # <<>> /\ LastPage \in Nat
          /\ store.rows[Len(store.rows)].page < LastPage
      BY <1>1, <1>6, SlotAssumption DEF Store, LoadMore
    <3>2. store.rows[Len(store.rows)] \in Page
      BY <3>1
    <3> QED BY <3>1, <3>2 DEF Page
  <2> HIDE DEF p
  <2> QED BY <1>1, <2>1, <2>2, <2>3, SentSpins
<1>7. ASSUME NEW r \in flight, Settle(r)
      PROVE  SpinInv'
  BY <1>7, SettledSpins
<1>8. ASSUME NEW p \in 1 .. LastPage, ByButton(p)
      PROVE  SpinInv'
  <2>1. Send(Superseded, store, asked, p, FALSE) /\ slot' = slot /\ asked \in Queries
    BY <1>1, <1>8 DEF ByButton, TypeOK
  <2>2. Superseded \in SUBSET Request
    BY <1>1, SupersededFacts
  <2> QED BY <1>1, <2>1, <2>2, SentSpins
<1>9. CASE FollowingPage
  <2>1. PICK i \in DOMAIN store.rows : /\ store.rows[i].page < LastPage
                                       /\ ByButton(store.rows[i].page + 1)
    BY <1>9 DEF FollowingPage
  <2>2. store.rows \in Seq(Page) /\ store.rows[i] \in Page /\ LastPage \in Nat
    BY <1>1, <2>1, SlotAssumption DEF Store
  <2>3. store.rows[i].page + 1 \in 1 .. LastPage
    BY <2>1, <2>2 DEF Page
  <2> QED BY <1>8, <2>1, <2>3
<1> QED BY <1>1, <1>2, <1>3, <1>4, <1>5, <1>6, <1>7, <1>8, <1>9 DEF Next, Refresh

\* SpinnerHasRequest: whatever the habits and however many requests overlap, a spinner
\* that turns has a request under way whose end stops it.
THEOREM SpinnersEndWithRequests == Spec => []SpinnerHasRequest
<1>1. Init => SpinInv
  BY DEF Init, SpinInv, Empty
<1>2. IInv /\ SpinInv /\ [Next]_vars => SpinInv'
  BY NextSpins
<1>3. IInv /\ SpinInv => SpinnerHasRequest
  BY DEF IInv, TypeInv, TypeOK, SpinInv, SpinnerHasRequest, Showing, Tends, EndsSpinner
<1> QED BY <1>1, <1>2, <1>3, Invariance, PTL DEF Spec

-----------------------------------------------------------------------------
(* A protected slot implements LatestAnswer.                               *)

LEMMA PromiseInit == Init => Promise!Init
BY DEF Init, Promise!Init, ShownAsked, ShownStatus, ShownPages

LEMMA PromiseStep ==
    ASSUME IInv, IInv', [Next]_vars
    PROVE  [Promise!Next]_(Promise!vars)
<1>1. /\ slot \in Slots /\ TypeInv /\ store \in Store /\ slot' = slot
      /\ None \notin Queries /\ asked \in Queries \cup {None} /\ open \in BOOLEAN
  BY SlotAssumption DEF IInv, TypeInv, TypeOK, Next, vars, Ask, Opens, AskNothing, LoadMore, Leave,
                        Settle, Reject, Answer, Refresh, FollowingPage, ByButton
<1>2. CASE UNCHANGED vars
  BY <1>2 DEF vars, Promise!vars, ShownAsked, ShownStatus, ShownPages, Protected, PagesOf
<1>3. CASE ~Protected
  BY <1>1, <1>3 DEF Promise!vars, ShownAsked, ShownStatus, ShownPages, Protected
<1>4. ASSUME Protected, NEW q \in Queries, asked' = q, open', store'.loading
      PROVE  Promise!Ask(q)
  BY <1>1, <1>4 DEF Promise!Ask, ShownAsked, ShownStatus, ShownPages, Protected
<1>5. ASSUME NEW q \in Queries, Ask(q), Protected
      PROVE  Promise!Ask(q)
  <2>1. asked' = q /\ open' /\ store'.loading
    BY <1>5, AskStep DEF Ask
  <2> QED BY <1>4, <1>5, <2>1
<1>6. ASSUME Protected, asked' = None
      PROVE  Promise!Leave
  BY <1>1, <1>6 DEF Promise!Leave, ShownAsked, ShownStatus, ShownPages, Protected
<1>7. ASSUME NEW q \in Queries, NEW sc \in slot.screens, Opens(sc, q), Protected
      PROVE  Promise!Ask(q) \/ Promise!Leave
  <2>1. asked' = None \/ (asked' = q /\ open' /\ store'.loading)
    BY <1>7, OpensStep DEF Opens
  <2> QED BY <1>4, <1>6, <1>7, <2>1
<1>8. ASSUME AskNothing \/ Leave, Protected
      PROVE  Promise!Leave
  BY <1>6, <1>8, CloseStep
<1>9. ASSUME Protected, UNCHANGED <<open, asked>>, ~Showing
      PROVE  UNCHANGED Promise!vars
  BY <1>1, <1>9 DEF Promise!vars, ShownAsked, ShownStatus, ShownPages, Protected, Showing, TypeInv
<1>10. ASSUME Protected, UNCHANGED <<open, asked>>, store' = store
       PROVE  UNCHANGED Promise!vars
  BY <1>1, <1>10 DEF Promise!vars, ShownAsked, ShownStatus, ShownPages, Protected, PagesOf
<1>11. ASSUME Protected, Showing
       PROVE  /\ ShownAsked = asked /\ asked # None
              /\ ShownStatus = IF store.loading THEN "waiting"
                               ELSE IF store.failed THEN "failed" ELSE "shown"
              /\ ShownPages =
                    IF \/ store.loading
                       \/ store.failed /\ slot.slice.drops # "all"
                       \/ ~PagesOf(store.rows, asked)
                    THEN 0 ELSE Len(store.rows)
  BY <1>11 DEF Showing, ShownAsked, ShownStatus, ShownPages
<1>12. ASSUME Protected, Showing, UNCHANGED <<open, asked>>
       PROVE  /\ ShownAsked' = asked
              /\ ShownStatus' = IF store'.loading THEN "waiting"
                                ELSE IF store'.failed THEN "failed" ELSE "shown"
              /\ ShownPages' =
                    IF \/ store'.loading
                       \/ store'.failed /\ slot.slice.drops # "all"
                       \/ ~PagesOf(store'.rows, asked)
                    THEN 0 ELSE Len(store'.rows)
  BY <1>1, <1>12 DEF Showing, ShownAsked, ShownStatus, ShownPages, Protected, PagesOf
<1>13. ASSUME LoadMore, Protected
       PROVE  Promise!Resume \/ UNCHANGED Promise!vars
  <2>1. /\ Showing /\ UNCHANGED <<open, asked>> /\ ~store.loading
        /\ PagesOf(store.rows, asked) /\ store.rows # <<>> /\ store.rows \in Seq(Page)
        /\ slot.slice.drops = "all"
        /\ store'.rows = store.rows /\ ~store'.loading /\ ~store'.failed
    BY <1>1, <1>13, LoadMoreStep DEF LoadMore, Showing, Store
  <2>2. Len(store.rows) > 0
    BY <2>1
  <2> QED BY <1>11, <1>12, <1>13, <2>1, <2>2 DEF Promise!Resume, Promise!vars
<1>14. ASSUME NEW r \in flight, Reject(r), Protected
       PROVE  Promise!Fail \/ UNCHANGED Promise!vars
  <2>1. UNCHANGED <<open, asked>>
    BY <1>14 DEF Reject
  <2>2. CASE Showing /\ Due(r)
    <3>1. /\ Waits(r) /\ ~store'.loading /\ store'.failed
          /\ store'.rows = store.rows \/ store'.rows = <<>>
          /\ r.page = 1 => (slot.slice.drops = "all" => store.rows = <<>>)
          /\ ~store.failed
      BY <1>14, <2>2, RejectStep DEF Waits, IInv, Latest, Fresh, Calm
    <3>2. Len(<<>>) = 0
      OBVIOUS
    <3>3. CASE r.page = 1
      <4>1. store.loading
        BY <3>1, <3>3 DEF Waits
      <4>2. ShownPages' = 0 /\ ShownStatus' = "failed" /\ ShownAsked' = asked
        BY <1>12, <1>14, <2>1, <2>2, <3>1, <3>2, <3>3
      <4> QED BY <1>11, <1>14, <2>2, <4>1, <4>2 DEF Promise!Fail
    <3>4. CASE r.page # 1
      <4>1. ~store.loading /\ PagesOf(store.rows, asked)
        BY <3>1, <3>4 DEF Waits, Whole
      <4>2. ShownPages' \in {0, Len(store.rows)} /\ ShownStatus' = "failed" /\ ShownAsked' = asked
        BY <1>12, <1>14, <2>1, <2>2, <3>1, <3>2
      <4> QED BY <1>11, <1>14, <2>2, <3>1, <4>1, <4>2 DEF Promise!Fail
    <3> QED BY <3>3, <3>4
  <2>3. CASE ~Showing
    BY <1>9, <1>14, <2>1, <2>3
  <2>4. CASE Showing /\ ~Due(r)
    BY <1>10, <1>14, <2>1, <2>4, RejectStep DEF Calm
  <2> QED BY <2>2, <2>3, <2>4
<1>15. ASSUME NEW r \in flight, NEW last \in BOOLEAN, Answer(r, last), Protected
       PROVE  Promise!First \/ Promise!More \/ UNCHANGED Promise!vars
  <2>1. UNCHANGED <<open, asked>>
    BY <1>15 DEF Answer
  <2>2. CASE Showing /\ Due(r)
    <3>1. /\ Waits(r) /\ ~store'.loading /\ ~store'.failed /\ ~store.failed
          /\ PagesOf(store'.rows, asked) /\ Len(store'.rows) = r.page
      BY <1>15, <2>2, AnswerStep DEF Waits, Calm
    <3>2. ShownAsked' = asked /\ ShownStatus' = "shown" /\ ShownPages' = r.page
      BY <1>12, <1>15, <2>1, <2>2, <3>1
    <3>3. CASE r.page = 1
      <4>1. store.loading
        BY <3>1, <3>3 DEF Waits
      <4> QED BY <1>11, <1>15, <2>2, <3>2, <3>3, <4>1 DEF Promise!First
    <3>4. CASE r.page # 1
      <4>1. /\ ~store.loading /\ PagesOf(store.rows, asked) /\ Len(store.rows) = r.page - 1
            /\ r.page \in Nat
        BY <3>1, <3>4 DEF Waits, Whole, IInv, TypeInv, TypeOK, Request
      <4> QED BY <1>11, <1>15, <2>2, <3>1, <3>2, <4>1 DEF Promise!More
    <3> QED BY <3>3, <3>4
  <2>3. CASE ~Showing
    BY <1>9, <1>15, <2>1, <2>3
  <2>4. CASE Showing /\ ~Due(r)
    BY <1>10, <1>15, <2>1, <2>4, AnswerStep DEF Calm
  <2> QED BY <2>2, <2>3, <2>4
<1>16. ASSUME NEW r \in flight, Settle(r), Protected
       PROVE  Promise!First \/ Promise!More \/ Promise!Fail \/ UNCHANGED Promise!vars
  BY <1>14, <1>15, <1>16 DEF Settle
<1>17. Refresh \/ FollowingPage => ~Protected
  BY ButtonStep
<1> QED BY <1>2, <1>3, <1>5, <1>7, <1>8, <1>13, <1>16, <1>17 DEF Next, Promise!Next

\* KeepsPromise: a protected slot implements the promise of LatestAnswer: the next
\* thing a screen shows is always the next page, or the failure, of its last question.
THEOREM ImplementsLatestAnswer == Spec => KeepsPromise
<1>1. Init => Promise!Init
  BY PromiseInit
<1>2. IInv /\ IInv' /\ [Next]_vars => [Promise!Next]_(Promise!vars)
  BY PromiseStep
<1> QED BY <1>1, <1>2, Invariance, PTL DEF Spec, KeepsPromise, Promise!Spec
=============================================================================
