---------------------------- MODULE SightProofs -----------------------------
(***************************************************************************)
(* What the user may conclude from a screen, for every table of slots and  *)
(* views whose habits go together.  The invariant of RequestSlot is enough *)
(* for all of it: a view has no state of its own.                          *)
(***************************************************************************)
EXTENDS Sight, RequestSlotProofs

\* A view of the slot and the screen of this behaviour.
LEMMA ViewFacts ==
    ASSUME TypeOK, NEW v \in ViewsOf[slot][screen]
    PROVE  v \in Views /\ v.slot = slot /\ v.screen = screen
BY DEF TypeOK, ViewsOf

\* What IInv says of an undisturbed slot.
LEMMA CalmFacts ==
    ASSUME IInv, Undisturbed
    PROVE  /\ TypeOK
           /\ Settled => store.rows # <<>> /\ PagesOf(store.rows, asked)
           /\ slot.slice.drops = "all" =>
                PagesOf(store.rows, asked) /\ (store.loading => store.rows = <<>>)
           /\ store.failed => (slot.slice.wipes # "never" => PagesOf(store.rows, asked))
           /\ store.loading \/ store.more => \E r \in flight : ~r.aborted
           /\ screen.paging = "auto" /\ Settled /\ ~store.more => Ended
<1>1. Latest /\ Calm /\ Showing
  BY DEF IInv, Undisturbed, Calm, Showing
<1>2. Fresh /\ TypeOK
  BY <1>1 DEF Latest, IInv, TypeInv
<1>3. store.loading \/ store.more => \E r \in flight : ~r.aborted
  BY <1>1 DEF Latest, Waits
<1>4. screen.paging = "auto" /\ Settled /\ ~store.more => Ended
  BY <1>1 DEF Latest
<1> QED BY <1>2, <1>3, <1>4 DEF Fresh

\* Rows that answer the question pass the comparison with the controls.
LEMMA SightFacts ==
    ASSUME NEW v, NEW p
    PROVE  /\ store.rows = <<>> => Matched(v) = <<>>
           /\ PagesOf(store.rows, asked) => Matched(v) = store.rows /\ PagesOf(Seen(v, p), asked)
<1>1. DOMAIN <<>> = {}
  OBVIOUS
<1>2. Matched(v) \in {store.rows, <<>>} /\ Seen(v, p) \in {Matched(v), <<>>}
  BY DEF Matched, Seen
<1>3. PagesOf(store.rows, asked) => Matched(v) = store.rows
  BY DEF Matched, PagesOf
<1>4. PagesOf(<<>>, asked)
  BY <1>1 DEF PagesOf
<1> QED BY <1>2, <1>3, <1>4

\* A view that is not silent shows a sign of loading, and one of a failure.
LEMMA SignFacts ==
    ASSUME IInv, Undisturbed, NEW v \in ViewsOf[slot][screen] \ Silent
    PROVE  (store.loading => Busy(v)) /\ (store.failed => Trouble(v))
<1>1. v \in Views \ Silent /\ v.slot = slot
  BY CalmFacts, ViewFacts
<1>2. ASSUME store.loading PROVE Busy(v)
  <2>1. PICK p \in v.parts : \/ p.loading \in {"covers", "marks"}
                             \/ p.loading = "first" /\ slot.slice.drops = "all"
    BY <1>1, SignAssumption
  <2>2. CASE p.loading \in {"covers", "marks"}
    BY <1>2, <2>2 DEF Busy, Covered
  <2>3. CASE p.loading = "first" /\ slot.slice.drops = "all"
    <3>1. Matched(v) = <<>>
      BY <1>2, <2>3, CalmFacts, SightFacts
    <3> QED BY <1>2, <2>3, <3>1 DEF Busy, Covered
  <2> QED BY <2>1, <2>2, <2>3
<1>3. store.failed => Trouble(v)
  BY <1>1, SignAssumption DEF Trouble
<1> QED BY <1>2, <1>3

-----------------------------------------------------------------------------
\* SeenIsTrue: unless it says that it is loading or has failed, an undisturbed screen
\* shows rows of its own question only, and "nothing" only where there is nothing.
THEOREM ScreensTellTheTruth == Spec => []SeenIsTrue
<1>1. IInv => SeenIsTrue
  <2> SUFFICES ASSUME IInv, Undisturbed, NEW v \in ViewsOf[slot][screen] \ Silent,
                      ~Busy(v), ~Trouble(v), NEW p \in v.parts
               PROVE  ~Nothing(v, p, "says") /\ PagesOf(Seen(v, p), asked)
    BY DEF SeenIsTrue
  <2>1. Settled
    BY SignFacts DEF Settled
  <2>2. store.rows # <<>> /\ PagesOf(store.rows, asked)
    BY <2>1, CalmFacts
  <2> QED BY <2>2, SightFacts DEF Nothing
<1> QED BY <1>1, Invariance, PTL

\* FailureLeavesNothingOld: a part that shows no failure shows no older rows after one,
\* because the slot dropped them with the question or wiped them with the failure.
THEOREM FailuresClearTheScreen == Spec => []FailureLeavesNothingOld
<1>1. IInv => FailureLeavesNothingOld
  <2> SUFFICES ASSUME IInv, Undisturbed, store.failed,
                      NEW v \in ViewsOf[slot][screen] \ Lingering,
                      NEW p \in v.parts, p.failure = "no"
               PROVE  PagesOf(Seen(v, p), asked)
    BY DEF FailureLeavesNothingOld
  <2>1. v \in Views \ Lingering /\ v.slot = slot
    BY CalmFacts, ViewFacts
  <2>2. slot.slice.drops = "all" \/ slot.slice.wipes # "never"
    BY <2>1, SignAssumption
  <2> QED BY <2>2, CalmFacts, SightFacts
<1> QED BY <1>1, Invariance, PTL

\* WaitsForSomething: a screen that says it waits has a request under way that was not
\* given up.
THEOREM WaitsEnd == Spec => []WaitsForSomething
<1>1. IInv => WaitsForSomething
  <2> SUFFICES ASSUME IInv, Undisturbed, NEW v \in ViewsOf[slot][screen] \ Endless, Busy(v)
               PROVE  store.loading \/ store.more
    BY CalmFacts DEF WaitsForSomething
  <2>1. v \in Views \ Endless
    BY CalmFacts, ViewFacts
  <2>2. ASSUME NEW p \in v.parts, Nothing(v, p, "waits")
        PROVE  store.loading
    <3>1. p.failure = "instead"
      BY <2>1, <2>2, SignAssumption DEF Nothing
    <3>2. ~store.failed /\ Matched(v) = <<>>
      BY <2>2, <3>1 DEF Nothing, Hidden
    <3> QED BY <3>2, CalmFacts, SightFacts DEF Settled
  <2> QED BY <2>2 DEF Busy, Covered
<1> QED BY <1>1, Invariance, PTL

\* ExportsAreWhole: an export is the answer to what the controls say from its first page
\* on, and as a whole where a loop fetches it, unless the screen says otherwise or the user
\* has taken over from the loop.
THEOREM ExportsWholeOrMarked == Spec => []ExportsAreWhole
<1>1. IInv => ExportsAreWhole
  <2> SUFFICES ASSUME IInv, Undisturbed, NEW v \in ViewsOf[slot][screen] \ Silent,
                      CanExport(v), store.loading => slot.slice.drops = "all", ~Trouble(v)
               PROVE  /\ PagesOf(store.rows, asked)
                      /\ screen.paging = "auto" /\ store.rows # <<>> =>
                            Notice(v) \/ TakenOver(v) \/ store.rows[Len(store.rows)].last
    BY DEF ExportsAreWhole
  <2>1. v \in Views \ Silent /\ v.screen = screen
    BY CalmFacts, ViewFacts
  <2>2. ~store.failed
    BY SignFacts
  <2>3. PagesOf(store.rows, asked)
    BY <2>2, CalmFacts DEF Settled
  <2>4. ASSUME screen.paging = "auto", store.rows # <<>>
        PROVE  Notice(v) \/ TakenOver(v) \/ store.rows[Len(store.rows)].last
    <3>1. Settled
      BY <2>2, <2>4, CalmFacts DEF Settled
    <3>2. v.notice /\ "more" \notin v.exports
      BY <2>1, <2>4, ExportAssumption DEF CanExport
    <3>3. ~store.more
      BY <3>1, <3>2 DEF CanExport, Phase, Settled
    <3> QED BY <2>1, <2>4, <3>1, <3>2, <3>3, CalmFacts DEF Ended, Notice, TakenOver
  <2> QED BY <2>3, <2>4
<1> QED BY <1>1, Invariance, PTL
=============================================================================
