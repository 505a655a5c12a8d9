----------------------------- MODULE SlotHabits -----------------------------
(***************************************************************************)
(* The plain request slot of the frontend, as createAsyncThunk's examples  *)
(* have it: pending sets loading, every answer is adopted, every failure   *)
(* is shown, nothing is cancelled.  The tables of ListSlots, ReportSlots,  *)
(* SearchSlots and AdminSlots say where a slot differs from it.  The       *)
(* fields are explained in RequestSlot.                                    *)
(***************************************************************************)
PlainThunk == [paged |-> FALSE, timed |-> FALSE]

PlainSlice ==
    [claims |-> "none", drops |-> "no", heals |-> FALSE, wipes |-> "never", aborted |-> "fail",
     marks |-> FALSE, dedups |-> FALSE, clears |-> {}]

PlainPage ==
    [starts |-> "effect", cancel |-> "none", paging |-> "none", opens |-> TRUE,
     empties |-> "no", leaves |-> FALSE, buttons |-> FALSE]
=============================================================================
