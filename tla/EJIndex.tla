------------------------------- MODULE EJIndex -------------------------------
(***************************************************************************)
(* What the index of a journal promises to somebody who searches it.  Up   *)
(* to the line the journal has been indexed to, every transaction is found *)
(* and none changes any more; that line moves forward over what is found,  *)
(* or back to the start; only when it is at the start are transactions     *)
(* taken away.                                                             *)
(***************************************************************************)
EXTENDS Naturals

VARIABLES
    complete,   \* the transactions that stand in the journal, by their last line
    found,      \* those a search finds
    reached     \* the line the journal has been indexed to

vars == <<complete, found, reached>>

UpTo(txns, n) == {e \in txns : e <= n}
Covered == UpTo(complete, reached) \subseteq found

Init ==
    /\ complete \in SUBSET Nat /\ found \in SUBSET Nat /\ reached \in Nat
    /\ Covered

\* The indexer stores more of what it has read.
Store ==
    /\ found' \in SUBSET Nat /\ found \subseteq found'
    /\ UNCHANGED <<reached, complete>>

\* The journal is written, or cut: behind what is indexed, or the index starts again.
Write ==
    /\ reached' \in {0, reached}
    /\ UNCHANGED found
    /\ complete' \in SUBSET Nat
    /\ UpTo(complete', reached') = UpTo(complete, reached')

Advance ==
    /\ reached' \in Nat /\ reached' >= reached
    /\ UNCHANGED <<complete, found>>
    /\ Covered'

Restart == reached' = 0 /\ UNCHANGED <<complete, found>>

Clear ==
    /\ reached = 0
    /\ found' \subseteq found
    /\ UNCHANGED <<reached, complete>>

Next == Store \/ Write \/ Advance \/ Restart \/ Clear

Spec == Init /\ [][Next]_vars
=============================================================================
