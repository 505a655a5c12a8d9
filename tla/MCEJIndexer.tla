----------------------------- MODULE MCEJIndexer -----------------------------
(* Small instances of EJIndexer for TLC: the constants that are functions. *)
EXTENDS EJIndexer

CONSTANTS f1, f2, c1, w1

OneCrm == [f \in {f1} |-> "CRM"]
OneNcr == [f \in {f1} |-> "NCR"]
BothKinds == [f \in {f1, f2} |-> IF f = f1 THEN "CRM" ELSE "NCR"]

DayZero == [f \in {f1} |-> 0]
TwoDays == [f \in {f1, f2} |-> IF f = f1 THEN 0 ELSE 1]

\* A journal of which nothing is written yet.
Fresh == [f \in {f1} |-> {<< >>}]

\* A journal with a block, or with a block without a transaction and an open one.
Used == [f \in {f1} |-> {<<"start", "text", "end">>, <<"start", "end", "start">>}]

\* Two journals whose first transaction is open.
Open == [f \in {f1, f2} |-> {<<"start", "text">>}]
=============================================================================
