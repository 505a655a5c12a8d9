------------------------------ MODULE EJParser ------------------------------
(***************************************************************************)
(* The transaction-block parser of an electronic journal (ejparser).  A    *)
(* journal is a sequence of lines, and a line is what the two block        *)
(* expressions of parser.go tell apart:                                    *)
(*   "start"  the TRANSACTION START marker of the ATM's own format,        *)
(*   "end"    the TRANSACTION END marker,                                  *)
(*   "text"   a line with a card, an authorisation number or an amount,    *)
(*   "blank"  white space.                                                 *)
(* A block is identified by the position of its END line.  The markers of  *)
(* the two formats differ, so parsing with the wrong format finds nothing. *)
(***************************************************************************)
EXTENDS Naturals, Sequences

Token == {"start", "end", "text", "blank"}
AtmType == {"CRM", "NCR"}

\* The non-greedy START ... END expression, applied after offset off, matches a
\* block that opens no later than s and ends at e: no other END stands between.
Spans(data, off, s, e) ==
    /\ off < s /\ s < e /\ e <= Len(data)
    /\ data[e] = "end"
    /\ data[s] = "start"
    /\ \A m \in (s + 1)..(e - 1) : data[m] # "end"

EndsBlock(data, off, e) == \E s \in 1..e : Spans(data, off, s, e)

\* A block with neither card, authorisation number nor amount is consumed but
\* yields no transaction.
EndsTxn(data, off, e) ==
    \E s \in 1..e : Spans(data, off, s, e) /\ \E m \in (s + 1)..(e - 1) : data[m] = "text"

\* Only a START marker tells the formats apart; without one the answer is CRM.
DetectAtmType(data, fileType) ==
    IF \E i \in 1..Len(data) : data[i] = "start" THEN fileType ELSE "CRM"

\* knownAtmType wins; it is empty only when parsing from offset 0 (no registry
\* row, or a full reparse), so the peek at the head of the file is never needed.
\* A file with nothing after the offset keeps the known type, or CRM.
ParsedType(data, off, known, fileType) ==
    IF known # "" THEN known
    ELSE IF Len(data) = off THEN "CRM" ELSE DetectAtmType(data, fileType)

\* The offset parsing really starts from: one beyond the file is reset to 0.
StartOffset(data, off) == IF off > Len(data) THEN 0 ELSE off

TxnEnds(data, off, type, fileType) ==
    {e \in 1..Len(data) : type = fileType /\ EndsTxn(data, off, e)}

\* k is a position between the last consumed END (at e) and the next line that
\* is not white space.
OnlyBlanks(data, e, k) == \A m \in (e + 1)..k : data[m] = "blank"

\* Mutant: everything read counts as consumed, an open block too.
IsNewOffset_Whole(data, off, type, fileType, k) == k = Len(data)

\* newOffset: past the last complete block and the white space after it, or
\* unchanged when the tail has no complete block.
IsNewOffset(data, off, type, fileType, k) ==
    \/ /\ k = off
       /\ type # fileType \/ \A e \in 1..Len(data) : ~EndsBlock(data, off, e)
    \/ /\ type = fileType
       /\ \E e \in 1..k :
             /\ EndsBlock(data, off, e)
             /\ \A later \in (e + 1)..Len(data) : ~EndsBlock(data, off, later)
             /\ OnlyBlanks(data, e, k)
       /\ k < Len(data) => data[k + 1] # "blank"
=============================================================================
