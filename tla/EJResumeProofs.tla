--------------------------- MODULE EJResumeProofs ----------------------------
(***************************************************************************)
(* Resuming a journal from its registered offset is exact, however many    *)
(* indexers run; with a single one no transaction is lost for good.        *)
(***************************************************************************)
EXTENDS EJIndexerTypes

\* Position k of journal d is 0 or lies behind an END line and white space only.
AtBoundary(d, k) == k = 0 \/ \E e \in 1..k : d[e] = "end" /\ OnlyBlanks(d, e, k)

\* Offsets lie at boundaries of the journal as long as they lie in it at all, and
\* line numbers are those of the offsets.
RowBoundaryInv ==
    \A f \in Files :
        /\ ~row[f].present => row[f].offset = 0
        /\ row[f].lines = row[f].offset
        /\ row[f].offset <= Len(data[f]) => AtBoundary(data[f], row[f].offset)

ResumeAtBoundary(p) ==
    LET j == job[p]
    IN  /\ j.lines = j.offset
        /\ j.offset <= j.size
        /\ j.offset <= Len(data[j.file]) => AtBoundary(data[j.file], j.offset)

EndAtBoundary(p) ==
    LET j == job[p]
    IN  /\ j.newLines = j.newOffset /\ j.offset <= j.newOffset
        /\ j.newOffset <= Len(data[j.file]) => AtBoundary(data[j.file], j.newOffset)

JobBoundaryInv ==
    \A p \in Indexers :
        /\ proc[p].pc = "parse" => ResumeAtBoundary(p)
        /\ proc[p].pc \in Parsed => EndAtBoundary(p)

BoundaryInv == RowBoundaryInv /\ JobBoundaryInv

Busy(p) == proc[p].pc \notin {"idle", "walk"}

\* A registered size or offset that lay beyond the file at os.Stat still does.
StatKept(p) ==
    LET j == job[p]
        r == row[j.file]
    IN  /\ r.size > j.size => r.size > Len(data[j.file])
        /\ r.offset > j.size => r.offset > Len(data[j.file])

\* The mode of a job still says what the row asks for.
FullKept(p) ==
    job[p].mode = "full" /\ row[job[p].file].present /\ NeedsRebuild(job[p].file) /\ job[p].offset = 0

FirstKept(p) == job[p].mode = "first" /\ row[job[p].file].offset = 0 /\ job[p].offset = 0

AppendKept(p) ==
    LET j == job[p]
        r == row[j.file]
    IN  /\ j.mode = "append" /\ proc[p].pc # "delete"
        /\ r.present /\ ~Upgrade(r) /\ ~NoOffset(r) /\ ~Shrunk(r, j.size)
        /\ proc[p].pc = "parse" \/ j.size <= Len(data[j.file]) => j.offset = r.offset

JobRowInv ==
    \A p \in Indexers :
        /\ Busy(p) => StatKept(p)
        /\ proc[p].pc \in Planned => FullKept(p) \/ FirstKept(p) \/ AppendKept(p)

\* A job misses no transaction between the offset it resumed from and the new one,
\* as long as the journal was not cut under it, and stores what it found.
FoundAll(p) ==
    \A e \in Complete(job[p].file) : e <= job[p].newOffset => e \in job[p].txns \/ e <= job[p].offset

JobParseInv ==
    \A p \in Indexers : proc[p].pc \in Parsed =>
        LET n == Len(data[job[p].file])
        IN  job[p].size <= n /\ job[p].newOffset <= n => FoundAll(p)

JobStoreInv ==
    \A p \in Indexers : proc[p].pc = "upsert" =>
        \A e \in job[p].txns : stored[job[p].file][e] > 0

JobInv == JobRowInv /\ JobParseInv /\ JobStoreInv

LossInv == NoSilentLoss /\ JobInv

-----------------------------------------------------------------------------
(***************************************************************************)
(* The journal as the parser sees it.                                      *)
(***************************************************************************)
SameUpTo(c, d, n) == n <= Len(c) /\ n <= Len(d) /\ \A i \in 1..n : d[i] = c[i]

\* Whether a block ends at e is decided by the lines up to e.
LEMMA TxnPrefix ==
    ASSUME NEW c \in Seq(Token), NEW d \in Seq(Token), NEW n \in Nat, SameUpTo(c, d, n),
           NEW off \in Nat, NEW e \in 1..n, EndsTxn(c, off, e)
    PROVE  EndsTxn(d, off, e)
<1>1. Len(c) \in Nat /\ Len(d) \in Nat
  OBVIOUS
<1>2. PICK s \in 1..e : Spans(c, off, s, e) /\ \E m \in (s + 1)..(e - 1) : c[m] = "text"
  BY DEF EndsTxn
<1>3. PICK m \in (s + 1)..(e - 1) : c[m] = "text"
  BY <1>2
<1>4. s \in 1..n /\ m \in 1..n
  BY <1>1, <1>2, <1>3
<1>5. Spans(d, off, s, e)
  BY <1>1, <1>2, <1>4 DEF Spans, SameUpTo
<1>6. d[m] = "text"
  BY <1>3, <1>4 DEF SameUpTo
<1> QED BY <1>3, <1>5, <1>6 DEF EndsTxn

\* So is whether k is a boundary by the lines up to k.
LEMMA BoundaryPrefix ==
    ASSUME NEW c \in Seq(Token), NEW d \in Seq(Token), NEW k \in Nat, SameUpTo(c, d, k),
           AtBoundary(c, k)
    PROVE  AtBoundary(d, k)
<1>1. CASE k = 0
  BY <1>1 DEF AtBoundary
<1>2. CASE k # 0
  <2>1. PICK e \in 1..k : c[e] = "end" /\ OnlyBlanks(c, e, k)
    BY <1>2 DEF AtBoundary
  <2>2. d[e] = "end" /\ OnlyBlanks(d, e, k)
    BY <2>1 DEF SameUpTo, OnlyBlanks
  <2> QED BY <2>2 DEF AtBoundary
<1> QED BY <1>1, <1>2

\* Parsing from a boundary finds every transaction behind it.
LEMMA BoundaryComplete ==
    ASSUME NEW d \in Seq(Token), NEW k \in 0..Len(d), AtBoundary(d, k),
           NEW e \in Nat, e > k
    PROVE  EndsTxn(d, 0, e) <=> EndsTxn(d, k, e)
<1>0. Len(d) \in Nat
  OBVIOUS
<1>1. ASSUME EndsTxn(d, k, e) PROVE EndsTxn(d, 0, e)
  BY <1>0, <1>1 DEF EndsTxn, Spans
<1>2. ASSUME EndsTxn(d, 0, e), k # 0 PROVE EndsTxn(d, k, e)
  <2>1. PICK b \in 1..k : d[b] = "end" /\ OnlyBlanks(d, b, k)
    BY <1>2 DEF AtBoundary
  <2>2. PICK s \in 1..e : Spans(d, 0, s, e) /\ \E m \in (s + 1)..(e - 1) : d[m] = "text"
    BY <1>2 DEF EndsTxn
  <2>3. d[s] = "start" /\ \A i \in (s + 1)..(e - 1) : d[i] # "end"
    BY <2>2 DEF Spans
  <2>4. s > b
    BY <1>0, <2>1, <2>3
  <2>5. s > k
    BY <1>0, <2>1, <2>3, <2>4 DEF OnlyBlanks
  <2>6. Spans(d, k, s, e)
    BY <2>2, <2>5 DEF Spans
  <2> QED BY <2>2, <2>6 DEF EndsTxn
<1> QED BY <1>1, <1>2

\* The new offset of a parse that resumed at a boundary is one.
LEMMA NewOffsetBoundary ==
    ASSUME NEW d \in Seq(Token), NEW off \in Nat, NEW k \in off..Len(d), NEW type, NEW ft,
           AtBoundary(d, off), IsNewOffset(d, off, type, ft, k)
    PROVE  AtBoundary(d, k)
<1>1. CASE k = off
  BY <1>1
<1>2. CASE k # off
  <2>1. PICK e \in 1..k : EndsBlock(d, off, e) /\ OnlyBlanks(d, e, k)
    BY <1>2 DEF IsNewOffset
  <2>2. d[e] = "end"
    BY <2>1 DEF EndsBlock, Spans
  <2> QED BY <2>1, <2>2 DEF AtBoundary
<1> QED BY <1>1, <1>2

-----------------------------------------------------------------------------
(***************************************************************************)
(* Jobs.                                                                   *)
(***************************************************************************)
\* A size or an offset that the row or a job knows of a journal.
Known(g, x) ==
    \/ x = row[g].size \/ x = row[g].offset
    \/ \E p \in Indexers : Working(p, g) /\ (x = job[p].size \/ x = job[p].newOffset)

\* Writing or cutting a journal touches no line below a known offset that still
\* lies in it, and puts none back into it.
LEMMA EnvKeeps ==
    ASSUME TypeOK, NEW f \in Files, Grow(f) \/ Cut(f), NEW g \in Files, NEW x \in Nat,
           \/ x <= Len(data[g])
           \/ Known(g, x),
           x <= Len(data'[g])
    PROVE  x <= Len(data[g]) /\ SameUpTo(data[g], data'[g], x)
<1>0. data \in [Files -> Seq(Token)]
  BY DEF TypeOK
<1>1. /\ data \in [Files -> Seq(Token)] /\ data[g] \in Seq(Token) /\ data[f] \in Seq(Token)
      /\ Len(data[g]) \in Nat
  BY <1>0
<1>2. CASE g # f
  <2>1. data'[g] = data[g]
    BY <1>1, <1>2 DEF Grow, Cut
  <2> QED BY <1>1, <2>1 DEF SameUpTo
<1>3. CASE g = f /\ Grow(f)
  <2>1. PICK t \in Lines : data' = [data EXCEPT ![f] = Append(@, t)]
    BY <1>3 DEF Grow
  <2>2. data'[g] = Append(data[g], t) /\ t \in Token
    BY <1>1, <1>3, <2>1, ConstantsAssumption
  <2>3. x <= Len(data[g])
    BY <1>3 DEF Grow, Settled, Known
  <2> QED BY <1>1, <2>2, <2>3 DEF SameUpTo
<1>4. CASE g = f /\ Cut(f)
  <2>1. PICK n \in 0..(Len(data[f]) - 1) : data' = [data EXCEPT ![f] = SubSeq(@, 1, n)]
    BY <1>4 DEF Cut
  <2>2. data'[g] = SubSeq(data[g], 1, n) /\ n \in 0..(Len(data[g]) - 1)
    BY <1>1, <1>4, <2>1
  <2>3. Len(data'[g]) = n /\ \A i \in 1..n : data'[g][i] = data[g][i]
    BY <1>1, <2>2
  <2> QED BY <1>1, <2>2, <2>3 DEF SameUpTo
<1> QED BY <1>2, <1>3, <1>4

\* They leave the registry, the stored transactions and the indexers alone.
LEMMA EnvOnlyData ==
    ASSUME NEW f \in Files, Grow(f) \/ Cut(f) PROVE UNCHANGED <<row, stored, proc, job>>
BY DEF Grow, Cut, dbVars

\* What os.Stat, the registry and the parser put into a job.
LEMMA StatJob ==
    ASSUME TypeOK, NEW p \in Indexers, NEW f \in Files, Stat(p, f)
    PROVE  /\ proc'[p].pc = "find" /\ UNCHANGED <<data, row, stored>>
           /\ job'[p].file = f /\ job'[p].size = Len(data[f])
<1>1. job \in [Indexers -> JobType] /\ proc \in [Indexers -> ProcType]
  BY TypeParts DEF ActorType
<1>2. proc'[p].pc = "find" /\ UNCHANGED <<data, row, stored>>
  BY <1>1 DEF Stat, ProcType, envVars, dbVars
<1>3. job'[p].file = f /\ job'[p].size = Len(data[f])
  BY <1>1 DEF Stat, Job
<1> QED BY <1>2, <1>3

\* What the registry row puts into a job.
LEMMA FindJob ==
    ASSUME TypeOK, NEW p \in Indexers, Find(p)
    PROVE  LET j == job[p]
               r == row[j.file]
               mode == Plan(r, j.size, j.mtime)
           IN  /\ proc[p].pc = "find" /\ proc'[p].pc = "parse" /\ UNCHANGED <<data, row, stored>>
               /\ mode # "skip"
               /\ job'[p].file = j.file /\ job'[p].size = j.size /\ job'[p].mode = mode
               /\ job'[p].offset = ResumeOffset(mode, r)
               /\ job'[p].lines = IF mode = "append" THEN r.lines ELSE 0
<1> DEFINE j == job[p]
           r == row[j.file]
           mode == Plan(r, j.size, j.mtime)
           off == ResumeOffset(mode, r)
           known == IF mode = "full" THEN "" ELSE r.type
           lines == IF mode = "append" THEN r.lines ELSE 0
           prev == IF mode = "append" THEN r.count ELSE 0
<1>1. job \in [Indexers -> JobType] /\ proc \in [Indexers -> ProcType]
  BY TypeParts DEF ActorType
<1>2. proc[p].pc = "find" /\ proc'[p].pc = "parse" /\ UNCHANGED <<data, row, stored>> /\ mode # "skip"
  BY <1>1 DEF Find, Goto, ProcType, envVars, dbVars
<1>3. job' = [job EXCEPT ![p].mode = mode, ![p].offset = off, ![p].known = known, ![p].lines = lines,
                ![p].prev = prev]
  BY DEF Find
<1> HIDE DEF r, mode, off, known, lines, prev
<1>4. /\ job'[p].file = j.file /\ job'[p].size = j.size /\ job'[p].mode = mode
      /\ job'[p].offset = off /\ job'[p].lines = lines
  BY <1>1, <1>3 DEF JobType
<1> QED BY <1>2, <1>4, Zenon DEF r, mode, off, lines

\* What the parser puts into a job.
LEMMA ParseJob ==
    ASSUME TypeOK, NEW p \in Indexers, Parse(p)
    PROVE  LET j == job[p]
               d == data[j.file]
               off == StartOffset(d, j.offset)
               ft == FileType[j.file]
               type == ParsedType(d, off, j.known, ft)
               txns == TxnEnds(d, off, type, ft)
           IN  /\ proc[p].pc = "parse" /\ UNCHANGED <<data, row, stored>>
               /\ proc'[p].pc = IF j.mode = "full" \/ (j.mode = "first" /\ txns # {}) THEN "delete"
                                 ELSE IF txns # {} THEN "insert" ELSE "upsert"
               /\ job'[p].file = j.file /\ job'[p].size = j.size /\ job'[p].mode = j.mode
               /\ job'[p].offset = off /\ job'[p].txns = txns
               /\ job'[p].newOffset \in off..Len(d)
               /\ IsNewOffset(d, off, type, ft, job'[p].newOffset)
               /\ job'[p].newLines = (IF off = j.offset THEN j.lines ELSE 0) + (job'[p].newOffset - off)
<1> DEFINE j == job[p]
           d == data[j.file]
           off == StartOffset(d, j.offset)
           ft == FileType[j.file]
           type == ParsedType(d, off, j.known, ft)
           txns == TxnEnds(d, off, type, ft)
<1>1. job \in [Indexers -> JobType] /\ proc \in [Indexers -> ProcType]
  BY TypeParts DEF ActorType
<1>2. PICK k \in off..Len(d) :
        /\ IsNewOffset(d, off, type, ft, k)
        /\ job' = [job EXCEPT ![p].offset = off, ![p].txns = txns, ![p].type = type,
              ![p].newOffset = k,
              ![p].newLines = (IF off = j.offset THEN j.lines ELSE 0) + (k - off)]
  BY DEF Parse
<1>3. /\ proc[p].pc = "parse" /\ UNCHANGED <<data, row, stored>>
      /\ Goto(p, IF j.mode = "full" \/ (j.mode = "first" /\ txns # {}) THEN "delete"
                 ELSE IF txns # {} THEN "insert" ELSE "upsert")
  BY DEF Parse, envVars, dbVars
<1> HIDE DEF d, off, ft, type, txns
<1>4. proc'[p].pc = IF j.mode = "full" \/ (j.mode = "first" /\ txns # {}) THEN "delete"
                    ELSE IF txns # {} THEN "insert" ELSE "upsert"
  BY <1>1, <1>3 DEF Goto, ProcType
<1>5. /\ job'[p].file = j.file /\ job'[p].size = j.size /\ job'[p].mode = j.mode
      /\ job'[p].offset = off /\ job'[p].txns = txns /\ job'[p].newOffset = k
      /\ job'[p].newLines = (IF off = j.offset THEN j.lines ELSE 0) + (k - off)
  BY <1>1, <1>2 DEF JobType
<1>6. job'[p].newOffset \in off..Len(d) /\ IsNewOffset(d, off, type, ft, job'[p].newOffset)
  BY <1>2, <1>5
<1>7. job'[p].newLines = (IF off = j.offset THEN j.lines ELSE 0) + (job'[p].newOffset - off)
  BY <1>5
<1> QED BY <1>3, <1>4, <1>5, <1>6, <1>7, Zenon DEF d, off, ft, type, txns

\* Deleting and inserting leave the job alone.
LEMMA StoreJob ==
    ASSUME TypeOK, NEW p \in Indexers, Delete(p) \/ Insert(p)
    PROVE  /\ UNCHANGED <<data, row, job>>
           /\ proc[p].pc \in {"delete", "insert"}
           /\ proc'[p].pc \in {"insert", "upsert"}
           /\ Delete(p) /\ proc'[p].pc = "upsert" => job[p].txns = {}
<1>1. proc \in [Indexers -> ProcType]
  BY TypeParts DEF ActorType
<1> QED BY <1>1 DEF Delete, Insert, Goto, ProcType, envVars

-----------------------------------------------------------------------------
(***************************************************************************)
(* Resuming is exact, for any number of indexers.                          *)
(***************************************************************************)
LEMMA ZeroIsBoundary == \A d : AtBoundary(d, 0)
BY DEF AtBoundary

\* An older release leaves offsets at boundaries.
LEMMA InitBoundary == Init => BoundaryInv
<1> SUFFICES ASSUME Init PROVE BoundaryInv
  OBVIOUS
<1>1. JobBoundaryInv
  BY DEF Init, JobBoundaryInv, Booting, Parsed
<1>2. ASSUME NEW f \in Files
      PROVE  /\ ~row[f].present => row[f].offset = 0
             /\ row[f].lines = row[f].offset
             /\ AtBoundary(data[f], row[f].offset)
  <2>1. PICK s \in [Files -> LegacySchemas \cup {-1}], k \in [Files -> 0..MaxLen] :
          /\ \A g \in Files : IF s[g] = -1 THEN k[g] = 0
                ELSE k[g] <= Len(data[g]) /\ IsNewOffset(data[g], 0, FileType[g], FileType[g], k[g])
          /\ row = [g \in Files |-> IF s[g] = -1 THEN NoRow
                       ELSE LegacyRow(g, data[g], s[g], k[g], Cardinality(LegacyTxns(g)))]
    BY DEF Init
  <2>2. CASE s[f] = -1
    <3>1. row[f] = NoRow
      BY <2>1, <2>2
    <3>2. row[f].offset = 0 /\ row[f].lines = 0
      <4>1. NoRow.offset = 0 /\ NoRow.lines = 0
        BY DEF NoRow
      <4> QED BY <3>1, <4>1
    <3> QED BY <3>2, ZeroIsBoundary
  <2>3. CASE s[f] # -1
    <3>1. /\ row[f].present
          /\ row[f].offset = IF s[f] = 0 THEN 0 ELSE k[f]
          /\ row[f].lines = IF s[f] = 0 THEN 0 ELSE k[f]
      BY <2>1, <2>3 DEF LegacyRow
    <3>2. data[f] \in Seq(Token)
      BY InitType DEF TypeOK
    <3>3. k[f] \in 0..Len(data[f]) /\ IsNewOffset(data[f], 0, FileType[f], FileType[f], k[f])
      BY <2>1, <2>3, ConstantsAssumption
    <3>4. AtBoundary(data[f], k[f])
      BY <3>2, <3>3, ZeroIsBoundary, NewOffsetBoundary
    <3> QED BY <3>1, <3>4, ZeroIsBoundary
  <2> QED BY <2>2, <2>3
<1> QED BY <1>1, <1>2 DEF BoundaryInv, RowBoundaryInv

\* A boundary at a known offset stays one as long as it lies in the journal.
LEMMA EnvBoundary ==
    ASSUME TypeOK, NEW f \in Files, Grow(f) \/ Cut(f), NEW g \in Files, NEW x \in Nat,
           x <= Len(data[g]) \/ Known(g, x),
           x <= Len(data[g]) => AtBoundary(data[g], x),
           x <= Len(data'[g])
    PROVE  AtBoundary(data'[g], x)
<1>1. x <= Len(data[g]) /\ SameUpTo(data[g], data'[g], x)
  BY EnvKeeps
<1>2. data[g] \in Seq(Token) /\ data'[g] \in Seq(Token)
  BY EnvTypeStep DEF TypeOK
<1> QED BY <1>1, <1>2, BoundaryPrefix

\* Every step keeps the registered offsets at boundaries.
LEMMA RowBoundaryStep == ASSUME TypeOK, BoundaryInv, [Next]_vars PROVE RowBoundaryInv'
<1>1. row \in [Files -> Row] /\ \A f \in Files : row[f].offset \in Nat
  BY DEF TypeOK, Row
<1>2. CASE UNCHANGED <<data, row>>
  BY <1>2 DEF BoundaryInv, RowBoundaryInv
<1>3. ASSUME NEW f \in Files, Grow(f) \/ Cut(f) PROVE RowBoundaryInv'
  <2>1. UNCHANGED row
    BY <1>3, EnvOnlyData
  <2>2. ASSUME NEW g \in Files, row[g].offset <= Len(data'[g]) PROVE AtBoundary(data'[g], row[g].offset)
    <3>1. Known(g, row[g].offset)
      BY DEF Known
    <3>2. row[g].offset <= Len(data[g]) => AtBoundary(data[g], row[g].offset)
      BY DEF BoundaryInv, RowBoundaryInv
    <3> QED BY <1>1, <1>3, <2>2, <3>1, <3>2, EnvBoundary
  <2> QED BY <2>1, <2>2 DEF BoundaryInv, RowBoundaryInv
<1>4. ASSUME NEW p \in Indexers, proc[p].pc = "upsert", UNCHANGED data,
             row' = [row EXCEPT ![job[p].file] = NewRow(job[p])]
      PROVE  RowBoundaryInv'
  <2>1. EndAtBoundary(p)
    BY <1>4 DEF BoundaryInv, JobBoundaryInv, Parsed
  <2>2. /\ NewRow(job[p]).present
        /\ NewRow(job[p]).offset = job[p].newOffset /\ NewRow(job[p]).lines = job[p].newLines
    BY DEF NewRow
  <2>3. \A g \in Files : row'[g] = row[g] \/ (row'[g] = NewRow(job[p]) /\ g = job[p].file)
    BY <1>1, <1>4
  <2> QED BY <1>4, <2>1, <2>2, <2>3 DEF EndAtBoundary, BoundaryInv, RowBoundaryInv
<1> QED BY <1>2, <1>3, <1>4, StepCases, DbEffect

\* A job resumes at a boundary.
LEMMA FindBoundary ==
    ASSUME TypeOK, BoundaryInv, NEW p \in Indexers, Find(p) PROVE ResumeAtBoundary(p)'
<1> DEFINE j == job[p]
           r == row[j.file]
           mode == Plan(r, j.size, j.mtime)
<1>1. /\ UNCHANGED data /\ mode # "skip"
      /\ job'[p].file = j.file /\ job'[p].size = j.size
      /\ job'[p].offset = ResumeOffset(mode, r)
      /\ job'[p].lines = IF mode = "append" THEN r.lines ELSE 0
  BY FindJob
<1>2. j \in JobType /\ j.file \in Files /\ j.size \in Nat /\ r \in Row /\ r.offset \in Nat
  BY DEF TypeOK, JobType, Row
<1>3. /\ ~r.present => r.offset = 0
      /\ r.lines = r.offset
      /\ r.offset <= Len(data[j.file]) => AtBoundary(data[j.file], r.offset)
  BY <1>2 DEF BoundaryInv, RowBoundaryInv
<1> HIDE DEF r
<1>4. mode \in {"full", "first", "append"}
  BY <1>1 DEF Plan
<1>5. mode = "append" => ~Shrunk(r, j.size)
  BY DEF Plan
<1>6. mode = "first" => r.offset = 0
  BY <1>3 DEF Plan
<1> HIDE DEF mode
<1>7. CASE mode = "append"
  <2>1. job'[p].offset = r.offset /\ job'[p].lines = r.offset
    BY <1>1, <1>3, <1>7 DEF ResumeOffset
  <2>2. r.offset <= j.size
    BY <1>2, <1>5, <1>7 DEF Shrunk
  <2> QED BY <1>1, <1>3, <2>1, <2>2 DEF ResumeAtBoundary
<1>8. CASE mode # "append"
  <2>1. job'[p].offset = 0 /\ job'[p].lines = 0
    BY <1>1, <1>4, <1>6, <1>8 DEF ResumeOffset
  <2> QED BY <1>1, <1>2, <2>1, ZeroIsBoundary DEF ResumeAtBoundary
<1> QED BY <1>7, <1>8

\* A parse ends at a boundary.
LEMMA ParseBoundary ==
    ASSUME TypeOK, BoundaryInv, NEW p \in Indexers, Parse(p) PROVE EndAtBoundary(p)'
<1> DEFINE j == job[p]
           d == data[j.file]
           off == StartOffset(d, j.offset)
           ft == FileType[j.file]
           type == ParsedType(d, off, j.known, ft)
           k == job'[p].newOffset
<1>1. /\ proc[p].pc = "parse" /\ UNCHANGED data
      /\ job'[p].file = j.file /\ job'[p].offset = off
      /\ k \in off..Len(d)
      /\ IsNewOffset(d, off, type, ft, k)
      /\ job'[p].newLines = (IF off = j.offset THEN j.lines ELSE 0) + (k - off)
  BY ParseJob
<1>2. j \in JobType /\ j.file \in Files /\ j.offset \in Nat /\ d \in Seq(Token)
  BY DEF TypeOK, JobType
<1>3. ResumeAtBoundary(p)
  BY <1>1 DEF BoundaryInv, JobBoundaryInv
<1> HIDE DEF d, type, ft, k
<1>4. off \in Nat /\ off <= Len(d) /\ (off = 0 \/ off = j.offset)
  BY <1>2 DEF StartOffset
<1>5. AtBoundary(d, off)
  BY <1>3, <1>4, ZeroIsBoundary DEF ResumeAtBoundary, d
<1>6. AtBoundary(d, k)
  <2> HIDE DEF off
  <2> QED BY <1>1, <1>2, <1>4, <1>5, NewOffsetBoundary
<1>7. job'[p].newLines = k
  <2>1. j.lines = j.offset
    BY <1>3 DEF ResumeAtBoundary
  <2>2. Len(d) \in Nat
    BY <1>2
  <2> HIDE DEF off
  <2> QED BY <1>1, <1>2, <1>4, <2>1, <2>2
<1>8. job'[p].offset <= k
  <2>1. Len(d) \in Nat
    BY <1>2
  <2> HIDE DEF off
  <2> QED BY <1>1, <1>4, <2>1
<1> QED BY <1>1, <1>6, <1>7, <1>8 DEF EndAtBoundary, d, k

\* Every step keeps the offsets of the jobs at boundaries.
LEMMA JobBoundaryStep == ASSUME TypeOK, BoundaryInv, [Next]_vars PROVE JobBoundaryInv'
<1>1. \A p \in Indexers : /\ job[p] \in JobType /\ job[p].file \in Files /\ job[p].size \in Nat
                          /\ job[p].offset \in Nat /\ job[p].newOffset \in Nat
  BY TypeParts DEF ActorType, JobType
<1> DEFINE Holds(q) == /\ proc'[q].pc = "parse" => ResumeAtBoundary(q)'
                       /\ proc'[q].pc \in Parsed => EndAtBoundary(q)'
<1>2. CASE UNCHANGED <<data, proc, job>>
  BY <1>2 DEF BoundaryInv, JobBoundaryInv, ResumeAtBoundary, EndAtBoundary
<1>3. ASSUME NEW f \in Files, Grow(f) \/ Cut(f), NEW q \in Indexers PROVE Holds(q)
  <2> DEFINE g == job[q].file
  <2>1. UNCHANGED <<proc, job>> /\ g \in Files
    BY <1>1, <1>3, EnvOnlyData
  <2>2. Len(data[g]) \in Nat /\ Len(data'[g]) \in Nat
    BY <1>3, <2>1, EnvTypeStep, DataTyped, NextDataTyped
  <2>3. ASSUME proc[q].pc = "parse", job[q].offset <= Len(data'[g])
        PROVE  AtBoundary(data'[g], job[q].offset)
    <3>1. Working(q, g) /\ ResumeAtBoundary(q)
      BY <2>3 DEF Working, BoundaryInv, JobBoundaryInv
    <3>2. job[q].offset <= job[q].size /\ Known(g, job[q].size)
      BY <3>1 DEF Known, ResumeAtBoundary
    <3>3. job[q].offset <= Len(data[g])
      <4>1. CASE job[q].size <= Len(data'[g])
        <5>1. job[q].size <= Len(data[g])
          BY <1>1, <1>3, <2>1, <3>2, <4>1, EnvKeeps
        <5> QED BY <1>1, <2>2, <3>2, <5>1
      <4>2. CASE job[q].size > Len(data'[g]) /\ g # f
        <5>1. data'[g] = data[g]
          BY <1>3, <2>1, <4>2 DEF Grow, Cut, TypeOK
        <5> QED BY <2>3, <5>1
      <4>3. CASE job[q].size > Len(data'[g]) /\ g = f /\ Cut(f)
        <5>1. Len(data'[g]) <= Len(data[g])
          <6>1. PICK n \in 0..(Len(data[f]) - 1) : data' = [data EXCEPT ![f] = SubSeq(@, 1, n)]
            BY <4>3 DEF Cut
          <6>2. data'[f] = SubSeq(data[f], 1, n) /\ data[f] \in Seq(Token)
            BY <1>3, <6>1, DataTyped
          <6> QED BY <2>2, <4>3, <6>1, <6>2
        <5> QED BY <1>1, <2>1, <2>2, <2>3, <5>1
      <4>4. CASE job[q].size > Len(data'[g]) /\ g = f /\ Grow(f)
        <5>1. job[q].size <= Len(data[g])
          BY <3>1, <4>4 DEF Grow, Settled
        <5> QED BY <1>1, <2>2, <3>2, <5>1
      <4> QED BY <1>1, <1>3, <2>1, <2>2, <4>1, <4>2, <4>3, <4>4
    <3> QED BY <1>1, <1>3, <2>1, <2>3, <3>1, <3>3, EnvBoundary DEF ResumeAtBoundary
  <2>4. ASSUME proc[q].pc \in Parsed, job[q].newOffset <= Len(data'[g])
        PROVE  AtBoundary(data'[g], job[q].newOffset)
    <3>1. Working(q, g) /\ EndAtBoundary(q)
      BY <2>4 DEF Working, Parsed, BoundaryInv, JobBoundaryInv
    <3>2. Known(g, job[q].newOffset)
      BY <3>1 DEF Known
    <3> QED BY <1>1, <1>3, <2>1, <2>4, <3>1, <3>2, EnvBoundary DEF EndAtBoundary
  <2> QED BY <2>1, <2>3, <2>4 DEF BoundaryInv, JobBoundaryInv, ResumeAtBoundary, EndAtBoundary
<1>4. ASSUME NEW p \in Indexers, UNCHANGED data, OnlyMoves(p), Holds(p) PROVE JobBoundaryInv'
  <2>1. ASSUME NEW q \in Indexers, q # p PROVE Holds(q)
    BY <1>4, <2>1 DEF OnlyMoves, BoundaryInv, JobBoundaryInv, ResumeAtBoundary, EndAtBoundary
  <2> QED BY <1>4, <2>1 DEF JobBoundaryInv
<1>5. ASSUME NEW p \in Indexers, Leaves(p) \/ \E f \in Files : Stat(p, f) PROVE Holds(p)
  <2>1. proc'[p].pc \in {"idle", "walk", "find"}
    BY <1>5, StatJob DEF Leaves
  <2> QED BY <2>1 DEF Parsed
<1>6. ASSUME NEW p \in Indexers, Find(p) PROVE Holds(p)
  <2>1. proc'[p].pc = "parse"
    BY <1>6, FindJob
  <2> QED BY <1>6, <2>1, FindBoundary DEF Parsed
<1>7. ASSUME NEW p \in Indexers, Parse(p) PROVE Holds(p)
  <2>1. proc'[p].pc # "parse"
    BY <1>7, ParseJob
  <2> QED BY <1>7, <2>1, ParseBoundary
<1>8. ASSUME NEW p \in Indexers, Delete(p) \/ Insert(p) PROVE Holds(p)
  <2>1. UNCHANGED <<data, job>> /\ proc[p].pc \in Parsed /\ proc'[p].pc # "parse"
    BY <1>8, StoreJob DEF Parsed
  <2> QED BY <2>1 DEF BoundaryInv, JobBoundaryInv, EndAtBoundary
<1> QED BY <1>2, <1>3, <1>4, <1>5, <1>6, <1>7, <1>8, StepCases DEF JobBoundaryInv

\* Whatever fails and however many indexers run, a registered offset that lies in
\* its journal is one from which parsing finds exactly what a parse of the whole
\* journal finds behind it, and the line numbers are those of the offset.
THEOREM ResumeExact == Spec => []ResumePointExact
<1>1. Init => BoundaryInv
  BY InitBoundary
<1>2. TypeOK /\ BoundaryInv /\ [Next]_vars => BoundaryInv'
  BY RowBoundaryStep, JobBoundaryStep DEF BoundaryInv
<1>3. TypeOK /\ BoundaryInv => ResumePointExact
  <2> SUFFICES ASSUME TypeOK, BoundaryInv, NEW f \in Files, row[f].present, ~NeedsRebuild(f),
                      NEW e \in Pos, e > row[f].offset
               PROVE  /\ row[f].lines = row[f].offset
                      /\ EndsTxn(data[f], 0, e) <=> EndsTxn(data[f], row[f].offset, e)
    BY DEF ResumePointExact, BoundaryInv, RowBoundaryInv
  <2>1. data[f] \in Seq(Token) /\ Len(data[f]) \in Nat /\ row[f].offset \in Nat
    BY DataTyped DEF TypeOK, Row
  <2>2. row[f].offset <= Len(data[f])
    BY <2>1 DEF NeedsRebuild, Shrunk
  <2> QED BY <2>1, <2>2, BoundaryComplete DEF BoundaryInv, RowBoundaryInv, Pos
<1> QED BY <1>1, <1>2, <1>3, TypeCorrect, PTL DEF Spec

-----------------------------------------------------------------------------
(***************************************************************************)
(* Nothing is lost, when a single indexer runs.                            *)
(***************************************************************************)
SingleIndexer == \A p, q \in Indexers : p = q

\* An older release leaves every transaction searchable.
LEMMA InitLoss == Init => LossInv
<1> SUFFICES ASSUME Init PROVE LossInv
  OBVIOUS
<1>1. JobInv
  BY DEF Init, JobInv, JobRowInv, JobParseInv, JobStoreInv, Booting, Busy, Planned, Parsed
<1>2. ASSUME NEW f \in Files, row[f].present, NEW e \in Complete(f) PROVE e \in Searchable(f)
  <2>1. LegacyTxns(f) = Complete(f) /\ LegacyTxns(f) \in SUBSET Pos
    BY InitType, LegacyTxnsOK DEF TypeOK, LegacyTxns, Complete
  <2>2. oldDocs = [g \in Files |-> IF row[g].present THEN LegacyTxns(g) ELSE {}]
    BY DEF Init
  <2>3. e \in oldDocs[f] /\ e \in Pos
    BY <1>2, <2>1, <2>2, Zenon
  <2>4. stored[f][e] = 1
    BY <2>3 DEF Init
  <2> QED BY <2>3, <2>4 DEF Searchable
<1> QED BY <1>1, <1>2 DEF LossInv, NoSilentLoss

\* A row that asks for a rebuild goes on asking, whatever happens to the journal.
LEMMA NeedsRebuildKept ==
    ASSUME TypeOK, NEW f \in Files, Grow(f) \/ Cut(f), NEW g \in Files, NeedsRebuild(g)
    PROVE  NeedsRebuild(g)'
<1>1. /\ UNCHANGED row /\ row[g].size \in Nat /\ row[g].offset \in Nat
      /\ Len(data[g]) \in Nat
  BY EnvOnlyData, DataTyped DEF TypeOK, Row
<1>2. Len(data'[g]) \in Nat
  BY EnvTypeStep, NextDataTyped
<1>3. Known(g, row[g].size) /\ Known(g, row[g].offset)
  BY DEF Known
<1>4. Shrunk(row[g], Len(data[g])) => Shrunk(row[g], Len(data'[g]))
  BY <1>1, <1>2, <1>3, EnvKeeps DEF Shrunk
<1> QED BY <1>1, <1>4 DEF NeedsRebuild

\* No transaction appears below a known offset.
LEMMA CompleteKept ==
    ASSUME TypeOK, NEW f \in Files, Grow(f) \/ Cut(f), NEW g \in Files, NEW x \in Nat,
           Known(g, x), x <= Len(data'[g]), NEW e \in Complete(g)', e <= x
    PROVE  e \in Complete(g)
<1>1. data[g] \in Seq(Token) /\ data'[g] \in Seq(Token)
  BY EnvTypeStep, DataTyped, NextDataTyped
<1>2. x <= Len(data[g]) /\ SameUpTo(data[g], data'[g], x)
  BY EnvKeeps
<1>3. SameUpTo(data'[g], data[g], x)
  BY <1>2 DEF SameUpTo
<1>4. e \in 1..Len(data'[g]) /\ EndsTxn(data'[g], 0, e)
  BY DEF Complete, TxnEnds
<1>5. e \in 1..x /\ e \in 1..Len(data[g])
  BY <1>1, <1>2, <1>4
<1>6. EndsTxn(data[g], 0, e)
  BY <1>1, <1>3, <1>4, <1>5, TxnPrefix
<1> QED BY <1>5, <1>6 DEF Complete, TxnEnds

\* Writing and cutting journals lose nothing that stays registered.
LEMMA EnvNoLoss ==
    ASSUME TypeOK, NoSilentLoss, NEW f \in Files, Grow(f) \/ Cut(f) PROVE NoSilentLoss'
<1>1. UNCHANGED <<row, stored>>
  BY EnvOnlyData
<1>2. ASSUME NEW g \in Files, row'[g].present, ~NeedsRebuild(g)',
             NEW e \in Complete(g)', e <= row'[g].offset
      PROVE  e \in Searchable(g)'
  <2>1. row[g].present /\ ~NeedsRebuild(g)
    BY <1>1, <1>2, NeedsRebuildKept
  <2>2. row[g].offset \in Nat /\ Len(data'[g]) \in Nat
    BY EnvTypeStep, NextDataTyped DEF TypeOK, Row
  <2>3. row[g].offset <= Len(data'[g])
    BY <1>1, <1>2, <2>2 DEF NeedsRebuild, Shrunk
  <2>4. e \in Complete(g)
    BY <1>1, <1>2, <2>2, <2>3, CompleteKept DEF Known
  <2>5. e \in Searchable(g)
    BY <1>1, <1>2, <2>1, <2>4 DEF NoSilentLoss
  <2> QED BY <1>1, <2>5 DEF Searchable
<1> QED BY <1>2 DEF NoSilentLoss

\* They invalidate no job, unless it notices.
LEMMA EnvJobInv ==
    ASSUME TypeOK, LossInv, NEW f \in Files, Grow(f) \/ Cut(f) PROVE JobInv'
<1>1. UNCHANGED <<row, stored, proc, job>>
  BY EnvOnlyData
<1>2. \A p \in Indexers : job[p].file \in Files /\ job[p].size \in Nat /\ job[p].newOffset \in Nat
  BY TypeParts DEF ActorType, JobType
<1>3. \A g \in Files : /\ row[g].size \in Nat /\ row[g].offset \in Nat
                       /\ Len(data[g]) \in Nat /\ Len(data'[g]) \in Nat
  BY EnvTypeStep, DataTyped, NextDataTyped DEF TypeOK, Row
<1>4. ASSUME NEW p \in Indexers, Busy(p) PROVE StatKept(p)'
  <2> DEFINE g == job[p].file
  <2>1. StatKept(p) /\ g \in Files
    BY <1>2, <1>4 DEF LossInv, JobInv, JobRowInv
  <2>2. Known(g, row[g].size) /\ Known(g, row[g].offset)
    BY DEF Known
  <2>3. /\ row[g].size <= Len(data'[g]) => row[g].size <= Len(data[g])
        /\ row[g].offset <= Len(data'[g]) => row[g].offset <= Len(data[g])
    BY <1>3, <2>1, <2>2, EnvKeeps
  <2> QED BY <1>1, <1>3, <2>1, <2>3 DEF StatKept
<1>5. ASSUME NEW p \in Indexers, proc[p].pc \in Planned PROVE (FullKept(p) \/ FirstKept(p) \/ AppendKept(p))'
  <2> DEFINE g == job[p].file
  <2>1. FullKept(p) \/ FirstKept(p) \/ AppendKept(p)
    BY <1>5 DEF LossInv, JobInv, JobRowInv
  <2>2. g \in Files /\ Working(p, g)
    BY <1>2, <1>5 DEF Working, Planned, Parsed
  <2>3. FullKept(p) => FullKept(p)'
    BY <1>1, <2>2, NeedsRebuildKept DEF FullKept
  <2>4. FirstKept(p) => FirstKept(p)'
    BY <1>1 DEF FirstKept
  <2>5. job[p].size <= Len(data'[g]) => job[p].size <= Len(data[g])
    BY <1>2, <2>2, EnvKeeps DEF Known
  <2>6. AppendKept(p) => AppendKept(p)'
    BY <1>1, <2>5 DEF AppendKept
  <2> QED BY <2>1, <2>3, <2>4, <2>6
<1>6. ASSUME NEW p \in Indexers, proc[p].pc \in Parsed,
             job[p].size <= Len(data'[job[p].file]), job[p].newOffset <= Len(data'[job[p].file])
      PROVE  FoundAll(p)'
  <2>0. PICK g \in Files : g = job[p].file
    BY <1>2
  <2>1. Known(g, job[p].size) /\ Known(g, job[p].newOffset)
    BY <1>6, <2>0 DEF Known, Working, Parsed
  <2>2. job[p].size <= Len(data[g]) /\ job[p].newOffset <= Len(data[g])
    BY <1>2, <1>6, <2>0, <2>1, EnvKeeps
  <2>3. FoundAll(p)
    BY <1>6, <2>0, <2>2 DEF LossInv, JobInv, JobParseInv
  <2>4. \A e \in Complete(g)' : e <= job[p].newOffset => e \in Complete(g)
    BY <1>2, <1>3, <1>6, <2>0, <2>1, CompleteKept
  <2>5. \A e \in Complete(g)' : e <= job[p].newOffset => e \in job[p].txns \/ e <= job[p].offset
    BY <2>0, <2>3, <2>4 DEF FoundAll
  <2> QED BY <1>1, <2>0, <2>5 DEF FoundAll
<1>7. JobStoreInv'
  BY <1>1 DEF LossInv, JobInv, JobStoreInv
<1>8. JobRowInv' /\ JobParseInv'
  BY <1>1, <1>4, <1>5, <1>6 DEF JobRowInv, JobParseInv, Busy
<1> QED BY <1>7, <1>8 DEF JobInv

\* What the writes of one indexer do to its own journal.
LEMMA WriteNoLoss ==
    ASSUME SingleIndexer, TypeOK, LossInv, [Next]_vars, ~UNCHANGED <<row, stored>> PROVE NoSilentLoss'
<1>1. \A p \in Indexers : job[p].file \in Files /\ job[p].size \in Nat /\ job[p].newOffset \in Nat
  BY TypeParts DEF ActorType, JobType
<1>2. ASSUME NEW p \in Indexers, UNCHANGED <<data, row>>, proc[p].pc = "delete",
             \A g \in Files \ {job[p].file} : stored'[g] = stored[g]
      PROVE  NoSilentLoss'
  <2>1. FullKept(p) \/ FirstKept(p)
    BY <1>2 DEF LossInv, JobInv, JobRowInv, Planned, Parsed, AppendKept
  <2>2. ASSUME NEW g \in Files, row[g].present, ~NeedsRebuild(g), NEW e \in Complete(g), e <= row[g].offset
        PROVE  g # job[p].file
    <3>1. g = job[p].file => row[g].offset = 0
      BY <2>1, <2>2 DEF FullKept, FirstKept
    <3>2. e >= 1
      <4>1. Len(data[g]) \in Nat
        BY DataTyped
      <4> QED BY <2>2, <4>1 DEF Complete, TxnEnds
    <3> QED BY <2>2, <3>1, <3>2 DEF Complete, TxnEnds
  <2> QED BY <1>2, <2>2 DEF LossInv, NoSilentLoss, NeedsRebuild, Complete, Searchable
<1>3. ASSUME UNCHANGED <<data, row>>,
             \A g \in Files, e \in Pos : stored[g][e] > 0 => stored'[g][e] > 0
      PROVE  NoSilentLoss'
  BY <1>3 DEF LossInv, NoSilentLoss, NeedsRebuild, Complete, Searchable
<1>4. ASSUME NEW p \in Indexers, UNCHANGED <<data, stored>>, proc[p].pc = "upsert",
             row' = [row EXCEPT ![job[p].file] = NewRow(job[p])]
      PROVE  NoSilentLoss'
  <2>0. PICK f \in Files : f = job[p].file
    BY <1>1
  <2> DEFINE j == job[p]
             r == row[f]
  <2>1. \A g \in Files : row'[g] = IF g = f THEN NewRow(j) ELSE row[g]
    BY <1>4, <2>0 DEF TypeOK
  <2>2. NewRow(j).size = j.size /\ NewRow(j).offset = j.newOffset
    BY DEF NewRow
  <2>3. r.size \in Nat /\ r.offset \in Nat /\ Len(data[f]) \in Nat
    BY DataTyped DEF TypeOK, Row
  <2>4. ASSUME j.size <= Len(data[f]), j.newOffset <= Len(data[f]),
               NEW e \in Complete(f), e <= j.newOffset
        PROVE  e \in Searchable(f)
    <3>1. FoundAll(p) /\ \A t \in j.txns : stored[f][t] > 0
      BY <1>4, <2>0, <2>4 DEF LossInv, JobInv, JobParseInv, JobStoreInv, Parsed
    <3>2. e \in Pos /\ e >= 1
      <4>1. e \in 1..Len(data[f]) /\ Len(data[f]) <= MaxLen /\ MaxLen \in Nat
        BY <2>4, TypeParts, ConstantsAssumption DEF Complete, TxnEnds, EnvType
      <4> QED BY <2>3, <4>1 DEF Pos
    <3>3. CASE e \in j.txns
      BY <3>1, <3>2, <3>3 DEF Searchable
    <3>4. CASE e <= j.offset
      <4>1. AppendKept(p)
        <5>1. FullKept(p) \/ FirstKept(p) \/ AppendKept(p)
          BY <1>4 DEF LossInv, JobInv, JobRowInv, Planned, Parsed
        <5>2. j.offset # 0
          BY <3>2, <3>4 DEF Pos
        <5> QED BY <5>1, <5>2 DEF FullKept, FirstKept
      <4>2. /\ r.present /\ ~Upgrade(r) /\ ~NoOffset(r) /\ ~Shrunk(r, j.size)
            /\ j.offset = r.offset
        BY <1>4, <2>0, <2>4, <4>1 DEF AppendKept
      <4>3. ~Shrunk(r, Len(data[f]))
        BY <1>1, <2>3, <2>4, <4>2 DEF Shrunk
      <4> QED BY <2>4, <3>4, <4>2, <4>3 DEF LossInv, NoSilentLoss, NeedsRebuild
    <3> QED BY <2>0, <2>4, <3>1, <3>3, <3>4 DEF FoundAll
  <2>5. ASSUME NEW g \in Files, row'[g].present, ~NeedsRebuild(g)', NEW e \in Complete(g), e <= row'[g].offset
        PROVE  e \in Searchable(g)
    <3>1. CASE g = f
      <4>1. j.size <= Len(data[f]) /\ j.newOffset <= Len(data[f]) /\ e <= j.newOffset
        BY <1>1, <1>4, <2>1, <2>2, <2>3, <2>5, <3>1 DEF NeedsRebuild, Shrunk
      <4> QED BY <2>4, <2>5, <3>1, <4>1
    <3>2. CASE g # f
      BY <1>4, <2>1, <2>5, <3>2 DEF LossInv, NoSilentLoss, NeedsRebuild
    <3> QED BY <3>1, <3>2
  <2> QED BY <1>4, <2>5 DEF NoSilentLoss, Complete, Searchable
<1> QED BY <1>2, <1>3, <1>4, DbEffect

\* A job chooses the mode that its row asks for.
LEMMA FindKept ==
    ASSUME TypeOK, BoundaryInv, LossInv, NEW p \in Indexers, Find(p)
    PROVE  (StatKept(p) /\ (FullKept(p) \/ FirstKept(p) \/ AppendKept(p)))'
<1>0. PICK f \in Files : f = job[p].file
  BY TypeParts DEF ActorType, JobType
<1> DEFINE j == job[p]
           r == row[f]
           mode == Plan(r, j.size, j.mtime)
<1>1. /\ proc[p].pc = "find" /\ proc'[p].pc = "parse" /\ UNCHANGED <<data, row>> /\ mode # "skip"
      /\ job'[p].file = f /\ job'[p].size = j.size /\ job'[p].mode = mode
      /\ job'[p].offset = ResumeOffset(mode, r)
  BY <1>0, FindJob
<1>2. StatKept(p)
  BY <1>1 DEF LossInv, JobInv, JobRowInv, Busy
<1>3. /\ r \in Row /\ r.size \in Nat /\ r.offset \in Nat /\ r.count \in Nat
      /\ j.size \in Nat /\ Len(data[f]) \in Nat
  BY TypeParts, DataTyped DEF ActorType, DbType, JobType, Row
<1>4. ~r.present => r.offset = 0
  BY DEF BoundaryInv, RowBoundaryInv
<1>5. StatKept(p)'
  BY <1>0, <1>1, <1>2 DEF StatKept
<1> HIDE DEF r
<1>6. mode = "full" => r.present /\ (Upgrade(r) \/ NoOffset(r) \/ Shrunk(r, j.size))
  BY DEF Plan
<1>7. mode = "first" => r.offset = 0
  BY <1>4 DEF Plan
<1>8. mode = "append" => r.present /\ ~Upgrade(r) /\ ~NoOffset(r) /\ ~Shrunk(r, j.size)
  BY DEF Plan
<1>9. mode \in {"full", "first", "append"}
  BY <1>1 DEF Plan
<1> HIDE DEF mode
<1>10. CASE mode = "full"
  <2>1. Shrunk(r, j.size) => Shrunk(r, Len(data[f]))
    BY <1>0, <1>2, <1>3 DEF StatKept, Shrunk, r
  <2>2. r.present /\ NeedsRebuild(f)
    BY <1>6, <1>10, <2>1 DEF NeedsRebuild, r
  <2>3. FullKept(p)'
    BY <1>1, <1>10, <2>2 DEF FullKept, ResumeOffset, NeedsRebuild, r
  <2> QED BY <1>5, <2>3
<1>11. CASE mode = "first"
  <2>1. FirstKept(p)'
    BY <1>1, <1>7, <1>11 DEF FirstKept, ResumeOffset, r
  <2> QED BY <1>5, <2>1
<1>12. CASE mode = "append"
  <2>1. AppendKept(p)'
    BY <1>1, <1>8, <1>12 DEF AppendKept, ResumeOffset, r
  <2> QED BY <1>5, <2>1
<1> QED BY <1>9, <1>10, <1>11, <1>12

\* A parse misses nothing behind the offset it resumed from.
LEMMA ParseKept ==
    ASSUME TypeOK, BoundaryInv, LossInv, NEW p \in Indexers, Parse(p)
    PROVE  /\ (StatKept(p) /\ (FullKept(p) \/ FirstKept(p) \/ AppendKept(p)) /\ FoundAll(p))'
           /\ proc'[p].pc \in Parsed
           /\ proc'[p].pc = "upsert" => job'[p].txns = {}
<1>0. PICK f \in Files : f = job[p].file
  BY TypeParts DEF ActorType, JobType
<1> DEFINE j == job[p]
           d == data[f]
           off == StartOffset(d, j.offset)
           ft == FileType[f]
           type == ParsedType(d, off, j.known, ft)
           txns == TxnEnds(d, off, type, ft)
           k == job'[p].newOffset
<1>1. /\ proc[p].pc = "parse" /\ UNCHANGED <<data, row>>
      /\ proc'[p].pc = IF j.mode = "full" \/ (j.mode = "first" /\ txns # {}) THEN "delete"
                        ELSE IF txns # {} THEN "insert" ELSE "upsert"
      /\ job'[p].file = f /\ job'[p].size = j.size /\ job'[p].mode = j.mode
      /\ job'[p].offset = off /\ job'[p].txns = txns
      /\ k \in off..Len(d)
      /\ IsNewOffset(d, off, type, ft, k)
  BY <1>0, ParseJob, Zenon
<1>2. /\ j \in JobType /\ j.offset \in Nat /\ j.size \in Nat
      /\ d \in Seq(Token) /\ Len(d) \in Nat /\ row[f].offset \in Nat /\ row[f].size \in Nat
  BY DataTyped, TypeParts DEF ActorType, DbType, JobType, Row
<1>3. StatKept(p) /\ (FullKept(p) \/ FirstKept(p) \/ AppendKept(p)) /\ ResumeAtBoundary(p)
  BY <1>1 DEF LossInv, JobInv, JobRowInv, Busy, Planned, BoundaryInv, JobBoundaryInv
<1>4. off \in Nat /\ off <= Len(d) /\ (off = 0 \/ off = j.offset) /\ (j.offset <= Len(d) => off = j.offset)
  BY <1>2 DEF StartOffset
<1>5. AtBoundary(d, off)
  BY <1>0, <1>3, <1>4, ZeroIsBoundary DEF ResumeAtBoundary
<1> HIDE DEF d, off, ft, type, txns, k
<1>6. proc'[p].pc \in Parsed /\ (proc'[p].pc = "upsert" => job'[p].txns = {})
  BY <1>1 DEF Parsed
<1>7. StatKept(p)'
  BY <1>0, <1>1, <1>3 DEF StatKept
<1>8. (FullKept(p) \/ FirstKept(p) \/ AppendKept(p))'
  <2>1. CASE FullKept(p)
    <3>1. off = 0
      BY <1>4, <2>1 DEF FullKept
    <3>2. FullKept(p)'
      BY <1>0, <1>1, <2>1, <3>1 DEF FullKept, NeedsRebuild
    <3> QED BY <3>2
  <2>2. CASE FirstKept(p)
    <3>1. off = 0
      BY <1>4, <2>2 DEF FirstKept
    <3>2. FirstKept(p)'
      BY <1>0, <1>1, <2>2, <3>1 DEF FirstKept
    <3> QED BY <3>2
  <2>3. CASE AppendKept(p)
    <3>1. j.mode = "append" /\ j.offset = row[f].offset /\ row[f].offset <= j.size
      BY <1>0, <1>1, <1>2, <2>3 DEF AppendKept, Shrunk
    <3>2. j.size <= Len(d) => off = row[f].offset
      BY <1>2, <1>4, <3>1
    <3>3. proc'[p].pc # "delete" /\ proc'[p].pc # "parse"
      BY <1>1, <3>1
    <3>4. AppendKept(p)'
      BY <1>0, <1>1, <2>3, <3>2, <3>3 DEF AppendKept, d
    <3> QED BY <3>4
  <2> QED BY <1>3, <2>1, <2>2, <2>3
<1>9. FoundAll(p)'
  <2>1. ASSUME NEW e \in Complete(f), e <= k, e > off PROVE e \in txns
    <3>1. e \in 1..Len(d) /\ EndsTxn(d, 0, e)
      BY <2>1 DEF Complete, TxnEnds, d
    <3>2. EndsTxn(d, off, e)
      BY <1>2, <1>4, <1>5, <2>1, <3>1, BoundaryComplete
    <3>3. type = ft
      BY <1>1, <1>4, <2>1, <3>1 DEF IsNewOffset
    <3> QED BY <3>1, <3>2, <3>3 DEF TxnEnds, txns
  <2>2. \A e \in Complete(f) : e \in Nat
    BY DEF Complete, TxnEnds
  <2>3. \A e \in Complete(f) : e <= k => e \in txns \/ e <= off
    BY <1>4, <2>1, <2>2
  <2> QED BY <1>1, <2>3 DEF FoundAll, Complete, k
<1> QED BY <1>6, <1>7, <1>8, <1>9

\* InsertMany stores every transaction of the job.
LEMMA StoreKept ==
    ASSUME TypeOK, LossInv, NEW p \in Indexers, Delete(p) \/ Insert(p)
    PROVE  /\ (StatKept(p) /\ (FullKept(p) \/ FirstKept(p) \/ AppendKept(p)))'
           /\ FoundAll(p) => FoundAll(p)'
           /\ proc'[p].pc = "upsert" => \A e \in job'[p].txns : stored'[job'[p].file][e] > 0
<1>0. PICK f \in Files : f = job[p].file
  BY TypeParts DEF ActorType, JobType
<1>1. /\ UNCHANGED <<data, row, job>>
      /\ proc[p].pc \in {"delete", "insert"}
      /\ proc'[p].pc \in {"insert", "upsert"}
      /\ Delete(p) /\ proc'[p].pc = "upsert" => job[p].txns = {}
  BY StoreJob
<1>2. StatKept(p) /\ (FullKept(p) \/ FirstKept(p) \/ AppendKept(p))
  BY <1>1 DEF LossInv, JobInv, JobRowInv, Busy, Planned, Parsed
<1>3. StatKept(p)' /\ (FoundAll(p) => FoundAll(p)')
  BY <1>1, <1>2 DEF StatKept, FoundAll, Complete
<1>4. (FullKept(p) \/ FirstKept(p) \/ AppendKept(p))'
  <2>1. FullKept(p) => FullKept(p)'
    BY <1>1 DEF FullKept, NeedsRebuild
  <2>2. FirstKept(p) => FirstKept(p)'
    BY <1>1 DEF FirstKept
  <2>3. AppendKept(p) => AppendKept(p)'
    BY <1>1 DEF AppendKept
  <2> QED BY <1>2, <2>1, <2>2, <2>3
<1>5. ASSUME Insert(p), NEW e \in job[p].txns PROVE stored'[f][e] > 0
  <2>1. /\ stored \in [Files -> [Pos -> 0..MaxCopies]] /\ e \in Pos
        /\ MaxCopies \in Nat /\ MaxCopies > 1
    BY <1>5, TypeParts, ConstantsAssumption DEF DbType, ActorType, JobType
  <2>2. stored'[f][e] = Copies(stored[f][e])
    BY <1>0, <1>5, <2>1 DEF Insert, InsertDocs
  <2> QED BY <2>1, <2>2 DEF Copies
<1> QED BY <1>0, <1>1, <1>3, <1>4, <1>5

\* Every step keeps what the jobs know.
LEMMA JobInvStep ==
    ASSUME SingleIndexer, TypeOK, BoundaryInv, LossInv, [Next]_vars PROVE JobInv'
<1>1. CASE UNCHANGED <<data, row, stored, proc, job>>
  <2>1. JobRowInv'
    BY <1>1 DEF LossInv, JobInv, JobRowInv, Busy, StatKept, FullKept, FirstKept, AppendKept, NeedsRebuild
  <2>2. JobParseInv' /\ JobStoreInv'
    BY <1>1 DEF LossInv, JobInv, JobParseInv, JobStoreInv, FoundAll, Complete
  <2> QED BY <2>1, <2>2 DEF JobInv
<1> DEFINE Holds(p) ==
       /\ proc'[p].pc \notin {"idle", "walk"} => StatKept(p)'
       /\ proc'[p].pc \in Planned => (FullKept(p) \/ FirstKept(p) \/ AppendKept(p))'
       /\ proc'[p].pc \in Parsed =>
             (job[p].size <= Len(data[job[p].file]) /\ job[p].newOffset <= Len(data[job[p].file]) => FoundAll(p))'
       /\ proc'[p].pc = "upsert" => \A e \in job'[p].txns : stored'[job'[p].file][e] > 0
<1>2. ASSUME NEW p \in Indexers, Holds(p) PROVE JobInv'
  <2>1. \A q \in Indexers : q = p
    BY DEF SingleIndexer
  <2>2. JobRowInv' /\ JobParseInv' /\ JobStoreInv'
    BY <1>2, <2>1 DEF JobRowInv, JobParseInv, JobStoreInv, Busy
  <2> QED BY <2>2 DEF JobInv
<1>3. ASSUME NEW p \in Indexers, Leaves(p) PROVE Holds(p)
  BY <1>3 DEF Leaves, Planned, Parsed
<1>4. ASSUME NEW p \in Indexers, NEW f \in Files, Stat(p, f) PROVE Holds(p)
  <2>1. /\ proc'[p].pc = "find" /\ UNCHANGED <<data, row>>
        /\ job'[p].file = f /\ job'[p].size = Len(data[f])
    BY <1>4, StatJob
  <2> QED BY <2>1 DEF StatKept, Planned, Parsed
<1>5. ASSUME NEW p \in Indexers, Find(p) PROVE Holds(p)
  <2>1. proc'[p].pc = "parse"
    BY <1>5, FindJob
  <2> QED BY <1>5, <2>1, FindKept DEF Planned, Parsed
<1>6. ASSUME NEW p \in Indexers, Parse(p) PROVE Holds(p)
  BY <1>6, ParseKept DEF Planned, Parsed
<1>7. ASSUME NEW p \in Indexers, Delete(p) \/ Insert(p) PROVE Holds(p)
  <2>1. /\ UNCHANGED <<data, job>> /\ proc[p].pc \in Parsed
    BY <1>7, StoreJob DEF Parsed
  <2>2. (job[p].size <= Len(data[job[p].file]) /\ job[p].newOffset <= Len(data[job[p].file]))' => FoundAll(p)'
    BY <1>7, <2>1, StoreKept DEF LossInv, JobInv, JobParseInv
  <2> QED BY <1>7, <2>2, StoreKept
<1> QED BY <1>1, <1>2, <1>3, <1>4, <1>5, <1>6, <1>7, StepCases, EnvJobInv

\* Every step loses nothing.
LEMMA NoLossStep ==
    ASSUME SingleIndexer, TypeOK, BoundaryInv, LossInv, [Next]_vars PROVE LossInv'
<1>1. NoSilentLoss'
  <2>1. CASE ~UNCHANGED <<row, stored>>
    BY <2>1, WriteNoLoss
  <2>2. CASE UNCHANGED <<data, row, stored>>
    BY <2>2 DEF LossInv, NoSilentLoss, NeedsRebuild, Complete, Searchable
  <2>3. CASE \E f \in Files : Grow(f) \/ Cut(f)
    BY <2>3, EnvNoLoss DEF LossInv
  <2> QED BY <2>1, <2>2, <2>3, StepCases
<1> QED BY <1>1, JobInvStep DEF LossInv

\* With one indexer, whatever the journals' writers, failed calls, timeouts and
\* crashes do: every complete transaction before the resume point of a journal is
\* searchable, unless its row still asks for a rebuild.
THEOREM NothingLost == ASSUME SingleIndexer PROVE Spec => []NoSilentLoss
<1>1. Init => BoundaryInv /\ LossInv
  BY InitBoundary, InitLoss
<1>2. TypeOK /\ BoundaryInv /\ LossInv /\ [Next]_vars => BoundaryInv' /\ LossInv'
  BY RowBoundaryStep, JobBoundaryStep, NoLossStep DEF BoundaryInv
<1>3. LossInv => NoSilentLoss
  BY DEF LossInv
<1> QED BY <1>1, <1>2, <1>3, TypeCorrect, PTL DEF Spec
-----------------------------------------------------------------------------
(***************************************************************************)
(* A single indexer keeps the promise of EJIndex, for every journal.       *)
(***************************************************************************)
\* What the index of a journal is made of.
LEMMA IndexTyped ==
    ASSUME TypeOK, NEW f \in Files
    PROVE  Complete(f) \in SUBSET Nat /\ Searchable(f) \in SUBSET Nat /\ Indexed(f) \in Nat
<1>1. Len(data[f]) \in Nat /\ row[f].offset \in Nat /\ MaxLen \in Nat
  BY DataTyped, ConstantsAssumption DEF TypeOK, Row
<1> QED BY <1>1 DEF Complete, TxnEnds, Searchable, Pos, Indexed

LEMMA NextIndexTyped ==
    ASSUME TypeOK, [Next]_vars, NEW f \in Files
    PROVE  Complete(f)' \in SUBSET Nat /\ Searchable(f)' \in SUBSET Nat /\ Indexed(f)' \in Nat
<1>1. /\ Len(data'[f]) \in Nat /\ row'[f].offset \in Nat /\ MaxLen \in Nat
  BY NextType, NextDataTyped, ConstantsAssumption DEF TypeOK, Row
<1> QED BY <1>1 DEF Complete, TxnEnds, Searchable, Pos, Indexed

\* What an older release left is covered.
LEMMA IndexInit ==
    ASSUME Init, NEW f \in Files PROVE Index(f)!Init
<1>1. TypeOK /\ NoSilentLoss
  BY InitType, InitLoss DEF LossInv
<1>2. \A e \in Complete(f) : e \in Nat /\ e >= 1
  BY <1>1, DataTyped DEF Complete, TxnEnds
<1>3. \A e \in Complete(f) : e <= Indexed(f) => e \in Searchable(f)
  BY <1>1, <1>2 DEF NoSilentLoss, Indexed
<1> QED BY <1>1, <1>3, IndexTyped DEF Index!Init, Index!Covered, Index!UpTo

\* Writing and cutting a journal changes nothing that stays indexed.
LEMMA IndexWrite ==
    ASSUME TypeOK, [Next]_vars, NEW f \in Files, Grow(f) \/ Cut(f), NEW g \in Files
    PROVE  Index(g)!Write
<1>1. UNCHANGED <<row, stored>>
  BY EnvOnlyData
<1>2. row[g].offset \in Nat /\ Len(data'[g]) \in Nat /\ data[g] \in Seq(Token) /\ data'[g] \in Seq(Token)
  <2>1. row[g].offset \in Nat
    BY DEF TypeOK, Row
  <2> QED BY <2>1, DataTyped, NextDataTyped, NextType
<1>3. Indexed(g)' \in {0, Indexed(g)}
  BY <1>1, NeedsRebuildKept DEF Indexed
<1>4. \A e \in Complete(g) : e \in Nat /\ e >= 1
  BY DataTyped DEF Complete, TxnEnds
<1>5. \A e \in Complete(g)' : e \in Nat /\ e >= 1
  BY <1>2 DEF Complete, TxnEnds
<1>6. CASE Indexed(g)' # 0
  <2>1. Indexed(g)' = row[g].offset /\ row[g].offset <= Len(data'[g])
    BY <1>1, <1>2, <1>6 DEF Indexed, NeedsRebuild, Shrunk
  <2>2. Known(g, row[g].offset)
    BY DEF Known
  <2>3. \A e \in Complete(g)' : e <= row[g].offset => e \in Complete(g)
    BY <1>2, <2>1, <2>2, CompleteKept
  <2>4. ASSUME NEW e \in Complete(g), e <= row[g].offset PROVE e \in Complete(g)'
    <3>1. row[g].offset <= Len(data[g]) /\ SameUpTo(data[g], data'[g], row[g].offset)
      BY <1>2, <2>1, <2>2, EnvKeeps
    <3>2. EndsTxn(data[g], 0, e) /\ FileType[g] = FileType[g] /\ e \in 1..row[g].offset
      BY <1>2, <1>4, <2>4 DEF Complete, TxnEnds
    <3>3. EndsTxn(data'[g], 0, e)
      BY <1>2, <3>1, <3>2, TxnPrefix
    <3> QED BY <1>2, <2>1, <3>2, <3>3 DEF Complete, TxnEnds
  <2> QED BY <1>1, <1>3, <2>1, <2>3, <2>4, NextIndexTyped
          DEF Index!Write, Index!UpTo, Searchable
<1>7. CASE Indexed(g)' = 0
  BY <1>1, <1>3, <1>4, <1>5, <1>7, NextIndexTyped DEF Index!Write, Index!UpTo, Searchable
<1> QED BY <1>6, <1>7

\* Deleting happens before the journal is indexed anew; inserting only adds.
LEMMA IndexStore ==
    ASSUME TypeOK, LossInv, [Next]_vars, NEW p \in Indexers, UNCHANGED <<data, row>>,
           \A g \in Files \ {job[p].file} : stored'[g] = stored[g],
           \/ proc[p].pc = "delete" /\ \A g \in Files, e \in Pos : stored'[g][e] > 0 => stored[g][e] > 0
           \/ proc[p].pc = "insert" /\ \A g \in Files, e \in Pos : stored[g][e] > 0 => stored'[g][e] > 0,
           NEW f \in Files
    PROVE  [Index(f)!Next]_(Index(f)!vars)
<1>1. Complete(f)' = Complete(f) /\ Indexed(f)' = Indexed(f)
  BY DEF Complete, Indexed, NeedsRebuild
<1>2. CASE f # job[p].file
  BY <1>1, <1>2 DEF Searchable, Index!vars
<1>3. CASE f = job[p].file /\ proc[p].pc = "insert"
  <2>1. Searchable(f) \subseteq Searchable(f)'
    BY <1>3 DEF Searchable
  <2> QED BY <1>1, <2>1, NextIndexTyped DEF Index!Next, Index!Store
<1>4. CASE f = job[p].file /\ proc[p].pc = "delete"
  <2>1. FullKept(p) \/ FirstKept(p)
    BY <1>4 DEF LossInv, JobInv, JobRowInv, Planned, Parsed, AppendKept
  <2>2. Indexed(f) = 0
    BY <1>4, <2>1 DEF FullKept, FirstKept, Indexed
  <2>3. Searchable(f)' \subseteq Searchable(f)
    BY <1>4 DEF Searchable
  <2> QED BY <1>1, <2>2, <2>3 DEF Index!Next, Index!Clear
<1> QED BY <1>2, <1>3, <1>4

\* A row moves forward over what is stored, or asks for a rebuild.
LEMMA IndexAdvance ==
    ASSUME TypeOK, BoundaryInv, LossInv, LossInv', [Next]_vars, NEW p \in Indexers,
           UNCHANGED <<data, stored>>, proc[p].pc = "upsert",
           row' = [row EXCEPT ![job[p].file] = NewRow(job[p])],
           NEW f \in Files
    PROVE  [Index(f)!Next]_(Index(f)!vars)
<1>1. Complete(f)' = Complete(f) /\ Searchable(f)' = Searchable(f)
  BY DEF Complete, Searchable
<1>2. row \in [Files -> Row] /\ row[f].offset \in Nat /\ row[f].size \in Nat /\ Len(data[f]) \in Nat
  BY DataTyped DEF TypeOK, Row
<1>3. job[p].size \in Nat /\ job[p].offset \in Nat /\ job[p].newOffset \in Nat
  BY TypeParts DEF ActorType, JobType
<1>4. CASE f # job[p].file
  <2>1. row'[f] = row[f]
    BY <1>2, <1>4
  <2> QED BY <1>1, <2>1 DEF Indexed, NeedsRebuild, Index!vars
<1>5. CASE Indexed(f)' = 0
  BY <1>1, <1>5 DEF Index!Next, Index!Restart
<1>6. CASE f = job[p].file /\ Indexed(f)' # 0
  <2>1. row'[f].offset = job[p].newOffset /\ row'[f].size = job[p].size
    BY <1>2, <1>6 DEF NewRow
  <2>2. /\ Indexed(f)' = job[p].newOffset
        /\ job[p].size <= Len(data[f]) /\ job[p].newOffset <= Len(data[f])
    BY <1>2, <1>3, <1>6, <2>1 DEF Indexed, NeedsRebuild, Shrunk
  <2>3. FullKept(p) \/ FirstKept(p) \/ AppendKept(p)
    BY DEF LossInv, JobInv, JobRowInv, Planned, Parsed
  <2>4. job[p].offset <= job[p].newOffset
    BY DEF BoundaryInv, JobBoundaryInv, EndAtBoundary, Parsed
  <2>5. Indexed(f) <= job[p].newOffset
    <3>1. CASE FullKept(p) \/ FirstKept(p)
      BY <1>3, <1>6, <3>1 DEF FullKept, FirstKept, Indexed
    <3>2. CASE AppendKept(p)
      <4>1. job[p].offset = row[f].offset
        BY <1>6, <2>2, <3>2 DEF AppendKept
      <4> QED BY <1>2, <1>3, <2>4, <4>1 DEF Indexed
    <3> QED BY <2>3, <3>1, <3>2
  <2>6. Index(f)!Covered'
    <3>1. \A e \in Complete(f)' : e <= Indexed(f)' => e \in Searchable(f)'
      BY <1>6 DEF LossInv, NoSilentLoss, Indexed
    <3> QED BY <3>1 DEF Index!Covered, Index!UpTo
  <2> QED BY <1>1, <1>3, <2>2, <2>5, <2>6 DEF Index!Next, Index!Advance
<1> QED BY <1>4, <1>5, <1>6

\* Every step of the indexer and of its journals is one of the index, or none.
LEMMA IndexStep ==
    ASSUME TypeOK, BoundaryInv, LossInv, LossInv', [Next]_vars, NEW f \in Files
    PROVE  [Index(f)!Next]_(Index(f)!vars)
<1>1. CASE UNCHANGED <<data, row, stored>>
  BY <1>1 DEF Complete, Searchable, Indexed, NeedsRebuild, Index!vars
<1>2. CASE \E g \in Files : Grow(g) \/ Cut(g)
  BY <1>2, IndexWrite DEF Index!Next
<1>3. CASE ~UNCHANGED <<row, stored>>
  BY <1>3, DbEffect, IndexStore, IndexAdvance
<1> QED BY <1>1, <1>2, <1>3, StepCases

\* With one indexer, KeepsIndex: what is indexed of a journal is found and stays as
\* it is, the index of a journal moves forward over what is found or back to the
\* start, and transactions are taken away only while it is at the start.
THEOREM ImplementsIndex == ASSUME SingleIndexer PROVE Spec => KeepsIndex
<1>1. Init => BoundaryInv /\ LossInv /\ \A f \in Files : Index(f)!Init
  BY InitBoundary, InitLoss, IndexInit
<1>2. TypeOK /\ BoundaryInv /\ LossInv /\ [Next]_vars => BoundaryInv' /\ LossInv'
  BY RowBoundaryStep, JobBoundaryStep, NoLossStep DEF BoundaryInv
<1>3. TypeOK /\ BoundaryInv /\ LossInv /\ LossInv' /\ [Next]_vars
        => [\A f \in Files : [Index(f)!Next]_(Index(f)!vars)]_vars
  BY IndexStep
<1> QED BY <1>1, <1>2, <1>3, TypeCorrect, PTL DEF Spec, KeepsIndex
=============================================================================
