--------------------------- MODULE EJCopiesProofs ----------------------------
(***************************************************************************)
(* With a single indexer, a transaction is stored once and counted once,   *)
(* unless a row write was lost.                                            *)
(***************************************************************************)
EXTENDS EJResumeProofs

\* The documents of a journal are not those its row speaks of, and either this is
\* known to history or the row asks for a rebuild.
Astray(f) == torn[f] \/ NeedsRebuild(f)

Single(f) == \A e \in Pos : stored[f][e] <= 1

Upto(f, k) == {e \in Searchable(f) : e <= k}

\* An append has stored what it found, and its row is not written yet.
Adding(f) ==
    \E p \in Indexers : /\ proc[p].pc = "upsert" /\ job[p].file = f
                        /\ job[p].mode = "append" /\ job[p].txns # {}

\* No transaction is stored twice, none behind the offset, and the row counts those
\* before it.
RowCopies(f) ==
    /\ Single(f)
    /\ row[f].offset > 0 /\ ~Adding(f) => Searchable(f) = Upto(f, row[f].offset)
    /\ row[f].present => row[f].count = Cardinality(Upto(f, row[f].offset))

RowCopiesInv == \A f \in Files : Astray(f) \/ RowCopies(f)

\* An append resumes where the row it will replace ends, unless the journal was cut
\* short of that.
JobResume(p) ==
    LET j == job[p]
        r == row[j.file]
    IN  IF j.mode = "append"
        THEN /\ j.prev = r.count /\ r.offset > 0
             /\ j.offset = r.offset \/ (proc[p].pc # "parse" /\ r.offset > Len(data[j.file]))
        ELSE j.prev = 0

\* What a parse found lies between the two offsets.
JobFound(p) ==
    /\ job[p].offset <= job[p].newOffset
    /\ \A e \in job[p].txns : job[p].offset < e /\ e <= job[p].newOffset

\* What is stored when a job has only its row left to write.
JobCopies(p) ==
    LET j == job[p]
        f == j.file
    IN  IF j.mode = "append"
        THEN Astray(f) \/ \A e \in Searchable(f) : e \in j.txns \/ e <= j.offset
        ELSE KeepsStrays(j) \/ (Single(f) /\ \A e \in Searchable(f) : e \in j.txns)

JobCopiesInv ==
    \A p \in Indexers :
        /\ proc[p].pc \in Planned => JobResume(p)
        /\ proc[p].pc \in Parsed => JobFound(p)
        /\ proc[p].pc = "insert" /\ job[p].mode # "append" => Searchable(job[p].file) = {}
        /\ proc[p].pc = "upsert" => JobCopies(p)

CopiesInv == RowCopiesInv /\ JobCopiesInv
-----------------------------------------------------------------------------
(***************************************************************************)
(* Sets of positions, offsets, jobs.                                       *)
(***************************************************************************)
\* Every set of positions is finite.
LEMMA PositionsFinite ==
    ASSUME NEW T \in SUBSET Pos PROVE IsFiniteSet(T)
<1>1. IsFiniteSet(Pos)
  BY ConstantsAssumption, FS_Interval DEF Pos
<1> QED BY <1>1, FS_Subset

\* Two sets without a common position are counted apart.
LEMMA CountApart ==
    ASSUME NEW S \in SUBSET Pos, NEW T \in SUBSET Pos, S \cap T = {}
    PROVE  Cardinality(S \cup T) = Cardinality(S) + Cardinality(T)
<1>1. IsFiniteSet(S) /\ IsFiniteSet(T)
  BY PositionsFinite
<1>2. Cardinality(S \cup T) = Cardinality(S) + Cardinality(T) - Cardinality(S \cap T)
  BY <1>1, FS_Union
<1>3. Cardinality(S \cap T) = 0
  BY FS_EmptySet
<1>4. Cardinality(S) \in Nat /\ Cardinality(T) \in Nat
  BY CountIsNat
<1>5. \A a, b \in Nat : a + b - 0 = a + b
  OBVIOUS
<1> QED BY <1>2, <1>3, <1>4, <1>5, Zenon

\* A parse finds transactions behind the offset it starts from and before the one
\* it ends at.
LEMMA TxnsBetween ==
    ASSUME NEW d \in Seq(Token), NEW off \in Nat, NEW k \in off..Len(d), NEW type, NEW ft,
           IsNewOffset(d, off, type, ft, k), NEW e \in TxnEnds(d, off, type, ft)
    PROVE  off < e /\ e <= k
<1>1. Len(d) \in Nat
  OBVIOUS
<1>2. e \in 1..Len(d) /\ type = ft /\ EndsTxn(d, off, e)
  BY DEF TxnEnds
<1>3. EndsBlock(d, off, e)
  BY <1>2 DEF EndsTxn, EndsBlock
<1>4. off < e
  BY <1>1, <1>2, <1>3 DEF EndsBlock, Spans
<1>5. PICK b \in 1..k : \A later \in (b + 1)..Len(d) : ~EndsBlock(d, off, later)
  BY <1>2, <1>3 DEF IsNewOffset
<1>6. e <= b
  BY <1>1, <1>2, <1>3, <1>5
<1> QED BY <1>1, <1>2, <1>4, <1>5, <1>6

\* What is known of a journal's documents.
LEMMA StoredTyped ==
    ASSUME TypeOK, NEW f \in Files
    PROVE  /\ \A e \in Pos : stored[f][e] \in Nat
           /\ Searchable(f) \in SUBSET Pos
           /\ \A k \in Nat : Upto(f, k) \in SUBSET Pos
           /\ Upto(f, 0) = {}
<1>0. MaxLen \in Nat /\ MaxCopies \in Nat
  BY ConstantsAssumption
<1>1. \A e \in Pos : stored[f][e] \in Nat /\ e \in Nat /\ e > 0
  <2>1. stored \in [Files -> [Pos -> 0..MaxCopies]]
    BY DEF TypeOK
  <2>2. \A e \in Pos : stored[f][e] \in 0..MaxCopies
    BY <2>1
  <2> QED BY <1>0, <2>2 DEF Pos
<1> QED BY <1>1 DEF Searchable, Upto

\* The types of a job and of the row of its journal.
LEMMA JobTyped ==
    ASSUME TypeOK, NEW p \in Indexers
    PROVE  LET j == job[p]
               r == row[j.file]
           IN  /\ j.file \in Files /\ j.size \in Nat /\ j.offset \in Nat /\ j.newOffset \in Nat
               /\ j.prev \in Nat /\ j.txns \in SUBSET Pos
               /\ r.size \in Nat /\ r.offset \in Nat /\ r.count \in Nat
               /\ Len(data[j.file]) \in Nat
<1>1. job[p] \in JobType /\ job[p].file \in Files
  BY TypeParts DEF ActorType, JobType
<1>2. row[job[p].file] \in Row
  BY <1>1 DEF TypeOK
<1> QED BY <1>1, <1>2, DataTyped DEF JobType, Row

\* The registered count that a job takes along.
LEMMA FindPrev ==
    ASSUME TypeOK, NEW p \in Indexers, Find(p)
    PROVE  job'[p].prev = IF job'[p].mode = "append" THEN row[job[p].file].count ELSE 0
<1> DEFINE j == job[p]
           r == row[j.file]
           mode == Plan(r, j.size, j.mtime)
           off == ResumeOffset(mode, r)
           known == IF mode = "full" THEN "" ELSE r.type
           lines == IF mode = "append" THEN r.lines ELSE 0
           prev == IF mode = "append" THEN r.count ELSE 0
<1>1. job \in [Indexers -> JobType]
  BY TypeParts DEF ActorType
<1>2. job' = [job EXCEPT ![p].mode = mode, ![p].offset = off, ![p].known = known, ![p].lines = lines,
                ![p].prev = prev]
  BY DEF Find
<1> HIDE DEF r, mode, off, known, lines, prev
<1>3. job'[p].prev = prev /\ job'[p].mode = mode
  BY <1>1, <1>2 DEF JobType
<1> QED BY <1>3 DEF prev, r

\* The parser does not change it.
LEMMA ParsePrev ==
    ASSUME TypeOK, NEW p \in Indexers, Parse(p) PROVE job'[p].prev = job[p].prev
<1> DEFINE j == job[p]
           d == data[j.file]
           off == StartOffset(d, j.offset)
           type == ParsedType(d, off, j.known, FileType[j.file])
           txns == TxnEnds(d, off, type, FileType[j.file])
<1>1. job \in [Indexers -> JobType]
  BY TypeParts DEF ActorType
<1>2. PICK k \in off..Len(d) :
        job' = [job EXCEPT ![p].offset = off, ![p].txns = txns, ![p].type = type,
              ![p].newOffset = k,
              ![p].newLines = (IF off = j.offset THEN j.lines ELSE 0) + (k - off)]
  BY DEF Parse
<1> HIDE DEF d, off, type, txns
<1> QED BY <1>1, <1>2 DEF JobType

\* A row without an offset counts nothing, or asks for a rebuild.
LEMMA ZeroOffset ==
    ASSUME TypeOK, TypeOK', NEW f \in Files, row[f].offset = 0, row'[f] = row[f], Single(f)'
    PROVE  NeedsRebuild(f)' \/ RowCopies(f)'
<1>1. row[f].count \in Nat
  BY DEF TypeOK, Row
<1>2. Upto(f, 0)' = {}
  <2>1. \A e \in Pos : ~(e <= 0)
    BY ConstantsAssumption DEF Pos
  <2> QED BY <2>1 DEF Upto, Searchable
<1>3. Cardinality({}) = 0
  BY FS_EmptySet
<1>4. CASE row[f].present /\ row[f].count # 0
  BY <1>1, <1>4 DEF NeedsRebuild, NoOffset
<1>5. CASE ~row[f].present \/ row[f].count = 0
  <2>1. (row[f].present => row[f].count = Cardinality(Upto(f, row[f].offset)))'
    BY <1>2, <1>3, <1>5
  <2>2. ~(row'[f].offset > 0)
    OBVIOUS
  <2> QED BY <2>1, <2>2 DEF RowCopies
<1> QED BY <1>4, <1>5

\* What nobody writes to stays as it is, unless an append ends.
LEMMA RowKept ==
    ASSUME NEW f \in Files, Astray(f) \/ RowCopies(f),
           row'[f] = row[f], stored'[f] = stored[f], torn[f] => torn'[f],
           NeedsRebuild(f) => NeedsRebuild(f)', Adding(f) => Adding(f)' \/ torn'[f]
    PROVE  (Astray(f) \/ RowCopies(f))'
<1>1. Searchable(f)' = Searchable(f) /\ (Single(f) => Single(f)')
  BY DEF Searchable, Single
<1>2. Upto(f, row[f].offset)' = Upto(f, row[f].offset)
  BY <1>1 DEF Upto
<1>3. Astray(f) => Astray(f)'
  BY DEF Astray
<1>4. torn'[f] => Astray(f)'
  BY DEF Astray
<1>5. RowCopies(f) /\ ~torn'[f] => RowCopies(f)'
  BY <1>1, <1>2 DEF RowCopies
<1> QED BY <1>3, <1>4, <1>5

-----------------------------------------------------------------------------
(***************************************************************************)
(* The steps.                                                              *)
(***************************************************************************)
\* An older release leaves every transaction stored once and counted.
LEMMA InitCopies == Init => CopiesInv
<1> SUFFICES ASSUME Init PROVE CopiesInv
  OBVIOUS
<1>0. TypeOK
  BY InitType
<1>1. JobCopiesInv
  BY DEF Init, JobCopiesInv, Booting, Planned, Parsed
<1>2. ASSUME NEW f \in Files PROVE NeedsRebuild(f) \/ RowCopies(f)
  <2> DEFINE T == IF row[f].present THEN LegacyTxns(f) ELSE {}
  <2>1. oldDocs[f] = T /\ T \in SUBSET Pos
    BY <1>0, <1>2, LegacyTxnsOK DEF Init, TypeOK
  <2>2. \A e \in Pos : stored[f][e] = IF e \in T THEN 1 ELSE 0
    BY <2>1 DEF Init
  <2>3. Single(f) /\ Searchable(f) = T
    BY <2>1, <2>2 DEF Single, Searchable
  <2>4. PICK s \in [Files -> LegacySchemas \cup {-1}], k \in [Files -> 0..MaxLen] :
          /\ \A g \in Files : IF s[g] = -1 THEN k[g] = 0
                ELSE k[g] <= Len(data[g]) /\ IsNewOffset(data[g], 0, FileType[g], FileType[g], k[g])
          /\ row = [g \in Files |-> IF s[g] = -1 THEN NoRow
                       ELSE LegacyRow(g, data[g], s[g], k[g], Cardinality(LegacyTxns(g)))]
    BY DEF Init
  <2>5. CASE s[f] = -1
    <3>1. row[f] = NoRow
      BY <2>4, <2>5
    <3>2. NoRow.offset = 0 /\ ~NoRow.present
      <4>1. NoRow.offset = 0
        BY DEF NoRow
      <4>2. ~NoRow.present
        BY Zenon DEF NoRow
      <4> QED BY <4>1, <4>2
    <3> QED BY <2>3, <3>1, <3>2 DEF RowCopies
  <2>6. CASE s[f] # -1
    <3>1. /\ row[f].present
          /\ row[f].count = Cardinality(LegacyTxns(f))
          /\ row[f].offset = IF s[f] = 0 THEN 0 ELSE k[f]
      BY <2>4, <2>6 DEF LegacyRow
    <3>2. T = LegacyTxns(f)
      BY <3>1
    <3>3. CASE s[f] # 0
      <4>1. data[f] \in Seq(Token) /\ k[f] \in 0..Len(data[f])
        BY <1>0, <2>4, <2>6, DataTyped, ConstantsAssumption
      <4>2. \A e \in T : e <= k[f]
        BY <2>4, <2>6, <3>2, <4>1, TxnsBetween DEF LegacyTxns
      <4>3. Upto(f, row[f].offset) = T
        BY <2>3, <3>1, <3>3, <4>2 DEF Upto
      <4> QED BY <2>3, <3>1, <3>2, <4>3 DEF RowCopies
    <3>4. CASE s[f] = 0
      <4>1. row[f].offset = 0
        BY <3>1, <3>4
      <4>2. CASE row[f].count = 0
        <5>1. Cardinality(Upto(f, 0)) = 0
          BY <1>0, StoredTyped, FS_EmptySet
        <5> QED BY <2>3, <4>1, <4>2, <5>1 DEF RowCopies
      <4>3. CASE row[f].count # 0
        <5>1. row[f].count \in Nat
          BY <1>0 DEF TypeOK, Row
        <5> QED BY <3>1, <4>1, <4>3, <5>1 DEF NeedsRebuild, NoOffset
      <4> QED BY <4>2, <4>3
    <3> QED BY <3>3, <3>4
  <2> QED BY <2>5, <2>6
<1> QED BY <1>1, <1>2 DEF CopiesInv, RowCopiesInv, Astray

\* Writing and cutting journals stores nothing; a job that resumed behind the end of
\* a cut journal goes on doing so.
LEMMA EnvCopies ==
    ASSUME TypeOK, CopiesInv, NEW f \in Files, Grow(f) \/ Cut(f) PROVE CopiesInv'
<1>1. UNCHANGED <<row, stored, torn, proc, job>>
  BY DEF Grow, Cut, dbVars
<1>2. ASSUME NEW g \in Files PROVE (Astray(g) \/ RowCopies(g))'
  <2>1. Adding(g) => Adding(g)'
    BY <1>1 DEF Adding
  <2>2. NeedsRebuild(g) => NeedsRebuild(g)'
    BY NeedsRebuildKept
  <2> QED BY <1>1, <2>1, <2>2, RowKept DEF CopiesInv, RowCopiesInv
<1>3. ASSUME NEW p \in Indexers, JobResume(p) PROVE JobResume(p)'
  <2> DEFINE g == job[p].file
  <2>1. g \in Files /\ row[g].offset \in Nat /\ Len(data[g]) \in Nat
    BY JobTyped
  <2>2. Len(data'[g]) \in Nat
    BY <2>1, EnvTypeStep, NextDataTyped
  <2>3. row[g].offset > Len(data[g]) => row[g].offset > Len(data'[g])
    BY <2>1, <2>2, EnvKeeps DEF Known
  <2> QED BY <1>1, <1>3, <2>3 DEF JobResume
<1>4. ASSUME NEW p \in Indexers, JobCopies(p) PROVE JobCopies(p)'
  <2>1. Astray(job[p].file) => Astray(job[p].file)'
    BY <1>1, JobTyped, NeedsRebuildKept DEF Astray
  <2> QED BY <1>1, <1>4, <2>1 DEF JobCopies, KeepsStrays, Single, Searchable
<1>5. ASSUME NEW p \in Indexers, JobFound(p) PROVE JobFound(p)'
  BY <1>1, <1>5 DEF JobFound
<1>6. JobCopiesInv'
  BY <1>1, <1>3, <1>4, <1>5 DEF CopiesInv, JobCopiesInv, Searchable
<1> QED BY <1>2, <1>6 DEF CopiesInv, RowCopiesInv

\* An indexer that is not about to write a row is adding to no journal.
LEMMA NotAdding ==
    ASSUME SingleIndexer, NEW p \in Indexers, proc[p].pc # "upsert", NEW f \in Files
    PROVE  ~Adding(f)
BY DEF SingleIndexer, Adding

\* A step before the writes leaves every journal's documents as they are.
LEMMA QuietRows ==
    ASSUME SingleIndexer, RowCopiesInv, NEW p \in Indexers, proc[p].pc # "upsert",
           UNCHANGED <<data, row, stored, torn>>
    PROVE  RowCopiesInv'
<1>1. ASSUME NEW f \in Files PROVE (Astray(f) \/ RowCopies(f))'
  <2>1. ~Adding(f)
    BY NotAdding
  <2>2. NeedsRebuild(f) => NeedsRebuild(f)'
    BY DEF NeedsRebuild
  <2> QED BY <2>1, <2>2, RowKept DEF RowCopiesInv
<1> QED BY <1>1 DEF RowCopiesInv

\* What a job takes from the row.
LEMMA FindResume ==
    ASSUME TypeOK, NEW p \in Indexers, Find(p) PROVE JobResume(p)'
<1> DEFINE j == job[p]
           r == row[j.file]
           mode == Plan(r, j.size, j.mtime)
<1>1. /\ proc'[p].pc = "parse" /\ UNCHANGED row
      /\ job'[p].file = j.file /\ job'[p].mode = mode /\ job'[p].offset = ResumeOffset(mode, r)
  BY FindJob
<1>2. job'[p].prev = IF mode = "append" THEN r.count ELSE 0
  BY <1>1, FindPrev
<1>3. r.offset \in Nat /\ r.count \in Nat
  BY JobTyped
<1>4. mode = "append" => r.offset > 0
  <2> HIDE DEF r
  <2>1. mode = "append" => ~NoOffset(r) /\ ~(r.offset = 0 /\ r.count = 0)
    BY DEF Plan
  <2> QED BY <1>3, <2>1 DEF NoOffset, r
<1> HIDE DEF mode
<1>5. mode = "append" => job'[p].offset = r.offset
  BY <1>1 DEF ResumeOffset
<1> QED BY <1>1, <1>2, <1>4, <1>5 DEF JobResume

\* What it knows after the parse.
LEMMA ParseCopies ==
    ASSUME SingleIndexer, TypeOK, LossInv, CopiesInv, NEW p \in Indexers, Parse(p)
    PROVE  /\ (JobResume(p) /\ JobFound(p))'
           /\ proc'[p].pc = "insert" => job'[p].mode = "append"
           /\ proc'[p].pc = "upsert" => JobCopies(p)'
<1>0. PICK f \in Files : f = job[p].file
  BY JobTyped
<1> DEFINE j == job[p]
           d == data[f]
           r == row[f]
           off == StartOffset(d, j.offset)
           ft == FileType[f]
           type == ParsedType(d, off, j.known, ft)
           txns == TxnEnds(d, off, type, ft)
           k == job'[p].newOffset
<1>1. /\ proc[p].pc = "parse" /\ UNCHANGED <<data, row, stored>>
      /\ proc'[p].pc = IF j.mode = "full" \/ (j.mode = "first" /\ txns # {}) THEN "delete"
                        ELSE IF txns # {} THEN "insert" ELSE "upsert"
      /\ job'[p].file = f /\ job'[p].mode = j.mode
      /\ job'[p].offset = off /\ job'[p].txns = txns
      /\ k \in off..Len(d)
      /\ IsNewOffset(d, off, type, ft, k)
  BY <1>0, ParseJob, Zenon
<1>2. UNCHANGED torn
  BY DEF Parse, dbVars
<1>3. /\ d \in Seq(Token) /\ Len(d) \in Nat /\ j.offset \in Nat /\ r.offset \in Nat
  BY <1>0, JobTyped, DataTyped
<1>4. off \in Nat /\ (j.offset > Len(d) \/ off = j.offset)
  BY <1>3 DEF StartOffset
<1>5. JobResume(p) /\ (FullKept(p) \/ FirstKept(p) \/ AppendKept(p))
  BY <1>1 DEF CopiesInv, JobCopiesInv, LossInv, JobInv, JobRowInv, Planned
<1> HIDE DEF d, off, ft, type, txns, k
<1>6. JobFound(p)'
  <2>1. \A e \in txns : off < e /\ e <= k
    BY <1>1, <1>3, <1>4, TxnsBetween DEF txns
  <2>2. off <= k
    BY <1>1, <1>3, <1>4
  <2> QED BY <1>1, <2>1, <2>2 DEF JobFound, k
<1>7. JobResume(p)'
  <2>1. job'[p].prev = j.prev
    BY ParsePrev
  <2>2. proc'[p].pc # "parse"
    BY <1>1
  <2> QED BY <1>0, <1>1, <1>4, <1>5, <2>1, <2>2 DEF JobResume, d
<1>8. j.mode \in {"full", "first", "append"}
  BY <1>5 DEF FullKept, FirstKept, AppendKept
<1>9. proc'[p].pc = "insert" => j.mode = "append"
  BY <1>1, <1>8
<1>10. ASSUME proc'[p].pc = "upsert" PROVE JobCopies(p)'
  <2>1. txns = {} /\ j.mode \in {"first", "append"}
    BY <1>1, <1>8, <1>10
  <2>2. CASE j.mode = "first"
    <3>1. KeepsStrays(job[p])' \/ Searchable(f)' = {}
      BY <1>1, <2>1, <2>2 DEF KeepsStrays, Searchable
    <3>2. ASSUME Searchable(f)' = {} PROVE Single(f)'
      <4>1. \A e \in Pos : stored[f][e] \in Nat /\ ~(stored[f][e] > 0)
        BY <1>1, <3>2, StoredTyped DEF Searchable
      <4> QED BY <1>1, <4>1 DEF Single
    <3> QED BY <1>1, <2>2, <3>1, <3>2 DEF JobCopies
  <2>3. CASE j.mode = "append"
    <3>1. r.present /\ r.offset > 0 /\ (off = r.offset \/ r.offset > Len(d))
      BY <1>0, <1>1, <1>4, <1>5, <2>3 DEF JobResume, FullKept, FirstKept, AppendKept
    <3>2. Astray(f)' = Astray(f) /\ Searchable(f)' = Searchable(f)
      BY <1>1, <1>2 DEF Astray, NeedsRebuild, Searchable
    <3>3. r.offset > Len(d) => Astray(f)
      BY <3>1 DEF Astray, NeedsRebuild, Shrunk, d
    <3>4. RowCopies(f) => Searchable(f) = Upto(f, r.offset)
      BY <1>1, <3>1, NotAdding DEF RowCopies
    <3>5. Astray(f) \/ \A e \in Searchable(f) : e <= off
      BY <3>1, <3>3, <3>4 DEF CopiesInv, RowCopiesInv, Upto
    <3> QED BY <1>1, <2>3, <3>2, <3>5 DEF JobCopies
  <2> QED BY <2>1, <2>2, <2>3
<1> QED BY <1>1, <1>6, <1>7, <1>9, <1>10

\* While a full or first parse works on a journal, its documents may come and go: the
\* row asks for a rebuild, or counts nothing.
LEMMA Replacing ==
    ASSUME TypeOK, TypeOK', NEW p \in Indexers, FullKept(p) \/ FirstKept(p),
           NEW f \in Files, f = job[p].file, UNCHANGED <<data, row>>, Single(f)'
    PROVE  NeedsRebuild(f)' \/ RowCopies(f)'
<1>1. CASE FullKept(p)
  BY <1>1 DEF FullKept, NeedsRebuild
<1>2. CASE FirstKept(p)
  BY <1>2, ZeroOffset DEF FirstKept
<1> QED BY <1>1, <1>2

\* The other journals of a step that writes to one.
LEMMA OtherRows ==
    ASSUME SingleIndexer, TypeOK, RowCopiesInv, NEW p \in Indexers, UNCHANGED data,
           NEW g \in Files, g # job[p].file,
           row'[g] = row[g], stored'[g] = stored[g], torn'[g] = torn[g]
    PROVE  (Astray(g) \/ RowCopies(g))'
<1>1. ~Adding(g)
  BY DEF SingleIndexer, Adding
<1>2. NeedsRebuild(g) => NeedsRebuild(g)'
  BY DEF NeedsRebuild
<1> QED BY <1>1, <1>2, RowKept DEF RowCopiesInv

\* Deleting leaves nothing.
LEMMA DeleteCopies ==
    ASSUME SingleIndexer, TypeOK, TypeOK', LossInv, CopiesInv, NEW p \in Indexers, Delete(p)
    PROVE  /\ RowCopiesInv'
           /\ job[p].mode # "append"
           /\ proc'[p].pc = "upsert" => JobCopies(p)'
           /\ Searchable(job[p].file)' = {}
<1>0. PICK f \in Files : f = job[p].file
  BY JobTyped
<1>1. /\ UNCHANGED <<data, row, job>> /\ proc[p].pc = "delete"
      /\ stored' = [stored EXCEPT ![f] = [e \in Pos |-> 0]]
      /\ torn' = [torn EXCEPT ![f] = FALSE]
  BY <1>0, StoreJob DEF Delete
<1>2. stored \in [Files -> [Pos -> 0..MaxCopies]] /\ torn \in [Files -> BOOLEAN]
  BY DEF TypeOK
<1>3. \A e \in Pos : stored'[f][e] = 0
  BY <1>1, <1>2
<1>4. Searchable(f)' = {} /\ Single(f)'
  BY <1>3 DEF Searchable, Single
<1>5. FullKept(p) \/ FirstKept(p)
  BY <1>1 DEF LossInv, JobInv, JobRowInv, Planned, Parsed, AppendKept
<1>6. job[p].mode # "append"
  BY <1>5 DEF FullKept, FirstKept
<1>7. NeedsRebuild(f)' \/ RowCopies(f)'
  BY <1>0, <1>1, <1>4, <1>5, Replacing
<1>8. ASSUME NEW g \in Files PROVE (Astray(g) \/ RowCopies(g))'
  <2>1. CASE g = f
    BY <1>7, <2>1 DEF Astray
  <2>2. CASE g # f
    BY <1>0, <1>1, <1>2, <2>2, OtherRows DEF CopiesInv
  <2> QED BY <2>1, <2>2
<1>9. JobCopies(p)'
  BY <1>0, <1>1, <1>4, <1>6 DEF JobCopies
<1>10. Searchable(job[p].file)' = {}
  BY <1>0, <1>1, <1>4
<1> QED BY <1>6, <1>8, <1>9, <1>10 DEF RowCopiesInv

\* What InsertMany adds to a journal that has none of it.
LEMMA InsertedOnce ==
    ASSUME TypeOK, NEW f \in Files, NEW T \in SUBSET Pos, InsertDocs(f, T)
    PROVE  /\ \A g \in Files : g # f => stored'[g] = stored[g]
           /\ Searchable(f)' = Searchable(f) \cup T
           /\ Single(f) /\ Searchable(f) \cap T = {} => Single(f)'
<1>1. stored \in [Files -> [Pos -> 0..MaxCopies]] /\ MaxCopies \in Nat /\ MaxCopies > 1
  BY ConstantsAssumption DEF TypeOK
<1>2. /\ \A g \in Files : g # f => stored'[g] = stored[g]
      /\ \A e \in Pos : stored'[f][e] = IF e \in T THEN Copies(stored[f][e]) ELSE stored[f][e]
  BY <1>1 DEF InsertDocs
<1>3. \A e \in Pos : stored[f][e] \in 0..MaxCopies
  BY <1>1
<1>4. \A n \in 0..MaxCopies : Copies(n) > 0 /\ (n = 0 => Copies(n) = 1)
  BY <1>1 DEF Copies
<1>5. \A e \in Pos : stored'[f][e] > 0 <=> stored[f][e] > 0 \/ e \in T
  BY <1>2, <1>3, <1>4
<1>6. Searchable(f)' = Searchable(f) \cup T
  BY <1>5 DEF Searchable
<1>7. ASSUME Single(f), Searchable(f) \cap T = {}, NEW e \in Pos PROVE stored'[f][e] <= 1
  <2>1. CASE e \in T
    <3>1. stored[f][e] = 0
      BY <1>1, <1>3, <1>7, <2>1 DEF Searchable
    <3> QED BY <1>2, <1>3, <1>4, <2>1, <3>1
  <2>2. CASE e \notin T
    BY <1>2, <1>7, <2>2 DEF Single
  <2> QED BY <2>1, <2>2
<1> QED BY <1>2, <1>6, <1>7 DEF Single

\* An append stores what lies behind the registered offset, a replacement what
\* nothing else is stored beside.
LEMMA InsertCopies ==
    ASSUME SingleIndexer, TypeOK, TypeOK', LossInv, CopiesInv, NEW p \in Indexers, Insert(p)
    PROVE  RowCopiesInv' /\ (proc'[p].pc = "upsert" => JobCopies(p)')
<1>0. PICK f \in Files : f = job[p].file
  BY JobTyped
<1> DEFINE j == job[p]
           r == row[f]
<1>1. /\ UNCHANGED <<data, row, job, torn>> /\ proc[p].pc = "insert" /\ proc'[p].pc = "upsert"
      /\ InsertDocs(f, j.txns)
  <2>1. proc[p].pc = "insert" /\ Goto(p, "upsert") /\ UNCHANGED torn /\ InsertDocs(f, j.txns)
    BY <1>0 DEF Insert
  <2>2. proc'[p].pc = "upsert"
    BY <2>1, TypeParts DEF Goto, ActorType, ProcType
  <2> QED BY <2>1, <2>2, StoreJob
<1>2. /\ j.txns \in SUBSET Pos /\ r.offset \in Nat /\ j.offset \in Nat
      /\ Searchable(f) \in SUBSET Pos
  BY <1>0, JobTyped, StoredTyped
<1>3. /\ \A g \in Files : g # f => stored'[g] = stored[g]
      /\ Searchable(f)' = Searchable(f) \cup j.txns
      /\ Single(f) /\ Searchable(f) \cap j.txns = {} => Single(f)'
  BY <1>1, <1>2, InsertedOnce
<1>4. /\ FullKept(p) \/ FirstKept(p) \/ AppendKept(p)
      /\ JobResume(p) /\ JobFound(p)
      /\ j.mode # "append" => Searchable(f) = {}
  BY <1>0, <1>1 DEF LossInv, JobInv, JobRowInv, CopiesInv, JobCopiesInv, Planned, Parsed
<1>5. Astray(f)' = Astray(f)
  BY <1>1 DEF Astray, NeedsRebuild
<1>6. (Astray(f) \/ RowCopies(f))' /\ JobCopies(p)'
  <2>1. CASE j.mode # "append"
    <3>1. Single(f)
      <4>1. \A e \in Pos : stored[f][e] \in Nat /\ ~(stored[f][e] > 0)
        BY <1>4, <2>1, StoredTyped DEF Searchable
      <4> QED BY <4>1 DEF Single
    <3>2. Single(f)' /\ Searchable(f)' = j.txns
      BY <1>3, <1>4, <2>1, <3>1
    <3>3. FullKept(p) \/ FirstKept(p)
      BY <1>4, <2>1 DEF AppendKept
    <3>4. NeedsRebuild(f)' \/ RowCopies(f)'
      BY <1>0, <1>1, <3>2, <3>3, Replacing
    <3>5. JobCopies(p)'
      BY <1>0, <1>1, <2>1, <3>2 DEF JobCopies
    <3> QED BY <3>4, <3>5 DEF Astray
  <2>2. CASE j.mode = "append" /\ Astray(f)
    BY <1>0, <1>1, <1>5, <2>2 DEF JobCopies
  <2>3. CASE j.mode = "append" /\ ~Astray(f)
    <3>1. RowCopies(f) /\ ~Adding(f)
      BY <1>1, <2>3, NotAdding DEF CopiesInv, RowCopiesInv
    <3>2. r.present /\ r.offset > 0
      BY <1>0, <1>4, <2>3 DEF JobResume, FullKept, FirstKept, AppendKept
    <3>3. j.offset = r.offset
      BY <1>0, <1>4, <2>3, <3>2 DEF JobResume, Astray, NeedsRebuild, Shrunk
    <3>4. \A e \in Searchable(f) : e <= r.offset
      BY <3>1, <3>2 DEF RowCopies, Upto
    <3>5. \A e \in j.txns : e \in Nat /\ ~(e <= r.offset)
      BY <1>2, <1>4, <3>3 DEF JobFound, Pos
    <3>6. Single(f)'
      BY <1>3, <3>1, <3>4, <3>5 DEF RowCopies
    <3>7. Upto(f, r.offset)' = Upto(f, r.offset)
      BY <1>1, <1>3, <3>5 DEF Upto
    <3>8. JobCopies(p)'
      BY <1>0, <1>1, <1>3, <2>3, <3>3, <3>4 DEF JobCopies
    <3>9. CASE j.txns = {}
      BY <1>1, <1>3, <3>1, <3>2, <3>6, <3>7, <3>8, <3>9 DEF RowCopies
    <3>10. CASE j.txns # {}
      <4>1. Adding(f)'
        BY <1>0, <1>1, <2>3, <3>10 DEF Adding
      <4> QED BY <1>1, <3>1, <3>6, <3>7, <3>8, <4>1 DEF RowCopies
    <3> QED BY <3>9, <3>10
  <2> QED BY <2>1, <2>2, <2>3
<1>7. ASSUME NEW g \in Files PROVE (Astray(g) \/ RowCopies(g))'
  <2>1. CASE g # f
    BY <1>0, <1>1, <1>3, <2>1, OtherRows DEF CopiesInv
  <2> QED BY <1>6, <2>1
<1> QED BY <1>1, <1>6, <1>7 DEF RowCopiesInv

\* The row that an append writes counts what was registered and what was added.
LEMMA AppendedRow ==
    ASSUME SingleIndexer, TypeOK, LossInv, CopiesInv, NEW p \in Indexers, proc[p].pc = "upsert",
           NEW f \in Files, f = job[p].file, job[p].mode = "append",
           ~torn[f], job[p].size <= Len(data[f])
    PROVE  /\ Single(f) /\ Searchable(f) = Upto(f, job[p].newOffset)
           /\ job[p].prev + Cardinality(job[p].txns) = Cardinality(Searchable(f))
<1> DEFINE j == job[p]
           r == row[f]
<1>1. /\ FullKept(p) \/ FirstKept(p) \/ AppendKept(p)
      /\ JobResume(p) /\ JobFound(p) /\ JobCopies(p)
      /\ \A e \in j.txns : stored[f][e] > 0
  BY DEF LossInv, JobInv, JobRowInv, JobStoreInv, CopiesInv, JobCopiesInv, Planned, Parsed
<1>2. /\ j.txns \in SUBSET Pos /\ r.offset \in Nat /\ r.size \in Nat /\ j.size \in Nat
      /\ j.offset \in Nat /\ j.newOffset \in Nat /\ Len(data[f]) \in Nat
      /\ Searchable(f) \in SUBSET Pos /\ Upto(f, r.offset) \in SUBSET Pos
  BY JobTyped, StoredTyped
<1>3. /\ r.present /\ ~Upgrade(r) /\ ~NoOffset(r) /\ ~Shrunk(r, j.size)
      /\ r.offset > 0 /\ j.prev = r.count
      /\ j.offset = r.offset \/ r.offset > Len(data[f])
  BY <1>1 DEF FullKept, FirstKept, AppendKept, JobResume
<1>4. ~Shrunk(r, Len(data[f]))
  BY <1>2, <1>3 DEF Shrunk
<1>5. ~Astray(f)
  BY <1>3, <1>4 DEF Astray, NeedsRebuild
<1>6. j.offset = r.offset
  BY <1>3, <1>4 DEF Shrunk
<1>7. RowCopies(f)
  BY <1>5 DEF CopiesInv, RowCopiesInv
<1>8. \A e \in Searchable(f) : e \in j.txns \/ e <= r.offset
  BY <1>1, <1>5, <1>6 DEF JobCopies
<1>9. j.txns \subseteq Searchable(f)
  BY <1>1, <1>2 DEF Searchable
<1>10. Searchable(f) = Upto(f, r.offset) \cup j.txns
  BY <1>8, <1>9 DEF Upto
<1>11. Upto(f, r.offset) \cap j.txns = {}
  <2>1. \A e \in j.txns : e \in Nat /\ ~(e <= r.offset)
    BY <1>1, <1>2, <1>6 DEF JobFound, Pos
  <2> QED BY <2>1 DEF Upto
<1>12. r.count = Cardinality(Upto(f, r.offset))
  BY <1>3, <1>7 DEF RowCopies
<1>13. Cardinality(Searchable(f)) = Cardinality(Upto(f, r.offset)) + Cardinality(j.txns)
  BY <1>2, <1>10, <1>11, CountApart
<1>14. \A e \in Searchable(f) : e <= j.newOffset
  <2>1. \A e \in Searchable(f) : e \in Nat
    BY <1>2 DEF Pos
  <2> QED BY <1>1, <1>2, <1>6, <1>8, <2>1 DEF JobFound
<1> QED BY <1>3, <1>7, <1>12, <1>13, <1>14 DEF RowCopies, Upto

\* So does the one that replaces a journal's documents.
LEMMA ReplacedRow ==
    ASSUME TypeOK, LossInv, CopiesInv, NEW p \in Indexers, proc[p].pc = "upsert",
           NEW f \in Files, f = job[p].file, job[p].mode # "append", ~KeepsStrays(job[p])
    PROVE  /\ Single(f) /\ Searchable(f) = Upto(f, job[p].newOffset)
           /\ job[p].prev + Cardinality(job[p].txns) = Cardinality(Searchable(f))
<1> DEFINE j == job[p]
<1>1. /\ JobResume(p) /\ JobFound(p) /\ JobCopies(p)
      /\ \A e \in j.txns : stored[f][e] > 0
  BY DEF LossInv, JobInv, JobStoreInv, CopiesInv, JobCopiesInv, Planned, Parsed
<1>2. j.txns \in SUBSET Pos
  BY JobTyped
<1>3. j.prev = 0 /\ Single(f) /\ \A e \in Searchable(f) : e \in j.txns
  BY <1>1 DEF JobResume, JobCopies
<1>4. Searchable(f) = j.txns
  BY <1>1, <1>2, <1>3 DEF Searchable
<1>5. \A e \in j.txns : e <= j.newOffset
  BY <1>1 DEF JobFound
<1>6. Cardinality(j.txns) \in Nat
  BY <1>2, CountIsNat
<1>7. 0 + Cardinality(j.txns) = Cardinality(j.txns)
  BY <1>6
<1> QED BY <1>3, <1>4, <1>5, <1>7, Zenon DEF Upto

\* A row that is written vouches for its journal, or history knows it does not.
LEMMA RowWrittenCopies ==
    ASSUME SingleIndexer, TypeOK, LossInv, CopiesInv, NEW p \in Indexers, proc[p].pc = "upsert",
           UNCHANGED data, RowWritten(job[p])
    PROVE  RowCopiesInv'
<1>0. PICK f \in Files : f = job[p].file
  BY JobTyped
<1> DEFINE j == job[p]
<1>1. /\ row' = [row EXCEPT ![f] = NewRow(j)] /\ UNCHANGED stored
      /\ torn' = [torn EXCEPT ![f] = @ \/ KeepsStrays(j)]
  BY <1>0 DEF RowWritten
<1>2. row \in [Files -> Row] /\ torn \in [Files -> BOOLEAN]
  BY DEF TypeOK
<1>3. row'[f] = NewRow(j) /\ torn'[f] = (torn[f] \/ KeepsStrays(j))
  BY <1>1, <1>2
<1>4. /\ NewRow(j).size = j.size /\ NewRow(j).offset = j.newOffset /\ NewRow(j).present
      /\ NewRow(j).count = j.prev + Cardinality(j.txns)
  BY DEF NewRow
<1>5. j.size \in Nat /\ Len(data[f]) \in Nat
  BY <1>0, JobTyped
<1>6. ASSUME ~Astray(f)' PROVE RowCopies(f)'
  <2>1. ~torn[f] /\ ~KeepsStrays(j)
    BY <1>3, <1>6 DEF Astray
  <2>2. j.size <= Len(data[f])
    BY <1>3, <1>4, <1>5, <1>6 DEF Astray, NeedsRebuild, Shrunk
  <2>3. /\ Single(f) /\ Searchable(f) = Upto(f, j.newOffset)
        /\ j.prev + Cardinality(j.txns) = Cardinality(Searchable(f))
    BY <1>0, <2>1, <2>2, AppendedRow, ReplacedRow
  <2>4. Single(f)' /\ Searchable(f)' = Searchable(f)
    BY <1>1, <2>3 DEF Single, Searchable
  <2>5. Upto(f, row[f].offset)' = Searchable(f)
    BY <1>3, <1>4, <2>3, <2>4 DEF Upto
  <2> QED BY <1>3, <1>4, <2>3, <2>4, <2>5 DEF RowCopies
<1>7. ASSUME NEW g \in Files, g # f PROVE (Astray(g) \/ RowCopies(g))'
  BY <1>0, <1>1, <1>2, <1>7, OtherRows DEF CopiesInv
<1> QED BY <1>6, <1>7 DEF RowCopiesInv

\* A call that fails part-way: an append whose row is lost goes down in history, a
\* replacement leaves a row that asks for a rebuild or counts nothing.
LEMMA PartCopies ==
    ASSUME SingleIndexer, TypeOK, TypeOK', LossInv, CopiesInv, NEW p \in Indexers,
           UNCHANGED data, PartOfCall(p)
    PROVE  RowCopiesInv'
<1>0. PICK f \in Files : f = job[p].file
  BY JobTyped
<1> DEFINE j == job[p]
<1>1. torn \in [Files -> BOOLEAN] /\ stored \in [Files -> [Pos -> 0..MaxCopies]]
  BY DEF TypeOK
<1>2. \A g \in Files : NeedsRebuild(g) /\ row'[g] = row[g] => NeedsRebuild(g)'
  BY DEF NeedsRebuild
<1>3. CASE /\ UNCHANGED <<row, stored, oldDocs>>
           /\ torn' = [torn EXCEPT ![f] = @ \/ (proc[p].pc = "upsert" /\ j.mode = "append" /\ j.txns # {})]
  <2>1. ASSUME NEW g \in Files PROVE (Astray(g) \/ RowCopies(g))'
    <3>1. torn[g] => torn'[g]
      BY <1>1, <1>3
    <3>2. ASSUME Adding(g) PROVE torn'[g]
      <4>1. g = f /\ proc[p].pc = "upsert" /\ j.mode = "append" /\ j.txns # {}
        BY <1>0, <3>2 DEF SingleIndexer, Adding
      <4> QED BY <1>1, <1>3, <4>1
    <3> QED BY <1>2, <1>3, <3>1, <3>2, RowKept DEF CopiesInv, RowCopiesInv
  <2> QED BY <2>1 DEF RowCopiesInv
<1>4. CASE /\ proc[p].pc = "delete" /\ UNCHANGED <<row, torn>>
           /\ \E gone \in SUBSET Pos :
                 stored' = [stored EXCEPT ![f] = [e \in Pos |-> IF e \in gone THEN 0 ELSE @[e]]]
  <2>1. FullKept(p) \/ FirstKept(p)
    BY <1>4 DEF LossInv, JobInv, JobRowInv, Planned, Parsed, AppendKept
  <2>2. /\ \A g \in Files : g # f => stored'[g] = stored[g]
        /\ \A e \in Pos : stored'[f][e] = 0 \/ stored'[f][e] = stored[f][e]
    BY <1>1, <1>4
  <2>3. Astray(f) => Astray(f)'
    BY <1>2, <1>4 DEF Astray
  <2>4. ASSUME ~Astray(f) PROVE (Astray(f) \/ RowCopies(f))'
    <3>1. Single(f)
      BY <2>4 DEF CopiesInv, RowCopiesInv, RowCopies
    <3>2. Single(f)'
      BY <2>2, <3>1 DEF Single
    <3> QED BY <1>0, <1>4, <2>1, <3>2, Replacing DEF Astray
  <2>5. ASSUME NEW g \in Files, g # f PROVE (Astray(g) \/ RowCopies(g))'
    BY <1>0, <1>4, <2>2, <2>5, OtherRows DEF CopiesInv
  <2> QED BY <2>3, <2>4, <2>5 DEF RowCopiesInv
<1>5. CASE /\ proc[p].pc = "insert" /\ UNCHANGED <<row, oldDocs>>
           /\ \E last \in j.txns : InsertDocs(f, {e \in j.txns : e <= last})
           /\ torn' = [torn EXCEPT ![f] = @ \/ j.mode = "append"]
  <2>1. PICK last \in j.txns : InsertDocs(f, {e \in j.txns : e <= last})
    BY <1>5
  <2> DEFINE T == {e \in j.txns : e <= last}
  <2>2. T \in SUBSET Pos
    BY JobTyped
  <2>3. /\ \A g \in Files : g # f => stored'[g] = stored[g]
        /\ Single(f) /\ Searchable(f) \cap T = {} => Single(f)'
    BY <2>1, <2>2, InsertedOnce
  <2>4. j.mode = "append" => Astray(f)'
    BY <1>1, <1>5 DEF Astray
  <2>5. ASSUME j.mode # "append" PROVE (Astray(f) \/ RowCopies(f))'
    <3>1. Searchable(f) = {}
      BY <1>0, <1>5, <2>5 DEF CopiesInv, JobCopiesInv
    <3>2. \A e \in Pos : stored[f][e] \in Nat /\ ~(stored[f][e] > 0)
      BY <3>1, StoredTyped DEF Searchable
    <3>3. Single(f)'
      BY <2>3, <3>1, <3>2 DEF Single
    <3>4. FullKept(p) \/ FirstKept(p)
      BY <1>5, <2>5 DEF LossInv, JobInv, JobRowInv, Planned, Parsed, AppendKept
    <3> QED BY <1>0, <1>5, <3>3, <3>4, Replacing DEF Astray
  <2>6. ASSUME NEW g \in Files, g # f PROVE (Astray(g) \/ RowCopies(g))'
    BY <1>0, <1>1, <1>5, <2>3, <2>6, OtherRows DEF CopiesInv
  <2> QED BY <2>4, <2>5, <2>6 DEF RowCopiesInv
<1>6. CASE proc[p].pc = "upsert" /\ RowWritten(j)
  BY <1>6, RowWrittenCopies
<1> QED BY <1>0, <1>3, <1>4, <1>5, <1>6 DEF PartOfCall

\* Every step keeps what the rows vouch for.
LEMMA RowCopiesStep ==
    ASSUME SingleIndexer, TypeOK, TypeOK', LossInv, CopiesInv, [Next]_vars PROVE RowCopiesInv'
<1>1. ASSUME NEW f \in Files, Grow(f) \/ Cut(f) PROVE RowCopiesInv'
  BY <1>1, EnvCopies DEF CopiesInv
<1>2. CASE Midnight \/ UNCHANGED vars
  <2>1. UNCHANGED <<data, row, stored, torn, proc, job>>
    BY <1>2 DEF Midnight, vars, dbVars
  <2> QED BY <2>1 DEF CopiesInv, RowCopiesInv, Astray, NeedsRebuild, RowCopies, Single, Upto, Searchable, Adding
<1>3. ASSUME NEW p \in Indexers, NEW f \in Files,
             \/ StartPass(p) \/ StartFile(p, f) \/ Stat(p, f) \/ EndPass(p)
             \/ Skip(p) \/ Find(p) \/ Parse(p)
      PROVE  RowCopiesInv'
  <2>1. proc[p].pc # "upsert" /\ UNCHANGED <<data, row, stored, torn>>
    BY <1>3 DEF StartPass, StartFile, Stat, EndPass, Skip, Find, Parse, envVars, dbVars
  <2> QED BY <2>1, QuietRows DEF CopiesInv
<1>4. ASSUME NEW p \in Indexers, Delete(p) \/ Insert(p) PROVE RowCopiesInv'
  BY <1>4, DeleteCopies, InsertCopies
<1>5. ASSUME NEW p \in Indexers, Upsert(p) PROVE RowCopiesInv'
  BY <1>5, RowWrittenCopies DEF Upsert, envVars
<1>6. ASSUME NEW p \in Indexers, FailFile(p) \/ Timeout(p) \/ Crash(p) PROVE RowCopiesInv'
  <2>1. /\ UNCHANGED data
        /\ PartOfCall(p) \/ (proc[p].pc \in {"idle", "walk"} /\ UNCHANGED dbVars)
    BY <1>6 DEF FailFile, Timeout, Crash, envVars
  <2>2. CASE PartOfCall(p)
    BY <2>1, <2>2, PartCopies
  <2>3. CASE proc[p].pc \in {"idle", "walk"} /\ UNCHANGED dbVars
    BY <2>1, <2>3, QuietRows DEF CopiesInv, dbVars
  <2> QED BY <2>1, <2>2, <2>3
<1>7. Files # {}
  BY ConstantsAssumption
<1> QED BY <1>1, <1>2, <1>3, <1>4, <1>5, <1>6, <1>7 DEF Next, Walk, IndexOne

\* And what the indexer knows.
LEMMA JobCopiesStep ==
    ASSUME SingleIndexer, TypeOK, TypeOK', LossInv, CopiesInv, [Next]_vars PROVE JobCopiesInv'
<1> DEFINE Holds(p) ==
       /\ proc'[p].pc \in Planned => JobResume(p)'
       /\ proc'[p].pc \in Parsed => JobFound(p)'
       /\ proc'[p].pc = "insert" /\ job'[p].mode # "append" => (Searchable(job[p].file) = {})'
       /\ proc'[p].pc = "upsert" => JobCopies(p)'
<1>1. ASSUME NEW p \in Indexers, Holds(p) PROVE JobCopiesInv'
  <2>1. \A q \in Indexers : q = p
    BY DEF SingleIndexer
  <2> QED BY <1>1, <2>1 DEF JobCopiesInv
<1>2. ASSUME NEW p \in Indexers, Leaves(p) \/ \E f \in Files : Stat(p, f) PROVE Holds(p)
  <2>1. proc'[p].pc \in {"idle", "walk", "find"}
    BY <1>2, StatJob DEF Leaves
  <2> QED BY <2>1 DEF Planned, Parsed
<1>3. ASSUME NEW p \in Indexers, Find(p) PROVE Holds(p)
  <2>1. proc'[p].pc = "parse"
    BY <1>3, FindJob
  <2> QED BY <1>3, <2>1, FindResume DEF Parsed
<1>4. ASSUME NEW p \in Indexers, Parse(p) PROVE Holds(p)
  BY <1>4, ParseCopies
<1>5. ASSUME NEW p \in Indexers, Delete(p) \/ Insert(p) PROVE Holds(p)
  <2>1. /\ UNCHANGED <<data, row, job>>
        /\ proc[p].pc \in Parsed /\ proc[p].pc # "parse" /\ proc'[p].pc # "parse"
        /\ Insert(p) => proc'[p].pc # "insert"
    <3>1. Insert(p) => proc'[p].pc = "upsert"
      BY TypeParts DEF Insert, Goto, ActorType, ProcType
    <3> QED BY <1>5, <3>1, StoreJob DEF Parsed
  <2>2. JobResume(p) /\ JobFound(p)
    BY <2>1 DEF CopiesInv, JobCopiesInv, Planned
  <2>3. JobResume(p)' /\ JobFound(p)'
    BY <2>1, <2>2 DEF JobResume, JobFound
  <2>4. CASE Delete(p)
    BY <2>1, <2>3, <2>4, DeleteCopies
  <2>5. CASE Insert(p)
    BY <2>1, <2>3, <2>5, InsertCopies
  <2> QED BY <1>5, <2>4, <2>5
<1>6. ASSUME NEW f \in Files, Grow(f) \/ Cut(f) PROVE JobCopiesInv'
  BY <1>6, EnvCopies DEF CopiesInv
<1>7. CASE Midnight \/ UNCHANGED vars
  <2>1. UNCHANGED <<data, row, stored, torn, proc, job>>
    BY <1>7 DEF Midnight, vars, dbVars
  <2> QED BY <2>1 DEF CopiesInv, JobCopiesInv, JobResume, JobFound, JobCopies, KeepsStrays,
                      Astray, NeedsRebuild, Single, Searchable
<1> HIDE DEF Holds
<1>8. ASSUME NEW p \in Indexers,
             \/ Walk(p) \/ (\E f \in Files : StartFile(p, f))
             \/ FailFile(p) \/ Timeout(p) \/ Crash(p)
      PROVE  JobCopiesInv'
  <2>1. Holds(p)
    <3>1. proc \in [Indexers -> ProcType]
      BY TypeParts DEF ActorType
    <3>2. ASSUME \/ StartPass(p) \/ EndPass(p) \/ (\E f \in Files : StartFile(p, f)) \/ Skip(p)
                 \/ Upsert(p) \/ FailFile(p) \/ Timeout(p) \/ Crash(p)
          PROVE  Leaves(p)
      BY <3>1, <3>2 DEF StartPass, EndPass, StartFile, Skip, Upsert, FailFile, Timeout, Crash, Done,
                        Booting, Leaves, ProcType
    <3> QED BY <1>2, <1>3, <1>4, <1>5, <1>8, <3>2 DEF Walk, IndexOne
  <2> QED BY <1>1, <2>1
<1> QED BY <1>6, <1>7, <1>8 DEF Next

\* The invariant of both theorems, with what they take from EJResumeProofs.
CopiesIInv == TypeOK /\ BoundaryInv /\ LossInv /\ CopiesInv

LEMMA CopiesInvariant == ASSUME SingleIndexer PROVE Spec => []CopiesIInv
<1>1. Init => CopiesIInv
  BY InitType, InitBoundary, InitLoss, InitCopies DEF CopiesIInv
<1>2. CopiesIInv /\ [Next]_vars => CopiesIInv'
  <2> SUFFICES ASSUME CopiesIInv, [Next]_vars PROVE CopiesIInv'
    OBVIOUS
  <2>1. TypeOK /\ BoundaryInv /\ LossInv /\ CopiesInv
    BY DEF CopiesIInv
  <2>2. TypeOK'
    BY <2>1, NextType
  <2>3. BoundaryInv' /\ LossInv'
    BY <2>1, RowBoundaryStep, JobBoundaryStep, NoLossStep DEF BoundaryInv
  <2>4. CopiesInv'
    BY <2>1, <2>2, RowCopiesStep, JobCopiesStep DEF CopiesInv
  <2> QED BY <2>2, <2>3, <2>4 DEF CopiesIInv
<1> QED BY <1>1, <1>2, PTL DEF Spec

\* With one indexer, whatever the journals' writers, failed calls, timeouts and
\* crashes do: a transaction is stored twice only when a row write was lost, or
\* while the row asks for the rebuild that removes the copy.
THEOREM StoredOnce == ASSUME SingleIndexer PROVE Spec => []DuplicatesOnlyWhenTorn
<1>1. CopiesIInv => DuplicatesOnlyWhenTorn
  <2> SUFFICES ASSUME CopiesIInv, NEW f \in Files, NEW e \in Pos, stored[f][e] > 1
               PROVE  torn[f] \/ NeedsRebuild(f)
    BY DEF DuplicatesOnlyWhenTorn
  <2>1. stored[f][e] \in Nat
    BY StoredTyped DEF CopiesIInv
  <2>2. ~Single(f)
    BY <2>1 DEF Single
  <2> QED BY <2>2 DEF CopiesIInv, CopiesInv, RowCopiesInv, RowCopies, Astray
<1> QED BY <1>1, CopiesInvariant, PTL

\* With one indexer, a row that neither asks for a rebuild nor lost a write registers
\* as many transactions as are stored before its offset.
THEOREM CountedOnce == ASSUME SingleIndexer PROVE Spec => []CountMatches
<1>1. CopiesIInv => CountMatches
  BY DEF CopiesIInv, CopiesInv, RowCopiesInv, RowCopies, Astray, Upto, CountMatches
<1> QED BY <1>1, CopiesInvariant, PTL
=============================================================================
