--------------------------- MODULE EJIndexerTypes ----------------------------
(***************************************************************************)
(* The types of EJIndexer, for every set of journals, every length and any *)
(* number of indexers, faults and truncations, what its steps change, and  *)
(* the rows of the current schema.                                         *)
(***************************************************************************)
EXTENDS EJIndexer, FiniteSetTheorems, TLAPS

-----------------------------------------------------------------------------
(***************************************************************************)
(* Types.                                                                  *)
(***************************************************************************)
JobType == [file : Files, size : Nat, mtime : Nat, mode : Modes, offset : Nat,
            known : AtmType \cup {""}, lines : Nat, prev : Nat, txns : SUBSET Pos,
            newOffset : Nat, newLines : Nat, type : AtmType \cup {""}]

\* Only finitely many positions, so every set of transactions has a size.
LEMMA CountIsNat ==
    ASSUME NEW T \in SUBSET Pos PROVE Cardinality(T) \in Nat
<1>1. IsFiniteSet(Pos)
  BY ConstantsAssumption, FS_Interval DEF Pos
<1>2. IsFiniteSet(T)
  BY <1>1, FS_Subset
<1> QED BY <1>2, FS_CardinalityType

\* Times are natural numbers, also once BSON has dropped their finer part.
LEMMA BsonTimeIsNat ==
    ASSUME NEW t \in Nat PROVE BsonTime(t) \in Nat
<1>1. t \div TicksPerMs \in Nat
  BY ConstantsAssumption
<1> QED BY <1>1, ConstantsAssumption DEF BsonTime

\* The pass counter of a watcher stays in its range.
LEMMA PassesOK ==
    ASSUME NEW n \in Passes PROVE NextPass(n) \in Passes
<1>1. CASE n < 0
  BY <1>1, ConstantsAssumption DEF Passes, NextPass
<1>2. CASE ~(n < 0)
  <2>1. n + 1 \in Nat
    BY <1>2, ConstantsAssumption DEF Passes
  <2>2. (n + 1) % FullEvery \in 0..(FullEvery - 1)
    BY <2>1, ConstantsAssumption
  <2> QED BY <1>2, <2>2 DEF Passes, NextPass
<1> QED BY <1>1, <1>2

\* The job of an idle indexer is one.
LEMMA NoJobOK == NoJob \in JobType
<1>1. (CHOOSE f \in Files : TRUE) \in Files
  BY ConstantsAssumption
<1> QED BY <1>1 DEF NoJob, Job, JobType, Modes

\* An indexer registers rows.
LEMMA NewRowOK ==
    ASSUME NEW j \in JobType PROVE NewRow(j) \in Row
<1>1. Cardinality(j.txns) \in Nat
  BY CountIsNat DEF JobType
<1>2. BsonTime(j.mtime) \in Nat
  BY BsonTimeIsNat DEF JobType
<1>3. /\ j.size \in Nat /\ j.newOffset \in Nat /\ j.newLines \in Nat
      /\ j.type \in AtmType \cup {""} /\ j.prev \in Nat
  BY DEF JobType
<1>4. Schema \in Nat
  BY ConstantsAssumption
<1>5. j.prev + Cardinality(j.txns) \in Nat
  <2>1. \A a, b \in Nat : a + b \in Nat
    OBVIOUS
  <2> QED BY <1>1, <1>3, <2>1, Zenon
<1> QED BY <1>2, <1>3, <1>4, <1>5 DEF NewRow, Row

\* The transactions of an older release lie in their journal.
LEMMA LegacyTxnsOK ==
    ASSUME NEW f \in Files, Len(data[f]) <= MaxLen, data[f] \in Seq(Token)
    PROVE  LegacyTxns(f) \in SUBSET Pos
BY ConstantsAssumption DEF LegacyTxns, TxnEnds, Pos

\* The initial states have their types.
LEMMA InitType == Init => TypeOK
<1> SUFFICES ASSUME Init PROVE TypeOK
  OBVIOUS
<1>1. \A f \in Files : data[f] \in Seq(Token) /\ Len(data[f]) <= MaxLen
  BY ConstantsAssumption DEF Init
<1>2. data \in [Files -> Seq(Token)]
  BY <1>1 DEF Init
<1>3. \A f \in Files : LegacyTxns(f) \in SUBSET Pos
  BY <1>1, LegacyTxnsOK
<1>4. \A f \in Files : Cardinality(LegacyTxns(f)) \in Nat
  BY <1>3, CountIsNat
<1>5. NoRow \in Row
  BY DEF NoRow, Row
<1>6. \A f \in Files, s \in LegacySchemas, k \in 0..MaxLen :
        LegacyRow(f, data[f], s, k, Cardinality(LegacyTxns(f))) \in Row
  <2> TAKE f \in Files, s \in LegacySchemas, k \in 0..MaxLen
  <2> DEFINE n == Cardinality(LegacyTxns(f))
  <2>1. n \in Nat
    BY <1>4
  <2>2. Len(data[f]) \in Nat
    BY <1>1
  <2>3. k \in Nat /\ s \in Nat
    BY ConstantsAssumption
  <2>4. FileType[f] \in AtmType \cup {""}
    BY ConstantsAssumption
  <2> HIDE DEF n
  <2>5. LegacyRow(f, data[f], s, k, n) \in Row
    BY <2>1, <2>2, <2>3, <2>4 DEF LegacyRow, Row
  <2> QED BY <2>5 DEF n
<1>7. row \in [Files -> Row]
  BY <1>5, <1>6 DEF Init
<1>8. oldDocs \in [Files -> SUBSET Pos]
  BY <1>3 DEF Init
<1>9. stored \in [Files -> [Pos -> 0..MaxCopies]]
  BY ConstantsAssumption DEF Init
<1>10. proc \in [Indexers -> [pc : Steps, pass : Passes, todo : SUBSET Files, expired : BOOLEAN]]
  BY ConstantsAssumption DEF Init, Booting, Steps, Passes
<1>11. job \in [Indexers -> JobType]
  BY NoJobOK DEF Init
<1>12. /\ today \in 0..MaxDay /\ faults \in 0..MaxFaults /\ cuts \in 0..MaxCuts
       /\ mtime \in [Files -> Nat] /\ torn \in [Files -> BOOLEAN]
  BY ConstantsAssumption DEF Init
<1> QED BY <1>1, <1>2, <1>7, <1>8, <1>9, <1>10, <1>11, <1>12 DEF TypeOK, JobType

ProcType == [pc : Steps, pass : Passes, todo : SUBSET Files, expired : BOOLEAN]

\* What every step of the database leaves typed.
DbType == /\ row \in [Files -> Row]
          /\ stored \in [Files -> [Pos -> 0..MaxCopies]]
          /\ oldDocs \in [Files -> SUBSET Pos]
          /\ torn \in [Files -> BOOLEAN]

EnvType == /\ today \in 0..MaxDay
           /\ data \in [Files -> Seq(Token)] /\ \A f \in Files : Len(data[f]) <= MaxLen
           /\ mtime \in [Files -> Nat]
           /\ cuts \in 0..MaxCuts

ActorType == /\ proc \in [Indexers -> ProcType]
             /\ job \in [Indexers -> JobType]
             /\ faults \in 0..MaxFaults

\* The type invariant in three parts: environment, database, indexers.
LEMMA TypeParts == TypeOK <=> EnvType /\ DbType /\ ActorType
BY DEF TypeOK, EnvType, DbType, ActorType, ProcType, JobType

\* The environment keeps the types.
LEMMA EnvTypeStep ==
    ASSUME TypeOK, NEW f \in Files, Grow(f) \/ Cut(f) \/ Midnight PROVE TypeOK'
<1> USE ConstantsAssumption
<1>1. EnvType /\ DbType /\ ActorType
  BY TypeParts
<1>2. CASE Grow(f)
  <2>1. PICK t \in Lines : data' = [data EXCEPT ![f] = Append(@, t)]
    BY <1>2 DEF Grow
  <2>2. t \in Token /\ data[f] \in Seq(Token) /\ Len(data[f]) < MaxLen
    BY <1>1, <1>2 DEF Grow, EnvType
  <2>3. Append(data[f], t) \in Seq(Token) /\ Len(Append(data[f], t)) <= MaxLen
    BY <2>2
  <2>4. EnvType'
    BY <1>1, <1>2, <2>1, <2>3 DEF EnvType, Grow
  <2> QED BY <1>1, <1>2, <2>4 DEF Grow, DbType, ActorType, dbVars, TypeOK, EnvType, ProcType, JobType
<1>3. CASE Cut(f)
  <2>1. PICK n \in 0..(Len(data[f]) - 1) : data' = [data EXCEPT ![f] = SubSeq(@, 1, n)]
    BY <1>3 DEF Cut
  <2>2. data[f] \in Seq(Token) /\ Len(data[f]) <= MaxLen
    BY <1>1 DEF EnvType
  <2>3. SubSeq(data[f], 1, n) \in Seq(Token) /\ Len(SubSeq(data[f], 1, n)) <= MaxLen
    BY <2>1, <2>2
  <2>4. EnvType'
    BY <1>1, <1>3, <2>1, <2>3 DEF EnvType, Cut
  <2> QED BY <1>1, <1>3, <2>4 DEF Cut, DbType, ActorType, dbVars, TypeOK, EnvType, ProcType, JobType
<1>4. CASE Midnight
  <2>1. EnvType'
    BY <1>1, <1>4 DEF EnvType, Midnight
  <2> QED BY <1>1, <1>4, <2>1 DEF Midnight, DbType, ActorType, dbVars, TypeOK, EnvType, ProcType, JobType
<1> QED BY <1>2, <1>3, <1>4

\* A step of one indexer types the database when it leaves the files alone.
LEMMA TypeFromParts ==
    ASSUME TypeOK, UNCHANGED envVars, DbType', ActorType' PROVE TypeOK'
<1>1. EnvType
  BY TypeParts
<1>2. EnvType'
  BY <1>1 DEF EnvType, envVars
<1> QED BY <1>2 DEF TypeOK, EnvType, DbType, ActorType, ProcType, JobType

\* What does not touch the database keeps its types.
LEMMA DbTypeKept == ASSUME TypeOK, UNCHANGED dbVars PROVE DbType'
BY TypeParts DEF DbType, dbVars

\* InsertMany counts copies up to MaxCopies.
LEMMA InsertDocsType ==
    ASSUME TypeOK, NEW f \in Files, NEW txns, InsertDocs(f, txns)
    PROVE  stored' \in [Files -> [Pos -> 0..MaxCopies]]
<1>1. stored \in [Files -> [Pos -> 0..MaxCopies]]
  BY DEF TypeOK
<1>2. \A n \in 0..MaxCopies : Copies(n) \in 0..MaxCopies
  BY ConstantsAssumption DEF Copies
<1>3. [e \in Pos |-> IF e \in txns THEN Copies(stored[f][e]) ELSE stored[f][e]]
        \in [Pos -> 0..MaxCopies]
  BY <1>1, <1>2
<1> QED BY <1>1, <1>3 DEF InsertDocs

\* A failed call leaves typed rows and documents.
LEMMA PartOfCallType ==
    ASSUME TypeOK, NEW p \in Indexers, PartOfCall(p) PROVE DbType'
<1> DEFINE j == job[p]
<1>1. j \in JobType /\ j.file \in Files
  BY DEF TypeOK, JobType
<1>2. DbType
  BY TypeParts
<1>3. NewRow(j) \in Row
  BY <1>1, NewRowOK
<1>4. CASE UNCHANGED <<row, stored, oldDocs>> /\ \E b \in BOOLEAN : torn' = [torn EXCEPT ![j.file] = b]
  BY <1>1, <1>2, <1>4 DEF DbType
<1>5. CASE /\ \E gone \in SUBSET Pos :
                /\ stored' = [stored EXCEPT ![j.file] = [e \in Pos |-> IF e \in gone THEN 0 ELSE @[e]]]
                /\ oldDocs' = [oldDocs EXCEPT ![j.file] = @ \ gone]
           /\ UNCHANGED <<row, torn>>
  BY <1>1, <1>2, <1>5, ConstantsAssumption DEF DbType
<1>6. CASE /\ \E last \in j.txns : InsertDocs(j.file, {e \in j.txns : e <= last})
           /\ \E b \in BOOLEAN : torn' = [torn EXCEPT ![j.file] = b]
           /\ UNCHANGED <<row, oldDocs>>
  BY <1>1, <1>2, <1>6, InsertDocsType DEF DbType
<1>7. CASE RowWritten(j)
  BY <1>1, <1>2, <1>3, <1>7 DEF RowWritten, KeepsStrays, DbType
<1>8. \A x, y : (x \/ y) \in BOOLEAN
  OBVIOUS
<1> QED BY <1>4, <1>5, <1>6, <1>7, <1>8 DEF PartOfCall

\* The walk keeps the types.
LEMMA WalkType ==
    ASSUME TypeOK, NEW p \in Indexers,
           StartPass(p) \/ EndPass(p) \/ \E f \in Files : StartFile(p, f) \/ Stat(p, f)
    PROVE  TypeOK'
<1>1. ActorType /\ EnvType
  BY TypeParts
<1>2. proc[p] \in ProcType
  BY <1>1 DEF ActorType
<1>3. CASE StartPass(p)
  BY <1>1, <1>2, <1>3, DbTypeKept, TypeFromParts DEF StartPass, ActorType, ProcType, Steps
<1>4. CASE EndPass(p)
  <2>1. (IF p \in Watchers THEN NextPass(proc[p].pass) ELSE -2) \in Passes
    <3>1. -2 \in Passes
      BY ConstantsAssumption DEF Passes
    <3>2. NextPass(proc[p].pass) \in Passes
      BY <1>2, PassesOK DEF ProcType
    <3> QED BY <3>1, <3>2
  <2>2. proc' \in [Indexers -> ProcType]
    BY <1>1, <1>4, <2>1 DEF EndPass, ActorType, ProcType, Steps
  <2> QED BY <1>1, <1>4, <2>2, DbTypeKept, TypeFromParts DEF EndPass, ActorType
<1>5. ASSUME NEW f \in Files, StartFile(p, f) PROVE TypeOK'
  BY <1>1, <1>2, <1>5, DbTypeKept, TypeFromParts DEF StartFile, ActorType, ProcType, Steps
<1>6. ASSUME NEW f \in Files, Stat(p, f) PROVE TypeOK'
  <2>1. Len(data[f]) \in Nat /\ mtime[f] \in Nat
    BY <1>1 DEF EnvType
  <2>2. Job(f, Len(data[f]), mtime[f], "none", 0, "", 0, 0, {}, 0, 0, "") \in JobType
    BY <2>1 DEF Job, JobType, Modes
  <2>3. job' \in [Indexers -> JobType]
    BY <1>1, <1>6, <2>2 DEF Stat, ActorType
  <2>4. proc' \in [Indexers -> ProcType]
    BY <1>1, <1>2, <1>6 DEF Stat, ActorType, ProcType, Steps
  <2> QED BY <1>1, <1>6, <2>3, <2>4, DbTypeKept, TypeFromParts DEF Stat, ActorType
<1> QED BY <1>3, <1>4, <1>5, <1>6

\* What a call leaves behind in its own process.
LEMMA DoneType ==
    ASSUME TypeOK, NEW p \in Indexers, Done(p), faults' \in 0..MaxFaults PROVE ActorType'
<1>1. ActorType
  BY TypeParts
<1> QED BY <1>1, NoJobOK DEF Done, ActorType, ProcType, Steps

\* Moving on keeps the types.
LEMMA GotoType ==
    ASSUME TypeOK, NEW p \in Indexers, NEW pc \in Steps, Goto(p, pc)
    PROVE  proc' \in [Indexers -> ProcType]
<1>1. ActorType
  BY TypeParts
<1> QED BY <1>1 DEF Goto, ActorType, ProcType

\* Parsing starts inside the journal.
LEMMA ParseOffsets ==
    ASSUME NEW d \in Seq(Token), NEW off \in Nat PROVE StartOffset(d, off) \in 0..Len(d)
BY DEF StartOffset

\* Parsing keeps the types.
LEMMA ParseType == ASSUME TypeOK, NEW p \in Indexers, Parse(p) PROVE TypeOK'
<1> DEFINE j == job[p]
           d == data[j.file]
           ft == FileType[j.file]
           off == StartOffset(d, j.offset)
           type == ParsedType(d, off, j.known, ft)
           txns == TxnEnds(d, off, type, ft)
<1>1. ActorType /\ EnvType
  BY TypeParts
<1>2. j \in JobType
  BY <1>1 DEF ActorType
<1>3. d \in Seq(Token) /\ Len(d) <= MaxLen /\ ft \in AtmType
  BY <1>1, <1>2, ConstantsAssumption DEF EnvType, JobType
<1>4. off \in 0..Len(d)
  BY <1>2, <1>3, ParseOffsets DEF JobType
<1>5. type \in AtmType \cup {""}
  BY <1>2, <1>3 DEF ParsedType, DetectAtmType, JobType, AtmType
<1>6. txns \in SUBSET Pos
  BY <1>3, ConstantsAssumption DEF TxnEnds, Pos
<1>7. PICK k \in off..Len(d) :
        job' = [job EXCEPT ![p].offset = off, ![p].txns = txns, ![p].type = type,
                  ![p].newOffset = k,
                  ![p].newLines = (IF off = j.offset THEN j.lines ELSE 0) + (k - off)]
  BY DEF Parse
<1>8. /\ k \in Nat /\ off \in Nat
      /\ (IF off = j.offset THEN j.lines ELSE 0) + (k - off) \in Nat
  <2>1. (IF off = j.offset THEN j.lines ELSE 0) \in Nat
    BY <1>2 DEF JobType
  <2>2. k \in Nat /\ off \in Nat /\ k - off \in Nat
    BY <1>3, <1>4
  <2> QED BY <2>1, <2>2
<1> HIDE DEF off, type, txns, j
<1>9. job' \in [Indexers -> JobType]
  <2>1. job \in [Indexers -> JobType]
    BY <1>1 DEF ActorType
  <2> DEFINE n == (IF off = j.offset THEN j.lines ELSE 0) + (k - off)
  <2> HIDE DEF n
  <2>2. n \in Nat
    BY <1>8 DEF n
  <2>3. [j EXCEPT !.offset = off, !.txns = txns, !.type = type, !.newOffset = k, !.newLines = n] \in JobType
    BY <1>2, <1>5, <1>6, <1>8, <2>2 DEF JobType
  <2>4. job' = [job EXCEPT ![p] =
          [j EXCEPT !.offset = off, !.txns = txns, !.type = type, !.newOffset = k, !.newLines = n]]
    BY <1>7, <2>1 DEF n, j, JobType
  <2> QED BY <2>1, <2>3, <2>4
<1>10. proc' \in [Indexers -> ProcType]
  BY GotoType DEF Parse, Steps
<1> QED BY <1>1, <1>9, <1>10, DbTypeKept, TypeFromParts DEF Parse, ActorType

\* So does every step of indexOne.
LEMMA IndexOneType == ASSUME TypeOK, NEW p \in Indexers, IndexOne(p) PROVE TypeOK'
<1> DEFINE j == job[p]
<1>1. ActorType /\ EnvType /\ DbType
  BY TypeParts
<1>2. j \in JobType /\ j.file \in Files /\ row[j.file] \in Row
  BY <1>1 DEF ActorType, JobType, DbType
<1>3. CASE Skip(p)
  BY <1>1, <1>3, DbTypeKept, DoneType, TypeFromParts DEF Skip, ActorType
<1>4. CASE Find(p)
  <2> DEFINE r == row[j.file]
             mode == Plan(r, j.size, j.mtime)
  <2>1. mode \in Modes
    BY <1>4 DEF Find, Plan, Modes
  <2>2. ResumeOffset(mode, r) \in Nat
    BY <1>2 DEF ResumeOffset, Row
  <2>3. r.type \in AtmType \cup {""} /\ r.lines \in Nat /\ r.count \in Nat
    BY <1>2 DEF Row
  <2>4. job' = [job EXCEPT ![p].mode = mode, ![p].offset = ResumeOffset(mode, r),
              ![p].known = IF mode = "full" THEN "" ELSE r.type,
              ![p].lines = IF mode = "append" THEN r.lines ELSE 0,
              ![p].prev = IF mode = "append" THEN r.count ELSE 0]
    BY <1>4 DEF Find
  <2> HIDE DEF mode, r
  <2>5. job' \in [Indexers -> JobType]
    <3> DEFINE off == ResumeOffset(mode, r)
               known == IF mode = "full" THEN "" ELSE r.type
               lines == IF mode = "append" THEN r.lines ELSE 0
               prev == IF mode = "append" THEN r.count ELSE 0
    <3>1. known \in AtmType \cup {""} /\ lines \in Nat /\ prev \in Nat
      BY <2>3
    <3> HIDE DEF off, known, lines, prev
    <3>2. [j EXCEPT !.mode = mode, !.offset = off, !.known = known, !.lines = lines, !.prev = prev] \in JobType
      BY <1>2, <2>1, <2>2, <3>1 DEF JobType, off
    <3>3. job' = [job EXCEPT ![p] =
            [j EXCEPT !.mode = mode, !.offset = off, !.known = known, !.lines = lines, !.prev = prev]]
      BY <1>1, <2>4 DEF off, known, lines, prev, ActorType, JobType
    <3> QED BY <1>1, <3>2, <3>3 DEF ActorType
  <2>6. proc' \in [Indexers -> ProcType]
    BY <1>4, GotoType DEF Find, Steps
  <2> QED BY <1>1, <1>4, <2>5, <2>6, DbTypeKept, TypeFromParts DEF Find, ActorType
<1>5. CASE Parse(p)
  BY <1>5, ParseType
<1>6. CASE Delete(p)
  <2>1. proc' \in [Indexers -> ProcType]
    BY <1>6, GotoType DEF Delete, Steps
  <2>2. DbType'
    BY <1>1, <1>2, <1>6, ConstantsAssumption DEF Delete, DbType
  <2> QED BY <1>1, <1>6, <2>1, <2>2, TypeFromParts DEF Delete, ActorType
<1>7. CASE Insert(p)
  <2>1. proc' \in [Indexers -> ProcType]
    BY <1>7, GotoType DEF Insert, Steps
  <2>2. DbType'
    BY <1>1, <1>2, <1>7, InsertDocsType DEF Insert, DbType
  <2> QED BY <1>1, <1>7, <2>1, <2>2, TypeFromParts DEF Insert, ActorType
<1>8. CASE Upsert(p)
  <2>1. NewRow(j) \in Row
    BY <1>2, NewRowOK
  <2>2. DbType'
    BY <1>1, <1>2, <1>8, <2>1 DEF Upsert, RowWritten, KeepsStrays, DbType
  <2>3. ActorType'
    BY <1>1, <1>8, DoneType DEF Upsert, ActorType
  <2> QED BY <1>8, <2>2, <2>3, TypeFromParts DEF Upsert
<1> QED BY <1>3, <1>4, <1>5, <1>6, <1>7, <1>8 DEF IndexOne

\* So do faults.
LEMMA FaultType ==
    ASSUME TypeOK, NEW p \in Indexers, FailFile(p) \/ Timeout(p) \/ Crash(p) PROVE TypeOK'
<1>1. ActorType /\ DbType
  BY TypeParts
<1>2. UNCHANGED envVars /\ faults' \in 0..MaxFaults
  <2>1. faults < MaxFaults /\ faults' = faults + 1 /\ UNCHANGED envVars
    BY DEF FailFile, Timeout, Crash
  <2> QED BY <1>1, <2>1, ConstantsAssumption DEF ActorType
<1>3. DbType'
  <2>1. PartOfCall(p) \/ UNCHANGED dbVars
    BY DEF FailFile, Timeout, Crash
  <2> QED BY <2>1, DbTypeKept, PartOfCallType
<1>4. ActorType'
  <2>1. CASE FailFile(p)
    BY <1>2, <2>1, DoneType DEF FailFile
  <2>2. CASE Timeout(p)
    BY <1>1, <1>2, <2>2, NoJobOK DEF Timeout, ActorType, ProcType, Steps
  <2>3. CASE Crash(p)
    <3>1. Booting \in ProcType
      BY ConstantsAssumption DEF Booting, ProcType, Steps, Passes
    <3> QED BY <1>1, <1>2, <2>3, <3>1, NoJobOK DEF Crash, ActorType
  <2> QED BY <2>1, <2>2, <2>3
<1> QED BY <1>2, <1>3, <1>4, TypeFromParts

\* The type invariant is inductive.
LEMMA NextType == TypeOK /\ [Next]_vars => TypeOK'
<1> SUFFICES ASSUME TypeOK, [Next]_vars PROVE TypeOK'
  OBVIOUS
<1>1. ASSUME NEW f \in Files, Grow(f) \/ Cut(f) PROVE TypeOK'
  BY <1>1, EnvTypeStep
<1>2. CASE Midnight
  <2>1. PICK f \in Files : TRUE
    BY ConstantsAssumption
  <2> QED BY <1>2, <2>1, EnvTypeStep
<1>3. ASSUME NEW p \in Indexers, Walk(p) PROVE TypeOK'
  BY <1>3, WalkType, IndexOneType DEF Walk
<1>4. ASSUME NEW p \in Indexers, NEW f \in Files, StartFile(p, f) PROVE TypeOK'
  BY <1>4, WalkType
<1>5. ASSUME NEW p \in Indexers, FailFile(p) \/ Timeout(p) \/ Crash(p) PROVE TypeOK'
  BY <1>5, FaultType
<1>6. CASE UNCHANGED vars
  BY <1>6 DEF vars, TypeOK
<1> QED BY <1>1, <1>2, <1>3, <1>4, <1>5, <1>6 DEF Next

\* Every variable keeps its type, whatever happens: the bounds of MaxLen,
\* MaxFaults, MaxCuts and MaxCopies hold, and offsets and counts stay natural.
THEOREM TypeCorrect == Spec => []TypeOK
<1>1. Init => TypeOK
  BY InitType
<1>2. TypeOK /\ [Next]_vars => TypeOK'
  BY NextType
<1> QED BY <1>1, <1>2, PTL DEF Spec

-----------------------------------------------------------------------------
(***************************************************************************)
(* The steps, by what they change.                                         *)
(***************************************************************************)
\* The steps that touch the two collections.
LEMMA DbSteps ==
    ASSUME [Next]_vars
    PROVE  \/ UNCHANGED dbVars
           \/ \E p \in Indexers :
                 UNCHANGED data /\ (Delete(p) \/ Insert(p) \/ Upsert(p) \/ PartOfCall(p))
<1>1. ASSUME NEW f \in Files, Grow(f) \/ Cut(f) PROVE UNCHANGED dbVars
  BY <1>1 DEF Grow, Cut, dbVars
<1>2. CASE Midnight
  BY <1>2 DEF Midnight, dbVars
<1>3. ASSUME NEW p \in Indexers, NEW f \in Files, StartFile(p, f) \/ Stat(p, f) PROVE UNCHANGED dbVars
  BY <1>3 DEF StartFile, Stat, dbVars
<1>4. ASSUME NEW p \in Indexers, StartPass(p) \/ EndPass(p) PROVE UNCHANGED dbVars
  BY <1>4 DEF StartPass, EndPass, dbVars
<1>5. ASSUME NEW p \in Indexers, Skip(p) \/ Find(p) \/ Parse(p) PROVE UNCHANGED dbVars
  BY <1>5 DEF Skip, Find, Parse, dbVars
<1>6. ASSUME NEW p \in Indexers, FailFile(p) \/ Timeout(p) \/ Crash(p)
      PROVE  UNCHANGED data /\ (UNCHANGED dbVars \/ PartOfCall(p))
  BY <1>6 DEF FailFile, Timeout, Crash, envVars
<1>7. CASE UNCHANGED vars
  BY <1>7 DEF vars, dbVars
<1>8. ASSUME NEW p \in Indexers, Delete(p) \/ Insert(p) \/ Upsert(p) PROVE UNCHANGED data
  BY <1>8 DEF Delete, Insert, Upsert, envVars
<1> QED BY <1>1, <1>2, <1>3, <1>4, <1>5, <1>6, <1>7, <1>8 DEF Next, Walk, IndexOne

\* A registry row is only ever replaced by the outcome of an indexer's job.
LEMMA RowChange ==
    ASSUME [Next]_vars
    PROVE  \/ UNCHANGED row
           \/ \E p \in Indexers : /\ proc[p].pc = "upsert"
                                  /\ row' = [row EXCEPT ![job[p].file] = NewRow(job[p])]
<1>1. \A p \in Indexers : PartOfCall(p) =>
        \/ UNCHANGED row
        \/ proc[p].pc = "upsert" /\ row' = [row EXCEPT ![job[p].file] = NewRow(job[p])]
  BY DEF PartOfCall, RowWritten
<1> QED BY <1>1, DbSteps DEF Delete, Insert, Upsert, RowWritten, dbVars

OnlyMoves(p) == \A q \in Indexers \ {p} : proc'[q] = proc[q] /\ job'[q] = job[q]

Leaves(p) == proc'[p].pc \in {"idle", "walk"}

\* Every step is one of the environment or moves a single indexer.
LEMMA StepCases ==
    ASSUME TypeOK, [Next]_vars
    PROVE  \/ UNCHANGED <<data, row, stored, proc, job>>
           \/ \E f \in Files : Grow(f) \/ Cut(f)
           \/ \E p \in Indexers :
                 /\ UNCHANGED data
                 /\ OnlyMoves(p)
                 /\ Leaves(p) \/ (\E f \in Files : Stat(p, f)) \/ Find(p) \/ Parse(p) \/ Delete(p) \/ Insert(p)
<1>1. job \in [Indexers -> JobType] /\ proc \in [Indexers -> ProcType]
  BY TypeParts DEF ActorType
<1>2. ASSUME NEW p \in Indexers, StartPass(p) \/ EndPass(p) PROVE UNCHANGED data /\ OnlyMoves(p) /\ Leaves(p)
  BY <1>1, <1>2 DEF StartPass, EndPass, OnlyMoves, Leaves, ProcType, envVars
<1>3. ASSUME NEW p \in Indexers, NEW f \in Files, StartFile(p, f)
      PROVE  UNCHANGED data /\ OnlyMoves(p) /\ Leaves(p)
  BY <1>1, <1>3 DEF StartFile, OnlyMoves, Leaves, ProcType, envVars
<1>4. ASSUME NEW p \in Indexers, Skip(p) \/ Upsert(p) \/ FailFile(p) \/ Timeout(p) \/ Crash(p)
      PROVE  UNCHANGED data /\ OnlyMoves(p) /\ Leaves(p)
  <2>1. UNCHANGED data
    BY <1>4 DEF Skip, Upsert, FailFile, Timeout, Crash, envVars
  <2>2. OnlyMoves(p)
    BY <1>1, <1>4 DEF Skip, Upsert, FailFile, Timeout, Crash, Done, OnlyMoves
  <2>3. Leaves(p)
    BY <1>1, <1>4 DEF Skip, Upsert, FailFile, Timeout, Crash, Done, Booting, Leaves, ProcType
  <2> QED BY <2>1, <2>2, <2>3
<1>5. ASSUME NEW p \in Indexers, NEW f \in Files, Stat(p, f) PROVE UNCHANGED data /\ OnlyMoves(p)
  BY <1>1, <1>5 DEF Stat, OnlyMoves, envVars
<1>6. ASSUME NEW p \in Indexers, Find(p) \/ Parse(p) PROVE UNCHANGED data /\ OnlyMoves(p)
  BY <1>1, <1>6 DEF Find, Parse, Goto, OnlyMoves, envVars
<1>7. ASSUME NEW p \in Indexers, Delete(p) \/ Insert(p) PROVE UNCHANGED data /\ OnlyMoves(p)
  BY <1>1, <1>7 DEF Delete, Insert, Goto, OnlyMoves, envVars
<1>8. CASE Midnight \/ UNCHANGED vars
  BY <1>8 DEF Midnight, vars, dbVars
<1> QED BY <1>2, <1>3, <1>4, <1>5, <1>6, <1>7, <1>8 DEF Next, Walk, IndexOne

\* The three writes to the database, whole or in part; everything else leaves the
\* rows and the stored transactions alone.
LEMMA DbEffect ==
    ASSUME TypeOK, [Next]_vars
    PROVE  \/ UNCHANGED <<row, stored>>
           \/ \E p \in Indexers :
                 /\ UNCHANGED <<data, row>>
                 /\ \A g \in Files \ {job[p].file} : stored'[g] = stored[g]
                 /\ \/ proc[p].pc = "delete" /\ \A g \in Files, e \in Pos : stored'[g][e] > 0 => stored[g][e] > 0
                    \/ proc[p].pc = "insert" /\ \A g \in Files, e \in Pos : stored[g][e] > 0 => stored'[g][e] > 0
           \/ \E p \in Indexers :
                 /\ UNCHANGED <<data, stored>>
                 /\ proc[p].pc = "upsert"
                 /\ row' = [row EXCEPT ![job[p].file] = NewRow(job[p])]
<1>1. stored \in [Files -> [Pos -> 0..MaxCopies]] /\ MaxCopies \in Nat /\ MaxCopies > 1
  BY ConstantsAssumption DEF TypeOK
<1>2. \A p \in Indexers : job[p].file \in Files
  BY TypeParts DEF ActorType, JobType
<1>3. ASSUME NEW f \in Files, NEW T, InsertDocs(f, T)
      PROVE  /\ \A g \in Files \ {f} : stored'[g] = stored[g]
             /\ \A g \in Files, e \in Pos : stored[g][e] > 0 => stored'[g][e] > 0
  <2>1. \A g \in Files \ {f} : stored'[g] = stored[g]
    BY <1>1, <1>3 DEF InsertDocs
  <2>2. ASSUME NEW g \in Files, NEW e \in Pos, stored[g][e] > 0 PROVE stored'[g][e] > 0
    <3>1. stored'[g][e] = stored[g][e] \/ stored'[g][e] = Copies(stored[g][e])
      BY <1>1, <1>3 DEF InsertDocs
    <3> QED BY <1>1, <2>2, <3>1 DEF Copies
  <2> QED BY <2>1, <2>2
<1>4. ASSUME NEW p \in Indexers, PartOfCall(p)
      PROVE  \/ UNCHANGED <<row, stored>>
             \/ /\ UNCHANGED row
                /\ \A g \in Files \ {job[p].file} : stored'[g] = stored[g]
                /\ \/ proc[p].pc = "delete" /\ \A g \in Files, e \in Pos : stored'[g][e] > 0 => stored[g][e] > 0
                   \/ proc[p].pc = "insert" /\ \A g \in Files, e \in Pos : stored[g][e] > 0 => stored'[g][e] > 0
             \/ /\ UNCHANGED stored
                /\ proc[p].pc = "upsert"
                /\ row' = [row EXCEPT ![job[p].file] = NewRow(job[p])]
  <2>1. CASE UNCHANGED <<row, stored, oldDocs>>
    BY <2>1
  <2>2. CASE /\ proc[p].pc = "delete"
             /\ \E gone \in SUBSET Pos :
                   stored' = [stored EXCEPT ![job[p].file] = [e \in Pos |-> IF e \in gone THEN 0 ELSE @[e]]]
             /\ UNCHANGED row
    <3>1. PICK gone \in SUBSET Pos :
            stored' = [stored EXCEPT ![job[p].file] = [e \in Pos |-> IF e \in gone THEN 0 ELSE @[e]]]
      BY <2>2
    <3>2. \A g \in Files \ {job[p].file} : stored'[g] = stored[g]
      BY <1>1, <3>1
    <3>3. \A g \in Files, e \in Pos : stored'[g][e] > 0 => stored[g][e] > 0
      BY <1>1, <3>1
    <3> QED BY <2>2, <3>2, <3>3
  <2>3. CASE /\ proc[p].pc = "insert"
             /\ \E last \in job[p].txns : InsertDocs(job[p].file, {e \in job[p].txns : e <= last})
             /\ UNCHANGED row
    BY <1>2, <1>3, <2>3
  <2>4. CASE /\ proc[p].pc = "upsert"
             /\ row' = [row EXCEPT ![job[p].file] = NewRow(job[p])]
             /\ UNCHANGED stored
    BY <2>4
  <2> QED BY <1>4, <2>1, <2>2, <2>3, <2>4 DEF PartOfCall, RowWritten
<1>5. ASSUME NEW p \in Indexers, Delete(p)
      PROVE  /\ UNCHANGED row /\ proc[p].pc = "delete"
             /\ \A g \in Files \ {job[p].file} : stored'[g] = stored[g]
             /\ \A g \in Files, e \in Pos : stored'[g][e] > 0 => stored[g][e] > 0
  BY <1>1, <1>5 DEF Delete
<1>6. ASSUME NEW p \in Indexers, Insert(p)
      PROVE  /\ UNCHANGED row /\ proc[p].pc = "insert"
             /\ \A g \in Files \ {job[p].file} : stored'[g] = stored[g]
             /\ \A g \in Files, e \in Pos : stored[g][e] > 0 => stored'[g][e] > 0
  BY <1>2, <1>3, <1>6 DEF Insert
<1>7. ASSUME NEW p \in Indexers, Upsert(p)
      PROVE  /\ UNCHANGED stored /\ proc[p].pc = "upsert"
             /\ row' = [row EXCEPT ![job[p].file] = NewRow(job[p])]
  BY <1>7 DEF Upsert, RowWritten
<1> QED BY <1>4, <1>5, <1>6, <1>7, DbSteps DEF dbVars

\* Journals are sequences of lines.
LEMMA DataTyped ==
    ASSUME TypeOK
    PROVE  /\ data \in [Files -> Seq(Token)]
           /\ \A f \in Files : data[f] \in Seq(Token) /\ Len(data[f]) \in Nat
<1>1. data \in [Files -> Seq(Token)]
  BY DEF TypeOK
<1> QED BY <1>1

\* After a step, too.
LEMMA NextDataTyped ==
    ASSUME TypeOK'
    PROVE  \A f \in Files : data'[f] \in Seq(Token) /\ Len(data'[f]) \in Nat
<1>1. data' \in [Files -> Seq(Token)]
  BY DEF TypeOK
<1> QED BY <1>1

-----------------------------------------------------------------------------
(***************************************************************************)
(* A registry row of the current schema vouches for its transactions,      *)
(* however many indexers run and whatever fails.                           *)
(***************************************************************************)
\* Everything from the parse on.
Parsed == {"delete", "insert", "upsert"}
Planned == {"parse"} \cup Parsed

\* Nothing adds a document of an older parser; a row or a job that does not ask
\* for a full reparse has none left.
RowDocsInv ==
    \A f \in Files :
        /\ ~row[f].present => row[f].count = 0
        /\ row[f].schema <= Schema
        /\ row[f].schema = Schema \/ row[f].count = 0 => oldDocs[f] = {}

JobDocsInv ==
    \A p \in Indexers :
        \/ proc[p].pc \in Planned /\ job[p].mode # "full"
        \/ proc[p].pc \in {"insert", "upsert"}
        => oldDocs[job[p].file] = {}

OldDocsInv == RowDocsInv /\ JobDocsInv

LEMMA EmptyCount ==
    ASSUME NEW T \in SUBSET Pos, Cardinality(T) = 0 PROVE T = {}
<1>1. IsFiniteSet(Pos)
  BY ConstantsAssumption, FS_Interval DEF Pos
<1>2. IsFiniteSet(T)
  BY <1>1, FS_Subset
<1> QED BY <1>2, FS_EmptySet

\* An older release leaves rows of older schemas only.
LEMMA InitOldDocs == Init => OldDocsInv
<1> SUFFICES ASSUME Init PROVE OldDocsInv
  OBVIOUS
<1> USE ConstantsAssumption
<1>1. JobDocsInv
  BY DEF Init, JobDocsInv, Booting, Planned, Parsed
<1>2. \A f \in Files : LegacyTxns(f) \in SUBSET Pos
  BY InitType, LegacyTxnsOK DEF TypeOK
<1>3. ASSUME NEW f \in Files
      PROVE  /\ ~row[f].present => row[f].count = 0
             /\ row[f].schema <= Schema
             /\ row[f].schema = Schema \/ row[f].count = 0 => oldDocs[f] = {}
  <2>1. PICK s \in [Files -> LegacySchemas \cup {-1}], k \in [Files -> 0..MaxLen] :
          row = [g \in Files |-> IF s[g] = -1 THEN NoRow
                   ELSE LegacyRow(g, data[g], s[g], k[g], Cardinality(LegacyTxns(g)))]
    BY DEF Init
  <2>2. CASE s[f] = -1
    <3>1. row[f] = NoRow
      BY <2>1, <2>2
    <3>2. ~row[f].present /\ row[f].schema = 0 /\ row[f].count = 0
      <4>1. ~NoRow.present
        BY Zenon DEF NoRow
      <4>2. NoRow.schema = 0 /\ NoRow.count = 0
        BY DEF NoRow
      <4> QED BY <3>1, <4>1, <4>2
    <3>3. oldDocs = [g \in Files |-> IF row[g].present THEN LegacyTxns(g) ELSE {}]
      BY DEF Init
    <3>4. oldDocs[f] = {}
      BY <3>2, <3>3, Zenon
    <3>5. row[f].schema <= Schema
      BY <3>2
    <3> QED BY <3>2, <3>4, <3>5
  <2>3. CASE s[f] # -1
    <3>1. s[f] \in 0..(Schema - 1)
      BY <2>3
    <3>2. /\ row[f].schema = s[f] /\ row[f].present
          /\ row[f].count = Cardinality(LegacyTxns(f))
      BY <2>1, <2>3 DEF LegacyRow
    <3>3. Cardinality(LegacyTxns(f)) = 0 => LegacyTxns(f) = {}
      BY <1>2, EmptyCount
    <3>4. LegacyTxns(f) = {} => oldDocs[f] = {}
      BY DEF Init
    <3> QED BY <3>1, <3>2, <3>3, <3>4
  <2> QED BY <2>2, <2>3
<1> QED BY <1>1, <1>3 DEF OldDocsInv, RowDocsInv

\* Documents of an older parser are only ever deleted.
LEMMA OldDocsShrink ==
    ASSUME TypeOK, [Next]_vars, NEW f \in Files PROVE oldDocs'[f] \subseteq oldDocs[f]
<1>1. oldDocs \in [Files -> SUBSET Pos]
  BY DEF TypeOK
<1>2. ASSUME NEW p \in Indexers, PartOfCall(p) PROVE oldDocs'[f] \subseteq oldDocs[f]
  BY <1>1, <1>2 DEF PartOfCall, RowWritten
<1>3. ASSUME NEW p \in Indexers, Delete(p) PROVE oldDocs'[f] \subseteq oldDocs[f]
  BY <1>1, <1>3 DEF Delete
<1>4. CASE UNCHANGED oldDocs
  BY <1>4
<1> QED BY <1>2, <1>3, <1>4, DbSteps DEF Insert, Upsert, RowWritten, dbVars

\* A registered row has no transaction of an older parser, or keeps its old schema.
LEMMA RowDocsStep == ASSUME TypeOK, OldDocsInv, [Next]_vars PROVE RowDocsInv'
<1>1. row \in [Files -> Row] /\ Schema \in Nat
  BY ConstantsAssumption DEF TypeOK
<1>2. CASE UNCHANGED row
  BY <1>2, OldDocsShrink DEF OldDocsInv, RowDocsInv
<1>3. ASSUME NEW p \in Indexers, proc[p].pc = "upsert",
             row' = [row EXCEPT ![job[p].file] = NewRow(job[p])]
      PROVE  RowDocsInv'
  <2>1. oldDocs[job[p].file] = {}
    BY <1>3 DEF OldDocsInv, JobDocsInv
  <2>2. NewRow(job[p]).schema = Schema /\ NewRow(job[p]).present
    BY DEF NewRow
  <2>3. \A f \in Files : row'[f] = row[f] \/ (row'[f] = NewRow(job[p]) /\ f = job[p].file)
    BY <1>1, <1>3
  <2>4. ASSUME NEW f \in Files
        PROVE  /\ ~row'[f].present => row'[f].count = 0
               /\ row'[f].schema <= Schema
               /\ row'[f].schema = Schema \/ row'[f].count = 0 => oldDocs'[f] = {}
    BY <1>1, <2>1, <2>2, <2>3, OldDocsShrink DEF OldDocsInv, RowDocsInv
  <2> QED BY <2>4 DEF RowDocsInv
<1> QED BY <1>2, <1>3, RowChange

\* A job that reached InsertMany or upsert has deleted them, or found none.
LEMMA JobDocsStep == ASSUME TypeOK, OldDocsInv, [Next]_vars PROVE JobDocsInv'
<1> USE DEF Planned, Parsed
<1>1. job \in [Indexers -> JobType] /\ proc \in [Indexers -> ProcType] /\ row \in [Files -> Row]
  BY TypeParts DEF ActorType, DbType
<1>2. \A p \in Indexers : job[p].file \in Files
  BY <1>1 DEF JobType
<1> DEFINE Holds(p) == (\/ proc'[p].pc \in Planned /\ job'[p].mode # "full"
                        \/ proc'[p].pc \in {"insert", "upsert"}) => oldDocs'[job'[p].file] = {}
<1>3. ASSUME NEW q \in Indexers, proc'[q] = proc[q], job'[q] = job[q] PROVE Holds(q)
  BY <1>2, <1>3, OldDocsShrink DEF OldDocsInv, JobDocsInv
<1>4. ASSUME NEW q \in Indexers, proc'[q].pc \in {"idle", "walk", "find"} PROVE Holds(q)
  BY <1>4
<1>5. ASSUME UNCHANGED <<proc, job>> PROVE JobDocsInv'
  BY <1>3, <1>5 DEF JobDocsInv
<1>6. ASSUME NEW p \in Indexers, Holds(p),
             \A q \in Indexers \ {p} : proc'[q] = proc[q] /\ job'[q] = job[q]
      PROVE  JobDocsInv'
  BY <1>3, <1>6 DEF JobDocsInv
<1>7. ASSUME NEW p \in Indexers, StartPass(p) \/ EndPass(p) \/ \E f \in Files : StartFile(p, f) \/ Stat(p, f)
      PROVE  JobDocsInv'
  <2>1. proc'[p].pc \in {"idle", "walk", "find"}
    <3>1. CASE StartPass(p) \/ EndPass(p)
      BY <1>1, <3>1 DEF StartPass, EndPass, ProcType
    <3>2. ASSUME NEW f \in Files, StartFile(p, f) PROVE proc'[p].pc = "walk"
      BY <1>1, <3>2 DEF StartFile, ProcType
    <3>3. ASSUME NEW f \in Files, Stat(p, f) PROVE proc'[p].pc = "find"
      BY <1>1, <3>3 DEF Stat, ProcType
    <3> QED BY <1>7, <3>1, <3>2, <3>3
  <2>2. \A q \in Indexers \ {p} : proc'[q] = proc[q] /\ job'[q] = job[q]
    BY <1>1, <1>7 DEF StartPass, EndPass, StartFile, Stat
  <2> QED BY <1>4, <1>6, <2>1, <2>2
<1>8. ASSUME NEW p \in Indexers, Skip(p) \/ Upsert(p) \/ FailFile(p) \/ Timeout(p) \/ Crash(p)
      PROVE  JobDocsInv'
  <2>1. proc'[p].pc \in {"idle", "walk", "find"}
    BY <1>1, <1>8 DEF Skip, Upsert, FailFile, Timeout, Crash, Done, Booting, ProcType
  <2>2. \A q \in Indexers \ {p} : proc'[q] = proc[q] /\ job'[q] = job[q]
    BY <1>1, <1>8 DEF Skip, Upsert, FailFile, Timeout, Crash, Done
  <2> QED BY <1>4, <1>6, <2>1, <2>2
<1>9. ASSUME NEW p \in Indexers, Find(p) PROVE JobDocsInv'
  <2> DEFINE r == row[job[p].file]
             mode == Plan(r, job[p].size, job[p].mtime)
  <2>1. /\ proc'[p].pc = "parse" /\ job'[p].file = job[p].file /\ job'[p].mode = mode
        /\ oldDocs' = oldDocs /\ mode # "skip"
    <3>1. proc'[p].pc = "parse"
      BY <1>1, <1>9 DEF Find, Goto, ProcType
    <3>2. job'[p].file = job[p].file /\ job'[p].mode = mode
      <4> DEFINE off == ResumeOffset(mode, r)
                 known == IF mode = "full" THEN "" ELSE r.type
                 lines == IF mode = "append" THEN r.lines ELSE 0
                 prev == IF mode = "append" THEN r.count ELSE 0
      <4>1. job' = [job EXCEPT ![p].mode = mode, ![p].offset = off, ![p].known = known,
                      ![p].lines = lines, ![p].prev = prev]
        BY <1>9 DEF Find
      <4> HIDE DEF r, mode, off, known, lines, prev
      <4> QED BY <1>1, <4>1 DEF JobType
    <3>3. oldDocs' = oldDocs /\ mode # "skip"
      BY <1>9 DEF Find, dbVars
    <3> QED BY <3>1, <3>2, <3>3
  <2>2. r \in Row /\ Schema \in Nat
    BY <1>1, <1>2, ConstantsAssumption
  <2>3. r.schema <= Schema /\ (r.schema = Schema \/ r.count = 0 => oldDocs[job[p].file] = {})
    BY <1>2 DEF OldDocsInv, RowDocsInv
  <2>4. mode # "full" => ~r.present \/ r.count = 0 \/ r.schema = Schema
    <3> HIDE DEF r
    <3>1. r.present /\ Upgrade(r) => mode = "full"
      BY DEF Plan
    <3>2. r.count \in Nat /\ r.schema \in Nat /\ r.present \in BOOLEAN
      BY <2>2 DEF Row
    <3> QED BY <2>2, <2>3, <3>1, <3>2 DEF Upgrade
  <2>5. ~r.present => r.count = 0
    BY <1>2 DEF OldDocsInv, RowDocsInv
  <2>6. Holds(p)
    BY <2>1, <2>3, <2>4, <2>5
  <2>7. \A q \in Indexers \ {p} : proc'[q] = proc[q] /\ job'[q] = job[q]
    BY <1>1, <1>9 DEF Find, Goto
  <2> QED BY <1>6, <2>6, <2>7
<1>10. ASSUME NEW p \in Indexers, Parse(p) PROVE JobDocsInv'
  <2>1. /\ job'[p].file = job[p].file /\ job'[p].mode = job[p].mode
        /\ proc[p].pc = "parse" /\ oldDocs' = oldDocs
        /\ proc'[p].pc \in {"delete", "insert", "upsert"}
        /\ job[p].mode = "full" => proc'[p].pc = "delete"
    <3> DEFINE j == job[p]
               d == data[j.file]
               off == StartOffset(d, j.offset)
               type == ParsedType(d, off, j.known, FileType[j.file])
               txns == TxnEnds(d, off, type, FileType[j.file])
               lines == IF off = j.offset THEN j.lines ELSE 0
    <3>1. PICK k \in off..Len(d) :
            job' = [job EXCEPT ![p].offset = off, ![p].txns = txns, ![p].type = type,
                ![p].newOffset = k, ![p].newLines = lines + (k - off)]
      BY <1>10 DEF Parse
    <3>2. Goto(p, IF j.mode = "full" \/ (j.mode = "first" /\ txns # {}) THEN "delete"
                  ELSE IF txns # {} THEN "insert" ELSE "upsert")
      BY <1>10 DEF Parse
    <3>3. proc[p].pc = "parse" /\ oldDocs' = oldDocs
      BY <1>10 DEF Parse, dbVars
    <3> HIDE DEF d, off, type, txns, lines
    <3>4. job'[p].file = j.file /\ job'[p].mode = j.mode
      BY <1>1, <3>1 DEF JobType
    <3>5. /\ proc'[p].pc \in {"delete", "insert", "upsert"}
          /\ j.mode = "full" => proc'[p].pc = "delete"
      BY <1>1, <3>2 DEF Goto, ProcType
    <3> QED BY <3>3, <3>4, <3>5
  <2>2. Holds(p)
    BY <2>1 DEF OldDocsInv, JobDocsInv
  <2>3. \A q \in Indexers \ {p} : proc'[q] = proc[q] /\ job'[q] = job[q]
    BY <1>1, <1>10 DEF Parse, Goto
  <2> QED BY <1>6, <2>2, <2>3
<1>11. ASSUME NEW p \in Indexers, Delete(p) \/ Insert(p) PROVE JobDocsInv'
  <2>1. job' = job /\ \A q \in Indexers \ {p} : proc'[q] = proc[q]
    BY <1>1, <1>11 DEF Delete, Insert, Goto
  <2>2. oldDocs'[job[p].file] = {}
    BY <1>2, <1>11, OldDocsShrink DEF Delete, Insert, OldDocsInv, JobDocsInv, TypeOK
  <2> QED BY <1>6, <2>1, <2>2
<1> QED BY <1>5, <1>7, <1>8, <1>9, <1>10, <1>11
        DEF Next, Walk, IndexOne, Grow, Cut, Midnight, vars

\* A row of the current schema vouches for its transactions: none of them was left
\* by an older parser, whatever fails in a full reparse and however many indexers run.
THEOREM SchemaHonesty == Spec => []SchemaHonest
<1>1. Init => OldDocsInv
  BY InitOldDocs
<1>2. TypeOK /\ OldDocsInv /\ [Next]_vars => OldDocsInv'
  BY RowDocsStep, JobDocsStep DEF OldDocsInv
<1>3. OldDocsInv => SchemaHonest
  BY DEF OldDocsInv, RowDocsInv, SchemaHonest
<1> QED BY <1>1, <1>2, <1>3, TypeCorrect, PTL DEF Spec
=============================================================================
