------------------------------ MODULE EJIndexer ------------------------------
(***************************************************************************)
(* The electronic-journal indexer: processes that walk EJ_ROOT, compare    *)
(* every journal with its registry row in ej_files, parse what is new and  *)
(* store the transactions in ej_transactions.  The watcher inside          *)
(* coopinsight and the ej-indexer command run the same code on the same    *)
(* collections, and no step of one document is atomic with the next.       *)
(***************************************************************************)
EXTENDS Integers, FiniteSets, EJParser

CONSTANTS
    Files,          \* the journals under EJ_ROOT
    FileType,       \* the format each ATM writes
    FileDay,        \* the date in each journal's name
    Lines,          \* the kinds of lines the ATMs write
    Initial,        \* contents a journal may have when the system starts
    LegacySchemas,  \* schema versions of registry rows left by older releases
    Watchers,       \* in-process pollers
    Clis,           \* runs of the ej-indexer command
    Schema,         \* ejIndexSchemaVersion
    FullEvery,      \* a poll walks every date once in FullEvery ticks
    TicksPerMs,     \* file-clock ticks in a BSON millisecond
    MaxLen,         \* bound on the lines of a journal
    MaxDay,         \* bound on the days that pass
    MaxFaults,      \* bound on failed calls, timeouts and crashes
    MaxCuts,        \* bound on truncations of journals
    MaxCopies       \* bound on the counted copies of one stored transaction

Indexers == Watchers \cup Clis
Pos == 1..MaxLen

ASSUME ConstantsAssumption ==
    /\ Files # {}
    /\ MaxLen \in Nat /\ MaxDay \in Nat /\ MaxFaults \in Nat /\ MaxCuts \in Nat
    /\ MaxCopies \in Nat /\ MaxCopies > 1
    /\ FullEvery \in Nat /\ FullEvery > 0
    /\ TicksPerMs \in Nat /\ TicksPerMs > 0
    /\ Schema \in Nat /\ Schema > 0
    /\ LegacySchemas \subseteq 0..(Schema - 1)
    /\ Lines \subseteq Token
    /\ FileType \in [Files -> AtmType]
    /\ FileDay \in [Files -> Nat]
    /\ \A f \in Files : \A d \in Initial[f] : d \in Seq(Token) /\ Len(d) <= MaxLen

VARIABLES
    today,    \* the API server's local date
    data,     \* lines of each journal
    mtime,    \* modification time of each journal, in file-clock ticks
    row,      \* the ej_files row of each journal
    stored,   \* copies of each block's transaction in ej_transactions
    oldDocs,  \* blocks with a stored transaction of an older parser
    proc,     \* where each indexer is in its walk
    job,      \* what each indexer knows of the journal it works on
    torn,     \* history: documents are stored that the row does not account for
    faults,   \* faults so far
    cuts      \* truncations so far

envVars == <<today, data, mtime, cuts>>
dbVars == <<row, stored, oldDocs, torn>>
vars == <<today, data, mtime, row, stored, oldDocs, proc, job, torn, faults, cuts>>

-----------------------------------------------------------------------------
NoRow == [present |-> FALSE, size |-> 0, mtime |-> 0, offset |-> 0, lines |-> 0,
          schema |-> 0, type |-> "", count |-> 0]

Row == [present : BOOLEAN, size : Nat, mtime : Nat, offset : Nat, lines : Nat,
        schema : Nat, type : AtmType \cup {""}, count : Nat]

Modes == {"none", "first", "append", "full"}

\* file, size and mtime come from os.Stat, the next four fields from the row,
\* the last four from the parser.
Job(f, size, mt, mode, off, known, lines, prev, txns, newOff, newLines, type) ==
    [file |-> f, size |-> size, mtime |-> mt, mode |-> mode, offset |-> off,
     known |-> known, lines |-> lines, prev |-> prev, txns |-> txns,
     newOffset |-> newOff, newLines |-> newLines, type |-> type]

NoJob == Job(CHOOSE f \in Files : TRUE, 0, 0, "none", 0, "", 0, 0, {}, 0, 0, "")

\* BSON dates keep milliseconds; the file system's times are finer.
BsonTime(t) == (t \div TicksPerMs) * TicksPerMs

Copies(n) == IF n < MaxCopies THEN n + 1 ELSE n

Steps == {"idle", "walk", "find", "parse", "delete", "insert", "upsert"}

\* The watcher's pass counter: -2 and -1 are the two passes of a start, then
\* tickCount modulo FullEvery.
Passes == -2..(FullEvery - 1)
Booting == [pc |-> "idle", pass |-> -2, todo |-> {}, expired |-> FALSE]

\* Mutant: the poll forgets its full walks.
TodayOnly_Always(p) == p \in Watchers

TodayOnly(p) ==
    /\ p \in Watchers
    /\ proc[p].pass # -1
    /\ proc[p].pass >= 0 => (proc[p].pass + 1) % FullEvery # 0

NextPass(n) == IF n < 0 THEN n + 1 ELSE (n + 1) % FullEvery

-----------------------------------------------------------------------------
\* The row and the documents an older release left for a journal of content d:
\* the first releases kept no offset and no line numbers.
LegacyRow(f, d, s, k, n) ==
    [present |-> TRUE, size |-> Len(d), mtime |-> 0,
     offset |-> IF s = 0 THEN 0 ELSE k, lines |-> IF s = 0 THEN 0 ELSE k,
     schema |-> s, type |-> FileType[f], count |-> n]

LegacyTxns(f) == TxnEnds(data[f], 0, FileType[f], FileType[f])

Init ==
    /\ today = 0
    /\ data \in [Files -> UNION {Initial[f] : f \in Files}]
    /\ \A f \in Files : data[f] \in Initial[f]
    /\ mtime = [f \in Files |-> 0]
    /\ \E s \in [Files -> LegacySchemas \cup {-1}], k \in [Files -> 0..MaxLen] :
          /\ \A f \in Files : IF s[f] = -1 THEN k[f] = 0
                ELSE k[f] <= Len(data[f]) /\ IsNewOffset(data[f], 0, FileType[f], FileType[f], k[f])
          /\ row = [f \in Files |-> IF s[f] = -1 THEN NoRow
                       ELSE LegacyRow(f, data[f], s[f], k[f], Cardinality(LegacyTxns(f)))]
    /\ oldDocs = [f \in Files |-> IF row[f].present THEN LegacyTxns(f) ELSE {}]
    /\ stored = [f \in Files |-> [e \in Pos |-> IF e \in oldDocs[f] THEN 1 ELSE 0]]
    /\ proc = [p \in Indexers |-> Booting]
    /\ job = [p \in Indexers |-> NoJob]
    /\ torn = [f \in Files |-> FALSE]
    /\ faults = 0
    /\ cuts = 0

-----------------------------------------------------------------------------
(***************************************************************************)
(* The environment: the ATM appends, somebody cuts a journal, midnight.    *)
(***************************************************************************)
Working(p, f) == proc[p].pc \notin {"idle", "walk"} /\ job[p].file = f

\* No registered or remembered size or offset lies beyond the file: a journal
\* that was cut is not written again before a pass has rebuilt its row.
Settled(f) ==
    /\ row[f].size <= Len(data[f]) /\ row[f].offset <= Len(data[f])
    /\ \A p \in Indexers : Working(p, f) =>
          job[p].size <= Len(data[f]) /\ job[p].newOffset <= Len(data[f])

Grow(f) ==
    /\ Len(data[f]) < MaxLen
    /\ Settled(f)
    /\ \E t \in Lines : data' = [data EXCEPT ![f] = Append(@, t)]
    /\ mtime' = [mtime EXCEPT ![f] = @ + 1]
    /\ UNCHANGED <<today, cuts, dbVars, proc, job, faults>>

Cut(f) ==
    /\ cuts < MaxCuts
    /\ \E n \in 0..(Len(data[f]) - 1) : data' = [data EXCEPT ![f] = SubSeq(@, 1, n)]
    /\ mtime' = [mtime EXCEPT ![f] = @ + 1]
    /\ cuts' = cuts + 1
    /\ UNCHANGED <<today, dbVars, proc, job, faults>>

Midnight ==
    /\ today < MaxDay
    /\ today' = today + 1
    /\ UNCHANGED <<data, mtime, cuts, dbVars, proc, job, faults>>

-----------------------------------------------------------------------------
(***************************************************************************)
(* The walk.                                                               *)
(***************************************************************************)
StartPass(p) ==
    /\ proc[p].pc = "idle"
    /\ proc' = [proc EXCEPT ![p].pc = "walk", ![p].expired = FALSE,
                  ![p].todo = {f \in Files : TodayOnly(p) => FileDay[f] = today}]
    /\ UNCHANGED <<envVars, dbVars, job, faults>>

\* ej-indexer -file: one journal, no walk.
StartFile(p, f) ==
    /\ p \in Clis
    /\ proc[p].pc = "idle"
    /\ proc' = [proc EXCEPT ![p].pc = "walk", ![p].expired = FALSE, ![p].todo = {f}]
    /\ UNCHANGED <<envVars, dbVars, job, faults>>

\* The next journal: os.Stat before anything else is read.
Stat(p, f) ==
    /\ proc[p].pc = "walk" /\ ~proc[p].expired
    /\ f \in proc[p].todo
    /\ proc' = [proc EXCEPT ![p].pc = "find", ![p].todo = @ \ {f}]
    /\ job' = [job EXCEPT ![p] = Job(f, Len(data[f]), mtime[f], "none", 0, "", 0, 0, {}, 0, 0, "")]
    /\ UNCHANGED <<envVars, dbVars, faults>>

\* The walk ends when nothing is left, or at the next file of an expired pass.
EndPass(p) ==
    /\ proc[p].pc = "walk"
    /\ proc[p].todo = {} \/ proc[p].expired
    /\ proc' = [proc EXCEPT ![p] = [pc |-> "idle", todo |-> {}, expired |-> FALSE,
                  pass |-> IF p \in Watchers THEN NextPass(proc[p].pass) ELSE -2]]
    /\ UNCHANGED <<envVars, dbVars, job, faults>>

-----------------------------------------------------------------------------
(***************************************************************************)
(* indexOne.                                                               *)
(***************************************************************************)
\* Mutant: a schema bump is not noticed.
Upgrade_LinesOnly(r) == r.count > 0 /\ r.lines = 0

Upgrade(r) == r.count > 0 /\ (r.lines = 0 \/ r.schema < Schema)
Unchanged(r, size, mt) == r.size = size /\ r.mtime = mt
NoOffset(r) == r.offset = 0 /\ r.count > 0
\* Mutant: an offset beyond the file is not noticed.
Shrunk_SizeOnly(r, size) == size < r.size

Shrunk(r, size) == size < r.size \/ r.offset > size

\* Mutant: a journal that grew is parsed anew, from a row that still vouches for it.
Plan_Anew(r, size, mt) ==
    IF ~r.present THEN "first"
    ELSE IF Upgrade(r) \/ ~Unchanged(r, size, mt) THEN "full" ELSE "skip"

\* What indexOne does with a journal, in the order of its early returns.
Plan(r, size, mt) ==
    CASE ~r.present                     -> "first"
      [] r.present /\ Upgrade(r)        -> "full"
      [] r.present /\ ~Upgrade(r) /\ Unchanged(r, size, mt) -> "skip"
      [] OTHER -> IF NoOffset(r) \/ Shrunk(r, size) THEN "full"
                  ELSE IF r.offset = 0 /\ r.count = 0 THEN "first" ELSE "append"

\* Mutant: an offset taken for the number of the next line: parsing starts a line
\* early, and before the file's first line when nothing is consumed yet.
ResumeOffset_OneBack(mode, r) == IF mode = "full" THEN 0 ELSE r.offset - 1

\* Mutant: a full reparse resumes where the row says.
ResumeOffset_Kept(mode, r) == r.offset

ResumeOffset(mode, r) == IF mode = "full" THEN 0 ELSE r.offset

Done(p) == proc' = [proc EXCEPT ![p].pc = "walk"] /\ job' = [job EXCEPT ![p] = NoJob]
Goto(p, pc) == proc' = [proc EXCEPT ![p].pc = pc]

Skip(p) ==
    LET j == job[p]
        r == row[j.file]
    IN  /\ proc[p].pc = "find"
        /\ Plan(r, j.size, j.mtime) = "skip"
        /\ Done(p)
        /\ UNCHANGED <<envVars, dbVars, faults>>

\* A full reparse forgets the offset and the type; the other modes take both
\* from the row, and "first" only resets the line count.
Find(p) ==
    LET j == job[p]
        r == row[j.file]
        mode == Plan(r, j.size, j.mtime)
    IN  /\ proc[p].pc = "find"
        /\ mode # "skip"
        /\ job' = [job EXCEPT ![p].mode = mode, ![p].offset = ResumeOffset(mode, r),
              ![p].known = IF mode = "full" THEN "" ELSE r.type,
              ![p].lines = IF mode = "append" THEN r.lines ELSE 0,
              ![p].prev = IF mode = "append" THEN r.count ELSE 0]
        /\ Goto(p, "parse")
        /\ UNCHANGED <<envVars, dbVars, faults>>

\* The parser opens the file again: it may have grown, or been cut, since Stat.
Parse(p) ==
    LET j == job[p]
        d == data[j.file]
        ft == FileType[j.file]
        off == StartOffset(d, j.offset)
        type == ParsedType(d, off, j.known, ft)
        txns == TxnEnds(d, off, type, ft)
    IN  /\ proc[p].pc = "parse"
        /\ \E k \in off..Len(d) :
              /\ IsNewOffset(d, off, type, ft, k)
              /\ job' = [job EXCEPT ![p].offset = off, ![p].txns = txns, ![p].type = type,
                    ![p].newOffset = k,
                    ![p].newLines = (IF off = j.offset THEN j.lines ELSE 0) + (k - off)]
        /\ Goto(p, IF j.mode = "full" \/ (j.mode = "first" /\ txns # {}) THEN "delete"
                   ELSE IF txns # {} THEN "insert" ELSE "upsert")
        /\ UNCHANGED <<envVars, dbVars, faults>>

\* Mutant: ReplaceFileTransactions inserts without deleting.
Delete_Nothing(p) ==
    /\ proc[p].pc = "delete"
    /\ Goto(p, IF job[p].txns = {} THEN "upsert" ELSE "insert")
    /\ UNCHANGED <<envVars, dbVars, job, faults>>

\* ReplaceFileTransactions, first half: DeleteMany.
Delete(p) ==
    LET f == job[p].file
    IN  /\ proc[p].pc = "delete"
        /\ stored' = [stored EXCEPT ![f] = [e \in Pos |-> 0]]
        /\ oldDocs' = [oldDocs EXCEPT ![f] = {}]
        /\ torn' = [torn EXCEPT ![f] = FALSE]
        /\ Goto(p, IF job[p].txns = {} THEN "upsert" ELSE "insert")
        /\ UNCHANGED <<envVars, row, job, faults>>

InsertDocs(f, txns) ==
    stored' = [stored EXCEPT ![f] = [e \in Pos |-> IF e \in txns THEN Copies(@[e]) ELSE @[e]]]

\* InsertMany, of ReplaceFileTransactions and of AppendTransactions.
Insert(p) ==
    /\ proc[p].pc = "insert"
    /\ InsertDocs(job[p].file, job[p].txns)
    /\ Goto(p, "upsert")
    /\ UNCHANGED <<envVars, row, oldDocs, torn, job, faults>>

\* Mutant: an append registers only what it added.
NewRow_Added(j) ==
    [present |-> TRUE, size |-> j.size, mtime |-> BsonTime(j.mtime),
     offset |-> j.newOffset, lines |-> j.newLines, schema |-> Schema, type |-> j.type,
     count |-> Cardinality(j.txns)]

NewRow(j) ==
    [present |-> TRUE, size |-> j.size, mtime |-> BsonTime(j.mtime),
     offset |-> j.newOffset, lines |-> j.newLines, schema |-> Schema, type |-> j.type,
     count |-> j.prev + Cardinality(j.txns)]

\* A first parse that finds nothing keeps what a lost first insert has stored.
KeepsStrays(j) == j.mode = "first" /\ j.txns = {} /\ \E e \in Pos : stored[j.file][e] > 0

RowWritten(j) ==
    /\ row' = [row EXCEPT ![j.file] = NewRow(j)]
    /\ torn' = [torn EXCEPT ![j.file] = @ \/ KeepsStrays(j)]
    /\ UNCHANGED <<stored, oldDocs>>

\* files.Upsert: the last writer wins.
Upsert(p) ==
    /\ proc[p].pc = "upsert"
    /\ RowWritten(job[p])
    /\ Done(p)
    /\ UNCHANGED <<envVars, faults>>

-----------------------------------------------------------------------------
(***************************************************************************)
(* Faults.  A call that returns an error may have had none of its effect,  *)
(* part of it (InsertMany is ordered, DeleteMany is not atomic) or all.    *)
(***************************************************************************)
PartOfCall(p) ==
    LET j == job[p]
        f == j.file
    IN  \/ /\ UNCHANGED <<row, stored, oldDocs>>
           /\ torn' = [torn EXCEPT ![f] = @ \/ (proc[p].pc = "upsert" /\ j.mode = "append" /\ j.txns # {})]
        \/ /\ proc[p].pc = "delete"
           /\ \E gone \in SUBSET Pos :
                 /\ stored' = [stored EXCEPT ![f] = [e \in Pos |-> IF e \in gone THEN 0 ELSE @[e]]]
                 /\ oldDocs' = [oldDocs EXCEPT ![f] = @ \ gone]
           /\ UNCHANGED <<row, torn>>
        \/ /\ proc[p].pc = "insert"
           /\ \E last \in j.txns : InsertDocs(f, {e \in j.txns : e <= last})
           /\ torn' = [torn EXCEPT ![f] = @ \/ j.mode = "append"]
           /\ UNCHANGED <<row, oldDocs>>
        \/ proc[p].pc = "upsert" /\ RowWritten(j)

\* One journal fails; the walk goes on with the others.
FailFile(p) ==
    /\ proc[p].pc \notin {"idle", "walk"}
    /\ faults < MaxFaults
    /\ faults' = faults + 1
    /\ PartOfCall(p)
    /\ Done(p)
    /\ UNCHANGED envVars

\* The pass's deadline: the call in flight fails, and so does every later one.
Timeout(p) ==
    /\ proc[p].pc # "idle" /\ ~proc[p].expired
    /\ faults < MaxFaults
    /\ faults' = faults + 1
    /\ \/ proc[p].pc = "walk" /\ UNCHANGED dbVars
       \/ proc[p].pc # "walk" /\ PartOfCall(p)
    /\ proc' = [proc EXCEPT ![p].pc = "walk", ![p].expired = TRUE]
    /\ job' = [job EXCEPT ![p] = NoJob]
    /\ UNCHANGED envVars

\* The process dies and is started again: a watcher boots with its two passes.
Crash(p) ==
    /\ faults < MaxFaults
    /\ faults' = faults + 1
    /\ \/ proc[p].pc \in {"idle", "walk"} /\ UNCHANGED dbVars
       \/ proc[p].pc \notin {"idle", "walk"} /\ PartOfCall(p)
    /\ proc' = [proc EXCEPT ![p] = Booting]
    /\ job' = [job EXCEPT ![p] = NoJob]
    /\ UNCHANGED envVars

-----------------------------------------------------------------------------
IndexOne(p) == Skip(p) \/ Find(p) \/ Parse(p) \/ Delete(p) \/ Insert(p) \/ Upsert(p)
Walk(p) == StartPass(p) \/ (\E f \in Files : Stat(p, f)) \/ EndPass(p) \/ IndexOne(p)

Next ==
    \/ \E f \in Files : Grow(f) \/ Cut(f)
    \/ Midnight
    \/ \E p \in Indexers :
          \/ Walk(p)
          \/ \E f \in Files : StartFile(p, f)
          \/ FailFile(p) \/ Timeout(p) \/ Crash(p)

Spec == Init /\ [][Next]_vars

\* The watcher's goroutine runs and its ticker ticks; a file system and a
\* database that always answer in the end.  ATMs, midnight and faults owe nothing.
Fairness == \A p \in Watchers : WF_vars(Walk(p))
FairSpec == Spec /\ Fairness

-----------------------------------------------------------------------------
(***************************************************************************)
(* Properties.                                                             *)
(***************************************************************************)
TypeOK ==
    /\ today \in 0..MaxDay
    /\ data \in [Files -> Seq(Token)] /\ \A f \in Files : Len(data[f]) <= MaxLen
    /\ mtime \in [Files -> Nat]
    /\ row \in [Files -> Row]
    /\ stored \in [Files -> [Pos -> 0..MaxCopies]]
    /\ oldDocs \in [Files -> SUBSET Pos]
    /\ proc \in [Indexers -> [pc : Steps, pass : Passes, todo : SUBSET Files, expired : BOOLEAN]]
    /\ job \in [Indexers -> [file : Files, size : Nat, mtime : Nat, mode : Modes, offset : Nat,
          known : AtmType \cup {""}, lines : Nat, prev : Nat, txns : SUBSET Pos,
          newOffset : Nat, newLines : Nat, type : AtmType \cup {""}]]
    /\ torn \in [Files -> BOOLEAN]
    /\ faults \in 0..MaxFaults
    /\ cuts \in 0..MaxCuts

\* A row that the next pass to reach the journal answers with a full reparse.
NeedsRebuild(f) ==
    row[f].present /\ (Upgrade(row[f]) \/ NoOffset(row[f]) \/ Shrunk(row[f], Len(data[f])))

\* The blocks of a journal that hold a transaction, complete so far.
Complete(f) == TxnEnds(data[f], 0, FileType[f], FileType[f])
Searchable(f) == {e \in Pos : stored[f][e] > 0}

\* No transaction is lost for good: every complete transaction before the resume
\* point of a journal is searchable, unless the row still asks for a rebuild.
NoSilentLoss ==
    \A f \in Files : row[f].present /\ ~NeedsRebuild(f) =>
        \A e \in Complete(f) : e <= row[f].offset => e \in Searchable(f)

\* The same once every indexer has left the journal: what is missing then stays missing.
NoLossAtRest ==
    \A f \in Files :
        (row[f].present /\ ~NeedsRebuild(f) /\ \A p \in Indexers : ~Working(p, f))
        => \A e \in Complete(f) : e <= row[f].offset => e \in Searchable(f)

\* Resuming is exact: the blocks found from the resume point are those a parse of
\* the whole journal finds behind it, so an append neither cuts a block in two nor
\* joins two of them, and the line numbers continue from the lines consumed.
ResumePointExact ==
    \A f \in Files : row[f].present /\ ~NeedsRebuild(f) =>
        /\ row[f].lines = row[f].offset
        /\ \A e \in Pos : e > row[f].offset =>
              (EndsTxn(data[f], 0, e) <=> EndsTxn(data[f], row[f].offset, e))

\* A row that claims the current schema has no transaction of an older parser left.
SchemaHonest ==
    \A f \in Files : row[f].present /\ row[f].schema = Schema => oldDocs[f] = {}

\* A transaction is stored twice only after an append whose row was lost, over the
\* documents of a lost first insert, or while the row asks for a rebuild.
DuplicatesOnlyWhenTorn ==
    \A f \in Files : (\E e \in Pos : stored[f][e] > 1) => torn[f] \/ NeedsRebuild(f)

\* The registered count is the number of transactions stored before the resume
\* point, whenever nobody works on the journal.
CountMatches ==
    \A f \in Files :
        (/\ row[f].present /\ ~NeedsRebuild(f) /\ ~torn[f]
         /\ \A p \in Indexers : ~Working(p, f))
        => row[f].count = Cardinality({e \in Searchable(f) : e <= row[f].offset})

\* The line up to which a row vouches for its journal.
Indexed(f) == IF row[f].present /\ ~NeedsRebuild(f) THEN row[f].offset ELSE 0

Index(f) == INSTANCE EJIndex WITH
    complete <- Complete(f), found <- Searchable(f), reached <- Indexed(f)

\* The indexer keeps the promise of EJIndex: while a row vouches for a journal up
\* to its offset, no step takes a transaction away, moves the offset back other
\* than to the start, or moves it over a transaction that is not stored.
KeepsIndex ==
    /\ \A f \in Files : Index(f)!Init
    /\ [][\A f \in Files : [Index(f)!Next]_(Index(f)!vars)]_vars

\* Every complete transaction becomes searchable, whatever day its journal is of.
EventuallySearchable ==
    \A f \in Files : \A e \in Pos : e \in Complete(f) ~> e \in Searchable(f)
=============================================================================
