------------------------------ MODULE ISTProofs ------------------------------
(***************************************************************************)
(* Type correctness of ISTCollector and WholeCycles, for any number of     *)
(* browsers and any length of tail, from one inductive invariant: every    *)
(* snapshot that is kept, sent or shown is whole, the lines of the log and *)
(* of the pipe alternate, and the parser stands where the pipe goes on.    *)
(***************************************************************************)
EXTENDS ISTCollector, SequenceTheorems, FiniteSetTheorems, TLAPS

WholeSnapshot == {snap \in Snapshot : Whole(snap)}
WholeFrame == [live : BOOLEAN, snap : WholeSnapshot]
WholeSend == [frame : WholeFrame, stage : Stages]
Sendings == Seq(WholeSend) \ {<<>>}
Work == [to : Subs, sendings : Sendings]

Places == {"seed", "tail", "tailed", "follow", "read", "down", "out", "reread", "in"}

\* What the goroutines share, of whole snapshots only.
CollectorOK ==
    /\ latest \in WholeSnapshot
    /\ live \in BOOLEAN
    /\ pc \in [Users -> Places]
    /\ tailed \in [Users -> WholeSnapshot]
    /\ faulty \in BOOLEAN

FeedOK ==
    /\ sends \in [Users -> Seq(Work)]
    /\ chan \in [Subs -> Seq(WholeFrame)] /\ \A s \in Subs : Len(chan[s]) <= 1
    /\ view \in [Subs -> WholeFrame]

\* A line of the log and the one after it.
Follows(line, after) ==
    IF line.kind = "begin" THEN after = End(line.cycle) ELSE after.kind = "begin"

Alternates(lines) == \A i \in 1..Len(lines) : i + 1 <= Len(lines) => Follows(lines[i], lines[i + 1])

LinesOK ==
    /\ log \in Seq(Line) /\ Len(log) <= TailLines /\ Alternates(log)
    /\ pipe \in Seq(Line) /\ Alternates(pipe)
    /\ parser \in 0..MaxCycle
    /\ parser # 0 /\ pipe # <<>> => pipe[1] = End(parser)

\* While the stream is up its reader is where the pipe, and after it the log, goes on.
Reading == pc[Loop] = "read" /\ session[Loop] = "alive"
InStep ==
    Reading =>
        /\ pipe # <<>> => log # <<>> /\ pipe[Len(pipe)] = log[Len(log)]
        /\ pipe = <<>> /\ parser # 0 => log # <<>> /\ log[Len(log)] = Begin(parser)

IInv == SSHTypeOK /\ CollectorOK /\ FeedOK /\ LinesOK /\ InStep

-----------------------------------------------------------------------------
(***************************************************************************)
(* Lines.                                                                  *)
(***************************************************************************)
LEMMA LineFacts ==
    /\ \A n \in 1..MaxCycle : Begin(n) \in Line /\ End(n) \in Line
    /\ \A line \in Line : /\ line.kind \in {"begin", "end"} /\ line.cycle \in 1..MaxCycle
                          /\ line.kind = "begin" => line = Begin(line.cycle)
  BY DEF Line, Begin, End

LEMMA NextLineFollows ==
    ASSUME LinesOK
    PROVE  /\ NextLine \in Line
           /\ log # <<>> => Follows(log[Len(log)], NextLine)
  <1>1. 1 \in 1..MaxCycle
        BY ISTAssumption
  <1>2. CASE log = <<>>
        BY <1>1, <1>2, LineFacts DEF NextLine
  <1>3. CASE log # <<>>
        <2> DEFINE l == log[Len(log)]
        <2>1. l \in Line
              BY <1>3, EmptySeq, ElementOfSeq DEF LinesOK
        <2>2. l.cycle \in 1..MaxCycle /\ (l.cycle < MaxCycle => l.cycle + 1 \in 1..MaxCycle)
              BY <2>1, ISTAssumption DEF Line
        <2>3. NextLine = IF l.kind = "begin" THEN End(l.cycle)
                         ELSE Begin(IF l.cycle < MaxCycle THEN l.cycle + 1 ELSE l.cycle)
              BY <1>3 DEF NextLine
        <2> QED
            BY <2>2, <2>3, LineFacts DEF Follows, Begin
  <1> QED
      BY <1>2, <1>3

LEMMA AlternatesAppend ==
    ASSUME NEW lines \in Seq(Line), Alternates(lines), NEW line \in Line,
           lines # <<>> => Follows(lines[Len(lines)], line)
    PROVE  Alternates(Append(lines, line))
  <1>1. Len(lines) \in Nat /\ (Len(lines) = 0 => lines = <<>>)
        BY EmptySeq, LenProperties
  <1>2. SUFFICES ASSUME NEW i \in 1..(Len(lines) + 1), i + 1 <= Len(lines) + 1
                 PROVE  Follows(Append(lines, line)[i], Append(lines, line)[i + 1])
        BY AppendProperties DEF Alternates
  <1>3. i \in 1..Len(lines) /\ Append(lines, line)[i] = lines[i]
        BY <1>1, <1>2, AppendProperties
  <1>4. CASE i = Len(lines)
        BY <1>1, <1>3, <1>4, AppendProperties, EmptySeq
  <1>5. CASE i # Len(lines)
        <2>1. i + 1 \in 1..Len(lines) /\ i + 1 <= Len(lines)
              BY <1>1, <1>3, <1>5
        <2>2. Append(lines, line)[i + 1] = lines[i + 1]
              BY <2>1, AppendProperties
        <2> QED
            BY <1>3, <2>1, <2>2 DEF Alternates
  <1> QED
      BY <1>4, <1>5

LEMMA SuffixKeeps ==
    ASSUME NEW lines \in Seq(Line), Alternates(lines),
           NEW n, n = Len(lines), NEW m \in 1..n,
           NEW kept, kept = SubSeq(lines, m, n)
    PROVE  /\ kept \in Seq(Line) /\ kept # <<>>
           /\ Len(kept) = n - m + 1
           /\ kept[Len(kept)] = lines[n]
           /\ Alternates(kept)
  <1>1. n \in Nat /\ m \in Nat \ {0} /\ n - m + 1 \in Nat \ {0}
        BY LenProperties
  <1>2. \A i \in m..n : lines[i] \in Line
        BY <1>1, ElementOfSeq
  <1>3. /\ kept \in Seq(Line)
        /\ Len(kept) = n - m + 1
        /\ \A i \in 1..n - m + 1 : kept[i] = lines[m + i - 1]
        <2>1. /\ SubSeq(lines, m, n) \in Seq(Line)
              /\ Len(SubSeq(lines, m, n)) = IF m <= n THEN n - m + 1 ELSE 0
              /\ \A i \in 1..n - m + 1 : SubSeq(lines, m, n)[i] = lines[m + i - 1]
              <3>1. m \in Int /\ n \in Int
                    BY <1>1
              <3> QED
                  BY <1>2, <3>1, SubSeqProperties
        <2> QED
            BY <1>1, <2>1
  <1>4. kept # <<>>
        BY <1>1, <1>3, EmptySeq
  <1>5. kept[Len(kept)] = lines[n]
        <2>1. n - m + 1 \in 1..n - m + 1 /\ m + (n - m + 1) - 1 = n
              BY <1>1
        <2> QED
            BY <1>3, <2>1
  <1>6. Alternates(kept)
        <2> SUFFICES ASSUME NEW i \in 1..Len(kept), i + 1 <= Len(kept)
                     PROVE  Follows(kept[i], kept[i + 1])
            BY DEF Alternates
        <2>1. /\ m + i - 1 \in 1..n /\ (m + i - 1) + 1 <= n
              /\ m + (i + 1) - 1 = (m + i - 1) + 1
              /\ i \in 1..n - m + 1 /\ i + 1 \in 1..n - m + 1
              BY <1>1, <1>3
        <2>2. kept[i] = lines[m + i - 1] /\ kept[i + 1] = lines[(m + i - 1) + 1]
              BY <1>3, <2>1
        <2> QED
            BY <2>1, <2>2 DEF Alternates
  <1> QED
      BY <1>3, <1>4, <1>5, <1>6

LEMMA LastLinesKeeps ==
    ASSUME NEW lines \in Seq(Line), Alternates(lines), lines # <<>>
    PROVE  /\ LastLines(lines) \in Seq(Line)
           /\ Len(LastLines(lines)) <= TailLines
           /\ LastLines(lines) # <<>>
           /\ LastLines(lines)[Len(LastLines(lines))] = lines[Len(lines)]
           /\ Alternates(LastLines(lines))
  <1>1. Len(lines) \in Nat \ {0} /\ TailLines \in Nat \ {0}
        BY EmptySeq, ISTAssumption
  <1>2. PICK m \in 1..Len(lines) : /\ LastLines(lines) = SubSeq(lines, m, Len(lines))
                                   /\ Len(lines) - m + 1 <= TailLines
        <2>1. CASE Len(lines) > TailLines
              <3>1. /\ Len(lines) - TailLines + 1 \in 1..Len(lines)
                    /\ Len(lines) - (Len(lines) - TailLines + 1) + 1 <= TailLines
                    BY <1>1, <2>1
              <3> QED
                  BY <2>1, <3>1 DEF LastLines
        <2>2. CASE ~(Len(lines) > TailLines)
              <3>1. 1 \in 1..Len(lines) /\ Len(lines) - 1 + 1 <= TailLines
                    BY <1>1, <2>2
              <3> QED
                  BY <2>2, <3>1 DEF LastLines
        <2> QED
            BY <2>1, <2>2
  <1> QED
      BY <1>2, SuffixKeeps

LEMMA TailKeeps ==
    ASSUME NEW lines \in Seq(Line), Alternates(lines), lines # <<>>
    PROVE  /\ Head(lines) \in Line /\ Head(lines) = lines[1]
           /\ Tail(lines) \in Seq(Line) /\ Alternates(Tail(lines))
           /\ Tail(lines) = <<>> => lines[Len(lines)] = Head(lines)
           /\ Tail(lines) # <<>> => /\ Follows(Head(lines), Tail(lines)[1])
                                    /\ Tail(lines)[Len(Tail(lines))] = lines[Len(lines)]
  <1>1. Len(lines) \in Nat \ {0} /\ Head(lines) = lines[1]
        BY EmptySeq
  <1>2. /\ Head(lines) \in Line /\ Tail(lines) \in Seq(Line)
        /\ Len(Tail(lines)) = Len(lines) - 1
        /\ \A i \in 1..Len(Tail(lines)) : Tail(lines)[i] = lines[i + 1]
        BY HeadTailProperties
  <1>3. Alternates(Tail(lines))
        <2> SUFFICES ASSUME NEW i \in 1..Len(Tail(lines)), i + 1 <= Len(Tail(lines))
                     PROVE  Follows(Tail(lines)[i], Tail(lines)[i + 1])
            BY DEF Alternates
        <2>1. /\ i + 1 \in 1..Len(lines) /\ (i + 1) + 1 <= Len(lines)
              /\ i + 1 \in 1..Len(Tail(lines))
              BY <1>1, <1>2
        <2> QED
            BY <1>2, <2>1 DEF Alternates
  <1>4. ASSUME Tail(lines) = <<>> PROVE lines[Len(lines)] = Head(lines)
        BY <1>1, <1>2, <1>4, EmptySeq
  <1>5. ASSUME Tail(lines) # <<>>
        PROVE  /\ Follows(Head(lines), Tail(lines)[1])
               /\ Tail(lines)[Len(Tail(lines))] = lines[Len(lines)]
        <2>1. Len(Tail(lines)) \in Nat \ {0}
              BY <1>2, <1>5, EmptySeq
        <2>2. /\ 1 \in 1..Len(Tail(lines)) /\ Len(Tail(lines)) \in 1..Len(Tail(lines))
              /\ Len(Tail(lines)) + 1 = Len(lines)
              /\ 1 \in 1..Len(lines) /\ 1 + 1 <= Len(lines)
              BY <1>1, <1>2, <2>1
        <2> QED
            BY <1>1, <1>2, <2>2 DEF Alternates
  <1> QED
      BY <1>1, <1>2, <1>3, <1>4, <1>5

-----------------------------------------------------------------------------
(***************************************************************************)
(* Snapshots that the parsers give out.                                    *)
(***************************************************************************)
LEMMA NoneIsWhole == None \in WholeSnapshot
  BY ISTAssumption DEF None, WholeSnapshot, Snapshot, Whole

LEMMA LastCompleteIsWhole ==
    ASSUME NEW lines \in Seq(Line), Alternates(lines)
    PROVE  LastComplete(lines) \in WholeSnapshot
  <1> DEFINE ends == {i \in 2..Len(lines) : lines[i].kind = "end" /\ lines[i - 1].kind = "begin"}
             last == {i \in ends : \A j \in ends : j <= i}
             e == CHOOSE i \in last : TRUE
  <1>1. LastComplete(lines) = IF last = {} THEN None ELSE Parsed(lines[e - 1].cycle, lines[e])
        BY DEF LastComplete
  <1>2. ASSUME NEW i \in ends
        PROVE  Parsed(lines[i - 1].cycle, lines[i]) \in WholeSnapshot
        <2>1. /\ Len(lines) \in Nat
              /\ i - 1 \in 1..Len(lines) /\ i \in 1..Len(lines)
              /\ (i - 1) + 1 = i /\ (i - 1) + 1 <= Len(lines)
              BY EmptySeq, LenProperties
        <2>2. lines[i - 1] \in Line /\ lines[i] \in Line /\ lines[i - 1].kind = "begin"
              BY <2>1, ElementOfSeq
        <2>3. Follows(lines[i - 1], lines[i])
              BY <2>1 DEF Alternates
        <2>4. lines[i] = End(lines[i - 1].cycle) /\ lines[i - 1].cycle \in 1..MaxCycle
              BY <2>2, <2>3, LineFacts DEF Follows
        <2> QED
            BY <2>4, ISTAssumption DEF Parsed, End, WholeSnapshot, Snapshot, Whole
  <1>3. last # {} => e \in ends
        OBVIOUS
  <1> QED
      BY <1>1, <1>2, <1>3, NoneIsWhole

LEMMA EmitsWhole ==
    ASSUME LinesOK, pipe # <<>>, Emits(parser, Head(pipe))
    PROVE  Parsed(parser, Head(pipe)) \in WholeSnapshot
  <1>1. Head(pipe) = End(parser) /\ parser \in 0..MaxCycle
        BY EmptySeq DEF LinesOK, Emits
  <1> QED
      BY <1>1 DEF Parsed, End, WholeSnapshot, Snapshot, Whole

-----------------------------------------------------------------------------
(***************************************************************************)
(* Frames on their way.                                                    *)
(***************************************************************************)
LEMMA Actors == Loop \in Users /\ \A s \in Subs \cup Guests : s \in Users /\ s # Loop
  BY ISTAssumption

LEMMA FramesAreWhole ==
    /\ \A l \in BOOLEAN : Status(l) \in WholeFrame
    /\ \A l \in BOOLEAN, snap \in WholeSnapshot : SnapshotFrame(l, snap) \in WholeFrame
    /\ \A frame \in WholeFrame : Once(frame) \in WholeSend /\ Latest(frame) \in WholeSend
  BY NoneIsWhole DEF Status, SnapshotFrame, Once, Latest, WholeFrame, WholeSend, Stages

LEMMA FewSendings ==
    /\ \A x \in WholeSend : <<x>> \in Sendings
    /\ \A x, y \in WholeSend : <<x, y>> \in Sendings
  BY DEF Sendings

LEMMA EachIsWork ==
    ASSUME NEW order \in Seq(Subs), NEW sendings \in Sendings
    PROVE  ToEach(order, sendings) \in Seq(Work)
  <1>1. Len(order) \in Nat /\ \A i \in 1..Len(order) : order[i] \in Subs
        BY LenProperties, ElementOfSeq
  <1>2. ToEach(order, sendings) \in [1..Len(order) -> Work]
        BY <1>1 DEF ToEach, Work
  <1> QED
      BY <1>1, <1>2, SeqDef

LEMMA OrdersAreSequences ==
    ASSUME NEW R \in SUBSET Subs, NEW order \in SetToSeqs(R)
    PROVE  order \in Seq(Subs)
  <1>1. Cardinality(R) \in Nat
        BY ISTAssumption, FS_Subset, FS_CardinalityType
  <1>2. order \in [1..Cardinality(R) -> R]
        BY DEF SetToSeqs
  <1> QED
      BY <1>1, <1>2

LEMMA PublishKeeps ==
    ASSUME CollectorOK, FeedOK, NEW u \in Users, NEW snap \in WholeSnapshot, Publish(u, snap)
    PROVE  latest' \in WholeSnapshot /\ sends' \in [Users -> Seq(Work)]
  <1>1. Registered \in SUBSET Subs
        BY DEF Registered
  <1>2. <<Latest(SnapshotFrame(live, snap))>> \in Sendings
        BY FramesAreWhole, FewSendings DEF CollectorOK
  <1>3. PICK order \in SetToSeqs(Registered) :
            sends' = [sends EXCEPT ![u] = ToEach(order, <<Latest(SnapshotFrame(live, snap))>>)]
        BY DEF Publish
  <1>4. ToEach(order, <<Latest(SnapshotFrame(live, snap))>>) \in Seq(Work)
        BY <1>1, <1>2, OrdersAreSequences, EachIsWork
  <1> QED
      BY <1>3, <1>4 DEF Publish, FeedOK

LEMMA SetStatusKeeps ==
    ASSUME CollectorOK, FeedOK, NEW u \in Users, NEW l \in BOOLEAN, SetStatus(u, l)
    PROVE  live' \in BOOLEAN /\ sends' \in [Users -> Seq(Work)]
  <1> DEFINE sendings == IF l \/ latest = None THEN <<Once(Status(l))>>
                         ELSE <<Once(Status(l)), Latest(SnapshotFrame(FALSE, latest))>>
  <1>1. Registered \in SUBSET Subs
        BY DEF Registered
  <1>2. sendings \in Sendings
        BY FramesAreWhole, FewSendings DEF CollectorOK
  <1>3. PICK order \in SetToSeqs(Registered) :
            sends' = [sends EXCEPT ![u] = ToEach(order, sendings)]
        BY DEF SetStatus
  <1> HIDE DEF sendings
  <1>4. ToEach(order, sendings) \in Seq(Work)
        BY <1>1, <1>2, OrdersAreSequences, EachIsWork
  <1> QED
      BY <1>3, <1>4 DEF SetStatus, FeedOK

LEMMA GreetKeeps ==
    ASSUME CollectorOK, FeedOK, NEW s \in Subs, Greet(s)
    PROVE  pc' \in [Users -> Places] /\ sends' \in [Users -> Seq(Work)]
  <1> DEFINE sendings == IF latest = None THEN <<Once(Status(live))>>
                         ELSE <<Once(Status(live)), Once(SnapshotFrame(live, latest))>>
  <1>1. sendings \in Sendings
        BY FramesAreWhole, FewSendings DEF CollectorOK
  <1>2. sends' = [sends EXCEPT ![s] = ToEach(<<s>>, sendings)]
        BY DEF Greet
  <1> HIDE DEF sendings
  <1>3. ToEach(<<s>>, sendings) \in Seq(Work)
        <2>1. <<s>> \in Seq(Subs)
              OBVIOUS
        <2> QED
            BY <1>1, <2>1, EachIsWork
  <1> QED
      BY <1>2, <1>3, Actors DEF Greet, Goto, FeedOK, CollectorOK, Places

LEMMA WithoutIsWork ==
    ASSUME NEW works \in Seq(Work), NEW s
    PROVE  Without(works, s) \in Seq(Work)
  <1> SUFFICES ASSUME NEW i \in DOMAIN works
               PROVE  RemoveAt(works, i) \in Seq(Work)
      BY DEF Without
  <1>1. Len(works) \in Nat /\ i \in 1..Len(works)
        BY LenProperties
  <1>2. \A j \in 1..Len(works) : works[j] \in Work
        BY ElementOfSeq
  <1>3. SubSeq(works, 1, i - 1) \in Seq(Work)
        <2>1. \A j \in 1..(i - 1) : works[j] \in Work
              BY <1>1, <1>2
        <2>2. 1 \in Int /\ i - 1 \in Int
              BY <1>1
        <2> QED
            BY <2>1, <2>2, SubSeqProperties
  <1>4. SubSeq(works, i + 1, Len(works)) \in Seq(Work)
        <2>1. \A j \in (i + 1)..Len(works) : works[j] \in Work
              BY <1>1, <1>2
        <2>2. i + 1 \in Int /\ Len(works) \in Int
              BY <1>1
        <2> QED
            BY <2>1, <2>2, SubSeqProperties
  <1> QED
      BY <1>3, <1>4, ConcatProperties DEF RemoveAt

\* The sending that is next, and what is left of the work once it is done.
LEMMA NextSending ==
    ASSUME NEW works \in Seq(Work), works # <<>>
    PROVE  /\ works[1] \in Work /\ works[1].to \in Subs
           /\ works[1].sendings \in Seq(WholeSend)
           /\ works[1].sendings[1] \in WholeSend
           /\ AfterFirst(works) \in Seq(Work)
           /\ \A stage \in Stages :
                  [works EXCEPT ![1].sendings[1].stage = stage] \in Seq(Work)
  <1> DEFINE first == works[1].sendings
  <1>1. Len(works) \in Nat /\ 1 \in 1..Len(works)
        BY EmptySeq
  <1>2. works[1] \in Work /\ works[1].to \in Subs /\ first \in Sendings
        <2>1. works[1] \in Work
              BY <1>1, ElementOfSeq
        <2> QED
            BY <2>1 DEF Work
  <1>3. first \in Seq(WholeSend) /\ Len(first) \in Nat \ {0} /\ 1 \in 1..Len(first)
        BY <1>2, EmptySeq DEF Sendings
  <1>4. first[1] \in WholeSend
        BY <1>3, ElementOfSeq
  <1>5. Tail(works) \in Seq(Work)
        BY HeadTailProperties
  <1>6. ASSUME NEW sendings \in Sendings
        PROVE  [works EXCEPT ![1].sendings = sendings] \in Seq(Work)
        <2> HIDE DEF first
        <2>1. [works[1] EXCEPT !.sendings = sendings] \in Work
              BY <1>2, <1>6 DEF Work
        <2>2. [works EXCEPT ![1] = [works[1] EXCEPT !.sendings = sendings]] \in Seq(Work)
              BY <1>1, <2>1, ExceptSeq
        <2> QED
            BY <2>2
  <1>7. ASSUME Len(first) # 1
        PROVE  [works EXCEPT ![1].sendings = Tail(@)] \in Seq(Work)
        <2>1. Tail(first) \in Seq(WholeSend) /\ Len(Tail(first)) = Len(first) - 1
              BY <1>3, EmptySeq, HeadTailProperties
        <2>2. Tail(first) # <<>>
              <3>1. Len(Tail(first)) # 0
                    BY <1>3, <1>7, <2>1
              <3> QED
                  BY <3>1, EmptySeq
        <2> QED
            BY <1>6, <2>1, <2>2 DEF Sendings
  <1>8. AfterFirst(works) \in Seq(Work)
        BY <1>5, <1>7 DEF AfterFirst
  <1>9. ASSUME NEW stage \in Stages
        PROVE  [works EXCEPT ![1].sendings[1].stage = stage] \in Seq(Work)
        <2>1. [first[1] EXCEPT !.stage = stage] \in WholeSend
              BY <1>4 DEF WholeSend
        <2>2. /\ [first EXCEPT ![1] = [first[1] EXCEPT !.stage = stage]] \in Seq(WholeSend)
              /\ Len([first EXCEPT ![1] = [first[1] EXCEPT !.stage = stage]]) = Len(first)
              BY <1>3, <2>1, ExceptSeq
        <2>3. [first EXCEPT ![1] = [first[1] EXCEPT !.stage = stage]] \in Sendings
              BY <1>3, <2>2, EmptySeq DEF Sendings
        <2> QED
            BY <1>6, <2>3
  <1> QED
      BY <1>2, <1>3, <1>4, <1>8, <1>9

-----------------------------------------------------------------------------
(***************************************************************************)
(* The steps.                                                              *)
(***************************************************************************)
\* Whatever happens to the connection, only an Open of its own brings a session up.
LEMMA SSHSteps ==
    ASSUME SSHTypeOK, NEW u \in Users
    PROVE  /\ Open(u) => SSHTypeOK' /\ (u # Loop => session'[Loop] = session[Loop])
           /\ \/ Reset(u) \/ NoDial \/ NoSession(u) \/ CloseSession(u) \/ Break
              => SSHTypeOK' /\ (session'[Loop] = "alive" => session[Loop] = "alive")
  BY Actors DEF SSHTypeOK, Open, Reset, NoDial, NoSession, CloseSession, Break, Killed,
        Clients, Sessions, sshVars

LEMMA InStepStays ==
    ASSUME LinesOK, InStep, UNCHANGED <<log, pipe, parser>>, Reading' => Reading
    PROVE  LinesOK' /\ InStep'
  BY DEF LinesOK, InStep, Reading, Alternates, Follows

LEMMA FeedStays ==
    ASSUME FeedOK, UNCHANGED <<chan, view>>, sends' \in [Users -> Seq(Work)]
    PROVE  FeedOK'
  BY DEF FeedOK

LEMMA InitIInv == Init => IInv
  <1> SUFFICES ASSUME Init PROVE IInv
      OBVIOUS
  <1>1. SSHTypeOK
        BY DEF Init, SSHInit, SSHTypeOK, Clients, Sessions
  <1>2. CollectorOK
        BY NoneIsWhole DEF Init, CollectorOK, Places
  <1>3. FeedOK
        <2>1. \A S : <<>> \in Seq(S) /\ Len(<<>>) <= 1
              BY EmptySeq
        <2> QED
            BY <2>1, NoneIsWhole DEF Init, FeedOK, WholeFrame
  <1>4. LinesOK
        <2>1. <<>> \in Seq(Line) /\ Len(<<>>) = 0
              BY EmptySeq
        <2> QED
            BY <2>1, ISTAssumption DEF Init, LinesOK, Alternates
  <1>5. InStep
        BY Actors DEF Init, InStep, Reading
  <1> QED
      BY <1>1, <1>2, <1>3, <1>4, <1>5 DEF IInv

LEMMA WriteKeeps == IInv /\ Write => IInv'
  <1> SUFFICES ASSUME IInv, Write PROVE IInv'
      OBVIOUS
  <1> USE DEF IInv
  <1>1. SSHTypeOK' /\ CollectorOK' /\ FeedOK'
        BY DEF Write, collectorVars, feedVars, sshVars, SSHTypeOK, CollectorOK, FeedOK
  <1>2. /\ Append(log, NextLine) \in Seq(Line) /\ Append(log, NextLine) # <<>>
        /\ Alternates(Append(log, NextLine))
        /\ Append(log, NextLine)[Len(Append(log, NextLine))] = NextLine
        BY NextLineFollows, AlternatesAppend, AppendProperties DEF LinesOK
  <1>3. /\ log' \in Seq(Line) /\ Len(log') <= TailLines /\ log' # <<>>
        /\ Alternates(log') /\ log'[Len(log')] = NextLine
        BY <1>2, LastLinesKeeps DEF Write
  <1>4. parser' = parser /\ (Reading' <=> Reading)
        BY DEF Write, collectorVars, sshVars, Reading
  <1>5. CASE Reading
        <2>1. pipe' = Append(pipe, NextLine)
              BY <1>5 DEF Write, Reading
        <2>2. pipe # <<>> => Follows(pipe[Len(pipe)], NextLine)
              BY <1>5, NextLineFollows DEF InStep
        <2>3. /\ pipe' \in Seq(Line) /\ pipe' # <<>> /\ Alternates(pipe')
              /\ pipe'[Len(pipe')] = NextLine
              BY <2>1, <2>2, NextLineFollows, AlternatesAppend, AppendProperties DEF LinesOK
        <2>4. parser # 0 => pipe'[1] = End(parser)
              <3>1. CASE pipe = <<>>
                    <4>1. pipe'[1] = NextLine
                          BY <2>1, <3>1
                    <4>2. parser # 0 => log # <<>> /\ log[Len(log)] = Begin(parser)
                          BY <1>5, <3>1 DEF InStep
                    <4> QED
                        BY <4>1, <4>2 DEF NextLine, Begin, End
              <3>2. CASE pipe # <<>>
                    <4>1. 1 \in 1..Len(pipe)
                          BY <3>2, EmptySeq DEF LinesOK
                    <4>2. pipe'[1] = pipe[1]
                          BY <2>1, <4>1, NextLineFollows, AppendProperties DEF LinesOK
                    <4> QED
                        BY <3>2, <4>2 DEF LinesOK
              <3> QED
                  BY <3>1, <3>2
        <2>5. LinesOK'
              BY <1>3, <1>4, <2>3, <2>4 DEF LinesOK, Alternates, Follows
        <2>6. InStep'
              BY <1>3, <2>3 DEF InStep
        <2> QED
            BY <1>1, <2>5, <2>6
  <1>6. CASE ~Reading
        <2>1. pipe' = pipe
              BY <1>6 DEF Write, Reading
        <2>2. LinesOK'
              BY <1>3, <1>4, <2>1 DEF LinesOK, Alternates, Follows
        <2>3. InStep'
              BY <1>4, <1>6 DEF InStep
        <2> QED
            BY <1>1, <2>2, <2>3
  <1> QED
      BY <1>5, <1>6

LEMMA DropKeeps == IInv /\ Drop => IInv'
  <1> SUFFICES ASSUME IInv, Drop PROVE IInv'
      OBVIOUS
  <1> USE DEF IInv
  <1>1. SSHTypeOK' /\ (Reading' => Reading)
        BY SSHSteps, Actors DEF Drop, Reading
  <1>2. CollectorOK' /\ FeedOK'
        BY DEF Drop, collectorVars, feedVars, CollectorOK, FeedOK
  <1>3. LinesOK' /\ InStep'
        BY <1>1, InStepStays DEF Drop, collectorVars
  <1> QED
      BY <1>1, <1>2, <1>3

\* A seeding goroutine goes on to a place where it is not reading the stream.
LEMMA SeedingStays ==
    ASSUME CollectorOK, NEW u \in Users, pc[u] \in {"seed", "tail", "tailed"},
           Seeded(u) \/ Goto(u, "tail") \/ Goto(u, "tailed")
    PROVE  pc' \in [Users -> Places] /\ (pc'[Loop] = "read" => u # Loop /\ pc[Loop] = "read")
  BY Actors DEF CollectorOK, Seeded, Goto, Places

LEMMA TailOpenKeeps ==
    ASSUME IInv, NEW u \in Users, TailOpen(u)
    PROVE  IInv'
  <1> USE DEF IInv
  <1>1. pc' \in [Users -> Places] /\ (pc'[Loop] = "read" => u # Loop /\ pc[Loop] = "read")
        BY SeedingStays DEF TailOpen
  <1>2. SSHTypeOK' /\ (Reading' => Reading)
        BY <1>1, SSHSteps DEF TailOpen, Refused, Reading
  <1>3. CollectorOK' /\ FeedOK'
        BY <1>1 DEF TailOpen, collectorVars, feedVars, CollectorOK, FeedOK
  <1>4. LinesOK' /\ InStep'
        BY <1>2, InStepStays DEF TailOpen, collectorVars
  <1> QED
      BY <1>2, <1>3, <1>4

LEMMA TailShownKeeps ==
    ASSUME IInv, NEW u \in Users, TailShown(u)
    PROVE  IInv'
  <1> USE DEF IInv
  <1>1. pc' \in [Users -> Places] /\ (pc'[Loop] = "read" => u # Loop /\ pc[Loop] = "read")
        BY SeedingStays DEF TailShown
  <1>2. SSHTypeOK' /\ (Reading' => Reading)
        BY <1>1, SSHSteps DEF TailShown, Reading
  <1>3. LastComplete(log) \in WholeSnapshot
        BY LastCompleteIsWhole DEF LinesOK
  <1>4. CollectorOK' /\ FeedOK'
        BY <1>1, <1>3 DEF TailShown, collectorVars, feedVars, CollectorOK, FeedOK
  <1>5. LinesOK' /\ InStep'
        BY <1>2, InStepStays DEF TailShown, collectorVars
  <1> QED
      BY <1>2, <1>4, <1>5

LEMMA TailPublishedKeeps ==
    ASSUME IInv, NEW u \in Users, TailPublished(u)
    PROVE  IInv'
  <1> USE DEF IInv
  <1>1. pc' \in [Users -> Places] /\ (pc'[Loop] = "read" => u # Loop /\ pc[Loop] = "read")
        BY SeedingStays DEF TailPublished
  <1>2. SSHTypeOK' /\ (Reading' => Reading)
        BY <1>1 DEF TailPublished, Reading, SSHTypeOK, sshVars
  <1>3. latest' \in WholeSnapshot /\ sends' \in [Users -> Seq(Work)]
        BY PublishKeeps DEF TailPublished, CollectorOK
  <1>4. tailed' \in [Users -> WholeSnapshot]
        BY NoneIsWhole DEF TailPublished, CollectorOK
  <1>5. CollectorOK' /\ FeedOK'
        BY <1>1, <1>3, <1>4, FeedStays DEF TailPublished, CollectorOK
  <1>6. LinesOK' /\ InStep'
        BY <1>2, InStepStays DEF TailPublished
  <1> QED
      BY <1>2, <1>5, <1>6

LEMMA TailFailedKeeps ==
    ASSUME IInv, NEW u \in Users, TailFailed(u)
    PROVE  IInv'
  <1> USE DEF IInv
  <1>1. pc' \in [Users -> Places] /\ (pc'[Loop] = "read" => u # Loop /\ pc[Loop] = "read")
        BY SeedingStays DEF TailFailed
  <1>2. SSHTypeOK' /\ (Reading' => Reading)
        BY <1>1, SSHSteps DEF TailFailed, Reading
  <1>3. CollectorOK' /\ FeedOK'
        BY <1>1 DEF TailFailed, collectorVars, feedVars, CollectorOK, FeedOK
  <1>4. LinesOK' /\ InStep'
        BY <1>2, InStepStays DEF TailFailed, collectorVars
  <1> QED
      BY <1>2, <1>3, <1>4

LEMMA FollowStartsKeeps == IInv /\ FollowStarts => IInv'
  <1> SUFFICES ASSUME IInv, FollowStarts PROVE IInv'
      OBVIOUS
  <1> USE DEF IInv
  <1>1. SSHTypeOK'
        BY SSHSteps, Actors DEF FollowStarts
  <1>2. live' \in BOOLEAN /\ sends' \in [Users -> Seq(Work)]
        BY SetStatusKeeps, Actors DEF FollowStarts
  <1>3. CollectorOK' /\ FeedOK'
        BY <1>2, FeedStays DEF FollowStarts, CollectorOK, Goto, Places
  <1>4. LinesOK' /\ InStep'
        BY ISTAssumption DEF FollowStarts, LinesOK, InStep, Alternates, Follows
  <1> QED
      BY <1>1, <1>3, <1>4

LEMMA FollowFailsKeeps == IInv /\ FollowFails => IInv'
  <1> SUFFICES ASSUME IInv, FollowFails PROVE IInv'
      OBVIOUS
  <1> USE DEF IInv
  <1>1. SSHTypeOK' /\ pc'[Loop] # "read"
        <2>1. NoDial \/ NoSession(Loop)
              BY DEF FollowFails, Refused
        <2>2. SSHTypeOK'
              BY <2>1, SSHSteps, Actors
        <2> QED
            BY <2>2, Actors DEF FollowFails, Goto, CollectorOK
  <1>2. CollectorOK' /\ FeedOK'
        <2>1. pc' \in [Users -> Places]
              BY Actors DEF FollowFails, Goto, CollectorOK, Places
        <2> QED
            BY <2>1 DEF FollowFails, feedVars, CollectorOK, FeedOK
  <1>3. LinesOK' /\ InStep'
        <2>1. UNCHANGED <<log, pipe>> /\ parser' = 0
              BY DEF FollowFails
        <2>2. LinesOK'
              BY <2>1, ISTAssumption DEF LinesOK, Alternates, Follows
        <2> QED
            BY <1>1, <2>2 DEF InStep, Reading
  <1> QED
      BY <1>1, <1>2, <1>3

LEMMA HandleLineKeeps == IInv /\ HandleLine => IInv'
  <1> SUFFICES ASSUME IInv, HandleLine PROVE IInv'
      OBVIOUS
  <1> USE DEF IInv
  <1>1. SSHTypeOK'
        BY DEF HandleLine, SSHTypeOK, sshVars
  <1>2. latest' \in WholeSnapshot /\ sends' \in [Users -> Seq(Work)]
        <2>1. CASE Emits(parser, Head(pipe))
              BY <2>1, EmitsWhole, PublishKeeps, Actors DEF HandleLine
        <2>2. CASE ~Emits(parser, Head(pipe))
              BY <2>2 DEF HandleLine, CollectorOK, FeedOK
        <2> QED
            BY <2>1, <2>2
  <1>3. CollectorOK' /\ FeedOK'
        BY <1>2, FeedStays DEF HandleLine, CollectorOK
  <1>4. /\ Head(pipe) \in Line
        /\ pipe' \in Seq(Line) /\ Alternates(pipe')
        /\ pipe' = <<>> => pipe[Len(pipe)] = Head(pipe)
        /\ pipe' # <<>> => Follows(Head(pipe), pipe'[1]) /\ pipe'[Len(pipe')] = pipe[Len(pipe)]
        BY TailKeeps DEF HandleLine, LinesOK
  <1>5. /\ parser' \in 0..MaxCycle
        /\ parser' # 0 => Head(pipe) = Begin(parser') /\ Head(pipe).kind = "begin"
        BY <1>4, LineFacts, ISTAssumption DEF HandleLine, NextParser
  <1>6. LinesOK'
        <2>1. parser' # 0 /\ pipe' # <<>> => pipe'[1] = End(parser')
              BY <1>4, <1>5 DEF Follows, Begin
        <2> QED
            BY <1>4, <1>5, <2>1 DEF HandleLine, LinesOK, Alternates, Follows
  <1>7. InStep'
        <2>1. (Reading' <=> Reading) /\ pipe # <<>> /\ log' = log
              BY DEF HandleLine, Reading, sshVars
        <2>2. Reading => log # <<>> /\ pipe[Len(pipe)] = log[Len(log)]
              BY <2>1 DEF InStep
        <2> QED
            BY <1>4, <1>5, <2>1, <2>2 DEF InStep
  <1> QED
      BY <1>1, <1>3, <1>6, <1>7

LEMMA FollowEndsKeeps == IInv /\ FollowEnds => IInv'
  <1> SUFFICES ASSUME IInv, FollowEnds PROVE IInv'
      OBVIOUS
  <1> USE DEF IInv
  <1>1. SSHTypeOK' /\ pc'[Loop] # "read"
        <2>1. SSHTypeOK'
              BY SSHSteps, Actors DEF FollowEnds
        <2> QED
            BY <2>1, Actors DEF FollowEnds, Goto, CollectorOK
  <1>2. CollectorOK' /\ FeedOK'
        <2>1. pc' \in [Users -> Places]
              BY Actors DEF FollowEnds, Goto, CollectorOK, Places
        <2> QED
            BY <2>1 DEF FollowEnds, collectorVars, feedVars, CollectorOK, FeedOK
  <1>3. LinesOK' /\ InStep'
        <2>1. <<>> \in Seq(Line) /\ Len(<<>>) = 0
              BY EmptySeq
        <2> QED
            BY <1>1, <2>1 DEF FollowEnds, collectorVars, LinesOK, InStep, Reading, Alternates, Follows
  <1> QED
      BY <1>1, <1>2, <1>3

LEMMA GoDownKeeps == IInv /\ GoDown => IInv'
  <1> SUFFICES ASSUME IInv, GoDown PROVE IInv'
      OBVIOUS
  <1> USE DEF IInv
  <1>1. SSHTypeOK' /\ pc'[Loop] # "read"
        BY Actors DEF GoDown, Goto, CollectorOK, SSHTypeOK, sshVars
  <1>2. live' \in BOOLEAN /\ sends' \in [Users -> Seq(Work)]
        BY SetStatusKeeps, Actors DEF GoDown
  <1>3. CollectorOK' /\ FeedOK'
        BY <1>2, FeedStays DEF GoDown, CollectorOK, Goto, Places
  <1>4. LinesOK' /\ InStep'
        BY <1>1, ISTAssumption DEF GoDown, LinesOK, InStep, Reading, Alternates, Follows
  <1> QED
      BY <1>1, <1>3, <1>4

\* A subscriber's step leaves the loop where it is.
LEMMA SubscriberMoves ==
    ASSUME CollectorOK, NEW s \in Subs \cup Guests, NEW step \in Places, Goto(s, step)
    PROVE  pc' \in [Users -> Places] /\ pc'[Loop] = pc[Loop]
  BY ISTAssumption DEF CollectorOK, Goto

LEMMA SubscribeKeeps ==
    ASSUME IInv, NEW s \in Subs, Subscribe(s) \/ Reread(s)
    PROVE  IInv'
  <1> USE DEF IInv
  <1>1. /\ UNCHANGED <<log, pipe, parser, latest, live, chan, view, tailed, faulty>>
        /\ SSHTypeOK' /\ session' = session
        BY DEF Subscribe, Reread, collectorVars, SSHTypeOK, sshVars
  <1>2. pc' \in [Users -> Places] /\ pc'[Loop] = pc[Loop] /\ sends' \in [Users -> Seq(Work)]
        <2>1. CASE Greet(s)
              BY <2>1, GreetKeeps, SubscriberMoves DEF Greet, Places
        <2>2. CASE Goto(s, "seed") /\ UNCHANGED sends
              BY <2>2, SubscriberMoves DEF Places, FeedOK
        <2> QED
            BY <2>1, <2>2 DEF Subscribe, Reread
  <1>3. CollectorOK' /\ FeedOK'
        BY <1>1, <1>2, FeedStays DEF CollectorOK
  <1>4. LinesOK' /\ InStep'
        BY <1>1, <1>2, InStepStays DEF Reading
  <1> QED
      BY <1>1, <1>3, <1>4

LEMMA VisitKeeps ==
    ASSUME IInv, NEW g \in Guests, Visit(g)
    PROVE  IInv'
  <1> USE DEF IInv
  <1>1. pc' \in [Users -> Places] /\ pc'[Loop] = pc[Loop]
        BY SubscriberMoves DEF Visit, Places
  <1>2. SSHTypeOK' /\ CollectorOK' /\ FeedOK'
        BY <1>1 DEF Visit, collectorVars, feedVars, sshVars, SSHTypeOK, CollectorOK, FeedOK
  <1>3. LinesOK' /\ InStep'
        BY <1>1, InStepStays DEF Visit, collectorVars, sshVars, Reading
  <1> QED
      BY <1>2, <1>3

LEMMA LeaveKeeps ==
    ASSUME IInv, NEW s \in Subs, Leave(s)
    PROVE  IInv'
  <1> USE DEF IInv
  <1>1. SSHTypeOK' /\ UNCHANGED <<log, pipe, parser, latest, live, tailed, faulty, session>>
        BY DEF Leave, collectorVars, SSHTypeOK, sshVars
  <1>2. pc' \in [Users -> Places] /\ pc'[Loop] = pc[Loop]
        BY SubscriberMoves DEF Leave, Places
  <1>3. CollectorOK'
        BY <1>1, <1>2 DEF CollectorOK
  <1>4. FeedOK'
        <2>1. sends' \in [Users -> Seq(Work)]
              BY WithoutIsWork DEF Leave, FeedOK
        <2>2. chan' \in [Subs -> Seq(WholeFrame)] /\ \A t \in Subs : Len(chan'[t]) <= 1
              BY EmptySeq DEF Leave, FeedOK
        <2>3. view' \in [Subs -> WholeFrame]
              BY DEF Leave, FeedOK, WholeFrame
        <2> QED
            BY <2>1, <2>2, <2>3 DEF FeedOK
  <1>5. LinesOK' /\ InStep'
        BY <1>1, <1>2, InStepStays DEF Reading
  <1> QED
      BY <1>1, <1>3, <1>4, <1>5

LEMMA DeliverKeeps ==
    ASSUME IInv, NEW s \in Subs, Deliver(s)
    PROVE  IInv'
  <1> USE DEF IInv
  <1>1. /\ SSHTypeOK' /\ UNCHANGED <<log, pipe, parser, latest, live, pc, sends, tailed, faulty, session>>
        BY DEF Deliver, collectorVars, SSHTypeOK, sshVars
  <1>2. CollectorOK'
        BY <1>1 DEF CollectorOK
  <1>3. FeedOK'
        <2>1. /\ chan[s] \in Seq(WholeFrame) /\ chan[s] # <<>>
              /\ Head(chan[s]) \in WholeFrame /\ Tail(chan[s]) \in Seq(WholeFrame)
              /\ Len(Tail(chan[s])) = Len(chan[s]) - 1 /\ Len(chan[s]) <= 1 /\ Len(chan[s]) \in Nat
              BY EmptySeq, HeadTailProperties, LenProperties DEF Deliver, FeedOK
        <2>2. chan' = [chan EXCEPT ![s] = Tail(chan[s])]
              BY DEF Deliver
        <2>3. chan' \in [Subs -> Seq(WholeFrame)] /\ \A t \in Subs : Len(chan'[t]) <= 1
              BY <2>1, <2>2 DEF FeedOK
        <2>4. view' \in [Subs -> WholeFrame]
              BY <2>1 DEF Deliver, FeedOK, WholeFrame
        <2> QED
            BY <1>1, <2>3, <2>4 DEF FeedOK
  <1>4. LinesOK' /\ InStep'
        BY <1>1, InStepStays DEF Reading
  <1> QED
      BY <1>1, <1>2, <1>3, <1>4

LEMMA ChannelStays ==
    ASSUME FeedOK, NEW s \in Subs, NEW c \in Seq(WholeFrame), Len(c) <= 1,
           chan' = [chan EXCEPT ![s] = c]
    PROVE  chan' \in [Subs -> Seq(WholeFrame)] /\ \A t \in Subs : Len(chan'[t]) <= 1
  BY DEF FeedOK

LEMMA SendStepKeeps ==
    ASSUME IInv, NEW u \in Users, SendStep(u)
    PROVE  IInv'
  <1> USE DEF IInv
  <1> DEFINE works == sends[u]
             s == works[1].to
             x == works[1].sendings[1]
  <1>1. /\ SSHTypeOK' /\ UNCHANGED <<log, pipe, parser, latest, live, pc, view, tailed, faulty, session>>
        BY DEF SendStep, collectorVars, SSHTypeOK, sshVars
  <1>2. CollectorOK' /\ LinesOK' /\ InStep'
        BY <1>1, InStepStays DEF CollectorOK, Reading
  <1>3. works \in Seq(Work) /\ works # <<>>
        BY DEF SendStep, Idle, FeedOK
  <1>4. s \in Subs /\ x \in WholeSend /\ x.frame \in WholeFrame
        <2>1. s \in Subs /\ x \in WholeSend
              BY <1>3, NextSending
        <2> QED
            BY <2>1 DEF WholeSend
  <1>5. sends' \in [Users -> Seq(Work)]
        <2>1. CASE Sent(u)
              BY <1>3, <2>1, NextSending DEF Sent, FeedOK
        <2>2. ASSUME NEW stage \in Stages, Stage(u, stage)
              PROVE  sends' \in [Users -> Seq(Work)]
              BY <1>3, <2>2, NextSending DEF Stage, FeedOK
        <2> QED
            BY <2>1, <2>2 DEF SendStep, Stages
  <1>6. chan' \in [Subs -> Seq(WholeFrame)] /\ \A t \in Subs : Len(chan'[t]) <= 1
        <2>1. chan[s] \in Seq(WholeFrame) /\ Len(chan[s]) <= 1
              BY <1>4 DEF FeedOK
        <2>2. CASE Room(s) /\ Put(s, x.frame)
              <3>1. Append(chan[s], x.frame) \in Seq(WholeFrame) /\ Len(Append(chan[s], x.frame)) = 1
                    <4> HIDE DEF s, x
                    <4>1. chan[s] = <<>>
                          BY <2>2 DEF Room
                    <4>2. Append(chan[s], x.frame) = <<x.frame>>
                          BY <4>1
                    <4>3. <<x.frame>> \in Seq(WholeFrame) /\ Len(<<x.frame>>) = 1
                          BY <1>4
                    <4> QED
                        BY <4>2, <4>3
              <3>2. chan' = [chan EXCEPT ![s] = Append(chan[s], x.frame)]
                    BY <2>2 DEF Put
              <3>3. Len(Append(chan[s], x.frame)) <= 1
                    BY <3>1
              <3> HIDE DEF s, x
              <3> QED
                  BY <1>4, <3>1, <3>2, <3>3, ChannelStays
        <2>3. CASE chan' = [chan EXCEPT ![s] = IF @ = <<>> THEN @ ELSE Tail(@)]
              <3>1. chan[s] # <<>> =>
                        Tail(chan[s]) \in Seq(WholeFrame) /\ Len(Tail(chan[s])) <= 1
                    BY <2>1, EmptySeq, HeadTailProperties
              <3> QED
                  BY <2>1, <2>3, <3>1 DEF FeedOK
        <2>4. CASE UNCHANGED chan
              BY <2>4 DEF FeedOK
        <2> QED
            BY <2>2, <2>3, <2>4 DEF SendStep
  <1>7. FeedOK'
        BY <1>1, <1>5, <1>6 DEF FeedOK
  <1> QED
      BY <1>1, <1>2, <1>7

LEMMA NextIInv == IInv /\ [Next]_vars => IInv'
  <1> SUFFICES ASSUME IInv, [Next]_vars PROVE IInv'
      OBVIOUS
  <1>1. CASE Write
        BY <1>1, WriteKeeps
  <1>2. CASE Drop
        BY <1>2, DropKeeps
  <1>3. ASSUME NEW u \in Users, Seeding(u) PROVE IInv'
        BY <1>3, TailOpenKeeps, TailShownKeeps, TailFailedKeeps, TailPublishedKeeps DEF Seeding
  <1>4. CASE LoopStep
        BY <1>3, <1>4, Actors, FollowStartsKeeps, FollowFailsKeeps, HandleLineKeeps,
           FollowEndsKeeps, GoDownKeeps, SendStepKeeps
        DEF LoopStep
  <1>5. ASSUME NEW s \in Subs, Subscribe(s) \/ SubscribeStep(s) \/ Leave(s) \/ Deliver(s)
        PROVE  IInv'
        BY <1>3, <1>5, Actors, SubscribeKeeps, SendStepKeeps, LeaveKeeps, DeliverKeeps
        DEF SubscribeStep
  <1>6. ASSUME NEW g \in Guests, Visit(g) \/ GuestStep(g)
        PROVE  IInv'
        BY <1>3, <1>6, Actors, VisitKeeps, SendStepKeeps DEF GuestStep
  <1>7. CASE UNCHANGED vars
        BY <1>7 DEF vars, sshVars, IInv, SSHTypeOK, CollectorOK, FeedOK, LinesOK, InStep, Reading,
           Alternates, Follows
  <1> QED
      BY <1>1, <1>2, <1>4, <1>5, <1>6, <1>7 DEF Next

LEMMA AlwaysIInv == Spec => []IInv
  BY InitIInv, NextIInv, PTL DEF Spec

-----------------------------------------------------------------------------
\* For any number of subscribers: whatever the goroutines read, keep, send and show has
\* its type, and no channel ever holds more than its one frame (ist_collector.go:57).
THEOREM TypeCorrect == Spec => []TypeOK
  <1>1. IInv => TypeOK
        <2> SUFFICES ASSUME IInv PROVE TypeOK
            OBVIOUS
        <2>1. WholeFrame \subseteq Frame /\ WholeSend \subseteq Send
              BY DEF WholeFrame, Frame, WholeSend, Send, WholeSnapshot
        <2>2. /\ \A x \in Seq(WholeFrame) : x \in Seq(Frame)
              /\ \A x \in Seq(WholeSend) : x \in Seq(Send)
              BY <2>1, SeqMonotonic
        <2>3. Work \subseteq [to : Subs, sendings : Seq(Send)]
              BY <2>2 DEF Work, Sendings
        <2>4. \A x \in Seq(Work) : x \in Seq([to : Subs, sendings : Seq(Send)])
              BY <2>3, SeqMonotonic
        <2>5. sends \in [Users -> Seq([to : Subs, sendings : Seq(Send)])]
              BY <2>4 DEF IInv, FeedOK
        <2>6. chan \in [Subs -> Seq(Frame)] /\ view \in [Subs -> Frame]
              BY <2>1, <2>2 DEF IInv, FeedOK
        <2> QED
            BY <2>5, <2>6 DEF IInv, TypeOK, CollectorOK, FeedOK, LinesOK, WholeSnapshot, Places
  <1> QED
      BY <1>1, AlwaysIInv, PTL

\* Neither joining the log in the middle of a cycle, nor a stream that breaks and starts
\* over, nor a tail taken at any moment makes a snapshot of two cycles (ist_parser.go:63).
THEOREM OnlyWholeCycles == Spec => []WholeCycles
  <1>1. IInv => WholeCycles
        <2> SUFFICES ASSUME IInv PROVE WholeCycles
            OBVIOUS
        <2>1. Whole(latest)
              BY DEF IInv, CollectorOK, WholeSnapshot
        <2>2. ASSUME NEW s \in Subs PROVE Whole(view[s].snap)
              BY DEF IInv, FeedOK, WholeFrame, WholeSnapshot
        <2>3. ASSUME NEW s \in Subs, NEW i \in DOMAIN chan[s]
              PROVE  Whole(chan[s][i].snap)
              <3>1. chan[s] \in Seq(WholeFrame)
                    BY DEF IInv, FeedOK
              <3>2. chan[s][i] \in WholeFrame
                    BY <3>1, LenProperties, ElementOfSeq
              <3> QED
                  BY <3>2 DEF WholeFrame, WholeSnapshot
        <2> QED
            BY <2>1, <2>2, <2>3 DEF WholeCycles
  <1> QED
      BY <1>1, AlwaysIInv, PTL
=============================================================================
