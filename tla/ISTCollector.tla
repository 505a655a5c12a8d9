---------------------------- MODULE ISTCollector ----------------------------
(***************************************************************************)
(* The IST health feed: one goroutine follows the monitor's log over SSH,  *)
(* keeps the snapshot of the latest complete cycle and fans it out to the  *)
(* websocket subscribers through channels of one slot.  A subscriber that  *)
(* finds no snapshot tails the log itself.  The collector's lock covers    *)
(* its fields and not the sends, so frames of several goroutines overtake  *)
(* one another.                                                            *)
(*                                                                         *)
(* Of the log only the two lines that delimit a cycle matter: MONITOR      *)
(* RESULT BEGIN and ALERT RESULT END, each with the number of its cycle.   *)
(***************************************************************************)
EXTENDS Naturals, SequencesExt, SSHClient

CONSTANTS
    Subs,           \* the browsers
    Guests,         \* browsers that are gone before their socket is open
    Loop,           \* the collector's own goroutine
    FaultsAmongGuests,  \* whether faults and guests come in one behaviour: a bound of the runs
    TailLines,      \* how many lines tail shows
    MaxCycle,       \* bound on cycle numbers: the last one stands for all later ones
    MaxPipe         \* bound on lines between the switch and the reader

ASSUME ISTAssumption ==
    /\ IsFiniteSet(Subs) /\ Guests \cap Subs = {} /\ Loop \notin Subs \cup Guests
    /\ Users = Subs \cup Guests \cup {Loop}
    /\ FaultsAmongGuests \in BOOLEAN
    /\ TailLines \in Nat \ {0} /\ MaxCycle \in Nat \ {0} /\ MaxPipe \in Nat

VARIABLES
    log,        \* the last TailLines lines of monitor-ist.debug
    pipe,       \* lines that tail -F has printed and nobody has read
    parser,     \* streamParser: the cycle it is in, 0 before a BEGIN
    latest,     \* the collector's latest snapshot
    live,       \* and whether it believes the stream is up
    pc,         \* where each goroutine is
    tailed,     \* the last complete cycle of the tail that it has fetched
    sends,      \* frames that each goroutine has yet to send
    chan,       \* each subscriber's channel
    view,       \* what each browser shows
    faulty      \* whether anything may fail: chosen once

vars == <<log, pipe, parser, latest, live, pc, tailed, sends, chan, view, faulty, client, session>>

-----------------------------------------------------------------------------
(***************************************************************************)
(* The log and its parser.                                                 *)
(***************************************************************************)
Line == [kind : {"begin", "end"}, cycle : 1..MaxCycle]
Begin(n) == [kind |-> "begin", cycle |-> n]
End(n) == [kind |-> "end", cycle |-> n]

\* A snapshot built from the lines of one cycle has the same number twice.
Snapshot == [from : 0..MaxCycle, to : 0..MaxCycle]
None == [from |-> 0, to |-> 0]

\* Mutant: a cycle joined in the middle is published.
Emits_Partial(p, line) == line.kind = "end"

\* AddLine returns a snapshot at an END whose BEGIN it has seen.
Emits(p, line) == line.kind = "end" /\ p # 0
Parsed(p, line) == [from |-> p, to |-> line.cycle]
NextParser(line) == IF line.kind = "begin" THEN line.cycle ELSE 0

\* What a fresh parser keeps of the lines of a tail: the last complete cycle.
LastComplete(lines) ==
    LET ends == {i \in 2..Len(lines) : lines[i].kind = "end" /\ lines[i - 1].kind = "begin"}
        last == {i \in ends : \A j \in ends : j <= i}
    IN  IF last = {} THEN None
        ELSE LET e == CHOOSE i \in last : TRUE IN Parsed(lines[e - 1].cycle, lines[e])

-----------------------------------------------------------------------------
(***************************************************************************)
(* Frames, channels and the sends that wait outside the lock.              *)
(***************************************************************************)
Frame == [live : BOOLEAN, snap : Snapshot]
Status(l) == [live |-> l, snap |-> None]
SnapshotFrame(l, s) == [live |-> l, snap |-> s]

Registered == {s \in Subs : pc[s] # "out"}

Stages == {"once", "try", "drain", "retry"}
Send == [frame : Frame, stage : Stages]
Once(frame) == [frame |-> frame, stage |-> "once"]

\* Mutant: a full slot keeps its old frame.
Latest_NoEvict(frame) == Once(frame)

\* sendLatest: try, throw the buffered frame away, try again.
Latest(frame) == [frame |-> frame, stage |-> "try"]

\* What a goroutine still has to send, subscriber by subscriber.
ToEach(order, sendings) == [i \in 1..Len(order) |-> [to |-> order[i], sendings |-> sendings]]

Idle(u) == sends[u] = <<>>

\* A goroutine has at most one of these for each subscriber; one that has left gets nothing.
Without(works, s) ==
    IF \E i \in DOMAIN works : works[i].to = s
    THEN RemoveAt(works, CHOOSE i \in DOMAIN works : works[i].to = s)
    ELSE works

\* publish: the snapshot is stored under the lock, the frames go out later.
Publish(u, snap) ==
    /\ latest' = snap
    /\ \E order \in SetToSeqs(Registered) :
          sends' = [sends EXCEPT ![u] = ToEach(order, <<Latest(SnapshotFrame(live, snap))>>)]

\* Mutant: subscribers hear of a lost stream only when it was up.
SetStatus_OnChange(u, l) ==
    /\ live' = l
    /\ \E order \in SetToSeqs(IF live = l THEN {} ELSE Registered) :
          sends' = [sends EXCEPT ![u] = ToEach(order,
              IF l \/ latest = None THEN <<Once(Status(l))>>
              ELSE <<Once(Status(l)), Latest(SnapshotFrame(FALSE, latest))>>)]

\* setStatus: a lost stream is announced together with the last snapshot.
SetStatus(u, l) ==
    /\ live' = l
    /\ \E order \in SetToSeqs(Registered) :
          sends' = [sends EXCEPT ![u] = ToEach(order,
              IF l \/ latest = None THEN <<Once(Status(l))>>
              ELSE <<Once(Status(l)), Latest(SnapshotFrame(FALSE, latest))>>)]

-----------------------------------------------------------------------------
Init ==
    /\ log = <<>> /\ pipe = <<>>
    /\ parser = 0 /\ latest = None /\ live = FALSE
    /\ pc = [u \in Users |-> IF u = Loop THEN "seed" ELSE "out"]
    /\ tailed = [u \in Users |-> None]
    /\ sends = [u \in Users |-> <<>>]
    /\ chan = [s \in Subs |-> <<>>]
    /\ view = [s \in Subs |-> [live |-> FALSE, snap |-> None]]
    /\ faulty \in BOOLEAN
    /\ SSHInit

collectorVars == <<parser, latest, live>>
feedVars == <<sends, chan, view, faulty>>
Goto(u, step) == pc' = [pc EXCEPT ![u] = step]

-----------------------------------------------------------------------------
(***************************************************************************)
(* The switch: the monitor writes one cycle after another.                 *)
(***************************************************************************)
NextLine ==
    IF log = <<>> THEN Begin(1)
    ELSE LET l == log[Len(log)]
         IN  IF l.kind = "begin" THEN End(l.cycle)
             ELSE Begin(IF l.cycle < MaxCycle THEN l.cycle + 1 ELSE l.cycle)

LastLines(lines) ==
    SubSeq(lines, IF Len(lines) > TailLines THEN Len(lines) - TailLines + 1 ELSE 1, Len(lines))

Write ==
    /\ session[Loop] = "alive" /\ pc[Loop] = "read" => Len(pipe) < MaxPipe
    /\ log' = LastLines(Append(log, NextLine))
    /\ pipe' = IF session[Loop] = "alive" /\ pc[Loop] = "read" THEN Append(pipe, NextLine) ELSE pipe
    /\ UNCHANGED <<collectorVars, pc, tailed, feedVars, sshVars>>

Drop ==
    /\ faulty
    /\ Break
    /\ UNCHANGED <<log, pipe, collectorVars, pc, tailed, feedVars>>

-----------------------------------------------------------------------------
(***************************************************************************)
(* seedFromTail, by the loop before each Follow and by a subscriber that   *)
(* found no snapshot.                                                      *)
(***************************************************************************)
\* What comes next; a guest has nobody to greet.
Seeded(u) == Goto(u, IF u = Loop THEN "follow" ELSE IF u \in Guests THEN "out" ELSE "reread")

\* No session: the dial or the new session fails.
Refused(u) ==
    /\ faulty \/ client = "broken"
    /\ NoDial \/ NoSession(u)

TailOpen(u) ==
    /\ pc[u] = "seed" /\ Idle(u)
    /\ \/ Open(u) /\ Goto(u, "tail")
       \/ Refused(u) /\ Seeded(u)
    /\ UNCHANGED <<log, pipe, collectorVars, tailed, feedVars>>

TailShown(u) ==
    /\ pc[u] = "tail" /\ session[u] = "alive"
    /\ tailed' = [tailed EXCEPT ![u] = LastComplete(log)]
    /\ CloseSession(u)
    /\ IF LastComplete(log) = None THEN Seeded(u) ELSE Goto(u, "tailed")
    /\ UNCHANGED <<log, pipe, collectorVars, feedVars>>

TailFailed(u) ==
    /\ pc[u] = "tail" /\ (faulty \/ session[u] = "dead")
    /\ Reset(u)
    /\ Seeded(u)
    /\ UNCHANGED <<log, pipe, collectorVars, tailed, feedVars>>

\* The cycle of the tail is published, whatever has been published meanwhile.
TailPublished(u) ==
    /\ pc[u] = "tailed"
    /\ Publish(u, tailed[u])
    /\ tailed' = [tailed EXCEPT ![u] = None]
    /\ Seeded(u)
    /\ UNCHANGED <<log, pipe, parser, live, chan, view, faulty, sshVars>>

-----------------------------------------------------------------------------
(***************************************************************************)
(* loop and Follow.                                                        *)
(***************************************************************************)
\* A new parser; tail -F prints the last lines first; onStart before any is read.
FollowStarts ==
    /\ pc[Loop] = "follow" /\ Idle(Loop)
    /\ Open(Loop)
    /\ parser' = 0
    /\ pipe' = log
    /\ SetStatus(Loop, TRUE)
    /\ Goto(Loop, "read")
    /\ UNCHANGED <<log, latest, tailed, chan, view, faulty>>

FollowFails ==
    /\ pc[Loop] = "follow" /\ Idle(Loop)
    /\ Refused(Loop)
    /\ parser' = 0
    /\ Goto(Loop, "down")
    /\ UNCHANGED <<log, pipe, latest, live, tailed, feedVars>>

HandleLine ==
    /\ pc[Loop] = "read" /\ Idle(Loop) /\ pipe # <<>>
    /\ IF Emits(parser, Head(pipe)) THEN Publish(Loop, Parsed(parser, Head(pipe)))
       ELSE UNCHANGED <<latest, sends>>
    /\ parser' = NextParser(Head(pipe))
    /\ pipe' = Tail(pipe)
    /\ UNCHANGED <<log, live, pc, tailed, chan, view, faulty, sshVars>>

\* The stream ends: what is left in the pipe may be read before or is lost.
FollowEnds ==
    /\ pc[Loop] = "read" /\ Idle(Loop) /\ (faulty \/ session[Loop] = "dead")
    /\ Reset(Loop)
    /\ pipe' = <<>>
    /\ Goto(Loop, "down")
    /\ UNCHANGED <<log, collectorVars, tailed, feedVars>>

\* setStatus(false) drops the parser and its half-read cycle; then the backoff.
GoDown ==
    /\ pc[Loop] = "down"
    /\ SetStatus(Loop, FALSE)
    /\ parser' = 0
    /\ Goto(Loop, "seed")
    /\ UNCHANGED <<log, pipe, latest, tailed, chan, view, faulty, sshVars>>

-----------------------------------------------------------------------------
(***************************************************************************)
(* Subscribers.                                                            *)
(***************************************************************************)
\* The goroutine that greets a subscriber with what Subscribe has read.
Greet(s) ==
    /\ Goto(s, "in")
    /\ sends' = [sends EXCEPT ![s] = ToEach(<<s>>,
          IF latest = None THEN <<Once(Status(live))>>
          ELSE <<Once(Status(live)), Once(SnapshotFrame(live, latest))>>)]

Subscribe(s) ==
    /\ pc[s] = "out"
    /\ IF latest = None THEN Goto(s, "seed") /\ UNCHANGED sends ELSE Greet(s)
    /\ UNCHANGED <<log, pipe, collectorVars, tailed, chan, view, faulty, sshVars>>

Reread(s) ==
    /\ pc[s] = "reread" /\ Idle(s)
    /\ Greet(s)
    /\ UNCHANGED <<log, pipe, collectorVars, tailed, chan, view, faulty, sshVars>>

\* A browser that goes while Subscribe still tails the log for it: whatever reaches
\* its channel is never read, so only what it sends to others is left of it.
Visit(g) ==
    /\ pc[g] = "out" /\ Idle(g) /\ latest = None
    /\ faulty => FaultsAmongGuests
    /\ Goto(g, "seed")
    /\ UNCHANGED <<log, pipe, collectorVars, tailed, feedVars, sshVars>>



\* The socket closes: cancel forgets the channel, the browser keeps its snapshot.
Leave(s) ==
    /\ pc[s] = "in"
    /\ Goto(s, "out")
    /\ chan' = [chan EXCEPT ![s] = <<>>]
    /\ sends' = [u \in Users |-> Without(sends[u], s)]
    /\ view' = [view EXCEPT ![s].live = FALSE]
    /\ UNCHANGED <<log, pipe, collectorVars, tailed, faulty, sshVars>>

\* The handler takes a frame and the browser shows it.
Deliver(s) ==
    /\ pc[s] = "in" /\ chan[s] # <<>>
    /\ LET frame == Head(chan[s])
       IN  view' = [view EXCEPT ![s] = [live |-> frame.live,
                      snap |-> IF frame.snap = None THEN @.snap ELSE frame.snap]]
    /\ chan' = [chan EXCEPT ![s] = Tail(@)]
    /\ UNCHANGED <<log, pipe, collectorVars, pc, tailed, sends, faulty, sshVars>>

-----------------------------------------------------------------------------
(***************************************************************************)
(* The sends.  Each channel operation is a step of its own.                *)
(***************************************************************************)
\* Mutant: a channel of two slots.
Room_Two(s) == Len(chan[s]) <= 1

Room(s) == chan[s] = <<>>

Put(s, frame) == chan' = [chan EXCEPT ![s] = Append(@, frame)]

\* What is left to send once the first frame of the first work is out of the way.
AfterFirst(works) ==
    IF Len(works[1].sendings) = 1 THEN Tail(works) ELSE [works EXCEPT ![1].sendings = Tail(@)]

Sent(u) == sends' = [sends EXCEPT ![u] = AfterFirst(@)]

Stage(u, stage) == sends' = [sends EXCEPT ![u][1].sendings[1].stage = stage]

SendStep(u) ==
    /\ ~Idle(u)
    /\ LET s == sends[u][1].to
           x == sends[u][1].sendings[1]
       IN  \/ x.stage # "drain" /\ Room(s) /\ Put(s, x.frame) /\ Sent(u)
           \/ x.stage \in {"once", "retry"} /\ ~Room(s) /\ Sent(u) /\ UNCHANGED chan
           \/ x.stage = "try" /\ ~Room(s) /\ Stage(u, "drain") /\ UNCHANGED chan
           \/ x.stage = "drain" /\ Stage(u, "retry")
              /\ chan' = [chan EXCEPT ![s] = IF @ = <<>> THEN @ ELSE Tail(@)]
    /\ UNCHANGED <<log, pipe, collectorVars, pc, tailed, view, faulty, sshVars>>

-----------------------------------------------------------------------------
Seeding(u) == TailOpen(u) \/ TailShown(u) \/ TailFailed(u) \/ TailPublished(u)

LoopStep == Seeding(Loop) \/ FollowStarts \/ FollowFails \/ HandleLine \/ FollowEnds \/ GoDown
    \/ SendStep(Loop)

SubscribeStep(s) == Seeding(s) \/ Reread(s) \/ SendStep(s)

GuestStep(g) == Seeding(g) \/ SendStep(g)

Next ==
    \/ Write \/ Drop \/ LoopStep
    \/ \E s \in Subs : Subscribe(s) \/ SubscribeStep(s) \/ Leave(s) \/ Deliver(s)
    \/ \E g \in Guests : Visit(g) \/ GuestStep(g)

Spec == Init /\ [][Next]_vars

\* The scheduler runs every goroutine, and the websocket handler waits at its channel
\* again and again, where the next send finds it (hence strong fairness: sendLatest
\* empties the slot in between).  The monitor owes no line, and nobody has to come or go.
Fairness ==
    /\ WF_vars(LoopStep)
    /\ \A s \in Subs : WF_vars(SubscribeStep(s))
    /\ \A g \in Guests : WF_vars(GuestStep(g))
    /\ \A s \in Subs : SF_vars(Deliver(s))
FairSpec == Spec /\ Fairness

-----------------------------------------------------------------------------
TypeOK ==
    /\ SSHTypeOK
    /\ log \in Seq(Line) /\ Len(log) <= TailLines
    /\ pipe \in Seq(Line)
    /\ parser \in 0..MaxCycle
    /\ latest \in Snapshot
    /\ live \in BOOLEAN
    /\ pc \in [Users -> {"seed", "tail", "tailed", "follow", "read", "down", "out", "reread", "in"}]
    /\ tailed \in [Users -> Snapshot]
    /\ sends \in [Users -> Seq([to : Subs, sendings : Seq(Send)])]
    /\ chan \in [Subs -> Seq(Frame)] /\ \A s \in Subs : Len(chan[s]) <= 1
    /\ view \in [Subs -> Frame]
    /\ faulty \in BOOLEAN

\* Every snapshot that is kept or shown is one complete cycle: neither a cycle
\* joined in the middle nor one that a lost stream cut in two.
Whole(snap) == snap.from = snap.to
WholeCycles ==
    /\ Whole(latest)
    /\ \A s \in Subs : Whole(view[s].snap) /\ \A i \in DOMAIN chan[s] : Whole(chan[s][i].snap)

\* A step that no other step has caused: the connection breaks, or a dial, a session
\* or a command on a sound connection fails.
Fault ==
    /\ faulty /\ client' # "up"
    /\ \/ Drop
       \/ \E u \in Users : \/ session[u] = "alive" /\ (TailFailed(u) \/ (u = Loop /\ FollowEnds))
                           \/ client # "broken" /\ Refused(u)
                              /\ pc[u] \in {"seed", "follow"} /\ pc'[u] # pc[u]

\* From some moment on there is no fault, and nobody new tails the log.
Settles ==
    /\ <>[](\A u \in Subs \cup Guests : pc[u] \in {"in", "out"})
    /\ <>[][~Fault]_vars

\* When the faults stop and no new subscriber tails the log, the stream comes back and
\* stays: no late failure keeps closing the connection that somebody else opened.
EventuallyLive == Settles => <>[]live

\* The loop has a cycle to send to a subscriber, after its greeting.
Announced(s) ==
    /\ pc[s] = "in" /\ Idle(s)
    /\ \E i \in DOMAIN sends[Loop] :
          /\ sends[Loop][i].to = s
          /\ \E x \in ToSet(sends[Loop][i].sendings) : x.stage # "retry" /\ x.frame.snap # None

\* Somebody else has an older cycle to send to it, from a tail of before.
Overtaken(s) ==
    \E u \in Users \ {Loop} : \E i \in DOMAIN sends[u] :
        /\ sends[u][i].to = s
        /\ \E x \in ToSet(sends[u][i].sendings) : x.frame.snap.to \in 1..(latest.to - 1)

\* What the loop publishes to a subscriber is shown, or something newer, without waiting
\* for the monitor's next cycle, although reconnecting repeats older cycles and although
\* frames compete for one slot; only the tail of another browser can still put an older
\* cycle in its place.
EventuallyShown ==
    Settles => \A s \in Subs :
        Announced(s) ~> (pc[s] # "in" \/ view[s].snap.to >= latest.to \/ Overtaken(s))

\* A stream that stays down is eventually shown as down.
EventuallyDown ==
    \A s \in Subs : []<>(live \/ pc[s] # "in" \/ ~view[s].live)

\* Nothing is on its way any more.
Quiet ==
    /\ pc[Loop] = "read" /\ pipe = <<>>
    /\ \A u \in Users : Idle(u)
    /\ \A s \in Subs : pc[s] \in {"out", "in"} /\ chan[s] = <<>>

\* A subscriber need not wait for the next cycle: once nothing is on its way it
\* shows a snapshot whenever the collector has one.
NeverLeftEmpty ==
    Quiet /\ latest # None => \A s \in Subs : pc[s] = "in" => view[s].snap # None
=============================================================================
