--------------------------- MODULE RustClientProofs -------------------------
(***************************************************************************)
(* Proofs about the Rust client, for any callers, frames and options, and  *)
(* any number of connections and calls: the types of its state, that the   *)
(* tasks of a session have ended before the next begins, that a request is *)
(* lost only with the writer that had it, and that none is sent twice.     *)
(***************************************************************************)
EXTENDS RustClientProps, TallyProofs

-----------------------------------------------------------------------------
(* Control: the tasks and their handles.                                   *)

Ended(k) == rpc[k] \in TaskEnded /\ wpc[k] \in TaskEnded

\* Panicked is for good, so this is said of the whole past.
NoPanic == \A k \in Conns : rpc[k] # "panicked" /\ wpc[k] # "panicked"

\* Only the newest connection can have tasks, and while it has them the
\* handles that close waits for are its own.
Session ==
    /\ \A k \in Conns : k # conn => Ended(k)
    /\ ~connected /\ apc \in {"idle", "dial", "hello"} =>
            \A k \in Conns : Ended(k)
    /\ apc = "joinRead" => readHandle = conn /\ writeHandle = conn
    /\ apc = "joinWrite" => writeHandle = conn /\ rpc[conn] \in TaskEnded
    /\ connected => readHandle = conn /\ writeHandle = conn

\* Where connect and close are.
Stages ==
    /\ apc # "idle" => ~connected
    /\ connected \/ apc \in {"hello", "joinRead", "joinWrite"} => conn # 0
    /\ writeTx # 0 => connected /\ writeTx = conn
    /\ \A k \in Conns :
        k > conn \/ (k = conn /\ apc = "hello") => rpc[k] = "off" /\ wpc[k] = "off"

CInv == ControlTypes /\ Stages /\ (NoPanic => Session)
\* What connect, close and the tasks leave alone.
AppSame == UNCHANGED <<connected, writeTx, readHandle, writeHandle, apc, conn>>

LEMMA AppControl ==
    CInv /\ (ConnectCall \/ ConnectNext \/ CloseCall \/ CloseNext) => CInv'
  <1> USE BoundsAssumption DEF BoundsAssumption, net, writers, callers, AppStep, Conns
  <1> SUFFICES ASSUME CInv, ConnectCall \/ ConnectNext \/ CloseCall \/ CloseNext
               PROVE CInv'
    OBVIOUS
  <1>1. CASE ConnectCall
    BY <1>1 DEF ConnectCall, CInv, ControlTypes, Stages, NoPanic, Session, Ended
  <1>2. CASE DialFails
    BY <1>2 DEF DialFails, CInv, ControlTypes, Stages, NoPanic, Session, Ended
  <1>3. CASE Dials
    BY <1>3 DEF Dials, CInv, ControlTypes, Stages, NoPanic, Session, Ended
  <1>4. CASE HelloFails
    BY <1>4 DEF HelloFails, CInv, ControlTypes, Stages, NoPanic, Session, Ended
  <1>5. CASE HelloSent
    <2>1. ControlTypes'
      BY <1>5 DEF HelloSent, CInv, ControlTypes, Stages
    <2>2. Stages'
      BY <1>5 DEF HelloSent, CInv, ControlTypes, Stages
    <2>3. NoPanic' => Session'
      <3> SUFFICES ASSUME NoPanic' PROVE Session'
        OBVIOUS
      <3>1. /\ conn \in Conns /\ conn' = conn /\ connected' /\ apc' = "idle"
            /\ readHandle' = conn /\ writeHandle' = conn /\ apc = "hello"
            /\ \A k \in Conns : k # conn => rpc'[k] = rpc[k] /\ wpc'[k] = wpc[k]
            /\ rpc[conn] = rpc[conn]
        BY <1>5 DEF HelloSent, CInv, ControlTypes, Stages
      <3>2. ~connected
        BY <3>1 DEF CInv, Stages
      <3>3. NoPanic
        <4>1. rpc[conn] # "panicked" /\ wpc[conn] # "panicked"
          BY <3>1 DEF CInv, Stages
        <4>2. QED
          BY <3>1, <4>1 DEF NoPanic
      <3>4. QED
        BY <3>1, <3>2, <3>3 DEF CInv, Session, Ended
    <2>4. QED
      BY <2>1, <2>2, <2>3 DEF CInv
  <1>6. CASE CloseCall
    <2>1. /\ connected /\ ~connected' /\ apc' = "joinRead" /\ writeTx' = 0
          /\ shutdown' = [shutdown EXCEPT ![conn] = TRUE]
          /\ UNCHANGED <<readHandle, writeHandle, conn, link, rpc, wpc, cpc>>
      BY <1>6 DEF CloseCall
    <2>2. shutdown' \in [Conns -> BOOLEAN]
      BY <2>1, Zenon DEF CInv, ControlTypes
    <2>3. connected' \in BOOLEAN
      BY <1>6, Zenon DEF CloseCall
    <2>4. ControlTypes'
      BY <2>1, <2>2, <2>3 DEF CInv, ControlTypes
    <2>5. Stages' /\ (NoPanic' => Session')
      BY <2>1 DEF CInv, ControlTypes, Stages, NoPanic, Session, Ended
    <2>6. QED
      BY <2>4, <2>5 DEF CInv
  <1>7. CASE JoinReader
    BY <1>7 DEF JoinReader, CInv, ControlTypes, Stages, NoPanic, Session, Ended,
                TaskEnded
  <1>8. CASE JoinWriter
    BY <1>8 DEF JoinWriter, CInv, ControlTypes, Stages, NoPanic, Session, Ended,
                TaskEnded
  <1>9. QED
    BY <1>1, <1>2, <1>3, <1>4, <1>5, <1>6, <1>7, <1>8 DEF ConnectNext, CloseNext

\* A task that is not ended takes a step: it may end, but none begins.
LEMMA TaskControl ==
    ASSUME CInv, NEW k \in Conns, AppSame, UNCHANGED <<shutdown, link, cpc>>,
           \/ /\ rpc[k] \notin TaskEnded /\ UNCHANGED wpc
              /\ \E p \in {"top", "read", "done", "panicked"} :
                    rpc' = [rpc EXCEPT ![k] = p]
           \/ /\ wpc[k] \notin TaskEnded /\ UNCHANGED rpc
              /\ \E p \in {"top", "select", "send", "closing", "flush", "done",
                            "panicked"} : wpc' = [wpc EXCEPT ![k] = p]
    PROVE  CInv'
  <1>1. ControlTypes' /\ Stages'
    <2>1. ControlTypes'
      BY DEF CInv, ControlTypes, AppSame
    <2>2. Stages'
      BY DEF CInv, ControlTypes, Stages, AppSame, TaskEnded
    <2>3. QED
      BY <2>1, <2>2
  <1>2. ASSUME NoPanic' PROVE NoPanic
    BY <1>2 DEF CInv, ControlTypes, NoPanic, TaskEnded
  <1>3. ASSUME NoPanic' PROVE Session'
    BY <1>2, <1>3 DEF CInv, ControlTypes, Session, Ended, AppSame, TaskEnded
  <1>4. QED
    BY <1>1, <1>3 DEF CInv

LEMMA WriterControl ==
    ASSUME CInv, NEW k \in Conns, WriterNext(k)
    PROVE  CInv'
  <1>1. PICK from, to : /\ WriterStep(k, from, to)
                        /\ from \in {"top", "select", "send", "closing", "flush"}
                        /\ to \in {"top", "select", "send", "closing", "flush",
                                   "done", "panicked"}
    BY DEF WriterNext, WriterLoops, WriterLeaves, WriterToldToStop,
           WriterReceives, WriterSends, WriterFails, WriterPanics, WriterCloses,
           WriterFlushes, WriterEnds
  <1>2. AppSame /\ UNCHANGED <<shutdown, link, cpc, rpc>>
    BY <1>1 DEF WriterStep, AppSame, app, callers
  <1>3. wpc[k] \notin TaskEnded /\ wpc' = [wpc EXCEPT ![k] = to]
    BY <1>1 DEF WriterStep, TaskEnded
  <1>4. QED
    BY <1>1, <1>2, <1>3, TaskControl

LEMMA ReaderControl ==
    ASSUME CInv, NEW k \in Conns, ReaderNext(k)
    PROVE  CInv'
  <1>1. PICK from, to : /\ ReaderStep(k, from, to)
                        /\ from \in {"top", "read"}
                        /\ to \in {"top", "read", "done", "panicked"}
    BY DEF ReaderNext, ReaderLoops, ReaderLeaves, ReaderToldToStop,
           ReaderReceives, ReaderPanics, ReaderLost
  <1>2. AppSame /\ UNCHANGED <<shutdown, link, cpc, wpc>>
    BY <1>1 DEF ReaderStep, AppSame, app, callers, net, writers
  <1>3. rpc[k] \notin TaskEnded /\ rpc' = [rpc EXCEPT ![k] = to]
    BY <1>1 DEF ReaderStep, TaskEnded
  <1>4. QED
    BY <1>1, <1>2, <1>3, TaskControl

LEMMA OtherControl ==
    ASSUME CInv,
           \/ \E c \in Callers : CallerNext(c)
           \/ \E k \in Conns : LinkDrops(k) \/ LinkStalls(k) \/ LinkRecovers(k)
    PROVE  CInv'
  <1>1. AppSame /\ UNCHANGED <<shutdown, rpc, wpc>>
    BY DEF CallerNext, Call, QueueEnds, Queued, NotQueued, LinkDrops, LinkStalls,
           LinkRecovers, LinkChanges, AppSame, app, net, writers
  <1>2. cpc' \in [Callers -> {"idle", "send"}]
    <2>1. ASSUME NEW c \in Callers, CallerNext(c)
          PROVE  cpc' \in [Callers -> {"idle", "send"}]
      BY <2>1, ZenonT(30) DEF CallerNext, Call, QueueEnds, Queued, NotQueued, CInv,
                  ControlTypes
    <2>2. ASSUME NEW k \in Conns, LinkDrops(k) \/ LinkStalls(k) \/ LinkRecovers(k)
          PROVE  cpc' = cpc
      BY <2>2 DEF LinkDrops, LinkStalls, LinkRecovers, LinkChanges, callers
    <2>3. QED
      BY <2>1, <2>2 DEF CInv, ControlTypes
  <1>3. link' \in [Conns -> {"unused", "open", "stalled", "down"}]
    <2>1. ASSUME NEW c \in Callers, CallerNext(c)
          PROVE  link' = link
      BY <2>1 DEF CallerNext, Call, QueueEnds, Queued, NotQueued, net
    <2>2. ASSUME NEW k \in Conns, LinkDrops(k) \/ LinkStalls(k) \/ LinkRecovers(k)
          PROVE  \E to \in {"open", "stalled", "down"} :
                     link' = [link EXCEPT ![k] = to]
      BY <2>2 DEF LinkDrops, LinkStalls, LinkRecovers, LinkChanges
    <2>3. QED
      BY <2>1, <2>2 DEF CInv, ControlTypes
  <1>4. ControlTypes' /\ Stages'
    BY <1>1, <1>2, <1>3 DEF CInv, ControlTypes, Stages, AppSame
  <1>5. NoPanic' => Session'
    BY <1>1 DEF CInv, NoPanic, Session, Ended, AppSame
  <1>6. QED
    BY <1>4, <1>5 DEF CInv

LEMMA InitControl == Init => CInv
  <1> SUFFICES ASSUME Init PROVE CInv
    OBVIOUS
  <1>1. connected \in BOOLEAN /\ shutdown \in [Conns -> BOOLEAN]
    BY Zenon DEF Init
  <1>2. ControlTypes
    BY <1>1, BoundsAssumption DEF Init, ControlTypes, BoundsAssumption
  <1>3. Stages /\ Session
    BY DEF Init, Stages, Session, Ended, TaskEnded
  <1>4. QED
    BY <1>2, <1>3 DEF CInv

LEMMA StepControl == CInv /\ [Next]_vars => CInv'
  <1> SUFFICES ASSUME CInv, [Next]_vars PROVE CInv'
    OBVIOUS
  <1>1. CASE UNCHANGED vars
    BY <1>1 DEF vars, app, net, writers, callers, CInv, ControlTypes, Stages,
                NoPanic, Session, Ended
  <1>2. CASE Next
    BY <1>2, AppControl, WriterControl, ReaderControl, OtherControl DEF Next
  <1>3. QED
    BY <1>1, <1>2

\* The control of the client, whatever the frames and the requests are.
THEOREM RustInvariance == Spec => []CInv
  BY InitControl, StepControl, PTL DEF Spec

\* When connect may begin, and once close has returned, the tasks of every
\* connection have ended, unless a callback has panicked.
THEOREM TasksAreJoined == Spec => []TasksJoined
  <1>1. CInv => TasksJoined
    BY DEF CInv, NoPanic, Session, Ended, TasksJoined
  <1>2. QED
    BY <1>1, RustInvariance, PTL
-----------------------------------------------------------------------------
(* Requests.  A request is with its caller, or in the line of a writer:    *)
(* in its hand, or behind that in the channel.                             *)

Line(k) == whand[k] \o chan[k]

LineBox(k) == <<"line", k>>
CallBox(c) == <<"call", c>>
Index == {LineBox(k) : k \in Conns} \cup {CallBox(c) : c \in Callers}

Contents == [x \in Index |-> IF x[1] = "line" THEN Line(x[2]) ELSE chand[x[2]]]

Hands ==
    /\ \A k \in Conns : IF wpc[k] = "send" THEN \E f \in Requests : whand[k] = <<f>>
                                            ELSE whand[k] = <<>>
    /\ \A c \in Callers : IF cpc[c] = "send" THEN \E f \in Requests : chand[c] = <<f>>
                                              ELSE chand[c] = <<>>
    /\ \A c \in Callers : cpc[c] = "send" => writeTx \in Conns

Counted == \A i \in 1 .. MaxCalls : IsFiniteSet(Places(wire, i))

QInv ==
    FrameTypes /\ Hands /\ Boxes(Index, Requests, Contents, calls) /\ Counted

LEMMA Indices ==
    /\ \A k \in Conns : LineBox(k) \in Index
    /\ \A c \in Callers : CallBox(c) \in Index
    /\ \A x \in Index : (\E k \in Conns : x = LineBox(k))
                        \/ \E c \in Callers : x = CallBox(c)
    /\ \A k \in Conns : \A c \in Callers : LineBox(k) # CallBox(c)
    /\ \A k, j \in Conns : LineBox(k) = LineBox(j) => k = j
    /\ \A c, d \in Callers : CallBox(c) = CallBox(d) => c = d
  BY DEF Index, LineBox, CallBox

LEMMA ContentsAt ==
    /\ DOMAIN Contents = Index
    /\ \A k \in Conns : Contents[LineBox(k)] = Line(k)
    /\ \A c \in Callers : Contents[CallBox(c)] = chand[c]
  <1>1. DOMAIN Contents = Index
    BY DEF Contents
  <1>2. ASSUME NEW k \in Conns PROVE Contents[LineBox(k)] = Line(k)
    BY Indices DEF Contents, LineBox
  <1>3. ASSUME NEW c \in Callers PROVE Contents[CallBox(c)] = chand[c]
    BY Indices DEF Contents, CallBox
  <1>4. QED
    BY <1>1, <1>2, <1>3

LEMMA ContentsNext ==
    /\ \A k \in Conns : Contents'[LineBox(k)] = Line(k)'
    /\ \A c \in Callers : Contents'[CallBox(c)] = chand'[c]
  <1>1. ASSUME NEW k \in Conns PROVE Contents'[LineBox(k)] = Line(k)'
    BY Indices DEF Contents, LineBox
  <1>2. ASSUME NEW c \in Callers PROVE Contents'[CallBox(c)] = chand'[c]
    BY Indices DEF Contents, CallBox
  <1>3. QED
    BY <1>1, <1>2

LEMMA ContentsEqual ==
    ASSUME NEW G, G = [x \in Index |-> G[x]],
           \A k \in Conns : G[LineBox(k)] = Line(k)',
           \A c \in Callers : G[CallBox(c)] = chand'[c]
    PROVE  Contents' = G
  <1>1. ASSUME NEW x \in Index PROVE Contents'[x] = G[x]
    BY Indices, ContentsNext
  <1>2. Contents' = [x \in Index |-> Contents'[x]]
    BY DEF Contents
  <1>3. QED
    BY <1>1, <1>2, Zenon

\* Where a request is held.
HeldWhere ==
    /\ \A x : x \in Accepted <=> \E k \in Conns : x \in Ids(Contents[LineBox(k)])
    /\ \A x : x \in Held <=> \E b \in Index : x \in Ids(Contents[b])

LEMMA HeldIn == FrameTypes => HeldWhere
  <1> SUFFICES ASSUME FrameTypes PROVE HeldWhere
    OBVIOUS
  <1>2. ASSUME NEW k \in Conns
        PROVE  Ids(Contents[LineBox(k)]) = Ids(chan[k]) \cup Ids(whand[k])
    <2>1. whand[k] \in Seq(Requests) /\ chan[k] \in Seq(Requests)
      BY DEF FrameTypes
    <2>2. QED
      <3>1. Ids(whand[k] \o chan[k]) = Ids(whand[k]) \cup Ids(chan[k])
        BY <2>1, IdsConcat
      <3>2. Contents[LineBox(k)] = whand[k] \o chan[k]
        BY ContentsAt, Zenon DEF Line
      <3>3. QED
        BY <3>1, <3>2
  <1>3. ASSUME NEW x
        PROVE  x \in Accepted <=> \E k \in Conns : x \in Ids(Contents[LineBox(k)])
    <2>1. x \in Accepted <=> \E k \in Conns : x \in Ids(chan[k]) \cup Ids(whand[k])
      BY DEF Accepted
    <2>2. QED
      BY <1>2, <2>1
  <1>4. ASSUME NEW x
        PROVE  x \in Held <=> \E b \in Index : x \in Ids(Contents[b])
    <2>1. x \in Held <=> x \in Accepted \/ \E c \in Callers : x \in Ids(chand[c])
      BY DEF Held
    <2>2. (\E b \in Index : x \in Ids(Contents[b]))
             <=> \/ \E k \in Conns : x \in Ids(Contents[LineBox(k)])
                 \/ \E c \in Callers : x \in Ids(Contents[CallBox(c)])
      <3>1. ASSUME NEW b \in Index, x \in Ids(Contents[b])
            PROVE  \/ \E k \in Conns : x \in Ids(Contents[LineBox(k)])
                   \/ \E c \in Callers : x \in Ids(Contents[CallBox(c)])
        BY <3>1, Indices
      <3>2. QED
        BY <3>1, Indices
    <2>3. (\E c \in Callers : x \in Ids(Contents[CallBox(c)]))
             <=> \E c \in Callers : x \in Ids(chand[c])
      BY ContentsAt, Zenon
    <2>4. QED
      BY <1>3, <2>1, <2>2, <2>3, Zenon
  <1>5. QED
    BY <1>3, <1>4 DEF HeldWhere

LEMMA HeldNext == FrameTypes' => HeldWhere'
  BY HeldIn, PTL

-----------------------------------------------------------------------------
(* What a step does to the boxes and to the wire.                          *)

SameCounts == \A i \in 1 .. MaxCalls : Times(wire', i) = Times(wire, i)

\* A write puts its frame on the wire, or does not.
LEMMA WriteCounts ==
    ASSUME FrameTypes, Counted, NEW k \in Conns, NEW f \in Frames, NEW ok,
           Written(k, f, ok)
    PROVE  /\ wire' \in [Conns -> Seq(Frames)] /\ Counted'
           /\ \/ ~ok /\ wire' = wire
              \/ /\ \A i \in 1 .. MaxCalls :
                        Times(wire', i) = IF i = f.id THEN Times(wire, i) + 1
                                                      ELSE Times(wire, i)
                 /\ f.id # 0 => f.id \in Ids(wire'[k])
  <1>1. wire \in [Conns -> Seq(Frames)]
    BY DEF FrameTypes
  <1>2. CASE wire' = wire /\ ~ok
    <2>1. Counted'
      BY <1>2 DEF Counted
    <2>2. QED
      BY <1>1, <1>2, <2>1
  <1>3. CASE wire' = [wire EXCEPT ![k] = Append(@, f)]
    <2>1. wire' \in [Conns -> Seq(Frames)]
      BY <1>1, <1>3
    <2>2. Sending(Conns, Frames, wire, wire', k, f)
      BY <1>1, <1>3 DEF Sending
    <2>3. ASSUME NEW i, IsFiniteSet(Places(wire, i))
          PROVE  /\ IsFiniteSet(Places(wire', i))
                 /\ f.id = i => Times(wire', i) = Times(wire, i) + 1
                 /\ f.id # i => Times(wire', i) = Times(wire, i)
      BY <2>2, <2>3, SendCounts
    <2>4. \A i \in 1 .. MaxCalls : IsFiniteSet(Places(wire, i))
      BY DEF Counted
    <2>5. f.id # 0 => f.id \in Ids(wire'[k])
      <3> DEFINE w == wire'[k]
      <3>1. w[Len(w)] = f /\ Len(w) \in DOMAIN w
        BY <1>1, <1>3
      <3> HIDE DEF w
      <3>2. f.id # 0 => f.id \in Ids(w)
        BY <3>1 DEF Ids
      <3>3. QED
        BY <3>2 DEF w
    <2>6. Counted'
      BY <2>3, <2>4 DEF Counted
    <2>7. \A i \in 1 .. MaxCalls :
            Times(wire', i) = IF i = f.id THEN Times(wire, i) + 1
                                          ELSE Times(wire, i)
      BY <2>3, <2>4
    <2>8. QED
      BY <2>1, <2>5, <2>6, <2>7
  <1>4. QED
    BY <1>2, <1>3 DEF Written

\* Where nothing moves: only the places of tasks and the network change.
LEMMA NothingMoves ==
    ASSUME QInv, UNCHANGED <<chan, whand, chand, calls>>,
           wire' \in [Conns -> Seq(Frames)], Counted', Hands'
    PROVE  QInv' /\ Contents' = Contents
  <1>1. Contents' = Contents
    BY DEF Contents, Line
  <1>2. FrameTypes'
    BY DEF QInv, FrameTypes
  <1>3. Boxes(Index, Requests, Contents, calls)'
    BY <1>1 DEF QInv
  <1>4. QED
    BY <1>1, <1>2, <1>3 DEF QInv

-----------------------------------------------------------------------------
(* What that means for Outbox, and for the requests that were accepted.    *)

Counts == [i \in 1 .. MaxCalls |-> Times(wire, i)]

Excused ==
    \A i \in Accepted \ Accepted' :
        \E k \in Conns : \/ i \in Ids(wire'[k])
                         \/ wpc'[k] # wpc[k]
                            /\ wpc'[k] \in {"closing", "done", "panicked"}

\* A good step keeps the invariant, is one of Outbox, and excuses its losses.
Good == QInv' /\ [Box!Next]_(Box!vars) /\ Excused

LEMMA CountsSame == SameCounts => Counts' = Counts
  BY DEF SameCounts, Counts

LEMMA GoodSame ==
    ASSUME QInv, QInv', Contents' = Contents, SameCounts, calls' = calls
    PROVE  Good
  <1>1. HeldWhere /\ HeldWhere'
    BY HeldIn, HeldNext DEF QInv
  <1>2. Held' = Held /\ Accepted' = Accepted
    <2>1. ASSUME NEW x PROVE x \in Held' <=> x \in Held
      BY <1>1 DEF HeldWhere
    <2>2. ASSUME NEW x PROVE x \in Accepted' <=> x \in Accepted
      BY <1>1 DEF HeldWhere
    <2>3. QED
      BY <2>1, <2>2
  <1>3. UNCHANGED Box!vars
    BY <1>2, CountsSame DEF Box!vars, Counts
  <1>4. Excused
    BY <1>2 DEF Excused
  <1>5. QED
    BY <1>3, <1>4 DEF Good

\* Nothing is sent; what is held becomes less, and only callers, or a
\* writer that ends, lose what they hold.
LEMMA GoodLoss ==
    ASSUME QInv, QInv', SameCounts, calls' = calls,
           \A b \in Index : Ids(Contents'[b]) \subseteq Ids(Contents[b]),
           \/ \A k \in Conns : Ids(Contents'[LineBox(k)]) = Ids(Contents[LineBox(k)])
           \/ \E k \in Conns :
                /\ wpc'[k] # wpc[k] /\ wpc'[k] \in {"closing", "done", "panicked"}
    PROVE  Good
  <1>1. HeldWhere /\ HeldWhere'
    BY HeldIn, HeldNext DEF QInv
  <1>2. Held' \subseteq Held
    BY <1>1 DEF HeldWhere
  <1>3. Box!Lose
    BY <1>2, CountsSame DEF Box!Lose, Counts
  <1>4. Excused
    <2>1. CASE \A k \in Conns :
                Ids(Contents'[LineBox(k)]) = Ids(Contents[LineBox(k)])
      <3>1. Accepted \ Accepted' = {}
        BY <1>1, <2>1 DEF HeldWhere
      <3>2. QED
        BY <3>1 DEF Excused
    <2>2. CASE \E k \in Conns :
                /\ wpc'[k] # wpc[k] /\ wpc'[k] \in {"closing", "done", "panicked"}
      BY <2>2 DEF Excused
    <2>3. QED
      BY <2>1, <2>2
  <1>5. QED
    BY <1>3, <1>4 DEF Good, Box!Next

\* A request h of a line is sent; the others stay, or the writer ends.
LEMMA GoodWrite ==
    ASSUME QInv, QInv', calls' = calls, NEW k \in Conns, NEW h,
           h \in Ids(Contents[LineBox(k)]), h \in Ids(wire'[k]),
           \A i \in 1 .. MaxCalls :
                Times(wire', i) = IF i = h THEN Times(wire, i) + 1 ELSE Times(wire, i),
           \A b \in Index : Ids(Contents'[b]) \subseteq Ids(Contents[b]) \ {h},
           \/ \A b \in Index : Ids(Contents'[b]) = Ids(Contents[b]) \ {h}
           \/ wpc'[k] # wpc[k] /\ wpc'[k] \in {"closing", "done", "panicked"}
    PROVE  Good
  <1>1. HeldWhere /\ HeldWhere'
    BY HeldIn, HeldNext DEF QInv
  <1>2. h \in Held /\ Held' \subseteq Held \ {h}
    BY <1>1, Indices DEF HeldWhere
  <1>3. h \in 1 .. MaxCalls
    <2>1. h \in 1 .. calls /\ calls \in 0 .. MaxCalls /\ MaxCalls \in Nat
      BY Indices, BoundsAssumption
      DEF QInv, Boxes, OneEach, FrameTypes, BoundsAssumption
    <2>2. QED
      BY <2>1
  <1>4. Counts' = [Counts EXCEPT ![h] = @ + 1]
    BY <1>3 DEF Counts
  <1>5. Box!Write(h)
    BY <1>2, <1>4 DEF Box!Write, Counts
  <1>6. Excused
    <2>1. CASE wpc'[k] # wpc[k] /\ wpc'[k] \in {"closing", "done", "panicked"}
      BY <2>1 DEF Excused
    <2>2. CASE \A b \in Index : Ids(Contents'[b]) = Ids(Contents[b]) \ {h}
      <3>1. ASSUME NEW i \in Accepted \ Accepted' PROVE i = h
        BY <1>1, <2>2, Indices DEF HeldWhere
      <3>2. QED
        BY <3>1 DEF Excused
    <2>3. QED
      BY <2>1, <2>2
  <1>7. QED
    BY <1>2, <1>5, <1>6 DEF Good, Box!Next

-----------------------------------------------------------------------------
(* Each action is a good step.                                             *)

\* Nothing of the requests moves.
Calm == UNCHANGED <<wire, chan, whand, chand, calls>>

LEMMA CalmGood ==
    ASSUME QInv, Calm, Hands' PROVE Good
  <1>1. wire' \in [Conns -> Seq(Frames)] /\ Counted' /\ SameCounts
    BY DEF QInv, FrameTypes, Counted, Calm, SameCounts
  <1>2. QInv' /\ Contents' = Contents
    BY <1>1, NothingMoves DEF Calm
  <1>3. QED
    BY <1>1, <1>2, GoodSame DEF Calm

\* A frame of the client itself is written.
LEMMA OwnFrameGood ==
    ASSUME QInv, Hands', UNCHANGED <<chan, whand, chand, calls>>, NEW k \in Conns,
           NEW f \in {Hello, CloseFrame}, NEW ok, Written(k, f, ok)
    PROVE  Good
  <1>1. f \in Frames /\ f.id = 0
    BY DEF Frames, Hello, CloseFrame
  <1>2. \A i \in 1 .. MaxCalls : i # 0
    BY BoundsAssumption DEF BoundsAssumption
  <1>3. wire' \in [Conns -> Seq(Frames)] /\ Counted'
    BY <1>1, WriteCounts DEF QInv
  <1>4. SameCounts
    <2>1. CASE wire' = wire
      BY <2>1 DEF SameCounts
    <2>2. CASE wire' # wire
      BY <1>1, <1>2, <2>2, WriteCounts DEF QInv, SameCounts
    <2>3. QED
      BY <2>1, <2>2
  <1>5. QInv' /\ Contents' = Contents
    BY <1>3, NothingMoves
  <1>6. QED
    BY <1>4, <1>5, GoodSame

LEMMA AppGood ==
    ASSUME QInv, CInv, ConnectCall \/ ConnectNext \/ CloseCall \/ CloseNext
    PROVE  Good
  <1> USE DEF net, writers, callers, AppStep
  <1>1. CASE ConnectCall \/ DialFails \/ Dials \/ JoinReader \/ JoinWriter
    <2>1. Calm /\ UNCHANGED <<wpc, cpc, writeTx>>
      BY <1>1 DEF ConnectCall, DialFails, Dials, JoinReader, JoinWriter, Calm
    <2>2. Hands'
      BY <2>1 DEF QInv, Hands, Calm
    <2>3. QED
      BY <2>1, <2>2, CalmGood
  <1>2. CASE CloseCall
    <2>1. Calm /\ UNCHANGED <<wpc, cpc>> /\ \A c \in Callers : cpc[c] = "idle"
      BY <1>2 DEF CloseCall, Exclusive, Calm
    <2>2. Hands'
      BY <2>1 DEF QInv, Hands, Calm
    <2>3. QED
      BY <2>1, <2>2, CalmGood
  <1>3. CASE HelloFails \/ HelloSent
    <2>1. conn \in Conns /\ wpc[conn] = "off"
      <3>1. apc = "hello"
        BY <1>3 DEF HelloFails, HelloSent
      <3>2. conn \in Conns
        BY <3>1, BoundsAssumption
        DEF CInv, ControlTypes, Stages, Conns, BoundsAssumption
      <3>3. QED
        BY <3>1, <3>2 DEF CInv, Stages
    <2>2. PICK ok \in BOOLEAN : Written(conn, Hello, ok)
      BY <1>3 DEF HelloFails, HelloSent
    <2>3. UNCHANGED <<chan, whand, chand, calls, cpc>>
      BY <1>3 DEF HelloFails, HelloSent
    <2>4. Hands'
      <3>1. CASE HelloFails
        BY <2>3, <3>1 DEF HelloFails, QInv, Hands
      <3>2. CASE HelloSent
        BY <2>1, <2>3, <3>2 DEF HelloSent, QInv, Hands, CInv, ControlTypes
      <3>3. QED
        BY <1>3, <3>1, <3>2
    <2>5. QED
      BY <2>1, <2>2, <2>3, <2>4, OwnFrameGood
  <1>4. QED
    BY <1>1, <1>2, <1>3 DEF ConnectNext, CloseNext

LEMMA ReaderGood ==
    ASSUME QInv,
           \E k \in Conns : \/ ReaderNext(k) \/ LinkDrops(k) \/ LinkStalls(k)
                           \/ LinkRecovers(k)
    PROVE  Good
  <1>1. Calm /\ UNCHANGED <<wpc, cpc, writeTx>>
    BY DEF ReaderNext, ReaderLoops, ReaderLeaves, ReaderToldToStop,
           ReaderReceives, ReaderPanics, ReaderLost, ReaderStep, LinkDrops,
           LinkStalls, LinkRecovers, LinkChanges, app, net, writers, callers,
           Calm
  <1>2. Hands'
    BY <1>1 DEF QInv, Hands, Calm
  <1>3. QED
    BY <1>1, <1>2, CalmGood

LEMMA NumberedRequests == \A f \in Requests : f.id \in Nat \ {0}
  BY BoundsAssumption DEF Requests, BoundsAssumption

LEMMA CallGood ==
    ASSUME QInv, NEW c \in Callers, Call(c), CInv
    PROVE  Good
  <1> DEFINE r == Request(c)
             b == CallBox(c)
             G == [Contents EXCEPT ![b] = Append(@, r)]
  <1>1. /\ calls' = calls + 1 /\ calls \in Nat /\ calls' \in 0 .. MaxCalls
        /\ calls < MaxCalls /\ cpc[c] = "idle"
        /\ writeTx # 0 /\ chand' = [chand EXCEPT ![c] = <<r>>]
        /\ cpc' = [cpc EXCEPT ![c] = "send"]
        /\ UNCHANGED <<wire, chan, whand, wpc, writeTx>>
    BY BoundsAssumption
    DEF Call, QInv, FrameTypes, app, net, writers, BoundsAssumption
  <1>2. r \in Requests /\ r.id = calls + 1
    BY <1>1, BoundsAssumption DEF Request, Requests, BoundsAssumption
  <1> HIDE DEF r
  <1>3. chand[c] = <<>>
    BY <1>1 DEF QInv, Hands
  <1>4. /\ G = [x \in Index |-> G[x]]
        /\ \A x \in Index : x # b => G[x] = Contents[x]
        /\ G[b] = Append(Contents[b], r)
    BY Indices, ContentsAt
  <1>5. Boxes(Index, Requests, Contents, calls)
    BY DEF QInv
  <1>6. /\ Boxes(Index, Requests, G, calls + 1)
        /\ Ids(G[b]) = Ids(Contents[b]) \cup {calls + 1}
    <2>1. Added(Contents, G, b, r)
      BY DEF Added
    <2>2. b \in Index
      BY Indices
    <2> HIDE DEF G, b
    <2>3. QED
      BY <1>2, <1>5, <2>1, <2>2, BoxAdd
  <1>7. Contents' = G
    <2>1. ASSUME NEW k \in Conns PROVE G[LineBox(k)] = Line(k)'
      BY <1>1, <1>4, Indices, ContentsAt DEF Line
    <2>2. ASSUME NEW d \in Callers PROVE G[CallBox(d)] = chand'[d]
      <3>1. CASE d = c
        <4>1. chand'[c] = <<r>>
          BY <1>1 DEF QInv, FrameTypes
        <4>2. G[b] = Append(<<>>, r)
          BY <1>3, <1>4, ContentsAt
        <4>3. QED
          BY <3>1, <4>1, <4>2
      <3>2. CASE d # c
        BY <1>1, <1>4, <3>2, Indices, ContentsAt DEF QInv, FrameTypes
      <3>3. QED
        BY <3>1, <3>2
    <2> HIDE DEF G
    <2>3. QED
      BY <1>4, <2>1, <2>2, ContentsEqual
  <1>8. FrameTypes'
    BY <1>1, <1>2 DEF QInv, FrameTypes
  <1>9. Hands'
    <2>1. writeTx \in Conns
      BY <1>1, BoundsAssumption DEF CInv, ControlTypes, Conns, BoundsAssumption
    <2>2. \A d \in Callers : /\ d # c => cpc'[d] = cpc[d] /\ chand'[d] = chand[d]
                             /\ chand'[c] = <<r>>
      BY <1>1 DEF QInv, FrameTypes, CInv, ControlTypes
    <2>3. cpc'[c] = "send" /\ UNCHANGED <<wpc, whand, writeTx>>
      BY <1>1 DEF CInv, ControlTypes
    <2>4. ASSUME NEW d \in Callers
          PROVE  IF cpc'[d] = "send" THEN \E f \in Requests : chand'[d] = <<f>>
                                     ELSE chand'[d] = <<>>
      BY <1>2, <2>2, <2>3 DEF QInv, Hands
    <2>5. QED
      BY <2>1, <2>3, <2>4 DEF QInv, Hands
  <1>10. Counted' /\ SameCounts
    BY <1>1 DEF QInv, Counted, SameCounts
  <1>11. QInv'
    BY <1>1, <1>6, <1>7, <1>8, <1>9, <1>10 DEF QInv
  <1>12. HeldWhere /\ HeldWhere'
    BY <1>8, HeldIn, HeldNext DEF QInv
  <1> HIDE DEF G
  <1>13. Held' = Held \cup {calls'}
    <2>1. ASSUME NEW x PROVE x \in Held' <=> x \in Held \cup {calls'}
      BY <1>1, <1>4, <1>6, <1>7, <1>12, Indices DEF HeldWhere
    <2>2. QED
      BY <2>1
  <1>14. Box!Offer
    BY <1>1, <1>10, <1>13, CountsSame DEF Box!Offer, Counts
  <1>15. Excused
    <2>1. Accepted' = Accepted
      BY <1>1 DEF Accepted
    <2>2. QED
      BY <2>1 DEF Excused
  <1>16. QED
    BY <1>11, <1>14, <1>15 DEF Good, Box!Next

\* A caller's request goes to the end of the channel, or is refused.
LEMMA QueueGood ==
    ASSUME QInv, NEW c \in Callers, Queued(c) \/ NotQueued(c), CInv
    PROVE  Good
  <1> DEFINE b == CallBox(c)
  <1>1. /\ cpc[c] = "send" /\ cpc' = [cpc EXCEPT ![c] = "idle"]
        /\ chand' = [chand EXCEPT ![c] = <<>>]
        /\ UNCHANGED <<wire, whand, wpc, calls, writeTx>>
    BY DEF Queued, NotQueued, QueueEnds, app, net, writers
  <1>2. b \in Index /\ Contents[b] = chand[c]
    BY Indices, ContentsAt
  <1>3. Boxes(Index, Requests, Contents, calls)
    BY DEF QInv
  <1>4. /\ chand' \in [Callers -> Seq(Requests)] /\ chand'[c] = <<>>
        /\ \A d \in Callers : d # c => chand'[d] = chand[d] /\ cpc'[d] = cpc[d]
        /\ cpc'[c] = "idle"
    BY <1>1 DEF QInv, FrameTypes, CInv, ControlTypes
  <1>5. Hands'
    <2>1. ASSUME NEW d \in Callers
          PROVE  IF cpc'[d] = "send" THEN \E f \in Requests : chand'[d] = <<f>>
                                     ELSE chand'[d] = <<>>
      BY <1>4 DEF QInv, Hands
    <2>2. QED
      BY <1>1, <1>4, <2>1 DEF QInv, Hands
  <1>6. Counted' /\ SameCounts
    BY <1>1 DEF QInv, Counted, SameCounts
  <1>7. CASE NotQueued(c)
    <2> DEFINE G == [Contents EXCEPT ![b] = <<>>]
    <2>1. /\ G = [x \in Index |-> G[x]] /\ G[b] = <<>>
          /\ \A x \in Index : x # b => G[x] = Contents[x]
      BY <1>2, ContentsAt
    <2>2. chan' = chan
      BY <1>7 DEF NotQueued
    <2>3. Cleared(Contents, G, b)
      BY DEF Cleared
    <2> HIDE DEF G
    <2>4. Contents' = G
      <3>1. ASSUME NEW k \in Conns PROVE G[LineBox(k)] = Line(k)'
        BY <1>1, <2>1, <2>2, Indices, ContentsAt DEF Line
      <3>2. ASSUME NEW d \in Callers PROVE G[CallBox(d)] = chand'[d]
        BY <1>4, <2>1, Indices, ContentsAt
      <3>3. QED
        BY <2>1, <3>1, <3>2, ContentsEqual
    <2>5. /\ Boxes(Index, Requests, Contents', calls)
          /\ \A x \in Index :
                Ids(Contents'[x]) = IF x = b THEN {} ELSE Ids(Contents[x])
      <3> HIDE DEF b
      <3>1. QED
        BY <1>2, <1>3, <2>3, <2>4, BoxClear
    <2>6. QInv'
      BY <1>1, <1>4, <1>5, <1>6, <2>2, <2>5 DEF QInv, FrameTypes
    <2>7. \A k \in Conns : Ids(Contents'[LineBox(k)]) = Ids(Contents[LineBox(k)])
      BY <2>5, Indices
    <2>8. \A x \in Index : Ids(Contents'[x]) \subseteq Ids(Contents[x])
      BY <2>5
    <2>9. QED
      BY <1>1, <1>6, <2>6, <2>7, <2>8, GoodLoss
  <1>8. CASE Queued(c)
    <2> DEFINE q == LineBox(writeTx)
    <2>1. writeTx \in Conns
      BY <1>1 DEF QInv, Hands
    <2>2. PICK f \in Requests : chand[c] = <<f>>
      BY <1>1 DEF QInv, Hands
    <2> DEFINE G == [Contents EXCEPT ![b] = <<>>, ![q] = Append(Contents[q], f)]
    <2>3. /\ q \in Index /\ b # q /\ Contents[q] = Line(writeTx)
      BY <2>1, Indices, ContentsAt
    <2>4. /\ G = [x \in Index |-> G[x]] /\ G[b] = <<>>
          /\ G[q] = Append(Contents[q], f)
          /\ \A x \in Index : x \notin {b, q} => G[x] = Contents[x]
      <3> HIDE DEF b, q
      <3>1. QED
        BY <1>2, <2>3, ContentsAt
    <2>5. Moved(Contents, G, b, q, f)
      BY DEF Moved
    <2> HIDE DEF G
    <2>6. /\ chan' = [chan EXCEPT ![writeTx] = @ \o <<f>>]
          /\ Len(chan[writeTx]) < ChanCap /\ chan[writeTx] \in Seq(Requests)
          /\ chan \in [Conns -> Seq(Requests)] /\ whand[writeTx] \in Seq(Requests)
      BY <1>8, <2>1, <2>2 DEF Queued, QInv, FrameTypes
    <2>7. /\ chan'[writeTx] = Append(chan[writeTx], f)
          /\ chan' \in [Conns -> Seq(Requests)]
          /\ \A k \in Conns : k # writeTx => chan'[k] = chan[k]
          /\ Len(chan'[writeTx]) <= ChanCap
      BY <2>1, <2>6, BoundsAssumption DEF BoundsAssumption
    <2>8. whand[writeTx] \o Append(chan[writeTx], f)
            = Append(whand[writeTx] \o chan[writeTx], f)
      <3>1. whand[writeTx] \in Seq(Requests) /\ chan[writeTx] \in Seq(Requests)
        BY <2>6
      <3>2. ASSUME NEW s \in Seq(Requests), NEW t \in Seq(Requests)
            PROVE  s \o Append(t, f) = Append(s \o t, f)
        BY ConcatAppend
      <3>3. QED
        BY <3>1, <3>2, Zenon
    <2>9. Contents' = G
      <3>1. ASSUME NEW k \in Conns PROVE G[LineBox(k)] = Line(k)'
        <4>1. CASE k = writeTx
          <5>1. Line(k)' = whand[writeTx] \o chan'[writeTx]
            BY <1>1, <4>1 DEF Line
          <5>2. QED
            BY <2>3, <2>4, <2>7, <2>8, <4>1, <5>1 DEF Line
        <4>2. CASE k # writeTx
          <5>1. Line(k)' = Line(k)
            BY <1>1, <2>7, <4>2 DEF Line
          <5>2. LineBox(k) \in Index /\ LineBox(k) \notin {b, q}
            BY <2>1, <4>2, Indices
          <5>3. QED
            BY <2>4, <5>1, <5>2, ContentsAt
        <4>3. QED
          BY <4>1, <4>2
      <3>2. ASSUME NEW d \in Callers PROVE G[CallBox(d)] = chand'[d]
        <4>1. CASE d = c
          BY <1>4, <2>4, <4>1
        <4>2. CASE d # c
          <5>1. CallBox(d) \in Index /\ CallBox(d) \notin {b, q}
            BY <2>1, <4>2, Indices
          <5>2. QED
            BY <1>4, <2>4, <4>2, <5>1, ContentsAt
        <4>3. QED
          BY <4>1, <4>2
      <3>3. QED
        BY <2>4, <3>1, <3>2, ContentsEqual
    <2>10. /\ Boxes(Index, Requests, Contents', calls) /\ Ids(Contents'[b]) = {}
           /\ Ids(Contents'[q]) = Ids(Contents[q]) \cup Ids(Contents[b])
           /\ \A x \in Index : x \notin {b, q} => Contents'[x] = Contents[x]
      <3>1. Contents[b] = <<f>>
        BY <1>2, <2>2
      <3> HIDE DEF b, q
      <3>2. QED
        BY <1>2, <1>3, <2>3, <2>5, <2>9, <3>1, BoxMove
    <2>11. FrameTypes'
      <3>1. \A k \in Conns : Len(chan'[k]) <= ChanCap
        BY <2>7 DEF QInv, FrameTypes
      <3>2. QED
        BY <1>1, <1>4, <2>7, <3>1 DEF QInv, FrameTypes
    <2>12. QInv'
      BY <1>1, <1>5, <1>6, <2>10, <2>11 DEF QInv
    <2>13. HeldWhere /\ HeldWhere'
      BY <2>11, HeldIn, HeldNext DEF QInv
    <2>14. Held' = Held
      <3> HIDE DEF b, q
      <3>1. ASSUME NEW x PROVE x \in Held' <=> x \in Held
        <4>1. (\E y \in Index : x \in Ids(Contents'[y]))
                 <=> \E y \in Index : x \in Ids(Contents[y])
          <5>1. ASSUME NEW y \in Index, x \in Ids(Contents'[y])
                PROVE  \E z \in Index : x \in Ids(Contents[z])
            BY <1>2, <2>3, <2>10, <5>1
          <5>2. ASSUME NEW y \in Index, x \in Ids(Contents[y])
                PROVE  \E z \in Index : x \in Ids(Contents'[z])
            BY <1>2, <2>3, <2>10, <5>2
          <5>3. QED
            BY <5>1, <5>2
        <4>2. QED
          BY <2>13, <4>1 DEF HeldWhere
      <3>2. QED
        BY <3>1
    <2>15. Excused
      <3>1. ASSUME NEW x \in Accepted PROVE x \in Accepted'
        <4>1. PICK k \in Conns : x \in Ids(Contents[LineBox(k)])
          BY <2>13 DEF HeldWhere
        <4>2. x \in Ids(Contents'[LineBox(k)])
          <5>1. LineBox(k) \in Index /\ LineBox(k) # b
            BY Indices
          <5> HIDE DEF b, q
          <5>2. QED
            BY <2>10, <4>1, <5>1
        <4>3. QED
          BY <2>13, <4>2 DEF HeldWhere
      <3>2. QED
        BY <3>1 DEF Excused
    <2>16. UNCHANGED Box!vars
      BY <1>1, <1>6, <2>14, CountsSame DEF Box!vars, Counts
    <2>17. QED
      BY <2>12, <2>15, <2>16 DEF Good
  <1>9. QED
    BY <1>7, <1>8

\* What a line looks like before and after its writer sends.
LEMMA LineAt ==
    ASSUME QInv, NEW k \in Conns, wpc[k] = "send"
    PROVE  /\ LineBox(k) \in Index /\ Contents[LineBox(k)] # <<>>
           /\ Head(Contents[LineBox(k)]) = Head(whand[k])
           /\ Tail(Contents[LineBox(k)]) = chan[k]
           /\ Head(whand[k]) \in Requests
  <1>1. PICK f \in Requests : whand[k] = <<f>>
    BY DEF QInv, Hands
  <1>2. chan[k] \in Seq(Requests)
    BY DEF QInv, FrameTypes
  <1>3. LineBox(k) \in Index /\ Contents[LineBox(k)] = whand[k] \o chan[k]
    BY Indices, ContentsAt DEF Line
  <1>4. /\ <<f>> \o chan[k] # <<>> /\ Head(<<f>> \o chan[k]) = f
        /\ Tail(<<f>> \o chan[k]) = chan[k]
    BY <1>2, ConsTail
  <1>5. Head(<<f>>) = f
    OBVIOUS
  <1>6. QED
    BY <1>1, <1>3, <1>4, <1>5, Zenon

\* The contents after a change of one line.
LEMMA OneLine ==
    ASSUME QInv, NEW k \in Conns, NEW L, Line(k)' = L, UNCHANGED chand,
           \A j \in Conns : j # k => Line(j)' = Line(j)
    PROVE  Contents' = [Contents EXCEPT ![LineBox(k)] = L]
  <1> DEFINE b == LineBox(k)
             G == [Contents EXCEPT ![b] = L]
  <1>1. b \in Index /\ DOMAIN Contents = Index /\ Contents = [x \in Index |-> Contents[x]]
    BY Indices, ContentsAt DEF Contents
  <1>2. /\ G = [x \in Index |-> G[x]] /\ G[b] = L
        /\ \A x \in Index : x # b => G[x] = Contents[x]
    <2> HIDE DEF b
    <2>1. QED
      BY <1>1
  <1> HIDE DEF G
  <1>3. ASSUME NEW j \in Conns PROVE G[LineBox(j)] = Line(j)'
    BY <1>2, Indices, ContentsAt
  <1>4. ASSUME NEW d \in Callers PROVE G[CallBox(d)] = chand'[d]
    BY <1>2, Indices, ContentsAt
  <1>5. Contents' = G
    BY <1>2, <1>3, <1>4, ContentsEqual
  <1>6. QED
    BY <1>5 DEF G

\* A writer that does not stand at a request has only the channel.
LEMMA LineIs ==
    ASSUME QInv, NEW k \in Conns, wpc[k] # "send"
    PROVE  Line(k) = chan[k] /\ whand[k] = <<>> /\ chan[k] \in Seq(Requests)
  <1>1. whand[k] = <<>> /\ chan[k] \in Seq(Requests)
    BY DEF QInv, Hands, FrameTypes
  <1>2. QED
    BY <1>1, ConcatEmptySeq DEF Line

LEMMA ReceiveGood ==
    ASSUME QInv, NEW k \in Conns, WriterReceives(k), CInv
    PROVE  Good
  <1>1. /\ wpc[k] = "select" /\ wpc' = [wpc EXCEPT ![k] = "send"]
        /\ chan[k] # <<>>
        /\ whand' = [whand EXCEPT ![k] = <<Head(chan[k])>>]
        /\ chan' = [chan EXCEPT ![k] = Tail(@)]
        /\ UNCHANGED <<wire, chand, calls, cpc, writeTx>>
    BY DEF WriterReceives, WriterStep, app, callers
  <1>2. Line(k) = chan[k] /\ chan[k] \in Seq(Requests)
    BY <1>1, LineIs
  <1>3. /\ <<Head(chan[k])>> \o Tail(chan[k]) = chan[k]
        /\ Head(chan[k]) \in Requests /\ Tail(chan[k]) \in Seq(Requests)
        /\ Len(Tail(chan[k])) <= Len(chan[k])
    <2>1. ASSUME NEW t \in Seq(Requests), t # <<>>
          PROVE  /\ <<Head(t)>> \o Tail(t) = t
                 /\ Head(t) \in Requests /\ Tail(t) \in Seq(Requests)
      BY <2>1, ConsHeadTail
    <2>2. ASSUME NEW t \in Seq(Requests), t # <<>> PROVE Len(Tail(t)) <= Len(t)
      BY <2>2
    <2>3. QED
      BY <1>1, <1>2, <2>1, <2>2, Zenon
  <1>4. /\ whand \in [Conns -> Seq(Requests)] /\ chan \in [Conns -> Seq(Requests)]
        /\ wpc'[k] = "send" /\ \A j \in Conns : j # k => wpc'[j] = wpc[j]
        /\ \A j \in Conns : Len(chan[j]) <= ChanCap
    BY <1>1 DEF QInv, FrameTypes, CInv, ControlTypes
  <1> DEFINE h == Head(chan[k])
             t == Tail(chan[k])
  <1> HIDE DEF h, t
  <1>5. /\ whand'[k] = <<h>> /\ chan'[k] = t /\ h \in Requests /\ t \in Seq(Requests)
        /\ \A j \in Conns : j # k => whand'[j] = whand[j] /\ chan'[j] = chan[j]
        /\ whand' \in [Conns -> Seq(Requests)] /\ chan' \in [Conns -> Seq(Requests)]
        /\ \A j \in Conns : Len(chan'[j]) <= ChanCap
    <2>1. whand' = [whand EXCEPT ![k] = <<h>>] /\ chan' = [chan EXCEPT ![k] = t]
      BY <1>1 DEF h, t
    <2>2. h \in Requests /\ t \in Seq(Requests) /\ Len(t) <= Len(chan[k])
          /\ <<h>> \in Seq(Requests) /\ Len(t) \in Nat /\ Len(chan[k]) \in Nat
      BY <1>2, <1>3 DEF h, t
    <2>3. Len(t) <= ChanCap
      BY <1>4, <2>2, BoundsAssumption DEF BoundsAssumption
    <2>4. QED
      BY <1>4, <2>1, <2>2, <2>3
  <1>6. Line(k)' = Line(k)
    <2>1. Line(k)' = <<h>> \o t
      BY <1>5 DEF Line
    <2>2. QED
      BY <1>2, <1>3, <2>1 DEF h, t
  <1>7. \A j \in Conns : Line(j)' = Line(j)
    BY <1>5, <1>6 DEF Line
  <1>8. Contents' = Contents
    <2>1. ASSUME NEW j \in Conns PROVE Contents[LineBox(j)] = Line(j)'
      BY <1>7, ContentsAt
    <2>2. ASSUME NEW d \in Callers PROVE Contents[CallBox(d)] = chand'[d]
      BY <1>1, ContentsAt
    <2>3. Contents = [x \in Index |-> Contents[x]]
      BY DEF Contents
    <2>4. QED
      BY <2>1, <2>2, <2>3, ContentsEqual
  <1>9. Hands'
    <2>1. ASSUME NEW j \in Conns
          PROVE  IF wpc'[j] = "send" THEN \E f \in Requests : whand'[j] = <<f>>
                                     ELSE whand'[j] = <<>>
      BY <1>4, <1>5 DEF QInv, Hands
    <2>2. QED
      BY <1>1, <2>1 DEF QInv, Hands
  <1>10. FrameTypes' /\ Counted' /\ SameCounts
    BY <1>1, <1>5 DEF QInv, FrameTypes, Counted, SameCounts
  <1>11. QInv'
    BY <1>1, <1>8, <1>9, <1>10 DEF QInv
  <1>12. QED
    BY <1>1, <1>8, <1>10, <1>11, GoodSame

\* The request in the hand of the writer is sent or not, and leaves it.
LEMMA SendGood ==
    ASSUME QInv, NEW k \in Conns, WriterSends(k) \/ WriterFails(k), CInv
    PROVE  Good
  <1> DEFINE b == LineBox(k)
             f == Head(whand[k])
             t == Tail(Contents[b])
             h == f.id
  <1>1. PICK p \in {"top", "closing"}, ok \in BOOLEAN :
            /\ wpc' = [wpc EXCEPT ![k] = p] /\ (ok \/ p = "closing")
            /\ Written(k, f, ok)
    BY DEF WriterSends, WriterFails, WriterStep
  <1>2. /\ wpc[k] = "send" /\ whand' = [whand EXCEPT ![k] = <<>>]
        /\ UNCHANGED <<chan, chand, calls, cpc, writeTx>>
    BY DEF WriterSends, WriterFails, WriterStep, app, callers
  <1>3. /\ b \in Index /\ Contents[b] # <<>> /\ Head(Contents[b]) = f
        /\ t = chan[k] /\ f \in Requests
    BY <1>2, LineAt
  <1>4. /\ chan[k] \in Seq(Requests) /\ whand' \in [Conns -> Seq(Requests)]
        /\ whand'[k] = <<>> /\ \A j \in Conns : j # k => whand'[j] = whand[j]
        /\ wpc'[k] = p /\ \A j \in Conns : j # k => wpc'[j] = wpc[j]
    BY <1>1, <1>2 DEF QInv, FrameTypes, CInv, ControlTypes
  <1>5. Line(k)' = t
    <2>1. <<>> \o chan[k] = chan[k]
      BY <1>4, ConcatEmptySeq
    <2>2. Line(k)' = <<>> \o chan[k]
      BY <1>2, <1>4 DEF Line
    <2> HIDE DEF t
    <2>3. QED
      BY <1>3, <2>1, <2>2, Zenon
  <1>6. \A j \in Conns : j # k => Line(j)' = Line(j)
    BY <1>2, <1>4 DEF Line
  <1>7. HeadTaken(Contents, Contents', b)
    <2>1. UNCHANGED chand
      BY <1>2
    <2>2. ASSUME NEW L, L = Line(k)' PROVE Contents' = [Contents EXCEPT ![LineBox(k)] = L]
      BY <1>6, <2>1, <2>2, OneLine
    <2>3. QED
      BY <1>5, <2>2 DEF HeadTaken
  <1>8. Boxes(Index, Requests, Contents, calls)
    BY DEF QInv
  <1> HIDE DEF b, f, t
  <1>9. /\ Boxes(Index, Requests, Contents', calls) /\ h \in Ids(Contents[b])
        /\ \A x \in Index : Ids(Contents'[x]) = Ids(Contents[x]) \ {h}
    <2>1. h # 0
      BY <1>3, NumberedRequests DEF h
    <2>2. /\ Boxes(Index, Requests, Contents', calls)
          /\ f.id # 0 => f.id \in Ids(Contents[b])
          /\ OneLess(Index, Contents, Contents', f.id)
      BY <1>3, <1>7, <1>8, BoxTake
    <2>3. h = f.id
      BY DEF h
    <2> HIDE DEF h
    <2>4. QED
      BY <2>1, <2>2, <2>3, Zenon DEF OneLess
  <1>10. Hands'
    <2>1. ASSUME NEW j \in Conns
          PROVE  IF wpc'[j] = "send" THEN \E g \in Requests : whand'[j] = <<g>>
                                     ELSE whand'[j] = <<>>
      BY <1>4 DEF QInv, Hands
    <2>2. QED
      BY <1>2, <2>1 DEF QInv, Hands
  <1>11. f \in Frames /\ h # 0
    BY <1>3, NumberedRequests DEF Frames
  <1> HIDE DEF h
  <1>12. /\ wire' \in [Conns -> Seq(Frames)] /\ Counted'
         /\ \/ ~ok /\ wire' = wire
            \/ /\ \A i \in 1 .. MaxCalls :
                     Times(wire', i) = IF i = h THEN Times(wire, i) + 1
                                                ELSE Times(wire, i)
               /\ h \in Ids(wire'[k])
    BY <1>1, <1>11, WriteCounts DEF QInv, h
  <1>13. FrameTypes'
    BY <1>2, <1>4, <1>12 DEF QInv, FrameTypes
  <1>14. QInv'
    BY <1>2, <1>9, <1>10, <1>12, <1>13 DEF QInv
  <1>15. CASE ~ok /\ wire' = wire
    <2>1. SameCounts
      BY <1>15 DEF SameCounts
    <2>2. wpc'[k] # wpc[k] /\ wpc'[k] \in {"closing", "done", "panicked"}
      BY <1>1, <1>2, <1>4, <1>15
    <2>3. \A x \in Index : Ids(Contents'[x]) \subseteq Ids(Contents[x])
      BY <1>9
    <2>4. QED
      BY <1>2, <1>14, <2>1, <2>2, <2>3, GoodLoss
  <1>16. CASE /\ \A i \in 1 .. MaxCalls :
                     Times(wire', i) = IF i = h THEN Times(wire, i) + 1
                                                ELSE Times(wire, i)
              /\ h \in Ids(wire'[k])
    <2>1. \A x \in Index : Ids(Contents'[x]) \subseteq Ids(Contents[x]) \ {h}
      BY <1>9
    <2>2. h \in Ids(Contents[LineBox(k)])
      BY <1>9 DEF b
    <2>3. QED
      BY <1>2, <1>9, <1>14, <1>16, <2>1, <2>2, GoodWrite
  <1>17. QED
    BY <1>12, <1>15, <1>16

\* A writer ends, and drops what it and the channel hold; a panic drops the
\* request that failed with it, which may have been sent.
LEMMA EndGood ==
    ASSUME QInv, NEW k \in Conns, CInv,
           WriterPanics(k) \/ WriterLeaves(k) \/ WriterFlushes(k)
    PROVE  Good
  <1> DEFINE b == LineBox(k)
  <1>1. PICK p \in {"done", "panicked"} : wpc' = [wpc EXCEPT ![k] = p]
    BY DEF WriterPanics, WriterLeaves, WriterFlushes, WriterEnds, WriterStep
  <1>2. /\ wpc[k] \in {"send", "top", "flush"} /\ whand' = [whand EXCEPT ![k] = <<>>]
        /\ chan' = [chan EXCEPT ![k] = <<>>]
        /\ UNCHANGED <<chand, calls, cpc, writeTx>>
    BY DEF WriterPanics, WriterLeaves, WriterFlushes, WriterEnds, WriterStep, app,
           callers
  <1>3. /\ whand' \in [Conns -> Seq(Requests)] /\ chan' \in [Conns -> Seq(Requests)]
        /\ whand'[k] = <<>> /\ \A j \in Conns : j # k => whand'[j] = whand[j]
        /\ chan'[k] = <<>> /\ \A j \in Conns : j # k => chan'[j] = chan[j]
        /\ wpc'[k] = p /\ \A j \in Conns : j # k => wpc'[j] = wpc[j]
        /\ \A j \in Conns : Len(chan'[j]) <= ChanCap
    BY <1>1, <1>2, BoundsAssumption
    DEF QInv, FrameTypes, CInv, ControlTypes, BoundsAssumption
  <1>4. Line(k)' = <<>>
    BY <1>3 DEF Line
  <1>5. \A j \in Conns : j # k => Line(j)' = Line(j)
    BY <1>3 DEF Line
  <1>6. Cleared(Contents, Contents', b)
    <2>1. UNCHANGED chand
      BY <1>2
    <2>2. ASSUME NEW L, L = Line(k)' PROVE Contents' = [Contents EXCEPT ![LineBox(k)] = L]
      BY <1>5, <2>1, <2>2, OneLine
    <2>3. QED
      BY <1>4, <2>2 DEF Cleared
  <1>7. Boxes(Index, Requests, Contents, calls) /\ b \in Index
    BY Indices DEF QInv
  <1> HIDE DEF b
  <1>8. /\ Boxes(Index, Requests, Contents', calls)
        /\ \A x \in Index : Ids(Contents'[x]) = IF x = b THEN {} ELSE Ids(Contents[x])
    BY <1>6, <1>7, BoxClear
  <1>9. Hands'
    <2>1. ASSUME NEW j \in Conns
          PROVE  IF wpc'[j] = "send" THEN \E g \in Requests : whand'[j] = <<g>>
                                     ELSE whand'[j] = <<>>
      BY <1>3 DEF QInv, Hands
    <2>2. QED
      BY <1>2, <2>1 DEF QInv, Hands
  <1>10. wpc'[k] # wpc[k] /\ wpc'[k] \in {"closing", "done", "panicked"}
    BY <1>2, <1>3
  <1>11. ASSUME wire' \in [Conns -> Seq(Frames)], Counted' PROVE QInv'
    <2>1. FrameTypes'
      BY <1>2, <1>3, <1>11 DEF QInv, FrameTypes
    <2>2. QED
      BY <1>2, <1>8, <1>9, <1>11, <2>1 DEF QInv
  <1>12. ASSUME wire' = wire PROVE Good
    <2>1. SameCounts /\ Counted' /\ wire' \in [Conns -> Seq(Frames)]
      BY <1>12 DEF SameCounts, QInv, FrameTypes, Counted
    <2>2. \A x \in Index : Ids(Contents'[x]) \subseteq Ids(Contents[x])
      BY <1>8
    <2>3. QED
      BY <1>2, <1>10, <1>11, <2>1, <2>2, GoodLoss
  <1>13. CASE WriterLeaves(k) \/ WriterFlushes(k)
    BY <1>12, <1>13 DEF WriterLeaves, WriterFlushes
  <1>14. CASE WriterPanics(k)
    <2> DEFINE f == Head(whand[k])
               h == f.id
    <2>1. Written(k, f, FALSE) /\ wpc[k] = "send"
      BY <1>14 DEF WriterPanics, WriterEnds, WriterStep
    <2>2. /\ Contents[b] # <<>> /\ Head(Contents[b]) = f /\ f \in Requests
      BY <2>1, LineAt DEF b
    <2>3. f \in Frames /\ h # 0
      BY <2>2, NumberedRequests DEF Frames
    <2>4. h \in Ids(Contents[b])
      <3> DEFINE s == Contents[b]
      <3>1. s \in Seq(Requests)
        BY <1>7 DEF Boxes
      <3>2. 1 \in DOMAIN s /\ s[1] = f
        BY <2>2, <3>1
      <3> HIDE DEF s
      <3>3. h \in Ids(s)
        BY <2>3, <3>1, <3>2, IdsIn
      <3>4. QED
        BY <3>3 DEF s
    <2> HIDE DEF f, h
    <2>5. /\ wire' \in [Conns -> Seq(Frames)] /\ Counted'
          /\ \/ wire' = wire
             \/ /\ \A i \in 1 .. MaxCalls :
                      Times(wire', i) = IF i = h THEN Times(wire, i) + 1
                                                 ELSE Times(wire, i)
                /\ h \in Ids(wire'[k])
      BY <2>1, <2>3, WriteCounts DEF QInv, h
    <2>6. CASE /\ \A i \in 1 .. MaxCalls :
                      Times(wire', i) = IF i = h THEN Times(wire, i) + 1
                                                 ELSE Times(wire, i)
               /\ h \in Ids(wire'[k])
      <3>1. \A x \in Index : x # b => h \notin Ids(Contents[x])
        BY <1>7, <2>4 DEF Boxes, OneEach
      <3>2. \A x \in Index : Ids(Contents'[x]) \subseteq Ids(Contents[x]) \ {h}
        BY <1>8, <3>1
      <3>3. h \in Ids(Contents[LineBox(k)])
        BY <2>4 DEF b
      <3>4. QED
        BY <1>2, <1>10, <1>11, <2>5, <2>6, <3>2, <3>3, GoodWrite
    <2>7. QED
      BY <1>12, <2>5, <2>6
  <1>15. QED
    BY <1>13, <1>14
LEMMA WriterGood ==
    ASSUME QInv, NEW k \in Conns, WriterNext(k), CInv
    PROVE  Good
  <1>1. CASE WriterLoops(k) \/ WriterToldToStop(k)
    <2>1. Calm /\ UNCHANGED <<cpc, writeTx>>
      BY <1>1 DEF WriterLoops, WriterToldToStop, WriterStep, app, callers, Calm
    <2>2. PICK p \in {"select", "closing"} : wpc' = [wpc EXCEPT ![k] = p]
      BY <1>1 DEF WriterLoops, WriterToldToStop, WriterStep
    <2>3. wpc[k] # "send"
      BY <1>1 DEF WriterLoops, WriterToldToStop, WriterStep
    <2>4. Hands'
      BY <2>1, <2>2, <2>3 DEF QInv, Hands, Calm, CInv, ControlTypes
    <2>5. QED
      BY <2>1, <2>4, CalmGood
  <1>2. CASE WriterCloses(k)
    <2>1. /\ wpc[k] = "closing" /\ wpc' = [wpc EXCEPT ![k] = "flush"]
          /\ UNCHANGED <<chan, whand, chand, calls, cpc, writeTx>>
      BY <1>2 DEF WriterCloses, WriterStep, app, callers
    <2>2. Hands'
      BY <2>1 DEF QInv, Hands, CInv, ControlTypes
    <2>3. PICK ok \in BOOLEAN : Written(k, CloseFrame, ok)
      BY <1>2 DEF WriterCloses
    <2>4. QED
      BY <2>1, <2>2, <2>3, OwnFrameGood
  <1>3. QED
    BY <1>1, <1>2, ReceiveGood, SendGood, EndGood DEF WriterNext

LEMMA StepGood == CInv /\ QInv /\ [Next]_vars => Good
  <1> SUFFICES ASSUME CInv, QInv, [Next]_vars PROVE Good
    OBVIOUS
  <1>1. CASE UNCHANGED vars
    <2>1. Calm /\ UNCHANGED <<wpc, cpc, writeTx>>
      BY <1>1 DEF vars, app, net, writers, callers, Calm
    <2>2. Hands'
      BY <2>1 DEF QInv, Hands, Calm
    <2>3. QED
      BY <2>1, <2>2, CalmGood
  <1>2. CASE ConnectCall \/ ConnectNext \/ CloseCall \/ CloseNext
    BY <1>2, AppGood
  <1>3. ASSUME NEW c \in Callers, CallerNext(c) PROVE Good
    BY <1>3, CallGood, QueueGood DEF CallerNext
  <1>4. ASSUME NEW k \in Conns, WriterNext(k) PROVE Good
    BY <1>4, WriterGood
  <1>5. ASSUME NEW k \in Conns,
               ReaderNext(k) \/ LinkDrops(k) \/ LinkStalls(k) \/ LinkRecovers(k)
        PROVE  Good
    BY <1>5, ReaderGood
  <1>6. QED
    BY <1>1, <1>2, <1>3, <1>4, <1>5 DEF Next

\* No request is anywhere at the start.
LEMMA InitRequests ==
    Init => /\ QInv /\ Held = {} /\ Counts = [i \in 1 .. MaxCalls |-> 0]
  <1> SUFFICES ASSUME Init
               PROVE  QInv /\ Held = {} /\ Counts = [i \in 1 .. MaxCalls |-> 0]
    OBVIOUS
  <1>1. calls = 0 /\ 0 \in 0 .. MaxCalls /\ 0 \in Nat /\ 0 <= ChanCap
    BY BoundsAssumption DEF Init, BoundsAssumption
  <1>2. FrameTypes
    <2>1. \A k \in Conns : chan[k] = <<>> /\ Len(chan[k]) = 0
      BY DEF Init
    <2>2. QED
      BY <1>1, <2>1 DEF Init, FrameTypes
  <1>3. Hands
    BY DEF Init, Hands
  <1>4. ASSUME NEW x \in Index PROVE Contents[x] = <<>>
    <2>1. ASSUME NEW k \in Conns PROVE Contents[LineBox(k)] = <<>>
      <3>1. Line(k) = <<>>
        BY DEF Init, Line
      <3>2. QED
        BY <3>1, ContentsAt
    <2>2. ASSUME NEW c \in Callers PROVE Contents[CallBox(c)] = <<>>
      BY ContentsAt DEF Init
    <2>3. QED
      BY <2>1, <2>2, Indices
  <1>5. Boxes(Index, Requests, Contents, calls)
    <2>1. Contents \in [Index -> Seq(Requests)]
      <3>1. Contents = [x \in Index |-> Contents[x]]
        BY DEF Contents
      <3>2. <<>> \in Seq(Requests)
        OBVIOUS
      <3>3. \A x \in Index : Contents[x] \in Seq(Requests)
        BY <1>4, <3>2, Zenon
      <3>4. QED
        BY <3>1, <3>3
    <2>2. \A x \in Index : Distinct(Contents[x]) /\ Ids(Contents[x]) = {}
      BY <1>4, IdsEmpty
    <2>3. OneEach(Index, Contents, calls)
      BY <2>2 DEF OneEach
    <2>4. QED
      BY <1>1, <2>1, <2>3 DEF Boxes
  <1>6. ASSUME NEW i PROVE Times(wire, i) = 0 /\ IsFiniteSet(Places(wire, i))
    BY NothingSent DEF Init
  <1>7. Held = {}
    <2>1. HeldWhere
      BY <1>2, HeldIn
    <2>2. \A x \in Index : Ids(Contents[x]) = {}
      BY <1>4, IdsEmpty
    <2>3. QED
      BY <2>1, <2>2 DEF HeldWhere
  <1>8. QED
    BY <1>2, <1>3, <1>5, <1>6, <1>7 DEF QInv, Counted, Counts

\* Each request is in one place at most, and its caller or writer stands
\* where it holds one.
THEOREM RequestInvariance == Spec => [](CInv /\ QInv)
  <1>1. Init => CInv /\ QInv
    BY InitControl, InitRequests
  <1>2. CInv /\ QInv /\ [Next]_vars => (CInv /\ QInv)'
    BY StepControl, StepGood DEF Good
  <1>3. QED
    BY <1>1, <1>2, PTL DEF Spec

\* The types of the client's state, the capacity of the channel included.
THEOREM RustTypes == Spec => []TypeOK
  <1>1. CInv /\ QInv => TypeOK
    BY DEF CInv, QInv, TypeOK
  <1>2. QED
    BY <1>1, RequestInvariance, PTL

\* A request that was accepted leaves the client only by being sent, by the
\* failure of its write, or with its writer.
THEOREM RequestsAreKept == Spec => LostOnlyWithWriter
  <1>1. CInv /\ QInv /\ [Next]_vars => [Excused]_vars
    BY StepGood DEF Good
  <1>2. QED
    BY <1>1, RequestInvariance, PTL DEF Spec, LostOnlyWithWriter, Excused

\* Every step of the client is one of Outbox, or leaves it alone: however
\* the tasks end, no request is sent twice.
THEOREM RequestsSentOnce == Spec => AtMostOnce
  <1>1. Init => Box!Init
    BY InitRequests DEF Init, Box!Init, Counts
  <1>2. CInv /\ QInv /\ [Next]_vars => [Box!Next]_(Box!vars)
    BY StepGood DEF Good
  <1>3. QED
    BY <1>1, <1>2, RequestInvariance, PTL DEF Spec, AtMostOnce, Box!Spec
=============================================================================
