---------------------------- MODULE PyClientProofs --------------------------
(***************************************************************************)
(* Proofs about the Python client, for any number of connects and calls    *)
(* and any size of the queue.  In every history, those included in which a *)
(* connect came during a teardown: the types of its state, that no request *)
(* is sent twice, and that each goes out in its own session.  In those in  *)
(* which none did: that a connected client is usable, and that close       *)
(* leaves nothing behind.                                                  *)
(***************************************************************************)
EXTENDS PyClientProps, TallyProofs

-----------------------------------------------------------------------------
(* The inductive invariant.                                                *)

\* A connection is used by nobody before it is dialled, and nothing is sent
\* on it until then.
Links ==
    /\ \A k \in Tries : k > tries => link[k] = "unused"
    /\ \A k \in Tries : link[k] = "unused" => wire[k] = <<>>
    /\ ws # 0 => link[ws] # "unused"
    /\ pc[App] = "dial" => tries \in Tries /\ link[tries] = "unused"

\* A task that waits for a request waits at a queue.
Asks == \A k \in Tries : pc[Writer(k)] \in {"get", "got"} => on[Writer(k)] \in Tries

\* Each request is in at most one place of at most one queue.
Queued ==
    /\ \A k \in Tries : Distinct(queue[k]) /\ Ids(queue[k]) \subseteq 1 .. calls
    /\ \A k, j \in Tries : k # j => Ids(queue[k]) \cap Ids(queue[j]) = {}

Counted == \A i \in 1 .. MaxCalls : IsFiniteSet(Places(wire, i))

IInv == ControlTypes /\ FrameTypes /\ Links /\ Asks /\ Queued /\ Counted

LEMMA Names ==
    /\ App \in Actors
    /\ \A k \in Tries : /\ Reader(k) \in Actors /\ Writer(k) \in Actors
                        /\ Reader(k) # App /\ Writer(k) # App
                        /\ \A j \in Tries : Reader(k) # Writer(j)
                        /\ \A j \in Tries : k # j => Writer(k) # Writer(j)
    /\ Readers \subseteq Actors /\ Writers \subseteq Actors
    /\ App \notin Readers /\ App \notin Writers
  BY DEF Actors, App, Reader, Writer, Readers, Writers

\* What a step of a task or of close leaves alone.
Still == UNCHANGED <<queue, wire, calls>>
\* A task that goes on to a place p of its own.
Moves(a, p) ==
    /\ pc' = [pc EXCEPT ![a] = p]
    /\ cpu' \in Actors \cup {Nobody}

LEMMA Moving ==
    ASSUME NEW a \in Actors, NEW p, GoOn(a, p) \/ Await(a, p)
    PROVE  Moves(a, p)
  BY DEF GoOn, Await, Moves

SamePlaces == UNCHANGED <<ws, tries, link>>

\* Where the connections stay as they are, and no task comes to a queue.
LEMMA MovesLinks ==
    ASSUME IInv, NEW a \in Actors,
           NEW p \in (ClosePlaces \cup TaskPlaces \cup AppPlaces) \ {"dial", "get", "got"},
           Moves(a, p), SamePlaces, UNCHANGED wire,
           on' = on \/ \E v \in 0 .. MaxTries : on' = [on EXCEPT ![a] = v]
    PROVE  /\ Links' /\ Asks'
           /\ ws' \in 0 .. MaxTries /\ tries' \in 0 .. MaxTries
           /\ link' \in [Tries -> {"unused", "open", "down", "closed"}]
           /\ cpu' \in Actors \cup {Nobody}
           /\ pc' \in [Actors -> ClosePlaces \cup TaskPlaces \cup AppPlaces]
           /\ on' \in [Actors -> 0 .. MaxTries]
  <1>1. Links'
    BY DEF IInv, Links, ControlTypes, Moves, SamePlaces
  <1>2. Asks'
    BY Names DEF IInv, Asks, ControlTypes, Moves
  <1>3. QED
    BY <1>1, <1>2 DEF IInv, ControlTypes, Moves, SamePlaces

LEMMA StillInv ==
    ASSUME IInv, Still, ControlTypes', Links', Asks' PROVE IInv'
  <1>1. FrameTypes' /\ Queued'
    BY DEF IInv, Still, FrameTypes, Queued
  <1>2. Counted'
    BY DEF IInv, Still, Counted
  <1>3. QED
    BY <1>1, <1>2 DEF IInv

-----------------------------------------------------------------------------
(* The steps of connect.                                                   *)

LEMMA ConnectInv == IInv /\ (ConnectCall \/ ConnectNext) => IInv'
  <1> USE DEF fields, net, count
  <1> SUFFICES ASSUME IInv, ConnectCall \/ ConnectNext PROVE IInv'
    OBVIOUS
  <1>1. CASE ConnectCall
    <2>1. overlap' \in BOOLEAN /\ connected' \in BOOLEAN /\ closing' \in BOOLEAN
          /\ lock' \in BOOLEAN
      BY <1>1, Zenon DEF ConnectCall, IInv, ControlTypes
    <2>2. tries' \in 1 .. MaxTries /\ tries' = tries + 1
      BY <1>1, BoundsAssumption DEF ConnectCall, IInv, ControlTypes,
         BoundsAssumption
    <2>3. ControlTypes'
      BY <1>1, <2>1, <2>2, Names DEF ConnectCall, Await, IInv, ControlTypes,
                                     AppPlaces, Nobody
    <2>4. Links'
      BY <1>1, <2>2, Names DEF ConnectCall, Await, IInv, ControlTypes, Links,
                               Tries
    <2>5. Asks'
      BY <1>1, Names DEF ConnectCall, Await, IInv, ControlTypes, Asks
    <2>6. Still
      BY <1>1 DEF ConnectCall, Still
    <2>7. QED
      BY <2>3, <2>4, <2>5, <2>6, StillInv
  <1>2. CASE DialFails \/ HelloFails
    <2>1. Still /\ Moves(App, "undo") /\ UNCHANGED <<fields, net, on, cancelled, count>>
      BY <1>2, Moving, Names DEF DialFails, HelloFails, Still
    <2>2. QED
      BY <2>1, MovesLinks, StillInv, Names DEF SamePlaces, IInv, ControlTypes,
         AppPlaces
  <1>3. CASE UndoCloses
    <2>1. Still /\ Moves(App, "undone") /\ UNCHANGED <<fields, wire, on, cancelled, count>>
          /\ link' = [link EXCEPT ![ws] = "closed"] /\ ws # 0
      BY <1>3, Moving, Names DEF UndoCloses, Still, Shut
    <2>2. ControlTypes'
      BY <2>1, Names DEF IInv, ControlTypes, AppPlaces, Moves
    <2>3. ws \in Tries /\ link[ws] # "unused"
      BY <2>1, BoundsAssumption DEF IInv, ControlTypes, Links, Tries,
         BoundsAssumption
    <2>4. Links'
      BY <2>1, <2>3, Names DEF IInv, ControlTypes, Links, Moves
    <2>5. Asks'
      BY <2>1, Names DEF IInv, ControlTypes, Asks, Moves
    <2>6. QED
      BY <2>1, <2>2, <2>4, <2>5, StillInv
  <1>4. CASE ConnectFails
    <2>1. Still /\ Moves(App, "idle") /\ ws' = 0 /\ writeQueue' = 0 /\ lock' = FALSE
          /\ UNCHANGED <<connected, closing, readTask, writeTask, net, on, cancelled, count>>
      BY <1>4, Moving, Names DEF ConnectFails, Still
    <2>2. ControlTypes'
      <3>1. 0 \in 0 .. MaxTries
        BY BoundsAssumption DEF BoundsAssumption
      <3>2. QED
        BY <2>1, <3>1, Names DEF IInv, ControlTypes, AppPlaces, Moves
    <2>3. Links' /\ Asks'
      BY <2>1, Names DEF IInv, ControlTypes, Links, Asks, Moves
    <2>4. QED
      BY <2>1, <2>2, <2>3, StillInv
  <1>5. CASE Connects
    <2>1. connected' \in BOOLEAN /\ lock' \in BOOLEAN
      BY <1>5, Zenon DEF Connects
    <2>2. ControlTypes'
      BY <1>5, <2>1, Names DEF Connects, IInv, ControlTypes, AppPlaces,
         TaskPlaces
    <2>3. Links' /\ Asks' /\ Still
      BY <1>5, Names DEF Connects, IInv, ControlTypes, Links, Asks, Still
    <2>4. QED
      BY <2>2, <2>3, StillInv
  <1>6. CASE Dials
    <2>1. pc[App] = "dial" /\ tries \in Tries /\ link[tries] = "unused"
          /\ wire[tries] = <<>> /\ Moves(App, "hello")
      BY <1>6, Moving, Names DEF Dials, Resumed, IInv, Links
    <2>2. ControlTypes'
      BY <1>6, <2>1, Names DEF Dials, IInv, ControlTypes, AppPlaces, Moves
    <2>3. Hello \in Frame
      BY BoundsAssumption DEF Hello, Frame, BoundsAssumption
    <2>4. /\ wire' = [wire EXCEPT ![tries] = Append(@, Hello)]
          /\ wire' \in [Tries -> Seq(Frame)]
      BY <1>6, <2>1, <2>3 DEF Dials, IInv, FrameTypes
    <2>5. Links'
      BY <1>6, <2>1, <2>2, Names DEF Dials, IInv, ControlTypes, Links, Moves,
         Tries
    <2>6. Asks' /\ FrameTypes' /\ Queued'
      <3>1. UNCHANGED <<queue, on, calls>>
        BY <1>6 DEF Dials
      <3>2. Asks'
        BY <2>1, <3>1, Names DEF IInv, ControlTypes, Asks, Moves
      <3>3. FrameTypes' /\ Queued'
        BY <2>4, <3>1 DEF IInv, FrameTypes, Queued
      <3>4. QED
        BY <3>2, <3>3
    <2>7. Counted'
      <3>1. Sending(Tries, Frame, wire, wire', tries, Hello)
        BY <2>1, <2>3, <2>4 DEF Sending, IInv, FrameTypes
      <3>2. QED
        BY <3>1, SendCounts DEF IInv, Counted
    <2>8. QED
      BY <2>2, <2>5, <2>6, <2>7 DEF IInv
  <1>7. QED
    BY <1>1, <1>2, <1>3, <1>4, <1>5, <1>6 DEF ConnectNext
-----------------------------------------------------------------------------
(* The steps of close, by the application or by a task.                    *)

\* Moves that change nothing but the place and what is given explicitly.
LEMMA PlainMove ==
    ASSUME IInv, NEW a \in Actors,
           NEW p \in (ClosePlaces \cup TaskPlaces \cup AppPlaces)
                        \ {"dial", "get", "got"},
           Moves(a, p), Still, SamePlaces,
           on' = on \/ \E v \in 0 .. MaxTries : on' = [on EXCEPT ![a] = v],
           connected' \in BOOLEAN, closing' \in BOOLEAN, lock' = lock,
           UNCHANGED <<writeQueue, readTask, writeTask, overlap>>,
           cancelled' \in [Actors -> BOOLEAN]
    PROVE  IInv'
  <1>1. UNCHANGED wire
    BY DEF Still
  <1>2. /\ Links' /\ Asks'
        /\ ws' \in 0 .. MaxTries /\ tries' \in 0 .. MaxTries
        /\ link' \in [Tries -> {"unused", "open", "down", "closed"}]
        /\ cpu' \in Actors \cup {Nobody}
        /\ pc' \in [Actors -> ClosePlaces \cup TaskPlaces \cup AppPlaces]
        /\ on' \in [Actors -> 0 .. MaxTries]
    BY <1>1, MovesLinks
  <1>3. ControlTypes'
    BY <1>2 DEF IInv, ControlTypes
  <1>4. QED
    BY <1>2, <1>3, StillInv

LEMMA CancelTypes ==
    ASSUME cancelled \in [Actors -> BOOLEAN], NEW t, Cancel(t)
    PROVE  cancelled' \in [Actors -> BOOLEAN]
  <1> DEFINE v == Victim(t)
             b == cancelled[v] \/ pc[v] # "done"
  <1>1. b \in BOOLEAN
    BY Zenon
  <1>2. cancelled' = [cancelled EXCEPT ![v] = b]
    BY Zenon DEF Cancel
  <1> HIDE DEF v, b
  <1>3. QED
    BY <1>1, <1>2

LEMMA CloseInv ==
    ASSUME IInv, NEW a \in Actors, (a = App /\ CloseCall) \/ CloseNext(a)
    PROVE  IInv'
  <1> USE DEF fields, net, count
  <1> DEFINE Plain == UNCHANGED <<lock, writeQueue, readTask, writeTask, overlap>>
  <1>1. cancelled \in [Actors -> BOOLEAN] /\ connected \in BOOLEAN
        /\ closing \in BOOLEAN
    BY DEF IInv, ControlTypes
  <1>2. CASE a = App /\ CloseCall
    <2>1. Moves(a, "enter") /\ Still /\ SamePlaces /\ Plain
          /\ UNCHANGED <<connected, closing, on, cancelled>>
      BY <1>2, Moving DEF CloseCall, Still, SamePlaces
    <2>2. QED
      BY <1>1, <2>1, PlainMove DEF ClosePlaces
  <1>3. CASE CloseWaits(a)
    <2>1. Moves(a, "lock") /\ Still /\ SamePlaces /\ Plain
          /\ UNCHANGED <<connected, closing, on, cancelled>>
      BY <1>3, Moving DEF CloseWaits, Still, SamePlaces
    <2>2. QED
      BY <1>1, <2>1, PlainMove DEF ClosePlaces
  <1>4. CASE CloseNothing(a)
    <2>1. PICK p \in {"idle", "done"} : Moves(a, p)
      BY <1>4, Moving DEF CloseNothing, Return
    <2>2. Still /\ SamePlaces /\ Plain
          /\ UNCHANGED <<connected, closing, on, cancelled>>
      BY <1>4 DEF CloseNothing, Still, SamePlaces
    <2>3. QED
      BY <1>1, <2>1, <2>2, PlainMove DEF AppPlaces, TaskPlaces
  <1>5. CASE CloseStarts(a)
    <2>1. Moves(a, "cancelRead") /\ Still /\ SamePlaces /\ Plain
          /\ UNCHANGED <<on, cancelled>>
      BY <1>5, Moving DEF CloseStarts, Still, SamePlaces
    <2>2. connected' \in BOOLEAN /\ closing' \in BOOLEAN
      BY <1>5, Zenon DEF CloseStarts
    <2>3. QED
      BY <1>1, <2>1, <2>2, PlainMove DEF ClosePlaces
  <1>6. CASE CancelRead(a)
    <2>1. Still /\ SamePlaces /\ Plain /\ UNCHANGED <<connected, closing>>
      BY <1>6 DEF CancelRead, Still, SamePlaces
    <2>2. CASE Cancellable(a, Reader(readTask))
      <3>1. Moves(a, "awaitRead") /\ on' = [on EXCEPT ![a] = readTask]
            /\ Cancel(Reader(readTask))
        BY <1>6, <2>2, Moving DEF CancelRead
      <3>2. cancelled' \in [Actors -> BOOLEAN]
        BY <1>1, <3>1, CancelTypes
      <3>3. readTask \in 0 .. MaxTries
        BY DEF IInv, ControlTypes
      <3>4. QED
        BY <1>1, <2>1, <3>1, <3>2, <3>3, PlainMove DEF ClosePlaces
    <2>3. CASE ~ Cancellable(a, Reader(readTask))
      <3>1. Moves(a, "cancelWrite") /\ UNCHANGED <<on, cancelled>>
        BY <1>6, <2>3, Moving DEF CancelRead
      <3>2. QED
        BY <1>1, <2>1, <3>1, PlainMove DEF ClosePlaces
    <2>4. QED
      BY <2>2, <2>3
  <1>7. CASE ReadAwaited(a)
    <2>1. Moves(a, "cancelWrite") /\ Still /\ SamePlaces /\ Plain
          /\ UNCHANGED <<connected, closing, on, cancelled>>
      BY <1>7, Moving DEF ReadAwaited, Still, SamePlaces
    <2>2. QED
      BY <1>1, <2>1, PlainMove DEF ClosePlaces
  <1>8. CASE CancelWrite(a)
    <2>1. Still /\ SamePlaces /\ Plain /\ UNCHANGED <<connected, closing>>
      BY <1>8 DEF CancelWrite, Still, SamePlaces
    <2>2. CASE Cancellable(a, Writer(writeTask))
      <3>1. Moves(a, "awaitWrite") /\ on' = [on EXCEPT ![a] = writeTask]
            /\ Cancel(Writer(writeTask))
        BY <1>8, <2>2, Moving DEF CancelWrite
      <3>2. cancelled' \in [Actors -> BOOLEAN]
        BY <1>1, <3>1, CancelTypes
      <3>3. writeTask \in 0 .. MaxTries
        BY DEF IInv, ControlTypes
      <3>4. QED
        BY <1>1, <2>1, <3>1, <3>2, <3>3, PlainMove DEF ClosePlaces
    <2>3. CASE ~ Cancellable(a, Writer(writeTask))
      <3>1. Moves(a, "cleanup") /\ UNCHANGED <<on, cancelled>>
        BY <1>8, <2>3, Moving DEF CancelWrite
      <3>2. QED
        BY <1>1, <2>1, <3>1, PlainMove DEF ClosePlaces
    <2>4. QED
      BY <2>2, <2>3
  <1>9. CASE WriteAwaited(a)
    <2>1. Moves(a, "cleanup") /\ Still /\ SamePlaces /\ Plain
          /\ UNCHANGED <<connected, closing, on, cancelled>>
      BY <1>9, Moving DEF WriteAwaited, Still, SamePlaces
    <2>2. QED
      BY <1>1, <2>1, PlainMove DEF ClosePlaces
  <1>10. CASE CleanupCloses(a)
    <2>1. Still /\ Moves(a, "wsClose")
          /\ UNCHANGED <<fields, wire, on, cancelled, count>>
          /\ link' = [link EXCEPT ![ws] = "closed"] /\ ws # 0
      BY <1>10, Moving DEF CleanupCloses, Still, Shut
    <2>2. ControlTypes'
      BY <2>1 DEF IInv, ControlTypes, ClosePlaces, Moves
    <2>3. ws \in Tries /\ link[ws] # "unused"
      BY <2>1, BoundsAssumption DEF IInv, ControlTypes, Links, Tries,
         BoundsAssumption
    <2>4. Links'
      BY <2>1, <2>3, Names DEF IInv, ControlTypes, Links, Moves
    <2>5. Asks'
      BY <2>1, Names DEF IInv, ControlTypes, Asks, Moves
    <2>6. QED
      BY <2>1, <2>2, <2>4, <2>5, StillInv
  <1>11. CASE CloseEnds(a)
    <2>1. PICK p \in {"idle", "done"} : Moves(a, p)
      BY <1>11, Moving DEF CloseEnds, Return
    <2>2. Still /\ ws' = 0 /\ writeQueue' = 0 /\ readTask' = 0 /\ writeTask' = 0
          /\ UNCHANGED <<connected, lock, net, on, cancelled, tries, overlap>>
          /\ closing' = FALSE
      BY <1>11 DEF CloseEnds, Still
    <2>3. ControlTypes'
      <3>1. 0 \in 0 .. MaxTries
        BY BoundsAssumption DEF BoundsAssumption
      <3>2. QED
        BY <2>1, <2>2, <3>1 DEF IInv, ControlTypes, AppPlaces, TaskPlaces, Moves
    <2>4. Links' /\ Asks'
      BY <2>1, <2>2, Names DEF IInv, ControlTypes, Links, Asks, Moves
    <2>5. QED
      BY <2>2, <2>3, <2>4, StillInv
  <1>12. CASE CloseInterrupted(a)
    <2>1. Moves(a, "done") /\ Still /\ SamePlaces /\ Plain
          /\ UNCHANGED <<connected, closing, on>>
          /\ cancelled' = [cancelled EXCEPT ![a] = FALSE]
      BY <1>12, Moving DEF CloseInterrupted, Still, SamePlaces
    <2>2. QED
      BY <1>1, <2>1, PlainMove DEF TaskPlaces
  <1>13. CASE AwaitRaises(a)
    <2>1. PICK p \in {"idle", "done"} : Moves(a, p)
      BY <1>13, Moving DEF AwaitRaises, Return
    <2>2. Still /\ SamePlaces /\ Plain
          /\ UNCHANGED <<connected, closing, on, cancelled>>
      BY <1>13 DEF AwaitRaises, Still, SamePlaces
    <2>3. QED
      BY <1>1, <2>1, <2>2, PlainMove DEF AppPlaces, TaskPlaces
  <1>14. QED
    BY <1>2, <1>3, <1>4, <1>5, <1>6, <1>7, <1>8, <1>9, <1>10, <1>11, <1>12,
       <1>13 DEF CloseNext
-----------------------------------------------------------------------------
(* The steps of the read and write tasks, and of the application.          *)

LEMMA TaskInv ==
    ASSUME IInv, NEW a \in Readers \cup Writers,
           \/ Starts(a) \/ Leaves(a) \/ Reported(a)
           \/ LoopInterrupted(a) \/ Exits(a)
    PROVE  IInv'
  <1> USE DEF fields, net, count
  <1>1. /\ cancelled \in [Actors -> BOOLEAN] /\ connected \in BOOLEAN
        /\ closing \in BOOLEAN /\ a \in Actors
    BY Names DEF IInv, ControlTypes
  <1>2. UNCHANGED <<fields, net, count, queue, on>>
    BY DEF TaskStep, Starts, Leaves, Reported, LoopInterrupted, Exits
  <1>3. Still /\ SamePlaces
    BY <1>2 DEF Still, SamePlaces
  <1>4. cancelled' \in [Actors -> BOOLEAN]
    BY <1>1 DEF Starts, Leaves, Reported, LoopInterrupted, Exits
  <1>5. PICK p \in {"done", "top", "exit", "enter"} : Moves(a, p)
    BY <1>1, Moving DEF Starts, Leaves, Reported, LoopInterrupted, Exits
  <1>6. QED
    BY <1>1, <1>2, <1>3, <1>4, <1>5, PlainMove DEF TaskPlaces, ClosePlaces

LEMMA ReaderInv ==
    ASSUME IInv, NEW k \in Tries, ReaderNext(k)
    PROVE  IInv'
  <1> USE DEF fields, net, count
  <1>1. /\ cancelled \in [Actors -> BOOLEAN] /\ connected \in BOOLEAN
        /\ closing \in BOOLEAN /\ Reader(k) \in Actors /\ ws \in 0 .. MaxTries
    BY Names DEF IInv, ControlTypes
  <1>2. UNCHANGED <<fields, net, count, queue, cancelled>>
    BY DEF ReaderStep, TaskStep, ReaderNext, Reads, Receives, Handled, ReadFails,
           Lost
  <1>3. Still /\ SamePlaces
    BY <1>2 DEF Still, SamePlaces
  <1>4. on' = on \/ \E v \in 0 .. MaxTries : on' = [on EXCEPT ![Reader(k)] = v]
    BY <1>1 DEF ReaderNext, Reads, Receives, Handled, ReadFails, Lost
  <1>5. PICK p \in {"fail", "recv", "handler", "top", "exit"} : Moves(Reader(k), p)
    BY <1>1, Moving DEF ReaderNext, Reads, Receives, Handled, ReadFails, Lost
  <1>6. QED
    BY <1>1, <1>2, <1>3, <1>4, <1>5, PlainMove DEF TaskPlaces

\* A writer that got a request takes it from the queue, and sends it or not.
Takes(k, q) ==
    /\ q \in Tries /\ queue[q] # <<>>
    /\ queue' = [queue EXCEPT ![q] = Tail(@)]
    /\ UNCHANGED <<calls, link, tries, ws>>

Sends(q) ==
    /\ ws \in Tries /\ link[ws] = "open"
    /\ wire' = [wire EXCEPT ![ws] = Append(@, Head(queue[q]))]

LEMMA WritesTake ==
    ASSUME IInv, NEW k \in Tries, Writes(k)
    PROVE  /\ Takes(k, on[Writer(k)])
           /\ Sends(on[Writer(k)]) \/ UNCHANGED wire
  <1>1. on[Writer(k)] \in Tries
    BY DEF Writes, Running, Resumed, IInv, Asks
  <1>2. ws # 0 => ws \in Tries
    BY BoundsAssumption DEF IInv, ControlTypes, Tries, BoundsAssumption
  <1>3. QED
    BY <1>1, <1>2 DEF Writes, WriterStep, Takes, Sends, fields

LEMMA TakesQueue ==
    ASSUME IInv, NEW k, NEW q, Takes(k, q)
    PROVE  /\ Queued'
           /\ queue' \in [Tries -> Seq(Request)]
           /\ \A j \in Tries : Len(queue'[j]) <= QueueSize
           /\ Head(queue[q]) \in Request /\ Head(queue[q]).id \in Ids(queue[q])
           /\ \A j \in Tries :
                Ids(queue'[j]) = Ids(queue[j]) \ {Head(queue[q]).id}
  <1> DEFINE s == queue[q]
  <1>1. \A r \in Request : r.id # 0
    BY BoundsAssumption DEF Request, BoundsAssumption
  <1>2. s \in Seq(Request) /\ s # <<>> /\ Distinct(s) /\ q \in Tries
        /\ Len(s) <= QueueSize
    BY DEF IInv, FrameTypes, Queued, Takes
  <1> HIDE DEF s
  <1>3. /\ Head(s) \in Request /\ Head(s).id \in Ids(s)
        /\ Tail(s) \in Seq(Request) /\ Distinct(Tail(s))
        /\ Ids(Tail(s)) = Ids(s) \ {Head(s).id}
    BY <1>1, <1>2, IdsTail
  <1>4. Len(Tail(s)) <= QueueSize
    BY <1>2, BoundsAssumption DEF BoundsAssumption
  <1>5. /\ queue' = [queue EXCEPT ![q] = Tail(s)]
        /\ queue \in [Tries -> Seq(Request)]
        /\ \A j \in Tries : Len(queue[j]) <= QueueSize
    BY DEF Takes, s, IInv, FrameTypes
  <1>6. queue'[q] = Tail(s) /\ \A j \in Tries : j # q => queue'[j] = queue[j]
    BY <1>2, <1>5
  <1>7. \A j \in Tries : j # q => Head(s).id \notin Ids(queue[j])
    BY <1>2, <1>3 DEF IInv, Queued, s
  <1>8. ASSUME NEW j \in Tries
        PROVE  Ids(queue'[j]) = Ids(queue[j]) \ {Head(s).id}
    BY <1>3, <1>6, <1>7 DEF s
  <1>9. Queued'
    <2>1. calls' = calls
      BY DEF Takes
    <2>2. ASSUME NEW j \in Tries
          PROVE  Distinct(queue'[j]) /\ Ids(queue'[j]) \subseteq 1 .. calls'
      BY <1>3, <1>6, <1>8, <2>1 DEF IInv, Queued
    <2>3. ASSUME NEW j \in Tries, NEW i \in Tries, i # j
          PROVE  Ids(queue'[i]) \cap Ids(queue'[j]) = {}
      BY <1>8, <2>3 DEF IInv, Queued
    <2>4. QED
      BY <2>2, <2>3 DEF Queued
  <1>10. queue' \in [Tries -> Seq(Request)]
    BY <1>2, <1>3, <1>5
  <1>11. \A j \in Tries : Len(queue'[j]) <= QueueSize
    BY <1>4, <1>5, <1>6
  <1>12. QED
    BY <1>3, <1>8, <1>9, <1>10, <1>11 DEF s
\* What is sent is counted on the connection it is sent on.
LEMMA FrameCounts ==
    ASSUME IInv, NEW k \in Tries, NEW f \in Frame,
           wire' = [wire EXCEPT ![k] = Append(@, f)]
    PROVE  /\ wire' \in [Tries -> Seq(Frame)] /\ Counted'
           /\ \A i \in 1 .. MaxCalls :
                Times(wire', i) = IF i = f.id THEN Times(wire, i) + 1
                                  ELSE Times(wire, i)
           /\ \A j \in Tries : j # k => wire'[j] = wire[j]
  <1>1. wire \in [Tries -> Seq(Frame)]
    BY DEF IInv, FrameTypes
  <1>2. wire' \in [Tries -> Seq(Frame)] /\ \A j \in Tries : j # k => wire'[j] = wire[j]
    BY <1>1
  <1>3. ASSUME NEW i, IsFiniteSet(Places(wire, i))
        PROVE  /\ IsFiniteSet(Places(wire', i))
               /\ f.id = i => Times(wire', i) = Times(wire, i) + 1
               /\ f.id # i => Times(wire', i) = Times(wire, i)
    <2>1. Sending(Tries, Frame, wire, wire', k, f)
      BY <1>1 DEF Sending
    <2>2. QED
      BY <1>3, <2>1, SendCounts
  <1>4. \A i \in 1 .. MaxCalls : IsFiniteSet(Places(wire, i))
    BY DEF IInv, Counted
  <1>5. QED
    BY <1>2, <1>3, <1>4 DEF Counted

LEMMA SendsWire ==
    ASSUME IInv, NEW q \in Tries, queue[q] # <<>>, Sends(q)
    PROVE  /\ wire' \in [Tries -> Seq(Frame)] /\ Counted'
           /\ \A i \in 1 .. MaxCalls :
                Times(wire', i) = IF i = Head(queue[q]).id
                                  THEN Times(wire, i) + 1 ELSE Times(wire, i)
           /\ \A k \in Tries : k # ws => wire'[k] = wire[k]
  <1>1. queue[q] \in Seq(Request)
    BY DEF IInv, FrameTypes
  <1>2. Head(queue[q]) \in Request
    BY <1>1
  <1>3. \A r \in Request : r \in Frame
    BY BoundsAssumption DEF Request, Frame, Tries, BoundsAssumption
  <1>4. Head(queue[q]) \in Frame
    BY <1>2, <1>3
  <1>5. QED
    BY <1>4, FrameCounts DEF Sends

LEMMA WritesInv ==
    ASSUME IInv, NEW k \in Tries, Writes(k)
    PROVE  IInv'
  <1> DEFINE q == on[Writer(k)]
  <1>1. Takes(k, q) /\ (Sends(q) \/ UNCHANGED wire)
    BY WritesTake
  <1>2. UNCHANGED <<fields, link, cancelled, tries, calls, overlap, on>>
    BY DEF Writes, WriterStep
  <1>3. PICK p \in {"drain", "fail"} : Moves(Writer(k), p)
    BY Moving, Names DEF Writes
  <1>4. ControlTypes'
    BY <1>2, <1>3, Names DEF IInv, ControlTypes, Moves, TaskPlaces, fields
  <1>5. Asks'
    BY <1>2, <1>3, Names DEF IInv, ControlTypes, Asks, Moves
  <1>6. /\ wire' \in [Tries -> Seq(Frame)] /\ Counted'
        /\ \A j \in Tries : link[j] = "unused" => wire'[j] = wire[j]
    <2>1. CASE Sends(q)
      BY <1>1, <2>1, SendsWire DEF Sends, Takes
    <2>2. CASE UNCHANGED wire
      <3>1. Counted'
        BY <2>2 DEF IInv, Counted
      <3>2. QED
        BY <2>2, <3>1 DEF IInv, FrameTypes
    <2>3. QED
      BY <1>1, <2>1, <2>2
  <1>7. Links'
    BY <1>2, <1>3, <1>6, Names DEF IInv, ControlTypes, Links, Moves, fields
  <1>8. FrameTypes' /\ Queued'
    <2>1. calls' \in 0 .. MaxCalls
      BY <1>2 DEF IInv, FrameTypes
    <2>2. QED
      BY <1>1, <1>6, <2>1, TakesQueue DEF FrameTypes
  <1>9. QED
    BY <1>4, <1>5, <1>6, <1>7, <1>8 DEF IInv

LEMMA WriterInv ==
    ASSUME IInv, NEW k \in Tries, WriterNext(k)
    PROVE  IInv'
  <1> USE DEF fields, net, count
  <1>1. /\ cancelled \in [Actors -> BOOLEAN] /\ connected \in BOOLEAN
        /\ closing \in BOOLEAN /\ Writer(k) \in Actors
        /\ writeQueue \in 0 .. MaxTries
    BY Names DEF IInv, ControlTypes
  <1>2. CASE Gets(k)
    <2>1. /\ UNCHANGED <<fields, link, cancelled, tries, calls, overlap, wire, queue>>
          /\ on' = [on EXCEPT ![Writer(k)] = writeQueue]
      BY <1>2 DEF Gets, WriterStep
    <2>2. Still
      BY <2>1 DEF Still
    <2>3. PICK p \in {"exit", "get", "got"} :
              Moves(Writer(k), p) /\ (p # "exit" => writeQueue # 0)
      BY <1>1, <1>2, Moving DEF Gets
    <2>4. ControlTypes'
      BY <1>1, <2>1, <2>3 DEF IInv, ControlTypes, Moves, TaskPlaces
    <2>5. Links'
      BY <2>1, <2>3, Names DEF IInv, ControlTypes, Links, Moves
    <2>6. Asks'
      <3>1. writeQueue # 0 => writeQueue \in Tries
        BY <1>1, BoundsAssumption DEF Tries, BoundsAssumption
      <3>2. QED
        BY <2>1, <2>3, <3>1, Names DEF IInv, ControlTypes, Asks, Moves
    <2>7. QED
      BY <2>2, <2>4, <2>5, <2>6, StillInv
  <1>3. CASE Drained(k) \/ DrainFails(k)
    <2>1. UNCHANGED <<fields, link, cancelled, tries, calls, overlap, wire, queue, on>>
      BY <1>3 DEF Drained, DrainFails, WriterStep
    <2>2. Still /\ SamePlaces
      BY <2>1 DEF Still, SamePlaces
    <2>3. PICK p \in {"top", "fail"} : Moves(Writer(k), p)
      BY <1>1, <1>3, Moving DEF Drained, DrainFails
    <2>4. QED
      BY <1>1, <2>1, <2>2, <2>3, PlainMove DEF TaskPlaces
  <1>4. QED
    BY <1>2, <1>3, WritesInv DEF WriterNext

LEMMA EnqueueTakes ==
    ASSUME IInv, Enqueue
    PROVE  /\ Queued' /\ FrameTypes' /\ calls' = calls + 1
           /\ \/ queue' = queue
              \/ \E k \in Tries :
                    /\ Ids(queue'[k]) = Ids(queue[k]) \cup {calls'}
                    /\ \A j \in Tries : j # k => queue'[j] = queue[j]
  <1> DEFINE k == writeQueue
             r == [id |-> calls', of |-> k]
  <1>1. calls' = calls + 1 /\ calls' \in 1 .. MaxCalls /\ calls \in 0 .. MaxCalls
    BY BoundsAssumption DEF Enqueue, IInv, FrameTypes, BoundsAssumption
  <1>2. k \in Tries
    BY BoundsAssumption DEF Enqueue, IInv, ControlTypes, Tries, BoundsAssumption
  <1>3. UNCHANGED wire
    BY DEF Enqueue, net
  <1>4. r \in Request /\ r.id = calls'
    BY <1>1, <1>2 DEF Request
  <1>5. r.id # 0
    BY <1>1, <1>4
  <1> HIDE DEF k, r
  <1>6. queue \in [Tries -> Seq(Request)] /\ queue[k] \in Seq(Request)
    BY <1>2 DEF IInv, FrameTypes
  <1>7. CASE UNCHANGED queue
    <2>1. Queued'
      <3>1. 1 .. calls \subseteq 1 .. calls'
        BY <1>1
      <3>2. \A j \in Tries : Distinct(queue[j]) /\ Ids(queue[j]) \subseteq 1 .. calls'
        BY <3>1 DEF IInv, Queued
      <3>3. QED
        BY <1>7, <3>2 DEF IInv, Queued
    <2>2. FrameTypes'
      BY <1>1, <1>3, <1>7 DEF IInv, FrameTypes
    <2>3. QED
      BY <1>1, <1>7, <2>1, <2>2
  <1>8. CASE /\ Len(queue[k]) < QueueSize
             /\ queue' = [queue EXCEPT ![k] = Append(@, r)]
    <2>1. queue'[k] = Append(queue[k], r) /\ \A j \in Tries : j # k => queue'[j] = queue[j]
      BY <1>2, <1>6, <1>8
    <2>2. calls' \notin Ids(queue[k])
      BY <1>1, <1>2 DEF IInv, Queued
    <2>3. /\ Append(queue[k], r) \in Seq(Request)
          /\ Ids(queue'[k]) = Ids(queue[k]) \cup {calls'}
          /\ Distinct(queue'[k])
      BY <1>2, <1>4, <1>5, <1>6, <2>1, <2>2, IdsAppend DEF IInv, Queued
    <2>4. Queued'
      <3>1. 1 .. calls \subseteq 1 .. calls'
        BY <1>1
      <3>2. ASSUME NEW j \in Tries
            PROVE  Distinct(queue'[j]) /\ Ids(queue'[j]) \subseteq 1 .. calls'
        <4>1. Distinct(queue[j]) /\ Ids(queue[j]) \subseteq 1 .. calls'
          BY <3>1 DEF IInv, Queued
        <4>2. CASE j = k
          BY <1>1, <2>3, <4>1, <4>2
        <4>3. CASE j # k
          BY <2>1, <4>1, <4>3
        <4>4. QED
          BY <4>2, <4>3
      <3>3. ASSUME NEW j \in Tries
            PROVE  calls' \notin Ids(queue[j])
        BY <1>1 DEF IInv, Queued
      <3>4. ASSUME NEW j \in Tries, NEW i \in Tries, i # j
            PROVE  Ids(queue'[i]) \cap Ids(queue'[j]) = {}
        BY <2>1, <2>3, <3>3, <3>4 DEF IInv, Queued
      <3>5. QED
        BY <3>2, <3>4 DEF Queued
    <2>5. \A j \in Tries : Len(queue'[j]) <= QueueSize
      BY <1>2, <1>4, <1>6, <1>8, <2>1, BoundsAssumption
      DEF IInv, FrameTypes, BoundsAssumption
    <2>6. FrameTypes'
      BY <1>1, <1>2, <1>3, <1>8, <2>3, <2>5 DEF IInv, FrameTypes
    <2>7. QED
      BY <1>1, <1>2, <2>1, <2>3, <2>4, <2>6
  <1>9. QED
    BY <1>7, <1>8 DEF Enqueue, k, r

LEMMA OtherInv ==
    ASSUME IInv, Enqueue \/ \E k \in Tries : LinkEnds(k)
    PROVE  IInv'
  <1> USE DEF fields, net, count
  <1>1. CASE Enqueue
    <2>1. UNCHANGED <<fields, net, cpu, pc, on, cancelled, tries, overlap>>
      BY <1>1 DEF Enqueue
    <2>2. ControlTypes' /\ Links' /\ Asks'
      BY <2>1 DEF IInv, ControlTypes, Links, Asks
    <2>3. Counted'
      BY <2>1 DEF IInv, Counted
    <2>4. QED
      BY <1>1, <2>2, <2>3, EnqueueTakes DEF IInv
  <1>2. ASSUME NEW k \in Tries, LinkEnds(k) PROVE IInv'
    <2>1. /\ UNCHANGED <<fields, queue, wire, cpu, pc, on, cancelled, count>>
          /\ link[k] = "open"
          /\ \E v \in {"down", "closed"} : link' = [link EXCEPT ![k] = v]
      BY <1>2 DEF LinkEnds
    <2>2. ControlTypes'
      BY <2>1 DEF IInv, ControlTypes
    <2>3. Links' /\ Asks' /\ Still
      BY <2>1 DEF IInv, ControlTypes, Links, Asks, Still
    <2>4. QED
      BY <2>2, <2>3, StillInv
  <1>3. QED
    BY <1>1, <1>2
-----------------------------------------------------------------------------
LEMMA InitInv == Init => IInv
  <1> SUFFICES ASSUME Init PROVE IInv
    OBVIOUS
  <1>1. /\ connected \in BOOLEAN /\ closing \in BOOLEAN
        /\ lock \in BOOLEAN /\ overlap \in BOOLEAN
    BY Zenon DEF Init
  <1>2. pc \in [Actors -> ClosePlaces \cup TaskPlaces \cup AppPlaces]
    BY DEF Init, TaskPlaces, AppPlaces
  <1>3. cancelled \in [Actors -> BOOLEAN] /\ on \in [Actors -> 0 .. MaxTries]
    BY BoundsAssumption DEF Init, BoundsAssumption
  <1>4. ControlTypes
    BY <1>1, <1>2, <1>3, BoundsAssumption
    DEF Init, ControlTypes, BoundsAssumption
  <1>5. FrameTypes
    BY BoundsAssumption DEF Init, FrameTypes, BoundsAssumption
  <1>6. Links
    BY Names, BoundsAssumption DEF Init, Links, BoundsAssumption
  <1>7. Asks
    BY Names DEF Init, Asks
  <1>8. Queued
    BY IdsEmpty DEF Init, Queued
  <1>9. Counted
    BY NothingSent DEF Init, Counted
  <1>10. QED
    BY <1>4, <1>5, <1>6, <1>7, <1>8, <1>9 DEF IInv

LEMMA StepInv == IInv /\ [Next]_vars => IInv'
  <1> SUFFICES ASSUME IInv, [Next]_vars PROVE IInv'
    OBVIOUS
  <1>1. ASSUME NEW a \in Readers \cup Writers, TaskNext(a) PROVE IInv'
    BY <1>1, TaskInv, ReaderInv, WriterInv, CloseInv, Names DEF TaskNext
  <1>2. CASE UNCHANGED vars
    <2>1. Still /\ ControlTypes' /\ Links' /\ Asks'
      BY <1>2 DEF Still, IInv, ControlTypes, Links, Asks, vars, fields, net,
                  count
    <2>2. QED
      BY <2>1, StillInv
  <1>3. QED
    BY <1>1, <1>2, ConnectInv, CloseInv, OtherInv, Names DEF Next, AppNext

\* The invariant holds in every history, overlapping connects included.
THEOREM PyInvariance == Spec => []IInv
  BY InitInv, StepInv, PTL DEF Spec

\* Fields, places, queues and frames keep their types.
THEOREM PyTypes == Spec => []TypeOK
  <1>1. IInv => TypeOK
    BY DEF IInv, TypeOK
  <1>2. QED
    BY <1>1, PyInvariance, PTL

-----------------------------------------------------------------------------
(* The client implements Outbox.  What it holds changes only in Enqueue,   *)
(* which offers a request, and in Writes, which writes one or loses it.    *)

Held == UNION {Ids(queue[k]) : k \in Tries}
Written == [i \in 1 .. MaxCalls |-> Times(wire, i)]

LEMMA StillOutbox ==
    ASSUME IInv, UNCHANGED <<queue, calls>>,
           \A i \in 1 .. MaxCalls : Times(wire', i) = Times(wire, i)
    PROVE  UNCHANGED Box!vars
  <1>1. Held' = Held
    BY DEF Held
  <1>2. Written' = Written
    BY DEF Written
  <1>3. QED
    BY <1>1, <1>2 DEF Held, Written, Box!vars

LEMMA DialsOutbox == IInv /\ Dials => UNCHANGED Box!vars
  <1> SUFFICES ASSUME IInv, Dials PROVE UNCHANGED Box!vars
    OBVIOUS
  <1>1. tries \in Tries /\ wire[tries] = <<>>
    BY DEF Dials, Resumed, IInv, Links
  <1>2. Hello \in Frame /\ Hello.id = 0
    BY BoundsAssumption DEF Hello, Frame, BoundsAssumption
  <1>3. wire' = [wire EXCEPT ![tries] = Append(@, Hello)]
    BY <1>1 DEF Dials, IInv, FrameTypes
  <1>4. \A i \in 1 .. MaxCalls :
            Times(wire', i) = IF i = Hello.id THEN Times(wire, i) + 1
                              ELSE Times(wire, i)
    BY <1>1, <1>2, <1>3, FrameCounts, Zenon
  <1>5. UNCHANGED <<queue, calls>>
    BY DEF Dials, count
  <1>6. ASSUME NEW i \in 1 .. MaxCalls PROVE i # Hello.id
    BY <1>2, BoundsAssumption DEF BoundsAssumption
  <1>7. \A i \in 1 .. MaxCalls : Times(wire', i) = Times(wire, i)
    BY <1>4, <1>6, Zenon
  <1>8. QED
    BY <1>5, <1>7, StillOutbox

LEMMA OthersStill ==
    ASSUME Next, ~ Enqueue, ~ Dials, \A k \in Tries : ~ Writes(k)
    PROVE  Still
  <1> USE DEF fields, net, count, Still
  <1>1. ASSUME ConnectCall \/ CloseCall \/ ConnectNext PROVE Still
    BY <1>1 DEF ConnectCall, CloseCall, ConnectNext, DialFails, HelloFails,
                UndoCloses, ConnectFails, Connects
  <1>2. ASSUME NEW a, CloseNext(a) PROVE Still
    BY <1>2 DEF CloseNext, CloseWaits, CloseNothing, CloseStarts, CancelRead,
                ReadAwaited, CancelWrite, WriteAwaited, AwaitRaises, CleanupCloses,
                CloseEnds, CloseInterrupted
  <1>3. ASSUME NEW a, Starts(a) \/ Leaves(a) \/ Reported(a)
                      \/ LoopInterrupted(a) \/ Exits(a)
        PROVE  Still
    BY <1>3 DEF TaskStep, Starts, Leaves, Reported, LoopInterrupted, Exits
  <1>4. ASSUME NEW k \in Tries, ReaderNext(k) \/ WriterNext(k) PROVE Still
    BY <1>4 DEF ReaderNext, WriterNext, ReaderStep, TaskStep, WriterStep, Reads,
                Receives, Handled, ReadFails, Lost, Gets, Drained, DrainFails
  <1>5. ASSUME NEW k \in Tries, LinkEnds(k) PROVE Still
    BY <1>5 DEF LinkEnds
  <1>6. QED
    BY <1>1, <1>2, <1>3, <1>4, <1>5 DEF Next, AppNext, TaskNext

LEMMA EnqueueOutbox == IInv /\ Enqueue => Box!Offer
  <1> SUFFICES ASSUME IInv, Enqueue PROVE Box!Offer
    OBVIOUS
  <1>1. calls < MaxCalls /\ calls' = calls + 1 /\ UNCHANGED wire
    BY EnqueueTakes DEF Enqueue, net
  <1>2. Held' = Held \/ Held' = Held \cup {calls'}
    <2>1. CASE queue' = queue
      BY <2>1 DEF Held
    <2>2. ASSUME NEW k \in Tries, Ids(queue'[k]) = Ids(queue[k]) \cup {calls'},
                 \A j \in Tries : j # k => queue'[j] = queue[j]
          PROVE  Held' = Held \cup {calls'}
      <3>1. ASSUME NEW x PROVE x \in Held' <=> x \in Held \cup {calls'}
        <4>1. x \in Held' <=> \E j \in Tries : x \in Ids(queue'[j])
          BY DEF Held
        <4>2. x \in Held <=> \E j \in Tries : x \in Ids(queue[j])
          BY DEF Held
        <4>3. QED
          BY <2>2, <4>1, <4>2
      <3>2. QED
        BY <3>1
    <2>3. QED
      BY <2>1, <2>2, EnqueueTakes
  <1>3. Written' = Written
    BY <1>1 DEF Written
  <1>4. QED
    BY <1>1, <1>2, <1>3 DEF Held, Written, Box!Offer

LEMMA WritesOutbox ==
    ASSUME IInv, NEW k \in Tries, Writes(k)
    PROVE  Box!Next
  <1> DEFINE q == on[Writer(k)]
             h == Head(queue[q]).id
  <1>1. Takes(k, q) /\ (Sends(q) \/ UNCHANGED wire) /\ calls' = calls
    BY WritesTake DEF Takes
  <1>2. /\ h \in Ids(queue[q]) /\ q \in Tries /\ queue[q] # <<>>
        /\ \A j \in Tries : Ids(queue'[j]) = Ids(queue[j]) \ {h}
    BY <1>1, TakesQueue DEF Takes
  <1>3. ASSUME NEW w, NEW x
        PROVE  x \in UNION {Ids(w[j]) : j \in Tries}
                 <=> \E j \in Tries : x \in Ids(w[j])
    OBVIOUS
  <1> HIDE DEF h, q
  <1>4. h \in Held
    BY <1>2, <1>3 DEF Held
  <1>5. Held' \subseteq Held \ {h}
    BY <1>2, <1>3 DEF Held
  <1>6. CASE UNCHANGED wire
    <2>1. Written' = Written
      BY <1>6 DEF Written
    <2>2. Box!Lose
      BY <1>1, <1>5, <2>1 DEF Box!Lose, Held, Written
    <2>3. QED
      BY <2>2 DEF Box!Next
  <1>7. CASE Sends(q)
    <2>1. \A i \in 1 .. MaxCalls :
            Times(wire', i) = IF i = h THEN Times(wire, i) + 1 ELSE Times(wire, i)
      BY <1>2, <1>7, SendsWire DEF h
    <2>2. Written' = [Written EXCEPT ![h] = @ + 1]
      <3>1. h \in 1 .. MaxCalls
        <4>1. h \in 1 .. calls
          BY <1>2 DEF IInv, Queued
        <4>2. calls \in 0 .. MaxCalls /\ MaxCalls \in Nat
          BY BoundsAssumption DEF IInv, FrameTypes, BoundsAssumption
        <4>3. QED
          BY <4>1, <4>2
      <3>2. QED
        BY <2>1, <3>1 DEF Written
    <2>3. Box!Write(h)
      BY <1>1, <1>4, <1>5, <2>2 DEF Box!Write, Held, Written
    <2>4. QED
      BY <1>4, <2>3 DEF Box!Next, Held
  <1>8. QED
    BY <1>1, <1>6, <1>7

\* Every step of the client is one of Outbox, or leaves it alone: whatever
\* queues and tasks are left over, no request is sent twice.
THEOREM RequestsSentOnce == Spec => AtMostOnce
  <1>1. Init => Box!Init
    <2> SUFFICES ASSUME Init PROVE Box!Init
      OBVIOUS
    <2>1. Held = {}
      BY IdsEmpty DEF Held, Init
    <2>2. ASSUME NEW i PROVE Times(wire, i) = 0
      BY NothingSent DEF Init
    <2>3. Written = [i \in 1 .. MaxCalls |-> 0]
      BY <2>2 DEF Written
    <2>4. QED
      BY <2>1, <2>3 DEF Init, Box!Init, Held, Written
  <1>2. IInv /\ [Next]_vars => [Box!Next]_(Box!vars)
    <2> SUFFICES ASSUME IInv, [Next]_vars PROVE [Box!Next]_(Box!vars)
      OBVIOUS
    <2>1. CASE Enqueue
      BY <2>1, EnqueueOutbox DEF Box!Next
    <2>2. CASE Dials
      BY <2>2, DialsOutbox
    <2>3. CASE \E k \in Tries : Writes(k)
      BY <2>3, WritesOutbox
    <2>4. ASSUME Still PROVE UNCHANGED Box!vars
      <3>1. UNCHANGED <<queue, calls>>
            /\ \A i \in 1 .. MaxCalls : Times(wire', i) = Times(wire, i)
        BY <2>4 DEF Still
      <3>2. QED
        BY <3>1, StillOutbox
    <2>5. CASE UNCHANGED vars
      BY <2>4, <2>5 DEF Still, vars, net, count
    <2>6. QED
      BY <2>1, <2>2, <2>3, <2>4, <2>5, OthersStill
  <1>3. QED
    BY <1>1, <1>2, PyInvariance, PTL DEF Spec, AtMostOnce, Box!Spec
-----------------------------------------------------------------------------
(***************************************************************************)
(* The session of a request.  While a client is connected its fields are   *)
(* those of the latest connect or None, so a writer with a request to take *)
(* takes it from the queue of the connection it writes on: one of an       *)
(* earlier connection may be left over, but nothing comes to its queue.    *)
(***************************************************************************)

Dialling == {"dial", "hello"}

\* What is in a queue was accepted for its connection.
InQueue == \A k \in Tries : \A i \in DOMAIN queue[k] : queue[k][i].of = k

\* A connected client, and one that connects, has the latest fields or none.
Latest ==
    /\ connected => ws \in {0, tries} /\ writeQueue \in {0, tries}
    /\ pc[App] \in Dialling => ~connected /\ writeQueue \in {0, tries}
    /\ pc[App] = "hello" => ws \in {0, tries}

\* A writer that has a request to take writes it where it was accepted.
Served ==
    \A k \in Tries :
        /\ pc[Writer(k)] \in {"get", "got"} /\ queue[on[Writer(k)]] # <<>>
           /\ ws # 0 => on[Writer(k)] = ws
        /\ pc[Writer(k)] = "got" => cpu = Writer(k)

SInv == SentInItsSession /\ InQueue /\ Latest /\ Served

\* A step that only gives up fields: it is a's turn, and a goes to place p.
Drops(a, p) ==
    /\ Moves(a, p) /\ cpu \in {Nobody, a}
    /\ ws' \in {0, ws} /\ writeQueue' \in {0, writeQueue}
    /\ connected' => connected
    /\ on' = on \/ \E v : on' = [on EXCEPT ![a] = v]
    /\ UNCHANGED <<queue, wire, tries>>

LEMMA WritersApart ==
    \A k \in Tries : Writer(k) # Nobody /\ App # Nobody
  BY DEF Writer, App, Nobody

LEMMA DropsSession ==
    ASSUME IInv, SInv, NEW a \in Actors,
           NEW p \in (ClosePlaces \cup TaskPlaces \cup AppPlaces)
                        \ (Dialling \cup {"get", "got"}),
           Drops(a, p)
    PROVE  SInv'
  <1>1. /\ pc \in [Actors -> ClosePlaces \cup TaskPlaces \cup AppPlaces]
        /\ on \in [Actors -> 0 .. MaxTries]
    BY DEF IInv, ControlTypes
  <1>2. SentInItsSession' /\ InQueue'
    BY DEF Drops, SInv, SentInItsSession, InQueue
  <1>3. pc'[App] \in Dialling => pc[App] \in Dialling /\ pc'[App] = pc[App]
    BY <1>1, Names DEF Drops, Moves
  <1>4. Latest'
    BY <1>3 DEF Drops, SInv, Latest, Dialling
  <1>5. ASSUME NEW k \in Tries, pc'[Writer(k)] \in {"get", "got"}
        PROVE  /\ pc'[Writer(k)] = pc[Writer(k)] /\ Writer(k) # a
               /\ on'[Writer(k)] = on[Writer(k)]
    BY <1>1, <1>5, Names DEF Drops, Moves
  <1>6. ASSUME NEW k \in Tries, pc'[Writer(k)] = "got" PROVE FALSE
    <2>1. pc[Writer(k)] = "got" /\ Writer(k) # a
      BY <1>5, <1>6
    <2>2. cpu = Writer(k)
      BY <2>1 DEF SInv, Served
    <2>3. QED
      BY <2>1, <2>2, WritersApart DEF Drops
  <1>7. Served'
    BY <1>5, <1>6 DEF Drops, SInv, Served
  <1>8. QED
    BY <1>2, <1>4, <1>7 DEF SInv
LEMMA ConnectSession ==
    ASSUME IInv, SInv, ConnectCall \/ ConnectNext
    PROVE  SInv'
  <1> USE DEF fields, net, count
  <1>1. /\ pc \in [Actors -> ClosePlaces \cup TaskPlaces \cup AppPlaces]
        /\ App \in Actors
    BY Names DEF IInv, ControlTypes
  <1>2. CASE DialFails \/ HelloFails \/ UndoCloses \/ ConnectFails
    <2>1. PICK p \in {"undo", "undone", "idle"} : Moves(App, p)
      BY <1>2, Moving, Names DEF DialFails, HelloFails, UndoCloses, ConnectFails
    <2>2. Drops(App, p)
      BY <1>2, <2>1 DEF DialFails, HelloFails, UndoCloses, ConnectFails, Drops,
                        Resumed, Running
    <2>3. QED
      BY <1>1, <2>2, DropsSession DEF AppPlaces, Dialling
  <1>3. CASE ConnectCall
    <2>1. /\ ~connected /\ connected' = connected /\ writeQueue' = tries'
          /\ pc' = [pc EXCEPT ![App] = "dial"] /\ cpu = Nobody
          /\ UNCHANGED <<queue, wire, ws, on>>
      BY <1>3 DEF ConnectCall, Await, Resumed
    <2>2. SentInItsSession' /\ InQueue'
      BY <2>1 DEF SInv, SentInItsSession, InQueue
    <2>3. Latest'
      BY <1>1, <2>1 DEF Latest, Dialling
    <2>4. Served'
      BY <1>1, <2>1, Names, WritersApart DEF SInv, Served
    <2>5. QED
      BY <2>2, <2>3, <2>4 DEF SInv
  <1>4. CASE Connects
    <2>1. /\ pc[App] = "hello" /\ cpu = Nobody
          /\ pc' = [pc EXCEPT ![App] = "idle", ![Reader(tries)] = "new",
                              ![Writer(tries)] = "new"]
          /\ UNCHANGED <<queue, wire, ws, writeQueue, tries, on>>
      BY <1>4 DEF Connects, Resumed
    <2>2. SentInItsSession' /\ InQueue'
      BY <2>1 DEF SInv, SentInItsSession, InQueue
    <2>3. pc'[App] \notin Dialling
      BY <1>1, <2>1 DEF Dialling, App, Reader, Writer
    <2>4. Latest'
      BY <2>1, <2>3 DEF SInv, Latest, Dialling
    <2>5. ASSUME NEW k \in Tries, pc'[Writer(k)] \in {"get", "got"}
          PROVE  pc'[Writer(k)] = pc[Writer(k)]
      BY <1>1, <2>1, <2>5, Names DEF Writer, Reader, App
    <2>6. Served'
      BY <2>1, <2>5, WritersApart DEF SInv, Served
    <2>7. QED
      BY <2>2, <2>4, <2>6 DEF SInv
  <1>5. CASE Dials
    <2>1. /\ pc[App] = "dial" /\ cpu = Nobody /\ ws' = tries
          /\ pc' = [pc EXCEPT ![App] = "hello"]
          /\ wire' = [wire EXCEPT ![tries] = <<Hello>>]
          /\ UNCHANGED <<connected, writeQueue, queue, tries, on>>
          /\ \A k \in Tries : ~Woken(k)
      BY <1>5 DEF Dials, Resumed, Await
    <2>2. SentInItsSession' /\ InQueue'
      <3>1. ASSUME NEW k \in Tries, NEW i \in DOMAIN wire'[k], wire'[k][i].id # 0
            PROVE  wire'[k][i].of = k
        <4>1. wire \in [Tries -> Seq(Frame)]
          BY DEF IInv, FrameTypes
        <4>2. CASE k # tries
          BY <2>1, <3>1, <4>1, <4>2 DEF SInv, SentInItsSession
        <4>3. CASE k = tries
          BY <2>1, <3>1, <4>1, <4>3 DEF Hello
        <4>4. QED
          BY <4>2, <4>3
      <3>2. QED
        BY <2>1, <3>1 DEF SInv, SentInItsSession, InQueue
    <2>3. Latest'
      BY <1>1, <2>1 DEF SInv, Latest, Dialling
    <2>4. ASSUME NEW k \in Tries, pc'[Writer(k)] \in {"get", "got"}
          PROVE  pc[Writer(k)] = "get" /\ queue[on[Writer(k)]] = <<>>
      <3>1. pc'[Writer(k)] = pc[Writer(k)]
        BY <1>1, <2>1, Names
      <3>2. pc[Writer(k)] # "got"
        BY <2>1, WritersApart DEF SInv, Served
      <3>3. QED
        BY <2>1, <2>4, <3>1, <3>2 DEF Woken
    <2>5. Served'
      <3>1. ASSUME NEW k \in Tries
            PROVE  pc'[Writer(k)] \in {"get", "got"} => queue'[on'[Writer(k)]] = <<>>
        BY <2>1, <2>4
      <3>2. ASSUME NEW k \in Tries PROVE pc'[Writer(k)] # "got"
        BY <1>1, <2>1, <2>4, Names
      <3>3. QED
        BY <3>1, <3>2 DEF Served
    <2>6. QED
      BY <2>2, <2>3, <2>5 DEF SInv
  <1>6. QED
    BY <1>2, <1>3, <1>4, <1>5 DEF ConnectNext

LEMMA CloseSession ==
    ASSUME IInv, SInv, NEW a \in Actors, (a = App /\ CloseCall) \/ CloseNext(a)
    PROVE  SInv'
  <1> USE DEF fields, net, count
  <1>1. PICK p \in {"enter", "lock", "idle", "done", "cancelRead", "awaitRead",
                    "cancelWrite", "awaitWrite", "cleanup", "wsClose"} :
            Moves(a, p)
    BY Moving DEF CloseCall, CloseNext, CloseWaits, CloseNothing, CloseStarts,
                  CancelRead, ReadAwaited, CancelWrite, WriteAwaited, AwaitRaises,
                  CleanupCloses, CloseEnds, CloseInterrupted, Return
  <1>2. UNCHANGED <<queue, wire, tries>>
    BY DEF CloseCall, CloseNext, CloseWaits, CloseNothing, CloseStarts,
           CancelRead, ReadAwaited, CancelWrite, WriteAwaited, AwaitRaises,
           CleanupCloses, CloseEnds, CloseInterrupted
  <1>3. ws' \in {0, ws} /\ writeQueue' \in {0, writeQueue}
    BY DEF CloseCall, CloseNext, CloseWaits, CloseNothing, CloseStarts,
           CancelRead, ReadAwaited, CancelWrite, WriteAwaited, AwaitRaises,
           CleanupCloses, CloseEnds, CloseInterrupted
  <1>4. connected' => connected
    BY DEF CloseCall, CloseNext, CloseWaits, CloseNothing, CloseStarts,
           CancelRead, ReadAwaited, CancelWrite, WriteAwaited, AwaitRaises,
           CleanupCloses, CloseEnds, CloseInterrupted
  <1>5. on' = on \/ \E v : on' = [on EXCEPT ![a] = v]
    BY DEF CloseCall, CloseNext, CloseWaits, CloseNothing, CloseStarts,
           CancelRead, ReadAwaited, CancelWrite, WriteAwaited, AwaitRaises,
           CleanupCloses, CloseEnds, CloseInterrupted
  <1>6. cpu \in {Nobody, a}
    BY DEF CloseCall, CloseNext, CloseWaits, CloseNothing, CloseStarts,
           CancelRead, ReadAwaited, CancelWrite, WriteAwaited, AwaitRaises,
           CleanupCloses, CloseEnds, CloseInterrupted, Entered, Resumed,
           Running, Interrupted
  <1>7. Drops(a, p)
    BY <1>1, <1>2, <1>3, <1>4, <1>5, <1>6 DEF Drops
  <1>8. QED
    BY <1>7, DropsSession DEF ClosePlaces, TaskPlaces, AppPlaces, Dialling

LEMMA TaskSession ==
    ASSUME IInv, SInv, NEW a \in Readers \cup Writers,
           \/ Starts(a) \/ Leaves(a) \/ Reported(a)
           \/ LoopInterrupted(a) \/ Exits(a)
    PROVE  SInv'
  <1> USE DEF fields, net, count
  <1>1. a \in Actors
    BY Names
  <1>2. UNCHANGED <<fields, net, count, queue, on>>
    BY DEF TaskStep, Starts, Leaves, Reported, LoopInterrupted, Exits
  <1>3. PICK p \in {"done", "top", "exit", "enter"} : Moves(a, p)
    BY <1>1, Moving DEF Starts, Leaves, Reported, LoopInterrupted, Exits
  <1>4. cpu \in {Nobody, a}
    BY DEF Starts, Leaves, Reported, LoopInterrupted, Exits, Resumed, Running,
           Interrupted
  <1>5. Drops(a, p)
    BY <1>2, <1>3, <1>4 DEF Drops
  <1>6. QED
    BY <1>1, <1>5, DropsSession DEF TaskPlaces, ClosePlaces, Dialling

LEMMA ReaderSession ==
    ASSUME IInv, SInv, NEW k \in Tries, ReaderNext(k)
    PROVE  SInv'
  <1> USE DEF fields, net, count
  <1>1. Reader(k) \in Actors
    BY Names
  <1>2. UNCHANGED <<fields, net, count, queue>>
    BY DEF ReaderStep, TaskStep, ReaderNext, Reads, Receives, Handled, ReadFails,
           Lost
  <1>3. on' = on \/ \E v : on' = [on EXCEPT ![Reader(k)] = v]
    BY DEF ReaderNext, Reads, Receives, Handled, ReadFails, Lost
  <1>4. PICK p \in {"fail", "recv", "handler", "top", "exit"} : Moves(Reader(k), p)
    BY <1>1, Moving DEF ReaderNext, Reads, Receives, Handled, ReadFails, Lost
  <1>5. cpu \in {Nobody, Reader(k)}
    BY DEF ReaderNext, Reads, Receives, Handled, ReadFails, Lost, Resumed, Running
  <1>6. Drops(Reader(k), p)
    BY <1>2, <1>3, <1>4, <1>5 DEF Drops
  <1>7. QED
    BY <1>1, <1>6, DropsSession DEF TaskPlaces, Dialling
LEMMA WritesSession ==
    ASSUME IInv, SInv, NEW k \in Tries, Writes(k)
    PROVE  SInv'
  <1> USE DEF fields, net, count
  <1> DEFINE q == on[Writer(k)]
  <1>1. Takes(k, q) /\ (Sends(q) \/ UNCHANGED wire)
    BY WritesTake
  <1>2. /\ UNCHANGED <<connected, ws, writeQueue, tries, on>>
        /\ pc[Writer(k)] \in {"get", "got"} /\ cpu \in {Nobody, Writer(k)}
    BY DEF Writes, WriterStep, Resumed, Running
  <1>3. PICK p \in {"drain", "fail"} : Moves(Writer(k), p)
    BY Moving, Names DEF Writes
  <1>4. /\ pc \in [Actors -> ClosePlaces \cup TaskPlaces \cup AppPlaces]
        /\ queue \in [Tries -> Seq(Request)] /\ wire \in [Tries -> Seq(Frame)]
        /\ q \in Tries /\ queue[q] # <<>>
    BY <1>1 DEF IInv, ControlTypes, FrameTypes, Takes
  <1>5. InQueue'
    <2>1. queue' = [queue EXCEPT ![q] = Tail(queue[q])]
      BY <1>1 DEF Takes
    <2>2. ASSUME NEW j \in Tries, NEW i \in DOMAIN queue'[j]
          PROVE  queue'[j][i].of = j
      <3>1. CASE j # q
        BY <1>4, <2>1, <2>2, <3>1 DEF SInv, InQueue
      <3>2. CASE j = q
        <4>1. queue'[j] = Tail(queue[j]) /\ queue[j] \in Seq(Request)
              /\ queue[j] # <<>>
          BY <1>4, <2>1, <3>2
        <4>2. queue'[j][i] = queue[j][i + 1] /\ i + 1 \in DOMAIN queue[j]
          BY <2>2, <4>1
        <4>3. QED
          BY <4>2 DEF SInv, InQueue
      <3>3. QED
        BY <3>1, <3>2
    <2>3. QED
      BY <2>2 DEF InQueue
  <1>6. SentInItsSession'
    <2>1. CASE UNCHANGED wire
      BY <2>1 DEF SInv, SentInItsSession
    <2>2. CASE Sends(q)
      <3>1. ws \in Tries /\ wire' = [wire EXCEPT ![ws] = Append(@, Head(queue[q]))]
        BY <2>2 DEF Sends
      <3>2. ws # 0
        BY <3>1, BoundsAssumption DEF Tries, BoundsAssumption
      <3>3. q = ws
        BY <1>2, <1>4, <3>2 DEF SInv, Served
      <3>4. Head(queue[q]).of = q /\ Head(queue[q]) \in Request
        <4>1. 1 \in DOMAIN queue[q] /\ Head(queue[q]) = queue[q][1]
              /\ Head(queue[q]) \in Request
          BY <1>4
        <4>2. QED
          BY <1>4, <4>1 DEF SInv, InQueue
      <3>5. ASSUME NEW j \in Tries, NEW i \in DOMAIN wire'[j], wire'[j][i].id # 0
            PROVE  wire'[j][i].of = j
        <4>1. CASE j # ws
          BY <1>4, <3>1, <3>5, <4>1 DEF SInv, SentInItsSession
        <4>2. CASE j = ws
          <5>1. wire'[j] = Append(wire[j], Head(queue[q])) /\ wire[j] \in Seq(Frame)
            BY <1>4, <3>1, <4>2
          <5>2. CASE i \in DOMAIN wire[j]
            <6>1. wire'[j][i] = wire[j][i]
              BY <5>1, <5>2
            <6>2. QED
              BY <3>5, <5>2, <6>1 DEF SInv, SentInItsSession
          <5>3. CASE i \notin DOMAIN wire[j]
            <6>1. wire'[j][i] = Head(queue[q])
              BY <3>5, <5>1, <5>3
            <6>2. QED
              BY <3>3, <3>4, <4>2, <6>1
          <5>4. QED
            BY <5>2, <5>3
        <4>3. QED
          BY <4>1, <4>2
      <3>6. QED
        BY <3>5 DEF SentInItsSession
    <2>3. QED
      BY <1>1, <2>1, <2>2
  <1>7. pc'[App] = pc[App]
    BY <1>3, <1>4, Names DEF Moves
  <1>8. Latest'
    BY <1>2, <1>7 DEF SInv, Latest
  <1>9. ASSUME NEW j \in Tries, pc'[Writer(j)] \in {"get", "got"}
        PROVE  /\ Writer(j) # Writer(k) /\ pc'[Writer(j)] = pc[Writer(j)]
               /\ pc[Writer(j)] # "got" /\ on[Writer(j)] \in Tries
    <2>1. Writer(j) # Writer(k) /\ pc'[Writer(j)] = pc[Writer(j)]
      BY <1>3, <1>4, <1>9, Names DEF Moves
    <2>2. pc[Writer(j)] # "got"
      BY <1>2, <2>1, WritersApart DEF SInv, Served
    <2>3. QED
      BY <1>9, <2>1, <2>2 DEF IInv, Asks
  <1>10. Served'
    <2>1. ASSUME NEW j \in Tries, pc'[Writer(j)] \in {"get", "got"},
                 queue'[on'[Writer(j)]] # <<>>, ws' # 0
          PROVE  on'[Writer(j)] = ws'
      <3>1. queue[on[Writer(j)]] # <<>>
        <4>1. queue'[on[Writer(j)]] # <<>> /\ on[Writer(j)] \in Tries
          BY <1>2, <1>9, <2>1
        <4>2. queue' = [queue EXCEPT ![q] = Tail(queue[q])]
          BY <1>1 DEF Takes
        <4>3. QED
          BY <1>4, <4>1, <4>2
      <3>2. QED
        BY <1>2, <1>9, <2>1, <3>1 DEF SInv, Served
    <2>2. ASSUME NEW j \in Tries PROVE pc'[Writer(j)] # "got"
      BY <1>9
    <2>3. QED
      BY <2>1, <2>2 DEF Served
  <1>11. QED
    BY <1>5, <1>6, <1>8, <1>10 DEF SInv

LEMMA WriterSession ==
    ASSUME IInv, SInv, NEW k \in Tries, WriterNext(k)
    PROVE  SInv'
  <1> USE DEF fields, net, count
  <1>1. Writer(k) \in Actors
        /\ pc \in [Actors -> ClosePlaces \cup TaskPlaces \cup AppPlaces]
        /\ on \in [Actors -> 0 .. MaxTries]
    BY Names DEF IInv, ControlTypes
  <1>2. CASE Gets(k)
    <2>1. /\ UNCHANGED <<fields, tries, wire, queue>> /\ connected
          /\ cpu = Writer(k) /\ on' = [on EXCEPT ![Writer(k)] = writeQueue]
      BY <1>2 DEF Gets, WriterStep, Running
    <2>2. PICK p \in {"exit", "get", "got"} :
              /\ pc' = [pc EXCEPT ![Writer(k)] = p]
              /\ p = "got" => cpu' = Writer(k)
      BY <1>2 DEF Gets, GoOn, Await
    <2>3. SentInItsSession' /\ InQueue'
      BY <2>1 DEF SInv, SentInItsSession, InQueue
    <2>4. Latest'
      BY <1>1, <2>1, <2>2, Names DEF SInv, Latest
    <2>5. ASSUME NEW j \in Tries, j # k
          PROVE  /\ pc'[Writer(j)] = pc[Writer(j)] /\ pc[Writer(j)] # "got"
                 /\ on'[Writer(j)] = on[Writer(j)]
      <3>1. Writer(j) # Writer(k)
        BY <2>5, Names
      <3>2. pc[Writer(j)] # "got"
        BY <2>1, <3>1 DEF SInv, Served
      <3>3. QED
        BY <1>1, <2>1, <2>2, <3>1, <3>2, Names
    <2>6. pc'[Writer(k)] = p /\ on'[Writer(k)] = writeQueue
      BY <1>1, <2>1, <2>2
    <2>7. p \in {"get", "got"} => writeQueue # 0
      BY <1>1, <1>2, <2>2, <2>6 DEF Gets, GoOn, Await
    <2>8. Served'
      <3>1. ASSUME NEW j \in Tries, j # k
            PROVE  /\ pc'[Writer(j)] \in {"get", "got"}
                      /\ queue'[on'[Writer(j)]] # <<>> /\ ws' # 0
                      => on'[Writer(j)] = ws'
                   /\ pc'[Writer(j)] # "got"
        BY <2>1, <2>5, <3>1 DEF SInv, Served
      <3>2. /\ pc'[Writer(k)] \in {"get", "got"} /\ ws' # 0 => on'[Writer(k)] = ws'
            /\ pc'[Writer(k)] = "got" => cpu' = Writer(k)
        BY <2>1, <2>2, <2>6, <2>7 DEF SInv, Latest
      <3>3. QED
        BY <3>1, <3>2 DEF Served
    <2>9. QED
      BY <2>3, <2>4, <2>8 DEF SInv
  <1>3. CASE Drained(k) \/ DrainFails(k)
    <2>1. UNCHANGED <<fields, tries, wire, queue, on>> /\ cpu = Nobody
      BY <1>3 DEF Drained, DrainFails, WriterStep, Resumed
    <2>2. PICK p \in {"top", "fail"} : Moves(Writer(k), p)
      BY <1>1, <1>3, Moving DEF Drained, DrainFails
    <2>3. Drops(Writer(k), p)
      BY <2>1, <2>2 DEF Drops
    <2>4. QED
      BY <1>1, <2>3, DropsSession DEF TaskPlaces, Dialling
  <1>4. QED
    BY <1>2, <1>3, WritesSession DEF WriterNext

LEMMA EnqueueSession ==
    ASSUME IInv, SInv, Enqueue
    PROVE  SInv'
  <1> USE DEF fields, net, count
  <1> DEFINE r == [id |-> calls', of |-> writeQueue]
  <1>1. /\ connected /\ writeQueue # 0 /\ writeQueue \in 0 .. MaxTries
        /\ cpu = Nobody /\ queue \in [Tries -> Seq(Request)]
        /\ UNCHANGED <<connected, ws, writeQueue, tries, wire, cpu, pc, on>>
    BY DEF Enqueue, IInv, ControlTypes, FrameTypes
  <1>2. writeQueue \in Tries
    BY <1>1, BoundsAssumption DEF Tries, BoundsAssumption
  <1>3. SentInItsSession' /\ Latest'
    BY <1>1 DEF SInv, SentInItsSession, Latest
  <1>4. CASE queue' = queue
    BY <1>1, <1>3, <1>4 DEF SInv, InQueue, Served
  <1>5. CASE queue' = [queue EXCEPT ![writeQueue] = Append(@, r)]
    <2>1. InQueue'
      <3>1. ASSUME NEW j \in Tries, NEW i \in DOMAIN queue'[j]
            PROVE  queue'[j][i].of = j
        <4>1. CASE j # writeQueue
          BY <1>1, <1>5, <3>1, <4>1 DEF SInv, InQueue
        <4>2. CASE j = writeQueue
          <5>1. queue'[j] = Append(queue[j], r) /\ queue[j] \in Seq(Request)
            BY <1>1, <1>5, <4>2
          <5>2. CASE i \in DOMAIN queue[j]
            <6>1. queue'[j][i] = queue[j][i]
              BY <5>1, <5>2
            <6>2. QED
              BY <5>2, <6>1 DEF SInv, InQueue
          <5>3. CASE i \notin DOMAIN queue[j]
            <6>1. queue'[j][i] = r
              BY <3>1, <5>1, <5>3
            <6>2. QED
              BY <4>2, <6>1
          <5>4. QED
            BY <5>2, <5>3
        <4>3. QED
          BY <4>1, <4>2
      <3>2. QED
        BY <3>1 DEF InQueue
    <2>2. ASSUME NEW j \in Tries, pc[Writer(j)] \in {"get", "got"},
                 queue'[on[Writer(j)]] # <<>>, ws # 0
          PROVE  on[Writer(j)] = ws
      <3>1. CASE on[Writer(j)] = writeQueue
        BY <1>1, <2>2, <3>1 DEF SInv, Latest
      <3>2. CASE on[Writer(j)] # writeQueue
        <4>1. on[Writer(j)] \in Tries
          BY <2>2 DEF IInv, Asks
        <4>2. queue[on[Writer(j)]] # <<>>
          BY <1>1, <1>5, <2>2, <3>2, <4>1
        <4>3. QED
          BY <2>2, <4>2 DEF SInv, Served
      <3>3. QED
        BY <3>1, <3>2
    <2>3. Served'
      BY <1>1, <2>2 DEF SInv, Served
    <2>4. QED
      BY <1>3, <2>1, <2>3 DEF SInv
  <1>6. QED
    BY <1>4, <1>5 DEF Enqueue

LEMMA SessionInit == Init => SInv
  <1> SUFFICES ASSUME Init PROVE SInv
    OBVIOUS
  <1>1. pc[App] = "idle" /\ \A k \in Tries : pc[Writer(k)] = "off"
    BY Names DEF Init
  <1>2. QED
    BY <1>1 DEF Init, SInv, SentInItsSession, InQueue, Latest, Served, Dialling

LEMMA SessionStep == IInv /\ SInv /\ [Next]_vars => SInv'
  <1> SUFFICES ASSUME IInv, SInv, [Next]_vars PROVE SInv'
    OBVIOUS
  <1>1. ASSUME NEW a \in Readers \cup Writers, TaskNext(a) PROVE SInv'
    BY <1>1, TaskSession, ReaderSession, WriterSession, CloseSession, Names
    DEF TaskNext
  <1>2. ASSUME \/ UNCHANGED vars \/ \E k \in Tries : LinkEnds(k) PROVE SInv'
    <2>1. UNCHANGED <<connected, ws, writeQueue, tries, queue, wire, cpu, pc, on>>
      BY <1>2 DEF LinkEnds, vars, fields, net, count
    <2>2. QED
      BY <2>1 DEF SInv, SentInItsSession, InQueue, Latest, Served
  <1>3. QED
    BY <1>1, <1>2, ConnectSession, CloseSession, EnqueueSession, Names
    DEF Next, AppNext

\* A request is sent on the connection on which it was accepted, in every
\* history: also when a writer of an earlier connection is left over.
THEOREM RequestsStayInSession == Spec => []SentInItsSession
  <1>1. SInv => SentInItsSession
    BY DEF SInv
  <1>2. QED
    BY <1>1, SessionInit, SessionStep, PyInvariance, PTL DEF Spec
-----------------------------------------------------------------------------
(***************************************************************************)
(* The turns of the event loop, in every history.                          *)
(***************************************************************************)

\* The places that a task passes without awaiting, and those where connect and
\* close hold what they have begun.
RunPlaces == {"undo", "enter", "cancelRead", "cancelWrite", "cleanup", "top",
              "exit", "got"}
ConnectPlaces == {"dial", "hello", "undo", "undone"}
CloserPlaces == {"cancelRead", "awaitRead", "cancelWrite", "awaitWrite",
                 "cleanup", "wsClose"}
LoopPlaces == {"new", "top", "recv", "handler", "fail", "get", "got", "drain",
               "exit"}
Dead == {"off", "done"}

\* One task runs, at a place where it does not await; connect has the lock.
Turns ==
    /\ \A a \in Actors : pc[a] \in RunPlaces <=> cpu = a
    /\ lock <=> pc[App] \in ConnectPlaces

\* It is a's turn, and it goes on at p or awaits there.
Turn(a, p) ==
    /\ pc' = [pc EXCEPT ![a] = p] /\ cpu \in {Nobody, a}
    /\ cpu' = IF p \in RunPlaces THEN a ELSE Nobody

LEMMA TurnGoes ==
    ASSUME NEW a, NEW p \in RunPlaces, GoOn(a, p), cpu \in {Nobody, a}
    PROVE  Turn(a, p)
  BY DEF GoOn, Turn

LEMMA TurnEnds ==
    ASSUME NEW a, NEW p, p \notin RunPlaces, Await(a, p), cpu \in {Nobody, a}
    PROVE  Turn(a, p)
  BY DEF Await, Turn

LEMMA TurnTurns ==
    ASSUME IInv, Turns, NEW a \in Actors, NEW p, Turn(a, p),
           lock' <=> pc'[App] \in ConnectPlaces
    PROVE  Turns'
  <1>1. pc \in [Actors -> ClosePlaces \cup TaskPlaces \cup AppPlaces]
        /\ Nobody \notin Actors
    BY DEF IInv, ControlTypes, Nobody, Actors, App, Readers, Writers, Reader,
           Writer
  <1>2. ASSUME NEW b \in Actors PROVE pc'[b] \in RunPlaces <=> cpu' = b
    <2>1. CASE b = a
      BY <1>1, <2>1 DEF Turn
    <2>2. CASE b # a
      BY <1>1, <2>2 DEF Turn, Turns
    <2>3. QED
      BY <2>1, <2>2
  <1>3. QED
    BY <1>2 DEF Turns

LEMMA ConnectTurns ==
    ASSUME IInv, Turns, ConnectCall \/ ConnectNext
    PROVE  Turns'
  <1> USE DEF fields
  <1>1. pc \in [Actors -> ClosePlaces \cup TaskPlaces \cup AppPlaces]
        /\ App \in Actors
    BY Names DEF IInv, ControlTypes
  <1>2. CASE ConnectCall
    <2>1. Turn(App, "dial") /\ lock' = TRUE
      BY <1>2, TurnEnds DEF ConnectCall, Resumed, RunPlaces
    <2>2. pc'[App] = "dial"
      BY <1>1, <2>1 DEF Turn
    <2>3. QED
      BY <1>1, <2>1, <2>2, TurnTurns DEF ConnectPlaces
  <1>3. CASE DialFails \/ HelloFails \/ UndoCloses \/ Dials
    <2>1. PICK q \in {"undo", "undone", "hello"} : Turn(App, q)
      BY <1>3, TurnGoes, TurnEnds DEF DialFails, HelloFails, UndoCloses, Dials,
         Resumed, Running, RunPlaces
    <2>2. lock' = lock /\ pc[App] \in ConnectPlaces
      BY <1>3 DEF DialFails, HelloFails, UndoCloses, Dials, Resumed, Running,
                  ConnectPlaces
    <2>3. pc'[App] \in ConnectPlaces /\ lock
      BY <1>1, <2>1, <2>2 DEF Turn, Turns, ConnectPlaces
    <2>4. QED
      BY <1>1, <2>1, <2>2, <2>3, TurnTurns
  <1>4. CASE ConnectFails
    <2>1. Turn(App, "idle") /\ lock' = FALSE
      BY <1>4, TurnEnds DEF ConnectFails, Resumed, Running, RunPlaces
    <2>2. pc'[App] = "idle"
      BY <1>1, <2>1 DEF Turn
    <2>3. QED
      BY <1>1, <2>1, <2>2, TurnTurns DEF ConnectPlaces
  <1>5. CASE Connects
    <2>1. /\ cpu = Nobody /\ cpu' = Nobody /\ lock' = FALSE
          /\ pc' = [pc EXCEPT ![App] = "idle", ![Reader(tries)] = "new",
                              ![Writer(tries)] = "new"]
      BY <1>5 DEF Connects, Resumed
    <2>2. Nobody \notin Actors
      BY DEF Nobody, Actors, App, Readers, Writers, Reader, Writer
    <2>3. ASSUME NEW b \in Actors
          PROVE  pc'[b] \in {pc[b], "idle", "new"}
      BY <1>1, <2>1
    <2>4. pc'[App] = "idle"
      BY <1>1, <2>1 DEF App, Reader, Writer
    <2>5. QED
      BY <2>1, <2>2, <2>3, <2>4 DEF Turns, RunPlaces, ConnectPlaces
  <1>6. QED
    BY <1>2, <1>3, <1>4, <1>5 DEF ConnectNext

LEMMA CloseTurns ==
    ASSUME IInv, Turns, NEW a \in Actors, (a = App /\ CloseCall) \/ CloseNext(a)
    PROVE  Turns'
  <1> USE DEF fields
  <1>1. cpu \in {Nobody, a}
    BY DEF CloseCall, CloseNext, CloseWaits, CloseNothing, CloseStarts,
           CancelRead, ReadAwaited, CancelWrite, WriteAwaited, AwaitRaises,
           CleanupCloses, CloseEnds, CloseInterrupted, Entered, Resumed,
           Running, Interrupted
  <1>2. \/ \E p \in {"enter", "cancelRead", "cancelWrite", "cleanup"} : GoOn(a, p)
        \/ \E p \in {"lock", "idle", "done", "awaitRead", "awaitWrite",
                     "wsClose"} : Await(a, p)
    BY DEF CloseCall, CloseNext, CloseWaits, CloseNothing, CloseStarts,
           CancelRead, ReadAwaited, CancelWrite, WriteAwaited, AwaitRaises,
           CleanupCloses, CloseEnds, CloseInterrupted, Return
  <1>3. PICK p \in ClosePlaces \cup {"idle", "done"} : Turn(a, p)
    BY <1>1, <1>2, TurnGoes, TurnEnds DEF ClosePlaces, RunPlaces
  <1>4. lock' = lock /\ pc[a] \notin ConnectPlaces
    BY DEF CloseCall, CloseNext, CloseWaits, CloseNothing, CloseStarts,
           CancelRead, ReadAwaited, CancelWrite, WriteAwaited, AwaitRaises,
           CleanupCloses, CloseEnds, CloseInterrupted, Entered, Resumed,
           Running, Interrupted, ConnectPlaces
  <1>5. pc'[App] \in ConnectPlaces <=> pc[App] \in ConnectPlaces
    BY <1>3, <1>4, Names DEF IInv, ControlTypes, Turn, ConnectPlaces, ClosePlaces
  <1>6. QED
    BY <1>3, <1>4, <1>5, TurnTurns DEF Turns

LEMMA LoopTurns ==
    ASSUME IInv, Turns, NEW a \in Readers \cup Writers, lock' = lock,
           cpu \in {Nobody, a},
           \/ \E p \in {"top", "exit", "got", "enter"} : GoOn(a, p)
           \/ \E p \in {"done", "recv", "handler", "fail", "get", "drain"} :
                  Await(a, p)
    PROVE  Turns'
  <1>1. a \in Actors /\ a # App
    BY Names
  <1>2. PICK p : Turn(a, p)
    BY TurnGoes, TurnEnds DEF RunPlaces
  <1>3. pc'[App] = pc[App]
    BY <1>1, <1>2, Names DEF Turn, IInv, ControlTypes
  <1>4. QED
    BY <1>1, <1>2, <1>3, TurnTurns DEF Turns

LEMMA TaskTurns ==
    ASSUME IInv, Turns, NEW a \in Readers \cup Writers, TaskNext(a)
    PROVE  Turns'
  <1> USE DEF fields, TaskStep, ReaderStep, WriterStep
  <1>1. CASE Starts(a) \/ Leaves(a) \/ Reported(a) \/ LoopInterrupted(a) \/ Exits(a)
    <2>1. cpu \in {Nobody, a} /\ lock' = lock
      BY <1>1 DEF Starts, Leaves, Reported, LoopInterrupted, Exits, Resumed,
                  Running, Interrupted
    <2>2. \/ \E p \in {"top", "exit", "enter"} : GoOn(a, p) \/ Await(a, "done")
      BY <1>1 DEF Starts, Leaves, Reported, LoopInterrupted, Exits
    <2>3. QED
      BY <2>1, <2>2, LoopTurns
  <1>2. ASSUME NEW k \in Tries, a = Reader(k), ReaderNext(k) PROVE Turns'
    <2>1. cpu \in {Nobody, a} /\ lock' = lock
      BY <1>2 DEF ReaderNext, Reads, Receives, Handled, ReadFails, Lost,
                  Resumed, Running
    <2>2. \/ \E p \in {"top", "exit"} : GoOn(a, p)
          \/ \E p \in {"recv", "handler", "fail"} : Await(a, p)
      BY <1>2 DEF ReaderNext, Reads, Receives, Handled, ReadFails, Lost
    <2>3. QED
      BY <2>1, <2>2, LoopTurns
  <1>3. ASSUME NEW k \in Tries, a = Writer(k), WriterNext(k) PROVE Turns'
    <2>1. cpu \in {Nobody, a} /\ lock' = lock
      BY <1>3 DEF WriterNext, Gets, Writes, Drained, DrainFails, Resumed, Running
    <2>2. \/ \E p \in {"top", "exit", "got"} : GoOn(a, p)
          \/ \E p \in {"get", "drain", "fail"} : Await(a, p)
      BY <1>3 DEF WriterNext, Gets, Writes, Drained, DrainFails
    <2>3. QED
      BY <2>1, <2>2, LoopTurns
  <1>4. CASE CloseNext(a)
    BY <1>4, CloseTurns, Names
  <1>5. QED
    BY <1>1, <1>2, <1>3, <1>4 DEF TaskNext

LEMMA TurnsInit == Init => Turns
  BY Names DEF Init, Turns, RunPlaces, ConnectPlaces, Nobody, Actors, App, Readers,
     Writers, Reader, Writer

LEMMA TurnsStep == IInv /\ Turns /\ [Next]_vars => Turns'
  <1> SUFFICES ASSUME IInv, Turns, [Next]_vars PROVE Turns'
    OBVIOUS
  <1>1. CASE UNCHANGED vars \/ Enqueue \/ \E k \in Tries : LinkEnds(k)
    <2>1. UNCHANGED <<pc, cpu, lock>>
      BY <1>1 DEF vars, fields, Enqueue, LinkEnds
    <2>2. QED
      BY <2>1 DEF Turns
  <1>2. QED
    BY <1>1, ConnectTurns, CloseTurns, TaskTurns, Names DEF Next, AppNext
-----------------------------------------------------------------------------
(***************************************************************************)
(* The phases of a client whose connects never overlapped with tasks of an *)
(* earlier connection: it is connecting, open, closing or closed.          *)
(***************************************************************************)

ReaderNow == Reader(tries)
WriterNow == Writer(tries)

Quiet == \A k \in Tries : pc[Reader(k)] \in Dead /\ pc[Writer(k)] \in Dead

\* The tasks of earlier connections have ended, those of later ones are new.
Alone ==
    /\ \A k \in Tries \ {tries} : pc[Reader(k)] \in Dead /\ pc[Writer(k)] \in Dead
    /\ \A a \in Actors : pc[a] # "lock"
    /\ ~cancelled[App]
    /\ \A k \in Tries : k > tries => ~cancelled[Reader(k)] /\ ~cancelled[Writer(k)]

Serving ==
    /\ tries # 0 /\ ws = tries /\ writeQueue = tries
    /\ readTask = tries /\ writeTask = tries

Connecting ==
    /\ lock /\ ~connected /\ ~closing /\ Quiet
    /\ tries # 0 /\ writeQueue = tries /\ readTask = 0 /\ writeTask = 0
    /\ ws \in {0, tries} /\ (pc[App] = "hello" => ws = tries)
    /\ ~cancelled[ReaderNow] /\ ~cancelled[WriterNow]

Open ==
    /\ ~lock /\ connected /\ ~closing /\ Serving
    /\ pc[App] \in {"idle", "enter"}
    /\ pc[ReaderNow] \in LoopPlaces \cup {"enter"}
    /\ pc[WriterNow] \in LoopPlaces \cup {"enter"}
    /\ ~cancelled[ReaderNow] /\ ~cancelled[WriterNow]

\* Who closes has waited for the tasks that it is past.
InOrderOfClose ==
    /\ pc[App] \in {"cancelWrite", "awaitWrite", "cleanup", "wsClose"} =>
            pc[ReaderNow] = "done"
    /\ pc[App] \in {"cleanup", "wsClose"} => pc[WriterNow] = "done"
    /\ pc[ReaderNow] \in {"cleanup", "wsClose"} => pc[WriterNow] = "done"
    /\ pc[WriterNow] \in {"cancelWrite", "cleanup", "wsClose"} => pc[ReaderNow] = "done"
    /\ pc[App] \in {"awaitRead", "awaitWrite"} => on[App] = tries
    /\ pc[ReaderNow] = "awaitWrite" => on[ReaderNow] = tries
    /\ pc[WriterNow] = "awaitRead" => on[WriterNow] = tries

Closing ==
    /\ ~lock /\ ~connected /\ closing /\ Serving
    /\ pc[App] \in {"idle", "enter"} \cup CloserPlaces
    /\ pc[ReaderNow] \in (LoopPlaces \cup CloserPlaces \cup {"done"}) \ {"awaitRead"}
    /\ pc[WriterNow] \in (LoopPlaces \cup CloserPlaces \cup {"done"}) \ {"awaitWrite"}
    /\ InOrderOfClose
    /\ ~ (pc[ReaderNow] \in CloserPlaces /\ pc[WriterNow] \in CloserPlaces)
    /\ \/ pc[App] \in CloserPlaces
       \/ pc[ReaderNow] \in CloserPlaces /\ ~cancelled[ReaderNow]
       \/ pc[WriterNow] \in CloserPlaces /\ ~cancelled[WriterNow]

Closed ==
    /\ ~lock /\ ~connected /\ ~closing /\ Quiet
    /\ ws = 0 /\ writeQueue = 0 /\ readTask = 0 /\ writeTask = 0
    /\ pc[App] \in {"idle", "enter", "awaitRead", "cancelWrite", "awaitWrite",
                    "cleanup"}

Phases == Connecting \/ Open \/ Closing \/ Closed

UInv == ~overlap => Alone /\ Phases

\* The pair of tasks of the latest connect, apart from all the others.
LEMMA NowNames ==
    ASSUME IInv, tries # 0
    PROVE  /\ tries \in Tries
           /\ ReaderNow \in Actors /\ WriterNow \in Actors
           /\ ReaderNow # App /\ WriterNow # App /\ ReaderNow # WriterNow
           /\ \A k \in Tries : Reader(k) # WriterNow /\ Writer(k) # ReaderNow
           /\ \A k \in Tries \ {tries} : Reader(k) # ReaderNow /\ Writer(k) # WriterNow
  <1>1. tries \in Tries
    BY BoundsAssumption DEF IInv, ControlTypes, Tries, BoundsAssumption
  <1>2. QED
    BY <1>1, Names DEF ReaderNow, WriterNow, Reader, Writer

LEMMA QuietTasks ==
    Quiet <=> ~TasksLeft
  <1>1. \A k \in Tries : Reader(k) \in Readers /\ Writer(k) \in Writers
    BY DEF Readers, Writers
  <1>2. \A a \in Readers \cup Writers : \E k \in Tries : a = Reader(k) \/ a = Writer(k)
    BY DEF Readers, Writers
  <1>3. QED
    BY <1>1, <1>2 DEF Quiet, TasksLeft, Dead

\* The phases are told apart by the fields that the code reads.
LEMMA WhichPhase ==
    ASSUME Turns, Phases
    PROVE  /\ pc[App] \in ConnectPlaces => Connecting
           /\ connected => Open
           /\ closing => Closing
           /\ pc[App] \notin ConnectPlaces /\ ~connected /\ ~closing => Closed
  BY DEF Turns, Phases, Connecting, Open, Closing, Closed

LEMMA ConnectCallPhase ==
    ASSUME IInv, Turns, UInv, ConnectCall
    PROVE  UInv'
  <1> USE DEF fields, net, count
  <1> SUFFICES ASSUME ~overlap' PROVE Alone' /\ Connecting'
    BY DEF UInv, Phases
  <1>1. /\ pc[App] = "idle" /\ ~connected /\ cpu = Nobody /\ tries < MaxTries
        /\ tries' = tries + 1 /\ writeQueue' = tries' /\ ~closing' /\ lock'
        /\ pc' = [pc EXCEPT ![App] = "dial"]
        /\ UNCHANGED <<connected, ws, readTask, writeTask, on, cancelled>>
        /\ ~overlap /\ ~TasksLeft
    <2>1. overlap' = (overlap \/ TasksLeft)
      BY DEF ConnectCall
    <2>2. QED
      BY <2>1 DEF ConnectCall, Resumed, Await
  <1>2. Alone /\ Phases /\ Quiet
    BY <1>1, QuietTasks DEF UInv
  <1>3. tries' \in Tries /\ tries \in Nat /\ tries' # 0
    BY <1>1, BoundsAssumption DEF IInv, ControlTypes, Tries, BoundsAssumption
  <1>4. pc \in [Actors -> ClosePlaces \cup TaskPlaces \cup AppPlaces]
    BY DEF IInv, ControlTypes
  <1>5. ~Closing
    <2>1. SUFFICES ASSUME Closing PROVE FALSE
      OBVIOUS
    <2>2. tries \in Tries /\ (pc[ReaderNow] \in CloserPlaces \/ pc[WriterNow] \in CloserPlaces)
      BY <1>1, <2>1, NowNames DEF Closing, Serving, CloserPlaces
    <2>3. QED
      BY <1>2, <2>2 DEF Quiet, ReaderNow, WriterNow, CloserPlaces, Dead
  <1>6. Closed
    BY <1>1, <1>2, <1>5, WhichPhase DEF ConnectPlaces, Closing, Phases, Open, Turns, Connecting
  <1>7. Quiet'
    BY <1>1, <1>2, <1>4, Names DEF Quiet
  <1>8. Alone'
    BY <1>1, <1>2, <1>3, <1>4, <1>7, Names DEF Alone, Quiet, Tries
  <1>9. ~cancelled[ReaderNow]' /\ ~cancelled[WriterNow]'
    BY <1>1, <1>2, <1>3 DEF Alone, ReaderNow, WriterNow
  <1>10. pc'[App] = "dial"
    BY <1>1, <1>4, Names
  <1>11. QED
    BY <1>1, <1>3, <1>6, <1>7, <1>8, <1>9, <1>10 DEF Connecting, Closed

LEMMA ConnectPhase ==
    ASSUME IInv, Turns, UInv, ConnectNext
    PROVE  UInv'
  <1> USE DEF fields, net, count
  <1> SUFFICES ASSUME ~overlap' PROVE Alone' /\ Phases'
    BY DEF UInv
  <1>1. pc \in [Actors -> ClosePlaces \cup TaskPlaces \cup AppPlaces]
        /\ cancelled \in [Actors -> BOOLEAN]
    BY DEF IInv, ControlTypes
  <1>2. UNCHANGED <<overlap, tries, on, cancelled>> /\ pc[App] \in ConnectPlaces
    BY DEF ConnectNext, DialFails, HelloFails, UndoCloses, Dials, ConnectFails,
           Connects, Resumed, Running, ConnectPlaces
  <1>3. Alone /\ Connecting
    BY <1>2, WhichPhase DEF UInv
  <1>4. tries # 0 /\ Quiet
    BY <1>3 DEF Connecting
  <1>5. ASSUME NEW p \in AppPlaces, pc' = [pc EXCEPT ![App] = p]
        PROVE  Alone' /\ Quiet' /\ pc'[App] = p
    <2>1. pc'[App] = p /\ \A k \in Tries : /\ pc'[Reader(k)] = pc[Reader(k)]
                                           /\ pc'[Writer(k)] = pc[Writer(k)]
      BY <1>1, <1>5, Names
    <2>2. \A b \in Actors : pc'[b] # "lock"
      BY <1>1, <1>3, <1>5 DEF Alone, AppPlaces
    <2>3. QED
      BY <1>2, <1>3, <1>4, <2>1, <2>2 DEF Alone, Quiet
  <1>6. CASE DialFails \/ HelloFails \/ UndoCloses
    <2>1. PICK p \in {"undo", "undone"} : pc' = [pc EXCEPT ![App] = p]
      BY <1>6 DEF DialFails, HelloFails, UndoCloses, GoOn, Await
    <2>2. UNCHANGED fields
      BY <1>6 DEF DialFails, HelloFails, UndoCloses
    <2>3. Alone' /\ Quiet' /\ pc'[App] # "hello"
      BY <1>5, <2>1 DEF AppPlaces
    <2>4. Connecting'
      BY <1>2, <1>3, <2>2, <2>3 DEF Connecting, ReaderNow, WriterNow
    <2>5. QED
      BY <2>3, <2>4 DEF Phases
  <1>7. CASE Dials
    <2>1. pc' = [pc EXCEPT ![App] = "hello"] /\ ws' = tries
          /\ UNCHANGED <<connected, closing, lock, writeQueue, readTask, writeTask>>
      BY <1>7 DEF Dials, Await
    <2>2. Alone' /\ Quiet'
      BY <1>5, <2>1 DEF AppPlaces
    <2>3. Connecting'
      BY <1>2, <1>3, <2>1, <2>2 DEF Connecting, ReaderNow, WriterNow
    <2>4. QED
      BY <2>2, <2>3 DEF Phases
  <1>8. CASE ConnectFails
    <2>1. /\ pc' = [pc EXCEPT ![App] = "idle"] /\ ws' = 0 /\ writeQueue' = 0
          /\ lock' = FALSE /\ UNCHANGED <<connected, closing, readTask, writeTask>>
      BY <1>8 DEF ConnectFails, Await
    <2>2. Alone' /\ Quiet' /\ pc'[App] = "idle"
      BY <1>5, <2>1 DEF AppPlaces
    <2>3. Closed'
      BY <1>3, <2>1, <2>2 DEF Closed, Connecting
    <2>4. QED
      BY <2>2, <2>3 DEF Phases
  <1>9. CASE Connects
    <2>1. /\ pc' = [pc EXCEPT ![App] = "idle", ![ReaderNow] = "new",
                              ![WriterNow] = "new"]
          /\ connected' = TRUE /\ lock' = FALSE
          /\ readTask' = tries /\ writeTask' = tries
          /\ UNCHANGED <<closing, ws, writeQueue>> /\ pc[App] = "hello"
      BY <1>9 DEF Connects, ReaderNow, WriterNow, Resumed
    <2>2. pc'[App] = "idle" /\ pc'[ReaderNow] = "new" /\ pc'[WriterNow] = "new"
      BY <1>1, <1>4, <2>1, NowNames, Names
    <2>3. /\ \A k \in Tries \ {tries} : /\ pc'[Reader(k)] = pc[Reader(k)]
                                        /\ pc'[Writer(k)] = pc[Writer(k)]
          /\ \A b \in Actors : pc'[b] # "lock"
      <3>1. \A b \in Actors : pc'[b] \in {pc[b], "idle", "new"}
        BY <1>1, <2>1
      <3>2. \A b \in Actors \ {App, ReaderNow, WriterNow} : pc'[b] = pc[b]
        BY <1>1, <2>1
      <3>3. QED
        BY <1>3, <1>4, <3>1, <3>2, NowNames, Names DEF Alone
    <2>4. Alone'
      BY <1>2, <1>3, <2>3 DEF Alone
    <2>5. UNCHANGED <<ReaderNow, WriterNow>>
      BY <1>2 DEF ReaderNow, WriterNow
    <2>6. Open'
      BY <1>2, <1>3, <2>1, <2>2, <2>5 DEF Open, Serving, Connecting, LoopPlaces
    <2>7. QED
      BY <2>4, <2>6 DEF Phases
  <1>10. QED
    BY <1>6, <1>7, <1>8, <1>9 DEF ConnectNext
\* A step of the application in close: the places of the tasks stay.
LEMMA AppMove ==
    ASSUME IInv, Alone, NEW p \in ClosePlaces \cup {"idle"}, p # "lock",
           pc' = [pc EXCEPT ![App] = p],
           UNCHANGED tries, UNCHANGED cancelled
    PROVE  /\ Alone' /\ pc'[App] = p /\ (Quiet => Quiet')
           /\ UNCHANGED <<ReaderNow, WriterNow>>
           /\ tries # 0 => /\ pc'[ReaderNow] = pc[ReaderNow]
                           /\ pc'[WriterNow] = pc[WriterNow]
  <1>1. pc \in [Actors -> ClosePlaces \cup TaskPlaces \cup AppPlaces]
    BY DEF IInv, ControlTypes
  <1>2. pc'[App] = p /\ \A k \in Tries : /\ pc'[Reader(k)] = pc[Reader(k)]
                                         /\ pc'[Writer(k)] = pc[Writer(k)]
    BY <1>1, Names
  <1>3. \A b \in Actors : pc'[b] # "lock"
    BY <1>1 DEF Alone
  <1>4. Alone'
    BY <1>2, <1>3 DEF Alone
  <1>5. UNCHANGED <<ReaderNow, WriterNow>>
    BY DEF ReaderNow, WriterNow
  <1>6. Quiet => Quiet'
    BY <1>2 DEF Quiet
  <1>7. tries # 0 => /\ pc'[ReaderNow] = pc[ReaderNow]
                     /\ pc'[WriterNow] = pc[WriterNow]
    BY <1>2, NowNames DEF ReaderNow, WriterNow
  <1>8. QED
    BY <1>2, <1>4, <1>5, <1>6, <1>7

\* The task that has the turn is at the place it runs from; nobody else runs.
LEMMA NotRunning ==
    ASSUME Turns, NEW a \in Actors, NEW b \in Actors, a # b,
           cpu \in {Nobody, a}
    PROVE  pc[b] \notin RunPlaces
  <1>1. b # Nobody
    BY DEF Nobody, Actors, App, Readers, Writers, Reader, Writer
  <1>2. QED
    BY <1>1 DEF Turns

LEMMA Free ==
    ASSUME IInv, Turns, Alone, ~lock, NEW a \in Actors
    PROVE  ~Contended /\ ~CloseWaits(a) /\ ~Resumed(a, "lock")
  BY DEF Alone, Contended, CloseWaits, Resumed

LEMMA AppCallPhase ==
    ASSUME IInv, Turns, Alone, Phases, CloseCall
    PROVE  Alone' /\ Phases'
  <1> USE DEF fields, net, count
  <1>1. /\ pc' = [pc EXCEPT ![App] = "enter"] /\ pc[App] = "idle"
        /\ UNCHANGED <<fields, on, cancelled, tries>>
    BY DEF CloseCall, GoOn, Resumed
  <1>2. /\ Alone' /\ pc'[App] = "enter" /\ (Quiet => Quiet')
        /\ UNCHANGED <<ReaderNow, WriterNow>>
        /\ tries # 0 => /\ pc'[ReaderNow] = pc[ReaderNow]
                        /\ pc'[WriterNow] = pc[WriterNow]
    BY <1>1, AppMove DEF ClosePlaces
  <1>3. ~Connecting
    BY <1>1 DEF Turns, Connecting, ConnectPlaces
  <1>4. CASE Open
    <2>1. Open'
      BY <1>1, <1>2, <1>4 DEF Open, Serving
    <2>2. QED
      BY <1>2, <2>1 DEF Phases
  <1>5. CASE Closed
    <2>1. Closed'
      BY <1>1, <1>2, <1>5 DEF Closed
    <2>2. QED
      BY <1>2, <2>1 DEF Phases
  <1>6. CASE Closing
    <2>1. InOrderOfClose'
      BY <1>1, <1>2, <1>6 DEF Closing, Serving, InOrderOfClose
    <2>2. Closing'
      BY <1>1, <1>2, <1>6, <2>1 DEF Closing, Serving, CloserPlaces
    <2>3. QED
      BY <1>2, <2>2 DEF Phases
  <1>7. QED
    BY <1>3, <1>4, <1>5, <1>6 DEF Phases

\* In a client that is open close can only start.
LEMMA AppOpenPhase ==
    ASSUME IInv, Turns, Alone, Open, CloseNext(App)
    PROVE  Alone' /\ Closing'
  <1> USE DEF fields, net, count
  <1>1. ~Resumed(App, "lock") /\ ~CloseWaits(App) /\ App \in Actors
    BY Free, Names DEF Open
  <1>2. CloseStarts(App)
    <2>1. pc[App] \in {"idle", "enter"} /\ connected
      BY DEF Open
    <2>2. QED
      BY <1>1, <2>1 DEF CloseNext, CloseNothing, CancelRead, ReadAwaited,
         CancelWrite, WriteAwaited, AwaitRaises, CleanupCloses, CloseEnds, CloseInterrupted,
         Interrupted, Running, Resumed
  <1>3. /\ pc' = [pc EXCEPT ![App] = "cancelRead"] /\ closing' /\ ~connected'
        /\ cpu = App
        /\ UNCHANGED <<lock, ws, writeQueue, readTask, writeTask, tries, on, cancelled>>
    BY <1>1, <1>2 DEF CloseStarts, GoOn, Entered, Running
  <1>4. tries # 0
    BY DEF Open, Serving
  <1>5. /\ Alone' /\ pc'[App] = "cancelRead"
        /\ UNCHANGED <<ReaderNow, WriterNow>>
        /\ pc'[ReaderNow] = pc[ReaderNow] /\ pc'[WriterNow] = pc[WriterNow]
    BY <1>3, <1>4, AppMove DEF ClosePlaces
  <1>6. pc[ReaderNow] \in LoopPlaces /\ pc[WriterNow] \in LoopPlaces
    BY <1>1, <1>3, <1>4, NowNames, NotRunning DEF Open, RunPlaces
  <1>7. InOrderOfClose'
    BY <1>5, <1>6 DEF InOrderOfClose, LoopPlaces
  <1>8. Serving'
    BY <1>3 DEF Open, Serving
  <1>9. QED
    BY <1>3, <1>5, <1>6, <1>7, <1>8 DEF Open, Closing, LoopPlaces, CloserPlaces

\* In a client that is closed close ends without an await.
LEMMA AppClosedPhase ==
    ASSUME IInv, Turns, Alone, Closed, CloseNext(App)
    PROVE  Alone' /\ Closed'
  <1> USE DEF fields, net, count
  <1>1. ~Resumed(App, "lock") /\ ~CloseWaits(App) /\ App \in Actors
    BY Free, Names DEF Closed
  <1>2. /\ Writer(writeTask) \notin Actors
        /\ pc[App] \in {"idle", "enter", "awaitRead", "cancelWrite",
                        "awaitWrite", "cleanup"}
        /\ ws = 0 /\ ~connected /\ ~cancelled[App]
    <2>1. writeTask = 0
      BY DEF Closed
    <2>2. \A k \in Tries : k # 0
      BY BoundsAssumption DEF Tries, BoundsAssumption
    <2>3. Writer(0) \notin Actors
      BY <2>2 DEF Actors, App, Readers, Writers, Reader, Writer
    <2>4. QED
      BY <2>1, <2>3 DEF Closed, Alone
  <1>3. PICK p \in {"idle", "cancelWrite", "cleanup"} : pc' = [pc EXCEPT ![App] = p]
    BY <1>1, <1>2 DEF CloseNext, CloseNothing, CloseStarts, CancelRead, Entered,
       ReadAwaited, CancelWrite, WriteAwaited, AwaitRaises, CleanupCloses, CloseEnds,
       CloseInterrupted, Interrupted, Running, Resumed, GoOn, Await, Return,
       Cancellable
  <1>4. /\ UNCHANGED <<connected, lock, cancelled, tries>> /\ (closing' => closing)
        /\ ws' \in {0, ws} /\ writeQueue' \in {0, writeQueue}
        /\ readTask' \in {0, readTask} /\ writeTask' \in {0, writeTask}
    <2>1. UNCHANGED <<connected, lock, cancelled, tries>>
      BY <1>1, <1>2 DEF CloseNext, CloseNothing, CloseStarts, CancelRead, Entered,
         ReadAwaited, CancelWrite, WriteAwaited, AwaitRaises, CleanupCloses, CloseEnds,
         CloseInterrupted, Interrupted, Running, Resumed, Cancellable
    <2>2. (closing' => closing)
      BY <1>1, <1>2 DEF CloseNext, CloseNothing, CloseStarts, CancelRead, Entered,
         ReadAwaited, CancelWrite, WriteAwaited, AwaitRaises, CleanupCloses, CloseEnds,
         CloseInterrupted, Interrupted, Running, Resumed
    <2>3. /\ ws' \in {0, ws} /\ writeQueue' \in {0, writeQueue}
          /\ readTask' \in {0, readTask} /\ writeTask' \in {0, writeTask}
      BY DEF CloseNext, CloseWaits, CloseNothing, CloseStarts, CancelRead,
         ReadAwaited, CancelWrite, WriteAwaited, AwaitRaises, CleanupCloses, CloseEnds,
         CloseInterrupted
    <2>4. QED
      BY <2>1, <2>2, <2>3
  <1>5. Alone' /\ pc'[App] = p /\ (Quiet => Quiet')
    BY <1>3, <1>4, AppMove DEF ClosePlaces
  <1>6. QED
    BY <1>4, <1>5 DEF Closed
\* While a client is closing, cancelled changes at its two tasks only.
CancelsNow ==
    \/ UNCHANGED cancelled
    \/ \E v \in {ReaderNow, WriterNow}, b \in BOOLEAN :
            cancelled' = [cancelled EXCEPT ![v] = b]

LEMMA CancelNow ==
    ASSUME IInv, Closing, NEW t \in {ReaderNow, WriterNow}, Cancel(t)
    PROVE  /\ CancelsNow
           /\ pc[t] \notin CloserPlaces =>
                \A v \in {ReaderNow, WriterNow} \ {t} : cancelled'[v] = cancelled[v]
  <1> DEFINE u == Victim(t)
             b == cancelled[u] \/ pc[u] # "done"
  <1>1. tries # 0 /\ cancelled \in [Actors -> BOOLEAN]
    BY DEF Closing, Serving, IInv, ControlTypes
  <1>2. u \in {ReaderNow, WriterNow} /\ (pc[t] \notin CloserPlaces => u = t)
    <2>1. pc[t] \in {"awaitRead", "awaitWrite"} => on[t] = tries
      BY DEF Closing, InOrderOfClose
    <2>2. QED
      BY <2>1 DEF Victim, ReaderNow, WriterNow, CloserPlaces
  <1>3. b \in BOOLEAN
    BY Zenon
  <1>4. cancelled' = [cancelled EXCEPT ![u] = b]
    BY Zenon DEF Cancel
  <1> HIDE DEF u, b
  <1>5. CancelsNow
    BY <1>2, <1>3, <1>4 DEF CancelsNow
  <1>6. QED
    BY <1>1, <1>2, <1>4, <1>5, NowNames

\* A step in close by one of the three that may be there.
Three == {App, ReaderNow, WriterNow}

LEMMA ThreeMove ==
    ASSUME IInv, Alone, tries # 0, NEW a \in Three,
           NEW p \in (ClosePlaces \cup TaskPlaces \cup {"idle"}) \ {"lock"},
           pc' = [pc EXCEPT ![a] = p], UNCHANGED tries, CancelsNow
    PROVE  /\ Alone' /\ pc'[a] = p
           /\ \A b \in Three \ {a} : pc'[b] = pc[b]
           /\ UNCHANGED <<ReaderNow, WriterNow, Three>>
           /\ pc'[ReaderNow] \in Dead /\ pc'[WriterNow] \in Dead => Quiet'
  <1>1. /\ pc \in [Actors -> ClosePlaces \cup TaskPlaces \cup AppPlaces]
        /\ cancelled \in [Actors -> BOOLEAN] /\ Three \subseteq Actors
    BY NowNames, Names DEF IInv, ControlTypes, Three
  <1>2. pc'[a] = p /\ \A b \in Three \ {a} : pc'[b] = pc[b]
    BY <1>1
  <1>3. UNCHANGED <<ReaderNow, WriterNow, Three>>
    BY DEF ReaderNow, WriterNow, Three
  <1>4. \A k \in Tries \ {tries} : /\ pc'[Reader(k)] = pc[Reader(k)]
                                   /\ pc'[Writer(k)] = pc[Writer(k)]
    BY <1>1, NowNames, Names DEF Three
  <1>5. \A b \in Actors : pc'[b] # "lock"
    BY <1>1 DEF Alone
  <1>6. /\ ~cancelled'[App]
        /\ \A k \in Tries : k > tries =>
              ~cancelled'[Reader(k)] /\ ~cancelled'[Writer(k)]
    <2>1. CASE UNCHANGED cancelled
      BY <2>1 DEF Alone
    <2>2. ASSUME NEW v \in {ReaderNow, WriterNow}, NEW b \in BOOLEAN,
                 cancelled' = [cancelled EXCEPT ![v] = b]
          PROVE  <1>6
      <3>1. \A c \in Actors : c # v => cancelled'[c] = cancelled[c]
        BY <1>1, <2>2
      <3>2. tries \in Nat
        BY BoundsAssumption DEF IInv, ControlTypes, BoundsAssumption
      <3>3. ASSUME NEW k \in Tries, k > tries
            PROVE  Reader(k) # v /\ Writer(k) # v
        BY <3>2, <3>3, NowNames DEF Tries
      <3>4. QED
        BY <3>1, <3>3, NowNames, Names DEF Alone
    <2>3. QED
      BY <2>1, <2>2 DEF CancelsNow
  <1>7. Alone'
    BY <1>4, <1>5, <1>6 DEF Alone
  <1>8. pc'[ReaderNow] \in Dead /\ pc'[WriterNow] \in Dead => Quiet'
    BY <1>4, <1>7 DEF Alone, Quiet, ReaderNow, WriterNow
  <1>9. QED
    BY <1>2, <1>3, <1>7, <1>8

\* The application in close while a client is closing.
LEMMA AppClosingPhase ==
    ASSUME IInv, Turns, Alone, Closing, ~overlap, CloseNext(App)
    PROVE  Alone' /\ (Closing' \/ Closed') /\ (CloseEnds(App) => Closed')
  <1> USE DEF fields, net, count
  <1>1. /\ ~Resumed(App, "lock") /\ ~CloseWaits(App) /\ App \in Three
        /\ tries # 0 /\ ws = tries /\ readTask = tries /\ writeTask = tries
        /\ ~cancelled[App] /\ closing /\ ~connected /\ ~lock
        /\ tries \in Tries
    BY Free, Names, NowNames DEF Closing, Serving, Three, Alone
  <1>2. /\ Reader(readTask) = ReaderNow /\ Writer(writeTask) = WriterNow
        /\ ReaderNow # WriterNow /\ ReaderNow # App /\ WriterNow # App
        /\ ReaderNow \in Actors /\ WriterNow \in Actors
    BY <1>1, NowNames DEF ReaderNow, WriterNow
  <1>2a. /\ ReaderNow \in Three \ {App} /\ WriterNow \in Three \ {App}
    BY <1>2 DEF Three
  <1>3. ~CloseNothing(App) /\ ~CloseInterrupted(App)
    BY <1>1 DEF CloseNothing, CloseInterrupted, Interrupted
  \* The steps that leave the fields of the session alone.
  <1>4. ASSUME NEW p \in CloserPlaces, pc' = [pc EXCEPT ![App] = p], CancelsNow,
               UNCHANGED <<ws, writeQueue, readTask, writeTask, lock, tries>>,
               closing', ~connected',
               p \in {"awaitRead", "awaitWrite"} => on' = [on EXCEPT ![App] = tries],
               p \notin {"awaitRead", "awaitWrite"} => on' = on,
               p \in {"cancelWrite", "awaitWrite", "cleanup", "wsClose"} =>
                    pc[ReaderNow] = "done",
               p \in {"cleanup", "wsClose"} => pc[WriterNow] = "done"
        PROVE  Alone' /\ Closing'
    <2>1. /\ Alone' /\ pc'[App] = p /\ UNCHANGED <<ReaderNow, WriterNow>>
          /\ pc'[ReaderNow] = pc[ReaderNow] /\ pc'[WriterNow] = pc[WriterNow]
      <3>1. p \in (ClosePlaces \cup TaskPlaces \cup {"idle"}) \ {"lock"}
        BY DEF CloserPlaces, ClosePlaces
      <3>2. QED
        BY <1>1, <1>4, <1>2a, <3>1, ThreeMove
    <2>2. /\ on'[ReaderNow] = on[ReaderNow] /\ on'[WriterNow] = on[WriterNow]
          /\ p \in {"awaitRead", "awaitWrite"} => on'[App] = tries
      <3>1. on \in [Actors -> 0 .. MaxTries]
        BY DEF IInv, ControlTypes
      <3>2. QED
        BY <1>2, <1>4, <3>1, Names
    <2>3. InOrderOfClose'
      BY <1>4, <2>1, <2>2 DEF Closing, InOrderOfClose
    <2>4. Serving'
      BY <1>4 DEF Closing, Serving
    <2>5. QED
      BY <1>1, <1>4, <2>1, <2>3, <2>4 DEF Closing
  <1>5. CASE CloseStarts(App)
    <2>1. /\ pc' = [pc EXCEPT ![App] = "cancelRead"] /\ closing' /\ ~connected'
          /\ UNCHANGED <<ws, writeQueue, readTask, writeTask, lock, tries, on, cancelled>>
      BY <1>5 DEF CloseStarts, GoOn
    <2>2. ~CloseEnds(App)
      BY <1>1, <1>5 DEF CloseStarts, CloseEnds, Entered, Running, Resumed
    <2>3. QED
      BY <1>4, <2>1, <2>2 DEF CancelsNow, CloserPlaces
  <1>6. CASE CancelRead(App)
    <2>1. /\ UNCHANGED <<fields, tries>> /\ ~CloseEnds(App)
      BY <1>6 DEF CancelRead, CloseEnds, Running, Resumed
    <2>2. CASE pc[ReaderNow] # "done"
      <3>1. /\ Cancel(ReaderNow) /\ on' = [on EXCEPT ![App] = tries]
            /\ pc' = [pc EXCEPT ![App] = "awaitRead"]
        BY <1>1, <1>2, <1>6, <2>2 DEF CancelRead, Cancellable, Await
      <3>2. CancelsNow
        BY <3>1, CancelNow
      <3>3. QED
        BY <1>1, <1>4, <2>1, <3>1, <3>2 DEF CloserPlaces
    <2>3. CASE pc[ReaderNow] = "done"
      <3>1. /\ pc' = [pc EXCEPT ![App] = "cancelWrite"]
            /\ UNCHANGED <<on, cancelled>>
        BY <1>2, <1>6, <2>3 DEF CancelRead, Cancellable, GoOn
      <3>2. QED
        BY <1>1, <1>4, <2>1, <2>3, <3>1 DEF CloserPlaces, CancelsNow
    <2>4. QED
      BY <2>2, <2>3
  <1>7. CASE ReadAwaited(App)
    <2>1. /\ UNCHANGED <<fields, tries, on, cancelled>>
          /\ pc' = [pc EXCEPT ![App] = "cancelWrite"]
          /\ pc[Reader(on[App])] = "done" /\ pc[App] = "awaitRead"
      BY <1>7 DEF ReadAwaited, GoOn
    <2>2. pc[ReaderNow] = "done" /\ ~CloseEnds(App)
      BY <2>1 DEF Closing, InOrderOfClose, ReaderNow, CloseEnds, Running, Resumed
    <2>3. QED
      BY <1>1, <1>4, <2>1, <2>2 DEF CloserPlaces, CancelsNow
  <1>8. CASE CancelWrite(App)
    <2>1. /\ UNCHANGED <<fields, tries>> /\ ~CloseEnds(App)
          /\ pc[ReaderNow] = "done"
      BY <1>8 DEF CancelWrite, CloseEnds, Running, Resumed, Closing, InOrderOfClose
    <2>2. CASE pc[WriterNow] # "done"
      <3>1. /\ Cancel(WriterNow) /\ on' = [on EXCEPT ![App] = tries]
            /\ pc' = [pc EXCEPT ![App] = "awaitWrite"]
        BY <1>1, <1>2, <1>8, <2>2 DEF CancelWrite, Cancellable, Await
      <3>2. CancelsNow
        BY <3>1, CancelNow
      <3>3. QED
        BY <1>1, <1>4, <2>1, <3>1, <3>2 DEF CloserPlaces
    <2>3. CASE pc[WriterNow] = "done"
      <3>1. /\ pc' = [pc EXCEPT ![App] = "cleanup"]
            /\ UNCHANGED <<on, cancelled>>
        BY <1>2, <1>8, <2>3 DEF CancelWrite, Cancellable, GoOn
      <3>2. QED
        BY <1>1, <1>4, <2>1, <2>3, <3>1 DEF CloserPlaces, CancelsNow
    <2>4. QED
      BY <2>2, <2>3
  <1>9. CASE WriteAwaited(App)
    <2>1. /\ UNCHANGED <<fields, tries, on, cancelled>>
          /\ pc' = [pc EXCEPT ![App] = "cleanup"]
          /\ pc[Writer(on[App])] = "done" /\ pc[App] = "awaitWrite"
      BY <1>9 DEF WriteAwaited, GoOn
    <2>2. pc[WriterNow] = "done" /\ pc[ReaderNow] = "done" /\ ~CloseEnds(App)
      BY <2>1 DEF Closing, InOrderOfClose, WriterNow, CloseEnds, Running, Resumed
    <2>3. QED
      BY <1>1, <1>4, <2>1, <2>2 DEF CloserPlaces, CancelsNow
  <1>10. CASE CleanupCloses(App)
    <2>1. /\ UNCHANGED <<fields, tries, on, cancelled>>
          /\ pc' = [pc EXCEPT ![App] = "wsClose"] /\ pc[App] = "cleanup"
      BY <1>10 DEF CleanupCloses, Await, Running
    <2>2. pc[WriterNow] = "done" /\ pc[ReaderNow] = "done" /\ ~CloseEnds(App)
      BY <1>1, <2>1 DEF Closing, InOrderOfClose, CloseEnds, Resumed
    <2>3. QED
      BY <1>1, <1>4, <2>1, <2>2 DEF CloserPlaces, CancelsNow
  <1>11. CASE CloseEnds(App)
    <2>1. /\ pc' = [pc EXCEPT ![App] = "idle"] /\ ws' = 0 /\ writeQueue' = 0
          /\ readTask' = 0 /\ writeTask' = 0 /\ ~closing'
          /\ UNCHANGED <<connected, lock, cancelled, tries>>
          /\ pc[App] \in {"cleanup", "wsClose"}
      BY <1>11 DEF CloseEnds, Return, Await, Running, Resumed
    <2>2. pc[WriterNow] = "done" /\ pc[ReaderNow] = "done"
      BY <2>1 DEF Closing, InOrderOfClose
    <2>3. Alone' /\ pc'[App] = "idle" /\ Quiet'
      <3>1. CancelsNow /\ "idle" \in (ClosePlaces \cup TaskPlaces \cup {"idle"}) \ {"lock"}
        BY <2>1 DEF CancelsNow, ClosePlaces, TaskPlaces
      <3>2. QED
        BY <1>1, <1>2a, <2>1, <2>2, <3>1, ThreeMove DEF Dead
    <2>4. QED
      BY <1>1, <2>1, <2>3 DEF Closed
  <1>12. ~AwaitRaises(App)
    BY DEF AwaitRaises
  <1>13. QED
    BY <1>1, <1>3, <1>5, <1>6, <1>7, <1>8, <1>9, <1>10, <1>11, <1>12
    DEF CloseNext
\* What a client that is closing keeps when one of its tasks moves to p.
LEMMA ClosingTask ==
    ASSUME IInv, Alone, Closing, NEW a \in {ReaderNow, WriterNow},
           NEW p \in (LoopPlaces \cup CloserPlaces \cup {"done"}),
           pc[a] \in LoopPlaces \cup CloserPlaces,
           pc' = [pc EXCEPT ![a] = p], CancelsNow,
           UNCHANGED <<connected, closing, lock, ws, writeQueue, readTask,
                       writeTask, tries>>,
           \E v : on' = [on EXCEPT ![a] = v],
           p \in {"awaitRead", "awaitWrite"} => on'[a] = tries,
           a = ReaderNow /\ p \in {"cleanup", "wsClose"} => pc[WriterNow] = "done",
           a = WriterNow /\ p \in {"cancelWrite", "cleanup", "wsClose"} =>
                pc[ReaderNow] = "done",
           a = ReaderNow => p # "awaitRead", a = WriterNow => p # "awaitWrite",
           p \in CloserPlaces => pc[a] \in CloserPlaces,
           \/ pc[App] \in CloserPlaces
           \/ p \in CloserPlaces /\ ~cancelled'[a]
           \/ \E b \in {ReaderNow, WriterNow} \ {a} :
                    pc[b] \in CloserPlaces /\ ~cancelled'[b]
    PROVE  Alone' /\ Closing'
  <1>1. /\ tries # 0 /\ App \in Three /\ ReaderNow \in Three /\ WriterNow \in Three
        /\ Three \subseteq Actors /\ a \in Three /\ a # App /\ ReaderNow # WriterNow
        /\ ReaderNow # App /\ WriterNow # App
        /\ p \in (ClosePlaces \cup TaskPlaces \cup {"idle"}) \ {"lock"}
    <2>1. tries # 0
      BY DEF Closing, Serving
    <2>2. p \in (ClosePlaces \cup TaskPlaces \cup {"idle"}) \ {"lock"}
      BY DEF LoopPlaces, CloserPlaces, ClosePlaces, TaskPlaces
    <2>3. QED
      BY <2>1, <2>2, NowNames, Names DEF Three
  <1>2. /\ Alone' /\ pc'[a] = p /\ \A b \in Three \ {a} : pc'[b] = pc[b]
        /\ UNCHANGED <<ReaderNow, WriterNow>>
    BY <1>1, ThreeMove
  <1>3. \A b \in Three \ {a} : on'[b] = on[b]
    BY <1>1 DEF IInv, ControlTypes
  <1>4. Serving'
    BY DEF Closing, Serving
  <1>5. /\ pc'[App] = pc[App] /\ on'[App] = on[App]
        /\ pc[a] # "done"
    BY <1>1, <1>2, <1>3 DEF LoopPlaces, CloserPlaces
  <1>6. CASE a = ReaderNow
    <2>1. pc'[WriterNow] = pc[WriterNow] /\ on'[WriterNow] = on[WriterNow]
          /\ pc'[ReaderNow] = p
      BY <1>1, <1>2, <1>3, <1>6
    <2>2. InOrderOfClose'
      BY <1>2, <1>5, <1>6, <2>1 DEF Closing, InOrderOfClose
    <2>3. \/ pc[App] \in CloserPlaces
          \/ p \in CloserPlaces /\ ~cancelled'[ReaderNow]
          \/ pc[WriterNow] \in CloserPlaces /\ ~cancelled'[WriterNow]
      BY <1>1, <1>6
    <2>4. QED
      BY <1>2, <1>4, <1>5, <1>6, <2>1, <2>2, <2>3 DEF Closing
  <1>7. CASE a = WriterNow
    <2>1. pc'[ReaderNow] = pc[ReaderNow] /\ on'[ReaderNow] = on[ReaderNow]
          /\ pc'[WriterNow] = p
      BY <1>1, <1>2, <1>3, <1>7
    <2>2. InOrderOfClose'
      BY <1>2, <1>5, <1>7, <2>1 DEF Closing, InOrderOfClose
    <2>3. \/ pc[App] \in CloserPlaces
          \/ p \in CloserPlaces /\ ~cancelled'[WriterNow]
          \/ pc[ReaderNow] \in CloserPlaces /\ ~cancelled'[ReaderNow]
      BY <1>1, <1>7
    <2>4. QED
      BY <1>2, <1>4, <1>5, <1>7, <2>1, <2>2, <2>3 DEF Closing
  <1>8. QED
    BY <1>6, <1>7

\* A task that closes an open client.
LEMMA TaskOpenPhase ==
    ASSUME IInv, Turns, Alone, Open, NEW a \in {ReaderNow, WriterNow}, CloseNext(a)
    PROVE  Alone' /\ Closing'
  <1> USE DEF fields, net, count
  <1>1. /\ tries # 0 /\ App \in Three /\ ReaderNow \in Three /\ WriterNow \in Three
        /\ Three \subseteq Actors /\ a \in Three /\ a # App /\ ReaderNow # WriterNow
        /\ ReaderNow # App /\ WriterNow # App /\ ~lock /\ connected
        /\ pc[a] \in LoopPlaces \cup {"enter"}
    <2>1. tries # 0 /\ ~lock /\ connected /\ pc[a] \in LoopPlaces \cup {"enter"}
      BY DEF Open, Serving
    <2>2. QED
      BY <2>1, NowNames, Names DEF Three
  <1>2. ~Resumed(a, "lock") /\ ~CloseWaits(a)
    BY <1>1, Free
  <1>3. CloseStarts(a)
    BY <1>1, <1>2 DEF CloseNext, CloseNothing, CancelRead, ReadAwaited,
       CancelWrite, WriteAwaited, AwaitRaises, CleanupCloses, CloseEnds, CloseInterrupted,
       Interrupted, Running, Resumed, LoopPlaces
  <1>4. /\ pc' = [pc EXCEPT ![a] = "cancelRead"] /\ closing' /\ ~connected'
        /\ cpu = a
        /\ UNCHANGED <<lock, ws, writeQueue, readTask, writeTask, tries, on, cancelled>>
    BY <1>2, <1>3 DEF CloseStarts, GoOn, Entered, Running
  <1>5. CancelsNow
    BY <1>4 DEF CancelsNow
  <1>6. /\ Alone' /\ pc'[a] = "cancelRead" /\ \A b \in Three \ {a} : pc'[b] = pc[b]
        /\ UNCHANGED <<ReaderNow, WriterNow>>
    <2>1. "cancelRead" \in (ClosePlaces \cup TaskPlaces \cup {"idle"}) \ {"lock"}
      BY DEF ClosePlaces
    <2>2. QED
      BY <1>1, <1>4, <1>5, <2>1, ThreeMove
  <1>7. \A b \in Three \ {a} : pc[b] \notin RunPlaces
    BY <1>1, <1>4, NotRunning
  <1>8. pc'[App] = "idle" /\ \A b \in {ReaderNow, WriterNow} \ {a} : pc'[b] \in LoopPlaces
    BY <1>1, <1>6, <1>7 DEF Open, RunPlaces
  <1>9. InOrderOfClose'
    BY <1>1, <1>6, <1>8 DEF InOrderOfClose, LoopPlaces
  <1>10. Serving'
    BY <1>4 DEF Open, Serving
  <1>11. ~cancelled'[ReaderNow] /\ ~cancelled'[WriterNow]
    BY <1>4 DEF Open
  <1>12. QED
    BY <1>1, <1>4, <1>6, <1>8, <1>9, <1>10, <1>11
    DEF Closing, Open, LoopPlaces, CloserPlaces
\* A task that is closing the client, with the application or without.
LEMMA TaskClosingPhase ==
    ASSUME IInv, Turns, Alone, Closing, ~overlap,
           NEW a \in {ReaderNow, WriterNow}, CloseNext(a)
    PROVE  Alone' /\ (Closing' \/ Closed')
  <1> USE DEF fields, net, count
  <1>1. /\ tries # 0 /\ ~lock /\ ~connected /\ ws = tries
        /\ readTask = tries /\ writeTask = tries
        /\ pc[a] \in LoopPlaces \cup CloserPlaces \cup {"done"}
    BY DEF Closing, Serving
  <1>2. /\ Reader(readTask) = ReaderNow /\ Writer(writeTask) = WriterNow
        /\ ReaderNow # WriterNow /\ a # App
        /\ ReaderNow \in Actors /\ WriterNow \in Actors /\ App \in Actors
    BY <1>1, NowNames, Names DEF ReaderNow, WriterNow
  <1>3. ~Resumed(a, "lock") /\ ~CloseWaits(a)
    BY <1>1, <1>2, Free
  <1>4. ~CloseNothing(a) /\ ~CloseStarts(a)
    BY <1>1, <1>3 DEF CloseNothing, CloseStarts, Entered, Running, LoopPlaces,
                      CloserPlaces
  <1>5. pc[a] \in CloserPlaces
    BY <1>1, <1>3, <1>4 DEF CloseNext, CancelRead, ReadAwaited, CancelWrite,
       WriteAwaited, AwaitRaises, CleanupCloses, CloseEnds, CloseInterrupted, Running,
       Resumed, Interrupted, CloserPlaces, LoopPlaces
  \* The steps on the way to the end of close.
  <1>6. ASSUME NEW p \in CloserPlaces, pc' = [pc EXCEPT ![a] = p],
               UNCHANGED <<fields, tries>>, CancelsNow, cancelled'[a] = cancelled[a],
               \E v : on' = [on EXCEPT ![a] = v],
               p \in {"awaitRead", "awaitWrite"} => on'[a] = tries,
               a = ReaderNow /\ p \in {"cleanup", "wsClose"} => pc[WriterNow] = "done",
               a = WriterNow /\ p \in {"cancelWrite", "cleanup", "wsClose"} =>
                    pc[ReaderNow] = "done",
               a = ReaderNow => p # "awaitRead", a = WriterNow => p # "awaitWrite"
        PROVE  Alone' /\ Closing'
    <2>1. pc[App] \in CloserPlaces \/ (p \in CloserPlaces /\ ~cancelled'[a])
      BY <1>5, <1>6 DEF Closing
    <2>2. QED
      BY <1>5, <1>6, <2>1, ClosingTask
  <1>7. on' = on => \E v : on' = [on EXCEPT ![a] = v]
    <2>1. on = [on EXCEPT ![a] = on[a]]
      BY <1>2 DEF IInv, ControlTypes
    <2>2. QED
      BY <2>1
  <1>8. UNCHANGED cancelled => CancelsNow /\ cancelled'[a] = cancelled[a]
    BY DEF CancelsNow
  \* To cancel the other task.
  <1>9. ASSUME NEW t \in {ReaderNow, WriterNow}, t # a, Cancel(t)
        PROVE  CancelsNow /\ cancelled'[a] = cancelled[a]
    <2>1. pc[t] \notin CloserPlaces
      BY <1>5, <1>9 DEF Closing
    <2>2. QED
      BY <1>9, <2>1, CancelNow
  <1>10. on \in [Actors -> 0 .. MaxTries]
    BY DEF IInv, ControlTypes
  <1>11. CASE CancelRead(a)
    <2>1. UNCHANGED <<fields, tries>>
      BY <1>11 DEF CancelRead
    <2>2. CASE a = WriterNow /\ pc[ReaderNow] # "done"
      <3>1. /\ Cancel(ReaderNow) /\ on' = [on EXCEPT ![a] = tries]
            /\ pc' = [pc EXCEPT ![a] = "awaitRead"]
        BY <1>1, <1>2, <1>11, <2>2 DEF CancelRead, Cancellable, Await
      <3>2. on'[a] = tries
        BY <1>2, <1>10, <3>1
      <3>3. QED
        BY <1>2, <1>6, <1>9, <2>1, <2>2, <3>1, <3>2 DEF CloserPlaces
    <2>3. CASE ~ (a = WriterNow /\ pc[ReaderNow] # "done")
      <3>1. /\ pc' = [pc EXCEPT ![a] = "cancelWrite"] /\ UNCHANGED <<on, cancelled>>
        BY <1>2, <1>11, <2>3 DEF CancelRead, Cancellable, GoOn
      <3>2. QED
        BY <1>6, <1>7, <1>8, <2>1, <2>3, <3>1 DEF CloserPlaces
    <2>4. QED
      BY <2>2, <2>3
  <1>12. CASE ReadAwaited(a)
    <2>1. /\ UNCHANGED <<fields, tries, on, cancelled>>
          /\ pc' = [pc EXCEPT ![a] = "cancelWrite"]
          /\ pc[Reader(on[a])] = "done" /\ pc[a] = "awaitRead"
      BY <1>12 DEF ReadAwaited, GoOn
    <2>2. pc[ReaderNow] = "done" /\ a = WriterNow
      BY <2>1 DEF Closing, InOrderOfClose, ReaderNow
    <2>3. QED
      BY <1>6, <1>7, <1>8, <2>1, <2>2 DEF CloserPlaces
  <1>13. CASE CancelWrite(a)
    <2>1. UNCHANGED <<fields, tries>> /\ pc[a] = "cancelWrite"
      BY <1>13 DEF CancelWrite, Running
    <2>2. a = WriterNow => pc[ReaderNow] = "done"
      BY <2>1 DEF Closing, InOrderOfClose
    <2>3. CASE a = ReaderNow /\ pc[WriterNow] # "done"
      <3>1. /\ Cancel(WriterNow) /\ on' = [on EXCEPT ![a] = tries]
            /\ pc' = [pc EXCEPT ![a] = "awaitWrite"]
        BY <1>1, <1>2, <1>13, <2>3 DEF CancelWrite, Cancellable, Await
      <3>2. on'[a] = tries
        BY <1>2, <1>10, <3>1
      <3>3. QED
        BY <1>2, <1>6, <1>9, <2>1, <2>3, <3>1, <3>2 DEF CloserPlaces
    <2>4. CASE ~ (a = ReaderNow /\ pc[WriterNow] # "done")
      <3>1. /\ pc' = [pc EXCEPT ![a] = "cleanup"] /\ UNCHANGED <<on, cancelled>>
        BY <1>2, <1>13, <2>4 DEF CancelWrite, Cancellable, GoOn
      <3>2. QED
        BY <1>6, <1>7, <1>8, <2>1, <2>2, <2>4, <3>1 DEF CloserPlaces
    <2>5. QED
      BY <2>3, <2>4
  <1>14. CASE WriteAwaited(a)
    <2>1. /\ UNCHANGED <<fields, tries, on, cancelled>>
          /\ pc' = [pc EXCEPT ![a] = "cleanup"]
          /\ pc[Writer(on[a])] = "done" /\ pc[a] = "awaitWrite"
      BY <1>14 DEF WriteAwaited, GoOn
    <2>2. pc[WriterNow] = "done" /\ a = ReaderNow
      BY <2>1 DEF Closing, InOrderOfClose, WriterNow
    <2>3. QED
      BY <1>2, <1>6, <1>7, <1>8, <2>1, <2>2 DEF CloserPlaces
  <1>15. CASE CleanupCloses(a)
    <2>1. /\ UNCHANGED <<fields, tries, on, cancelled>>
          /\ pc' = [pc EXCEPT ![a] = "wsClose"] /\ pc[a] = "cleanup"
      BY <1>15 DEF CleanupCloses, Await, Running
    <2>2. /\ a = ReaderNow => pc[WriterNow] = "done"
          /\ a = WriterNow => pc[ReaderNow] = "done"
      BY <2>1 DEF Closing, InOrderOfClose
    <2>3. QED
      BY <1>6, <1>7, <1>8, <2>1, <2>2 DEF CloserPlaces
  <1>16. CASE CloseEnds(a)
    <2>1. /\ pc' = [pc EXCEPT ![a] = "done"] /\ ws' = 0 /\ writeQueue' = 0
          /\ readTask' = 0 /\ writeTask' = 0 /\ ~closing'
          /\ UNCHANGED <<connected, lock, cancelled, tries>>
          /\ pc[a] = "wsClose" /\ cpu = Nobody
      BY <1>1, <1>2, <1>16 DEF CloseEnds, Return, Await, Running, Resumed
    <2>2. /\ \A b \in {ReaderNow, WriterNow} \ {a} : pc[b] = "done"
          /\ pc[App] \in {"idle", "awaitRead", "awaitWrite"}
      <3>1. \A b \in {ReaderNow, WriterNow} \ {a} : pc[b] = "done"
        BY <2>1 DEF Closing, InOrderOfClose
      <3>2. pc[App] \notin RunPlaces /\ pc[App] # "wsClose"
        BY <1>2, <2>1, NotRunning DEF Closing, InOrderOfClose
      <3>3. pc[App] \in {"idle", "enter"} \cup CloserPlaces
        BY DEF Closing
      <3>4. QED
        BY <3>1, <3>2, <3>3 DEF RunPlaces, CloserPlaces
    <2>3. CancelsNow /\ "done" \in (ClosePlaces \cup TaskPlaces \cup {"idle"}) \ {"lock"}
      BY <2>1 DEF CancelsNow, ClosePlaces, TaskPlaces
    <2>4. /\ a \in Three /\ \A b \in {ReaderNow, WriterNow} : b \in Three
          /\ App \in Three \ {a}
      BY <1>2 DEF Three
    <2>5. /\ Alone' /\ pc'[a] = "done" /\ \A b \in Three \ {a} : pc'[b] = pc[b]
          /\ pc'[ReaderNow] \in Dead /\ pc'[WriterNow] \in Dead => Quiet'
      BY <1>1, <2>1, <2>3, <2>4, ThreeMove
    <2>6. Quiet' /\ pc'[App] = pc[App]
      BY <2>2, <2>4, <2>5 DEF Dead
    <2>7. Closed'
      BY <1>1, <2>1, <2>2, <2>6 DEF Closed
    <2>8. QED
      BY <2>5, <2>7
  <1>17. CASE CloseInterrupted(a)
    <2>1. /\ pc' = [pc EXCEPT ![a] = "done"] /\ cancelled[a]
          /\ cancelled' = [cancelled EXCEPT ![a] = FALSE]
          /\ UNCHANGED <<fields, on, tries>>
      BY <1>17 DEF CloseInterrupted, Await, Interrupted
    <2>2. pc[App] \in CloserPlaces
      BY <1>5, <2>1 DEF Closing
    <2>3. CancelsNow
      BY <2>1 DEF CancelsNow
    <2>4. "done" \in (LoopPlaces \cup CloserPlaces \cup {"done"}) /\ "done" \notin CloserPlaces
      BY DEF CloserPlaces
    <2>5. QED
      BY <1>5, <1>7, <2>1, <2>2, <2>3, <2>4, ClosingTask
  <1>18. ~AwaitRaises(a)
    BY DEF AwaitRaises
  <1>19. QED
    BY <1>3, <1>4, <1>11, <1>12, <1>13, <1>14, <1>15, <1>16, <1>17, <1>18
    DEF CloseNext

\* A step of a loop: from one of its places to another, to close or to the end.
LoopStep(a) ==
    /\ UNCHANGED <<connected, closing, lock, ws, writeQueue, readTask,
                   writeTask, tries, overlap>>
    /\ pc[a] \in LoopPlaces
    /\ \E p \in LoopPlaces \cup {"enter", "done"} :
            /\ pc' = [pc EXCEPT ![a] = p]
            /\ p = "enter" => ~closing
            /\ p = "done" => closing \/ ws = 0 \/ writeQueue = 0 \/ cancelled[a]
    /\ \E v : on' = [on EXCEPT ![a] = v]
    /\ cancelled' = cancelled \/ cancelled' = [cancelled EXCEPT ![a] = FALSE]

LEMMA LoopSteps ==
    ASSUME IInv, NEW a \in Readers \cup Writers, TaskNext(a), ~CloseNext(a)
    PROVE  LoopStep(a)
  <1> USE DEF fields, net, count, TaskStep, ReaderStep, WriterStep
  <1>1. on' = on => \E v : on' = [on EXCEPT ![a] = v]
    <2>1. on = [on EXCEPT ![a] = on[a]]
      BY Names DEF IInv, ControlTypes
    <2>2. QED
      BY <2>1
  <1>2. CASE Starts(a) \/ Leaves(a) \/ Reported(a) \/ LoopInterrupted(a) \/ Exits(a)
    <2>1. /\ UNCHANGED <<connected, closing, lock, ws, writeQueue, readTask,
                         writeTask, tries, overlap, on>>
          /\ pc[a] \in LoopPlaces
          /\ cancelled' = cancelled \/ cancelled' = [cancelled EXCEPT ![a] = FALSE]
      BY <1>2 DEF Starts, Leaves, Reported, LoopInterrupted, Exits, Resumed,
                  Running, Interrupted, LoopPlaces
    <2>2. \E p \in LoopPlaces \cup {"enter", "done"} :
            /\ pc' = [pc EXCEPT ![a] = p]
            /\ p = "enter" => ~closing
            /\ p = "done" => closing \/ ws = 0 \/ writeQueue = 0 \/ cancelled[a]
      BY <1>2 DEF Starts, Leaves, Reported, LoopInterrupted, Exits, LoopPlaces,
                  GoOn, Await
    <2>3. QED
      BY <1>1, <2>1, <2>2 DEF LoopStep
  <1>3. ASSUME NEW k \in Tries, a = Reader(k), ReaderNext(k) PROVE LoopStep(a)
    <2>1. /\ UNCHANGED <<connected, closing, lock, ws, writeQueue, readTask,
                         writeTask, tries, overlap, cancelled>>
          /\ pc[a] \in LoopPlaces
      BY <1>3 DEF ReaderNext, Reads, Receives, Handled, ReadFails, Lost,
                  Resumed, Running, LoopPlaces
    <2>2. \E p \in LoopPlaces : pc' = [pc EXCEPT ![a] = p]
      BY <1>3 DEF ReaderNext, Reads, Receives, Handled, ReadFails, Lost, GoOn,
                  Await, LoopPlaces
    <2>3. \E v : on' = [on EXCEPT ![a] = v]
      BY <1>1, <1>3 DEF ReaderNext, Reads, Receives, Handled, ReadFails, Lost
    <2>4. QED
      BY <2>1, <2>2, <2>3 DEF LoopStep, LoopPlaces
  <1>4. ASSUME NEW k \in Tries, a = Writer(k), WriterNext(k) PROVE LoopStep(a)
    <2>1. /\ UNCHANGED <<connected, closing, lock, ws, writeQueue, readTask,
                         writeTask, tries, overlap, cancelled>>
          /\ pc[a] \in LoopPlaces
      BY <1>4 DEF WriterNext, Gets, Writes, Drained, DrainFails, Resumed,
                  Running, LoopPlaces
    <2>2. \E p \in LoopPlaces : pc' = [pc EXCEPT ![a] = p]
      BY <1>4 DEF WriterNext, Gets, Writes, Drained, DrainFails, GoOn, Await,
                  LoopPlaces
    <2>3. \E v : on' = [on EXCEPT ![a] = v]
      BY <1>1, <1>4 DEF WriterNext, Gets, Writes, Drained, DrainFails
    <2>4. QED
      BY <2>1, <2>2, <2>3 DEF LoopStep, LoopPlaces
  <1>5. QED
    BY <1>2, <1>3, <1>4 DEF TaskNext
LEMMA LoopOpenPhase ==
    ASSUME IInv, Alone, Open, NEW a \in {ReaderNow, WriterNow}, LoopStep(a)
    PROVE  Alone' /\ Open'
  <1>1. /\ tries # 0 /\ App \in Three /\ ReaderNow \in Three /\ WriterNow \in Three
        /\ Three \subseteq Actors /\ a \in Three /\ a # App /\ ReaderNow # WriterNow
        /\ ReaderNow # App /\ WriterNow # App /\ ~cancelled[a]
        /\ cancelled \in [Actors -> BOOLEAN] /\ ~closing /\ ws # 0 /\ writeQueue # 0
    <2>1. tries # 0 /\ ~cancelled[a] /\ ~closing /\ ws # 0 /\ writeQueue # 0
      BY DEF Open, Serving
    <2>2. QED
      BY <2>1, NowNames, Names DEF Three, IInv, ControlTypes
  <1>2. PICK p \in LoopPlaces \cup {"enter"} : pc' = [pc EXCEPT ![a] = p]
    BY <1>1 DEF LoopStep
  <1>3. ~cancelled'[ReaderNow] /\ ~cancelled'[WriterNow]
    BY <1>1 DEF LoopStep, Open
  <1>4. CancelsNow
    BY DEF LoopStep, CancelsNow
  <1>5. p \in (ClosePlaces \cup TaskPlaces \cup {"idle"}) \ {"lock"}
    BY DEF LoopPlaces, ClosePlaces, TaskPlaces
  <1>6. tries' = tries
    BY DEF LoopStep
  <1>7. /\ Alone' /\ pc'[a] = p /\ \A b \in Three \ {a} : pc'[b] = pc[b]
        /\ UNCHANGED <<ReaderNow, WriterNow>>
    BY <1>1, <1>2, <1>4, <1>5, <1>6, ThreeMove
  <1>8. /\ pc'[App] = pc[App] /\ pc'[ReaderNow] \in LoopPlaces \cup {"enter"}
        /\ pc'[WriterNow] \in LoopPlaces \cup {"enter"}
    BY <1>1, <1>7 DEF Open
  <1>9. Serving'
    BY DEF LoopStep, Open, Serving
  <1>10. QED
    BY <1>3, <1>7, <1>8, <1>9 DEF Open, LoopStep

LEMMA LoopClosingPhase ==
    ASSUME IInv, Alone, Closing, NEW a \in {ReaderNow, WriterNow}, LoopStep(a)
    PROVE  Alone' /\ Closing'
  <1>1. closing /\ a \in Actors /\ ReaderNow \in Actors /\ WriterNow \in Actors
        /\ cancelled \in [Actors -> BOOLEAN] /\ pc[a] \in LoopPlaces
    <2>1. closing /\ tries # 0
      BY DEF Closing, Serving
    <2>2. QED
      BY <2>1, NowNames DEF IInv, ControlTypes, LoopStep
  <1>2. PICK p \in LoopPlaces \cup {"done"} : pc' = [pc EXCEPT ![a] = p]
    BY <1>1 DEF LoopStep
  <1>3. CancelsNow /\ \A b \in {ReaderNow, WriterNow} \ {a} : cancelled'[b] = cancelled[b]
    BY <1>1 DEF LoopStep, CancelsNow
  <1>4. p \notin CloserPlaces /\ pc[a] \notin CloserPlaces /\ p \notin {"awaitRead", "awaitWrite"}
    BY <1>1 DEF LoopPlaces, CloserPlaces
  <1>5. \/ pc[App] \in CloserPlaces
        \/ \E b \in {ReaderNow, WriterNow} \ {a} :
                pc[b] \in CloserPlaces /\ ~cancelled'[b]
    <2>1. \/ pc[App] \in CloserPlaces
          \/ \E b \in {ReaderNow, WriterNow} : pc[b] \in CloserPlaces /\ ~cancelled[b]
      BY DEF Closing
    <2>2. QED
      BY <1>3, <1>4, <2>1
  <1>6. /\ UNCHANGED <<connected, closing, lock, ws, writeQueue, readTask,
                       writeTask, tries>>
        /\ \E v : on' = [on EXCEPT ![a] = v]
    BY DEF LoopStep
  <1>7. p \notin {"cancelWrite", "cleanup", "wsClose"}
    BY <1>4 DEF CloserPlaces
  <1>8. p \in LoopPlaces \cup CloserPlaces \cup {"done"}
    OBVIOUS
  <1>9. QED
    BY <1>1, <1>2, <1>3, <1>4, <1>5, <1>6, <1>7, <1>8, ClosingTask

\* A task that takes a step has not ended.
LEMMA TaskAlive ==
    ASSUME IInv, Alone, NEW a \in Readers \cup Writers, TaskNext(a)
    PROVE  pc[a] \notin Dead /\ a \in {ReaderNow, WriterNow}
  <1>1. pc[a] \notin Dead
    <2>1. CASE ~CloseNext(a)
      BY <2>1, LoopSteps DEF LoopStep, LoopPlaces, Dead
    <2>2. CASE CloseNext(a)
      BY <2>2 DEF CloseNext, CloseWaits, CloseNothing, CloseStarts, CancelRead,
         ReadAwaited, CancelWrite, WriteAwaited, AwaitRaises, CleanupCloses, CloseEnds,
         CloseInterrupted, Entered, Running, Resumed, Interrupted, Dead
    <2>3. QED
      BY <2>1, <2>2
  <1>2. PICK k \in Tries : a = Reader(k) \/ a = Writer(k)
    BY DEF Readers, Writers
  <1>3. k = tries
    BY <1>1, <1>2 DEF Alone
  <1>4. QED
    BY <1>1, <1>2, <1>3 DEF ReaderNow, WriterNow
LEMMA TaskPhase ==
    ASSUME IInv, Turns, UInv, NEW a \in Readers \cup Writers, TaskNext(a)
    PROVE  UInv'
  <1> USE DEF fields, net, count
  <1>1. overlap' = overlap
    <2>1. CASE ~CloseNext(a)
      BY <2>1, LoopSteps DEF LoopStep
    <2>2. CASE CloseNext(a)
      BY <2>2 DEF CloseNext, CloseWaits, CloseNothing, CloseStarts, CancelRead,
         ReadAwaited, CancelWrite, WriteAwaited, AwaitRaises, CleanupCloses, CloseEnds,
         CloseInterrupted
    <2>3. QED
      BY <2>1, <2>2
  <1> SUFFICES ASSUME ~overlap PROVE Alone' /\ Phases'
    BY <1>1 DEF UInv
  <1>2. Alone /\ Phases /\ pc[a] \notin Dead /\ a \in {ReaderNow, WriterNow}
    BY TaskAlive DEF UInv
  <1>3. ~Quiet
    BY <1>2 DEF Quiet, Readers, Writers
  <1>4. CASE Open
    <2>1. Alone' /\ (Open' \/ Closing')
      BY <1>2, <1>4, LoopSteps, LoopOpenPhase, TaskOpenPhase
    <2>2. QED
      BY <2>1 DEF Phases
  <1>5. CASE Closing
    <2>1. Alone' /\ (Closing' \/ Closed')
      BY <1>2, <1>5, LoopSteps, LoopClosingPhase, TaskClosingPhase
    <2>2. QED
      BY <2>1 DEF Phases
  <1>6. QED
    BY <1>2, <1>3, <1>4, <1>5 DEF Phases, Connecting, Closed

LEMMA AppPhase ==
    ASSUME IInv, Turns, UInv, CloseCall \/ CloseNext(App)
    PROVE  UInv'
  <1> USE DEF fields, net, count
  <1>1. overlap' = overlap
    BY DEF CloseCall, CloseNext, CloseWaits, CloseNothing, CloseStarts, CancelRead,
       ReadAwaited, CancelWrite, WriteAwaited, AwaitRaises, CleanupCloses, CloseEnds,
       CloseInterrupted
  <1> SUFFICES ASSUME ~overlap PROVE Alone' /\ Phases'
    BY <1>1 DEF UInv
  <1>2. Alone /\ Phases
    BY DEF UInv
  <1>3. CASE CloseCall
    BY <1>2, <1>3, AppCallPhase
  <1>4. CASE CloseNext(App)
    <2>1. pc[App] \notin ConnectPlaces
      BY <1>4 DEF CloseNext, CloseWaits, CloseNothing, CloseStarts, CancelRead,
         ReadAwaited, CancelWrite, WriteAwaited, AwaitRaises, CleanupCloses, CloseEnds,
         CloseInterrupted, Entered, Running, Resumed, Interrupted, ConnectPlaces
    <2>2. ~Connecting
      BY <2>1 DEF Turns, Connecting
    <2>3. QED
      BY <1>2, <1>4, <2>2, AppOpenPhase, AppClosingPhase, AppClosedPhase DEF Phases
  <1>5. QED
    BY <1>3, <1>4

LEMMA PhaseInit == Init => UInv
  <1> SUFFICES ASSUME Init PROVE Alone /\ Closed
    BY DEF UInv, Phases
  <1>1. \A k \in Tries : /\ Reader(k) \in Actors /\ Writer(k) \in Actors
                         /\ pc[Reader(k)] = "off" /\ pc[Writer(k)] = "off"
    BY Names DEF Init
  <1>2. Alone
    BY <1>1, Names DEF Init, Alone, Dead
  <1>3. QED
    BY <1>1, <1>2, Names DEF Init, Closed, Quiet, Dead

LEMMA PhaseStep == IInv /\ Turns /\ UInv /\ [Next]_vars => UInv'
  <1> SUFFICES ASSUME IInv, Turns, UInv, [Next]_vars PROVE UInv'
    OBVIOUS
  <1>1. CASE UNCHANGED vars \/ Enqueue \/ \E k \in Tries : LinkEnds(k)
    <2>1. UNCHANGED <<fields, pc, on, cancelled, tries, overlap>>
      BY <1>1 DEF vars, count, Enqueue, LinkEnds
    <2>2. UNCHANGED <<ReaderNow, WriterNow>> /\ (Quiet <=> Quiet') /\ (Alone <=> Alone')
          /\ (InOrderOfClose <=> InOrderOfClose')
      BY <2>1 DEF ReaderNow, WriterNow, Quiet, Alone, InOrderOfClose
    <2>3. /\ Connecting <=> Connecting'
          /\ Open <=> Open'
          /\ Closing <=> Closing'
          /\ Closed <=> Closed'
      BY <2>1, <2>2 DEF fields, Connecting, Open, Closing, Closed, Serving
    <2>4. QED
      BY <2>1, <2>2, <2>3 DEF UInv, Phases
  <1>2. QED
    BY <1>1, ConnectCallPhase, ConnectPhase, AppPhase, TaskPhase DEF Next, AppNext

\* The phases of a client, where no connect overlapped with earlier tasks.
THEOREM PhaseInvariance == Spec => [](Turns /\ UInv)
  BY TurnsInit, TurnsStep, PhaseInit, PhaseStep, PyInvariance, PTL DEF Spec

\* A client that says it is connected has its connection, its queue and both
\* of its tasks, in the histories in which no connect overlapped.
THEOREM ConnectedIsUsable == Spec => []ConnectedUsable
  <1>1. IInv /\ Turns /\ UInv => ConnectedUsable
    <2> SUFFICES ASSUME IInv, Turns, UInv, connected, ~overlap
                 PROVE  /\ ws # 0 /\ writeQueue = ws /\ readTask = ws
                        /\ writeTask = ws /\ ~closing
                        /\ pc[Reader(ws)] # "done" /\ pc[Writer(ws)] # "done"
      BY DEF ConnectedUsable
    <2>1. Open
      BY WhichPhase DEF UInv
    <2>2. QED
      BY <2>1 DEF Open, Serving, LoopPlaces, ReaderNow, WriterNow
  <1>2. QED
    BY <1>1, PyInvariance, PhaseInvariance, PTL

LEMMA WhoReturns ==
    ASSUME IInv, [Next]_vars, CloseReturned, ~overlap
    PROVE  CloseNothing(App) \/ CloseEnds(App)
  <1> USE DEF fields, net, count
  <1>1. pc \in [Actors -> ClosePlaces \cup TaskPlaces \cup AppPlaces]
        /\ pc[App] \in ClosePlaces /\ pc'[App] = "idle" /\ "idle" \notin ClosePlaces
    BY DEF IInv, ControlTypes, CloseReturned, ClosePlaces
  <1>2. ~ (UNCHANGED vars \/ Enqueue \/ \E k \in Tries : LinkEnds(k))
    BY <1>1 DEF vars, Enqueue, LinkEnds
  <1>3. ~ (ConnectCall \/ CloseCall \/ ConnectNext)
    BY <1>1 DEF ConnectCall, CloseCall, ConnectNext, DialFails, HelloFails,
       UndoCloses, Dials, ConnectFails, Connects, Resumed, Running, ClosePlaces
  <1>4. ASSUME NEW a \in Readers \cup Writers, TaskNext(a) PROVE FALSE
    <2>1. \E p : pc' = [pc EXCEPT ![a] = p]
      <3>1. CASE ~CloseNext(a)
        BY <1>4, <3>1, LoopSteps DEF LoopStep
      <3>2. CASE CloseNext(a)
        BY <3>2 DEF CloseNext, CloseWaits, CloseNothing, CloseStarts, CancelRead,
           ReadAwaited, CancelWrite, WriteAwaited, AwaitRaises, CleanupCloses, CloseEnds,
           CloseInterrupted, GoOn, Await, Return
      <3>3. QED
        BY <3>1, <3>2
    <2>2. a # App
      BY Names
    <2>3. QED
      BY <1>1, <2>1, <2>2, Names
  <1>5. CloseNext(App)
    BY <1>2, <1>3, <1>4 DEF Next, AppNext
  <1>6. QED
    BY <1>1, <1>5, Names DEF CloseNext, CloseWaits, CloseStarts, CancelRead,
       ReadAwaited, CancelWrite, WriteAwaited, AwaitRaises, CleanupCloses,
       CloseInterrupted, GoOn, Await

\* When close returns to the application, nothing of the connection is left,
\* also when one of the tasks was closing the client at the same time.
THEOREM CloseLeavesNothingBehind == Spec => CloseLeavesNothing
  <1>1. IInv /\ Turns /\ UInv /\ [Next]_vars =>
            (CloseReturned /\ ~overlap =>
                /\ ~connected' /\ ~closing' /\ ws' = 0 /\ writeQueue' = 0
                /\ ~TasksLeft')
    <2> SUFFICES ASSUME IInv, Turns, UInv, [Next]_vars, CloseReturned, ~overlap
                 PROVE  /\ ~connected' /\ ~closing' /\ ws' = 0
                        /\ writeQueue' = 0 /\ ~TasksLeft'
      OBVIOUS
    <2>1. /\ Alone /\ Phases /\ CloseNext(App)
          /\ CloseNothing(App) \/ CloseEnds(App)
      BY WhoReturns DEF UInv, CloseNext
    <2>2. ~Connecting
      BY <2>1 DEF Turns, Connecting, ConnectPlaces, CloseNothing, CloseEnds,
                  Entered, Running, Resumed
    <2>3. CASE CloseNothing(App)
      <3>1. ws = 0 /\ ~connected
        BY <2>3 DEF CloseNothing
      <3>2. Closed
        BY <2>1, <2>2, <3>1 DEF Phases, Open, Closing, Serving
      <3>3. Closed'
        BY <2>1, <3>2, AppClosedPhase
      <3>4. QED
        BY <3>3 DEF Closed, Quiet, TasksLeft, Dead, Readers, Writers
    <2>4. CASE CloseEnds(App)
      <3>1. ~Open
        BY <2>4 DEF Open, CloseEnds, Running, Resumed
      <3>2. Closed'
        BY <2>1, <2>2, <2>4, <3>1, AppClosedPhase, AppClosingPhase DEF Phases
      <3>3. QED
        BY <3>2 DEF Closed, Quiet, TasksLeft, Dead, Readers, Writers
    <2>5. QED
      BY <2>1, <2>3, <2>4
  <1>2. QED
    BY <1>1, PyInvariance, PhaseInvariance, PTL DEF Spec, CloseLeavesNothing
=============================================================================
