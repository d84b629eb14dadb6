--------------------------- MODULE GoClientProofs ---------------------------
(***************************************************************************)
(* Proofs about GoClient, for any number of callers, rooms, connections    *)
(* and requests and any capacity: its types, the safety properties         *)
(* ReadyMeansHello, WriterAlive, BufferDrained and StaysGivenUp, that it   *)
(* implements Outbox, and, where nothing reconnects, InOrder and           *)
(* RoomsAgree.                                                             *)
(***************************************************************************)
EXTENDS GoClientProps, TallyProofs

\* Connect and the reader exclude one another: the goroutines are started by
\* the last step of the one Connect that succeeds.
PhaseInv ==
    /\ mpc \in {"dial", "hello", "up"} => ~started
    /\ mpc \in {"set", "spawn"} => started
    /\ mpc \in {"dial", "hello", "up", "set", "spawn"} => rpc = "off"
    /\ ~started => rpc = "off"
    /\ mpc \in {"hello", "up", "set", "spawn"} \/ started => conn \in Conns
    /\ rpc = "assign" => conn < MaxConns

\* A caller in a call has its frame in hand.
HandInv ==
    \A c \in Callers :
        /\ cpc[c] # "idle" =>
              /\ Len(chand[c]) = 1
              /\ chand[c][1].kind # "msg" => chand[c][1].room \in Rooms
        /\ cpc[c] = "track" => chand[c][1].kind # "msg"

\* The hello is on the current connection from the moment it was written
\* there; before that, neither the flag nor the state say "connected".
Greeted == \E i \in DOMAIN wire[conn] : wire[conn][i] = Hello

HelloInv ==
    /\ (connected \/ state = "connected" \/ rpc \in {"reup", "reset"}
            \/ mpc \in {"up", "set"})
            => conn \in Conns /\ Greeted
    /\ ~started => ~connected /\ state # "connected"
    /\ mpc \in {"dial", "hello", "up", "set"} => state = "connecting"
    /\ rpc \in {"lost", "noauto", "attempt", "giveup", "wait", "redial",
                "assign", "rehello", "retry"} => ~connected
    /\ rpc \in {"noauto", "attempt", "giveup", "wait", "redial", "assign",
                "rehello", "retry"} => state # "connected"

\* A writer never uses a connection older than the one it was started for.
WriterInv ==
    /\ rpc = "off" => \A w \in Conns : wpc[w] = "off"
    /\ \A w \in Conns : wpc[w] # "off" => w <= conn
    /\ \A w \in Conns : wpc[w] = "write" => w <= wconn[w] /\ wconn[w] <= conn
    /\ WriterAlive

BufferInv ==
    /\ ~BufferMessages => messageBuffer = <<>>
    /\ connected /\ rpc \in {"flushing", "respawn"} => messageBuffer = <<>>
    /\ BufferDrained

GivenUpInv ==
    /\ rpc = "giveup" =>
          MaxReconnectTries > 0 /\ reconnectAttempt > MaxReconnectTries
    /\ state = "error" /\ started =>
          /\ mpc \in {"idle", "closeState", "closeConn"}
          /\ \/ rpc = "done"
             \/ /\ rpc \in {"retry", "attempt", "giveup"}
                /\ MaxReconnectTries > 0
                /\ reconnectAttempt > MaxReconnectTries

IInv == /\ TypeOK /\ PhaseInv /\ HandInv /\ HelloInv
        /\ WriterInv /\ BufferInv /\ GivenUpInv

-----------------------------------------------------------------------------
USE DEF vars, session, status, queues, net, app, reader, writers, callers,
        redial, resend

\* The frames the client makes itself are frames.
LEMMA FrameTypes ==
    /\ Hello \in Frame
    /\ \A r \in Rooms : Rejoin(r) \in Frame
PROOF BY BoundsAssumption DEF Hello, Rejoin, Frame

\* Appending a sequence of frames adds up the lengths.
LEMMA Concatenation ==
    ASSUME NEW s \in Seq(Frame), NEW t \in Seq(Frame)
    PROVE  s \o t \in Seq(Frame) /\ Len(s \o t) = Len(s) + Len(t)
PROOF OBVIOUS

\* A call makes a frame, with the room its kind needs.
LEMMA RequestTypes ==
    ASSUME TypeOK, NEW c \in Callers, NEW q \in Requests, calls < MaxCalls
    PROVE  /\ Request(c, q) \in Frame
           /\ Request(c, q).kind = q[1]
           /\ q[1] # "msg" => Request(c, q).room \in Rooms
<1>1. q[1] \in Kinds /\ q[2] \in Rooms \cup {NoRoom}
    BY DEF Requests
<1>2. q[1] # "msg" => q[2] \in Rooms
    BY <1>1 DEF Requests
<1>3. calls + 1 \in 0 .. MaxCalls
    BY BoundsAssumption DEF TypeOK
<1> QED
    BY <1>1, <1>2, <1>3, KindsAssumption DEF Frame, Request

\* A hello can be appended to any connection.
LEMMA HelloAppended ==
    ASSUME wire \in [Conns -> Seq(Frame)], NEW k
    PROVE  [wire EXCEPT ![k] = Append(@, Hello)] \in [Conns -> Seq(Frame)]
<1>1. ASSUME NEW s \in Seq(Frame) PROVE Append(s, Hello) \in Seq(Frame)
    BY FrameTypes
<1> QED
    BY <1>1

\* A writer's step keeps the types if it keeps those of its own variables, of
\* writeCh and of the connections.
LEMMA WriterTypes ==
    ASSUME TypeOK, NEW w \in Conns, NEW pc \in {"off", "select", "load", "write", "done"},
           NEW to, WriterStep(w, to, pc),
           writeCh' \in Seq(Frame), Len(writeCh') <= ChanCap,
           wire' \in [Conns -> Seq(Frame)], whand' \in [Conns -> Seq(Frame)],
           wconn' \in [Conns -> 0 .. MaxConns]
    PROVE  TypeOK'
<1>1. wpc' \in [Conns -> {"off", "select", "load", "write", "done"}]
    BY DEF TypeOK, WriterStep
<1>2. UNCHANGED <<state, connected, started, ctxDone, conn, joinedRooms,
                  reconnectAttempt, messageBuffer, link, mpc, closed, rpc, todo,
                  batch, cpc, chand, calls>>
    BY DEF WriterStep, status, session, app, reader, callers
<1>3. /\ state' \in States /\ connected' \in BOOLEAN
      /\ started' \in BOOLEAN /\ ctxDone' \in BOOLEAN
      /\ conn' \in 0 .. MaxConns /\ joinedRooms' \in SUBSET Rooms
      /\ reconnectAttempt' \in 0 .. MaxAttempt
      /\ closed' \in BOOLEAN /\ calls' \in 0 .. MaxCalls
    BY <1>2 DEF TypeOK
<1>4. /\ messageBuffer' \in Seq(Frame) /\ Len(messageBuffer') <= MaxBufferSize
      /\ todo' \in SUBSET Rooms /\ batch' \in Seq(Frame)
      /\ chand' \in [Callers -> Seq(Frame)]
      /\ cpc' \in [Callers -> {"idle", "push", "track"}]
      /\ link' \in [Conns -> {"unused", "open", "normal", "down"}]
    BY <1>2 DEF TypeOK
<1> QED
    BY <1>1, <1>2, <1>3, <1>4 DEF TypeOK
LEMMA WriterTypeStep ==
    ASSUME TypeOK, NEW w \in Conns, WriterNext(w) PROVE TypeOK'
<1> DEFINE k == wconn[w]
<1>1. /\ writeCh \in Seq(Frame) /\ Len(writeCh) <= ChanCap
      /\ wire \in [Conns -> Seq(Frame)] /\ whand \in [Conns -> Seq(Frame)]
      /\ wconn \in [Conns -> 0 .. MaxConns] /\ conn \in 0 .. MaxConns
      /\ 0 \in 0 .. MaxConns /\ <<>> \in Seq(Frame) /\ ChanCap \in Nat
    BY BoundsAssumption, ConfigAssumption DEF TypeOK
<1>2. CASE WriterTakes(w)
  <2>1. writeCh' \in Seq(Frame) /\ Len(writeCh') <= ChanCap
        /\ <<Head(writeCh)>> \in Seq(Frame)
    BY <1>1, <1>2 DEF WriterTakes
  <2>2. whand' \in [Conns -> Seq(Frame)]
    BY <1>1, <1>2, <2>1 DEF WriterTakes
  <2>3. WriterStep(w, "select", "load") /\ UNCHANGED <<wire, wconn>>
    BY <1>2 DEF WriterTakes
  <2> QED
    BY <1>1, <2>1, <2>2, <2>3, WriterTypes
<1>3. CASE WriterLoads(w)
  <2>1. wconn' \in [Conns -> 0 .. MaxConns]
    BY <1>1, <1>3 DEF WriterLoads
  <2>2. WriterStep(w, "load", "write") /\ UNCHANGED <<writeCh, wire, whand>>
    BY <1>3 DEF WriterLoads
  <2> QED
    BY <1>1, <2>1, <2>2, WriterTypes
<1>4. CASE WriterWrites(w)
  <2>1. wire' = [wire EXCEPT ![k] = wire[k] \o whand[w]]
    BY <1>4 DEF WriterWrites
  <2>2. k \in Conns => wire[k] \o whand[w] \in Seq(Frame)
    BY <1>1, Concatenation
  <2>3. wire' \in [Conns -> Seq(Frame)]
    BY <1>1, <2>1, <2>2
  <2>4. /\ whand' \in [Conns -> Seq(Frame)]
        /\ wconn' \in [Conns -> 0 .. MaxConns]
    BY <1>1, <1>4 DEF WriterWrites
  <2>5. WriterStep(w, "write", "select") /\ UNCHANGED writeCh
    BY <1>4 DEF WriterWrites
  <2> QED
    BY <1>1, <2>3, <2>4, <2>5, WriterTypes
<1>5. CASE WriterFails(w)
  <2>1. /\ whand' \in [Conns -> Seq(Frame)]
        /\ wconn' \in [Conns -> 0 .. MaxConns]
    BY <1>1, <1>5 DEF WriterFails
  <2>2. WriterStep(w, "write", "done") /\ UNCHANGED <<writeCh, wire>>
    BY <1>5 DEF WriterFails
  <2> QED
    BY <1>1, <2>1, <2>2, WriterTypes
<1>6. CASE WriterCancelled(w)
  <2>1. /\ WriterStep(w, "select", "done")
        /\ UNCHANGED <<writeCh, wire, whand, wconn>>
    BY <1>6 DEF WriterCancelled
  <2> QED
    BY <1>1, <2>1, WriterTypes
<1> QED
    BY <1>2, <1>3, <1>4, <1>5, <1>6 DEF WriterNext

\* A step keeps the types, given that frames are in hand where they are used.
LEMMA TypeStep == TypeOK /\ PhaseInv /\ HandInv /\ [Next]_vars => TypeOK'
<1> SUFFICES ASSUME TypeOK, PhaseInv, HandInv, [Next]_vars PROVE TypeOK'
    OBVIOUS
<1> USE BoundsAssumption, ConfigAssumption, FrameTypes
<1> USE DEF TypeOK, States
<1>1. CASE ConnectCall
    BY <1>1 DEF ConnectCall, AppStep, Conns, PhaseInv
<1>2. CASE Close
    BY <1>2 DEF Close, AppStep, Conns, PhaseInv
<1>3. CASE ConnectDialFails
    BY <1>3, SMTT(30) DEF ConnectDialFails, AppStep, Conns, PhaseInv
<1>4. CASE ConnectDials
  <2>1. conn' \in 0 .. MaxConns
    BY <1>4, SMTT(30) DEF ConnectDials
  <2>2. link' \in [Conns -> {"unused", "open", "normal", "down"}]
    BY <1>4, Zenon DEF ConnectDials
  <2> QED
    BY <1>4, <2>1, <2>2, SMTT(30) DEF ConnectDials, AppStep
<1>5. CASE ConnectHello
  <2>1. wire' \in [Conns -> Seq(Frame)]
    BY <1>5, HelloAppended DEF ConnectHello
  <2> QED
    BY <1>5, <2>1 DEF ConnectHello, AppStep
<1>6. CASE ConnectHelloFails
    BY <1>6, SMTT(30) DEF ConnectHelloFails, AppStep, Conns, PhaseInv
<1>7. CASE ConnectUp
    BY <1>7, SMTT(30) DEF ConnectUp, AppStep, Conns, PhaseInv
<1>8. CASE ConnectSetState
    BY <1>8, SMTT(30) DEF ConnectSetState, AppStep, Conns, PhaseInv
<1>9. CASE ConnectSpawn
    BY <1>9, SMTT(30) DEF ConnectSpawn, AppStep, Conns, PhaseInv
<1>10. CASE CloseSetState
    BY <1>10, SMTT(30) DEF CloseSetState, AppStep, Conns, PhaseInv
<1>11. CASE CloseConn
    BY <1>11, SMTT(30) DEF CloseConn, AppStep, Conns, PhaseInv
<1>12. CASE ReadStops
    BY <1>12, SMTT(30) DEF ReadStops, ReaderStep, Conns, PhaseInv, AfterRejoin
<1>13. CASE ReadLost
    BY <1>13 DEF ReadLost, ReaderStep, Conns, PhaseInv, AfterRejoin
<1>14. CASE LostSetState
    BY <1>14, SMTT(30) DEF LostSetState, ReaderStep, Conns, PhaseInv, AfterRejoin
<1>15. CASE NoAutoReconnect
    BY <1>15, SMTT(30) DEF NoAutoReconnect, ReaderStep, Conns, PhaseInv, AfterRejoin
<1>16. CASE ReconnectAttempt
    BY <1>16, SMTT(30) DEF ReconnectAttempt, ReaderStep, Conns, PhaseInv, AfterRejoin
<1>17. CASE GiveUp
    BY <1>17, SMTT(30) DEF GiveUp, ReaderStep, Conns, PhaseInv, AfterRejoin
<1>18. CASE WaitElapses
    BY <1>18, SMTT(30) DEF WaitElapses, ReaderStep, Conns, PhaseInv, AfterRejoin
<1>19. CASE ReaderCancelled
    BY <1>19, SMTT(30) DEF ReaderCancelled, ReaderStep, Conns, PhaseInv, AfterRejoin
<1>20. CASE Retry
    BY <1>20, SMTT(30) DEF Retry, ReaderStep, Conns, PhaseInv, AfterRejoin
<1>21. CASE RedialFails
    BY <1>21, SMTT(30) DEF RedialFails, ReaderStep, Conns, PhaseInv, AfterRejoin
<1>22. CASE Redials
  <2>1. link' \in [Conns -> {"unused", "open", "normal", "down"}]
    BY <1>22, Zenon DEF Redials
  <2> QED
    BY <1>22, <2>1, SMTT(30) DEF Redials, ReaderStep
<1>23. CASE AssignConn
    BY <1>23, SMTT(30) DEF AssignConn, ReaderStep, Conns, PhaseInv, AfterRejoin
<1>24. CASE Rehello
  <2>1. wire' \in [Conns -> Seq(Frame)]
    BY <1>24, HelloAppended DEF Rehello
  <2> QED
    BY <1>24, <2>1 DEF Rehello, ReaderStep
<1>25. CASE RehelloFails
    BY <1>25, SMTT(30) DEF RehelloFails, ReaderStep, Conns, PhaseInv, AfterRejoin
<1>26. CASE ReconnectUp
    BY <1>26, SMTT(30) DEF ReconnectUp, ReaderStep, Conns, PhaseInv, AfterRejoin
<1>27. CASE ReconnectSetState
    BY <1>27, SMTT(30) DEF ReconnectSetState, ReaderStep, Conns, PhaseInv, AfterRejoin
<1>28. CASE RejoinSnapshot
    BY <1>28, SMTT(30) DEF RejoinSnapshot, ReaderStep, Conns, PhaseInv, AfterRejoin
<1>29. CASE RejoinDone
    BY <1>29, SMTT(30) DEF RejoinDone, ReaderStep, Conns, PhaseInv, AfterRejoin
<1>30. CASE RejoinSend
    BY <1>30, SMTT(30) DEF RejoinSend, ReaderStep, Conns, PhaseInv, AfterRejoin
<1>31. CASE RejoinFails
  <2>1. rpc' \in {"flush", "respawn"} /\ todo' = {}
    BY <1>31, SMTT(30) DEF RejoinFails, ReaderStep, AfterRejoin
  <2>2. UNCHANGED <<state, redial, queues, batch, session, joinedRooms, app,
                    whand, wconn, callers>>
    BY <1>31, SMTT(30) DEF RejoinFails, ReaderStep
  <2> QED
    BY <2>1, <2>2, SMTT(30)
<1>32. CASE FlushTake
    BY <1>32, SMTT(30) DEF FlushTake, ReaderStep, Conns, PhaseInv, AfterRejoin
<1>33. CASE FlushPush
    BY <1>33, SMTT(30) DEF FlushPush, ReaderStep, Conns, PhaseInv, AfterRejoin
<1>34. CASE FlushEnds
  <2>1. batch' \in Seq(Frame)
    BY <1>34 DEF FlushEnds
  <2> QED
    BY <1>34, <2>1 DEF FlushEnds, ReaderStep
<1>35. CASE Respawn
    BY <1>35, SMTT(30) DEF Respawn, ReaderStep, Conns, PhaseInv, AfterRejoin
<1>36. ASSUME NEW r \in Rooms, RejoinBuffers(r) PROVE TypeOK'
    BY <1>36, SMTT(30) DEF RejoinBuffers, ReaderStep
<1>37. ASSUME NEW r \in Rooms, RejoinPush(r) PROVE TypeOK'
    BY <1>37, SMTT(30) DEF RejoinPush, ReaderStep
<1>38. ASSUME NEW w \in Conns, WriterNext(w) PROVE TypeOK'
    BY <1>38, WriterTypeStep
<1>39. ASSUME NEW c \in Callers, NEW q \in Requests, CallConnected(c, q)
     PROVE  TypeOK'
    BY <1>39, RequestTypes, SMTT(30)
    DEF CallConnected, CallerStep, Calls, AfterSend
<1>40. ASSUME NEW c \in Callers, NEW q \in Requests, CallBuffers(c, q)
     PROVE  TypeOK'
    BY <1>40, RequestTypes, SMTT(30)
    DEF CallBuffers, CallerStep, Calls, AfterSend
<1>41. ASSUME NEW c \in Callers, CallRefused(c) PROVE TypeOK'
    BY <1>41, SMTT(30) DEF CallRefused, CallerStep, Calls, AfterSend, HandInv
<1>42. ASSUME NEW c \in Callers, Push(c) PROVE TypeOK'
  <2>1. chand[c] \in Seq(Frame) /\ Len(chand[c]) = 1
    BY <1>42 DEF Push, CallerStep, HandInv
  <2>2. writeCh' = writeCh \o chand[c] /\ Len(writeCh) < ChanCap
    BY <1>42 DEF Push
  <2>3. /\ writeCh \o chand[c] \in Seq(Frame)
        /\ Len(writeCh \o chand[c]) = Len(writeCh) + Len(chand[c])
    BY <2>1, Concatenation
  <2>4. writeCh' \in Seq(Frame) /\ Len(writeCh') <= ChanCap
    BY <2>1, <2>2, <2>3
  <2> QED
    BY <1>42, <2>4, SMTT(30) DEF Push, CallerStep, AfterSend
<1>43. ASSUME NEW c \in Callers, PushCancelled(c) PROVE TypeOK'
    BY <1>43, SMTT(30) DEF PushCancelled, CallerStep, Calls, AfterSend, HandInv
<1>44. ASSUME NEW c \in Callers, Track(c) PROVE TypeOK'
    BY <1>44, SMTT(30) DEF Track, CallerStep, Calls, AfterSend, HandInv
<1>45. ASSUME NEW c \in Conns, LinkDrops(c) \/ ServerCloses(c) PROVE TypeOK'
  <2>1. PICK how \in {"normal", "down"} : LinkChanges(c, how)
    BY <1>45 DEF LinkDrops, ServerCloses
  <2> QED
    BY <2>1 DEF LinkChanges
<1>46. CASE UNCHANGED vars
    BY <1>46
<1> QED
    BY <1>1, <1>2, <1>3, <1>4, <1>5, <1>6, <1>7, <1>8, <1>9, <1>10, <1>11,
       <1>12, <1>13, <1>14, <1>15, <1>16, <1>17, <1>18, <1>19, <1>20, <1>21,
       <1>22, <1>23, <1>24, <1>25, <1>26, <1>27, <1>28, <1>29, <1>30, <1>31,
       <1>32, <1>33, <1>34, <1>35, <1>36, <1>37, <1>38, <1>39, <1>40, <1>41,
       <1>42, <1>43, <1>44, <1>45, <1>46
    DEF Next, ConnectNext, CloseNext, ReaderNext, CallerNext

-----------------------------------------------------------------------------
(* What the steps of each goroutine leave alone.                           *)

AppNext == ConnectCall \/ Close \/ ConnectNext \/ CloseNext

LinkNext == \E c \in Conns : LinkDrops(c) \/ ServerCloses(c)

\* Connect and Close touch neither the queues nor the callers.
LEMMA AppLeaves ==
    AppNext => UNCHANGED <<joinedRooms, messageBuffer, writeCh, todo, batch,
                           whand, wconn, cpc, chand, calls>>
PROOF BY DEF AppNext, ConnectNext, CloseNext, AppStep,
             ConnectCall, ConnectDialFails, ConnectDials, ConnectHello,
             ConnectHelloFails, ConnectUp, ConnectSetState, ConnectSpawn,
             Close, CloseSetState, CloseConn

\* The reader touches neither the tracked rooms nor the callers and writers.
LEMMA ReaderLeaves ==
    ReaderNext => UNCHANGED <<started, ctxDone, joinedRooms, mpc, closed,
                              whand, wconn, cpc, chand, calls>>
PROOF BY DEF ReaderNext, ReaderStep,
             ReadStops, ReadLost, LostSetState, NoAutoReconnect,
             ReconnectAttempt, GiveUp, WaitElapses, ReaderCancelled, Retry,
             RedialFails, Redials, AssignConn, Rehello, RehelloFails,
             ReconnectUp, ReconnectSetState, RejoinSnapshot, RejoinDone,
             RejoinSend, RejoinFails, FlushTake, FlushPush, FlushEnds,
             Respawn, RejoinBuffers, RejoinPush

\* A writer changes its own place, writeCh and the wire, and never starts.
LEMMA WriterLeaves ==
    ASSUME NEW w \in Conns, WriterNext(w)
    PROVE  /\ UNCHANGED <<state, connected, started, ctxDone, conn,
                  joinedRooms, reconnectAttempt, messageBuffer, link, mpc,
                  closed, rpc, todo, batch, cpc, chand, calls>>
           /\ wpc[w] # "off"
           /\ \E pc \in {"select", "load", "write", "done"} :
                wpc' = [wpc EXCEPT ![w] = pc]
PROOF BY DEF WriterNext, WriterStep, WriterTakes, WriterLoads, WriterWrites,
             WriterFails, WriterCancelled

\* Join, Leave and Send touch neither the connection nor the goroutines.
LEMMA CallerLeaves ==
    ASSUME NEW c \in Callers, CallerNext(c)
    PROVE  UNCHANGED <<state, connected, started, ctxDone, conn,
               reconnectAttempt, link, wire, mpc, closed, rpc, todo, batch,
               wpc, whand, wconn>>
PROOF BY DEF CallerNext, CallerStep, CallConnected, CallBuffers, CallRefused,
             Push, PushCancelled, Track

\* The network changes nothing but the state of a connection.
LEMMA LinkLeaves ==
    LinkNext => UNCHANGED <<state, connected, started, ctxDone, conn,
                    joinedRooms, reconnectAttempt, messageBuffer, writeCh,
                    wire, mpc, closed, rpc, todo, batch, wpc, whand, wconn,
                    cpc, chand, calls>>
PROOF BY DEF LinkNext, LinkDrops, ServerCloses, LinkChanges

-----------------------------------------------------------------------------
(* Each part of the invariant is preserved.                                *)

\* Connect and the reader go on excluding one another.
LEMMA PhaseStep == TypeOK /\ PhaseInv /\ [Next]_vars => PhaseInv'
<1> SUFFICES ASSUME TypeOK, PhaseInv, [Next]_vars PROVE PhaseInv'
    OBVIOUS
<1> USE BoundsAssumption
<1>1. CASE ConnectCall
    BY <1>1 DEF ConnectCall, AppStep, PhaseInv, TypeOK, Conns
<1>2. CASE ConnectDialFails
    BY <1>2 DEF ConnectDialFails, AppStep, PhaseInv, TypeOK, Conns
<1>3. CASE ConnectDials
    BY <1>3 DEF ConnectDials, AppStep, PhaseInv, TypeOK, Conns
<1>4. CASE ConnectHello
    BY <1>4 DEF ConnectHello, AppStep, PhaseInv, TypeOK, Conns
<1>5. CASE ConnectHelloFails
    BY <1>5 DEF ConnectHelloFails, AppStep, PhaseInv, TypeOK, Conns
<1>6. CASE ConnectUp
    BY <1>6 DEF ConnectUp, AppStep, PhaseInv, TypeOK, Conns
<1>7. CASE ConnectSetState
    BY <1>7 DEF ConnectSetState, AppStep, PhaseInv, TypeOK, Conns
<1>8. CASE ConnectSpawn
    BY <1>8 DEF ConnectSpawn, AppStep, PhaseInv, TypeOK, Conns
<1>9. CASE Close
    BY <1>9 DEF Close, AppStep, PhaseInv, TypeOK, Conns
<1>10. CASE CloseSetState
    BY <1>10 DEF CloseSetState, AppStep, PhaseInv, TypeOK, Conns
<1>11. CASE CloseConn
    BY <1>11 DEF CloseConn, AppStep, PhaseInv, TypeOK, Conns
<1>12. CASE ReadStops
    BY <1>12 DEF ReadStops, ReaderStep, PhaseInv, TypeOK, Conns, AfterRejoin
<1>13. CASE ReadLost
    BY <1>13 DEF ReadLost, ReaderStep, PhaseInv, TypeOK, Conns, AfterRejoin
<1>14. CASE LostSetState
    BY <1>14 DEF LostSetState, ReaderStep, PhaseInv, TypeOK, Conns, AfterRejoin
<1>15. CASE NoAutoReconnect
    BY <1>15
    DEF NoAutoReconnect, ReaderStep, PhaseInv, TypeOK, Conns, AfterRejoin
<1>16. CASE ReconnectAttempt
    BY <1>16
    DEF ReconnectAttempt, ReaderStep, PhaseInv, TypeOK, Conns, AfterRejoin
<1>17. CASE GiveUp
    BY <1>17 DEF GiveUp, ReaderStep, PhaseInv, TypeOK, Conns, AfterRejoin
<1>18. CASE WaitElapses
    BY <1>18 DEF WaitElapses, ReaderStep, PhaseInv, TypeOK, Conns, AfterRejoin
<1>19. CASE ReaderCancelled
    BY <1>19
    DEF ReaderCancelled, ReaderStep, PhaseInv, TypeOK, Conns, AfterRejoin
<1>20. CASE Retry
    BY <1>20 DEF Retry, ReaderStep, PhaseInv, TypeOK, Conns, AfterRejoin
<1>21. CASE RedialFails
    BY <1>21 DEF RedialFails, ReaderStep, PhaseInv, TypeOK, Conns, AfterRejoin
<1>22. CASE Redials
    BY <1>22 DEF Redials, ReaderStep, PhaseInv, TypeOK, Conns, AfterRejoin
<1>23. CASE AssignConn
    BY <1>23 DEF AssignConn, ReaderStep, PhaseInv, TypeOK, Conns, AfterRejoin
<1>24. CASE Rehello
    BY <1>24 DEF Rehello, ReaderStep, PhaseInv, TypeOK, Conns, AfterRejoin
<1>25. CASE RehelloFails
    BY <1>25 DEF RehelloFails, ReaderStep, PhaseInv, TypeOK, Conns, AfterRejoin
<1>26. CASE ReconnectUp
    BY <1>26 DEF ReconnectUp, ReaderStep, PhaseInv, TypeOK, Conns, AfterRejoin
<1>27. CASE ReconnectSetState
    BY <1>27
    DEF ReconnectSetState, ReaderStep, PhaseInv, TypeOK, Conns, AfterRejoin
<1>28. CASE RejoinSnapshot
    BY <1>28
    DEF RejoinSnapshot, ReaderStep, PhaseInv, TypeOK, Conns, AfterRejoin
<1>29. CASE RejoinDone
    BY <1>29 DEF RejoinDone, ReaderStep, PhaseInv, TypeOK, Conns, AfterRejoin
<1>30. CASE RejoinSend
    BY <1>30 DEF RejoinSend, ReaderStep, PhaseInv, TypeOK, Conns, AfterRejoin
<1>31. CASE RejoinFails
    BY <1>31 DEF RejoinFails, ReaderStep, PhaseInv, TypeOK, Conns, AfterRejoin
<1>32. CASE FlushTake
    BY <1>32 DEF FlushTake, ReaderStep, PhaseInv, TypeOK, Conns, AfterRejoin
<1>33. CASE FlushPush
    BY <1>33 DEF FlushPush, ReaderStep, PhaseInv, TypeOK, Conns, AfterRejoin
<1>34. CASE FlushEnds
    BY <1>34 DEF FlushEnds, ReaderStep, PhaseInv, TypeOK, Conns, AfterRejoin
<1>35. CASE Respawn
    BY <1>35 DEF Respawn, ReaderStep, PhaseInv, TypeOK, Conns, AfterRejoin
<1>36. ASSUME NEW r \in Rooms, RejoinBuffers(r) PROVE PhaseInv'
    BY <1>36
    DEF RejoinBuffers, ReaderStep, PhaseInv, TypeOK, Conns, AfterRejoin
<1>37. ASSUME NEW r \in Rooms, RejoinPush(r) PROVE PhaseInv'
    BY <1>37 DEF RejoinPush, ReaderStep, PhaseInv, TypeOK, Conns, AfterRejoin
<1>38. ASSUME NEW w \in Conns, WriterNext(w) PROVE PhaseInv'
    BY <1>38, WriterLeaves DEF PhaseInv
<1>39. ASSUME NEW c \in Callers, CallerNext(c) PROVE PhaseInv'
    BY <1>39, CallerLeaves DEF PhaseInv
<1>40. CASE LinkNext
    BY <1>40, LinkLeaves DEF PhaseInv
<1>41. CASE UNCHANGED vars
    BY <1>41 DEF PhaseInv
<1> QED
    BY <1>1, <1>2, <1>3, <1>4, <1>5, <1>6, <1>7, <1>8, <1>9, <1>10, <1>11,
       <1>12, <1>13, <1>14, <1>15, <1>16, <1>17, <1>18, <1>19, <1>20, <1>21,
       <1>22, <1>23, <1>24, <1>25, <1>26, <1>27, <1>28, <1>29, <1>30, <1>31,
       <1>32, <1>33, <1>34, <1>35, <1>36, <1>37, <1>38, <1>39, <1>40, <1>41
    DEF Next, LinkNext, ConnectNext, CloseNext, ReaderNext

\* Callers keep the frame of the call they are in.
LEMMA HandStep == TypeOK /\ HandInv /\ [Next]_vars => HandInv'
<1> SUFFICES ASSUME TypeOK, HandInv, [Next]_vars PROVE HandInv'
    OBVIOUS
<1>1. CASE AppNext
    BY <1>1, AppLeaves DEF HandInv
<1>2. CASE ReaderNext
    BY <1>2, ReaderLeaves DEF HandInv
<1>3. ASSUME NEW w \in Conns, WriterNext(w) PROVE HandInv'
    BY <1>3, WriterLeaves DEF HandInv
<1>4. CASE LinkNext
    BY <1>4, LinkLeaves DEF HandInv
<1>5. ASSUME NEW c \in Callers, NEW q \in Requests, CallConnected(c, q)
     PROVE  HandInv'
    BY <1>5, RequestTypes DEF CallConnected, CallerStep, Calls, HandInv, TypeOK
<1>6. ASSUME NEW c \in Callers, NEW q \in Requests, CallBuffers(c, q)
     PROVE  HandInv'
    BY <1>6, RequestTypes
    DEF CallBuffers, CallerStep, Calls, AfterSend, HandInv, TypeOK
<1>7. ASSUME NEW c \in Callers, CallRefused(c) PROVE HandInv'
    BY <1>7 DEF CallRefused, CallerStep, HandInv, TypeOK
<1>8. ASSUME NEW c \in Callers, Push(c) PROVE HandInv'
    BY <1>8 DEF Push, CallerStep, AfterSend, HandInv, TypeOK
<1>9. ASSUME NEW c \in Callers, PushCancelled(c) PROVE HandInv'
    BY <1>9 DEF PushCancelled, CallerStep, HandInv, TypeOK
<1>10. ASSUME NEW c \in Callers, Track(c) PROVE HandInv'
    BY <1>10 DEF Track, CallerStep, HandInv, TypeOK
<1>11. CASE UNCHANGED vars
    BY <1>11 DEF HandInv
<1> QED
    BY <1>1, <1>2, <1>3, <1>4, <1>5, <1>6, <1>7, <1>8, <1>9, <1>10, <1>11
    DEF Next, AppNext, LinkNext, CallerNext, WriterNext

\* Writing the hello greets the server on the current connection.
LEMMA GreetedNow ==
    ASSUME TypeOK, conn \in Conns, conn' = conn,
           wire' = [wire EXCEPT ![conn] = Append(@, Hello)]
    PROVE  Greeted'
<1> DEFINE n == Len(wire[conn]) + 1
<1>1. wire[conn] \in Seq(Frame)
    BY DEF TypeOK
<1>2. wire'[conn] = Append(wire[conn], Hello)
    BY DEF TypeOK
<1>3. n \in DOMAIN wire'[conn] /\ wire'[conn][n] = Hello
    BY <1>1, <1>2, FrameTypes
<1> QED
    BY <1>3 DEF Greeted

\* Further frames do not undo the hello.
LEMMA GreetedStays ==
    ASSUME TypeOK, Greeted, conn \in Conns, conn' = conn,
           NEW k, NEW t \in Seq(Frame), wire' = [wire EXCEPT ![k] = @ \o t]
    PROVE  Greeted'
<1>1. PICK i \in DOMAIN wire[conn] : wire[conn][i] = Hello
    BY DEF Greeted
<1>2. wire[conn] \in Seq(Frame)
    BY DEF TypeOK
<1>3. wire'[conn] \in {wire[conn], wire[conn] \o t}
    BY DEF TypeOK
<1>4. i \in DOMAIN wire'[conn] /\ wire'[conn][i] = Hello
    BY <1>1, <1>2, <1>3
<1> QED
    BY <1>4 DEF Greeted

\* No step says "connected" before the hello was written.
LEMMA HelloStep == TypeOK /\ PhaseInv /\ HelloInv /\ [Next]_vars => HelloInv'
<1> SUFFICES ASSUME TypeOK, PhaseInv, HelloInv, [Next]_vars PROVE HelloInv'
    OBVIOUS
<1>0. UNCHANGED <<conn, wire>> => (Greeted' <=> Greeted)
    BY DEF Greeted
<1>1. CASE ConnectCall
    BY <1>1, <1>0 DEF ConnectCall, AppStep, HelloInv, PhaseInv, TypeOK
<1>2. CASE ConnectDialFails
    BY <1>2, <1>0 DEF ConnectDialFails, AppStep, HelloInv, PhaseInv, TypeOK
<1>3. CASE ConnectDials
    BY <1>3, <1>0 DEF ConnectDials, AppStep, HelloInv, PhaseInv, TypeOK
<1>4. CASE ConnectHello
    BY <1>4, GreetedNow DEF ConnectHello, AppStep, HelloInv, PhaseInv, TypeOK
<1>5. CASE ConnectHelloFails
    BY <1>5, <1>0 DEF ConnectHelloFails, AppStep, HelloInv, PhaseInv, TypeOK
<1>6. CASE ConnectUp
    BY <1>6, <1>0 DEF ConnectUp, AppStep, HelloInv, PhaseInv, TypeOK
<1>7. CASE ConnectSetState
    BY <1>7, <1>0 DEF ConnectSetState, AppStep, HelloInv, PhaseInv, TypeOK
<1>8. CASE ConnectSpawn
    BY <1>8, <1>0 DEF ConnectSpawn, AppStep, HelloInv, PhaseInv, TypeOK
<1>9. CASE Close
    BY <1>9, <1>0 DEF Close, AppStep, HelloInv, PhaseInv, TypeOK
<1>10. CASE CloseSetState
    BY <1>10, <1>0 DEF CloseSetState, AppStep, HelloInv, PhaseInv, TypeOK
<1>11. CASE CloseConn
    BY <1>11, <1>0 DEF CloseConn, AppStep, HelloInv, PhaseInv, TypeOK
<1>12. CASE ReadStops
    BY <1>12, <1>0
    DEF ReadStops, ReaderStep, HelloInv, PhaseInv, TypeOK, AfterRejoin
<1>13. CASE ReadLost
    BY <1>13, <1>0
    DEF ReadLost, ReaderStep, HelloInv, PhaseInv, TypeOK, AfterRejoin
<1>14. CASE LostSetState
    BY <1>14, <1>0
    DEF LostSetState, ReaderStep, HelloInv, PhaseInv, TypeOK, AfterRejoin
<1>15. CASE NoAutoReconnect
    BY <1>15, <1>0
    DEF NoAutoReconnect, ReaderStep, HelloInv, PhaseInv, TypeOK, AfterRejoin
<1>16. CASE ReconnectAttempt
    BY <1>16, <1>0
    DEF ReconnectAttempt, ReaderStep, HelloInv, PhaseInv, TypeOK, AfterRejoin
<1>17. CASE GiveUp
    BY <1>17, <1>0
    DEF GiveUp, ReaderStep, HelloInv, PhaseInv, TypeOK, AfterRejoin
<1>18. CASE WaitElapses
    BY <1>18, <1>0
    DEF WaitElapses, ReaderStep, HelloInv, PhaseInv, TypeOK, AfterRejoin
<1>19. CASE ReaderCancelled
    BY <1>19, <1>0
    DEF ReaderCancelled, ReaderStep, HelloInv, PhaseInv, TypeOK, AfterRejoin
<1>20. CASE Retry
    BY <1>20, <1>0
    DEF Retry, ReaderStep, HelloInv, PhaseInv, TypeOK, AfterRejoin
<1>21. CASE RedialFails
    BY <1>21, <1>0
    DEF RedialFails, ReaderStep, HelloInv, PhaseInv, TypeOK, AfterRejoin
<1>22. CASE Redials
    BY <1>22, <1>0
    DEF Redials, ReaderStep, HelloInv, PhaseInv, TypeOK, AfterRejoin
<1>23. CASE AssignConn
    BY <1>23, <1>0
    DEF AssignConn, ReaderStep, HelloInv, PhaseInv, TypeOK, AfterRejoin
<1>24. CASE Rehello
    BY <1>24, GreetedNow DEF Rehello, ReaderStep, HelloInv, PhaseInv, TypeOK
<1>25. CASE RehelloFails
    BY <1>25, <1>0
    DEF RehelloFails, ReaderStep, HelloInv, PhaseInv, TypeOK, AfterRejoin
<1>26. CASE ReconnectUp
    BY <1>26, <1>0
    DEF ReconnectUp, ReaderStep, HelloInv, PhaseInv, TypeOK, AfterRejoin
<1>27. CASE ReconnectSetState
    BY <1>27, <1>0
    DEF ReconnectSetState, ReaderStep, HelloInv, PhaseInv, TypeOK, AfterRejoin
<1>28. CASE RejoinSnapshot
    BY <1>28, <1>0
    DEF RejoinSnapshot, ReaderStep, HelloInv, PhaseInv, TypeOK, AfterRejoin
<1>29. CASE RejoinDone
    BY <1>29, <1>0
    DEF RejoinDone, ReaderStep, HelloInv, PhaseInv, TypeOK, AfterRejoin
<1>30. CASE RejoinSend
    BY <1>30, <1>0
    DEF RejoinSend, ReaderStep, HelloInv, PhaseInv, TypeOK, AfterRejoin
<1>31. CASE RejoinFails
    BY <1>31, <1>0
    DEF RejoinFails, ReaderStep, HelloInv, PhaseInv, TypeOK, AfterRejoin
<1>32. CASE FlushTake
    BY <1>32, <1>0
    DEF FlushTake, ReaderStep, HelloInv, PhaseInv, TypeOK, AfterRejoin
<1>33. CASE FlushPush
    BY <1>33, <1>0
    DEF FlushPush, ReaderStep, HelloInv, PhaseInv, TypeOK, AfterRejoin
<1>34. CASE FlushEnds
    BY <1>34, <1>0
    DEF FlushEnds, ReaderStep, HelloInv, PhaseInv, TypeOK, AfterRejoin
<1>35. CASE Respawn
    BY <1>35, <1>0
    DEF Respawn, ReaderStep, HelloInv, PhaseInv, TypeOK, AfterRejoin
<1>36. ASSUME NEW r \in Rooms, RejoinBuffers(r) PROVE HelloInv'
    BY <1>36, <1>0
    DEF RejoinBuffers, ReaderStep, HelloInv, PhaseInv, TypeOK, AfterRejoin
<1>37. ASSUME NEW r \in Rooms, RejoinPush(r) PROVE HelloInv'
    BY <1>37, <1>0
    DEF RejoinPush, ReaderStep, HelloInv, PhaseInv, TypeOK, AfterRejoin
<1>38. ASSUME NEW w \in Conns, WriterNext(w) PROVE HelloInv'
  <2>1. UNCHANGED <<state, connected, started, conn, mpc, rpc>>
    BY <1>38, WriterLeaves
  <2>2. conn \in Conns /\ Greeted => Greeted'
    <3>1. CASE WriterWrites(w)
        BY <3>1, <2>1, GreetedStays DEF WriterWrites, TypeOK
    <3>2. CASE ~WriterWrites(w)
        BY <1>38, <3>2, <2>1, <1>0
        DEF WriterNext, WriterTakes, WriterLoads, WriterFails, WriterCancelled
    <3> QED
        BY <3>1, <3>2
  <2> QED
    BY <2>1, <2>2 DEF HelloInv
<1>39. ASSUME NEW c \in Callers, CallerNext(c) PROVE HelloInv'
    BY <1>39, CallerLeaves, <1>0 DEF HelloInv
<1>40. CASE LinkNext
    BY <1>40, LinkLeaves, <1>0 DEF HelloInv
<1>41. CASE UNCHANGED vars
    BY <1>41, <1>0 DEF HelloInv
<1> QED
    BY <1>1, <1>2, <1>3, <1>4, <1>5, <1>6, <1>7, <1>8, <1>9, <1>10, <1>11,
       <1>12, <1>13, <1>14, <1>15, <1>16, <1>17, <1>18, <1>19, <1>20, <1>21,
       <1>22, <1>23, <1>24, <1>25, <1>26, <1>27, <1>28, <1>29, <1>30, <1>31,
       <1>32, <1>33, <1>34, <1>35, <1>36, <1>37, <1>38, <1>39, <1>40, <1>41
    DEF Next, LinkNext, ConnectNext, CloseNext, ReaderNext

\* No step leaves a live connection without its writer.
LEMMA WriterInvStep ==
    TypeOK /\ PhaseInv /\ WriterInv /\ [Next]_vars => WriterInv'
<1> SUFFICES ASSUME TypeOK, PhaseInv, WriterInv, [Next]_vars PROVE WriterInv'
    OBVIOUS
<1>1. CASE ConnectCall
    BY <1>1
    DEF ConnectCall, AppStep, WriterInv, WriterAlive, PhaseInv, TypeOK, Conns
<1>2. CASE ConnectDialFails
    BY <1>2
    DEF ConnectDialFails, AppStep, WriterInv, WriterAlive, PhaseInv, TypeOK,
        Conns
<1>3. CASE ConnectDials
    BY <1>3
    DEF ConnectDials, AppStep, WriterInv, WriterAlive, PhaseInv, TypeOK, Conns
<1>4. CASE ConnectHello
    BY <1>4
    DEF ConnectHello, AppStep, WriterInv, WriterAlive, PhaseInv, TypeOK, Conns
<1>5. CASE ConnectHelloFails
    BY <1>5
    DEF ConnectHelloFails, AppStep, WriterInv, WriterAlive, PhaseInv, TypeOK,
        Conns
<1>6. CASE ConnectUp
    BY <1>6
    DEF ConnectUp, AppStep, WriterInv, WriterAlive, PhaseInv, TypeOK, Conns
<1>7. CASE ConnectSetState
    BY <1>7
    DEF ConnectSetState, AppStep, WriterInv, WriterAlive, PhaseInv, TypeOK,
        Conns
<1>8. CASE ConnectSpawn
    BY <1>8
    DEF ConnectSpawn, AppStep, WriterInv, WriterAlive, PhaseInv, TypeOK, Conns
<1>9. CASE Close
    BY <1>9 DEF Close, AppStep, WriterInv, WriterAlive, PhaseInv, TypeOK, Conns
<1>10. CASE CloseSetState
    BY <1>10
    DEF CloseSetState, AppStep, WriterInv, WriterAlive, PhaseInv, TypeOK, Conns
<1>11. CASE CloseConn
    BY <1>11
    DEF CloseConn, AppStep, WriterInv, WriterAlive, PhaseInv, TypeOK, Conns
<1>12. CASE ReadStops
    BY <1>12
    DEF ReadStops, ReaderStep, WriterInv, WriterAlive, PhaseInv, TypeOK, Conns,
        AfterRejoin
<1>13. CASE ReadLost
    BY <1>13
    DEF ReadLost, ReaderStep, WriterInv, WriterAlive, PhaseInv, TypeOK, Conns,
        AfterRejoin
<1>14. CASE LostSetState
    BY <1>14
    DEF LostSetState, ReaderStep, WriterInv, WriterAlive, PhaseInv, TypeOK,
        Conns, AfterRejoin
<1>15. CASE NoAutoReconnect
    BY <1>15
    DEF NoAutoReconnect, ReaderStep, WriterInv, WriterAlive, PhaseInv, TypeOK,
        Conns, AfterRejoin
<1>16. CASE ReconnectAttempt
    BY <1>16
    DEF ReconnectAttempt, ReaderStep, WriterInv, WriterAlive, PhaseInv, TypeOK,
        Conns, AfterRejoin
<1>17. CASE GiveUp
    BY <1>17
    DEF GiveUp, ReaderStep, WriterInv, WriterAlive, PhaseInv, TypeOK, Conns,
        AfterRejoin
<1>18. CASE WaitElapses
    BY <1>18
    DEF WaitElapses, ReaderStep, WriterInv, WriterAlive, PhaseInv, TypeOK,
        Conns, AfterRejoin
<1>19. CASE ReaderCancelled
    BY <1>19
    DEF ReaderCancelled, ReaderStep, WriterInv, WriterAlive, PhaseInv, TypeOK,
        Conns, AfterRejoin
<1>20. CASE Retry
    BY <1>20
    DEF Retry, ReaderStep, WriterInv, WriterAlive, PhaseInv, TypeOK, Conns,
        AfterRejoin
<1>21. CASE RedialFails
    BY <1>21
    DEF RedialFails, ReaderStep, WriterInv, WriterAlive, PhaseInv, TypeOK,
        Conns, AfterRejoin
<1>22. CASE Redials
    BY <1>22
    DEF Redials, ReaderStep, WriterInv, WriterAlive, PhaseInv, TypeOK, Conns,
        AfterRejoin
<1>23. CASE AssignConn
  <2>1. /\ conn' = conn + 1 /\ conn \in Nat /\ rpc' = "rehello" /\ rpc # "off"
        /\ UNCHANGED <<wpc, wconn>>
    BY <1>23 DEF AssignConn, ReaderStep, TypeOK
  <2>2. ASSUME NEW w \in Conns PROVE w \in Nat /\ wconn[w] \in Nat
    <3>1. wconn[w] \in 0 .. MaxConns
      BY DEF TypeOK
    <3> QED
      BY <3>1, BoundsAssumption DEF Conns
  <2> QED
    BY <2>1, <2>2 DEF WriterInv, WriterAlive
<1>24. CASE Rehello
    BY <1>24
    DEF Rehello, ReaderStep, WriterInv, WriterAlive, PhaseInv, TypeOK, Conns,
        AfterRejoin
<1>25. CASE RehelloFails
    BY <1>25
    DEF RehelloFails, ReaderStep, WriterInv, WriterAlive, PhaseInv, TypeOK,
        Conns, AfterRejoin
<1>26. CASE ReconnectUp
    BY <1>26
    DEF ReconnectUp, ReaderStep, WriterInv, WriterAlive, PhaseInv, TypeOK,
        Conns, AfterRejoin
<1>27. CASE ReconnectSetState
    BY <1>27
    DEF ReconnectSetState, ReaderStep, WriterInv, WriterAlive, PhaseInv,
        TypeOK, Conns, AfterRejoin
<1>28. CASE RejoinSnapshot
    BY <1>28
    DEF RejoinSnapshot, ReaderStep, WriterInv, WriterAlive, PhaseInv, TypeOK,
        Conns, AfterRejoin
<1>29. CASE RejoinDone
    BY <1>29
    DEF RejoinDone, ReaderStep, WriterInv, WriterAlive, PhaseInv, TypeOK,
        Conns, AfterRejoin
<1>30. CASE RejoinSend
    BY <1>30
    DEF RejoinSend, ReaderStep, WriterInv, WriterAlive, PhaseInv, TypeOK,
        Conns, AfterRejoin
<1>31. CASE RejoinFails
    BY <1>31
    DEF RejoinFails, ReaderStep, WriterInv, WriterAlive, PhaseInv, TypeOK,
        Conns, AfterRejoin
<1>32. CASE FlushTake
    BY <1>32
    DEF FlushTake, ReaderStep, WriterInv, WriterAlive, PhaseInv, TypeOK, Conns,
        AfterRejoin
<1>33. CASE FlushPush
    BY <1>33
    DEF FlushPush, ReaderStep, WriterInv, WriterAlive, PhaseInv, TypeOK, Conns,
        AfterRejoin
<1>34. CASE FlushEnds
    BY <1>34
    DEF FlushEnds, ReaderStep, WriterInv, WriterAlive, PhaseInv, TypeOK, Conns,
        AfterRejoin
<1>35. CASE Respawn
    BY <1>35
    DEF Respawn, ReaderStep, WriterInv, WriterAlive, PhaseInv, TypeOK, Conns,
        AfterRejoin
<1>36. ASSUME NEW r \in Rooms, RejoinBuffers(r) PROVE WriterInv'
    BY <1>36
    DEF RejoinBuffers, ReaderStep, WriterInv, WriterAlive, PhaseInv, TypeOK,
        Conns, AfterRejoin
<1>37. ASSUME NEW r \in Rooms, RejoinPush(r) PROVE WriterInv'
    BY <1>37
    DEF RejoinPush, ReaderStep, WriterInv, WriterAlive, PhaseInv, TypeOK,
        Conns, AfterRejoin
<1>38. ASSUME NEW w \in Conns, WriterNext(w) PROVE WriterInv'
  <2>1. w <= conn /\ rpc # "off"
    BY <1>38, WriterLeaves DEF WriterInv
  <2>2. CASE WriterTakes(w)
    BY <2>1, <2>2 DEF WriterTakes, WriterStep, WriterInv, WriterAlive, TypeOK
  <2>3. CASE WriterLoads(w)
    BY <2>1, <2>3
    DEF WriterLoads, WriterStep, WriterInv, WriterAlive, TypeOK, Conns
  <2>4. CASE WriterWrites(w)
    BY <2>1, <2>4 DEF WriterWrites, WriterStep, WriterInv, WriterAlive, TypeOK
  <2>5. CASE WriterFails(w)
    <3>1. w <= wconn[w] /\ wconn[w] <= conn
      BY <2>5 DEF WriterFails, WriterStep, WriterInv
    <3>2. w = conn => wconn[w] = conn
      BY <3>1 DEF TypeOK, Conns
    <3> QED
      BY <2>1, <2>5, <3>2
      DEF WriterFails, WriterStep, WriterInv, WriterAlive, TypeOK
  <2>6. CASE WriterCancelled(w)
    BY <2>1, <2>6
    DEF WriterCancelled, WriterStep, WriterInv, WriterAlive, TypeOK
  <2> QED
    BY <1>38, <2>2, <2>3, <2>4, <2>5, <2>6 DEF WriterNext
<1>39. ASSUME NEW c \in Callers, CallerNext(c) PROVE WriterInv'
    BY <1>39, CallerLeaves DEF WriterInv, WriterAlive
<1>40. CASE LinkNext
  <2>1. PICK c \in Conns, how \in {"normal", "down"} : LinkChanges(c, how)
    BY <1>40 DEF LinkNext, LinkDrops, ServerCloses
  <2>2. conn \in Conns /\ link'[conn] = "open" => link[conn] = "open"
    BY <2>1 DEF LinkChanges, TypeOK
  <2>3. rpc = "read" => conn \in Conns
    BY DEF PhaseInv
  <2> QED
    BY <1>40, <2>2, <2>3, LinkLeaves DEF WriterInv, WriterAlive
<1>41. CASE UNCHANGED vars
    BY <1>41 DEF WriterInv, WriterAlive
<1> QED
    BY <1>1, <1>2, <1>3, <1>4, <1>5, <1>6, <1>7, <1>8, <1>9, <1>10, <1>11,
       <1>12, <1>13, <1>14, <1>15, <1>16, <1>17, <1>18, <1>19, <1>20, <1>21,
       <1>22, <1>23, <1>24, <1>25, <1>26, <1>27, <1>28, <1>29, <1>30, <1>31,
       <1>32, <1>33, <1>34, <1>35, <1>36, <1>37, <1>38, <1>39, <1>40, <1>41
    DEF Next, LinkNext, ConnectNext, CloseNext, ReaderNext

\* No step leaves something in the buffer of a resumed client.
LEMMA BufferStep ==
    TypeOK /\ PhaseInv /\ WriterInv /\ BufferInv /\ [Next]_vars => BufferInv'
<1> SUFFICES ASSUME TypeOK, PhaseInv, WriterInv, BufferInv, [Next]_vars
             PROVE  BufferInv'
    OBVIOUS
<1>1. CASE ConnectCall
    BY <1>1
    DEF ConnectCall, AppStep, BufferInv, BufferDrained, Resumed, PhaseInv,
        WriterInv, TypeOK
<1>2. CASE ConnectDialFails
    BY <1>2
    DEF ConnectDialFails, AppStep, BufferInv, BufferDrained, Resumed, PhaseInv,
        WriterInv, TypeOK
<1>3. CASE ConnectDials
    BY <1>3
    DEF ConnectDials, AppStep, BufferInv, BufferDrained, Resumed, PhaseInv,
        WriterInv, TypeOK
<1>4. CASE ConnectHello
    BY <1>4
    DEF ConnectHello, AppStep, BufferInv, BufferDrained, Resumed, PhaseInv,
        WriterInv, TypeOK
<1>5. CASE ConnectHelloFails
    BY <1>5
    DEF ConnectHelloFails, AppStep, BufferInv, BufferDrained, Resumed,
        PhaseInv, WriterInv, TypeOK
<1>6. CASE ConnectUp
    BY <1>6
    DEF ConnectUp, AppStep, BufferInv, BufferDrained, Resumed, PhaseInv,
        WriterInv, TypeOK
<1>7. CASE ConnectSetState
    BY <1>7
    DEF ConnectSetState, AppStep, BufferInv, BufferDrained, Resumed, PhaseInv,
        WriterInv, TypeOK
<1>8. CASE ConnectSpawn
    BY <1>8
    DEF ConnectSpawn, AppStep, BufferInv, BufferDrained, Resumed, PhaseInv,
        WriterInv, TypeOK
<1>9. CASE Close
    BY <1>9
    DEF Close, AppStep, BufferInv, BufferDrained, Resumed, PhaseInv, WriterInv,
        TypeOK
<1>10. CASE CloseSetState
    BY <1>10
    DEF CloseSetState, AppStep, BufferInv, BufferDrained, Resumed, PhaseInv,
        WriterInv, TypeOK
<1>11. CASE CloseConn
    BY <1>11
    DEF CloseConn, AppStep, BufferInv, BufferDrained, Resumed, PhaseInv,
        WriterInv, TypeOK
<1>12. CASE ReadStops
    BY <1>12
    DEF ReadStops, ReaderStep, BufferInv, BufferDrained, Resumed, PhaseInv,
        WriterInv, TypeOK, AfterRejoin
<1>13. CASE ReadLost
    BY <1>13
    DEF ReadLost, ReaderStep, BufferInv, BufferDrained, Resumed, PhaseInv,
        WriterInv, TypeOK, AfterRejoin
<1>14. CASE LostSetState
    BY <1>14
    DEF LostSetState, ReaderStep, BufferInv, BufferDrained, Resumed, PhaseInv,
        WriterInv, TypeOK, AfterRejoin
<1>15. CASE NoAutoReconnect
    BY <1>15
    DEF NoAutoReconnect, ReaderStep, BufferInv, BufferDrained, Resumed,
        PhaseInv, WriterInv, TypeOK, AfterRejoin
<1>16. CASE ReconnectAttempt
    BY <1>16
    DEF ReconnectAttempt, ReaderStep, BufferInv, BufferDrained, Resumed,
        PhaseInv, WriterInv, TypeOK, AfterRejoin
<1>17. CASE GiveUp
    BY <1>17
    DEF GiveUp, ReaderStep, BufferInv, BufferDrained, Resumed, PhaseInv,
        WriterInv, TypeOK, AfterRejoin
<1>18. CASE WaitElapses
    BY <1>18
    DEF WaitElapses, ReaderStep, BufferInv, BufferDrained, Resumed, PhaseInv,
        WriterInv, TypeOK, AfterRejoin
<1>19. CASE ReaderCancelled
    BY <1>19
    DEF ReaderCancelled, ReaderStep, BufferInv, BufferDrained, Resumed,
        PhaseInv, WriterInv, TypeOK, AfterRejoin
<1>20. CASE Retry
    BY <1>20
    DEF Retry, ReaderStep, BufferInv, BufferDrained, Resumed, PhaseInv,
        WriterInv, TypeOK, AfterRejoin
<1>21. CASE RedialFails
    BY <1>21
    DEF RedialFails, ReaderStep, BufferInv, BufferDrained, Resumed, PhaseInv,
        WriterInv, TypeOK, AfterRejoin
<1>22. CASE Redials
    BY <1>22
    DEF Redials, ReaderStep, BufferInv, BufferDrained, Resumed, PhaseInv,
        WriterInv, TypeOK, AfterRejoin
<1>23. CASE AssignConn
    BY <1>23
    DEF AssignConn, ReaderStep, BufferInv, BufferDrained, Resumed, PhaseInv,
        WriterInv, TypeOK, AfterRejoin
<1>24. CASE Rehello
    BY <1>24
    DEF Rehello, ReaderStep, BufferInv, BufferDrained, Resumed, PhaseInv,
        WriterInv, TypeOK, AfterRejoin
<1>25. CASE RehelloFails
    BY <1>25
    DEF RehelloFails, ReaderStep, BufferInv, BufferDrained, Resumed, PhaseInv,
        WriterInv, TypeOK, AfterRejoin
<1>26. CASE ReconnectUp
    BY <1>26
    DEF ReconnectUp, ReaderStep, BufferInv, BufferDrained, Resumed, PhaseInv,
        WriterInv, TypeOK, AfterRejoin
<1>27. CASE ReconnectSetState
    BY <1>27
    DEF ReconnectSetState, ReaderStep, BufferInv, BufferDrained, Resumed,
        PhaseInv, WriterInv, TypeOK, AfterRejoin
<1>28. CASE RejoinSnapshot
    BY <1>28
    DEF RejoinSnapshot, ReaderStep, BufferInv, BufferDrained, Resumed,
        PhaseInv, WriterInv, TypeOK, AfterRejoin
<1>29. CASE RejoinDone
    BY <1>29
    DEF RejoinDone, ReaderStep, BufferInv, BufferDrained, Resumed, PhaseInv,
        WriterInv, TypeOK, AfterRejoin
<1>30. CASE RejoinSend
    BY <1>30
    DEF RejoinSend, ReaderStep, BufferInv, BufferDrained, Resumed, PhaseInv,
        WriterInv, TypeOK, AfterRejoin
<1>31. CASE RejoinFails
    BY <1>31
    DEF RejoinFails, ReaderStep, BufferInv, BufferDrained, Resumed, PhaseInv,
        WriterInv, TypeOK, AfterRejoin
<1>32. CASE FlushTake
    BY <1>32
    DEF FlushTake, ReaderStep, BufferInv, BufferDrained, Resumed, PhaseInv,
        WriterInv, TypeOK, AfterRejoin
<1>33. CASE FlushPush
    BY <1>33
    DEF FlushPush, ReaderStep, BufferInv, BufferDrained, Resumed, PhaseInv,
        WriterInv, TypeOK, AfterRejoin
<1>34. CASE FlushEnds
    BY <1>34
    DEF FlushEnds, ReaderStep, BufferInv, BufferDrained, Resumed, PhaseInv,
        WriterInv, TypeOK, AfterRejoin
<1>35. CASE Respawn
    BY <1>35
    DEF Respawn, ReaderStep, BufferInv, BufferDrained, Resumed, PhaseInv,
        WriterInv, TypeOK, AfterRejoin
<1>36. ASSUME NEW r \in Rooms, RejoinBuffers(r) PROVE BufferInv'
    BY <1>36
    DEF RejoinBuffers, ReaderStep, BufferInv, BufferDrained, Resumed, PhaseInv,
        WriterInv, TypeOK, AfterRejoin
<1>37. ASSUME NEW r \in Rooms, RejoinPush(r) PROVE BufferInv'
    BY <1>37
    DEF RejoinPush, ReaderStep, BufferInv, BufferDrained, Resumed, PhaseInv,
        WriterInv, TypeOK, AfterRejoin
<1>38. ASSUME NEW w \in Conns, WriterNext(w) PROVE BufferInv'
  <2>1. Resumed' => Resumed
    BY <1>38, WriterLeaves DEF Resumed, TypeOK
  <2> QED
    BY <1>38, <2>1, WriterLeaves DEF BufferInv, BufferDrained
<1>39. ASSUME NEW c \in Callers, CallerNext(c) PROVE BufferInv'
  <2>1. ~BufferMessages => messageBuffer' = messageBuffer
    BY <1>39 DEF CallerNext, CallConnected, CallBuffers, CallRefused, Push,
                PushCancelled, Track
  <2>2. connected => messageBuffer' = messageBuffer
    BY <1>39 DEF CallerNext, CallConnected, CallBuffers, CallRefused, Push,
                PushCancelled, Track
  <2> QED
    BY <1>39, <2>1, <2>2, CallerLeaves DEF BufferInv, BufferDrained, Resumed
<1>40. CASE LinkNext
    BY <1>40, LinkLeaves DEF BufferInv, BufferDrained, Resumed
<1>41. CASE UNCHANGED vars
    BY <1>41 DEF BufferInv, BufferDrained, Resumed
<1> QED
    BY <1>1, <1>2, <1>3, <1>4, <1>5, <1>6, <1>7, <1>8, <1>9, <1>10, <1>11,
       <1>12, <1>13, <1>14, <1>15, <1>16, <1>17, <1>18, <1>19, <1>20, <1>21,
       <1>22, <1>23, <1>24, <1>25, <1>26, <1>27, <1>28, <1>29, <1>30, <1>31,
       <1>32, <1>33, <1>34, <1>35, <1>36, <1>37, <1>38, <1>39, <1>40, <1>41
    DEF Next, LinkNext, ConnectNext, CloseNext, ReaderNext

\* Error after the start is a client that has given up.
LEMMA GivenUpStep ==
    TypeOK /\ PhaseInv /\ HelloInv /\ GivenUpInv /\ [Next]_vars => GivenUpInv'
<1> SUFFICES ASSUME TypeOK, PhaseInv, HelloInv, GivenUpInv, [Next]_vars
             PROVE  GivenUpInv'
    OBVIOUS
<1> USE BoundsAssumption, ConfigAssumption
<1>1. CASE ConnectCall
    BY <1>1 DEF ConnectCall, AppStep, GivenUpInv, HelloInv, PhaseInv, TypeOK
<1>2. CASE ConnectDialFails
    BY <1>2
    DEF ConnectDialFails, AppStep, GivenUpInv, HelloInv, PhaseInv, TypeOK
<1>3. CASE ConnectDials
    BY <1>3 DEF ConnectDials, AppStep, GivenUpInv, HelloInv, PhaseInv, TypeOK
<1>4. CASE ConnectHello
    BY <1>4 DEF ConnectHello, AppStep, GivenUpInv, HelloInv, PhaseInv, TypeOK
<1>5. CASE ConnectHelloFails
    BY <1>5
    DEF ConnectHelloFails, AppStep, GivenUpInv, HelloInv, PhaseInv, TypeOK
<1>6. CASE ConnectUp
    BY <1>6 DEF ConnectUp, AppStep, GivenUpInv, HelloInv, PhaseInv, TypeOK
<1>7. CASE ConnectSetState
    BY <1>7
    DEF ConnectSetState, AppStep, GivenUpInv, HelloInv, PhaseInv, TypeOK
<1>8. CASE ConnectSpawn
    BY <1>8 DEF ConnectSpawn, AppStep, GivenUpInv, HelloInv, PhaseInv, TypeOK
<1>9. CASE Close
    BY <1>9 DEF Close, AppStep, GivenUpInv, HelloInv, PhaseInv, TypeOK
<1>10. CASE CloseSetState
    BY <1>10 DEF CloseSetState, AppStep, GivenUpInv, HelloInv, PhaseInv, TypeOK
<1>11. CASE CloseConn
    BY <1>11 DEF CloseConn, AppStep, GivenUpInv, HelloInv, PhaseInv, TypeOK
<1>12. CASE ReadStops
    BY <1>12
    DEF ReadStops, ReaderStep, GivenUpInv, HelloInv, PhaseInv, TypeOK,
        AfterRejoin, TriesLeft
<1>13. CASE ReadLost
    BY <1>13
    DEF ReadLost, ReaderStep, GivenUpInv, HelloInv, PhaseInv, TypeOK,
        AfterRejoin, TriesLeft
<1>14. CASE LostSetState
    BY <1>14
    DEF LostSetState, ReaderStep, GivenUpInv, HelloInv, PhaseInv, TypeOK,
        AfterRejoin, TriesLeft
<1>15. CASE NoAutoReconnect
    BY <1>15
    DEF NoAutoReconnect, ReaderStep, GivenUpInv, HelloInv, PhaseInv, TypeOK,
        AfterRejoin, TriesLeft
<1>16. CASE ReconnectAttempt
    BY <1>16
    DEF ReconnectAttempt, ReaderStep, GivenUpInv, HelloInv, PhaseInv, TypeOK,
        AfterRejoin, TriesLeft
<1>17. CASE GiveUp
    BY <1>17
    DEF GiveUp, ReaderStep, GivenUpInv, HelloInv, PhaseInv, TypeOK,
        AfterRejoin, TriesLeft
<1>18. CASE WaitElapses
    BY <1>18
    DEF WaitElapses, ReaderStep, GivenUpInv, HelloInv, PhaseInv, TypeOK,
        AfterRejoin, TriesLeft
<1>19. CASE ReaderCancelled
    BY <1>19
    DEF ReaderCancelled, ReaderStep, GivenUpInv, HelloInv, PhaseInv, TypeOK,
        AfterRejoin, TriesLeft
<1>20. CASE Retry
    BY <1>20
    DEF Retry, ReaderStep, GivenUpInv, HelloInv, PhaseInv, TypeOK, AfterRejoin,
        TriesLeft
<1>21. CASE RedialFails
    BY <1>21
    DEF RedialFails, ReaderStep, GivenUpInv, HelloInv, PhaseInv, TypeOK,
        AfterRejoin, TriesLeft
<1>22. CASE Redials
    BY <1>22
    DEF Redials, ReaderStep, GivenUpInv, HelloInv, PhaseInv, TypeOK,
        AfterRejoin, TriesLeft
<1>23. CASE AssignConn
    BY <1>23
    DEF AssignConn, ReaderStep, GivenUpInv, HelloInv, PhaseInv, TypeOK,
        AfterRejoin, TriesLeft
<1>24. CASE Rehello
    BY <1>24
    DEF Rehello, ReaderStep, GivenUpInv, HelloInv, PhaseInv, TypeOK,
        AfterRejoin, TriesLeft
<1>25. CASE RehelloFails
    BY <1>25
    DEF RehelloFails, ReaderStep, GivenUpInv, HelloInv, PhaseInv, TypeOK,
        AfterRejoin, TriesLeft
<1>26. CASE ReconnectUp
    BY <1>26
    DEF ReconnectUp, ReaderStep, GivenUpInv, HelloInv, PhaseInv, TypeOK,
        AfterRejoin, TriesLeft
<1>27. CASE ReconnectSetState
    BY <1>27
    DEF ReconnectSetState, ReaderStep, GivenUpInv, HelloInv, PhaseInv, TypeOK,
        AfterRejoin, TriesLeft
<1>28. CASE RejoinSnapshot
    BY <1>28
    DEF RejoinSnapshot, ReaderStep, GivenUpInv, HelloInv, PhaseInv, TypeOK,
        AfterRejoin, TriesLeft
<1>29. CASE RejoinDone
    BY <1>29
    DEF RejoinDone, ReaderStep, GivenUpInv, HelloInv, PhaseInv, TypeOK,
        AfterRejoin, TriesLeft
<1>30. CASE RejoinSend
    BY <1>30
    DEF RejoinSend, ReaderStep, GivenUpInv, HelloInv, PhaseInv, TypeOK,
        AfterRejoin, TriesLeft
<1>31. CASE RejoinFails
    BY <1>31
    DEF RejoinFails, ReaderStep, GivenUpInv, HelloInv, PhaseInv, TypeOK,
        AfterRejoin, TriesLeft
<1>32. CASE FlushTake
    BY <1>32
    DEF FlushTake, ReaderStep, GivenUpInv, HelloInv, PhaseInv, TypeOK,
        AfterRejoin, TriesLeft
<1>33. CASE FlushPush
    BY <1>33
    DEF FlushPush, ReaderStep, GivenUpInv, HelloInv, PhaseInv, TypeOK,
        AfterRejoin, TriesLeft
<1>34. CASE FlushEnds
    BY <1>34
    DEF FlushEnds, ReaderStep, GivenUpInv, HelloInv, PhaseInv, TypeOK,
        AfterRejoin, TriesLeft
<1>35. CASE Respawn
    BY <1>35
    DEF Respawn, ReaderStep, GivenUpInv, HelloInv, PhaseInv, TypeOK,
        AfterRejoin, TriesLeft
<1>36. ASSUME NEW r \in Rooms, RejoinBuffers(r) PROVE GivenUpInv'
    BY <1>36
    DEF RejoinBuffers, ReaderStep, GivenUpInv, HelloInv, PhaseInv, TypeOK,
        AfterRejoin, TriesLeft
<1>37. ASSUME NEW r \in Rooms, RejoinPush(r) PROVE GivenUpInv'
    BY <1>37
    DEF RejoinPush, ReaderStep, GivenUpInv, HelloInv, PhaseInv, TypeOK,
        AfterRejoin, TriesLeft
<1>38. ASSUME NEW w \in Conns, WriterNext(w) PROVE GivenUpInv'
    BY <1>38, WriterLeaves DEF GivenUpInv
<1>39. ASSUME NEW c \in Callers, CallerNext(c) PROVE GivenUpInv'
    BY <1>39, CallerLeaves DEF GivenUpInv
<1>40. CASE LinkNext
    BY <1>40, LinkLeaves DEF GivenUpInv
<1>41. CASE UNCHANGED vars
    BY <1>41 DEF GivenUpInv
<1> QED
    BY <1>1, <1>2, <1>3, <1>4, <1>5, <1>6, <1>7, <1>8, <1>9, <1>10, <1>11,
       <1>12, <1>13, <1>14, <1>15, <1>16, <1>17, <1>18, <1>19, <1>20, <1>21,
       <1>22, <1>23, <1>24, <1>25, <1>26, <1>27, <1>28, <1>29, <1>30, <1>31,
       <1>32, <1>33, <1>34, <1>35, <1>36, <1>37, <1>38, <1>39, <1>40, <1>41
    DEF Next, LinkNext, ConnectNext, CloseNext, ReaderNext

-----------------------------------------------------------------------------
\* The invariant holds in a new client.
LEMMA InitInv == Init => IInv
<1> SUFFICES ASSUME Init PROVE IInv
    OBVIOUS
<1> USE BoundsAssumption, ConfigAssumption DEF Init
<1>1. TypeOK
  <2>1. /\ <<>> \in Seq(Frame) /\ Len(<<>>) = 0
        /\ 0 \in 0 .. MaxConns /\ 0 \in 0 .. MaxAttempt /\ 0 \in 0 .. MaxCalls
        /\ 0 <= MaxBufferSize /\ 0 <= ChanCap
    OBVIOUS
  <2>2. /\ wire \in [Conns -> Seq(Frame)] /\ whand \in [Conns -> Seq(Frame)]
        /\ chand \in [Callers -> Seq(Frame)]
    BY <2>1
  <2>3. /\ link \in [Conns -> {"unused", "open", "normal", "down"}]
        /\ wpc \in [Conns -> {"off", "select", "load", "write", "done"}]
        /\ wconn \in [Conns -> 0 .. MaxConns]
        /\ cpc \in [Callers -> {"idle", "push", "track"}]
    BY <2>1
  <2> QED
    BY <2>1, <2>2, <2>3 DEF TypeOK, States
<1>2. PhaseInv /\ HandInv /\ HelloInv /\ GivenUpInv
    BY DEF PhaseInv, HandInv, HelloInv, GivenUpInv
<1>3. WriterInv /\ BufferInv
    BY DEF WriterInv, WriterAlive, BufferInv, BufferDrained
<1> QED
    BY <1>1, <1>2, <1>3 DEF IInv

\* Every step keeps it.
LEMMA StepInv == IInv /\ [Next]_vars => IInv'
PROOF BY TypeStep, PhaseStep, HandStep, HelloStep, WriterInvStep, BufferStep,
         GivenUpStep DEF IInv

\* The conjunction of the parts is an inductive invariant.
THEOREM Invariance == Spec => []IInv
PROOF BY InitInv, StepInv, PTL DEF Spec

\* The fields of Client and the places of the goroutines keep their types;
\* the buffer and writeCh stay within their capacities.
THEOREM TypeCorrect == Spec => []TypeOK
<1>1. IInv => TypeOK
    BY DEF IInv
<1> QED
    BY Invariance, <1>1, PTL

\* A client that says it is connected has sent its hello on the connection.
THEOREM HelloBeforeReady == Spec => []ReadyMeansHello
<1>1. IInv => ReadyMeansHello
    BY BoundsAssumption, SMTT(30)
    DEF IInv, HelloInv, Greeted, ReadyMeansHello, TypeOK, Conns
<1> QED
    BY Invariance, <1>1, PTL

\* A live connection that is being read has a writer.
THEOREM WriterStaysAlive == Spec => []WriterAlive
<1>1. IInv => WriterAlive
    BY DEF IInv, WriterInv
<1> QED
    BY Invariance, <1>1, PTL

\* After a reconnection the buffer is empty for as long as the client is
\* connected.
THEOREM BufferIsDrained == Spec => []BufferDrained
<1>1. IInv => BufferDrained
    BY DEF IInv, BufferInv
<1> QED
    BY Invariance, <1>1, PTL

\* A client that has given up changes its state only to Closed.
LEMMA GivenUpStays ==
    IInv /\ [Next]_vars
        => (state = "error" /\ started => state' \in {"error", "closed"})
<1> SUFFICES ASSUME IInv, [Next]_vars, state = "error", started
             PROVE  state' \in {"error", "closed"}
    OBVIOUS
<1>1. /\ mpc \in {"idle", "closeState", "closeConn"}
      /\ rpc \in {"done", "retry", "attempt", "giveup"}
    BY DEF IInv, GivenUpInv
<1>2. rpc = "attempt" =>
          MaxReconnectTries > 0 /\ reconnectAttempt > MaxReconnectTries
    BY DEF IInv, GivenUpInv
<1>3. CASE AppNext
    BY <1>1, <1>3
    DEF AppNext, ConnectNext, CloseNext, AppStep,
        ConnectCall, ConnectDialFails, ConnectDials, ConnectHello,
        ConnectHelloFails, ConnectUp, ConnectSetState, ConnectSpawn, Close,
        CloseSetState, CloseConn
<1>4. CASE ReaderNext
    BY <1>1, <1>2, <1>4
    DEF ReaderNext, ReaderStep,
        ReadStops, ReadLost, LostSetState, NoAutoReconnect,
        ReconnectAttempt, GiveUp, WaitElapses, ReaderCancelled, Retry,
        RedialFails, Redials, AssignConn, Rehello, RehelloFails,
        ReconnectUp, ReconnectSetState, RejoinSnapshot, RejoinDone,
        RejoinSend, RejoinFails, FlushTake, FlushPush, FlushEnds, Respawn,
        RejoinBuffers, RejoinPush
<1>5. ASSUME NEW w \in Conns, WriterNext(w) PROVE state' = state
    BY <1>5, WriterLeaves
<1>6. ASSUME NEW c \in Callers, CallerNext(c) PROVE state' = state
    BY <1>6, CallerLeaves
<1>7. CASE LinkNext
    BY <1>7, LinkLeaves
<1>8. CASE UNCHANGED vars
    BY <1>8
<1> QED
    BY <1>3, <1>4, <1>5, <1>6, <1>7, <1>8 DEF Next, AppNext, LinkNext

\* A client that has given up does not come back by itself, however often
\* its reader goes on trying.
THEOREM GivenUpForGood == Spec => StaysGivenUp
<1>1. IInv /\ [Next]_vars
        => [state = "error" /\ started => state' \in {"error", "closed"}]_vars
    BY GivenUpStays
<1> QED
    BY Invariance, <1>1, PTL DEF Spec, StaysGivenUp

-----------------------------------------------------------------------------
(* Requests.  A request is with its caller in send, in the buffer, in the  *)
(* channel, in the batch of a flush or with a writer; the joins that the   *)
(* client makes itself travel the same way, with number 0.                 *)

BufferBox == <<"buffer", 0>>
ChanBox == <<"chan", 0>>
BatchBox == <<"batch", 0>>
CallBox(c) == <<"call", c>>
HandBox(w) == <<"hand", w>>
Queues == {BufferBox, ChanBox, BatchBox}
Index == Queues \cup {CallBox(c) : c \in Callers} \cup {HandBox(w) : w \in Conns}

Offering(c) == IF cpc[c] = "push" THEN chand[c] ELSE <<>>

Contents ==
    [x \in Index |-> IF x[1] = "buffer" THEN messageBuffer
                     ELSE IF x[1] = "chan" THEN writeCh
                     ELSE IF x[1] = "batch" THEN batch
                     ELSE IF x[1] = "call" THEN Offering(x[2]) ELSE whand[x[2]]]

One(s) == \E f \in Frame : s = <<f>>

Counted == \A i \in 1 .. MaxCalls : IsFiniteSet(Places(wire, i))

QInv == /\ \A w \in Conns : whand[w] = <<>> \/ One(whand[w])
        /\ Boxes(Index, Frame, Contents, calls) /\ Counted

LEMMA Indices ==
    /\ BufferBox \in Index /\ ChanBox \in Index /\ BatchBox \in Index
    /\ BufferBox # ChanBox /\ BufferBox # BatchBox /\ ChanBox # BatchBox
    /\ \A c \in Callers : CallBox(c) \in Index /\ CallBox(c) \notin Queues
    /\ \A w \in Conns : HandBox(w) \in Index /\ HandBox(w) \notin Queues
    /\ \A x \in Index : \/ x \in Queues
                        \/ \E c \in Callers : x = CallBox(c)
                        \/ \E w \in Conns : x = HandBox(w)
    /\ \A c \in Callers : \A w \in Conns : CallBox(c) # HandBox(w)
    /\ \A c, d \in Callers : CallBox(c) = CallBox(d) => c = d
    /\ \A w, u \in Conns : HandBox(w) = HandBox(u) => w = u
  <1>1. /\ BufferBox \in Index /\ ChanBox \in Index /\ BatchBox \in Index
        /\ BufferBox # ChanBox /\ BufferBox # BatchBox /\ ChanBox # BatchBox
    BY DEF Index, Queues, BufferBox, ChanBox, BatchBox
  <1>2. \A c \in Callers : CallBox(c) \in Index /\ CallBox(c) \notin Queues
    BY DEF Index, Queues, BufferBox, ChanBox, BatchBox, CallBox
  <1>3. \A w \in Conns : HandBox(w) \in Index /\ HandBox(w) \notin Queues
    BY DEF Index, Queues, BufferBox, ChanBox, BatchBox, HandBox
  <1>4. ASSUME NEW x \in Index
        PROVE  \/ x \in Queues
               \/ \E c \in Callers : x = CallBox(c)
               \/ \E w \in Conns : x = HandBox(w)
    BY <1>4 DEF Index
  <1>5. /\ \A c \in Callers : \A w \in Conns : CallBox(c) # HandBox(w)
        /\ \A c, d \in Callers : CallBox(c) = CallBox(d) => c = d
        /\ \A w, u \in Conns : HandBox(w) = HandBox(u) => w = u
    BY DEF CallBox, HandBox
  <1>6. QED
    BY <1>1, <1>2, <1>3, <1>4, <1>5

ContentsAre ==
    /\ Contents = [x \in Index |-> Contents[x]]
    /\ Contents[BufferBox] = messageBuffer /\ Contents[ChanBox] = writeCh
    /\ Contents[BatchBox] = batch
    /\ \A c \in Callers : Contents[CallBox(c)] = Offering(c)
    /\ \A w \in Conns : Contents[HandBox(w)] = whand[w]

LEMMA ContentsAt == ContentsAre
  <1>1. Contents = [x \in Index |-> Contents[x]]
    BY DEF Contents
  <1>2. /\ Contents[BufferBox] = messageBuffer /\ Contents[ChanBox] = writeCh
        /\ Contents[BatchBox] = batch
    BY Indices DEF Contents, BufferBox, ChanBox, BatchBox
  <1>3. ASSUME NEW c \in Callers PROVE Contents[CallBox(c)] = Offering(c)
    BY Indices DEF Contents, CallBox
  <1>4. ASSUME NEW w \in Conns PROVE Contents[HandBox(w)] = whand[w]
    BY Indices DEF Contents, HandBox
  <1>5. QED
    BY <1>1, <1>2, <1>3, <1>4 DEF ContentsAre

LEMMA ContentsNext == ContentsAre'
  BY ContentsAt, PTL

\* A step that touches only the boxes p and q.
Others(p, q) ==
    /\ BufferBox \in {p, q} \/ messageBuffer' = messageBuffer
    /\ ChanBox \in {p, q} \/ writeCh' = writeCh
    /\ BatchBox \in {p, q} \/ batch' = batch
    /\ \A c \in Callers : CallBox(c) \in {p, q} \/ Offering(c)' = Offering(c)
    /\ \A w \in Conns : HandBox(w) \in {p, q} \/ whand'[w] = whand[w]

LEMMA OthersKept ==
    ASSUME NEW p, NEW q, Others(p, q), NEW x \in Index, x \notin {p, q}
    PROVE  Contents'[x] = Contents[x]
  <1>1. CASE x \in Queues
    BY <1>1, ContentsAt, ContentsNext DEF ContentsAre, Queues, Others
  <1>2. ASSUME NEW c \in Callers, x = CallBox(c) PROVE Contents'[x] = Contents[x]
    BY <1>2, ContentsAt, ContentsNext DEF ContentsAre, Others
  <1>3. ASSUME NEW w \in Conns, x = HandBox(w) PROVE Contents'[x] = Contents[x]
    BY <1>3, ContentsAt, ContentsNext DEF ContentsAre, Others
  <1>4. QED
    BY <1>1, <1>2, <1>3, Indices

LEMMA TwoBoxes ==
    ASSUME NEW p \in Index, NEW q \in Index, p # q, Others(p, q),
           NEW s, NEW t, Contents'[p] = s, Contents'[q] = t
    PROVE  Contents' = [Contents EXCEPT ![p] = s, ![q] = t]
  <1> DEFINE G == [Contents EXCEPT ![p] = s, ![q] = t]
  <1>1. G = [x \in Index |-> G[x]] /\ G[p] = s /\ G[q] = t
        /\ \A x \in Index : x \notin {p, q} => G[x] = Contents[x]
    BY ContentsAt DEF ContentsAre
  <1> HIDE DEF G
  <1>2. ASSUME NEW x \in Index PROVE Contents'[x] = G[x]
    BY <1>1, OthersKept
  <1>3. Contents' = [x \in Index |-> Contents'[x]]
    BY ContentsNext DEF ContentsAre
  <1>4. Contents' = G
    BY <1>1, <1>2, <1>3, Zenon
  <1>5. QED
    BY <1>4 DEF G

LEMMA OneBox ==
    ASSUME NEW p \in Index, Others(p, p), NEW s, Contents'[p] = s
    PROVE  Contents' = [Contents EXCEPT ![p] = s]
  <1> DEFINE G == [Contents EXCEPT ![p] = s]
  <1>1. G = [x \in Index |-> G[x]] /\ G[p] = s
        /\ \A x \in Index : x \notin {p, p} => G[x] = Contents[x]
    BY ContentsAt DEF ContentsAre
  <1> HIDE DEF G
  <1>2. ASSUME NEW x \in Index PROVE Contents'[x] = G[x]
    BY <1>1, OthersKept
  <1>3. Contents' = [x \in Index |-> Contents'[x]]
    BY ContentsNext DEF ContentsAre
  <1>4. Contents' = G
    BY <1>1, <1>2, <1>3, Zenon
  <1>5. QED
    BY <1>4 DEF G

-----------------------------------------------------------------------------
(* What a step does to what is held, and to the wire.                      *)

Counts == [i \in 1 .. MaxCalls |-> Times(wire, i)]

HeldWhere == \A x : x \in Held <=> \E b \in Index : x \in Ids(Contents[b])

LEMMA HeldIn == HeldWhere
  <1>1. ASSUME NEW x
        PROVE  x \in Held <=> \E b \in Index : x \in Ids(Contents[b])
    <2>1. x \in Held <=> \/ x \in Ids(messageBuffer) \/ x \in Ids(writeCh)
                         \/ x \in Ids(batch)
                         \/ \E w \in Conns : x \in Ids(whand[w])
                         \/ \E c \in Callers : cpc[c] = "push" /\ x \in Ids(chand[c])
      <3>1. x \in UNION {Ids(chand[c]) : c \in {d \in Callers : cpc[d] = "push"}}
               <=> \E c \in Callers : cpc[c] = "push" /\ x \in Ids(chand[c])
        OBVIOUS
      <3>2. x \in UNION {Ids(whand[w]) : w \in Conns}
               <=> \E w \in Conns : x \in Ids(whand[w])
        OBVIOUS
      <3>3. QED
        BY <3>1, <3>2 DEF Held
    <2>2. ASSUME NEW c \in Callers
          PROVE  x \in Ids(Offering(c)) <=> cpc[c] = "push" /\ x \in Ids(chand[c])
      BY IdsEmpty DEF Offering
    <2>3. ASSUME NEW b \in Index, x \in Ids(Contents[b])
          PROVE  \/ \E d \in Queues : x \in Ids(Contents[d])
                 \/ \E c \in Callers : x \in Ids(Contents[CallBox(c)])
                 \/ \E w \in Conns : x \in Ids(Contents[HandBox(w)])
      BY <2>3, Indices, Zenon
    <2>4. /\ (\E c \in Callers : x \in Ids(Contents[CallBox(c)]))
               <=> \E c \in Callers : cpc[c] = "push" /\ x \in Ids(chand[c])
          /\ (\E w \in Conns : x \in Ids(Contents[HandBox(w)]))
               <=> \E w \in Conns : x \in Ids(whand[w])
      BY <2>2, ContentsAt, Zenon DEF ContentsAre
    <2>5. (\E d \in Queues : x \in Ids(Contents[d]))
              <=> x \in Ids(messageBuffer) \/ x \in Ids(writeCh) \/ x \in Ids(batch)
      <3>1. \A d : d \in Queues <=> d = BufferBox \/ d = ChanBox \/ d = BatchBox
        BY DEF Queues
      <3>2. QED
        BY <3>1, ContentsAt, Zenon DEF ContentsAre
    <2>6. (\E b \in Index : x \in Ids(Contents[b]))
             <=> \/ \E d \in Queues : x \in Ids(Contents[d])
                 \/ \E c \in Callers : x \in Ids(Contents[CallBox(c)])
                 \/ \E w \in Conns : x \in Ids(Contents[HandBox(w)])
      <3>1. \A d \in Queues : d \in Index
        BY Indices DEF Queues
      <3>2. QED
        BY <2>3, <3>1, Indices, Zenon
    <2>7. QED
      BY <2>1, <2>4, <2>5, <2>6, Zenon
  <1>2. QED
    BY <1>1 DEF HeldWhere

LEMMA HeldNext == HeldWhere'
  BY HeldIn, PTL

\* A good step keeps the invariant and is one of Outbox.
Good == QInv' /\ [Box!Next]_(Box!vars)

SameCounts == \A i \in 1 .. MaxCalls : Times(wire', i) = Times(wire, i)

\* The frames in hand and the boxes after a step.
Sound(n) ==
    /\ \A w \in Conns : whand'[w] = <<>> \/ One(whand'[w])
    /\ Boxes(Index, Frame, Contents', n) /\ calls' = n

LEMMA GoodLoss ==
    ASSUME QInv, Sound(calls), Counted', SameCounts, Held' \subseteq Held
    PROVE  Good
  <1>1. Counts' = Counts
    BY DEF SameCounts, Counts
  <1>2. Box!Lose
    BY <1>1 DEF Box!Lose, Counts, Sound
  <1>3. QED
    BY <1>2 DEF Good, Box!Next, QInv, Sound

LEMMA GoodWrite ==
    ASSUME QInv, Sound(calls), Counted', NEW h \in 1 .. MaxCalls, h \in Held,
           \A i \in 1 .. MaxCalls :
               Times(wire', i) = IF i = h THEN Times(wire, i) + 1 ELSE Times(wire, i),
           Held' \subseteq Held \ {h}
    PROVE  Good
  <1>1. Counts' = [Counts EXCEPT ![h] = @ + 1]
    BY DEF Counts
  <1>2. h \in Held /\ Box!Write(h)
    BY <1>1 DEF Box!Write, Counts, Sound
  <1>3. Box!Next
    BY <1>2 DEF Box!Next
  <1>4. QED
    BY <1>3 DEF Good, QInv, Sound

LEMMA GoodOffer ==
    ASSUME QInv, Sound(calls + 1), Counted', SameCounts, calls < MaxCalls,
           Held' \in {Held, Held \cup {calls + 1}}
    PROVE  Good
  <1>1. Counts' = Counts
    BY DEF SameCounts, Counts
  <1>2. Box!Offer
    BY <1>1 DEF Box!Offer, Counts, Sound
  <1>3. QED
    BY <1>2 DEF Good, Box!Next, QInv, Sound

\* Nothing is sent.
LEMMA SilentWire ==
    ASSUME QInv, wire' = wire
    PROVE  Counted' /\ SameCounts
  BY DEF QInv, Counted, SameCounts

\* A frame is sent on connection k.
LEMMA WireSends ==
    ASSUME TypeOK, Counted, NEW k \in Conns, NEW f \in Frame,
           wire' = [wire EXCEPT ![k] = Append(@, f)]
    PROVE  /\ Counted'
           /\ \A i \in 1 .. MaxCalls :
                Times(wire', i) = IF i = f.id THEN Times(wire, i) + 1
                                              ELSE Times(wire, i)
  <1>1. Sending(Conns, Frame, wire, wire', k, f)
    BY DEF Sending, TypeOK
  <1>2. ASSUME NEW i, IsFiniteSet(Places(wire, i))
        PROVE  /\ IsFiniteSet(Places(wire', i))
               /\ f.id = i => Times(wire', i) = Times(wire, i) + 1
               /\ f.id # i => Times(wire', i) = Times(wire, i)
    BY <1>1, <1>2, SendCounts
  <1>3. QED
    BY <1>2 DEF Counted

-----------------------------------------------------------------------------
(* The ways in which a step moves requests.                                *)

HandsKept == \A w \in Conns : whand'[w] = <<>> \/ One(whand'[w])

\* Nothing moves.
LEMMA StepCalm ==
    ASSUME QInv, UNCHANGED <<messageBuffer, writeCh, batch, whand, calls>>,
           \A c \in Callers : Offering(c)' = Offering(c), Counted', SameCounts
    PROVE  Good
  <1>1. Contents' = Contents
    <2>1. ASSUME NEW x \in Index PROVE Contents'[x] = Contents[x]
      <3>1. CASE x \in Queues
        BY <3>1, ContentsAt, ContentsNext DEF ContentsAre, Queues
      <3>2. CASE x \notin Queues
        BY <3>2, ContentsAt, ContentsNext, Indices DEF ContentsAre
      <3>3. QED
        BY <3>1, <3>2
    <2>2. QED
      BY <2>1, ContentsAt, ContentsNext, Zenon DEF ContentsAre
  <1>2. Held' \subseteq Held
    BY <1>1, HeldIn, HeldNext DEF HeldWhere
  <1>3. Sound(calls)
    BY <1>1 DEF Sound, QInv
  <1>4. QED
    BY <1>2, <1>3, GoodLoss

\* The client adds a frame of its own to box q.
LEMMA StepOwn ==
    ASSUME QInv, NEW q \in Index, NEW f \in Frame, f.id = 0,
           Others(q, q), Contents'[q] = Append(Contents[q], f),
           HandsKept, wire' = wire, calls' = calls
    PROVE  Good
  <1>1. Added(Contents, Contents', q, f)
    BY OneBox DEF Added
  <1>2. Boxes(Index, Frame, Contents, calls)
    BY DEF QInv
  <1>3. /\ Boxes(Index, Frame, Contents', calls)
        /\ \A x \in Index : Ids(Contents'[x]) = Ids(Contents[x])
    BY <1>1, <1>2, BoxOwn
  <1>4. Held' \subseteq Held
    BY <1>3, HeldIn, HeldNext DEF HeldWhere
  <1>5. Sound(calls)
    BY <1>3 DEF Sound, HandsKept
  <1>6. QED
    BY <1>4, <1>5, SilentWire, GoodLoss

\* Box q loses what it has.
LEMMA StepClear ==
    ASSUME QInv, NEW q \in Index, Others(q, q), Contents'[q] = <<>>,
           HandsKept, Counted', SameCounts, calls' = calls
    PROVE  Good
  <1>1. Cleared(Contents, Contents', q)
    BY OneBox DEF Cleared
  <1>2. Boxes(Index, Frame, Contents, calls)
    BY DEF QInv
  <1>3. /\ Boxes(Index, Frame, Contents', calls)
        /\ \A x \in Index : Ids(Contents'[x]) = IF x = q THEN {} ELSE Ids(Contents[x])
    BY <1>1, <1>2, BoxClear
  <1>4. Held' \subseteq Held
    BY <1>3, HeldIn, HeldNext DEF HeldWhere
  <1>5. Sound(calls)
    BY <1>3 DEF Sound, HandsKept
  <1>6. QED
    BY <1>4, <1>5, GoodLoss

\* The frame in box q is sent.
LEMMA StepWrite ==
    ASSUME TypeOK, QInv, NEW q \in Index, NEW f \in Frame, Contents[q] = <<f>>,
           Others(q, q), Contents'[q] = <<>>, HandsKept, calls' = calls,
           NEW k \in Conns, wire' = [wire EXCEPT ![k] = Append(@, f)]
    PROVE  Good
  <1> DEFINE h == f.id
  <1>1. /\ Counted'
        /\ \A i \in 1 .. MaxCalls :
             Times(wire', i) = IF i = h THEN Times(wire, i) + 1 ELSE Times(wire, i)
    BY WireSends DEF QInv
  <1>2. h \in 0 .. MaxCalls
    BY DEF Frame
  <1> HIDE DEF h
  <1>3. CASE h = 0
    <2>1. SameCounts
      <3>1. ASSUME NEW i \in 1 .. MaxCalls PROVE Times(wire', i) = Times(wire, i)
        <4>1. i # h
          BY <1>3, BoundsAssumption
        <4>2. QED
          BY <1>1, <4>1
      <3>2. QED
        BY <3>1 DEF SameCounts
    <2>2. QED
      BY <1>1, <2>1, StepClear
  <1>4. CASE h # 0
    <2>1. h \in 1 .. MaxCalls
      BY <1>2, <1>4, BoundsAssumption
    <2>2. Ids(Contents[q]) = {h}
      BY <1>4, IdsOne DEF h
    <2>3. Boxes(Index, Frame, Contents, calls)
      BY DEF QInv
    <2>4. /\ Boxes(Index, Frame, Contents', calls)
          /\ \A x \in Index : Ids(Contents'[x]) = IF x = q THEN {} ELSE Ids(Contents[x])
      <3>1. Cleared(Contents, Contents', q)
        BY OneBox DEF Cleared
      <3>2. QED
        BY <2>3, <3>1, BoxClear
    <2>5. \A x \in Index : x # q => h \notin Ids(Contents[x])
      BY <2>2, <2>3 DEF Boxes, OneEach
    <2>6. h \in Held /\ Held' \subseteq Held \ {h}
      <3>1. ASSUME NEW x \in Held' PROVE x \in Held \ {h}
        BY <2>4, <2>5, HeldIn, HeldNext DEF HeldWhere
      <3>2. h \in Held
        BY <2>2, HeldIn DEF HeldWhere
      <3>3. QED
        BY <3>1, <3>2
    <2>7. Sound(calls)
      BY <2>4 DEF Sound, HandsKept
    <2>8. QED
      BY <1>1, <2>1, <2>6, <2>7, GoodWrite
  <1>5. QED
    BY <1>3, <1>4

\* Nothing but the boxes p and q changes, and nothing is sent.
Within(p, q) ==
    /\ p \in Index /\ q \in Index
    /\ Others(p, q) /\ HandsKept /\ wire' = wire /\ calls' = calls

\* The head of box p goes to the end of box q.
Passing(p, q) ==
    /\ Within(p, q) /\ p # q /\ Contents[p] # <<>>
    /\ Contents'[p] = Tail(Contents[p])
    /\ Contents'[q] = Append(Contents[q], Head(Contents[p]))

\* What was in the two boxes is still in one of them, or lost.
LEMMA KeptWithin ==
    ASSUME QInv, NEW p, NEW q, Within(p, q), Boxes(Index, Frame, Contents', calls),
           Ids(Contents'[p]) \cup Ids(Contents'[q])
              \subseteq Ids(Contents[p]) \cup Ids(Contents[q])
    PROVE  Good
  <1>1. Held' \subseteq Held
    <2>1. ASSUME NEW x \in Held' PROVE x \in Held
      <3>1. PICK b \in Index : x \in Ids(Contents'[b])
        BY <2>1, HeldNext DEF HeldWhere
      <3>2. CASE b \in {p, q}
        BY <3>1, <3>2, HeldIn DEF HeldWhere, Within
      <3>3. CASE b \notin {p, q}
        <4>1. Contents'[b] = Contents[b]
          BY <3>3, OthersKept DEF Within
        <4>2. QED
          BY <3>1, <4>1, HeldIn DEF HeldWhere
      <3>4. QED
        BY <3>2, <3>3
    <2>2. QED
      BY <2>1
  <1>2. Sound(calls)
    BY DEF Sound, HandsKept, Within
  <1>3. Counted' /\ SameCounts
    BY SilentWire DEF Within
  <1>4. QED
    BY <1>1, <1>2, <1>3, GoodLoss

LEMMA StepPass ==
    ASSUME QInv, NEW p \in Index, NEW q \in Index, Passing(p, q)
    PROVE  Good
  <1>1. Within(p, q) /\ p # q /\ Contents[p] # <<>>
    BY DEF Passing
  <1>2. Passed(Contents, Contents', p, q)
    <2> DEFINE s == Tail(Contents[p])
               t == Append(Contents[q], Head(Contents[p]))
    <2>1. [Contents EXCEPT ![p] = s][q] = Contents[q]
      BY <1>1, ContentsAt DEF ContentsAre
    <2>2. Contents'[p] = s /\ Contents'[q] = t
      BY DEF Passing
    <2>3. Contents' = [Contents EXCEPT ![p] = s, ![q] = t]
      <3> HIDE DEF s, t
      <3>1. QED
        BY <1>1, <2>2, TwoBoxes DEF Within
    <2>4. QED
      BY <2>1, <2>3 DEF Passed
  <1>3. Boxes(Index, Frame, Contents, calls)
    BY DEF QInv
  <1>4. /\ Boxes(Index, Frame, Contents', calls)
        /\ Together(Contents', p, q) = Together(Contents, p, q)
    BY <1>1, <1>2, <1>3, BoxPassKeeps
  <1>5. QED
    BY <1>1, <1>4, KeptWithin DEF Together

\* The frame in box p goes to the end of box q.
Moving(p, q, f) ==
    /\ Within(p, q) /\ p # q /\ Contents[p] = <<f>>
    /\ Contents'[p] = <<>> /\ Contents'[q] = Append(Contents[q], f)

LEMMA StepMove ==
    ASSUME QInv, NEW p \in Index, NEW q \in Index, NEW f \in Frame, Moving(p, q, f)
    PROVE  Good
  <1>1. Within(p, q) /\ p # q /\ Contents[p] = <<f>>
    BY DEF Moving
  <1>2. Moved(Contents, Contents', p, q, f)
    <2> DEFINE t == Append(Contents[q], f)
    <2>1. Contents'[p] = <<>> /\ Contents'[q] = t
      BY DEF Moving
    <2>2. Contents' = [Contents EXCEPT ![p] = <<>>, ![q] = t]
      <3> HIDE DEF t
      <3>1. QED
        BY <1>1, <2>1, TwoBoxes DEF Within
    <2>3. QED
      BY <2>2 DEF Moved
  <1>3. Boxes(Index, Frame, Contents, calls)
    BY DEF QInv
  <1>4. /\ Boxes(Index, Frame, Contents', calls) /\ Ids(Contents'[p]) = {}
        /\ Ids(Contents'[q]) = Ids(Contents[q]) \cup Ids(Contents[p])
    BY <1>1, <1>2, <1>3, BoxMove
  <1>5. QED
    BY <1>1, <1>4, KeptWithin

\* All of box p goes to box q, whatever that had.
Pouring(p, q) ==
    /\ Within(p, q) /\ p # q
    /\ Contents'[p] = <<>> /\ Contents'[q] = Contents[p]

LEMMA StepPour ==
    ASSUME QInv, NEW p \in Index, NEW q \in Index, Pouring(p, q)
    PROVE  Good
  <1>1. Within(p, q) /\ p # q
    BY DEF Pouring
  <1>2. Poured(Contents, Contents', p, q)
    BY <1>1, TwoBoxes DEF Poured, Pouring, Within
  <1>3. Boxes(Index, Frame, Contents, calls)
    BY DEF QInv
  <1>4. /\ Boxes(Index, Frame, Contents', calls) /\ Ids(Contents'[p]) = {}
        /\ Ids(Contents'[q]) = Ids(Contents[p])
    BY <1>1, <1>2, <1>3, BoxPour
  <1>5. QED
    BY <1>1, <1>4, KeptWithin

\* The head of box p goes to box q, whatever that had.
Taking(p, q) ==
    /\ Within(p, q) /\ p # q /\ Contents[p] # <<>>
    /\ Contents'[p] = Tail(Contents[p]) /\ Contents'[q] = <<Head(Contents[p])>>

LEMMA StepTake ==
    ASSUME QInv, NEW p \in Index, NEW q \in Index, Taking(p, q)
    PROVE  Good
  <1> DEFINE G == [Contents EXCEPT ![q] = <<>>]
  <1>1. Within(p, q) /\ p # q /\ Contents[p] # <<>>
    BY DEF Taking
  <1>2. /\ G = [x \in Index |-> G[x]] /\ G[q] = <<>> /\ G[p] = Contents[p]
        /\ \A x \in Index : x # q => G[x] = Contents[x]
    BY <1>1, ContentsAt DEF ContentsAre
  <1>3. Cleared(Contents, G, q) /\ Boxes(Index, Frame, Contents, calls)
    BY DEF Cleared, QInv
  <1> HIDE DEF G
  <1>4. Boxes(Index, Frame, G, calls)
    BY <1>3, BoxClear
  <1>5. Passed(G, Contents', p, q)
    <2> DEFINE s == Tail(G[p])
               t == Append(G[q], Head(G[p]))
               H == [G EXCEPT ![p] = s, ![q] = t]
    <2>1. [G EXCEPT ![p] = s][q] = G[q]
      BY <1>1, <1>2
    <2>2. Contents'[p] = s /\ Contents'[q] = t
      <3>1. Append(<<>>, Head(G[p])) = <<Head(G[p])>>
        OBVIOUS
      <3>2. QED
        BY <1>2, <3>1 DEF Taking
    <2>3. Contents' = H
      <3> HIDE DEF s, t
      <3>1. /\ H = [x \in Index |-> H[x]] /\ H[p] = s /\ H[q] = t
            /\ \A x \in Index : x \notin {p, q} => H[x] = G[x]
        BY <1>1, <1>2
      <3> HIDE DEF H
      <3>2. ASSUME NEW x \in Index PROVE Contents'[x] = H[x]
        <4>1. CASE x \in {p, q}
          BY <2>2, <3>1, <4>1
        <4>2. CASE x \notin {p, q}
          <5>1. Contents'[x] = Contents[x]
            BY <1>1, <4>2, OthersKept DEF Within
          <5>2. QED
            BY <1>2, <3>1, <4>2, <5>1
        <4>3. QED
          BY <4>1, <4>2
      <3>3. QED
        BY <3>1, <3>2, ContentsNext, Zenon DEF ContentsAre
    <2>4. QED
      BY <2>1, <2>3 DEF Passed
  <1>6. G[p] # <<>> /\ Ids(G[p]) = Ids(Contents[p]) /\ Ids(G[q]) = {}
    BY <1>1, <1>2, IdsEmpty
  <1>7. /\ Boxes(Index, Frame, Contents', calls)
        /\ Together(Contents', p, q) = Together(G, p, q)
    BY <1>1, <1>4, <1>5, <1>6, BoxPassKeeps
  <1>8. QED
    BY <1>1, <1>6, <1>7, KeptWithin DEF Together

\* A new request is put into box q.
Adding(q, f) ==
    /\ f.id = calls + 1 /\ Others(q, q) /\ HandsKept /\ wire' = wire
    /\ Contents'[q] = Append(Contents[q], f)
    /\ calls < MaxCalls /\ calls' = calls + 1

LEMMA StepAdd ==
    ASSUME QInv, NEW q \in Index, NEW f \in Frame, Adding(q, f)
    PROVE  Good
  <1>1. Added(Contents, Contents', q, f)
    <2> DEFINE t == Append(Contents[q], f)
    <2>1. Contents'[q] = t /\ Others(q, q)
      BY DEF Adding
    <2>2. Contents' = [Contents EXCEPT ![q] = t]
      <3> HIDE DEF t
      <3>1. QED
        BY <2>1, OneBox
    <2>3. QED
      BY <2>2 DEF Added
  <1>2. Boxes(Index, Frame, Contents, calls) /\ f.id = calls + 1
    BY DEF QInv, Adding
  <1>3. /\ Boxes(Index, Frame, Contents', calls + 1)
        /\ Ids(Contents'[q]) = Ids(Contents[q]) \cup {calls + 1}
    BY <1>1, <1>2, BoxAdd
  <1>4. \A x \in Index : x # q => Contents'[x] = Contents[x]
    BY OthersKept DEF Adding
  <1>5. Held' = Held \cup {calls + 1}
    <2>1. ASSUME NEW x PROVE x \in Held' <=> x \in Held \/ x = calls + 1
      <3>1. x \in Held' <=> \E b \in Index : x \in Ids(Contents'[b])
        BY HeldNext DEF HeldWhere
      <3>2. x \in Held <=> \E b \in Index : x \in Ids(Contents[b])
        BY HeldIn DEF HeldWhere
      <3>3. \A b \in Index : x \in Ids(Contents'[b])
               <=> x \in Ids(Contents[b]) \/ (b = q /\ x = calls + 1)
        BY <1>3, <1>4
      <3>4. QED
        BY <3>1, <3>2, <3>3
    <2>2. QED
      BY <2>1
  <1>6. Sound(calls + 1) /\ calls < MaxCalls
    BY <1>3 DEF Sound, HandsKept, Adding
  <1>7. Counted' /\ SameCounts
    BY SilentWire DEF Adding
  <1>8. QED
    BY <1>5, <1>6, <1>7, GoodOffer

\* A request is refused.
LEMMA StepRefuse ==
    ASSUME QInv, UNCHANGED <<messageBuffer, writeCh, batch, whand, wire>>,
           \A c \in Callers : Offering(c)' = Offering(c),
           calls < MaxCalls, calls' = calls + 1
    PROVE  Good
  <1>1. Contents' = Contents
    <2>1. ASSUME NEW x \in Index PROVE Contents'[x] = Contents[x]
      <3>1. CASE x \in Queues
        BY <3>1, ContentsAt, ContentsNext DEF ContentsAre, Queues
      <3>2. CASE x \notin Queues
        BY <3>2, ContentsAt, ContentsNext, Indices DEF ContentsAre
      <3>3. QED
        BY <3>1, <3>2
    <2>2. QED
      BY <2>1, ContentsAt, ContentsNext, Zenon DEF ContentsAre
  <1>2. Held' = Held
    <2>1. ASSUME NEW x PROVE x \in Held' <=> x \in Held
      BY <1>1, HeldIn, HeldNext DEF HeldWhere
    <2>2. QED
      BY <2>1
  <1>3. Boxes(Index, Frame, Contents, calls + 1)
    BY BoxMore DEF QInv
  <1>4. Sound(calls + 1)
    BY <1>1, <1>3 DEF Sound, QInv
  <1>5. QED
    BY <1>2, <1>4, SilentWire, GoodOffer

-----------------------------------------------------------------------------
(* Each action is a good step.                                             *)

LEMMA HelloSent ==
    ASSUME IInv, QInv, conn \in Conns,
           wire' = [wire EXCEPT ![conn] = Append(@, Hello)]
    PROVE  Counted' /\ SameCounts
  <1>1. Hello \in Frame /\ Hello.id = 0
    BY FrameTypes DEF Hello
  <1>2. TypeOK /\ Counted
    BY DEF IInv, QInv
  <1> DEFINE f == Hello
  <1>3. f \in Frame /\ f.id = 0 /\ wire' = [wire EXCEPT ![conn] = Append(@, f)]
    BY <1>1
  <1> HIDE DEF f
  <1>4. /\ Counted'
        /\ \A i \in 1 .. MaxCalls :
             Times(wire', i) = IF i = f.id THEN Times(wire, i) + 1
                                           ELSE Times(wire, i)
    BY <1>2, <1>3, WireSends
  <1>5. ASSUME NEW i \in 1 .. MaxCalls PROVE Times(wire', i) = Times(wire, i)
    <2>1. i # f.id
      BY <1>3, BoundsAssumption
    <2>2. QED
      BY <1>4, <2>1
  <1>6. QED
    BY <1>4, <1>5 DEF SameCounts

\* A step that touches no queue, and sends at most the hello.
CalmStep ==
    /\ UNCHANGED <<messageBuffer, writeCh, batch, whand, cpc, chand, calls>>
    /\ \/ wire' = wire
       \/ conn \in Conns /\ wire' = [wire EXCEPT ![conn] = Append(@, Hello)]

LEMMA QuietGood ==
    ASSUME IInv, QInv, CalmStep
    PROVE  Good
  <1>1. \A c \in Callers : Offering(c)' = Offering(c)
    BY DEF CalmStep, Offering
  <1>2. Counted' /\ SameCounts
    BY SilentWire, HelloSent DEF CalmStep
  <1>3. UNCHANGED <<messageBuffer, writeCh, batch, whand, calls>>
    BY DEF CalmStep
  <1>4. QED
    BY <1>1, <1>2, <1>3, StepCalm

LEMMA AppGood ==
    ASSUME IInv, QInv, AppNext
    PROVE  Good
  <1>1. UNCHANGED <<messageBuffer, writeCh, batch, whand, cpc, chand, calls>>
    BY AppLeaves
  <1>2. CASE ConnectHello
    <2>1. conn \in Conns /\ wire' = [wire EXCEPT ![conn] = Append(@, Hello)]
      BY <1>2 DEF ConnectHello, AppStep, IInv, PhaseInv
    <2>2. QED
      BY <1>1, <2>1, QuietGood DEF CalmStep
  <1>3. CASE ~ConnectHello
    <2>1. wire' = wire
      BY <1>3 DEF AppNext, ConnectNext, CloseNext, ConnectCall, ConnectDialFails,
                  ConnectDials, ConnectHelloFails, ConnectUp, ConnectSetState,
                  ConnectSpawn, Close, CloseSetState, CloseConn
    <2>2. QED
      BY <1>1, <2>1, QuietGood DEF CalmStep
  <1>4. QED
    BY <1>2, <1>3

\* The steps of the reader that move requests.
MovingSteps ==
    \/ \E r \in Rooms : RejoinBuffers(r) \/ RejoinPush(r)
    \/ FlushTake \/ FlushPush \/ FlushEnds

LEMMA ReaderQuiet ==
    ASSUME IInv, QInv, ReaderNext, ~MovingSteps
    PROVE  Good
  <1>1. UNCHANGED <<whand, cpc, chand, calls>>
    BY ReaderLeaves
  <1>2. UNCHANGED <<messageBuffer, writeCh, batch>>
    BY DEF ReaderNext, MovingSteps,
           ReadStops, ReadLost, LostSetState, NoAutoReconnect,
           ReconnectAttempt, GiveUp, WaitElapses, ReaderCancelled, Retry,
           RedialFails, Redials, AssignConn, Rehello, RehelloFails,
           ReconnectUp, ReconnectSetState, RejoinSnapshot, RejoinDone,
           RejoinSend, RejoinFails, Respawn
  <1>3. CASE Rehello
    <2>1. conn \in Conns /\ wire' = [wire EXCEPT ![conn] = Append(@, Hello)]
      BY <1>3 DEF Rehello, ReaderStep, IInv, PhaseInv
    <2>2. QED
      BY <1>1, <1>2, <2>1, QuietGood DEF CalmStep
  <1>4. CASE ~Rehello
    <2>1. wire' = wire
      BY <1>4
      DEF ReaderNext, MovingSteps,
           ReadStops, ReadLost, LostSetState, NoAutoReconnect,
           ReconnectAttempt, GiveUp, WaitElapses, ReaderCancelled, Retry,
           RedialFails, Redials, AssignConn, RehelloFails,
           ReconnectUp, ReconnectSetState, RejoinSnapshot, RejoinDone,
           RejoinSend, RejoinFails, Respawn
    <2>2. QED
      BY <1>1, <1>2, <2>1, QuietGood DEF CalmStep
  <1>5. QED
    BY <1>3, <1>4

\* The reader leaves the callers and the writers alone.
LEMMA ReaderHands ==
    ASSUME IInv, QInv, ReaderNext
    PROVE  /\ UNCHANGED <<whand, calls>> /\ HandsKept
           /\ \A c \in Callers : Offering(c)' = Offering(c)
  BY ReaderLeaves DEF QInv, HandsKept, Offering

LEMMA RejoinGood ==
    ASSUME IInv, QInv, NEW r \in Rooms, RejoinBuffers(r) \/ RejoinPush(r)
    PROVE  Good
  <1> DEFINE f == Rejoin(r)
  <1>1. f \in Frame /\ f.id = 0
    BY FrameTypes DEF Rejoin
  <1>2. /\ UNCHANGED <<whand, calls>> /\ HandsKept
        /\ \A c \in Callers : Offering(c)' = Offering(c)
    BY ReaderHands DEF ReaderNext
  <1>3. ContentsAre /\ ContentsAre'
    BY ContentsAt, ContentsNext
  <1>4. CASE RejoinBuffers(r)
    <2>1. /\ messageBuffer' = Append(messageBuffer, f)
          /\ UNCHANGED <<writeCh, batch, wire>>
      BY <1>4 DEF RejoinBuffers
    <2> HIDE DEF f
    <2>2. Others(BufferBox, BufferBox)
      BY <1>2, <2>1 DEF Others
    <2>3. Contents'[BufferBox] = Append(Contents[BufferBox], f)
      BY <1>3, <2>1 DEF ContentsAre
    <2>4. QED
      BY <1>1, <1>2, <2>1, <2>2, <2>3, Indices, StepOwn
  <1>5. CASE RejoinPush(r)
    <2>1. /\ writeCh' = Append(writeCh, f)
          /\ UNCHANGED <<messageBuffer, batch, wire>>
      BY <1>5 DEF RejoinPush
    <2> HIDE DEF f
    <2>2. Others(ChanBox, ChanBox)
      BY <1>2, <2>1 DEF Others
    <2>3. Contents'[ChanBox] = Append(Contents[ChanBox], f)
      BY <1>3, <2>1 DEF ContentsAre
    <2>4. QED
      BY <1>1, <1>2, <2>1, <2>2, <2>3, Indices, StepOwn
  <1>6. QED
    BY <1>4, <1>5

LEMMA FlushGood ==
    ASSUME IInv, QInv, FlushTake \/ FlushPush \/ FlushEnds
    PROVE  Good
  <1>1. /\ UNCHANGED <<whand, calls>> /\ HandsKept
        /\ \A c \in Callers : Offering(c)' = Offering(c)
    BY ReaderHands DEF ReaderNext
  <1>2. ContentsAre /\ ContentsAre'
    BY ContentsAt, ContentsNext
  <1>3. CASE FlushTake
    <2>1. /\ batch' = messageBuffer /\ messageBuffer' = <<>>
          /\ UNCHANGED <<writeCh, wire>>
      BY <1>3 DEF FlushTake
    <2>2. Within(BufferBox, BatchBox)
      BY <1>1, <2>1, Indices DEF Within, Others
    <2>3. Pouring(BufferBox, BatchBox)
      BY <1>2, <2>1, <2>2, Indices DEF Pouring, ContentsAre
    <2>4. QED
      BY <2>3, Indices, StepPour
  <1>4. CASE FlushPush
    <2>1. /\ batch # <<>> /\ writeCh' = Append(writeCh, Head(batch))
          /\ batch' = Tail(batch) /\ UNCHANGED <<messageBuffer, wire>>
      BY <1>4 DEF FlushPush
    <2>2. Within(BatchBox, ChanBox)
      BY <1>1, <2>1, Indices DEF Within, Others
    <2>3. Passing(BatchBox, ChanBox)
      BY <1>2, <2>1, <2>2, Indices DEF Passing, ContentsAre
    <2>4. QED
      BY <2>3, Indices, StepPass
  <1>5. CASE FlushEnds
    <2>1. batch' = <<>> /\ UNCHANGED <<messageBuffer, writeCh, wire>>
      BY <1>5 DEF FlushEnds
    <2>2. Others(BatchBox, BatchBox)
      BY <1>1, <2>1 DEF Others
    <2>3. Contents'[BatchBox] = <<>>
      BY <1>2, <2>1 DEF ContentsAre
    <2>4. Counted' /\ SameCounts
      BY <2>1, SilentWire
    <2>5. QED
      BY <1>1, <2>2, <2>3, <2>4, Indices, StepClear
  <1>6. QED
    BY <1>3, <1>4, <1>5

LEMMA WriterGood ==
    ASSUME IInv, QInv, NEW w \in Conns, WriterNext(w)
    PROVE  Good
  <1> DEFINE b == HandBox(w)
  <1>1. /\ UNCHANGED <<messageBuffer, batch, cpc, chand, calls>>
        /\ \A c \in Callers : Offering(c)' = Offering(c)
    BY WriterLeaves DEF Offering
  <1>2. ContentsAre /\ ContentsAre'
    BY ContentsAt, ContentsNext
  <1>3. b \in Index /\ b # ChanBox
    BY Indices DEF Queues
  <1>4. whand \in [Conns -> Seq(Frame)] /\ writeCh \in Seq(Frame)
    BY DEF IInv, TypeOK
  <1>5. CASE WriterLoads(w) \/ WriterCancelled(w)
    <2>1. UNCHANGED <<writeCh, wire, whand>>
      BY <1>5 DEF WriterLoads, WriterCancelled
    <2>2. QED
      BY <1>1, <2>1, QuietGood DEF CalmStep
  <1>6. CASE WriterTakes(w)
    <2>1. /\ writeCh # <<>> /\ writeCh' = Tail(writeCh) /\ UNCHANGED wire
          /\ whand' = [whand EXCEPT ![w] = <<Head(writeCh)>>]
      BY <1>6 DEF WriterTakes
    <2>2. /\ whand'[w] = <<Head(writeCh)>> /\ Head(writeCh) \in Frame
          /\ \A u \in Conns : u # w => whand'[u] = whand[u]
      BY <1>4, <2>1
    <2>3. HandsKept
      BY <2>2 DEF HandsKept, QInv, One
    <2>4. Within(ChanBox, b)
      <3>1. Others(ChanBox, b)
        BY <1>1, <2>2, Indices DEF Others
      <3>2. QED
        BY <1>1, <1>3, <2>1, <2>3, <3>1, Indices DEF Within
    <2>5. Taking(ChanBox, b)
      BY <1>2, <1>3, <2>1, <2>2, <2>4 DEF Taking, ContentsAre
    <2>6. QED
      BY <1>3, <2>5, Indices, StepTake
  <1>7. CASE WriterWrites(w) \/ WriterFails(w)
    <2>1. /\ writeCh' = writeCh /\ whand' = [whand EXCEPT ![w] = <<>>]
          /\ wpc[w] = "write"
          /\ \/ wire' = wire
             \/ wire' = [wire EXCEPT ![wconn[w]] = @ \o whand[w]]
      BY <1>7 DEF WriterWrites, WriterFails, WriterStep
    <2>2. /\ whand'[w] = <<>> /\ \A u \in Conns : u # w => whand'[u] = whand[u]
      BY <1>4, <2>1
    <2>3. HandsKept
      BY <2>2 DEF HandsKept, QInv
    <2>4. Others(b, b) /\ Contents'[b] = <<>>
      BY <1>1, <1>2, <2>1, <2>2 DEF Others, ContentsAre
    <2>5. CASE wire' = wire
      <3>1. Counted' /\ SameCounts
        BY <2>5, SilentWire
      <3>2. QED
        BY <1>1, <1>3, <2>3, <2>4, <3>1, StepClear
    <2>6. CASE wire' = [wire EXCEPT ![wconn[w]] = @ \o whand[w]]
      <3>1. wconn[w] \in Conns
        BY <2>1, BoundsAssumption, SMTT(30) DEF IInv, TypeOK, WriterInv, Conns
      <3>2. CASE whand[w] = <<>>
        <4>1. \A s \in Seq(Frame) : s \o <<>> = s
          BY ConcatEmptySeq
        <4>2. wire' = wire
          BY <2>6, <3>1, <3>2, <4>1 DEF IInv, TypeOK
        <4>3. QED
          BY <2>5, <4>2
      <3>3. CASE whand[w] # <<>>
        <4>1. PICK f \in Frame : whand[w] = <<f>>
          BY <3>3 DEF QInv, One
        <4>2. wire \in [Conns -> Seq(Frame)] /\ TypeOK
          BY DEF IInv, TypeOK
        <4>3. wire[wconn[w]] \o <<f>> = Append(wire[wconn[w]], f)
          BY <3>1, <4>2, AppendIsConcat
        <4>4. wire' = [wire EXCEPT ![wconn[w]] = Append(@, f)]
          BY <2>6, <4>1, <4>3
        <4>5. Contents[b] = <<f>>
          BY <1>2, <4>1 DEF ContentsAre
        <4> HIDE DEF b
        <4>6. QED
          BY <1>1, <1>3, <2>3, <2>4, <3>1, <4>2, <4>4, <4>5, StepWrite
      <3>4. QED
        BY <3>2, <3>3
    <2>7. QED
      BY <2>1, <2>5, <2>6
  <1>8. QED
    BY <1>5, <1>6, <1>7 DEF WriterNext

LEMMA CallGood ==
    ASSUME IInv, QInv, NEW c \in Callers,
           \/ \E q \in Requests : CallConnected(c, q) \/ CallBuffers(c, q)
           \/ CallRefused(c)
    PROVE  Good
  <1> DEFINE b == CallBox(c)
  <1>1. /\ UNCHANGED <<wire, whand, batch, writeCh>> /\ HandsKept
        /\ cpc[c] = "idle" /\ calls < MaxCalls /\ calls' = calls + 1
    BY DEF CallConnected, CallBuffers, CallRefused, CallerStep, Calls, QInv,
           HandsKept
  <1>2. ContentsAre /\ ContentsAre'
    BY ContentsAt, ContentsNext
  <1>3. /\ cpc \in [Callers -> {"idle", "push", "track"}]
        /\ chand \in [Callers -> Seq(Frame)] /\ TypeOK
    BY DEF IInv, TypeOK
  <1>4. b \in Index /\ Offering(c) = <<>>
    BY <1>1, Indices DEF Offering
  <1>5. ASSUME NEW q \in Requests, CallConnected(c, q)
        PROVE  Good
    <2> DEFINE f == Request(c, q)
    <2>1. f \in Frame /\ f.id = calls + 1
      BY <1>1, <1>3, RequestTypes DEF Request
    <2> HIDE DEF f
    <2>2. /\ cpc' = [cpc EXCEPT ![c] = "push"] /\ chand' = [chand EXCEPT ![c] = <<f>>]
          /\ UNCHANGED messageBuffer
      BY <1>5 DEF CallConnected, CallerStep, f
    <2>3. /\ Offering(c)' = <<f>>
          /\ \A d \in Callers : d # c => Offering(d)' = Offering(d)
      BY <1>3, <2>2 DEF Offering
    <2>4. Others(b, b)
      BY <1>1, <2>2, <2>3 DEF Others
    <2>5. Contents'[b] = Append(Contents[b], f)
      <3>1. Append(<<>>, f) = <<f>>
        OBVIOUS
      <3>2. QED
        BY <1>2, <1>4, <2>3, <3>1 DEF ContentsAre
    <2>6. Adding(b, f)
      BY <1>1, <2>1, <2>4, <2>5 DEF Adding
    <2> HIDE DEF b
    <2>7. QED
      BY <1>4, <2>1, <2>6, StepAdd
  <1>6. ASSUME NEW q \in Requests, CallBuffers(c, q)
        PROVE  Good
    <2> DEFINE f == Request(c, q)
    <2>1. f \in Frame /\ f.id = calls + 1
      BY <1>1, <1>3, RequestTypes DEF Request
    <2> HIDE DEF f
    <2>2. /\ cpc' = [cpc EXCEPT ![c] = AfterSend(q[1])]
          /\ \E s \in {<<>>, <<f>>} : chand' = [chand EXCEPT ![c] = s]
          /\ messageBuffer' = Append(messageBuffer, f)
      BY <1>6 DEF CallBuffers, CallerStep, f
    <2>3. \A d \in Callers : Offering(d)' = Offering(d)
      BY <1>3, <1>4, <2>2 DEF Offering, AfterSend
    <2>4. Others(BufferBox, BufferBox)
      BY <1>1, <2>2, <2>3 DEF Others
    <2>5. Contents'[BufferBox] = Append(Contents[BufferBox], f)
      BY <1>2, <2>2 DEF ContentsAre
    <2>6. Adding(BufferBox, f)
      BY <1>1, <2>1, <2>4, <2>5 DEF Adding
    <2>7. QED
      BY <2>1, <2>6, Indices, StepAdd
  <1>7. CASE CallRefused(c)
    <2>1. cpc' = [cpc EXCEPT ![c] = "idle"] /\ UNCHANGED <<chand, messageBuffer>>
      BY <1>7 DEF CallRefused, CallerStep
    <2>2. \A d \in Callers : Offering(d)' = Offering(d)
      BY <1>1, <1>3, <2>1 DEF Offering
    <2>3. QED
      BY <1>1, <2>1, <2>2, StepRefuse
  <1>8. QED
    BY <1>5, <1>6, <1>7

LEMMA PushGood ==
    ASSUME IInv, QInv, NEW c \in Callers, Push(c) \/ PushCancelled(c) \/ Track(c)
    PROVE  Good
  <1> DEFINE b == CallBox(c)
  <1>1. /\ UNCHANGED <<wire, whand, batch, messageBuffer, calls>> /\ HandsKept
        /\ \E pc \in {"idle", "track"} : cpc' = [cpc EXCEPT ![c] = pc]
        /\ \E s : chand' = [chand EXCEPT ![c] = s]
    BY DEF Push, PushCancelled, Track, CallerStep, AfterSend, QInv, HandsKept
  <1>2. ContentsAre /\ ContentsAre'
    BY ContentsAt, ContentsNext
  <1>3. /\ cpc \in [Callers -> {"idle", "push", "track"}]
        /\ chand \in [Callers -> Seq(Frame)] /\ writeCh \in Seq(Frame)
    BY DEF IInv, TypeOK
  <1>4. /\ Offering(c)' = <<>>
        /\ \A d \in Callers : d # c => Offering(d)' = Offering(d)
    BY <1>1, <1>3 DEF Offering
  <1>5. b \in Index /\ b # ChanBox
    BY Indices DEF Queues
  <1>6. CASE Push(c)
    <2>1. writeCh' = writeCh \o chand[c] /\ cpc[c] = "push"
      BY <1>6 DEF Push, CallerStep
    <2>2. PICK f \in Frame : chand[c] = <<f>>
      <3>1. chand[c] \in Seq(Frame) /\ Len(chand[c]) = 1
        BY <1>3, <2>1 DEF IInv, HandInv
      <3>2. chand[c][1] \in Frame /\ chand[c] = <<chand[c][1]>>
        BY <3>1
      <3>3. QED
        BY <3>2
    <2>3. writeCh' = Append(writeCh, f)
      BY <1>3, <2>1, <2>2, AppendIsConcat
    <2>4. Offering(c) = <<f>>
      BY <2>1, <2>2 DEF Offering
    <2>5. Within(b, ChanBox)
      <3>1. Others(b, ChanBox)
        BY <1>1, <1>4 DEF Others
      <3>2. QED
        BY <1>1, <1>5, <3>1, Indices DEF Within
    <2>6. Moving(b, ChanBox, f)
      BY <1>2, <1>4, <1>5, <2>3, <2>4, <2>5 DEF Moving, ContentsAre
    <2> HIDE DEF b
    <2>7. QED
      BY <1>5, <2>6, Indices, StepMove
  <1>7. CASE PushCancelled(c)
    <2>1. writeCh' = writeCh
      BY <1>7 DEF PushCancelled
    <2>2. Others(b, b) /\ Contents'[b] = <<>>
      BY <1>1, <1>2, <1>4, <2>1 DEF Others, ContentsAre
    <2>3. Counted' /\ SameCounts
      BY <1>1, SilentWire
    <2> HIDE DEF b
    <2>4. QED
      BY <1>1, <1>5, <2>2, <2>3, StepClear
  <1>8. CASE Track(c)
    <2>1. writeCh' = writeCh /\ cpc[c] = "track"
      BY <1>8 DEF Track, CallerStep
    <2>2. \A d \in Callers : Offering(d)' = Offering(d)
      BY <1>4, <2>1 DEF Offering
    <2>3. Counted' /\ SameCounts
      BY <1>1, SilentWire
    <2>4. QED
      BY <1>1, <2>1, <2>2, <2>3, StepCalm
  <1>9. QED
    BY <1>6, <1>7, <1>8

LEMMA StepGood == IInv /\ QInv /\ [Next]_vars => Good
  <1> SUFFICES ASSUME IInv, QInv, [Next]_vars PROVE Good
    OBVIOUS
  <1>1. CASE AppNext
    BY <1>1, AppGood
  <1>2. CASE ReaderNext
    BY <1>2, ReaderQuiet, RejoinGood, FlushGood DEF MovingSteps
  <1>3. ASSUME NEW w \in Conns, WriterNext(w) PROVE Good
    BY <1>3, WriterGood
  <1>4. ASSUME NEW c \in Callers, CallerNext(c) PROVE Good
    BY <1>4, CallGood, PushGood DEF CallerNext
  <1>5. CASE LinkNext \/ UNCHANGED vars
    <2>1. CalmStep
      BY <1>5, LinkLeaves DEF CalmStep
    <2>2. QED
      BY <2>1, QuietGood
  <1>6. QED
    BY <1>1, <1>2, <1>3, <1>4, <1>5 DEF Next, AppNext, LinkNext

\* No request is anywhere at the start.
LEMMA InitRequests ==
    Init => /\ QInv /\ Held = {} /\ Counts = [i \in 1 .. MaxCalls |-> 0]
  <1> SUFFICES ASSUME Init
               PROVE  QInv /\ Held = {} /\ Counts = [i \in 1 .. MaxCalls |-> 0]
    OBVIOUS
  <1>1. ASSUME NEW x \in Index PROVE Contents[x] = <<>>
    <2>1. /\ messageBuffer = <<>> /\ writeCh = <<>> /\ batch = <<>>
          /\ \A c \in Callers : Offering(c) = <<>>
          /\ \A w \in Conns : whand[w] = <<>>
      BY DEF Init, Offering
    <2>2. CASE x \in Queues
      BY <2>1, <2>2, ContentsAt DEF ContentsAre, Queues
    <2>3. CASE \E c \in Callers : x = CallBox(c)
      BY <2>1, <2>3, ContentsAt, Zenon DEF ContentsAre
    <2>4. CASE \E w \in Conns : x = HandBox(w)
      BY <2>1, <2>4, ContentsAt, Zenon DEF ContentsAre
    <2>5. QED
      BY <2>2, <2>3, <2>4, Indices, Zenon
  <1>2. Boxes(Index, Frame, Contents, calls)
    <2>1. <<>> \in Seq(Frame)
      OBVIOUS
    <2>2. Contents \in [Index -> Seq(Frame)]
      BY <1>1, <2>1, ContentsAt DEF ContentsAre
    <2>3. OneEach(Index, Contents, calls)
      BY <1>1, IdsEmpty DEF OneEach
    <2>4. calls \in Nat
      BY DEF Init
    <2>5. QED
      BY <2>2, <2>3, <2>4 DEF Boxes
  <1>3. ASSUME NEW i PROVE Times(wire, i) = 0 /\ IsFiniteSet(Places(wire, i))
    BY NothingSent DEF Init
  <1>4. Held = {}
    <2>1. \A x \in Index : Ids(Contents[x]) = {}
      BY <1>1, IdsEmpty
    <2>2. QED
      BY <2>1, HeldIn DEF HeldWhere
  <1>5. \A w \in Conns : whand[w] = <<>>
    BY DEF Init
  <1>6. QED
    BY <1>2, <1>3, <1>4, <1>5 DEF QInv, Counted, Counts

\* The invariant of the client, and that each request is in one place.
THEOREM RequestInvariance == Spec => [](IInv /\ QInv)
  <1>1. Init => QInv
    BY InitRequests
  <1>2. IInv /\ QInv /\ [Next]_vars => QInv'
    BY StepGood DEF Good
  <1>3. QED
    BY InitInv, StepInv, <1>1, <1>2, PTL DEF Spec

\* Every step of the client is one of Outbox, or leaves it alone: whatever is
\* buffered, flushed, handed from writer to writer or tried again, no request
\* is written twice.
THEOREM RequestsSentOnce == Spec => AtMostOnce
  <1>1. Init => Box!Init
    BY InitRequests DEF Init, Box!Init, Counts
  <1>2. IInv /\ QInv /\ [Next]_vars => [Box!Next]_(Box!vars)
    BY StepGood DEF Good
  <1>3. QED
    BY <1>1, <1>2, RequestInvariance, PTL DEF Spec, AtMostOnce, Box!Spec

-----------------------------------------------------------------------------
(* The one connection of a client that does not reconnect.  What goes      *)
(* towards the server is a line: what was written, what the writer has     *)
(* taken, what waits in writeCh.                                           *)

Line == (wire[conn] \o whand[conn]) \o writeCh

OnlyHello(s) == \A i \in DOMAIN s : s[i] = Hello

OneConn ==
    /\ rpc \in {"off", "read", "lost", "noauto", "done"}
    /\ \A w \in Conns : /\ wpc[w] # "off" => w = conn
                        /\ wpc[w] \notin {"load", "write"} => whand[w] = <<>>
    /\ ~started => writeCh = <<>> /\ \A c \in Callers : cpc[c] # "push"
    /\ \A k \in Conns : k # conn \/ ~started => OnlyHello(wire[k])

LEMMA HelloOnly ==
    ASSUME NEW s \in Seq(Frame), OnlyHello(s) PROVE OnlyHello(Append(s, Hello))
  <1> DEFINE t == Append(s, Hello)
  <1>1. /\ t \in Seq(Frame) /\ Len(t) = Len(s) + 1 /\ t[Len(s) + 1] = Hello
        /\ \A i \in 1 .. Len(s) : t[i] = s[i]
    BY FrameTypes, AppendProperties
  <1> HIDE DEF t
  <1>2. ASSUME NEW i \in DOMAIN t PROVE t[i] = Hello
    <2>1. i \in 1 .. Len(s) \/ i = Len(s) + 1
      BY <1>1
    <2>2. QED
      BY <1>1, <2>1 DEF OnlyHello
  <1>3. QED
    BY <1>2 DEF OnlyHello, t

LEMMA OneConnSame ==
    ASSUME OneConn, UNCHANGED <<rpc, wpc, conn, whand, writeCh, cpc, wire>>,
           started => started'
    PROVE  OneConn'
  <1>1. \A k \in Conns : k # conn' \/ ~started' => OnlyHello(wire'[k])
    BY DEF OneConn
  <1>2. QED
    BY <1>1 DEF OneConn

\* Without reconnection the client serves the one connection of Connect.
LEMMA OneConnApp ==
    ASSUME IInv, OneConn, AppNext PROVE OneConn'
  <1> USE BoundsAssumption
  <1> USE DEF IInv, TypeOK, PhaseInv, WriterInv, AppStep
  <1>1. CASE ConnectCall \/ ConnectDialFails
    <2>1. UNCHANGED <<rpc, wpc, conn, whand, writeCh, cpc, wire, started>>
      BY <1>1 DEF ConnectCall, ConnectDialFails
    <2>2. QED
      BY <2>1, OneConnSame
  <1>2. CASE ConnectDials
    BY <1>2 DEF ConnectDials, OneConn, OnlyHello, Hello
  <1>3. CASE ConnectHello
    <2>1. /\ conn \in Conns /\ ~started /\ wire[conn] \in Seq(Frame)
          /\ wire' = [wire EXCEPT ![conn] = Append(@, Hello)]
      BY <1>3 DEF ConnectHello
    <2>2. \A k \in Conns : OnlyHello(wire[k])
      BY <2>1 DEF OneConn
    <2>3. OnlyHello(Append(wire[conn], Hello))
      BY <2>1, <2>2, HelloOnly
    <2>4. \A k \in Conns : OnlyHello(wire'[k])
      BY <2>1, <2>2, <2>3
    <2>5. UNCHANGED <<rpc, wpc, conn, whand, started, writeCh, cpc>>
      BY <1>3 DEF ConnectHello
    <2>6. QED
      BY <2>4, <2>5 DEF OneConn
  <1>4. CASE ConnectHelloFails \/ ConnectUp \/ ConnectSetState
    <2>1. UNCHANGED <<rpc, wpc, conn, whand, writeCh, cpc, wire>>
          /\ (started => started')
      BY <1>4 DEF ConnectHelloFails, ConnectUp, ConnectSetState
    <2>2. QED
      BY <2>1, OneConnSame
  <1>5. CASE ConnectSpawn
    BY <1>5 DEF ConnectSpawn, OneConn
  <1>6. CASE Close \/ CloseSetState \/ CloseConn
    <2>1. UNCHANGED <<rpc, wpc, conn, whand, writeCh, cpc, wire, started>>
      BY <1>6 DEF Close, CloseSetState, CloseConn
    <2>2. QED
      BY <2>1, OneConnSame
  <1>7. QED
    BY <1>1, <1>2, <1>3, <1>4, <1>5, <1>6 DEF AppNext, ConnectNext, CloseNext

\* What is left of the reader when there is no reconnection.
LEMMA PlainReader ==
    ASSUME ~AutoReconnect, OneConn, ReaderNext
    PROVE  /\ UNCHANGED <<started, ctxDone, conn, joinedRooms, queues, net,
                          app, writers, callers>>
           /\ rpc # "off" /\ rpc' \in {"lost", "noauto", "done"}
           /\ connected' => connected
  <1>1. ReadStops \/ ReadLost \/ LostSetState \/ NoAutoReconnect
    BY DEF OneConn, ReaderNext, ReaderStep,
           ReconnectAttempt, GiveUp, WaitElapses, ReaderCancelled, Retry,
           RedialFails, Redials, AssignConn, Rehello, RehelloFails,
           ReconnectUp, ReconnectSetState, RejoinSnapshot, RejoinDone,
           RejoinSend, RejoinFails, FlushTake, FlushPush, FlushEnds,
           Respawn, RejoinBuffers, RejoinPush
  <1>2. QED
    BY <1>1 DEF ReadStops, ReadLost, LostSetState, NoAutoReconnect, ReaderStep

\* What a writer does, when it serves the only connection: it takes the next
\* frame, hands it to the connection, or loses it and ends.
LEMMA PlainWriter ==
    ASSUME IInv, OneConn, NEW w \in Conns, WriterNext(w)
    PROVE  /\ w = conn /\ started
           /\ \/ /\ UNCHANGED <<wire, whand, writeCh>>
                 /\ wpc[w] \in {"load", "write"} <=> wpc'[w] \in {"load", "write"}
              \/ /\ whand[w] = <<>> /\ writeCh # <<>> /\ wire' = wire
                 /\ whand' = [whand EXCEPT ![w] = <<Head(writeCh)>>]
                 /\ writeCh' = Tail(writeCh) /\ wpc'[w] = "load"
              \/ /\ wire' = [wire EXCEPT ![w] = @ \o whand[w]]
                 /\ whand' = [whand EXCEPT ![w] = <<>>] /\ writeCh' = writeCh
              \/ /\ wire' = wire /\ whand' = [whand EXCEPT ![w] = <<>>]
                 /\ writeCh' = writeCh /\ (ctxDone \/ link[w] # "open")
  <1> USE DEF IInv, TypeOK
  <1>1. wpc[w] # "off"
    BY WriterLeaves
  <1>2. w = conn /\ started
    BY <1>1 DEF OneConn, WriterInv, PhaseInv
  <1>3. wpc[w] = "write" => wconn[w] = w
    BY <1>2, BoundsAssumption, SMTT(30) DEF WriterInv, Conns
  <1>4. CASE WriterTakes(w)
    <2>1. wpc[w] = "select" /\ wpc' = [wpc EXCEPT ![w] = "load"]
      BY <1>4 DEF WriterTakes, WriterStep
    <2>2. whand[w] = <<>> /\ wpc'[w] = "load"
      BY <2>1 DEF OneConn
    <2>3. QED
      BY <1>2, <1>4, <2>2 DEF WriterTakes
  <1>5. CASE WriterLoads(w) \/ WriterCancelled(w)
    BY <1>2, <1>5 DEF WriterLoads, WriterCancelled, WriterStep
  <1>6. CASE WriterWrites(w) \/ WriterFails(w)
    <2>1. wpc[w] = "write"
      BY <1>6 DEF WriterWrites, WriterFails, WriterStep
    <2>2. QED
      BY <1>2, <1>3, <1>6, <2>1 DEF WriterWrites, WriterFails
  <1>7. QED
    BY <1>4, <1>5, <1>6 DEF WriterNext

LEMMA OneConnInit == Init => OneConn
PROOF BY DEF Init, OneConn, OnlyHello

LEMMA OneConnStep ==
    ASSUME ~AutoReconnect, IInv, OneConn, [Next]_vars PROVE OneConn'
  <1>1. CASE AppNext
    BY <1>1, OneConnApp
  <1>2. CASE ReaderNext
    BY <1>2, PlainReader DEF OneConn, OnlyHello, Hello
  <1>3. ASSUME NEW w \in Conns, WriterNext(w) PROVE OneConn'
    <2>1. PICK pc \in {"select", "load", "write", "done"} :
              wpc' = [wpc EXCEPT ![w] = pc]
      BY <1>3, WriterLeaves
    <2>2. UNCHANGED <<rpc, conn, started, cpc>> /\ w = conn /\ started
      BY <1>3, PlainWriter, WriterLeaves
    <2>3. ASSUME NEW k \in Conns, k # conn
          PROVE  OnlyHello(wire'[k]) /\ whand'[k] = <<>> /\ wpc'[k] = wpc[k]
      <3>1. /\ whand \in [Conns -> Seq(Frame)] /\ wpc[k] = "off"
            /\ wpc \in [Conns -> {"off", "select", "load", "write", "done"}]
            /\ wire \in [Conns -> Seq(Frame)]
            /\ whand[k] = <<>> /\ OnlyHello(wire[k])
        BY <2>3 DEF IInv, TypeOK, OneConn
      <3>2. /\ wire' = wire \/ wire' = [wire EXCEPT ![w] = @ \o whand[w]]
            /\ \/ whand' = whand
               \/ whand' = [whand EXCEPT ![w] = <<Head(writeCh)>>]
               \/ whand' = [whand EXCEPT ![w] = <<>>]
        BY <1>3, PlainWriter
      <3>3. wire'[k] = wire[k] /\ whand'[k] = whand[k] /\ wpc'[k] = wpc[k]
        BY <2>1, <2>2, <2>3, <3>1, <3>2
      <3>4. QED
        BY <3>1, <3>3
    <2>4. wpc'[w] \notin {"load", "write"} => whand'[w] = <<>>
      <3>1. whand \in [Conns -> Seq(Frame)]
            /\ (wpc[w] \notin {"load", "write"} => whand[w] = <<>>)
        BY DEF IInv, TypeOK, OneConn
      <3>2. \/ /\ whand' = whand
               /\ wpc[w] \in {"load", "write"} <=> wpc'[w] \in {"load", "write"}
            \/ wpc'[w] = "load"
            \/ whand' = [whand EXCEPT ![w] = <<>>]
        BY <1>3, PlainWriter
      <3>3. QED
        BY <3>1, <3>2
    <2>5. QED
      BY <2>2, <2>3, <2>4 DEF OneConn
  <1>4. ASSUME NEW c \in Callers, CallerNext(c) PROVE OneConn'
    <2>1. UNCHANGED <<rpc, wpc, conn, started, whand, wire>>
      BY <1>4, CallerLeaves
    <2>2. ~started => ~connected /\ \A d \in Callers : cpc[d] # "push"
      BY DEF IInv, HelloInv, OneConn
    <2>3. ~started => writeCh' = writeCh /\ \A d \in Callers : cpc'[d] # "push"
      BY <1>4, <2>2 DEF CallerNext, CallerStep, CallConnected, CallBuffers,
         CallRefused, Push, PushCancelled, Track, AfterSend, IInv, TypeOK
    <2>4. QED
      BY <2>1, <2>3 DEF OneConn, OnlyHello, Hello
  <1>5. CASE LinkNext
    BY <1>5, LinkLeaves DEF OneConn, OnlyHello, Hello
  <1>6. CASE UNCHANGED vars
    BY <1>6 DEF OneConn, OnlyHello, Hello
  <1>7. QED
    BY <1>1, <1>2, <1>3, <1>4, <1>5, <1>6 DEF Next, AppNext, LinkNext

-----------------------------------------------------------------------------
(* What the steps do to the line.                                          *)

LEMMA LineTypes ==
    ASSUME TypeOK, conn \in Conns
    PROVE  /\ wire[conn] \in Seq(Frame) /\ whand[conn] \in Seq(Frame)
           /\ writeCh \in Seq(Frame) /\ Line \in Seq(Frame)
PROOF BY DEF TypeOK, Line

\* Connect, Close, the reader and the network leave it alone.
LEMMA LineKept ==
    ASSUME ~AutoReconnect, IInv, OneConn, started,
           AppNext \/ ReaderNext \/ LinkNext \/ UNCHANGED vars
    PROVE  /\ Line' = Line
           /\ UNCHANGED <<started, conn, joinedRooms, cpc, chand, calls>>
  <1>1. CASE AppNext
    <2>1. mpc \notin {"dial", "hello", "up"}
      BY DEF IInv, PhaseInv
    <2>2. UNCHANGED <<started, conn, wire>>
      BY <1>1, <2>1 DEF AppNext, ConnectNext, CloseNext, AppStep,
         ConnectCall, ConnectDialFails, ConnectDials, ConnectHello,
         ConnectHelloFails, ConnectUp, ConnectSetState, ConnectSpawn,
         Close, CloseSetState, CloseConn
    <2>3. QED
      BY <1>1, <2>2, AppLeaves DEF Line
  <1>2. CASE ReaderNext
    BY <1>2, PlainReader DEF Line
  <1>3. CASE LinkNext
    BY <1>3, LinkLeaves DEF Line
  <1>4. CASE UNCHANGED vars
    BY <1>4 DEF Line
  <1>5. QED
    BY <1>1, <1>2, <1>3, <1>4

\* A frame moves from writeCh to the hand of the writer and from there to the
\* connection, and the line stays what it was.
LEMMA MovedAlong ==
    ASSUME NEW F, NEW s \in Seq(F), NEW t \in Seq(F), NEW u \in Seq(F)
    PROVE  /\ u # <<>> => (s \o <<Head(u)>>) \o Tail(u) = (s \o <<>>) \o u
           /\ ((s \o t) \o <<>>) \o u = (s \o t) \o u
           /\ (s \o <<>>) \o u = s \o u
  <1>1. s \o <<>> = s /\ (s \o t) \o <<>> = s \o t
    BY ConcatProperties, ConcatEmptySeq
  <1>2. ASSUME u # <<>> PROVE (s \o <<Head(u)>>) \o Tail(u) = s \o u
    <2>1. /\ <<Head(u)>> \in Seq(F) /\ Tail(u) \in Seq(F)
          /\ <<Head(u)>> \o Tail(u) = u
      BY <1>2, HeadTailProperties
    <2>2. QED
      BY <2>1, ConcatAssociative
  <1>3. QED
    BY <1>1, <1>2

\* The writer moves the line along, or loses the frame that it has in hand.
LEMMA LineWritten ==
    ASSUME IInv, OneConn, NEW w \in Conns, WriterNext(w)
    PROVE  /\ UNCHANGED <<started, conn, joinedRooms, cpc, chand, calls>>
           /\ started
           /\ \/ Line' = Line
              \/ /\ Line' = wire[conn] \o writeCh
                 /\ ctxDone \/ link[conn] # "open"
  <1>1. UNCHANGED <<started, conn, joinedRooms, cpc, chand, calls>>
    BY WriterLeaves
  <1>2. w = conn /\ conn \in Conns /\ started
    BY PlainWriter
  <1>3. /\ wire[conn] \in Seq(Frame) /\ whand[conn] \in Seq(Frame)
        /\ writeCh \in Seq(Frame)
    BY <1>2, LineTypes DEF IInv
  <1>4. wire \in [Conns -> Seq(Frame)] /\ whand \in [Conns -> Seq(Frame)]
    BY DEF IInv, TypeOK
  <1>5. Line' = (wire'[conn] \o whand'[conn]) \o writeCh'
    BY <1>1 DEF Line
  <1>6. CASE UNCHANGED <<wire, whand, writeCh>>
    BY <1>1, <1>2, <1>6 DEF Line
  <1>7. CASE /\ whand[w] = <<>> /\ writeCh # <<>> /\ wire' = wire
             /\ whand' = [whand EXCEPT ![w] = <<Head(writeCh)>>]
             /\ writeCh' = Tail(writeCh)
    <2>1. whand'[conn] = <<Head(writeCh)>> /\ whand[conn] = <<>>
      BY <1>2, <1>4, <1>7
    <2>2. (wire[conn] \o <<Head(writeCh)>>) \o Tail(writeCh) = (wire[conn] \o <<>>) \o writeCh
      BY <1>3, <1>7, MovedAlong
    <2>3. Line' = Line
      BY <1>7, <1>5, <2>1, <2>2, Zenon DEF Line
    <2>4. QED
      BY <1>1, <1>2, <2>3
  <1>8. CASE /\ wire' = [wire EXCEPT ![w] = @ \o whand[w]]
             /\ whand' = [whand EXCEPT ![w] = <<>>] /\ writeCh' = writeCh
    <2>1. wire'[conn] = wire[conn] \o whand[conn] /\ whand'[conn] = <<>>
      BY <1>2, <1>4, <1>8
    <2>2. ((wire[conn] \o whand[conn]) \o <<>>) \o writeCh
             = (wire[conn] \o whand[conn]) \o writeCh
      BY <1>3, MovedAlong
    <2>3. Line' = Line
      BY <1>8, <1>5, <2>1, <2>2, Zenon DEF Line
    <2>4. QED
      BY <1>1, <1>2, <2>3
  <1>9. CASE /\ wire' = wire /\ whand' = [whand EXCEPT ![w] = <<>>]
             /\ writeCh' = writeCh /\ (ctxDone \/ link[w] # "open")
    <2>1. whand'[conn] = <<>>
      BY <1>2, <1>4, <1>9
    <2>2. (wire[conn] \o <<>>) \o writeCh = wire[conn] \o writeCh
      BY <1>3, MovedAlong
    <2>3. Line' = wire[conn] \o writeCh
      BY <1>9, <1>5, <2>1, <2>2, Zenon DEF Line
    <2>4. QED
      BY <1>1, <1>2, <1>9, <2>3
  <1>10. QED
    BY <1>6, <1>7, <1>8, <1>9, PlainWriter

\* Only a caller's push makes the line longer.
LEMMA LinePushed ==
    ASSUME IInv, started, NEW c \in Callers, CallerNext(c)
    PROVE  /\ UNCHANGED <<started, conn>>
           /\ Push(c) => Line' = Line \o chand[c]
           /\ ~Push(c) => Line' = Line
  <1>1. UNCHANGED <<started, conn, wire, whand>>
    BY CallerLeaves
  <1>2. conn \in Conns /\ TypeOK /\ chand[c] \in Seq(Frame)
    BY DEF IInv, PhaseInv, TypeOK
  <1>3. CASE Push(c)
    <2>1. writeCh' = writeCh \o chand[c]
      BY <1>3 DEF Push
    <2> DEFINE ahead == wire[conn] \o whand[conn]
               own == chand[c]
    <2>2. ahead \in Seq(Frame) /\ writeCh \in Seq(Frame) /\ own \in Seq(Frame)
      BY <1>2, LineTypes, ConcatProperties
    <2>3. Line' = ahead \o (writeCh \o own) /\ Line = ahead \o writeCh
      BY <1>1, <2>1 DEF Line
    <2> HIDE DEF ahead, own
    <2>4. (ahead \o writeCh) \o own = ahead \o (writeCh \o own)
      BY <2>2, ConcatAssociative, SMTT(30)
    <2>5. Line' = Line \o own
      BY <2>3, <2>4
    <2>6. QED
      BY <1>1, <1>3, <2>5 DEF own
  <1>4. CASE ~Push(c)
    <2>1. writeCh' = writeCh
      BY <1>4 DEF CallerNext, CallerStep, CallConnected, CallBuffers,
         CallRefused, PushCancelled, Track
    <2>2. QED
      BY <1>1, <1>4, <2>1 DEF Line
  <1>5. QED
    BY <1>1, <1>3, <1>4

-----------------------------------------------------------------------------
(* The order of the requests of a caller: the line is in order, and what a *)
(* caller waits to push is younger than all that it has in the line.       *)

Follows ==
    {p \in Frame \X Frame :
        p[1].by = p[2].by /\ p[1].by \in Callers => p[1].id < p[2].id}

Made(s, n) == \A i \in DOMAIN s : s[i].id <= n

InTurn(s) ==
    /\ Ordered(Follows, s) /\ Made(s, calls)
    /\ \A c \in Callers : cpc[c] = "push" => Ahead(Follows, s, chand[c])

TurnInv ==
    /\ \A c \in Callers :
          cpc[c] = "push" => chand[c][1].by = c /\ chand[c][1].id <= calls
    /\ started => InTurn(Line)

LEMMA TurnInit == Init => TurnInv
PROOF BY DEF Init, TurnInv

\* The hello stands before nothing and behind nothing that has an order.
LEMMA HelloInTurn ==
    ASSUME TypeOK, NEW s \in Seq(Frame), OnlyHello(s)
    PROVE  /\ Ordered(Follows, s) /\ Made(s, calls)
           /\ \A t \in Seq(Frame) : Ahead(Follows, s, t)
  <1>1. Hello \in Frame /\ Hello.id = 0 /\ Hello.by \notin Callers
    BY FrameTypes, SdkAssumption DEF Hello
  <1>2. calls \in Nat
    BY BoundsAssumption DEF TypeOK
  <1>3. \A f \in Frame : <<Hello, f>> \in Follows
    BY <1>1 DEF Follows
  <1>4. QED
    BY <1>1, <1>2, <1>3 DEF OnlyHello, Ordered, Made, Ahead

LEMMA MadeLost ==
    ASSUME NEW s \in Seq(Frame), NEW t \in Seq(Frame), NEW u \in Seq(Frame),
           NEW n, Made((s \o t) \o u, n)
    PROVE  Made(s \o u, n)
  <1> DEFINE a == (s \o t) \o u
             b == s \o u
  <1>1. \A i \in DOMAIN b : \E j \in DOMAIN a : b[i] = a[j]
    <2>1. ASSUME NEW i \in DOMAIN b, i <= Len(s)
          PROVE  i \in DOMAIN a /\ b[i] = a[i]
      BY <2>1
    <2>2. ASSUME NEW i \in DOMAIN b, i > Len(s)
          PROVE  i + Len(t) \in DOMAIN a /\ b[i] = a[i + Len(t)]
      BY <2>2
    <2>3. DOMAIN b \subseteq Nat /\ Len(s) \in Nat
      OBVIOUS
    <2> HIDE DEF a, b
    <2>4. QED
      BY <2>1, <2>2, <2>3
  <1> HIDE DEF a, b
  <1>2. Made(a, n)
    BY DEF a
  <1>3. QED
    BY <1>1, <1>2 DEF Made, b

\* When Connect is done, the line is its hello.
LEMMA TurnStarts ==
    ASSUME IInv, OneConn, TurnInv, ~started, started', [Next]_vars PROVE TurnInv'
  <1>1. ConnectUp
    <2>1. AppNext
      BY ReaderLeaves, WriterLeaves, CallerLeaves, LinkLeaves
      DEF Next, AppNext, LinkNext
    <2>2. QED
      BY <2>1 DEF AppNext, ConnectNext, CloseNext, AppStep,
         ConnectCall, ConnectDialFails, ConnectDials, ConnectHello,
         ConnectHelloFails, ConnectSetState, ConnectSpawn,
         Close, CloseSetState, CloseConn
  <1>2. UNCHANGED <<conn, wire, whand, writeCh, cpc, chand, calls>> /\ mpc = "up"
    BY <1>1 DEF ConnectUp, AppStep
  <1>3. conn \in Conns /\ wpc[conn] = "off"
    BY <1>2 DEF IInv, PhaseInv, WriterInv
  <1>4. wire[conn] \in Seq(Frame) /\ whand[conn] = <<>> /\ writeCh = <<>>
    BY <1>3 DEF IInv, TypeOK, OneConn
  <1>5. Line = wire[conn]
    BY <1>4, ConcatEmptySeq DEF Line
  <1>6. OnlyHello(Line) /\ Line \in Seq(Frame) /\ Line' = Line
    BY <1>2, <1>3, <1>4, <1>5 DEF OneConn, Line
  <1>7. \A c \in Callers : cpc[c] # "push"
    BY DEF OneConn
  <1>8. Ordered(Follows, Line) /\ Made(Line, calls)
    BY <1>6, HelloInTurn DEF IInv
  <1>9. QED
    BY <1>2, <1>6, <1>7, <1>8 DEF TurnInv, InTurn

\* Steps that take nothing into the line, but may lose the frame in hand.
LEMMA TurnKept ==
    ASSUME IInv, TurnInv, started,
           UNCHANGED <<started, conn, cpc, chand, calls>>,
           Line' = Line \/ Line' = wire[conn] \o writeCh
    PROVE  TurnInv'
  <1>1. conn \in Conns /\ TypeOK /\ InTurn(Line)
    BY DEF IInv, PhaseInv, TurnInv
  <1>2. CASE Line' = Line
    BY <1>1, <1>2 DEF TurnInv, InTurn
  <1>3. CASE Line' = wire[conn] \o writeCh
    <2> DEFINE s == wire[conn]
               h == whand[conn]
    <2>1. s \in Seq(Frame) /\ h \in Seq(Frame) /\ writeCh \in Seq(Frame)
      BY <1>1, LineTypes
    <2>2. Line = (s \o h) \o writeCh /\ Line' = s \o writeCh
      BY <1>3 DEF Line
    <2>3. Ordered(Follows, Line')
      <3>1. Ordered(Follows, Line)
        BY <1>1 DEF InTurn
      <3> HIDE DEF s, h
      <3>2. QED
        BY <2>1, <2>2, <3>1, MiddleLost
    <2>4. ASSUME NEW v, Ahead(Follows, Line, v) PROVE Ahead(Follows, Line', v)
      <3> HIDE DEF s, h
      <3>1. QED
        BY <2>1, <2>2, <2>4, MiddleLost
    <2>5. Made(Line', calls)
      <3>1. Made((s \o h) \o writeCh, calls)
        BY <1>1, <2>2 DEF InTurn
      <3> HIDE DEF s, h
      <3>2. Made(s \o writeCh, calls)
        BY <2>1, <3>1, MadeLost
      <3>3. QED
        BY <2>2, <3>2
    <2>6. QED
      BY <1>1, <2>3, <2>4, <2>5 DEF TurnInv, InTurn
  <1>4. QED
    BY <1>2, <1>3

LEMMA MadeLater ==
    ASSUME NEW s \in Seq(Frame), NEW n \in Nat, Made(s, n)
    PROVE  Made(s, n + 1)
  <1>1. \A i \in DOMAIN s : s[i].id \in Nat
    <2>1. \A i \in DOMAIN s : s[i] \in Frame
      OBVIOUS
    <2>2. QED
      BY <2>1, BoundsAssumption DEF Frame
  <1>2. QED
    BY <1>1 DEF Made

\* A new request is younger than all in the line.
LEMMA TurnCalled ==
    ASSUME IInv, TurnInv, started, NEW c \in Callers, NEW q \in Requests,
           CallConnected(c, q)
    PROVE  TurnInv'
  <1> DEFINE m == Request(c, q)
  <1>1. /\ chand' = [chand EXCEPT ![c] = <<m>>] /\ calls' = calls + 1
        /\ cpc' = [cpc EXCEPT ![c] = "push"] /\ calls < MaxCalls
    BY DEF CallConnected, CallerStep, Calls
  <1>2. UNCHANGED <<started, conn>> /\ Line' = Line
    <2>1. ~Push(c) /\ CallerNext(c)
      BY DEF CallConnected, CallerStep, Push, CallerNext
    <2>2. QED
      BY <2>1, LinePushed
  <1>3. m \in Frame /\ m.id = calls + 1 /\ m.by = c
    BY <1>1, RequestTypes DEF IInv, Request
  <1>4. Line \in Seq(Frame) /\ InTurn(Line) /\ calls \in Nat
    BY LineTypes, BoundsAssumption DEF IInv, PhaseInv, TypeOK, TurnInv
  <1> HIDE DEF m
  <1>5. /\ chand'[c] = <<m>> /\ \A d \in Callers : d # c => chand'[d] = chand[d]
        /\ \A d \in Callers : d # c => cpc'[d] = cpc[d]
    BY <1>1 DEF IInv, TypeOK
  <1>6. Ahead(Follows, Line, <<m>>)
    <2>1. ASSUME NEW i \in DOMAIN Line PROVE <<Line[i], m>> \in Follows
      <3>1. Line[i] \in Frame /\ Line[i].id <= calls
        BY <1>4 DEF InTurn, Made
      <3>2. Line[i].id \in Nat
        BY <3>1, BoundsAssumption DEF Frame
      <3>3. QED
        BY <1>3, <1>4, <3>1, <3>2 DEF Follows
    <2>2. DOMAIN <<m>> = {1} /\ <<m>>[1] = m
      OBVIOUS
    <2>3. QED
      BY <2>1, <2>2 DEF Ahead
  <1>7. Made(Line, calls')
    BY <1>1, <1>4, MadeLater DEF InTurn
  <1>8. \A d \in Callers : cpc'[d] = "push" => Ahead(Follows, Line, chand'[d])
    BY <1>4, <1>5, <1>6 DEF InTurn
  <1>9. ASSUME NEW d \in Callers, cpc'[d] = "push"
        PROVE  chand'[d][1].by = d /\ chand'[d][1].id <= calls'
    <2>1. CASE d = c
      BY <1>1, <1>3, <1>4, <1>5, <2>1
    <2>2. CASE d # c
      <3>1. chand[d] \in Seq(Frame) /\ Len(chand[d]) = 1 /\ chand[d][1].id <= calls
            /\ chand[d][1].by = d
        BY <1>5, <1>9, <2>2 DEF IInv, TypeOK, HandInv, TurnInv
      <3>2. chand[d][1] \in Frame
        BY <3>1
      <3>3. chand[d][1].id \in Nat
        BY <3>2, BoundsAssumption DEF Frame
      <3>4. QED
        BY <1>1, <1>4, <1>5, <2>2, <3>1, <3>3
    <2>3. QED
      BY <2>1, <2>2
  <1>10. QED
    BY <1>2, <1>4, <1>7, <1>8, <1>9 DEF TurnInv, InTurn

\* The request of a caller goes behind all in the line; those that others
\* wait to push have no order with it.
LEMMA TurnPushed ==
    ASSUME IInv, TurnInv, started, NEW c \in Callers, Push(c) PROVE TurnInv'
  <1>1. /\ cpc[c] = "push" /\ calls' = calls /\ cpc'[c] # "push"
        /\ cpc' = [cpc EXCEPT ![c] = cpc'[c]]
        /\ \A d \in Callers : d # c => chand'[d] = chand[d]
    BY DEF Push, CallerStep, AfterSend, IInv, TypeOK
  <1>2. UNCHANGED <<started, conn>> /\ Line' = Line \o chand[c]
    BY LinePushed DEF CallerNext
  <1>3. \A d \in Callers : cpc'[d] = "push" => d # c /\ cpc[d] = "push"
    BY <1>1 DEF IInv, TypeOK
  <1>4. /\ Line \in Seq(Frame) /\ InTurn(Line)
        /\ \A d \in Callers : chand[d] \in Seq(Frame)
    BY LineTypes DEF IInv, PhaseInv, TypeOK, TurnInv
  <1>5. /\ Len(chand[c]) = 1 /\ DOMAIN chand[c] = {1} /\ chand[c][1] \in Frame
        /\ chand[c][1].by = c
    BY <1>1, <1>4 DEF IInv, HandInv, TurnInv
  <1> DEFINE s == Line
             f == chand[c]
  <1>6. /\ s \in Seq(Frame) /\ f \in Seq(Frame) /\ Ordered(Follows, s)
        /\ Ahead(Follows, s, f) /\ Made(s, calls)
    BY <1>1, <1>4 DEF InTurn
  <1>7. Ordered(Follows, f)
    BY <1>5 DEF Ordered
  <1>8. f[1].id <= calls
    BY <1>1 DEF TurnInv
  <1>9. ASSUME NEW d \in Callers, cpc[d] = "push", d # c
        PROVE  Ahead(Follows, f, chand[d])
    <2>1. DOMAIN chand[d] = {1} /\ chand[d][1] \in Frame /\ chand[d][1].by = d
      BY <1>4, <1>9 DEF IInv, HandInv, TurnInv
    <2>2. <<f[1], chand[d][1]>> \in Follows
      BY <1>5, <1>9, <2>1 DEF Follows
    <2>3. QED
      BY <1>5, <2>1, <2>2 DEF Ahead
  <1>10. Line' = s \o f
    BY <1>2
  <1>11. DOMAIN f = {1}
    BY <1>5
  <1> HIDE DEF s, f
  <1>12. Ordered(Follows, s \o f)
    BY <1>6, <1>7, OrderedConcat
  <1>13. Made(s \o f, calls)
    <2>1. \A i \in DOMAIN (s \o f) : \/ i \in DOMAIN s /\ (s \o f)[i] = s[i]
                                     \/ i - Len(s) \in DOMAIN f /\ (s \o f)[i] = f[i - Len(s)]
      BY <1>6, ConcatAt
    <2>2. QED
      BY <1>6, <1>8, <1>11, <2>1 DEF Made
  <1>14. ASSUME NEW d \in Callers, cpc[d] = "push", d # c
         PROVE  Ahead(Follows, s \o f, chand[d])
    <2>1. Ahead(Follows, s, chand[d]) /\ Ahead(Follows, f, chand[d])
      BY <1>4, <1>9, <1>14 DEF InTurn, s
    <2>2. QED
      BY <1>6, <2>1, AheadConcat
  <1>15. InTurn(Line)'
    BY <1>1, <1>3, <1>10, <1>12, <1>13, <1>14 DEF InTurn
  <1>16. QED
    BY <1>1, <1>3, <1>15 DEF TurnInv

\* The other steps of a caller only make its request wait no more.
LEMMA TurnCallers ==
    ASSUME IInv, TurnInv, started, NEW c \in Callers, CallerNext(c) PROVE TurnInv'
  <1>1. CASE \E q \in Requests : CallConnected(c, q)
    BY <1>1, TurnCalled
  <1>2. CASE Push(c)
    BY <1>2, TurnPushed
  <1>3. CASE ~Push(c) /\ ~ \E q \in Requests : CallConnected(c, q)
    <2>1. /\ calls' \in {calls, calls + 1} /\ cpc'[c] # "push"
          /\ \A d \in Callers : d # c => cpc'[d] = cpc[d] /\ chand'[d] = chand[d]
      BY <1>3 DEF CallerNext, CallerStep, Calls, CallBuffers, CallRefused,
         PushCancelled, Track, AfterSend, IInv, TypeOK
    <2>2. UNCHANGED <<started, conn>> /\ Line' = Line
      BY <1>3, LinePushed
    <2>3. Line \in Seq(Frame) /\ InTurn(Line) /\ calls \in Nat
      BY LineTypes, BoundsAssumption, SMTT(30)
      DEF IInv, PhaseInv, TypeOK, TurnInv
    <2>4. Made(Line, calls')
      BY <2>1, <2>3, MadeLater DEF InTurn
    <2>5. \A d \in Callers : cpc'[d] = "push" => cpc[d] = "push" /\ chand'[d] = chand[d]
      BY <2>1
    <2>6. ASSUME NEW d \in Callers, cpc[d] = "push" PROVE chand[d][1].id <= calls'
      <3>1. chand[d] \in Seq(Frame) /\ Len(chand[d]) = 1 /\ chand[d][1].id <= calls
        BY <2>6 DEF IInv, TypeOK, HandInv, TurnInv
      <3>2. chand[d][1] \in Frame
        BY <3>1
      <3>3. chand[d][1].id \in Nat
        BY <3>2, BoundsAssumption DEF Frame
      <3>4. QED
        BY <2>1, <2>3, <3>1, <3>3
    <2>7. QED
      BY <2>2, <2>3, <2>4, <2>5, <2>6 DEF TurnInv, InTurn
  <1>4. QED
    BY <1>1, <1>2, <1>3

LEMMA TurnStep ==
    ASSUME ~AutoReconnect, IInv, OneConn, TurnInv, [Next]_vars PROVE TurnInv'
  <1>1. CASE ~started'
    <2>1. \A c \in Callers : cpc'[c] # "push"
      BY <1>1, OneConnStep DEF OneConn
    <2>2. QED
      BY <1>1, <2>1 DEF TurnInv
  <1>2. CASE ~started /\ started'
    BY <1>2, TurnStarts
  <1>3. CASE started
    <2>1. CASE AppNext \/ ReaderNext \/ LinkNext \/ UNCHANGED vars
      BY <1>3, <2>1, LineKept, TurnKept
    <2>2. ASSUME NEW w \in Conns, WriterNext(w) PROVE TurnInv'
      BY <1>3, <2>2, LineWritten, TurnKept
    <2>3. ASSUME NEW c \in Callers, CallerNext(c) PROVE TurnInv'
      BY <1>3, <2>3, TurnCallers
    <2>4. QED
      BY <2>1, <2>2, <2>3 DEF Next, AppNext, LinkNext
  <1>4. QED
    BY <1>1, <1>2, <1>3

\* What was written is the front of the line, so it is in order too; on the
\* connections of a Connect that failed there is nothing but a hello.
LEMMA TurnOrders ==
    ASSUME TypeOK, PhaseInv, OneConn, TurnInv PROVE InOrder
  <1> SUFFICES ASSUME NEW k \in Conns, NEW i \in DOMAIN wire[k],
                      NEW j \in DOMAIN wire[k], i < j,
                      wire[k][i].by = wire[k][j].by, wire[k][i].by \in Callers
               PROVE  wire[k][i].id < wire[k][j].id
    BY DEF InOrder
  <1>1. CASE k # conn \/ ~started
    BY <1>1, SdkAssumption DEF OneConn, OnlyHello, Hello
  <1>2. CASE k = conn /\ started
    <2> DEFINE s == wire[conn]
               t == whand[conn]
    <2>1. s \in Seq(Frame) /\ t \in Seq(Frame) /\ writeCh \in Seq(Frame)
      BY <1>2, LineTypes
    <2>2. Line = (s \o t) \o writeCh /\ i \in DOMAIN s /\ j \in DOMAIN s
      BY <1>2 DEF Line
    <2> HIDE DEF s, t
    <2>3. i \in DOMAIN Line /\ j \in DOMAIN Line /\ Line[i] = s[i] /\ Line[j] = s[j]
      BY <2>1, <2>2
    <2>4. <<s[i], s[j]>> \in Follows
      BY <1>2, <2>3 DEF TurnInv, InTurn, Ordered
    <2>5. QED
      BY <1>2, <2>4 DEF Follows, s
  <1>3. QED
    BY <1>1, <1>2

\* Without reconnection, whatever is buffered, refused or lost, the requests
\* of every caller are written in the order of the calls: its sends go through
\* one channel to one writer.
THEOREM RequestsInOrder ==
    ASSUME ~AutoReconnect PROVE Spec => []InOrder
  <1>1. Init => OneConn /\ TurnInv
    BY OneConnInit, TurnInit
  <1>2. IInv /\ OneConn /\ TurnInv /\ [Next]_vars => OneConn' /\ TurnInv'
    BY OneConnStep, TurnStep
  <1>3. IInv /\ OneConn /\ TurnInv => InOrder
    BY TurnOrders DEF IInv
  <1>4. QED
    BY <1>1, <1>2, <1>3, Invariance, PTL DEF Spec

-----------------------------------------------------------------------------
(* The rooms.  While nothing is lost, a caller that is about to track has  *)
(* the last word of its own in the line, and a room that nobody is about   *)
(* to track is tracked as some caller's last word in the line says.        *)

Tracks(c, r) == cpc[c] = "track" /\ chand[c][1].room = r

Intact == started /\ ~ctxDone /\ link[conn] = "open"

CancelInv == ctxDone => started /\ ~connected

RoomsInv ==
    /\ \A c \in Callers : cpc[c] # "idle" =>
          chand[c][1].kind # "hello" /\ chand[c][1].by = c
    /\ ~started => joinedRooms = {} /\ \A c \in Callers : cpc[c] = "idle"
    /\ Intact =>
        /\ \A c \in Callers, r \in Rooms :
              Tracks(c, r) => LastWord(Line, c, r, chand[c][1].kind)
        /\ \A r \in Rooms : \/ \E c \in Callers : Tracks(c, r)
                            \/ Agrees(Line, r, r \in joinedRooms)

\* A frame at the end of the line is its caller's last word about its room,
\* and takes nobody else's.
LEMMA LastWordNext ==
    ASSUME NEW s \in Seq(Frame), NEW f \in Frame, NEW c, NEW r
    PROVE  /\ Word(f, c, r) => LastWord(s \o <<f>>, c, r, f.kind)
           /\ ~Word(f, c, r) => \A kind : LastWord(s, c, r, kind)
                                    => LastWord(s \o <<f>>, c, r, kind)
  <1> DEFINE t == s \o <<f>>
             n == Len(s) + 1
  <1>1. /\ n \in Nat /\ DOMAIN s \subseteq Nat /\ DOMAIN t = DOMAIN s \cup {n}
        /\ t[n] = f /\ \A i \in DOMAIN s : i < n /\ t[i] = s[i]
    OBVIOUS
  <1> HIDE DEF t, n
  <1>2. ASSUME Word(f, c, r) PROVE LastWord(t, c, r, f.kind)
    <2>1. \A j \in DOMAIN t : ~(j > n)
      BY <1>1
    <2>2. n \in DOMAIN t /\ Word(t[n], c, r) /\ t[n].kind = f.kind
      BY <1>1, <1>2
    <2>3. QED
      BY <2>1, <2>2, Zenon DEF LastWord
  <1>3. ASSUME ~Word(f, c, r), NEW kind, LastWord(s, c, r, kind)
        PROVE  LastWord(t, c, r, kind)
    <2>1. PICK i \in DOMAIN s :
            /\ Word(s[i], c, r) /\ s[i].kind = kind
            /\ \A j \in DOMAIN s : j > i => ~Word(s[j], c, r)
      BY <1>3, Zenon DEF LastWord
    <2>2. i \in DOMAIN t /\ t[i] = s[i]
      BY <1>1
    <2>3. ASSUME NEW j \in DOMAIN t, j > i PROVE ~Word(t[j], c, r)
      <3>1. CASE j = n
        BY <1>1, <1>3, <3>1
      <3>2. CASE j \in DOMAIN s
        <4>1. ~Word(s[j], c, r) /\ t[j] = s[j]
          BY <1>1, <2>1, <2>3, <3>2
        <4>2. QED
          BY <4>1
      <3>3. QED
        BY <1>1, <3>1, <3>2
    <2>4. QED
      BY <2>1, <2>2, <2>3, Zenon DEF LastWord
  <1>4. QED
    BY <1>2, <1>3 DEF t

\* A frame that says nothing of a room changes nothing about it.
LEMMA AgreesNext ==
    ASSUME NEW s \in Seq(Frame), NEW f \in Frame, NEW r, NEW b \in BOOLEAN,
           Agrees(s, r, b), \A c \in Callers : ~Word(f, c, r)
    PROVE  Agrees(s \o <<f>>, r, b)
  <1>1. CASE \E c \in Callers : LastWord(s, c, r, IF b THEN "join" ELSE "leave")
    BY <1>1, LastWordNext, Zenon DEF Agrees
  <1>2. CASE ~b /\ \A c \in Callers, i \in DOMAIN s : ~Word(s[i], c, r)
    <2> DEFINE t == s \o <<f>>
               n == Len(s) + 1
    <2>1. /\ DOMAIN t = DOMAIN s \cup {n} /\ t[n] = f
          /\ \A i \in DOMAIN s : t[i] = s[i]
      OBVIOUS
    <2> HIDE DEF t, n
    <2>2. \A c \in Callers, i \in DOMAIN t : ~Word(t[i], c, r)
      BY <1>2, <2>1
    <2>3. QED
      BY <1>2, <2>2, Zenon DEF Agrees, t
  <1>3. QED
    BY <1>1, <1>2, Zenon DEF Agrees

\* Close cancels the context of a client that it also disconnects.
LEMMA CancelStep ==
    ASSUME ~AutoReconnect, IInv, OneConn, CancelInv, [Next]_vars PROVE CancelInv'
  <1>1. CASE AppNext
    <2>1. mpc = "up" => ~started
      BY DEF IInv, PhaseInv
    <2>2. QED
      BY <1>1, <2>1 DEF CancelInv, AppNext, ConnectNext, CloseNext, AppStep,
         ConnectCall, ConnectDialFails, ConnectDials, ConnectHello,
         ConnectHelloFails, ConnectUp, ConnectSetState, ConnectSpawn,
         Close, CloseSetState, CloseConn
  <1>2. CASE ReaderNext
    BY <1>2, PlainReader DEF CancelInv
  <1>3. ASSUME NEW w \in Conns, WriterNext(w) PROVE CancelInv'
    BY <1>3, WriterLeaves DEF CancelInv
  <1>4. ASSUME NEW c \in Callers, CallerNext(c) PROVE CancelInv'
    BY <1>4, CallerLeaves DEF CancelInv
  <1>5. CASE LinkNext
    BY <1>5, LinkLeaves DEF CancelInv
  <1>6. CASE UNCHANGED vars
    BY <1>6 DEF CancelInv
  <1>7. QED
    BY <1>1, <1>2, <1>3, <1>4, <1>5, <1>6 DEF Next, AppNext, LinkNext

\* What is cancelled or cut stays so.
LEMMA IntactBefore ==
    ASSUME ~AutoReconnect, IInv, OneConn, started, [Next]_vars, Intact'
    PROVE  Intact
  <1> USE DEF Intact
  <1>1. CASE AppNext
    <2>1. mpc \notin {"dial", "hello", "up"}
      BY DEF IInv, PhaseInv
    <2>2. conn \in Conns /\ link \in [Conns -> {"unused", "open", "normal", "down"}]
      BY DEF IInv, PhaseInv, TypeOK
    <2>3. ~Close
      BY Zenon DEF Close
    <2>4. UNCHANGED <<conn, ctxDone, link>> \/ CloseConn
      BY <1>1, <2>1, <2>3 DEF AppNext, ConnectNext, CloseNext, AppStep,
         ConnectCall, ConnectDialFails, ConnectDials, ConnectHello,
         ConnectHelloFails, ConnectUp, ConnectSetState, ConnectSpawn,
         CloseSetState
    <2>5. ~CloseConn
      BY <2>2 DEF CloseConn
    <2>6. QED
      BY <2>4, <2>5
  <1>2. CASE ReaderNext
    BY <1>2, PlainReader
  <1>3. ASSUME NEW w \in Conns, WriterNext(w) PROVE Intact
    BY <1>3, WriterLeaves
  <1>4. ASSUME NEW c \in Callers, CallerNext(c) PROVE Intact
    BY <1>4, CallerLeaves
  <1>5. CASE LinkNext
    <2>1. PICK k \in Conns : LinkDrops(k) \/ ServerCloses(k)
      BY <1>5 DEF LinkNext
    <2>2. /\ UNCHANGED <<conn, ctxDone>>
          /\ \/ link' = [link EXCEPT ![k] = "down"]
             \/ link' = [link EXCEPT ![k] = "normal"]
      BY <2>1 DEF LinkDrops, ServerCloses, LinkChanges
    <2>3. conn \in Conns /\ DOMAIN link = Conns
      BY DEF IInv, TypeOK, PhaseInv
    <2>4. link[conn] = "open"
      BY <2>2, <2>3
    <2>5. QED
      BY <2>2, <2>4
  <1>6. CASE UNCHANGED vars
    BY <1>6
  <1>7. QED
    BY <1>1, <1>2, <1>3, <1>4, <1>5, <1>6 DEF Next, AppNext, LinkNext

LEMMA RoomsInit == Init => CancelInv /\ RoomsInv
PROOF BY DEF Init, CancelInv, RoomsInv, Intact

\* When Connect is done nothing was joined.
LEMMA RoomsStart ==
    ASSUME IInv, OneConn, CancelInv, RoomsInv, ~started, started', [Next]_vars
    PROVE  RoomsInv'
  <1>1. CASE ConnectUp
    <2>1. UNCHANGED <<conn, wire, whand, writeCh, joinedRooms, cpc, chand>>
          /\ mpc = "up"
      BY <1>1 DEF ConnectUp, AppStep
    <2>2. conn \in Conns /\ wpc[conn] = "off"
      BY <2>1 DEF IInv, PhaseInv, WriterInv
    <2>3. wire[conn] \in Seq(Frame) /\ whand[conn] = <<>> /\ writeCh = <<>>
      BY <2>2 DEF IInv, TypeOK, OneConn
    <2>4. Line = wire[conn]
      BY <2>3, ConcatEmptySeq DEF Line
    <2>5. OnlyHello(Line) /\ Line' = Line
      BY <2>1, <2>2, <2>4 DEF OneConn, Line
    <2>6. \A c \in Callers, r \in Rooms, i \in DOMAIN Line : ~Word(Line[i], c, r)
      BY <2>5 DEF Word, OnlyHello, Hello
    <2>7. joinedRooms' = {} /\ \A c \in Callers : cpc'[c] = "idle"
      BY <2>1 DEF RoomsInv
    <2>8. \A r \in Rooms : Agrees(Line, r, FALSE)
      BY <2>6 DEF Agrees
    <2>9. ASSUME NEW r \in Rooms PROVE Agrees(Line', r, r \in joinedRooms')
      <3>1. (r \in joinedRooms') = FALSE
        BY <2>7
      <3>2. QED
        BY <2>5, <2>8, <3>1, Zenon
    <2>10. QED
      BY <2>7, <2>9 DEF RoomsInv, Tracks
  <1>2. ConnectUp
    <2>1. AppNext
      BY ReaderLeaves, WriterLeaves, CallerLeaves, LinkLeaves
      DEF Next, AppNext, LinkNext
    <2>2. QED
      BY <2>1 DEF AppNext, ConnectNext, CloseNext, AppStep,
         ConnectCall, ConnectDialFails, ConnectDials, ConnectHello,
         ConnectHelloFails, ConnectSetState, ConnectSpawn,
         Close, CloseSetState, CloseConn
  <1>3. QED
    BY <1>1, <1>2

\* Steps that touch neither callers nor rooms.
LEMMA RoomsKept ==
    ASSUME RoomsInv, UNCHANGED <<started, joinedRooms, cpc, chand>>,
           Intact' => Intact /\ Line' = Line
    PROVE  RoomsInv'
  <1>1. \A c, r : Tracks(c, r)' <=> Tracks(c, r)
    BY DEF Tracks
  <1>2. ASSUME Intact', NEW c \in Callers, NEW r \in Rooms, Tracks(c, r)'
        PROVE  LastWord(Line', c, r, chand'[c][1].kind)
    <2>1. LastWord(Line, c, r, chand[c][1].kind) /\ Line' = Line /\ chand' = chand
      BY <1>1, <1>2 DEF RoomsInv
    <2>2. QED
      BY <2>1, Zenon
  <1>3. ASSUME Intact', NEW r \in Rooms, \A c \in Callers : ~Tracks(c, r)'
        PROVE  Agrees(Line', r, r \in joinedRooms')
    <2>1. Agrees(Line, r, r \in joinedRooms)
      BY <1>1, <1>3 DEF RoomsInv
    <2>2. Line' = Line /\ joinedRooms' = joinedRooms
      BY <1>3
    <2>3. QED
      BY <2>1, <2>2, Zenon
  <1>4. QED
    BY <1>2, <1>3 DEF RoomsInv

\* Without a buffer, a request has its caller's last word about its room, and
\* that is what the caller tracks next.
LEMMA RoomsPushed ==
    ASSUME IInv, RoomsInv, started, NEW c \in Callers, Push(c),
           Intact' => Intact
    PROVE  RoomsInv'
  <1> DEFINE f == chand[c][1]
  <1>1. /\ chand[c] \in Seq(Frame) /\ Len(chand[c]) = 1 /\ cpc[c] = "push"
        /\ cpc'[c] = IF f.kind = "msg" THEN "idle" ELSE "track"
        /\ f.kind # "msg" => chand'[c] = chand[c]
        /\ \A d \in Callers : d # c => cpc'[d] = cpc[d] /\ chand'[d] = chand[d]
        /\ UNCHANGED <<started, joinedRooms>>
    BY LinePushed
    DEF Push, CallerStep, AfterSend, IInv, TypeOK, HandInv, CallerNext
  <1>2. /\ f \in Frame /\ chand[c] = <<f>> /\ f.kind \in {"join", "leave", "msg"}
        /\ f.by = c
    <2>1. f \in Frame /\ chand[c] = <<f>>
      BY <1>1
    <2>2. f.kind # "hello" /\ f.by = c
      BY <1>1 DEF RoomsInv
    <2> HIDE DEF f
    <2>3. QED
      BY <2>1, <2>2 DEF Frame
  <1>3. Line' = Line \o <<f>> /\ Line \in Seq(Frame)
    BY <1>2, LinePushed, LineTypes DEF CallerNext, IInv, PhaseInv
  <1>4. ASSUME NEW d \in Callers, NEW r \in Rooms, d # c
        PROVE  ~Word(f, d, r) /\ (Tracks(d, r)' <=> Tracks(d, r))
    BY <1>1, <1>2, <1>4 DEF Word, Tracks
  <1>5. ASSUME NEW r \in Rooms
        PROVE  Tracks(c, r)' <=> Word(f, c, r)
    BY <1>1, <1>2 DEF Word, Tracks
  <1> HIDE DEF f
  <1>6. ASSUME Intact', NEW d \in Callers, NEW r \in Rooms, Tracks(d, r)'
        PROVE  LastWord(Line', d, r, chand'[d][1].kind)
    <2>1. CASE d = c
      <3>1. Word(f, c, r) /\ chand'[c] = chand[c]
        BY <1>1, <1>5, <1>6, <2>1 DEF Word
      <3>2. LastWord(Line \o <<f>>, c, r, f.kind)
        BY <1>2, <1>3, <3>1, LastWordNext
      <3>3. chand'[c][1].kind = f.kind
        BY <3>1 DEF f
      <3>4. QED
        BY <1>3, <2>1, <3>2, <3>3, Zenon
    <2>2. CASE d # c
      <3>1. LastWord(Line, d, r, chand[d][1].kind)
        BY <1>4, <1>6, <2>2 DEF RoomsInv
      <3>2. LastWord(Line \o <<f>>, d, r, chand[d][1].kind)
        BY <1>2, <1>3, <1>4, <2>2, <3>1, LastWordNext
      <3>3. chand'[d] = chand[d]
        BY <1>1, <2>2
      <3>4. QED
        BY <1>3, <3>2, <3>3, Zenon
    <2>3. QED
      BY <2>1, <2>2
  <1>7. ASSUME Intact', NEW r \in Rooms, \A d \in Callers : ~Tracks(d, r)'
        PROVE  Agrees(Line', r, r \in joinedRooms')
    <2>1. \A d \in Callers : ~Word(f, d, r)
      BY <1>4, <1>5, <1>7
    <2>2. \A d \in Callers : ~Tracks(d, r)
      <3>1. ~Tracks(c, r)
        BY <1>1 DEF Tracks
      <3>2. QED
        BY <1>4, <1>7, <3>1
    <2>3. Agrees(Line, r, r \in joinedRooms)
      BY <1>7, <2>2 DEF RoomsInv
    <2>4. Agrees(Line \o <<f>>, r, r \in joinedRooms)
      <3> DEFINE b == r \in joinedRooms
      <3>1. b \in BOOLEAN /\ Agrees(Line, r, b)
        BY <2>3
      <3> HIDE DEF b
      <3>2. Agrees(Line \o <<f>>, r, b)
        BY <1>2, <1>3, <2>1, <3>1, AgreesNext
      <3>3. QED
        BY <3>2 DEF b
    <2>5. QED
      BY <1>1, <1>3, <2>4, Zenon
  <1>8. ASSUME NEW d \in Callers, cpc'[d] # "idle"
        PROVE  chand'[d][1].kind # "hello" /\ chand'[d][1].by = d
    <2>1. CASE d = c
      BY <1>1, <1>2, <1>8, <2>1 DEF f
    <2>2. CASE d # c
      BY <1>1, <1>8, <2>2 DEF RoomsInv
    <2>3. QED
      BY <2>1, <2>2
  <1>9. QED
    BY <1>1, <1>6, <1>7, <1>8 DEF RoomsInv

\* The tracking brings joinedRooms to what its caller said last.
LEMMA RoomsTrack ==
    ASSUME IInv, RoomsInv, started, NEW c \in Callers, Track(c),
           Intact' => Intact
    PROVE  RoomsInv'
  <1> DEFINE f == chand[c][1]
  <1>1. /\ cpc[c] = "track" /\ cpc'[c] = "idle"
        /\ \A d \in Callers : d # c => cpc'[d] = cpc[d] /\ chand'[d] = chand[d]
        /\ joinedRooms' = IF f.kind = "join" THEN joinedRooms \cup {f.room}
                                             ELSE joinedRooms \ {f.room}
    BY DEF Track, CallerStep, IInv, TypeOK
  <1>2. UNCHANGED started /\ Line' = Line
    <2>1. ~Push(c) /\ CallerNext(c)
      BY DEF Track, Push, CallerStep, CallerNext
    <2>2. QED
      BY <2>1, LinePushed
  <1>3. /\ \A r : ~Tracks(c, r)'
        /\ \A r : Tracks(c, r) <=> f.room = r
        /\ \A d \in Callers, r \in Rooms : d # c => (Tracks(d, r)' <=> Tracks(d, r))
    BY <1>1 DEF Tracks
  <1> HIDE DEF f
  <1>4. ASSUME Intact', NEW d \in Callers, NEW r \in Rooms, Tracks(d, r)'
        PROVE  LastWord(Line', d, r, chand'[d][1].kind)
    <2>1. d # c
      BY <1>3, <1>4
    <2>2. LastWord(Line, d, r, chand[d][1].kind) /\ chand'[d] = chand[d]
      BY <1>1, <1>3, <1>4, <2>1 DEF RoomsInv
    <2>3. QED
      BY <1>2, <2>2, Zenon
  <1>5. ASSUME Intact', NEW r \in Rooms, \A d \in Callers : ~Tracks(d, r)'
        PROVE  Agrees(Line', r, r \in joinedRooms')
    <2>1. CASE f.room = r
      <3>1. LastWord(Line, c, r, f.kind)
        BY <1>3, <1>5, <2>1 DEF RoomsInv, f
      <3>2. f.kind \in {"join", "leave"}
        BY <3>1 DEF LastWord, Word
      <3>3. f.kind = IF r \in joinedRooms' THEN "join" ELSE "leave"
        BY <1>1, <2>1, <3>2
      <3>4. LastWord(Line', c, r, IF r \in joinedRooms' THEN "join" ELSE "leave")
        BY <1>2, <3>1, <3>3, Zenon
      <3>5. QED
        BY <3>4, Zenon DEF Agrees
    <2>2. CASE f.room # r
      <3>1. \A d \in Callers : ~Tracks(d, r)
        BY <1>3, <1>5, <2>2
      <3>2. Agrees(Line, r, r \in joinedRooms)
        BY <1>5, <3>1 DEF RoomsInv
      <3>3. (r \in joinedRooms') = (r \in joinedRooms)
        BY <1>1, <2>2
      <3>4. QED
        BY <1>2, <3>2, <3>3, Zenon
    <2>3. QED
      BY <2>1, <2>2
  <1>6. ASSUME NEW d \in Callers, cpc'[d] # "idle"
        PROVE  chand'[d][1].kind # "hello" /\ chand'[d][1].by = d
    BY <1>1, <1>6 DEF RoomsInv
  <1>7. QED
    BY <1>2, <1>4, <1>5, <1>6 DEF RoomsInv

\* The other steps of a caller: nothing enters the line or joinedRooms.
LEMMA RoomsOther ==
    ASSUME ~BufferMessages, IInv, RoomsInv, started,
           NEW c \in Callers, CallerNext(c), ~Push(c), ~Track(c),
           Intact' => Intact
    PROVE  RoomsInv'
  <1>1. UNCHANGED <<started, conn>> /\ Line' = Line
    BY LinePushed
  <1>2. /\ joinedRooms' = joinedRooms /\ cpc[c] # "track" /\ cpc'[c] # "track"
        /\ \A d \in Callers : d # c => cpc'[d] = cpc[d] /\ chand'[d] = chand[d]
    BY DEF CallerNext, CallerStep, CallConnected, CallBuffers, CallRefused,
       PushCancelled, IInv, TypeOK
  <1>3. cpc'[c] # "idle" => chand'[c][1].kind # "hello" /\ chand'[c][1].by = c
    <2>1. CASE \E q \in Requests : CallConnected(c, q)
      <3>1. PICK q \in Requests : CallConnected(c, q)
        BY <2>1
      <3>2. chand'[c] = <<Request(c, q)>>
        BY <3>1 DEF CallConnected, IInv, TypeOK
      <3>3. Request(c, q).kind = q[1] /\ q[1] \in Kinds /\ Request(c, q).by = c
        BY DEF Request, Requests
      <3>4. QED
        BY <3>2, <3>3, KindsAssumption
    <2>2. CASE ~ \E q \in Requests : CallConnected(c, q)
      BY <2>2 DEF CallerNext, CallerStep, CallBuffers, CallRefused,
         PushCancelled, IInv, TypeOK
    <2>3. QED
      BY <2>1, <2>2
  <1>4. \A d \in Callers, r \in Rooms :
            /\ Tracks(d, r)' <=> Tracks(d, r)
            /\ Tracks(d, r) => chand'[d] = chand[d]
    BY <1>2 DEF Tracks
  <1>5. ASSUME Intact', NEW d \in Callers, NEW r \in Rooms, Tracks(d, r)'
        PROVE  LastWord(Line', d, r, chand'[d][1].kind)
    <2>1. LastWord(Line, d, r, chand[d][1].kind) /\ chand'[d] = chand[d]
      BY <1>4, <1>5 DEF RoomsInv
    <2>2. QED
      BY <1>1, <2>1, Zenon
  <1>6. ASSUME Intact', NEW r \in Rooms, \A d \in Callers : ~Tracks(d, r)'
        PROVE  Agrees(Line', r, r \in joinedRooms')
    <2>1. Agrees(Line, r, r \in joinedRooms)
      BY <1>4, <1>6 DEF RoomsInv
    <2>2. QED
      BY <1>1, <1>2, <2>1, Zenon
  <1>7. ASSUME NEW d \in Callers, cpc'[d] # "idle"
        PROVE  chand'[d][1].kind # "hello" /\ chand'[d][1].by = d
    BY <1>2, <1>3, <1>7 DEF RoomsInv
  <1>8. QED
    BY <1>1, <1>5, <1>6, <1>7 DEF RoomsInv

LEMMA RoomsFresh ==
    ASSUME ~BufferMessages, IInv, RoomsInv, ~started', [Next]_vars
    PROVE  RoomsInv'
  <1>1. ~started
    BY AppLeaves, ReaderLeaves, WriterLeaves, CallerLeaves, LinkLeaves
    DEF Next, ConnectNext, CloseNext, AppStep, ConnectCall, ConnectDialFails,
        ConnectDials, ConnectHello, ConnectHelloFails, ConnectUp,
        ConnectSetState, ConnectSpawn, Close, CloseSetState, CloseConn,
        LinkNext
  <1>2. joinedRooms = {} /\ ~connected /\ \A c \in Callers : cpc[c] = "idle"
    BY <1>1 DEF RoomsInv, IInv, HelloInv
  <1>3. joinedRooms' = {} /\ \A c \in Callers : cpc'[c] = "idle"
    <2>1. ASSUME NEW c \in Callers, CallerNext(c)
          PROVE  UNCHANGED joinedRooms /\ \A d \in Callers : cpc'[d] = "idle"
      BY <1>2, <2>1 DEF CallerNext, CallerStep, CallConnected, CallBuffers,
         CallRefused, Push, PushCancelled, Track, IInv, TypeOK
    <2>2. QED
      BY <1>2, <2>1, AppLeaves, ReaderLeaves, WriterLeaves, LinkLeaves
      DEF Next, AppNext, LinkNext
  <1>4. QED
    BY <1>3 DEF RoomsInv, Intact

LEMMA RoomsStep ==
    ASSUME ~AutoReconnect, ~BufferMessages,
           IInv, OneConn, CancelInv, RoomsInv, [Next]_vars
    PROVE  RoomsInv'
  <1>1. CASE ~started'
    BY <1>1, RoomsFresh
  <1>2. CASE ~started /\ started'
    BY <1>2, RoomsStart
  <1>3. CASE started
    <2>1. Intact' => Intact
      BY <1>3, IntactBefore
    <2>2. CASE AppNext \/ ReaderNext \/ LinkNext \/ UNCHANGED vars
      BY <1>3, <2>1, <2>2, LineKept, RoomsKept
    <2>3. ASSUME NEW w \in Conns, WriterNext(w) PROVE RoomsInv'
      <3>1. /\ UNCHANGED <<started, conn, ctxDone, link, joinedRooms, cpc, chand>>
            /\ Line' = Line \/ ctxDone \/ link[conn] # "open"
        BY <2>3, LineWritten, WriterLeaves
      <3>2. Intact' => Intact /\ Line' = Line
        BY <3>1 DEF Intact
      <3>3. QED
        BY <3>1, <3>2, RoomsKept
    <2>4. ASSUME NEW c \in Callers, CallerNext(c) PROVE RoomsInv'
      BY <1>3, <2>1, <2>4, RoomsPushed, RoomsTrack, RoomsOther
    <2>5. QED
      BY <2>2, <2>3, <2>4 DEF Next, AppNext, LinkNext
  <1>4. QED
    BY <1>1, <1>2, <1>3

LEMMA RoomsWhenQuiet ==
    ASSUME IInv, OneConn, CancelInv, RoomsInv PROVE RoomsAgree
  <1> SUFFICES ASSUME Quiet, NEW r \in Rooms
               PROVE  Agrees(wire[conn], r, r \in joinedRooms)
    BY Zenon DEF RoomsAgree
  <1>1. started /\ conn \in Conns /\ Intact
    BY DEF Quiet, Intact, CancelInv, IInv, HelloInv
  <1>2. wire[conn] \in Seq(Frame) /\ whand[conn] = <<>> /\ writeCh = <<>>
    BY <1>1 DEF Quiet, IInv, TypeOK
  <1>3. Line = wire[conn]
    BY <1>2, ConcatEmptySeq DEF Line
  <1>4. \A c \in Callers : ~Tracks(c, r)
    BY DEF Quiet, Tracks
  <1>5. Agrees(Line, r, r \in joinedRooms)
    BY <1>1, <1>4 DEF RoomsInv
  <1>6. QED
    BY <1>3, <1>5, Zenon

\* A client that neither reconnects nor buffers (the default configuration)
\* tracks its rooms, whoever joins and leaves them at the same time, as the
\* wire has them: whenever nothing is in flight, a room is tracked as the last
\* word of one of its callers says, and not tracked if nobody spoke of it.
THEOREM RoomsFollowTheWire ==
    ASSUME ~AutoReconnect, ~BufferMessages PROVE Spec => []RoomsAgree
  <1>1. Init => OneConn /\ CancelInv /\ RoomsInv
    BY OneConnInit, RoomsInit
  <1>2. IInv /\ OneConn /\ CancelInv /\ RoomsInv /\ [Next]_vars
            => OneConn' /\ CancelInv' /\ RoomsInv'
    BY OneConnStep, CancelStep, RoomsStep
  <1>3. IInv /\ OneConn /\ CancelInv /\ RoomsInv => RoomsAgree
    BY RoomsWhenQuiet
  <1>4. QED
    BY <1>1, <1>2, <1>3, Invariance, PTL DEF Spec
=============================================================================
