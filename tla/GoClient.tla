------------------------------ MODULE GoClient ------------------------------
(***************************************************************************)
(* The WebSocket client of the Go SDK (wirechat-sdk-go/wirechat/client.go):*)
(* the application's Connect and Close, the concurrent Join, Leave and     *)
(* Send, the reader goroutine with its reconnection, and the writer        *)
(* goroutines, one per connection.                                         *)
(*                                                                         *)
(* A step is one critical section of Client.mu, one channel operation, one *)
(* call on a connection or one access to a field that the code touches     *)
(* without the lock (conn, cancel).  Connections are numbered in the order *)
(* they are dialled; 0 is the nil connection.                              *)
(*                                                                         *)
(* Usage assumed, as the README of the client asks: Connect is called      *)
(* again only after it failed, Close comes last and not during a Connect;  *)
(* Join, Leave and Send may be called by anybody at any time.              *)
(***************************************************************************)
EXTENDS Naturals, Sequences

CONSTANTS
    Callers,            \* goroutines that call Join, Leave and Send
    Handlers,           \* those that are event callbacks, run by the reader
    Rooms, NoRoom,      \* room names; the room of a frame that needs none
    Kinds,              \* the requests the callers make: join, leave, msg
    AutoReconnect, BufferMessages,      \* fields of Config
    MaxBufferSize, MaxReconnectTries,   \* fields of Config
    ChanCap,            \* capacity of writeCh (16 in NewClient)
    MaxConns,           \* bound: connections dialled
    MaxCalls,           \* bound: calls of Join, Leave and Send
    MaxAttempt          \* bound: reconnectAttempt stays there

ASSUME CallersAssumption == Handlers \subseteq Callers
ASSUME RoomsAssumption == NoRoom \notin Rooms
ASSUME KindsAssumption == Kinds \subseteq {"join", "leave", "msg"}
ASSUME ConfigAssumption ==
    /\ AutoReconnect \in BOOLEAN /\ BufferMessages \in BOOLEAN
    /\ MaxBufferSize \in Nat /\ MaxReconnectTries \in Nat
    /\ ChanCap \in Nat \ {0}
ASSUME BoundsAssumption ==
    /\ MaxConns \in Nat \ {0} /\ MaxCalls \in Nat
    /\ MaxAttempt \in Nat /\ MaxAttempt > MaxReconnectTries

VARIABLES
    state,              \* c.state
    connected,          \* c.connected
    started,            \* c.cancel # nil
    conn,               \* c.conn
    joinedRooms,        \* c.joinedRooms
    reconnectAttempt,   \* c.reconnectAttempt
    messageBuffer,      \* c.messageBuffer
    writeCh,            \* c.writeCh
    ctxDone,            \* the context of the loops is cancelled
    link,               \* what the library knows of each connection
    wire,               \* the frames handed to each connection
    mpc, closed,        \* the application: its place; Close was called
    rpc, todo, batch,   \* the reader: its place, rejoinRooms, flushBuffer
    wpc, whand, wconn,  \* the writers: place, frame taken, c.conn as read
    cpc, chand, calls   \* the callers: place, frame; calls made so far

session == <<started, ctxDone>>
status == <<state, connected>>
queues == <<messageBuffer, writeCh>>
net == <<link, wire>>
app == <<mpc, closed>>
reader == <<rpc, todo, batch>>
writers == <<wpc, whand, wconn>>
callers == <<cpc, chand, calls>>
vars == <<session, status, conn, joinedRooms, reconnectAttempt, queues, net,
          app, reader, writers, callers>>

Conns == 1 .. MaxConns

States == {"disconnected", "connecting", "connected", "reconnecting",
           "error", "closed"}

(***************************************************************************)
(* Frames.  A call of the application has an identity, so that a frame can *)
(* be followed; the hello and the joins of rejoinRooms have identity 0.    *)
(***************************************************************************)
Sdk == "sdk"

ASSUME SdkAssumption == Sdk \notin Callers

Frame == [kind : {"hello", "join", "leave", "msg"}, room : Rooms \cup {NoRoom},
          id : 0 .. MaxCalls, by : Callers \cup {Sdk}]

Hello == [kind |-> "hello", room |-> NoRoom, id |-> 0, by |-> Sdk]
Rejoin(r) == [kind |-> "join", room |-> r, id |-> 0, by |-> Sdk]

Requests ==
    {q \in Kinds \X (Rooms \cup {NoRoom}) : q[1] = "msg" <=> q[2] = NoRoom}

Request(c, q) == [kind |-> q[1], room |-> q[2], id |-> calls + 1, by |-> c]

Init ==
    /\ state = "disconnected" /\ connected = FALSE
    /\ started = FALSE /\ ctxDone = FALSE
    /\ conn = 0 /\ joinedRooms = {} /\ reconnectAttempt = 0
    /\ messageBuffer = <<>> /\ writeCh = <<>>
    /\ link = [c \in Conns |-> "unused"] /\ wire = [c \in Conns |-> <<>>]
    /\ mpc = "idle" /\ closed = FALSE
    /\ rpc = "off" /\ todo = {} /\ batch = <<>>
    /\ wpc = [w \in Conns |-> "off"]
    /\ whand = [w \in Conns |-> <<>>] /\ wconn = [w \in Conns |-> 0]
    /\ cpc = [c \in Callers |-> "idle"] /\ chand = [c \in Callers |-> <<>>]
    /\ calls = 0

-----------------------------------------------------------------------------
(* The application: Connect and Close.                                     *)

AppStep(from, to) ==
    /\ mpc = from
    /\ mpc' = to
    /\ UNCHANGED <<joinedRooms, queues, todo, batch, whand, wconn, callers>>

ConnectCall ==
    /\ AppStep("idle", "dial") /\ ~closed /\ ~started
    /\ ~connected
    /\ state' = "connecting"
    /\ UNCHANGED <<connected, session, conn, reconnectAttempt, net, closed,
                   rpc, wpc>>

\* An empty or malformed URL and a failed dial end alike.
ConnectDialFails ==
    /\ AppStep("dial", "idle")
    /\ state' = "error"
    /\ UNCHANGED <<connected, session, conn, reconnectAttempt, net, closed,
                   rpc, wpc>>

ConnectDials ==
    /\ AppStep("dial", "hello") /\ conn < MaxConns
    /\ conn' = conn + 1
    /\ link' = [link EXCEPT ![conn + 1] = "open"]
    /\ UNCHANGED <<status, session, reconnectAttempt, wire, closed, rpc, wpc>>

ConnectHello ==
    /\ AppStep("hello", "up") /\ link[conn] = "open"
    /\ wire' = [wire EXCEPT ![conn] = Append(@, Hello)]
    /\ UNCHANGED <<status, session, conn, reconnectAttempt, link, closed, rpc,
                   wpc>>

\* The write fails (a lost connection, a timeout, the caller's context); the
\* library then drops the connection.
ConnectHelloFails ==
    /\ AppStep("hello", "idle")
    /\ state' = "error"
    /\ link' = [link EXCEPT ![conn] = "down"]
    /\ UNCHANGED <<connected, session, conn, reconnectAttempt, wire, closed,
                   rpc, wpc>>

ConnectUp ==
    /\ AppStep("up", "set")
    /\ started' = TRUE /\ connected' = TRUE /\ reconnectAttempt' = 0
    /\ UNCHANGED <<state, ctxDone, conn, net, closed, rpc, wpc>>

ConnectSetState ==
    /\ AppStep("set", "spawn")
    /\ state' = "connected"
    /\ UNCHANGED <<connected, session, conn, reconnectAttempt, net, closed,
                   rpc, wpc>>

\* Mutant: a writer is started for every connection number at once.
ConnectSpawnTwice ==
    /\ AppStep("spawn", "idle")
    /\ rpc' = "read"
    /\ wpc' = [w \in Conns |-> "select"]
    /\ UNCHANGED <<status, session, conn, reconnectAttempt, net, closed>>

ConnectSpawn ==
    /\ AppStep("spawn", "idle")
    /\ rpc' = "read"
    /\ wpc' = [wpc EXCEPT ![conn] = "select"]
    /\ UNCHANGED <<status, session, conn, reconnectAttempt, net, closed>>

Close ==
    /\ AppStep("idle", "closeState") /\ ~closed
    /\ closed' = TRUE
    /\ ctxDone' = started
    /\ connected' = FALSE
    /\ UNCHANGED <<state, started, conn, reconnectAttempt, net, rpc, wpc>>

CloseSetState ==
    /\ AppStep("closeState", "closeConn")
    /\ state' = "closed"
    /\ UNCHANGED <<connected, session, conn, reconnectAttempt, net, closed,
                   rpc, wpc>>

\* c.conn as it is now: a reconnection may have replaced it since Close began.
CloseConn ==
    /\ AppStep("closeConn", "idle")
    /\ link' = [c \in Conns |-> IF c = conn THEN "down" ELSE link[c]]
    /\ UNCHANGED <<status, session, conn, reconnectAttempt, wire, closed, rpc,
                   wpc>>

-----------------------------------------------------------------------------
(* The reader.  Callbacks of events run on it, so it waits for them.       *)

ReaderStep(from, to) ==
    /\ rpc = from /\ \A h \in Handlers : cpc[h] = "idle"
    /\ rpc' = to
    /\ UNCHANGED <<session, joinedRooms, app, whand, wconn, callers>>

\* What reconnecting changes, and what sending again the rooms and the buffer.
redial == <<connected, conn, reconnectAttempt, net, wpc>>
resend == <<queues, todo, batch>>

\* Read fails: the context is cancelled, or the peer closed normally.
ReadStops ==
    /\ ReaderStep("read", "done") /\ (ctxDone \/ link[conn] = "normal")
    /\ state' = "disconnected"
    /\ UNCHANGED <<redial, resend>>

\* Mutant: the flag is not cleared.
ReadLostKeepsConnected ==
    /\ ReaderStep("read", "lost") /\ ~ctxDone /\ link[conn] = "down"
    /\ UNCHANGED <<state, redial, resend>>

ReadLost ==
    /\ ReaderStep("read", "lost") /\ ~ctxDone /\ link[conn] = "down"
    /\ connected' = FALSE
    /\ UNCHANGED <<state, conn, reconnectAttempt, net, wpc, resend>>

LostSetState ==
    /\ ReaderStep("lost", IF AutoReconnect THEN "attempt" ELSE "noauto")
    /\ state' = "disconnected"
    /\ UNCHANGED <<redial, resend>>

NoAutoReconnect ==
    /\ ReaderStep("noauto", "done")
    /\ state' = "error"
    /\ UNCHANGED <<redial, resend>>

\* Mutant: the limit is tested for equality.
TriesLeftUnequal(attempt) == attempt # MaxReconnectTries + 1

TriesLeft(attempt) == MaxReconnectTries = 0 \/ attempt <= MaxReconnectTries

ReconnectAttempt ==
    LET attempt == IF reconnectAttempt < MaxAttempt
                   THEN reconnectAttempt + 1 ELSE MaxAttempt
    IN  /\ ReaderStep("attempt", IF TriesLeft(attempt) THEN "wait" ELSE "giveup")
        /\ reconnectAttempt' = attempt
        /\ UNCHANGED <<status, conn, net, wpc, resend>>

GiveUp ==
    /\ ReaderStep("giveup", "retry")
    /\ state' = "error"
    /\ UNCHANGED <<redial, resend>>

WaitElapses ==
    /\ ReaderStep("wait", "redial")
    /\ state' = "reconnecting"
    /\ UNCHANGED <<redial, resend>>

\* The wait is cancelled, or reconnect failed and the context is cancelled.
ReaderCancelled ==
    /\ \E pc \in {"wait", "retry"} : ReaderStep(pc, "done")
    /\ ctxDone
    /\ UNCHANGED <<state, redial, resend>>

Retry ==
    /\ ReaderStep("retry", "attempt") /\ ~ctxDone
    /\ UNCHANGED <<state, redial, resend>>

RedialFails ==
    /\ ReaderStep("redial", "retry")
    /\ UNCHANGED <<state, redial, resend>>

Redials ==
    /\ ReaderStep("redial", "assign") /\ ~ctxDone /\ conn < MaxConns
    /\ link' = [link EXCEPT ![conn + 1] = "open"]
    /\ UNCHANGED <<status, conn, reconnectAttempt, wire, wpc, resend>>

\* Without the lock, and before the hello.
AssignConn ==
    /\ ReaderStep("assign", "rehello")
    /\ conn' = conn + 1
    /\ UNCHANGED <<status, reconnectAttempt, net, wpc, resend>>

\* A write may still succeed under a context that was just cancelled.
Rehello ==
    /\ ReaderStep("rehello", "reup") /\ link[conn] = "open"
    /\ wire' = [wire EXCEPT ![conn] = Append(@, Hello)]
    /\ UNCHANGED <<status, conn, reconnectAttempt, link, wpc, resend>>

\* Mutant: the error of the write is ignored.
RehelloFailureIgnored ==
    /\ ReaderStep("rehello", "reup") /\ (ctxDone \/ link[conn] # "open")
    /\ link' = [link EXCEPT ![conn] = "down"]
    /\ UNCHANGED <<status, conn, reconnectAttempt, wire, wpc, resend>>

RehelloFails ==
    /\ ReaderStep("rehello", "retry") /\ (ctxDone \/ link[conn] # "open")
    /\ link' = [link EXCEPT ![conn] = "down"]
    /\ UNCHANGED <<status, conn, reconnectAttempt, wire, wpc, resend>>

ReconnectUp ==
    /\ ReaderStep("reup", "reset")
    /\ connected' = TRUE /\ reconnectAttempt' = 0
    /\ UNCHANGED <<state, conn, net, wpc, resend>>

ReconnectSetState ==
    /\ ReaderStep("reset", "snapshot")
    /\ state' = "connected"
    /\ UNCHANGED <<redial, resend>>

-----------------------------------------------------------------------------
(* rejoinRooms: one send for each room, in the order of a Go map.          *)

RejoinSnapshot ==
    /\ ReaderStep("snapshot", "rejoin")
    /\ todo' = joinedRooms
    /\ UNCHANGED <<state, redial, queues, batch>>

\* Mutant: the flush is forgotten.
AfterRejoinNoFlush == "respawn"

AfterRejoin == IF BufferMessages THEN "flush" ELSE "respawn"

RejoinDone ==
    /\ ReaderStep("rejoin", AfterRejoin) /\ todo = {}
    /\ UNCHANGED <<state, redial, resend>>

\* The locked half of send: here the client is connected ...
RejoinSend ==
    /\ ReaderStep("rejoin", "push") /\ todo # {} /\ connected
    /\ UNCHANGED <<state, redial, resend>>

\* ... here Close has intervened: the join is buffered like any request ...
RejoinBuffers(r) ==
    /\ ReaderStep("rejoin", "rejoin") /\ r \in todo /\ ~connected
    /\ BufferMessages /\ Len(messageBuffer) < MaxBufferSize
    /\ messageBuffer' = Append(messageBuffer, Rejoin(r))
    /\ todo' = todo \ {r}
    /\ UNCHANGED <<state, redial, writeCh, batch>>

\* ... or refused, which ends rejoinRooms; so does a cancelled context.
RejoinFails ==
    /\ \/ /\ ReaderStep("rejoin", AfterRejoin) /\ todo # {} /\ ~connected
          /\ BufferMessages => Len(messageBuffer) >= MaxBufferSize
       \/ ReaderStep("push", AfterRejoin) /\ ctxDone
    /\ todo' = {}
    /\ UNCHANGED <<state, redial, queues, batch>>

RejoinPush(r) ==
    /\ ReaderStep("push", "rejoin") /\ r \in todo /\ Len(writeCh) < ChanCap
    /\ writeCh' = Append(writeCh, Rejoin(r))
    /\ todo' = todo \ {r}
    /\ UNCHANGED <<state, redial, messageBuffer, batch>>

-----------------------------------------------------------------------------
(* flushBuffer: the buffer is emptied first, then pushed without waiting.  *)

FlushTake ==
    /\ ReaderStep("flush", "flushing")
    /\ batch' = messageBuffer
    /\ messageBuffer' = <<>>
    /\ UNCHANGED <<state, redial, writeCh, todo>>

FlushPush ==
    /\ ReaderStep("flushing", "flushing") /\ batch # <<>>
    /\ Len(writeCh) < ChanCap
    /\ writeCh' = Append(writeCh, Head(batch))
    /\ batch' = Tail(batch)
    /\ UNCHANGED <<state, redial, messageBuffer, todo>>

\* Mutant: it waits until the writers have drained writeCh.
FlushWaits ==
    /\ ReaderStep("flushing", "respawn")
    /\ (batch = <<>> /\ writeCh = <<>>) \/ ctxDone
    /\ batch' = <<>>
    /\ UNCHANGED <<state, redial, queues, todo>>

\* The whole batch is pushed, or the rest of it is dropped.
FlushEnds ==
    /\ ReaderStep("flushing", "respawn")
    /\ batch = <<>> \/ ctxDone \/ Len(writeCh) >= ChanCap
    /\ batch' = <<>>
    /\ UNCHANGED <<state, redial, queues, todo>>

\* Mutant: the writer is not started again.
RespawnNoWriter ==
    /\ ReaderStep("respawn", "read")
    /\ UNCHANGED <<state, redial, resend>>

\* A second writer: nothing tells whether the first one has ended.
Respawn ==
    /\ ReaderStep("respawn", "read")
    /\ wpc' = [wpc EXCEPT ![conn] = "select"]
    /\ UNCHANGED <<status, conn, reconnectAttempt, net, resend>>

-----------------------------------------------------------------------------
(* The writers, named by the connection at which they were started.        *)

WriterStep(w, from, to) ==
    /\ wpc[w] = from
    /\ wpc' = [wpc EXCEPT ![w] = to]
    /\ UNCHANGED <<status, session, conn, joinedRooms, reconnectAttempt,
                   messageBuffer, link, app, reader, callers>>

WriterTakes(w) ==
    /\ WriterStep(w, "select", "load") /\ writeCh # <<>>
    /\ whand' = [whand EXCEPT ![w] = <<Head(writeCh)>>]
    /\ writeCh' = Tail(writeCh)
    /\ UNCHANGED <<wire, wconn>>

WriterLoads(w) ==
    /\ WriterStep(w, "load", "write")
    /\ wconn' = [wconn EXCEPT ![w] = conn]
    /\ UNCHANGED <<writeCh, wire, whand>>

\* Mutant: a loop that tries again and does not stop after a success.
WriterWritesAgain(w) ==
    /\ WriterStep(w, "write", "load") /\ link[wconn[w]] = "open"
    /\ wire' = [wire EXCEPT ![wconn[w]] = @ \o whand[w]]
    /\ wconn' = [wconn EXCEPT ![w] = 0]
    /\ UNCHANGED <<writeCh, whand>>

WriterWrites(w) ==
    /\ WriterStep(w, "write", "select") /\ link[wconn[w]] = "open"
    /\ wire' = [wire EXCEPT ![wconn[w]] = @ \o whand[w]]
    /\ whand' = [whand EXCEPT ![w] = <<>>]
    /\ wconn' = [wconn EXCEPT ![w] = 0]
    /\ UNCHANGED writeCh

WriterFails(w) ==
    /\ WriterStep(w, "write", "done") /\ (ctxDone \/ link[wconn[w]] # "open")
    /\ whand' = [whand EXCEPT ![w] = <<>>]
    /\ wconn' = [wconn EXCEPT ![w] = 0]
    /\ UNCHANGED <<writeCh, wire>>

\* Mutant: the loop waits on writeCh alone.
WriterUncancelled(w) == WriterStep(w, "select", "done") /\ FALSE

WriterCancelled(w) ==
    /\ WriterStep(w, "select", "done") /\ ctxDone
    /\ UNCHANGED <<writeCh, wire, whand, wconn>>

-----------------------------------------------------------------------------
(* Join, Leave and Send: the locked half of send, its select, and the      *)
(* tracking of rooms.                                                      *)

CallerStep(c, from, to) ==
    /\ cpc[c] = from
    /\ cpc' = [cpc EXCEPT ![c] = to]
    /\ UNCHANGED <<status, session, conn, reconnectAttempt, net, app, reader,
                   writers>>

\* A callback (one of Handlers) is called for a frame that the reader received;
\* one that runs elsewhere, in Connect or in a writer, is like any caller.
Calls(c) ==
    /\ calls < MaxCalls
    /\ calls' = calls + 1
    /\ c \in Handlers => /\ rpc = "read" /\ link[conn] = "open"
                         /\ \A h \in Handlers : cpc[h] = "idle"

AfterSend(kind) == IF kind = "msg" THEN "idle" ELSE "track"

CallConnected(c, q) ==
    /\ CallerStep(c, "idle", "push") /\ Calls(c) /\ connected
    /\ chand' = [chand EXCEPT ![c] = <<Request(c, q)>>]
    /\ UNCHANGED <<joinedRooms, queues>>

\* Mutant: the limit is off by one.
CallBuffersOneMore(c, q) ==
    /\ CallerStep(c, "idle", AfterSend(q[1])) /\ Calls(c) /\ ~connected
    /\ BufferMessages /\ Len(messageBuffer) <= MaxBufferSize
    /\ messageBuffer' = Append(messageBuffer, Request(c, q))
    /\ chand' = [chand EXCEPT ![c] =
                    IF q[1] = "msg" THEN <<>> ELSE <<Request(c, q)>>]
    /\ UNCHANGED <<joinedRooms, writeCh>>

CallBuffers(c, q) ==
    /\ CallerStep(c, "idle", AfterSend(q[1])) /\ Calls(c) /\ ~connected
    /\ BufferMessages /\ Len(messageBuffer) < MaxBufferSize
    /\ messageBuffer' = Append(messageBuffer, Request(c, q))
    /\ chand' = [chand EXCEPT ![c] =
                    IF q[1] = "msg" THEN <<>> ELSE <<Request(c, q)>>]
    /\ UNCHANGED <<joinedRooms, writeCh>>

\* The call returns "message buffer full" or "client not connected".
CallRefused(c) ==
    /\ CallerStep(c, "idle", "idle") /\ Calls(c) /\ ~connected
    /\ BufferMessages => Len(messageBuffer) >= MaxBufferSize
    /\ UNCHANGED <<joinedRooms, queues, chand>>

Push(c) ==
    LET kind == chand[c][1].kind
    IN  /\ CallerStep(c, "push", AfterSend(kind)) /\ Len(writeCh) < ChanCap
        /\ writeCh' = writeCh \o chand[c]
        /\ chand' = [chand EXCEPT ![c] = IF kind = "msg" THEN <<>> ELSE @]
        /\ UNCHANGED <<joinedRooms, messageBuffer, calls>>

\* Mutant: the room is tracked although send failed.
PushCancelledTracks(c) ==
    /\ CallerStep(c, "push", AfterSend(chand[c][1].kind))
    /\ UNCHANGED <<joinedRooms, queues, calls, chand>>

\* The caller's own context may end whether or not the channel is full.
PushCancelled(c) ==
    /\ CallerStep(c, "push", "idle")
    /\ chand' = [chand EXCEPT ![c] = <<>>]
    /\ UNCHANGED <<joinedRooms, queues, calls>>

Track(c) ==
    LET f == chand[c][1]
    IN  /\ CallerStep(c, "track", "idle")
        /\ joinedRooms' = IF f.kind = "join" THEN joinedRooms \cup {f.room}
                                             ELSE joinedRooms \ {f.room}
        /\ chand' = [chand EXCEPT ![c] = <<>>]
        /\ UNCHANGED <<queues, calls>>

-----------------------------------------------------------------------------
(* The network: a connection is lost, or the server closes it normally.    *)

LinkChanges(c, how) ==
    /\ link[c] = "open"
    /\ link' = [link EXCEPT ![c] = how]
    /\ UNCHANGED <<session, status, conn, joinedRooms, reconnectAttempt,
                   queues, wire, app, reader, writers, callers>>

LinkDrops(c) == LinkChanges(c, "down")
ServerCloses(c) == LinkChanges(c, "normal")

-----------------------------------------------------------------------------
ConnectNext ==
    \/ ConnectDialFails \/ ConnectDials \/ ConnectHello \/ ConnectHelloFails
    \/ ConnectUp \/ ConnectSetState \/ ConnectSpawn

CloseNext == CloseSetState \/ CloseConn

ReaderNext ==
    \/ ReadStops \/ ReadLost \/ LostSetState \/ NoAutoReconnect
    \/ ReconnectAttempt \/ GiveUp \/ WaitElapses \/ ReaderCancelled \/ Retry
    \/ RedialFails \/ Redials \/ AssignConn \/ Rehello \/ RehelloFails
    \/ ReconnectUp \/ ReconnectSetState
    \/ RejoinSnapshot \/ RejoinDone \/ RejoinSend \/ RejoinFails
    \/ \E r \in Rooms : RejoinBuffers(r) \/ RejoinPush(r)
    \/ FlushTake \/ FlushPush \/ FlushEnds \/ Respawn

WriterNext(w) ==
    \/ WriterTakes(w) \/ WriterLoads(w) \/ WriterWrites(w) \/ WriterFails(w)
    \/ WriterCancelled(w)

CallerNext(c) ==
    \/ \E q \in Requests : CallConnected(c, q) \/ CallBuffers(c, q)
    \/ CallRefused(c) \/ Push(c) \/ PushCancelled(c) \/ Track(c)

Next ==
    \/ ConnectCall \/ Close \/ ConnectNext \/ CloseNext \/ ReaderNext
    \/ \E w \in Conns : WriterNext(w)
    \/ \E c \in Callers : CallerNext(c)
    \/ \E c \in Conns : LinkDrops(c) \/ ServerCloses(c)

Spec == Init /\ [][Next]_vars

=============================================================================
