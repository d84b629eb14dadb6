--------------------------- MODULE GoClientProps ----------------------------
(***************************************************************************)
(* What the Go client should guarantee, as properties of GoClient.         *)
(***************************************************************************)
EXTENDS GoClient, Tally

(***************************************************************************)
(* Types of the fields of Client, and of the places of the goroutines.     *)
(***************************************************************************)
TypeOK ==
    /\ state \in States /\ connected \in BOOLEAN
    /\ started \in BOOLEAN /\ ctxDone \in BOOLEAN
    /\ conn \in 0 .. MaxConns
    /\ joinedRooms \in SUBSET Rooms
    /\ reconnectAttempt \in 0 .. MaxAttempt
    /\ messageBuffer \in Seq(Frame) /\ Len(messageBuffer) <= MaxBufferSize
    /\ writeCh \in Seq(Frame) /\ Len(writeCh) <= ChanCap
    /\ link \in [Conns -> {"unused", "open", "normal", "down"}]
    /\ wire \in [Conns -> Seq(Frame)]
    /\ closed \in BOOLEAN
    /\ mpc \in {"idle", "dial", "hello", "up", "set", "spawn", "closeState",
                "closeConn"}
    /\ rpc \in {"off", "read", "lost", "noauto", "attempt", "giveup", "wait",
                "redial", "assign", "rehello", "retry", "reup", "reset",
                "snapshot", "rejoin", "push", "flush", "flushing", "respawn",
                "done"}
    /\ todo \in SUBSET Rooms /\ batch \in Seq(Frame)
    /\ wpc \in [Conns -> {"off", "select", "load", "write", "done"}]
    /\ whand \in [Conns -> Seq(Frame)]
    /\ wconn \in [Conns -> 0 .. MaxConns]
    /\ cpc \in [Callers -> {"idle", "push", "track"}]
    /\ chand \in [Callers -> Seq(Frame)]
    /\ calls \in 0 .. MaxCalls

-----------------------------------------------------------------------------
(* Safety                                                                  *)

\* A client that says it is connected, by its state or by letting requests
\* into writeCh, has sent the hello on its current connection: Connect and
\* reconnect publish the connection only after the hello.
ReadyMeansHello ==
    connected \/ state = "connected" =>
        conn # 0 /\ \E i \in DOMAIN wire[conn] : wire[conn][i] = Hello

\* While the reader waits for events on a live connection, that connection
\* has a writer: requests of a connected client do not wait for nobody.
WriterAlive ==
    rpc = "read" /\ ~ctxDone /\ link[conn] = "open" =>
        wpc[conn] \in {"select", "load", "write"}

\* After a reconnection nothing of what was buffered during the outage is
\* left behind in the buffer (flushBuffer runs whatever rejoinRooms did).
Resumed == \E w \in Conns : w < conn /\ wpc[w] # "off"

BufferDrained == connected /\ rpc = "read" /\ Resumed => messageBuffer = <<>>

\* Once the client has given up (no auto-reconnect, or too many attempts) it
\* does not come back by itself: it stays in Error until it is closed.
StaysGivenUp ==
    [][state = "error" /\ started => state' \in {"error", "closed"}]_vars

\* Requests of one caller are written to a connection in the order of the
\* calls: writeCh is a queue with one consumer.
InOrder ==
    \A k \in Conns : \A i, j \in DOMAIN wire[k] :
        i < j /\ wire[k][i].by = wire[k][j].by /\ wire[k][i].by \in Callers
            => wire[k][i].id < wire[k][j].id

Quiet ==
    /\ connected /\ rpc = "read" /\ link[conn] = "open" /\ writeCh = <<>>
    /\ \A c \in Callers : cpc[c] = "idle"
    /\ \A w \in Conns : whand[w] = <<>>

\* Frame f is what caller c says about room r ...
Word(f, c, r) == f.by = c /\ f.room = r /\ f.kind \in {"join", "leave"}

\* ... and the last that c says about it in s is of this kind.
LastWord(s, c, r, kind) ==
    \E i \in DOMAIN s :
        /\ Word(s[i], c, r) /\ s[i].kind = kind
        /\ \A j \in DOMAIN s : j > i => ~Word(s[j], c, r)

Agrees(s, r, tracked) ==
    \/ \E c \in Callers : LastWord(s, c, r, IF tracked THEN "join" ELSE "leave")
    \/ ~tracked /\ \A c \in Callers, i \in DOMAIN s : ~Word(s[i], c, r)

\* When nothing is in flight, a room is tracked or not as the server heard it
\* last from one of the callers.  Where two of them disagree at the same time
\* the tracking (c.mu, after send) may come in another order than
\* the frames, but it never says what is nobody's last word: a room that one
\* caller joins and leaves is tracked exactly as the server has it.
RoomsAgree ==
    Quiet => \A r \in Rooms : Agrees(wire[conn], r, r \in joinedRooms)

-----------------------------------------------------------------------------
(* A request is written at most once: the client implements Outbox.  It    *)
(* holds what its callers, its queues and its writers hold.                *)

Held == Ids(messageBuffer) \cup Ids(writeCh) \cup Ids(batch)
            \cup (UNION {Ids(whand[w]) : w \in Conns})
            \cup (UNION {Ids(chand[c]) : c \in {d \in Callers : cpc[d] = "push"}})

Box == INSTANCE Outbox WITH
    MaxRequests <- MaxCalls, offered <- calls, held <- Held,
    written <- [i \in 1 .. MaxCalls |-> Times(wire, i)]

\* No request is written twice, whatever is buffered, flushed, handed from
\* one writer to the next or tried again.
AtMostOnce == Box!Spec

-----------------------------------------------------------------------------
(***************************************************************************)
(* Liveness.  The Go scheduler runs every goroutine that can run, a timer  *)
(* that is due fires, and a dial or a write ends (HandshakeTimeout and     *)
(* WriteTimeout bound them): weak fairness of Connect, Close, the reader   *)
(* and each writer.  A sender blocked on a channel is served in order.     *)
(* Nothing makes a caller call, a connection fail or a dial succeed.       *)
(***************************************************************************)
Fairness ==
    /\ WF_vars(ConnectNext) /\ WF_vars(CloseNext) /\ WF_vars(ReaderNext)
    /\ \A w \in Conns : WF_vars(WriterNext(w))
    /\ \A c \in Callers : SF_vars(Push(c)) /\ WF_vars(Track(c))

FairSpec == Spec /\ Fairness

\* Close stops the goroutines of the client: the reader, whatever it was
\* doing, and every writer, current or left over.  A callback that waits in
\* Send is beyond it: nobody will take the frame, and the context is its own.
CloseStops ==
    closed ~> \/ /\ rpc \in {"off", "done"}
                 /\ \A w \in Conns : wpc[w] \in {"off", "done"}
              \/ \E h \in Handlers : cpc[h] = "push"

\* The one way in which the reader can be stuck before: it waits for a place
\* in writeCh, in rejoinRooms or in a callback, and every writer has ended.
Stuck ==
    /\ rpc = "push" \/ \E h \in Handlers : cpc[h] = "push"
    /\ Len(writeCh) = ChanCap
    /\ \A w \in Conns : wpc[w] \in {"off", "done"}

\* A lost connection is noticed: the client does not go on for ever taking
\* requests for a connection that is down.
LossNoticed ==
    (connected /\ link[conn] = "down") ~> (~connected \/ closed \/ Stuck)

\* After a reconnection the client gets back to reading events, whatever it
\* has to rejoin and to flush.
Resumes == rpc = "reup" ~> (rpc = "read" \/ Stuck)

-----------------------------------------------------------------------------
(***************************************************************************)
(* What the documentation says and the code does not do.                   *)
(***************************************************************************)

\* After Close the client is not connected and does not reconnect.
ClosedNotConnected ==
    closed /\ mpc = "idle" /\ rpc \in {"off", "done"} => ~connected
=============================================================================
