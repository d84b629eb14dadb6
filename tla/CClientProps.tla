---------------------------- MODULE CClientProps ----------------------------
(***************************************************************************)
(* What the C client should guarantee, as properties of CClient.  Where it *)
(* uses what is freed (misuse) nothing more is known; the properties speak *)
(* of the histories up to that, and the first of them says what it takes.  *)
(***************************************************************************)
EXTENDS CClient, Tally

Frames == [kind : Callers, id : 1 .. MaxCalls, of : 0 .. MaxConns]

\* Types of the fields of wirechat_client and of the places of the threads,
\* first of those that hold no frames.
ControlTypes ==
    /\ running \in BOOLEAN /\ opened \in BOOLEAN
    /\ unsafe \in BOOLEAN /\ misuse \in BOOLEAN
    /\ ctx \in 0 .. MaxConns /\ wsi \in 0 .. MaxConns
    /\ thread \in 0 .. MaxConns /\ conns \in 0 .. MaxConns
    /\ link \in [Conns -> {"unused", "connecting", "open", "down", "freed"}]
    /\ apc \in {"idle", "run", "spawn", "join", "clear", "destroy"}
    /\ spc \in [Conns -> {"off", "check", "service", "pop", "send", "done"}]
    /\ sctx \in [Conns -> 0 .. MaxConns]
    /\ cpc \in [Callers -> {"idle", "enqueue", "wake"}]

FrameTypes ==
    /\ out \in Seq(Frames)
    /\ wire \in [Conns -> Seq(Frames \cup {Hello})]
    /\ hand \in [Conns -> Seq(Frames)]
    /\ chand \in [Callers -> Seq(Frames)]
    /\ calls \in 0 .. MaxCalls

TypeOK == ControlTypes /\ FrameTypes

-----------------------------------------------------------------------------
(* Safety                                                                  *)

\* As long as connections end by close alone, and no request is in progress
\* when close is called, no context or connection is used after it was freed,
\* and none is served by two threads.
NoMisuse == misuse => unsafe

\* In the same histories, a client that is in use has its one service thread,
\* and a client that is not in use has none.
OneThread ==
    apc = "idle" /\ ~unsafe =>
        IF opened THEN running /\ thread = conns
                       /\ \A t \in Conns : spc[t] \notin {"off", "done"}
                                              <=> t = thread
                  ELSE ~running /\ \A t \in Conns : spc[t] \in {"off", "done"}

\* The hello is the first frame on every connection, and sent once.
HelloFirst ==
    ~unsafe => \A k \in Conns : \A i \in DOMAIN wire[k] :
                    wire[k][i] = Hello <=> i = 1

\* A request is sent on the connection on which it was accepted, never on a
\* later one: close leaves nothing in the list.
SentInItsSession ==
    ~unsafe => \A k \in Conns : \A i \in DOMAIN wire[k] :
                    wire[k][i].of \in {0, k}

\* The requests of a caller are sent in the order of its calls, also over
\* connections that are lost.
InOrder ==
    \A k \in Conns : \A i, j \in DOMAIN wire[k] :
        i < j /\ wire[k][i].kind = wire[k][j].kind /\ wire[k][i] # Hello
            => wire[k][i].id < wire[k][j].id

-----------------------------------------------------------------------------
(* The client implements Outbox: it holds what is in the list, and what a  *)
(* caller or the service thread has in hand.                               *)

Held == Ids(out) \cup (UNION {Ids(chand[c]) : c \in Callers})
                \cup (UNION {Ids(hand[t]) : t \in Conns})

Box == INSTANCE Outbox WITH
    MaxRequests <- MaxCalls, offered <- calls, held <- Held,
    written <- [i \in 1 .. MaxCalls |-> Times(wire, i)]

\* No request is sent twice, whichever threads serve the list.
AtMostOnce == Box!Spec

-----------------------------------------------------------------------------
(***************************************************************************)
(* Liveness.  The operating system runs every thread.  lws_service returns *)
(* within its 50 ms and does not pass over an event for ever, which is     *)
(* strong fairness of each event, since the thread is outside it in        *)
(* between.  The properties need it of the events together only.  Nothing  *)
(* makes the application call, a connection fail or a new one open.        *)
(***************************************************************************)
Fairness ==
    /\ WF_vars(ConnectNext) /\ WF_vars(CloseNext)
    /\ \A c \in Callers : WF_vars(CallerNext(c))
    /\ \A t \in Conns :
        /\ WF_vars(Checks(t) \/ Returns(t) \/ Pops(t) \/ Sends(t))
        /\ SF_vars(Established(t) \/ Writeable(t) \/ Closed(t))

FairSpec == Spec /\ Fairness

\* close returns: the service thread sees that it has to stop.
CloseReturns == apc \in {"join", "clear", "destroy"} ~> apc = "idle" \/ misuse

\* What is in the list is sent while the connection lasts: no message waits
\* for a wake-up that nobody gives.
Drains ==
    (out # <<>> /\ opened) ~>
        \/ out = <<>> \/ ~opened \/ misuse
        \/ wsi # 0 /\ link[wsi] \in {"down", "freed"}
=============================================================================
