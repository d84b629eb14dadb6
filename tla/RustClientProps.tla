--------------------------- MODULE RustClientProps --------------------------
(***************************************************************************)
(* What the Rust client should guarantee, as properties of RustClient.     *)
(***************************************************************************)
EXTENDS RustClient, Tally

\* Types of the fields of Client, and of the places of the tasks.
ControlTypes ==
    /\ connected \in BOOLEAN
    /\ writeTx \in 0 .. MaxConns /\ conn \in 0 .. MaxConns
    /\ readHandle \in 0 .. MaxConns /\ writeHandle \in 0 .. MaxConns
    /\ shutdown \in [Conns -> BOOLEAN]
    /\ link \in [Conns -> {"unused", "open", "stalled", "down"}]
    /\ apc \in {"idle", "dial", "hello", "joinRead", "joinWrite"}
    /\ rpc \in [Conns -> {"off", "top", "read", "done", "panicked"}]
    /\ wpc \in [Conns -> {"off", "top", "select", "send", "closing", "flush",
                          "done", "panicked"}]
    /\ cpc \in [Callers -> {"idle", "send"}]

Requests == [kind : Callers, id : 1 .. MaxCalls]
Frames == {Hello, CloseFrame} \cup Requests

FrameTypes ==
    /\ calls \in 0 .. MaxCalls
    /\ wire \in [Conns -> Seq(Frames)]
    /\ chan \in [Conns -> Seq(Requests)]
    /\ \A k \in Conns : Len(chan[k]) <= ChanCap
    /\ whand \in [Conns -> Seq(Requests)]
    /\ chand \in [Callers -> Seq(Requests)]

TypeOK == ControlTypes /\ FrameTypes

-----------------------------------------------------------------------------
(* Safety                                                                  *)

TaskEnded == {"off", "done", "panicked"}

\* Before the first connect and once close has returned, no task of any
\* connection is left: a new session starts with the tasks of the old ended.
\* (After the panic of a callback close returns before it waits for both.)
TasksJoined ==
    /\ ~connected /\ apc \in {"idle", "dial", "hello"}
    /\ \A k \in Conns : "panicked" \notin {rpc[k], wpc[k]}
    =>
        \A k \in Conns : rpc[k] \in TaskEnded /\ wpc[k] \in TaskEnded

\* The requests that the client holds: in the channels, with the writers and
\* with the callers that wait for a place in the channel.
Accepted == UNION {Ids(chan[k]) \cup Ids(whand[k]) : k \in Conns}
Held == Accepted \cup UNION {Ids(chand[c]) : c \in Callers}

\* A request that was accepted leaves the client only by being sent, by the
\* failure of its own write, or when the writer of its connection ends.
LostOnlyWithWriter ==
    [][\A i \in Accepted \ Accepted' :
        \E k \in Conns : \/ i \in Ids(wire'[k])
                         \/ wpc'[k] # wpc[k]
                            /\ wpc'[k] \in {"closing", "done", "panicked"}]_vars

-----------------------------------------------------------------------------
(* The client implements Outbox.                                           *)

Box == INSTANCE Outbox WITH
    MaxRequests <- MaxCalls, offered <- calls, held <- Held,
    written <- [i \in 1 .. MaxCalls |-> Times(wire, i)]

\* No request is sent twice, in whatever way the tasks end.
AtMostOnce == Box!Spec

-----------------------------------------------------------------------------
(***************************************************************************)
(* Liveness.  The runtime polls every task that can run, the timeouts of   *)
(* dial and write are due at some time: weak fairness of connect, close    *)
(* and the tasks.  The places in the channel are given out in the order of *)
(* the waiters: strong fairness of a waiting request.  Nothing makes the   *)
(* application call, the server send or a stalled peer recover.            *)
(***************************************************************************)
Fairness ==
    /\ WF_vars(ConnectNext) /\ WF_vars(CloseNext)
    /\ \A k \in Conns : WF_vars(WriterNext(k)) /\ WF_vars(ReaderNext(k))
    /\ \A c \in Callers : SF_vars(Queued(c)) /\ WF_vars(NotQueued(c))

FairSpec == Spec /\ Fairness

Stalled == conn # 0 /\ link[conn] = "stalled"

\* close returns, whatever the tasks are doing when it is called, unless the
\* peer takes no bytes.
CloseReturns ==
    apc \in {"joinRead", "joinWrite"} ~> (apc = "idle" \/ Stalled)

\* A request that waits for a place in the channel gets one or is refused,
\* with the same exception.
CallsReturn ==
    \A c \in Callers :
        cpc[c] = "send" ~> (cpc[c] = "idle" \/ Stalled)
=============================================================================
