----------------------------- MODULE RustClient -----------------------------
(***************************************************************************)
(* The client of the Rust SDK (wirechat-sdk-rust/src/client.rs): connect   *)
(* and close, the requests queued by join, leave and send, and the reader  *)
(* and writer tasks, a pair of them per connection.                        *)
(*                                                                         *)
(* A step runs from one await of a task to the next.  connect and close    *)
(* borrow the client exclusively, the requests share it, so connect and    *)
(* close run with no request in progress; this is the only coordination    *)
(* between the application and its callers.  Connections are numbered in   *)
(* the order they are opened; 0 is None.                                   *)
(***************************************************************************)
EXTENDS Naturals, Sequences

CONSTANTS
    Callers,        \* tasks that call join, leave and send
    Incoming,       \* the frames the server sends
    Panics,         \* may a callback of the application panic?
    Stalls,         \* may the peer stop taking bytes without closing?
    WriteTimeout,   \* is cfg.write_timeout above zero?
    ChanCap,        \* capacity of the channel of write_tx (32 in connect)
    MaxConns,       \* bound: connections opened
    MaxCalls        \* bound: calls of join, leave and send

\* "event": one of the three events the client knows; "error": an error
\* frame, or one of a type the client does not know; "history": an event
\* that it does not know, or a frame that it cannot decode.
ASSUME IncomingAssumption == Incoming \subseteq {"event", "error", "history"}
ASSUME ConfigAssumption ==
    Panics \in BOOLEAN /\ Stalls \in BOOLEAN /\ WriteTimeout \in BOOLEAN
ASSUME BoundsAssumption ==
    ChanCap \in Nat \ {0} /\ MaxConns \in Nat \ {0} /\ MaxCalls \in Nat

VARIABLES
    connected,                  \* self.connected
    writeTx,                    \* self.write_tx
    readHandle, writeHandle,    \* self.read_handle, self.write_handle
    shutdown,                   \* the watch channel of each connection
    conn,                       \* connections opened so far
    link, wire,                 \* what becomes of each, the frames sent on it
    chan,                       \* the channel from write_tx to write_loop
    apc,                        \* the place of connect and close
    rpc,                        \* the place of each read_loop
    wpc, whand,                 \* of each write_loop, and what it received
    cpc, chand, calls           \* of the callers, their request; calls so far

app == <<connected, writeTx, readHandle, writeHandle, apc>>
net == <<conn, link, wire>>
writers == <<wpc, whand>>
callers == <<cpc, chand, calls>>
vars == <<app, shutdown, net, chan, rpc, writers, callers>>

Conns == 1 .. MaxConns

\* The frames sent: the hello, the close frame, or a request, known by the
\* number and the author of its call.
Hello == [kind |-> "hello", id |-> 0]
CloseFrame == [kind |-> "close", id |-> 0]
Request(c) == [kind |-> c, id |-> calls + 1]

Init ==
    /\ connected = FALSE /\ writeTx = 0 /\ readHandle = 0 /\ writeHandle = 0
    /\ shutdown = [k \in Conns |-> FALSE]
    /\ conn = 0
    /\ link = [k \in Conns |-> "unused"] /\ wire = [k \in Conns |-> <<>>]
    /\ chan = [k \in Conns |-> <<>>]
    /\ apc = "idle" /\ rpc = [k \in Conns |-> "off"]
    /\ wpc = [k \in Conns |-> "off"] /\ whand = [k \in Conns |-> <<>>]
    /\ cpc = [c \in Callers |-> "idle"] /\ chand = [c \in Callers |-> <<>>]
    /\ calls = 0

-----------------------------------------------------------------------------
(* connect and close.                                                      *)

AppStep(from, to) == apc = from /\ apc' = to /\ UNCHANGED callers

\* No request borrows the client.
Exclusive == \A c \in Callers : cpc[c] = "idle"

ConnectCall ==
    /\ AppStep("idle", "dial") /\ Exclusive /\ ~connected
    /\ UNCHANGED <<connected, writeTx, readHandle, writeHandle, shutdown, net,
                   chan, rpc, writers>>

DialFails ==
    /\ AppStep("dial", "idle")
    /\ UNCHANGED <<connected, writeTx, readHandle, writeHandle, shutdown, net,
                   chan, rpc, writers>>

Dials ==
    /\ AppStep("dial", "hello") /\ conn < MaxConns
    /\ conn' = conn + 1
    /\ link' = [link EXCEPT ![conn'] = "open"]
    /\ UNCHANGED <<connected, writeTx, readHandle, writeHandle, shutdown, wire,
                   chan, rpc, writers>>

\* A write ends well on an open connection.  It ends in an error when the
\* connection is lost, or at the timeout when the peer takes no bytes; the
\* library may then hold the frame already and send it later.
Written(k, frame, ok) ==
    \/ ok /\ link[k] = "open" /\ wire' = [wire EXCEPT ![k] = Append(@, frame)]
    \/ ~ok /\ link[k] = "down" /\ UNCHANGED wire
    \/ /\ ~ok /\ link[k] = "stalled" /\ WriteTimeout
       /\ wire' \in {wire, [wire EXCEPT ![k] = Append(@, frame)]}

HelloFails ==
    /\ AppStep("hello", "idle") /\ Written(conn, Hello, FALSE)
    /\ link' = [link EXCEPT ![conn] = "down"]
    /\ UNCHANGED <<connected, writeTx, readHandle, writeHandle, shutdown, conn,
                   chan, rpc, writers>>

HelloSent ==
    /\ AppStep("hello", "idle") /\ Written(conn, Hello, TRUE)
    /\ writeTx' = conn /\ readHandle' = conn /\ writeHandle' = conn
    /\ connected' = TRUE
    /\ rpc' = [rpc EXCEPT ![conn] = "top"]
    /\ wpc' = [wpc EXCEPT ![conn] = "top"]
    /\ UNCHANGED <<shutdown, conn, link, chan, whand>>

\* Mutant: the flag of the watch channel is not sent.
CloseNoSignal ==
    /\ AppStep("idle", "joinRead") /\ Exclusive /\ connected
    /\ connected' = FALSE
    /\ writeTx' = 0
    /\ UNCHANGED <<readHandle, writeHandle, shutdown, net, chan, rpc, writers>>

CloseCall ==
    /\ AppStep("idle", "joinRead") /\ Exclusive /\ connected
    /\ connected' = FALSE
    /\ shutdown' = [shutdown EXCEPT ![conn] = TRUE]
    /\ writeTx' = 0
    /\ UNCHANGED <<readHandle, writeHandle, net, chan, rpc, writers>>

\* A task that panicked makes close return its error at once.
JoinReader ==
    /\ AppStep("joinRead",
               IF rpc[readHandle] = "done" THEN "joinWrite" ELSE "idle")
    /\ rpc[readHandle] \in {"done", "panicked"}
    /\ readHandle' = 0
    /\ UNCHANGED <<connected, writeTx, writeHandle, shutdown, net, chan, rpc,
                   writers>>

\* Mutant: close does not wait for the writer.
JoinNoWriter ==
    /\ AppStep("joinWrite", "idle")
    /\ writeHandle' = 0
    /\ UNCHANGED <<connected, writeTx, readHandle, shutdown, net, chan, rpc,
                   writers>>

JoinWriter ==
    /\ AppStep("joinWrite", "idle")
    /\ wpc[writeHandle] \in {"done", "panicked"}
    /\ writeHandle' = 0
    /\ UNCHANGED <<connected, writeTx, readHandle, shutdown, net, chan, rpc,
                   writers>>

ConnectNext == DialFails \/ Dials \/ HelloFails \/ HelloSent
CloseNext == JoinReader \/ JoinWriter

-----------------------------------------------------------------------------
(* join, leave and send: queue.  A call on a client with no write_tx       *)
(* returns NotConnected and changes nothing.                               *)

Call(c) ==
    /\ cpc[c] = "idle" /\ apc = "idle" /\ calls < MaxCalls
    /\ writeTx # 0
    /\ calls' = calls + 1
    /\ cpc' = [cpc EXCEPT ![c] = "send"]
    /\ chand' = [chand EXCEPT ![c] = <<Request(c)>>]
    /\ UNCHANGED <<app, shutdown, net, chan, rpc, writers>>

\* The receiver lives as long as write_loop runs, even when that no longer
\* receives.
Receiver(k) == wpc[k] \notin {"done", "panicked"}

QueueEnds(c) ==
    /\ cpc[c] = "send"
    /\ cpc' = [cpc EXCEPT ![c] = "idle"]
    /\ chand' = [chand EXCEPT ![c] = <<>>]
    /\ UNCHANGED <<app, shutdown, net, rpc, writers, calls>>

Queued(c) ==
    /\ QueueEnds(c) /\ Receiver(writeTx) /\ Len(chan[writeTx]) < ChanCap
    /\ chan' = [chan EXCEPT ![writeTx] = @ \o chand[c]]

\* Mutant: a request is refused only once the client is closed.
NotQueuedAtClose(c) == QueueEnds(c) /\ writeTx = 0 /\ UNCHANGED chan

NotQueued(c) == QueueEnds(c) /\ ~Receiver(writeTx) /\ UNCHANGED chan

CallerNext(c) == Call(c) \/ Queued(c) \/ NotQueued(c)

-----------------------------------------------------------------------------
(* write_loop.                                                             *)

WriterStep(k, from, to) ==
    /\ wpc[k] = from
    /\ wpc' = [wpc EXCEPT ![k] = to]
    /\ UNCHANGED <<app, shutdown, conn, link, rpc, callers>>

\* The end of write_loop drops the receiver and all it holds.
WriterEnds(k, from, to) ==
    /\ WriterStep(k, from, to)
    /\ chan' = [chan EXCEPT ![k] = <<>>]
    /\ whand' = [whand EXCEPT ![k] = <<>>]

\* The loop looks at the flag itself, and then ends without a close frame.
WriterLoops(k) ==
    /\ ~shutdown[k] /\ WriterStep(k, "top", "select")
    /\ UNCHANGED <<wire, chan, whand>>

WriterLeaves(k) ==
    /\ shutdown[k] /\ WriterEnds(k, "top", "done")
    /\ UNCHANGED wire

\* select: the flag changed.  (write_tx is dropped with the flag, so that an
\* empty channel that is closed adds nothing.)
WriterToldToStop(k) ==
    /\ shutdown[k] /\ WriterStep(k, "select", "closing")
    /\ UNCHANGED <<wire, chan, whand>>

\* select: a request.  With both ready, select takes either.
WriterReceives(k) ==
    /\ chan[k] # <<>> /\ WriterStep(k, "select", "send")
    /\ whand' = [whand EXCEPT ![k] = <<Head(chan[k])>>]
    /\ chan' = [chan EXCEPT ![k] = Tail(@)]
    /\ UNCHANGED wire

WriterSends(k) ==
    /\ WriterStep(k, "send", "top")
    /\ Written(k, Head(whand[k]), TRUE)
    /\ whand' = [whand EXCEPT ![k] = <<>>]
    /\ UNCHANGED chan

\* Mutant: a request that failed is tried again after the others.
WriterRetries(k) ==
    /\ WriterStep(k, "send", "top")
    /\ Written(k, Head(whand[k]), FALSE)
    /\ chan' = [chan EXCEPT ![k] = @ \o whand[k]]
    /\ whand' = [whand EXCEPT ![k] = <<>>]

\* Mutant: a request that failed is skipped.
WriterSkips(k) ==
    /\ WriterStep(k, "send", "top")
    /\ Written(k, Head(whand[k]), FALSE)
    /\ whand' = [whand EXCEPT ![k] = <<>>]
    /\ UNCHANGED chan

WriterFails(k) ==
    /\ WriterStep(k, "send", "closing")
    /\ Written(k, Head(whand[k]), FALSE)
    /\ whand' = [whand EXCEPT ![k] = <<>>]
    /\ UNCHANGED chan

\* on_error panics when it is told of the failed write.
WriterPanics(k) ==
    /\ Panics /\ WriterEnds(k, "send", "panicked")
    /\ Written(k, Head(whand[k]), FALSE)

WriterCloses(k) ==
    /\ WriterStep(k, "closing", "flush")
    /\ \E ok \in BOOLEAN : Written(k, CloseFrame, ok)
    /\ UNCHANGED <<chan, whand>>

\* sink.close() has no timeout: it waits until all bytes are taken.
WriterFlushes(k) ==
    /\ link[k] # "stalled" /\ WriterEnds(k, "flush", "done")
    /\ UNCHANGED wire

WriterNext(k) ==
    \/ WriterLoops(k) \/ WriterLeaves(k) \/ WriterToldToStop(k)
    \/ WriterReceives(k) \/ WriterSends(k) \/ WriterFails(k)
    \/ WriterPanics(k) \/ WriterCloses(k) \/ WriterFlushes(k)

-----------------------------------------------------------------------------
(* read_loop.  A read timeout only makes it look at the flag again, and is *)
(* left out: the flag also wakes it from the read.                         *)

ReaderStep(k, from, to) ==
    /\ rpc[k] = from
    /\ rpc' = [rpc EXCEPT ![k] = to]
    /\ UNCHANGED <<app, shutdown, net, chan, writers, callers>>

ReaderLoops(k) == ~shutdown[k] /\ ReaderStep(k, "top", "read")

ReaderLeaves(k) == shutdown[k] /\ ReaderStep(k, "top", "done")

ReaderToldToStop(k) == shutdown[k] /\ ReaderStep(k, "read", "done")

\* handle_outbound: only an error that it returns ends the loop.
ReaderReceives(k, f) ==
    /\ link[k] \in {"open", "stalled"}
    /\ ReaderStep(k, "read", IF f = "history" THEN "done" ELSE "top")

\* The callback that the frame is for (on_error for two of them) panics.
ReaderPanics(k) ==
    /\ Panics /\ Incoming # {} /\ link[k] \in {"open", "stalled"}
    /\ ReaderStep(k, "read", "panicked")

\* The stream fails or ends, or brings the close frame of the server.
ReaderLost(k) == link[k] = "down" /\ ReaderStep(k, "read", "done")

ReaderNext(k) ==
    \/ ReaderLoops(k) \/ ReaderLeaves(k) \/ ReaderToldToStop(k)
    \/ \E f \in Incoming : ReaderReceives(k, f)
    \/ ReaderPanics(k) \/ ReaderLost(k)

-----------------------------------------------------------------------------
(* The network: the connection is lost or closed by the server, or the     *)
(* peer stops taking bytes, and may take them again.                       *)

LinkChanges(k, from, to) ==
    /\ link[k] \in from
    /\ link' = [link EXCEPT ![k] = to]
    /\ UNCHANGED <<app, shutdown, conn, wire, chan, rpc, writers, callers>>

LinkDrops(k) == LinkChanges(k, {"open", "stalled"}, "down")
LinkStalls(k) == Stalls /\ LinkChanges(k, {"open"}, "stalled")
LinkRecovers(k) == LinkChanges(k, {"stalled"}, "open")

-----------------------------------------------------------------------------
Next ==
    \/ ConnectCall \/ ConnectNext \/ CloseCall \/ CloseNext
    \/ \E c \in Callers : CallerNext(c)
    \/ \E k \in Conns :
        \/ WriterNext(k) \/ ReaderNext(k)
        \/ LinkDrops(k) \/ LinkStalls(k) \/ LinkRecovers(k)

Spec == Init /\ [][Next]_vars
=============================================================================
