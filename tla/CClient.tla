------------------------------- MODULE CClient ------------------------------
(***************************************************************************)
(* The client of the C SDK (wirechat-sdk-c/src/wirechat.c): connect and    *)
(* close, the requests queued by join and send, and the service thread,    *)
(* one per connect, which runs libwebsockets and its callback.             *)
(*                                                                         *)
(* The fields running, ctx, wsi and hello_sent are read and written by all *)
(* threads without the lock; a step is one such access, one section under  *)
(* the lock or one call of a library.  The n-th connect that opens makes   *)
(* the n-th context, connection and thread; 0 is NULL.                     *)
(*                                                                         *)
(* Usage, after SDK.v1.md sections 3.2 and 5.1: connect and close come     *)
(* from one thread, a connect that succeeded is followed by close; join    *)
(* and send come from any thread at any time.                              *)
(***************************************************************************)
EXTENDS Naturals, Sequences

CONSTANTS
    Callers,    \* threads that call join and send
    MaxConns,   \* bound: connections opened
    MaxCalls    \* bound: calls of join and send

ASSUME BoundsAssumption == MaxConns \in Nat \ {0} /\ MaxCalls \in Nat
ASSUME CallersAssumption == "hello" \notin Callers  \* the kind of the hello

VARIABLES
    running, helloSent,     \* client->running, client->hello_sent
    ctx, wsi,               \* client->ctx, client->wsi
    thread,                 \* client->thread
    out,                    \* the list from out_head to out_tail
    conns,                  \* connections opened so far
    context,                \* what has become of each context
    link, wire,             \* and of each connection, the frames sent on it
    want,                   \* a writeable callback was asked for
    apc,                    \* the place of connect and close
    spc, sctx, hand,        \* the service threads: place, context, message
    cpc, chand, calls,      \* the callers: place, message; calls so far
    opened,                 \* a connect succeeded and close was not called
    unsafe,                 \* a connection ended by itself; close was called,
                            \* or connect failed, during a request; or a
                            \* failed connect left messages in the list
    misuse                  \* something freed was used: no more is known

fields == <<running, helloSent, ctx, wsi, thread>>
net == <<conns, context, link, wire, want>>
services == <<spc, sctx, hand>>
callers == <<cpc, chand, calls>>
history == <<opened, unsafe, misuse>>
vars == <<fields, out, net, apc, services, callers, history>>

Conns == 1 .. MaxConns

First(s) == IF s = <<>> THEN <<>> ELSE <<Head(s)>>

Hello == [kind |-> "hello", id |-> 0, of |-> 0]
Message(c) == [kind |-> c, id |-> calls + 1, of |-> wsi]

Init ==
    /\ running = FALSE /\ helloSent = FALSE
    /\ ctx = 0 /\ wsi = 0 /\ thread = 0 /\ out = <<>>
    /\ conns = 0 /\ context = [k \in Conns |-> "unused"]
    /\ link = [k \in Conns |-> "unused"] /\ wire = [k \in Conns |-> <<>>]
    /\ want = [k \in Conns |-> FALSE]
    /\ apc = "idle"
    /\ spc = [t \in Conns |-> "off"] /\ sctx = [t \in Conns |-> 0]
    /\ hand = [t \in Conns |-> <<>>]
    /\ cpc = [c \in Callers |-> "idle"] /\ chand = [c \in Callers |-> <<>>]
    /\ calls = 0
    /\ opened = FALSE /\ unsafe = FALSE /\ misuse = FALSE

-----------------------------------------------------------------------------
(* connect.                                                                *)

AppStep(from, to) == ~misuse /\ apc = from /\ apc' = to /\ UNCHANGED callers

\* No context, no address or no connection: ctx is NULL again.
ConnectFails ==
    /\ AppStep("idle", "idle") /\ ~opened /\ ~running
    /\ ctx' = 0 /\ wsi' \in {wsi, 0}
    /\ UNCHANGED <<running, helloSent, thread, out, net, services, history>>

ConnectOpens ==
    /\ AppStep("idle", "run") /\ ~opened /\ ~running /\ conns < MaxConns
    /\ conns' = conns + 1 /\ ctx' = conns' /\ wsi' = conns'
    /\ context' = [context EXCEPT ![conns'] = "live"]
    /\ link' = [link EXCEPT ![conns'] = "connecting"]
    /\ UNCHANGED <<running, helloSent, thread, out, wire, want, services,
                   history>>

ConnectRuns ==
    /\ AppStep("run", "spawn")
    /\ running' = TRUE
    /\ UNCHANGED <<helloSent, ctx, wsi, thread, out, net, services, history>>

\* Mutant: hello_sent keeps the value it has from the connection before.
ConnectSpawnsQuiet ==
    /\ AppStep("spawn", "idle")
    /\ thread' = conns /\ opened' = TRUE
    /\ spc' = [spc EXCEPT ![conns] = "check"]
    /\ UNCHANGED <<running, helloSent, ctx, wsi, out, net, sctx, hand, unsafe,
                   misuse>>

ConnectSpawns ==
    /\ AppStep("spawn", "idle")
    /\ helloSent' = FALSE
    /\ thread' = conns /\ opened' = TRUE
    /\ spc' = [spc EXCEPT ![conns] = "check"]
    /\ UNCHANGED <<running, ctx, wsi, out, net, sctx, hand, unsafe, misuse>>

Busy == \E c \in Callers : cpc[c] # "idle"

InService(t) == spc[t] \notin {"off", "check", "done"}

\* Whoever destroys a context frees its connection too.
Destroy(k) ==
    /\ context' = [context EXCEPT ![k] = "destroyed"]
    /\ link' = [link EXCEPT ![k] = "freed"]
    /\ misuse' = \E t \in Conns : InService(t) /\ sctx[t] = k

\* Mutant: running stays set.
ConnectSpawnFailsRunning ==
    /\ AppStep("spawn", "idle")
    /\ helloSent' = FALSE
    /\ Destroy(ctx) /\ ctx' = 0
    /\ unsafe' = (unsafe \/ Busy \/ out # <<>>)
    /\ UNCHANGED <<running, wsi, thread, out, conns, wire, want, services,
                   opened>>

ConnectSpawnFails ==
    /\ AppStep("spawn", "idle")
    /\ helloSent' = FALSE /\ running' = FALSE
    /\ Destroy(ctx) /\ ctx' = 0
    /\ unsafe' = (unsafe \/ Busy \/ out # <<>>)
    /\ UNCHANGED <<wsi, thread, out, conns, wire, want, services, opened>>

ConnectNext == ConnectRuns \/ ConnectSpawns \/ ConnectSpawnFails

-----------------------------------------------------------------------------
(* close (and free, which begins with it).                                 *)

\* Mutant: the service thread is not joined.
CloseNoJoin ==
    /\ AppStep("idle", "clear")
    /\ opened' = FALSE /\ unsafe' = (unsafe \/ Busy)
    /\ running' = FALSE
    /\ UNCHANGED <<helloSent, ctx, wsi, thread, out, net, services, misuse>>

\* Mutant: the thread is not told to stop.
CloseUnmarked ==
    /\ AppStep("idle", IF running THEN "join" ELSE "clear")
    /\ opened' = FALSE /\ unsafe' = (unsafe \/ Busy)
    /\ UNCHANGED <<fields, out, net, services, misuse>>

CloseCall ==
    /\ AppStep("idle", IF running THEN "join" ELSE "clear")
    /\ opened' = FALSE /\ unsafe' = (unsafe \/ Busy)
    /\ running' = FALSE
    /\ UNCHANGED <<helloSent, ctx, wsi, thread, out, net, services, misuse>>

CloseJoins ==
    /\ AppStep("join", "clear") /\ spc[thread] = "done"
    /\ UNCHANGED <<fields, out, net, services, history>>

\* Mutant: what was queued is kept.
CloseKeeps ==
    /\ AppStep("clear", "destroy")
    /\ UNCHANGED <<fields, out, net, services, history>>

CloseClears ==
    /\ AppStep("clear", "destroy")
    /\ out' = <<>>
    /\ UNCHANGED <<fields, net, services, history>>

CloseDestroys ==
    /\ AppStep("destroy", "idle")
    /\ IF ctx # 0 THEN Destroy(ctx) ELSE UNCHANGED <<context, link, misuse>>
    /\ ctx' = 0 /\ wsi' = 0
    /\ UNCHANGED <<running, helloSent, thread, out, conns, wire, want, services,
                   opened, unsafe>>

CloseNext == CloseJoins \/ CloseClears \/ CloseDestroys

-----------------------------------------------------------------------------
(* join and send.  A call on a client that is not running returns -1.      *)

CallerStep(c, from, to) ==
    /\ ~misuse /\ cpc[c] = from
    /\ cpc' = [cpc EXCEPT ![c] = to]
    /\ UNCHANGED <<fields, apc, services, opened, unsafe>>

Call(c) ==
    /\ CallerStep(c, "idle", "enqueue") /\ calls < MaxCalls /\ running
    /\ calls' = calls + 1
    /\ chand' = [chand EXCEPT ![c] = <<Message(c)>>]
    /\ UNCHANGED <<out, net, misuse>>

\* Mutant: the message goes to the head of the list.
EnqueueFirst(c) ==
    /\ CallerStep(c, "enqueue", "wake")
    /\ out' = chand[c] \o out
    /\ chand' = [chand EXCEPT ![c] = <<>>]
    /\ UNCHANGED <<net, calls, misuse>>

Enqueue(c) ==
    /\ CallerStep(c, "enqueue", "wake")
    /\ out' = out \o chand[c]
    /\ chand' = [chand EXCEPT ![c] = <<>>]
    /\ UNCHANGED <<net, calls, misuse>>

\* Mutant: the service thread is not told of the message.
WakeNot(c) ==
    /\ CallerStep(c, "wake", "idle")
    /\ UNCHANGED <<out, net, chand, calls, misuse>>

\* lws_callback_on_writable on whatever wsi is now.
Wake(c) ==
    /\ CallerStep(c, "wake", "idle")
    /\ IF wsi # 0 /\ link[wsi] # "freed"
       THEN want' = [want EXCEPT ![wsi] = TRUE] /\ UNCHANGED misuse
       ELSE misuse' = TRUE /\ UNCHANGED want
    /\ UNCHANGED <<out, conns, context, link, wire, chand, calls>>

CallerNext(c) == Enqueue(c) \/ Wake(c)

-----------------------------------------------------------------------------
(* service_thread, and lws_callback, which runs inside lws_service.        *)

ServiceStep(t, from, to) ==
    /\ ~misuse /\ spc[t] = from
    /\ spc' = [spc EXCEPT ![t] = to]
    /\ UNCHANGED <<ctx, wsi, thread, conns, context, apc, callers, opened>>

\* The library has no lock: a context is served by one thread.
Checks(t) ==
    /\ ServiceStep(t, "check", IF running /\ ctx # 0 THEN "service" ELSE "done")
    /\ sctx' = [sctx EXCEPT ![t] = ctx]
    /\ misuse' = \E u \in Conns \ {t} : InService(t)' /\ InService(u)
                                          /\ sctx[u] = ctx
    /\ UNCHANGED <<running, helloSent, out, link, wire, want, hand, unsafe>>

Returns(t) ==
    /\ ServiceStep(t, "service", "check")
    /\ UNCHANGED <<running, helloSent, out, link, wire, want, sctx, hand,
                   unsafe, misuse>>

\* LWS_CALLBACK_CLIENT_ESTABLISHED.
Established(t) ==
    /\ ServiceStep(t, "service", "service") /\ link[sctx[t]] = "connecting"
    /\ link' = [link EXCEPT ![sctx[t]] = "open"]
    /\ want' = [want EXCEPT ![sctx[t]] = TRUE]
    /\ UNCHANGED <<running, helloSent, out, wire, sctx, hand, unsafe,
                   misuse>>

\* The result of lws_write is not looked at: on a connection that is down
\* without the library knowing it yet the frame is lost.
Sent(k, frames) ==
    wire' = IF link[k] = "open" THEN [wire EXCEPT ![k] = @ \o frames] ELSE wire

\* LWS_CALLBACK_CLIENT_WRITEABLE: the hello once, then one message.
Writeable(t) ==
    /\ ServiceStep(t, "service", "pop")
    /\ link[sctx[t]] \in {"open", "down"} /\ want[sctx[t]]
    /\ want' = [want EXCEPT ![sctx[t]] = FALSE]
    /\ helloSent' = TRUE
    /\ IF helloSent THEN UNCHANGED wire ELSE Sent(sctx[t], <<Hello>>)
    /\ UNCHANGED <<running, out, link, sctx, hand, unsafe,
                   misuse>>

\* Mutant: the message that is sent stays in the list.
PopsNot(t) ==
    /\ ServiceStep(t, "pop", "send")
    /\ hand' = [hand EXCEPT ![t] = First(out)]
    /\ UNCHANGED <<running, helloSent, out, link, wire, want, sctx, unsafe,
                   misuse>>

Pops(t) ==
    /\ ServiceStep(t, "pop", "send")
    /\ hand' = [hand EXCEPT ![t] = First(out)]
    /\ out' = SubSeq(out, 2, Len(out))
    /\ UNCHANGED <<running, helloSent, link, wire, want, sctx, unsafe,
                   misuse>>

\* What is left in the list asks for the next callback.
Sends(t) ==
    /\ ServiceStep(t, "send", "service")
    /\ Sent(sctx[t], hand[t])
    /\ hand' = [hand EXCEPT ![t] = <<>>]
    /\ want' = [want EXCEPT ![sctx[t]] = @ \/ out # <<>>]
    /\ UNCHANGED <<running, helloSent, out, link, sctx, unsafe,
                   misuse>>

\* LWS_CALLBACK_CLIENT_CLOSED or CLIENT_CONNECTION_ERROR; the library then
\* frees the connection.
Closed(t) ==
    /\ ServiceStep(t, "service", "service")
    /\ link[sctx[t]] \in {"connecting", "down"}
    /\ link' = [link EXCEPT ![sctx[t]] = "freed"]
    /\ running' = FALSE /\ unsafe' = TRUE
    /\ UNCHANGED <<helloSent, out, wire, want, sctx, hand, misuse>>

ServiceNext(t) ==
    \/ Checks(t) \/ Returns(t) \/ Established(t) \/ Writeable(t) \/ Pops(t)
    \/ Sends(t) \/ Closed(t)

-----------------------------------------------------------------------------
\* The network: a connection is lost, or closed by the server.
LinkDrops(k) ==
    /\ ~misuse /\ link[k] = "open"
    /\ link' = [link EXCEPT ![k] = "down"]
    /\ UNCHANGED <<fields, out, conns, context, wire, want, apc, services,
                   callers, history>>

Next ==
    \/ ConnectFails \/ ConnectOpens \/ ConnectNext \/ CloseCall \/ CloseNext
    \/ \E c \in Callers : Call(c) \/ CallerNext(c)
    \/ \E t \in Conns : ServiceNext(t)
    \/ \E k \in Conns : LinkDrops(k)

Spec == Init /\ [][Next]_vars
=============================================================================
